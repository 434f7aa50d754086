------------------------------ MODULE ChatTurn ------------------------------
(***************************************************************************)
(* A model call of the chat session from end to end: the context is built  *)
(* (ContextBuild), a model is chosen and the request sent to a provider    *)
(* (ModelRouting), and the call takes its course (ProviderStream).         *)
(* run in core/src/chat-session.ts awaits the one before it starts the     *)
(* next; a context that fails ends the run before any provider is asked,   *)
(* and a request that no provider takes ends in the runtime.  Where the    *)
(* runtime has no stream the session calls chat, which hands the request   *)
(* to generate and knows nothing of Stop.                                  *)
(***************************************************************************)
EXTENDS ProviderStream

CONSTANTS Cases, Memories, RecentCount, MaxResults, NoWorld,
          Profiles, Setups, Models, None

VARIABLES world, enabled, active, phase, bookAt, on, hits, memoryAt, found,
          recalled, context,
          at, profile, setup, default, own, asked, offers, request, preset,
          server, altered

Context == INSTANCE ContextBuild
Routing == INSTANCE ModelRouting WITH streamed <- path # "generate"

ASSUME NoneAssumption == None \notin {Routing!Real, Routing!Fake}
ASSUME ContextAssumption == Context!WellFormed

contextVars == <<world, enabled, active, phase, bookAt, on, hits, memoryAt, found,
                 recalled, context>>
routingVars == <<at, profile, setup, default, own, asked, offers, request, preset,
                 server, altered>>
turnVars == <<vars, contextVars, routingVars>>

-----------------------------------------------------------------------------
TurnInit ==
  /\ Init /\ path # "fallback"
  /\ Context!Init
  /\ Routing!Init

(* The context is being built, for as long as the stores take.             *)
Collect == Context!Collect /\ UNCHANGED <<vars, routingVars>>

ContextStep == Context!Next /\ UNCHANGED <<vars, routingVars>>

(* The request is begun with the context, unless Stop was asked for.       *)
Request ==
  /\ ~aborted /\ Context!HandOver
  /\ \E p \in Profiles, s \in Setups, model \in Models : Routing!Start(p, s, model)
  /\ UNCHANGED vars

Stopped ==
  /\ phase = "built" /\ aborted
  /\ phase' = "stopped"
  /\ UNCHANGED <<vars, routingVars, world, enabled, active, bookAt, on, hits,
                 memoryAt, found, recalled, context>>

(* The model is chosen and the request sent, whether or not Stop is asked  *)
(* for meanwhile.                                                          *)
Choosing(Step) == Step /\ UNCHANGED <<vars, contextVars>>

(* The runtime refuses a request without a provider, and calls stream of   *)
(* the provider, or chat of one that has no stream.                        *)
Serve ==
  /\ at = "sent"
  /\ server = Routing!Fake => path # "generate"
  /\ IF server = None
     THEN RuntimeRefuses("not_found")
     ELSE /\ path' = IF server = Routing!Fake THEN "fallback" ELSE path
          /\ UNCHANGED <<stage, aborted, timedOut, waiting, text, outcome, provider,
                         history>>
  /\ Routing!Blank("done")
  /\ UNCHANGED contextVars

(* generate with the fake provider, which answers at once.                 *)
FakeChats(t) ==
  /\ at = "sent" /\ path = "generate" /\ server = Routing!Fake
  /\ outcome' = [kind |-> "answered", text |-> <<t>>, finish |-> "stop"]
  /\ stage' = "settled"
  /\ Routing!Blank("done")
  /\ UNCHANGED <<path, aborted, timedOut, waiting, text, provider, history, contextVars>>

(* Stop is asked for before there is a call.                               *)
AbortEarly ==
  /\ phase \in {"building", "built"} \/ at \notin {"idle", "done"}
  /\ ~aborted /\ aborted' = TRUE
  /\ UNCHANGED <<path, stage, timedOut, waiting, text, outcome, provider, history,
                 contextVars, routingVars>>

(* The call, once it has a provider.                                       *)
CallStep(Step) ==
  /\ at = "done"
  /\ Step
  /\ outcome'.kind = "failed" => outcome'.code # "not_found"
  /\ UNCHANGED <<contextVars, routingVars>>

TurnNext ==
  \/ ContextStep
  \/ Request
  \/ Stopped
  \/ Choosing(Routing!Next)
  \/ Serve
  \/ \E t \in Tokens : FakeChats(t)
  \/ AbortEarly
  \/ CallStep(Next)

(* Steps that wait for no more than the stores, the retriever, a listing   *)
(* of models, which has a timeout, the event loop and the consumer.        *)
TurnOwnStep ==
  \/ Collect
  \/ Request
  \/ Stopped
  \/ Choosing(Routing!OwnStep)
  \/ Serve
  \/ \E t \in Tokens : FakeChats(t)
  \/ CallStep(OwnStep)

(* Fairness: as in ProviderStream; the stores and the retriever answer.    *)
TurnSpec ==
  /\ TurnInit /\ [][TurnNext]_turnVars
  /\ WF_turnVars(TurnOwnStep)
  /\ WF_turnVars(CallStep(TimerFires))

-----------------------------------------------------------------------------
(* Properties.                                                             *)

(* The model is asked only what was built for it by rules that keep to the *)
(* budget and put the recent conversation first (see ContextBuild).        *)
SelectionFollowsRules == Context!SelectionFollowsRules

(* The newest message is the last that the model reads (see ContextBuild). *)
QuestionComesLast == Context!QuestionComesLast

(* What was disabled or archived before the turn does not reach the model  *)
(* (see ContextBuild).                                                     *)
NothingWithdrawn == Context!NothingWithdrawn

(* A request names the model of its profile, or one of the preset it is    *)
(* sent to, and a preset that cannot be used is refused (see ModelRouting).*)
ModelFitsDestination == Routing!ModelFitsDestination

(* The phase of the turn as its caller sees it.                            *)
TurnPhase ==
  CASE phase = "stopped" -> "aborted"
    [] phase = "failed" -> IF aborted THEN "aborted" ELSE "failed"
    [] OTHER -> Phase

TurnContract ==
  INSTANCE StreamContract WITH
    Pieces <- Tokens, streamed <- path # "generate", phase <- TurnPhase,
    text <- text, final <- Final, stopped <- aborted

(* The turn keeps what the caller of the runtime relies on, and settles:   *)
(* the context fails before anything was told, and once the call is begun  *)
(* the timer bounds the server, as long as the consumer returns.           *)
TurnKeepsContract == TurnContract!Spec
=============================================================================
