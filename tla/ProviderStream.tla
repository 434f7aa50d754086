--------------------------- MODULE ProviderStream ---------------------------
(***************************************************************************)
(* One call of AiRuntime.stream or AiRuntime.generate                      *)
(* (core/src/ai-runtime.ts) with the provider that serves it: stream and   *)
(* chat of providers/chat/openai-compatible, or a provider without         *)
(* streaming such as FakeChatProvider.  A step ends where the code awaits: *)
(* the credential store, the HTTP client, the body's iterator raced with   *)
(* the abort, the consumer's onEvent, the timer.                           *)
(*                                                                         *)
(* The server's events are payloads; what a payload says is a record.  A   *)
(* chunk of the body brings some payloads, the last of which may still     *)
(* lack the blank line that ends it.  Codes name the category of a         *)
(* ChatError.                                                              *)
(*                                                                         *)
(* Definitions whose name begins with Faulty are defective variants of the *)
(* definition that follows them.  No action uses them: they are there to   *)
(* show that the properties tell the two apart.                            *)
(***************************************************************************)
EXTENDS Naturals, Sequences, FiniteSets

CONSTANTS
  Tokens,    \* the texts one delta may carry
  Payloads,  \* the payloads the server may send
  NoPayload, \* the absence of an unterminated payload
  MaxSent,   \* bound: payloads the server sends
  MaxChunk   \* bound: payloads one chunk brings

Paths == {"stream", "fallback", "generate"}
Stages == {"new", "credential", "http", "read", "process", "reporting",
           "settled"}
Known == {"stop", "length", "content_filter", "error"}
Reasons == Known \cup {"unknown"}
Codes == {"invalid_request", "not_found", "unsupported", "configuration",
          "credential", "timeout", "network", "http", "malformed",
          "incomplete"}

(* finish "none": the payload has no finish_reason.  usage and text "bad": *)
(* of a type that mapUsage or processEvent refuses.                        *)
Payload ==
  [kind : {"data", "done", "junk"}, usage : {"none", "ok", "bad"},
   finish : {"none", "tool_calls"} \cup Known,
   text : {"none", "bad"} \cup Tokens]

ASSUME PayloadsAssumption == Payloads \subseteq Payload
ASSUME NoPayloadAssumption == NoPayload \notin Payload
ASSUME TokensAssumption == {"none", "bad"} \cap Tokens = {}
ASSUME BoundsAssumption == MaxSent \in Nat /\ MaxChunk \in Nat

VARIABLES
  path,      \* which way the call takes
  stage,     \* where it awaits
  aborted,   \* options.signal.aborted
  timedOut,  \* timedOut of the provider
  buffer,    \* payloads received, terminated and not yet processed
  tail,      \* a payload whose blank line is still missing, or NoPayload
  ended,     \* the body has ended
  todo,      \* events the payload in hand still has for the consumer
  waiting,   \* the consumer's onEvent has not returned
  finish,    \* finishReason
  completed, \* completed of the provider
  text,      \* streamedText of the runtime
  outcome,   \* how the promise settled
  told,      \* history: every event handed to the consumer
  sent,      \* history: every payload received
  broken     \* history: what has gone wrong with transport or payloads

provider == <<buffer, tail, ended, todo, finish, completed>>
history == <<told, sent, broken>>
vars == <<path, stage, aborted, timedOut, waiting, text, outcome, provider,
          history>>

-----------------------------------------------------------------------------
(* What payloads mean.                                                     *)

MapFinishReason(raw) == IF raw \in Known THEN raw ELSE "unknown"

Delta(t) == [type |-> "delta", text |-> t]
UsageEvent == [type |-> "usage"]
CompletedEvent(f) == [type |-> "completed", finish |-> f]
ErrorEvent(c) == [type |-> "error", code |-> c]

(* A step at which processEvent throws stands among the events.            *)
Broken == [type |-> "throw"]

IsThrow(e) == e.type = "throw"

UsageSteps(p) ==
  CASE p.usage = "none" -> <<>>
    [] p.usage = "ok" -> <<UsageEvent>>
    [] p.usage = "bad" -> <<Broken>>

TextSteps(p) ==
  CASE p.text = "none" -> <<>>
    [] p.text = "bad" -> <<Broken>>
    [] OTHER -> <<Delta(p.text)>>

(* The reason known after a payload: [DONE] makes an unknown one a stop.   *)
FinishAfter(p, f) ==
  CASE p.kind = "done" -> IF f = "unknown" THEN "stop" ELSE f
    [] p.kind = "data" /\ p.finish # "none" -> MapFinishReason(p.finish)
    [] OTHER -> f

ProcessEvent(p, f) ==
  CASE p.kind = "junk" -> <<Broken>>
    [] p.kind = "done" -> <<CompletedEvent(FinishAfter(p, f))>>
    [] OTHER -> UsageSteps(p) \o TextSteps(p)

-----------------------------------------------------------------------------
(* Ways out.                                                               *)

(* controller.signal: aborted by the caller or by the timer.               *)
Signalled == aborted \/ timedOut

(* The timer is set once the credential is there and cleared in finally.   *)
TimerArmed == path # "fallback" /\ stage \in {"http", "read", "process"}

Code(cause) == IF timedOut THEN "timeout" ELSE cause

(* AiRuntime.fail.  The events of the bus only inform and are left out.    *)
Fail(code) ==
  /\ outcome' = [kind |-> "failed", code |-> code]
  /\ stage' = "settled"

FaultyThrow(cause) ==
  /\ todo' = <<>> /\ buffer' = <<>> /\ tail' = NoPayload
  /\ IF Signalled
     THEN /\ outcome' = [kind |-> "aborted"]
          /\ stage' = "settled"
          /\ UNCHANGED <<told, waiting>>
     ELSE /\ stage' = "reporting"
          /\ told' = Append(told, ErrorEvent(cause))
          /\ waiting' = TRUE
          /\ UNCHANGED outcome
  /\ UNCHANGED <<ended, finish, completed, text>>

(* The catch of provider.stream, then that of AiRuntime.stream: the        *)
(* caller's abort counts more than the timeout, the timeout more than the  *)
(* cause; only an abort goes out without an error event.                   *)
Throw(cause) ==
  /\ todo' = <<>> /\ buffer' = <<>> /\ tail' = NoPayload
  /\ IF aborted
     THEN /\ outcome' = [kind |-> "aborted"]
          /\ stage' = "settled"
          /\ UNCHANGED <<told, waiting>>
     ELSE /\ stage' = "reporting"
          /\ told' = Append(told, ErrorEvent(Code(cause)))
          /\ waiting' = TRUE
          /\ UNCHANGED outcome
  /\ UNCHANGED <<ended, finish, completed, text>>

-----------------------------------------------------------------------------
(* The call, up to the response's headers.                                 *)

(* The request is invalid or names no provider.                            *)
RuntimeRefuses(code) ==
  /\ stage = "new" /\ code \in {"invalid_request", "not_found"}
  /\ Fail(code)
  /\ UNCHANGED <<path, aborted, timedOut, waiting, text, provider, told, sent,
                 broken>>

Begin ==
  /\ stage = "new"
  /\ stage' = IF path = "fallback" THEN "http" ELSE "credential"
  /\ UNCHANGED <<path, aborted, timedOut, waiting, text, outcome, provider,
                 told, sent, broken>>

(* ensureConfig, the checks of the request, the credential.                *)
ProviderRefuses(code) ==
  /\ stage = "credential"
  /\ code \in {"configuration", "invalid_request", "unsupported", "credential"}
  /\ IF path = "stream"
     THEN Throw(code)
     ELSE Fail(code) /\ UNCHANGED <<waiting, text, provider, told>>
  /\ UNCHANGED <<path, aborted, timedOut, sent, broken>>

CredentialResolved ==
  /\ stage = "credential"
  /\ IF path = "stream" /\ aborted
     THEN Throw("network")
     ELSE /\ stage' = "http"
          /\ UNCHANGED <<waiting, text, outcome, provider, told>>
  /\ UNCHANGED <<path, aborted, timedOut, sent, broken>>

HttpAnswers(ok) ==
  /\ stage = "http" /\ path = "stream"
  /\ broken' = IF ok THEN broken ELSE broken \cup {"http"}
  /\ IF ok /\ ~Signalled
     THEN /\ stage' = "read"
          /\ UNCHANGED <<waiting, text, outcome, provider, told>>
     ELSE Throw("http")
  /\ UNCHANGED <<path, aborted, timedOut, sent>>

(* fetch rejects: the network is down, or the signal was raised.           *)
HttpRejects ==
  /\ stage = "http" /\ path = "stream"
  /\ broken' = IF Signalled THEN broken ELSE broken \cup {"network"}
  /\ Throw("network")
  /\ UNCHANGED <<path, aborted, timedOut, sent>>

-----------------------------------------------------------------------------
(* chat of the providers.                                                  *)

(* requestWithTimeout: the answer, its failure and the timer race.         *)
ChatAnswers(t, raw) ==
  /\ stage = "http" /\ path = "generate" /\ ~timedOut
  /\ outcome' = [kind |-> "answered", text |-> <<t>>,
                 finish |-> MapFinishReason(raw)]
  /\ stage' = "settled"
  /\ UNCHANGED <<path, aborted, timedOut, waiting, text, provider, told, sent,
                 broken>>

ChatFails(code) ==
  /\ stage = "http" /\ path = "generate" /\ ~timedOut
  /\ code \in {"http", "network", "malformed"}
  /\ broken' = broken \cup {code}
  /\ Fail(code)
  /\ UNCHANGED <<path, aborted, timedOut, waiting, text, provider, told, sent>>

ChatTimesOut ==
  /\ stage = "http" /\ path = "generate" /\ timedOut
  /\ Fail("timeout")
  /\ UNCHANGED <<path, aborted, timedOut, waiting, text, provider, told, sent,
                 broken>>

(* A provider without streaming: the whole answer is one delta.            *)
FallbackAnswers(t) ==
  /\ stage = "http" /\ path = "fallback"
  /\ todo' = <<Delta(t), CompletedEvent("stop")>>
  /\ finish' = "stop" /\ ended' = TRUE
  /\ stage' = "process"
  /\ UNCHANGED <<path, aborted, timedOut, waiting, text, outcome, buffer, tail,
                 completed, history>>

-----------------------------------------------------------------------------
(* The body of a streamed answer.                                          *)

PieceSeqs == UNION {[1..n -> Payloads] : n \in 1..MaxChunk}

(* A chunk ends the unterminated payload, if there is one, and brings      *)
(* more, of which the last may be left unterminated.                       *)
ReadChunk(ps, open) ==
  /\ stage = "read" /\ ~Signalled
  /\ Len(sent) + Len(ps) <= MaxSent
  /\ LET all == (IF tail = NoPayload THEN <<>> ELSE <<tail>>) \o ps IN
     IF open
     THEN /\ buffer' = SubSeq(all, 1, Len(all) - 1)
          /\ tail' = all[Len(all)]
     ELSE /\ buffer' = all
          /\ tail' = NoPayload
  /\ sent' = sent \o ps
  /\ stage' = "process"
  /\ UNCHANGED <<path, aborted, timedOut, ended, todo, waiting, finish,
                 completed, text, outcome, told, broken>>

FaultyReadEnd(left) ==
  /\ stage = "read" /\ ~Signalled
  /\ left # "whole" => tail # NoPayload
  /\ ended' = TRUE
  /\ tail' = NoPayload
  /\ buffer' = <<>>
  /\ todo' = IF left = "cut" THEN <<Broken>> ELSE <<>>
  /\ sent' = IF left = "lost" THEN SubSeq(sent, 1, Len(sent) - 1) ELSE sent
  /\ stage' = "process"
  /\ UNCHANGED <<path, aborted, timedOut, waiting, finish, completed, text,
                 outcome, told, broken>>

(* The body ends; what is left in the buffer is processed as it is.  The   *)
(* end may have cut the payload, which leaves malformed JSON, or even its  *)
(* "data:", which leaves nothing.                                          *)
ReadEnd(left) ==
  /\ stage = "read" /\ ~Signalled
  /\ left # "whole" => tail # NoPayload
  /\ ended' = TRUE
  /\ tail' = NoPayload
  /\ buffer' = IF left = "whole" /\ tail # NoPayload THEN <<tail>> ELSE <<>>
  /\ todo' = IF left = "cut" THEN <<Broken>> ELSE <<>>
  /\ sent' = IF left = "lost" THEN SubSeq(sent, 1, Len(sent) - 1) ELSE sent
  /\ stage' = "process"
  /\ UNCHANGED <<path, aborted, timedOut, waiting, finish, completed, text,
                 outcome, told, broken>>

(* A delivered chunk may also bring only the rest of the payload.          *)
TailTerminated ==
  /\ stage = "read" /\ ~Signalled /\ tail # NoPayload
  /\ buffer' = <<tail>> /\ tail' = NoPayload
  /\ stage' = "process"
  /\ UNCHANGED <<path, aborted, timedOut, ended, todo, waiting, finish,
                 completed, text, outcome, history>>

ReadFails ==
  /\ stage = "read" /\ ~Signalled
  /\ broken' = broken \cup {"network"}
  /\ Throw("network")
  /\ UNCHANGED <<path, aborted, timedOut, sent>>

(* The abort wins the race with the iterator.                              *)
ReadAborted ==
  /\ stage = "read" /\ Signalled
  /\ Throw("network")
  /\ UNCHANGED <<path, aborted, timedOut, sent, broken>>

Idle == stage = "process" /\ ~waiting /\ todo = <<>>

TakePayload ==
  /\ Idle /\ ~completed /\ buffer # <<>>
  /\ todo' = ProcessEvent(Head(buffer), finish)
  /\ finish' = FinishAfter(Head(buffer), finish)
  /\ buffer' = Tail(buffer)
  /\ UNCHANGED <<path, stage, aborted, timedOut, tail, ended, waiting,
                 completed, text, outcome, history>>

NextChunk ==
  /\ Idle /\ ~completed /\ buffer = <<>> /\ ~ended
  /\ stage' = "read"
  /\ UNCHANGED <<path, aborted, timedOut, waiting, text, outcome, provider,
                 history>>

(* After the end: complete with the reason known, or refuse.               *)
EndReached ==
  /\ Idle /\ ~completed /\ buffer = <<>> /\ ended
  /\ IF finish = "unknown"
     THEN /\ broken' = broken \cup {"incomplete"}
          /\ Throw("incomplete")
     ELSE /\ todo' = <<CompletedEvent(finish)>>
          /\ UNCHANGED <<stage, waiting, text, outcome, buffer, tail, ended,
                         finish, completed, told, broken>>
  /\ UNCHANGED <<path, aborted, timedOut, sent>>

FaultyTellConsumer ==
  /\ stage = "process" /\ ~waiting /\ todo # <<>> /\ ~IsThrow(Head(todo))
  /\ LET e == Head(todo) IN
     /\ told' = Append(told, e)
     /\ text' = IF e.type = "delta" THEN Append(text, e.text) ELSE text
     /\ completed' = (completed \/ e.type = "completed")
  /\ todo' = <<>>
  /\ waiting' = TRUE
  /\ UNCHANGED <<path, stage, aborted, timedOut, buffer, tail, ended, finish,
                 outcome, sent, broken>>

(* forward: the runtime counts the event in and awaits the consumer.       *)
TellConsumer ==
  /\ stage = "process" /\ ~waiting /\ todo # <<>> /\ ~IsThrow(Head(todo))
  /\ LET e == Head(todo) IN
     /\ told' = Append(told, e)
     /\ text' = IF e.type = "delta" THEN Append(text, e.text) ELSE text
     /\ completed' = (completed \/ e.type = "completed")
     /\ buffer' = IF e.type = "completed" THEN <<>> ELSE buffer
  /\ todo' = Tail(todo)
  /\ waiting' = TRUE
  /\ UNCHANGED <<path, stage, aborted, timedOut, tail, ended, finish, outcome,
                 sent, broken>>

PayloadRefused ==
  /\ stage = "process" /\ ~waiting /\ todo # <<>> /\ IsThrow(Head(todo))
  /\ broken' = broken \cup {"malformed"}
  /\ Throw("malformed")
  /\ UNCHANGED <<path, aborted, timedOut, sent>>

(* onEvent returns or fails: a failure of the consumer is swallowed.       *)
ConsumerReturns ==
  /\ waiting /\ stage = "process"
  /\ waiting' = FALSE
  /\ UNCHANGED <<path, stage, aborted, timedOut, text, outcome, provider,
                 history>>

(* The stream was completed and its last event consumed.                   *)
Respond ==
  /\ Idle /\ completed
  /\ outcome' = [kind |-> "answered", text |-> text, finish |-> finish]
  /\ stage' = "settled"
  /\ UNCHANGED <<path, aborted, timedOut, waiting, text, provider, told, sent,
                 broken>>

(* The consumer has been told of the error; the runtime fails.             *)
ErrorReported ==
  /\ stage = "reporting"
  /\ waiting' = FALSE
  /\ Fail(told[Len(told)].code)
  /\ UNCHANGED <<path, aborted, timedOut, text, provider, told, sent, broken>>

-----------------------------------------------------------------------------
(* The caller and the clock.                                               *)

Abort ==
  /\ path # "generate" /\ ~aborted /\ stage # "settled"
  /\ aborted' = TRUE
  /\ UNCHANGED <<path, stage, timedOut, waiting, text, outcome, provider,
                 history>>

FaultyTimerFires ==
  /\ stage = "http" /\ path # "fallback" /\ ~timedOut
  /\ timedOut' = TRUE
  /\ UNCHANGED <<path, stage, aborted, waiting, text, outcome, provider,
                 history>>

TimerFires ==
  /\ TimerArmed /\ ~timedOut
  /\ timedOut' = TRUE
  /\ UNCHANGED <<path, stage, aborted, waiting, text, outcome, provider,
                 history>>

-----------------------------------------------------------------------------
Init ==
  /\ path \in Paths
  /\ stage = "new" /\ aborted = FALSE /\ timedOut = FALSE
  /\ buffer = <<>> /\ tail = NoPayload /\ ended = FALSE /\ todo = <<>>
  /\ waiting = FALSE /\ finish = "unknown" /\ completed = FALSE
  /\ text = <<>> /\ outcome = [kind |-> "none"]
  /\ told = <<>> /\ sent = <<>> /\ broken = {}

(* Steps that only wait for the event loop, the consumer, the credential   *)
(* store or the rejection that the raised signal brings about.             *)
OwnStep ==
  \/ Begin
  \/ CredentialResolved
  \/ Signalled /\ HttpRejects
  \/ ChatTimesOut
  \/ \E t \in Tokens : FallbackAnswers(t)
  \/ ReadAborted
  \/ TakePayload
  \/ NextChunk
  \/ EndReached
  \/ TellConsumer
  \/ PayloadRefused
  \/ ConsumerReturns
  \/ Respond
  \/ ErrorReported

Environment ==
  \/ \E code \in Codes : RuntimeRefuses(code) \/ ProviderRefuses(code)
  \/ \E ok \in BOOLEAN : HttpAnswers(ok)
  \/ HttpRejects
  \/ \E t \in Tokens, raw \in {"stop", "tool_calls"} : ChatAnswers(t, raw)
  \/ \E code \in Codes : ChatFails(code)
  \/ \E ps \in PieceSeqs, open \in BOOLEAN : ReadChunk(ps, open)
  \/ \E left \in {"whole", "cut", "lost"} : ReadEnd(left)
  \/ TailTerminated
  \/ ReadFails
  \/ Abort

Next == OwnStep \/ Environment \/ TimerFires

SafeSpec == Init /\ [][Next]_vars

(* Fairness: the event loop runs what is ready, consumers return, and the  *)
(* timer fires.  The server and the user owe nothing.                      *)
Spec == SafeSpec /\ WF_vars(OwnStep) /\ WF_vars(TimerFires)

-----------------------------------------------------------------------------
(* Properties.                                                             *)

ConsumerEvent ==
  [type : {"delta"}, text : Tokens] \cup [type : {"usage"}]
    \cup [type : {"completed"}, finish : Reasons]
    \cup [type : {"error"}, code : Codes]

Outcome ==
  [kind : {"none", "aborted"}] \cup [kind : {"failed"}, code : Codes]
    \cup [kind : {"answered"}, text : Seq(Tokens), finish : Reasons]

(* Type invariant of the call and its history.                             *)
TypeOK ==
  /\ path \in Paths /\ stage \in Stages
  /\ aborted \in BOOLEAN /\ timedOut \in BOOLEAN /\ ended \in BOOLEAN
  /\ waiting \in BOOLEAN /\ completed \in BOOLEAN
  /\ buffer \in Seq(Payload) /\ tail \in Payload \cup {NoPayload}
  /\ todo \in Seq(ConsumerEvent \cup {Broken})
  /\ finish \in Reasons /\ text \in Seq(Tokens) /\ outcome \in Outcome
  /\ told \in Seq(ConsumerEvent) /\ sent \in Seq(Payload)
  /\ broken \subseteq Codes

(* The failure reported is the one that happened: an abort only when the   *)
(* caller asked, a timeout exactly when the timer fired, and a network,    *)
(* HTTP, malformed or incomplete answer only when there was one.  (The     *)
(* catch blocks of stream and the race of its loop and of                  *)
(* requestWithTimeout.)                                                    *)
CauseIsTrue ==
  /\ outcome.kind = "aborted" => aborted
  /\ outcome.kind = "failed" =>
       /\ (outcome.code = "timeout") = timedOut
       /\ outcome.code \in {"network", "http", "malformed", "incomplete"}
            => outcome.code \in broken

HasText(p) == p.kind = "data" /\ p.text \in Tokens
IsDelta(e) == e.type = "delta"

Rank(places, i) == Cardinality({j \in places : j <= i})

(* The texts are those of the records at these positions, in their order:  *)
(* of the first of them, or of all.                                        *)
Opening(texts, records, places) ==
  /\ Len(texts) <= Cardinality(places)
  /\ \A i \in places :
       Rank(places, i) <= Len(texts) => texts[Rank(places, i)] = records[i].text

Whole(texts, records, places) ==
  Opening(texts, records, places) /\ Len(texts) = Cardinality(places)

(* Where the consumer was told a text, and where the server has sent one   *)
(* before its [DONE].                                                      *)
Deltas(events) == {i \in 1..Len(events) : IsDelta(events[i])}

Spoken(payloads) ==
  {i \in 1..Len(payloads) :
     /\ HasText(payloads[i])
     /\ \A j \in 1..i : payloads[j].kind # "done"}

(* However the body is cut into chunks and whatever races with it, the     *)
(* consumer is told the server's texts in order, without gap or            *)
(* repetition, the runtime counts in what it tells, and nothing follows a  *)
(* completion or an error.  An answer is fulfilled with everything the     *)
(* server sent and with the completion the consumer was told, even when    *)
(* the abort or the timer came in while the consumer was busy.             *)
(* (processEvent, forward.)                                                *)
ConsumerSeesTheStream ==
  path = "stream" =>
    /\ Whole(text, told, Deltas(told))
    /\ Opening(text, sent, Spoken(sent))
    /\ \A i \in DOMAIN told :
         told[i].type \in {"completed", "error"} => i = Len(told)
    /\ outcome.kind = "answered" =>
         /\ Whole(outcome.text, sent, Spoken(sent))
         /\ told[Len(told)] = CompletedEvent(outcome.finish)

(* The contract, read off the call: a call is open until it settles, and   *)
(* an answer of generate is told nobody.                                   *)
Phase == IF outcome.kind = "none" THEN "open" ELSE outcome.kind

Final ==
  IF told # <<>> /\ told[Len(told)].type \in {"completed", "error"}
  THEN told[Len(told)].type ELSE "none"

Contract ==
  INSTANCE StreamContract WITH
    Pieces <- Tokens, streamed <- path # "generate", phase <- Phase,
    text <- text, final <- Final, stopped <- aborted
=============================================================================
