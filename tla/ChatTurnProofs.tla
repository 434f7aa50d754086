--------------------------- MODULE ChatTurnProofs ---------------------------
(***************************************************************************)
(* Proofs about a model call and the turn it is part of, for any texts,    *)
(* payloads, conversations, profiles and runtimes.  First the call by      *)
(* itself (ProviderStream): its types, the truth of what it reports, and   *)
(* that it implements StreamContract.  The invariant says which event is   *)
(* the last that was told at each stage, and that a completion is the last *)
(* step of the payload in hand.  Then the turn (ChatTurn): the same for a  *)
(* call that a context, the choice of a model and an early stop precede,   *)
(* and where its request goes.  Last the context (ContextBuild): what is   *)
(* chosen, in which order, and that nothing withdrawn is.                  *)
(***************************************************************************)
EXTENDS ChatTurn, FiniteSetTheorems, SequenceTheorems, WellFoundedInduction, TLAPS

Step == ConsumerEvent \cup {Broken}

Causes == {"network", "http", "malformed", "incomplete"}

\* What may be told of a failure as things are.
True(c) ==
  /\ (c = "timeout") = timedOut
  /\ c \in Causes => c \in broken

OutcomeFits ==
  /\ outcome.kind = "none" <=> stage # "settled"
  /\ stage \in {"new", "credential"} => ~timedOut

LastTold ==
  /\ stage = "reporting" =>
       \E c \in Codes : told # <<>> /\ told[Len(told)] = ErrorEvent(c) /\ True(c)
  /\ stage \notin {"reporting", "settled"} =>
       Final = IF completed THEN "completed" ELSE "none"

InHand ==
  /\ \A i \in 1..Len(todo) :
       /\ todo[i].type # "error"
       /\ todo[i].type = "completed" => i = Len(todo)
  /\ todo # <<>> => stage = "process" /\ ~completed
  /\ completed => stage \in {"process", "settled"}
  /\ path = "generate" =>
       stage \in {"new", "credential", "http", "settled"} /\ told = <<>> /\ ~completed

Inv == TypeOK /\ CauseIsTrue /\ OutcomeFits /\ LastTold /\ InHand

-----------------------------------------------------------------------------
(* Payloads.                                                               *)

\* A payload leaves a reason that the contract knows.
LEMMA ReasonAfter ==
  ASSUME NEW p \in Payload, NEW f \in Reasons
  PROVE  FinishAfter(p, f) \in Reasons
  BY DEF FinishAfter, MapFinishReason, Payload, Reasons, Known

\* A payload is taken apart into steps, of which only [DONE]'s completes.
LEMMA StepsOfPayload ==
  ASSUME NEW p \in Payload, NEW f \in Reasons
  PROVE  /\ ProcessEvent(p, f) \in Seq(Step)
         /\ \A i \in 1..Len(ProcessEvent(p, f)) :
              /\ ProcessEvent(p, f)[i].type # "error"
              /\ ProcessEvent(p, f)[i].type = "completed" =>
                   i = Len(ProcessEvent(p, f))
  <1> DEFINE Plain(s) == s \in Seq(Step)
                         /\ \A i \in 1..Len(s) : s[i].type \notin {"error", "completed"}
  <1>0. Plain(<<>>) /\ Plain(<<Broken>>)
    <2>1. <<>> \in Seq(Step) /\ Len(<<>>) = 0
      OBVIOUS
    <2>2. Broken \in Step /\ Broken.type = "throw"
      BY DEF Broken, Step, ConsumerEvent
    <2> QED BY <2>1, <2>2
  <1>1. Plain(UsageSteps(p))
    <2>1. UsageEvent \in Step /\ UsageEvent.type = "usage"
      BY DEF UsageEvent, Step, ConsumerEvent
    <2>2. Plain(<<UsageEvent>>)
      BY <2>1
    <2>3. p.usage \in {"none", "ok", "bad"}
      BY DEF Payload
    <2>4. UsageSteps(p) = <<>> \/ UsageSteps(p) = <<UsageEvent>>
          \/ UsageSteps(p) = <<Broken>>
      BY <2>3 DEF UsageSteps
    <2> HIDE DEF Plain
    <2> QED BY <1>0, <2>2, <2>4
  <1>2. Plain(TextSteps(p))
    <2>2. CASE p.text \in {"none", "bad"}
      <3>1. TextSteps(p) = <<>> \/ TextSteps(p) = <<Broken>>
        BY <2>2 DEF TextSteps
      <3> HIDE DEF Plain
      <3> QED BY <1>0, <3>1
    <2>3. CASE p.text \notin {"none", "bad"}
      <3>1. TextSteps(p) = <<Delta(p.text)>>
        BY <2>3 DEF TextSteps
      <3>2. p.text \in Tokens
        BY <2>3 DEF Payload
      <3>3. Delta(p.text) \in Step /\ Delta(p.text).type = "delta"
        BY <3>2 DEF Delta, Step, ConsumerEvent
      <3> QED BY <3>1, <3>3
    <2> QED BY <2>2, <2>3
  <1>3. Plain(UsageSteps(p) \o TextSteps(p))
    <2> DEFINE u == UsageSteps(p)
               t == TextSteps(p)
    <2>1. u \in Seq(Step) /\ t \in Seq(Step) /\ Len(u) \in Nat /\ Len(t) \in Nat
      BY <1>1, <1>2
    <2>2. /\ u \o t \in Seq(Step) /\ Len(u \o t) = Len(u) + Len(t)
          /\ \A i \in 1..Len(u) : (u \o t)[i] = u[i]
          /\ \A i \in Len(u) + 1..Len(u) + Len(t) : (u \o t)[i] = t[i - Len(u)]
      BY <2>1
    <2>3. ASSUME NEW i \in 1..Len(u \o t)
          PROVE  (u \o t)[i].type \notin {"error", "completed"}
      <3>1. CASE i <= Len(u)
        BY <1>1, <2>1, <2>2, <3>1
      <3>2. CASE i > Len(u)
        BY <1>2, <2>1, <2>2, <3>2
      <3> QED BY <2>1, <2>2, <3>1, <3>2
    <2> QED BY <2>2, <2>3
  <1>4. CASE p.kind = "junk"
    <2>1. ProcessEvent(p, f) = <<Broken>> /\ Broken \in Step /\ Broken.type = "throw"
      BY <1>4 DEF ProcessEvent, Broken, Step
    <2> QED BY <2>1
  <1>5. CASE p.kind = "done"
    <2> DEFINE e == CompletedEvent(FinishAfter(p, f))
    <2>1. ProcessEvent(p, f) = <<e>>
      BY <1>5 DEF ProcessEvent
    <2>2. e \in Step /\ e.type = "completed"
      BY ReasonAfter DEF CompletedEvent, Step, ConsumerEvent
    <2> QED BY <2>1, <2>2
  <1>6. CASE p.kind \notin {"junk", "done"}
    <2>1. ProcessEvent(p, f) = UsageSteps(p) \o TextSteps(p)
      BY <1>6 DEF ProcessEvent
    <2> QED BY <1>3, <2>1
  <1> QED BY <1>4, <1>5, <1>6

-----------------------------------------------------------------------------
(* Kinds of steps.                                                         *)

\* A step that tells nothing and settles nothing.
LEMMA QuietStep ==
  ASSUME Inv, UNCHANGED <<path, timedOut, outcome, told, completed>>,
         stage \notin {"reporting", "settled"},
         stage' \notin {"reporting", "settled"},
         stage' \in {"new", "credential"} => stage \in {"new", "credential"},
         TypeOK', InHand'
  PROVE  Inv'
  <1>1. outcome.kind = "none"
    BY DEF Inv, OutcomeFits
  <1>2. CauseIsTrue'
    BY <1>1 DEF CauseIsTrue
  <1>3. OutcomeFits' /\ LastTold'
    BY <1>1 DEF Inv, OutcomeFits, LastTold, Final
  <1> QED BY <1>2, <1>3 DEF Inv

\* A failure goes out.
LEMMA FailStep ==
  ASSUME Inv, NEW code \in Codes, Fail(code),
         (code = "timeout") = timedOut, code \in Causes => code \in broken',
         stage # "process", broken' \subseteq Codes, waiting' \in BOOLEAN,
         UNCHANGED <<path, aborted, timedOut, text, provider, told, sent>>
  PROVE  Inv'
  <1>1. outcome' = [kind |-> "failed", code |-> code] /\ stage' = "settled"
        /\ UNCHANGED <<buffer, tail, ended, todo, finish, completed>>
    BY DEF Fail, provider
  <1>2. outcome' \in Outcome
    BY <1>1 DEF Outcome
  <1>3. TypeOK'
    BY <1>1, <1>2 DEF Inv, TypeOK, Stages
  <1>4. CauseIsTrue'
    BY <1>1 DEF CauseIsTrue, Causes
  <1>5. OutcomeFits' /\ LastTold'
    BY <1>1 DEF OutcomeFits, LastTold
  <1>6. InHand'
    BY <1>1 DEF Inv, InHand
  <1> QED BY <1>3, <1>4, <1>5, <1>6 DEF Inv

\* The stream breaks off.
LEMMA ThrowStep ==
  ASSUME Inv, NEW cause \in Codes, cause # "timeout", Throw(cause),
         stage \notin {"new", "reporting", "settled"}, path # "generate", ~completed,
         broken' \subseteq Codes, cause \in Causes /\ ~Signalled => cause \in broken',
         UNCHANGED <<path, aborted, timedOut, sent>>
  PROVE  Inv'
  <1>1. /\ todo' = <<>> /\ buffer' = <<>> /\ tail' = NoPayload
        /\ UNCHANGED <<ended, finish, completed, text>>
    BY DEF Throw
  <1>2. outcome.kind = "none"
    BY DEF Inv, OutcomeFits
  <1>3. InHand'
    <2>1. Len(todo') = 0
      BY <1>1
    <2> QED BY <1>1, <2>1 DEF InHand
  <1>4. CASE aborted
    <2>1. /\ outcome' = [kind |-> "aborted"] /\ stage' = "settled"
          /\ UNCHANGED <<told, waiting>>
      BY <1>4 DEF Throw
    <2>2. outcome' \in Outcome
      BY <2>1 DEF Outcome
    <2>3. TypeOK'
      BY <1>1, <2>1, <2>2 DEF Inv, TypeOK, Stages
    <2>4. CauseIsTrue' /\ OutcomeFits' /\ LastTold'
      BY <1>4, <2>1 DEF CauseIsTrue, OutcomeFits, LastTold
    <2> QED BY <1>3, <2>3, <2>4 DEF Inv
  <1>5. CASE ~aborted
    <2>0. Code(cause) \in Codes
      BY DEF Code, Codes
    <2> PICK c \in Codes : c = Code(cause)
      BY <2>0
    <2> DEFINE e == ErrorEvent(c)
    <2>1. /\ stage' = "reporting" /\ told' = Append(told, e)
          /\ waiting' = TRUE /\ outcome' = outcome
      BY <1>5 DEF Throw
    <2>3. e \in ConsumerEvent
      BY DEF ErrorEvent, ConsumerEvent
    <2>4. told \in Seq(ConsumerEvent)
      BY DEF Inv, TypeOK
    <2> HIDE DEF e
    <2>5. told' \in Seq(ConsumerEvent) /\ told' # <<>> /\ told'[Len(told')] = e
      BY <2>1, <2>3, <2>4
    <2>6. TypeOK'
      BY <1>1, <2>1, <2>5 DEF Inv, TypeOK, Stages
    <2>7. CauseIsTrue' /\ OutcomeFits'
      BY <1>2, <2>1 DEF CauseIsTrue, OutcomeFits
    <2>8. True(c)'
      BY <1>5 DEF True, Code, Signalled, Causes, Inv, TypeOK
    <2>9. LastTold'
      BY <2>1, <2>5, <2>8 DEF LastTold, e
    <2> QED BY <1>3, <2>6, <2>7, <2>9 DEF Inv
  <1> QED BY <1>4, <1>5

-----------------------------------------------------------------------------
(* Steps.                                                                  *)

\* The call's beginning, and its refusal before anything is sent.
LEMMA BeginSteps ==
  ASSUME Inv,
         \/ Begin
         \/ CredentialResolved
         \/ \E code \in Codes : RuntimeRefuses(code) \/ ProviderRefuses(code)
  PROVE  Inv'
  <1>1. CASE Begin
    <2>1. TypeOK' /\ InHand'
      BY <1>1 DEF Begin, Inv, TypeOK, InHand, Stages, provider
    <2> QED BY <1>1, <2>1, QuietStep DEF Begin, provider
  <1>2. ASSUME NEW code \in Codes, RuntimeRefuses(code) PROVE Inv'
    <2>1. ~timedOut /\ broken' = broken /\ broken \subseteq Codes /\ waiting \in BOOLEAN
          /\ stage = "new"
      BY <1>2 DEF RuntimeRefuses, Inv, OutcomeFits, TypeOK
    <2>2. code \notin Causes /\ code # "timeout"
      BY <1>2 DEF RuntimeRefuses, Causes
    <2>3. (code = "timeout") = timedOut
      BY <2>1, <2>2 DEF Inv, TypeOK
    <2> QED BY <1>2, <2>1, <2>2, <2>3, FailStep DEF RuntimeRefuses
  <1>3. ASSUME NEW code \in Codes, ProviderRefuses(code) PROVE Inv'
    <2>1. ~timedOut /\ broken' = broken /\ broken \subseteq Codes /\ waiting \in BOOLEAN
          /\ stage = "credential" /\ ~completed
      BY <1>3 DEF ProviderRefuses, Inv, OutcomeFits, TypeOK, InHand
    <2>2. code \in {"configuration", "invalid_request", "unsupported", "credential"}
      BY <1>3 DEF ProviderRefuses
    <2>3. code \notin Causes /\ code # "timeout"
      BY <2>2 DEF Causes
    <2>4. CASE path = "stream"
      BY <1>3, <2>1, <2>3, <2>4, ThrowStep DEF ProviderRefuses
    <2>5. CASE path # "stream"
      <3>1. (code = "timeout") = timedOut
        BY <2>1, <2>3 DEF Inv, TypeOK
      <3> QED BY <1>3, <2>1, <2>3, <2>5, <3>1, FailStep DEF ProviderRefuses
    <2> QED BY <2>4, <2>5
  <1>4. CASE CredentialResolved
    <2>1. ~completed /\ broken' = broken /\ broken \subseteq Codes /\ stage = "credential"
      BY <1>4 DEF CredentialResolved, Inv, InHand, TypeOK
    <2>2. CASE path = "stream" /\ aborted
      <3>1. "network" \in Codes /\ Signalled
        BY <2>2 DEF Codes, Signalled
      <3> QED BY <1>4, <2>1, <2>2, <3>1, ThrowStep DEF CredentialResolved
    <2>3. CASE ~(path = "stream" /\ aborted)
      <3>1. TypeOK' /\ InHand' /\ stage' = "http"
        BY <1>4, <2>3 DEF CredentialResolved, Inv, TypeOK, InHand, Stages, provider
      <3> QED BY <1>4, <2>1, <2>3, <3>1, QuietStep DEF CredentialResolved, provider
    <2> QED BY <2>2, <2>3
  <1> QED BY <1>1, <1>2, <1>3, <1>4

\* What the HTTP client answers, or that it rejects.
LEMMA HttpSteps ==
  ASSUME Inv,
         \/ \E ok \in BOOLEAN : HttpAnswers(ok)
         \/ HttpRejects
  PROVE  Inv'
  <1>0. stage = "http" /\ path = "stream" /\ ~completed /\ broken \subseteq Codes
        /\ UNCHANGED <<path, aborted, timedOut, sent>>
    BY DEF HttpAnswers, HttpRejects, Inv, InHand, TypeOK
  <1>1. {"http", "network"} \subseteq Codes
    BY DEF Codes
  <1>2. CASE HttpRejects
    <2>1. broken' \subseteq Codes /\ (~Signalled => "network" \in broken')
      BY <1>0, <1>1, <1>2 DEF HttpRejects
    <2> QED BY <1>0, <1>1, <1>2, <2>1, ThrowStep DEF HttpRejects
  <1>3. ASSUME NEW ok \in BOOLEAN, HttpAnswers(ok) PROVE Inv'
    <2>1. CASE ok /\ ~Signalled
      <3>1. TypeOK' /\ InHand' /\ stage' = "read"
        BY <1>0, <1>3, <2>1 DEF HttpAnswers, Inv, TypeOK, InHand, Stages, provider
      <3> QED BY <1>0, <1>3, <2>1, <3>1, QuietStep DEF HttpAnswers, provider
    <2>2. CASE ~(ok /\ ~Signalled)
      <3>1. broken' \subseteq Codes /\ (~Signalled => "http" \in broken')
        BY <1>0, <1>1, <1>3, <2>2 DEF HttpAnswers
      <3> QED BY <1>0, <1>1, <1>3, <2>2, <3>1, ThrowStep DEF HttpAnswers
    <2> QED BY <2>1, <2>2
  <1> QED BY <1>2, <1>3

\* generate settles by the answer, a failure or the timer.
LEMMA ChatSteps ==
  ASSUME Inv,
         \/ \E t \in Tokens, raw \in {"stop", "tool_calls"} : ChatAnswers(t, raw)
         \/ \E code \in Codes : ChatFails(code)
         \/ ChatTimesOut
  PROVE  Inv'
  <1>1. ASSUME NEW t \in Tokens, NEW raw \in {"stop", "tool_calls"},
               ChatAnswers(t, raw)
        PROVE  Inv'
    <2>1. /\ outcome' = [kind |-> "answered", text |-> <<t>>,
                         finish |-> MapFinishReason(raw)]
          /\ stage' = "settled" /\ stage = "http"
          /\ UNCHANGED <<path, aborted, timedOut, waiting, text, told, sent, broken,
                         buffer, tail, ended, todo, finish, completed>>
      BY <1>1 DEF ChatAnswers, provider
    <2>2. outcome' \in Outcome
      <3>1. MapFinishReason(raw) \in Reasons /\ <<t>> \in Seq(Tokens)
        BY DEF MapFinishReason, Reasons, Known
      <3> QED BY <2>1, <3>1 DEF Outcome
    <2>3. TypeOK'
      BY <2>1, <2>2 DEF Inv, TypeOK, Stages
    <2>4. CauseIsTrue' /\ OutcomeFits' /\ LastTold' /\ InHand'
      BY <2>1 DEF Inv, CauseIsTrue, OutcomeFits, LastTold, InHand
    <2> QED BY <2>3, <2>4 DEF Inv
  <1>2. ASSUME NEW code \in Codes, ChatFails(code) PROVE Inv'
    <2>1. ~timedOut /\ broken' = broken \cup {code} /\ stage = "http"
          /\ code \in {"http", "network", "malformed"}
      BY <1>2 DEF ChatFails
    <2>2. (code = "timeout") = timedOut /\ broken' \subseteq Codes /\ waiting \in BOOLEAN
      BY <2>1 DEF Inv, TypeOK
    <2> QED BY <1>2, <2>1, <2>2, FailStep DEF ChatFails
  <1>3. CASE ChatTimesOut
    <2>1. timedOut = TRUE /\ broken' = broken /\ stage = "http" /\ broken \subseteq Codes
          /\ waiting \in BOOLEAN
      BY <1>3 DEF ChatTimesOut, Inv, TypeOK
    <2>2. "timeout" \in Codes \ Causes
      BY DEF Codes, Causes
    <2> QED BY <1>3, <2>1, <2>2, FailStep DEF ChatTimesOut
  <1> QED BY <1>1, <1>2, <1>3

\* An answer in one piece: its completion is the last step in hand.
LEMMA FallbackStep ==
  ASSUME Inv, NEW t \in Tokens, FallbackAnswers(t)
  PROVE  Inv'
  <1> DEFINE d == Delta(t)
             e == CompletedEvent("stop")
  <1>1. /\ d \in Step /\ d.type = "delta" /\ e \in Step /\ e.type = "completed"
        /\ "stop" \in Reasons
    BY DEF Delta, CompletedEvent, Step, ConsumerEvent, Reasons, Known
  <1>2. todo' = <<d, e>> /\ stage = "http" /\ path = "fallback" /\ finish' = "stop"
        /\ ended' = TRUE /\ stage' = "process"
        /\ UNCHANGED <<path, aborted, timedOut, waiting, text, outcome, buffer, tail,
                       completed, told, sent, broken>>
    BY DEF FallbackAnswers, history
  <1> HIDE DEF d, e
  <1>3. todo' \in Seq(Step) /\ Len(todo') = 2 /\ todo'[1] = d /\ todo'[2] = e
    BY <1>1, <1>2
  <1>4. TypeOK'
    BY <1>1, <1>2, <1>3 DEF Inv, TypeOK, Step, Stages
  <1>5. InHand'
    BY <1>1, <1>2, <1>3 DEF Inv, InHand
  <1> QED BY <1>2, <1>4, <1>5, QuietStep

\* A chunk brings payloads.
LEMMA PiecesArePayloads ==
  ASSUME NEW ps \in PieceSeqs
  PROVE  ps \in Seq(Payload) /\ Len(ps) \in Nat \ {0}
  <1>1. PICK n \in 1..MaxChunk : ps \in [1..n -> Payloads]
    BY DEF PieceSeqs
  <1>2. n \in Nat \ {0}
    BY BoundsAssumption
  <1>3. ps \in [1..n -> Payload]
    BY <1>1, PayloadsAssumption
  <1> QED BY <1>2, <1>3, LenProperties

\* Steps between the body and the payload in hand.
LEMMA ChunkStep ==
  ASSUME Inv, NEW ps \in PieceSeqs, NEW open \in BOOLEAN, ReadChunk(ps, open)
  PROVE  Inv'
  <1> DEFINE all == (IF tail = NoPayload THEN <<>> ELSE <<tail>>) \o ps
  <1>1. /\ stage = "read" /\ stage' = "process"
        /\ buffer' = IF open THEN SubSeq(all, 1, Len(all) - 1) ELSE all
        /\ tail' = IF open THEN all[Len(all)] ELSE NoPayload
        /\ sent' = sent \o ps
        /\ UNCHANGED <<path, aborted, timedOut, ended, todo, waiting, finish,
                       completed, text, outcome, told, broken>>
    BY DEF ReadChunk
  <1>2. ps \in Seq(Payload) /\ Len(ps) \in Nat \ {0}
    BY PiecesArePayloads
  <1>3. all \in Seq(Payload) /\ Len(all) \in Nat \ {0}
    <2>1. CASE tail = NoPayload
      BY <1>2, <2>1
    <2>2. CASE tail # NoPayload
      <3>1. tail \in Payload
        BY <2>2 DEF Inv, TypeOK
      <3> QED BY <1>2, <2>2, <3>1
    <2> QED BY <2>1, <2>2
  <1>4. sent' \in Seq(Payload)
    BY <1>1, <1>2 DEF Inv, TypeOK
  <1> HIDE DEF all
  <1>5. buffer' \in Seq(Payload) /\ tail' \in Payload \cup {NoPayload}
    BY <1>1, <1>3
  <1>6. TypeOK'
    BY <1>1, <1>4, <1>5 DEF Inv, TypeOK, Stages
  <1>7. InHand'
    BY <1>1 DEF Inv, InHand
  <1> QED BY <1>1, <1>6, <1>7, QuietStep

\* The body ends, perhaps inside a payload.
LEMMA EndStep ==
  ASSUME Inv, NEW left \in {"whole", "cut", "lost"}, ReadEnd(left)
  PROVE  Inv'
  <1>1. /\ stage = "read" /\ stage' = "process" /\ ended' = TRUE /\ tail' = NoPayload
        /\ buffer' = <<>> \/ (tail # NoPayload /\ buffer' = <<tail>>)
        /\ todo' = <<Broken>> \/ todo' = <<>>
        /\ sent' = sent \/ sent' = SubSeq(sent, 1, Len(sent) - 1)
        /\ UNCHANGED <<path, aborted, timedOut, waiting, finish, completed, text,
                       outcome, told, broken>>
    BY DEF ReadEnd
  <1>2. buffer' \in Seq(Payload)
    <2>1. tail # NoPayload => <<tail>> \in Seq(Payload)
      <3>1. tail # NoPayload => tail \in Payload
        BY DEF Inv, TypeOK
      <3> QED BY <3>1
    <2>2. <<>> \in Seq(Payload)
      OBVIOUS
    <2> QED BY <1>1, <2>1, <2>2
  <1>3. sent' \in Seq(Payload)
    <2>1. sent \in Seq(Payload) /\ Len(sent) \in Nat
      BY DEF Inv, TypeOK
    <2>2. SubSeq(sent, 1, Len(sent) - 1) \in Seq(Payload)
      BY <2>1
    <2> QED BY <1>1, <2>1, <2>2
  <1>4. todo' \in Seq(Step) /\ \A i \in 1..Len(todo') : todo'[i] = Broken
    <2>1. Broken \in Step
      BY DEF Step
    <2>2. CASE todo' = <<Broken>>
      BY <2>1, <2>2
    <2>3. CASE todo' = <<>>
      BY <2>3
    <2> QED BY <1>1, <2>2, <2>3
  <1>5. TypeOK'
    BY <1>1, <1>2, <1>3, <1>4 DEF Inv, TypeOK, Stages, Step
  <1>6. ~completed /\ path # "generate"
    BY <1>1 DEF Inv, InHand
  <1>7. InHand'
    BY <1>1, <1>4, <1>6 DEF InHand, Broken
  <1> QED BY <1>1, <1>5, <1>7, QuietStep

\* The other ways in which a read ends.
LEMMA ReadSteps ==
  ASSUME Inv, TailTerminated \/ ReadFails \/ ReadAborted
  PROVE  Inv'
  <1>0. stage = "read" /\ ~completed /\ path # "generate" /\ broken \subseteq Codes
    BY DEF TailTerminated, ReadFails, ReadAborted, Inv, InHand, TypeOK
  <1>1. CASE TailTerminated
    <2>1. buffer' \in Seq(Payload)
      <3>1. tail \in Payload /\ buffer' = <<tail>>
        BY <1>1 DEF TailTerminated, Inv, TypeOK
      <3> QED BY <3>1
    <2>2. TypeOK' /\ InHand' /\ stage' = "process"
      BY <1>1, <2>1 DEF TailTerminated, Inv, TypeOK, InHand, Stages, history
    <2> QED BY <1>0, <1>1, <2>2, QuietStep DEF TailTerminated, history
  <1>2. CASE ReadFails \/ ReadAborted
    <2>1. Throw("network") /\ UNCHANGED <<path, aborted, timedOut, sent>>
          /\ "network" \in Codes /\ broken' \subseteq Codes
          /\ (~Signalled => "network" \in broken')
      BY <1>0, <1>2 DEF ReadFails, ReadAborted, Codes
    <2> QED BY <1>0, <2>1, ThrowStep
  <1> QED BY <1>1, <1>2

\* Steps of the payload in hand.
LEMMA PayloadSteps ==
  ASSUME Inv, TakePayload \/ NextChunk
  PROVE  Inv'
  <1>1. CASE TakePayload
    <2> DEFINE p == Head(buffer)
    <2>1. /\ stage = "process" /\ todo = <<>> /\ ~completed /\ buffer # <<>>
          /\ todo' = ProcessEvent(p, finish) /\ finish' = FinishAfter(p, finish)
          /\ buffer' = Tail(buffer)
          /\ UNCHANGED <<path, stage, aborted, timedOut, tail, ended, waiting,
                         completed, text, outcome, told, sent, broken>>
      BY <1>1 DEF TakePayload, Idle, history
    <2>2. p \in Payload /\ buffer' \in Seq(Payload) /\ finish \in Reasons
      BY <2>1 DEF Inv, TypeOK
    <2> HIDE DEF p
    <2>3. TypeOK'
      BY <2>1, <2>2, StepsOfPayload, ReasonAfter DEF Inv, TypeOK, Step
    <2>4. InHand'
      BY <2>1, <2>2, StepsOfPayload DEF Inv, InHand
    <2> QED BY <2>1, <2>3, <2>4, QuietStep
  <1>2. CASE NextChunk
    <2>1. stage = "process" /\ stage' = "read" /\ todo = <<>> /\ ~completed
          /\ UNCHANGED <<path, aborted, timedOut, waiting, text, outcome, buffer, tail,
                         ended, todo, finish, completed, told, sent, broken>>
      BY <1>2 DEF NextChunk, Idle, provider, history
    <2>2. TypeOK' /\ InHand'
      BY <2>1 DEF Inv, TypeOK, InHand, Stages
    <2> QED BY <2>1, <2>2, QuietStep
  <1> QED BY <1>1, <1>2

\* After the end a known reason completes, and an unknown one is incomplete.
LEMMA EndOfBody ==
  ASSUME Inv, EndReached
  PROVE  Inv'
  <1>0. /\ stage = "process" /\ todo = <<>> /\ ~completed
        /\ UNCHANGED <<path, aborted, timedOut, sent>>
        /\ path # "generate"
    BY DEF EndReached, Idle, Inv, InHand
  <1>1. CASE finish = "unknown"
    <2>1. Throw("incomplete") /\ broken' = broken \cup {"incomplete"}
          /\ "incomplete" \in Codes
      BY <1>1 DEF EndReached, Codes
    <2>2. broken' \subseteq Codes
      BY <2>1 DEF Inv, TypeOK
    <2> QED BY <1>0, <2>1, <2>2, ThrowStep
  <1>2. CASE finish # "unknown"
    <2> DEFINE e == CompletedEvent(finish)
    <2>1. todo' = <<e>>
          /\ UNCHANGED <<stage, waiting, text, outcome, buffer, tail, ended, finish,
                         completed, told, broken>>
      BY <1>2 DEF EndReached
    <2>2. e \in Step /\ e.type = "completed"
      BY DEF CompletedEvent, Step, ConsumerEvent, Inv, TypeOK
    <2> HIDE DEF e
    <2>3. todo' \in Seq(Step) /\ Len(todo') = 1 /\ todo'[1] = e
      BY <2>1, <2>2
    <2>4. TypeOK'
      BY <1>0, <2>1, <2>3 DEF Inv, TypeOK, Step
    <2>5. InHand'
      BY <1>0, <2>1, <2>2, <2>3 DEF Inv, InHand
    <2> QED BY <1>0, <2>1, <2>4, <2>5, QuietStep
  <1> QED BY <1>1, <1>2

\* What the consumer is told, and what it means for the steps left.
LEMMA Telling ==
  ASSUME Inv, TellConsumer
  PROVE  /\ Head(todo) \in ConsumerEvent
         /\ Head(todo).type \in {"delta", "usage", "completed"}
         /\ Head(todo).type = "delta" => Head(todo).text \in Tokens
         /\ Head(todo).type = "completed" => todo' = <<>>
         /\ told' = Append(told, Head(todo)) /\ told \in Seq(ConsumerEvent)
         /\ stage = "process" /\ ~completed /\ path # "generate"
         /\ todo' \in Seq(Step) /\ Len(todo') = Len(todo) - 1
         /\ \A i \in 1..Len(todo') : todo'[i] = todo[i + 1]
  <1> DEFINE e == Head(todo)
  <1>1. todo \in Seq(Step) /\ todo # <<>> /\ Len(todo) \in Nat \ {0}
        /\ todo' = Tail(todo) /\ told' = Append(told, e) /\ told \in Seq(ConsumerEvent)
        /\ ~IsThrow(e) /\ stage = "process"
    BY DEF TellConsumer, Inv, TypeOK, Step
  <1>2. e = todo[1] /\ e \in Step
    BY <1>1
  <1>3. e # Broken
    BY <1>1 DEF IsThrow, Broken
  <1>4. e \in ConsumerEvent
    BY <1>2, <1>3 DEF Step
  <1>5. e.type # "error" /\ (e.type = "completed" => 1 = Len(todo))
    <2>1. 1 \in 1..Len(todo)
      BY <1>1
    <2>2. todo[1].type # "error" /\ (todo[1].type = "completed" => 1 = Len(todo))
      BY <2>1 DEF Inv, InHand
    <2> QED BY <1>2, <2>2
  <1>6. e.type \in {"delta", "usage", "completed"}
        /\ (e.type = "delta" => e.text \in Tokens)
    BY <1>4, <1>5 DEF ConsumerEvent
  <1>7. todo' \in Seq(Step) /\ Len(todo') = Len(todo) - 1
        /\ \A i \in 1..Len(todo') : todo'[i] = todo[i + 1]
    BY <1>1
  <1>8. e.type = "completed" => todo' = <<>>
    BY <1>1, <1>5, <1>7
  <1>9. ~completed /\ path # "generate"
    BY <1>1 DEF Inv, InHand
  <1> QED BY <1>1, <1>4, <1>6, <1>7, <1>8, <1>9

\* What is told last is a completion exactly when the call is completed.
LEMMA TellStep ==
  ASSUME Inv, TellConsumer
  PROVE  Inv'
  <1> DEFINE e == Head(todo)
  <1>1. /\ text' = IF e.type = "delta" THEN Append(text, e.text) ELSE text
        /\ completed' = (completed \/ e.type = "completed")
        /\ buffer' = IF e.type = "completed" THEN <<>> ELSE buffer
        /\ waiting' = TRUE
        /\ UNCHANGED <<path, stage, aborted, timedOut, tail, ended, finish, outcome,
                       sent, broken>>
    BY DEF TellConsumer
  <1>2. /\ e \in ConsumerEvent /\ e.type \in {"delta", "usage", "completed"}
        /\ e.type = "delta" => e.text \in Tokens
        /\ e.type = "completed" => todo' = <<>>
        /\ told' = Append(told, e) /\ told \in Seq(ConsumerEvent)
        /\ stage = "process" /\ ~completed /\ path # "generate"
        /\ todo' \in Seq(Step) /\ Len(todo') = Len(todo) - 1
        /\ \A i \in 1..Len(todo') : todo'[i] = todo[i + 1]
    BY Telling
  <1> HIDE DEF e
  <1>3. told' \in Seq(ConsumerEvent) /\ told' # <<>> /\ told'[Len(told')] = e
    BY <1>2, AppendProperties
  <1>4. text' \in Seq(Tokens) /\ buffer' \in Seq(Payload)
    BY <1>1, <1>2 DEF Inv, TypeOK
  <1>5. TypeOK'
    <2>1. completed' \in BOOLEAN
      BY <1>1 DEF Inv, TypeOK
    <2>. QED BY <1>1, <1>2, <1>3, <1>4, <2>1 DEF Inv, TypeOK, Step
  <1>6. InHand'
    <2>1. \A i \in 1..Len(todo') : i + 1 \in 1..Len(todo)
      BY <1>2 DEF Inv, TypeOK
    <2>2. Len(todo) \in Nat
      BY DEF Inv, TypeOK
    <2>3. ASSUME NEW i \in 1..Len(todo')
          PROVE  todo'[i].type # "error" /\ (todo'[i].type = "completed" => i = Len(todo'))
      BY <1>2, <2>1, <2>2 DEF Inv, InHand
    <2> QED BY <1>1, <1>2, <2>3 DEF InHand
  <1>7. CauseIsTrue' /\ OutcomeFits'
    BY <1>1 DEF Inv, CauseIsTrue, OutcomeFits
  <1>8. LastTold'
    <2>1. Final' = IF completed' THEN "completed" ELSE "none"
      BY <1>1, <1>2, <1>3 DEF Final
    <2> QED BY <1>1, <1>2, <2>1 DEF LastTold
  <1> QED BY <1>5, <1>6, <1>7, <1>8 DEF Inv

\* A refused payload, the return of the consumer, and the two ways to settle.
LEMMA ConsumerSteps ==
  ASSUME Inv, PayloadRefused \/ ConsumerReturns \/ Respond \/ ErrorReported
  PROVE  Inv'
  <1>1. CASE PayloadRefused
    <2>1. stage = "process" /\ ~completed /\ path # "generate" /\ broken \subseteq Codes
      BY <1>1 DEF PayloadRefused, Inv, InHand, TypeOK
    <2>2. Throw("malformed") /\ UNCHANGED <<path, aborted, timedOut, sent>>
          /\ "malformed" \in Codes /\ "malformed" \in broken' /\ broken' \subseteq Codes
      BY <1>1, <2>1 DEF PayloadRefused, Codes
    <2> QED BY <2>1, <2>2, ThrowStep
  <1>2. CASE ConsumerReturns
    <2>1. TypeOK' /\ InHand'
      BY <1>2 DEF ConsumerReturns, Inv, TypeOK, InHand, provider, history
    <2> QED BY <1>2, <2>1, QuietStep DEF ConsumerReturns, provider, history
  <1>3. CASE Respond
    <2>1. /\ outcome' = [kind |-> "answered", text |-> text, finish |-> finish]
          /\ stage' = "settled" /\ stage = "process" /\ todo = <<>>
          /\ UNCHANGED <<path, aborted, timedOut, waiting, text, told, sent, broken,
                         buffer, tail, ended, todo, finish, completed>>
      BY <1>3 DEF Respond, Idle, provider
    <2>2. outcome' \in Outcome
      BY <2>1 DEF Outcome, Inv, TypeOK
    <2>3. TypeOK'
      BY <2>1, <2>2 DEF Inv, TypeOK, Stages
    <2>4. CauseIsTrue' /\ OutcomeFits' /\ LastTold' /\ InHand'
      BY <2>1 DEF Inv, CauseIsTrue, OutcomeFits, LastTold, InHand
    <2> QED BY <2>3, <2>4 DEF Inv
  <1>4. CASE ErrorReported
    <2>1. stage = "reporting" /\ broken' = broken /\ waiting' = FALSE
          /\ UNCHANGED <<path, aborted, timedOut, text, provider, told, sent>>
          /\ Fail(told[Len(told)].code)
      BY <1>4 DEF ErrorReported
    <2>2. PICK c \in Codes : told[Len(told)] = ErrorEvent(c) /\ True(c)
      BY <2>1 DEF Inv, LastTold
    <2>3. Fail(c) /\ (c = "timeout") = timedOut /\ (c \in Causes => c \in broken')
      BY <2>1, <2>2 DEF ErrorEvent, True
    <2> QED BY <2>1, <2>3, FailStep DEF Inv, TypeOK
  <1> QED BY <1>1, <1>2, <1>3, <1>4

\* The abort and the timer disturb nothing that was told.
LEMMA OutsideSteps ==
  ASSUME Inv, Abort \/ TimerFires
  PROVE  Inv'
  <1>1. CASE Abort
    <2>1. aborted' = TRUE
          /\ UNCHANGED <<path, stage, timedOut, waiting, text, outcome, buffer, tail,
                         ended, todo, finish, completed, told, sent, broken>>
      BY <1>1 DEF Abort, provider, history
    <2>2. TypeOK' /\ InHand' /\ OutcomeFits' /\ CauseIsTrue'
      BY <2>1 DEF Inv, TypeOK, InHand, OutcomeFits, CauseIsTrue
    <2>3. LastTold'
      BY <2>1 DEF Inv, LastTold, Final, True
    <2> QED BY <2>2, <2>3 DEF Inv
  <1>2. CASE TimerFires
    <2>1. timedOut' = TRUE /\ stage \in {"http", "read", "process"}
          /\ UNCHANGED <<path, stage, aborted, waiting, text, outcome, buffer, tail,
                         ended, todo, finish, completed, told, sent, broken>>
      BY <1>2 DEF TimerFires, TimerArmed, provider, history
    <2>2. TypeOK' /\ InHand' /\ OutcomeFits'
      BY <2>1 DEF Inv, TypeOK, InHand, OutcomeFits
    <2>3. CauseIsTrue'
      BY <2>1 DEF Inv, OutcomeFits, CauseIsTrue
    <2>4. LastTold'
      BY <2>1 DEF Inv, LastTold, Final
    <2> QED BY <2>2, <2>3, <2>4 DEF Inv
  <1> QED BY <1>1, <1>2

-----------------------------------------------------------------------------
(* The invariant.                                                          *)

\* A new call.
LEMMA InitialInv == Init => Inv
  <1> SUFFICES ASSUME Init PROVE Inv
    OBVIOUS
  <1>1. TypeOK
    <2>1. outcome \in Outcome /\ finish \in Reasons /\ stage \in Stages
      BY DEF Init, Outcome, Reasons, Stages
    <2>2. \A S : <<>> \in Seq(S)
      OBVIOUS
    <2> QED BY <2>1, <2>2 DEF Init, TypeOK
  <1>2. CauseIsTrue /\ OutcomeFits /\ LastTold
    BY DEF Init, CauseIsTrue, OutcomeFits, LastTold, Final
  <1>3. InHand
    BY DEF Init, InHand
  <1> QED BY <1>1, <1>2, <1>3 DEF Inv

\* Every step.
LEMMA NextKeepsInv == Inv /\ [Next]_vars => Inv'
  <1> SUFFICES ASSUME Inv, [Next]_vars PROVE Inv'
    OBVIOUS
  <1>1. CASE UNCHANGED vars
    <2>1. UNCHANGED <<path, stage, aborted, timedOut, waiting, text, outcome, buffer,
                      tail, ended, todo, finish, completed, told, sent, broken>>
      BY <1>1 DEF vars, provider, history
    <2>2. TypeOK' /\ InHand' /\ OutcomeFits' /\ CauseIsTrue'
      BY <2>1 DEF Inv, TypeOK, InHand, OutcomeFits, CauseIsTrue
    <2>3. LastTold'
      BY <2>1 DEF Inv, LastTold, Final, True
    <2> QED BY <2>2, <2>3 DEF Inv
  <1>2. CASE OwnStep
    <2>1. CASE Begin \/ CredentialResolved
      BY <2>1, BeginSteps
    <2>2. CASE (Signalled /\ HttpRejects) \/ ChatTimesOut
      BY <2>2, HttpSteps, ChatSteps
    <2>3. ASSUME NEW t \in Tokens, FallbackAnswers(t) PROVE Inv'
      BY <2>3, FallbackStep
    <2>4. CASE ReadAborted \/ TakePayload \/ NextChunk \/ EndReached
      BY <2>4, ReadSteps, PayloadSteps, EndOfBody
    <2>5. CASE TellConsumer \/ PayloadRefused \/ ConsumerReturns \/ Respond
               \/ ErrorReported
      BY <2>5, TellStep, ConsumerSteps
    <2> QED BY <1>2, <2>1, <2>2, <2>3, <2>4, <2>5 DEF OwnStep
  <1>3. CASE Environment
    <2>1. ASSUME NEW code \in Codes, RuntimeRefuses(code) \/ ProviderRefuses(code)
          PROVE  Inv'
      BY <2>1, BeginSteps
    <2>2. CASE HttpRejects \/ \E ok \in BOOLEAN : HttpAnswers(ok)
      BY <2>2, HttpSteps
    <2>3. ASSUME NEW t \in Tokens, NEW raw \in {"stop", "tool_calls"},
                 ChatAnswers(t, raw)
          PROVE  Inv'
      BY <2>3, ChatSteps
    <2>4. ASSUME NEW code \in Codes, ChatFails(code) PROVE Inv'
      BY <2>4, ChatSteps
    <2>5. ASSUME NEW ps \in PieceSeqs, NEW open \in BOOLEAN, ReadChunk(ps, open)
          PROVE  Inv'
      BY <2>5, ChunkStep
    <2>6. ASSUME NEW left \in {"whole", "cut", "lost"}, ReadEnd(left) PROVE Inv'
      BY <2>6, EndStep
    <2>7. CASE TailTerminated \/ ReadFails \/ Abort
      BY <2>7, ReadSteps, OutsideSteps
    <2> QED BY <1>3, <2>1, <2>2, <2>3, <2>4, <2>5, <2>6, <2>7 DEF Environment
  <1>4. CASE TimerFires
    BY <1>4, OutsideSteps
  <1> QED BY <1>1, <1>2, <1>3, <1>4 DEF Next

\* The inductive invariant of a call.
THEOREM StreamInvariance == SafeSpec => []Inv
  BY InitialInv, NextKeepsInv, PTL DEF SafeSpec

\* The variables of a call keep their types.
THEOREM StreamTypeCorrect == SafeSpec => []TypeOK
  <1>1. Inv => TypeOK
    BY DEF Inv
  <1> QED BY <1>1, StreamInvariance, PTL

\* A call reports the failure that happened, whatever raced with it.
THEOREM CallCauseIsTrue == SafeSpec => []CauseIsTrue
  <1>1. Inv => CauseIsTrue
    BY DEF Inv
  <1> QED BY <1>1, StreamInvariance, PTL

-----------------------------------------------------------------------------
(* The contract.                                                           *)

CNext == [Contract!Next]_(Contract!vars)

\* What the caller does not see.
LEMMA Unseen ==
  ASSUME UNCHANGED <<path, outcome, text, told, aborted>>
  PROVE  CNext
  BY DEF CNext, Contract!vars, Phase, Final

\* A failure settles the call, unless it was completed.
LEMMA FailSettles ==
  ASSUME Inv, NEW code, Fail(code), Final # "completed", stage # "settled",
         UNCHANGED <<path, text, told, aborted>>
  PROVE  CNext
  <1>1. outcome.kind = "none" /\ outcome' = [kind |-> "failed", code |-> code]
    BY DEF Inv, OutcomeFits, Fail
  <1>2. Phase = "open" /\ Phase' = "failed" /\ UNCHANGED Final
    BY <1>1 DEF Phase, Final
  <1>3. Contract!Settle("failed")
    BY <1>2 DEF Contract!Settle
  <1> QED BY <1>3 DEF CNext, Contract!Next

\* When the stream breaks off it is closed with an error, or aborted.
LEMMA ThrowClosesOrAborts ==
  ASSUME Inv, NEW cause, Throw(cause), UNCHANGED <<path, aborted>>,
         stage \notin {"reporting", "settled"}, path # "generate", ~completed
  PROVE  CNext
  <1>1. outcome.kind = "none" /\ Phase = "open" /\ Final = "none" /\ text' = text
    BY DEF Inv, OutcomeFits, LastTold, Phase, Throw
  <1>2. CASE aborted
    <2>1. outcome' = [kind |-> "aborted"] /\ told' = told
      BY <1>2 DEF Throw
    <2>2. Phase' = "aborted" /\ UNCHANGED Final
      BY <2>1 DEF Phase, Final
    <2>3. Contract!Settle("aborted")
      BY <1>1, <1>2, <2>2 DEF Contract!Settle
    <2> QED BY <2>3 DEF CNext, Contract!Next
  <1>3. CASE ~aborted
    <2> DEFINE e == ErrorEvent(Code(cause))
    <2>1. told' = Append(told, e) /\ outcome' = outcome
      BY <1>3 DEF Throw
    <2>2. e.type = "error"
      BY DEF ErrorEvent
    <2>3. told \in Seq(ConsumerEvent)
      BY DEF Inv, TypeOK
    <2> HIDE DEF e
    <2>4. told' # <<>> /\ told'[Len(told')] = e
      BY <2>1, <2>3
    <2>5. Final' = "error" /\ UNCHANGED Phase
      BY <2>1, <2>2, <2>4 DEF Final, Phase
    <2>6. Contract!Close("error")
      BY <1>1, <2>5 DEF Contract!Close
    <2> QED BY <2>6 DEF CNext, Contract!Next
  <1> QED BY <1>2, <1>3

\* Telling the consumer delivers a text, closes the stream, or is not seen.
LEMMA TellDelivers ==
  ASSUME Inv, TellConsumer
  PROVE  CNext
  <1> DEFINE e == Head(todo)
  <1>1. /\ text' = IF e.type = "delta" THEN Append(text, e.text) ELSE text
        /\ UNCHANGED <<path, aborted, outcome>>
    BY DEF TellConsumer
  <1>2. /\ e.type \in {"delta", "usage", "completed"}
        /\ e.type = "delta" => e.text \in Tokens
        /\ e \in ConsumerEvent /\ told' = Append(told, e) /\ told \in Seq(ConsumerEvent)
        /\ stage = "process" /\ ~completed /\ path # "generate"
    BY Telling
  <1> HIDE DEF e
  <1>3. told' # <<>> /\ told'[Len(told')] = e
    BY <1>2
  <1>4. Phase = "open" /\ UNCHANGED Phase /\ Final = "none"
    BY <1>1, <1>2 DEF Inv, OutcomeFits, LastTold, Phase
  <1>5. Final' = IF e.type = "completed" THEN "completed" ELSE "none"
    BY <1>2, <1>3 DEF Final
  <1>6. CASE e.type = "delta"
    <2>1. Contract!Deliver(e.text)
      BY <1>1, <1>2, <1>4, <1>5, <1>6 DEF Contract!Deliver
    <2> QED BY <1>2, <1>6, <2>1 DEF CNext, Contract!Next
  <1>7. CASE e.type = "usage"
    BY <1>1, <1>4, <1>5, <1>7 DEF CNext, Contract!vars
  <1>8. CASE e.type = "completed"
    <2>1. Contract!Close("completed")
      BY <1>1, <1>2, <1>4, <1>5, <1>8 DEF Contract!Close
    <2> QED BY <2>1 DEF CNext, Contract!Next
  <1> QED BY <1>2, <1>6, <1>7, <1>8

\* An answer settles the call; a streamed one was closed before.
LEMMA AnswerSettles ==
  ASSUME Inv, outcome'.kind = "answered", outcome.kind = "none",
         UNCHANGED <<path, aborted, text, told>>,
         path # "generate" => completed /\ stage = "process"
  PROVE  CNext
  <1>1. Phase = "open" /\ Phase' = "answered" /\ UNCHANGED Final
    BY DEF Phase, Final
  <1>2. path # "generate" => Final = "completed"
    BY DEF Inv, LastTold
  <1>3. Contract!Settle("answered")
    BY <1>1, <1>2 DEF Contract!Settle
  <1> QED BY <1>3 DEF CNext, Contract!Next

\* The steps that wait for nobody are steps of the contract, or none.
LEMMA OwnStepRefines ==
  ASSUME Inv, OwnStep
  PROVE  CNext
  <1>1. CASE Begin \/ TakePayload \/ NextChunk \/ ConsumerReturns
             \/ \E t \in Tokens : FallbackAnswers(t)
    BY <1>1, Unseen DEF Begin, TakePayload, NextChunk, ConsumerReturns,
                        FallbackAnswers, history, provider
  <1>2. CASE CredentialResolved
    <2>1. CASE path = "stream" /\ aborted
      BY <1>2, <2>1, ThrowClosesOrAborts DEF CredentialResolved, Inv, InHand
    <2>2. CASE ~(path = "stream" /\ aborted)
      BY <1>2, <2>2, Unseen DEF CredentialResolved
    <2> QED BY <2>1, <2>2
  <1>3. CASE HttpRejects
    BY <1>3, ThrowClosesOrAborts DEF HttpRejects, Inv, InHand
  <1>4. CASE ChatTimesOut
    <2>1. Final # "completed"
      BY <1>4 DEF ChatTimesOut, Inv, LastTold, InHand
    <2> QED BY <1>4, <2>1, FailSettles DEF ChatTimesOut
  <1>5. CASE ReadAborted
    BY <1>5, ThrowClosesOrAborts DEF ReadAborted, Inv, InHand
  <1>6. CASE EndReached
    <2>1. CASE finish = "unknown"
      BY <1>6, <2>1, ThrowClosesOrAborts DEF EndReached, Idle, Inv, InHand
    <2>2. CASE finish # "unknown"
      BY <1>6, <2>2, Unseen DEF EndReached
    <2> QED BY <2>1, <2>2
  <1>7. CASE TellConsumer
    BY <1>7, TellDelivers
  <1>8. CASE PayloadRefused
    BY <1>8, ThrowClosesOrAborts DEF PayloadRefused, Inv, InHand
  <1>9. CASE Respond
    <2>1. outcome'.kind = "answered" /\ completed /\ stage = "process"
          /\ outcome.kind = "none" /\ UNCHANGED <<path, aborted, text, told>>
      BY <1>9 DEF Respond, Idle, Inv, OutcomeFits
    <2> QED BY <2>1, AnswerSettles
  <1>10. CASE ErrorReported
    <2>1. PICK c \in Codes : told # <<>> /\ told[Len(told)] = ErrorEvent(c)
      BY <1>10 DEF ErrorReported, Inv, LastTold
    <2>2. Final # "completed"
      BY <2>1 DEF Final, ErrorEvent
    <2> QED BY <1>10, <2>2, FailSettles DEF ErrorReported
  <1> QED BY <1>1, <1>2, <1>3, <1>4, <1>5, <1>6, <1>7, <1>8, <1>9, <1>10 DEF OwnStep

\* So are those of server, user and clock.
LEMMA EnvironmentRefines ==
  ASSUME Inv, Environment \/ TimerFires
  PROVE  CNext
  <1>1. ASSUME NEW code \in Codes, RuntimeRefuses(code) \/ ProviderRefuses(code)
        PROVE  CNext
    <2>1. stage \in {"new", "credential"} /\ ~completed /\ Final # "completed"
          /\ UNCHANGED <<path, aborted>>
      BY <1>1 DEF RuntimeRefuses, ProviderRefuses, Inv, LastTold, InHand
    <2>2. CASE ProviderRefuses(code) /\ path = "stream"
      BY <2>1, <2>2, ThrowClosesOrAborts DEF ProviderRefuses
    <2>3. CASE ~(ProviderRefuses(code) /\ path = "stream")
      <3>1. Fail(code) /\ UNCHANGED <<text, told>>
        BY <1>1, <2>3 DEF RuntimeRefuses, ProviderRefuses
      <3> QED BY <2>1, <3>1, FailSettles
    <2> QED BY <2>2, <2>3
  <1>2. ASSUME NEW ok \in BOOLEAN, HttpAnswers(ok) PROVE CNext
    <2>1. CASE ok /\ ~Signalled
      BY <1>2, <2>1, Unseen DEF HttpAnswers
    <2>2. CASE ~(ok /\ ~Signalled)
      BY <1>2, <2>2, ThrowClosesOrAborts DEF HttpAnswers, Inv, InHand
    <2> QED BY <2>1, <2>2
  <1>3. CASE HttpRejects
    BY <1>3, ThrowClosesOrAborts DEF HttpRejects, Inv, InHand
  <1>4. ASSUME NEW t \in Tokens, NEW raw \in {"stop", "tool_calls"}, ChatAnswers(t, raw)
        PROVE  CNext
    <2>1. outcome'.kind = "answered" /\ outcome.kind = "none" /\ path = "generate"
          /\ UNCHANGED <<path, aborted, text, told>>
      BY <1>4 DEF ChatAnswers, Inv, OutcomeFits
    <2> QED BY <2>1, AnswerSettles
  <1>5. ASSUME NEW code \in Codes, ChatFails(code) PROVE CNext
    <2>1. Final # "completed" /\ stage = "http"
      BY <1>5 DEF ChatFails, Inv, LastTold, InHand
    <2> QED BY <1>5, <2>1, FailSettles DEF ChatFails
  <1>6. ASSUME NEW ps \in PieceSeqs, NEW open \in BOOLEAN, ReadChunk(ps, open)
        PROVE  CNext
    BY <1>6, Unseen DEF ReadChunk
  <1>7. ASSUME NEW left \in {"whole", "cut", "lost"}, ReadEnd(left) PROVE CNext
    BY <1>7, Unseen DEF ReadEnd
  <1>8. CASE TailTerminated \/ TimerFires
    BY <1>8, Unseen DEF TailTerminated, TimerFires, history
  <1>9. CASE ReadFails
    BY <1>9, ThrowClosesOrAborts DEF ReadFails, Inv, InHand
  <1>10. CASE Abort
    <2>1. Phase = "open" /\ UNCHANGED <<Phase, Final>>
      BY <1>10 DEF Abort, Phase, Final, history, Inv, OutcomeFits
    <2>2. Contract!Ask
      BY <1>10, <2>1 DEF Abort, Contract!Ask, Inv, TypeOK
    <2> QED BY <2>2 DEF CNext, Contract!Next
  <1> QED BY <1>1, <1>2, <1>3, <1>4, <1>5, <1>6, <1>7, <1>8, <1>9, <1>10
          DEF Environment

\* A call, whichever way it takes, keeps to what StreamContract says of the
\* pieces, the event that closes the stream and the way the promise settles.
THEOREM StreamKeepsContract == SafeSpec => Contract!SafeSpec
  <1>1. Init => Contract!Init
    BY DEF Init, Contract!Init, Phase, Final
  <1>2. Inv /\ [Next]_vars => [Contract!Next]_(Contract!vars)
    <2> SUFFICES ASSUME Inv, [Next]_vars PROVE CNext
      BY DEF CNext
    <2>1. CASE UNCHANGED vars
      BY <2>1, Unseen DEF vars, history
    <2> QED BY <2>1, OwnStepRefines, EnvironmentRefines DEF Next
  <1> QED BY <1>1, <1>2, StreamInvariance, PTL DEF SafeSpec, Contract!SafeSpec

-----------------------------------------------------------------------------
(* Texts at positions.                                                         *)

\* A part has a size, and the whole has at least that.
LEMMA PartSize ==
  ASSUME NEW whole, IsFiniteSet(whole), NEW part, part \subseteq whole
  PROVE  /\ IsFiniteSet(part) /\ Cardinality(part) \in Nat
         /\ Cardinality(part) <= Cardinality(whole)
  <1>1. part \in SUBSET whole
    OBVIOUS
  <1>2. IsFiniteSet(part) /\ Cardinality(part) <= Cardinality(whole)
    BY <1>1, FS_Subset
  <1>3. Cardinality(part) \in Nat
    BY <1>2, FS_CardinalityType
  <1> QED BY <1>2, <1>3

\* One more is one more.
LEMMA OneMore ==
  ASSUME NEW part, IsFiniteSet(part), NEW x, x \notin part
  PROVE  IsFiniteSet(part \cup {x}) /\ Cardinality(part \cup {x}) = Cardinality(part) + 1
  <1>1. /\ IsFiniteSet(part \cup {x})
        /\ Cardinality(part \cup {x}) =
             IF x \in part THEN Cardinality(part) ELSE Cardinality(part) + 1
    BY FS_AddElement
  <1> QED BY <1>1

\* Positions of a sequence are finitely many.
LEMMA FinitePositions ==
  ASSUME NEW n \in Int, NEW places, places \subseteq 1..n
  PROVE  IsFiniteSet(places) /\ places \in SUBSET Nat
  <1>1. IsFiniteSet(1..n)
    BY FS_Interval
  <1>2. places \in SUBSET (1..n)
    OBVIOUS
  <1>3. IsFiniteSet(places)
    BY <1>1, PartSize
  <1> QED BY <1>2, <1>3

\* A position beyond the others is the last in rank and leaves theirs.
LEMMA RankBeyond ==
  ASSUME NEW places \in SUBSET Nat, IsFiniteSet(places), NEW m \in Nat,
         \A i \in places : i < m
  PROVE  /\ IsFiniteSet(places \cup {m})
         /\ Cardinality(places \cup {m}) = Cardinality(places) + 1
         /\ Rank(places \cup {m}, m) = Cardinality(places) + 1
         /\ \A i \in places :
              /\ Rank(places \cup {m}, i) = Rank(places, i)
              /\ Rank(places, i) \in Nat /\ Rank(places, i) <= Cardinality(places)
  <1>1. m \notin places
    OBVIOUS
  <1>2. /\ IsFiniteSet(places \cup {m})
        /\ Cardinality(places \cup {m}) = Cardinality(places) + 1
    BY <1>1, OneMore
  <1>3. {j \in places \cup {m} : j <= m} = places \cup {m}
    <2>1. \A j \in places \cup {m} : j <= m
      OBVIOUS
    <2> QED BY <2>1
  <1>4. Rank(places \cup {m}, m) = Cardinality(places) + 1
    BY <1>2, <1>3 DEF Rank
  <1>5. ASSUME NEW i \in places
        PROVE  Rank(places \cup {m}, i) = Rank(places, i)
               /\ Rank(places, i) \in Nat /\ Rank(places, i) <= Cardinality(places)
    <2>1. {j \in places \cup {m} : j <= i} = {j \in places : j <= i}
      OBVIOUS
    <2>2. {j \in places : j <= i} \subseteq places
      OBVIOUS
    <2>3. /\ Cardinality({j \in places : j <= i}) \in Nat
          /\ Cardinality({j \in places : j <= i}) <= Cardinality(places)
      BY <2>2, PartSize
    <2> QED BY <2>1, <2>3 DEF Rank
  <1> QED BY <1>2, <1>4, <1>5

\* A text appended is that of a record appended.
LEMMA WholeExtends ==
  ASSUME NEW S, NEW texts \in Seq(S), NEW records, NEW more, NEW places \in SUBSET Nat,
         IsFiniteSet(places), NEW m \in Nat, \A i \in places : i < m,
         Whole(texts, records, places),
         \A i \in places : more[i].text = records[i].text, more[m].text \in S
  PROVE  Whole(Append(texts, more[m].text), more, places \cup {m})
  <1> DEFINE longer == Append(texts, more[m].text)
             wider == places \cup {m}
  <1>1. /\ Cardinality(wider) = Cardinality(places) + 1
        /\ Rank(wider, m) = Cardinality(places) + 1
        /\ \A i \in places :
             /\ Rank(wider, i) = Rank(places, i)
             /\ Rank(places, i) \in Nat /\ Rank(places, i) <= Cardinality(places)
    BY RankBeyond
  <1>2. /\ Len(texts) = Cardinality(places)
        /\ \A i \in places : Rank(places, i) <= Len(texts) =>
                           texts[Rank(places, i)] = records[i].text
    BY DEF Whole, Opening
  <1>3. /\ Len(longer) = Len(texts) + 1 /\ longer[Len(texts) + 1] = more[m].text
        /\ \A k \in 1..Len(texts) : longer[k] = texts[k]
        /\ Len(texts) \in Nat
    OBVIOUS
  <1>4. ASSUME NEW i \in places PROVE Rank(places, i) \in 1..Len(texts)
    <2>1. Rank(places, i) # 0
      <3>1. {j \in places : j <= i} \subseteq places /\ i \in {j \in places : j <= i}
        OBVIOUS
      <3>2. IsFiniteSet({j \in places : j <= i})
        BY <3>1, PartSize
      <3>3. Cardinality({j \in places : j <= i}) # 0
        BY <3>1, <3>2, FS_EmptySet
      <3> QED BY <3>3 DEF Rank
    <2> QED BY <1>1, <1>2, <2>1
  <1> HIDE DEF longer
  <1>5. ASSUME NEW i \in wider PROVE longer[Rank(wider, i)] = more[i].text
    <2>1. CASE i = m
      BY <1>1, <1>2, <1>3, <2>1
    <2>2. CASE i \in places
      BY <1>1, <1>2, <1>3, <1>4, <2>2
    <2> QED BY <2>1, <2>2
  <1>6. Whole(longer, more, wider)
    <2>1. Len(longer) = Cardinality(wider)
      BY <1>1, <1>2, <1>3
    <2>2. Len(longer) <= Cardinality(wider)
      BY <1>1, <1>2, <1>3
    <2> HIDE DEF wider
    <2> QED BY <1>5, <2>1, <2>2 DEF Whole, Opening
  <1> QED BY <1>6 DEF longer

\* Texts at other records that say the same.
LEMMA WholeElsewhere ==
  ASSUME NEW texts, NEW records, NEW more, NEW places,
         \A i \in places : more[i] = records[i]
  PROVE  /\ Whole(texts, records, places) => Whole(texts, more, places)
         /\ Opening(texts, records, places) => Opening(texts, more, places)
  BY DEF Whole, Opening

\* All texts up to some position are the first of those beyond it.
LEMMA WholeOpens ==
  ASSUME NEW texts, NEW records, NEW places \in SUBSET Nat, IsFiniteSet(places),
         NEW k \in Nat, Whole(texts, records, {i \in places : i <= k})
  PROVE  Opening(texts, records, places)
  <1> DEFINE part == {i \in places : i <= k}
  <1>1. /\ part \subseteq places /\ IsFiniteSet(part) /\ Cardinality(part) \in Nat
        /\ Cardinality(part) <= Cardinality(places)
    BY PartSize
  <1>2. ASSUME NEW i \in places, Rank(places, i) <= Len(texts)
        PROVE  texts[Rank(places, i)] = records[i].text
    <2>1. Len(texts) = Cardinality(part)
      BY DEF Whole
    <2>2. i <= k
      <3> SUFFICES ASSUME ~(i <= k) PROVE FALSE
        OBVIOUS
      <3>1. i \notin part /\ part \cup {i} \subseteq {j \in places : j <= i}
        <4>1. i \in Nat /\ \A j \in part : j \in Nat
          OBVIOUS
        <4>2. \A j \in part \cup {i} : j \in places /\ j <= i
          BY <4>1
        <4> QED BY <4>2
      <3>2. Cardinality(part \cup {i}) = Cardinality(part) + 1
        BY <1>1, <3>1, OneMore
      <3>3. {j \in places : j <= i} \subseteq places
        OBVIOUS
      <3>4. IsFiniteSet({j \in places : j <= i})
        BY <3>3, PartSize
      <3>5. /\ Cardinality(part \cup {i}) <= Cardinality({j \in places : j <= i})
            /\ Cardinality({j \in places : j <= i}) \in Nat
        BY <3>1, <3>4, PartSize
      <3>6. Cardinality(part \cup {i}) <= Rank(places, i) /\ Rank(places, i) \in Nat
        BY <3>5 DEF Rank
      <3> QED BY <1>1, <1>2, <2>1, <3>2, <3>6
    <2>3. {j \in places : j <= i} = {j \in part : j <= i}
      <3>1. \A j \in places : j <= i => j <= k
        BY <2>2
      <3> QED BY <3>1
    <2>4. Rank(part, i) = Rank(places, i) /\ i \in part
      BY <2>2, <2>3 DEF Rank
    <2> HIDE DEF part
    <2>5. Rank(part, i) <= Len(texts) => texts[Rank(part, i)] = records[i].text
      BY <2>4 DEF Whole, Opening, part
    <2> QED BY <1>2, <2>4, <2>5
  <1> QED BY <1>1, <1>2 DEF Whole, Opening

-----------------------------------------------------------------------------
(* What the consumer is told of the stream.                                *)

\* How many of the payloads received have been taken apart.
Taken == Len(sent) - Len(buffer) - (IF tail = NoPayload THEN 0 ELSE 1)

Heard(payloads, k) == {i \in 1..k : HasText(payloads[i])}

NoDone(payloads, k) == \A j \in 1..k : payloads[j].kind # "done"

Speech == Whole(text, told, Deltas(told))

FinalsLast ==
  \A i \in 1..Len(told) :
    told[i].type \in {"completed", "error"} => i = Len(told)

Before ==
  path = "stream" /\ stage \in {"new", "credential", "http"} =>
    /\ sent = <<>> /\ buffer = <<>> /\ todo = <<>> /\ text = <<>>
    /\ tail = NoPayload /\ ~ended

Layout ==
  /\ Taken >= 0
  /\ \A i \in 1..Len(buffer) : buffer[i] = sent[Taken + i]
  /\ tail # NoPayload => tail = sent[Len(sent)]
  /\ ended => tail = NoPayload
  /\ stage = "read" => buffer = <<>> /\ ~ended

\* Between payloads everything taken was told; in one, all but its text.
Upcoming ==
  /\ \A i \in 1..Len(todo) : IsDelta(todo[i]) => i = Len(todo)
  /\ todo = <<>> \/ todo[Len(todo)].type = "usage" =>
       NoDone(sent, Taken) /\ Whole(text, sent, Heard(sent, Taken))
  /\ todo # <<>> =>
       LET e == todo[Len(todo)] IN
       /\ IsDelta(e) =>
            /\ Taken > 0 /\ NoDone(sent, Taken)
            /\ HasText(sent[Taken]) /\ e.text = sent[Taken].text
            /\ Whole(text, sent, Heard(sent, Taken - 1))
       /\ e.type = "completed" =>
            Whole(text, sent, Spoken(sent)) /\ e = CompletedEvent(finish)

Body ==
  path = "stream" /\ stage \in {"read", "process"} /\ ~completed =>
    Layout /\ Upcoming

Opened == path = "stream" => Opening(text, sent, Spoken(sent))

Closed ==
  path = "stream" /\ completed =>
    Whole(text, sent, Spoken(sent)) /\ told[Len(told)] = CompletedEvent(finish)

Answered ==
  path = "stream" /\ outcome.kind = "answered" =>
    /\ Whole(outcome.text, sent, Spoken(sent))
    /\ told[Len(told)] = CompletedEvent(outcome.finish)

Sees == Speech /\ FinalsLast /\ Before /\ Body /\ Opened /\ Closed /\ Answered

\* What is told next is the next text, or none.
LEMMA SpeechGrows ==
  ASSUME Inv, Speech, NEW e \in ConsumerEvent, told' = Append(told, e),
         text' = IF IsDelta(e) THEN Append(text, e.text) ELSE text,
         IsDelta(e) => e.text \in Tokens
  PROVE  Speech'
  <1> DEFINE n == Len(told)
  <1>1. told \in Seq(ConsumerEvent) /\ text \in Seq(Tokens) /\ n \in Nat
    BY DEF Inv, TypeOK
  <1>2. /\ Len(told') = n + 1 /\ told'[n + 1] = e
        /\ \A i \in 1..n : told'[i] = told[i]
    BY <1>1
  <1>3. Deltas(told) \subseteq 1..n /\ IsFiniteSet(Deltas(told))
        /\ n + 1 \in Nat /\ \A i \in Deltas(told) : i < n + 1
    <2>1. Deltas(told) \subseteq 1..n
      BY DEF Deltas
    <2>2. IsFiniteSet(Deltas(told))
      BY <1>1, <2>1, FinitePositions
    <2> QED BY <1>1, <2>1, <2>2
  <1>4. CASE IsDelta(e)
    <2>1. Deltas(told)' = Deltas(told) \cup {n + 1}
      BY <1>1, <1>2, <1>4 DEF Deltas
    <2> DEFINE places == Deltas(told)
               m == n + 1
    <2>2. /\ places \in SUBSET Nat /\ IsFiniteSet(places) /\ m \in Nat
          /\ \A i \in places : i < m
      BY <1>3
    <2>3. \A i \in places : told'[i].text = told[i].text
      BY <1>2, <1>3
    <2>4. told'[m].text \in Tokens
      BY <1>2, <1>4
    <2>5. Whole(text, told, places)
      BY DEF Speech
    <2> DEFINE more == told'
    <2> HIDE DEF n, m, places
    <2>6. Whole(Append(text, more[m].text), more, places \cup {m})
      <3>1. (\A i \in places : more[i].text = told[i].text) /\ more[m].text \in Tokens
        BY <2>3, <2>4
      <3>2. text \in Seq(Tokens)
        BY <1>1
      <3> HIDE DEF more
      <3> QED BY <2>2, <2>5, <3>1, <3>2, WholeExtends
    <2>7. Whole(Append(text, told'[n + 1].text), told', Deltas(told) \cup {n + 1})
      BY <2>6 DEF m, places
    <2> QED BY <1>2, <1>4, <2>1, <2>7 DEF Speech
  <1>5. CASE ~IsDelta(e)
    <2>1. Deltas(told)' = Deltas(told)
      BY <1>1, <1>2, <1>5 DEF Deltas
    <2>2. \A i \in Deltas(told) : told'[i] = told[i]
      BY <1>2, <1>3
    <2> QED BY <1>5, <2>1, <2>2, WholeElsewhere DEF Speech
  <1> QED BY <1>4, <1>5

\* The texts up to some payload before [DONE] are the first of the server's,
\* and all of them when [DONE] or the end comes next.
LEMMA HeardOpens ==
  ASSUME NEW payloads \in Seq(Payload), NEW k \in 0..Len(payloads),
         NoDone(payloads, k), NEW texts, Whole(texts, payloads, Heard(payloads, k))
  PROVE  /\ Opening(texts, payloads, Spoken(payloads))
         /\ k = Len(payloads) \/ payloads[k + 1].kind = "done" =>
              Whole(texts, payloads, Spoken(payloads))
  <1> DEFINE places == Spoken(payloads)
  <1>1. places \in SUBSET Nat /\ IsFiniteSet(places) /\ k \in Nat
        /\ Len(payloads) \in Nat
    BY FinitePositions DEF Spoken
  <1>2. {i \in places : i <= k} = Heard(payloads, k)
    BY DEF Spoken, Heard, NoDone
  <1>3. ASSUME k = Len(payloads) \/ payloads[k + 1].kind = "done"
        PROVE  places = Heard(payloads, k)
    <2>1. ASSUME NEW i \in places PROVE i <= k
      <3>1. i \in 1..Len(payloads) /\ \A j \in 1..i : payloads[j].kind # "done"
        BY DEF Spoken
      <3>2. k + 1 <= i => k + 1 \in 1..i
        BY <1>1, <3>1
      <3> QED BY <1>1, <1>3, <3>1, <3>2
    <2> QED BY <1>2, <2>1
  <1> HIDE DEF places
  <1>4. Opening(texts, payloads, places)
    BY <1>1, <1>2, WholeOpens
  <1> QED BY <1>3, <1>4 DEF places

\* Payloads received later change nothing of what was heard.
LEMMA HeardBefore ==
  ASSUME NEW texts, NEW payloads, NEW more, NEW k \in Nat,
         \A i \in 1..k : more[i] = payloads[i],
         NoDone(payloads, k), Whole(texts, payloads, Heard(payloads, k))
  PROVE  NoDone(more, k) /\ Whole(texts, more, Heard(more, k))
  <1>1. Heard(more, k) = Heard(payloads, k)
    BY DEF Heard
  <1>2. \A i \in Heard(payloads, k) : more[i] = payloads[i]
    BY DEF Heard
  <1>3. NoDone(more, k)
    BY DEF NoDone
  <1> QED BY <1>1, <1>2, <1>3, WholeElsewhere

\* The text of one more payload.
LEMMA HeardNext ==
  ASSUME NEW S, NEW texts \in Seq(S), NEW payloads, NEW k \in Nat, k > 0,
         Whole(texts, payloads, Heard(payloads, k - 1))
  PROVE  /\ HasText(payloads[k]) /\ payloads[k].text \in S =>
              Whole(Append(texts, payloads[k].text), payloads, Heard(payloads, k))
         /\ ~HasText(payloads[k]) => Whole(texts, payloads, Heard(payloads, k))
  <1> DEFINE places == Heard(payloads, k - 1)
  <1>1. places \in SUBSET Nat /\ IsFiniteSet(places) /\ \A i \in places : i < k
    <2>1. places \subseteq 1..(k - 1) /\ k - 1 \in Int
      BY DEF Heard
    <2> HIDE DEF places
    <2>2. IsFiniteSet(places) /\ places \in SUBSET Nat
      BY <2>1, FinitePositions
    <2> QED BY <2>1, <2>2
  <1>2. HasText(payloads[k]) => Heard(payloads, k) = places \cup {k}
    BY DEF Heard
  <1>3. ~HasText(payloads[k]) => Heard(payloads, k) = places
    BY DEF Heard
  <1> HIDE DEF places
  <1>4. Whole(texts, payloads, places)
    BY DEF places
  <1>5. payloads[k].text \in S =>
          Whole(Append(texts, payloads[k].text), payloads, places \cup {k})
    BY <1>1, <1>4, WholeExtends
  <1> QED BY <1>2, <1>3, <1>4, <1>5

\* A call that goes another way receives no stream.
LEMMA OtherPath ==
  ASSUME path' # "stream", Speech', FinalsLast'
  PROVE  Sees'
  BY DEF Sees, Before, Body, Opened, Closed, Answered

LEMMA OtherPathSees ==
  ASSUME Sees, path' # "stream", UNCHANGED <<text, told>>
  PROVE  Sees'
  <1>1. Speech' /\ FinalsLast'
    BY DEF Sees, Speech, FinalsLast
  <1> QED BY <1>1, OtherPath

\* A step that neither tells nor receives, nor takes anything in hand.
LEMMA SilentStep ==
  ASSUME Sees, UNCHANGED <<path, text, told, sent, completed>>,
         completed => UNCHANGED finish, outcome' = outcome \/ outcome'.kind # "answered",
         Before', Body'
  PROVE  Sees'
  BY DEF Sees, Speech, FinalsLast, Opened, Closed, Answered

\* Nothing in hand.
LEMMA NothingInHand ==
  ASSUME todo' = <<>>, NEW k, Taken' = k, NoDone(sent', k),
         Whole(text', sent', Heard(sent', k))
  PROVE  Upcoming'
  BY DEF Upcoming

\* None of what was told before a call is over closes it.
LEMMA NoFinalYet ==
  ASSUME Inv, FinalsLast, stage \notin {"reporting", "settled"}, ~completed
  PROVE  \A i \in 1..Len(told) : told[i].type \notin {"completed", "error"}
  <1>1. Final = "none"
    BY DEF Inv, LastTold
  <1>2. told \in Seq(ConsumerEvent)
    BY DEF Inv, TypeOK
  <1>3. told # <<>> => told[Len(told)].type \notin {"completed", "error"}
    BY <1>1 DEF Final
  <1>4. ASSUME NEW i \in 1..Len(told) PROVE told # <<>>
    BY <1>2
  <1> QED BY <1>3, <1>4 DEF FinalsLast

\* What is told next is last.
LEMMA FinalsGrow ==
  ASSUME Inv, FinalsLast, stage \notin {"reporting", "settled"}, ~completed,
         NEW e \in ConsumerEvent, told' = Append(told, e)
  PROVE  FinalsLast' /\ told'[Len(told')] = e
  <1>1. told \in Seq(ConsumerEvent) /\ Len(told) \in Nat
    BY DEF Inv, TypeOK
  <1>2. /\ Len(told') = Len(told) + 1 /\ told'[Len(told) + 1] = e
        /\ \A i \in 1..Len(told) : told'[i] = told[i]
    BY <1>1
  <1>3. \A i \in 1..Len(told) : told[i].type \notin {"completed", "error"}
    BY NoFinalYet
  <1> QED BY <1>1, <1>2, <1>3 DEF FinalsLast

\* A stream that breaks off has told what it had told, and perhaps an error.
LEMMA ThrowSees ==
  ASSUME Inv, Sees, NEW cause \in Codes, Throw(cause), UNCHANGED <<path, sent>>,
         stage \notin {"reporting", "settled"}, ~completed
  PROVE  Sees'
  <1>1. outcome.kind = "none" /\ completed' = completed /\ text' = text
        /\ stage' \in {"reporting", "settled"}
    BY DEF Inv, OutcomeFits, Throw
  <1>2. Before' /\ Body'
    BY <1>1 DEF Before, Body
  <1>3. CASE aborted
    <2>1. outcome' = [kind |-> "aborted"] /\ told' = told
      BY <1>3 DEF Throw
    <2> QED BY <1>1, <1>2, <2>1, SilentStep
  <1>4. CASE ~aborted
    <2> DEFINE e == ErrorEvent(Code(cause))
    <2>1. told' = Append(told, e) /\ outcome' = outcome
      BY <1>4 DEF Throw
    <2>2. Code(cause) \in Codes
      BY DEF Code, Codes
    <2>3. e \in ConsumerEvent /\ ~IsDelta(e)
      BY <2>2 DEF ErrorEvent, ConsumerEvent, IsDelta
    <2> HIDE DEF e
    <2>4. Speech'
      BY <1>1, <2>1, <2>3, SpeechGrows DEF Sees
    <2>5. FinalsLast'
      BY <2>1, <2>3, FinalsGrow DEF Sees
    <2>6. Opened' /\ Closed' /\ Answered'
      BY <1>1, <2>1 DEF Sees, Opened, Closed, Answered
    <2> QED BY <1>2, <2>4, <2>5, <2>6 DEF Sees
  <1> QED BY <1>3, <1>4

\* A failure goes out.
LEMMA FailSees ==
  ASSUME Sees, NEW code, Fail(code), UNCHANGED <<path, text, provider, told, sent>>
  PROVE  Sees'
  <1>1. stage' = "settled" /\ outcome'.kind # "answered"
        /\ UNCHANGED <<completed, finish>>
    BY DEF Fail, provider
  <1>2. Before' /\ Body'
    BY <1>1 DEF Before, Body
  <1> QED BY <1>1, <1>2, SilentStep

\* The call up to the response's headers, and the answers of chat.
LEMMA EarlySees ==
  ASSUME Inv, Sees,
         \/ Begin
         \/ CredentialResolved
         \/ \E code \in Codes : RuntimeRefuses(code) \/ ProviderRefuses(code)
         \/ \E ok \in BOOLEAN : HttpAnswers(ok)
         \/ HttpRejects
  PROVE  Sees'
  <1>0. stage \in {"new", "credential", "http"} /\ ~completed /\ path' = path
        /\ sent' = sent
    BY DEF Begin, CredentialResolved, RuntimeRefuses, ProviderRefuses, HttpAnswers,
           HttpRejects, Inv, InHand
  <1>1. {"network", "http"} \subseteq Codes
    BY DEF Codes
  <1>2. ASSUME NEW cause \in Codes, Throw(cause) PROVE Sees'
    BY <1>0, <1>2, ThrowSees
  <1>3. ASSUME UNCHANGED <<text, outcome, provider, told>>,
               stage' \in {"credential", "http"}
        PROVE  Sees'
    <2>1. UNCHANGED <<buffer, tail, ended, todo, finish, completed>>
      BY <1>3 DEF provider
    <2>2. Before' /\ Body'
      BY <1>0, <1>3, <2>1 DEF Sees, Before, Body
    <2> QED BY <1>0, <1>3, <2>1, <2>2, SilentStep
  <1>4. CASE Begin
    BY <1>3, <1>4 DEF Begin
  <1>5. CASE CredentialResolved
    BY <1>1, <1>2, <1>3, <1>5 DEF CredentialResolved
  <1>6. ASSUME NEW code \in Codes, RuntimeRefuses(code) PROVE Sees'
    BY <1>6, FailSees DEF RuntimeRefuses
  <1>7. ASSUME NEW code \in Codes, ProviderRefuses(code) PROVE Sees'
    <2>1. CASE path = "stream"
      BY <1>2, <1>7, <2>1 DEF ProviderRefuses
    <2>2. CASE path # "stream"
      BY <1>7, <2>2, FailSees DEF ProviderRefuses
    <2> QED BY <2>1, <2>2
  <1>8. ASSUME NEW ok \in BOOLEAN, HttpAnswers(ok) PROVE Sees'
    <2>1. CASE ok /\ ~Signalled
      <3>1. stage = "http" /\ path = "stream" /\ stage' = "read"
            /\ UNCHANGED <<text, outcome, buffer, tail, ended, todo, finish, completed,
                           told>>
        BY <1>8, <2>1 DEF HttpAnswers, provider
      <3>2. sent = <<>> /\ buffer = <<>> /\ todo = <<>> /\ text = <<>>
            /\ tail = NoPayload /\ ~ended
        BY <3>1 DEF Sees, Before
      <3>3. Taken' = 0 /\ Len(buffer') = 0 /\ Len(todo') = 0
        BY <1>0, <3>1, <3>2 DEF Taken
      <3>4. Heard(sent', 0) = {} /\ NoDone(sent', 0)
        BY DEF Heard, NoDone
      <3>5. Whole(text', sent', Heard(sent', 0))
        BY <1>0, <3>1, <3>2, <3>4, FS_EmptySet DEF Whole, Opening
      <3>6. Layout'
        BY <3>1, <3>2, <3>3 DEF Layout
      <3>7. Upcoming'
        BY <3>1, <3>2, <3>3, <3>4, <3>5, NothingInHand
      <3>8. Before' /\ Body'
        BY <3>1, <3>6, <3>7 DEF Before, Body
      <3> QED BY <1>0, <3>1, <3>8, SilentStep
    <2>2. CASE ~(ok /\ ~Signalled)
      BY <1>1, <1>2, <1>8, <2>2 DEF HttpAnswers
    <2> QED BY <2>1, <2>2
  <1>9. CASE HttpRejects
    BY <1>1, <1>2, <1>9 DEF HttpRejects
  <1> QED BY <1>4, <1>5, <1>6, <1>7, <1>8, <1>9

\* The other two ways.
LEMMA ChatSees ==
  ASSUME Inv, Sees,
         \/ \E t \in Tokens, raw \in {"stop", "tool_calls"} : ChatAnswers(t, raw)
         \/ \E code \in Codes : ChatFails(code)
         \/ ChatTimesOut
         \/ \E t \in Tokens : FallbackAnswers(t)
  PROVE  Sees'
  <1>1. path \in {"generate", "fallback"} /\ UNCHANGED <<path, text, told>>
    BY DEF ChatAnswers, ChatFails, ChatTimesOut, FallbackAnswers, history
  <1> QED BY <1>1, OtherPathSees

\* The payloads that lie between what was taken and what was received.
LEMMA LaidOut ==
  ASSUME Inv, Sees, path = "stream", stage \in {"read", "process"}, ~completed
  PROVE  /\ sent \in Seq(Payload) /\ buffer \in Seq(Payload) /\ todo \in Seq(Step)
         /\ text \in Seq(Tokens) /\ Taken \in 0..Len(sent) /\ Layout /\ Upcoming
         /\ tail # NoPayload => tail \in Payload
         /\ stage = "read" => todo = <<>> /\ buffer = <<>>
         /\ Len(sent) = Taken + Len(buffer) + (IF tail = NoPayload THEN 0 ELSE 1)
  <1>1. /\ sent \in Seq(Payload) /\ buffer \in Seq(Payload) /\ todo \in Seq(Step)
        /\ text \in Seq(Tokens) /\ Len(sent) \in Nat /\ Len(buffer) \in Nat
        /\ tail # NoPayload => tail \in Payload
    BY DEF Inv, TypeOK, Step
  <1>2. Layout /\ Upcoming
    BY DEF Sees, Body
  <1>3. Taken \in 0..Len(sent)
        /\ Len(sent) = Taken + Len(buffer) + (IF tail = NoPayload THEN 0 ELSE 1)
    BY <1>1, <1>2 DEF Layout, Taken
  <1>4. stage = "read" => todo = <<>> /\ buffer = <<>>
    BY <1>2 DEF Layout, Inv, InHand
  <1> QED BY <1>1, <1>2, <1>3, <1>4

\* While the body is read, all that was taken was told.
LEMMA Reading ==
  ASSUME Inv, Sees, path = "stream", stage = "read"
  PROVE  /\ ~completed /\ outcome.kind = "none" /\ ~ended
         /\ NoDone(sent, Taken) /\ Whole(text, sent, Heard(sent, Taken))
  <1>1. ~completed /\ outcome.kind = "none"
    BY DEF Inv, InHand, OutcomeFits
  <1>2. Layout /\ Upcoming /\ todo = <<>>
    BY <1>1, LaidOut
  <1> QED BY <1>1, <1>2 DEF Layout, Upcoming

\* Receiving leaves what was taken and told as it was.
LEMMA Received ==
  ASSUME Inv, Sees, path = "stream", stage = "read", stage' = "process",
         UNCHANGED <<path, text, told, outcome, completed, finish>>,
         sent' \in Seq(Payload), Taken' = Taken, Taken <= Len(sent'),
         \A i \in 1..Taken : sent'[i] = sent[i],
         Layout', todo' = <<>> \/ todo' = <<Broken>>
  PROVE  Sees'
  <1>1. /\ ~completed /\ outcome.kind = "none" /\ Taken \in Nat
        /\ NoDone(sent, Taken) /\ Whole(text, sent, Heard(sent, Taken))
    BY Reading, LaidOut
  <1>2. NoDone(sent', Taken) /\ Whole(text, sent', Heard(sent', Taken))
    BY <1>1, HeardBefore
  <1>3. Opening(text, sent', Spoken(sent'))
    <2>1. Taken \in 0..Len(sent')
      BY <1>1
    <2> QED BY <1>2, <2>1, HeardOpens
  <1>4. Upcoming'
    <2>1. CASE todo' = <<>>
      BY <1>2, <2>1, NothingInHand
    <2>2. CASE todo' = <<Broken>>
      <3>1. Len(todo') = 1 /\ todo'[1].type = "throw" /\ todo' # <<>>
        BY <2>2 DEF Broken
      <3> QED BY <3>1 DEF Upcoming, IsDelta
    <2> QED BY <2>1, <2>2
  <1>5. Speech' /\ FinalsLast' /\ Before' /\ Body' /\ Closed' /\ Answered'
    BY <1>1, <1>4 DEF Sees, Speech, FinalsLast, Before, Body, Closed, Answered
  <1>6. Opened'
    BY <1>3 DEF Opened
  <1> QED BY <1>5, <1>6 DEF Sees

\* A chunk of the body.
LEMMA ChunkSees ==
  ASSUME Inv, Sees, NEW ps \in PieceSeqs, NEW open \in BOOLEAN, ReadChunk(ps, open)
  PROVE  Sees'
  <1> DEFINE all == (IF tail = NoPayload THEN <<>> ELSE <<tail>>) \o ps
             n == Len(sent)
             rest == IF tail = NoPayload THEN 0 ELSE 1
  <1>1. /\ stage = "read" /\ stage' = "process"
        /\ buffer' = IF open THEN SubSeq(all, 1, Len(all) - 1) ELSE all
        /\ tail' = IF open THEN all[Len(all)] ELSE NoPayload
        /\ sent' = sent \o ps
        /\ UNCHANGED <<path, aborted, timedOut, ended, todo, waiting, finish,
                       completed, text, outcome, told, broken>>
    BY DEF ReadChunk
  <1>2. CASE path # "stream"
    BY <1>1, <1>2, OtherPathSees
  <1>3. CASE path = "stream"
    <2>1. ps \in Seq(Payload) /\ Len(ps) \in Nat \ {0}
      BY PiecesArePayloads
    <2>2. /\ sent \in Seq(Payload) /\ n \in Nat /\ Taken = n - rest /\ Taken \in Nat
          /\ todo = <<>> /\ ~ended
          /\ tail # NoPayload => tail \in Payload /\ tail = sent[n]
      <3>1. ~completed
        BY <1>1, <1>3, Reading
      <3>2. /\ sent \in Seq(Payload) /\ Taken \in 0..Len(sent) /\ Layout
            /\ tail # NoPayload => tail \in Payload
            /\ todo = <<>> /\ buffer = <<>>
            /\ Len(sent) = Taken + Len(buffer) + rest
        BY <1>1, <1>3, <3>1, LaidOut
      <3> QED BY <1>1, <3>2 DEF Layout
    <2>3. /\ sent' \in Seq(Payload) /\ Len(sent') = n + Len(ps)
          /\ \A i \in 1..n : sent'[i] = sent[i]
          /\ \A i \in 1..Len(ps) : sent'[n + i] = ps[i]
      BY <1>1, <2>1, <2>2
    <2>4. /\ all \in Seq(Payload) /\ Len(all) = rest + Len(ps)
          /\ \A i \in 1..Len(all) : all[i] = sent'[Taken + i]
      <3>1. CASE tail = NoPayload
        <4>1. all = ps
          BY <2>1, <3>1
        <4> HIDE DEF all
        <4> QED BY <2>1, <2>2, <2>3, <3>1, <4>1
      <3>2. CASE tail # NoPayload
        <4>1. /\ all = <<tail>> \o ps /\ tail \in Payload
          BY <2>2, <3>2
        <4>2. /\ all \in Seq(Payload) /\ Len(all) = 1 + Len(ps) /\ all[1] = tail
              /\ \A i \in 2..1 + Len(ps) : all[i] = ps[i - 1]
          BY <2>1, <4>1
        <4> HIDE DEF all
        <4>3. ASSUME NEW i \in 1..Len(all) PROVE all[i] = sent'[Taken + i]
          <5>1. Taken + i = n + (i - 1)
            BY <2>1, <2>2, <3>2, <4>2
          <5>2. CASE i = 1
            BY <2>2, <2>3, <3>2, <4>2, <5>1, <5>2
          <5>3. CASE i # 1
            <6>1. i - 1 \in 1..Len(ps) /\ i \in 2..1 + Len(ps)
              BY <2>1, <4>2, <5>3
            <6> QED BY <2>3, <4>2, <5>1, <6>1
          <5> QED BY <5>2, <5>3
        <4> QED BY <3>2, <4>2, <4>3
      <3> QED BY <3>1, <3>2
    <2>5. rest \in {0, 1}
      OBVIOUS
    <2>6. Taken' = Len(sent') - Len(buffer') - (IF tail' = NoPayload THEN 0 ELSE 1)
      BY DEF Taken
    <2> HIDE DEF all, rest, n
    <2>7. Taken + Len(all) = Len(sent') /\ Len(all) \in Nat \ {0} /\ n <= Len(sent')
          /\ Taken <= n
      <3>1. rest = 0 \/ rest = 1
        BY <2>5
      <3>2. /\ Taken = n - rest /\ n \in Nat /\ Taken \in Nat
            /\ Len(ps) \in Nat /\ Len(ps) # 0 /\ Len(sent') = n + Len(ps)
            /\ Len(all) = rest + Len(ps)
        BY <2>1, <2>2, <2>3, <2>4
      <3> QED BY <3>1, <3>2
    <2>8. Taken' = Taken /\ Layout'
      <3>1. CASE open
        <4>1. /\ Len(buffer') = Len(all) - 1 /\ tail' = all[Len(all)]
              /\ \A i \in 1..Len(buffer') : buffer'[i] = all[i]
          BY <1>1, <2>4, <2>7, <3>1
        <4>2. tail' \in Payload
          BY <2>4, <2>7, <4>1
        <4>3. tail' # NoPayload
          BY <4>2, NoPayloadAssumption
        <4>4. Taken' = Taken
          BY <2>2, <2>6, <2>7, <4>1, <4>3
        <4>5. tail' = sent'[Len(sent')]
          <5>1. Len(all) \in 1..Len(all)
            BY <2>7
          <5> QED BY <2>4, <2>7, <4>1, <5>1
        <4>6. \A i \in 1..Len(buffer') : buffer'[i] = sent'[Taken' + i]
          BY <2>2, <2>4, <2>7, <4>1, <4>4
        <4>7. Taken' >= 0 /\ (ended' => tail' = NoPayload) /\ stage' # "read"
          BY <1>1, <2>2, <4>4
        <4>8. Layout'
          BY <4>5, <4>6, <4>7 DEF Layout
        <4> QED BY <4>4, <4>8
      <3>2. CASE ~open
        <4>1. buffer' = all /\ tail' = NoPayload
          BY <1>1, <3>2
        <4>2. Taken' = Taken
          BY <2>2, <2>6, <2>7, <4>1
        <4>3. \A i \in 1..Len(buffer') : buffer'[i] = sent'[Taken' + i]
          BY <2>4, <4>1, <4>2
        <4>4. Taken' >= 0 /\ stage' # "read"
          BY <1>1, <2>2, <4>2
        <4>5. Layout'
          BY <4>1, <4>3, <4>4 DEF Layout
        <4> QED BY <4>2, <4>5
      <3> QED BY <3>1, <3>2
    <2>9. Taken <= Len(sent') /\ \A i \in 1..Taken : sent'[i] = sent[i]
      BY <2>2, <2>3, <2>7
    <2> QED BY <1>1, <1>3, <2>2, <2>3, <2>8, <2>9, Received
  <1> QED BY <1>2, <1>3

\* The end of the body, in whatever it leaves of the last payload.
LEMMA EndSees ==
  ASSUME Inv, Sees, NEW left \in {"whole", "cut", "lost"}, ReadEnd(left)
  PROVE  Sees'
  <1>1. /\ stage = "read" /\ stage' = "process" /\ ended' = TRUE /\ tail' = NoPayload
        /\ left # "whole" => tail # NoPayload
        /\ buffer' = IF left = "whole" /\ tail # NoPayload THEN <<tail>> ELSE <<>>
        /\ todo' = IF left = "cut" THEN <<Broken>> ELSE <<>>
        /\ sent' = IF left = "lost" THEN SubSeq(sent, 1, Len(sent) - 1) ELSE sent
        /\ UNCHANGED <<path, aborted, timedOut, waiting, finish, completed, text,
                       outcome, told, broken>>
    BY DEF ReadEnd
  <1>2. CASE path # "stream"
    BY <1>1, <1>2, OtherPathSees
  <1>3. CASE path = "stream" /\ left = "cut"
    <2>1. ~completed /\ outcome.kind = "none"
      BY <1>1, <1>3, Reading
    <2>2. sent' = sent /\ Len(todo') = 1 /\ todo'[1].type = "throw" /\ todo' # <<>>
          /\ Len(buffer') = 0
      BY <1>1, <1>3 DEF Broken
    <2>3. Taken' = Len(sent) /\ Len(sent) \in Nat
      BY <1>1, <2>2 DEF Taken, Inv, TypeOK
    <2>4. Layout' /\ Upcoming'
      BY <1>1, <2>2, <2>3 DEF Layout, Upcoming, IsDelta
    <2>5. Before' /\ Body'
      BY <1>1, <2>4 DEF Before, Body
    <2> QED BY <1>1, <2>1, <2>2, <2>5, SilentStep
  <1>4. CASE path = "stream" /\ left # "cut"
    <2>1. ~completed
      BY <1>1, <1>4, Reading
    <2>2. /\ sent \in Seq(Payload) /\ Taken \in Nat /\ Layout /\ Len(sent) \in Nat
          /\ Len(sent) = Taken + (IF tail = NoPayload THEN 0 ELSE 1)
      <3>1. buffer = <<>> /\ sent \in Seq(Payload) /\ Taken \in 0..Len(sent) /\ Layout
            /\ Len(sent) = Taken + Len(buffer) + (IF tail = NoPayload THEN 0 ELSE 1)
        BY <1>1, <1>4, <2>1, LaidOut
      <3> QED BY <3>1
    <2>3. CASE left = "whole"
      <3>1. sent' = sent /\ todo' = <<>>
            /\ buffer' = IF tail # NoPayload THEN <<tail>> ELSE <<>>
        BY <1>1, <2>3
      <3>2. Taken' = Taken
        <4>1. Len(buffer') = IF tail # NoPayload THEN 1 ELSE 0
          BY <3>1
        <4>2. Taken' = Len(sent) - Len(buffer')
          BY <1>1, <2>2, <3>1, <4>1 DEF Taken
        <4> QED BY <2>2, <4>1, <4>2
      <3>3. \A i \in 1..Len(buffer') : buffer'[i] = sent'[Taken' + i]
        BY <2>2, <3>1, <3>2 DEF Layout
      <3>4. Layout'
        BY <1>1, <2>2, <3>2, <3>3 DEF Layout
      <3> QED BY <1>1, <1>4, <2>2, <3>1, <3>2, <3>4, Received
    <2>4. CASE left = "lost"
      <3>1. sent' = SubSeq(sent, 1, Taken) /\ todo' = <<>> /\ buffer' = <<>>
            /\ Len(sent) = Taken + 1
        BY <1>1, <2>2, <2>4
      <3>2. /\ sent' \in Seq(Payload) /\ Len(sent') = Taken
            /\ \A i \in 1..Taken : sent'[i] = sent[i]
        BY <2>2, <3>1
      <3>3. Taken' = Taken
        <4>1. Len(buffer') = 0 /\ tail' = NoPayload
          BY <1>1, <3>1
        <4> QED BY <2>2, <3>2, <4>1 DEF Taken
      <3>4. Layout'
        BY <1>1, <2>2, <3>1, <3>3 DEF Layout
      <3> QED BY <1>1, <1>4, <2>2, <3>1, <3>2, <3>3, <3>4, Received
    <2> QED BY <1>4, <2>3, <2>4
  <1> QED BY <1>2, <1>3, <1>4

\* The other ways in which a read ends.
LEMMA ReadSees ==
  ASSUME Inv, Sees, TailTerminated \/ ReadFails \/ ReadAborted
  PROVE  Sees'
  <1>1. stage = "read" /\ path' = path /\ sent' = sent /\ ~completed
    BY DEF TailTerminated, ReadFails, ReadAborted, history, Inv, InHand
  <1>2. CASE ReadFails \/ ReadAborted
    <2>1. Throw("network") /\ "network" \in Codes
      BY <1>2 DEF ReadFails, ReadAborted, Codes
    <2> QED BY <1>1, <2>1, ThrowSees
  <1>3. CASE TailTerminated
    <2>1. /\ tail # NoPayload /\ buffer' = <<tail>> /\ tail' = NoPayload
          /\ stage' = "process"
          /\ UNCHANGED <<ended, todo, finish, completed, text, outcome, told>>
      BY <1>3 DEF TailTerminated, history
    <2>2. CASE path # "stream"
      BY <1>1, <2>1, <2>2, OtherPathSees
    <2>3. CASE path = "stream"
      <3>1. /\ sent \in Seq(Payload) /\ Taken \in 0..Len(sent) /\ Layout /\ todo = <<>>
            /\ buffer = <<>> /\ Len(sent) \in Nat
            /\ Len(sent) = Taken + Len(buffer) + (IF tail = NoPayload THEN 0 ELSE 1)
        BY <1>1, <2>3, LaidOut
      <3>2. Len(sent) = Taken + 1
        BY <2>1, <3>1
      <3>3. Taken' = Taken
        BY <1>1, <2>1, <3>1, <3>2 DEF Taken
      <3>4. \A i \in 1..Len(buffer') : buffer'[i] = sent'[Taken' + i]
        BY <1>1, <2>1, <3>1, <3>2, <3>3 DEF Layout
      <3>5. Layout'
        BY <1>1, <2>1, <3>1, <3>3, <3>4 DEF Layout
      <3> QED BY <1>1, <2>1, <2>3, <3>1, <3>3, <3>5, Received
    <2> QED BY <2>2, <2>3
  <1> QED BY <1>2, <1>3

\* A payload is taken apart into its text, which comes last, a completion, or
\* a step that breaks the stream.
LEMMA StepsSpeak ==
  ASSUME NEW p \in Payload, NEW f \in Reasons
  PROVE  LET s == ProcessEvent(p, f)
             e == s[Len(s)]
         IN  /\ \A i \in 1..Len(s) : IsDelta(s[i]) => i = Len(s)
             /\ s = <<>> \/ e.type = "usage" => p.kind # "done" /\ ~HasText(p)
             /\ s # <<>> /\ IsDelta(e) =>
                  HasText(p) /\ p.kind # "done" /\ e.text = p.text
             /\ s # <<>> /\ e.type = "completed" =>
                  p.kind = "done" /\ e = CompletedEvent(FinishAfter(p, f))
  <1> DEFINE s == ProcessEvent(p, f)
             e == s[Len(s)]
             Fits(r) ==
               LET l == r[Len(r)]
               IN  /\ \A i \in 1..Len(r) : IsDelta(r[i]) => i = Len(r)
                   /\ r = <<>> \/ l.type = "usage" => p.kind # "done" /\ ~HasText(p)
                   /\ r # <<>> /\ IsDelta(l) =>
                        HasText(p) /\ p.kind # "done" /\ l.text = p.text
                   /\ r # <<>> /\ l.type = "completed" =>
                        p.kind = "done" /\ l = CompletedEvent(FinishAfter(p, f))
  <1>1. Broken.type = "throw" /\ UsageEvent.type = "usage"
    BY DEF Broken, UsageEvent
  <1>2. CASE p.kind = "junk"
    <2>1. s = <<Broken>>
      BY <1>2 DEF ProcessEvent
    <2>2. Len(s) = 1 /\ s[1] = Broken /\ s # <<>>
      BY <2>1
    <2> HIDE DEF s
    <2>3. Fits(s)
      BY <1>1, <2>2 DEF IsDelta
    <2> QED BY <2>3 DEF s
  <1>3. CASE p.kind = "done"
    <2> DEFINE c == CompletedEvent(FinishAfter(p, f))
    <2>1. s = <<c>>
      BY <1>3 DEF ProcessEvent
    <2>2. c.type = "completed"
      BY DEF CompletedEvent
    <2> HIDE DEF c
    <2>3. Len(s) = 1 /\ s[1] = c /\ s # <<>>
      BY <2>1
    <2> HIDE DEF s
    <2>4. Fits(s)
      BY <1>3, <2>2, <2>3 DEF IsDelta, c
    <2> QED BY <2>4 DEF s
  <1>4. CASE p.kind \notin {"junk", "done"}
    <2> DEFINE u == UsageSteps(p)
               t == TextSteps(p)
    <2>1. s = u \o t /\ p.kind = "data"
      BY <1>4 DEF ProcessEvent, Payload
    <2>2. u = <<>> \/ u = <<UsageEvent>> \/ u = <<Broken>>
      <3>1. p.usage \in {"none", "ok", "bad"}
        BY DEF Payload
      <3> QED BY <3>1 DEF UsageSteps
    <2>3. /\ u \in Seq(Step) /\ Len(u) \in Nat
          /\ \A i \in 1..Len(u) : u[i].type # "delta" /\ u[i].type # "completed"
      <3>1. UsageEvent \in Step /\ Broken \in Step
        BY DEF UsageEvent, Broken, Step, ConsumerEvent
      <3>2. CASE u = <<>>
        BY <3>2
      <3>3. ASSUME NEW x \in {UsageEvent, Broken}, u = <<x>>
            PROVE  /\ u \in Seq(Step) /\ Len(u) \in Nat
                   /\ \A i \in 1..Len(u) : u[i].type # "delta" /\ u[i].type # "completed"
        <4>1. x \in Step /\ x.type # "delta" /\ x.type # "completed"
          BY <1>1, <3>1
        <4>2. <<x>> \in Seq(Step) /\ Len(<<x>>) = 1 /\ <<x>>[1] = x
          BY <4>1
        <4> QED BY <3>3, <4>1, <4>2
      <3> HIDE DEF u
      <3> QED BY <2>2, <3>2, <3>3
    <2>4. CASE p.text = "none"
      <3>1. t = <<>>
        BY <2>4 DEF TextSteps
      <3> HIDE DEF u, t
      <3>2. s = u
        BY <2>1, <2>3, <3>1
      <3> HIDE DEF s
      <3>3. ~HasText(p)
        BY <2>4, TokensAssumption DEF HasText
      <3>4. u # <<>> => Len(u) \in 1..Len(u)
        BY <2>3
      <3>5. u # <<>> => u[Len(u)].type # "delta" /\ u[Len(u)].type # "completed"
        BY <2>3, <3>4
      <3>6. Fits(s)
        BY <2>1, <2>3, <3>2, <3>3, <3>5 DEF IsDelta
      <3> QED BY <3>6 DEF s
    <2>5. ASSUME NEW x \in Step, t = <<x>>,
                 x.type \notin {"usage", "completed"},
                 x.type = "delta" => HasText(p) /\ x.text = p.text
          PROVE  Fits(s)
      <3> HIDE DEF u, t
      <3>1. /\ Len(s) = Len(u) + 1 /\ s[Len(s)] = x /\ s # <<>>
            /\ \A i \in 1..Len(u) : s[i] = u[i]
        BY <2>1, <2>3, <2>5
      <3> HIDE DEF s
      <3>2. ASSUME NEW i \in 1..Len(s), IsDelta(s[i]) PROVE i = Len(s)
        BY <2>3, <3>1, <3>2 DEF IsDelta
      <3> QED BY <2>1, <2>5, <3>1, <3>2 DEF IsDelta
    <2>6. CASE p.text = "bad"
      <3>1. t = <<Broken>> /\ Broken \in Step
        BY <2>6 DEF TextSteps, Step
      <3> HIDE DEF s, t, Fits
      <3> QED BY <1>1, <2>5, <3>1 DEF s, Fits
    <2>7. CASE p.text \notin {"none", "bad"}
      <3>1. t = <<Delta(p.text)>>
        BY <2>7 DEF TextSteps
      <3>2. p.text \in Tokens
        BY <2>7 DEF Payload
      <3>3. /\ Delta(p.text) \in Step /\ Delta(p.text).type = "delta"
            /\ Delta(p.text).text = p.text /\ HasText(p)
        BY <2>1, <3>2 DEF Delta, Step, ConsumerEvent, HasText
      <3> HIDE DEF s, t, Fits
      <3>4. Fits(s)
        BY <2>5, <3>1, <3>3
      <3> QED BY <3>4 DEF s, Fits
    <2> QED BY <2>4, <2>6, <2>7
  <1> QED BY <1>2, <1>3, <1>4

\* The next payload, in order.
LEMMA TakeSees ==
  ASSUME Inv, Sees, TakePayload
  PROVE  Sees'
  <1> DEFINE p == Head(buffer)
             s == ProcessEvent(p, finish)
             k == Taken + 1
  <1>1. /\ stage = "process" /\ todo = <<>> /\ ~completed /\ buffer # <<>>
        /\ todo' = s /\ finish' = FinishAfter(p, finish) /\ buffer' = Tail(buffer)
        /\ UNCHANGED <<path, stage, aborted, timedOut, tail, ended, waiting,
                       completed, text, outcome, told, sent, broken>>
    BY DEF TakePayload, Idle, history
  <1>2. CASE path # "stream"
    BY <1>1, <1>2, OtherPathSees
  <1>3. CASE path = "stream"
    <2>1. /\ sent \in Seq(Payload) /\ buffer \in Seq(Payload) /\ text \in Seq(Tokens)
          /\ Taken \in 0..Len(sent) /\ Layout /\ Upcoming
          /\ Len(sent) = Taken + Len(buffer) + (IF tail = NoPayload THEN 0 ELSE 1)
          /\ Len(sent) \in Nat /\ Len(buffer) \in Nat
      BY <1>1, <1>3, LaidOut
    <2>2. /\ Len(buffer) # 0 /\ p = buffer[1] /\ p \in Payload
          /\ Len(buffer') = Len(buffer) - 1
          /\ \A i \in 1..Len(buffer') : buffer'[i] = buffer[i + 1]
      BY <1>1, <2>1
    <2>3. p = sent[k]
      <3>1. 1 \in 1..Len(buffer)
        BY <2>1, <2>2
      <3> QED BY <2>2, <3>1, <2>1 DEF Layout
    <2>4. k \in 1..Len(sent) /\ k - 1 = Taken /\ k \in Nat /\ k > 0
      BY <2>1, <2>2
    <2>5. Taken' = k
      <3>1. Taken' = Len(sent) - Len(buffer') - (IF tail = NoPayload THEN 0 ELSE 1)
        BY <1>1 DEF Taken
      <3> QED BY <2>1, <2>2, <3>1
    <2>6. NoDone(sent, Taken) /\ Whole(text, sent, Heard(sent, Taken))
      BY <1>1, <2>1 DEF Upcoming
    <2> HIDE DEF p, k
    <2>7. /\ \A i \in 1..Len(s) : IsDelta(s[i]) => i = Len(s)
          /\ s = <<>> \/ s[Len(s)].type = "usage" => p.kind # "done" /\ ~HasText(p)
          /\ s # <<>> /\ IsDelta(s[Len(s)]) =>
               HasText(p) /\ p.kind # "done" /\ s[Len(s)].text = p.text
          /\ s # <<>> /\ s[Len(s)].type = "completed" =>
               p.kind = "done" /\ s[Len(s)] = CompletedEvent(FinishAfter(p, finish))
      BY <2>2, StepsSpeak DEF Inv, TypeOK
    <2> HIDE DEF s
    <2>8. p.kind # "done" => NoDone(sent, k)
      <3>1. \A j \in 1..k : j = k \/ j \in 1..Taken
        BY <2>4, <2>1
      <3> QED BY <2>3, <2>6, <3>1 DEF NoDone
    <2>9. Whole(text, sent, Heard(sent, k - 1))
      BY <2>4, <2>6
    <2>10. ~HasText(p) => Whole(text, sent, Heard(sent, k))
      BY <2>1, <2>3, <2>4, <2>9, HeardNext
    <2>11. p.kind = "done" => Whole(text, sent, Spoken(sent))
      BY <2>1, <2>3, <2>6, HeardOpens DEF k
    <2>12. Layout'
      <3>1. ASSUME NEW i \in 1..Len(buffer') PROVE buffer'[i] = sent'[Taken' + i]
        <4>1. i + 1 \in 1..Len(buffer) /\ Taken + (i + 1) = Taken' + i
          BY <2>1, <2>2, <2>4, <2>5
        <4>2. buffer[i + 1] = sent[Taken + (i + 1)]
          BY <2>1, <4>1 DEF Layout
        <4> QED BY <1>1, <2>2, <4>1, <4>2
      <3> QED BY <1>1, <2>1, <2>4, <2>5, <3>1 DEF Layout
    <2>13. Upcoming'
      BY <1>1, <2>3, <2>4, <2>5, <2>7, <2>8, <2>9, <2>10, <2>11 DEF Upcoming
    <2>14. Before' /\ Body'
      BY <1>1, <2>12, <2>13 DEF Before, Body
    <2> QED BY <1>1, <2>14, SilentStep
  <1> QED BY <1>2, <1>3

\* Back to the body, or to its end.
LEMMA TurnToBody ==
  ASSUME Inv, Sees, NextChunk \/ EndReached
  PROVE  Sees'
  <1>1. stage = "process" /\ todo = <<>> /\ ~completed /\ buffer = <<>> /\ path' = path
        /\ sent' = sent
    BY DEF NextChunk, EndReached, Idle, history
  <1>2. CASE NextChunk
    <2>1. stage' = "read" /\ ~ended
          /\ UNCHANGED <<path, text, outcome, buffer, tail, ended, todo, finish,
                         completed, told, sent>>
      BY <1>2 DEF NextChunk, provider, history
    <2>2. CASE path # "stream"
      BY <2>1, <2>2, OtherPathSees
    <2>3. CASE path = "stream"
      <3>1. Layout /\ Upcoming
        BY <1>1, <2>3, LaidOut
      <3>2. Taken' = Taken
        BY <2>1 DEF Taken
      <3>3. Layout' /\ Upcoming'
        BY <1>1, <2>1, <3>1, <3>2 DEF Layout, Upcoming
      <3>4. Before' /\ Body'
        BY <2>1, <3>3 DEF Before, Body
      <3> QED BY <2>1, <3>4, SilentStep
    <2> QED BY <2>2, <2>3
  <1>3. CASE EndReached /\ finish = "unknown"
    <2>1. Throw("incomplete") /\ "incomplete" \in Codes
      BY <1>3 DEF EndReached, Codes
    <2> QED BY <1>1, <2>1, ThrowSees
  <1>4. CASE EndReached /\ finish # "unknown"
    <2> DEFINE e == CompletedEvent(finish)
    <2>1. todo' = <<e>> /\ ended
          /\ UNCHANGED <<stage, text, outcome, buffer, tail, ended, finish, completed,
                         told>>
      BY <1>4 DEF EndReached
    <2>2. CASE path # "stream"
      BY <1>1, <2>1, <2>2, OtherPathSees
    <2>3. CASE path = "stream"
      <3>1. /\ sent \in Seq(Payload) /\ Taken \in 0..Len(sent) /\ Layout /\ Upcoming
            /\ Len(sent) = Taken + Len(buffer) + (IF tail = NoPayload THEN 0 ELSE 1)
        BY <1>1, <2>3, LaidOut
      <3>2. Taken = Len(sent)
        BY <1>1, <2>1, <3>1 DEF Layout
      <3>3. NoDone(sent, Taken) /\ Whole(text, sent, Heard(sent, Taken))
        BY <1>1, <3>1 DEF Upcoming
      <3>4. Whole(text, sent, Spoken(sent))
        BY <3>1, <3>2, <3>3, HeardOpens
      <3>5. Taken' = Taken
        BY <1>1, <2>1 DEF Taken
      <3>6. Layout'
        BY <1>1, <2>1, <3>1, <3>5 DEF Layout
      <3>7. e.type = "completed"
        BY DEF CompletedEvent
      <3>8. e = CompletedEvent(finish')
        BY <2>1
      <3> HIDE DEF e
      <3>9. Len(todo') = 1 /\ todo'[1] = e /\ todo' # <<>>
        BY <2>1
      <3>10. Upcoming'
        BY <1>1, <2>1, <3>4, <3>7, <3>8, <3>9 DEF Upcoming, IsDelta
      <3>11. Before' /\ Body'
        BY <2>1, <1>1, <3>6, <3>10 DEF Before, Body
      <3> QED BY <1>1, <2>1, <3>11, SilentStep
    <2> QED BY <2>2, <2>3
  <1> QED BY <1>2, <1>3, <1>4

\* What the consumer is told is the next text of the stream, or its end.
LEMMA TellSees ==
  ASSUME Inv, Sees, TellConsumer
  PROVE  Sees'
  <1> DEFINE e == Head(todo)
             n == Len(todo)
  <1>1. /\ text' = IF e.type = "delta" THEN Append(text, e.text) ELSE text
        /\ completed' = (completed \/ e.type = "completed")
        /\ buffer' = IF e.type = "completed" THEN <<>> ELSE buffer
        /\ todo' = Tail(todo) /\ todo # <<>>
        /\ UNCHANGED <<path, stage, tail, ended, finish, outcome, sent>>
    BY DEF TellConsumer
  <1>2. /\ e \in ConsumerEvent /\ e.type \in {"delta", "usage", "completed"}
        /\ e.type = "delta" => e.text \in Tokens
        /\ e.type = "completed" => todo' = <<>>
        /\ told' = Append(told, e)
        /\ stage = "process" /\ ~completed
        /\ todo' \in Seq(Step) /\ Len(todo') = n - 1
        /\ \A i \in 1..Len(todo') : todo'[i] = todo[i + 1]
    BY Telling
  <1>3. n \in Nat /\ n # 0 /\ e = todo[1]
    BY <1>1 DEF Inv, TypeOK
  <1>4. outcome.kind = "none"
    BY <1>2 DEF Inv, OutcomeFits
  <1> HIDE DEF e, n
  <1>5. Speech'
    BY <1>1, <1>2, SpeechGrows DEF Sees, IsDelta
  <1>6. FinalsLast' /\ told'[Len(told')] = e
    BY <1>2, FinalsGrow DEF Sees
  <1>7. CASE path # "stream"
    BY <1>1, <1>5, <1>6, <1>7, OtherPath
  <1>8. CASE path = "stream"
    <2>1. /\ sent \in Seq(Payload) /\ text \in Seq(Tokens) /\ Taken \in 0..Len(sent)
          /\ Layout /\ Upcoming
      BY <1>2, <1>8, LaidOut
    <2>2. Before' /\ Answered'
      BY <1>1, <1>2, <1>4 DEF Before, Answered
    <2>3. e.type # "completed" => Layout' /\ Taken' = Taken
      BY <1>1, <2>1 DEF Layout, Taken
    <2>4. ~completed' => e.type # "completed"
      BY <1>1
    <2>5. CASE e.type = "completed"
      <3>1. n = 1
        <4>1. todo' = <<>>
          BY <1>2, <2>5
        <4>2. Len(todo') = 0
          BY <4>1
        <4> QED BY <1>2, <1>3, <4>2
      <3>2. Whole(text, sent, Spoken(sent)) /\ e = CompletedEvent(finish)
        BY <1>1, <1>3, <2>1, <2>5, <3>1 DEF Upcoming, n
      <3>3. completed' /\ text' = text
        BY <1>1, <2>5
      <3>4. Closed' /\ Body'
        BY <1>1, <1>6, <3>2, <3>3 DEF Closed, Body
      <3>5. Opened'
        BY <1>1, <3>3 DEF Sees, Opened
      <3> QED BY <1>5, <1>6, <2>2, <3>4, <3>5 DEF Sees
    <2>6. CASE e.type = "delta"
      <3>1. n = 1 /\ todo' = <<>>
        <4>1. 1 \in 1..n
          BY <1>3
        <4>2. n = 1
          BY <1>3, <2>1, <2>6, <4>1 DEF Upcoming, IsDelta, n
        <4> QED BY <1>2, <4>2
      <3>2. /\ Taken > 0 /\ NoDone(sent, Taken)
            /\ HasText(sent[Taken]) /\ e.text = sent[Taken].text
            /\ Whole(text, sent, Heard(sent, Taken - 1))
        BY <1>1, <1>3, <2>1, <2>6, <3>1 DEF Upcoming, IsDelta, n
      <3>3. text' = Append(text, sent[Taken].text) /\ sent[Taken].text \in Tokens
        BY <1>1, <1>2, <2>6, <3>2
      <3>4. Whole(text', sent, Heard(sent, Taken))
        BY <2>1, <3>2, <3>3, HeardNext
      <3>5. Opening(text', sent, Spoken(sent))
        BY <2>1, <3>2, <3>4, HeardOpens
      <3>6. Upcoming'
        BY <1>1, <2>3, <2>6, <3>1, <3>2, <3>4, NothingInHand
      <3>7. Opened' /\ Closed' /\ Body'
        BY <1>1, <1>2, <2>3, <2>6, <3>5, <3>6 DEF Opened, Closed, Body
      <3> QED BY <1>5, <1>6, <2>2, <3>7 DEF Sees
    <2>7. CASE e.type = "usage"
      <3>1. text' = text /\ ~completed' /\ Taken' = Taken
        BY <1>1, <1>2, <2>3, <2>7
      <3>2. Upcoming'
        <4>1. CASE todo' = <<>>
          <5>1. Len(todo') = 0
            BY <4>1
          <5>2. n = 1
            BY <1>2, <1>3, <5>1
          <5>3. NoDone(sent, Taken) /\ Whole(text, sent, Heard(sent, Taken))
            BY <1>1, <1>3, <2>1, <2>7, <5>2 DEF Upcoming, n
          <5> QED BY <1>1, <3>1, <4>1, <5>3, NothingInHand
        <4>2. CASE todo' # <<>>
          <5>1. Len(todo') \in Nat /\ Len(todo') # 0
            BY <1>2, <4>2
          <5>2. todo'[Len(todo')] = todo[n]
            BY <1>2, <1>3, <5>1
          <5>3. ASSUME NEW i \in 1..Len(todo'), IsDelta(todo'[i]) PROVE i = Len(todo')
            <6>1. i + 1 \in 1..n /\ todo'[i] = todo[i + 1]
              BY <1>2, <1>3
            <6>2. i + 1 = n
              BY <2>1, <5>3, <6>1 DEF Upcoming, n
            <6> QED BY <1>2, <1>3, <6>2
          <5> QED BY <1>1, <2>1, <3>1, <4>2, <5>2, <5>3 DEF Upcoming, n
        <4> QED BY <4>1, <4>2
      <3>3. Opened' /\ Closed' /\ Body'
        BY <1>1, <1>2, <2>3, <2>7, <3>1, <3>2 DEF Sees, Opened, Closed, Body
      <3> QED BY <1>5, <1>6, <2>2, <3>3 DEF Sees
    <2> QED BY <1>2, <2>5, <2>6, <2>7
  <1> QED BY <1>7, <1>8

\* What leaves the consumer's side and the body as they were.
LEMMA SameToConsumer ==
  ASSUME Sees, UNCHANGED <<path, stage, text, outcome, buffer, tail, ended, todo,
                           finish, completed, told, sent>>
  PROVE  Sees'
  <1>1. Taken' = Taken
    BY DEF Taken
  <1>2. Layout => Layout'
    BY <1>1 DEF Layout
  <1>3. Upcoming => Upcoming'
    BY <1>1 DEF Upcoming
  <1>4. Before' /\ Body'
    BY <1>2, <1>3 DEF Sees, Before, Body
  <1> QED BY <1>4, SilentStep

\* The consumer's return, the two ways to settle, the abort and the timer.
LEMMA ConsumerSees ==
  ASSUME Inv, Sees,
         PayloadRefused \/ ConsumerReturns \/ Respond \/ ErrorReported
           \/ Abort \/ TimerFires
  PROVE  Sees'
  <1>1. CASE PayloadRefused
    <2>1. Throw("malformed") /\ "malformed" \in Codes /\ path' = path /\ sent' = sent
          /\ stage = "process" /\ ~completed
      BY <1>1 DEF PayloadRefused, Codes, Inv, InHand
    <2> QED BY <2>1, ThrowSees
  <1>2. CASE ConsumerReturns \/ Abort \/ TimerFires
    <2>1. UNCHANGED <<path, stage, text, outcome, buffer, tail, ended, todo, finish,
                      completed, told, sent>>
      BY <1>2 DEF ConsumerReturns, Abort, TimerFires, provider, history
    <2> QED BY <2>1, SameToConsumer
  <1>3. CASE Respond
    <2>1. /\ completed /\ stage' = "settled"
          /\ outcome' = [kind |-> "answered", text |-> text, finish |-> finish]
          /\ UNCHANGED <<path, text, told, sent, finish, completed>>
      BY <1>3 DEF Respond, provider
    <2>2. Answered'
      BY <2>1 DEF Sees, Closed, Answered
    <2>3. Before' /\ Body'
      BY <2>1 DEF Before, Body
    <2> QED BY <2>1, <2>2, <2>3 DEF Sees, Speech, FinalsLast, Opened, Closed
  <1>4. CASE ErrorReported
    BY <1>4, FailSees DEF ErrorReported
  <1> QED BY <1>1, <1>2, <1>3, <1>4

\* A new call has told nothing of nothing.
LEMMA InitialSees == Init => Sees
  <1> SUFFICES ASSUME Init PROVE Sees
    OBVIOUS
  <1>1. /\ Deltas(told) = {} /\ Spoken(sent) = {} /\ Len(told) = 0 /\ Len(text) = 0
        /\ outcome.kind = "none" /\ ~completed /\ stage = "new"
        /\ sent = <<>> /\ buffer = <<>> /\ todo = <<>> /\ text = <<>>
        /\ tail = NoPayload /\ ~ended
    BY DEF Init, Deltas, Spoken
  <1>2. Whole(text, told, Deltas(told)) /\ Opening(text, sent, Spoken(sent))
    BY <1>1, FS_EmptySet DEF Whole, Opening
  <1> QED BY <1>1, <1>2 DEF Sees, Speech, FinalsLast, Before, Body, Opened, Closed,
                            Answered

\* Every step of a call.
LEMMA NextSees == Inv /\ Sees /\ [Next]_vars => Sees'
  <1> SUFFICES ASSUME Inv, Sees, [Next]_vars PROVE Sees'
    OBVIOUS
  <1>1. CASE UNCHANGED vars
    <2>1. UNCHANGED <<path, stage, text, outcome, buffer, tail, ended, todo, finish,
                      completed, told, sent>>
      BY <1>1 DEF vars, provider, history
    <2> QED BY <2>1, SameToConsumer
  <1>2. CASE OwnStep
    <2>1. CASE Begin \/ CredentialResolved \/ (Signalled /\ HttpRejects)
      BY <2>1, EarlySees
    <2>2. CASE ChatTimesOut \/ \E t \in Tokens : FallbackAnswers(t)
      BY <2>2, ChatSees
    <2>3. CASE ReadAborted \/ TakePayload \/ NextChunk \/ EndReached
      BY <2>3, ReadSees, TakeSees, TurnToBody
    <2>4. CASE TellConsumer \/ PayloadRefused \/ ConsumerReturns \/ Respond
               \/ ErrorReported
      BY <2>4, TellSees, ConsumerSees
    <2> QED BY <1>2, <2>1, <2>2, <2>3, <2>4 DEF OwnStep
  <1>3. CASE Environment
    <2>1. CASE HttpRejects \/ (\E ok \in BOOLEAN : HttpAnswers(ok))
               \/ \E code \in Codes : RuntimeRefuses(code) \/ ProviderRefuses(code)
      BY <2>1, EarlySees
    <2>2. CASE (\E t \in Tokens, raw \in {"stop", "tool_calls"} : ChatAnswers(t, raw))
               \/ \E code \in Codes : ChatFails(code)
      BY <2>2, ChatSees
    <2>3. ASSUME NEW ps \in PieceSeqs, NEW open \in BOOLEAN, ReadChunk(ps, open)
          PROVE  Sees'
      BY <2>3, ChunkSees
    <2>4. ASSUME NEW left \in {"whole", "cut", "lost"}, ReadEnd(left) PROVE Sees'
      BY <2>4, EndSees
    <2>5. CASE TailTerminated \/ ReadFails \/ Abort
      BY <2>5, ReadSees, ConsumerSees
    <2> QED BY <1>3, <2>1, <2>2, <2>3, <2>4, <2>5 DEF Environment
  <1>4. CASE TimerFires
    BY <1>4, ConsumerSees
  <1> QED BY <1>1, <1>2, <1>3, <1>4 DEF Next

\* What the invariant says of a stream is what the consumer relies on.
LEMMA SeesTheStream == Inv /\ Sees => ConsumerSeesTheStream
  <1> SUFFICES ASSUME Inv, Sees PROVE ConsumerSeesTheStream
    OBVIOUS
  <1>1. \A i \in DOMAIN told :
          told[i].type \in {"completed", "error"} => i = Len(told)
    BY DEF Sees, FinalsLast, Inv, TypeOK
  <1> QED BY <1>1 DEF Sees, Speech, Opened, Answered, ConsumerSeesTheStream

\* However the body is cut, and whatever races with it, the consumer is told
\* the texts of the server, and answered with all of them.
THEOREM CallIsSeen == SafeSpec => []ConsumerSeesTheStream
  <1>1. Init => Inv /\ Sees
    BY InitialInv, InitialSees
  <1>2. Inv /\ Sees /\ [Next]_vars => (Inv /\ Sees)'
    BY NextKeepsInv, NextSees
  <1>3. Inv /\ Sees => ConsumerSeesTheStream
    BY SeesTheStream
  <1> QED BY <1>1, <1>2, <1>3, PTL DEF SafeSpec

-----------------------------------------------------------------------------
(* The turn.                                                               *)

\* Where the request goes, if neither profile nor runtime is changed.
Destination == Routing!Or(profile.preset, setup.active)

\* What the session has asked for stands, and so does what it was told.
RouteInv ==
  /\ at \in {"idle", "choosing"} => asked = None
  /\ at = "asking" /\ ~altered =>
       /\ own = profile
       /\ Destination # None => offers = Routing!ModelsForPreset(setup, Destination)
       /\ Destination = None => asked = own.provider
  /\ at \in {"asked", "sent"} =>
       /\ request = [model |-> request.model, provider |-> own.provider]
       /\ own.model # None => request.model = own.model
  /\ at \in {"asked", "sent"} /\ ~altered =>
       /\ own = profile
       /\ Destination # None /\ own.model = None =>
            request.model \in Routing!ModelsForPreset(setup, Destination)
       /\ Destination = None /\ asked # None => asked = own.provider
  /\ at = "sent" =>
       /\ preset # None => server # Routing!Fake
       /\ ~altered => preset = Destination
       /\ ~altered /\ Destination = None /\ asked # None => server \in {asked, None}

\* The call begins when a provider is found, and no sooner; the request when
\* the context is given.
InTurn ==
  /\ at # "done" => stage = "new"
  /\ phase # "given" => at = "idle"

TurnInv == Inv /\ InTurn

NeverBegun == stage = "new" /\ outcome.kind = "none" /\ Final = "none" /\ todo = <<>>

LEMMA BeforeTheCall ==
  ASSUME Inv, stage = "new"
  PROVE  NeverBegun
BY DEF Inv, OutcomeFits, LastTold, InHand, NeverBegun

LEMMA ContextPhases ==
  ASSUME Context!Next
  PROVE  /\ phase = "building"
         /\ phase' \in {"building", "built", "failed"}
BY DEF Context!Next, Context!Collect, Context!ListEntries, Context!RetrieveEntries,
       Context!SearchMemories, Context!ReadMemory, Context!Build,
       Context!CollectFails, Context!Disable, Context!Archive

LEMMA RoutingStages ==
  ASSUME Routing!Next
  PROVE  /\ at \in {"choosing", "asking", "asked"}
         /\ at' \in {"choosing", "asking", "asked", "sent"}
<1>1. CASE Routing!Choose
  BY <1>1 DEF Routing!Choose, Routing!Compose
<1>2. CASE \E model \in offers : Routing!Offered(model)
  BY <1>2 DEF Routing!Offered, Routing!Compose
<1>3. CASE Routing!Send
  BY <1>3 DEF Routing!Send
<1>4. CASE (\E p \in Profiles : Routing!SetModelProfile(p))
           \/ \E s \in Setups : Routing!RenewRuntime(s)
  BY <1>4 DEF Routing!SetModelProfile, Routing!RenewRuntime, Routing!Pending
<1>. QED BY <1>1, <1>2, <1>3, <1>4 DEF Routing!Next, Routing!OwnStep

\* What does not concern the call keeps its invariant.
LEMMA SameCall ==
  ASSUME Inv, UNCHANGED vars
  PROVE  Inv' /\ stage' = stage
BY NextKeepsInv DEF vars

LEMMA ServeKeeps ==
  ASSUME Inv, InTurn, Serve
  PROVE  Inv' /\ InTurn'
<1>1. at = "sent" /\ at' = "done" /\ phase' = phase /\ phase = "given"
  BY DEF Serve, Routing!Blank, contextVars, InTurn
<1>2. InTurn'
  BY <1>1 DEF InTurn
<1>3. CASE server = None
  <2>1. RuntimeRefuses("not_found")
    BY <1>3 DEF Serve
  <2>. QED BY <1>2, <2>1, BeginSteps DEF Codes
<1>4. CASE server # None
  <2>1. /\ path' = path \/ path' = "fallback"
        /\ UNCHANGED <<stage, aborted, timedOut, waiting, text, outcome, buffer, tail,
                       ended, todo, finish, completed, told, sent, broken>>
    BY <1>4 DEF Serve, provider, history
  <2>2. path' \in Paths
    BY <2>1 DEF Inv, TypeOK, Paths
  <2>3. TypeOK' /\ OutcomeFits' /\ CauseIsTrue'
    BY <2>1, <2>2 DEF Inv, TypeOK, OutcomeFits, CauseIsTrue
  <2>4. LastTold'
    BY <2>1 DEF Inv, LastTold, Final, True
  <2>5. InHand'
    BY <2>1 DEF Inv, InHand
  <2>. QED BY <1>2, <2>3, <2>4, <2>5 DEF Inv
<1>. QED BY <1>3, <1>4

LEMMA FakeChatsKeeps ==
  ASSUME Inv, InTurn, NEW t \in Tokens, FakeChats(t)
  PROVE  Inv' /\ InTurn'
<1>1. /\ at = "sent" /\ at' = "done" /\ path = "generate" /\ stage' = "settled"
      /\ outcome' = [kind |-> "answered", text |-> <<t>>, finish |-> "stop"]
      /\ UNCHANGED <<path, aborted, timedOut, waiting, text, buffer, tail,
                     ended, todo, finish, completed, told, sent, broken, phase>>
  BY DEF FakeChats, Routing!Blank, provider, history, contextVars
<1>2. NeverBegun /\ phase = "given"
  BY <1>1, BeforeTheCall DEF InTurn
<1>3. outcome' \in Outcome /\ outcome'.kind = "answered"
  <2>1. <<t>> \in Seq(Tokens) /\ "stop" \in Reasons
    BY DEF Reasons, Known
  <2>. QED BY <1>1, <2>1 DEF Outcome
<1>4. TypeOK' /\ CauseIsTrue' /\ OutcomeFits'
  BY <1>1, <1>3 DEF Inv, TypeOK, CauseIsTrue, OutcomeFits, Stages
<1>5. LastTold'
  BY <1>1 DEF LastTold
<1>6. InHand'
  BY <1>1, <1>2 DEF Inv, InHand, NeverBegun
<1>7. InTurn'
  BY <1>1, <1>2 DEF InTurn
<1>. QED BY <1>4, <1>5, <1>6, <1>7 DEF Inv

LEMMA AbortEarlyKeeps ==
  ASSUME Inv, InTurn, AbortEarly
  PROVE  Inv' /\ InTurn'
<1>1. /\ aborted' = TRUE
      /\ UNCHANGED <<path, stage, timedOut, waiting, text, outcome, buffer, tail,
                     ended, todo, finish, completed, told, sent, broken, phase, at>>
  BY DEF AbortEarly, provider, history, contextVars, routingVars
<1>2. TypeOK' /\ CauseIsTrue' /\ OutcomeFits' /\ InHand'
  BY <1>1 DEF Inv, TypeOK, CauseIsTrue, OutcomeFits, InHand
<1>3. LastTold'
  BY <1>1 DEF Inv, LastTold, Final, True
<1>4. InTurn'
  BY <1>1 DEF InTurn
<1>. QED BY <1>2, <1>3, <1>4 DEF Inv

\* A step of the turn keeps the call's invariant.
LEMMA TurnStep == TurnInv /\ [TurnNext]_turnVars => TurnInv'
<1>. SUFFICES ASSUME Inv, InTurn, [TurnNext]_turnVars PROVE Inv' /\ InTurn'
  BY DEF TurnInv
<1>1. CASE ContextStep
  <2>1. UNCHANGED vars /\ Context!Next /\ at' = at
    BY <1>1 DEF ContextStep, routingVars
  <2>. QED BY <2>1, SameCall, ContextPhases DEF InTurn
<1>2. CASE Request
  <2>1. UNCHANGED vars /\ at = "idle" /\ phase' = "given"
    BY <1>2 DEF Request, Routing!Start, Context!HandOver
  <2>2. stage = "new"
    BY <2>1 DEF InTurn
  <2>. QED BY <2>1, <2>2, SameCall DEF InTurn
<1>3. CASE Stopped
  <2>1. UNCHANGED vars /\ at' = at /\ phase = "built"
    BY <1>3 DEF Stopped, routingVars, vars
  <2>. QED BY <2>1, SameCall DEF InTurn
<1>4. CASE Choosing(Routing!Next)
  <2>1. UNCHANGED vars /\ Routing!Next /\ phase' = phase
    BY <1>4 DEF Choosing, contextVars
  <2>. QED BY <2>1, SameCall, RoutingStages DEF InTurn
<1>5. CASE Serve
  BY <1>5, ServeKeeps
<1>6. CASE \E t \in Tokens : FakeChats(t)
  BY <1>6, FakeChatsKeeps
<1>7. CASE AbortEarly
  BY <1>7, AbortEarlyKeeps
<1>8. CASE CallStep(Next)
  <2>1. Next /\ at = "done" /\ at' = at /\ phase' = phase
    BY <1>8 DEF CallStep, contextVars, routingVars
  <2>. QED BY <2>1, NextKeepsInv DEF InTurn
<1>9. CASE UNCHANGED turnVars
  <2>1. UNCHANGED vars /\ at' = at /\ phase' = phase
    BY <1>9 DEF turnVars, contextVars, routingVars
  <2>. QED BY <2>1, SameCall DEF InTurn
<1>. QED BY <1>1, <1>2, <1>3, <1>4, <1>5, <1>6, <1>7, <1>8, <1>9 DEF TurnNext

\* The invariant of the call holds of the whole turn.
THEOREM TurnInvariance == TurnSpec => []TurnInv
<1>1. TurnInit => TurnInv
  BY InitialInv DEF TurnInit, TurnInv, InTurn, Context!Init, Routing!Init, Init
<1>. QED BY <1>1, TurnStep, PTL DEF TurnSpec

\* A turn reports the failure that happened, whatever raced with it, and
\* whenever Stop was asked for.
THEOREM CauseIsTrueHolds == TurnSpec => []CauseIsTrue
<1>1. TurnInv => CauseIsTrue
  BY DEF TurnInv, Inv
<1>. QED BY <1>1, TurnInvariance, PTL

\* A step of the turn, of which only those of the call are seen.
LEMMA TurnSees == TurnInv /\ Sees /\ [TurnNext]_turnVars => Sees'
  <1> SUFFICES ASSUME Inv, InTurn, Sees, [TurnNext]_turnVars PROVE Sees'
    BY DEF TurnInv
  <1>1. ASSUME UNCHANGED vars PROVE Sees'
    BY <1>1, NextSees
  <1>2. CASE ContextStep \/ Request \/ Stopped \/ Choosing(Routing!Next)
    BY <1>1, <1>2 DEF ContextStep, Request, Stopped, Choosing
  <1>3. CASE Serve
    <2>1. CASE server = None
      <3>1. RuntimeRefuses("not_found") /\ "not_found" \in Codes
        BY <1>3, <2>1 DEF Serve, Codes
      <3> QED BY <3>1, EarlySees
    <2>2. CASE server # None /\ path' = path
      <3>1. UNCHANGED vars
        BY <1>3, <2>2 DEF Serve, vars
      <3> QED BY <1>1, <3>1
    <2>3. CASE server # None /\ path' # path
      <3>1. path' # "stream" /\ UNCHANGED <<text, told>>
        BY <1>3, <2>3 DEF Serve, history
      <3> QED BY <3>1, OtherPathSees
    <2> QED BY <2>1, <2>2, <2>3
  <1>4. ASSUME NEW t \in Tokens, FakeChats(t) PROVE Sees'
    BY <1>4, OtherPathSees DEF FakeChats, history
  <1>5. CASE AbortEarly
    <2>1. UNCHANGED <<path, stage, text, outcome, buffer, tail, ended, todo, finish,
                      completed, told, sent>>
      BY <1>5 DEF AbortEarly, provider, history
    <2> QED BY <2>1, SameToConsumer
  <1>6. CASE CallStep(Next)
    BY <1>6, NextSees DEF CallStep
  <1>7. CASE UNCHANGED turnVars
    BY <1>1, <1>7 DEF turnVars
  <1> QED BY <1>2, <1>3, <1>4, <1>5, <1>6, <1>7 DEF TurnNext

\* What the consumer of a turn is told of the model's answer.
THEOREM ConsumerSeesTheStreamHolds == TurnSpec => []ConsumerSeesTheStream
  <1>1. TurnInit => TurnInv /\ Sees
    BY InitialInv, InitialSees
       DEF TurnInit, TurnInv, InTurn, Context!Init, Routing!Init, Init
  <1>2. TurnInv /\ Sees /\ [TurnNext]_turnVars => (TurnInv /\ Sees)'
    BY TurnStep, TurnSees
  <1>3. TurnInv /\ Sees => ConsumerSeesTheStream
    BY SeesTheStream DEF TurnInv
  <1> QED BY <1>1, <1>2, <1>3, PTL DEF TurnSpec

-----------------------------------------------------------------------------
\* The contract of the whole turn.

TNext == [TurnContract!Next]_(TurnContract!vars)

\* Before the request is served nothing has been told and nothing has settled.
Untouched == Phase = "open" /\ Final = "none"

LEMMA UntouchedBefore ==
  ASSUME Inv, InTurn, at # "done"
  PROVE  Untouched
BY BeforeTheCall DEF InTurn, NeverBegun, Untouched, Phase

LEMMA GivenPhase ==
  /\ phase = "given" => TurnPhase = Phase
  /\ phase' = "given" => TurnPhase' = Phase'
BY DEF TurnPhase

LEMMA TurnUnseen ==
  ASSUME UNCHANGED <<path, told, text, aborted>>, TurnPhase' = TurnPhase
  PROVE  TNext
BY DEF TNext, TurnContract!vars, Final

LEMMA TurnSettles ==
  ASSUME NEW p \in {"answered", "failed", "aborted"},
         UNCHANGED <<path, told, text, aborted>>,
         TurnPhase = "open", TurnPhase' = p,
         p = "answered" => path = "generate",
         p = "failed" => Final # "completed",
         p = "aborted" => aborted /\ Final = "none"
  PROVE  TNext
<1>1. TurnContract!Settle(p)
  BY DEF TurnContract!Settle, Final
<1>. QED BY <1>1 DEF TNext, TurnContract!Next

\* A step of the call is the same step of the turn's contract.
LEMMA CallStepRefines ==
  ASSUME CNext, phase = "given", phase' = "given"
  PROVE  TNext
<1>1. TurnPhase = Phase /\ TurnPhase' = Phase'
  BY GivenPhase
<1>2. ASSUME NEW t \in Tokens, Contract!Deliver(t) PROVE TurnContract!Deliver(t)
  BY <1>1, <1>2 DEF Contract!Deliver, TurnContract!Deliver
<1>3. ASSUME NEW f \in {"completed", "error"}, Contract!Close(f)
      PROVE  TurnContract!Close(f)
  BY <1>1, <1>3 DEF Contract!Close, TurnContract!Close
<1>4. ASSUME Contract!Ask PROVE TurnContract!Ask
  BY <1>1, <1>4 DEF Contract!Ask, TurnContract!Ask
<1>5. ASSUME NEW p \in {"answered", "failed", "aborted"}, Contract!Settle(p)
      PROVE  TurnContract!Settle(p)
  BY <1>1, <1>5 DEF Contract!Settle, TurnContract!Settle
<1>6. ASSUME UNCHANGED Contract!vars PROVE UNCHANGED TurnContract!vars
  BY <1>1, <1>6 DEF Contract!vars, TurnContract!vars
<1>. QED BY <1>2, <1>3, <1>4, <1>5, <1>6
     DEF CNext, TNext, Contract!Next, TurnContract!Next

LEMMA ContextRefines ==
  ASSUME Inv, InTurn, ContextStep
  PROVE  TNext
<1>1. /\ phase = "building" /\ phase' \in {"building", "built", "failed"}
      /\ UNCHANGED <<path, told, text, aborted, outcome, at>>
  BY ContextPhases DEF ContextStep, vars, history, routingVars
<1>2. Untouched
  BY <1>1, UntouchedBefore DEF InTurn
<1>3. TurnPhase = "open"
  BY <1>1, <1>2 DEF TurnPhase, Untouched
<1>4. CASE phase' # "failed"
  <2>1. TurnPhase' = "open"
    BY <1>1, <1>2, <1>4 DEF TurnPhase, Untouched, Phase
  <2>. QED BY <1>1, <1>3, <2>1, TurnUnseen
<1>5. CASE phase' = "failed"
  <2>1. TurnPhase' = IF aborted THEN "aborted" ELSE "failed"
    BY <1>1, <1>5 DEF TurnPhase
  <2>2. CASE aborted
    BY <1>1, <1>2, <1>3, <2>1, <2>2, TurnSettles DEF Untouched
  <2>3. CASE ~aborted
    BY <1>1, <1>2, <1>3, <2>1, <2>3, TurnSettles DEF Untouched
  <2>. QED BY <2>2, <2>3
<1>. QED BY <1>4, <1>5

LEMMA StoppedRefines ==
  ASSUME Inv, InTurn, Stopped
  PROVE  TNext
<1>1. /\ phase = "built" /\ phase' = "stopped" /\ aborted
      /\ UNCHANGED <<path, told, text, aborted>>
  BY DEF Stopped, vars, history
<1>2. Untouched
  BY <1>1, UntouchedBefore DEF InTurn
<1>3. TurnPhase = "open" /\ TurnPhase' = "aborted"
  BY <1>1, <1>2 DEF TurnPhase, Untouched
<1>. QED BY <1>1, <1>2, <1>3, TurnSettles DEF Untouched

LEMMA ServeRefines ==
  ASSUME Inv, InTurn, Serve
  PROVE  TNext
<1>1. at = "sent" /\ phase = "given" /\ phase' = "given"
  BY DEF Serve, InTurn, contextVars
<1>2. Untouched
  BY <1>1, UntouchedBefore
<1>3. CASE server = None
  <2>1. RuntimeRefuses("not_found") /\ "not_found" \in Codes
    BY <1>3 DEF Serve, Codes
  <2>2. CNext
    BY <2>1, EnvironmentRefines DEF Environment
  <2>. QED BY <1>1, <2>2, CallStepRefines
<1>4. CASE server # None
  <2>1. /\ (path' # "generate") = (path # "generate")
        /\ UNCHANGED <<told, text, aborted, outcome>>
    BY <1>4 DEF Serve, history
  <2>2. TurnPhase' = TurnPhase
    BY <1>1, <2>1, GivenPhase DEF Phase
  <2>. QED BY <2>1, <2>2 DEF TNext, TurnContract!vars, Final
<1>. QED BY <1>3, <1>4

LEMMA FakeChatsRefines ==
  ASSUME Inv, InTurn, NEW t \in Tokens, FakeChats(t)
  PROVE  TNext
<1>1. /\ at = "sent" /\ phase = "given" /\ phase' = "given" /\ path = "generate"
      /\ outcome' = [kind |-> "answered", text |-> <<t>>, finish |-> "stop"]
      /\ UNCHANGED <<path, told, text, aborted>>
  BY DEF FakeChats, InTurn, contextVars, history
<1>2. Untouched
  BY <1>1, UntouchedBefore
<1>3. outcome'.kind = "answered"
  BY <1>1
<1>4. TurnPhase = "open" /\ TurnPhase' = "answered"
  BY <1>1, <1>2, <1>3, GivenPhase DEF Untouched, Phase
<1>. QED BY <1>1, <1>4, TurnSettles

LEMMA AbortEarlyRefines ==
  ASSUME Inv, InTurn, AbortEarly
  PROVE  TNext
<1>1. /\ aborted' = TRUE /\ ~aborted /\ phase' = phase
      /\ UNCHANGED <<path, told, text, outcome>>
      /\ phase \in {"building", "built"} \/ at \notin {"idle", "done"}
  BY DEF AbortEarly, history, contextVars
<1>2. at # "done" /\ phase \notin {"stopped", "failed"}
  BY <1>1 DEF InTurn
<1>3. Untouched
  BY <1>2, UntouchedBefore
<1>4. TurnPhase = "open" /\ TurnPhase' = "open"
  BY <1>1, <1>2, <1>3 DEF TurnPhase, Untouched, Phase
<1>5. TurnContract!Ask
  BY <1>1, <1>4 DEF TurnContract!Ask, Final
<1>. QED BY <1>5 DEF TNext, TurnContract!Next

\* A turn keeps, whatever becomes of its context, its model and its call, what
\* the caller of the runtime relies on: this is the safety part of
\* TurnKeepsContract, which adds that a turn settles.
THEOREM TurnKeepsContractSafely == TurnSpec => TurnContract!SafeSpec
<1>1. TurnInit => TurnContract!Init
  BY DEF TurnInit, Init, Context!Init, TurnContract!Init, TurnPhase, Phase, Final
<1>2. TurnInv /\ [TurnNext]_turnVars => [TurnContract!Next]_(TurnContract!vars)
  <2>. SUFFICES ASSUME Inv, InTurn, [TurnNext]_turnVars PROVE TNext
    BY DEF TurnInv, TNext
  <2>1. CASE ContextStep
    BY <2>1, ContextRefines
  <2>2. CASE Request
    <3>1. /\ UNCHANGED <<path, told, text, aborted, outcome>>
          /\ phase = "built" /\ phase' = "given"
      BY <2>2 DEF Request, vars, history, Context!HandOver
    <3>2. TurnPhase' = TurnPhase
      BY <3>1 DEF TurnPhase, Phase
    <3>. QED BY <3>1, <3>2, TurnUnseen
  <2>3. CASE Stopped
    BY <2>3, StoppedRefines
  <2>4. CASE Choosing(Routing!Next)
    <3>1. UNCHANGED <<path, told, text, aborted, outcome, phase>>
      BY <2>4 DEF Choosing, vars, history, contextVars
    <3>2. TurnPhase' = TurnPhase
      BY <3>1 DEF TurnPhase, Phase
    <3>. QED BY <3>1, <3>2, TurnUnseen
  <2>5. CASE Serve
    BY <2>5, ServeRefines
  <2>6. CASE \E t \in Tokens : FakeChats(t)
    BY <2>6, FakeChatsRefines
  <2>7. CASE AbortEarly
    BY <2>7, AbortEarlyRefines
  <2>8. CASE CallStep(Next)
    <3>1. Next /\ phase = "given" /\ phase' = "given"
      BY <2>8 DEF CallStep, contextVars, InTurn
    <3>2. CNext
      BY <3>1, OwnStepRefines, EnvironmentRefines DEF Next
    <3>. QED BY <3>1, <3>2, CallStepRefines
  <2>9. CASE UNCHANGED turnVars
    <3>1. UNCHANGED <<path, told, text, aborted, outcome, phase>>
      BY <2>9 DEF turnVars, vars, history, contextVars
    <3>2. TurnPhase' = TurnPhase
      BY <3>1 DEF TurnPhase, Phase
    <3>. QED BY <3>1, <3>2, TurnUnseen
  <2>. QED BY <2>1, <2>2, <2>3, <2>4, <2>5, <2>6, <2>7, <2>8, <2>9 DEF TurnNext
<1>. QED BY <1>1, <1>2, TurnInvariance, PTL DEF TurnSpec, TurnContract!SafeSpec

-----------------------------------------------------------------------------
\* The model and the destination of a request.

LEMMA TruthOfAltered ==
  ASSUME altered' = TRUE, at' = at, UNCHANGED <<own, asked, request, preset, server>>,
         RouteInv, Routing!Pending
  PROVE  RouteInv'
BY DEF RouteInv, Routing!Pending

\* A request that is composed keeps what was asked for.
LEMMA ComposeKeeps ==
  ASSUME NEW model, Routing!Compose(model),
         UNCHANGED <<profile, setup, altered>>,
         ~altered => own' = profile,
         ~altered /\ Destination # None /\ own'.model = None =>
           model \in Routing!ModelsForPreset(setup, Destination),
         ~altered /\ Destination = None /\ asked' # None => asked' = own'.provider
  PROVE  RouteInv'
<1>1. /\ request' = [model |-> Routing!Or(own'.model, model), provider |-> own'.provider]
      /\ at' = "asked"
  BY DEF Routing!Compose
<1>2. request'.model = Routing!Or(own'.model, model) /\ request'.provider = own'.provider
  BY <1>1
<1>3. own'.model # None => request'.model = own'.model
  BY <1>2 DEF Routing!Or
<1>4. own'.model = None => request'.model = model
  BY <1>2 DEF Routing!Or
<1>5. request' = [model |-> request'.model, provider |-> own'.provider]
  BY <1>1, <1>2
<1>6. Destination' = Destination
  BY DEF Destination
<1>7. Routing!ModelsForPreset(setup, Destination)'
        = Routing!ModelsForPreset(setup, Destination)
  BY <1>6 DEF Routing!ModelsForPreset, Routing!Listed, Routing!Discoverable
<1>. QED BY <1>1, <1>3, <1>4, <1>5, <1>6, <1>7 DEF RouteInv

LEMMA ChooseKeeps ==
  ASSUME RouteInv, Routing!Choose
  PROVE  RouteInv'
<1>1. /\ at = "choosing" /\ own' = profile /\ asked = None
      /\ UNCHANGED <<profile, setup, altered, preset, server>>
  BY DEF Routing!Choose, RouteInv
<1>2. Destination' = Destination /\ Destination = Routing!Or(profile.preset, setup.active)
  BY <1>1 DEF Destination
<1>3. CASE profile.model = None /\ Destination # None
  <2>1. at' = "asking" /\ offers' = Routing!ModelsForPreset(setup, Destination)
    BY <1>2, <1>3 DEF Routing!Choose
  <2>2. offers' = Routing!ModelsForPreset(setup', Destination')
    BY <1>1, <1>2, <2>1
  <2>. QED BY <1>1, <1>2, <1>3, <2>1, <2>2 DEF RouteInv
<1>4. CASE profile.model = None /\ Destination = None /\ profile.provider # None
  <2>1. at' = "asking" /\ asked' = profile.provider
    BY <1>2, <1>4 DEF Routing!Choose
  <2>. QED BY <1>1, <1>2, <1>4, <2>1 DEF RouteInv
<1>5. CASE /\ ~(profile.model = None /\ Destination # None)
           /\ ~(profile.model = None /\ Destination = None /\ profile.provider # None)
  <2>1. Routing!Compose(default) /\ asked' = asked
    BY <1>2, <1>5 DEF Routing!Choose
  <2>. QED BY <1>1, <1>5, <2>1, ComposeKeeps
<1>. QED BY <1>3, <1>4, <1>5

LEMMA OfferedKeeps ==
  ASSUME RouteInv, NEW model \in offers, Routing!Offered(model)
  PROVE  RouteInv'
<1>1. /\ at = "asking" /\ Routing!Compose(model)
      /\ UNCHANGED <<own, profile, setup, altered, asked>>
  BY DEF Routing!Offered
<1>. QED BY <1>1, ComposeKeeps DEF RouteInv

LEMMA ServerFound ==
  ASSUME NEW s, NEW p, NEW m, NEW id
  PROVE  LET r == [model |-> m, provider |-> id]
             servers == {Routing!Resolve(s, p, r), Routing!ResolveChat(s, p, r)}
         IN /\ p # None => servers \subseteq {Routing!Real, None}
            /\ p = None /\ id # None => servers \subseteq {id, None}
<1>1. ASSUME NEW q PROVE
        LET r == [model |-> m, provider |-> q] IN
        /\ p # None => Routing!Resolve(s, p, r) \in {Routing!Real, None}
        /\ p = None /\ q # None => Routing!Resolve(s, p, r) \in {q, None}
  BY DEF Routing!Resolve, Routing!Or
<1>2. [[model |-> m, provider |-> id] EXCEPT !.provider = Routing!Or(@, Routing!ActiveProvider(s))]
        = [model |-> m, provider |-> Routing!Or(id, Routing!ActiveProvider(s))]
  OBVIOUS
<1>3. id # None => Routing!Or(id, Routing!ActiveProvider(s)) = id
  BY DEF Routing!Or
<1>. QED BY <1>1, <1>2, <1>3 DEF Routing!ResolveChat

LEMMA SendKeeps ==
  ASSUME RouteInv, Routing!Send
  PROVE  RouteInv'
<1>1. /\ at = "asked" /\ at' = "sent" /\ preset' = Destination
      /\ server' = IF path # "generate" THEN Routing!Resolve(setup, preset', request)
                   ELSE Routing!ResolveChat(setup, preset', request)
      /\ UNCHANGED <<profile, setup, altered, own, asked, request>>
  BY DEF Routing!Send, Destination
<1>2. request = [model |-> request.model, provider |-> own.provider]
  BY <1>1 DEF RouteInv
<1>3. /\ preset' # None => server' \in {Routing!Real, None}
      /\ preset' = None /\ own.provider # None => server' \in {own.provider, None}
  <2>. DEFINE m == request.model  id == own.provider
  <2>1. request = [model |-> m, provider |-> id]
    BY <1>2
  <2>. HIDE DEF m, id
  <2>2. server' \in {Routing!Resolve(setup, preset', [model |-> m, provider |-> id]),
                     Routing!ResolveChat(setup, preset', [model |-> m, provider |-> id])}
    BY <1>1, <2>1
  <2>3. /\ preset' # None => server' \in {Routing!Real, None}
        /\ preset' = None /\ id # None => server' \in {id, None}
    BY <2>2, ServerFound
  <2>. QED BY <2>3 DEF id
<1>4. preset' # None => server' # Routing!Fake
  BY <1>3, NoneAssumption DEF Routing!Real, Routing!Fake
<1>5. Destination' = Destination
  BY <1>1 DEF Destination
<1>6. Routing!ModelsForPreset(setup, Destination)'
        = Routing!ModelsForPreset(setup, Destination)
  BY <1>1, <1>5 DEF Routing!ModelsForPreset, Routing!Listed, Routing!Discoverable
<1>. QED BY <1>1, <1>3, <1>4, <1>5, <1>6 DEF RouteInv

LEMMA UserKeeps ==
  ASSUME RouteInv,
         (\E p \in Profiles : Routing!SetModelProfile(p))
           \/ \E s \in Setups : Routing!RenewRuntime(s)
  PROVE  RouteInv'
<1>1. /\ altered' = TRUE /\ at' = at /\ Routing!Pending
      /\ UNCHANGED <<own, asked, request, preset, server>>
  BY DEF Routing!SetModelProfile, Routing!RenewRuntime
<1>. QED BY <1>1, TruthOfAltered

LEMMA SameRoute ==
  ASSUME RouteInv, UNCHANGED routingVars
  PROVE  RouteInv'
<1>1. Destination' = Destination
  BY DEF routingVars, Destination
<1>2. Routing!ModelsForPreset(setup, Destination)'
        = Routing!ModelsForPreset(setup, Destination)
  BY <1>1 DEF routingVars, Routing!ModelsForPreset, Routing!Listed, Routing!Discoverable
<1>. QED BY <1>1, <1>2 DEF routingVars, RouteInv

LEMMA RouteStep == RouteInv /\ [TurnNext]_turnVars => RouteInv'
<1>. SUFFICES ASSUME RouteInv, [TurnNext]_turnVars PROVE RouteInv'
  OBVIOUS
<1>1. CASE Request
  <2>1. at = "idle" /\ at' = "choosing" /\ asked' = asked
    BY <1>1 DEF Request, Routing!Start
  <2>. QED BY <2>1 DEF RouteInv
<1>2. CASE Choosing(Routing!Next)
  BY <1>2, ChooseKeeps, OfferedKeeps, SendKeeps, UserKeeps
  DEF Choosing, Routing!Next, Routing!OwnStep
<1>3. ASSUME Routing!Blank("done") PROVE RouteInv'
  BY <1>3 DEF Routing!Blank, RouteInv
<1>4. CASE Serve \/ \E t \in Tokens : FakeChats(t)
  BY <1>3, <1>4 DEF Serve, FakeChats
<1>5. CASE ContextStep \/ Stopped \/ AbortEarly \/ CallStep(Next) \/ UNCHANGED turnVars
  BY <1>5, SameRoute DEF ContextStep, Stopped, AbortEarly, CallStep, turnVars
<1>. QED BY <1>1, <1>2, <1>4, <1>5 DEF TurnNext

THEOREM RouteInvariance == TurnSpec => []RouteInv
<1>1. TurnInit => RouteInv
  BY DEF TurnInit, Routing!Init, RouteInv
<1>. QED BY <1>1, RouteStep, PTL DEF TurnSpec

\* A request names the model of its profile, or one of the preset it is sent
\* to, and a preset that cannot be used is refused.
THEOREM ModelFitsDestinationHolds == TurnSpec => []ModelFitsDestination
<1>1. RouteInv => ModelFitsDestination
  <2>. SUFFICES ASSUME RouteInv, at = "sent" PROVE ModelFitsDestination
    BY DEF ModelFitsDestination, Routing!ModelFitsDestination
  <2>1. /\ own.model # None => request.model = own.model
        /\ preset # None => server # Routing!Fake
    BY DEF RouteInv
  <2>2. ASSUME ~altered
        PROVE  preset = IF profile.preset # None THEN profile.preset ELSE setup.active
    BY <2>2 DEF RouteInv, Destination, Routing!Or
  <2>3. ASSUME ~altered, preset # None, own.model = None
        PROVE  request.model \in Routing!ModelsForPreset(setup, preset)
    BY <2>3 DEF RouteInv
  <2>4. ASSUME NEW s, NEW p, NEW m, m \in Routing!ModelsForPreset(s, p)
        PROVE  \/ m = Routing!FakeModel
                  /\ (p \notin DOMAIN s.presets \/ s.presets[p].model = None)
               \/ p \in DOMAIN s.presets
                  /\ m \in s.presets[p].lists \cup {s.presets[p].model}
    BY <2>4 DEF Routing!ModelsForPreset, Routing!Listed, Routing!Or
  <2>5. ASSUME ~altered, preset = None, asked # None PROVE server \in {asked, None}
    BY <2>5 DEF RouteInv
  <2>. QED BY <2>1, <2>2, <2>3, <2>4, <2>5
       DEF ModelFitsDestination, Routing!ModelFitsDestination
<1>. QED BY <1>1, RouteInvariance, PTL

-----------------------------------------------------------------------------
(* Sums.                                                                   *)

\* A set of numbers that has 0, and with each number the next, has all.
LEMMA Induct ==
  \A T \in SUBSET Nat : 0 \in T /\ (\A n \in T : n + 1 \in T) => T = Nat
<1> SUFFICES ASSUME NEW T \in SUBSET Nat, 0 \in T, \A n \in T : n + 1 \in T, T # Nat
             PROVE FALSE
  OBVIOUS
<1> DEFINE R == OpToRel(<, Nat)
<1>1. IsWellFoundedOn(R, Nat)
  BY NatLessThanWellFounded
<1> DEFINE U == Nat \ T
<1>2. U \subseteq Nat /\ U # {}
  OBVIOUS
<1>3. \E x \in U : \A y \in U : ~ (<<y, x>> \in R)
  <2> HIDE DEF R, U
  <2> QED BY <1>1, <1>2, WFMin
<1>4. \A y, x \in Nat : y < x => <<y, x>> \in R
  BY DEF OpToRel
<1>5. PICK x \in U : \A y \in U : ~ (<<y, x>> \in R)
  BY <1>3
<1>6. x # 0 /\ x - 1 \in Nat /\ x - 1 < x
  <2>1. x \in Nat /\ x \notin T
    OBVIOUS
  <2> QED BY <2>1
<1>7. x - 1 \notin U
  BY <1>4, <1>5, <1>6
<1>8. x - 1 \in T
  BY <1>6, <1>7
<1>9. (x - 1) + 1 \in T
  BY <1>8
<1>10. (x - 1) + 1 = x
  <2>1. x \in Nat
    OBVIOUS
  <2> QED BY <2>1
<1> QED BY <1>9, <1>10

\* sum adds up f, number by number.
Adds(sum, f, N) ==
  sum[0] = 0 /\ \A n \in 1..N : sum[n] = sum[n - 1] + f[n]

Total(f, N) == (CHOOSE sum : Adds(sum, f, N))[N]

\* Every sequence of numbers has its partial sums, and they are numbers.
LEMMA AddsExist ==
  ASSUME NEW N \in Nat, NEW f, \A i \in 1..N : f[i] \in Nat
  PROVE  \E sum : Adds(sum, f, N)
  <1> DEFINE Made(m) == m <= N => \E sum : Adds(sum, f, m)
             T == {m \in Nat : Made(m)}
  <1>1. 0 \in T
    <2>1. Adds([n \in {0} |-> 0], f, 0)
      BY DEF Adds
    <2> QED BY <2>1
  <1>2. ASSUME NEW m \in T PROVE m + 1 \in T
    <2> SUFFICES ASSUME m + 1 <= N PROVE \E sum : Adds(sum, f, m + 1)
      OBVIOUS
    <2>1. PICK sum : Adds(sum, f, m)
      OBVIOUS
    <2> DEFINE next == [n \in 0..(m + 1) |-> IF n = m + 1 THEN sum[m] + f[m + 1]
                                             ELSE sum[n]]
    <2>2. /\ next[m + 1] = sum[m] + f[m + 1]
          /\ \A n \in 0..m : next[n] = sum[n]
      OBVIOUS
    <2> HIDE DEF next
    <2>3. ASSUME NEW n \in 1..(m + 1) PROVE next[n] = next[n - 1] + f[n]
      <3>1. CASE n = m + 1
        BY <2>2, <3>1
      <3>2. CASE n # m + 1
        <4>1. n \in 1..m /\ n \in 0..m /\ n - 1 \in 0..m
          BY <3>2
        <4> QED BY <2>1, <2>2, <4>1 DEF Adds
      <3> QED BY <3>1, <3>2
    <2>4. next[0] = 0
      BY <2>1, <2>2 DEF Adds
    <2>5. Adds(next, f, m + 1)
      BY <2>3, <2>4 DEF Adds
    <2> QED BY <2>5
  <1>3. T = Nat
    <2> HIDE DEF T
    <2>1. T \in SUBSET Nat
      BY DEF T
    <2> QED BY <1>1, <1>2, <2>1, Induct
  <1> QED BY <1>3

\* Terms that are smaller add up to less, apart from one at p that is free.
LEMMA AddsCompare ==
  ASSUME NEW N \in Nat, NEW f, \A i \in 1..N : f[i] \in Nat,
         NEW g, \A i \in 1..N : g[i] \in Nat,
         NEW sum, Adds(sum, f, N), NEW other, Adds(other, g, N),
         NEW p, \A i \in 1..N : i # p => f[i] <= g[i]
  PROVE  \A n \in 0..N :
           /\ sum[n] \in Nat /\ other[n] \in Nat
           /\ p \in 1..n => sum[n] <= other[n] + f[p] - g[p]
           /\ p \notin 1..n => sum[n] <= other[n]
  <1> DEFINE Less(n) ==
               /\ sum[n] \in Nat /\ other[n] \in Nat
               /\ p \in 1..n => sum[n] <= other[n] + f[p] - g[p]
               /\ p \notin 1..n => sum[n] <= other[n]
             T == {n \in Nat : n <= N => Less(n)}
  <1>1. 0 \in T
    BY DEF Adds
  <1>2. ASSUME NEW n \in T PROVE n + 1 \in T
    <2> SUFFICES ASSUME n + 1 <= N PROVE Less(n + 1)
      OBVIOUS
    <2>1. Less(n) /\ n + 1 \in 1..N
      OBVIOUS
    <2>2. sum[n + 1] = sum[n] + f[n + 1] /\ other[n + 1] = other[n] + g[n + 1]
      <3>1. (n + 1) - 1 = n
        OBVIOUS
      <3> QED BY <2>1, <3>1 DEF Adds
    <2>3. f[n + 1] \in Nat /\ g[n + 1] \in Nat
      BY <2>1
    <2>4. CASE p = n + 1
      <3>1. p \notin 1..n /\ p \in 1..(n + 1)
        BY <2>4
      <3> QED BY <2>1, <2>2, <2>3, <2>4, <3>1
    <2>5. CASE p # n + 1
      <3>1. f[n + 1] <= g[n + 1]
        BY <2>1, <2>5
      <3>2. p \in 1..n <=> p \in 1..(n + 1)
        BY <2>5
      <3>3. p \in 1..n => f[p] \in Nat /\ g[p] \in Nat
        OBVIOUS
      <3> QED BY <2>1, <2>2, <2>3, <3>1, <3>2, <3>3
    <2> QED BY <2>4, <2>5
  <1>3. T = Nat
    <2> HIDE DEF T
    <2>1. T \in SUBSET Nat
      BY DEF T
    <2> QED BY <1>1, <1>2, <2>1, Induct
  <1> QED BY <1>3

LEMMA TotalAdds ==
  ASSUME NEW N \in Nat, NEW f, \A i \in 1..N : f[i] \in Nat
  PROVE  \E sum : Adds(sum, f, N) /\ Total(f, N) = sum[N]
  <1> DEFINE sum == CHOOSE s : Adds(s, f, N)
  <1>1. Adds(sum, f, N)
    BY AddsExist
  <1>2. Total(f, N) = sum[N]
    BY DEF Total
  <1> HIDE DEF sum
  <1> QED BY <1>1, <1>2

\* Whatever adds up f ends in its total.
LEMMA TotalIs ==
  ASSUME NEW N \in Nat, NEW f, \A i \in 1..N : f[i] \in Nat,
         NEW sum, Adds(sum, f, N)
  PROVE  Total(f, N) = sum[N]
  <1>1. PICK other : Adds(other, f, N) /\ Total(f, N) = other[N]
    BY TotalAdds
  <1>2. N \in 0..N /\ 0 \notin 1..N
    OBVIOUS
  <1>3. sum[N] \in Nat /\ other[N] \in Nat /\ sum[N] <= other[N]
    <2>1. \A i \in 1..N : i # 0 => f[i] <= f[i]
      OBVIOUS
    <2> QED BY <1>1, <1>2, <2>1, AddsCompare
  <1>4. other[N] <= sum[N]
    <2>1. \A i \in 1..N : i # 0 => f[i] <= f[i]
      OBVIOUS
    <2> QED BY <1>1, <1>2, <2>1, AddsCompare
  <1> QED BY <1>1, <1>3, <1>4

\* Totals of two sequences, of which the first has the smaller terms.
LEMMA TotalMono ==
  ASSUME NEW N \in Nat, NEW f, \A i \in 1..N : f[i] \in Nat,
         NEW g, \A i \in 1..N : g[i] \in Nat, \A i \in 1..N : f[i] <= g[i]
  PROVE  Total(f, N) \in Nat /\ Total(g, N) \in Nat /\ Total(f, N) <= Total(g, N)
  <1>1. PICK sum : Adds(sum, f, N) /\ Total(f, N) = sum[N]
    BY TotalAdds
  <1>2. PICK other : Adds(other, g, N) /\ Total(g, N) = other[N]
    BY TotalAdds
  <1>3. PICK p : p = 0
    OBVIOUS
  <1>4. /\ N \in 0..N /\ p \notin 1..N
        /\ \A i \in 1..N : i # p => f[i] <= g[i]
    BY <1>3
  <1>5. \A n \in 0..N :
           /\ sum[n] \in Nat /\ other[n] \in Nat
           /\ p \in 1..n => sum[n] <= other[n] + f[p] - g[p]
           /\ p \notin 1..n => sum[n] <= other[n]
    <2>1. Adds(sum, f, N) /\ Adds(other, g, N)
      BY <1>1, <1>2
    <2>2. \A i \in 1..N : i # p => f[i] <= g[i]
      BY <1>4
    <2> QED BY <2>1, <2>2, AddsCompare, Zenon
  <1> QED BY <1>1, <1>2, <1>4, <1>5

SameBut(f, g, N, p) ==
  /\ \A i \in 1..N : f[i] \in Nat /\ g[i] \in Nat
  /\ p \in 1..N /\ \A i \in 1..N : i # p => f[i] = g[i]

\* Totals of two sequences that differ at one place.
LEMMA TotalChange ==
  ASSUME NEW N \in Nat, NEW f, NEW g, NEW p, SameBut(f, g, N, p)
  PROVE  Total(f, N) + g[p] = Total(g, N) + f[p]
  <1> USE DEF SameBut
  <1>1. PICK sum : Adds(sum, f, N) /\ Total(f, N) = sum[N]
    BY TotalAdds
  <1>2. PICK other : Adds(other, g, N) /\ Total(g, N) = other[N]
    BY TotalAdds
  <1>3. N \in 0..N /\ \A i \in 1..N : i # p => f[i] <= g[i] /\ g[i] <= f[i]
    OBVIOUS
  <1>4. sum[N] \in Nat /\ other[N] \in Nat /\ sum[N] <= other[N] + f[p] - g[p]
    BY <1>1, <1>2, <1>3, AddsCompare
  <1>5. other[N] <= sum[N] + g[p] - f[p]
    BY <1>1, <1>2, <1>3, AddsCompare
  <1>6. f[p] \in Nat /\ g[p] \in Nat
    OBVIOUS
  <1> QED BY <1>1, <1>2, <1>4, <1>5, <1>6

\* The total of one more term.
LEMMA TotalStep ==
  ASSUME NEW N \in Nat, NEW f, \A i \in 1..(N + 1) : f[i] \in Nat
  PROVE  Total(f, N + 1) = Total(f, N) + f[N + 1]
  <1>1. PICK sum : Adds(sum, f, N + 1) /\ Total(f, N + 1) = sum[N + 1]
    BY TotalAdds
  <1>2. Adds(sum, f, N)
    BY <1>1 DEF Adds
  <1>3. Total(f, N) = sum[N]
    BY <1>2, TotalIs
  <1>4. sum[N + 1] = sum[(N + 1) - 1] + f[N + 1] /\ (N + 1) - 1 = N
    BY <1>1 DEF Adds
  <1> QED BY <1>1, <1>3, <1>4

LEMMA TotalZero ==
  ASSUME NEW f
  PROVE  Total(f, 0) = 0
  <1>1. PICK sum : Adds(sum, f, 0) /\ Total(f, 0) = sum[0]
    BY TotalAdds
  <1> QED BY <1>1 DEF Adds

\* Totals are numbers.
LEMMA TotalInNat ==
  ASSUME NEW N \in Nat, NEW f, \A i \in 1..N : f[i] \in Nat
  PROVE  Total(f, N) \in Nat
  <1>1. \A i \in 1..N : f[i] <= f[i]
    OBVIOUS
  <1> QED BY <1>1, TotalMono

\* A total takes its terms from 1 to N, whatever else the function has.
LEMMA TotalSame ==
  ASSUME NEW N \in Nat, NEW f, \A i \in 1..N : f[i] \in Nat,
         NEW g, \A i \in 1..N : g[i] = f[i]
  PROVE  Total(f, N) = Total(g, N)
  <1>1. \A i \in 1..N : g[i] \in Nat /\ g[i] <= f[i] /\ f[i] <= g[i]
    OBVIOUS
  <1>2. Total(f, N) \in Nat /\ Total(g, N) \in Nat
    BY <1>1, TotalInNat
  <1>3. Total(f, N) <= Total(g, N)
    BY <1>1, TotalMono
  <1>4. Total(g, N) <= Total(f, N)
    BY <1>1, TotalMono
  <1> QED BY <1>2, <1>3, <1>4

LEMMA TotalOfZeros ==
  ASSUME NEW N \in Nat, NEW f, \A i \in 1..N : f[i] = 0
  PROVE  Total(f, N) = 0
  <1> DEFINE sum == [n \in 0..N |-> 0]
  <1>1. Adds(sum, f, N) /\ sum[N] = 0
    BY DEF Adds
  <1>2. \A i \in 1..N : f[i] \in Nat
    OBVIOUS
  <1> HIDE DEF sum
  <1> QED BY <1>1, <1>2, TotalIs

\* f has the terms that a list without repetitions picks, h those at their
\* places.
Picks(f, n, list, g, h, N) ==
  /\ n \in Nat /\ N \in Nat /\ \A i \in 1..N : g[i] \in Nat
  /\ \A k \in 1..n : list[k] \in 1..N /\ f[k] = g[list[k]]
  /\ \A j, k \in 1..n : list[j] = list[k] => j = k
  /\ \A i \in 1..N : h[i] = IF i \in {list[k] : k \in 1..n} THEN g[i] ELSE 0

\* What is picked adds up to the same in the order of the list.
LEMMA TotalPicked ==
  ASSUME NEW N, NEW g, NEW n, NEW list, NEW f, NEW h, Picks(f, n, list, g, h, N)
  PROVE  Total(f, n) = Total(h, N)
  <1> USE DEF Picks
  <1> DEFINE picked(m) == [i \in 1..N |-> IF \E k \in 1..m : list[k] = i
                                          THEN g[i] ELSE 0]
             T == {m \in Nat : m <= n => Total(f, m) = Total(picked(m), N)}
  <1>1. 0 \in T
    <2>1. Total(f, 0) = 0
      BY TotalZero
    <2>2. \A i \in 1..N : picked(0)[i] = 0
      OBVIOUS
    <2>3. Total(picked(0), N) = 0
      BY <2>2, TotalOfZeros
    <2> QED BY <2>1, <2>3
  <1>2. ASSUME NEW m \in T PROVE m + 1 \in T
    <2> SUFFICES ASSUME m + 1 <= n PROVE Total(f, m + 1) = Total(picked(m + 1), N)
      OBVIOUS
    <2>1. m \in Nat /\ Total(f, m) = Total(picked(m), N)
      OBVIOUS
    <2>2. m + 1 \in 1..n /\ list[m + 1] \in 1..N /\ f[m + 1] = g[list[m + 1]]
      BY <2>1
    <2>3. Total(f, m + 1) = Total(f, m) + g[list[m + 1]]
      <3>1. \A k \in 1..(m + 1) : f[k] \in Nat
        BY <2>1
      <3>2. m \in Nat
        BY <2>1
      <3>3. Total(f, m + 1) = Total(f, m) + f[m + 1]
        <4> HIDE DEF T, picked
        <4> QED BY <3>1, <3>2, TotalStep
      <3> QED BY <2>2, <3>3
    <2>4. Total(picked(m), N) + g[list[m + 1]] = Total(picked(m + 1), N)
      <3> DEFINE p == list[m + 1]
                 before == picked(m)
                 after == picked(m + 1)
      <3>1. \A i \in 1..N : before[i] \in Nat /\ after[i] \in Nat
        OBVIOUS
      <3>2. before[p] = 0
        <4>1. \A k \in 1..m : k \in 1..n /\ k # m + 1
          BY <2>1
        <4> QED BY <2>2, <4>1
      <3>3. after[p] = g[p]
        BY <2>1, <2>2
      <3>4. \A i \in 1..N : i # p => before[i] = after[i]
        BY <2>1
      <3>5. p \in 1..N
        BY <2>2
      <3> HIDE DEF p, before, after, T, picked
      <3>6. Total(before, N) + after[p] = Total(after, N) + before[p]
        <4>1. SameBut(before, after, N, p)
          BY <3>1, <3>4, <3>5 DEF SameBut
        <4> QED BY <4>1, TotalChange
      <3>7. Total(before, N) + g[p] = Total(after, N)
        <4>1. Total(after, N) \in Nat
          BY <3>1, TotalInNat
        <4> QED BY <3>2, <3>3, <3>6, <4>1
      <3> QED BY <3>7 DEF p, before, after
    <2> QED BY <2>1, <2>3, <2>4
  <1>3. T = Nat
    <2> HIDE DEF T
    <2>1. T \in SUBSET Nat
      BY DEF T
    <2> QED BY <1>1, <1>2, <2>1, Induct
  <1>4. Total(f, n) = Total(picked(n), N)
    <2>1. n \in T
      BY <1>3
    <2> QED BY <2>1
  <1>5. Total(h, N) = Total(picked(n), N)
    <2> DEFINE p == picked(n)
    <2>1. \A i \in 1..N : h[i] \in Nat /\ p[i] = h[i]
      OBVIOUS
    <2> HIDE DEF p
    <2>2. Total(h, N) = Total(p, N)
      BY <2>1, TotalSame
    <2> QED BY <2>2 DEF p
  <1> QED BY <1>4, <1>5

-----------------------------------------------------------------------------
(* The tokens of some of the candidates.                                   *)

Counted(cands) ==
  Len(cands) \in Nat /\ \A i \in 1..Len(cands) : cands[i].tokens \in Nat

InZone(cands, zones) == {i \in 1..Len(cands) : cands[i].zone \in zones}

Weight(cands, set) ==
  Total([i \in 1..Len(cands) |-> IF i \in set THEN cands[i].tokens ELSE 0], Len(cands))

\* More candidates have more tokens.
LEMMA WeightMono ==
  ASSUME NEW cands, Counted(cands), NEW set, NEW more,
         \A i \in 1..Len(cands) : i \in set => i \in more
  PROVE  /\ Weight(cands, set) \in Nat /\ Weight(cands, more) \in Nat
         /\ Weight(cands, set) <= Weight(cands, more)
  <1> DEFINE N == Len(cands)
             f == [i \in 1..N |-> IF i \in set THEN cands[i].tokens ELSE 0]
             g == [i \in 1..N |-> IF i \in more THEN cands[i].tokens ELSE 0]
  <1>1. N \in Nat /\ \A i \in 1..N : f[i] \in Nat /\ g[i] \in Nat /\ f[i] <= g[i]
    BY DEF Counted
  <1>2. Weight(cands, set) = Total(f, N) /\ Weight(cands, more) = Total(g, N)
    BY DEF Weight
  <1> HIDE DEF N, f, g
  <1> QED BY <1>1, <1>2, TotalMono

\* One more candidate adds its tokens.
LEMMA WeightAdd ==
  ASSUME NEW cands, Counted(cands), NEW set, NEW p \in 1..Len(cands), p \notin set
  PROVE  Weight(cands, {p} \cup set) = Weight(cands, set) + cands[p].tokens
  <1> DEFINE N == Len(cands)
             f == [i \in 1..N |-> IF i \in set THEN cands[i].tokens ELSE 0]
             g == [i \in 1..N |-> IF i \in {p} \cup set THEN cands[i].tokens ELSE 0]
  <1>1. N \in Nat /\ p \in 1..N /\ \A i \in 1..N : f[i] \in Nat /\ g[i] \in Nat
    BY DEF Counted
  <1>2. \A i \in 1..N : i # p => f[i] = g[i]
    OBVIOUS
  <1>3. f[p] = 0 /\ g[p] = cands[p].tokens
    OBVIOUS
  <1>4. Weight(cands, set) = Total(f, N) /\ Weight(cands, {p} \cup set) = Total(g, N)
    BY DEF Weight
  <1>5. Total(f, N) \in Nat /\ Total(g, N) \in Nat
    <2> HIDE DEF N, f, g
    <2> QED BY <1>1, TotalInNat
  <1> HIDE DEF N, f, g
  <1>6. Total(f, N) + g[p] = Total(g, N) + f[p]
    <2>1. SameBut(f, g, N, p)
      BY <1>1, <1>2 DEF SameBut
    <2> QED BY <1>1, <2>1, TotalChange
  <1> QED BY <1>3, <1>4, <1>5, <1>6

LEMMA WeightOfNone ==
  ASSUME NEW cands, Counted(cands)
  PROVE  Weight(cands, {}) = 0
  <1> DEFINE N == Len(cands)
             f == [i \in 1..N |-> IF i \in {} THEN cands[i].tokens ELSE 0]
  <1>1. N \in Nat /\ \A i \in 1..N : f[i] = 0
    BY DEF Counted
  <1>2. Weight(cands, {}) = Total(f, N)
    BY DEF Weight
  <1> HIDE DEF N, f
  <1> QED BY <1>1, <1>2, TotalOfZeros

\* Size adds up tokens.
LEMMA SizeIsTotal ==
  ASSUME NEW messages, Counted(messages), NEW zones
  PROVE  Context!Size(messages, zones) =
           Total([n \in 1..Len(messages) |-> IF messages[n].zone \in zones
                                            THEN messages[n].tokens ELSE 0],
                 Len(messages))
  <1> DEFINE N == Len(messages)
             f == [n \in 1..N |-> IF messages[n].zone \in zones
                                  THEN messages[n].tokens ELSE 0]
             Sums(s) == s = [n \in 0..N |->
                               IF n = 0 THEN 0
                               ELSE s[n - 1] + (IF messages[n].zone \in zones
                                                THEN messages[n].tokens ELSE 0)]
             sum == CHOOSE s : Sums(s)
  <1>1. N \in Nat /\ \A i \in 1..N : f[i] \in Nat
    BY DEF Counted
  <1>2. \E s : Sums(s)
    <2>1. PICK other : Adds(other, f, N)
      <3> HIDE DEF f, N
      <3> QED BY <1>1, AddsExist
    <2> DEFINE s == [n \in 0..N |-> other[n]]
    <2>2. \A n \in 1..N : s[n] = s[n - 1] + f[n]
      BY <1>1, <2>1 DEF Adds
    <2>2a. s[0] = 0
      BY <1>1, <2>1 DEF Adds
    <2>3. s = [n \in 0..N |-> s[n]]
      OBVIOUS
    <2> HIDE DEF s, N
    <2>4. \A n \in 0..N : s[n] = IF n = 0 THEN 0
                               ELSE s[n - 1] + (IF messages[n].zone \in zones
                                                THEN messages[n].tokens ELSE 0)
      <3> TAKE n \in 0..N
      <3>1. CASE n = 0
        <4>1. s[0] = 0
          BY <2>2a
        <4> QED BY <3>1, <4>1
      <3>2. CASE n # 0
        <4>1. n \in 1..N
          BY <1>1, <3>2
        <4>2. f[n] = IF messages[n].zone \in zones THEN messages[n].tokens ELSE 0
          BY <4>1
        <4> HIDE DEF f
        <4> QED BY <2>2, <3>2, <4>1, <4>2
      <3> QED BY <3>1, <3>2
    <2>5. Sums(s)
      BY <2>3, <2>4
    <2> QED BY <2>5
  <1>3. Sums(sum)
    BY <1>2
  <1>4. Context!Size(messages, zones) = sum[N]
    BY DEF Context!Size
  <1> HIDE DEF sum
  <1>5. Adds(sum, f, N)
    <2>1. \A n \in 0..N : sum[n] = IF n = 0 THEN 0
                               ELSE sum[n - 1] + (IF messages[n].zone \in zones
                                                THEN messages[n].tokens ELSE 0)
      BY <1>3
    <2> QED BY <1>1, <2>1 DEF Adds
  <1>6. Total(f, N) = sum[N]
    <2> HIDE DEF f, N
    <2> QED BY <1>1, <1>5, TotalIs
  <1> QED BY <1>4, <1>6

\* Placed in whatever order, candidates have the tokens they have.
Draws(cands, n, list) ==
  /\ \A k \in 1..n : list[k] \in 1..Len(cands)
  /\ \A j, k \in 1..n : list[j] = list[k] => j = k

LEMMA SizeOfPlaced ==
  ASSUME NEW cands, Counted(cands), NEW n \in Nat, NEW list, Draws(cands, n, list),
         NEW zones
  PROVE  Context!Size([k \in 1..n |-> cands[list[k]]], zones) =
           Weight(cands, {list[k] : k \in 1..n} \cap InZone(cands, zones))
  <1> USE DEF Draws
  <1> DEFINE N == Len(cands)
             messages == [k \in 1..n |-> cands[list[k]]]
             g == [i \in 1..N |-> IF cands[i].zone \in zones THEN cands[i].tokens ELSE 0]
             set == {list[k] : k \in 1..n} \cap InZone(cands, zones)
  <1>1. N \in Nat /\ \A i \in 1..N : g[i] \in Nat
    BY DEF Counted
  <1>2. Len(messages) = n /\ Counted(messages)
    BY DEF Counted
  <1> DEFINE f == [k \in 1..Len(messages) |-> IF messages[k].zone \in zones
                                              THEN messages[k].tokens ELSE 0]
             h == [i \in 1..N |-> IF i \in set THEN cands[i].tokens ELSE 0]
  <1>3. Context!Size(messages, zones) = Total(f, n)
    <2> HIDE DEF messages
    <2> QED BY <1>2, SizeIsTotal
  <1>4. \A k \in 1..n : f[k] = g[list[k]]
    BY <1>2
  <1> DEFINE range == {list[k] : k \in 1..n}
  <1>5. \A i \in 1..N : h[i] = IF i \in range THEN g[i] ELSE 0
    BY DEF InZone
  <1>6. \A k \in 1..n : list[k] \in 1..N
    OBVIOUS
  <1>7. Total(f, n) = Total(h, N)
    <2>1. Picks(f, n, list, g, h, N)
      <3> HIDE DEF g, N, f, h, messages, set
      <3> QED BY <1>1, <1>4, <1>5, <1>6 DEF Picks
    <2> HIDE DEF g, N, f, h
    <2> QED BY <2>1, TotalPicked
  <1> QED BY <1>3, <1>7 DEF Weight

-----------------------------------------------------------------------------
(* Ranks.                                                                  *)

Below(S, R, i) == {j \in S : <<j, i>> \in R}

StrictOrder(S, R) ==
  /\ \A i \in S : <<i, i>> \notin R
  /\ \A i, j, k \in S : <<i, j>> \in R /\ <<j, k>> \in R => <<i, k>> \in R
  /\ \A i, j \in S : i = j \/ <<i, j>> \in R \/ <<j, i>> \in R

\* Each rank is that of one member.
LEMMA RankCounts ==
  ASSUME NEW S, IsFiniteSet(S), NEW R, StrictOrder(S, R)
  PROVE  /\ Cardinality(S) \in Nat
         /\ \A i \in S : Cardinality(Below(S, R, i)) \in 0..(Cardinality(S) - 1)
         /\ \A i, j \in S :
              <<i, j>> \in R <=> Cardinality(Below(S, R, i)) < Cardinality(Below(S, R, j))
         /\ \A m \in 0..(Cardinality(S) - 1) :
              \E i \in S : Cardinality(Below(S, R, i)) = m
  <1> DEFINE n == Cardinality(S)
             rank(i) == Cardinality(Below(S, R, i))
  <1>1. n \in Nat
    BY FS_CardinalityType
  <1>2. ASSUME NEW i \in S
        PROVE  /\ IsFiniteSet(Below(S, R, i)) /\ rank(i) \in Nat /\ rank(i) < n
    <2>1. Below(S, R, i) \subseteq S /\ i \in S /\ i \notin Below(S, R, i)
      BY DEF Below, StrictOrder
    <2>2. IsFiniteSet(Below(S, R, i)) /\ rank(i) <= n /\ (rank(i) = n => Below(S, R, i) = S)
      BY <2>1, FS_Subset
    <2>3. rank(i) \in Nat
      BY <2>2, FS_CardinalityType
    <2> QED BY <1>1, <2>1, <2>2, <2>3
  <1>3. ASSUME NEW i \in S, NEW j \in S, <<i, j>> \in R PROVE rank(i) < rank(j)
    <2>1. Below(S, R, i) \subseteq Below(S, R, j)
      BY <1>3 DEF Below, StrictOrder
    <2>2. i \in Below(S, R, j) /\ i \notin Below(S, R, i)
      BY <1>3 DEF Below, StrictOrder
    <2>3. IsFiniteSet(Below(S, R, j)) /\ rank(i) \in Nat /\ rank(j) \in Nat
      BY <1>2
    <2>4. rank(i) <= rank(j) /\ (rank(i) = rank(j) => Below(S, R, i) = Below(S, R, j))
      BY <2>1, <2>3, FS_Subset
    <2> QED BY <2>2, <2>3, <2>4
  <1>4. \A i, j \in S : <<i, j>> \in R <=> rank(i) < rank(j)
    <2> SUFFICES ASSUME NEW i \in S, NEW j \in S, rank(i) < rank(j) PROVE <<i, j>> \in R
      BY <1>3
    <2>1. CASE i = j
      BY <1>2, <2>1
    <2>2. CASE <<j, i>> \in R
      <3>1. rank(j) < rank(i)
        BY <1>3, <2>2
      <3> HIDE DEF rank
      <3> QED BY <1>2, <3>1
    <2> QED BY <2>1, <2>2 DEF StrictOrder
  <1>5. \A m \in 0..(n - 1) : \E i \in S : rank(i) = m
    <2> DEFINE f == [i \in S |-> rank(i)]
               ranks == {rank(i) : i \in S}
               all == 0..(n - 1)
    <2>1. ranks \subseteq all
      <3> HIDE DEF rank, n
      <3> QED BY <1>1, <1>2
    <2>2. IsFiniteSet(all) /\ Cardinality(all) = n
      <3> HIDE DEF n
      <3>1. 0 \in Int /\ n - 1 \in Int /\ n - 1 - 0 + 1 = n /\ (0 > n - 1 => n = 0)
        BY <1>1
      <3> QED BY <3>1, FS_Interval
    <2>3. f \in Bijection(S, ranks)
      <3>1. \A i, j \in S : rank(i) = rank(j) => i = j
        <4> SUFFICES ASSUME NEW i \in S, NEW j \in S, rank(i) = rank(j) PROVE i = j
          OBVIOUS
        <4>1. rank(i) \in Nat /\ ~(rank(i) < rank(j)) /\ ~(rank(j) < rank(i))
          <5>1. rank(i) \in Nat /\ rank(j) \in Nat
            BY <1>2
          <5> HIDE DEF rank
          <5> QED BY <5>1
        <4>2. <<i, j>> \notin R /\ <<j, i>> \notin R
          BY <1>3, <4>1
        <4> QED BY <4>2 DEF StrictOrder
      <3> HIDE DEF rank
      <3> QED BY <3>1 DEF Bijection, Injection, Surjection, IsInjective
    <2>4. Cardinality(ranks) = n
      <3>1. ExistsBijection(S, ranks)
        BY <2>3 DEF ExistsBijection
      <3> HIDE DEF ranks, rank
      <3> QED BY <3>1, FS_Bijection
    <2>5. ranks = all
      BY <2>1, <2>2, <2>4, FS_Subset
    <2> HIDE DEF rank, n
    <2> QED BY <2>5
  <1>6. \A i \in S : rank(i) \in 0..(n - 1)
    <2> HIDE DEF rank, n
    <2> QED BY <1>1, <1>2
  <1> QED BY <1>1, <1>4, <1>5, <1>6

\* A list of the members by rank is in order and has every member once.
LEMMA ListedByRank ==
  ASSUME NEW S, IsFiniteSet(S), NEW R, StrictOrder(S, R), NEW list,
         \A k \in 1..Cardinality(S) :
           list[k] \in S /\ Cardinality(Below(S, R, list[k])) = k - 1
  PROVE  /\ Cardinality(S) \in Nat
         /\ \A j, k \in 1..Cardinality(S) : list[j] = list[k] => j = k
         /\ \A j, k \in 1..Cardinality(S) : <<list[j], list[k]>> \in R <=> j < k
         /\ S = {list[k] : k \in 1..Cardinality(S)}
  <1> DEFINE n == Cardinality(S)
             rank(i) == Cardinality(Below(S, R, i))
  <1>1. /\ n \in Nat
        /\ \A i \in S : rank(i) \in 0..(n - 1)
        /\ \A i, j \in S : <<i, j>> \in R <=> rank(i) < rank(j)
    BY RankCounts
  <1>2. \A k \in 1..n : list[k] \in S /\ rank(list[k]) = k - 1
    OBVIOUS
  <1> HIDE DEF n, rank
  <1>3. \A j, k \in 1..n : list[j] = list[k] => j = k
    BY <1>1, <1>2
  <1>4. \A j, k \in 1..n : <<list[j], list[k]>> \in R <=> j < k
    BY <1>1, <1>2
  <1>5. ASSUME NEW i \in S PROVE \E k \in 1..n : i = list[k]
    <2> DEFINE k == rank(i) + 1
    <2>1. k \in 1..n /\ rank(i) = k - 1
      BY <1>1
    <2>2. list[k] \in S /\ rank(list[k]) = rank(i)
      BY <1>2, <2>1
    <2>3. i = list[k] \/ <<i, list[k]>> \in R \/ <<list[k], i>> \in R
      BY <2>2 DEF StrictOrder
    <2>4. ~(rank(i) < rank(list[k])) /\ ~(rank(list[k]) < rank(i))
      BY <1>1, <2>2
    <2> HIDE DEF k
    <2> QED BY <1>1, <2>1, <2>2, <2>3, <2>4
  <1> QED BY <1>1, <1>2, <1>3, <1>4, <1>5 DEF n

-----------------------------------------------------------------------------
(* The order of the offers.                                                *)

LEMMA SameCount == \A S : Context!Cardinality(S) = Cardinality(S)
  BY DEF Context!Cardinality, Cardinality

\* What the sources make of messages, entries and memories.
SoundOne(cands, i) ==
  LET c == cands[i] IN
  /\ c.tokens \in Nat
  /\ c.score \in Int /\ c.retention \in Int /\ c.placement \in Int
  /\ c.zone \in Context!Zones
  /\ c.source = "conversation" <=>
       c.zone \in {"system", "conversation", "recent_conversation"}
  /\ c.source = "core_book" <=> c.zone \in {"character_core", "retrieved_core_book"}
  /\ c.source = "memory" <=> c.zone = "retrieved_memory"
  /\ c.source = "conversation" => c.name = i /\ c.eligible
  /\ c.source = "core_book" => c.name \in Nat
  /\ c.zone = "character_core" => c.score >= 150
  /\ c.zone \in {"retrieved_memory", "conversation"} => c.score <= 140

Sound(cands) ==
  /\ Len(cands) \in Nat
  /\ \A i \in 1..Len(cands) : SoundOne(cands, i)
  /\ \A i, j \in 1..Len(cands) :
       /\ cands[i] = cands[j] => i = j
       /\ (cands[i].source = "core_book" /\ cands[j].source = "core_book"
             /\ cands[i].name = cands[j].name) => i = j
       /\ cands[i].zone = "conversation" /\ cands[j].zone = "recent_conversation"
            => i < j

OfferOrder(cands) ==
  {p \in (1..Len(cands)) \X (1..Len(cands)) : Context!OfferedBefore(cands, p[1], p[2])}

LEMMA SoundIsCounted ==
  ASSUME NEW cands, Sound(cands) PROVE Counted(cands)
  BY DEF Sound, SoundOne, Counted

LEMMA SourceRankIsNumber ==
  ASSUME NEW c
  PROVE  Context!SourceRank(c) \in 0..2
  BY DEF Context!SourceRank

\* stableCompare orders the candidates.
LEMMA PreferredOrders ==
  ASSUME NEW cands, Sound(cands), NEW i \in 1..Len(cands), NEW j \in 1..Len(cands),
         NEW k \in 1..Len(cands)
  PROVE  /\ ~Context!Preferred(cands, i, i)
         /\ i = j \/ Context!Preferred(cands, i, j) \/ Context!Preferred(cands, j, i)
         /\ Context!Preferred(cands, i, j) /\ Context!Preferred(cands, j, k) => Context!Preferred(cands, i, k)
  <1> DEFINE s(x) == cands[x].score
             r(x) == cands[x].retention
             q(x) == Context!SourceRank(cands[x])
             P(x, y) == \/ s(x) > s(y)
                        \/ /\ s(x) = s(y)
                           /\ \/ r(x) > r(y)
                              \/ /\ r(x) = r(y)
                                 /\ \/ q(x) < q(y)
                                    \/ q(x) = q(y) /\ x < y
  <1>1. \A x \in {i, j, k} : s(x) \in Int /\ r(x) \in Int /\ q(x) \in Int /\ x \in Int
    BY SourceRankIsNumber DEF Sound, SoundOne
  <1>2. \A x, y : Context!Preferred(cands, x, y) <=> P(x, y)
    BY DEF Context!Preferred
  <1> HIDE DEF s, r, q
  <1>3. ~P(i, i) /\ (i = j \/ P(i, j) \/ P(j, i))
    BY <1>1
  <1>4. P(i, j) /\ P(j, k) => P(i, k)
    BY <1>1
  <1> HIDE DEF P
  <1> QED BY <1>2, <1>3, <1>4

LEMMA RoundIsNumber ==
  ASSUME NEW c
  PROVE  Context!RoundOf(c) \in {1, 2, 3}
  BY DEF Context!RoundOf

\* The rounds, and within each its own order, order the candidates.
LEMMA OffersAreOrdered ==
  ASSUME NEW cands, Sound(cands)
  PROVE  StrictOrder(1..Len(cands), OfferOrder(cands))
  <1> DEFINE I == 1..Len(cands)
             R == OfferOrder(cands)
             r(i) == Context!RoundOf(cands[i])
  <1>1. \A i \in I : i \in Int /\ r(i) \in {1, 2, 3}
    BY RoundIsNumber DEF Sound
  <1>2. \A i, j \in I : <<i, j>> \in R <=>
          \/ r(i) < r(j)
          \/ /\ r(i) = r(j)
             /\ \/ r(i) = 1 /\ i < j
                \/ r(i) = 2 /\ i > j
                \/ r(i) = 3 /\ Context!Preferred(cands, i, j)
    <2> SUFFICES ASSUME NEW i \in I, NEW j \in I
                 PROVE  Context!OfferedBefore(cands, i, j) <=>
                          \/ r(i) < r(j)
                          \/ /\ r(i) = r(j)
                             /\ \/ r(i) = 1 /\ i < j
                                \/ r(i) = 2 /\ i > j
                                \/ r(i) = 3 /\ Context!Preferred(cands, i, j)
      BY DEF OfferOrder
    <2>1. CASE r(i) = 1
      BY <2>1 DEF Context!OfferedBefore
    <2>2. CASE r(i) = 2
      BY <2>2 DEF Context!OfferedBefore
    <2>3. CASE r(i) = 3
      BY <2>3 DEF Context!OfferedBefore
    <2> HIDE DEF I, R, r
    <2> QED BY <1>1, <2>1, <2>2, <2>3
  <1>3. \A i, j, k \in I :
           /\ ~Context!Preferred(cands, i, i)
           /\ i = j \/ Context!Preferred(cands, i, j) \/ Context!Preferred(cands, j, i)
           /\ Context!Preferred(cands, i, j) /\ Context!Preferred(cands, j, k) => Context!Preferred(cands, i, k)
    BY PreferredOrders
  <1> HIDE DEF I, R, r
  <1>4. \A i \in I : <<i, i>> \notin R
    BY <1>1, <1>2, <1>3
  <1>5. \A i, j \in I : i = j \/ <<i, j>> \in R \/ <<j, i>> \in R
    <2> TAKE i, j \in I
    <2>1. r(i) < r(j) \/ r(j) < r(i) \/ r(i) = r(j)
      BY <1>1
    <2>2. i = j \/ i < j \/ j < i
      BY <1>1
    <2> QED BY <1>1, <1>2, <1>3, <2>1, <2>2
  <1>6. \A i, j, k \in I : <<i, j>> \in R /\ <<j, k>> \in R => <<i, k>> \in R
    <2> TAKE i, j, k \in I
    <2> SUFFICES ASSUME <<i, j>> \in R, <<j, k>> \in R PROVE <<i, k>> \in R
      OBVIOUS
    <2>1. r(i) <= r(j) /\ r(j) <= r(k)
      BY <1>1, <1>2
    <2>2. CASE r(i) < r(k)
      BY <1>2, <2>2
    <2>3. CASE ~(r(i) < r(k))
      <3>1. r(i) = r(j) /\ r(j) = r(k)
        BY <1>1, <2>1, <2>3
      <3>5. /\ ~(r(i) < r(j)) /\ ~(r(j) < r(k))
            /\ ~(r(i) = 1 /\ r(i) = 2) /\ ~(r(i) = 1 /\ r(i) = 3) /\ ~(r(i) = 2 /\ r(i) = 3)
        BY <1>1, <3>1
      <3>2. CASE r(i) = 1
        <4>1. i < j /\ j < k
          <5>1. <<i, j>> \in R => i < j
            BY <1>2, <3>1, <3>2, <3>5
          <5>2. <<j, k>> \in R => j < k
            BY <1>2, <3>1, <3>2, <3>5
          <5> QED BY <5>1, <5>2
        <4>2. i < k
          BY <1>1, <4>1
        <4> QED BY <1>2, <3>1, <3>2, <4>2
      <3>3. CASE r(i) = 2
        <4>1. i > j /\ j > k
          <5>1. <<i, j>> \in R => i > j
            BY <1>2, <3>1, <3>3, <3>5
          <5>2. <<j, k>> \in R => j > k
            BY <1>2, <3>1, <3>3, <3>5
          <5> QED BY <5>1, <5>2
        <4>2. i > k
          BY <1>1, <4>1
        <4> QED BY <1>2, <3>1, <3>3, <4>2
      <3>4. CASE r(i) = 3
        <4>1. Context!Preferred(cands, i, j) /\ Context!Preferred(cands, j, k)
          BY <1>1, <1>2, <3>1, <3>4
        <4>2. Context!Preferred(cands, i, k)
          BY <1>3, <4>1
        <4> QED BY <1>2, <3>1, <3>4, <4>2
      <3> QED BY <1>1, <3>2, <3>3, <3>4
    <2> QED BY <2>2, <2>3
  <1> QED BY <1>4, <1>5, <1>6 DEF StrictOrder, I, R

\* Every candidate has its offer, in that order.
LEMMA OffersAreListed ==
  ASSUME NEW cands, Sound(cands)
  PROVE  /\ \A k \in 1..Len(cands) :
              /\ Context!Offers(cands)[k] \in 1..Len(cands)
              /\ Cardinality(Below(1..Len(cands), OfferOrder(cands), Context!Offers(cands)[k]))
                   = k - 1
         /\ \A j, k \in 1..Len(cands) :
              /\ Context!Offers(cands)[j] = Context!Offers(cands)[k] => j = k
              /\ Context!OfferedBefore(cands, Context!Offers(cands)[j], Context!Offers(cands)[k]) <=> j < k
         /\ 1..Len(cands) = {Context!Offers(cands)[k] : k \in 1..Len(cands)}
  <1> DEFINE N == Len(cands)
             I == 1..N
             R == OfferOrder(cands)
             list == Context!Offers(cands)
  <1>1. N \in Nat /\ IsFiniteSet(I) /\ Cardinality(I) = N
    <2>1. N \in Nat
      BY DEF Sound
    <2> HIDE DEF N
    <2>2. 1 \in Int /\ N \in Int /\ N - 1 + 1 = N /\ (1 > N => N = 0)
      BY <2>1
    <2> QED BY <2>1, <2>2, FS_Interval
  <1>2. StrictOrder(I, R)
    BY OffersAreOrdered
  <1>3. \A i, j \in I : <<i, j>> \in R <=> Context!OfferedBefore(cands, i, j)
    BY DEF OfferOrder
  <1>4. \A m \in 0..(N - 1) : \E i \in I : Cardinality(Below(I, R, i)) = m
    <2> HIDE DEF I, R, N
    <2> QED BY <1>1, <1>2, RankCounts
  <1>5. \A i \in I : {j \in I : Context!OfferedBefore(cands, j, i)} = Below(I, R, i)
    BY <1>3 DEF Below
  <1>6. list = [k \in 1..N |-> CHOOSE i \in I :
                   Cardinality({j \in I : Context!OfferedBefore(cands, j, i)}) = k - 1]
    BY <1>1 DEF Context!Offers, Context!Ranked, Context!Indexes, Cardinality, Context!Cardinality
  <1>7. ASSUME NEW k \in 1..N
        PROVE  list[k] \in I /\ Cardinality(Below(I, R, list[k])) = k - 1
    <2> DEFINE Has(i) == Cardinality({j \in I : Context!OfferedBefore(cands, j, i)}) = k - 1
    <2>1. \E i \in I : Has(i)
      <3>1. k - 1 \in 0..(N - 1)
        BY <1>1
      <3> HIDE DEF I, N, R
      <3> QED BY <1>4, <1>5, <3>1
    <2>2. list[k] = CHOOSE i \in I : Has(i)
      BY <1>6
    <2> HIDE DEF Has
    <2>3. list[k] \in I /\ Has(list[k])
      BY <2>1, <2>2
    <2> QED BY <1>5, <2>3 DEF Has
  <1> HIDE DEF list, I, R
  <1>8. /\ \A j, k \in 1..N : list[j] = list[k] => j = k
        /\ \A j, k \in 1..N : <<list[j], list[k]>> \in R <=> j < k
        /\ I = {list[k] : k \in 1..N}
    <2> HIDE DEF N
    <2> QED BY <1>1, <1>2, <1>7, ListedByRank
  <1> QED BY <1>3, <1>7, <1>8 DEF list, I, R

\* The offers of the first two rounds come before those of the third.
LEMMA EarlyOffers ==
  ASSUME NEW cands, Sound(cands)
  PROVE  /\ Context!Early(cands) \in 0..Len(cands)
         /\ \A k \in 1..Len(cands) :
              Context!RoundOf(cands[Context!Offers(cands)[k]]) # 3 <=> k <= Context!Early(cands)
  <1> DEFINE N == Len(cands)
             I == 1..N
             R == OfferOrder(cands)
             E == {i \in I : Context!RoundOf(cands[i]) # 3}
  <1>1. N \in Nat /\ IsFiniteSet(I) /\ Cardinality(I) = N
    <2>1. N \in Nat
      BY DEF Sound
    <2> HIDE DEF N
    <2>2. 1 \in Int /\ N \in Int /\ N - 1 + 1 = N /\ (1 > N => N = 0)
      BY <2>1
    <2> QED BY <2>1, <2>2, FS_Interval
  <1>2. Context!Early(cands) = Cardinality(E)
    BY SameCount DEF Context!Early, Context!Indexes
  <1>3. IsFiniteSet(E) /\ Cardinality(E) \in Nat /\ Cardinality(E) <= N
    <2>1. E \subseteq I
      OBVIOUS
    <2>2. IsFiniteSet(E) /\ Cardinality(E) <= N
      BY <1>1, <2>1, FS_Subset
    <2> QED BY <2>2, FS_CardinalityType
  <1>4. ASSUME NEW k \in 1..N
        PROVE  Context!RoundOf(cands[Context!Offers(cands)[k]]) # 3 <=> k <= Cardinality(E)
    <2> DEFINE i == Context!Offers(cands)[k]
               B == Below(I, R, i)
    <2>1. i \in I /\ Cardinality(B) = k - 1
      BY OffersAreListed
    <2>2. IsFiniteSet(B)
      <3>1. B \subseteq I
        BY DEF Below
      <3> QED BY <1>1, <3>1, FS_Subset
    <2>3. \A j \in I : j \in B <=> Context!OfferedBefore(cands, j, i)
      BY <2>1 DEF Below, OfferOrder
    <2>4. ASSUME NEW j \in I
          PROVE  /\ Context!RoundOf(cands[j]) \in {1, 2, 3}
                 /\ Context!OfferedBefore(cands, j, i) => Context!RoundOf(cands[j]) <= Context!RoundOf(cands[i])
                 /\ Context!RoundOf(cands[j]) < Context!RoundOf(cands[i]) => Context!OfferedBefore(cands, j, i)
      <3>1. Context!RoundOf(cands[j]) \in {1, 2, 3} /\ Context!RoundOf(cands[i]) \in {1, 2, 3}
        BY RoundIsNumber
      <3>2. Context!RoundOf(cands[j]) < Context!RoundOf(cands[i]) => Context!OfferedBefore(cands, j, i)
        BY DEF Context!OfferedBefore
      <3>3. Context!OfferedBefore(cands, j, i) =>
              \/ Context!RoundOf(cands[j]) < Context!RoundOf(cands[i])
              \/ Context!RoundOf(cands[j]) = Context!RoundOf(cands[i])
        BY DEF Context!OfferedBefore
      <3> HIDE DEF i
      <3> QED BY <3>1, <3>2, <3>3
    <2>5. i \notin B
      <3>1. <<i, i>> \notin R
        BY <2>1, OffersAreOrdered DEF StrictOrder
      <3> QED BY <3>1 DEF Below
    <2>6. CASE Context!RoundOf(cands[i]) # 3
      <3>1. B \subseteq E
        <4>1. B \subseteq I
          BY DEF Below
        <4> HIDE DEF B, I, i
        <4> QED BY <2>1, <2>3, <2>4, <2>6, <4>1
      <3>2. i \in E
        BY <2>1, <2>6
      <3>3. Cardinality(B) <= Cardinality(E) /\ (Cardinality(B) = Cardinality(E) => B = E)
        BY <1>3, <3>1, FS_Subset
      <3> HIDE DEF B, E, I, i
      <3>4. k - 1 # Cardinality(E)
        BY <2>1, <2>5, <3>2, <3>3
      <3>5. k - 1 < Cardinality(E)
        BY <1>1, <1>3, <2>1, <3>3, <3>4
      <3> QED BY <1>3, <2>6, <3>5 DEF i
    <2>7. CASE Context!RoundOf(cands[i]) = 3
      <3>1. E \subseteq B
        <4> SUFFICES ASSUME NEW j \in E PROVE j \in B
          OBVIOUS
        <4>1. j \in I /\ Context!RoundOf(cands[j]) \in {1, 2}
          BY <2>4
        <4>2. Context!OfferedBefore(cands, j, i)
          BY <2>4, <2>7, <4>1
        <4> QED BY <2>3, <4>1, <4>2
      <3>2. Cardinality(E) <= Cardinality(B)
        BY <2>2, <3>1, FS_Subset
      <3> HIDE DEF B, E, I, i
      <3>3. Cardinality(E) <= k - 1
        BY <2>1, <3>2
      <3> QED BY <1>3, <2>7, <3>3 DEF i
    <2> QED BY <2>6, <2>7
  <1> QED BY <1>2, <1>3, <1>4

-----------------------------------------------------------------------------
(* Selection.                                                              *)

\* What Select takes from offer n on, given what it takes from later ones.
TakenAt(cands, budget, taken, n) ==
  [left \in 0..budget |->
     IF n > Len(cands) THEN {}
     ELSE LET turn == [i \in Context!Indexes(cands) |->
                         IF cands[i].eligible /\ cands[i].tokens <= left
                         THEN {i} \cup taken[n + 1][left - cands[i].tokens]
                         ELSE taken[Context!Resume(cands, i, n)][left]]
          IN turn[Context!Offers(cands)[n]]]

\* The same, of the candidate whose turn it is.
TakenInTurn(cands, left, taken, n) ==
  LET i == Context!Offers(cands)[n] IN
  IF cands[i].eligible /\ cands[i].tokens <= left
  THEN {i} \cup taken[n + 1][left - cands[i].tokens]
  ELSE taken[Context!Resume(cands, i, n)][left]

LEMMA TakenIs ==
  ASSUME NEW cands, Sound(cands), NEW budget, NEW taken, NEW n \in 1..Len(cands)
  PROVE  TakenAt(cands, budget, taken, n) =
           [left \in 0..budget |-> TakenInTurn(cands, left, taken, n)]
  <1>1. Context!Offers(cands)[n] \in Context!Indexes(cands)
    BY OffersAreListed DEF Context!Indexes
  <1>2. ~(n > Len(cands))
    BY DEF Sound
  <1> QED BY <1>1, <1>2 DEF TakenAt, TakenInTurn

TakesFrom(cands, budget, taken, m) ==
  \A n \in m..(Len(cands) + 1) : taken[n] = TakenAt(cands, budget, taken, n)

\* Only later offers follow.
LEMMA ResumesLater ==
  ASSUME NEW cands, Sound(cands), NEW n \in 1..Len(cands)
  PROVE  Context!Resume(cands, Context!Offers(cands)[n], n) \in (n + 1)..(Len(cands) + 1)
  <1> DEFINE i == Context!Offers(cands)[n]
  <1>1. Len(cands) \in Nat /\ n \in Int /\ 1 <= n /\ n <= Len(cands)
    BY DEF Sound
  <1>2. Context!Early(cands) \in 0..Len(cands) /\ (Context!RoundOf(cands[i]) # 3 <=> n <= Context!Early(cands))
    BY EarlyOffers
  <1> HIDE DEF i
  <1> SUFFICES Context!Resume(cands, i, n) \in (n + 1)..(Len(cands) + 1)
    BY DEF i
  <1>3. CASE Context!RoundOf(cands[i]) = 2
    <2>1. n <= Context!Early(cands) /\ Context!Resume(cands, i, n) = Context!Early(cands) + 1
      BY <1>2, <1>3 DEF Context!Resume
    <2> QED BY <1>1, <1>2, <2>1
  <1>4. CASE Context!RoundOf(cands[i]) # 2
    <2>1. Context!Resume(cands, i, n) = n + 1
      BY <1>4 DEF Context!Resume
    <2> QED BY <1>1, <2>1
  <1> QED BY <1>3, <1>4

SameAfter(cands, taken, other, n) ==
  \A k \in (n + 1)..(Len(cands) + 1) : taken[k] = other[k]

LEMMA LaterTakenDecide ==
  ASSUME NEW cands, Sound(cands), NEW budget \in Nat, NEW taken, NEW other,
         NEW n \in 1..(Len(cands) + 1), SameAfter(cands, taken, other, n)
  PROVE  TakenAt(cands, budget, taken, n) = TakenAt(cands, budget, other, n)
  <1>1. Len(cands) \in Nat
    BY DEF Sound
  <1>2. CASE n > Len(cands)
    BY <1>2 DEF TakenAt
  <1>3. CASE ~(n > Len(cands))
    <2>1. n \in 1..Len(cands)
      BY <1>1, <1>3
    <2> DEFINE i == Context!Offers(cands)[n]
    <2>2. Context!Resume(cands, i, n) \in (n + 1)..(Len(cands) + 1)
      BY <2>1, ResumesLater
    <2>3. taken[n + 1] = other[n + 1]
      BY <1>1, <2>1 DEF SameAfter
    <2>4. taken[Context!Resume(cands, i, n)] = other[Context!Resume(cands, i, n)]
      BY <2>2 DEF SameAfter
    <2>5. \A left : TakenInTurn(cands, left, taken, n) = TakenInTurn(cands, left, other, n)
      BY <2>3, <2>4 DEF TakenInTurn
    <2>6. TakenAt(cands, budget, taken, n) =
            [left \in 0..budget |-> TakenInTurn(cands, left, taken, n)]
      BY <2>1, TakenIs
    <2>7. TakenAt(cands, budget, other, n) =
            [left \in 0..budget |-> TakenInTurn(cands, left, other, n)]
      BY <2>1, TakenIs
    <2> HIDE DEF i
    <2> QED BY <2>5, <2>6, <2>7
  <1> QED BY <1>2, <1>3

LEMMA TakenExist ==
  ASSUME NEW cands, Sound(cands), NEW budget \in Nat
  PROVE  \E taken : TakesFrom(cands, budget, taken, 1)
  <1> DEFINE N == Len(cands)
             T == {d \in Nat : d <= N =>
                     \E taken : TakesFrom(cands, budget, taken, N + 1 - d)}
  <1>1. N \in Nat
    BY DEF Sound
  <1>2. 0 \in T
    <2> DEFINE taken == [n \in {N + 1} |-> [left \in 0..budget |-> {}]]
    <2>1. \A n \in (N + 1)..(N + 1) : n = N + 1 /\ n > N
      BY <1>1
    <2>2. taken[N + 1] = TakenAt(cands, budget, taken, N + 1)
      BY <1>1 DEF TakenAt
    <2>3. TakesFrom(cands, budget, taken, N + 1)
      <3> HIDE DEF taken
      <3> QED BY <2>1, <2>2 DEF TakesFrom
    <2>4. N + 1 - 0 = N + 1
      BY <1>1
    <2> QED BY <2>3, <2>4
  <1>3. ASSUME NEW d \in T PROVE d + 1 \in T
    <2> SUFFICES ASSUME d + 1 <= N
                 PROVE  \E taken : TakesFrom(cands, budget, taken, N + 1 - (d + 1))
      OBVIOUS
    <2> DEFINE m == N + 1 - (d + 1)
    <2>1. d \in Nat /\ d <= N /\ m \in 1..N /\ N + 1 - d = m + 1
      BY <1>1
    <2>2. PICK taken : TakesFrom(cands, budget, taken, m + 1)
      BY <2>1
    <2> HIDE DEF m, T
    <2> DEFINE other == [n \in m..(N + 1) |->
                           IF n = m THEN TakenAt(cands, budget, taken, m) ELSE taken[n]]
    <2>3. \A k \in (m + 1)..(N + 1) : other[k] = taken[k]
      BY <1>1, <2>1
    <2>4. other[m] = TakenAt(cands, budget, taken, m)
      BY <1>1, <2>1
    <2> HIDE DEF other
    <2>5. ASSUME NEW n \in m..(N + 1)
          PROVE  other[n] = TakenAt(cands, budget, other, n)
      <3>1. \A k \in (n + 1)..(N + 1) : k \in (m + 1)..(N + 1)
        BY <1>1, <2>1
      <3>2. SameAfter(cands, taken, other, n)
        BY <2>3, <3>1 DEF SameAfter
      <3>3. n \in 1..(N + 1)
        BY <1>1, <2>1
      <3>4. TakenAt(cands, budget, taken, n) = TakenAt(cands, budget, other, n)
        BY <3>2, <3>3, LaterTakenDecide
      <3>5. CASE n = m
        BY <2>4, <3>4, <3>5
      <3>6. CASE n # m
        <4>1. n \in (m + 1)..(N + 1)
          BY <1>1, <2>1, <3>6
        <4>2. taken[n] = TakenAt(cands, budget, taken, n)
          BY <2>2, <4>1 DEF TakesFrom
        <4> QED BY <2>3, <3>4, <4>1, <4>2
      <3> QED BY <3>5, <3>6
    <2>6. TakesFrom(cands, budget, other, m)
      BY <2>5 DEF TakesFrom
    <2> QED BY <2>6 DEF m
  <1>4. N \in T
    <2>1. T \in SUBSET Nat
      OBVIOUS
    <2>2. T = Nat
      <3> HIDE DEF T
      <3> QED BY <1>2, <1>3, <2>1, Induct
    <2> QED BY <1>1, <2>2
  <1>5. N <= N /\ N + 1 - N = 1
    BY <1>1
  <1> QED BY <1>4, <1>5

LEMMA SelectTakes ==
  ASSUME NEW cands, Sound(cands), NEW budget \in Nat
  PROVE  \E taken : /\ TakesFrom(cands, budget, taken, 1)
                    /\ Context!Select(cands, budget) = taken[1][budget]
  <1> DEFINE N == Len(cands)
             Made(t) == t = [n \in 1..(N + 1) |-> TakenAt(cands, budget, t, n)]
             taken == CHOOSE t : Made(t)
  <1>1. N \in Nat
    BY DEF Sound
  <1>2. \E t : Made(t)
    <2>1. PICK other : TakesFrom(cands, budget, other, 1)
      BY TakenExist
    <2> DEFINE t == [n \in 1..(N + 1) |-> other[n]]
    <2>2. ASSUME NEW n \in 1..(N + 1)
          PROVE  t[n] = TakenAt(cands, budget, t, n)
      <3>1. \A k \in (n + 1)..(N + 1) : k \in 1..(N + 1)
        BY <1>1
      <3>2. SameAfter(cands, other, t, n)
        BY <3>1 DEF SameAfter
      <3>3. TakenAt(cands, budget, other, n) = TakenAt(cands, budget, t, n)
        <4> HIDE DEF t
        <4> QED BY <3>2, LaterTakenDecide
      <3>4. other[n] = TakenAt(cands, budget, other, n)
        BY <2>1 DEF TakesFrom
      <3> QED BY <3>3, <3>4
    <2>3. t = [n \in 1..(N + 1) |-> t[n]]
      OBVIOUS
    <2> HIDE DEF t
    <2>4. t = [n \in 1..(N + 1) |-> TakenAt(cands, budget, t, n)]
      BY <2>2, <2>3
    <2> QED BY <2>4
  <1>3. Made(taken)
    BY <1>2
  <1>4. Context!Select(cands, budget) = taken[1][budget]
    BY DEF Context!Select, TakenAt
  <1> HIDE DEF taken
  <1>5. TakesFrom(cands, budget, taken, 1)
    BY <1>3 DEF TakesFrom
  <1> QED BY <1>4, <1>5

\* The positions of the offers before the k-th one.
Ahead(cands, k) == {Context!Offers(cands)[j] : j \in 1..(k - 1)}

IsRecent(cands, i) == Context!RoundOf(cands[i]) = 2

\* What is taken from offer n on, with so many tokens left.
OnlyOffered(cands, n, left, set) ==
  /\ \A i \in set : \E k \in n..Len(cands) : i = Context!Offers(cands)[k]
  /\ \A i \in set : cands[i].eligible
  /\ Weight(cands, set) <= left

NoneForgotten(cands, n, left, set) ==
  \A k \in n..Len(cands) :
    LET i == Context!Offers(cands)[k] IN
    cands[i].eligible /\ i \notin set =>
      \/ Weight(cands, set \cap Ahead(cands, k)) + cands[i].tokens > left
      \/ /\ IsRecent(cands, i)
         /\ \E j \in n..(k - 1) : /\ IsRecent(cands, Context!Offers(cands)[j])
                                  /\ Context!Offers(cands)[j] \notin set

NoGap(cands, n, set) ==
  \A j, k \in n..Len(cands) :
    (/\ j < k
     /\ IsRecent(cands, Context!Offers(cands)[j]) /\ IsRecent(cands, Context!Offers(cands)[k])
     /\ Context!Offers(cands)[k] \in set) => Context!Offers(cands)[j] \in set

Kept(cands, n, left, set) ==
  /\ OnlyOffered(cands, n, left, set)
  /\ NoneForgotten(cands, n, left, set)
  /\ NoGap(cands, n, set)

LEMMA WeightIsNat ==
  ASSUME NEW cands, Sound(cands), NEW set PROVE Weight(cands, set) \in Nat
  <1>1. \A i \in 1..Len(cands) : i \in set => i \in set
    OBVIOUS
  <1> QED BY <1>1, SoundIsCounted, WeightMono

LEMMA OffersAre ==
  ASSUME NEW cands, Sound(cands)
  PROVE  /\ Len(cands) \in Nat
         /\ \A k \in 1..Len(cands) : /\ Context!Offers(cands)[k] \in 1..Len(cands)
                                     /\ cands[Context!Offers(cands)[k]].tokens \in Nat
         /\ \A j, k \in 1..Len(cands) : Context!Offers(cands)[j] = Context!Offers(cands)[k] => j = k
  <1>1. /\ \A k \in 1..Len(cands) : Context!Offers(cands)[k] \in 1..Len(cands)
        /\ \A j, k \in 1..Len(cands) : Context!Offers(cands)[j] = Context!Offers(cands)[k] => j = k
    BY OffersAreListed
  <1>2. Len(cands) \in Nat /\ \A i \in 1..Len(cands) : cands[i].tokens \in Nat
    BY DEF Sound, SoundOne
  <1> QED BY <1>1, <1>2

LEMMA TokensAdd ==
  ASSUME NEW cands, Sound(cands), NEW p \in 1..Len(cands), NEW set, p \notin set
  PROVE  Weight(cands, {p} \cup set) = Weight(cands, set) + cands[p].tokens
  BY SoundIsCounted, WeightAdd

\* The offer fits and is taken.
LEMMA OneTaken ==
  ASSUME NEW cands, Sound(cands), NEW n \in 1..Len(cands), NEW left \in Nat,
         cands[Context!Offers(cands)[n]].eligible,
         cands[Context!Offers(cands)[n]].tokens <= left,
         NEW rest, Kept(cands, n + 1, left - cands[Context!Offers(cands)[n]].tokens, rest)
  PROVE  Kept(cands, n, left, {Context!Offers(cands)[n]} \cup rest)
  <1> DEFINE N == Len(cands)
             o(k) == Context!Offers(cands)[k]
             i == Context!Offers(cands)[n]
             t == cands[i].tokens
             set == {i} \cup rest
  <1>1. N \in Nat /\ i \in 1..N /\ t \in Nat /\ n \in 1..N
    BY OffersAre
  <1>2. \A k \in (n + 1)..N : k \in 1..N /\ k # n /\ o(k) # i
    BY <1>1, OffersAre
  <1>3. i \notin rest
    BY <1>2 DEF Kept, OnlyOffered
  <1>4. OnlyOffered(cands, n, left, set)
    <2>1. ASSUME NEW j \in set PROVE \E k \in n..N : j = o(k)
      <3>1. CASE j = i
        <4>1. n \in n..N
          BY <1>1
        <4> QED BY <3>1, <4>1
      <3>2. CASE j \in rest
        <4>1. PICK k \in (n + 1)..N : j = o(k)
          BY <3>2 DEF Kept, OnlyOffered
        <4>2. k \in n..N
          BY <1>1
        <4> QED BY <4>1, <4>2
      <3> QED BY <3>1, <3>2
    <2>2. \A j \in set : cands[j].eligible
      BY DEF Kept, OnlyOffered
    <2>3. Weight(cands, set) <= left
      <3>1. Weight(cands, set) = Weight(cands, rest) + t
        BY <1>1, <1>3, TokensAdd
      <3>2. Weight(cands, rest) <= left - t
        BY DEF Kept, OnlyOffered
      <3>3. Weight(cands, rest) \in Nat
        BY WeightIsNat
      <3> HIDE DEF t, set
      <3> QED BY <1>1, <3>1, <3>2, <3>3
    <2> QED BY <2>1, <2>2, <2>3 DEF OnlyOffered
  <1>5. NoneForgotten(cands, n, left, set)
    <2> SUFFICES ASSUME NEW k \in n..N, cands[o(k)].eligible, o(k) \notin set
                 PROVE  \/ Weight(cands, set \cap Ahead(cands, k)) + cands[o(k)].tokens > left
                        \/ /\ IsRecent(cands, o(k))
                           /\ \E j \in n..(k - 1) : IsRecent(cands, o(j)) /\ o(j) \notin set
      BY DEF NoneForgotten
    <2>1. k # n /\ k \in (n + 1)..N
      BY <1>1
    <2>2. \/ Weight(cands, rest \cap Ahead(cands, k)) + cands[o(k)].tokens > left - t
          \/ /\ IsRecent(cands, o(k))
             /\ \E j \in (n + 1)..(k - 1) : IsRecent(cands, o(j)) /\ o(j) \notin rest
      BY <2>1 DEF Kept, NoneForgotten
    <2>3. CASE Weight(cands, rest \cap Ahead(cands, k)) + cands[o(k)].tokens > left - t
      <3>1. n \in 1..(k - 1)
        BY <1>1, <2>1
      <3>2. set \cap Ahead(cands, k) = {i} \cup (rest \cap Ahead(cands, k))
        BY <3>1 DEF Ahead
      <3>3. Weight(cands, set \cap Ahead(cands, k))
              = Weight(cands, rest \cap Ahead(cands, k)) + t
        BY <1>1, <1>3, <3>2, TokensAdd
      <3>4. Weight(cands, rest \cap Ahead(cands, k)) \in Nat
        BY WeightIsNat
      <3>5. cands[o(k)].tokens \in Nat
        BY <1>2, <2>1, OffersAre
      <3> DEFINE w == Weight(cands, rest \cap Ahead(cands, k))
                 v == Weight(cands, set \cap Ahead(cands, k))
                 x == cands[o(k)].tokens
      <3>6. v + x > left
        <4>1. v = w + t /\ w \in Nat /\ x \in Nat /\ t \in Nat /\ w + x > left - t
          BY <1>1, <2>3, <3>3, <3>4, <3>5
        <4> HIDE DEF v, w, x, t
        <4> QED BY <4>1
      <3> QED BY <3>6
    <2>4. CASE /\ IsRecent(cands, o(k))
               /\ \E j \in (n + 1)..(k - 1) : IsRecent(cands, o(j)) /\ o(j) \notin rest
      <3>1. PICK j \in (n + 1)..(k - 1) : IsRecent(cands, o(j)) /\ o(j) \notin rest
        BY <2>4
      <3>2. j \in n..(k - 1) /\ j \in (n + 1)..N
        BY <1>1, <2>1
      <3>3. o(j) \notin set
        BY <1>2, <3>1, <3>2
      <3> QED BY <2>4, <3>1, <3>2, <3>3
    <2> QED BY <2>2, <2>3, <2>4
  <1>6. NoGap(cands, n, set)
    <2> SUFFICES ASSUME NEW j \in n..N, NEW k \in n..N, j < k,
                        IsRecent(cands, o(j)), IsRecent(cands, o(k)), o(k) \in set
                 PROVE  o(j) \in set
      BY DEF NoGap
    <2>1. CASE j = n
      BY <2>1
    <2>2. CASE j # n
      <3>1. j \in (n + 1)..N /\ k \in (n + 1)..N
        BY <1>1, <2>2
      <3>2. o(k) \in rest
        BY <1>2, <3>1
      <3> QED BY <3>1, <3>2 DEF Kept, NoGap
    <2> QED BY <2>1, <2>2
  <1> QED BY <1>4, <1>5, <1>6 DEF Kept

\* The offer is refused.
LEMMA OneRefused ==
  ASSUME NEW cands, Sound(cands), NEW n \in 1..Len(cands), NEW left \in Nat,
         ~(cands[Context!Offers(cands)[n]].eligible /\ cands[Context!Offers(cands)[n]].tokens <= left),
         NEW set, Kept(cands, Context!Resume(cands, Context!Offers(cands)[n], n), left, set)
  PROVE  Kept(cands, n, left, set)
  <1> DEFINE N == Len(cands)
             o(k) == Context!Offers(cands)[k]
             i == Context!Offers(cands)[n]
             m == Context!Resume(cands, i, n)
  <1>1. N \in Nat /\ i \in 1..N /\ cands[i].tokens \in Nat /\ n \in 1..N
    BY OffersAre
  <1>2. m \in (n + 1)..(N + 1)
    BY ResumesLater
  <1>3. \A k \in m..N : k \in n..N /\ k \in 1..N
    BY <1>1, <1>2
  <1>4. \/ ~IsRecent(cands, i) /\ m = n + 1
        \/ IsRecent(cands, i) /\ m = Context!Early(cands) + 1
    BY DEF Context!Resume, IsRecent
  <1>5. /\ Context!Early(cands) \in Nat
        /\ \A k \in 1..N : Context!RoundOf(cands[o(k)]) # 3 <=> k <= Context!Early(cands)
    BY EarlyOffers
  <1> HIDE DEF m
  <1>6. Kept(cands, m, left, set)
    BY DEF m
  <1>7. i \notin set
    <2>1. \A k \in m..N : o(k) # i
      BY <1>1, <1>2, <1>3, OffersAre
    <2> QED BY <1>6, <2>1 DEF Kept, OnlyOffered
  <1>8. OnlyOffered(cands, n, left, set)
    BY <1>3, <1>6 DEF Kept, OnlyOffered
  <1>9. NoneForgotten(cands, n, left, set)
    <2> SUFFICES ASSUME NEW k \in n..N, cands[o(k)].eligible, o(k) \notin set
                 PROVE  \/ Weight(cands, set \cap Ahead(cands, k)) + cands[o(k)].tokens > left
                        \/ /\ IsRecent(cands, o(k))
                           /\ \E j \in n..(k - 1) : IsRecent(cands, o(j)) /\ o(j) \notin set
      BY DEF NoneForgotten
    <2>1. CASE k = n
      <3>1. cands[i].tokens > left
        BY <1>1, <2>1
      <3>2. Weight(cands, set \cap Ahead(cands, k)) \in Nat
        BY WeightIsNat
      <3> HIDE DEF i
      <3>3. Weight(cands, set \cap Ahead(cands, k)) + cands[i].tokens > left
        BY <1>1, <3>1, <3>2
      <3> QED BY <2>1, <3>3 DEF i
    <2>2. CASE k # n /\ k < m
      <3>1. IsRecent(cands, i) /\ m = Context!Early(cands) + 1 /\ k \in 1..N /\ k <= Context!Early(cands)
        BY <1>1, <1>2, <1>4, <1>5, <2>2
      <3>2. Context!RoundOf(cands[o(k)]) # 3
        BY <1>5, <3>1
      <3>3. Context!OfferedBefore(cands, o(n), o(k))
        <4>1. n < k
          BY <1>1, <2>2
        <4> QED BY <1>1, <3>1, <4>1, OffersAreListed
      <3>4. Context!RoundOf(cands[o(k)]) \in {1, 2, 3}
        BY RoundIsNumber
      <3>5. IsRecent(cands, o(k))
        BY <3>1, <3>2, <3>3, <3>4 DEF IsRecent, Context!OfferedBefore
      <3>6. n \in n..(k - 1)
        BY <1>1, <2>2
      <3> QED BY <1>7, <3>1, <3>5, <3>6
    <2>3. CASE k >= m
      <3>1. k \in m..N
        BY <1>1, <1>2, <2>3
      <3>2. \A j \in m..(k - 1) : j \in n..(k - 1)
        BY <1>1, <1>2
      <3> QED BY <1>6, <3>1, <3>2 DEF Kept, NoneForgotten
    <2>4. (k # n /\ k < m) \/ k = n \/ k >= m
      BY <1>1, <1>2
    <2> QED BY <2>1, <2>2, <2>3, <2>4
  <1>10. NoGap(cands, n, set)
    <2> SUFFICES ASSUME NEW j \in n..N, NEW k \in n..N, j < k,
                        IsRecent(cands, o(j)), IsRecent(cands, o(k)), o(k) \in set
                 PROVE  o(j) \in set
      BY DEF NoGap
    <2>1. k \in m..N
      <3>1. PICK l \in m..N : o(k) = o(l)
        BY <1>6 DEF Kept, OnlyOffered
      <3>2. k \in 1..N
        BY <1>1
      <3>3. k = l
        BY <1>3, <3>1, <3>2, OffersAre
      <3> QED BY <3>3
    <2>2. CASE j >= m
      <3>1. j \in m..N
        BY <1>1, <1>2, <2>2
      <3> QED BY <1>6, <2>1, <3>1 DEF Kept, NoGap
    <2>3. CASE j < m
      <3>1. CASE IsRecent(cands, i) /\ m = Context!Early(cands) + 1
        <4>1. ~(k <= Context!Early(cands)) /\ k \in 1..N
          BY <1>1, <1>5, <2>1, <3>1
        <4>2. Context!RoundOf(cands[o(k)]) = 3
          BY <1>5, <4>1
        <4> QED BY <4>2 DEF IsRecent
      <3>2. CASE ~IsRecent(cands, i) /\ m = n + 1
        <4>1. j = n
          BY <1>1, <2>3, <3>2
        <4> QED BY <3>2, <4>1
      <3> QED BY <1>4, <3>1, <3>2
    <2>4. j < m \/ j >= m
      BY <1>1, <1>2
    <2> QED BY <2>2, <2>3, <2>4
  <1> QED BY <1>8, <1>9, <1>10 DEF Kept

LEMMA NothingLeft ==
  ASSUME NEW cands, Sound(cands), NEW left \in Nat
  PROVE  Kept(cands, Len(cands) + 1, left, {})
  <1>1. Weight(cands, {}) = 0
    BY SoundIsCounted, WeightOfNone
  <1>2. \A k \in (Len(cands) + 1)..Len(cands) : FALSE
    BY DEF Sound
  <1>3. OnlyOffered(cands, Len(cands) + 1, left, {})
    BY <1>1 DEF OnlyOffered
  <1>4. NoneForgotten(cands, Len(cands) + 1, left, {})
    BY <1>2 DEF NoneForgotten
  <1>5. NoGap(cands, Len(cands) + 1, {})
    BY DEF NoGap
  <1> QED BY <1>3, <1>4, <1>5 DEF Kept

LEMMA SelectKeeps ==
  ASSUME NEW cands, Sound(cands), NEW budget \in Nat
  PROVE  Kept(cands, 1, budget, Context!Select(cands, budget))
  <1> DEFINE N == Len(cands)
  <1>1. PICK taken : /\ TakesFrom(cands, budget, taken, 1)
                     /\ Context!Select(cands, budget) = taken[1][budget]
    BY SelectTakes
  <1> DEFINE Good(n) == \A left \in 0..budget : Kept(cands, n, left, taken[n][left])
             T == {d \in Nat : \A n \in 1..(N + 1) : n >= N + 1 - d => Good(n)}
  <1>2. N \in Nat
    BY DEF Sound
  <1>3. ASSUME NEW n \in 1..N, \A m \in (n + 1)..(N + 1) : Good(m)
        PROVE  Good(n)
    <2> SUFFICES ASSUME NEW left \in 0..budget PROVE Kept(cands, n, left, taken[n][left])
      OBVIOUS
    <2> DEFINE i == Context!Offers(cands)[n]
               t == cands[i].tokens
    <2>1. t \in Nat /\ left \in Nat /\ n + 1 \in (n + 1)..(N + 1)
      BY <1>2, OffersAre
    <2>2. taken[n] = TakenAt(cands, budget, taken, n)
      BY <1>1, <1>2 DEF TakesFrom
    <2>3. taken[n][left] =
            IF cands[i].eligible /\ t <= left
            THEN {i} \cup taken[n + 1][left - t]
            ELSE taken[Context!Resume(cands, i, n)][left]
      <3>1. taken[n] = [l \in 0..budget |-> TakenInTurn(cands, l, taken, n)]
        BY <2>2, TakenIs
      <3> QED BY <3>1 DEF TakenInTurn
    <2>4. CASE cands[i].eligible /\ t <= left
      <3>1. left - t \in 0..budget
        <4>1. left \in Nat /\ left <= budget /\ t \in Nat /\ t <= left
          BY <2>1, <2>4
        <4> HIDE DEF t
        <4> QED BY <4>1
      <3>2. Kept(cands, n + 1, left - t, taken[n + 1][left - t])
        BY <1>3, <2>1, <3>1
      <3> DEFINE rest == taken[n + 1][left - t]
      <3>3. taken[n][left] = {i} \cup rest
        BY <2>3, <2>4
      <3> HIDE DEF rest
      <3>4. Kept(cands, n + 1, left - t, rest)
        BY <3>2 DEF rest
      <3>5. Kept(cands, n, left, {i} \cup rest)
        BY <2>1, <2>4, <3>4, OneTaken
      <3> QED BY <3>3, <3>5
    <2>5. CASE ~(cands[i].eligible /\ t <= left)
      <3>1. Kept(cands, Context!Resume(cands, i, n), left, taken[Context!Resume(cands, i, n)][left])
        BY <1>3, ResumesLater
      <3>2. taken[n][left] = taken[Context!Resume(cands, i, n)][left]
        BY <2>3, <2>5
      <3> QED BY <2>1, <2>5, <3>1, <3>2, OneRefused
    <2> QED BY <2>4, <2>5
  <1>4. Good(N + 1)
    <2>1. taken[N + 1] = TakenAt(cands, budget, taken, N + 1)
      BY <1>1, <1>2 DEF TakesFrom
    <2>2. N + 1 > N
      BY <1>2
    <2>3. \A left \in 0..budget : taken[N + 1][left] = {}
      BY <2>1, <2>2 DEF TakenAt
    <2>4. \A left \in 0..budget : left \in Nat
      OBVIOUS
    <2> QED BY <2>3, <2>4, NothingLeft
  <1> HIDE DEF Good
  <1>5. 0 \in T
    <2>1. \A n \in 1..(N + 1) : n >= N + 1 - 0 => n = N + 1
      BY <1>2
    <2> QED BY <1>4, <2>1
  <1>6. ASSUME NEW d \in T PROVE d + 1 \in T
    <2>1. d \in Nat /\ d + 1 \in Nat
      OBVIOUS
    <2> SUFFICES ASSUME NEW n \in 1..(N + 1), n >= N + 1 - (d + 1) PROVE Good(n)
      BY <2>1
    <2>2. CASE n >= N + 1 - d
      BY <2>2
    <2>3. CASE ~(n >= N + 1 - d)
      <3>1. n \in 1..N /\ \A m \in (n + 1)..(N + 1) : m \in 1..(N + 1) /\ m >= N + 1 - d
        BY <1>2, <2>1, <2>3
      <3> QED BY <1>3, <3>1
    <2> QED BY <2>2, <2>3
  <1>7. T = Nat
    <2>1. T \in SUBSET Nat
      OBVIOUS
    <2> HIDE DEF T
    <2> QED BY <1>5, <1>6, <2>1, Induct
  <1>8. Good(1)
    <2>1. N \in T /\ 1 \in 1..(N + 1) /\ 1 >= N + 1 - N
      BY <1>2, <1>7
    <2> QED BY <2>1
  <1>9. budget \in 0..budget
    OBVIOUS
  <1> QED BY <1>1, <1>8, <1>9 DEF Good

-----------------------------------------------------------------------------
(* Placement.                                                              *)

PlaceOrder(cands, set) == {p \in set \X set : Context!PlacedBefore(cands, p[1], p[2])}

LEMMA ZonesHaveRanks ==
  ASSUME NEW one \in Context!Zones, NEW two \in Context!Zones
  PROVE  /\ Context!ZoneOrder(one) \in Nat
         /\ Context!ZoneOrder(one) = Context!ZoneOrder(two) => one = two
  BY DEF Context!Zones, Context!ZoneOrder

LEMMA PlacesAreOrdered ==
  ASSUME NEW cands, Sound(cands), NEW set \in SUBSET (1..Len(cands))
  PROVE  StrictOrder(set, PlaceOrder(cands, set))
  <1> DEFINE R == PlaceOrder(cands, set)
             z(i) == Context!ZoneOrder(cands[i].zone)
             b(i) == cands[i].source = "core_book"
             p(i) == cands[i].placement
             m(i) == cands[i].name
             P(i, j) == \/ z(i) < z(j)
                        \/ /\ z(i) = z(j)
                           /\ \/ /\ b(i)
                                 /\ \/ p(i) > p(j)
                                    \/ p(i) = p(j) /\ m(i) < m(j)
                              \/ ~b(i) /\ i < j
  <1>1. \A i \in set : /\ i \in Int /\ z(i) \in Int /\ p(i) \in Int
                       /\ b(i) => m(i) \in Int
    <2> TAKE i \in set
    <2>1. i \in 1..Len(cands) /\ SoundOne(cands, i)
      BY DEF Sound
    <2>2. z(i) \in Nat
      BY <2>1, ZonesHaveRanks DEF SoundOne
    <2> QED BY <2>1, <2>2 DEF SoundOne
  <1>2. \A i, j \in set : /\ z(i) = z(j) <=> cands[i].zone = cands[j].zone
                          /\ z(i) = z(j) => (b(i) <=> b(j))
                          /\ b(i) /\ b(j) /\ m(i) = m(j) => i = j
    <2> TAKE i, j \in set
    <2>1. SoundOne(cands, i) /\ SoundOne(cands, j)
      BY DEF Sound
    <2>2. z(i) = z(j) => cands[i].zone = cands[j].zone
      BY <2>1, ZonesHaveRanks DEF SoundOne
    <2>3. cands[i].zone = cands[j].zone => (b(i) <=> b(j))
      BY <2>1 DEF SoundOne
    <2>4. b(i) /\ b(j) /\ m(i) = m(j) => i = j
      BY DEF Sound
    <2> QED BY <2>2, <2>3, <2>4
  <1>3. \A i, j \in set : <<i, j>> \in R <=> P(i, j)
    <2> SUFFICES ASSUME NEW i \in set, NEW j \in set
                 PROVE  Context!PlacedBefore(cands, i, j) <=> P(i, j)
      BY DEF PlaceOrder
    <2>1. z(i) = z(j) <=> cands[i].zone = cands[j].zone
      BY <1>2
    <2> QED BY <2>1 DEF Context!PlacedBefore
  <1> HIDE DEF z, b, p, m, R
  <1>4. \A i \in set : ~P(i, i)
    BY <1>1
  <1>5. \A i, j \in set : i = j \/ P(i, j) \/ P(j, i)
    <2> TAKE i, j \in set
    <2>1. i \in Int /\ j \in Int /\ z(i) \in Int /\ z(j) \in Int /\ p(i) \in Int /\ p(j) \in Int
      BY <1>1
    <2>2. CASE z(i) # z(j)
      BY <2>1, <2>2
    <2>3. CASE z(i) = z(j) /\ b(i)
      <3>1. b(j) /\ m(i) \in Int /\ m(j) \in Int /\ (m(i) = m(j) => i = j)
        BY <1>1, <1>2, <2>3
      <3> QED BY <2>1, <2>3, <3>1
    <2>4. CASE z(i) = z(j) /\ ~b(i)
      <3>1. ~b(j)
        BY <1>2, <2>4
      <3> QED BY <2>1, <2>4, <3>1
    <2> QED BY <2>2, <2>3, <2>4
  <1>6. \A i, j, k \in set : P(i, j) /\ P(j, k) => P(i, k)
    <2> TAKE i, j, k \in set
    <2> SUFFICES ASSUME P(i, j), P(j, k) PROVE P(i, k)
      OBVIOUS
    <2>1. /\ i \in Int /\ j \in Int /\ k \in Int
          /\ z(i) \in Int /\ z(j) \in Int /\ z(k) \in Int
          /\ p(i) \in Int /\ p(j) \in Int /\ p(k) \in Int
      BY <1>1
    <2>2. CASE z(i) # z(j) \/ z(j) # z(k)
      BY <2>1, <2>2
    <2>3. CASE z(i) = z(j) /\ z(j) = z(k) /\ b(i)
      <3>1. b(j) /\ b(k) /\ m(i) \in Int /\ m(j) \in Int /\ m(k) \in Int
        BY <1>1, <1>2, <2>3
      <3> QED BY <2>1, <2>3, <3>1
    <2>4. CASE z(i) = z(j) /\ z(j) = z(k) /\ ~b(i)
      <3>1. ~b(j)
        BY <1>2, <2>4
      <3> QED BY <2>1, <2>4, <3>1
    <2> QED BY <2>2, <2>3, <2>4
  <1> HIDE DEF P
  <1>7. \A i \in set : <<i, i>> \notin R
    BY <1>3, <1>4
  <1>8. \A i, j \in set : i = j \/ <<i, j>> \in R \/ <<j, i>> \in R
    BY <1>3, <1>5
  <1>9. \A i, j, k \in set : <<i, j>> \in R /\ <<j, k>> \in R => <<i, k>> \in R
    BY <1>3, <1>6
  <1> QED BY <1>7, <1>8, <1>9 DEF StrictOrder, R

\* The members of the set, each once, in the order of their places.
InPlaces(cands, set, n, list) ==
  /\ \A k \in 1..n : list[k] \in set
  /\ \A j, k \in 1..n : list[j] = list[k] => j = k
  /\ \A j, k \in 1..n : Context!PlacedBefore(cands, list[j], list[k]) <=> j < k
  /\ set = {list[k] : k \in 1..n}

LEMMA PlaceLists ==
  ASSUME NEW cands, Sound(cands), NEW set \in SUBSET (1..Len(cands))
  PROVE  \E n, list :
           /\ n \in Nat
           /\ Context!Place(cands, set) = [k \in 1..n |-> cands[list[k]]]
           /\ InPlaces(cands, set, n, list)
  <1> DEFINE n == Cardinality(set)
             R == PlaceOrder(cands, set)
             list == Context!Ranked(set, LAMBDA i, j : Context!PlacedBefore(cands, i, j))
  <1>1. n \in Nat /\ IsFiniteSet(set)
    <2>1. IsFiniteSet(1..Len(cands))
      BY FS_Interval DEF Sound
    <2> QED BY <2>1, FS_Subset, FS_CardinalityType
  <1>2. StrictOrder(set, R)
    BY PlacesAreOrdered
  <1>3. \A i, j \in set : <<i, j>> \in R <=> Context!PlacedBefore(cands, i, j)
    BY DEF PlaceOrder
  <1>4. \A l \in 0..(n - 1) : \E i \in set : Cardinality(Below(set, R, i)) = l
    <2> HIDE DEF R
    <2> QED BY <1>1, <1>2, RankCounts
  <1>5. \A i \in set : {j \in set : Context!PlacedBefore(cands, j, i)} = Below(set, R, i)
    BY <1>3 DEF Below
  <1>6. list = [k \in 1..n |-> CHOOSE i \in set :
                   Cardinality({j \in set : Context!PlacedBefore(cands, j, i)}) = k - 1]
    BY DEF Context!Ranked, Cardinality, Context!Cardinality
  <1>7. ASSUME NEW k \in 1..n
        PROVE  list[k] \in set /\ Cardinality(Below(set, R, list[k])) = k - 1
    <2> DEFINE Has(i) == Cardinality({j \in set : Context!PlacedBefore(cands, j, i)}) = k - 1
    <2>1. \E i \in set : Has(i)
      <3>1. k - 1 \in 0..(n - 1)
        BY <1>1
      <3> HIDE DEF n, R
      <3> QED BY <1>4, <1>5, <3>1
    <2>2. list[k] = CHOOSE i \in set : Has(i)
      BY <1>6
    <2> HIDE DEF Has
    <2>3. list[k] \in set /\ Has(list[k])
      BY <2>1, <2>2
    <2> QED BY <1>5, <2>3 DEF Has
  <1>8. Context!Place(cands, set) = [k \in 1..n |-> cands[list[k]]]
    <2>1. Len(list) = n
      <3> HIDE DEF n, list
      <3> QED BY <1>1, <1>6
    <2> QED BY <2>1 DEF Context!Place, Context!Indexes
  <1> HIDE DEF list, R
  <1>9. /\ \A j, k \in 1..n : list[j] = list[k] => j = k
        /\ \A j, k \in 1..n : <<list[j], list[k]>> \in R <=> j < k
        /\ set = {list[k] : k \in 1..n}
    <2>1. \A k \in 1..Cardinality(set) :
            list[k] \in set /\ Cardinality(Below(set, R, list[k])) = k - 1
      BY <1>7
    <2>2. /\ \A j, k \in 1..Cardinality(set) : list[j] = list[k] => j = k
          /\ \A j, k \in 1..Cardinality(set) : <<list[j], list[k]>> \in R <=> j < k
          /\ set = {list[k] : k \in 1..Cardinality(set)}
      BY <1>1, <1>2, <2>1, ListedByRank
    <2> QED BY <2>2
  <1> HIDE DEF n
  <1>10. \A j, k \in 1..n : Context!PlacedBefore(cands, list[j], list[k]) <=> j < k
    BY <1>3, <1>7, <1>9
  <1>11. InPlaces(cands, set, n, list)
    BY <1>7, <1>9, <1>10 DEF InPlaces
  <1> QED BY <1>1, <1>8, <1>11

-----------------------------------------------------------------------------
(* What is built.                                                          *)

\* Each offer is taken, or does not fit beside what was offered before it, or
\* is a recent message older than one that was not taken.
FitsNotBeside(cands, budget, set) ==
  \A i \in 1..Len(cands) : cands[i].eligible /\ i \notin set =>
    \/ Weight(cands, set \cap {j \in 1..Len(cands) : Context!OfferedBefore(cands, j, i)})
         + cands[i].tokens > budget
    \/ /\ cands[i].zone = "recent_conversation"
       /\ \E j \in 1..Len(cands) :
            cands[j].zone = "recent_conversation" /\ j > i /\ j \notin set

NewestFirst(cands, set) ==
  \A i, j \in 1..Len(cands) :
    (/\ cands[i].zone = "recent_conversation"
     /\ cands[j].zone = "recent_conversation"
     /\ i \in set /\ j > i) => j \in set

LEMMA Selected ==
  ASSUME NEW cands, Sound(cands), NEW budget \in Nat,
         NEW set, set = Context!Select(cands, budget)
  PROVE  /\ set \subseteq 1..Len(cands)
         /\ \A i \in set : cands[i].eligible
         /\ Weight(cands, set) <= budget
         /\ FitsNotBeside(cands, budget, set)
         /\ NewestFirst(cands, set)
  <1> DEFINE N == Len(cands)
             o(k) == Context!Offers(cands)[k]
  <1>1. Kept(cands, 1, budget, set)
    BY SelectKeeps
  <1>2. /\ N \in Nat
        /\ \A k \in 1..N : o(k) \in 1..N
        /\ \A j, k \in 1..N : Context!OfferedBefore(cands, o(j), o(k)) <=> j < k
        /\ \A i \in 1..N : \E k \in 1..N : i = o(k)
    <2>1. N \in Nat /\ \A k \in 1..N : o(k) \in 1..N
      BY OffersAre
    <2>2. \A j, k \in 1..N : Context!OfferedBefore(cands, o(j), o(k)) <=> j < k
      BY OffersAreListed
    <2>3. 1..N = {o(k) : k \in 1..N}
      BY OffersAreListed
    <2>4. \A i \in 1..N : \E k \in 1..N : i = o(k)
      BY <2>3
    <2> QED BY <2>1, <2>2, <2>4
  <1>3. ASSUME NEW i PROVE IsRecent(cands, i) <=> cands[i].zone = "recent_conversation"
    BY DEF IsRecent, Context!RoundOf
  <1>4. set \subseteq 1..N
    BY <1>1, <1>2 DEF Kept, OnlyOffered
  <1>5. (\A i \in set : cands[i].eligible) /\ Weight(cands, set) <= budget
    BY <1>1 DEF Kept, OnlyOffered
  <1>6. ASSUME NEW i \in 1..N, NEW j \in 1..N, IsRecent(cands, i), IsRecent(cands, j)
        PROVE  Context!OfferedBefore(cands, i, j) <=> i > j
    BY <1>6 DEF Context!OfferedBefore, IsRecent
  <1>7. ASSUME NEW i \in 1..N, cands[i].eligible, i \notin set
        PROVE  \/ Weight(cands, set \cap {j \in 1..N : Context!OfferedBefore(cands, j, i)})
                    + cands[i].tokens > budget
               \/ /\ cands[i].zone = "recent_conversation"
                  /\ \E j \in 1..N :
                       cands[j].zone = "recent_conversation" /\ j > i /\ j \notin set
    <2>1. PICK k \in 1..N : i = o(k)
      BY <1>2
    <2>2. \/ Weight(cands, set \cap Ahead(cands, k)) + cands[i].tokens > budget
          \/ /\ IsRecent(cands, i)
             /\ \E j \in 1..(k - 1) : IsRecent(cands, o(j)) /\ o(j) \notin set
      <3>1. NoneForgotten(cands, 1, budget, set)
        BY <1>1 DEF Kept
      <3> QED BY <1>7, <2>1, <3>1 DEF NoneForgotten
    <2>3. CASE Weight(cands, set \cap Ahead(cands, k)) + cands[i].tokens > budget
      <3>1. Ahead(cands, k) = {j \in 1..N : Context!OfferedBefore(cands, j, i)}
        <4>1. \A j \in 1..(k - 1) : j \in 1..N /\ j < k
          BY <1>2
        <4>2. \A j \in 1..N : j < k => j \in 1..(k - 1)
          BY <1>2
        <4>3. Ahead(cands, k) \subseteq {j \in 1..N : Context!OfferedBefore(cands, j, i)}
          <5> SUFFICES ASSUME NEW j \in 1..(k - 1)
                       PROVE  o(j) \in 1..N /\ Context!OfferedBefore(cands, o(j), i)
            BY DEF Ahead
          <5> QED BY <1>2, <2>1, <4>1
        <4>4. ASSUME NEW j \in 1..N, Context!OfferedBefore(cands, j, i)
              PROVE  j \in Ahead(cands, k)
          <5>1. PICK l \in 1..N : j = o(l)
            BY <1>2
          <5>2. l < k
            BY <1>2, <2>1, <4>4, <5>1
          <5> QED BY <4>2, <5>1, <5>2 DEF Ahead
        <4> QED BY <4>3, <4>4
      <3> QED BY <2>3, <3>1
    <2>4. CASE /\ IsRecent(cands, i)
               /\ \E j \in 1..(k - 1) : IsRecent(cands, o(j)) /\ o(j) \notin set
      <3>1. PICK j \in 1..(k - 1) : IsRecent(cands, o(j)) /\ o(j) \notin set
        BY <2>4
      <3>2. j \in 1..N /\ j < k
        BY <1>2
      <3>3. Context!OfferedBefore(cands, o(j), i) /\ o(j) \in 1..N
        BY <1>2, <2>1, <3>2
      <3>4. o(j) > i
        BY <1>6, <2>4, <3>1, <3>3
      <3> QED BY <1>3, <2>4, <3>1, <3>3, <3>4
    <2> QED BY <2>2, <2>3, <2>4
  <1>8. ASSUME NEW i \in 1..N, NEW j \in 1..N,
               cands[i].zone = "recent_conversation",
               cands[j].zone = "recent_conversation", i \in set, j > i
        PROVE  j \in set
    <2>1. IsRecent(cands, i) /\ IsRecent(cands, j)
      BY <1>3, <1>8
    <2>2. PICK k \in 1..N : i = o(k)
      BY <1>2
    <2>3. PICK l \in 1..N : j = o(l)
      BY <1>2
    <2>4. l < k
      BY <1>2, <1>6, <1>8, <2>1, <2>2, <2>3
    <2>5. NoGap(cands, 1, set)
      BY <1>1 DEF Kept
    <2> QED BY <1>8, <2>1, <2>2, <2>3, <2>4, <2>5 DEF NoGap
  <1> QED BY <1>4, <1>5, <1>7, <1>8 DEF FitsNotBeside, NewestFirst

\* Each message is a member of the set, and they are in their places.
IsListed(cands, set, messages, list) ==
  /\ \A k \in 1..Len(messages) : list[k] \in set /\ messages[k] = cands[list[k]]
  /\ \A j, k \in 1..Len(messages) : list[j] = list[k] => j = k
  /\ \A j, k \in 1..Len(messages) : j < k => Context!PlacedBefore(cands, list[j], list[k])
  /\ \A i \in set : \E k \in 1..Len(messages) : i = list[k]

\* The messages are the chosen candidates.
LEMMA Placed ==
  ASSUME NEW cands, Sound(cands), NEW set \in SUBSET (1..Len(cands)),
         NEW messages, messages = Context!Place(cands, set)
  PROVE  /\ \A zones : Context!Size(messages, zones) = Weight(cands, set \cap InZone(cands, zones))
         /\ Context!ToSet(messages) = {cands[i] : i \in set}
         /\ \A i \in 1..Len(cands) : cands[i] \in Context!ToSet(messages) <=> i \in set
         /\ Len(messages) \in Nat
         /\ \E list : IsListed(cands, set, messages, list)
  <1>1. PICK n, list :
          /\ n \in Nat
          /\ messages = [k \in 1..n |-> cands[list[k]]]
          /\ InPlaces(cands, set, n, list)
    BY PlaceLists
  <1>2. /\ \A k \in 1..n : list[k] \in set
        /\ \A j, k \in 1..n : list[j] = list[k] => j = k
        /\ \A j, k \in 1..n : Context!PlacedBefore(cands, list[j], list[k]) <=> j < k
        /\ set = {list[k] : k \in 1..n}
        /\ n \in Nat
    BY <1>1 DEF InPlaces
  <1>3. /\ Len(messages) = n /\ DOMAIN messages = 1..n
        /\ \A k \in 1..n : messages[k] = cands[list[k]]
    BY <1>1, <1>2
  <1>4. ASSUME NEW zones
        PROVE  Context!Size(messages, zones) = Weight(cands, set \cap InZone(cands, zones))
    <2>1. Counted(cands) /\ Draws(cands, n, list)
      BY <1>2, SoundIsCounted DEF Draws
    <2>2. Context!Size([k \in 1..n |-> cands[list[k]]], zones)
            = Weight(cands, {list[k] : k \in 1..n} \cap InZone(cands, zones))
      BY <1>2, <2>1, SizeOfPlaced
    <2> QED BY <1>1, <1>2, <2>2
  <1>5. Context!ToSet(messages) = {cands[i] : i \in set}
    <2>1. Context!ToSet(messages) = {messages[k] : k \in 1..n}
      BY <1>3 DEF Context!ToSet
    <2>2. \A k \in 1..n : list[k] \in set
      BY <1>2
    <2>3. \A i \in set : \E k \in 1..n : i = list[k]
      BY <1>2
    <2>4. ASSUME NEW k \in 1..n PROVE messages[k] \in {cands[i] : i \in set}
      <3>1. messages[k] = cands[list[k]] /\ list[k] \in set
        BY <1>3, <2>2
      <3> QED BY <3>1
    <2>5. ASSUME NEW i \in set PROVE cands[i] \in {messages[k] : k \in 1..n}
      <3>1. PICK k \in 1..n : i = list[k]
        BY <2>3
      <3>2. messages[k] = cands[i]
        BY <1>3, <3>1
      <3> QED BY <3>2
    <2> QED BY <2>1, <2>4, <2>5
  <1>6. \A i \in 1..Len(cands) : cands[i] \in Context!ToSet(messages) <=> i \in set
    BY <1>5 DEF Sound
  <1>7. \A i \in set : \E k \in 1..n : i = list[k]
    BY <1>2
  <1>8. IsListed(cands, set, messages, list)
    BY <1>2, <1>3, <1>7 DEF IsListed
  <1> QED BY <1>3, <1>4, <1>5, <1>6, <1>8

-----------------------------------------------------------------------------
(* The properties of what is built.                                        *)

\* The candidates are those of the three sources.
FromSources ==
  /\ Sound(Context!Candidates)
  /\ DOMAIN Context!Candidates = 1..Len(Context!Candidates)
  /\ Len(world.request) \in Nat /\ Len(world.request) <= Len(Context!Candidates)
  /\ \A i \in 1..Len(world.request) :
       Context!Candidates[i] = Context!MessageCandidates(world.request)[i]
  /\ \A i \in 1..Len(Context!Candidates) :
       /\ Context!Candidates[i].source = "conversation" => i <= Len(world.request)
       /\ Context!Candidates[i].source = "core_book" /\ Context!Candidates[i].eligible =>
            Context!Candidates[i].name \in on
       /\ Context!Candidates[i].source = "memory" => Context!Candidates[i].name \in Context!ToSet(recalled)

AsBuilt ==
  /\ FromSources
  /\ world.budget \in Nat
  /\ context = Context!Place(Context!Candidates, Context!Select(Context!Candidates, world.budget))

LEMMA ScoresDecide ==
  ASSUME NEW cands, Sound(cands), NEW i \in 1..Len(cands), NEW j \in 1..Len(cands),
         cands[i].zone = "character_core", Context!OfferedBefore(cands, j, i)
  PROVE  cands[j].zone \notin {"retrieved_memory", "conversation"}
  <1> SUFFICES ASSUME cands[j].zone \in {"retrieved_memory", "conversation"} PROVE FALSE
    OBVIOUS
  <1>1. Context!RoundOf(cands[i]) = 3 /\ Context!RoundOf(cands[j]) = 3
    BY DEF Context!RoundOf
  <1>2. Context!Preferred(cands, j, i)
    BY <1>1 DEF Context!OfferedBefore
  <1>3. cands[j].score >= cands[i].score
    BY <1>2 DEF Context!Preferred, Sound, SoundOne
  <1>4. /\ cands[i].score >= 150 /\ cands[j].score <= 140
        /\ cands[i].score \in Int /\ cands[j].score \in Int
    BY DEF Sound, SoundOne
  <1> QED BY <1>3, <1>4

LEMMA BuiltFollowsRules ==
  ASSUME AsBuilt PROVE Context!SelectionFollowsRules
  <1> DEFINE cands == Context!Candidates
             N == Len(Context!Candidates)
             set == Context!Select(Context!Candidates, world.budget)
             size(zones) == Weight(cands, set \cap InZone(cands, zones))
  <1>1. Sound(cands) /\ world.budget \in Nat /\ DOMAIN cands = 1..N
    BY DEF AsBuilt, FromSources
  <1>2. /\ set \subseteq 1..N
        /\ Weight(cands, set) <= world.budget
        /\ \A i \in 1..N : cands[i].eligible /\ i \notin set =>
             \/ Weight(cands, set \cap {j \in 1..N : Context!OfferedBefore(cands, j, i)})
                  + cands[i].tokens > world.budget
             \/ /\ cands[i].zone = "recent_conversation"
                /\ \E j \in 1..N :
                     cands[j].zone = "recent_conversation" /\ j > i /\ j \notin set
        /\ \A i, j \in 1..N :
             (/\ cands[i].zone = "recent_conversation"
              /\ cands[j].zone = "recent_conversation"
              /\ i \in set /\ j > i) => j \in set
    <2> HIDE DEF cands, N
    <2>1. set = Context!Select(cands, world.budget)
      BY DEF cands
    <2> HIDE DEF set
    <2>2. N = Len(cands)
      BY DEF N, cands
    <2>3. /\ set \subseteq 1..Len(cands)
          /\ Weight(cands, set) <= world.budget
          /\ FitsNotBeside(cands, world.budget, set)
          /\ NewestFirst(cands, set)
      BY <1>1, <2>1, Selected
    <2> QED BY <2>2, <2>3 DEF FitsNotBeside, NewestFirst
  <1>3. /\ \A zones : Context!Size(context, zones) = size(zones)
        /\ Context!Chosen = {cands[i] : i \in set}
        /\ \A i \in 1..N : cands[i] \in Context!Chosen <=> i \in set
    <2>1. context = Context!Place(cands, set)
      BY DEF AsBuilt
    <2> HIDE DEF cands, set
    <2>2. N = Len(cands)
      BY DEF N, cands
    <2> HIDE DEF N
    <2>3. set \in SUBSET (1..Len(cands))
      BY <1>2, <2>2
    <2>4. Sound(cands)
      BY <1>1
    <2>5. \A zones : Context!Size(context, zones) = Weight(cands, set \cap InZone(cands, zones))
      BY <2>1, <2>3, <2>4, Placed
    <2>6. Context!ToSet(context) = {cands[i] : i \in set}
      BY <2>1, <2>3, <2>4, Placed
    <2>7. \A i \in 1..Len(cands) : cands[i] \in Context!ToSet(context) <=> i \in set
      BY <2>1, <2>3, <2>4, Placed
    <2> QED BY <2>2, <2>5, <2>6, <2>7 DEF Context!Chosen
  <1> HIDE DEF set
  <1>4. Context!Omitted = {cands[i] : i \in {j \in 1..N : cands[j].eligible /\ j \notin set}}
    BY <1>1, <1>3 DEF Context!Omitted, Context!ToSet
  <1> HIDE DEF cands, N
  <1>5. \A i \in 1..N : /\ SoundOne(cands, i) /\ i \in Int
                        /\ cands[i].zone \in {"recent_conversation", "conversation"} =>
                             cands[i].name = i /\ cands[i].eligible
    BY <1>1 DEF Sound, SoundOne, N, cands
  <1>6. size(Context!Zones) = Weight(cands, set)
    <2>1. set \cap InZone(cands, Context!Zones) = set
      BY <1>2, <1>5 DEF InZone, SoundOne, N, cands
    <2> QED BY <2>1
  <1>7. ASSUME NEW i \in 1..N, NEW zones,
               \A j \in set : Context!OfferedBefore(cands, j, i) => cands[j].zone \in zones,
               Weight(cands, set \cap {j \in 1..N : Context!OfferedBefore(cands, j, i)})
                 + cands[i].tokens > world.budget
        PROVE  size(zones) + cands[i].tokens > world.budget
    <2> DEFINE before == set \cap {j \in 1..N : Context!OfferedBefore(cands, j, i)}
               all == set \cap InZone(cands, zones)
    <2>1. \A j \in 1..Len(cands) : j \in before => j \in all
      BY <1>7 DEF InZone, N, cands
    <2>2. Counted(cands)
      BY <1>1, SoundIsCounted
    <2> HIDE DEF before, all
    <2>3. Weight(cands, before) <= Weight(cands, all)
          /\ Weight(cands, before) \in Nat /\ Weight(cands, all) \in Nat
      BY <2>1, <2>2, WeightMono
    <2>4. Weight(cands, before) + cands[i].tokens > world.budget
      BY <1>7 DEF before
    <2>5. cands[i].tokens \in Nat
      BY <1>5 DEF SoundOne
    <2>6. Weight(cands, all) + cands[i].tokens > world.budget
      BY <1>1, <2>3, <2>4, <2>5
    <2> QED BY <2>6 DEF all
  <1>8. Context!Size(context, Context!Zones) <= world.budget
    BY <1>2, <1>3, <1>6
  <1>9. ASSUME NEW c \in Context!Omitted
        PROVE  \/ Context!Size(context, Context!Zones) + c.tokens > world.budget
               \/ /\ c.zone = "recent_conversation"
                  /\ \E d \in Context!Omitted : d.zone = c.zone /\ d.name > c.name
    <2>1. PICK i \in 1..N : c = cands[i] /\ cands[i].eligible /\ i \notin set
      BY <1>4
    <2>2. CASE Weight(cands, set \cap {j \in 1..N : Context!OfferedBefore(cands, j, i)})
                 + cands[i].tokens > world.budget
      <3>1. \A j \in set : cands[j].zone \in Context!Zones
        BY <1>2, <1>5 DEF SoundOne
      <3>2. size(Context!Zones) + cands[i].tokens > world.budget
        BY <1>7, <2>2, <3>1
      <3> QED BY <1>3, <2>1, <3>2
    <2>3. CASE /\ cands[i].zone = "recent_conversation"
               /\ \E j \in 1..N :
                    cands[j].zone = "recent_conversation" /\ j > i /\ j \notin set
      <3>1. PICK j \in 1..N :
              cands[j].zone = "recent_conversation" /\ j > i /\ j \notin set
        BY <2>3
      <3>2. cands[j] \in Context!Omitted /\ cands[j].name = j /\ cands[i].name = i
        BY <1>4, <1>5, <2>3, <3>1
      <3> QED BY <2>1, <2>3, <3>1, <3>2
    <2> QED BY <1>2, <2>1, <2>2, <2>3
  <1>10. ASSUME NEW c \in Context!Chosen, NEW d \in Context!Omitted,
                c.zone = "recent_conversation", d.zone = c.zone
         PROVE  c.name > d.name
    <2>1. PICK i \in set : c = cands[i]
      BY <1>3
    <2>2. PICK j \in 1..N : d = cands[j] /\ j \notin set
      BY <1>4
    <2>3. i \in 1..N
      BY <1>2
    <2>4. ~(j > i)
      BY <1>2, <1>10, <2>1, <2>2, <2>3
    <2>5. c.name = i /\ d.name = j /\ i \in Int /\ j \in Int /\ i # j
      BY <1>5, <1>10, <2>1, <2>2, <2>3
    <2> QED BY <2>4, <2>5
  <1>11. ASSUME NEW c \in Context!Omitted, c.zone = "character_core"
         PROVE  Context!Size(context, Context!Zones \ {"retrieved_memory", "conversation"})
                  + c.tokens > world.budget
    <2>1. PICK i \in 1..N : c = cands[i] /\ cands[i].eligible /\ i \notin set
      BY <1>4
    <2>2. Weight(cands, set \cap {j \in 1..N : Context!OfferedBefore(cands, j, i)})
            + cands[i].tokens > world.budget
      BY <1>2, <1>11, <2>1
    <2> DEFINE rest == Context!Zones \ {"retrieved_memory", "conversation"}
    <2>3. \A j \in set : Context!OfferedBefore(cands, j, i) => cands[j].zone \in rest
      <3> SUFFICES ASSUME NEW j \in set, Context!OfferedBefore(cands, j, i)
                   PROVE  cands[j].zone \in rest
        OBVIOUS
      <3>1. j \in 1..N /\ cands[j].zone \in Context!Zones
        BY <1>2, <1>5 DEF SoundOne
      <3>2. cands[j].zone \notin {"retrieved_memory", "conversation"}
        BY <1>1, <1>11, <2>1, <3>1, ScoresDecide DEF N, cands
      <3> QED BY <3>1, <3>2
    <2> HIDE DEF rest
    <2>4. size(rest) + cands[i].tokens > world.budget
      BY <1>7, <2>2, <2>3
    <2> QED BY <1>3, <2>1, <2>4 DEF rest
  <1> QED BY <1>8, <1>9, <1>10, <1>11 DEF Context!SelectionFollowsRules

LEMMA GreatestExists ==
  ASSUME NEW n \in Nat, NEW set \in SUBSET (1..n), set # {}
  PROVE  Context!Max(set) \in set /\ \A i \in set : i <= Context!Max(set)
  <1> DEFINE Has(m) == \A s \in SUBSET (1..m) : s # {} => \E x \in s : \A y \in s : x >= y
             T == {m \in Nat : Has(m)}
  <1>1. 0 \in T
    <2>1. \A s \in SUBSET (1..0) : s = {}
      OBVIOUS
    <2> QED BY <2>1
  <1>2. ASSUME NEW m \in T PROVE m + 1 \in T
    <2>1. m \in Nat /\ m + 1 \in Nat /\ Has(m)
      OBVIOUS
    <2> SUFFICES ASSUME NEW s \in SUBSET (1..(m + 1)), s # {}
                 PROVE  \E x \in s : \A y \in s : x >= y
      BY <2>1
    <2>2. CASE m + 1 \in s
      <3>1. \A y \in s : m + 1 >= y
        BY <2>1
      <3> QED BY <2>2, <3>1
    <2>3. CASE m + 1 \notin s
      <3>1. \A y \in s : y \in 1..m
        BY <2>1, <2>3
      <3>2. s \in SUBSET (1..m)
        BY <3>1
      <3> QED BY <2>1, <3>2
    <2> QED BY <2>2, <2>3
  <1>3. T = Nat
    <2>1. T \in SUBSET Nat
      OBVIOUS
    <2> HIDE DEF T
    <2> QED BY <1>1, <1>2, <2>1, Induct
  <1>4. \E x \in set : \A y \in set : x >= y
    <2>1. Has(n)
      BY <1>3
    <2> QED BY <2>1
  <1>5. Context!Max(set) = CHOOSE x \in set : \A y \in set : x >= y
    BY DEF Context!Max
  <1>6. Context!Max(set) \in set /\ \A y \in set : Context!Max(set) >= y
    BY <1>4, <1>5
  <1>7. \A y \in set : y \in Int
    OBVIOUS
  <1> QED BY <1>6, <1>7

\* The newest message is a recent one.
LEMMA NewestIsRecent ==
  ASSUME NEW talk, Len(talk) \in Nat, RecentCount \in Nat \ {0},
         Context!NonSystem(talk) # {}
  PROVE  /\ Context!Max(Context!NonSystem(talk)) \in Context!Recent(talk)
         /\ \A i \in Context!NonSystem(talk) : i <= Context!Max(Context!NonSystem(talk))
  <1> DEFINE others == Context!NonSystem(talk)
             m == Context!Max(others)
  <1>1. others \in SUBSET (1..Len(talk)) /\ others # {}
    BY DEF Context!NonSystem, Context!Indexes
  <1>2. m \in others /\ \A i \in others : i <= m
    <2> HIDE DEF others
    <2> QED BY <1>1, GreatestExists
  <1>3. \A j \in others : j >= m <=> j = m
    BY <1>1, <1>2
  <1> HIDE DEF others, m
  <1>4. {j \in others : j >= m} = {m}
    BY <1>2, <1>3
  <1>5. Cardinality({m}) = 1
    BY FS_Singleton
  <1>6. Cardinality({j \in others : j >= m}) <= RecentCount
    <2>1. 1 <= RecentCount
      OBVIOUS
    <2> QED BY <1>4, <1>5, <2>1
  <1> QED BY <1>2, <1>6, SameCount DEF Context!Recent, others, m

LEMMA BuiltEndsWithQuestion ==
  ASSUME AsBuilt, RecentCount \in Nat \ {0} PROVE Context!QuestionComesLast
  <1> DEFINE cands == Context!Candidates
             N == Len(Context!Candidates)
             set == Context!Select(Context!Candidates, world.budget)
  <1>1. /\ Sound(cands) /\ world.budget \in Nat /\ N \in Nat
        /\ Len(world.request) \in Nat /\ Len(world.request) <= N
        /\ \A i \in 1..Len(world.request) :
             cands[i] = Context!MessageCandidates(world.request)[i]
        /\ \A i \in 1..N : cands[i].source = "conversation" => i <= Len(world.request)
    BY DEF AsBuilt, FromSources, Sound
  <1>2. /\ set \subseteq 1..N
        /\ \A i \in 1..N : cands[i].eligible /\ i \notin set =>
             \/ Weight(cands, set \cap {j \in 1..N : Context!OfferedBefore(cands, j, i)})
                  + cands[i].tokens > world.budget
             \/ /\ cands[i].zone = "recent_conversation"
                /\ \E j \in 1..N :
                     cands[j].zone = "recent_conversation" /\ j > i /\ j \notin set
    <2> HIDE DEF cands, N
    <2>1. set = Context!Select(cands, world.budget)
      BY DEF cands
    <2> HIDE DEF set
    <2>2. N = Len(cands)
      BY DEF N, cands
    <2>3. set \subseteq 1..Len(cands) /\ FitsNotBeside(cands, world.budget, set)
      BY <1>1, <2>1, Selected
    <2> QED BY <2>2, <2>3 DEF FitsNotBeside
  <1>3. /\ \A zones : Context!Size(context, zones) = Weight(cands, set \cap InZone(cands, zones))
        /\ Len(context) \in Nat
        /\ \E list : IsListed(cands, set, context, list)
    <2>1. context = Context!Place(cands, set)
      BY DEF AsBuilt
    <2> HIDE DEF cands, set
    <2>2. N = Len(cands)
      BY DEF N, cands
    <2> HIDE DEF N
    <2> QED BY <1>1, <1>2, <2>1, <2>2, Placed
  <1>4. PICK list : IsListed(cands, set, context, list)
    BY <1>3
  <1>5. N = Len(cands)
    OBVIOUS
  <1> HIDE DEF cands, N, set
  <1>6. /\ \A k \in 1..Len(context) : list[k] \in set /\ list[k] \in 1..N
                                      /\ context[k] = cands[list[k]]
        /\ \A j, k \in 1..Len(context) : list[j] = list[k] => j = k
        /\ \A j, k \in 1..Len(context) : j < k => Context!PlacedBefore(cands, list[j], list[k])
        /\ \A i \in set : \E k \in 1..Len(context) : i = list[k]
    BY <1>2, <1>4 DEF IsListed
  <1>7. \A i \in 1..N : SoundOne(cands, i) /\ i \in Int
    BY <1>1, <1>5 DEF Sound
  <1>8. \A i, j \in 1..N :
          /\ cands[i] = cands[j] => i = j
          /\ cands[i].zone = "conversation" /\ cands[j].zone = "recent_conversation" => i < j
    BY <1>1, <1>5 DEF Sound
  <1>9. ASSUME NEW i \in Context!Indexes(context), NEW j \in Context!Indexes(context),
               context[i] = context[j]
        PROVE  i = j
    BY <1>6, <1>8, <1>9 DEF Context!Indexes
  <1>10. ASSUME NEW i \in Context!Indexes(context), NEW j \in Context!Indexes(context), i < j,
                context[i].source = "conversation", context[j].source = "conversation",
                context[i].zone # "system", context[j].zone # "system"
         PROVE  context[i].name < context[j].name
    <2> DEFINE p == list[i]
               q == list[j]
    <2>1. /\ p \in 1..N /\ q \in 1..N /\ context[i] = cands[p] /\ context[j] = cands[q]
          /\ Context!PlacedBefore(cands, p, q)
      BY <1>6, <1>10 DEF Context!Indexes
    <2> HIDE DEF p, q
    <2>2. /\ cands[p].zone \in {"conversation", "recent_conversation"}
          /\ cands[q].zone \in {"conversation", "recent_conversation"}
          /\ cands[p].name = p /\ cands[q].name = q
          /\ cands[p].source # "core_book"
      BY <1>7, <1>10, <2>1 DEF SoundOne
    <2>3. p < q
      <3>1. CASE cands[p].zone = cands[q].zone
        <4>1. ~(Context!ZoneOrder(cands[p].zone) < Context!ZoneOrder(cands[q].zone))
          BY <2>2, <3>1 DEF Context!ZoneOrder
        <4> QED BY <2>1, <2>2, <4>1 DEF Context!PlacedBefore
      <3>2. CASE cands[p].zone # cands[q].zone
        <4>1. Context!ZoneOrder(cands[p].zone) < Context!ZoneOrder(cands[q].zone)
          BY <2>1, <3>2 DEF Context!PlacedBefore
        <4>2. cands[p].zone = "conversation" /\ cands[q].zone = "recent_conversation"
          BY <2>2, <3>2, <4>1 DEF Context!ZoneOrder
        <4> QED BY <1>8, <2>1, <4>2
      <3> QED BY <3>1, <3>2
    <2> QED BY <2>1, <2>2, <2>3
  <1>11. ASSUME Context!NonSystem(world.request) # {},
                Context!Size(context, {"system"})
                  + Context!MessageCandidates(world.request)[Context!Max(Context!NonSystem(world.request))].tokens
                  <= world.budget
         PROVE  Context!Last(context) =
                  Context!MessageCandidates(world.request)[Context!Max(Context!NonSystem(world.request))]
    <2> DEFINE m == Context!Max(Context!NonSystem(world.request))
    <2>1. /\ m \in Context!Recent(world.request)
          /\ \A i \in Context!NonSystem(world.request) : i <= m
      BY <1>1, <1>11, NewestIsRecent
    <2> HIDE DEF m
    <2>2. m \in 1..Len(world.request) /\ m \in 1..N
      BY <1>1, <2>1 DEF Context!Recent, Context!NonSystem, Context!Indexes
    <2>3. cands[m] = Context!MessageCandidates(world.request)[m]
      BY <1>1, <2>2
    <2>4. cands[m].zone = "recent_conversation" /\ cands[m].eligible
      BY <2>1, <2>2, <2>3 DEF Context!MessageCandidates, Context!Indexes, Context!Recent, Context!NonSystem
    <2>5. ASSUME NEW j \in 1..N, cands[j].zone = "recent_conversation"
          PROVE  j <= m
      <3>1. cands[j].source = "conversation"
        BY <1>7, <2>5 DEF SoundOne
      <3>2. j \in 1..Len(world.request)
        BY <1>1, <3>1
      <3>3. cands[j] = Context!MessageCandidates(world.request)[j]
        BY <1>1, <3>2
      <3>4. j \in Context!NonSystem(world.request)
        BY <2>5, <3>2, <3>3 DEF Context!MessageCandidates, Context!NonSystem, Context!Indexes
      <3> QED BY <2>1, <3>4
    <2>6. m \in set
      <3> SUFFICES ASSUME m \notin set PROVE FALSE
        OBVIOUS
      <3> DEFINE before == set \cap {j \in 1..N : Context!OfferedBefore(cands, j, m)}
                 all == set \cap InZone(cands, {"system"})
      <3>1. ~\E j \in 1..N : cands[j].zone = "recent_conversation" /\ j > m
        BY <1>7, <2>2, <2>5
      <3>2. Weight(cands, before) + cands[m].tokens > world.budget
        BY <1>2, <2>2, <2>4, <3>1
      <3>3. \A j \in 1..Len(cands) : j \in before => j \in all
        <4> SUFFICES ASSUME NEW j \in 1..N, j \in set, Context!OfferedBefore(cands, j, m)
                     PROVE  cands[j].zone = "system"
          BY <1>5 DEF InZone
        <4>1. Context!RoundOf(cands[m]) = 2
          BY <2>4 DEF Context!RoundOf
        <4>2. \/ Context!RoundOf(cands[j]) = 1
              \/ Context!RoundOf(cands[j]) = 2 /\ j > m
          <5>1. Context!RoundOf(cands[j]) \in {1, 2, 3}
            BY RoundIsNumber
          <5>2. Context!OfferedBefore(cands, j, m)
            OBVIOUS
          <5>3. CASE Context!RoundOf(cands[j]) = 2
            BY <4>1, <5>2, <5>3 DEF Context!OfferedBefore
          <5>4. CASE Context!RoundOf(cands[j]) = 3
            BY <4>1, <5>2, <5>4 DEF Context!OfferedBefore
          <5> QED BY <5>1, <5>3, <5>4
        <4>3. Context!RoundOf(cands[j]) = 2 => cands[j].zone = "recent_conversation"
          BY DEF Context!RoundOf
        <4>4. Context!RoundOf(cands[j]) = 1
          BY <3>1, <4>2, <4>3
        <4> QED BY <4>4 DEF Context!RoundOf
      <3>4. Counted(cands)
        BY <1>1, SoundIsCounted
      <3>5. cands[m].tokens \in Nat
        BY <1>7, <2>2 DEF SoundOne
      <3>6. Weight(cands, all) + cands[m].tokens <= world.budget
        BY <1>3, <1>11, <2>3 DEF m
      <3> HIDE DEF before, all
      <3>7. Weight(cands, before) <= Weight(cands, all)
            /\ Weight(cands, before) \in Nat /\ Weight(cands, all) \in Nat
        BY <3>3, <3>4, WeightMono
      <3> QED BY <1>1, <3>2, <3>5, <3>6, <3>7
    <2>7. PICK k \in 1..Len(context) : m = list[k]
      BY <1>6, <2>6
    <2>8. k = Len(context)
      <3> SUFFICES ASSUME k # Len(context) PROVE FALSE
        OBVIOUS
      <3> DEFINE l == Len(context)
                 q == list[l]
      <3>1. l \in 1..Len(context) /\ k < l
        BY <1>3
      <3>2. q \in 1..N /\ Context!PlacedBefore(cands, m, q)
        BY <1>6, <2>7, <3>1
      <3> HIDE DEF l, q
      <3>3. cands[q].zone \in Context!Zones /\ cands[m].source # "core_book"
        BY <1>7, <2>2, <2>4, <3>2 DEF SoundOne
      <3>4. ~(Context!ZoneOrder(cands[m].zone) < Context!ZoneOrder(cands[q].zone))
        BY <2>4, <3>3 DEF Context!ZoneOrder, Context!Zones
      <3>5. cands[q].zone = "recent_conversation" /\ m < q
        BY <2>4, <3>2, <3>3, <3>4 DEF Context!PlacedBefore
      <3>6. q <= m
        BY <2>5, <3>2, <3>5
      <3> QED BY <1>7, <2>2, <3>2, <3>5, <3>6
    <2> QED BY <1>6, <2>3, <2>7, <2>8 DEF Context!Last, m
  <1> QED BY <1>9, <1>10, <1>11 DEF Context!QuestionComesLast

LEMMA BuiltOfPresent ==
  ASSUME AsBuilt, on \subseteq world.enabled, Context!ToSet(recalled) \subseteq world.active
  PROVE  Context!NothingWithdrawn
  <1> DEFINE cands == Context!Candidates
             N == Len(Context!Candidates)
             set == Context!Select(Context!Candidates, world.budget)
  <1>1. Sound(cands) /\ world.budget \in Nat
    BY DEF AsBuilt, FromSources
  <1>2. \A i \in 1..N :
          /\ cands[i].source = "core_book" /\ cands[i].eligible => cands[i].name \in on
          /\ cands[i].source = "memory" => cands[i].name \in Context!ToSet(recalled)
    BY DEF AsBuilt, FromSources
  <1>3. set \subseteq 1..N /\ \A i \in set : cands[i].eligible
    <2> HIDE DEF cands, N
    <2>1. set = Context!Select(cands, world.budget)
      BY DEF cands
    <2> HIDE DEF set
    <2>2. N = Len(cands)
      BY DEF N, cands
    <2> QED BY <1>1, <2>1, <2>2, Selected
  <1>4. Context!Chosen = {cands[i] : i \in set}
    <2>1. context = Context!Place(cands, set)
      BY DEF AsBuilt
    <2> HIDE DEF cands, set
    <2>2. N = Len(cands)
      BY DEF N, cands
    <2> HIDE DEF N
    <2> QED BY <1>1, <1>3, <2>1, <2>2, Placed DEF Context!Chosen
  <1> HIDE DEF cands, N, set
  <1>5. ASSUME NEW c \in Context!Chosen
        PROVE  /\ c.source = "core_book" => c.name \in world.enabled
               /\ c.source = "memory" => c.name \in world.active
    <2>1. PICK i \in set : c = cands[i]
      BY <1>4
    <2> QED BY <1>2, <1>3, <2>1
  <1> QED BY <1>5 DEF Context!NothingWithdrawn

-----------------------------------------------------------------------------
(* The candidates.                                                         *)

IsList(names) ==
  /\ names \in Seq(Context!MemoryNames)
  /\ \A i, j \in 1..Len(names) : names[i] = names[j] => i = j

LEMMA Divisions ==
  /\ \A r \in 0..100 : Context!Round(r, 4) \in 0..25 /\ Context!Round(r, 2) \in 0..50
  /\ \A m \in Nat, r \in Nat \ {0} : Context!Round(100 * m, r) \in Int
  <1>1. ASSUME NEW r \in 0..100 PROVE Context!Round(r, 4) \in 0..25 /\ Context!Round(r, 2) \in 0..50
    BY DEF Context!Round
  <1>2. ASSUME NEW m \in Nat, NEW r \in Nat \ {0} PROVE Context!Round(100 * m, r) \in Int
    <2>1. 2 * (100 * m) + r \in Int /\ 2 * r \in Int /\ 2 * r > 0
      OBVIOUS
    <2> QED BY <2>1 DEF Context!Round
  <1> QED BY <1>1, <1>2

LEMMA PercentsAreNumbers == \A x : x \in 0..100 => x \in Int
  OBVIOUS

\* What there is to say of the three sources.
IsMessage(c, i) ==
  /\ c.source = "conversation" /\ c.name = i /\ c.eligible
  /\ c.zone \in {"system", "conversation", "recent_conversation"}
  /\ c.tokens \in Nat /\ c.score \in Int /\ c.retention \in Int /\ c.placement \in Int
  /\ c.zone = "conversation" => c.score <= 140

IsEntry(c, n) ==
  /\ c.source = "core_book" /\ c.name = n /\ n \in Nat
  /\ c.zone \in {"character_core", "retrieved_core_book"}
  /\ c.tokens \in Nat /\ c.score \in Int /\ c.retention \in Int /\ c.placement \in Int
  /\ c.zone = "character_core" => c.score >= 150
  /\ c.eligible => n \in on

IsMemory(c, n) ==
  /\ c.source = "memory" /\ c.name = n
  /\ c.zone = "retrieved_memory"
  /\ c.tokens \in Nat /\ c.score \in Int /\ c.retention \in Int /\ c.placement \in Int
  /\ c.score <= 140

LEMMA MessagesAre ==
  ASSUME NEW talk \in Seq([role : STRING, tokens : Nat])
  PROVE  \A i \in 1..Len(talk) : IsMessage(Context!MessageCandidates(talk)[i], i)
  <1> SUFFICES ASSUME NEW i \in 1..Len(talk)
               PROVE  IsMessage(Context!MessageCandidates(talk)[i], i)
    OBVIOUS
  <1>1. talk[i] \in [role : STRING, tokens : Nat]
    BY ElementOfSeq
  <1> QED BY <1>1 DEF Context!MessageCandidates, Context!Indexes, IsMessage

LEMMA EntriesAre ==
  ASSUME Context!WellFormed, world \in Cases
  PROVE  /\ Len(world.book) \in Nat
         /\ \A i \in 1..Len(world.book) :
              IsEntry(Context!EntryCandidates(world.book)[i], world.book[i].name)
         /\ \A i, j \in 1..Len(world.book) :
              world.book[i].name = world.book[j].name => i = j
  <1>1. /\ world.book \in Seq([name : Nat, tokens : Nat, matched : Nat,
                               required : Nat \ {0}, all : BOOLEAN,
                               activation : {"always", "keyword", "regex", "reserved"},
                               retention : 0..100, placement : 0..100])
        /\ \A i, j \in 1..Len(world.book) :
             world.book[i].name = world.book[j].name => i = j
    BY DEF Context!WellFormed, Context!Indexes
  <1>2. ASSUME NEW i \in 1..Len(world.book)
        PROVE  IsEntry(Context!EntryCandidates(world.book)[i], world.book[i].name)
    <2> DEFINE e == world.book[i]
               c == Context!EntryCandidates(world.book)[i]
    <2>1. /\ e.name \in Nat /\ e.tokens \in Nat /\ e.matched \in Nat
          /\ e.required \in Nat \ {0} /\ e.retention \in 0..100 /\ e.placement \in 0..100
          /\ e.activation \in {"always", "keyword", "regex", "reserved"}
      <3>1. e \in [name : Nat, tokens : Nat, matched : Nat,
                    required : Nat \ {0}, all : BOOLEAN,
                    activation : {"always", "keyword", "regex", "reserved"},
                    retention : 0..100, placement : 0..100]
        BY <1>1, ElementOfSeq
      <3> HIDE DEF e
      <3> QED BY <3>1
    <2>2. /\ c.source = "core_book" /\ c.name = e.name /\ c.tokens = e.tokens
          /\ c.zone = IF e.activation = "always" THEN "character_core"
                      ELSE "retrieved_core_book"
          /\ c.eligible => e.name \in on
          /\ c.retention = e.retention /\ c.placement = e.placement
          /\ c.score = Context!EntryScore(e)
      BY DEF Context!EntryCandidates, Context!Indexes
    <2> HIDE DEF e, c
    <2> DEFINE r == e.retention
               q == Context!Round(100 * e.matched, e.required)
    <2>3. /\ e.activation = "always" => Context!EntryScore(e) = 50 + 100 + r
          /\ e.activation = "keyword" => Context!EntryScore(e) = q + 75 + r
          /\ e.activation = "regex" => Context!EntryScore(e) = 100 + 80 + r
          /\ e.activation = "reserved" => Context!EntryScore(e) = 0
      BY DEF Context!EntryScore
    <2>6. r \in 0..100 /\ q \in Int
      BY <2>1, Divisions
    <2> HIDE DEF r, q
    <2>7. Context!EntryScore(e) \in Int /\ (e.activation = "always" => Context!EntryScore(e) >= 150)
      <3>1. CASE e.activation = "always"
        BY <2>3, <2>6, <3>1
      <3>2. CASE e.activation = "keyword"
        BY <2>3, <2>6, <3>2
      <3>3. CASE e.activation = "regex"
        BY <2>3, <2>6, <3>3
      <3>4. CASE e.activation = "reserved"
        BY <2>3, <3>4
      <3> QED BY <2>1, <3>1, <3>2, <3>3, <3>4
    <2>4. c.zone = "character_core" => e.activation = "always"
      BY <2>2
    <2>5. IsEntry(c, e.name)
      <3>1. c.score \in Int /\ (c.zone = "character_core" => c.score >= 150)
        BY <2>2, <2>4, <2>7
      <3>2. c.retention \in Int /\ c.placement \in Int /\ c.tokens \in Nat
        BY <2>1, <2>2, PercentsAreNumbers, Zenon
      <3>3. c.zone \in {"character_core", "retrieved_core_book"}
        BY <2>2
      <3> QED BY <2>1, <2>2, <3>1, <3>2, <3>3 DEF IsEntry
    <2> QED BY <2>5 DEF c, e
  <1>3. Len(world.book) \in Nat
    BY <1>1
  <1> QED BY <1>1, <1>2, <1>3

LEMMA MemoriesAre ==
  ASSUME Context!WellFormed, NEW names, IsList(names)
  PROVE  \A i \in 1..Len(names) : IsMemory(Context!MemoryCandidates(names)[i], names[i])
  <1> SUFFICES ASSUME NEW i \in 1..Len(names)
               PROVE  IsMemory(Context!MemoryCandidates(names)[i], names[i])
    OBVIOUS
  <1> DEFINE m == Context!MemoryOf(names[i])
             c == Context!MemoryCandidates(names)[i]
  <1>1. m \in Memories /\ m.name = names[i]
    <2>1. names[i] \in Context!MemoryNames
      BY DEF IsList
    <2>2. \E o \in Memories : o.name = names[i]
      BY <2>1 DEF Context!MemoryNames
    <2> QED BY <2>2 DEF Context!MemoryOf
  <1>2. m.tokens \in Nat /\ m.importance \in 0..100 /\ m.confidence \in 0..100
    BY <1>1 DEF Context!WellFormed
  <1>3. /\ c.source = "memory" /\ c.name = m.name /\ c.zone = "retrieved_memory"
        /\ c.tokens = m.tokens /\ c.retention = m.importance /\ c.placement = 0
        /\ c.score = 40 + Context!Round(Context!Relevance(i), 4) + Context!Round(m.importance, 2)
                       + Context!Round(m.confidence, 4)
    BY DEF Context!MemoryCandidates, Context!Indexes
  <1> HIDE DEF m, c
  <1>4. Context!Relevance(i) \in 0..100
    <2>1. i \in Nat /\ i >= 1
      BY DEF IsList
    <2> QED BY <2>1 DEF Context!Relevance
  <1>5. /\ Context!Round(Context!Relevance(i), 4) \in 0..25 /\ Context!Round(m.importance, 2) \in 0..50
        /\ Context!Round(m.confidence, 4) \in 0..25
    BY <1>2, <1>4, Divisions
  <1>6. c.score \in Int /\ c.score <= 140
    <2> DEFINE q == Context!Round(Context!Relevance(i), 4)
               r == Context!Round(m.importance, 2)
               s == Context!Round(m.confidence, 4)
    <2>1. c.score = 40 + q + r + s
      BY <1>3
    <2>2. q \in 0..25 /\ r \in 0..50 /\ s \in 0..25
      BY <1>5
    <2> HIDE DEF q, r, s
    <2> QED BY <2>1, <2>2
  <1>7. IsMemory(c, names[i])
    <2>1. c.retention \in Int /\ c.placement \in Int /\ c.tokens \in Nat
      <3>1. 0 \in Int
        OBVIOUS
      <3> QED BY <1>2, <1>3, <3>1, PercentsAreNumbers, Zenon
    <2> QED BY <1>1, <1>3, <1>6, <2>1 DEF IsMemory
  <1> QED BY <1>7 DEF c

\* Of the messages, the recent ones are the last.
LEMMA RecentAreLast ==
  ASSUME NEW talk, Len(talk) \in Nat, RecentCount \in Nat,
         NEW i \in 1..Len(talk), NEW j \in 1..Len(talk),
         Context!MessageCandidates(talk)[i].zone = "conversation",
         Context!MessageCandidates(talk)[j].zone = "recent_conversation"
  PROVE  i < j
  <1> DEFINE later(k) == {l \in Context!NonSystem(talk) : l >= k}
  <1>1. /\ i \in Context!NonSystem(talk) /\ i \notin Context!Recent(talk)
        /\ j \in Context!Recent(talk)
    BY DEF Context!MessageCandidates, Context!Indexes, Context!NonSystem
  <1>2. ~(Cardinality(later(i)) <= RecentCount) /\ Cardinality(later(j)) <= RecentCount
    BY <1>1, SameCount DEF Context!Recent
  <1>3. \A k \in {i, j} : IsFiniteSet(later(k)) /\ Cardinality(later(k)) \in Nat
    <2>1. IsFiniteSet(1..Len(talk))
      BY FS_Interval
    <2>2. later(i) \subseteq 1..Len(talk) /\ later(j) \subseteq 1..Len(talk)
      BY DEF Context!NonSystem, Context!Indexes
    <2> HIDE DEF later
    <2>3. IsFiniteSet(later(i)) /\ IsFiniteSet(later(j))
      BY <2>1, <2>2, FS_Subset
    <2> QED BY <2>3, FS_CardinalityType
  <1> SUFFICES ASSUME j <= i PROVE FALSE
    OBVIOUS
  <1>4. later(i) \subseteq later(j)
    BY DEF Context!NonSystem, Context!Indexes
  <1> HIDE DEF later
  <1>5. Cardinality(later(i)) <= Cardinality(later(j))
    BY <1>3, <1>4, FS_Subset
  <1> QED BY <1>2, <1>3, <1>5

\* One sequence after another.
IsJoined(all, s, t, u) ==
  /\ DOMAIN all = 1..Len(all)
  /\ Len(all) = Len(s) + Len(t) + Len(u)
  /\ \A i \in 1..Len(all) :
       \/ i \in 1..Len(s) /\ all[i] = s[i]
       \/ \E j \in 1..Len(t) : i = Len(s) + j /\ all[i] = t[j]
       \/ \E j \in 1..Len(u) : i = Len(s) + Len(t) + j /\ all[i] = u[j]
  /\ \A i \in 1..Len(s) : all[i] = s[i]

LEMMA Joined ==
  ASSUME NEW X, NEW s \in Seq(X), NEW t \in Seq(X), NEW u \in Seq(X)
  PROVE  IsJoined(s \o t \o u, s, t, u)
  <1> DEFINE st == s \o t
             all == st \o u
             a == Len(s)
             b == Len(t)
             c == Len(u)
  <1>1. a \in Nat /\ b \in Nat /\ c \in Nat
    BY LenProperties
  <1>2. /\ st \in Seq(X) /\ Len(st) = a + b
        /\ \A i \in 1..(a + b) : st[i] = IF i <= a THEN s[i] ELSE t[i - a]
    BY ConcatProperties
  <1>3. /\ all \in Seq(X) /\ Len(all) = Len(st) + c
        /\ \A i \in 1..(Len(st) + c) :
             all[i] = IF i <= Len(st) THEN st[i] ELSE u[i - Len(st)]
    <2>1. st \in Seq(X)
      BY <1>2
    <2> HIDE DEF st
    <2>2. all \in Seq(X) /\ Len(all) = Len(st) + c
      BY <2>1, ConcatProperties
    <2>3. \A i \in 1..(Len(st) + c) :
            all[i] = IF i <= Len(st) THEN st[i] ELSE u[i - Len(st)]
      BY <2>1, ConcatProperties
    <2> QED BY <2>2, <2>3
  <1> HIDE DEF st, all
  <1>4. DOMAIN all = 1..Len(all)
    BY <1>3, LenProperties
  <1> HIDE DEF a, b, c
  <1>5. Len(all) = a + b + c
    BY <1>2, <1>3
  <1>6. ASSUME NEW i \in 1..Len(all)
        PROVE  \/ i \in 1..a /\ all[i] = s[i]
               \/ \E j \in 1..b : i = a + j /\ all[i] = t[j]
               \/ \E j \in 1..c : i = a + b + j /\ all[i] = u[j]
    <2>1. CASE i <= a
      BY <1>1, <1>2, <1>3, <1>5, <2>1
    <2>2. CASE ~(i <= a) /\ i <= a + b
      <3>1. i - a \in 1..b /\ i = a + (i - a) /\ all[i] = t[i - a]
        BY <1>1, <1>2, <1>3, <1>5, <2>2
      <3> QED BY <3>1
    <2>3. CASE ~(i <= a + b)
      <3>1. i - (a + b) \in 1..c /\ i = a + b + (i - (a + b))
            /\ all[i] = u[i - (a + b)]
        BY <1>1, <1>2, <1>3, <1>5, <2>3
      <3> QED BY <3>1
    <2> QED BY <2>1, <2>2, <2>3
  <1>7. ASSUME NEW i \in 1..a PROVE all[i] = s[i]
    BY <1>1, <1>2, <1>3
  <1>8. IsJoined(all, s, t, u)
    BY <1>4, <1>5, <1>6, <1>7 DEF IsJoined, a, b, c
  <1> QED BY <1>8 DEF st, all

\* The candidates of a build are those of its sources.
LEMMA CandidatesAreSound ==
  ASSUME Context!WellFormed, world \in Cases, IsList(recalled)
  PROVE  FromSources
  <1> DEFINE talk == world.request
             book == world.book
             s == Context!MessageCandidates(talk)
             t == Context!EntryCandidates(book)
             u == Context!MemoryCandidates(recalled)
             X == {s[i] : i \in DOMAIN s} \cup {t[i] : i \in DOMAIN t}
                    \cup {u[i] : i \in DOMAIN u}
             all == Context!Candidates
  <1>1. /\ talk \in Seq([role : STRING, tokens : Nat]) /\ Len(talk) \in Nat
        /\ Len(book) \in Nat /\ Len(recalled) \in Nat
    BY EntriesAre DEF Context!WellFormed, IsList
  <1>2. /\ s = [i \in 1..Len(talk) |-> s[i]] /\ DOMAIN s = 1..Len(talk)
        /\ t = [i \in 1..Len(book) |-> t[i]] /\ DOMAIN t = 1..Len(book)
        /\ u = [i \in 1..Len(recalled) |-> u[i]] /\ DOMAIN u = 1..Len(recalled)
    BY DEF Context!MessageCandidates, Context!EntryCandidates, Context!MemoryCandidates, Context!Indexes
  <1>3. \A i \in 1..Len(talk) : IsMessage(s[i], i)
    BY <1>1, MessagesAre
  <1>4. /\ \A i \in 1..Len(book) : IsEntry(t[i], book[i].name)
        /\ \A i, j \in 1..Len(book) : book[i].name = book[j].name => i = j
    BY EntriesAre
  <1>5. \A i \in 1..Len(recalled) : IsMemory(u[i], recalled[i])
    BY MemoriesAre
  <1>6. all = s \o t \o u
    BY DEF Context!Candidates
  <1>7. \A i, j \in 1..Len(talk) :
          s[i].zone = "conversation" /\ s[j].zone = "recent_conversation" => i < j
    BY <1>1, RecentAreLast DEF Context!WellFormed
  <1> HIDE DEF s, t, u, all
  <1>8. s \in Seq(X) /\ Len(s) = Len(talk)
    BY <1>1, <1>2
  <1>9. t \in Seq(X) /\ Len(t) = Len(book)
    BY <1>1, <1>2
  <1>10. u \in Seq(X) /\ Len(u) = Len(recalled)
    BY <1>1, <1>2
  <1> HIDE DEF X
  <1>11. /\ DOMAIN all = 1..Len(all)
         /\ Len(all) = Len(talk) + Len(book) + Len(recalled)
         /\ \A i \in 1..Len(all) :
              \/ i \in 1..Len(talk) /\ all[i] = s[i]
              \/ \E j \in 1..Len(book) : i = Len(talk) + j /\ all[i] = t[j]
              \/ \E j \in 1..Len(recalled) :
                   i = Len(talk) + Len(book) + j /\ all[i] = u[j]
         /\ \A i \in 1..Len(talk) : all[i] = s[i]
    <2>1. s \in Seq(X) /\ t \in Seq(X) /\ u \in Seq(X)
      BY <1>8, <1>9, <1>10
    <2>2. IsJoined(all, s, t, u)
      BY <1>6, <2>1, Joined
    <2>3. Len(s) = Len(talk) /\ Len(t) = Len(book) /\ Len(u) = Len(recalled)
      BY <1>8, <1>9, <1>10
    <2> QED BY <2>2, <2>3 DEF IsJoined
  <1> HIDE DEF talk, book
  <1>12. Len(all) \in Nat /\ Len(talk) <= Len(all)
    BY <1>1, <1>11
  <1>13. ASSUME NEW i \in 1..Len(all)
         PROVE  \/ i \in 1..Len(talk) /\ all[i] = s[i] /\ IsMessage(all[i], i)
                \/ \E j \in 1..Len(book) :
                     /\ i = Len(talk) + j
                     /\ IsEntry(all[i], book[j].name)
                \/ \E j \in 1..Len(recalled) :
                     /\ i = Len(talk) + Len(book) + j
                     /\ IsMemory(all[i], recalled[j])
    BY <1>3, <1>4, <1>5, <1>11
  <1>14. ASSUME NEW i \in 1..Len(all)
         PROVE  SoundOne(all, i)
    <2>1. CASE IsMessage(all[i], i)
      BY <2>1 DEF IsMessage, SoundOne, Context!Zones
    <2>2. ASSUME NEW j \in 1..Len(book), IsEntry(all[i], book[j].name)
          PROVE  SoundOne(all, i)
      BY <2>2 DEF IsEntry, SoundOne, Context!Zones
    <2>3. ASSUME NEW j \in 1..Len(recalled), IsMemory(all[i], recalled[j])
          PROVE  SoundOne(all, i)
      BY <2>3 DEF IsMemory, SoundOne, Context!Zones
    <2> QED BY <1>13, <2>1, <2>2, <2>3
  <1>15. ASSUME NEW i \in 1..Len(all)
         PROVE  /\ all[i].source = "conversation" => i \in 1..Len(talk) /\ all[i] = s[i]
                /\ all[i].source = "core_book" =>
                     \E j \in 1..Len(book) :
                       i = Len(talk) + j /\ IsEntry(all[i], book[j].name)
                /\ all[i].source = "memory" =>
                     \E j \in 1..Len(recalled) :
                       i = Len(talk) + Len(book) + j /\ IsMemory(all[i], recalled[j])
                /\ all[i].source \in {"conversation", "core_book", "memory"}
    <2>1. CASE i \in 1..Len(talk) /\ all[i] = s[i] /\ IsMessage(all[i], i)
      BY <2>1 DEF IsMessage
    <2>2. CASE \E j \in 1..Len(book) :
                 i = Len(talk) + j /\ IsEntry(all[i], book[j].name)
      BY <2>2 DEF IsEntry
    <2>3. CASE \E j \in 1..Len(recalled) :
                 i = Len(talk) + Len(book) + j /\ IsMemory(all[i], recalled[j])
      BY <2>3 DEF IsMemory
    <2> QED BY <1>13, <2>1, <2>2, <2>3
  <1>16. ASSUME NEW i \in 1..Len(all), NEW j \in 1..Len(all),
                all[i].source = "core_book", all[j].source = "core_book",
                all[i].name = all[j].name
         PROVE  i = j
    <2>1. PICK k \in 1..Len(book) : i = Len(talk) + k /\ IsEntry(all[i], book[k].name)
      BY <1>15, <1>16
    <2>2. PICK l \in 1..Len(book) : j = Len(talk) + l /\ IsEntry(all[j], book[l].name)
      BY <1>15, <1>16
    <2>3. k = l
      BY <1>4, <1>16, <2>1, <2>2 DEF IsEntry
    <2> QED BY <2>1, <2>2, <2>3
  <1>17. ASSUME NEW i \in 1..Len(all), NEW j \in 1..Len(all), all[i] = all[j]
         PROVE  i = j
    <2>1. CASE all[i].source = "conversation"
      BY <1>14, <1>17, <2>1 DEF SoundOne
    <2>2. CASE all[i].source = "core_book"
      BY <1>16, <1>17, <2>2
    <2>3. CASE all[i].source = "memory"
      <3>1. PICK k \in 1..Len(recalled) :
              i = Len(talk) + Len(book) + k /\ IsMemory(all[i], recalled[k])
        BY <1>15, <2>3
      <3>2. PICK l \in 1..Len(recalled) :
              j = Len(talk) + Len(book) + l /\ IsMemory(all[j], recalled[l])
        BY <1>15, <1>17, <2>3
      <3>3. recalled[k] = recalled[l]
        BY <1>17, <3>1, <3>2 DEF IsMemory
      <3>4. k = l
        BY <3>3 DEF IsList
      <3> QED BY <3>1, <3>2, <3>4
    <2> QED BY <1>15, <2>1, <2>2, <2>3
  <1>18. ASSUME NEW i \in 1..Len(all), NEW j \in 1..Len(all),
                all[i].zone = "conversation", all[j].zone = "recent_conversation"
         PROVE  i < j
    <2>1. all[i].source = "conversation" /\ all[j].source = "conversation"
      BY <1>14, <1>18 DEF SoundOne
    <2>2. /\ i \in 1..Len(talk) /\ all[i] = s[i]
          /\ j \in 1..Len(talk) /\ all[j] = s[j]
      BY <1>15, <2>1
    <2> QED BY <1>7, <1>18, <2>2
  <1>19. Sound(all)
    BY <1>12, <1>14, <1>16, <1>17, <1>18 DEF Sound
  <1>20. ASSUME NEW i \in 1..Len(all)
         PROVE  /\ all[i].source = "conversation" => i <= Len(talk)
                /\ all[i].source = "core_book" /\ all[i].eligible => all[i].name \in on
                /\ all[i].source = "memory" => all[i].name \in Context!ToSet(recalled)
    <2>1. all[i].source = "conversation" => i <= Len(talk)
      BY <1>15
    <2>2. all[i].source = "core_book" /\ all[i].eligible => all[i].name \in on
      BY <1>15 DEF IsEntry
    <2>3. ASSUME all[i].source = "memory" PROVE all[i].name \in Context!ToSet(recalled)
      <3>1. PICK k \in 1..Len(recalled) : IsMemory(all[i], recalled[k])
        BY <1>15, <2>3
      <3>2. DOMAIN recalled = 1..Len(recalled)
        BY LenProperties DEF IsList
      <3> QED BY <3>1, <3>2 DEF IsMemory, Context!ToSet
    <2> QED BY <2>1, <2>2, <2>3
  <1> QED BY <1>1, <1>11, <1>12, <1>19, <1>20 DEF FromSources, all, s, talk

-----------------------------------------------------------------------------
(* The build as it goes on.                                                *)

\* Only what was there when the build began is listed or recalled.
Collected ==
  /\ world \in Cases
  /\ enabled \subseteq world.enabled /\ active \subseteq world.active
  /\ on \subseteq world.enabled
  /\ Context!ToSet(recalled) \subseteq world.active

\* Each memory is found once.
FoundOnce ==
  /\ IsList(found) /\ IsList(recalled)
  /\ \A i \in 1..Len(found), j \in 1..Len(recalled) : found[i] # recalled[j]
  /\ memoryAt = "searching" => found = <<>> /\ recalled = <<>>

WhatIsBuilt ==
  phase = "built" =>
    context = Context!Place(Context!Candidates,
                            Context!Select(Context!Candidates, world.budget))

BuildInv ==
  phase \in {"building", "built"} => Collected /\ FoundOnce /\ WhatIsBuilt

LEMMA EmptyList == IsList(<<>>) /\ Context!ToSet(<<>>) = {} /\ Len(<<>>) = 0
  BY DEF IsList, Context!ToSet

LEMMA ListMembers ==
  ASSUME NEW s, IsList(s)
  PROVE  Context!ToSet(s) = {s[i] : i \in 1..Len(s)}
  <1>1. DOMAIN s = 1..Len(s)
    BY LenProperties DEF IsList
  <1> QED BY <1>1 DEF Context!ToSet

LEMMA ResultsAreLists ==
  ASSUME NEW names \in Context!Results
  PROVE  IsList(names)
  <1>1. PICK n \in 0..MaxResults : names \in [1..n -> Context!MemoryNames]
    BY DEF Context!Results
  <1>2. \A a, b \in DOMAIN names : names[a] = names[b] => a = b
    BY DEF Context!Results, Context!IsInjective
  <1>3. n \in Nat
    OBVIOUS
  <1>4. names \in Seq(Context!MemoryNames) /\ Len(names) = n /\ DOMAIN names = 1..n
    BY <1>1, <1>3
  <1> QED BY <1>2, <1>4 DEF IsList

\* The head of the list is read, and kept or not.
LEMMA ListRead ==
  ASSUME NEW s, NEW t, IsList(s), IsList(t), s # <<>>,
         \A i \in 1..Len(s), j \in 1..Len(t) : s[i] # t[j]
  PROVE  /\ IsList(Tail(s)) /\ IsList(Append(t, Head(s)))
         /\ \A i \in 1..Len(Tail(s)), j \in 1..Len(t) : Tail(s)[i] # t[j]
         /\ \A i \in 1..Len(Tail(s)), j \in 1..Len(Append(t, Head(s))) :
              Tail(s)[i] # Append(t, Head(s))[j]
         /\ Context!ToSet(Append(t, Head(s))) = Context!ToSet(t) \cup {Head(s)}
  <1> DEFINE X == Context!MemoryNames
             u == Append(t, Head(s))
             v == Tail(s)
  <1>1. /\ s \in Seq(X) /\ t \in Seq(X) /\ Len(s) \in Nat /\ Len(t) \in Nat
        /\ \A i, j \in 1..Len(s) : s[i] = s[j] => i = j
        /\ \A i, j \in 1..Len(t) : t[i] = t[j] => i = j
    BY LenProperties DEF IsList
  <1>2. /\ Head(s) = s[1] /\ Head(s) \in X /\ 1 \in 1..Len(s)
        /\ v \in Seq(X) /\ Len(v) = Len(s) - 1
        /\ \A i \in 1..Len(v) : v[i] = s[i + 1]
    <2>1. Len(s) # 0
      BY <1>1, EmptySeq
    <2>2. v \in Seq(X) /\ Len(v) = Len(s) - 1 /\ Head(s) \in X
      BY <1>1, HeadTailProperties
    <2>3. \A i \in 1..Len(v) : v[i] = s[i + 1]
      BY <1>1, HeadTailProperties
    <2> QED BY <1>1, <2>1, <2>2, <2>3
  <1>3. /\ u \in Seq(X) /\ Len(u) = Len(t) + 1
        /\ \A i \in 1..Len(t) : u[i] = t[i]
        /\ u[Len(t) + 1] = Head(s)
    BY <1>1, <1>2
  <1> HIDE DEF u, v, X
  <1>4. \A i, j \in 1..Len(v) : v[i] = v[j] => i = j
    BY <1>1, <1>2
  <1>5. \A i \in 1..Len(v), j \in 1..Len(t) : v[i] # t[j]
    BY <1>1, <1>2
  <1>6. \A i \in 1..Len(v) : v[i] # Head(s)
    BY <1>1, <1>2
  <1>7. \A i \in 1..Len(t) : t[i] # Head(s)
    BY <1>1, <1>2
  <1>8. \A i \in 1..Len(u) : i \in 1..Len(t) \/ i = Len(t) + 1
    BY <1>1, <1>3
  <1>9. \A i, j \in 1..Len(u) : u[i] = u[j] => i = j
    BY <1>1, <1>3, <1>7, <1>8
  <1>10. \A i \in 1..Len(v), j \in 1..Len(u) : v[i] # u[j]
    BY <1>3, <1>5, <1>6, <1>8
  <1>11. IsList(u) /\ IsList(v)
    BY <1>2, <1>3, <1>4, <1>9 DEF IsList, X
  <1>12. Context!ToSet(u) = Context!ToSet(t) \cup {Head(s)}
    <2>1. /\ Context!ToSet(u) = {u[i] : i \in 1..Len(u)}
          /\ Context!ToSet(t) = {t[i] : i \in 1..Len(t)}
      BY <1>11, ListMembers
    <2>2. Len(t) + 1 \in 1..Len(u) /\ \A i \in 1..Len(t) : i \in 1..Len(u)
      BY <1>1, <1>3
    <2> QED BY <1>3, <1>8, <2>1, <2>2
  <1> QED BY <1>5, <1>10, <1>11, <1>12 DEF u, v

LEMMA BuildBegins ==
  ASSUME Context!Init PROVE BuildInv
  <1>1. FoundOnce
    BY EmptyList DEF Context!Init, FoundOnce
  <1>2. Collected /\ WhatIsBuilt
    BY EmptyList DEF Context!Init, Collected, WhatIsBuilt
  <1> QED BY <1>1, <1>2 DEF BuildInv

\* What builds nothing keeps it.
LEMMA SameBuild ==
  ASSUME BuildInv, UNCHANGED contextVars PROVE BuildInv'
  <1>1. UNCHANGED <<world, enabled, active, phase, on, hits, memoryAt, found, recalled,
                    context>>
    BY DEF contextVars
  <1>2. Collected => Collected'
    BY <1>1 DEF Collected, Context!ToSet
  <1>3. FoundOnce => FoundOnce'
    BY <1>1 DEF FoundOnce, IsList
  <1>4. Context!Candidates' = Context!Candidates
    BY <1>1 DEF Context!Candidates, Context!EntryCandidates
  <1>5. WhatIsBuilt => WhatIsBuilt'
    BY <1>1, <1>4 DEF WhatIsBuilt
  <1> QED BY <1>1, <1>2, <1>3, <1>5 DEF BuildInv

LEMMA BuildGoesOn ==
  ASSUME BuildInv, Context!Next PROVE BuildInv'
  <1>1. phase = "building" /\ phase' \in {"building", "built", "failed"}
    BY ContextPhases
  <1>2. Collected /\ FoundOnce
    BY <1>1 DEF BuildInv
  <1> SUFFICES ASSUME phase' # "failed" PROVE Collected' /\ FoundOnce' /\ WhatIsBuilt'
    BY DEF BuildInv
  <1>3. CASE Context!ListEntries
    <2>1. /\ on' = enabled /\ phase' = phase
          /\ UNCHANGED <<world, enabled, active, memoryAt, found, recalled>>
      BY <1>3 DEF Context!ListEntries, Context!memoryVars
    <2>2. Collected'
      BY <1>2, <2>1 DEF Collected, Context!ToSet
    <2>3. FoundOnce'
      BY <1>2, <2>1 DEF FoundOnce, IsList
    <2> QED BY <1>1, <2>1, <2>2, <2>3 DEF WhatIsBuilt
  <1>4. CASE \E names \in SUBSET Context!EntryNames : Context!RetrieveEntries(names)
    <2>1. /\ phase' = phase
          /\ UNCHANGED <<world, enabled, active, on, memoryAt, found, recalled>>
      BY <1>4 DEF Context!RetrieveEntries, Context!memoryVars
    <2>2. Collected'
      BY <1>2, <2>1 DEF Collected, Context!ToSet
    <2>3. FoundOnce'
      BY <1>2, <2>1 DEF FoundOnce, IsList
    <2> QED BY <1>1, <2>1, <2>2, <2>3 DEF WhatIsBuilt
  <1>5. ASSUME NEW names \in Context!Results, Context!SearchMemories(names)
        PROVE  Collected' /\ FoundOnce' /\ WhatIsBuilt'
    <2>1. /\ memoryAt = "searching" /\ memoryAt' # "searching" /\ phase' = phase
          /\ UNCHANGED <<world, enabled, active, on>>
      BY <1>5 DEF Context!SearchMemories, Context!entriesVars
    <2>2. found = <<>> /\ recalled = <<>> /\ IsList(names)
      BY <1>2, <2>1, ResultsAreLists DEF FoundOnce
    <2>3. CASE world.retriever
      <3>1. found' = names /\ recalled' = <<>>
        BY <1>5, <2>2, <2>3 DEF Context!SearchMemories
      <3>2. FoundOnce'
        <4>1. IsList(found') /\ IsList(recalled') /\ Len(recalled') = 0
          BY <2>2, <3>1, EmptyList
        <4> QED BY <2>1, <4>1 DEF FoundOnce, IsList
      <3>3. Collected'
        <4>1. Context!ToSet(recalled') = {}
          BY <3>1, EmptyList
        <4> QED BY <1>2, <2>1, <4>1 DEF Collected, Context!ToSet
      <3> QED BY <1>1, <2>1, <3>2, <3>3 DEF WhatIsBuilt
    <2>4. CASE ~world.retriever
      <3>1. /\ found' = <<>> /\ recalled' = names
            /\ Context!ToSet(names) \subseteq active
        BY <1>5, <2>2, <2>4 DEF Context!SearchMemories, Context!BrokerFinds
      <3>2. FoundOnce'
        <4>1. IsList(found') /\ IsList(recalled') /\ Len(found') = 0
          BY <2>2, <3>1, EmptyList
        <4> QED BY <2>1, <4>1 DEF FoundOnce, IsList
      <3>3. Collected'
        <4>1. Context!ToSet(recalled') \subseteq active
          BY <3>1
        <4> QED BY <1>2, <2>1, <4>1 DEF Collected, Context!ToSet
      <3> QED BY <1>1, <2>1, <3>2, <3>3 DEF WhatIsBuilt
    <2> QED BY <2>3, <2>4
  <1>6. CASE Context!ReadMemory
    <2>1. /\ memoryAt = "reading" /\ memoryAt' # "searching" /\ phase' = phase
          /\ UNCHANGED <<world, enabled, active, on>>
      BY <1>6 DEF Context!ReadMemory, Context!entriesVars
    <2>2. CASE found = <<>>
      <3>1. UNCHANGED <<found, recalled>>
        BY <1>6, <2>2 DEF Context!ReadMemory
      <3>2. Collected'
        BY <1>2, <2>1, <3>1 DEF Collected, Context!ToSet
      <3>3. FoundOnce'
        BY <1>2, <2>1, <3>1 DEF FoundOnce, IsList
      <3> QED BY <1>1, <2>1, <3>2, <3>3 DEF WhatIsBuilt
    <2>3. CASE found # <<>>
      <3> DEFINE kept == Append(recalled, Head(found))
      <3>1. /\ found' = Tail(found)
            /\ recalled' = IF Head(found) \in active THEN kept ELSE recalled
        BY <1>6, <2>3 DEF Context!ReadMemory
      <3>2. /\ IsList(Tail(found)) /\ IsList(kept) /\ IsList(recalled)
            /\ \A i \in 1..Len(Tail(found)), j \in 1..Len(recalled) :
                 Tail(found)[i] # recalled[j]
            /\ \A i \in 1..Len(Tail(found)), j \in 1..Len(kept) : Tail(found)[i] # kept[j]
            /\ Context!ToSet(kept) = Context!ToSet(recalled) \cup {Head(found)}
        BY <1>2, <2>3, ListRead DEF FoundOnce
      <3> HIDE DEF kept
      <3>3. CASE Head(found) \in active
        <4>1. recalled' = kept
          BY <3>1, <3>3
        <4>2. Context!ToSet(recalled') \subseteq world.active
          BY <1>2, <3>2, <3>3, <4>1 DEF Collected
        <4>3. Collected'
          BY <1>2, <2>1, <4>2 DEF Collected, Context!ToSet
        <4>4. FoundOnce'
          BY <2>1, <3>1, <3>2, <4>1 DEF FoundOnce, IsList
        <4> QED BY <1>1, <2>1, <4>3, <4>4 DEF WhatIsBuilt
      <3>4. CASE Head(found) \notin active
        <4>1. recalled' = recalled
          BY <3>1, <3>4
        <4>2. Collected'
          BY <1>2, <2>1, <4>1 DEF Collected, Context!ToSet
        <4>3. FoundOnce'
          BY <2>1, <3>1, <3>2, <4>1 DEF FoundOnce, IsList
        <4> QED BY <1>1, <2>1, <4>2, <4>3 DEF WhatIsBuilt
      <3> QED BY <3>3, <3>4
    <2> QED BY <2>2, <2>3
  <1>7. CASE Context!Build
    <2>1. /\ UNCHANGED <<world, enabled, active, on, hits, memoryAt, found, recalled>>
          /\ context' = Context!Place(Context!Candidates,
                                      Context!Select(Context!Candidates, world.budget))
      BY <1>7 DEF Context!Build, Context!memoryVars, Context!entriesVars
    <2>2. Collected'
      BY <1>2, <2>1 DEF Collected, Context!ToSet
    <2>3. FoundOnce'
      BY <1>2, <2>1 DEF FoundOnce, IsList
    <2>4. Context!Candidates' = Context!Candidates
      BY <2>1 DEF Context!Candidates, Context!EntryCandidates
    <2>5. WhatIsBuilt'
      BY <2>1, <2>4 DEF WhatIsBuilt
    <2> QED BY <2>2, <2>3, <2>5
  <1>8. CASE Context!CollectFails
    BY <1>8 DEF Context!CollectFails
  <1>9. CASE \/ \E n \in Context!EntryNames : Context!Disable(n)
             \/ \E n \in Context!MemoryNames : Context!Archive(n)
    <2>1. /\ phase' = phase /\ enabled' \subseteq enabled /\ active' \subseteq active
          /\ UNCHANGED <<world, on, memoryAt, found, recalled>>
      BY <1>9 DEF Context!Disable, Context!Archive, Context!memoryVars, Context!entriesVars
    <2>2. Collected'
      BY <1>2, <2>1 DEF Collected, Context!ToSet
    <2>3. FoundOnce'
      BY <1>2, <2>1 DEF FoundOnce, IsList
    <2> QED BY <1>1, <2>1, <2>2, <2>3 DEF WhatIsBuilt
  <1> QED BY <1>3, <1>4, <1>5, <1>6, <1>7, <1>8, <1>9 DEF Context!Next, Context!Collect

\* The rest of the turn leaves the build alone, or ends it.
LEMMA BuildStep == BuildInv /\ [TurnNext]_turnVars => BuildInv'
  <1> SUFFICES ASSUME BuildInv, [TurnNext]_turnVars PROVE BuildInv'
    OBVIOUS
  <1>1. CASE ContextStep
    BY <1>1, BuildGoesOn DEF ContextStep
  <1>2. CASE Request \/ Stopped
    <2>1. phase' \in {"given", "stopped"}
      BY <1>2 DEF Request, Stopped, Context!HandOver
    <2> QED BY <2>1 DEF BuildInv
  <1>3. CASE \/ Choosing(Routing!Next) \/ Serve \/ (\E t \in Tokens : FakeChats(t))
             \/ AbortEarly \/ CallStep(Next) \/ UNCHANGED turnVars
    <2>1. UNCHANGED contextVars
      BY <1>3 DEF Choosing, Serve, FakeChats, AbortEarly, CallStep, turnVars
    <2> QED BY <2>1, SameBuild
  <1> QED BY <1>1, <1>2, <1>3 DEF TurnNext

THEOREM BuildInvariance == TurnSpec => []BuildInv
  <1>1. TurnInit => BuildInv
    BY BuildBegins DEF TurnInit
  <1> QED BY <1>1, BuildStep, PTL DEF TurnSpec

LEMMA BuiltFromSources ==
  ASSUME BuildInv, phase = "built"
  PROVE  /\ AsBuilt
         /\ on \subseteq world.enabled /\ Context!ToSet(recalled) \subseteq world.active
         /\ RecentCount \in Nat \ {0}
  <1>1. Collected /\ FoundOnce /\ WhatIsBuilt
    BY DEF BuildInv
  <1>2. Context!WellFormed
    BY ContextAssumption
  <1>3. FromSources
    BY <1>1, <1>2, CandidatesAreSound DEF Collected, FoundOnce
  <1>4. world.budget \in Nat /\ RecentCount \in Nat \ {0}
    BY <1>1, <1>2 DEF Context!WellFormed, Collected
  <1> QED BY <1>1, <1>3, <1>4 DEF AsBuilt, Collected, WhatIsBuilt

\* The model is asked only what the rules of the selection let through: within
\* the budget, nothing left out that fits, the recent messages without a gap,
\* and what always applies before memories and older messages.
THEOREM SelectionFollowsRulesHolds == TurnSpec => []SelectionFollowsRules
  <1>1. BuildInv => SelectionFollowsRules
    <2>1. CASE phase = "built"
      BY <2>1, BuiltFromSources, BuiltFollowsRules DEF SelectionFollowsRules
    <2>2. CASE phase # "built"
      BY <2>2 DEF SelectionFollowsRules, Context!SelectionFollowsRules
    <2> QED BY <2>1, <2>2
  <1> QED BY <1>1, BuildInvariance, PTL

\* The conversation is in its order, and ends with the newest message if that
\* fits beside the system's.
THEOREM QuestionComesLastHolds == TurnSpec => []QuestionComesLast
  <1>1. BuildInv => QuestionComesLast
    <2>1. CASE phase = "built"
      BY <2>1, BuiltFromSources, BuiltEndsWithQuestion DEF QuestionComesLast
    <2>2. CASE phase # "built"
      BY <2>2 DEF QuestionComesLast, Context!QuestionComesLast
    <2> QED BY <2>1, <2>2
  <1> QED BY <1>1, BuildInvariance, PTL

\* What was disabled or archived before the build began is not in it.
THEOREM NothingWithdrawnHolds == TurnSpec => []NothingWithdrawn
  <1>1. BuildInv => NothingWithdrawn
    <2>1. CASE phase = "built"
      BY <2>1, BuiltFromSources, BuiltOfPresent DEF NothingWithdrawn
    <2>2. CASE phase # "built"
      BY <2>2 DEF NothingWithdrawn, Context!NothingWithdrawn
    <2> QED BY <2>1, <2>2
  <1> QED BY <1>1, BuildInvariance, PTL
=============================================================================
