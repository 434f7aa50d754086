------------------------- MODULE ChatSessionProofs -------------------------
(***************************************************************************)
(* Proofs that the safety properties of ChatSession hold for every choice  *)
(* of its constants.  Inv is the inductive invariant; besides the          *)
(* properties themselves it says what the controller relies on without     *)
(* testing it: where the answer of the live run stands, and which message  *)
(* its closure keeps as the original.  The action properties follow from   *)
(* AnswerInv, which adds that the original is unchanged until the run's    *)
(* stream begins.                                                          *)
(***************************************************************************)
EXTENDS ChatSession, SequenceTheorems, WellFoundedInduction, TLAPS

\* Numbers are those of runs already started.
NumbersOK ==
  /\ Len(runs) <= MaxRuns
  /\ activeRun \in {0, Len(runs)}
  /\ \A i \in DOMAIN messages : messages[i].id \in 1 .. Len(runs)

\* A run that keeps an original answer finds it in the session, at rest.
OriginalOK(run) ==
  run.original # NoMessage =>
    /\ run.mode # "submit"
    /\ IsAnswer(run.original, run.answer)
    /\ run.original.streamStatus # "streaming"
    /\ Positions(messages, run.answer) # {}

\* A run without one uses its own number.
FreshOK(r, run) ==
  run.original = NoMessage =>
    /\ run.answer = r
    /\ run.mode \in {"submit", "retry"}
    /\ run.stage # "stream" => Positions(messages, r) = {}
    /\ run.mode = "retry" => run.stage # "stream"

\* The question of a submitted run is last, or last but for its answer.
SubmitOK(r, run) ==
  run.mode = "submit" =>
    /\ messages # <<>>
    /\ run.stage # "stream" => messages[Len(messages)] = UserMessage(r)
    /\ run.stage = "stream" => Positions(messages, r) = {Len(messages)}

LiveOK ==
  \A r \in DOMAIN runs :
    runs[r].stage # "done" =>
      OriginalOK(runs[r]) /\ FreshOK(r, runs[r]) /\ SubmitOK(r, runs[r])

Inv == TypeOK /\ OneRunAtATime /\ AnswerFollowsQuestion /\ NumbersOK /\ LiveOK
-----------------------------------------------------------------------------
(* The operations of ConversationSession.                                  *)

\* find returns a message of the session with the number asked for, or none.
LEMMA FindFacts ==
  ASSUME NEW msgs \in Seq(Message), NEW n
  PROVE  /\ Find(msgs, n) = NoMessage <=> Positions(msgs, n) = {}
         /\ Find(msgs, n) # NoMessage =>
              /\ Find(msgs, n) \in Message
              /\ IsAnswer(Find(msgs, n), n)
<1>1. CASE Positions(msgs, n) = {}
  BY <1>1 DEF Find
<1>2. CASE Positions(msgs, n) # {}
  <2>1. PICK i \in Positions(msgs, n) : Find(msgs, n) = msgs[i]
    BY <1>2 DEF Find
  <2>2. i \in DOMAIN msgs /\ IsAnswer(msgs[i], n)
    BY <2>1 DEF Positions
  <2>3. msgs[i] \in Message
    BY <2>2, ElementOfSeq
  <2>. QED BY <1>2, <2>1, <2>2, <2>3, NoMessageAssumption
<1>. QED BY <1>1, <1>2

\* replaceMessage keeps the order and number of the messages.
LEMMA ReplaceFacts ==
  ASSUME NEW msgs \in Seq(Message), NEW n, NEW m \in Message
  PROVE  /\ ReplaceMessage(msgs, n, m) \in Seq(Message)
         /\ Len(ReplaceMessage(msgs, n, m)) = Len(msgs)
         /\ DOMAIN ReplaceMessage(msgs, n, m) = DOMAIN msgs
         /\ \A i \in DOMAIN msgs :
              ReplaceMessage(msgs, n, m)[i]
                = IF IsAnswer(msgs[i], n) THEN m ELSE msgs[i]
<1>. DEFINE new == ReplaceMessage(msgs, n, m)
<1>1. DOMAIN msgs = 1 .. Len(msgs) /\ Len(msgs) \in Nat
  BY LenProperties
<1>2. DOMAIN new = 1 .. Len(msgs)
  BY <1>1 DEF ReplaceMessage
<1>3. \A i \in 1 .. Len(msgs) :
        new[i] = IF IsAnswer(msgs[i], n) THEN m ELSE msgs[i]
  BY <1>1 DEF ReplaceMessage, Positions
<1>4. \A i \in 1 .. Len(msgs) : new[i] \in Message
  BY <1>1, <1>3, ElementOfSeq
<1>5. new \in [1 .. Len(msgs) -> Message]
  BY <1>2, <1>4 DEF ReplaceMessage
<1>6. new \in Seq(Message)
  BY <1>1, <1>5, SeqDef
<1>7. Len(new) = Len(msgs)
  BY <1>1, <1>2, <1>6, LenProperties
<1>. QED BY <1>1, <1>2, <1>3, <1>6, <1>7

\* Replacing an answer by one of the same number disturbs no pairing.
LEMMA ReplaceKeepsPairs ==
  ASSUME NEW msgs \in Seq(Message), NEW n, NEW m \in Message,
         Paired(msgs), IsAnswer(m, n)
  PROVE  /\ Paired(ReplaceMessage(msgs, n, m))
         /\ \A k : Positions(ReplaceMessage(msgs, n, m), k) = Positions(msgs, k)
<1>. DEFINE new == ReplaceMessage(msgs, n, m)
<1>1. /\ DOMAIN new = DOMAIN msgs
      /\ \A i \in DOMAIN msgs :
           new[i] = IF IsAnswer(msgs[i], n) THEN m ELSE msgs[i]
  BY ReplaceFacts
<1>2. \A i \in DOMAIN msgs :
        new[i].role = msgs[i].role /\ new[i].id = msgs[i].id
  BY <1>1 DEF IsAnswer
<1>3. ASSUME NEW i \in DOMAIN new, new[i].role = "assistant"
      PROVE  i > 1 /\ new[i - 1] = UserMessage(new[i].id)
  <2>1. i > 1 /\ msgs[i - 1] = UserMessage(msgs[i].id)
    BY <1>1, <1>2, <1>3 DEF Paired
  <2>2. i - 1 \in DOMAIN msgs
    BY <1>1, <2>1, LenProperties
  <2>3. ~IsAnswer(msgs[i - 1], n)
    BY <2>1 DEF IsAnswer, UserMessage
  <2>. QED BY <1>1, <1>2, <2>1, <2>2, <2>3
<1>4. \A i, j \in DOMAIN new :
        new[i].role = new[j].role /\ new[i].id = new[j].id => i = j
  BY <1>1, <1>2 DEF Paired
<1>5. Paired(new)
  BY <1>3, <1>4 DEF Paired
<1>6. \A k : Positions(new, k) = Positions(msgs, k)
  BY <1>1, <1>2 DEF Positions, IsAnswer
<1>. QED BY <1>5, <1>6

\* Removing the last message leaves the ones before it where they are.
LEMMA RemoveLast ==
  ASSUME NEW msgs \in Seq(Message), NEW n, Positions(msgs, n) = {Len(msgs)}
  PROVE  /\ RemoveMessage(msgs, n) \in Seq(Message)
         /\ Len(msgs) \in Nat \ {0}
         /\ Len(RemoveMessage(msgs, n)) = Len(msgs) - 1
         /\ \A i \in 1 .. Len(msgs) - 1 : RemoveMessage(msgs, n)[i] = msgs[i]
<1>. DEFINE k == Len(msgs)
            front == SubSeq(msgs, 1, k - 1)
            back == SubSeq(msgs, k + 1, k)
<1>1. k \in Nat /\ k \in DOMAIN msgs /\ DOMAIN msgs = 1 .. k
  BY LenProperties DEF Positions
<1>2. RemoveMessage(msgs, n) = front \o back
  BY DEF RemoveMessage, RemoveAt
<1>3. back = <<>>
  BY <1>1, SubSeqProperties
<1>4. /\ front \in Seq(Message) /\ Len(front) = k - 1
      /\ \A i \in 1 .. k - 1 : front[i] = msgs[i]
  BY <1>1, SubSeqProperties
<1>5. front \o back = front
  BY <1>3, <1>4, ConcatEmptySeq
<1>. QED BY <1>1, <1>2, <1>4, <1>5

-----------------------------------------------------------------------------
(* Texts.                                                                  *)

\* A non-empty set of numbers up to n has a greatest element.
LEMMA Greatest ==
  ASSUME NEW n \in Nat, NEW T \in SUBSET (0 .. n), T # {}
  PROVE  \E x \in T : \A y \in T : y <= x
<1>. DEFINE D == {i \in Nat : \E t \in T : i = n - t}
<1>1. D # {}
  <2>1. PICK t \in T : TRUE
    OBVIOUS
  <2>2. n - t \in Nat
    OBVIOUS
  <2>. QED BY <2>1, <2>2
<1>2. PICK d \in D : \A e \in D : d <= e
  <2>. DEFINE R == OpToRel(<, Nat)
  <2>1. IsWellFoundedOn(R, Nat)
    BY NatLessThanWellFounded, Zenon
  <2>2. \A i, j \in Nat : i < j => <<i, j>> \in R
    BY DEF OpToRel
  <2>3. D \subseteq Nat
    OBVIOUS
  <2>. HIDE DEF R, D
  <2>4. \E d \in D : \A e \in D : ~(<<e, d>> \in R)
    BY <1>1, <2>1, <2>3, WFMin, Zenon
  <2>5. \A d, e \in D : ~(<<e, d>> \in R) => d <= e
    BY <2>2, <2>3
  <2>. QED BY <2>4, <2>5, Zenon
<1>3. PICK x \in T : d = n - x
  OBVIOUS
<1>4. ASSUME NEW y \in T
      PROVE  y <= x
  <2>1. n - y \in D
    OBVIOUS
  <2>2. n - x <= n - y
    BY <1>2, <1>3, <2>1
  <2>. QED BY <2>2
<1>. QED BY <1>4

\* appendWithoutDuplicate returns a text that begins with the existing one.
LEMMA AppendFacts ==
  ASSUME NEW existing \in Seq(Symbols), NEW incoming \in Seq(Symbols)
  PROVE  /\ AppendWithoutDuplicate(existing, incoming) \in Seq(Symbols)
         /\ IsPrefix(existing, AppendWithoutDuplicate(existing, incoming))
<1>. DEFINE T == Overlaps(existing, incoming)
            k == CHOOSE j \in T : \A l \in T : l <= j
            rest == SubSeq(incoming, k + 1, Len(incoming))
<1>1. Len(existing) \in Nat /\ Len(incoming) \in Nat
  BY LenProperties
<1>2. T \in SUBSET (0 .. Len(incoming))
  BY DEF Overlaps
<1>3. 0 \in T
  <2>1. SubSeq(existing, Len(existing) - 0 + 1, Len(existing)) = <<>>
    BY <1>1, SubSeqEmpty
  <2>2. SubSeq(incoming, 1, 0) = <<>>
    BY <1>1, SubSeqEmpty
  <2>. QED BY <1>1, <2>1, <2>2 DEF Overlaps
<1>4. k \in 0 .. Len(incoming)
  <2>1. \E j \in T : \A l \in T : l <= j
    BY <1>1, <1>2, <1>3, Greatest
  <2>2. k \in T
    BY <2>1
  <2>. QED BY <1>2, <2>2
<1>5. rest \in Seq(Symbols)
  <2>1. \A i \in k + 1 .. Len(incoming) : incoming[i] \in Symbols
    BY <1>1, <1>4, ElementOfSeq
  <2>. QED BY <1>1, <1>4, <2>1, SubSeqProperties
<1>6. AppendWithoutDuplicate(existing, incoming) = existing \o rest
  BY DEF AppendWithoutDuplicate
<1>7. /\ existing \o rest \in Seq(Symbols)
      /\ Len(existing \o rest) = Len(existing) + Len(rest)
      /\ \A i \in 1 .. Len(existing) : (existing \o rest)[i] = existing[i]
  BY <1>1, <1>5, ConcatProperties, LenProperties
<1>8. IsPrefix(existing, existing \o rest)
  <2>. HIDE DEF rest
  <2>1. Len(rest) \in Nat
    BY <1>5, LenProperties
  <2>2. Len(existing) <= Len(existing \o rest)
    BY <1>1, <1>7, <2>1
  <2>3. SubSeq(existing, 1, Len(existing)) = existing
    BY SubSeqFull
  <2>4. SubSeq(existing \o rest, 1, Len(existing)) = existing
    <3>. DEFINE t == existing \o rest
                p == SubSeq(t, 1, Len(existing))
    <3>1. \A i \in 1 .. Len(existing) : t[i] \in Symbols
      BY <1>7, <1>1, ElementOfSeq
    <3>2. /\ p \in Seq(Symbols) /\ Len(p) = Len(existing)
          /\ \A i \in 1 .. Len(existing) : p[i] = t[i]
      <4>. HIDE DEF t
      <4>. QED BY <3>1, <1>1, SubSeqProperties
    <3>. QED BY <3>2, <1>1, <1>7, SeqEqual
  <2>. QED BY <2>2, <2>3, <2>4 DEF IsPrefix
<1>. QED BY <1>6, <1>7, <1>8

-----------------------------------------------------------------------------
(* How a run ends: its answer is put to rest, taken back, or was never     *)
(* there.                                                                  *)

Outcome(msgs, n, new) ==
  \/ new = msgs /\ Positions(msgs, n) = {}
  \/ \E m \in Message :
       /\ IsAnswer(m, n) /\ m.streamStatus # "streaming"
       /\ new = ReplaceMessage(msgs, n, m)
  \/ Positions(msgs, n) = {Len(msgs)} /\ new = RemoveMessage(msgs, n)

\* What an outcome of the clean-up keeps: the type, the pairing of answers
\* with questions, and every other message's place and name.
LEMMA OutcomeFacts ==
  ASSUME NEW msgs \in Seq(Message), NEW n, NEW new,
         Paired(msgs), Outcome(msgs, n, new)
  PROVE  /\ new \in Seq(Message)
         /\ Paired(new)
         /\ \A i \in DOMAIN new :
              /\ i \in DOMAIN msgs
              /\ new[i].role = msgs[i].role /\ new[i].id = msgs[i].id
              /\ new[i].streamStatus = "streaming" =>
                   new[i] = msgs[i] /\ ~IsAnswer(msgs[i], n)
<1>. DOMAIN msgs = 1 .. Len(msgs) /\ Len(msgs) \in Nat
  BY LenProperties
<1>1. CASE new = msgs /\ Positions(msgs, n) = {}
  BY <1>1 DEF Positions
<1>2. ASSUME NEW m \in Message, IsAnswer(m, n), m.streamStatus # "streaming",
             new = ReplaceMessage(msgs, n, m)
      PROVE  /\ new \in Seq(Message)
             /\ Paired(new)
             /\ \A i \in DOMAIN new :
                  /\ i \in DOMAIN msgs
                  /\ new[i].role = msgs[i].role /\ new[i].id = msgs[i].id
                  /\ new[i].streamStatus = "streaming" =>
                       new[i] = msgs[i] /\ ~IsAnswer(msgs[i], n)
  BY <1>2, ReplaceFacts, ReplaceKeepsPairs DEF IsAnswer
<1>3. CASE Positions(msgs, n) = {Len(msgs)} /\ new = RemoveMessage(msgs, n)
  <2>1. /\ new \in Seq(Message)
        /\ DOMAIN new = 1 .. Len(msgs) - 1
        /\ Len(msgs) > 0
        /\ \A i \in 1 .. Len(msgs) - 1 : new[i] = msgs[i]
    BY <1>3, RemoveLast, LenProperties
  <2>2. \A i \in 1 .. Len(msgs) - 1 : ~IsAnswer(msgs[i], n)
    BY <1>3 DEF Positions
  <2>3. Paired(new)
    BY <2>1 DEF Paired
  <2>. QED BY <2>1, <2>2, <2>3
<1>. QED BY <1>1, <1>2, <1>3 DEF Outcome

\* What the clean-up code reads of the live run.
LEMMA LiveRunFacts ==
  ASSUME Inv, NEW r \in DOMAIN runs, runs[r].stage # "done"
  PROVE  /\ DOMAIN runs = 1 .. Len(runs) /\ Len(runs) \in Nat
         /\ r = Len(runs) /\ activeRun = r /\ sending
         /\ runs[r] \in ActiveRun
         /\ OriginalOK(runs[r]) /\ FreshOK(r, runs[r]) /\ SubmitOK(r, runs[r])
<1>1. DOMAIN runs = 1 .. Len(runs) /\ Len(runs) \in Nat /\ runs[r] \in ActiveRun
  BY LenProperties, ElementOfSeq DEF Inv, TypeOK
<1>2. activeRun = r /\ r # 0 /\ sending
  BY <1>1 DEF Inv, OneRunAtATime
<1>. QED BY <1>1, <1>2 DEF Inv, NumbersOK, LiveOK

\* A message with another stream status is a message.
LEMMA WithStatusType ==
  ASSUME NEW m \in Message,
         NEW st \in {"none", "streaming", "complete", "interrupted"}
  PROVE  /\ WithStatus(m, st) \in Message
         /\ WithStatus(m, st).streamStatus = st
         /\ \A n : IsAnswer(m, n) => IsAnswer(WithStatus(m, st), n)
BY DEF WithStatus, Message, IsAnswer

\* The catch block and markInterrupted put the answer of the run to rest.
LEMMA CleanUp ==
  ASSUME Inv, NEW r \in DOMAIN runs, runs[r].stage # "done"
  PROVE  LET n == runs[r].answer IN
         /\ Outcome(messages, n, Rollback(messages, runs[r]))
         /\ Outcome(messages, n,
                    MarkInterrupted(messages, runs[r], Find(messages, n)))
         /\ runs[r].stage = "context" =>
              Outcome(messages, n,
                      MarkInterrupted(messages, runs[r], runs[r].original))
<1>. DEFINE run == runs[r]
            n == run.answer
            current == Find(messages, n)
<1>1. /\ run \in ActiveRun
      /\ OriginalOK(run) /\ FreshOK(r, run) /\ SubmitOK(r, run)
  BY LiveRunFacts
<1>2. /\ messages \in Seq(Message)
      /\ current = NoMessage <=> Positions(messages, n) = {}
      /\ current # NoMessage => current \in Message /\ IsAnswer(current, n)
  BY FindFacts DEF Inv, TypeOK
<1>3. run.original # NoMessage =>
        /\ run.original \in Message /\ IsAnswer(run.original, n)
        /\ run.original.streamStatus # "streaming"
        /\ run.mode # "submit"
        /\ Positions(messages, n) # {}
  BY <1>1 DEF OriginalOK, ActiveRun
<1>4. run.original = NoMessage /\ Positions(messages, n) # {} =>
        run.mode = "submit" /\ Positions(messages, n) = {Len(messages)}
  BY <1>1 DEF FreshOK, SubmitOK, ActiveRun
<1>5. run.original = NoMessage /\ run.stage = "context" =>
        Positions(messages, n) = {}
  BY <1>1 DEF FreshOK
<1>6. RemoveMessage(messages, n) = messages \/ Positions(messages, n) # {}
  BY DEF RemoveMessage
<1>7. \A m \in Message : IsAnswer(m, n) =>
        /\ m.id = n
        /\ Outcome(messages, n,
             ReplaceMessage(messages, n, WithStatus(m, "interrupted")))
        /\ m.streamStatus # "streaming" =>
             Outcome(messages, n, ReplaceMessage(messages, n, m))
  BY WithStatusType DEF Outcome, IsAnswer
<1>8. Positions(messages, n) = {} => Outcome(messages, n, messages)
  BY DEF Outcome
<1>9. Positions(messages, n) = {Len(messages)} =>
        Outcome(messages, n, RemoveMessage(messages, n))
  BY DEF Outcome
<1>. HIDE DEF run, n, current
<1>10. Outcome(messages, n, Rollback(messages, run))
  BY <1>2, <1>3, <1>4, <1>6, <1>7, <1>8, <1>9 DEF Rollback, n, current
<1>11. Outcome(messages, n, MarkInterrupted(messages, run, current))
  BY <1>2, <1>3, <1>4, <1>6, <1>7, <1>8, <1>9 DEF MarkInterrupted
<1>12. run.stage = "context" =>
         Outcome(messages, n, MarkInterrupted(messages, run, run.original))
  BY <1>2, <1>3, <1>5, <1>7, <1>8 DEF MarkInterrupted
<1>. QED BY <1>10, <1>11, <1>12 DEF run, n, current

\* Ending the live run on a session put to rest keeps the invariant.
LEMMA EndStep ==
  ASSUME Inv, NEW r \in DOMAIN runs, runs[r].stage # "done",
         NEW st \in {"completed", "interrupted", "error"},
         EndRun(r, st), Outcome(messages, runs[r].answer, messages')
  PROVE  Inv'
<1>1. /\ DOMAIN runs = 1 .. Len(runs) /\ Len(runs) \in Nat
      /\ r = Len(runs) /\ activeRun = r /\ sending
      /\ runs[r] \in ActiveRun
  BY LiveRunFacts
<1>2. /\ messages' \in Seq(Message)
      /\ Paired(messages')
      /\ \A i \in DOMAIN messages' :
           /\ i \in DOMAIN messages
           /\ messages'[i].id = messages[i].id
           /\ messages'[i].streamStatus = "streaming" =>
                messages'[i] = messages[i]
                  /\ ~IsAnswer(messages[i], runs[r].answer)
  BY OutcomeFacts DEF Inv, TypeOK, AnswerFollowsQuestion
<1>3. activeRun' = 0 /\ sending' = FALSE /\ status' = st
  BY <1>1 DEF EndRun
<1>. DEFINE ended == [runs[r] EXCEPT !.stage = "done", !.original = NoMessage]
<1>4. ended \in ActiveRun /\ ended.stage = "done"
  BY <1>1 DEF ActiveRun, Stages
<1>5. /\ runs' \in Seq(ActiveRun)
      /\ Len(runs') = Len(runs)
      /\ DOMAIN runs' = DOMAIN runs
      /\ \A q \in DOMAIN runs : runs'[q] = IF q = r THEN ended ELSE runs[q]
  <2>1. runs' = [runs EXCEPT ![r] = ended]
    BY <1>1 DEF EndRun
  <2>2. runs \in Seq(ActiveRun) /\ r \in 1 .. Len(runs)
    BY <1>1 DEF Inv, TypeOK
  <2>. HIDE DEF ended
  <2>3. /\ [runs EXCEPT ![r] = ended] \in Seq(ActiveRun)
        /\ Len([runs EXCEPT ![r] = ended]) = Len(runs)
        /\ \A q \in 1 .. Len(runs) : [runs EXCEPT ![r] = ended][q]
             = IF q = r THEN ended ELSE runs[q]
    BY <1>4, <2>2, ExceptSeq
  <2>. QED BY <1>1, <2>1, <2>3
<1>. HIDE DEF ended
<1>6. \A q \in DOMAIN runs' : runs'[q].stage = "done"
  <2>. TAKE q \in DOMAIN runs'
  <2>1. CASE q = r
    BY <1>4, <1>5, <2>1
  <2>2. CASE q # r
    BY <1>1, <1>5, <2>2 DEF Inv, OneRunAtATime
  <2>. QED BY <2>1, <2>2
<1>7. TypeOK'
  <2>1. activeRun' \in 0 .. MaxRuns
    BY <1>3, BoundsAssumption
  <2>2. status' \in Statuses
    BY <1>3 DEF Statuses
  <2>. QED BY <1>2, <1>3, <1>5, <2>1, <2>2, Zenon DEF TypeOK
<1>8. OneRunAtATime'
  <2>1. \A q \in DOMAIN runs' : q # 0
    BY <1>1, <1>5
  <2>2. \A i \in DOMAIN messages' : messages'[i].streamStatus # "streaming"
    BY <1>1, <1>2 DEF Inv, OneRunAtATime
  <2>. QED BY <1>3, <1>6, <2>1, <2>2 DEF OneRunAtATime
<1>9. AnswerFollowsQuestion'
  BY <1>2 DEF AnswerFollowsQuestion
<1>10. NumbersOK'
  BY <1>2, <1>3, <1>5 DEF Inv, NumbersOK
<1>11. LiveOK'
  BY <1>6 DEF LiveOK
<1>. QED BY <1>7, <1>8, <1>9, <1>10, <1>11 DEF Inv

\* Without a live run the controller is idle and no answer is streaming.
LEMMA RestFacts ==
  ASSUME Inv, ~sending
  PROVE  /\ activeRun = 0
         /\ \A r \in DOMAIN runs : runs[r].stage = "done"
         /\ \A i \in DOMAIN messages : messages[i].streamStatus # "streaming"
<1>1. activeRun = 0
  BY DEF Inv, OneRunAtATime
<1>2. \A r \in DOMAIN runs : r # 0
  BY LenProperties DEF Inv, TypeOK
<1>. QED BY <1>1, <1>2 DEF Inv, OneRunAtATime

\* What startRun stores.
LEMMA StartFacts ==
  ASSUME Inv, MayStart, NEW mode \in Modes, NEW answer \in Nat,
         NEW original \in Message \cup {NoMessage},
         StartRun(mode, answer, original)
  PROVE  /\ NextRequest \in Nat /\ NextRequest = Len(runs)+ 1
         /\ Len(runs') = NextRequest /\ DOMAIN runs' = 1 .. NextRequest
         /\ runs' \in Seq(ActiveRun)
         /\ runs'[NextRequest] =
              [mode |-> mode, answer |-> answer, original |-> original,
               stopRequested |-> FALSE, stage |-> "context"]
         /\ \A q \in DOMAIN runs' :
              q # NextRequest => runs'[q].stage = "done"
         /\ activeRun' = NextRequest /\ sending' /\ status' = "streaming"
         /\ NextRequest \in 1 .. MaxRuns
<1>. DEFINE run == [mode |-> mode, answer |-> answer, original |-> original,
                    stopRequested |-> FALSE, stage |-> "context"]
<1>1. run \in ActiveRun
  BY DEF ActiveRun, Stages
<1>2. runs \in Seq(ActiveRun) /\ Len(runs) \in Nat
      /\ DOMAIN runs = 1 .. Len(runs)
  BY LenProperties DEF Inv, TypeOK
<1>3. runs' = Append(runs, run)
  BY DEF StartRun
<1>. HIDE DEF run
<1>4. /\ runs' \in Seq(ActiveRun)
      /\ Len(runs') = Len(runs) + 1
      /\ \A i \in 1 .. Len(runs) : runs'[i] = runs[i]
      /\ runs'[Len(runs) + 1] = run
  BY <1>1, <1>2, <1>3, AppendProperties
<1>5. DOMAIN runs' = 1 .. Len(runs) + 1
  BY <1>2, <1>4, LenProperties
<1>6. \A q \in 1 .. Len(runs) : runs[q].stage = "done"
  BY <1>2, RestFacts DEF MayStart, Idle
<1>7. activeRun' = NextRequest /\ sending' = TRUE /\ status' = "streaming"
  BY DEF StartRun
<1>8. Len(runs) < MaxRuns
  BY DEF MayStart
<1>. QED BY <1>2, <1>4, <1>5, <1>6, <1>7, <1>8, BoundsAssumption
         DEF NextRequest, run

-----------------------------------------------------------------------------
(* The initial state and the user's operations.                            *)

\* A new session satisfies the invariant.
LEMMA InitInv == Init => Inv
<1>. SUFFICES ASSUME Init PROVE Inv
  OBVIOUS
<1>1. /\ messages \in Seq(Message) /\ DOMAIN messages = {}
      /\ runs \in Seq(ActiveRun) /\ DOMAIN runs = {} /\ Len(runs) = 0
  BY EmptySeq DEF Init
<1>2. status = "idle" /\ sending = FALSE /\ activeRun = 0
  BY DEF Init, StatusOf
<1>3. TypeOK
  <2>1. activeRun \in 0 .. MaxRuns /\ status \in Statuses
    BY <1>2, BoundsAssumption DEF Statuses
  <2>. QED BY <1>1, <1>2, <2>1, Zenon DEF TypeOK
<1>4. OneRunAtATime /\ AnswerFollowsQuestion
  BY <1>1, <1>2 DEF OneRunAtATime, AnswerFollowsQuestion, Paired
<1>5. NumbersOK /\ LiveOK
  BY <1>1, <1>2, BoundsAssumption DEF NumbersOK, LiveOK
<1>. QED BY <1>3, <1>4, <1>5 DEF Inv

\* The greatest position of an answer is the position of an answer.
LEMMA LastAnswerFacts ==
  ASSUME TypeOK, AnswerPositions # {}
  PROVE  /\ LastAnswer \in DOMAIN messages
         /\ messages[LastAnswer] \in Message
         /\ messages[LastAnswer].role = "assistant"
<1>1. DOMAIN messages = 1 .. Len(messages) /\ Len(messages) \in Nat
  BY LenProperties DEF TypeOK
<1>2. AnswerPositions \in SUBSET (0 .. Len(messages))
  BY <1>1 DEF AnswerPositions
<1>3. \E i \in AnswerPositions : \A j \in AnswerPositions : j <= i
  BY <1>1, <1>2, Greatest
<1>4. LastAnswer \in AnswerPositions
  BY <1>3 DEF LastAnswer
<1>. QED BY <1>1, <1>4, ElementOfSeq DEF TypeOK, AnswerPositions

\* submit adds a question and starts a run.
LEMMA SubmitStep == Inv /\ Submit => Inv'
<1>. SUFFICES ASSUME Inv, Submit PROVE Inv'
  OBVIOUS
<1>0. PICK n \in Nat : n = NextRequest
  BY LenProperties DEF NextRequest, Inv, TypeOK
<1>. DEFINE question == UserMessage(n)
<1>1. MayStart /\ ~sending /\ StartRun("submit", n, NoMessage)
  BY <1>0 DEF Submit, MayStart, Idle
<1>2. n = Len(runs) + 1 /\ Len(runs) \in Nat
  BY <1>0, LenProperties DEF NextRequest, Inv, TypeOK
<1>3. /\ Len(runs') = n /\ DOMAIN runs' = 1 .. n
      /\ runs' \in Seq(ActiveRun)
      /\ runs'[n] = [mode |-> "submit", answer |-> n, original |-> NoMessage,
                     stopRequested |-> FALSE, stage |-> "context"]
      /\ \A q \in DOMAIN runs' : q # n => runs'[q].stage = "done"
      /\ activeRun' = n /\ sending' /\ status' = "streaming"
      /\ n \in 1 .. MaxRuns
  BY <1>0, <1>1, StartFacts DEF Modes
<1>4. question \in Message
  BY <1>2, EmptySeq DEF UserMessage, Message
<1>5. messages \in Seq(Message) /\ Len(messages) \in Nat
      /\ DOMAIN messages = 1 .. Len(messages)
  BY LenProperties DEF Inv, TypeOK
<1>. HIDE DEF question
<1>6. /\ messages' \in Seq(Message) /\ messages' # <<>>
      /\ Len(messages') = Len(messages) + 1
      /\ DOMAIN messages' = 1 .. Len(messages) + 1
      /\ \A i \in 1 .. Len(messages) : messages'[i] = messages[i]
      /\ messages'[Len(messages) + 1] = question
  <2>1. messages' = Append(messages, question)
    BY <1>0 DEF Submit, question
  <2>. QED BY <1>4, <1>5, <2>1, AppendProperties, LenProperties
<1>7. /\ question.role = "user" /\ question.id = n
      /\ question.streamStatus = "none"
  BY DEF UserMessage, question
<1>8. \A i \in DOMAIN messages :
        messages[i].id \in 1 .. Len(runs)
          /\ messages[i].streamStatus # "streaming"
  BY <1>1, RestFacts DEF Inv, NumbersOK
<1>9. TypeOK'
  <2>1. activeRun' \in 0 .. MaxRuns /\ status' \in Statuses
    BY <1>3 DEF Statuses
  <2>2. sending' \in BOOLEAN
    BY <1>1 DEF StartRun
  <2>. QED BY <1>3, <1>6, <2>1, <2>2, Zenon DEF TypeOK
<1>10. OneRunAtATime'
  <2>1. \A i \in DOMAIN messages' : messages'[i].streamStatus # "streaming"
    BY <1>5, <1>6, <1>7, <1>8
  <2>2. \A q \in DOMAIN runs' : runs'[q].stage # "done" <=> activeRun' = q
    BY <1>3
  <2>. QED BY <1>2, <1>3, <2>1, <2>2 DEF OneRunAtATime
<1>11. AnswerFollowsQuestion'
  <2>1. Paired(messages)
    BY DEF Inv, AnswerFollowsQuestion
  <2>2. ASSUME NEW i \in DOMAIN messages', messages'[i].role = "assistant"
        PROVE  i > 1 /\ messages'[i - 1] = UserMessage(messages'[i].id)
    <3>1. i \in 1 .. Len(messages)
      BY <1>5, <1>6, <1>7, <2>2
    <3>2. i > 1 /\ messages[i - 1] = UserMessage(messages[i].id)
      BY <1>5, <1>6, <2>1, <2>2, <3>1 DEF Paired
    <3>. QED BY <1>5, <1>6, <3>1, <3>2
  <2>3. ASSUME NEW i \in DOMAIN messages', NEW j \in DOMAIN messages',
               messages'[i].role = messages'[j].role,
               messages'[i].id = messages'[j].id
        PROVE  i = j
    BY <1>2, <1>5, <1>6, <1>7, <1>8, <2>1, <2>3 DEF Paired
  <2>. QED BY <2>2, <2>3 DEF AnswerFollowsQuestion, Paired
<1>12. NumbersOK'
  BY <1>2, <1>3, <1>5, <1>6, <1>7, <1>8 DEF NumbersOK
<1>13. LiveOK'
  <2>1. Positions(messages', n) = {}
    BY <1>2, <1>5, <1>6, <1>7, <1>8 DEF Positions, IsAnswer
  <2>2. OriginalOK(runs[n])' /\ FreshOK(n, runs[n])'
    BY <1>3, <2>1 DEF OriginalOK, FreshOK
  <2>3. SubmitOK(n, runs[n])'
    BY <1>3, <1>5, <1>6 DEF SubmitOK, question
  <2>4. \A q \in DOMAIN runs' : runs'[q].stage # "done" => q = n
    BY <1>3
  <2>. QED BY <2>2, <2>3, <2>4 DEF LiveOK
<1>. QED BY <1>9, <1>10, <1>11, <1>12, <1>13 DEF Inv

\* Starting a run that adds no message: on the last answer, or, for a retry
\* in a session without answers, on a number of its own.
LEMMA RestartStep ==
  ASSUME Inv, MayStart, UNCHANGED messages,
         NEW mode \in Modes, NEW answer \in Nat,
         NEW original \in Message \cup {NoMessage},
         StartRun(mode, answer, original),
         \/ /\ mode = "retry" /\ original = NoMessage
            /\ answer = NextRequest
         \/ /\ mode # "submit" /\ answer = original.id
            /\ \E i \in DOMAIN messages :
                 original = messages[i] /\ messages[i].role = "assistant"
  PROVE  Inv'
<1>0. PICK n \in Nat : n = NextRequest
  BY LenProperties DEF NextRequest, Inv, TypeOK
<1>1. n = Len(runs) + 1 /\ Len(runs) \in Nat
  BY <1>0, LenProperties DEF NextRequest, Inv, TypeOK
<1>2. /\ Len(runs') = n /\ DOMAIN runs' = 1 .. n
      /\ runs' \in Seq(ActiveRun)
      /\ runs'[n] = [mode |-> mode, answer |-> answer, original |-> original,
                     stopRequested |-> FALSE, stage |-> "context"]
      /\ \A q \in DOMAIN runs' : q # n => runs'[q].stage = "done"
      /\ activeRun' = n /\ sending' /\ status' = "streaming"
      /\ n \in 1 .. MaxRuns
  BY <1>0, StartFacts
<1>3. messages' = messages /\ messages \in Seq(Message)
  BY DEF Inv, TypeOK
<1>4. \A i \in DOMAIN messages :
        messages[i].id \in 1 .. Len(runs)
          /\ messages[i].streamStatus # "streaming"
  BY RestFacts DEF MayStart, Idle, Inv, NumbersOK
<1>5. TypeOK'
  <2>1. activeRun' \in 0 .. MaxRuns /\ status' \in Statuses
    BY <1>2 DEF Statuses
  <2>2. sending' \in BOOLEAN
    BY DEF StartRun
  <2>. QED BY <1>2, <1>3, <2>1, <2>2, Zenon DEF TypeOK
<1>6. OneRunAtATime'
  <2>1. \A q \in DOMAIN runs' : runs'[q].stage # "done" <=> activeRun' = q
    BY <1>2
  <2>. QED BY <1>1, <1>2, <1>3, <1>4, <2>1 DEF OneRunAtATime
<1>7. AnswerFollowsQuestion'
  BY <1>3 DEF Inv, AnswerFollowsQuestion
<1>8. NumbersOK'
  BY <1>1, <1>2, <1>3, <1>4 DEF NumbersOK
<1>9. LiveOK'
  <2>1. original = NoMessage => answer = n /\ mode = "retry"
    BY <1>0, <1>3, NoMessageAssumption, ElementOfSeq, LenProperties
  <2>2. original # NoMessage =>
          /\ mode # "submit"
          /\ IsAnswer(original, answer)
          /\ original.streamStatus # "streaming"
          /\ Positions(messages, answer) # {}
    BY <1>4 DEF IsAnswer, Positions
  <2>3. Positions(messages, n) = {}
    BY <1>1, <1>4 DEF Positions, IsAnswer
  <2>4. OriginalOK(runs[n])'
    BY <1>2, <1>3, <2>2 DEF OriginalOK
  <2>5. FreshOK(n, runs[n])' /\ SubmitOK(n, runs[n])'
    BY <1>2, <1>3, <2>1, <2>2, <2>3 DEF FreshOK, SubmitOK
  <2>6. \A q \in DOMAIN runs' : runs'[q].stage # "done" => q = n
    BY <1>2
  <2>. QED BY <2>4, <2>5, <2>6 DEF LiveOK
<1>. QED BY <1>5, <1>6, <1>7, <1>8, <1>9 DEF Inv

\* continue, regenerate and retry start a run on the last answer.
LEMMA LastAnswerRestart ==
  ASSUME Inv, MayStart, UNCHANGED messages, AnswerPositions # {},
         NEW mode \in Modes \ {"submit"},
         StartRun(mode, messages[LastAnswer].id, messages[LastAnswer])
  PROVE  Inv'
<1>1. PICK i \in DOMAIN messages : i = LastAnswer
  BY LastAnswerFacts DEF Inv
<1>2. messages[i] \in Message /\ messages[i].role = "assistant"
  BY <1>1, LastAnswerFacts DEF Inv
<1>3. PICK m \in Message : m = messages[i]
  BY <1>2
<1>4. m.id \in Nat
  BY DEF Message
<1>5. StartRun(mode, m.id, m)
  BY <1>1, <1>3
<1>. QED BY <1>2, <1>3, <1>4, <1>5, RestartStep

\* continue starts a run on the last answer.
LEMMA ContinueStep == Inv /\ Continue => Inv'
BY LastAnswerRestart DEF Continue, HasTurn, Modes

\* regenerate starts a run on the last answer.
LEMMA RegenerateStep == Inv /\ Regenerate => Inv'
BY LastAnswerRestart DEF Regenerate, HasTurn, Modes

\* retry starts a run on the last answer, or on one there is not yet.
LEMMA RetryStep == Inv /\ Retry => Inv'
<1>. SUFFICES ASSUME Inv, Retry PROVE Inv'
  OBVIOUS
<1>1. CASE AnswerPositions # {}
  BY <1>1, LastAnswerRestart DEF Retry, Modes
<1>2. CASE AnswerPositions = {}
  <2>1. PICK n \in Nat : n = NextRequest
    BY LenProperties DEF NextRequest, Inv, TypeOK
  <2>2. StartRun("retry", n, NoMessage) /\ MayStart /\ UNCHANGED messages
    BY <1>2, <2>1 DEF Retry
  <2>. QED BY <2>1, <2>2, RestartStep DEF Modes
<1>. QED BY <1>1, <1>2

\* clear empties the session when no run is live.
LEMMA ClearStep == Inv /\ Clear => Inv'
<1>. SUFFICES ASSUME Inv, Clear PROVE Inv'
  OBVIOUS
<1>1. /\ messages' \in Seq(Message) /\ DOMAIN messages' = {}
      /\ status' = "idle"
      /\ UNCHANGED <<sending, activeRun, runs>>
  BY EmptySeq DEF Clear
<1>2. ~sending /\ \A q \in DOMAIN runs : runs[q].stage = "done"
  BY RestFacts DEF Clear, Idle
<1>3. TypeOK'
  <2>1. status' \in Statuses
    BY <1>1 DEF Statuses
  <2>. QED BY <1>1, <2>1, Zenon DEF Inv, TypeOK
<1>4. OneRunAtATime' /\ AnswerFollowsQuestion'
  BY <1>1, <1>2 DEF Inv, OneRunAtATime, AnswerFollowsQuestion, Paired
<1>5. NumbersOK' /\ LiveOK'
  BY <1>1, <1>2 DEF Inv, NumbersOK, LiveOK
<1>. QED BY <1>3, <1>4, <1>5 DEF Inv

\* A new controller on the stored conversation starts at rest.
LEMMA ReopenStep == Inv /\ Reopen => Inv'
<1>. SUFFICES ASSUME Inv, Reopen PROVE Inv'
  OBVIOUS
<1>1. status' \in {"idle", "interrupted", "completed"}
      /\ UNCHANGED <<messages, sending, activeRun, runs>>
  BY DEF Reopen, StatusOf
<1>2. ~sending
  BY DEF Reopen, Idle
<1>3. TypeOK'
  <2>1. status' \in Statuses
    BY <1>1 DEF Statuses
  <2>. QED BY <1>1, <2>1, Zenon DEF Inv, TypeOK
<1>4. OneRunAtATime'
  BY <1>1, <1>2 DEF Inv, OneRunAtATime
<1>5. AnswerFollowsQuestion' /\ NumbersOK'
  BY <1>1 DEF Inv, AnswerFollowsQuestion, NumbersOK
<1>6. LiveOK'
  BY <1>1 DEF Inv, LiveOK, OriginalOK, FreshOK, SubmitOK
<1>. QED BY <1>3, <1>4, <1>5, <1>6 DEF Inv

-----------------------------------------------------------------------------
(* The steps of the live run that do not end it.                           *)

LiveStep(r, run) ==
  /\ UNCHANGED <<status, sending, activeRun>>
  /\ runs' = [runs EXCEPT ![r] = run]

\* What is left to show of such a step.
LEMMA LiveStepInv ==
  ASSUME Inv, NEW r \in DOMAIN runs, runs[r].stage # "done",
         NEW run \in ActiveRun, run.stage # "done", LiveStep(r, run),
         messages' \in Seq(Message), Paired(messages'),
         \A i \in DOMAIN messages' :
           /\ messages'[i].id \in 1 .. Len(runs)
           /\ messages'[i].streamStatus = "streaming" =>
                run.stage = "stream" /\ IsAnswer(messages'[i], run.answer),
         OriginalOK(run)', FreshOK(r, run)', SubmitOK(r, run)'
  PROVE  Inv'
<1>1. /\ DOMAIN runs = 1 .. Len(runs) /\ Len(runs) \in Nat
      /\ r = Len(runs) /\ activeRun = r /\ sending
  BY LiveRunFacts
<1>2. /\ runs' \in Seq(ActiveRun)
      /\ Len(runs') = Len(runs)
      /\ DOMAIN runs' = DOMAIN runs
      /\ \A q \in DOMAIN runs : runs'[q] = IF q = r THEN run ELSE runs[q]
  <2>1. runs \in Seq(ActiveRun) /\ r \in 1 .. Len(runs)
    BY <1>1 DEF Inv, TypeOK
  <2>2. /\ [runs EXCEPT ![r] = run] \in Seq(ActiveRun)
        /\ Len([runs EXCEPT ![r] = run]) = Len(runs)
        /\ \A q \in 1 .. Len(runs) : [runs EXCEPT ![r] = run][q]
             = IF q = r THEN run ELSE runs[q]
    BY <2>1, ExceptSeq
  <2>. QED BY <1>1, <2>2 DEF LiveStep
<1>3. UNCHANGED <<status, sending, activeRun>>
  BY DEF LiveStep
<1>4. \A q \in DOMAIN runs : runs'[q].stage # "done" <=> q = r
  BY <1>1, <1>2 DEF Inv, OneRunAtATime
<1>5. TypeOK'
  BY <1>2, <1>3, Zenon DEF Inv, TypeOK
<1>6. OneRunAtATime'
  BY <1>1, <1>2, <1>3, <1>4 DEF Inv, OneRunAtATime
<1>7. AnswerFollowsQuestion'
  BY DEF AnswerFollowsQuestion
<1>8. NumbersOK'
  BY <1>2, <1>3 DEF Inv, NumbersOK
<1>9. LiveOK'
  BY <1>2, <1>4 DEF LiveOK
<1>. QED BY <1>5, <1>6, <1>7, <1>8, <1>9 DEF Inv

\* A step that changes neither the messages nor what run r is about.
LEMMA QuietStep ==
  ASSUME Inv, NEW r \in DOMAIN runs, runs[r].stage # "done",
         UNCHANGED messages,
         NEW run \in ActiveRun, LiveStep(r, run),
         run.mode = runs[r].mode, run.answer = runs[r].answer,
         run.original = runs[r].original,
         \/ run.stage = runs[r].stage
         \/ runs[r].stage = "context" /\ run.stage = "request"
  PROVE  Inv'
<1>1. OriginalOK(runs[r]) /\ FreshOK(r, runs[r]) /\ SubmitOK(r, runs[r])
      /\ activeRun = r
  BY LiveRunFacts
<1>2. OriginalOK(run)' /\ FreshOK(r, run)' /\ SubmitOK(r, run)'
  BY <1>1 DEF OriginalOK, FreshOK, SubmitOK
<1>3. \A i \in DOMAIN messages :
        /\ messages[i].id \in 1 .. Len(runs)
        /\ messages[i].streamStatus = "streaming" =>
             runs[r].stage = "stream" /\ IsAnswer(messages[i], runs[r].answer)
  BY <1>1 DEF Inv, NumbersOK, OneRunAtATime
<1>4. messages \in Seq(Message) /\ Paired(messages)
  BY DEF Inv, TypeOK, AnswerFollowsQuestion
<1>. QED BY <1>2, <1>3, <1>4, LiveStepInv

\* stop marks the live run only.
LEMMA StopStep == Inv /\ Stop => Inv'
<1>. SUFFICES ASSUME Inv, Stop PROVE Inv'
  OBVIOUS
<1>1. PICK r \in DOMAIN runs : r = activeRun
  BY LenProperties DEF Stop, Inv, TypeOK, NumbersOK
<1>2. runs[r].stage # "done"
  BY <1>1 DEF Inv, OneRunAtATime
<1>3. runs[r] \in ActiveRun
  BY <1>2, LiveRunFacts
<1>4. PICK run \in ActiveRun : run = [runs[r] EXCEPT !.stopRequested = TRUE]
  BY <1>3 DEF ActiveRun
<1>5. run.mode = runs[r].mode /\ run.answer = runs[r].answer
      /\ run.original = runs[r].original /\ run.stage = runs[r].stage
  BY <1>3, <1>4 DEF ActiveRun
<1>6. LiveStep(r, run) /\ UNCHANGED messages
  BY <1>1, <1>4 DEF Stop, LiveStep
<1>. QED BY <1>2, <1>5, <1>6, QuietStep

\* The context is there: the run goes on to the request.
LEMMA ContextBuiltStep ==
  ASSUME NEW r, Inv, ContextBuilt(r) PROVE Inv'
<1>1. r \in DOMAIN runs /\ runs[r].stage = "context"
  BY DEF ContextBuilt, AtStage
<1>2. runs[r] \in ActiveRun
  BY <1>1, LiveRunFacts
<1>3. PICK run \in ActiveRun : run = [runs[r] EXCEPT !.stage = "request"]
  BY <1>2 DEF ActiveRun, Stages
<1>4. run.mode = runs[r].mode /\ run.answer = runs[r].answer
      /\ run.original = runs[r].original /\ run.stage = "request"
  BY <1>2, <1>3 DEF ActiveRun
<1>5. LiveStep(r, run) /\ UNCHANGED messages
  BY <1>3 DEF ContextBuilt, LiveStep
<1>. QED BY <1>1, <1>4, <1>5, QuietStep

-----------------------------------------------------------------------------
(* The steps that end a run, and those that write the answer.              *)

\* The catch block ends the run, whatever it was waiting for.
LEMMA CatchStep ==
  ASSUME Inv, NEW r \in DOMAIN runs, runs[r].stage # "done",
         NEW aborted \in BOOLEAN, Catch(r, aborted)
  PROVE  Inv'
<1>1. CASE runs[r].stopRequested \/ aborted
  <2>1. /\ EndRun(r, "interrupted")
        /\ messages' = MarkInterrupted(messages, runs[r],
                                       Find(messages, runs[r].answer))
    BY <1>1 DEF Catch, Interrupt
  <2>2. Outcome(messages, runs[r].answer, messages')
    BY <2>1, CleanUp
  <2>. QED BY <2>1, <2>2, EndStep
<1>2. CASE ~(runs[r].stopRequested \/ aborted)
  <2>1. EndRun(r, "error") /\ messages' = Rollback(messages, runs[r])
    BY <1>2 DEF Catch
  <2>2. Outcome(messages, runs[r].answer, messages')
    BY <2>1, CleanUp
  <2>. QED BY <2>1, <2>2, EndStep
<1>. QED BY <1>1, <1>2

\* The context comes too late for a stopped run.
LEMMA ContextBuiltAfterStopStep ==
  ASSUME NEW r, Inv, ContextBuiltAfterStop(r) PROVE Inv'
<1>1. r \in DOMAIN runs /\ runs[r].stage = "context"
  BY DEF ContextBuiltAfterStop, AtStage
<1>2. /\ EndRun(r, "interrupted")
      /\ messages' = MarkInterrupted(messages, runs[r], runs[r].original)
  BY DEF ContextBuiltAfterStop, Interrupt
<1>3. Outcome(messages, runs[r].answer, messages')
  BY <1>1, <1>2, CleanUp
<1>. QED BY <1>1, <1>2, <1>3, EndStep

\* The answer of the live run is replaced while its stream is open.
LEMMA StreamingStep ==
  ASSUME Inv, NEW r \in DOMAIN runs, runs[r].stage \in {"request", "stream"},
         NEW run \in ActiveRun, LiveStep(r, run), run.stage = "stream",
         run.mode = runs[r].mode, run.answer = runs[r].answer,
         run.original = runs[r].original,
         NEW m \in Message, IsAnswer(m, run.answer),
         \/ /\ Positions(messages, run.answer) # {}
            /\ runs[r].stage = "request" => run.mode # "submit"
            /\ messages' = ReplaceMessage(messages, run.answer, m)
         \/ /\ run.mode = "submit" /\ runs[r].stage = "request"
            /\ messages' = Append(messages, m)
  PROVE  Inv'
<1>1. /\ OriginalOK(runs[r]) /\ FreshOK(r, runs[r]) /\ SubmitOK(r, runs[r])
      /\ activeRun = r /\ r = Len(runs) /\ Len(runs) \in Nat \ {0}
  BY LiveRunFacts
<1>2. /\ messages \in Seq(Message) /\ Paired(messages)
      /\ DOMAIN messages = 1 .. Len(messages) /\ Len(messages) \in Nat
  BY LenProperties DEF Inv, TypeOK, AnswerFollowsQuestion
<1>3. \A i \in DOMAIN messages :
        /\ messages[i].id \in 1 .. Len(runs)
        /\ messages[i].streamStatus = "streaming" =>
             IsAnswer(messages[i], run.answer)
  BY <1>1 DEF Inv, NumbersOK, OneRunAtATime
<1>4. CASE /\ Positions(messages, run.answer) # {}
           /\ runs[r].stage = "request" => run.mode # "submit"
           /\ messages' = ReplaceMessage(messages, run.answer, m)
  <2>1. /\ messages' \in Seq(Message)
        /\ Len(messages') = Len(messages)
        /\ DOMAIN messages' = DOMAIN messages
        /\ \A i \in DOMAIN messages :
             messages'[i] = IF IsAnswer(messages[i], run.answer) THEN m
                            ELSE messages[i]
    BY <1>2, <1>4, ReplaceFacts
  <2>2. /\ Paired(messages')
        /\ \A k : Positions(messages', k) = Positions(messages, k)
    BY <1>2, <1>4, ReplaceKeepsPairs
  <2>3. \A i \in DOMAIN messages' :
          /\ messages'[i].id \in 1 .. Len(runs)
          /\ messages'[i].streamStatus = "streaming" =>
               IsAnswer(messages'[i], run.answer)
    BY <1>3, <2>1 DEF IsAnswer
  <2>4. messages # <<>> => messages' # <<>>
    BY <1>2, <2>1, EmptySeq
  <2>5. OriginalOK(run)' /\ FreshOK(r, run)' /\ SubmitOK(r, run)'
    BY <1>1, <1>4, <2>1, <2>2, <2>4 DEF OriginalOK, FreshOK, SubmitOK
  <2>. QED BY <2>1, <2>2, <2>3, <2>5, LiveStepInv
<1>5. CASE /\ run.mode = "submit" /\ runs[r].stage = "request"
           /\ messages' = Append(messages, m)
  <2>1. /\ messages' \in Seq(Message) /\ messages' # <<>>
        /\ Len(messages') = Len(messages) + 1
        /\ DOMAIN messages' = 1 .. Len(messages) + 1
        /\ \A i \in 1 .. Len(messages) : messages'[i] = messages[i]
        /\ messages'[Len(messages) + 1] = m
    BY <1>2, <1>5, AppendProperties, LenProperties
  <2>2. /\ run.original = NoMessage /\ run.answer = r
        /\ Positions(messages, r) = {}
        /\ messages # <<>> /\ messages[Len(messages)] = UserMessage(r)
    BY <1>1, <1>5 DEF OriginalOK, FreshOK, SubmitOK
  <2>3. m.role = "assistant" /\ m.id = r
    BY <2>2 DEF IsAnswer
  <2>4. Len(messages) > 0
    BY <1>2, <2>2, EmptySeq
  <2>5. \A i \in 1 .. Len(messages) :
          ~(messages[i].role = "assistant" /\ messages[i].id = r)
    BY <1>2, <2>2 DEF Positions, IsAnswer
  <2>6. Paired(messages')
    <3>1. ASSUME NEW i \in DOMAIN messages', messages'[i].role = "assistant"
          PROVE  i > 1 /\ messages'[i - 1] = UserMessage(messages'[i].id)
      <4>1. CASE i = Len(messages) + 1
        BY <1>2, <2>1, <2>2, <2>3, <2>4, <4>1
      <4>2. CASE i \in 1 .. Len(messages)
        <5>1. i > 1 /\ messages[i - 1] = UserMessage(messages[i].id)
          BY <1>2, <2>1, <3>1, <4>2 DEF Paired
        <5>. QED BY <1>2, <2>1, <4>2, <5>1
      <4>. QED BY <1>2, <2>1, <4>1, <4>2
    <3>2. ASSUME NEW i \in DOMAIN messages', NEW j \in DOMAIN messages',
                 messages'[i].role = messages'[j].role,
                 messages'[i].id = messages'[j].id
          PROVE  i = j
      BY <1>2, <2>1, <2>3, <2>5, <3>2 DEF Paired
    <3>. QED BY <3>1, <3>2 DEF Paired
  <2>7. \A i \in DOMAIN messages' :
          /\ messages'[i].id \in 1 .. Len(runs)
          /\ messages'[i].streamStatus = "streaming" =>
               IsAnswer(messages'[i], run.answer)
    BY <1>1, <1>2, <1>3, <2>1, <2>3
  <2>8. Positions(messages', r) = {Len(messages')}
    BY <1>2, <2>1, <2>3, <2>5 DEF Positions, IsAnswer
  <2>9. OriginalOK(run)' /\ FreshOK(r, run)' /\ SubmitOK(r, run)'
    BY <1>5, <2>1, <2>2, <2>8 DEF OriginalOK, FreshOK, SubmitOK
  <2>. QED BY <2>1, <2>6, <2>7, <2>9, LiveStepInv
<1>. QED BY <1>4, <1>5

\* The placeholder of a run is its answer.
LEMMA PlaceholderFacts ==
  ASSUME NEW run \in ActiveRun,
         run.original # NoMessage => IsAnswer(run.original, run.answer)
  PROVE  Placeholder(run) \in Message /\ IsAnswer(Placeholder(run), run.answer)
<1>1. run.answer \in Nat
  BY DEF ActiveRun
<1>2. /\ Answer(run.answer, <<>>, "streaming") \in Message
      /\ IsAnswer(Answer(run.answer, <<>>, "streaming"), run.answer)
  BY <1>1, EmptySeq DEF Answer, Message, IsAnswer
<1>3. run.original # NoMessage => run.original \in Message
  BY DEF ActiveRun
<1>4. run.original # NoMessage =>
        /\ WithStatus(run.original, "streaming") \in Message
        /\ IsAnswer(WithStatus(run.original, "streaming"), run.answer)
  BY <1>3, WithStatusType
<1>. QED BY <1>2, <1>4 DEF Placeholder

\* The request is there: the placeholder is put in its place.
LEMMA RequestBuiltStep ==
  ASSUME NEW r, Inv, RequestBuilt(r) PROVE Inv'
<1>1. r \in DOMAIN runs /\ runs[r].stage = "request"
  BY DEF RequestBuilt, AtStage
<1>2. /\ runs[r] \in ActiveRun
      /\ OriginalOK(runs[r])
  BY <1>1, LiveRunFacts
<1>. DEFINE n == runs[r].answer
<1>3. CASE runs[r].mode # "submit" /\ Find(messages, n) = NoMessage
  <2>1. Catch(r, FALSE)
    BY <1>3 DEF RequestBuilt
  <2>. QED BY <1>1, <2>1, CatchStep
<1>4. CASE ~(runs[r].mode # "submit" /\ Find(messages, n) = NoMessage)
  <2>1. PICK run \in ActiveRun : run = [runs[r] EXCEPT !.stage = "stream"]
    BY <1>2 DEF ActiveRun, Stages
  <2>2. /\ run.stage = "stream" /\ run.mode = runs[r].mode
        /\ run.answer = n /\ run.original = runs[r].original
    BY <1>2, <2>1 DEF ActiveRun
  <2>3. /\ messages' = IF runs[r].mode = "submit"
                       THEN Append(messages, Placeholder(runs[r]))
                       ELSE ReplaceMessage(messages, n, Placeholder(runs[r]))
        /\ LiveStep(r, run)
    BY <1>4, <2>1 DEF RequestBuilt, LiveStep
  <2>4. /\ Placeholder(runs[r]) \in Message
        /\ IsAnswer(Placeholder(runs[r]), n)
    BY <1>2, PlaceholderFacts DEF OriginalOK
  <2>5. PICK m \in Message : m = Placeholder(runs[r])
    BY <2>4
  <2>6. runs[r].mode # "submit" => Positions(messages, n) # {}
    BY <1>4, FindFacts DEF Inv, TypeOK
  <2>. QED BY <1>1, <2>2, <2>3, <2>4, <2>5, <2>6, StreamingStep
<1>. QED BY <1>3, <1>4

\* A delta changes the text of the live answer only.
LEMMA DeltaStep ==
  ASSUME NEW r, NEW chunk \in Chunks, Inv, Delta(r, chunk) PROVE Inv'
<1>. DEFINE n == runs[r].answer
            current == Find(messages, n)
            text == Grown(runs[r], current.content, chunk)
<1>1. r \in DOMAIN runs /\ activeRun = r
  BY DEF Delta, Listens
<1>2. runs[r].stage = "stream"
  BY <1>1 DEF Delta, Inv, OneRunAtATime
<1>3. runs[r] \in ActiveRun
  BY <1>1, <1>2, LiveRunFacts
<1>4. /\ current # NoMessage
      /\ messages' = ReplaceMessage(messages, n, Answer(n, text, "streaming"))
      /\ UNCHANGED <<status, sending, activeRun, runs>>
  BY DEF Delta
<1>5. current \in Message /\ Positions(messages, n) # {}
  BY <1>4, FindFacts DEF Inv, TypeOK
<1>6. text \in Seq(Symbols)
  <2>1. current.content \in Seq(Symbols) /\ chunk \in Seq(Symbols)
    BY <1>5, ChunksAssumption DEF Message
  <2>. HIDE DEF current
  <2>2. current.content \o chunk \in Seq(Symbols)
    BY <2>1, ConcatProperties
  <2>3. AppendWithoutDuplicate(current.content, chunk) \in Seq(Symbols)
    BY <2>1, AppendFacts
  <2>. QED BY <2>2, <2>3 DEF Grown
<1>. HIDE DEF text
<1>7. PICK m \in Message : m = Answer(n, text, "streaming")
  BY <1>3, <1>6 DEF Answer, Message, ActiveRun
<1>8. IsAnswer(m, n)
  BY <1>7 DEF Answer, IsAnswer
<1>9. LiveStep(r, runs[r])
  BY <1>1, <1>4, LenProperties DEF LiveStep, Inv, TypeOK
<1>10. PICK run \in ActiveRun : run = runs[r]
  BY <1>3
<1>. QED BY <1>1, <1>2, <1>4, <1>5, <1>7, <1>8, <1>9, <1>10, StreamingStep

\* The provider's response ends the run.
LEMMA ProviderRespondsStep ==
  ASSUME NEW r, Inv, ProviderResponds(r) PROVE Inv'
<1>. DEFINE n == runs[r].answer
            current == Find(messages, n)
<1>1. r \in DOMAIN runs /\ runs[r].stage = "stream"
  BY DEF ProviderResponds, AtStage
<1>2. CASE runs[r].stopRequested
  <2>1. /\ EndRun(r, "interrupted")
        /\ messages' = MarkInterrupted(messages, runs[r], current)
    BY <1>2 DEF ProviderResponds, Interrupt
  <2>2. Outcome(messages, n, messages')
    BY <1>1, <2>1, CleanUp
  <2>. QED BY <1>1, <2>1, <2>2, EndStep
<1>3. CASE ~runs[r].stopRequested /\ current = NoMessage
  <2>1. Catch(r, FALSE)
    BY <1>3 DEF ProviderResponds
  <2>. QED BY <1>1, <2>1, CatchStep
<1>4. CASE ~runs[r].stopRequested /\ current # NoMessage
  <2>1. /\ EndRun(r, "completed")
        /\ messages' = ReplaceMessage(messages, n,
                                      WithStatus(current, "complete"))
    BY <1>4 DEF ProviderResponds
  <2>2. current \in Message /\ IsAnswer(current, n)
    BY <1>4, FindFacts DEF Inv, TypeOK
  <2>. HIDE DEF current, n
  <2>3. /\ WithStatus(current, "complete") \in Message
        /\ IsAnswer(WithStatus(current, "complete"), n)
        /\ WithStatus(current, "complete").streamStatus = "complete"
    BY <2>2, WithStatusType
  <2>4. Outcome(messages, n, messages')
    BY <2>1, <2>3 DEF Outcome
  <2>. QED BY <1>1, <2>1, <2>4, EndStep DEF n
<1>. QED BY <1>2, <1>3, <1>4

-----------------------------------------------------------------------------
(* The theorems.                                                           *)

\* Nothing changes.
LEMMA StutterInv == Inv /\ UNCHANGED vars => Inv'
BY DEF vars, Inv, TypeOK, OneRunAtATime, AnswerFollowsQuestion, NumbersOK,
       LiveOK, OriginalOK, FreshOK, SubmitOK

\* Every resumption of a run keeps the invariant.
LEMMA StepInv == ASSUME NEW r, Inv, Step(r) PROVE Inv'
<1>1. CASE ContextBuilt(r)
  BY <1>1, ContextBuiltStep
<1>2. CASE ContextBuiltAfterStop(r)
  BY <1>2, ContextBuiltAfterStopStep
<1>3. CASE ContextFails(r)
  BY <1>3, CatchStep DEF ContextFails, AtStage
<1>4. CASE RequestBuilt(r)
  BY <1>4, RequestBuiltStep
<1>5. CASE \E chunk \in Chunks : Delta(r, chunk)
  BY <1>5, DeltaStep
<1>6. CASE ProviderResponds(r)
  BY <1>6, ProviderRespondsStep
<1>7. CASE ProviderFails(r) \/ ProviderAborts(r)
  BY <1>7, CatchStep DEF ProviderFails, ProviderAborts, AtStage
<1>. QED BY <1>1, <1>2, <1>3, <1>4, <1>5, <1>6, <1>7
         DEF Step, ContextSettles, ProviderSettles

\* Every step keeps the invariant.
LEMMA NextInv == Inv /\ [Next]_vars => Inv'
<1>. SUFFICES ASSUME Inv, [Next]_vars PROVE Inv'
  OBVIOUS
<1>1. CASE User
  BY <1>1, SubmitStep, ContinueStep, RegenerateStep, RetryStep, StopStep,
     ClearStep, ReopenStep DEF User
<1>2. CASE \E r \in 1 .. MaxRuns : Step(r)
  BY <1>2, StepInv
<1>3. CASE UNCHANGED vars
  BY <1>3, StutterInv
<1>. QED BY <1>1, <1>2, <1>3 DEF Next

\* The invariant holds in every reachable state.
THEOREM Invariance == Spec => []Inv
BY InitInv, NextInv, PTL DEF Spec

\* Every variable of the controller keeps to its type, for any number of
\* runs and any texts.
THEOREM TypeCorrect == Spec => []TypeOK
<1>1. Inv => TypeOK
  BY DEF Inv
<1>. QED BY <1>1, Invariance, PTL

\* The controller never has two live runs, and a session at rest holds no
\* answer in the streaming state.
THEOREM OneRunAtATimeHolds == Spec => []OneRunAtATime
<1>1. Inv => OneRunAtATime
  BY DEF Inv
<1>. QED BY <1>1, Invariance, PTL

\* Every answer stands right behind its own question, whatever was stopped,
\* failed or retried before.
THEOREM AnswerFollowsQuestionHolds == Spec => []AnswerFollowsQuestion
<1>1. Inv => AnswerFollowsQuestion
  BY DEF Inv
<1>. QED BY <1>1, Invariance, PTL

-----------------------------------------------------------------------------
(* What a step may do to the answer.  The action properties speak of the   *)
(* answer before and after a step; besides Inv they need to know that a    *)
(* run finds the answer it keeps as its original unchanged until its       *)
(* stream begins.                                                          *)

OriginalKept ==
  \A r \in DOMAIN runs :
    runs[r].stage \in {"context", "request"} /\ runs[r].original # NoMessage
      => Find(messages, runs[r].answer) = runs[r].original

AnswerInv == Inv /\ OriginalKept

\* An answer that replaces the answer n is found under n afterwards.
LEMMA FindReplaced ==
  ASSUME NEW msgs \in Seq(Message), NEW n, NEW m \in Message, IsAnswer(m, n),
         Positions(msgs, n) # {}
  PROVE  Find(ReplaceMessage(msgs, n, m), n) = m
<1>. DEFINE new == ReplaceMessage(msgs, n, m)
<1>1. /\ DOMAIN new = DOMAIN msgs
      /\ \A i \in DOMAIN msgs :
           new[i] = IF IsAnswer(msgs[i], n) THEN m ELSE msgs[i]
  BY ReplaceFacts
<1>2. \A i \in Positions(new, n) : new[i] = m
  BY <1>1 DEF Positions
<1>3. Positions(new, n) # {}
  BY <1>1 DEF Positions
<1>. HIDE DEF new
<1>4. Find(new, n) = m
  BY <1>2, <1>3 DEF Find
<1>. QED BY <1>4 DEF new

\* A removed answer is not found.
LEMMA FindRemoved ==
  ASSUME NEW msgs \in Seq(Message), NEW n, Positions(msgs, n) = {Len(msgs)}
  PROVE  Find(RemoveMessage(msgs, n), n) = NoMessage
<1>. DEFINE new == RemoveMessage(msgs, n)
<1>1. /\ new \in Seq(Message) /\ Len(msgs) \in Nat \ {0}
      /\ Len(new) = Len(msgs) - 1
      /\ \A i \in 1 .. Len(msgs) - 1 : new[i] = msgs[i]
  BY RemoveLast
<1>. HIDE DEF new
<1>2. DOMAIN new = 1 .. Len(msgs) - 1 /\ DOMAIN msgs = 1 .. Len(msgs)
  BY <1>1, LenProperties
<1>3. Positions(new, n) = {}
  BY <1>1, <1>2 DEF Positions
<1>. QED BY <1>3 DEF Find, new

\* The answer the live run is about, as find returns it.
LEMMA CurrentFacts ==
  ASSUME AnswerInv, NEW r \in DOMAIN runs, runs[r].stage # "done"
  PROVE  LET run == runs[r]
             current == Find(messages, run.answer) IN
         /\ messages \in Seq(Message)
         /\ current = NoMessage <=> Positions(messages, run.answer) = {}
         /\ current # NoMessage =>
              current \in Message /\ IsAnswer(current, run.answer)
         /\ run.original # NoMessage =>
              /\ current # NoMessage /\ run.mode # "submit"
              /\ run.original \in Message
              /\ IsAnswer(run.original, run.answer)
         /\ run.original = NoMessage /\ current # NoMessage =>
              /\ run.mode = "submit"
              /\ Positions(messages, run.answer) = {Len(messages)}
         /\ run.stage = "context" => current = run.original
         /\ run.stage = "request" /\ run.original # NoMessage =>
              current = run.original
         /\ run.stage = "stream" => current # NoMessage
         /\ run.mode = "continue" => run.original # NoMessage
<1>. DEFINE run == runs[r]
            current == Find(messages, run.answer)
<1>1. /\ run \in ActiveRun
      /\ OriginalOK(run) /\ FreshOK(r, run) /\ SubmitOK(r, run)
  BY LiveRunFacts DEF AnswerInv
<1>2. /\ messages \in Seq(Message)
      /\ current = NoMessage <=> Positions(messages, run.answer) = {}
      /\ current # NoMessage =>
           current \in Message /\ IsAnswer(current, run.answer)
  BY FindFacts DEF AnswerInv, Inv, TypeOK
<1>3. run.original # NoMessage =>
        /\ current # NoMessage /\ run.mode # "submit"
        /\ run.original \in Message
        /\ IsAnswer(run.original, run.answer)
  BY <1>1, <1>2 DEF OriginalOK, ActiveRun
<1>4. run.original = NoMessage /\ current # NoMessage =>
        /\ run.mode = "submit"
        /\ Positions(messages, run.answer) = {Len(messages)}
  BY <1>1, <1>2 DEF FreshOK, SubmitOK, ActiveRun
<1>5. run.original # NoMessage /\ run.stage \in {"context", "request"} =>
        current = run.original
  BY DEF AnswerInv, OriginalKept
<1>6. run.original = NoMessage /\ run.stage = "context" =>
        current = NoMessage
  BY <1>1, <1>2 DEF FreshOK
<1>7. run.stage = "stream" => current # NoMessage
  BY <1>1, <1>2, <1>3 DEF FreshOK, SubmitOK
<1>8. run.mode = "continue" => run.original # NoMessage
  BY <1>1 DEF FreshOK
<1>. QED BY <1>2, <1>3, <1>4, <1>5, <1>6, <1>7, <1>8

\* What the clean-up of a run without success leaves of its answer: the text
\* it has, or the earlier answer, or nothing when there was none.
Kept(before, after, original) ==
  \/ /\ before # NoMessage /\ before.content # <<>>
     /\ after # NoMessage /\ after.content = before.content
  \/ before # NoMessage /\ before.content = <<>>
       /\ after = original /\ after # NoMessage
  \/ after = NoMessage /\ original = NoMessage
       /\ (before # NoMessage => before.content = <<>>)

\* The catch block and markInterrupted keep the text of the answer.
LEMMA CleanUpKeeps ==
  ASSUME AnswerInv, NEW r \in DOMAIN runs, runs[r].stage # "done",
         NEW new \in {Rollback(messages, runs[r]),
                      MarkInterrupted(messages, runs[r],
                                      Find(messages, runs[r].answer))}
  PROVE  Kept(Find(messages, runs[r].answer), Find(new, runs[r].answer),
              runs[r].original)
<1>. DEFINE run == runs[r]
            n == run.answer
            current == Find(messages, n)
            marked == WithStatus(current, "interrupted")
<1>1. /\ messages \in Seq(Message)
      /\ current = NoMessage <=> Positions(messages, n) = {}
      /\ current # NoMessage => current \in Message /\ IsAnswer(current, n)
      /\ run.original # NoMessage =>
           /\ current # NoMessage /\ run.mode # "submit"
           /\ run.original \in Message /\ IsAnswer(run.original, n)
      /\ run.original = NoMessage /\ current # NoMessage =>
           /\ run.mode = "submit"
           /\ Positions(messages, n) = {Len(messages)}
  BY CurrentFacts
<1>2. current # NoMessage =>
        /\ marked \in Message /\ IsAnswer(marked, n)
        /\ marked.content = current.content
  BY <1>1, WithStatusType DEF WithStatus, Message
<1>3. /\ current # NoMessage =>
           Find(ReplaceMessage(messages, n, marked), n) = marked
      /\ run.original # NoMessage =>
           Find(ReplaceMessage(messages, n, run.original), n) = run.original
      /\ run.original = NoMessage /\ current # NoMessage =>
           Find(RemoveMessage(messages, n), n) = NoMessage
  BY <1>1, <1>2, FindReplaced, FindRemoved
<1>4. current # NoMessage => current.id = n
  BY <1>1 DEF IsAnswer
<1>5. current = NoMessage => RemoveMessage(messages, n) = messages
  BY <1>1 DEF RemoveMessage
<1>6. marked # NoMessage \/ current = NoMessage
  BY <1>2, NoMessageAssumption
<1>7. Rollback(messages, run) =
        IF current # NoMessage /\ current.content # <<>>
          THEN ReplaceMessage(messages, n, marked)
        ELSE IF run.original # NoMessage
          THEN ReplaceMessage(messages, n, run.original)
        ELSE RemoveMessage(messages, n)
  BY DEF Rollback
<1>8. MarkInterrupted(messages, run, current) =
        IF current = NoMessage THEN messages
        ELSE IF run.mode = "submit" /\ current.content = <<>>
          THEN RemoveMessage(messages, n)
        ELSE IF run.mode # "submit" /\ run.original # NoMessage
                  /\ current.content = <<>>
          THEN ReplaceMessage(messages, n, run.original)
        ELSE ReplaceMessage(messages, n, marked)
  BY <1>1, <1>4 DEF MarkInterrupted
<1>. HIDE DEF run, n, current, marked
<1>. DEFINE original == run.original
            mode == run.mode
<1>9. \/ /\ current # NoMessage /\ current.content # <<>>
         /\ new = ReplaceMessage(messages, n, marked)
      \/ /\ current # NoMessage /\ current.content = <<>>
         /\ original # NoMessage
         /\ new = ReplaceMessage(messages, n, original)
      \/ /\ current = NoMessage /\ original = NoMessage /\ new = messages
      \/ /\ current # NoMessage /\ current.content = <<>>
         /\ original = NoMessage
         /\ new = RemoveMessage(messages, n)
  <2>1. new = Rollback(messages, run)
          \/ new = MarkInterrupted(messages, run, current)
    BY DEF run, n, current
  <2>. QED BY <1>1, <1>5, <1>7, <1>8, <2>1
<1>10. Kept(current, Find(new, n), original)
  BY <1>1, <1>2, <1>3, <1>6, <1>9 DEF Kept, current
<1>. QED BY <1>10 DEF run, n, current

\* The live run is the only one that is not done.
LEMMA OnlyLive ==
  ASSUME Inv, NEW r \in DOMAIN runs, runs[r].stage # "done"
  PROVE  /\ sending /\ activeRun = r
         /\ \A q \in DOMAIN runs : q # r => runs[q].stage = "done"
BY LiveRunFacts DEF Inv, OneRunAtATime

\* What EXCEPT makes of a run's record.
LEMMA RecordFacts ==
  ASSUME NEW run \in ActiveRun
  PROVE  /\ [run EXCEPT !.stage = "done", !.original = NoMessage].stage = "done"
         /\ \A st \in Stages :
              LET new == [run EXCEPT !.stage = st]
              IN  /\ new.stage = st /\ new.original = run.original
                  /\ new.answer = run.answer
         /\ LET new == [run EXCEPT !.stopRequested = TRUE]
            IN  /\ new.stage = run.stage /\ new.original = run.original
                /\ new.answer = run.answer
BY DEF ActiveRun

\* The run of EndRun is over.
LEMMA EndsRun ==
  ASSUME Inv, NEW r \in DOMAIN runs, runs[r].stage # "done", NEW st,
         EndRun(r, st)
  PROVE  /\ status' = st /\ DOMAIN runs' = DOMAIN runs
         /\ \A q \in DOMAIN runs' : runs'[q].stage = "done"
<1>1. runs[r] \in ActiveRun
  BY LiveRunFacts
<1>. DEFINE ended == [runs[r] EXCEPT !.stage = "done", !.original = NoMessage]
<1>2. ended.stage = "done"
  BY <1>1, RecordFacts
<1>3. runs' = [runs EXCEPT ![r] = ended] /\ status' = st
  BY DEF EndRun
<1>. HIDE DEF ended
<1>. QED BY <1>2, <1>3, OnlyLive

\* How a step treats the live run: it leaves the answer alone, puts up the
\* placeholder, adds text, completes the answer, or cleans up.
LeavesAnswer(r) == UNCHANGED messages /\ ~Ends(r)

PutsPlaceholder(r) ==
  /\ runs[r].stage = "request" /\ ~Ends(r)
  /\ messages' = IF runs[r].mode = "submit"
                 THEN Append(messages, Placeholder(runs[r]))
                 ELSE ReplaceMessage(messages, runs[r].answer,
                                     Placeholder(runs[r]))

AddsText(r) ==
  /\ ~runs[r].stopRequested /\ ~Ends(r)
  /\ Find(messages, runs[r].answer) # NoMessage
  /\ \E chunk \in Chunks :
       messages' = ReplaceMessage(messages, runs[r].answer,
         Answer(runs[r].answer,
                Grown(runs[r], Find(messages, runs[r].answer).content, chunk),
                "streaming"))

Completes(r) ==
  /\ ~runs[r].stopRequested /\ status' = "completed"
  /\ Find(messages, runs[r].answer) # NoMessage
  /\ messages' = ReplaceMessage(messages, runs[r].answer,
                   WithStatus(Find(messages, runs[r].answer), "complete"))

CleansUp(r) ==
  /\ status' \in {"interrupted", "error"}
  /\ runs[r].stopRequested => status' = "interrupted"
  /\ messages' \in {Rollback(messages, runs[r]),
                    MarkInterrupted(messages, runs[r],
                                    Find(messages, runs[r].answer))}

RunStep(r) ==
  \/ LeavesAnswer(r) \/ PutsPlaceholder(r) \/ AddsText(r)
  \/ Completes(r) \/ CleansUp(r)

\* The catch block cleans up.
LEMMA CatchCleansUp ==
  ASSUME NEW r, NEW aborted, Catch(r, aborted)
  PROVE  CleansUp(r) /\ \E st : EndRun(r, st)
BY DEF Catch, Interrupt, CleansUp, EndRun

\* The resumptions of a run touch the answer in one of these ways only, and
\* leave no other run waiting for its context or its request.
LEMMA ResumptionCases ==
  ASSUME AnswerInv, NEW r, Step(r)
  PROVE  /\ r \in DOMAIN runs /\ runs[r].stage # "done"
         /\ RunStep(r)
         /\ \/ ContextBuilt(r)
            \/ \A q \in DOMAIN runs' :
                 runs'[q].stage \notin {"context", "request"}
<1>. USE DEF AnswerInv
<1>0. ASSUME NEW st, EndRun(r, st), r \in DOMAIN runs, runs[r].stage # "done"
      PROVE  \A q \in DOMAIN runs' :
               runs'[q].stage \notin {"context", "request"}
  BY <1>0, EndsRun
<1>1. CASE ContextBuilt(r)
  <2>1. r \in DOMAIN runs /\ runs[r].stage = "context" /\ UNCHANGED messages
    BY <1>1 DEF ContextBuilt, AtStage
  <2>2. runs[r] \in ActiveRun
    BY <2>1, LiveRunFacts
  <2>3. runs'[r] = [runs[r] EXCEPT !.stage = "request"]
    BY <1>1, <2>1 DEF ContextBuilt
  <2>4. runs'[r].stage = "request"
    BY <2>2, <2>3, RecordFacts DEF Stages
  <2>. QED BY <1>1, <2>1, <2>4 DEF RunStep, LeavesAnswer, Ends
<1>2. CASE ContextBuiltAfterStop(r)
  <2>1. r \in DOMAIN runs /\ runs[r].stage = "context"
    BY <1>2 DEF ContextBuiltAfterStop, AtStage
  <2>2. Find(messages, runs[r].answer) = runs[r].original
    BY <2>1, CurrentFacts
  <2>3. /\ EndRun(r, "interrupted")
        /\ messages' = MarkInterrupted(messages, runs[r], runs[r].original)
    BY <1>2 DEF ContextBuiltAfterStop, Interrupt
  <2>4. CleansUp(r)
    BY <2>2, <2>3 DEF CleansUp, EndRun
  <2>. QED BY <1>0, <2>1, <2>3, <2>4 DEF RunStep
<1>3. CASE ContextFails(r) \/ ProviderFails(r) \/ ProviderAborts(r)
  <2>1. /\ r \in DOMAIN runs /\ runs[r].stage # "done"
        /\ Catch(r, FALSE) \/ Catch(r, TRUE)
    BY <1>3 DEF ContextFails, ProviderFails, ProviderAborts, AtStage
  <2>2. CleansUp(r) /\ \E st : EndRun(r, st)
    BY <2>1, CatchCleansUp
  <2>. QED BY <1>0, <2>1, <2>2 DEF RunStep
<1>4. CASE RequestBuilt(r)
  <2>1. r \in DOMAIN runs /\ runs[r].stage = "request"
    BY <1>4 DEF RequestBuilt, AtStage
  <2>2. CASE Catch(r, FALSE)
    BY <1>0, <2>1, <2>2, CatchCleansUp DEF RunStep
  <2>3. CASE ~Catch(r, FALSE)
    <3>1. /\ messages' = IF runs[r].mode = "submit"
                         THEN Append(messages, Placeholder(runs[r]))
                         ELSE ReplaceMessage(messages, runs[r].answer,
                                             Placeholder(runs[r]))
          /\ runs' = [runs EXCEPT ![r].stage = "stream"]
      BY <1>4, <2>3 DEF RequestBuilt
    <3>2. runs[r] \in ActiveRun
      BY <2>1, LiveRunFacts
    <3>. DEFINE run == [runs[r] EXCEPT !.stage = "stream"]
    <3>3. run.stage = "stream"
      BY <3>2, RecordFacts DEF Stages
    <3>4. runs' = [runs EXCEPT ![r] = run]
      BY <3>1
    <3>. HIDE DEF run
    <3>5. \A q \in DOMAIN runs' :
            /\ q \in DOMAIN runs
            /\ runs'[q] = IF q = r THEN run ELSE runs[q]
      BY <3>4
    <3>6. \A q \in DOMAIN runs' :
            runs'[q].stage \notin {"context", "request"}
      BY <2>1, <3>3, <3>5, OnlyLive
    <3>7. PutsPlaceholder(r)
      BY <2>1, <3>1, <3>3, <3>4 DEF PutsPlaceholder, Ends
    <3>. QED BY <2>1, <3>6, <3>7 DEF RunStep
  <2>. QED BY <2>2, <2>3
<1>5. ASSUME NEW chunk \in Chunks, Delta(r, chunk)
      PROVE  /\ r \in DOMAIN runs /\ runs[r].stage = "stream"
             /\ AddsText(r) /\ UNCHANGED runs
  <2>1. r \in DOMAIN runs /\ activeRun = r /\ ~runs[r].stopRequested
        /\ UNCHANGED runs
    BY <1>5 DEF Delta, Listens
  <2>2. runs[r].stage = "stream"
    BY <1>5, <2>1 DEF Delta, Inv, OneRunAtATime
  <2>. QED BY <1>5, <2>1, <2>2 DEF AddsText, Delta, Ends
<1>6. CASE \E chunk \in Chunks : Delta(r, chunk)
  <2>1. /\ r \in DOMAIN runs /\ runs[r].stage = "stream"
        /\ AddsText(r) /\ UNCHANGED runs
    BY <1>5, <1>6
  <2>2. \A q \in DOMAIN runs' : runs'[q].stage \notin {"context", "request"}
    BY <2>1, OnlyLive
  <2>. QED BY <2>1, <2>2 DEF RunStep
<1>7. CASE ProviderResponds(r)
  <2>1. r \in DOMAIN runs /\ runs[r].stage = "stream"
    BY <1>7 DEF ProviderResponds, AtStage
  <2>2. CASE runs[r].stopRequested
    <3>1. Interrupt(r, Find(messages, runs[r].answer))
      BY <1>7, <2>2 DEF ProviderResponds
    <3>2. CleansUp(r) /\ EndRun(r, "interrupted")
      BY <3>1 DEF Interrupt, CleansUp, EndRun
    <3>. QED BY <1>0, <2>1, <3>2 DEF RunStep
  <2>3. CASE ~runs[r].stopRequested
             /\ Find(messages, runs[r].answer) = NoMessage
    <3>1. Catch(r, FALSE)
      BY <1>7, <2>3 DEF ProviderResponds
    <3>. QED BY <1>0, <2>1, <3>1, CatchCleansUp DEF RunStep
  <2>4. CASE ~runs[r].stopRequested
             /\ Find(messages, runs[r].answer) # NoMessage
    <3>1. Completes(r) /\ EndRun(r, "completed")
      BY <1>7, <2>4 DEF ProviderResponds, Completes, EndRun
    <3>. QED BY <1>0, <2>1, <3>1 DEF RunStep
  <2>. QED BY <2>2, <2>3, <2>4
<1>. QED BY <1>1, <1>2, <1>3, <1>4, <1>6, <1>7
         DEF Step, ContextSettles, ProviderSettles

\* Stop, and a context that is there, change no text and no original.
LEMMA MarkFacts ==
  ASSUME Inv, NEW r, Stop \/ ContextBuilt(r) \/ UNCHANGED vars
  PROVE  /\ UNCHANGED messages
         /\ \A q \in DOMAIN runs' :
              /\ q \in DOMAIN runs
              /\ runs'[q].original = runs[q].original
              /\ runs'[q].answer = runs[q].answer
              /\ \/ runs'[q].stage = runs[q].stage
                 \/ runs[q].stage = "context" /\ runs'[q].stage = "request"
<1>1. \A q \in DOMAIN runs : runs[q] \in ActiveRun
  BY ElementOfSeq DEF Inv, TypeOK
<1>2. CASE Stop
  <2>. DEFINE run == [runs[activeRun] EXCEPT !.stopRequested = TRUE]
  <2>1. activeRun \in DOMAIN runs
    BY <1>2, LenProperties DEF Stop, Inv, TypeOK, NumbersOK
  <2>2. run.stage = runs[activeRun].stage
        /\ run.original = runs[activeRun].original
        /\ run.answer = runs[activeRun].answer
    BY <1>1, <2>1, RecordFacts
  <2>3. UNCHANGED messages /\ runs' = [runs EXCEPT ![activeRun] = run]
    BY <1>2 DEF Stop
  <2>. HIDE DEF run
  <2>. QED BY <2>1, <2>2, <2>3
<1>3. CASE ContextBuilt(r)
  <2>. DEFINE run == [runs[r] EXCEPT !.stage = "request"]
  <2>1. r \in DOMAIN runs /\ runs[r].stage = "context"
    BY <1>3 DEF ContextBuilt, AtStage
  <2>2. run.stage = "request" /\ run.original = runs[r].original
        /\ run.answer = runs[r].answer
    BY <1>1, <2>1, RecordFacts DEF Stages
  <2>3. UNCHANGED messages /\ runs' = [runs EXCEPT ![r] = run]
    BY <1>3 DEF ContextBuilt
  <2>. HIDE DEF run
  <2>. QED BY <2>1, <2>2, <2>3
<1>4. CASE UNCHANGED vars
  BY <1>4 DEF vars
<1>. QED BY <1>2, <1>3, <1>4

\* A run that starts keeps the last answer as it stands, or none.
LEMMA StartKeepsOriginal ==
  ASSUME Inv, Submit \/ Continue \/ Regenerate \/ Retry
  PROVE  /\ MayStart
         /\ UNCHANGED messages
              \/ messages' = Append(messages, UserMessage(NextRequest))
         /\ OriginalKept'
<1>0. NextRequest \in Nat
  BY LenProperties DEF Inv, TypeOK, NextRequest
<1>1. MayStart
  BY DEF Submit, Continue, Regenerate, Retry
<1>2. ASSUME NEW mode \in Modes, NEW answer \in Nat,
             StartRun(mode, answer, NoMessage)
      PROVE  OriginalKept'
  <2>1. /\ runs'[NextRequest] =
             [mode |-> mode, answer |-> answer, original |-> NoMessage,
              stopRequested |-> FALSE, stage |-> "context"]
        /\ \A q \in DOMAIN runs' :
             q # NextRequest => runs'[q].stage = "done"
    BY <1>1, <1>2, StartFacts
  <2>2. runs'[NextRequest].original = NoMessage
    BY <2>1
  <2>. QED BY <2>1, <2>2 DEF OriginalKept
<1>3. ASSUME NEW mode \in Modes, AnswerPositions # {}, UNCHANGED messages,
             StartRun(mode, messages[LastAnswer].id, messages[LastAnswer])
      PROVE  OriginalKept'
  <2>1. PICK i \in DOMAIN messages : i = LastAnswer
    BY <1>3, LastAnswerFacts DEF Inv
  <2>2. messages[i] \in Message /\ messages[i].role = "assistant"
    BY <1>3, <2>1, LastAnswerFacts DEF Inv
  <2>3. PICK m \in Message : m = messages[i]
    BY <2>2
  <2>4. m.id \in Nat /\ StartRun(mode, m.id, m)
    BY <1>3, <2>1, <2>3 DEF Message
  <2>. DEFINE run == [mode |-> mode, answer |-> m.id, original |-> m,
                      stopRequested |-> FALSE, stage |-> "context"]
  <2>5. /\ runs'[NextRequest] = run
        /\ \A q \in DOMAIN runs' :
             q # NextRequest => runs'[q].stage = "done"
    BY <1>1, <2>4, StartFacts
  <2>6. Positions(messages, m.id) = {i}
    BY <2>2, <2>3 DEF Positions, IsAnswer, Inv, AnswerFollowsQuestion, Paired
  <2>7. Find(messages, m.id) = m
    BY <2>3, <2>6 DEF Find
  <2>8. run.original = m /\ run.answer = m.id
    OBVIOUS
  <2>. HIDE DEF run
  <2>. QED BY <1>3, <2>5, <2>7, <2>8 DEF OriginalKept
<1>4. CASE Submit
  BY <1>0, <1>1, <1>2, <1>4 DEF Submit, Modes
<1>5. CASE Continue
  BY <1>1, <1>3, <1>5 DEF Continue, HasTurn, Modes
<1>6. CASE Regenerate
  BY <1>1, <1>3, <1>6 DEF Regenerate, HasTurn, Modes
<1>7. CASE Retry
  <2>1. CASE AnswerPositions # {}
    BY <1>1, <1>3, <1>7, <2>1 DEF Retry, Modes
  <2>2. CASE AnswerPositions = {}
    BY <1>0, <1>1, <1>2, <1>7, <2>2 DEF Retry, Modes
  <2>. QED BY <1>7, <2>1, <2>2 DEF Retry
<1>. QED BY <1>4, <1>5, <1>6, <1>7

\* Every step keeps the originals.
LEMMA NextKeepsOriginal ==
  ASSUME AnswerInv, [Next]_vars PROVE OriginalKept'
<1>. USE DEF AnswerInv
<1>1. ASSUME NEW r, Stop \/ ContextBuilt(r) \/ UNCHANGED vars
      PROVE  OriginalKept'
  BY <1>1, MarkFacts DEF OriginalKept
<1>2. CASE Submit \/ Continue \/ Regenerate \/ Retry
  BY <1>2, StartKeepsOriginal
<1>3. CASE Clear \/ Reopen
  BY <1>3, RestFacts DEF Clear, Reopen, Idle, OriginalKept
<1>4. CASE \E r \in 1 .. MaxRuns : Step(r)
  BY <1>1, <1>4, ResumptionCases DEF OriginalKept
<1>. QED BY <1>1, <1>2, <1>3, <1>4 DEF Next, User

\* The invariant the action properties rest on.
THEOREM AnswerInvariance == Spec => []AnswerInv
<1>1. Init => AnswerInv
  <2>1. Init => OriginalKept
    BY EmptySeq DEF Init, OriginalKept
  <2>. QED BY <2>1, InitInv DEF AnswerInv
<1>2. AnswerInv /\ [Next]_vars => AnswerInv'
  BY NextInv, NextKeepsOriginal DEF AnswerInv
<1>. QED BY <1>1, <1>2, PTL DEF Spec

\* With a live run a step is a resumption of it, or leaves its answer alone.
LEMMA LiveRunCases ==
  ASSUME AnswerInv, [Next]_vars, NEW r \in DOMAIN runs,
         runs[r].stage # "done"
  PROVE  RunStep(r)
<1>. USE DEF AnswerInv
<1>1. ~MayStart /\ ~Idle
  BY OnlyLive DEF MayStart, Idle
<1>2. CASE Stop \/ UNCHANGED vars
  <2>1. r \in DOMAIN runs' /\ UNCHANGED messages
    BY <1>2 DEF Stop, vars
  <2>2. runs'[r].stage # "done"
    BY <1>2, <2>1, MarkFacts
  <2>. QED BY <2>1, <2>2 DEF RunStep, LeavesAnswer, Ends
<1>3. CASE \E q \in 1 .. MaxRuns : Step(q)
  <2>1. PICK q : Step(q)
    BY <1>3
  <2>2. q \in DOMAIN runs /\ runs[q].stage # "done" /\ RunStep(q)
    BY <2>1, ResumptionCases
  <2>3. q = r
    BY <2>2, OnlyLive
  <2>. QED BY <2>2, <2>3
<1>4. CASE Submit \/ Continue \/ Regenerate \/ Retry \/ Clear \/ Reopen
  BY <1>1, <1>4 DEF Submit, Continue, Regenerate, Retry, Clear, Reopen
<1>. QED BY <1>2, <1>3, <1>4 DEF Next, User

\* Without one a step adds a question, or leaves the messages alone.
LEMMA NoRunCases ==
  ASSUME AnswerInv, [Next]_vars, ~Clear
  PROVE  \/ UNCHANGED messages
         \/ messages' = Append(messages, UserMessage(NextRequest))
         \/ \E r \in DOMAIN runs : runs[r].stage # "done" /\ RunStep(r)
<1>. USE DEF AnswerInv
<1>1. CASE Submit \/ Continue \/ Regenerate \/ Retry
  BY <1>1, StartKeepsOriginal
<1>2. CASE Stop \/ Reopen \/ UNCHANGED vars
  BY <1>2 DEF Stop, Reopen, vars
<1>3. CASE \E q \in 1 .. MaxRuns : Step(q)
  BY <1>3, ResumptionCases
<1>. QED BY <1>1, <1>2, <1>3 DEF Next, User

\* The steps of the live run keep every other message.
LEMMA RunKeepsOthers ==
  ASSUME AnswerInv, NEW r \in DOMAIN runs, runs[r].stage # "done", RunStep(r),
         NEW i \in DOMAIN messages, ~IsAnswer(messages[i], runs[r].answer)
  PROVE  i \in DOMAIN messages' /\ messages'[i] = messages[i]
<1>. DEFINE n == runs[r].answer
<1>1. DOMAIN messages = 1 .. Len(messages) /\ Len(messages) \in Nat
      /\ messages \in Seq(Message)
  BY LenProperties DEF AnswerInv, Inv, TypeOK
<1>2. \A m : i \in DOMAIN ReplaceMessage(messages, n, m)
             /\ ReplaceMessage(messages, n, m)[i] = messages[i]
  BY DEF ReplaceMessage, Positions
<1>3. \A m \in Message : i \in DOMAIN Append(messages, m)
             /\ Append(messages, m)[i] = messages[i]
  BY <1>1, AppendProperties, LenProperties
<1>4. CASE LeavesAnswer(r) \/ AddsText(r) \/ Completes(r)
  BY <1>2, <1>4 DEF LeavesAnswer, AddsText, Completes
<1>5. CASE PutsPlaceholder(r)
  <2>1. Placeholder(runs[r]) \in Message
    BY LiveRunFacts, PlaceholderFacts DEF AnswerInv, OriginalOK
  <2>. QED BY <1>2, <1>3, <1>5, <2>1 DEF PutsPlaceholder
<1>6. CASE CleansUp(r)
  <2>1. Outcome(messages, n, messages')
    BY <1>6, CleanUp DEF CleansUp, AnswerInv
  <2>2. CASE Positions(messages, n) = {Len(messages)}
             /\ messages' = RemoveMessage(messages, n)
    <3>1. i # Len(messages)
      BY <2>2 DEF Positions
    <3>2. /\ messages' \in Seq(Message) /\ Len(messages') = Len(messages) - 1
          /\ \A j \in 1 .. Len(messages) - 1 : messages'[j] = messages[j]
      BY <1>1, <2>2, RemoveLast
    <3>. QED BY <1>1, <3>1, <3>2, LenProperties
  <2>. QED BY <1>2, <2>1, <2>2 DEF Outcome
<1>. QED BY <1>4, <1>5, <1>6 DEF RunStep

\* No step but Clear moves, alters or loses a message other than the answer
\* of the live run, whatever earlier runs left behind.
THEOREM BystandersUntouchedHolds == Spec => BystandersUntouched
<1>1. ASSUME AnswerInv, [Next]_vars, ~Clear, NEW i \in DOMAIN messages,
             ~IsTarget(messages[i])
      PROVE  i \in DOMAIN messages' /\ messages'[i] = messages[i]
  <2>1. CASE UNCHANGED messages
    BY <2>1
  <2>2. CASE messages' = Append(messages, UserMessage(NextRequest))
    BY <2>2, LenProperties, AppendProperties DEF AnswerInv, Inv, TypeOK
  <2>3. CASE \E r \in DOMAIN runs : runs[r].stage # "done" /\ RunStep(r)
    BY <1>1, <2>3, RunKeepsOthers DEF IsTarget
  <2>. QED BY <1>1, <2>1, <2>2, <2>3, NoRunCases
<1>2. AnswerInv /\ [Next]_vars =>
        [~Clear => \A i \in DOMAIN messages :
           ~IsTarget(messages[i]) =>
             i \in DOMAIN messages' /\ messages'[i] = messages[i]]_vars
  BY <1>1
<1>. QED BY <1>2, AnswerInvariance, PTL DEF Spec, BystandersUntouched

\* Once Stop is requested the run ends as interrupted, and its answer keeps
\* its text, gets back the one it had, or is withdrawn.
THEOREM StopWinsHolds == Spec => StopWins
<1>1. ASSUME AnswerInv, [Next]_vars, NEW r \in DOMAIN runs,
             runs[r].stopRequested, runs[r].stage # "done"
      PROVE  /\ Ends(r) => status' = "interrupted"
             /\ runs[r].stage = "stream" =>
                  LET before == Find(messages, runs[r].answer)
                      after == Find(messages', runs[r].answer)
                  IN  \/ after = NoMessage /\ before.content = <<>>
                      \/ after # NoMessage /\ after.content = before.content
                      \/ before.content = <<>> /\ after = runs[r].original
  <2>1. RunStep(r) /\ ~AddsText(r) /\ ~Completes(r)
    BY <1>1, LiveRunCases DEF AddsText, Completes
  <2>2. runs[r].stage = "stream" =>
          Find(messages, runs[r].answer) # NoMessage
    BY <1>1, CurrentFacts
  <2>3. CASE LeavesAnswer(r) \/ PutsPlaceholder(r)
    BY <2>2, <2>3 DEF LeavesAnswer, PutsPlaceholder
  <2>4. CASE CleansUp(r)
    <3>1. Kept(Find(messages, runs[r].answer),
               Find(messages', runs[r].answer), runs[r].original)
      BY <1>1, <2>4, CleanUpKeeps DEF CleansUp
    <3>. QED BY <1>1, <2>2, <2>4, <3>1 DEF CleansUp, Kept
  <2>. QED BY <2>1, <2>3, <2>4 DEF RunStep
<1>2. AnswerInv /\ [Next]_vars =>
        [\A r \in DOMAIN runs :
           (runs[r].stopRequested /\ runs[r].stage # "done") =>
             /\ Ends(r) => status' = "interrupted"
             /\ runs[r].stage = "stream" =>
                  LET before == Find(messages, runs[r].answer)
                      after == Find(messages', runs[r].answer)
                  IN  \/ after = NoMessage /\ before.content = <<>>
                      \/ after # NoMessage /\ after.content = before.content
                      \/ before.content = <<>>
                           /\ after = runs[r].original]_vars
  BY <1>1
<1>. QED BY <1>2, AnswerInvariance, PTL DEF Spec, StopWins

\* A run that ends without success and without text of its own leaves the
\* earlier answer's text as it found it.
THEOREM FruitlessRunKeepsAnswerHolds == Spec => FruitlessRunKeepsAnswer
<1>. DEFINE Fruitless(r) ==
       LET before == Find(messages, runs[r].answer)
       IN  /\ Ends(r) /\ status' # "completed"
           /\ runs[r].original # NoMessage
           /\ \/ runs[r].stage # "stream"
              \/ before.content = <<>>
              \/ /\ runs[r].mode = "continue"
                 /\ before.content = runs[r].original.content
     Restored(r) ==
       /\ Find(messages', runs[r].answer) # NoMessage
       /\ Find(messages', runs[r].answer).content = runs[r].original.content
<1>1. ASSUME AnswerInv, [Next]_vars, NEW r \in DOMAIN runs, Fruitless(r)
      PROVE  Restored(r)
  <2>. DEFINE before == Find(messages, runs[r].answer)
              after == Find(messages', runs[r].answer)
  <2>1. runs[r].stage # "done" /\ Ends(r) /\ status' # "completed"
        /\ runs[r].original # NoMessage
    BY <1>1 DEF Ends
  <2>2. CleansUp(r)
    BY <1>1, <2>1, LiveRunCases
       DEF RunStep, LeavesAnswer, PutsPlaceholder, AddsText, Completes
  <2>3. Kept(before, after, runs[r].original)
    BY <1>1, <2>1, <2>2, CleanUpKeeps DEF CleansUp
  <2>4. runs[r] \in ActiveRun
    BY <1>1, <2>1, LiveRunFacts DEF AnswerInv
  <2>5. runs[r].stage # "stream" => before = runs[r].original
    BY <1>1, <2>1, <2>4, CurrentFacts DEF ActiveRun, Stages
  <2>6. \/ before = runs[r].original \/ before.content = <<>>
        \/ before.content = runs[r].original.content
    BY <1>1, <2>5
  <2>. HIDE DEF before, after
  <2>7. after # NoMessage /\ after.content = runs[r].original.content
    BY <2>1, <2>3, <2>6 DEF Kept
  <2>. QED BY <2>7 DEF after
<1>2. AnswerInv /\ [Next]_vars =>
        [\A r \in DOMAIN runs : Fruitless(r) => Restored(r)]_vars
  <2>. HIDE DEF Fruitless, Restored
  <2>. QED BY <1>1
<1>3. [][\A r \in DOMAIN runs : Fruitless(r) => Restored(r)]_vars
        <=> FruitlessRunKeepsAnswer
  BY DEF FruitlessRunKeepsAnswer
<1>. HIDE DEF Fruitless, Restored
<1>. QED BY <1>2, <1>3, AnswerInvariance, PTL DEF Spec

\* Every text begins with itself, and with the empty one.
LEMMA PrefixFacts ==
  ASSUME NEW text \in Seq(Symbols)
  PROVE  IsPrefix(text, text) /\ IsPrefix(<<>>, text)
<1>1. Len(text) \in Nat /\ SubSeq(text, 1, Len(text)) = text
  BY LenProperties, SubSeqFull
<1>2. SubSeq(text, 1, 0) = <<>> /\ Len(<<>>) = 0
  BY <1>1, SubSeqEmpty, EmptySeq
<1>3. SubSeq(<<>>, 1, 0) = <<>>
  BY SubSeqEmpty, EmptySeq
<1>. QED BY <1>1, <1>2, <1>3 DEF IsPrefix

\* While a continuation runs, and however it ends, the text already shown is
\* a beginning of the text shown next.
THEOREM ContinueOnlyExtendsHolds == Spec => ContinueOnlyExtends
<1>1. ASSUME AnswerInv, [Next]_vars, NEW r \in DOMAIN runs,
             runs[r].mode = "continue", runs[r].stage # "done"
      PROVE  /\ Find(messages', runs[r].answer) # NoMessage
             /\ IsPrefix(Find(messages, runs[r].answer).content,
                         Find(messages', runs[r].answer).content)
  <2>. DEFINE run == runs[r]
              n == run.answer
              before == Find(messages, n)
              after == Find(messages', n)
  <2>1. RunStep(r) /\ run \in ActiveRun
    BY <1>1, LiveRunCases, LiveRunFacts DEF AnswerInv
  <2>2. /\ messages \in Seq(Message) /\ Positions(messages, n) # {}
        /\ before # NoMessage /\ before \in Message /\ IsAnswer(before, n)
        /\ run.original # NoMessage /\ run.original \in Message
        /\ IsAnswer(run.original, n)
        /\ run.stage = "request" => before = run.original
    BY <1>1, CurrentFacts
  <2>3. before.content \in Seq(Symbols) /\ run.original.content \in Seq(Symbols)
    BY <2>2 DEF Message
  <2>4. \A m \in Message :
          IsAnswer(m, n) /\ messages' = ReplaceMessage(messages, n, m)
            => after = m /\ after # NoMessage
    BY <2>2, FindReplaced, NoMessageAssumption
  <2>5. CASE LeavesAnswer(r)
    BY <2>2, <2>3, <2>5, PrefixFacts DEF LeavesAnswer
  <2>6. CASE PutsPlaceholder(r)
    <3>. DEFINE m == WithStatus(run.original, "streaming")
    <3>1. messages' = ReplaceMessage(messages, n, m)
            /\ run.original = before
      BY <1>1, <2>2, <2>6 DEF PutsPlaceholder, Placeholder
    <3>2. m \in Message /\ IsAnswer(m, n) /\ m.content = run.original.content
      BY <2>2, WithStatusType DEF WithStatus, Message
    <3>. HIDE DEF m
    <3>3. after = m /\ after # NoMessage
      BY <2>4, <3>1, <3>2
    <3>. QED BY <2>3, <3>1, <3>2, <3>3, PrefixFacts
  <2>7. CASE AddsText(r)
    <3>1. PICK chunk \in Chunks :
            messages' = ReplaceMessage(messages, n,
              Answer(n, Grown(run, before.content, chunk), "streaming"))
      BY <2>7 DEF AddsText
    <3>. DEFINE text == AppendWithoutDuplicate(before.content, chunk)
                m == Answer(n, text, "streaming")
    <3>2. text \in Seq(Symbols) /\ IsPrefix(before.content, text)
      BY <2>3, ChunksAssumption, AppendFacts
    <3>3. messages' = ReplaceMessage(messages, n, m)
      BY <1>1, <3>1 DEF Grown
    <3>. HIDE DEF text
    <3>4. m \in Message /\ IsAnswer(m, n) /\ m.content = text
      BY <2>1, <3>2 DEF Answer, Message, IsAnswer, ActiveRun
    <3>. HIDE DEF m
    <3>5. after = m /\ after # NoMessage
      BY <2>4, <3>3, <3>4
    <3>. QED BY <3>2, <3>4, <3>5
  <2>8. CASE Completes(r)
    <3>. DEFINE m == WithStatus(before, "complete")
    <3>1. messages' = ReplaceMessage(messages, n, m)
      BY <2>8 DEF Completes
    <3>2. m \in Message /\ IsAnswer(m, n) /\ m.content = before.content
      BY <2>2, WithStatusType DEF WithStatus, Message
    <3>. HIDE DEF m
    <3>3. after = m /\ after # NoMessage
      BY <2>4, <3>1, <3>2
    <3>. QED BY <2>3, <3>2, <3>3, PrefixFacts
  <2>9. CASE CleansUp(r)
    <3>1. Kept(before, after, run.original)
      BY <1>1, <2>9, CleanUpKeeps DEF CleansUp
    <3>2. IsPrefix(before.content, before.content)
            /\ IsPrefix(<<>>, run.original.content)
      BY <2>3, PrefixFacts
    <3>. HIDE DEF run, n, before, after
    <3>3. after # NoMessage /\ IsPrefix(before.content, after.content)
      BY <2>2, <3>1, <3>2 DEF Kept
    <3>. QED BY <3>3 DEF run, n, before, after
  <2>. QED BY <2>1, <2>5, <2>6, <2>7, <2>8, <2>9 DEF RunStep
<1>2. AnswerInv /\ [Next]_vars =>
        [\A r \in DOMAIN runs :
           runs[r].mode = "continue" /\ runs[r].stage # "done" =>
             /\ Find(messages', runs[r].answer) # NoMessage
             /\ IsPrefix(Find(messages, runs[r].answer).content,
                         Find(messages', runs[r].answer).content)]_vars
  BY <1>1
<1>. QED BY <1>2, AnswerInvariance, PTL DEF Spec, ContinueOnlyExtends
=============================================================================
