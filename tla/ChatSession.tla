---------------------------- MODULE ChatSession ----------------------------
(***************************************************************************)
(* ConversationSession and ChatSessionController of                        *)
(* core/src/chat-session.ts: one conversation, the user's operations on it *)
(* (submit, stop, continue, regenerate, retry, clear, reopening) and the   *)
(* asynchronous body of a run, cut where the code awaits: the context      *)
(* builder, the request builder and the provider's stream.                 *)
(*                                                                         *)
(* A text is a sequence of Symbols.  The text of a user message is never   *)
(* inspected by the controller and is left empty.  Request identifiers are *)
(* numbered: the n-th run of the session uses request n, so that the user  *)
(* message n:user and the answer n:assistant share the number n.           *)
(*                                                                         *)
(* Definitions whose name begins with Faulty are defective variants of the *)
(* definition that follows them.  No action uses them: they are there to   *)
(* show that the properties tell the two apart.                            *)
(***************************************************************************)
EXTENDS Naturals, Sequences, SequencesExt

CONSTANTS
  Symbols,    \* the characters texts are made of
  Chunks,     \* the texts one delta of the provider's stream may carry
  NoMessage,  \* the absence of a message (undefined)
  MaxRuns,    \* bound: runs started in a behaviour
  MaxText     \* bound: length of an answer

Modes == {"submit", "continue", "regenerate", "retry"}
Stages == {"context", "request", "stream", "done"}
Statuses == {"idle", "streaming", "completed", "interrupted", "error"}

Message ==
  [role : {"user", "assistant"}, id : Nat, content : Seq(Symbols),
   streamStatus : {"none", "streaming", "complete", "interrupted"}]

ActiveRun ==
  [mode : Modes, answer : Nat, original : Message \cup {NoMessage},
   stopRequested : BOOLEAN, stage : Stages]

ASSUME ChunksAssumption == Chunks \subseteq Seq(Symbols)
ASSUME NoMessageAssumption == NoMessage \notin Message
ASSUME BoundsAssumption == MaxRuns \in Nat /\ MaxText \in Nat

VARIABLES
  messages,   \* ConversationSession.messages
  status,     \* ChatSessionController.status
  sending,    \* ChatSessionController.sending
  activeRun,  \* the id of ChatSessionController.activeRun, 0 for undefined
  runs        \* every run's record; the closures of a run outlive it

vars == <<messages, status, sending, activeRun, runs>>

-----------------------------------------------------------------------------
(* Messages and the operations of ConversationSession.                     *)

UserMessage(n) ==
  [role |-> "user", id |-> n, content |-> <<>>, streamStatus |-> "none"]

Answer(n, text, st) ==
  [role |-> "assistant", id |-> n, content |-> text, streamStatus |-> st]

IsAnswer(m, n) == m.role = "assistant" /\ m.id = n

\* Positions at which the session holds the answer with number n.
Positions(msgs, n) == {i \in DOMAIN msgs : IsAnswer(msgs[i], n)}

\* getMessages().find(message => message.id === id)
Find(msgs, n) ==
  IF Positions(msgs, n) = {} THEN NoMessage
  ELSE msgs[CHOOSE i \in Positions(msgs, n) : TRUE]

\* replaceMessage; identifiers are unique, so at most one message changes.
ReplaceMessage(msgs, n, m) ==
  [i \in DOMAIN msgs |-> IF i \in Positions(msgs, n) THEN m ELSE msgs[i]]

\* removeMessage: splice the message out, or nothing when it is absent.
RemoveMessage(msgs, n) ==
  IF Positions(msgs, n) = {} THEN msgs
  ELSE RemoveAt(msgs, CHOOSE i \in Positions(msgs, n) : TRUE)

\* withStreamMetadata
WithStatus(m, st) == [m EXCEPT !.streamStatus = st]

(***************************************************************************)
(* appendWithoutDuplicate.  The branches of the code are cases of one      *)
(* rule: leave out the longest beginning of the incoming text that the     *)
(* existing text already ends with (endsWith is the overlap of the whole   *)
(* incoming text, startsWith that of the whole existing one).  The cap of  *)
(* 4096 characters on partial overlaps is beyond the texts of the model.   *)
(***************************************************************************)
Overlaps(existing, incoming) ==
  {k \in 0 .. Len(incoming) :
     /\ k <= Len(existing)
     /\ SubSeq(existing, Len(existing) - k + 1, Len(existing))
          = SubSeq(incoming, 1, k)}

\* takes every delta for the whole answer
FaultyAppend(existing, incoming) == incoming

AppendWithoutDuplicate(existing, incoming) ==
  LET k == CHOOSE k \in Overlaps(existing, incoming) :
             \A l \in Overlaps(existing, incoming) : l <= k
  IN  existing \o SubSeq(incoming, k + 1, Len(incoming))

-----------------------------------------------------------------------------
(* lastTurn: the last answer, and whether a question stands before it.     *)

AnswerPositions == {i \in DOMAIN messages : messages[i].role = "assistant"}

LastAnswer ==
  CHOOSE i \in AnswerPositions : \A j \in AnswerPositions : j <= i

HasQuestion ==
  \E i \in DOMAIN messages : i < LastAnswer /\ messages[i].role = "user"

HasTurn == AnswerPositions # {} /\ HasQuestion

\* The status a controller starts with on a session that holds msgs.
StatusOf(msgs) ==
  LET answers == {i \in DOMAIN msgs : msgs[i].role = "assistant"}
  IN  IF answers = {} THEN "idle"
      ELSE LET last == CHOOSE i \in answers : \A j \in answers : j <= i
           IN  IF msgs[last].streamStatus = "interrupted"
               THEN "interrupted" ELSE "completed"

-----------------------------------------------------------------------------
(* How a run begins and ends.                                              *)

NextRequest == Len(runs) + 1

StartRun(mode, answer, original) ==
  /\ runs' = Append(runs, [mode |-> mode, answer |-> answer,
                           original |-> original,
                           stopRequested |-> FALSE, stage |-> "context"])
  /\ activeRun' = NextRequest
  /\ sending' = TRUE
  /\ status' = "streaming"

\* forgets sending
FaultyEndRun(r, st) ==
  /\ runs' = [runs EXCEPT ![r].stage = "done", ![r].original = NoMessage]
  /\ activeRun' = IF activeRun = r THEN 0 ELSE activeRun
  /\ status' = st
  /\ UNCHANGED sending

\* The finally block, after the status set by the try or the catch block.
\* What a finished run's closures can still read is its number and mode.
EndRun(r, st) ==
  /\ runs' = [runs EXCEPT ![r].stage = "done", ![r].original = NoMessage]
  /\ activeRun' = IF activeRun = r THEN 0 ELSE activeRun
  /\ sending' = FALSE
  /\ status' = st

AtStage(r, stage) == r \in DOMAIN runs /\ runs[r].stage = stage

\* does not bring the earlier answer back
FaultyMarkInterrupted(msgs, run, current) ==
  LET message == IF current # NoMessage THEN current ELSE run.original
  IN  IF message = NoMessage THEN msgs
      ELSE IF run.mode = "submit" /\ message.content = <<>>
        THEN RemoveMessage(msgs, message.id)
      ELSE ReplaceMessage(msgs, message.id, WithStatus(message, "interrupted"))

\* markInterrupted(active, current), as the messages it leaves.
MarkInterrupted(msgs, run, current) ==
  LET message == IF current # NoMessage THEN current ELSE run.original
  IN  IF message = NoMessage THEN msgs
      ELSE IF run.mode = "submit" /\ message.content = <<>>
        THEN RemoveMessage(msgs, message.id)
      ELSE IF run.mode # "submit" /\ run.original # NoMessage
                /\ message.content = <<>>
        THEN ReplaceMessage(msgs, message.id, run.original)
      ELSE ReplaceMessage(msgs, message.id, WithStatus(message, "interrupted"))

\* leaves a partial answer as it is
FaultyRollback(msgs, run) ==
  LET current == Find(msgs, run.answer)
  IN  IF current # NoMessage /\ current.content # <<>> THEN msgs
      ELSE IF run.original # NoMessage
        THEN ReplaceMessage(msgs, run.answer, run.original)
      ELSE RemoveMessage(msgs, run.answer)

\* What the catch block leaves when the run neither was stopped nor aborted.
Rollback(msgs, run) ==
  LET current == Find(msgs, run.answer)
  IN  IF current # NoMessage /\ current.content # <<>>
        THEN ReplaceMessage(msgs, run.answer, WithStatus(current, "interrupted"))
      ELSE IF run.original # NoMessage
        THEN ReplaceMessage(msgs, run.answer, run.original)
      ELSE RemoveMessage(msgs, run.answer)

Interrupt(r, current) ==
  /\ messages' = MarkInterrupted(messages, runs[r], current)
  /\ EndRun(r, "interrupted")

\* The catch block: Stop and AbortError interrupt, anything else is an error.
Catch(r, aborted) ==
  IF runs[r].stopRequested \/ aborted
  THEN Interrupt(r, Find(messages, runs[r].answer))
  ELSE /\ messages' = Rollback(messages, runs[r])
       /\ EndRun(r, "error")

-----------------------------------------------------------------------------
(* The user's operations.                                                  *)

\* no busy guard
FaultyIdle == TRUE

Idle == ~sending
MayStart == Idle /\ Len(runs) < MaxRuns

Submit ==
  /\ MayStart
  /\ messages' = Append(messages, UserMessage(NextRequest))
  /\ StartRun("submit", NextRequest, NoMessage)

Continue ==
  /\ MayStart
  /\ HasTurn
  /\ messages[LastAnswer].streamStatus = "interrupted"
  /\ StartRun("continue", messages[LastAnswer].id, messages[LastAnswer])
  /\ UNCHANGED messages

Regenerate ==
  /\ MayStart
  /\ HasTurn
  /\ messages[LastAnswer].streamStatus \in {"complete", "interrupted"}
  /\ StartRun("regenerate", messages[LastAnswer].id, messages[LastAnswer])
  /\ UNCHANGED messages

\* retry needs a question only; without an answer it invents a new number.
Retry ==
  /\ MayStart
  /\ status = "error"
  /\ IF AnswerPositions # {}
     THEN /\ HasQuestion
          /\ StartRun("retry", messages[LastAnswer].id, messages[LastAnswer])
     ELSE /\ \E i \in DOMAIN messages : messages[i].role = "user"
          /\ StartRun("retry", NextRequest, NoMessage)
  /\ UNCHANGED messages

Stop ==
  /\ activeRun # 0 /\ sending
  /\ runs' = [runs EXCEPT ![activeRun].stopRequested = TRUE]
  /\ UNCHANGED <<messages, status, sending, activeRun>>

Clear ==
  /\ Idle
  /\ messages' = <<>>
  /\ status' = "idle"
  /\ UNCHANGED <<sending, activeRun, runs>>

\* The application puts a new controller on the stored conversation.
Reopen ==
  /\ Idle
  /\ status' = StatusOf(messages)
  /\ UNCHANGED <<messages, sending, activeRun, runs>>

-----------------------------------------------------------------------------
(* The steps of run(), one per resumption.                                 *)

ContextBuilt(r) ==
  /\ AtStage(r, "context")
  /\ ~runs[r].stopRequested
  /\ runs' = [runs EXCEPT ![r].stage = "request"]
  /\ UNCHANGED <<messages, status, sending, activeRun>>

ContextBuiltAfterStop(r) ==
  /\ AtStage(r, "context")
  /\ runs[r].stopRequested
  /\ Interrupt(r, runs[r].original)

ContextFails(r) ==
  /\ AtStage(r, "context")
  /\ Catch(r, FALSE)

\* The message the stream will be written into.
Placeholder(run) ==
  IF run.original = NoMessage \/ run.mode \in {"regenerate", "retry"}
  THEN Answer(run.answer, <<>>, "streaming")
  ELSE WithStatus(run.original, "streaming")

\* replaceMessage throws for a retry that has no answer to replace.
RequestBuilt(r) ==
  /\ AtStage(r, "request")
  /\ IF runs[r].mode # "submit" /\ Find(messages, runs[r].answer) = NoMessage
     THEN Catch(r, FALSE)
     ELSE /\ messages' = IF runs[r].mode = "submit"
                         THEN Append(messages, Placeholder(runs[r]))
                         ELSE ReplaceMessage(messages, runs[r].answer,
                                      Placeholder(runs[r]))
          /\ runs' = [runs EXCEPT ![r].stage = "stream"]
          /\ UNCHANGED <<status, sending, activeRun>>

\* does not compare the event's run with the active one
FaultyListens(r) == ~runs[r].stopRequested

\* The guard of onEvent: events of stopped or finished runs are dropped.
Listens(r) == ~runs[r].stopRequested /\ activeRun = r

Grown(run, text, chunk) ==
  IF run.mode = "continue" THEN AppendWithoutDuplicate(text, chunk)
                           ELSE text \o chunk

\* A provider may call the handler late, when its run has ended.
Delta(r, chunk) ==
  /\ r \in DOMAIN runs /\ runs[r].stage \in {"stream", "done"}
  /\ Listens(r)
  /\ LET current == Find(messages, runs[r].answer)
         text == Grown(runs[r], current.content, chunk)
     IN  /\ current # NoMessage
         /\ Len(text) <= MaxText
         /\ messages' = ReplaceMessage(messages, runs[r].answer,
                                Answer(runs[r].answer, text, "streaming"))
  /\ UNCHANGED <<status, sending, activeRun, runs>>

\* a response wins over an earlier Stop
FaultyProviderResponds(r) ==
  /\ AtStage(r, "stream")
  /\ LET current == Find(messages, runs[r].answer)
     IN  IF current = NoMessage THEN Catch(r, FALSE)
         ELSE /\ messages' = ReplaceMessage(messages, runs[r].answer,
                                     WithStatus(current, "complete"))
              /\ EndRun(r, "completed")

ProviderResponds(r) ==
  /\ AtStage(r, "stream")
  /\ LET current == Find(messages, runs[r].answer)
     IN  IF runs[r].stopRequested THEN Interrupt(r, current)
         ELSE IF current = NoMessage THEN Catch(r, FALSE)
         ELSE /\ messages' = ReplaceMessage(messages, runs[r].answer,
                                     WithStatus(current, "complete"))
              /\ EndRun(r, "completed")

ProviderFails(r) == AtStage(r, "stream") /\ Catch(r, FALSE)
ProviderAborts(r) == AtStage(r, "stream") /\ Catch(r, TRUE)

-----------------------------------------------------------------------------
Init ==
  /\ messages = <<>>
  /\ status = StatusOf(<<>>)
  /\ sending = FALSE
  /\ activeRun = 0
  /\ runs = <<>>

ContextSettles(r) ==
  ContextBuilt(r) \/ ContextBuiltAfterStop(r) \/ ContextFails(r)

ProviderSettles(r) ==
  ProviderResponds(r) \/ ProviderFails(r) \/ ProviderAborts(r)

User ==
  Submit \/ Continue \/ Regenerate \/ Retry \/ Stop \/ Clear \/ Reopen

Step(r) ==
  \/ ContextSettles(r)
  \/ RequestBuilt(r)
  \/ \E chunk \in Chunks : Delta(r, chunk)
  \/ ProviderSettles(r)

Next == User \/ \E r \in 1 .. MaxRuns : Step(r)

\* The context builder answers, and a provider's stream ends: it carries a
\* deadline of its own.  The user is under no obligation.
Fairness ==
  /\ \A r \in 1 .. MaxRuns : WF_vars(ContextSettles(r))
  /\ \A r \in 1 .. MaxRuns : WF_vars(RequestBuilt(r))
  /\ \A r \in 1 .. MaxRuns : WF_vars(ProviderSettles(r))

Spec == Init /\ [][Next]_vars /\ Fairness

-----------------------------------------------------------------------------
(* Properties.                                                             *)

\* Every variable holds a value of its type.
TypeOK ==
  /\ messages \in Seq(Message)
  /\ status \in Statuses
  /\ sending \in BOOLEAN
  /\ activeRun \in 0 .. MaxRuns
  /\ runs \in Seq(ActiveRun)

\* At most one run is live, it is the one the controller calls active, and
\* "sending" says whether there is one; only the answer of that run, and only
\* once its stream has begun, is shown as streaming.  So when the session is
\* at rest, whatever failed, no answer is left in the streaming state.
OneRunAtATime ==
  /\ sending <=> activeRun # 0
  /\ sending <=> status = "streaming"
  /\ \A r \in DOMAIN runs : runs[r].stage # "done" <=> activeRun = r
  /\ \A i \in DOMAIN messages :
       messages[i].streamStatus = "streaming" =>
         \E r \in DOMAIN runs :
            r = activeRun /\ runs[r].stage = "stream"
              /\ IsAnswer(messages[i], runs[r].answer)

\* Every answer stands right behind its own question, and no identifier, a
\* role and a number, is used twice.
Paired(msgs) ==
  /\ \A i \in DOMAIN msgs :
       msgs[i].role = "assistant" =>
         i > 1 /\ msgs[i - 1] = UserMessage(msgs[i].id)
  /\ \A i, j \in DOMAIN msgs :
       msgs[i].role = msgs[j].role /\ msgs[i].id = msgs[j].id => i = j

\* Whatever succeeds, fails or is stopped, an answer stands right behind the
\* question it answers, and no identifier is used twice.
AnswerFollowsQuestion == Paired(messages)

\* The message a run writes into.
IsTarget(m) ==
  \E r \in DOMAIN runs : runs[r].stage # "done" /\ IsAnswer(m, runs[r].answer)

\* No step but Clear moves, alters or loses a message other than the answer
\* of the live run: not a late event of an earlier run, not the clean-up of
\* a failed one.
BystandersUntouched ==
  [][~Clear => \A i \in DOMAIN messages :
       ~IsTarget(messages[i]) =>
         i \in DOMAIN messages' /\ messages'[i] = messages[i]]_vars

Ends(r) == runs[r].stage # "done" /\ runs'[r].stage = "done"

\* Once Stop is requested the run can only end as interrupted, however the
\* context builder or the provider settles, and no text arrives after it: the
\* answer keeps its text, gets back the one it had, or is withdrawn.
StopWins ==
  [][\A r \in DOMAIN runs :
       (runs[r].stopRequested /\ runs[r].stage # "done") =>
         /\ Ends(r) => status' = "interrupted"
         /\ runs[r].stage = "stream" =>
              LET before == Find(messages, runs[r].answer)
                  after == Find(messages', runs[r].answer)
              IN  \/ after = NoMessage /\ before.content = <<>>
                  \/ after # NoMessage /\ after.content = before.content
                  \/ before.content = <<>> /\ after = runs[r].original]_vars

\* A run that ends without success and without having received any text
\* leaves the earlier answer's text as it found it.
FruitlessRunKeepsAnswer ==
  [][\A r \in DOMAIN runs :
       LET before == Find(messages, runs[r].answer)
       IN  ( /\ Ends(r) /\ status' # "completed"
             /\ runs[r].original # NoMessage
             /\ \/ runs[r].stage # "stream"
                \/ before.content = <<>>
                \/ /\ runs[r].mode = "continue"
                   /\ before.content = runs[r].original.content )
           => /\ Find(messages', runs[r].answer) # NoMessage
              /\ Find(messages', runs[r].answer).content
                   = runs[r].original.content]_vars

\* While a continuation runs, and however it ends, the text already shown is
\* a beginning of the text shown next.
ContinueOnlyExtends ==
  [][\A r \in DOMAIN runs :
       runs[r].mode = "continue" /\ runs[r].stage # "done" =>
         /\ Find(messages', runs[r].answer) # NoMessage
         /\ IsPrefix(Find(messages, runs[r].answer).content,
                     Find(messages', runs[r].answer).content)]_vars

\* Every run ends: the session always comes back to accepting input.
EveryRunSettles == sending ~> ~sending

\* tests/unit/chat-session.test.ts states "Retry creates one assistant
\* response": a retry that completes gives the question that failed, the
\* last one, its answer.
RetryAnswersLastQuestion ==
  [][\A r \in DOMAIN runs :
       runs[r].mode = "retry" /\ Ends(r) /\ status' = "completed"
         => messages'[Len(messages')].role = "assistant"]_vars
=============================================================================
