--------------------------- MODULE StreamContract ---------------------------
(***************************************************************************)
(* What AiRuntime.stream and AiRuntime.generate promise their caller (the  *)
(* chat session and the desktop interface rely on no more than this): the  *)
(* answer comes to the consumer piece by piece, at most one final event    *)
(* closes it, and the promise settles exactly once and in accordance with  *)
(* the final event.  ProviderStream implements it.                         *)
(***************************************************************************)
EXTENDS Sequences

CONSTANT Pieces  \* the texts a delta may carry

VARIABLES
  streamed,  \* whether the call has a consumer (stream) or not (generate)
  phase,     \* "open" until the promise settles
  text,      \* the pieces the consumer has been given, in order
  final,     \* the event that closed the consumer's view, or "none"
  stopped    \* the caller has aborted its signal

vars == <<streamed, phase, text, final, stopped>>

Init ==
  /\ streamed \in BOOLEAN
  /\ phase = "open" /\ text = <<>> /\ final = "none" /\ stopped = FALSE

(* A piece is told while nothing has closed the stream.                    *)
Deliver(t) ==
  /\ streamed /\ phase = "open" /\ final = "none"
  /\ text' = Append(text, t)
  /\ UNCHANGED <<streamed, phase, final, stopped>>

(* One event closes the stream: all of the answer has come, or none will.  *)
Close(f) ==
  /\ streamed /\ phase = "open" /\ final = "none"
  /\ final' = f
  /\ UNCHANGED <<streamed, phase, text, stopped>>

Ask ==
  /\ ~stopped /\ phase = "open"
  /\ stopped' = TRUE
  /\ UNCHANGED <<streamed, phase, text, final>>

(* Once "completed" was told the promise can only be fulfilled.            *)
Settle(p) ==
  /\ phase = "open"
  /\ p = "answered" => (streamed => final = "completed")
  /\ p = "failed" => final # "completed"
  /\ p = "aborted" => stopped /\ final = "none"
  /\ phase' = p
  /\ UNCHANGED <<streamed, text, final, stopped>>

Next ==
  \/ \E t \in Pieces : Deliver(t)
  \/ \E f \in {"completed", "error"} : Close(f)
  \/ Ask
  \/ \E p \in {"answered", "failed", "aborted"} : Settle(p)

SafeSpec == Init /\ [][Next]_vars

Spec == SafeSpec /\ <>(phase # "open")
=============================================================================
