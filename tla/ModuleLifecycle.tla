-------------------------- MODULE ModuleLifecycle --------------------------
(***************************************************************************)
(* ModuleManager of core/src/module-manager.ts: the lifecycle of the       *)
(* companion modules.  Its operations call the hooks of a module           *)
(* (initialize, start, stop, health) and wait for them; several operations *)
(* may be in progress at once, and a hook may succeed or throw.            *)
(*                                                                         *)
(* An operation works through a sequence of modules, "left", whose head is *)
(* the one it is at.  Its pc is the hook it waits for, "next" when it is   *)
(* about to look at the state of the head and to call the first hook, or   *)
(* "initialized" between the two hooks of restart and enable.              *)
(* Another operation may run before it looks: for one that has just begun  *)
(* this is as if it had begun later.                                       *)
(*                                                                         *)
(* The variables "live" and "alone" are no state of the program: the first *)
(* tells what the hooks have made of a module, the second which operations *)
(* have had no company but health checks.                                  *)
(***************************************************************************)
EXTENDS Naturals, Sequences

CONSTANTS
  Modules,
  Optional,  \* the modules whose manifest says optional
  Order,     \* the order of registration
  Callers,   \* who may have an operation in progress
  Nobody     \* no operation

ASSUME ModulesAssumption ==
  /\ Optional \subseteq Modules
  /\ Order \in Seq(Modules)

States == {"installed", "loading", "ready", "running", "degraded", "error",
           "disabled"}

Sweeps == {"initializeAll", "startAll", "stopAll", "healthAll"}
Singles == {"restart", "enable", "disable", "health"}
\* what an operation waits for
Awaited == {"initialize", "initialized", "start", "stop", "health"}

Operation ==
  [op : Sweeps \cup Singles, left : Seq(Modules),
   pc : Awaited \cup {"next", "resolved", "rejected"},
   fatal : BOOLEAN]   \* something is to be thrown at the end of a sweep

ASSUME NobodyAssumption == Nobody \notin Operation

VARIABLES
  state,  \* ModuleState of every module
  calls,  \* the operation every caller has in progress
  live,   \* modules that have been started and not been stopped since
  alone   \* callers whose operation has had the manager for itself

vars == <<state, calls, live, alone>>

TypeOK ==
  /\ state \in [Modules -> States]
  /\ calls \in [Callers -> Operation \cup {Nobody}]
  /\ live \in SUBSET Modules
  /\ alone \in SUBSET Callers

Init ==
  /\ state = [m \in Modules |-> "installed"]
  /\ calls = [p \in Callers |-> Nobody]
  /\ live = {}
  /\ alone = {}

-----------------------------------------------------------------------------
(* Transitions.                                                            *)

\* lets a late answer of a hook bring a disabled module back
FaultyAllowed(from) ==
  CASE from = "installed" -> {"loading", "disabled"}
    [] from \in {"loading", "disabled"} -> {"ready", "error", "installed"}
    [] OTHER -> States

\* ALLOWED
Allowed(from) ==
  CASE from = "installed" -> {"loading", "disabled"}
    [] from = "loading" -> {"ready", "error", "disabled"}
    [] from = "ready" -> {"running", "disabled", "loading", "error"}
    [] from = "running" -> {"ready", "degraded", "error", "disabled"}
    [] from = "degraded" -> {"running", "ready", "error", "disabled"}
    [] from = "error" -> {"installed", "disabled", "loading"}
    [] from = "disabled" -> {"installed"}

\* transition(entry, next) does not throw
Legal(m, next) == next = state[m] \/ next \in Allowed(state[m])

Enter(m, next) == state' = [state EXCEPT ![m] = next]

Stoppable == {"running", "degraded", "ready"}

-----------------------------------------------------------------------------
(* The course of an operation.                                             *)

At(p, pc) == calls[p] # Nobody /\ calls[p].pc = pc

Continue(p, pc) == calls' = [calls EXCEPT ![p].pc = pc]

Target(p) == Head(calls[p].left)

IsSweep(p) == calls[p].op \in Sweeps

\* Done with the head: an operation on one module resolves, a sweep goes on.
Proceed(p) ==
  IF IsSweep(p)
  THEN calls' = [calls EXCEPT ![p].left = Tail(@), ![p].pc = "next"]
  ELSE Continue(p, "resolved")

\* does not catch
FaultyThrow(p) == Continue(p, "rejected")

\* The treatment of the head throws: a sweep keeps the exception for its end.
Throw(p) ==
  IF IsSweep(p)
  THEN calls' = [calls EXCEPT ![p].left = Tail(@), ![p].pc = "next",
                              ![p].fatal = TRUE]
  ELSE Continue(p, "rejected")

Operations ==
  [op : {"initializeAll", "startAll", "healthAll"}, left : {Order},
   pc : {"next"}, fatal : {FALSE}]
  \cup [op : {"stopAll"}, pc : {"next"}, fatal : {FALSE},
        left : {[i \in DOMAIN Order |-> Order[Len(Order) + 1 - i]]}]
  \cup [op : Singles, left : {<<m>> : m \in Modules},
        pc : {"next"}, fatal : {FALSE}]

IsHealth(operation) == operation.op \in {"health", "healthAll"}

Begin(p, operation) ==
  LET busy == {q \in Callers : calls[q] # Nobody /\ ~IsHealth(calls[q])}
  IN  /\ calls[p] = Nobody
      /\ calls' = [calls EXCEPT ![p] = operation]
      /\ alone' = IF IsHealth(operation) THEN alone
                  ELSE IF busy = {} THEN alone \cup {p}
                  ELSE {}
      /\ UNCHANGED <<state, live>>

\* The promise has settled and the caller has seen it.
Return(p) ==
  /\ At(p, "resolved") \/ At(p, "rejected")
  /\ calls' = [calls EXCEPT ![p] = Nobody]
  /\ alone' = alone \ {p}
  /\ UNCHANGED <<state, live>>

-----------------------------------------------------------------------------
(* Looking at the head, up to the first hook.                              *)

\* the states in which a sweep does something with a module
Treated(op) ==
  CASE op = "initializeAll" -> {"installed"}
    [] op = "startAll" -> {"ready"}
    [] op = "stopAll" -> Stoppable
    [] op = "healthAll" -> States

FirstHook(op) ==
  CASE op = "initializeAll" -> "initialize"
    [] op = "startAll" -> "start"
    [] op = "stopAll" -> "stop"
    [] op = "healthAll" -> "health"

\* A sweep passes over the modules there is nothing to do with.
SweepNext(p) ==
  LET call == calls[p]
      due == {i \in DOMAIN call.left : state[call.left[i]] \in Treated(call.op)}
  IN  /\ At(p, "next") /\ IsSweep(p)
      /\ \/ /\ due = {}
            /\ Continue(p, IF call.fatal THEN "rejected" ELSE "resolved")
            /\ UNCHANGED state
         \/ \E i \in due :
              /\ \A j \in due : i <= j
              /\ calls' = [calls EXCEPT ![p].left = SubSeq(@, i, Len(@)),
                                       ![p].pc = FirstHook(call.op)]
              /\ IF call.op = "initializeAll"
                 THEN Enter(call.left[i], "loading") ELSE UNCHANGED state
      /\ UNCHANGED <<live, alone>>

\* A module that is ready, or about to be, is left as it is.
Restart(p) ==
  LET m == Target(p)
  IN  /\ At(p, "next") /\ calls[p].op = "restart"
      /\ CASE state[m] = "disabled" ->
                 Continue(p, "rejected") /\ UNCHANGED state
           [] state[m] \in {"running", "degraded"} ->
                 Continue(p, "stop") /\ UNCHANGED state
           [] state[m] \in {"error", "installed"} ->
                 Continue(p, "initialize") /\ Enter(m, "loading")
           [] state[m] \in {"ready", "loading"} ->
                 Continue(p, "resolved") /\ UNCHANGED state
      /\ UNCHANGED <<live, alone>>

Enable(p) ==
  LET m == Target(p)
  IN  /\ At(p, "next") /\ calls[p].op = "enable"
      /\ IF state[m] = "disabled"
         THEN Continue(p, "initialize") /\ Enter(m, "loading")
         ELSE Continue(p, "rejected") /\ UNCHANGED state
      /\ UNCHANGED <<live, alone>>

Disable(p) ==
  LET m == Target(p)
  IN  /\ At(p, "next") /\ calls[p].op = "disable"
      /\ IF state[m] \in Stoppable
         THEN Continue(p, "stop") /\ UNCHANGED state
         ELSE Continue(p, "resolved") /\ Enter(m, "disabled")
      /\ UNCHANGED <<live, alone>>

Health(p) ==
  /\ At(p, "next") /\ calls[p].op = "health"
  /\ Continue(p, "health")
  /\ UNCHANGED <<state, live, alone>>

-----------------------------------------------------------------------------
(* A hook settles; "ok" tells whether it fulfils.  The state may have      *)
(* changed since it was called.                                            *)

\* lets the failure of any module count
FaultyFail(p, m) ==
  IF Legal(m, "error")
  THEN Enter(m, "error") /\ Throw(p)
  ELSE Throw(p) /\ UNCHANGED state

\* the catch blocks of initialize and start; a transition that is not
\* allowed throws out of them
Fail(p, m) ==
  IF Legal(m, "error")
  THEN Enter(m, "error") /\ IF m \in Optional THEN Proceed(p) ELSE Throw(p)
  ELSE Throw(p) /\ UNCHANGED state

InitializeSettles(p, ok) ==
  LET m == Target(p)
  IN  /\ At(p, "initialize")
      /\ IF ok /\ Legal(m, "ready")
         THEN /\ Enter(m, "ready")
              /\ IF IsSweep(p) THEN Proceed(p) ELSE Continue(p, "initialized")
         ELSE Fail(p, m)
      /\ UNCHANGED <<live, alone>>

\* restart and enable go on to start what they have initialized, when nobody
\* has changed its state before they resume.
StartNext(p) ==
  /\ At(p, "initialized")
  /\ Continue(p, IF state[Target(p)] = "ready" THEN "start" ELSE "rejected")
  /\ UNCHANGED <<state, live, alone>>

StartSettles(p, ok) ==
  LET m == Target(p)
  IN  /\ At(p, "start")
      /\ IF ok /\ Legal(m, "running")
         THEN Enter(m, "running") /\ Proceed(p)
         ELSE Fail(p, m)
      /\ live' = IF ok THEN live \cup {m} ELSE live
      /\ UNCHANGED alone

\* forgets the transition
FaultyStopped(p, m) == Proceed(p) /\ UNCHANGED state

\* stopAll and restart go on with a module that has stopped
Stopped(p, m) == Enter(m, "ready") /\ Proceed(p)

\* ... and with one that has not
StopFailed(p, m) ==
  IF ~Legal(m, "error")
  THEN Continue(p, "rejected") /\ UNCHANGED state
  ELSE IF IsSweep(p)
  THEN Enter(m, "error") /\ Throw(p)
  ELSE Enter(m, "loading") /\ Continue(p, "initialize")

StopSettles(p, ok) ==
  LET m == Target(p)
  IN  /\ At(p, "stop")
      /\ IF calls[p].op = "disable"
         THEN Enter(m, "disabled") /\ Continue(p, "resolved")
         ELSE IF ok /\ Legal(m, "ready") THEN Stopped(p, m)
         ELSE StopFailed(p, m)
      /\ live' = IF ok THEN live \ {m} ELSE live
      /\ UNCHANGED alone

\* the state of a module after health has answered
Reported(m, status) ==
  IF state[m] = "running" /\ status = "degraded" THEN "degraded"
  ELSE IF state[m] = "degraded" /\ status = "healthy" THEN "running"
  ELSE state[m]

HealthAnswers(p, status) ==
  /\ At(p, "health")
  /\ Enter(Target(p), Reported(Target(p), status))
  /\ Proceed(p)
  /\ UNCHANGED <<live, alone>>

HealthThrows(p) ==
  LET m == Target(p)
  IN  /\ At(p, "health")
      /\ CASE state[m] \in {"running", "degraded"} ->
                 Enter(m, "degraded") /\ Proceed(p)
           [] state[m] = "disabled" -> UNCHANGED state /\ Proceed(p)
           [] state[m] \in {"loading", "ready", "error"} ->
                 Enter(m, "error") /\ Proceed(p)
           [] state[m] = "installed" ->
                 /\ UNCHANGED state
                 /\ IF IsSweep(p) THEN Proceed(p) ELSE Continue(p, "rejected")
      /\ UNCHANGED <<live, alone>>

-----------------------------------------------------------------------------
Next ==
  \E p \in Callers :
    \/ \E operation \in Operations : Begin(p, operation)
    \/ SweepNext(p) \/ Restart(p) \/ Enable(p) \/ Disable(p) \/ Health(p)
    \/ StartNext(p)
    \/ \E ok \in BOOLEAN :
         InitializeSettles(p, ok) \/ StartSettles(p, ok) \/ StopSettles(p, ok)
    \/ \E status \in {"healthy", "degraded", "error"} : HealthAnswers(p, status)
    \/ HealthThrows(p)
    \/ Return(p)

Spec == Init /\ [][Next]_vars

-----------------------------------------------------------------------------
(* Properties.                                                             *)

\* Whatever operations overlap, a module that the manager reports as running
\* or degraded has been started and not been stopped since.
RunningIsLive ==
  \A m \in Modules : state[m] \in {"running", "degraded"} => m \in live

\* A disabled module stays disabled until it is enabled: no hook that was
\* called before, and answers late, brings it back.
DisabledUntilEnabled ==
  [][\A m \in Modules :
       state[m] = "disabled" /\ state'[m] # "disabled" =>
         \E p \in Callers :
           At(p, "next") /\ calls[p].op = "enable" /\ Target(p) = m]_vars

Settled(p, op) ==
  calls[p] # Nobody /\ calls[p].op = op /\ calls[p].pc \in {"resolved", "rejected"}

\* A sweep reaches every module, also behind one that fails, and in spite of
\* the health checks beside it: afterwards none waits to be initialized, or
\* started, and none is live but those that failed and those that were
\* disabled.  "Optional module initialize/start/health failures do not
\* terminate Core" (ARCHITECTURE.md:34): initializeAll and startAll reject
\* only when a module that is not optional is in error.
SweepsReachAll ==
  \A p \in alone :
    /\ \A i \in DOMAIN Order :
         LET m == Order[i] IN
           /\ Settled(p, "initializeAll") => state[m] \notin {"installed", "loading"}
           /\ Settled(p, "startAll") => state[m] # "ready"
           /\ Settled(p, "stopAll") /\ m \in live =>
                state[m] \in {"error", "disabled"}
    /\ At(p, "rejected") /\ calls[p].op \in {"initializeAll", "startAll"} =>
         \E m \in Modules \ Optional : state[m] = "error"

\* "running module can restart" (tests/foundation.test.ts:133): a restart
\* that has stopped a module resolves only when it runs again.
RestartRuns ==
  [][\A p \in Callers :
       /\ At(p, "stop") /\ calls[p].op = "restart"
       /\ calls'[p] # Nobody /\ calls'[p].pc = "resolved"
       => state'[Target(p)] = "running"]_vars
=============================================================================
