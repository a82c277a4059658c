----------------------------- MODULE TaskRunner -----------------------------
(***************************************************************************)
(* The task runner of sysmodules/pm and sysmodules/rosalina                *)
(* (task_runner.c): one thread runs, one at a time, the tasks that other   *)
(* threads leave in a slot.  readyEvent says that the slot may be written, *)
(* parametersSetEvent that it has been; both reset when a wait on them     *)
(* returns.                                                                *)
(***************************************************************************)
CONSTANTS Callers,      \* the threads that call TaskRunner_RunTask
          Terminators,  \* those among them that call TaskRunner_Terminate
          Tasks,        \* tasks with their parameters
          NoOp,         \* the task TaskRunner_Terminate runs
          NoJob

Jobs == Tasks \cup {NoOp}

ASSUME TerminatorsAssumption == Terminators \subseteq Callers
ASSUME NoJobAssumption == NoJob \notin Jobs

VARIABLES
  ready,            \* readyEvent is signaled
  parametersSet,    \* parametersSetEvent is signaled
  slot,             \* task and argStorage
  shouldTerminate,
  runner,           \* where the runner is: "check", "wait", "run" or "done"
  at,               \* where a caller is: "out", "wait", "write", "signal" or "ended"
  job               \* what a caller wants to be run

vars == <<ready, parametersSet, slot, shouldTerminate, runner, at, job>>
-----------------------------------------------------------------------------
\* TaskRunner_Init, and the runner about to start.
Init ==
  /\ ready = FALSE /\ parametersSet = FALSE
  /\ slot = NoJob
  /\ shouldTerminate = FALSE
  /\ runner = "check"
  /\ at = [c \in Callers |-> "out"]
  /\ job = [c \in Callers |-> NoJob]

RunTask(c, j) ==
  /\ at[c] = "out"
  /\ at' = [at EXCEPT ![c] = "wait"]
  /\ job' = [job EXCEPT ![c] = j]
  /\ UNCHANGED <<ready, parametersSet, slot, shouldTerminate, runner>>

\* The flag is set first; then a task that does nothing makes the runner look at it.
Terminate(c) ==
  /\ at[c] = "out"
  /\ shouldTerminate' = TRUE
  /\ at' = [at EXCEPT ![c] = "wait"]
  /\ job' = [job EXCEPT ![c] = NoOp]
  /\ UNCHANGED <<ready, parametersSet, slot, runner>>

\* Mutant of CallerWaits: the event stays signaled when the wait returns.
CallerWaitsSticky(c) ==
  /\ at[c] = "wait" /\ ready
  /\ at' = [at EXCEPT ![c] = "write"]
  /\ UNCHANGED <<ready, parametersSet, slot, shouldTerminate, runner, job>>

CallerWaits(c) ==
  /\ at[c] = "wait" /\ ready
  /\ ready' = FALSE
  /\ at' = [at EXCEPT ![c] = "write"]
  /\ UNCHANGED <<parametersSet, slot, shouldTerminate, runner, job>>

CallerWrites(c) ==
  /\ at[c] = "write"
  /\ slot' = job[c]
  /\ at' = [at EXCEPT ![c] = "signal"]
  /\ UNCHANGED <<ready, parametersSet, shouldTerminate, runner, job>>

CallerSignals(c) ==
  /\ at[c] = "signal"
  /\ parametersSet' = TRUE
  /\ at' = [at EXCEPT ![c] = IF job[c] = NoOp THEN "ended" ELSE "out"]
  /\ job' = [job EXCEPT ![c] = NoJob]
  /\ UNCHANGED <<ready, slot, shouldTerminate, runner>>

\* Mutant of RunnerChecks: the runner forgets to say that it is ready again.
RunnerChecksQuietly ==
  /\ runner = "check"
  /\ IF shouldTerminate
     THEN runner' = "done" /\ UNCHANGED ready
     ELSE runner' = "wait" /\ ready' = (slot = NoJob)
  /\ UNCHANGED <<parametersSet, slot, shouldTerminate, at, job>>

\* The condition of the loop, and the signal at the start of its body.
RunnerChecks ==
  /\ runner = "check"
  /\ IF shouldTerminate
     THEN runner' = "done" /\ UNCHANGED ready
     ELSE runner' = "wait" /\ ready' = TRUE
  /\ UNCHANGED <<parametersSet, slot, shouldTerminate, at, job>>

RunnerStarts ==
  /\ runner = "wait" /\ parametersSet
  /\ parametersSet' = FALSE
  /\ runner' = "run"
  /\ UNCHANGED <<ready, slot, shouldTerminate, at, job>>

RunnerFinishes ==
  /\ runner = "run"
  /\ runner' = "check"
  /\ UNCHANGED <<ready, parametersSet, slot, shouldTerminate, at, job>>

\* No thread has anything left to do.
Ended ==
  /\ \A c \in Callers : at[c] = "ended" \/ (at[c] = "wait" /\ runner = "done")
  /\ UNCHANGED vars

CallerSteps(c) == CallerWaits(c) \/ CallerWrites(c) \/ CallerSignals(c)
RunnerSteps == RunnerChecks \/ RunnerStarts \/ RunnerFinishes

Next ==
  \/ \E c \in Callers : CallerSteps(c) \/ \E j \in Tasks : RunTask(c, j)
  \/ \E c \in Terminators : Terminate(c)
  \/ RunnerSteps
  \/ Ended

Spec == Init /\ [][Next]_vars

\* Threads run and tasks return.
FairSpec ==
  /\ Spec
  /\ WF_vars(RunnerSteps)
  /\ \A c \in Callers : WF_vars(CallerSteps(c))
-----------------------------------------------------------------------------
(* Properties.                                                             *)

\* Every variable has its type.
TypeOK ==
  /\ ready \in BOOLEAN /\ parametersSet \in BOOLEAN /\ shouldTerminate \in BOOLEAN
  /\ slot \in Jobs \cup {NoJob}
  /\ runner \in {"check", "wait", "run", "done"}
  /\ at \in [Callers -> {"out", "wait", "write", "signal", "ended"}]
  /\ job \in [Callers -> Jobs \cup {NoJob}]

Writing == {c \in Callers : at[c] \in {"write", "signal"}}

\* The slot belongs to one thread at a time: to the runner, to one caller, or to
\* whoever waits on the event that is signaled.
OneOwner ==
  /\ ready => ~parametersSet /\ runner = "wait" /\ Writing = {}
  /\ parametersSet => runner = "wait" /\ Writing = {}
  /\ Writing # {} => runner = "wait" /\ \A c, d \in Writing : c = d

\* Tasks are run one at a time, once, with their own parameters: the two events
\* implement the hand-over of TaskHandoff.
Handoff == INSTANCE TaskHandoff WITH
  None    <- NoJob,
  handed  <- IF parametersSet THEN slot ELSE NoJob,
  running <- IF runner = "run" THEN slot ELSE NoJob

ImplementsHandoff == Handoff!HSpec

\* A thread that asks for a task gets to hand it over, unless the runner is told
\* to terminate or other threads, which may take readyEvent first, keep asking
\* for ever.  A task that has been handed over is run, whatever happens.
RequestedTaskIsRun ==
  /\ \A c \in Callers :
        \/ <>shouldTerminate
        \/ []<>(\E d \in Callers \ {c} : at[d] = "write")
        \/ (at[c] = "wait") ~> (at[c] = "signal" /\ slot = job[c])
  /\ \A j \in Tasks : (parametersSet /\ slot = j) ~> (runner = "run" /\ slot = j)

=============================================================================
