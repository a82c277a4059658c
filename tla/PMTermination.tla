--------------------------- MODULE PMTermination ----------------------------
(***************************************************************************)
(* How sysmodules/pm terminates processes (termination.c) while its        *)
(* monitor takes note of those that have ended (process_monitor.c).        *)
(*                                                                         *)
(* The main thread runs TerminateApplication, the task runner runs         *)
(* TerminateProcessOrTitleAsync; both share waitingForTermination and an   *)
(* event that one waiter consumes.  Processes are all launched at first;   *)
(* what is done under the list lock is one step.                           *)
(***************************************************************************)
EXTENDS Integers, FiniteSets

CONSTANTS Procs,
          Application,   \* the process that is the running application
          Deps,          \* of a process: the processes launched for it
          Notifies,      \* processes with PROCESSFLAG_NOTIFY_TERMINATION
          Listens,       \* processes that take the notification 0x100
          MayExit,       \* processes that may end of their own accord
          Terminators,   \* the threads that terminate: "main", "task"
          NoProc

Autoloaded == UNION {Deps[p] : p \in Procs}

ASSUME DepsAssumption == Deps \in [Procs -> SUBSET Procs] /\ Application \in Procs

\* The application, and those whose end somebody is to be told of, are nobody's
\* dependencies (which launch.c:167 launches without flags), and end only when told to.
EndOnlyWhenTold == (Notifies \cup {Application}) \cap (MayExit \cup Autoloaded) = {}

\* Neither does a system module end of its own accord.
ModulesStayUp == MayExit \cap Autoloaded = {}

VARIABLES
  alive,        \* the processes that the kernel has not ended
  registered,   \* the processes that sm knows
  list,         \* processList
  status,       \* terminationStatus: "running", "sent", "failed" or "terminated"
  notify,       \* PROCESSFLAG_NOTIFY_TERMINATION
  kept,         \* PROCESSFLAG_NOTIFY_TERMINATION_TERMINATED
  depsLoaded,   \* PROCESSFLAG_DEPENDENCIES_LOADED
  refcount,
  runningApplication,
  forgotten,    \* a history: the processes unregistered before the monitor noted their end
  waiting,      \* waitingForTermination
  notified,     \* allNotifiedTerminationEvent is signaled
  thread,       \* where a thread is: "idle", "mark", "commit", "wait", "wait again" or "done"
  goal,         \* the process it terminates, and whether it waits for the end
  monitor,      \* where the monitor is: "scan", "signal", "wait", "release" or "forget"
  watched,      \* the processes whose handles it waits on
  terminating,  \* atLeastOneTerminating
  backup        \* the process it cleans up, and the flags of it that it read

procVars == <<alive, registered, list, status, notify, kept, depsLoaded, refcount, runningApplication,
              forgotten>>
eventVars == <<waiting, notified>>
threadVars == <<thread, goal>>
monitorVars == <<monitor, watched, terminating, backup>>
vars == <<procVars, eventVars, threadVars, monitorVars>>

Users(d) == {p \in Procs : d \in Deps[p]}

NoGoal == [proc |-> NoProc, timed |-> FALSE]
NoBackup == [proc |-> NoProc, deps |-> FALSE]

Init ==
  /\ alive = Procs /\ registered = Procs /\ list = Procs
  /\ status = [p \in Procs |-> "running"]
  /\ notify = Notifies /\ kept = {}
  /\ depsLoaded = {p \in Procs : Deps[p] # {}}
  /\ refcount = [p \in Procs |-> IF p \in Autoloaded THEN Cardinality(Users(p)) ELSE 1]
  /\ runningApplication = Application /\ forgotten = {}
  /\ waiting = FALSE /\ notified = FALSE
  /\ thread = [t \in Terminators |-> "idle"]
  /\ goal = [t \in Terminators |-> NoGoal]
  /\ monitor = "scan" /\ watched = {} /\ terminating = FALSE /\ backup = NoBackup
-----------------------------------------------------------------------------
(* What the threads and the monitor share.                                 *)

\* ProcessData_SendTerminationNotification.
AfterNotification(p) == IF p \in registered \cap Listens THEN "sent" ELSE "failed"

\* The dependencies that terminateUnusedDependencies counts down, and among them
\* those that are not used any more.
Counted(p) == {d \in Deps[p] : d \in list /\ status[d] = "running"}

\* Mutant of Unused: one use is left.
UnusedEarly(p) == {d \in Counted(p) : refcount[d] <= 2}

Unused(p) == {d \in Counted(p) : refcount[d] = 1}

\* The notification is sent to these processes, and these lose a use.
NotifyAndCount(ps, counted) ==
  /\ status' = [p \in Procs |-> IF p \in ps THEN AfterNotification(p) ELSE status[p]]
  /\ refcount' = [d \in Procs |-> IF d \in counted THEN refcount[d] - 1 ELSE refcount[d]]

\* Mutant of TerminateProcessImpl: the flag stays, for the monitor to see.
TerminateProcessImplTwice(p) ==
  /\ UNCHANGED depsLoaded
  /\ IF p \in depsLoaded THEN NotifyAndCount({p} \cup Unused(p), Counted(p))
                         ELSE NotifyAndCount({p}, {})

\* terminateProcessImpl.  The process may be one that is not in the list any more.
TerminateProcessImpl(p) ==
  IF p \in depsLoaded
  THEN depsLoaded' = depsLoaded \ {p} /\ NotifyAndCount({p} \cup Unused(p), Counted(p))
  ELSE NotifyAndCount({p}, {}) /\ UNCHANGED depsLoaded
-----------------------------------------------------------------------------
(* The threads.                                                            *)

\* TerminateApplication.
TerminateApplication ==
  /\ "main" \in Terminators /\ thread["main"] = "idle"
  /\ thread' = [thread EXCEPT !["main"] = "mark"]
  /\ goal' = [goal EXCEPT !["main"] = [proc |-> Application, timed |-> TRUE]]
  /\ notified' = FALSE /\ waiting' = TRUE
  /\ UNCHANGED <<procVars, monitorVars>>

\* TerminateProcessOrTitleAsync; with a negative timeout it does not wait.
TerminateProcess(p) ==
  /\ "task" \in Terminators /\ thread["task"] = "idle"
  /\ thread' = [thread EXCEPT !["task"] = "mark"]
  /\ \E timed \in BOOLEAN :
       /\ goal' = [goal EXCEPT !["task"] = [proc |-> p, timed |-> timed]]
       /\ IF timed THEN notified' = FALSE /\ waiting' = TRUE ELSE UNCHANGED eventVars
  /\ UNCHANGED <<procVars, monitorVars>>

MarkApplication ==
  /\ "main" \in Terminators /\ thread["main"] = "mark"
  /\ thread' = [thread EXCEPT !["main"] = "commit"]
  /\ IF runningApplication # NoProc
     THEN TerminateProcessImpl(runningApplication)
     ELSE UNCHANGED <<status, refcount, depsLoaded>>
  /\ UNCHANGED <<alive, registered, list, notify, kept, runningApplication, forgotten, eventVars, goal,
                 monitorVars>>

\* Whoever asks is told of the end by this thread, and by no one else.
MarkProcess ==
  LET p == goal["task"].proc
  IN /\ "task" \in Terminators /\ thread["task"] = "mark"
     /\ thread' = [thread EXCEPT !["task"] = IF goal["task"].timed THEN "commit" ELSE "idle"]
     /\ IF p \in list
        THEN /\ notify' = notify \ {p}
             /\ kept' = IF p \in notify THEN kept \cup {p} ELSE kept
             /\ TerminateProcessImpl(p)
        ELSE UNCHANGED <<notify, kept, status, refcount, depsLoaded>>
     /\ UNCHANGED <<alive, registered, list, runningApplication, forgotten, eventVars, goal, monitorVars>>

\* commitPendingTerminations: who does not listen is ended, the others are waited for.
Commit(t) ==
  /\ thread[t] = "commit"
  /\ alive' = alive \ {p \in list : status[p] = "failed"}
  /\ thread' = [thread EXCEPT ![t] =
                  IF \E p \in list : status[p] = "sent" THEN "wait" ELSE "done"]
  /\ UNCHANGED <<registered, list, status, notify, kept, depsLoaded, refcount, runningApplication,
                 forgotten, eventVars, goal, monitorVars>>

AllNotified(t) ==
  /\ thread[t] \in {"wait", "wait again"} /\ notified
  /\ notified' = FALSE
  /\ thread' = [thread EXCEPT ![t] = "done"]
  /\ UNCHANGED <<procVars, waiting, goal, monitorVars>>

\* Mutant of TimesOut: the time is up and the processes live on.
TimesOutOnly(t) ==
  /\ thread[t] = "wait" /\ ~notified
  /\ thread' = [thread EXCEPT ![t] = "wait again"]
  /\ UNCHANGED <<procVars, eventVars, goal, monitorVars>>

TimesOut(t) ==
  /\ thread[t] = "wait" /\ ~notified
  /\ alive' = alive \ {p \in list : status[p] = "sent"}
  /\ thread' = [thread EXCEPT ![t] = "wait again"]
  /\ UNCHANGED <<registered, list, status, notify, kept, depsLoaded, refcount, runningApplication,
                 forgotten, eventVars, goal, monitorVars>>

Returns(t) ==
  /\ thread[t] = "done"
  /\ waiting' = FALSE
  /\ thread' = [thread EXCEPT ![t] = "idle"]
  /\ goal' = [goal EXCEPT ![t] = NoGoal]
  /\ UNCHANGED <<procVars, notified, monitorVars>>

\* UnregisterProcess, a command of pm:app: the entry goes, whatever state its process
\* is in.  Whoever was told of the end of a process asks for it.
UnregisterProcess(p) ==
  /\ "main" \in Terminators => thread["main"] = "idle"
  /\ p \in list
  /\ list' = list \ {p}
  /\ forgotten' = IF status[p] = "terminated" THEN forgotten ELSE forgotten \cup {p}
  /\ runningApplication' = IF runningApplication = p THEN NoProc ELSE runningApplication
  /\ UNCHANGED <<alive, registered, status, notify, kept, depsLoaded, refcount, eventVars,
                 threadVars, monitorVars>>
-----------------------------------------------------------------------------
(* The monitor.                                                            *)

MonitorScans ==
  /\ monitor = "scan" /\ monitor' = "signal"
  /\ watched' = {p \in list : status[p] # "terminated"}
  /\ terminating' = (\E p \in list : status[p] = "sent")
  /\ UNCHANGED <<procVars, eventVars, threadVars, backup>>

MonitorSignals ==
  /\ monitor = "signal" /\ monitor' = "wait"
  /\ notified' = (notified \/ (waiting /\ ~terminating))
  /\ UNCHANGED <<procVars, waiting, threadVars, watched, terminating, backup>>

\* newProcessEvent, or an error of the wait.
MonitorWakes ==
  /\ monitor = "wait" /\ monitor' = "scan"
  /\ UNCHANGED <<procVars, eventVars, threadVars, watched, terminating, backup>>

\* A process has ended: its entry is deleted unless somebody is to be told of it.
MonitorNotes(p) ==
  LET stays == p \in kept \cup notify
  IN /\ monitor = "wait" /\ p \in watched \ alive
     /\ IF p \in list
        THEN /\ status' = [status EXCEPT ![p] = "terminated"]
             /\ kept' = IF p \in notify THEN kept \cup {p} ELSE kept
             /\ list' = IF stays THEN list ELSE list \ {p}
             /\ backup' = [proc |-> p, deps |-> p \in depsLoaded]
             /\ monitor' = "release"
        ELSE monitor' = "scan" /\ UNCHANGED <<status, kept, list, backup>>
     /\ UNCHANGED <<alive, registered, notify, depsLoaded, refcount, runningApplication, forgotten,
                    eventVars, threadVars, watched, terminating>>

\* cleanupProcess: the dependencies, by the flags of the copy.
MonitorReleases ==
  /\ monitor = "release" /\ monitor' = "forget"
  /\ IF backup.deps
     THEN NotifyAndCount(Unused(backup.proc), Counted(backup.proc))
     ELSE UNCHANGED <<status, refcount>>
  /\ UNCHANGED <<alive, registered, list, notify, kept, depsLoaded, runningApplication, forgotten,
                 eventVars, threadVars, watched, terminating, backup>>

MonitorForgets ==
  /\ monitor = "forget" /\ monitor' = "scan"
  /\ registered' = registered \ {backup.proc}
  /\ runningApplication' = IF runningApplication = backup.proc THEN NoProc ELSE runningApplication
  /\ backup' = NoBackup
  /\ UNCHANGED <<alive, list, status, notify, kept, depsLoaded, refcount, forgotten, eventVars, threadVars,
                 watched, terminating>>

\* A process ends: it was told to, or it does so of its own accord.
Exits(p) ==
  /\ p \in alive /\ (status[p] = "sent" \/ p \in MayExit)
  /\ alive' = alive \ {p}
  /\ UNCHANGED <<registered, list, status, notify, kept, depsLoaded, refcount, runningApplication,
                 forgotten, eventVars, threadVars, monitorVars>>

ThreadSteps(t) ==
  \/ t = "main" /\ MarkApplication
  \/ t = "task" /\ MarkProcess
  \/ Commit(t) \/ AllNotified(t) \/ TimesOut(t) \/ Returns(t)

MonitorSteps ==
  \/ MonitorScans \/ MonitorSignals \/ MonitorReleases \/ MonitorForgets
  \/ \E p \in Procs : MonitorNotes(p)

Next ==
  \/ TerminateApplication
  \/ \E p \in Procs : TerminateProcess(p) \/ UnregisterProcess(p) \/ Exits(p)
  \/ \E t \in Terminators : ThreadSteps(t)
  \/ MonitorSteps \/ MonitorWakes

Spec == Init /\ [][Next]_vars

\* The threads run, and the monitor is not always told of a new process when
\* another has ended.  A system module ends when it is told to; an application need
\* not: the timeout is for that.
Fairness ==
  /\ WF_vars(MonitorSteps)
  /\ SF_vars(\E p \in Procs : MonitorNotes(p))
  /\ \A d \in Autoloaded : WF_vars(status[d] = "sent" /\ Exits(d))
  /\ \A t \in Terminators : WF_vars(ThreadSteps(t))

FairSpec == Spec /\ Fairness
-----------------------------------------------------------------------------
(* Properties.                                                             *)

\* A dependency is not told to end while a process uses it ("Process not a listed
\* dependency or still used", termination.c:35), unless somebody asks for it.
DependencyKept ==
  [][\A p \in Procs : \A d \in Deps[p] :
        /\ status[d] = "running" /\ status'[d] # "running"
        /\ \A t \in Terminators : goal[t].proc # d
        => status'[p] # "running"]_vars

\* The reference count of a dependency is the number of the processes that use it:
\* those with dependencies in the list, the one the monitor is about to release, and
\* those unregistered before their end, whose uses nobody takes back.
RefcountsCount ==
  \A d \in Autoloaded \cap list : status[d] = "running" =>
    refcount[d] = Cardinality({p \in Users(d) :
                     \/ p \in list /\ p \in depsLoaded /\ status[p] # "terminated"
                     \/ p \in forgotten /\ p \in depsLoaded
                     \/ monitor = "release" /\ backup.proc = p /\ backup.deps})

\* Termination comes to an end (termination.c:129 waits without a timeout), unless
\* the two threads are at it at the same time: they share the flag and the event,
\* and the first to return leaves the other without them; or a process is unregistered
\* that was told to end and has not: no timeout ends it any more.
TerminationReturns ==
  \/ <>(\E p \in forgotten : status[p] = "sent")
  \/ <>(\A t \in {"main", "task"} : t \in Terminators /\ thread[t] # "idle")
  \/ \A t \in Terminators : thread[t] # "idle" ~> thread[t] = "idle"

=============================================================================
