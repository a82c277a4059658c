------------------------------ MODULE PMLaunch ------------------------------
(***************************************************************************)
(* How sysmodules/pm launches titles and what they depend on (launch.c,    *)
(* info.c), on the main thread or on the task runner, while the monitor    *)
(* removes processes that have ended (process_monitor.c).                  *)
(*                                                                         *)
(* What is done under the list lock is one step, and so are calls of the   *)
(* loader and the registration that follows; other threads run in between. *)
(* How processes are told to end is what PMTermination says.               *)
(***************************************************************************)
EXTENDS Integers, Sequences, FiniteSets, SequencesExt

CONSTANTS Titles,
          AppTitles,  \* the titles that are applications
          Deps,       \* of a title: the sequence of titles its exheader lists
          Pool,       \* the entries of processDataBuffer, in order
          Asks,       \* what is asked of the main thread, a set of names of operations;
                      \* with "Queue", callers set PMLAUNCHFLAG_QUEUE_DEBUG_APPLICATION
          Fails,      \* calls that may fail: "register", "load", "run"
          MayExit,    \* titles that may end of their own accord
          Calm,       \* titles that are asked for, and end by themselves, only when no
                      \* launch is under way and no process is ending
          Null

Slots == Range(Pool)
Threads == {"main", "task"}

\* ProcessData.
Entry == [title : Titles, isApp : BOOLEAN, auto : BOOLEAN, deps : BOOLEAN, refcount : Int,
          dying : BOOLEAN]

\* What the constants are expected to be: lists without repetition, and a Null that is nothing else.
LaunchConstantsOK ==
  /\ \A t \in Titles : Deps[t] \in Seq(Titles \ {t}) /\ IsInjective(Deps[t])
  /\ AppTitles \subseteq Titles /\ Pool \in Seq(Slots) /\ IsInjective(Pool) /\ Null \notin Slots \cup Entry

\* Applications are launched by the task runner, unless they are for the debugger.
TaskLaunchesApps == Asks \cap {"LaunchAppDebug", "Queue", "DebugNextApplication"} = {}

VARIABLES
  entries,      \* processList: per slot its entry, or Null
  freeList,
  kernelState,  \* of the process of an entry: "loaded", "running" or "ended"
  runningApp,   \* runningApplicationData
  debugData,
  debugNext,    \* g_debugNextApplication
  lock,         \* processList.lock: who holds it for ever, and whether its counter is off
  launch,       \* per thread: the launch it is at
  pmMonitor,    \* what the monitor cleans up: a slot and the copy of its entry
  reused        \* history: the slots taken for a new process while a pointer of the manager
                \* still led there

procVars == <<entries, freeList, kernelState, reused>>
appVars == <<runningApp, debugData, debugNext>>
launchVars == <<procVars, appVars, lock, launch, pmMonitor>>

NoLaunch ==
  [at |-> "idle", title |-> Null, isApp |-> FALSE, debug |-> FALSE, withDeps |-> FALSE,
   restores |-> FALSE, slot |-> Null, unique |-> <<>>, procs |-> [d \in Titles |-> Null],
   remaining |-> [d \in Titles |-> 0], tried |-> {}, sub |-> Null, ok |-> TRUE]
NoBackup == [at |-> "wait", slot |-> Null, entry |-> Null]

LaunchInit ==
  /\ entries = [s \in Slots |-> Null] /\ freeList = Pool
  /\ kernelState = [s \in Slots |-> "ended"]
  /\ runningApp = Null /\ debugData = Null /\ debugNext = FALSE
  /\ lock = [owner |-> Null, off |-> FALSE]
  /\ launch = [t \in Threads |-> NoLaunch]
  /\ pmMonitor = NoBackup /\ reused = {}
-----------------------------------------------------------------------------
(* The list and its lock.                                                  *)

\* A thread locks the list, and unlocks it at the end of the step.  The lock is
\* libctru's: it is released when its counter comes to zero, and whoever locks
\* it once its counter is below zero keeps it.
Locks(t) ==
  /\ lock.owner \in {Null, t}
  /\ lock' = IF lock.off THEN [lock EXCEPT !.owner = t] ELSE lock

Listed == {s \in Slots : entries[s] # Null}

\* ProcessList_FindProcessByTitleId.
Find(title) ==
  IF \E s \in Listed : entries[s].title = title
  THEN CHOOSE s \in Listed : entries[s].title = title
  ELSE Null

\* ProcessList_New: the first free entry, for a process that the loader has made.
NewEntry(title, isApp) ==
  /\ freeList # <<>>
  /\ freeList' = Tail(freeList)
  /\ entries' = [entries EXCEPT ![Head(freeList)] =
                [title |-> title, isApp |-> isApp, auto |-> FALSE, deps |-> FALSE,
                 refcount |-> 1, dying |-> FALSE]]
  /\ reused' = reused \cup ({Head(freeList)} \cap {runningApp, debugData})

\* ProcessList_Delete: the entry becomes the second free one.
AfterFirst(q, s) == IF q = <<>> THEN <<s>> ELSE <<Head(q), s>> \o Tail(q)

\* An entry is written through a pointer: nothing happens if it was deleted.
Write(ps, s, entry) == IF ps[s] = Null THEN ps ELSE [ps EXCEPT ![s] = entry]

\* ProcessData_Incref, of an entry.
Incref(entry, n) == IF entry.auto THEN [entry EXCEPT !.refcount = @ + n] ELSE entry

\* svcTerminateProcess.
Terminated(s) == IF s = Null THEN kernelState ELSE [kernelState EXCEPT ![s] = "ended"]

Fail(call) == call \in Fails

Quiet ==
  /\ \A t \in Threads : launch[t].at = "idle"
  /\ pmMonitor = NoBackup
  /\ \A s \in Listed : kernelState[s] # "ended" /\ ~entries[s].dying
-----------------------------------------------------------------------------
(* Dependencies.                                                           *)

\* Mutant of Merged: a dependency that another dependency has too is not counted
\* again.
MergedOnce(ps, l, ds) ==
  LET new == Range(ds) \ Range(l.unique)
      procs == [d \in Titles |-> IF d \in new THEN Find(d) ELSE l.procs[d]]
  IN [procs  |-> [s \in Slots |-> IF ps[s] # Null /\ \E d \in new : procs[d] = s
                                  THEN Incref(ps[s], 1) ELSE ps[s]],
      launch |-> [l EXCEPT !.unique = @ \o ds, !.procs = procs,
                           !.remaining = [d \in Titles |->
                              @[d] + IF d \in new /\ procs[d] = Null THEN 1 ELSE 0]]]

\* listMergeUniqueDependencies: the entries and the launch after the dependencies
\* ds are merged into those of the launch.  Who is in the list has its count
\* increased, who is not will have.  What is in unique already is not looked up again; that
\* it comes twice there makes no difference to NextDep.
Merged(ps, l, ds) ==
  LET new == Range(ds) \ Range(l.unique)
      procs == [d \in Titles |-> IF d \in new THEN Find(d) ELSE l.procs[d]]
  IN [procs  |-> [s \in Slots |-> IF ps[s] # Null /\ \E d \in Range(ds) : procs[d] = s
                                  THEN Incref(ps[s], 1) ELSE ps[s]],
      launch |-> [l EXCEPT !.unique = @ \o ds, !.procs = procs,
                           !.remaining = [d \in Titles |->
                              @[d] + IF d \in Range(ds) /\ procs[d] = Null THEN 1 ELSE 0]]]

\* The loop launches them in order, once each; who has an entry already is skipped.
ToLaunch(l, d) == d \notin l.tried /\ l.procs[d] = Null
MoreDeps(l) == \E j \in DOMAIN l.unique : ToLaunch(l, l.unique[j])
NextDep(l) ==
  l.unique[CHOOSE j \in DOMAIN l.unique :
             ToLaunch(l, l.unique[j]) /\ \A k \in 1 .. j - 1 : ~ToLaunch(l, l.unique[k])]
Past(l, d) == [l EXCEPT !.tried = @ \cup {d}]
-----------------------------------------------------------------------------
(* What the main thread is asked.                                          *)

Idle(t) == launch[t].at = "idle"
Asked(name) == name \in Asks /\ Idle("main")
AskedFor(title, name) == Asked(name) /\ (title \in Calm => Quiet)
Queue == IF "Queue" \in Asks THEN BOOLEAN ELSE {FALSE}
Goes(t, l) == launch' = [launch EXCEPT ![t] = l]

\* LaunchTitle, and LaunchApp for applications.  What is in the list already is
\* not launched again.
LaunchTitle(title, withDeps, queue) ==
  LET isApp == title \in AppTitles
      debug == queue \/ (debugNext /\ isApp)
      found == Find(title)
  IN /\ AskedFor(title, "LaunchTitle") /\ Locks("main")
     /\ IF isApp /\ runningApp # Null
        THEN UNCHANGED launch
        ELSE Goes("main", [NoLaunch EXCEPT
               !.at = IF found # Null THEN "found" ELSE IF isApp /\ ~debug THEN "handOver" ELSE "check",
               !.title = title, !.isApp = isApp, !.debug = debug, !.withDeps = isApp \/ withDeps,
               !.slot = found])
     /\ UNCHANGED <<procVars, appVars, pmMonitor>>

\* The entry that was found is not launched automatically any more.
Found ==
  LET s == launch["main"].slot
  IN /\ launch["main"].at = "found"
     /\ entries' = Write(entries, s, [entries[s] EXCEPT !.auto = FALSE])
     /\ Goes("main", NoLaunch)
     /\ UNCHANGED <<freeList, kernelState, reused, appVars, lock, pmMonitor>>

\* LaunchTitleUpdate: an application with an update.
LaunchTitleUpdate(title, queue) ==
  /\ AskedFor(title, "LaunchTitleUpdate") /\ title \in AppTitles /\ Locks("main")
  /\ IF runningApp # Null
     THEN UNCHANGED launch
     ELSE Goes("main", [NoLaunch EXCEPT !.at = IF queue \/ debugNext THEN "check" ELSE "handOver",
                        !.title = title, !.isApp = TRUE, !.debug = queue \/ debugNext, !.withDeps = TRUE])
  /\ UNCHANGED <<procVars, appVars, pmMonitor>>

\* RunQueuedProcess, all of it under the lock.
RunQueued ==
  /\ debugData # Null
  /\ IF entries[debugData] # Null /\ entries[debugData].isApp /\ runningApp # Null
     THEN UNCHANGED <<kernelState, runningApp, debugData>>
     ELSE /\ debugData' = Null
          /\ \/ /\ kernelState[debugData] = "loaded"
                /\ kernelState' = [kernelState EXCEPT ![debugData] = "running"]
                /\ runningApp' = IF entries[debugData] # Null /\ entries[debugData].isApp
                                 THEN debugData ELSE runningApp
             \/ /\ Fail("run") \/ kernelState[debugData] # "loaded"
                /\ kernelState' = Terminated(debugData) /\ UNCHANGED runningApp
  /\ UNCHANGED <<entries, freeList, reused, debugNext, launch, pmMonitor>>

RunQueuedProcess ==
  Asked("RunQueuedProcess") /\ (Calm # {} => Quiet) /\ Locks("main") /\ RunQueued

\* LaunchAppDebug: the queued process is run, or the application launched on this
\* thread.
LaunchAppDebug(title, queue) ==
  /\ AskedFor(title, "LaunchAppDebug") /\ title \in AppTitles /\ Locks("main")
  /\ \/ RunQueued
     \/ /\ debugData = Null
        /\ IF runningApp # Null
           THEN UNCHANGED <<launch, debugNext>>
           ELSE /\ debugNext' = FALSE
                /\ Goes("main", [NoLaunch EXCEPT !.at = "check", !.title = title, !.isApp = TRUE,
                                 !.debug = queue, !.withDeps = TRUE, !.restores = debugNext])
        /\ UNCHANGED <<procVars, runningApp, debugData, pmMonitor>>

\* LaunchTitleDebug, for other titles.
LaunchTitleDebug(title, queue) ==
  /\ AskedFor(title, "LaunchTitleDebug") /\ title \notin AppTitles /\ Locks("main")
  /\ \/ RunQueued
     \/ /\ debugData = Null
        /\ \E withDeps \in BOOLEAN :
             Goes("main", [NoLaunch EXCEPT !.at = "check", !.title = title, !.debug = queue,
                                           !.withDeps = withDeps])
        /\ UNCHANGED <<procVars, appVars, pmMonitor>>

DebugNextApplicationByForce ==
  /\ Asked("DebugNextApplication") /\ (Calm # {} => Quiet)
  /\ debugNext' \in BOOLEAN
  /\ UNCHANGED <<procVars, runningApp, debugData, lock, launch, pmMonitor>>

\* TaskRunner_RunTask waits until the task runner has nothing to do.
HandOver ==
  /\ launch["main"].at = "handOver" /\ Idle("task")
  /\ launch' = [main |-> NoLaunch, task |-> [launch["main"] EXCEPT !.at = "check"]]
  /\ UNCHANGED <<procVars, appVars, lock, pmMonitor>>
-----------------------------------------------------------------------------
(* launchTitleImplWrapper and launchTitleImpl.                             *)

\* Back in LaunchTitle or LaunchAppDebug.
Returns(t, ok) ==
  /\ Goes(t, NoLaunch)
  /\ debugNext' = CASE t = "main" /\ ok /\ launch[t].isApp -> FALSE
                    [] t = "main" /\ ~ok /\ launch[t].restores -> TRUE
                    [] OTHER -> debugNext

\* Mutant of Check: runningApplicationData is not looked at again.
NoCheck(t) ==
  /\ launch[t].at = "check" /\ Locks(t)
  /\ Goes(t, [launch[t] EXCEPT !.at = "load"]) /\ UNCHANGED debugNext
  /\ UNCHANGED <<procVars, runningApp, debugData, pmMonitor>>

\* Mutant of Check: the list is not unlocked.
CheckKeepsLock(t) ==
  /\ launch[t].at = "check" /\ lock.owner \in {Null, t} /\ lock' = [lock EXCEPT !.owner = t]
  /\ IF launch[t].isApp /\ runningApp # Null
     THEN Returns(t, FALSE)
     ELSE Goes(t, [launch[t] EXCEPT !.at = "load"]) /\ UNCHANGED debugNext
  /\ UNCHANGED <<procVars, runningApp, debugData, pmMonitor>>

\* The second look at runningApplicationData.
Check(t) ==
  /\ launch[t].at = "check" /\ Locks(t)
  /\ IF launch[t].isApp /\ runningApp # Null
     THEN Returns(t, FALSE)
     ELSE Goes(t, [launch[t] EXCEPT !.at = "load"]) /\ UNCHANGED debugNext
  /\ UNCHANGED <<procVars, runningApp, debugData, pmMonitor>>

\* loadWithoutDependencies for the title itself.
Load(t) ==
  LET l == launch[t]
  IN /\ l.at = "load" /\ Locks(t) /\ NewEntry(l.title, l.isApp)
     /\ kernelState' = [kernelState EXCEPT ![Head(freeList)] = "loaded"]
     /\ Goes(t, [l EXCEPT !.at = IF l.withDeps THEN "merge" ELSE "run", !.slot = Head(freeList)])
     /\ UNCHANGED <<appVars, pmMonitor>>

\* The program cannot be registered or its exheader not be read.
RegisterFails(t) ==
  /\ Fail("register") /\ launch[t].at = "load"
  /\ Returns(t, FALSE)
  /\ UNCHANGED <<procVars, runningApp, debugData, lock, pmMonitor>>

\* The loader fails, or a call after the entry was made: the process is ended.
LoadingFails(t) ==
  LET l == launch[t]
  IN /\ Fail("load") /\ l.at = "load"
     /\ \/ Goes(t, [l EXCEPT !.at = "cleanup"]) /\ UNCHANGED <<procVars, lock>>
        \/ /\ Locks(t) /\ \E flagged \in {FALSE, l.isApp} : NewEntry(l.title, flagged)
           /\ kernelState' = [kernelState EXCEPT ![Head(freeList)] = "loaded"]
           /\ Goes(t, [l EXCEPT !.at = "cleanup", !.slot = Head(freeList)])
     /\ UNCHANGED <<appVars, pmMonitor>>

\* The dependencies of the title are merged.
Merge(t) ==
  LET l == launch[t]
      m == Merged(entries, l, Deps[l.title])
  IN /\ l.at = "merge" /\ Locks(t)
     /\ entries' = Write(m.procs, l.slot, [m.procs[l.slot] EXCEPT !.deps = @ \/ Deps[l.title] # <<>>])
     /\ Goes(t, [m.launch EXCEPT !.at = "deps"])
     /\ UNCHANGED <<freeList, kernelState, reused, appVars, pmMonitor>>

\* A dependency that is not in the list is launched by itself.
LoadDep(t) ==
  LET l == launch[t]
  IN /\ l.at = "deps" /\ MoreDeps(l) /\ Locks(t) /\ NewEntry(NextDep(l), FALSE)
     /\ kernelState' = [kernelState EXCEPT ![Head(freeList)] = "loaded"]
     /\ Goes(t, [l EXCEPT !.at = "runDep", !.sub = Head(freeList)])
     /\ UNCHANGED <<appVars, pmMonitor>>

\* It is skipped if it has no process.
RegisterDepFails(t) ==
  LET l == launch[t]
  IN /\ Fail("register") /\ l.at = "deps" /\ MoreDeps(l)
     /\ Goes(t, [Past(l, NextDep(l)) EXCEPT !.ok = FALSE])
     /\ UNCHANGED <<procVars, appVars, lock, pmMonitor>>

\* The loader fails, or a call after the entry was made: the list is unlocked as
\* in Cleanup, and in the second case the launch fails.
LoadDepFails(t) ==
  LET l == launch[t]
  IN /\ Fail("load") /\ l.at = "deps" /\ MoreDeps(l)
     /\ \/ /\ Goes(t, [Past(l, NextDep(l)) EXCEPT !.ok = FALSE])
           /\ lock' = [lock EXCEPT !.off = TRUE] /\ UNCHANGED procVars
        \/ /\ lock.owner \in {Null, t} /\ NewEntry(NextDep(l), FALSE)
           /\ lock' = [owner |-> IF lock.off THEN t ELSE lock.owner, off |-> TRUE]
           /\ kernelState' = [kernelState EXCEPT ![Head(freeList)] = "ended"]
           /\ Goes(t, [l EXCEPT !.at = "cleanup"])
     /\ UNCHANGED <<appVars, pmMonitor>>

\* svcRun; if it fails the dependency and the title are ended.
RunDep(t) ==
  LET l == launch[t]
  IN /\ l.at = "runDep" /\ Locks(t)
     /\ \/ /\ kernelState' = [kernelState EXCEPT ![l.sub] = "running"]
           /\ Goes(t, [l EXCEPT !.at = "countDep"])
        \/ /\ Fail("run")
           /\ kernelState' = Terminated(l.sub)
           /\ Goes(t, [l EXCEPT !.at = "cleanup"])
     /\ UNCHANGED <<entries, freeList, reused, appVars, pmMonitor>>

\* The dependency runs: its flags, its uses and its own dependencies.
CountDep(t) ==
  LET l == launch[t]
      d == NextDep(l)
      flagged == Write(entries, l.sub,
                   [entries[l.sub] EXCEPT !.auto = TRUE, !.deps = TRUE,
                                       !.refcount = @ + l.remaining[d] - 1])
      m == Merged(flagged, [l EXCEPT !.procs[d] = l.sub, !.remaining[d] = 0], Deps[d])
  IN /\ l.at = "countDep" /\ Locks(t)
     /\ entries' = m.procs
     /\ Goes(t, [Past(m.launch, d) EXCEPT !.at = "deps", !.sub = Null, !.ok = TRUE])
     /\ UNCHANGED <<freeList, kernelState, reused, appVars, pmMonitor>>

\* All dependencies are dealt with; the last result counts.
DepsDone(t) ==
  LET l == launch[t]
  IN /\ l.at = "deps" /\ ~MoreDeps(l)
     /\ Goes(t, [l EXCEPT !.at = IF l.ok THEN "run" ELSE "cleanup"])
     /\ UNCHANGED <<procVars, appVars, lock, pmMonitor>>

\* The process is queued for the debugger, or run.
Run(t) ==
  LET l == launch[t]
  IN /\ l.at = "run" /\ Locks(t)
     /\ \/ /\ l.debug /\ debugData = Null
           /\ debugData' = l.slot /\ UNCHANGED <<kernelState, runningApp>> /\ Returns(t, TRUE)
        \/ /\ ~l.debug
           /\ kernelState' = [kernelState EXCEPT ![l.slot] = "running"]
           /\ runningApp' = IF l.isApp THEN l.slot ELSE runningApp
           /\ UNCHANGED debugData /\ Returns(t, TRUE)
        \/ /\ (l.debug /\ debugData # Null) \/ (~l.debug /\ Fail("run"))
           /\ kernelState' = Terminated(l.slot)
           /\ UNCHANGED <<runningApp, debugData>> /\ Returns(t, FALSE)
     /\ UNCHANGED <<entries, freeList, reused, pmMonitor>>

\* cleanup, when loading has failed: the list is unlocked, though it was not locked.
Cleanup(t) ==
  /\ launch[t].at = "cleanup"
  /\ kernelState' = Terminated(launch[t].slot)
  /\ lock' = [lock EXCEPT !.off = TRUE]
  /\ Returns(t, FALSE)
  /\ UNCHANGED <<entries, freeList, reused, runningApp, debugData, pmMonitor>>
-----------------------------------------------------------------------------
(* The monitor, and the processes.                                         *)

MonitorNotes(s) ==
  /\ pmMonitor.at = "wait" /\ s \in Listed /\ kernelState[s] = "ended" /\ Locks("monitor")
  /\ pmMonitor' = [at |-> "release", slot |-> s, entry |-> entries[s]]
  /\ entries' = [entries EXCEPT ![s] = Null]
  /\ freeList' = AfterFirst(freeList, s)
  /\ UNCHANGED <<kernelState, reused, appVars, launch>>

\* terminateUnusedDependencies, by the copy.  A count is a byte.
MonitorReleases ==
  LET counted == {s \in Listed : entries[s].auto /\ ~entries[s].dying
                                 /\ entries[s].title \in Range(Deps[pmMonitor.entry.title])}
  IN /\ pmMonitor.at = "release" /\ Locks("monitor")
     /\ entries' = IF pmMonitor.entry.deps
                THEN [s \in Slots |-> IF s \in counted
                        THEN [entries[s] EXCEPT !.refcount = (@ - 1) % 256, !.dying = entries[s].refcount = 1]
                        ELSE entries[s]]
                ELSE entries
     /\ pmMonitor' = [pmMonitor EXCEPT !.at = "forget"]
     /\ UNCHANGED <<freeList, kernelState, reused, appVars, launch>>

\* Mutant of MonitorForgets: debugData keeps its value.
MonitorKeepsQueued ==
  /\ pmMonitor.at = "forget" /\ Locks("monitor")
  /\ runningApp' = IF runningApp = pmMonitor.slot /\ entries[runningApp] = Null THEN Null ELSE runningApp
  /\ pmMonitor' = NoBackup
  /\ UNCHANGED <<procVars, debugData, debugNext, launch>>

\* The pointers to the process are reset, unless another process has the entry.
MonitorForgets ==
  LET Forget(s) == IF s = pmMonitor.slot /\ entries[s] = Null THEN Null ELSE s
  IN /\ pmMonitor.at = "forget" /\ Locks("monitor")
     /\ runningApp' = Forget(runningApp) /\ debugData' = Forget(debugData)
     /\ pmMonitor' = NoBackup
     /\ UNCHANGED <<procVars, debugNext, launch>>

\* A process ends because it was told to, or by itself; one that is queued may be
\* ended by TerminateProcess.
Exits(s) ==
  /\ s \in Listed
  /\ kernelState[s] = "running" \/ (kernelState[s] = "loaded" /\ s = debugData)
  /\ entries[s].dying \/ (entries[s].title \in MayExit /\ (entries[s].title \in Calm => Quiet))
  /\ kernelState' = [kernelState EXCEPT ![s] = "ended"]
  /\ UNCHANGED <<entries, freeList, reused, appVars, lock, launch, pmMonitor>>

ThreadSteps(t) ==
  \/ Check(t) \/ Load(t) \/ RegisterFails(t) \/ LoadingFails(t) \/ Merge(t)
  \/ LoadDep(t) \/ RegisterDepFails(t) \/ LoadDepFails(t) \/ RunDep(t) \/ CountDep(t) \/ DepsDone(t)
  \/ Run(t) \/ Cleanup(t)

CleanupSteps == MonitorReleases \/ MonitorForgets \/ \E s \in Slots : MonitorNotes(s)

LaunchNext ==
  \/ \E title \in Titles, queue \in Queue :
       \/ \E withDeps \in BOOLEAN : LaunchTitle(title, withDeps, queue)
       \/ LaunchTitleUpdate(title, queue) \/ LaunchAppDebug(title, queue) \/ LaunchTitleDebug(title, queue)
  \/ RunQueuedProcess \/ DebugNextApplicationByForce
  \/ Found \/ HandOver
  \/ \E t \in Threads : ThreadSteps(t)
  \/ CleanupSteps
  \/ \E s \in Slots : Exits(s)

LaunchSpec == LaunchInit /\ [][LaunchNext]_launchVars

\* Every thread runs; a process that was told to end does so.  The monitor is told
\* of the process that was launched first, so that none is passed over for ever.
LaunchFairSpec ==
  /\ LaunchSpec
  /\ WF_launchVars(Found) /\ WF_launchVars(HandOver)
  /\ \A t \in Threads : WF_launchVars(ThreadSteps(t))
  /\ WF_launchVars(MonitorReleases) /\ WF_launchVars(MonitorForgets)
  /\ \A s \in Slots : SF_launchVars(MonitorNotes(s)) /\ WF_launchVars(Exits(s) /\ entries[s].dying)
-----------------------------------------------------------------------------
(* Properties.                                                             *)

\* At most one application runs: launch.c:295 looks at runningApplicationData once
\* more "to avoid a race condition".
OneApplication ==
  \A s, r \in Listed :
    entries[s].isApp /\ entries[r].isApp /\ kernelState[s] = "running" /\ kernelState[r] = "running" => s = r

\* Between launches, the reference count of a system module that was launched
\* for others is the number of processes that will give it up when they end
\* (launch.c:170-173, info.c:88-95, termination.c:34).
RefcountsMatchUsers ==
  (\A t \in Threads : Idle(t)) /\ pmMonitor.at # "release" =>
    \A s \in Listed : entries[s].auto /\ ~entries[s].dying =>
      entries[s].refcount = Cardinality({u \in Listed :
                            entries[u].deps /\ entries[s].title \in Range(Deps[entries[u].title])})

\* The pointers of the manager lead to the entry of an application, and to a
\* process that has not been run, until the monitor forgets them (launch.c:263-276,
\* process_monitor.c:32-46), whatever is launched and ends meanwhile.  Not if the
\* entry was taken for another process before: the monitor compares the handle that
\* is in the entry.
PointersValid ==
  /\ runningApp \notin {Null} \cup reused =>
       IF entries[runningApp] = Null THEN runningApp = pmMonitor.slot
       ELSE entries[runningApp].isApp /\ kernelState[runningApp] # "loaded"
  /\ debugData \notin {Null} \cup reused =>
       IF entries[debugData] = Null THEN debugData = pmMonitor.slot
       ELSE kernelState[debugData] # "running"

\* A process that has ended is removed, as long as the lock of the list is intact:
\* no launch keeps it, and the monitor takes note of every end
\* (process_monitor.c:84-107).
EndedIsRemoved ==
  \A s \in Slots : entries[s] # Null /\ kernelState[s] = "ended" ~> entries[s] = Null \/ lock.off

\* The same of the processes of launches that fail: launch.c:44 calls it a bug of
\* the official pm "not to panic/cleanup properly if the function calls below fail".
FailedLaunchIsRemoved ==
  \A s \in Slots : entries[s] # Null /\ kernelState[s] = "ended" ~> entries[s] = Null
=============================================================================
