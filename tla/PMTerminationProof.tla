------------------------- MODULE PMTerminationProof --------------------------
(***************************************************************************)
(* Reference counts when pm terminates processes: for any processes and    *)
(* dependencies, a system module's count is the number of its users, and   *)
(* a module that is used is not told to end.                               *)
(*                                                                         *)
(* A user of a module is counted down once: by the thread that terminates  *)
(* it, which clears PROCESSFLAG_DEPENDENCIES_LOADED, or by the monitor,    *)
(* from its copy of the flags.  The invariant says why never by both: who  *)
(* stays in the list after the end has the flag cleared already, and who   *)
(* does not is out of the list when the monitor releases its modules.      *)
(***************************************************************************)
EXTENDS PMTermination, FiniteSetTheorems, TLAPS

Statuses == {"running", "sent", "failed", "terminated"}
ToldOf == Notifies \cup {Application}

TypeOK ==
  /\ alive \subseteq Procs /\ list \subseteq Procs /\ depsLoaded \subseteq Procs
  /\ watched \subseteq Procs /\ forgotten \subseteq Procs \ list
  /\ notify \subseteq Notifies /\ kept \subseteq Notifies
  /\ status \in [Procs -> Statuses] /\ refcount \in [Procs -> Int]
  /\ runningApplication \in {Application, NoProc}
  /\ monitor \in {"scan", "signal", "wait", "release", "forget"}
  /\ monitor = "release" => backup.proc \in Procs

\* A process that runs is in the list, unless it was unregistered, and its modules are
\* counted with it.
RunningIsListed ==
  \A p \in Procs : status[p] = "running" =>
    p \in list \cup forgotten /\ (Deps[p] # {} => p \in depsLoaded)

\* Until it is told to end, a process of which somebody is to be told lives.
ToldOfRuns == \A p \in ToldOf \cap depsLoaded : status[p] = "running" /\ p \in alive

\* Who has ended and stays in the list has no modules left to count down.
EndedHasNoModules == \A p \in list : status[p] = "terminated" => p \notin depsLoaded

\* Whose modules the monitor counts down is not in the list, and was not unregistered.
ReleasedIsGone == monitor = "release" /\ backup.deps => backup.proc \notin list \cup forgotten

\* Those that use a module, as RefcountsCount counts them.
Counting(p) == p \in depsLoaded /\ ((p \in list /\ status[p] # "terminated") \/ p \in forgotten)
Leaving(p) == monitor = "release" /\ backup.proc = p /\ backup.deps
UsersOf(d) == {p \in Users(d) : Counting(p) \/ Leaving(p)}

IInv ==
  /\ TypeOK /\ RunningIsListed /\ ToldOfRuns /\ EndedHasNoModules /\ ReleasedIsGone
  /\ RefcountsCount

\* Who does not end of its own accord lives while it runs.
RunningLives == \A p \in Procs \ MayExit : status[p] = "running" => p \in alive
-----------------------------------------------------------------------------
(* Counting.                                                               *)

LEMMA CountsByUsers ==
  RefcountsCount <=>
    \A d \in Autoloaded \cap list : status[d] = "running" => refcount[d] = Cardinality(UsersOf(d))
BY DEF RefcountsCount, UsersOf, Counting, Leaving

LEMMA UsersAreFinite ==
  ASSUME IsFiniteSet(Procs), NEW d
  PROVE  IsFiniteSet(UsersOf(d)) /\ IsFiniteSet(Users(d))
<1>1. UsersOf(d) \in SUBSET Procs /\ Users(d) \in SUBSET Procs
  BY DEF UsersOf, Users
<1> QED  BY <1>1, FS_Subset

LEMMA ModulesAreProcs ==
  /\ Autoloaded \subseteq Procs
  /\ \A p \in Procs : Deps[p] \subseteq Autoloaded
  /\ \A p \in Procs : Counted(p) \subseteq Deps[p] /\ Unused(p) \subseteq Counted(p)
BY DepsAssumption DEF Autoloaded, Counted, Unused

\* When a process that used modules is counted down, the counts are those without it.
LEMMA CountsDown ==
  ASSUME IsFiniteSet(Procs), IInv, NEW p \in Procs, NEW ps \in SUBSET {p},
         NotifyAndCount(ps \cup Unused(p), Counted(p)),
         \A d \in Deps[p] : p \in UsersOf(d),
         \A d : UsersOf(d)' = UsersOf(d) \ {p}, list' = list
  PROVE  RefcountsCount'
<1> USE DEF IInv, TypeOK
<1> SUFFICES ASSUME NEW d \in Autoloaded \cap list, status'[d] = "running"
             PROVE  refcount'[d] = Cardinality(UsersOf(d)')
  BY DEF RefcountsCount, UsersOf, Counting, Leaving
<1>1. d \in Procs /\ d \notin ps \cup Unused(p) /\ status[d] = "running" /\ d \in list
  BY ModulesAreProcs DEF NotifyAndCount, AfterNotification, RunningIsListed
<1>2. refcount[d] = Cardinality(UsersOf(d))
  BY <1>1, CountsByUsers
<1>3. CASE d \in Deps[p]
  <2>1. d \in Counted(p) /\ p \in UsersOf(d)
    BY <1>1, <1>3 DEF Counted
  <2>2. refcount'[d] = refcount[d] - 1
    BY <1>1, <2>1 DEF NotifyAndCount
  <2>3. Cardinality(UsersOf(d) \ {p}) = Cardinality(UsersOf(d)) - 1
    BY <2>1, UsersAreFinite, FS_RemoveElement
  <2> QED  BY <1>2, <2>2, <2>3
<1>4. CASE d \notin Deps[p]
  <2>1. refcount'[d] = refcount[d]
    BY <1>1, <1>4, ModulesAreProcs DEF NotifyAndCount
  <2>2. UsersOf(d)' = UsersOf(d)
    BY <1>4 DEF UsersOf, Users
  <2> QED  BY <1>2, <2>1, <2>2
<1> QED  BY <1>3, <1>4

\* Where nothing is counted down, the counts stay right as long as the users do.
LEMMA CountsStay ==
  ASSUME IInv, refcount' = refcount, list' \subseteq list,
         \A d \in Autoloaded : status'[d] = "running" =>
           status[d] = "running" /\ UsersOf(d)' = UsersOf(d)
  PROVE  RefcountsCount'
<1>1. \A d \in Autoloaded \cap list : status[d] = "running" => refcount[d] = Cardinality(UsersOf(d))
  BY CountsByUsers DEF IInv
<1>2. \A d \in Autoloaded \cap list' : status'[d] = "running" => refcount'[d] = Cardinality(UsersOf(d)')
  BY <1>1
<1> QED  BY <1>2 DEF RefcountsCount, UsersOf, Counting, Leaving
-----------------------------------------------------------------------------
(* The initial state.                                                      *)

LEMMA InitHolds ==
  ASSUME IsFiniteSet(Procs), Init
  PROVE  IInv
<1> USE DEF Init
<1>1. TypeOK
  <2>1. \A d \in Procs : Cardinality(Users(d)) \in Int
    BY UsersAreFinite, FS_CardinalityType
  <2>2. refcount \in [Procs -> Int]
    BY <2>1
  <2>3. status \in [Procs -> Statuses]
    BY DEF Statuses
  <2> QED  BY <2>2, <2>3 DEF TypeOK
<1>2. RefcountsCount
  <2> SUFFICES ASSUME NEW d \in Autoloaded
               PROVE  refcount[d] = Cardinality(UsersOf(d))
    BY CountsByUsers
  <2>1. UsersOf(d) = Users(d)
    BY DEF UsersOf, Users, Counting, Leaving
  <2> QED  BY <2>1, ModulesAreProcs
<1>3. RunningIsListed /\ ToldOfRuns /\ EndedHasNoModules /\ ReleasedIsGone
  BY DepsAssumption DEF RunningIsListed, ToldOfRuns, EndedHasNoModules, ReleasedIsGone, ToldOf
<1> QED  BY <1>1, <1>2, <1>3 DEF IInv
-----------------------------------------------------------------------------
(* Steps that touch no count.                                              *)

\* Processes end, of their own accord or because they were told to.
LEMMA EndingKeeps ==
  ASSUME EndOnlyWhenTold, IInv,
         UNCHANGED <<list, status, notify, kept, depsLoaded, refcount, runningApplication, forgotten,
                     monitor, watched, backup>>,
         alive' \subseteq alive,
         \A p \in alive \ alive' : p \in MayExit \/ status[p] # "running"
  PROVE  IInv'
<1> USE DEF IInv
<1>1. TypeOK'
  BY DEF TypeOK
<1>2. RunningIsListed' /\ EndedHasNoModules' /\ ReleasedIsGone' /\ RefcountsCount'
  BY DEF RunningIsListed, EndedHasNoModules, ReleasedIsGone, RefcountsCount
<1>3. ToldOfRuns'
  BY DEF ToldOfRuns, ToldOf, EndOnlyWhenTold
<1> QED  BY <1>1, <1>2, <1>3

\* The monitor goes on, and releases nothing.
LEMMA MonitorKeeps ==
  ASSUME IInv,
         UNCHANGED <<alive, list, status, notify, kept, depsLoaded, refcount, forgotten>>,
         runningApplication' \in {runningApplication, NoProc},
         monitor # "release", monitor' \in {"scan", "signal", "wait", "forget"},
         watched' \subseteq Procs
  PROVE  IInv'
<1> USE DEF IInv
<1>1. TypeOK'
  BY DEF TypeOK
<1>2. RunningIsListed' /\ EndedHasNoModules' /\ ReleasedIsGone' /\ ToldOfRuns'
  BY DEF RunningIsListed, EndedHasNoModules, ReleasedIsGone, ToldOfRuns
<1>3. RefcountsCount'
  BY CountsStay DEF UsersOf, Counting, Leaving
<1> QED  BY <1>1, <1>2, <1>3
-----------------------------------------------------------------------------
(* Steps that count.                                                       *)

\* terminateProcessImpl, of a process whose modules are counted with it.
LEMMA TerminatingKeeps ==
  ASSUME IsFiniteSet(Procs), EndOnlyWhenTold, IInv, NEW p \in Procs,
         p \in depsLoaded => Counting(p),
         TerminateProcessImpl(p),
         UNCHANGED <<alive, list, runningApplication, forgotten, monitor, watched, backup>>,
         notify' \subseteq Notifies, kept' \subseteq Notifies
  PROVE  IInv'
<1> USE DEF IInv
<1> DEFINE told == {p} \cup IF p \in depsLoaded THEN Unused(p) ELSE {}
<1>1. /\ status' = [q \in Procs |-> IF q \in told THEN AfterNotification(q) ELSE status[q]]
      /\ depsLoaded' = depsLoaded \ {p}
      /\ refcount' = [d \in Procs |-> IF p \in depsLoaded /\ d \in Counted(p)
                                      THEN refcount[d] - 1 ELSE refcount[d]]
  BY DEF TerminateProcessImpl, NotifyAndCount, TypeOK
<1>2. \A q \in Procs : AfterNotification(q) \in {"sent", "failed"}
  BY DEF AfterNotification
<1>3. /\ Unused(p) \subseteq Autoloaded
      /\ \A q \in Unused(p) : status[q] = "running"
  BY ModulesAreProcs DEF Unused, Counted
<1>4. TypeOK'
  <2>1. status' \in [Procs -> Statuses]
    BY <1>1, <1>2 DEF TypeOK, Statuses
  <2>2. refcount' \in [Procs -> Int]
    BY <1>1 DEF TypeOK
  <2> QED  BY <1>1, <2>1, <2>2 DEF TypeOK
<1>5. \A q \in Procs : status'[q] = "running" => q # p /\ status[q] = "running"
  BY <1>1, <1>2
<1>6. RunningIsListed'
  BY <1>1, <1>5 DEF RunningIsListed
<1>7. ToldOfRuns'
  <2> SUFFICES ASSUME NEW q \in ToldOf \cap depsLoaded'
               PROVE  status'[q] = "running" /\ q \in alive
    BY DEF ToldOfRuns
  <2>1. q # p /\ q \in depsLoaded /\ q \in Procs
    BY <1>1 DEF TypeOK
  <2>2. q \notin Unused(p)
    BY <1>3 DEF EndOnlyWhenTold, ToldOf
  <2> QED  BY <1>1, <2>1, <2>2 DEF ToldOfRuns
<1>8. EndedHasNoModules'
  BY <1>1, <1>2 DEF EndedHasNoModules, TypeOK
<1>9. ReleasedIsGone'
  BY DEF ReleasedIsGone
<1>10. \A q \in Procs \ {p} : Counting(q)' <=> Counting(q)
  BY <1>1, <1>2, <1>3 DEF Counting
<1>11. ~Counting(p)' /\ \A q : Leaving(q)' <=> Leaving(q)
  BY <1>1 DEF Counting, Leaving
<1>12. RefcountsCount'
  <2>1. CASE p \in depsLoaded
    <3>1. ~Leaving(p)
      BY <2>1 DEF Leaving, Counting, ReleasedIsGone
    <3>2. \A d : UsersOf(d)' = UsersOf(d) \ {p}
      BY <1>10, <1>11, <3>1 DEF UsersOf, Users
    <3>3. \A d \in Deps[p] : p \in UsersOf(d)
      BY <2>1 DEF UsersOf, Users
    <3>4. NotifyAndCount({p} \cup Unused(p), Counted(p))
      BY <2>1 DEF TerminateProcessImpl
    <3> QED  BY <3>2, <3>3, <3>4, CountsDown
  <2>2. CASE p \notin depsLoaded
    <3>1. \A d : UsersOf(d)' = UsersOf(d)
      BY <1>10, <1>11, <2>2 DEF UsersOf, Users, Counting
    <3>2. refcount' = refcount
      BY <1>1, <2>2 DEF TypeOK
    <3> QED  BY <1>5, <3>1, <3>2, CountsStay, ModulesAreProcs
  <2> QED  BY <2>1, <2>2
<1> QED  BY <1>4, <1>6, <1>7, <1>8, <1>9, <1>12

\* The application has the flag only while it runs, so that pm finds it in the list.
LEMMA MarkApplicationKeeps ==
  ASSUME IsFiniteSet(Procs), EndOnlyWhenTold, IInv, MarkApplication
  PROVE  IInv'
<1> USE DEF MarkApplication
<1>1. CASE runningApplication = NoProc
  BY <1>1, EndingKeeps DEF monitorVars
<1>2. CASE runningApplication # NoProc
  <2>1. runningApplication = Application /\ Application \in Procs
    BY <1>2, DepsAssumption DEF IInv, TypeOK
  <2>2. Application \in depsLoaded => Counting(Application)
    BY <2>1 DEF IInv, ToldOfRuns, ToldOf, RunningIsListed, Counting
  <2> QED  BY <1>2, <2>1, <2>2, TerminatingKeeps DEF IInv, TypeOK, monitorVars
<1> QED  BY <1>1, <1>2

LEMMA MarkProcessKeeps ==
  ASSUME IsFiniteSet(Procs), EndOnlyWhenTold, IInv, MarkProcess
  PROVE  IInv'
<1> DEFINE p == goal["task"].proc
<1> USE DEF MarkProcess
<1>1. CASE p \in list
  <2>1. p \in Procs /\ (p \in depsLoaded => Counting(p))
    BY <1>1 DEF IInv, TypeOK, EndedHasNoModules, Counting
  <2>2. notify' \subseteq Notifies /\ kept' \subseteq Notifies
    BY <1>1 DEF IInv, TypeOK
  <2> QED  BY <1>1, <2>1, <2>2, TerminatingKeeps DEF monitorVars
<1>2. CASE p \notin list
  BY <1>2, EndingKeeps DEF monitorVars
<1> QED  BY <1>1, <1>2

LEMMA UnregisterKeeps ==
  ASSUME IInv, NEW p \in Procs, UnregisterProcess(p)
  PROVE  IInv'
<1> USE DEF IInv, UnregisterProcess, monitorVars, threadVars
<1>1. TypeOK'
  BY DEF TypeOK
<1>2. RunningIsListed' /\ EndedHasNoModules' /\ ReleasedIsGone' /\ ToldOfRuns'
  BY DEF RunningIsListed, EndedHasNoModules, ReleasedIsGone, ToldOfRuns
<1>3. \A q \in Procs : Counting(q)' <=> Counting(q)
  BY DEF Counting, EndedHasNoModules, TypeOK
<1>4. \A d : UsersOf(d)' = UsersOf(d)
  BY <1>3 DEF UsersOf, Users, Leaving
<1>5. RefcountsCount'
  BY <1>4, CountsStay
<1> QED  BY <1>1, <1>2, <1>5

\* The monitor takes a process from those that use modules to the one it is about to
\* release, and only if its flag is still set.
LEMMA NotesKeeps ==
  ASSUME EndOnlyWhenTold, IInv, NEW p \in Procs, MonitorNotes(p)
  PROVE  IInv'
<1> USE DEF IInv, MonitorNotes, threadVars, eventVars
<1>1. CASE p \notin list
  <2>1. /\ UNCHANGED <<alive, list, status, notify, kept, depsLoaded, refcount, runningApplication, forgotten>>
        /\ monitor = "wait" /\ monitor' = "scan" /\ watched' = watched
    BY <1>1
  <2> QED  BY <2>1, MonitorKeeps DEF TypeOK
<1>2. CASE p \in list
  <2>1. /\ UNCHANGED <<alive, notify, depsLoaded, refcount, runningApplication, forgotten, watched>>
        /\ monitor = "wait" /\ monitor' = "release" /\ p \notin alive
        /\ status' = [status EXCEPT ![p] = "terminated"]
        /\ kept' = IF p \in notify THEN kept \cup {p} ELSE kept
        /\ list' = IF p \in kept \cup notify THEN list ELSE list \ {p}
        /\ backup' = [proc |-> p, deps |-> p \in depsLoaded]
    BY <1>2
  <2>2. TypeOK'
    BY <2>1 DEF TypeOK, Statuses
  <2>3. RunningIsListed' /\ ToldOfRuns'
    BY <2>1 DEF RunningIsListed, ToldOfRuns, TypeOK
  <2>4. p \in ToldOf => p \notin depsLoaded
    BY <2>1 DEF ToldOfRuns
  <2>5. p \in kept \cup notify => p \in ToldOf
    BY DEF TypeOK, ToldOf
  <2>6. EndedHasNoModules' /\ ReleasedIsGone'
    BY <2>1, <2>4, <2>5 DEF EndedHasNoModules, ReleasedIsGone, TypeOK
  <2>7. \A q \in Procs : Counting(q)' \/ Leaving(q)' <=> Counting(q) \/ Leaving(q)
    <3> SUFFICES ASSUME NEW q \in Procs
                 PROVE  Counting(q)' \/ Leaving(q)' <=> Counting(q) \/ Leaving(q)
      OBVIOUS
    <3>1. CASE q = p
      BY <1>2, <2>1, <3>1 DEF Counting, Leaving, EndedHasNoModules, TypeOK
    <3>2. CASE q # p
      BY <2>1, <3>2 DEF Counting, Leaving, TypeOK
    <3> QED  BY <3>1, <3>2
  <2>8. \A d : UsersOf(d)' = UsersOf(d)
    BY <2>7 DEF UsersOf, Users
  <2>9. \A d \in Procs : status'[d] = "running" => status[d] = "running"
    BY <2>1 DEF TypeOK
  <2>10. RefcountsCount'
    BY <2>1, <2>8, <2>9, CountsStay, ModulesAreProcs
  <2> QED  BY <2>2, <2>3, <2>6, <2>10
<1> QED  BY <1>1, <1>2

LEMMA ReleasesKeeps ==
  ASSUME IsFiniteSet(Procs), EndOnlyWhenTold, IInv, MonitorReleases
  PROVE  IInv'
<1> DEFINE p == backup.proc
<1> USE DEF IInv, MonitorReleases, threadVars, eventVars
<1>1. p \in Procs /\ \A q : Leaving(q)' <=> FALSE
  BY DEF TypeOK, Leaving
<1>2. CASE backup.deps
  <2>1. NotifyAndCount(Unused(p), Counted(p))
    BY <1>2
  <2>2. p \notin list \cup forgotten /\ ~Counting(p) /\ Leaving(p)
    BY <1>2 DEF ReleasedIsGone, Counting, Leaving
  <2>3. \A q \in Procs : AfterNotification(q) \in {"sent", "failed"}
    BY DEF AfterNotification
  <2>4. Unused(p) \subseteq Autoloaded /\ \A q \in Unused(p) : status[q] = "running"
    BY <1>1, ModulesAreProcs DEF Unused, Counted
  <2>5. \A q \in Procs : status'[q] = IF q \in Unused(p) THEN AfterNotification(q) ELSE status[q]
    BY <2>1 DEF NotifyAndCount
  <2>6. TypeOK'
    <3>1. status' \in [Procs -> Statuses]
      BY <2>1, <2>3 DEF NotifyAndCount, TypeOK, Statuses
    <3>2. refcount' \in [Procs -> Int]
      BY <2>1 DEF NotifyAndCount, TypeOK
    <3> QED  BY <3>1, <3>2 DEF TypeOK
  <2>7. RunningIsListed' /\ EndedHasNoModules' /\ ReleasedIsGone'
    BY <2>3, <2>4, <2>5 DEF RunningIsListed, EndedHasNoModules, ReleasedIsGone, TypeOK
  <2>8. ToldOfRuns'
    BY <2>4, <2>5 DEF ToldOfRuns, ToldOf, EndOnlyWhenTold, TypeOK
  <2>9. \A q \in Procs : Counting(q)' <=> Counting(q)
    BY <2>3, <2>4, <2>5 DEF Counting
  <2>10. \A d : UsersOf(d)' = UsersOf(d) \ {p}
    BY <1>1, <2>2, <2>9 DEF UsersOf, Users, Leaving
  <2>11. \A d \in Deps[p] : p \in UsersOf(d)
    BY <1>1, <2>2 DEF UsersOf, Users
  <2>12. RefcountsCount'
    <3>1. {} \in SUBSET {p} /\ {} \cup Unused(p) = Unused(p)
      OBVIOUS
    <3>2. NotifyAndCount({} \cup Unused(p), Counted(p))
      BY <2>1, <3>1
    <3> QED  BY <1>1, <2>10, <2>11, <3>1, <3>2, CountsDown
  <2> QED  BY <2>6, <2>7, <2>8, <2>12
<1>3. CASE ~backup.deps
  <2>1. UNCHANGED <<alive, list, status, notify, kept, depsLoaded, refcount, runningApplication,
                    forgotten, watched>> /\ monitor' = "forget"
    BY <1>3
  <2>2. TypeOK' /\ RunningIsListed' /\ EndedHasNoModules' /\ ReleasedIsGone' /\ ToldOfRuns'
    BY <2>1 DEF TypeOK, RunningIsListed, EndedHasNoModules, ReleasedIsGone, ToldOfRuns
  <2>3. \A d : UsersOf(d)' = UsersOf(d)
    BY <1>1, <1>3, <2>1 DEF UsersOf, Users, Counting, Leaving
  <2>4. RefcountsCount'
    BY <2>1, <2>3, CountsStay
  <2> QED  BY <2>2, <2>4
<1> QED  BY <1>2, <1>3
-----------------------------------------------------------------------------
(* The theorems.                                                           *)

LEMMA NextKeeps ==
  ASSUME IsFiniteSet(Procs), EndOnlyWhenTold, IInv, [Next]_vars
  PROVE  IInv'
<1>1. CASE UNCHANGED vars
  BY <1>1, EndingKeeps DEF vars, procVars, monitorVars
<1>2. CASE TerminateApplication
  BY <1>2, EndingKeeps DEF TerminateApplication, procVars, monitorVars
<1>3. ASSUME NEW p \in Procs, TerminateProcess(p)
      PROVE  IInv'
  BY <1>3, EndingKeeps DEF TerminateProcess, procVars, monitorVars
<1>4. ASSUME NEW p \in Procs, UnregisterProcess(p)
      PROVE  IInv'
  BY <1>4, UnregisterKeeps
<1>5. ASSUME NEW p \in Procs, Exits(p)
      PROVE  IInv'
  BY <1>5, EndingKeeps DEF Exits, monitorVars
<1>6. CASE MarkApplication
  BY <1>6, MarkApplicationKeeps
<1>7. CASE MarkProcess
  BY <1>7, MarkProcessKeeps
<1>8. ASSUME NEW t \in Terminators, Commit(t)
      PROVE  IInv'
  BY <1>8, EndingKeeps DEF Commit, monitorVars
<1>9. ASSUME NEW t \in Terminators, AllNotified(t)
      PROVE  IInv'
  BY <1>9, EndingKeeps DEF AllNotified, procVars, monitorVars
<1>10. ASSUME NEW t \in Terminators, TimesOut(t)
       PROVE  IInv'
  BY <1>10, EndingKeeps DEF TimesOut, monitorVars
<1>11. ASSUME NEW t \in Terminators, Returns(t)
       PROVE  IInv'
  BY <1>11, EndingKeeps DEF Returns, procVars, monitorVars
<1>12. CASE MonitorScans
  BY <1>12, MonitorKeeps DEF MonitorScans, procVars, IInv, TypeOK
<1>13. CASE MonitorSignals
  BY <1>13, MonitorKeeps DEF MonitorSignals, procVars, IInv, TypeOK
<1>14. CASE MonitorWakes
  BY <1>14, MonitorKeeps DEF MonitorWakes, procVars, IInv, TypeOK
<1>15. CASE MonitorForgets
  BY <1>15, MonitorKeeps DEF MonitorForgets, IInv, TypeOK
<1>16. ASSUME NEW p \in Procs, MonitorNotes(p)
       PROVE  IInv'
  BY <1>16, NotesKeeps
<1>17. CASE MonitorReleases
  BY <1>17, ReleasesKeeps
<1> QED
  BY <1>1, <1>2, <1>3, <1>4, <1>5, <1>6, <1>7, <1>8, <1>9, <1>10, <1>11, <1>12, <1>13, <1>14,
     <1>15, <1>16, <1>17 DEF Next, ThreadSteps, MonitorSteps

LEMMA Invariant ==
  ASSUME IsFiniteSet(Procs), EndOnlyWhenTold
  PROVE  Spec => []IInv
BY InitHolds, NextKeeps, PTL DEF Spec

\* The reference count of a system module is the number of its users (termination.c:35,
\* process_monitor.c:20), for any processes and dependencies, however the two threads and
\* the monitor interleave and whatever is unregistered before its end, as long as applications end only when told to: one that ends
\* by itself stays in the list with its flag, and is counted down once more.
THEOREM CountsAreUsers ==
  ASSUME IsFiniteSet(Procs), EndOnlyWhenTold
  PROVE  Spec => []RefcountsCount
<1>1. IInv => RefcountsCount
  BY DEF IInv
<1> QED  BY <1>1, Invariant, PTL
-----------------------------------------------------------------------------
(* Modules that are used are not told to end.                              *)

\* Who is told as an unused module had one user, the process it is told for.
LEMMA LastUser ==
  ASSUME IsFiniteSet(Procs), IInv,
         NEW p \in Procs, NEW d \in Deps[p], status[p] = "running",
         NEW q, d \in Unused(q), q \in UsersOf(d)
  PROVE  p = q
<1>1. d \in Autoloaded \cap list /\ status[d] = "running" /\ refcount[d] = 1
  BY ModulesAreProcs DEF Unused, Counted
<1>2. Cardinality(UsersOf(d)) = 1
  BY <1>1, CountsByUsers DEF IInv
<1>3. p \in UsersOf(d)
  BY DEF UsersOf, Users, Counting, IInv, RunningIsListed
<1> QED  BY <1>2, <1>3, UsersAreFinite, FS_Singleton

LEMMA TerminatingTellsUnused ==
  ASSUME IsFiniteSet(Procs), IInv, NEW q \in Procs, q \in depsLoaded => Counting(q),
         TerminateProcessImpl(q),
         NEW p \in Procs, NEW d \in Deps[p],
         status[d] = "running", status'[d] # "running", d # q
  PROVE  status'[p] # "running"
<1>1. d \in Procs /\ \A r \in Procs : AfterNotification(r) # "running"
  BY ModulesAreProcs DEF AfterNotification
<1>2. q \in depsLoaded /\ d \in Unused(q)
  BY <1>1 DEF TerminateProcessImpl, NotifyAndCount
<1>3. \A r \in Procs : status'[r] = "running" => r # q /\ status[r] = "running"
  BY <1>1, <1>2 DEF TerminateProcessImpl, NotifyAndCount
<1>4. q \in UsersOf(d)
  BY <1>2, ModulesAreProcs DEF UsersOf, Users
<1> QED  BY <1>2, <1>3, <1>4, LastUser

LEMMA ReleasingTellsUnused ==
  ASSUME IsFiniteSet(Procs), IInv, MonitorReleases,
         NEW p \in Procs, NEW d \in Deps[p],
         status[d] = "running", status'[d] # "running"
  PROVE  status'[p] # "running"
<1> DEFINE q == backup.proc
<1>1. d \in Procs /\ \A r \in Procs : AfterNotification(r) # "running"
  BY ModulesAreProcs DEF AfterNotification
<1>2. backup.deps /\ d \in Unused(q)
  BY <1>1 DEF MonitorReleases, NotifyAndCount
<1>3. status'[p] = "running" => status[p] = "running"
  BY <1>1, <1>2 DEF MonitorReleases, NotifyAndCount
<1>4. q \in Procs /\ q \in UsersOf(d) /\ q \notin list \cup forgotten
  BY <1>2, ModulesAreProcs
     DEF MonitorReleases, UsersOf, Users, Leaving, IInv, TypeOK, ReleasedIsGone, Unused, Counted
<1>5. status[p] = "running" => p \in list \cup forgotten
  BY DEF IInv, RunningIsListed
<1> QED  BY <1>2, <1>3, <1>4, <1>5, LastUser

LEMMA LivesInvariant ==
  ASSUME IsFiniteSet(Procs), EndOnlyWhenTold
  PROVE  Spec => []RunningLives
<1>1. Init => RunningLives
  BY DEF Init, RunningLives
<1>2. IInv /\ RunningLives /\ [Next]_vars => RunningLives'
  <2> SUFFICES ASSUME IInv, RunningLives, [Next]_vars
               PROVE  RunningLives'
    OBVIOUS
  <2>1. \A p \in Procs : status'[p] = "running" => status[p] = "running"
    <3>1. \A r \in Procs : AfterNotification(r) # "running"
      BY DEF AfterNotification
    <3>2. ASSUME NEW ps, NEW counted, NotifyAndCount(ps, counted)
          PROVE  \A p \in Procs : status'[p] = "running" => status[p] = "running"
      BY <3>1, <3>2 DEF NotifyAndCount
    <3>3. ASSUME NEW q, TerminateProcessImpl(q)
          PROVE  \A p \in Procs : status'[p] = "running" => status[p] = "running"
      BY <3>2, <3>3 DEF TerminateProcessImpl
    <3>4. CASE MarkApplication
      BY <3>3, <3>4 DEF MarkApplication
    <3>5. CASE MarkProcess
      BY <3>3, <3>5 DEF MarkProcess
    <3>6. CASE MonitorReleases
      BY <3>2, <3>6 DEF MonitorReleases
    <3>7. ASSUME NEW q \in Procs, MonitorNotes(q)
          PROVE  \A p \in Procs : status'[p] = "running" => status[p] = "running"
      BY <3>7 DEF MonitorNotes, IInv, TypeOK
    <3>8. status' = status \/ MarkApplication \/ MarkProcess \/ MonitorReleases
            \/ \E q \in Procs : MonitorNotes(q)
      BY DEF Next, ThreadSteps, MonitorSteps, vars, procVars, TerminateApplication, TerminateProcess,
             UnregisterProcess, Exits, Commit, AllNotified, TimesOut, Returns, MonitorScans,
             MonitorSignals, MonitorWakes, MonitorForgets
    <3> QED  BY <3>4, <3>5, <3>6, <3>7, <3>8
  <2>2. \A p \in alive \ alive' : p \in MayExit \/ status[p] # "running"
    BY DEF Next, ThreadSteps, MonitorSteps, vars, procVars, TerminateApplication, TerminateProcess,
           MarkApplication, MarkProcess, UnregisterProcess, Exits, Commit, AllNotified, TimesOut,
           Returns, MonitorScans, MonitorSignals, MonitorWakes, MonitorNotes, MonitorReleases,
           MonitorForgets
  <2> QED  BY <2>1, <2>2 DEF RunningLives
<1> QED  BY <1>1, <1>2, Invariant, PTL DEF Spec

\* pm tells no system module to end that a process uses ("still used", termination.c:35),
\* unless somebody asks for it by name.
THEOREM UsedModulesStay ==
  ASSUME IsFiniteSet(Procs), EndOnlyWhenTold, ModulesStayUp
  PROVE  Spec => DependencyKept
<1>1. ASSUME IInv, RunningLives, [Next]_vars,
             NEW p \in Procs, NEW d \in Deps[p],
             status[d] = "running", status'[d] # "running",
             \A t \in Terminators : goal[t].proc # d
      PROVE  status'[p] # "running"
  <2> USE <1>1
  <2>1. d \in Autoloaded /\ d \in Procs
    BY ModulesAreProcs
  <2>2. CASE MarkApplication
    <3>1. runningApplication = Application /\ TerminateProcessImpl(Application)
      BY <2>2 DEF MarkApplication, IInv, TypeOK
    <3>2. d # Application /\ Application \in Procs
      BY <2>1, DepsAssumption DEF EndOnlyWhenTold
    <3>3. Application \in depsLoaded => Counting(Application)
      BY <3>2 DEF IInv, ToldOfRuns, ToldOf, RunningIsListed, Counting
    <3> QED  BY <3>1, <3>2, <3>3, TerminatingTellsUnused
  <2>3. CASE MarkProcess
    <3> DEFINE q == goal["task"].proc
    <3>1. q # d /\ q \in list /\ TerminateProcessImpl(q)
      BY <2>3 DEF MarkProcess
    <3>2. q \in Procs /\ (q \in depsLoaded => Counting(q))
      BY <3>1 DEF IInv, TypeOK, EndedHasNoModules, Counting
    <3> QED  BY <3>1, <3>2, TerminatingTellsUnused
  <2>4. CASE MonitorReleases
    BY <2>4, ReleasingTellsUnused
  <2>5. ASSUME NEW q \in Procs, MonitorNotes(q)
        PROVE  FALSE
    <3>1. q = d /\ d \notin alive
      BY <2>1, <2>5 DEF MonitorNotes, IInv, TypeOK
    <3> QED  BY <2>1, <3>1 DEF RunningLives, ModulesStayUp
  <2>6. status' = status \/ MarkApplication \/ MarkProcess \/ MonitorReleases
          \/ \E q \in Procs : MonitorNotes(q)
    BY DEF Next, ThreadSteps, MonitorSteps, vars, procVars, TerminateApplication, TerminateProcess,
           UnregisterProcess, Exits, Commit, AllNotified, TimesOut, Returns, MonitorScans,
           MonitorSignals, MonitorWakes, MonitorForgets
  <2> QED  BY <2>2, <2>3, <2>4, <2>5, <2>6
<1>2. IInv /\ RunningLives /\ [Next]_vars =>
        [\A p \in Procs : \A d \in Deps[p] :
           /\ status[d] = "running" /\ status'[d] # "running"
           /\ \A t \in Terminators : goal[t].proc # d
           => status'[p] # "running"]_vars
  BY <1>1
<1> QED  BY <1>2, Invariant, LivesInvariant, PTL DEF Spec, DependencyKept
=============================================================================
