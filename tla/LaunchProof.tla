---------------------------- MODULE LaunchProof ----------------------------
(***************************************************************************)
(* How titles are launched (PMLaunch) and loaded (LoaderCaches): that one  *)
(* application runs, that the pointers of the manager stay valid, and that *)
(* what is loaded is what was registered, for any numbers of titles,       *)
(* processes, handles and files.                                           *)
(*                                                                         *)
(* OneApplication is not inductive.  Between the second look at            *)
(* runningApplicationData and the run of the application the lock is given *)
(* up for the whole load and for the dependencies, and what keeps the      *)
(* answer true is that nobody else runs an application meanwhile: the main *)
(* thread hands each over to the task runner, and what it runs itself is   *)
(* no application, which its launch says and the entry it made as well.    *)
(* So the invariant says of the entries that launches have made but not    *)
(* run that they are their own, are still loaded and are not free.         *)
(*                                                                         *)
(* TaskLaunchesApps is needed: LaunchAppDebug runs an application on the   *)
(* main thread, and may pass the second look of launchTitleImpl when the   *)
(* task runner has passed it and not run its application yet.  Two then    *)
(* run.                                                                    *)
(***************************************************************************)
EXTENDS PMLaunch, LoaderCaches, SequenceTheorems, WellFoundedInduction, TLAPS

(***************************************************************************)
(* The launches of pm.                                                     *)
(***************************************************************************)
Merging == {"merge", "deps", "runDep", "countDep", "run"}
Checked == {"load"} \cup Merging
LaunchFields == {"at", "title", "isApp", "debug", "withDeps", "restores", "slot", "unique", "procs",
                 "remaining", "tried", "sub", "ok"}

\* Of the records, no more than what the proof reads.
LaunchTypeOK ==
  /\ DOMAIN entries = Slots
  /\ \A s \in Listed : "isApp" \in DOMAIN entries[s]
  /\ freeList \in Seq(Slots)
  /\ kernelState \in [Slots -> {"loaded", "running", "ended"}]
  /\ runningApp \in Slots \cup {Null}
  /\ DOMAIN launch = Threads
  /\ \A t \in Threads :
       /\ DOMAIN launch[t] = LaunchFields
       /\ launch[t].at \in {"idle", "found", "handOver", "check", "cleanup"} \cup Checked
       /\ launch[t].slot \in Slots \cup {Null} /\ launch[t].sub \in Slots \cup {Null}

\* A free entry is free once, and no process has it.
FreeIsUnused ==
  /\ \A i, j \in DOMAIN freeList : freeList[i] = freeList[j] => i = j
  /\ \A i \in DOMAIN freeList : entries[freeList[i]] = Null

\* Nothing is for the debugger.
NothingQueued ==
  debugData = Null /\ debugNext = FALSE /\ \A t \in Threads : launch[t].debug = FALSE /\ launch[t].restores = FALSE

\* Past the first look the main thread hands applications over.
TaskHasApps == launch["main"].isApp = TRUE => launch["main"].at \in {"found", "handOver"}

\* The entries that a launch has made for processes that it has not run yet.  They are its own: nobody
\* else runs or ends their processes, and that they are applications is what the launch says.
IsMine(t, s) == launch[t].at \in Merging \cup {"cleanup"} /\ launch[t].slot = s
IsDep(t, s) == launch[t].at = "runDep" /\ launch[t].sub = s
Made(t, s) == IsMine(t, s) \/ IsDep(t, s)
MadeAreLoaded ==
  /\ \A t \in Threads, s \in Slots : Made(t, s) =>
       kernelState[s] = "loaded" /\ \A i \in DOMAIN freeList : freeList[i] # s
  /\ \A s \in Slots : ~(Made("main", s) /\ Made("task", s))
  /\ \A t \in Threads, s \in Slots : ~(IsMine(t, s) /\ IsDep(t, s))
  /\ \A t \in Threads :
       /\ launch[t].at \in {"handOver", "check", "load"} => launch[t].slot = Null
       /\ launch[t].at \in Merging => launch[t].slot \in Slots
       /\ launch[t].at = "runDep" => launch[t].sub \in Slots
MadeAsAsked ==
  /\ \A t \in Threads, s \in Listed : IsMine(t, s) /\ entries[s].isApp = TRUE => launch[t].isApp = TRUE
  /\ \A t \in Threads, s \in Listed : IsDep(t, s) => entries[s].isApp = FALSE

\* The second look holds until the application is run, as only the task runner runs one.
NoneBeforeRun == launch["task"].isApp = TRUE /\ launch["task"].at \in Checked => runningApp = Null
RunningIsKnown == \A s \in Listed : entries[s].isApp = TRUE /\ kernelState[s] = "running" => runningApp = s

LaunchInv ==
  /\ LaunchTypeOK /\ FreeIsUnused /\ NothingQueued /\ TaskHasApps /\ MadeAreLoaded /\ MadeAsAsked
  /\ NoneBeforeRun /\ RunningIsKnown

-----------------------------------------------------------------------------
LEMMA LaunchInitHolds ==
  ASSUME LaunchConstantsOK, LaunchInit
  PROVE  LaunchInv
<1>1. /\ DOMAIN entries = Slots /\ \A s \in Slots : entries[s] = Null
      /\ freeList \in Seq(Slots) /\ freeList = Pool /\ DOMAIN freeList = DOMAIN Pool
      /\ kernelState \in [Slots -> {"loaded", "running", "ended"}] /\ runningApp = Null
  BY DEF LaunchInit, LaunchConstantsOK
<1>2. /\ DOMAIN launch = Threads /\ debugData = Null /\ debugNext = FALSE
      /\ \A t \in Threads :
           /\ DOMAIN launch[t] = LaunchFields /\ launch[t].at = "idle"
           /\ launch[t].slot = Null /\ launch[t].sub = Null /\ launch[t].isApp = FALSE
           /\ launch[t].debug = FALSE /\ launch[t].restores = FALSE
  BY DEF LaunchInit, NoLaunch, LaunchFields
<1>3. LaunchTypeOK
  BY <1>1, <1>2 DEF LaunchTypeOK, Listed
<1>4. FreeIsUnused
  <2>1. \A i, j \in DOMAIN Pool : Pool[i] = Pool[j] => i = j
    BY DEF LaunchConstantsOK, IsInjective
  <2>2. \A i \in DOMAIN Pool : Pool[i] \in Slots
    BY DEF Slots, Range
  <2> QED  BY <1>1, <2>1, <2>2 DEF FreeIsUnused
<1>5. NothingQueued /\ TaskHasApps /\ MadeAreLoaded /\ MadeAsAsked /\ NoneBeforeRun
  BY <1>2 DEF NothingQueued, TaskHasApps, MadeAreLoaded, MadeAsAsked, NoneBeforeRun, Made, IsMine,
     IsDep, Merging, Checked, Threads
<1>6. RunningIsKnown
  BY <1>1 DEF RunningIsKnown, Listed
<1> QED  BY <1>3, <1>4, <1>5, <1>6 DEF LaunchInv

\* An entry that is written stays the entry of the same process.
SameEntries(ps, qs) ==
  /\ DOMAIN qs = Slots
  /\ \A s \in Slots : qs[s] # Null =>
       ps[s] # Null /\ "isApp" \in DOMAIN qs[s] /\ qs[s].isApp = ps[s].isApp

\* What a thread does with its own launch, when no entry is made or freed.  What it
\* goes on with is its own and still loaded, and what it has run is no application.
OwnStep(t, l) ==
  /\ DOMAIN l = LaunchFields
  /\ l.at \in {"idle", "found", "handOver", "check", "cleanup"} \cup Checked /\ l.at # "runDep"
  /\ l.slot \in Slots \cup {Null} /\ l.sub \in Slots \cup {Null}
  /\ l.debug = FALSE /\ l.restores = FALSE
  /\ launch' = [launch EXCEPT ![t] = l]
  /\ t = "main" /\ l.isApp = TRUE => l.at \in {"found", "handOver"}
  /\ t = "task" /\ l.isApp = TRUE /\ l.at \in Checked => runningApp = Null
  /\ l.at \in {"handOver", "check", "load"} => l.slot = Null
  /\ l.at \in Merging => l.slot # Null
  /\ l.at \in Merging \cup {"cleanup"} /\ l.slot # Null =>
       IsMine(t, l.slot) /\ kernelState'[l.slot] = "loaded" /\ l.isApp = launch[t].isApp
  /\ SameEntries(entries, entries')
  /\ kernelState' \in [Slots -> {"loaded", "running", "ended"}]
  /\ \A s \in Slots : kernelState'[s] # kernelState[s] =>
       /\ Made(t, s)
       /\ kernelState'[s] = "running" /\ s \in Listed => entries[s].isApp # TRUE
  /\ UNCHANGED <<freeList, appVars>>

LEMMA OwnStepKeeps ==
  ASSUME LaunchConstantsOK, LaunchInv, NEW t \in Threads, NEW l, OwnStep(t, l)
  PROVE  LaunchInv'
<1> USE DEF LaunchInv
<1>1. /\ DOMAIN launch' = Threads /\ launch'[t] = l
      /\ \A u \in Threads \ {t} : launch'[u] = launch[u]
  BY DEF OwnStep, LaunchTypeOK
<1>2. \A s \in Slots : s \in Listed' => s \in Listed /\ entries'[s].isApp = entries[s].isApp
  BY DEF OwnStep, SameEntries, Listed
<1>3. LaunchTypeOK'
  BY <1>1 DEF OwnStep, LaunchTypeOK, SameEntries, Listed, appVars
<1>4. FreeIsUnused'
  BY DEF OwnStep, FreeIsUnused, SameEntries, LaunchTypeOK
<1>5. NothingQueued' /\ TaskHasApps'
  BY <1>1 DEF OwnStep, NothingQueued, TaskHasApps, appVars, Threads
<1>6. /\ \A u \in Threads \ {t}, s \in Slots :
           (IsMine(u, s)' <=> IsMine(u, s)) /\ (IsDep(u, s)' <=> IsDep(u, s))
      /\ \A s \in Slots : (IsMine(t, s)' => IsMine(t, s) /\ kernelState'[s] = "loaded" /\ l.isApp = launch[t].isApp)
                          /\ ~IsDep(t, s)'
  BY <1>1 DEF OwnStep, IsMine, IsDep, LaunchConstantsOK
<1>7. \A u \in Threads \ {t}, s \in Slots : Made(u, s) => ~Made(t, s)
  BY DEF MadeAreLoaded, Threads
<1>8. MadeAreLoaded'
  <2>1. \A u \in Threads, s \in Slots : Made(u, s)' => Made(u, s) /\ kernelState'[s] = "loaded"
    <3> SUFFICES ASSUME NEW u \in Threads, NEW s \in Slots, Made(u, s)'
                 PROVE  Made(u, s) /\ kernelState'[s] = "loaded"
      OBVIOUS
    <3>1. CASE u = t
      BY <1>6, <3>1 DEF Made
    <3>2. CASE u # t
      <4>1. Made(u, s)
        BY <1>6, <3>2 DEF Made
      <4>2. kernelState'[s] = kernelState[s]
        BY <1>7, <3>2, <4>1 DEF OwnStep
      <4> QED  BY <4>1, <4>2 DEF MadeAreLoaded
    <3> QED  BY <3>1, <3>2
  <2>2. \A u \in Threads, s \in Slots : IsMine(u, s)' => ~IsDep(u, s)'
    BY <1>6 DEF MadeAreLoaded
  <2>3. \A u \in Threads \ {t} :
          /\ launch'[u].at \in {"handOver", "check", "load"} => launch'[u].slot = Null
          /\ launch'[u].at \in Merging => launch'[u].slot \in Slots
          /\ launch'[u].at = "runDep" => launch'[u].sub \in Slots
    BY <1>1 DEF MadeAreLoaded
  <2>4. /\ l.at \in {"handOver", "check", "load"} => l.slot = Null
        /\ l.at \in Merging => l.slot \in Slots
        /\ l.at # "runDep"
    BY DEF OwnStep
  <2>5. \A u \in Threads, s \in Slots : Made(u, s)' => \A i \in DOMAIN freeList' : freeList'[i] # s
    BY <2>1 DEF MadeAreLoaded, OwnStep
  <2>6. \A s \in Slots : ~(Made("main", s)' /\ Made("task", s)')
    BY <2>1 DEF MadeAreLoaded, Threads
  <2>7. \A u \in Threads :
          /\ launch'[u].at \in {"handOver", "check", "load"} => launch'[u].slot = Null
          /\ launch'[u].at \in Merging => launch'[u].slot \in Slots
          /\ launch'[u].at = "runDep" => launch'[u].sub \in Slots
    BY <1>1, <2>3, <2>4
  <2> QED  BY <2>1, <2>2, <2>5, <2>6, <2>7 DEF MadeAreLoaded
<1>9. MadeAsAsked'
  BY <1>1, <1>2, <1>6 DEF MadeAsAsked, Listed
<1>10. NoneBeforeRun'
  BY <1>1 DEF NoneBeforeRun, OwnStep, appVars, Threads
<1>11. RunningIsKnown'
  BY <1>2 DEF RunningIsKnown, OwnStep, appVars, Listed
<1> QED  BY <1>3, <1>4, <1>5, <1>8, <1>9, <1>10, <1>11

\* The first of the free entries is nobody's.
LEMMA FirstFree ==
  ASSUME LaunchInv, freeList # <<>>
  PROVE  LET s == Head(freeList) IN
         /\ s \in Slots /\ entries[s] = Null /\ \A t \in Threads : ~Made(t, s)
         /\ Tail(freeList) \in Seq(Slots)
         /\ \A i \in DOMAIN Tail(freeList) : i + 1 \in DOMAIN freeList /\ Tail(freeList)[i] = freeList[i + 1]
         /\ \A i \in DOMAIN Tail(freeList) : Tail(freeList)[i] # s
<1>1. freeList \in Seq(Slots) /\ 1 \in DOMAIN freeList /\ Head(freeList) = freeList[1] /\ freeList[1] \in Slots
  BY DEF LaunchInv, LaunchTypeOK
<1>2. /\ Tail(freeList) \in Seq(Slots)
      /\ \A i \in DOMAIN Tail(freeList) : i + 1 \in DOMAIN freeList /\ Tail(freeList)[i] = freeList[i + 1] /\ i + 1 # 1
  BY <1>1
<1>3. \A i \in DOMAIN Tail(freeList) : Tail(freeList)[i] # Head(freeList)
  BY <1>1, <1>2 DEF LaunchInv, FreeIsUnused
<1>4. entries[Head(freeList)] = Null /\ \A t \in Threads : ~Made(t, Head(freeList))
  BY <1>1 DEF LaunchInv, FreeIsUnused, MadeAreLoaded
<1> QED  BY <1>1, <1>2, <1>3, <1>4

\* A launch makes an entry, for the title or for a dependency; of a dependency whose
\* process cannot be set up, only the entry stays.
EntryStep(t, l, title, isApp, k) ==
  /\ DOMAIN l = LaunchFields
  /\ l.slot \in Slots \cup {Null} /\ l.sub \in Slots \cup {Null}
  /\ l.debug = FALSE /\ l.restores = FALSE /\ l.isApp = launch[t].isApp
  /\ NewEntry(title, isApp) /\ kernelState' = [kernelState EXCEPT ![Head(freeList)] = k]
  /\ launch' = [launch EXCEPT ![t] = l]
  /\ \/ /\ launch[t].at = "load" /\ l.at \in {"merge", "run", "cleanup"} /\ l.slot = Head(freeList)
        /\ k = "loaded" /\ (isApp = TRUE => launch[t].isApp = TRUE)
     \/ /\ launch[t].at = "deps" /\ l.at = "runDep" /\ l.sub = Head(freeList) /\ l.slot = launch[t].slot
        /\ k = "loaded" /\ isApp = FALSE
     \/ /\ launch[t].at = "deps" /\ l.at = "cleanup" /\ l.slot = launch[t].slot
        /\ k = "ended" /\ isApp = FALSE
  /\ UNCHANGED appVars

LEMMA EntryStepKeeps ==
  ASSUME LaunchConstantsOK, LaunchInv, NEW t \in Threads, NEW l, NEW title, NEW isApp, NEW k,
         EntryStep(t, l, title, isApp, k)
  PROVE  LaunchInv'
<1> USE DEF LaunchInv
<1>0. PICK h : h = Head(freeList)
  OBVIOUS
<1>1. /\ DOMAIN launch' = Threads /\ launch'[t] = l
      /\ \A u \in Threads \ {t} : launch'[u] = launch[u]
  BY DEF EntryStep, LaunchTypeOK
<1>2. /\ h \in Slots /\ entries[h] = Null /\ \A u \in Threads : ~Made(u, h)
      /\ freeList' \in Seq(Slots) /\ \A i \in DOMAIN freeList' : freeList'[i] # h
      /\ \A i \in DOMAIN freeList' : i \in Nat /\ i + 1 \in DOMAIN freeList /\ freeList'[i] = freeList[i + 1]
  <2>1. freeList # <<>> /\ freeList' = Tail(freeList)
    BY DEF EntryStep, NewEntry
  <2> QED  BY <1>0, <2>1, FirstFree DEF LaunchTypeOK
<1>3. /\ DOMAIN entries' = Slots /\ "isApp" \in DOMAIN entries'[h] /\ entries'[h].isApp = isApp
      /\ \A s \in Slots \ {h} : entries'[s] = entries[s]
  BY <1>0, <1>2 DEF EntryStep, NewEntry, LaunchTypeOK
<1>4. /\ kernelState' \in [Slots -> {"loaded", "running", "ended"}] /\ kernelState'[h] = k
      /\ \A s \in Slots \ {h} : kernelState'[s] = kernelState[s]
  BY <1>0, <1>2 DEF EntryStep, LaunchTypeOK
<1>5. /\ \A u \in Threads \ {t}, s \in Slots :
           (IsMine(u, s)' <=> IsMine(u, s)) /\ (IsDep(u, s)' <=> IsDep(u, s))
      /\ \A s \in Slots \ {h} : (IsMine(t, s)' => IsMine(t, s)) /\ ~IsDep(t, s)'
      /\ Made(t, h)' => k = "loaded"
      /\ ~(IsMine(t, h)' /\ IsDep(t, h)')
      /\ IsMine(t, h)' /\ isApp = TRUE => l.isApp = TRUE
      /\ IsDep(t, h)' => isApp = FALSE
  BY <1>0, <1>1, <1>2 DEF EntryStep, IsMine, IsDep, Made, Merging
<1>6. LaunchTypeOK'
  <2>1. l.at \in {"idle", "found", "handOver", "check", "cleanup"} \cup Checked
    BY DEF EntryStep, Checked, Merging
  <2>2. \A s \in Listed' : "isApp" \in DOMAIN entries'[s]
    BY <1>3 DEF Listed, LaunchTypeOK
  <2> QED  BY <1>1, <1>2, <1>3, <1>4, <2>1, <2>2 DEF EntryStep, LaunchTypeOK, appVars
<1>7. FreeIsUnused'
  <2>1. \A i \in DOMAIN freeList' : entries'[freeList'[i]] = Null
    BY <1>2, <1>3 DEF FreeIsUnused
  <2>2. ASSUME NEW i \in DOMAIN freeList', NEW j \in DOMAIN freeList', freeList'[i] = freeList'[j] PROVE i = j
    <3>1. i + 1 = j + 1
      BY <1>2, <2>2 DEF FreeIsUnused
    <3> QED  BY <1>2, <3>1
  <2> QED  BY <2>1, <2>2 DEF FreeIsUnused
<1>8. NothingQueued' /\ TaskHasApps'
  BY <1>1 DEF EntryStep, NothingQueued, TaskHasApps, appVars, Threads
<1>9. MadeAreLoaded'
  <2>1. \A u \in Threads, s \in Slots \ {h} : Made(u, s)' => Made(u, s)
    BY <1>5 DEF Made
  <2>2. \A u \in Threads \ {t} : ~Made(u, h)'
    BY <1>2, <1>5 DEF Made
  <2>3. \A u \in Threads, s \in Slots : Made(u, s)' =>
          kernelState'[s] = "loaded" /\ \A i \in DOMAIN freeList' : freeList'[i] # s
    BY <1>2, <1>4, <1>5, <2>1, <2>2 DEF MadeAreLoaded
  <2>4. \A s \in Slots : ~(Made("main", s)' /\ Made("task", s)')
    BY <2>1, <2>2 DEF MadeAreLoaded, Threads
  <2>5. \A u \in Threads, s \in Slots : ~(IsMine(u, s)' /\ IsDep(u, s)')
    BY <1>2, <1>5 DEF MadeAreLoaded, Made
  <2>6. \A u \in Threads \ {t} :
          /\ launch'[u].at \in {"handOver", "check", "load"} => launch'[u].slot = Null
          /\ launch'[u].at \in Merging => launch'[u].slot \in Slots
          /\ launch'[u].at = "runDep" => launch'[u].sub \in Slots
    BY <1>1 DEF MadeAreLoaded
  <2>7. /\ l.at \notin {"handOver", "check", "load"}
        /\ l.at \in Merging => l.slot \in Slots
        /\ l.at = "runDep" => l.sub \in Slots
    BY <1>0, <1>2 DEF EntryStep, Merging, MadeAreLoaded
  <2>8. \A u \in Threads :
          /\ launch'[u].at \in {"handOver", "check", "load"} => launch'[u].slot = Null
          /\ launch'[u].at \in Merging => launch'[u].slot \in Slots
          /\ launch'[u].at = "runDep" => launch'[u].sub \in Slots
    BY <1>1, <2>6, <2>7
  <2> QED  BY <2>3, <2>4, <2>5, <2>8 DEF MadeAreLoaded
<1>10. MadeAsAsked'
  <2>1. ASSUME NEW u \in Threads, NEW s \in Listed'
        PROVE  /\ IsMine(u, s)' /\ entries'[s].isApp = TRUE => launch'[u].isApp = TRUE
               /\ IsDep(u, s)' => entries'[s].isApp = FALSE
    <3>1. CASE s = h
      BY <1>1, <1>2, <1>3, <1>5, <3>1 DEF Made
    <3>2. CASE s # h
      <4>1. s \in Slots \ {h} /\ s \in Listed /\ entries'[s] = entries[s]
        BY <1>3, <3>2 DEF Listed
      <4>2. (IsMine(u, s)' => IsMine(u, s)) /\ (IsDep(u, s)' => IsDep(u, s))
        BY <1>5, <4>1
      <4>3. launch'[u].isApp = launch[u].isApp
        BY <1>1 DEF EntryStep
      <4> QED  BY <4>1, <4>2, <4>3 DEF MadeAsAsked
    <3> QED  BY <3>1, <3>2
  <2> QED  BY <2>1 DEF MadeAsAsked
<1>11. NoneBeforeRun'
  BY <1>1 DEF NoneBeforeRun, EntryStep, appVars, Threads, Checked, Merging
<1>12. RunningIsKnown'
  <2>1. kernelState'[h] # "running"
    BY <1>4 DEF EntryStep
  <2> QED  BY <1>3, <1>4, <2>1 DEF RunningIsKnown, EntryStep, appVars, Listed
<1> QED  BY <1>6, <1>7, <1>8, <1>9, <1>10, <1>11, <1>12

LEMMA SameAsIs ==
  ASSUME LaunchInv
  PROVE  SameEntries(entries, entries)
BY DEF LaunchInv, LaunchTypeOK, SameEntries, Listed

LEMMA SameTwice ==
  ASSUME NEW ps, NEW qs, NEW rs, SameEntries(ps, qs), SameEntries(qs, rs)
  PROVE  SameEntries(ps, rs)
BY DEF SameEntries

LEMMA WrittenIsSame ==
  ASSUME NEW ps, SameEntries(ps, ps), NEW s, NEW e,
         s \in Slots /\ ps[s] # Null => "isApp" \in DOMAIN e /\ e.isApp = ps[s].isApp
  PROVE  SameEntries(ps, Write(ps, s, e))
BY DEF SameEntries, Write

LEMMA MergedIsSame ==
  ASSUME NEW ps, SameEntries(ps, ps), NEW l, DOMAIN l = LaunchFields, NEW ds,
         NEW m, m = Merged(ps, l, ds)
  PROVE  /\ SameEntries(ps, m.procs)
         /\ DOMAIN m.launch = LaunchFields /\ m.launch.at = l.at /\ m.launch.slot = l.slot
         /\ m.launch.sub = l.sub /\ m.launch.isApp = l.isApp /\ m.launch.debug = l.debug
         /\ m.launch.restores = l.restores
<1> DEFINE new == Range(ds) \ Range(l.unique)
           procs == [d \in Titles |-> IF d \in new THEN Find(d) ELSE l.procs[d]]
           more == [d \in Titles |-> l.remaining[d] + IF d \in Range(ds) /\ procs[d] = Null THEN 1 ELSE 0]
           counted(s) == \E d \in Range(ds) : procs[d] = s
<1>1. /\ m.procs =
           [s \in Slots |-> IF ps[s] # Null /\ counted(s) THEN Incref(ps[s], 1) ELSE ps[s]]
      /\ m.launch =
           [l EXCEPT !.unique = l.unique \o ds, !.procs = procs, !.remaining = more]
  BY DEF Merged
<1> HIDE DEF new, procs, more, counted
<1>2. \A s \in Slots : ps[s] # Null =>
        /\ "isApp" \in DOMAIN Incref(ps[s], 1) /\ Incref(ps[s], 1).isApp = ps[s].isApp
  BY DEF Incref, SameEntries
<1>3. SameEntries(ps, m.procs)
  BY <1>1, <1>2 DEF SameEntries
<1> QED  BY <1>1, <1>3 DEF LaunchFields

\* A thread returns to where it waits for the next launch.
LEMMA ReturnsQuietly ==
  ASSUME LaunchInv, NEW t \in Threads, NEW ok, Returns(t, ok)
  PROVE  launch' = [launch EXCEPT ![t] = NoLaunch] /\ debugNext' = debugNext
<1>1. debugNext = FALSE /\ launch[t].restores = FALSE
  BY DEF LaunchInv, NothingQueued
<1>2. debugNext' \in {FALSE, debugNext}
  BY <1>1 DEF Returns
<1> QED  BY <1>1, <1>2 DEF Returns, Goes

LEMMA ReturnKeeps ==
  ASSUME LaunchConstantsOK, LaunchInv, NEW t \in Threads,
         launch' = [launch EXCEPT ![t] = NoLaunch], SameEntries(entries, entries'),
         kernelState' \in [Slots -> {"loaded", "running", "ended"}],
         \A s \in Slots : kernelState'[s] # kernelState[s] =>
           Made(t, s) /\ (kernelState'[s] = "running" /\ s \in Listed => entries[s].isApp # TRUE),
         UNCHANGED <<freeList, appVars>>
  PROVE  LaunchInv'
<1>1. /\ DOMAIN NoLaunch = LaunchFields /\ NoLaunch.at = "idle" /\ NoLaunch.slot = Null
      /\ NoLaunch.sub = Null /\ NoLaunch.isApp = FALSE /\ NoLaunch.debug = FALSE
      /\ NoLaunch.restores = FALSE
  BY DEF NoLaunch, LaunchFields
<1>2. OwnStep(t, NoLaunch)
  BY <1>1 DEF OwnStep, Checked, Merging
<1> QED  BY <1>2, OwnStepKeeps

\* It goes on with the launch.
SameLaunch(t, l) ==
  /\ DOMAIN l = LaunchFields /\ l.slot = launch[t].slot /\ l.sub \in Slots \cup {Null}
  /\ l.isApp = launch[t].isApp /\ l.debug = launch[t].debug /\ l.restores = launch[t].restores

LEMMA GoOnKeeps ==
  ASSUME LaunchConstantsOK, LaunchInv, NEW t \in Threads, NEW l, SameLaunch(t, l),
         launch' = [launch EXCEPT ![t] = l],
         launch[t].at \in Merging, l.at \in {"deps", "countDep", "run", "cleanup"},
         SameEntries(entries, entries'),
         kernelState' \in [Slots -> {"loaded", "running", "ended"}],
         \A s \in Slots : kernelState'[s] # kernelState[s] =>
           IsDep(t, s) /\ (kernelState'[s] = "running" /\ s \in Listed => entries[s].isApp # TRUE),
         UNCHANGED <<freeList, appVars>>
  PROVE  LaunchInv'
<1>1. l.slot \in Slots /\ IsMine(t, l.slot) /\ ~IsDep(t, l.slot) /\ kernelState[l.slot] = "loaded"
  BY DEF SameLaunch, LaunchInv, MadeAreLoaded, IsMine, Made
<1>2. l.slot # Null
  BY <1>1 DEF LaunchConstantsOK
<1>3. t = "main" => l.isApp # TRUE
  BY DEF SameLaunch, LaunchInv, TaskHasApps, Merging
<1>4. t = "task" /\ l.isApp = TRUE => runningApp = Null
  BY DEF SameLaunch, LaunchInv, NoneBeforeRun, Checked
<1>5. kernelState'[l.slot] = "loaded"
  BY <1>1
<1>6. l.debug = FALSE /\ l.restores = FALSE
  BY DEF SameLaunch, LaunchInv, NothingQueued
<1>7. OwnStep(t, l)
  BY <1>1, <1>2, <1>3, <1>4, <1>5, <1>6 DEF OwnStep, SameLaunch, Made, Checked, Merging
<1> QED  BY <1>7, OwnStepKeeps

\* It has not made anything yet.
LEMMA BeginKeeps ==
  ASSUME LaunchConstantsOK, LaunchInv, NEW t \in Threads, NEW l, SameLaunch(t, l),
         launch' = [launch EXCEPT ![t] = l],
         launch[t].at \in {"check", "load"},
         \/ l.at = "load" /\ (l.isApp = TRUE => runningApp = Null)
         \/ l.at = "cleanup",
         UNCHANGED <<procVars, appVars>>
  PROVE  LaunchInv'
<1>1. l.slot = Null
  BY DEF SameLaunch, LaunchInv, MadeAreLoaded
<1>2. t = "main" => l.isApp # TRUE
  BY DEF SameLaunch, LaunchInv, TaskHasApps
<1>3. l.debug = FALSE /\ l.restores = FALSE
  BY DEF SameLaunch, LaunchInv, NothingQueued
<1>4. SameEntries(entries, entries') /\ kernelState' = kernelState /\ kernelState \in [Slots -> {"loaded", "running", "ended"}]
  BY SameAsIs DEF procVars, LaunchInv, LaunchTypeOK
<1>5. OwnStep(t, l)
  BY <1>1, <1>2, <1>3, <1>4 DEF OwnStep, SameLaunch, Checked, Merging, procVars
<1> QED  BY <1>5, OwnStepKeeps

\* What the proofs about the actions need of the launch that a thread is at.
LEMMA LaunchFieldsOf ==
  ASSUME LaunchInv, NEW t \in Threads
  PROVE  /\ DOMAIN launch[t] = LaunchFields /\ launch[t].sub \in Slots \cup {Null}
         /\ launch[t].debug = FALSE /\ launch[t].restores = FALSE
         /\ kernelState \in [Slots -> {"loaded", "running", "ended"}]
         /\ debugData = Null /\ debugNext = FALSE
BY DEF LaunchInv, LaunchTypeOK, NothingQueued

LEMMA CheckKeeps ==
  ASSUME LaunchConstantsOK, LaunchInv, NEW t \in Threads, Check(t)
  PROVE  LaunchInv'
<1>1. CASE launch[t].isApp /\ runningApp # Null
  <2>1. Returns(t, FALSE) /\ UNCHANGED <<procVars, runningApp, debugData>>
    BY <1>1 DEF Check
  <2>2. UNCHANGED <<procVars, appVars>> /\ launch' = [launch EXCEPT ![t] = NoLaunch]
    BY <2>1, ReturnsQuietly DEF appVars
  <2> QED  BY <2>2, ReturnKeeps, SameAsIs, LaunchFieldsOf DEF procVars
<1>2. CASE ~(launch[t].isApp /\ runningApp # Null)
  <2> DEFINE l == [launch[t] EXCEPT !.at = "load"]
  <2>1. launch' = [launch EXCEPT ![t] = l] /\ UNCHANGED <<procVars, appVars>> /\ launch[t].at = "check"
    BY <1>2 DEF Check, Goes, appVars
  <2>2. SameLaunch(t, l) /\ l.at = "load"
    BY LaunchFieldsOf DEF SameLaunch, LaunchFields
  <2>3. l.isApp = TRUE => runningApp = Null
    BY <1>2, <2>2 DEF SameLaunch
  <2> QED  BY <2>1, <2>2, <2>3, BeginKeeps
<1> QED  BY <1>1, <1>2

LEMMA RegisterFailsKeeps ==
  ASSUME LaunchConstantsOK, LaunchInv, NEW t \in Threads, RegisterFails(t)
  PROVE  LaunchInv'
<1>1. UNCHANGED <<procVars, appVars>> /\ launch' = [launch EXCEPT ![t] = NoLaunch]
  BY ReturnsQuietly DEF RegisterFails, appVars
<1> QED  BY <1>1, ReturnKeeps, SameAsIs, LaunchFieldsOf DEF procVars

LEMMA LoadKeeps ==
  ASSUME LaunchConstantsOK, LaunchInv, NEW t \in Threads, Load(t)
  PROVE  LaunchInv'
<1> DEFINE at == IF launch[t].withDeps THEN "merge" ELSE "run"
           l == [launch[t] EXCEPT !.at = at, !.slot = Head(freeList)]
<1>1. /\ launch[t].at = "load" /\ NewEntry(launch[t].title, launch[t].isApp) /\ UNCHANGED appVars
      /\ launch' = [launch EXCEPT ![t] = l] /\ kernelState' = [kernelState EXCEPT ![Head(freeList)] = "loaded"]
  BY DEF Load, Goes
<1>2. Head(freeList) \in Slots
  BY <1>1, FirstFree DEF NewEntry
<1>3. /\ DOMAIN l = LaunchFields /\ l.sub = launch[t].sub /\ l.isApp = launch[t].isApp
      /\ l.slot = Head(freeList) /\ l.debug = FALSE /\ l.restores = FALSE /\ l.at = at
  BY LaunchFieldsOf DEF LaunchFields
<1>4. EntryStep(t, l, launch[t].title, launch[t].isApp, "loaded")
  BY <1>1, <1>2, <1>3, LaunchFieldsOf DEF EntryStep
<1> QED  BY <1>4, EntryStepKeeps

LEMMA LoadFailsKeeps ==
  ASSUME LaunchConstantsOK, LaunchInv, NEW t \in Threads, LoadingFails(t)
  PROVE  LaunchInv'
<1>1. CASE Goes(t, [launch[t] EXCEPT !.at = "cleanup"]) /\ UNCHANGED procVars
  <2> DEFINE l == [launch[t] EXCEPT !.at = "cleanup"]
  <2>1. SameLaunch(t, l) /\ l.at = "cleanup"
    BY LaunchFieldsOf DEF SameLaunch, LaunchFields
  <2> QED  BY <1>1, <2>1, BeginKeeps DEF LoadingFails, Goes
<1>2. ASSUME NEW flagged \in {FALSE, launch[t].isApp}, NewEntry(launch[t].title, flagged),
             kernelState' = [kernelState EXCEPT ![Head(freeList)] = "loaded"],
             Goes(t, [launch[t] EXCEPT !.at = "cleanup", !.slot = Head(freeList)])
      PROVE  LaunchInv'
  <2> DEFINE l == [launch[t] EXCEPT !.at = "cleanup", !.slot = Head(freeList)]
  <2>1. Head(freeList) \in Slots
    BY <1>2, FirstFree DEF NewEntry
  <2>2. /\ DOMAIN l = LaunchFields /\ l.sub = launch[t].sub /\ l.isApp = launch[t].isApp
        /\ l.slot = Head(freeList) /\ l.debug = FALSE /\ l.restores = FALSE /\ l.at = "cleanup"
    BY LaunchFieldsOf DEF LaunchFields
  <2>3. EntryStep(t, l, launch[t].title, flagged, "loaded")
    BY <1>2, <2>1, <2>2, LaunchFieldsOf DEF EntryStep, LoadingFails, Goes
  <2> QED  BY <2>3, EntryStepKeeps
<1> QED  BY <1>1, <1>2 DEF LoadingFails

LEMMA MergeKeeps ==
  ASSUME LaunchConstantsOK, LaunchInv, NEW t \in Threads, Merge(t)
  PROVE  LaunchInv'
<1>1. PICK m : m = Merged(entries, launch[t], Deps[launch[t].title])
  OBVIOUS
<1> DEFINE l == [m.launch EXCEPT !.at = "deps"]
           entry == [m.procs[launch[t].slot] EXCEPT !.deps = @ \/ Deps[launch[t].title] # <<>>]
<1>2. /\ launch[t].at = "merge" /\ launch' = [launch EXCEPT ![t] = l]
      /\ entries' = Write(m.procs, launch[t].slot, entry)
      /\ UNCHANGED <<freeList, kernelState, appVars>>
  BY <1>1 DEF Merge, Goes
<1>3. /\ SameEntries(entries, m.procs) /\ DOMAIN m.launch = LaunchFields
      /\ m.launch.slot = launch[t].slot /\ m.launch.sub = launch[t].sub
      /\ m.launch.isApp = launch[t].isApp /\ m.launch.debug = launch[t].debug
      /\ m.launch.restores = launch[t].restores
  <2>1. SameEntries(entries, entries) /\ DOMAIN launch[t] = LaunchFields
    BY SameAsIs, LaunchFieldsOf
  <2>2. SameEntries(entries, m.procs)
    BY <1>1, <2>1, MergedIsSame
  <2> QED  BY <1>1, <2>1, MergedIsSame
<1>4. SameLaunch(t, l) /\ l.at = "deps"
  BY <1>3, LaunchFieldsOf DEF SameLaunch, LaunchFields
<1>5. SameEntries(m.procs, m.procs)
  BY <1>3 DEF SameEntries
<1>6. SameEntries(m.procs, entries')
  <2>1. launch[t].slot \in Slots /\ m.procs[launch[t].slot] # Null =>
          "isApp" \in DOMAIN entry /\ entry.isApp = m.procs[launch[t].slot].isApp
    BY <1>5 DEF SameEntries
  <2> QED  BY <1>2, <1>5, <2>1, WrittenIsSame
<1>7. SameEntries(entries, entries')
  BY <1>3, <1>6, SameTwice
<1> QED  BY <1>2, <1>4, <1>7, GoOnKeeps, LaunchFieldsOf DEF Merging

LEMMA LoadDepKeeps ==
  ASSUME LaunchConstantsOK, LaunchInv, NEW t \in Threads, LoadDep(t)
  PROVE  LaunchInv'
<1> DEFINE l == [launch[t] EXCEPT !.at = "runDep", !.sub = Head(freeList)]
<1>1. /\ launch[t].at = "deps" /\ NewEntry(NextDep(launch[t]), FALSE) /\ UNCHANGED appVars
      /\ launch' = [launch EXCEPT ![t] = l] /\ kernelState' = [kernelState EXCEPT ![Head(freeList)] = "loaded"]
  BY DEF LoadDep, Goes
<1>2. Head(freeList) \in Slots /\ launch[t].slot \in Slots
  BY <1>1, FirstFree DEF NewEntry, LaunchInv, MadeAreLoaded, Merging
<1>3. /\ DOMAIN l = LaunchFields /\ l.sub = Head(freeList) /\ l.isApp = launch[t].isApp
      /\ l.slot = launch[t].slot /\ l.debug = FALSE /\ l.restores = FALSE /\ l.at = "runDep"
  BY LaunchFieldsOf DEF LaunchFields
<1>4. EntryStep(t, l, NextDep(launch[t]), FALSE, "loaded")
  BY <1>1, <1>2, <1>3 DEF EntryStep
<1> QED  BY <1>4, EntryStepKeeps

LEMMA RegisterDepFailsKeeps ==
  ASSUME LaunchConstantsOK, LaunchInv, NEW t \in Threads, RegisterDepFails(t)
  PROVE  LaunchInv'
<1>1. PICK l : l = [Past(launch[t], NextDep(launch[t])) EXCEPT !.ok = FALSE]
  OBVIOUS
<1>2. launch[t].at = "deps" /\ launch' = [launch EXCEPT ![t] = l] /\ UNCHANGED <<procVars, appVars>>
  BY <1>1 DEF RegisterDepFails, Goes
<1>3. SameLaunch(t, l) /\ l.at = "deps"
  BY <1>1, <1>2, LaunchFieldsOf DEF SameLaunch, LaunchFields, Past
<1> QED  BY <1>2, <1>3, GoOnKeeps, SameAsIs, LaunchFieldsOf DEF Merging, procVars

LEMMA LoadDepFailsKeeps ==
  ASSUME LaunchConstantsOK, LaunchInv, NEW t \in Threads, LoadDepFails(t)
  PROVE  LaunchInv'
<1>1. CASE Goes(t, [Past(launch[t], NextDep(launch[t])) EXCEPT !.ok = FALSE]) /\ UNCHANGED procVars
  <2>1. PICK l : l = [Past(launch[t], NextDep(launch[t])) EXCEPT !.ok = FALSE]
    OBVIOUS
  <2>2. launch[t].at = "deps" /\ launch' = [launch EXCEPT ![t] = l] /\ UNCHANGED <<procVars, appVars>>
    BY <1>1, <2>1 DEF LoadDepFails, Goes
  <2>3. SameLaunch(t, l) /\ l.at = "deps"
    BY <2>1, <2>2, LaunchFieldsOf DEF SameLaunch, LaunchFields, Past
  <2> QED  BY <2>2, <2>3, GoOnKeeps, SameAsIs, LaunchFieldsOf DEF Merging, procVars
<1>2. CASE /\ NewEntry(NextDep(launch[t]), FALSE) /\ kernelState' = [kernelState EXCEPT ![Head(freeList)] = "ended"]
           /\ Goes(t, [launch[t] EXCEPT !.at = "cleanup"])
  <2> DEFINE l == [launch[t] EXCEPT !.at = "cleanup"]
  <2>1. launch[t].at = "deps" /\ launch' = [launch EXCEPT ![t] = l] /\ UNCHANGED appVars
    BY <1>2 DEF LoadDepFails, Goes
  <2>2. launch[t].slot \in Slots
    BY <2>1 DEF LaunchInv, MadeAreLoaded, Merging
  <2>3. /\ DOMAIN l = LaunchFields /\ l.sub = launch[t].sub /\ l.isApp = launch[t].isApp
        /\ l.slot = launch[t].slot /\ l.debug = FALSE /\ l.restores = FALSE /\ l.at = "cleanup"
    BY LaunchFieldsOf DEF LaunchFields
  <2>4. EntryStep(t, l, NextDep(launch[t]), FALSE, "ended")
    BY <1>2, <2>1, <2>2, <2>3, LaunchFieldsOf DEF EntryStep
  <2> QED  BY <2>4, EntryStepKeeps
<1> QED  BY <1>1, <1>2 DEF LoadDepFails

\* The process of the dependency runs, or both processes are ended.
LEMMA RunDepKeeps ==
  ASSUME LaunchConstantsOK, LaunchInv, NEW t \in Threads, RunDep(t)
  PROVE  LaunchInv'
<1>1. /\ launch[t].at = "runDep" /\ launch[t].sub \in Slots /\ UNCHANGED <<entries, freeList, appVars>>
      /\ IsDep(t, launch[t].sub) /\ launch[t].sub # Null
  BY DEF RunDep, IsDep, LaunchInv, MadeAreLoaded, LaunchConstantsOK
<1>2. launch[t].sub \in Listed => entries[launch[t].sub].isApp # TRUE
  BY <1>1 DEF LaunchInv, MadeAsAsked
<1>3. PICK k \in {"running", "ended"}, at \in {"countDep", "cleanup"} :
        /\ kernelState' = [kernelState EXCEPT ![launch[t].sub] = k]
        /\ launch' = [launch EXCEPT ![t] = [launch[t] EXCEPT !.at = at]]
  BY <1>1 DEF RunDep, Goes, Terminated
<1> DEFINE l == [launch[t] EXCEPT !.at = at]
<1>4. SameLaunch(t, l) /\ l.at = at
  BY LaunchFieldsOf DEF SameLaunch, LaunchFields
<1>5. /\ kernelState' \in [Slots -> {"loaded", "running", "ended"}]
      /\ \A s \in Slots : kernelState'[s] # kernelState[s] =>
           IsDep(t, s) /\ (kernelState'[s] = "running" /\ s \in Listed => entries[s].isApp # TRUE)
  BY <1>1, <1>2, <1>3, LaunchFieldsOf
<1>6. SameEntries(entries, entries')
  BY <1>1, SameAsIs
<1> QED  BY <1>1, <1>3, <1>4, <1>5, <1>6, GoOnKeeps DEF Merging

LEMMA CountDepKeeps ==
  ASSUME LaunchConstantsOK, LaunchInv, NEW t \in Threads, CountDep(t)
  PROVE  LaunchInv'
<1> DEFINE d == NextDep(launch[t])
           entry == [entries[launch[t].sub] EXCEPT !.auto = TRUE, !.deps = TRUE,
                       !.refcount = @ + launch[t].remaining[d] - 1]
<1>1. PICK flagged : flagged = Write(entries, launch[t].sub, entry)
  OBVIOUS
<1>2. PICK k : k = [launch[t] EXCEPT !.procs[d] = launch[t].sub, !.remaining[d] = 0]
  OBVIOUS
<1>3. PICK m : m = Merged(flagged, k, Deps[d])
  OBVIOUS
<1>4. PICK l : l = [Past(m.launch, d) EXCEPT !.at = "deps", !.sub = Null, !.ok = TRUE]
  OBVIOUS
<1>5. /\ launch[t].at = "countDep" /\ launch' = [launch EXCEPT ![t] = l]
      /\ entries' = m.procs
      /\ UNCHANGED <<freeList, kernelState, appVars>>
  BY <1>1, <1>2, <1>3, <1>4 DEF CountDep, Goes
<1>6. SameEntries(entries, flagged)
  <2>1. launch[t].sub \in Slots /\ entries[launch[t].sub] # Null =>
          "isApp" \in DOMAIN entry /\ entry.isApp = entries[launch[t].sub].isApp
    BY SameAsIs DEF SameEntries
  <2> QED  BY <1>1, <2>1, SameAsIs, WrittenIsSame
<1>7. /\ DOMAIN k = LaunchFields /\ k.slot = launch[t].slot /\ k.isApp = launch[t].isApp
      /\ k.debug = launch[t].debug /\ k.restores = launch[t].restores
  BY <1>2, LaunchFieldsOf DEF LaunchFields
<1>8. SameEntries(flagged, flagged)
  BY <1>6 DEF SameEntries
<1>9. /\ SameEntries(flagged, m.procs) /\ DOMAIN m.launch = LaunchFields
      /\ m.launch.slot = k.slot /\ m.launch.isApp = k.isApp /\ m.launch.debug = k.debug
      /\ m.launch.restores = k.restores
  <2>1. SameEntries(flagged, m.procs)
    BY <1>3, <1>7, <1>8, MergedIsSame
  <2> QED  BY <1>3, <1>7, <1>8, <2>1, MergedIsSame
<1>10. SameLaunch(t, l) /\ l.at = "deps"
  BY <1>4, <1>7, <1>9 DEF SameLaunch, LaunchFields, Past
<1>11. SameEntries(entries, entries')
  BY <1>5, <1>6, <1>9, SameTwice
<1> QED  BY <1>5, <1>10, <1>11, GoOnKeeps, LaunchFieldsOf DEF Merging

LEMMA DepsDoneKeeps ==
  ASSUME LaunchConstantsOK, LaunchInv, NEW t \in Threads, DepsDone(t)
  PROVE  LaunchInv'
<1> DEFINE at == IF launch[t].ok THEN "run" ELSE "cleanup"
           l == [launch[t] EXCEPT !.at = at]
<1>1. launch[t].at = "deps" /\ launch' = [launch EXCEPT ![t] = l] /\ UNCHANGED <<procVars, appVars>>
  BY DEF DepsDone, Goes
<1>2. SameLaunch(t, l) /\ l.at = at
  BY LaunchFieldsOf DEF SameLaunch, LaunchFields
<1> QED  BY <1>1, <1>2, GoOnKeeps, SameAsIs, LaunchFieldsOf DEF Merging, procVars

\* The application is known from the moment it runs; nobody else could run one.
LEMMA RunKeeps ==
  ASSUME LaunchConstantsOK, LaunchInv, NEW t \in Threads, Run(t)
  PROVE  LaunchInv'
<1>1. /\ launch[t].at = "run" /\ launch[t].slot \in Slots /\ launch[t].slot # Null
      /\ IsMine(t, launch[t].slot) /\ Made(t, launch[t].slot)
      /\ UNCHANGED <<entries, freeList>>
  BY DEF Run, IsMine, Made, LaunchInv, MadeAreLoaded, LaunchConstantsOK, Merging
<1>2. /\ launch' = [launch EXCEPT ![t] = NoLaunch] /\ debugNext' = debugNext
  BY ReturnsQuietly DEF Run
<1>3. UNCHANGED debugData
  BY LaunchFieldsOf DEF Run
<1>4. SameEntries(entries, entries')
  BY <1>1, SameAsIs
<1>5. CASE kernelState' = Terminated(launch[t].slot) /\ UNCHANGED runningApp
  <2>1. /\ kernelState' \in [Slots -> {"loaded", "running", "ended"}]
        /\ \A s \in Slots : kernelState'[s] # kernelState[s] => s = launch[t].slot /\ kernelState'[s] = "ended"
    BY <1>1, <1>5, LaunchFieldsOf DEF Terminated
  <2> QED  BY <1>1, <1>2, <1>3, <1>4, <1>5, <2>1, ReturnKeeps DEF appVars
<1>6. CASE /\ kernelState' = [kernelState EXCEPT ![launch[t].slot] = "running"]
           /\ runningApp' = IF launch[t].isApp THEN launch[t].slot ELSE runningApp
  <2>1. /\ kernelState' \in [Slots -> {"loaded", "running", "ended"}]
        /\ \A s \in Slots : kernelState'[s] # kernelState[s] => s = launch[t].slot
        /\ kernelState'[launch[t].slot] = "running"
    BY <1>1, <1>6, LaunchFieldsOf
  <2>2. CASE launch[t].isApp # TRUE
    <3>1. launch[t].slot \in Listed => entries[launch[t].slot].isApp # TRUE
      BY <1>1, <2>2 DEF LaunchInv, MadeAsAsked
    <3>2. UNCHANGED runningApp
      BY <1>6, <2>2
    <3> QED  BY <1>1, <1>2, <1>3, <1>4, <2>1, <3>1, <3>2, ReturnKeeps DEF appVars
  <2>3. CASE launch[t].isApp = TRUE
    <3>1. t = "task" /\ runningApp = Null
      BY <1>1, <2>3 DEF LaunchInv, TaskHasApps, NoneBeforeRun, Threads, Checked, Merging
    <3>2. runningApp' = launch[t].slot
      BY <1>6, <2>3
    <3>3. \A s \in Listed' : entries'[s].isApp = TRUE /\ kernelState'[s] = "running" => runningApp' = s
      <4>1. ASSUME NEW s \in Listed, entries[s].isApp = TRUE, kernelState[s] = "running" PROVE FALSE
        <5>1. s \in Slots /\ runningApp = s
          BY <4>1 DEF LaunchInv, RunningIsKnown, Listed
        <5> QED  BY <3>1, <5>1 DEF LaunchConstantsOK
      <4>2. Listed' = Listed
        BY <1>1 DEF Listed
      <4> QED  BY <1>1, <2>1, <3>2, <4>1, <4>2 DEF Listed
    \* But for the pointer, the thread only returns.
    <3>4. LaunchTypeOK' /\ FreeIsUnused' /\ NothingQueued' /\ TaskHasApps'
      <4>1. /\ DOMAIN NoLaunch = LaunchFields /\ NoLaunch.at = "idle" /\ NoLaunch.slot = Null
            /\ NoLaunch.sub = Null /\ NoLaunch.isApp = FALSE /\ NoLaunch.debug = FALSE
            /\ NoLaunch.restores = FALSE
        BY DEF NoLaunch, LaunchFields
      <4>2. /\ DOMAIN launch' = Threads /\ launch'[t] = NoLaunch
            /\ \A u \in Threads \ {t} : launch'[u] = launch[u]
        BY <1>2 DEF LaunchInv, LaunchTypeOK
      <4>3. LaunchTypeOK'
        BY <1>1, <2>1, <3>2, <4>1, <4>2 DEF LaunchInv, LaunchTypeOK, Listed
      <4>4. FreeIsUnused' /\ NothingQueued' /\ TaskHasApps'
        BY <1>1, <1>2, <1>3, <4>1, <4>2 DEF LaunchInv, FreeIsUnused, NothingQueued, TaskHasApps, Threads
      <4> QED  BY <4>3, <4>4
    <3>5. MadeAreLoaded' /\ MadeAsAsked' /\ NoneBeforeRun'
      <4>1. launch'[t].at = "idle" /\ \A u \in Threads \ {t} : launch'[u] = launch[u]
        BY <1>2 DEF LaunchInv, LaunchTypeOK, NoLaunch
      <4>2. \A u \in Threads, s \in Slots : (IsMine(u, s)' => u # t /\ IsMine(u, s))
                                            /\ (IsDep(u, s)' => u # t /\ IsDep(u, s))
        BY <4>1 DEF IsMine, IsDep, Merging
      <4>3. \A u \in Threads, s \in Slots : Made(u, s)' => Made(u, s) /\ kernelState'[s] = "loaded"
        <5> SUFFICES ASSUME NEW u \in Threads, NEW s \in Slots, Made(u, s)'
                     PROVE  Made(u, s) /\ kernelState'[s] = "loaded"
          OBVIOUS
        <5>1. u # t /\ Made(u, s)
          BY <4>2 DEF Made
        <5>2. s # launch[t].slot
          BY <1>1, <5>1 DEF LaunchInv, MadeAreLoaded, Threads
        <5> QED  BY <2>1, <5>1, <5>2 DEF LaunchInv, MadeAreLoaded
      <4>4. MadeAreLoaded'
        BY <1>1, <4>1, <4>2, <4>3 DEF LaunchInv, MadeAreLoaded, Threads, Merging
      <4>5. MadeAsAsked'
        BY <1>1, <4>1, <4>2 DEF LaunchInv, MadeAsAsked, Listed
      <4>6. NoneBeforeRun'
        BY <3>1, <4>1 DEF NoneBeforeRun, Checked, Merging
      <4> QED  BY <4>4, <4>5, <4>6
    <3> QED  BY <3>3, <3>4, <3>5 DEF LaunchInv, RunningIsKnown
  <2> QED  BY <2>2, <2>3
<1>7. launch[t].debug = FALSE /\ debugData = Null
  BY LaunchFieldsOf
<1> QED  BY <1>5, <1>6, <1>7 DEF Run

LEMMA CleanupKeeps ==
  ASSUME LaunchConstantsOK, LaunchInv, NEW t \in Threads, Cleanup(t)
  PROVE  LaunchInv'
<1>1. /\ launch[t].at = "cleanup" /\ launch' = [launch EXCEPT ![t] = NoLaunch]
      /\ kernelState' = Terminated(launch[t].slot) /\ UNCHANGED <<entries, freeList, appVars>>
  BY ReturnsQuietly DEF Cleanup, appVars
<1>2. /\ kernelState' \in [Slots -> {"loaded", "running", "ended"}]
      /\ \A s \in Slots : kernelState'[s] # kernelState[s] => s = launch[t].slot /\ kernelState'[s] = "ended"
  BY <1>1, LaunchFieldsOf DEF Terminated
<1>3. \A s \in Slots : s = launch[t].slot => Made(t, s)
  BY <1>1 DEF Made, IsMine
<1>4. SameEntries(entries, entries')
  BY <1>1, SameAsIs
<1> QED  BY <1>1, <1>2, <1>3, <1>4, ReturnKeeps

\* A launch starts on the main thread; one that has no entry has made none.
LEMMA StartKeeps ==
  ASSUME LaunchConstantsOK, LaunchInv, NEW l,
         DOMAIN l = LaunchFields, l.slot \in Slots \cup {Null}, l.sub = Null,
         l.debug = FALSE, l.restores = FALSE,
         \/ l.at = "found"
         \/ l.at = "handOver" /\ l.slot = Null
         \/ l.at = "check" /\ l.slot = Null /\ l.isApp = FALSE,
         launch' = [launch EXCEPT !["main"] = l], UNCHANGED <<procVars, appVars>>
  PROVE  LaunchInv'
<1>1. SameEntries(entries, entries') /\ kernelState' = kernelState /\ kernelState \in [Slots -> {"loaded", "running", "ended"}]
  BY SameAsIs, LaunchFieldsOf DEF procVars, Threads
<1>2. OwnStep("main", l)
  BY <1>1 DEF OwnStep, Checked, Merging, procVars
<1>3. "main" \in Threads
  BY DEF Threads
<1> QED  BY <1>2, <1>3, OwnStepKeeps

\* Nothing is put in the queue of the debugger.
LEMMA NoQueue ==
  ASSUME TaskLaunchesApps, LaunchInv, NEW queue \in Queue
  PROVE  queue = FALSE /\ debugData = Null /\ debugNext = FALSE /\ ~RunQueued
BY DEF TaskLaunchesApps, Queue, LaunchInv, NothingQueued, RunQueued

\* The task runner, or a session without the debugger, launches a title: its entry is found, or
\* one is to be made.
LEMMA LaunchTitleKeeps ==
  ASSUME LaunchConstantsOK, TaskLaunchesApps, LaunchInv, NEW title, NEW withDeps, NEW queue \in Queue,
         LaunchTitle(title, withDeps, queue)
  PROVE  LaunchInv'
<1>1. PICK found : found = Find(title)
  OBVIOUS
<1>2. found \in Slots \cup {Null}
  BY <1>1 DEF Find, Listed
<1>3. UNCHANGED <<procVars, appVars>>
  BY DEF LaunchTitle
<1>4. CASE title \in AppTitles /\ runningApp # Null
  <2>1. UNCHANGED launch
    BY <1>4 DEF LaunchTitle
  <2> QED  BY <1>3, <2>1 DEF LaunchInv, LaunchTypeOK, FreeIsUnused, NothingQueued, TaskHasApps,
           MadeAreLoaded, MadeAsAsked, NoneBeforeRun, RunningIsKnown, Listed, Made, IsMine, IsDep,
           procVars, appVars
<1>5. CASE ~(title \in AppTitles /\ runningApp # Null)
  <2>1. PICK at : at = (IF found # Null THEN "found" ELSE IF title \in AppTitles THEN "handOver" ELSE "check")
    OBVIOUS
  <2>2. PICK isApp, all : isApp = (title \in AppTitles) /\ all = ((title \in AppTitles) \/ withDeps)
    OBVIOUS
  <2>3. title \notin AppTitles => isApp = FALSE
    <3>1. title \notin AppTitles => (title \in AppTitles) = FALSE
      OBVIOUS
    <3> QED  BY <2>2, <3>1, Zenon
  <2>4. PICK l : l = [NoLaunch EXCEPT !.at = at, !.title = title, !.isApp = isApp, !.debug = FALSE,
                                   !.withDeps = all, !.slot = found]
    OBVIOUS
  <2>5. launch' = [launch EXCEPT !["main"] = l]
    <3>1. queue = FALSE /\ debugNext = FALSE
      BY NoQueue
    <3>2. Goes("main", l)
      BY <1>1, <1>5, <2>1, <2>2, <2>4, <3>1 DEF LaunchTitle
    <3> QED  BY <3>2 DEF Goes
  <2>6. /\ DOMAIN l = LaunchFields /\ l.at = at /\ l.slot = found /\ l.sub = Null
        /\ l.debug = FALSE /\ l.restores = FALSE /\ l.isApp = isApp
    BY <2>4, SMT DEF NoLaunch, LaunchFields
  <2>7. \/ l.at = "found"
        \/ l.at = "handOver" /\ l.slot = Null
        \/ l.at = "check" /\ l.slot = Null /\ l.isApp = FALSE
    <3>1. found # Null => l.at = "found"
      BY <2>1, <2>6
    <3>2. found = Null /\ title \in AppTitles => l.at = "handOver" /\ l.slot = Null
      BY <2>1, <2>6
    <3>3. found = Null /\ title \notin AppTitles => l.at = "check" /\ l.slot = Null
      BY <2>1, <2>6
    <3>4. title \notin AppTitles => l.isApp = FALSE
      BY <2>3, <2>6
    <3> QED  BY <3>1, <3>2, <3>3, <3>4
  <2> QED  BY <1>2, <1>3, <2>5, <2>6, <2>7, StartKeeps
<1> QED  BY <1>4, <1>5

LEMMA LaunchTitleUpdateKeeps ==
  ASSUME LaunchConstantsOK, TaskLaunchesApps, LaunchInv, NEW title, NEW queue \in Queue,
         LaunchTitleUpdate(title, queue)
  PROVE  LaunchInv'
<1>1. UNCHANGED <<procVars, appVars>>
  BY DEF LaunchTitleUpdate
<1>2. CASE runningApp # Null
  <2>1. UNCHANGED launch
    BY <1>2 DEF LaunchTitleUpdate
  <2> QED  BY <1>1, <2>1 DEF LaunchInv, LaunchTypeOK, FreeIsUnused, NothingQueued, TaskHasApps,
           MadeAreLoaded, MadeAsAsked, NoneBeforeRun, RunningIsKnown, Listed, Made, IsMine, IsDep,
           procVars, appVars
<1>3. CASE runningApp = Null
  <2>1. PICK l : l = [NoLaunch EXCEPT !.at = "handOver", !.title = title, !.isApp = TRUE,
                        !.debug = FALSE, !.withDeps = TRUE]
    OBVIOUS
  <2>2. launch' = [launch EXCEPT !["main"] = l]
    <3>1. queue = FALSE /\ debugNext = FALSE
      BY NoQueue
    <3> QED  BY <1>3, <2>1, <3>1 DEF LaunchTitleUpdate, Goes
  <2>3. /\ DOMAIN l = LaunchFields /\ l.at = "handOver" /\ l.slot = Null /\ l.sub = Null
        /\ l.debug = FALSE /\ l.restores = FALSE
    BY <2>1 DEF NoLaunch, LaunchFields
  <2> QED  BY <1>1, <2>2, <2>3, StartKeeps
<1> QED  BY <1>2, <1>3

LEMMA LaunchTitleDebugKeeps ==
  ASSUME LaunchConstantsOK, TaskLaunchesApps, LaunchInv, NEW title, NEW queue \in Queue,
         LaunchTitleDebug(title, queue)
  PROVE  LaunchInv'
<1>1. queue = FALSE /\ ~RunQueued
  BY NoQueue
<1>2. PICK withDeps \in BOOLEAN :
        Goes("main", [NoLaunch EXCEPT !.at = "check", !.title = title, !.debug = queue,
                                      !.withDeps = withDeps])
  BY <1>1 DEF LaunchTitleDebug
<1>3. UNCHANGED <<procVars, appVars>>
  BY <1>1 DEF LaunchTitleDebug
<1>4. PICK l : l = [NoLaunch EXCEPT !.at = "check", !.title = title, !.debug = queue,
                                    !.withDeps = withDeps]
  OBVIOUS
<1>5. /\ DOMAIN l = LaunchFields /\ l.at = "check" /\ l.slot = Null /\ l.sub = Null
      /\ l.debug = FALSE /\ l.restores = FALSE /\ l.isApp = FALSE
  BY <1>1, <1>4 DEF NoLaunch, LaunchFields
<1> QED  BY <1>2, <1>3, <1>4, <1>5, StartKeeps DEF Goes

LEMMA FoundKeeps ==
  ASSUME LaunchConstantsOK, LaunchInv, Found
  PROVE  LaunchInv'
<1>1. "main" \in Threads
  BY DEF Threads
<1>2. /\ launch' = [launch EXCEPT !["main"] = NoLaunch] /\ UNCHANGED <<freeList, kernelState, appVars>>
  BY DEF Found, Goes
<1>3. SameEntries(entries, entries')
  <2> DEFINE s == launch["main"].slot
             e == [entries[s] EXCEPT !.auto = FALSE]
  <2>1. s \in Slots /\ entries[s] # Null => "isApp" \in DOMAIN e /\ e.isApp = entries[s].isApp
    BY SameAsIs DEF SameEntries
  <2>2. SameEntries(entries, Write(entries, s, e))
    BY <2>1, SameAsIs, WrittenIsSame
  <2> QED  BY <2>2 DEF Found
<1> QED  BY <1>1, <1>2, <1>3, ReturnKeeps, LaunchFieldsOf

\* The task runner takes over what the main thread has begun.
LEMMA HandOverKeeps ==
  ASSUME LaunchConstantsOK, LaunchInv, HandOver
  PROVE  LaunchInv'
<1> USE DEF LaunchInv
<1>1. PICK l : l = [launch["main"] EXCEPT !.at = "check"]
  OBVIOUS
<1>2. /\ launch["main"].at = "handOver" /\ launch["task"].at = "idle"
      /\ launch' = [main |-> NoLaunch, task |-> l] /\ UNCHANGED <<procVars, appVars>>
  BY <1>1 DEF HandOver, Idle
<1>3. /\ DOMAIN l = LaunchFields /\ l.at = "check" /\ l.slot = Null /\ l.sub \in Slots \cup {Null}
      /\ l.debug = FALSE /\ l.restores = FALSE
  BY <1>1, <1>2, LaunchFieldsOf DEF LaunchFields, Threads, MadeAreLoaded
<1>4. /\ DOMAIN NoLaunch = LaunchFields /\ NoLaunch.at = "idle" /\ NoLaunch.slot = Null
      /\ NoLaunch.sub = Null /\ NoLaunch.isApp = FALSE /\ NoLaunch.debug = FALSE
      /\ NoLaunch.restores = FALSE
  BY DEF NoLaunch, LaunchFields
<1>5. DOMAIN launch' = Threads /\ launch'["main"] = NoLaunch /\ launch'["task"] = l
  BY <1>2 DEF Threads
<1>6. \A u \in Threads, s \in Slots : ~IsMine(u, s)' /\ ~IsDep(u, s)' /\ ~Made(u, s)'
  BY <1>3, <1>4, <1>5 DEF IsMine, IsDep, Made, Merging, Threads
<1>7. LaunchTypeOK'
  BY <1>2, <1>3, <1>4, <1>5 DEF LaunchTypeOK, Threads, Listed, procVars, appVars
<1>8. FreeIsUnused' /\ NothingQueued' /\ TaskHasApps'
  BY <1>2, <1>3, <1>4, <1>5 DEF FreeIsUnused, NothingQueued, TaskHasApps, Threads, procVars, appVars
<1>9. MadeAreLoaded' /\ MadeAsAsked'
  BY <1>3, <1>4, <1>5, <1>6 DEF MadeAreLoaded, MadeAsAsked, Listed, Threads, Merging
<1>10. NoneBeforeRun' /\ RunningIsKnown'
  BY <1>2, <1>3, <1>5 DEF NoneBeforeRun, RunningIsKnown, Listed, procVars, appVars, Checked, Merging
<1> QED  BY <1>7, <1>8, <1>9, <1>10

\* The lists of the free entries, with one that comes free.
LEMMA FreedIsLast ==
  ASSUME freeList \in Seq(Slots), FreeIsUnused, NEW s \in Slots, \A i \in DOMAIN freeList : freeList[i] # s
  PROVE  LET q == AfterFirst(freeList, s) IN
         /\ q \in Seq(Slots)
         /\ \A i \in DOMAIN q : q[i] = s \/ \E j \in DOMAIN freeList : q[i] = freeList[j]
         /\ \A i, j \in DOMAIN q : q[i] = q[j] => i = j
<1>1. /\ freeList \in Seq(Slots)
      /\ \A i, j \in DOMAIN freeList : freeList[i] = freeList[j] => i = j
  BY DEF FreeIsUnused
<1>2. CASE freeList = <<>>
  BY <1>2 DEF AfterFirst
<1>3. CASE freeList # <<>>
  <2>1. PICK q : q = <<Head(freeList), s>> \o Tail(freeList)
    OBVIOUS
  <2>2. /\ q \in Seq(Slots) /\ Len(q) = Len(freeList) + 1 /\ q[1] = freeList[1] /\ q[2] = s
        /\ \A i \in 3 .. Len(q) : q[i] = freeList[i - 1] /\ i - 1 \in DOMAIN freeList
    BY <1>1, <1>3, <2>1
  <2>3. \A i \in DOMAIN q : i = 1 \/ i = 2 \/ i \in 3 .. Len(q)
    BY <2>2
  <2>4. 1 \in DOMAIN freeList
    BY <1>1, <1>3
  <2>5. \A i \in DOMAIN q : q[i] = s \/ \E j \in DOMAIN freeList : q[i] = freeList[j]
    BY <2>2, <2>3, <2>4
  <2>6. ASSUME NEW i \in DOMAIN q, NEW j \in DOMAIN q, q[i] = q[j] PROVE i = j
    <3> DEFINE at(k) == IF k = 1 THEN 1 ELSE k - 1
    <3>1. \A k \in DOMAIN q : k \in Nat /\ (k # 2 => at(k) \in DOMAIN freeList /\ q[k] = freeList[at(k)])
      BY <1>1, <2>2, <2>3, <2>4
    <3>2. i = 2 <=> j = 2
      BY <2>2, <2>6, <3>1
    <3>3. CASE i # 2 /\ j # 2
      <4>1. at(i) = at(j)
        BY <1>1, <2>6, <3>1, <3>3
      <4> QED  BY <3>1, <3>3, <4>1, <2>3
    <3> QED  BY <3>2, <3>3
  <2> QED  BY <1>3, <2>1, <2>2, <2>5, <2>6 DEF AfterFirst
<1> QED  BY <1>2, <1>3

\* What has ended has been run, or was given up by the launch that made it.
LEMMA MonitorNotesKeeps ==
  ASSUME LaunchConstantsOK, LaunchInv, NEW s \in Slots, MonitorNotes(s)
  PROVE  LaunchInv'
<1> USE DEF LaunchInv
<1>1. /\ s \in Listed /\ kernelState[s] = "ended" /\ entries' = [entries EXCEPT ![s] = Null]
      /\ freeList' = AfterFirst(freeList, s) /\ UNCHANGED <<kernelState, appVars, launch>>
  BY DEF MonitorNotes
<1>2. DOMAIN entries' = Slots /\ entries'[s] = Null /\ \A r \in Slots \ {s} : entries'[r] = entries[r]
  BY <1>1 DEF LaunchTypeOK
<1>3. \A i \in DOMAIN freeList : freeList[i] # s
  BY <1>1 DEF FreeIsUnused, Listed
<1>4. /\ freeList' \in Seq(Slots)
      /\ \A i \in DOMAIN freeList' : freeList'[i] = s \/ \E j \in DOMAIN freeList : freeList'[i] = freeList[j]
      /\ \A i, j \in DOMAIN freeList' : freeList'[i] = freeList'[j] => i = j
  BY <1>1, <1>3, FreedIsLast DEF LaunchTypeOK
<1>5. \A r \in Listed' : r \in Listed /\ r # s /\ entries'[r] = entries[r]
  BY <1>2 DEF Listed
<1>6. LaunchTypeOK'
  BY <1>1, <1>2, <1>4, <1>5 DEF LaunchTypeOK, appVars
<1>7. FreeIsUnused'
  <2>1. \A j \in DOMAIN freeList : freeList[j] \in Slots /\ entries[freeList[j]] = Null
    BY DEF FreeIsUnused, LaunchTypeOK
  <2>2. \A i \in DOMAIN freeList' : entries'[freeList'[i]] = Null
    BY <1>2, <1>4, <2>1
  <2> QED  BY <1>4, <2>2 DEF FreeIsUnused
<1>8. NothingQueued' /\ TaskHasApps' /\ NoneBeforeRun'
  BY <1>1 DEF NothingQueued, TaskHasApps, NoneBeforeRun, appVars
<1>9. MadeAreLoaded'
  <2>1. \A t \in Threads, r \in Slots : (Made(t, r)' <=> Made(t, r)) /\ (IsMine(t, r)' <=> IsMine(t, r))
                                        /\ (IsDep(t, r)' <=> IsDep(t, r))
    BY <1>1 DEF Made, IsMine, IsDep
  <2>2. \A t \in Threads, r \in Slots : Made(t, r) =>
          kernelState[r] = "loaded" /\ r # s /\ \A j \in DOMAIN freeList : freeList[j] # r
    BY <1>1 DEF MadeAreLoaded
  <2>3. \A t \in Threads, r \in Slots : Made(t, r)' =>
          kernelState'[r] = "loaded" /\ \A i \in DOMAIN freeList' : freeList'[i] # r
    BY <1>1, <1>4, <2>1, <2>2
  <2>4. /\ \A r \in Slots : ~(Made("main", r)' /\ Made("task", r)')
        /\ \A t \in Threads, r \in Slots : ~(IsMine(t, r)' /\ IsDep(t, r)')
    <3>1. /\ \A r \in Slots : ~(Made("main", r) /\ Made("task", r))
          /\ \A t \in Threads, r \in Slots : ~(IsMine(t, r) /\ IsDep(t, r))
      BY DEF MadeAreLoaded
    <3>2. "main" \in Threads /\ "task" \in Threads
      BY DEF Threads
    <3> QED  BY <2>1, <3>1, <3>2
  <2> HIDE DEF LaunchInv
  <2>5. \A t \in Threads :
          /\ launch'[t].at \in {"handOver", "check", "load"} => launch'[t].slot = Null
          /\ launch'[t].at \in Merging => launch'[t].slot \in Slots
          /\ launch'[t].at = "runDep" => launch'[t].sub \in Slots
    BY <1>1 DEF LaunchInv, MadeAreLoaded
  <2> QED  BY <2>3, <2>4, <2>5 DEF MadeAreLoaded
<1>10. MadeAsAsked' /\ RunningIsKnown'
  BY <1>1, <1>5 DEF MadeAsAsked, RunningIsKnown, IsMine, IsDep, appVars
<1> QED  BY <1>6, <1>7, <1>8, <1>9, <1>10

\* Entries are written, or the pointer to a process that has none any more is cleared.
LEMMA MonitorWritesKeeps ==
  ASSUME LaunchConstantsOK, LaunchInv, SameEntries(entries, entries'),
         runningApp' = runningApp \/ (runningApp' = Null /\ (runningApp \in Slots => entries[runningApp] = Null)),
         UNCHANGED <<freeList, kernelState, debugData, debugNext, launch>>
  PROVE  LaunchInv'
<1> USE DEF LaunchInv
<1>1. \A s \in Listed' : s \in Listed /\ "isApp" \in DOMAIN entries'[s] /\ entries'[s].isApp = entries[s].isApp
  BY DEF SameEntries, Listed
<1>2. LaunchTypeOK'
  BY <1>1 DEF LaunchTypeOK, SameEntries
<1>3. FreeIsUnused' /\ NothingQueued' /\ TaskHasApps'
  BY DEF FreeIsUnused, NothingQueued, TaskHasApps, SameEntries, LaunchTypeOK
<1>4. MadeAreLoaded' /\ MadeAsAsked'
  BY <1>1 DEF MadeAreLoaded, MadeAsAsked, Made, IsMine, IsDep
<1>5. NoneBeforeRun' /\ RunningIsKnown'
  BY <1>1 DEF NoneBeforeRun, RunningIsKnown, Listed
<1> QED  BY <1>2, <1>3, <1>4, <1>5

LEMMA MonitorKeeps ==
  ASSUME LaunchConstantsOK, LaunchInv, CleanupSteps
  PROVE  LaunchInv'
<1>1. CASE MonitorReleases
  <2>1. PICK counted : counted = {s \in Listed : entries[s].auto /\ ~entries[s].dying
                                     /\ entries[s].title \in Range(Deps[pmMonitor.entry.title])}
    OBVIOUS
  <2>2. counted \subseteq Listed
    BY <2>1
  <2>3. entries' = entries \/ entries' = [s \in Slots |-> IF s \in counted
                                   THEN [entries[s] EXCEPT !.refcount = (@ - 1) % 256, !.dying = entries[s].refcount = 1]
                                   ELSE entries[s]]
    BY <1>1, <2>1 DEF MonitorReleases
  <2>4. SameEntries(entries, entries')
    <3>1. CASE entries' = entries
      BY <3>1, SameAsIs
    <3>2. CASE entries' = [s \in Slots |-> IF s \in counted
                             THEN [entries[s] EXCEPT !.refcount = (@ - 1) % 256, !.dying = entries[s].refcount = 1]
                             ELSE entries[s]]
      <4>1. \A s \in Slots : entries'[s] # Null => entries[s] # Null
        BY <2>2, <3>2 DEF Listed
      <4>2. \A s \in Slots : entries[s] # Null => "isApp" \in DOMAIN entries[s]
        BY SameAsIs DEF SameEntries
      <4>3. \A s \in Slots : entries'[s] # Null => "isApp" \in DOMAIN entries'[s] /\ entries'[s].isApp = entries[s].isApp
        BY <3>2, <4>1, <4>2
      <4> QED  BY <3>2, <4>1, <4>3 DEF SameEntries
    <3> QED  BY <2>3, <3>1, <3>2
  <2>5. UNCHANGED <<freeList, kernelState, runningApp, debugData, debugNext, launch>>
    BY <1>1 DEF MonitorReleases, appVars
  <2> QED  BY <2>4, <2>5, MonitorWritesKeeps
<1>2. CASE MonitorForgets
  <2>1. runningApp' = runningApp \/ (runningApp' = Null /\ (runningApp \in Slots => entries[runningApp] = Null))
    BY <1>2 DEF MonitorForgets
  <2>2. debugData = Null /\ debugData' = debugData
    BY <1>2, LaunchFieldsOf DEF MonitorForgets, Threads
  <2>3. UNCHANGED <<entries, freeList, kernelState, debugNext, launch>>
    BY <1>2 DEF MonitorForgets, procVars
  <2>4. SameEntries(entries, entries')
    BY <2>3, SameAsIs
  <2> QED  BY <2>1, <2>2, <2>3, <2>4, MonitorWritesKeeps
<1>3. CASE \E s \in Slots : MonitorNotes(s)
  BY <1>3, MonitorNotesKeeps
<1> QED  BY <1>1, <1>2, <1>3 DEF CleanupSteps

LEMMA ExitsKeeps ==
  ASSUME LaunchConstantsOK, LaunchInv, NEW s \in Slots, Exits(s)
  PROVE  LaunchInv'
<1> USE DEF LaunchInv
<1>1. /\ kernelState[s] = "running" /\ kernelState' = [kernelState EXCEPT ![s] = "ended"]
      /\ UNCHANGED <<entries, freeList, appVars, launch>>
  BY DEF Exits, NothingQueued, LaunchConstantsOK
<1>2. /\ kernelState' \in [Slots -> {"loaded", "running", "ended"}] /\ kernelState'[s] = "ended"
      /\ \A r \in Slots \ {s} : kernelState'[r] = kernelState[r]
  BY <1>1 DEF LaunchTypeOK
<1>3. LaunchTypeOK'
  BY <1>1, <1>2 DEF LaunchTypeOK, Listed, appVars
<1>4. FreeIsUnused' /\ NothingQueued' /\ TaskHasApps' /\ NoneBeforeRun'
  BY <1>1 DEF FreeIsUnused, NothingQueued, TaskHasApps, NoneBeforeRun, appVars
<1>5. MadeAreLoaded' /\ MadeAsAsked'
  BY <1>1, <1>2 DEF MadeAreLoaded, MadeAsAsked, Made, IsMine, IsDep, Listed
<1>6. RunningIsKnown'
  BY <1>1, <1>2 DEF RunningIsKnown, Listed, appVars
<1> QED  BY <1>3, <1>4, <1>5, <1>6

LEMMA ThreadStepsKeep ==
  ASSUME LaunchConstantsOK, LaunchInv, NEW t \in Threads, ThreadSteps(t)
  PROVE  LaunchInv'
BY CheckKeeps, LoadKeeps, RegisterFailsKeeps, LoadFailsKeeps, MergeKeeps, LoadDepKeeps,
   RegisterDepFailsKeeps, LoadDepFailsKeeps, RunDepKeeps, CountDepKeeps, DepsDoneKeeps, RunKeeps,
   CleanupKeeps DEF ThreadSteps

LEMMA LaunchStep == LaunchConstantsOK /\ TaskLaunchesApps /\ LaunchInv /\ [LaunchNext]_launchVars => LaunchInv'
<1> SUFFICES ASSUME LaunchConstantsOK, TaskLaunchesApps, LaunchInv, [LaunchNext]_launchVars PROVE LaunchInv'
  OBVIOUS
<1>1. ASSUME NEW title \in Titles, NEW queue \in Queue,
             (\E withDeps \in BOOLEAN : LaunchTitle(title, withDeps, queue))
             \/ LaunchTitleUpdate(title, queue) \/ LaunchTitleDebug(title, queue)
      PROVE  LaunchInv'
  BY <1>1, LaunchTitleKeeps, LaunchTitleUpdateKeeps, LaunchTitleDebugKeeps
<1>2. ~RunQueuedProcess /\ ~DebugNextApplicationByForce
      /\ \A title \in Titles, queue \in Queue : ~LaunchAppDebug(title, queue)
  <2>1. "LaunchAppDebug" \notin Asks /\ "DebugNextApplication" \notin Asks
    BY DEF TaskLaunchesApps
  <2>2. ~RunQueued
    BY DEF RunQueued, LaunchInv, NothingQueued
  <2> QED  BY <2>1, <2>2 DEF RunQueuedProcess, DebugNextApplicationByForce, LaunchAppDebug, AskedFor, Asked
<1>3. CASE UNCHANGED launchVars
  BY <1>3 DEF LaunchInv, LaunchTypeOK, FreeIsUnused, NothingQueued, TaskHasApps, MadeAreLoaded,
     MadeAsAsked, NoneBeforeRun, RunningIsKnown, Listed, Made, IsMine, IsDep, launchVars, procVars, appVars
<1> QED  BY <1>1, <1>2, <1>3, FoundKeeps, HandOverKeeps, ThreadStepsKeep, MonitorKeeps, ExitsKeeps DEF LaunchNext

\* launchTitleImpl looks at runningApplicationData "to avoid a race condition" (launch.c:295):
\* for any titles, dependencies and failures, and whatever ends meanwhile, no two applications
\* run, as long as all are launched by the task runner, one at a time.
THEOREM OneApplicationRuns ==
  ASSUME LaunchConstantsOK, TaskLaunchesApps
  PROVE  LaunchSpec => []OneApplication
<1>1. LaunchInv => OneApplication
  <2> SUFFICES ASSUME LaunchInv, NEW s \in Listed, NEW r \in Listed, entries[s].isApp, entries[r].isApp,
                      kernelState[s] = "running", kernelState[r] = "running"
               PROVE  s = r
    BY DEF OneApplication
  <2> QED  BY DEF LaunchInv, RunningIsKnown
<1> QED  BY <1>1, LaunchInitHolds, LaunchStep, PTL DEF LaunchSpec

(***************************************************************************)
(* PointersValid, whatever is launched, fails and ends meanwhile.          *)
(*                                                                         *)
(* A launch sets the pointers before its process is run, and the monitor   *)
(* resets them two locks after it has taken the entry out of the list.     *)
(* They stay valid because the entries that launches have made and not run *)
(* yet are each of one launch, still loaded and of no pointer, so that     *)
(* nobody else runs, ends or removes their processes (HasEntries); and     *)
(* because a pointer whose entry is free is one the monitor is about to    *)
(* reset.  What is known of an entry is lost when it is taken for another  *)
(* process before that (reused): debugData then leads to the process of a  *)
(* launch under way, which may be run or ended through it.                 *)
(***************************************************************************)
ListOK ==
  /\ DOMAIN entries = Slots /\ \A s \in Listed : entries[s] \in Entry
  /\ freeList \in Seq(Slots)
  /\ kernelState \in [Slots -> {"loaded", "running", "ended"}]
  /\ runningApp \in Slots \cup {Null} /\ debugData \in Slots \cup {Null}

\* What is known of a launch by itself.
LaunchData(l) ==
  /\ DOMAIN l = LaunchFields
  /\ l.isApp \in BOOLEAN /\ l.debug \in BOOLEAN /\ l.unique \in Seq(Titles)
  /\ l.remaining \in [Titles -> Int] /\ DOMAIN l.procs = Titles
  /\ l.slot \in Slots \cup {Null} /\ l.sub \in Slots \cup {Null}
LaunchOK(l) ==
  /\ LaunchData(l)
  /\ l.at \in {"idle", "found", "handOver", "check", "cleanup"} \cup Checked
  /\ l.at # "idle" => l.title \in Titles
  /\ l.at \in {"handOver", "check", "load"} => l.slot = Null
  /\ l.at \in {"found"} \cup Merging => l.slot \in Slots
  /\ l.at \in {"runDep", "countDep"} => l.sub \in Slots /\ MoreDeps(l)

\* The entries that a launch has made and not run are there, and are not what the manager points to.
Has(l, s) ==
  \/ l.at \in Merging \cup {"cleanup"} /\ l.slot = s
  \/ l.at = "runDep" /\ l.sub = s
Untouched(s) == s \in Listed \ {runningApp, debugData} /\ kernelState[s] = "loaded"
HasEntries(l) ==
  /\ \A s \in Slots \ reused : Has(l, s) =>
       Untouched(s) /\ (l.at \in Merging /\ l.slot = s => entries[s].isApp = l.isApp)
  /\ l.at = "runDep" => l.sub # l.slot \/ l.sub \in reused

LaunchesOK ==
  /\ DOMAIN launch = Threads
  /\ \A t \in Threads : LaunchOK(launch[t]) /\ HasEntries(launch[t])
  /\ \A s \in Slots \ reused : \A t, u \in Threads : Has(launch[t], s) /\ Has(launch[u], s) => t = u

\* What the monitor cleans up.
MonitorHas ==
  /\ DOMAIN pmMonitor = {"at", "slot", "entry"}
  /\ pmMonitor.at \in {"wait", "release", "forget"}
  /\ pmMonitor.at = "wait" => pmMonitor = NoBackup
  /\ pmMonitor.at # "wait" => pmMonitor.slot \in Slots

PointerInv == ListOK /\ FreeIsUnused /\ LaunchesOK /\ MonitorHas /\ PointersValid

-----------------------------------------------------------------------------
LEMMA NoLaunchOK == LaunchOK(NoLaunch) /\ NoLaunch.at = "idle" /\ \A s : ~Has(NoLaunch, s)
<1>1. << >> \in Seq(Titles)
  BY EmptySeq
<1>2. NoLaunch.at = "idle" /\ \A s : ~Has(NoLaunch, s)
  BY DEF NoLaunch, Has, Merging
<1>3. LaunchData(NoLaunch)
  BY <1>1 DEF NoLaunch, LaunchData, LaunchFields
<1>4. LaunchOK(NoLaunch)
  BY <1>2, <1>3 DEF LaunchOK, Merging
<1> QED  BY <1>2, <1>4

LEMMA HasNone ==
  ASSUME NEW l, l.at \in {"idle", "found", "handOver", "check", "load"}
  PROVE  HasEntries(l) /\ HasEntries(l)' /\ \A s : ~Has(l, s)
BY DEF HasEntries, Has, Merging

LEMMA PointerInitHolds ==
  ASSUME LaunchConstantsOK, LaunchInit
  PROVE  PointerInv
<1>1. /\ DOMAIN entries = Slots /\ \A s \in Slots : entries[s] = Null
      /\ freeList \in Seq(Slots) /\ freeList = Pool /\ DOMAIN freeList = DOMAIN Pool
      /\ kernelState \in [Slots -> {"loaded", "running", "ended"}]
      /\ runningApp = Null /\ debugData = Null /\ pmMonitor = NoBackup
  BY DEF LaunchInit, LaunchConstantsOK
<1>2. ListOK /\ PointersValid
  BY <1>1 DEF ListOK, PointersValid, Listed
<1>3. FreeIsUnused
  <2>1. \A i, j \in DOMAIN Pool : Pool[i] = Pool[j] => i = j
    BY DEF LaunchConstantsOK, IsInjective
  <2>2. \A i \in DOMAIN Pool : Pool[i] \in Slots
    BY DEF Slots, Range
  <2> QED  BY <1>1, <2>1, <2>2 DEF FreeIsUnused
<1>4. DOMAIN launch = Threads /\ \A t \in Threads : launch[t] = NoLaunch
  BY DEF LaunchInit
<1>5. LaunchesOK
  BY <1>4, NoLaunchOK, HasNone DEF LaunchesOK
<1>6. MonitorHas
  BY <1>1 DEF MonitorHas, NoBackup
<1> QED  BY <1>2, <1>3, <1>5, <1>6 DEF PointerInv

\* Launches keep what is theirs when at most the entry q is touched, which is not theirs.
LEMMA LaunchesKeep ==
  ASSUME LaunchesOK, NEW T, T \subseteq Threads, NEW q, reused \subseteq reused',
         \A s \in Slots \ (reused' \cup {q}) :
           Untouched(s) => Untouched(s)' /\ entries'[s].isApp = entries[s].isApp,
         q \in Slots \ reused' => \A u \in T : ~Has(launch[u], q)
  PROVE  \A u \in T : \A l : l = launch[u] => HasEntries(l)'
<1> SUFFICES ASSUME NEW u \in T, NEW l, l = launch[u] PROVE HasEntries(l)'
  OBVIOUS
<1>1. HasEntries(l)
  BY DEF LaunchesOK
<1> QED  BY <1>1 DEF HasEntries

\* The launch of one thread goes on to have entries that no other launch has.
LEMMA LaunchMoves ==
  ASSUME LaunchesOK, NEW t \in Threads, NEW l, Goes(t, l), LaunchOK(l), HasEntries(l)', reused \subseteq reused',
         \A u \in Threads \ {t} : \A k : k = launch[u] => HasEntries(k)',
         \A s \in Slots \ reused' : Has(l, s) => \A u \in Threads \ {t} : ~Has(launch[u], s)
  PROVE  LaunchesOK'
<1>1. /\ DOMAIN launch' = Threads /\ launch'[t] = l
      /\ \A u \in Threads \ {t} : launch'[u] = launch[u] /\ LaunchOK(launch[u])
  BY DEF LaunchesOK, Goes
<1>2. \A u \in Threads : LaunchOK(launch'[u])
  BY <1>1
<1>3. \A u \in Threads : HasEntries(launch[u])'
  <2> SUFFICES ASSUME NEW u \in Threads PROVE HasEntries(launch[u])'
    OBVIOUS
  <2>1. PICK k : k = launch'[u]
    OBVIOUS
  <2>2. HasEntries(k)'
    BY <1>1, <2>1
  <2> QED  BY <2>1, <2>2 DEF HasEntries
<1>4. ASSUME NEW s \in Slots \ reused', NEW u \in Threads, NEW v \in Threads, Has(launch'[u], s), Has(launch'[v], s)
      PROVE  u = v
  BY <1>1, <1>4 DEF LaunchesOK
<1> QED  BY <1>1, <1>2, <1>3, <1>4 DEF LaunchesOK, LaunchOK, LaunchData, MoreDeps, ToLaunch, Has

\* No launch goes on.
LEMMA LaunchesStay ==
  ASSUME LaunchesOK, UNCHANGED launch, reused \subseteq reused', \A u \in Threads : \A k : k = launch[u] => HasEntries(k)'
  PROVE  LaunchesOK'
<1>1. \A u \in Threads : HasEntries(launch[u])'
  <2> SUFFICES ASSUME NEW u \in Threads PROVE HasEntries(launch[u])'
    OBVIOUS
  <2>1. PICK k : k = launch[u]
    OBVIOUS
  <2>2. HasEntries(k)'
    BY <2>1
  <2> QED  BY <2>1, <2>2 DEF HasEntries
<1> QED  BY <1>1 DEF LaunchesOK, LaunchOK, LaunchData, MoreDeps, ToLaunch, Has

\* A launch goes on with entries that it has already.
LEMMA GoesOn ==
  ASSUME PointerInv, NEW t \in Threads, NEW l, Goes(t, l), LaunchOK(l), HasEntries(l), UNCHANGED reused,
         \A s : Has(l, s) => Has(launch[t], s),
         ListOK', FreeIsUnused', MonitorHas', PointersValid', \A k : LaunchData(k) /\ HasEntries(k) => HasEntries(k)'
  PROVE  PointerInv'
<1>1. \A u \in Threads \ {t} : \A k : k = launch[u] => HasEntries(k)'
  BY DEF PointerInv, LaunchesOK, LaunchOK
<1>2. \A s \in Slots \ reused' : Has(l, s) => \A u \in Threads \ {t} : ~Has(launch[u], s)
  BY DEF PointerInv, LaunchesOK
<1>3. HasEntries(l)'
  BY DEF LaunchOK
<1>4. LaunchesOK'
  BY <1>1, <1>2, <1>3, LaunchMoves DEF PointerInv
<1> QED  BY <1>4 DEF PointerInv

LEMMA ListStays ==
  ASSUME PointerInv, UNCHANGED <<procVars, runningApp, debugData, pmMonitor>>
  PROVE  /\ ListOK' /\ FreeIsUnused' /\ MonitorHas' /\ PointersValid' /\ reused' = reused
         /\ \A k : HasEntries(k) => HasEntries(k)'
BY DEF PointerInv, ListOK, FreeIsUnused, MonitorHas, PointersValid, HasEntries, Untouched, Listed, procVars

\* A step that only changes a launch.
LEMMA OnlyGoesOn ==
  ASSUME PointerInv, NEW t \in Threads, NEW l, Goes(t, l), LaunchOK(l), HasEntries(l),
         \A s : Has(l, s) => Has(launch[t], s),
         UNCHANGED <<procVars, runningApp, debugData, pmMonitor>>
  PROVE  PointerInv'
BY ListStays, GoesOn

LEMMA NothingChanges ==
  ASSUME PointerInv, UNCHANGED <<procVars, runningApp, debugData, pmMonitor, launch>>
  PROVE  PointerInv'
<1>1. \A u \in Threads : \A k : k = launch[u] => HasEntries(k)'
  BY ListStays DEF PointerInv, LaunchesOK
<1> QED  BY <1>1, ListStays, LaunchesStay DEF PointerInv

\* A launch ends without an entry made.
LEMMA JustReturns ==
  ASSUME PointerInv, NEW t \in Threads, NEW ok, Returns(t, ok), UNCHANGED <<procVars, runningApp, debugData, pmMonitor>>
  PROVE  PointerInv'
BY NoLaunchOK, HasNone, OnlyGoesOn DEF Returns

\* What is and stays an entry.
LEMMA NullIsNone ==
  ASSUME LaunchConstantsOK
  PROVE  Null \notin Slots /\ Null \notin Entry
BY DEF LaunchConstantsOK

LEMMA NewIsEntry ==
  ASSUME NEW title \in Titles, NEW isApp \in BOOLEAN
  PROVE  [title |-> title, isApp |-> isApp, auto |-> FALSE, deps |-> FALSE,
          refcount |-> 1, dying |-> FALSE] \in Entry
<1>1. FALSE \in BOOLEAN /\ 1 \in Int
  OBVIOUS
<1> QED  BY <1>1, Zenon DEF Entry


\* An entry is made.  No launch had it, unless it is taken while a pointer leads to it.
LEMMA EntryMade ==
  ASSUME LaunchConstantsOK, PointerInv, NEW title \in Titles, NEW isApp \in BOOLEAN, NewEntry(title, isApp),
         NEW k \in {"loaded", "running", "ended"}, kernelState' = [kernelState EXCEPT ![Head(freeList)] = k],
         UNCHANGED <<runningApp, debugData, pmMonitor>>
  PROVE  LET h == Head(freeList) IN
         /\ ListOK' /\ FreeIsUnused' /\ MonitorHas' /\ PointersValid' /\ reused \subseteq reused'
         /\ h \in Slots /\ entries[h] = Null /\ entries'[h] # Null /\ kernelState'[h] = k
         /\ entries'[h].isApp = isApp
         /\ h \notin reused' => h \notin {runningApp, debugData} /\ \A t \in Threads : ~Has(launch[t], h)
         /\ \A s \in Slots \ {h} : entries'[s] = entries[s] /\ kernelState'[s] = kernelState[s]
         /\ \A u \in Threads : \A l : l = launch[u] => HasEntries(l)'
<1> DEFINE h == Head(freeList)
           e == [title |-> title, isApp |-> isApp, auto |-> FALSE, deps |-> FALSE,
                 refcount |-> 1, dying |-> FALSE]
<1>1. /\ freeList # <<>> /\ freeList \in Seq(Slots) /\ freeList' = Tail(freeList)
      /\ entries' = [entries EXCEPT ![h] = e]
  BY DEF NewEntry, PointerInv, ListOK
<1>2. /\ h \in Slots /\ h = freeList[1] /\ 1 \in DOMAIN freeList /\ entries[h] = Null
      /\ freeList' \in Seq(Slots)
      /\ \A i \in DOMAIN freeList' : i \in Nat /\ i + 1 \in DOMAIN freeList /\ freeList'[i] = freeList[i + 1]
                                     /\ i + 1 # 1
  <2>1. /\ 1 \in DOMAIN freeList /\ h = freeList[1] /\ freeList[1] \in Slots /\ Tail(freeList) \in Seq(Slots)
    BY <1>1
  <2>2. entries[freeList[1]] = Null
    BY <2>1 DEF PointerInv, FreeIsUnused
  <2>3. \A i \in DOMAIN Tail(freeList) : i \in Nat /\ i + 1 \in DOMAIN freeList
                                         /\ Tail(freeList)[i] = freeList[i + 1] /\ i + 1 # 1
    BY <1>1
  <2> QED  BY <1>1, <2>1, <2>2, <2>3
<1>3. e \in Entry /\ e # Null
  <2>1. e \in Entry
    BY NewIsEntry
  <2> HIDE DEF e
  <2> QED  BY <2>1, NullIsNone
<1> HIDE DEF h, e
<1>4. /\ DOMAIN entries' = Slots /\ entries'[h] = e /\ DOMAIN entries = Slots
      /\ \A s \in Slots \ {h} : entries'[s] = entries[s]
  BY <1>1, <1>2 DEF PointerInv, ListOK
<1>5. /\ kernelState' \in [Slots -> {"loaded", "running", "ended"}] /\ kernelState'[h] = k
      /\ \A s \in Slots \ {h} : kernelState'[s] = kernelState[s]
  BY <1>2 DEF PointerInv, ListOK, h
<1>6. reused \subseteq reused' /\ (h \notin reused' => h \notin {runningApp, debugData})
  BY DEF NewEntry, h
<1>7. Listed' = Listed \cup {h} /\ h \notin Listed
  BY <1>2, <1>3, <1>4 DEF Listed
<1>8. ListOK'
  <2>1. \A s \in Listed' : entries'[s] \in Entry
    BY <1>3, <1>4, <1>7 DEF PointerInv, ListOK, Listed
  <2> QED  BY <1>2, <1>4, <1>5, <2>1 DEF PointerInv, ListOK
<1>9. FreeIsUnused'
  <2>1. \A i \in DOMAIN freeList : freeList[i] = h => i = 1
    BY <1>2 DEF PointerInv, FreeIsUnused
  <2>2. \A i \in DOMAIN freeList' : freeList'[i] # h /\ freeList'[i] \in Slots /\ entries[freeList'[i]] = Null
    BY <1>2, <2>1 DEF PointerInv, FreeIsUnused
  <2>3. \A i \in DOMAIN freeList' : entries'[freeList'[i]] = Null
    BY <1>4, <2>2
  <2>4. ASSUME NEW i \in DOMAIN freeList', NEW j \in DOMAIN freeList', freeList'[i] = freeList'[j] PROVE i = j
    <3>1. i + 1 = j + 1
      BY <1>2, <2>4 DEF PointerInv, FreeIsUnused
    <3> QED  BY <1>2, <3>1
  <2> QED  BY <2>3, <2>4, Zenon DEF FreeIsUnused
<1>10. MonitorHas'
  BY DEF PointerInv, MonitorHas
<1>11. PointersValid'
  <2>1. \A s \in Slots \ reused' : s \in {runningApp, debugData} => s # h
    BY <1>6
  <2>2. \A s \in Slots \ reused' : s \in {runningApp, debugData} =>
          entries'[s] = entries[s] /\ kernelState'[s] = kernelState[s]
    BY <1>4, <1>5, <2>1
  <2> QED  BY <1>6, <2>2 DEF PointerInv, ListOK, PointersValid
<1>12. h \notin reused' => \A t \in Threads : ~Has(launch[t], h)
  BY <1>2, <1>6, <1>7 DEF PointerInv, LaunchesOK, HasEntries, Untouched
<1>13. \A s \in Slots \ (reused' \cup {h}) : Untouched(s) => Untouched(s)' /\ entries'[s].isApp = entries[s].isApp
  BY <1>4, <1>5, <1>7 DEF Untouched
<1>14. \A u \in Threads : \A l : l = launch[u] => HasEntries(l)'
  BY <1>6, <1>12, <1>13, LaunchesKeep DEF PointerInv
<1>15. e.isApp = isApp
  BY DEF e
<1> QED  BY <1>2, <1>3, <1>4, <1>5, <1>6, <1>8, <1>9, <1>10, <1>11, <1>12, <1>14, <1>15 DEF h

\* The thread that made it goes on.
LEMMA GoesOnWith ==
  ASSUME PointerInv, NEW t \in Threads, NEW l, Goes(t, l), LaunchOK(l), HasEntries(l)', reused \subseteq reused',
         NEW h, h \notin reused' => \A u \in Threads : ~Has(launch[u], h),
         \A s \in Slots \ {h} : Has(l, s) => Has(launch[t], s),
         ListOK', FreeIsUnused', MonitorHas', PointersValid', \A u \in Threads : \A k : k = launch[u] => HasEntries(k)'
  PROVE  PointerInv'
<1>1. \A s \in Slots \ reused' : Has(l, s) => \A u \in Threads \ {t} : ~Has(launch[u], s)
  BY DEF PointerInv, LaunchesOK
<1>2. LaunchesOK'
  BY <1>1, LaunchMoves DEF PointerInv
<1> QED  BY <1>2 DEF PointerInv

-----------------------------------------------------------------------------
\* The loop that launches dependencies takes the first that is left.
LEMMA LeastOf ==
  ASSUME NEW J, J \subseteq Nat, J # {}
  PROVE  \E j \in J : \A k \in J : j <= k
<1>1. PICK j \in J : \A k \in J : ~(<<k, j>> \in OpToRel(<, Nat))
  BY NatLessThanWellFounded, WFMin
<1>2. \A k \in J : ~(k < j)
  BY <1>1 DEF OpToRel
<1> QED  BY <1>2

LEMMA NextDepIsLeft ==
  ASSUME NEW l, l.unique \in Seq(Titles), MoreDeps(l)
  PROVE  NextDep(l) \in Range(l.unique) /\ NextDep(l) \in Titles /\ ToLaunch(l, NextDep(l))
<1> DEFINE J == {j \in DOMAIN l.unique : ToLaunch(l, l.unique[j])}
           first(j) == ToLaunch(l, l.unique[j]) /\ \A k \in 1 .. j - 1 : ~ToLaunch(l, l.unique[k])
<1>1. J \subseteq Nat /\ J # {} /\ J \subseteq DOMAIN l.unique
  BY DEF MoreDeps
<1>2. PICK j \in J : \A k \in J : j <= k
  BY <1>1, LeastOf
<1>3. first(j) /\ j \in DOMAIN l.unique
  <2>1. ToLaunch(l, l.unique[j]) /\ j \in DOMAIN l.unique /\ j \in Nat /\ j <= Len(l.unique)
    BY <1>1
  <2>2. ASSUME NEW k \in 1 .. j - 1, ToLaunch(l, l.unique[k]) PROVE FALSE
    <3>1. k \in DOMAIN l.unique /\ k < j
      BY <2>1
    <3> QED  BY <1>2, <2>1, <2>2, <3>1
  <2> QED  BY <2>1, <2>2
<1> DEFINE c == CHOOSE i \in DOMAIN l.unique : first(i)
<1>4. c \in DOMAIN l.unique /\ first(c)
  BY <1>3
<1>5. NextDep(l) = l.unique[c]
  BY DEF NextDep
<1> HIDE DEF c
<1>6. l.unique[c] \in Titles /\ l.unique[c] \in Range(l.unique)
  BY <1>4 DEF Range
<1> QED  BY <1>4, <1>5, <1>6

\* What a thread changes of its launch, and whether there is more to launch after it.
LEMMA SameLeft ==
  ASSUME NEW l, NEW k, k.unique = l.unique, k.procs = l.procs, k.tried = l.tried
  PROVE  /\ \A d : ToLaunch(k, d) <=> ToLaunch(l, d)
         /\ MoreDeps(k) <=> MoreDeps(l)
         /\ NextDep(k) = NextDep(l)
BY DEF ToLaunch, MoreDeps, NextDep

-----------------------------------------------------------------------------
\* Entries that are written stay entries, of the same titles.
Written(ps, qs) ==
  /\ DOMAIN qs = Slots
  /\ \A s \in Slots :
       /\ ps[s] = Null => qs[s] = Null
       /\ ps[s] # Null => qs[s] \in Entry /\ qs[s].title = ps[s].title /\ qs[s].isApp = ps[s].isApp

LEMMA EntriesWritten ==
  ASSUME LaunchConstantsOK, PointerInv, Written(entries, entries'),
         UNCHANGED <<freeList, kernelState, reused, runningApp, debugData>>,
         pmMonitor'.slot = pmMonitor.slot, MonitorHas'
  PROVE  /\ ListOK' /\ FreeIsUnused' /\ PointersValid'
         /\ \A k : HasEntries(k) => HasEntries(k)'
<1>1. Null \notin Slots /\ Null \notin Entry
  BY NullIsNone
<1>2. /\ Listed' = Listed
      /\ \A s \in Listed : s \in Slots /\ entries'[s] \in Entry /\ entries'[s].isApp = entries[s].isApp
      /\ \A s \in Slots : entries'[s] = Null <=> entries[s] = Null
  BY <1>1 DEF Written, Listed
<1>3. ListOK'
  BY <1>2 DEF PointerInv, ListOK, Written
<1>4. FreeIsUnused'
  BY DEF PointerInv, ListOK, FreeIsUnused, Written
<1>5. PointersValid'
  BY <1>1, <1>2 DEF PointerInv, ListOK, PointersValid, Listed
<1>6. \A k : HasEntries(k) => HasEntries(k)'
  BY <1>2 DEF HasEntries, Untouched
<1> QED  BY <1>3, <1>4, <1>5, <1>6

\* The same while the monitor stays where it is.
LEMMA WrittenMeanwhile ==
  ASSUME LaunchConstantsOK, PointerInv, Written(entries, entries'),
         UNCHANGED <<freeList, kernelState, reused, runningApp, debugData, pmMonitor>>
  PROVE  /\ ListOK' /\ FreeIsUnused' /\ MonitorHas' /\ PointersValid' /\ reused' = reused
         /\ \A k : HasEntries(k) => HasEntries(k)'
BY EntriesWritten DEF PointerInv, MonitorHas

\* One process is run or ends, and the pointers move.
LEMMA ProcessesMove ==
  ASSUME LaunchConstantsOK, PointerInv, UNCHANGED <<entries, freeList, reused, pmMonitor>>,
         kernelState' \in [Slots -> {"loaded", "running", "ended"}],
         runningApp' \in Slots \cup {Null}, debugData' \in Slots \cup {Null},
         NEW q, \A s \in Slots \ {q} : kernelState'[s] = kernelState[s],
         runningApp' \in {Null, runningApp, q}, debugData' \in {Null, debugData, q}
  PROVE  /\ ListOK' /\ FreeIsUnused' /\ MonitorHas' /\ reused \subseteq reused'
         /\ \A T : T \subseteq Threads /\ (q \in Slots \ reused' => \A u \in T : ~Has(launch[u], q)) =>
              \A u \in T : \A l : l = launch[u] => HasEntries(l)'
<1>1. Listed' = Listed
  BY DEF Listed
<1>2. ListOK' /\ FreeIsUnused' /\ MonitorHas'
  BY <1>1 DEF PointerInv, ListOK, FreeIsUnused, MonitorHas
<1>3. \A s \in Slots \ (reused' \cup {q}) : Untouched(s) => Untouched(s)' /\ entries'[s].isApp = entries[s].isApp
  BY <1>1, NullIsNone DEF Untouched
<1> QED  BY <1>2, <1>3, LaunchesKeep DEF PointerInv

\* The launch that a thread is at.
LEMMA LaunchIs ==
  ASSUME PointerInv, NEW t \in Threads
  PROVE  /\ LaunchOK(launch[t]) /\ LaunchData(launch[t]) /\ HasEntries(launch[t])
         /\ DOMAIN launch[t] = LaunchFields
BY DEF PointerInv, LaunchesOK, LaunchOK, LaunchData

-----------------------------------------------------------------------------
\* What the main thread is asked for.
LEMMA Begins ==
  ASSUME PointerInv, NEW l, Goes("main", l), LaunchOK(l),
         l.at \in {"found", "handOver", "check"}, UNCHANGED <<procVars, runningApp, debugData, pmMonitor>>
  PROVE  PointerInv'
BY HasNone, OnlyGoesOn DEF Threads

\* A launch that begins has no entry, but for one that was found.
BeginsWith(l, at, title, isApp, debug, slot) ==
  /\ DOMAIN l = LaunchFields /\ l.unique = NoLaunch.unique /\ l.remaining = NoLaunch.remaining
  /\ l.procs = NoLaunch.procs /\ l.sub = NoLaunch.sub
  /\ l.at = at /\ l.title = title /\ l.isApp = isApp /\ l.debug = debug /\ l.slot = slot

LEMMA BeginsOK ==
  ASSUME NEW at \in {"found", "handOver", "check"}, NEW title \in Titles, NEW isApp \in BOOLEAN, NEW debug \in BOOLEAN,
         NEW slot \in Slots \cup {Null}, IF at = "found" THEN slot \in Slots ELSE slot = Null,
         NEW l, BeginsWith(l, at, title, isApp, debug, slot)
  PROVE  LaunchOK(l) /\ l.at = at
BY NoLaunchOK DEF LaunchOK, LaunchData, BeginsWith, Merging

LEMMA LaunchTitlePoints ==
  ASSUME LaunchConstantsOK, PointerInv, NEW title \in Titles, NEW withDeps \in BOOLEAN, NEW queue \in Queue,
         LaunchTitle(title, withDeps, queue)
  PROVE  PointerInv'
<1>1. UNCHANGED <<procVars, runningApp, debugData, pmMonitor>>
  BY DEF LaunchTitle, appVars
<1>2. CASE UNCHANGED launch
  BY <1>1, <1>2, NothingChanges
<1>3. CASE ~UNCHANGED launch
  <2> DEFINE isApp == title \in AppTitles
             debug == queue \/ (debugNext /\ isApp)
             all == isApp \/ withDeps
  <2>1. PICK found : found = Find(title)
    OBVIOUS
  <2>2. PICK at : at = IF found # Null THEN "found" ELSE IF isApp /\ ~debug THEN "handOver" ELSE "check"
    OBVIOUS
  <2>3. found \in Slots \cup {Null} /\ at \in {"found", "handOver", "check"} /\ (IF at = "found" THEN found \in Slots ELSE found = Null)
    BY <2>1, <2>2 DEF Find, Listed
  <2>4. PICK l : l = [NoLaunch EXCEPT !.at = at, !.title = title, !.isApp = isApp, !.debug = debug,
                                      !.withDeps = all, !.slot = found]
    OBVIOUS
  <2>5. isApp \in BOOLEAN /\ debug \in BOOLEAN
    OBVIOUS
  <2>6. Goes("main", l)
    BY <1>3, <2>1, <2>2, <2>4 DEF LaunchTitle
  <2> HIDE DEF isApp, debug, all
  <2>7. BeginsWith(l, at, title, isApp, debug, found)
    BY <2>4 DEF NoLaunch, LaunchFields, BeginsWith
  <2> QED  BY <1>1, <2>3, <2>5, <2>6, <2>7, BeginsOK, Begins
<1> QED  BY <1>2, <1>3

LEMMA LaunchTitleUpdatePoints ==
  ASSUME LaunchConstantsOK, PointerInv, NEW title \in Titles, NEW queue \in Queue,
         LaunchTitleUpdate(title, queue)
  PROVE  PointerInv'
<1>1. UNCHANGED <<procVars, runningApp, debugData, pmMonitor>>
  BY DEF LaunchTitleUpdate, appVars
<1>2. CASE UNCHANGED launch
  BY <1>1, <1>2, NothingChanges
<1>3. CASE ~UNCHANGED launch
  <2> DEFINE debug == queue \/ debugNext
  <2>1. PICK at : at = IF debug THEN "check" ELSE "handOver"
    OBVIOUS
  <2>2. PICK l : l = [NoLaunch EXCEPT !.at = at, !.title = title, !.isApp = TRUE, !.debug = debug,
                                      !.withDeps = TRUE]
    OBVIOUS
  <2>3. Goes("main", l)
    BY <1>3, <2>1, <2>2 DEF LaunchTitleUpdate
  <2>4. debug \in BOOLEAN
    BY Zenon
  <2>5. at \in {"handOver", "check"}
    BY <2>1
  <2> HIDE DEF debug
  <2>6. BeginsWith(l, at, title, TRUE, debug, Null)
    BY <2>2 DEF NoLaunch, LaunchFields, BeginsWith
  <2>7. at \in {"found", "handOver", "check"} /\ at # "found"
    BY <2>5
  <2>8. LaunchOK(l) /\ l.at = at
    <3>1. l.debug \in BOOLEAN
      BY <2>4, <2>6, Zenon DEF BeginsWith
    <3>2. l.isApp \in BOOLEAN
      BY <2>6 DEF BeginsWith
    <3> QED  BY <2>6, <2>7, <3>1, <3>2, NoLaunchOK DEF LaunchOK, LaunchData, BeginsWith, Merging
  <2> QED  BY <1>1, <2>3, <2>7, <2>8, Begins
<1> QED  BY <1>2, <1>3

\* The queued process is run, or ended.  No launch has it, unless its entry was taken before.
LEMMA RunQueuedPoints ==
  ASSUME LaunchConstantsOK, PointerInv, RunQueued
  PROVE  PointerInv'
<1>1. /\ debugData \in Slots /\ debugData # Null
      /\ UNCHANGED <<entries, freeList, reused, launch, pmMonitor>>
  BY DEF RunQueued, PointerInv, ListOK
<1>2. CASE UNCHANGED <<kernelState, runningApp, debugData>>
  BY <1>1, <1>2, NothingChanges DEF procVars
<1>3. CASE ~UNCHANGED <<kernelState, runningApp, debugData>>
  <2>1. /\ debugData' = Null
        /\ \E k \in {"running", "ended"} : kernelState' = [kernelState EXCEPT ![debugData] = k]
        /\ \/ runningApp' = runningApp
           \/ runningApp' = debugData /\ entries[debugData] # Null /\ entries[debugData].isApp
    BY <1>1, <1>3 DEF RunQueued, Terminated
  <2>2. PICK k \in {"running", "ended"} : kernelState' = [kernelState EXCEPT ![debugData] = k]
    BY <2>1
  <2>3. /\ kernelState' \in [Slots -> {"loaded", "running", "ended"}] /\ kernelState'[debugData] = k
        /\ \A s \in Slots \ {debugData} : kernelState'[s] = kernelState[s]
    BY <1>1, <2>2 DEF PointerInv, ListOK
  <2>4. runningApp' \in Slots \cup {Null} /\ debugData' \in Slots \cup {Null}
        /\ runningApp' \in {Null, runningApp, debugData}
    BY <1>1, <2>1 DEF PointerInv, ListOK
  <2>5. PointersValid'
    BY <1>1, <2>1, <2>3 DEF PointerInv, ListOK, PointersValid
  <2>6. debugData \notin reused => \A u \in Threads : ~Has(launch[u], debugData)
    BY <1>1 DEF PointerInv, LaunchesOK, HasEntries, Untouched
  <2>7. /\ ListOK' /\ FreeIsUnused' /\ MonitorHas' /\ reused \subseteq reused'
        /\ \A u \in Threads : \A l : l = launch[u] => HasEntries(l)'
    BY <1>1, <2>1, <2>3, <2>4, <2>6, ProcessesMove
  <2> QED  BY <1>1, <2>5, <2>7, LaunchesStay DEF PointerInv
<1> QED  BY <1>2, <1>3

LEMMA LaunchAppDebugPoints ==
  ASSUME LaunchConstantsOK, PointerInv, NEW title \in Titles, NEW queue \in Queue,
         LaunchAppDebug(title, queue)
  PROVE  PointerInv'
<1>1. queue \in BOOLEAN
  BY DEF Queue
<1>2. CASE RunQueued
  BY <1>1, <1>2, RunQueuedPoints
<1>3. CASE ~RunQueued
  <2>1. UNCHANGED <<procVars, runningApp, debugData, pmMonitor>>
    BY <1>3 DEF LaunchAppDebug
  <2>2. CASE UNCHANGED launch
    BY <2>1, <2>2, NothingChanges
  <2>3. CASE ~UNCHANGED launch
    <3>1. PICK l : l = [NoLaunch EXCEPT !.at = "check", !.title = title, !.isApp = TRUE, !.debug = queue,
                                        !.withDeps = TRUE, !.restores = debugNext]
      OBVIOUS
    <3>2. Goes("main", l)
      BY <1>3, <2>3, <3>1 DEF LaunchAppDebug
    <3>3. BeginsWith(l, "check", title, TRUE, queue, Null)
      BY <3>1 DEF NoLaunch, LaunchFields, BeginsWith
    <3> QED  BY <1>1, <2>1, <3>2, <3>3, BeginsOK, Begins
  <2> QED  BY <2>2, <2>3
<1> QED  BY <1>2, <1>3

LEMMA LaunchTitleDebugPoints ==
  ASSUME LaunchConstantsOK, PointerInv, NEW title \in Titles, NEW queue \in Queue,
         LaunchTitleDebug(title, queue)
  PROVE  PointerInv'
<1>1. queue \in BOOLEAN
  BY DEF Queue
<1>2. CASE RunQueued
  BY <1>1, <1>2, RunQueuedPoints
<1>3. CASE ~RunQueued
  <2>1. UNCHANGED <<procVars, runningApp, debugData, pmMonitor>>
    BY <1>3 DEF LaunchTitleDebug, appVars
  <2>2. PICK withDeps \in BOOLEAN :
          Goes("main", [NoLaunch EXCEPT !.at = "check", !.title = title, !.debug = queue, !.withDeps = withDeps])
    BY <1>3 DEF LaunchTitleDebug
  <2>3. PICK l : l = [NoLaunch EXCEPT !.at = "check", !.title = title, !.debug = queue, !.withDeps = withDeps]
    OBVIOUS
  <2>4. Goes("main", l)
    BY <2>2, <2>3
  <2>5. BeginsWith(l, "check", title, FALSE, queue, Null)
    BY <2>3 DEF NoLaunch, LaunchFields, BeginsWith
  <2>6. LaunchOK(l) /\ l.at = "check"
    BY <1>1, <2>5, NoLaunchOK DEF LaunchOK, LaunchData, BeginsWith, Merging
  <2> QED  BY <1>1, <2>1, <2>4, <2>6, Begins
<1> QED  BY <1>2, <1>3

LEMMA RunQueuedProcessPoints ==
  ASSUME LaunchConstantsOK, PointerInv, RunQueuedProcess
  PROVE  PointerInv'
BY RunQueuedPoints DEF RunQueuedProcess

LEMMA DebugNextPoints ==
  ASSUME PointerInv, DebugNextApplicationByForce
  PROVE  PointerInv'
BY NothingChanges DEF DebugNextApplicationByForce

\* An entry of the same process is written over it.
LEMMA OneWritten ==
  ASSUME LaunchConstantsOK, NEW ps, DOMAIN ps = Slots, \A s \in Slots : ps[s] # Null => ps[s] \in Entry,
         NEW r \in Slots, NEW e, ps[r] # Null => e \in Entry /\ e.title = ps[r].title /\ e.isApp = ps[r].isApp
  PROVE  Written(ps, Write(ps, r, e))
BY DEF Written, Write

LEMMA EntriesAre ==
  ASSUME PointerInv
  PROVE  DOMAIN entries = Slots /\ \A s \in Slots : entries[s] # Null => entries[s] \in Entry
BY DEF PointerInv, ListOK, Listed

LEMMA NotAuto ==
  ASSUME NEW e \in Entry
  PROVE  LET f == [e EXCEPT !.auto = FALSE] IN
         f \in Entry /\ f.title = e.title /\ f.isApp = e.isApp
BY DEF Entry

LEMMA FoundPoints ==
  ASSUME LaunchConstantsOK, PointerInv, Found
  PROVE  PointerInv'
<1>1. PICK s : s = launch["main"].slot
  OBVIOUS
<1>2. PICK e : e = [entries[s] EXCEPT !.auto = FALSE]
  OBVIOUS
<1>3. /\ entries' = Write(entries, s, e) /\ Goes("main", NoLaunch)
      /\ UNCHANGED <<freeList, kernelState, reused, runningApp, debugData, pmMonitor>>
      /\ launch["main"].at = "found" /\ "main" \in Threads
  BY <1>1, <1>2 DEF Found, appVars, Threads
<1>4. s \in Slots
  BY <1>1, <1>3, LaunchIs DEF LaunchOK
<1>5. Written(entries, entries')
  BY <1>2, <1>3, <1>4, EntriesAre, OneWritten, NotAuto
<1> QED  BY <1>3, <1>5, WrittenMeanwhile, NoLaunchOK, HasNone, GoesOn

LEMMA HandOverPoints ==
  ASSUME LaunchConstantsOK, PointerInv, HandOver
  PROVE  PointerInv'
<1>1. PICK l : l = [launch["main"] EXCEPT !.at = "check"]
  OBVIOUS
<1>2. /\ launch["main"].at = "handOver" /\ launch' = [main |-> NoLaunch, task |-> l]
      /\ UNCHANGED <<procVars, runningApp, debugData, pmMonitor>> /\ "main" \in Threads
  BY <1>1 DEF HandOver, appVars, Threads
<1>3. DOMAIN launch' = Threads /\ launch'["main"] = NoLaunch /\ launch'["task"] = l
  BY <1>2 DEF Threads
<1>4. LaunchOK(launch["main"])
  BY <1>2, LaunchIs
<1>5. LaunchOK(l) /\ l.at = "check"
  BY <1>1, <1>2, <1>4 DEF LaunchOK, LaunchData, LaunchFields, Merging, Checked
<1>6. \A t \in Threads : LaunchOK(launch'[t]) /\ launch'[t].at \in {"idle", "check"}
  BY <1>3, <1>5, NoLaunchOK DEF Threads
<1>7. \A t \in Threads : HasEntries(launch[t])' /\ \A s : ~Has(launch'[t], s)
  BY <1>6 DEF HasEntries, Has, Merging
<1>8. LaunchesOK'
  BY <1>3, <1>6, <1>7 DEF LaunchesOK, LaunchOK, LaunchData, MoreDeps, ToLaunch, Has
<1> QED  BY <1>2, <1>8, ListStays DEF PointerInv

-----------------------------------------------------------------------------
\* A launch whose place changes, and what it may change besides.
LEMMA AtOther ==
  ASSUME NEW k, LaunchData(k), k.title \in Titles, NEW at \in {"check", "cleanup"} \cup Checked,
         at \in {"check", "load"} => k.slot = Null, at \in Merging => k.slot \in Slots,
         at \in {"runDep", "countDep"} => k.sub \in Slots /\ MoreDeps(k),
         NEW l, l = [k EXCEPT !.at = at]
  PROVE  /\ LaunchOK(l) /\ l.at = at /\ l.title = k.title /\ l.isApp = k.isApp /\ l.slot = k.slot /\ l.sub = k.sub
         /\ l.unique = k.unique /\ l.procs = k.procs /\ l.tried = k.tried
<1>1. /\ DOMAIN l = LaunchFields /\ l.at = at
      /\ l.title = k.title /\ l.isApp = k.isApp /\ l.debug = k.debug /\ l.slot = k.slot /\ l.sub = k.sub
      /\ l.unique = k.unique /\ l.procs = k.procs /\ l.tried = k.tried /\ l.remaining = k.remaining
  BY DEF LaunchData, LaunchFields
<1>2. MoreDeps(l) <=> MoreDeps(k)
  BY <1>1, SameLeft
<1>3. LaunchData(l)
  BY <1>1 DEF LaunchData
<1> QED  BY <1>1, <1>2, <1>3 DEF LaunchOK, Checked, Merging

LEMMA CheckPoints ==
  ASSUME LaunchConstantsOK, PointerInv, NEW t \in Threads, Check(t)
  PROVE  PointerInv'
<1>1. launch[t].at = "check" /\ UNCHANGED <<procVars, runningApp, debugData, pmMonitor>>
  BY DEF Check
<1>2. CASE Returns(t, FALSE)
  BY <1>1, <1>2, JustReturns
<1>3. CASE Goes(t, [launch[t] EXCEPT !.at = "load"])
  <2>1. PICK l : l = [launch[t] EXCEPT !.at = "load"]
    OBVIOUS
  <2>2. LaunchOK(l) /\ l.at = "load"
    BY <1>1, <2>1, LaunchIs, AtOther DEF Checked, LaunchOK, Merging
  <2>3. HasEntries(l) /\ \A s : ~Has(l, s)
    BY <2>2, HasNone
  <2> QED  BY <1>1, <1>3, <2>1, <2>2, <2>3, OnlyGoesOn
<1> QED  BY <1>2, <1>3 DEF Check

LEMMA RegisterFailsPoints ==
  ASSUME LaunchConstantsOK, PointerInv, NEW t \in Threads, RegisterFails(t)
  PROVE  PointerInv'
BY JustReturns DEF RegisterFails

\* The entry of the title, or of a dependency, is made.
LEMMA LoadPoints ==
  ASSUME LaunchConstantsOK, PointerInv, NEW t \in Threads, Load(t)
  PROVE  PointerInv'
<1>1. PICK at : at = IF launch[t].withDeps THEN "merge" ELSE "run"
  OBVIOUS
<1>2. PICK h : h = Head(freeList)
  OBVIOUS
<1>3. PICK l : l = [launch[t] EXCEPT !.at = at, !.slot = h]
  OBVIOUS
<1>4. /\ launch[t].at = "load" /\ NewEntry(launch[t].title, launch[t].isApp) /\ Goes(t, l)
      /\ kernelState' = [kernelState EXCEPT ![Head(freeList)] = "loaded"]
      /\ UNCHANGED <<runningApp, debugData, pmMonitor>>
  BY <1>1, <1>2, <1>3 DEF Load, appVars
<1>5. LaunchData(launch[t]) /\ launch[t].title \in Titles /\ launch[t].isApp \in BOOLEAN
  BY <1>4, LaunchIs DEF LaunchOK, LaunchData
<1>6. /\ ListOK' /\ FreeIsUnused' /\ MonitorHas' /\ PointersValid' /\ reused \subseteq reused'
      /\ h \in Slots /\ entries'[h] # Null /\ kernelState'[h] = "loaded" /\ entries'[h].isApp = launch[t].isApp
      /\ h \notin reused' => h \notin {runningApp, debugData} /\ \A u \in Threads : ~Has(launch[u], h)
      /\ \A u \in Threads : \A k : k = launch[u] => HasEntries(k)'
  BY <1>2, <1>4, <1>5, EntryMade
<1>7. at \in {"merge", "run"}
  BY <1>1
<1>8. LaunchOK(l) /\ l.at = at /\ l.slot = h /\ l.isApp = launch[t].isApp
  BY <1>3, <1>5, <1>6, <1>7 DEF LaunchOK, LaunchData, LaunchFields, Checked, Merging
<1>9. \A s : Has(l, s) => s = h
  BY <1>7, <1>8 DEF Has
<1>10. HasEntries(l)'
  BY <1>4, <1>6, <1>7, <1>8, <1>9 DEF HasEntries, Untouched, Listed
<1> QED  BY <1>4, <1>6, <1>8, <1>9, <1>10, GoesOnWith

LEMMA LoadingFailsPoints ==
  ASSUME LaunchConstantsOK, PointerInv, NEW t \in Threads, LoadingFails(t)
  PROVE  PointerInv'
<1>1. launch[t].at = "load" /\ UNCHANGED <<runningApp, debugData, pmMonitor>>
  BY DEF LoadingFails, appVars
<1>2. /\ LaunchData(launch[t]) /\ launch[t].title \in Titles /\ launch[t].isApp \in BOOLEAN
      /\ launch[t].slot = Null
  BY <1>1, LaunchIs DEF LaunchOK, LaunchData
<1>3. CASE Goes(t, [launch[t] EXCEPT !.at = "cleanup"]) /\ UNCHANGED procVars
  <2>1. PICK l : l = [launch[t] EXCEPT !.at = "cleanup"]
    OBVIOUS
  <2>2. LaunchOK(l) /\ l.at = "cleanup" /\ l.slot = Null
    BY <1>2, <2>1, AtOther DEF Merging
  <2>3. HasEntries(l) /\ \A s \in Slots : ~Has(l, s)
    BY <2>2, NullIsNone DEF HasEntries, Has, Merging
  <2>4. \A u \in Threads : \A k : k = launch[u] => HasEntries(k)'
    BY <1>1, <1>3, ListStays DEF PointerInv, LaunchesOK
  <2>5. /\ HasEntries(l)' /\ reused' = reused
        /\ ListOK' /\ FreeIsUnused' /\ MonitorHas' /\ PointersValid'
    BY <1>1, <1>3, <2>3, ListStays
  <2> QED  BY <1>3, <2>1, <2>2, <2>3, <2>4, <2>5, LaunchMoves DEF PointerInv
<1>4. ASSUME NEW flagged \in {FALSE, launch[t].isApp}, NewEntry(launch[t].title, flagged),
             kernelState' = [kernelState EXCEPT ![Head(freeList)] = "loaded"],
             Goes(t, [launch[t] EXCEPT !.at = "cleanup", !.slot = Head(freeList)])
      PROVE  PointerInv'
  <2>1. PICK h : h = Head(freeList)
    OBVIOUS
  <2>2. PICK l : l = [launch[t] EXCEPT !.at = "cleanup", !.slot = h]
    OBVIOUS
  <2>3. flagged \in BOOLEAN
    BY <1>2
  <2>4. /\ ListOK' /\ FreeIsUnused' /\ MonitorHas' /\ PointersValid' /\ reused \subseteq reused'
        /\ h \in Slots /\ entries'[h] # Null /\ kernelState'[h] = "loaded"
        /\ h \notin reused' => h \notin {runningApp, debugData} /\ \A u \in Threads : ~Has(launch[u], h)
        /\ \A u \in Threads : \A k : k = launch[u] => HasEntries(k)'
    BY <1>1, <1>2, <1>4, <2>1, <2>3, EntryMade
  <2>5. LaunchOK(l) /\ l.at = "cleanup" /\ l.slot = h
    BY <1>2, <2>2, <2>4 DEF LaunchOK, LaunchData, LaunchFields, Merging
  <2>6. \A s : Has(l, s) => s = h
    BY <2>5 DEF Has
  <2>7. HasEntries(l)'
    BY <1>1, <2>4, <2>5, <2>6 DEF HasEntries, Untouched, Listed, Merging
  <2> QED  BY <1>1, <1>4, <2>1, <2>2, <2>4, <2>5, <2>6, <2>7, GoesOnWith
<1> QED  BY <1>3, <1>4 DEF LoadingFails

-----------------------------------------------------------------------------
LEMMA IncrefIs ==
  ASSUME NEW e \in Entry
  PROVE  LET f == Incref(e, 1) IN
         /\ f \in Entry /\ f.title = e.title /\ f.isApp = e.isApp 
<1>1. CASE e.auto
  <2>1. e.refcount \in Int
    BY DEF Entry
  <2>2. PICK n : n = e.refcount + 1
    OBVIOUS
  <2>3. n \in Int
    BY <2>1, <2>2
  <2>4. LET f == [e EXCEPT !.refcount = n] IN
        /\ f \in Entry /\ f.title = e.title /\ f.isApp = e.isApp
    BY <2>3 DEF Entry
  <2>5. Incref(e, 1) = [e EXCEPT !.refcount = n]
    BY <1>1, <2>2 DEF Incref
  <2> QED  BY <1>1, <2>2, <2>4, <2>5
<1>2. CASE ~e.auto
  BY <1>2 DEF Incref
<1> QED  BY <1>1, <1>2

\* What merging dependencies does to the entries and to the launch.
LEMMA MergedIs ==
  ASSUME LaunchConstantsOK, NEW ps, DOMAIN ps = Slots, \A s \in Slots : ps[s] # Null => ps[s] \in Entry,
         NEW l, LaunchData(l), NEW ds \in Seq(Titles), NEW m, m = Merged(ps, l, ds)
  PROVE  LET k == m.launch IN
         /\ Written(ps, m.procs)
         /\ LaunchData(k) /\ k.at = l.at /\ k.title = l.title /\ k.slot = l.slot /\ k.isApp = l.isApp
         /\ k.unique = l.unique \o ds /\ k.tried = l.tried
<1> DEFINE new == Range(ds) \ Range(l.unique)
           procs == [d \in Titles |-> IF d \in new THEN Find(d) ELSE l.procs[d]]
           more == [d \in Titles |-> l.remaining[d] + IF d \in Range(ds) /\ procs[d] = Null THEN 1 ELSE 0]
           counted(s) == \E d \in Range(ds) : procs[d] = s
<1>1. /\ m.procs = [s \in Slots |-> IF ps[s] # Null /\ counted(s) THEN Incref(ps[s], 1) ELSE ps[s]]
      /\ m.launch = [l EXCEPT !.unique = l.unique \o ds, !.procs = procs, !.remaining = more]
  BY DEF Merged
<1>2. more \in [Titles -> Int] /\ DOMAIN procs = Titles
  BY DEF LaunchData
<1> HIDE DEF new, procs, more, counted
<1>3. \A s \in Slots : ps[s] # Null =>
        /\ ps[s] \in Entry /\ Incref(ps[s], 1) \in Entry /\ Incref(ps[s], 1).title = ps[s].title
        /\ Incref(ps[s], 1).isApp = ps[s].isApp
  BY IncrefIs
<1>4. Written(ps, m.procs)
  BY <1>1, <1>3 DEF Written
<1>5. l.unique \o ds \in Seq(Titles)
  BY DEF LaunchData
<1>6. LET k == m.launch IN
      /\ DOMAIN k = LaunchFields /\ k.at = l.at /\ k.title = l.title /\ k.slot = l.slot /\ k.sub = l.sub
      /\ k.isApp = l.isApp /\ k.debug = l.debug /\ k.unique = l.unique \o ds /\ k.tried = l.tried
      /\ k.procs = procs /\ k.remaining = more
  BY <1>1 DEF LaunchData, LaunchFields
<1>7. LaunchData(m.launch)
  BY <1>2, <1>5, <1>6 DEF LaunchData
<1> QED  BY <1>4, <1>6, <1>7

LEMMA WrittenTwice ==
  ASSUME LaunchConstantsOK, NEW ps, NEW qs, NEW rs, Written(ps, qs), Written(qs, rs)
  PROVE  Written(ps, rs)
BY NullIsNone DEF Written

LEMMA DepsFlagged ==
  ASSUME NEW e \in Entry, NEW more \in BOOLEAN
  PROVE  LET f == [e EXCEPT !.deps = @ \/ more] IN
         f \in Entry /\ f.title = e.title /\ f.isApp = e.isApp
<1>1. (e.deps \/ more) \in BOOLEAN
  OBVIOUS
<1>2. PICK b : b = (e.deps \/ more)
  OBVIOUS
<1>3. b \in BOOLEAN
  BY <1>1, <1>2
<1>4. LET f == [e EXCEPT !.deps = b] IN
      f \in Entry /\ f.title = e.title /\ f.isApp = e.isApp
  BY <1>3 DEF Entry
<1> QED  BY <1>2, <1>4

LEMMA DepsOfTitles ==
  ASSUME LaunchConstantsOK, NEW title \in Titles
  PROVE  Deps[title] \in Seq(Titles)
<1>1. Deps[title] \in Seq(Titles \ {title})
  BY DEF LaunchConstantsOK
<1> QED  BY <1>1

\* What a merge does, its parts named.
MergesTo(t, m, s, more, e, l) ==
  /\ m = Merged(entries, launch[t], Deps[launch[t].title])
  /\ s = launch[t].slot /\ more = (Deps[launch[t].title] # <<>>)
  /\ e = [m.procs[s] EXCEPT !.deps = @ \/ more]
  /\ l = [m.launch EXCEPT !.at = "deps"]
  /\ launch[t].at = "merge" /\ entries' = Write(m.procs, s, e) /\ Goes(t, l)
  /\ UNCHANGED <<freeList, kernelState, reused, runningApp, debugData, pmMonitor>>

LEMMA MergeIs ==
  ASSUME NEW t \in Threads, Merge(t)
  PROVE  \E m, s, more, e, l : MergesTo(t, m, s, more, e, l)
<1>1. PICK m : m = Merged(entries, launch[t], Deps[launch[t].title])
  OBVIOUS
<1>2. PICK s, more : s = launch[t].slot /\ more = (Deps[launch[t].title] # <<>>)
  OBVIOUS
<1>3. PICK e : e = [m.procs[s] EXCEPT !.deps = @ \/ more]
  OBVIOUS
<1>4. PICK l : l = [m.launch EXCEPT !.at = "deps"]
  OBVIOUS
<1>5. /\ launch[t].at = "merge" /\ entries' = Write(m.procs, s, e) /\ Goes(t, l)
      /\ UNCHANGED <<freeList, kernelState, reused, runningApp, debugData, pmMonitor>>
  <2> DEFINE u == launch[t]
             n == Merged(entries, u, Deps[u.title])
  <2>1. /\ u.at = "merge" /\ entries' = Write(n.procs, u.slot, [n.procs[u.slot] EXCEPT !.deps = @ \/ Deps[u.title] # <<>>])
        /\ Goes(t, [n.launch EXCEPT !.at = "deps"])
        /\ UNCHANGED <<freeList, kernelState, reused, runningApp, debugData, pmMonitor>>
    BY DEF Merge, appVars
  <2>2. n = m /\ u.slot = s /\ more = (Deps[u.title] # <<>>)
    BY <1>1, <1>2
  <2>3. u = launch[t]
    OBVIOUS
  <2> HIDE DEF u, n
  <2>4. [n.launch EXCEPT !.at = "deps"] = l
    BY <1>4, <2>2, Zenon
  <2>5. [n.procs[u.slot] EXCEPT !.deps = @ \/ Deps[u.title] # <<>>] = e
    BY <1>3, <2>2, Zenon
  <2> QED  BY <2>1, <2>2, <2>3, <2>4, <2>5
<1>6. MergesTo(t, m, s, more, e, l)
  BY <1>1, <1>2, <1>3, <1>4, <1>5, Zenon DEF MergesTo
<1> QED  BY <1>6

LEMMA MergePoints ==
  ASSUME LaunchConstantsOK, PointerInv, NEW t \in Threads, Merge(t)
  PROVE  PointerInv'
<1>0. PICK m, s, more, e, l : MergesTo(t, m, s, more, e, l)
  BY MergeIs, Zenon
<1>1. m = Merged(entries, launch[t], Deps[launch[t].title])
  BY <1>0, Zenon DEF MergesTo
<1>2. s = launch[t].slot /\ more = (Deps[launch[t].title] # <<>>)
  BY <1>0, Zenon DEF MergesTo
<1>3. e = [m.procs[s] EXCEPT !.deps = @ \/ more]
  BY <1>0, Zenon DEF MergesTo
<1>4. l = [m.launch EXCEPT !.at = "deps"]
  BY <1>0, Zenon DEF MergesTo
<1>5. /\ launch[t].at = "merge" /\ entries' = Write(m.procs, s, e) /\ Goes(t, l)
      /\ UNCHANGED <<freeList, kernelState, reused, runningApp, debugData, pmMonitor>>
  BY <1>0, Zenon DEF MergesTo
<1>6. LaunchData(launch[t]) /\ launch[t].title \in Titles /\ s \in Slots
  BY <1>2, <1>5, LaunchIs DEF LaunchOK, Merging
<1>7. LET k == m.launch IN
      /\ Written(entries, m.procs)
      /\ LaunchData(k) /\ k.at = "merge" /\ k.title = launch[t].title /\ k.slot = s /\ k.isApp = launch[t].isApp
  <2>1. Deps[launch[t].title] \in Seq(Titles)
    BY <1>6, DepsOfTitles
  <2> QED  BY <1>1, <1>2, <1>5, <1>6, <2>1, MergedIs, EntriesAre
<1>8. DOMAIN m.procs = Slots /\ \A r \in Slots : m.procs[r] # Null => m.procs[r] \in Entry
  BY <1>7 DEF Written
<1>9. m.procs[s] # Null => e \in Entry /\ e.title = m.procs[s].title /\ e.isApp = m.procs[s].isApp
  <2>1. more \in BOOLEAN
    BY <1>2
  <2> QED  BY <1>3, <1>6, <1>8, <2>1, DepsFlagged
<1>10. Written(entries, entries')
  <2>1. Written(m.procs, entries')
    BY <1>5, <1>6, <1>8, <1>9, OneWritten
  <2> QED  BY <1>7, <2>1, WrittenTwice
<1>11. LaunchOK(l) /\ l.at = "deps" /\ l.slot = s /\ l.isApp = launch[t].isApp
  BY <1>4, <1>6, <1>7, AtOther DEF Checked, Merging
<1>12. \A r : Has(l, r) <=> Has(launch[t], r)
  BY <1>2, <1>5, <1>11 DEF Has, Merging
<1>13. HasEntries(l)
  BY <1>2, <1>5, <1>11, <1>12, LaunchIs DEF HasEntries, Merging
<1> QED  BY <1>5, <1>10, <1>11, <1>12, <1>13, WrittenMeanwhile, GoesOn

\* The loop over the dependencies.
LEMMA AtDeps ==
  ASSUME PointerInv, NEW t \in Threads, launch[t].at = "deps"
  PROVE  /\ LaunchData(launch[t]) /\ launch[t].title \in Titles /\ launch[t].unique \in Seq(Titles)
         /\ launch[t].slot \in Slots /\ HasEntries(launch[t])
         /\ \A s : Has(launch[t], s) <=> s = launch[t].slot
BY LaunchIs DEF LaunchOK, LaunchData, Has, Merging

\* It goes on to where it has the same entry.
LEMMA SameEntry ==
  ASSUME PointerInv, NEW t \in Threads, launch[t].at = "deps", NEW l, l.at \in {"deps", "run", "cleanup"},
         l.slot = launch[t].slot, l.isApp = launch[t].isApp
  PROVE  HasEntries(l) /\ \A s : Has(l, s) => Has(launch[t], s)
<1>1. \A s : Has(l, s) => s = launch[t].slot
  BY DEF Has
<1> QED  BY <1>1, AtDeps DEF HasEntries, Merging

LEMMA LoadDepPoints ==
  ASSUME LaunchConstantsOK, PointerInv, NEW t \in Threads, LoadDep(t)
  PROVE  PointerInv'
<1>1. PICK h : h = Head(freeList)
  OBVIOUS
<1>2. PICK d : d = NextDep(launch[t])
  OBVIOUS
<1>3. PICK l : l = [launch[t] EXCEPT !.at = "runDep", !.sub = h]
  OBVIOUS
<1>4. /\ launch[t].at = "deps" /\ MoreDeps(launch[t]) /\ NewEntry(d, FALSE) /\ Goes(t, l)
      /\ kernelState' = [kernelState EXCEPT ![Head(freeList)] = "loaded"]
      /\ UNCHANGED <<runningApp, debugData, pmMonitor>>
  BY <1>1, <1>2, <1>3 DEF LoadDep, appVars
<1>5. d \in Titles
  BY <1>2, <1>4, AtDeps, NextDepIsLeft
<1>6. /\ ListOK' /\ FreeIsUnused' /\ MonitorHas' /\ PointersValid' /\ reused \subseteq reused'
      /\ h \in Slots /\ entries'[h] # Null /\ kernelState'[h] = "loaded"
      /\ h \notin reused' => h \notin {runningApp, debugData} /\ \A u \in Threads : ~Has(launch[u], h)
      /\ \A u \in Threads : \A k : k = launch[u] => HasEntries(k)'
  BY <1>1, <1>4, <1>5, EntryMade
<1>7. LaunchData(launch[t]) /\ launch[t].title \in Titles /\ launch[t].slot \in Slots
  BY <1>4, AtDeps
<1>8. /\ DOMAIN l = LaunchFields /\ l.at = "runDep" /\ l.sub = h /\ l.slot = launch[t].slot /\ l.isApp = launch[t].isApp
      /\ l.title = launch[t].title /\ l.debug = launch[t].debug /\ l.unique = launch[t].unique
      /\ l.procs = launch[t].procs /\ l.tried = launch[t].tried /\ l.remaining = launch[t].remaining
  BY <1>3, <1>7 DEF LaunchData, LaunchFields
<1>9. LaunchOK(l)
  <2>1. MoreDeps(l)
    BY <1>4, <1>8, SameLeft
  <2> QED  BY <1>6, <1>7, <1>8, <2>1 DEF LaunchOK, LaunchData, Checked, Merging
<1>10. \A s : Has(l, s) <=> Has(launch[t], s) \/ s = h
  BY <1>4, <1>8, AtDeps DEF Has, Merging
<1>11. HasEntries(l)'
  <2>1. PICK k : k = launch[t]
    OBVIOUS
  <2>2. HasEntries(k)' /\ k.at = "deps"
    BY <1>4, <1>6, <2>1
  <2>3. h \notin reused' => ~Has(k, h) /\ Has(k, l.slot)
    BY <1>4, <1>6, <1>8, <2>1, AtDeps
  <2>4. Untouched(h)' \/ h \in reused'
    BY <1>4, <1>6 DEF Untouched, Listed
  <2> QED  BY <1>8, <1>10, <2>1, <2>2, <2>3, <2>4 DEF HasEntries, Merging
<1> QED  BY <1>4, <1>6, <1>9, <1>10, <1>11, GoesOnWith

LEMMA OkIs ==
  ASSUME NEW l, LaunchData(l), NEW ok, NEW k, k = [l EXCEPT !.ok = ok]
  PROVE  LaunchData(k) /\ k.at = l.at /\ k.title = l.title /\ k.slot = l.slot /\ k.isApp = l.isApp
<1>1. /\ DOMAIN k = LaunchFields /\ k.at = l.at /\ k.title = l.title /\ k.slot = l.slot /\ k.sub = l.sub
      /\ k.isApp = l.isApp /\ k.debug = l.debug /\ k.unique = l.unique /\ k.procs = l.procs
      /\ k.remaining = l.remaining
  BY DEF LaunchData, LaunchFields
<1> QED  BY <1>1 DEF LaunchData

LEMMA PastIs ==
  ASSUME NEW l, LaunchData(l), NEW d, NEW k, k = Past(l, d)
  PROVE  LaunchData(k) /\ k.at = l.at /\ k.title = l.title /\ k.slot = l.slot /\ k.isApp = l.isApp
<1>1. /\ DOMAIN k = LaunchFields /\ k.at = l.at /\ k.title = l.title /\ k.slot = l.slot /\ k.sub = l.sub
      /\ k.isApp = l.isApp /\ k.debug = l.debug /\ k.unique = l.unique /\ k.procs = l.procs
      /\ k.remaining = l.remaining
  BY DEF LaunchData, LaunchFields, Past
<1> QED  BY <1>1 DEF LaunchData

\* A dependency is passed over.
LEMMA PassesOver ==
  ASSUME LaunchConstantsOK, PointerInv, NEW t \in Threads, launch[t].at = "deps", NEW d,
         Goes(t, [Past(launch[t], d) EXCEPT !.ok = FALSE]),
         UNCHANGED <<procVars, runningApp, debugData, pmMonitor>>
  PROVE  PointerInv'
<1>1. PICK l : l = [Past(launch[t], d) EXCEPT !.ok = FALSE]
  OBVIOUS
<1>2. LaunchData(l) /\ l.at = "deps" /\ l.title \in Titles /\ l.slot = launch[t].slot /\ l.isApp = launch[t].isApp
  <2>1. PICK p : p = Past(launch[t], d)
    OBVIOUS
  <2>2. LaunchData(p) /\ p.at = "deps" /\ p.title \in Titles /\ p.slot = launch[t].slot /\ p.isApp = launch[t].isApp
    BY <2>1, AtDeps, PastIs
  <2> QED  BY <1>1, <2>1, <2>2, OkIs
<1>3. LaunchOK(l)
  BY <1>2, AtDeps DEF LaunchOK, Checked, Merging
<1>4. HasEntries(l) /\ \A s : Has(l, s) => Has(launch[t], s)
  BY <1>2, SameEntry
<1> QED  BY <1>1, <1>3, <1>4, OnlyGoesOn

LEMMA RegisterDepFailsPoints ==
  ASSUME LaunchConstantsOK, PointerInv, NEW t \in Threads, RegisterDepFails(t)
  PROVE  PointerInv'
BY PassesOver DEF RegisterDepFails, appVars

LEMMA LoadDepFailsPoints ==
  ASSUME LaunchConstantsOK, PointerInv, NEW t \in Threads, LoadDepFails(t)
  PROVE  PointerInv'
<1>1. launch[t].at = "deps" /\ MoreDeps(launch[t]) /\ UNCHANGED <<runningApp, debugData, pmMonitor>>
  BY DEF LoadDepFails, appVars
<1>2. CASE Goes(t, [Past(launch[t], NextDep(launch[t])) EXCEPT !.ok = FALSE]) /\ UNCHANGED procVars
  BY <1>1, <1>2, PassesOver
<1>3. CASE /\ NewEntry(NextDep(launch[t]), FALSE) /\ kernelState' = [kernelState EXCEPT ![Head(freeList)] = "ended"]
           /\ Goes(t, [launch[t] EXCEPT !.at = "cleanup"])
  <2>1. PICK d, h : d = NextDep(launch[t]) /\ h = Head(freeList)
    OBVIOUS
  <2>2. PICK l : l = [launch[t] EXCEPT !.at = "cleanup"]
    OBVIOUS
  <2>3. d \in Titles
    BY <1>1, <2>1, AtDeps, NextDepIsLeft
  <2>4. /\ ListOK' /\ FreeIsUnused' /\ MonitorHas' /\ PointersValid' /\ reused \subseteq reused'
        /\ h \notin reused' => \A u \in Threads : ~Has(launch[u], h)
        /\ \A u \in Threads : \A k : k = launch[u] => HasEntries(k)'
    BY <1>1, <1>3, <2>1, <2>3, EntryMade
  <2>5. LaunchOK(l) /\ l.at = "cleanup" /\ l.slot = launch[t].slot /\ l.isApp = launch[t].isApp
    BY <1>1, <2>2, AtDeps, LaunchIs, AtOther DEF Merging, Checked
  <2>6. \A s : Has(l, s) => Has(launch[t], s)
    BY <1>1, <2>5, SameEntry
  <2>7. HasEntries(l)'
    <3>1. PICK k : k = launch[t]
      OBVIOUS
    <3>2. HasEntries(k)'
      BY <2>4, <3>1
    <3> QED  BY <2>5, <2>6, <3>1, <3>2 DEF HasEntries, Merging
  <2> QED  BY <1>3, <2>2, <2>4, <2>5, <2>6, <2>7, GoesOnWith
<1> QED  BY <1>2, <1>3 DEF LoadDepFails

\* A process that a launch has is run or ended by it, and the launch goes on without it.
LEMMA OwnMoves ==
  ASSUME LaunchConstantsOK, PointerInv, NEW t \in Threads, NEW q, q \in Slots \ reused => Has(launch[t], q),
         UNCHANGED <<entries, freeList, reused, pmMonitor>>,
         kernelState' \in [Slots -> {"loaded", "running", "ended"}],
         \A s \in Slots \ {q} : kernelState'[s] = kernelState[s],
         runningApp' \in Slots \cup {Null}, debugData' \in Slots \cup {Null},
         runningApp' \in {Null, runningApp, q}, debugData' \in {Null, debugData, q}, PointersValid',
         NEW l, Goes(t, l), LaunchOK(l), HasEntries(l)', \A s \in Slots \ reused : Has(l, s) => Has(launch[t], s)
  PROVE  PointerInv'
<1>1. q \in Slots \ reused' => \A u \in Threads \ {t} : ~Has(launch[u], q)
  BY DEF PointerInv, LaunchesOK
<1>2. /\ ListOK' /\ FreeIsUnused' /\ MonitorHas' /\ reused \subseteq reused'
      /\ \A T : T \subseteq Threads /\ (q \in Slots \ reused' => \A u \in T : ~Has(launch[u], q)) =>
           \A u \in T : \A k : k = launch[u] => HasEntries(k)'
  BY ProcessesMove
<1>3. \A u \in Threads \ {t} : \A k : k = launch[u] => HasEntries(k)'
  BY <1>1, <1>2
<1>4. \A s \in Slots \ reused' : Has(l, s) => \A u \in Threads \ {t} : ~Has(launch[u], s)
  BY DEF PointerInv, LaunchesOK
<1> QED  BY <1>2, <1>3, <1>4, LaunchMoves DEF PointerInv

\* No pointer leads to the process of a dependency.
LEMMA RunDepPoints ==
  ASSUME LaunchConstantsOK, PointerInv, NEW t \in Threads, RunDep(t)
  PROVE  PointerInv'
<1>1. launch[t].at = "runDep" /\ UNCHANGED <<entries, freeList, reused, runningApp, debugData, pmMonitor>>
  BY DEF RunDep, appVars
<1>2. PICK q : q = launch[t].sub
  OBVIOUS
<1>3. /\ LaunchData(launch[t]) /\ launch[t].title \in Titles /\ MoreDeps(launch[t]) /\ HasEntries(launch[t])
      /\ launch[t].slot \in Slots /\ q \in Slots /\ q # Null /\ Has(launch[t], q) /\ Has(launch[t], launch[t].slot)
  BY <1>1, <1>2, LaunchIs, NullIsNone DEF LaunchOK, Merging, Has
<1>4. PICK k \in {"running", "ended"}, at \in {"countDep", "cleanup"} :
        kernelState' = [kernelState EXCEPT ![q] = k] /\ Goes(t, [launch[t] EXCEPT !.at = at])
  BY <1>2, <1>3 DEF RunDep, Terminated
<1>5. /\ kernelState' \in [Slots -> {"loaded", "running", "ended"}] /\ kernelState'[q] = k
      /\ \A s \in Slots \ {q} : kernelState'[s] = kernelState[s]
  BY <1>3, <1>4 DEF PointerInv, ListOK
<1>6. q \notin reused => q \in Listed \ {runningApp, debugData} /\ q # launch[t].slot
  BY <1>1, <1>2, <1>3 DEF HasEntries, Untouched
<1>7. PointersValid'
  BY <1>1, <1>5, <1>6 DEF PointerInv, ListOK, PointersValid
<1>8. PICK l : l = [launch[t] EXCEPT !.at = at]
  OBVIOUS
<1>9. LaunchOK(l) /\ l.at = at /\ l.slot = launch[t].slot /\ l.isApp = launch[t].isApp
  BY <1>2, <1>3, <1>8, AtOther DEF Checked, Merging
<1>10. \A s : Has(l, s) <=> s = launch[t].slot
  BY <1>4, <1>9 DEF Has, Merging
<1>11. HasEntries(l)'
  <2>1. ASSUME launch[t].slot \notin reused PROVE Untouched(launch[t].slot) /\ entries[launch[t].slot].isApp = launch[t].isApp
    BY <1>1, <1>3, <2>1 DEF HasEntries, Merging
  <2>2. ASSUME NEW s \in Slots \ reused, s = launch[t].slot PROVE Untouched(s)' /\ entries'[s].isApp = l.isApp
    BY <1>1, <1>5, <1>6, <1>9, <2>1, <2>2 DEF Untouched, Listed
  <2> QED  BY <1>1, <1>4, <1>9, <1>10, <2>2 DEF HasEntries
<1>12. runningApp' \in Slots \cup {Null} /\ debugData' \in Slots \cup {Null}
  BY <1>1 DEF PointerInv, ListOK
<1> QED  BY <1>1, <1>3, <1>4, <1>5, <1>7, <1>8, <1>9, <1>10, <1>11, <1>12, OwnMoves

LEMMA DepsDonePoints ==
  ASSUME LaunchConstantsOK, PointerInv, NEW t \in Threads, DepsDone(t)
  PROVE  PointerInv'
<1>1. PICK at : at = IF launch[t].ok THEN "run" ELSE "cleanup"
  OBVIOUS
<1>2. PICK l : l = [launch[t] EXCEPT !.at = at]
  OBVIOUS
<1>3. launch[t].at = "deps" /\ Goes(t, l) /\ UNCHANGED <<procVars, runningApp, debugData, pmMonitor>>
  BY <1>1, <1>2 DEF DepsDone, appVars
<1>4. at \in {"run", "cleanup"}
  BY <1>1
<1>5. LaunchOK(l) /\ l.at = at /\ l.slot = launch[t].slot /\ l.isApp = launch[t].isApp
  BY <1>2, <1>3, <1>4, AtDeps, AtOther DEF Checked, Merging
<1> QED  BY <1>3, <1>4, <1>5, SameEntry, OnlyGoesOn

LEMMA FlaggedIs ==
  ASSUME NEW e \in Entry, NEW n \in Int, NEW f, f = [e EXCEPT !.auto = TRUE, !.deps = TRUE, !.refcount = @ + n - 1]
  PROVE  f \in Entry /\ f.title = e.title /\ f.isApp = e.isApp
<1>1. e.refcount \in Int
  BY DEF Entry
<1>2. PICK r : r = e.refcount + n - 1
  OBVIOUS
<1>3. r \in Int
  BY <1>1, <1>2
<1>4. LET g == [e EXCEPT !.auto = TRUE, !.deps = TRUE, !.refcount = r] IN
      g \in Entry /\ g.title = e.title /\ g.isApp = e.isApp
  BY <1>3 DEF Entry
<1> QED  BY <1>2, <1>4

\* Who is launched first is looked up, and what it still needs is set.
WithEntry(l, d, s) == [l EXCEPT !.procs[d] = s, !.remaining[d] = 0]

LEMMA MadeEntry ==
  ASSUME NEW l, LaunchData(l), NEW d \in Titles, NEW s, NEW k, k = WithEntry(l, d, s)
  PROVE  /\ LaunchData(k) /\ k.at = l.at /\ k.title = l.title /\ k.slot = l.slot /\ k.isApp = l.isApp
         /\ k.unique = l.unique /\ k.tried = l.tried
<1>1. PICK procs, remaining : procs = [l.procs EXCEPT ![d] = s] /\ remaining = [l.remaining EXCEPT ![d] = 0]
  OBVIOUS
<1>2. k = [l EXCEPT !.procs = procs, !.remaining = remaining]
  BY <1>1 DEF WithEntry
<1>3. remaining \in [Titles -> Int] /\ DOMAIN procs = Titles
  BY <1>1 DEF LaunchData
<1>4. /\ DOMAIN k = LaunchFields /\ k.at = l.at /\ k.title = l.title /\ k.slot = l.slot /\ k.sub = l.sub
      /\ k.isApp = l.isApp /\ k.debug = l.debug /\ k.unique = l.unique /\ k.procs = procs
      /\ k.remaining = remaining /\ k.tried = l.tried
  BY <1>2 DEF LaunchData, LaunchFields
<1> QED  BY <1>3, <1>4 DEF LaunchData

LEMMA BackAtDeps ==
  ASSUME LaunchConstantsOK, NEW l, LaunchData(l), l.title \in Titles, l.slot \in Slots, NEW k, k = [l EXCEPT !.at = "deps", !.sub = Null, !.ok = TRUE]
  PROVE  LaunchOK(k) /\ k.at = "deps" /\ k.slot = l.slot /\ k.isApp = l.isApp
<1>1. /\ DOMAIN k = LaunchFields /\ k.at = "deps" /\ k.title = l.title /\ k.slot = l.slot /\ k.sub = Null
      /\ k.isApp = l.isApp /\ k.debug = l.debug /\ k.unique = l.unique /\ k.procs = l.procs
      /\ k.remaining = l.remaining
  BY DEF LaunchData, LaunchFields
<1> QED  BY <1>1 DEF LaunchOK, LaunchData, Checked, Merging

\* What counting a dependency does, its parts named.
CountsTo(t, d, s, e, flagged, k, m, p, l) ==
  /\ d = NextDep(launch[t]) /\ s = launch[t].sub
  /\ e = [entries[s] EXCEPT !.auto = TRUE, !.deps = TRUE, !.refcount = @ + launch[t].remaining[d] - 1]
  /\ flagged = Write(entries, s, e)
  /\ k = [launch[t] EXCEPT !.procs[d] = s, !.remaining[d] = 0]
  /\ m = Merged(flagged, k, Deps[d])
  /\ p = Past(m.launch, d)
  /\ l = [p EXCEPT !.at = "deps", !.sub = Null, !.ok = TRUE]
  /\ launch[t].at = "countDep" /\ entries' = m.procs /\ Goes(t, l)
  /\ UNCHANGED <<freeList, kernelState, reused, runningApp, debugData, pmMonitor>>

LEMMA CountDepIs ==
  ASSUME NEW t \in Threads, CountDep(t)
  PROVE  \E d, s, e, flagged, k, m, p, l : CountsTo(t, d, s, e, flagged, k, m, p, l)
<1>1. PICK d, s : d = NextDep(launch[t]) /\ s = launch[t].sub
  OBVIOUS
<1>2. PICK e : e = [entries[s] EXCEPT !.auto = TRUE, !.deps = TRUE, !.refcount = @ + launch[t].remaining[d] - 1]
  OBVIOUS
<1>3. PICK flagged : flagged = Write(entries, s, e)
  OBVIOUS
<1>4. PICK k : k = [launch[t] EXCEPT !.procs[d] = s, !.remaining[d] = 0]
  OBVIOUS
<1>5. PICK m : m = Merged(flagged, k, Deps[d])
  OBVIOUS
<1>6. PICK p : p = Past(m.launch, d)
  OBVIOUS
<1>7. PICK l : l = [p EXCEPT !.at = "deps", !.sub = Null, !.ok = TRUE]
  OBVIOUS
<1>8. /\ launch[t].at = "countDep" /\ entries' = m.procs /\ Goes(t, l)
      /\ UNCHANGED <<freeList, kernelState, reused, runningApp, debugData, pmMonitor>>
  <2> DEFINE u  == launch[t]
             ud == NextDep(u)
             ue == [entries[u.sub] EXCEPT !.auto = TRUE, !.deps = TRUE, !.refcount = @ + u.remaining[ud] - 1]
             uf == Write(entries, u.sub, ue)
             uk == [u EXCEPT !.procs[ud] = u.sub, !.remaining[ud] = 0]
             um == Merged(uf, uk, Deps[ud])
  <2>1. /\ u.at = "countDep" /\ entries' = um.procs
        /\ Goes(t, [Past(um.launch, ud) EXCEPT !.at = "deps", !.sub = Null, !.ok = TRUE])
        /\ UNCHANGED <<freeList, kernelState, reused, runningApp, debugData, pmMonitor>>
    BY DEF CountDep, appVars
  <2>2. u = launch[t] /\ ud = NextDep(launch[t])
    OBVIOUS
  <2> HIDE DEF u, ud
  <2>3. ud = d /\ u.sub = s
    BY <1>1, <2>2
  <2>4. ue = e
    BY <1>2, <2>2, <2>3
  <2>5. uk = k
    BY <1>4, <2>2, <2>3
  <2> HIDE DEF ue, uk
  <2>6. uf = flagged
    BY <1>3, <2>3, <2>4
  <2> HIDE DEF uf
  <2>7. um = m
    BY <1>5, <2>3, <2>5, <2>6
  <2> HIDE DEF um
  <2>8. Past(um.launch, ud) = p
    BY <1>6, <2>3, <2>7, Zenon
  <2> QED  BY <1>7, <2>1, <2>2, <2>7, <2>8
<1>9. CountsTo(t, d, s, e, flagged, k, m, p, l)
  BY <1>1, <1>2, <1>3, <1>4, <1>5, <1>6, <1>7, <1>8, Zenon DEF CountsTo
<1> QED  BY <1>9

LEMMA CountDepPoints ==
  ASSUME LaunchConstantsOK, PointerInv, NEW t \in Threads, CountDep(t)
  PROVE  PointerInv'
<1>0. PICK d, s, e, flagged, k, m, p, l : CountsTo(t, d, s, e, flagged, k, m, p, l)
  BY CountDepIs, Zenon
<1>1. d = NextDep(launch[t]) /\ s = launch[t].sub
  BY <1>0, Zenon DEF CountsTo
<1>2. e = [entries[s] EXCEPT !.auto = TRUE, !.deps = TRUE, !.refcount = @ + launch[t].remaining[d] - 1]
  BY <1>0, Zenon DEF CountsTo
<1>3. flagged = Write(entries, s, e)
  BY <1>0, Zenon DEF CountsTo
<1>4. k = [launch[t] EXCEPT !.procs[d] = s, !.remaining[d] = 0]
  BY <1>0, Zenon DEF CountsTo
<1>5. m = Merged(flagged, k, Deps[d])
  BY <1>0, Zenon DEF CountsTo
<1>6. p = Past(m.launch, d)
  BY <1>0, Zenon DEF CountsTo
<1>7. l = [p EXCEPT !.at = "deps", !.sub = Null, !.ok = TRUE]
  BY <1>0, Zenon DEF CountsTo
<1>8. /\ launch[t].at = "countDep" /\ entries' = m.procs /\ Goes(t, l)
      /\ UNCHANGED <<freeList, kernelState, reused, runningApp, debugData, pmMonitor>>
  BY <1>0, Zenon DEF CountsTo
<1>9. /\ LaunchData(launch[t]) /\ launch[t].title \in Titles /\ MoreDeps(launch[t]) /\ HasEntries(launch[t])
      /\ launch[t].slot \in Slots /\ s \in Slots
  BY <1>1, <1>8, LaunchIs DEF LaunchOK, Merging
<1>10. d \in Titles /\ Deps[d] \in Seq(Titles) /\ launch[t].remaining[d] \in Int
  <2>1. d \in Titles
    BY <1>1, <1>9, NextDepIsLeft DEF LaunchData
  <2> QED  BY <1>9, <2>1, DepsOfTitles DEF LaunchData
<1>11. entries[s] # Null => e \in Entry /\ e.title = entries[s].title /\ e.isApp = entries[s].isApp
  <2>1. PICK n, f : n = launch[t].remaining[d] /\ f = entries[s]
    OBVIOUS
  <2>2. n \in Int
    BY <1>10, <2>1
  <2>3. f # Null => f \in Entry
    BY <1>9, <2>1, EntriesAre
  <2>4. e = [f EXCEPT !.auto = TRUE, !.deps = TRUE, !.refcount = @ + n - 1]
    BY <1>2, <2>1
  <2>5. f # Null => e \in Entry /\ e.title = f.title /\ e.isApp = f.isApp
    BY <2>2, <2>3, <2>4, FlaggedIs
  <2> QED  BY <2>1, <2>5
<1>12. Written(entries, flagged)
  BY <1>3, <1>9, <1>11, EntriesAre, OneWritten
<1>13. LaunchData(k) /\ k.title = launch[t].title /\ k.slot = launch[t].slot /\ k.isApp = launch[t].isApp
  <2>1. k = WithEntry(launch[t], d, s)
    BY <1>4 DEF WithEntry
  <2> QED  BY <1>9, <1>10, <2>1, MadeEntry
<1>14. /\ Written(flagged, m.procs)
       /\ LaunchData(m.launch) /\ m.launch.title = k.title /\ m.launch.slot = k.slot /\ m.launch.isApp = k.isApp
  <2>1. DOMAIN flagged = Slots /\ \A r \in Slots : flagged[r] # Null => flagged[r] \in Entry
    BY <1>12 DEF Written
  <2> QED  BY <1>5, <1>10, <1>13, <2>1, MergedIs
<1>15. Written(entries, entries')
  BY <1>8, <1>12, <1>14, WrittenTwice
<1>16. LaunchData(p) /\ p.title \in Titles /\ p.slot = launch[t].slot /\ p.isApp = launch[t].isApp
  BY <1>6, <1>9, <1>13, <1>14, PastIs
<1>17. LaunchOK(l) /\ l.at = "deps" /\ l.slot = launch[t].slot /\ l.isApp = launch[t].isApp
  BY <1>7, <1>9, <1>16, BackAtDeps
<1>18. \A r : Has(l, r) <=> Has(launch[t], r)
  BY <1>8, <1>17 DEF Has, Merging
<1>19. HasEntries(l)
  BY <1>8, <1>9, <1>17, <1>18 DEF HasEntries, Merging
<1> QED  BY <1>8, <1>15, <1>17, <1>18, <1>19, WrittenMeanwhile, GoesOn

\* The process is run or queued, and the manager notes it.
LEMMA RunPoints ==
  ASSUME LaunchConstantsOK, PointerInv, NEW t \in Threads, Run(t)
  PROVE  PointerInv'
<1>1. PICK s : s = launch[t].slot
  OBVIOUS
<1>2. launch[t].at = "run" /\ UNCHANGED <<entries, freeList, reused, pmMonitor>>
  BY DEF Run
<1>3. /\ s \in Slots /\ s # Null /\ launch[t].isApp \in BOOLEAN /\ Has(launch[t], s)
      /\ s \notin reused => s \in Listed \ {runningApp, debugData} /\ entries[s] # Null
                            /\ entries[s].isApp = launch[t].isApp /\ kernelState[s] = "loaded"
  BY <1>1, <1>2, LaunchIs, NullIsNone DEF LaunchOK, LaunchData, HasEntries, Has, Untouched, Merging, Listed
<1>4. Goes(t, NoLaunch)
  BY DEF Run, Returns
<1>5. \/ debugData' = s /\ UNCHANGED <<kernelState, runningApp>>
      \/ /\ UNCHANGED debugData /\ kernelState' = [kernelState EXCEPT ![s] = "running"]
         /\ runningApp' = IF launch[t].isApp THEN s ELSE runningApp
      \/ UNCHANGED <<runningApp, debugData>> /\ kernelState' = [kernelState EXCEPT ![s] = "ended"]
  BY <1>1, <1>3 DEF Run, Terminated
<1>6. /\ kernelState' \in [Slots -> {"loaded", "running", "ended"}]
      /\ runningApp' \in Slots \cup {Null} /\ debugData' \in Slots \cup {Null}
      /\ runningApp' \in {Null, runningApp, s} /\ debugData' \in {Null, debugData, s}
      /\ \A r \in Slots \ {s} : kernelState'[r] = kernelState[r]
  BY <1>3, <1>5 DEF PointerInv, ListOK
<1>7. PointersValid'
  <2>1. CASE debugData' = s /\ UNCHANGED <<kernelState, runningApp>>
    BY <1>2, <1>3, <2>1 DEF PointerInv, PointersValid
  <2>2. CASE /\ UNCHANGED debugData /\ kernelState' = [kernelState EXCEPT ![s] = "running"]
             /\ runningApp' = IF launch[t].isApp THEN s ELSE runningApp
    <3>1. kernelState'[s] = "running"
      BY <1>3, <2>2 DEF PointerInv, ListOK
    <3>2. runningApp' = runningApp \/ (runningApp' = s /\ launch[t].isApp)
      BY <2>2
    <3> QED  BY <1>2, <1>3, <1>6, <2>2, <3>1, <3>2 DEF PointerInv, ListOK, PointersValid
  <2>3. CASE UNCHANGED <<runningApp, debugData>> /\ kernelState' = [kernelState EXCEPT ![s] = "ended"]
    BY <1>2, <1>3, <1>6, <2>3 DEF PointerInv, ListOK, PointersValid
  <2> QED  BY <1>5, <2>1, <2>2, <2>3
<1>8. LaunchOK(NoLaunch) /\ HasEntries(NoLaunch)' /\ \A r : ~Has(NoLaunch, r)
  BY NoLaunchOK, HasNone
<1> QED  BY <1>2, <1>3, <1>4, <1>6, <1>7, <1>8, OwnMoves

LEMMA CleanupPoints ==
  ASSUME LaunchConstantsOK, PointerInv, NEW t \in Threads, Cleanup(t)
  PROVE  PointerInv'
<1>1. PICK s : s = launch[t].slot
  OBVIOUS
<1>2. /\ launch[t].at = "cleanup" /\ Goes(t, NoLaunch)
      /\ UNCHANGED <<entries, freeList, reused, runningApp, debugData, pmMonitor>>
      /\ kernelState' = Terminated(s) /\ s \in Slots \cup {Null} /\ Has(launch[t], s)
  BY <1>1, LaunchIs DEF Cleanup, LaunchData, Returns, Has
<1>3. /\ kernelState' \in [Slots -> {"loaded", "running", "ended"}]
      /\ \A r \in Slots : kernelState'[r] = kernelState[r] \/ kernelState'[r] = "ended"
      /\ \A r \in Slots \ {s} : kernelState'[r] = kernelState[r]
  BY <1>2 DEF PointerInv, ListOK, Terminated
<1>4. runningApp' \in Slots \cup {Null} /\ debugData' \in Slots \cup {Null}
  BY <1>2 DEF PointerInv, ListOK
<1>5. PointersValid'
  BY <1>2, <1>3 DEF PointerInv, ListOK, PointersValid
<1>6. LaunchOK(NoLaunch) /\ HasEntries(NoLaunch)' /\ \A r : ~Has(NoLaunch, r)
  BY NoLaunchOK, HasNone
<1> QED  BY <1>2, <1>3, <1>4, <1>5, <1>6, OwnMoves

-----------------------------------------------------------------------------
\* What ends is taken out of the list; no launch has it, as what they have is loaded.
LEMMA MonitorNotesPoints ==
  ASSUME LaunchConstantsOK, PointerInv, NEW s \in Slots, MonitorNotes(s)
  PROVE  PointerInv'
<1>1. /\ pmMonitor = NoBackup /\ s \in Listed /\ kernelState[s] = "ended"
      /\ pmMonitor' = [at |-> "release", slot |-> s, entry |-> entries[s]]
      /\ entries' = [entries EXCEPT ![s] = Null] /\ freeList' = AfterFirst(freeList, s)
      /\ UNCHANGED <<kernelState, reused, runningApp, debugData, launch>>
  BY DEF MonitorNotes, PointerInv, MonitorHas, appVars
<1>2. DOMAIN entries' = Slots /\ entries'[s] = Null /\ \A r \in Slots \ {s} : entries'[r] = entries[r]
  BY <1>1 DEF PointerInv, ListOK
<1>3. freeList \in Seq(Slots) /\ \A i \in DOMAIN freeList : freeList[i] # s /\ freeList[i] \in Slots /\ entries[freeList[i]] = Null
  BY <1>1 DEF PointerInv, ListOK, FreeIsUnused, Listed
<1>4. /\ freeList' \in Seq(Slots)
      /\ \A i \in DOMAIN freeList' : freeList'[i] = s \/ \E j \in DOMAIN freeList : freeList'[i] = freeList[j]
      /\ \A i, j \in DOMAIN freeList' : freeList'[i] = freeList'[j] => i = j
  BY <1>1, <1>3, FreedIsLast DEF PointerInv
<1>5. FreeIsUnused'
  <2>1. \A i \in DOMAIN freeList' : entries'[freeList'[i]] = Null
    BY <1>2, <1>3, <1>4
  <2> QED  BY <1>4, <2>1 DEF FreeIsUnused
<1>6. ListOK'
  <2>1. \A r \in Listed' : r \in Listed /\ entries'[r] = entries[r]
    BY <1>2 DEF Listed
  <2> QED  BY <1>1, <1>2, <1>4, <2>1 DEF PointerInv, ListOK
<1>7. MonitorHas' /\ pmMonitor'.slot = s
  BY <1>1, <1>2 DEF MonitorHas
<1>8. PointersValid'
  <2>1. NoBackup.slot = Null
    BY DEF NoBackup
  <2> QED  BY <1>1, <1>2, <1>7, <2>1 DEF PointerInv, ListOK, PointersValid
<1>9. LaunchesOK'
  <2>1. \A u \in Threads : s \notin reused => ~Has(launch[u], s)
    BY <1>1 DEF PointerInv, LaunchesOK, HasEntries, Untouched
  <2>2. \A r \in Slots \ (reused' \cup {s}) : Untouched(r) => Untouched(r)' /\ entries'[r].isApp = entries[r].isApp
    BY <1>1, <1>2 DEF Untouched, Listed
  <2>3. \A u \in Threads : \A l : l = launch[u] => HasEntries(l)'
    BY <1>1, <2>1, <2>2, LaunchesKeep DEF PointerInv
  <2> QED  BY <1>1, <2>3, LaunchesStay DEF PointerInv
<1> QED  BY <1>1, <1>5, <1>6, <1>7, <1>8, <1>9 DEF PointerInv

\* What the monitor does to an entry that is given up.
Released(e) == [e EXCEPT !.refcount = (@ - 1) % 256, !.dying = e.refcount = 1]

LEMMA ReleasedIs ==
  ASSUME NEW e \in Entry, NEW f, f = Released(e)
  PROVE  f \in Entry /\ f.title = e.title /\ f.isApp = e.isApp
<1>1. e.refcount \in Int
  BY DEF Entry
<1>2. PICK r, b : r = (e.refcount - 1) % 256 /\ b = (e.refcount = 1)
  OBVIOUS
<1>3. r \in Int /\ b \in BOOLEAN
  BY <1>1, <1>2
<1>4. f = [e EXCEPT !.refcount = r, !.dying = b]
  BY <1>2 DEF Released
<1> QED  BY <1>3, <1>4 DEF Entry

LEMMA MonitorReleasesPoints ==
  ASSUME LaunchConstantsOK, PointerInv, MonitorReleases
  PROVE  PointerInv'
<1>1. PICK counted : counted = {s \in Listed : entries[s].auto /\ ~entries[s].dying
                                   /\ entries[s].title \in Range(Deps[pmMonitor.entry.title])}
  OBVIOUS
<1>2. /\ counted \subseteq Listed /\ pmMonitor.at = "release" /\ pmMonitor' = [pmMonitor EXCEPT !.at = "forget"]
      /\ UNCHANGED <<freeList, kernelState, reused, runningApp, debugData, launch>>
  BY <1>1 DEF MonitorReleases, appVars
<1>3. entries' = entries \/ entries' = [s \in Slots |-> IF s \in counted THEN Released(entries[s]) ELSE entries[s]]
  BY <1>1, Zenon DEF MonitorReleases, Released
<1>4. DOMAIN entries' = Slots /\ \A s \in Slots :
        \/ entries'[s] = entries[s]
        \/ s \in Listed /\ entries'[s] \in Entry /\ entries'[s].title = entries[s].title /\ entries'[s].isApp = entries[s].isApp
  <2>1. CASE entries' = entries
    BY <2>1, EntriesAre
  <2>2. CASE entries' = [s \in Slots |-> IF s \in counted THEN Released(entries[s]) ELSE entries[s]]
    <3>1. \A s \in counted : entries[s] \in Entry
      BY <1>2, EntriesAre DEF Listed
    <3>2. \A s \in counted : /\ Released(entries[s]) \in Entry /\ Released(entries[s]).title = entries[s].title
                              /\ Released(entries[s]).isApp = entries[s].isApp
      BY <3>1, ReleasedIs
    <3> QED  BY <1>2, <2>2, <3>2
  <2> QED  BY <1>3, <2>1, <2>2
<1>5. Written(entries, entries')
  BY <1>4, EntriesAre DEF Written, Listed
<1>6. /\ DOMAIN pmMonitor' = {"at", "slot", "entry"} /\ pmMonitor'.at = "forget" /\ pmMonitor'.slot = pmMonitor.slot
      /\ pmMonitor.slot \in Slots
  BY <1>2 DEF PointerInv, MonitorHas
<1>7. MonitorHas'
  BY <1>6 DEF MonitorHas
<1>8. /\ ListOK' /\ FreeIsUnused' /\ PointersValid'
      /\ \A k : HasEntries(k) => HasEntries(k)'
  BY <1>2, <1>5, <1>6, <1>7, EntriesWritten
<1>9. LaunchesOK'
  <2>1. \A u \in Threads : \A l : l = launch[u] => HasEntries(l)'
    BY <1>8 DEF PointerInv, LaunchesOK
  <2> QED  BY <1>2, <2>1, LaunchesStay DEF PointerInv
<1> QED  BY <1>7, <1>8, <1>9 DEF PointerInv

LEMMA MonitorForgetsPoints ==
  ASSUME LaunchConstantsOK, PointerInv, MonitorForgets
  PROVE  PointerInv'
<1>1. /\ pmMonitor.at = "forget" /\ pmMonitor' = NoBackup /\ UNCHANGED <<procVars, launch>>
      /\ pmMonitor.slot \in Slots
  BY DEF MonitorForgets, PointerInv, MonitorHas
<1>2. /\ runningApp' = IF runningApp = pmMonitor.slot /\ entries[runningApp] = Null THEN Null ELSE runningApp
      /\ debugData' = IF debugData = pmMonitor.slot /\ entries[debugData] = Null THEN Null ELSE debugData
  BY DEF MonitorForgets
<1>3. runningApp' \in {Null, runningApp} /\ debugData' \in {Null, debugData} /\ Listed' = Listed
      /\ runningApp' \in Slots \cup {Null} /\ debugData' \in Slots \cup {Null}
  BY <1>1, <1>2 DEF Listed, procVars, PointerInv, ListOK
<1>4. ListOK' /\ FreeIsUnused'
  BY <1>1, <1>3 DEF PointerInv, ListOK, FreeIsUnused, procVars
<1>5. MonitorHas'
  BY <1>1 DEF MonitorHas, NoBackup
<1>6. PointersValid'
  BY <1>1, <1>2 DEF PointerInv, PointersValid, procVars
<1>7. LaunchesOK'
  <2>1. \A s \in Slots : Untouched(s) => Untouched(s)' /\ entries'[s].isApp = entries[s].isApp
    BY <1>1, <1>3, NullIsNone DEF Untouched, procVars
  <2>2. \A u \in Threads : \A l : l = launch[u] => HasEntries(l)'
    BY <1>1, <2>1, LaunchesKeep, NullIsNone DEF PointerInv, procVars
  <2> QED  BY <1>1, <2>2, LaunchesStay DEF PointerInv, procVars
<1> QED  BY <1>4, <1>5, <1>6, <1>7 DEF PointerInv

\* What is loaded ends only if debugData leads to it.
LEMMA ExitsPoints ==
  ASSUME LaunchConstantsOK, PointerInv, NEW s \in Slots, Exits(s)
  PROVE  PointerInv'
<1>1. /\ s \in Listed /\ kernelState' = [kernelState EXCEPT ![s] = "ended"]
      /\ UNCHANGED <<entries, freeList, reused, runningApp, debugData, launch, pmMonitor>>
      /\ kernelState[s] # "loaded" \/ s = debugData
  BY DEF Exits, appVars
<1>2. /\ kernelState' \in [Slots -> {"loaded", "running", "ended"}] /\ kernelState'[s] = "ended"
      /\ \A r \in Slots \ {s} : kernelState'[r] = kernelState[r]
      /\ runningApp' \in Slots \cup {Null} /\ debugData' \in Slots \cup {Null}
  BY <1>1 DEF PointerInv, ListOK
<1>3. PointersValid'
  BY <1>1, <1>2 DEF PointerInv, ListOK, PointersValid
<1>4. \A u \in Threads : s \notin reused => ~Has(launch[u], s)
  BY <1>1 DEF PointerInv, LaunchesOK, HasEntries, Untouched
<1>5. /\ ListOK' /\ FreeIsUnused' /\ MonitorHas' /\ \A u \in Threads : \A l : l = launch[u] => HasEntries(l)'
  BY <1>1, <1>2, <1>4, ProcessesMove
<1>6. LaunchesOK'
  BY <1>1, <1>5, LaunchesStay DEF PointerInv
<1> QED  BY <1>3, <1>5, <1>6 DEF PointerInv

LEMMA PointerStep == LaunchConstantsOK /\ PointerInv /\ [LaunchNext]_launchVars => PointerInv'
<1> SUFFICES ASSUME LaunchConstantsOK, PointerInv, [LaunchNext]_launchVars PROVE PointerInv'
  OBVIOUS
<1>1. ASSUME NEW title \in Titles, NEW queue \in Queue,
             (\E withDeps \in BOOLEAN : LaunchTitle(title, withDeps, queue))
             \/ LaunchTitleUpdate(title, queue) \/ LaunchAppDebug(title, queue) \/ LaunchTitleDebug(title, queue)
      PROVE  PointerInv'
  BY <1>1, LaunchTitlePoints, LaunchTitleUpdatePoints, LaunchAppDebugPoints, LaunchTitleDebugPoints
<1>2. CASE RunQueuedProcess \/ DebugNextApplicationByForce \/ Found \/ HandOver
  BY <1>2, RunQueuedProcessPoints, DebugNextPoints, FoundPoints, HandOverPoints
<1>3. ASSUME NEW t \in Threads, ThreadSteps(t) PROVE PointerInv'
  BY <1>3, CheckPoints, LoadPoints, RegisterFailsPoints, LoadingFailsPoints, MergePoints, LoadDepPoints,
     RegisterDepFailsPoints, LoadDepFailsPoints, RunDepPoints, CountDepPoints, DepsDonePoints, RunPoints,
     CleanupPoints DEF ThreadSteps
<1>4. CASE CleanupSteps \/ \E s \in Slots : Exits(s)
  BY <1>4, MonitorNotesPoints, MonitorReleasesPoints, MonitorForgetsPoints, ExitsPoints DEF CleanupSteps
<1>5. CASE UNCHANGED launchVars
  BY <1>5, NothingChanges DEF launchVars, appVars
<1> QED  BY <1>1, <1>2, <1>3, <1>4, <1>5 DEF LaunchNext

\* The manager reads and writes through runningApplicationData and debugData (launch.c:263-276,
\* process_monitor.c:32-46): for any titles, dependencies and failures, and whatever is asked for and
\* ends meanwhile, they lead to the entry of an application, and to a process that has not been run, until
\* the monitor forgets them, as long as their entry was not taken for another process before.
THEOREM PointersStayValid ==
  ASSUME LaunchConstantsOK
  PROVE  LaunchSpec => []PointersValid
<1>1. PointerInv => PointersValid
  BY DEF PointerInv
<1> QED  BY <1>1, PointerInitHolds, PointerStep, PTL DEF LaunchSpec

(***************************************************************************)
(* LoadedAsRegistered for any number of threads, titles, files and handles.*)
(*                                                                         *)
(* By itself the property is not inductive: what LoadProcess takes from    *)
(* the cache must be what belongs to the handle, and the open file must be *)
(* the one of the handle whose exheader is cached.  The first needs that a *)
(* handle has one user, which forgets it when it unregisters it; the       *)
(* second that whoever opened another file meanwhile is known (raced), or  *)
(* that a process of the module runs, which pm would have found.           *)
(***************************************************************************)
LoadedTitles == Applications \cup Modules
Thread == [at : {"idle", "registered", "got"}, title : LoadedTitles \cup {Nothing},
           handle : Modules \cup Handles \cup {Nothing}]
Process == [title : LoadedTitles, handle : Modules \cup Handles, exheader : LoadedTitles \cup {Nothing},
            code : LoadedTitles \cup {Nothing, "3dsx"}, raced : BOOLEAN]
Cache == [handle : Modules \cup Handles \cup {Nothing}, exheader : LoadedTitles \cup {Nothing},
          file : Modules \cup {Nothing}, cookie : Modules \cup {Nothing}, ncch : Modules \cup {Nothing},
          lastApp : LoadedTitles \cup {Nothing}]

LoaderTypeOK ==
  /\ cache \in Cache
  /\ programs \in [Handles -> LoadedTitles \cup {Nothing}]
  /\ threads \in [Launchers -> Thread]
  /\ processes \subseteq Process
  /\ raced \subseteq Launchers

Busy(c) == threads[c].at # "idle"

\* Who uses a file holds a cookie of its title, any other a handle that Process9 has for it.
Holds(u) ==
  /\ u.title \in LoadedTitles
  /\ IF u.title \in Files THEN u.handle = u.title ELSE u.handle \in Handles /\ programs[u.handle] = u.title
UsersHold ==
  /\ \A c \in Launchers : IF Busy(c) THEN Holds(threads[c]) ELSE threads[c] = Idling
  /\ \A p \in processes : Holds(p)

\* Handles of Process9 have one user.
OneUser ==
  /\ \A c, d \in Launchers : c # d /\ threads[c].handle \in Handles => threads[c].handle # threads[d].handle
  /\ \A c \in Launchers, p \in processes : p.handle \in Handles => threads[c].handle # p.handle
  /\ \A p, q \in processes : p # q /\ p.handle \in Handles => p.handle # q.handle

\* The cached exheader is that of the cached handle, and the open file that of its cookie.
Belongs(h) == IF IsCookie(h) THEN h ELSE programs[h]
Matches(c) == c.cookie = c.file /\ (c.handle # Nothing => c.exheader = Belongs(c.handle))
CacheMatches == Matches(cache) /\ (cache.handle # Nothing => cache.exheader # Nothing)

\* A cached cookie has a user that has seen its exheader.
CookieIsUsed ==
  IsCookie(cache.handle) =>
    \/ \E p \in processes : p.handle = cache.handle
    \/ \E c \in Launchers : threads[c].at = "got" /\ threads[c].handle = cache.handle

\* Launches of one module at once are known.
SameIsRaced ==
  \A c, d \in Launchers :
    c # d /\ threads[c].title \in Modules /\ threads[d].title = threads[c].title => {c, d} \subseteq raced

\* A thread that is about to load with a cached cookie has its file, or pm finds a process.
FileIsOpen ==
  \A c \in Launchers \ raced :
    threads[c].at = "got" /\ IsCookie(threads[c].handle) /\ cache.handle = threads[c].handle =>
      \/ cache.file = cache.handle
      \/ \E p \in processes : p.title = cache.handle

LoaderInv ==
  /\ LoaderTypeOK /\ UsersHold /\ OneUser /\ CacheMatches /\ CookieIsUsed /\ SameIsRaced /\ FileIsOpen
  /\ LoadedAsRegistered
-----------------------------------------------------------------------------
(* What the parts of a command return.                                     *)

\* GetProgramInfo: either it has what belongs to the handle, or nothing is cached.
LEMMA GotMatches ==
  ASSUME LoaderTypeOK, CacheMatches, NEW h \in Modules \cup Handles, NEW outcome \in Outcomes,
         NEW g, g = Got(cache, h, outcome)
  PROVE  /\ g \in Cache /\ Matches(g)
         /\ outcome = "ok" \/ IsCached(cache, h) => g.handle = h /\ g.exheader = Belongs(h)
         /\ ~(outcome = "ok" \/ IsCached(cache, h)) => g.handle = Nothing
         /\ IsCached(cache, h) => g = cache
         /\ ~IsCached(cache, h) /\ outcome = "ok" /\ IsCookie(h) => g.file = h
         /\ ~IsCookie(h) => g.file = cache.file
<1> USE HandlesAreNotCookies, FilesOfModules, NothingIsNone
<1> DEFINE o == IF IsCookie(h) THEN WithFile(cache, h, outcome) ELSE cache
           title == IF IsCookie(h) THEN o.file ELSE programs[h]
<1>1. /\ o \in Cache /\ o.cookie = o.file
      /\ o.handle = cache.handle /\ o.exheader = cache.exheader
      /\ IsCookie(h) /\ outcome = "ok" => o.file = h
      /\ ~IsCookie(h) => o.file = cache.file
  BY DEF LoaderTypeOK, CacheMatches, Matches, Cache, WithFile, Reopened, Invalidated, IsCookie, Outcomes
<1>2. CASE IsCached(cache, h)
  <2>1. g = cache  BY <1>2 DEF Got
  <2>2. cache.handle = h /\ h # Nothing  BY <1>2 DEF IsCached, IsCookie
  <2> QED  BY <2>1, <2>2, <1>2 DEF Matches, CacheMatches, Belongs, LoaderTypeOK
<1>3. CASE ~IsCached(cache, h) /\ outcome = "ok"
  <2> DEFINE ncch == IF IsCookie(h) THEN title ELSE o.ncch
             lastApp == IF title \in Applications THEN title ELSE o.lastApp
             r == [o EXCEPT !.handle = h, !.exheader = title, !.ncch = ncch, !.lastApp = lastApp]
  <2>1. g = r  BY <1>3 DEF Got, Read
  <2>2. title = Belongs(h) /\ title \in LoadedTitles \cup {Nothing} /\ (IsCookie(h) => title \in Modules)
    BY <1>1, <1>3 DEF Belongs, LoaderTypeOK, IsCookie, LoadedTitles
  <2>3. ncch \in Modules \cup {Nothing} /\ lastApp \in LoadedTitles \cup {Nothing}
    BY <1>1, <2>2 DEF Cache
  <2> HIDE DEF ncch, lastApp, title, o
  <2>5. r \in Cache  BY <1>1, <2>2, <2>3 DEF Cache
  <2>4. r.handle = h /\ r.exheader = title /\ r.file = o.file /\ r.cookie = o.cookie
    BY <1>1 DEF Cache
  <2> QED  BY <1>1, <1>3, <2>1, <2>2, <2>4, <2>5 DEF Matches
<1>4. CASE ~IsCached(cache, h) /\ outcome # "ok"
  <2>1. g = [o EXCEPT !.handle = Nothing]  BY <1>4 DEF Got, Read
  <2> QED  BY <1>1, <1>4, <2>1 DEF Matches, Cache
<1> QED  BY <1>2, <1>3, <1>4

\* UnregisterProgram: the handle is no longer cached.
LEMMA ForgottenMatches ==
  ASSUME NEW g \in Cache, g.cookie = g.file, NEW h \in Modules \cup Handles, NEW f, f = Forgotten(g, h)
  PROVE  /\ f \in Cache /\ f.cookie = f.file /\ f.handle # h
         /\ f.handle = Nothing \/ (f.handle = g.handle /\ f.exheader = g.exheader)
         /\ f.file # g.file => IsCookie(h) /\ g.file = h
<1> DEFINE d == IF g.handle = h THEN [g EXCEPT !.handle = Nothing] ELSE g
<1>1. d \in Cache /\ d.handle # h /\ d.cookie = g.cookie /\ d.file = g.file /\ d.exheader = g.exheader
      /\ d.handle \in {Nothing, g.handle}
  BY NothingIsNone DEF Cache
<1>2. CASE IsCookie(h) /\ g.cookie = h
  <2>1. f = Invalidated(d)  BY <1>2 DEF Forgotten
  <2>2. Invalidated(d) = [d EXCEPT !.file = Nothing, !.cookie = Nothing]  BY DEF Invalidated, Reopened
  <2> HIDE DEF d
  <2>3. f = [d EXCEPT !.file = Nothing, !.cookie = Nothing]  BY <2>1, <2>2
  <2>4. f \in Cache /\ f.file = Nothing /\ f.cookie = Nothing /\ f.handle = d.handle /\ f.exheader = d.exheader
    BY <1>1, <2>3 DEF Cache
  <2> QED  BY <1>1, <1>2, <2>4
<1>3. CASE ~(IsCookie(h) /\ g.cookie = h)
  BY <1>1, <1>3 DEF Forgotten
<1> QED  BY <1>2, <1>3
-----------------------------------------------------------------------------
(* Users of handles.                                                       *)

LEMMA UserOfHandle ==
  ASSUME NEW u, Holds(u)
  PROVE  /\ u.handle \in Modules \cup Handles /\ u.handle # Nothing
         /\ IsCookie(u.handle) => u.title = u.handle /\ u.title \in Files
         /\ ~IsCookie(u.handle) => u.title \notin Files /\ u.handle \in Handles
         /\ Belongs(u.handle) = u.title /\ u.title # Nothing
BY HandlesAreNotCookies, FilesOfModules, NothingIsNone DEF Holds, IsCookie, Belongs, LoadedTitles

LEMMA IdleHoldsNothing ==
  ASSUME UsersHold, NEW c \in Launchers
  PROVE  threads[c].handle # Nothing <=> Busy(c)
<1>1. CASE Busy(c)  BY <1>1, UserOfHandle DEF UsersHold
<1>2. CASE ~Busy(c)  BY <1>2 DEF UsersHold, Idling
<1> QED  BY <1>1, <1>2

LEMMA SameCookieSameTitle ==
  ASSUME LoaderTypeOK, UsersHold, SameIsRaced, NEW c \in Launchers, NEW d \in Launchers, c # d,
         Busy(c), IsCookie(threads[c].handle), threads[d].handle = threads[c].handle
  PROVE  {c, d} \subseteq raced
<1>1. Busy(d) /\ threads[c].handle # Nothing  BY IdleHoldsNothing
<1>2. threads[c].title = threads[c].handle /\ threads[d].title = threads[d].handle
  BY <1>1, UserOfHandle DEF UsersHold
<1>3. threads[c].title \in Modules  BY <1>2 DEF IsCookie
<1> QED  BY <1>2, <1>3 DEF SameIsRaced
-----------------------------------------------------------------------------
(* Each command keeps the invariant.                                       *)

LEMMA AskKeeps ==
  ASSUME LoaderInv, NEW p \in processes, NEW outcome \in Outcomes, Ask(p, outcome)
  PROVE  LoaderInv'
<1> USE DEF LoaderInv
<1>1. /\ Holds(p) /\ p.handle \in Modules \cup Handles /\ p.handle # Nothing
      /\ Belongs(p.handle) = p.title /\ p.title # Nothing
      /\ IsCookie(p.handle) => p.title = p.handle
  BY UserOfHandle DEF UsersHold
<1>2. /\ cache' \in Cache /\ Matches(cache')
      /\ cache'.handle = Nothing \/ (cache'.handle = p.handle /\ cache'.exheader = Belongs(p.handle))
  BY <1>1, GotMatches DEF Ask
<1>3. UNCHANGED <<programs, threads, processes, raced, broken>>  BY DEF Ask
<1>4. LoaderTypeOK' /\ UsersHold' /\ OneUser' /\ SameIsRaced' /\ LoadedAsRegistered'
  BY <1>2, <1>3 DEF LoaderTypeOK, UsersHold, Holds, Busy, OneUser, SameIsRaced, LoadedAsRegistered
<1>5. CacheMatches'  BY <1>1, <1>2, <1>3 DEF CacheMatches, Matches, Belongs
<1>6. CookieIsUsed'  BY <1>1, <1>2, <1>3, NothingIsNone DEF CookieIsUsed, IsCookie
<1>7. FileIsOpen'  BY <1>1, <1>2, <1>3, NothingIsNone DEF FileIsOpen, IsCookie
<1> QED  BY <1>4, <1>5, <1>6, <1>7

LEMMA RegisterKeeps ==
  ASSUME LoaderInv, broken = Nothing, NEW c \in Launchers, NEW title \in LoadedTitles, Register(c, title)
  PROVE  LoaderInv'
<1> USE HandlesAreNotCookies, FilesOfModules, NothingIsNone DEF LoaderInv
<1>1. /\ cache' \in Cache /\ cache'.handle = cache.handle /\ cache'.exheader = cache.exheader
      /\ cache'.cookie = cache'.file
      /\ title \notin Modules => cache' = cache
  BY DEF Register, Reopened, Invalidated, LoaderTypeOK, CacheMatches, Matches, Cache
<1>2. PICK h \in Modules \cup Handles :
        /\ threads' = [threads EXCEPT ![c] = [at |-> "registered", title |-> title, handle |-> h]]
        /\ IF title \in Files THEN h = title /\ programs' = programs
           ELSE h \in Handles /\ programs[h] = Nothing /\ programs' = [programs EXCEPT ![h] = title]
  BY DEF Register
<1>3. UNCHANGED <<processes, broken>> /\ raced' = raced \cup Disturbed(c, title) /\ threads[c] = Idling
  BY DEF Register, UsersHold, Busy
<1>4. LoaderTypeOK'
  BY <1>1, <1>2, <1>3 DEF LoaderTypeOK, Thread, LoadedTitles, Disturbed
<1>5. /\ threads'[c] = [at |-> "registered", title |-> title, handle |-> h]
      /\ \A d \in Launchers \ {c} : threads'[d] = threads[d]
  BY <1>2 DEF LoaderTypeOK
<1>6. \A u : Holds(u) => Holds(u)' /\ (h \in Handles => u.handle # h)
  BY <1>2 DEF Holds, LoaderTypeOK, LoadedTitles
<1>7. UsersHold'
  <2>1. Holds(threads[c])'  BY <1>2, <1>5 DEF Holds, LoaderTypeOK
  <2>2. \A d \in Launchers \ {c} : IF Busy(d)' THEN Holds(threads[d])' ELSE threads'[d] = Idling
    BY <1>5, <1>6 DEF UsersHold, Busy, Holds
  <2>3. \A p \in processes : Holds(p)'  BY <1>6 DEF UsersHold
  <2>4. Busy(c)'  BY <1>5 DEF Busy
  <2> QED  BY <2>1, <2>2, <2>3, <2>4, <1>3 DEF UsersHold
<1>8. OneUser'
  <2>1. \A d \in Launchers \ {c} : h \in Handles => threads[d].handle # h
    BY <1>6 DEF UsersHold, Idling
  <2>2. \A p \in processes : h \in Handles => p.handle # h
    BY <1>6 DEF UsersHold
  <2> QED  BY <2>1, <2>2, <1>3, <1>5 DEF OneUser
<1>9. CacheMatches'
  BY <1>1, <1>2 DEF CacheMatches, Matches, Belongs, IsCookie, LoaderTypeOK, Cache
<1>10. CookieIsUsed'
  BY <1>1, <1>3, <1>5 DEF CookieIsUsed, Idling
<1>11. SameIsRaced'
  BY <1>3, <1>5 DEF SameIsRaced, Disturbed, Idling
<1>12. FileIsOpen'
  <2> SUFFICES ASSUME NEW d \in Launchers, d \notin raced', threads'[d].at = "got", IsCookie(threads'[d].handle),
                      cache'.handle = threads'[d].handle
               PROVE  cache'.file = cache'.handle \/ \E p \in processes' : p.title = cache'.handle
    BY DEF FileIsOpen
  <2>1. d # c /\ threads'[d] = threads[d]  BY <1>5
  <2>2. title \notin Modules /\ d \notin raced  BY <1>3, <2>1 DEF Disturbed
  <2> QED  BY <1>1, <1>3, <2>1, <2>2 DEF FileIsOpen
<1>13. LoadedAsRegistered'
  BY <1>3 DEF LoadedAsRegistered
<1> QED  BY <1>4, <1>7, <1>8, <1>9, <1>10, <1>11, <1>12, <1>13

\* What unregistering a user's handle leaves to the others.
LEMMA UnregisteredKeeps ==
  ASSUME LoaderInv, NEW u, Holds(u), NEW g \in Cache, Matches(g), g.handle = Nothing \/ g = cache,
         cache' = Forgotten(g, u.handle), programs' = Unregistered(u.handle)
  PROVE  /\ cache' \in Cache /\ programs' \in [Handles -> LoadedTitles \cup {Nothing}] /\ CacheMatches'
         /\ \A v : Holds(v) /\ (u.handle \in Handles => v.handle # u.handle) => Holds(v)'
         /\ cache'.handle # Nothing => /\ cache'.handle = cache.handle /\ cache'.handle # u.handle
                                       /\ cache.file = cache.handle => cache'.file = cache.handle
<1> USE NothingIsNone DEF LoaderInv
<1>1. u.handle \in Modules \cup Handles /\ (~IsCookie(u.handle) => u.handle \in Handles)
  BY UserOfHandle
<1>2. /\ cache' \in Cache /\ cache'.cookie = cache'.file /\ cache'.handle # u.handle
      /\ cache'.handle = Nothing \/ (cache'.handle = g.handle /\ cache'.exheader = g.exheader)
      /\ cache'.file # g.file => g.file = u.handle
  BY <1>1, ForgottenMatches DEF Matches
<1>3. /\ programs' \in [Handles -> LoadedTitles \cup {Nothing}]
      /\ \A h \in Handles \ {u.handle} : programs'[h] = programs[h]
  BY <1>1 DEF Unregistered, LoaderTypeOK
<1>4. cache'.handle # Nothing => cache'.handle = cache.handle /\ g = cache
  BY <1>2
<1>5. CacheMatches'
  BY <1>2, <1>3, <1>4 DEF CacheMatches, Matches, Belongs, IsCookie, Cache
<1>6. ASSUME NEW v, Holds(v), u.handle \in Handles => v.handle # u.handle
      PROVE  Holds(v)'
  <2>1. u.handle \notin Handles => programs' = programs  BY <1>1 DEF Unregistered
  <2> QED  BY <1>3, <1>6, <2>1 DEF Holds
<1> QED  BY <1>2, <1>3, <1>4, <1>5, <1>6

\* A thread that is done with its title, without a process of it.
LEMMA ThreadLeaves ==
  ASSUME LoaderInv, broken = Nothing, NEW c \in Launchers, Busy(c), NEW g \in Cache, Matches(g),
         g.handle = Nothing \/ g = cache, cache' = Forgotten(g, threads[c].handle),
         programs' = Unregistered(threads[c].handle),
         threads' = [threads EXCEPT ![c] = Idling], raced' = raced \ {c}, UNCHANGED <<processes, broken>>
  PROVE  LoaderInv'
<1> USE NothingIsNone DEF LoaderInv
<1> DEFINE h == threads[c].handle
<1>1. Holds(threads[c]) /\ h # Nothing  BY UserOfHandle DEF UsersHold
<1>2. /\ cache' \in Cache /\ programs' \in [Handles -> LoadedTitles \cup {Nothing}] /\ CacheMatches'
      /\ \A v : Holds(v) /\ (h \in Handles => v.handle # h) => Holds(v)'
      /\ cache'.handle # Nothing => /\ cache'.handle = cache.handle /\ cache'.handle # h
                                    /\ cache.file = cache.handle => cache'.file = cache.handle
  BY <1>1, UnregisteredKeeps
<1>3. threads'[c] = Idling /\ \A d \in Launchers \ {c} : threads'[d] = threads[d]
  BY DEF LoaderTypeOK
<1>4. LoaderTypeOK'
  BY <1>2 DEF LoaderTypeOK, Thread, Idling
<1>5. UsersHold'
  <2>1. \A d \in Launchers \ {c} : IF Busy(d)' THEN Holds(threads[d])' ELSE threads'[d] = Idling
    BY <1>2, <1>3 DEF UsersHold, Busy, OneUser, Holds
  <2>2. \A p \in processes : Holds(p)'  BY <1>2 DEF UsersHold, OneUser
  <2>3. ~Busy(c)'  BY <1>3 DEF Busy, Idling
  <2> QED  BY <1>3, <2>1, <2>2, <2>3 DEF UsersHold
<1>6. OneUser'  BY <1>3 DEF OneUser, Idling
<1>7. CookieIsUsed'  BY <1>2, <1>3 DEF CookieIsUsed, IsCookie
<1>8. SameIsRaced'  BY <1>3 DEF SameIsRaced, Idling
<1>9. FileIsOpen'
  <2> SUFFICES ASSUME NEW d \in Launchers, d \notin raced', threads'[d].at = "got", IsCookie(threads'[d].handle),
                      cache'.handle = threads'[d].handle
               PROVE  cache'.file = cache'.handle \/ \E p \in processes' : p.title = cache'.handle
    BY DEF FileIsOpen
  <2>1. d # c /\ threads'[d] = threads[d] /\ d \notin raced  BY <1>3 DEF Idling
  <2>2. cache'.handle # Nothing  BY DEF IsCookie
  <2> QED  BY <1>2, <2>1, <2>2 DEF FileIsOpen
<1>10. LoadedAsRegistered'  BY DEF LoadedAsRegistered
<1> QED  BY <1>2, <1>4, <1>5, <1>6, <1>7, <1>8, <1>9, <1>10

LEMMA ToldKeeps ==
  ASSUME LoaderInv, broken = Nothing, NEW c \in Launchers, Told(c)
  PROVE  LoaderInv'
BY ThreadLeaves DEF Told, LoaderInv, LoaderTypeOK, CacheMatches, Busy

LEMMA EndKeeps ==
  ASSUME LoaderInv, NEW p \in processes, End(p)
  PROVE  LoaderInv'
<1> USE NothingIsNone DEF LoaderInv
<1> DEFINE h == p.handle
<1>1. Holds(p)  BY DEF UsersHold
<1>2. /\ cache' \in Cache /\ programs' \in [Handles -> LoadedTitles \cup {Nothing}] /\ CacheMatches'
      /\ \A v : Holds(v) /\ (h \in Handles => v.handle # h) => Holds(v)'
      /\ cache'.handle # Nothing => /\ cache'.handle = cache.handle /\ cache'.handle # h
                                    /\ cache.file = cache.handle => cache'.file = cache.handle
  BY <1>1, UnregisteredKeeps DEF End, LoaderTypeOK, CacheMatches
<1>3. processes' = processes \ {p} /\ UNCHANGED <<threads, raced, broken>>  BY DEF End
<1>4. LoaderTypeOK'  BY <1>2, <1>3 DEF LoaderTypeOK
<1>5. UsersHold'
  <2>1. \A d \in Launchers : IF Busy(d)' THEN Holds(threads[d])' ELSE threads'[d] = Idling
    BY <1>2, <1>3 DEF UsersHold, Busy, OneUser, Holds
  <2>2. \A q \in processes \ {p} : Holds(q)'  BY <1>2 DEF UsersHold, OneUser
  <2> QED  BY <1>3, <2>1, <2>2 DEF UsersHold
<1>6. OneUser' /\ SameIsRaced' /\ LoadedAsRegistered'
  BY <1>3 DEF OneUser, SameIsRaced, LoadedAsRegistered
<1>7. CookieIsUsed'  BY <1>2, <1>3 DEF CookieIsUsed, IsCookie
<1>8. FileIsOpen'
  <2> SUFFICES ASSUME NEW d \in Launchers, d \notin raced', threads'[d].at = "got", IsCookie(threads'[d].handle),
                      cache'.handle = threads'[d].handle
               PROVE  cache'.file = cache'.handle \/ \E q \in processes' : q.title = cache'.handle
    BY DEF FileIsOpen
  <2>1. threads'[d] = threads[d] /\ d \notin raced /\ cache'.handle # Nothing  BY <1>3 DEF IsCookie
  <2>2. p.title # cache'.handle
    <3>1. threads[d].title = threads[d].handle /\ threads[d].title \in Files
      BY <2>1, UserOfHandle DEF UsersHold, Busy
    <3> QED  BY <1>1, <1>2, <2>1, <3>1 DEF Holds
  <2> QED  BY <1>2, <1>3, <2>1, <2>2 DEF FileIsOpen
<1> QED  BY <1>2, <1>4, <1>5, <1>6, <1>7, <1>8

LEMMA GetProgramInfoKeeps ==
  ASSUME LoaderInv, broken = Nothing, NEW c \in Launchers, NEW outcome \in Outcomes, GetProgramInfo(c, outcome)
  PROVE  LoaderInv'
<1> USE NothingIsNone DEF LoaderInv
<1> DEFINE h == threads[c].handle
           g == Got(cache, h, outcome)
           success == outcome = "ok" \/ IsCached(cache, h)
<1>1. Busy(c) /\ threads[c].at = "registered" /\ Holds(threads[c])  BY DEF GetProgramInfo, Busy, UsersHold
<1>2. /\ h \in Modules \cup Handles /\ h # Nothing /\ Belongs(h) = threads[c].title /\ threads[c].title # Nothing
      /\ IsCookie(h) => threads[c].title = h
  BY <1>1, UserOfHandle
<1>3. /\ g \in Cache /\ Matches(g)
      /\ success => g.handle = h /\ g.exheader = Belongs(h)
      /\ ~success => g.handle = Nothing
      /\ IsCached(cache, h) => g = cache
      /\ ~IsCached(cache, h) /\ outcome = "ok" /\ IsCookie(h) => g.file = h
  BY <1>2, GotMatches
<1> HIDE DEF g
<1>4. CASE success
  <2>1. /\ cache' = g /\ threads' = [threads EXCEPT ![c].at = "got"]
        /\ UNCHANGED <<programs, processes, broken>>
    BY <1>4 DEF GetProgramInfo, g
  <2>2. /\ threads'[c] = [threads[c] EXCEPT !.at = "got"]
        /\ threads'[c].at = "got" /\ threads'[c].title = threads[c].title /\ threads'[c].handle = h
        /\ \A d \in Launchers \ {c} : threads'[d] = threads[d]
    BY <2>1 DEF LoaderTypeOK, Thread
  <2>3. raced' = raced
    <3>1. threads'[c] # Idling  BY <2>2 DEF Idling
    <3> QED  BY <3>1 DEF GetProgramInfo
  <2>4. LoaderTypeOK'  BY <1>3, <2>1, <2>3 DEF LoaderTypeOK, Thread
  <2>5. UsersHold' /\ OneUser' /\ SameIsRaced' /\ LoadedAsRegistered'
    BY <1>1, <2>1, <2>2, <2>3 DEF UsersHold, Busy, Holds, OneUser, SameIsRaced, LoadedAsRegistered
  <2>6. CacheMatches'  BY <1>2, <1>3, <1>4, <2>1 DEF CacheMatches, Matches, Belongs
  <2>7. CookieIsUsed'  BY <1>3, <1>4, <2>1, <2>2 DEF CookieIsUsed
  <2>8. FileIsOpen'
    <3> SUFFICES ASSUME NEW d \in Launchers, d \notin raced', threads'[d].at = "got", IsCookie(threads'[d].handle),
                        cache'.handle = threads'[d].handle
                 PROVE  cache'.file = cache'.handle \/ \E p \in processes' : p.title = cache'.handle
      BY DEF FileIsOpen
    <3>1. threads'[d].handle = h /\ cache'.handle = h /\ threads[d].handle = h  BY <1>3, <1>4, <2>1, <2>2
    <3>2. d = c  BY <1>1, <2>3, <3>1, SameCookieSameTitle
    <3>3. CASE IsCached(cache, h)
      <4>1. cache.handle = h  BY <3>3 DEF IsCached
      <4>2. CASE \E p \in processes : p.handle = h
        <5>1. PICK p \in processes : p.handle = h  BY <4>2
        <5>2. p.title = h  BY <3>1, <5>1, UserOfHandle DEF UsersHold
        <5> QED  BY <2>1, <3>1, <5>2
      <4>3. CASE \E e \in Launchers : threads[e].at = "got" /\ threads[e].handle = h
        <5>1. PICK e \in Launchers : threads[e].at = "got" /\ threads[e].handle = h  BY <4>3
        <5>2. e # c  BY <1>1, <5>1
        <5>3. c \in raced  BY <1>1, <3>1, <5>1, <5>2, SameCookieSameTitle
        <5> QED  BY <2>3, <3>2, <5>3
      <4> QED  BY <3>1, <4>1, <4>2, <4>3 DEF CookieIsUsed
    <3>4. CASE ~IsCached(cache, h)
      BY <1>3, <1>4, <2>1, <3>1, <3>4
    <3> QED  BY <3>3, <3>4
  <2> QED  BY <2>4, <2>5, <2>6, <2>7, <2>8
<1>5. CASE ~success
  <2>1. /\ cache' = Forgotten(g, h) /\ programs' = Unregistered(h)
        /\ threads' = [threads EXCEPT ![c] = Idling] /\ UNCHANGED <<processes, broken>>
    BY <1>5 DEF GetProgramInfo, g
  <2>2. raced' = raced \ {c}
    <3>1. threads'[c] = Idling  BY <2>1 DEF LoaderTypeOK
    <3> QED  BY <3>1 DEF GetProgramInfo
  <2> QED  BY <1>1, <1>3, <1>5, <2>1, <2>2, ThreadLeaves
<1> QED  BY <1>4, <1>5

LEMMA LoadProcessKeeps ==
  ASSUME LoaderInv, broken = Nothing, NEW c \in Launchers, NEW outcome \in Outcomes, LoadProcess(c, outcome)
  PROVE  LoaderInv'
<1> USE NothingIsNone DEF LoaderInv
<1> DEFINE t == threads[c]
           h == t.handle
           g == Got(cache, h, outcome)
           success == outcome = "ok" \/ IsCached(cache, h)
           code == CASE g.exheader \in Homebrew -> "3dsx"
                     [] g.exheader \notin Homebrew /\ IsCookie(h) -> g.file
                     [] OTHER -> programs[h]
           fails == success /\ code = Nothing
           new == [title |-> t.title, handle |-> h, exheader |-> g.exheader, code |-> code, raced |-> c \in raced]
<1>1. Busy(c) /\ t.at = "got" /\ Holds(t) /\ (c \in raced \/ \A p \in processes : p.title # t.title)
  BY DEF LoadProcess, Busy, UsersHold
<1>2. /\ h \in Modules \cup Handles /\ h # Nothing /\ Belongs(h) = t.title /\ t.title # Nothing /\ t.title \in LoadedTitles
      /\ IsCookie(h) => t.title = h
      /\ ~IsCookie(h) => h \in Handles
  BY <1>1, UserOfHandle DEF Holds
<1>3. /\ g \in Cache /\ Matches(g)
      /\ success => g.handle = h /\ g.exheader = Belongs(h)
      /\ ~success => g.handle = Nothing
      /\ IsCached(cache, h) => g = cache
      /\ ~IsCached(cache, h) /\ outcome = "ok" /\ IsCookie(h) => g.file = h
      /\ ~IsCookie(h) => g.file = cache.file
  BY <1>2, GotMatches
<1>4. /\ broken' = IF fails THEN c ELSE Nothing
      /\ threads' = IF fails THEN threads ELSE [threads EXCEPT ![c] = Idling]
      /\ raced' = IF fails THEN raced ELSE raced \ {c}
      /\ programs' = programs
      /\ processes' = IF success /\ ~fails THEN processes \cup {new} ELSE processes
      /\ cache' = IF success /\ ~fails /\ IsCookie(h) THEN Invalidated(g) ELSE g
  BY DEF LoadProcess
<1> HIDE DEF g
<1>5. /\ cache' \in Cache /\ Matches(cache') /\ cache'.handle = g.handle /\ cache'.exheader = g.exheader
  <2>1. Invalidated(g) = [g EXCEPT !.file = Nothing, !.cookie = Nothing]  BY DEF Invalidated, Reopened
  <2> QED  BY <1>3, <1>4, <2>1, NothingIsNone DEF Cache, Matches, Belongs
\* The code is that of the title.
<1>6. success /\ c \notin raced => g.exheader = t.title /\ code = IF t.title \in Homebrew THEN "3dsx" ELSE t.title
  <2> SUFFICES ASSUME success, c \notin raced
               PROVE  g.exheader = t.title /\ code = IF t.title \in Homebrew THEN "3dsx" ELSE t.title
    OBVIOUS
  <2>1. g.exheader = t.title  BY <1>2, <1>3
  <2>2. CASE IsCookie(h)
    <3>1. g.file = h
      <4>1. CASE IsCached(cache, h)
        <5>1. cache.handle = h  BY <4>1 DEF IsCached
        <5>2. ~ \E p \in processes : p.title = h  BY <1>1, <1>2, <2>2
        <5>3. cache.file = h  BY <1>1, <2>2, <5>1, <5>2 DEF FileIsOpen
        <5> QED  BY <1>3, <4>1, <5>3
      <4>2. CASE ~IsCached(cache, h)  BY <1>3, <2>2, <4>2
      <4> QED  BY <4>1, <4>2
    <3> QED  BY <1>2, <2>1, <2>2, <3>1
  <2>3. CASE ~IsCookie(h)
    <3>1. programs[h] = t.title  BY <1>2, <2>3 DEF Belongs
    <3> QED  BY <2>1, <2>3, <3>1
  <2> QED  BY <2>2, <2>3
<1>7. code \in LoadedTitles \cup {Nothing, "3dsx"}
  BY <1>2, <1>3 DEF Cache, LoaderTypeOK, LoadedTitles
<1>17. "3dsx" # Nothing  BY DEF Nothing
<1>18. fails => c \in raced  BY <1>2, <1>6, <1>17
<1> HIDE DEF code, success
<1>8. /\ \A d \in Launchers \ {c} : threads'[d] = threads[d]
      /\ ~fails => threads'[c] = Idling
  BY <1>4 DEF LoaderTypeOK
<1>9. LoaderTypeOK'
  <2>1. new \in Process  BY <1>2, <1>3, <1>7 DEF Process, Cache, LoadedTitles
  <2>2. processes' \subseteq Process  BY <1>4, <2>1 DEF LoaderTypeOK
  <2> HIDE DEF fails, new
  <2>3. threads' \in [Launchers -> Thread] /\ raced' \subseteq Launchers
    BY <1>4 DEF LoaderTypeOK, Thread, Idling
  <2> QED  BY <1>4, <1>5, <2>2, <2>3 DEF LoaderTypeOK
<1>10. UsersHold'
  <2>1. Holds(new) /\ \A u : Holds(u) => Holds(u)'  BY <1>1, <1>4 DEF Holds
  <2>2. \A p \in processes' : Holds(p)'
    <3>1. \A p \in processes \cup {new} : Holds(p)  BY <2>1 DEF UsersHold
    <3>2. processes' \subseteq processes \cup {new}  BY <1>4
    <3> QED  BY <2>1, <3>1, <3>2
  <2>3. \A d \in Launchers : IF Busy(d)' THEN Holds(threads[d])' ELSE threads'[d] = Idling
    BY <1>4, <1>8, <2>1 DEF UsersHold, Busy, Idling, Holds
  <2> QED  BY <2>2, <2>3 DEF UsersHold
<1>11. OneUser'
  <2>1. CASE success /\ ~fails
    <3>1. processes' = processes \cup {new} /\ threads'[c] = Idling  BY <1>4, <1>8, <2>1
    <3>2. new.handle = h  OBVIOUS
    <3> HIDE DEF new, fails
    <3> QED  BY <1>8, <3>1, <3>2 DEF OneUser, Idling
  <2>2. CASE ~(success /\ ~fails)
    <3>1. processes' = processes  BY <1>4, <2>2
    <3> HIDE DEF fails
    <3> QED  BY <1>4, <1>8, <3>1 DEF OneUser, Idling
  <2> QED  BY <2>1, <2>2
<1>12. CacheMatches'  BY <1>2, <1>3, <1>4, <1>5 DEF CacheMatches, Matches, Belongs
<1>13. CookieIsUsed'
  <2>1. CASE ~success  BY <1>3, <1>5, <2>1 DEF CookieIsUsed, IsCookie
  <2>2. CASE fails  BY <1>1, <1>3, <1>4, <1>5, <2>2 DEF CookieIsUsed
  <2>3. CASE success /\ ~fails
    <3>1. new \in processes'  BY <1>4, <2>3
    <3>2. new.handle = h /\ cache'.handle = h  BY <1>3, <1>5, <2>3
    <3> HIDE DEF new
    <3> QED  BY <3>1, <3>2 DEF CookieIsUsed
  <2> QED  BY <2>1, <2>2, <2>3
<1>14. SameIsRaced'  BY <1>4, <1>8 DEF SameIsRaced, Idling
<1>15. FileIsOpen'
  <2> SUFFICES ASSUME NEW d \in Launchers, d \notin raced', threads'[d].at = "got", IsCookie(threads'[d].handle),
                      cache'.handle = threads'[d].handle
               PROVE  FALSE
    BY DEF FileIsOpen
  <2>1. success /\ cache'.handle = h  BY <1>3, <1>5 DEF IsCookie
  <2>2. CASE d = c
    <3>1. fails /\ c \notin raced  BY <1>4, <1>8, <2>2 DEF Idling
    <3> QED  BY <1>18, <3>1
  <2>3. CASE d # c
    <3>1. d \notin raced /\ threads[d].handle = h  BY <1>4, <1>8, <2>1, <2>3
    <3> QED  BY <1>1, <2>1, <2>3, <3>1, SameCookieSameTitle
  <2> QED  BY <2>2, <2>3
<1>16. LoadedAsRegistered'
  <2>1. broken' \in {Nothing} \cup raced'  BY <1>4, <1>18
  <2>2. success => new.raced \/ (new.exheader = new.title
                                 /\ new.code = IF new.title \in Homebrew THEN "3dsx" ELSE new.title)
    BY <1>6
  <2> HIDE DEF new, fails
  <2> QED  BY <1>4, <2>1, <2>2 DEF LoadedAsRegistered
<1> QED  BY <1>9, <1>10, <1>11, <1>12, <1>13, <1>14, <1>15, <1>16
-----------------------------------------------------------------------------
\* Initially nothing is cached, registered or running.
LEMMA InitLoaderInv == LoaderInit => LoaderInv
<1> SUFFICES ASSUME LoaderInit PROVE LoaderInv  OBVIOUS
<1> USE NothingIsNone DEF LoaderInit
<1>1. LoaderTypeOK /\ UsersHold /\ OneUser
  BY DEF LoaderTypeOK, UsersHold, OneUser, Cache, Thread, Idling, Busy
<1>2. CacheMatches /\ CookieIsUsed /\ SameIsRaced /\ FileIsOpen /\ LoadedAsRegistered
  BY DEF CacheMatches, Matches, CookieIsUsed, SameIsRaced, FileIsOpen, LoadedAsRegistered, IsCookie, Idling
<1> QED  BY <1>1, <1>2 DEF LoaderInv

LEMMA NextLoaderInv == LoaderInv /\ [LoaderNext]_lcVars => LoaderInv'
<1> SUFFICES ASSUME LoaderInv, [LoaderNext]_lcVars PROVE LoaderInv'  OBVIOUS
<1>1. ASSUME NEW c \in Launchers, NEW title \in LoadedTitles, Register(c, title), broken = Nothing PROVE LoaderInv'
  BY <1>1, RegisterKeeps
<1>2. ASSUME NEW c \in Launchers, NEW outcome \in Outcomes, GetProgramInfo(c, outcome), broken = Nothing
      PROVE LoaderInv'
  BY <1>2, GetProgramInfoKeeps
<1>3. ASSUME NEW c \in Launchers, NEW outcome \in Outcomes, LoadProcess(c, outcome), broken = Nothing
      PROVE LoaderInv'
  BY <1>3, LoadProcessKeeps
<1>4. ASSUME NEW c \in Launchers, Told(c), broken = Nothing PROVE LoaderInv'
  BY <1>4, ToldKeeps
<1>5. ASSUME NEW p \in processes, End(p) PROVE LoaderInv'
  BY <1>5, EndKeeps
<1>6. ASSUME NEW p \in processes, NEW outcome \in Outcomes, Ask(p, outcome) PROVE LoaderInv'
  BY <1>6, AskKeeps
<1>7. CASE DisableNextGamePatch \/ UNCHANGED lcVars
  <2>1. UNCHANGED <<cache, programs, threads, processes, raced, broken>>
    BY <1>7 DEF DisableNextGamePatch, lcVars
  <2> QED
    BY <2>1 DEF LoaderInv, LoaderTypeOK, UsersHold, Holds, Busy, OneUser, CacheMatches, Matches, Belongs,
                CookieIsUsed, SameIsRaced, FileIsOpen, LoadedAsRegistered
<1> QED  BY <1>1, <1>2, <1>3, <1>4, <1>5, <1>6, <1>7 DEF LoaderNext, LoadedTitles

\* Whatever other threads ask about, clean up or fail to read meanwhile, a process gets
\* the exheader and the code of what its thread registered (loader.c).
THEOREM LoadsWhatIsRegistered == LoaderSpec => []LoadedAsRegistered
<1>1. LoaderInv => LoadedAsRegistered  BY DEF LoaderInv
<1> QED  BY <1>1, InitLoaderInv, NextLoaderInv, PTL DEF LoaderSpec
=============================================================================
