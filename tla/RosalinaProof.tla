---------------------------- MODULE RosalinaProof ----------------------------
(***************************************************************************)
(* The task runner that Rosalina and pm have, for any number of threads    *)
(* and tasks; the plugin loader, which hands it the clearing away of a     *)
(* plugin, for any number of applications; and the tables of sessions (of  *)
(* the kernel extension) and of breakpoints, of any size.                  *)
(***************************************************************************)
EXTENDS TaskRunner, PluginLoader, K11Sessions, GDBBreakpoints, SequenceTheorems,
        WellFoundedInduction, TLAPS
-----------------------------------------------------------------------------
(* The task runner.                                                        *)

\* What makes the ownership of the slot inductive: a caller that is past its
\* wait has something to hand over, and the slot holds what was handed over.
SlotInv ==
  /\ TypeOK /\ OneOwner
  /\ \A c \in Callers : at[c] \in {"wait", "write", "signal"} => job[c] \in Jobs
  /\ \A c \in Callers : at[c] = "signal" => slot = job[c]
  /\ parametersSet \/ runner = "run" => slot \in Jobs

\* The runner has nothing to do when it starts.
LEMMA SlotInit == Init => SlotInv
  BY DEF Init, SlotInv, TypeOK, OneOwner, Writing, Jobs

LEMMA SlotStep == SlotInv /\ [Next]_vars => SlotInv'
<1> SUFFICES ASSUME SlotInv, [Next]_vars PROVE SlotInv'
  OBVIOUS
<1> USE DEF SlotInv, TypeOK, OneOwner, Writing, Jobs
<1>1. ASSUME NEW c \in Callers, NEW j \in Tasks, RunTask(c, j) PROVE SlotInv'
  BY <1>1 DEF RunTask
<1>2. ASSUME NEW c \in Callers, CallerWaits(c) PROVE SlotInv'
  BY <1>2 DEF CallerWaits
<1>3. ASSUME NEW c \in Callers, CallerWrites(c) PROVE SlotInv'
  BY <1>3 DEF CallerWrites
<1>4. ASSUME NEW c \in Callers, CallerSignals(c) PROVE SlotInv'
  BY <1>4 DEF CallerSignals
<1>5. ASSUME NEW c \in Terminators, Terminate(c) PROVE SlotInv'
  <2>1. c \in Callers
    BY TerminatorsAssumption
  <2> QED  BY <1>5, <2>1 DEF Terminate
<1>6. CASE RunnerChecks
  BY <1>6 DEF RunnerChecks
<1>7. CASE RunnerStarts
  BY <1>7 DEF RunnerStarts
<1>8. CASE RunnerFinishes
  BY <1>8 DEF RunnerFinishes
<1>9. CASE UNCHANGED vars
  BY <1>9 DEF vars
<1> QED  BY <1>1, <1>2, <1>3, <1>4, <1>5, <1>6, <1>7, <1>8, <1>9
         DEF Next, CallerSteps, RunnerSteps, Ended

\* The slot belongs to one thread at a time (TaskRunner_RunTask and
\* TaskRunner_HandleTasks), whatever the number of callers.
THEOREM SlotHasOneOwner == Spec => []OneOwner
<1>1. SlotInv => OneOwner
  BY DEF SlotInv
<1> QED  BY <1>1, SlotInit, SlotStep, PTL DEF Spec

LEMMA HandoffStep ==
  SlotInv /\ [Next]_vars => [Handoff!HNext]_<<IF parametersSet THEN slot ELSE NoJob,
                                              IF runner = "run" THEN slot ELSE NoJob>>
<1> DEFINE handed == IF parametersSet THEN slot ELSE NoJob
           running == IF runner = "run" THEN slot ELSE NoJob
<1> SUFFICES ASSUME SlotInv, [Next]_vars
             PROVE  Handoff!HNext \/ UNCHANGED <<handed, running>>
  OBVIOUS
<1>1. ASSUME NEW c \in Callers, \/ \E j \in Tasks : RunTask(c, j)
                                \/ CallerWaits(c)
      PROVE  UNCHANGED <<handed, running>>
  BY <1>1 DEF RunTask, CallerWaits
<1>2. ASSUME NEW c \in Callers, CallerWrites(c) PROVE UNCHANGED <<handed, running>>
  BY <1>2 DEF CallerWrites, SlotInv, OneOwner, Writing
<1>3. ASSUME NEW c \in Callers, CallerSignals(c) PROVE Handoff!Submit(job[c])
  <2>1. c \in Writing /\ slot = job[c] /\ job[c] \in Jobs
    BY <1>3 DEF CallerSignals, SlotInv, Writing
  <2>2. ~parametersSet /\ runner = "wait"
    BY <2>1 DEF SlotInv, OneOwner
  <2> QED  BY <1>3, <2>1, <2>2 DEF CallerSignals, Handoff!Submit
<1>4. ASSUME NEW c \in Terminators, Terminate(c) PROVE UNCHANGED <<handed, running>>
  BY <1>4 DEF Terminate
<1>5. CASE RunnerChecks
  BY <1>5 DEF RunnerChecks
<1>6. CASE RunnerStarts
  <2>1. Handoff!Start
    BY <1>6, NoJobAssumption DEF RunnerStarts, Handoff!Start, SlotInv
  <2> QED  BY <2>1 DEF Handoff!HNext
<1>7. CASE RunnerFinishes
  <2>1. ~parametersSet
    BY <1>7 DEF RunnerFinishes, SlotInv, OneOwner
  <2>2. Handoff!Finish
    BY <1>7, <2>1, NoJobAssumption DEF RunnerFinishes, Handoff!Finish, SlotInv
  <2> QED  BY <2>2 DEF Handoff!HNext
<1>8. CASE UNCHANGED vars
  BY <1>8 DEF vars
<1>9. ASSUME NEW c \in Callers, CallerSignals(c) PROVE Handoff!HNext
  <2>1. job[c] \in Jobs
    BY <1>9 DEF CallerSignals, SlotInv
  <2> QED  BY <1>3, <1>9, <2>1 DEF Handoff!HNext
<1> QED  BY <1>1, <1>2, <1>4, <1>5, <1>6, <1>7, <1>8, <1>9
         DEF Next, CallerSteps, RunnerSteps, Ended

\* Every task is run once, alone, and with the parameters it was asked for:
\* the events of task_runner.c implement TaskHandoff.
THEOREM RunnerImplementsHandoff == Spec => ImplementsHandoff
<1>1. Init => Handoff!HInit
  BY DEF Init, Handoff!HInit
<1> QED  BY <1>1, SlotInit, SlotStep, HandoffStep, PTL
         DEF Spec, ImplementsHandoff, Handoff!HSpec
-----------------------------------------------------------------------------
(* The plugin loader.  An event is handled from its signal to the wake-up, *)
(* step by step, and one thread waits for that; the invariant says where   *)
(* the plugin is at each of the steps, by the status word.                 *)

Event == {"home", "exit"}
HandlesHome == {"awaitsSwap", "restores", "resumes", "awaitsHome"}
HandlesExit == {"awaitsExit", "runsTask"}

Contexts == [target : Apps \cup {NoApp}, isReady : BOOLEAN, swapped : BOOLEAN, home : BOOLEAN,
             swaps : BOOLEAN]
PluginWords == [status : {"none", "running", "inhome", "exiting"}, events : SUBSET Event]

PluginTypeOK ==
  /\ app \in [Apps -> {"none", "loading", "alive", "signals", "exits", "dead"}]
  /\ signalOnExit \subseteq Apps /\ locked \subseteq Apps /\ mapped \subseteq Apps
  /\ cfg \in PluginWords
  /\ notified \in Nat /\ woken \in BOOLEAN /\ atHome \in BOOLEAN /\ irregular \in BOOLEAN
  /\ plgCtx \in Contexts
  /\ block \in Apps \cup {NoApp} /\ swapFile \in Apps \cup {NoApp}
  /\ main \in {"idle", "loads", "loaded", "publishes"} \cup HandlesHome \cup HandlesExit
  /\ plgTask \in {"idle", "waits", "resets"}

\* Applications are launched one after the other.
OneAtATime == \A a, b \in Apps : b < a /\ app[a] # "none" => app[b] = "dead"

\* A thread that signals waits for the one step that its event is at: notified, handled,
\* or woken; and there is no event of nobody.
Waiting == \E a \in Apps : app[a] \in {"signals", "exits"}
SignalIsHandled ==
  /\ notified \in {0, 1}
  /\ Waiting <=> notified = 1 \/ woken \/ main \in {"publishes"} \cup HandlesHome \cup HandlesExit
  /\ notified = 1 => ~woken /\ main = "idle"
  /\ woken => main = "idle"
  /\ \A a \in Apps : app[a] \in {"signals", "exits"} => a \in signalOnExit

\* What an application signals is what the main thread finds, and handles.
EventIsKnown ==
  /\ \A a \in Apps : app[a] = "signals" =>
       /\ cfg.status \in {"running", "inhome"} /\ plgCtx.target = a
       /\ main \notin HandlesExit
       /\ cfg.events = IF notified = 1 \/ main \in HandlesHome THEN {"home"} ELSE {}
  /\ \A a \in Apps : app[a] = "exits" =>
       /\ main \notin HandlesHome
       /\ cfg.events = IF notified = 1 THEN {"exit"} ELSE {}
       /\ notified = 1 => cfg.status = "running"
       /\ notified = 0 => cfg.status \in {"exiting", "none"}
  /\ ~Waiting => cfg.events = {}

\* The plugin of an application, in its memory or swapped out.
Has(a) == plgCtx.isReady /\ block = a /\ a \in mapped /\ a \notin locked
SwappedOut(a) == ~plgCtx.isReady /\ swapFile = a /\ a \notin mapped /\ a \in locked

\* Nothing of a plugin is there until one is loaded, and again at the end.
NoneUntilLoaded ==
  /\ cfg.status = "none" =>
       /\ plgTask = "idle" /\ ~plgCtx.swapped /\ ~plgCtx.home
       /\ main \in {"idle", "loads", "loaded", "publishes"}
       /\ main # "loaded" => ~plgCtx.isReady
       /\ main \in {"idle", "publishes"} => plgCtx.target = NoApp
  /\ main \in {"loads", "loaded"} =>
       cfg.status = "none" /\ plgCtx.target \in Apps /\ app[plgCtx.target] = "loading"
  /\ main = "loaded" => plgCtx.target \in signalOnExit /\ Has(plgCtx.target)

\* A plugin that was loaded is where the status says.
PluginIsThere ==
  /\ cfg.status \in {"running", "inhome"} =>
       /\ plgCtx.target \in Apps /\ plgCtx.target \in signalOnExit /\ Lives(plgCtx.target) /\ plgTask = "idle"
       /\ IF plgCtx.swapped THEN SwappedOut(plgCtx.target) ELSE Has(plgCtx.target)
       /\ plgCtx.swapped <=> plgCtx.swaps /\ cfg.status = "inhome" /\ main # "resumes"
       /\ plgCtx.home <=> ~plgCtx.swaps /\ cfg.status = "inhome"
  /\ main = "awaitsSwap" => plgCtx.swaps /\ cfg.status = "running"
  /\ main = "restores" => plgCtx.swaps /\ cfg.status = "inhome"
  /\ main = "resumes" => plgCtx.swaps /\ cfg.status = "inhome"
  /\ main = "awaitsHome" => ~plgCtx.swaps
  /\ \A a \in locked : plgCtx.swapped /\ plgCtx.target = a

\* Who is flagged had a plugin loaded and has it until the exit, and INHOME means that HOME is shown, so
\* that no application exits unnoticed.
FlaggedHasPlugin ==
  \A a \in signalOnExit :
   /\ app[a] # "none" /\ (app[a] = "loading" => main = "loaded")
   /\ app[a] \in {"alive", "signals"} =>
    /\ cfg.status \in {"running", "inhome"} /\ plgCtx.target = a
    /\ app[a] = "alive" /\ cfg.status = "inhome" => atHome
    /\ app[a] = "signals" /\ cfg.status = "inhome" /\ main \notin HandlesHome /\ notified = 0
         => atHome
    /\ app[a] = "signals" /\ cfg.status = "running" /\ (main \in HandlesHome \/ notified = 1)
         => atHome

\* An exit that was handled is followed by the task, and by nothing else.
ExitIsUnderWay ==
  /\ cfg.status = "exiting" =>
       /\ \/ main \in HandlesExit /\ plgTask = "idle"
          \/ main \in {"publishes", "idle"} /\ plgTask \in {"waits", "resets"}
       /\ \A a \in Apps : app[a] \in {"none", "exits", "dead"}
       /\ ~plgCtx.swapped /\ ~plgCtx.home
  /\ plgTask # "idle" \/ main \in HandlesExit => cfg.status = "exiting"
  /\ plgTask = "resets" => ~plgCtx.isReady

Regular ==
  SignalIsHandled /\ EventIsKnown /\ NoneUntilLoaded /\ PluginIsThere /\ FlaggedHasPlugin
  /\ ExitIsUnderWay

PluginInv == PluginTypeOK /\ OneAtATime /\ (~irregular => Regular)
-----------------------------------------------------------------------------
LEMMA OneIsThere ==
  ASSUME AppsOK, OneAtATime, NEW a \in Apps, NEW b \in Apps,
         app[a] \notin {"none", "dead"}, app[b] \notin {"none", "dead"}
  PROVE  a = b
<1>1. a \in Nat /\ b \in Nat
  BY DEF AppsOK
<1>2. ~(a < b) /\ ~(b < a)
  BY DEF OneAtATime
<1> QED  BY <1>1, <1>2

\* The records, field by field.
LEMMA ContextFields ==
  ASSUME NEW c \in Contexts
  PROVE  /\ c.target \in Apps \cup {NoApp} /\ c.isReady \in BOOLEAN /\ c.swapped \in BOOLEAN
         /\ c.home \in BOOLEAN /\ c.swaps \in BOOLEAN
BY DEF Contexts

LEMMA ContextChanges ==
  ASSUME NEW c \in Contexts, NEW a \in Apps \cup {NoApp}, NEW b \in BOOLEAN
  PROVE  /\ [c EXCEPT !.target = a] \in Contexts /\ Freed(c) \in Contexts
         /\ [c EXCEPT !.swapped = b] \in Contexts /\ [c EXCEPT !.home = b] \in Contexts
         /\ [c EXCEPT !.isReady = TRUE, !.swaps = b] \in Contexts
         /\ [c EXCEPT !.isReady = TRUE, !.swapped = FALSE] \in Contexts
         /\ [c EXCEPT !.swapped = FALSE, !.home = FALSE, !.target = NoApp, !.swaps = TRUE] \in Contexts
<1>1. [c EXCEPT !.target = a] \in Contexts /\ Freed(c) \in Contexts
  BY DEF Contexts, Freed
<1>2. [c EXCEPT !.swapped = b] \in Contexts /\ [c EXCEPT !.home = b] \in Contexts
  BY DEF Contexts
<1>3. [c EXCEPT !.isReady = TRUE, !.swaps = b] \in Contexts
  BY DEF Contexts
<1>4. [c EXCEPT !.isReady = TRUE, !.swapped = FALSE] \in Contexts
  BY DEF Contexts
<1>5. [c EXCEPT !.swapped = FALSE, !.home = FALSE, !.target = NoApp, !.swaps = TRUE] \in Contexts
  BY DEF Contexts
<1> QED  BY <1>1, <1>2, <1>3, <1>4, <1>5

LEMMA WordFields ==
  ASSUME NEW w \in PluginWords
  PROVE  /\ w.status \in {"none", "running", "inhome", "exiting"} /\ w.events \subseteq Event
         /\ \A e \in Event : w.events \cup {e} \in SUBSET Event
         /\ w = [status |-> w.status, events |-> w.events]
BY DEF PluginWords

LEMMA WordChanges ==
  ASSUME NEW w \in PluginWords, NEW e \in Event
  PROVE  [w EXCEPT !.events = @ \cup {e}] \in PluginWords
BY DEF PluginWords

LEMMA NewWords ==
  \A st \in {"none", "running", "inhome", "exiting"} : [status |-> st, events |-> {}] \in PluginWords
BY DEF PluginWords

LEMMA PluginFields ==
  ASSUME PluginTypeOK
  PROVE  /\ plgCtx.target \in Apps \cup {NoApp} /\ plgCtx.isReady \in BOOLEAN /\ plgCtx.swapped \in BOOLEAN
         /\ plgCtx.home \in BOOLEAN /\ plgCtx.swaps \in BOOLEAN
         /\ cfg.status \in {"none", "running", "inhome", "exiting"}
         /\ signalOnExit \subseteq Apps /\ locked \subseteq Apps
BY ContextFields, WordFields DEF PluginTypeOK

LEMMA PluginInitHolds ==
  ASSUME PluginInit
  PROVE  PluginInv
<1> USE DEF PluginInit
<1>1. PluginTypeOK
  BY DEF PluginTypeOK, Contexts, PluginWords, HandlesHome, HandlesExit, Event
<1>2. /\ plgCtx.target = NoApp /\ ~plgCtx.isReady /\ ~plgCtx.swapped /\ ~plgCtx.home
      /\ cfg.status = "none" /\ cfg.events = {}
  OBVIOUS
<1>3. SignalIsHandled /\ EventIsKnown /\ NoneUntilLoaded
  BY <1>2 DEF SignalIsHandled, Waiting, EventIsKnown, NoneUntilLoaded, HandlesHome, HandlesExit
<1>4. PluginIsThere /\ FlaggedHasPlugin /\ ExitIsUnderWay
  BY <1>2 DEF PluginIsThere, FlaggedHasPlugin, ExitIsUnderWay, HandlesExit
<1> QED  BY <1>1, <1>3, <1>4 DEF PluginInv, OneAtATime, Regular

LEMMA PluginTypes ==
  ASSUME AppsOK, PluginTypeOK, PluginNext
  PROVE  PluginTypeOK'
<1> USE DEF PluginTypeOK, HandlesHome, HandlesExit, kernel, memory, pluginHistory
<1>1. ASSUME NEW a \in Apps, Launch(a) PROVE PluginTypeOK'
  BY <1>1 DEF Launch
<1>2. ASSUME NEW a \in Apps, Resume(a) PROVE PluginTypeOK'
  BY <1>2 DEF Resume
<1>3. ASSUME NEW a \in Apps, Exit(a) PROVE PluginTypeOK'
  <2>1. cfg' \in PluginWords
    BY <1>3, WordChanges DEF Exit, Signal, Event
  <2> QED  BY <1>3, <2>1 DEF Exit, Signal
<1>4. ASSUME NEW a \in Apps, Kill(a) PROVE PluginTypeOK'
  BY <1>4 DEF Kill
<1>5. ASSUME NEW a \in Apps, NEW c, Parameter(a, c) PROVE PluginTypeOK'
  <2>1. cfg' \in PluginWords
    BY <1>5, WordChanges DEF Parameter, Signal, Event
  <2>2. app' = app \/ app' = [app EXCEPT ![a] = "signals"]
    BY <1>5 DEF Parameter, Signal
  <2>3. notified' \in {notified, notified + 1} /\ atHome' \in {TRUE, FALSE, atHome}
    BY <1>5 DEF Parameter, Signal
  <2>4. app' \in [Apps -> {"none", "loading", "alive", "signals", "exits", "dead"}]
    BY <2>2
  <2>5. notified' \in Nat
    BY <2>3
  <2>6. atHome' \in BOOLEAN
    BY <2>3
  <2> QED  BY <1>5, <2>1, <2>4, <2>5, <2>6 DEF Parameter
<1>6. ASSUME NEW a \in Apps, LoadStarts(a), UNCHANGED pluginHistory PROVE PluginTypeOK'
  <2>1. plgCtx' \in Contexts
    BY Zenon, <1>6, ContextChanges DEF LoadStarts
  <2> QED  BY <1>6, <2>1 DEF LoadStarts
<1>7. ASSUME NEW a \in Apps, LoadFails(a), UNCHANGED pluginHistory PROVE PluginTypeOK'
  <2>1. [plgCtx EXCEPT !.target = NoApp] \in Contexts
    BY Zenon, ContextChanges
  <2>2. plgCtx' \in Contexts
    BY Zenon, <1>7, <2>1, ContextChanges DEF LoadFails
  <2> QED  BY <1>7, <2>2 DEF LoadFails
<1>8. ASSUME NEW a \in Apps, LoadMounts(a), UNCHANGED pluginHistory PROVE PluginTypeOK'
  <2>1. plgCtx' \in Contexts
    BY Zenon, <1>8, ContextChanges DEF LoadMounts
  <2> QED  BY <1>8, <2>1, ContextFields DEF LoadMounts
<1>9. ASSUME NEW a \in Apps, LoadDone(a), UNCHANGED pluginHistory PROVE PluginTypeOK'
  BY <1>9, NewWords DEF LoadDone
<1>10. CASE HandleKernelEvent /\ UNCHANGED pluginHistory
  <2>1. cfg' \in PluginWords
    BY <1>10, NewWords DEF HandleKernelEvent
  <2>2. notified' \in Nat
    BY <1>10 DEF HandleKernelEvent
  <2>3. main' \in {"publishes"} \cup HandlesHome \cup HandlesExit
    BY <1>10 DEF HandleKernelEvent
  <2> QED  BY <1>10, <2>1, <2>2, <2>3 DEF HandleKernelEvent
<1>11. CASE (ExitReplied \/ RunsTask \/ Publishes) /\ UNCHANGED pluginHistory
  <2>1. main' \in {"idle", "publishes", "runsTask"} /\ plgTask' \in {plgTask, "waits"}
        /\ woken' \in {woken, TRUE}
    BY <1>11 DEF ExitReplied, RunsTask, Publishes
  <2> QED  BY <1>11, <2>1 DEF ExitReplied, RunsTask, Publishes
<1>12. CASE SwapReplied /\ UNCHANGED pluginHistory
  <2>1. [plgCtx EXCEPT !.swapped = TRUE] \in Contexts
    BY Zenon, ContextChanges
  <2>2. plgCtx' \in Contexts
    BY Zenon, <1>12, <2>1, ContextChanges DEF SwapReplied
  <2>3. cfg' \in PluginWords
    BY Zenon, <1>12, NewWords DEF SwapReplied
  <2>4. plgCtx.target \in Apps \cup {NoApp}
    BY ContextFields
  <2> QED  BY <1>12, <2>2, <2>3, <2>4 DEF SwapReplied
<1>13. CASE Restores /\ UNCHANGED pluginHistory
  <2>1. plgCtx' \in Contexts
    BY Zenon, <1>13, ContextChanges DEF Restores
  <2> QED  BY <1>13, <2>1, ContextFields DEF Restores
<1>14. CASE Resumes /\ UNCHANGED pluginHistory
  BY <1>14, NewWords DEF Resumes
<1>15. CASE HomeReplied /\ UNCHANGED pluginHistory
  <2>1. plgCtx' \in Contexts
    BY Zenon, <1>15, ContextChanges, ContextFields DEF HomeReplied
  <2>2. cfg' \in PluginWords
    BY <1>15, NewWords DEF HomeReplied
  <2>3. /\ plgTask' = plgTask /\ main' = "publishes"
        /\ UNCHANGED <<app, memory, kernel, pluginHistory>>
    BY <1>15 DEF HomeReplied
  <2> QED  BY <2>1, <2>2, <2>3
<1>16. CASE TaskFrees /\ UNCHANGED pluginHistory
  <2>1. plgCtx' \in Contexts
    BY Zenon, <1>16, ContextChanges DEF TaskFrees
  <2> QED  BY <1>16, <2>1 DEF TaskFrees
<1>17. CASE TaskResets /\ UNCHANGED pluginHistory
  <2>1. plgCtx' \in Contexts
    BY Zenon, <1>17, ContextChanges DEF TaskResets
  <2>2. cfg' \in PluginWords
    BY <1>17, NewWords DEF TaskResets
  <2>3. /\ plgTask' = "idle" /\ main' = main
        /\ UNCHANGED <<app, memory, kernel, pluginHistory>>
    BY <1>17 DEF TaskResets
  <2> QED  BY <2>1, <2>2, <2>3
<1>18. CASE PluginSteps /\ UNCHANGED pluginHistory
  BY <1>18 DEF PluginSteps, PluginReads, PluginReplies, PluginResumes
<1> QED
  BY <1>1, <1>2, <1>3, <1>4, <1>5, <1>6, <1>7, <1>8, <1>9, <1>10, <1>11, <1>12, <1>13, <1>14,
     <1>15, <1>16, <1>17, <1>18 DEF PluginNext, RosalinaSteps

\* An application is launched when the others have ended, and none begins again.
LEMMA OneAtATimeKept ==
  ASSUME AppsOK, PluginTypeOK, OneAtATime, PluginNext
  PROVE  OneAtATime'
<1> USE DEF PluginTypeOK
<1>1. ASSUME NEW a \in Apps, Launch(a)
      PROVE  OneAtATime'
  BY <1>1 DEF Launch, OneAtATime, AppsOK
<1>2. \/ \E a \in Apps : Launch(a)
      \/ /\ \A a \in Apps : app'[a] # "none" => app[a] # "none"
         /\ \A a \in Apps : app[a] = "dead" => app'[a] = "dead"
  <2>1. CASE app' = app
    BY <2>1
  <2>2. ASSUME NEW a \in Apps, app[a] \notin {"none", "dead"}, NEW v, app' = [app EXCEPT ![a] = v]
        PROVE  /\ \A b \in Apps : app'[b] # "none" => app[b] # "none"
               /\ \A b \in Apps : app[b] = "dead" => app'[b] = "dead"
    BY <2>2
  <2>3. \A a \in Apps : Resume(a) \/ Exit(a) \/ Kill(a) \/ LoadFails(a) \/ LoadDone(a)
                          \/ (\E c \in {"response", "wakeup", "other"} : Parameter(a, c))
          => app' = app \/ (app[a] \notin {"none", "dead"} /\ \E v : app' = [app EXCEPT ![a] = v])
    BY DEF Resume, Exit, Kill, Parameter, Signal, Lives, LoadFails, LoadDone
  <2>4. (\E a \in Apps : LoadStarts(a) \/ LoadMounts(a)) \/ HandleKernelEvent \/ ExitReplied
          \/ RunsTask \/ SwapReplied \/ Restores \/ Resumes \/ HomeReplied \/ Publishes \/ TaskFrees
          \/ TaskResets \/ PluginSteps
          => app' = app
    BY DEF LoadStarts, LoadMounts, HandleKernelEvent, ExitReplied, RunsTask, SwapReplied, Restores,
       Resumes, HomeReplied, Publishes, TaskFrees, TaskResets, PluginSteps, PluginReads,
       PluginReplies, PluginResumes
  <2>5. \/ app' = app \/ \E a \in Apps : Launch(a)
        \/ \E a \in Apps : app[a] \notin {"none", "dead"} /\ \E v : app' = [app EXCEPT ![a] = v]
    BY <2>3, <2>4 DEF PluginNext, RosalinaSteps
  <2> QED  BY <2>1, <2>2, <2>5
<1> QED  BY <1>1, <1>2 DEF OneAtATime
\* Before a launch nothing of the last application is left.
LEMMA LaunchRegular ==
  ASSUME AppsOK, PluginTypeOK, OneAtATime, ~irregular => Regular,
         NEW a \in Apps, Launch(a), ~irregular'
  PROVE  Regular'
<1>1. /\ ~irregular /\ main = "idle" /\ plgTask = "idle" /\ app[a] = "none"
      /\ \A b \in Apps : app'[b] = IF b = a THEN "loading" ELSE app[b]
      /\ UNCHANGED <<atHome, cfg, plgCtx, block, swapFile, mapped, locked, signalOnExit, notified, woken,
                     main, plgTask>>
  BY DEF Launch, PluginTypeOK, memory, kernel
<1>2. Regular
  BY <1>1
<1>3. \A b \in Apps : app[b] \in {"none", "dead"}
  <2> SUFFICES ASSUME NEW b \in Apps, app[b] \notin {"none", "dead"}
               PROVE  FALSE
    OBVIOUS
  <2>1. a \in Nat /\ b \in Nat /\ a # b
    BY <1>1 DEF AppsOK
  <2>2. ~(b < a)
    BY DEF Launch
  <2>3. ~(a < b)
    BY <1>1 DEF OneAtATime
  <2> QED  BY <2>1, <2>2, <2>3
<1>4. cfg.status = "none"
  <2>1. cfg.status # "exiting"
    BY <1>1, <1>2 DEF Regular, ExitIsUnderWay, HandlesExit
  <2>2. cfg.status \notin {"running", "inhome"}
    BY <1>2, <1>3 DEF Regular, PluginIsThere, Lives
  <2> QED  BY <2>1, <2>2, PluginFields
<1>5. SignalIsHandled' /\ EventIsKnown'
  <2>1. ~Waiting /\ ~Waiting'
    BY <1>1, <1>3 DEF Waiting
  <2> QED  BY <1>1, <1>2, <1>3, <2>1 DEF Regular, SignalIsHandled, EventIsKnown
<1>6. NoneUntilLoaded' /\ PluginIsThere' /\ ExitIsUnderWay'
  BY <1>1, <1>2, <1>4 DEF Regular, NoneUntilLoaded, PluginIsThere, ExitIsUnderWay, HandlesExit
<1>7. FlaggedHasPlugin'
  BY <1>1, <1>2, <1>3, PluginFields DEF Regular, FlaggedHasPlugin
<1> QED  BY <1>5, <1>6, <1>7 DEF Regular

\* The thread that signalled goes on.
LEMMA ResumeRegular ==
  ASSUME AppsOK, PluginTypeOK, OneAtATime, Regular, NEW a \in Apps, Resume(a)
  PROVE  Regular'
<1>1. /\ app[a] \in {"signals", "exits"} /\ woken /\ ~woken'
      /\ \A b \in Apps : app'[b] = IF b = a THEN IF app[a] = "exits" THEN "dead" ELSE "alive" ELSE app[b]
      /\ UNCHANGED <<atHome, cfg, plgCtx, block, swapFile, mapped, locked, signalOnExit, notified,
                     main, plgTask>>
  BY DEF Resume, PluginTypeOK, memory, pluginHistory
<1>2. \A b \in Apps \ {a} : app[b] \in {"none", "dead"}
  BY <1>1, OneIsThere
<1>3. ~Waiting'
  BY <1>1, <1>2 DEF Waiting
<1>4. main = "idle" /\ notified = 0
  BY <1>1 DEF Regular, SignalIsHandled
<1>5. cfg.events = {}
  BY <1>1, <1>4 DEF Regular, EventIsKnown, HandlesHome
<1>6. SignalIsHandled' /\ EventIsKnown'
  BY <1>1, <1>2, <1>3, <1>4, <1>5 DEF Regular, SignalIsHandled, EventIsKnown, HandlesHome, HandlesExit
<1>7. NoneUntilLoaded' /\ ExitIsUnderWay'
  BY <1>1, <1>4 DEF Regular, NoneUntilLoaded, ExitIsUnderWay
<1>8. app[a] = "exits" => cfg.status \in {"exiting", "none"}
  BY <1>1, <1>4 DEF Regular, EventIsKnown
<1>9. PluginIsThere'
  BY <1>1, <1>2, <1>4, <1>8 DEF Regular, PluginIsThere, Lives, Has, SwappedOut
<1>10. FlaggedHasPlugin'
  BY <1>1, <1>2, <1>4, PluginFields DEF Regular, FlaggedHasPlugin, EventIsKnown, HandlesHome
<1> QED  BY <1>6, <1>7, <1>9, <1>10 DEF Regular

\* An application that signals had nothing under way.
LEMMA SignalRegular ==
  ASSUME AppsOK, PluginTypeOK, OneAtATime, Regular, NEW a \in Apps, app[a] = "alive",
         NEW event \in Event, NEW waits, waits = (IF event = "home" THEN "signals" ELSE "exits"),
         Signal(a, event, waits),
         cfg.status \in (IF event = "home" THEN {"running", "inhome"} ELSE {"running"}),
         event = "home" /\ cfg.status = "running" => atHome',
         UNCHANGED <<plgCtx, block, swapFile, mapped, locked, signalOnExit, woken, main, plgTask>>
  PROVE  Regular'
<1>1. /\ \A b \in Apps : app'[b] = IF b = a THEN waits ELSE app[b]
      /\ notified' = notified + 1 /\ cfg'.status = cfg.status
      /\ cfg'.events = cfg.events \cup {event}
  BY DEF Signal, PluginTypeOK, PluginWords
<1>2. \A b \in Apps \ {a} : app[b] \in {"none", "dead"}
  BY OneIsThere
<1>3. ~Waiting /\ Waiting'
  BY <1>1, <1>2 DEF Waiting
<1>4. notified = 0 /\ ~woken /\ main \in {"idle", "loads", "loaded"}
  BY <1>3 DEF Regular, SignalIsHandled, PluginTypeOK
<1>5. main = "idle"
  BY <1>4 DEF Regular, NoneUntilLoaded
<1>6. cfg'.events = {event}
  BY <1>1, <1>3 DEF Regular, EventIsKnown
<1>7. plgCtx.target = a /\ a \in signalOnExit
  BY <1>2 DEF Regular, PluginIsThere, Lives
<1>8. SignalIsHandled'
  BY <1>1, <1>2, <1>3, <1>4, <1>5, <1>7 DEF SignalIsHandled, HandlesHome, HandlesExit
<1>9. EventIsKnown'
  BY <1>1, <1>2, <1>3, <1>4, <1>5, <1>6, <1>7 DEF EventIsKnown, HandlesHome, HandlesExit, Event
<1>10. NoneUntilLoaded' /\ ExitIsUnderWay'
  BY <1>1, <1>5 DEF Regular, NoneUntilLoaded, ExitIsUnderWay, HandlesExit
<1>11. PluginIsThere'
  BY <1>1, <1>2, <1>5, <1>7 DEF Regular, PluginIsThere, Lives, Has, SwappedOut, Event
<1>12. FlaggedHasPlugin'
  BY <1>1, <1>2, <1>4, <1>5, <1>7, PluginFields DEF Regular, FlaggedHasPlugin, HandlesHome, Event
<1> QED  BY <1>8, <1>9, <1>10, <1>11, <1>12 DEF Regular

LEMMA ParameterRegular ==
  ASSUME AppsOK, PluginTypeOK, OneAtATime, Regular, NEW a \in Apps,
         NEW c \in {"response", "wakeup", "other"}, Parameter(a, c)
  PROVE  Regular'
<1>1. /\ app[a] = "alive"
      /\ UNCHANGED <<plgCtx, block, swapFile, mapped, locked, signalOnExit, woken, main, plgTask>>
      /\ c = "response" => atHome' /\ ~atHome
      /\ c = "other" => atHome' = atHome
  BY DEF Parameter, memory
<1>2. \A b \in Apps \ {a} : app[b] \in {"none", "dead"}
  BY <1>1, OneIsThere
<1>3. CASE (cfg.status = "running" /\ c = "response") \/ cfg.status = "inhome"
  <2>1. Signal(a, "home", "signals")
    BY <1>3 DEF Parameter
  <2>2. cfg.status \in {"running", "inhome"} /\ (cfg.status = "running" => atHome')
    BY <1>1, <1>3
  <2> QED  BY <1>1, <2>1, <2>2, SignalRegular DEF Event
<1>4. CASE ~((cfg.status = "running" /\ c = "response") \/ cfg.status = "inhome")
  <2>1. UNCHANGED <<app, cfg, notified>>
    BY <1>4 DEF Parameter
  <2>2. SignalIsHandled' /\ EventIsKnown' /\ NoneUntilLoaded' /\ PluginIsThere' /\ ExitIsUnderWay'
    BY <1>1, <2>1 DEF Regular, SignalIsHandled, Waiting, EventIsKnown, NoneUntilLoaded,
       PluginIsThere, Has, SwappedOut, Lives, ExitIsUnderWay
  <2>3. FlaggedHasPlugin'
    BY <1>1, <1>2, <1>4, <2>1, PluginFields DEF Regular, FlaggedHasPlugin
  <2> QED  BY <2>2, <2>3 DEF Regular
<1> QED  BY <1>3, <1>4

\* An application with a plugin exits while its status is RUNNING, and signals that.
LEMMA ExitRegular ==
  ASSUME AppsOK, PluginTypeOK, OneAtATime, Regular, NEW a \in Apps, Exit(a)
  PROVE  Regular'
<1>1. /\ app[a] = "alive" /\ ~atHome
      /\ UNCHANGED <<atHome, plgCtx, block, swapFile, mapped, locked, signalOnExit, woken, main, plgTask>>
  BY DEF Exit, memory, pluginHistory
<1>2. \A b \in Apps \ {a} : app[b] \in {"none", "dead"}
  BY <1>1, OneIsThere
<1>3. a \in signalOnExit => cfg.status = "running"
  BY <1>1, PluginFields DEF Regular, FlaggedHasPlugin
<1>4. CASE a \in signalOnExit
  <2>1. Signal(a, "exit", "exits")
    BY <1>3, <1>4 DEF Exit
  <2> QED  BY <1>1, <1>3, <1>4, <2>1, SignalRegular DEF Event
<1>5. CASE a \notin signalOnExit
  <2>1. /\ UNCHANGED <<cfg, notified>>
        /\ \A b \in Apps : app'[b] = IF b = a THEN "dead" ELSE app[b]
    BY <1>5 DEF Exit, PluginTypeOK
  <2>2. ~Waiting /\ ~Waiting'
    BY <1>1, <1>2, <2>1 DEF Waiting
  <2>3. cfg.status = "none" /\ main \notin {"loads", "loaded"}
    BY <1>1, <1>2, <1>5, PluginFields DEF Regular, PluginIsThere, ExitIsUnderWay, Lives, NoneUntilLoaded
  <2>4. SignalIsHandled' /\ EventIsKnown'
    BY <1>1, <1>2, <2>1, <2>2 DEF Regular, SignalIsHandled, EventIsKnown
  <2>5. NoneUntilLoaded' /\ PluginIsThere' /\ ExitIsUnderWay'
    BY <1>1, <2>1, <2>3 DEF Regular, NoneUntilLoaded, PluginIsThere, ExitIsUnderWay
  <2>6. FlaggedHasPlugin'
    BY <1>1, <1>2, <1>5, <2>1, PluginFields DEF Regular, FlaggedHasPlugin
  <2> QED  BY <2>4, <2>5, <2>6 DEF Regular
<1> QED  BY <1>4, <1>5

\* Who is killed had no plugin.
LEMMA KillRegular ==
  ASSUME AppsOK, PluginTypeOK, OneAtATime, ~irregular => Regular,
         NEW a \in Apps, Kill(a), ~irregular'
  PROVE  Regular'
<1>1. /\ ~irregular /\ a \notin signalOnExit
      /\ \A b \in Apps : app'[b] = IF b = a THEN "dead" ELSE app[b]
      /\ UNCHANGED <<cfg, plgCtx, block, swapFile, mapped, locked, signalOnExit, notified, woken, main, plgTask>>
  BY DEF Kill, PluginTypeOK, memory, kernel
<1>2. Regular
  BY <1>1
<1>3. app[a] = "alive"
  BY <1>1, <1>2 DEF Kill, Lives, Regular, SignalIsHandled
<1>4. \A b \in Apps \ {a} : app[b] \in {"none", "dead"}
  BY <1>3, OneIsThere
<1>5. ~Waiting /\ ~Waiting'
  BY <1>1, <1>3, <1>4 DEF Waiting
<1>6. cfg.status = "none" /\ main \notin {"loads", "loaded"}
  BY <1>1, <1>2, <1>3, <1>4, PluginFields
     DEF Regular, PluginIsThere, ExitIsUnderWay, Lives, NoneUntilLoaded
<1>7. SignalIsHandled' /\ EventIsKnown'
  BY <1>1, <1>2, <1>4, <1>5 DEF Regular, SignalIsHandled, EventIsKnown
<1>8. NoneUntilLoaded' /\ PluginIsThere' /\ ExitIsUnderWay'
  BY <1>1, <1>2, <1>6 DEF Regular, NoneUntilLoaded, PluginIsThere, ExitIsUnderWay
<1>9. FlaggedHasPlugin'
  BY <1>1, <1>2, <1>4, PluginFields DEF Regular, FlaggedHasPlugin
<1> QED  BY <1>7, <1>8, <1>9 DEF Regular

\* While an application loads, there is no other, and nothing is signalled.
LEMMA WhileLoading ==
  ASSUME AppsOK, PluginTypeOK, OneAtATime, Regular, NEW a \in Apps, app[a] = "loading",
         main \in {"idle", "loads", "loaded"}
  PROVE  /\ \A b \in Apps \ {a} : app[b] \in {"none", "dead"}
         /\ ~Waiting /\ notified = 0 /\ ~woken /\ cfg.events = {}
         /\ cfg.status = "none" /\ plgTask = "idle" /\ ~plgCtx.swapped /\ ~plgCtx.home /\ locked = {}
         /\ main # "loaded" => ~plgCtx.isReady /\ a \notin signalOnExit
         /\ main # "idle" => plgCtx.target = a
         /\ \A b \in signalOnExit \ {a} : app[b] = "dead"
<1>1. \A b \in Apps \ {a} : app[b] \in {"none", "dead"}
  BY OneIsThere
<1>2. ~Waiting
  BY <1>1 DEF Waiting
<1>3. notified = 0 /\ ~woken /\ cfg.events = {}
  BY <1>2 DEF Regular, SignalIsHandled, EventIsKnown
<1>4. cfg.status = "none"
  BY <1>1, PluginFields DEF Regular, PluginIsThere, ExitIsUnderWay, Lives
<1>5. plgTask = "idle" /\ ~plgCtx.swapped /\ ~plgCtx.home /\ (main # "loaded" => ~plgCtx.isReady)
  BY <1>4 DEF Regular, NoneUntilLoaded
<1>6. locked = {}
  BY <1>5 DEF Regular, PluginIsThere
<1>7. main # "idle" => plgCtx.target = a
  BY <1>1 DEF Regular, NoneUntilLoaded
<1>8. main # "loaded" => a \notin signalOnExit
  BY DEF Regular, FlaggedHasPlugin
<1>9. \A b \in signalOnExit \ {a} : app[b] = "dead"
  BY <1>1, PluginFields DEF Regular, FlaggedHasPlugin
<1> QED  BY <1>1, <1>2, <1>3, <1>4, <1>5, <1>6, <1>7, <1>8, <1>9

\* As long as nobody signals and no plugin is there, little has to be said.
LEMMA RegularWithoutPlugin ==
  ASSUME PluginTypeOK', ~Waiting', cfg'.status = "none", cfg'.events = {}, notified' = 0, ~woken',
         plgTask' = "idle", ~plgCtx'.swapped, ~plgCtx'.home, locked' = {},
         main' \in {"idle", "loads", "loaded"},
         main' # "loaded" => ~plgCtx'.isReady,
         main' = "idle" => plgCtx'.target = NoApp,
         main' # "idle" => plgCtx'.target \in Apps /\ app'[plgCtx'.target] = "loading",
         main' = "loaded" => plgCtx'.target \in signalOnExit' /\ Has(plgCtx.target)',
         \A b \in signalOnExit' :
           /\ app'[b] \in {"loading", "dead"} /\ (app'[b] = "loading" => main' = "loaded")
  PROVE  Regular'
<1>1. SignalIsHandled' /\ EventIsKnown'
  BY DEF SignalIsHandled, EventIsKnown, Waiting, HandlesHome, HandlesExit
<1>2. NoneUntilLoaded'
  BY DEF NoneUntilLoaded
<1>3. PluginIsThere'
  BY DEF PluginIsThere
<1>4. ExitIsUnderWay'
  BY DEF ExitIsUnderWay, HandlesExit
<1>5. FlaggedHasPlugin'
  BY DEF FlaggedHasPlugin
<1> QED  BY <1>1, <1>2, <1>3, <1>4, <1>5 DEF Regular

LEMMA LoadStartsRegular ==
  ASSUME AppsOK, PluginTypeOK, PluginTypeOK', OneAtATime, Regular, NEW a \in Apps,
         LoadStarts(a), UNCHANGED pluginHistory
  PROVE  Regular'
<1>1. /\ app[a] = "loading" /\ main = "idle" /\ main' = "loads"
      /\ plgCtx'.target = a /\ plgCtx'.isReady = plgCtx.isReady /\ plgCtx'.swapped = plgCtx.swapped
      /\ plgCtx'.home = plgCtx.home
      /\ UNCHANGED <<app, cfg, locked, signalOnExit, notified, woken, plgTask>>
  BY DEF LoadStarts, PluginTypeOK, Contexts, memory, kernel
<1>2. Waiting' = Waiting
  BY <1>1 DEF Waiting
<1> QED  BY <1>1, <1>2, WhileLoading, RegularWithoutPlugin

LEMMA LoadFailsRegular ==
  ASSUME AppsOK, PluginTypeOK, PluginTypeOK', OneAtATime, Regular, NEW a \in Apps,
         LoadFails(a), UNCHANGED pluginHistory
  PROVE  Regular'
<1>1. /\ app[a] = "loading" /\ main = "loads" /\ main' = "idle"
      /\ \A b \in Apps : app'[b] = IF b = a THEN "alive" ELSE app[b]
      /\ plgCtx'.target = NoApp /\ plgCtx'.swapped = plgCtx.swapped /\ plgCtx'.home = plgCtx.home
      /\ plgCtx'.isReady \in {FALSE, plgCtx.isReady}
      /\ UNCHANGED <<cfg, locked, signalOnExit, notified, woken, plgTask>>
  BY DEF LoadFails, PluginTypeOK, Contexts, Freed, memory, kernel
<1>2. ~Waiting'
  BY <1>1, WhileLoading DEF Waiting
<1>3. \A b \in signalOnExit' : app'[b] = "dead"
  BY <1>1, WhileLoading, PluginFields
<1> QED  BY <1>1, <1>2, <1>3, WhileLoading, RegularWithoutPlugin

LEMMA LoadMountsRegular ==
  ASSUME AppsOK, PluginTypeOK, PluginTypeOK', OneAtATime, Regular, NEW a \in Apps,
         LoadMounts(a), UNCHANGED pluginHistory
  PROVE  Regular'
<1>1. /\ app[a] = "loading" /\ main = "loads" /\ main' = "loaded"
      /\ plgCtx'.target = plgCtx.target /\ plgCtx'.isReady /\ plgCtx'.swapped = plgCtx.swapped
      /\ plgCtx'.home = plgCtx.home
      /\ block' = a /\ mapped' = mapped \cup ({plgCtx.target} \ {NoApp})
      /\ signalOnExit' = signalOnExit \cup {a}
      /\ UNCHANGED <<app, cfg, locked, notified, woken, plgTask>>
  BY DEF LoadMounts, PluginTypeOK, Contexts
<1>2. ~Waiting'
  BY <1>1, WhileLoading DEF Waiting
<1>3. plgCtx.target = a /\ a # NoApp
  BY <1>1, WhileLoading DEF AppsOK
<1>4. Has(plgCtx.target)'
  BY <1>1, <1>3, WhileLoading DEF Has
<1>5. \A b \in signalOnExit' : app'[b] \in {"loading", "dead"}
  BY <1>1, WhileLoading
<1> QED  BY <1>1, <1>2, <1>3, <1>4, <1>5, WhileLoading, RegularWithoutPlugin

LEMMA LoadDoneRegular ==
  ASSUME AppsOK, PluginTypeOK, PluginTypeOK', OneAtATime, Regular, NEW a \in Apps,
         LoadDone(a), UNCHANGED pluginHistory
  PROVE  Regular'
<1>1. /\ app[a] = "loading" /\ main = "loaded" /\ main' = "idle"
      /\ \A b \in Apps : app'[b] = IF b = a THEN "alive" ELSE app[b]
      /\ cfg'.status = "running" /\ cfg'.events = {}
      /\ UNCHANGED <<plgCtx, block, swapFile, mapped, locked, signalOnExit, notified, woken, plgTask>>
  BY DEF LoadDone, PluginTypeOK, memory, kernel
<1>2. ~Waiting'
  BY <1>1, WhileLoading DEF Waiting
<1>3. plgCtx.target = a /\ a \in signalOnExit /\ Has(a)
  BY <1>1, WhileLoading DEF Regular, NoneUntilLoaded
<1>4. SignalIsHandled' /\ EventIsKnown'
  BY <1>1, <1>2, WhileLoading DEF SignalIsHandled, EventIsKnown, Waiting, HandlesHome, HandlesExit
<1>5. NoneUntilLoaded' /\ ExitIsUnderWay'
  BY <1>1, WhileLoading DEF NoneUntilLoaded, ExitIsUnderWay, HandlesExit
<1>6. PluginIsThere'
  BY <1>1, <1>3, WhileLoading DEF PluginIsThere, Lives, Has
<1>7. FlaggedHasPlugin'
  BY <1>1, <1>3, WhileLoading, PluginFields DEF FlaggedHasPlugin
<1> QED  BY <1>4, <1>5, <1>6, <1>7 DEF Regular

\* While HOME is handled, the application with the plugin waits.
LEMMA WhileHome ==
  ASSUME AppsOK, PluginTypeOK, OneAtATime, Regular, main \in HandlesHome
  PROVE  /\ plgCtx.target \in Apps /\ app[plgCtx.target] = "signals" /\ plgCtx.target \in signalOnExit
         /\ \A b \in Apps \ {plgCtx.target} : app[b] \in {"none", "dead"}
         /\ Waiting /\ notified = 0 /\ ~woken /\ plgTask = "idle"
         /\ cfg.status \in {"running", "inhome"}
         /\ cfg.status = "running" => atHome
         /\ \A b \in signalOnExit \ {plgCtx.target} : app[b] = "dead"
<1>1. Waiting /\ notified = 0 /\ ~woken
  BY DEF Regular, SignalIsHandled, HandlesHome
<1>2. PICK a \in Apps : app[a] = "signals"
  BY <1>1 DEF Waiting, Regular, EventIsKnown
<1>3. plgCtx.target = a /\ cfg.status \in {"running", "inhome"} /\ a \in signalOnExit
  BY <1>2 DEF Regular, EventIsKnown, SignalIsHandled
<1>4. \A b \in Apps \ {a} : app[b] \in {"none", "dead"}
  BY <1>2, OneIsThere
<1>5. plgTask = "idle"
  BY <1>3 DEF Regular, PluginIsThere
<1>6. cfg.status = "running" => atHome
  BY <1>2, <1>3 DEF Regular, FlaggedHasPlugin
<1>7. \A b \in signalOnExit \ {a} : app[b] = "dead"
  BY <1>4, PluginFields DEF Regular, FlaggedHasPlugin
<1> QED  BY <1>1, <1>2, <1>3, <1>4, <1>5, <1>6, <1>7

\* What is left to see for each step that handles HOME is where the plugin is.
LEMMA HomeStepRegular ==
  ASSUME AppsOK, PluginTypeOK, OneAtATime, Regular, main \in HandlesHome,
         UNCHANGED <<atHome, app, signalOnExit, notified, woken, plgTask>>,
         plgCtx'.target = plgCtx.target,
         cfg'.status \in {"running", "inhome"},
         \/ main' \in HandlesHome /\ cfg' = cfg
         \/ /\ main' = "publishes" /\ cfg'.events = {}
            /\ cfg'.status = "inhome" => cfg.status = "running",
         PluginIsThere'
  PROVE  Regular'
<1>1. SignalIsHandled'
  BY DEF Regular, SignalIsHandled, Waiting, HandlesHome
<1>2. EventIsKnown'
  BY WhileHome DEF Regular, EventIsKnown, Waiting, HandlesHome, HandlesExit
<1>3. NoneUntilLoaded'
  BY DEF NoneUntilLoaded, HandlesHome
<1>4. FlaggedHasPlugin'
  BY WhileHome DEF FlaggedHasPlugin, HandlesHome
<1>5. ExitIsUnderWay'
  BY WhileHome DEF ExitIsUnderWay, HandlesHome, HandlesExit
<1> QED  BY <1>1, <1>2, <1>3, <1>4, <1>5 DEF Regular

LEMMA SwapRepliedRegular ==
  ASSUME AppsOK, PluginTypeOK, OneAtATime, Regular, SwapReplied, UNCHANGED pluginHistory
  PROVE  Regular'
<1> DEFINE t == plgCtx.target
<1>1. /\ main = "awaitsSwap" /\ main' = "publishes"
      /\ locked' = locked \cup ({t} \ {NoApp}) /\ mapped' = mapped \ {t} /\ swapFile' = block
      /\ plgCtx'.target = t /\ ~plgCtx'.isReady /\ plgCtx'.swapped /\ plgCtx'.home = plgCtx.home
      /\ plgCtx'.swaps = plgCtx.swaps
      /\ cfg'.status = "inhome" /\ cfg'.events = {}
      /\ UNCHANGED <<atHome, app, signalOnExit, notified, woken, plgTask>>
  BY DEF SwapReplied, PluginTypeOK, Contexts, Freed, kernel, pluginHistory
<1>2. main \in HandlesHome /\ t # NoApp
  BY <1>1, WhileHome DEF HandlesHome, AppsOK
<1>3. plgCtx.swaps /\ cfg.status = "running" /\ ~plgCtx.swapped /\ Has(t) /\ locked = {} /\ ~plgCtx.home
  BY <1>1 DEF Regular, PluginIsThere
<1>4. SwappedOut(plgCtx.target)'
  BY <1>1, <1>2, <1>3 DEF Has, SwappedOut
<1>5. PluginIsThere'
  BY <1>1, <1>2, <1>3, <1>4, WhileHome DEF PluginIsThere, Lives
<1> QED  BY <1>1, <1>2, <1>3, <1>5, HomeStepRegular

LEMMA RestoresRegular ==
  ASSUME AppsOK, PluginTypeOK, OneAtATime, Regular, Restores, UNCHANGED pluginHistory
  PROVE  Regular'
<1> DEFINE t == plgCtx.target
<1>1. /\ main = "restores" /\ main' = "resumes"
      /\ block' = swapFile /\ locked' = locked \ {t} /\ mapped' = mapped \cup ({t} \ {NoApp})
      /\ plgCtx'.target = t /\ plgCtx'.isReady /\ ~plgCtx'.swapped /\ plgCtx'.home = plgCtx.home
      /\ plgCtx'.swaps = plgCtx.swaps
      /\ UNCHANGED <<atHome, cfg, app, signalOnExit, notified, woken, plgTask>>
  BY DEF Restores, PluginTypeOK, Contexts, kernel, pluginHistory
<1>2. main \in HandlesHome /\ t # NoApp
  BY <1>1, WhileHome DEF HandlesHome, AppsOK
<1>3. plgCtx.swaps /\ cfg.status = "inhome" /\ plgCtx.swapped /\ SwappedOut(t) /\ locked' = {} /\ ~plgCtx.home
  BY <1>1 DEF Regular, PluginIsThere
<1>4. Has(plgCtx.target)'
  BY <1>1, <1>2, <1>3 DEF Has, SwappedOut
<1>5. PluginIsThere'
  BY <1>1, <1>2, <1>3, <1>4, WhileHome DEF PluginIsThere, Lives
<1> QED  BY <1>1, <1>2, <1>3, <1>5, HomeStepRegular DEF HandlesHome

LEMMA ResumesRegular ==
  ASSUME AppsOK, PluginTypeOK, OneAtATime, Regular, Resumes, UNCHANGED pluginHistory
  PROVE  Regular'
<1>1. /\ main = "resumes" /\ main' = "publishes"
      /\ cfg'.status = "running" /\ cfg'.events = {}
      /\ UNCHANGED <<atHome, plgCtx, block, swapFile, mapped, locked, app, signalOnExit, notified, woken,
                     plgTask>>
  BY DEF Resumes, memory, kernel, pluginHistory
<1>2. main \in HandlesHome
  BY <1>1 DEF HandlesHome
<1>3. plgCtx.swaps /\ ~plgCtx.swapped /\ ~plgCtx.home
  BY <1>1 DEF Regular, PluginIsThere
<1>4. PluginIsThere'
  BY <1>1, <1>2, <1>3, WhileHome DEF Regular, PluginIsThere, Lives, Has
<1> QED  BY <1>1, <1>2, <1>4, HomeStepRegular

LEMMA HomeRepliedRegular ==
  ASSUME AppsOK, PluginTypeOK, OneAtATime, Regular, HomeReplied, UNCHANGED pluginHistory
  PROVE  Regular'
<1>1. /\ main = "awaitsHome" /\ main' = "publishes"
      /\ cfg'.status = (IF plgCtx.home THEN "running" ELSE "inhome") /\ cfg'.events = {}
      /\ plgCtx'.target = plgCtx.target /\ plgCtx'.isReady = plgCtx.isReady /\ plgCtx'.swapped = plgCtx.swapped
      /\ plgCtx'.home = ~plgCtx.home /\ plgCtx'.swaps = plgCtx.swaps
      /\ UNCHANGED <<atHome, block, swapFile, mapped, locked, app, signalOnExit, notified, woken, plgTask>>
  BY DEF HomeReplied, PluginTypeOK, Contexts, memory, kernel, pluginHistory
<1>2. main \in HandlesHome
  BY <1>1 DEF HandlesHome
<1>3. ~plgCtx.swaps /\ ~plgCtx.swapped /\ (plgCtx.home <=> cfg.status = "inhome")
  BY <1>1, <1>2, WhileHome DEF Regular, PluginIsThere
<1>4. PluginIsThere'
  BY <1>1, <1>2, <1>3, WhileHome, PluginFields DEF Regular, PluginIsThere, Lives, Has
<1>5. cfg'.status \in {"running", "inhome"} /\ (cfg'.status = "inhome" => cfg.status = "running")
  BY <1>1, <1>2, <1>3, WhileHome
<1> QED  BY <1>1, <1>2, <1>4, <1>5, HomeStepRegular

\* The event that the main thread finds is the one that an application waits for.
LEMMA HandleKernelEventRegular ==
  ASSUME AppsOK, PluginTypeOK, OneAtATime, Regular, HandleKernelEvent, UNCHANGED pluginHistory
  PROVE  Regular'
<1>1. /\ main = "idle" /\ notified = 1 /\ notified' = 0
      /\ UNCHANGED <<atHome, app, signalOnExit, woken, plgCtx, block, swapFile, mapped, locked, plgTask>>
  BY DEF HandleKernelEvent, Regular, SignalIsHandled, memory, pluginHistory
<1>2. Waiting /\ ~woken
  BY <1>1 DEF Regular, SignalIsHandled
<1>3. PICK a \in Apps : app[a] \in {"signals", "exits"}
  BY <1>2 DEF Waiting
<1>4. \A b \in Apps \ {a} : app[b] \in {"none", "dead"}
  BY <1>3, OneIsThere
<1>5. CASE app[a] = "exits"
  <2>1. cfg.events = {"exit"} /\ cfg.status = "running"
    BY <1>1, <1>5 DEF Regular, EventIsKnown
  <2>2. ~plgCtx.swapped /\ ~plgCtx.home /\ plgTask = "idle" /\ locked = {}
    BY <1>1, <2>1 DEF Regular, PluginIsThere
  <2>3. {"exit"} # {"home"}
    OBVIOUS
  <2>4. cfg'.status = "exiting" /\ cfg'.events = {} /\ main' = "awaitsExit"
    BY <2>1, <2>2, <2>3 DEF HandleKernelEvent
  <2>5. SignalIsHandled' /\ EventIsKnown'
    BY <1>1, <1>2, <1>4, <1>5, <2>4
       DEF Regular, SignalIsHandled, EventIsKnown, Waiting, HandlesHome, HandlesExit
  <2>6. NoneUntilLoaded' /\ PluginIsThere'
    BY <1>1, <2>2, <2>4 DEF NoneUntilLoaded, PluginIsThere
  <2>7. FlaggedHasPlugin' /\ ExitIsUnderWay'
    BY <1>1, <1>4, <1>5, <2>2, <2>4, PluginFields
       DEF Regular, FlaggedHasPlugin, ExitIsUnderWay, HandlesExit
  <2> QED  BY <2>5, <2>6, <2>7 DEF Regular
<1>6. CASE app[a] = "signals"
  <2>1. cfg.events = {"home"} /\ cfg.status \in {"running", "inhome"} /\ plgCtx.target = a
    BY <1>1, <1>6 DEF Regular, EventIsKnown
  <2>2. {"exit"} # {"home"}
    OBVIOUS
  <2>3. /\ cfg' = cfg
        /\ \/ plgCtx.swaps /\ plgCtx.swapped /\ main' = "restores"
           \/ plgCtx.swaps /\ ~plgCtx.swapped /\ main' = "awaitsSwap"
           \/ ~plgCtx.swaps /\ main' = "awaitsHome"
    BY <2>1, <2>2 DEF HandleKernelEvent
  <2>4. main' \in HandlesHome /\ main' # "resumes"
    BY <2>3 DEF HandlesHome
  <2>5. SignalIsHandled' /\ EventIsKnown'
    BY <1>1, <1>2, <1>4, <1>6, <2>1, <2>3, <2>4
       DEF Regular, SignalIsHandled, EventIsKnown, Waiting, HandlesHome, HandlesExit
  <2>6. PluginIsThere'
    BY <1>1, <2>1, <2>3 DEF Regular, PluginIsThere, Has, SwappedOut, Lives
  <2>7. NoneUntilLoaded' /\ ExitIsUnderWay'
    BY <1>1, <2>1, <2>3, <2>4 DEF Regular, NoneUntilLoaded, ExitIsUnderWay, HandlesHome, HandlesExit
  <2>8. FlaggedHasPlugin'
    BY <1>1, <1>4, <1>6, <2>1, <2>3, <2>4, PluginFields DEF Regular, FlaggedHasPlugin, HandlesHome
  <2> QED  BY <2>5, <2>6, <2>7, <2>8 DEF Regular
<1> QED  BY <1>3, <1>5, <1>6

LEMMA ExitRepliedRegular ==
  ASSUME Regular, ExitReplied, UNCHANGED pluginHistory
  PROVE  Regular'
<1>1. /\ main = "awaitsExit" /\ main' = "runsTask" /\ cfg.status = "exiting"
      /\ UNCHANGED <<atHome, app, cfg, plgCtx, block, swapFile, mapped, locked, signalOnExit, notified,
                     woken, plgTask>>
  BY DEF ExitReplied, Regular, ExitIsUnderWay, HandlesExit, memory, kernel, pluginHistory
<1>2. Waiting' = Waiting
  BY <1>1 DEF Waiting
<1>3. SignalIsHandled' /\ EventIsKnown'
  BY <1>1, <1>2 DEF Regular, SignalIsHandled, EventIsKnown, HandlesHome, HandlesExit
<1>4. NoneUntilLoaded' /\ PluginIsThere'
  BY <1>1 DEF Regular, NoneUntilLoaded, PluginIsThere
<1>5. FlaggedHasPlugin' /\ ExitIsUnderWay'
  BY <1>1 DEF Regular, FlaggedHasPlugin, ExitIsUnderWay, HandlesExit, HandlesHome
<1> QED  BY <1>3, <1>4, <1>5 DEF Regular

LEMMA RunsTaskRegular ==
  ASSUME Regular, RunsTask, UNCHANGED pluginHistory
  PROVE  Regular'
<1>1. /\ main = "runsTask" /\ main' = "publishes" /\ cfg.status = "exiting"
      /\ plgTask = "idle" /\ plgTask' = "waits"
      /\ UNCHANGED <<atHome, app, cfg, plgCtx, block, swapFile, mapped, locked, signalOnExit, notified,
                     woken>>
  BY DEF RunsTask, Regular, ExitIsUnderWay, HandlesExit, memory, kernel, pluginHistory
<1>2. Waiting' = Waiting
  BY <1>1 DEF Waiting
<1>3. SignalIsHandled' /\ EventIsKnown'
  BY <1>1, <1>2 DEF Regular, SignalIsHandled, EventIsKnown, HandlesHome, HandlesExit
<1>4. NoneUntilLoaded' /\ PluginIsThere'
  BY <1>1 DEF Regular, NoneUntilLoaded, PluginIsThere
<1>5. FlaggedHasPlugin' /\ ExitIsUnderWay'
  BY <1>1 DEF Regular, FlaggedHasPlugin, ExitIsUnderWay, HandlesExit, HandlesHome
<1> QED  BY <1>3, <1>4, <1>5 DEF Regular

LEMMA PublishesRegular ==
  ASSUME PluginTypeOK, Regular, Publishes, UNCHANGED pluginHistory
  PROVE  Regular'
<1>1. /\ main = "publishes" /\ main' = "idle" /\ woken'
      /\ UNCHANGED <<atHome, app, cfg, plgCtx, block, swapFile, mapped, locked, signalOnExit, notified,
                     plgTask>>
  BY DEF Publishes, memory, pluginHistory
<1>2. Waiting /\ Waiting' /\ notified = 0
  BY <1>1 DEF Waiting, Regular, SignalIsHandled
<1>3. SignalIsHandled' /\ EventIsKnown'
  BY <1>1, <1>2 DEF Regular, SignalIsHandled, EventIsKnown, HandlesHome, HandlesExit
<1>4. NoneUntilLoaded' /\ PluginIsThere'
  BY <1>1 DEF Regular, NoneUntilLoaded, PluginIsThere, Lives, Has, SwappedOut
<1>5. FlaggedHasPlugin' /\ ExitIsUnderWay'
  BY <1>1 DEF Regular, FlaggedHasPlugin, ExitIsUnderWay, HandlesExit, HandlesHome
<1> QED  BY <1>3, <1>4, <1>5 DEF Regular

LEMMA TaskFreesRegular ==
  ASSUME PluginTypeOK, Regular, TaskFrees, UNCHANGED pluginHistory
  PROVE  Regular'
<1>1. /\ plgTask = "waits" /\ plgTask' = "resets" /\ cfg.status = "exiting" /\ ~plgCtx.swapped /\ ~plgCtx.home
      /\ UNCHANGED <<atHome, app, cfg, block, swapFile, locked, signalOnExit, notified, woken, main>>
  BY DEF TaskFrees, Regular, ExitIsUnderWay, kernel, pluginHistory
<1>2. /\ plgCtx'.target = plgCtx.target /\ ~plgCtx'.isReady /\ ~plgCtx'.swapped /\ ~plgCtx'.home
      /\ locked = {}
  BY <1>1 DEF TaskFrees, PluginTypeOK, Contexts, Freed, Regular, PluginIsThere
<1>3. SignalIsHandled' /\ EventIsKnown'
  BY <1>1, <1>2 DEF Regular, SignalIsHandled, EventIsKnown, Waiting
<1>4. main \notin {"loads", "loaded", "awaitsSwap", "restores", "resumes", "awaitsHome"}
  BY <1>1 DEF Regular, NoneUntilLoaded, ExitIsUnderWay, HandlesExit
<1>5. NoneUntilLoaded' /\ PluginIsThere'
  BY <1>1, <1>2, <1>4 DEF NoneUntilLoaded, PluginIsThere
<1>6. FlaggedHasPlugin' /\ ExitIsUnderWay'
  BY <1>1, <1>2 DEF Regular, FlaggedHasPlugin, ExitIsUnderWay
<1> QED  BY <1>3, <1>5, <1>6 DEF Regular

\* The application whose plugin is cleared away has exited, or waits for that.
LEMMA TaskResetsRegular ==
  ASSUME PluginTypeOK, Regular, TaskResets, UNCHANGED pluginHistory
  PROVE  Regular'
<1>1. /\ plgTask = "resets" /\ plgTask' = "idle" /\ cfg.status = "exiting" /\ ~plgCtx.isReady
      /\ main \in {"publishes", "idle"}
      /\ \A a \in Apps : app[a] \in {"none", "exits", "dead"}
      /\ cfg'.status = "none" /\ cfg'.events = {}
      /\ UNCHANGED <<atHome, app, block, swapFile, mapped, locked, signalOnExit, notified, woken, main>>
  BY DEF TaskResets, Regular, ExitIsUnderWay, HandlesExit, memory, kernel, pluginHistory
<1>2. /\ plgCtx'.target = NoApp /\ ~plgCtx'.isReady /\ ~plgCtx'.swapped /\ ~plgCtx'.home
      /\ locked = {}
  BY <1>1 DEF TaskResets, PluginTypeOK, Contexts, Regular, PluginIsThere, ExitIsUnderWay
<1>3. notified = 0
  BY <1>1 DEF Regular, SignalIsHandled, EventIsKnown, Waiting
<1>4. SignalIsHandled' /\ EventIsKnown'
  BY <1>1, <1>3 DEF Regular, SignalIsHandled, EventIsKnown, Waiting
<1>5. NoneUntilLoaded' /\ PluginIsThere'
  BY <1>1, <1>2 DEF NoneUntilLoaded, PluginIsThere
<1>6. FlaggedHasPlugin' /\ ExitIsUnderWay'
  BY <1>1, <1>2, PluginFields DEF Regular, FlaggedHasPlugin, ExitIsUnderWay, HandlesExit
<1> QED  BY <1>4, <1>5, <1>6 DEF Regular

\* What the thread of the plugin reads and writes, the invariant says nothing about.
LEMMA QuietRegular ==
  ASSUME Regular, UNCHANGED <<app, cfg, plgCtx, memory, kernel, main, plgTask, atHome>>
  PROVE  Regular'
<1>1. SignalIsHandled' /\ EventIsKnown'
  BY DEF Regular, SignalIsHandled, EventIsKnown, Waiting, kernel
<1>2. NoneUntilLoaded' /\ PluginIsThere'
  BY DEF Regular, NoneUntilLoaded, PluginIsThere, Has, SwappedOut, Lives, memory, kernel
<1>3. FlaggedHasPlugin' /\ ExitIsUnderWay'
  BY DEF Regular, FlaggedHasPlugin, ExitIsUnderWay, kernel
<1> QED  BY <1>1, <1>2, <1>3 DEF Regular

LEMMA NextKeepsRegular ==
  ASSUME AppsOK, PluginInv, PluginTypeOK', PluginNext, ~irregular'
  PROVE  Regular'
<1> USE DEF PluginInv
<1>1. ASSUME NEW a \in Apps, Launch(a) PROVE Regular'
  BY <1>1, LaunchRegular
<1>2. ASSUME NEW a \in Apps, Kill(a) PROVE Regular'
  BY <1>2, KillRegular
<1>3. ASSUME NEW a \in Apps, Resume(a) PROVE Regular'
  BY <1>3, ResumeRegular DEF Resume, pluginHistory
<1>4. ASSUME NEW a \in Apps, Exit(a) PROVE Regular'
  BY <1>4, ExitRegular DEF Exit, pluginHistory
<1>5. ASSUME NEW a \in Apps, NEW c \in {"response", "wakeup", "other"}, Parameter(a, c) PROVE Regular'
  BY <1>5, ParameterRegular DEF Parameter
<1>6. ASSUME RosalinaSteps, UNCHANGED pluginHistory PROVE Regular'
  <2>1. Regular
    BY <1>6 DEF pluginHistory
  <2>2. CASE \E a \in Apps : LoadStarts(a) \/ LoadFails(a) \/ LoadMounts(a) \/ LoadDone(a)
    BY <1>6, <2>1, <2>2, LoadStartsRegular, LoadFailsRegular, LoadMountsRegular, LoadDoneRegular
  <2>3. CASE HandleKernelEvent \/ ExitReplied \/ RunsTask \/ SwapReplied
    BY <1>6, <2>1, <2>3, HandleKernelEventRegular, ExitRepliedRegular, RunsTaskRegular,
       SwapRepliedRegular
  <2>4. CASE Restores \/ Resumes \/ HomeReplied \/ Publishes
    BY <1>6, <2>1, <2>4, RestoresRegular, ResumesRegular, HomeRepliedRegular, PublishesRegular
  <2>5. CASE TaskFrees \/ TaskResets
    BY <1>6, <2>1, <2>5, TaskFreesRegular, TaskResetsRegular
  <2> QED  BY <1>6, <2>2, <2>3, <2>4, <2>5 DEF RosalinaSteps
<1>7. ASSUME PluginSteps, UNCHANGED pluginHistory PROVE Regular'
  <2>1. UNCHANGED <<app, cfg, plgCtx, memory, kernel, main, plgTask, atHome>>
    BY <1>7 DEF PluginSteps, PluginReads, PluginReplies, PluginResumes, pluginHistory
  <2> QED  BY <1>7, <2>1, QuietRegular DEF pluginHistory
<1> QED  BY <1>1, <1>2, <1>3, <1>4, <1>5, <1>6, <1>7 DEF PluginNext

LEMMA PluginStep == AppsOK /\ PluginInv /\ [PluginNext]_pvars => PluginInv'
<1> SUFFICES ASSUME AppsOK, PluginInv, [PluginNext]_pvars PROVE PluginInv'
  OBVIOUS
<1>1. CASE PluginNext
  <2>1. PluginTypeOK' /\ OneAtATime'
    BY <1>1, PluginTypes, OneAtATimeKept DEF PluginInv
  <2> QED  BY <1>1, <2>1, NextKeepsRegular DEF PluginInv
<1>2. CASE UNCHANGED pvars
  <2>1. PluginTypeOK' /\ OneAtATime'
    BY <1>2 DEF PluginInv, PluginTypeOK, OneAtATime, pvars
  <2>2. ~irregular' => Regular'
    BY <1>2, QuietRegular DEF PluginInv, pvars, memory, kernel
  <2> QED  BY <2>1, <2>2 DEF PluginInv
<1> QED  BY <1>1, <1>2

LEMMA PluginInvariant ==
  ASSUME AppsOK
  PROVE  PluginSpec => []PluginInv
BY PluginInitHolds, PluginStep, PTL DEF PluginSpec

\* PluginLoader__HandleKernelEvent, the task that waits for the process and the hooks
\* of the kernel extension (plgloader.c, PLG_SignalEvent): as long as nothing is under
\* way, the plugin of an application that runs is loaded, mapped and runs while the status
\* is RUNNING, and is in the swap file with its threads locked while it is swapped out,
\* whatever exits, is suspended or is woken in whatever order.
THEOREM PluginIsWhereStatusSays ==
  ASSUME AppsOK
  PROVE  PluginSpec => []TargetHasItsPlugin
<1>1. PluginInv => TargetHasItsPlugin
  <2> SUFFICES ASSUME PluginInv, ~irregular, NEW a \in Apps, plgCtx.target = a, Lives(a),
                      main \in {"idle", "publishes"}, plgTask = "idle"
               PROVE  /\ cfg.status = "running" => Has(a)
                      /\ plgCtx.swapped => SwappedOut(a)
    BY DEF TargetHasItsPlugin, Has, SwappedOut
  <2>1. Regular
    BY DEF PluginInv
  <2>2. cfg.status = "running" => Has(a)
    BY <2>1 DEF Regular, PluginIsThere
  <2>3. plgCtx.swapped => cfg.status \in {"running", "inhome"}
    BY <2>1, PluginFields DEF Regular, NoneUntilLoaded, ExitIsUnderWay, PluginInv
  <2>4. plgCtx.swapped => SwappedOut(a)
    BY <2>1, <2>3 DEF Regular, PluginIsThere
  <2> QED  BY <2>2, <2>4
<1> QED  BY <1>1, PluginInvariant, PTL

\* WaitForProcessTerminated in the task runner (plgloader.c): when the application has ended
\* and its events have been handled, there is no target, the block is freed, nothing is
\* swapped out and the status is NONE, so that the loader serves the next application.
THEOREM PluginLeavesNothing ==
  ASSUME AppsOK
  PROVE  PluginSpec => []CleanWhenQuiet
<1>1. PluginInv => CleanWhenQuiet
  <2> SUFFICES ASSUME PluginInv, ~irregular, main = "idle", plgTask = "idle", notified = 0,
                      \A a \in Apps : app[a] \in {"none", "dead"}
               PROVE  plgCtx.target = NoApp /\ ~plgCtx.isReady /\ cfg.status = "none" /\ ~plgCtx.swapped
    BY DEF CleanWhenQuiet
  <2>1. Regular
    BY DEF PluginInv
  <2>2. cfg.status \notin {"running", "inhome"}
    BY <2>1 DEF Regular, PluginIsThere, Lives
  <2>3. cfg.status # "exiting"
    BY <2>1 DEF Regular, ExitIsUnderWay, HandlesExit
  <2>4. cfg.status = "none"
    BY <2>2, <2>3, PluginFields DEF PluginInv
  <2> QED  BY <2>1, <2>4 DEF Regular, NoneUntilLoaded
<1> QED  BY <1>1, PluginInvariant, PTL
-----------------------------------------------------------------------------
(***************************************************************************)
(* The binary search that the kernel extension and the debugger have in    *)
(* the same words, and the tables they keep with it.                       *)
(*                                                                         *)
(* Bisect is a recursive function; that there is one with its equation is  *)
(* shown from functions that satisfy it up to a width of the bounds, and   *)
(* what it returns by the least width at which it would be wrong.          *)
(***************************************************************************)
\* Of numbers one is least.
LEMMA LeastNumber ==
  ASSUME NEW J, J \subseteq Nat, J # {}
  PROVE  \E j \in J : \A k \in J : j <= k
<1>1. PICK j \in J : \A k \in J : ~(<<k, j>> \in OpToRel(<, Nat))
  BY NatLessThanWellFounded, WFMin
<1>2. \A k \in J : ~(k < j)
  BY <1>1 DEF OpToRel
<1> QED  BY <1>2

\* What one turn of the loop makes of f, which says where the turns after it end.
Turn(keys, key, f, bounds) ==
  IF keys[Middle(bounds)] = key THEN Middle(bounds)
  ELSE IF Narrowed(keys, key, bounds)[2] > Narrowed(keys, key, bounds)[1] + 1
       THEN f[Narrowed(keys, key, bounds)] ELSE Narrowed(keys, key, bounds)[2]

\* What both tables are.
Ascending(keys) == \A i, j \in DOMAIN keys : i < j => keys[i] < keys[j]

\* The loop looks at a slot within the bounds, and not at the upper one.
LEMMA MiddleIsBetween ==
  ASSUME NEW keys \in Seq(Nat), NEW bounds \in Bounds(keys)
  PROVE  /\ Middle(bounds) \in DOMAIN keys /\ Middle(bounds) \in Nat
         /\ bounds[1] \in Nat /\ bounds[2] \in Nat
         /\ bounds[1] + 1 < bounds[2] => bounds[1] < Middle(bounds) /\ Middle(bounds) < bounds[2]
         /\ bounds[2] = bounds[1] + 1 => Middle(bounds) = bounds[1]
<1>1. PICK n \in Nat : DOMAIN keys = 1 .. n
  BY LenProperties
<1>2. PICK a \in 1 .. n, b \in 1 .. n : bounds = <<a, b>>
  BY <1>1 DEF Bounds
<1>3. /\ (a + b) \div 2 \in 1 .. n
      /\ a + 1 < b => a < (a + b) \div 2 /\ (a + b) \div 2 < b
      /\ b = a + 1 => (a + b) \div 2 = a
  OBVIOUS
<1> QED  BY <1>1, <1>2, <1>3 DEF Middle

\* What is left of the bounds is less, unless the loop ends.
LEMMA NarrowedIs ==
  ASSUME NEW keys \in Seq(Nat), NEW key \in Nat, NEW bounds \in Bounds(keys),
         keys[Middle(bounds)] # key
  PROVE  LET next == Narrowed(keys, key, bounds)
         IN /\ next \in Bounds(keys) /\ next[1] \in Nat /\ next[2] \in Nat
            /\ \/ keys[Middle(bounds)] < key /\ next = <<Middle(bounds), bounds[2]>>
               \/ keys[Middle(bounds)] > key /\ next = <<bounds[1], Middle(bounds)>>
            /\ next[2] > next[1] + 1 => next[2] - next[1] < bounds[2] - bounds[1]
<1>1. PICK n \in Nat : DOMAIN keys = 1 .. n
  BY LenProperties
<1>2. PICK a \in 1 .. n, b \in 1 .. n : bounds = <<a, b>>
  BY <1>1 DEF Bounds
<1>3. PICK m \in 1 .. n : m = Middle(bounds)
  BY <1>1, MiddleIsBetween
<1>4. /\ a + 1 < b => a < m /\ m < b
      /\ b = a + 1 => m = a
  BY <1>2, <1>3, MiddleIsBetween
<1>5. keys[m] \in Nat /\ keys[m] # key
  BY <1>1, <1>3, ElementOfSeq
<1>6. CASE keys[m] < key
  <2>1. Narrowed(keys, key, bounds) = <<m, b>>
    BY <1>2, <1>3, <1>5, <1>6 DEF Narrowed
  <2>2. m = (a + b) \div 2
    BY <1>2, <1>3 DEF Middle
  <2>3. b > m + 1 => b - m < b - a
    BY <2>2
  <2>4. <<m, b>> \in Bounds(keys)
    BY <1>1 DEF Bounds
  <2> QED  BY <2>1, <2>3, <2>4, <1>2, <1>3, <1>6
<1>7. CASE keys[m] > key
  <2>1. Narrowed(keys, key, bounds) = <<a, m>>
    BY <1>2, <1>3, <1>5, <1>7 DEF Narrowed
  <2>2. m = (a + b) \div 2
    BY <1>2, <1>3 DEF Middle
  <2>3. m > a + 1 => m - a < b - a
    BY <2>2
  <2>4. <<a, m>> \in Bounds(keys)
    BY <1>1 DEF Bounds
  <2> QED  BY <2>1, <2>3, <2>4, <1>2, <1>3, <1>7
<1> QED  BY <1>5, <1>6, <1>7

\* The loop ends, from any bounds: for every width there is a function that says where, from
\* bounds of at most that width.
LEMMA BisectTurns ==
  ASSUME NEW keys \in Seq(Nat), NEW key \in Nat
  PROVE  Bisect(keys, key) = [bounds \in Bounds(keys) |-> Turn(keys, key, Bisect(keys, key), bounds)]
<1> DEFINE B == Bounds(keys)
           upTo(f, n) == /\ DOMAIN f = B
                         /\ \A bounds \in B : bounds[2] <= bounds[1] + n =>
                              f[bounds] = Turn(keys, key, f, bounds)
           bad == {n \in Nat : ~\E f : upTo(f, n)}
           turned(f) == [bounds \in B |-> Turn(keys, key, f, bounds)]
<1>1. \A bounds \in B : bounds[1] \in Nat /\ bounds[2] \in Nat
  BY MiddleIsBetween
<1>2. ASSUME NEW f, NEW n \in Nat, n = 0 \/ upTo(f, n - 1)
      PROVE  upTo(turned(f), n)
  <2>1. DOMAIN turned(f) = B
    OBVIOUS
  <2>2. ASSUME NEW bounds \in B, bounds[2] <= bounds[1] + n
        PROVE  turned(f)[bounds] = Turn(keys, key, turned(f), bounds)
    <3> DEFINE next == Narrowed(keys, key, bounds)
    <3>1. turned(f)[bounds] = Turn(keys, key, f, bounds)
      OBVIOUS
    <3>2. CASE keys[Middle(bounds)] = key \/ ~(next[2] > next[1] + 1)
      BY <3>1, <3>2 DEF Turn
    <3>3. CASE keys[Middle(bounds)] # key /\ next[2] > next[1] + 1
      <4>1. /\ next \in B /\ next[1] \in Nat /\ next[2] \in Nat
            /\ next[2] - next[1] < bounds[2] - bounds[1]
        BY <3>3, NarrowedIs
      <4>2. n # 0 /\ next[2] <= next[1] + (n - 1)
        <5>1. \A a, b, c, d \in Nat : d > c + 1 /\ d - c < b - a /\ b <= a + n =>
                                     n # 0 /\ d <= c + (n - 1)
          OBVIOUS
        <5>2. bounds[1] \in Nat /\ bounds[2] \in Nat
          BY <1>1
        <5> HIDE DEF next
        <5> QED  BY <5>1, <5>2, <4>1, <3>3, <2>2
      <4>3. f[next] = Turn(keys, key, f, next)
        BY <4>1, <4>2, <1>2
      <4>4. turned(f)[next] = Turn(keys, key, f, next)
        BY <4>1
      <4>5. Turn(keys, key, f, bounds) = f[next] /\ Turn(keys, key, turned(f), bounds) = turned(f)[next]
        BY <3>3 DEF Turn
      <4> QED  BY <4>3, <4>4, <4>5, <3>1
    <3> QED  BY <3>2, <3>3
  <2> QED  BY <2>1, <2>2
<1>3. bad = {}
  <2> SUFFICES ASSUME bad # {} PROVE FALSE
    OBVIOUS
  <2>1. PICK n \in bad : \A k \in bad : n <= k
    BY LeastNumber
  <2>2. n \in Nat /\ ~\E f : upTo(f, n)
    OBVIOUS
  <2>3. CASE n = 0
    BY <2>2, <2>3, <1>2
  <2>4. CASE n # 0
    <3>1. n - 1 \in Nat /\ n - 1 \notin bad
      BY <2>1, <2>2, <2>4
    <3>2. PICK f : upTo(f, n - 1)
      BY <3>1
    <3>3. upTo(turned(f), n)
      BY <3>2, <2>2, <1>2
    <3> QED  BY <3>3, <2>2
  <2> QED  BY <2>3, <2>4
<1>4. PICK n \in Nat : DOMAIN keys = 1 .. n
  BY LenProperties
<1>5. PICK f : upTo(f, n)
  BY <1>3
<1>6. \A bounds \in B : bounds[2] <= bounds[1] + n
  BY <1>4 DEF Bounds
<1>7. \A bounds \in B : f[bounds] = Turn(keys, key, f, bounds)
  BY <1>5, <1>6
<1>8. \E g : g = [bounds \in B |-> Turn(keys, key, g, bounds)]
  <2>1. turned(f) = [bounds \in B |-> Turn(keys, key, turned(f), bounds)]
    <3>1. ASSUME NEW bounds \in B PROVE Turn(keys, key, turned(f), bounds) = Turn(keys, key, f, bounds)
      <4>1. CASE keys[Middle(bounds)] = key
        BY <4>1 DEF Turn
      <4>2. CASE keys[Middle(bounds)] # key
        <5>1. Narrowed(keys, key, bounds) \in B
          BY <4>2, NarrowedIs
        <5>2. turned(f)[Narrowed(keys, key, bounds)] = f[Narrowed(keys, key, bounds)]
          BY <5>1, <1>7
        <5> QED  BY <5>2 DEF Turn
      <4> QED  BY <4>1, <4>2
    <3> QED  BY <3>1
  <2> QED  BY <2>1
<1>9. Bisect(keys, key) = CHOOSE g : g = [bounds \in B |-> Turn(keys, key, g, bounds)]
  BY DEF Bisect, Turn
<1> QED  BY <1>8, <1>9

\* How a key compares with those of slots before and after.
LEMMA InOrder ==
  ASSUME NEW keys \in Seq(Nat), NEW key \in Nat, Ascending(keys), NEW i \in DOMAIN keys, NEW j \in DOMAIN keys
  PROVE  /\ i \in Nat /\ j \in Nat /\ keys[i] \in Nat /\ keys[j] \in Nat
         /\ keys[i] < key /\ key <= keys[j] => i < j
         /\ i <= j /\ keys[j] < key => keys[i] < key
         /\ i <= j /\ key <= keys[i] => key <= keys[j]
         /\ i < j /\ keys[j] = key => keys[i] < key
<1>1. i \in Nat /\ j \in Nat /\ keys[i] \in Nat /\ keys[j] \in Nat
  BY LenProperties, ElementOfSeq
<1>2. /\ i < j => keys[i] < keys[j]
      /\ j < i => keys[j] < keys[i]
  BY DEF Ascending
<1> QED  BY <1>1, <1>2

\* From bounds around the key the loop ends at the first slot whose key is not below it.
LEMMA BisectFinds ==
  ASSUME NEW keys \in Seq(Nat), NEW key \in Nat, Ascending(keys),
         NEW bounds \in Bounds(keys), keys[bounds[1]] < key, key <= keys[bounds[2]]
  PROVE  LET i == Bisect(keys, key)[bounds]
         IN i \in DOMAIN keys /\ i - 1 \in DOMAIN keys /\ keys[i - 1] < key /\ key <= keys[i]
<1> DEFINE result == Bisect(keys, key)
           found(i) == i \in DOMAIN keys /\ i - 1 \in DOMAIN keys /\ keys[i - 1] < key /\ key <= keys[i]
           around(r) == r \in Bounds(keys) /\ keys[r[1]] < key /\ key <= keys[r[2]]
           bad == {n \in Nat : \E r \in Bounds(keys) : around(r) /\ ~found(result[r]) /\ n = r[2] - r[1]}
<1>0. \A i \in DOMAIN keys : i \in Nat /\ keys[i] \in Nat
  BY LenProperties, ElementOfSeq
<1>1. \A r \in Bounds(keys) : /\ r[1] \in DOMAIN keys /\ r[2] \in DOMAIN keys /\ r[1] \in Nat /\ r[2] \in Nat
                               /\ result[r] = Turn(keys, key, result, r)
  <2>1. \A r \in Bounds(keys) : result[r] = Turn(keys, key, result, r)
    BY BisectTurns
  <2> QED  BY <2>1, <1>0 DEF Bounds
<1>2. \A r \in Bounds(keys) : around(r) => r[1] < r[2]
  <2> SUFFICES ASSUME NEW r \in Bounds(keys), around(r) PROVE r[1] < r[2]
    OBVIOUS
  <2>1. r[1] \in DOMAIN keys /\ r[2] \in DOMAIN keys /\ keys[r[1]] < key /\ key <= keys[r[2]]
    BY <1>1
  <2> QED  BY <2>1, InOrder
<1>3. ASSUME NEW r \in Bounds(keys), around(r),
             \A s \in Bounds(keys) : around(s) /\ s[2] - s[1] < r[2] - r[1] => found(result[s])
      PROVE  found(result[r])
  <2> DEFINE m == Middle(r)
             next == Narrowed(keys, key, r)
  <2>1. /\ m \in DOMAIN keys /\ m \in Nat /\ keys[m] \in Nat
        /\ r[1] + 1 < r[2] => r[1] < m /\ m < r[2]
        /\ r[2] = r[1] + 1 => m = r[1]
        /\ r[1] < r[2] /\ r[1] \in Nat /\ r[2] \in Nat /\ r[1] \in DOMAIN keys /\ r[2] \in DOMAIN keys
    BY <1>0, <1>1, <1>2, <1>3, MiddleIsBetween
  <2>2. CASE keys[m] = key
    <3>1. result[r] = m
      BY <1>1, <2>2 DEF Turn
    <3>2. r[1] < m /\ m - 1 \in DOMAIN keys
      <4>1. PICK n \in Nat : DOMAIN keys = 1 .. n
        BY LenProperties
      <4>2. r[1] < m
        <5>1. key <= keys[m]
          BY <2>1, <2>2
        <5>2. keys[r[1]] < key
          BY <1>3
        <5> QED  BY <5>1, <5>2, <2>1, InOrder
      <4>3. r[1] \in 1 .. n /\ m \in 1 .. n /\ r[1] \in Nat /\ m \in Nat
        BY <4>1, <2>1
      <4> HIDE DEF m
      <4>4. m - 1 \in 1 .. n
        BY <4>2, <4>3
      <4> QED  BY <4>1, <4>2, <4>4
    <3>3. keys[m - 1] < key
      <4>1. m - 1 < m
        BY <2>1
      <4>2. keys[m - 1] < keys[m]
        BY <4>1, <3>2, <2>1 DEF Ascending
      <4> QED  BY <4>2, <2>2
    <3> QED  BY <3>1, <3>2, <3>3, <2>1, <2>2
  <2>3. CASE keys[m] # key
    <3>1. /\ next \in Bounds(keys) /\ next[1] \in Nat /\ next[2] \in Nat
          /\ \/ keys[m] < key /\ next = <<m, r[2]>>
             \/ keys[m] > key /\ next = <<r[1], m>>
          /\ next[2] > next[1] + 1 => next[2] - next[1] < r[2] - r[1]
      BY <2>3, NarrowedIs
    <3>2. around(next)
      <4>1. keys[r[1]] < key /\ key <= keys[r[2]]
        BY <1>3
      <4>2. CASE keys[m] < key /\ next = <<m, r[2]>>
        <5>1. next[1] = m /\ next[2] = r[2]
          BY <4>2
        <5> QED  BY <5>1, <4>1, <4>2, <3>1
      <4>3. CASE keys[m] > key /\ next = <<r[1], m>>
        <5>1. next[1] = r[1] /\ next[2] = m
          BY <4>3
        <5>2. key <= keys[m]
          BY <4>3, <2>1
        <5> QED  BY <5>1, <5>2, <4>1, <3>1
      <4> QED  BY <3>1, <4>2, <4>3
    <3>3. CASE next[2] > next[1] + 1
      <4>1. result[r] = result[next]
        BY <1>1, <2>3, <3>3 DEF Turn
      <4> QED  BY <4>1, <3>1, <3>2, <3>3, <1>3
    <3>4. CASE ~(next[2] > next[1] + 1)
      <4>1. result[r] = next[2]
        BY <1>1, <2>3, <3>4 DEF Turn
      <4>2. next[1] < next[2]
        BY <3>1, <3>2, <1>2
      <4>3. next[1] = next[2] - 1
        BY <4>2, <3>1, <3>4
      <4> QED  BY <4>1, <4>3, <3>2, <3>1, <1>1
    <3> QED  BY <3>3, <3>4
  <2> QED  BY <2>2, <2>3
<1>4. bad = {}
  <2> SUFFICES ASSUME bad # {} PROVE FALSE
    OBVIOUS
  <2>1. PICK n \in bad : \A k \in bad : n <= k
    BY LeastNumber
  <2>2. PICK r \in Bounds(keys) : around(r) /\ ~found(result[r]) /\ n = r[2] - r[1]
    BY <2>1
  <2>3. ASSUME NEW s \in Bounds(keys), around(s), s[2] - s[1] < r[2] - r[1] PROVE found(result[s])
    <3>1. s[2] - s[1] \in Nat
      <4>1. s[1] < s[2]
        BY <1>2, <2>3
      <4>2. s[1] \in Nat /\ s[2] \in Nat
        BY <1>1
      <4>3. \A x, y \in Nat : x < y => y - x \in Nat
        OBVIOUS
      <4> QED  BY <4>1, <4>2, <4>3, Zenon
    <3>2. s[2] - s[1] \notin bad
      <4>1. ~(n <= s[2] - s[1])
        BY <2>2, <2>3, <3>1, <1>1
      <4> QED  BY <4>1, <2>1
    <3> QED  BY <2>3, <3>1, <3>2
  <2> QED  BY <2>2, <2>3, <1>3
<1>5. bounds[2] - bounds[1] \in Nat
  BY <1>1, <1>2
<1> QED  BY <1>4, <1>5

\* SessionInfo_FindClosestSlot and GDB_FindClosestBreakpointSlot, for any sorted table.
LEMMA ClosestSlotIs ==
  ASSUME NEW keys \in Seq(Nat), NEW key \in Nat, Ascending(keys)
  PROVE  LET i == ClosestSlot(keys, key)
         IN /\ i \in 1 .. Len(keys) + 1
            /\ \A j \in 1 .. i - 1 : keys[j] < key
            /\ \A j \in i .. Len(keys) : key <= keys[j]
<1>1. Len(keys) \in Nat /\ DOMAIN keys = 1 .. Len(keys) /\ \A i \in 1 .. Len(keys) : keys[i] \in Nat
  BY LenProperties, ElementOfSeq
<1>2. CASE keys = <<>> \/ key <= keys[1]
  <2>1. ClosestSlot(keys, key) = 1
    BY <1>2 DEF ClosestSlot
  <2>2. ASSUME NEW j \in 1 .. Len(keys) PROVE key <= keys[j]
    <3>1. j \in DOMAIN keys /\ 1 \in DOMAIN keys /\ 1 <= j /\ keys # <<>>
      BY <1>1, EmptySeq
    <3> QED  BY <3>1, <1>2, InOrder
  <2> QED  BY <2>1, <2>2, <1>1
<1>3. CASE ~(keys = <<>> \/ key <= keys[1]) /\ key > keys[Len(keys)]
  <2>1. ClosestSlot(keys, key) = Len(keys) + 1
    BY <1>3 DEF ClosestSlot
  <2>2. ASSUME NEW j \in 1 .. Len(keys) PROVE keys[j] < key
    <3>1. j \in DOMAIN keys /\ Len(keys) \in DOMAIN keys /\ j <= Len(keys) /\ keys[Len(keys)] < key
      BY <1>1, <1>3
    <3> QED  BY <3>1, InOrder
  <2> QED  BY <2>1, <2>2, <1>1
<1>4. CASE ~(keys = <<>> \/ key <= keys[1]) /\ ~(key > keys[Len(keys)])
  <2>1. Len(keys) \in 1 .. Len(keys) /\ 1 \in 1 .. Len(keys)
    BY <1>1, <1>4, EmptySeq
  <2>2. <<1, Len(keys)>> \in Bounds(keys)
    BY <2>1, <1>1 DEF Bounds
  <2>3. keys[1] < key /\ key <= keys[Len(keys)]
    BY <1>1, <2>1, <1>4
  <2>4. ClosestSlot(keys, key) = Bisect(keys, key)[<<1, Len(keys)>>]
    BY <1>4 DEF ClosestSlot
  <2>5. PICK i \in DOMAIN keys : /\ i = ClosestSlot(keys, key)
                                /\ i - 1 \in DOMAIN keys /\ keys[i - 1] < key /\ key <= keys[i]
    BY <2>2, <2>3, <2>4, BisectFinds
  <2>6. ASSUME NEW j \in 1 .. i - 1 PROVE keys[j] < key
    <3>1. j \in DOMAIN keys /\ i - 1 \in DOMAIN keys /\ j <= i - 1
      BY <1>1, <2>5
    <3> QED  BY <3>1, <2>5, InOrder
  <2>7. ASSUME NEW j \in i .. Len(keys) PROVE key <= keys[j]
    <3>1. j \in DOMAIN keys /\ i <= j
      BY <1>1, <2>5
    <3> QED  BY <3>1, <2>5, InOrder
  <2> QED  BY <2>5, <2>6, <2>7, <1>1
<1> QED  BY <1>2, <1>3, <1>4

\* A key that is in the table is found where it is.
LEMMA SlotOfKey ==
  ASSUME NEW keys \in Seq(Nat), NEW key \in Nat, Ascending(keys),
         NEW i \in 1 .. Len(keys), keys[i] = key
  PROVE  ClosestSlot(keys, key) = i
<1> DEFINE id == ClosestSlot(keys, key)
<1>1. /\ Len(keys) \in Nat /\ DOMAIN keys = 1 .. Len(keys) /\ i \in Nat
      /\ \A j \in 1 .. Len(keys) : keys[j] \in Nat
  BY LenProperties, ElementOfSeq
<1>2. /\ id \in 1 .. Len(keys) + 1
      /\ \A j \in 1 .. id - 1 : keys[j] < key
      /\ \A j \in id .. Len(keys) : key <= keys[j]
  BY ClosestSlotIs
<1> HIDE DEF id
<1>3. ~(i < id)
  <2>1. i < id => i \in 1 .. id - 1
    BY <1>1, <1>2
  <2> QED  BY <2>1, <1>1, <1>2
<1>4. ~(id < i)
  <2> SUFFICES ASSUME id < i PROVE FALSE
    OBVIOUS
  <2>1. id \in 1 .. Len(keys) /\ id \in id .. Len(keys)
    BY <1>1, <1>2
  <2>2. key <= keys[id] /\ keys[id] < keys[i] /\ keys[id] \in Nat
    BY <2>1, <1>1, <1>2 DEF Ascending
  <2> QED  BY <2>2
<1> QED  BY <1>1, <1>2, <1>3, <1>4 DEF id

\* What InsertAt and RemoveAt make of a sequence.
LEMMA InsertAtIs ==
  ASSUME NEW S, NEW q \in Seq(S), NEW i \in 1 .. Len(q) + 1, NEW e \in S
  PROVE  /\ InsertAt(q, i, e) \in Seq(S)
         /\ Len(InsertAt(q, i, e)) = Len(q) + 1 /\ DOMAIN InsertAt(q, i, e) = 1 .. Len(q) + 1
         /\ \A k \in 1 .. Len(q) + 1 :
              InsertAt(q, i, e)[k] = IF k < i THEN q[k] ELSE IF k = i THEN e ELSE q[k - 1]
<1> DEFINE before == SubSeq(q, 1, i - 1)
           after == SubSeq(q, i, Len(q))
<1>1. Len(q) \in Nat /\ i \in Nat /\ i <= Len(q) + 1 /\ 1 <= i
  OBVIOUS
<1>2. before \in Seq(S) /\ Len(before) = i - 1 /\ \A k \in 1 .. i - 1 : before[k] = q[k]
  <2>1. \A k \in 1 .. i - 1 : q[k] \in S
    BY <1>1
  <2> QED  BY <1>1, <2>1
<1>3. /\ after \in Seq(S) /\ Len(after) = Len(q) + 1 - i
      /\ \A k \in 1 .. Len(q) + 1 - i : after[k] = q[k + i - 1]
  <2>1. \A k \in i .. Len(q) : q[k] \in S
    BY <1>1
  <2> QED  BY <1>1, <2>1
<1> HIDE DEF before, after
<1>4. InsertAt(q, i, e) = (before \o <<e>>) \o after
  BY DEF InsertAt, before, after
<1>5. /\ before \o <<e>> \in Seq(S) /\ Len(before \o <<e>>) = i
      /\ \A k \in 1 .. i : (before \o <<e>>)[k] = IF k < i THEN q[k] ELSE e
  BY <1>1, <1>2
<1> DEFINE front == before \o <<e>>
<1> HIDE DEF front
<1>6. front \in Seq(S) /\ Len(front) = i /\ \A k \in 1 .. i : front[k] = IF k < i THEN q[k] ELSE e
  BY <1>5 DEF front
<1>7. /\ front \o after \in Seq(S) /\ Len(front \o after) = Len(q) + 1
      /\ \A k \in 1 .. Len(q) + 1 : (front \o after)[k] = IF k <= i THEN front[k] ELSE after[k - i]
  <2>1. Len(front) + Len(after) = Len(q) + 1
    BY <1>1, <1>3, <1>6
  <2>2. /\ front \o after \in Seq(S) /\ Len(front \o after) = Len(front) + Len(after)
        /\ \A k \in 1 .. Len(front) + Len(after) :
              (front \o after)[k] = IF k <= Len(front) THEN front[k] ELSE after[k - Len(front)]
    BY <1>3, <1>6, ConcatProperties
  <2> QED  BY <2>1, <2>2, <1>6
<1>8. \A k \in 1 .. Len(q) + 1 :
        (front \o after)[k] = IF k < i THEN q[k] ELSE IF k = i THEN e ELSE q[k - 1]
  BY <1>1, <1>3, <1>6, <1>7
<1>9. InsertAt(q, i, e) = front \o after
  BY <1>4 DEF front
<1> QED  BY <1>7, <1>8, <1>9, <1>1, LenProperties

LEMMA RemoveAtIs ==
  ASSUME NEW S, NEW q \in Seq(S), NEW i \in 1 .. Len(q)
  PROVE  /\ RemoveAt(q, i) \in Seq(S)
         /\ Len(RemoveAt(q, i)) = Len(q) - 1 /\ DOMAIN RemoveAt(q, i) = 1 .. Len(q) - 1
         /\ \A k \in 1 .. Len(q) - 1 : RemoveAt(q, i)[k] = IF k < i THEN q[k] ELSE q[k + 1]
<1> DEFINE before == SubSeq(q, 1, i - 1)
           after == SubSeq(q, i + 1, Len(q))
<1>1. Len(q) \in Nat /\ i \in Nat /\ i <= Len(q) /\ 1 <= i
  OBVIOUS
<1>2. before \in Seq(S) /\ Len(before) = i - 1 /\ \A k \in 1 .. i - 1 : before[k] = q[k]
  <2>1. \A k \in 1 .. i - 1 : q[k] \in S
    BY <1>1
  <2> QED  BY <1>1, <2>1
<1>3. /\ after \in Seq(S) /\ Len(after) = Len(q) - i
      /\ \A k \in 1 .. Len(q) - i : after[k] = q[k + i]
  <2>1. \A k \in i + 1 .. Len(q) : q[k] \in S
    BY <1>1
  <2> QED  BY <1>1, <2>1
<1> HIDE DEF before, after
<1>4. RemoveAt(q, i) = before \o after
  BY DEF RemoveAt, before, after
<1>5. /\ before \o after \in Seq(S) /\ Len(before \o after) = Len(q) - 1
      /\ \A k \in 1 .. Len(q) - 1 : (before \o after)[k] = IF k <= i - 1 THEN before[k] ELSE after[k - (i - 1)]
  <2>1. Len(before) + Len(after) = Len(q) - 1
    BY <1>1, <1>2, <1>3
  <2>2. /\ before \o after \in Seq(S) /\ Len(before \o after) = Len(before) + Len(after)
        /\ \A k \in 1 .. Len(before) + Len(after) :
              (before \o after)[k] = IF k <= Len(before) THEN before[k] ELSE after[k - Len(before)]
    BY <1>2, <1>3, ConcatProperties
  <2> QED  BY <2>1, <2>2, <1>2
<1>6. \A k \in 1 .. Len(q) - 1 : (before \o after)[k] = IF k < i THEN q[k] ELSE q[k + 1]
  BY <1>1, <1>2, <1>3, <1>5
<1> QED  BY <1>4, <1>5, <1>6, <1>1, LenProperties

-----------------------------------------------------------------------------
(***************************************************************************)
(* The table of sessions of the kernel extension, until it is full.  An    *)
(* entry is taken off without a comparison, and is the right one because   *)
(* every session that has the hook's destructor is listed, once.           *)
(***************************************************************************)

Info == [session : SessionAddresses, name : Names]
NotFull == nbActiveSessions < MaxSession

\* Until the table is full it is sorted, and has the sessions that were hooked and not removed,
\* under the names they were opened with.
SessionsInv ==
  /\ sessionInfos \in Seq(Info)
  /\ nbActiveSessions <= MaxSession
  /\ DOMAIN vtable = SessionAddresses /\ DOMAIN opened = SessionAddresses
  /\ \A s \in SessionAddresses : vtable[s] = "hooked" => opened[s] \in Names
  /\ NotFull =>
       /\ Ascending(Sessions(sessionInfos))
       /\ \A s \in SessionAddresses : vtable[s] \in {"custom", "ended"} =>
            \E i \in 1 .. nbActiveSessions : sessionInfos[i].session = s
       /\ \A i \in 1 .. nbActiveSessions :
            /\ vtable[sessionInfos[i].session] \in {"custom", "ended"}
            /\ sessionInfos[i].name = opened[sessionInfos[i].session]

LEMMA InfosAre ==
  ASSUME SessionConstantsOK, sessionInfos \in Seq(Info)
  PROVE  /\ nbActiveSessions \in Nat /\ DOMAIN sessionInfos = 1 .. nbActiveSessions
         /\ \A i \in 1 .. nbActiveSessions :
              /\ sessionInfos[i] \in Info /\ sessionInfos[i].session \in SessionAddresses
              /\ Sessions(sessionInfos)[i] = sessionInfos[i].session
         /\ Sessions(sessionInfos) \in Seq(Nat) /\ Len(Sessions(sessionInfos)) = nbActiveSessions
<1>1. /\ nbActiveSessions \in Nat /\ DOMAIN sessionInfos = 1 .. nbActiveSessions
      /\ \A i \in 1 .. nbActiveSessions : sessionInfos[i] \in Info
  BY LenProperties, ElementOfSeq DEF nbActiveSessions
<1>2. \A i \in 1 .. nbActiveSessions : sessionInfos[i].session \in SessionAddresses
  BY <1>1 DEF Info
<1>3. Sessions(sessionInfos) \in [1 .. nbActiveSessions -> Nat]
  BY <1>1, <1>2 DEF Sessions, SessionConstantsOK
<1> QED  BY <1>1, <1>2, <1>3, IsASeq, LenProperties DEF Sessions

\* The slot that is found for a session.
LEMMA SlotOfSession ==
  ASSUME SessionConstantsOK, SessionsInv, NotFull, NEW s \in SessionAddresses
  PROVE  LET id == FindClosestSlot(sessionInfos, s)
         IN /\ id \in 1 .. nbActiveSessions + 1
            /\ \A j \in 1 .. id - 1 : sessionInfos[j].session < s
            /\ \A j \in id .. nbActiveSessions : s <= sessionInfos[j].session
            /\ \A i \in 1 .. nbActiveSessions : sessionInfos[i].session = s => id = i
<1> DEFINE id == FindClosestSlot(sessionInfos, s)
           keys == Sessions(sessionInfos)
<1>1. /\ keys \in Seq(Nat) /\ Ascending(keys) /\ Len(keys) = nbActiveSessions /\ s \in Nat
      /\ nbActiveSessions \in Nat
      /\ \A j \in 1 .. nbActiveSessions : keys[j] = sessionInfos[j].session
  BY InfosAre DEF SessionsInv, SessionConstantsOK
<1> HIDE DEF keys
<1>2. /\ id \in 1 .. nbActiveSessions + 1
      /\ \A j \in 1 .. id - 1 : keys[j] < s
      /\ \A j \in id .. nbActiveSessions : s <= keys[j]
      /\ \A i \in 1 .. nbActiveSessions : keys[i] = s => id = i
  BY <1>1, ClosestSlotIs, SlotOfKey DEF FindClosestSlot, keys
<1> HIDE DEF id
<1>3. /\ \A j \in 1 .. id - 1 : j \in 1 .. nbActiveSessions
      /\ \A j \in id .. nbActiveSessions : j \in 1 .. nbActiveSessions
  BY <1>1, <1>2
<1> QED  BY <1>1, <1>2, <1>3 DEF id

\* A table stays sorted when a key is put where ClosestSlot says, or one is taken off.
LEMMA AscendingInsert ==
  ASSUME NEW keys \in Seq(Nat), NEW longer \in Seq(Nat), Ascending(keys), NEW key \in Nat,
         NEW i \in 1 .. Len(keys) + 1, Len(longer) = Len(keys) + 1,
         \A j \in 1 .. i - 1 : keys[j] < key, \A j \in i .. Len(keys) : key < keys[j],
         \A k \in 1 .. Len(keys) + 1 :
           longer[k] = IF k < i THEN keys[k] ELSE IF k = i THEN key ELSE keys[k - 1]
  PROVE  Ascending(longer)
<1>1. Len(keys) \in Nat /\ DOMAIN keys = 1 .. Len(keys) /\ DOMAIN longer = 1 .. Len(keys) + 1
  BY LenProperties
<1>2. SUFFICES ASSUME NEW j \in 1 .. Len(keys) + 1, NEW k \in 1 .. Len(keys) + 1, j < k
               PROVE  longer[j] < longer[k]
  BY <1>1 DEF Ascending
<1>3. /\ \A n \in 1 .. Len(keys) : keys[n] \in Nat
      /\ \A m, n \in 1 .. Len(keys) : m < n => keys[m] < keys[n]
  BY <1>1, ElementOfSeq DEF Ascending
<1>4. CASE k < i
  BY <1>1, <1>2, <1>3, <1>4
<1>5. CASE k = i
  BY <1>1, <1>2, <1>3, <1>5
<1>6. CASE k > i
  <2>1. longer[k] = keys[k - 1] /\ k - 1 \in i .. Len(keys) /\ k - 1 \in 1 .. Len(keys)
    BY <1>1, <1>6
  <2>2. CASE j < i
    BY <2>1, <2>2, <1>1, <1>3
  <2>3. CASE j = i
    <3>1. longer[j] = key /\ key < keys[k - 1]
      BY <2>1, <2>3
    <3> QED  BY <3>1, <2>1
  <2>4. CASE j > i
    <3>1. longer[j] = keys[j - 1] /\ j - 1 \in 1 .. Len(keys) /\ j - 1 < k - 1
      <4>1. j \in Nat /\ k \in Nat /\ i \in Nat /\ j <= Len(keys) + 1 /\ k <= Len(keys) + 1 /\ 1 <= i
        BY <1>1
      <4>2. j - 1 \in 1 .. Len(keys) /\ j - 1 < k - 1 /\ ~(j < i) /\ j # i /\ j \in 1 .. Len(keys) + 1
        BY <4>1, <2>4, <1>1, <1>2
      <4> QED  BY <4>2
    <3> QED  BY <3>1, <2>1, <1>3
  <2> QED  BY <2>2, <2>3, <2>4, <1>1
<1> QED  BY <1>1, <1>4, <1>5, <1>6

LEMMA AscendingRemove ==
  ASSUME NEW keys \in Seq(Nat), NEW shorter \in Seq(Nat), Ascending(keys),
         NEW i \in 1 .. Len(keys), Len(shorter) = Len(keys) - 1,
         \A k \in 1 .. Len(keys) - 1 : shorter[k] = IF k < i THEN keys[k] ELSE keys[k + 1]
  PROVE  Ascending(shorter)
<1>1. Len(keys) \in Nat /\ DOMAIN keys = 1 .. Len(keys) /\ DOMAIN shorter = 1 .. Len(keys) - 1
  BY LenProperties
<1>2. SUFFICES ASSUME NEW j \in 1 .. Len(keys) - 1, NEW k \in 1 .. Len(keys) - 1, j < k
               PROVE  shorter[j] < shorter[k]
  BY <1>1 DEF Ascending
<1>3. \A m, n \in 1 .. Len(keys) : m < n => keys[m] < keys[n]
  BY <1>1 DEF Ascending
<1>4. \A n \in 1 .. Len(keys) - 1 : \E m \in 1 .. Len(keys) :
        m = (IF n < i THEN n ELSE n + 1) /\ shorter[n] = keys[m]
  <2> SUFFICES ASSUME NEW n \in 1 .. Len(keys) - 1
               PROVE  \E m \in 1 .. Len(keys) : m = (IF n < i THEN n ELSE n + 1) /\ shorter[n] = keys[m]
    OBVIOUS
  <2>1. n \in 1 .. Len(keys) /\ n + 1 \in 1 .. Len(keys)
    BY <1>1
  <2>2. CASE n < i
    BY <2>1, <2>2
  <2>3. CASE ~(n < i)
    BY <2>1, <2>3
  <2> QED  BY <2>2, <2>3
<1>5. PICK m \in 1 .. Len(keys) : m = (IF j < i THEN j ELSE j + 1) /\ shorter[j] = keys[m]
  BY <1>1, <1>4
<1>6. PICK n \in 1 .. Len(keys) : n = (IF k < i THEN k ELSE k + 1) /\ shorter[k] = keys[n]
  BY <1>1, <1>4
<1>7. m < n
  <2>1. j \in Nat /\ k \in Nat /\ i \in Nat
    BY <1>1
  <2>2. m = (IF j < i THEN j ELSE j + 1) /\ n = (IF k < i THEN k ELSE k + 1) /\ j < k
    BY <1>2, <1>5, <1>6
  <2>3. CASE j < i
    BY <2>1, <2>2, <2>3
  <2>4. CASE ~(j < i)
    <3>1. ~(k < i)
      BY <2>1, <2>2, <2>4
    <3>2. m = j + 1 /\ n = k + 1
      BY <3>1, <2>2, <2>4
    <3> QED  BY <3>2, <2>1, <2>2
  <2> QED  BY <2>3, <2>4
<1> QED  BY <1>3, <1>5, <1>6, <1>7

\* SessionInfo_Add, under the locks.
LEMMA AddKeeps ==
  ASSUME SessionConstantsOK, SessionsInv, NEW s \in SessionAddresses, Add(s)
  PROVE  SessionsInv'
<1> DEFINE name == opened[s]
<1>1. /\ DOMAIN vtable' = SessionAddresses /\ DOMAIN opened' = SessionAddresses
      /\ vtable'[s] = "custom" /\ opened'[s] = name /\ vtable[s] = "hooked" /\ name \in Names
      /\ \A r \in SessionAddresses \ {s} : vtable'[r] = vtable[r] /\ opened'[r] = opened[r]
  BY DEF Add, SessionsInv
<1> HIDE DEF name
<1>2. nbActiveSessions \in Nat /\ nbActiveSessions <= MaxSession /\ MaxSession \in Nat
  BY InfosAre DEF SessionsInv, SessionConstantsOK
<1>3. CASE ~NotFull
  <2>1. nbActiveSessions = MaxSession
    BY <1>2, <1>3 DEF NotFull
  <2>2. sessionInfos' = sessionInfos
    BY <2>1 DEF Add, Added
  <2>3. ~NotFull' /\ nbActiveSessions' = nbActiveSessions
    BY <1>3, <2>2 DEF NotFull, nbActiveSessions
  <2> QED  BY <1>1, <2>2, <2>3 DEF SessionsInv
<1>4. CASE NotFull
  <2> DEFINE id == FindClosestSlot(sessionInfos, s)
             info == [session |-> s, name |-> name]
             infos == InsertAt(sessionInfos, id, info)
  <2>1. /\ id \in 1 .. nbActiveSessions + 1
        /\ \A j \in 1 .. id - 1 : sessionInfos[j].session < s
        /\ \A j \in id .. nbActiveSessions : s <= sessionInfos[j].session
    BY <1>4, SlotOfSession
  <2>2. \A i \in 1 .. nbActiveSessions : sessionInfos[i].session # s
    BY <1>1, <1>4 DEF SessionsInv
  <2> HIDE DEF id
  <2>3. sessionInfos' = infos
    <3>1. ~(nbActiveSessions = MaxSession)
      BY <1>2, <1>4 DEF NotFull
    <3>2. ~(id <= nbActiveSessions /\ sessionInfos[id].session = s)
      BY <2>1, <2>2, <1>2
    <3> QED  BY <3>1, <3>2 DEF Add, Added, id, name
  <2>4. /\ infos \in Seq(Info) /\ Len(infos) = nbActiveSessions + 1
        /\ \A k \in 1 .. nbActiveSessions + 1 :
             infos[k] = IF k < id THEN sessionInfos[k] ELSE IF k = id THEN info ELSE sessionInfos[k - 1]
    <3>1. info \in Info
      BY <1>1 DEF Info
    <3>2. sessionInfos \in Seq(Info) /\ id \in 1 .. Len(sessionInfos) + 1
      BY <2>1 DEF SessionsInv, nbActiveSessions
    <3> QED  BY <3>1, <3>2, InsertAtIs DEF nbActiveSessions
  <2> HIDE DEF infos
  <2>5. sessionInfos' \in Seq(Info) /\ nbActiveSessions' = nbActiveSessions + 1
    BY <2>3, <2>4 DEF nbActiveSessions
  <2>6. /\ Sessions(infos) \in Seq(Nat) /\ Len(Sessions(infos)) = nbActiveSessions + 1
        /\ \A k \in 1 .. nbActiveSessions + 1 :  Sessions(infos)[k] = infos[k].session
    <3>1. DOMAIN infos = 1 .. nbActiveSessions + 1 /\ \A k \in DOMAIN infos : infos[k] \in Info
      BY <2>4, <1>2, LenProperties, ElementOfSeq
    <3>2. \A k \in DOMAIN infos : infos[k].session \in Nat
      BY <3>1 DEF Info, SessionConstantsOK
    <3>3. Sessions(infos) \in [1 .. nbActiveSessions + 1 -> Nat]
      BY <3>1, <3>2 DEF Sessions
    <3> QED  BY <3>1, <3>3, <1>2, IsASeq, LenProperties DEF Sessions
  <2>7. Ascending(Sessions(infos))
    <3> DEFINE keys == Sessions(sessionInfos)
               longer == Sessions(infos)
    <3>1. /\ keys \in Seq(Nat) /\ longer \in Seq(Nat) /\ Ascending(keys) /\ Len(keys) = nbActiveSessions
          /\ \A j \in 1 .. nbActiveSessions :
                keys[j] = sessionInfos[j].session /\ sessionInfos[j].session \in Nat
      BY <1>4, <2>6, InfosAre DEF SessionsInv, SessionConstantsOK
    <3>2. /\ \A j \in 1 .. id - 1 : keys[j] < s
          /\ \A j \in id .. nbActiveSessions : s < keys[j]
      <4>0. s \in Nat
        BY DEF SessionConstantsOK
      <4>1. id \in Nat /\ s \in Nat /\ id <= nbActiveSessions + 1 /\ 1 <= id
        BY <4>0, <2>1, <1>2
      <4>2. ASSUME NEW j \in 1 .. id - 1 PROVE keys[j] < s
        <5>1. j \in 1 .. nbActiveSessions
          BY <4>1, <1>2
        <5> QED  BY <5>1, <3>1, <2>1
      <4>3. ASSUME NEW j \in id .. nbActiveSessions PROVE s < keys[j]
        <5>1. j \in 1 .. nbActiveSessions
          BY <4>1, <1>2
        <5>2. s <= sessionInfos[j].session /\ sessionInfos[j].session # s
              /\ sessionInfos[j].session \in Nat
          BY <5>1, <3>1, <2>1, <2>2
        <5>3. s < sessionInfos[j].session
          BY <5>2, <4>1
        <5> QED  BY <5>1, <5>3, <3>1
      <4> QED  BY <4>2, <4>3
    <3>3. \A k \in 1 .. nbActiveSessions + 1 :
            longer[k] = IF k < id THEN keys[k] ELSE IF k = id THEN s ELSE keys[k - 1]
      <4> SUFFICES ASSUME NEW k \in 1 .. nbActiveSessions + 1
                   PROVE  longer[k] = IF k < id THEN keys[k] ELSE IF k = id THEN s ELSE keys[k - 1]
        OBVIOUS
      <4>1. longer[k] = infos[k].session
        BY <2>6
      <4>2. CASE k < id
        <5>1. k \in 1 .. nbActiveSessions
          BY <4>2, <2>1, <1>2
        <5> QED  BY <5>1, <4>1, <4>2, <2>4, <3>1
      <4>3. CASE k = id
        BY <4>1, <4>3, <2>4, <2>1, <1>2
      <4>4. CASE ~(k < id) /\ k # id
        <5>1. k - 1 \in 1 .. nbActiveSessions
          BY <4>4, <2>1, <1>2
        <5> QED  BY <5>1, <4>1, <4>4, <2>4, <3>1
      <4> QED  BY <4>2, <4>3, <4>4
    <3> HIDE DEF keys, longer
    <3>4. Ascending(longer)
      BY <3>1, <3>2, <3>3, <2>1, <2>6, AscendingInsert DEF SessionConstantsOK, longer
    <3> QED  BY <3>4 DEF longer
  <2>8. ASSUME NEW k \in 1 .. nbActiveSessions + 1
        PROVE  vtable'[infos[k].session] \in {"custom", "ended"} /\ infos[k].name = opened'[infos[k].session]
    <3>1. CASE k = id
      BY <3>1, <2>1, <2>4, <1>1, <1>2
    <3>2. CASE k # id
      <4>1. PICK j \in 1 .. nbActiveSessions : infos[k] = sessionInfos[j]
        BY <3>2, <2>1, <2>4, <1>2
      <4>2. sessionInfos[j].session \in SessionAddresses \ {s}
        BY <2>2, InfosAre DEF SessionsInv
      <4> QED  BY <4>1, <4>2, <1>1, <1>4 DEF SessionsInv
    <3> QED  BY <3>1, <3>2
  <2>9. ASSUME NEW r \in SessionAddresses, vtable'[r] \in {"custom", "ended"}
        PROVE  \E k \in 1 .. nbActiveSessions + 1 : infos[k].session = r
    <3>1. CASE r = s
      <4>1. id \in 1 .. nbActiveSessions + 1 /\ infos[id] = info
        BY <2>1, <2>4, <1>2
      <4> QED  BY <3>1, <4>1
    <3>2. CASE r # s
      <4>1. PICK j \in 1 .. nbActiveSessions : sessionInfos[j].session = r
        BY <3>2, <2>9, <1>1, <1>4 DEF SessionsInv
      <4>2. CASE j < id
        <5>1. j \in 1 .. nbActiveSessions + 1 /\ infos[j] = sessionInfos[j]
          BY <4>2, <2>4, <1>2
        <5> QED  BY <5>1, <4>1
      <4>3. CASE ~(j < id)
        <5>1. j + 1 \in 1 .. nbActiveSessions + 1 /\ infos[j + 1] = sessionInfos[j]
          BY <4>3, <2>1, <2>4, <1>2
        <5> QED  BY <5>1, <4>1
      <4> QED  BY <4>2, <4>3
    <3> QED  BY <3>1, <3>2
  <2>10. nbActiveSessions' <= MaxSession
    BY <2>5, <1>2, <1>4 DEF NotFull
  <2> QED  BY <1>1, <2>3, <2>5, <2>7, <2>8, <2>9, <2>10 DEF SessionsInv
<1> QED  BY <1>3, <1>4

\* KSession_dtor_hook and SessionInfo_Remove.
LEMMA HookRemovesKeeps ==
  ASSUME SessionConstantsOK, SessionsInv, NEW s \in SessionAddresses, HookRemoves(s)
  PROVE  SessionsInv'
<1>1. /\ DOMAIN vtable' = SessionAddresses /\ DOMAIN opened' = SessionAddresses
      /\ vtable'[s] = "free" /\ vtable[s] = "ended"
      /\ \A r \in SessionAddresses \ {s} : vtable'[r] = vtable[r] /\ opened'[r] = opened[r]
  BY DEF HookRemoves, SessionsInv
<1>2. nbActiveSessions \in Nat /\ nbActiveSessions <= MaxSession /\ MaxSession \in Nat
  BY InfosAre DEF SessionsInv, SessionConstantsOK
<1>3. CASE ~NotFull
  <2>1. nbActiveSessions = MaxSession
    BY <1>2, <1>3 DEF NotFull
  <2>2. sessionInfos' = sessionInfos
    BY <2>1 DEF HookRemoves, Removed
  <2>3. ~NotFull' /\ nbActiveSessions' = nbActiveSessions
    BY <1>3, <2>2 DEF NotFull, nbActiveSessions
  <2> QED  BY <1>1, <2>2, <2>3 DEF SessionsInv
<1>4. CASE NotFull
  <2> DEFINE id == FindClosestSlot(sessionInfos, s)
             infos == RemoveAt(sessionInfos, id)
  <2>1. PICK i \in 1 .. nbActiveSessions : sessionInfos[i].session = s
    BY <1>1, <1>4 DEF SessionsInv
  <2>2. id = i /\ \A j \in 1 .. nbActiveSessions : sessionInfos[j].session = s => j = i
    BY <2>1, <1>4, SlotOfSession
  <2>3. sessionInfos' = infos
    <3>1. ~(nbActiveSessions = MaxSession) /\ ~(id > nbActiveSessions)
      BY <1>2, <1>4, <2>2 DEF NotFull
    <3> QED  BY <3>1 DEF HookRemoves, Removed
  <2>4. /\ infos \in Seq(Info) /\ Len(infos) = nbActiveSessions - 1
        /\ \A k \in 1 .. nbActiveSessions - 1 :
              infos[k] = IF k < i THEN sessionInfos[k] ELSE sessionInfos[k + 1]
    <3>1. sessionInfos \in Seq(Info) /\ i \in 1 .. Len(sessionInfos)
      BY DEF SessionsInv, nbActiveSessions
    <3> QED  BY <3>1, <2>2, RemoveAtIs DEF nbActiveSessions
  <2> HIDE DEF infos, id
  <2>5. sessionInfos' \in Seq(Info) /\ nbActiveSessions' = nbActiveSessions - 1
    BY <2>3, <2>4 DEF nbActiveSessions
  <2>6. \A k \in 1 .. nbActiveSessions - 1 :
          \E j \in (1 .. nbActiveSessions) \ {i} : infos[k] = sessionInfos[j]
    BY <2>4, <1>2
  <2>7. /\ Sessions(infos) \in Seq(Nat) /\ Len(Sessions(infos)) = nbActiveSessions - 1
        /\ \A k \in 1 .. nbActiveSessions - 1 :  Sessions(infos)[k] = infos[k].session
    <3>1. DOMAIN infos = 1 .. nbActiveSessions - 1 /\ \A k \in DOMAIN infos : infos[k] \in Info
      BY <2>4, <1>2, LenProperties, ElementOfSeq
    <3>2. \A k \in DOMAIN infos : infos[k].session \in Nat
      BY <3>1 DEF Info, SessionConstantsOK
    <3>3. Sessions(infos) \in [1 .. nbActiveSessions - 1 -> Nat]
      BY <3>1, <3>2 DEF Sessions
    <3>4. nbActiveSessions - 1 \in Nat
      BY <1>2
    <3> QED  BY <3>1, <3>3, <3>4, IsASeq, LenProperties DEF Sessions
  <2>8. Ascending(Sessions(infos))
    <3> DEFINE keys == Sessions(sessionInfos)
               shorter == Sessions(infos)
    <3>1. /\ keys \in Seq(Nat) /\ shorter \in Seq(Nat) /\ Ascending(keys) /\ Len(keys) = nbActiveSessions
          /\ \A j \in 1 .. nbActiveSessions : keys[j] = sessionInfos[j].session
      BY <1>4, <2>7, InfosAre DEF SessionsInv
    <3>2. \A k \in 1 .. nbActiveSessions - 1 : shorter[k] = IF k < i THEN keys[k] ELSE keys[k + 1]
      <4> SUFFICES ASSUME NEW k \in 1 .. nbActiveSessions - 1
                   PROVE  shorter[k] = IF k < i THEN keys[k] ELSE keys[k + 1]
        OBVIOUS
      <4>1. shorter[k] = infos[k].session /\ k \in 1 .. nbActiveSessions /\ k + 1 \in 1 .. nbActiveSessions
        BY <2>7, <1>2
      <4> QED  BY <4>1, <2>4, <3>1
    <3> HIDE DEF keys, shorter
    <3>3. Ascending(shorter)
      BY <3>1, <3>2, <2>7, AscendingRemove DEF shorter
    <3> QED  BY <3>3 DEF shorter
  <2>9. ASSUME NEW k \in 1 .. nbActiveSessions - 1
        PROVE  vtable'[infos[k].session] \in {"custom", "ended"} /\ infos[k].name = opened'[infos[k].session]
    <3>1. PICK j \in (1 .. nbActiveSessions) \ {i} : infos[k] = sessionInfos[j]
      BY <2>6
    <3>2. sessionInfos[j].session \in SessionAddresses \ {s}
      BY <2>2, InfosAre DEF SessionsInv
    <3> QED  BY <3>1, <3>2, <1>1, <1>4 DEF SessionsInv
  <2>10. ASSUME NEW r \in SessionAddresses, vtable'[r] \in {"custom", "ended"}
        PROVE  \E k \in 1 .. nbActiveSessions - 1 : infos[k].session = r
    <3>1. r # s
      BY <2>10, <1>1
    <3>2. PICK j \in 1 .. nbActiveSessions : sessionInfos[j].session = r
      BY <3>1, <2>10, <1>1, <1>4 DEF SessionsInv
    <3>3. CASE j < i
      <4>1. j \in 1 .. nbActiveSessions - 1 /\ infos[j] = sessionInfos[j]
        BY <3>3, <2>4, <1>2
      <4> QED  BY <4>1, <3>2
    <3>4. CASE ~(j < i)
      <4>1. i \in Nat /\ j \in 1 .. nbActiveSessions /\ j # i
        BY <3>1, <3>2, <2>1, <1>2
      <4>2. j - 1 \in 1 .. nbActiveSessions - 1 /\ ~(j - 1 < i) /\ (j - 1) + 1 = j
        BY <4>1, <3>4, <2>1, <1>2
      <4>3. infos[j - 1] = sessionInfos[j]
        BY <4>2, <2>4
      <4> QED  BY <4>2, <4>3, <3>2
    <3> QED  BY <3>3, <3>4
  <2>11. nbActiveSessions' <= MaxSession
    BY <2>5, <1>2
  <2> QED  BY <1>1, <2>3, <2>5, <2>8, <2>9, <2>10, <2>11 DEF SessionsInv
<1> QED  BY <1>3, <1>4

LEMMA SessionsStep ==
  SessionConstantsOK /\ SessionsInv /\ [SessionsNext]_kvars => SessionsInv'
<1> SUFFICES ASSUME SessionConstantsOK, SessionsInv, [SessionsNext]_kvars PROVE SessionsInv'
  OBVIOUS
<1>1. ASSUME NEW s \in SessionAddresses, Create(s) PROVE SessionsInv'
  <2>1. /\ vtable' = [vtable EXCEPT ![s] = "own"] /\ vtable[s] = "free"
        /\ sessionInfos' = sessionInfos /\ opened' = opened /\ nbActiveSessions' = nbActiveSessions
    BY <1>1 DEF Create, nbActiveSessions
  <2>2. /\ DOMAIN vtable' = SessionAddresses
        /\ \A r \in SessionAddresses : vtable'[r] = IF r = s THEN "own" ELSE vtable[r]
    BY <2>1 DEF SessionsInv
  <2>3. \A i \in 1 .. nbActiveSessions : sessionInfos[i].session \in SessionAddresses
    BY InfosAre DEF SessionsInv
  <2> QED  BY <2>1, <2>2, <2>3 DEF SessionsInv, NotFull
<1>2. ASSUME NEW s \in SessionAddresses, Destroy(s) PROVE SessionsInv'
  <2>1. /\ vtable' = [vtable EXCEPT ![s] = IF @ = "custom" THEN "ended" ELSE "free"]
        /\ vtable[s] \in {"own", "custom"}
        /\ sessionInfos' = sessionInfos /\ opened' = opened /\ nbActiveSessions' = nbActiveSessions
    BY <1>2 DEF Destroy, nbActiveSessions
  <2>2. /\ DOMAIN vtable' = SessionAddresses
        /\ \A r \in SessionAddresses :
             vtable'[r] = IF r = s THEN IF vtable[s] = "custom" THEN "ended" ELSE "free" ELSE vtable[r]
    BY <2>1 DEF SessionsInv
  <2>3. \A i \in 1 .. nbActiveSessions : sessionInfos[i].session \in SessionAddresses
    BY InfosAre DEF SessionsInv
  <2>4. \A r \in SessionAddresses : vtable'[r] \in {"custom", "ended"} <=> vtable[r] \in {"custom", "ended"}
    BY <2>1, <2>2
  <2> QED  BY <2>1, <2>2, <2>3, <2>4 DEF SessionsInv, NotFull
<1>3. CASE UNCHANGED kvars
  BY <1>3 DEF SessionsInv, NotFull, nbActiveSessions, kvars
<1>4. ASSUME NEW s \in SessionAddresses, NEW name \in Names, Open(s, name) PROVE SessionsInv'
  <2>1. /\ DOMAIN vtable' = SessionAddresses /\ DOMAIN opened' = SessionAddresses
        /\ vtable[s] = "free" /\ vtable'[s] = "hooked" /\ opened'[s] = name
        /\ \A r \in SessionAddresses \ {s} : vtable'[r] = vtable[r] /\ opened'[r] = opened[r]
        /\ sessionInfos' = sessionInfos /\ nbActiveSessions' = nbActiveSessions
    BY <1>4 DEF Open, SessionsInv, nbActiveSessions
  <2>2. \A i \in 1 .. nbActiveSessions : sessionInfos[i].session \in SessionAddresses
    BY InfosAre DEF SessionsInv
  <2> QED  BY <2>1, <2>2 DEF SessionsInv, NotFull
<1> QED  BY <1>1, <1>2, <1>3, <1>4, AddKeeps, HookRemovesKeeps DEF SessionsNext

\* SessionInfo_Lookup finds every session that was hooked by ConnectToPort or GetServiceHandle
\* under its name, and SessionInfo_Remove takes off the right one although it does not compare
\* (ipc.c): for any number of sessions and names, until the table is full.
THEOREM HookedSessionsAreFound ==
  ASSUME SessionConstantsOK
  PROVE  SessionsSpec => []HookedSessionsAreListed
<1>1. SessionsInit => SessionsInv
  <2> SUFFICES ASSUME SessionsInit PROVE SessionsInv
    OBVIOUS
  <2>1. sessionInfos \in Seq(Info) /\ nbActiveSessions = 0 /\ DOMAIN sessionInfos = {}
    BY EmptySeq DEF SessionsInit, nbActiveSessions
  <2>2. Ascending(Sessions(sessionInfos))
    BY <2>1 DEF Ascending, Sessions
  <2> QED  BY <2>1, <2>2 DEF SessionsInit, SessionsInv, SessionConstantsOK, NoName
<1>2. SessionsInv => HookedSessionsAreListed
  <2> SUFFICES ASSUME SessionsInv, NotFull PROVE HookedSessionsAreListed
    BY DEF HookedSessionsAreListed, NotFull
  <2>1. ASSUME NEW s \in SessionAddresses, vtable[s] = "custom" PROVE Lookup(s) = opened[s]
    <3>1. PICK i \in 1 .. nbActiveSessions : sessionInfos[i].session = s
      BY <2>1 DEF SessionsInv
    <3>2. FindClosestSlot(sessionInfos, s) = i
      BY <3>1, SlotOfSession
    <3>3. ~(i > nbActiveSessions)
      BY InfosAre DEF SessionsInv
    <3> QED  BY <3>1, <3>2, <3>3, <2>1 DEF SessionsInv, Lookup, HasCustomVtable
  <2> QED  BY <2>1 DEF SessionsInv, HookedSessionsAreListed
<1> QED  BY <1>1, <1>2, SessionsStep, PTL DEF SessionsSpec

-----------------------------------------------------------------------------
(***************************************************************************)
(* Breakpoints, until one is set over another.  That each half-word is     *)
(* under at most one is what makes the order in which they are removed,    *)
(* and disabled when the debugger detaches, of no importance.              *)
(***************************************************************************)
Texts == {"orig", "thumb", "arm1", "arm2"}
Bkpt == [address : Addresses, size : {2, 4}, saved : UNION {[H -> Texts] : H \in SUBSET Addresses},
         persistent : BOOLEAN]

Listings == 1 .. Len(breakpoints)
Under(i) == DOMAIN breakpoints[i].saved

\* Unless breakpoints overlap, the table is sorted, and each half-word of the code is the program's
\* own, or under one breakpoint that has saved what was there, or was left.
BkptInv ==
  /\ code \in [Addresses -> Texts] /\ breakpoints \in Seq(Bkpt) /\ left \subseteq Addresses
  /\ overlapped \in BOOLEAN
  /\ ~attached => breakpoints = <<>>
  /\ ~overlapped =>
       /\ Ascending(AddressesOf(breakpoints))
       /\ \A i \in Listings : \A a \in Under(i) :
            breakpoints[i].saved[a] = "orig" /\ code[a] # "orig" /\ a \notin left
       /\ \A i, j \in Listings : i # j => Under(i) \cap Under(j) = {}
       /\ \A a \in left : code[a] # "orig"
       /\ \A a \in Addresses : code[a] # "orig" => a \in left \/ \E i \in Listings : a \in Under(i)

LEMMA AddressesAreNumbers == Addresses \subseteq Nat
BY WordsAreNumbers DEF Addresses

LEMMA HalvesAreAddresses ==
  ASSUME NEW a \in Addresses, NEW size \in {2, 4}, size = 4 => a % 4 = 0
  PROVE  Halves(a, size) \subseteq Addresses
<1>1. PICK w \in Words : a = 4 * w \/ a = 4 * w + 2
  BY DEF Addresses
<1>2. w \in Nat
  BY WordsAreNumbers
<1>3. size = 4 => a = 4 * w
  BY <1>1, <1>2
<1>4. 4 * w + 2 \in Addresses
  BY DEF Addresses
<1> QED  BY <1>3, <1>4 DEF Halves

LEMMA BkptsAre ==
  ASSUME NEW bkpts \in Seq(Bkpt)
  PROVE  /\ Len(bkpts) \in Nat /\ DOMAIN bkpts = 1 .. Len(bkpts)
         /\ \A i \in 1 .. Len(bkpts) :
              /\ bkpts[i] \in Bkpt /\ bkpts[i].address \in Addresses /\ bkpts[i].address \in Nat
              /\ AddressesOf(bkpts)[i] = bkpts[i].address
              /\ bkpts[i].persistent \in BOOLEAN
              /\ DOMAIN bkpts[i].saved \subseteq Addresses
              /\ \A a \in DOMAIN bkpts[i].saved : bkpts[i].saved[a] \in Texts
         /\ AddressesOf(bkpts) \in Seq(Nat) /\ Len(AddressesOf(bkpts)) = Len(bkpts)
<1>1. /\ Len(bkpts) \in Nat /\ DOMAIN bkpts = 1 .. Len(bkpts)
      /\ \A i \in 1 .. Len(bkpts) : bkpts[i] \in Bkpt
  BY LenProperties, ElementOfSeq
<1>2. ASSUME NEW i \in 1 .. Len(bkpts)
      PROVE  /\ bkpts[i].address \in Addresses /\ bkpts[i].address \in Nat
             /\ bkpts[i].persistent \in BOOLEAN
             /\ DOMAIN bkpts[i].saved \subseteq Addresses
             /\ \A a \in DOMAIN bkpts[i].saved : bkpts[i].saved[a] \in Texts
  <2>1. bkpts[i].address \in Addresses /\ bkpts[i].persistent \in BOOLEAN
    BY <1>1 DEF Bkpt
  <2>2. PICK H \in SUBSET Addresses : bkpts[i].saved \in [H -> Texts]
    BY <1>1 DEF Bkpt
  <2> QED  BY <2>1, <2>2, AddressesAreNumbers
<1>3. AddressesOf(bkpts) \in [1 .. Len(bkpts) -> Nat]
  BY <1>1, <1>2 DEF AddressesOf
<1> QED  BY <1>1, <1>2, <1>3, IsASeq, LenProperties DEF AddressesOf

LEMMA SlotOfBreakpoint ==
  ASSUME NEW bkpts \in Seq(Bkpt), Ascending(AddressesOf(bkpts)), NEW address \in Addresses
  PROVE  LET id == FindClosestBreakpointSlot(bkpts, address)
         IN /\ id \in 1 .. Len(bkpts) + 1
            /\ \A j \in 1 .. id - 1 : bkpts[j].address < address
            /\ \A j \in id .. Len(bkpts) : address <= bkpts[j].address
            /\ \A i \in 1 .. Len(bkpts) : bkpts[i].address = address => id = i
<1> DEFINE id == FindClosestBreakpointSlot(bkpts, address)
           keys == AddressesOf(bkpts)
<1>1. /\ keys \in Seq(Nat) /\ Ascending(keys) /\ Len(keys) = Len(bkpts) /\ address \in Nat
      /\ Len(bkpts) \in Nat
      /\ \A j \in 1 .. Len(bkpts) : keys[j] = bkpts[j].address
  BY BkptsAre, AddressesAreNumbers
<1> HIDE DEF keys
<1>2. /\ id \in 1 .. Len(bkpts) + 1
      /\ \A j \in 1 .. id - 1 : keys[j] < address
      /\ \A j \in id .. Len(bkpts) : address <= keys[j]
      /\ \A i \in 1 .. Len(bkpts) : keys[i] = address => id = i
  BY <1>1, ClosestSlotIs, SlotOfKey DEF FindClosestBreakpointSlot, keys
<1> HIDE DEF id
<1>3. /\ \A j \in 1 .. id - 1 : j \in 1 .. Len(bkpts)
      /\ \A j \in id .. Len(bkpts) : j \in 1 .. Len(bkpts)
  BY <1>1, <1>2
<1> QED  BY <1>1, <1>2, <1>3 DEF id

\* What disabling the i-th breakpoint makes of f, which says what the code is before.
Turned(text, bkpts, f, i) ==
  IF i = 0 THEN text
  ELSE IF bkpts[i].persistent THEN f[i - 1] ELSE Restored(f[i - 1], bkpts[i])

\* The loop of GDB_DetachFromContext takes the breakpoints one by one.
LEMMA DisabledOneByOne ==
  ASSUME NEW text, NEW bkpts \in Seq(Bkpt)
  PROVE  \A i \in 0 .. Len(bkpts) :
           DisabledUpTo(text, bkpts)[i] = Turned(text, bkpts, DisabledUpTo(text, bkpts), i)
<1> DEFINE I == 0 .. Len(bkpts)
           upTo(f, n) == \A i \in I : i <= n => f[i] = Turned(text, bkpts, f, i)
           turned(f) == [i \in I |-> Turned(text, bkpts, f, i)]
           bad == {n \in Nat : ~\E f : upTo(f, n)}
<1>0. Len(bkpts) \in Nat
  BY BkptsAre
<1>1. ASSUME NEW f, NEW n \in Nat, n = 0 \/ upTo(f, n - 1)
      PROVE  upTo(turned(f), n)
  <2> SUFFICES ASSUME NEW i \in I, i <= n PROVE turned(f)[i] = Turned(text, bkpts, turned(f), i)
    OBVIOUS
  <2>1. turned(f)[i] = Turned(text, bkpts, f, i)
    OBVIOUS
  <2>2. CASE i = 0
    BY <2>1, <2>2 DEF Turned
  <2>3. CASE i # 0
    <3>1. i - 1 \in I /\ n # 0 /\ i - 1 <= n - 1
      BY <2>3, <1>0
    <3>3. f[i - 1] = turned(f)[i - 1]
      BY <3>1, <1>1
    <3> QED  BY <3>3, <2>1 DEF Turned
  <2> QED  BY <2>2, <2>3
<1>2. bad = {}
  <2> SUFFICES ASSUME bad # {} PROVE FALSE
    OBVIOUS
  <2>1. PICK n \in bad : \A k \in bad : n <= k
    BY LeastNumber
  <2>2. n \in Nat /\ ~\E f : upTo(f, n)
    OBVIOUS
  <2>3. CASE n = 0
    <3>1. upTo(turned(bkpts), n)
      BY <2>2, <2>3, <1>1
    <3> QED  BY <3>1, <2>2
  <2>4. CASE n # 0
    <3>1. n - 1 \in Nat /\ ~(n <= n - 1)
      BY <2>2, <2>4
    <3>2. n - 1 \notin bad
      BY <3>1, <2>1
    <3>3. PICK f : upTo(f, n - 1)
      BY <3>1, <3>2
    <3>4. upTo(turned(f), n)
      BY <3>3, <2>2, <1>1
    <3> QED  BY <3>4, <2>2
  <2> QED  BY <2>3, <2>4
<1>3. PICK f : upTo(f, Len(bkpts))
  BY <1>0, <1>2
<1>4. turned(f) = [i \in I |-> Turned(text, bkpts, turned(f), i)]
  <2> SUFFICES ASSUME NEW i \in I PROVE Turned(text, bkpts, turned(f), i) = Turned(text, bkpts, f, i)
    OBVIOUS
  <2>1. CASE i = 0
    BY <2>1 DEF Turned
  <2>2. CASE i # 0
    <3>1. i - 1 \in I /\ i - 1 <= Len(bkpts)
      BY <2>2, <1>0
    <3>3. turned(f)[i - 1] = f[i - 1]
      BY <3>1, <1>3
    <3> QED  BY <3>3 DEF Turned
  <2> QED  BY <2>1, <2>2
<1>5. DisabledUpTo(text, bkpts) = CHOOSE g : g = [i \in I |-> Turned(text, bkpts, g, i)]
  BY DEF DisabledUpTo, Turned
<1>6. DisabledUpTo(text, bkpts) = [i \in I |-> Turned(text, bkpts, DisabledUpTo(text, bkpts), i)]
  BY <1>4, <1>5
<1> QED  BY <1>6

\* Who is disabled among the first i.
IsDisabled(bkpts, i, a) ==
  \E j \in 1 .. i : ~bkpts[j].persistent /\ a \in DOMAIN bkpts[j].saved

\* The code once all but the persistent breakpoints are disabled.
LEMMA DisabledIs ==
  ASSUME NEW text \in [Addresses -> Texts], NEW bkpts \in Seq(Bkpt)
  PROVE  LET d == DisabledUpTo(text, bkpts)[Len(bkpts)]
         IN /\ d \in [Addresses -> Texts]
            /\ \A a \in Addresses : ~IsDisabled(bkpts, Len(bkpts), a) => d[a] = text[a]
            /\ (\A j \in 1 .. Len(bkpts) : \A a \in DOMAIN bkpts[j].saved : bkpts[j].saved[a] = "orig")
               => \A a \in Addresses : IsDisabled(bkpts, Len(bkpts), a) => d[a] = "orig"
<1> DEFINE d == DisabledUpTo(text, bkpts)
           own == \A j \in 1 .. Len(bkpts) : \A a \in DOMAIN bkpts[j].saved : bkpts[j].saved[a] = "orig"
           is(i) == /\ d[i] \in [Addresses -> Texts]
                    /\ \A a \in Addresses : ~IsDisabled(bkpts, i, a) => d[i][a] = text[a]
                    /\ own => \A a \in Addresses : IsDisabled(bkpts, i, a) => d[i][a] = "orig"
           bad == {i \in 0 .. Len(bkpts) : ~is(i)}
<1>0. /\ Len(bkpts) \in Nat
      /\ \A i \in 1 .. Len(bkpts) : \A a \in DOMAIN bkpts[i].saved :
           a \in Addresses /\ bkpts[i].saved[a] \in Texts
  BY BkptsAre
<1>1. is(0)
  <2>1. d[0] = text
    BY <1>0, DisabledOneByOne DEF Turned
  <2>2. \A a \in Addresses : ~IsDisabled(bkpts, 0, a)
    BY DEF IsDisabled
  <2> QED  BY <2>1, <2>2
<1>2. ASSUME NEW i \in 1 .. Len(bkpts), is(i - 1) PROVE is(i)
  <2>1. /\ i \in Nat /\ i # 0 /\ i \in 0 .. Len(bkpts) /\ i - 1 \in Nat
        /\ d[i] = Turned(text, bkpts, d, i)
    BY <1>0, DisabledOneByOne
  <2>2. \A a \in Addresses : IsDisabled(bkpts, i, a) <=>
          IsDisabled(bkpts, i - 1, a) \/ (~bkpts[i].persistent /\ a \in DOMAIN bkpts[i].saved)
    BY <2>1 DEF IsDisabled
  <2> HIDE DEF d
  <2>3. CASE bkpts[i].persistent
    <3>1. d[i] = d[i - 1]
      BY <2>1, <2>3 DEF Turned
    <3> QED  BY <3>1, <2>2, <2>3, <1>2
  <2>4. CASE ~bkpts[i].persistent
    <3>1. d[i] = [a \in Addresses |-> IF a \in DOMAIN bkpts[i].saved THEN bkpts[i].saved[a] ELSE d[i - 1][a]]
      BY <2>1, <2>4 DEF Turned, Restored
    <3>2. d[i] \in [Addresses -> Texts]
      BY <3>1, <1>0, <1>2
    <3>3. \A a \in Addresses : d[i][a] = IF a \in DOMAIN bkpts[i].saved THEN bkpts[i].saved[a] ELSE d[i - 1][a]
      BY <3>1
    <3> QED  BY <3>2, <3>3, <2>2, <2>4, <1>2
  <2> QED  BY <2>3, <2>4
<1> HIDE DEF d, is
<1>3. bad = {}
  <2> SUFFICES ASSUME bad # {} PROVE FALSE
    OBVIOUS
  <2>1. bad \subseteq Nat
    BY <1>0
  <2>2. PICK i \in bad : \A k \in bad : i <= k
    BY <2>1, LeastNumber
  <2>3. i \in 0 .. Len(bkpts) /\ ~is(i)
    OBVIOUS
  <2>4. i # 0 /\ i \in 1 .. Len(bkpts) /\ i - 1 \in 0 .. Len(bkpts) /\ ~(i <= i - 1)
    BY <2>3, <1>0, <1>1
  <2>5. is(i - 1)
    BY <2>2, <2>4
  <2> QED  BY <2>3, <2>4, <2>5, <1>2
<1>4. is(Len(bkpts))
  BY <1>0, <1>3
<1> QED  BY <1>4 DEF is, d

LEMMA DetachKeeps ==
  ASSUME BkptInv, ~overlapped, Detach
  PROVE  BkptInv'
<1> DEFINE N == Len(breakpoints)
           d == DisabledUpTo(code, breakpoints)[N]
           kept == UNION {Under(i) : i \in {j \in Listings : breakpoints[j].persistent}}
<1>1. /\ code' = d /\ left' = left \cup kept /\ breakpoints' = <<>> /\ attached' = FALSE
      /\ overlapped' = overlapped
  BY BkptsAre DEF Detach, BkptInv, Listings, Under
<1>2. /\ N \in Nat
      /\ \A i \in Listings : breakpoints[i].persistent \in BOOLEAN /\ Under(i) \subseteq Addresses
  BY BkptsAre DEF BkptInv, Listings, Under
<1>3. /\ d \in [Addresses -> Texts]
      /\ \A a \in Addresses : ~IsDisabled(breakpoints, N, a) => d[a] = code[a]
      /\ \A a \in Addresses : IsDisabled(breakpoints, N, a) => d[a] = "orig"
  <2>1. \A j \in 1 .. N : \A a \in DOMAIN breakpoints[j].saved : breakpoints[j].saved[a] = "orig"
    BY DEF BkptInv, Listings, Under
  <2>2. code \in [Addresses -> Texts] /\ breakpoints \in Seq(Bkpt)
    BY DEF BkptInv
  <2> QED  BY <2>1, <2>2, DisabledIs
<1> HIDE DEF d
<1>4. \A a \in Addresses : IsDisabled(breakpoints, N, a) <=>
                              \E j \in Listings : ~breakpoints[j].persistent /\ a \in Under(j)
  BY DEF IsDisabled, Listings, Under
<1>5. ASSUME NEW a \in Addresses PROVE a \in left \cup kept <=> d[a] # "orig"
  <2>1. CASE IsDisabled(breakpoints, N, a)
    <3>1. PICK j \in Listings : ~breakpoints[j].persistent /\ a \in Under(j)
      BY <2>1, <1>4
    <3>2. a \notin left
      BY <3>1 DEF BkptInv
    <3>3. a \notin kept
      BY <3>1 DEF BkptInv
    <3> QED  BY <2>1, <3>2, <3>3, <1>3
  <2>2. CASE ~IsDisabled(breakpoints, N, a)
    <3>1. d[a] = code[a]
      BY <2>2, <1>3
    <3>2. a \in kept <=> \E i \in Listings : a \in Under(i)
      BY <2>2, <1>4
    <3>3. code[a] # "orig" <=> a \in left \/ \E i \in Listings : a \in Under(i)
      BY DEF BkptInv
    <3> QED  BY <3>1, <3>2, <3>3
  <2> QED  BY <2>1, <2>2
<1>6. left' \subseteq Addresses
  BY <1>1, <1>2 DEF BkptInv
<1>7. breakpoints' \in Seq(Bkpt) /\ Listings' = {} /\ Ascending(AddressesOf(breakpoints'))
  <2>1. Len(breakpoints') = 0 /\ DOMAIN breakpoints' = {}
    BY <1>1, EmptySeq
  <2> QED  BY <2>1, <1>1, EmptySeq DEF Listings, Ascending, AddressesOf
<1>8. \A a \in Addresses : a \in left' <=> code'[a] # "orig"
  BY <1>1, <1>5
<1> QED  BY <1>1, <1>3, <1>6, <1>7, <1>8 DEF BkptInv

\* longer is the table q with the entry e put in at place i.
HasInserted(longer, q, i, e) ==
  /\ longer \in Seq(Bkpt) /\ Len(longer) = Len(q) + 1
  /\ \A k \in 1 .. Len(q) + 1 : longer[k] = IF k < i THEN q[k] ELSE IF k = i THEN e ELSE q[k - 1]

LEMMA BreakpointInserted ==
  ASSUME NEW q \in Seq(Bkpt), NEW i \in 1 .. Len(q) + 1, NEW e \in Bkpt
  PROVE  HasInserted(InsertAt(q, i, e), q, i, e)
  BY InsertAtIs DEF HasInserted

LEMMA AddBreakpointKeeps ==
  ASSUME BkptInv, ~overlapped, NEW a \in Addresses, NEW size \in {2, 4}, NEW persistent \in BOOLEAN,
         AddBreakpoint(a, size, persistent)
  PROVE  BkptInv'
<1> DEFINE N == Len(breakpoints)
           id == FindClosestBreakpointSlot(breakpoints, a)
           halves == Halves(a, size)
           bkpt == [address |-> a, size |-> size, saved |-> [h \in halves |-> code[h]],
                    persistent |-> persistent]
           bkpts == InsertAt(breakpoints, id, bkpt)
<1>0. /\ breakpoints \in Seq(Bkpt) /\ N \in Nat /\ code \in [Addresses -> Texts] /\ a \in Nat
      /\ Ascending(AddressesOf(breakpoints)) /\ left \subseteq Addresses /\ attached
  BY BkptsAre, AddressesAreNumbers DEF BkptInv, AddBreakpoint
<1>1. /\ breakpoints' = bkpts /\ code' = Patched(a, size)
      /\ overlapped' = (\E h \in halves : code[h] # "orig")
      /\ attached' = attached /\ left' = left
      /\ ~IsAt(id, a) /\ halves \subseteq Addresses
  BY HalvesAreAddresses DEF AddBreakpoint
<1>2. /\ id \in 1 .. N + 1
      /\ \A j \in 1 .. id - 1 : breakpoints[j].address < a
      /\ \A j \in id .. N : a <= breakpoints[j].address
      /\ \A i \in 1 .. N : breakpoints[i].address = a => id = i
  BY <1>0, SlotOfBreakpoint
<1> HIDE DEF id
<1>3. \A i \in 1 .. N : breakpoints[i].address # a
  <2> SUFFICES ASSUME NEW i \in 1 .. N, breakpoints[i].address = a PROVE FALSE
    OBVIOUS
  <2>1. id = i /\ id <= N
    BY <1>0, <1>2
  <2> QED  BY <2>1, <1>1 DEF IsAt
<1>4. bkpt \in Bkpt
  <2>1. [h \in halves |-> code[h]] \in [halves -> Texts]
    BY <1>0, <1>1
  <2> HIDE DEF halves
  <2> QED  BY <2>1, <1>1 DEF Bkpt
<1>5. /\ bkpt.address = a /\ DOMAIN bkpt.saved = halves
      /\ \A h \in halves : bkpt.saved[h] = code[h]
  OBVIOUS
<1> HIDE DEF bkpt
<1>6. /\ bkpts \in Seq(Bkpt) /\ Len(bkpts) = N + 1
      /\ \A k \in 1 .. N + 1 :
           bkpts[k] = IF k < id THEN breakpoints[k] ELSE IF k = id THEN bkpt ELSE breakpoints[k - 1]
  <2>1. breakpoints \in Seq(Bkpt) /\ id \in 1 .. Len(breakpoints) + 1 /\ bkpt \in Bkpt
    BY <1>0, <1>2, <1>4
  <2>2. HasInserted(bkpts, breakpoints, id, bkpt)
    BY <2>1, BreakpointInserted
  <2> QED  BY <2>2 DEF HasInserted
<1> HIDE DEF bkpts
<1>7. /\ code' \in [Addresses -> Texts]
      /\ \A h \in Addresses : IF h \in halves THEN code'[h] # "orig" ELSE code'[h] = code[h]
  <2> HIDE DEF halves
  <2>1. code' = [h \in Addresses |-> IF h \notin halves THEN code[h] ELSE IF size = 2 THEN "thumb"
                                    ELSE IF h = a THEN "arm1" ELSE "arm2"]
    BY <1>1 DEF Patched, halves
  <2> QED  BY <2>1, <1>0 DEF Texts
<1> HIDE DEF halves
<1>8. Ascending(AddressesOf(bkpts))
  <2> DEFINE keys == AddressesOf(breakpoints)
             longer == AddressesOf(bkpts)
  <2>1. /\ keys \in Seq(Nat) /\ Len(keys) = N /\ Ascending(keys)
        /\ \A i \in 1 .. N : keys[i] = breakpoints[i].address /\ breakpoints[i].address \in Nat
    BY <1>0, BkptsAre
  <2>2. /\ longer \in Seq(Nat) /\ Len(longer) = N + 1
        /\ \A i \in 1 .. N + 1 : longer[i] = bkpts[i].address
    BY <1>6, BkptsAre
  <2>3. id \in Nat /\ 1 <= id /\ id <= N + 1
    BY <1>0, <1>2
  <2> HIDE DEF keys, longer
  <2>4. ASSUME NEW j \in 1 .. id - 1 PROVE keys[j] < a
    <3>1. j \in 1 .. N
      BY <2>3, <1>0
    <3> QED  BY <3>1, <2>1, <1>2
  <2>5. ASSUME NEW j \in id .. N PROVE a < keys[j]
    <3>1. j \in 1 .. N
      BY <2>3, <1>0
    <3>2. a <= breakpoints[j].address /\ breakpoints[j].address # a /\ breakpoints[j].address \in Nat
      BY <3>1, <2>1, <1>2, <1>3
    <3>3. a < breakpoints[j].address
      BY <3>2, <1>0
    <3> QED  BY <3>1, <3>3, <2>1
  <2>6. ASSUME NEW k \in 1 .. N + 1
        PROVE  longer[k] = IF k < id THEN keys[k] ELSE IF k = id THEN a ELSE keys[k - 1]
    <3>1. longer[k] = bkpts[k].address
      BY <2>2
    <3>2. CASE k < id
      <4>1. k \in 1 .. N
        BY <3>2, <2>3, <1>0
      <4> QED  BY <4>1, <3>1, <3>2, <1>6, <2>1
    <3>3. CASE k = id
      BY <3>1, <3>3, <1>6, <1>5, <2>3
    <3>4. CASE ~(k < id) /\ k # id
      <4>1. k - 1 \in 1 .. N
        BY <3>4, <2>3, <1>0
      <4> QED  BY <4>1, <3>1, <3>4, <1>6, <2>1
    <3> QED  BY <3>2, <3>3, <3>4
  <2>7. Ascending(longer)
    BY <1>0, <1>2, <2>1, <2>2, <2>4, <2>5, <2>6, AscendingInsert
  <2> QED  BY <2>7 DEF longer
<1>9. \A k \in 1 .. N + 1 : \/ k = id /\ bkpts[k] = bkpt
                            \/ \E i \in 1 .. N : k = (IF i < id THEN i ELSE i + 1) /\ bkpts[k] = breakpoints[i]
  <2> SUFFICES ASSUME NEW k \in 1 .. N + 1, k # id
               PROVE  \E i \in 1 .. N : k = (IF i < id THEN i ELSE i + 1) /\ bkpts[k] = breakpoints[i]
    BY <1>6
  <2>1. id \in Nat /\ k \in Nat /\ 1 <= id /\ id <= N + 1
    BY <1>0, <1>2
  <2>2. CASE k < id
    <3>1. k \in 1 .. N /\ k = (IF k < id THEN k ELSE k + 1) /\ bkpts[k] = breakpoints[k]
      BY <2>1, <2>2, <1>0, <1>6
    <3> QED  BY <3>1
  <2>3. CASE ~(k < id)
    <3>1. k - 1 \in 1 .. N /\ k = (IF k - 1 < id THEN k - 1 ELSE (k - 1) + 1) /\ bkpts[k] = breakpoints[k - 1]
      BY <2>1, <2>3, <1>0, <1>6
    <3> QED  BY <3>1
  <2> QED  BY <2>2, <2>3
<1>10. \A i \in 1 .. N : \E k \in 1 .. N + 1 : bkpts[k] = breakpoints[i]
  <2> SUFFICES ASSUME NEW i \in 1 .. N PROVE \E k \in 1 .. N + 1 : bkpts[k] = breakpoints[i]
    OBVIOUS
  <2>1. id \in Nat
    BY <1>0, <1>2
  <2>2. CASE i < id
    <3>1. i \in 1 .. N + 1 /\ bkpts[i] = breakpoints[i]
      BY <2>2, <1>0, <1>6
    <3> QED  BY <3>1
  <2>3. CASE ~(i < id)
    <3>1. i + 1 \in 1 .. N + 1 /\ bkpts[i + 1] = breakpoints[i]
      BY <2>1, <2>3, <1>0, <1>6
    <3> QED  BY <3>1
  <2> QED  BY <2>2, <2>3
<1>11. Listings' = 1 .. N + 1 /\ \A k \in 1 .. N + 1 : Under(k)' = DOMAIN bkpts[k].saved
  BY <1>1, <1>6 DEF Listings, Under
<1>12. ASSUME \A h \in halves : code[h] = "orig"
       PROVE  /\ \A k \in Listings' : \A h \in Under(k)' :
                   bkpts[k].saved[h] = "orig" /\ code'[h] # "orig" /\ h \notin left
              /\ \A k, l \in Listings' : k # l => Under(k)' \cap Under(l)' = {}
              /\ \A h \in left : code'[h] # "orig"
              /\ \A h \in Addresses : code'[h] # "orig" => h \in left \/ \E k \in Listings' : h \in Under(k)'
  <2>1. \A i \in 1 .. N : Under(i) \subseteq Addresses
    BY <1>0, BkptsAre DEF Under
  <2>2. \A i \in 1 .. N : \A h \in Under(i) :
          breakpoints[i].saved[h] = "orig" /\ code[h] # "orig" /\ h \notin left
    BY DEF BkptInv, Listings
  <2>3. \A h \in left : code[h] # "orig" /\ h \in Addresses
    BY DEF BkptInv
  <2>4. \A k \in 1 .. N + 1 : \A h \in DOMAIN bkpts[k].saved :
          bkpts[k].saved[h] = "orig" /\ code'[h] # "orig" /\ h \notin left
    <3> SUFFICES ASSUME NEW k \in 1 .. N + 1, NEW h \in DOMAIN bkpts[k].saved
                 PROVE  bkpts[k].saved[h] = "orig" /\ code'[h] # "orig" /\ h \notin left
      OBVIOUS
    <3>1. CASE bkpts[k] = bkpt
      BY <3>1, <1>5, <1>7, <1>12, <1>1, <2>3
    <3>2. ASSUME NEW i \in 1 .. N, bkpts[k] = breakpoints[i]
          PROVE  bkpts[k].saved[h] = "orig" /\ code'[h] # "orig" /\ h \notin left
      <4>1. h \in Under(i) /\ h \in Addresses
        BY <3>2, <2>1 DEF Under
      <4> QED  BY <4>1, <3>2, <2>2, <1>7, <1>12
    <3> QED  BY <3>1, <3>2, <1>9
  <2>5. ASSUME NEW k \in 1 .. N + 1, NEW l \in 1 .. N + 1, k # l
        PROVE  DOMAIN bkpts[k].saved \cap DOMAIN bkpts[l].saved = {}
    <3>1. \A i \in 1 .. N : Under(i) \cap halves = {}
      BY <2>2, <1>12
    <3>2. \A i, j \in 1 .. N : i # j => Under(i) \cap Under(j) = {}
      BY DEF BkptInv, Listings
    <3>3. CASE k = id
      <4>1. PICK i \in 1 .. N : bkpts[l] = breakpoints[i]
        BY <3>3, <2>5, <1>9
      <4> QED  BY <4>1, <3>1, <3>3, <1>6, <1>5 DEF Under
    <3>4. CASE l = id
      <4>1. PICK i \in 1 .. N : bkpts[k] = breakpoints[i]
        BY <3>4, <2>5, <1>9
      <4> QED  BY <4>1, <3>1, <3>4, <1>6, <1>5 DEF Under
    <3>5. CASE k # id /\ l # id
      <4>1. PICK i \in 1 .. N : k = (IF i < id THEN i ELSE i + 1) /\ bkpts[k] = breakpoints[i]
        BY <3>5, <1>9
      <4>2. PICK j \in 1 .. N : l = (IF j < id THEN j ELSE j + 1) /\ bkpts[l] = breakpoints[j]
        BY <3>5, <1>9
      <4>3. i # j
        BY <4>1, <4>2, <2>5
      <4> QED  BY <4>1, <4>2, <4>3, <3>2 DEF Under
    <3> QED  BY <3>3, <3>4, <3>5
  <2>6. \A h \in left : code'[h] # "orig"
    BY <2>3, <1>7
  <2>7. ASSUME NEW h \in Addresses, code'[h] # "orig", h \notin left
        PROVE  \E k \in 1 .. N + 1 : h \in DOMAIN bkpts[k].saved
    <3>1. CASE h \in halves
      <4>1. id \in 1 .. N + 1 /\ bkpts[id] = bkpt
        BY <1>0, <1>2, <1>6
      <4> QED  BY <4>1, <3>1, <1>5
    <3>2. CASE h \notin halves
      <4>1. code[h] # "orig"
        BY <3>2, <2>7, <1>7
      <4>2. PICK i \in 1 .. N : h \in Under(i)
        BY <4>1, <2>7 DEF BkptInv, Listings
      <4> QED  BY <4>2, <1>10 DEF Under
    <3> QED  BY <3>1, <3>2
  <2> QED  BY <2>4, <2>5, <2>6, <2>7, <1>11
<1> QED  BY <1>0, <1>1, <1>6, <1>7, <1>8, <1>12 DEF BkptInv

LEMMA RemoveBreakpointKeeps ==
  ASSUME BkptInv, ~overlapped, NEW a \in Addresses, RemoveBreakpoint(a)
  PROVE  BkptInv'
<1> DEFINE N == Len(breakpoints)
           id == FindClosestBreakpointSlot(breakpoints, a)
           bkpts == RemoveAt(breakpoints, id)
<1>0. /\ breakpoints \in Seq(Bkpt) /\ N \in Nat /\ code \in [Addresses -> Texts] /\ a \in Nat
      /\ Ascending(AddressesOf(breakpoints)) /\ left \subseteq Addresses /\ attached
  BY BkptsAre, AddressesAreNumbers DEF BkptInv, RemoveBreakpoint
<1>1. /\ breakpoints' = bkpts /\ code' = Restored(code, breakpoints[id])
      /\ overlapped' = overlapped /\ attached' = attached /\ left' = left
      /\ id <= N
  BY DEF RemoveBreakpoint, IsAt
<1>2. id \in 1 .. N
  <2>1. id \in 1 .. N + 1
    BY <1>0, SlotOfBreakpoint
  <2> QED  BY <2>1, <1>0, <1>1
<1>3. /\ bkpts \in Seq(Bkpt) /\ Len(bkpts) = N - 1
      /\ \A k \in 1 .. N - 1 : bkpts[k] = IF k < id THEN breakpoints[k] ELSE breakpoints[k + 1]
  BY <1>0, <1>2, RemoveAtIs
<1> HIDE DEF bkpts, id
<1>4. \A k \in 1 .. N - 1 : \E i \in (1 .. N) \ {id} :
        i = (IF k < id THEN k ELSE k + 1) /\ bkpts[k] = breakpoints[i]
  <2> SUFFICES ASSUME NEW k \in 1 .. N - 1
               PROVE  \E i \in (1 .. N) \ {id} : i = (IF k < id THEN k ELSE k + 1) /\ bkpts[k] = breakpoints[i]
    OBVIOUS
  <2>1. k \in Nat /\ id \in Nat /\ k \in 1 .. N /\ k + 1 \in 1 .. N
    BY <1>0, <1>2
  <2>2. CASE k < id
    <3>1. k \in (1 .. N) \ {id}
      BY <2>1, <2>2
    <3> QED  BY <3>1, <2>2, <1>3
  <2>3. CASE ~(k < id)
    <3>1. k + 1 \in (1 .. N) \ {id}
      BY <2>1, <2>3
    <3> QED  BY <3>1, <2>3, <1>3
  <2> QED  BY <2>2, <2>3
<1>5. \A i \in (1 .. N) \ {id} : \E k \in 1 .. N - 1 : bkpts[k] = breakpoints[i]
  <2> SUFFICES ASSUME NEW i \in (1 .. N) \ {id} PROVE \E k \in 1 .. N - 1 : bkpts[k] = breakpoints[i]
    OBVIOUS
  <2>1. i \in Nat /\ id \in Nat /\ i # id
    BY <1>0, <1>2
  <2>2. CASE i < id
    <3>1. i \in 1 .. N - 1 /\ bkpts[i] = breakpoints[i]
      BY <2>1, <2>2, <1>0, <1>2, <1>3
    <3> QED  BY <3>1
  <2>3. CASE ~(i < id)
    <3>1. i - 1 \in 1 .. N - 1 /\ bkpts[i - 1] = breakpoints[i]
      BY <2>1, <2>3, <1>0, <1>2, <1>3
    <3> QED  BY <3>1
  <2> QED  BY <2>2, <2>3
<1>6. /\ \A i \in 1 .. N : Under(i) \subseteq Addresses
      /\ \A i \in 1 .. N : \A h \in Under(i) :
           breakpoints[i].saved[h] = "orig" /\ code[h] # "orig" /\ h \notin left
      /\ \A i, j \in 1 .. N : i # j => Under(i) \cap Under(j) = {}
      /\ \A h \in left : code[h] # "orig" /\ h \in Addresses
  BY <1>0, BkptsAre DEF BkptInv, Listings, Under
<1>7. /\ code' \in [Addresses -> Texts]
      /\ \A h \in Addresses : code'[h] = IF h \in Under(id) THEN "orig" ELSE code[h]
  <2>1. code' = [h \in Addresses |-> IF h \in Under(id) THEN breakpoints[id].saved[h] ELSE code[h]]
    BY <1>1 DEF Restored, Under
  <2> QED  BY <2>1, <1>0, <1>2, <1>6 DEF Texts
<1>8. Ascending(AddressesOf(bkpts))
  <2> DEFINE keys == AddressesOf(breakpoints)
             shorter == AddressesOf(bkpts)
  <2>1. /\ keys \in Seq(Nat) /\ Len(keys) = N /\ Ascending(keys)
        /\ \A i \in 1 .. N : keys[i] = breakpoints[i].address
    BY <1>0, BkptsAre
  <2>2. /\ shorter \in Seq(Nat) /\ Len(shorter) = N - 1
        /\ \A i \in 1 .. N - 1 : shorter[i] = bkpts[i].address
    BY <1>3, BkptsAre
  <2> HIDE DEF keys, shorter
  <2>3. ASSUME NEW k \in 1 .. N - 1 PROVE shorter[k] = IF k < id THEN keys[k] ELSE keys[k + 1]
    <3>1. shorter[k] = bkpts[k].address /\ k \in 1 .. N /\ k + 1 \in 1 .. N
      BY <2>2, <1>0
    <3> QED  BY <3>1, <1>3, <2>1
  <2>4. Ascending(shorter)
    BY <1>2, <2>1, <2>2, <2>3, AscendingRemove
  <2> QED  BY <2>4 DEF shorter
<1>9. Listings' = 1 .. N - 1 /\ \A k \in 1 .. N - 1 : Under(k)' = DOMAIN bkpts[k].saved
  BY <1>1, <1>3 DEF Listings, Under
<1>10. \A k \in 1 .. N - 1 : \A h \in DOMAIN bkpts[k].saved :
         bkpts[k].saved[h] = "orig" /\ code'[h] # "orig" /\ h \notin left
  <2> SUFFICES ASSUME NEW k \in 1 .. N - 1, NEW h \in DOMAIN bkpts[k].saved
               PROVE  bkpts[k].saved[h] = "orig" /\ code'[h] # "orig" /\ h \notin left
    OBVIOUS
  <2>1. PICK i \in (1 .. N) \ {id} : bkpts[k] = breakpoints[i]
    BY <1>4
  <2>2. h \in Under(i) /\ h \in Addresses /\ h \notin Under(id)
    BY <2>1, <1>2, <1>6 DEF Under
  <2> QED  BY <2>1, <2>2, <1>6, <1>7
<1>11. ASSUME NEW k \in 1 .. N - 1, NEW l \in 1 .. N - 1, k # l
       PROVE  DOMAIN bkpts[k].saved \cap DOMAIN bkpts[l].saved = {}
  <2>1. PICK i \in (1 .. N) \ {id} : i = (IF k < id THEN k ELSE k + 1) /\ bkpts[k] = breakpoints[i]
    BY <1>4
  <2>2. PICK j \in (1 .. N) \ {id} : j = (IF l < id THEN l ELSE l + 1) /\ bkpts[l] = breakpoints[j]
    BY <1>4
  <2>3. i # j
    <3>1. k \in Nat /\ l \in Nat /\ id \in Nat
      BY <1>0, <1>2
    <3>2. CASE k < id
      BY <3>1, <3>2, <2>1, <2>2, <1>11
    <3>3. CASE ~(k < id)
      BY <3>1, <3>3, <2>1, <2>2, <1>11
    <3> QED  BY <3>2, <3>3
  <2> QED  BY <2>1, <2>2, <2>3, <1>6 DEF Under
<1>12. \A h \in left : code'[h] # "orig"
  BY <1>2, <1>6, <1>7
<1>13. ASSUME NEW h \in Addresses, code'[h] # "orig", h \notin left
       PROVE  \E k \in 1 .. N - 1 : h \in DOMAIN bkpts[k].saved
  <2>1. h \notin Under(id) /\ code[h] # "orig"
    BY <1>7, <1>13
  <2>2. PICK i \in 1 .. N : h \in Under(i)
    BY <2>1, <1>13 DEF BkptInv, Listings
  <2>3. i \in (1 .. N) \ {id}
    BY <2>1, <2>2
  <2> QED  BY <2>2, <2>3, <1>5 DEF Under
<1>14. \A k \in Listings' : \A h \in Under(k)' :
         breakpoints'[k].saved[h] = "orig" /\ code'[h] # "orig" /\ h \notin left'
  BY <1>1, <1>9, <1>10
<1>15. \A k, l \in Listings' : k # l => Under(k)' \cap Under(l)' = {}
  BY <1>9, <1>11
<1>16. \A h \in Addresses : code'[h] # "orig" => h \in left' \/ \E k \in Listings' : h \in Under(k)'
  BY <1>1, <1>9, <1>13
<1> QED  BY <1>0, <1>1, <1>3, <1>7, <1>8, <1>12, <1>14, <1>15, <1>16 DEF BkptInv

LEMMA BkptStep == BkptInv /\ [BkptNext]_bkptVars => BkptInv'
<1> SUFFICES ASSUME BkptInv, [BkptNext]_bkptVars PROVE BkptInv'
  OBVIOUS
<1>1. CASE Attach
  <2>1. UNCHANGED <<code, breakpoints, left, overlapped>> /\ attached'
    BY <1>1 DEF Attach
  <2> QED  BY <2>1 DEF BkptInv, Listings, Under
<1>2. CASE UNCHANGED bkptVars
  BY <1>2 DEF BkptInv, Listings, Under, bkptVars
<1> QED  BY <1>1, <1>2, DetachKeeps, AddBreakpointKeeps, RemoveBreakpointKeeps DEF BkptNext

\* GDB_AddBreakpoint, GDB_RemoveBreakpoint and the detaching of gdb.c:116 leave a code that differs
\* from the program's only where a breakpoint is listed, or a persistent one was left, and
\* each breakpoint is found by its address: for any size of the table and of the code, until a
\* breakpoint is set over another.
THEOREM BreakpointsRestoreText == BkptSpec => []TextIsRestored
<1>1. BkptInit => BkptInv
  <2> SUFFICES ASSUME BkptInit PROVE BkptInv
    OBVIOUS
  <2>1. /\ breakpoints \in Seq(Bkpt) /\ Listings = {} /\ DOMAIN breakpoints = {} /\ breakpoints = <<>>
    BY EmptySeq DEF BkptInit, Listings
  <2>2. Ascending(AddressesOf(breakpoints))
    BY <2>1 DEF Ascending, AddressesOf
  <2>3. code \in [Addresses -> Texts] /\ \A a \in Addresses : code[a] = "orig"
    BY DEF BkptInit, Texts
  <2> QED  BY <2>1, <2>2, <2>3 DEF BkptInit, BkptInv
<1>2. BkptInv => TextIsRestored
  <2> SUFFICES ASSUME BkptInv, ~overlapped PROVE TextIsRestored
    BY DEF TextIsRestored
  <2>1. /\ breakpoints \in Seq(Bkpt) /\ DOMAIN breakpoints = Listings
        /\ \A i \in Listings : breakpoints[i].address \in Addresses /\ Under(i) \subseteq Addresses
    BY BkptsAre DEF BkptInv, Listings, Under
  <2>2. \A i \in DOMAIN breakpoints : FindClosestBreakpointSlot(breakpoints, breakpoints[i].address) = i
    BY <2>1, SlotOfBreakpoint DEF BkptInv, Listings
  <2>3. \A i \in DOMAIN breakpoints : \A a \in DOMAIN breakpoints[i].saved : breakpoints[i].saved[a] = "orig"
    BY <2>1 DEF BkptInv, Under
  <2>4. {a \in Addresses : code[a] # "orig"} =
           (UNION {DOMAIN breakpoints[i].saved : i \in DOMAIN breakpoints}) \cup left
    <3> DEFINE listed == UNION {Under(i) : i \in Listings}
    <3>1. UNION {DOMAIN breakpoints[i].saved : i \in DOMAIN breakpoints} = listed
      BY <2>1 DEF Under
    <3>2. listed \cup left \subseteq Addresses
      BY <2>1 DEF BkptInv
    <3>3. \A a \in Addresses : code[a] # "orig" <=> a \in listed \cup left
      BY DEF BkptInv
    <3> QED  BY <3>1, <3>2, <3>3
  <2> QED  BY <2>2, <2>3, <2>4 DEF TextIsRestored
<1> QED  BY <1>1, <1>2, BkptStep, PTL DEF BkptSpec
=============================================================================
