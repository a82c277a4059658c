---------------------------- MODULE PluginLoader ----------------------------
(***************************************************************************)
(* The plugin of the running application: the loader asks Rosalina to load *)
(* it, the kernel extension reports HOME and exit through the word at      *)
(* 0x1FF800F0 and notification 0x1001, Rosalina's main thread maps, swaps  *)
(* and restores the memory of the plugin, its task runner frees it, and a  *)
(* thread of the plugin answers events (plgldr.c).                         *)
(***************************************************************************)
EXTENDS Naturals, Integers

CONSTANTS Apps,          \* processes of applications, launched one at a time: 1 .. n
          MaxParameters  \* bound: how many parameters the applications receive

NoApp == 0
AppsOK == Apps \subseteq Nat \ {NoApp}

PLG_WAIT == -1
PLG_OK == 0
PLG_ABOUT_TO_SWAP == 3
PLG_ABOUT_TO_EXIT == 4
PLG_HOME_ENTER == 5

VARIABLES
  app,        \* of each: "none", "loading", "alive", "signals", "exits", "dead"
  signalOnExit, \* the processes flagged SignalOnExit
  cfg,        \* the configuration word: its status, and the set of its events
  notified,   \* notifications 0x1001 Rosalina has not handled
  woken,      \* signalPluginEvent
  plgCtx,     \* PluginLoaderCtx: target, isReady, swapped, home, swaps
  block,      \* whose plugin is in the memory block
  swapFile,   \* whose plugin is in the swap file
  mapped,     \* the processes the block is mapped in
  locked,     \* the processes whose plugin threads are locked
  main, plgTask, \* where the main thread and the task are
  plgEvent,   \* the event as the plugin sees it
  plugin,     \* where the thread of the plugin is
  atHome,     \* the application is suspended, HOME is shown
  parameters, \* counted for MaxParameters
  irregular   \* an application with a plugin was killed, or one was launched
              \* before the plugin of the last one was cleared away

pvars == <<app, signalOnExit, cfg, notified, woken, plgCtx, block, swapFile, mapped,
           locked, main, plgTask, plgEvent, plugin, atHome, parameters, irregular>>

memory == <<block, swapFile, mapped, locked>>
kernel == <<signalOnExit, notified, woken>>
pluginHistory == <<atHome, parameters, irregular>>

Lives(a) == app[a] \in {"alive", "signals", "exits"}

PluginInit ==
  /\ app = [a \in Apps |-> "none"]
  /\ signalOnExit = {}
  /\ cfg = [status |-> "none", events |-> {}]
  /\ notified = 0 /\ woken = FALSE /\ atHome = FALSE /\ parameters = 0 /\ irregular = FALSE
  /\ plgCtx = [target |-> NoApp, isReady |-> FALSE, swapped |-> FALSE, home |-> FALSE,
            swaps |-> TRUE]
  /\ block = NoApp /\ swapFile = NoApp /\ mapped = {} /\ locked = {}
  /\ main = "idle" /\ plgTask = "idle"
  /\ plgEvent = PLG_OK /\ plugin = "none"
-----------------------------------------------------------------------------
(* The application, and the hooks it runs into in the kernel extension.     *)

Launch(a) ==
  /\ app[a] = "none" /\ \A b \in Apps : b < a => app[b] = "dead"
  /\ app' = [app EXCEPT ![a] = "loading"]
  /\ irregular' = (irregular \/ plgTask # "idle" \/ main # "idle")
  /\ plugin' = "none"
  /\ UNCHANGED <<atHome, parameters, cfg, plgCtx, memory, kernel, main, plgTask, plgEvent>>

\* PLG_SignalEvent, up to the wait for notification 0x1002.
Signal(a, ev, waits) ==
  /\ cfg' = [cfg EXCEPT !.events = @ \cup {ev}]
  /\ notified' = notified + 1
  /\ app' = [app EXCEPT ![a] = waits]

\* APT:ReceiveParameter returned a command.  The response (3) to HOME suspends the
\* application, a wake-up (10 to 12) ends that; others, such as DSP_SLEEP, come at
\* any time.  The condition for INHOME names the wake-ups and holds for each of them.
Parameter(a, command) ==
  /\ app[a] = "alive" /\ parameters < MaxParameters
  /\ command = "response" => ~atHome
  /\ command = "wakeup" => atHome
  /\ atHome' = CASE command = "response" -> TRUE
                 [] command = "wakeup" -> FALSE
                 [] OTHER -> atHome
  /\ parameters' = parameters + 1
  /\ IF \/ cfg.status = "running" /\ command = "response"
        \/ cfg.status = "inhome"
     THEN Signal(a, "home", "signals")
     ELSE UNCHANGED <<app, cfg, notified>>
  /\ UNCHANGED <<irregular, signalOnExit, woken, plgCtx, memory, main, plgTask, plgEvent, plugin>>

\* Notification 0x1002 reached the thread that signalled.
Resume(a) ==
  /\ app[a] \in {"signals", "exits"} /\ woken
  /\ woken' = FALSE
  /\ app' = [app EXCEPT ![a] = IF @ = "exits" THEN "dead" ELSE "alive"]
  /\ plugin' = IF app[a] = "exits" THEN "none" ELSE plugin
  /\ UNCHANGED <<signalOnExit, notified, pluginHistory, cfg, plgCtx, memory, main, plgTask, plgEvent>>

\* ExitProcessHook; without the flag, or unless the status is RUNNING, nothing is
\* signalled.  An application at HOME is woken up before it exits.
Exit(a) ==
  /\ app[a] = "alive" /\ ~atHome
  /\ IF a \in signalOnExit /\ cfg.status = "running"
     THEN Signal(a, "exit", "exits") /\ UNCHANGED plugin
     ELSE /\ app' = [app EXCEPT ![a] = "dead"]
          /\ plugin' = "none"
          /\ UNCHANGED <<cfg, notified>>
  /\ UNCHANGED <<pluginHistory, signalOnExit, woken, plgCtx, memory, main, plgTask, plgEvent>>

\* svcTerminateProcess passes no hook.
Kill(a) ==
  /\ Lives(a)
  /\ atHome' = FALSE
  /\ irregular' = (irregular \/ a \in signalOnExit)
  /\ app' = [app EXCEPT ![a] = "dead"]
  /\ plugin' = "none"
  /\ UNCHANGED <<signalOnExit, notified, woken, parameters, cfg, plgCtx, memory, main, plgTask, plgEvent>>
-----------------------------------------------------------------------------
(* Rosalina's main thread: command 1 of plg:ldr, and HandleKernelEvent.     *)

\* MemoryBlock__Free.
Freed(c) == [c EXCEPT !.isReady = FALSE]

\* Command 1 opens the process.
LoadStarts(a) ==
  /\ main = "idle" /\ app[a] = "loading"
  /\ main' = "loads"
  /\ plgCtx' = [plgCtx EXCEPT !.target = a]
  /\ plgEvent' = PLG_OK
  /\ UNCHANGED <<app, cfg, memory, kernel, plgTask, plugin>>

\* TryToLoadPlugin gives up: the loader is disabled, there is no file, or it is no
\* plugin for this title.  Past the opening of the file the memory is freed, and
\* so it is when a block is still there: MemoryBlock__SetSize refuses.
LoadFails(a) ==
  /\ main = "loads" /\ app[a] = "loading"
  /\ \E opened \in BOOLEAN :
        plgCtx' = IF opened THEN Freed([plgCtx EXCEPT !.target = NoApp])
               ELSE [plgCtx EXCEPT !.target = NoApp]
  /\ app' = [app EXCEPT ![a] = "alive"]
  /\ main' = "idle"
  /\ UNCHANGED <<cfg, memory, kernel, plgTask, plgEvent, plugin>>

\* The block is allocated, filled and mapped.
LoadMounts(a) ==
  /\ main = "loads" /\ app[a] = "loading" /\ ~plgCtx.isReady
  /\ \E swaps \in BOOLEAN : plgCtx' = [plgCtx EXCEPT !.isReady = TRUE, !.swaps = swaps]
  /\ plgEvent' = PLG_OK
  /\ block' = a
  /\ mapped' = mapped \cup ({plgCtx.target} \ {NoApp})
  /\ signalOnExit' = signalOnExit \cup {a}
  /\ plugin' = "runs"
  /\ main' = "loaded"
  /\ UNCHANGED <<app, cfg, notified, woken, swapFile, locked, plgTask>>

\* The status is set after the flash, and the loader runs the application.
LoadDone(a) ==
  /\ main = "loaded" /\ app[a] = "loading"
  /\ cfg' = [status |-> "running", events |-> {}]
  /\ app' = [app EXCEPT ![a] = "alive"]
  /\ main' = "idle"
  /\ UNCHANGED <<plgCtx, memory, kernel, plgTask, plgEvent, plugin>>

\* HandleKernelEvent: an exit that is under way, an exit, or HOME.  Both events at
\* once are neither.
HandleKernelEvent ==
  /\ main = "idle" /\ notified > 0
  /\ notified' = notified - 1
  /\ \/ /\ cfg.status = "exiting" \/ cfg.events \notin {{"exit"}, {"home"}}
        /\ main' = "publishes"
        /\ UNCHANGED <<cfg, plgEvent>>
     \/ /\ cfg.status # "exiting" /\ cfg.events = {"exit"}
        /\ cfg' = [status |-> "exiting", events |-> {}]
        /\ plgEvent' = IF plgCtx.swapped THEN plgEvent ELSE PLG_ABOUT_TO_EXIT
        /\ main' = IF plgCtx.swapped THEN "runsTask" ELSE "awaitsExit"
     \/ /\ cfg.status # "exiting" /\ cfg.events = {"home"}
        /\ UNCHANGED cfg
        /\ \/ /\ plgCtx.swaps /\ plgCtx.swapped
              /\ main' = "restores"
              /\ UNCHANGED plgEvent
           \/ /\ plgCtx.swaps /\ ~plgCtx.swapped
              /\ plgEvent' = PLG_ABOUT_TO_SWAP
              /\ main' = "awaitsSwap"
           \/ /\ ~plgCtx.swaps
              /\ plgEvent' \in {plgEvent, PLG_HOME_ENTER}   \* notifyHomeEvent
              /\ main' = "awaitsHome"
  /\ UNCHANGED <<app, signalOnExit, woken, plgCtx, memory, plgTask, plugin>>

\* PLG__WaitForReply returns: the plugin has replied, or waitForReplyTimeout (10 s).
ExitReplied ==
  /\ main = "awaitsExit"
  /\ main' = "runsTask"
  /\ UNCHANGED <<app, cfg, plgCtx, memory, kernel, plgTask, plgEvent, plugin>>

RunsTask ==
  /\ main = "runsTask" /\ plgTask = "idle"
  /\ plgTask' = "waits"
  /\ main' = "publishes"
  /\ UNCHANGED <<app, cfg, plgCtx, memory, kernel, plgEvent, plugin>>

\* The threads are locked, the block is unmapped, saved and freed.
SwapReplied ==
  /\ main = "awaitsSwap"
  /\ locked' = locked \cup ({plgCtx.target} \ {NoApp})
  /\ mapped' = mapped \ {plgCtx.target}
  /\ swapFile' = block
  /\ plgCtx' = Freed([plgCtx EXCEPT !.swapped = TRUE])
  /\ cfg' = [status |-> "inhome", events |-> {}]
  /\ main' = "publishes"
  /\ UNCHANGED <<app, block, kernel, plgTask, plgEvent, plugin>>

\* Mutant of Restores: the threads stay locked.
RestoresLocked ==
  /\ main = "restores"
  /\ block' = swapFile
  /\ mapped' = mapped \cup ({plgCtx.target} \ {NoApp})
  /\ plgCtx' = [plgCtx EXCEPT !.isReady = TRUE, !.swapped = FALSE]
  /\ main' = "resumes"
  /\ UNCHANGED <<app, cfg, swapFile, locked, kernel, plgTask, plgEvent, plugin>>

\* Allocated, reloaded and mounted; then the threads are unlocked.
Restores ==
  /\ main = "restores"
  /\ block' = swapFile
  /\ mapped' = mapped \cup ({plgCtx.target} \ {NoApp})
  /\ locked' = locked \ {plgCtx.target}
  /\ plgCtx' = [plgCtx EXCEPT !.isReady = TRUE, !.swapped = FALSE]
  /\ main' = "resumes"
  /\ UNCHANGED <<app, cfg, swapFile, kernel, plgTask, plgEvent, plugin>>

\* Resume plugin execution.
Resumes ==
  /\ main = "resumes"
  /\ plgEvent' = PLG_OK
  /\ cfg' = [status |-> "running", events |-> {}]
  /\ main' = "publishes"
  /\ UNCHANGED <<app, plgCtx, memory, kernel, plgTask, plugin>>

\* The other strategies only keep the status.
HomeReplied ==
  /\ main = "awaitsHome"
  /\ cfg' = [status |-> IF plgCtx.home THEN "running" ELSE "inhome", events |-> {}]
  /\ plgCtx' = [plgCtx EXCEPT !.home = ~@]
  /\ main' = "publishes"
  /\ UNCHANGED <<app, memory, kernel, plgTask, plgEvent, plugin>>

\* srvPublishToSubscriber(0x1002) is the kernel's PLG__WakeAppThread.
Publishes ==
  /\ main = "publishes"
  /\ woken' = TRUE
  /\ main' = "idle"
  /\ UNCHANGED <<app, signalOnExit, notified, cfg, plgCtx, memory, plgTask, plgEvent, plugin>>
-----------------------------------------------------------------------------
(* WaitForProcessTerminated, in the task runner.                            *)

\* The process has ended, or 2.5 seconds have passed.
TaskFrees ==
  /\ plgTask = "waits"
  /\ IF plgCtx.swapped THEN UNCHANGED <<plgCtx, mapped>>
     ELSE mapped' = mapped \ {plgCtx.target} /\ plgCtx' = Freed(plgCtx)
  /\ plgTask' = "resets"
  /\ UNCHANGED <<app, cfg, block, swapFile, locked, kernel, main, plgEvent, plugin>>

\* Mutant of TaskResets: the status is left as it was.
TaskResetsQuietly ==
  /\ plgTask = "resets"
  /\ plgCtx' = [plgCtx EXCEPT !.swapped = FALSE, !.home = FALSE, !.target = NoApp, !.swaps = TRUE]
  /\ plgTask' = "idle"
  /\ UNCHANGED <<app, cfg, memory, kernel, main, plgEvent, plugin>>

TaskResets ==
  /\ plgTask = "resets"
  /\ cfg' = [status |-> "none", events |-> {}]
  /\ plgCtx' = [plgCtx EXCEPT !.swapped = FALSE, !.home = FALSE, !.target = NoApp, !.swaps = TRUE]
  /\ plgTask' = "idle"
  /\ UNCHANGED <<app, memory, kernel, main, plgEvent, plugin>>
-----------------------------------------------------------------------------
(* PLGLDR__Status, in a thread of the plugin.                               *)

PluginRuns == \E a \in Apps : Lives(a) /\ a \notin locked

PluginReads ==
  /\ plugin = "runs" /\ PluginRuns /\ plgEvent > PLG_OK
  /\ plugin' = CASE plgEvent = PLG_ABOUT_TO_SWAP -> "pauses"
                 [] plgEvent = PLG_ABOUT_TO_EXIT -> "ends"
                 [] OTHER -> "replies"
  /\ UNCHANGED <<app, cfg, plgCtx, memory, kernel, main, plgTask, plgEvent>>

\* The callback has been called, the reply is there and the event is consumed.
PluginReplies ==
  /\ plugin \in {"pauses", "ends", "replies"} /\ PluginRuns
  /\ plgEvent' = PLG_WAIT
  /\ plugin' = CASE plugin = "pauses" -> "paused"
                 [] plugin = "ends" -> "none"
                 [] OTHER -> "runs"
  /\ UNCHANGED <<app, cfg, plgCtx, memory, kernel, main, plgTask>>

PluginResumes ==
  /\ plugin = "paused" /\ PluginRuns /\ plgEvent >= PLG_OK
  /\ plugin' = "runs"
  /\ UNCHANGED <<app, cfg, plgCtx, memory, kernel, main, plgTask, plgEvent>>

RosalinaSteps ==
  \/ \E a \in Apps : LoadStarts(a) \/ LoadFails(a) \/ LoadMounts(a) \/ LoadDone(a)
  \/ HandleKernelEvent \/ ExitReplied \/ RunsTask \/ SwapReplied \/ Restores
  \/ Resumes \/ HomeReplied \/ Publishes
  \/ TaskFrees \/ TaskResets

PluginSteps == PluginReads \/ PluginReplies \/ PluginResumes

PluginNext ==
  \/ \E a \in Apps :
       \/ Launch(a) \/ Resume(a) \/ Exit(a) \/ Kill(a)
       \/ \E c \in {"response", "wakeup", "other"} : Parameter(a, c)
  \/ (RosalinaSteps \/ PluginSteps) /\ UNCHANGED pluginHistory

PluginSpec == PluginInit /\ [][PluginNext]_pvars
-----------------------------------------------------------------------------
\* Unless something irregular happened: while its status says RUNNING and nothing
\* is under way, the plugin of the target is in the block, the block is mapped in
\* the target and its threads run; while it is swapped out, its threads are locked
\* and it is in the swap file.
TargetHasItsPlugin ==
  \A a \in Apps :
    (~irregular /\ plgCtx.target = a /\ Lives(a) /\ main \in {"idle", "publishes"} /\ plgTask = "idle") =>
      /\ cfg.status = "running" =>
           plgCtx.isReady /\ block = a /\ a \in mapped /\ a \notin locked
      /\ plgCtx.swapped =>
           ~plgCtx.isReady /\ swapFile = a /\ a \notin mapped /\ a \in locked

\* Unless something irregular happened: once an application has ended and its events
\* have been handled, its plugin has left nothing behind, so that the next one can
\* be loaded.
CleanWhenQuiet ==
  (/\ ~irregular /\ main = "idle" /\ plgTask = "idle" /\ notified = 0
   /\ \A a \in Apps : app[a] \in {"none", "dead"}) =>
     plgCtx.target = NoApp /\ ~plgCtx.isReady /\ cfg.status = "none" /\ ~plgCtx.swapped
=============================================================================
