------------------------------ MODULE MCSystem ------------------------------
(***************************************************************************)
(* Small instances of parts of the system that share no state: how pm      *)
(* launches titles, with one thing going on at a time or several, and what *)
(* loader caches, the session table of the kernel extension, the plugin    *)
(* loader, the debugger (with one context, or with two that the menu gives *)
(* to the next application), its breakpoints and the cheats of Rosalina,   *)
(* and the boot path and configuration of arm9.  A behaviour is about one  *)
(* of them: part is chosen initially, of those the configuration names.    *)
(***************************************************************************)
EXTENDS PMLaunch, GDBServer, GDBBreakpoints, LoaderCaches, K11Sessions, PluginLoader, BootFlow,
        CheatPrograms

CONSTANTS appA, applet, modM, modN, e1, e2, e3, e4, Parts

ASSUME LaunchConstants == LaunchConstantsOK
ASSUME SessionConstants == SessionConstantsOK
ASSUME PluginConstants == AppsOK
ASSUME BootConstants == BootConstantsOK

\* An application and an applet, with two system modules.
SomeDeps == [t \in {appA, applet, modM, modN} |->
               CASE t = appA -> <<modM, modN>> [] t = modM -> <<modN>> [] t = applet -> <<modM>>
                 [] OTHER -> <<>>]
FourPool == <<e1, e2, e3, e4>>

VARIABLES
  part,
  program, state, writes, valid,
  case

cheatVars == <<program, state, writes, valid>>

\* The same launches, asked for at any time and with two processes at a time.
AnyTime == INSTANCE PMLaunch WITH
  Titles <- {appA, modM}, Deps <- [t \in {appA, modM} |-> <<>>], Pool <- <<e1, e2>>,
  Fails <- {"register", "run"}, MayExit <- {appA, modM}, Calm <- {}
ASSUME AnyTimeConstants == AnyTime!LaunchConstantsOK

NextApps == INSTANCE GDBServer WITH
  MAX_DEBUG <- 2, Processes <- {}, Packets <- {}, MenuDoes <- {"next", "fails"}
Cheats == INSTANCE CheatEngine WITH Programs <- NestedCheats, ByteSize <- 256, StackBits <- 32
Text == INSTANCE ConfigText WITH Precision <- 3, MaxText <- 4, MaxInt <- 2
-----------------------------------------------------------------------------
MCInit ==
  /\ part \in Parts
  /\ LoaderInit /\ SessionsInit /\ PluginInit /\ BkptInit /\ BootInit
  /\ IF part = "anyTime" THEN AnyTime!LaunchInit ELSE LaunchInit
  /\ IF part = "nextApps" THEN NextApps!GDBServerInit ELSE GDBServerInit
  /\ IF part = "cheats" THEN Cheats!CheatInit
     ELSE program = None /\ state = None /\ writes = None /\ valid = None
  /\ IF part = "text" THEN Text!TextInit ELSE case = None

MCNext ==
  /\ \/ part = "launch" /\ LaunchNext
     \/ part = "anyTime" /\ AnyTime!LaunchNext
     \/ part = "loader" /\ LoaderNext
     \/ part = "ipc" /\ SessionsNext
     \/ part = "plugin" /\ PluginNext
     \/ part = "gdb" /\ BkptNext
     \/ part = "debugger" /\ GDBServerNext
     \/ part = "nextApps" /\ NextApps!GDBServerNext
     \/ part = "cheats" /\ Cheats!CheatNext
     \/ part = "boot" /\ BootNext
  /\ IF part \in {"launch", "anyTime"} THEN TRUE ELSE UNCHANGED launchVars
  /\ IF part = "loader" THEN TRUE ELSE UNCHANGED lcVars
  /\ IF part = "ipc" THEN TRUE ELSE UNCHANGED kvars
  /\ IF part = "plugin" THEN TRUE ELSE UNCHANGED pvars
  /\ IF part = "gdb" THEN TRUE ELSE UNCHANGED bkptVars
  /\ IF part \in {"debugger", "nextApps"} THEN TRUE ELSE UNCHANGED gdbsVars
  /\ IF part = "cheats" THEN TRUE ELSE UNCHANGED cheatVars
  /\ IF part = "boot" THEN TRUE ELSE UNCHANGED bootVars
  /\ UNCHANGED <<part, case>>

MCSpec ==
  MCInit /\ [][MCNext]_<<part, launchVars, lcVars, kvars, pvars, bkptVars, gdbsVars, cheatVars,
                         bootVars, case>>
-----------------------------------------------------------------------------
(* Properties of the parts that are instances.                             *)

\* Reference counts are the numbers of users when one thing happens at a time (info.c).
CountsMatchUsers == part = "launch" => RefcountsMatchUsers

\* Nested cheats write what they stand for (menus/cheats.c).
AppliesAsMeant == part = "cheats" => Cheats!AppliesAsMeant

\* Decimal numbers are read as what they denote (config.c).
ReadAsWritten == part = "text" => Text!ReadAsWritten

\* Settings survive being written and read (config.c).
SettingsSurvive == part = "text" => Text!SettingsSurvive
=============================================================================
