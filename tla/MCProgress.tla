----------------------------- MODULE MCProgress -----------------------------
(***************************************************************************)
(* What must eventually happen, on small instances of three parts that     *)
(* share no state: the task runner, two applications that pm launches, and *)
(* the interpreter of cheats.  A behaviour is about one of them: part is   *)
(* chosen initially.  The fairness is that of each part.                   *)
(***************************************************************************)
EXTENDS TaskRunner, PMLaunch, CheatPrograms

CONSTANTS c1, c2, t1, t2, appA, appB, modM, e1, e2, e3

VARIABLES part, program, state, writes, valid

cheatVars == <<program, state, writes, valid>>

\* Of two applications one needs a system module; three processes may be there at a time.
DepsOfA == [t \in Titles |-> IF t = appA THEN <<modM>> ELSE <<>>]
ThreePool == <<e1, e2, e3>>

ASSUME LaunchConstants == LaunchConstantsOK /\ TaskLaunchesApps

\* Bytes of four values and two conditionals, so that every counter wraps.
Cheats == INSTANCE CheatEngine WITH
  Programs <- AnyCheats(3, AllLines) \cup AnyCheats(4, Branching), ByteSize <- 4, StackBits <- 2
-----------------------------------------------------------------------------
MCInit ==
  /\ part \in {"tasks", "pm", "cheats"}
  /\ Init /\ LaunchInit
  /\ IF part = "cheats" THEN Cheats!CheatInit /\ Cheats!DataFits
     ELSE program = Null /\ state = Null /\ writes = Null /\ valid = Null

MCNext ==
  /\ \/ part = "tasks" /\ Next /\ UNCHANGED <<launchVars, cheatVars>>
     \/ part = "pm" /\ LaunchNext /\ UNCHANGED <<vars, cheatVars>>
     \/ part = "cheats" /\ Cheats!CheatNext /\ UNCHANGED <<vars, launchVars>>
  /\ UNCHANGED part

Fair ==
  /\ WF_vars(part = "tasks" /\ RunnerSteps)
  /\ \A c \in Callers : WF_vars(part = "tasks" /\ CallerSteps(c))
  /\ WF_launchVars(part = "pm" /\ Found) /\ WF_launchVars(part = "pm" /\ HandOver)
  /\ \A t \in {"main", "task"} : WF_launchVars(part = "pm" /\ ThreadSteps(t))
  /\ WF_launchVars(part = "pm" /\ MonitorReleases)
  /\ WF_launchVars(part = "pm" /\ MonitorForgets)
  /\ \A s \in {e1, e2, e3} :
       /\ SF_launchVars(part = "pm" /\ MonitorNotes(s))
       /\ WF_launchVars(part = "pm" /\ Exits(s) /\ entries[s].dying)
  /\ WF_cheatVars(part = "cheats" /\ Cheats!CheatNext)

MCSpec == MCInit /\ [][MCNext]_<<part, vars, launchVars, cheatVars>> /\ Fair
-----------------------------------------------------------------------------
\* Every cheat whose data fit ends, however its lines are put together and wherever the
\* narrow counters of loops and conditionals wrap (menus/cheats.c).  An E line whose data
\* do not fit goes back, for 255 lines of data to itself, and nothing counts how often.
CheatEnds == part = "cheats" => <>(valid # "running")
=============================================================================
