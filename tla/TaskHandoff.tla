---------------------------- MODULE TaskHandoff -----------------------------
(***************************************************************************)
(* What the task runner promises: a task is handed over only to a runner   *)
(* that has none, it is run once, and its parameters are not touched while *)
(* it runs.                                                                *)
(***************************************************************************)
CONSTANTS Jobs, None

VARIABLES handed,    \* the job handed over and not yet started, or None
          running    \* the job being run, or None

HInit == handed = None /\ running = None

Submit(j) ==
  /\ handed = None /\ running = None
  /\ handed' = j /\ UNCHANGED running

Start ==
  /\ handed # None /\ running = None
  /\ running' = handed /\ handed' = None

Finish ==
  /\ running # None
  /\ running' = None /\ UNCHANGED handed

HNext == (\E j \in Jobs : Submit(j)) \/ Start \/ Finish

HSpec == HInit /\ [][HNext]_<<handed, running>>
=============================================================================
