-------------------------- MODULE MCPMTermination ---------------------------
(* An instance of PMTermination: an application and an applet that use the *)
(* same system module, and a bound for what each thread is asked.          *)
EXTENDS PMTermination

CONSTANTS app, applet, sysmodule,
          MaxMain,   \* how often TerminateApplication is asked for
          MaxTask,   \* how often TerminateProcess is asked for
          Early      \* the processes that may be unregistered before their end

VARIABLE requests

SharedDeps == [p \in {app, applet, sysmodule} |-> IF p = sysmodule THEN {} ELSE {sysmodule}]

Begun(t) == IF thread[t] = "idle" /\ thread'[t] # "idle" THEN 1 ELSE 0

ASSUME WhoMayExit == EndOnlyWhenTold /\ ModulesStayUp /\ IsFiniteSet(Procs)

MCInit == Init /\ requests = [t \in Terminators |-> 0]

MCNext ==
  /\ Next
  /\ forgotten' \subseteq Early
  /\ requests' = [t \in Terminators |-> requests[t] + Begun(t)]
  /\ \A t \in Terminators : requests'[t] <= IF t = "main" THEN MaxMain ELSE MaxTask

MCSpec == MCInit /\ [][MCNext]_<<vars, requests>> /\ Fairness
=============================================================================
