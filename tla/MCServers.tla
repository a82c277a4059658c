----------------------------- MODULE MCServers ------------------------------
(***************************************************************************)
(* Two servers under fairness: three sessions of sm and a named port, and  *)
(* the debugger with one context, whose process is selected in the menu.   *)
(* They share no state, so a behaviour is about one of them: part is       *)
(* chosen initially.  In "unselecting" the menu also unselects a process   *)
(* that has a client.                                                      *)
(***************************************************************************)
EXTENDS SMSessions

CONSTANTS s1, s2, s3, p1, Parts

VARIABLES
  part,
  ctx, attachedEvent, continuedEvent, statusUpdated, statusUpdateReceived, shallTerminate, held, server,
  monitor, menu, task, nextCtx, queued, client, packet, backlog, proc, event, overtaken

dbgVars == <<ctx, attachedEvent, continuedEvent, statusUpdated, statusUpdateReceived, shallTerminate, held,
             server, monitor, menu, task, nextCtx, queued, client, packet, backlog, proc, event, overtaken>>

Debugger == INSTANCE GDBServer WITH
  MAX_DEBUG <- 1, Processes <- {"p"}, App <- "next",
  Packets <- {"continue", "break", "detach"}, MenuDoes <- {"select", "unselect"}

Unselecting == INSTANCE GDBServer WITH
  MAX_DEBUG <- 1, Processes <- {"p"}, App <- "next", Packets <- {"continue"}, MenuDoes <- {"select", "close"}

MCInit == Init /\ Debugger!GDBServerInit /\ part \in Parts

MCNext ==
  /\ \/ part = "sm" /\ Next /\ UNCHANGED dbgVars
     \/ part = "debugger" /\ Debugger!GDBServerNext /\ UNCHANGED vars
     \/ part = "unselecting" /\ Unselecting!GDBServerNext /\ UNCHANGED vars
  /\ UNCHANGED part

Fair ==
  /\ WF_vars(part = "sm" /\ MainLoop) /\ WF_vars(part = "sm" /\ (Reply \/ ReplyFails))
  /\ SF_vars(part = "sm" /\ Resume)
  /\ SF_dbgVars(part # "sm" /\ Debugger!ServerContinues)
  /\ SF_dbgVars(part # "sm" /\ Debugger!Listens)
  /\ SF_dbgVars(part # "sm" /\ Debugger!Serves(1))
  /\ SF_dbgVars(part # "sm" /\ server.pc # "crashed" /\ Debugger!MonitorSteps)
  /\ WF_dbgVars(part # "sm" /\ server.pc # "crashed" /\ Debugger!Closed /\ UNCHANGED overtaken)

MCSpec == MCInit /\ [][MCNext]_<<part, vars, dbgVars>> /\ Fair
-----------------------------------------------------------------------------
\* A context whose client goes away is freed (gdb/server.c).
CloseEnds == Debugger!CloseEnds

\* What stops a process is told to its client (gdb/monitor.c).
StopIsReported == Debugger!StopIsReported

\* Unselecting a process ends (menus/process_list.c:641).
UnselectEnds == Debugger!UnselectEnds
=============================================================================
