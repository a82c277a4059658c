----------------------------- MODULE GDBServer ------------------------------
(***************************************************************************)
(* The debugger of Rosalina: the thread that serves GDB's connections      *)
(* (sock_util.c, gdb/server.c), the monitor thread that waits for what the *)
(* debugged processes do (gdb/monitor.c), and the menus and the task that  *)
(* share their contexts (menus/debugger.c, menus/process_list.c).          *)
(*                                                                         *)
(* Each context has a recursive lock.  A section under a lock, or under    *)
(* all of them, that waits for nothing else is one action; held has the    *)
(* locks of a thread that waits while it holds them: the menu all, or the  *)
(* server that of one context.  The clients and the processes that are     *)
(* debugged do what the protocol and the kernel allow.                     *)
(***************************************************************************)
EXTENDS Naturals, FiniteSets

CONSTANTS MAX_DEBUG,   \* number of contexts
          Processes,   \* processes that the process list shows
          App,         \* the application that is launched next
          Packets,     \* what clients send
          MenuDoes,    \* entries of the menus that are used
          None

Contexts == 1 .. MAX_DEBUG

\* None is no context, process, event or packet.
ConstantsOK ==
  /\ MAX_DEBUG \in Nat
  /\ None \notin Contexts
  /\ None \notin Processes
  /\ None \notin {"attached", "continued", "extended", "attach", "continue", "break", "detach", "kill"}
ASSUME ConstantsAssumption == ConstantsOK

VARIABLES
  ctx,         \* GDBServer.ctxs
  attachedEvent, continuedEvent,   \* contexts whose event is signaled
  statusUpdated, statusUpdateReceived, shallTerminate,
  held,        \* contexts whose lock is held by who waits for something else
  server,      \* the socket thread: where, context, and whether it refuses it
  monitor,     \* the monitor: where, the handles it waits for, the one that woke it
  menu, task, nextCtx,
  queued,      \* pm: "no", "armed", or "launched", the application waits to run
  client,      \* per context: the other end of its socket
  packet,      \* per context: what its client has sent
  backlog,     \* ports somebody connects to
  proc,        \* "running", "stopped" or "ended"
  event,       \* the debug event of a process that was not fetched
  overtaken    \* contexts that were closed while the monitor was about to handle them

contexts == <<ctx, attachedEvent, continuedEvent>>
handshake == <<statusUpdated, statusUpdateReceived, shallTerminate>>
peers == <<client, packet, backlog>>
debuggees == <<proc, event>>
others == <<menu, task, nextCtx, queued>>
gdbsVars == <<contexts, handshake, held, server, monitor, others, peers, debuggees, overtaken>>

Targets == Processes \cup {App}
NextPort == MAX_DEBUG + 1          \* GDB_PORT_BASE + 3
ServerPorts == 1 .. NextPort
Fresh == [flags |-> {}, state |-> "disconnected", port |-> None, pid |-> None, debug |-> None,
          waitsFor |-> "attached", shouldClose |-> FALSE, serv |-> None]

GDBServerInit ==
  /\ ctx = [c \in Contexts |-> Fresh]
  /\ attachedEvent = {} /\ continuedEvent = {}
  /\ statusUpdated = FALSE /\ statusUpdateReceived = FALSE /\ shallTerminate = FALSE
  /\ held = {}
  /\ server = [pc |-> "poll", c |-> None, refuses |-> FALSE]
  /\ monitor = [pc |-> "snapshot", handles |-> [c \in Contexts |-> "attached"], c |-> None]
  /\ menu = "idle" /\ task = "idle" /\ nextCtx = None /\ queued = "no"
  /\ client = [c \in Contexts |-> "none"] /\ packet = [c \in Contexts |-> None] /\ backlog = {}
  /\ proc = [p \in Targets |-> IF p = App THEN "ended" ELSE "running"] /\ event = [p \in Targets |-> None]
  /\ overtaken = {}
-----------------------------------------------------------------------------
(* Locks, contexts and debugging.                                          *)

Free(c) == c \notin held
AllFree == held = {}
Allocated(c) == ctx[c].flags \cap {"selected", "used"} # {}
Lowest(S) == CHOOSE c \in S : \A d \in S : c <= d
ServerAt(place) == server' = [server EXCEPT !.pc = place]
Running == server.pc \notin {"ends", "ended", "crashed"}
Alive == Cardinality({t \in {"s", "m"} : IF t = "s" THEN server.pc # "ended" ELSE monitor.pc # "ended"})

\* Attaching: the process is stopped, and what happened before is fetched.
CanAttach(x) ==
  IF "atStart" \in x.flags THEN x.debug # None /\ proc[x.debug] # "ended"
  ELSE x.pid \in Processes /\ proc[x.pid] # "ended" /\ \A c \in Contexts : ctx[c].debug # x.pid
Target(x) == IF "atStart" \in x.flags THEN x.debug ELSE x.pid
Attached(x) == [x EXCEPT !.state = "attached", !.debug = Target(x), !.pid = Target(x)]

\* Detaching leaves the process running, or ends it.
Detached(x) == [x EXCEPT !.debug = None, !.pid = None, !.waitsFor = "attached"]
LetGo(x) ==
  IF x.debug = None THEN UNCHANGED debuggees
  ELSE /\ proc' = [proc EXCEPT ![x.debug] =
                     IF "terminate" \in x.flags \/ @ = "ended" THEN "ended" ELSE "running"]
       /\ event' = [event EXCEPT ![x.debug] = None]
Restarted(x) == [x EXCEPT !.flags = @ \cap {"extended", "used"}]
-----------------------------------------------------------------------------
(* The clients, the processes, and pm, which is told that the application  *)
(* is queued by a notification.                                            *)

Connect(port) ==
  /\ port \notin backlog
  /\ backlog' = backlog \cup {port}
  /\ UNCHANGED <<contexts, handshake, held, server, monitor, others, client, packet, debuggees>>

HangUp(c) ==
  /\ client[c] = "open"
  /\ client' = [client EXCEPT ![c] = "gone"] /\ packet' = [packet EXCEPT ![c] = None]
  /\ UNCHANGED <<contexts, handshake, held, server, monitor, others, backlog, debuggees>>

\* A client does not send what makes no sense in its state.
Send(c, what) ==
  /\ client[c] = "open" /\ packet[c] = None
  /\ CASE what = "extended" -> "extended" \notin ctx[c].flags /\ ctx[c].state = "connected"
       [] what = "attach" -> "extended" \in ctx[c].flags /\ ctx[c].debug = None
       [] what = "continue" -> ctx[c].state = "attached" /\ proc[ctx[c].debug] = "stopped"
                                 /\ event[ctx[c].debug] = None
       [] OTHER -> ctx[c].state = "attached"
  /\ packet' = [packet EXCEPT ![c] = what]
  /\ UNCHANGED <<contexts, handshake, held, server, monitor, others, client, backlog, debuggees>>

Debugged(p) == \E c \in Contexts : ctx[c].debug = p

Happens(p, what) ==
  /\ proc[p] = "running" /\ event[p] = None
  /\ proc' = [proc EXCEPT ![p] = IF what = "exit" THEN "ended" ELSE "stopped"]
  /\ event' = [event EXCEPT ![p] = what]
  /\ Debugged(p)
  /\ UNCHANGED <<contexts, handshake, held, server, monitor, others, peers>>

StartOrEnd(p) ==
  /\ p # App /\ ~Debugged(p)
  /\ proc' = [proc EXCEPT ![p] = IF @ = "ended" THEN "running" ELSE "ended"]
  /\ UNCHANGED <<contexts, handshake, held, server, monitor, others, peers, event>>

LaunchApp ==
  /\ queued = "armed" /\ task = "idle"
  /\ queued' = "launched" /\ task' = "starts"
  /\ UNCHANGED <<contexts, handshake, held, server, monitor, menu, nextCtx, peers, debuggees>>
-----------------------------------------------------------------------------
(* The socket thread.  Descriptors that are ready are served one by one.   *)

AtPoll == server.pc = "poll" /\ ~shallTerminate
Ready == backlog # {} \/ \E c \in Contexts : packet[c] # None \/ client[c] = "gone"
Connections(port) == {c \in Contexts : client[c] \in {"open", "gone"} /\ ctx[c].serv = port}

\* GDB_GetClient: the context that has the port, or, for a port of the process list,
\* the first free one.
Chosen(port) ==
  LET tied == {c \in Contexts : ctx[c].port = port}
      free == {c \in Contexts : ~Allocated(c)}
  IN IF tied # {} THEN {Lowest(tied)}
     ELSE IF port # NextPort /\ free # {} THEN {Lowest(free)} ELSE {}

Refuse(port) ==
  /\ AtPoll /\ port \in backlog /\ AllFree
  /\ \/ Connections(port) # {}
     \/ Chosen(port) = {}
     \/ \E c \in Chosen(port) : "used" \in ctx[c].flags
  /\ backlog' = backlog \ {port}
  /\ UNCHANGED <<contexts, handshake, held, server, monitor, others, client, packet, debuggees>>

Accept(port) ==
  /\ AtPoll /\ port \in backlog /\ AllFree /\ Connections(port) = {}
  /\ \E c \in Chosen(port) :
       /\ "used" \notin ctx[c].flags
       /\ ctx' = [ctx EXCEPT ![c].flags = @ \cup {"used"}, ![c].state = "connected", ![c].port = port]
       /\ server' = [server EXCEPT !.pc = IF port = NextPort THEN "awaits" ELSE "accepts", !.c = c]
  /\ backlog' = backlog \ {port}
  /\ UNCHANGED <<attachedEvent, continuedEvent, handshake, held, monitor, others, client, packet,
                 debuggees>>

\* The client of the next application waits until it has been launched.
AwaitsDebug ==
  /\ server.pc = "awaits" /\ ctx[server.c].debug # None
  /\ ServerAt("accepts")
  /\ UNCHANGED <<contexts, handshake, held, monitor, others, peers, debuggees>>

\* The connection is entered among the descriptors.
Registers(port) ==
  /\ server.pc = "accepts" /\ ctx[server.c].port = port
  /\ ctx' = [ctx EXCEPT ![server.c].shouldClose = FALSE, ![server.c].serv = port]
  /\ client' = [client EXCEPT ![server.c] = "open"] /\ packet' = [packet EXCEPT ![server.c] = None]
  /\ ServerAt("attaches")
  /\ UNCHANGED <<attachedEvent, continuedEvent, handshake, held, monitor, others, backlog, debuggees>>

\* accept_cb: a context that was selected is attached.  A refused one is closed.
AcceptClient ==
  /\ server.pc = "attaches"
  /\ LET c == server.c
         x == [ctx[c] EXCEPT !.state = "connected"]
         attaches == "selected" \in x.flags
     IN /\ Free(c)
        /\ ctx' = [ctx EXCEPT ![c] = IF attaches /\ CanAttach(x) THEN Attached(x) ELSE x]
        /\ IF attaches /\ CanAttach(x)
           THEN /\ attachedEvent' = attachedEvent \cup {c}
                /\ proc' = [proc EXCEPT ![Target(x)] = "stopped"]
                /\ event' = [event EXCEPT ![Target(x)] = None]
           ELSE UNCHANGED <<attachedEvent, debuggees>>
        /\ IF attaches /\ ~CanAttach(x)
           THEN server' = [server EXCEPT !.pc = "closes", !.refuses = TRUE]
           ELSE ServerAt("poll")
  /\ UNCHANGED <<continuedEvent, handshake, held, monitor, others, peers>>

\* A packet: what its handler does, and what GDB_DoPacket does after it.
Takes(c, what) ==
  /\ AtPoll /\ packet[c] = what /\ Free(c)
  /\ packet' = [packet EXCEPT ![c] = None]
  /\ UNCHANGED <<shallTerminate, monitor, others, client, backlog>>
NoSync == UNCHANGED <<statusUpdated, statusUpdateReceived, held>>

\* The monitor has detached the process since: the client of an extended session goes
\* on, any other is closed.
Served(c, x) ==
  ctx' = [ctx EXCEPT ![c] = IF x.state = "detaching" /\ "extended" \in x.flags
                            THEN [x EXCEPT !.state = "connected"] ELSE x]

ExtendedMode(c) ==
  /\ Takes(c, "extended") /\ NoSync
  /\ Served(c, [ctx[c] EXCEPT !.flags = @ \cup IF ctx[c].port # NextPort THEN {"extended"} ELSE {}])
  /\ UNCHANGED <<attachedEvent, continuedEvent, server, debuggees>>

\* GDB_DetachImmediatelyExtended, called with the lock of the context: the monitor is
\* told to wait for something else.
AsksMonitor(c, x) ==
  /\ ctx' = [ctx EXCEPT ![c] = [x EXCEPT !.state = "detaching", !.waitsFor = "attached"]]
  /\ attachedEvent' = attachedEvent \ {c}
  /\ statusUpdateReceived' = FALSE /\ statusUpdated' = TRUE
  /\ held' = {c}
  /\ server' = [server EXCEPT !.pc = "detaches", !.c = c]

AttachPacket(c) ==
  /\ Takes(c, "attach")
  /\ \E p \in Processes :
       LET x == [ctx[c] EXCEPT !.pid = p]
       IN IF CanAttach(x)
          THEN /\ ctx' = [ctx EXCEPT ![c] = Attached(x)]
               /\ proc' = [proc EXCEPT ![p] = "stopped"]
               /\ attachedEvent' = attachedEvent \cup {c}
               /\ NoSync /\ UNCHANGED server
          ELSE AsksMonitor(c, x) /\ UNCHANGED proc
  /\ UNCHANGED <<continuedEvent, event>>

\* Mutant of Continue: the monitor is told only of the first time.
ContinueOnce(c) ==
  LET x == ctx[c]
  IN /\ Takes(c, "continue") /\ NoSync
     /\ Served(c, [x EXCEPT !.flags = @ \cup {"continuing"}])
     /\ continuedEvent' = IF x.waitsFor = "attached" THEN continuedEvent \cup {c} ELSE continuedEvent
     /\ proc' = IF x.debug # None /\ event[x.debug] = None /\ proc[x.debug] = "stopped"
                THEN [proc EXCEPT ![x.debug] = "running"] ELSE proc
     /\ UNCHANGED <<attachedEvent, server, event>>

Continue(c) ==
  LET x == ctx[c]
      detached == x.state = "detaching"
  IN /\ Takes(c, "continue") /\ NoSync
     /\ Served(c, [x EXCEPT !.flags = @ \cup {"continuing"}])
     /\ continuedEvent' = IF detached \/ "continuing" \in x.flags THEN continuedEvent
                          ELSE continuedEvent \cup {c}
     /\ proc' = IF x.debug # None /\ event[x.debug] = None /\ proc[x.debug] = "stopped"
                THEN [proc EXCEPT ![x.debug] = "running"] ELSE proc
     /\ UNCHANGED <<attachedEvent, server, event>>

Break(c) ==
  LET x == ctx[c]
      breaks == "continuing" \in x.flags /\ x.state # "detaching"
  IN /\ Takes(c, "break") /\ NoSync
     /\ IF breaks /\ proc[x.debug] = "ended" THEN UNCHANGED ctx
        ELSE Served(c, [x EXCEPT !.flags = @ \ {"continuing"}])
     /\ IF breaks /\ proc[x.debug] = "running"
        THEN proc' = [proc EXCEPT ![x.debug] = "stopped"] /\ event' = [event EXCEPT ![x.debug] = "stop"]
        ELSE UNCHANGED debuggees
     /\ UNCHANGED <<attachedEvent, continuedEvent, server>>

\* D and k.  In an extended session the thread waits for the monitor with the lock of
\* the context; in another the connection is closed.
DetachPacket(c, what) ==
  LET x == [ctx[c] EXCEPT !.flags = @ \cup IF what = "kill" THEN {"terminate"} ELSE {}]
  IN /\ Takes(c, what)
     /\ IF "extended" \in x.flags THEN AsksMonitor(c, x)
        ELSE /\ ctx' = [ctx EXCEPT ![c] = [x EXCEPT !.state = "detaching"]]
             /\ server' = [server EXCEPT !.pc = "closes", !.c = c]
             /\ NoSync /\ UNCHANGED attachedEvent
     /\ UNCHANGED <<continuedEvent, debuggees>>

DetachesExtended ==
  /\ server.pc = "detaches" /\ statusUpdateReceived
  /\ ctx' = [ctx EXCEPT ![server.c] = [Restarted(Detached(@)) EXCEPT !.state = "connected"]]
  /\ LetGo(ctx[server.c])
  /\ held' = {}
  /\ ServerAt("poll")
  /\ UNCHANGED <<attachedEvent, continuedEvent, handshake, monitor, others, peers>>

\* The other end has gone, or the menu asked for it, which is seen when anything is ready.
Closes(c) ==
  /\ AtPoll /\ client[c] # "none"
  /\ client[c] = "gone" \/ (ctx[c].shouldClose /\ Ready)
  /\ server' = [server EXCEPT !.pc = "closes", !.c = c]
  /\ UNCHANGED <<contexts, handshake, held, monitor, others, peers, debuggees>>

-----------------------------------------------------------------------------
(* GDB_CloseClient: the monitor is told to wait for something else before  *)
(* the debug handle is closed; by then the context is free again.          *)

CloseStarts ==
  /\ server.pc = "closes" /\ Free(server.c)
  /\ ctx' = [ctx EXCEPT ![server.c].waitsFor = "attached"]
  /\ attachedEvent' = attachedEvent \ {server.c}
  /\ statusUpdateReceived' = FALSE /\ statusUpdated' = TRUE
  /\ overtaken' = overtaken \cup IF monitor.pc = "handle" /\ monitor.c = server.c THEN {server.c} ELSE {}
  /\ ServerAt("counts")
  /\ UNCHANGED <<continuedEvent, shallTerminate, held, monitor, others, peers, debuggees>>

\* Mutant of CloseCounts: the context is freed at once.
CloseCountsNobody ==
  /\ server.pc = "counts"
  /\ ServerAt("frees")
  /\ UNCHANGED <<contexts, handshake, held, monitor, others, peers, debuggees>>

CloseCounts ==
  /\ server.pc = "counts"
  /\ ServerAt(IF Alive >= 2 THEN "waits" ELSE "frees")
  /\ UNCHANGED <<contexts, handshake, held, monitor, others, peers, debuggees>>

CloseWaits ==
  /\ server.pc = "waits" /\ statusUpdateReceived
  /\ ServerAt("frees")
  /\ UNCHANGED <<contexts, handshake, held, monitor, others, peers, debuggees>>

\* A refused context is read once more in the same pass over the descriptors, where its
\* place is empty (sock_util.c:205): Rosalina crashes.
CloseFrees ==
  /\ server.pc = "frees" /\ Free(server.c)
  /\ LET c == server.c
     IN /\ ctx' = [ctx EXCEPT ![c] = [Fresh EXCEPT !.waitsFor =
                                IF ctx[c].debug # None \/ ctx[c].state \in {"attached", "detaching"}
                                THEN "attached" ELSE ctx[c].waitsFor]]
        /\ LetGo(ctx[c])
        /\ client' = [client EXCEPT ![c] = "none"] /\ packet' = [packet EXCEPT ![c] = None]
        /\ server' = [pc |-> IF server.refuses THEN "crashed" ELSE "poll", c |-> None,
                      refuses |-> server.refuses]
  /\ UNCHANGED <<attachedEvent, continuedEvent, handshake, held, monitor, others, backlog>>

\* What the last of the two threads does when it ends: GDB_FinalizeServer.
Finalized ==
  /\ ctx' = [c \in Contexts |-> IF client[c] # "none" \/ ctx[c].debug # None THEN Fresh ELSE ctx[c]]
  /\ attachedEvent' = {c \in attachedEvent : client[c] = "none" /\ ctx[c].debug = None}
  /\ client' = [c \in Contexts |-> "none"] /\ packet' = [c \in Contexts |-> None] /\ backlog' = {}
  /\ LET mine(p) == {c \in Contexts : ctx[c].debug = p}
     IN /\ proc' = [p \in Targets |->
                      IF mine(p) = {} THEN proc[p]
                      ELSE IF proc[p] = "ended" \/ \E c \in mine(p) : "terminate" \in ctx[c].flags
                           THEN "ended" ELSE "running"]
        /\ event' = [p \in Targets |-> IF mine(p) = {} THEN event[p] ELSE None]

\* abort_connections, and the end of the thread.
ServerAborts ==
  /\ server.pc = "poll" /\ shallTerminate
  /\ ctx' = [c \in Contexts |-> [ctx[c] EXCEPT !.shouldClose = @ \/ client[c] \in {"open", "gone"}]]
  /\ client' = [c \in Contexts |-> IF client[c] = "none" THEN "none" ELSE "killed"]
  /\ packet' = [c \in Contexts |-> None]
  /\ ServerAt("ends")
  /\ UNCHANGED <<attachedEvent, continuedEvent, handshake, held, monitor, others, backlog, debuggees>>

ServerEnds ==
  /\ server.pc = "ends"
  /\ IF monitor.pc = "ended" THEN AllFree /\ Finalized ELSE UNCHANGED <<ctx, attachedEvent, peers, debuggees>>
  /\ ServerAt("ended")
  /\ UNCHANGED <<continuedEvent, handshake, held, monitor, others>>
-----------------------------------------------------------------------------
(* The monitor.                                                            *)

MonitorAt(place) == monitor' = [monitor EXCEPT !.pc = place]

Snapshot ==
  /\ monitor.pc = "snapshot" /\ AllFree
  /\ monitor' = [monitor EXCEPT !.pc = "wait", !.handles = [c \in Contexts |-> ctx[c].waitsFor]]
  /\ UNCHANGED <<contexts, handshake, held, server, others, peers, debuggees>>

Signaled(c, h) ==
  CASE h = "attached" -> c \in attachedEvent
    [] h = "continued" -> c \in continuedEvent
    [] OTHER -> h # None /\ event[h] # None

\* Mutant of WokenByStatus: what has been read again is not acknowledged.
WokenByStatusSilently ==
  /\ monitor.pc = "wait" /\ statusUpdated /\ ~shallTerminate
  /\ statusUpdated' = FALSE
  /\ MonitorAt("snapshot")
  /\ UNCHANGED <<contexts, statusUpdateReceived, shallTerminate, held, server, others, peers, debuggees>>

WokenByStatus ==
  /\ monitor.pc = "wait" /\ statusUpdated /\ ~shallTerminate
  /\ statusUpdated' = FALSE /\ statusUpdateReceived' = TRUE
  /\ MonitorAt("snapshot")
  /\ UNCHANGED <<contexts, shallTerminate, held, server, others, peers, debuggees>>

WokenByContext(c) ==
  /\ monitor.pc = "wait" /\ ~statusUpdated /\ ~shallTerminate
  /\ Signaled(c, monitor.handles[c])
  /\ \A d \in Contexts : d < c => ~Signaled(d, monitor.handles[d])
  /\ continuedEvent' = IF monitor.handles[c] = "continued" THEN continuedEvent \ {c} ELSE continuedEvent
  /\ monitor' = [monitor EXCEPT !.pc = "handle", !.c = c]
  /\ UNCHANGED <<ctx, attachedEvent, handshake, held, server, others, peers, debuggees>>

\* The section under the lock of the context, with GDB_HandleDebugEvents.
MonitorWaitsFor(c, h) == ctx' = [ctx EXCEPT ![c].waitsFor = h]
Forgets(c) == attachedEvent' = attachedEvent \ {c}

HandleState ==
  /\ monitor.pc = "handle"
  /\ LET c == monitor.c
         x == ctx[c]
     IN /\ Free(c)
        /\ IF x.state \in {"disconnected", "detaching"} THEN MonitorWaitsFor(c, "attached") /\ Forgets(c)
           ELSE /\ x.waitsFor \in {"attached", "continued"}
                /\ MonitorWaitsFor(c, IF x.waitsFor = "attached" THEN "continued" ELSE x.debug)
                /\ UNCHANGED attachedEvent
  /\ MonitorAt("snapshot")
  /\ UNCHANGED <<continuedEvent, handshake, held, server, others, peers, debuggees>>

\* Some events that are continued automatically are told to the client, which fails when
\* it has gone; others are dismissed, or are output whose loss is not noticed.
HandleEvent ==
  /\ monitor.pc = "handle"
  /\ \E told \in BOOLEAN :
     LET c == monitor.c
         x == ctx[c]
         p == x.debug
         fails == client[c] # "open"      \* to send
         over == event[p] = "exit" \/ (event[p] = "auto" /\ told /\ fails)
     IN /\ Free(c)
        /\ x.state \notin {"disconnected", "detaching"} /\ x.waitsFor \notin {"attached", "continued"}
        /\ IF over
           THEN /\ ctx' = [ctx EXCEPT ![c] =
                     IF "extended" \in x.flags THEN [Restarted(Detached(x)) EXCEPT !.state = "detaching"]
                     ELSE [x EXCEPT !.waitsFor = "attached"]]
                /\ Forgets(c)
                /\ IF "extended" \in x.flags THEN LetGo(x)
                   ELSE event' = [event EXCEPT ![p] = None]
                        /\ proc' = [proc EXCEPT ![p] = IF @ = "stopped" THEN "running" ELSE @]
           ELSE /\ ctx' = [ctx EXCEPT ![c] =
                     IF event[p] = "stop"
                     THEN [x EXCEPT !.flags = @ \ {"continuing"}, !.waitsFor = IF fails THEN @ ELSE "continued"]
                     ELSE x]
                /\ event' = [event EXCEPT ![p] = None]
                /\ proc' = [proc EXCEPT ![p] = IF event[p] = "auto" THEN "running" ELSE @]
                /\ UNCHANGED attachedEvent
  /\ MonitorAt("snapshot")
  /\ UNCHANGED <<continuedEvent, handshake, held, server, others, peers>>

MonitorEnds ==
  /\ monitor.pc = "wait" /\ shallTerminate
  /\ IF server.pc = "ended" THEN AllFree /\ Finalized ELSE UNCHANGED <<ctx, attachedEvent, peers, debuggees>>
  /\ MonitorAt("ended")
  /\ UNCHANGED <<continuedEvent, handshake, held, server, others>>

-----------------------------------------------------------------------------
(* The menus, and the task that fetches the next application.              *)

MenuIdle(entry) == menu = "idle" /\ entry \in MenuDoes /\ AllFree /\ Running

\* GDB_SelectAvailableContext.  When the only port is taken a free context gets every
\* flag but one (server.c:133).
EveryFlag == {"used", "extended", "continuing", "terminate", "atStart"}
Selects(ports, pid) ==
  LET free == {c \in Contexts : ~Allocated(c)}
      open == {q \in ports : \A c \in Contexts : Allocated(c) => ctx[c].port # q}
      c == Lowest(free)
  IN IF free = {} THEN UNCHANGED ctx
     ELSE IF open = {} THEN ctx' = [ctx EXCEPT ![c].flags = EveryFlag]
     ELSE ctx' = [ctx EXCEPT ![c].flags = @ \cup {"selected"}, ![c].port = Lowest(open),
                             ![c].pid = pid, ![c].debug = IF pid = None THEN None ELSE @]

\* ProcessListMenu_HandleSelected
Owner(p) == {c \in Contexts :
               /\ "selected" \in ctx[c].flags \/ ctx[c].state = "attached"
               /\ ctx[c].pid = p}

Select(p) ==
  /\ MenuIdle("select") /\ p \in Processes /\ proc[p] # "ended" /\ Owner(p) = {}
  /\ Selects(ServerPorts \ {NextPort}, p)
  /\ UNCHANGED <<attachedEvent, continuedEvent, handshake, held, server, monitor, others, peers, debuggees>>

Unselect(p) ==
  /\ MenuIdle("unselect")
  /\ \E c \in Owner(p) :
       /\ "selected" \in ctx[c].flags /\ "used" \notin ctx[c].flags /\ ctx[c].port # NextPort
       /\ ctx' = [ctx EXCEPT ![c].flags = @ \ {"selected"}, ![c].port = None]
  /\ UNCHANGED <<attachedEvent, continuedEvent, handshake, held, server, monitor, others, peers, debuggees>>

\* Of a context with a client: the menu waits, with all locks, until it is closed.
AskToClose(p) ==
  /\ MenuIdle("close")
  /\ \E c \in Owner(p) :
       /\ {"selected", "used"} \subseteq ctx[c].flags
       /\ ctx' = [ctx EXCEPT ![c].shouldClose = TRUE]
  /\ menu' = "spins" /\ held' = Contexts
  /\ UNCHANGED <<attachedEvent, continuedEvent, handshake, server, monitor, task, nextCtx, queued, peers,
                 debuggees>>

Closed ==
  /\ menu = "spins" /\ \A c \in Contexts : ~ctx[c].shouldClose
  /\ menu' = "idle" /\ held' = {}
  /\ UNCHANGED <<contexts, handshake, server, monitor, task, nextCtx, queued, peers, debuggees>>

DebugNextApplication ==
  /\ MenuIdle("next") /\ nextCtx = None
  /\ Selects({NextPort}, None)
  /\ LET picked == {c \in Contexts : ~Allocated(c) /\ "selected" \in ctx'[c].flags}
     IN IF picked = {} THEN UNCHANGED <<nextCtx, queued>>
        ELSE nextCtx' \in picked /\ queued' = "armed"
  /\ UNCHANGED <<attachedEvent, continuedEvent, handshake, held, server, monitor, menu, task, peers,
                 debuggees>>

\* The application is fetched from pm, which may fail, then given to its context.
FetchNext ==
  /\ task = "starts"
  /\ IF nextCtx = None THEN task' = "idle" /\ UNCHANGED <<queued, proc>>
     ELSE /\ queued' = "no"
          /\ \/ task' = "fetched" /\ proc' = [proc EXCEPT ![App] = "stopped"]
             \/ task' = "failed" /\ "fails" \in MenuDoes /\ UNCHANGED proc
  /\ UNCHANGED <<contexts, handshake, held, server, monitor, menu, nextCtx, peers, event>>

SetNext ==
  /\ task \in {"fetched", "failed"} /\ AllFree /\ nextCtx # None
  /\ ctx' = [ctx EXCEPT ![nextCtx].debug = IF task = "fetched" THEN App ELSE None,
                        ![nextCtx].flags = IF task = "fetched" THEN @ \cup {"atStart"} ELSE {}]
  /\ task' = "idle" /\ nextCtx' = None
  /\ UNCHANGED <<attachedEvent, continuedEvent, handshake, held, server, monitor, menu, queued, peers,
                 debuggees>>

\* debuggerDisable: joins both threads.
Disable ==
  /\ menu = "idle" /\ "disable" \in MenuDoes /\ ~shallTerminate
  /\ shallTerminate' = TRUE
  /\ ctx' = [c \in Contexts |-> [ctx[c] EXCEPT !.shouldClose = @ \/ client[c] \in {"open", "gone"}]]
  /\ client' = [c \in Contexts |-> IF client[c] = "none" THEN "none" ELSE "killed"]
  /\ packet' = [c \in Contexts |-> None] /\ backlog' = {}
  /\ menu' = "joins"
  /\ UNCHANGED <<attachedEvent, continuedEvent, statusUpdated, statusUpdateReceived, held, server, monitor,
                 task, nextCtx, queued, debuggees>>

Disabled ==
  /\ menu = "joins" /\ server.pc = "ended" /\ monitor.pc = "ended"
  /\ menu' = "idle" /\ nextCtx' = None /\ queued' = "no"
  /\ UNCHANGED <<contexts, handshake, held, server, monitor, task, peers, debuggees>>
-----------------------------------------------------------------------------
ServerContinues ==
  \/ CloseStarts
  \/ /\ \/ AwaitsDebug \/ (\E port \in ServerPorts : Registers(port)) \/ AcceptClient \/ DetachesExtended
        \/ CloseCounts \/ CloseWaits \/ CloseFrees
        \/ ServerAborts \/ ServerEnds
     /\ UNCHANGED overtaken
Serves(c) ==
  /\ \/ ExtendedMode(c) \/ AttachPacket(c) \/ Continue(c) \/ Break(c) \/ Closes(c)
     \/ \E what \in {"detach", "kill"} : DetachPacket(c, what)
  /\ UNCHANGED overtaken
Listens == (\E port \in ServerPorts : Refuse(port) \/ Accept(port)) /\ UNCHANGED overtaken
ServerSteps == ServerContinues \/ Listens \/ \E c \in Contexts : Serves(c)
MonitorSteps ==
  /\ \/ Snapshot \/ WokenByStatus \/ HandleState \/ HandleEvent \/ MonitorEnds
     \/ \E c \in Contexts : WokenByContext(c)
  /\ UNCHANGED overtaken
MenuSteps ==
  /\ \/ \E p \in Processes : Select(p) \/ Unselect(p) \/ AskToClose(p)
     \/ Closed \/ DebugNextApplication \/ FetchNext \/ SetNext \/ Disable \/ Disabled
  /\ UNCHANGED overtaken
Environment ==
  /\ \/ \E port \in ServerPorts : Connect(port)
     \/ \E c \in Contexts : HangUp(c) \/ \E what \in Packets : Send(c, what)
     \/ \E p \in Targets : StartOrEnd(p) \/ \E what \in {"auto", "stop", "exit"} : Happens(p, what)
     \/ LaunchApp
  /\ UNCHANGED overtaken

GDBServerNext ==
  server.pc # "crashed" /\ (ServerSteps \/ MonitorSteps \/ MenuSteps \/ Environment)

\* The threads go on, every descriptor that is ready is served in a pass, and a thread
\* that waits for locks gets them in turn.
GDBServerFairness ==
  /\ SF_gdbsVars(ServerContinues) /\ SF_gdbsVars(Listens)
  /\ \A c \in Contexts : SF_gdbsVars(Serves(c))
  /\ SF_gdbsVars(server.pc # "crashed" /\ MonitorSteps)
  /\ WF_gdbsVars(server.pc # "crashed" /\ Closed /\ UNCHANGED overtaken)

GDBServerSafe == GDBServerInit /\ [][GDBServerNext]_gdbsVars
GDBServerSpec == GDBServerSafe /\ GDBServerFairness
-----------------------------------------------------------------------------
\* While the monitor waits, the debug handles among those it waits for are open: else
\* the wait would fail, and the monitor end (monitor.c:36).
WaitsOnOpenHandles ==
  monitor.pc = "wait" =>
    \A c \in DOMAIN ctx \ overtaken : monitor.handles[c] \in {"attached", "continued", ctx[c].debug} \ {None}

\* A context whose client goes away is freed, unless the menu waits with all locks or
\* the debugger is disabled meanwhile.
CloseEnds ==
  server.pc \in {"closes", "counts", "waits", "frees"} ~>
    \/ server.pc \notin {"closes", "counts", "waits", "frees"}
    \/ menu = "spins" \/ shallTerminate

\* What stops a process whose client let it run is told to the client, or the client
\* goes away, unless a thread comes to wait with a lock that the monitor waits for.
StopIsReported ==
  LET unreported(c) == ctx[c].debug # None /\ event[ctx[c].debug] = "stop"
  IN \A c \in Contexts :
       unreported(c) ~> (~unreported(c) \/ c \in overtaken \/ held # {} \/ shallTerminate)

\* Unselecting a process ends.
UnselectEnds == menu = "spins" ~> menu # "spins"
=============================================================================
