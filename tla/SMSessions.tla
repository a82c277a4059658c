----------------------------- MODULE SMSessions -----------------------------
(***************************************************************************)
(* The main loop of the service manager, sysmodules/sm: the session pool   *)
(* and its lists (main.c), the registry of services and named ports        *)
(* (services.c), the registration of processes as far as the registry      *)
(* depends on it (processes.c), and the command dispatch (srv.c,           *)
(* srv_pm.c).                                                              *)
(*                                                                         *)
(* sm is one thread: each turn of its loop is one svcReplyAndReceive,      *)
(* followed by the handler of the event it returned.  A handler is one     *)
(* action here.  The reply that the next svcReplyAndReceive delivers is an *)
(* action of its own, because clients run between the two.  What the       *)
(* kernel does with sessions, client ports and the resume semaphore is not *)
(* in this repository: it is modelled from the results that main.c tests.  *)
(*                                                                         *)
(* Order is kept where the code depends on it (the three lists of          *)
(* postponed sessions); the list of sessions in use and the array of       *)
(* services are sets, since a handle, and a (kind, name) pair, is in them  *)
(* at most once.                                                           *)
(***************************************************************************)
EXTENDS Integers, Sequences, FiniteSets, ListOps

CONSTANTS Slots,           \* sessionDataPool, 76 entries in the code
          Pids,            \* process ids of the clients
          Section0,        \* the pids below nbSection0Modules
          Names,           \* service and port names, padded to 8 characters
          Begins,          \* <<n, m>>: n without its padding is the beginning of m
          Kinds,           \* {"service", "port"}, or one of the two
          Ports,           \* client port handles the kernel can hand out
          MaxServices,     \* size of servicesInfo, 0xA0 in the code
          MaxProcesses,    \* size of processDataPool, 64 in the code
          MaxLoad,         \* sessions a service's port accepts
          MaxSrv,          \* sessions the kernel lets "srv:" accept, 64
          MaxSrvPm,        \* sessions the kernel lets "srv:pm" accept
          SemMax,          \* limit of the resume semaphore, 64
          Pre7x,           \* IS_PRE_7X: srv:pm also takes the srv: commands
          None             \* "no such value"

\* A name whose first word has been overwritten in a replay buffer; no client asks for it.
Garbled == "garbled"

ASSUME SMConstants ==
  /\ Kinds \subseteq {"service", "port"}
  /\ Section0 \subseteq Pids
  /\ Begins \subseteq Names \X Names
  /\ None \notin Slots /\ None \notin Pids /\ None \notin Names /\ None \notin Ports
  /\ Garbled \notin Names
  /\ {MaxServices, MaxProcesses, MaxLoad, MaxSrv, MaxSrvPm, SemMax} \subseteq Nat
  /\ Pre7x \in BOOLEAN
  /\ IsFiniteSet(Slots)

VARIABLES
  inUse,        \* sessionDataInUseList
  waitReg,      \* sessionDataWaitingForServiceOrPortRegisterList
  toWake,       \* sessionDataToWakeUpAfterServiceOrPortRegisterList
  waitPort,     \* sessionDataWaitingPortReadyList
  isSrvPm, pid, \* fields of SessionData
  replay,       \* replayCmdbuf: kind (command id) and name of the lookup
  busy,         \* busyClientPortHandle
  services,     \* servicesInfo[0 .. nbServices - 1]
  processes,    \* the pids in processDataInUseList
  sem,          \* count of resumeGetServiceHandleOrPortRegisteredSemaphore
  replyTarget,  \* session answered by the next svcReplyAndReceive
  result,       \* what the command buffer answers it
  panicked,     \* why sm panicked, or "no"
  msg,          \* per session: the request sm has received, not answered
  closed,       \* sessions whose client end is closed
  portState,    \* "free", "live", or "orphan": the server end is closed
  load          \* open sessions of a port

lists  == <<inUse, waitReg, toWake, waitPort>>
fields == <<isSrvPm, pid, replay, busy>>
kernel == <<msg, closed, portState, load>>
vars   == <<lists, fields, services, processes, sem, replyTarget, result,
            panicked, kernel>>
-----------------------------------------------------------------------------
(* A replay buffer holds the first four words of the request: the command  *)
(* id, the name and its size.                                              *)
Waiting == Elems(waitReg) \cup Elems(toWake) \cup Elems(waitPort)
Open    == inUse \cup Waiting

Lookup     == [op : {"Get"}, kind : Kinds, name : Names, wait : BOOLEAN]
SrvRequest ==
       Lookup
  \cup [op : {"Register", "Unregister"}, kind : Kinds, name : Names]
  \cup [op : {"RegisterClient"}, pid : Pids]
  \cup [op : {"EnableNotification", "Other"}]
SrvPmRequest == [op : {"RegisterProcess", "UnregisterProcess"}, pid : Pids]

\* The requests a client can usefully send on session s: others are answered
\* with "invalid command", like "Other", which stands for every command that
\* does not touch this module's state.  The kernel writes the client's own pid
\* into RegisterClient: a session has one.
Requests(s) ==
  {r \in IF isSrvPm[s]
         THEN SrvPmRequest \cup (IF Pre7x THEN SrvRequest ELSE [op : {"Other"}])
         ELSE SrvRequest :
      r.op = "RegisterClient" => pid[s] \in {None, r.pid}}

\* findServicePortByName
Registered(k, n) == \E e \in services : e.kind = k /\ e.name = n
ServicePort(n)   == (CHOOSE e \in services :
                        e.kind = "service" /\ e.name = n).port

\* A client port handle the kernel has not handed out yet.
FreshPorts == {p \in Ports : portState[p] = "free" /\ \A s \in Slots : busy[s] # p}

Running == panicked = "no"

\* The handles given to svcReplyAndReceive are all valid: the client ports of
\* the sessions in sessionDataWaitingPortReadyList have not been closed by sm.
HandlesValid == \A s \in Elems(waitPort) : portState[busy[s]] # "free"

\* sm is blocked in svcReplyAndReceive, the reply delivered.
AtWait == Running /\ HandlesValid /\ replyTarget = None

Panic(why) ==
  /\ panicked' = why
  /\ UNCHANGED <<lists, fields, services, processes, sem, replyTarget, result,
                 kernel>>
-----------------------------------------------------------------------------
Init ==
  /\ inUse = {} /\ waitReg = <<>> /\ toWake = <<>> /\ waitPort = <<>>
  /\ isSrvPm = [s \in Slots |-> FALSE]
  /\ pid = [s \in Slots |-> None]
  /\ replay = [s \in Slots |-> None]
  /\ busy = [s \in Slots |-> None]
  /\ services = {} /\ processes = {} /\ sem = 0
  /\ replyTarget = None /\ result = None /\ panicked = "no"
  /\ msg = [s \in Slots |-> None] /\ closed = {}
  /\ portState = [p \in Ports |-> "free"] /\ load = [p \in Ports |-> 0]
-----------------------------------------------------------------------------
(* The clients and the servers of the registered ports.                    *)

\* A client's end of its session is closed, for instance because its process
\* exits, possibly while it waits for an answer.
ClientClose(s) ==
  /\ Running /\ s \in Open \ closed
  /\ closed' = closed \cup {s}
  /\ UNCHANGED <<lists, fields, services, processes, sem, replyTarget, result,
                 panicked, msg, portState, load>>

\* The server closes its end of a port, or its process exits.
ServerClosePort(p) ==
  /\ Running /\ portState[p] = "live"
  /\ portState' = [portState EXCEPT ![p] = "orphan"]
  /\ UNCHANGED <<lists, fields, services, processes, sem, replyTarget, result,
                 panicked, msg, closed, load>>

\* A session of a service ends.
ServiceSessionEnds(p) ==
  /\ Running /\ portState[p] = "live" /\ load[p] > 0
  /\ load' = [load EXCEPT ![p] = @ - 1]
  /\ UNCHANGED <<lists, fields, services, processes, sem, replyTarget, result,
                 panicked, msg, closed, portState>>
-----------------------------------------------------------------------------
(* What the handlers have in common.                                       *)

\* The command is done: answer s at the next svcReplyAndReceive.  The caller
\* says which of the lists the session was taken from.
Answer(s, res) ==
  /\ replyTarget' = s /\ result' = res
  /\ inUse' = inUse \cup {s}

\* A replayed request was answered: what is left in replayCmdbuf is not read
\* again.
ReplayDone(s) == replay' = [replay EXCEPT ![s] = None]

\* GetServiceHandle or GetPort found nothing (0xD0406401): keep the request
\* and wait for a registration.
PostponeUntilRegistered(s, k, n) ==
  /\ waitReg' = Append(waitReg, s)
  /\ replay' = [replay EXCEPT ![s] = [kind |-> k, name |-> n]]
  /\ inUse' = inUse \ {s}
  /\ UNCHANGED <<replyTarget, result>>

\* GetServiceHandle: the service is at its session limit (0xD0406402).
PostponeUntilPortReady(s, n, wp) ==
  /\ waitPort' = Append(wp, s)
  /\ replay' = [replay EXCEPT ![s] = [kind |-> "service", name |-> n]]
  /\ inUse' = inUse \ {s}
  /\ UNCHANGED <<replyTarget, result>>

\* GetServiceHandle.  wp is sessionDataWaitingPortReadyList when it starts.
\* sm tries svcCreateSessionToPort first and looks at flags & 1 (~wait) only
\* when the port is full.
GetServiceHandle(s, n, wait, wp) ==
  \/ /\ ~Registered("service", n)
     /\ PostponeUntilRegistered(s, "service", n)
     /\ waitPort' = wp
     /\ busy' = [busy EXCEPT ![s] = None]
     /\ UNCHANGED load
  \/ /\ Registered("service", n)
     /\ LET p == ServicePort(n)
            full == load[p] >= MaxLoad
        IN \/ /\ portState[p] = "live" /\ ~full
              /\ load' = [load EXCEPT ![p] = @ + 1]
              /\ Answer(s, "granted")
              /\ waitPort' = wp
              /\ busy' = [busy EXCEPT ![s] = None]
              /\ ReplayDone(s)
              /\ UNCHANGED waitReg
           \/ /\ portState[p] = "live" /\ full /\ wait
              /\ PostponeUntilPortReady(s, n, wp)
              /\ busy' = [busy EXCEPT ![s] = p]
              /\ UNCHANGED <<waitReg, load>>
           \/ /\ portState[p] # "live" \/ (full /\ ~wait)
              /\ Answer(s, "refused")
              /\ waitPort' = wp
              /\ busy' = [busy EXCEPT ![s] = None]
              /\ ReplayDone(s)
              /\ UNCHANGED <<waitReg, load>>

\* Mutant of GetPort: the result of the search is not looked at.
GetPortUnchecked(s, n, wait) ==
  /\ Answer(s, "granted") /\ ReplayDone(s)
  /\ UNCHANGED <<waitReg, waitPort, busy, load>>

\* GetPort.  flags # 0 (wait) asks to wait for the registration.
GetPort(s, n, wait) ==
  /\ \/ /\ ~Registered("port", n) /\ wait
        /\ PostponeUntilRegistered(s, "port", n)
     \/ /\ ~Registered("port", n) /\ ~wait
        /\ Answer(s, "refused") /\ ReplayDone(s)
        /\ UNCHANGED waitReg
     \/ /\ Registered("port", n)
        /\ Answer(s, "granted") /\ ReplayDone(s)
        /\ UNCHANGED waitReg
  /\ UNCHANGED <<waitPort, busy, load>>

\* The two lookups, as srvHandleCommands runs them for a new request or for a
\* replayed one.
ServeLookup(s, k, n, wait, wp) ==
  /\ \/ k = "service" /\ GetServiceHandle(s, n, wait, wp)
     \/ k = "port" /\ GetPort(s, n, wait)
  /\ UNCHANGED <<isSrvPm, pid, services, processes, panicked, closed, portState>>
-----------------------------------------------------------------------------
(* The commands.  A request is chosen when sm receives it on a session in  *)
(* use: until then the client waits and nothing depends on what it sent.   *)

Receives(s, r, op) == AtWait /\ s \in inUse \ closed /\ r.op = op

Get(s, r) ==
  /\ Receives(s, r, "Get")
  /\ ServeLookup(s, r.kind, r.name, r.wait, waitPort)
  /\ UNCHANGED <<toWake, sem>>

\* The names that are compared as equal: only as many characters as were asked for.
SameName(asked, n) == asked = n \/ <<asked, n>> \in Begins

\* Mutant of Matching: only the sessions that wait for a service.
MatchingServices(k, n) ==
  {t \in Elems(waitReg) : k = "service" /\ replay[t].kind = k /\ SameName(replay[t].name, n)}

\* The sessions woken by the registration of a kind and name, those included that wait
\* for a name which this one begins with: their replay finds nothing and they wait again.
Matching(k, n) == {t \in Elems(waitReg) : replay[t].kind = k /\ SameName(replay[t].name, n)}

\* Mutant of ReleaseCount: once, however many sessions are woken.
ReleaseOnce(woken) == IF woken = <<>> THEN 0 ELSE 1

\* How often the semaphore is released for the sessions moved to the list.
ReleaseCount(woken) == Len(woken)

\* RegisterService and RegisterPort (doRegisterServiceOrPort): the sessions
\* that wait for this kind and name move to the list of sessions to wake up,
\* in order, and the semaphore is released once for each.
RegisterSucceeds(s, k, n, p) ==
  /\ services' = services \cup {[kind |-> k, name |-> n, pid |-> pid[s], port |-> p]}
  /\ \E woken \in InOrder(waitReg, Matching(k, n)),
        rest \in InOrder(waitReg, Elems(waitReg) \ Matching(k, n)) :
       /\ waitReg' = rest
       /\ toWake' = toWake \o woken
       /\ IF sem + ReleaseCount(woken) > SemMax
          THEN /\ panicked' = "semaphore"
               /\ UNCHANGED <<sem, inUse, replyTarget, result>>
          ELSE /\ sem' = sem + ReleaseCount(woken)
               /\ Answer(s, "ok")
               /\ UNCHANGED panicked

\* servicesInfo has a free entry.
Room == Cardinality(services) < MaxServices

Register(s, r) ==
  /\ Receives(s, r, "Register")
  /\ LET k == r.kind
         n == r.name
         room == ~Registered(k, n) /\ Room
     IN \/ /\ room /\ k = "service"
           /\ \E p \in FreshPorts :
                 /\ RegisterSucceeds(s, k, n, p)
                 /\ portState' = [portState EXCEPT ![p] = "live"]
                 /\ load' = [load EXCEPT ![p] = 0]
        \/ /\ room /\ k = "port"
           /\ RegisterSucceeds(s, k, n, None)
           /\ UNCHANGED <<portState, load>>
        \/ \* already registered, table full, or svcCreatePort failed
           /\ ~room \/ (k = "service" /\ FreshPorts = {})
           /\ Answer(s, "error")
           /\ UNCHANGED <<services, waitReg, toWake, sem, panicked, portState, load>>
  /\ UNCHANGED <<waitPort, fields, processes, closed>>

\* Mutant of Drop: the client port handle is not closed.
DropOpen(E) ==
  /\ services' = services \ E
  /\ UNCHANGED <<portState, load>>

\* sm closes its client port handles and forgets the entries E.
Drop(E) ==
  LET gone == {e.port : e \in E} \ {None}
  IN /\ services' = services \ E
     /\ portState' = [p \in Ports |-> IF p \in gone THEN "free" ELSE portState[p]]
     /\ load' = [p \in Ports |-> IF p \in gone THEN 0 ELSE load[p]]

\* The entry a client may unregister.
Mine(s, r) ==
  {e \in services : e.kind = r.kind /\ e.name = r.name /\ e.pid = pid[s]}

\* UnregisterService and UnregisterPort (UnregisterServiceOrPort).
Unregister(s, r) ==
  /\ Receives(s, r, "Unregister")
  /\ \/ Mine(s, r) # {} /\ Drop(Mine(s, r)) /\ Answer(s, "ok")
     \/ /\ Mine(s, r) = {} /\ Answer(s, "error")
        /\ UNCHANGED <<services, portState, load>>
  /\ UNCHANGED <<waitReg, toWake, waitPort, fields, processes, sem, panicked,
                 closed>>

\* srv: RegisterClient.  The kernel writes the caller's own pid.
RegisterClient(s, r) ==
  /\ Receives(s, r, "RegisterClient")
  /\ pid' = [pid EXCEPT ![s] = r.pid]
  /\ Answer(s, "ok")
  /\ UNCHANGED <<waitReg, toWake, waitPort, isSrvPm, replay, busy, services,
                 processes, sem, panicked, closed, portState, load>>

\* The processes this step adds to processDataInUseList, or the panic of
\* allocateNode when processDataPool is used up.
AddProcess(s, q) ==
  \/ /\ Cardinality(processes) < MaxProcesses
     /\ processes' = processes \cup {q}
     /\ Answer(s, "ok")
     /\ UNCHANGED panicked
  \/ /\ Cardinality(processes) >= MaxProcesses
     /\ panicked' = "processes"
     /\ UNCHANGED <<processes, inUse, replyTarget, result>>

\* srv: EnableNotification registers a process of section 0 by itself.
EnableNotification(s, r) ==
  /\ Receives(s, r, "EnableNotification")
  /\ \/ /\ pid[s] \in Section0 \ processes
        /\ AddProcess(s, pid[s])
     \/ /\ pid[s] \notin Section0 \ processes
        /\ Answer(s, IF pid[s] \in processes THEN "ok" ELSE "error")
        /\ UNCHANGED <<processes, panicked>>
  /\ UNCHANGED <<waitReg, toWake, waitPort, fields, services, sem, closed,
                 portState, load>>

\* srv:pm RegisterProcess.
RegisterProcess(s, r) ==
  /\ Receives(s, r, "RegisterProcess")
  /\ \/ r.pid \notin processes /\ AddProcess(s, r.pid)
     \/ /\ r.pid \in processes /\ Answer(s, "error")
        /\ UNCHANGED <<processes, panicked>>
  /\ UNCHANGED <<waitReg, toWake, waitPort, fields, services, sem, closed,
                 portState, load>>

\* srv:pm UnregisterProcess: every service of the process goes with it.
UnregisterProcess(s, r) ==
  /\ Receives(s, r, "UnregisterProcess")
  /\ \/ /\ r.pid \in processes
        /\ Drop({e \in services : e.pid = r.pid})
        /\ processes' = processes \ {r.pid}
        /\ Answer(s, "ok")
     \/ /\ r.pid \notin processes /\ Answer(s, "error")
        /\ UNCHANGED <<services, processes, portState, load>>
  /\ UNCHANGED <<waitReg, toWake, waitPort, fields, sem, panicked, closed>>

\* Every command that leaves this module's state alone.
OtherCommand(s, r) ==
  /\ Receives(s, r, "Other")
  /\ Answer(s, "ok")
  /\ UNCHANGED <<waitReg, toWake, waitPort, fields, services, processes, sem,
                 panicked, closed, portState, load>>

Command(s) ==
  \E r \in Requests(s) :
     /\ msg' = [msg EXCEPT ![s] = r]
     /\ \/ Get(s, r) \/ Register(s, r) \/ Unregister(s, r) \/ RegisterClient(s, r)
        \/ EnableNotification(s, r) \/ OtherCommand(s, r)
        \/ RegisterProcess(s, r) \/ UnregisterProcess(s, r)
-----------------------------------------------------------------------------
(* The other events of the main loop.                                      *)

\* The reply reaches the client.
Reply ==
  /\ Running /\ HandlesValid /\ replyTarget # None /\ replyTarget \notin closed
  /\ msg' = [msg EXCEPT ![replyTarget] = None]
  /\ replyTarget' = None /\ result' = None
  /\ UNCHANGED <<lists, fields, services, processes, sem, panicked, closed,
                 portState, load>>

\* sm closes the session's handle and puts its slot back into the pool, where
\* nothing reads its fields before allocateNode clears them.
FreeSlot(s) ==
  /\ inUse' = inUse \ {s}
  /\ isSrvPm' = [isSrvPm EXCEPT ![s] = FALSE]
  /\ pid' = [pid EXCEPT ![s] = None]
  /\ replay' = [replay EXCEPT ![s] = None]
  /\ busy' = [busy EXCEPT ![s] = None]
  /\ msg' = [msg EXCEPT ![s] = None]
  /\ closed' = closed \ {s}

\* The reply fails because the client is gone (0xC920181A, id = -1).
ReplyFails ==
  /\ Running /\ HandlesValid /\ replyTarget \in closed
  /\ FreeSlot(replyTarget)
  /\ replyTarget' = None /\ result' = None
  /\ UNCHANGED <<waitReg, toWake, waitPort, services, processes, sem, panicked,
                 portState, load>>

\* A session in use was closed by its client (0xC920181A, id of the session).
SessionClosed(s) ==
  /\ AtWait /\ s \in inUse \cap closed
  /\ FreeSlot(s)
  /\ UNCHANGED <<waitReg, toWake, waitPort, services, processes, sem,
                 replyTarget, result, panicked, portState, load>>

\* Mutant of ForgetPort: busyClientPortHandle is not reset.
RememberPort(S) == busy

\* The sessions in S no longer wait for a port.
ForgetPort(S) == [s \in Slots |-> IF s \in S THEN None ELSE busy[s]]

\* The server end of a port that sessions wait for was closed (0xC920181A, id
\* of the client port): they are put back among the sessions that wait for a
\* registration, and the first word after the header of their replay buffer,
\* the first half of the name, is overwritten with the result code.
PortClosed(p) ==
  /\ AtWait /\ portState[p] = "orphan"
  /\ LET moved == {s \in Elems(waitPort) : busy[s] = p}
     IN /\ moved # {}
        /\ \E m \in InOrder(waitPort, moved),
              rest \in InOrder(waitPort, Elems(waitPort) \ moved) :
              waitReg' = waitReg \o m /\ waitPort' = rest
        /\ replay' = [s \in Slots |->
                        IF s \in moved THEN [replay[s] EXCEPT !.name = Garbled]
                                       ELSE replay[s]]
        /\ busy' = ForgetPort(moved)
  /\ UNCHANGED <<inUse, toWake, isSrvPm, pid, services, processes, sem,
                 replyTarget, result, panicked, kernel>>

\* svcReplyAndReceive is given a handle that sm has closed, and fails.
WaitFails ==
  /\ Running /\ ~HandlesValid
  /\ Panic("wait")

\* A new session on srv: or srv:pm.
Accept(s, srvPm) ==
  /\ s \notin Open
  /\ inUse' = inUse \cup {s}
  /\ isSrvPm' = [isSrvPm EXCEPT ![s] = srvPm]
  /\ UNCHANGED <<waitReg, toWake, waitPort, pid, replay, busy, services,
                 processes, sem, replyTarget, result, panicked, kernel>>

PoolUsedUp == Open = Slots /\ Panic("sessions")

SrvSessions   == {s \in Open : ~isSrvPm[s]}
SrvPmSessions == {s \in Open : isSrvPm[s]}

NewSrvSession ==
  /\ AtWait /\ Cardinality(SrvSessions) < MaxSrv
  /\ PoolUsedUp \/ \E s \in Slots : Accept(s, FALSE)

NewSrvPmSession ==
  /\ AtWait /\ Cardinality(SrvPmSessions) < MaxSrvPm
  /\ PoolUsedUp \/ \E s \in Slots : Accept(s, TRUE)

\* The resume semaphore is signalled: replay the request of the first session
\* to wake up.  Only four words of it were kept, so the flags are whatever an
\* earlier command left in the fifth word of the command buffer.
Resume ==
  /\ AtWait /\ sem > 0
  /\ IF toWake = <<>>
     THEN Panic("resume")
     ELSE LET s == Head(toWake)
          IN /\ sem' = sem - 1
             /\ toWake' = Tail(toWake)
             /\ \E wait \in BOOLEAN :
                   ServeLookup(s, replay[s].kind, replay[s].name, wait, waitPort)
             /\ UNCHANGED msg

\* A client port that sessions wait for accepts sessions again: replay the
\* request of the first of them.
PortReady(p) ==
  /\ AtWait /\ portState[p] = "live" /\ load[p] < MaxLoad
  /\ \E waiters \in InOrder(waitPort, {s \in Elems(waitPort) : busy[s] = p}) :
       /\ waiters # <<>>
       /\ LET s == Head(waiters)
          IN \E rest \in InOrder(waitPort, Elems(waitPort) \ {s}), wait \in BOOLEAN :
                ServeLookup(s, replay[s].kind, replay[s].name, wait, rest)
  /\ UNCHANGED <<toWake, sem, msg>>

\* After a panic nothing runs any more.
Halted == ~Running /\ UNCHANGED vars
-----------------------------------------------------------------------------
Environment ==
  \/ \E s \in Slots : ClientClose(s)
  \/ \E p \in Ports : ServerClosePort(p) \/ ServiceSessionEnds(p)

MainLoop ==
  \/ \E s \in Slots : Command(s) \/ SessionClosed(s)
  \/ \E p \in Ports : PortClosed(p) \/ PortReady(p)
  \/ Reply \/ ReplyFails \/ WaitFails \/ NewSrvSession \/ NewSrvPmSession
  \/ Resume

Next == Environment \/ MainLoop \/ Halted

Spec == Init /\ [][Next]_vars

\* sm never stops to take its turns; the semaphore is the first handle sm
\* waits on, so that it is not passed over for ever.
Fairness == WF_vars(MainLoop) /\ WF_vars(Reply \/ ReplyFails) /\ SF_vars(Resume)

FairSpec == Spec /\ Fairness
-----------------------------------------------------------------------------
(* Properties.                                                             *)

\* The semaphore counts the sessions to wake up: main.c relies on it when it
\* takes the first of them without looking (services.c releases n at once).  So
\* the panics of the resume path are unreachable: the list is never empty when
\* the semaphore is signalled, and the semaphore's limit is never exceeded.
SemCountsToWake ==
  sem = Len(toWake) /\ panicked \notin {"resume", "semaphore"}

\* No lookup sleeps through a registration: a session among those that wait
\* for one, with its request intact, waits for something not registered.
NoLostWakeup ==
  \A s \in Elems(waitReg) :
     replay[s].name # Garbled => ~Registered(replay[s].kind, replay[s].name)

\* As long as sm's handles are valid, a session that waits for a port to accept
\* sessions waits on the port of the service it named, and no other session
\* remembers a port.
WaitersKnowTheirPort ==
  /\ \A s \in Slots : busy[s] # None <=> s \in Elems(waitPort)
  /\ HandlesValid =>
        \A s \in Elems(waitPort) :
           /\ Registered("service", replay[s].name)
           /\ busy[s] = ServicePort(replay[s].name)

\* A kind and name is registered once, and sm holds the client ports of the
\* registered services and no others: unregistering closes exactly one handle.
RegistryOwnsPorts ==
  /\ \A e, f \in services :
        /\ e.kind = f.kind /\ e.name = f.name => e = f
        /\ e.port = f.port /\ e.kind = "service" => e = f
  /\ {p \in Ports : portState[p] # "free"} =
        {e.port : e \in {f \in services : f.kind = "service"}}

\* A session woken by a registration is resumed: registrations of other
\* services, new clients and busy ports do not delay it for ever.
WokenIsResumed ==
  \A s \in Slots : s \in Elems(toWake) ~> (s \notin Elems(toWake) \/ ~Running)

\* The service manager keeps the promise of SMLookup.  A lookup waits while its
\* session is in one of the three lists, and is answered by replyTarget.
Promise == INSTANCE SMLookup WITH
  Clients <- Slots,
  registry <- {[kind |-> e.kind, name |-> e.name] : e \in services},
  asked <- [s \in Slots |->
              IF s \in Waiting THEN [kind |-> msg[s].kind, name |-> msg[s].name]
                               ELSE None],
  answer <- [s \in Slots |->
               IF s = replyTarget /\ msg[s] \in Lookup THEN result ELSE None]

KeepsPromise == Promise!LookupSpec

\* A client whose service is registered, its port open, and stays so, does not
\* wait for ever among the sessions whose service is not registered.
Available(n) == Registered("service", n) /\ portState[ServicePort(n)] = "live"

RegisteredServiceServesWaiters ==
  \A s \in Slots : \A n \in Names :
     (/\ s \in Elems(waitReg) \ closed
      /\ msg[s].kind = "service" /\ msg[s].name = n /\ Available(n))
       ~> (s \notin Elems(waitReg) \ closed \/ ~Available(n) \/ ~Running)
=============================================================================
