--------------------------- MODULE SMNotifications ---------------------------
(***************************************************************************)
(* The notifications of the service manager, sysmodules/sm                 *)
(* (notifications.c, processes.c): every registered process has a ring     *)
(* buffer of pending notification ids, a set of subscriptions, and a       *)
(* semaphore that it waits on before it receives the next one.             *)
(*                                                                         *)
(* sm is one thread: a command is one action.  The clients' waits on their *)
(* semaphores happen in between.                                           *)
(***************************************************************************)
EXTENDS Integers, Sequences, FiniteSets, ListOps

CONSTANTS Pids,          \* process ids
          Section0,      \* the pids below nbSection0Modules
          Ids,           \* notification ids, 0 excepted
          N,             \* entries of pendingNotifications, 16 in the code
          MaxSubs,       \* entries of subscribedNotifications, 17 in the code
          MaxProcesses,  \* entries of processDataPool, 64 in the code
          Pollers        \* the pids that also receive without waiting first

ASSUME NAssumption == N \in Nat \ {0}
ASSUME IdsAssumption == Ids \subseteq Nat \ {0}
ASSUME SubsAssumption == MaxSubs \in Nat /\ MaxProcesses \in Nat
ASSUME PidsAssumption == IsFiniteSet(Pids) /\ Section0 \subseteq Pids /\ Pollers \subseteq Pids

VARIABLES
  procs,     \* the pids in processDataInUseList, in the order of the list
  enabled,   \* notificationEnabled
  subs,      \* subscribedNotifications[0 .. nbSubscribed - 1]
  ring,      \* pendingNotifications
  recv,      \* receivedNotificationIndex
  pend,      \* pendingNotificationIndex
  nb,        \* nbPendingNotifications
  sem,       \* count of notificationSemaphore
  owed,      \* waits a client has been through and not yet received for
  got,       \* notification id in the last answer, 0 when there is none
  result,    \* result code of the last command
  panicked   \* assertSuccess has failed

ringVars == <<ring, recv, pend, nb>>
vars == <<procs, enabled, subs, ringVars, sem, owed, got, result, panicked>>

Slots == 0 .. N - 1

Registered(p) == p \in Elems(procs)
Listens(p) == Registered(p) /\ enabled[p]

\* The ids pending for p, oldest first.
Pending(p) == [i \in 1 .. nb[p] |-> ring[p][(recv[p] + i - 1) % N]]

Finish(res) == result' = res /\ got' = 0
-----------------------------------------------------------------------------
Init ==
  /\ procs = <<>>
  /\ enabled = [p \in Pids |-> FALSE]
  /\ subs = [p \in Pids |-> {}]
  /\ ring = [p \in Pids |-> [i \in Slots |-> 0]]
  /\ recv = [p \in Pids |-> 0]
  /\ pend = [p \in Pids |-> 0]
  /\ nb = [p \in Pids |-> 0]
  /\ sem = [p \in Pids |-> 0]
  /\ owed = [p \in Pids |-> 0]
  /\ got = 0 /\ result = "ok" /\ panicked = FALSE

-----------------------------------------------------------------------------
(* Registration of processes (processes.c).  An entry is cleared when it is *)
(* freed as well as when it is allocated: nothing reads it in between.      *)

\* allocateNode clears the entry, svcCreateSemaphore creates the semaphore with
\* count 0; the waits of a process that has exited are over.
Clear(p) ==
  /\ enabled' = [enabled EXCEPT ![p] = FALSE]
  /\ subs' = [subs EXCEPT ![p] = {}]
  /\ ring' = [ring EXCEPT ![p] = [i \in Slots |-> 0]]
  /\ recv' = [recv EXCEPT ![p] = 0]
  /\ pend' = [pend EXCEPT ![p] = 0]
  /\ nb' = [nb EXCEPT ![p] = 0]
  /\ sem' = [sem EXCEPT ![p] = 0]
  /\ owed' = [owed EXCEPT ![p] = 0]

\* RegisterProcess.  SMSessions models the panic when the pool is used up.
RegisterProcess(p) ==
  \/ /\ ~Registered(p) /\ Len(procs) < MaxProcesses
     /\ procs' = <<p>> \o procs
     /\ Finish("ok") /\ UNCHANGED panicked
     /\ Clear(p)
  \/ /\ Registered(p)
     /\ Finish("error")
     /\ UNCHANGED <<procs, enabled, subs, ringVars, sem, owed, panicked>>

\* UnregisterProcess: the semaphore is closed and the entry freed.
UnregisterProcess(p) ==
  \/ /\ Registered(p)
     /\ \E i \in DOMAIN procs : procs[i] = p /\ procs' = WithoutIndex(procs, i)
     /\ Clear(p)
     /\ Finish("ok") /\ UNCHANGED panicked
  \/ /\ ~Registered(p) /\ Finish("error")
     /\ UNCHANGED <<procs, enabled, subs, ringVars, sem, owed, panicked>>
-----------------------------------------------------------------------------
(* The commands of a process about its own notifications.                  *)

\* EnableNotification registers a process of section 0 on the way.
EnableNotification(p) ==
  \/ /\ Registered(p)
     /\ enabled' = [enabled EXCEPT ![p] = TRUE]
     /\ Finish("ok")
     /\ UNCHANGED <<procs, subs, ringVars, sem, owed, panicked>>
  \/ /\ ~Registered(p) /\ p \in Section0 /\ Len(procs) < MaxProcesses
     /\ procs' = <<p>> \o procs
     /\ enabled' = [enabled EXCEPT ![p] = TRUE]
     /\ Finish("ok")
     /\ UNCHANGED <<subs, ringVars, sem, owed, panicked>>
  \/ /\ ~Registered(p) /\ p \notin Section0
     /\ Finish("error")
     /\ UNCHANGED <<procs, enabled, subs, ringVars, sem, owed, panicked>>

RoomToSubscribe(p) == Cardinality(subs[p]) < MaxSubs

Subscribe(p, n) ==
  /\ \/ /\ Listens(p) /\ n \notin subs[p] /\ RoomToSubscribe(p)
        /\ subs' = [subs EXCEPT ![p] = @ \cup {n}]
        /\ Finish("ok")
     \/ /\ ~Listens(p) \/ n \in subs[p] \/ ~RoomToSubscribe(p)
        /\ Finish("error") /\ UNCHANGED subs
  /\ UNCHANGED <<procs, enabled, ringVars, sem, owed, panicked>>

Unsubscribe(p, n) ==
  /\ \/ /\ Listens(p) /\ n \in subs[p]
        /\ subs' = [subs EXCEPT ![p] = @ \ {n}]
        /\ Finish("ok")
     \/ /\ ~Listens(p) \/ n \notin subs[p]
        /\ Finish("error") /\ UNCHANGED subs
  /\ UNCHANGED <<procs, enabled, ringVars, sem, owed, panicked>>

\* The client's wait on its semaphore returns.
ClientWait(p) ==
  /\ ~panicked /\ Listens(p) /\ sem[p] > 0
  /\ sem' = [sem EXCEPT ![p] = @ - 1]
  /\ owed' = [owed EXCEPT ![p] = @ + 1]
  /\ UNCHANGED <<procs, enabled, subs, ringVars, got, result, panicked>>

\* ReceiveNotification.  Unless it polls, a client calls it once for each wait.
ReceiveNotification(p) ==
  /\ p \in Pollers \/ owed[p] > 0
  /\ owed' = [owed EXCEPT ![p] = IF @ > 0 THEN @ - 1 ELSE 0]
  /\ \/ /\ Listens(p) /\ nb[p] > 0
        /\ got' = ring[p][recv[p]] /\ result' = "ok"
        /\ nb' = [nb EXCEPT ![p] = @ - 1]
        /\ recv' = [recv EXCEPT ![p] = (@ + 1) % N]
     \/ /\ ~Listens(p) \/ nb[p] = 0
        /\ Finish("error") /\ UNCHANGED <<nb, recv>>
  /\ UNCHANGED <<procs, enabled, subs, ring, pend, sem, panicked>>
-----------------------------------------------------------------------------
(* Publication.  once is flags & 1, lossy flags & 2.                       *)

Listeners == {p \in Elems(procs) : enabled[p]}

AlreadyPending(p, n) == \E i \in 0 .. nb[p] - 1 : ring[p][(recv[p] + i) % N] = n

\* Mutant of Stores: the last slot is never used.
StoresUnlessLast(p, n, once) == ~(once /\ AlreadyPending(p, n)) /\ nb[p] < N - 1

\* Mutant of Stores: n is stored even when the ring buffer is full.
StoresAlways(p, n, once) == ~(once /\ AlreadyPending(p, n))

\* doPublishNotification stores n, or fails, or does neither.
Stores(p, n, once) == ~(once /\ AlreadyPending(p, n)) /\ nb[p] < N
Fails(p, n, once, lossy) == ~(once /\ AlreadyPending(p, n)) /\ nb[p] = N /\ ~lossy

\* Mutant of Push: the write index is not advanced.
PushInPlace(S, n) ==
  /\ ring' = [p \in Pids |-> IF p \in S THEN [ring[p] EXCEPT ![pend[p]] = n]
                                       ELSE ring[p]]
  /\ nb' = [p \in Pids |-> IF p \in S THEN nb[p] + 1 ELSE nb[p]]
  /\ sem' = [p \in Pids |-> IF p \in S THEN sem[p] + 1 ELSE sem[p]]
  /\ UNCHANGED <<pend, recv>>

\* Mutant of Push: the semaphore is released only when nothing was pending.
PushQuietly(S, n) ==
  /\ ring' = [p \in Pids |-> IF p \in S THEN [ring[p] EXCEPT ![pend[p]] = n]
                                       ELSE ring[p]]
  /\ pend' = [p \in Pids |-> IF p \in S THEN (pend[p] + 1) % N ELSE pend[p]]
  /\ nb' = [p \in Pids |-> IF p \in S THEN nb[p] + 1 ELSE nb[p]]
  /\ sem' = [p \in Pids |-> IF p \in S /\ nb[p] = 0 THEN sem[p] + 1 ELSE sem[p]]
  /\ UNCHANGED recv

\* n is stored for each process of S, and its semaphore released.
Push(S, n) ==
  /\ ring' = [p \in Pids |-> IF p \in S THEN [ring[p] EXCEPT ![pend[p]] = n]
                                       ELSE ring[p]]
  /\ pend' = [p \in Pids |-> IF p \in S THEN (pend[p] + 1) % N ELSE pend[p]]
  /\ nb' = [p \in Pids |-> IF p \in S THEN nb[p] + 1 ELSE nb[p]]
  /\ sem' = [p \in Pids |-> IF p \in S THEN sem[p] + 1 ELSE sem[p]]
  /\ UNCHANGED recv

\* The processes of targets that the loop over the list reaches before one for
\* which doPublishNotification fails.
Reached(targets, n, once, lossy) ==
  {procs[i] : i \in {k \in DOMAIN procs :
      /\ procs[k] \in targets
      /\ \A j \in 1 .. k : procs[j] \in targets => ~Fails(procs[j], n, once, lossy)}}

\* doPublishNotification for the processes of targets, in the order of the
\* list, up to the first for which it fails.  A semaphore that is at its limit
\* cannot be released: sm panics.
PublishTo(targets, n, once, lossy) ==
  LET stored == {p \in Reached(targets, n, once, lossy) : Stores(p, n, once)}
  IN /\ UNCHANGED <<procs, enabled, subs, owed>>
     /\ Finish(IF \E p \in targets : Fails(p, n, once, lossy) THEN "full" ELSE "ok")
     /\ \/ /\ \A p \in stored : sem[p] < N
           /\ Push(stored, n)
           /\ UNCHANGED panicked
        \/ /\ \E p \in stored : sem[p] >= N
           /\ panicked' = TRUE
           /\ UNCHANGED <<ringVars, sem>>

Subscribers(n) == {p \in Listeners : n \in subs[p]}

\* PublishToSubscriber, and PublishAndGetSubscriber with both flags clear.
PublishToSubscriber(n, once, lossy) == PublishTo(Subscribers(n), n, once, lossy)

PublishToAll(n) == PublishTo(Listeners, n, FALSE, FALSE)

PublishToProcess(p, n) ==
  \/ Listens(p) /\ PublishTo({p}, n, FALSE, FALSE)
  \/ /\ ~Listens(p) /\ Finish("error")
     /\ UNCHANGED <<procs, enabled, subs, ringVars, sem, owed, panicked>>
-----------------------------------------------------------------------------
ProcessCommand(p) ==
  \/ RegisterProcess(p) \/ UnregisterProcess(p) \/ EnableNotification(p)
  \/ ReceiveNotification(p)
  \/ \E n \in Ids : Subscribe(p, n) \/ Unsubscribe(p, n) \/ PublishToProcess(p, n)

PublishCommand ==
  \E n \in Ids :
     \/ \E once, lossy \in BOOLEAN : PublishToSubscriber(n, once, lossy)
     \/ PublishToAll(n)

Next ==
  \/ ~panicked /\ ((\E p \in Pids : ProcessCommand(p)) \/ PublishCommand)
  \/ \E p \in Pids : ClientWait(p)
  \/ panicked /\ UNCHANGED vars

Spec == Init /\ [][Next]_vars
-----------------------------------------------------------------------------
(* Properties.                                                             *)

\* Every variable has its type; the ring buffer and the array of subscriptions
\* are not overrun.
TypeOK ==
  /\ procs \in Seq(Pids)
  /\ enabled \in [Pids -> BOOLEAN]
  /\ subs \in [Pids -> SUBSET Ids]
  /\ \A p \in Pids : Cardinality(subs[p]) <= MaxSubs
  /\ ring \in [Pids -> [Slots -> Ids \cup {0}]]
  /\ recv \in [Pids -> Slots]
  /\ pend \in [Pids -> Slots]
  /\ nb \in [Pids -> 0 .. N]
  /\ sem \in [Pids -> 0 .. N]
  /\ owed \in [Pids -> Nat]
  /\ got \in Ids \cup {0}
  /\ result \in {"ok", "error", "full"}
  /\ panicked \in BOOLEAN

\* The two indices and the count agree: what is pending lies between them, and
\* it is never a slot that was not written.
RingConsistent ==
  \A p \in Pids :
     /\ pend[p] = (recv[p] + nb[p]) % N
     /\ \A i \in 0 .. nb[p] - 1 : ring[p][(recv[p] + i) % N] # 0

\* A client that waits on its semaphore before every receive has as many waits
\* before it, or behind it, as there are notifications pending: none is lost
\* and no wait is in vain (doPublishNotification releases once per entry).
SemCountsPending ==
  \A p \in Pids \ Pollers : sem[p] + owed[p] = nb[p]

\* Such clients never make sm release a semaphore beyond its limit, which
\* would be a panic (assertSuccess in doPublishNotification): behind a panic
\* there is a client that polls and has left its semaphore at the limit.
NeverPanics == panicked => \E p \in Pollers : sem[p] = N

\* When PublishToSubscriber succeeds and may not lose anything, every process
\* that subscribed and listens has the notification pending.
SuccessReachesAll ==
  [][\A n \in Ids, once \in BOOLEAN :
       (PublishToSubscriber(n, once, FALSE) /\ result' = "ok" /\ ~panicked') =>
          \A p \in Pids :
             Listens(p) /\ n \in subs[p] => n \in Elems(Pending(p)')]_vars

\* Only a process that has enabled notifications has any pending: the others
\* could never receive them.
PendingOnlyIfEnabled == \A p \in Pids : nb[p] > 0 => Listens(p)

\* The ring buffers implement bounded FIFO queues.
Queues == INSTANCE NotificationQueues WITH
  queue <- [p \in Pids |-> Pending(p)]

ImplementsQueues == Queues!QSpec
=============================================================================
