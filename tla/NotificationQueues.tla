------------------------- MODULE NotificationQueues -------------------------
(***************************************************************************)
(* What sm's notifications promise: every process has a bounded FIFO queue *)
(* of notification ids.  A publication reaches a set of processes that     *)
(* have room, each queue is emptied from its front, and a queue is dropped *)
(* with its process.                                                       *)
(***************************************************************************)
EXTENDS Naturals, Sequences

CONSTANTS Pids, Ids, N

VARIABLES queue,   \* per process: the pending notification ids
          got      \* the id the last successful receive returned, or 0

queueVars == <<queue, got>>

QInit == queue = [p \in Pids |-> <<>>] /\ got = 0

Publish(S, n) ==
  /\ \A p \in S : Len(queue[p]) < N
  /\ queue' = [p \in Pids |-> IF p \in S THEN Append(queue[p], n) ELSE queue[p]]
  /\ got' = 0

Receive(p) ==
  /\ queue[p] # <<>>
  /\ got' = Head(queue[p])
  /\ queue' = [queue EXCEPT ![p] = Tail(queue[p])]

DropQueue(p) ==
  /\ queue' = [queue EXCEPT ![p] = <<>>]
  /\ got' = 0

Other == got' = 0 /\ queue' = queue

QNext ==
  \/ Other
  \/ \E p \in Pids : Receive(p) \/ DropQueue(p)
  \/ \E S \in SUBSET Pids, n \in Ids : Publish(S, n)

QSpec == QInit /\ [][QNext]_queueVars
=============================================================================
