------------------------- MODULE SMStructuresProof --------------------------
(***************************************************************************)
(* Proofs about the data structures of sm: SMNotifications, for every set  *)
(* of processes, every size of the ring buffer and every number of         *)
(* notifications, and SMList, for every pool of nodes and every set of     *)
(* lists.                                                                  *)
(***************************************************************************)
EXTENDS SMNotifications, SMList, FiniteSetTheorems, SequenceTheorems,
        WellFoundedInduction, TLAPS

-----------------------------------------------------------------------------
(* Indices of a ring buffer of N entries.                                  *)

\* An index stays in the ring buffer.
LEMMA ModRange == \A a \in Nat : a % N \in Slots
  BY NAssumption DEF Slots

\* An index in the ring buffer is its own residue.
LEMMA ModSmall == \A a \in Slots : a % N = a
  BY NAssumption DEF Slots

\* An index that wraps around once.
LEMMA ModWrap == \A a \in N .. 2 * N - 1 : a % N = a - N
  BY NAssumption

\* Advancing first and counting on is the same as counting on from the next.
LEMMA ModNext ==
  ASSUME NEW a \in Slots, NEW i \in Slots
  PROVE  (((a + 1) % N) + i) % N = (a + (i + 1)) % N
<1>1. CASE a + 1 < N
  <2>1. a + 1 \in Slots
    BY <1>1, NAssumption DEF Slots
  <2>2. (a + 1) % N = a + 1
    BY <2>1, ModSmall
  <2> QED  BY <2>2 DEF Slots
<1>2. CASE a + 1 = N
  <2>1. (a + 1) % N = 0
    BY <1>2, ModWrap, NAssumption DEF Slots
  <2>2. (0 + i) % N = i
    BY ModSmall DEF Slots
  <2>3. (a + (i + 1)) % N = i
    <3>1. a + (i + 1) \in N .. 2 * N - 1
      BY <1>2, NAssumption DEF Slots
    <3> QED  BY <3>1, ModWrap, <1>2, NAssumption DEF Slots
  <2> QED  BY <2>1, <2>2, <2>3 DEF Slots
<1> QED  BY <1>1, <1>2, NAssumption DEF Slots

\* An offset of at most N from an index.
LEMMA ModOffset ==
  ASSUME NEW a \in Slots, NEW k \in 0 .. N
  PROVE  (a + k) % N = IF a + k < N THEN a + k ELSE a + k - N
<1>1. CASE a + k < N
  <2>1. a + k \in Slots
    BY <1>1, NAssumption DEF Slots
  <2> QED  BY <1>1, <2>1, ModSmall
<1>2. CASE a + k >= N
  <2>1. a + k \in N .. 2 * N - 1
    BY <1>2, NAssumption DEF Slots
  <2> QED  BY <1>2, <2>1, ModWrap, NAssumption DEF Slots
<1> QED  BY <1>1, <1>2, NAssumption DEF Slots

\* Two offsets below N from the same index are two different slots.
LEMMA ModDistinct ==
  ASSUME NEW a \in Slots, NEW i \in Slots, NEW j \in Slots, i # j
  PROVE  (a + i) % N # (a + j) % N
<1>1. i \in 0 .. N /\ j \in 0 .. N
  BY NAssumption DEF Slots
<1>2. (a + i) % N = IF a + i < N THEN a + i ELSE a + i - N
  BY <1>1, ModOffset
<1>3. (a + j) % N = IF a + j < N THEN a + j ELSE a + j - N
  BY <1>1, ModOffset
<1> QED  BY <1>2, <1>3, NAssumption DEF Slots

-----------------------------------------------------------------------------
(* Types.                                                                  *)

\* TypeOK needs the subscriptions to be finite sets to be inductive.
TypeInv == TypeOK /\ \A p \in Pids : IsFiniteSet(subs[p])

\* A list without its i-th element is a list of the other elements.
LEMMA WithoutIndexProperties ==
  ASSUME NEW S, NEW q \in Seq(S), NEW i \in DOMAIN q
  PROVE  /\ WithoutIndex(q, i) \in Seq(S)
         /\ \A x \in S : x \in Elems(q) /\ x # q[i] => x \in Elems(WithoutIndex(q, i))
<1> DEFINE a == SubSeq(q, 1, i - 1)
           b == SubSeq(q, i + 1, Len(q))
<1>1. i \in 1 .. Len(q) /\ Len(q) \in Nat
  OBVIOUS
<1>2. /\ a \in Seq(S) /\ Len(a) = i - 1
      /\ \A k \in 1 .. i - 1 : a[k] = q[k]
  BY <1>1
<1>3. /\ b \in Seq(S) /\ Len(b) = Len(q) - i
      /\ \A k \in 1 .. Len(q) - i : b[k] = q[k + i]
  BY <1>1
<1> HIDE DEF a, b
<1>4. /\ a \o b \in Seq(S) /\ Len(a \o b) = Len(q) - 1
      /\ \A k \in 1 .. Len(q) - 1 :
            (a \o b)[k] = IF k <= i - 1 THEN a[k] ELSE b[k - (i - 1)]
  <2>1. Len(a) + Len(b) = Len(q) - 1
    BY <1>1, <1>2, <1>3
  <2>2. a \in Seq(S) /\ b \in Seq(S) /\ Len(a) = i - 1
    BY <1>2, <1>3
  <2>3. /\ a \o b \in Seq(S) /\ Len(a \o b) = Len(a) + Len(b)
        /\ \A k \in 1 .. Len(a) + Len(b) :
              (a \o b)[k] = IF k <= Len(a) THEN a[k] ELSE b[k - Len(a)]
    BY <2>2, ConcatProperties
  <2> QED  BY <2>1, <2>2, <2>3
<1>5. ASSUME NEW x \in S, x \in Elems(q), x # q[i]
      PROVE  x \in Elems(a \o b)
  <2> DEFINE c == a \o b
  <2>1. PICK k \in 1 .. Len(q) : q[k] = x
    BY <1>5 DEF Elems
  <2>2. k # i /\ k \in Nat /\ DOMAIN c = 1 .. Len(q) - 1
    <3>1. q[i] # q[k]
      BY <2>1, <1>5
    <3>2. DOMAIN c = 1 .. Len(c)
      BY <1>4
    <3> QED  BY <2>1, <3>1, <3>2, <1>1, <1>4
  <2> HIDE DEF c
  <2>3. CASE k < i
    <3>1. k \in 1 .. Len(q) - 1 /\ k \in 1 .. i - 1 /\ k <= i - 1
      BY <2>1, <2>3, <1>1
    <3>2. c[k] = a[k] /\ a[k] = q[k]
      BY <3>1, <1>2, <1>4 DEF c
    <3> QED  BY <3>1, <3>2, <2>1, <2>2 DEF Elems, c
  <2>4. CASE k > i
    <3>1. k - 1 \in 1 .. Len(q) - 1 /\ ~(k - 1 <= i - 1) /\ k - i \in 1 .. Len(q) - i
      BY <2>1, <2>4, <1>1
    <3>2. c[k - 1] = b[(k - 1) - (i - 1)]
      BY <3>1, <1>4 DEF c
    <3>3. (k - 1) - (i - 1) = k - i /\ (k - i) + i = k
      BY <2>1, <1>1
    <3>4. b[k - i] = q[k]
      BY <3>1, <3>3, <1>3
    <3> QED  BY <3>1, <3>2, <3>3, <3>4, <2>1, <2>2 DEF Elems, c
  <2> QED  BY <2>1, <2>2, <2>3, <2>4, <1>1
<1> QED  BY <1>4, <1>5 DEF WithoutIndex, a, b

\* Clearing an entry keeps the types of what it clears.
LEMMA ClearType ==
  ASSUME TypeInv, NEW p \in Pids, Clear(p)
  PROVE  /\ enabled' \in [Pids -> BOOLEAN]
         /\ subs' \in [Pids -> SUBSET Ids]
         /\ \A q \in Pids : Cardinality(subs'[q]) <= MaxSubs /\ IsFiniteSet(subs'[q])
         /\ ring' \in [Pids -> [Slots -> Ids \cup {0}]]
         /\ recv' \in [Pids -> Slots] /\ pend' \in [Pids -> Slots]
         /\ nb' \in [Pids -> 0 .. N] /\ sem' \in [Pids -> 0 .. N]
         /\ owed' \in [Pids -> Nat]
<1>1. 0 \in Slots /\ 0 \in 0 .. N
  BY NAssumption DEF Slots
<1>2. [i \in Slots |-> 0] \in [Slots -> Ids \cup {0}]
  OBVIOUS
<1>3. Cardinality({}) = 0 /\ IsFiniteSet({})
  BY FS_EmptySet
<1> QED  BY <1>1, <1>2, <1>3, SubsAssumption DEF TypeInv, TypeOK, Clear

\* Storing a notification keeps the types of the ring buffers.
LEMMA PushType ==
  ASSUME TypeInv, NEW S \in SUBSET Pids, NEW n \in Ids, Push(S, n),
         \A p \in S : nb[p] < N /\ sem[p] < N
  PROVE  /\ ring' \in [Pids -> [Slots -> Ids \cup {0}]]
         /\ recv' \in [Pids -> Slots] /\ pend' \in [Pids -> Slots]
         /\ nb' \in [Pids -> 0 .. N] /\ sem' \in [Pids -> 0 .. N]
<1>1. \A a \in Slots : (a + 1) % N \in Slots
  BY ModRange, NAssumption DEF Slots
<1>2. \A p \in S : [ring[p] EXCEPT ![pend[p]] = n] \in [Slots -> Ids \cup {0}]
  BY DEF TypeInv, TypeOK
<1>3. \A p \in S : nb[p] + 1 \in 0 .. N /\ sem[p] + 1 \in 0 .. N
  BY NAssumption DEF TypeInv, TypeOK
<1> QED  BY <1>1, <1>2, <1>3 DEF TypeInv, TypeOK, Push

\* The processes a publication stores for are among its targets, and have room.
LEMMA StoredTargets ==
  ASSUME NEW targets, NEW n, NEW once, NEW lossy, TypeInv, targets \subseteq Pids,
         NEW p \in Reached(targets, n, once, lossy), Stores(p, n, once)
  PROVE  p \in targets /\ p \in Pids /\ nb[p] < N /\ Registered(p)
  BY DEF Reached, Stores, Registered, Elems

\* A publication keeps the types.
LEMMA PublishToType ==
  ASSUME TypeInv, NEW targets \in SUBSET Pids, NEW n \in Ids,
         NEW once \in BOOLEAN, NEW lossy \in BOOLEAN, PublishTo(targets, n, once, lossy)
  PROVE  TypeInv'
<1> DEFINE stored == {p \in Reached(targets, n, once, lossy) : Stores(p, n, once)}
<1>1. stored \in SUBSET Pids /\ \A p \in stored : nb[p] < N
  BY StoredTargets
<1>2. /\ UNCHANGED <<procs, enabled, subs, owed>>
      /\ result' \in {"ok", "error", "full"} /\ got' \in Ids \cup {0}
  BY DEF PublishTo, Finish
<1>3. CASE (\A p \in stored : sem[p] < N) /\ Push(stored, n) /\ UNCHANGED panicked
  BY <1>1, <1>2, <1>3, PushType DEF TypeInv, TypeOK
<1>4. CASE panicked' = TRUE /\ UNCHANGED <<ringVars, sem>>
  BY <1>2, <1>4 DEF TypeInv, TypeOK, ringVars
<1> QED  BY <1>3, <1>4 DEF PublishTo

\* Init and Next keep TypeInv.
LEMMA TypeInit == Init => TypeInv
<1> SUFFICES ASSUME Init PROVE TypeInv
  OBVIOUS
<1>1. 0 \in Slots /\ 0 \in 0 .. N
  BY NAssumption DEF Slots
<1>2. Cardinality({}) = 0 /\ IsFiniteSet({})
  BY FS_EmptySet
<1>3. procs \in Seq(Pids)
  BY DEF Init
<1>4. ring \in [Pids -> [Slots -> Ids \cup {0}]]
  BY DEF Init
<1>5. recv \in [Pids -> Slots] /\ pend \in [Pids -> Slots] /\ nb \in [Pids -> 0 .. N]
      /\ sem \in [Pids -> 0 .. N] /\ owed \in [Pids -> Nat]
  BY <1>1 DEF Init
<1>6. /\ subs \in [Pids -> SUBSET Ids]
      /\ \A p \in Pids : Cardinality(subs[p]) <= MaxSubs /\ IsFiniteSet(subs[p])
  BY <1>2, SubsAssumption DEF Init
<1> QED  BY <1>3, <1>4, <1>5, <1>6 DEF Init, TypeInv, TypeOK

LEMMA TypeStep == TypeInv /\ [Next]_vars => TypeInv'
<1> SUFFICES ASSUME TypeInv, [Next]_vars PROVE TypeInv'
  OBVIOUS
<1>1. ASSUME NEW p \in Pids, RegisterProcess(p) PROVE TypeInv'
  <2>1. <<p>> \o procs \in Seq(Pids)
    BY DEF TypeInv, TypeOK
  <2> QED  BY <1>1, <2>1, ClearType DEF RegisterProcess, TypeInv, TypeOK, Finish, ringVars
<1>2. ASSUME NEW p \in Pids, UnregisterProcess(p) PROVE TypeInv'
  <2>1. \A i \in DOMAIN procs : WithoutIndex(procs, i) \in Seq(Pids)
    BY WithoutIndexProperties DEF TypeInv, TypeOK
  <2> QED  BY <1>2, <2>1, ClearType DEF UnregisterProcess, TypeInv, TypeOK, Finish, ringVars
<1>3. ASSUME NEW p \in Pids, EnableNotification(p) PROVE TypeInv'
  <2>1. <<p>> \o procs \in Seq(Pids)
    BY DEF TypeInv, TypeOK
  <2> QED  BY <1>3, <2>1 DEF EnableNotification, TypeInv, TypeOK, Finish, ringVars
<1>4. ASSUME NEW p \in Pids, ReceiveNotification(p) PROVE TypeInv'
  <2> recv[p] \in Slots /\ ring[p] \in [Slots -> Ids \cup {0}]
    BY DEF TypeInv, TypeOK
  <2>1. (recv[p] + 1) % N \in Slots /\ ring[p][recv[p]] \in Ids \cup {0}
    <3>1. recv[p] + 1 \in Nat
      BY NAssumption DEF Slots
    <3> QED  BY <3>1, ModRange
  <2>2. owed[p] \in Nat /\ nb[p] \in 0 .. N
    BY DEF TypeInv, TypeOK
  <2>3. owed' \in [Pids -> Nat]
    BY <1>4, <2>2 DEF ReceiveNotification, TypeInv, TypeOK
  <2>4. /\ nb' \in [Pids -> 0 .. N] /\ recv' \in [Pids -> Slots]
        /\ got' \in Ids \cup {0} /\ result' \in {"ok", "error", "full"}
    <3>1. CASE /\ nb[p] > 0 /\ got' = ring[p][recv[p]] /\ result' = "ok"
               /\ nb' = [nb EXCEPT ![p] = @ - 1]
               /\ recv' = [recv EXCEPT ![p] = (@ + 1) % N]
      <4>1. nb[p] - 1 \in 0 .. N
        BY <3>1, <2>2, NAssumption
      <4> QED  BY <3>1, <4>1, <2>1 DEF TypeInv, TypeOK
    <3>2. CASE Finish("error") /\ UNCHANGED <<nb, recv>>
      BY <3>2 DEF TypeInv, TypeOK, Finish
    <3> QED  BY <1>4, <3>1, <3>2 DEF ReceiveNotification
  <2> QED  BY <1>4, <2>3, <2>4 DEF ReceiveNotification, TypeInv, TypeOK
<1>5. ASSUME NEW p \in Pids, NEW n \in Ids, Subscribe(p, n) PROVE TypeInv'
  <2>1. CASE n \notin subs[p] /\ RoomToSubscribe(p) /\ subs' = [subs EXCEPT ![p] = @ \cup {n}]
    <3>1. /\ IsFiniteSet(subs[p] \cup {n})
          /\ Cardinality(subs[p] \cup {n}) = Cardinality(subs[p]) + 1
      BY <2>1, FS_AddElement DEF TypeInv
    <3>2. Cardinality(subs[p]) \in Nat
      BY FS_CardinalityType DEF TypeInv
    <3>3. Cardinality(subs[p] \cup {n}) <= MaxSubs
      BY <1>5, <2>1, <3>1, <3>2, SubsAssumption DEF RoomToSubscribe, TypeInv, TypeOK
    <3>4. /\ subs' \in [Pids -> SUBSET Ids]
          /\ \A q \in Pids : Cardinality(subs'[q]) <= MaxSubs /\ IsFiniteSet(subs'[q])
      BY <2>1, <3>1, <3>3 DEF TypeInv, TypeOK
    <3> QED  BY <1>5, <3>4 DEF Subscribe, TypeInv, TypeOK, Finish, ringVars
  <2>2. CASE UNCHANGED subs
    BY <1>5, <2>2 DEF Subscribe, TypeInv, TypeOK, Finish, ringVars
  <2> QED  BY <1>5, <2>1, <2>2 DEF Subscribe
<1>6. ASSUME NEW p \in Pids, NEW n \in Ids, Unsubscribe(p, n) PROVE TypeInv'
  <2>1. CASE n \in subs[p] /\ subs' = [subs EXCEPT ![p] = @ \ {n}]
    <3>1. /\ IsFiniteSet(subs[p] \ {n})
          /\ Cardinality(subs[p] \ {n}) = Cardinality(subs[p]) - 1
      BY <2>1, FS_RemoveElement DEF TypeInv
    <3>2. Cardinality(subs[p]) \in Nat
      BY FS_CardinalityType DEF TypeInv
    <3>3. Cardinality(subs[p] \ {n}) <= MaxSubs
      BY <1>6, <2>1, <3>1, <3>2, SubsAssumption DEF TypeInv, TypeOK
    <3>4. /\ subs' \in [Pids -> SUBSET Ids]
          /\ \A q \in Pids : Cardinality(subs'[q]) <= MaxSubs /\ IsFiniteSet(subs'[q])
      BY <2>1, <3>1, <3>3 DEF TypeInv, TypeOK
    <3> QED  BY <1>6, <3>4 DEF Unsubscribe, TypeInv, TypeOK, Finish, ringVars
  <2>2. CASE UNCHANGED subs
    BY <1>6, <2>2 DEF Unsubscribe, TypeInv, TypeOK, Finish, ringVars
  <2> QED  BY <1>6, <2>1, <2>2 DEF Unsubscribe
<1>7. ASSUME NEW p \in Pids, NEW n \in Ids, PublishToProcess(p, n) PROVE TypeInv'
  <2>1. CASE PublishTo({p}, n, FALSE, FALSE)
    BY <2>1, PublishToType
  <2>2. CASE Finish("error")
             /\ UNCHANGED <<procs, enabled, subs, ringVars, sem, owed, panicked>>
    BY <2>2 DEF TypeInv, TypeOK, Finish, ringVars
  <2> QED  BY <1>7, <2>1, <2>2 DEF PublishToProcess
<1>8. Listeners \in SUBSET Pids
  BY DEF Listeners, Elems, TypeInv, TypeOK
<1>9. ASSUME NEW n \in Ids, NEW once \in BOOLEAN, NEW lossy \in BOOLEAN,
             PublishToSubscriber(n, once, lossy)
      PROVE  TypeInv'
  BY <1>8, <1>9, PublishToType DEF PublishToSubscriber, Subscribers
<1>10. ASSUME NEW n \in Ids, PublishToAll(n) PROVE TypeInv'
  BY <1>8, <1>10, PublishToType DEF PublishToAll
<1>11. ASSUME NEW p \in Pids, ClientWait(p) PROVE TypeInv'
  <2>1. sem[p] \in 0 .. N /\ owed[p] \in Nat
    BY DEF TypeInv, TypeOK
  <2>2. sem[p] - 1 \in 0 .. N
    BY <1>11, <2>1, NAssumption DEF ClientWait
  <2> QED  BY <1>11, <2>1, <2>2 DEF ClientWait, TypeInv, TypeOK, ringVars
<1>12. CASE UNCHANGED vars
  BY <1>12 DEF vars, ringVars, TypeInv, TypeOK
<1> QED  BY <1>1, <1>2, <1>3, <1>4, <1>5, <1>6, <1>7, <1>9, <1>10, <1>11, <1>12
         DEF Next, ProcessCommand, PublishCommand

\* Every variable has its type in every state: indices stay inside the ring
\* buffer, the counts stay within 16, the array of subscriptions within 17
\* (notifications.c).
THEOREM TypeCorrect == Spec => []TypeOK
<1>1. Spec => []TypeInv
  BY TypeInit, TypeStep, PTL DEF Spec
<1>2. TypeInv => TypeOK
  BY DEF TypeInv
<1> QED  BY <1>1, <1>2, PTL
-----------------------------------------------------------------------------
(* Waits and notifications.  That every wait is answered needs to know that *)
(* a process that is not listening has nothing pending.                     *)

SafeInv == PendingOnlyIfEnabled /\ SemCountsPending /\ NeverPanics

\* A process added to the front of the list leaves the others in it.
LEMMA PrependElems ==
  ASSUME NEW S, NEW q \in Seq(S), NEW p \in S
  PROVE  Elems(<<p>> \o q) = Elems(q) \cup {p}
<1>1. /\ <<p>> \o q \in Seq(S) /\ Len(<<p>> \o q) = Len(q) + 1
      /\ \A i \in 1 .. Len(q) + 1 :
            (<<p>> \o q)[i] = IF i <= 1 THEN p ELSE q[i - 1]
  <2>1. <<p>> \in Seq(S) /\ Len(<<p>>) = 1 /\ <<p>>[1] = p /\ Len(q) \in Nat
    OBVIOUS
  <2> HIDE DEF Elems
  <2>2. /\ <<p>> \o q \in Seq(S) /\ Len(<<p>> \o q) = Len(<<p>>) + Len(q)
        /\ \A i \in 1 .. Len(<<p>>) + Len(q) :
              (<<p>> \o q)[i] = IF i <= Len(<<p>>) THEN <<p>>[i] ELSE q[i - Len(<<p>>)]
    BY <2>1, ConcatProperties
  <2> QED  BY <2>1, <2>2
<1> DEFINE c == <<p>> \o q
<1>2. DOMAIN c = 1 .. Len(q) + 1 /\ DOMAIN q = 1 .. Len(q) /\ Len(q) \in Nat
  BY <1>1
<1>3. \A i \in 1 .. Len(q) + 1 : c[i] = IF i <= 1 THEN p ELSE q[i - 1]
  BY <1>1
<1> HIDE DEF c
<1>4. ASSUME NEW x \in Elems(c) PROVE x \in Elems(q) \cup {p}
  <2>1. PICK i \in 1 .. Len(q) + 1 : c[i] = x
    BY <1>2 DEF Elems
  <2>2. i <= 1 \/ i - 1 \in 1 .. Len(q)
    BY <1>2
  <2> QED  BY <1>2, <1>3, <2>1, <2>2 DEF Elems
<1>5. p \in Elems(c)
  <2>1. 1 \in 1 .. Len(q) + 1 /\ c[1] = p
    BY <1>2, <1>3
  <2> QED  BY <1>2, <2>1 DEF Elems
<1>6. ASSUME NEW x \in Elems(q) PROVE x \in Elems(c)
  <2>1. PICK i \in 1 .. Len(q) : q[i] = x
    BY <1>2 DEF Elems
  <2>2. i + 1 \in 1 .. Len(q) + 1 /\ ~(i + 1 <= 1) /\ (i + 1) - 1 = i
    BY <1>2
  <2>3. c[i + 1] = x
    BY <1>3, <2>1, <2>2
  <2> QED  BY <1>2, <2>2, <2>3 DEF Elems
<1> QED  BY <1>4, <1>5, <1>6 DEF c

\* A publication to listening processes adds one wait for each notification it
\* stores, and finds no semaphore at its limit.
LEMMA PublishToSafe ==
  ASSUME TypeInv, SafeInv, NEW targets \in SUBSET Pids, NEW n \in Ids,
         NEW once \in BOOLEAN, NEW lossy \in BOOLEAN,
         PublishTo(targets, n, once, lossy), \A p \in targets : Listens(p),
         ~panicked
  PROVE  SafeInv'
<1> DEFINE stored == {p \in Reached(targets, n, once, lossy) : Stores(p, n, once)}
<1>1. stored \in SUBSET Pids /\ \A p \in stored : nb[p] < N /\ Listens(p)
  BY StoredTargets
<1>2. UNCHANGED <<procs, enabled, subs, owed>>
  BY DEF PublishTo
<1>3. \A p \in Pids : sem[p] \in Nat /\ owed[p] \in Nat /\ nb[p] \in Nat
  BY DEF TypeInv, TypeOK
<1> HIDE DEF stored
<1>4. CASE Push(stored, n) /\ UNCHANGED panicked
  <2>1. \A p \in Pids : nb'[p] = (IF p \in stored THEN nb[p] + 1 ELSE nb[p])
    BY <1>4 DEF Push
  <2>2. \A p \in Pids : sem'[p] = (IF p \in stored THEN sem[p] + 1 ELSE sem[p])
    BY <1>4 DEF Push
  <2>3. PendingOnlyIfEnabled'
    BY <1>1, <1>2, <1>3, <2>1 DEF SafeInv, PendingOnlyIfEnabled, Listens, Registered
  <2>4. SemCountsPending'
    BY <1>2, <1>3, <2>1, <2>2 DEF SafeInv, SemCountsPending
  <2>5. NeverPanics'
    BY <1>4 DEF SafeInv, NeverPanics
  <2> QED  BY <2>3, <2>4, <2>5 DEF SafeInv
<1>5. CASE /\ \E p \in stored : sem[p] >= N
           /\ panicked' = TRUE /\ UNCHANGED <<ringVars, sem>>
  <2>1. PICK p \in stored : sem[p] >= N
    BY <1>5
  <2>2. nb[p] < N /\ sem[p] >= N /\ p \in Pids
    BY <1>1, <2>1
  <2>3. p \in Pollers /\ sem[p] = N
    <3>1. sem[p] = N
      BY <2>2, NAssumption DEF TypeInv, TypeOK
    <3>2. p \notin Pollers => sem[p] + owed[p] = nb[p]
      BY <2>2 DEF SafeInv, SemCountsPending
    <3> QED  BY <3>1, <3>2, <2>2, <1>3, NAssumption
  <2> QED  BY <1>2, <1>5, <2>3
           DEF SafeInv, PendingOnlyIfEnabled, SemCountsPending, NeverPanics,
               Listens, Registered, ringVars
<1> QED  BY <1>4, <1>5 DEF PublishTo, stored

LEMMA SafeInit == Init => SafeInv
<1> SUFFICES ASSUME Init PROVE SafeInv
  OBVIOUS
<1>1. \A p \in Pids : nb[p] = 0 /\ sem[p] = 0 /\ owed[p] = 0
  BY DEF Init
<1> QED  BY <1>1 DEF Init, SafeInv, PendingOnlyIfEnabled, SemCountsPending, NeverPanics

LEMMA SafeStep == TypeInv /\ SafeInv /\ [Next]_vars => SafeInv'
<1> SUFFICES ASSUME TypeInv, SafeInv, [Next]_vars PROVE SafeInv'
  OBVIOUS
<1> USE DEF SafeInv, PendingOnlyIfEnabled, SemCountsPending, NeverPanics
<1>h. CASE panicked
  <2>1. UNCHANGED vars
    BY <1>h DEF Next, ClientWait
  <2> QED  BY <2>1 DEF vars, ringVars, Listens, Registered
<1> SUFFICES ASSUME ~panicked PROVE SafeInv'
  BY <1>h
<1>a. ASSUME UNCHANGED <<procs, enabled, nb, sem, owed, panicked>> PROVE SafeInv'
  BY <1>a DEF Listens, Registered
<1>b. ASSUME NEW p \in Pids, Clear(p), UNCHANGED panicked,
             \A q \in Pids \ {p} : Registered(q) => Registered(q)'
      PROVE  SafeInv'
  <2>1. nb'[p] = 0 /\ sem'[p] = 0 /\ owed'[p] = 0
    BY <1>b DEF Clear, TypeInv, TypeOK
  <2>2. \A q \in Pids \ {p} : /\ nb'[q] = nb[q] /\ sem'[q] = sem[q]
                              /\ owed'[q] = owed[q] /\ enabled'[q] = enabled[q]
    BY <1>b DEF Clear, TypeInv, TypeOK
  <2>3. \A q \in Pids : nb'[q] > 0 => Listens(q)'
    BY <1>b, <2>1, <2>2 DEF Listens
  <2>4. \A q \in Pids \ Pollers : sem'[q] + owed'[q] = nb'[q]
    BY <2>1, <2>2
  <2> QED  BY <1>b, <2>3, <2>4
<1>1. ASSUME NEW p \in Pids, RegisterProcess(p) PROVE SafeInv'
  <2>1. CASE procs' = <<p>> \o procs /\ Clear(p) /\ UNCHANGED panicked
    <3>1. Elems(procs') = Elems(procs) \cup {p}
      BY <2>1, PrependElems DEF TypeInv, TypeOK
    <3> QED  BY <2>1, <3>1, <1>b DEF Registered
  <2>2. CASE UNCHANGED <<procs, enabled, subs, ringVars, sem, owed, panicked>>
    BY <2>2, <1>a DEF ringVars
  <2> QED  BY <1>1, <2>1, <2>2 DEF RegisterProcess
<1>2. ASSUME NEW p \in Pids, UnregisterProcess(p) PROVE SafeInv'
  <2>1. ASSUME NEW i \in DOMAIN procs, procs[i] = p, procs' = WithoutIndex(procs, i),
               Clear(p), UNCHANGED panicked
        PROVE  SafeInv'
    <3>1. \A q \in Pids : q \in Elems(procs) /\ q # p => q \in Elems(procs')
      BY <2>1, WithoutIndexProperties DEF TypeInv, TypeOK
    <3> QED  BY <2>1, <3>1, <1>b DEF Registered
  <2>2. CASE UNCHANGED <<procs, enabled, subs, ringVars, sem, owed, panicked>>
    BY <2>2, <1>a DEF ringVars
  <2> QED  BY <1>2, <2>1, <2>2 DEF UnregisterProcess
<1>3. ASSUME NEW p \in Pids, EnableNotification(p) PROVE SafeInv'
  <2>1. Elems(<<p>> \o procs) = Elems(procs) \cup {p}
    BY PrependElems DEF TypeInv, TypeOK
  <2>2. /\ \A q \in Pids : Listens(q) => Listens(q)'
        /\ UNCHANGED <<nb, sem, owed, panicked>>
    BY <1>3, <2>1 DEF EnableNotification, Listens, Registered, ringVars, TypeInv, TypeOK
  <2> QED  BY <2>2
<1>4. ASSUME NEW p \in Pids, ReceiveNotification(p) PROVE SafeInv'
  <2>1. /\ nb[p] \in Nat /\ owed[p] \in Nat /\ sem[p] \in Nat
        /\ UNCHANGED <<procs, enabled, sem, panicked>>
    BY <1>4 DEF ReceiveNotification, TypeInv, TypeOK
  <2>2. \A q \in Pids \ {p} : owed'[q] = owed[q] /\ nb'[q] = nb[q]
    BY <1>4 DEF ReceiveNotification, TypeInv, TypeOK
  <2>3. \A q \in Pids : nb'[q] > 0 => nb[q] > 0
    BY <1>4, <2>1, <2>2 DEF ReceiveNotification, TypeInv, TypeOK
  <2>4. ASSUME p \notin Pollers PROVE sem'[p] + owed'[p] = nb'[p]
    <3>1. owed[p] > 0 /\ sem[p] + owed[p] = nb[p]
      BY <1>4, <2>4 DEF ReceiveNotification
    <3>2. nb[p] > 0 /\ Listens(p)
      BY <2>1, <3>1
    <3>3. nb'[p] = nb[p] - 1 /\ owed'[p] = owed[p] - 1
      BY <1>4, <3>1, <3>2 DEF ReceiveNotification, TypeInv, TypeOK
    <3> QED  BY <2>1, <3>1, <3>3
  <2> QED  BY <2>1, <2>2, <2>3, <2>4 DEF Listens, Registered
<1>5. ASSUME NEW p \in Pids, NEW n \in Ids, Subscribe(p, n) \/ Unsubscribe(p, n)
      PROVE  SafeInv'
  BY <1>5, <1>a DEF Subscribe, Unsubscribe, ringVars
<1>6. ASSUME NEW p \in Pids, NEW n \in Ids, PublishToProcess(p, n) PROVE SafeInv'
  <2>1. CASE Listens(p) /\ PublishTo({p}, n, FALSE, FALSE)
    BY <2>1, PublishToSafe
  <2>2. CASE UNCHANGED <<procs, enabled, subs, ringVars, sem, owed, panicked>>
    BY <2>2, <1>a DEF ringVars
  <2> QED  BY <1>6, <2>1, <2>2 DEF PublishToProcess
<1>7. Listeners \in SUBSET Pids /\ \A p \in Listeners : Listens(p)
  BY DEF Listeners, Listens, Registered, Elems, TypeInv, TypeOK
<1>8. ASSUME NEW n \in Ids, NEW once \in BOOLEAN, NEW lossy \in BOOLEAN,
             PublishToSubscriber(n, once, lossy)
      PROVE  SafeInv'
  BY <1>7, <1>8, PublishToSafe DEF PublishToSubscriber, Subscribers
<1>9. ASSUME NEW n \in Ids, PublishToAll(n) PROVE SafeInv'
  BY <1>7, <1>9, PublishToSafe DEF PublishToAll
<1>10. ASSUME NEW p \in Pids, ClientWait(p) PROVE SafeInv'
  <2>1. /\ sem[p] \in Nat /\ owed[p] \in Nat /\ sem[p] > 0
        /\ UNCHANGED <<procs, enabled, nb, panicked>>
    BY <1>10 DEF ClientWait, TypeInv, TypeOK, ringVars
  <2>2. /\ sem'[p] = sem[p] - 1 /\ owed'[p] = owed[p] + 1
        /\ \A q \in Pids \ {p} : sem'[q] = sem[q] /\ owed'[q] = owed[q]
    BY <1>10 DEF ClientWait, TypeInv, TypeOK
  <2>3. \A q \in Pids \ Pollers : sem'[q] + owed'[q] = nb'[q]
    BY <2>1, <2>2
  <2> QED  BY <2>1, <2>3 DEF Listens, Registered
<1>11. CASE UNCHANGED vars
  BY <1>11, <1>a DEF vars, ringVars
<1> QED  BY <1>1, <1>2, <1>3, <1>4, <1>5, <1>6, <1>8, <1>9, <1>10, <1>11
         DEF Next, ProcessCommand, PublishCommand

\* A client that waits on its semaphore before each ReceiveNotification has
\* exactly one wait for every notification pending, and a process that is not
\* listening has none pending (doPublishNotification, ReceiveNotification).
THEOREM WaitsMatchNotifications == Spec => [](SemCountsPending /\ PendingOnlyIfEnabled)
<1>1. Spec => []SafeInv
  BY TypeInit, TypeStep, SafeInit, SafeStep, PTL DEF Spec
<1>2. SafeInv => SemCountsPending /\ PendingOnlyIfEnabled
  BY DEF SafeInv
<1> QED  BY <1>1, <1>2, PTL

\* With such clients, the assertion on svcReleaseSemaphore in
\* doPublishNotification never fails.
THEOREM PublishNeverPanics == Spec => []NeverPanics
<1>1. Spec => []SafeInv
  BY TypeInit, TypeStep, SafeInit, SafeStep, PTL DEF Spec
<1>2. SafeInv => NeverPanics
  BY DEF SafeInv
<1> QED  BY <1>1, <1>2, PTL
-----------------------------------------------------------------------------
(* The ring buffers are bounded FIFO queues.                               *)

\* The slot of the i-th oldest notification.
Slot(p, i) == (recv[p] + i) % N

\* What Pending needs: a step leaves the queue of p alone.
LEMMA SamePending ==
  ASSUME NEW p \in Pids, ring'[p] = ring[p], recv'[p] = recv[p], nb'[p] = nb[p]
  PROVE  Pending(p)' = Pending(p)
  BY DEF Pending

\* Storing a notification appends it to the queue, and the write index stays
\* nb slots ahead of the read index.
LEMMA PushAppends ==
  ASSUME TypeInv, RingConsistent, NEW S \in SUBSET Pids, NEW n \in Ids, Push(S, n),
         NEW p \in S, nb[p] < N
  PROVE  /\ Pending(p)' = Append(Pending(p), n)
         /\ pend'[p] = (recv'[p] + nb'[p]) % N
         /\ \A i \in 0 .. nb'[p] - 1 : ring'[p][(recv'[p] + i) % N] # 0
<1>1. /\ recv[p] \in Slots /\ nb[p] \in Nat /\ nb[p] \in Slots /\ pend[p] \in Slots
      /\ ring[p] \in [Slots -> Ids \cup {0}]
  BY NAssumption DEF TypeInv, TypeOK, Slots
<1>2. /\ ring'[p] = [ring[p] EXCEPT ![pend[p]] = n] /\ recv'[p] = recv[p]
      /\ nb'[p] = nb[p] + 1 /\ pend'[p] = (pend[p] + 1) % N
  BY DEF Push, TypeInv, TypeOK
<1>3. pend[p] = Slot(p, nb[p])
  BY DEF RingConsistent, Slot
<1>4. \A i \in 0 .. nb[p] - 1 : Slot(p, i) \in Slots /\ Slot(p, i) # pend[p]
  <2> TAKE i \in 0 .. nb[p] - 1
  <2>1. i \in Slots /\ i # nb[p]
    BY <1>1, NAssumption DEF Slots
  <2>2. recv[p] + i \in Nat
    BY <1>1, <2>1, NAssumption DEF Slots
  <2> QED  BY <1>1, <1>3, <2>1, <2>2, ModDistinct, ModRange DEF Slot
<1>5. /\ \A i \in 0 .. nb[p] - 1 : ring'[p][Slot(p, i)] = ring[p][Slot(p, i)]
      /\ ring'[p][Slot(p, nb[p])] = n
  BY <1>1, <1>2, <1>3, <1>4
<1>6. Pending(p)' = [i \in 1 .. nb[p] + 1 |-> ring'[p][Slot(p, i - 1)]]
  <2>1. \A i \in 1 .. nb[p] + 1 : (recv[p] + i - 1) % N = Slot(p, i - 1)
    BY <1>1 DEF Slot, Slots
  <2> QED  BY <1>2, <2>1 DEF Pending
<1>7. Pending(p) = [i \in 1 .. nb[p] |-> ring[p][Slot(p, i - 1)]]
  <2>1. \A i \in 1 .. nb[p] : (recv[p] + i - 1) % N = Slot(p, i - 1)
    BY <1>1 DEF Slot, Slots
  <2> QED  BY <2>1 DEF Pending
<1>8. Append(Pending(p), n) = [i \in 1 .. nb[p] + 1 |-> IF i = nb[p] + 1 THEN n
                                                        ELSE ring[p][Slot(p, i - 1)]]
  BY <1>1, <1>7
<1>9. \A i \in 1 .. nb[p] + 1 :
        ring'[p][Slot(p, i - 1)] = IF i = nb[p] + 1 THEN n ELSE ring[p][Slot(p, i - 1)]
  <2> TAKE i \in 1 .. nb[p] + 1
  <2>1. CASE i = nb[p] + 1
    <3>1. i - 1 = nb[p]
      BY <1>1, <2>1
    <3> QED  BY <1>5, <2>1, <3>1
  <2>2. CASE i # nb[p] + 1
    <3>1. i - 1 \in 0 .. nb[p] - 1
      BY <1>1, <2>2
    <3> QED  BY <1>5, <2>2, <3>1
  <2> QED  BY <2>1, <2>2
<1>10. pend'[p] = (recv'[p] + nb'[p]) % N
  <2>1. (pend[p] + 1) % N = (recv[p] + (nb[p] + 1)) % N
    <3>1. pend[p] = IF recv[p] + nb[p] < N THEN recv[p] + nb[p] ELSE recv[p] + nb[p] - N
      <4>1. pend[p] = (recv[p] + nb[p]) % N
        BY <1>3 DEF Slot
      <4>2. nb[p] \in 0 .. N
        BY <1>1, NAssumption
      <4>3. (recv[p] + nb[p]) % N = IF recv[p] + nb[p] < N THEN recv[p] + nb[p]
                                                          ELSE recv[p] + nb[p] - N
        BY <1>1, <4>2, ModOffset
      <4> QED  BY <4>1, <4>3
    <3>2. (pend[p] + 1) % N = IF pend[p] + 1 < N THEN pend[p] + 1 ELSE pend[p] + 1 - N
      BY <1>1, ModOffset, NAssumption
    <3>3. nb[p] + 1 \in 0 .. N
      BY <1>1, NAssumption DEF Slots
    <3>4. (recv[p] + (nb[p] + 1)) % N = IF recv[p] + (nb[p] + 1) < N THEN recv[p] + (nb[p] + 1)
                                       ELSE recv[p] + (nb[p] + 1) - N
      BY <1>1, <3>3, ModOffset
    <3>5. /\ recv[p] \in Nat /\ nb[p] \in Nat /\ N \in Nat
          /\ recv[p] < N /\ nb[p] < N
      BY <1>1, NAssumption DEF Slots
    <3>6. CASE recv[p] + nb[p] < N
      <4>1. pend[p] = recv[p] + nb[p]
        BY <3>1, <3>6
      <4>2. recv[p] + (nb[p] + 1) = pend[p] + 1
        BY <3>5, <4>1
      <4> QED  BY <4>2
    <3>7. CASE ~(recv[p] + nb[p] < N)
      <4>1. pend[p] = recv[p] + nb[p] - N
        BY <3>1, <3>7
      <4>2. pend[p] + 1 < N /\ ~(recv[p] + (nb[p] + 1) < N)
        BY <3>5, <3>7, <4>1
      <4>3. pend[p] + 1 = recv[p] + (nb[p] + 1) - N
        BY <3>5, <4>1
      <4>a. (pend[p] + 1) % N = pend[p] + 1
        BY <3>2, <4>2
      <4>b. (recv[p] + (nb[p] + 1)) % N = recv[p] + (nb[p] + 1) - N
        BY <3>4, <4>2
      <4> QED  BY <4>3, <4>a, <4>b
    <3> QED  BY <3>6, <3>7
  <2> QED  BY <1>2, <2>1
<1>11. ASSUME NEW i \in 0 .. nb'[p] - 1 PROVE ring'[p][(recv'[p] + i) % N] # 0
  <2>1. CASE i = nb[p]
    BY <1>2, <1>5, <2>1, IdsAssumption DEF Slot
  <2>2. CASE i # nb[p]
    <3>1. i \in 0 .. nb[p] - 1
      BY <1>1, <1>2, <2>2
    <3> QED  BY <1>2, <1>5, <3>1 DEF Slot, RingConsistent
  <2> QED  BY <2>1, <2>2
<1> QED  BY <1>6, <1>8, <1>9, <1>10, <1>11

\* Receiving takes the oldest notification off the queue.
LEMMA ReceivePops ==
  ASSUME TypeInv, RingConsistent, NEW p \in Pids, nb[p] > 0,
         recv' = [recv EXCEPT ![p] = (@ + 1) % N],
         nb' = [nb EXCEPT ![p] = @ - 1], UNCHANGED <<ring, pend>>
  PROVE  /\ Pending(p) # <<>>
         /\ Head(Pending(p)) = ring[p][recv[p]]
         /\ Pending(p)' = Tail(Pending(p))
         /\ pend'[p] = (recv'[p] + nb'[p]) % N
         /\ \A i \in 0 .. nb'[p] - 1 : ring'[p][(recv'[p] + i) % N] # 0
<1>1. recv[p] \in Slots /\ nb[p] \in 1 .. N /\ nb[p] - 1 \in Slots
  BY NAssumption DEF TypeInv, TypeOK, Slots
<1>2. recv'[p] = (recv[p] + 1) % N /\ nb'[p] = nb[p] - 1
  BY DEF TypeInv, TypeOK
<1>3. \A i \in Slots : (recv'[p] + i) % N = (recv[p] + (i + 1)) % N
  BY <1>1, <1>2, ModNext
<1>4. Pending(p) = [i \in 1 .. nb[p] |-> ring[p][Slot(p, i - 1)]]
  <2>1. \A i \in 1 .. nb[p] : (recv[p] + i - 1) % N = Slot(p, i - 1)
    BY <1>1 DEF Slot, Slots
  <2> QED  BY <2>1 DEF Pending
<1>5. Slot(p, 0) = recv[p]
  BY <1>1, ModSmall DEF Slot, Slots
<1>6. Pending(p) # <<>> /\ Head(Pending(p)) = ring[p][recv[p]]
  <2>1. Len(Pending(p)) = nb[p] /\ Pending(p)[1] = ring[p][Slot(p, 0)]
    BY <1>1, <1>4
  <2> QED  BY <1>1, <1>5, <2>1
<1>7. Tail(Pending(p)) = [i \in 1 .. nb[p] - 1 |-> ring[p][Slot(p, i)]]
  BY <1>1, <1>4
<1>8. Pending(p)' = [i \in 1 .. nb[p] - 1 |-> ring[p][Slot(p, i)]]
  <2>1. \A i \in 1 .. nb[p] - 1 : (recv'[p] + i - 1) % N = Slot(p, i)
    <3> TAKE i \in 1 .. nb[p] - 1
    <3>1. i - 1 \in Slots /\ recv'[p] \in Slots
      BY <1>1, <1>2, ModRange, NAssumption DEF Slots
    <3>2. (recv'[p] + (i - 1)) % N = (recv[p] + ((i - 1) + 1)) % N
      BY <1>3, <3>1
    <3> QED  BY <1>1, <3>1, <3>2 DEF Slot, Slots
  <2> QED  BY <1>2, <2>1 DEF Pending
<1>9. pend'[p] = (recv'[p] + nb'[p]) % N
  <2>1. (recv'[p] + (nb[p] - 1)) % N = (recv[p] + ((nb[p] - 1) + 1)) % N
    BY <1>1, <1>3
  <2>2. (nb[p] - 1) + 1 = nb[p]
    BY <1>1
  <2> QED  BY <1>2, <2>1, <2>2 DEF RingConsistent
<1>10. ASSUME NEW i \in 0 .. nb'[p] - 1 PROVE ring'[p][(recv'[p] + i) % N] # 0
  <2>1. i \in Slots /\ i + 1 \in 0 .. nb[p] - 1
    BY <1>1, <1>2, NAssumption DEF Slots
  <2> QED  BY <1>3, <2>1 DEF RingConsistent
<1> QED  BY <1>6, <1>7, <1>8, <1>9, <1>10

\* A queue that is cleared is empty.
LEMMA ClearEmpties ==
  ASSUME TypeInv, NEW p \in Pids, Clear(p)
  PROVE  /\ Pending(p)' = <<>>
         /\ pend'[p] = (recv'[p] + nb'[p]) % N
         /\ \A i \in 0 .. nb'[p] - 1 : ring'[p][(recv'[p] + i) % N] # 0
<1>1. nb'[p] = 0 /\ recv'[p] = 0 /\ pend'[p] = 0
  BY DEF Clear, TypeInv, TypeOK
<1>2. Pending(p)' = <<>>
  BY <1>1 DEF Pending
<1>3. (recv'[p] + nb'[p]) % N = 0
  BY <1>1, ModSmall, NAssumption DEF Slots
<1> QED  BY <1>1, <1>2, <1>3

\* What the abstract queues see of a step, and that the indices stay consistent.
StepMaps == RingConsistent' /\ [Queues!QNext]_(Queues!queueVars)

\* A step that leaves the ring buffers alone.
LEMMA RingsAlone ==
  ASSUME RingConsistent, UNCHANGED ringVars, got' = 0 \/ got' = got
  PROVE  StepMaps
<1>1. RingConsistent'
  BY DEF RingConsistent, ringVars
<1>2. \A p \in Pids : Pending(p)' = Pending(p)
  BY SamePending DEF ringVars
<1>3. [p \in Pids |-> Pending(p)]' = [p \in Pids |-> Pending(p)]
  BY <1>2
<1> QED  BY <1>1, <1>3 DEF StepMaps, Queues!QNext, Queues!Other, Queues!queueVars

\* A step that changes the ring buffer of one process.
LEMMA OneRing ==
  ASSUME RingConsistent, NEW p \in Pids,
         \A q \in Pids \ {p} : /\ ring'[q] = ring[q] /\ recv'[q] = recv[q]
                               /\ pend'[q] = pend[q] /\ nb'[q] = nb[q],
         pend'[p] = (recv'[p] + nb'[p]) % N,
         \A i \in 0 .. nb'[p] - 1 : ring'[p][(recv'[p] + i) % N] # 0
  PROVE  /\ RingConsistent'
         /\ [q \in Pids |-> Pending(q)]'
              = [[q \in Pids |-> Pending(q)] EXCEPT ![p] = Pending(p)']
<1>1. RingConsistent'
  BY DEF RingConsistent
<1>2. \A q \in Pids \ {p} : Pending(q)' = Pending(q)
  BY SamePending
<1> QED  BY <1>1, <1>2

LEMMA ClearMaps ==
  ASSUME TypeInv, RingConsistent, NEW p \in Pids, Clear(p), got' = 0
  PROVE  StepMaps
<1>1. \A q \in Pids \ {p} : /\ ring'[q] = ring[q] /\ recv'[q] = recv[q]
                            /\ pend'[q] = pend[q] /\ nb'[q] = nb[q]
  BY DEF Clear, TypeInv, TypeOK
<1>2. /\ RingConsistent'
      /\ [q \in Pids |-> Pending(q)]' = [[q \in Pids |-> Pending(q)] EXCEPT ![p] = <<>>]
  BY <1>1, ClearEmpties, OneRing
<1>3. Queues!DropQueue(p)
  BY <1>2 DEF Queues!DropQueue
<1> QED  BY <1>2, <1>3 DEF StepMaps, Queues!QNext

LEMMA ReceiveMaps ==
  ASSUME TypeInv, RingConsistent, NEW p \in Pids, ReceiveNotification(p)
  PROVE  StepMaps
<1>1. CASE /\ nb[p] > 0 /\ got' = ring[p][recv[p]]
           /\ nb' = [nb EXCEPT ![p] = @ - 1] /\ recv' = [recv EXCEPT ![p] = (@ + 1) % N]
  <2>1. UNCHANGED <<ring, pend>>
    BY DEF ReceiveNotification
  <2>2. \A q \in Pids \ {p} : /\ ring'[q] = ring[q] /\ recv'[q] = recv[q]
                              /\ pend'[q] = pend[q] /\ nb'[q] = nb[q]
    BY <1>1, <2>1 DEF TypeInv, TypeOK
  <2>3. /\ Pending(p) # <<>> /\ Head(Pending(p)) = ring[p][recv[p]]
        /\ Pending(p)' = Tail(Pending(p))
        /\ pend'[p] = (recv'[p] + nb'[p]) % N
        /\ \A i \in 0 .. nb'[p] - 1 : ring'[p][(recv'[p] + i) % N] # 0
    BY <1>1, <2>1, ReceivePops
  <2>4. /\ RingConsistent'
        /\ [q \in Pids |-> Pending(q)]'
             = [[q \in Pids |-> Pending(q)] EXCEPT ![p] = Tail(Pending(p))]
    BY <2>2, <2>3, OneRing
  <2>5. Queues!Receive(p)
    BY <1>1, <2>3, <2>4 DEF Queues!Receive
  <2> QED  BY <2>4, <2>5 DEF StepMaps, Queues!QNext
<1>2. CASE Finish("error") /\ UNCHANGED <<nb, recv>>
  <2>1. UNCHANGED ringVars /\ got' = 0
    BY <1>2 DEF ReceiveNotification, Finish, ringVars
  <2> QED  BY <2>1, RingsAlone
<1> QED  BY <1>1, <1>2 DEF ReceiveNotification

\* A publication appends to the queues of the processes it is stored for.
LEMMA PublishMaps ==
  ASSUME TypeInv, RingConsistent, NEW targets \in SUBSET Pids, NEW n \in Ids,
         NEW once \in BOOLEAN, NEW lossy \in BOOLEAN, PublishTo(targets, n, once, lossy)
  PROVE  StepMaps
<1> DEFINE stored == {p \in Reached(targets, n, once, lossy) : Stores(p, n, once)}
<1>1. stored \in SUBSET Pids /\ \A p \in stored : nb[p] < N
  BY StoredTargets DEF Stores
<1>2. got' = 0
  BY DEF PublishTo, Finish
<1>3. (Push(stored, n) \/ UNCHANGED ringVars)
  BY DEF PublishTo
<1> HIDE DEF stored
<1>4. CASE UNCHANGED ringVars
  BY <1>2, <1>4, RingsAlone
<1>5. CASE Push(stored, n)
  <2>1. \A p \in stored : /\ Pending(p)' = Append(Pending(p), n)
                          /\ pend'[p] = (recv'[p] + nb'[p]) % N
                          /\ \A i \in 0 .. nb'[p] - 1 : ring'[p][(recv'[p] + i) % N] # 0
    BY <1>1, <1>5, PushAppends
  <2>2. \A p \in Pids \ stored : /\ ring'[p] = ring[p] /\ recv'[p] = recv[p]
                                 /\ pend'[p] = pend[p] /\ nb'[p] = nb[p]
    BY <1>5 DEF Push
  <2>3. \A p \in Pids \ stored : Pending(p)' = Pending(p)
    BY <2>2, SamePending
  <2>4. RingConsistent'
    BY <2>1, <2>2 DEF RingConsistent
  <2>5. [p \in Pids |-> Pending(p)]'
          = [p \in Pids |-> IF p \in stored THEN Append(Pending(p), n) ELSE Pending(p)]
    BY <2>1, <2>3
  <2>6. \A p \in stored : Len(Pending(p)) < N
    BY <1>1 DEF Pending, TypeInv, TypeOK
  <2>7. Queues!Publish(stored, n)
    BY <1>1, <1>2, <2>5, <2>6 DEF Queues!Publish
  <2> QED  BY <1>1, <2>4, <2>7 DEF StepMaps, Queues!QNext
<1> QED  BY <1>3, <1>4, <1>5

LEMMA RingInit == Init => RingConsistent /\ Queues!QInit
<1> SUFFICES ASSUME Init PROVE RingConsistent /\ Queues!QInit
  OBVIOUS
<1>1. \A p \in Pids : nb[p] = 0 /\ recv[p] = 0 /\ pend[p] = 0
  BY DEF Init
<1>2. RingConsistent
  BY <1>1, ModSmall, NAssumption DEF RingConsistent, Slots
<1>3. \A p \in Pids : Pending(p) = <<>>
  BY <1>1 DEF Pending
<1> QED  BY <1>2, <1>3 DEF Queues!QInit, Init

LEMMA RingStep == TypeInv /\ RingConsistent /\ [Next]_vars => StepMaps
<1> SUFFICES ASSUME TypeInv, RingConsistent, [Next]_vars PROVE StepMaps
  OBVIOUS
<1>1. ASSUME NEW p \in Pids, RegisterProcess(p) \/ UnregisterProcess(p) PROVE StepMaps
  <2>1. got' = 0 /\ (Clear(p) \/ UNCHANGED ringVars)
    BY <1>1 DEF RegisterProcess, UnregisterProcess, Finish, ringVars
  <2> QED  BY <2>1, ClearMaps, RingsAlone
<1>2. ASSUME NEW p \in Pids, EnableNotification(p) PROVE StepMaps
  <2>1. got' = 0 /\ UNCHANGED ringVars
    BY <1>2 DEF EnableNotification, Finish, ringVars
  <2> QED  BY <2>1, RingsAlone
<1>3. ASSUME NEW p \in Pids, NEW n \in Ids, Subscribe(p, n) \/ Unsubscribe(p, n) PROVE StepMaps
  <2>1. got' = 0 /\ UNCHANGED ringVars
    BY <1>3 DEF Subscribe, Unsubscribe, Finish, ringVars
  <2> QED  BY <2>1, RingsAlone
<1>4. ASSUME NEW p \in Pids, NEW n \in Ids, PublishToProcess(p, n) PROVE StepMaps
  <2>1. CASE PublishTo({p}, n, FALSE, FALSE)
    BY <2>1, PublishMaps
  <2>2. CASE Finish("error")
             /\ UNCHANGED <<procs, enabled, subs, ringVars, sem, owed, panicked>>
    BY <2>2, RingsAlone DEF Finish
  <2> QED  BY <1>4, <2>1, <2>2 DEF PublishToProcess
<1>5. Listeners \in SUBSET Pids
  BY DEF Listeners, Elems, TypeInv, TypeOK
<1>6. ASSUME NEW n \in Ids, NEW once \in BOOLEAN, NEW lossy \in BOOLEAN,
             PublishToSubscriber(n, once, lossy)
      PROVE  StepMaps
  BY <1>5, <1>6, PublishMaps DEF PublishToSubscriber, Subscribers
<1>7. ASSUME NEW n \in Ids, PublishToAll(n) PROVE StepMaps
  BY <1>5, <1>7, PublishMaps DEF PublishToAll
<1>8. ASSUME NEW p \in Pids, ClientWait(p) PROVE StepMaps
  <2>1. got' = got /\ UNCHANGED ringVars
    BY <1>8 DEF ClientWait
  <2> QED  BY <2>1, RingsAlone
<1>9. CASE UNCHANGED vars
  BY <1>9, RingsAlone DEF vars
<1> QED  BY <1>1, <1>2, <1>3, <1>4, <1>6, <1>7, <1>8, <1>9, ReceiveMaps
         DEF Next, ProcessCommand, PublishCommand

\* The indices of every ring buffer agree with its count, and what lies between
\* them was written by a publication (doPublishNotification).
THEOREM RingsConsistent == Spec => []RingConsistent
<1>1. TypeInv /\ RingConsistent /\ [Next]_vars => RingConsistent'
  BY RingStep DEF StepMaps
<1> QED  BY <1>1, TypeInit, TypeStep, RingInit, PTL DEF Spec

\* Whatever the sizes, the ring buffers implement bounded FIFO queues: a
\* notification is received as often as it was stored, in that order.
THEOREM RingsImplementQueues == Spec => ImplementsQueues
<1>1. TypeInv /\ RingConsistent /\ [Next]_vars => RingConsistent'
  BY RingStep DEF StepMaps
<1>2. TypeInv /\ RingConsistent /\ [Next]_vars => [Queues!QNext]_(Queues!queueVars)
  BY RingStep DEF StepMaps
<1>3. Init => Queues!QInit
  BY RingInit
<1> QED  BY <1>1, <1>2, <1>3, TypeInit, TypeStep, RingInit, PTL
         DEF Spec, ImplementsQueues, Queues!QSpec
-----------------------------------------------------------------------------
(* Successful publications.                                                *)

\* What is stored, or was already there, is among what is pending.
LEMMA PendingElems ==
  ASSUME TypeInv, NEW p \in Pids, NEW n \in Ids, AlreadyPending(p, n)
  PROVE  n \in Elems(Pending(p))
<1>1. nb[p] \in Nat /\ recv[p] \in Nat
  BY NAssumption DEF TypeInv, TypeOK, Slots
<1>2. PICK i \in 0 .. nb[p] - 1 : ring[p][(recv[p] + i) % N] = n
  BY DEF AlreadyPending
<1>3. i + 1 \in 1 .. nb[p] /\ recv[p] + (i + 1) - 1 = recv[p] + i
  BY <1>1, <1>2
<1>4. DOMAIN Pending(p) = 1 .. nb[p] /\ Pending(p)[i + 1] = n
  BY <1>2, <1>3 DEF Pending
<1> QED  BY <1>3, <1>4 DEF Elems

\* A publication that fails for no subscriber comes to each.
LEMMA AllAreReached ==
  ASSUME NEW targets \in SUBSET Elems(procs), NEW n, NEW once, NEW lossy,
         \A p \in targets : ~Fails(p, n, once, lossy)
  PROVE  targets \subseteq Reached(targets, n, once, lossy)
BY DEF Reached, Elems

LEMMA SuccessStep ==
  ASSUME TypeInv, RingConsistent, NEW n \in Ids, NEW once \in BOOLEAN,
         PublishToSubscriber(n, once, FALSE), result' = "ok", ~panicked',
         NEW p \in Pids, Listens(p), n \in subs[p]
  PROVE  n \in Elems(Pending(p)')
<1> DEFINE targets == Subscribers(n)
           stored == {q \in Reached(targets, n, once, FALSE) : Stores(q, n, once)}
<1>1. PublishTo(targets, n, once, FALSE)
  BY DEF PublishToSubscriber
<1>2. \A q \in targets : ~Fails(q, n, once, FALSE)
  BY <1>1 DEF PublishTo, Finish
<1>3. p \in targets /\ targets \subseteq Elems(procs) /\ targets \subseteq Pids
  BY DEF Subscribers, Listeners, Listens, Registered, Elems, TypeInv, TypeOK
<1>4. p \in Reached(targets, n, once, FALSE)
  BY <1>2, <1>3, AllAreReached
<1>5. Push(stored, n)
  BY <1>1 DEF PublishTo
<1>6. stored \subseteq Pids /\ \A q \in stored : nb[q] < N
  BY <1>3, StoredTargets
<1>7. nb[p] \in 0 .. N
  BY DEF TypeInv, TypeOK
<1>8. CASE p \in stored
  <2> HIDE DEF stored
  <2>1. Pending(p)' = Append(Pending(p), n)
    BY <1>5, <1>6, <1>8, PushAppends
  <2>2. Pending(p) \in Seq(Ids \cup {0})
    <3>1. \A i \in 1 .. nb[p] : (recv[p] + i - 1) % N \in Slots
      <4>1. recv[p] \in Nat /\ nb[p] \in Nat /\ N \in Nat \ {0}
        BY <1>7, NAssumption DEF TypeInv, TypeOK, Slots
      <4>2. \A i \in 1 .. nb[p] : recv[p] + i - 1 \in Int
        BY <4>1
      <4> QED  BY <4>1, <4>2, ModRange DEF Slots
    <3>2. \A i \in 1 .. nb[p] : ring[p][(recv[p] + i - 1) % N] \in Ids \cup {0}
      BY <3>1 DEF TypeInv, TypeOK
    <3>3. Pending(p) \in [1 .. nb[p] -> Ids \cup {0}]
      BY <3>2 DEF Pending
    <3> HIDE DEF Pending
    <3>4. nb[p] \in Nat
      BY <1>7, NAssumption
    <3>5. [1 .. nb[p] -> Ids \cup {0}] \in {[1 .. k -> Ids \cup {0}] : k \in Nat}
      BY <3>4, Zenon
    <3> QED  BY <3>3, <3>5, SeqDef, Zenon
  <2>3. LET q == Append(Pending(p), n) IN Len(q) \in DOMAIN q /\ q[Len(q)] = n
    BY <2>2
  <2> QED  BY <2>1, <2>3 DEF Elems
<1>9. CASE p \notin stored
  <2>1. ~Stores(p, n, once)
    BY <1>4, <1>9
  <2>2. AlreadyPending(p, n)
    BY <1>2, <1>3, <1>7, <2>1, NAssumption DEF Stores, Fails
  <2> HIDE DEF stored
  <2>3. Pending(p)' = Pending(p)
    <3>1. ring'[p] = ring[p] /\ recv'[p] = recv[p] /\ nb'[p] = nb[p]
      BY <1>5, <1>9 DEF Push
    <3> QED  BY <3>1, SamePending
  <2> QED  BY <2>2, <2>3, PendingElems
<1> QED  BY <1>8, <1>9

\* Whatever the sizes, a publication to the subscribers of a notification that succeeds, and may
\* not lose any, leaves it pending for every process that subscribed and listens:
\* PublishToSubscriber fails at the first full ring buffer (notifications.c).
THEOREM SuccessMeansPending == Spec => SuccessReachesAll
<1>1. TypeInv /\ RingConsistent /\ [Next]_vars =>
        [\A n \in Ids, once \in BOOLEAN :
           (PublishToSubscriber(n, once, FALSE) /\ result' = "ok" /\ ~panicked') =>
              \A p \in Pids : Listens(p) /\ n \in subs[p] => n \in Elems(Pending(p)')]_vars
  BY SuccessStep
<1>2. Spec => []RingConsistent
  BY RingsConsistent
<1> QED  BY <1>1, <1>2, TypeInit, TypeStep, PTL DEF Spec, SuccessReachesAll
-----------------------------------------------------------------------------
(* The linked lists: places of nodes, and what the links say of them.      *)

\* The element at a place of a list, or NULL; and how many it has.
Item(s, i) == IF i \in DOMAIN s THEN s[i] ELSE Null
At(q, l, i) == Item(q[l], i)
Count(q, l) == Len(q[l])

NextOf(h, n) == h.next[n]
PrevOf(h, n) == h.prev[n]
ListOf(h, n) == h.parent[n]
FirstOf(h, l) == h.first[l]
LastOf(h, l) == h.last[l]

HeapFields(h) ==
  /\ DOMAIN h = {"prev", "next", "parent", "first", "last"}
  /\ DOMAIN h.prev = Pool /\ DOMAIN h.next = Pool /\ DOMAIN h.parent = Pool
  /\ DOMAIN h.first = Lists /\ DOMAIN h.last = Lists

\* The lists q hold nodes of P, and NULL where they end.
Places(q, P) ==
  \A l \in Lists :
     /\ Count(q, l) \in Nat
     /\ \A i \in Int : IF 1 <= i /\ i <= Count(q, l) THEN At(q, l, i) \in P ELSE At(q, l, i) = Null
RepeatsNone(q) ==
  \A l \in Lists : \A i \in Int :
     At(q, l, i) # Null => \A k \in Lists : \A j \in Int : At(q, k, j) = At(q, l, i) => k = l /\ j = i
\* The links h of the nodes P are those of the lists q.
HasAll(h, q, P) == \A n \in P : ListOf(h, n) \in Lists /\ \E i \in Int : At(q, ListOf(h, n), i) = n
Neighbours(h, q) ==
  \A l \in Lists : \A i \in Int :
     At(q, l, i) # Null => /\ NextOf(h, At(q, l, i)) = At(q, l, i + 1)
                           /\ PrevOf(h, At(q, l, i)) = At(q, l, i - 1)
                           /\ ListOf(h, At(q, l, i)) = l
Ends(h, q) == \A l \in Lists : FirstOf(h, l) = At(q, l, 1) /\ LastOf(h, l) = At(q, l, Count(q, l))
LinkedAs(h, q, P) == Places(q, P) /\ RepeatsNone(q) /\ HasAll(h, q, P) /\ Neighbours(h, q) /\ Ends(h, q)
-----------------------------------------------------------------------------
\* g is h without the links of n, and r is q without its element i of list src.
UnlinkedIs(g, h, n, src) ==
  /\ \A m \in Pool : /\ NextOf(g, m) = IF m = PrevOf(h, n) THEN NextOf(h, n) ELSE NextOf(h, m)
                     /\ PrevOf(g, m) = IF m = NextOf(h, n) THEN PrevOf(h, n) ELSE PrevOf(h, m)
                     /\ ListOf(g, m) = ListOf(h, m)
  /\ \A l \in Lists : /\ FirstOf(g, l) = IF l = src /\ FirstOf(h, l) = n THEN NextOf(h, n) ELSE FirstOf(h, l)
                      /\ LastOf(g, l) = IF l = src /\ LastOf(h, l) = n THEN PrevOf(h, n) ELSE LastOf(h, l)
WithoutPlace(r, q, src, i) ==
  \A l \in Lists : /\ Count(r, l) = IF l = src THEN Count(q, l) - 1 ELSE Count(q, l)
                   /\ \A j \in Int : At(r, l, j) = IF l = src /\ ~(j < i) THEN At(q, l, j + 1) ELSE At(q, l, j)

\* A node has one place in lists that repeat none.
LEMMA OnePlace ==
  ASSUME NEW q, RepeatsNone(q), NEW l \in Lists, NEW i \in Int, At(q, l, i) # Null,
         NEW k \in Lists, NEW j \in Int, At(q, k, j) = At(q, l, i)
  PROVE  k = l /\ j = i
BY DEF RepeatsNone

\* Unlinking the node at a place leaves the links of the lists without that place.
LEMMA UnlinkLinks ==
  ASSUME NEW P \in SUBSET Pool, NEW h, NEW q, LinkedAs(h, q, P), NEW src \in Lists, NEW i \in Int,
         1 <= i, i <= Count(q, src), NEW n, n = At(q, src, i),
         NEW g, UnlinkedIs(g, h, n, src), NEW r, WithoutPlace(r, q, src, i)
  PROVE  n \in P /\ LinkedAs(g, r, P \ {n})
<1>1. n \in P /\ n # Null /\ n \in Pool /\ Null \notin P
  BY NodesAssumption DEF LinkedAs, Places
<1>2. NextOf(h, n) = At(q, src, i + 1) /\ PrevOf(h, n) = At(q, src, i - 1) /\ ListOf(h, n) = src
  BY <1>1 DEF LinkedAs, Neighbours
<1>3. \A l \in Lists : \A j \in Int : At(q, l, j) = n => l = src /\ j = i
  BY <1>1 DEF LinkedAs, RepeatsNone
<1>4. Places(r, P \ {n})
  <2> SUFFICES ASSUME NEW l \in Lists
               PROVE  /\ Count(r, l) \in Nat
                      /\ \A j \in Int : IF 1 <= j /\ j <= Count(r, l) THEN At(r, l, j) \in P \ {n} ELSE At(r, l, j) = Null
    BY DEF Places
  <2>1. CASE l = src
    <3>1. Count(r, l) = Count(q, l) - 1 /\ Count(q, l) \in Nat /\ Count(r, l) \in Nat
      BY <2>1 DEF WithoutPlace, LinkedAs, Places
    <3>2. ASSUME NEW j \in Int
          PROVE  IF 1 <= j /\ j <= Count(r, l) THEN At(r, l, j) \in P \ {n} ELSE At(r, l, j) = Null
      BY <2>1, <3>1, <1>1, <1>3 DEF WithoutPlace, LinkedAs, Places
    <3> QED  BY <3>1, <3>2
  <2>2. CASE l # src
    BY <2>2, <1>1, <1>3 DEF WithoutPlace, LinkedAs, Places
  <2> QED  BY <2>1, <2>2
<1>5. RepeatsNone(r)
  <2> SUFFICES ASSUME NEW l \in Lists, NEW a \in Int, At(r, l, a) # Null,
                      NEW k \in Lists, NEW b \in Int, At(r, k, b) = At(r, l, a)
               PROVE  k = l /\ b = a
    BY DEF RepeatsNone
  <2>1. PICK aa \in Int : aa = IF l = src /\ ~(a < i) THEN a + 1 ELSE a
    OBVIOUS
  <2>2. PICK bb \in Int : bb = IF k = src /\ ~(b < i) THEN b + 1 ELSE b
    OBVIOUS
  <2>3. At(r, l, a) = At(q, l, aa) /\ At(r, k, b) = At(q, k, bb)
    BY <2>1, <2>2 DEF WithoutPlace
  <2>4. At(q, l, aa) # Null /\ At(q, k, bb) = At(q, l, aa) /\ RepeatsNone(q)
    BY <2>3 DEF LinkedAs
  <2>5. k = l /\ bb = aa
    BY <2>4, OnePlace
  <2> QED  BY <2>1, <2>2, <2>5
<1>6. HasAll(g, r, P \ {n})
  <2> SUFFICES ASSUME NEW m \in P \ {n}
               PROVE  ListOf(g, m) \in Lists /\ \E j \in Int : At(r, ListOf(g, m), j) = m
    BY DEF HasAll
  <2>1. ListOf(g, m) = ListOf(h, m) /\ ListOf(h, m) \in Lists
    BY DEF UnlinkedIs, LinkedAs, HasAll
  <2>2. PICK l \in Lists : l = ListOf(h, m)
    BY <2>1
  <2>3. PICK j \in Int : At(q, l, j) = m
    BY <2>2 DEF LinkedAs, HasAll
  <2>4. CASE l = src /\ ~(j < i)
    <3>1. j # i
      BY <2>3, <2>4, <1>1
    <3>2. ~(j - 1 < i) /\ (j - 1) + 1 = j /\ j - 1 \in Int
      BY <2>4, <3>1
    <3> QED  BY <2>1, <2>2, <2>3, <2>4, <3>2 DEF WithoutPlace
  <2>5. CASE ~(l = src /\ ~(j < i))
    BY <2>1, <2>2, <2>3, <2>5 DEF WithoutPlace
  <2> QED  BY <2>4, <2>5
<1>7. Neighbours(g, r)
  <2> SUFFICES ASSUME NEW l \in Lists, NEW j \in Int, At(r, l, j) # Null
               PROVE  /\ NextOf(g, At(r, l, j)) = At(r, l, j + 1)
                      /\ PrevOf(g, At(r, l, j)) = At(r, l, j - 1)
                      /\ ListOf(g, At(r, l, j)) = l
    BY DEF Neighbours
  <2>1. PICK k \in Int : k = IF l = src /\ ~(j < i) THEN j + 1 ELSE j
    OBVIOUS
  <2>2. PICK m : m = At(q, l, k)
    OBVIOUS
  <2>3. At(r, l, j) = m /\ m # Null /\ (l = src => k # i)
    BY <2>1, <2>2 DEF WithoutPlace
  <2>4. /\ NextOf(h, m) = At(q, l, k + 1) /\ PrevOf(h, m) = At(q, l, k - 1) /\ ListOf(h, m) = l
        /\ m \in Pool
    BY <2>2, <2>3 DEF LinkedAs, Neighbours, Places
  <2>5. ASSUME NEW x \in Int, m = At(q, src, x) PROVE l = src /\ x = k
    <3>1. At(q, l, k) # Null /\ At(q, src, x) = At(q, l, k) /\ RepeatsNone(q)
      BY <2>2, <2>3, <2>5 DEF LinkedAs
    <3> QED  BY <3>1, OnePlace
  <2>6. NextOf(g, m) = IF l = src /\ k = i - 1 THEN At(q, src, i + 1) ELSE At(q, l, k + 1)
    BY <1>2, <2>2, <2>4, <2>5 DEF UnlinkedIs
  <2>7. PrevOf(g, m) = IF l = src /\ k = i + 1 THEN At(q, src, i - 1) ELSE At(q, l, k - 1)
    BY <1>2, <2>2, <2>4, <2>5 DEF UnlinkedIs
  <2>8. At(r, l, j + 1) = IF l = src /\ ~(j + 1 < i) THEN At(q, l, j + 2) ELSE At(q, l, j + 1)
    <3>1. (j + 1) + 1 = j + 2 /\ j + 1 \in Int
      OBVIOUS
    <3> QED  BY <3>1 DEF WithoutPlace
  <2>9. At(r, l, j - 1) = IF l = src /\ ~(j - 1 < i) THEN At(q, l, j) ELSE At(q, l, j - 1)
    <3>1. (j - 1) + 1 = j /\ j - 1 \in Int
      OBVIOUS
    <3> QED  BY <3>1 DEF WithoutPlace
  <2>10. NextOf(g, m) = At(r, l, j + 1)
    BY <2>1, <2>3, <2>6, <2>8
  <2>11. PrevOf(g, m) = At(r, l, j - 1)
    BY <2>1, <2>3, <2>7, <2>9
  <2>12. ListOf(g, m) = l
    BY <2>4 DEF UnlinkedIs
  <2> QED  BY <2>3, <2>10, <2>11, <2>12
<1>8. Ends(g, r)
  <2> SUFFICES ASSUME NEW l \in Lists
               PROVE  FirstOf(g, l) = At(r, l, 1) /\ LastOf(g, l) = At(r, l, Count(r, l))
    BY DEF Ends
  <2>1. FirstOf(h, l) = At(q, l, 1) /\ LastOf(h, l) = At(q, l, Count(q, l)) /\ Count(q, l) \in Nat
    BY DEF LinkedAs, Ends, Places
  <2>2. CASE l # src
    BY <2>1, <2>2 DEF UnlinkedIs, WithoutPlace
  <2>3. CASE l = src
    <3>1. FirstOf(h, l) = n => i = 1
      BY <1>3, <2>1
    <3>2. FirstOf(g, l) = IF i = 1 THEN At(q, l, 2) ELSE At(q, l, 1)
      BY <3>1, <2>1, <2>3, <1>2 DEF UnlinkedIs
    <3>3. LastOf(h, l) = n => i = Count(q, l)
      <4>1. Count(q, l) \in Int
        BY <2>1
      <4> QED  BY <1>3, <2>1, <4>1
    <3>4. LastOf(g, l) = IF i = Count(q, l) THEN At(q, l, i - 1) ELSE At(q, l, Count(q, l))
      BY <3>3, <2>1, <2>3, <1>2 DEF UnlinkedIs
    <3>5. At(r, l, 1) = IF ~(1 < i) THEN At(q, l, 2) ELSE At(q, l, 1)
      <4>1. 1 + 1 = 2 /\ 1 \in Int
        OBVIOUS
      <4> QED  BY <4>1, <2>3 DEF WithoutPlace
    <3>6. Count(r, l) = Count(q, l) - 1 /\ Count(r, l) \in Int
      BY <2>1, <2>3 DEF WithoutPlace
    <3>7. At(r, l, Count(r, l)) = IF ~(Count(r, l) < i) THEN At(q, l, Count(r, l) + 1) ELSE At(q, l, Count(r, l))
      BY <2>3, <3>6 DEF WithoutPlace
    <3>8. FirstOf(g, l) = At(r, l, 1)
      BY <3>2, <3>5
    <3>9. LastOf(g, l) = At(r, l, Count(r, l))
      <4>1. Count(r, l) + 1 = Count(q, l)
        BY <2>1, <3>6
      <4> QED  BY <2>1, <2>3, <3>4, <3>6, <3>7, <4>1
    <3> QED  BY <3>8, <3>9
  <2> QED  BY <2>2, <2>3
<1> QED  BY <1>1, <1>4, <1>5, <1>6, <1>7, <1>8 DEF LinkedAs
-----------------------------------------------------------------------------
\* g is h with n linked in at the end of list dst, and r is q with n appended to it.
AppendedIs(g, h, n, dst) ==
  /\ \A m \in Pool : /\ NextOf(g, m) = IF m = n THEN Null ELSE IF m = LastOf(h, dst) THEN n ELSE NextOf(h, m)
                     /\ PrevOf(g, m) = IF m = n THEN LastOf(h, dst) ELSE PrevOf(h, m)
                     /\ ListOf(g, m) = IF m = n THEN dst ELSE ListOf(h, m)
  /\ \A l \in Lists : /\ FirstOf(g, l) = IF l = dst /\ FirstOf(h, l) = Null THEN n ELSE FirstOf(h, l)
                      /\ LastOf(g, l) = IF l = dst THEN n ELSE LastOf(h, l)
AppendedPlace(r, q, dst, n) ==
  \A l \in Lists : /\ Count(r, l) = IF l = dst THEN Count(q, l) + 1 ELSE Count(q, l)
                   /\ \A j \in Int : At(r, l, j) = IF l = dst /\ j = Count(q, l) + 1 THEN n ELSE At(q, l, j)

\* Linking a node in at the back leaves the links of the lists with the node appended.
LEMMA AppendLinks ==
  ASSUME NEW P \in SUBSET Pool, NEW h, NEW q, LinkedAs(h, q, P), NEW dst \in Lists, NEW n \in Pool \ P,
         NEW g, AppendedIs(g, h, n, dst), NEW r, AppendedPlace(r, q, dst, n)
  PROVE  LinkedAs(g, r, P \cup {n})
<1>1. n # Null /\ n \in Pool /\ Null \notin P /\ Null \notin Pool /\ n \notin P
  BY NodesAssumption
<1>2. PICK c \in Int : c = Count(q, dst) /\ c \in Nat /\ c + 1 \in Int /\ LastOf(h, dst) = At(q, dst, c)
  BY DEF LinkedAs, Places, Ends
<1>3. ASSUME NEW l \in Lists, NEW j \in Int PROVE At(q, l, j) # n /\ (At(q, l, j) # Null => At(q, l, j) \in P)
  BY <1>1 DEF LinkedAs, Places
<1>4. ASSUME NEW l \in Lists, NEW j \in Int PROVE At(r, l, j) = IF l = dst /\ j = c + 1 THEN n ELSE At(q, l, j)
  BY <1>2 DEF AppendedPlace
<1>5. Places(r, P \cup {n})
  <2> SUFFICES ASSUME NEW l \in Lists
               PROVE  /\ Count(r, l) \in Nat
                      /\ \A j \in Int : IF 1 <= j /\ j <= Count(r, l) THEN At(r, l, j) \in P \cup {n} ELSE At(r, l, j) = Null
    BY DEF Places
  <2>1. CASE l = dst
    <3>1. Count(r, l) = c + 1 /\ Count(r, l) \in Nat
      BY <1>2, <2>1 DEF AppendedPlace
    <3>2. \A j \in Int : IF 1 <= j /\ j <= c THEN At(q, l, j) \in P ELSE At(q, l, j) = Null
      BY <1>2, <2>1 DEF LinkedAs, Places
    <3>3. ASSUME NEW j \in Int
          PROVE  IF 1 <= j /\ j <= Count(r, l) THEN At(r, l, j) \in P \cup {n} ELSE At(r, l, j) = Null
      <4>1. At(r, l, j) = IF j = c + 1 THEN n ELSE At(q, l, j)
        BY <1>4, <2>1
      <4> QED  BY <4>1, <3>1, <3>2, <1>2
    <3> QED  BY <3>1, <3>3
  <2>2. CASE l # dst
    BY <2>2, <1>4 DEF AppendedPlace, LinkedAs, Places
  <2> QED  BY <2>1, <2>2
<1>6. RepeatsNone(r)
  <2> SUFFICES ASSUME NEW l \in Lists, NEW a \in Int, At(r, l, a) # Null,
                      NEW k \in Lists, NEW b \in Int, At(r, k, b) = At(r, l, a)
               PROVE  k = l /\ b = a
    BY DEF RepeatsNone
  <2>1. At(r, l, a) = IF l = dst /\ a = c + 1 THEN n ELSE At(q, l, a)
    BY <1>4
  <2>2. At(r, k, b) = IF k = dst /\ b = c + 1 THEN n ELSE At(q, k, b)
    BY <1>4
  <2>3. At(q, l, a) # n /\ At(q, k, b) # n
    BY <1>3
  <2>4. CASE At(r, l, a) = n
    BY <2>1, <2>2, <2>3, <2>4
  <2>5. CASE At(r, l, a) # n
    <3>1. At(q, l, a) # Null /\ At(q, k, b) = At(q, l, a) /\ RepeatsNone(q)
      BY <2>1, <2>2, <2>5 DEF LinkedAs
    <3> QED  BY <3>1, OnePlace
  <2> QED  BY <2>4, <2>5
<1>7. HasAll(g, r, P \cup {n})
  <2> SUFFICES ASSUME NEW m \in P \cup {n}
               PROVE  ListOf(g, m) \in Lists /\ \E j \in Int : At(r, ListOf(g, m), j) = m
    BY DEF HasAll
  <2>1. CASE m = n
    <3>1. ListOf(g, m) = dst /\ At(r, dst, c + 1) = n
      BY <2>1, <1>1, <1>2, <1>4 DEF AppendedIs
    <3> QED  BY <3>1, <2>1, <1>2
  <2>2. CASE m # n
    <3>1. m \in P /\ m \in Pool
      BY <2>2
    <3>2. ListOf(g, m) = ListOf(h, m) /\ ListOf(h, m) \in Lists
      BY <2>2, <3>1 DEF AppendedIs, LinkedAs, HasAll
    <3>3. PICK l \in Lists : l = ListOf(h, m)
      BY <3>2
    <3>4. PICK j \in Int : At(q, l, j) = m
      BY <3>1, <3>3 DEF LinkedAs, HasAll
    <3>5. ~(l = dst /\ j = c + 1)
      BY <3>1, <3>4, <1>1, <1>2 DEF LinkedAs, Places
    <3> QED  BY <3>2, <3>3, <3>4, <3>5, <1>4
  <2> QED  BY <2>1, <2>2
<1>8. Neighbours(g, r)
  <2> SUFFICES ASSUME NEW l \in Lists, NEW j \in Int, At(r, l, j) # Null
               PROVE  /\ NextOf(g, At(r, l, j)) = At(r, l, j + 1)
                      /\ PrevOf(g, At(r, l, j)) = At(r, l, j - 1)
                      /\ ListOf(g, At(r, l, j)) = l
    BY DEF Neighbours
  <2>1. PICK m : m = At(r, l, j)
    OBVIOUS
  <2>2. At(r, l, j + 1) = IF l = dst /\ j = c THEN n ELSE At(q, l, j + 1)
    <3>1. j + 1 \in Int /\ (j + 1 = c + 1 <=> j = c)
      BY <1>2
    <3> QED  BY <3>1, <1>4
  <2>3. At(r, l, j - 1) = IF l = dst /\ j = c + 2 THEN n ELSE At(q, l, j - 1)
    <3>1. j - 1 \in Int /\ (j - 1 = c + 1 <=> j = c + 2)
      BY <1>2
    <3> QED  BY <3>1, <1>4
  <2>4. m = IF l = dst /\ j = c + 1 THEN n ELSE At(q, l, j)
    BY <2>1, <1>4
  <2>5. CASE l = dst /\ j = c + 1
    <3>1. NextOf(g, n) = Null /\ PrevOf(g, n) = At(q, dst, c) /\ ListOf(g, n) = dst
      BY <1>1, <1>2 DEF AppendedIs
    <3>2. At(q, dst, j + 1) = Null
      BY <2>5, <1>2 DEF LinkedAs, Places
    <3>3. j - 1 = c /\ j # c /\ j # c + 2
      BY <2>5, <1>2
    <3> QED  BY <2>1, <2>2, <2>3, <2>4, <2>5, <3>1, <3>2, <3>3
  <2>6. CASE ~(l = dst /\ j = c + 1)
    <3>1. m = At(q, l, j) /\ m # Null /\ m # n /\ m \in Pool
      BY <2>1, <2>4, <2>6, <1>3
    <3>2. NextOf(h, m) = At(q, l, j + 1) /\ PrevOf(h, m) = At(q, l, j - 1) /\ ListOf(h, m) = l
      BY <3>1 DEF LinkedAs, Neighbours
    <3>3. m = At(q, dst, c) => l = dst /\ j = c
      <4> SUFFICES ASSUME m = At(q, dst, c) PROVE dst = l /\ c = j
        OBVIOUS
      <4>1. At(q, l, j) # Null /\ At(q, dst, c) = At(q, l, j) /\ RepeatsNone(q)
        BY <3>1 DEF LinkedAs
      <4> QED  BY <4>1, <1>2, OnePlace
    <3>4. NextOf(g, m) = IF l = dst /\ j = c THEN n ELSE At(q, l, j + 1)
      BY <3>1, <3>2, <3>3, <1>2 DEF AppendedIs
    <3>5. PrevOf(g, m) = At(q, l, j - 1) /\ ListOf(g, m) = l
      BY <3>1, <3>2 DEF AppendedIs
    <3>6. ~(l = dst /\ j = c + 2)
      BY <3>1, <1>2 DEF LinkedAs, Places
    <3> QED  BY <2>1, <2>2, <2>3, <3>4, <3>5, <3>6
  <2> QED  BY <2>5, <2>6
<1>9. Ends(g, r)
  <2> SUFFICES ASSUME NEW l \in Lists
               PROVE  FirstOf(g, l) = At(r, l, 1) /\ LastOf(g, l) = At(r, l, Count(r, l))
    BY DEF Ends
  <2>1. FirstOf(h, l) = At(q, l, 1) /\ LastOf(h, l) = At(q, l, Count(q, l)) /\ Count(q, l) \in Nat
    BY DEF LinkedAs, Ends, Places
  <2>2. At(r, l, 1) = IF l = dst /\ c = 0 THEN n ELSE At(q, l, 1)
    <3>1. 1 \in Int /\ (1 = c + 1 <=> c = 0)
      BY <1>2
    <3> QED  BY <3>1, <1>4
  <2>3. CASE l # dst
    <3>1. Count(r, l) = Count(q, l) /\ Count(q, l) \in Int
      BY <2>1, <2>3 DEF AppendedPlace
    <3>2. At(r, l, Count(q, l)) = At(q, l, Count(q, l))
      BY <3>1, <2>3, <1>4
    <3> QED  BY <2>1, <2>2, <2>3, <3>1, <3>2 DEF AppendedIs
  <2>4. CASE l = dst
    <3>1. Count(r, l) = c + 1 /\ At(r, l, c + 1) = n
      BY <2>4, <1>2, <1>4 DEF AppendedPlace
    <3>2. At(q, dst, 1) = Null <=> c = 0
      BY <1>1, <1>2 DEF LinkedAs, Places
    <3>3. FirstOf(g, l) = At(r, l, 1)
      BY <2>1, <2>2, <2>4, <3>2 DEF AppendedIs
    <3>4. LastOf(g, l) = n
      BY <2>4 DEF AppendedIs
    <3> QED  BY <3>1, <3>3, <3>4
  <2> QED  BY <2>3, <2>4
<1> QED  BY <1>5, <1>6, <1>7, <1>8, <1>9 DEF LinkedAs

\* The same at the front.
PrependedIs(g, h, n, dst) ==
  /\ \A m \in Pool : /\ NextOf(g, m) = IF m = n THEN FirstOf(h, dst) ELSE NextOf(h, m)
                     /\ PrevOf(g, m) = IF m = n THEN Null ELSE IF m = FirstOf(h, dst) THEN n ELSE PrevOf(h, m)
                     /\ ListOf(g, m) = IF m = n THEN dst ELSE ListOf(h, m)
  /\ \A l \in Lists : /\ FirstOf(g, l) = IF l = dst THEN n ELSE FirstOf(h, l)
                      /\ LastOf(g, l) = IF l = dst /\ LastOf(h, l) = Null THEN n ELSE LastOf(h, l)
PrependedPlace(r, q, dst, n) ==
  \A l \in Lists : /\ Count(r, l) = IF l = dst THEN Count(q, l) + 1 ELSE Count(q, l)
                   /\ \A j \in Int : At(r, l, j) = IF l = dst THEN IF j = 1 THEN n ELSE At(q, l, j - 1)
                                                   ELSE At(q, l, j)

\* Linking a node in at the front leaves the links of the lists with the node prepended.
LEMMA PrependLinks ==
  ASSUME NEW P \in SUBSET Pool, NEW h, NEW q, LinkedAs(h, q, P), NEW dst \in Lists, NEW n \in Pool \ P,
         NEW g, PrependedIs(g, h, n, dst), NEW r, PrependedPlace(r, q, dst, n)
  PROVE  LinkedAs(g, r, P \cup {n})
<1>1. n # Null /\ n \in Pool /\ Null \notin P /\ Null \notin Pool /\ n \notin P
  BY NodesAssumption
<1>2. PICK c \in Nat : c = Count(q, dst)
  BY DEF LinkedAs, Places
<1>3. ASSUME NEW l \in Lists, NEW j \in Int PROVE At(q, l, j) # n /\ (At(q, l, j) # Null => At(q, l, j) \in P)
  BY <1>1 DEF LinkedAs, Places
<1>4. ASSUME NEW l \in Lists, NEW j \in Int
      PROVE  At(r, l, j) = IF l = dst THEN IF j = 1 THEN n ELSE At(q, l, j - 1) ELSE At(q, l, j)
  BY DEF PrependedPlace
<1>5. ASSUME NEW j \in Int PROVE IF 1 <= j /\ j <= c THEN At(q, dst, j) \in P ELSE At(q, dst, j) = Null
  BY <1>2 DEF LinkedAs, Places
<1>6. Places(r, P \cup {n})
  <2> SUFFICES ASSUME NEW l \in Lists
               PROVE  /\ Count(r, l) \in Nat
                      /\ \A j \in Int : IF 1 <= j /\ j <= Count(r, l) THEN At(r, l, j) \in P \cup {n} ELSE At(r, l, j) = Null
    BY DEF Places
  <2>1. CASE l = dst
    <3>1. Count(r, l) = c + 1 /\ Count(r, l) \in Nat
      BY <1>2, <2>1 DEF PrependedPlace
    <3>2. ASSUME NEW j \in Int
          PROVE  IF 1 <= j /\ j <= Count(r, l) THEN At(r, l, j) \in P \cup {n} ELSE At(r, l, j) = Null
      <4>1. At(r, l, j) = IF j = 1 THEN n ELSE At(q, dst, j - 1)
        BY <1>4, <2>1
      <4>2. IF 1 <= j - 1 /\ j - 1 <= c THEN At(q, dst, j - 1) \in P ELSE At(q, dst, j - 1) = Null
        BY <1>5
      <4> QED  BY <4>1, <4>2, <3>1, <1>2
    <3> QED  BY <3>1, <3>2
  <2>2. CASE l # dst
    BY <2>2, <1>4 DEF PrependedPlace, LinkedAs, Places
  <2> QED  BY <2>1, <2>2
<1>7. RepeatsNone(r)
  <2> SUFFICES ASSUME NEW l \in Lists, NEW a \in Int, At(r, l, a) # Null,
                      NEW k \in Lists, NEW b \in Int, At(r, k, b) = At(r, l, a)
               PROVE  k = l /\ b = a
    BY DEF RepeatsNone
  <2>1. PICK aa \in Int : aa = IF l = dst THEN a - 1 ELSE a
    OBVIOUS
  <2>2. PICK bb \in Int : bb = IF k = dst THEN b - 1 ELSE b
    OBVIOUS
  <2>3. At(r, l, a) = IF l = dst /\ a = 1 THEN n ELSE At(q, l, aa)
    BY <2>1, <1>4
  <2>4. At(r, k, b) = IF k = dst /\ b = 1 THEN n ELSE At(q, k, bb)
    BY <2>2, <1>4
  <2>5. At(q, l, aa) # n /\ At(q, k, bb) # n
    BY <1>3
  <2>6. CASE At(r, l, a) = n
    BY <2>3, <2>4, <2>5, <2>6
  <2>7. CASE At(r, l, a) # n
    <3>1. At(q, l, aa) # Null /\ At(q, k, bb) = At(q, l, aa) /\ RepeatsNone(q)
      BY <2>3, <2>4, <2>7 DEF LinkedAs
    <3>2. k = l /\ bb = aa
      BY <3>1, OnePlace
    <3> QED  BY <3>2, <2>1, <2>2
  <2> QED  BY <2>6, <2>7
<1>8. HasAll(g, r, P \cup {n})
  <2> SUFFICES ASSUME NEW m \in P \cup {n}
               PROVE  ListOf(g, m) \in Lists /\ \E j \in Int : At(r, ListOf(g, m), j) = m
    BY DEF HasAll
  <2>1. CASE m = n
    <3>1. ListOf(g, m) = dst /\ At(r, dst, 1) = n
      BY <2>1, <1>1, <1>4 DEF PrependedIs
    <3> QED  BY <3>1, <2>1
  <2>2. CASE m # n
    <3>1. m \in P /\ m \in Pool
      BY <2>2
    <3>2. ListOf(g, m) = ListOf(h, m) /\ ListOf(h, m) \in Lists
      BY <2>2, <3>1 DEF PrependedIs, LinkedAs, HasAll
    <3>3. PICK l \in Lists : l = ListOf(h, m)
      BY <3>2
    <3>4. PICK j \in Int : At(q, l, j) = m
      BY <3>1, <3>3 DEF LinkedAs, HasAll
    <3>5. CASE l = dst
      <4>1. j + 1 \in Int /\ (j + 1) - 1 = j /\ j + 1 # 1
        <5>1. j # 0
          BY <3>1, <3>4, <3>5, <1>1, <1>5
        <5> QED  BY <5>1
      <4>2. At(r, l, j + 1) = m
        BY <4>1, <3>4, <3>5, <1>4
      <4> QED  BY <4>1, <4>2, <3>2, <3>3
    <3>6. CASE l # dst
      BY <3>2, <3>3, <3>4, <3>6, <1>4
    <3> QED  BY <3>5, <3>6
  <2> QED  BY <2>1, <2>2
<1>9. Neighbours(g, r)
  <2> SUFFICES ASSUME NEW l \in Lists, NEW j \in Int, At(r, l, j) # Null
               PROVE  /\ NextOf(g, At(r, l, j)) = At(r, l, j + 1)
                      /\ PrevOf(g, At(r, l, j)) = At(r, l, j - 1)
                      /\ ListOf(g, At(r, l, j)) = l
    BY DEF Neighbours
  <2>1. PICK m : m = At(r, l, j)
    OBVIOUS
  <2>2. FirstOf(h, dst) = At(q, dst, 1)
    BY DEF LinkedAs, Ends
  <2>3. CASE l # dst
    <3>1. m = At(q, l, j) /\ m # Null /\ At(r, l, j + 1) = At(q, l, j + 1) /\ At(r, l, j - 1) = At(q, l, j - 1)
      BY <2>1, <2>3, <1>4
    <3>2. m # n /\ m \in Pool
      BY <3>1, <1>3
    <3>3. NextOf(h, m) = At(q, l, j + 1) /\ PrevOf(h, m) = At(q, l, j - 1) /\ ListOf(h, m) = l
      BY <3>1 DEF LinkedAs, Neighbours
    <3>4. m # At(q, dst, 1)
      <4> SUFFICES ASSUME m = At(q, dst, 1) PROVE dst = l /\ 1 = j
        BY <2>3
      <4>1. At(q, l, j) # Null /\ At(q, dst, 1) = At(q, l, j) /\ RepeatsNone(q)
        BY <3>1 DEF LinkedAs
      <4> QED  BY <4>1, OnePlace
    <3> QED  BY <2>1, <2>2, <3>1, <3>2, <3>3, <3>4 DEF PrependedIs
  <2>4. CASE l = dst /\ j = 1
    <3>1. NextOf(g, n) = At(q, dst, 1) /\ PrevOf(g, n) = Null /\ ListOf(g, n) = dst
      BY <1>1, <2>2 DEF PrependedIs
    <3>2. j + 1 \in Int /\ j - 1 \in Int /\ j + 1 # 1 /\ j - 1 # 1 /\ (j + 1) - 1 = 1 /\ (j - 1) - 1 = -1 /\ -1 \in Int
      BY <2>4
    <3>3. At(r, l, j + 1) = At(q, dst, 1) /\ At(r, l, j - 1) = At(q, dst, -1)
      BY <2>4, <3>2, <1>4
    <3>4. At(q, dst, -1) = Null
      BY <3>2, <1>5
    <3>5. At(r, l, j) = n
      BY <2>4, <1>4
    <3> QED  BY <2>4, <3>1, <3>3, <3>4, <3>5
  <2>5. CASE l = dst /\ j # 1
    <3>1. m = At(q, l, j - 1) /\ m # Null /\ j - 1 \in Int
      BY <2>1, <2>5, <1>4
    <3>2. m # n /\ m \in Pool
      BY <3>1, <1>3
    <3>3. PICK i \in Int : i = j - 1
      OBVIOUS
    <3>4. NextOf(h, m) = At(q, l, i + 1) /\ PrevOf(h, m) = At(q, l, i - 1) /\ ListOf(h, m) = l
      BY <3>1, <3>3 DEF LinkedAs, Neighbours
    <3>5. 1 <= i
      BY <3>1, <3>3, <2>5, <1>5
    <3>6. i + 1 = j /\ j + 1 \in Int /\ j + 1 # 1 /\ (j + 1) - 1 = j
      BY <3>3, <3>5
    <3>7. At(r, l, j + 1) = At(q, l, i + 1)
      BY <3>6, <2>5, <1>4
    <3>8. At(r, l, j - 1) = IF i = 1 THEN n ELSE At(q, l, i - 1)
      BY <3>3, <2>5, <1>4
    <3>9. m = At(q, dst, 1) <=> i = 1
      <4>1. ASSUME m = At(q, dst, 1) PROVE dst = l /\ 1 = i
        <5>1. At(q, l, i) # Null /\ At(q, dst, 1) = At(q, l, i) /\ RepeatsNone(q)
          BY <3>1, <3>3, <4>1 DEF LinkedAs
        <5> QED  BY <5>1, OnePlace
      <4> QED  BY <4>1, <3>1, <3>3, <2>5
    <3>10. NextOf(g, m) = NextOf(h, m) /\ ListOf(g, m) = ListOf(h, m)
      BY <3>2 DEF PrependedIs
    <3>11. PrevOf(g, m) = IF i = 1 THEN n ELSE At(q, l, i - 1)
      BY <3>2, <3>4, <3>9, <2>2 DEF PrependedIs
    <3> QED  BY <2>1, <3>4, <3>7, <3>8, <3>10, <3>11
  <2> QED  BY <2>3, <2>4, <2>5
<1>10. Ends(g, r)
  <2> SUFFICES ASSUME NEW l \in Lists
               PROVE  FirstOf(g, l) = At(r, l, 1) /\ LastOf(g, l) = At(r, l, Count(r, l))
    BY DEF Ends
  <2>1. FirstOf(h, l) = At(q, l, 1) /\ LastOf(h, l) = At(q, l, Count(q, l)) /\ Count(q, l) \in Int
    BY DEF LinkedAs, Ends, Places
  <2>2. CASE l # dst
    <3>1. Count(r, l) = Count(q, l) /\ At(r, l, 1) = At(q, l, 1)
      BY <2>1, <2>2, <1>4 DEF PrependedPlace
    <3>2. At(r, l, Count(q, l)) = At(q, l, Count(q, l))
      BY <2>1, <2>2, <1>4
    <3> QED  BY <2>1, <2>2, <3>1, <3>2 DEF PrependedIs
  <2>3. CASE l = dst
    <3>1. Count(r, l) = c + 1 /\ c + 1 \in Int /\ (c + 1) - 1 = c /\ (c + 1 = 1 <=> c = 0)
      BY <2>3, <1>2 DEF PrependedPlace
    <3>2. At(r, l, c + 1) = IF c = 0 THEN n ELSE At(q, l, c)
      BY <3>1, <2>3, <1>4
    <3>3. At(q, dst, c) = Null <=> c = 0
      BY <1>1, <1>5
    <3>4. LastOf(g, l) = IF At(q, dst, c) = Null THEN n ELSE At(q, l, c)
      BY <2>1, <2>3, <1>2 DEF PrependedIs
    <3>5. FirstOf(g, l) = n /\ At(r, l, 1) = n
      BY <2>3, <1>4 DEF PrependedIs
    <3> QED  BY <3>1, <3>2, <3>3, <3>4, <3>5
  <2> QED  BY <2>2, <2>3
<1> QED  BY <1>6, <1>7, <1>8, <1>9, <1>10 DEF LinkedAs
-----------------------------------------------------------------------------
\* The elements of a sequence, and NULL outside of it.
LEMMA SeqItem ==
  ASSUME NEW S, NEW q \in Seq(S)
  PROVE  /\ DOMAIN q = 1 .. Len(q) /\ Len(q) \in Nat
         /\ \A i \in 1 .. Len(q) : Item(q, i) = q[i] /\ q[i] \in S
         /\ \A i : i \notin 1 .. Len(q) => Item(q, i) = Null
BY DEF Item

\* A list without its i-th element.
LEMMA WithoutIs ==
  ASSUME NEW S, NEW q \in Seq(S), NEW i \in DOMAIN q
  PROVE  /\ WithoutIndex(q, i) \in Seq(S) /\ Len(WithoutIndex(q, i)) = Len(q) - 1
         /\ \A k \in 1 .. Len(q) - 1 : WithoutIndex(q, i)[k] = IF k < i THEN q[k] ELSE q[k + 1]
<1> DEFINE a == SubSeq(q, 1, i - 1)
           b == SubSeq(q, i + 1, Len(q))
<1>1. i \in 1 .. Len(q) /\ Len(q) \in Nat
  OBVIOUS
<1>2. /\ a \in Seq(S) /\ Len(a) = i - 1
      /\ \A k \in 1 .. i - 1 : a[k] = q[k]
  BY <1>1
<1>3. /\ b \in Seq(S) /\ Len(b) = Len(q) - i
      /\ \A k \in 1 .. Len(q) - i : b[k] = q[k + i]
  BY <1>1
<1> HIDE DEF a, b
<1>4. /\ a \o b \in Seq(S) /\ Len(a \o b) = Len(a) + Len(b)
      /\ \A k \in 1 .. Len(a) + Len(b) : (a \o b)[k] = IF k <= Len(a) THEN a[k] ELSE b[k - Len(a)]
  BY <1>2, <1>3, ConcatProperties
<1>5. ASSUME NEW k \in 1 .. Len(q) - 1 PROVE (a \o b)[k] = IF k < i THEN q[k] ELSE q[k + 1]
  <2>1. CASE k < i
    <3>1. k \in 1 .. i - 1 /\ k <= Len(a) /\ k \in 1 .. Len(a) + Len(b)
      BY <2>1, <1>1, <1>2, <1>3
    <3> QED  BY <2>1, <3>1, <1>2, <1>4
  <2>2. CASE ~(k < i)
    <3>1. Len(a) = i - 1 /\ Len(b) = Len(q) - i
      BY <1>2, <1>3
    <3>2. k - (i - 1) \in 1 .. Len(q) - i /\ ~(k <= Len(a)) /\ k \in 1 .. Len(a) + Len(b) /\ k - Len(a) = k - (i - 1)
      <4>1. i \in Int /\ k \in Int /\ Len(q) \in Int /\ 1 <= i /\ i <= k /\ k <= Len(q) - 1
        BY <2>2, <1>1
      <4>2. k - (i - 1) \in 1 .. Len(q) - i /\ ~(k <= i - 1) /\ k \in 1 .. (i - 1) + (Len(q) - i)
        BY <4>1
      <4> QED  BY <3>1, <4>2
    <3>3. (k - (i - 1)) + i = k + 1
      BY <1>1
    <3> QED  BY <2>2, <3>2, <3>3, <1>3, <1>4
  <2> QED  BY <2>1, <2>2
<1>6. Len(a) + Len(b) = Len(q) - 1
  BY <1>1, <1>2, <1>3
<1> QED  BY <1>4, <1>5, <1>6 DEF WithoutIndex, a, b

\* Its neighbours: those of the list, but for those of the element that is gone.
ItemsWithout(r, q, i) ==
  /\ Len(r) = Len(q) - 1
  /\ \A j \in Int : Item(r, j) = IF j < i THEN Item(q, j) ELSE Item(q, j + 1)

\* The elements of a sequence without its i-th.
LEMMA WithoutAt ==
  ASSUME NEW S, NEW q \in Seq(S), NEW i \in DOMAIN q, NEW r, r = WithoutIndex(q, i)
  PROVE  r \in Seq(S) /\ ItemsWithout(r, q, i)
<1>1. r \in Seq(S) /\ Len(r) = Len(q) - 1 /\ \A k \in 1 .. Len(q) - 1 : r[k] = IF k < i THEN q[k] ELSE q[k + 1]
  BY WithoutIs
<1>2. i \in 1 .. Len(q) /\ Len(q) \in Nat /\ DOMAIN q = 1 .. Len(q) /\ DOMAIN r = 1 .. Len(q) - 1
  BY <1>1, SeqItem
<1>3. ASSUME NEW j \in Int PROVE Item(r, j) = IF j < i THEN Item(q, j) ELSE Item(q, j + 1)
  <2>1. CASE j \in 1 .. Len(q) - 1
    <3>1. Item(r, j) = r[j] /\ Item(q, j) = q[j] /\ Item(q, j + 1) = q[j + 1]
      BY <1>2, <2>1 DEF Item
    <3> QED  BY <3>1, <2>1, <1>1
  <2>2. CASE j \notin 1 .. Len(q) - 1
    <3>1. Item(r, j) = Null
      BY <1>2, <2>2 DEF Item
    <3>2. CASE j < i
      <4>1. j \notin 1 .. Len(q)
        BY <2>2, <3>2, <1>2
      <4> QED  BY <3>1, <3>2, <4>1, <1>2 DEF Item
    <3>3. CASE ~(j < i)
      <4>1. j + 1 \notin 1 .. Len(q)
        BY <2>2, <3>3, <1>2
      <4> QED  BY <3>1, <3>3, <4>1, <1>2 DEF Item
    <3> QED  BY <3>2, <3>3
  <2> QED  BY <2>1, <2>2
<1> QED  BY <1>1, <1>3 DEF ItemsWithout

\* The elements of one of the lists.
LEMMA AtIs ==
  ASSUME NEW S, NEW q \in [Lists -> Seq(S)], NEW l \in Lists, NEW s, s = q[l]
  PROVE  /\ s \in Seq(S) /\ Count(q, l) = Len(s) /\ Count(q, l) \in Nat
         /\ \A j \in Int : At(q, l, j) = Item(s, j)
BY DEF At, Count

\* The places of the lists when one of them has lost an element.
LEMMA WithoutIsPlace ==
  ASSUME NEW S, NEW q \in [Lists -> Seq(S)], NEW src \in Lists, NEW i \in DOMAIN q[src],
         NEW r, r = [q EXCEPT ![src] = WithoutIndex(@, i)]
  PROVE  r \in [Lists -> Seq(S)] /\ WithoutPlace(r, q, src, i)
<1>1. PICK s, w : s = q[src] /\ w = WithoutIndex(s, i)
  OBVIOUS
<1>2. r = [q EXCEPT ![src] = w] /\ s \in Seq(S) /\ i \in DOMAIN s
  BY <1>1
<1>3. w \in Seq(S) /\ ItemsWithout(w, s, i)
  <2>1. w = WithoutIndex(s, i)
    BY <1>1
  <2> QED  BY <1>2, <2>1, WithoutAt
<1>4. r \in [Lists -> Seq(S)] /\ r[src] = w /\ \A l \in Lists : l # src => r[l] = q[l]
  BY <1>2, <1>3
<1>5. ASSUME NEW l \in Lists
      PROVE  /\ Count(r, l) = IF l = src THEN Count(q, l) - 1 ELSE Count(q, l)
             /\ \A j \in Int : At(r, l, j) = IF l = src /\ ~(j < i) THEN At(q, l, j + 1) ELSE At(q, l, j)
  <2>1. CASE l = src
    BY <2>1, <1>1, <1>3, <1>4 DEF At, Count, ItemsWithout
  <2>2. CASE l # src
    BY <2>2, <1>4 DEF At, Count
  <2> QED  BY <2>1, <2>2
<1> QED  BY <1>4, <1>5 DEF WithoutPlace

WithAppended(q, dst, n) == [q EXCEPT ![dst] = Append(@, n)]

\* The places of the lists when one of them has gained a last element.
LEMMA AppendIsPlace ==
  ASSUME NEW S, NEW q \in [Lists -> Seq(S)], NEW dst \in Lists, NEW n \in S,
         NEW r, r = WithAppended(q, dst, n)
  PROVE  r \in [Lists -> Seq(S)] /\ AppendedPlace(r, q, dst, n)
<1>1. PICK w : w = Append(q[dst], n)
  OBVIOUS
<1>2. r = [q EXCEPT ![dst] = w] /\ q[dst] \in Seq(S) /\ Len(q[dst]) \in Nat
  BY <1>1 DEF WithAppended
<1>3. /\ w \in Seq(S) /\ Len(w) = Len(q[dst]) + 1 /\ DOMAIN w = 1 .. Len(q[dst]) + 1
      /\ DOMAIN q[dst] = 1 .. Len(q[dst])
      /\ \A j \in 1 .. Len(q[dst]) : w[j] = q[dst][j]
      /\ w[Len(q[dst]) + 1] = n
  BY <1>1, <1>2
<1>4. ASSUME NEW j \in Int PROVE Item(w, j) = IF j = Len(q[dst]) + 1 THEN n ELSE Item(q[dst], j)
  BY <1>2, <1>3 DEF Item
<1>5. r \in [Lists -> Seq(S)] /\ r[dst] = w /\ \A l \in Lists : l # dst => r[l] = q[l]
  BY <1>2, <1>3
<1>6. ASSUME NEW l \in Lists
      PROVE  /\ Count(r, l) = IF l = dst THEN Count(q, l) + 1 ELSE Count(q, l)
             /\ \A j \in Int : At(r, l, j) = IF l = dst /\ j = Count(q, l) + 1 THEN n ELSE At(q, l, j)
  <2>1. CASE l = dst
    BY <2>1, <1>3, <1>4, <1>5 DEF At, Count
  <2>2. CASE l # dst
    BY <2>2, <1>5 DEF At, Count
  <2> QED  BY <2>1, <2>2
<1> QED  BY <1>5, <1>6 DEF AppendedPlace

WithPrepended(q, dst, n) == [q EXCEPT ![dst] = <<n>> \o @]

\* The places of the lists when one of them has gained a first element.
LEMMA PrependIsPlace ==
  ASSUME NEW S, NEW q \in [Lists -> Seq(S)], NEW dst \in Lists, NEW n \in S,
         NEW r, r = WithPrepended(q, dst, n)
  PROVE  r \in [Lists -> Seq(S)] /\ PrependedPlace(r, q, dst, n)
<1>1. PICK w : w = <<n>> \o q[dst]
  OBVIOUS
<1>2. r = [q EXCEPT ![dst] = w] /\ q[dst] \in Seq(S) /\ Len(q[dst]) \in Nat
  BY <1>1 DEF WithPrepended
<1>3. /\ w \in Seq(S) /\ Len(w) = Len(q[dst]) + 1 /\ DOMAIN w = 1 .. Len(q[dst]) + 1
      /\ DOMAIN q[dst] = 1 .. Len(q[dst])
      /\ \A j \in 2 .. Len(q[dst]) + 1 : w[j] = q[dst][j - 1]
      /\ w[1] = n
  <2>1. <<n>> \in Seq(S) /\ Len(<<n>>) = 1 /\ <<n>>[1] = n
    OBVIOUS
  <2>2. /\ <<n>> \o q[dst] \in Seq(S) /\ Len(<<n>> \o q[dst]) = 1 + Len(q[dst])
        /\ \A j \in 1 .. 1 + Len(q[dst]) : (<<n>> \o q[dst])[j] = IF j <= 1 THEN <<n>>[j] ELSE q[dst][j - 1]
    BY <1>2, <2>1, ConcatProperties
  <2>3. w \in Seq(S) /\ Len(w) = Len(q[dst]) + 1 /\ DOMAIN w = 1 .. Len(q[dst]) + 1
    BY <1>1, <1>2, <2>2
  <2>4. \A j \in 1 .. 1 + Len(q[dst]) : w[j] = IF j <= 1 THEN <<n>>[j] ELSE q[dst][j - 1]
    BY <1>1, <2>2
  <2>5. w[1] = n
    BY <1>2, <2>1, <2>4
  <2>6. \A j \in 2 .. Len(q[dst]) + 1 : w[j] = q[dst][j - 1]
    BY <1>2, <2>4
  <2> QED  BY <1>2, <2>3, <2>5, <2>6
<1>4. ASSUME NEW j \in Int PROVE Item(w, j) = IF j = 1 THEN n ELSE Item(q[dst], j - 1)
  BY <1>2, <1>3 DEF Item
<1>5. r \in [Lists -> Seq(S)] /\ r[dst] = w /\ \A l \in Lists : l # dst => r[l] = q[l]
  BY <1>2, <1>3
<1>6. ASSUME NEW l \in Lists
      PROVE  /\ Count(r, l) = IF l = dst THEN Count(q, l) + 1 ELSE Count(q, l)
             /\ \A j \in Int : At(r, l, j) = IF l = dst THEN IF j = 1 THEN n ELSE At(q, l, j - 1) ELSE At(q, l, j)
  <2>1. CASE l = dst
    BY <2>1, <1>3, <1>4, <1>5 DEF At, Count
  <2>2. CASE l # dst
    BY <2>2, <1>5 DEF At, Count
  <2> QED  BY <2>1, <2>2
<1> QED  BY <1>5, <1>6 DEF PrependedPlace
-----------------------------------------------------------------------------
\* A function changed at a node, or not at all when the node is NULL.
LEMMA SetIs ==
  ASSUME NEW f, DOMAIN f = Pool, NEW x, x = Null \/ x \in Pool, NEW v
  PROVE  DOMAIN Set(f, x, v) = Pool /\ \A m \in Pool : Set(f, x, v)[m] = IF m = x THEN v ELSE f[m]
BY NodesAssumption DEF Set

\* Unlink in terms of single links: moveNode trusts the node's own pointers (list.c:42).
LEMMA UnlinkIs ==
  ASSUME NEW h, HeapFields(h), NEW n \in Pool, NEW src, src = ListOf(h, n), src \in Lists,
         PrevOf(h, n) = Null \/ PrevOf(h, n) \in Pool, NextOf(h, n) = Null \/ NextOf(h, n) \in Pool,
         NEW g, g = Unlink(h, n)
  PROVE  HeapFields(g) /\ UnlinkedIs(g, h, n, src)
<1> USE DEF NextOf, PrevOf, ListOf, FirstOf, LastOf
<1>1. PICK nx, pv : nx = Set(h.next, h.prev[n], h.next[n]) /\ pv = Set(h.prev, h.next[n], h.prev[n])
  OBVIOUS
<1>2. PICK fi, la : /\ fi = [h.first EXCEPT ![src] = IF @ = n THEN h.next[n] ELSE @]
                    /\ la = [h.last EXCEPT ![src] = IF @ = n THEN h.prev[n] ELSE @]
  OBVIOUS
<1>3. g = [h EXCEPT !.next = nx, !.prev = pv, !.first = fi, !.last = la]
  BY <1>1, <1>2 DEF Unlink
<1>4. /\ DOMAIN nx = Pool /\ \A m \in Pool : nx[m] = IF m = h.prev[n] THEN h.next[n] ELSE h.next[m]
      /\ DOMAIN pv = Pool /\ \A m \in Pool : pv[m] = IF m = h.next[n] THEN h.prev[n] ELSE h.prev[m]
  BY <1>1, SetIs DEF HeapFields
<1>5. /\ DOMAIN fi = Lists /\ \A l \in Lists : fi[l] = IF l = src /\ h.first[l] = n THEN h.next[n] ELSE h.first[l]
      /\ DOMAIN la = Lists /\ \A l \in Lists : la[l] = IF l = src /\ h.last[l] = n THEN h.prev[n] ELSE h.last[l]
  BY <1>2 DEF HeapFields
<1>6. /\ DOMAIN g = {"prev", "next", "parent", "first", "last"}
      /\ g.next = nx /\ g.prev = pv /\ g.first = fi /\ g.last = la /\ g.parent = h.parent
  BY <1>3 DEF HeapFields
<1> QED  BY <1>4, <1>5, <1>6 DEF HeapFields, UnlinkedIs

\* LinkBack in terms of single links.
LEMMA LinkBackIs ==
  ASSUME NEW h, HeapFields(h), NEW n \in Pool, NEW dst \in Lists,
         LastOf(h, dst) = Null \/ LastOf(h, dst) \in Pool \ {n},
         NEW g, g = LinkBack(h, n, dst)
  PROVE  /\ HeapFields(g)
         /\ \A m \in Pool : /\ NextOf(g, m) = IF m = n THEN Null ELSE IF m = LastOf(h, dst) THEN n ELSE NextOf(h, m)
                            /\ PrevOf(g, m) = IF m = n THEN LastOf(h, dst) ELSE PrevOf(h, m)
                            /\ ListOf(g, m) = ListOf(h, m)
         /\ \A l \in Lists : /\ FirstOf(g, l) = FirstOf(h, l)
                             /\ LastOf(g, l) = IF l = dst THEN n ELSE LastOf(h, l)
<1> USE DEF NextOf, PrevOf, ListOf, FirstOf, LastOf
<1>1. PICK nx, nn, pv, la : /\ nx = Set(h.next, h.last[dst], n) /\ nn = [nx EXCEPT ![n] = Null]
                            /\ pv = [h.prev EXCEPT ![n] = h.last[dst]] /\ la = [h.last EXCEPT ![dst] = n]
  OBVIOUS
<1>2. g = [h EXCEPT !.next = nn, !.prev = pv, !.last = la]
  BY <1>1 DEF LinkBack
<1>3. DOMAIN nx = Pool /\ \A m \in Pool : nx[m] = IF m = h.last[dst] THEN n ELSE h.next[m]
  BY <1>1, SetIs DEF HeapFields
<1>4. DOMAIN nn = Pool /\ \A m \in Pool : nn[m] = IF m = n THEN Null ELSE nx[m]
  BY <1>1, <1>3
<1>5. DOMAIN pv = Pool /\ \A m \in Pool : pv[m] = IF m = n THEN h.last[dst] ELSE h.prev[m]
  BY <1>1 DEF HeapFields
<1>6. DOMAIN la = Lists /\ \A l \in Lists : la[l] = IF l = dst THEN n ELSE h.last[l]
  BY <1>1 DEF HeapFields
<1>7. /\ DOMAIN g = {"prev", "next", "parent", "first", "last"}
      /\ g.parent = h.parent /\ g.first = h.first /\ g.next = nn /\ g.prev = pv /\ g.last = la
  BY <1>2 DEF HeapFields
<1> QED  BY <1>3, <1>4, <1>5, <1>6, <1>7 DEF HeapFields

\* LinkFront in terms of single links.
LEMMA LinkFrontIs ==
  ASSUME NEW h, HeapFields(h), NEW n \in Pool, NEW dst \in Lists,
         FirstOf(h, dst) = Null \/ FirstOf(h, dst) \in Pool \ {n},
         NEW g, g = LinkFront(h, n, dst)
  PROVE  /\ HeapFields(g)
         /\ \A m \in Pool : /\ PrevOf(g, m) = IF m = n THEN Null ELSE IF m = FirstOf(h, dst) THEN n ELSE PrevOf(h, m)
                            /\ NextOf(g, m) = IF m = n THEN FirstOf(h, dst) ELSE NextOf(h, m)
                            /\ ListOf(g, m) = ListOf(h, m)
         /\ \A l \in Lists : /\ LastOf(g, l) = LastOf(h, l)
                             /\ FirstOf(g, l) = IF l = dst THEN n ELSE FirstOf(h, l)
<1> USE DEF NextOf, PrevOf, ListOf, FirstOf, LastOf
<1>1. PICK pv, pn, nx, fi : /\ pv = Set(h.prev, h.first[dst], n) /\ pn = [pv EXCEPT ![n] = Null]
                            /\ nx = [h.next EXCEPT ![n] = h.first[dst]] /\ fi = [h.first EXCEPT ![dst] = n]
  OBVIOUS
<1>2. g = [h EXCEPT !.prev = pn, !.next = nx, !.first = fi]
  BY <1>1 DEF LinkFront
<1>3. DOMAIN pv = Pool /\ \A m \in Pool : pv[m] = IF m = h.first[dst] THEN n ELSE h.prev[m]
  BY <1>1, SetIs DEF HeapFields
<1>4. DOMAIN pn = Pool /\ \A m \in Pool : pn[m] = IF m = n THEN Null ELSE pv[m]
  BY <1>1, <1>3
<1>5. DOMAIN nx = Pool /\ \A m \in Pool : nx[m] = IF m = n THEN h.first[dst] ELSE h.next[m]
  BY <1>1 DEF HeapFields
<1>6. DOMAIN fi = Lists /\ \A l \in Lists : fi[l] = IF l = dst THEN n ELSE h.first[l]
  BY <1>1 DEF HeapFields
<1>7. /\ DOMAIN g = {"prev", "next", "parent", "first", "last"}
      /\ g.parent = h.parent /\ g.last = h.last /\ g.next = nx /\ g.prev = pn /\ g.first = fi
  BY <1>2 DEF HeapFields
<1> QED  BY <1>3, <1>4, <1>5, <1>6, <1>7 DEF HeapFields

\* With the missing end filled in and the list of the node set.
Finished(h, n, dst) == [Normalize(h, dst) EXCEPT !.parent[n] = dst]
FinishedIs(g, h, n, dst) ==
  /\ HeapFields(g)
  /\ \A m \in Pool : /\ PrevOf(g, m) = PrevOf(h, m) /\ NextOf(g, m) = NextOf(h, m)
                     /\ ListOf(g, m) = IF m = n THEN dst ELSE ListOf(h, m)
  /\ \A l \in Lists :
       /\ FirstOf(g, l) = IF l = dst /\ FirstOf(h, l) = Null THEN LastOf(h, l) ELSE FirstOf(h, l)
       /\ LastOf(g, l) = IF l = dst /\ LastOf(h, l) = Null THEN FirstOf(h, l) ELSE LastOf(h, l)

\* Normalize and the assignment of the parent in terms of single links.
LEMMA NormalizeIs ==
  ASSUME NEW h, HeapFields(h), NEW n \in Pool, NEW dst \in Lists, NEW g, g = Finished(h, n, dst)
  PROVE  FinishedIs(g, h, n, dst)
<1> USE DEF NextOf, PrevOf, ListOf, FirstOf, LastOf
<1>1. PICK f, l : /\ l = [h.last EXCEPT ![dst] = IF h.first[dst] # Null /\ @ = Null THEN h.first[dst] ELSE @]
                  /\ f = [h.first EXCEPT ![dst] = IF @ = Null /\ h.last[dst] # Null THEN h.last[dst] ELSE @]
  OBVIOUS
<1>2. PICK k, pa : k = [h EXCEPT !.last = l, !.first = f] /\ pa = [h.parent EXCEPT ![n] = dst]
  OBVIOUS
<1>3. g = [k EXCEPT !.parent = [@ EXCEPT ![n] = dst]]
  BY <1>1, <1>2 DEF Normalize, Finished
<1>4. /\ DOMAIN k = {"prev", "next", "parent", "first", "last"}
      /\ k.prev = h.prev /\ k.next = h.next /\ k.parent = h.parent /\ k.first = f /\ k.last = l
  BY <1>2 DEF HeapFields
<1>5. g = [k EXCEPT !.parent = pa]
  BY <1>2, <1>3, <1>4
<1>6. /\ DOMAIN g = DOMAIN k /\ g.prev = h.prev /\ g.next = h.next /\ g.first = f /\ g.last = l
      /\ g.parent = pa
  BY <1>4, <1>5
<1>7. DOMAIN f = Lists /\ \A x \in Lists : f[x] = IF x = dst /\ h.first[x] = Null THEN h.last[x] ELSE h.first[x]
  BY <1>1 DEF HeapFields
<1>8. DOMAIN l = Lists /\ \A x \in Lists : l[x] = IF x = dst /\ h.last[x] = Null THEN h.first[x] ELSE h.last[x]
  BY <1>1 DEF HeapFields
<1>9. DOMAIN pa = Pool /\ \A m \in Pool : pa[m] = IF m = n THEN dst ELSE h.parent[m]
  BY <1>2 DEF HeapFields
<1> QED  BY <1>4, <1>6, <1>7, <1>8, <1>9 DEF HeapFields, FinishedIs

\* LinkBack and what follows it append the node, also to an empty list.
LEMMA PlacedBackIs ==
  ASSUME NEW h, HeapFields(h), NEW n \in Pool, NEW dst \in Lists,
         LastOf(h, dst) = Null \/ LastOf(h, dst) \in Pool \ {n},
         NEW g, g = Finished(LinkBack(h, n, dst), n, dst)
  PROVE  HeapFields(g) /\ AppendedIs(g, h, n, dst)
<1>1. PICK k : k = LinkBack(h, n, dst)
  OBVIOUS
<1>2. g = Finished(k, n, dst) /\ n # Null
  BY <1>1, NodesAssumption
<1>3. /\ HeapFields(k)
      /\ \A m \in Pool : /\ NextOf(k, m) = IF m = n THEN Null ELSE IF m = LastOf(h, dst) THEN n ELSE NextOf(h, m)
                         /\ PrevOf(k, m) = IF m = n THEN LastOf(h, dst) ELSE PrevOf(h, m)
                         /\ ListOf(k, m) = ListOf(h, m)
      /\ \A l \in Lists : /\ FirstOf(k, l) = FirstOf(h, l)
                          /\ LastOf(k, l) = IF l = dst THEN n ELSE LastOf(h, l)
  BY <1>1, LinkBackIs
<1>4. FinishedIs(g, k, n, dst)
  <2>1. HeapFields(k)
    BY <1>3
  <2> QED  BY <1>2, <2>1, NormalizeIs
<1> QED  BY <1>2, <1>3, <1>4 DEF AppendedIs, FinishedIs

\* LinkFront and what follows it prepend the node, also to an empty list.
LEMMA PlacedFrontIs ==
  ASSUME NEW h, HeapFields(h), NEW n \in Pool, NEW dst \in Lists,
         FirstOf(h, dst) = Null \/ FirstOf(h, dst) \in Pool \ {n},
         NEW g, g = Finished(LinkFront(h, n, dst), n, dst)
  PROVE  HeapFields(g) /\ PrependedIs(g, h, n, dst)
<1>1. PICK k : k = LinkFront(h, n, dst)
  OBVIOUS
<1>2. g = Finished(k, n, dst) /\ n # Null
  BY <1>1, NodesAssumption
<1>3. /\ HeapFields(k)
      /\ \A m \in Pool : /\ PrevOf(k, m) = IF m = n THEN Null ELSE IF m = FirstOf(h, dst) THEN n ELSE PrevOf(h, m)
                         /\ NextOf(k, m) = IF m = n THEN FirstOf(h, dst) ELSE NextOf(h, m)
                         /\ ListOf(k, m) = ListOf(h, m)
      /\ \A l \in Lists : /\ LastOf(k, l) = LastOf(h, l)
                          /\ FirstOf(k, l) = IF l = dst THEN n ELSE FirstOf(h, l)
  BY <1>1, LinkFrontIs
<1>4. FinishedIs(g, k, n, dst)
  <2>1. HeapFields(k)
    BY <1>3
  <2> QED  BY <1>2, <2>1, NormalizeIs
<1> QED  BY <1>2, <1>3, <1>4 DEF PrependedIs, FinishedIs
-----------------------------------------------------------------------------
(* moveNode takes a node out of its list and puts it in another.           *)

Matches(h, q) == HeapFields(h) /\ q \in [Lists -> Seq(Pool)] /\ LinkedAs(h, q, Pool)
Moved(q, src, i, dst, back) ==
  [q EXCEPT ![src] = WithoutIndex(@, i), ![dst] = IF back THEN Append(@, q[src][i]) ELSE <<q[src][i]>> \o @]

\* A place of a list and the links of the node there.
LEMMA PlaceOf ==
  ASSUME NEW h, NEW q, Matches(h, q), NEW src \in Lists, NEW i \in DOMAIN q[src], NEW n, n = q[src][i]
  PROVE  /\ i \in Int /\ 1 <= i /\ i <= Count(q, src) /\ n = At(q, src, i) /\ n \in Pool /\ n # Null
         /\ ListOf(h, n) = src
         /\ PrevOf(h, n) = At(q, src, i - 1) /\ NextOf(h, n) = At(q, src, i + 1)
         /\ PrevOf(h, n) = Null \/ PrevOf(h, n) \in Pool
         /\ NextOf(h, n) = Null \/ NextOf(h, n) \in Pool
<1>1. q[src] \in Seq(Pool) /\ LinkedAs(h, q, Pool)
  BY DEF Matches
<1>2. i \in Int /\ 1 <= i /\ i <= Count(q, src) /\ n = At(q, src, i) /\ n \in Pool
  BY <1>1 DEF At, Item, Count
<1>3. n # Null
  BY <1>2, NodesAssumption
<1>4. ListOf(h, n) = src /\ PrevOf(h, n) = At(q, src, i - 1) /\ NextOf(h, n) = At(q, src, i + 1)
  BY <1>1, <1>2, <1>3 DEF LinkedAs, Neighbours
<1>5. \A j \in Int : At(q, src, j) = Null \/ At(q, src, j) \in Pool
  BY <1>1 DEF LinkedAs, Places
<1>6. i - 1 \in Int /\ i + 1 \in Int
  BY <1>2
<1> QED  BY <1>2, <1>3, <1>4, <1>5, <1>6

\* Every node has a place in the list it says it is in.
LEMMA NodeHasPlace ==
  ASSUME NEW h, NEW q, Matches(h, q), NEW n \in Pool, NEW src, src = ListOf(h, n)
  PROVE  src \in Lists /\ \E i \in DOMAIN q[src] : q[src][i] = n
<1>1. src \in Lists
  BY DEF Matches, LinkedAs, HasAll
<1>2. PICK i \in Int : At(q, src, i) = n
  BY DEF Matches, LinkedAs, HasAll
<1>3. n # Null
  BY NodesAssumption
<1> QED  BY <1>1, <1>2, <1>3 DEF At, Item

\* moveNode moves the node from its place to the end asked for, and nothing else.
LEMMA MoveLinks ==
  ASSUME NEW h, NEW q, Matches(h, q), NEW src \in Lists, NEW i \in DOMAIN q[src],
         NEW n, n = q[src][i], NEW dst \in Lists, dst # src, NEW back \in BOOLEAN
  PROVE  Matches(MoveNode(h, n, dst, back), Moved(q, src, i, dst, back))
<1>1. /\ i \in Int /\ 1 <= i /\ i <= Count(q, src) /\ n = At(q, src, i) /\ n \in Pool /\ n # Null
      /\ ListOf(h, n) = src
      /\ PrevOf(h, n) = Null \/ PrevOf(h, n) \in Pool
      /\ NextOf(h, n) = Null \/ NextOf(h, n) \in Pool
  BY PlaceOf
<1>2. PICK g, r : g = Unlink(h, n) /\ r = [q EXCEPT ![src] = WithoutIndex(@, i)]
  OBVIOUS
<1>3. HeapFields(h) /\ q \in [Lists -> Seq(Pool)] /\ LinkedAs(h, q, Pool) /\ Pool \in SUBSET Pool
  BY DEF Matches
<1>4. HeapFields(g) /\ UnlinkedIs(g, h, n, src)
  BY <1>1, <1>2, <1>3, UnlinkIs
<1>5. r \in [Lists -> Seq(Pool)] /\ WithoutPlace(r, q, src, i)
  BY <1>2, <1>3, WithoutIsPlace
<1>6. LinkedAs(g, r, Pool \ {n})
  BY <1>1, <1>3, <1>4, <1>5, UnlinkLinks
<1>7. /\ LastOf(g, dst) = Null \/ LastOf(g, dst) \in Pool \ {n}
      /\ FirstOf(g, dst) = Null \/ FirstOf(g, dst) \in Pool \ {n}
  <2>1. Count(r, dst) \in Int /\ 1 \in Int
    BY <1>6 DEF LinkedAs, Places
  <2> QED  BY <2>1, <1>6 DEF LinkedAs, Places, Ends
<1>8. PICK P \in SUBSET Pool : P = Pool \ {n}
  OBVIOUS
<1>9. n \in Pool \ P /\ P \cup {n} = Pool /\ LinkedAs(g, r, P)
  BY <1>1, <1>6, <1>8
<1>10. h.parent[n] # dst
  BY <1>1 DEF ListOf
<1>11. CASE back
  <2>1. PICK k, w : k = Finished(LinkBack(g, n, dst), n, dst) /\ w = WithAppended(r, dst, n)
    OBVIOUS
  <2>2. HeapFields(k) /\ AppendedIs(k, g, n, dst)
    BY <1>1, <1>4, <1>7, <2>1, PlacedBackIs
  <2>3. w \in [Lists -> Seq(Pool)] /\ AppendedPlace(w, r, dst, n)
    <3>1. r \in [Lists -> Seq(Pool)] /\ n \in Pool
      BY <1>1, <1>5
    <3>2. w = WithAppended(r, dst, n)
      BY <2>1
    <3> QED  BY <3>1, <3>2, AppendIsPlace
  <2>4. LinkedAs(k, w, P \cup {n})
    BY <1>9, <2>2, <2>3, AppendLinks
  <2>5. MoveNode(h, n, dst, back) = k
    BY <1>2, <1>10, <1>11, <2>1 DEF MoveNode, Finished
  <2>6. Moved(q, src, i, dst, back) = w
    BY <1>2, <1>11, <2>1 DEF Moved, WithAppended
  <2> QED  BY <1>9, <2>2, <2>3, <2>4, <2>5, <2>6 DEF Matches
<1>12. CASE ~back
  <2>1. PICK k, w : k = Finished(LinkFront(g, n, dst), n, dst) /\ w = WithPrepended(r, dst, n)
    OBVIOUS
  <2>2. HeapFields(k) /\ PrependedIs(k, g, n, dst)
    BY <1>1, <1>4, <1>7, <2>1, PlacedFrontIs
  <2>3. w \in [Lists -> Seq(Pool)] /\ PrependedPlace(w, r, dst, n)
    <3>1. r \in [Lists -> Seq(Pool)] /\ n \in Pool
      BY <1>1, <1>5
    <3>2. w = WithPrepended(r, dst, n)
      BY <2>1
    <3> QED  BY <3>1, <3>2, PrependIsPlace
  <2>4. LinkedAs(k, w, P \cup {n})
    BY <1>9, <2>2, <2>3, PrependLinks
  <2>5. MoveNode(h, n, dst, back) = k
    BY <1>2, <1>10, <1>12, <2>1 DEF MoveNode, Finished
  <2>6. Moved(q, src, i, dst, back) = w
    BY <1>2, <1>12, <2>1 DEF Moved, WithPrepended
  <2> QED  BY <1>9, <2>2, <2>3, <2>4, <2>5, <2>6 DEF Matches
<1> QED  BY <1>11, <1>12
-----------------------------------------------------------------------------
(* The lists of an initial heap, and what a walk along the links finds.    *)

\* What holds of 0 and of the next of every number up to n holds of all of them.
LEMMA ReachesAll ==
  ASSUME NEW J, NEW n \in Nat, 0 \in J, \A k \in 0 .. n - 1 : k \in J => k + 1 \in J
  PROVE  0 .. n \subseteq J
<1> DEFINE bad == {k \in 0 .. n : k \notin J}
<1> SUFFICES ASSUME bad # {} PROVE FALSE
  OBVIOUS
<1>1. bad \in SUBSET Nat
  OBVIOUS
<1>2. PICK j \in bad : \A k \in bad : ~(<<k, j>> \in OpToRel(<, Nat))
  BY <1>1, NatLessThanWellFounded, WFMin
<1>3. \A k \in bad : ~(k < j)
  BY <1>1, <1>2 DEF OpToRel
<1>4. j \in 0 .. n /\ j \notin J /\ j # 0
  BY <1>2
<1>5. j - 1 \in 0 .. n - 1 /\ j - 1 < j /\ (j - 1) + 1 = j /\ j - 1 \in 0 .. n
  BY <1>4
<1>6. j - 1 \in J
  BY <1>3, <1>5
<1> QED  BY <1>4, <1>5, <1>6

\* A sequence that repeats nothing has as many places as elements.
LEMMA DistinctSize ==
  ASSUME NEW S, NEW s \in Seq(S), \A i, j \in DOMAIN s : s[i] = s[j] => i = j
  PROVE  IsFiniteSet(Elems(s)) /\ Cardinality(Elems(s)) = Len(s)
<1>1. Len(s) \in Nat /\ DOMAIN s = 1 .. Len(s) /\ s \in [1 .. Len(s) -> Elems(s)]
  <2>1. Len(s) \in Nat /\ DOMAIN s = 1 .. Len(s) /\ s = [i \in 1 .. Len(s) |-> s[i]]
    OBVIOUS
  <2>2. \A i \in DOMAIN s : s[i] \in Elems(s)
    BY DEF Elems
  <2> QED  BY <2>1, <2>2
<1>2. IsFiniteSet(1 .. Len(s)) /\ Cardinality(1 .. Len(s)) = Len(s)
  BY <1>1, FS_Interval
<1>3. s \in Surjection(1 .. Len(s), Elems(s))
  BY <1>1 DEF Elems, Surjection
<1>4. s \in Injection(1 .. Len(s), Elems(s))
  BY <1>1 DEF Injection, IsInjective
<1> QED  BY <1>2, <1>3, <1>4, FS_Surjection

\* The pool has as many nodes as its sequence.
LEMMA PoolSize == IsFiniteSet(Pool) /\ Cardinality(Pool) = Len(Nodes) /\ Nodes \in Seq(Pool) /\ Len(Nodes) \in Nat
<1>1. Nodes \in Seq(Pool) /\ \A i, j \in DOMAIN Nodes : Nodes[i] = Nodes[j] => i = j
  BY NodesAssumption
<1>2. IsFiniteSet(Elems(Nodes)) /\ Cardinality(Elems(Nodes)) = Len(Nodes)
  BY <1>1, DistinctSize
<1> QED  BY <1>1, <1>2 DEF Pool

\* A list repeats none of its nodes.
LEMMA ListIsDistinct ==
  ASSUME NEW h, NEW q, Matches(h, q), NEW l \in Lists, NEW i \in DOMAIN q[l], NEW j \in DOMAIN q[l], q[l][i] = q[l][j]
  PROVE  i = j
<1>1. /\ i \in Int /\ q[l][i] = At(q, l, i) /\ At(q, l, i) # Null
      /\ j \in Int /\ q[l][j] = At(q, l, j)
  BY PlaceOf
<1>2. At(q, l, j) = At(q, l, i) /\ RepeatsNone(q)
  BY <1>1 DEF Matches, LinkedAs
<1> QED  BY <1>1, <1>2, OnePlace

\* A list is not longer than the pool.
LEMMA ListFits ==
  ASSUME NEW h, NEW q, Matches(h, q), NEW l \in Lists
  PROVE  Len(q[l]) \in Nat /\ Len(q[l]) <= Len(Nodes)
<1>1. q[l] \in Seq(Pool)
  BY DEF Matches
<1>2. \A i, j \in DOMAIN q[l] : q[l][i] = q[l][j] => i = j
  BY ListIsDistinct
<1>3. IsFiniteSet(Elems(q[l])) /\ Cardinality(Elems(q[l])) = Len(q[l])
  BY <1>1, <1>2, DistinctSize
<1>4. Elems(q[l]) \in SUBSET Pool
  BY <1>1 DEF Elems
<1>5. Cardinality(Elems(q[l])) <= Cardinality(Pool)
  BY <1>4, PoolSize, FS_Subset
<1> QED  BY <1>1, <1>3, <1>5, PoolSize

\* The nodes met are those of the list.
LEMMA ChainIs ==
  ASSUME NEW h, NEW q, Matches(h, q), NEW l \in Lists
  PROVE  Chain(h, l) = q[l]
<1> DEFINE Turns == 1 .. Len(Nodes) + 1
           step(m) == [k \in Turns |-> IF k = 1 THEN h.first[l] ELSE IF m[k - 1] = Null THEN Null ELSE h.next[m[k - 1]]]
           met == CHOOSE m : m = step(m)
           listed == [k \in Turns |-> At(q, l, k)]
<1>1. Chain(h, l) = [k \in {i \in Turns : met[i] # Null} |-> met[k]]
  BY DEF Chain
<1>2. Len(Nodes) \in Nat /\ Len(q[l]) \in Nat /\ Len(q[l]) <= Len(Nodes)
  BY ListFits, PoolSize
<1>3. h.first[l] = At(q, l, 1)
  BY DEF Matches, LinkedAs, Ends, FirstOf
<1>4. ASSUME NEW k \in Turns, k # 1
      PROVE  (IF At(q, l, k - 1) = Null THEN Null ELSE h.next[At(q, l, k - 1)]) = At(q, l, k)
  <2>1. k \in Int /\ k - 1 \in Int /\ (k - 1) + 1 = k /\ 1 <= k - 1
    BY <1>4, <1>2
  <2>2. CASE At(q, l, k - 1) = Null
    <3>1. LinkedAs(h, q, Pool) /\ Null \notin Pool
      BY NodesAssumption DEF Matches
    <3>2. Count(q, l) \in Nat /\ \A i \in Int : IF 1 <= i /\ i <= Count(q, l) THEN At(q, l, i) \in Pool ELSE At(q, l, i) = Null
      BY <3>1 DEF LinkedAs, Places
    <3> QED  BY <2>1, <2>2, <3>1, <3>2
  <2>3. CASE At(q, l, k - 1) # Null
    <3>1. NextOf(h, At(q, l, k - 1)) = At(q, l, (k - 1) + 1)
      BY <2>1, <2>3 DEF Matches, LinkedAs, Neighbours
    <3> QED  BY <2>1, <2>3, <3>1 DEF NextOf
  <2> QED  BY <2>2, <2>3
<1>5. listed = step(listed)
  <2>1. ASSUME NEW k \in Turns
        PROVE  At(q, l, k) = IF k = 1 THEN h.first[l] ELSE IF listed[k - 1] = Null THEN Null ELSE h.next[listed[k - 1]]
    <3>1. CASE k = 1
      BY <3>1, <1>3
    <3>2. CASE k # 1
      <4>1. k - 1 \in Turns
        BY <3>2, <1>2
      <4>2. listed[k - 1] = At(q, l, k - 1)
        BY <4>1
      <4>3. (IF At(q, l, k - 1) = Null THEN Null ELSE h.next[At(q, l, k - 1)]) = At(q, l, k)
        BY <3>2, <1>4
      <4> QED  BY <3>2, <4>2, <4>3, Zenon
    <3> QED  BY <3>1, <3>2
  <2> QED  BY <2>1
<1>6. met = step(met)
  BY <1>5
<1> HIDE DEF met
<1>7. \A k \in Turns : met[k] = At(q, l, k)
  <2> DEFINE J == {k \in 0 .. Len(Nodes) : met[k + 1] = At(q, l, k + 1)}
  <2>1. 0 \in J
    <3>1. 0 + 1 \in Turns /\ 0 + 1 = 1
      BY <1>2
    <3>2. met[1] = h.first[l]
      BY <3>1, <1>6
    <3> QED  BY <3>1, <3>2, <1>2, <1>3
  <2>2. ASSUME NEW k \in 0 .. Len(Nodes) - 1, k \in J PROVE k + 1 \in J
    <3>1. k + 2 \in Turns /\ k + 2 # 1 /\ (k + 2) - 1 = k + 1 /\ k + 1 \in 0 .. Len(Nodes) /\ (k + 1) + 1 = k + 2
      BY <1>2
    <3>2. PICK j \in Turns : j = k + 2
      BY <3>1
    <3>3. met[j] = IF met[j - 1] = Null THEN Null ELSE h.next[met[j - 1]]
      BY <3>1, <3>2, <1>6
    <3>4. met[j - 1] = At(q, l, j - 1)
      BY <3>1, <3>2, <2>2
    <3>5. met[j] = At(q, l, j)
      BY <3>1, <3>2, <3>3, <3>4, <1>4
    <3> QED  BY <3>1, <3>2, <3>5
  <2>3. 0 .. Len(Nodes) \subseteq J
    <3> HIDE DEF J
    <3> QED  BY <2>1, <2>2, <1>2, ReachesAll
  <2>4. ASSUME NEW k \in Turns PROVE met[k] = At(q, l, k)
    <3>1. k - 1 \in 0 .. Len(Nodes) /\ (k - 1) + 1 = k
      BY <1>2
    <3> QED  BY <3>1, <2>3
  <2> QED  BY <2>4
<1>8. q[l] \in Seq(Pool) /\ DOMAIN q[l] = 1 .. Len(q[l])
  BY DEF Matches
<1>9. \A k \in 1 .. Len(q[l]) : At(q, l, k) = q[l][k] /\ At(q, l, k) # Null
  BY <1>8, NodesAssumption DEF At, Item
<1>10. \A k \in Turns : k \notin 1 .. Len(q[l]) => At(q, l, k) = Null
  BY <1>8 DEF At, Item
<1>11. 1 .. Len(q[l]) \subseteq Turns
  BY <1>2
<1>12. {i \in Turns : met[i] # Null} = 1 .. Len(q[l])
  BY <1>7, <1>9, <1>10, <1>11
<1>13. Chain(h, l) = [k \in 1 .. Len(q[l]) |-> q[l][k]]
  BY <1>1, <1>7, <1>9, <1>11, <1>12
<1> QED  BY <1>8, <1>13

\* The lists of buildList.
Start == [l \in Lists |-> IF l = Free THEN Nodes ELSE <<>>]

\* The links buildList makes.
LEMMA BuiltIs ==
  /\ HeapFields(Built)
  /\ \A i \in DOMAIN Nodes : /\ NextOf(Built, Nodes[i]) = Item(Nodes, i + 1)
                             /\ PrevOf(Built, Nodes[i]) = Item(Nodes, i - 1)
                             /\ ListOf(Built, Nodes[i]) = Free
  /\ \A l \in Lists : /\ FirstOf(Built, l) = IF l = Free THEN Nodes[1] ELSE Null
                      /\ LastOf(Built, l) = IF l = Free THEN Nodes[Len(Nodes)] ELSE Null
<1> DEFINE index(n) == CHOOSE i \in DOMAIN Nodes : Nodes[i] = n
<1>1. Built = [prev   |-> [n \in Pool |-> Item(Nodes, index(n) - 1)],
               next   |-> [n \in Pool |-> Item(Nodes, index(n) + 1)],
               parent |-> [n \in Pool |-> Free],
               first  |-> [l \in Lists |-> IF l = Free THEN Nodes[1] ELSE Null],
               last   |-> [l \in Lists |-> IF l = Free THEN Nodes[Len(Nodes)] ELSE Null]]
  BY DEF Built, Item
<1>2. ASSUME NEW i \in DOMAIN Nodes PROVE Nodes[i] \in Pool /\ index(Nodes[i]) = i
  BY NodesAssumption DEF Pool, Elems
<1> HIDE DEF index
<1>3. HeapFields(Built)
  BY <1>1 DEF HeapFields
<1>4. /\ \A n \in Pool : /\ NextOf(Built, n) = Item(Nodes, index(n) + 1) /\ PrevOf(Built, n) = Item(Nodes, index(n) - 1)
                         /\ ListOf(Built, n) = Free
      /\ \A l \in Lists : /\ FirstOf(Built, l) = IF l = Free THEN Nodes[1] ELSE Null
                          /\ LastOf(Built, l) = IF l = Free THEN Nodes[Len(Nodes)] ELSE Null
  BY <1>1 DEF NextOf, PrevOf, ListOf, FirstOf, LastOf
<1> QED  BY <1>2, <1>3, <1>4

\* The heap buildList makes is linked as the pool in order.
LEMMA BuiltMatches == Matches(Built, Start)
<1>1. Start \in [Lists -> Seq(Pool)]
  BY PoolSize DEF Start
<1>2. Len(Nodes) \in Nat /\ 1 <= Len(Nodes) /\ DOMAIN Nodes = 1 .. Len(Nodes) /\ Null \notin Pool /\ Free \in Lists
  BY PoolSize, NodesAssumption
<1>3. \A i \in 1 .. Len(Nodes) : Item(Nodes, i) = Nodes[i] /\ Nodes[i] \in Pool
  BY <1>2, PoolSize DEF Item
<1>4. \A i : i \notin 1 .. Len(Nodes) => Item(Nodes, i) = Null
  BY <1>2 DEF Item
<1>5. ASSUME NEW l \in Lists, NEW i \in Int PROVE At(Start, l, i) = IF l = Free THEN Item(Nodes, i) ELSE Null
  BY DEF At, Item, Start
<1>6. ASSUME NEW l \in Lists PROVE Count(Start, l) = IF l = Free THEN Len(Nodes) ELSE 0
  BY DEF Count, Start
<1>7. Places(Start, Pool)
  BY <1>2, <1>3, <1>4, <1>5, <1>6 DEF Places
<1>8. ASSUME NEW l \in Lists, NEW i \in Int, At(Start, l, i) # Null
      PROVE  l = Free /\ i \in DOMAIN Nodes /\ At(Start, l, i) = Nodes[i]
  BY <1>2, <1>3, <1>4, <1>5, <1>8
<1>9. RepeatsNone(Start)
  <2> SUFFICES ASSUME NEW l \in Lists, NEW i \in Int, At(Start, l, i) # Null,
                      NEW k \in Lists, NEW j \in Int, At(Start, k, j) = At(Start, l, i)
               PROVE  k = l /\ j = i
    BY DEF RepeatsNone
  <2>1. l = Free /\ i \in DOMAIN Nodes /\ k = Free /\ j \in DOMAIN Nodes /\ Nodes[j] = Nodes[i]
    BY <1>8
  <2> QED  BY <2>1, NodesAssumption
<1>10. HasAll(Built, Start, Pool)
  <2> SUFFICES ASSUME NEW n \in Pool
               PROVE  ListOf(Built, n) \in Lists /\ \E i \in Int : At(Start, ListOf(Built, n), i) = n
    BY DEF HasAll
  <2>1. PICK i \in DOMAIN Nodes : Nodes[i] = n
    BY DEF Pool, Elems
  <2>2. i \in Int /\ ListOf(Built, n) = Free
    BY <2>1, <1>2, BuiltIs
  <2> QED  BY <2>1, <2>2, <1>2, <1>3, <1>5
<1>11. Neighbours(Built, Start)
  <2> SUFFICES ASSUME NEW l \in Lists, NEW i \in Int, At(Start, l, i) # Null
               PROVE  /\ NextOf(Built, At(Start, l, i)) = At(Start, l, i + 1)
                      /\ PrevOf(Built, At(Start, l, i)) = At(Start, l, i - 1)
                      /\ ListOf(Built, At(Start, l, i)) = l
    BY DEF Neighbours
  <2>1. l = Free /\ i \in DOMAIN Nodes /\ At(Start, l, i) = Nodes[i]
    BY <1>8
  <2>2. At(Start, l, i + 1) = Item(Nodes, i + 1) /\ At(Start, l, i - 1) = Item(Nodes, i - 1)
    BY <2>1, <1>5
  <2> QED  BY <2>1, <2>2, BuiltIs
<1>12. Ends(Built, Start)
  <2> SUFFICES ASSUME NEW l \in Lists
               PROVE  FirstOf(Built, l) = At(Start, l, 1) /\ LastOf(Built, l) = At(Start, l, Count(Start, l))
    BY DEF Ends
  <2>1. CASE l = Free
    BY <2>1, <1>2, <1>3, <1>5, <1>6, BuiltIs
  <2>2. CASE l # Free
    BY <2>2, <1>5, <1>6, BuiltIs
  <2> QED  BY <2>1, <2>2
<1> QED  BY <1>1, <1>7, <1>9, <1>10, <1>11, <1>12, BuiltIs DEF Matches, LinkedAs

\* The abstract lists count as these do.
LEMMA SameCardinality ==
  ASSUME NEW S
  PROVE Sequence!Cardinality(S) = Cardinality(S)
BY DEF Sequence!Cardinality, Cardinality, Sequence!IsFiniteSet, IsFiniteSet

\* The initial heap implements the initial lists.
LEMMA InitImplements ==
  ASSUME heap = Built
  PROVE  Sequence!LInit
<1>1. \A l \in Lists : Chain(heap, l) = Start[l]
  BY BuiltMatches, ChainIs
<1>2. PICK list : list = [l \in Lists |-> Chain(heap, l)]
  OBVIOUS
<1>3. \A l \in Lists : list[l] = IF l = Free THEN Nodes ELSE <<>>
  BY <1>1, <1>2 DEF Start
<1>4. Free \in Lists /\ Elems(Nodes) = Pool
  BY NodesAssumption DEF Pool
<1>5. (\A l \in Lists \ {Free} : list[l] = <<>>) /\ Len(list[Free]) = Cardinality(Pool) /\ Elems(list[Free]) = Pool
  BY <1>3, <1>4, PoolSize
<1> QED  BY <1>2, <1>5, SameCardinality DEF Sequence!LInit, Sequence!Elems, Elems
-----------------------------------------------------------------------------
(* A loop splits the list it walks through.                                *)

\* w are the elements of s at the places U, in their order.
Selects(w, s, U) ==
  /\ \A a \in 1 .. Len(w) : \E i \in U : Item(w, a) = Item(s, i)
  /\ \A i \in U : \E a \in 1 .. Len(w) : Item(w, a) = Item(s, i)
  /\ \A a \in 1 .. Len(w) : \A i \in U : Item(w, a) = Item(s, i) =>
        \A b \in 1 .. Len(w) : \A j \in U : Item(w, b) = Item(s, j) => (a < b <=> i < j)
ItemsAppended(r, w, x) ==
  Len(r) = Len(w) + 1 /\ \A j \in Int : Item(r, j) = IF j = Len(w) + 1 THEN x ELSE Item(w, j)

\* A selection keeps the order.
LEMMA SelectsOrder ==
  ASSUME NEW w, NEW s, NEW U \in SUBSET Int, Selects(w, s, U), Len(w) \in Nat,
         NEW a \in 1 .. Len(w), NEW b \in 1 .. Len(w), NEW i \in U, NEW j \in U,
         Item(w, a) = Item(s, i), Item(w, b) = Item(s, j)
  PROVE  (a < b <=> i < j) /\ (a = b <=> i = j) /\ i \in Int /\ j \in Int /\ a \in Int /\ b \in Int
<1>1. a < b <=> i < j
  BY DEF Selects
<1>2. b < a <=> j < i
  BY DEF Selects
<1> QED  BY <1>1, <1>2

\* A selection without one of its elements.
LEMMA SelectsWithout ==
  ASSUME NEW w, NEW s, NEW U \in SUBSET Int, Selects(w, s, U), Len(w) \in Nat,
         NEW a \in 1 .. Len(w), NEW i \in U, Item(w, a) = Item(s, i), NEW r, ItemsWithout(r, w, a)
  PROVE  Selects(r, s, U \ {i})
<1>1. Len(r) = Len(w) - 1 /\ a \in Int /\ U \ {i} \in SUBSET Int
  BY DEF ItemsWithout
<1>2. ASSUME NEW b \in 1 .. Len(r)
      PROVE  \E bb \in 1 .. Len(w) : Item(r, b) = Item(w, bb) /\ bb # a /\ bb = IF b < a THEN b ELSE b + 1
  <2>1. PICK bb \in Int : bb = IF b < a THEN b ELSE b + 1
    OBVIOUS
  <2>2. Item(r, b) = Item(w, bb)
    <3>1. b \in Int
      BY <1>1
    <3>2. Item(r, b) = IF b < a THEN Item(w, b) ELSE Item(w, b + 1)
      BY <3>1 DEF ItemsWithout
    <3> QED  BY <2>1, <3>2
  <2>3. bb \in 1 .. Len(w) /\ bb # a
    BY <2>1, <1>1
  <2> QED  BY <2>1, <2>2, <2>3
<1>3. ASSUME NEW b \in 1 .. Len(r) PROVE \E j \in U \ {i} : Item(r, b) = Item(s, j)
  <2>1. PICK bb \in 1 .. Len(w) : Item(r, b) = Item(w, bb) /\ bb # a
    BY <1>2
  <2>2. PICK j \in U : Item(w, bb) = Item(s, j)
    BY DEF Selects
  <2>3. a = bb <=> i = j
    BY <2>2, SelectsOrder
  <2> QED  BY <2>1, <2>2, <2>3
<1>4. ASSUME NEW j \in U \ {i} PROVE \E b \in 1 .. Len(r) : Item(r, b) = Item(s, j)
  <2>1. PICK bb \in 1 .. Len(w) : Item(w, bb) = Item(s, j)
    BY DEF Selects
  <2>2. a = bb <=> i = j
    BY <2>1, SelectsOrder
  <2>3. PICK b \in Int : b = IF bb < a THEN bb ELSE bb - 1
    OBVIOUS
  <2>4. b \in 1 .. Len(r) /\ bb = IF b < a THEN b ELSE b + 1
    BY <2>2, <2>3, <1>1
  <2>5. Item(r, b) = Item(w, bb)
    BY <2>4 DEF ItemsWithout
  <2> QED  BY <2>1, <2>4, <2>5
<1>5. ASSUME NEW b \in 1 .. Len(r), NEW j \in U \ {i}, Item(r, b) = Item(s, j),
             NEW c \in 1 .. Len(r), NEW k \in U \ {i}, Item(r, c) = Item(s, k)
      PROVE  b < c <=> j < k
  <2>1. PICK bb \in 1 .. Len(w) : Item(r, b) = Item(w, bb) /\ bb = IF b < a THEN b ELSE b + 1
    BY <1>2
  <2>2. PICK cc \in 1 .. Len(w) : Item(r, c) = Item(w, cc) /\ cc = IF c < a THEN c ELSE c + 1
    BY <1>2
  <2>3. Item(w, bb) = Item(s, j) /\ Item(w, cc) = Item(s, k) /\ j \in U /\ k \in U
    BY <2>1, <2>2, <1>5
  <2>4. bb < cc <=> j < k
    BY <2>3, SelectsOrder
  <2>5. bb < cc <=> b < c
    BY <2>1, <2>2, <1>1
  <2> QED  BY <2>4, <2>5
<1> QED  BY <1>3, <1>4, <1>5 DEF Selects

\* A selection with one more element, after all of its own.
LEMMA SelectsAppend ==
  ASSUME NEW w, NEW s, NEW U \in SUBSET Int, Selects(w, s, U), Len(w) \in Nat,
         NEW i \in Int, \A j \in U : j < i /\ Item(s, j) # Item(s, i),
         NEW r, ItemsAppended(r, w, Item(s, i))
  PROVE  Selects(r, s, U \cup {i})
<1>1. Len(r) = Len(w) + 1 /\ U \cup {i} \in SUBSET Int /\ Len(w) + 1 \in 1 .. Len(r)
  BY DEF ItemsAppended
<1>2. ASSUME NEW b \in 1 .. Len(r) PROVE Item(r, b) = IF b = Len(w) + 1 THEN Item(s, i) ELSE Item(w, b)
  BY DEF ItemsAppended
<1>3. ASSUME NEW b \in 1 .. Len(r), b # Len(w) + 1 PROVE b \in 1 .. Len(w)
  BY <1>1, <1>3
<1>4. ASSUME NEW b \in 1 .. Len(r) PROVE \E j \in U \cup {i} : Item(r, b) = Item(s, j)
  <2>1. CASE b = Len(w) + 1
    BY <2>1, <1>2
  <2>2. CASE b # Len(w) + 1
    <3>1. PICK j \in U : Item(w, b) = Item(s, j)
      BY <2>2, <1>3 DEF Selects
    <3> QED  BY <3>1, <2>2, <1>2
  <2> QED  BY <2>1, <2>2
<1>5. ASSUME NEW j \in U \cup {i} PROVE \E b \in 1 .. Len(r) : Item(r, b) = Item(s, j)
  <2>1. CASE j \in U
    <3>1. PICK b \in 1 .. Len(w) : Item(w, b) = Item(s, j)
      BY <2>1 DEF Selects
    <3>2. b \in 1 .. Len(r) /\ b # Len(w) + 1
      BY <1>1
    <3> QED  BY <3>1, <3>2, <1>2
  <2>2. CASE j = i
    BY <2>2, <1>1, <1>2
  <2> QED  BY <2>1, <2>2
\* Where a place of r comes from.
<1>6. ASSUME NEW b \in 1 .. Len(r), NEW j \in U \cup {i}, Item(r, b) = Item(s, j)
      PROVE  \/ b = Len(w) + 1 /\ j = i
             \/ b \in 1 .. Len(w) /\ j \in U /\ Item(w, b) = Item(s, j)
  <2>1. CASE b = Len(w) + 1
    BY <2>1, <1>2, <1>6
  <2>2. CASE b # Len(w) + 1
    <3>1. b \in 1 .. Len(w) /\ Item(w, b) = Item(s, j)
      BY <2>2, <1>2, <1>3, <1>6
    <3>2. PICK k \in U : Item(w, b) = Item(s, k)
      BY <3>1 DEF Selects
    <3>3. j # i
      BY <3>1, <3>2
    <3> QED  BY <3>1, <3>3
  <2> QED  BY <2>1, <2>2
<1>7. ASSUME NEW b \in 1 .. Len(r), NEW j \in U \cup {i}, Item(r, b) = Item(s, j),
             NEW c \in 1 .. Len(r), NEW k \in U \cup {i}, Item(r, c) = Item(s, k)
      PROVE  b < c <=> j < k
  <2>1. \/ b = Len(w) + 1 /\ j = i
        \/ b \in 1 .. Len(w) /\ j \in U /\ Item(w, b) = Item(s, j)
    BY <1>6, <1>7
  <2>2. \/ c = Len(w) + 1 /\ k = i
        \/ c \in 1 .. Len(w) /\ k \in U /\ Item(w, c) = Item(s, k)
    BY <1>6, <1>7
  <2>3. CASE b \in 1 .. Len(w) /\ j \in U /\ Item(w, b) = Item(s, j) /\ c \in 1 .. Len(w) /\ k \in U /\ Item(w, c) = Item(s, k)
    BY <2>3, SelectsOrder
  <2>4. CASE b = Len(w) + 1 /\ j = i
    BY <2>2, <2>4
  <2>5. CASE c = Len(w) + 1 /\ k = i
    BY <2>1, <2>5
  <2> QED  BY <2>1, <2>2, <2>3, <2>4, <2>5
<1> QED  BY <1>4, <1>5, <1>7 DEF Selects

\* The place after that of an element whose successor is selected too holds this successor.
LEMMA SelectsNext ==
  ASSUME NEW S, NEW w \in Seq(S), NEW s \in Seq(S), NEW U \in SUBSET (1 .. Len(s)), Selects(w, s, U),
         NEW a \in 1 .. Len(w), NEW i \in U, Item(w, a) = Item(s, i), i + 1 \in 1 .. Len(s) => i + 1 \in U
  PROVE  Item(w, a + 1) = Item(s, i + 1)
<1>1. Len(w) \in Nat /\ Len(s) \in Nat /\ U \in SUBSET Int /\ a \in Int /\ i \in Int
  OBVIOUS
<1>2. CASE i + 1 \in 1 .. Len(s)
  <2>1. i + 1 \in U
    BY <1>2
  <2>2. PICK b \in 1 .. Len(w) : Item(w, b) = Item(s, i + 1)
    BY <2>1 DEF Selects
  <2>3. a < b <=> i < i + 1
    BY <1>1, <2>1, <2>2, SelectsOrder
  <2>4. CASE b = a + 1
    BY <2>2, <2>4
  <2>5. CASE b # a + 1
    <3>1. a + 1 \in 1 .. Len(w) /\ a + 1 < b /\ a < a + 1
      BY <1>1, <2>3, <2>5
    <3>2. PICK j \in U : Item(w, a + 1) = Item(s, j)
      BY <3>1 DEF Selects
    <3>3. a < a + 1 <=> i < j
      BY <1>1, <3>1, <3>2, SelectsOrder
    <3>4. a + 1 < b <=> j < i + 1
      BY <1>1, <2>1, <2>2, <3>1, <3>2, SelectsOrder
    <3> QED  BY <1>1, <3>1, <3>3, <3>4
  <2> QED  BY <2>4, <2>5
<1>3. CASE i + 1 \notin 1 .. Len(s)
  <2>1. Item(s, i + 1) = Null
    BY <1>3, SeqItem
  <2>2. CASE a + 1 \in 1 .. Len(w)
    <3>1. PICK j \in U : Item(w, a + 1) = Item(s, j)
      BY <2>2 DEF Selects
    <3>2. a < a + 1 <=> i < j
      BY <1>1, <2>2, <3>1, SelectsOrder
    <3>3. i \in 1 .. Len(s) /\ j \in 1 .. Len(s)
      OBVIOUS
    <3> QED  BY <1>1, <1>3, <3>2, <3>3
  <2>3. CASE a + 1 \notin 1 .. Len(w)
    BY <2>1, <2>3, SeqItem
  <2> QED  BY <2>2, <2>3
<1> QED  BY <1>2, <1>3

\* A sequence that repeats nothing selects all of itself.
LEMMA SelectsAll ==
  ASSUME NEW S, NEW s \in Seq(S), \A i, j \in 1 .. Len(s) : Item(s, i) = Item(s, j) => i = j
  PROVE  Selects(s, s, 1 .. Len(s))
BY DEF Selects

\* The empty selection.
LEMMA SelectsNone ==
  ASSUME NEW s
  PROVE  Selects(<<>>, s, {})
BY DEF Selects

\* Such a selection is one of InOrder.
LEMMA SelectsInOrder ==
  ASSUME NEW S, NEW w \in Seq(S), NEW s \in Seq(S), NEW U \in SUBSET (1 .. Len(s)), Selects(w, s, U),
         NEW T, T = {s[i] : i \in U}
  PROVE  w \in InOrder(s, T) /\ Elems(w) = T
<1>1. /\ Len(w) \in Nat /\ DOMAIN w = 1 .. Len(w) /\ \A a \in 1 .. Len(w) : Item(w, a) = w[a]
      /\ Len(s) \in Nat /\ DOMAIN s = 1 .. Len(s) /\ \A i \in 1 .. Len(s) : Item(s, i) = s[i]
      /\ U \in SUBSET Int
  BY SeqItem
<1>2. ASSUME NEW a \in DOMAIN w PROVE \E i \in U : w[a] = s[i]
  BY <1>1 DEF Selects
<1>3. ASSUME NEW i \in U PROVE \E a \in DOMAIN w : w[a] = s[i]
  BY <1>1 DEF Selects
<1>4. ASSUME NEW a \in DOMAIN w, NEW b \in DOMAIN w, NEW i \in U, NEW j \in U, w[a] = s[i], w[b] = s[j]
      PROVE  (a < b <=> i < j) /\ (a = b <=> i = j)
  <2>1. a \in 1 .. Len(w) /\ b \in 1 .. Len(w) /\ Item(w, a) = Item(s, i) /\ Item(w, b) = Item(s, j)
    BY <1>1, <1>4
  <2> QED  BY <1>1, <2>1, SelectsOrder
<1>5. Elems(w) = T
  BY <1>2, <1>3 DEF Elems
<1>6. \A a, b \in DOMAIN w : w[a] = w[b] => a = b
  <2> SUFFICES ASSUME NEW a \in DOMAIN w, NEW b \in DOMAIN w, w[a] = w[b] PROVE a = b
    OBVIOUS
  <2>1. PICK i \in U : w[a] = s[i]
    BY <1>2
  <2> QED  BY <2>1, <1>4
<1>7. Cardinality(T) = Len(w)
  BY <1>5, <1>6, DistinctSize
<1>8. w \in [1 .. Cardinality(T) -> T]
  <2>1. w \in [1 .. Len(w) -> S]
    OBVIOUS
  <2>2. \A a \in 1 .. Len(w) : w[a] \in T
    BY <1>1, <1>2
  <2> QED  BY <2>1, <2>2, <1>7
<1>9. ASSUME NEW a \in DOMAIN w, NEW b \in DOMAIN w, a < b
      PROVE  \E i, j \in DOMAIN s : i < j /\ s[i] = w[a] /\ s[j] = w[b]
  <2>1. PICK i \in U : w[a] = s[i]
    BY <1>2
  <2>2. PICK j \in U : w[b] = s[j]
    BY <1>2
  <2>3. i < j /\ i \in DOMAIN s /\ j \in DOMAIN s
    BY <2>1, <2>2, <1>1, <1>4, <1>9
  <2> QED  BY <2>1, <2>2, <2>3
<1> QED  BY <1>5, <1>8, <1>9 DEF InOrder

\* The places of s whose nodes are left there, and those whose nodes are taken out, after k turns.
Left(s, S, k) == {i \in 1 .. Len(s) : i > k \/ s[i] \notin S}
Taken(s, S, k) == {i \in 1 .. Len(s) : i <= k /\ s[i] \in S}

\* The lists r are those of q after k turns, of which m are the nodes moved.
AfterTurns(at, q, src, dst, S, k, r, m) ==
  /\ Matches(at.heap, r) /\ at.node = Item(q[src], k + 1)
  /\ m \in Seq(Pool) /\ r[dst] = q[dst] \o m /\ \A l \in Lists \ {src, dst} : r[l] = q[l]
  /\ Selects(r[src], q[src], Left(q[src], S, k)) /\ Selects(m, q[src], Taken(q[src], S, k))

\* The elements of a sequence with one appended.
LEMMA AppendIs ==
  ASSUME NEW S, NEW m \in Seq(S), NEW x \in S, NEW r, r = Append(m, x)
  PROVE  r \in Seq(S) /\ ItemsAppended(r, m, x)
<1>1. r \in Seq(S) /\ Len(r) = Len(m) + 1 /\ Len(m) \in Nat /\ DOMAIN r = 1 .. Len(m) + 1 /\ DOMAIN m = 1 .. Len(m)
  OBVIOUS
<1>2. r[Len(m) + 1] = x /\ \A j \in 1 .. Len(m) : r[j] = m[j]
  OBVIOUS
<1>3. ASSUME NEW j \in Int PROVE Item(r, j) = IF j = Len(m) + 1 THEN x ELSE Item(m, j)
  BY <1>1, <1>2 DEF Item
<1> QED  BY <1>1, <1>3 DEF ItemsAppended

\* c is p with m appended to it.
Extends(c, p, m) == c = p \o m

\* Appending to what follows a prefix.
LEMMA AppendAtEnd ==
  ASSUME NEW p \in Seq(Pool), NEW m \in Seq(Pool), NEW x \in Pool, NEW c, Extends(c, p, m),
         NEW u, u = Append(c, x), NEW a, a = Append(m, x)
  PROVE  Extends(u, p, a)
<1>1. /\ c \in Seq(Pool) /\ Len(c) = Len(p) + Len(m)
      /\ \A i \in 1 .. Len(p) + Len(m) : c[i] = IF i <= Len(p) THEN p[i] ELSE m[i - Len(p)]
  <2>1. c = p \o m
    BY DEF Extends
  <2> QED  BY <2>1, ConcatProperties
<1>2. /\ a \in Seq(Pool) /\ Len(a) = Len(m) + 1 /\ a[Len(m) + 1] = x /\ \A i \in 1 .. Len(m) : a[i] = m[i]
      /\ Len(m) \in Nat /\ Len(p) \in Nat
  OBVIOUS
<1>3. PICK v : v = p \o a
  OBVIOUS
<1>4. /\ v \in Seq(Pool) /\ Len(v) = Len(p) + Len(a)
      /\ \A i \in 1 .. Len(p) + Len(a) : v[i] = IF i <= Len(p) THEN p[i] ELSE a[i - Len(p)]
  BY <1>2, <1>3, ConcatProperties
<1>5. /\ u \in Seq(Pool) /\ Len(u) = Len(p) + Len(m) + 1 /\ u[Len(p) + Len(m) + 1] = x
      /\ \A i \in 1 .. Len(p) + Len(m) : u[i] = c[i]
  <2>1. c \in Seq(Pool)
    BY <1>1
  <2>2. u \in Seq(Pool) /\ Len(u) = Len(c) + 1 /\ u[Len(c) + 1] = x /\ \A i \in 1 .. Len(c) : u[i] = c[i]
    BY <2>1
  <2> QED  BY <2>2, <1>1
<1>6. Len(v) = Len(p) + Len(m) + 1
  BY <1>2, <1>4
<1>7. ASSUME NEW i \in 1 .. Len(u) PROVE u[i] = v[i]
  <2>1. CASE i = Len(p) + Len(m) + 1
    <3>1. ~(i <= Len(p)) /\ i - Len(p) = Len(m) + 1 /\ i \in 1 .. Len(p) + Len(a)
      BY <2>1, <1>2
    <3>2. v[i] = a[i - Len(p)]
      BY <3>1, <1>4
    <3> QED  BY <2>1, <3>1, <3>2, <1>2, <1>5
  <2>2. CASE i # Len(p) + Len(m) + 1
    <3>1. i \in 1 .. Len(p) + Len(m) /\ i \in 1 .. Len(p) + Len(a) /\ (~(i <= Len(p)) => i - Len(p) \in 1 .. Len(m))
      BY <2>2, <1>2, <1>5
    <3>2. u[i] = c[i]
      BY <3>1, <1>5
    <3>3. c[i] = IF i <= Len(p) THEN p[i] ELSE m[i - Len(p)]
      BY <3>1, <1>1
    <3>4. v[i] = IF i <= Len(p) THEN p[i] ELSE a[i - Len(p)]
      BY <3>1, <1>4
    <3> QED  BY <3>1, <3>2, <3>3, <3>4, <1>2
  <2> QED  BY <2>1, <2>2
<1>8. u = v
  <2>1. u \in Seq(Pool) /\ v \in Seq(Pool) /\ Len(u) = Len(v) /\ \A i \in 1 .. Len(u) : u[i] = v[i]
    BY <1>4, <1>5, <1>6, <1>7
  <2> QED  BY <2>1, SeqEqual
<1> QED  BY <1>3, <1>8 DEF Extends

\* A turn of the loop: the nodes already visited are split, the next to visit was read in time.
LEMMA TurnKeeps ==
  ASSUME NEW q \in [Lists -> Seq(Pool)], NEW src \in Lists, NEW dst \in Lists, src # dst, NEW S, NEW k \in Nat,
         \A i, j \in DOMAIN q[src] : q[src][i] = q[src][j] => i = j,
         NEW at, NEW r, NEW m, AfterTurns(at, q, src, dst, S, k, r, m)
  PROVE  \E rr, mm : AfterTurns(TurnOfLoop(at, S, dst), q, src, dst, S, k + 1, rr, mm)
<1>1. PICK s, x, g : s = q[src] /\ x = at.node /\ g = at.heap
  OBVIOUS
<1>2. /\ s \in Seq(Pool) /\ Len(s) \in Nat /\ DOMAIN s = 1 .. Len(s) /\ Null \notin Pool
      /\ \A i \in 1 .. Len(s) : Item(s, i) = s[i] /\ s[i] \in Pool
      /\ \A i : i \notin 1 .. Len(s) => Item(s, i) = Null
  BY <1>1, SeqItem, NodesAssumption
<1>3. /\ Matches(g, r) /\ x = Item(s, k + 1) /\ m \in Seq(Pool) /\ r[dst] = q[dst] \o m
      /\ \A l \in Lists \ {src, dst} : r[l] = q[l]
      /\ Selects(r[src], s, Left(s, S, k)) /\ Selects(m, s, Taken(s, S, k))
  BY <1>1 DEF AfterTurns
<1>4. PICK t : t = TurnOfLoop(at, S, dst)
  OBVIOUS
<1>5. (k + 1) + 1 = k + 2 /\ k + 1 \in Int
  OBVIOUS
<1>6. CASE x = Null
  <2>1. k + 1 \notin 1 .. Len(s) /\ k + 2 \notin 1 .. Len(s)
    BY <1>2, <1>3, <1>6
  <2>2. Left(s, S, k + 1) = Left(s, S, k) /\ Taken(s, S, k + 1) = Taken(s, S, k)
    BY <2>1, <1>2 DEF Left, Taken
  <2>3. t = at
    BY <1>1, <1>4, <1>6 DEF TurnOfLoop
  <2>4. x = Item(s, (k + 1) + 1)
    BY <2>1, <1>2, <1>5, <1>6
  <2>5. AfterTurns(t, q, src, dst, S, k + 1, r, m)
    BY <2>2, <2>3, <2>4, <1>1, <1>3 DEF AfterTurns
  <2> QED  BY <2>5, <1>4
<1>7. CASE x # Null
  <2>1. k + 1 \in 1 .. Len(s) /\ x = s[k + 1] /\ x \in Pool
    BY <1>2, <1>3, <1>7
  <2>2. k + 1 \in Left(s, S, k) /\ Left(s, S, k) \in SUBSET (1 .. Len(s)) /\ Left(s, S, k) \in SUBSET Int
    BY <2>1, <1>2 DEF Left
  <2>3. r[src] \in Seq(Pool) /\ Len(r[src]) \in Nat
    BY <1>3 DEF Matches
  <2>4. PICK a \in 1 .. Len(r[src]) : Item(r[src], a) = Item(s, k + 1)
    BY <2>2, <1>3 DEF Selects
  <2>5. a \in DOMAIN r[src] /\ r[src][a] = x /\ a \in Int
    BY <2>3, <2>4, <1>3, SeqItem
  <2>6. NextOf(g, x) = At(r, src, a + 1)
    BY <2>5, <1>3, PlaceOf
  <2>7. Item(r[src], a + 1) = Item(s, (k + 1) + 1)
    <3>1. (k + 1) + 1 \in 1 .. Len(s) => (k + 1) + 1 \in Left(s, S, k)
      BY <1>2 DEF Left
    <3>2. PICK w, i, U : w = r[src] /\ i = k + 1 /\ U = Left(s, S, k)
      OBVIOUS
    <3>3. w \in Seq(Pool) /\ s \in Seq(Pool) /\ U \in SUBSET (1 .. Len(s)) /\ Selects(w, s, U)
      BY <3>2, <2>2, <2>3, <1>2, <1>3
    <3>4. a \in 1 .. Len(w) /\ i \in U /\ Item(w, a) = Item(s, i) /\ (i + 1 \in 1 .. Len(s) => i + 1 \in U)
      BY <3>1, <3>2, <2>2, <2>4
    <3>5. Item(w, a + 1) = Item(s, i + 1)
      BY <3>3, <3>4, SelectsNext
    <3> QED  BY <3>2, <3>5
  <2>8. t.node = Item(s, (k + 1) + 1)
    BY <2>6, <2>7, <1>1, <1>4, <1>7 DEF TurnOfLoop, NextOf, At
  <2>9. CASE x \in S
    <3>1. PICK rr, mm : rr = Moved(r, src, a, dst, TRUE) /\ mm = Append(m, x)
      OBVIOUS
    <3>2. t.heap = MoveNode(g, x, dst, TRUE)
      BY <2>9, <1>1, <1>4, <1>7 DEF TurnOfLoop
    <3>3. Matches(t.heap, rr)
      <4>1. Matches(g, r) /\ a \in DOMAIN r[src] /\ x = r[src][a] /\ TRUE \in BOOLEAN
        BY <2>5, <1>3
      <4>2. Matches(MoveNode(g, x, dst, TRUE), Moved(r, src, a, dst, TRUE))
        BY <4>1, MoveLinks
      <4> QED  BY <3>1, <3>2, <4>2
    <3>4. r \in [Lists -> Seq(Pool)]
      BY <1>3 DEF Matches
    <3>5. /\ rr[src] = WithoutIndex(r[src], a) /\ rr[dst] = Append(r[dst], x)
          /\ \A l \in Lists \ {src, dst} : rr[l] = r[l]
      BY <3>1, <3>4, <2>5 DEF Moved
    <3>6. mm \in Seq(Pool) /\ ItemsAppended(mm, m, x)
      BY <3>1, <2>1, <1>3, AppendIs
    <3>7. rr[dst] = q[dst] \o mm
      <4>1. PICK p, c, u : p = q[dst] /\ c = r[dst] /\ u = rr[dst]
        OBVIOUS
      <4>2. p \in Seq(Pool) /\ m \in Seq(Pool) /\ x \in Pool
        BY <4>1, <2>1, <1>3
      <4>3. Extends(c, p, m) /\ u = Append(c, x) /\ mm = Append(m, x)
        BY <4>1, <3>1, <3>5, <1>3 DEF Extends
      <4>4. Extends(u, p, mm)
        BY <4>2, <4>3, AppendAtEnd
      <4> QED  BY <4>1, <4>4 DEF Extends
    <3>8. ItemsWithout(rr[src], r[src], a)
      <4>1. PICK w, v : w = r[src] /\ v = rr[src]
        OBVIOUS
      <4>2. w \in Seq(Pool) /\ a \in DOMAIN w /\ v = WithoutIndex(w, a)
        BY <4>1, <3>5, <2>3, <2>5
      <4>3. ItemsWithout(v, w, a)
        BY <4>2, WithoutAt
      <4> QED  BY <4>1, <4>3
    <3>9. Selects(rr[src], s, Left(s, S, k) \ {k + 1})
      BY <3>8, <2>2, <2>3, <2>4, <1>3, SelectsWithout
    <3>10. Left(s, S, k) \ {k + 1} = Left(s, S, k + 1)
      BY <2>1, <2>9, <1>2 DEF Left
    <3>11. Selects(mm, s, Taken(s, S, k) \cup {k + 1})
      <4>1. Taken(s, S, k) \in SUBSET Int /\ Len(m) \in Nat
        BY <1>3 DEF Taken
      <4>2. ASSUME NEW j \in Taken(s, S, k) PROVE j < k + 1 /\ Item(s, j) # Item(s, k + 1)
        <5>1. j \in 1 .. Len(s) /\ j <= k
          BY DEF Taken
        <5>2. j < k + 1 /\ j # k + 1
          BY <5>1
        <5> QED  BY <5>1, <5>2, <2>1, <1>1, <1>2
      <4>3. ItemsAppended(mm, m, Item(s, k + 1))
        BY <3>6, <1>3
      <4> QED  BY <4>1, <4>2, <4>3, <1>3, <1>5, SelectsAppend
    <3>12. Taken(s, S, k) \cup {k + 1} = Taken(s, S, k + 1)
      BY <2>1, <2>9, <1>2 DEF Taken
    <3>13. \A l \in Lists \ {src, dst} : rr[l] = q[l]
      BY <3>5, <1>3
    <3>14. AfterTurns(t, q, src, dst, S, k + 1, rr, mm)
      BY <3>3, <3>6, <3>7, <3>9, <3>10, <3>11, <3>12, <3>13, <2>8, <1>1 DEF AfterTurns
    <3> QED  BY <3>14, <1>4
  <2>10. CASE x \notin S
    <3>1. t.heap = g
      BY <2>10, <1>1, <1>4, <1>7 DEF TurnOfLoop
    <3>2. Left(s, S, k + 1) = Left(s, S, k) /\ Taken(s, S, k + 1) = Taken(s, S, k)
      BY <2>1, <2>10, <1>2 DEF Left, Taken
    <3>3. AfterTurns(t, q, src, dst, S, k + 1, r, m)
      BY <3>1, <3>2, <2>8, <1>1, <1>3 DEF AfterTurns
    <3> QED  BY <3>3, <1>4
  <2> QED  BY <2>9, <2>10
<1> QED  BY <1>6, <1>7

\* There is a function with the turns of the loop.
LEMMA LoopTurns ==
  ASSUME NEW h, NEW n, NEW S, NEW dst
  PROVE  \E f : /\ f[0] = [heap |-> h, node |-> n]
                /\ \A k \in 0 .. Len(Nodes) - 1 : f[k + 1] = TurnOfLoop(f[k], S, dst)
                /\ MoveLoop(h, n, S, dst) = f[Len(Nodes)]
<1> DEFINE start == [heap |-> h, node |-> n]
           turned(f, c) == [k \in 0 .. c |-> IF k = 0 THEN start ELSE TurnOfLoop(f[k - 1], S, dst)]
           J == {c \in 0 .. Len(Nodes) : \E f : f = turned(f, c)}
           at == CHOOSE f : f = turned(f, Len(Nodes))
<1>1. Len(Nodes) \in Nat
  BY PoolSize
<1>2. MoveLoop(h, n, S, dst) = at[Len(Nodes)]
  BY DEF MoveLoop
<1>3. 0 \in J
  <2>1. PICK f : f = [k \in 0 .. 0 |-> start]
    OBVIOUS
  <2>2. \A k \in 0 .. 0 : k = 0
    OBVIOUS
  <2>3. f = turned(f, 0)
    BY <2>1, <2>2
  <2> QED  BY <2>3, <1>1
<1>4. ASSUME NEW c \in 0 .. Len(Nodes) - 1, c \in J PROVE c + 1 \in J
  <2>1. PICK f : f = turned(f, c)
    BY <1>4
  <2>2. PICK g : g = turned(f, c + 1)
    OBVIOUS
  <2>3. ASSUME NEW k \in 0 .. c PROVE g[k] = f[k]
    <3>1. k \in 0 .. c + 1
      BY <1>1
    <3> QED  BY <3>1, <2>1, <2>2
  <2>4. ASSUME NEW k \in 0 .. c + 1 PROVE g[k] = IF k = 0 THEN start ELSE TurnOfLoop(g[k - 1], S, dst)
    <3>1. k # 0 => k - 1 \in 0 .. c
      BY <1>1
    <3> QED  BY <3>1, <2>2, <2>3
  <2>5. g = turned(g, c + 1)
    BY <2>2, <2>4
  <2> QED  BY <2>5, <1>1
<1>5. 0 .. Len(Nodes) \subseteq J
  <2> HIDE DEF J
  <2> QED  BY <1>1, <1>3, <1>4, ReachesAll
<1>6. at = turned(at, Len(Nodes))
  <2>1. \E f : f = turned(f, Len(Nodes))
    BY <1>1, <1>5
  <2> QED  BY <2>1
<1> HIDE DEF at
<1>7. at[0] = start
  BY <1>1, <1>6
<1>8. ASSUME NEW k \in 0 .. Len(Nodes) - 1 PROVE at[k + 1] = TurnOfLoop(at[k], S, dst)
  <2>1. k + 1 \in 0 .. Len(Nodes) /\ k + 1 # 0 /\ (k + 1) - 1 = k
    BY <1>1
  <2> QED  BY <2>1, <1>6
<1> QED  BY <1>2, <1>7, <1>8

\* A loop over a whole list moves the nodes of S in it and ends.
LoopMoved(end, q, src, dst, T) ==
  \E rest \in InOrder(q[src], Elems(q[src]) \ T), moved \in InOrder(q[src], T) :
     /\ Matches(end.heap, [q EXCEPT ![src] = rest, ![dst] = @ \o moved])
     /\ end.node = Null

\* The loop ends after the last node, with the selected nodes at the back of dst in their order.
LEMMA LoopMoves ==
  ASSUME NEW h, NEW q, Matches(h, q), NEW src \in Lists, NEW dst \in Lists, src # dst, NEW S,
         NEW end, end = MoveLoop(h, h.first[src], S, dst), NEW T, T = {n \in Elems(q[src]) : n \in S}
  PROVE  LoopMoved(end, q, src, dst, T)
<1>1. /\ q \in [Lists -> Seq(Pool)] /\ \A i, j \in DOMAIN q[src] : q[src][i] = q[src][j] => i = j
  BY ListIsDistinct DEF Matches
<1>2. PICK s : s = q[src]
  OBVIOUS
<1>3. /\ s \in Seq(Pool) /\ Len(s) \in Nat /\ DOMAIN s = 1 .. Len(s) /\ Len(s) <= Len(Nodes) /\ Len(Nodes) \in Nat
      /\ \A i \in 1 .. Len(s) : Item(s, i) = s[i]
      /\ \A i : i \notin 1 .. Len(s) => Item(s, i) = Null
  BY <1>1, <1>2, ListFits, PoolSize, SeqItem
<1>4. PICK f : /\ f[0] = [heap |-> h, node |-> h.first[src]]
               /\ \A k \in 0 .. Len(Nodes) - 1 : f[k + 1] = TurnOfLoop(f[k], S, dst)
               /\ end = f[Len(Nodes)]
  BY LoopTurns
<1> DEFINE J == {k \in 0 .. Len(Nodes) : \E r, m : AfterTurns(f[k], q, src, dst, S, k, r, m)}
<1>5. 0 \in J
  <2>1. f[0].heap = h /\ f[0].node = h.first[src]
    BY <1>4
  <2>2. h.first[src] = Item(s, 0 + 1)
    BY <1>2 DEF Matches, LinkedAs, Ends, FirstOf, At
  <2>3. Left(s, S, 0) = 1 .. Len(s) /\ Taken(s, S, 0) = {}
    BY <1>3 DEF Left, Taken
  <2>4. Selects(s, s, Left(s, S, 0))
    <3>1. \A i, j \in 1 .. Len(s) : Item(s, i) = Item(s, j) => i = j
      BY <1>1, <1>2, <1>3
    <3> QED  BY <3>1, <2>3, <1>3, SelectsAll
  <2>5. Selects(<<>>, s, Taken(s, S, 0))
    BY <2>3, SelectsNone
  <2>6. q[dst] = q[dst] \o <<>> /\ <<>> \in Seq(Pool)
    BY <1>1
  <2>7. AfterTurns(f[0], q, src, dst, S, 0, q, <<>>)
    BY <2>1, <2>2, <2>4, <2>5, <2>6, <1>2 DEF AfterTurns
  <2> QED  BY <2>7, <1>3
<1>6. ASSUME NEW k \in 0 .. Len(Nodes) - 1, k \in J PROVE k + 1 \in J
  <2>1. PICK r, m : AfterTurns(f[k], q, src, dst, S, k, r, m)
    BY <1>6
  <2>2. k \in Nat /\ k + 1 \in 0 .. Len(Nodes)
    BY <1>3
  <2>3. \E rr, mm : AfterTurns(TurnOfLoop(f[k], S, dst), q, src, dst, S, k + 1, rr, mm)
    BY <2>1, <2>2, <1>1, TurnKeeps
  <2> QED  BY <2>2, <2>3, <1>4
<1>7. Len(Nodes) \in J
  <2> HIDE DEF J
  <2>1. 0 .. Len(Nodes) \subseteq J
    BY <1>3, <1>5, <1>6, ReachesAll
  <2> QED  BY <2>1, <1>3
<1>8. PICK r, m : AfterTurns(end, q, src, dst, S, Len(Nodes), r, m)
  BY <1>4, <1>7
<1>9. PICK U, V : U = Left(s, S, Len(Nodes)) /\ V = Taken(s, S, Len(Nodes))
  OBVIOUS
<1>10. U \in SUBSET (1 .. Len(s)) /\ V \in SUBSET (1 .. Len(s))
  BY <1>9 DEF Left, Taken
<1>11. Elems(s) \ T = {s[i] : i \in U} /\ T = {s[i] : i \in V}
  <2>1. \A i \in 1 .. Len(s) : i <= Len(Nodes) /\ ~(i > Len(Nodes))
    BY <1>3
  <2>2. \A i \in 1 .. Len(s) : (i \in U <=> s[i] \notin S) /\ (i \in V <=> s[i] \in S)
    BY <2>1, <1>9 DEF Left, Taken
  <2>3. \A n : n \in Elems(s) <=> \E i \in 1 .. Len(s) : n = s[i]
    BY <1>3 DEF Elems
  <2>4. \A n : n \in T <=> n \in Elems(s) /\ n \in S
    BY <1>2
  <2>5. T = {s[i] : i \in V}
    BY <2>2, <2>3, <2>4, <1>10
  <2>6. Elems(s) \ T = {s[i] : i \in U}
    BY <2>2, <2>3, <2>4, <1>10
  <2> QED  BY <2>5, <2>6
<1>12. /\ Matches(end.heap, r) /\ end.node = Item(s, Len(Nodes) + 1) /\ m \in Seq(Pool)
       /\ r[dst] = q[dst] \o m /\ \A l \in Lists \ {src, dst} : r[l] = q[l]
       /\ Selects(r[src], s, U) /\ Selects(m, s, V)
  BY <1>2, <1>8, <1>9 DEF AfterTurns
<1>13. end.node = Null
  BY <1>3, <1>12
<1>14. r \in [Lists -> Seq(Pool)] /\ r[src] \in Seq(Pool)
  BY <1>12 DEF Matches
<1>15. r[src] \in InOrder(s, Elems(s) \ T)
  <2>1. PICK w, R : w = r[src] /\ R = Elems(s) \ T
    OBVIOUS
  <2>2. w \in Seq(Pool) /\ Selects(w, s, U) /\ R = {s[i] : i \in U}
    BY <2>1, <1>11, <1>12, <1>14
  <2>3. w \in InOrder(s, R)
    BY <2>2, <1>3, <1>10, SelectsInOrder
  <2> QED  BY <2>1, <2>3
<1>16. m \in InOrder(s, T)
  <2>1. m \in Seq(Pool) /\ Selects(m, s, V) /\ T = {s[i] : i \in V}
    BY <1>11, <1>12
  <2> QED  BY <2>1, <1>3, <1>10, SelectsInOrder
<1>17. [q EXCEPT ![src] = r[src], ![dst] = @ \o m] = r
  BY <1>1, <1>12, <1>14
<1> QED  BY <1>2, <1>12, <1>13, <1>15, <1>16, <1>17 DEF LoopMoved
-----------------------------------------------------------------------------
(* The steps.                                                              *)

HeapIsLinked == \E q : Matches(heap, q)

\* The sequences read along the links are the lists the heap is linked as.
LEMMA ListedIs ==
  ASSUME NEW h, NEW q, Matches(h, q)
  PROVE  [l \in Lists |-> Chain(h, l)] = q
<1>1. \A l \in Lists : Chain(h, l) = q[l]
  BY ChainIs
<1>2. q \in [Lists -> Seq(Pool)]
  BY DEF Matches
<1> QED  BY <1>1, <1>2

\* The abstract lists leave an element out as these do.
LEMMA SameWithoutIndex == \A q, i : Sequence!WithoutIndex(q, i) = WithoutIndex(q, i)
BY DEF Sequence!WithoutIndex, WithoutIndex

\* The abstract lists select in order as these do.
LEMMA SameInOrder == \A q, S : Sequence!InOrder(q, S) = InOrder(q, S)
BY SameCardinality DEF Sequence!InOrder, InOrder

\* The abstract lists have elements as these do.
LEMMA SameElems == \A q : Sequence!Elems(q) = Elems(q)
BY DEF Sequence!Elems, Elems

\* A call of moveNode implements a move of the abstract lists, or a stutter.
LEMMA MoveStep ==
  ASSUME HeapIsLinked, NEW n \in Pool, NEW dst \in Lists, NEW back \in BOOLEAN,
         heap' = MoveNode(heap, n, dst, back)
  PROVE  HeapIsLinked' /\ (heap' # heap => Sequence!Move(n, dst, back))
<1>1. PICK q : Matches(heap, q)
  BY DEF HeapIsLinked
<1>2. PICK src : src = ListOf(heap, n)
  OBVIOUS
<1>3. CASE src = dst
  <2>1. heap' = heap
    BY <1>2, <1>3 DEF MoveNode, ListOf
  <2>2. Matches(heap', q)
    BY <1>1, <2>1
  <2> QED  BY <2>1, <2>2 DEF HeapIsLinked
<1>4. CASE src # dst
  <2>1. src \in Lists
    BY <1>1, <1>2, NodeHasPlace
  <2>2. PICK i \in DOMAIN q[src] : q[src][i] = n
    BY <1>1, <1>2, NodeHasPlace
  <2>3. PICK r : r = Moved(q, src, i, dst, back)
    OBVIOUS
  <2>4. Matches(heap', r)
    BY <1>1, <1>4, <2>1, <2>2, <2>3, MoveLinks
  <2>5. [l \in Lists |-> Chain(heap, l)] = q
    BY <1>1, ListedIs
  <2>6. [l \in Lists |-> Chain(heap, l)]' = r
    BY <2>4, ListedIs
  <2>7. r = [q EXCEPT ![src] = Sequence!WithoutIndex(@, i), ![dst] = IF back THEN Append(@, n) ELSE <<n>> \o @]
    BY <2>2, <2>3, SameWithoutIndex DEF Moved
  <2>8. Sequence!Move(n, dst, back)
    <3>1. [l \in Lists |-> Chain(heap, l)]' =
             [[l \in Lists |-> Chain(heap, l)] EXCEPT
                 ![src] = Sequence!WithoutIndex(@, i), ![dst] = IF back THEN Append(@, n) ELSE <<n>> \o @]
      BY <2>5, <2>6, <2>7
    <3>2. /\ src \in Lists \ {dst} /\ i \in DOMAIN [l \in Lists |-> Chain(heap, l)][src]
          /\ [l \in Lists |-> Chain(heap, l)][src][i] = n
      BY <1>4, <2>1, <2>2, <2>5
    <3> QED  BY <3>1, <3>2, Zenon DEF Sequence!Move
  <2> QED  BY <2>4, <2>8 DEF HeapIsLinked
<1> QED  BY <1>3, <1>4

\* The nodes of a list are those that say they are in it.
LEMMA NodesOf ==
  ASSUME NEW h, NEW q, Matches(h, q), NEW src \in Lists, NEW S \in SUBSET Pool
  PROVE  {n \in Elems(q[src]) : n \in S} = {n \in S : h.parent[n] = src}
<1>1. ASSUME NEW n \in Elems(q[src]) PROVE h.parent[n] = src
  <2>1. PICK i \in DOMAIN q[src] : n = q[src][i]
    BY DEF Elems
  <2>2. ListOf(h, n) = src
    BY <2>1, PlaceOf
  <2> QED  BY <2>2 DEF ListOf
<1>2. ASSUME NEW n \in S, h.parent[n] = src PROVE n \in Elems(q[src])
  <2>1. n \in Pool /\ src = ListOf(h, n)
    BY <1>2 DEF ListOf
  <2>2. \E i \in DOMAIN q[src] : q[src][i] = n
    BY <2>1, NodeHasPlace
  <2> QED  BY <2>2 DEF Elems
<1> QED  BY <1>1, <1>2

\* A loop implements the move of a selection, and has reached the end of the list.
LEMMA MatchingStep ==
  ASSUME HeapIsLinked, NEW src \in Lists, NEW dst \in Lists, NEW S \in SUBSET Pool, MoveMatching(src, dst, S)
  PROVE  /\ HeapIsLinked'
         /\ Sequence!MoveAll(src, dst, {n \in S : heap.parent[n] = src})
         /\ MoveLoop(heap, heap.first[src], S, dst).node = Null
<1>1. PICK q : Matches(heap, q)
  BY DEF HeapIsLinked
<1>2. PICK end, T : /\ end = MoveLoop(heap, heap.first[src], S, dst)
                    /\ T = {n \in Elems(q[src]) : n \in S}
  OBVIOUS
<1>3. src # dst /\ heap' = end.heap
  BY <1>2 DEF MoveMatching
<1>4. PICK rest \in InOrder(q[src], Elems(q[src]) \ T), moved \in InOrder(q[src], T) :
         /\ Matches(end.heap, [q EXCEPT ![src] = rest, ![dst] = @ \o moved])
         /\ end.node = Null
  <2>1. src # dst /\ end = MoveLoop(heap, heap.first[src], S, dst) /\ T = {n \in Elems(q[src]) : n \in S}
    BY <1>2, <1>3
  <2>2. LoopMoved(end, q, src, dst, T)
    BY <1>1, <2>1, LoopMoves
  <2> QED  BY <2>2 DEF LoopMoved
<1>5. PICK r : r = [q EXCEPT ![src] = rest, ![dst] = @ \o moved]
  OBVIOUS
<1>6. Matches(heap', r)
  BY <1>3, <1>4, <1>5
<1>7. T = {n \in S : heap.parent[n] = src}
  BY <1>1, <1>2, NodesOf
<1>8. [l \in Lists |-> Chain(heap, l)] = q
  BY <1>1, ListedIs
<1>9. [l \in Lists |-> Chain(heap, l)]' = r
  BY <1>6, ListedIs
<1>10. T \subseteq Sequence!Elems(q[src])
  BY <1>2, SameElems
<1>11. /\ moved \in Sequence!InOrder(q[src], T)
       /\ rest \in Sequence!InOrder(q[src], Sequence!Elems(q[src]) \ T)
  BY SameElems, SameInOrder
<1>12. Sequence!MoveAll(src, dst, T)
  BY <1>3, <1>5, <1>8, <1>9, <1>10, <1>11 DEF Sequence!MoveAll
<1> QED  BY <1>2, <1>4, <1>6, <1>7, <1>12 DEF HeapIsLinked

\* allocateNode implements a move of the abstract lists, or changes nothing.
LEMMA AllocateStep ==
  ASSUME HeapIsLinked, NEW dst \in Lists, NEW back \in BOOLEAN, Allocate(dst, back)
  PROVE  HeapIsLinked' /\ (heap' # heap => \E n \in Pool : Sequence!Move(n, dst, back))
<1>1. CASE heap.first[Free] = Null
  BY <1>1 DEF Allocate, HeapIsLinked
<1>2. CASE heap.first[Free] # Null
  <2>1. PICK q : Matches(heap, q)
    BY DEF HeapIsLinked
  <2>2. PICK n : n = heap.first[Free]
    OBVIOUS
  <2>3. n = At(q, Free, 1) /\ Free \in Lists
    BY <2>1, <2>2, NodesAssumption DEF Matches, LinkedAs, Ends, FirstOf
  <2>4. n \in Pool
    BY <2>1, <2>2, <2>3, <1>2 DEF Matches, LinkedAs, Places
  <2>5. heap' = MoveNode(heap, n, dst, back)
    BY <2>2, <1>2 DEF Allocate, Move
  <2> QED  BY <2>4, <2>5, MoveStep
<1> QED  BY <1>1, <1>2

\* Every step implements a step of the abstract lists, or a stutter.
LEMMA ListStep ==
  ASSUME HeapIsLinked, ListNext
  PROVE  HeapIsLinked' /\ (heap' # heap => Sequence!LNext)
<1>1. CASE \E n \in Pool, dst \in Lists, back \in BOOLEAN : Move(n, dst, back)
  <2>1. PICK n \in Pool, dst \in Lists, back \in BOOLEAN : Move(n, dst, back)
    BY <1>1
  <2>2. heap' = MoveNode(heap, n, dst, back)
    BY <2>1 DEF Move
  <2> QED  BY <2>2, MoveStep DEF Sequence!LNext
<1>2. CASE \E src, dst \in Lists, S \in SUBSET Pool : MoveMatching(src, dst, S)
  <2>1. PICK src \in Lists, dst \in Lists, S \in SUBSET Pool : MoveMatching(src, dst, S)
    BY <1>2
  <2>2. HeapIsLinked' /\ Sequence!MoveAll(src, dst, {n \in S : heap.parent[n] = src})
    BY <2>1, MatchingStep
  <2>3. {n \in S : heap.parent[n] = src} \in SUBSET Pool
    OBVIOUS
  <2> QED  BY <2>2, <2>3 DEF Sequence!LNext
<1>3. CASE \E dst \in Lists \ {Free} : Allocate(dst, FALSE)
  <2>1. PICK dst \in Lists : Allocate(dst, FALSE)
    BY <1>3
  <2>2. HeapIsLinked' /\ (heap' # heap => \E n \in Pool : Sequence!Move(n, dst, FALSE))
    BY <2>1, AllocateStep
  <2> QED  BY <2>2 DEF Sequence!LNext
<1>4. CASE UNCHANGED heap
  BY <1>4 DEF HeapIsLinked
<1> QED  BY <1>1, <1>2, <1>3, <1>4 DEF ListNext

\* For any pool of nodes and any lists, the links of list.c implement sequences that partition
\* the pool: moveNode, which trusts a node's own pointers (list.c:42), moves one node, and a loop
\* that moves nodes out of the list it walks through (services.c:83) ends and moves what it selects.
THEOREM ListsImplemented == ListSpec => ListsAreSequences
<1>1. ListInit => HeapIsLinked /\ Sequence!LInit
  BY BuiltMatches, InitImplements DEF ListInit, HeapIsLinked
<1>2. HeapIsLinked /\ [ListNext]_<<heap, usedUp>> => HeapIsLinked'
  <2>1. ASSUME HeapIsLinked, ListNext PROVE HeapIsLinked'
    BY <2>1, ListStep
  <2>2. ASSUME HeapIsLinked, UNCHANGED <<heap, usedUp>> PROVE HeapIsLinked'
    BY <2>2 DEF HeapIsLinked
  <2> QED  BY <2>1, <2>2
<1>3. HeapIsLinked /\ [ListNext]_<<heap, usedUp>> =>
        [heap' # heap =>
           /\ Sequence!LNext
           /\ \A src, dst \in Lists, S \in SUBSET Pool :
                 MoveMatching(src, dst, S) =>
                    /\ Sequence!MoveAll(src, dst, {n \in S : heap.parent[n] = src})
                    /\ MoveLoop(heap, heap.first[src], S, dst).node = Null]_heap
  <2>1. ASSUME HeapIsLinked, [ListNext]_<<heap, usedUp>>, heap' # heap PROVE Sequence!LNext
    BY <2>1, ListStep
  <2>2. ASSUME HeapIsLinked, NEW src \in Lists, NEW dst \in Lists, NEW S \in SUBSET Pool, MoveMatching(src, dst, S)
        PROVE  /\ Sequence!MoveAll(src, dst, {n \in S : heap.parent[n] = src})
               /\ MoveLoop(heap, heap.first[src], S, dst).node = Null
    BY <2>2, MatchingStep
  <2> QED  BY <2>1, <2>2
<1> QED  BY <1>1, <1>2, <1>3, PTL DEF ListSpec, ListsAreSequences
=============================================================================
