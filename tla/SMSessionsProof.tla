--------------------------- MODULE SMSessionsProof ----------------------------
(***************************************************************************)
(* The service manager for any number of sessions, names and ports.        *)
(*                                                                         *)
(* A session is in one list, and what is kept of the lookup of one that    *)
(* waits is what its client asked for, or has lost its name; then no       *)
(* lookup sleeps through a registration, who waits for a port knows it,    *)
(* and the registry and the ports that sm holds match.  All of them        *)
(* together are inductive.  From that follows that every turn of the main  *)
(* loop is a step of SMLookup, and, as srv: limits its sessions, that the  *)
(* semaphore counts the sessions to wake up.                               *)
(***************************************************************************)
EXTENDS SMSessions, FiniteSetTheorems, SequenceTheorems, TLAPS

\* A list repeats no session.
Distinct(q) == \A i, j \in DOMAIN q : q[i] = q[j] => i = j
IsList(q) == q \in Seq(Slots) /\ Distinct(q)
-----------------------------------------------------------------------------
\* A loop that moves the nodes of S out of a list leaves two lists (list.c).
LEMMA SplitsInOrder ==
  ASSUME NEW q, IsList(q), NEW S, S \subseteq Elems(q), NEW w \in InOrder(q, S)
  PROVE  IsList(w) /\ Elems(w) = S
<1>1. S \subseteq Slots /\ IsFiniteSet(S)
  <2>1. Elems(q) \subseteq Slots
    BY DEF Elems, IsList
  <2> QED  BY <2>1, SMConstants, FS_Subset
<1>2. Cardinality(S) \in Nat
  BY <1>1, FS_CardinalityType
<1> DEFINE n == Cardinality(S)
<1>3. w \in [1 .. n -> S] /\ DOMAIN w = 1 .. n /\ w \in Seq(S)
  BY <1>2 DEF InOrder
<1>4. Distinct(w)
  <2>1. ASSUME NEW i \in 1 .. n, NEW j \in 1 .. n, i < j PROVE w[i] # w[j]
    <3>1. PICK a \in DOMAIN q, b \in DOMAIN q : a < b /\ q[a] = w[i] /\ q[b] = w[j]
      BY <1>3, <2>1 DEF InOrder
    <3>2. DOMAIN q \subseteq Int
      BY DEF IsList
    <3> QED  BY <3>1, <3>2 DEF IsList, Distinct
  <2> HIDE DEF n
  <2> SUFFICES ASSUME NEW i \in 1 .. n, NEW j \in 1 .. n, w[i] = w[j] PROVE i = j
    BY <1>3 DEF Distinct
  <2>2. i < j \/ j < i \/ i = j
    BY <1>2
  <2> QED  BY <2>1, <2>2
<1>5. w \in Injection(1 .. n, S)
  BY <1>3, <1>4 DEF Injection, IsInjective, Distinct
<1>6. IsFiniteSet(1 .. n) /\ Cardinality(1 .. n) = n
  BY <1>2, FS_Interval
<1>7. w \in Surjection(1 .. n, S)
  BY <1>1, <1>5, <1>6, FS_Injection
<1>8. Elems(w) = S
  BY <1>3, <1>7 DEF Elems, Surjection
<1>9. w \in Seq(Slots)
  BY <1>1, <1>3, SeqMonotonic
<1> QED  BY <1>4, <1>8, <1>9 DEF IsList

\* A list appended to another one.
LEMMA Joins ==
  ASSUME NEW q, IsList(q), NEW r, IsList(r), Elems(q) \cap Elems(r) = {}
  PROVE  IsList(q \o r) /\ Elems(q \o r) = Elems(q) \cup Elems(r)
<1> DEFINE t == q \o r
<1>1. /\ Len(q) \in Nat /\ DOMAIN q = 1 .. Len(q)
      /\ Len(r) \in Nat /\ DOMAIN r = 1 .. Len(r)
  BY DEF IsList
<1>2. /\ t \in Seq(Slots) /\ DOMAIN t = 1 .. Len(q) + Len(r)
      /\ \A i \in 1 .. Len(q) : t[i] = q[i]
      /\ \A i \in Len(q) + 1 .. Len(q) + Len(r) : t[i] = r[i - Len(q)]
  BY DEF IsList
<1> HIDE DEF t
<1>3. \A i \in 1 .. Len(q) : t[i] \in Elems(q)
  BY <1>1, <1>2 DEF Elems
<1>4. \A i \in Len(q) + 1 .. Len(q) + Len(r) : i - Len(q) \in DOMAIN r /\ t[i] \in Elems(r)
  <2> TAKE i \in Len(q) + 1 .. Len(q) + Len(r)
  <2>1. i - Len(q) \in DOMAIN r
    BY <1>1
  <2> QED  BY <1>2, <2>1 DEF Elems
<1>5. Distinct(t)
  <2> SUFFICES ASSUME NEW i \in DOMAIN t, NEW j \in DOMAIN t, t[i] = t[j] PROVE i = j
    BY DEF Distinct
  <2>1. /\ i \in 1 .. Len(q) \/ i \in Len(q) + 1 .. Len(q) + Len(r)
        /\ j \in 1 .. Len(q) \/ j \in Len(q) + 1 .. Len(q) + Len(r)
    BY <1>1, <1>2
  <2>2. CASE i \in 1 .. Len(q) /\ j \in 1 .. Len(q)
    BY <1>1, <1>2, <2>2 DEF IsList, Distinct
  <2>3. CASE i \in Len(q) + 1 .. Len(q) + Len(r) /\ j \in Len(q) + 1 .. Len(q) + Len(r)
    <3>1. i - Len(q) \in DOMAIN r /\ j - Len(q) \in DOMAIN r /\ r[i - Len(q)] = r[j - Len(q)]
      BY <1>2, <1>4, <2>3
    <3>2. i - Len(q) = j - Len(q)
      BY <3>1 DEF IsList, Distinct
    <3> QED  BY <1>1, <2>3, <3>2
  <2> QED  BY <1>3, <1>4, <2>1, <2>2, <2>3
<1>6. Elems(t) \subseteq Elems(q) \cup Elems(r)
  <2> SUFFICES ASSUME NEW i \in DOMAIN t PROVE t[i] \in Elems(q) \cup Elems(r)
    BY DEF Elems
  <2>1. i \in 1 .. Len(q) \/ i \in Len(q) + 1 .. Len(q) + Len(r)
    BY <1>1, <1>2
  <2> QED  BY <1>3, <1>4, <2>1
<1>7. Elems(q) \subseteq Elems(t)
  <2> SUFFICES ASSUME NEW i \in DOMAIN q PROVE q[i] \in Elems(t)
    BY DEF Elems
  <2>1. i \in DOMAIN t /\ t[i] = q[i]
    BY <1>1, <1>2
  <2> QED  BY <2>1 DEF Elems
<1>8. Elems(r) \subseteq Elems(t)
  <2> SUFFICES ASSUME NEW i \in DOMAIN r PROVE r[i] \in Elems(t)
    BY DEF Elems
  <2>1. i + Len(q) \in Len(q) + 1 .. Len(q) + Len(r) /\ i + Len(q) \in DOMAIN t /\ i + Len(q) - Len(q) = i
    BY <1>1, <1>2
  <2>2. t[i + Len(q)] = r[i]
    BY <1>2, <2>1
  <2> QED  BY <2>1, <2>2 DEF Elems
<1> QED  BY <1>2, <1>5, <1>6, <1>7, <1>8 DEF t, IsList

\* A node moved to the end of a list.
LEMMA Appends ==
  ASSUME NEW q, IsList(q), NEW s \in Slots, s \notin Elems(q)
  PROVE  IsList(Append(q, s)) /\ Elems(Append(q, s)) = Elems(q) \cup {s}
<1> DEFINE r == <<s>>
<1>1. IsList(r) /\ Elems(r) = {s}
  BY DEF IsList, Distinct, Elems
<1>2. Append(q, s) = q \o r
  BY DEF IsList
<1> QED  BY <1>1, <1>2, Joins

\* The first node taken from a list.
LEMMA TakesFirst ==
  ASSUME NEW q, IsList(q), q # <<>>
  PROVE  /\ Head(q) \in Elems(q) /\ IsList(Tail(q))
         /\ Elems(Tail(q)) = Elems(q) \ {Head(q)} /\ Len(Tail(q)) = Len(q) - 1
<1>1. /\ Len(q) \in Nat \ {0} /\ DOMAIN q = 1 .. Len(q)
      /\ Tail(q) \in Seq(Slots) /\ Len(Tail(q)) = Len(q) - 1
      /\ DOMAIN Tail(q) = 1 .. Len(q) - 1
      /\ \A i \in 1 .. Len(q) - 1 : Tail(q)[i] = q[i + 1]
      /\ Head(q) = q[1]
  BY EmptySeq, HeadTailProperties DEF IsList
<1>2. Distinct(Tail(q))
  BY <1>1 DEF Distinct, IsList
<1>3. ASSUME NEW i \in 1 .. Len(q) - 1 PROVE Tail(q)[i] \in Elems(q) /\ Tail(q)[i] # q[1]
  <2>1. i + 1 \in DOMAIN q /\ i + 1 # 1 /\ 1 \in DOMAIN q /\ Tail(q)[i] = q[i + 1]
    BY <1>1
  <2> QED  BY <2>1 DEF IsList, Distinct, Elems
<1>4. ASSUME NEW i \in DOMAIN q, q[i] # q[1] PROVE q[i] \in Elems(Tail(q))
  <2>1. i - 1 \in DOMAIN Tail(q) /\ i - 1 + 1 = i
    BY <1>1, <1>4
  <2>2. q[i] = Tail(q)[i - 1]
    BY <1>1, <2>1
  <2> QED  BY <2>1, <2>2 DEF Elems
<1>5. q[1] \in Elems(q)
  BY <1>1 DEF Elems
<1>6. Elems(Tail(q)) \subseteq Elems(q) \ {q[1]}
  BY <1>1, <1>3 DEF Elems
<1>7. Elems(q) \ {q[1]} \subseteq Elems(Tail(q))
  BY <1>4 DEF Elems
<1> QED  BY <1>1, <1>2, <1>5, <1>6, <1>7 DEF IsList
-----------------------------------------------------------------------------
\* What is kept of a lookup.
Kept == [kind : Kinds, name : Names \cup {Garbled}]
Request == SrvRequest \cup SrvPmRequest

IsEntry(e) ==
  /\ e.kind \in Kinds /\ e.name \in Names
  /\ IF e.kind = "service" THEN e.port \in Ports ELSE e.port = None

SMTypeOK ==
  /\ inUse \subseteq Slots /\ closed \subseteq Slots
  /\ IsList(waitReg) /\ IsList(toWake) /\ IsList(waitPort)
  /\ replay \in [Slots -> Kept \cup {None}]
  /\ busy \in [Slots -> Ports \cup {None}]
  /\ portState \in [Ports -> {"free", "live", "orphan"}]
  /\ msg \in [Slots -> Request \cup {None}]
  /\ replyTarget \in inUse \cup {None}
  /\ \A e \in services : IsEntry(e)

\* A session is in one list.
ListsAreApart ==
  /\ inUse \cap Waiting = {}
  /\ Elems(waitReg) \cap Elems(toWake) = {}
  /\ Elems(waitReg) \cap Elems(waitPort) = {}
  /\ Elems(toWake) \cap Elems(waitPort) = {}

\* What is kept of a lookup that waits is what its client asked for, unless a port was closed.
Remembers(s) ==
  /\ replay[s] \in Kept /\ msg[s] \in Lookup
  /\ replay[s].kind = msg[s].kind
  /\ replay[s].name = msg[s].name \/ (s \in Elems(waitReg) /\ replay[s].name = Garbled)
  /\ s \in Elems(waitPort) => replay[s].kind = "service"
LookupsRemembered == \A s \in Waiting : Remembers(s)

SMInv ==
  SMTypeOK /\ ListsAreApart /\ LookupsRemembered /\ NoLostWakeup /\ WaitersKnowTheirPort /\ RegistryOwnsPorts
-----------------------------------------------------------------------------
\* Who waits is a session of the pool.
LEMMA WaitersAreSlots ==
  ASSUME SMInv
  PROVE  Waiting \subseteq Slots
BY DEF SMInv, SMTypeOK, IsList, Waiting, Elems

\* A kind and name says which entry it is, ...
LEMMA TheService ==
  ASSUME NEW S, NEW e \in S, e.kind = "service",
         \A f, g \in S : f.kind = g.kind /\ f.name = g.name => f = g
  PROVE  (CHOOSE f \in S : f.kind = "service" /\ f.name = e.name).port = e.port
<1> DEFINE f == CHOOSE f \in S : f.kind = "service" /\ f.name = e.name
<1>1. f \in S /\ f.kind = "service" /\ f.name = e.name
  OBVIOUS
<1> HIDE DEF f
<1>2. f = e
  BY <1>1
<1> QED  BY <1>2 DEF f

\* ... so that ServicePort is the port of that entry, before ...
LEMMA ServicePortIs ==
  ASSUME RegistryOwnsPorts, NEW e \in services, e.kind = "service"
  PROVE  ServicePort(e.name) = e.port
BY TheService DEF RegistryOwnsPorts, ServicePort

\* ... and after a step.
LEMMA ServicePortWillBe ==
  ASSUME RegistryOwnsPorts', NEW e \in services', e.kind = "service"
  PROVE  ServicePort(e.name)' = e.port
BY TheService DEF RegistryOwnsPorts, ServicePort

\* How a lookup ends: it is answered, ...
Answered(s, k, n, wp) ==
  /\ \/ result' = "granted" /\ Registered(k, n)
     \/ result' = "refused" /\ (Registered(k, n) <=> k = "service")
  /\ replyTarget' = s /\ inUse' = inUse \cup {s}
  /\ replay' = [replay EXCEPT ![s] = None]
  /\ busy' = [busy EXCEPT ![s] = None]
  /\ waitPort' = wp /\ waitReg' = waitReg

\* ... waits for a registration, ...
WaitsForRegistration(s, k, n, wp) ==
  /\ ~Registered(k, n)
  /\ inUse' = inUse \ {s}
  /\ replay' = [replay EXCEPT ![s] = [kind |-> k, name |-> n]]
  /\ busy' = [busy EXCEPT ![s] = None]
  /\ waitPort' = wp /\ waitReg' = Append(waitReg, s)
  /\ UNCHANGED <<replyTarget, result>>

\* ... or waits for the port.
WaitsForPort(s, k, n, wp) ==
  /\ k = "service" /\ Registered(k, n)
  /\ inUse' = inUse \ {s}
  /\ replay' = [replay EXCEPT ![s] = [kind |-> k, name |-> n]]
  /\ busy' = [busy EXCEPT ![s] = ServicePort(n)]
  /\ waitPort' = Append(wp, s) /\ waitReg' = waitReg
  /\ UNCHANGED <<replyTarget, result>>

Outcome(s, k, n, wp) ==
  Answered(s, k, n, wp) \/ WaitsForRegistration(s, k, n, wp) \/ WaitsForPort(s, k, n, wp)

\* GetServiceHandle and GetPort have no other outcome.
LEMMA LookupOutcome ==
  ASSUME SMInv, NEW s \in Slots, NEW k \in Kinds, NEW n, NEW wait \in BOOLEAN, NEW wp,
         Elems(wp) = Elems(waitPort) \ {s}, k = "port" => wp = waitPort,
         ServeLookup(s, k, n, wait, wp)
  PROVE  Outcome(s, k, n, wp)
<1>1. CASE k = "service"
  <2>1. GetServiceHandle(s, n, wait, wp)
    BY <1>1 DEF ServeLookup
  <2> QED
    BY <1>1, <2>1 DEF GetServiceHandle, PostponeUntilRegistered, PostponeUntilPortReady, Answer, ReplayDone,
       Outcome, Answered, WaitsForRegistration, WaitsForPort
<1>2. CASE k = "port"
  <2>1. GetPort(s, n, wait) /\ wp = waitPort
    BY <1>2 DEF ServeLookup
  <2>2. busy = [busy EXCEPT ![s] = None]
    <3>1. busy[s] = None
      BY <2>1 DEF SMInv, WaitersKnowTheirPort
    <3> QED  BY <3>1 DEF SMInv, SMTypeOK
  <2> QED
    BY <1>2, <2>1, <2>2 DEF GetPort, PostponeUntilRegistered, Answer, ReplayDone,
       Outcome, Answered, WaitsForRegistration, WaitsForPort
<1> QED  BY <1>1, <1>2 DEF ServeLookup

\* A lookup that is served, new or replayed.
Serves(s, k, n, wp) ==
  /\ HandlesValid /\ replyTarget = None
  /\ s \notin Elems(waitReg) /\ Elems(wp) = Elems(waitPort) \ {s} /\ Elems(toWake)' = Elems(toWake) \ {s}
  /\ IsList(wp) /\ IsList(toWake)'
  /\ msg' \in [Slots -> Request \cup {None}] /\ \A t \in Slots \ {s} : msg'[t] = msg[t]
  /\ msg'[s] \in Lookup /\ msg'[s].kind = k /\ msg'[s].name = n
  /\ UNCHANGED <<services, portState, closed>>

\* srvHandleCommands answers a lookup.
LEMMA LookupAnswered ==
  ASSUME SMInv, NEW s \in Slots, NEW k \in Kinds, NEW n \in Names, NEW wp,
         Serves(s, k, n, wp), Answered(s, k, n, wp)
  PROVE  SMInv'
<1> USE DEF Serves, Answered
<1>1. SMTypeOK'
  BY DEF SMInv, SMTypeOK, IsEntry
<1>2. ListsAreApart'
  BY DEF SMInv, ListsAreApart, Waiting
<1>3. \A t \in Slots \ {s} : replay'[t] = replay[t] /\ busy'[t] = busy[t]
  BY DEF SMInv, SMTypeOK
<1>4. Waiting' = Waiting \ {s}
  BY DEF Waiting
<1>5. Waiting \subseteq Slots
  BY WaitersAreSlots
<1>6. LookupsRemembered'
  BY <1>3, <1>4, <1>5 DEF SMInv, LookupsRemembered, Remembers
<1>7. NoLostWakeup'
  BY <1>3, <1>5 DEF SMInv, NoLostWakeup, Waiting, Registered
<1>8. WaitersKnowTheirPort'
  <2>1. busy'[s] = None /\ s \notin Elems(waitPort)'
    BY DEF SMInv, SMTypeOK
  <2>2. \A t \in Slots : busy'[t] # None <=> t \in Elems(waitPort)'
    BY <1>3, <2>1 DEF SMInv, WaitersKnowTheirPort
  <2> QED
    BY <1>3, <1>5, <2>2 DEF SMInv, WaitersKnowTheirPort, Waiting, Registered, ServicePort
<1>9. RegistryOwnsPorts'
  BY DEF SMInv, RegistryOwnsPorts
<1> QED  BY <1>1, <1>2, <1>6, <1>7, <1>8, <1>9 DEF SMInv

\* A lookup is put aside until its name is registered (0xD0406401).
LEMMA LookupWaits ==
  ASSUME SMInv, NEW s \in Slots, NEW k \in Kinds, NEW n \in Names, NEW wp,
         Serves(s, k, n, wp), WaitsForRegistration(s, k, n, wp)
  PROVE  SMInv'
<1> USE DEF Serves, WaitsForRegistration
<1>0. IsList(waitReg') /\ Elems(waitReg') = Elems(waitReg) \cup {s}
  BY Appends DEF SMInv, SMTypeOK
<1>1. SMTypeOK'
  BY <1>0 DEF SMInv, SMTypeOK, IsEntry, Kept
<1>2. ListsAreApart'
  BY <1>0 DEF SMInv, ListsAreApart, Waiting
<1>3. \A t \in Slots \ {s} : replay'[t] = replay[t] /\ busy'[t] = busy[t]
  BY DEF SMInv, SMTypeOK
<1>10. replay'[s] = [kind |-> k, name |-> n] /\ busy'[s] = None
  BY DEF SMInv, SMTypeOK
<1>4. Waiting' = Waiting \cup {s}
  BY <1>0 DEF Waiting
<1>5. Waiting \subseteq Slots
  BY WaitersAreSlots
<1>6. LookupsRemembered'
  <2>1. Remembers(s)'
    BY <1>10 DEF Remembers, Kept
  <2> QED  BY <1>0, <1>3, <1>4, <1>5, <2>1 DEF SMInv, LookupsRemembered, Remembers
<1>7. NoLostWakeup'
  BY <1>0, <1>3, <1>5, <1>10 DEF SMInv, NoLostWakeup, Waiting, Registered
<1>8. WaitersKnowTheirPort'
  <2>2. \A t \in Slots : busy'[t] # None <=> t \in Elems(waitPort)'
    BY <1>3, <1>10 DEF SMInv, WaitersKnowTheirPort
  <2> SUFFICES ASSUME NEW t \in Elems(waitPort)'
               PROVE  Registered("service", replay[t].name)' /\ (busy[t] = ServicePort(replay[t].name))'
    BY <2>2 DEF WaitersKnowTheirPort
  <2>3. t \in Elems(waitPort) /\ t \in Slots \ {s}
    BY <1>5 DEF Waiting
  <2>4. Registered("service", replay[t].name) /\ busy[t] = ServicePort(replay[t].name)
    BY <2>3 DEF SMInv, WaitersKnowTheirPort
  <2> QED  BY <1>3, <2>3, <2>4 DEF Registered, ServicePort
<1>9. RegistryOwnsPorts'
  BY DEF SMInv, RegistryOwnsPorts
<1> QED  BY <1>1, <1>2, <1>6, <1>7, <1>8, <1>9 DEF SMInv

\* A lookup is put aside until the port has room (0xD0406402).
LEMMA LookupWaitsForPort ==
  ASSUME SMInv, NEW s \in Slots, NEW k \in Kinds, NEW n \in Names, NEW wp,
         Serves(s, k, n, wp), WaitsForPort(s, k, n, wp)
  PROVE  SMInv'
<1> USE DEF Serves, WaitsForPort
<1>0. IsList(waitPort') /\ Elems(waitPort') = Elems(waitPort) \cup {s}
  BY Appends DEF SMInv, SMTypeOK
<1>11. ServicePort(n) \in Ports /\ ServicePort(n) # None
  <2>1. PICK e \in services : e.kind = "service" /\ e.name = n
    BY DEF Registered
  <2>2. ServicePort(n) = e.port
    BY <2>1, ServicePortIs DEF SMInv
  <2> QED  BY <2>1, <2>2, SMConstants DEF SMInv, SMTypeOK, IsEntry
<1>1. SMTypeOK'
  BY <1>0, <1>11 DEF SMInv, SMTypeOK, IsEntry, Kept
<1>2. ListsAreApart'
  BY <1>0 DEF SMInv, ListsAreApart, Waiting
<1>3. \A t \in Slots \ {s} : replay'[t] = replay[t] /\ busy'[t] = busy[t]
  BY DEF SMInv, SMTypeOK
<1>10. replay'[s] = [kind |-> k, name |-> n] /\ busy'[s] = ServicePort(n)
  BY DEF SMInv, SMTypeOK
<1>4. Waiting' = Waiting \cup {s}
  BY <1>0 DEF Waiting
<1>5. Waiting \subseteq Slots
  BY WaitersAreSlots
<1>6. LookupsRemembered'
  <2>1. Remembers(s)'
    BY <1>10 DEF Remembers, Kept
  <2> QED  BY <1>0, <1>3, <1>4, <1>5, <2>1 DEF SMInv, LookupsRemembered, Remembers
<1>7. NoLostWakeup'
  BY <1>3, <1>5 DEF SMInv, NoLostWakeup, Waiting, Registered
<1>8. WaitersKnowTheirPort'
  <2>2. \A t \in Slots : busy'[t] # None <=> t \in Elems(waitPort)'
    BY <1>0, <1>3, <1>10, <1>11 DEF SMInv, WaitersKnowTheirPort
  <2> SUFFICES ASSUME NEW t \in Elems(waitPort)'
               PROVE  Registered("service", replay[t].name)' /\ (busy[t] = ServicePort(replay[t].name))'
    BY <2>2 DEF WaitersKnowTheirPort
  <2>3. CASE t = s
    <3>1. replay'[t].name = n /\ busy'[t] = ServicePort(n)
      BY <1>10, <2>3
    <3>2. Registered("service", n)' /\ ServicePort(n)' = ServicePort(n)
      BY DEF Registered, ServicePort
    <3> QED  BY <3>1, <3>2 DEF Registered, ServicePort
  <2>4. CASE t # s
    <3>1. t \in Elems(waitPort) /\ t \in Slots
      BY <1>0, <1>5, <2>4 DEF Waiting
    <3>2. Registered("service", replay[t].name) /\ busy[t] = ServicePort(replay[t].name)
      BY <3>1 DEF SMInv, WaitersKnowTheirPort
    <3>3. replay'[t] = replay[t] /\ busy'[t] = busy[t]
      BY <1>3, <2>4, <3>1
    <3> QED  BY <3>2, <3>3 DEF Registered, ServicePort
  <2> QED  BY <2>3, <2>4
<1>9. RegistryOwnsPorts'
  BY DEF SMInv, RegistryOwnsPorts
<1> QED  BY <1>1, <1>2, <1>6, <1>7, <1>8, <1>9 DEF SMInv

\* A lookup, whatever its outcome.
LEMMA LookupServed ==
  ASSUME SMInv, NEW s \in Slots, NEW k \in Kinds, NEW n \in Names, NEW wait \in BOOLEAN, NEW wp,
         Serves(s, k, n, wp), k = "port" => wp = waitPort, ServeLookup(s, k, n, wait, wp)
  PROVE  SMInv' /\ Outcome(s, k, n, wp)
<1>1. Outcome(s, k, n, wp)
  BY LookupOutcome DEF Serves
<1> QED  BY <1>1, LookupAnswered, LookupWaits, LookupWaitsForPort DEF Outcome
-----------------------------------------------------------------------------
(* Steps that change nothing for the sessions that wait.                   *)

SameForWaiting ==
  /\ inUse' \subseteq Slots /\ inUse' \cap Waiting = {} /\ closed' \subseteq Slots
  /\ replyTarget' \in inUse' \cup {None}
  /\ replay' \in [Slots -> Kept \cup {None}] /\ msg' \in [Slots -> Request \cup {None}]
  /\ \A t \in Waiting : replay'[t] = replay[t] /\ msg'[t] = msg[t]
  /\ portState' \in [Ports -> {"free", "live", "orphan"}]
  /\ \A p \in Ports : portState'[p] = "free" <=> portState[p] = "free"
  /\ UNCHANGED <<waitReg, toWake, waitPort, busy, services>>

\* Such a step keeps the invariant.
LEMMA NothingForWaiting ==
  ASSUME SMInv, SameForWaiting
  PROVE  SMInv'
<1> USE DEF SameForWaiting
<1>1. SMTypeOK'
  BY DEF SMInv, SMTypeOK, IsEntry
<1>2. ListsAreApart' /\ Waiting' = Waiting
  BY DEF SMInv, ListsAreApart, Waiting
<1>3. Elems(waitReg) \subseteq Waiting /\ Elems(waitPort) \subseteq Waiting
  BY DEF Waiting
<1>4. LookupsRemembered'
  BY <1>2 DEF SMInv, LookupsRemembered, Remembers
<1>5. NoLostWakeup'
  BY <1>3 DEF SMInv, NoLostWakeup, Registered
<1>6. WaitersKnowTheirPort'
  <2>1. \A t \in Slots : busy'[t] # None <=> t \in Elems(waitPort)'
    BY DEF SMInv, WaitersKnowTheirPort
  <2>2. HandlesValid' => HandlesValid
    <3>1. \A t \in Elems(waitPort) : t \in Slots /\ busy[t] \in Ports
      BY DEF SMInv, SMTypeOK, WaitersKnowTheirPort, IsList, Elems
    <3> QED  BY <3>1 DEF HandlesValid
  <2> SUFFICES ASSUME HandlesValid, NEW t \in Elems(waitPort)
               PROVE  Registered("service", replay[t].name)' /\ (busy[t] = ServicePort(replay[t].name))'
    BY <2>1, <2>2 DEF WaitersKnowTheirPort
  <2>3. Registered("service", replay[t].name) /\ busy[t] = ServicePort(replay[t].name)
    BY DEF SMInv, WaitersKnowTheirPort
  <2>4. replay'[t] = replay[t]
    BY <1>3
  <2> QED  BY <2>3, <2>4 DEF Registered, ServicePort
<1>7. RegistryOwnsPorts'
  BY DEF SMInv, RegistryOwnsPorts
<1> QED  BY <1>1, <1>2, <1>4, <1>5, <1>6, <1>7 DEF SMInv

\* A request that sm has received is from a session that does not wait.
LEMMA Received ==
  ASSUME SMInv, NEW s \in Slots, NEW r \in Requests(s), s \in inUse, msg' = [msg EXCEPT ![s] = r]
  PROVE  /\ s \notin Waiting /\ r \in Request
         /\ msg' \in [Slots -> Request \cup {None}] /\ msg'[s] = r
         /\ \A t \in Slots \ {s} : msg'[t] = msg[t]
         /\ Waiting \subseteq Slots \ {s}
<1>1. s \notin Waiting
  BY DEF SMInv, ListsAreApart
<1>2. r \in Request
  BY DEF Requests, Request, SrvRequest
<1>3. Waiting \subseteq Slots
  BY WaitersAreSlots
<1> QED  BY <1>1, <1>2, <1>3 DEF SMInv, SMTypeOK

\* What the requests are about.
LEMMA RequestNames ==
  ASSUME NEW s, NEW r \in Requests(s)
  PROVE  /\ r.op = "Get" => r \in Lookup
         /\ r.op \in {"Get", "Register", "Unregister"} => r.kind \in Kinds /\ r.name \in Names
         /\ r.op # "Get" => r \notin Lookup
BY DEF Requests, SrvRequest, SrvPmRequest, Lookup

\* Commands that only answer.
OnlyAnswers(s, res) ==
  /\ Answer(s, res)
  /\ UNCHANGED <<waitReg, toWake, waitPort, replay, busy, services, portState, closed>>

\* A command that is only answered.
LEMMA AnswersOnly ==
  ASSUME SMInv, NEW s \in Slots, NEW r \in Requests(s), s \in inUse, msg' = [msg EXCEPT ![s] = r],
         NEW res, OnlyAnswers(s, res)
  PROVE  SMInv'
<1>1. SameForWaiting
  BY Received DEF SMInv, SMTypeOK, ListsAreApart, OnlyAnswers, Answer, SameForWaiting
<1> QED  BY <1>1, NothingForWaiting

\* doRegisterProcess: a process more, or a pool that is used up.
LEMMA AddProcessKeeps ==
  ASSUME SMInv, NEW s \in Slots, NEW r \in Requests(s), s \in inUse, msg' = [msg EXCEPT ![s] = r],
         NEW q, AddProcess(s, q), UNCHANGED <<waitReg, toWake, waitPort, replay, busy, services, portState, closed>>
  PROVE  SMInv'
<1>1. CASE Answer(s, "ok")
  BY <1>1, AnswersOnly DEF OnlyAnswers
<1>2. CASE UNCHANGED <<inUse, replyTarget, result>>
  <2>1. SameForWaiting
    BY <1>2, Received DEF SMInv, SMTypeOK, ListsAreApart, SameForWaiting
  <2> QED  BY <2>1, NothingForWaiting
<1> QED  BY <1>1, <1>2 DEF AddProcess

\* A lookup that is received.
LEMMA GetKeeps ==
  ASSUME SMInv, NEW s \in Slots, NEW r \in Requests(s), msg' = [msg EXCEPT ![s] = r], Get(s, r)
  PROVE  /\ SMInv' /\ Serves(s, r.kind, r.name, waitPort) /\ s \in inUse /\ r \in Lookup
         /\ Outcome(s, r.kind, r.name, waitPort)
<1>1. /\ s \in inUse /\ r \in Lookup /\ HandlesValid /\ replyTarget = None
      /\ ServeLookup(s, r.kind, r.name, r.wait, waitPort) /\ toWake' = toWake
  BY RequestNames DEF Get, Receives, AtWait
<1>2. r.kind \in Kinds /\ r.name \in Names /\ r.wait \in BOOLEAN
  BY <1>1 DEF Lookup
<1>3. Serves(s, r.kind, r.name, waitPort)
  BY <1>1, Received DEF Serves, SMInv, SMTypeOK, Waiting, ServeLookup
<1> QED  BY <1>1, <1>2, <1>3, LookupServed
-----------------------------------------------------------------------------
(* The registry.                                                           *)

\* Ports that are closed with their entries: what is left are the entries of the other ports.
LEMMA DropKeeps ==
  ASSUME SMInv, HandlesValid, NEW s \in Slots, NEW r \in Requests(s), s \in inUse,
         msg' = [msg EXCEPT ![s] = r], NEW E, E \subseteq services, Drop(E), NEW res, Answer(s, res),
         UNCHANGED <<waitReg, toWake, waitPort, replay, busy, closed>>
  PROVE  SMInv'
<1> DEFINE gone == {e.port : e \in E} \ {None}
<1>1. /\ services' = services \ E
      /\ portState' = [p \in Ports |-> IF p \in gone THEN "free" ELSE portState[p]]
  BY DEF Drop
<1>2. /\ s \notin Waiting /\ Waiting \subseteq Slots \ {s}
      /\ msg' \in [Slots -> Request \cup {None}] /\ \A t \in Slots \ {s} : msg'[t] = msg[t]
  BY Received
<1>3. SMTypeOK'
  BY <1>1, <1>2 DEF SMInv, SMTypeOK, IsEntry, Answer
<1>4. ListsAreApart' /\ Waiting' = Waiting
  BY <1>2 DEF SMInv, ListsAreApart, Waiting, Answer
<1>5. LookupsRemembered'
  BY <1>2, <1>4 DEF SMInv, LookupsRemembered, Remembers
<1>6. NoLostWakeup'
  BY <1>1 DEF SMInv, NoLostWakeup, Registered
<1>7. RegistryOwnsPorts'
  <2>1. \A e, f \in services' :
          /\ e.kind = f.kind /\ e.name = f.name => e = f
          /\ e.port = f.port /\ e.kind = "service" => e = f
    BY <1>1 DEF SMInv, RegistryOwnsPorts
  <2>2. \A e \in services : e.kind = "service" => e.port \in Ports /\ e.port # None /\ portState[e.port] # "free"
    BY SMConstants DEF SMInv, SMTypeOK, IsEntry, RegistryOwnsPorts
  <2>3. \A e \in services : e.kind = "service" => (e.port \in gone <=> e \in E)
    BY <2>2 DEF SMInv, RegistryOwnsPorts
  <2>4. \A p \in Ports : portState[p] # "free" => \E e \in services : e.kind = "service" /\ e.port = p
    BY DEF SMInv, RegistryOwnsPorts
  <2>5. \A p \in Ports : portState'[p] # "free" <=> p \notin gone /\ portState[p] # "free"
    BY <1>1
  <2>6. \A p \in Ports : portState'[p] # "free" => \E e \in services' : e.kind = "service" /\ e.port = p
    BY <1>1, <2>3, <2>4, <2>5
  <2>7. \A e \in services' : e.kind = "service" => e.port \in Ports /\ portState'[e.port] # "free"
    BY <1>1, <2>2, <2>3, <2>5
  <2> QED  BY <2>1, <2>6, <2>7 DEF RegistryOwnsPorts
<1>8. WaitersKnowTheirPort'
  <2>1. \A t \in Slots : busy'[t] # None <=> t \in Elems(waitPort)'
    BY DEF SMInv, WaitersKnowTheirPort
  <2> SUFFICES ASSUME HandlesValid', NEW t \in Elems(waitPort)
               PROVE  Registered("service", replay[t].name)' /\ (busy[t] = ServicePort(replay[t].name))'
    BY <2>1 DEF WaitersKnowTheirPort
  <2>2. Registered("service", replay[t].name) /\ busy[t] = ServicePort(replay[t].name)
    BY DEF SMInv, WaitersKnowTheirPort
  <2>3. PICK e \in services : e.kind = "service" /\ e.name = replay[t].name
    BY <2>2 DEF Registered
  <2>4. busy[t] = e.port /\ e.port \in Ports /\ e.port # None
    BY <2>2, <2>3, ServicePortIs, SMConstants DEF SMInv, SMTypeOK, IsEntry
  <2>5. portState'[e.port] # "free"
    BY <2>4 DEF HandlesValid
  <2>6. e \notin E
    BY <1>1, <2>4, <2>5
  <2>7. e \in services'
    BY <1>1, <2>6
  <2>8. ServicePort(e.name)' = e.port
    BY <1>7, <2>3, <2>7, ServicePortWillBe
  <2> QED  BY <2>3, <2>4, <2>7, <2>8 DEF Registered
<1> QED  BY <1>3, <1>4, <1>5, <1>6, <1>7, <1>8 DEF SMInv

\* UnregisterService, UnregisterPort, and UnregisterProcess of srv:pm.
LEMMA UnregisterKeeps ==
  ASSUME SMInv, NEW s \in Slots, NEW r \in Requests(s), msg' = [msg EXCEPT ![s] = r],
         Unregister(s, r) \/ UnregisterProcess(s, r)
  PROVE  SMInv'
<1>1. s \in inUse /\ HandlesValid /\ UNCHANGED <<waitReg, toWake, waitPort, replay, busy, closed>>
  BY DEF Unregister, UnregisterProcess, Receives, AtWait, fields
<1>2. CASE \E E \in SUBSET services : Drop(E) /\ Answer(s, "ok")
  BY <1>1, <1>2, DropKeeps
<1>3. CASE Answer(s, "error") /\ UNCHANGED <<services, portState>>
  BY <1>1, <1>3, AnswersOnly DEF OnlyAnswers
<1>4. Mine(s, r) \in SUBSET services /\ {e \in services : e.pid = r.pid} \in SUBSET services
  BY DEF Mine
<1> QED  BY <1>2, <1>3, <1>4, Zenon DEF Unregister, UnregisterProcess

\* doRegisterServiceOrPort: who waits for the name moves to the sessions to wake up.
LEMMA RegisterSucceedsKeeps ==
  ASSUME SMInv, HandlesValid, NEW s \in Slots, NEW r \in Requests(s), s \in inUse,
         msg' = [msg EXCEPT ![s] = r], NEW k \in Kinds, NEW n \in Names, NEW p, RegisterSucceeds(s, k, n, p),
         ~Registered(k, n),
         IF k = "service" THEN p \in FreshPorts /\ portState' = [portState EXCEPT ![p] = "live"]
                          ELSE p = None /\ portState' = portState,
         UNCHANGED <<waitPort, replay, busy, closed>>
  PROVE  SMInv' /\ Waiting' = Waiting
<1> DEFINE x == [kind |-> k, name |-> n, pid |-> pid[s], port |-> p]
<1>1. services' = services \cup {x}
  BY DEF RegisterSucceeds
<1>2. /\ s \notin Waiting /\ Waiting \subseteq Slots \ {s}
      /\ msg' \in [Slots -> Request \cup {None}] /\ \A t \in Slots \ {s} : msg'[t] = msg[t]
  BY Received
<1>3. PICK woken \in InOrder(waitReg, Matching(k, n)),
           rest \in InOrder(waitReg, Elems(waitReg) \ Matching(k, n)) :
        waitReg' = rest /\ toWake' = toWake \o woken
  BY DEF RegisterSucceeds
<1>4. /\ IsList(woken) /\ Elems(woken) = Matching(k, n)
      /\ IsList(rest) /\ Elems(rest) = Elems(waitReg) \ Matching(k, n)
  BY <1>3, SplitsInOrder DEF SMInv, SMTypeOK, Matching
<1>5. IsList(toWake') /\ Elems(toWake') = Elems(toWake) \cup Matching(k, n)
  BY <1>3, <1>4, Joins DEF SMInv, SMTypeOK, ListsAreApart, Matching
<1>6. Matching(k, n) \subseteq Elems(waitReg) /\ IsList(waitReg') /\ Elems(waitReg') = Elems(waitReg) \ Matching(k, n)
  BY <1>3, <1>4 DEF Matching
<1>7. Waiting' = Waiting
  BY <1>5, <1>6 DEF Waiting
<1>8. inUse' = inUse /\ (replyTarget' = s \/ replyTarget' = replyTarget)
  BY DEF RegisterSucceeds, Answer
<1>9. k \in {"service", "port"} /\ (k = "service" => p \in Ports /\ portState[p] = "free") /\ IsEntry(x)
  BY SMConstants DEF FreshPorts, IsEntry
<1>10. SMTypeOK'
  <2>1. portState' \in [Ports -> {"free", "live", "orphan"}]
    BY <1>9 DEF SMInv, SMTypeOK
  <2>2. \A e \in services' : IsEntry(e)
    BY <1>1, <1>9 DEF SMInv, SMTypeOK
  <2>3. \A e \in services' : IsEntry(e)'
    BY <2>2 DEF IsEntry
  <2> QED  BY <1>2, <1>5, <1>6, <1>8, <2>1, <2>3 DEF SMInv, SMTypeOK
<1>11. ListsAreApart'
  BY <1>5, <1>6, <1>7, <1>8 DEF SMInv, ListsAreApart
<1>12. LookupsRemembered'
  <2>1. \A t \in Matching(k, n) : replay[t].name # Garbled
    BY SMConstants DEF Matching, SameName
  <2> QED  BY <1>2, <1>6, <1>7, <2>1 DEF SMInv, LookupsRemembered, Remembers
<1>13. NoLostWakeup'
  <2> SUFFICES ASSUME NEW t \in Elems(waitReg)', replay[t].name # Garbled
               PROVE  ~(Registered(replay[t].kind, replay[t].name)')
    BY DEF NoLostWakeup
  <2>1. t \in Elems(waitReg) /\ replay[t] # [kind |-> k, name |-> n] /\ replay[t] \in Kept
    BY <1>6 DEF Matching, SameName, SMInv, LookupsRemembered, Remembers, Waiting
  <2>2. ~(replay[t].kind = k /\ replay[t].name = n)
    BY <2>1 DEF Kept
  <2>3. ~Registered(replay[t].kind, replay[t].name)
    BY <2>1 DEF SMInv, NoLostWakeup
  <2> QED  BY <1>1, <2>2, <2>3 DEF Registered
<1>14. RegistryOwnsPorts'
  <2>1. \A e \in services : ~(e.kind = k /\ e.name = n)
    BY DEF Registered
  <2>2. \A e \in services : k = "service" => e.port # p
    <3>1. \A e \in services : e.kind = "service" => e.port \in Ports /\ portState[e.port] # "free"
      BY DEF SMInv, SMTypeOK, IsEntry, RegistryOwnsPorts
    <3>2. \A e \in services : e.kind # "service" => e.port = None
      BY DEF SMInv, SMTypeOK, IsEntry
    <3> QED  BY <1>9, <3>1, <3>2, SMConstants
  <2>3. \A e \in services : e.kind = "service" /\ k # "service" => e.port # p
    BY SMConstants DEF SMInv, SMTypeOK, IsEntry
  <2>4. \A e, f \in services' :
          /\ e.kind = f.kind /\ e.name = f.name => e = f
          /\ e.port = f.port /\ e.kind = "service" => e = f
    BY <1>1, <2>1, <2>2, <2>3 DEF SMInv, RegistryOwnsPorts
  <2>5. CASE k = "service"
    <3>1. {q \in Ports : portState'[q] # "free"} = {q \in Ports : portState[q] # "free"} \cup {p}
      BY <1>9, <2>5 DEF SMInv, SMTypeOK
    <3>2. {e.port : e \in {f \in services' : f.kind = "service"}} =
            {e.port : e \in {f \in services : f.kind = "service"}} \cup {p}
      <4>1. x.kind = "service" /\ x.port = p
        BY <2>5
      <4> HIDE DEF x
      <4>2. {f \in services' : f.kind = "service"} = {f \in services : f.kind = "service"} \cup {x}
        BY <1>1, <4>1
      <4> QED  BY <4>1, <4>2
    <3> QED  BY <2>4, <3>1, <3>2 DEF SMInv, RegistryOwnsPorts
  <2>6. CASE k # "service"
    <3>1. {f \in services' : f.kind = "service"} = {f \in services : f.kind = "service"}
      BY <1>1, <2>6
    <3> QED  BY <2>4, <2>6, <3>1 DEF SMInv, RegistryOwnsPorts
  <2> QED  BY <2>5, <2>6
<1>15. WaitersKnowTheirPort'
  <2>1. \A t \in Slots : busy'[t] # None <=> t \in Elems(waitPort)'
    BY DEF SMInv, WaitersKnowTheirPort
  <2> SUFFICES ASSUME NEW t \in Elems(waitPort)
               PROVE  Registered("service", replay[t].name)' /\ (busy[t] = ServicePort(replay[t].name))'
    BY <2>1 DEF WaitersKnowTheirPort
  <2>2. Registered("service", replay[t].name) /\ busy[t] = ServicePort(replay[t].name)
    BY DEF SMInv, WaitersKnowTheirPort
  <2>3. PICK e \in services : e.kind = "service" /\ e.name = replay[t].name
    BY <2>2 DEF Registered
  <2>4. busy[t] = e.port
    BY <2>2, <2>3, ServicePortIs DEF SMInv
  <2>5. ServicePort(e.name)' = e.port
    BY <1>1, <1>14, <2>3, ServicePortWillBe
  <2> QED  BY <1>1, <2>3, <2>4, <2>5 DEF Registered
<1> QED  BY <1>7, <1>10, <1>11, <1>12, <1>13, <1>14, <1>15 DEF SMInv

\* RegisterService and RegisterPort.
LEMMA RegisterKeeps ==
  ASSUME SMInv, NEW s \in Slots, NEW r \in Requests(s), msg' = [msg EXCEPT ![s] = r], Register(s, r)
  PROVE  SMInv'
<1>1. /\ s \in inUse /\ HandlesValid /\ UNCHANGED <<waitPort, replay, busy, closed>>
      /\ r.kind \in Kinds /\ r.name \in Names
  BY RequestNames DEF Register, Receives, AtWait, fields
<1>2. CASE \E p \in FreshPorts :
             /\ r.kind = "service" /\ ~Registered(r.kind, r.name)
             /\ RegisterSucceeds(s, r.kind, r.name, p) /\ portState' = [portState EXCEPT ![p] = "live"]
  BY <1>1, <1>2, RegisterSucceedsKeeps
<1>3. CASE /\ r.kind = "port" /\ ~Registered(r.kind, r.name)
           /\ RegisterSucceeds(s, r.kind, r.name, None) /\ portState' = portState
  BY <1>1, <1>3, RegisterSucceedsKeeps
<1>4. CASE Answer(s, "error") /\ UNCHANGED <<services, waitReg, toWake, portState>>
  BY <1>1, <1>4, AnswersOnly DEF OnlyAnswers
<1> QED  BY <1>2, <1>3, <1>4 DEF Register

\* Every command.
LEMMA CommandKeeps ==
  ASSUME SMInv, NEW s \in Slots, Command(s)
  PROVE  SMInv'
<1>1. PICK r \in Requests(s) :
        /\ msg' = [msg EXCEPT ![s] = r]
        /\ \/ Get(s, r) \/ Register(s, r) \/ Unregister(s, r) \/ RegisterClient(s, r)
           \/ EnableNotification(s, r) \/ OtherCommand(s, r)
           \/ RegisterProcess(s, r) \/ UnregisterProcess(s, r)
  BY DEF Command
<1>2. CASE Get(s, r)
  BY <1>1, <1>2, GetKeeps
<1>3. CASE Register(s, r)
  BY <1>1, <1>3, RegisterKeeps
<1>4. CASE Unregister(s, r) \/ UnregisterProcess(s, r)
  BY <1>1, <1>4, UnregisterKeeps
<1>5. CASE RegisterClient(s, r) \/ OtherCommand(s, r)
  <2>1. s \in inUse /\ OnlyAnswers(s, "ok")
    BY <1>5 DEF RegisterClient, OtherCommand, Receives, OnlyAnswers, fields
  <2> QED  BY <1>1, <2>1, AnswersOnly
<1>6. CASE EnableNotification(s, r) \/ RegisterProcess(s, r)
  <2>1. /\ s \in inUse
        /\ UNCHANGED <<waitReg, toWake, waitPort, replay, busy, services, portState, closed>>
        /\ \/ \E q : AddProcess(s, q)
           \/ \E res : Answer(s, res)
    BY <1>6, Zenon DEF EnableNotification, RegisterProcess, Receives, fields
  <2> QED  BY <1>1, <2>1, AnswersOnly, AddProcessKeeps DEF OnlyAnswers
<1> QED  BY <1>1, <1>2, <1>3, <1>4, <1>5, <1>6
-----------------------------------------------------------------------------
(* The other events.                                                       *)

\* main.c:135: the server of a port that sessions wait for is gone.
LEMMA PortClosedKeeps ==
  ASSUME SMInv, NEW p \in Ports, PortClosed(p)
  PROVE  SMInv' /\ Waiting' = Waiting
<1> DEFINE moved == {s \in Elems(waitPort) : busy[s] = p}
<1>1. PICK m \in InOrder(waitPort, moved), rest \in InOrder(waitPort, Elems(waitPort) \ moved) :
        waitReg' = waitReg \o m /\ waitPort' = rest
  BY DEF PortClosed
<1>2. /\ replay' = [s \in Slots |-> IF s \in moved THEN [replay[s] EXCEPT !.name = Garbled] ELSE replay[s]]
      /\ busy' = [s \in Slots |-> IF s \in moved THEN None ELSE busy[s]]
      /\ UNCHANGED <<inUse, toWake, services, replyTarget, msg, closed, portState>>
      /\ HandlesValid
  BY DEF PortClosed, ForgetPort, kernel, AtWait
<1> HIDE DEF moved
<1>3. moved \subseteq Elems(waitPort)
  BY DEF moved
<1>4. /\ IsList(m) /\ Elems(m) = moved
      /\ IsList(waitPort') /\ Elems(waitPort') = Elems(waitPort) \ moved
  BY <1>1, <1>3, SplitsInOrder DEF SMInv, SMTypeOK
<1>5. IsList(waitReg') /\ Elems(waitReg') = Elems(waitReg) \cup moved
  BY <1>1, <1>3, <1>4, Joins DEF SMInv, SMTypeOK, ListsAreApart
<1>6. Waiting' = Waiting /\ Waiting \subseteq Slots
  BY <1>2, <1>3, <1>4, <1>5, WaitersAreSlots DEF Waiting
<1>7. \A s \in moved : /\ replay[s] \in Kept /\ replay'[s] \in Kept
                       /\ replay'[s].kind = replay[s].kind /\ replay'[s].name = Garbled
  <2> SUFFICES ASSUME NEW s \in moved
               PROVE  /\ replay[s] \in Kept /\ replay'[s] \in Kept
                      /\ replay'[s].kind = replay[s].kind /\ replay'[s].name = Garbled
    OBVIOUS
  <2>1. s \in Slots /\ replay[s] \in Kept
    BY <1>3, <1>6 DEF SMInv, LookupsRemembered, Remembers, Waiting
  <2>2. replay'[s] = [replay[s] EXCEPT !.name = Garbled]
    BY <1>2, <2>1
  <2> QED  BY <2>1, <2>2 DEF Kept
<1>8. \A s \in Slots \ moved : replay'[s] = replay[s] /\ busy'[s] = busy[s]
  BY <1>2
<1>9. SMTypeOK'
  <2>1. busy' \in [Slots -> Ports \cup {None}] /\ replay' \in [Slots -> Kept \cup {None}]
    BY <1>2, <1>7, <1>8 DEF SMInv, SMTypeOK
  <2> QED  BY <1>2, <1>4, <1>5, <2>1 DEF SMInv, SMTypeOK, IsEntry
<1>10. ListsAreApart'
  BY <1>2, <1>3, <1>4, <1>5, <1>6 DEF SMInv, ListsAreApart
<1>11. LookupsRemembered'
  <2> SUFFICES ASSUME NEW s \in Waiting PROVE Remembers(s)'
    BY <1>6 DEF LookupsRemembered
  <2>1. CASE s \in moved
    <3>1. Remembers(s) /\ s \in Elems(waitReg)' /\ s \notin Elems(waitPort)'
      BY <1>4, <1>5, <2>1 DEF SMInv, LookupsRemembered
    <3> QED  BY <1>2, <1>7, <2>1, <3>1 DEF Remembers
  <2>2. CASE s \notin moved
    BY <1>2, <1>4, <1>5, <1>6, <1>8, <2>2 DEF SMInv, LookupsRemembered, Remembers
  <2> QED  BY <2>1, <2>2
<1>12. NoLostWakeup'
  <2> SUFFICES ASSUME NEW s \in Elems(waitReg)', replay'[s].name # Garbled
               PROVE  ~(Registered(replay[s].kind, replay[s].name)')
    BY DEF NoLostWakeup
  <2>1. s \in Elems(waitReg) /\ s \in Slots \ moved
    BY <1>5, <1>6, <1>7 DEF Waiting
  <2>2. ~Registered(replay[s].kind, replay[s].name)
    BY <1>8, <2>1 DEF SMInv, NoLostWakeup
  <2> QED  BY <1>2, <1>8, <2>1, <2>2 DEF Registered
<1>13. WaitersKnowTheirPort'
  <2>1. \A s \in Slots : busy'[s] # None <=> s \in Elems(waitPort)'
    BY <1>2, <1>4 DEF SMInv, WaitersKnowTheirPort
  <2> SUFFICES ASSUME NEW s \in Elems(waitPort)'
               PROVE  Registered("service", replay[s].name)' /\ (busy[s] = ServicePort(replay[s].name))'
    BY <2>1 DEF WaitersKnowTheirPort
  <2>2. s \in Elems(waitPort) /\ s \in Slots \ moved
    BY <1>4, <1>6 DEF Waiting
  <2>3. Registered("service", replay[s].name) /\ busy[s] = ServicePort(replay[s].name)
    BY <1>2, <2>2 DEF SMInv, WaitersKnowTheirPort
  <2> QED  BY <1>2, <1>8, <2>2, <2>3 DEF Registered, ServicePort
<1>14. RegistryOwnsPorts'
  BY <1>2 DEF SMInv, RegistryOwnsPorts
<1> QED  BY <1>6, <1>9, <1>10, <1>11, <1>12, <1>13, <1>14 DEF SMInv

\* A replayed command is the one its client sent.
LEMMA WaiterIsServed ==
  ASSUME SMInv, HandlesValid, replyTarget = None, NEW s \in Elems(toWake) \cup Elems(waitPort),
         NEW wait \in BOOLEAN, NEW wp, IsList(wp), Elems(wp) = Elems(waitPort) \ {s},
         s \in Elems(toWake) => wp = waitPort,
         IsList(toWake'), Elems(toWake') = Elems(toWake) \ {s},
         ServeLookup(s, replay[s].kind, replay[s].name, wait, wp), UNCHANGED msg
  PROVE  /\ SMInv' /\ Serves(s, replay[s].kind, replay[s].name, wp)
         /\ Outcome(s, replay[s].kind, replay[s].name, wp)
<1>1. /\ s \in Slots /\ s \in Waiting /\ s \notin Elems(waitReg) /\ Remembers(s)
  BY WaitersAreSlots DEF SMInv, Waiting, ListsAreApart, LookupsRemembered
<1>2. /\ msg[s] \in Lookup /\ replay[s].kind = msg[s].kind /\ replay[s].name = msg[s].name
      /\ replay[s].kind \in Kinds /\ replay[s].name \in Names
      /\ s \in Elems(waitPort) => replay[s].kind = "service"
  BY <1>1 DEF Remembers, Lookup
<1>3. Serves(s, replay[s].kind, replay[s].name, wp)
  BY <1>1, <1>2 DEF Serves, SMInv, SMTypeOK, ServeLookup
<1> QED  BY <1>1, <1>2, <1>3, LookupServed

\* main.c:184: the first of the sessions to wake up.
LEMMA ResumeKeeps ==
  ASSUME SMInv, Resume, toWake # <<>>
  PROVE  \E s \in Elems(toWake) :
            /\ SMInv' /\ Serves(s, replay[s].kind, replay[s].name, waitPort)
            /\ Outcome(s, replay[s].kind, replay[s].name, waitPort) /\ UNCHANGED msg
<1> DEFINE s == Head(toWake)
<1>1. s \in Elems(toWake) /\ IsList(Tail(toWake)) /\ Elems(Tail(toWake)) = Elems(toWake) \ {s}
  BY TakesFirst DEF SMInv, SMTypeOK
<1>2. PICK wait \in BOOLEAN : ServeLookup(s, replay[s].kind, replay[s].name, wait, waitPort)
  BY DEF Resume
<1>3. HandlesValid /\ replyTarget = None /\ toWake' = Tail(toWake) /\ UNCHANGED msg
  BY DEF Resume, AtWait
<1>4. IsList(waitPort) /\ Elems(waitPort) = Elems(waitPort) \ {s}
  BY <1>1 DEF SMInv, SMTypeOK, ListsAreApart
<1> QED  BY <1>1, <1>2, <1>3, <1>4, WaiterIsServed

\* main.c:159: the first of the sessions that wait for a port.
LEMMA PortReadyKeeps ==
  ASSUME SMInv, NEW p \in Ports, PortReady(p)
  PROVE  \E s, wp :
            /\ s \in Elems(waitPort) /\ SMInv' /\ Serves(s, replay[s].kind, replay[s].name, wp)
            /\ Outcome(s, replay[s].kind, replay[s].name, wp) /\ UNCHANGED msg
<1> DEFINE S == {s \in Elems(waitPort) : busy[s] = p}
<1>1. PICK waiters \in InOrder(waitPort, S) :
        /\ waiters # <<>>
        /\ \E rest \in InOrder(waitPort, Elems(waitPort) \ {Head(waiters)}), wait \in BOOLEAN :
              ServeLookup(Head(waiters), replay[Head(waiters)].kind, replay[Head(waiters)].name, wait, rest)
  BY DEF PortReady
<1> DEFINE s == Head(waiters)
<1>2. s \in Elems(waitPort)
  BY <1>1, SplitsInOrder, TakesFirst DEF SMInv, SMTypeOK
<1>3. PICK rest \in InOrder(waitPort, Elems(waitPort) \ {s}), wait \in BOOLEAN :
        ServeLookup(s, replay[s].kind, replay[s].name, wait, rest)
  BY <1>1
<1> HIDE DEF s
<1>4. IsList(rest) /\ Elems(rest) = Elems(waitPort) \ {s}
  BY SplitsInOrder DEF SMInv, SMTypeOK
<1>5. /\ HandlesValid /\ replyTarget = None /\ UNCHANGED <<toWake, msg>>
      /\ s \notin Elems(toWake) /\ IsList(toWake)
  BY <1>2 DEF PortReady, AtWait, SMInv, SMTypeOK, ListsAreApart
<1> QED  BY <1>2, <1>3, <1>4, <1>5, WaiterIsServed

\* A session that is closed.
LEMMA FreeSlotKeeps ==
  ASSUME SMInv, NEW s \in inUse, FreeSlot(s), replyTarget' = None,
         UNCHANGED <<waitReg, toWake, waitPort, services, portState>>
  PROVE  SMInv'
<1>1. s \in Slots /\ s \notin Waiting /\ Waiting \subseteq Slots
  BY WaitersAreSlots DEF SMInv, SMTypeOK, ListsAreApart
<1>2. busy' = busy
  <2>1. busy[s] = None
    BY <1>1 DEF SMInv, WaitersKnowTheirPort, Waiting
  <2> QED  BY <2>1 DEF FreeSlot, SMInv, SMTypeOK
<1>3. SameForWaiting
  BY <1>1, <1>2 DEF SMInv, SMTypeOK, ListsAreApart, FreeSlot, SameForWaiting
<1> QED  BY <1>3, NothingForWaiting

\* sm panics: the lists stay as they are.
LEMMA PanicKeeps ==
  ASSUME SMInv, UNCHANGED <<lists, fields, services, replyTarget, kernel>>
  PROVE  SMInv'
<1>1. SameForWaiting
  BY DEF SMInv, SMTypeOK, ListsAreApart, lists, fields, kernel, SameForWaiting
<1> QED  BY <1>1, NothingForWaiting

\* Clients and servers.
LEMMA EnvironmentKeeps ==
  ASSUME SMInv, Environment
  PROVE  SMInv'
<1>1. /\ UNCHANGED <<lists, fields, services, replyTarget, msg>>
      /\ \/ \E s \in Open : closed' = closed \cup {s} /\ portState' = portState
         \/ closed' = closed /\ \E p \in Ports : portState[p] = "live" /\ portState' = [portState EXCEPT ![p] = "orphan"]
         \/ UNCHANGED <<closed, portState>>
  BY DEF Environment, ClientClose, ServerClosePort, ServiceSessionEnds
<1>2. Open \subseteq Slots
  BY WaitersAreSlots DEF SMInv, SMTypeOK, Open
<1>3. SameForWaiting
  BY <1>1, <1>2 DEF SMInv, SMTypeOK, ListsAreApart, lists, fields, SameForWaiting
<1> QED  BY <1>3, NothingForWaiting

\* A new session on srv: or srv:pm.
LEMMA NewSessionKeeps ==
  ASSUME SMInv, NewSrvSession \/ NewSrvPmSession
  PROVE  SMInv'
<1>1. CASE \E why : Panic(why)
  BY <1>1, PanicKeeps DEF Panic
<1>2. CASE \E s \in Slots, srvPm \in BOOLEAN : Accept(s, srvPm)
  <2>1. SameForWaiting
    BY <1>2, WaitersAreSlots DEF Accept, Open, kernel, SMInv, SMTypeOK, ListsAreApart, SameForWaiting
  <2> QED  BY <2>1, NothingForWaiting
<1> QED  BY <1>1, <1>2 DEF NewSrvSession, NewSrvPmSession, PoolUsedUp

\* A turn of the main loop.
LEMMA MainLoopKeeps ==
  ASSUME SMInv, MainLoop
  PROVE  SMInv'
<1>1. CASE \E s \in Slots : Command(s)
  BY <1>1, CommandKeeps
<1>2. CASE \E s \in Slots : SessionClosed(s)
  BY <1>2, FreeSlotKeeps DEF SessionClosed, AtWait
<1>3. CASE \E p \in Ports : PortClosed(p)
  BY <1>3, PortClosedKeeps
<1>4. CASE \E p \in Ports : PortReady(p)
  BY <1>4, PortReadyKeeps
<1>5. CASE Reply
  <2>1. replyTarget \in inUse /\ replyTarget \in Slots /\ replyTarget \notin Waiting
    BY <1>5 DEF Reply, SMInv, SMTypeOK, ListsAreApart
  <2>2. SameForWaiting
    BY <1>5, <2>1, WaitersAreSlots DEF Reply, lists, fields, SMInv, SMTypeOK, ListsAreApart, SameForWaiting
  <2> QED  BY <2>2, NothingForWaiting
<1>6. CASE ReplyFails
  <2>1. replyTarget \in inUse
    BY <1>6, SMConstants DEF ReplyFails, SMInv, SMTypeOK
  <2> QED  BY <1>6, <2>1, FreeSlotKeeps DEF ReplyFails
<1>7. CASE WaitFails
  BY <1>7, PanicKeeps DEF WaitFails, Panic
<1>8. CASE NewSrvSession \/ NewSrvPmSession
  BY <1>8, NewSessionKeeps
<1>9. CASE Resume
  <2>1. CASE toWake = <<>>
    BY <1>9, <2>1, PanicKeeps DEF Resume, Panic
  <2> QED  BY <1>9, <2>1, ResumeKeeps
<1> QED  BY <1>1, <1>2, <1>3, <1>4, <1>5, <1>6, <1>7, <1>8, <1>9 DEF MainLoop

\* The invariant of the main loop (main.c), which the three that follow are part of.
THEOREM SMInvariant == Spec => []SMInv
<1>1. Init => SMInv
  <2> SUFFICES ASSUME Init PROVE SMInv
    OBVIOUS
  <2> USE DEF Init
  <2>1. \A q : q = <<>> => IsList(q) /\ Elems(q) = {}
    BY DEF IsList, Distinct, Elems
  <2>2. SMTypeOK
    BY <2>1 DEF SMTypeOK
  <2>3. Waiting = {} /\ ListsAreApart
    BY <2>1 DEF Waiting, ListsAreApart
  <2>4. LookupsRemembered /\ NoLostWakeup /\ WaitersKnowTheirPort
    BY <2>1, <2>3 DEF LookupsRemembered, NoLostWakeup, WaitersKnowTheirPort, Waiting
  <2>5. RegistryOwnsPorts
    BY DEF RegistryOwnsPorts
  <2> QED  BY <2>2, <2>3, <2>4, <2>5 DEF SMInv
<1>2. SMInv /\ [Next]_vars => SMInv'
  <2> SUFFICES ASSUME SMInv, [Next]_vars PROVE SMInv'
    OBVIOUS
  <2>1. CASE UNCHANGED vars
    BY <2>1, PanicKeeps DEF vars
  <2>2. CASE Halted
    BY <2>2, PanicKeeps DEF Halted, vars
  <2> QED  BY <2>1, <2>2, EnvironmentKeeps, MainLoopKeeps DEF Next
<1> QED  BY <1>1, <1>2, PTL DEF Spec

\* No lookup sleeps through the registration of what it waits for: doRegisterServiceOrPort
\* wakes everybody who waits for it, and a lookup is only put aside when it is not registered.
THEOREM RegistrationWakesWaiters == Spec => []NoLostWakeup
BY SMInvariant, PTL DEF SMInv

\* Who waits for a port to have room waits for the port of the service it named
\* (busyClientPortHandle), until sm closes that port.
THEOREM WaitersKnowPorts == Spec => []WaitersKnowTheirPort
BY SMInvariant, PTL DEF SMInv

\* sm holds the client ports of the registered services and no others, each name once, so that
\* unregistering closes exactly one handle (UnregisterServiceOrPort).
THEOREM RegistryHoldsPorts == Spec => []RegistryOwnsPorts
BY SMInvariant, PTL DEF SMInv
-----------------------------------------------------------------------------
(* SMLookup.                                                               *)

registered == {[kind |-> e.kind, name |-> e.name] : e \in services}
asking == [s \in Slots |-> IF s \in Waiting THEN [kind |-> msg[s].kind, name |-> msg[s].name] ELSE None]
answering == [s \in Slots |-> IF s = replyTarget /\ msg[s] \in Lookup THEN result ELSE None]

PromiseStep == [Promise!LookupNext]_<<registered, asking, answering>>

\* Without a reply to deliver no client is being answered.
LEMMA QuietWithoutReply ==
  ASSUME replyTarget = None
  PROVE  answering = [s \in Slots |-> None]
BY SMConstants DEF answering

\* findServicePortByName finds what is registered.
LEMMA RegisteredIs ==
  ASSUME NEW k, NEW n
  PROVE  Registered(k, n) <=> [kind |-> k, name |-> n] \in registered
BY DEF Registered, registered

\* The outcomes of a lookup are those that SMLookup has.
LEMMA LookupMaps ==
  ASSUME SMInv, NEW s \in Slots, NEW k \in Kinds, NEW n \in Names, NEW wp,
         Serves(s, k, n, wp), Outcome(s, k, n, wp),
         s \notin Waiting \/ (msg[s].kind = k /\ msg[s].name = n)
  PROVE  PromiseStep
<1> DEFINE e == [kind |-> k, name |-> n]
<1>1. answering = [t \in Slots |-> None] /\ registered' = registered /\ e \in Promise!Entry
  BY QuietWithoutReply DEF Serves, registered, Promise!Entry
<1>2. asking[s] \in {None, e}
  BY DEF asking
<1>3. CASE Answered(s, k, n, wp)
  <2>1. Waiting' = Waiting \ {s}
    BY <1>3 DEF Serves, Answered, Waiting
  <2>2. asking' = [asking EXCEPT ![s] = None]
    BY <2>1 DEF asking, Serves
  <2>3. answering' = [answering EXCEPT ![s] = result']
    BY <1>1, <1>3 DEF Answered, answering, Serves
  <2>4. PICK a \in {"granted", "refused"} :
          /\ a = result'
          /\ \/ a = "granted" /\ e \in registered
             \/ a = "refused" /\ (e \in registered <=> e.kind = "service")
    BY <1>3, RegisteredIs DEF Answered
  <2>5. Promise!Decide(s, e, a)
    BY <1>1, <1>2, <2>2, <2>3, <2>4 DEF Promise!Decide, Promise!Quiet, asking, answering, registered
  <2> QED  BY <1>1, <2>5 DEF PromiseStep, Promise!LookupNext
<1>4. CASE WaitsForRegistration(s, k, n, wp) \/ WaitsForPort(s, k, n, wp)
  <2>1. Waiting' = Waiting \cup {s}
    <3>1. CASE WaitsForRegistration(s, k, n, wp)
      <4>1. Elems(waitReg') = Elems(waitReg) \cup {s}
        BY <3>1, Appends DEF Serves, WaitsForRegistration, SMInv, SMTypeOK
      <4> QED  BY <3>1, <4>1 DEF Serves, WaitsForRegistration, Waiting
    <3>2. CASE WaitsForPort(s, k, n, wp)
      <4>1. Elems(waitPort') = Elems(waitPort) \cup {s}
        BY <3>2, Appends DEF Serves, WaitsForPort
      <4> QED  BY <3>2, <4>1 DEF Serves, WaitsForPort, Waiting
    <3> QED  BY <1>4, <3>1, <3>2
  <2>2. asking' = [asking EXCEPT ![s] = e]
    BY <2>1 DEF asking, Serves
  <2>3. answering' = answering
    <3>1. replyTarget' = None
      BY <1>4 DEF Serves, WaitsForRegistration, WaitsForPort
    <3> QED  BY <1>1, <3>1, SMConstants DEF answering
  <2>4. e.kind = "port" => e \notin registered
    BY <1>4, RegisteredIs DEF WaitsForRegistration, WaitsForPort
  <2>5. CASE asking[s] = None
    <3>1. Promise!Postpone(s, e)
      BY <1>1, <2>2, <2>3, <2>4, <2>5 DEF Promise!Postpone, Promise!Quiet, asking, answering, registered
    <3> QED  BY <1>1, <3>1 DEF PromiseStep, Promise!LookupNext
  <2>6. CASE asking[s] = e
    <3>1. asking' = asking
      BY <2>2, <2>6 DEF asking
    <3> QED  BY <1>1, <2>3, <3>1 DEF PromiseStep
  <2> QED  BY <1>2, <2>5, <2>6
<1> QED  BY <1>3, <1>4 DEF Outcome

\* Nothing that SMLookup sees changes.
LEMMA Stutters ==
  ASSUME registered' = registered, Waiting' = Waiting, \A s \in Waiting : msg'[s] = msg[s],
         answering' = answering
  PROVE  PromiseStep
<1>1. asking' = asking
  BY DEF asking
<1> QED  BY <1>1 DEF PromiseStep

\* A step that leaves lists, registry and reply alone.
LEMMA UnseenMaps ==
  ASSUME UNCHANGED <<lists, services, replyTarget, result, msg>>
  PROVE  PromiseStep
<1>1. registered' = registered /\ Waiting' = Waiting /\ answering' = answering
  BY DEF lists, registered, Waiting, answering
<1> QED  BY <1>1, Stutters

\* A command is a lookup, a registration, or at most removes entries.
LEMMA CommandMaps ==
  ASSUME SMInv, NEW s \in Slots, Command(s)
  PROVE  PromiseStep
<1>1. PICK r \in Requests(s) :
        /\ msg' = [msg EXCEPT ![s] = r]
        /\ \/ Get(s, r) \/ Register(s, r) \/ Unregister(s, r) \/ RegisterClient(s, r)
           \/ EnableNotification(s, r) \/ OtherCommand(s, r)
           \/ RegisterProcess(s, r) \/ UnregisterProcess(s, r)
  BY DEF Command
<1>2. CASE Get(s, r)
  <2>1. /\ Serves(s, r.kind, r.name, waitPort) /\ s \in inUse /\ r \in Lookup
        /\ Outcome(s, r.kind, r.name, waitPort)
    BY <1>1, <1>2, GetKeeps
  <2>2. s \notin Waiting /\ r.kind \in Kinds /\ r.name \in Names
    BY <2>1 DEF SMInv, ListsAreApart, Lookup
  <2> QED  BY <2>1, <2>2, LookupMaps
<1>3. CASE ~Get(s, r)
  <2>1. s \in inUse /\ HandlesValid /\ replyTarget = None /\ r \notin Lookup
    BY <1>1, <1>3, RequestNames DEF Register, Unregister, RegisterClient, EnableNotification, OtherCommand,
       RegisterProcess, UnregisterProcess, Receives, AtWait
  <2>2. \A t \in Waiting : msg'[t] = msg[t]
    BY <1>1, <2>1, Received
  <2>3. replyTarget' \in {s, None}
    BY <1>1, <1>3, <2>1 DEF Register, RegisterSucceeds, Unregister, RegisterClient, EnableNotification,
       OtherCommand, RegisterProcess, UnregisterProcess, AddProcess, Answer
  <2>4. answering = [t \in Slots |-> None] /\ answering' = answering
    <3>1. msg'[s] \notin Lookup
      BY <1>1, <2>1, Received
    <3> QED  BY <2>1, <2>3, <3>1, QuietWithoutReply, SMConstants DEF answering
  <2>5. CASE Register(s, r)
    <3>1. r.kind \in Kinds /\ r.name \in Names /\ UNCHANGED <<waitPort, replay, busy, closed>>
      BY <2>5, RequestNames DEF Register, Receives, fields
    <3>2. CASE \E p : /\ RegisterSucceeds(s, r.kind, r.name, p) /\ ~Registered(r.kind, r.name)
                      /\ IF r.kind = "service" THEN p \in FreshPorts /\ portState' = [portState EXCEPT ![p] = "live"]
                                               ELSE p = None /\ portState' = portState
      <4> DEFINE e == [kind |-> r.kind, name |-> r.name]
      <4>1. Waiting' = Waiting
        BY <1>1, <2>1, <3>1, <3>2, RegisterSucceedsKeeps
      <4>2. asking' = asking
        BY <2>2, <4>1 DEF asking
      <4>3. e \notin registered /\ e \in Promise!Entry
        BY <3>1, <3>2, RegisteredIs DEF Promise!Entry
      <4>4. registered' = registered \cup {e}
        <5> DEFINE x(p) == [kind |-> r.kind, name |-> r.name, pid |-> pid[s], port |-> p]
        <5>1. PICK p : services' = services \cup {x(p)}
          BY <3>2 DEF RegisterSucceeds
        <5>2. x(p).kind = r.kind /\ x(p).name = r.name
          OBVIOUS
        <5> HIDE DEF x
        <5> QED  BY <5>1, <5>2 DEF registered
      <4>5. Promise!Register(e)
        BY <2>4, <4>2, <4>3, <4>4 DEF Promise!Register, Promise!Quiet, registered, asking, answering
      <4> QED  BY <4>3, <4>5 DEF PromiseStep, Promise!LookupNext
    <3>3. CASE UNCHANGED <<services, waitReg, toWake>>
      <4>1. registered' = registered /\ Waiting' = Waiting
        BY <3>1, <3>3 DEF registered, Waiting
      <4> QED  BY <2>2, <2>4, <4>1, Stutters
    <3> QED  BY <2>5, <3>2, <3>3 DEF Register
  <2>6. CASE ~Register(s, r)
    <3>1. UNCHANGED <<waitReg, toWake, waitPort>> /\ services' \subseteq services
      BY <1>1, <1>3, <2>6 DEF Unregister, RegisterClient, EnableNotification,
         OtherCommand, RegisterProcess, UnregisterProcess, Drop
    <3>2. asking' = asking
      BY <2>2, <3>1 DEF asking, Waiting
    <3>3. registered' \in SUBSET registered
      BY <3>1 DEF registered
    <3>4. Promise!Unregister
      BY <2>4, <3>2, <3>3 DEF Promise!Unregister, Promise!Quiet, registered, asking, answering
    <3> QED  BY <3>4 DEF PromiseStep, Promise!LookupNext
  <2> QED  BY <2>5, <2>6
<1> QED  BY <1>2, <1>3

\* A reply that reaches its client, or does not.
LEMMA ReplyMaps ==
  ASSUME SMInv, replyTarget \in inUse, replyTarget' = None, msg' = [msg EXCEPT ![replyTarget] = None],
         UNCHANGED <<waitReg, toWake, waitPort, services>>
  PROVE  PromiseStep
<1>1. registered' = registered /\ Waiting' = Waiting
  BY DEF registered, Waiting
<1>2. replyTarget \in Slots /\ replyTarget \notin Waiting /\ Waiting \subseteq Slots
  BY WaitersAreSlots DEF SMInv, SMTypeOK, ListsAreApart
<1>3. \A s \in Waiting : msg'[s] = msg[s]
  BY <1>2 DEF SMInv, SMTypeOK
<1>4. asking' = asking
  BY <1>1, <1>3 DEF asking
<1>5. answering' = [answering EXCEPT ![replyTarget] = None]
  BY <1>2, SMConstants DEF answering
<1>6. CASE answering[replyTarget] = None
  <2>1. answering' = answering
    BY <1>2, <1>5, <1>6 DEF answering
  <2> QED  BY <1>1, <1>3, <2>1, Stutters
<1>7. CASE answering[replyTarget] # None
  <2>1. PICK c \in Slots : c = replyTarget
    BY <1>2
  <2>2. Promise!Deliver(c)
    BY <1>1, <1>4, <1>5, <1>7, <2>1 DEF Promise!Deliver, registered, asking, answering
  <2> QED  BY <2>2 DEF PromiseStep, Promise!LookupNext
<1> QED  BY <1>6, <1>7

\* A turn of the main loop.
LEMMA MainLoopMaps ==
  ASSUME SMInv, MainLoop
  PROVE  PromiseStep
<1>1. CASE \E s \in Slots : Command(s)
  BY <1>1, CommandMaps
<1>2. CASE \E s \in Slots : SessionClosed(s)
  <2>1. PICK s \in inUse : SessionClosed(s)
    BY <1>2 DEF SessionClosed
  <2>2. registered' = registered /\ Waiting' = Waiting /\ answering' = answering
    BY <2>1, QuietWithoutReply, SMConstants DEF SessionClosed, AtWait, registered, Waiting, answering
  <2>3. \A t \in Waiting : msg'[t] = msg[t]
    BY <2>1, WaitersAreSlots DEF SessionClosed, FreeSlot, SMInv, SMTypeOK, ListsAreApart
  <2> QED  BY <2>2, <2>3, Stutters
<1>3. CASE \E p \in Ports : PortClosed(p)
  <2>1. /\ Waiting' = Waiting
        /\ UNCHANGED <<services, replyTarget, result, msg>>
    BY <1>3, PortClosedKeeps DEF PortClosed, kernel
  <2>2. registered' = registered /\ answering' = answering
    BY <2>1 DEF registered, answering
  <2> QED  BY <2>1, <2>2, Stutters
<1>4. CASE \E s, wp :
             /\ s \in Elems(toWake) \cup Elems(waitPort)
             /\ Serves(s, replay[s].kind, replay[s].name, wp)
             /\ Outcome(s, replay[s].kind, replay[s].name, wp) /\ UNCHANGED msg
  <2>1. PICK s, wp :
          /\ s \in Elems(toWake) \cup Elems(waitPort)
          /\ Serves(s, replay[s].kind, replay[s].name, wp)
          /\ Outcome(s, replay[s].kind, replay[s].name, wp) /\ UNCHANGED msg
    BY <1>4
  <2>2. s \in Slots /\ Remembers(s) /\ s \notin Elems(waitReg)
    BY <2>1, WaitersAreSlots DEF SMInv, ListsAreApart, LookupsRemembered, Waiting
  <2>3. /\ msg[s].kind = replay[s].kind /\ msg[s].name = replay[s].name
        /\ replay[s].kind \in Kinds /\ replay[s].name \in Names
    BY <2>2 DEF Remembers, Lookup
  <2> QED  BY <2>1, <2>2, <2>3, LookupMaps
<1>5. CASE \E p \in Ports : PortReady(p)
  BY <1>4, <1>5, PortReadyKeeps
<1>6. CASE Resume
  <2>1. CASE toWake = <<>>
    BY <1>6, <2>1, UnseenMaps DEF Resume, Panic, kernel
  <2>2. CASE toWake # <<>>
    BY <1>4, <1>6, <2>2, ResumeKeeps
  <2> QED  BY <2>1, <2>2
<1>7. CASE Reply \/ ReplyFails
  <2>1. replyTarget \in inUse
    BY <1>7, SMConstants DEF Reply, ReplyFails, SMInv, SMTypeOK
  <2> QED  BY <1>7, <2>1, ReplyMaps DEF Reply, ReplyFails, FreeSlot, lists
<1>8. CASE WaitFails
  BY <1>8, UnseenMaps DEF WaitFails, Panic, kernel
<1>9. CASE NewSrvSession \/ NewSrvPmSession
  <2>1. UNCHANGED <<waitReg, toWake, waitPort, services, replyTarget, result, msg>>
    BY <1>9 DEF NewSrvSession, NewSrvPmSession, PoolUsedUp, Panic, Accept, lists, kernel
  <2>2. registered' = registered /\ Waiting' = Waiting /\ answering' = answering
    BY <2>1 DEF registered, Waiting, answering
  <2> QED  BY <2>1, <2>2, Stutters
<1> QED  BY <1>1, <1>2, <1>3, <1>5, <1>6, <1>7, <1>8, <1>9 DEF MainLoop

\* sm implements SMLookup: a lookup is granted only when its name is registered, refused only when
\* it cannot be served, and the registry does not change between the decision and its delivery.
THEOREM LookupsAreServed == Spec => KeepsPromise
<1>1. Init => Promise!LookupInit
  BY SMConstants DEF Init, Promise!LookupInit, Waiting, Elems
<1>2. SMInv /\ [Next]_vars => PromiseStep
  <2> SUFFICES ASSUME SMInv, [Next]_vars PROVE PromiseStep
    OBVIOUS
  <2>1. CASE UNCHANGED vars \/ Halted
    BY <2>1, UnseenMaps DEF vars, Halted, kernel
  <2>2. CASE Environment
    BY <2>2, UnseenMaps DEF Environment, ClientClose, ServerClosePort, ServiceSessionEnds
  <2> QED  BY <2>1, <2>2, MainLoopMaps DEF Next
<1> QED  BY <1>1, <1>2, SMInvariant, PTL DEF Spec, KeepsPromise, PromiseStep, Promise!LookupSpec,
            Promise!lookupVars, registered, asking, answering
-----------------------------------------------------------------------------
(* The semaphore.                                                          *)

\* The length of a list is the number of its nodes.
LEMMA LengthCounts ==
  ASSUME NEW q, IsList(q)
  PROVE  Len(q) = Cardinality(Elems(q)) /\ Len(q) \in Nat
<1> DEFINE n == Len(q)
<1>1. n \in Nat /\ DOMAIN q = 1 .. n /\ q \in [1 .. n -> Elems(q)]
  BY DEF IsList, Elems
<1>2. q \in Injection(1 .. n, Elems(q))
  BY <1>1 DEF IsList, Distinct, Injection, IsInjective
<1>3. q \in Surjection(1 .. n, Elems(q))
  BY <1>1 DEF Elems, Surjection
<1>4. IsFiniteSet(1 .. n) /\ Cardinality(1 .. n) = n
  BY <1>1, FS_Interval
<1>5. Cardinality(Elems(q)) = Cardinality(1 .. n)
  BY <1>2, <1>3, <1>4, FS_Surjection
<1> QED  BY <1>1, <1>4, <1>5

\* Only clients of srv: wait, and the kernel limits their number.
ClientsWait == \A s \in Waiting : ~isSrvPm[s]
SrvIsLimited == Cardinality(SrvSessions) <= MaxSrv
SemInv == isSrvPm \in [Slots -> BOOLEAN] /\ ClientsWait /\ SrvIsLimited /\ SemCountsToWake

\* The sessions of srv: are finitely many.
LEMMA SrvIsFinite ==
  ASSUME SMInv
  PROVE  SrvSessions \subseteq Slots /\ IsFiniteSet(SrvSessions) /\ Cardinality(SrvSessions) \in Nat
<1>1. SrvSessions \subseteq Slots
  BY WaitersAreSlots DEF SMInv, SMTypeOK, SrvSessions, Open
<1> QED  BY <1>1, SMConstants, FS_Subset, FS_CardinalityType

\* Sessions move between the lists, and none is woken.
LEMMA MovesKeep ==
  ASSUME SMInv, SemInv, Open' \subseteq Open, UNCHANGED <<isSrvPm, toWake, sem>>,
         panicked' \notin {"resume", "semaphore"},
         \A s \in Waiting' \ Waiting : ~isSrvPm[s]
  PROVE  SemInv'
<1>1. SrvSessions' \subseteq SrvSessions
  BY DEF SrvSessions
<1>2. SrvIsLimited'
  BY <1>1, SrvIsFinite, FS_Subset, FS_CardinalityType, SMConstants DEF SemInv, SrvIsLimited
<1> QED  BY <1>2 DEF SemInv, ClientsWait, SemCountsToWake

\* Serving a lookup opens no session, and nobody else begins to wait.
LEMMA OutcomeMoves ==
  ASSUME SMInv, NEW s \in Open, NEW k \in Kinds, NEW n \in Names, NEW wp,
         Serves(s, k, n, wp), Outcome(s, k, n, wp)
  PROVE  Open' \subseteq Open /\ Waiting' \subseteq Waiting \cup {s}
<1>1. s \in Slots
  BY WaitersAreSlots DEF SMInv, SMTypeOK, Open
<1>2. Elems(Append(waitReg, s)) = Elems(waitReg) \cup {s} /\ Elems(Append(wp, s)) = Elems(wp) \cup {s}
  BY <1>1, Appends DEF Serves, SMInv, SMTypeOK
<1>3. Waiting' \subseteq Waiting \cup {s} /\ inUse' \subseteq inUse \cup {s}
  BY <1>2 DEF Serves, Outcome, Answered, WaitsForRegistration, WaitsForPort, Waiting
<1> QED  BY <1>3 DEF Open

\* doRegisterServiceOrPort releases the semaphore as often as it wakes a session, and below
\* its limit: who registers is a session itself.
LEMMA RegistrationCounts ==
  ASSUME SMInv, SemInv, ~Pre7x, MaxSrv <= SemMax + 1, NEW s \in Slots, NEW r \in Requests(s), Register(s, r),
         msg' = [msg EXCEPT ![s] = r]
  PROVE  SemInv'
<1>1. /\ s \in inUse /\ r.op = "Register" /\ HandlesValid /\ r.kind \in Kinds /\ r.name \in Names
      /\ UNCHANGED <<waitPort, replay, busy, closed, isSrvPm>> /\ panicked = "no"
  BY RequestNames DEF Register, Receives, AtWait, Running, fields
<1>2. ~isSrvPm[s]
  BY <1>1 DEF Requests, SrvPmRequest
<1>3. CASE Answer(s, "error") /\ UNCHANGED <<waitReg, toWake, sem, panicked>>
  <2>1. Open' = Open /\ Waiting' = Waiting
    BY <1>1, <1>3 DEF Answer, Open, Waiting
  <2> QED  BY <1>1, <1>3, <2>1, MovesKeep
<1>4. CASE \E p : /\ RegisterSucceeds(s, r.kind, r.name, p) /\ ~Registered(r.kind, r.name)
                  /\ IF r.kind = "service" THEN p \in FreshPorts /\ portState' = [portState EXCEPT ![p] = "live"]
                                           ELSE p = None /\ portState' = portState
  <2>1. Waiting' = Waiting /\ SMInv'
    BY <1>1, <1>4, RegisterSucceedsKeeps
  <2>2. PICK woken \in InOrder(waitReg, Matching(r.kind, r.name)) :
          /\ toWake' = toWake \o woken
          /\ IF sem + Len(woken) > SemMax THEN TRUE
             ELSE sem' = sem + Len(woken) /\ inUse' = inUse \cup {s} /\ panicked' = panicked
    BY <1>4 DEF RegisterSucceeds, ReleaseCount, Answer
  <2>3. IsList(woken) /\ IsList(toWake)
    BY SplitsInOrder DEF SMInv, SMTypeOK, Matching
  <2>4. IsList(toWake') /\ Len(toWake') = Len(toWake) + Len(woken)
    BY <2>1, <2>2, <2>3 DEF SMInv, SMTypeOK, IsList
  <2>5. Elems(toWake') \subseteq SrvSessions \ {s}
    <3>1. Elems(toWake') \subseteq Waiting
      BY <2>1 DEF Waiting
    <3>2. s \notin Waiting
      BY <1>1 DEF SMInv, ListsAreApart
    <3> QED  BY <3>1, <3>2 DEF SemInv, ClientsWait, SrvSessions, Open
  <2>6. Len(toWake') <= SemMax
    <3>1. s \in SrvSessions /\ IsFiniteSet(SrvSessions) /\ Cardinality(SrvSessions) \in Nat
      BY <1>1, <1>2, SrvIsFinite DEF SrvSessions, Open
    <3>2. IsFiniteSet(SrvSessions \ {s}) /\ Cardinality(SrvSessions \ {s}) = Cardinality(SrvSessions) - 1
      BY <3>1, FS_RemoveElement
    <3>3. Cardinality(Elems(toWake')) <= Cardinality(SrvSessions \ {s})
      BY <2>5, <3>2, FS_Subset
    <3>4. Len(toWake') = Cardinality(Elems(toWake')) /\ Len(toWake') \in Nat
      BY <2>4, LengthCounts
    <3> QED  BY <3>1, <3>2, <3>3, <3>4, SMConstants DEF SemInv, SrvIsLimited
  <2>7. sem + Len(woken) = Len(toWake')
    BY <2>4 DEF SemInv, SemCountsToWake
  <2>8. ~(sem + Len(woken) > SemMax)
    BY <2>4, <2>6, <2>7, SMConstants, LengthCounts
  <2>9. sem' = Len(toWake') /\ inUse' = inUse /\ panicked' = "no"
    BY <1>1, <2>2, <2>7, <2>8
  <2>10. SrvSessions' = SrvSessions
    BY <1>1, <2>1, <2>9 DEF SrvSessions, Open
  <2> QED  BY <1>1, <2>1, <2>9, <2>10 DEF SemInv, ClientsWait, SrvIsLimited, SemCountsToWake
<1> QED  BY <1>3, <1>4, <1>1 DEF Register

\* Every command.
LEMMA CommandCounts ==
  ASSUME SMInv, SemInv, ~Pre7x, MaxSrv <= SemMax + 1, NEW s \in Slots, Command(s)
  PROVE  SemInv'
<1>1. PICK r \in Requests(s) :
        /\ msg' = [msg EXCEPT ![s] = r]
        /\ \/ Get(s, r) \/ Register(s, r) \/ Unregister(s, r) \/ RegisterClient(s, r)
           \/ EnableNotification(s, r) \/ OtherCommand(s, r)
           \/ RegisterProcess(s, r) \/ UnregisterProcess(s, r)
  BY DEF Command
<1>2. CASE Get(s, r)
  <2>1. /\ Serves(s, r.kind, r.name, waitPort) /\ s \in inUse /\ r \in Lookup
        /\ Outcome(s, r.kind, r.name, waitPort)
    BY <1>1, <1>2, GetKeeps
  <2>2. ~isSrvPm[s] /\ r.kind \in Kinds /\ r.name \in Names
    BY <2>1 DEF Requests, SrvPmRequest, Lookup
  <2>3. Open' \subseteq Open /\ Waiting' \subseteq Waiting \cup {s}
    BY <2>1, <2>2, OutcomeMoves DEF Open
  <2>4. UNCHANGED <<isSrvPm, toWake, sem, panicked>>
    BY <1>2 DEF Get, ServeLookup
  <2> QED  BY <2>2, <2>3, <2>4, MovesKeep DEF SemInv, SemCountsToWake
<1>3. CASE Register(s, r)
  BY <1>1, <1>3, RegistrationCounts
<1>4. CASE ~Get(s, r) /\ ~Register(s, r)
  <2>1. /\ s \in inUse /\ inUse' \subseteq inUse \cup {s}
        /\ UNCHANGED <<isSrvPm, waitReg, toWake, waitPort, sem>>
        /\ panicked' \in {panicked, "processes"}
    BY <1>1, <1>4 DEF Unregister, RegisterClient, EnableNotification, OtherCommand,
       RegisterProcess, UnregisterProcess, AddProcess, Answer, Receives, fields
  <2>2. Open' \subseteq Open /\ Waiting' = Waiting
    BY <2>1 DEF Open, Waiting
  <2> QED  BY <2>1, <2>2, MovesKeep DEF SemInv, SemCountsToWake
<1> QED  BY <1>2, <1>3, <1>4

\* A new session.
LEMMA AcceptCounts ==
  ASSUME SMInv, SemInv, NEW s \in Slots, NEW srvPm \in BOOLEAN, Accept(s, srvPm),
         ~srvPm => Cardinality(SrvSessions) < MaxSrv
  PROVE  SemInv'
<1>1. /\ inUse' = inUse \cup {s} /\ isSrvPm' = [isSrvPm EXCEPT ![s] = srvPm] /\ s \notin Open
      /\ UNCHANGED <<waitReg, toWake, waitPort, sem, panicked>>
  BY DEF Accept
<1>2. Waiting' = Waiting /\ Open' = Open \cup {s} /\ Open \subseteq Slots
  BY <1>1, WaitersAreSlots DEF Waiting, Open, SMInv, SMTypeOK
<1>3. SrvSessions' = IF srvPm THEN SrvSessions ELSE SrvSessions \cup {s}
  BY <1>1, <1>2 DEF SrvSessions, SemInv
<1>4. s \notin SrvSessions
  BY <1>1 DEF SrvSessions
<1>5. SrvIsLimited'
  <2>1. CASE srvPm
    BY <1>3, <2>1 DEF SrvIsLimited, SemInv
  <2>2. CASE ~srvPm
    <3>1. Cardinality(SrvSessions \cup {s}) = Cardinality(SrvSessions) + 1
      BY <1>4, SrvIsFinite, FS_AddElement
    <3>2. Cardinality(SrvSessions) \in Nat /\ MaxSrv \in Nat
      BY SrvIsFinite, SMConstants
    <3>3. SrvSessions' = SrvSessions \cup {s}
      BY <1>3, <2>2
    <3> QED  BY <2>2, <3>1, <3>2, <3>3 DEF SrvIsLimited
  <2> QED  BY <2>1, <2>2
<1>6. ClientsWait'
  BY <1>1, <1>2 DEF ClientsWait, SemInv, Open
<1> QED  BY <1>1, <1>5, <1>6 DEF SemInv, SemCountsToWake

\* A turn of the main loop; one is resumed when the semaphore is taken.
LEMMA MainLoopCounts ==
  ASSUME SMInv, SemInv, ~Pre7x, MaxSrv <= SemMax + 1, MainLoop
  PROVE  SemInv'
<1>1. CASE \E s \in Slots : Command(s)
  BY <1>1, CommandCounts
<1>2. CASE ReplyFails \/ \E s \in Slots : SessionClosed(s)
  <2>1. PICK s \in inUse : FreeSlot(s)
    BY <1>2, SMConstants DEF SessionClosed, ReplyFails, SMInv, SMTypeOK
  <2>2. UNCHANGED <<waitReg, toWake, waitPort, sem, panicked>>
    BY <1>2 DEF SessionClosed, ReplyFails
  <2>3. inUse' = inUse \ {s} /\ isSrvPm' = [isSrvPm EXCEPT ![s] = FALSE] /\ s \notin Waiting
    BY <2>1 DEF FreeSlot, SMInv, ListsAreApart
  <2>4. Waiting' = Waiting /\ SrvSessions' \subseteq SrvSessions
    BY <2>2, <2>3, WaitersAreSlots DEF Waiting, SrvSessions, Open, SemInv, SMInv, SMTypeOK
  <2>5. SrvIsLimited'
    BY <2>4, SrvIsFinite, FS_Subset, FS_CardinalityType, SMConstants DEF SemInv, SrvIsLimited
  <2>6. isSrvPm' \in [Slots -> BOOLEAN] /\ \A t \in Slots \ {s} : isSrvPm'[t] = isSrvPm[t]
    BY <2>3 DEF SemInv
  <2>7. ClientsWait'
    BY <2>3, <2>4, <2>6, WaitersAreSlots DEF SemInv, ClientsWait
  <2>8. SemCountsToWake'
    BY <2>2 DEF SemInv, SemCountsToWake
  <2> QED  BY <2>5, <2>6, <2>7, <2>8 DEF SemInv
<1>3. CASE \E p \in Ports : PortClosed(p)
  <2>1. Waiting' = Waiting /\ UNCHANGED <<inUse, isSrvPm, toWake, sem, panicked>>
    BY <1>3, PortClosedKeeps DEF PortClosed
  <2> QED  BY <2>1, MovesKeep DEF Open, SemInv, SemCountsToWake
<1>4. CASE \E p \in Ports : PortReady(p)
  <2>1. PICK s, wp :
          /\ s \in Elems(waitPort)
          /\ Serves(s, replay[s].kind, replay[s].name, wp)
          /\ Outcome(s, replay[s].kind, replay[s].name, wp)
    BY <1>4, PortReadyKeeps
  <2>2. s \in Waiting /\ replay[s].kind \in Kinds /\ replay[s].name \in Names
    BY <2>1 DEF SMInv, ListsAreApart, LookupsRemembered, Remembers, Waiting, Lookup
  <2>3. Open' \subseteq Open /\ Waiting' \subseteq Waiting
    BY <2>1, <2>2, OutcomeMoves DEF Open
  <2>4. UNCHANGED <<isSrvPm, toWake, sem, panicked>>
    BY <1>4 DEF PortReady, ServeLookup
  <2> QED  BY <2>3, <2>4, MovesKeep DEF SemInv, SemCountsToWake
<1>5. CASE Reply \/ WaitFails
  <2>1. UNCHANGED <<inUse, waitReg, waitPort, isSrvPm, toWake, sem>> /\ panicked' \in {panicked, "wait"}
    BY <1>5 DEF Reply, WaitFails, Panic, lists, fields
  <2> QED  BY <2>1, MovesKeep DEF Open, Waiting, SemInv, SemCountsToWake
<1>6. CASE \E why \in {"sessions"} : Panic(why)
  <2>1. UNCHANGED <<inUse, waitReg, waitPort, isSrvPm, toWake, sem>> /\ panicked' = "sessions"
    BY <1>6 DEF Panic, lists, fields
  <2> QED  BY <2>1, MovesKeep DEF Open, Waiting
<1>7. CASE NewSrvSession \/ NewSrvPmSession
  BY <1>6, <1>7, AcceptCounts DEF NewSrvSession, NewSrvPmSession, PoolUsedUp
<1>8. CASE Resume
  <2>1. IsList(toWake) /\ sem = Len(toWake) /\ sem > 0
    BY <1>8 DEF Resume, SMInv, SMTypeOK, SemInv, SemCountsToWake
  <2>2. toWake # <<>>
    BY <2>1
  <2>3. PICK s \in Elems(toWake) :
          /\ Serves(s, replay[s].kind, replay[s].name, waitPort)
          /\ Outcome(s, replay[s].kind, replay[s].name, waitPort)
    BY <1>8, <2>2, ResumeKeeps
  <2>4. s \in Waiting /\ replay[s].kind \in Kinds /\ replay[s].name \in Names
    BY DEF SMInv, ListsAreApart, LookupsRemembered, Remembers, Waiting, Lookup
  <2>5. Open' \subseteq Open /\ Waiting' \subseteq Waiting
    BY <2>3, <2>4, OutcomeMoves DEF Open
  <2>6. toWake' = Tail(toWake) /\ sem' = sem - 1 /\ UNCHANGED <<isSrvPm, panicked>>
    BY <1>8, <2>2 DEF Resume, ServeLookup
  <2>7. sem' = Len(toWake')
    BY <2>1, <2>2, <2>6, TakesFirst
  <2>8. SrvSessions' \subseteq SrvSessions
    BY <2>5, <2>6 DEF SrvSessions
  <2>9. SrvIsLimited'
    BY <2>8, SrvIsFinite, FS_Subset, FS_CardinalityType, SMConstants DEF SemInv, SrvIsLimited
  <2> QED  BY <2>5, <2>6, <2>7, <2>9 DEF SemInv, ClientsWait, SemCountsToWake
<1> QED  BY <1>1, <1>2, <1>3, <1>4, <1>5, <1>7, <1>8 DEF MainLoop

\* The semaphore counts the sessions to wake up, so that neither its release in services.c nor the
\* resumption in main.c:184 can fail, as long as srv: has at most one session more than the limit
\* of the semaphore (both are 64), and lookups come to srv: only.
THEOREM SemaphoreCounts ==
  ASSUME ~Pre7x, MaxSrv <= SemMax + 1
  PROVE  Spec => []SemCountsToWake
<1>1. Init => SemInv
  <2> SUFFICES ASSUME Init PROVE SemInv
    OBVIOUS
  <2>1. Waiting = {} /\ SrvSessions = {}
    BY DEF Init, Waiting, SrvSessions, Open, Elems
  <2>2. SrvIsLimited
    BY <2>1, FS_EmptySet, SMConstants DEF SrvIsLimited
  <2> QED  BY <2>1, <2>2 DEF Init, SemInv, ClientsWait, SemCountsToWake
<1>2. SMInv /\ SemInv /\ [Next]_vars => SemInv'
  <2> SUFFICES ASSUME SMInv, SemInv, [Next]_vars PROVE SemInv'
    OBVIOUS
  <2>1. CASE UNCHANGED <<lists, isSrvPm, sem, panicked>>
    BY <2>1, MovesKeep DEF lists, Open, Waiting, SemInv, SemCountsToWake
  <2>2. CASE MainLoop
    BY <2>2, MainLoopCounts
  <2> QED
    BY <2>1, <2>2 DEF Next, Halted, vars, fields, Environment, ClientClose, ServerClosePort, ServiceSessionEnds
<1> QED  BY <1>1, <1>2, SMInvariant, PTL DEF Spec, SemInv
=============================================================================
