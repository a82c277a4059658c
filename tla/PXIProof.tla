------------------------------ MODULE PXIProof ------------------------------
(***************************************************************************)
(* sysmodules/pxi.  Every static buffer is in exactly one place, for any   *)
(* number of buffers, any services and any needs.                          *)
(*                                                                         *)
(* The sessions of pxi for any number of services, when pxi:mc does not    *)
(* send command 5 and the notification 0x100 does not come in the middle   *)
(* of a reply to it: no assertion of the four threads fails, and every     *)
(* command goes to ARM9 once and its reply goes back once.                 *)
(*                                                                         *)
(* What travels between the processors belongs to a service each.  The     *)
(* invariant says that a service has at most one message on its way, that  *)
(* its session says so, what the sender, the receiver and the handler of   *)
(* pxi:srv11 know about the others' progress, that the semaphore counts no *)
(* more than the replies there are, and that nothing comes after ARM9's    *)
(* answer to the end of the process.                                       *)
(***************************************************************************)
EXTENDS PXISessions, PXIBuffers, FiniteSetTheorems, SequenceTheorems, TLAPS
-----------------------------------------------------------------------------
(* The static buffers.                                                     *)

\* The state is made of sets of buffers.
BuffersTypeOK ==
  /\ free \in SUBSET Buffers
  /\ provided \in SUBSET Buffers
  /\ used \in [Users -> SUBSET Buffers]
  /\ busy \in SUBSET Users

\* A service has buffers while its command is not answered only; without this a
\* new command would forget the buffers of the last one.
OnlyBusyUse == \A s \in Users \ busy : used[s] = {}

\* The highest four are all there are: what a service has is what was provided,
\* at most four buffers, and none is left when they are released.
AtMostFour == Highest(4, provided) = provided /\ \A s \in Users : Highest(4, used[s]) = used[s]

BuffersInv == BuffersTypeOK /\ OnlyBusyUse /\ AtMostFour /\ Partition

\* clearMSBs (common.h) clears bits that are set.
LEMMA HighestIsSubset ==
  ASSUME NEW n, NEW set
  PROVE  Highest(n, set) \subseteq set
BY DEF Highest

\* Buffers that are each among the highest four of a larger set are at most four.
LEMMA HighestOfFew ==
  ASSUME NEW T \in SUBSET Buffers, NEW S \in SUBSET T,
         \A b \in S : Cardinality({c \in T : c > b}) < 4
  PROVE  Highest(4, S) = S
<1>1. IsFiniteSet(T)
  <2>1. IsFiniteSet(Buffers)
    BY FS_Interval, NBAssumption DEF Buffers
  <2> QED BY <2>1, FS_Subset
<1>2. SUFFICES ASSUME NEW b \in S
               PROVE  Cardinality({c \in S : c > b}) < 4
  BY DEF Highest
<1> DEFINE above(X) == {c \in X : c > b}
<1>3. IsFiniteSet(above(T))
  BY <1>1, FS_Subset
<1>4. above(S) \subseteq above(T)
  OBVIOUS
<1>5. /\ Cardinality(above(S)) <= Cardinality(above(T))
      /\ Cardinality(above(S)) \in Nat
      /\ Cardinality(above(T)) \in Nat
  BY <1>3, <1>4, FS_Subset, FS_CardinalityType
<1>6. Cardinality(above(T)) < 4
  BY <1>2
<1> HIDE DEF above
<1>7. Cardinality(above(S)) < 4
  BY <1>5, <1>6
<1> QED BY <1>7 DEF above

\* What is provided, and any part of it, is at most four buffers.
LEMMA ProvidedAreFew ==
  ASSUME NEW available \in SUBSET Buffers
  PROVE  /\ Highest(4, available) \in SUBSET Buffers
         /\ \A S \in SUBSET Highest(4, available) : Highest(4, S) = S
<1>1. ASSUME NEW S \in SUBSET Highest(4, available)
      PROVE  Highest(4, S) = S
  <2>1. S \in SUBSET available
    BY HighestIsSubset
  <2>2. \A b \in S : Cardinality({c \in available : c > b}) < 4
    BY DEF Highest
  <2> QED BY <2>1, <2>2, HighestOfFew
<1> QED BY <1>1, HighestIsSubset

\* A part of few buffers are few.
LEMMA PartOfFew ==
  ASSUME NEW T \in SUBSET Buffers, Highest(4, T) = T, NEW S \in SUBSET T
  PROVE  Highest(4, S) = S
<1>1. \A b \in S : Cardinality({c \in T : c > b}) < 4
  BY DEF Highest
<1> QED BY <1>1, HighestOfFew

\* The masks describe a partition at first.
LEMMA InitPartition == BuffersInit => BuffersInv
<1> SUFFICES ASSUME BuffersInit PROVE BuffersInv
  OBVIOUS
<1>1. /\ Highest(4, Buffers) \in SUBSET Buffers
      /\ Highest(4, Highest(4, Buffers)) = Highest(4, Buffers)
      /\ Highest(4, {}) = {}
  BY ProvidedAreFew
<1>2. BuffersTypeOK
  BY <1>1 DEF BuffersInit, BuffersTypeOK
<1>3. OnlyBusyUse
  BY DEF BuffersInit, OnlyBusyUse
<1>4. AtMostFour
  BY <1>1 DEF BuffersInit, AtMostFour
<1>5. Partition
  BY <1>1 DEF BuffersInit, Partition
<1> QED BY <1>2, <1>3, <1>4, <1>5 DEF BuffersInv

\* A command takes provided buffers and gives the others back.
LEMMA TakePartition ==
  ASSUME BuffersInv, NEW s \in Users, Take(s)
  PROVE  BuffersInv'
<1> DEFINE unneeded == Highest(4 - needs[s], provided)
           available == free \cup unneeded
<1>1. /\ unneeded \subseteq provided
      /\ available \in SUBSET Buffers
  BY HighestIsSubset DEF BuffersInv, BuffersTypeOK
<1>2. /\ used' = [used EXCEPT ![s] = provided \ unneeded]
      /\ provided' = Highest(4, available)
      /\ free' = available \ Highest(4, available)
      /\ busy' = busy \cup {s}
      /\ used[s] = {}
  BY DEF Take, Acquire, BuffersInv, OnlyBusyUse
<1>3. /\ Highest(4, available) \subseteq available
      /\ Highest(4, Highest(4, available)) = Highest(4, available)
      /\ Highest(4, provided \ unneeded) = provided \ unneeded
  <2>1. \A S \in SUBSET Highest(4, available) : Highest(4, S) = S
    BY <1>1, ProvidedAreFew
  <2>2. Highest(4, provided \ unneeded) = provided \ unneeded
    <3>1. provided \in SUBSET Buffers /\ Highest(4, provided) = provided
      BY DEF BuffersInv, BuffersTypeOK, AtMostFour
    <3> QED BY <3>1, PartOfFew
  <2> QED BY <2>1, <2>2, HighestIsSubset
<1> HIDE DEF unneeded
<1> DEFINE top == Highest(4, available)
<1>4. BuffersTypeOK'
  BY <1>1, <1>2, <1>3 DEF BuffersInv, BuffersTypeOK
<1>5. OnlyBusyUse'
  BY <1>2 DEF BuffersInv, BuffersTypeOK, OnlyBusyUse
<1>6. AtMostFour'
  BY <1>2, <1>3 DEF BuffersInv, BuffersTypeOK, AtMostFour
<1>7. Partition'
  <2>1. \A t \in Users : used'[t] = IF t = s THEN provided \ unneeded ELSE used[t]
    BY <1>2 DEF BuffersInv, BuffersTypeOK
  <2>2. Partition
    BY DEF BuffersInv
  <2>3. free' \cup provided' = available /\ free' \cap provided' = {}
    BY <1>2, <1>3
  <2>4. \A t \in Users \ {s} : used[t] \cap (free \cup provided) = {}
    BY <2>2 DEF Partition
  <2>5. \A t \in Users : used'[t] \cap available = {}
    BY <1>1, <2>1, <2>2, <2>4 DEF Partition
  <2>6. \A t, u \in Users : t # u => used'[t] \cap used'[u] = {}
    BY <1>1, <2>1, <2>2, <2>4 DEF Partition
  <2>7. available \cup UNION {used'[t] : t \in Users} = Buffers
    <3>1. ASSUME NEW b \in Buffers
          PROVE  b \in available \/ \E t \in Users : b \in used'[t]
      <4>1. b \in free \/ b \in provided \/ \E t \in Users : b \in used[t]
        BY <2>2 DEF Partition
      <4>2. CASE \E t \in Users : b \in used[t]
        <5>1. PICK t \in Users : b \in used[t]
          BY <4>2
        <5>2. t # s
          BY <1>2, <5>1
        <5> QED BY <2>1, <5>1, <5>2
      <4> QED BY <4>1, <4>2, <2>1
    <3>2. \A t \in Users : used'[t] \subseteq Buffers
      BY <1>4 DEF BuffersTypeOK
    <3> HIDE DEF available
    <3> QED BY <1>1, <3>1, <3>2
  <2> HIDE DEF available
  <2> QED BY <2>3, <2>5, <2>6, <2>7 DEF Partition
<1> QED BY <1>4, <1>5, <1>6, <1>7 DEF BuffersInv

\* A reply frees all the buffers of its command.
LEMMA ReplyPartition ==
  ASSUME BuffersInv, NEW s \in Users, Reply(s)
  PROVE  BuffersInv'
<1>1. /\ free' = free \cup used[s]
      /\ provided' = provided
      /\ busy' = busy \ {s}
      /\ used' = [used EXCEPT ![s] = {}]
  <2>1. Highest(4, used[s]) = used[s]
    BY DEF BuffersInv, AtMostFour
  <2> QED BY <2>1 DEF Reply, BuffersInv, BuffersTypeOK
<1>2. \A t \in Users : used'[t] = IF t = s THEN {} ELSE used[t]
  BY <1>1 DEF BuffersInv, BuffersTypeOK
<1>3. BuffersTypeOK'
  BY <1>1 DEF BuffersInv, BuffersTypeOK
<1>4. OnlyBusyUse'
  BY <1>1, <1>2 DEF BuffersInv, OnlyBusyUse
<1>5. AtMostFour'
  <2>1. Highest(4, {}) = {}
    BY DEF Highest
  <2> QED BY <1>1, <1>2, <2>1 DEF BuffersInv, AtMostFour
<1>6. Partition'
  <2>1. Partition
    BY DEF BuffersInv
  <2>2. \A t \in Users : used'[t] \cap (free' \cup provided') = {}
    BY <1>1, <1>2, <2>1 DEF Partition
  <2>3. \A t, u \in Users : t # u => used'[t] \cap used'[u] = {}
    BY <1>2, <2>1 DEF Partition
  <2>4. free' \cap provided' = {}
    BY <1>1, <2>1 DEF Partition
  <2>5. free' \cup provided' \cup UNION {used'[t] : t \in Users} = Buffers
    <3>1. ASSUME NEW b \in Buffers
          PROVE  b \in free' \/ b \in provided' \/ \E t \in Users : b \in used'[t]
      <4>1. b \in free \/ b \in provided \/ \E t \in Users : b \in used[t]
        BY <2>1 DEF Partition
      <4> QED BY <4>1, <1>1, <1>2
    <3>2. /\ \A t \in Users : used'[t] \subseteq Buffers
          /\ free' \subseteq Buffers /\ provided' \subseteq Buffers
      BY <1>3 DEF BuffersTypeOK
    <3> QED BY <3>1, <3>2
  <2> QED BY <2>2, <2>3, <2>4, <2>5 DEF Partition
<1> QED BY <1>3, <1>4, <1>5, <1>6 DEF BuffersInv

\* The static buffers are never lost nor in two places (sender.c:70-83).
THEOREM BuffersArePartitioned == BuffersSpec => []Partition
<1>1. BuffersInv /\ [BuffersNext]_bufferVars => BuffersInv'
  <2> SUFFICES ASSUME BuffersInv, [BuffersNext]_bufferVars PROVE BuffersInv'
    OBVIOUS
  <2>1. CASE \E s \in Users : Take(s)
    BY <2>1, TakePartition
  <2>2. CASE \E s \in Users : Reply(s)
    BY <2>2, ReplyPartition
  <2>3. CASE UNCHANGED bufferVars
    BY <2>3 DEF bufferVars, BuffersInv, BuffersTypeOK, OnlyBusyUse, AtMostFour, Partition
  <2> QED BY <2>1, <2>2, <2>3 DEF BuffersNext
<1>2. BuffersInv => Partition
  BY DEF BuffersInv
<1> QED BY InitPartition, <1>1, <1>2, PTL DEF BuffersSpec
-----------------------------------------------------------------------------
(* The sessions.                                                           *)

AllServices == 0 .. N

TypeOK ==
  /\ state \in [AllServices -> {"idle", "from11", "to9", "from9"}]
  /\ handle \in [Services -> BOOLEAN]
  /\ sem \in Nat
  /\ shouldTerminate \in BOOLEAN
  /\ cursor \in Nat /\ listening \subseteq Services /\ target \in Services \cup {Nobody}
  /\ received \in AllServices \cup {Nobody}
  /\ accepted \in Services \cup {Nobody}
  /\ client \in [Services -> {"away", "quiet", "calling", "waiting", "left"}]
  /\ command \in [Services -> {"mc5on", "mc5off", "other"}]
  /\ knocking \subseteq Services
  /\ to9 \in Seq(0 .. N + 1) /\ to11 \in Seq(AllServices)

\* The service that a message to ARM9 is about: the command Off is one of pxi:mc.
Token(x) == IF x = Off THEN 0 ELSE x

Sent(s) == \E i \in DOMAIN to9 : Token(to9[i]) = s
Back(s) == \E i \in DOMAIN to11 : to11[i] = s
Stored(s) == receiver = "store" /\ received = s
OnItsWay(s) == Sent(s) \/ Back(s) \/ Stored(s)

Sending(s) == sender \in {"acquire", "write"} /\ cursor = s

\* The session of pxi:mc is used for the end of the process.
Taken(s) == s = 0 /\ shouldTerminate

\* Without command 5, what is sent is not held back.
NoCommand5 == latest = 0 /\ ~disabled /\ \A s \in Services : command[s] = "other"

\* A service has one message on its way, and its session is in the state for it.
OnceTo9 ==
  \A i, j \in DOMAIN to9 : Token(to9[i]) = Token(to9[j]) /\ Token(to9[i]) \in Services => i = j
OnceTo11 ==
  \A i, j \in DOMAIN to11 : to11[i] = to11[j] /\ to11[i] \in Services => i = j
InOnePlace ==
  \A s \in Services :
     /\ ~(Sent(s) /\ Back(s)) /\ ~(Stored(s) /\ (Sent(s) \/ Back(s)))
     /\ OnItsWay(s) => state[s] = "to9" /\ ~Sending(s)
OneMessage == OnceTo9 /\ OnceTo11 /\ InOnePlace

\* A client without a command has an idle session; those that are accepted are not open.
ClientsMatch ==
  /\ \A s \in Services :
        client[s] \in {"away", "quiet", "calling"} /\ ~Taken(s) =>
           state[s] = "idle" /\ ~(target = s /\ sender = "scan")
  /\ \A s \in Services : s \in knocking \/ accepted = s => ~handle[s]
  /\ accepted \notin knocking

\* Where the sender is, it relies on what it has found before.
SenderKnows ==
  /\ sender \in {"acquire", "write"} =>
        cursor \in Services /\ state[cursor] = "to9" /\ target = Nobody /\ ~Taken(cursor)
  /\ sender = "scan" /\ target # Nobody => state[target] = "idle"
  /\ sender = "wait" => \A s \in listening : state[s] = "idle" \/ Taken(s)

\* The semaphore, and the receiver when it is about to signal it, count replies.
Replied == {s \in Services : state[s] = "from9" /\ ~Taken(s)}
Telling == receiver = "tell" /\ received \in Services /\ ~Taken(received)
SemCountsReplies == sem + (IF Telling THEN 1 ELSE 0) <= Cardinality(Replied)

\* The receiver and the handler of pxi:srv11 take turns.
HandlerTakesTurns ==
  LET asked == "commandReceived" \in events
      told == "replySent" \in events
      between == handler \in {"wait", "ended"} /\ ~asked /\ ~told /\ state[SRV11] = "to9"
  IN CASE receiver = "start" ->
             \/ handler = "start" /\ ~asked /\ ~told
             \/ handler = "wait" /\ ~asked /\ told /\ state[SRV11] = "to9"
       [] receiver \in {"wait", "loop", "ended"} -> between
       [] receiver = "store" -> between /\ received \in AllServices
       [] receiver = "tell" ->
             \/ received \in Services /\ between
             \/ received = SRV11 /\ handler = "wait" /\ ~asked /\ ~told /\ state[SRV11] = "from9"
       [] receiver = "answer" ->
             \/ handler = "wait" /\ asked /\ ~told /\ state[SRV11] = "from9"
             \/ handler \in {"acquire", "write", "answered"} /\ ~asked /\ ~told
             \/ handler = "wait" /\ ~asked /\ told /\ state[SRV11] = "to9"
       [] OTHER -> FALSE

\* The end of the process: the session of pxi:mc is the main thread's, ARM9's answer to it is
\* the last message, and whoever is told of it has nothing else to do.
EndComesLast ==
  /\ main \in {"serve", "acquire", "write", "join", "ended"} /\ (main = "serve" <=> ~shouldTerminate)
  /\ shouldTerminate => client[0] # "calling" /\ state[0] # "from11"
  /\ main \in {"acquire", "write"} => state[0] = "to9" /\ ~OnItsWay(0)
  /\ \A i \in DOMAIN to9 : /\ to9[i] = Off => main \in {"join", "ended"}
                           /\ to9[i] = 0 => ~shouldTerminate
  /\ shouldTerminate /\ Back(0) => arm9 = "off" /\ to11[Len(to11)] = 0
  /\ shouldTerminate /\ receiver \in {"store", "tell"} /\ received = 0 => arm9 = "off" /\ to11 = <<>>
  /\ "terminationRequested" \in events =>
        /\ shouldTerminate /\ arm9 = "off" /\ to11 = <<>>
        /\ receiver \in {"wait", "loop", "ended"} /\ handler \in {"wait", "ended"}
  /\ handler = "ended" => "terminationRequested" \in events

IInv ==
  /\ TypeOK /\ NoCommand5 /\ OneMessage /\ ClientsMatch /\ SenderKnows
  /\ SemCountsReplies /\ HandlerTakesTurns /\ EndComesLast /\ NeverPanics
-----------------------------------------------------------------------------
USE NAssumption, NobodyAssumption
    DEF Services, AllServices, SRV11, Off, Signal, Panic, senderVars, receiverVars, mainVars, clientVars,
        fifos, shared

\* The loops over the sessions of sender.c take the first that qualifies.
LEMMA MinIsIn ==
  ASSUME NEW S, S \subseteq Nat, S # {}
  PROVE  Min(S) \in S
<1> DEFINE Below == {pair \in Nat \X Nat : pair[1] < pair[2]}
<1>1. IsWellFoundedOn(Below, Nat)
  BY NatLessThanWellFounded DEF OpToRel
<1>2. PICK least \in S : \A n \in S : ~(<<n, least>> \in Below)
  <2> HIDE DEF Below
  <2> QED  BY <1>1, WFMin, Zenon
<1>3. \A n \in S : least <= n
  <2> SUFFICES ASSUME NEW n \in S PROVE least <= n
    OBVIOUS
  <2>1. ~(n < least) /\ least \in Nat /\ n \in Nat
    BY <1>2
  <2> QED  BY <2>1
<1> QED  BY <1>3 DEF Min

\* svcReplyAndReceive tells of a session only that the sender waits for.
LEMMA FirstSessionIsHeard ==
  ASSUME TypeOK, NEW s, FirstSession(s)
  PROVE  s \in listening /\ s \in Services
<1> DEFINE signaled == {l \in listening : client[l] \in {"calling", "left"}}
<1>1. signaled \subseteq Nat /\ signaled # {} /\ s = Min(signaled)
  <2>1. listening \subseteq Nat
    BY DEF TypeOK
  <2> QED  BY <2>1 DEF FirstSession
<1>2. s \in signaled
  <2> HIDE DEF signaled
  <2> QED  BY <1>1, MinIsIn
<1> QED  BY <1>2 DEF TypeOK

\* A message is written to the FIFO to ARM9.
LEMMA JoinsTo9 ==
  ASSUME TypeOK, OneMessage, NEW x \in 0 .. N + 1, ~Sent(Token(x)) \/ Token(x) \notin Services,
         to9' = Append(to9, x)
  PROVE  /\ to9' \in Seq(0 .. N + 1) /\ OnceTo9'
         /\ \A s : Sent(s)' <=> Sent(s) \/ s = Token(x)
         /\ \A k \in DOMAIN to9' : to9'[k] = x \/ \E l \in DOMAIN to9 : to9'[k] = to9[l]
<1>1. /\ to9' \in Seq(0 .. N + 1) /\ Len(to9) \in Nat
      /\ DOMAIN to9' = 1 .. Len(to9) + 1 /\ DOMAIN to9 = 1 .. Len(to9)
      /\ to9'[Len(to9) + 1] = x /\ \A k \in DOMAIN to9 : to9'[k] = to9[k]
  BY DEF TypeOK
<1>2. \A s : Sent(s)' <=> Sent(s) \/ s = Token(x)
  BY <1>1 DEF Sent, Token
<1>3. OnceTo9'
  <2> SUFFICES ASSUME NEW i \in DOMAIN to9', NEW j \in DOMAIN to9',
                      Token(to9'[i]) = Token(to9'[j]), Token(to9'[i]) \in Services
               PROVE  i = j
    BY DEF OnceTo9, Token
  <2>1. \A k \in DOMAIN to9 : Sent(Token(to9[k]))
    BY DEF Sent
  <2>2. i \in DOMAIN to9 /\ j \in DOMAIN to9 => i = j
    BY <1>1 DEF OneMessage, OnceTo9
  <2>3. i = Len(to9) + 1 <=> j = Len(to9) + 1
    BY <1>1, <2>1
  <2> QED  BY <1>1, <2>2, <2>3
<1> QED  BY <1>1, <1>2, <1>3

\* What RemoveAt leaves, and where it was.
LEMMA RemoveAtProperties ==
  ASSUME NEW S, NEW q \in Seq(S), NEW i \in 1 .. Len(q)
  PROVE  /\ RemoveAt(q, i) \in Seq(S)
         /\ Len(RemoveAt(q, i)) = Len(q) - 1 /\ DOMAIN RemoveAt(q, i) = 1 .. Len(q) - 1
         /\ \A k \in 1 .. Len(q) - 1 : RemoveAt(q, i)[k] = IF k < i THEN q[k] ELSE q[k + 1]
<1> DEFINE before == SubSeq(q, 1, i - 1)
           after == SubSeq(q, i + 1, Len(q))
<1>1. Len(q) \in Nat /\ i \in Nat /\ i <= Len(q) /\ 1 <= i
  OBVIOUS
<1>2. before \in Seq(S) /\ Len(before) = i - 1 /\ \A k \in 1 .. i - 1 : before[k] = q[k]
  <2>1. \A k \in 1 .. i - 1 : q[k] \in S
    BY <1>1
  <2> QED  BY <1>1, <2>1
<1>3. /\ after \in Seq(S) /\ Len(after) = Len(q) - i
      /\ \A k \in 1 .. Len(q) - i : after[k] = q[k + i]
  <2>1. \A k \in i + 1 .. Len(q) : q[k] \in S
    BY <1>1
  <2> QED  BY <1>1, <2>1
<1> HIDE DEF before, after
<1>4. RemoveAt(q, i) = before \o after
  BY DEF RemoveAt, before, after
<1>5. /\ before \o after \in Seq(S) /\ Len(before \o after) = Len(q) - 1
      /\ \A k \in 1 .. Len(q) - 1 :
            (before \o after)[k] = IF k < i THEN before[k] ELSE after[k - (i - 1)]
  BY <1>1, <1>2, <1>3, ConcatProperties
<1> QED  BY <1>1, <1>2, <1>3, <1>4, <1>5

\* Where the elements are that RemoveAt leaves.
Skip(i, k) == IF k < i THEN k ELSE k + 1

LEMMA SkipsOne ==
  ASSUME NEW n \in Nat, NEW i \in 1 .. n
  PROVE  /\ \A k \in 1 .. n - 1 : Skip(i, k) \in 1 .. n /\ Skip(i, k) # i
         /\ \A k, l \in 1 .. n - 1 : Skip(i, k) = Skip(i, l) => k = l
         /\ \A l \in 1 .. n : l # i => \E k \in 1 .. n - 1 : Skip(i, k) = l
<1>1. \A l \in 1 .. n : l # i => Skip(i, IF l < i THEN l ELSE l - 1) = l
  BY DEF Skip
<1>2. \A l \in 1 .. n : l # i => (IF l < i THEN l ELSE l - 1) \in 1 .. n - 1
  OBVIOUS
<1>3. \A k, l \in 1 .. n - 1 : Skip(i, k) = Skip(i, l) => k = l
  BY DEF Skip
<1>4. \A k \in 1 .. n - 1 : Skip(i, k) \in 1 .. n /\ Skip(i, k) # i
  BY DEF Skip
<1>5. ASSUME NEW l \in 1 .. n, l # i PROVE \E k \in 1 .. n - 1 : Skip(i, k) = l
  <2> DEFINE k == IF l < i THEN l ELSE l - 1
  <2>1. k \in 1 .. n - 1 /\ Skip(i, k) = l
    BY <1>1, <1>2, <1>5
  <2> HIDE DEF k
  <2> QED  BY <2>1
<1> QED  BY <1>3, <1>4, <1>5

\* ARM9 takes a message out of it.
LEMMA LeavesTo9 ==
  ASSUME TypeOK, OneMessage, NEW i \in 1 .. Len(to9), to9' = RemoveAt(to9, i)
  PROVE  /\ to9' \in Seq(0 .. N + 1) /\ OnceTo9'
         /\ \A s \in Services : Sent(s)' <=> Sent(s) /\ s # Token(to9[i])
         /\ \A k \in DOMAIN to9' : \E l \in DOMAIN to9 : to9'[k] = to9[l]
<1>1. to9 \in Seq(0 .. N + 1) /\ Len(to9) \in Nat /\ DOMAIN to9 = 1 .. Len(to9)
  BY DEF TypeOK
<1>2. /\ to9' \in Seq(0 .. N + 1) /\ DOMAIN to9' = 1 .. Len(to9) - 1
      /\ \A k \in 1 .. Len(to9) - 1 : to9'[k] = to9[Skip(i, k)]
  BY <1>1, RemoveAtProperties DEF Skip
<1>3. /\ \A k \in 1 .. Len(to9) - 1 : Skip(i, k) \in 1 .. Len(to9) /\ Skip(i, k) # i
      /\ \A k, l \in 1 .. Len(to9) - 1 : Skip(i, k) = Skip(i, l) => k = l
      /\ \A l \in 1 .. Len(to9) : l # i => \E k \in 1 .. Len(to9) - 1 : Skip(i, k) = l
  BY <1>1, SkipsOne
<1>4. OnceTo9'
  <2> SUFFICES ASSUME NEW k \in 1 .. Len(to9) - 1, NEW l \in 1 .. Len(to9) - 1,
                      Token(to9'[k]) = Token(to9'[l]), Token(to9'[k]) \in Services
               PROVE  k = l
    BY <1>2 DEF OnceTo9, Token
  <2>1. Skip(i, k) = Skip(i, l)
    BY <1>1, <1>2, <1>3 DEF OneMessage, OnceTo9, Token
  <2> QED  BY <1>3, <2>1
<1>5. ASSUME NEW s \in Services PROVE Sent(s)' <=> Sent(s) /\ s # Token(to9[i])
  <2>1. ASSUME Sent(s)' PROVE Sent(s) /\ s # Token(to9[i])
    <3>1. PICK k \in DOMAIN to9' : Token(to9'[k]) = s
      BY <2>1 DEF Sent, Token
    <3>2. Skip(i, k) \in DOMAIN to9 /\ Skip(i, k) # i /\ Token(to9[Skip(i, k)]) = s
      BY <1>1, <1>2, <1>3, <3>1 DEF Token
    <3> QED  BY <1>1, <3>2 DEF OneMessage, OnceTo9, Sent
  <2>2. ASSUME Sent(s), s # Token(to9[i]) PROVE Sent(s)'
    <3>1. PICK l \in DOMAIN to9 : Token(to9[l]) = s
      BY <2>2 DEF Sent
    <3>2. PICK k \in 1 .. Len(to9) - 1 : Skip(i, k) = l
      BY <1>1, <1>3, <2>2, <3>1
    <3> QED  BY <1>2, <3>1, <3>2 DEF Sent, Token
  <2> QED  BY <2>1, <2>2
<1> QED  BY <1>1, <1>2, <1>3, <1>4, <1>5

\* The same for the FIFO from ARM9.
LEMMA JoinsTo11 ==
  ASSUME TypeOK, OneMessage, NEW x \in AllServices, ~Back(x) \/ x \notin Services,
         to11' = Append(to11, x)
  PROVE  /\ to11' \in Seq(AllServices) /\ OnceTo11' /\ to11' # <<>> /\ to11'[Len(to11')] = x
         /\ \A s : Back(s)' <=> Back(s) \/ s = x
<1>1. /\ to11' \in Seq(AllServices) /\ Len(to11) \in Nat /\ Len(to11') = Len(to11) + 1
      /\ DOMAIN to11' = 1 .. Len(to11) + 1 /\ DOMAIN to11 = 1 .. Len(to11)
      /\ to11'[Len(to11) + 1] = x /\ \A k \in DOMAIN to11 : to11'[k] = to11[k]
  BY DEF TypeOK
<1>2. \A s : Back(s)' <=> Back(s) \/ s = x
  BY <1>1 DEF Back
<1>3. OnceTo11'
  BY <1>1 DEF OneMessage, OnceTo11, Back
<1>4. to11' # <<>>
  BY <1>1
<1> QED  BY <1>1, <1>2, <1>3, <1>4

\* The receiver reads a message.
LEMMA LeavesTo11 ==
  ASSUME TypeOK, OneMessage, to11 # <<>>, to11' = Tail(to11)
  PROVE  /\ to11' \in Seq(AllServices) /\ OnceTo11' /\ Head(to11) \in AllServices /\ Back(Head(to11))
         /\ \A s : Back(s)' => Back(s) /\ (s = Head(to11) => s \notin Services)
         /\ to11' # <<>> => to11'[Len(to11')] = to11[Len(to11)]
         /\ to11' = <<>> \/ Head(to11) \notin Services \/ Head(to11) # to11[Len(to11)]
<1>1. /\ to11 \in Seq(AllServices) /\ Len(to11) \in Nat \ {0} /\ DOMAIN to11 = 1 .. Len(to11)
      /\ Head(to11) = to11[1]
  BY DEF TypeOK
<1>2. /\ to11' \in Seq(AllServices) /\ Len(to11') = Len(to11) - 1 /\ DOMAIN to11' = 1 .. Len(to11) - 1
      /\ \A k \in DOMAIN to11' : to11'[k] = to11[k + 1]
  BY <1>1
<1>3. Head(to11) \in AllServices /\ Back(Head(to11))
  BY <1>1 DEF Back
<1>4. OnceTo11' /\ \A s : Back(s)' => Back(s) /\ (s = Head(to11) => s \notin Services)
  <2>1. \A k \in DOMAIN to11' : k + 1 \in DOMAIN to11 /\ k + 1 # 1
    BY <1>1, <1>2
  <2>2. OnceTo11'
    BY <1>1, <1>2, <2>1 DEF OneMessage, OnceTo11
  <2>3. ASSUME NEW s, Back(s)' PROVE Back(s) /\ (s = Head(to11) => s \notin Services)
    <3>1. PICK k \in DOMAIN to11' : to11'[k] = s
      BY <2>3 DEF Back
    <3>2. k + 1 \in DOMAIN to11 /\ k + 1 # 1 /\ 1 \in DOMAIN to11 /\ to11[k + 1] = s
      BY <1>1, <1>2, <2>1, <3>1
    <3> QED  BY <1>1, <3>2 DEF OneMessage, OnceTo11, Back
  <2> QED  BY <2>2, <2>3
<1>5. to11' # <<>> => to11'[Len(to11')] = to11[Len(to11)]
  BY <1>1, <1>2
<1>6. ASSUME Head(to11) \in Services, Head(to11) = to11[Len(to11)] PROVE to11' = <<>>
  <2>1. Len(to11) = 1
    BY <1>1, <1>6 DEF OneMessage, OnceTo11
  <2> QED  BY <1>2, <2>1
<1> QED  BY <1>2, <1>3, <1>4, <1>5, <1>6

\* The replies that the semaphore is to count are finitely many.
LEMMA RepliedIsFinite ==
  ASSUME TypeOK
  PROVE  IsFiniteSet(Replied) /\ Cardinality(Replied) \in Nat /\ Cardinality(Replied) <= N
<1>1. IsFiniteSet(Services) /\ Cardinality(Services) = N
  BY FS_Interval
<1>2. Replied \subseteq Services
  BY DEF Replied
<1> QED  BY <1>1, <1>2, FS_Subset, FS_CardinalityType

\* They stay when no session gets or loses one.
LEMMA RepliedStays ==
  ASSUME UNCHANGED shouldTerminate, \A x \in Services : state'[x] = "from9" <=> state[x] = "from9"
  PROVE  Replied' = Replied
BY DEF Replied, Taken

\* What is on its way stays there when nobody reads or writes.
LEMMA WaysStay ==
  ASSUME UNCHANGED fifos, NEW x, Stored(x)' <=> Stored(x)
  PROVE  (Sent(x)' <=> Sent(x)) /\ (Back(x)' <=> Back(x)) /\ (OnItsWay(x)' <=> OnItsWay(x))
BY DEF Sent, Back, OnItsWay, Token
-----------------------------------------------------------------------------
(* One lemma per action.                                                   *)

\* main.c: the session of a client is accepted, and is nobody's yet.
LEMMA MainAcceptsKeeps ==
  ASSUME IInv, NEW s \in Services, MainAccepts(s)
  PROVE  IInv'
<1> USE DEF MainAccepts, IInv
<1>1. TypeOK'  BY DEF TypeOK
<1>2. NoCommand5'  BY DEF TypeOK, NoCommand5
<1>3. OneMessage'
  BY DEF TypeOK, OneMessage, OnceTo9, OnceTo11, InOnePlace, Sent, Back, Stored, OnItsWay, Sending
<1>4. ClientsMatch'  BY DEF TypeOK, ClientsMatch, Taken
<1>5. SenderKnows'  BY DEF TypeOK, SenderKnows, Taken, ClientsMatch
<1>6. SemCountsReplies'  BY DEF TypeOK, SemCountsReplies, Replied, Telling, Taken
<1>7. HandlerTakesTurns'  BY DEF TypeOK, HandlerTakesTurns, EndComesLast
<1>8. EndComesLast'  BY DEF TypeOK, EndComesLast, OnItsWay, Sent, Back, Stored, HandlerTakesTurns
<1>9. NeverPanics'
  BY DEF TypeOK, NeverPanics, HandlerTakesTurns, EndComesLast, SemCountsReplies, ClientsMatch
<1> QED  BY <1>1, <1>2, <1>3, <1>4, <1>5, <1>6, <1>7, <1>8, <1>9

\* The main thread waits for the mutex.
LEMMA MainAcquiresKeeps ==
  ASSUME IInv, MainAcquires
  PROVE  IInv'
<1> USE DEF MainAcquires, IInv
<1>1. TypeOK'  BY DEF TypeOK
<1>2. NoCommand5'  BY DEF TypeOK, NoCommand5
<1>3. OneMessage'
  BY DEF TypeOK, OneMessage, OnceTo9, OnceTo11, InOnePlace, Sent, Back, Stored, OnItsWay, Sending
<1>4. ClientsMatch'  BY DEF TypeOK, ClientsMatch, Taken
<1>5. SenderKnows'  BY DEF TypeOK, SenderKnows, Taken, ClientsMatch
<1>6. SemCountsReplies'  BY DEF TypeOK, SemCountsReplies, Replied, Telling, Taken
<1>7. HandlerTakesTurns'  BY DEF TypeOK, HandlerTakesTurns, EndComesLast
<1>8. EndComesLast'  BY DEF TypeOK, EndComesLast, OnItsWay, Sent, Back, Stored, HandlerTakesTurns
<1>9. NeverPanics'
  BY DEF TypeOK, NeverPanics, HandlerTakesTurns, EndComesLast, SemCountsReplies, ClientsMatch
<1> QED  BY <1>1, <1>2, <1>3, <1>4, <1>5, <1>6, <1>7, <1>8, <1>9

\* The threads have ended.
LEMMA MainJoinsKeeps ==
  ASSUME IInv, MainJoins
  PROVE  IInv'
<1> USE DEF MainJoins, IInv
<1>1. TypeOK'  BY DEF TypeOK
<1>2. NoCommand5'  BY DEF TypeOK, NoCommand5
<1>3. OneMessage'
  BY DEF TypeOK, OneMessage, OnceTo9, OnceTo11, InOnePlace, Sent, Back, Stored, OnItsWay, Sending
<1>4. ClientsMatch'  BY DEF TypeOK, ClientsMatch, Taken
<1>5. SenderKnows'  BY DEF TypeOK, SenderKnows, Taken, ClientsMatch
<1>6. SemCountsReplies'  BY DEF TypeOK, SemCountsReplies, Replied, Telling, Taken
<1>7. HandlerTakesTurns'  BY DEF TypeOK, HandlerTakesTurns, EndComesLast
<1>8. EndComesLast'  BY DEF TypeOK, EndComesLast, OnItsWay, Sent, Back, Stored, HandlerTakesTurns
<1>9. NeverPanics'
  BY DEF TypeOK, NeverPanics, HandlerTakesTurns, EndComesLast, SemCountsReplies, ClientsMatch
<1> QED  BY <1>1, <1>2, <1>3, <1>4, <1>5, <1>6, <1>7, <1>8, <1>9

\* It waits for the mutex, or is told of the end.
LEMMA SenderAcquiresKeeps ==
  ASSUME IInv, SenderAcquires
  PROVE  IInv'
<1> USE DEF SenderAcquires, IInv, FirstEvent
<1>1. TypeOK'  BY DEF TypeOK
<1>2. NoCommand5'  BY DEF TypeOK, NoCommand5
<1>3. OneMessage'
  BY DEF TypeOK, OneMessage, OnceTo9, OnceTo11, InOnePlace, Sent, Back, Stored, OnItsWay, Sending
<1>4. ClientsMatch'  BY DEF TypeOK, ClientsMatch, Taken
<1>5. SenderKnows'  BY DEF TypeOK, SenderKnows, Taken, ClientsMatch
<1>6. SemCountsReplies'  BY DEF TypeOK, SemCountsReplies, Replied, Telling, Taken
<1>7. HandlerTakesTurns'  BY DEF TypeOK, HandlerTakesTurns, EndComesLast
<1>8. EndComesLast'  BY DEF TypeOK, EndComesLast, OnItsWay, Sent, Back, Stored, HandlerTakesTurns
<1>9. NeverPanics'
  BY DEF TypeOK, NeverPanics, HandlerTakesTurns, EndComesLast, SemCountsReplies, ClientsMatch
<1> QED  BY <1>1, <1>2, <1>3, <1>4, <1>5, <1>6, <1>7, <1>8, <1>9

\* It is told of the end.
LEMMA SenderEndsKeeps ==
  ASSUME IInv, SenderEnds
  PROVE  IInv'
<1> USE DEF SenderEnds, IInv, FirstEvent
<1>1. TypeOK'  BY DEF TypeOK
<1>2. NoCommand5'  BY DEF TypeOK, NoCommand5
<1>3. OneMessage'
  BY DEF TypeOK, OneMessage, OnceTo9, OnceTo11, InOnePlace, Sent, Back, Stored, OnItsWay, Sending
<1>4. ClientsMatch'  BY DEF TypeOK, ClientsMatch, Taken
<1>5. SenderKnows'  BY DEF TypeOK, SenderKnows, Taken, ClientsMatch
<1>6. SemCountsReplies'  BY DEF TypeOK, SemCountsReplies, Replied, Telling, Taken
<1>7. HandlerTakesTurns'  BY DEF TypeOK, HandlerTakesTurns, EndComesLast
<1>8. EndComesLast'  BY DEF TypeOK, EndComesLast, OnItsWay, Sent, Back, Stored, HandlerTakesTurns
<1>9. NeverPanics'
  BY DEF TypeOK, NeverPanics, HandlerTakesTurns, EndComesLast, SemCountsReplies, ClientsMatch
<1> QED  BY <1>1, <1>2, <1>3, <1>4, <1>5, <1>6, <1>7, <1>8, <1>9

\* It is told of a new session.
LEMMA SenderListensAgainKeeps ==
  ASSUME IInv, SenderListensAgain
  PROVE  IInv'
<1> USE DEF SenderListensAgain, IInv, FirstEvent
<1>1. TypeOK'  BY DEF TypeOK
<1>2. NoCommand5'  BY DEF TypeOK, NoCommand5
<1>3. OneMessage'
  BY DEF TypeOK, OneMessage, OnceTo9, OnceTo11, InOnePlace, Sent, Back, Stored, OnItsWay, Sending
<1>4. ClientsMatch'  BY DEF TypeOK, ClientsMatch, Taken
<1>5. SenderKnows'  BY DEF TypeOK, SenderKnows, Taken, ClientsMatch
<1>6. SemCountsReplies'  BY DEF TypeOK, SemCountsReplies, Replied, Telling, Taken
<1>7. HandlerTakesTurns'  BY DEF TypeOK, HandlerTakesTurns, EndComesLast
<1>8. EndComesLast'  BY DEF TypeOK, EndComesLast, OnItsWay, Sent, Back, Stored, HandlerTakesTurns
<1>9. NeverPanics'
  BY DEF TypeOK, NeverPanics, HandlerTakesTurns, EndComesLast, SemCountsReplies, ClientsMatch
<1> QED  BY <1>1, <1>2, <1>3, <1>4, <1>5, <1>6, <1>7, <1>8, <1>9

\* It is told of the end, and has no request.
LEMMA HandlerEndsKeeps ==
  ASSUME IInv, HandlerEnds
  PROVE  IInv'
<1> USE DEF HandlerEnds, IInv
<1>1. TypeOK'  BY DEF TypeOK
<1>2. NoCommand5'  BY DEF TypeOK, NoCommand5
<1>3. OneMessage'
  BY DEF TypeOK, OneMessage, OnceTo9, OnceTo11, InOnePlace, Sent, Back, Stored, OnItsWay, Sending
<1>4. ClientsMatch'  BY DEF TypeOK, ClientsMatch, Taken
<1>5. SenderKnows'  BY DEF TypeOK, SenderKnows, Taken, ClientsMatch
<1>6. SemCountsReplies'  BY DEF TypeOK, SemCountsReplies, Replied, Telling, Taken
<1>7. HandlerTakesTurns'  BY DEF TypeOK, HandlerTakesTurns, EndComesLast
<1>8. EndComesLast'  BY DEF TypeOK, EndComesLast, OnItsWay, Sent, Back, Stored, HandlerTakesTurns
<1>9. NeverPanics'
  BY DEF TypeOK, NeverPanics, HandlerTakesTurns, EndComesLast, SemCountsReplies, ClientsMatch
<1> QED  BY <1>1, <1>2, <1>3, <1>4, <1>5, <1>6, <1>7, <1>8, <1>9

\* It waits for the mutex; nobody has been told of the end while it has a request.
LEMMA HandlerAcquiresKeeps ==
  ASSUME IInv, HandlerAcquires
  PROVE  IInv'
<1> USE DEF HandlerAcquires, IInv
<1>1. TypeOK'  BY DEF TypeOK
<1>2. NoCommand5'  BY DEF TypeOK, NoCommand5
<1>3. OneMessage'
  BY DEF TypeOK, OneMessage, OnceTo9, OnceTo11, InOnePlace, Sent, Back, Stored, OnItsWay, Sending
<1>4. ClientsMatch'  BY DEF TypeOK, ClientsMatch, Taken
<1>5. SenderKnows'  BY DEF TypeOK, SenderKnows, Taken, ClientsMatch
<1>6. SemCountsReplies'  BY DEF TypeOK, SemCountsReplies, Replied, Telling, Taken
<1>7. HandlerTakesTurns'  BY DEF TypeOK, HandlerTakesTurns, EndComesLast
<1>8. EndComesLast'  BY DEF TypeOK, EndComesLast, OnItsWay, Sent, Back, Stored, HandlerTakesTurns
<1>9. NeverPanics'
  BY DEF TypeOK, NeverPanics, HandlerTakesTurns, EndComesLast, SemCountsReplies, ClientsMatch
<1> QED  BY <1>1, <1>2, <1>3, <1>4, <1>5, <1>6, <1>7, <1>8, <1>9

\* The receiver begins when the handler of pxi:srv11 has.
LEMMA ReceiverStartsKeeps ==
  ASSUME IInv, ReceiverStarts
  PROVE  IInv'
<1> USE DEF ReceiverStarts, IInv
<1>1. TypeOK'  BY DEF TypeOK
<1>2. NoCommand5'  BY DEF TypeOK, NoCommand5
<1>3. OneMessage'
  BY DEF TypeOK, OneMessage, OnceTo9, OnceTo11, InOnePlace, Sent, Back, Stored, OnItsWay, Sending
<1>4. ClientsMatch'  BY DEF TypeOK, ClientsMatch, Taken
<1>5. SenderKnows'  BY DEF TypeOK, SenderKnows, Taken, ClientsMatch
<1>6. SemCountsReplies'  BY DEF TypeOK, SemCountsReplies, Replied, Telling, Taken
<1>7. HandlerTakesTurns'  BY DEF TypeOK, HandlerTakesTurns, EndComesLast
<1>8. EndComesLast'  BY DEF TypeOK, EndComesLast, OnItsWay, Sent, Back, Stored, HandlerTakesTurns
<1>9. NeverPanics'
  BY DEF TypeOK, NeverPanics, HandlerTakesTurns, EndComesLast, SemCountsReplies, ClientsMatch
<1> QED  BY <1>1, <1>2, <1>3, <1>4, <1>5, <1>6, <1>7, <1>8, <1>9

\* It wakes for a message, or for the end.
LEMMA ReceiverWakesKeeps ==
  ASSUME IInv, ReceiverWakes
  PROVE  IInv'
<1> USE DEF ReceiverWakes, IInv
<1>1. TypeOK'  BY DEF TypeOK
<1>2. NoCommand5'  BY DEF TypeOK, NoCommand5
<1>3. OneMessage'
  BY DEF TypeOK, OneMessage, OnceTo9, OnceTo11, InOnePlace, Sent, Back, Stored, OnItsWay, Sending
<1>4. ClientsMatch'  BY DEF TypeOK, ClientsMatch, Taken
<1>5. SenderKnows'  BY DEF TypeOK, SenderKnows, Taken, ClientsMatch
<1>6. SemCountsReplies'  BY DEF TypeOK, SemCountsReplies, Replied, Telling, Taken
<1>7. HandlerTakesTurns'  BY DEF TypeOK, HandlerTakesTurns, EndComesLast
<1>8. EndComesLast'  BY DEF TypeOK, EndComesLast, OnItsWay, Sent, Back, Stored, HandlerTakesTurns
<1>9. NeverPanics'
  BY DEF TypeOK, NeverPanics, HandlerTakesTurns, EndComesLast, SemCountsReplies, ClientsMatch
<1> QED  BY <1>1, <1>2, <1>3, <1>4, <1>5, <1>6, <1>7, <1>8, <1>9

\* The request to pxi:srv11 has been answered.
LEMMA ReceiverGoesOnKeeps ==
  ASSUME IInv, ReceiverGoesOn
  PROVE  IInv'
<1> USE DEF ReceiverGoesOn, IInv
<1>1. TypeOK'  BY DEF TypeOK
<1>2. NoCommand5'  BY DEF TypeOK, NoCommand5
<1>3. OneMessage'
  BY DEF TypeOK, OneMessage, OnceTo9, OnceTo11, InOnePlace, Sent, Back, Stored, OnItsWay, Sending
<1>4. ClientsMatch'  BY DEF TypeOK, ClientsMatch, Taken
<1>5. SenderKnows'  BY DEF TypeOK, SenderKnows, Taken, ClientsMatch
<1>6. SemCountsReplies'  BY DEF TypeOK, SemCountsReplies, Replied, Telling, Taken
<1>7. HandlerTakesTurns'  BY DEF TypeOK, HandlerTakesTurns, EndComesLast
<1>8. EndComesLast'  BY DEF TypeOK, EndComesLast, OnItsWay, Sent, Back, Stored, HandlerTakesTurns
<1>9. NeverPanics'
  BY DEF TypeOK, NeverPanics, HandlerTakesTurns, EndComesLast, SemCountsReplies, ClientsMatch
<1> QED  BY <1>1, <1>2, <1>3, <1>4, <1>5, <1>6, <1>7, <1>8, <1>9

\* A client connects.
LEMMA ConnectKeeps ==
  ASSUME IInv, NEW s \in Services, Connect(s)
  PROVE  IInv'
<1> USE DEF Connect, IInv
<1>1. TypeOK'  BY DEF TypeOK
<1>2. NoCommand5'  BY DEF TypeOK, NoCommand5
<1>3. OneMessage'
  BY DEF TypeOK, OneMessage, OnceTo9, OnceTo11, InOnePlace, Sent, Back, Stored, OnItsWay, Sending
<1>4. ClientsMatch'  BY DEF TypeOK, ClientsMatch, Taken
<1>5. SenderKnows'  BY DEF TypeOK, SenderKnows, Taken, ClientsMatch
<1>6. SemCountsReplies'  BY DEF TypeOK, SemCountsReplies, Replied, Telling, Taken
<1>7. HandlerTakesTurns'  BY DEF TypeOK, HandlerTakesTurns, EndComesLast
<1>8. EndComesLast'  BY DEF TypeOK, EndComesLast, OnItsWay, Sent, Back, Stored, HandlerTakesTurns
<1>9. NeverPanics'
  BY DEF TypeOK, NeverPanics, HandlerTakesTurns, EndComesLast, SemCountsReplies, ClientsMatch
<1> QED  BY <1>1, <1>2, <1>3, <1>4, <1>5, <1>6, <1>7, <1>8, <1>9

\* It goes.
LEMMA LeaveKeeps ==
  ASSUME IInv, NEW s \in Services, Leave(s)
  PROVE  IInv'
<1> USE DEF Leave, IInv
<1>1. TypeOK'  BY DEF TypeOK
<1>2. NoCommand5'  BY DEF TypeOK, NoCommand5
<1>3. OneMessage'
  BY DEF TypeOK, OneMessage, OnceTo9, OnceTo11, InOnePlace, Sent, Back, Stored, OnItsWay, Sending
<1>4. ClientsMatch'  BY DEF TypeOK, ClientsMatch, Taken
<1>5. SenderKnows'  BY DEF TypeOK, SenderKnows, Taken, ClientsMatch
<1>6. SemCountsReplies'  BY DEF TypeOK, SemCountsReplies, Replied, Telling, Taken
<1>7. HandlerTakesTurns'  BY DEF TypeOK, HandlerTakesTurns, EndComesLast
<1>8. EndComesLast'  BY DEF TypeOK, EndComesLast, OnItsWay, Sent, Back, Stored, HandlerTakesTurns
<1>9. NeverPanics'
  BY DEF TypeOK, NeverPanics, HandlerTakesTurns, EndComesLast, SemCountsReplies, ClientsMatch
<1> QED  BY <1>1, <1>2, <1>3, <1>4, <1>5, <1>6, <1>7, <1>8, <1>9

\* It is given to the sender: its handle was closed before the client could connect again.
LEMMA MainRegistersKeeps ==
  ASSUME IInv, MainRegisters
  PROVE  IInv'
<1> USE DEF MainRegisters, IInv
<1>1. TypeOK'  BY DEF TypeOK
<1>2. NoCommand5'  BY DEF TypeOK, NoCommand5
<1>3. OneMessage'
  BY DEF TypeOK, OneMessage, OnceTo9, OnceTo11, InOnePlace, Sent, Back, Stored, OnItsWay, Sending
<1>4. ClientsMatch'
  <2>1. accepted \in Services /\ ~handle[accepted] /\ accepted \notin knocking
    BY DEF TypeOK, ClientsMatch
  <2>2. /\ accepted' = Nobody /\ UNCHANGED <<client, state, target, sender, knocking, shouldTerminate>>
        /\ \A x \in Services : x # accepted => handle'[x] = handle[x]
    BY <2>1 DEF TypeOK
  <2>3. Nobody \notin Services /\ Nobody \notin knocking
    <3>1. \A x \in 0 .. N - 1 : x \in 0 .. N
      OBVIOUS
    <3> QED  BY <3>1 DEF TypeOK
  <2> QED  BY <2>1, <2>2, <2>3 DEF ClientsMatch, Taken
<1>5. SenderKnows'  BY DEF TypeOK, SenderKnows, Taken, ClientsMatch
<1>6. SemCountsReplies'  BY DEF TypeOK, SemCountsReplies, Replied, Telling, Taken
<1>7. HandlerTakesTurns'  BY DEF TypeOK, HandlerTakesTurns, EndComesLast
<1>8. EndComesLast'  BY DEF TypeOK, EndComesLast, OnItsWay, Sent, Back, Stored, HandlerTakesTurns
<1>9. NeverPanics'
  BY DEF TypeOK, NeverPanics, HandlerTakesTurns, EndComesLast, SemCountsReplies, ClientsMatch
<1> QED  BY <1>1, <1>2, <1>3, <1>4, <1>5, <1>6, <1>7, <1>8, <1>9

\* It sends a command.
LEMMA CallKeeps ==
  ASSUME ~UsesMC5, IInv, NEW s \in Services, NEW c \in {"mc5on", "mc5off", "other"}, Call(s, c)
  PROVE  IInv'
<1> USE DEF Call, IInv
<1>1. TypeOK'  BY DEF TypeOK
<1>2. NoCommand5'  BY DEF TypeOK, NoCommand5
<1>3. OneMessage'
  BY DEF TypeOK, OneMessage, OnceTo9, OnceTo11, InOnePlace, Sent, Back, Stored, OnItsWay, Sending
<1>4. ClientsMatch'  BY DEF TypeOK, ClientsMatch, Taken
<1>5. SenderKnows'  BY DEF TypeOK, SenderKnows, Taken, ClientsMatch
<1>6. SemCountsReplies'  BY DEF TypeOK, SemCountsReplies, Replied, Telling, Taken
<1>7. HandlerTakesTurns'  BY DEF TypeOK, HandlerTakesTurns, EndComesLast
<1>8. EndComesLast'  BY DEF TypeOK, EndComesLast, OnItsWay, Sent, Back, Stored, HandlerTakesTurns
<1>9. NeverPanics'
  BY DEF TypeOK, NeverPanics, HandlerTakesTurns, EndComesLast, SemCountsReplies, ClientsMatch
<1> QED  BY <1>1, <1>2, <1>3, <1>4, <1>5, <1>6, <1>7, <1>8, <1>9

\* The handler begins.
LEMMA HandlerStartsKeeps ==
  ASSUME IInv, HandlerStarts
  PROVE  IInv'
<1> USE DEF HandlerStarts, IInv
<1>1. TypeOK'  BY DEF TypeOK
<1>2. NoCommand5'  BY DEF TypeOK, NoCommand5
<1>3. OneMessage'
  BY DEF TypeOK, OneMessage, OnceTo9, OnceTo11, InOnePlace, Sent, Back, Stored, OnItsWay, Sending
<1>4. ClientsMatch'  BY DEF TypeOK, ClientsMatch, Taken
<1>5. SenderKnows'  BY DEF TypeOK, SenderKnows, Taken, ClientsMatch
<1>6. SemCountsReplies'
  <2>1. Replied' = Replied
    BY RepliedStays DEF TypeOK
  <2> QED  BY <2>1 DEF SemCountsReplies, Telling, Taken
<1>7. HandlerTakesTurns'  BY DEF TypeOK, HandlerTakesTurns, EndComesLast
<1>8. EndComesLast'
  <2>1. (Back(0)' <=> Back(0)) /\ (OnItsWay(0)' <=> OnItsWay(0))
    BY WaysStay DEF Stored, HandlerTakesTurns
  <2> QED  BY <2>1 DEF TypeOK, EndComesLast, HandlerTakesTurns
<1>9. NeverPanics'
  BY DEF TypeOK, NeverPanics, HandlerTakesTurns, EndComesLast, SemCountsReplies, ClientsMatch
<1> QED  BY <1>1, <1>2, <1>3, <1>4, <1>5, <1>6, <1>7, <1>8, <1>9

\* It takes the request that the receiver has stored.
LEMMA HandlerTakesKeeps ==
  ASSUME IInv, HandlerTakes
  PROVE  IInv'
<1> USE DEF HandlerTakes, IInv
<1>0. state[SRV11] = "from9" /\ receiver = "answer" /\ "terminationRequested" \notin events
  BY DEF HandlerTakesTurns, EndComesLast
<1>a. state'[0] = state[0]
  BY <1>0 DEF TypeOK
<1>1. TypeOK'  BY DEF TypeOK
<1>2. NoCommand5'  BY DEF TypeOK, NoCommand5
<1>3. OneMessage'
  BY DEF TypeOK, OneMessage, OnceTo9, OnceTo11, InOnePlace, Sent, Back, Stored, OnItsWay, Sending
<1>4. ClientsMatch'  BY DEF TypeOK, ClientsMatch, Taken
<1>5. SenderKnows'  BY DEF TypeOK, SenderKnows, Taken, ClientsMatch
<1>6. SemCountsReplies'
  <2>1. Replied' = Replied
    BY RepliedStays DEF TypeOK
  <2> QED  BY <2>1 DEF SemCountsReplies, Telling, Taken
<1>7. HandlerTakesTurns'  BY DEF TypeOK, HandlerTakesTurns, EndComesLast
<1>8. EndComesLast'
  <2>1. (Back(0)' <=> Back(0)) /\ (OnItsWay(0)' <=> OnItsWay(0))
    BY WaysStay DEF Stored, HandlerTakesTurns
  <2> QED  BY <1>0, <1>a, <2>1 DEF TypeOK, EndComesLast, HandlerTakesTurns
<1>9. NeverPanics'
  BY DEF TypeOK, NeverPanics, HandlerTakesTurns, EndComesLast, SemCountsReplies, ClientsMatch
<1> QED  BY <1>1, <1>2, <1>3, <1>4, <1>5, <1>6, <1>7, <1>8, <1>9

\* The receiver may go on.
LEMMA HandlerAnswersKeeps ==
  ASSUME IInv, HandlerAnswers
  PROVE  IInv'
<1> USE DEF HandlerAnswers, IInv
<1>1. TypeOK'  BY DEF TypeOK
<1>2. NoCommand5'  BY DEF TypeOK, NoCommand5
<1>3. OneMessage'
  BY DEF TypeOK, OneMessage, OnceTo9, OnceTo11, InOnePlace, Sent, Back, Stored, OnItsWay, Sending
<1>4. ClientsMatch'  BY DEF TypeOK, ClientsMatch, Taken
<1>5. SenderKnows'  BY DEF TypeOK, SenderKnows, Taken, ClientsMatch
<1>6. SemCountsReplies'
  <2>1. Replied' = Replied
    BY RepliedStays DEF TypeOK
  <2> QED  BY <2>1 DEF SemCountsReplies, Telling, Taken
<1>7. HandlerTakesTurns'  BY DEF TypeOK, HandlerTakesTurns, EndComesLast
<1>8. EndComesLast'
  <2>1. (Back(0)' <=> Back(0)) /\ (OnItsWay(0)' <=> OnItsWay(0))
    BY WaysStay DEF Stored, HandlerTakesTurns
  <2> QED  BY <2>1 DEF TypeOK, EndComesLast, HandlerTakesTurns
<1>9. NeverPanics'
  BY DEF TypeOK, NeverPanics, HandlerTakesTurns, EndComesLast, SemCountsReplies, ClientsMatch
<1> QED  BY <1>1, <1>2, <1>3, <1>4, <1>5, <1>6, <1>7, <1>8, <1>9

\* It gives back a reply and waits; the sessions that it listens to are idle.
LEMMA SenderRepliesKeeps ==
  ASSUME IInv, SenderReplies
  PROVE  IInv'
<1> USE DEF SenderReplies, IInv
<1>0. target # Nobody => target \in Services /\ state[target] = "idle"
  BY DEF TypeOK, SenderKnows
<1>. DEFINE gone == target # Nobody /\ client[target] = "left"
<1>a. /\ client' \in [Services -> {"away", "quiet", "calling", "waiting", "left"}]
      /\ handle' \in [Services -> BOOLEAN]
      /\ \A x \in Services : x # target => client'[x] = client[x] /\ handle'[x] = handle[x]
      /\ target # Nobody => client'[target] \in {"away", "quiet"} /\ (handle'[target] => handle[target])
  <2>1. CASE gone
    BY <1>0, <2>1 DEF TypeOK
  <2>2. CASE ~gone
    BY <1>0, <2>2 DEF TypeOK
  <2> QED  BY <2>1, <2>2
<1>b. target' \in {target, Nobody} /\ (sender' = "scan" => target' = Nobody) /\ sender' \in {"scan", "wait"}
  OBVIOUS
<1>c. cursor' \in {0, cursor} /\ listening' \subseteq Services /\ (sender' = "wait" => \A x \in listening' : state[x] = "idle")
  BY DEF TypeOK
<1> HIDE DEF SenderReplies
<1>d. sender = "scan" /\ UNCHANGED <<state, mutex, sem, events, latest, pending, disabled, receiverVars, handler,
                 mainVars, command, knocking, fifos, arm9, panicked>>
  BY DEF SenderReplies
<1>1. TypeOK'
  BY <1>0, <1>a, <1>b, <1>c, <1>d DEF TypeOK
<1>2. NoCommand5'
  BY <1>d, SenderReplies DEF SenderReplies, NoCommand5
<1>3. OneMessage'
  BY <1>b, <1>d DEF OneMessage, OnceTo9, OnceTo11, InOnePlace, Sent, Back, Stored, OnItsWay, Sending, Token
<1>4. ClientsMatch'
  BY <1>0, <1>a, <1>b, <1>d DEF TypeOK, ClientsMatch, Taken
<1>5. SenderKnows'
  BY <1>b, <1>c, <1>d DEF SenderKnows
<1>6. SemCountsReplies'
  BY <1>d DEF SemCountsReplies, Replied, Telling, Taken
<1>7. HandlerTakesTurns'
  BY <1>d DEF HandlerTakesTurns
<1>8. EndComesLast'
  <2>1. (Back(0)' <=> Back(0)) /\ (OnItsWay(0)' <=> OnItsWay(0))
    BY <1>d, WaysStay DEF Stored
  <2>2. client[0] # "calling" => client'[0] # "calling"
    BY <1>0, <1>a
  <2> QED  BY <1>d, <2>1, <2>2 DEF EndComesLast
<1>9. NeverPanics'
  BY <1>d DEF NeverPanics
<1> QED  BY <1>1, <1>2, <1>3, <1>4, <1>5, <1>6, <1>7, <1>8, <1>9

\* It is told that a client has gone, whose session is idle.
LEMMA SenderClosesKeeps ==
  ASSUME IInv, NEW s \in Services, SenderCloses(s)
  PROVE  IInv'
<1> USE DEF SenderCloses, IInv
<1>0. s \in listening /\ (state[s] = "idle" \/ Taken(s))
  BY FirstSessionIsHeard DEF SenderKnows
<1>1. TypeOK'  BY DEF TypeOK
<1>2. NoCommand5'  BY DEF TypeOK, NoCommand5
<1>3. OneMessage'
  BY DEF TypeOK, OneMessage, OnceTo9, OnceTo11, InOnePlace, Sent, Back, Stored, OnItsWay, Sending
<1>4. ClientsMatch'
  BY <1>0 DEF TypeOK, ClientsMatch, Taken
<1>5. SenderKnows'  BY DEF TypeOK, SenderKnows, Taken, ClientsMatch
<1>6. SemCountsReplies'  BY DEF TypeOK, SemCountsReplies, Replied, Telling, Taken
<1>7. HandlerTakesTurns'  BY DEF TypeOK, HandlerTakesTurns, EndComesLast
<1>8. EndComesLast'  BY DEF TypeOK, EndComesLast, OnItsWay, Sent, Back, Stored, HandlerTakesTurns
<1>9. NeverPanics'
  BY DEF TypeOK, NeverPanics, HandlerTakesTurns, EndComesLast, SemCountsReplies, ClientsMatch
<1> QED  BY <1>1, <1>2, <1>3, <1>4, <1>5, <1>6, <1>7, <1>8, <1>9

\* It is told of: the semaphore counts fewer replies than there are services.
LEMMA ReceiverTellsKeeps ==
  ASSUME IInv, ReceiverTells
  PROVE  IInv'
<1> USE DEF ReceiverTells, IInv
<1>1. TypeOK'  BY DEF TypeOK
<1>2. NoCommand5'  BY DEF TypeOK, NoCommand5
<1>3. OneMessage'
  BY DEF TypeOK, OneMessage, OnceTo9, OnceTo11, InOnePlace, Sent, Back, Stored, OnItsWay, Sending
<1>4. ClientsMatch'  BY DEF TypeOK, ClientsMatch, Taken
<1>5. SenderKnows'  BY DEF TypeOK, SenderKnows, Taken, ClientsMatch
<1>6. SemCountsReplies'
  <2>1. Replied' = Replied
    BY RepliedStays
  <2>2. sem' + (IF Telling' THEN 1 ELSE 0) <= sem + (IF Telling THEN 1 ELSE 0)
    BY DEF Telling, Taken, TypeOK
  <2> QED  BY <2>1, <2>2, RepliedIsFinite DEF SemCountsReplies, TypeOK
<1>7. HandlerTakesTurns'  BY DEF TypeOK, HandlerTakesTurns, EndComesLast
<1>8. EndComesLast'  BY DEF TypeOK, EndComesLast, OnItsWay, Sent, Back, Stored, HandlerTakesTurns
<1>9. NeverPanics'
  <2>1. Telling => sem < N
    BY RepliedIsFinite DEF SemCountsReplies, TypeOK
  <2> QED  BY <2>1 DEF NeverPanics, Telling, Taken
<1> QED  BY <1>1, <1>2, <1>3, <1>4, <1>5, <1>6, <1>7, <1>8, <1>9

\* The sender finds a command that has been received and not been sent.
LEMMA SenderMarksKeeps ==
  ASSUME IInv, SenderMarks
  PROVE  IInv'
<1> USE DEF SenderMarks, IInv
<1> DEFINE m == Min(ToSend)
<1>a. m \in Services /\ state[m] = "from11"
  <2>1. ToSend \subseteq Nat /\ ToSend # {}
    BY DEF ToSend
  <2> HIDE DEF m
  <2>2. m \in ToSend
    BY <2>1, MinIsIn DEF m
  <2> QED  BY <2>2 DEF ToSend, MaySend
<1>b. /\ sender = "scan" /\ sender' = "acquire" /\ target = Nobody /\ cursor' = m
      /\ state' = [state EXCEPT ![m] = "to9"]
      /\ UNCHANGED <<handle, mutex, sem, events, listening, target, latest, disabled, receiverVars,
                     handler, mainVars, clientVars, fifos, arm9, panicked>>
  OBVIOUS
<1> HIDE DEF m, SenderMarks
<1>c. ~Taken(m) /\ ~OnItsWay(m) /\ client[m] \notin {"away", "quiet", "calling"} /\ m # SRV11
  BY <1>a DEF Taken, EndComesLast, OneMessage, InOnePlace, ClientsMatch, TypeOK
<1>d. state'[m] = "to9" /\ \A x \in AllServices : x # m => state'[x] = state[x]
  BY <1>a, <1>b DEF TypeOK
<1>1. TypeOK'  BY <1>a, <1>b, <1>c, <1>d DEF TypeOK
<1>2. NoCommand5'  BY <1>a, <1>b, <1>c, <1>d DEF TypeOK, NoCommand5
<1>3. OneMessage'
  <2>1. \A x : (Sent(x)' <=> Sent(x)) /\ (Back(x)' <=> Back(x)) /\ (Stored(x)' <=> Stored(x)) /\ (OnItsWay(x)' <=> OnItsWay(x))
    BY <1>b DEF Sent, Back, OnItsWay, Token, Stored
  <2>2. (OnceTo9 /\ OnceTo11)'
    BY <1>b DEF OneMessage, OnceTo9, OnceTo11, Token
  <2>3. InOnePlace'
    BY <1>a, <1>b, <1>c, <1>d, <2>1 DEF OneMessage, InOnePlace, Sending
  <2> QED  BY <2>2, <2>3 DEF OneMessage
<1>4. ClientsMatch'  BY <1>a, <1>b, <1>c, <1>d DEF TypeOK, ClientsMatch, Taken
<1>5. SenderKnows'  BY <1>a, <1>b, <1>c, <1>d DEF TypeOK, SenderKnows, Taken, ClientsMatch
<1>6. SemCountsReplies'
  <2>1. Replied' = Replied
    BY <1>a, <1>b, <1>d, RepliedStays
  <2> QED  BY <1>b, <2>1 DEF SemCountsReplies, Telling, Taken
<1>7. HandlerTakesTurns'  BY <1>a, <1>b, <1>c, <1>d DEF TypeOK, HandlerTakesTurns, EndComesLast
<1>8. EndComesLast'
  <2>1. (Back(0)' <=> Back(0)) /\ (OnItsWay(0)' <=> OnItsWay(0))
    BY <1>b, WaysStay DEF Stored
  <2>2. shouldTerminate => state'[0] = state[0]
    BY <1>c, <1>d DEF Taken
  <2> QED  BY <1>b, <2>1, <2>2 DEF EndComesLast
<1>9. NeverPanics'
  BY <1>a, <1>b, <1>c, <1>d
  DEF TypeOK, NeverPanics, HandlerTakesTurns, EndComesLast, SemCountsReplies, ClientsMatch
<1> QED  BY <1>1, <1>2, <1>3, <1>4, <1>5, <1>6, <1>7, <1>8, <1>9

\* It sends the command, which is in neither FIFO yet.
LEMMA SenderWritesKeeps ==
  ASSUME IInv, SenderWrites
  PROVE  IInv'
<1> USE DEF SenderWrites, IInv
<1>a. /\ cursor \in Services /\ state[cursor] = "to9" /\ target = Nobody /\ ~Taken(cursor)
      /\ ~OnItsWay(cursor) /\ Token(cursor) = cursor
  BY DEF SenderKnows, OneMessage, InOnePlace, Sending, Token
<1>b. /\ to9' \in Seq(0 .. N + 1) /\ OnceTo9'
      /\ \A x : Sent(x)' <=> Sent(x) \/ x = cursor
      /\ \A k \in DOMAIN to9' : to9'[k] = cursor \/ \E l \in DOMAIN to9 : to9'[k] = to9[l]
  <2>1. cursor \in 0 .. N + 1
    BY <1>a
  <2> QED  BY <1>a, <2>1, JoinsTo9 DEF OnItsWay
<1>c. Taken(cursor) <=> cursor = 0 /\ shouldTerminate
  BY DEF Taken
<1>1. TypeOK'  BY <1>a, <1>b, <1>c DEF TypeOK
<1>2. NoCommand5'  BY <1>a, <1>b, <1>c DEF TypeOK, NoCommand5
<1>3. OneMessage'
  <2>1. InOnePlace'
    BY <1>a, <1>b DEF OneMessage, InOnePlace, Back, Stored, OnItsWay, Sending
  <2> QED  BY <1>a, <1>b, <2>1 DEF OneMessage, OnceTo11
<1>4. ClientsMatch'  BY <1>a, <1>b, <1>c DEF TypeOK, ClientsMatch, Taken
<1>5. SenderKnows'  BY <1>a, <1>b, <1>c DEF TypeOK, SenderKnows, Taken, ClientsMatch
<1>6. SemCountsReplies'  BY <1>a, <1>b, <1>c DEF TypeOK, SemCountsReplies, Replied, Telling, Taken
<1>7. HandlerTakesTurns'  BY <1>a, <1>b, <1>c DEF TypeOK, HandlerTakesTurns, EndComesLast
<1>8. EndComesLast'
  <2>1. \A k \in DOMAIN to9' : /\ to9'[k] = Off => main \in {"join", "ended"}
                               /\ to9'[k] = 0 => ~shouldTerminate
    BY <1>a, <1>b, <1>c DEF EndComesLast
  <2>2. shouldTerminate => (OnItsWay(0)' <=> OnItsWay(0))
    BY <1>a, <1>b, <1>c DEF OnItsWay, Back, Stored
  <2> QED  BY <2>1, <2>2 DEF EndComesLast, Back
<1>9. NeverPanics'
  BY <1>a, <1>b, <1>c
  DEF TypeOK, NeverPanics, HandlerTakesTurns, EndComesLast, SemCountsReplies, ClientsMatch
<1> QED  BY <1>1, <1>2, <1>3, <1>4, <1>5, <1>6, <1>7, <1>8, <1>9

\* Its answer is for no session.
LEMMA HandlerWritesKeeps ==
  ASSUME IInv, HandlerWrites
  PROVE  IInv'
<1> USE DEF HandlerWrites, IInv
<1>b. /\ to9' \in Seq(0 .. N + 1) /\ OnceTo9'
      /\ \A x \in Services : Sent(x)' <=> Sent(x)
      /\ \A k \in DOMAIN to9' : to9'[k] = SRV11 \/ \E l \in DOMAIN to9 : to9'[k] = to9[l]
  BY JoinsTo9 DEF Token
<1>1. TypeOK'  BY <1>b DEF TypeOK
<1>2. NoCommand5'  BY <1>b DEF TypeOK, NoCommand5
<1>3. OneMessage'
  <2>1. InOnePlace'
    BY <1>b DEF OneMessage, InOnePlace, Back, Stored, OnItsWay, Sending
  <2> QED  BY <1>b, <2>1 DEF OneMessage, OnceTo11
<1>4. ClientsMatch'  BY <1>b DEF TypeOK, ClientsMatch, Taken
<1>5. SenderKnows'  BY <1>b DEF TypeOK, SenderKnows, Taken, ClientsMatch
<1>6. SemCountsReplies'  BY <1>b DEF TypeOK, SemCountsReplies, Replied, Telling, Taken
<1>7. HandlerTakesTurns'  BY <1>b DEF TypeOK, HandlerTakesTurns, EndComesLast
<1>8. EndComesLast'
  <2>1. \A k \in DOMAIN to9' : /\ to9'[k] = Off => main \in {"join", "ended"}
                               /\ to9'[k] = 0 => ~shouldTerminate
    BY <1>b DEF EndComesLast
  <2>2. OnItsWay(0)' <=> OnItsWay(0)
    BY <1>b DEF OnItsWay, Back, Stored
  <2> QED  BY <2>1, <2>2 DEF EndComesLast, Back
<1>9. NeverPanics'
  BY <1>b
  DEF TypeOK, NeverPanics, HandlerTakesTurns, EndComesLast, SemCountsReplies, ClientsMatch
<1> QED  BY <1>1, <1>2, <1>3, <1>4, <1>5, <1>6, <1>7, <1>8, <1>9

\* It tells ARM9 of the end, the last thing it sends.
LEMMA MainWritesKeeps ==
  ASSUME IInv, MainWrites
  PROVE  IInv'
<1> USE DEF MainWrites, IInv
<1>a. shouldTerminate /\ state[0] = "to9" /\ ~OnItsWay(0) /\ Token(Off) = 0
  BY DEF EndComesLast, Token
<1>b. /\ to9' \in Seq(0 .. N + 1) /\ OnceTo9'
      /\ \A x : Sent(x)' <=> Sent(x) \/ x = 0
      /\ \A k \in DOMAIN to9' : to9'[k] = Off \/ \E l \in DOMAIN to9 : to9'[k] = to9[l]
  BY <1>a, JoinsTo9 DEF OnItsWay
<1>c. ~Sending(0) /\ ~Back(0) /\ ~Stored(0)
  BY <1>a DEF Sending, SenderKnows, Taken, OnItsWay
<1>1. TypeOK'  BY <1>a, <1>b, <1>c DEF TypeOK
<1>2. NoCommand5'  BY <1>a, <1>b, <1>c DEF TypeOK, NoCommand5
<1>3. OneMessage'
  <2>1. InOnePlace'
    BY <1>a, <1>b, <1>c DEF OneMessage, InOnePlace, Back, Stored, OnItsWay, Sending
  <2> QED  BY <1>a, <1>b, <1>c, <2>1 DEF OneMessage, OnceTo11
<1>4. ClientsMatch'  BY <1>a, <1>b, <1>c DEF TypeOK, ClientsMatch, Taken
<1>5. SenderKnows'  BY <1>a, <1>b, <1>c DEF TypeOK, SenderKnows, Taken, ClientsMatch
<1>6. SemCountsReplies'  BY <1>a, <1>b, <1>c DEF TypeOK, SemCountsReplies, Replied, Telling, Taken
<1>7. HandlerTakesTurns'  BY <1>a, <1>b, <1>c DEF TypeOK, HandlerTakesTurns, EndComesLast
<1>8. EndComesLast'
  <2>1. \A k \in DOMAIN to9' : /\ to9'[k] = Off => main' \in {"join", "ended"}
                               /\ to9'[k] = 0 => ~shouldTerminate
    BY <1>a, <1>b DEF EndComesLast
  <2> QED  BY <1>a, <1>c, <2>1 DEF EndComesLast, Back
<1>9. NeverPanics'
  BY <1>a, <1>b, <1>c
  DEF TypeOK, NeverPanics, HandlerTakesTurns, EndComesLast, SemCountsReplies, ClientsMatch
<1> QED  BY <1>1, <1>2, <1>3, <1>4, <1>5, <1>6, <1>7, <1>8, <1>9

\* It is told of a reply, and there is one: the semaphore counts those that are stored.
LEMMA SenderTakesReplyKeeps ==
  ASSUME IInv, SenderTakesReply
  PROVE  IInv'
<1> USE DEF SenderTakesReply, IInv
<1> DEFINE answered == {s \in Services : state[s] = "from9"}
           a == Min(answered)
<1>0. sem > 0 /\ sender = "wait" /\ latest = 0
  BY DEF FirstEvent, NoCommand5
<1>a. a \in Services /\ state[a] = "from9"
  <2>1. Replied # {}
    <3>1. Cardinality(Replied) > 0
      BY <1>0, RepliedIsFinite DEF SemCountsReplies, TypeOK
    <3> QED  BY <3>1, FS_EmptySet
  <2>2. answered # {} /\ answered \subseteq Nat
    BY <2>1 DEF Replied
  <2> HIDE DEF a, answered
  <2>3. a \in answered
    BY <2>2, MinIsIn DEF a
  <2> QED  BY <2>3 DEF answered
<1>b. /\ sender = "wait" /\ sender' = "scan" /\ target' \in {a, Nobody}
      /\ state' = [state EXCEPT ![a] = "idle"] /\ sem' = sem - 1 /\ cursor' = 0
      /\ UNCHANGED <<handle, mutex, events, listening, latest, disabled, receiverVars, handler, mainVars,
                     clientVars, fifos, arm9, panicked>>
  BY <1>0, <1>a DEF TakeReply, CountReply
<1> HIDE DEF a, answered, SenderTakesReply
<1>d. state'[a] = "idle" /\ \A x \in AllServices : x # a => state'[x] = state[x]
  BY <1>a, <1>b DEF TypeOK
<1>1. TypeOK'  BY <1>0, <1>a, <1>b, <1>d DEF TypeOK
<1>2. NoCommand5'  BY <1>0, <1>a, <1>b, <1>d DEF TypeOK, NoCommand5
<1>3. OneMessage'
  <2>1. \A x : (Sent(x)' <=> Sent(x)) /\ (Back(x)' <=> Back(x)) /\ (Stored(x)' <=> Stored(x)) /\ (OnItsWay(x)' <=> OnItsWay(x))
    BY <1>b DEF Sent, Back, OnItsWay, Token, Stored
  <2>2. (OnceTo9 /\ OnceTo11)'
    BY <1>b DEF OneMessage, OnceTo9, OnceTo11, Token
  <2>3. InOnePlace'
    BY <1>a, <1>b, <1>d, <2>1 DEF OneMessage, InOnePlace, Sending
  <2> QED  BY <2>2, <2>3 DEF OneMessage
<1>4. ClientsMatch'  BY <1>0, <1>a, <1>b, <1>d DEF TypeOK, ClientsMatch, Taken
<1>5. SenderKnows'  BY <1>0, <1>a, <1>b, <1>d DEF TypeOK, SenderKnows, Taken, ClientsMatch
<1>6. SemCountsReplies'
  <2>1. CASE Taken(a)
    <3>1. Replied' = Replied
      BY <1>a, <1>b, <1>d, <2>1 DEF Replied, Taken
    <3> QED  BY <1>0, <1>b, <2>1, <3>1, RepliedIsFinite DEF SemCountsReplies, Telling, Taken, TypeOK
  <2>2. CASE ~Taken(a)
    <3>1. Replied' = Replied \ {a} /\ a \in Replied
      BY <1>a, <1>b, <1>d, <2>2 DEF Replied, Taken
    <3>2. Cardinality(Replied') = Cardinality(Replied) - 1
      BY <3>1, RepliedIsFinite, FS_RemoveElement
    <3> QED  BY <1>0, <1>b, <3>2, RepliedIsFinite DEF SemCountsReplies, Telling, Taken, TypeOK
  <2> QED  BY <2>1, <2>2
<1>7. HandlerTakesTurns'
  <2>1. state'[SRV11] = state[SRV11]
    BY <1>a, <1>d
  <2> QED  BY <1>b, <2>1 DEF HandlerTakesTurns
<1>8. EndComesLast'
  <2>1. (Back(0)' <=> Back(0)) /\ (OnItsWay(0)' <=> OnItsWay(0))
    BY <1>b, WaysStay DEF Stored
  <2> QED  BY <1>a, <1>b, <1>d, <2>1 DEF EndComesLast
<1>9. NeverPanics'
  BY <1>0, <1>a, <1>b, <1>d
  DEF TypeOK, NeverPanics, HandlerTakesTurns, EndComesLast, SemCountsReplies, ClientsMatch
<1> QED  BY <1>1, <1>2, <1>3, <1>4, <1>5, <1>6, <1>7, <1>8, <1>9

\* It is told of a command, and the session is still as it was when the wait began.
LEMMA SenderTakesCommandKeeps ==
  ASSUME IInv, NEW s \in Services, SenderTakesCommand(s)
  PROVE  IInv'
<1> USE DEF SenderTakesCommand, IInv
<1>a. state[s] = "idle" /\ ~Taken(s) /\ ~OnItsWay(s) /\ client[s] = "calling" /\ s # SRV11
  <2>1. s \in listening /\ ~Taken(s)
    BY FirstSessionIsHeard DEF EndComesLast, Taken
  <2>2. state[s] = "idle"
    BY <2>1 DEF SenderKnows
  <2> QED  BY <2>1, <2>2 DEF OneMessage, InOnePlace
<1>b. /\ sender = "wait" /\ sender' = "scan" /\ target' = Nobody /\ cursor' = 0
      /\ state' = [state EXCEPT ![s] = "from11"] /\ client' = [client EXCEPT ![s] = "waiting"]
      /\ latest' = 0
      /\ UNCHANGED <<handle, mutex, sem, events, listening, disabled, receiverVars, handler, mainVars,
                     command, knocking, fifos, arm9, panicked>>
  <2>1. command[s] = "other" /\ disabled = FALSE /\ latest = 0
    BY DEF NoCommand5
  <2>2. (CASE command[s] = "mc5on" -> 1 [] command[s] = "mc5off" -> 2 [] OTHER -> 0) = 0
    BY <2>1
  <2> QED  BY <1>a, <2>1, <2>2 DEF NoCommand5
<1> HIDE DEF SenderTakesCommand
<1>d. /\ state'[s] = "from11" /\ \A x \in AllServices : x # s => state'[x] = state[x]
      /\ client'[s] = "waiting" /\ \A x \in Services : x # s => client'[x] = client[x]
  BY <1>a, <1>b DEF TypeOK
<1>e. Taken(s) <=> s = 0 /\ shouldTerminate
  BY DEF Taken
<1>1. TypeOK'  BY <1>a, <1>b, <1>d, <1>e DEF TypeOK
<1>2. NoCommand5'  BY <1>a, <1>b, <1>d, <1>e DEF TypeOK, NoCommand5
<1>3. OneMessage'
  <2>1. \A x : (Sent(x)' <=> Sent(x)) /\ (Back(x)' <=> Back(x)) /\ (Stored(x)' <=> Stored(x)) /\ (OnItsWay(x)' <=> OnItsWay(x))
    BY <1>b DEF Sent, Back, OnItsWay, Token, Stored
  <2>2. (OnceTo9 /\ OnceTo11)'
    BY <1>b DEF OneMessage, OnceTo9, OnceTo11, Token
  <2>3. InOnePlace'
    BY <1>a, <1>b, <1>d, <2>1 DEF OneMessage, InOnePlace, Sending
  <2> QED  BY <2>2, <2>3 DEF OneMessage
<1>4. ClientsMatch'  BY <1>a, <1>b, <1>d, <1>e DEF TypeOK, ClientsMatch, Taken
<1>5. SenderKnows'  BY <1>a, <1>b, <1>d, <1>e DEF TypeOK, SenderKnows, Taken, ClientsMatch
<1>6. SemCountsReplies'
  <2>1. Replied' = Replied
    BY <1>a, <1>b, <1>d, RepliedStays
  <2> QED  BY <1>b, <2>1 DEF SemCountsReplies, Telling, Taken
<1>7. HandlerTakesTurns'
  <2>1. state'[SRV11] = state[SRV11]
    BY <1>a, <1>d
  <2> QED  BY <1>b, <2>1 DEF HandlerTakesTurns
<1>8. EndComesLast'
  <2>1. (Back(0)' <=> Back(0)) /\ (OnItsWay(0)' <=> OnItsWay(0))
    BY <1>b, WaysStay DEF Stored
  <2> QED  BY <1>a, <1>b, <1>d, <1>e, <2>1 DEF EndComesLast
<1>9. NeverPanics'
  BY <1>a, <1>b, <1>d, <1>e
  DEF TypeOK, NeverPanics, HandlerTakesTurns, EndComesLast, SemCountsReplies, ClientsMatch
<1> QED  BY <1>1, <1>2, <1>3, <1>4, <1>5, <1>6, <1>7, <1>8, <1>9

\* It is stored: one more reply, that the semaphore does not count yet.
LEMMA ReceiverStoresKeeps ==
  ASSUME IInv, ReceiverStores
  PROVE  IInv'
<1> USE DEF ReceiverStores, IInv
<1>a. received \in AllServices /\ Stored(received)
  BY DEF HandlerTakesTurns, Stored
<1>b. /\ receiver = "store" /\ receiver' = "tell" /\ ~Locked(received)
      /\ state' = [state EXCEPT ![received] = "from9"]
      /\ UNCHANGED <<handle, mutex, sem, events, senderVars, received, handler, mainVars, clientVars,
                     fifos, arm9, panicked>>
  OBVIOUS
<1> HIDE DEF ReceiverStores
<1>c. received \in Services => ~Sent(received) /\ ~Back(received) /\ state[received] = "to9"
  BY <1>a DEF OneMessage, InOnePlace, OnItsWay
<1>d. state'[received] = "from9" /\ \A x \in AllServices : x # received => state'[x] = state[x]
  BY <1>a, <1>b DEF TypeOK
<1>1. TypeOK'  BY <1>a, <1>b, <1>c, <1>d DEF TypeOK
<1>2. NoCommand5'  BY <1>a, <1>b, <1>c, <1>d DEF TypeOK, NoCommand5
<1>3. OneMessage'
  <2>1. \A x : (Sent(x)' <=> Sent(x)) /\ (Back(x)' <=> Back(x)) /\ ~Stored(x)'
    BY <1>b DEF Sent, Back, Token, Stored
  <2>2. (OnceTo9 /\ OnceTo11)'
    BY <1>b DEF OneMessage, OnceTo9, OnceTo11, Token
  <2>3. InOnePlace'
    BY <1>a, <1>b, <1>c, <1>d, <2>1 DEF OneMessage, InOnePlace, Sending, OnItsWay
  <2> QED  BY <2>2, <2>3 DEF OneMessage
<1>4. ClientsMatch'  BY <1>a, <1>b, <1>c, <1>d DEF TypeOK, ClientsMatch, Taken
<1>5. SenderKnows'
  BY <1>a, <1>b, <1>c, <1>d DEF SenderKnows, TypeOK, Taken, Locked
<1>6. SemCountsReplies'
  <2>1. CASE received = SRV11 \/ Taken(received)
    <3>1. Replied' = Replied /\ ~Telling'
      BY <1>b, <1>d, <2>1 DEF Replied, Taken, Telling
    <3> QED  BY <1>b, <3>1 DEF SemCountsReplies, Telling, TypeOK
  <2>2. CASE received # SRV11 /\ ~Taken(received)
    <3>1. received \in Services
      BY <1>a, <2>2
    <3>2. Replied' = Replied \cup {received} /\ received \notin Replied
      BY <1>b, <1>c, <1>d, <2>2, <3>1 DEF Replied, Taken
    <3>3. Cardinality(Replied') = Cardinality(Replied) + 1
      BY <3>2, RepliedIsFinite, FS_AddElement
    <3>4. ~Telling
      BY <1>b DEF Telling
    <3> QED  BY <1>b, <3>3, <3>4, RepliedIsFinite DEF SemCountsReplies, TypeOK
  <2> QED  BY <2>1, <2>2
<1>7. HandlerTakesTurns'
  <2>1. received = SRV11 => state'[SRV11] = "from9"
    BY <1>d
  <2>2. received # SRV11 => state'[SRV11] = state[SRV11] /\ received \in Services
    BY <1>a, <1>d
  <2> QED  BY <1>b, <2>1, <2>2 DEF HandlerTakesTurns, EndComesLast
<1>8. EndComesLast'
  <2>1. (Back(0)' <=> Back(0)) /\ (OnItsWay(0)' => OnItsWay(0))
    BY <1>b DEF Sent, Back, OnItsWay, Token, Stored
  <2>2. received = 0 => OnItsWay(0) /\ 0 \in Services
    BY <1>a DEF OnItsWay
  <2> QED  BY <1>a, <1>b, <1>d, <2>1, <2>2 DEF EndComesLast
<1>9. NeverPanics'
  BY <1>a, <1>b, <1>c, <1>d
  DEF TypeOK, NeverPanics, HandlerTakesTurns, EndComesLast, SemCountsReplies, ClientsMatch
<1> QED  BY <1>1, <1>2, <1>3, <1>4, <1>5, <1>6, <1>7, <1>8, <1>9

\* A message is for a session that waits for it, as no session has two.
LEMMA ReceiverReadsKeeps ==
  ASSUME IInv, ReceiverReads
  PROVE  IInv'
<1> USE DEF ReceiverReads, IInv
<1>a. /\ receiver = "loop"
      /\ UNCHANGED <<shared, senderVars, handler, mainVars, clientVars, to9, arm9>>
  OBVIOUS
<1>b. CASE to11 = <<>>
  <2>1. receiver' = "wait" /\ UNCHANGED <<received, to11, panicked>>
    BY <1>b
  <2>2. \A x : (Sent(x)' <=> Sent(x)) /\ (Back(x)' <=> Back(x)) /\ ~Stored(x)' /\ (OnItsWay(x)' => OnItsWay(x))
    BY <1>a, <2>1 DEF Sent, Back, Token, Stored, OnItsWay
  <2> HIDE DEF ReceiverReads
  <2>3. (OnceTo9 /\ OnceTo11)'
    BY <1>a, <2>1 DEF OneMessage, OnceTo9, OnceTo11, Token
  <2>4. (OneMessage /\ EndComesLast)'
    BY <1>a, <2>1, <2>2, <2>3 DEF OneMessage, InOnePlace, Sending, EndComesLast
  <2> QED
    BY <1>a, <2>1, <2>4
    DEF TypeOK, NoCommand5, ClientsMatch, SenderKnows, SemCountsReplies, HandlerTakesTurns, NeverPanics,
        Taken, Replied, Telling
<1>c. CASE to11 # <<>>
  <2> DEFINE h == Head(to11)
  <2>1. /\ to11' = Tail(to11) /\ to11' \in Seq(AllServices) /\ OnceTo11' /\ h \in AllServices /\ Back(h)
        /\ \A x : Back(x)' => Back(x) /\ (x = h => x \notin Services)
        /\ to11' # <<>> => to11'[Len(to11')] = to11[Len(to11)]
        /\ to11' = <<>> \/ h \notin Services \/ h # to11[Len(to11)]
    BY <1>c, LeavesTo11
  <2>2. state[h] = "to9"
    BY <1>a, <2>1 DEF OneMessage, InOnePlace, OnItsWay, HandlerTakesTurns
  <2>3. received' = h /\ receiver' = "store" /\ UNCHANGED panicked
    BY <1>c, <2>2
  <2> HIDE DEF h, ReceiverReads
  <2>4. \A x : (Sent(x)' <=> Sent(x)) /\ (Stored(x)' <=> x = h)
    BY <1>a, <2>3 DEF Sent, Token, Stored
  <2>5. TypeOK'
    BY <1>a, <2>1, <2>3 DEF TypeOK
  <2>6. OneMessage'
    <3>1. OnceTo9'
      BY <1>a DEF OneMessage, OnceTo9, Token
    <3>2. InOnePlace'
      BY <1>a, <2>1, <2>2, <2>4 DEF OneMessage, InOnePlace, Sending, OnItsWay
    <3> QED  BY <2>1, <3>1, <3>2 DEF OneMessage
  <2>7. EndComesLast'
    <3>1. OnItsWay(0)' => OnItsWay(0)
      BY <2>1, <2>4 DEF OnItsWay
    <3>2. shouldTerminate /\ h = 0 => arm9 = "off" /\ to11' = <<>>
      BY <2>1 DEF EndComesLast
    <3>3. Back(0)' => to11' # <<>> /\ Back(0)
      BY <2>1 DEF Back
    <3> QED  BY <1>a, <1>c, <2>1, <2>3, <3>1, <3>2, <3>3 DEF EndComesLast
  <2> QED
    BY <1>a, <2>1, <2>3, <2>5, <2>6, <2>7
    DEF NoCommand5, ClientsMatch, SenderKnows, SemCountsReplies, HandlerTakesTurns, NeverPanics,
        Taken, Replied, Telling
<1> QED  BY <1>b, <1>c

\* PM's notification: the session of pxi:mc is idle, as its client has no command with ARM9.
LEMMA MainTerminatesKeeps ==
  ASSUME Terminates # "anytime", IInv, MainTerminates
  PROVE  IInv'
<1> USE DEF MainTerminates, IInv
<1>a. /\ ~shouldTerminate /\ ~Taken(0) /\ 0 \in Services /\ state[0] = "idle" /\ client[0] \in {"away", "quiet"}
      /\ ~OnItsWay(0) /\ ~(target = 0 /\ sender = "scan") /\ ~Sending(0)
      /\ "terminationRequested" \notin events /\ ~(receiver \in {"store", "tell"} /\ received = 0)
  <2>1. ~shouldTerminate /\ 0 \in Services /\ client[0] \in {"away", "quiet"}
    BY DEF EndComesLast
  <2>2. state[0] = "idle" /\ ~(target = 0 /\ sender = "scan")
    BY <2>1 DEF ClientsMatch, Taken
  <2> QED  BY <2>1, <2>2 DEF EndComesLast, OneMessage, InOnePlace, Sending, SenderKnows, Taken
<1>b. /\ main = "serve" /\ main' = "acquire" /\ shouldTerminate' = TRUE
      /\ state' = [state EXCEPT ![0] = "to9"]
      /\ UNCHANGED <<handle, mutex, sem, events, senderVars, receiverVars, handler, accepted, clientVars,
                     fifos, arm9, panicked>>
  OBVIOUS
<1> HIDE DEF MainTerminates
<1>d. /\ state'[0] = "to9" /\ \A x \in AllServices : x # 0 => state'[x] = state[x]
      /\ SRV11 \in AllServices /\ SRV11 # 0
  BY <1>b DEF TypeOK
<1>e. \A x : (Sent(x)' <=> Sent(x)) /\ (Back(x)' <=> Back(x)) /\ (Stored(x)' <=> Stored(x)) /\ (OnItsWay(x)' <=> OnItsWay(x))
  BY <1>b DEF Sent, Back, OnItsWay, Token, Stored
<1>1. TypeOK'  BY <1>a, <1>b, <1>d, <1>e DEF TypeOK
<1>2. NoCommand5'  BY <1>a, <1>b, <1>d, <1>e DEF TypeOK, NoCommand5
<1>3. OneMessage'
  <2>1. (OnceTo9 /\ OnceTo11)'
    BY <1>b DEF OneMessage, OnceTo9, OnceTo11, Token
  <2>2. InOnePlace'
    BY <1>a, <1>b, <1>d, <1>e DEF OneMessage, InOnePlace, Sending
  <2> QED  BY <2>1, <2>2 DEF OneMessage
<1>4. ClientsMatch'  BY <1>a, <1>b, <1>d, <1>e DEF TypeOK, ClientsMatch, Taken
<1>5. SenderKnows'  BY <1>a, <1>b, <1>d, <1>e DEF TypeOK, SenderKnows, Taken, ClientsMatch
<1>6. SemCountsReplies'
  <2>1. Replied' = Replied
    BY <1>a, <1>b, <1>d DEF Replied, Taken
  <2>2. Telling' <=> Telling
    BY <1>a, <1>b DEF Telling, Taken
  <2> QED  BY <1>b, <2>1, <2>2 DEF SemCountsReplies
<1>7. HandlerTakesTurns'
  BY <1>b, <1>d DEF HandlerTakesTurns
<1>8. EndComesLast'
  <2>1. \A k \in DOMAIN to9 : to9[k] # 0 /\ to9[k] # Off
    BY <1>a, <1>b DEF OnItsWay, Sent, Token, EndComesLast
  <2> QED  BY <1>a, <1>b, <1>d, <1>e, <2>1 DEF EndComesLast, OnItsWay
<1>9. NeverPanics'
  BY <1>a, <1>b, <1>d, <1>e
  DEF TypeOK, NeverPanics, HandlerTakesTurns, EndComesLast, SemCountsReplies, ClientsMatch
<1> QED  BY <1>1, <1>2, <1>3, <1>4, <1>5, <1>6, <1>7, <1>8, <1>9

\* ARM9 replies to a command of a session, or to the end.
LEMMA ReplyFromArm9Keeps ==
  ASSUME IInv, NEW i \in 1 .. Len(to9), ReplyFromArm9(i)
  PROVE  IInv'
<1> USE DEF ReplyFromArm9, IInv
<1> DEFINE t == Token(to9[i])
<1>a. /\ t \in Services /\ Sent(t) /\ ~Back(t) /\ ~Stored(t) /\ state[t] = "to9" /\ ~Sending(t)
      /\ t = (IF to9[i] = Off THEN 0 ELSE to9[i]) /\ arm9 # "off" /\ i \in DOMAIN to9
  <2>1. to9[i] \in 0 .. N + 1 /\ i \in DOMAIN to9
    BY DEF TypeOK
  <2>2. t \in Services /\ Sent(t)
    BY <2>1 DEF Token, Sent
  <2> QED  BY <2>1, <2>2 DEF OneMessage, InOnePlace, OnItsWay, Token
<1>b. /\ to9' \in Seq(0 .. N + 1) /\ OnceTo9'
      /\ \A x \in Services : Sent(x)' <=> Sent(x) /\ x # t
      /\ \A k \in DOMAIN to9' : \E l \in DOMAIN to9 : to9'[k] = to9[l]
  <2>1. to9' = RemoveAt(to9, i) /\ TypeOK /\ OneMessage
    OBVIOUS
  <2> HIDE DEF ReplyFromArm9, IInv
  <2> QED  BY <2>1, LeavesTo9
<1>c. /\ to11' \in Seq(AllServices) /\ OnceTo11' /\ to11' # <<>> /\ to11'[Len(to11')] = t
      /\ \A x : Back(x)' <=> Back(x) \/ x = t
  <2>1. to11' = Append(to11, t) /\ TypeOK /\ OneMessage /\ t \in AllServices
    BY <1>a
  <2> HIDE DEF t, ReplyFromArm9, IInv
  <2> QED  BY <1>a, <2>1, JoinsTo11
<1>d. /\ arm9' = (IF to9[i] = Off THEN "off" ELSE arm9) /\ events' = events \cup {"sync"}
      /\ UNCHANGED <<state, handle, mutex, sem, senderVars, receiverVars, handler, mainVars, clientVars,
                     panicked>>
  OBVIOUS
<1> HIDE DEF t, ReplyFromArm9
<1>1. TypeOK'  BY <1>a, <1>b, <1>c, <1>d DEF TypeOK
<1>2. NoCommand5'  BY <1>a, <1>b, <1>c, <1>d DEF TypeOK, NoCommand5
<1>3. OneMessage'
  <2>1. InOnePlace'
    BY <1>a, <1>b, <1>c, <1>d DEF OneMessage, InOnePlace, Stored, OnItsWay, Sending
  <2> QED  BY <1>b, <1>c, <2>1 DEF OneMessage
<1>4. ClientsMatch'  BY <1>a, <1>b, <1>c, <1>d DEF TypeOK, ClientsMatch, Taken
<1>5. SenderKnows'  BY <1>a, <1>b, <1>c, <1>d DEF TypeOK, SenderKnows, Taken, ClientsMatch
<1>6. SemCountsReplies'
  BY <1>a, <1>b, <1>c, <1>d
  DEF TypeOK, SemCountsReplies, Replied, Telling, Taken
<1>7. HandlerTakesTurns'
  BY <1>d DEF HandlerTakesTurns
<1>8. EndComesLast'
  <2>1. OnItsWay(0)' => OnItsWay(0)
    BY <1>a, <1>b, <1>c, <1>d DEF OnItsWay, Stored
  <2>2. \A k \in DOMAIN to9' : /\ to9'[k] = Off => main \in {"join", "ended"}
                               /\ to9'[k] = 0 => ~shouldTerminate
    BY <1>b DEF EndComesLast
  <2>3. shouldTerminate /\ t = 0 => arm9' = "off"
    BY <1>a, <1>d DEF EndComesLast
  <2>4. Back(0)' => t = 0 \/ Back(0)
    BY <1>c
  <2> QED  BY <1>a, <1>c, <1>d, <2>1, <2>2, <2>3, <2>4 DEF EndComesLast
<1>9. NeverPanics'
  BY <1>a, <1>b, <1>c, <1>d
  DEF TypeOK, NeverPanics, HandlerTakesTurns, EndComesLast, SemCountsReplies, ClientsMatch
<1> QED  BY <1>1, <1>2, <1>3, <1>4, <1>5, <1>6, <1>7, <1>8, <1>9

\* It asks pxi:srv11.
LEMMA RequestFromArm9Keeps ==
  ASSUME IInv, RequestFromArm9
  PROVE  IInv'
<1> USE DEF RequestFromArm9, IInv
<1>c. /\ to11' \in Seq(AllServices) /\ OnceTo11'
      /\ \A x \in Services : Back(x)' <=> Back(x)
  BY JoinsTo11
<1>d. /\ arm9 = "on" /\ events' = events \cup {"sync"}
      /\ UNCHANGED <<state, handle, mutex, sem, senderVars, receiverVars, handler, mainVars, clientVars,
                     to9, panicked>>
  OBVIOUS
<1> HIDE DEF RequestFromArm9
<1>e. \A x \in Services : (Sent(x)' <=> Sent(x)) /\ (Stored(x)' <=> Stored(x)) /\ (OnItsWay(x)' <=> OnItsWay(x))
  BY <1>c, <1>d DEF Sent, Stored, OnItsWay, Token
<1>1. TypeOK'  BY <1>c, <1>d, <1>e DEF TypeOK
<1>2. NoCommand5'  BY <1>c, <1>d, <1>e DEF TypeOK, NoCommand5
<1>3. OneMessage'
  <2>1. InOnePlace' /\ OnceTo9'
    BY <1>c, <1>d, <1>e DEF OneMessage, OnceTo9, Token, InOnePlace, Sending
  <2> QED  BY <1>c, <2>1 DEF OneMessage
<1>4. ClientsMatch'  BY <1>c, <1>d, <1>e DEF TypeOK, ClientsMatch, Taken
<1>5. SenderKnows'  BY <1>c, <1>d, <1>e DEF TypeOK, SenderKnows, Taken, ClientsMatch
<1>6. SemCountsReplies'  BY <1>c, <1>d, <1>e DEF TypeOK, SemCountsReplies, Replied, Telling, Taken
<1>7. HandlerTakesTurns'
  BY <1>d DEF HandlerTakesTurns
<1>8. EndComesLast'
  <2>1. 0 \in Services /\ (Back(0)' <=> Back(0)) /\ (OnItsWay(0)' <=> OnItsWay(0))
    BY <1>c, <1>e
  <2> QED  BY <1>d, <2>1 DEF EndComesLast
<1>9. NeverPanics'
  BY <1>c, <1>d, <1>e
  DEF TypeOK, NeverPanics, HandlerTakesTurns, EndComesLast, SemCountsReplies, ClientsMatch
<1> QED  BY <1>1, <1>2, <1>3, <1>4, <1>5, <1>6, <1>7, <1>8, <1>9

\* It takes the answer.
LEMMA Arm9TakesAnswerKeeps ==
  ASSUME IInv, NEW i \in 1 .. Len(to9), Arm9TakesAnswer(i)
  PROVE  IInv'
<1> USE DEF Arm9TakesAnswer, IInv
<1>b. /\ to9' \in Seq(0 .. N + 1) /\ OnceTo9'
      /\ \A x \in Services : Sent(x)' <=> Sent(x)
      /\ \A k \in DOMAIN to9' : \E l \in DOMAIN to9 : to9'[k] = to9[l]
  BY LeavesTo9 DEF Token
<1>d. /\ arm9' = (IF arm9 = "asking" THEN "on" ELSE arm9)
      /\ UNCHANGED <<shared, senderVars, receiverVars, handler, mainVars, clientVars, to11, panicked>>
  OBVIOUS
<1> HIDE DEF Arm9TakesAnswer
<1>e. \A x \in Services : (Back(x)' <=> Back(x)) /\ (Stored(x)' <=> Stored(x)) /\ (OnItsWay(x)' <=> OnItsWay(x))
  BY <1>b, <1>d DEF Back, Stored, OnItsWay
<1>1. TypeOK'  BY <1>b, <1>d, <1>e DEF TypeOK
<1>2. NoCommand5'  BY <1>b, <1>d, <1>e DEF TypeOK, NoCommand5
<1>3. OneMessage'
  <2>1. InOnePlace' /\ OnceTo11'
    BY <1>b, <1>d, <1>e DEF OneMessage, OnceTo11, InOnePlace, Sending
  <2> QED  BY <1>b, <2>1 DEF OneMessage
<1>4. ClientsMatch'  BY <1>b, <1>d, <1>e DEF TypeOK, ClientsMatch, Taken
<1>5. SenderKnows'  BY <1>b, <1>d, <1>e DEF TypeOK, SenderKnows, Taken, ClientsMatch
<1>6. SemCountsReplies'  BY <1>b, <1>d, <1>e DEF TypeOK, SemCountsReplies, Replied, Telling, Taken
<1>7. HandlerTakesTurns'
  BY <1>d DEF HandlerTakesTurns
<1>8. EndComesLast'
  <2>1. 0 \in Services /\ (Back(0)' <=> Back(0)) /\ (OnItsWay(0)' <=> OnItsWay(0))
    BY <1>e
  <2>2. \A k \in DOMAIN to9' : /\ to9'[k] = Off => main \in {"join", "ended"}
                               /\ to9'[k] = 0 => ~shouldTerminate
    BY <1>b DEF EndComesLast
  <2> QED  BY <1>d, <2>1, <2>2 DEF EndComesLast
<1>9. NeverPanics'
  BY <1>b, <1>d, <1>e
  DEF TypeOK, NeverPanics, HandlerTakesTurns, EndComesLast, SemCountsReplies, ClientsMatch
<1> QED  BY <1>1, <1>2, <1>3, <1>4, <1>5, <1>6, <1>7, <1>8, <1>9

-----------------------------------------------------------------------------
(* The assertions of the threads.                                          *)

\* Every step of the four threads, of the clients and of ARM9.
LEMMA NextKeeps ==
  ASSUME ~UsesMC5, Terminates # "anytime", IInv, [Next]_vars
  PROVE  IInv'
<1>1. CASE SenderSteps
  BY <1>1, SenderMarksKeeps, SenderAcquiresKeeps, SenderWritesKeeps, SenderRepliesKeeps, SenderEndsKeeps,
     SenderListensAgainKeeps, SenderTakesReplyKeeps, SenderClosesKeeps, SenderTakesCommandKeeps
  DEF SenderSteps
<1>2. CASE ReceiverSteps
  BY <1>2, ReceiverStartsKeeps, ReceiverWakesKeeps, ReceiverReadsKeeps, ReceiverStoresKeeps,
     ReceiverTellsKeeps, ReceiverGoesOnKeeps
  DEF ReceiverSteps
<1>3. CASE HandlerSteps
  BY <1>3, HandlerStartsKeeps, HandlerTakesKeeps, HandlerEndsKeeps, HandlerAcquiresKeeps,
     HandlerWritesKeeps, HandlerAnswersKeeps
  DEF HandlerSteps
<1>4. CASE MainSteps
  BY <1>4, MainAcceptsKeeps, MainRegistersKeeps, MainTerminatesKeeps, MainAcquiresKeeps, MainWritesKeeps,
     MainJoinsKeeps
  DEF MainSteps
<1>5. CASE Environment
  BY <1>5, ConnectKeeps, LeaveKeeps, CallKeeps, RequestFromArm9Keeps, ReplyFromArm9Keeps,
     Arm9TakesAnswerKeeps
  DEF Environment
<1>6. CASE UNCHANGED vars
  <2> USE <1>6 DEF vars, IInv
  <2>1. (TypeOK /\ NoCommand5 /\ NeverPanics)'
    BY DEF TypeOK, NoCommand5, NeverPanics
  <2>2. \A x : (Sent(x)' <=> Sent(x)) /\ (Back(x)' <=> Back(x)) /\ (Stored(x)' <=> Stored(x))
               /\ (OnItsWay(x)' <=> OnItsWay(x))
    BY DEF Sent, Back, Stored, OnItsWay, Token
  <2>3. OneMessage'
    BY <2>2 DEF OneMessage, OnceTo9, OnceTo11, InOnePlace, Token, Sending
  <2>4. (ClientsMatch /\ SenderKnows)'
    BY DEF ClientsMatch, SenderKnows, Taken
  <2>5. SemCountsReplies'
    BY DEF SemCountsReplies, Replied, Telling, Taken
  <2>6. (HandlerTakesTurns /\ EndComesLast)'
    BY <2>2 DEF HandlerTakesTurns, EndComesLast
  <2> QED  BY <2>1, <2>3, <2>4, <2>5, <2>6
<1> QED  BY <1>1, <1>2, <1>3, <1>4, <1>5, <1>6 DEF Next, Ended

LEMMA InitHolds ==
  ASSUME Init
  PROVE  IInv
<1> USE DEF Init
<1>1. \A x : ~Sent(x) /\ ~Back(x) /\ ~Stored(x)
  BY DEF Sent, Back, Stored
<1>2. TypeOK
  <2>1. Services \cup {SRV11} = AllServices
    OBVIOUS
  <2>2. state \in [AllServices -> {"idle", "from11", "to9", "from9"}]
    BY <2>1, Zenon
  <2>3. to9 \in Seq(0 .. N + 1) /\ to11 \in Seq(AllServices)
    OBVIOUS
  <2> QED  BY <2>2, <2>3 DEF TypeOK
<1>3. OneMessage
  BY <1>1 DEF OneMessage, OnceTo9, OnceTo11, InOnePlace, OnItsWay
<1>4. SemCountsReplies
  BY <1>2, RepliedIsFinite DEF SemCountsReplies, Telling
<1>5. EndComesLast
  BY <1>1 DEF EndComesLast
<1> QED
  BY <1>2, <1>3, <1>4, <1>5
  DEF IInv, NoCommand5, ClientsMatch, SenderKnows, HandlerTakesTurns, NeverPanics, Taken

\* The invariant holds in every state.
LEMMA InvariantHolds ==
  ASSUME ~UsesMC5, Terminates # "anytime"
  PROVE  Spec => []IInv
BY InitHolds, NextKeeps, PTL DEF Spec

\* No assertion of sender.c, receiver.c and main.c fails, however many services
\* there are and whenever the clients come and go: the semaphore never counts more
\* replies than sessions hold, every message is for a session that waits for it,
\* and the answer to pxi:srv11 is out before ARM9 says that PXI ends.
THEOREM AssertionsHold ==
  ASSUME ~UsesMC5, Terminates # "anytime"
  PROVE  Spec => []NeverPanics
<1>1. IInv => NeverPanics
  BY DEF IInv
<1> QED  BY <1>1, InvariantHolds, PTL
-----------------------------------------------------------------------------
(* The refinement of PXICalls.                                             *)

\* The place of a command, in the words of the invariant.
Answered(s) == Back(s) \/ Stored(s) \/ state[s] = "from9" \/ (target = s /\ sender = "scan")

Where(s) == IF Sent(s) THEN "atARM9"
            ELSE IF Answered(s) THEN "answered"
            ELSE IF state[s] \in {"from11", "to9"} THEN "asked" ELSE "none"

LEMMA PlaceIsWhere ==
  ASSUME TypeOK, TypeOK', NEW s \in Services
  PROVE  Place(s) = Where(s) /\ Place(s)' = Where(s)'
<1>1. /\ DOMAIN to9 = 1 .. Len(to9) /\ DOMAIN to11 = 1 .. Len(to11)
      /\ DOMAIN to9' = 1 .. Len(to9') /\ DOMAIN to11' = 1 .. Len(to11')
      /\ \A k \in DOMAIN to11 : to11[k] # Off
      /\ \A k \in DOMAIN to11' : to11'[k] # Off
  BY DEF TypeOK
<1>2. Sent(s) <=> \E k \in 1 .. Len(to9) : to9[k] = s \/ (s = 0 /\ to9[k] = Off)
  BY <1>1 DEF Sent, Token
<1>3. Sent(s)' <=> \E k \in 1 .. Len(to9') : to9'[k] = s \/ (s = 0 /\ to9'[k] = Off)
  BY <1>1 DEF Sent, Token
<1>4. Back(s) <=> \E k \in 1 .. Len(to11) : to11[k] = s \/ (s = 0 /\ to11[k] = Off)
  BY <1>1 DEF Back
<1>5. Back(s)' <=> \E k \in 1 .. Len(to11') : to11'[k] = s \/ (s = 0 /\ to11'[k] = Off)
  BY <1>1 DEF Back
<1>6. Place(s) = Where(s)
  BY <1>2, <1>4 DEF Place, Where, Answered, Stored
<1>7. Place(s)' = Where(s)'
  BY <1>3, <1>5 DEF Place, Where, Answered, Stored
<1> QED  BY <1>6, <1>7

StaysBut(s) == \A x \in Services : x # s => Where(x)' = Where(x)

Moves(s, from, to) == Where(s) = from /\ Where(s)' = to /\ StaysBut(s)

\* What a step may do to the places.
MovesOne ==
  \/ \A x \in Services : Where(x)' = Where(x)
  \/ \E s \in Services : \/ Moves(s, "none", "asked") \/ Moves(s, "asked", "atARM9")
                         \/ Moves(s, "atARM9", "answered") \/ Moves(s, "answered", "none")

\* Most steps concern no command.
LEMMA OthersMoveNone ==
  ASSUME IInv,
         \/ ReceiverStarts \/ ReceiverWakes \/ ReceiverTells \/ ReceiverGoesOn
         \/ HandlerStarts \/ HandlerTakes \/ HandlerEnds \/ HandlerAcquires \/ HandlerAnswers
         \/ \E s \in Services : MainAccepts(s) \/ Connect(s) \/ Leave(s)
         \/ \E s \in Services : \E c \in {"mc5on", "mc5off", "other"} : Call(s, c)
         \/ MainRegisters \/ MainAcquires \/ MainJoins
  PROVE  \A x \in Services : Where(x)' = Where(x)
<1>1. UNCHANGED <<fifos, target, sender>> /\ \A x \in Services : state'[x] = state[x]
  BY DEF IInv, TypeOK, ReceiverStarts, ReceiverWakes, ReceiverTells, ReceiverGoesOn,
         HandlerStarts, HandlerTakes, HandlerEnds, HandlerAcquires, HandlerAnswers,
         MainAccepts, Connect, Leave, Call, MainRegisters, MainAcquires, MainJoins
<1>2. \A x : Stored(x)' <=> Stored(x)
  BY DEF Stored, ReceiverStarts, ReceiverWakes, ReceiverTells, ReceiverGoesOn,
         HandlerStarts, HandlerTakes, HandlerEnds, HandlerAcquires, HandlerAnswers,
         MainAccepts, Connect, Leave, Call, MainRegisters, MainAcquires, MainJoins
<1> QED  BY <1>1, <1>2 DEF Where, Answered, Sent, Back, Token

\* What the sender does that concerns no command: it takes turns, forgets a reply that has
\* been sent, and marks a command that it is about to send.
LEMMA SenderMovesNone ==
  ASSUME IInv,
         \/ SenderAcquires \/ SenderEnds \/ SenderListensAgain \/ SenderMarks
         \/ \E s \in Services : SenderCloses(s)
  PROVE  \A x \in Services : Where(x)' = Where(x)
<1>1. UNCHANGED <<fifos, receiver, received>> /\ (target' # target => target' = Nobody)
      /\ (sender = "scan" => target = Nobody) /\ (sender' = "scan" => target' = Nobody)
  BY DEF SenderAcquires, SenderEnds, SenderListensAgain, SenderMarks, SenderCloses
<1>2. \A x \in Services : x # Nobody
  <2>1. \A x \in 0 .. N - 1 : x \in 0 .. N
    OBVIOUS
  <2> QED  BY <2>1
<1>3. CASE SenderMarks
  <2> DEFINE m == Min(ToSend)
  <2>1. m \in Services /\ state[m] = "from11"
    <3>1. ToSend \subseteq Nat /\ ToSend # {}
      BY <1>3 DEF ToSend, SenderMarks
    <3> HIDE DEF m
    <3>2. m \in ToSend
      BY <3>1, MinIsIn DEF m
    <3> QED  BY <3>2 DEF ToSend, MaySend
  <2>2. state' = [state EXCEPT ![m] = "to9"]
    BY <1>3 DEF SenderMarks
  <2> HIDE DEF m
  <2>3. state'[m] = "to9" /\ \A x \in Services : x # m => state'[x] = state[x]
    BY <2>1, <2>2 DEF IInv, TypeOK
  <2> QED  BY <1>1, <1>2, <2>1, <2>3 DEF Where, Answered, Sent, Back, Stored, Token
<1>4. CASE UNCHANGED state
  BY <1>1, <1>2, <1>4 DEF Where, Answered, Sent, Back, Stored, Token
<1> QED
  BY <1>3, <1>4 DEF SenderAcquires, SenderEnds, SenderListensAgain, SenderCloses

\* A command is sent.
LEMMA SenderWritesMoves ==
  ASSUME IInv, SenderWrites
  PROVE  \E s \in Services : Moves(s, "asked", "atARM9")
<1> USE DEF IInv, SenderWrites
<1>0. PICK s \in Services : s = cursor
  BY DEF SenderKnows
<1>1. state[s] = "to9" /\ target = Nobody /\ ~OnItsWay(s) /\ Token(s) = s
  BY <1>0 DEF SenderKnows, OneMessage, InOnePlace, Sending, Token
<1>2. \A x : Sent(x)' <=> Sent(x) \/ x = s
  <2>1. s \in 0 .. N + 1
    OBVIOUS
  <2> QED  BY <1>0, <1>1, <2>1, JoinsTo9 DEF OnItsWay
<1>3. \A x : (Back(x)' <=> Back(x)) /\ (Stored(x)' <=> Stored(x))
  BY DEF Back, Stored
<1>4. \A x \in Services : x # Nobody
  <2>1. \A x \in 0 .. N - 1 : x \in 0 .. N
    OBVIOUS
  <2> QED  BY <2>1
<1> QED  BY <1>1, <1>2, <1>3, <1>4 DEF Moves, StaysBut, Where, Answered, OnItsWay

\* The sender writes a reply into its client's command buffer, or finds nobody there.
LEMMA SenderRepliesMoves ==
  ASSUME IInv, SenderReplies
  PROVE  MovesOne
<1> USE DEF IInv
<1>1. /\ sender = "scan" /\ (sender' = "scan" => target' = Nobody) /\ UNCHANGED <<fifos, receiver, received, state>>
      /\ sender' \in {"scan", "wait"} /\ (target' = target \/ target' = Nobody)
  BY DEF SenderReplies
<1>2. \A x \in Services : x # Nobody
  <2>1. \A x \in 0 .. N - 1 : x \in 0 .. N
    OBVIOUS
  <2> QED  BY <2>1
<1>3. StaysBut(target)
  BY <1>1, <1>2 DEF StaysBut, Where, Answered, Sent, Back, Stored, Token
<1>4. CASE target = Nobody
  BY <1>2, <1>3, <1>4 DEF StaysBut, MovesOne
<1>5. CASE target # Nobody
  <2>1. PICK s \in Services : s = target
    BY <1>5 DEF TypeOK
  <2>2. state[s] = "idle" /\ ~OnItsWay(s)
    BY <1>1, <1>5, <2>1 DEF SenderKnows, OneMessage, InOnePlace
  <2>3. Moves(s, "answered", "none")
    BY <1>1, <1>2, <1>3, <2>1, <2>2 DEF Moves, StaysBut, Where, Answered, OnItsWay, Sent, Back, Stored, Token
  <2> QED  BY <2>1, <2>3 DEF MovesOne
<1> QED  BY <1>4, <1>5

\* A reply is taken, to be returned if its client has not gone.
LEMMA SenderTakesReplyMoves ==
  ASSUME IInv, SenderTakesReply
  PROVE  MovesOne
<1> USE DEF IInv
<1> DEFINE answered == {s \in Services : state[s] = "from9"}
           a == Min(answered)
<1>1. sem > 0 /\ sender = "wait" /\ latest = 0
  BY DEF SenderTakesReply, FirstEvent, NoCommand5
<1>2. a \in Services /\ state[a] = "from9" /\ ~OnItsWay(a)
  <2>1. Replied # {}
    <3>1. Cardinality(Replied) > 0
      BY <1>1, RepliedIsFinite DEF SemCountsReplies, TypeOK
    <3> QED  BY <3>1, FS_EmptySet
  <2>2. answered # {} /\ answered \subseteq Nat
    BY <2>1 DEF Replied
  <2> HIDE DEF a, answered
  <2>3. a \in answered
    BY <2>2, MinIsIn DEF a
  <2> QED  BY <2>3 DEF answered, OneMessage, InOnePlace
<1>3. /\ sender = "wait" /\ sender' = "scan" /\ target' \in {a, Nobody}
      /\ state' = [state EXCEPT ![a] = "idle"] /\ UNCHANGED <<fifos, receiver, received>>
  BY <1>1, <1>2 DEF SenderTakesReply, TakeReply, CountReply
<1>4. \A x \in Services : x # Nobody
  <2>1. \A x \in 0 .. N - 1 : x \in 0 .. N
    OBVIOUS
  <2> QED  BY <2>1
<1>b. PICK s \in Services : s = a
  BY <1>2
<1> HIDE DEF a, answered
<1>5. state'[s] = "idle" /\ \A x \in Services : x # s => state'[x] = state[x]
  BY <1>b, <1>3 DEF TypeOK
<1>6. StaysBut(s)
  BY <1>b, <1>3, <1>4, <1>5 DEF StaysBut, Where, Answered, Sent, Back, Stored, Token
<1>7. Where(s) = "answered" /\ Where(s)' \in {"answered", "none"}
  BY <1>b, <1>2, <1>3, <1>5 DEF Where, Answered, OnItsWay, Sent, Back, Stored, Token
<1> QED  BY <1>2, <1>6, <1>7 DEF MovesOne, Moves, StaysBut

\* A command is received.
LEMMA SenderTakesCommandMoves ==
  ASSUME IInv, NEW s \in Services, SenderTakesCommand(s)
  PROVE  Moves(s, "none", "asked")
<1> USE DEF IInv, SenderTakesCommand
<1>1. state[s] = "idle" /\ ~OnItsWay(s)
  <2>1. s \in listening /\ ~Taken(s)
    BY FirstSessionIsHeard DEF EndComesLast, Taken
  <2>2. state[s] = "idle"
    BY <2>1 DEF SenderKnows
  <2> QED  BY <2>2 DEF OneMessage, InOnePlace
<1>2. /\ sender = "wait" /\ target' = Nobody /\ UNCHANGED <<fifos, receiver, received>>
      /\ state' = [state EXCEPT ![s] = "from11"]
  BY <1>1 DEF NoCommand5
<1>3. state'[s] = "from11" /\ \A x \in Services : x # s => state'[x] = state[x]
  BY <1>2 DEF TypeOK
<1>4. \A x \in Services : x # Nobody
  <2>1. \A x \in 0 .. N - 1 : x \in 0 .. N
    OBVIOUS
  <2> QED  BY <2>1
<1> HIDE DEF SenderTakesCommand
<1> QED
  BY <1>1, <1>2, <1>3, <1>4 DEF Moves, StaysBut, Where, Answered, OnItsWay, Sent, Back, Stored, Token

\* The receiver takes a reply to its session.
LEMMA ReceiverMovesNone ==
  ASSUME IInv, ReceiverReads \/ ReceiverStores
  PROVE  \A x \in Services : Where(x)' = Where(x)
<1> USE DEF IInv
<1>1. UNCHANGED <<to9, target, sender>>
  BY DEF ReceiverReads, ReceiverStores
<1>2. CASE ReceiverReads /\ to11 = <<>>
  BY <1>1, <1>2 DEF ReceiverReads, Where, Answered, Sent, Back, Stored, Token
<1>3. CASE ReceiverReads /\ to11 # <<>>
  <2>1. /\ Back(Head(to11)) /\ Head(to11) \in AllServices
        /\ \A x : Back(x)' => Back(x) /\ (x = Head(to11) => x \notin Services)
    BY <1>3, LeavesTo11 DEF ReceiverReads
  <2>2. \A x : Back(x) => Back(x)' \/ x = Head(to11)
    <3>1. \A k \in DOMAIN to11 : k # 1 => k - 1 \in DOMAIN Tail(to11) /\ Tail(to11)[k - 1] = to11[k]
      BY DEF TypeOK
    <3> QED  BY <1>3, <3>1 DEF ReceiverReads, Back
  <2>3. state[Head(to11)] = "to9"
    BY <1>3, <2>1 DEF ReceiverReads, OneMessage, InOnePlace, OnItsWay, HandlerTakesTurns
  <2>4. receiver = "loop" /\ received' = Head(to11) /\ receiver' = "store" /\ UNCHANGED state
    BY <1>3, <2>3 DEF ReceiverReads
  <2> QED  BY <1>1, <2>1, <2>2, <2>4 DEF Where, Answered, Sent, Stored, Token
<1>4. CASE ReceiverStores
  <2>1. /\ received \in AllServices /\ Stored(received)
        /\ received \in Services => ~Sent(received) /\ ~Back(received)
    BY <1>4 DEF ReceiverStores, HandlerTakesTurns, Stored, OneMessage, InOnePlace
  <2>2. state'[received] = "from9" /\ \A x \in Services : x # received => state'[x] = state[x]
    BY <1>4, <2>1 DEF ReceiverStores, TypeOK
  <2>3. UNCHANGED <<to9, to11, received>> /\ receiver = "store" /\ receiver' = "tell"
    BY <1>4 DEF ReceiverStores
  <2> QED  BY <1>1, <2>1, <2>2, <2>3 DEF Where, Answered, Sent, Back, Stored, Token
<1> QED  BY <1>2, <1>3, <1>4

\* The main thread takes the session of pxi:mc for the command that ends PXI.
LEMMA MainTerminatesMoves ==
  ASSUME Terminates # "anytime", IInv, MainTerminates
  PROVE  Moves(0, "none", "asked") /\ 0 \in Services
<1> USE DEF IInv, MainTerminates
<1>1. 0 \in Services /\ ~Taken(0) /\ client[0] \in {"away", "quiet"}
  BY DEF EndComesLast, Taken
<1>2. state[0] = "idle" /\ ~(target = 0 /\ sender = "scan")
  BY <1>1 DEF ClientsMatch
<1>3. ~OnItsWay(0)
  BY <1>1, <1>2 DEF OneMessage, InOnePlace
<1>4. state'[0] = "to9" /\ \A x \in Services : x # 0 => state'[x] = state[x]
  BY DEF TypeOK
<1>5. UNCHANGED <<to9, to11, receiver, received, target, sender>>
  OBVIOUS
<1> HIDE DEF MainTerminates
<1> QED
  BY <1>1, <1>2, <1>3, <1>4, <1>5 DEF Moves, StaysBut, Where, Answered, OnItsWay, Sent, Back, Stored, Token

\* It sends that command.
LEMMA MainWritesMoves ==
  ASSUME IInv, MainWrites
  PROVE  Moves(0, "asked", "atARM9") /\ 0 \in Services
<1> USE DEF IInv, MainWrites
<1>1. 0 \in Services /\ state[0] = "to9" /\ ~OnItsWay(0) /\ Token(Off) = 0
  BY DEF EndComesLast, Token
<1>2. ~(target = 0 /\ sender = "scan")
  <2>1. \A x \in 0 .. N - 1 : x \in 0 .. N
    OBVIOUS
  <2> QED  BY <1>1, <2>1 DEF SenderKnows
<1>3. \A x : Sent(x)' <=> Sent(x) \/ x = 0
  BY <1>1, JoinsTo9 DEF OnItsWay
<1>4. \A x : (Back(x)' <=> Back(x)) /\ (Stored(x)' <=> Stored(x))
  BY DEF Back, Stored
<1> QED  BY <1>1, <1>2, <1>3, <1>4 DEF Moves, StaysBut, Where, Answered, OnItsWay

\* ARM9 replies.
LEMMA ReplyFromArm9Moves ==
  ASSUME IInv, NEW i \in 1 .. Len(to9), ReplyFromArm9(i)
  PROVE  \E s \in Services : Moves(s, "atARM9", "answered")
<1> USE DEF IInv, ReplyFromArm9
<1> DEFINE t == Token(to9[i])
<1>1. t \in Services /\ Sent(t) /\ ~Back(t) /\ t = (IF to9[i] = Off THEN 0 ELSE to9[i])
  <2>1. to9[i] \in 0 .. N + 1 /\ i \in DOMAIN to9
    BY DEF TypeOK
  <2>2. t \in Services /\ Sent(t)
    BY <2>1 DEF Token, Sent
  <2> QED  BY <2>2 DEF OneMessage, InOnePlace, Token
<1>2. \A x \in Services : Sent(x)' <=> Sent(x) /\ x # t
  <2>1. to9' = RemoveAt(to9, i) /\ TypeOK /\ OneMessage
    OBVIOUS
  <2> HIDE DEF ReplyFromArm9, IInv
  <2> QED  BY <2>1, LeavesTo9
<1>3. \A x : Back(x)' <=> Back(x) \/ x = t
  <2>1. to11' = Append(to11, t) /\ TypeOK /\ OneMessage /\ t \in AllServices
    BY <1>1
  <2> HIDE DEF t, ReplyFromArm9, IInv
  <2> QED  BY <1>1, <2>1, JoinsTo11
<1>4. UNCHANGED <<state, target, sender, receiver, received>>
  OBVIOUS
<1>5. PICK s \in Services : s = t
  BY <1>1
<1> HIDE DEF t, ReplyFromArm9
<1>6. Moves(s, "atARM9", "answered")
  BY <1>1, <1>2, <1>3, <1>4, <1>5 DEF Moves, StaysBut, Where, Answered, Stored
<1> QED  BY <1>6

\* The requests of ARM9 are no commands of a session.
LEMMA RequestsMoveNone ==
  ASSUME IInv,
         RequestFromArm9 \/ HandlerWrites \/ \E i \in 1 .. Len(to9) : Arm9TakesAnswer(i)
  PROVE  \A x \in Services : Where(x)' = Where(x)
<1> USE DEF IInv
<1>1. UNCHANGED <<state, target, sender, receiver, received>>
  BY DEF RequestFromArm9, HandlerWrites, Arm9TakesAnswer
<1>2. CASE RequestFromArm9
  <2>1. \A x \in Services : Back(x)' <=> Back(x)
    BY <1>2, JoinsTo11 DEF RequestFromArm9
  <2>2. UNCHANGED to9
    BY <1>2 DEF RequestFromArm9
  <2> QED  BY <1>1, <2>1, <2>2 DEF Where, Answered, Sent, Stored, Token
<1>3. CASE HandlerWrites
  <2>1. \A x \in Services : Sent(x)' <=> Sent(x)
    BY <1>3, JoinsTo9 DEF HandlerWrites, Token
  <2>2. UNCHANGED to11
    BY <1>3 DEF HandlerWrites
  <2> QED  BY <1>1, <2>1, <2>2 DEF Where, Answered, Back, Stored
<1>4. CASE \E i \in 1 .. Len(to9) : Arm9TakesAnswer(i)
  <2>1. \A x \in Services : Sent(x)' <=> Sent(x)
    BY <1>4, LeavesTo9 DEF Arm9TakesAnswer, Token
  <2>2. UNCHANGED to11
    BY <1>4 DEF Arm9TakesAnswer
  <2> QED  BY <1>1, <2>1, <2>2 DEF Where, Answered, Back, Stored
<1> QED  BY <1>2, <1>3, <1>4

\* Every step moves at most one command, to its next place.
LEMMA StepMovesOne ==
  ASSUME ~UsesMC5, Terminates # "anytime", IInv, [Next]_vars
  PROVE  MovesOne
<1> USE DEF MovesOne
<1>1. CASE SenderSteps
  BY <1>1, SenderMovesNone, SenderWritesMoves, SenderRepliesMoves, SenderTakesReplyMoves,
     SenderTakesCommandMoves
  DEF SenderSteps
<1>2. CASE ReceiverSteps
  BY <1>2, OthersMoveNone, ReceiverMovesNone DEF ReceiverSteps
<1>3. CASE HandlerSteps
  BY <1>3, OthersMoveNone, RequestsMoveNone DEF HandlerSteps
<1>4. CASE MainSteps
  BY <1>4, OthersMoveNone, MainTerminatesMoves, MainWritesMoves DEF MainSteps
<1>5. CASE Environment
  BY <1>5, OthersMoveNone, RequestsMoveNone, ReplyFromArm9Moves DEF Environment
<1>6. CASE UNCHANGED vars
  BY <1>6 DEF vars, Where, Answered, Sent, Back, Stored, Token
<1> QED  BY <1>1, <1>2, <1>3, <1>4, <1>5, <1>6 DEF Next, Ended

LEMMA CallsInit ==
  ASSUME Init
  PROVE  Calls!Init
BY DEF Init, Calls!Init, Place

LEMMA CallsStep ==
  ASSUME ~UsesMC5, Terminates # "anytime", IInv, IInv', [Next]_vars
  PROVE  [Calls!Next]_([s \in Services |-> Place(s)])
<1> DEFINE place == [s \in Services |-> Place(s)]
<1>1. \A s \in Services : Place(s) = Where(s) /\ Place(s)' = Where(s)'
  BY PlaceIsWhere DEF IInv
<1>2. /\ place = [s \in Services |-> Where(s)]
      /\ place' = [s \in Services |-> Where(s)']
  BY <1>1
<1>3. CASE \A x \in Services : Where(x)' = Where(x)
  BY <1>2, <1>3
<1>4. ASSUME NEW s \in Services, NEW from, NEW to, Moves(s, from, to)
      PROVE  place[s] = from /\ place' = [place EXCEPT ![s] = to]
  BY <1>2, <1>4 DEF Moves, StaysBut
<1> HIDE DEF place
<1>5. CASE \E s \in Services : \/ Moves(s, "none", "asked") \/ Moves(s, "asked", "atARM9")
                               \/ Moves(s, "atARM9", "answered") \/ Moves(s, "answered", "none")
  BY <1>4, <1>5
  DEF place, Calls!Next, Calls!Ask, Calls!Send, Calls!Answer, Calls!Return, Calls!Moves
<1> QED  BY <1>3, <1>5, StepMovesOne DEF MovesOne, place

\* The sender, the receiver and the main thread implement PXICalls: the command of a
\* session is sent once (sender.c:236-258), ARM9's reply to it is stored once, in the
\* session that waits for it (receiver.c:19-34), and is returned to the client once.
THEOREM CallsAreServed ==
  ASSUME ~UsesMC5, Terminates # "anytime"
  PROVE  Spec => ImplementsCalls
<1>1. IInv /\ IInv' /\ [Next]_vars => [Calls!Next]_([s \in Services |-> Place(s)])
  BY CallsStep
<1>2. Init => Calls!Init
  BY CallsInit
<1> QED  BY <1>1, <1>2, InvariantHolds, PTL DEF Spec, ImplementsCalls, Calls!Spec

=============================================================================
