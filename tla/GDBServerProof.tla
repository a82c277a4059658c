---------------------------- MODULE GDBServerProof -----------------------------
(***************************************************************************)
(* WaitsOnOpenHandles for any number of contexts and processes.            *)
(*                                                                         *)
(* The debug handle of a context is closed in three places, each for a     *)
(* reason of its own: GDB_CloseClient only after the monitor has said that *)
(* it read the contexts again (ClosesTold); GDB_DetachImmediatelyExtended  *)
(* too, with the lock of the context, without which the monitor cannot     *)
(* read them (DetachesHeld); and the monitor itself when it handles an     *)
(* event.  A context without a client has no handle that the monitor waits *)
(* for (HandleIsOpen), so that the menus may give it to another process;   *)
(* which contexts have a client, or are about to have one, is known from   *)
(* their flags (ClientHolds, AcceptsFree, NextIsFree).                     *)
(*                                                                         *)
(* The invariant holds until the monitor ends, and then nobody waits.      *)
(***************************************************************************)
EXTENDS GDBServer, TLAPS, FiniteSetTheorems, WellFoundedInduction

Flags == EveryFlag \cup {"selected"}
Context == [flags : SUBSET Flags, state : {"disconnected", "connected", "attached", "detaching"},
            port : ServerPorts \cup {None}, pid : Targets \cup {None}, debug : Targets \cup {None},
            waitsFor : {"attached", "continued", None} \cup Targets, shouldClose : BOOLEAN,
            serv : ServerPorts \cup {None}]

GDBTypeOK ==
  /\ ctx \in [Contexts -> Context]
  /\ statusUpdated \in BOOLEAN /\ statusUpdateReceived \in BOOLEAN /\ shallTerminate \in BOOLEAN
  /\ server \in [pc : {"poll", "awaits", "accepts", "attaches", "closes", "counts", "waits", "frees",
                       "detaches", "ends", "ended", "crashed"},
                 c : Contexts \cup {None}, refuses : BOOLEAN]
  /\ monitor \in [pc : {"snapshot", "wait", "handle", "ended"},
                  handles : [Contexts -> {"attached", "continued", None} \cup Targets],
                  c : Contexts \cup {None}]
  /\ monitor.pc = "handle" => monitor.c \in Contexts
  /\ nextCtx \in Contexts \cup {None}
  /\ client \in [Contexts -> {"none", "open", "gone", "killed"}]
  /\ packet \in [Contexts -> Packets \cup {None}]

\* The monitor neither handles the context nor can be about to.
Quiet(c) ==
  /\ ctx[c].waitsFor = "attached" /\ c \notin attachedEvent
  /\ monitor.pc = "wait" => monitor.handles[c] = "attached"
  /\ ~(monitor.pc = "handle" /\ monitor.c = c)

HandleIsOpen(c) ==
  /\ ctx[c].waitsFor \in {"attached", "continued", ctx[c].debug}
  /\ monitor.pc = "wait" => monitor.handles[c] \in {"attached", "continued", ctx[c].debug}
  /\ ctx[c].debug = None \/ client[c] = "none" => Quiet(c)
HandlesAreOpen == \A c \in Contexts \ overtaken : HandleIsOpen(c)

\* A context with a client is used, or selected for the next application.
Held(c) == "used" \in ctx[c].flags \/ ("selected" \in ctx[c].flags /\ ctx[c].port = NextPort)
ClientHolds(c) ==
  /\ client[c] # "none" => Held(c) /\ ctx[c].serv = ctx[c].port
  /\ client[c] = "killed" => shallTerminate
  /\ packet[c] # None => client[c] = "open"
  /\ packet[c] = "attach" => "extended" \in ctx[c].flags /\ ctx[c].debug = None
  /\ "extended" \in ctx[c].flags => "used" \in ctx[c].flags
ClientsHold == \A c \in Contexts : ClientHolds(c)

NextIsFree ==
  nextCtx # None =>
    /\ "selected" \in ctx[nextCtx].flags /\ "extended" \notin ctx[nextCtx].flags
    /\ ctx[nextCtx].port = NextPort /\ ctx[nextCtx].debug = None
    /\ client[nextCtx] = "none"

\* What the socket thread relies on when it goes on with a context: a new one, ...
OfContext == {"awaits", "accepts", "attaches", "closes", "counts", "waits", "frees", "detaches"}
ServerHasContext ==
  /\ server.pc \in OfContext => server.c \in Contexts
  /\ server.pc \in {"attaches", "closes", "counts", "waits", "frees", "detaches"} => client[server.c] # "none"
AcceptsFree ==
  LET c == server.c IN
  /\ server.pc \in {"awaits", "accepts"} => client[c] = "none"
  /\ server.pc = "awaits" /\ ctx[c].debug # None => Held(c) /\ "extended" \notin ctx[c].flags
  /\ server.pc = "accepts" => Held(c) /\ "extended" \notin ctx[c].flags /\ nextCtx # c
  /\ server.pc = "attaches" => "extended" \notin ctx[c].flags

\* ... one that the monitor leaves alone, as soon as it says that it has read it again, ...
Told(c) ==
  /\ ctx[c].waitsFor = "attached" /\ c \notin attachedEvent
  /\ ~(monitor.pc = "handle" /\ monitor.c = c)
ClosesTold ==
  LET c == server.c IN
  c \notin overtaken =>
    /\ server.pc \in {"attaches", "frees"} => Quiet(c)
    /\ server.pc \in {"counts", "waits"} =>
         /\ Told(c) /\ (statusUpdated \/ statusUpdateReceived)
         /\ monitor.pc = "wait" /\ statusUpdateReceived => monitor.handles[c] = "attached"

\* ... or one that it cannot read while the lock is held.
DetachesHeld ==
  LET c == server.c IN
  server.pc = "detaches" =>
    /\ held = {c} /\ menu # "spins" /\ "extended" \in ctx[c].flags
    /\ ctx[c].waitsFor = "attached" /\ c \notin attachedEvent
    /\ statusUpdateReceived => monitor.pc = "snapshot"
SpinsWithAll == menu = "spins" => held = Contexts

\* Once the monitor has ended nobody waits.
ServerKnows == ServerHasContext /\ AcceptsFree /\ ClosesTold /\ DetachesHeld
Live == HandlesAreOpen /\ ClientsHold /\ NextIsFree /\ ServerKnows /\ SpinsWithAll
GDBServerInv == monitor.pc = "ended" \/ (GDBTypeOK /\ Live)
-----------------------------------------------------------------------------
\* The first free context, and the first free port, are free ones.
LEMMA LowestIsIn ==
  ASSUME NEW S, S \subseteq Nat, S # {}
  PROVE  Lowest(S) \in S
<1> DEFINE Less == {pair \in Nat \X Nat : pair[1] < pair[2]}
<1>1. IsWellFoundedOn(Less, Nat)
  BY NatLessThanWellFounded DEF OpToRel
<1>2. PICK c \in S : \A d \in S : ~(<<d, c>> \in Less)
  <2> HIDE DEF Less
  <2> QED  BY <1>1, WFMin, Zenon
<1>3. \A d \in S : c <= d
  <2> SUFFICES ASSUME NEW d \in S PROVE c <= d
    OBVIOUS
  <2>1. ~(<<d, c>> \in Less) /\ c \in Nat /\ d \in Nat
    BY <1>2
  <2>2. ~(d < c)
    BY <2>1
  <2> QED  BY <2>1, <2>2
<1> QED  BY <1>3 DEF Lowest
\* Most steps change one context.
LEMMA OneContext ==
  ASSUME GDBTypeOK, NEW c \in Contexts, NEW x \in Context, ctx' = [ctx EXCEPT ![c] = x]
  PROVE  ctx' \in [Contexts -> Context] /\ ctx'[c] = x /\ \A d \in Contexts : d # c => ctx'[d] = ctx[d]
BY DEF GDBTypeOK

\* accept: the context has no client yet, and is not the next application's unless the
\* port is.
LEMMA AcceptKeeps ==
  ASSUME ConstantsOK, GDBTypeOK, Live, NEW port \in ServerPorts, Accept(port), UNCHANGED overtaken
  PROVE  GDBTypeOK' /\ Live'
<1> DEFINE free == {c \in Contexts : ~Allocated(c)}
           tied == {c \in Contexts : ctx[c].port = port}
<1>1. PICK c \in Chosen(port) :
        /\ "used" \notin ctx[c].flags
        /\ ctx' = [ctx EXCEPT ![c].flags = @ \cup {"used"}, ![c].state = "connected", ![c].port = port]
        /\ server' = [server EXCEPT !.pc = IF port = NextPort THEN "awaits" ELSE "accepts", !.c = c]
  BY DEF Accept
<1>2. /\ c \in Contexts /\ (port = NextPort => c \in tied) /\ (c \in tied \/ c \in free)
  <2>1. tied \subseteq Nat /\ free \subseteq Nat
    BY DEF Contexts
  <2>2. tied # {} => Lowest(tied) \in tied
    <3> HIDE DEF tied
    <3> QED  BY <2>1, LowestIsIn
  <2>3. free # {} => Lowest(free) \in free
    <3> HIDE DEF free
    <3> QED  BY <2>1, LowestIsIn
  <2> QED  BY <1>1, <2>2, <2>3 DEF Chosen
<1> HIDE DEF tied, free
<1> DEFINE x == [ctx[c] EXCEPT !.flags = @ \cup {"used"}, !.state = "connected", !.port = port]
<1>3. ctx[c] \in Context /\ Connections(port) = {} /\ server.pc = "poll" /\ ~shallTerminate
  BY <1>2 DEF GDBTypeOK, Accept, AtPoll
<1>4. x \in Context
  BY <1>3 DEF Context, Flags, EveryFlag
<1>5. ctx' = [ctx EXCEPT ![c] = x]
  BY <1>1, <1>2 DEF GDBTypeOK
<1>6. /\ x.flags = ctx[c].flags \cup {"used"} /\ x.port = port /\ x.debug = ctx[c].debug
      /\ x.waitsFor = ctx[c].waitsFor /\ x.serv = ctx[c].serv
  BY <1>3 DEF Context
<1> HIDE DEF x
<1>7. /\ ctx' \in [Contexts -> Context] /\ ctx'[c] = x
      /\ \A d \in Contexts : d # c => ctx'[d] = ctx[d]
  BY <1>2, <1>4, <1>5, OneContext
<1>8. UNCHANGED <<attachedEvent, statusUpdated, statusUpdateReceived, shallTerminate, held, monitor, menu,
                  nextCtx, client, packet>>
  BY DEF Accept, handshake, others
<1>9. server' = [server EXCEPT !.pc = IF port = NextPort THEN "awaits" ELSE "accepts", !.c = c]
  BY <1>1
<1>10. server'.c = c /\ server'.pc = IF port = NextPort THEN "awaits" ELSE "accepts"
  BY <1>9 DEF GDBTypeOK
<1>a. GDBTypeOK'
  BY <1>2, <1>7, <1>8, <1>9 DEF GDBTypeOK
<1>b. client[c] = "none" /\ "extended" \notin ctx[c].flags /\ (port # NextPort => nextCtx # c)
  <2>1. client[c] = "none"
    <3>1. CASE c \in free
      BY <1>2, <3>1 DEF free, Allocated, Live, ClientsHold, ClientHolds, Held
    <3>2. CASE c \in tied /\ client[c] # "none"
      <4>1. ctx[c].port = port /\ ctx[c].serv = port
        BY <1>2, <3>2 DEF tied, Live, ClientsHold, ClientHolds
      <4>2. client[c] \in {"open", "gone"}
        BY <1>2, <1>3, <3>2 DEF Live, ClientsHold, ClientHolds, GDBTypeOK
      <4> QED  BY <1>2, <1>3, <4>1, <4>2 DEF Connections
    <3> QED  BY <1>2, <3>1, <3>2
  <2>2. "extended" \notin ctx[c].flags
    BY <1>1, <1>2 DEF Live, ClientsHold, ClientHolds
  <2>3. port # NextPort => nextCtx # c
    <3>1. CASE c \in free
      BY <1>2, <3>1 DEF free, Allocated, Live, NextIsFree, ConstantsOK
    <3>2. CASE c \in tied
      BY <1>2, <3>2 DEF tied, Live, NextIsFree, ConstantsOK
    <3> QED  BY <1>2, <3>1, <3>2
  <2> QED  BY <2>1, <2>2, <2>3
<1>c. HandlesAreOpen'
  BY <1>2, <1>6, <1>7, <1>8 DEF Live, HandlesAreOpen, HandleIsOpen, Quiet
<1>d. ClientsHold'
  BY <1>2, <1>6, <1>7, <1>8, <1>b DEF Live, ClientsHold, ClientHolds, Held
<1>e. NextIsFree'
  BY <1>2, <1>6, <1>7, <1>8, <1>b DEF Live, NextIsFree, GDBTypeOK
<1>f. ServerKnows'
  BY <1>2, <1>6, <1>7, <1>8, <1>10, <1>b
     DEF ServerKnows, ServerHasContext, OfContext, AcceptsFree, ClosesTold, DetachesHeld, Held
<1> QED  BY <1>a, <1>c, <1>d, <1>e, <1>f, <1>8 DEF Live, SpinsWithAll

\* The wait for the next application ends: its context is no longer expected by the task.
LEMMA AwaitsDebugKeeps ==
  ASSUME ConstantsOK, GDBTypeOK, Live, AwaitsDebug, UNCHANGED overtaken
  PROVE  GDBTypeOK' /\ Live'
<1> USE DEF contexts, handshake, others, peers
<1>1. server' = [server EXCEPT !.pc = "accepts"] /\ server.pc = "awaits" /\ ctx[server.c].debug # None
  BY DEF AwaitsDebug, ServerAt
<1>2. server'.c = server.c /\ server'.pc = "accepts" /\ GDBTypeOK'
  BY <1>1 DEF AwaitsDebug, GDBTypeOK
<1>3. HandlesAreOpen' /\ ClientsHold' /\ NextIsFree' /\ SpinsWithAll'
  BY DEF Live, AwaitsDebug, HandlesAreOpen, HandleIsOpen, Quiet, ClientsHold, ClientHolds, Held, NextIsFree, SpinsWithAll
<1>4. server.c \in Contexts /\ nextCtx # server.c
  BY <1>1 DEF ConstantsOK, Live, ServerKnows, ServerHasContext, OfContext, NextIsFree
<1>5. ServerKnows'
  BY <1>1, <1>2, <1>4
     DEF Live, AwaitsDebug, ServerKnows, ServerHasContext, OfContext, AcceptsFree, ClosesTold, DetachesHeld, Held
<1> QED  BY <1>2, <1>3, <1>5 DEF Live

\* The connection is entered: the monitor is not interested in the context yet.
LEMMA RegistersKeeps ==
  ASSUME ConstantsOK, GDBTypeOK, Live, NEW port \in ServerPorts, Registers(port), UNCHANGED overtaken
  PROVE  GDBTypeOK' /\ Live'
<1> DEFINE c == server.c
           x == [ctx[c] EXCEPT !.shouldClose = FALSE, !.serv = port]
<1>1. /\ server.pc = "accepts" /\ ctx[c].port = port
      /\ ctx' = [ctx EXCEPT ![c].shouldClose = FALSE, ![c].serv = port]
      /\ client' = [client EXCEPT ![c] = "open"] /\ packet' = [packet EXCEPT ![c] = None]
      /\ server' = [server EXCEPT !.pc = "attaches"]
  BY DEF Registers, ServerAt
<1>2. c \in Contexts /\ ctx[c] \in Context
  BY <1>1 DEF Live, ServerKnows, ServerHasContext, OfContext, GDBTypeOK
<1>3. x \in Context
  BY <1>2 DEF Context
<1>4. ctx' = [ctx EXCEPT ![c] = x]
  BY <1>1, <1>2 DEF GDBTypeOK
<1>5. /\ x.flags = ctx[c].flags /\ x.port = port /\ x.debug = ctx[c].debug
      /\ x.waitsFor = ctx[c].waitsFor /\ x.serv = port
  BY <1>1, <1>2 DEF Context
<1> HIDE DEF x
<1>6. /\ ctx' \in [Contexts -> Context] /\ ctx'[c] = x
      /\ \A d \in Contexts : d # c => ctx'[d] = ctx[d]
  BY <1>2, <1>3, <1>4, OneContext
<1>7. UNCHANGED <<attachedEvent, statusUpdated, statusUpdateReceived, shallTerminate, held, monitor, menu,
                  nextCtx>>
  BY DEF Registers, handshake, others
<1>8. /\ server'.c = c /\ server'.pc = "attaches" /\ client'[c] = "open" /\ packet'[c] = None
      /\ \A d \in Contexts : d # c => client'[d] = client[d] /\ packet'[d] = packet[d]
  BY <1>1, <1>2 DEF GDBTypeOK
<1>9. GDBTypeOK'
  BY <1>1, <1>2, <1>6, <1>7 DEF GDBTypeOK
<1>10. client[c] = "none" /\ Held(c) /\ "extended" \notin ctx[c].flags /\ nextCtx # c
  BY <1>1 DEF Live, ServerKnows, AcceptsFree
<1>11. c \notin overtaken => Quiet(c)
  BY <1>2, <1>10 DEF Live, HandlesAreOpen, HandleIsOpen
<1>12. HandlesAreOpen'
  BY <1>2, <1>5, <1>6, <1>7, <1>8 DEF Live, HandlesAreOpen, HandleIsOpen, Quiet
<1>13. ClientsHold'
  <2> SUFFICES ASSUME NEW d \in Contexts PROVE ClientHolds(d)'
    BY DEF ClientsHold
  <2>1. CASE d = c
    BY <1>1, <1>2, <1>5, <1>6, <1>7, <1>8, <1>10, <2>1 DEF ConstantsOK, Live, ClientsHold, ClientHolds, Held
  <2>2. CASE d # c
    BY <1>6, <1>7, <1>8, <2>2 DEF Live, ClientsHold, ClientHolds, Held
  <2> QED  BY <2>1, <2>2
<1>14. NextIsFree'
  BY <1>6, <1>7, <1>8, <1>10 DEF Live, NextIsFree, GDBTypeOK
<1>15. ServerKnows'
  BY <1>2, <1>5, <1>6, <1>7, <1>8, <1>10, <1>11
     DEF ServerKnows, ServerHasContext, OfContext, AcceptsFree, ClosesTold, DetachesHeld, Quiet
<1> QED  BY <1>7, <1>9, <1>12, <1>13, <1>14, <1>15 DEF Live, SpinsWithAll
\* accept_cb: what is attached has a client, and its event is the first that is awaited.
LEMMA AcceptClientKeeps ==
  ASSUME ConstantsOK, GDBTypeOK, Live, AcceptClient, UNCHANGED overtaken
  PROVE  GDBTypeOK' /\ Live'
<1> DEFINE c == server.c
           y == [ctx[c] EXCEPT !.state = "connected"]
           attaches == "selected" \in y.flags
           x == IF attaches /\ CanAttach(y) THEN Attached(y) ELSE y
<1>1. /\ server.pc = "attaches" /\ ctx' = [ctx EXCEPT ![c] = x]
      /\ attachedEvent' = IF attaches /\ CanAttach(y) THEN attachedEvent \cup {c} ELSE attachedEvent
      /\ server' = IF attaches /\ ~CanAttach(y) THEN [server EXCEPT !.pc = "closes", !.refuses = TRUE]
                   ELSE [server EXCEPT !.pc = "poll"]
  BY DEF AcceptClient, ServerAt
<1>2. c \in Contexts /\ ctx[c] \in Context /\ client[c] # "none" /\ "extended" \notin ctx[c].flags
  BY <1>1 DEF Live, ServerKnows, ServerHasContext, AcceptsFree, OfContext, GDBTypeOK
<1>3. /\ y \in Context /\ y.flags = ctx[c].flags /\ y.port = ctx[c].port /\ y.debug = ctx[c].debug
      /\ y.waitsFor = ctx[c].waitsFor /\ y.serv = ctx[c].serv
  BY <1>2 DEF Context
<1> HIDE DEF y
<1>4. attaches /\ CanAttach(y) => Target(y) \in Targets \ {None}
  BY <1>3 DEF CanAttach, Target, Context, Targets, ConstantsOK
<1>5. /\ x \in Context /\ x.flags = ctx[c].flags /\ x.port = ctx[c].port
      /\ x.debug = ctx[c].debug \/ (attachedEvent' = attachedEvent \cup {c} /\ x.debug # None)
      /\ x.debug = ctx[c].debug => attachedEvent' = attachedEvent \/ x.debug # None
      /\ x.waitsFor = ctx[c].waitsFor /\ x.serv = ctx[c].serv
  <2>1. CASE attaches /\ CanAttach(y)
    <3> DEFINE p == Target(y)
    <3>1. x = [y EXCEPT !.state = "attached", !.debug = p, !.pid = p]
      BY <2>1 DEF Attached
    <3>2. p \in Targets \ {None}
      BY <1>4, <2>1
    <3> HIDE DEF p, x
    <3>3. x \in Context /\ x.debug = p /\ x.flags = y.flags /\ x.port = y.port /\ x.waitsFor = y.waitsFor
          /\ x.serv = y.serv
      BY <1>3, <3>1, <3>2 DEF Context
    <3> QED  BY <1>1, <1>3, <2>1, <3>2, <3>3
  <2>2. CASE ~(attaches /\ CanAttach(y))
    BY <1>1, <1>3, <2>2
  <2> QED  BY <2>1, <2>2
<1> HIDE DEF x
<1>6. /\ ctx' \in [Contexts -> Context] /\ ctx'[c] = x
      /\ \A d \in Contexts : d # c => ctx'[d] = ctx[d]
  BY <1>1, <1>2, <1>5, OneContext
<1>7. UNCHANGED <<statusUpdated, statusUpdateReceived, shallTerminate, held, monitor, menu, nextCtx, client,
                  packet>>
  BY DEF AcceptClient, handshake, others, peers
<1>8. server'.c = c /\ server'.pc \in {"poll", "closes"} /\ GDBTypeOK'
  BY <1>1, <1>6, <1>7 DEF GDBTypeOK
<1>9. c \notin overtaken => Quiet(c)
  BY <1>1 DEF Live, ServerKnows, ClosesTold
<1>10. HandlesAreOpen'
  <2> SUFFICES ASSUME NEW d \in Contexts \ overtaken PROVE HandleIsOpen(d)'
    BY DEF HandlesAreOpen, AcceptClient
  <2>1. CASE d = c
    BY <1>2, <1>5, <1>6, <1>7, <1>9, <2>1 DEF HandleIsOpen, Quiet
  <2>2. CASE d # c
    BY <1>1, <1>6, <1>7, <2>2 DEF Live, HandlesAreOpen, HandleIsOpen, Quiet
  <2> QED  BY <2>1, <2>2
<1>11. ClientsHold'
  <2> SUFFICES ASSUME NEW d \in Contexts PROVE ClientHolds(d)'
    BY DEF ClientsHold
  <2>1. CASE d = c
    BY <1>2, <1>5, <1>6, <1>7, <2>1 DEF Live, ClientsHold, ClientHolds, Held
  <2>2. CASE d # c
    BY <1>6, <1>7, <2>2 DEF Live, ClientsHold, ClientHolds, Held
  <2> QED  BY <2>1, <2>2
<1>12. NextIsFree'
  BY <1>2, <1>6, <1>7 DEF Live, NextIsFree, GDBTypeOK
<1>13. ServerKnows'
  BY <1>2, <1>7, <1>8 DEF ServerKnows, ServerHasContext, OfContext, AcceptsFree, ClosesTold, DetachesHeld
<1> QED  BY <1>7, <1>8, <1>10, <1>11, <1>12, <1>13 DEF Live, SpinsWithAll

\* What is common to the packets: the context is not the next application's, and of the
\* invariant only its own part is at stake.
LEMMA PacketKeeps ==
  ASSUME ConstantsOK, GDBTypeOK, Live, NEW c \in Contexts, client[c] = "open", NEW x \in Context,
         ctx' = [ctx EXCEPT ![c] = x], packet' = [packet EXCEPT ![c] = None],
         x.port = ctx[c].port, x.serv = ctx[c].serv,
         "used" \in ctx[c].flags => "used" \in x.flags,
         "selected" \in ctx[c].flags => "selected" \in x.flags,
         "extended" \in x.flags => "used" \in x.flags,
         attachedEvent' \in {attachedEvent, attachedEvent \cup {c}, attachedEvent \ {c}},
         UNCHANGED <<shallTerminate, monitor, menu, nextCtx, client, overtaken>>,
         c \notin overtaken => HandleIsOpen(c)'
  PROVE  ctx' \in [Contexts -> Context] /\ ctx'[c] = x /\ HandlesAreOpen' /\ ClientsHold' /\ NextIsFree'
<1>1. /\ ctx' \in [Contexts -> Context] /\ ctx'[c] = x
      /\ \A d \in Contexts : d # c => ctx'[d] = ctx[d]
  BY OneContext
<1>2. HandlesAreOpen'
  <2> SUFFICES ASSUME NEW d \in Contexts \ overtaken, d # c PROVE HandleIsOpen(d)'
    BY DEF HandlesAreOpen
  <2> QED  BY <1>1 DEF Live, HandlesAreOpen, HandleIsOpen, Quiet
<1>3. packet'[c] = None /\ \A d \in Contexts : d # c => packet'[d] = packet[d]
  BY DEF GDBTypeOK
<1>4. ClientsHold'
  <2> SUFFICES ASSUME NEW d \in Contexts PROVE ClientHolds(d)'
    BY DEF ClientsHold
  <2>1. CASE d = c
    BY <1>1, <1>3, <2>1 DEF ConstantsOK, Live, ClientsHold, ClientHolds, Held
  <2>2. CASE d # c
    BY <1>1, <1>3, <2>2 DEF Live, ClientsHold, ClientHolds, Held
  <2> QED  BY <2>1, <2>2
<1>5. NextIsFree'
  BY <1>1 DEF Live, NextIsFree, GDBTypeOK
<1> QED  BY <1>1, <1>2, <1>4, <1>5

\* A packet is served for a client that is still there.
LEMMA TakesFacts ==
  ASSUME ConstantsOK, GDBTypeOK, Live, NEW c \in Contexts, NEW what, what # None, Takes(c, what)
  PROVE  /\ client[c] = "open" /\ server.pc = "poll" /\ packet[c] = what /\ Free(c)
         /\ ctx[c] \in Context /\ Held(c) /\ nextCtx # c
         /\ packet' = [packet EXCEPT ![c] = None] /\ packet' \in [Contexts -> Packets \cup {None}]
         /\ UNCHANGED <<shallTerminate, monitor, menu, nextCtx, client>>
<1>1. /\ server.pc = "poll" /\ packet[c] = what /\ Free(c) /\ packet' = [packet EXCEPT ![c] = None]
      /\ UNCHANGED <<shallTerminate, monitor, menu, nextCtx, client>>
  BY DEF Takes, AtPoll, others
<1>2. client[c] = "open" /\ Held(c) /\ nextCtx # c
  BY <1>1 DEF ConstantsOK, Live, ClientsHold, ClientHolds, NextIsFree
<1> QED  BY <1>1, <1>2 DEF GDBTypeOK, Takes

\* A packet that keeps the debug handle and what the monitor waits for.
LEMMA ServedKeeps ==
  ASSUME ConstantsOK, GDBTypeOK, Live, NEW c \in Contexts, NEW what, what # None, Takes(c, what), NoSync,
         NEW x \in Context, Served(c, x),
         x.port = ctx[c].port, x.serv = ctx[c].serv, x.debug = ctx[c].debug, x.waitsFor = ctx[c].waitsFor,
         ctx[c].flags \ {"continuing"} \subseteq x.flags, "extended" \in x.flags => "used" \in x.flags,
         UNCHANGED <<server, attachedEvent, overtaken>>
  PROVE  GDBTypeOK' /\ Live'
<1> DEFINE y == IF x.state = "detaching" /\ "extended" \in x.flags THEN [x EXCEPT !.state = "connected"] ELSE x
<1>1. /\ y \in Context /\ y.port = x.port /\ y.serv = x.serv /\ y.debug = x.debug /\ y.waitsFor = x.waitsFor
      /\ y.flags = x.flags
  BY DEF Context
<1>2. ctx' = [ctx EXCEPT ![c] = y]
  BY DEF Served
<1> HIDE DEF y
<1>3. /\ client[c] = "open" /\ packet' = [packet EXCEPT ![c] = None] /\ server.pc = "poll"
      /\ packet' \in [Contexts -> Packets \cup {None}]
      /\ UNCHANGED <<statusUpdated, statusUpdateReceived, shallTerminate, held, monitor, menu, nextCtx, client>>
  BY TakesFacts DEF NoSync
<1>4. ctx'[c] = y
  BY <1>1, <1>2, OneContext
<1>5. c \notin overtaken => HandleIsOpen(c)'
  BY <1>1, <1>3, <1>4 DEF Live, HandlesAreOpen, HandleIsOpen, Quiet
<1>6. ctx' \in [Contexts -> Context] /\ HandlesAreOpen' /\ ClientsHold' /\ NextIsFree'
  BY <1>1, <1>2, <1>3, <1>5, PacketKeeps
<1>7. GDBTypeOK'
  BY <1>3, <1>6 DEF GDBTypeOK
<1>8. ServerKnows'
  BY <1>3 DEF ServerKnows, ServerHasContext, OfContext, AcceptsFree, ClosesTold, DetachesHeld
<1> QED  BY <1>3, <1>6, <1>7, <1>8 DEF Live, SpinsWithAll

LEMMA ExtendedModeKeeps ==
  ASSUME ConstantsOK, GDBTypeOK, Live, NEW c \in Contexts, ExtendedMode(c), UNCHANGED overtaken
  PROVE  GDBTypeOK' /\ Live'
<1> DEFINE x == [ctx[c] EXCEPT !.flags = @ \cup IF ctx[c].port # NextPort THEN {"extended"} ELSE {}]
<1>1. Takes(c, "extended") /\ NoSync /\ Served(c, x) /\ UNCHANGED <<server, attachedEvent>>
  BY DEF ExtendedMode
<1>2. "extended" # None
  BY DEF ConstantsOK
<1>3. ctx[c] \in Context /\ Held(c)
  BY <1>1, <1>2, TakesFacts
<1>4. /\ x \in Context /\ x.port = ctx[c].port /\ x.serv = ctx[c].serv /\ x.debug = ctx[c].debug
      /\ x.waitsFor = ctx[c].waitsFor
      /\ x.flags = ctx[c].flags \cup IF ctx[c].port # NextPort THEN {"extended"} ELSE {}
  BY <1>3 DEF Context, Flags, EveryFlag
<1>5. "extended" \in x.flags => "used" \in x.flags
  BY <1>3, <1>4 DEF Live, ClientsHold, ClientHolds, Held
<1> HIDE DEF x
<1> QED  BY <1>1, <1>2, <1>4, <1>5, ServedKeeps

LEMMA ContinueKeeps ==
  ASSUME ConstantsOK, GDBTypeOK, Live, NEW c \in Contexts, Continue(c), UNCHANGED overtaken
  PROVE  GDBTypeOK' /\ Live'
<1> DEFINE x == [ctx[c] EXCEPT !.flags = @ \cup {"continuing"}]
<1>1. Takes(c, "continue") /\ NoSync /\ Served(c, x) /\ UNCHANGED <<server, attachedEvent>>
  BY DEF Continue
<1>2. "continue" # None
  BY DEF ConstantsOK
<1>3. ctx[c] \in Context
  BY <1>1, <1>2, TakesFacts
<1>4. /\ x \in Context /\ x.port = ctx[c].port /\ x.serv = ctx[c].serv /\ x.debug = ctx[c].debug
      /\ x.waitsFor = ctx[c].waitsFor /\ x.flags = ctx[c].flags \cup {"continuing"}
  BY <1>3 DEF Context, Flags, EveryFlag
<1>5. "extended" \in x.flags => "used" \in x.flags
  BY <1>4 DEF Live, ClientsHold, ClientHolds
<1> HIDE DEF x
<1> QED  BY <1>1, <1>2, <1>4, <1>5, ServedKeeps

LEMMA BreakKeeps ==
  ASSUME ConstantsOK, GDBTypeOK, Live, NEW c \in Contexts, Break(c), UNCHANGED overtaken
  PROVE  GDBTypeOK' /\ Live'
<1> DEFINE x == [ctx[c] EXCEPT !.flags = @ \ {"continuing"}]
<1>1. Takes(c, "break") /\ NoSync /\ (UNCHANGED ctx \/ Served(c, x)) /\ UNCHANGED <<server, attachedEvent>>
  BY DEF Break
<1>2. "break" # None
  BY DEF ConstantsOK
<1>3. /\ ctx[c] \in Context /\ client[c] = "open" /\ server.pc = "poll"
      /\ packet' = [packet EXCEPT ![c] = None] /\ packet' \in [Contexts -> Packets \cup {None}]
      /\ UNCHANGED <<shallTerminate, monitor, menu, nextCtx, client>>
  BY <1>1, <1>2, TakesFacts
<1>4. CASE UNCHANGED ctx
  <2>1. ctx' = [ctx EXCEPT ![c] = ctx[c]] /\ ("extended" \in ctx[c].flags => "used" \in ctx[c].flags)
        /\ (c \notin overtaken => HandleIsOpen(c)')
    BY <1>1, <1>3, <1>4 DEF GDBTypeOK, Live, ClientsHold, ClientHolds, HandlesAreOpen, HandleIsOpen, Quiet
  <2>2. HandlesAreOpen' /\ ClientsHold' /\ NextIsFree'
    BY <1>1, <1>3, <2>1, PacketKeeps
  <2>3. ServerKnows'
    BY <1>1, <1>3 DEF ServerKnows, ServerHasContext, OfContext, AcceptsFree, ClosesTold, DetachesHeld
  <2> QED  BY <1>1, <1>3, <1>4, <2>2, <2>3 DEF GDBTypeOK, Live, SpinsWithAll, NoSync
<1>5. CASE Served(c, x)
  <2>1. /\ x \in Context /\ x.port = ctx[c].port /\ x.serv = ctx[c].serv /\ x.debug = ctx[c].debug
        /\ x.waitsFor = ctx[c].waitsFor /\ x.flags = ctx[c].flags \ {"continuing"}
    BY <1>3 DEF Context
  <2>2. "extended" \in x.flags => "used" \in x.flags
    BY <2>1 DEF Live, ClientsHold, ClientHolds
  <2> HIDE DEF x
  <2> QED  BY <1>1, <1>2, <1>5, <2>1, <2>2, ServedKeeps
<1> QED  BY <1>1, <1>4, <1>5

\* Detaching an extended session starts: the lock is kept.
LEMMA AsksMonitorKeeps ==
  ASSUME ConstantsOK, GDBTypeOK, Live, NEW c \in Contexts, NEW what, what # None, Takes(c, what),
         NEW x \in Context, AsksMonitor(c, x),
         x.port = ctx[c].port, x.serv = ctx[c].serv, x.debug = ctx[c].debug,
         ctx[c].flags \subseteq x.flags, {"extended", "used"} \subseteq x.flags, UNCHANGED overtaken
  PROVE  GDBTypeOK' /\ Live'
<1> DEFINE y == [x EXCEPT !.state = "detaching", !.waitsFor = "attached"]
<1>1. /\ y \in Context /\ y.port = x.port /\ y.serv = x.serv /\ y.debug = x.debug
      /\ y.waitsFor = "attached" /\ y.flags = x.flags
  BY DEF Context
<1>2. /\ ctx' = [ctx EXCEPT ![c] = y] /\ attachedEvent' = attachedEvent \ {c}
      /\ statusUpdateReceived' = FALSE /\ statusUpdated' = TRUE /\ held' = {c}
      /\ server' = [server EXCEPT !.pc = "detaches", !.c = c]
  BY DEF AsksMonitor
<1> HIDE DEF y
<1>3. /\ client[c] = "open" /\ packet' = [packet EXCEPT ![c] = None] /\ Free(c)
      /\ packet' \in [Contexts -> Packets \cup {None}]
      /\ UNCHANGED <<shallTerminate, monitor, menu, nextCtx, client>>
  BY TakesFacts
<1>4. ctx'[c] = y
  BY <1>1, <1>2, OneContext
<1>5. c \notin overtaken => HandleIsOpen(c)'
  BY <1>1, <1>2, <1>3, <1>4 DEF Live, HandlesAreOpen, HandleIsOpen, Quiet
<1>6. ctx' \in [Contexts -> Context] /\ HandlesAreOpen' /\ ClientsHold' /\ NextIsFree'
  BY <1>1, <1>2, <1>3, <1>5, PacketKeeps
<1>7. GDBTypeOK' /\ server'.pc = "detaches" /\ server'.c = c
  BY <1>2, <1>3, <1>6 DEF GDBTypeOK
<1>8. menu # "spins"
  BY <1>3 DEF Live, SpinsWithAll, Free
<1>9. ServerKnows'
  BY <1>1, <1>2, <1>3, <1>4, <1>7, <1>8
     DEF ServerKnows, ServerHasContext, OfContext, AcceptsFree, ClosesTold, DetachesHeld
<1> QED  BY <1>3, <1>6, <1>7, <1>8, <1>9 DEF Live, SpinsWithAll

LEMMA AttachPacketKeeps ==
  ASSUME ConstantsOK, GDBTypeOK, Live, NEW c \in Contexts, AttachPacket(c), UNCHANGED overtaken
  PROVE  GDBTypeOK' /\ Live'
<1>1. PICK p \in Processes :
        LET x == [ctx[c] EXCEPT !.pid = p]
        IN IF CanAttach(x)
           THEN /\ ctx' = [ctx EXCEPT ![c] = Attached(x)]
                /\ attachedEvent' = attachedEvent \cup {c}
                /\ NoSync /\ UNCHANGED server
           ELSE AsksMonitor(c, x)
  BY DEF AttachPacket
<1> DEFINE x == [ctx[c] EXCEPT !.pid = p]
<1>2. Takes(c, "attach") /\ "attach" # None
  BY DEF AttachPacket, ConstantsOK
<1>3. /\ ctx[c] \in Context /\ client[c] = "open" /\ server.pc = "poll" /\ packet[c] = "attach"
      /\ packet' = [packet EXCEPT ![c] = None] /\ packet' \in [Contexts -> Packets \cup {None}]
      /\ UNCHANGED <<shallTerminate, monitor, menu, nextCtx, client>>
  BY <1>2, TakesFacts
<1>4. {"extended", "used"} \subseteq ctx[c].flags /\ ctx[c].debug = None
  BY <1>3 DEF Live, ClientsHold, ClientHolds
<1>5. /\ x \in Context /\ x.port = ctx[c].port /\ x.serv = ctx[c].serv /\ x.debug = None
      /\ x.waitsFor = ctx[c].waitsFor /\ x.flags = ctx[c].flags /\ x.pid = p
  BY <1>3, <1>4 DEF Context, Targets
<1>6. CASE CanAttach(x)
  <2>1. Target(x) = p /\ p # None
    BY <1>5, <1>6 DEF CanAttach, Target, ConstantsOK
  <2> DEFINE y == [x EXCEPT !.state = "attached", !.debug = p, !.pid = p]
  <2>2. ctx' = [ctx EXCEPT ![c] = y] /\ attachedEvent' = attachedEvent \cup {c} /\ NoSync /\ UNCHANGED server
    BY <1>1, <1>6, <2>1 DEF Attached
  <2> HIDE DEF x
  <2>3. /\ y \in Context /\ y.port = x.port /\ y.serv = x.serv /\ y.debug = p /\ y.waitsFor = x.waitsFor
        /\ y.flags = x.flags
    BY <1>5 DEF Context, Targets
  <2> HIDE DEF y
  <2>4. ctx'[c] = y
    BY <2>2, <2>3, OneContext
  <2>5. c \notin overtaken => HandleIsOpen(c)'
    BY <1>3, <1>4, <1>5, <2>1, <2>2, <2>3, <2>4 DEF Live, HandlesAreOpen, HandleIsOpen, Quiet
  <2>6. ctx' \in [Contexts -> Context] /\ HandlesAreOpen' /\ ClientsHold' /\ NextIsFree'
    BY <1>3, <1>4, <1>5, <2>2, <2>3, <2>5, PacketKeeps
  <2>7. ServerKnows'
    BY <1>3, <2>2 DEF ServerKnows, ServerHasContext, OfContext, AcceptsFree, ClosesTold, DetachesHeld
  <2> QED  BY <1>3, <2>2, <2>6, <2>7 DEF GDBTypeOK, Live, SpinsWithAll, NoSync
<1>7. CASE ~CanAttach(x)
  <2>1. AsksMonitor(c, x)
    BY <1>1, <1>7
  <2> HIDE DEF x
  <2> QED  BY <1>2, <1>4, <1>5, <2>1, AsksMonitorKeeps
<1> QED  BY <1>6, <1>7

LEMMA DetachPacketKeeps ==
  ASSUME ConstantsOK, GDBTypeOK, Live, NEW c \in Contexts, NEW what \in {"detach", "kill"},
         DetachPacket(c, what), UNCHANGED overtaken
  PROVE  GDBTypeOK' /\ Live'
<1> DEFINE x == [ctx[c] EXCEPT !.flags = @ \cup IF what = "kill" THEN {"terminate"} ELSE {}]
           y == [x EXCEPT !.state = "detaching"]
<1>1. /\ Takes(c, what) /\ what # None
      /\ IF "extended" \in x.flags THEN AsksMonitor(c, x)
         ELSE /\ ctx' = [ctx EXCEPT ![c] = y] /\ NoSync /\ UNCHANGED attachedEvent
              /\ server' = [server EXCEPT !.pc = "closes", !.c = c]
  BY DEF DetachPacket, ConstantsOK
<1>2. /\ ctx[c] \in Context /\ client[c] = "open" /\ server.pc = "poll"
      /\ packet' = [packet EXCEPT ![c] = None] /\ packet' \in [Contexts -> Packets \cup {None}]
      /\ UNCHANGED <<shallTerminate, monitor, menu, nextCtx, client>>
  BY <1>1, TakesFacts
<1>3. /\ x \in Context /\ x.port = ctx[c].port /\ x.serv = ctx[c].serv /\ x.debug = ctx[c].debug
      /\ x.waitsFor = ctx[c].waitsFor
      /\ x.flags = ctx[c].flags \cup IF what = "kill" THEN {"terminate"} ELSE {}
  BY <1>2 DEF Context, Flags, EveryFlag
<1>4. "extended" \in x.flags => "used" \in x.flags
  BY <1>3 DEF Live, ClientsHold, ClientHolds
<1> HIDE DEF x
<1>5. CASE "extended" \in x.flags
  BY <1>1, <1>3, <1>4, <1>5, AsksMonitorKeeps
<1>6. CASE "extended" \notin x.flags
  <2>1. /\ y \in Context /\ y.port = x.port /\ y.serv = x.serv /\ y.debug = x.debug
        /\ y.waitsFor = x.waitsFor /\ y.flags = x.flags
    BY <1>3 DEF Context
  <2>2. ctx' = [ctx EXCEPT ![c] = y] /\ NoSync /\ UNCHANGED attachedEvent
        /\ server' = [server EXCEPT !.pc = "closes", !.c = c]
    BY <1>1, <1>6
  <2> HIDE DEF y
  <2>3. ctx'[c] = y
    BY <2>1, <2>2, OneContext
  <2>4. c \notin overtaken => HandleIsOpen(c)'
    BY <1>2, <1>3, <2>1, <2>2, <2>3 DEF Live, HandlesAreOpen, HandleIsOpen, Quiet
  <2>5. ctx' \in [Contexts -> Context] /\ HandlesAreOpen' /\ ClientsHold' /\ NextIsFree'
    BY <1>2, <1>3, <1>6, <2>1, <2>2, <2>4, PacketKeeps
  <2>6. GDBTypeOK' /\ server'.pc = "closes" /\ server'.c = c
    BY <1>2, <2>2, <2>5 DEF GDBTypeOK, NoSync
  <2>7. ServerKnows'
    BY <1>2, <2>6 DEF ServerKnows, ServerHasContext, OfContext, AcceptsFree, ClosesTold, DetachesHeld
  <2> QED  BY <1>2, <2>2, <2>5, <2>6, <2>7 DEF Live, SpinsWithAll, NoSync
<1> QED  BY <1>5, <1>6

\* The handle is closed while the monitor cannot read the contexts.
LEMMA DetachesExtendedKeeps ==
  ASSUME ConstantsOK, GDBTypeOK, Live, DetachesExtended, UNCHANGED overtaken
  PROVE  GDBTypeOK' /\ Live'
<1> DEFINE c == server.c
           x == [ctx[c] EXCEPT !.debug = None, !.pid = None, !.waitsFor = "attached",
                               !.flags = @ \cap {"extended", "used"}, !.state = "connected"]
<1>1. /\ server.pc = "detaches" /\ statusUpdateReceived /\ held' = {} /\ server' = [server EXCEPT !.pc = "poll"]
      /\ UNCHANGED <<attachedEvent, statusUpdated, statusUpdateReceived, shallTerminate, monitor, menu, nextCtx,
                     client, packet>>
  BY DEF DetachesExtended, ServerAt, handshake, others, peers
<1>2. /\ c \in Contexts /\ ctx[c] \in Context /\ client[c] # "none" /\ {"extended", "used"} \subseteq ctx[c].flags
      /\ menu # "spins" /\ monitor.pc = "snapshot" /\ c \notin attachedEvent
  BY <1>1 DEF Live, ServerKnows, ServerHasContext, DetachesHeld, OfContext, GDBTypeOK, ClientsHold, ClientHolds
<1>3. x \in Context /\ [Restarted(Detached(ctx[c])) EXCEPT !.state = "connected"] = x
  BY <1>2 DEF Context, Restarted, Detached
<1>4. /\ x.flags = {"extended", "used"} /\ x.port = ctx[c].port /\ x.serv = ctx[c].serv /\ x.debug = None
      /\ x.waitsFor = "attached"
  BY <1>2 DEF Context
<1>5. ctx' = [ctx EXCEPT ![c] = x]
  BY <1>2, <1>3 DEF DetachesExtended, GDBTypeOK
<1> HIDE DEF x
<1>6. /\ ctx' \in [Contexts -> Context] /\ ctx'[c] = x
      /\ \A d \in Contexts : d # c => ctx'[d] = ctx[d]
  BY <1>2, <1>3, <1>5, OneContext
<1>7. server'.pc = "poll" /\ GDBTypeOK'
  BY <1>1, <1>6 DEF GDBTypeOK
<1>8. HandlesAreOpen'
  BY <1>1, <1>2, <1>4, <1>6 DEF Live, HandlesAreOpen, HandleIsOpen, Quiet
<1>9. ClientsHold'
  BY <1>1, <1>2, <1>4, <1>6 DEF Live, ClientsHold, ClientHolds, Held
<1>10. NextIsFree'
  BY <1>1, <1>2, <1>6 DEF Live, NextIsFree, GDBTypeOK
<1> QED  BY <1>1, <1>2, <1>7, <1>8, <1>9, <1>10
         DEF Live, SpinsWithAll, ServerKnows, ServerHasContext, OfContext, AcceptsFree, ClosesTold, DetachesHeld

LEMMA ClosesKeeps ==
  ASSUME GDBTypeOK, Live, NEW c \in Contexts, Closes(c), UNCHANGED overtaken
  PROVE  GDBTypeOK' /\ Live'
<1>1. /\ server' = [server EXCEPT !.pc = "closes", !.c = c] /\ client[c] # "none"
      /\ UNCHANGED <<ctx, attachedEvent, statusUpdated, statusUpdateReceived, shallTerminate, held, monitor, menu,
                     nextCtx, client, packet>>
  BY DEF Closes, contexts, handshake, others, peers
<1>2. server'.pc = "closes" /\ server'.c = c /\ GDBTypeOK'
  BY <1>1 DEF GDBTypeOK
<1>3. HandlesAreOpen' /\ ClientsHold' /\ NextIsFree' /\ SpinsWithAll'
  BY <1>1 DEF Live, HandlesAreOpen, HandleIsOpen, Quiet, ClientsHold, ClientHolds, Held, NextIsFree, SpinsWithAll
<1> QED  BY <1>1, <1>2, <1>3
         DEF Live, ServerKnows, ServerHasContext, OfContext, AcceptsFree, ClosesTold, DetachesHeld

\* GDB_CloseClient: whatever the monitor handles then is noted as overtaken.
LEMMA CloseStartsKeeps ==
  ASSUME ConstantsOK, GDBTypeOK, Live, CloseStarts
  PROVE  GDBTypeOK' /\ Live'
<1> DEFINE c == server.c
           x == [ctx[c] EXCEPT !.waitsFor = "attached"]
<1>1. /\ server.pc = "closes" /\ ctx' = [ctx EXCEPT ![c].waitsFor = "attached"]
      /\ attachedEvent' = attachedEvent \ {c}
      /\ statusUpdateReceived' = FALSE /\ statusUpdated' = TRUE
      /\ overtaken' = overtaken \cup IF monitor.pc = "handle" /\ monitor.c = c THEN {c} ELSE {}
      /\ server' = [server EXCEPT !.pc = "counts"]
      /\ UNCHANGED <<shallTerminate, held, monitor, menu, nextCtx, client, packet>>
  BY DEF CloseStarts, ServerAt, others, peers
<1>2. c \in Contexts /\ ctx[c] \in Context /\ client[c] # "none"
  BY <1>1 DEF Live, ServerKnows, ServerHasContext, OfContext, GDBTypeOK
<1>3. /\ x \in Context /\ ctx' = [ctx EXCEPT ![c] = x]
      /\ x.flags = ctx[c].flags /\ x.port = ctx[c].port /\ x.serv = ctx[c].serv /\ x.debug = ctx[c].debug
      /\ x.waitsFor = "attached"
  BY <1>1, <1>2 DEF Context, GDBTypeOK
<1> HIDE DEF x
<1>4. /\ ctx' \in [Contexts -> Context] /\ ctx'[c] = x
      /\ \A d \in Contexts : d # c => ctx'[d] = ctx[d]
  BY <1>2, <1>3, OneContext
<1>5. server'.pc = "counts" /\ server'.c = c /\ GDBTypeOK'
  BY <1>1, <1>4 DEF GDBTypeOK
<1>6. HandlesAreOpen'
  BY <1>1, <1>2, <1>3, <1>4 DEF Live, HandlesAreOpen, HandleIsOpen, Quiet
<1>7. ClientsHold'
  BY <1>1, <1>2, <1>3, <1>4 DEF Live, ClientsHold, ClientHolds, Held
<1>8. NextIsFree'
  BY <1>1, <1>2, <1>4 DEF Live, NextIsFree, GDBTypeOK
<1>9. ServerKnows'
  BY <1>1, <1>2, <1>3, <1>4, <1>5
     DEF ServerKnows, ServerHasContext, OfContext, AcceptsFree, ClosesTold, Told, DetachesHeld
<1> QED  BY <1>1, <1>5, <1>6, <1>7, <1>8, <1>9 DEF Live, SpinsWithAll

\* The context is freed without waiting for the monitor only when the monitor has ended.
LEMMA CloseCountsKeeps ==
  ASSUME GDBTypeOK, Live, monitor.pc # "ended", CloseCounts, UNCHANGED overtaken
  PROVE  GDBTypeOK' /\ Live'
<1>1. /\ server.pc = "counts" /\ server' = [server EXCEPT !.pc = IF Alive >= 2 THEN "waits" ELSE "frees"]
      /\ UNCHANGED <<ctx, attachedEvent, statusUpdated, statusUpdateReceived, shallTerminate, held, monitor, menu,
                     nextCtx, client, packet>>
  BY DEF CloseCounts, ServerAt, contexts, handshake, others, peers
<1>2. Alive = 2
  <2>1. {t \in {"s", "m"} : IF t = "s" THEN server.pc # "ended" ELSE monitor.pc # "ended"} = {"s", "m"}
    BY <1>1
  <2>2. Cardinality({"s"} \cup {"m"}) = 2
    <3>1. IsFiniteSet({"s"}) /\ Cardinality({"s"}) = 1
      BY FS_Singleton
    <3>2. Cardinality({"s"} \cup {"m"}) = Cardinality({"s"}) + 1
      BY <3>1, FS_AddElement
    <3> QED  BY <3>1, <3>2
  <2>3. {"s", "m"} = {"s"} \cup {"m"}
    OBVIOUS
  <2> QED  BY <2>1, <2>2, <2>3 DEF Alive
<1>3. server'.pc = "waits" /\ server'.c = server.c /\ GDBTypeOK'
  BY <1>1, <1>2 DEF GDBTypeOK
<1>4. HandlesAreOpen' /\ ClientsHold' /\ NextIsFree' /\ SpinsWithAll'
  BY <1>1 DEF Live, HandlesAreOpen, HandleIsOpen, Quiet, ClientsHold, ClientHolds, Held, NextIsFree, SpinsWithAll
<1>5. ServerKnows'
  BY <1>1, <1>3
     DEF Live, ServerKnows, ServerHasContext, OfContext, AcceptsFree, ClosesTold, Told, DetachesHeld
<1> QED  BY <1>3, <1>4, <1>5 DEF Live

\* The wait for the monitor ends: it has read the context since.
LEMMA CloseWaitsKeeps ==
  ASSUME GDBTypeOK, Live, CloseWaits, UNCHANGED overtaken
  PROVE  GDBTypeOK' /\ Live'
<1>1. /\ server.pc = "waits" /\ server' = [server EXCEPT !.pc = "frees"] /\ statusUpdateReceived
      /\ UNCHANGED <<ctx, attachedEvent, statusUpdated, statusUpdateReceived, shallTerminate, held, monitor, menu,
                     nextCtx, client, packet>>
  BY DEF CloseWaits, ServerAt, contexts, handshake, others, peers
<1>2. server'.pc = "frees" /\ server'.c = server.c /\ GDBTypeOK'
  BY <1>1 DEF GDBTypeOK
<1>3. HandlesAreOpen' /\ ClientsHold' /\ NextIsFree' /\ SpinsWithAll'
  BY <1>1 DEF Live, HandlesAreOpen, HandleIsOpen, Quiet, ClientsHold, ClientHolds, Held, NextIsFree, SpinsWithAll
<1>4. ServerKnows'
  BY <1>1, <1>2
     DEF Live, ServerKnows, ServerHasContext, OfContext, AcceptsFree, ClosesTold, Told, Quiet, DetachesHeld
<1> QED  BY <1>2, <1>3, <1>4 DEF Live

\* The context is freed, and its handle closed.
LEMMA CloseFreesKeeps ==
  ASSUME ConstantsOK, GDBTypeOK, Live, CloseFrees, UNCHANGED overtaken
  PROVE  GDBTypeOK' /\ Live'
<1> DEFINE c == server.c
           w == IF ctx[c].debug # None \/ ctx[c].state \in {"attached", "detaching"} THEN "attached"
                ELSE ctx[c].waitsFor
           x == [Fresh EXCEPT !.waitsFor = w]
<1>1. /\ server.pc = "frees" /\ ctx' = [ctx EXCEPT ![c] = x]
      /\ client' = [client EXCEPT ![c] = "none"] /\ packet' = [packet EXCEPT ![c] = None]
      /\ server' = [pc |-> IF server.refuses THEN "crashed" ELSE "poll", c |-> None, refuses |-> server.refuses]
      /\ UNCHANGED <<attachedEvent, statusUpdated, statusUpdateReceived, shallTerminate, held, monitor, menu,
                     nextCtx>>
  BY DEF CloseFrees, handshake, others
<1>2. c \in Contexts /\ ctx[c] \in Context /\ client[c] # "none" /\ (c \notin overtaken => Quiet(c))
  BY <1>1 DEF Live, ServerKnows, ServerHasContext, ClosesTold, OfContext, GDBTypeOK
<1>3. w \in {"attached", "continued", None} \cup Targets /\ (c \notin overtaken => w = "attached")
  BY <1>2 DEF Context, Quiet
<1> HIDE DEF w
<1>4. /\ x \in Context /\ x.flags = {} /\ x.debug = None /\ x.waitsFor = w
  BY <1>3 DEF Context, Fresh
<1> HIDE DEF x
<1>5. /\ ctx' \in [Contexts -> Context] /\ ctx'[c] = x
      /\ \A d \in Contexts : d # c => ctx'[d] = ctx[d]
  BY <1>1, <1>2, <1>4, OneContext
<1>6. /\ client'[c] = "none" /\ packet'[c] = None
      /\ \A d \in Contexts : d # c => client'[d] = client[d] /\ packet'[d] = packet[d]
  BY <1>2, <1>1 DEF GDBTypeOK
<1>7. server'.pc \in {"poll", "crashed"} /\ GDBTypeOK'
  BY <1>1, <1>2, <1>5 DEF GDBTypeOK
<1>8. HandlesAreOpen'
  BY <1>1, <1>2, <1>3, <1>4, <1>5, <1>6 DEF Live, HandlesAreOpen, HandleIsOpen, Quiet
<1>9. ClientsHold'
  BY <1>1, <1>2, <1>4, <1>5, <1>6 DEF ConstantsOK, Live, ClientsHold, ClientHolds, Held
<1>10. NextIsFree'
  BY <1>1, <1>2, <1>5, <1>6 DEF Live, NextIsFree, GDBTypeOK
<1> QED  BY <1>1, <1>7, <1>8, <1>9, <1>10
         DEF Live, SpinsWithAll, ServerKnows, ServerHasContext, OfContext, AcceptsFree, ClosesTold, DetachesHeld

\* Connections that are ended keep their contexts, until the server frees them.
LEMMA KilledKeeps ==
  ASSUME ConstantsOK, GDBTypeOK, Live, shallTerminate',
         ctx' = [c \in Contexts |-> [ctx[c] EXCEPT !.shouldClose = @ \/ client[c] \in {"open", "gone"}]],
         client' = [c \in Contexts |-> IF client[c] = "none" THEN "none" ELSE "killed"],
         packet' = [c \in Contexts |-> None],
         UNCHANGED <<attachedEvent, monitor, nextCtx, overtaken>>
  PROVE  /\ ctx' \in [Contexts -> Context] /\ client' \in [Contexts -> {"none", "killed"}]
         /\ packet' \in [Contexts -> Packets \cup {None}]
         /\ \A c \in Contexts :
              /\ ctx'[c].flags = ctx[c].flags /\ ctx'[c].port = ctx[c].port /\ ctx'[c].serv = ctx[c].serv
              /\ ctx'[c].debug = ctx[c].debug /\ ctx'[c].waitsFor = ctx[c].waitsFor
              /\ client'[c] = "none" <=> client[c] = "none"
         /\ HandlesAreOpen' /\ ClientsHold' /\ NextIsFree'
<1>1. \A c \in Contexts :
        /\ ctx'[c] \in Context
        /\ ctx'[c].flags = ctx[c].flags /\ ctx'[c].port = ctx[c].port /\ ctx'[c].serv = ctx[c].serv
        /\ ctx'[c].debug = ctx[c].debug /\ ctx'[c].waitsFor = ctx[c].waitsFor
  <2> SUFFICES ASSUME NEW c \in Contexts
               PROVE  LET x == [ctx[c] EXCEPT !.shouldClose = @ \/ client[c] \in {"open", "gone"}]
                      IN /\ x \in Context /\ x.flags = ctx[c].flags /\ x.port = ctx[c].port
                         /\ x.serv = ctx[c].serv /\ x.debug = ctx[c].debug /\ x.waitsFor = ctx[c].waitsFor
    OBVIOUS
  <2>1. ctx[c] \in Context
    BY DEF GDBTypeOK
  <2> QED  BY <2>1 DEF Context
<1>2. \A c \in Contexts : packet'[c] = None /\ client'[c] = IF client[c] = "none" THEN "none" ELSE "killed"
  OBVIOUS
<1>3. ctx' \in [Contexts -> Context] /\ client' \in [Contexts -> {"none", "killed"}]
      /\ packet' \in [Contexts -> Packets \cup {None}]
  BY <1>1
<1>4. HandlesAreOpen'
  BY <1>1, <1>2 DEF Live, HandlesAreOpen, HandleIsOpen, Quiet
<1>5. ClientsHold'
  BY <1>1, <1>2 DEF ConstantsOK, Live, ClientsHold, ClientHolds, Held
<1>6. NextIsFree'
  BY <1>1, <1>2 DEF Live, NextIsFree, GDBTypeOK
<1> QED  BY <1>1, <1>2, <1>3, <1>4, <1>5, <1>6

\* abort_connections.
LEMMA ServerAbortsKeeps ==
  ASSUME ConstantsOK, GDBTypeOK, Live, ServerAborts, UNCHANGED overtaken
  PROVE  GDBTypeOK' /\ Live'
<1>1. /\ shallTerminate /\ server' = [server EXCEPT !.pc = "ends"]
      /\ ctx' = [c \in Contexts |-> [ctx[c] EXCEPT !.shouldClose = @ \/ client[c] \in {"open", "gone"}]]
      /\ client' = [c \in Contexts |-> IF client[c] = "none" THEN "none" ELSE "killed"]
      /\ packet' = [c \in Contexts |-> None]
      /\ UNCHANGED <<attachedEvent, statusUpdated, statusUpdateReceived, shallTerminate, held, monitor, menu,
                     nextCtx>>
  BY DEF ServerAborts, ServerAt, handshake, others
<1>2. /\ ctx' \in [Contexts -> Context] /\ client' \in [Contexts -> {"none", "killed"}]
      /\ packet' \in [Contexts -> Packets \cup {None}]
      /\ HandlesAreOpen' /\ ClientsHold' /\ NextIsFree'
  BY <1>1, KilledKeeps
<1>3. server'.pc = "ends" /\ GDBTypeOK'
  BY <1>1, <1>2 DEF GDBTypeOK
<1> QED  BY <1>1, <1>2, <1>3
         DEF Live, SpinsWithAll, ServerKnows, ServerHasContext, OfContext, AcceptsFree, ClosesTold, DetachesHeld

\* The socket thread ends before the monitor: it finalizes nothing.
LEMMA ServerEndsKeeps ==
  ASSUME GDBTypeOK, Live, monitor.pc # "ended", ServerEnds, UNCHANGED overtaken
  PROVE  GDBTypeOK' /\ Live'
<1>1. /\ server' = [server EXCEPT !.pc = "ended"]
      /\ UNCHANGED <<ctx, attachedEvent, statusUpdated, statusUpdateReceived, shallTerminate, held, monitor, menu,
                     nextCtx, client, packet>>
  BY DEF ServerEnds, ServerAt, handshake, others, peers
<1>2. server'.pc = "ended" /\ GDBTypeOK'
  BY <1>1 DEF GDBTypeOK
<1>3. HandlesAreOpen' /\ ClientsHold' /\ NextIsFree' /\ SpinsWithAll'
  BY <1>1 DEF Live, HandlesAreOpen, HandleIsOpen, Quiet, ClientsHold, ClientHolds, Held, NextIsFree, SpinsWithAll
<1> QED  BY <1>2, <1>3 DEF Live, ServerKnows, ServerHasContext, OfContext, AcceptsFree, ClosesTold, DetachesHeld

\* The monitor reads the contexts when nobody holds a lock.
LEMMA SnapshotKeeps ==
  ASSUME GDBTypeOK, Live, Snapshot, UNCHANGED overtaken
  PROVE  GDBTypeOK' /\ Live'
<1>1. /\ monitor' = [monitor EXCEPT !.pc = "wait", !.handles = [c \in Contexts |-> ctx[c].waitsFor]]
      /\ held = {}
      /\ UNCHANGED <<ctx, attachedEvent, statusUpdated, statusUpdateReceived, shallTerminate, held, server, menu,
                     nextCtx, client, packet>>
  BY DEF Snapshot, AllFree, contexts, handshake, others, peers
<1>2. [c \in Contexts |-> ctx[c].waitsFor] \in [Contexts -> {"attached", "continued", None} \cup Targets]
  BY DEF GDBTypeOK, Context
<1>3. /\ monitor'.pc = "wait" /\ \A c \in Contexts : monitor'.handles[c] = ctx[c].waitsFor
  BY <1>1 DEF GDBTypeOK
<1>4. GDBTypeOK'
  BY <1>1, <1>2 DEF GDBTypeOK
<1>5. HandlesAreOpen'
  BY <1>1, <1>3 DEF Live, HandlesAreOpen, HandleIsOpen, Quiet
<1>6. ClientsHold' /\ NextIsFree' /\ SpinsWithAll'
  BY <1>1 DEF Live, ClientsHold, ClientHolds, Held, NextIsFree, SpinsWithAll
<1>7. ServerHasContext' /\ AcceptsFree' /\ DetachesHeld'
  BY <1>1 DEF Live, ServerKnows, ServerHasContext, OfContext, AcceptsFree, Held, DetachesHeld
<1>8. ClosesTold'
  <2>1. server.pc \in OfContext => server.c \in Contexts
    BY DEF Live, ServerKnows, ServerHasContext
  <2> QED  BY <1>1, <1>3, <2>1 DEF Live, ServerKnows, OfContext, ClosesTold, Told, Quiet
<1> QED  BY <1>4, <1>5, <1>6, <1>7, <1>8 DEF Live, ServerKnows

\* What the monitor acknowledges it reads before it waits again.
LEMMA WokenByStatusKeeps ==
  ASSUME GDBTypeOK, Live, WokenByStatus, UNCHANGED overtaken
  PROVE  GDBTypeOK' /\ Live'
<1>1. /\ monitor' = [monitor EXCEPT !.pc = "snapshot"] /\ statusUpdated' = FALSE /\ statusUpdateReceived' = TRUE
      /\ UNCHANGED <<ctx, attachedEvent, shallTerminate, held, server, menu, nextCtx, client, packet>>
  BY DEF WokenByStatus, MonitorAt, contexts, others, peers
<1>2. monitor'.pc = "snapshot" /\ GDBTypeOK'
  BY <1>1 DEF GDBTypeOK
<1>3. HandlesAreOpen' /\ ClientsHold' /\ NextIsFree' /\ SpinsWithAll'
  BY <1>1, <1>2
     DEF Live, HandlesAreOpen, HandleIsOpen, Quiet, ClientsHold, ClientHolds, Held, NextIsFree, SpinsWithAll
<1>4. ServerHasContext' /\ AcceptsFree' /\ DetachesHeld'
  BY <1>1, <1>2 DEF Live, ServerKnows, ServerHasContext, OfContext, AcceptsFree, Held, DetachesHeld
<1>5. ClosesTold'
  <2>1. server.pc \in OfContext => server.c \in Contexts
    BY DEF Live, ServerKnows, ServerHasContext
  <2> QED  BY <1>1, <1>2, <2>1 DEF Live, ServerKnows, OfContext, ClosesTold, Told, Quiet
<1> QED  BY <1>2, <1>3, <1>4, <1>5 DEF Live, ServerKnows

\* A context that the monitor comes to handle has a debug handle and a client.
LEMMA WokenByContextKeeps ==
  ASSUME GDBTypeOK, Live, NEW c \in Contexts, WokenByContext(c), UNCHANGED overtaken
  PROVE  GDBTypeOK' /\ Live'
<1>1. /\ monitor.pc = "wait" /\ ~statusUpdated /\ Signaled(c, monitor.handles[c])
      /\ monitor' = [monitor EXCEPT !.pc = "handle", !.c = c]
      /\ UNCHANGED <<ctx, attachedEvent, statusUpdated, statusUpdateReceived, shallTerminate, held, server, menu,
                     nextCtx, client, packet>>
  BY DEF WokenByContext, handshake, others, peers
<1>2. monitor'.pc = "handle" /\ monitor'.c = c /\ GDBTypeOK'
  BY <1>1 DEF GDBTypeOK
<1>3. ~Quiet(c) /\ (monitor.handles[c] = "attached" => c \in attachedEvent)
  BY <1>1 DEF Quiet, Signaled
<1>4. HandlesAreOpen'
  BY <1>1, <1>2, <1>3 DEF Live, HandlesAreOpen, HandleIsOpen, Quiet
<1>5. ClientsHold' /\ NextIsFree' /\ SpinsWithAll'
  BY <1>1 DEF Live, ClientsHold, ClientHolds, Held, NextIsFree, SpinsWithAll
<1>6. ServerHasContext' /\ AcceptsFree' /\ DetachesHeld'
  BY <1>1, <1>2, <1>3 DEF Live, ServerKnows, ServerHasContext, OfContext, AcceptsFree, Held, DetachesHeld
<1>7. ClosesTold'
  <2>1. server.pc \in OfContext => server.c \in Contexts
    BY DEF Live, ServerKnows, ServerHasContext
  <2> QED  BY <1>1, <1>2, <1>3, <2>1 DEF Live, ServerKnows, OfContext, ClosesTold, Told, Quiet
<1> QED  BY <1>2, <1>4, <1>5, <1>6, <1>7 DEF Live, ServerKnows

\* The monitor comes to wait for what the context is in.
LEMMA HandleStateKeeps ==
  ASSUME GDBTypeOK, Live, HandleState, UNCHANGED overtaken
  PROVE  GDBTypeOK' /\ Live'
<1> DEFINE c == monitor.c
           ends == ctx[c].state \in {"disconnected", "detaching"}
           w == IF ends THEN "attached" ELSE IF ctx[c].waitsFor = "attached" THEN "continued" ELSE ctx[c].debug
           x == [ctx[c] EXCEPT !.waitsFor = w]
<1>1. /\ monitor.pc = "handle" /\ Free(c) /\ ctx' = [ctx EXCEPT ![c].waitsFor = w]
      /\ attachedEvent' = IF ends THEN attachedEvent \ {c} ELSE attachedEvent
      /\ monitor' = [monitor EXCEPT !.pc = "snapshot"]
      /\ UNCHANGED <<statusUpdated, statusUpdateReceived, shallTerminate, held, server, menu, nextCtx, client,
                     packet>>
  BY DEF HandleState, MonitorWaitsFor, Forgets, MonitorAt, handshake, others, peers
<1>2. c \in Contexts /\ ctx[c] \in Context
  BY <1>1 DEF GDBTypeOK
<1>3. /\ x \in Context /\ ctx' = [ctx EXCEPT ![c] = x]
      /\ x.flags = ctx[c].flags /\ x.port = ctx[c].port /\ x.serv = ctx[c].serv /\ x.debug = ctx[c].debug
      /\ x.waitsFor \in {"attached", "continued", ctx[c].debug}
  <2>1. w \in {"attached", "continued", None} \cup Targets /\ w \in {"attached", "continued", ctx[c].debug}
    BY <1>2 DEF Context
  <2> HIDE DEF w
  <2> QED  BY <1>1, <1>2, <2>1 DEF Context, GDBTypeOK
<1> HIDE DEF x, w, ends
<1>4. /\ ctx' \in [Contexts -> Context] /\ ctx'[c] = x
      /\ \A d \in Contexts : d # c => ctx'[d] = ctx[d]
  BY <1>2, <1>3, OneContext
<1>5. monitor'.pc = "snapshot" /\ GDBTypeOK'
  BY <1>1, <1>4 DEF GDBTypeOK
<1>6. ~Quiet(c)
  BY <1>1 DEF Quiet
<1>7. HandlesAreOpen'
  <2> SUFFICES ASSUME NEW d \in Contexts \ overtaken PROVE HandleIsOpen(d)'
    BY DEF HandlesAreOpen
  <2>1. CASE d = c
    BY <1>1, <1>2, <1>3, <1>4, <1>5, <1>6, <2>1 DEF Live, HandlesAreOpen, HandleIsOpen
  <2>2. CASE d # c
    BY <1>1, <1>4, <1>5, <2>2 DEF Live, HandlesAreOpen, HandleIsOpen, Quiet
  <2> QED  BY <2>1, <2>2
<1>8. ClientsHold'
  BY <1>1, <1>2, <1>3, <1>4 DEF Live, ClientsHold, ClientHolds, Held
<1>9. NextIsFree'
  BY <1>1, <1>2, <1>3, <1>4 DEF Live, NextIsFree, GDBTypeOK
<1>10. ServerHasContext' /\ AcceptsFree'
  BY <1>1, <1>2, <1>3, <1>4 DEF Live, ServerKnows, ServerHasContext, OfContext, AcceptsFree, Held
<1>11. ClosesTold'
  <2>1. server.pc \in {"attaches", "frees", "counts", "waits"} /\ c = server.c => c \in overtaken
    BY <1>1, <1>6 DEF Live, ServerKnows, ClosesTold, Told
  <2> QED  BY <1>1, <1>4, <1>5, <2>1 DEF Live, ServerKnows, ServerHasContext, OfContext, ClosesTold, Told, Quiet
<1>12. DetachesHeld'
  BY <1>1, <1>4, <1>5 DEF Live, ServerKnows, ServerHasContext, OfContext, DetachesHeld, Free
<1> QED  BY <1>1, <1>5, <1>7, <1>8, <1>9, <1>10, <1>11, <1>12 DEF Live, ServerKnows, SpinsWithAll

\* What the handling of an event does to its context.
LEMMA EventFacts ==
  ASSUME GDBTypeOK, Live, HandleEvent, NEW c, c = monitor.c
  PROVE  \E x \in Context :
           /\ ctx' = [ctx EXCEPT ![c] = x]
           /\ x.port = ctx[c].port /\ x.serv = ctx[c].serv /\ x.flags \subseteq ctx[c].flags
           /\ ctx[c].flags \cap {"extended", "used"} \subseteq x.flags
           /\ "extended" \notin ctx[c].flags => x.debug = ctx[c].debug /\ ctx[c].flags \ {"continuing"} \subseteq x.flags
           /\ \/ x.debug = ctx[c].debug /\ x.waitsFor \in {"attached", "continued", ctx[c].waitsFor}
                /\ attachedEvent' \in {attachedEvent, attachedEvent \ {c}}
              \/ x.debug = None /\ x.waitsFor = "attached" /\ attachedEvent' = attachedEvent \ {c}
<1> DEFINE y == ctx[c]
           detached == [y EXCEPT !.debug = None, !.pid = None, !.waitsFor = "attached",
                                 !.flags = @ \cap {"extended", "used"}, !.state = "detaching"]
           over == [y EXCEPT !.waitsFor = "attached"]
<1>1. c \in Contexts /\ y \in Context
  BY DEF HandleEvent, GDBTypeOK
<1>2. /\ detached \in Context /\ detached.port = y.port /\ detached.serv = y.serv /\ detached.debug = None
      /\ detached.waitsFor = "attached" /\ detached.flags = y.flags \cap {"extended", "used"}
      /\ [Restarted(Detached(y)) EXCEPT !.state = "detaching"] = detached
  BY <1>1 DEF Context, Restarted, Detached
<1>3. /\ over \in Context /\ over.port = y.port /\ over.serv = y.serv /\ over.debug = y.debug
      /\ over.waitsFor = "attached" /\ over.flags = y.flags
  BY <1>1 DEF Context
<1>4. ASSUME NEW w, w \in {"continued", y.waitsFor}
      PROVE  LET x == [y EXCEPT !.flags = @ \ {"continuing"}, !.waitsFor = w]
             IN /\ x \in Context /\ x.port = y.port /\ x.serv = y.serv /\ x.debug = y.debug
                /\ x.waitsFor = w /\ x.flags = y.flags \ {"continuing"}
  BY <1>1, <1>4 DEF Context
<1>5. \/ /\ ctx' = [ctx EXCEPT ![c] = detached] /\ attachedEvent' = attachedEvent \ {c}
         /\ "extended" \in y.flags
      \/ ctx' = [ctx EXCEPT ![c] = over] /\ attachedEvent' = attachedEvent \ {c}
      \/ /\ \E w \in {"continued", y.waitsFor} :
              ctx' = [ctx EXCEPT ![c] = [y EXCEPT !.flags = @ \ {"continuing"}, !.waitsFor = w]]
         /\ UNCHANGED attachedEvent
      \/ ctx' = [ctx EXCEPT ![c] = y] /\ UNCHANGED attachedEvent
  <2> HIDE DEF detached
  <2> QED  BY <1>2 DEF HandleEvent, Forgets
<1> HIDE DEF detached, over
<1>6. CASE ctx' = [ctx EXCEPT ![c] = detached] /\ attachedEvent' = attachedEvent \ {c} /\ "extended" \in y.flags
  BY <1>2, <1>6
<1>7. CASE ctx' = [ctx EXCEPT ![c] = over] /\ attachedEvent' = attachedEvent \ {c}
  BY <1>3, <1>7
<1>8. CASE /\ \E w \in {"continued", y.waitsFor} :
                ctx' = [ctx EXCEPT ![c] = [y EXCEPT !.flags = @ \ {"continuing"}, !.waitsFor = w]]
           /\ UNCHANGED attachedEvent
  BY <1>4, <1>8
<1>9. CASE ctx' = [ctx EXCEPT ![c] = y] /\ UNCHANGED attachedEvent
  BY <1>1, <1>9
<1> QED  BY <1>5, <1>6, <1>7, <1>8, <1>9

\* GDB_HandleDebugEvents.
LEMMA HandleEventKeeps ==
  ASSUME ConstantsOK, GDBTypeOK, Live, HandleEvent, UNCHANGED overtaken
  PROVE  GDBTypeOK' /\ Live'
<1> DEFINE c == monitor.c
<1>1. /\ monitor.pc = "handle" /\ Free(c) /\ monitor' = [monitor EXCEPT !.pc = "snapshot"]
      /\ UNCHANGED <<statusUpdated, statusUpdateReceived, shallTerminate, held, server, menu, nextCtx, client,
                     packet>>
  BY DEF HandleEvent, MonitorAt, handshake, others, peers
<1>2. c \in Contexts /\ ctx[c] \in Context
  BY <1>1 DEF GDBTypeOK
<1>3. PICK x \in Context :
           /\ ctx' = [ctx EXCEPT ![c] = x]
           /\ x.port = ctx[c].port /\ x.serv = ctx[c].serv /\ x.flags \subseteq ctx[c].flags
           /\ ctx[c].flags \cap {"extended", "used"} \subseteq x.flags
           /\ "extended" \notin ctx[c].flags => x.debug = ctx[c].debug /\ ctx[c].flags \ {"continuing"} \subseteq x.flags
           /\ \/ x.debug = ctx[c].debug /\ x.waitsFor \in {"attached", "continued", ctx[c].waitsFor}
                /\ attachedEvent' \in {attachedEvent, attachedEvent \ {c}}
              \/ x.debug = None /\ x.waitsFor = "attached" /\ attachedEvent' = attachedEvent \ {c}
  BY EventFacts
<1>4. /\ ctx' \in [Contexts -> Context] /\ ctx'[c] = x
      /\ \A d \in Contexts : d # c => ctx'[d] = ctx[d]
  BY <1>2, <1>3, OneContext
<1>5. monitor'.pc = "snapshot" /\ GDBTypeOK'
  BY <1>1, <1>4 DEF GDBTypeOK
<1>6. ~Quiet(c)
  BY <1>1 DEF Quiet
<1>7. HandlesAreOpen'
  <2> SUFFICES ASSUME NEW d \in Contexts \ overtaken PROVE HandleIsOpen(d)'
    BY DEF HandlesAreOpen
  <2>1. CASE d = c
    BY <1>1, <1>2, <1>3, <1>4, <1>5, <1>6, <2>1 DEF Live, HandlesAreOpen, HandleIsOpen, Quiet
  <2>2. CASE d # c
    BY <1>1, <1>3, <1>4, <1>5, <2>2 DEF Live, HandlesAreOpen, HandleIsOpen, Quiet
  <2> QED  BY <2>1, <2>2
<1>8. ClientsHold'
  <2> SUFFICES ASSUME NEW d \in Contexts PROVE ClientHolds(d)'
    BY DEF ClientsHold
  <2>1. CASE d = c
    BY <1>1, <1>2, <1>3, <1>4, <2>1 DEF Live, ClientsHold, ClientHolds, Held
  <2>2. CASE d # c
    BY <1>1, <1>4, <2>2 DEF Live, ClientsHold, ClientHolds, Held
  <2> QED  BY <2>1, <2>2
<1>9. NextIsFree'
  BY <1>1, <1>2, <1>3, <1>4 DEF Live, NextIsFree, GDBTypeOK
<1>10. ServerHasContext'
  BY <1>1 DEF Live, ServerKnows, ServerHasContext, OfContext
<1>11. AcceptsFree'
  <2>1. CASE server.c = c
    BY <1>1, <1>2, <1>3, <1>4, <2>1 DEF Live, ServerKnows, AcceptsFree, Held
  <2>2. CASE server.c # c
    BY <1>1, <1>4, <2>2 DEF Live, ServerKnows, ServerHasContext, OfContext, AcceptsFree, Held
  <2> QED  BY <2>1, <2>2
<1>12. ClosesTold'
  <2>1. server.pc \in {"attaches", "frees", "counts", "waits"} /\ c = server.c => c \in overtaken
    BY <1>1, <1>6 DEF Live, ServerKnows, ClosesTold, Told
  <2> QED  BY <1>1, <1>3, <1>4, <1>5, <2>1
           DEF Live, ServerKnows, ServerHasContext, OfContext, ClosesTold, Told, Quiet
<1>13. DetachesHeld'
  BY <1>1, <1>3, <1>4, <1>5 DEF Live, ServerKnows, ServerHasContext, OfContext, DetachesHeld, Free
<1> QED  BY <1>1, <1>5, <1>7, <1>8, <1>9, <1>10, <1>11, <1>12, <1>13 DEF Live, ServerKnows, SpinsWithAll

-----------------------------------------------------------------------------
(* The menus, the task that fetches the next application, the clients and  *)
(* the processes.                                                          *)

\* A context without a client may change, when the server does not rely on it.
LEMMA IdleContextKeeps ==
  ASSUME ConstantsOK, GDBTypeOK, Live, NEW c \in Contexts, client[c] = "none",
         NEW x \in Context, ctx' = [ctx EXCEPT ![c] = x], x.waitsFor = ctx[c].waitsFor,
         "extended" \in x.flags => "used" \in x.flags,
         server.pc = "accepts" => c # server.c /\ nextCtx' # server.c,
         server.pc = "awaits" /\ c = server.c /\ x.debug # None =>
           /\ "extended" \notin x.flags
           /\ "used" \in x.flags \/ ("selected" \in x.flags /\ x.port = NextPort),
         nextCtx' \in Contexts \cup {None}, NextIsFree',
         UNCHANGED <<attachedEvent, statusUpdated, statusUpdateReceived, shallTerminate, held, server, monitor,
                     menu, client, packet, overtaken>>
  PROVE  GDBTypeOK' /\ Live'
<1>1. /\ ctx' \in [Contexts -> Context] /\ ctx'[c] = x
      /\ \A d \in Contexts : d # c => ctx'[d] = ctx[d]
  BY OneContext
<1>2. GDBTypeOK'
  BY <1>1 DEF GDBTypeOK
<1>3. HandlesAreOpen'
  <2> SUFFICES ASSUME NEW d \in Contexts \ overtaken PROVE HandleIsOpen(d)'
    BY DEF HandlesAreOpen
  <2>1. CASE d = c
    BY <1>1, <2>1 DEF Live, HandlesAreOpen, HandleIsOpen, Quiet
  <2>2. CASE d # c
    BY <1>1, <2>2 DEF Live, HandlesAreOpen, HandleIsOpen, Quiet
  <2> QED  BY <2>1, <2>2
<1>4. ClientsHold'
  <2> SUFFICES ASSUME NEW d \in Contexts PROVE ClientHolds(d)'
    BY DEF ClientsHold
  <2>1. CASE d = c
    BY <1>1, <2>1 DEF ConstantsOK, Live, ClientsHold, ClientHolds
  <2>2. CASE d # c
    BY <1>1, <2>2 DEF Live, ClientsHold, ClientHolds, Held
  <2> QED  BY <2>1, <2>2
<1>5. ServerHasContext'
  BY DEF Live, ServerKnows, ServerHasContext
<1>6. AcceptsFree'
  <2>1. CASE server.c = c
    BY <1>1, <2>1 DEF Live, ServerKnows, ServerHasContext, AcceptsFree, Held
  <2>2. CASE server.c # c
    BY <1>1, <2>2 DEF Live, ServerKnows, ServerHasContext, OfContext, AcceptsFree, Held
  <2> QED  BY <2>1, <2>2
<1>7. ClosesTold' /\ DetachesHeld'
  <2>1. server.pc \in {"attaches", "frees", "counts", "waits", "detaches"} => server.c # c /\ server.c \in Contexts
    BY DEF Live, ServerKnows, ServerHasContext, OfContext
  <2>2. ClosesTold'
    BY <1>1, <2>1 DEF Live, ServerKnows, ClosesTold, Told, Quiet
  <2> QED  BY <1>1, <2>1, <2>2 DEF Live, ServerKnows, DetachesHeld
<1> QED  BY <1>2, <1>3, <1>4, <1>5, <1>6, <1>7 DEF Live, ServerKnows, SpinsWithAll

\* The context that a menu selects is free: it has no client, is not the one of the next
\* application, and the server does not go on with it.
LEMMA SelectsFacts ==
  ASSUME ConstantsOK, GDBTypeOK, Live, NEW ports, ports \subseteq ServerPorts, NEW pid \in Processes \cup {None},
         Selects(ports, pid), ctx' # ctx
  PROVE  \E c \in Contexts, x \in Context :
           /\ ~Allocated(c) /\ ctx' = [ctx EXCEPT ![c] = x] /\ x.waitsFor = ctx[c].waitsFor
           /\ x.debug \in {None, ctx[c].debug} /\ (pid = None => "used" \in x.flags \/ x.debug = None)
           /\ "extended" \in x.flags => "used" \in x.flags /\ "selected" \notin x.flags
           /\ "selected" \in x.flags => x.port \in ports /\ "used" \notin x.flags /\ (pid = None => x.debug = None)
<1> DEFINE free == {c \in Contexts : ~Allocated(c)}
           open == {q \in ports : \A c \in Contexts : Allocated(c) => ctx[c].port # q}
           c == Lowest(free)
           every == [ctx[c] EXCEPT !.flags = EveryFlag]
           x == [ctx[c] EXCEPT !.flags = @ \cup {"selected"}, !.port = Lowest(open), !.pid = pid,
                               !.debug = IF pid = None THEN None ELSE @]
<1>1. free # {}
  BY DEF Selects
<1>2. c \in free /\ (open # {} => Lowest(open) \in open)
  <2>1. free \subseteq Nat /\ open \subseteq Nat
    <3>1. Contexts \subseteq Nat /\ ServerPorts \subseteq Nat
      BY DEF ConstantsOK, Contexts, ServerPorts, NextPort
    <3> QED  BY <3>1
  <2> HIDE DEF free, open
  <2> QED  BY <1>1, <2>1, LowestIsIn
<1>3. /\ open = {} => ctx' = [ctx EXCEPT ![c].flags = EveryFlag]
      /\ open # {} => ctx' = [ctx EXCEPT ![c].flags = @ \cup {"selected"}, ![c].port = Lowest(open),
                                         ![c].pid = pid, ![c].debug = IF pid = None THEN None ELSE @]
  BY <1>1 DEF Selects
<1>4. c \in Contexts /\ ~Allocated(c)
  BY <1>2
<1> HIDE DEF c, free
<1>5. ctx[c] \in Context /\ "used" \notin ctx[c].flags /\ "extended" \notin ctx[c].flags
  BY <1>4 DEF Allocated, GDBTypeOK, Live, ClientsHold, ClientHolds
<1>6. CASE open = {}
  <2>1. /\ every \in Context /\ every.flags = EveryFlag /\ every.waitsFor = ctx[c].waitsFor
        /\ every.debug = ctx[c].debug
    BY <1>5 DEF Context, Flags, EveryFlag
  <2>2. ctx' = [ctx EXCEPT ![c] = every]
    BY <1>3, <1>4, <1>6 DEF GDBTypeOK
  <2> HIDE DEF every
  <2> QED  BY <1>4, <2>1, <2>2 DEF EveryFlag
<1>7. CASE open # {}
  <2>1. Lowest(open) \in ports /\ Lowest(open) \in ServerPorts
    BY <1>2, <1>7
  <2> HIDE DEF open
  <2>2. /\ x \in Context /\ x.flags = ctx[c].flags \cup {"selected"} /\ x.waitsFor = ctx[c].waitsFor
        /\ x.port = Lowest(open) /\ x.debug = IF pid = None THEN None ELSE ctx[c].debug
    BY <1>5, <2>1 DEF Context, Flags, Targets
  <2>3. ctx' = [ctx EXCEPT ![c] = x]
    BY <1>3, <1>4, <1>7 DEF GDBTypeOK
  <2> HIDE DEF x
  <2> QED  BY <1>4, <1>5, <2>1, <2>2, <2>3
<1> QED  BY <1>6, <1>7

\* A context that is not allocated is nobody's.
LEMMA FreeIsIdle ==
  ASSUME ConstantsOK, GDBTypeOK, Live, NEW c \in Contexts, ~Allocated(c)
  PROVE  /\ client[c] = "none" /\ nextCtx # c
         /\ server.pc = "accepts" => c # server.c
         /\ server.pc = "awaits" /\ c = server.c => ctx[c].debug = None
BY DEF ConstantsOK, Allocated, Live, ClientsHold, ClientHolds, Held, NextIsFree, ServerKnows, AcceptsFree

\* Nothing changes for who waits.
LEMMA SameKeeps ==
  ASSUME GDBTypeOK, Live,
         UNCHANGED <<ctx, attachedEvent, statusUpdated, statusUpdateReceived, shallTerminate, held, server,
                     monitor, menu, nextCtx, client, packet, overtaken>>
  PROVE  GDBTypeOK' /\ Live'
<1>1. GDBTypeOK'
  BY DEF GDBTypeOK
<1>2. HandlesAreOpen' /\ ClientsHold' /\ NextIsFree' /\ SpinsWithAll'
  BY DEF Live, HandlesAreOpen, HandleIsOpen, Quiet, ClientsHold, ClientHolds, Held, NextIsFree, SpinsWithAll
<1>3. ServerHasContext' /\ AcceptsFree' /\ ClosesTold' /\ DetachesHeld'
  BY DEF Live, ServerKnows, ServerHasContext, AcceptsFree, Held, ClosesTold, Told, Quiet, DetachesHeld
<1> QED  BY <1>1, <1>2, <1>3 DEF Live, ServerKnows

\* ProcessListMenu_HandleSelected, of a process that is not debugged.
LEMMA SelectKeeps ==
  ASSUME ConstantsOK, GDBTypeOK, Live, NEW p \in Processes, Select(p), UNCHANGED overtaken
  PROVE  GDBTypeOK' /\ Live'
<1>1. /\ Selects(ServerPorts \ {NextPort}, p)
      /\ UNCHANGED <<attachedEvent, statusUpdated, statusUpdateReceived, shallTerminate, held, server, monitor,
                     menu, nextCtx, client, packet>>
  BY DEF Select, handshake, others, peers
<1>2. CASE ctx' = ctx
  BY <1>1, <1>2, SameKeeps
<1>3. CASE ctx' # ctx
  <2>1. PICK c \in Contexts, x \in Context :
           /\ ~Allocated(c) /\ ctx' = [ctx EXCEPT ![c] = x] /\ x.waitsFor = ctx[c].waitsFor
           /\ x.debug \in {None, ctx[c].debug} /\ ("extended" \in x.flags => "used" \in x.flags)
    BY <1>1, <1>3, SelectsFacts
  <2>2. /\ client[c] = "none" /\ nextCtx # c
        /\ server.pc = "accepts" => c # server.c
        /\ server.pc = "awaits" /\ c = server.c => ctx[c].debug = None
    BY <2>1, FreeIsIdle
  <2>3. \A d \in Contexts : d # c => ctx'[d] = ctx[d]
    BY <2>1, OneContext
  <2>4. NextIsFree' /\ nextCtx' \in Contexts \cup {None}
    BY <1>1, <2>2, <2>3 DEF Live, NextIsFree, GDBTypeOK
  <2>5. server.pc = "accepts" => nextCtx' # server.c
    BY <1>1 DEF Live, ServerKnows, AcceptsFree
  <2> QED  BY <1>1, <2>1, <2>2, <2>4, <2>5, IdleContextKeeps
<1> QED  BY <1>2, <1>3

\* DebuggerMenu_DebugNextApplicationByForce.
LEMMA DebugNextApplicationKeeps ==
  ASSUME ConstantsOK, GDBTypeOK, Live, DebugNextApplication, UNCHANGED overtaken
  PROVE  GDBTypeOK' /\ Live'
<1> DEFINE picked == {c \in Contexts : ~Allocated(c) /\ "selected" \in ctx'[c].flags}
<1>1. /\ Selects({NextPort}, None) /\ nextCtx = None
      /\ IF picked = {} THEN nextCtx' = nextCtx ELSE nextCtx' \in picked
      /\ UNCHANGED <<attachedEvent, statusUpdated, statusUpdateReceived, shallTerminate, held, server, monitor,
                     menu, client, packet>>
  BY DEF DebugNextApplication, handshake, peers
<1>2. CASE ctx' = ctx
  <2>1. picked = {}
    BY <1>2 DEF Allocated
  <2> QED  BY <1>1, <1>2, <2>1, SameKeeps
<1>3. CASE ctx' # ctx
  <2>1. {NextPort} \subseteq ServerPorts
    BY DEF ConstantsOK, ServerPorts, NextPort
  <2>2. PICK c \in Contexts, x \in Context :
           /\ ~Allocated(c) /\ ctx' = [ctx EXCEPT ![c] = x] /\ x.waitsFor = ctx[c].waitsFor
           /\ x.debug \in {None, ctx[c].debug} /\ ("extended" \in x.flags => "used" \in x.flags /\ "selected" \notin x.flags)
           /\ "selected" \in x.flags => x.port = NextPort /\ x.debug = None
    BY <1>1, <1>3, <2>1, SelectsFacts
  <2>3. /\ client[c] = "none"
        /\ server.pc = "accepts" => c # server.c
        /\ server.pc = "awaits" /\ c = server.c => ctx[c].debug = None
    BY <2>2, FreeIsIdle
  <2>4. ctx'[c] = x /\ \A d \in Contexts : d # c => ctx'[d] = ctx[d]
    BY <2>2, OneContext
  <2>5. picked \subseteq {c} /\ (picked # {} => "selected" \in x.flags)
    BY <2>4 DEF Allocated
  <2>6. nextCtx' = None \/ (nextCtx' = c /\ "selected" \in x.flags)
    BY <1>1, <2>5
  <2>7. NextIsFree' /\ nextCtx' \in Contexts \cup {None}
    BY <1>1, <2>2, <2>3, <2>4, <2>6 DEF NextIsFree
  <2>8. server.pc = "accepts" => nextCtx' # server.c
    BY <2>3, <2>6 DEF ConstantsOK, Live, ServerKnows, ServerHasContext, OfContext
  <2> QED  BY <1>1, <2>2, <2>3, <2>7, <2>8, IdleContextKeeps
<1> QED  BY <1>2, <1>3

\* A context that is unselected has no client.
LEMMA UnselectKeeps ==
  ASSUME ConstantsOK, GDBTypeOK, Live, NEW p, Unselect(p), UNCHANGED overtaken
  PROVE  GDBTypeOK' /\ Live'
<1>1. PICK c \in Owner(p) :
        /\ "selected" \in ctx[c].flags /\ "used" \notin ctx[c].flags /\ ctx[c].port # NextPort
        /\ ctx' = [ctx EXCEPT ![c].flags = @ \ {"selected"}, ![c].port = None]
  BY DEF Unselect
<1>2. UNCHANGED <<attachedEvent, statusUpdated, statusUpdateReceived, shallTerminate, held, server, monitor,
                  menu, nextCtx, client, packet>>
  BY DEF Unselect, handshake, others, peers
<1> DEFINE x == [ctx[c] EXCEPT !.flags = @ \ {"selected"}, !.port = None]
<1>3. c \in Contexts /\ ctx[c] \in Context
  BY <1>1 DEF Owner, GDBTypeOK
<1>4. /\ x \in Context /\ x.flags = ctx[c].flags \ {"selected"} /\ x.waitsFor = ctx[c].waitsFor
      /\ x.debug = ctx[c].debug
  BY <1>3 DEF Context
<1>5. ctx' = [ctx EXCEPT ![c] = x]
  BY <1>1, <1>3 DEF GDBTypeOK
<1> HIDE DEF x
<1>6. ~Held(c) /\ "extended" \notin ctx[c].flags /\ client[c] = "none" /\ nextCtx # c
  BY <1>1, <1>3 DEF Live, ClientsHold, ClientHolds, Held, NextIsFree, ConstantsOK
<1>7. /\ server.pc = "accepts" => c # server.c /\ nextCtx' # server.c
      /\ server.pc = "awaits" /\ c = server.c => ctx[c].debug = None
  BY <1>2, <1>6 DEF Live, ServerKnows, AcceptsFree
<1>8. \A d \in Contexts : d # c => ctx'[d] = ctx[d]
  BY <1>3, <1>4, <1>5, OneContext
<1>9. NextIsFree' /\ nextCtx' \in Contexts \cup {None}
  BY <1>2, <1>6, <1>8 DEF Live, NextIsFree, GDBTypeOK
<1> QED  BY <1>2, <1>3, <1>4, <1>5, <1>6, <1>7, <1>9, IdleContextKeeps

\* The menu takes every lock, so that the server does not hold one.
LEMMA AskToCloseKeeps ==
  ASSUME ConstantsOK, GDBTypeOK, Live, NEW p, AskToClose(p), UNCHANGED overtaken
  PROVE  GDBTypeOK' /\ Live'
<1>1. PICK c \in Contexts : ctx' = [ctx EXCEPT ![c].shouldClose = TRUE]
  BY DEF AskToClose, Owner
<1>2. /\ menu' = "spins" /\ held = {} /\ held' = Contexts
      /\ UNCHANGED <<attachedEvent, statusUpdated, statusUpdateReceived, shallTerminate, server, monitor,
                     nextCtx, client, packet>>
  BY DEF AskToClose, MenuIdle, AllFree, handshake, peers
<1> DEFINE x == [ctx[c] EXCEPT !.shouldClose = TRUE]
<1>3. ctx[c] \in Context /\ ctx' = [ctx EXCEPT ![c] = x]
  BY <1>1 DEF GDBTypeOK
<1>4. /\ x \in Context /\ x.flags = ctx[c].flags /\ x.waitsFor = ctx[c].waitsFor /\ x.debug = ctx[c].debug
      /\ x.port = ctx[c].port /\ x.serv = ctx[c].serv
  BY <1>3 DEF Context
<1> HIDE DEF x
<1>5. ctx' \in [Contexts -> Context] /\ ctx'[c] = x /\ \A d \in Contexts : d # c => ctx'[d] = ctx[d]
  BY <1>3, <1>4, OneContext
<1>6. \A d \in Contexts :
        /\ ctx'[d].flags = ctx[d].flags /\ ctx'[d].waitsFor = ctx[d].waitsFor /\ ctx'[d].debug = ctx[d].debug
        /\ ctx'[d].port = ctx[d].port /\ ctx'[d].serv = ctx[d].serv
  BY <1>4, <1>5
<1>7. GDBTypeOK'
  BY <1>2, <1>5 DEF GDBTypeOK
<1>8. HandlesAreOpen'
  BY <1>2, <1>6 DEF Live, HandlesAreOpen, HandleIsOpen, Quiet
<1>9. ClientsHold' /\ NextIsFree'
  BY <1>2, <1>6 DEF Live, ClientsHold, ClientHolds, Held, NextIsFree, GDBTypeOK
<1>10. server.pc # "detaches"
  BY <1>2 DEF Live, ServerKnows, DetachesHeld
<1>11. server.pc \in OfContext => server.c \in Contexts
  BY DEF Live, ServerKnows, ServerHasContext
<1>12. ServerHasContext' /\ AcceptsFree' /\ DetachesHeld'
  BY <1>2, <1>6, <1>10, <1>11
     DEF Live, ServerKnows, ServerHasContext, OfContext, AcceptsFree, Held, DetachesHeld
<1>13. ClosesTold'
  BY <1>2, <1>6, <1>11 DEF Live, ServerKnows, OfContext, ClosesTold, Told, Quiet
<1> QED  BY <1>2, <1>7, <1>8, <1>9, <1>12, <1>13 DEF Live, ServerKnows, SpinsWithAll

\* The menu gives the locks back.
LEMMA ClosedKeeps ==
  ASSUME GDBTypeOK, Live, Closed, UNCHANGED overtaken
  PROVE  GDBTypeOK' /\ Live'
<1>1. /\ menu = "spins" /\ menu' = "idle"
      /\ UNCHANGED <<ctx, attachedEvent, statusUpdated, statusUpdateReceived, shallTerminate, server, monitor,
                     nextCtx, client, packet>>
  BY DEF Closed, contexts, handshake, peers
<1>2. server.pc # "detaches"
  BY <1>1 DEF Live, ServerKnows, DetachesHeld
<1>3. GDBTypeOK'
  BY <1>1 DEF GDBTypeOK
<1>4. HandlesAreOpen' /\ ClientsHold' /\ NextIsFree' /\ SpinsWithAll'
  BY <1>1 DEF Live, HandlesAreOpen, HandleIsOpen, Quiet, ClientsHold, ClientHolds, Held, NextIsFree, SpinsWithAll
<1>5. ServerHasContext' /\ AcceptsFree' /\ ClosesTold' /\ DetachesHeld'
  BY <1>1, <1>2 DEF Live, ServerKnows, ServerHasContext, AcceptsFree, Held, ClosesTold, Told, Quiet, DetachesHeld
<1> QED  BY <1>3, <1>4, <1>5 DEF Live, ServerKnows

\* The application that is launched is given to its context, which has no client yet.
LEMMA SetNextKeeps ==
  ASSUME ConstantsOK, GDBTypeOK, Live, SetNext, UNCHANGED overtaken
  PROVE  GDBTypeOK' /\ Live'
<1> DEFINE c == nextCtx
           x == [ctx[c] EXCEPT !.debug = IF task = "fetched" THEN App ELSE None,
                               !.flags = IF task = "fetched" THEN @ \cup {"atStart"} ELSE {}]
<1>1. /\ nextCtx # None /\ nextCtx' = None
      /\ ctx' = [ctx EXCEPT ![c].debug = IF task = "fetched" THEN App ELSE None,
                            ![c].flags = IF task = "fetched" THEN @ \cup {"atStart"} ELSE {}]
      /\ UNCHANGED <<attachedEvent, statusUpdated, statusUpdateReceived, shallTerminate, held, server, monitor,
                     menu, client, packet>>
  BY DEF SetNext, handshake, peers
<1>2. /\ c \in Contexts /\ ctx[c] \in Context /\ client[c] = "none"
      /\ "selected" \in ctx[c].flags /\ "extended" \notin ctx[c].flags /\ ctx[c].port = NextPort
  BY <1>1 DEF GDBTypeOK, Live, NextIsFree
<1>3. ctx' = [ctx EXCEPT ![c] = x]
  BY <1>1, <1>2 DEF GDBTypeOK
<1>4. /\ x \in Context /\ x.waitsFor = ctx[c].waitsFor /\ x.port = ctx[c].port
      /\ x.debug = IF task = "fetched" THEN App ELSE None
      /\ x.flags = IF task = "fetched" THEN ctx[c].flags \cup {"atStart"} ELSE {}
  BY <1>2 DEF Context, Flags, EveryFlag, Targets
<1> HIDE DEF x
<1>5. server.pc = "accepts" => c # server.c /\ nextCtx' # server.c
  BY <1>1 DEF ConstantsOK, Live, ServerKnows, ServerHasContext, OfContext, AcceptsFree
<1>6. "extended" \notin x.flags /\ (x.debug # None => "selected" \in x.flags /\ x.port = NextPort)
  BY <1>2, <1>4
<1>7. NextIsFree'
  BY <1>1 DEF NextIsFree
<1> QED  BY <1>1, <1>2, <1>3, <1>4, <1>5, <1>6, <1>7, IdleContextKeeps

\* debuggerDisable.
LEMMA DisableKeeps ==
  ASSUME ConstantsOK, GDBTypeOK, Live, Disable, UNCHANGED overtaken
  PROVE  GDBTypeOK' /\ Live'
<1>1. /\ shallTerminate' = TRUE /\ menu' = "joins"
      /\ ctx' = [c \in Contexts |-> [ctx[c] EXCEPT !.shouldClose = @ \/ client[c] \in {"open", "gone"}]]
      /\ client' = [c \in Contexts |-> IF client[c] = "none" THEN "none" ELSE "killed"]
      /\ packet' = [c \in Contexts |-> None]
      /\ UNCHANGED <<attachedEvent, statusUpdated, statusUpdateReceived, held, server, monitor, nextCtx>>
  BY DEF Disable
<1>2. /\ ctx' \in [Contexts -> Context] /\ client' \in [Contexts -> {"none", "killed"}]
      /\ packet' \in [Contexts -> Packets \cup {None}]
      /\ \A c \in Contexts :
           /\ ctx'[c].flags = ctx[c].flags /\ ctx'[c].port = ctx[c].port /\ ctx'[c].serv = ctx[c].serv
           /\ ctx'[c].debug = ctx[c].debug /\ ctx'[c].waitsFor = ctx[c].waitsFor
           /\ client'[c] = "none" <=> client[c] = "none"
      /\ HandlesAreOpen' /\ ClientsHold' /\ NextIsFree'
  BY <1>1, KilledKeeps
<1>3. GDBTypeOK'
  BY <1>1, <1>2 DEF GDBTypeOK
<1>4. server.pc \in OfContext => server.c \in Contexts
  BY DEF Live, ServerKnows, ServerHasContext
<1>5. ServerHasContext' /\ AcceptsFree' /\ DetachesHeld'
  BY <1>1, <1>2, <1>4 DEF Live, ServerKnows, ServerHasContext, OfContext, AcceptsFree, Held, DetachesHeld
<1>6. ClosesTold'
  BY <1>1, <1>2, <1>4 DEF Live, ServerKnows, OfContext, ClosesTold, Told, Quiet
<1> QED  BY <1>1, <1>2, <1>3, <1>5, <1>6 DEF Live, ServerKnows, SpinsWithAll

\* The menu waits for both threads.
LEMMA DisabledKeeps ==
  ASSUME GDBTypeOK, Live, monitor.pc # "ended"
  PROVE  ~Disabled
BY DEF Disabled

\* A client goes away.
LEMMA HangUpKeeps ==
  ASSUME ConstantsOK, GDBTypeOK, Live, NEW c \in Contexts, HangUp(c), UNCHANGED overtaken
  PROVE  GDBTypeOK' /\ Live'
<1>1. /\ client[c] = "open"
      /\ client' = [client EXCEPT ![c] = "gone"] /\ packet' = [packet EXCEPT ![c] = None]
      /\ UNCHANGED <<ctx, attachedEvent, statusUpdated, statusUpdateReceived, shallTerminate, held, server,
                     monitor, menu, nextCtx>>
  BY DEF HangUp, contexts, handshake, others
<1>2. /\ client'[c] = "gone" /\ packet'[c] = None
      /\ \A d \in Contexts : d # c => client'[d] = client[d] /\ packet'[d] = packet[d]
  BY <1>1 DEF GDBTypeOK
<1>3. \A d \in Contexts : client'[d] = "none" <=> client[d] = "none"
  BY <1>1, <1>2
<1>4. GDBTypeOK'
  BY <1>1 DEF GDBTypeOK
<1>5. HandlesAreOpen' /\ NextIsFree' /\ SpinsWithAll'
  BY <1>1, <1>3 DEF Live, HandlesAreOpen, HandleIsOpen, Quiet, NextIsFree, SpinsWithAll, GDBTypeOK
<1>6. ClientsHold'
  BY <1>1, <1>2 DEF ConstantsOK, Live, ClientsHold, ClientHolds, Held
<1>7. server.pc \in OfContext => server.c \in Contexts
  BY DEF Live, ServerKnows, ServerHasContext
<1>8. ServerHasContext' /\ AcceptsFree' /\ ClosesTold' /\ DetachesHeld'
  BY <1>1, <1>3, <1>7
     DEF Live, ServerKnows, ServerHasContext, OfContext, AcceptsFree, Held, ClosesTold, Told, Quiet, DetachesHeld
<1> QED  BY <1>4, <1>5, <1>6, <1>8 DEF Live, ServerKnows

\* A client sends a packet.
LEMMA SendKeeps ==
  ASSUME ConstantsOK, GDBTypeOK, Live, NEW c \in Contexts, NEW what \in Packets, Send(c, what), UNCHANGED overtaken
  PROVE  GDBTypeOK' /\ Live'
<1>1. /\ client[c] = "open" /\ packet' = [packet EXCEPT ![c] = what]
      /\ UNCHANGED <<ctx, attachedEvent, statusUpdated, statusUpdateReceived, shallTerminate, held, server,
                     monitor, menu, nextCtx, client>>
  BY DEF Send, contexts, handshake, others
<1>2. what = "attach" => "extended" \in ctx[c].flags /\ ctx[c].debug = None
  BY DEF Send
<1>3. GDBTypeOK'
  BY <1>1 DEF GDBTypeOK
<1>4. HandlesAreOpen' /\ NextIsFree' /\ SpinsWithAll'
  BY <1>1 DEF Live, HandlesAreOpen, HandleIsOpen, Quiet, NextIsFree, SpinsWithAll
<1>5. ClientsHold'
  BY <1>1, <1>2 DEF Live, ClientsHold, ClientHolds, Held, GDBTypeOK
<1>6. ServerHasContext' /\ AcceptsFree' /\ ClosesTold' /\ DetachesHeld'
  BY <1>1 DEF Live, ServerKnows, ServerHasContext, AcceptsFree, Held, ClosesTold, Told, Quiet, DetachesHeld
<1> QED  BY <1>3, <1>4, <1>5, <1>6 DEF Live, ServerKnows

-----------------------------------------------------------------------------
(* All steps.                                                              *)

\* Every step of the socket thread keeps the invariant.
LEMMA ServerKeeps ==
  ASSUME ConstantsOK, GDBTypeOK, Live, monitor.pc # "ended", ServerSteps
  PROVE  GDBTypeOK' /\ Live'
<1>1. CASE ServerContinues
  BY <1>1, AwaitsDebugKeeps, RegistersKeeps, AcceptClientKeeps, DetachesExtendedKeeps, CloseStartsKeeps,
     CloseCountsKeeps, CloseWaitsKeeps, CloseFreesKeeps, ServerAbortsKeeps, ServerEndsKeeps
     DEF ServerContinues
<1>2. CASE Listens
  <2>1. ASSUME NEW port \in ServerPorts, Refuse(port), UNCHANGED overtaken PROVE GDBTypeOK' /\ Live'
    BY <2>1, SameKeeps DEF Refuse, contexts, handshake, others
  <2> QED  BY <1>2, <2>1, AcceptKeeps DEF Listens
<1>3. ASSUME NEW c \in Contexts, Serves(c) PROVE GDBTypeOK' /\ Live'
  BY <1>3, ExtendedModeKeeps, AttachPacketKeeps, ContinueKeeps, BreakKeeps, ClosesKeeps, DetachPacketKeeps
     DEF Serves
<1> QED  BY <1>1, <1>2, <1>3 DEF ServerSteps

\* Every step of the monitor keeps it, or ends the monitor.
LEMMA MonitorKeeps ==
  ASSUME ConstantsOK, GDBTypeOK, Live, MonitorSteps
  PROVE  GDBServerInv'
<1>1. ASSUME MonitorEnds PROVE monitor'.pc = "ended"
  BY <1>1 DEF MonitorEnds, MonitorAt, GDBTypeOK
<1> QED  BY <1>1, SnapshotKeeps, WokenByStatusKeeps, WokenByContextKeeps, HandleStateKeeps, HandleEventKeeps
         DEF MonitorSteps, GDBServerInv

\* So do the menus and the task, ...
LEMMA MenuKeeps ==
  ASSUME ConstantsOK, GDBTypeOK, Live, monitor.pc # "ended", MenuSteps
  PROVE  GDBTypeOK' /\ Live'
<1>1. ASSUME FetchNext, UNCHANGED overtaken PROVE GDBTypeOK' /\ Live'
  BY <1>1, SameKeeps DEF FetchNext, contexts, handshake, peers
<1> QED  BY <1>1, SelectKeeps, UnselectKeeps, AskToCloseKeeps, ClosedKeeps, DebugNextApplicationKeeps, SetNextKeeps,
            DisableKeeps, DisabledKeeps DEF MenuSteps

\* ... and the clients, the processes and pm.
LEMMA EnvironmentKeeps ==
  ASSUME ConstantsOK, GDBTypeOK, Live, Environment
  PROVE  GDBTypeOK' /\ Live'
<1>1. ASSUME NEW port \in ServerPorts, Connect(port), UNCHANGED overtaken PROVE GDBTypeOK' /\ Live'
  BY <1>1, SameKeeps DEF Connect, contexts, handshake, others
<1>2. ASSUME NEW p \in Targets, StartOrEnd(p) \/ \E what \in {"auto", "stop", "exit"} : Happens(p, what),
             UNCHANGED overtaken
      PROVE  GDBTypeOK' /\ Live'
  BY <1>2, SameKeeps DEF StartOrEnd, Happens, contexts, handshake, others, peers
<1>3. ASSUME LaunchApp, UNCHANGED overtaken PROVE GDBTypeOK' /\ Live'
  BY <1>3, SameKeeps DEF LaunchApp, contexts, handshake, peers
<1> QED  BY <1>1, <1>2, <1>3, HangUpKeeps, SendKeeps DEF Environment

\* Nothing starts the monitor again.
LEMMA MonitorStaysEnded ==
  ASSUME monitor.pc = "ended", [GDBServerNext]_gdbsVars
  PROVE  monitor'.pc = "ended"
<1>1. ASSUME ServerSteps PROVE UNCHANGED monitor
  BY <1>1 DEF ServerSteps, ServerContinues, Listens, Serves, Takes, AwaitsDebug, Registers, AcceptClient,
              DetachesExtended, CloseStarts, CloseCounts, CloseWaits, CloseFrees, ServerAborts, ServerEnds, Refuse,
              Accept, ExtendedMode, AttachPacket, Continue, Break, Closes, DetachPacket
<1>2. ~MonitorSteps
  BY DEF MonitorSteps, Snapshot, WokenByStatus, WokenByContext, HandleState, HandleEvent, MonitorEnds
<1>3. ASSUME MenuSteps PROVE UNCHANGED monitor
  BY <1>3 DEF MenuSteps, Select, Unselect, AskToClose, Closed, DebugNextApplication, FetchNext, SetNext, Disable,
              Disabled
<1>4. ASSUME Environment PROVE UNCHANGED monitor
  BY <1>4 DEF Environment, Connect, HangUp, Send, StartOrEnd, Happens, LaunchApp
<1>5. ASSUME UNCHANGED gdbsVars PROVE UNCHANGED monitor
  BY <1>5 DEF gdbsVars
<1> QED  BY <1>1, <1>2, <1>3, <1>4, <1>5 DEF GDBServerNext

\* The invariant holds initially.
LEMMA InitInv ==
  ASSUME ConstantsOK, GDBServerInit
  PROVE  GDBServerInv
<1>1. Fresh \in Context
  BY DEF Fresh, Context, Flags, EveryFlag
<1>2. GDBTypeOK
  BY <1>1 DEF GDBServerInit, GDBTypeOK
<1>3. \A c \in Contexts : /\ ctx[c] = Fresh /\ client[c] = "none" /\ packet[c] = None
                          /\ c \notin attachedEvent
  BY DEF GDBServerInit
<1>4. HandlesAreOpen
  BY <1>3 DEF GDBServerInit, HandlesAreOpen, HandleIsOpen, Quiet, Fresh
<1>5. ClientsHold
  BY <1>3 DEF ConstantsOK, ClientsHold, ClientHolds, Fresh
<1>6. NextIsFree /\ ServerKnows /\ SpinsWithAll
  BY DEF GDBServerInit, NextIsFree, ServerKnows, ServerHasContext, OfContext, AcceptsFree, ClosesTold,
         DetachesHeld, SpinsWithAll
<1> QED  BY <1>2, <1>4, <1>5, <1>6 DEF GDBServerInv, Live

\* The invariant is inductive.
LEMMA NextInv ==
  ASSUME ConstantsOK, GDBServerInv, [GDBServerNext]_gdbsVars
  PROVE  GDBServerInv'
<1>1. CASE monitor.pc = "ended"
  BY <1>1, MonitorStaysEnded DEF GDBServerInv
<1>2. CASE monitor.pc # "ended" /\ UNCHANGED gdbsVars
  BY <1>2, SameKeeps DEF GDBServerInv, gdbsVars, contexts, handshake, others, peers
<1>3. CASE monitor.pc # "ended" /\ GDBServerNext
  BY <1>3, ServerKeeps, MonitorKeeps, MenuKeeps, EnvironmentKeeps DEF GDBServerNext, GDBServerInv
<1> QED  BY <1>1, <1>2, <1>3

\* The monitor never waits on a debug handle that has been closed: the handle of a
\* context is closed only once the monitor has read the contexts again and waits for
\* an event of the context instead, or while it cannot read them (gdb/server.c:203-240,
\* gdb/monitor.c:20-44), whatever the number of contexts and processes is.
THEOREM MonitorWaitsOnOpenHandles == GDBServerSafe => []WaitsOnOpenHandles
<1>1. GDBServerInit => GDBServerInv
  BY InitInv, ConstantsAssumption
<1>2. GDBServerInv /\ [GDBServerNext]_gdbsVars => GDBServerInv'
  BY NextInv, ConstantsAssumption
<1>3. GDBServerInv => WaitsOnOpenHandles
  BY ConstantsAssumption DEF ConstantsOK, GDBServerInv, GDBTypeOK, Live, HandlesAreOpen, HandleIsOpen, Quiet,
     WaitsOnOpenHandles
<1> QED  BY <1>1, <1>2, <1>3, PTL DEF GDBServerSafe
=============================================================================
