------------------------------ MODULE SMLookup ------------------------------
(***************************************************************************)
(* What the service manager promises to a client that looks up a service   *)
(* or a named port, without sessions lists, semaphores or replayed         *)
(* commands: a lookup of a service that is not registered is neither       *)
(* granted nor refused, it waits; answers are given one at a time, and the *)
(* registry does not change between the decision and the delivery.         *)
(***************************************************************************)
CONSTANTS Clients, Kinds, Names, None

VARIABLES registry,  \* the [kind, name] pairs registered
          asked,     \* per client: the lookup that waits
          answer     \* per client: the answer on its way

lookupVars == <<registry, asked, answer>>

Entry == [kind : Kinds, name : Names]

Quiet == \A c \in Clients : answer[c] = None

LookupInit ==
  /\ registry = {}
  /\ asked = [c \in Clients |-> None]
  /\ answer = [c \in Clients |-> None]

\* A client's lookup has to wait.
Postpone(c, e) ==
  /\ Quiet /\ asked[c] = None
  /\ e.kind = "port" => e \notin registry
  /\ asked' = [asked EXCEPT ![c] = e]
  /\ UNCHANGED <<registry, answer>>

\* A lookup, new or waiting, is answered: granted only when registered; a
\* service is refused only when it is registered but cannot be reached, a port
\* only when it is not registered.
Decide(c, e, a) ==
  /\ Quiet /\ asked[c] \in {None, e}
  /\ \/ a = "granted" /\ e \in registry
     \/ a = "refused" /\ (e \in registry <=> e.kind = "service")
  /\ asked' = [asked EXCEPT ![c] = None]
  /\ answer' = [answer EXCEPT ![c] = a]
  /\ UNCHANGED registry

\* The client gets the answer, or is gone.
Deliver(c) ==
  /\ answer[c] # None
  /\ answer' = [answer EXCEPT ![c] = None]
  /\ UNCHANGED <<registry, asked>>

Register(e) ==
  /\ Quiet /\ e \notin registry
  /\ registry' = registry \cup {e}
  /\ UNCHANGED <<asked, answer>>

Unregister ==
  /\ Quiet
  /\ registry' \in SUBSET registry
  /\ UNCHANGED <<asked, answer>>

LookupNext ==
  \/ \E c \in Clients : \E e \in Entry :
        Postpone(c, e) \/ \E a \in {"granted", "refused"} : Decide(c, e, a)
  \/ \E c \in Clients : Deliver(c)
  \/ \E e \in Entry : Register(e)
  \/ Unregister

LookupSpec == LookupInit /\ [][LookupNext]_lookupVars
=============================================================================
