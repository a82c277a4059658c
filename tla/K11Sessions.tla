----------------------------- MODULE K11Sessions -----------------------------
(***************************************************************************)
(* The table of named sessions of k11_extension (ipc.c): sessionInfos is   *)
(* sorted by the address of the session, the hooks of ConnectToPort and of *)
(* srv:'s GetServiceHandle add to it, and the destructor of a session that *)
(* was hooked removes it.  Commands are rewritten by the name found here.  *)
(***************************************************************************)
EXTENDS Naturals, Sequences, SequencesExt, Bisection

CONSTANTS SessionAddresses,  \* where the kernel allocates sessions: a set of numbers
          Names,             \* names of ports and services
          MaxSession         \* MAX_SESSION

SessionConstantsOK == SessionAddresses \subseteq Nat /\ MaxSession \in Nat

VARIABLES
  sessionInfos,  \* the entries in use: sequences of [session, name]
  vtable,        \* of each address: "free", "own" (the kernel's), "hooked"
                 \* (customSessionVtable, to be listed), "custom" (and listed, if there
                 \* was room), or "ended": destroyed, still listed
  opened         \* the name a hooked session was opened with

kvars == <<sessionInfos, vtable, opened>>

nbActiveSessions == Len(sessionInfos)
-----------------------------------------------------------------------------
Sessions(infos) == [i \in DOMAIN infos |-> infos[i].session]

\* Mutant of FindClosestSlot: it stops one short of the end.
FindSlotBefore(infos, session) ==
  IF infos = <<>> \/ session <= Head(infos).session THEN 1
  ELSE IF session > Last(infos).session THEN Len(infos)
  ELSE Bisect(Sessions(infos), session)[<<1, Len(infos)>>]

\* SessionInfo_FindClosestSlot; positions count from 1.
FindClosestSlot(infos, session) == ClosestSlot(Sessions(infos), session)

NoName == "none"

HasCustomVtable(session) == vtable[session] \in {"hooked", "custom"}

\* SessionInfo_Lookup: the name under which commands of a session are handled.
Lookup(session) ==
  LET id == FindClosestSlot(sessionInfos, session)
  IN IF id > nbActiveSessions \/ ~HasCustomVtable(sessionInfos[id].session)
     THEN NoName ELSE sessionInfos[id].name

\* What SessionInfo_Add does to the table, under the locks.
Added(session, name) ==
  LET id == FindClosestSlot(sessionInfos, session)
      present == id <= nbActiveSessions /\ sessionInfos[id].session = session
  IN IF nbActiveSessions = MaxSession \/ present THEN sessionInfos
     ELSE InsertAt(sessionInfos, id, [session |-> session, name |-> name])

\* SessionInfo_Remove: a full table is left alone, and the closest slot is not
\* compared with the session.
Removed(session) ==
  LET id == FindClosestSlot(sessionInfos, session)
  IN IF nbActiveSessions = MaxSession \/ id > nbActiveSessions THEN sessionInfos
     ELSE RemoveAt(sessionInfos, id)
-----------------------------------------------------------------------------
SessionsInit ==
  /\ sessionInfos = <<>>
  /\ vtable = [s \in SessionAddresses |-> "free"]
  /\ opened = [s \in SessionAddresses |-> NoName]

\* A session is opened through a port or through srv:, and its vtable changed, which is
\* done without the locks.
Open(s, name) ==
  /\ vtable[s] = "free"
  /\ vtable' = [vtable EXCEPT ![s] = "hooked"]
  /\ opened' = [opened EXCEPT ![s] = name]
  /\ UNCHANGED sessionInfos

\* The hook takes the locks and lists the session.
Add(s) ==
  /\ vtable[s] = "hooked"
  /\ vtable' = [vtable EXCEPT ![s] = "custom"]
  /\ sessionInfos' = Added(s, opened[s])
  /\ UNCHANGED opened

\* A session that no hook sees: made by svcCreateSession, or got in a reply.
Create(s) ==
  /\ vtable[s] = "free"
  /\ vtable' = [vtable EXCEPT ![s] = "own"]
  /\ UNCHANGED <<sessionInfos, opened>>

\* The last handle is closed, and the hook that lists the session has let go of it: the
\* original destructor runs first, and its hook takes the session off the table
\* afterwards, under the locks.
Destroy(s) ==
  /\ vtable[s] \in {"own", "custom"}
  /\ vtable' = [vtable EXCEPT ![s] = IF @ = "custom" THEN "ended" ELSE "free"]
  /\ UNCHANGED <<sessionInfos, opened>>

HookRemoves(s) ==
  /\ vtable[s] = "ended"
  /\ vtable' = [vtable EXCEPT ![s] = "free"]
  /\ opened' = [opened EXCEPT ![s] = NoName]
  /\ sessionInfos' = Removed(s)

SessionsNext ==
  \E s \in SessionAddresses :
    \/ \E name \in Names : Open(s, name)
    \/ Add(s) \/ Create(s) \/ Destroy(s) \/ HookRemoves(s)

SessionsSpec == SessionsInit /\ [][SessionsNext]_kvars
-----------------------------------------------------------------------------
\* The binary search over a table that others change finds the name each session
\* was opened with once its hook has returned, and nothing is listed that has been
\* destroyed and removed.  Only until the table has been full: from then on nothing is
\* removed or added, and names of reused addresses are those of sessions long gone.
HookedSessionsAreListed ==
  nbActiveSessions < MaxSession =>
    /\ \A s \in SessionAddresses : vtable[s] = "custom" => Lookup(s) = opened[s]
    /\ \A i \in 1 .. nbActiveSessions :
          vtable[sessionInfos[i].session] \in {"custom", "ended"}
=============================================================================
