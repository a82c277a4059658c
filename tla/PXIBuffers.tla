----------------------------- MODULE PXIBuffers -----------------------------
(***************************************************************************)
(* The static buffers of sysmodules/pxi (sender.c): the kernel copies what *)
(* a command refers to into the buffers that are provided, from the lowest *)
(* on, and they belong to the command until it is answered.  The masks of  *)
(* the code are sets here.  When commands come and are answered is what    *)
(* PXISessions says; here any service that is idle may send one.           *)
(***************************************************************************)
EXTENDS Integers, FiniteSets

CONSTANTS Users,   \* the services
          NB,      \* NB_STATIC_BUFFERS, 21 in the code
          needs    \* nbStaticBuffersByService

Buffers == 0 .. NB - 1

ASSUME NeedsAssumption == needs \in [Users -> 0 .. 4]
ASSUME NBAssumption == NB \in Nat

VARIABLES
  free,       \* freeStaticBuffers
  provided,   \* currentlyProvidedStaticBuffers
  used,       \* usedStaticBuffers of each session
  busy        \* the services whose command is not answered

bufferVars == <<free, provided, used, busy>>

\* What clearMSBs(set, n) clears.
Highest(n, set) == {b \in set : Cardinality({c \in set : c > b}) < n}

\* acquireStaticBuffers, from these free buffers.
Acquire(available) ==
  /\ provided' = Highest(4, available)
  /\ free' = available \ Highest(4, available)

BuffersInit ==
  /\ provided = Highest(4, Buffers)
  /\ free = Buffers \ Highest(4, Buffers)
  /\ used = [s \in Users |-> {}]
  /\ busy = {}

\* Mutant of Take: the buffers that the command does not need stay provided too.
TakeAll(s) ==
  /\ s \notin busy /\ busy' = busy \cup {s}
  /\ used' = [used EXCEPT ![s] = provided \ Highest(4 - needs[s], provided)]
  /\ Acquire(free \cup provided)

\* A command: the highest buffers, which it does not need, are free again.
Take(s) ==
  LET unneeded == Highest(4 - needs[s], provided)
  IN /\ s \notin busy /\ busy' = busy \cup {s}
     /\ used' = [used EXCEPT ![s] = provided \ unneeded]
     /\ Acquire(free \cup unneeded)

\* A reply: the buffers of the session are free again (at most 4), and the ones
\* that are provided stay the same.
Reply(s) ==
  /\ s \in busy /\ busy' = busy \ {s}
  /\ free' = free \cup Highest(4, used[s])
  /\ used' = [used EXCEPT ![s] = @ \ Highest(4, used[s])]
  /\ UNCHANGED provided

BuffersNext == \E s \in Users : Take(s) \/ Reply(s)

BuffersSpec == BuffersInit /\ [][BuffersNext]_bufferVars
-----------------------------------------------------------------------------
\* No buffer is lost and none is in two places, however the commands and the
\* replies are ordered (sender.c:70-83: the masks are updated apart).
Partition ==
  /\ free \cup provided \cup UNION {used[s] : s \in Users} = Buffers
  /\ free \cap provided = {}
  /\ \A s \in Users :
       /\ used[s] \cap (free \cup provided) = {}
       /\ \A t \in Users \ {s} : used[s] \cap used[t] = {}

=============================================================================
