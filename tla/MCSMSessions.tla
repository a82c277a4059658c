---------------------------- MODULE MCSMSessions ----------------------------
(***************************************************************************)
(* SMSessions on small instances.  MCSpec explores two of them, part being *)
(* chosen initially: one name in everything sm serves, and two names, of   *)
(* which one is the beginning of the other, among named ports alone.       *)
(***************************************************************************)
EXTENDS SMSessions, TLC

CONSTANTS s1, s2, s3, p1, p2, q1, q2

VARIABLE part

OneName  == INSTANCE SMSessions WITH Names <- {"a"}, Begins <- {}
Prefixes == INSTANCE SMSessions WITH
  Begins <- {<<"a", "ab">>}, Kinds <- {"port"}, MaxProcesses <- 0

MCInit == Init /\ part \in {"one name", "prefixes"}

MCNext ==
  /\ \/ part = "one name" /\ OneName!Next
     \/ part = "prefixes" /\ Prefixes!Next
  /\ UNCHANGED part

MCSpec == MCInit /\ [][MCNext]_<<vars, part>>

MCFairSpec == MCSpec /\ Fairness

Symmetry == Permutations(Slots) \cup Permutations(Pids) \cup Permutations(Ports)
=============================================================================
