--------------------------- MODULE MCSMStructures ---------------------------
(***************************************************************************)
(* The data structures of sm on small instances: the ring buffers of       *)
(* SMNotifications and the linked lists of SMList.  They share no state,   *)
(* so a behaviour is about one of them only: part is chosen initially.     *)
(* The ring buffers are explored for the processes of pair, whose clients  *)
(* wait before they receive, and for one whose client also polls.          *)
(***************************************************************************)
EXTENDS SMNotifications, SMList, TLC

CONSTANTS p1, p2, p3, n1, n2, n3, n4

VARIABLE part

FourNodes == <<n1, n2, n3, n4>>
Parts == {{p1, p2}, {p3}, {}}
Symmetry == Permutations({p1, p2})

MCInit == Init /\ ListInit /\ part \in Parts

MCNext ==
  /\ \/ /\ part = {} /\ ListNext /\ UNCHANGED vars
     \/ /\ part # {} /\ Next /\ Elems(procs') \subseteq part
        /\ UNCHANGED <<heap, usedUp>>
  /\ UNCHANGED part

MCSpec == MCInit /\ [][MCNext]_<<vars, part, heap, usedUp>>
=============================================================================
