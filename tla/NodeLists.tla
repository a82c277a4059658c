----------------------------- MODULE NodeLists ------------------------------
(***************************************************************************)
(* What sm's linked lists promise: the nodes of a pool are partitioned     *)
(* into sequences; a node moves to the front or the back of another list,  *)
(* a loop over a list moves a selection of it in order, and a node is      *)
(* allocated from the front of the free list.                              *)
(***************************************************************************)
EXTENDS Naturals, Sequences, FiniteSets, ListOps

CONSTANTS Nodes, Lists, Free

VARIABLE list   \* per list: its nodes in order

LInit ==
  /\ \A l \in Lists \ {Free} : list[l] = <<>>
  /\ Len(list[Free]) = Cardinality(Nodes) /\ Elems(list[Free]) = Nodes

Move(n, dst, back) ==
  \E src \in Lists \ {dst} : \E i \in DOMAIN list[src] :
     /\ list[src][i] = n
     /\ list' = [list EXCEPT ![src] = WithoutIndex(@, i),
                             ![dst] = IF back THEN Append(@, n) ELSE <<n>> \o @]

MoveAll(src, dst, S) ==
  /\ src # dst /\ S \subseteq Elems(list[src])
  /\ \E moved \in InOrder(list[src], S), rest \in InOrder(list[src], Elems(list[src]) \ S) :
        list' = [list EXCEPT ![src] = rest, ![dst] = @ \o moved]

Allocate(dst) ==
  /\ list[Free] # <<>>
  /\ list' = [list EXCEPT ![Free] = Tail(@), ![dst] = <<Head(list[Free])>> \o @]

LNext ==
  \/ \E n \in Nodes, dst \in Lists, back \in BOOLEAN : Move(n, dst, back)
  \/ \E src, dst \in Lists : \E S \in SUBSET Nodes : MoveAll(src, dst, S)
  \/ \E dst \in Lists \ {Free} : Allocate(dst)

LSpec == LInit /\ [][LNext]_list
=============================================================================
