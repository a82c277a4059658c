------------------------------- MODULE SMList -------------------------------
(***************************************************************************)
(* The doubly linked lists of sysmodules/sm (list.c), link by link.        *)
(*                                                                         *)
(* A node knows its neighbours and its list; a list knows its two ends.    *)
(* The operators are the functions of list.c on that heap; the actions are *)
(* the uses the rest of sm makes of them, with the loops of services.c and *)
(* main.c that move nodes out of the list they walk through.               *)
(***************************************************************************)
EXTENDS Naturals, Sequences, FiniteSets, ListOps

CONSTANTS Nodes,     \* the pool, in order: a sequence of nodes
          Lists,     \* the lists that share the pool
          Free,      \* the list of free nodes
          Null

Pool == Elems(Nodes)

ASSUME NodesAssumption == /\ Nodes \in Seq(Pool) \ {<<>>} /\ Null \notin Pool /\ Free \in Lists
                          /\ \A i, j \in DOMAIN Nodes : Nodes[i] = Nodes[j] => i = j

VARIABLES heap,      \* prev, next, parent of the nodes; first, last of the lists
          usedUp     \* allocateNode has found no free node

\* buildList: the nodes of the pool in order.
Built ==
  LET at(i) == IF i \in DOMAIN Nodes THEN Nodes[i] ELSE Null
      index(n) == CHOOSE i \in DOMAIN Nodes : Nodes[i] = n
  IN [prev   |-> [n \in Pool |-> at(index(n) - 1)],
      next   |-> [n \in Pool |-> at(index(n) + 1)],
      parent |-> [n \in Pool |-> Free],
      first  |-> [l \in Lists |-> IF l = Free THEN Nodes[1] ELSE Null],
      last   |-> [l \in Lists |-> IF l = Free THEN Nodes[Len(Nodes)] ELSE Null]]
-----------------------------------------------------------------------------
(* moveNode.                                                               *)

\* f with value v at x, unless x is NULL.
Set(f, x, v) == IF x = Null THEN f ELSE [f EXCEPT ![x] = v]

\* The node is taken out of the list it is in.
Unlink(h, n) ==
  LET src == h.parent[n]
  IN [h EXCEPT !.next = Set(@, h.prev[n], h.next[n]),
               !.prev = Set(@, h.next[n], h.prev[n]),
               !.first[src] = IF @ = n THEN h.next[n] ELSE @,
               !.last[src] = IF @ = n THEN h.prev[n] ELSE @]

LinkBack(h, n, dst) ==
  [h EXCEPT !.next = [Set(@, h.last[dst], n) EXCEPT ![n] = Null],
            !.prev[n] = h.last[dst],
            !.last[dst] = n]

LinkFront(h, n, dst) ==
  [h EXCEPT !.prev = [Set(@, h.first[dst], n) EXCEPT ![n] = Null],
            !.next[n] = h.first[dst],
            !.first[dst] = n]

\* A list with one end has two: it was empty before.
Normalize(h, dst) ==
  [h EXCEPT !.last[dst] = IF h.first[dst] # Null /\ @ = Null THEN h.first[dst] ELSE @,
            !.first[dst] = IF @ = Null /\ h.last[dst] # Null THEN h.last[dst] ELSE @]

MoveNode(h, n, dst, back) ==
  IF h.parent[n] = dst THEN h
  ELSE LET out == Unlink(h, n)
           in == Normalize(IF back THEN LinkBack(out, n, dst)
                                   ELSE LinkFront(out, n, dst), dst)
       IN [in EXCEPT !.parent[n] = dst]

\* Mutant of TurnOfLoop: the node to go on with is read after the move.
TurnRereads(at, S, dst) ==
  LET moved == IF at.node \in S THEN MoveNode(at.heap, at.node, dst, TRUE) ELSE at.heap
  IN IF at.node = Null THEN at ELSE [heap |-> moved, node |-> moved.next[at.node]]

\* A turn of a loop that moves the nodes in S to the back of dst: the node to go on with
\* is read before the move, which changes its links.
TurnOfLoop(at, S, dst) ==
  IF at.node = Null THEN at
  ELSE [heap |-> IF at.node \in S THEN MoveNode(at.heap, at.node, dst, TRUE) ELSE at.heap,
        node |-> at.heap.next[at.node]]

\* The loop that starts at node n, after as many turns as the pool has nodes.
MoveLoop(h, n, S, dst) ==
  LET at[k \in 0 .. Len(Nodes)] ==
        IF k = 0 THEN [heap |-> h, node |-> n] ELSE TurnOfLoop(at[k - 1], S, dst)
  IN at[Len(Nodes)]
-----------------------------------------------------------------------------
ListInit == heap = Built /\ usedUp = FALSE

Move(n, dst, back) ==
  /\ heap' = MoveNode(heap, n, dst, back)
  /\ UNCHANGED usedUp

MoveMatching(src, dst, S) ==
  /\ src # dst
  /\ heap' = MoveLoop(heap, heap.first[src], S, dst).heap
  /\ UNCHANGED usedUp

\* allocateNode clears the node's data and keeps its links.
Allocate(dst, back) ==
  IF heap.first[Free] = Null
  THEN usedUp' = TRUE /\ UNCHANGED heap
  ELSE Move(heap.first[Free], dst, back)

ListNext ==
  \/ /\ ~usedUp
     /\ \/ \E n \in Pool, dst \in Lists, back \in BOOLEAN : Move(n, dst, back)
        \/ \E src, dst \in Lists, S \in SUBSET Pool : MoveMatching(src, dst, S)
        \/ \E dst \in Lists \ {Free} : Allocate(dst, FALSE)
  \/ usedUp /\ UNCHANGED <<heap, usedUp>>

ListSpec == ListInit /\ [][ListNext]_<<heap, usedUp>>
-----------------------------------------------------------------------------
(* Properties.                                                             *)

\* The nodes met from the first of a list on, along next; with one turn more than there are nodes.
Chain(h, l) ==
  LET Turns == 1 .. Len(Nodes) + 1
      met[k \in Turns] ==
        IF k = 1 THEN h.first[l] ELSE IF met[k - 1] = Null THEN Null ELSE h.next[met[k - 1]]
  IN [k \in {i \in Turns : met[i] # Null} |-> met[k]]

\* The links implement sequences that partition the pool: a node is in one list,
\* met in the same order in both directions, and moveNode, which trusts a node's
\* own pointers (list.c:42), moves it and nothing else.  A loop ends, and moves all the
\* nodes it selects, in their order.
Sequence == INSTANCE NodeLists WITH
  Nodes <- Pool, list <- [l \in Lists |-> Chain(heap, l)]

ListsAreSequences ==
  /\ Sequence!LInit
  /\ [][heap' # heap =>
          /\ Sequence!LNext
          /\ \A src, dst \in Lists, S \in SUBSET Pool :
                MoveMatching(src, dst, S) =>
                   /\ Sequence!MoveAll(src, dst, {n \in S : heap.parent[n] = src})
                   /\ MoveLoop(heap, heap.first[src], S, dst).node = Null]_heap
=============================================================================
