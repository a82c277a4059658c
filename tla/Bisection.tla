------------------------------ MODULE Bisection ------------------------------
(***************************************************************************)
(* The binary search over a table that is sorted by address, which         *)
(* k11_extension (ipc.c) and Rosalina's debugger (gdb/breakpoints.c) have  *)
(* in the same words.                                                      *)
(***************************************************************************)
EXTENDS Naturals, Sequences

Middle(bounds) == (bounds[1] + bounds[2]) \div 2

\* What one turn of the loop leaves of the bounds a and b.
Narrowed(keys, key, bounds) ==
  << IF keys[Middle(bounds)] < key THEN Middle(bounds) ELSE bounds[1],
     IF keys[Middle(bounds)] > key THEN Middle(bounds) ELSE bounds[2] >>

Bounds(keys) == (DOMAIN keys) \X (DOMAIN keys)

\* The loop, from any bounds.
Bisect(keys, key) ==
  LET slot[bounds \in Bounds(keys)] ==
        LET next == Narrowed(keys, key, bounds)
        IN IF keys[Middle(bounds)] = key THEN Middle(bounds)
           ELSE IF next[2] > next[1] + 1 THEN slot[next] ELSE next[2]
  IN slot

\* The first slot whose key is not below the key; slots count from 1.
ClosestSlot(keys, key) ==
  IF keys = <<>> \/ key <= keys[1] THEN 1
  ELSE IF key > keys[Len(keys)] THEN Len(keys) + 1
  ELSE Bisect(keys, key)[<<1, Len(keys)>>]
=============================================================================
