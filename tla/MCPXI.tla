------------------------------- MODULE MCPXI --------------------------------
(***************************************************************************)
(* Small instances of PXISessions and PXIBuffers.  They share no state, so *)
(* a behaviour is about one of them only: part is chosen initially.        *)
(***************************************************************************)
EXTENDS PXISessions, PXIBuffers

VARIABLE part

\* The needs of four services: nbStaticBuffersByService holds 0, 1, 2 and 4.
FewNeeds == [s \in 0 .. 3 |-> CASE s = 0 -> 0 [] s = 1 -> 2 [] s = 2 -> 1 [] OTHER -> 4]

NoNeeds == [s \in {0} |-> 0]

MCInit == Init /\ BuffersInit /\ part \in {"sessions", "buffers"}

MCNext ==
  /\ \/ part = "sessions" /\ Next /\ UNCHANGED bufferVars
     \/ part = "buffers" /\ BuffersNext /\ UNCHANGED vars
  /\ UNCHANGED part

MCSpec == MCInit /\ [][MCNext]_<<vars, bufferVars, part>> /\ Fairness
=============================================================================
