------------------------------ MODULE PXICalls ------------------------------
(***************************************************************************)
(* What pxi promises: the command of a session goes to ARM9 once, ARM9     *)
(* answers it once, and then its reply goes back to the client.            *)
(***************************************************************************)
CONSTANT Services

VARIABLE place   \* where the command of a session is

Init == place = [s \in Services |-> "none"]

Moves(s, from, to) == place[s] = from /\ place' = [place EXCEPT ![s] = to]

Ask(s)    == Moves(s, "none", "asked")
Send(s)   == Moves(s, "asked", "atARM9")
Answer(s) == Moves(s, "atARM9", "answered")
Return(s) == Moves(s, "answered", "none")

Next == \E s \in Services : Ask(s) \/ Send(s) \/ Answer(s) \/ Return(s)

Spec == Init /\ [][Next]_place
=============================================================================
