---------------------------- MODULE MCPMLaunch ------------------------------
(* An instance of PMLaunch: an applet and the system module it needs. *)
EXTENDS PMLaunch

CONSTANTS applet, modM, e1, e2, e3

OneDep == [t \in Titles |-> IF t = applet THEN <<modM>> ELSE <<>>]
ThreePool == <<e1, e2, e3>>
=============================================================================
