----------------------------- MODULE MCSessions -----------------------------
(* A small instance of Sessions: two accounts that share one browser, with *)
(* a session of each in it, one by the Player portal's cookie and one by   *)
(* the Agent portal's.  A call without X-Portal looks for the base name    *)
(* and finds either.                                                       *)
EXTENDS Sessions, TLC

CONSTANTS u1, u2, b1, o1, o2, c1, c2

MCOwner0 == [s \in Old |-> IF s = o1 THEN u1 ELSE u2]
MCJar0   == [b \in Browsers |-> [n \in Names |->
                CASE n = "player" -> o1 [] n = "agent" -> o2 [] OTHER -> None]]

Symmetry == Permutations(Calls)
=============================================================================
