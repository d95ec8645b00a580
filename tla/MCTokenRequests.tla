--------------------------- MODULE MCTokenRequests ---------------------------
(* Small instances of TokenRequests: two Players, two create calls and     *)
(* one or two cancels.                                                     *)
EXTENDS TokenRequests, TLC

CONSTANTS p1, p2

MCUsers    == {p1, p2}
MCOneUser  == {p1}
MCOpening  == [u \in Users |-> 1]

Symmetry == Permutations(Creates) \cup Permutations(Cancels)
=============================================================================
