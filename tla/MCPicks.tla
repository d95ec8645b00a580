------------------------------- MODULE MCPicks -------------------------------
(* Every text of up to three digits; every text of up to five characters   *)
(* of a smaller alphabet, dashes and other bytes included; and those of    *)
(* six to eight that a sangam may be mistaken for.                         *)
EXTENDS Picks, SequencesExt

MCTexts ==
    SeqOf(0..9, 3)
      \cup SeqOf({0, 1, 2, Dash, Other}, 5)
      \cup UNION {[1..n -> {0, 1, Dash}] : n \in 6..8}
=============================================================================
