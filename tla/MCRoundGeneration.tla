------------------------- MODULE MCRoundGeneration --------------------------
(* Small instances of RoundGeneration: days of 4 hours, weeks of 5 days,   *)
(* two days ahead, and zones east and west of UTC that change their offset *)
(* during the behaviour.                                                   *)
EXTENDS RoundGeneration, TLC

CONSTANTS g1, g2, i1, i2

Rule(at, before, after) == [at |-> at, before |-> before, after |-> after]

(* "east" springs forward at midnight, between days 1 and 2; "west" falls  *)
(* back at hour 2 of day 1; "gap" is a western zone that springs forward   *)
(* at midnight, between days 1 and 2, as America/Santiago does.            *)
MCZoneRule == [z \in {"utc", "east", "west"} |->
                 CASE z = "utc"  -> Rule(0, 0, 0)
                   [] z = "east" -> Rule(7, 1, 2)
                   [] z = "west" -> Rule(7, -1, -2)]
MCGapRule  == [z \in {"gap"} |-> Rule(10, -2, -1)]

Def(zone, offDays, active) ==
    [active |-> active, open |-> 1, close |-> 3, offDays |-> offDays,
     zone |-> zone]

MCZones  == {"utc", "east", "west", "gap", "mars"}
MCDays   == 0..5
MCFewDays == 1..3
MCWorld  == {Def(z, {2}, TRUE) : z \in {"east", "west", "mars"}}
MCEdited == {Def("east", {}, TRUE), Def("west", {2}, TRUE),
             Def("east", {}, FALSE), [Def("east", {2}, TRUE) EXCEPT !.open = 2]}
MCGap    == {Def("gap", {}, TRUE)}

Symmetry == Permutations(Instances)
=============================================================================
