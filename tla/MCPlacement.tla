----------------------------- MODULE MCPlacement -----------------------------
(* Small instances of Placement: two Players of one Agent, an account that *)
(* is no Player's, and one game whose round opens at 2 and closes at 3,    *)
(* with a buffer of 2 and a request deadline of 1.                         *)
EXTENDS PlayerViews, PooledPlacement, TLC

CONSTANTS p1, p2, staff, agent, boss, g1

MCUsers   == {p1, p2}
MCOneUser == {p1}
MCStaff   == {p1, p2, staff}
MCAgents  == {agent}
MCAdmins  == {boss}
MCGames   == {g1}
MCAgentOf == [u \in Users |-> agent]
MCAdminOf == [a \in Agents |-> boss]
MCOpensAt == [g \in Games |-> 2]
MCClosesAt == [g \in Games |-> 3]
MCMinStake == [g \in Games |-> 1]
MCMaxStake == [g \in Games |-> 4]
MCAgentless == [u \in Users |-> IF u = staff THEN None ELSE agent]

Priced(m) == [f \in Families |-> m]

MCNoOverride == [p \in Players |-> Priced(NoRate)]
(* p1 has a rate of its own for one family, p2 has none.                   *)
MCOwnRate    == [p \in Players |->
                    [f \in Families |->
                        IF p = p1 /\ f = "JODI" THEN 3 ELSE NoRate]]
MCGiving     == [a \in Agents |-> Priced(2)]
MCGiven      == [a \in Agents |-> Priced(3)]
MCOpening    == [u \in Users |-> [w \in Wallets |-> 2]]
MCDeltas     == {-1, 2}
MCNoDeltas   == {}
MCPageSizes  == {1, 3}

(* Either the rates change, before any request of any kind, or time passes *)
(* and offers close, before a bet of stake 3 at the rates of the start.    *)
RatesOrClosings ==
    \/ clock = 0 /\ \A g \in Games :
          /\ inactive[g] = Never /\ cancelled[g] = Never
          /\ \A a \in Admins : disabled[g][a] = Never
          /\ \A s \in Sides : published[g][s] = Never
    \/ rates = <<Giving0, Given0>> /\ \A r \in Requests : StakeOf(r) = 3

Symmetry == Permutations(Requests)
=============================================================================
