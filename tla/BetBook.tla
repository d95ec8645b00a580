------------------------------- MODULE BetBook -------------------------------
(***************************************************************************)
(* What prediction.Place promises, "a bet, or ... without moving any       *)
(* tokens" (place.go:59-67), with none of its statements, reads, locks or  *)
(* deadlines: a bet is taken in one step, once, at a price its payout can  *)
(* bear, and paid for in full, from the main wallet first.  Module         *)
(* Placement is shown to implement it.                                     *)
(***************************************************************************)
EXTENDS Integers

CONSTANTS
    Requests, Users, Wallets,
    Orders,     \* what a request may ask for: user, stake and more
    Players,    \* the accounts that may bet
    Opening,    \* the wallets at the start
    Odds, MaxPayout,
    Deltas      \* the amounts that others move in a wallet

NotTaken == 0   \* the price of an order that is no bet

VARIABLES
    wallets,    \* [Users -> [Wallets -> Nat]]
    orders,     \* [Requests -> Orders]
    price       \* the multiplier of each bet taken

book == <<wallets, orders, price>>

Init ==
    /\ wallets = Opening
    /\ orders \in [Requests -> Orders]
    /\ price = [r \in Requests |-> NotTaken]

(* wallets with main tokens and won tokens taken from those of user u.     *)
Paid(u, main, won) ==
    [wallets EXCEPT ![u] =
        [w \in Wallets |-> @[w] - IF w = "MAIN" THEN main ELSE won]]

Take(r) ==
    LET u == orders[r].user
        s == orders[r].stake
    IN  /\ u \in Players
        /\ s > 0
        /\ price[r] = NotTaken
        /\ \E m \in Odds : s * m <= MaxPayout
                           /\ price' = [price EXCEPT ![r] = m]
        /\ \E main \in 0..wallets[u]["MAIN"] :
              /\ s - main \in 0..wallets[u]["WINNINGS"]
              /\ s - main > 0 => main = wallets[u]["MAIN"]
              /\ wallets' = Paid(u, main, s - main)
        /\ UNCHANGED orders

(* A payout, an approved request or an adjustment of core-service.         *)
Move(u, w, d) ==
    /\ wallets[u][w] + d >= 0
    /\ wallets' = [wallets EXCEPT ![u][w] = @ + d]
    /\ UNCHANGED <<orders, price>>

Next ==
    \/ \E r \in Requests : Take(r)
    \/ \E u \in Users, w \in Wallets, d \in Deltas : Move(u, w, d)

Spec == Init /\ [][Next]_book

=============================================================================
