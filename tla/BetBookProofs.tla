---------------------------- MODULE BetBookProofs ----------------------------
(***************************************************************************)
(* The proof that Placement implements BetBook: whatever runs at the same  *)
(* time and whatever fails, what happens to the wallets and the bets is    *)
(* what would happen if every call of Place were one atomic step.          *)
(*                                                                         *)
(* Its linearization point is the COMMIT.  What was computed earlier still *)
(* holds there: the split of the stake by WalletInv (the row lock), the    *)
(* bound on the payout by TimeInv, and that the multiplier came out of     *)
(* rates by OddsInv.  Over a pool of connections the same holds, and those *)
(* who wait never wait for each other.                                     *)
(***************************************************************************)
EXTENDS PlacementLedgerProofs, PooledPlacement, FiniteSetTheorems

(* What Place has read as the multiplier is a rate that may be given.      *)
OddsInv == \A r \in Requests : odds[r] \in Odds \cup {NoRate}

BookInv == WalletInv /\ TimeInv /\ OddsInv

Prices == [r \in Requests |-> PriceOf(r)]

-----------------------------------------------------------------------------
LEMMA NextOddsInv == ASSUME TypeInv, OddsInv, [Next]_vars PROVE OddsInv'
  <1>1. ASSUME NEW q \in Requests, ReadPlaying(q) \/ ReadGiving(q)
        PROVE  OddsInv'
    <2>1. /\ UserOf(q) \in Players /\ FamilyOf(q) \in Families
          /\ AgentOf[UserOf(q)] \in Agents
      BY <1>1, AdmittedFacts DEF ReadPlaying, ReadGiving, Open
    <2>2. /\ Playing[UserOf(q)][FamilyOf(q)] \in Odds \cup {NoRate}
          /\ giving[AgentOf[UserOf(q)]][FamilyOf(q)] \in Odds \cup {NoRate}
      BY <2>1, PlacementAssumption DEF TypeInv, TypeOK
    <2>3. PICK m \in Odds \cup {NoRate} :
             UNCHANGED odds \/ odds' = [odds EXCEPT ![q] = m]
      BY <1>1, <2>2 DEF ReadPlaying, ReadGiving, Quote
    <2> QED BY <2>3 DEF OddsInv, TypeInv, TypeOK
  <1>2. ASSUME NEW q \in Requests,
               \/ Receive(q) \/ LookupRound(q) \/ ReadGiven(q) \/ Begin(q)
               \/ LockWallets(q) \/ Debit(q) \/ InsertPrediction(q)
               \/ WriteLedger(q) \/ Commit(q) \/ CommitUnacknowledged(q)
               \/ Fail(q)
        PROVE  UNCHANGED odds
    BY <1>2 DEF Receive, LookupRound, ReadGiven, Begin, LockWallets, Debit,
       InsertPrediction, WriteLedger, Commit, CommitUnacknowledged, Fail
  <1>3. CASE Others \/ UNCHANGED vars
    BY <1>3 DEF Others, Tick, Crash, GenerateRound, SetGameStatus, CancelRound,
       SetEnablement, SubmitResult, SetRates, CoreDelta, requests, vars, OddsInv
  <1> QED BY <1>1, <1>2, <1>3 DEF Next, Advance, Done, OddsInv

LEMMA BookInvariant == Spec => []BookInv
  <1>1. Init => OddsInv
    BY DEF Init, OddsInv
  <1>2. TypeInv /\ OddsInv /\ [Next]_vars => OddsInv'
    BY NextOddsInv
  <1>3. WalletInv => TypeInv
    BY DEF WalletInv
  <1> QED BY <1>1, <1>2, <1>3, WalletInvInvariant, TimeInvariant, PTL
          DEF Spec, BookInv

-----------------------------------------------------------------------------
(* A COMMIT, acknowledged or not, takes one bet of the book.               *)

LEMMA PublishPrices ==
    ASSUME BookInv, NEW r \in Requests, pc[r] = "commit", Publish(r),
           UNCHANGED arg
    PROVE  /\ Prices[r] = NoRate
           /\ odds[r] \in Odds /\ StakeOf(r) * odds[r] <= MaxPayout
           /\ Prices' = [Prices EXCEPT ![r] = odds[r]]
  <1>1. bets[r] = NoBet /\ Timely(r) /\ odds[r] \in Odds \cup {NoRate}
    BY DEF BookInv, WalletInv, TxInv, Own, TimeInv, OddsInv
  <1>2. Quoted(r, odds[r])
    BY <1>1 DEF Timely, Open, Quoting
  <1>3. /\ bets' = [bets EXCEPT ![r] = [at |-> clock, odds |-> odds[r],
                                        agentOdds |-> agentOdds[r]]]
        /\ bets \in [Requests -> Bet \cup {NoBet}] /\ clock \in Nat
    BY DEF Publish, BookInv, WalletInv, TypeInv, TypeOK, Time
  <1>4. bets'[r].odds = odds[r] /\ bets'[r] # NoBet
    <2>1. bets'[r].at = clock /\ bets'[r].odds = odds[r]
      BY <1>3
    <2>2. NoBet.at = -1
      BY DEF NoBet, Never
    <2>3. clock # -1
      BY <1>3
    <2> QED BY <2>1, <2>2, <2>3
  <1>5. ASSUME NEW q \in Requests
        PROVE  PriceOf(q)' = IF q = r THEN odds[r] ELSE PriceOf(q)
    BY <1>3, <1>4 DEF PriceOf
  <1>6. Prices' = [Prices EXCEPT ![r] = odds[r]]
    BY <1>5 DEF Prices
  <1> QED BY <1>1, <1>2, <1>6 DEF Prices, PriceOf, Quoted

LEMMA PublishWallets ==
    ASSUME BookInv, NEW r \in Requests, pc[r] = "commit", Publish(r),
           NEW main, main = leg[r]["MAIN"]
    PROVE  /\ main \in 0..balance[UserOf(r)]["MAIN"]
           /\ StakeOf(r) - main \in 0..balance[UserOf(r)]["WINNINGS"]
           /\ StakeOf(r) - main > 0 => main = balance[UserOf(r)]["MAIN"]
           /\ balance' = [balance EXCEPT ![UserOf(r)] =
                 [w \in Wallets |-> @[w] - IF w = "MAIN" THEN main
                                           ELSE StakeOf(r) - main]]
  <1> DEFINE u == UserOf(r)
  <1>1. TypeInv /\ TxInv
    BY DEF BookInv, WalletInv
  <1>2. /\ u \in Users /\ StakeOf(r) \in Nat \ {0}
        /\ balance[u] \in Amount /\ leg[r] \in Amount
        /\ StakeOf(r) <= Total(balance[u])
    BY <1>1, AdmittedFacts DEF Open, TypeInv, TypeOK, TxInv, Own, Holding
  <1>3. /\ leg[r] = Split(balance[u], StakeOf(r))
        /\ main + leg[r]["WINNINGS"] = StakeOf(r)
        /\ leg[r]["WINNINGS"] > 0 => main = balance[u]["MAIN"]
        /\ \A w \in Wallets : balance'[u][w] = balance[u][w] - leg[r][w]
        /\ \A v \in Users \ {u} : balance'[v] = balance[v]
    BY <1>1, PublishFacts
  <1>4. \A w \in Wallets : leg[r][w] <= balance[u][w]
    BY <1>2, <1>3, SplitFacts
  <1>5. \A w \in Wallets : leg[r][w] \in Nat /\ balance[u][w] \in Nat
    BY <1>2 DEF Amount
  <1>6. /\ leg[r]["MAIN"] \in Nat /\ leg[r]["WINNINGS"] \in Nat
        /\ balance[u]["MAIN"] \in Nat /\ balance[u]["WINNINGS"] \in Nat
        /\ leg[r]["MAIN"] <= balance[u]["MAIN"]
        /\ leg[r]["WINNINGS"] <= balance[u]["WINNINGS"]
    BY <1>4, <1>5 DEF Wallets
  <1>7. StakeOf(r) - main = leg[r]["WINNINGS"]
    BY <1>2, <1>3, <1>6
  <1>8. balance' = [balance EXCEPT ![u] =
                 [w \in Wallets |-> @[w] - IF w = "MAIN" THEN main
                                           ELSE StakeOf(r) - main]]
    <2> DEFINE left == [w \in Wallets |-> balance[u][w] -
                          IF w = "MAIN" THEN main ELSE StakeOf(r) - main]
    <2>1. balance'[u] = left
      <3>1. balance' \in [Users -> Amount]
        BY <1>1, PublishType
      <3>2. balance'[u] \in [Wallets -> Nat]
        BY <1>2, <3>1 DEF Amount
      <3>3. \A w \in Wallets : balance'[u][w] = left[w]
        BY <1>3, <1>7 DEF Wallets
      <3> QED BY <3>2, <3>3
    <2>2. balance' \in [Users -> Amount] /\ balance \in [Users -> Amount]
      BY <1>1, PublishType DEF TypeInv, TypeOK
    <2> HIDE DEF left
    <2>3. balance' = [balance EXCEPT ![u] = left]
      BY <1>2, <1>3, <2>1, <2>2
    <2> QED BY <2>3 DEF left
  <1>9. main \in 0..balance[u]["MAIN"]
    BY <1>6
  <1>10. StakeOf(r) - main \in 0..balance[u]["WINNINGS"]
    BY <1>6, <1>7
  <1>11. StakeOf(r) - main > 0 => main = balance[u]["MAIN"]
    BY <1>3, <1>7
  <1> QED BY <1>8, <1>9, <1>10, <1>11, Zenon

LEMMA CommitTakes ==
    ASSUME BookInv, NEW r \in Requests, Commit(r) \/ CommitUnacknowledged(r)
    PROVE  Book!Take(r)
  <1>1. pc[r] = "commit" /\ Publish(r) /\ UNCHANGED arg
    BY DEF Commit, CommitUnacknowledged
  <1>2. UserOf(r) \in Players /\ StakeOf(r) \in Nat \ {0}
    BY <1>1, AdmittedFacts DEF Open, BookInv, WalletInv
  <1>3. StakeOf(r) > 0
    BY <1>2
  <1>4. /\ Prices[r] = 0 /\ odds[r] \in Odds
        /\ StakeOf(r) * odds[r] <= MaxPayout
        /\ Prices' = [Prices EXCEPT ![r] = odds[r]]
    BY <1>1, PublishPrices DEF NoRate
  <1>5. \E main \in 0..balance[UserOf(r)]["MAIN"] :
           /\ StakeOf(r) - main \in 0..balance[UserOf(r)]["WINNINGS"]
           /\ StakeOf(r) - main > 0 => main = balance[UserOf(r)]["MAIN"]
           /\ balance' = [balance EXCEPT ![UserOf(r)] =
                 [w \in Wallets |-> @[w] - IF w = "MAIN" THEN main
                                           ELSE StakeOf(r) - main]]
    BY <1>1, PublishWallets
  <1> QED BY <1>1, <1>2, <1>3, <1>4, <1>5
          DEF Book!Take, Book!Paid, Book!NotTaken, Prices, UserOf, StakeOf

LEMMA CoreMoves ==
    ASSUME TypeInv, NEW u \in Users, NEW w \in Wallets, NEW d \in CoreDeltas,
           CoreDelta(u, w, d)
    PROVE  Book!Move(u, w, d)
  <1>1. /\ balance[u][w] + d >= 0 /\ UNCHANGED <<bets, arg>>
        /\ balance' = [balance EXCEPT ![u][w] = balance[u][w] + d]
    BY DEF CoreDelta, requests
  <1>2. balance' = [balance EXCEPT ![u][w] = @ + d]
    BY <1>1
  <1>3. Prices' = Prices
    BY <1>1 DEF Prices, PriceOf
  <1> QED BY <1>1, <1>2, <1>3 DEF Book!Move, Prices

(* Every step is one step of the book, or none.                            *)
LEMMA StepOfTheBook ==
    ASSUME BookInv, [Next]_vars
    PROVE  [Book!Next]_(Book!book)
  <1>1. ASSUME NEW r \in Requests, Commit(r) \/ CommitUnacknowledged(r)
        PROVE  Book!Next
    BY <1>1, CommitTakes DEF Book!Next
  <1>2. ASSUME NEW u \in Users, NEW w \in Wallets, NEW d \in CoreDeltas,
               CoreDelta(u, w, d)
        PROVE  Book!Next
    BY <1>2, CoreMoves DEF Book!Next, BookInv, WalletInv
  <1>3. ASSUME UNCHANGED <<balance, bets, arg>> PROVE UNCHANGED Book!book
    <2>1. Prices' = Prices
      BY <1>3 DEF Prices, PriceOf
    <2> QED BY <1>3, <2>1 DEF Book!book, Prices
  <1>4. CASE \/ UNCHANGED vars
             \/ Tick \/ Crash
             \/ \E g \in Games : GenerateRound(g) \/ SetGameStatus(g) \/ CancelRound(g)
             \/ \E g \in Games, a \in Admins : SetEnablement(g, a)
             \/ \E g \in Games, s \in Sides : SubmitResult(g, s)
             \/ \E a \in Agents, f \in Families : SetRates(a, f)
    <2>1. UNCHANGED <<balance, bets, arg>>
      BY <1>4 DEF Tick, Crash, GenerateRound, SetGameStatus, CancelRound,
         SetEnablement, SubmitResult, SetRates, store, requests, vars
    <2> QED BY <1>3, <2>1
  <1>5. ASSUME NEW r \in Requests,
               \/ Receive(r) \/ LookupRound(r) \/ ReadPlaying(r)
               \/ ReadGiving(r) \/ ReadGiven(r) \/ Begin(r) \/ LockWallets(r)
               \/ Debit(r) \/ InsertPrediction(r) \/ WriteLedger(r) \/ Fail(r)
        PROVE  UNCHANGED Book!book
    <2>1. UNCHANGED <<balance, bets, arg>>
      BY <1>5 DEF Receive, LookupRound, ReadPlaying, ReadGiving, ReadGiven,
         Begin, LockWallets, Debit, InsertPrediction, WriteLedger, Fail, store
    <2> QED BY <1>3, <2>1
  <1> QED BY <1>1, <1>2, <1>4, <1>5 DEF Next, Others, Advance, Done

(* Place is atomic from outside: for any number of requests, any failures  *)
(* and any writes of core-service, each bet is one step that charges one   *)
(* Player in full at a price the book can pay, and nothing else moves a    *)
(* wallet.                                                                 *)
THEOREM PlaceIsAtomic == Spec => ImplementsBetBook
  <1>1. Init => Book!Init
    <2> SUFFICES ASSUME Init PROVE Book!Init
      OBVIOUS
    <2>1. \A r \in Requests : PriceOf(r) = 0
      BY DEF Init, PriceOf, NoRate
    <2> QED BY <2>1 DEF Init, Book!Init, Book!NotTaken
  <1>2. BookInv /\ [Next]_vars => [Book!Next]_(Book!book)
    BY StepOfTheBook
  <1> QED BY <1>1, <1>2, BookInvariant, PTL
          DEF Spec, ImplementsBetBook, Book!Spec

(* A pool of any size delays requests and changes nothing else: what is    *)
(* proved of Placement holds over it, whatever its fairness.               *)
THEOREM PoolOnlyDelays == PooledSpec => Spec
  <1>1. [PooledNext]_vars => [Next]_vars
    BY DEF PooledNext, PoolStep, TxStep, Next, Advance
  <1> QED BY <1>1, PTL DEF PooledSpec, Spec

-----------------------------------------------------------------------------
(* The pool.                                                               *)

(* A locked row is locked by a transaction of its Player that is past its  *)
(* SELECT.                                                                 *)
RowsHeld ==
    \A u \in Users : rowLock[u] # None =>
        \E q \in Requests : rowLock[u] = q /\ pc[q] \in Holding /\ UserOf(q) = u

(* The ways in which a step of r may change the locks.                     *)
LEMMA RowsHeldBy ==
    ASSUME TypeOK, RowsHeld, NEW r \in Requests, UNCHANGED arg,
           \A q \in Requests \ {r} : pc'[q] = pc[q],
           \/ rowLock' = rowLock /\ (pc[r] \in Holding => pc'[r] \in Holding)
           \/ rowLock' = [u \in Users |-> IF rowLock[u] = r THEN None ELSE rowLock[u]]
           \/ /\ rowLock' = [rowLock EXCEPT ![UserOf(r)] = r]
              /\ pc'[r] \in Holding
    PROVE  RowsHeld'
  <1>1. UNCHANGED <<arg>> => \A q \in Requests : UserOf(q)' = UserOf(q)
    BY DEF UserOf
  <1> SUFFICES ASSUME NEW u \in Users, rowLock'[u] # None
               PROVE  \E q \in Requests : /\ rowLock'[u] = q /\ pc'[q] \in Holding
                                          /\ UserOf(q) = u
    BY <1>1 DEF RowsHeld
  <1>2. CASE rowLock' = rowLock /\ (pc[r] \in Holding => pc'[r] \in Holding)
    <2>1. PICK q \in Requests : rowLock[u] = q /\ pc[q] \in Holding /\ UserOf(q) = u
      BY <1>2 DEF RowsHeld
    <2> QED BY <1>2, <2>1
  <1>3. CASE rowLock' = [v \in Users |-> IF rowLock[v] = r THEN None ELSE rowLock[v]]
    <2>1. rowLock[u] # r /\ rowLock'[u] = rowLock[u]
      BY <1>3
    <2>2. PICK q \in Requests : rowLock[u] = q /\ pc[q] \in Holding /\ UserOf(q) = u
      BY <2>1 DEF RowsHeld
    <2> QED BY <2>1, <2>2
  <1>4. CASE /\ rowLock' = [rowLock EXCEPT ![UserOf(r)] = r]
             /\ pc'[r] \in Holding
    <2>1. CASE u = UserOf(r)
      BY <1>4, <2>1 DEF TypeOK
    <2>2. CASE u # UserOf(r)
      <3>1. rowLock'[u] = rowLock[u]
        BY <1>4, <2>2 DEF TypeOK
      <3>2. PICK q \in Requests : rowLock[u] = q /\ pc[q] \in Holding /\ UserOf(q) = u
        BY <3>1 DEF RowsHeld
      <3> QED BY <1>4, <3>1, <3>2
    <2> QED BY <2>1, <2>2
  <1> QED BY <1>2, <1>3, <1>4

LEMMA NextRowsHeld == ASSUME TypeOK, RowsHeld, [Next]_vars PROVE RowsHeld'
  <1>0. pc \in [Requests -> {"new"} \cup Open \cup Final]
    BY DEF TypeOK
  <1>1. ASSUME NEW r \in Requests,
               \/ Receive(r) \/ LookupRound(r) \/ ReadPlaying(r) \/ ReadGiving(r)
               \/ ReadGiven(r) \/ Begin(r)
        PROVE  RowsHeld'
    <2>1. /\ pc[r] \notin Holding /\ UNCHANGED <<arg, rowLock>>
          /\ \A q \in Requests \ {r} : pc'[q] = pc[q]
      BY <1>0, <1>1 DEF Receive, LookupRound, ReadPlaying, ReadGiving, ReadGiven,
         Begin, Quote, Goto, Holding
    <2> QED BY <2>1, RowsHeldBy
  <1>2. ASSUME NEW r \in Requests,
               \/ LockWallets(r) \/ Debit(r) \/ InsertPrediction(r)
               \/ WriteLedger(r) \/ Commit(r) \/ CommitUnacknowledged(r) \/ Fail(r)
        PROVE  RowsHeld'
    <2>1. UNCHANGED arg /\ \A q \in Requests \ {r} : pc'[q] = pc[q]
      BY <1>0, <1>2 DEF LockWallets, Debit, InsertPrediction, WriteLedger, Commit,
         CommitUnacknowledged, Fail, Reject, Goto
    <2>2. \/ rowLock' = rowLock /\ pc'[r] \in Holding
          \/ rowLock' = [u \in Users |-> IF rowLock[u] = r THEN None ELSE rowLock[u]]
          \/ rowLock' = [rowLock EXCEPT ![UserOf(r)] = r] /\ pc'[r] \in Holding
      BY <1>0, <1>2 DEF LockWallets, Debit, InsertPrediction, WriteLedger, Commit,
         CommitUnacknowledged, Fail, Reject, Rollback, Goto, Holding
    <2> QED BY <2>1, <2>2, RowsHeldBy
  <1>3. CASE Crash
    <2>1. \A u \in Users : rowLock'[u] = None
      BY <1>3 DEF Crash
    <2> QED BY <2>1 DEF RowsHeld
  <1>4. CASE UNCHANGED <<rowLock, pc, arg>>
    BY <1>4 DEF RowsHeld, UserOf
  <1>5. CASE (Others /\ ~Crash) \/ UNCHANGED vars
    BY <1>4, <1>5 DEF Others, Tick, GenerateRound, SetGameStatus, CancelRound,
       SetEnablement, SubmitResult, SetRates, CoreDelta, requests, vars
  <1> QED BY <1>1, <1>2, <1>3, <1>5 DEF Next, Advance, Done

(* One of the transactions that use a full pool can go on.                 *)
LEMMA HoldersGoOn ==
    ASSUME TypeOK, LockInv, RowsHeld, NEW u \in Users, rowLock[u] # None
    PROVE  \E q \in Connected : CanGoOn(q) /\ rowLock[u] = q /\ UserOf(q) = u
  <1>1. PICK q \in Requests : rowLock[u] = q /\ pc[q] \in Holding /\ UserOf(q) = u
    BY DEF RowsHeld
  <1>2. q \in Connected
    BY <1>1 DEF Connected, InTx, Holding
  <1>3. CanGoOn(q)
    BY <1>1 DEF CanGoOn, Holding
  <1> QED BY <1>1, <1>2, <1>3

(* For any number of bets, of Players and of connections: the pool never   *)
(* comes to a state in which those who wait wait for each other.           *)
THEOREM PoolNeverWedges == PooledSpec => []WaitsAreShort
  <1>1. Init => RowsHeld
    BY DEF Init, RowsHeld
  <1>2. TypeOK /\ RowsHeld /\ [Next]_vars => RowsHeld'
    BY NextRowsHeld
  <1>3. BookInv => TypeOK /\ LockInv
    BY DEF BookInv, WalletInv, TypeInv, TxInv
  <1>4. TypeOK /\ LockInv /\ RowsHeld => WaitsAreShort
    <2> SUFFICES ASSUME TypeOK, LockInv, RowsHeld,
                        NEW r \in Requests, pc[r] \in Open, ~CanGoOn(r)
                 PROVE  \E q \in Connected :
                           /\ CanGoOn(q)
                           /\ pc[r] \in InTx => /\ rowLock[UserOf(r)] = q
                                                /\ UserOf(q) = UserOf(r)
      BY DEF WaitsAreShort
    <2>1. \A q \in Requests : UserOf(q) \in Users
      BY PlacementAssumption DEF TypeOK, UserOf, Args
    <2>2. CASE pc[r] \in InTx
      <3>1. rowLock[UserOf(r)] # None
        BY <2>2 DEF CanGoOn, InTx, LockInv, Holding
      <3> QED BY <2>1, <3>1, HoldersGoOn
    <2>3. CASE pc[r] \notin InTx
      <3>1. ~(Cardinality(Connected) < MaxConns)
        BY <2>3 DEF CanGoOn
      <3>2. Connected # {}
        <4>1. Cardinality({}) = 0
          BY FS_EmptySet
        <4> QED BY <3>1, <4>1, PoolAssumption
      <3>3. PICK q \in Connected : TRUE
        BY <3>2
      <3>4. q \in Requests /\ pc[q] \in InTx
        BY DEF Connected
      <3>5. CASE CanGoOn(q)
        BY <2>3, <3>5
      <3>6. CASE ~CanGoOn(q)
        <4>1. rowLock[UserOf(q)] # None
          BY <3>4, <3>6 DEF CanGoOn, InTx, LockInv, Holding
        <4> QED BY <2>1, <2>3, <3>4, <4>1, HoldersGoOn
      <3> QED BY <3>5, <3>6
    <2> QED BY <2>2, <2>3
  <1> QED BY <1>1, <1>2, <1>3, <1>4, BookInvariant, PoolOnlyDelays, PTL DEF Spec

=============================================================================
