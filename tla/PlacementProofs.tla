--------------------------- MODULE PlacementProofs ---------------------------
(***************************************************************************)
(* Proofs about Placement, for any number of requests, Players, games and  *)
(* rates: its types, then its deadlines and its prices: how stale what a   *)
(* bet was admitted on may be, why the buffer keeps bets ahead of their    *)
(* result, and that every payout fits its column.  The proofs about its    *)
(* ledger, the list of bets and the views of a player build on these.      *)
(*                                                                         *)
(* The invariant of the second part follows one request: it was admitted   *)
(* after it arrived, began its transaction by its cutoff, and is cut off   *)
(* within Timeout of its arrival, so its commit can be late by no more     *)
(* than that.                                                              *)
(***************************************************************************)
EXTENDS Placement, TLAPS

(* A request goes on to the database only if it is well formed.            *)
Admitted == \A r \in Requests : pc[r] \in Open => WellFormed(r)

TypeInv == TypeOK /\ Admitted

-----------------------------------------------------------------------------
(* A debit is split into two amounts that are not negative.                *)
LEMMA SplitType ==
    ASSUME NEW b \in Amount, NEW n \in Nat
    PROVE  Split(b, n) \in Amount
  BY DEF Split, FromMain, Amount, Wallets

LEMMA RateType == ASSUME NEW m \in Odds \cup {NoRate} PROVE m \in Nat
  <1>1. Odds \subseteq Nat
    BY PlacementAssumption
  <1> QED BY <1>1 DEF NoRate

(* What the checks before the first query leave to the rest of Place.      *)
LEMMA AdmittedFacts ==
    ASSUME TypeInv, NEW r \in Requests, pc[r] \in Open
    PROVE  /\ UserOf(r) \in Players /\ UserOf(r) \in Users
           /\ StakeOf(r) \in Nat \ {0}
           /\ TypeOf(r) \in AllTypes /\ FamilyOf(r) \in Families
           /\ AgentOf[UserOf(r)] \in Agents
           /\ GameOf(r) \in Games
  <1>1. WellFormed(r)
    BY DEF TypeInv, Admitted
  <1>2. arg[r] \in Args
    BY DEF TypeInv, TypeOK
  <1>3. UserOf(r) \in Players /\ UserOf(r) \in Users /\ GameOf(r) \in Games
    BY <1>1, <1>2 DEF WellFormed, Args, UserOf, GameOf
  <1>4. StakeOf(r) \in Nat \ {0}
    <2>1. StakeOf(r) \in Stakes
      BY <1>2 DEF Args, StakeOf
    <2>2. Stakes \subseteq Int
      BY PlacementAssumption
    <2>3. StakeOf(r) > 0
      BY <1>1 DEF WellFormed
    <2>4. StakeOf(r) \in Int
      BY <2>1, <2>2
    <2>5. \A n \in Int : n > 0 => n \in Nat \ {0}
      OBVIOUS
    <2> QED BY <2>3, <2>4, <2>5
  <1>5. TypeOf(r) \in AllTypes /\ FamilyOf(r) \in Families
    BY <1>1, <1>2, PlacementAssumption DEF WellFormed, Args, TypeOf, FamilyOf
  <1>6. AgentOf[UserOf(r)] \in Agents
    BY <1>1, <1>3, PlacementAssumption DEF WellFormed
  <1> QED BY <1>3, <1>4, <1>5, <1>6

(* A request's body does not change, so it stays admitted.                 *)
LEMMA AdmittedKept ==
    ASSUME Admitted, UNCHANGED arg,
           \A r \in Requests : pc'[r] \in Open => pc[r] \in Open \/ WellFormed(r)
    PROVE  Admitted'
  BY DEF Admitted, WellFormed, UserOf, StakeOf, TypeOf

LEMMA InitTypeInv == Init => TypeInv
  <1> SUFFICES ASSUME Init PROVE TypeInv
    OBVIOUS
  <1> USE PlacementAssumption
  <1>1. \A r \in Requests : pc[r] \notin Open
    BY DEF Init, Open
  <1>2. Nothing \in Amount
    BY DEF Nothing, Amount
  <1>3. TypeOK
    BY <1>2 DEF Init, TypeOK, Time, Since, Never, NoBet, Sides, NoRate
  <1> QED BY <1>1, <1>3 DEF TypeInv, Admitted

(* The steps that only read: they move pc and note what they have read.    *)
LEMMA ReadTypeInv ==
    ASSUME TypeInv, NEW r \in Requests,
           \/ Receive(r) \/ LookupRound(r) \/ ReadPlaying(r) \/ ReadGiving(r)
           \/ ReadGiven(r) \/ Begin(r)
    PROVE  TypeInv'
  <1> USE PlacementAssumption DEF TypeInv, TypeOK, Goto, Open, Final
  <1>1. CASE Receive(r)
    <2>1. Admitted'
      BY <1>1, AdmittedKept DEF Receive
    <2> QED BY <1>1, <2>1 DEF Receive, offers, rates, store, tx
  <1>2. CASE LookupRound(r)
    <2>1. Admitted'
      BY <1>2, AdmittedKept DEF LookupRound
    <2> QED BY <1>2, <2>1 DEF LookupRound, offers, rates, store, tx
  <1>3. ASSUME NEW m \in Nat, Quote(r, m) PROVE odds' \in [Requests -> Nat]
    BY <1>3 DEF Quote
  <1>4. CASE ReadPlaying(r)
    <2>1. pc[r] \in Open
      BY <1>4 DEF ReadPlaying
    <2>2. Playing[UserOf(r)][FamilyOf(r)] \in Odds \cup {NoRate}
      BY <2>1, AdmittedFacts
    <2>3. odds' \in [Requests -> Nat]
      BY <1>3, <1>4, <2>2, RateType DEF ReadPlaying
    <2>4. Admitted'
      BY <1>4, <2>1, AdmittedKept DEF ReadPlaying, Quote
    <2> QED BY <1>4, <2>3, <2>4 DEF ReadPlaying, Quote, offers, rates, store, tx
  <1>5. CASE ReadGiving(r)
    <2>1. pc[r] \in Open
      BY <1>5 DEF ReadGiving
    <2>2. giving[AgentOf[UserOf(r)]][FamilyOf(r)] \in Odds \cup {NoRate}
      BY <2>1, AdmittedFacts
    <2>3. odds' \in [Requests -> Nat]
      BY <1>3, <1>5, <2>2, RateType DEF ReadGiving
    <2>4. Admitted'
      BY <1>5, <2>1, AdmittedKept DEF ReadGiving, Quote
    <2> QED BY <1>5, <2>3, <2>4 DEF ReadGiving, Quote, offers, rates, store, tx
  <1>6. CASE ReadGiven(r)
    <2>1. pc[r] \in Open
      BY <1>6 DEF ReadGiven
    <2>2. given[AgentOf[UserOf(r)]][FamilyOf(r)] \in Odds \cup {NoRate}
      BY <2>1, AdmittedFacts
    <2>3. given[AgentOf[UserOf(r)]][FamilyOf(r)] \in Nat
      BY <2>2, RateType
    <2>4. agentOdds' \in [Requests -> Nat]
      BY <1>6, <2>3 DEF ReadGiven
    <2>5. Admitted'
      BY <1>6, <2>1, AdmittedKept DEF ReadGiven
    <2> QED BY <1>6, <2>4, <2>5 DEF ReadGiven, offers, rates, store, tx
  <1>7. CASE Begin(r)
    <2>1. start' \in [Requests -> Time]
      BY <1>7 DEF Begin
    <2>2. Admitted'
      BY <1>7, AdmittedKept DEF Begin
    <2> QED BY <1>7, <2>1, <2>2 DEF Begin, offers, rates, store
  <1> QED BY <1>1, <1>2, <1>4, <1>5, <1>6, <1>7

(* Dropping a transaction keeps the types.                                 *)
LEMMA RollbackType ==
    ASSUME TypeInv, NEW r \in Requests, Rollback(r)
    PROVE  /\ rowLock' \in [Users -> Requests \cup {None}]
           /\ start' \in [Requests -> Time]
           /\ leg' \in [Requests -> Amount]
           /\ after' \in [Requests -> Amount]
           /\ rows' \in [Requests -> SUBSET Row]
  <1>1. Nothing \in Amount /\ 0 \in Time /\ {} \in SUBSET Row
    BY DEF Nothing, Amount, Time
  <1> QED BY <1>1 DEF TypeInv, TypeOK, Rollback

(* The steps of debitAcrossWallets: every wallet stays at or above zero.   *)
LEMMA DebitTypeInv ==
    ASSUME TypeInv, NEW r \in Requests, LockWallets(r) \/ Debit(r)
    PROVE  TypeInv'
  <1> USE DEF TypeInv, TypeOK, Goto, Open, Final, Reject
  <1>a. pc[r] \in Open
    BY DEF LockWallets, Debit
  <1>b. UserOf(r) \in Users /\ StakeOf(r) \in Nat
    BY <1>a, AdmittedFacts
  <1>c. Admitted'
    BY <1>a, AdmittedKept DEF LockWallets, Debit
  <1>1. CASE LockWallets(r)
    <2>1. CASE Total(balance[UserOf(r)]) < StakeOf(r)
      BY <1>1, <1>c, <2>1, RollbackType DEF LockWallets, offers, rates, store
    <2>2. CASE ~(Total(balance[UserOf(r)]) < StakeOf(r))
      <3>1. balance[UserOf(r)] \in Amount
        BY <1>b
      <3>2. leg' \in [Requests -> Amount] /\ after' \in [Requests -> Amount]
        <4>1. Split(balance[UserOf(r)], StakeOf(r)) \in Amount
          BY <1>b, <3>1, SplitType
        <4>2. /\ leg' = [leg EXCEPT ![r] = Split(balance[UserOf(r)], StakeOf(r))]
              /\ after' = [after EXCEPT ![r] = balance[UserOf(r)]]
          BY <1>1, <2>2 DEF LockWallets
        <4> QED BY <3>1, <4>1, <4>2
      <3>3. rowLock' \in [Users -> Requests \cup {None}]
        <4>1. rowLock' = [rowLock EXCEPT ![UserOf(r)] = r]
          BY <1>1, <2>2 DEF LockWallets
        <4> QED BY <4>1
      <3> QED BY <1>1, <1>c, <2>2, <3>2, <3>3 DEF LockWallets, offers, rates, store
    <2> QED BY <2>1, <2>2
  <1>2. CASE Debit(r)
    <2> DEFINE short == \E w \in Wallets :
                           leg[r][w] > 0 /\ balance[UserOf(r)][w] < leg[r][w]
               left == [w \in Wallets |-> IF leg[r][w] > 0
                                          THEN balance[UserOf(r)][w] - leg[r][w]
                                          ELSE after[r][w]]
    <2>1. CASE short
      BY <1>2, <1>c, <2>1, RollbackType DEF Debit, offers, rates, store
    <2>2. CASE ~short
      <3>1. balance[UserOf(r)] \in Amount /\ leg[r] \in Amount /\ after[r] \in Amount
        BY <1>b
      <3>2. left \in Amount
        BY <2>2, <3>1 DEF Amount
      <3>3. after' = [after EXCEPT ![r] = left]
        BY <1>2, <2>2 DEF Debit
      <3>4. after' \in [Requests -> Amount]
        BY <3>2, <3>3
      <3>5. rowLock' \in [Users -> Requests \cup {None}]
        BY <1>2, <2>2 DEF Debit
      <3> QED BY <1>2, <1>c, <2>2, <3>4, <3>5 DEF Debit, offers, rates, store
    <2> QED BY <2>1, <2>2
  <1> QED BY <1>1, <1>2

(* The INSERT and the rows of the ledger.                                  *)
LEMMA InsertTypeInv ==
    ASSUME TypeInv, NEW r \in Requests, InsertPrediction(r) \/ WriteLedger(r)
    PROVE  TypeInv'
  <1> USE DEF TypeInv, TypeOK, Goto, Open, Final, Reject
  <1>a. pc[r] \in Open
    BY DEF InsertPrediction, WriteLedger
  <1>b. Admitted'
    BY <1>a, AdmittedKept DEF InsertPrediction, WriteLedger
  <1>1. CASE InsertPrediction(r)
    <2>1. CASE start[r] > CutoffOf(r)
      BY <1>1, <1>b, <2>1, RollbackType DEF InsertPrediction, offers, rates, store
    <2>2. CASE ~(start[r] > CutoffOf(r))
      BY <1>1, <1>b, <2>2 DEF InsertPrediction, offers, rates, store, tx
    <2> QED BY <2>1, <2>2
  <1>2. CASE WriteLedger(r)
    <2>1. \A w \in Wallets, n \in Nat : DebitRow(r, w, n) \in Row
      <3>1. UserOf(r) \in Users
        BY <1>a, AdmittedFacts
      <3>2. \A w \in Wallets : leg[r][w] \in Nat /\ after[r][w] \in Nat
        BY DEF Amount
      <3> QED BY <3>1, <3>2 DEF DebitRow, Row
    <2>2. nextSeq' \in Nat
      BY <1>2 DEF WriteLedger
    <2>3. rows' \in [Requests -> SUBSET Row]
      BY <1>2, <2>1 DEF WriteLedger, Wallets
    <2> QED BY <1>2, <1>b, <2>2, <2>3 DEF WriteLedger, offers, rates, store
  <1> QED BY <1>1, <1>2

(* What a COMMIT publishes, acknowledged or not.                           *)
LEMMA PublishType ==
    ASSUME TypeInv, NEW r \in Requests, pc[r] = "commit", Publish(r)
    PROVE  /\ balance' \in [Users -> Amount]
           /\ ledger' \subseteq Row
           /\ bets' \in [Requests -> Bet \cup {NoBet}]
           /\ graded' \subseteq Requests
  <1> USE DEF TypeInv, TypeOK
  <1>1. UserOf(r) \in Users
    BY AdmittedFacts DEF Open
  <1> DEFINE left == [w \in Wallets |-> IF leg[r][w] > 0 THEN after[r][w]
                                        ELSE balance[UserOf(r)][w]]
  <1>2. left \in Amount
    BY <1>1 DEF Amount
  <1>3. balance' = [balance EXCEPT ![UserOf(r)] = left]
    BY DEF Publish
  <1>4. balance' \in [Users -> Amount]
    BY <1>2, <1>3
  <1>5. [at |-> clock, odds |-> odds[r], agentOdds |-> agentOdds[r]] \in Bet
    BY DEF Bet
  <1>6. bets' \in [Requests -> Bet \cup {NoBet}]
    BY <1>5 DEF Publish
  <1> QED BY <1>4, <1>6 DEF Publish

LEMMA CommitTypeInv ==
    ASSUME TypeInv, NEW r \in Requests, Commit(r) \/ CommitUnacknowledged(r)
    PROVE  TypeInv'
  <1> USE DEF TypeInv, TypeOK, Goto, Open, Final
  <1>a. pc[r] = "commit" /\ Publish(r) /\ Rollback(r)
    BY DEF Commit, CommitUnacknowledged
  <1>b. Admitted'
    BY <1>a, AdmittedKept DEF Commit, CommitUnacknowledged
  <1>1. CASE Commit(r)
    <2>1. Total(after[r]) \in Nat
      BY DEF Total, Amount, Wallets
    <2>2. answer' \in [Requests -> Nat]
      BY <1>1, <2>1 DEF Commit
    <2> QED BY <1>1, <1>a, <1>b, <2>2, PublishType, RollbackType
            DEF Commit, offers, rates
  <1>2. CASE CommitUnacknowledged(r)
    BY <1>2, <1>a, <1>b, PublishType, RollbackType
       DEF CommitUnacknowledged, offers, rates
  <1> QED BY <1>1, <1>2

LEMMA EndTypeInv ==
    ASSUME TypeInv
    PROVE  /\ Crash => TypeInv'
           /\ \A r \in Requests : Fail(r) => TypeInv'
  <1> USE DEF TypeInv, TypeOK, Goto, Open, Final
  <1>1. ASSUME NEW r \in Requests, Fail(r) PROVE TypeInv'
    <2>1. Admitted'
      BY <1>1, AdmittedKept DEF Fail
    <2> QED BY <1>1, <2>1, RollbackType DEF Fail, offers, rates, store
  <1>2. ASSUME Crash PROVE TypeInv'
    <2>1. Admitted'
      BY <1>2, AdmittedKept DEF Crash
    <2>2. Nothing \in Amount
      BY DEF Nothing, Amount
    <2> QED BY <1>2, <2>1, <2>2 DEF Crash, offers, rates, store, Time
  <1> QED BY <1>1, <1>2

(* The other writers.                                                      *)
LEMMA OthersTypeInv == ASSUME TypeInv, Others PROVE TypeInv'
  <1> USE PlacementAssumption DEF TypeInv, TypeOK, requests, tx, Time, Since, Never
  <1>a. ASSUME UNCHANGED <<arg, pc>> PROVE Admitted'
    BY <1>a, AdmittedKept
  <1>1. CASE Tick
    BY <1>1, <1>a DEF Tick, offers, rates, store
  <1>2. ASSUME NEW g \in Games, GenerateRound(g) PROVE TypeInv'
    BY <1>2, <1>a DEF GenerateRound, rates, store
  <1>3. ASSUME NEW g \in Games, SetGameStatus(g) PROVE TypeInv'
    BY <1>3, <1>a DEF SetGameStatus, Toggled, rates, store
  <1>4. ASSUME NEW g \in Games, CancelRound(g) PROVE TypeInv'
    BY <1>4, <1>a DEF CancelRound, rates, store
  <1>5. ASSUME NEW g \in Games, NEW a \in Admins, SetEnablement(g, a) PROVE TypeInv'
    BY <1>5, <1>a DEF SetEnablement, Toggled, rates, store
  <1>6. ASSUME NEW g \in Games, NEW s \in Sides, SubmitResult(g, s) PROVE TypeInv'
    BY <1>6, <1>a DEF SubmitResult, rates
  <1>7. ASSUME NEW a \in Agents, NEW f \in Families, SetRates(a, f) PROVE TypeInv'
    <2>1. PICK m \in Odds \cup {NoRate} :
             \/ giving' = [giving EXCEPT ![a][f] = m] /\ UNCHANGED given
             \/ given' = [given EXCEPT ![a][f] = m] /\ UNCHANGED giving
      BY <1>7 DEF SetRates
    <2>2. /\ giving' \in [Agents -> [Families -> Odds \cup {NoRate}]]
          /\ given' \in [Agents -> [Families -> Odds \cup {NoRate}]]
      <3> DEFINE Card == [Families -> Odds \cup {NoRate}]
      <3>1. giving \in [Agents -> Card] /\ given \in [Agents -> Card]
        OBVIOUS
      <3>2. ASSUME NEW c \in Card PROVE [c EXCEPT ![f] = m] \in Card
        OBVIOUS
      <3>3. ASSUME NEW cards \in [Agents -> Card]
            PROVE  [cards EXCEPT ![a][f] = m] \in [Agents -> Card]
        <4>1. [cards[a] EXCEPT ![f] = m] \in Card
          BY <3>2
        <4> HIDE DEF Card
        <4> QED BY <4>1
      <3> HIDE DEF Card
      <3>4. /\ [giving EXCEPT ![a][f] = m] \in [Agents -> Card]
            /\ [given EXCEPT ![a][f] = m] \in [Agents -> Card]
        BY <3>1, <3>3, Zenon
      <3>5. giving' \in [Agents -> Card] /\ given' \in [Agents -> Card]
        BY <2>1, <3>1, <3>4, Zenon
      <3> QED BY <3>5 DEF Card
    <2> QED BY <1>7, <1>a, <2>2 DEF SetRates, offers, store
  <1>8. ASSUME NEW u \in Users, NEW w \in Wallets, NEW d \in CoreDeltas,
               CoreDelta(u, w, d)
        PROVE  TypeInv'
    <2> DEFINE left == balance[u][w] + d
    <2>1. left \in Nat /\ d \in Int
      BY <1>8 DEF CoreDelta, Amount
    <2>2. balance' = [balance EXCEPT ![u] = [@ EXCEPT ![w] = left]]
      BY <1>8 DEF CoreDelta
    <2>3. balance' \in [Users -> Amount]
      BY <2>1, <2>2 DEF Amount
    <2>4. [seq |-> nextSeq, user |-> u, wallet |-> w, delta |-> d,
           after |-> left, bet |-> None] \in Row
      BY <2>1 DEF Row
    <2>5. ledger' \subseteq Row /\ nextSeq' \in Nat
      BY <1>8, <2>4 DEF CoreDelta
    <2> QED BY <1>8, <1>a, <2>3, <2>5 DEF CoreDelta, offers, rates
  <1> QED BY <1>1, <1>2, <1>3, <1>4, <1>5, <1>6, <1>7, <1>8, EndTypeInv DEF Others

LEMMA NextTypeInv == ASSUME TypeInv, [Next]_vars PROVE TypeInv'
  <1>1. CASE UNCHANGED vars
    <2>1. Admitted'
      BY <1>1, AdmittedKept DEF TypeInv, vars
    <2> QED BY <1>1, <2>1 DEF TypeInv, TypeOK, vars, offers, rates, store, tx
  <1>2. ASSUME NEW r \in Requests,
               Receive(r) \/ Advance(r) \/ CommitUnacknowledged(r) \/ Fail(r)
        PROVE  TypeInv'
    BY <1>2, ReadTypeInv, DebitTypeInv, InsertTypeInv, CommitTypeInv, EndTypeInv
       DEF Advance
  <1> QED BY <1>1, <1>2, OthersTypeInv DEF Next, Done

(* Place keeps every column within its type whatever races it, and no      *)
(* wallet of a Player is ever negative.                                    *)
THEOREM TypeCorrect == Spec => []TypeOK
  <1>1. TypeInv => TypeOK
    BY DEF TypeInv
  <1> QED BY <1>1, InitTypeInv, NextTypeInv, PTL DEF Spec

-----------------------------------------------------------------------------
(* DEADLINES AND PRICES                                                    *)

Admitting == {"lookup"}
Quoting   == {"lookup", "playing", "giving"}

Quoted(r, m) == m # NoRate /\ StakeOf(r) * m <= MaxPayout

(* The Player's Agent has an Admin, so the game's enablement is defined.   *)
Enrolled(r) ==
    AgentOf[UserOf(r)] \in Agents /\ AdminOf[AgentOf[UserOf(r)]] \in Admins

(* While r runs.                                                           *)
Timely(r) ==
    /\ pc[r] \in Open => arrived[r] <= clock /\ clock <= arrived[r] + Timeout
    /\ pc[r] \in Open \ Admitting =>
          /\ Enrolled(r)
          /\ \A since \in ShutSince(r) : since # Never => arrived[r] <= since
    /\ pc[r] \in Open \ Quoting => Quoted(r, odds[r])
    /\ pc[r] \in InTx => arrived[r] <= start[r] /\ start[r] <= clock
    /\ pc[r] \in {"ledger", "commit"} => start[r] <= CutoffOf(r)

(* Once its bet is in.                                                     *)
Placed(r) ==
    bets[r] # NoBet =>
       /\ Enrolled(r)
       /\ bets[r].at <= clock
       /\ \A since \in ShutSince(r) :
             since # Never => bets[r].at <= since + Timeout
       /\ bets[r].at <= CutoffOf(r) + Timeout
       /\ Quoted(r, bets[r].odds)

TimeInv == \A r \in Requests : Timely(r) /\ Placed(r)

-----------------------------------------------------------------------------
(* A step leaves what shuts r out as it was, takes it back, or starts it   *)
(* now.                                                                    *)
Shutting(r) ==
    \A since \in ShutSince(r)' :
        since \in ShutSince(r) \/ since = Never \/ since = clock

LEMMA TimeTypes ==
    ASSUME TypeInv, NEW r \in Requests
    PROVE  /\ clock \in Nat /\ arrived[r] \in Nat /\ start[r] \in Nat
           /\ odds[r] \in Nat /\ UserOf(r) \in Users /\ GameOf(r) \in Games
           /\ Timeout \in Nat /\ Never = -1 /\ Buffer \in Nat
           /\ OpensAt[GameOf(r)] \in Nat /\ ClosesAt[GameOf(r)] \in Nat
           /\ CutoffOf(r) \in Int
           /\ Enrolled(r) => \A since \in ShutSince(r) : since \in Int
  <1>1. /\ clock \in Nat /\ arrived[r] \in Nat /\ start[r] \in Nat
        /\ odds[r] \in Nat /\ UserOf(r) \in Users /\ GameOf(r) \in Games
    BY DEF TypeInv, TypeOK, Time, Args, UserOf, GameOf
  <1>2. /\ Timeout \in Nat /\ Never = -1 /\ Buffer \in Nat
        /\ OpensAt[GameOf(r)] \in Nat /\ ClosesAt[GameOf(r)] \in Nat
    BY <1>1, PlacementAssumption DEF Never
  <1>3. CutoffOf(r) \in Int
    BY <1>2 DEF CutoffOf, Cutoff
  <1>4. CutoffGroup(TypeOf(r)) \in Sides
    BY DEF CutoffGroup, Sides
  <1>5. ASSUME Enrolled(r), NEW since \in ShutSince(r) PROVE since \in Int
    BY <1>1, <1>4, <1>5 DEF TypeInv, TypeOK, Since, Never, ShutSince, Enrolled
  <1> QED BY <1>1, <1>2, <1>3, <1>5

(* A request that makes no step of its own.                                *)
LEMMA TimelyKept ==
    ASSUME TypeInv, NEW q \in Requests, Timely(q), UNCHANGED <<arg, clock>>,
           Enrolled(q) => Shutting(q),
           pc'[q] = pc[q], arrived'[q] = arrived[q], odds'[q] = odds[q],
           start'[q] = start[q]
    PROVE  Timely(q)'
  <1>1. /\ Enrolled(q)' <=> Enrolled(q)
        /\ CutoffOf(q)' = CutoffOf(q)
        /\ Quoted(q, odds[q])' <=> Quoted(q, odds[q])
    BY DEF Enrolled, CutoffOf, Quoted, UserOf, GameOf, TypeOf, StakeOf
  <1>2. pc[q] \in Open \ Admitting =>
           \A since \in ShutSince(q)' : since # Never => arrived[q] <= since
    <2> SUFFICES ASSUME pc[q] \in Open \ Admitting,
                        NEW since \in ShutSince(q)', since # Never
                 PROVE  arrived[q] <= since
      OBVIOUS
    <2>1. since \in ShutSince(q) \/ since = clock
      BY DEF Shutting, Timely
    <2> QED BY <2>1 DEF Timely
  <1> QED BY <1>1, <1>2 DEF Timely

LEMMA PlacedKept ==
    ASSUME TypeInv, NEW q \in Requests, Placed(q), UNCHANGED <<arg, clock>>,
           Enrolled(q) => Shutting(q), bets'[q] = bets[q]
    PROVE  Placed(q)'
  <1>1. /\ Enrolled(q)' <=> Enrolled(q)
        /\ CutoffOf(q)' = CutoffOf(q) /\ StakeOf(q)' = StakeOf(q)
    BY DEF Enrolled, CutoffOf, UserOf, GameOf, TypeOf, StakeOf
  <1>2. ASSUME bets[q] # NoBet, NEW since \in ShutSince(q)', since # Never
        PROVE  bets[q].at <= since + Timeout
    <2>1. CASE since \in ShutSince(q)
      BY <1>2, <2>1 DEF Placed
    <2>2. CASE since = clock
      <3>1. bets[q].at \in Nat /\ clock \in Nat /\ Timeout \in Nat
        BY <1>2, TimeTypes DEF TypeInv, TypeOK, Bet, Time
      <3>2. bets[q].at <= clock
        BY <1>2 DEF Placed
      <3> QED BY <2>2, <3>1, <3>2
    <2> QED BY <1>2, <2>1, <2>2 DEF Shutting, Placed
  <1> QED BY <1>1, <1>2 DEF Placed, Quoted

(* A step of r that leaves everything else alone: the others keep what     *)
(* they have, and what is left to show is about r.                         *)
LEMMA OneMoves ==
    ASSUME TypeInv, TimeInv, NEW r \in Requests,
           UNCHANGED <<arg, clock, offers>>,
           \A q \in Requests \ {r} :
              /\ pc'[q] = pc[q] /\ arrived'[q] = arrived[q]
              /\ odds'[q] = odds[q] /\ start'[q] = start[q]
              /\ bets'[q] = bets[q],
           Timely(r)', Placed(r)'
    PROVE  TimeInv'
  <1>1. ASSUME NEW q \in Requests, q # r PROVE Timely(q)' /\ Placed(q)'
    <2>1. Shutting(q)
      BY DEF Shutting, ShutSince, offers, GameOf, TypeOf, UserOf
    <2> QED BY <1>1, <2>1, TimelyKept, PlacedKept DEF TimeInv
  <1> QED BY <1>1 DEF TimeInv

(* r gives up.                                                             *)
LEMMA GaveUp ==
    ASSUME TypeInv, TimeInv, NEW r \in Requests, Rollback(r),
           Goto(r, "rejected") \/ Goto(r, "failed"),
           UNCHANGED <<arg, clock, offers, arrived, odds, bets>>
    PROVE  TimeInv'
  <1>1. pc'[r] \notin Open
    BY DEF Goto, TypeInv, TypeOK, Open
  <1>2. Timely(r)'
    BY <1>1 DEF Timely, InTx, Open
  <1>3. Placed(r)'
    <2>1. Shutting(r)
      BY DEF Shutting, ShutSince, offers, GameOf, TypeOf, UserOf
    <2> QED BY <2>1, PlacedKept DEF TimeInv
  <1>4. \A q \in Requests \ {r} : pc'[q] = pc[q] /\ start'[q] = start[q]
    BY DEF Goto, Rollback, TypeInv, TypeOK
  <1> QED BY <1>2, <1>3, <1>4, OneMoves

(* r moves on without committing.                                          *)
LEMMA MovesOn ==
    ASSUME TypeInv, TimeInv, NEW r \in Requests,
           UNCHANGED <<arg, clock, offers, bets>>,
           NEW l \in {"new"} \cup Open \cup Final, Goto(r, l),
           \A q \in Requests \ {r} :
              /\ arrived'[q] = arrived[q] /\ odds'[q] = odds[q]
              /\ start'[q] = start[q],
           pc'[r] = l => Timely(r)'
    PROVE  TimeInv'
  <1>1. pc'[r] = l /\ \A q \in Requests \ {r} : pc'[q] = pc[q]
    BY DEF Goto, TypeInv, TypeOK
  <1>2. Shutting(r)
    BY DEF Shutting, ShutSince, offers, GameOf, TypeOf, UserOf
  <1>3. Placed(r)'
    BY <1>2, PlacedKept DEF TimeInv
  <1> QED BY <1>1, <1>3, OneMoves

(* What r knew already, it still knows one statement later.                *)
LEMMA SameFacts ==
    ASSUME NEW r \in Requests, UNCHANGED <<arg, clock, offers>>
    PROVE  /\ Enrolled(r)' <=> Enrolled(r)
           /\ ShutSince(r)' = ShutSince(r)
           /\ CutoffOf(r)' = CutoffOf(r) /\ StakeOf(r)' = StakeOf(r)
  BY DEF Enrolled, ShutSince, CutoffOf, offers, UserOf, GameOf, TypeOf, StakeOf

LEMMA ReceiveTime ==
    ASSUME TypeInv, TimeInv, NEW r \in Requests, Receive(r)
    PROVE  TimeInv'
  <1>1. PICK l \in {"lookup", "rejected"} : Goto(r, l)
    BY DEF Receive
  <1>2. /\ arrived' = [arrived EXCEPT ![r] = clock]
        /\ UNCHANGED <<arg, clock, offers, bets, odds, start>>
    BY DEF Receive, store, tx
  <1>3. pc'[r] = l => Timely(r)'
    <2>1. arrived'[r] = clock /\ clock \in Nat /\ Timeout \in Nat
      BY <1>2, TimeTypes DEF TypeInv, TypeOK
    <2> QED BY <1>2, <2>1 DEF Timely, Open, Admitting, Quoting, InTx
  <1>4. \A q \in Requests \ {r} : arrived'[q] = arrived[q]
    BY <1>2 DEF TypeInv, TypeOK
  <1>5. l \in {"new"} \cup Open \cup Final
    BY DEF Open, Final
  <1> QED BY <1>1, <1>2, <1>3, <1>4, <1>5, MovesOn

(* A request is admitted only when nothing shuts its bet out.              *)
LEMMA LookupTime ==
    ASSUME TypeInv, TimeInv, NEW r \in Requests, LookupRound(r)
    PROVE  TimeInv'
  <1>1. PICK l \in {"playing", "rejected"} :
           /\ Goto(r, l)
           /\ l = "playing" => \E now \in (clock - Skew)..(clock + Skew) :
                                  Admissible(r, now)
    BY DEF LookupRound
  <1>2. pc[r] = "lookup" /\ UNCHANGED <<arg, clock, offers, bets, arrived, odds, start>>
    BY DEF LookupRound, store, tx
  <1>3. ASSUME l = "playing" PROVE Enrolled(r) /\ ShutSince(r) = {Never}
    <2>1. AgentOf[UserOf(r)] \in Agents
      BY <1>2, AdmittedFacts DEF Open
    <2>2. AdminOf[AgentOf[UserOf(r)]] # None
      BY <1>1, <1>3 DEF Admissible
    <2>3. Enrolled(r)
      BY <2>1, <2>2, PlacementAssumption DEF Enrolled
    <2> QED BY <1>1, <1>3, <2>3 DEF Admissible, ShutSince
  <1>4. pc'[r] = l => Timely(r)'
    <2>1. Timely(r)
      BY DEF TimeInv
    <2> QED BY <1>2, <1>3, <2>1, SameFacts
            DEF Timely, Open, Admitting, Quoting, InTx
  <1>5. l \in {"new"} \cup Open \cup Final
    BY DEF Open, Final
  <1> QED BY <1>1, <1>2, <1>4, <1>5, MovesOn

(* The statements that find the odds.                                      *)
LEMMA RatesTime ==
    ASSUME TypeInv, TimeInv, NEW r \in Requests, ReadPlaying(r) \/ ReadGiving(r)
    PROVE  TimeInv'
  <1>1. /\ pc[r] \in {"playing", "giving"}
        /\ UNCHANGED <<arg, clock, offers, bets, arrived, start>>
    BY DEF ReadPlaying, ReadGiving, store, tx
  <1>2. /\ StakeOf(r) \in Nat /\ UserOf(r) \in Players /\ FamilyOf(r) \in Families
        /\ AgentOf[UserOf(r)] \in Agents
    BY <1>1, AdmittedFacts DEF Open
  <1>3. \/ (Goto(r, "giving") \/ Goto(r, "rejected")) /\ UNCHANGED odds
        \/ \E m \in Odds : Quote(r, m)
    <2>1. /\ Playing[UserOf(r)][FamilyOf(r)] \in Odds \cup {NoRate}
          /\ giving[AgentOf[UserOf(r)]][FamilyOf(r)] \in Odds \cup {NoRate}
      BY <1>2, PlacementAssumption DEF TypeInv, TypeOK
    <2> QED BY <2>1 DEF ReadPlaying, ReadGiving
  <1>4. PICK l \in {"giving", "rejected", "agent"} :
           /\ Goto(r, l)
           /\ IF l = "agent" THEN \E m \in Odds : ~(StakeOf(r) * m > MaxPayout)
                                     /\ odds' = [odds EXCEPT ![r] = m]
                             ELSE UNCHANGED odds
    BY <1>3 DEF Quote
  <1>5. l = "agent" => Quoted(r, odds'[r])
    <2> SUFFICES ASSUME l = "agent" PROVE Quoted(r, odds'[r])
      OBVIOUS
    <2>1. PICK m \in Odds : /\ ~(StakeOf(r) * m > MaxPayout)
                            /\ odds' = [odds EXCEPT ![r] = m]
      BY <1>4
    <2>2. m \in Nat /\ m # NoRate /\ MaxPayout \in Nat
      BY PlacementAssumption
    <2>3. StakeOf(r) * m \in Nat
      BY <1>2, <2>2
    <2>4. odds'[r] = m
      BY <2>1 DEF TypeInv, TypeOK
    <2> QED BY <2>1, <2>2, <2>3, <2>4 DEF Quoted
  <1>6. pc'[r] = l => Timely(r)'
    <2>1. Timely(r)
      BY DEF TimeInv
    <2>2. Quoted(r, odds[r])' <=> Quoted(r, odds'[r])
      BY <1>1 DEF Quoted, StakeOf
    <2> QED BY <1>1, <1>5, <2>1, <2>2, SameFacts
            DEF Timely, Open, Admitting, Quoting, InTx
  <1>7. \A q \in Requests \ {r} : odds'[q] = odds[q]
    BY <1>4 DEF TypeInv, TypeOK
  <1>8. l \in {"new"} \cup Open \cup Final
    BY DEF Open, Final
  <1> QED BY <1>1, <1>4, <1>6, <1>7, <1>8, MovesOn

(* The steps that carry what r knows along to the next statement.          *)
LEMMA CarryTime ==
    ASSUME TypeInv, TimeInv, NEW r \in Requests,
           UNCHANGED <<arg, clock, offers, bets, arrived, odds>>,
           NEW l \in Open \ Quoting, Goto(r, l), pc[r] \in Open \ Quoting,
           \A q \in Requests \ {r} : start'[q] = start[q],
           l \in InTx => arrived[r] <= start'[r] /\ start'[r] <= clock,
           l \in {"ledger", "commit"} => start'[r] <= CutoffOf(r)
    PROVE  TimeInv'
  <1>1. pc'[r] = l => Timely(r)'
    <2>1. Timely(r)
      BY DEF TimeInv
    <2>2. Quoted(r, odds[r])' <=> Quoted(r, odds[r])
      BY DEF Quoted, StakeOf
    <2> QED BY <2>1, <2>2, SameFacts DEF Timely, Admitting, Quoting
  <1> QED BY <1>1, MovesOn

LEMMA StatementsTime ==
    ASSUME TypeInv, TimeInv, NEW r \in Requests,
           \/ ReadGiven(r) \/ Begin(r) \/ LockWallets(r) \/ Debit(r)
           \/ InsertPrediction(r) \/ WriteLedger(r)
    PROVE  TimeInv'
  <1>0. /\ Timely(r) /\ clock \in Nat /\ arrived[r] \in Nat
        /\ start[r] \in Nat /\ CutoffOf(r) \in Int
    BY TimeTypes DEF TimeInv
  <1>1. CASE ReadGiven(r)
    <2>1. /\ pc[r] = "agent" /\ Goto(r, "begin")
          /\ UNCHANGED <<arg, clock, offers, bets, arrived, odds, start>>
      BY <1>1 DEF ReadGiven, store, tx
    <2>2. "begin" \in Open \ Quoting /\ "agent" \in Open \ Quoting
          /\ "begin" \notin InTx \cup {"ledger", "commit"}
      BY DEF Open, Quoting, InTx
    <2> QED BY <2>1, <2>2, CarryTime
  <1>2. CASE Begin(r)
    <2>1. /\ pc[r] = "begin" /\ Goto(r, "lock")
          /\ UNCHANGED <<arg, clock, offers, bets, arrived, odds>>
          /\ start' = [start EXCEPT ![r] = clock]
      BY <1>2 DEF Begin, store
    <2>2. "begin" \in Open \ Quoting /\ "lock" \in Open \ Quoting
      BY DEF Open, Quoting
    <2>3. start'[r] = clock /\ \A q \in Requests \ {r} : start'[q] = start[q]
      BY <2>1 DEF TypeInv, TypeOK
    <2>4. arrived[r] <= start'[r] /\ start'[r] <= clock
      BY <1>0, <2>1, <2>2, <2>3 DEF Timely
    <2> QED BY <2>1, <2>2, <2>3, <2>4, CarryTime
  <1>3. CASE LockWallets(r) \/ Debit(r) \/ InsertPrediction(r) \/ WriteLedger(r)
    <2>1. /\ pc[r] \in InTx
          /\ UNCHANGED <<arg, clock, offers, bets, arrived, odds>>
      BY <1>3 DEF LockWallets, Debit, InsertPrediction, WriteLedger, InTx, store
    <2>2. \/ Reject(r)
          \/ /\ UNCHANGED start
             /\ \/ Goto(r, "debit") \/ Goto(r, "insert")
                \/ Goto(r, "ledger") /\ ~(start[r] > CutoffOf(r))
                \/ Goto(r, "commit") /\ pc[r] = "ledger"
      BY <1>3 DEF LockWallets, Debit, InsertPrediction, WriteLedger, tx
    <2>3. CASE Reject(r)
      BY <2>1, <2>3, GaveUp DEF Reject
    <2>4. ASSUME UNCHANGED start,
                 NEW l \in {"debit", "insert", "ledger", "commit"}, Goto(r, l),
                 l \in {"ledger", "commit"} => start[r] <= CutoffOf(r)
          PROVE  TimeInv'
      <3>1. l \in Open \ Quoting /\ pc[r] \in Open \ Quoting
        BY <2>1 DEF Open, Quoting, InTx
      <3>2. arrived[r] <= start'[r] /\ start'[r] <= clock
        BY <1>0, <2>1, <2>4 DEF Timely
      <3> QED BY <2>1, <2>4, <3>1, <3>2, CarryTime
    <2>5. pc[r] = "ledger" => start[r] <= CutoffOf(r)
      BY <1>0 DEF Timely
    <2>6. ~(start[r] > CutoffOf(r)) => start[r] <= CutoffOf(r)
      BY <1>0
    <2> QED BY <2>2, <2>3, <2>4, <2>5, <2>6
  <1> QED BY <1>1, <1>2, <1>3

(* The bet is in: at most Timeout after its request arrived, and so after  *)
(* whatever shut it out later, and after its cutoff.                       *)
LEMMA CommitTime ==
    ASSUME TypeInv, TimeInv, NEW r \in Requests, Commit(r) \/ CommitUnacknowledged(r)
    PROVE  TimeInv'
  <1>1. /\ pc[r] = "commit"
        /\ bets' = [bets EXCEPT ![r] = [at |-> clock, odds |-> odds[r],
                                        agentOdds |-> agentOdds[r]]]
        /\ Rollback(r) /\ (Goto(r, "placed") \/ Goto(r, "failed"))
        /\ UNCHANGED <<arg, clock, offers, arrived, odds>>
    BY DEF Commit, CommitUnacknowledged, Publish
  <1>2. /\ Timely(r) /\ clock \in Nat /\ arrived[r] \in Nat
        /\ start[r] \in Nat /\ CutoffOf(r) \in Int /\ Timeout \in Nat
    BY TimeTypes DEF TimeInv
  <1>3. bets'[r].at = clock /\ bets'[r].odds = odds[r]
    BY <1>1 DEF TypeInv, TypeOK
  <1>4. /\ Enrolled(r) /\ Quoted(r, odds[r])
        /\ arrived[r] <= start[r] /\ start[r] <= CutoffOf(r)
        /\ clock <= arrived[r] + Timeout
        /\ \A since \in ShutSince(r) : since # Never => arrived[r] <= since
    BY <1>1, <1>2 DEF Timely, Open, Admitting, Quoting, InTx
  <1>5. clock <= CutoffOf(r) + Timeout
    BY <1>2, <1>4
  <1>6. ASSUME NEW since \in ShutSince(r), since # Never
        PROVE  clock <= since + Timeout
    <2>1. since \in Int /\ arrived[r] <= since
      BY <1>4, <1>6, TimeTypes
    <2> QED BY <1>2, <1>4, <2>1
  <1>7. Placed(r)'
    <2>1. Quoted(r, bets[r].odds)'
      BY <1>1, <1>3, <1>4 DEF Quoted, StakeOf
    <2> QED BY <1>1, <1>2, <1>3, <1>4, <1>5, <1>6, <2>1, SameFacts DEF Placed
  <1>8. Timely(r)'
    <2>1. pc'[r] \in {"placed", "failed"}
      BY <1>1 DEF Goto, TypeInv, TypeOK
    <2> QED BY <2>1 DEF Timely, InTx, Open
  <1>9. \A q \in Requests \ {r} :
           /\ pc'[q] = pc[q] /\ arrived'[q] = arrived[q] /\ odds'[q] = odds[q]
           /\ start'[q] = start[q] /\ bets'[q] = bets[q]
    BY <1>1 DEF Goto, Rollback, TypeInv, TypeOK
  <1> QED BY <1>1, <1>7, <1>8, <1>9, OneMoves

LEMMA RequestTime ==
    ASSUME TypeInv, TimeInv, NEW r \in Requests,
           Receive(r) \/ Advance(r) \/ CommitUnacknowledged(r) \/ Fail(r)
    PROVE  TimeInv'
  <1>1. CASE Fail(r)
    BY <1>1, GaveUp DEF Fail, store
  <1> QED BY <1>1, ReceiveTime, LookupTime, RatesTime, StatementsTime,
          CommitTime DEF Advance

-----------------------------------------------------------------------------
(* The other writers.                                                      *)

LEMMA CrashTime == ASSUME TypeInv, TimeInv, Crash PROVE TimeInv'
  <1> SUFFICES ASSUME NEW r \in Requests PROVE Timely(r)' /\ Placed(r)'
    BY DEF TimeInv
  <1>1. UNCHANGED <<arg, clock, offers, bets>> /\ pc'[r] \notin Open
    BY DEF Crash, store, Open
  <1>2. Timely(r)'
    BY <1>1 DEF Timely, InTx, Open
  <1>3. Shutting(r)
    BY <1>1 DEF Shutting, ShutSince, offers, GameOf, TypeOf, UserOf
  <1> QED BY <1>1, <1>2, <1>3, PlacedKept DEF TimeInv

(* Time passes only while every open request is within its deadline.       *)
LEMMA TickTime == ASSUME TypeInv, TimeInv, Tick PROVE TimeInv'
  <1> SUFFICES ASSUME NEW r \in Requests PROVE Timely(r)' /\ Placed(r)'
    BY DEF TimeInv
  <1>1. /\ pc[r] \in Open => clock < arrived[r] + Timeout
        /\ clock' = clock + 1
        /\ UNCHANGED <<arg, offers, bets, pc, arrived, odds, start>>
    BY DEF Tick, store, requests, tx
  <1>2. /\ Timely(r) /\ Placed(r) /\ clock \in Nat /\ arrived[r] \in Nat
        /\ start[r] \in Nat /\ Timeout \in Nat
    BY TimeTypes DEF TimeInv
  <1>3. /\ Enrolled(r)' <=> Enrolled(r)
        /\ ShutSince(r)' = ShutSince(r)
        /\ CutoffOf(r)' = CutoffOf(r) /\ StakeOf(r)' = StakeOf(r)
    BY <1>1 DEF Enrolled, ShutSince, CutoffOf, offers, UserOf, GameOf, TypeOf,
       StakeOf
  <1>4. Timely(r)'
    <2>1. pc[r] \in Open => arrived[r] <= clock' /\ clock' <= arrived[r] + Timeout
      BY <1>1, <1>2 DEF Timely
    <2>2. pc[r] \in InTx => arrived[r] <= start[r] /\ start[r] <= clock'
      BY <1>1, <1>2 DEF Timely
    <2> QED BY <1>1, <1>2, <1>3, <2>1, <2>2 DEF Timely, Quoted
  <1>5. Placed(r)'
    <2>1. bets[r] # NoBet => bets[r].at <= clock'
      <3>1. bets[r] # NoBet => bets[r].at \in Nat
        BY DEF TypeInv, TypeOK, Bet, Time
      <3> QED BY <1>1, <1>2, <3>1 DEF Placed
    <2> QED BY <1>1, <1>2, <1>3, <2>1 DEF Placed, Quoted
  <1> QED BY <1>4, <1>5

(* Whatever shuts bets out does so from now on.                            *)
LEMMA ShuttingOthers ==
    ASSUME TypeInv, NEW r \in Requests, Enrolled(r), UNCHANGED arg,
           \/ UNCHANGED <<inactive, disabled, cancelled, published>>
           \/ \E g \in Games : SetGameStatus(g) \/ CancelRound(g)
           \/ \E g \in Games, a \in Admins : SetEnablement(g, a)
           \/ \E g \in Games, s \in Sides : SubmitResult(g, s)
    PROVE  Shutting(r)
  <1> DEFINE g == GameOf(r)
             a == AdminOf[AgentOf[UserOf(r)]]
             s == CutoffGroup(TypeOf(r))
  <1>1. g \in Games /\ a \in Admins /\ s \in Sides
    BY TimeTypes DEF Enrolled, CutoffGroup, Sides
  <1>2. /\ GameOf(r)' = g /\ TypeOf(r)' = TypeOf(r)
        /\ UserOf(r)' = UserOf(r)
    BY DEF GameOf, TypeOf, UserOf
  <1>3. inactive'[g] \in {inactive[g], Never, clock}
    BY <1>1 DEF SetGameStatus, CancelRound, SetEnablement, SubmitResult,
       Toggled, TypeInv, TypeOK
  <1>4. cancelled'[g] \in {cancelled[g], Never, clock}
    BY <1>1 DEF SetGameStatus, CancelRound, SetEnablement, SubmitResult,
       TypeInv, TypeOK
  <1>5. disabled'[g][a] \in {disabled[g][a], Never, clock}
    <2>1. ASSUME NEW h \in Games, NEW b \in Admins, SetEnablement(h, b)
          PROVE  disabled'[g][a] \in {disabled[g][a], Never, clock}
      <3>1. PICK t \in {Never, clock} : disabled' = [disabled EXCEPT ![h][b] = t]
        BY <2>1 DEF SetEnablement, Toggled
      <3>2. disabled \in [Games -> [Admins -> Since]]
        BY DEF TypeInv, TypeOK
      <3> HIDE DEF g, a
      <3>3. CASE g = h /\ a = b
        BY <1>1, <3>1, <3>2, <3>3
      <3>4. CASE ~(g = h /\ a = b)
        BY <1>1, <3>1, <3>2, <3>4
      <3> QED BY <3>3, <3>4
    <2> HIDE DEF g, a
    <2> QED BY <2>1 DEF SetGameStatus, CancelRound, SubmitResult
  <1>6. published'[g][s] \in {published[g][s], Never, clock}
    <2>1. ASSUME NEW h \in Games, NEW x \in Sides, SubmitResult(h, x)
          PROVE  published'[g][s] \in {published[g][s], Never, clock}
      <3>1. published' = [published EXCEPT ![h][x] = clock]
        BY <2>1 DEF SubmitResult
      <3>2. published \in [Games -> [Sides -> Since]]
        BY DEF TypeInv, TypeOK
      <3> HIDE DEF g, s
      <3>3. CASE g = h /\ s = x
        BY <1>1, <3>1, <3>2, <3>3
      <3>4. CASE ~(g = h /\ s = x)
        BY <1>1, <3>1, <3>2, <3>4
      <3> QED BY <3>3, <3>4
    <2> HIDE DEF g, s
    <2> QED BY <2>1 DEF SetGameStatus, CancelRound, SetEnablement
  <1>7. ShutSince(r)' = {inactive'[g], cancelled'[g], published'[g][s],
                         disabled'[g][a]}
    BY <1>2 DEF ShutSince
  <1>8. ShutSince(r) = {inactive[g], cancelled[g], published[g][s],
                        disabled[g][a]}
    BY DEF ShutSince
  <1> HIDE DEF g, a, s
  <1> QED BY <1>3, <1>4, <1>5, <1>6, <1>7, <1>8 DEF Shutting

LEMMA OthersTime == ASSUME TypeInv, TimeInv, Others PROVE TimeInv'
  <1>1. CASE \/ \E g \in Games : GenerateRound(g) \/ SetGameStatus(g) \/ CancelRound(g)
             \/ \E g \in Games, a \in Admins : SetEnablement(g, a)
             \/ \E g \in Games, s \in Sides : SubmitResult(g, s)
             \/ \E a \in Agents, f \in Families : SetRates(a, f)
             \/ \E u \in Users, w \in Wallets, d \in CoreDeltas : CoreDelta(u, w, d)
    <2>1. UNCHANGED <<arg, clock, bets, pc, arrived, odds, start>>
      BY <1>1 DEF GenerateRound, SetGameStatus, CancelRound, SetEnablement,
         SubmitResult, SetRates, CoreDelta, store, requests, tx
    <2>2. ASSUME NEW r \in Requests, Enrolled(r) PROVE Shutting(r)
      <3>1. \/ UNCHANGED <<inactive, disabled, cancelled, published>>
            \/ \E g \in Games : SetGameStatus(g) \/ CancelRound(g)
            \/ \E g \in Games, a \in Admins : SetEnablement(g, a)
            \/ \E g \in Games, s \in Sides : SubmitResult(g, s)
        BY <1>1 DEF GenerateRound, SetRates, CoreDelta, offers
      <3> QED BY <2>1, <2>2, <3>1, ShuttingOthers
    <2>3. ASSUME NEW r \in Requests PROVE Timely(r)' /\ Placed(r)'
      BY <2>1, <2>2, TimelyKept, PlacedKept DEF TimeInv
    <2> QED BY <2>3 DEF TimeInv
  <1> QED BY <1>1, CrashTime, TickTime DEF Others

LEMMA NextTime == ASSUME TypeInv, TimeInv, [Next]_vars PROVE TimeInv'
  <1>1. CASE UNCHANGED vars
    <2>1. UNCHANGED <<arg, clock, offers, bets, pc, arrived, odds, start>>
      BY <1>1 DEF vars, store, tx
    <2>2. ASSUME NEW r \in Requests PROVE Timely(r)' /\ Placed(r)'
      <3>1. Shutting(r)
        BY <2>1 DEF Shutting, ShutSince, offers, GameOf, TypeOf, UserOf
      <3> QED BY <2>1, <3>1, TimelyKept, PlacedKept DEF TimeInv
    <2> QED BY <2>2 DEF TimeInv
  <1> QED BY <1>1, OthersTime, RequestTime DEF Next, Done

LEMMA InitTime == Init => TimeInv
  BY DEF Init, TimeInv, Timely, Placed, Open, InTx, Admitting, Quoting

LEMMA TimeInvariant == Spec => [](TypeInv /\ TimeInv)
  <1>1. Init => TypeInv /\ TimeInv
    BY InitTypeInv, InitTime
  <1>2. TypeInv /\ TimeInv /\ [Next]_vars => TypeInv' /\ TimeInv'
    BY NextTypeInv, NextTime
  <1> QED BY <1>1, <1>2, PTL DEF Spec

(* Place reads the round once and never again; no bet outlives what it was *)
(* admitted on by more than its request's deadline.                        *)
THEOREM StalenessIsBounded == Spec => []StaleReadsAreBounded
  <1>1. TimeInv => StaleReadsAreBounded
    BY DEF TimeInv, Placed, StaleReadsAreBounded
  <1> QED BY <1>1, TimeInvariant, PTL

(* The trigger on predictions, not the service's clock, is what keeps bets *)
(* in time: whatever time.Now() says, none commits later than a deadline   *)
(* after its cutoff.                                                       *)
THEOREM BetsAreInTime == Spec => []NoLateBet
  <1>1. TimeInv => NoLateBet
    BY DEF TimeInv, Placed, NoLateBet
  <1> QED BY <1>1, TimeInvariant, PTL

(* maxPayout: the payout of every bet taken fits the int4 column it will   *)
(* be written to.                                                          *)
THEOREM PayoutsFit == Spec => []EachPayoutFits
  <1>1. TimeInv => EachPayoutFits
    BY DEF TimeInv, Placed, Quoted, EachPayoutFits
  <1> QED BY <1>1, TimeInvariant, PTL

-----------------------------------------------------------------------------
(* Results, entered at any time.                                           *)

ResultInv ==
    \A g \in Games, s \in Sides : published[g][s] \in Since /\ published[g][s] <= clock

(* The result that shuts r's bet out.                                      *)
LEMMA ResultTypes ==
    ASSUME TypeInv, NEW r \in Requests
    PROVE  /\ GameOf(r) \in Games /\ CutoffGroup(TypeOf(r)) \in Sides
           /\ CutoffGroup(TypeOf(r)) \in GradedFrom(TypeOf(r))
           /\ ResultOf(r) \in Int /\ clock \in Nat /\ Never = -1
           /\ InstantOf(GameOf(r), CutoffGroup(TypeOf(r))) \in Nat
  <1>1. /\ GameOf(r) \in Games /\ CutoffGroup(TypeOf(r)) \in Sides
        /\ CutoffGroup(TypeOf(r)) \in GradedFrom(TypeOf(r))
    BY TimeTypes DEF CutoffGroup, GradedFrom, Sides
  <1>2. ResultOf(r) \in Since /\ clock \in Nat
    BY <1>1 DEF TypeInv, TypeOK, Time, ResultOf
  <1>3. InstantOf(GameOf(r), CutoffGroup(TypeOf(r))) \in Nat
    BY <1>1, PlacementAssumption DEF InstantOf
  <1> QED BY <1>1, <1>2, <1>3 DEF Since, Never

(* Only SubmitResult writes a pana, and only it grades.                    *)
LEMMA OnlyResultsPublish ==
    ASSUME [Next]_vars,
           ~ \E g \in Games, s \in Sides : SubmitResult(g, s)
    PROVE  /\ UNCHANGED <<published, graded, arg>>
           /\ clock' = clock \/ clock' = clock + 1
  <1>1. ASSUME NEW r \in Requests,
               Receive(r) \/ Advance(r) \/ CommitUnacknowledged(r) \/ Fail(r)
        PROVE  UNCHANGED <<published, graded, arg, clock>>
    BY <1>1 DEF Receive, Advance, LookupRound, ReadPlaying, ReadGiving,
       ReadGiven, Begin, LockWallets, Debit, InsertPrediction, WriteLedger,
       Commit, CommitUnacknowledged, Publish, Fail, offers, store
  <1>2. CASE Others
    BY <1>2 DEF Others, Tick, Crash, GenerateRound, SetGameStatus, CancelRound,
       SetEnablement, SetRates, CoreDelta, requests, offers, store
  <1>3. CASE UNCHANGED vars
    BY <1>3 DEF vars, offers, store
  <1> QED BY <1>1, <1>2, <1>3 DEF Next, Done

(* A pana that is there stays as it is; a new one bears the time.          *)
LEMMA ResultStep ==
    ASSUME TypeInv, [Next]_vars, NEW g \in Games, NEW s \in Sides
    PROVE  /\ clock' = clock \/ clock' = clock + 1
           /\ \/ published'[g][s] = published[g][s]
              \/ published[g][s] = Never /\ published'[g][s] = clock
  <1>1. ASSUME NEW h \in Games, NEW x \in Sides, SubmitResult(h, x)
        PROVE  /\ clock' = clock
               /\ \/ published'[g][s] = published[g][s]
                  \/ published[g][s] = Never /\ published'[g][s] = clock
    <2>1. /\ published' = [published EXCEPT ![h][x] = clock] /\ clock' = clock
          /\ published[h][x] = Never
      BY <1>1 DEF SubmitResult
    <2>2. published \in [Games -> [Sides -> Since]]
      BY DEF TypeInv, TypeOK
    <2>3. CASE g = h /\ s = x
      BY <2>1, <2>2, <2>3
    <2>4. CASE ~(g = h /\ s = x)
      BY <2>1, <2>2, <2>4
    <2> QED BY <2>1, <2>3, <2>4
  <1> QED BY <1>1, OnlyResultsPublish

LEMMA NextResultInv ==
    ASSUME TypeInv, TypeInv', ResultInv, [Next]_vars
    PROVE  ResultInv'
  <1> SUFFICES ASSUME NEW g \in Games, NEW s \in Sides
               PROVE  published'[g][s] \in Since /\ published'[g][s] <= clock'
    BY DEF ResultInv
  <1>1. published[g][s] \in Since /\ published[g][s] <= clock /\ clock \in Nat
    BY DEF ResultInv, TypeInv, TypeOK, Time
  <1>2. published'[g][s] \in Since
    BY DEF TypeInv, TypeOK
  <1> QED BY <1>1, <1>2, ResultStep DEF Since, Never

(* A request that has had its answer takes no further step, and only a     *)
(* commit places a bet.                                                    *)
LEMMA AnsweredRests ==
    ASSUME TypeInv, [Next]_vars, NEW r \in Requests
    PROVE  /\ arg' = arg
           /\ \/ Commit(r) \/ CommitUnacknowledged(r)
              \/ /\ bets'[r] = bets[r]
                 /\ pc[r] \in Final => pc'[r] = pc[r] /\ arrived'[r] = arrived[r]
  <1>1. ASSUME NEW q \in Requests, Commit(q) \/ CommitUnacknowledged(q), q # r
        PROVE  /\ bets'[r] = bets[r] /\ pc'[r] = pc[r]
               /\ arrived'[r] = arrived[r] /\ arg' = arg
    BY <1>1 DEF Commit, CommitUnacknowledged, Publish, Goto, TypeInv, TypeOK
  <1>2. ASSUME NEW q \in Requests,
               \/ Receive(q) \/ LookupRound(q) \/ ReadPlaying(q)
               \/ ReadGiving(q) \/ ReadGiven(q) \/ Begin(q)
               \/ LockWallets(q) \/ Debit(q) \/ InsertPrediction(q)
               \/ WriteLedger(q) \/ Fail(q)
        PROVE  /\ UNCHANGED <<arg, bets>>
               /\ pc[r] \in Final => pc'[r] = pc[r] /\ arrived'[r] = arrived[r]
    <2>1. UNCHANGED <<arg, bets>> /\ (UNCHANGED arrived \/ Receive(q))
      BY <1>2 DEF Receive, LookupRound, ReadPlaying, ReadGiving, ReadGiven,
         Begin, LockWallets, Debit, InsertPrediction, WriteLedger, Fail, store
    <2>2. pc[q] \in {"new"} \cup Open /\ \E l \in {"new"} \cup Open \cup Final : Goto(q, l)
      BY <1>2 DEF Receive, LookupRound, ReadPlaying, ReadGiving, ReadGiven,
         Begin, LockWallets, Debit, InsertPrediction, WriteLedger, Fail, Reject,
         Quote, Open, Final
    <2>3. pc[r] \in Final => q # r
      BY <2>2 DEF Open, Final
    <2> QED BY <2>1, <2>2, <2>3 DEF Receive, Goto, TypeInv, TypeOK
  <1>3. CASE Others \/ UNCHANGED vars
    <2>1. UNCHANGED <<arg, bets, arrived>>
      BY <1>3 DEF Others, Tick, Crash, GenerateRound, SetGameStatus,
         CancelRound, SetEnablement, SubmitResult, SetRates, CoreDelta,
         requests, store, vars
    <2>2. CASE Crash
      BY <2>1, <2>2 DEF Crash, Open, Final
    <2>3. UNCHANGED pc \/ Crash
      BY <1>3 DEF Others, Tick, GenerateRound, SetGameStatus, CancelRound,
         SetEnablement, SubmitResult, SetRates, CoreDelta, requests, vars
    <2> QED BY <2>1, <2>2, <2>3
  <1>4. CASE Commit(r) \/ CommitUnacknowledged(r)
    BY <1>4 DEF Commit, CommitUnacknowledged
  <1> QED BY <1>1, <1>2, <1>3, <1>4 DEF Next, Advance, Done

-----------------------------------------------------------------------------
(* What the check of line 115 buys.                                        *)

(* A bet that is in came before the result of its side.                    *)
Preceded(r) ==
    bets[r] # NoBet =>
       /\ pc[r] \in Final
       /\ arrived[r] <= clock
       /\ ResultOf(r) # Never => arrived[r] <= ResultOf(r)

LEMMA NextPreceded ==
    ASSUME TypeInv, TimeInv, [Next]_vars, NEW r \in Requests, Preceded(r)
    PROVE  Preceded(r)'
  <1> DEFINE g == GameOf(r)
             s == CutoffGroup(TypeOf(r))
  <1>1. g \in Games /\ s \in Sides /\ clock \in Nat /\ arrived[r] \in Nat
    BY TimeTypes, ResultTypes
  <1>2. ResultOf(r) = published[g][s] /\ ResultOf(r)' = published'[g][s]
    BY AnsweredRests DEF ResultOf, GameOf, TypeOf
  <1> HIDE DEF g, s
  <1>3. CASE Commit(r) \/ CommitUnacknowledged(r)
    <2>1. /\ pc[r] = "commit" /\ (Goto(r, "placed") \/ Goto(r, "failed"))
          /\ UNCHANGED <<clock, arrived, published>>
      BY <1>3 DEF Commit, CommitUnacknowledged, offers
    <2>2. pc'[r] \in Final
      BY <2>1 DEF Goto, Final, TypeInv, TypeOK
    <2>3. Timely(r) /\ pc[r] \in Open /\ pc[r] \in Open \ Admitting
      BY <2>1 DEF TimeInv, Open, Admitting
    <2>4. ResultOf(r) \in ShutSince(r)
      BY DEF ResultOf, ShutSince
    <2>5. arrived[r] <= clock /\ (ResultOf(r) # Never => arrived[r] <= ResultOf(r))
      BY <2>3, <2>4 DEF Timely
    <2> QED BY <1>2, <2>1, <2>2, <2>5 DEF Preceded
  <1>4. CASE /\ bets'[r] = bets[r]
             /\ pc[r] \in Final => pc'[r] = pc[r] /\ arrived'[r] = arrived[r]
    <2> SUFFICES ASSUME bets'[r] # NoBet
                 PROVE  /\ pc'[r] \in Final /\ arrived'[r] <= clock'
                        /\ ResultOf(r)' # Never => arrived'[r] <= ResultOf(r)'
      BY DEF Preceded
    <2>1. /\ pc'[r] \in Final /\ arrived'[r] = arrived[r] /\ arrived[r] <= clock
          /\ ResultOf(r) # Never => arrived[r] <= ResultOf(r)
      BY <1>4 DEF Preceded
    <2>2. /\ clock' = clock \/ clock' = clock + 1
          /\ ResultOf(r)' = ResultOf(r) \/ ResultOf(r)' = clock
      BY <1>1, <1>2, ResultStep
    <2>3. arrived'[r] <= clock'
      BY <1>1, <2>1, <2>2
    <2> QED BY <2>1, <2>2, <2>3
  <1> QED BY <1>3, <1>4, AnsweredRests

(* A result closes its side to every request that comes after it, however  *)
(* early it is entered: the promise of place.go:110-114.                   *)
THEOREM ResultsClose == Spec => []ResultsCloseTheirSide
  <1> DEFINE Inv == \A r \in Requests : Preceded(r)
  <1>1. Init => Inv
    BY DEF Init, Preceded
  <1>2. TypeInv /\ TimeInv /\ Inv /\ [Next]_vars => Inv'
    BY NextPreceded
  <1>3. Inv => ResultsCloseTheirSide
    BY DEF Preceded, ResultsCloseTheirSide
  <1> QED BY <1>1, <1>2, <1>3, TimeInvariant, PTL DEF Spec

-----------------------------------------------------------------------------
(* What the buffer buys.                                                   *)

(* A bet that commits does so before the instant of its side.              *)
LEMMA CommitAheadOfInstant ==
    ASSUME TypeInv, TimeInv, Timeout < Buffer,
           NEW r \in Requests, pc[r] = "commit"
    PROVE  clock < InstantOf(GameOf(r), CutoffGroup(TypeOf(r)))
  <1> DEFINE i == InstantOf(GameOf(r), CutoffGroup(TypeOf(r)))
  <1>1. CutoffOf(r) = i - Buffer
    BY DEF CutoffOf, Cutoff, InstantOf, CutoffGroup
  <1>2. /\ arrived[r] <= start[r] /\ start[r] <= CutoffOf(r)
        /\ clock <= arrived[r] + Timeout
    BY DEF TimeInv, Timely, Open, InTx
  <1>3. /\ clock \in Nat /\ arrived[r] \in Nat /\ start[r] \in Nat
        /\ CutoffOf(r) \in Int /\ Timeout \in Nat /\ Buffer \in Nat /\ i \in Nat
    BY TimeTypes, ResultTypes
  <1>4. clock < i
    <2> HIDE DEF i
    <2> QED BY <1>1, <1>2, <1>3
  <1> QED BY <1>4

(* Settlement grades every bet it finds: it strands none.                  *)
LEMMA SettlementStrandsNone ==
    ASSUME TypeInv, NEW g \in Games, NEW s \in Sides, SubmitResult(g, s),
           NEW r \in Requests, Gradable(r, Results(GameOf(r)))'
    PROVE  Gradable(r, Results(GameOf(r))) /\ ResultOf(r)' = ResultOf(r)
  <1>1. /\ UNCHANGED <<bets, arg>>
        /\ published' = [published EXCEPT ![g][s] = clock]
        /\ graded' = graded \cup {q \in Requests :
                                    /\ GameOf(q) = g
                                    /\ s \in GradedFrom(TypeOf(q))
                                    /\ Gradable(q, Results(g) \cup {s})}
    BY DEF SubmitResult, requests
  <1>2. GameOf(r)' = GameOf(r) /\ TypeOf(r)' = TypeOf(r)
    BY <1>1 DEF GameOf, TypeOf
  <1>3. /\ GameOf(r) \in Games /\ CutoffGroup(TypeOf(r)) \in Sides
        /\ CutoffGroup(TypeOf(r)) \in GradedFrom(TypeOf(r))
    BY ResultTypes
  <1>4. IF GameOf(r) = g THEN Results(GameOf(r))' \subseteq Results(g) \cup {s}
                         ELSE Results(GameOf(r))' = Results(GameOf(r))
    BY <1>1, <1>2, <1>3 DEF Results, TypeInv, TypeOK
  <1>5. CASE GameOf(r) # g
    <2>1. ResultOf(r)' = ResultOf(r)
      BY <1>1, <1>2, <1>3, <1>5 DEF ResultOf, TypeInv, TypeOK
    <2>2. r \notin graded
      BY <1>1 DEF Gradable
    <2> QED BY <1>1, <1>2, <1>4, <1>5, <2>1, <2>2 DEF Gradable
  <1>6. CASE GameOf(r) = g
    <2>1. /\ bets[r] # NoBet /\ r \notin graded'
          /\ GradedFrom(TypeOf(r)) \subseteq Results(g) \cup {s}
      BY <1>1, <1>2, <1>4, <1>6 DEF Gradable
    <2>2. r \notin graded
      BY <1>1, <2>1
    <2>3. Gradable(r, Results(g) \cup {s})
      BY <2>1, <2>2 DEF Gradable
    <2>4. s \notin GradedFrom(TypeOf(r))
      BY <1>1, <1>6, <2>1, <2>3
    <2>5. Gradable(r, Results(GameOf(r)))
      BY <1>6, <2>1, <2>2, <2>4 DEF Gradable
    <2>6. ResultOf(r)' = ResultOf(r)
      BY <1>1, <1>2, <1>3, <2>4 DEF ResultOf, TypeInv, TypeOK
    <2> QED BY <2>5, <2>6
  <1> QED BY <1>5, <1>6

LEMMA NextStrandedOnlyEarly ==
    ASSUME TypeInv, TimeInv, ResultInv, StrandedOnlyEarly, Timeout < Buffer,
           [Next]_vars
    PROVE  StrandedOnlyEarly'
  <1> SUFFICES ASSUME NEW r \in Requests, Gradable(r, Results(GameOf(r)))'
               PROVE  (ResultOf(r) < InstantOf(GameOf(r), CutoffGroup(TypeOf(r))))'
    BY DEF StrandedOnlyEarly
  <1>1. (InstantOf(GameOf(r), CutoffGroup(TypeOf(r))))'
           = InstantOf(GameOf(r), CutoffGroup(TypeOf(r)))
    BY AnsweredRests DEF InstantOf, CutoffGroup, GameOf, TypeOf
  <1>2. ASSUME Gradable(r, Results(GameOf(r))), ResultOf(r)' = ResultOf(r)
        PROVE  (ResultOf(r) < InstantOf(GameOf(r), CutoffGroup(TypeOf(r))))'
    BY <1>1, <1>2 DEF StrandedOnlyEarly
  <1>3. CASE \E g \in Games, s \in Sides : SubmitResult(g, s)
    BY <1>2, <1>3, SettlementStrandsNone
  <1>4. CASE ~ \E g \in Games, s \in Sides : SubmitResult(g, s)
    <2>1. UNCHANGED <<published, graded, arg>>
      BY <1>4, OnlyResultsPublish
    <2>2. /\ TypeOf(r)' = TypeOf(r) /\ ResultOf(r)' = ResultOf(r)
          /\ Results(GameOf(r))' = Results(GameOf(r))
      BY <2>1 DEF GameOf, TypeOf, Results, ResultOf
    <2>3. CASE bets'[r] = bets[r]
      BY <1>2, <2>1, <2>2, <2>3 DEF Gradable
    <2>4. CASE Commit(r) \/ CommitUnacknowledged(r)
      <3>1. clock < InstantOf(GameOf(r), CutoffGroup(TypeOf(r)))
        BY <2>4, CommitAheadOfInstant DEF Commit, CommitUnacknowledged
      <3>2. ResultOf(r) <= clock
        BY ResultTypes DEF ResultInv, ResultOf
      <3> QED BY <1>1, <2>2, <3>1, <3>2, ResultTypes
    <2> QED BY <2>3, <2>4, AnsweredRests
  <1> QED BY <1>3, <1>4

(* Where requests end within the buffer that the cutoff leaves before its  *)
(* instant, a bet that no result grades any more is the work of a result   *)
(* entered before that instant: later ones find every bet of their side.   *)
THEOREM BufferKeepsBetsGraded ==
    ASSUME Timeout < Buffer
    PROVE  Spec => []StrandedOnlyEarly
  <1> DEFINE Inv == TypeInv /\ TimeInv /\ ResultInv /\ StrandedOnlyEarly
  <1>1. Init => Inv
    <2>1. Init => ResultInv
      BY DEF Init, ResultInv, Since, Never
    <2>2. Init => StrandedOnlyEarly
      BY DEF Init, StrandedOnlyEarly, Gradable
    <2> QED BY <2>1, <2>2, InitTypeInv, InitTime
  <1>2. Inv /\ [Next]_vars => Inv'
    BY NextTypeInv, NextTime, NextResultInv, NextStrandedOnlyEarly
  <1>3. Inv => StrandedOnlyEarly
    OBVIOUS
  <1> QED BY <1>1, <1>2, <1>3, PTL DEF Spec

-----------------------------------------------------------------------------
(* Prices.                                                                 *)

(* The Agent's rate is asked for only if the Player has none of its own.   *)
Fallback == \A r \in Requests :
    pc[r] = "giving" => Playing[UserOf(r)][FamilyOf(r)] = NoRate

LEMMA NextFallback == ASSUME TypeInv, Fallback, [Next]_vars PROVE Fallback'
  <1> SUFFICES ASSUME NEW r \in Requests, pc'[r] = "giving"
               PROVE  (Playing[UserOf(r)][FamilyOf(r)])' = NoRate
    BY DEF Fallback
  <1>1. ASSUME UNCHANGED arg, pc'[r] = pc[r] PROVE (Playing[UserOf(r)][FamilyOf(r)])' = NoRate
    BY <1>1 DEF Fallback, UserOf, FamilyOf, TypeOf
  <1>2. ASSUME NEW q \in Requests, ReadPlaying(q)
        PROVE  (Playing[UserOf(r)][FamilyOf(r)])' = NoRate
    <2>1. UNCHANGED arg /\ \E l \in {"agent", "rejected", "giving"} : Goto(q, l)
      BY <1>2 DEF ReadPlaying, Quote
    <2>2. CASE q = r
      <3>1. Playing[UserOf(r)][FamilyOf(r)] = NoRate
        BY <1>2, <2>2 DEF ReadPlaying, Quote, Goto, TypeInv, TypeOK
      <3> QED BY <2>1, <3>1 DEF UserOf, FamilyOf, TypeOf
    <2>3. CASE q # r
      <3>1. pc'[r] = pc[r]
        BY <2>1, <2>3 DEF Goto, TypeInv, TypeOK
      <3> QED BY <1>1, <2>1, <3>1
    <2> QED BY <2>2, <2>3
  <1>3. ASSUME NEW q \in Requests,
               \/ Receive(q) \/ LookupRound(q) \/ ReadGiving(q) \/ ReadGiven(q)
               \/ Begin(q) \/ LockWallets(q) \/ Debit(q) \/ InsertPrediction(q)
               \/ WriteLedger(q) \/ Commit(q) \/ CommitUnacknowledged(q)
               \/ Fail(q)
        PROVE  (Playing[UserOf(r)][FamilyOf(r)])' = NoRate
    <2>1. /\ UNCHANGED arg
          /\ \E l \in ({"new"} \cup Open \cup Final) \ {"giving"} : Goto(q, l)
      BY <1>3 DEF Receive, LookupRound, ReadGiving, ReadGiven, Begin,
         LockWallets, Debit, InsertPrediction, WriteLedger, Commit,
         CommitUnacknowledged, Fail, Quote, Reject, Open, Final
    <2>2. pc'[r] = pc[r]
      BY <2>1 DEF Goto, TypeInv, TypeOK
    <2> QED BY <1>1, <2>1, <2>2
  <1>4. CASE Crash
    BY <1>4 DEF Crash, Open
  <1>5. CASE UNCHANGED <<arg, pc>>
    BY <1>1, <1>5
  <1>6. CASE Others \/ UNCHANGED vars
    BY <1>4, <1>5, <1>6 DEF Others, Tick, GenerateRound, SetGameStatus,
       CancelRound, SetEnablement, SubmitResult, SetRates, CoreDelta, requests,
       vars
  <1> QED BY <1>2, <1>3, <1>6 DEF Next, Advance, Done

(* The odds of a bet are found by two queries, and rates may change        *)
(* between them; the multiplier is still one that was offered when read.   *)
THEOREM OddsWereOffered == Spec => OddsAreEffective
  <1> DEFINE A == \A r \in Requests :
                     odds'[r] # odds[r] => odds'[r] = EffectiveOdds(r)
  <1>1. Init => Fallback
    BY DEF Init, Fallback
  <1>2. Fallback /\ TypeInv /\ [Next]_vars => A
    <2> SUFFICES ASSUME Fallback, TypeInv, [Next]_vars, NEW r \in Requests,
                        odds'[r] # odds[r]
                 PROVE  odds'[r] = EffectiveOdds(r)
      OBVIOUS
    <2>1. ASSUME NEW q \in Requests, ReadPlaying(q) \/ ReadGiving(q)
          PROVE  odds'[r] = EffectiveOdds(r)
      <3>1. PICK m \in {EffectiveOdds(q)} :
               UNCHANGED odds \/ odds' = [odds EXCEPT ![q] = m]
        BY <2>1 DEF ReadPlaying, ReadGiving, Quote, Fallback, EffectiveOdds
      <3> QED BY <3>1 DEF TypeInv, TypeOK
    <2>2. ASSUME NEW q \in Requests,
                 \/ Receive(q) \/ LookupRound(q) \/ ReadGiven(q) \/ Begin(q)
                 \/ LockWallets(q) \/ Debit(q) \/ InsertPrediction(q)
                 \/ WriteLedger(q) \/ Commit(q) \/ CommitUnacknowledged(q)
                 \/ Fail(q)
          PROVE  UNCHANGED odds
      BY <2>2 DEF Receive, LookupRound, ReadGiven, Begin, LockWallets, Debit,
         InsertPrediction, WriteLedger, Commit, CommitUnacknowledged, Fail
    <2>3. CASE Others \/ UNCHANGED vars
      BY <2>3 DEF Others, Tick, Crash, GenerateRound, SetGameStatus,
         CancelRound, SetEnablement, SubmitResult, SetRates, CoreDelta,
         requests, vars
    <2> QED BY <2>1, <2>2, <2>3 DEF Next, Advance, Done
  <1>3. Fallback /\ TypeInv /\ [Next]_vars => Fallback'
    BY NextFallback
  <1>4. TypeInv /\ [Next]_vars => TypeInv'
    BY NextTypeInv
  <1> QED BY <1>1, <1>2, <1>3, <1>4, InitTypeInv, PTL DEF Spec, OddsAreEffective

=============================================================================
