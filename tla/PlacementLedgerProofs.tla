------------------------ MODULE PlacementLedgerProofs ------------------------
(***************************************************************************)
(* Proofs about the money of Placement: the ledger explains every wallet,  *)
(* each bet is paid for exactly once, and from the main wallet first.      *)
(*                                                                         *)
(* The inductive invariant says what the row lock buys: from LockWallets   *)
(* to the end of its transaction a request holds the lock of its Player    *)
(* (LockInv), so what it computed from the wallets is still true (Own),    *)
(* and the seqs it drew are later than every committed row of the Player.  *)
(***************************************************************************)
EXTENDS PlacementProofs

Holding == {"debit", "insert", "ledger", "commit"}

LockInv == \A r \in Requests : pc[r] \in Holding => rowLock[UserOf(r)] = r

(* The rows that r has written, while they are not yet committed.          *)
OwnRows(r) ==
    /\ \A e \in rows[r] :
          /\ e.user = UserOf(r) /\ e.bet = r /\ e.seq < nextSeq
          /\ leg[r][e.wallet] > 0
          /\ e.delta = -leg[r][e.wallet] /\ e.after = after[r][e.wallet]
          /\ \A f \in ledger : f.user = UserOf(r) => f.seq < e.seq
    /\ \A e, f \in rows[r] :
          /\ e.wallet = f.wallet => e = f
          /\ e.wallet = "MAIN" /\ f.wallet = "WINNINGS" => e.seq < f.seq
    /\ \A w \in Wallets : leg[r][w] > 0 => \E e \in rows[r] : e.wallet = w

Own(r) ==
    /\ pc[r] \in Holding =>
          /\ leg[r] = Split(balance[UserOf(r)], StakeOf(r))
          /\ StakeOf(r) <= Total(balance[UserOf(r)])
    /\ pc[r] = "debit" => after[r] = balance[UserOf(r)]
    /\ pc[r] \in {"insert", "ledger", "commit"} =>
          \A w \in Wallets : after[r][w] = balance[UserOf(r)][w] - leg[r][w]
    /\ IF pc[r] = "commit" THEN OwnRows(r) ELSE rows[r] = {}
    /\ bets[r] # NoBet => pc[r] \in {"placed", "failed"}

SeqInv == \A e \in ledger : e.seq < nextSeq

TxInv == LockInv /\ SeqInv /\ \A r \in Requests : Own(r)

MoneyInv == LedgerExplainsBalance /\ StakeTakenOnce /\ MainWalletFirst

WalletInv == TypeInv /\ TxInv /\ MoneyInv
-----------------------------------------------------------------------------
(* The lock.                                                               *)

(* Two requests of one Player never hold its lock at once.                 *)
LEMMA Exclusive ==
    ASSUME LockInv, NEW r \in Requests, NEW q \in Requests,
           pc[r] \in Holding, pc[q] \in Holding, UserOf(r) = UserOf(q)
    PROVE  r = q
  BY DEF LockInv

(* A holder shuts out those who need the row to be free.                   *)
LEMMA Shut ==
    ASSUME LockInv, NEW q \in Requests, pc[q] \in Holding
    PROVE  rowLock[UserOf(q)] # None
  BY PlacementAssumption DEF LockInv

(* A split debit adds up to the stake and is covered by each wallet.       *)
LEMMA SplitFacts ==
    ASSUME NEW b \in Amount, NEW n \in Nat \ {0}, n <= Total(b)
    PROVE  /\ Split(b, n)["MAIN"] + Split(b, n)["WINNINGS"] = n
           /\ \A w \in Wallets : Split(b, n)[w] <= b[w]
           /\ Split(b, n)["WINNINGS"] > 0 => Split(b, n)["MAIN"] = b["MAIN"]
           /\ Split(b, n)["MAIN"] > 0 \/ Split(b, n)["WINNINGS"] > 0
  BY DEF Split, FromMain, Total, Amount, Wallets

(* What a request that makes no step of its own knows stays true, as long  *)
(* as its wallets stay as they are.                                        *)
LEMMA OwnKept ==
    ASSUME NEW q \in Requests, TypeInv, Own(q), UNCHANGED arg,
           pc'[q] = pc[q], leg'[q] = leg[q], after'[q] = after[q],
           rows'[q] = rows[q], bets'[q] = bets[q],
           pc[q] \in Holding => balance'[UserOf(q)] = balance[UserOf(q)],
           nextSeq' \in Nat, nextSeq <= nextSeq',
           pc[q] = "commit" =>
              \A e \in ledger' : e.user = UserOf(q) => e \in ledger
    PROVE  Own(q)'
  <1>1. UserOf(q)' = UserOf(q) /\ StakeOf(q)' = StakeOf(q)
    BY DEF UserOf, StakeOf
  <1>2. \A e \in rows[q] : e.seq \in Nat
    BY DEF TypeInv, TypeOK, Row
  <1>3. nextSeq \in Nat
    BY DEF TypeInv, TypeOK
  <1>4. ASSUME pc[q] = "commit" PROVE OwnRows(q)'
    <2>1. OwnRows(q)
      BY <1>4 DEF Own
    <2> QED BY <1>1, <1>2, <1>3, <1>4, <2>1 DEF OwnRows
  <1> QED BY <1>1, <1>4 DEF Own, Holding

-----------------------------------------------------------------------------
(* TxInv is inductive.                                                     *)

(* A step that touches neither locks nor transactions nor the wallets.     *)
LEMMA QuietTxInv ==
    ASSUME TypeInv, TxInv,
           UNCHANGED <<balance, ledger, bets, rowLock, nextSeq, leg, after,
                       rows, arg>>,
           \A q \in Requests : pc'[q] # pc[q] =>
              /\ pc[q] \notin Holding \cup {"placed", "failed"}
              /\ pc'[q] \notin Holding
    PROVE  TxInv'
  <1>1. ASSUME NEW q \in Requests PROVE Own(q)'
    <2>1. Own(q) /\ nextSeq \in Nat
      BY DEF TxInv, TypeInv, TypeOK
    <2>2. CASE pc'[q] = pc[q]
      BY <2>1, <2>2, OwnKept
    <2>3. CASE pc'[q] # pc[q]
      BY <2>1, <2>3 DEF Own, Holding
    <2> QED BY <2>2, <2>3
  <1>2. LockInv'
    BY DEF TxInv, LockInv, UserOf
  <1> QED BY <1>1, <1>2 DEF TxInv, SeqInv

(* A request gives up: its lock and its transaction go.                    *)
LEMMA RollbackTxInv ==
    ASSUME TypeInv, TxInv, NEW r \in Requests, pc[r] \in Open, Rollback(r),
           Goto(r, "rejected") \/ Goto(r, "failed"),
           UNCHANGED <<balance, ledger, bets, nextSeq, arg>>
    PROVE  TxInv'
  <1>1. pc'[r] \in {"rejected", "failed"} /\ bets[r] = NoBet
    BY DEF TypeInv, TypeOK, TxInv, Own, Goto, Open
  <1>2. ASSUME NEW q \in Requests PROVE Own(q)'
    <2>1. CASE q = r
      BY <1>1, <2>1 DEF Own, Holding, Rollback, TypeInv, TypeOK
    <2>2. CASE q # r
      <3>1. /\ pc'[q] = pc[q] /\ leg'[q] = leg[q] /\ after'[q] = after[q]
            /\ rows'[q] = rows[q]
        BY <2>2 DEF Goto, Rollback, TypeInv, TypeOK
      <3>2. Own(q) /\ nextSeq \in Nat
        BY DEF TxInv, TypeInv, TypeOK
      <3> QED BY <3>1, <3>2, OwnKept
    <2> QED BY <2>1, <2>2
  <1>3. LockInv'
    <2> SUFFICES ASSUME NEW q \in Requests, pc'[q] \in Holding
                 PROVE  rowLock'[UserOf(q)] = q
      BY DEF LockInv, UserOf
    <2>1. q # r
      BY <1>1 DEF Holding
    <2>2. pc[q] \in Holding
      BY <2>1 DEF Goto, TypeInv, TypeOK
    <2>3. rowLock[UserOf(q)] = q
      BY <2>2 DEF TxInv, LockInv
    <2>4. UserOf(q) \in Users
      BY <2>2, AdmittedFacts DEF Holding, Open
    <2> QED BY <2>1, <2>3, <2>4 DEF Rollback
  <1> QED BY <1>2, <1>3 DEF TxInv, SeqInv

(* A holder other than r keeps what it knows while r alone moves on and    *)
(* the lock of r's Player comes to r or stays with it.                     *)
LEMMA OthersKept ==
    ASSUME TypeInv, TxInv, NEW r \in Requests, pc[r] \in Open,
           UNCHANGED <<balance, ledger, bets, arg>>,
           NEW l \in {"debit", "insert", "ledger", "commit"}, Goto(r, l),
           rowLock[UserOf(r)] \in {None, r},
           rowLock' = [rowLock EXCEPT ![UserOf(r)] = r],
           \A q \in Requests \ {r} :
              leg'[q] = leg[q] /\ after'[q] = after[q] /\ rows'[q] = rows[q],
           nextSeq' \in Nat, nextSeq <= nextSeq',
           Own(r)'
    PROVE  TxInv'
  <1>1. ASSUME NEW q \in Requests PROVE Own(q)'
    <2>1. CASE q = r
      BY <2>1
    <2>2. CASE q # r
      <3>1. pc'[q] = pc[q]
        BY <2>2 DEF Goto, TypeInv, TypeOK
      <3>2. Own(q)
        BY DEF TxInv
      <3> QED BY <2>2, <3>1, <3>2, OwnKept
    <2> QED BY <2>1, <2>2
  <1>2. LockInv'
    <2> SUFFICES ASSUME NEW q \in Requests, pc'[q] \in Holding
                 PROVE  rowLock'[UserOf(q)] = q
      BY DEF LockInv, UserOf
    <2>0. UserOf(r) \in Users
      BY AdmittedFacts
    <2>1. CASE q = r
      BY <2>0, <2>1 DEF TypeInv, TypeOK
    <2>2. CASE q # r
      <3>1. pc[q] \in Holding
        BY <2>2 DEF Goto, TypeInv, TypeOK
      <3>2. rowLock[UserOf(q)] = q
        BY <3>1 DEF TxInv, LockInv
      <3>3. q # None
        BY PlacementAssumption
      <3>4. UserOf(q) # UserOf(r)
        BY <2>2, <3>2, <3>3
      <3> QED BY <3>2, <3>4 DEF TypeInv, TypeOK
    <2> QED BY <2>1, <2>2
  <1>3. SeqInv'
    <2>1. \A e \in ledger : e.seq \in Nat /\ e.seq < nextSeq
      BY DEF TxInv, SeqInv, TypeInv, TypeOK, Row
    <2>2. nextSeq \in Nat
      BY DEF TypeInv, TypeOK
    <2> QED BY <2>1, <2>2 DEF SeqInv
  <1> QED BY <1>1, <1>2, <1>3 DEF TxInv

LEMMA LockTxInv ==
    ASSUME TypeInv, TxInv, NEW r \in Requests, LockWallets(r)
    PROVE  TxInv'
  <1>a. pc[r] \in Open /\ pc[r] = "lock"
    BY DEF LockWallets, Open
  <1>1. CASE Total(balance[UserOf(r)]) < StakeOf(r)
    BY <1>a, <1>1, RollbackTxInv DEF LockWallets, Reject, store
  <1>2. CASE ~(Total(balance[UserOf(r)]) < StakeOf(r))
    <2>1. /\ rowLock[UserOf(r)] = None
          /\ rowLock' = [rowLock EXCEPT ![UserOf(r)] = r]
          /\ leg' = [leg EXCEPT ![r] = Split(balance[UserOf(r)], StakeOf(r))]
          /\ after' = [after EXCEPT ![r] = balance[UserOf(r)]]
          /\ rows' = rows /\ Goto(r, "debit")
          /\ UNCHANGED <<balance, ledger, bets, nextSeq, arg>>
      BY <1>2 DEF LockWallets, store
    <2>2. UserOf(r) \in Users /\ StakeOf(r) \in Nat
      BY <1>a, AdmittedFacts
    <2>3. Total(balance[UserOf(r)]) \in Nat
      BY <2>2 DEF TypeInv, TypeOK, Amount, Total, Wallets
    <2>4. /\ pc'[r] = "debit" /\ rows[r] = {} /\ bets[r] = NoBet
          /\ leg'[r] = Split(balance[UserOf(r)], StakeOf(r))
          /\ after'[r] = balance[UserOf(r)]
      BY <1>a, <2>1 DEF TxInv, Own, Goto, TypeInv, TypeOK
    <2>5. UserOf(r)' = UserOf(r) /\ StakeOf(r)' = StakeOf(r)
      BY <2>1 DEF UserOf, StakeOf
    <2>6. Own(r)'
      BY <1>2, <2>1, <2>2, <2>3, <2>4, <2>5 DEF Own
    <2>7. \A q \in Requests \ {r} :
             leg'[q] = leg[q] /\ after'[q] = after[q] /\ rows'[q] = rows[q]
      BY <2>1 DEF TypeInv, TypeOK
    <2>8. nextSeq' \in Nat /\ nextSeq <= nextSeq'
      BY <2>1 DEF TypeInv, TypeOK
    <2>9. rowLock[UserOf(r)] \in {None, r} /\ UNCHANGED <<balance, ledger, bets, arg>>
      BY <2>1
    <2> QED BY <1>a, <2>1, <2>6, <2>7, <2>8, <2>9, OthersKept
  <1> QED BY <1>1, <1>2

(* The lock of its Player is r's, and taking it again changes nothing.     *)
LEMMA Relock ==
    ASSUME TypeInv, TxInv, NEW r \in Requests, pc[r] \in Holding
    PROVE  /\ rowLock[UserOf(r)] = r
           /\ rowLock = [rowLock EXCEPT ![UserOf(r)] = r]
  BY DEF TxInv, LockInv, TypeInv, TypeOK

(* Under the lock the UPDATEs never find a wallet short.                   *)
LEMMA DebitTxInv ==
    ASSUME TypeInv, TxInv, NEW r \in Requests, Debit(r)
    PROVE  TxInv'
  <1> DEFINE u == UserOf(r)
  <1>1. pc[r] = "debit" /\ pc[r] \in Open /\ pc[r] \in Holding
    BY DEF Debit, Open, Holding
  <1>2. u \in Users /\ StakeOf(r) \in Nat \ {0}
    BY <1>1, AdmittedFacts
  <1>3. balance[u] \in Amount /\ leg[r] \in Amount /\ nextSeq \in Nat
    BY <1>2 DEF TypeInv, TypeOK
  <1>4. /\ leg[r] = Split(balance[u], StakeOf(r)) /\ after[r] = balance[u]
        /\ StakeOf(r) <= Total(balance[u]) /\ rows[r] = {} /\ bets[r] = NoBet
    BY <1>1 DEF TxInv, Own
  <1>5. \A w \in Wallets : leg[r][w] <= balance[u][w]
    BY <1>2, <1>3, <1>4, SplitFacts
  <1>6. ~ \E w \in Wallets : leg[r][w] > 0 /\ balance[u][w] < leg[r][w]
    BY <1>3, <1>5 DEF Amount
  <1>7. /\ rowLock' = [rowLock EXCEPT ![u] = r]
        /\ after' = [after EXCEPT ![r] =
                       [w \in Wallets |-> IF leg[r][w] > 0
                                          THEN balance[u][w] - leg[r][w]
                                          ELSE @[w]]]
        /\ Goto(r, "insert")
        /\ UNCHANGED <<leg, rows, balance, ledger, bets, nextSeq, arg>>
    BY <1>6 DEF Debit, store
  <1>8. \A w \in Wallets : after'[r][w] = balance[u][w] - leg[r][w]
    BY <1>3, <1>4, <1>7 DEF TypeInv, TypeOK, Amount
  <1>9. pc'[r] = "insert" /\ UserOf(r)' = u /\ StakeOf(r)' = StakeOf(r)
    BY <1>7 DEF Goto, TypeInv, TypeOK, UserOf, StakeOf
  <1>10. Own(r)'
    BY <1>4, <1>7, <1>8, <1>9 DEF Own
  <1>11. \A q \in Requests \ {r} :
            leg'[q] = leg[q] /\ after'[q] = after[q] /\ rows'[q] = rows[q]
    BY <1>7 DEF TypeInv, TypeOK
  <1>12. nextSeq' \in Nat /\ nextSeq <= nextSeq'
    BY <1>3, <1>7
  <1>13. rowLock[u] \in {None, r} /\ UNCHANGED <<balance, ledger, bets, arg>>
    BY <1>7 DEF Debit
  <1> QED BY <1>1, <1>7, <1>10, <1>11, <1>12, <1>13, OthersKept

LEMMA InsertTxInv ==
    ASSUME TypeInv, TxInv, NEW r \in Requests, InsertPrediction(r)
    PROVE  TxInv'
  <1>1. pc[r] = "insert" /\ pc[r] \in Open /\ pc[r] \in Holding
    BY DEF InsertPrediction, Open, Holding
  <1>2. CASE start[r] > CutoffOf(r)
    BY <1>1, <1>2, RollbackTxInv DEF InsertPrediction, Reject, store
  <1>3. CASE ~(start[r] > CutoffOf(r))
    <2>1. /\ Goto(r, "ledger")
          /\ UNCHANGED <<rowLock, leg, after, rows, balance, ledger, bets,
                         nextSeq, arg>>
      BY <1>3 DEF InsertPrediction, store, tx
    <2>2. pc'[r] = "ledger" /\ UserOf(r)' = UserOf(r) /\ StakeOf(r)' = StakeOf(r)
      BY <2>1 DEF Goto, TypeInv, TypeOK, UserOf, StakeOf
    <2>3. Own(r)'
      BY <1>1, <2>1, <2>2 DEF TxInv, Own, Holding
    <2>4. rowLock[UserOf(r)] \in {None, r}
          /\ rowLock' = [rowLock EXCEPT ![UserOf(r)] = r]
      BY <1>1, <2>1, Relock
    <2>5. nextSeq' \in Nat /\ nextSeq <= nextSeq'
      BY <2>1 DEF TypeInv, TypeOK
    <2> QED BY <1>1, <2>1, <2>3, <2>4, <2>5, OthersKept
  <1> QED BY <1>2, <1>3

(* The rows take the seqs after every row there is.                        *)
LEMMA WriteTxInv ==
    ASSUME TypeInv, TxInv, NEW r \in Requests, WriteLedger(r)
    PROVE  TxInv'
  <1> DEFINE main == leg[r]["MAIN"] > 0
             won  == leg[r]["WINNINGS"] > 0
             next == IF main THEN nextSeq + 1 ELSE nextSeq
             new  == (IF main THEN {DebitRow(r, "MAIN", nextSeq)} ELSE {})
                       \cup (IF won THEN {DebitRow(r, "WINNINGS", next)} ELSE {})
  <1>1. pc[r] = "ledger" /\ pc[r] \in Open /\ pc[r] \in Holding
    BY DEF WriteLedger, Open, Holding
  <1>2. /\ rows' = [rows EXCEPT ![r] = new]
        /\ nextSeq' = (IF won THEN next + 1 ELSE next)
        /\ Goto(r, "commit")
        /\ UNCHANGED <<rowLock, leg, after, balance, ledger, bets, arg>>
    BY DEF WriteLedger, store
  <1>3. nextSeq \in Nat /\ \A w \in Wallets : leg[r][w] \in Nat
    BY DEF TypeInv, TypeOK, Amount
  <1>4. nextSeq' \in Nat /\ nextSeq <= nextSeq'
    BY <1>2, <1>3
  <1>5. /\ pc'[r] = "commit" /\ rows'[r] = new
        /\ UserOf(r)' = UserOf(r) /\ StakeOf(r)' = StakeOf(r)
    BY <1>2 DEF Goto, TypeInv, TypeOK, UserOf, StakeOf
  <1>6. OwnRows(r)'
    <2>1. \A f \in ledger : f.seq \in Nat /\ f.seq < nextSeq
      BY DEF TxInv, SeqInv, TypeInv, TypeOK, Row
    <2>2. ASSUME NEW e \in new
          PROVE  \/ main /\ e = DebitRow(r, "MAIN", nextSeq)
                 \/ won /\ e = DebitRow(r, "WINNINGS", next)
      OBVIOUS
    <2>3. ASSUME NEW e \in new
          PROVE  /\ e.user = UserOf(r) /\ e.bet = r /\ e.seq < nextSeq'
                 /\ leg[r][e.wallet] > 0
                 /\ e.delta = -leg[r][e.wallet] /\ e.after = after[r][e.wallet]
                 /\ \A f \in ledger : f.user = UserOf(r) => f.seq < e.seq
      BY <1>2, <1>3, <2>1, <2>2 DEF DebitRow
    <2>4. ASSUME NEW e \in new, NEW f \in new
          PROVE  /\ e.wallet = f.wallet => e = f
                 /\ e.wallet = "MAIN" /\ f.wallet = "WINNINGS" => e.seq < f.seq
      BY <1>3, <2>2 DEF DebitRow
    <2>5. ASSUME NEW w \in Wallets, leg[r][w] > 0
          PROVE  \E e \in new : e.wallet = w
      <3>1. CASE w = "MAIN"
        <4>1. DebitRow(r, "MAIN", nextSeq) \in new
          BY <2>5, <3>1
        <4> QED BY <3>1, <4>1 DEF DebitRow
      <3>2. CASE w = "WINNINGS"
        <4>1. DebitRow(r, "WINNINGS", next) \in new
          BY <2>5, <3>2
        <4> QED BY <3>2, <4>1 DEF DebitRow
      <3> QED BY <3>1, <3>2 DEF Wallets
    <2> HIDE DEF new
    <2> QED BY <1>2, <1>5, <2>3, <2>4, <2>5 DEF OwnRows
  <1>7. Own(r)'
    BY <1>1, <1>2, <1>5, <1>6 DEF TxInv, Own, Holding
  <1>8. rowLock[UserOf(r)] \in {None, r}
        /\ rowLock' = [rowLock EXCEPT ![UserOf(r)] = r]
    BY <1>1, <1>2, Relock
  <1>9. \A q \in Requests \ {r} :
           leg'[q] = leg[q] /\ after'[q] = after[q] /\ rows'[q] = rows[q]
    BY <1>2 DEF TypeInv, TypeOK
  <1> HIDE DEF new, next, main, won
  <1> QED BY <1>1, <1>2, <1>4, <1>7, <1>8, <1>9, OthersKept

LEMMA CommitTxInv ==
    ASSUME TypeInv, TxInv, NEW r \in Requests, Commit(r) \/ CommitUnacknowledged(r)
    PROVE  TxInv'
  <1>1. pc[r] = "commit" /\ pc[r] \in Open /\ pc[r] \in Holding
    BY DEF Commit, CommitUnacknowledged, Open, Holding
  <1>2. /\ Publish(r) /\ Rollback(r) /\ UNCHANGED <<nextSeq, arg>>
        /\ Goto(r, "placed") \/ Goto(r, "failed")
    BY DEF Commit, CommitUnacknowledged
  <1>3. OwnRows(r) /\ nextSeq \in Nat /\ UserOf(r) \in Users
    BY <1>1, AdmittedFacts DEF TxInv, Own, TypeInv, TypeOK
  <1>4. pc'[r] \in {"placed", "failed"} /\ rows'[r] = {}
    BY <1>2 DEF Goto, Rollback, TypeInv, TypeOK
  <1>5. SeqInv'
    BY <1>2, <1>3 DEF SeqInv, TxInv, Publish, OwnRows
  <1>6. ASSUME NEW q \in Requests, q # r PROVE Own(q)' /\ pc'[q] = pc[q]
    <2>1. /\ pc'[q] = pc[q] /\ leg'[q] = leg[q] /\ after'[q] = after[q]
          /\ rows'[q] = rows[q] /\ bets'[q] = bets[q]
      BY <1>2, <1>6 DEF Goto, Rollback, Publish, TypeInv, TypeOK
    <2>2. Own(q)
      BY DEF TxInv
    <2>3. pc[q] \in Holding => UserOf(q) # UserOf(r)
      BY <1>1, <1>6, Exclusive DEF TxInv
    <2>4. pc[q] \in Holding => balance'[UserOf(q)] = balance[UserOf(q)]
      <3>1. pc[q] \in Holding => UserOf(q) \in Users
        BY AdmittedFacts DEF Holding, Open
      <3> QED BY <1>2, <2>3, <3>1 DEF Publish, TypeInv, TypeOK
    <2>5. pc[q] = "commit" =>
             \A e \in ledger' : e.user = UserOf(q) => e \in ledger
      BY <1>2, <1>3, <2>3 DEF Publish, OwnRows, Holding
    <2> QED BY <1>2, <1>3, <2>1, <2>2, <2>4, <2>5, OwnKept
  <1>7. Own(r)'
    BY <1>4 DEF Own, Holding
  <1>8. LockInv'
    <2> SUFFICES ASSUME NEW q \in Requests, pc'[q] \in Holding
                 PROVE  rowLock'[UserOf(q)] = q
      BY <1>2 DEF LockInv, UserOf
    <2>1. q # r
      BY <1>4 DEF Holding
    <2>2. pc[q] \in Holding
      BY <1>6, <2>1
    <2>3. rowLock[UserOf(q)] = q
      BY <2>2 DEF TxInv, LockInv
    <2>4. UserOf(q) \in Users
      BY <2>2, AdmittedFacts DEF Holding, Open
    <2> QED BY <1>2, <2>1, <2>3, <2>4 DEF Rollback
  <1> QED BY <1>5, <1>6, <1>7, <1>8 DEF TxInv

LEMMA CrashTxInv == ASSUME TypeInv, TxInv, Crash PROVE TxInv'
  <1>1. ASSUME NEW q \in Requests
        PROVE  /\ pc'[q] \notin Open /\ rows'[q] = {}
               /\ bets'[q] # NoBet => pc'[q] \in {"placed", "failed"}
    <2>1. Own(q)
      BY DEF TxInv
    <2> QED BY <2>1 DEF Crash, store, Own, Open
  <1>2. \A q \in Requests : pc'[q] \notin Holding /\ pc'[q] # "commit"
    BY <1>1 DEF Open, Holding
  <1>3. \A q \in Requests : Own(q)'
    BY <1>1, <1>2 DEF Own, Holding
  <1> QED BY <1>2, <1>3 DEF TxInv, LockInv, SeqInv, Crash, store

(* core-service waits for the lock, so it moves no wallet that a request   *)
(* has read.                                                               *)
LEMMA CoreTxInv ==
    ASSUME TypeInv, TxInv, NEW u \in Users, NEW w \in Wallets,
           NEW d \in CoreDeltas, CoreDelta(u, w, d)
    PROVE  TxInv'
  <1> DEFINE e == [seq |-> nextSeq, user |-> u, wallet |-> w, delta |-> d,
                   after |-> balance[u][w] + d, bet |-> None]
  <1>1. /\ rowLock[u] = None /\ nextSeq \in Nat
        /\ balance' = [balance EXCEPT ![u][w] = balance[u][w] + d]
        /\ ledger' = ledger \cup {e} /\ nextSeq' = nextSeq + 1
        /\ UNCHANGED <<bets, rowLock, arg, pc, leg, after, rows>>
    BY DEF CoreDelta, requests, tx, TypeInv, TypeOK
  <1>2. ASSUME NEW q \in Requests PROVE Own(q)'
    <2>1. Own(q)
      BY DEF TxInv
    <2>2. pc[q] \in Holding => UserOf(q) # u
      BY <1>1, Shut DEF TxInv
    <2>3. pc[q] \in Holding => balance'[UserOf(q)] = balance[UserOf(q)]
      <3>1. pc[q] \in Holding => UserOf(q) \in Users
        BY AdmittedFacts DEF Holding, Open
      <3> QED BY <1>1, <2>2, <3>1 DEF TypeInv, TypeOK
    <2>4. pc[q] = "commit" =>
             \A f \in ledger' : f.user = UserOf(q) => f \in ledger
      BY <1>1, <2>2 DEF Holding
    <2> HIDE DEF e
    <2> QED BY <1>1, <2>1, <2>3, <2>4, OwnKept
  <1>3. SeqInv'
    <2>1. \A f \in ledger : f.seq \in Nat /\ f.seq < nextSeq
      BY DEF TxInv, SeqInv, TypeInv, TypeOK, Row
    <2> QED BY <1>1, <2>1 DEF SeqInv
  <1>4. LockInv'
    BY <1>1 DEF TxInv, LockInv, UserOf
  <1> QED BY <1>2, <1>3, <1>4 DEF TxInv

LEMMA OthersTxInv == ASSUME TypeInv, TxInv, Others PROVE TxInv'
  <1>1. CASE Crash
    BY <1>1, CrashTxInv
  <1>2. CASE \E u \in Users, w \in Wallets, d \in CoreDeltas : CoreDelta(u, w, d)
    BY <1>2, CoreTxInv
  <1>3. CASE \/ Tick
             \/ \E g \in Games : GenerateRound(g) \/ SetGameStatus(g) \/ CancelRound(g)
             \/ \E g \in Games, a \in Admins : SetEnablement(g, a)
             \/ \E g \in Games, s \in Sides : SubmitResult(g, s)
             \/ \E a \in Agents, f \in Families : SetRates(a, f)
    <2>1. UNCHANGED <<balance, ledger, bets, rowLock, nextSeq, leg, after,
                      rows, arg, pc>>
      BY <1>3 DEF Tick, GenerateRound, SetGameStatus, CancelRound,
         SetEnablement, SubmitResult, SetRates, store, requests, tx
    <2> QED BY <2>1, QuietTxInv
  <1> QED BY <1>1, <1>2, <1>3 DEF Others

LEMMA RequestTxInv ==
    ASSUME TypeInv, TxInv, NEW r \in Requests,
           Receive(r) \/ Advance(r) \/ CommitUnacknowledged(r) \/ Fail(r)
    PROVE  TxInv'
  <1>1. CASE \/ Receive(r) \/ LookupRound(r) \/ ReadPlaying(r) \/ ReadGiving(r)
             \/ ReadGiven(r) \/ Begin(r)
    <2>1. UNCHANGED <<balance, ledger, bets, rowLock, nextSeq, leg, after,
                      rows, arg>>
      BY <1>1 DEF Receive, LookupRound, ReadPlaying, ReadGiving, ReadGiven,
         Begin, store, tx
    <2>2. /\ pc[r] \notin Holding \cup {"placed", "failed"}
          /\ \E l \in {"lookup", "playing", "giving", "agent", "begin", "lock",
                       "rejected"} : Goto(r, l)
      BY <1>1 DEF Receive, LookupRound, ReadPlaying, ReadGiving, ReadGiven,
         Begin, Quote, Holding
    <2>3. \A q \in Requests : pc'[q] # pc[q] =>
             /\ pc[q] \notin Holding \cup {"placed", "failed"}
             /\ pc'[q] \notin Holding
      BY <2>2 DEF Goto, TypeInv, TypeOK, Holding
    <2> QED BY <2>1, <2>3, QuietTxInv
  <1>2. CASE Fail(r)
    BY <1>2, RollbackTxInv DEF Fail, store
  <1> QED BY <1>1, <1>2, LockTxInv, DebitTxInv, InsertTxInv, WriteTxInv,
          CommitTxInv DEF Advance

LEMMA NextTxInv == ASSUME TypeInv, TxInv, [Next]_vars PROVE TxInv'
  <1>1. CASE UNCHANGED vars
    BY <1>1, QuietTxInv DEF vars, store, tx
  <1> QED BY <1>1, OthersTxInv, RequestTxInv DEF Next, Done

LEMMA InitTxInv == Init => TxInv
  BY DEF Init, TxInv, LockInv, SeqInv, Own, Holding

-----------------------------------------------------------------------------
(* What a step may do to the ledger and the wallets.                       *)

(* Rows are only added, after all the rows there are of their user.        *)
Appended ==
    /\ ledger \subseteq ledger'
    /\ \A e \in ledger', f \in ledger :
          e \notin ledger /\ f.user = e.user => f.seq < e.seq

(* A wallet is left alone, or one row says how it was changed.             *)
Moved(u, w) ==
    \/ Rows(u, w)' = Rows(u, w) /\ balance'[u][w] = balance[u][w]
    \/ \E e \in Rows(u, w)' :
          /\ Rows(u, w)' = Rows(u, w) \cup {e}
          /\ \A f \in Rows(u, w) : f.seq < e.seq
          /\ e.after = balance'[u][w]
          /\ e.after - e.delta = balance[u][w]

Explains(u, w) ==
    /\ LeavesAt(Rows(u, w), u, w, balance[u][w])
    /\ \A e \in Rows(u, w) :
          LeavesAt(Earlier(u, w, e.seq), u, w, e.after - e.delta)

(* What came before a row never changes.                                   *)
LEMMA EarlierKept ==
    ASSUME TypeInv, TypeInv', Appended, NEW u, NEW w,
           NEW f \in ledger, f.user = u
    PROVE  Earlier(u, w, f.seq)' = Earlier(u, w, f.seq)
  <1>1. \A e \in ledger' : e.seq \in Nat
    BY DEF TypeInv, TypeOK, Row
  <1>2. ASSUME NEW e \in ledger', e.user = u, e.seq < f.seq PROVE e \in ledger
    BY <1>1, <1>2 DEF Appended
  <1> QED BY <1>2 DEF Appended, Earlier, Rows

LEMMA MovedExplains ==
    ASSUME TypeInv, TypeInv', Appended, NEW u, NEW w, Explains(u, w), Moved(u, w)
    PROVE  Explains(u, w)'
  <1>1. \A e \in ledger' : e.seq \in Nat
    BY DEF TypeInv, TypeOK, Row
  <1>2. ASSUME NEW f \in Rows(u, w)
        PROVE  LeavesAt(Earlier(u, w, f.seq)', u, w, f.after - f.delta)
    <2>1. Earlier(u, w, f.seq)' = Earlier(u, w, f.seq)
      BY EarlierKept DEF Rows
    <2> QED BY <2>1 DEF Explains
  <1>3. CASE Rows(u, w)' = Rows(u, w) /\ balance'[u][w] = balance[u][w]
    BY <1>2, <1>3 DEF Explains
  <1>4. ASSUME NEW e \in Rows(u, w)',
               Rows(u, w)' = Rows(u, w) \cup {e},
               \A f \in Rows(u, w) : f.seq < e.seq,
               e.after = balance'[u][w],
               e.after - e.delta = balance[u][w]
        PROVE  Explains(u, w)'
    <2>1. e.seq \in Nat /\ \A f \in Rows(u, w) : f.seq \in Nat
      BY <1>1 DEF Rows, Appended
    <2>2. LeavesAt(Rows(u, w)', u, w, balance'[u][w])
      BY <1>4, <2>1 DEF LeavesAt
    <2>3. Earlier(u, w, e.seq)' = Rows(u, w)
      BY <1>4, <2>1 DEF Earlier
    <2>4. LeavesAt(Earlier(u, w, e.seq)', u, w, e.after - e.delta)
      BY <1>4, <2>3 DEF Explains
    <2> QED BY <1>2, <1>4, <2>2, <2>4 DEF Explains
  <1> QED BY <1>3, <1>4 DEF Moved

-----------------------------------------------------------------------------
(* The two kinds of step that move money.                                  *)

(* A commit leaves what the transaction saw, less what it takes.           *)
LEMMA PublishFacts ==
    ASSUME TypeInv, TxInv, NEW r \in Requests, pc[r] = "commit", Publish(r)
    PROVE  /\ OwnRows(r) /\ UserOf(r) \in Users
           /\ leg[r] = Split(balance[UserOf(r)], StakeOf(r))
           /\ leg[r]["MAIN"] + leg[r]["WINNINGS"] = StakeOf(r)
           /\ leg[r]["WINNINGS"] > 0 => leg[r]["MAIN"] = balance[UserOf(r)]["MAIN"]
           /\ \A w \in Wallets : leg[r][w] \in Nat
           /\ \A w \in Wallets :
                 balance'[UserOf(r)][w] = balance[UserOf(r)][w] - leg[r][w]
           /\ \A u \in Users \ {UserOf(r)} : balance'[u] = balance[u]
  <1>1. UserOf(r) \in Users /\ StakeOf(r) \in Nat \ {0}
    BY AdmittedFacts DEF Open
  <1>2. balance[UserOf(r)] \in Amount /\ leg[r] \in Amount
    BY <1>1 DEF TypeInv, TypeOK
  <1>3. /\ OwnRows(r) /\ leg[r] = Split(balance[UserOf(r)], StakeOf(r))
        /\ StakeOf(r) <= Total(balance[UserOf(r)])
        /\ \A w \in Wallets : after[r][w] = balance[UserOf(r)][w] - leg[r][w]
    BY DEF TxInv, Own, Holding
  <1>4. /\ leg[r]["MAIN"] + leg[r]["WINNINGS"] = StakeOf(r)
        /\ leg[r]["WINNINGS"] > 0 => leg[r]["MAIN"] = balance[UserOf(r)]["MAIN"]
    BY <1>1, <1>2, <1>3, SplitFacts
  <1>5. \A w \in Wallets : leg[r][w] \in Nat /\ balance[UserOf(r)][w] \in Nat
    BY <1>2 DEF Amount
  <1>6. /\ \A w \in Wallets :
              balance'[UserOf(r)][w] = IF leg[r][w] > 0 THEN after[r][w]
                                       ELSE balance[UserOf(r)][w]
        /\ \A u \in Users \ {UserOf(r)} : balance'[u] = balance[u]
    BY <1>1 DEF Publish, TypeInv, TypeOK
  <1> QED BY <1>1, <1>3, <1>4, <1>5, <1>6

LEMMA PublishAppended ==
    ASSUME TypeInv, TxInv, NEW r \in Requests, pc[r] = "commit", Publish(r)
    PROVE  Appended
  <1>1. ledger' = ledger \cup rows[r]
    BY DEF Publish
  <1>2. \A e \in rows[r], f \in ledger : f.user = e.user => f.seq < e.seq
    BY PublishFacts DEF OwnRows
  <1> QED BY <1>1, <1>2 DEF Appended

LEMMA PublishMoved ==
    ASSUME TypeInv, TxInv, NEW r \in Requests, pc[r] = "commit", Publish(r),
           NEW u \in Users, NEW w \in Wallets
    PROVE  Moved(u, w)
  <1>1. CASE u # UserOf(r) \/ leg[r][w] = 0
    <2>1. \A e \in rows[r] : ~(e.user = u /\ e.wallet = w)
      BY <1>1, PublishFacts DEF OwnRows
    <2>2. Rows(u, w)' = Rows(u, w)
      BY <2>1 DEF Rows, Publish
    <2>3. balance'[u][w] = balance[u][w]
      <3>1. CASE u # UserOf(r)
        BY <3>1, PublishFacts
      <3>2. CASE u = UserOf(r)
        <4>1. balance[u][w] \in Nat
          BY DEF TypeInv, TypeOK, Amount
        <4> QED BY <1>1, <3>2, <4>1, PublishFacts
      <3> QED BY <3>1, <3>2
    <2> QED BY <2>2, <2>3 DEF Moved
  <1>2. CASE u = UserOf(r) /\ leg[r][w] # 0
    <2>1. leg[r][w] > 0
      BY <1>2, PublishFacts
    <2>2. PICK e \in rows[r] : e.wallet = w
      BY <2>1, PublishFacts DEF OwnRows
    <2>3. Rows(u, w)' = Rows(u, w) \cup {e}
      <3>1. \A f \in rows[r] : f.user = u /\ (f.wallet = w <=> f = e)
        BY <1>2, <2>2, PublishFacts DEF OwnRows
      <3>2. ledger' = ledger \cup rows[r]
        BY DEF Publish
      <3> QED BY <3>1, <3>2 DEF Rows
    <2>4. \A f \in Rows(u, w) : f.seq < e.seq
      BY <1>2, PublishFacts DEF OwnRows, Rows
    <2>5. e.delta = -leg[r][w] /\ e.after = after[r][w]
      BY <2>2, PublishFacts DEF OwnRows
    <2>6. balance[u][w] \in Nat /\ leg[r][w] \in Nat
      BY PublishFacts DEF TypeInv, TypeOK, Amount
    <2>7. /\ after[r][w] = balance[u][w] - leg[r][w]
          /\ balance'[u][w] = balance[u][w] - leg[r][w]
      BY <1>2, PublishFacts DEF TxInv, Own
    <2>8. e.after = balance'[u][w] /\ e.after - e.delta = balance[u][w]
      BY <2>5, <2>6, <2>7
    <2>9. e \in Rows(u, w)'
      BY <2>3
    <2> QED BY <2>3, <2>4, <2>8, <2>9 DEF Moved
  <1> QED BY <1>1, <1>2

LEMMA CoreAppended ==
    ASSUME TypeInv, TxInv, NEW u \in Users, NEW w \in Wallets,
           NEW d \in CoreDeltas, CoreDelta(u, w, d)
    PROVE  Appended
  <1>1. \A f \in ledger : f.seq < nextSeq
    BY DEF TxInv, SeqInv
  <1> QED BY <1>1 DEF CoreDelta, Appended

LEMMA CoreMoved ==
    ASSUME TypeInv, TxInv, NEW u \in Users, NEW w \in Wallets,
           NEW d \in CoreDeltas, CoreDelta(u, w, d),
           NEW v \in Users, NEW x \in Wallets
    PROVE  Moved(v, x)
  <1> DEFINE left == balance[u][w] + d
             e == [seq |-> nextSeq, user |-> u, wallet |-> w, delta |-> d,
                   after |-> left, bet |-> None]
  <1>1. /\ balance' = [balance EXCEPT ![u][w] = left]
        /\ ledger' = ledger \cup {e}
    BY DEF CoreDelta
  <1>2. balance \in [Users -> [Wallets -> Nat]] /\ d \in Int
    BY PlacementAssumption DEF TypeInv, TypeOK, Amount
  <1>3. CASE v = u /\ x = w
    <2>1. balance'[u][w] = left
      BY <1>1, <1>2
    <2>2. Rows(u, w)' = Rows(u, w) \cup {e}
      BY <1>1 DEF Rows
    <2>3. \A f \in Rows(u, w) : f.seq < e.seq
      BY DEF TxInv, SeqInv, Rows
    <2>4. left - d = balance[u][w]
      <3>1. balance[u][w] \in Nat
        BY <1>2
      <3> QED BY <1>2, <3>1
    <2>5. e \in Rows(u, w)'
      BY <2>2
    <2> QED BY <1>3, <2>1, <2>2, <2>3, <2>4, <2>5 DEF Moved
  <1>4. CASE ~(v = u /\ x = w)
    <2>1. balance'[v][x] = balance[v][x]
      BY <1>1, <1>2, <1>4
    <2>2. Rows(v, x)' = Rows(v, x)
      BY <1>1, <1>4 DEF Rows
    <2> QED BY <2>1, <2>2 DEF Moved
  <1> QED BY <1>3, <1>4

-----------------------------------------------------------------------------
(* MoneyInv is inductive, relative to TypeInv and TxInv.                   *)

(* The parts of StakeTakenOnce and MainWalletFirst.                        *)
PaidOnce(r) ==
    IF bets[r] = NoBet THEN BetRows(r) = {}
    ELSE /\ \A e \in BetRows(r) : e.user = UserOf(r) /\ e.delta < 0
         /\ \A e, f \in BetRows(r) : e.wallet = f.wallet => e = f
         /\ PaidFrom(r, "MAIN") + PaidFrom(r, "WINNINGS") = StakeOf(r)

MainFirst(e) ==
    e.bet # None => LeavesAt(Earlier(e.user, "MAIN", e.seq), e.user, "MAIN", 0)

LEMMA MoneyParts ==
    MoneyInv => /\ \A u \in Users, w \in Wallets : Explains(u, w)
                /\ \A r \in Requests : PaidOnce(r)
                /\ \A u \in Users : \A e \in Rows(u, "WINNINGS") : MainFirst(e)
  BY DEF MoneyInv, LedgerExplainsBalance, StakeTakenOnce, MainWalletFirst,
     Explains, PaidOnce, MainFirst, Rows

LEMMA MoneyWhole ==
    ASSUME \A u \in Users, w \in Wallets : Explains(u, w)',
           \A r \in Requests : PaidOnce(r)',
           \A u \in Users : \A e \in Rows(u, "WINNINGS")' : MainFirst(e)'
    PROVE  MoneyInv'
  BY DEF MoneyInv, LedgerExplainsBalance, StakeTakenOnce, MainWalletFirst,
     Explains, PaidOnce, MainFirst, Rows

(* Rows that name another request, or none, leave r's payment as it was.   *)
LEMMA PaidOnceKept ==
    ASSUME NEW r \in Requests, PaidOnce(r), BetRows(r)' = BetRows(r),
           UNCHANGED arg, (bets'[r] = NoBet) <=> (bets[r] = NoBet)
    PROVE  PaidOnce(r)'
  BY DEF PaidOnce, PaidFrom, UserOf, StakeOf

(* Rows added after a winnings row do not change what stood before it.     *)
LEMMA MainFirstKept ==
    ASSUME TypeInv, TypeInv', Appended, NEW e \in ledger, MainFirst(e)
    PROVE  MainFirst(e)'
  <1>1. Earlier(e.user, "MAIN", e.seq)' = Earlier(e.user, "MAIN", e.seq)
    BY EarlierKept
  <1> QED BY <1>1 DEF MainFirst

LEMMA CoreMoneyInv ==
    ASSUME TypeInv, TypeInv', TxInv, MoneyInv, NEW u \in Users,
           NEW w \in Wallets, NEW d \in CoreDeltas, CoreDelta(u, w, d)
    PROVE  MoneyInv'
  <1>1. Appended
    BY CoreAppended
  <1>2. ASSUME NEW v \in Users, NEW x \in Wallets PROVE Explains(v, x)'
    BY <1>1, CoreMoved, MovedExplains, MoneyParts
  <1>3. UNCHANGED <<bets, arg>>
    BY DEF CoreDelta, requests
  <1>4. \A e \in ledger' : e \in ledger \/ e.bet = None
    BY DEF CoreDelta
  <1>5. ASSUME NEW r \in Requests PROVE PaidOnce(r)'
    <2>1. BetRows(r)' = BetRows(r)
      BY <1>1, <1>4, PlacementAssumption DEF Appended, BetRows
    <2> QED BY <1>3, <2>1, PaidOnceKept, MoneyParts
  <1>6. ASSUME NEW v \in Users, NEW e \in Rows(v, "WINNINGS")'
        PROVE  MainFirst(e)'
    <2>1. CASE e \in ledger
      <3>1. MainFirst(e)
        BY <2>1, MoneyParts DEF Rows
      <3> QED BY <1>1, <2>1, <3>1, MainFirstKept
    <2>2. CASE e \notin ledger
      BY <1>4, <2>2 DEF MainFirst, Rows
    <2> QED BY <2>1, <2>2
  <1> QED BY <1>2, <1>5, <1>6, MoneyWhole

(* The rows of a transaction take the stake, once.                         *)
LEMMA PublishPaid ==
    ASSUME TypeInv, TxInv, NEW r \in Requests, pc[r] = "commit", Publish(r),
           PaidOnce(r), UNCHANGED arg
    PROVE  PaidOnce(r)'
  <1>1. bets[r] = NoBet /\ BetRows(r) = {}
    BY DEF TxInv, Own, PaidOnce
  <1>2. bets'[r] # NoBet
    <2>1. bets'[r].at = clock /\ clock \in Nat
      BY DEF Publish, TypeInv, TypeOK, Time
    <2>2. NoBet.at = -1
      BY DEF NoBet, Never
    <2>3. clock # -1
      BY <2>1
    <2> QED BY <2>1, <2>2, <2>3
  <1>3. BetRows(r)' = rows[r]
    <2>1. ledger' = ledger \cup rows[r]
      BY DEF Publish
    <2>2. \A e \in rows[r] : e.bet = r
      BY PublishFacts DEF OwnRows
    <2> QED BY <1>1, <2>1, <2>2 DEF BetRows
  <1>4. /\ UserOf(r)' = UserOf(r) /\ StakeOf(r)' = StakeOf(r)
        /\ \A w \in Wallets : leg[r][w] \in Nat
    BY PublishFacts DEF UserOf, StakeOf
  <1>5. \A e \in rows[r] : e.user = UserOf(r) /\ e.delta < 0
    <2> SUFFICES ASSUME NEW e \in rows[r] PROVE e.user = UserOf(r) /\ e.delta < 0
      OBVIOUS
    <2>1. /\ e.user = UserOf(r) /\ e.delta = -leg[r][e.wallet]
          /\ leg[r][e.wallet] > 0
      BY PublishFacts DEF OwnRows
    <2>2. e.wallet \in Wallets
      BY DEF TypeInv, TypeOK, Row
    <2> QED BY <1>4, <2>1, <2>2
  <1>6. \A e, f \in rows[r] : e.wallet = f.wallet => e = f
    BY PublishFacts DEF OwnRows
  <1>7. ASSUME NEW w \in Wallets PROVE PaidFrom(r, w)' = leg[r][w]
    <2>1. CASE leg[r][w] > 0
      <3>1. PICK e \in rows[r] : e.wallet = w
        BY <2>1, PublishFacts DEF OwnRows
      <3>2. (CHOOSE f \in rows[r] : f.wallet = w) = e
        BY <1>6, <3>1
      <3>3. e.delta = -leg[r][w]
        BY <3>1, PublishFacts DEF OwnRows
      <3>4. PaidFrom(r, w)' = -e.delta
        BY <1>3, <3>1, <3>2 DEF PaidFrom
      <3> QED BY <1>4, <3>3, <3>4
    <2>2. CASE leg[r][w] = 0
      <3>1. ~ \E e \in rows[r] : e.wallet = w
        BY <2>2, PublishFacts DEF OwnRows
      <3> QED BY <1>3, <2>2, <3>1 DEF PaidFrom
    <2> QED BY <1>4, <2>1, <2>2
  <1>8. PaidFrom(r, "MAIN")' + PaidFrom(r, "WINNINGS")' = StakeOf(r)
    <2>1. /\ PaidFrom(r, "MAIN")' = leg[r]["MAIN"]
          /\ PaidFrom(r, "WINNINGS")' = leg[r]["WINNINGS"]
      BY <1>7 DEF Wallets
    <2> QED BY <2>1, PublishFacts
  <1> QED BY <1>2, <1>3, <1>4, <1>5, <1>6, <1>8 DEF PaidOnce

(* A winnings row is written only when the main wallet has been emptied.   *)
LEMMA PublishMainFirst ==
    ASSUME TypeInv, TypeInv', TxInv, NEW r \in Requests, pc[r] = "commit",
           Publish(r), NEW u \in Users, u = UserOf(r), Explains(u, "MAIN")',
           NEW e \in rows[r], e.wallet = "WINNINGS"
    PROVE  MainFirst(e)'
  <1>1. e.user = u /\ leg[r]["WINNINGS"] > 0
    BY PublishFacts DEF OwnRows
  <1>2. balance'[u]["MAIN"] = 0
    <2>1. balance[u]["MAIN"] \in Nat
      BY PublishFacts DEF TypeInv, TypeOK, Amount, Wallets
    <2> QED BY <1>1, <2>1, PublishFacts DEF Wallets
  <1>3. \A f \in Rows(u, "MAIN")' : f.seq < e.seq
    <2>1. ledger' = ledger \cup rows[r]
      BY DEF Publish
    <2>2. \A f \in ledger : f.user = u => f.seq < e.seq
      BY PublishFacts DEF OwnRows
    <2>3. \A f \in rows[r] : f.wallet = "MAIN" => f.seq < e.seq
      BY PublishFacts DEF OwnRows
    <2> QED BY <2>1, <2>2, <2>3 DEF Rows
  <1>4. Earlier(u, "MAIN", e.seq)' = Rows(u, "MAIN")'
    BY <1>3 DEF Earlier
  <1>5. LeavesAt(Rows(u, "MAIN")', u, "MAIN", balance'[u]["MAIN"])
    BY DEF Explains
  <1> QED BY <1>1, <1>2, <1>4, <1>5 DEF MainFirst

LEMMA CommitMoneyInv ==
    ASSUME TypeInv, TypeInv', TxInv, MoneyInv, NEW r \in Requests,
           Commit(r) \/ CommitUnacknowledged(r)
    PROVE  MoneyInv'
  <1>1. pc[r] = "commit" /\ Publish(r) /\ UNCHANGED arg
    BY DEF Commit, CommitUnacknowledged
  <1>2. Appended
    BY <1>1, PublishAppended
  <1>3. ASSUME NEW u \in Users, NEW w \in Wallets PROVE Explains(u, w)'
    <2>1. Moved(u, w)
      BY <1>1, PublishMoved
    <2> QED BY <1>2, <2>1, MovedExplains, MoneyParts
  <1>4. ASSUME NEW q \in Requests PROVE PaidOnce(q)'
    <2>1. PaidOnce(q)
      BY MoneyParts
    <2>2. CASE q = r
      BY <1>1, <2>1, <2>2, PublishPaid
    <2>3. CASE q # r
      <3>1. \A e \in rows[r] : e.bet = r
        BY <1>1, PublishFacts DEF OwnRows
      <3>2. BetRows(q)' = BetRows(q)
        BY <1>1, <2>3, <3>1 DEF BetRows, Publish
      <3>3. bets'[q] = bets[q]
        BY <1>1, <2>3 DEF Publish, TypeInv, TypeOK
      <3> QED BY <1>1, <2>1, <3>2, <3>3, PaidOnceKept
    <2> QED BY <2>2, <2>3
  <1>5. ASSUME NEW u \in Users, NEW e \in Rows(u, "WINNINGS")'
        PROVE  MainFirst(e)'
    <2>1. CASE e \in ledger
      <3>1. MainFirst(e)
        BY <2>1, MoneyParts DEF Rows
      <3> QED BY <1>2, <2>1, <3>1, MainFirstKept
    <2>2. CASE e \notin ledger
      <3>1. e \in rows[r] /\ e.wallet = "WINNINGS"
        BY <1>1, <2>2 DEF Rows, Publish
      <3>2. PICK v \in Users : v = UserOf(r)
        BY <1>1, PublishFacts
      <3>3. Explains(v, "MAIN")'
        BY <1>3 DEF Wallets
      <3> QED BY <1>1, <3>1, <3>2, <3>3, PublishMainFirst
    <2> QED BY <2>1, <2>2
  <1> QED BY <1>3, <1>4, <1>5, MoneyWhole

(* Every other step leaves wallets, ledger and bets as they are.           *)
LEMMA QuietMoneyInv ==
    ASSUME MoneyInv, UNCHANGED <<balance, ledger, bets, arg>>
    PROVE  MoneyInv'
  <1>1. ASSUME NEW u \in Users, NEW w \in Wallets PROVE Explains(u, w)'
    <2>1. Explains(u, w)
      BY MoneyParts
    <2> QED BY <2>1 DEF Explains, Rows, Earlier
  <1>2. ASSUME NEW r \in Requests PROVE PaidOnce(r)'
    BY MoneyParts, PaidOnceKept DEF BetRows
  <1>3. ASSUME NEW u \in Users, NEW e \in Rows(u, "WINNINGS")'
        PROVE  MainFirst(e)'
    <2>1. MainFirst(e)
      BY MoneyParts DEF Rows
    <2> QED BY <2>1 DEF MainFirst, Earlier, Rows
  <1> QED BY <1>1, <1>2, <1>3, MoneyWhole

LEMMA NextMoneyInv ==
    ASSUME TypeInv, TypeInv', TxInv, MoneyInv, [Next]_vars
    PROVE  MoneyInv'
  <1>1. ASSUME NEW r \in Requests, Commit(r) \/ CommitUnacknowledged(r)
        PROVE  MoneyInv'
    BY <1>1, CommitMoneyInv
  <1>2. CASE \E u \in Users, w \in Wallets, d \in CoreDeltas : CoreDelta(u, w, d)
    BY <1>2, CoreMoneyInv
  <1>3. CASE \/ UNCHANGED vars
             \/ Tick \/ Crash
             \/ \E g \in Games : GenerateRound(g) \/ SetGameStatus(g) \/ CancelRound(g)
             \/ \E g \in Games, a \in Admins : SetEnablement(g, a)
             \/ \E g \in Games, s \in Sides : SubmitResult(g, s)
             \/ \E a \in Agents, f \in Families : SetRates(a, f)
    <2>1. UNCHANGED <<balance, ledger, bets, arg>>
      BY <1>3 DEF Tick, Crash, GenerateRound, SetGameStatus, CancelRound,
         SetEnablement, SubmitResult, SetRates, store, requests, vars
    <2> QED BY <2>1, QuietMoneyInv
  <1>4. ASSUME NEW r \in Requests,
               \/ Receive(r) \/ LookupRound(r) \/ ReadPlaying(r)
               \/ ReadGiving(r) \/ ReadGiven(r) \/ Begin(r) \/ LockWallets(r)
               \/ Debit(r) \/ InsertPrediction(r) \/ WriteLedger(r) \/ Fail(r)
        PROVE  MoneyInv'
    <2>1. UNCHANGED <<balance, ledger, bets, arg>>
      BY <1>4 DEF Receive, LookupRound, ReadPlaying, ReadGiving, ReadGiven,
         Begin, LockWallets, Debit, InsertPrediction, WriteLedger, Fail, store
    <2> QED BY <2>1, QuietMoneyInv
  <1> QED BY <1>1, <1>2, <1>3, <1>4 DEF Next, Others, Advance, Done

LEMMA InitMoneyInv == Init => MoneyInv
  BY DEF Init, MoneyInv, LedgerExplainsBalance, StakeTakenOnce,
     MainWalletFirst, Rows, BetRows, LeavesAt

-----------------------------------------------------------------------------
LEMMA WalletInvInvariant == Spec => []WalletInv
  <1>1. Init => WalletInv
    BY InitTypeInv, InitTxInv, InitMoneyInv DEF WalletInv
  <1>2. WalletInv /\ [Next]_vars => WalletInv'
    BY NextTypeInv, NextTxInv, NextMoneyInv DEF WalletInv
  <1> QED BY <1>1, <1>2, PTL DEF Spec

(* Whatever requests and core-service do at the same time, the ledger rows *)
(* of every wallet, read in seq order, chain from its opening balance to   *)
(* what the users row holds: no debit is lost, doubled or computed from a  *)
(* stale balance.                                                          *)
THEOREM LedgerExplained == Spec => []LedgerExplainsBalance
  <1>1. WalletInv => LedgerExplainsBalance
    BY DEF WalletInv, MoneyInv
  <1> QED BY <1>1, WalletInvInvariant, PTL

(* A prediction exists exactly when its stake has been taken, once and in  *)
(* full, from the wallets of the Player who placed it, through every lost  *)
(* COMMIT, rollback and crash.                                             *)
THEOREM StakeIsTakenOnce == Spec => []StakeTakenOnce
  <1>1. WalletInv => StakeTakenOnce
    BY DEF WalletInv, MoneyInv
  <1> QED BY <1>1, WalletInvInvariant, PTL

(* Place takes from the winnings only once the main wallet is empty, also  *)
(* when requests of one Player overlap.                                    *)
THEOREM MainWalletGoesFirst == Spec => []MainWalletFirst
  <1>1. WalletInv => MainWalletFirst
    BY DEF WalletInv, MoneyInv
  <1> QED BY <1>1, WalletInvInvariant, PTL

(* Only Commit answers that a bet is placed.                               *)
LEMMA OnlyCommitPlaces ==
    ASSUME TypeInv, [Next]_vars, NEW r \in Requests,
           pc[r] # "placed", pc'[r] = "placed"
    PROVE  Commit(r)
  <1>1. ASSUME NEW q \in Requests, Commit(q) PROVE Commit(r)
    <2>1. q = r
      BY <1>1 DEF Commit, Goto, TypeInv, TypeOK
    <2> QED BY <1>1, <2>1
  <1>2. ASSUME NEW q \in Requests,
               \/ Receive(q) \/ LookupRound(q) \/ ReadPlaying(q)
               \/ ReadGiving(q) \/ ReadGiven(q) \/ Begin(q) \/ LockWallets(q)
               \/ Debit(q) \/ InsertPrediction(q) \/ WriteLedger(q)
               \/ CommitUnacknowledged(q) \/ Fail(q)
        PROVE  FALSE
    <2>1. \E l \in {"new"} \cup Open \cup {"rejected", "failed"} : Goto(q, l)
      BY <1>2 DEF Receive, LookupRound, ReadPlaying, ReadGiving, ReadGiven,
         Begin, LockWallets, Debit, InsertPrediction, WriteLedger, Fail,
         CommitUnacknowledged, Quote, Reject, Open
    <2> QED BY <2>1 DEF Goto, TypeInv, TypeOK, Open
  <1>3. CASE Others \/ UNCHANGED vars
    BY <1>3 DEF Others, Tick, Crash, GenerateRound, SetGameStatus, CancelRound,
       SetEnablement, SubmitResult, SetRates, CoreDelta, requests, vars, Open
  <1> QED BY <1>1, <1>2, <1>3 DEF Next, Advance, Done

(* What a 201 response reports as balanceAfter is what its Player's        *)
(* wallets hold once the bet is committed: nothing can move them between   *)
(* the SELECT and the COMMIT.                                              *)
THEOREM AnswerIsTheBalance == Spec => AnswerIsBalance
  <1> DEFINE A == \A r \in Requests : pc[r] # "placed" /\ pc'[r] = "placed"
                     => answer'[r] = Total(balance'[UserOf(r)])
  <1>1. TypeInv /\ TxInv /\ [Next]_vars => A
    <2> SUFFICES ASSUME TypeInv, TxInv, [Next]_vars, NEW r \in Requests,
                        pc[r] # "placed", pc'[r] = "placed"
                 PROVE  answer'[r] = Total(balance'[UserOf(r)])
      OBVIOUS
    <2>1. Commit(r)
      BY OnlyCommitPlaces
    <2>2. pc[r] = "commit" /\ Publish(r) /\ answer'[r] = Total(after[r])
      BY <2>1 DEF Commit, TypeInv, TypeOK
    <2>3. \A w \in Wallets : balance'[UserOf(r)][w] = after[r][w]
      BY <2>2, PublishFacts DEF TxInv, Own
    <2> QED BY <2>2, <2>3 DEF Total, Wallets
  <1>2. WalletInv => TypeInv /\ TxInv
    BY DEF WalletInv
  <1> QED BY <1>1, <1>2, WalletInvInvariant, PTL DEF Spec, AnswerIsBalance

=============================================================================
