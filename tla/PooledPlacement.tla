-------------------------- MODULE PooledPlacement --------------------------
(***************************************************************************)
(* Placement over the connections of one pgxpool (db.NewPool).  A query    *)
(* outside the transaction takes a connection for itself; the transaction  *)
(* keeps the one that Begin took until it ends, row-lock waits included.   *)
(***************************************************************************)
EXTENDS Placement

CONSTANT MaxConns   \* pgxpool.Config.MaxConns

ASSUME PoolAssumption == MaxConns \in Nat \ {0}

Connected == {r \in Requests : pc[r] \in InTx}

(* pool.QueryRow and pool.Begin wait for a connection to be free.          *)
PoolStep(r) ==
    /\ Cardinality(Connected) < MaxConns
    /\ \/ LookupRound(r)
       \/ ReadPlaying(r)
       \/ ReadGiving(r)
       \/ ReadGiven(r)
       \/ Begin(r)

(* Mutant: the INSERT goes through the pool instead of the transaction.    *)
TxStepFromPool(r) ==
    \/ LockWallets(r)
    \/ Debit(r)
    \/ Cardinality(Connected) < MaxConns /\ InsertPrediction(r)
    \/ WriteLedger(r)
    \/ Commit(r)

(* What runs on the connection of the transaction.                         *)
TxStep(r) ==
    \/ LockWallets(r)
    \/ Debit(r)
    \/ InsertPrediction(r)
    \/ WriteLedger(r)
    \/ Commit(r)

PooledNext ==
    \/ \E r \in Requests :
          \/ Receive(r)
          \/ PoolStep(r)
          \/ TxStep(r)
          \/ CommitUnacknowledged(r)
          \/ Fail(r)
    \/ Others
    \/ Done

(* A goroutine that can go on does so in the end: a connection or a row    *)
(* that stays free is taken by one that waits for it.  No request is ever  *)
(* made to fail, so none is rescued by its deadline.                       *)
PooledSpec ==
    /\ Init /\ [][PooledNext]_vars
    /\ \A r \in Requests : WF_vars(PoolStep(r) \/ TxStep(r))

(* The next statement of r waits for nobody.                               *)
CanGoOn(r) ==
    \/ pc[r] \in Open \ InTx /\ Cardinality(Connected) < MaxConns
    \/ pc[r] = "lock" /\ rowLock[UserOf(r)] = None
    \/ pc[r] = "debit" /\ rowLock[UserOf(r)] \in {None, r}
    \/ pc[r] \in {"insert", "ledger", "commit"}

(* Nobody waits for one who waits, so nobody waits in a circle: the bet    *)
(* that keeps a Player's row can go on, with its connection, and when the  *)
(* pool is used up, one of those that use it can.  In particular no row    *)
(* stays locked by a request that is over, whichever way it ended.         *)
WaitsAreShort ==
    \A r \in Requests : pc[r] \in Open /\ ~CanGoOn(r) =>
        \E q \in Connected :
            /\ CanGoOn(q)
            /\ pc[r] \in InTx => rowLock[UserOf(r)] = q /\ UserOf(q) = UserOf(r)

(* Every request that reaches the database is answered by its own steps:   *)
(* no lock and no connection is kept, and though bets of one Player hold   *)
(* connections while they wait for each other, they never wait for one.    *)
EveryRequestAnswered ==
    \A r \in Requests : pc[r] = "lookup" ~> pc[r] \in Final

=============================================================================
