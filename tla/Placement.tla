------------------------------ MODULE Placement ------------------------------
(***************************************************************************)
(* The placement of bets: POST /predictions (handlers.PostPrediction) and  *)
(* prediction.Place, with the reads of game.TodaysRound and of package     *)
(* rates that it makes, run by many requests at once against one database  *)
(* that core-service writes too.                                           *)
(*                                                                         *)
(* Every SQL statement of Place whose result another writer could change   *)
(* is a step of its own.  The transaction of a request keeps its writes to *)
(* itself until Commit publishes them; what it takes at once is the row    *)
(* lock on the Player's users row.                                         *)
(***************************************************************************)
EXTENDS Integers, FiniteSets

CONSTANTS
    Requests,        \* the POST /predictions requests of a behaviour
    Users, Players,  \* accounts, and those whose account_type is PLAYER
    Agents, Admins,
    AgentOf,         \* users.agent_id of a Player (None: no agent)
    AdminOf,         \* users.created_by_id of an Agent (None: no such row)
    None,            \* SQL NULL
    Games,
    OpensAt, ClosesAt,   \* rounds.opens_at and closes_at of today's round
    MinStake, MaxStake,  \* games.min_stake and max_stake
    Types,           \* the type ids that requests name
    Stakes,          \* the stakes that requests name
    Families,        \* the bet types that rates price
    Odds,            \* the multipliers a rate row may hold
    Playing,         \* the PLAYING rates, priced when the Player is created
    Giving0, Given0, \* the GIVING and GIVEN rates at the start
    Opening,         \* the wallets at the start
    MaxPayout,       \* largest value of an int4 payout column
    Buffer,          \* the time.Minute taken off opens_at and closes_at
    Timeout,         \* middleware.Timeout, to the end of a COMMIT it cut off
    Skew,            \* how far time.Now() may be from the database's now()
    Environment,     \* the writes of others that a run exercises
    CoreDeltas,      \* the amounts core-service moves in a wallet
    MaxClock,        \* bound on the clock
    MaxSeq           \* bound on the ledger rows core-service adds to

Never  == -1         \* the value of a "since" column that is not set
NoRate == 0          \* no row in rates
NoBet  == [at |-> Never]

Wallets  == {"MAIN", "WINNINGS"}
Sides    == {"open", "close"}

CloseTypes == {"CLOSE_SINGLE", "CLOSE_SINGLE_PANA", "CLOSE_DOUBLE_PANA",
               "CLOSE_TRIPLE_PANA"}
OpenTypes  == {"OPEN_SINGLE", "OPEN_SINGLE_PANA", "OPEN_DOUBLE_PANA",
               "OPEN_TRIPLE_PANA"}
WholeTypes == {"JODI", "HALF_SANGAM", "FULL_SANGAM"}
AllTypes   == OpenTypes \cup CloseTypes \cup WholeTypes

(* Which of the round's two instants gates a type.                         *)
CutoffGroup(t) == IF t \in CloseTypes THEN "close" ELSE "open"

(* The rate row that prices a type.                                        *)
OddsFamily(t) ==
    CASE t \in {"OPEN_SINGLE", "CLOSE_SINGLE"}           -> "SINGLE"
      [] t \in {"OPEN_SINGLE_PANA", "CLOSE_SINGLE_PANA"} -> "SINGLE_PANA"
      [] t \in {"OPEN_DOUBLE_PANA", "CLOSE_DOUBLE_PANA"} -> "DOUBLE_PANA"
      [] t \in {"OPEN_TRIPLE_PANA", "CLOSE_TRIPLE_PANA"} -> "TRIPLE_PANA"
      [] OTHER                                           -> t

(* The results a bet of type t is graded from: a Jodi or a Sangam is made  *)
(* of both panas.                                                          *)
GradedFrom(t) == IF t \in WholeTypes THEN Sides ELSE {CutoffGroup(t)}

(* Mutant: the one-minute buffer is forgotten.                             *)
CutoffUnbuffered(g, t) ==
    IF CutoffGroup(t) = "close" THEN ClosesAt[g] ELSE OpensAt[g]

Cutoff(g, t) ==
    (IF CutoffGroup(t) = "close" THEN ClosesAt[g] ELSE OpensAt[g]) - Buffer

Time   == Nat
Since  == Nat \cup {Never}
Amount == [Wallets -> Nat]

(* What a client sends.  A type outside AllTypes stands for an unknown     *)
(* type id and for a pick that its type's format refuses alike.            *)
Args == [user : Users, game : Games, type : Types, stake : Stakes]

(* token_ledger_entries; bet is the request of the bet or None.            *)
Row == [seq : Nat, user : Users, wallet : Wallets, delta : Int, after : Nat,
        bet : Requests \cup {None}]

(* predictions; user, round, type and stake are those of the request.      *)
Bet == [at : Time, odds : Nat, agentOdds : Nat]

ASSUME PlacementAssumption ==
    /\ None \notin Requests \cup Agents \cup Admins
    /\ Players \subseteq Users
    /\ AgentOf \in [Users -> Agents \cup {None}]
    /\ AdminOf \in [Agents -> Admins \cup {None}]
    /\ OpensAt \in [Games -> Nat] /\ ClosesAt \in [Games -> Nat]
    /\ MinStake \in [Games -> Int] /\ MaxStake \in [Games -> Int]
    /\ Stakes \subseteq Int
    /\ \A t \in Types \cap AllTypes : OddsFamily(t) \in Families
    /\ Odds \subseteq Nat \ {NoRate}
    /\ Playing \in [Players -> [Families -> Odds \cup {NoRate}]]
    /\ Giving0 \in [Agents -> [Families -> Odds \cup {NoRate}]]
    /\ Given0 \in [Agents -> [Families -> Odds \cup {NoRate}]]
    /\ Opening \in [Users -> Amount]
    /\ CoreDeltas \subseteq Int
    /\ MaxPayout \in Nat /\ Buffer \in Nat /\ Timeout \in Nat /\ Skew \in Nat
    /\ MaxClock \in Nat /\ MaxSeq \in Nat

VARIABLES
    \* the database
    clock,      \* now()
    exists,     \* does the game have a round today?
    inactive,   \* games.status # ACTIVE, since when
    disabled,   \* no enabled row in game_enablements, since when
    cancelled,  \* rounds.status = CANCELLED, since when
    published,  \* rounds.open_pana and close_pana, since when
    giving, given,  \* the GIVING and GIVEN rows of rates
    balance,    \* users.balance and users.winnings_balance
    rowLock,    \* the transaction that holds the lock on a users row
    ledger,     \* token_ledger_entries, committed rows
    nextSeq,    \* the sequence behind token_ledger_entries.seq
    bets,       \* predictions, committed rows, by the request that placed them
    graded,     \* those of them whose outcome is PENDING no more
    \* the requests
    arg,        \* the body of the request
    pc,         \* the statement it is about to run
    arrived,    \* when its deadline began to run
    odds, agentOdds,  \* the rates Place read
    start, leg, after, rows,  \* its transaction: its now(), what it takes from
                \* each wallet, what that leaves there, its ledger rows
    answer      \* balanceAfter of the 201 response

offers   == <<exists, inactive, disabled, cancelled, published>>
rates    == <<giving, given>>
store    == <<balance, ledger, bets, graded>>
tx       == <<start, leg, after, rows>>
vars     == <<clock, offers, rates, store, rowLock, nextSeq,
              arg, pc, arrived, odds, agentOdds, tx, answer>>

Open      == {"lookup", "playing", "giving", "agent", "begin",
              "lock", "debit", "insert", "ledger", "commit"}
Final     == {"placed", "rejected", "failed"}
InTx      == {"lock", "debit", "insert", "ledger", "commit"}

Nothing == [w \in Wallets |-> 0]

Init ==
    /\ clock = 0
    /\ exists \in [Games -> BOOLEAN]
    /\ inactive = [g \in Games |-> Never]
    /\ disabled = [g \in Games |-> [a \in Admins |-> Never]]
    /\ cancelled = [g \in Games |-> Never]
    /\ published = [g \in Games |-> [s \in Sides |-> Never]]
    /\ giving = Giving0 /\ given = Given0
    /\ balance = Opening
    /\ rowLock = [u \in Users |-> None]
    /\ ledger = {} /\ nextSeq = 0
    /\ bets = [r \in Requests |-> NoBet] /\ graded = {}
    /\ arg \in [Requests -> Args]
    /\ pc = [r \in Requests |-> "new"]
    /\ arrived = [r \in Requests |-> 0]
    /\ odds = [r \in Requests |-> NoRate]
    /\ agentOdds = [r \in Requests |-> NoRate]
    /\ start = [r \in Requests |-> 0]
    /\ leg = [r \in Requests |-> Nothing]
    /\ after = [r \in Requests |-> Nothing]
    /\ rows = [r \in Requests |-> {}]
    /\ answer = [r \in Requests |-> 0]

-----------------------------------------------------------------------------
(* Place, one request.                                                     *)

UserOf(r)    == arg[r].user
GameOf(r)    == arg[r].game
TypeOf(r)    == arg[r].type
StakeOf(r)   == arg[r].stake
FamilyOf(r)  == OddsFamily(TypeOf(r))
CutoffOf(r)  == Cutoff(GameOf(r), TypeOf(r))

Goto(r, l) == pc' = [pc EXCEPT ![r] = l]

(* Mutant: the transaction is left open on the way out.                    *)
RollbackKeepingLock(r) ==
    /\ UNCHANGED rowLock
    /\ start' = [start EXCEPT ![r] = 0]
    /\ leg' = [leg EXCEPT ![r] = Nothing]
    /\ after' = [after EXCEPT ![r] = Nothing]
    /\ rows' = [rows EXCEPT ![r] = {}]

(* The deferred tx.Rollback: the writes are dropped, the lock is free.     *)
Rollback(r) ==
    /\ rowLock' = [u \in Users |-> IF rowLock[u] = r THEN None ELSE rowLock[u]]
    /\ start' = [start EXCEPT ![r] = 0]
    /\ leg' = [leg EXCEPT ![r] = Nothing]
    /\ after' = [after EXCEPT ![r] = Nothing]
    /\ rows' = [rows EXCEPT ![r] = {}]

Reject(r) == Goto(r, "rejected") /\ Rollback(r)

(* What is refused before the database is asked anything: accounts other   *)
(* than Players, stakes that are not positive, bad types and picks, a      *)
(* Player without an agent.                                                *)
WellFormed(r) ==
    /\ UserOf(r) \in Players
    /\ StakeOf(r) > 0
    /\ TypeOf(r) \in AllTypes
    /\ AgentOf[UserOf(r)] # None

Receive(r) ==
    /\ pc[r] = "new"
    /\ Goto(r, IF WellFormed(r) THEN "lookup" ELSE "rejected")
    /\ arrived' = [arrived EXCEPT ![r] = clock]
    /\ UNCHANGED <<clock, offers, rates, store, rowLock, nextSeq,
                   arg, odds, agentOdds, tx, answer>>

(* Mutant: the round's own status is not looked at.                        *)
AdmissibleCancelled(r, now) ==
    LET g == GameOf(r)
        admin == AdminOf[AgentOf[UserOf(r)]]
    IN  /\ admin # None
        /\ exists[g]
        /\ inactive[g] = Never
        /\ disabled[g][admin] = Never
        /\ MinStake[g] <= StakeOf(r) /\ StakeOf(r) <= MaxStake[g]
        /\ published[g][CutoffGroup(TypeOf(r))] = Never
        /\ now <= CutoffOf(r)

(* Mutant: the pana of the side is not looked at.                          *)
AdmissibleSettled(r, now) ==
    LET g == GameOf(r)
        admin == AdminOf[AgentOf[UserOf(r)]]
    IN  /\ admin # None
        /\ exists[g]
        /\ inactive[g] = Never
        /\ disabled[g][admin] = Never
        /\ cancelled[g] = Never
        /\ MinStake[g] <= StakeOf(r) /\ StakeOf(r) <= MaxStake[g]
        /\ now <= CutoffOf(r)

(* TodaysRound and the checks made on the row it returns, against the      *)
(* service's own clock.                                                    *)
Admissible(r, now) ==
    LET g == GameOf(r)
        admin == AdminOf[AgentOf[UserOf(r)]]
    IN  /\ admin # None
        /\ exists[g]
        /\ inactive[g] = Never
        /\ disabled[g][admin] = Never
        /\ cancelled[g] = Never
        /\ MinStake[g] <= StakeOf(r) /\ StakeOf(r) <= MaxStake[g]
        /\ published[g][CutoffGroup(TypeOf(r))] = Never
        /\ now <= CutoffOf(r)

LookupRound(r) ==
    /\ pc[r] = "lookup"
    /\ \E now \in (clock - Skew)..(clock + Skew) :
          IF Admissible(r, now) THEN Goto(r, "playing") ELSE Goto(r, "rejected")
    /\ UNCHANGED <<clock, offers, rates, store, rowLock, nextSeq,
                   arg, arrived, odds, agentOdds, tx, answer>>

(* Mutant: the payout is checked against the stake alone.                  *)
QuoteUnchecked(r, m) ==
    IF StakeOf(r) > MaxPayout
    THEN Goto(r, "rejected") /\ UNCHANGED odds
    ELSE Goto(r, "agent") /\ odds' = [odds EXCEPT ![r] = m]

(* Freeze the multiplier m, unless its payout would not fit the column.    *)
Quote(r, m) ==
    IF StakeOf(r) * m > MaxPayout
    THEN Goto(r, "rejected") /\ UNCHANGED odds
    ELSE Goto(r, "agent") /\ odds' = [odds EXCEPT ![r] = m]

(* Mutant: the Player's own rate is only looked at when it is the lower.   *)
ReadPlayingLower(r) ==
    /\ pc[r] = "playing"
    /\ LET own == Playing[UserOf(r)][FamilyOf(r)]
       IN  IF own # NoRate /\ own <= giving[AgentOf[UserOf(r)]][FamilyOf(r)]
           THEN Quote(r, own) ELSE Goto(r, "giving") /\ UNCHANGED odds
    /\ UNCHANGED <<clock, offers, rates, store, rowLock, nextSeq,
                   arg, arrived, agentOdds, tx, answer>>

(* EffectiveMultiplier, first query: the Player's own rate.                *)
ReadPlaying(r) ==
    /\ pc[r] = "playing"
    /\ LET own == Playing[UserOf(r)][FamilyOf(r)]
       IN  IF own # NoRate THEN Quote(r, own)
                           ELSE Goto(r, "giving") /\ UNCHANGED odds
    /\ UNCHANGED <<clock, offers, rates, store, rowLock, nextSeq,
                   arg, arrived, agentOdds, tx, answer>>

(* EffectiveMultiplier, second query: what the Agent gives now.            *)
ReadGiving(r) ==
    /\ pc[r] = "giving"
    /\ LET now == giving[AgentOf[UserOf(r)]][FamilyOf(r)]
       IN  IF now = NoRate THEN Goto(r, "rejected") /\ UNCHANGED odds
                           ELSE Quote(r, now)
    /\ UNCHANGED <<clock, offers, rates, store, rowLock, nextSeq,
                   arg, arrived, agentOdds, tx, answer>>

(* AgentGivenMultiplier: recorded, never a reason to refuse.               *)
ReadGiven(r) ==
    /\ pc[r] = "agent"
    /\ agentOdds' = [agentOdds EXCEPT
                        ![r] = given[AgentOf[UserOf(r)]][FamilyOf(r)]]
    /\ Goto(r, "begin")
    /\ UNCHANGED <<clock, offers, rates, store, rowLock, nextSeq,
                   arg, arrived, odds, tx, answer>>

(* BEGIN fixes now() for every statement of the transaction.               *)
Begin(r) ==
    /\ pc[r] = "begin"
    /\ start' = [start EXCEPT ![r] = clock]
    /\ Goto(r, "lock")
    /\ UNCHANGED <<clock, offers, rates, store, rowLock, nextSeq,
                   leg, after, rows, arg, arrived, odds, agentOdds, answer>>

-----------------------------------------------------------------------------
(* debitAcrossWallets: the main wallet first, winnings for the rest.       *)

Total(b) == b["MAIN"] + b["WINNINGS"]

FromMain(b, stake) == IF b["MAIN"] < stake THEN b["MAIN"] ELSE stake

(* Mutant: winnings are spent first.                                       *)
SplitWinningsFirst(b, stake) ==
    LET won == IF b["WINNINGS"] < stake THEN b["WINNINGS"] ELSE stake
    IN  [w \in Wallets |-> IF w = "MAIN" THEN stake - won ELSE won]

Split(b, stake) ==
    [w \in Wallets |-> IF w = "MAIN" THEN FromMain(b, stake)
                                     ELSE stake - FromMain(b, stake)]

(* Mutant: the SELECT without FOR UPDATE.                                  *)
ReadWallets(r) ==
    LET u == UserOf(r) IN
    /\ pc[r] = "lock"
    /\ IF Total(balance[u]) < StakeOf(r)
       THEN Reject(r)
       ELSE /\ UNCHANGED rowLock
            /\ leg' = [leg EXCEPT ![r] = Split(balance[u], StakeOf(r))]
            /\ after' = [after EXCEPT ![r] = balance[u]]
            /\ Goto(r, "debit")
            /\ UNCHANGED <<start, rows>>
    /\ UNCHANGED <<clock, offers, rates, store, nextSeq,
                   arg, arrived, odds, agentOdds, answer>>

(* SELECT balance, winnings_balance ... FOR UPDATE                         *)
LockWallets(r) ==
    LET u == UserOf(r) IN
    /\ pc[r] = "lock"
    /\ rowLock[u] = None
    /\ IF Total(balance[u]) < StakeOf(r)
       THEN Reject(r)
       ELSE /\ rowLock' = [rowLock EXCEPT ![u] = r]
            /\ leg' = [leg EXCEPT ![r] = Split(balance[u], StakeOf(r))]
            /\ after' = [after EXCEPT ![r] = balance[u]]
            /\ Goto(r, "debit")
            /\ UNCHANGED <<start, rows>>
    /\ UNCHANGED <<clock, offers, rates, store, nextSeq,
                   arg, arrived, odds, agentOdds, answer>>

(* Mutant: the whole stake is taken from the main wallet.                  *)
DebitWholeStake(r) ==
    /\ pc[r] = "debit"
    /\ after' = [after EXCEPT ![r]["MAIN"] = @ - StakeOf(r)]
    /\ Goto(r, "insert")
    /\ UNCHANGED <<start, leg, rows, clock, offers, rates, store, rowLock, nextSeq,
                   arg, arrived, odds, agentOdds, answer>>

(* Mutant: the UPDATEs run outside the transaction that writes the ledger, *)
(* so the row lock does not last until Commit.                             *)
DebitUnlocked(r) ==
    /\ pc[r] = "debit"
    /\ rowLock' = [rowLock EXCEPT ![UserOf(r)] = None]
    /\ after' = [after EXCEPT ![r] =
                   [w \in Wallets |-> balance[UserOf(r)][w] - leg[r][w]]]
    /\ Goto(r, "insert")
    /\ UNCHANGED <<start, leg, rows, clock, offers, rates, store, nextSeq,
                   arg, arrived, odds, agentOdds, answer>>

(* The two conditional UPDATEs.  Each takes the row lock if it has to, and *)
(* matches no row when its wallet does not cover its leg; a leg of zero is *)
(* not run and leaves what the SELECT returned.                            *)
Debit(r) ==
    LET u == UserOf(r) IN
    /\ pc[r] = "debit"
    /\ rowLock[u] \in {None, r}
    /\ IF \E w \in Wallets : leg[r][w] > 0 /\ balance[u][w] < leg[r][w]
       THEN Reject(r)
       ELSE /\ rowLock' = [rowLock EXCEPT ![u] = r]
            /\ after' = [after EXCEPT ![r] =
                           [w \in Wallets |-> IF leg[r][w] > 0
                                              THEN balance[u][w] - leg[r][w]
                                              ELSE @[w]]]
            /\ Goto(r, "insert")
            /\ UNCHANGED <<start, leg, rows>>
    /\ UNCHANGED <<clock, offers, rates, store, nextSeq,
                   arg, arrived, odds, agentOdds, answer>>

(* Mutant: no trigger, the cutoff is left to the service's own clock.      *)
InsertUnchecked(r) ==
    /\ pc[r] = "insert"
    /\ Goto(r, "ledger")
    /\ UNCHANGED <<clock, offers, rates, store, rowLock, tx, nextSeq,
                   arg, arrived, odds, agentOdds, answer>>

(* INSERT INTO predictions, under the trigger enforce_prediction_cutoff.   *)
InsertPrediction(r) ==
    /\ pc[r] = "insert"
    /\ IF start[r] > CutoffOf(r)
       THEN Reject(r)
       ELSE Goto(r, "ledger") /\ UNCHANGED <<rowLock, tx>>
    /\ UNCHANGED <<clock, offers, rates, store, nextSeq,
                   arg, arrived, odds, agentOdds, answer>>

(* insertLedger, for each leg that moved something, main first.            *)
DebitRow(r, w, seq) ==
    [seq |-> seq, user |-> UserOf(r), wallet |-> w, delta |-> -leg[r][w],
     after |-> after[r][w], bet |-> r]

(* Mutant: one row for the whole debit, booked on the main wallet.         *)
WriteOneRow(r) ==
    /\ pc[r] = "ledger"
    /\ rows' = [rows EXCEPT ![r] = {DebitRow(r, "MAIN", nextSeq)}]
    /\ nextSeq' = nextSeq + 1
    /\ Goto(r, "commit")
    /\ UNCHANGED <<clock, offers, rates, store, rowLock, start, leg, after,
                   arg, arrived, odds, agentOdds, answer>>

WriteLedger(r) ==
    LET main == leg[r]["MAIN"] > 0
        won  == leg[r]["WINNINGS"] > 0
        next == IF main THEN nextSeq + 1 ELSE nextSeq
    IN
    /\ pc[r] = "ledger"
    /\ rows' = [rows EXCEPT ![r] =
                (IF main THEN {DebitRow(r, "MAIN", nextSeq)} ELSE {})
                \cup (IF won THEN {DebitRow(r, "WINNINGS", next)} ELSE {})]
    /\ nextSeq' = IF won THEN next + 1 ELSE next
    /\ Goto(r, "commit")
    /\ UNCHANGED <<clock, offers, rates, store, rowLock, start, leg, after,
                   arg, arrived, odds, agentOdds, answer>>

(* What the database does when it carries COMMIT out; a wallet that no     *)
(* UPDATE touched is left as it is.                                        *)
Publish(r) ==
    /\ balance' = [balance EXCEPT ![UserOf(r)] =
                     [w \in Wallets |-> IF leg[r][w] > 0 THEN after[r][w]
                                                         ELSE @[w]]]
    /\ ledger' = ledger \cup rows[r]
    /\ bets' = [bets EXCEPT ![r] = [at |-> clock, odds |-> odds[r],
                                    agentOdds |-> agentOdds[r]]]
    /\ UNCHANGED graded

Commit(r) ==
    /\ pc[r] = "commit"
    /\ Publish(r)
    /\ Rollback(r)   \* a no-op once committed, apart from the lock
    /\ answer' = [answer EXCEPT ![r] = Total(after[r])]
    /\ Goto(r, "placed")
    /\ UNCHANGED <<clock, offers, rates, nextSeq,
                   arg, arrived, odds, agentOdds>>

(* COMMIT is carried out, but its acknowledgement is lost or comes after   *)
(* the request's context has expired: Place returns an error.              *)
CommitUnacknowledged(r) ==
    /\ pc[r] = "commit"
    /\ Publish(r)
    /\ Rollback(r)
    /\ Goto(r, "failed")
    /\ UNCHANGED <<clock, offers, rates, nextSeq,
                   arg, arrived, odds, agentOdds, answer>>

(* Any statement may fail, or be cut off by the request's deadline.        *)
Fail(r) ==
    /\ pc[r] \in Open
    /\ Rollback(r)
    /\ Goto(r, "failed")
    /\ UNCHANGED <<clock, offers, rates, store, nextSeq,
                   arg, arrived, odds, agentOdds, answer>>

(* The process dies: no request is answered, no transaction survives.      *)
Crash ==
    /\ "crash" \in Environment
    /\ \E r \in Requests : pc[r] \in Open
    /\ pc' = [r \in Requests |-> IF pc[r] \in Open THEN "failed" ELSE pc[r]]
    /\ rowLock' = [u \in Users |-> None]
    /\ start' = [r \in Requests |-> 0]
    /\ leg' = [r \in Requests |-> Nothing]
    /\ after' = [r \in Requests |-> Nothing]
    /\ rows' = [r \in Requests |-> {}]
    /\ UNCHANGED <<clock, offers, rates, store, nextSeq,
                   arg, arrived, odds, agentOdds, answer>>

-----------------------------------------------------------------------------
(* The other writers: the scheduler, core-service and time.                *)

requests == <<arg, pc, arrived, odds, agentOdds, tx, answer>>

(* No request outlives its deadline: it has failed before the clock moves. *)
Tick ==
    /\ clock < MaxClock
    /\ \A r \in Requests : pc[r] \in Open => clock < arrived[r] + Timeout
    /\ clock' = clock + 1
    /\ UNCHANGED <<offers, rates, store, rowLock, nextSeq, requests>>

GenerateRound(g) ==
    /\ ~exists[g]
    /\ exists' = [exists EXCEPT ![g] = TRUE]
    /\ UNCHANGED <<clock, inactive, disabled, cancelled, published, rates,
                   store, rowLock, nextSeq, requests>>

Toggled(since) == IF since = Never THEN clock ELSE Never

SetGameStatus(g) ==
    /\ "status" \in Environment
    /\ inactive' = [inactive EXCEPT ![g] = Toggled(@)]
    /\ UNCHANGED <<clock, exists, disabled, cancelled, published, rates,
                   store, rowLock, nextSeq, requests>>

SetEnablement(g, a) ==
    /\ "enablement" \in Environment
    /\ disabled' = [disabled EXCEPT ![g][a] = Toggled(@)]
    /\ UNCHANGED <<clock, exists, inactive, cancelled, published, rates,
                   store, rowLock, nextSeq, requests>>

CancelRound(g) ==
    /\ "cancel" \in Environment
    /\ exists[g] /\ cancelled[g] = Never
    /\ cancelled' = [cancelled EXCEPT ![g] = clock]
    /\ UNCHANGED <<clock, exists, inactive, disabled, published, rates,
                   store, rowLock, nextSeq, requests>>

SetRates(a, f) ==
    /\ "rates" \in Environment
    /\ \E m \in Odds \cup {NoRate} :
          \/ giving' = [giving EXCEPT ![a][f] = m] /\ UNCHANGED given
          \/ given' = [given EXCEPT ![a][f] = m] /\ UNCHANGED giving
    /\ UNCHANGED <<clock, offers, store, rowLock, nextSeq, requests>>

Gradable(r, results) ==
    /\ bets[r] # NoBet
    /\ r \notin graded
    /\ GradedFrom(TypeOf(r)) \subseteq results

Results(g) == {s \in Sides : published[g][s] # Never}

(* A result is submitted once, at any time: place.go:112-114 counts on     *)
(* some being entered early.  The settlement transaction stores the pana   *)
(* and grades the bets it sees; a winner's payout is a CoreDelta.          *)
SubmitResult(g, s) ==
    /\ "results" \in Environment
    /\ exists[g] /\ published[g][s] = Never
    /\ published' = [published EXCEPT ![g][s] = clock]
    /\ graded' = graded \cup {r \in Requests :
                                 /\ GameOf(r) = g
                                 /\ s \in GradedFrom(TypeOf(r))
                                 /\ Gradable(r, Results(g) \cup {s})}
    /\ UNCHANGED <<clock, exists, inactive, disabled, cancelled, rates,
                   balance, ledger, bets, rowLock, nextSeq, requests>>

(* LedgerService.applyDelta: a conditional update and its ledger row.      *)
CoreDelta(u, w, d) ==
    LET left == balance[u][w] + d IN
    /\ nextSeq < MaxSeq
    /\ rowLock[u] = None
    /\ left >= 0
    /\ balance' = [balance EXCEPT ![u][w] = left]
    /\ ledger' = ledger \cup {[seq |-> nextSeq, user |-> u, wallet |-> w,
                               delta |-> d, after |-> left, bet |-> None]}
    /\ nextSeq' = nextSeq + 1
    /\ UNCHANGED <<clock, offers, rates, bets, graded, rowLock, requests>>

-----------------------------------------------------------------------------
Advance(r) ==
    \/ LookupRound(r)
    \/ ReadPlaying(r)
    \/ ReadGiving(r)
    \/ ReadGiven(r)
    \/ Begin(r)
    \/ LockWallets(r)
    \/ Debit(r)
    \/ InsertPrediction(r)
    \/ WriteLedger(r)
    \/ Commit(r)

Others ==
    \/ Tick
    \/ Crash
    \/ \E g \in Games : GenerateRound(g) \/ SetGameStatus(g) \/ CancelRound(g)
    \/ \E g \in Games, a \in Admins : SetEnablement(g, a)
    \/ \E g \in Games, s \in Sides : SubmitResult(g, s)
    \/ \E a \in Agents, f \in Families : SetRates(a, f)
    \/ \E u \in Users, w \in Wallets, d \in CoreDeltas : CoreDelta(u, w, d)

(* Every request of the behaviour has had its answer.                      *)
Done == (\A r \in Requests : pc[r] \in Final) /\ UNCHANGED vars

Next ==
    \/ \E r \in Requests :
          Receive(r) \/ Advance(r) \/ CommitUnacknowledged(r) \/ Fail(r)
    \/ Others
    \/ Done

Spec == Init /\ [][Next]_vars

-----------------------------------------------------------------------------
(* PROPERTIES                                                              *)

(* Every variable holds a value of its column or field; in particular no   *)
(* wallet is ever negative.                                                *)
TypeOK ==
    /\ clock \in Time
    /\ exists \in [Games -> BOOLEAN]
    /\ inactive \in [Games -> Since]
    /\ disabled \in [Games -> [Admins -> Since]]
    /\ cancelled \in [Games -> Since]
    /\ published \in [Games -> [Sides -> Since]]
    /\ giving \in [Agents -> [Families -> Odds \cup {NoRate}]]
    /\ given \in [Agents -> [Families -> Odds \cup {NoRate}]]
    /\ balance \in [Users -> Amount]
    /\ rowLock \in [Users -> Requests \cup {None}]
    /\ ledger \in SUBSET Row
    /\ nextSeq \in Nat
    /\ bets \in [Requests -> Bet \cup {NoBet}]
    /\ arg \in [Requests -> Args]
    /\ pc \in [Requests -> {"new"} \cup Open \cup Final]
    /\ arrived \in [Requests -> Time]
    /\ odds \in [Requests -> Nat]
    /\ agentOdds \in [Requests -> Nat]
    /\ graded \subseteq Requests
    /\ start \in [Requests -> Time]
    /\ leg \in [Requests -> Amount]
    /\ after \in [Requests -> Amount]
    /\ rows \in [Requests -> SUBSET Row]
    /\ answer \in [Requests -> Nat]

Rows(u, w) == {e \in ledger : e.user = u /\ e.wallet = w}

(* The rows in S, taken in seq order, leave the wallet at b.               *)
LeavesAt(S, u, w, b) ==
    IF S = {} THEN b = Opening[u][w]
    ELSE \E e \in S : e.after = b /\ \A f \in S : f.seq <= e.seq

Earlier(u, w, n) == {e \in Rows(u, w) : e.seq < n}

(* The ledger read in seq order, as GetLedger shows it, accounts for every *)
(* wallet: each row starts from what the row before it left, and the last  *)
(* row left what the users row holds, however transactions interleave.     *)
LedgerExplainsBalance ==
    \A u \in Users, w \in Wallets :
        /\ LeavesAt(Rows(u, w), u, w, balance[u][w])
        /\ \A e \in Rows(u, w) :
              LeavesAt(Earlier(u, w, e.seq), u, w, e.after - e.delta)

BetRows(r) == {e \in ledger : e.bet = r}

PaidFrom(r, w) ==
    IF \E e \in BetRows(r) : e.wallet = w
    THEN -(CHOOSE e \in BetRows(r) : e.wallet = w).delta ELSE 0

(* A prediction and its debits exist together or not at all: without a     *)
(* prediction no row names the request, and with one its rows take the     *)
(* stake from its Player, at most one row for each wallet.                 *)
StakeTakenOnce ==
    \A r \in Requests :
        IF bets[r] = NoBet THEN BetRows(r) = {}
        ELSE /\ \A e \in BetRows(r) : e.user = UserOf(r) /\ e.delta < 0
             /\ \A e, f \in BetRows(r) : e.wallet = f.wallet => e = f
             /\ PaidFrom(r, "MAIN") + PaidFrom(r, "WINNINGS") = StakeOf(r)

(* Winnings pay only for what the main wallet could not: when a bet takes  *)
(* from winnings, the main wallet stood at zero at that row.               *)
MainWalletFirst ==
    \A u \in Users : \A e \in Rows(u, "WINNINGS") :
        e.bet # None => LeavesAt(Earlier(u, "MAIN", e.seq), u, "MAIN", 0)

(* The BalanceAfter of a PlaceResult is what the Player can bet with next, *)
(* whatever moved the wallets while the request ran.                       *)
AnswerIsBalance ==
    [][\A r \in Requests :
          pc[r] # "placed" /\ pc'[r] = "placed"
             => answer'[r] = Total(balance'[UserOf(r)])]_vars

(* Since when something that closes bets like r's has been in force.       *)
ShutSince(r) ==
    LET g == GameOf(r)
    IN  {inactive[g], cancelled[g], published[g][CutoffGroup(TypeOf(r))],
         disabled[g][AdminOf[AgentOf[UserOf(r)]]]}

(* The round is read outside the transaction, so a bet may be accepted     *)
(* after the round was cancelled, its result published or its game taken   *)
(* off, but never by more than the request's deadline.                     *)
StaleReadsAreBounded ==
    \A r \in Requests : bets[r] # NoBet =>
        \A since \in ShutSince(r) :
            since # Never => bets[r].at <= since + Timeout

(* When the result that closes bets like r's was entered.                  *)
ResultOf(r) == published[GameOf(r)][CutoffGroup(TypeOf(r))]

(* A result closes its side at once, however early it is entered: no bet   *)
(* whose request came after the result of its side is ever debited.        *)
ResultsCloseTheirSide ==
    \A r \in Requests : bets[r] # NoBet =>
        ResultOf(r) = Never \/ arrived[r] <= ResultOf(r)

(* "A published result means this side is graded and closed" (place.go:    *)
(* 110-112): every accepted bet can still be graded, none is left PENDING  *)
(* once the results that grade it are all in.  It does not hold: a result  *)
(* entered while a bet is past the check of line 115 is not seen by it.    *)
NoStrandedBet ==
    \A r \in Requests : ~Gradable(r, Results(GameOf(r)))

InstantOf(g, s) == IF s = "open" THEN OpensAt[g] ELSE ClosesAt[g]

(* What the buffer buys: a bet is stranded only by a result entered before *)
(* the instant of its side.  One entered from that instant on finds every  *)
(* bet of its side committed, although its check and its debit are not one *)
(* step.                                                                   *)
StrandedOnlyEarly ==
    \A r \in Requests : Gradable(r, Results(GameOf(r))) =>
        ResultOf(r) < InstantOf(GameOf(r), CutoffGroup(TypeOf(r)))

(* A bet is accepted in time by the database's clock, whatever the service *)
(* believed the time to be: it commits within a deadline of its cutoff.    *)
NoLateBet ==
    \A r \in Requests : bets[r] # NoBet => bets[r].at <= CutoffOf(r) + Timeout

EffectiveOdds(r) ==
    LET own == Playing[UserOf(r)][FamilyOf(r)]
    IN  IF own # NoRate THEN own ELSE giving[AgentOf[UserOf(r)]][FamilyOf(r)]

(* The multiplier frozen into a bet was, at the instant it was read, what  *)
(* the Player's rates offered, though it takes two queries to find.        *)
OddsAreEffective ==
    [][\A r \in Requests :
          odds'[r] # odds[r] => odds'[r] = EffectiveOdds(r)]_vars

(* Each bet taken is priced, and its own payout fits the int4 column.      *)
EachPayoutFits ==
    \A r \in Requests : bets[r] # NoBet =>
        bets[r].odds # NoRate /\ StakeOf(r) * bets[r].odds <= MaxPayout

(* Place "executes a bet, or fails without moving any tokens".             *)
FailedPlaceMovesNothing ==
    \A r \in Requests : pc[r] = "failed" => bets[r] = NoBet

-----------------------------------------------------------------------------
(* THE PROMISE                                                             *)

PriceOf(r) == IF bets[r] = NoBet THEN NoRate ELSE bets[r].odds

Book == INSTANCE BetBook WITH
    Orders  <- Args,
    Deltas  <- CoreDeltas,
    wallets <- balance,
    orders  <- arg,
    price   <- [r \in Requests |-> PriceOf(r)]

(* Placement, with its reads, locks, two wallets and crashes, is one step  *)
(* of BetBook for each bet and for each write of core-service, and no step *)
(* of it otherwise: from outside, Place is atomic.                         *)
ImplementsBetBook == Book!Spec

=============================================================================
