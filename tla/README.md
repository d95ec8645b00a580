# Verification of predictsim-prediction-service

TLA+ models, TLC runs and TLAPS proofs of the Go service in this repository: a
stateless HTTP service and a background scheduler that share one Postgres
database with *core-service* (a Node program that is not in this repository).
Everything that matters here is decided by how statements of different requests
and of the two services interleave in that database, so that is what the modules
model; Go data structures hardly appear.

Contents: [1 Inventory](#1-inventory) · [2 Modules](#2-modules-and-the-code) ·
[3 Runs](#3-runs) · [4 Proofs](#4-proofs) · [5 Findings](#5-findings) ·
[6 Assumptions](#6-what-is-assumed) · [7 Not modelled](#7-what-is-not-modelled) ·
[8 Plan](#8-plan)

To repeat everything:

    tlc -workers 2 -config placement_wallets.cfg MCPlacement   # and so on, see 3
    tlapm PlacementProofs.tla                                  # and so on, see 4

## 1 Inventory

| part | state it keeps | operations | talks to | modelled in |
|---|---|---|---|---|
| bet placement (`prediction/place.go`, `handlers/predictions.go`) | `predictions`, the wallets on `users`, `token_ledger_entries`; per request: the round, odds and transaction it holds | `PostPrediction` -> `Place` -> `debitAcrossWallets`, `insertLedger`; `GetMyPredictions` | round lookup and odds before its transaction; the database trigger `enforce_prediction_cutoff` inside it | `Placement`, `BetBook`, `PlayerViews` |
| bet types and picks (`prediction/types.go`) | none | `CutoffGroup`, `OddsFamily`, `ValidatePickedNumber`, pana helpers | called by placement | `Placement`, `Picks` |
| round lookup (`game/game.go`) | none, reads `rounds`, `games`, `game_enablements` | `ResolveAdminID`, `TodaysRound`, `ActiveGamesForPlayer`, `History` | called by placement and the game lists | `Placement`, `PlayerViews`, `RoundGeneration` |
| odds (`rates/rates.go`) | none, reads `rates` | `EffectiveMultiplier` (two queries), `AgentGivenMultiplier` | called by placement | `Placement` |
| round generation (`game/scheduler.go`) | `rounds` | `RunScheduler` (a goroutine and a ticker), `GenerateRounds` | one per instance of the service; reads `games`, `game_holidays` | `RoundGeneration` |
| token requests (`handlers/token_requests.go`) | `token_requests` | create, list, cancel, image | core-service approves and rejects the same rows | `TokenRequests` (not the image) |
| sessions (`auth/login.go`, `auth/session.go`) | `sessions`; the browser's cookies | login, logout, me, list, revoke, revoke others, the middleware | every authenticated route; core-service writes the same table | `Sessions` |
| views (`handlers/{games,ledger,rates,users}.go`) | none | one or two SELECTs each | the tables above | `PlayerViews` |
| CORS (`cors/cors.go`) | none | a function of the request's headers | every route | no |
| database access (`db/pool.go`, `db/id.go`) | the connection pool | open the pool, draw random ids | everything | `PooledPlacement` |
| server (`cmd/server/main.go`) | none | routing, `middleware.Timeout(10 * time.Second)`, starting the scheduler | everything | in the modules above |

How the parts interact: every request is a goroutine that runs SQL statements
one after the other; there is no shared Go state but the pool. Only `Place`
opens a transaction. Other instances, core-service and the scheduler run
statements between any two of a request.

What is hard, and what makes each part right:

* **Placement.** Five reads are made before the transaction and never repeated,
  so they may be stale by the time of the debit. The debit is up to two UPDATEs
  and two ledger rows around an INSERT a trigger may refuse; each may fail, the
  process may die, and the answer to COMMIT may be lost. Right means: money and
  prediction appear together or not at all, the ledger always explains the
  wallets, main wallet first, a bet never gets in after its result is known (or it is
  never graded), odds were really offered, payouts fit their column, every
  request is answered; in one sentence, `Place` is atomic.
* **The pool.** A bet that waits for a row lock keeps its connection. Right
  means: nobody who holds a connection ever waits for another.
* **Views.** What a Player is shown and what a placement does are computed by
  different queries. Right means: they agree, and so do the views.
* **Round generation.** A run spans many statements while games and holidays are
  edited, another instance may run at once, a statement may fail half way, and
  local days are not UTC days. Right means: rounds never change once made, leave
  days are skipped, instants are the game's wall-clock times, and each
  active game has today's round.
* **Token requests.** Count and insert are separate statements without a
  transaction, and cancel races approve. Right means: one open request of a kind,
  each request resolved once, tokens move for approved requests only.
* **Sessions.** Login inserts the session before it knows that it can answer;
  logout ignores a failed revocation; a browser holds cookies of several portals.
  Right means: nobody ends another account's session, a session is always within
  its account's reach, and a cleared cookie means an ended session.
* **Picks.** `'0'` sorts as ten. Right means: exactly the documented formats are
  accepted, each pana in one writing.

`PROJECT.json` lists the hazards one by one, each with its line and with the
properties that would catch it going wrong.

## 2 Modules and the code

| module | models | by |
|---|---|---|
| `Placement` | `PostPrediction`, `Place`, `debitAcrossWallets`, `insertLedger`, `TodaysRound`, `ResolveAdminID`, `EffectiveMultiplier`, `AgentGivenMultiplier` | one action per SQL statement whose result another writer could change |
| `BetBook` | what the comment on `Place` promises | one action per bet; `Placement!ImplementsBetBook` is `Book!Spec` under a refinement mapping |
| `PooledPlacement` | `Placement` over `db.NewPool`'s connections | the same actions, those outside a transaction guarded by a free connection |
| `PlayerViews` | `GET /games/active`, `/rates/me`, `/ledger`, `/predictions/me`, `/users/{id}` | functions of `Placement`'s state: a route is one SELECT, or two of which the first reads what no other statement changes |
| `TokenRequests` | `CreateTokenRequest`, `CancelTokenRequest`, the list | one action per statement |
| `Sessions` | package `auth`, with browsers and their cookies | one action per statement and per arrival of an answer |
| `RoundGeneration` | `GenerateRounds`, `RunScheduler`, `History` | one action per statement or loop head |
| `Picks` | `ValidatePickedNumber` and the pana helpers | operators on sequences, compared with the table of formats |
| `MC...` | small instances of these | |
| `...Proofs` | theorems, section 4 | |

Definitions marked *Mutant* are broken variants of the definition that follows
them; nothing uses them but the mutants of `PROJECT.json`.

### Placement

A request `r` walks through `pc[r]`:

| pc | action | code |
|---|---|---|
| `new` | `Receive` | the handler's checks and `place.go:69-77`: account type, stake, type and pick, agent |
| `lookup` | `LookupRound` | `place.go:79-120`, `game.go`: everything read from the round row, against the service's clock |
| `playing`, `giving` | `ReadPlaying`, `ReadGiving` | the two queries of `EffectiveMultiplier`, then the payout check (`Quote`) |
| `agent` | `ReadGiven` | `AgentGivenMultiplier` |
| `begin` | `Begin` | BEGIN: fixes the transaction's `now()` (`start`) |
| `lock` | `LockWallets` | SELECT ... FOR UPDATE, the balance check and the split |
| `debit` | `Debit` | the conditional UPDATEs |
| `insert` | `InsertPrediction` | the INSERT under the trigger `enforce_prediction_cutoff`, which compares the transaction's `now()` with `cutoff_at` |
| `ledger` | `WriteLedger` | `insertLedger` for each leg, drawing from the `seq` sequence |
| `commit` | `Commit` or `CommitUnacknowledged` | COMMIT, and its answer |

Every error path ends in `Reject`, `Fail` or `Crash`, all of which run the
deferred `Rollback`. `start`, `leg`, `after` and `rows` are what a transaction
keeps to itself until `Publish` moves it into `balance`, `ledger` and `bets`;
`rowLock` is the lock on the Player's `users` row, the one thing other requests
see of it before. Two UPDATEs under one lock are one step: nobody can see or do
anything in between, and a failure of either is a failure of the step. `Tick`
does not let a request outlive `Timeout`, which is `middleware.Timeout`: its
statements fail when the context expires. `CommitUnacknowledged` is the one
statement whose effect may outlive the error the caller gets.

The other writers are external. `CoreDelta` is core-service's `applyDelta` (the
comment at `place.go:155` names it): one conditional update and its row.
`SubmitResult` is settlement in one transaction: at any time, as results may be
entered early (`place.go:110-114`), it stores the pana of a side and grades the
bets that are committed by then. `GenerateRound` is the scheduler
as placement sees it: today's round turns up at some time (how it does is
`RoundGeneration`).

Abstractions: a game has one round (today's), a pick is valid or not (a type
outside the known ones stands for both kinds of refusal; which picks are valid
is `Picks`), times are small numbers, predictions hold what the properties look
at. Columns "since when" (`inactive`, `cancelled`, ...) store the time of the
change instead of a flag so that staleness can be measured.

### BetBook, PooledPlacement and PlayerViews

`BetBook` has the wallets, the orders and the price of each bet taken, and two
actions: `Take` (a bet, whole, at a price whose payout fits, main wallet first)
and `Move` (anything core-service does to a wallet). The refinement mapping takes
`balance` for the wallets and the frozen multiplier for the price; nothing of
locks, ledger, clocks, deadlines or requests in flight is visible.

`PooledPlacement` restates `Placement!Next` with pgxpool's limit. A query outside
the transaction takes a connection and gives it back within its step; a
transaction keeps the one `Begin` took (`InTx`) until `Rollback` or the end.

`PlayerViews` adds no state. `GamesShown` is `GET /games/active` with its status:
403 for an account that is no Player's, an empty 200 for a Player without an
Agent, 500 for an Agent whose Admin cannot be found, and else `ActiveGames`.
That route asks for the Admin first (`game.go:60`) and then for the games
(`game.go:65`). `MyRates` is the Player's own card (`rates.go:74`), or its Agent's
by a second SELECT if that is empty (`rates.go:84`). In both, what the first query
reads, whose Admin and which rates of its own, changes in no behaviour of the
model (section 6), so the answer is a function of the state in which the last
query runs. `CutoffShown` is the handler's second computation of the cutoff;
`LedgerPage` is `ORDER BY seq DESC LIMIT n`; `MyPredictions` and `UserRecord` are
what they say.

### TokenRequests

`ReadAccount`, `CountOpen`, `InsertRequest` and `LoadCreated` are the statements
of a create call, `CancelRequest` and `LoadCancelled` those of cancel. `Fail`
ends a call at any statement and keeps what it wrote;
`InsertUnacknowledged` is an INSERT whose answer is lost. `Approve` and
`RejectRequest` are core-service's, on the same `status = PENDING` condition;
`Spend` stands for bets. `since[c]` is history: the rows inserted between `c`'s
count and its own insert.

### Sessions

A call of an `/auth` route is sent (`Send`) with the cookies that its browser
holds then: `sessionCookieValue` takes the one of the portal's name, or else any
(`Found`). Login is `CheckPassword`, `InsertSession`, `ReadPermissions`; every
other route starts with `Authenticate` (`Middleware`: the session is live and its
account active) and goes on with its own statements (`Me`, `ListSessions`,
`ReadOwner` and `EndSession`, `EndOthers`, `Logout`). `LogoutUnrevoked` is the
UPDATE whose error `Logout` ignores. `Reply` is the arrival of the answer, which
is when Set-Cookie counts: answers may arrive in any order. A session's token,
stored as a hash, is the session's name here, and a login creates the session
that bears its own name, so ids are unique. core-service's ending of sessions,
expiry and the disabling of accounts happen at any time. `left[c]` and
`unrevoked` are history.

### RoundGeneration

Each instance runs `ReadGames`, then for each game `NextGame`, then for each day
`CheckDate` and `InsertRound`, and `EndRun`; `FailRun` is any `return err`,
`Crash` the end of the process. Time is counted in hours; a zone is an offset
that changes at most once, and `GoDate` does what `time.Date` does, at a gap
too (it looks the offset up twice). `Today` is the database's
`(now() AT TIME ZONE g.timezone)::date`, which is what `TodaysRound` asks for.
`History` is the query behind `GET /games/{gameId}/history`. `began`, `seen`,
`covered` and `late` are history for the properties; `late[i]` tells that the day
that instance `i` has looked up, and is about to insert, was made a holiday in
between.

### Picks

A text is a sequence over the ten digits, `Dash` and `Other` (any other byte).
`Accepts` follows the code (lengths, the first dash, comparison of neighbours);
`Table` is the reference: panas generated as ordered triples of 1..10, each
written as its last digit.

## 3 Runs

Twelve runs; eight must pass and four must find the violation that section 5
explains. `CHECK_DEADLOCK` is on in all of them (a finished behaviour stutters by
`Done`; rounds can always be generated again, and accounts always be toggled).

| run | question | bounds, and why they are enough |
|---|---|---|
| `placement_wallets` | `TypeOK`, `LedgerExplainsBalance`, `StakeTakenOnce`, `MainWalletFirst`, `AnswerIsBalance`, the refinement `ImplementsBetBook`, `ViewsAgree`, `PagesGrowAtTheTop` | two requests, of one Player or two, stakes 1 and 3 against wallets of 2 and 2: one leg, a straddling debit, and one too many for both; core-service debits and credits either wallet between any two steps (up to `MaxSeq` = 3); the process may die; pages of 1 and 3 rows of up to 7. The theorems of section 4 drop every bound. |
| `placement_offers` | `StaleReadsAreBounded`, `ResultsCloseTheirSide`, `StrandedOnlyEarly`, `NoLateBet`, `OfferedBetsGoOn`, `EachPayoutFits`, `OddsAreEffective`, `CardIsHonest` | one request (two share no state that these properties read) of a Player with a rate of its own for one family, of one with none, or of an account without an Agent; an open, a close, a whole-round and an unknown type; the clock passes both instants (2 and 3), with buffer 2 > deadline 1 as 60 s > 10 s; a service clock up to 1 off; cancel, status, enablement and results at any time, early ones included; rates of the Agent that change between all queries; payouts below, at and above the limit; stakes refused by each check. `CONSTRAINT RatesOrClosings` keeps what is unrelated apart: a behaviour either changes rates, at the clock's start and before anything closes, for any request, or moves the clock and closes things, for a stake of 3 at the first rates. What is said of prices reads neither clock nor closings, and what is said of closings no price; the theorems need no such split |
| `placement_pooled` | `WaitsAreShort`, `EveryRequestAnswered` (liveness) | three bets over two connections, of two Players: two bets of one Player fill the pool while one waits for the other and the third request waits for a connection; a crash |
| `token_races` | `TypeOK`, `DuplicatesOnlyByRace`, `ResolvedOnce`, `TokensFollowApproval` | two creates and two cancels of two Players, with and without an agent |
| `sessions_raced` | `TypeOK`, `ListedOrNew`, `OnlyOwnersEnd`, `LogoutEndsWhatItClears` | two calls of any routes in one browser that holds cookies of two accounts under two portals' names, with and without X-Portal; everything that goes wrong here is between two calls and one outside writer |
| `rounds_ahead` | `TypeOK`, `TodayIsBettable`, `InstantsAreWallClock`, `AheadTakesFewPlaces`, `TodayComes` (liveness) | two games in zones east and west of UTC that change their offset in the behaviour, or in an unknown one; two days ahead; one failed statement or crash |
| `rounds_edited` | `RoundsAreFinal`, `LeaveDaysSkipped` | two instances, one game, edits of the game and of its holidays between any two statements, the lookup of a day and its INSERT among them |
| `picks` | `AcceptsTheTable`, `OneWritingPerPana` | every text of up to three digits, so every pana and every non-pana of that length; texts of up to eight characters over small alphabets with dashes, so every shape a sangam may have or be mistaken for; all types |
| `placement_commit_bug` | `FailedPlaceMovesNothing` | violated |
| `placement_stranded_bug` | `NoStrandedBet`, with results at any time | violated |
| `token_duplicate_bug` | `OneOpenRequestPerKind` | violated |
| `rounds_gap_bug` | `TodayIsBettable` in a zone that skips midnight | violated |

What the check of the pana (`place.go:115`) and the buffer are worth is three
properties. `ResultsCloseTheirSide`: the check keeps out every bet that comes
after its result, however early that was entered; the mutant is the check gone.
`NoStrandedBet`, that no bet is left ungraded at all, is violated, because the
check is made once, before the transaction. `StrandedOnlyEarly` says how far the
buffer makes up for that: the trigger lets a bet in only if its transaction began
by the cutoff, the deadline ends it 10 s later at most, and so a result entered
at the instant of its side or later finds every bet committed. The mutant without
the buffer strands one there.
`StaleReadsAreBounded` says how wrong a bet may be about its round: it is taken
at most one request deadline after the round was closed to it.

Symmetry is used over requests, calls and instances in the runs without liveness;
their configurations treat the members of those sets alike.

**Fairness.** `PooledSpec` asks weak fairness of `PoolStep(r) \/ TxStep(r)`: a
goroutine whose next statement can run, runs it. Waiting for a row lock or for a
connection disables the step. Weak fairness is enough here, and is what the code
has: pgxpool serves its waiters in turn and Postgres a row's waiters too, and a
lock or connection that is taken by one request is given back by its own fair
steps, at most `Cardinality(Requests)` times, since a request is finished for
good. Nothing forces a request to fail, so `EveryRequestAnswered` shows that
locks and connections are always given back, not that deadlines clean up. The
mutant that runs the INSERT through the pool, as a call with `pool` in place of
`tx` would, deadlocks it. `RoundGeneration!FairSpec` asks weak fairness of
`Step(i)`: the ticker fires again and a statement that does not fail ends.
Failures are bounded (`MaxFailures`), because a database that fails for ever owes
nobody a round.

Mutants: every property of every passing run comes with a changed definition
(`PROJECT.json`, "mutants") under which TLC finds it violated: the FOR UPDATE
gone, a debit outside the transaction, winnings first, one ledger row for two
legs, no trigger, no buffer, a card of the wrong owner, a page from the wrong
end, no count before the insert, an unconditional cancel, an owner that is not
compared, a logout that only clears, the UTC day for the local one, an upsert for
DO NOTHING, and so on.

## 4 Proofs

Proved by TLAPS for every value of the constants that satisfies the assumptions
named in the modules: any number of requests, Players, games, calls, browsers,
portals and instances, pages of any length, any odds and stakes, no bound on
time or on core-service's writes (the bounds such as `MaxClock` are any
naturals).

| theorem | says |
|---|---|
| `PlacementProofs!TypeCorrect` | `Spec => []TypeOK`; in particular no wallet and no reported balance is negative |
| `PlacementLedgerProofs!LedgerExplained` | `Spec => []LedgerExplainsBalance` |
| `PlacementLedgerProofs!StakeIsTakenOnce` | `Spec => []StakeTakenOnce` |
| `PlacementLedgerProofs!MainWalletGoesFirst` | `Spec => []MainWalletFirst` |
| `PlacementLedgerProofs!AnswerIsTheBalance` | `Spec => AnswerIsBalance`, an action property |
| `PlacementProofs!StalenessIsBounded` | `Spec => []StaleReadsAreBounded` |
| `PlacementProofs!BetsAreInTime` | `Spec => []NoLateBet` |
| `PlacementProofs!ResultsClose` | `Spec => []ResultsCloseTheirSide` |
| `PlacementProofs!BufferKeepsBetsGraded` | `Spec => []StrandedOnlyEarly`, assuming `Timeout < Buffer` |
| `PlacementProofs!PayoutsFit` | `Spec => []EachPayoutFits` |
| `PlacementProofs!OddsWereOffered` | `Spec => OddsAreEffective`, an action property |
| `BetBookProofs!PlaceIsAtomic` | `Spec => ImplementsBetBook`, the refinement |
| `BetBookProofs!PoolOnlyDelays` | `PooledSpec => Spec`: all of the above holds over a pool |
| `BetBookProofs!PoolNeverWedges` | `PooledSpec => []WaitsAreShort` |
| `PlayerViewsProofs!ListAgreesWithLookup` | `Spec => OfferedBetsGoOn`, an action property |
| `PlayerViewsProofs!CardKeepsItsWord` | `Spec => CardIsHonest`, an action property |
| `PlayerViewsProofs!PagesGrow` | `Spec => PagesGrowAtTheTop`, an action property |
| `PlayerViewsProofs!PagesTellOneStory` | `Spec => []ViewsAgree` |
| `TokenRequestsProofs!TokensTypeCorrect` | `Spec => []TypeOK` |
| `TokenRequestsProofs!OnlyRacesDuplicate` | `Spec => []DuplicatesOnlyByRace` |
| `TokenRequestsProofs!FirstResolutionWins` | `Spec => ResolvedOnce`, an action property |
| `TokenRequestsProofs!ApprovalMovesTokens` | `Spec => []TokensFollowApproval` |
| `SessionsProofs!SessionsTypeCorrect` | `Spec => []TypeOK` |
| `SessionsProofs!NothingUnlisted` | `Spec => []ListedOrNew` |
| `SessionsProofs!OwnersEndTheirOwn` | `Spec => OnlyOwnersEnd`, an action property |
| `SessionsProofs!LogoutEnds` | `Spec => LogoutEndsWhatItClears`, an action property |
| `RoundGenerationProofs!GoDateIsRight` | `time.Date` finds an instant that the zone's clocks show as asked, if the zone does not skip it |
| `RoundGenerationProofs!RoundsTypeCorrect` | `Spec => []TypeOK` |
| `RoundGenerationProofs!RoundsNeverRewritten` | `Spec => RoundsAreFinal`, an action property |
| `RoundGenerationProofs!NoRoundOnLeaveDays` | `Spec => LeaveDaysSkipped`, an action property |
| `RoundGenerationProofs!InstantsOnTheClock` | `Spec => []InstantsAreWallClock`, assuming `NoneSkipped`: no zone skips the hours of its games |
| `RoundGenerationProofs!TodayHasItsRound` | `Spec => []TodayIsBettable`, assuming `CalendarsKept` and `DaysSuffice` |
| `RoundGenerationProofs!OrdinaryZonesKeepCalendars` | `CalendarsKept` holds if every zone's offset changes within a day |
| `RoundGenerationProofs!HistoryHasThePast` | `Spec /\ ZonesKept => []AheadTakesFewPlaces`, assuming `CalendarsKept` and finitely many `Days` |
| `PicksProofs!TableIsDecided` | `Spec => []AcceptsTheTable` |
| `PicksProofs!PanasHaveOneWriting` | `Spec => []OneWritingPerPana` |

The arguments for `Placement`:

1. `TypeOK` is not inductive alone: that a split stake is a pair of naturals, and
   that the rate read belongs to a family that is priced, needs to know that
   only well-formed requests get to the database. `TypeInv` adds that
   (`Admitted`).
2. `TxInv` is what the row lock buys. `LockInv`: from SELECT ... FOR UPDATE to
   the end of its transaction a request holds the lock of its Player. Hence
   (`Own`) what it computed from the wallets is still true of them at each later
   statement, the UPDATEs never find a wallet short, and (`OwnRows`) the `seq`s
   it drew come after every committed row of that Player, although the sequence
   is shared and transactions of different Players commit in any order.
   `SeqInv` bounds the committed ones. It is proved action by action:
   `OthersKept` covers steps of a holder, `RollbackTxInv` all the ways to give
   up, `QuietTxInv` steps that touch neither wallets nor locks.
3. `MoneyInv` is the conjunction of the three state properties. Only two kinds of
   step move money, a commit and `CoreDelta`. Both append rows after all
   rows of their user (`Appended`), and for each wallet either leave it
   alone or add one row that says how it changed (`Moved`); `MovedExplains` turns
   that into the ledger property, `PublishPaid` and `PublishMainFirst` into the
   others. `WalletInv == TypeInv /\ TxInv /\ MoneyInv` is inductive; TLC
   checked its conjuncts on the instance of `placement_wallets` before they were
   proved.
4. `TimeInv` follows one request through time. `Timely`: it is cut off within
   `Timeout` of its arrival; what shuts its bet out now began to do so after it
   arrived, because `LookupRound` saw nothing that did; its transaction began
   after it arrived and, past the trigger, by its cutoff; its odds passed the
   payout check. `Placed` is what is left of that once the bet is in, and
   survives later closings because the bet is older than they are. `Shutting`
   says what the other writers may do to it: leave a closing as it was, take it
   back, or start one now.
5. `ResultsClose` is inductive with `TimeInv` (`Preceded`): a bet past the lookup
   came before the result of its side, because the lookup saw none and a result
   that is entered later is later. `BufferKeepsBetsGraded` assumes nothing of when
   results are entered, only that `published` is not in the future (`ResultInv`).
   At a commit `clock <= arrived + Timeout <= start + Timeout <= cutoff + Timeout
   < cutoff + Buffer = instant` (`CommitAheadOfInstant`), so that a result which
   is in already, and will not see the bet, is one from before its instant; and
   settlement itself strands nobody (`SettlementStrandsNone`), as it grades
   whatever is committed. `Timeout < Buffer` is needed: without it the mutant
   `CutoffUnbuffered` strands a bet in time.
6. `OddsWereOffered` needs one more fact (`Fallback`): the Agent's rate is asked
   for only by a Player who has none of its own.
7. `PlaceIsAtomic`: the commit is the linearization point. `WalletInv` gives that
   the split computed at the lock is `Take`'s main-wallet-first split of the
   wallets at the commit, `TimeInv` that the payout fits, and `OddsInv` that the
   multiplier is some rate. `CoreDelta` is `Move`, and every other step leaves the
   mapped variables alone.
8. `PagesGrow` and `PagesTellOneStory` count rows, so they need that the ledger
   and the rows of open transactions are finite and that no two rows of a Player
   share a `seq` (`PageInv`). A page is upward closed (`PageIsUpwardClosed`): what
   `Appended` says of the ledger therefore holds of each page, and what
   `LedgerExplainsBalance` says of a wallet's last row holds of its newest row on
   the page.

9. `PoolNeverWedges` is the part of `EveryRequestAnswered` that is an invariant:
   its inductive strengthening, `RowsHeld`, is the converse of `LockInv`: a
   locked row is locked by a transaction of its Player that is past its SELECT.
   Such a transaction holds its row and its connection already and waits for
   nothing. A full pool has a transaction in it; if that one waits, it waits for a
   row, whose holder uses the same pool and can go on. What is left to
   TLC is that whoever can go on does so often enough, which is fairness.

For the other modules the inductive invariants are:

* `TokenInv`: what a create call still knows when it inserts. Its row does not
  exist (`Unwritten`), and every other open row of its kind came after it counted
  (`Fresh`), which is why a duplicate needs a race.
* `SessionInv`: `ListedOrNew` with what `Middleware` attached to a call, which
  stays true because a session never changes hands: the carried session belongs
  to the caller (`Known`), so does the one asked about (`Asked`), and a logout
  that is about to answer has revoked or failed to (`Over`).
* `RunInv`: while nobody edits a game, the definition that a run goes by is the
  one in the table (`Fresh`). The day it is about to insert is no weekly leave day
  of that definition, and is a holiday only if it was made one since the run
  looked it up (`Vetted`), whether games are edited or not.
* For `InstantsOnTheClock`, `GoDateIsRight` by cases on which side of the change
  the wall time and `time.Date`'s first guess lie.

Today's rounds and the past ones, in more detail:

* What a theorem about calendar days needs of the zones is `CalendarsKept`: the
  instant that `time.Date` finds for a wall time lies on that wall time's date,
  and a zone's date never goes back. It fails in two kinds of zone. One skips a
  midnight and lies west of UTC; there the statement itself is false, which is
  the finding of `rounds_gap_bug`. The other falls back over midnight, so that
  its today comes twice. It holds of the zones of `rounds_ahead`, of which "east"
  does skip a midnight. `OrdinaryZonesKeepCalendars` gives a condition that is
  easy to look up: around the change both offsets read one date, as
  in every zone that changes between 01:00 and 04:00. `DaysSuffice` only says that
  `Days` has every date that the bounded clock comes to.
* `CoverInv` is the inductive invariant of `TodayHasItsRound`. `Settled` is a day
  that is a leave day or has a round. `Walk` is what a run owes: the time it goes
  by lies between its start and now (`Timely`), a game it did not read is not
  active (`Unread`), and of the games it is done with, and of the days before
  the one it is at, none is left unsettled unless edited (`Walked`).
  `CoverageKept` says the same of every run that is over. Two facts move it
  on: days once settled stay settled while the game is not edited
  (`UntouchedWalk`), as another instance only adds rounds, and `Today` only grows
  (`SettledFromKept`), so that days drop out of what is owed. A run that was
  overtaken by midnight goes by the time it took for this game, which is no
  earlier than its start: it walks at least the days that its start promised.
* `HistoryHasThePast` counts. `AheadInv` says that no round lies `DaysAhead` days
  or more after its game's today, which is why a page loses at most
  `DaysAhead - 1` places. That is true only while a game keeps its zone
  (`ZonesKept`): moved west, its today may go back a day and one more of its
  rounds is ahead. The run that checks the property does not edit games, and the
  theorem allows every other edit. The list is cut at its greatest members
  (`GreatestUpTo`), so the past rounds on it are the latest ones.

For `Picks` there is no induction in the way, since every accepted text has at
most seven characters, but texts of any length must be refused: `CutAtDash` and
`JoinAtDash` say that a text with a dash is exactly what stands on either side of
its first one, and a pana has no dash, so a sangam is taken apart in one way
only. `PanasOfTheTable` turns an ordered triple of values 1 to 10 into the
comparison of neighbours with '0' as ten. `OneOrder` then says that of the six
orders of three digits one is a pana.

Only model-checked: the liveness properties `EveryRequestAnswered` and
`TodayComes`, which are out of the prover's reach (as are ENABLED, and induction
over data). Every invariant and every action property that a passing run
checks is also proved.

## 5 Findings

* **Place can return an error and still have taken the bet**
  (`placement_commit_bug`): a COMMIT that is carried out but not acknowledged,
  against "executes a bet, or fails without moving any tokens" (`place.go:59`).
* **A result entered early strands a bet in flight** (`placement_stranded_bug`):
  the pana is checked on a row that was read before the transaction
  (`place.go:115`), and nothing checks it again. A result that is entered between
  that check and the COMMIT settles the side without the bet, which is then
  debited and never graded, against "a published result means this side is graded
  and closed regardless of what opens_at/closes_at say" (`place.go:110-112`).
  `ResultsCloseTheirSide` and `StrandedOnlyEarly` bound it: such a request came
  before the result, and the result before its instant.
* **Two open token requests of one kind** (`token_duplicate_bug`): count and
  insert are not atomic. `DuplicatesOnlyByRace` shows that two calls in flight
  at once are needed: a retry after a lost answer is refused.
* **No round on a day whose midnight is skipped, west of UTC** (`rounds_gap_bug`),
  as in America/Santiago: `time.Date` takes the missing midnight for 23:00 of the
  day before, whose round exists already, and the day itself is passed over.

Observations that no run is about, or that hold under an assumption only:

* The payout check is per bet; `settlements.total_payout`, which `place.go:50`
  names, is a sum that is not bounded by it.
* A Player with one rate of its own is shown only that; the families it is not
  shown can still be bet on, at its Agent's rates (`CardIsHonest` speaks of
  what is on the card).
* The list of games does not look at the status of the round, so it offers a
  cancelled round that a placement refuses (`OfferedBetsGoOn` says that this is
  the only difference).
* **The history is not of past rounds.** `game.go:100` describes `History` as "a
  game's past rounds" and `games.go:100-101` the route as "past days' results",
  but the query has no condition on the date: the rounds generated ahead, without
  results, lead the list. The disagreement shows in the second state after the
  first run of the scheduler and needs no model. What does need one is how much of
  a page is lost to it: at most `DaysAhead - 1` places, however runs race, and the
  past rounds on the page are the latest ones (`AheadTakesFewPlaces`).
* A round may be made for a holiday, if the holiday is put in between a run's
  lookup of that day (`scheduler.go:89`) and its INSERT (`scheduler.go:106`);
  nothing takes it back. `LeaveDaysSkipped` says that there is no other way.
* A Player whose Agent's Admin cannot be found gets a 500 from the list of games
  (`games.go:52-55`).
* The comment at `session.go:96-98` leaves disabled accounts to the handlers; the
  middleware refuses them itself, and `Authenticate` models that.
* `Access-Control-Allow-Methods` in `cors.go` leaves out DELETE, which
  `main.go` routes.

## 6 What is assumed

About code outside this repository, read off how this code uses it:

* core-service changes wallets with a conditional update and a ledger row in one
  transaction (`place.go:155`); approves and rejects token requests on
  `status = PENDING` (`token_requests.go`, `CancelTokenRequest`); grades a
  round's bets and stores the pana in one transaction, once per side; ends
  sessions and disables accounts, but hands no session to another account.
* The trigger `enforce_prediction_cutoff` compares the transaction's `now()` to
  the row's `cutoff_at`.
* Postgres gives each statement what is committed when it starts, row locks to
  one transaction at a time, sequence numbers that increase; the connection of a
  failed request is closed, which frees its locks.
* The effect of a COMMIT sent before the deadline comes within `Timeout`:
  `Timeout` is the deadline and that delay together, and only
  `Timeout < Buffer` is used.
* Game bounds, instants of a round, a Player's own (PLAYING) rates and whose
  accounts they are (`created_by_id`) do not change during a behaviour; the
  Agent's rates do. Ids and session tokens are unique.
* Browsers keep the cookies that answers set, and send them all.

## 7 What is not modelled

* **CORS**: a function of one request's headers, without state; what it does is
  decided by browsers.
* **Images of token requests**: parsing the data URL and the route that serves
  the bytes; no other state depends on an image.
* **The server's** health route, logging, environment and shutdown; JSON and the
  wording of errors; names and ids on the user's record; the date filter of the
  ledger, which only narrows the page.
* **Passwords, hashes and random ids**, which are taken to do their job.
* **Integer widths** other than of payouts, where `MaxPayout` stands for the
  int4 column's limit.
* **A game that closes after midnight**: both instants are built on one date, so
  its round closes before it opens. Whether Platform Admin lets such a game in is
  not in this repository (listed as a hazard without a property).

## 8 Plan

Done: all modules of section 2, the refinement, and the proofs of section 4.

Left, in this order:

1. The safety half of `TodayComes`: that a run which meets no failure covers
   every game it read.
2. Token requests' images and the ledger's filter by date, if a
   property comes to depend on them.
