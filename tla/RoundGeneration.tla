-------------------------- MODULE RoundGeneration ---------------------------
(***************************************************************************)
(* The scheduler: game.RunScheduler and game.GenerateRounds, run by every  *)
(* instance of the service against one database, while Platform Admin      *)
(* edits games and holidays and the calendar moves on.                     *)
(*                                                                         *)
(* Time is counted in hours of UTC, DayLength of them to a day.  A time    *)
(* zone is an offset that changes at most once.  Wall-clock times are      *)
(* counted the same way, so a date is a wall-clock time \div DayLength.    *)
(***************************************************************************)
EXTENDS Integers, FiniteSets

CONSTANTS
    Instances,      \* the running copies of the service
    Games,
    Zones,          \* the names games.timezone may hold
    ZoneRule,       \* the rules of those that time.LoadLocation knows
    Definitions,    \* what a row of games may hold
    Days,           \* the dates of a behaviour
    DayLength, DaysPerWeek,
    DaysAhead,      \* ROUND_GENERATOR_DAYS_AHEAD
    Start,          \* the clock at the start
    Edits,          \* what Platform Admin edits: "games", "holidays"
    MaxClock,       \* bound on the clock
    MaxFailures     \* bound on failed statements and crashes

NoRound == [opens |-> -1]
Never   == -1

Definition == [active : BOOLEAN, open : 0..(DayLength - 1),
               close : 0..(DayLength - 1), offDays : SUBSET (0..(DaysPerWeek - 1)),
               zone : Zones]

ASSUME RoundGenerationAssumption ==
    /\ Games # {}
    /\ DayLength \in Nat \ {0} /\ DaysPerWeek \in Nat \ {0}
    /\ DaysAhead \in Nat /\ Days \subseteq Int
    /\ DOMAIN ZoneRule \subseteq Zones
    /\ \A z \in DOMAIN ZoneRule :
          ZoneRule[z] \in [at : Int, before : Int, after : Int]
    /\ Definitions \subseteq Definition
    /\ Start \in Nat /\ MaxClock \in Nat /\ MaxFailures \in Nat

VARIABLES
    clock,      \* now(), and time.Now() of every instance
    games,      \* the games table
    holidays,   \* game_holidays
    rounds,     \* the rounds table; by is the definition a row was made from
    failures,   \* how many statements have failed
    \* GenerateRounds, by instance
    pc,
    defs,       \* the games it read
    todo,       \* those it has still to go through
    game,       \* the one it is at
    nowLocal,   \* its wall-clock time when it came to that game
    offset,     \* the day it is at, counted from today
    \* history
    began,      \* when the run began
    seen,       \* the games not edited since
    covered,    \* for a game not edited since it, when a completed run began
    late        \* was the day it inserts made a holiday after its lookup?

db      == <<games, holidays, rounds>>
run     == <<pc, defs, todo, game, nowLocal, offset>>
history == <<began, seen, covered, late>>
vars    == <<clock, db, failures, run, history>>

-----------------------------------------------------------------------------
(* Time zones.                                                             *)

OffsetAt(z, t) ==
    IF t < ZoneRule[z].at THEN ZoneRule[z].before ELSE ZoneRule[z].after

(* The wall-clock time of an instant, and its date.                        *)
In(z, t)   == t + OffsetAt(z, t)
Date(wall) == wall \div DayLength
Weekday(d) == d % DaysPerWeek

(* time.Date: the instant of a wall-clock time.  A time that the zone      *)
(* skips is read with the offset in force before or after the gap.         *)
GoDate(z, wall) == wall - OffsetAt(z, wall - OffsetAt(z, wall))

(* (now() AT TIME ZONE g.timezone)::date                                   *)
Today(g) == Date(In(games[g].zone, clock))

Init ==
    /\ clock = Start
    /\ games \in [Games -> Definitions]
    /\ holidays = {}
    /\ rounds = [g \in Games |-> [d \in Days |-> NoRound]]
    /\ failures = 0
    /\ pc = [i \in Instances |-> "down"]
    /\ defs = [i \in Instances |-> <<>>]
    /\ todo = [i \in Instances |-> {}]
    /\ game = [i \in Instances |-> CHOOSE g \in Games : TRUE]
    /\ nowLocal = [i \in Instances |-> 0]
    /\ offset = [i \in Instances |-> 0]
    /\ began = [i \in Instances |-> Never]
    /\ seen = [i \in Instances |-> {}]
    /\ covered = [g \in Games |-> Never]
    /\ late = [i \in Instances |-> FALSE]

-----------------------------------------------------------------------------
(* One run of GenerateRounds.                                              *)

Goto(i, l) == pc' = [pc EXCEPT ![i] = l]

(* RunScheduler, at once and on each tick: SELECT ... WHERE status =       *)
(* 'ACTIVE' takes the definitions the whole run goes by.                   *)
ReadGames(i) ==
    LET active == {g \in Games : games[g].active} IN
    /\ pc[i] \in {"down", "idle"}
    /\ defs' = [defs EXCEPT ![i] = [g \in active |-> games[g]]]
    /\ todo' = [todo EXCEPT ![i] = active]
    /\ began' = [began EXCEPT ![i] = clock]
    /\ seen' = [seen EXCEPT ![i] = Games]
    /\ Goto(i, "next")
    /\ UNCHANGED <<clock, db, failures, game, nowLocal, offset, covered, late>>

(* Mutant: an unknown zone ends the run.                                   *)
NextGameAborts(i) ==
    /\ pc[i] = "next"
    /\ \E g \in todo[i] :
          /\ todo' = [todo EXCEPT ![i] = @ \ {g}]
          /\ IF defs[i][g].zone \in DOMAIN ZoneRule
             THEN /\ game' = [game EXCEPT ![i] = g]
                  /\ nowLocal' = [nowLocal EXCEPT ![i] =
                                    In(defs[i][g].zone, clock)]
                  /\ offset' = [offset EXCEPT ![i] = 0]
                  /\ Goto(i, "date")
             ELSE Goto(i, "idle") /\ UNCHANGED <<game, nowLocal, offset>>
    /\ UNCHANGED <<clock, db, failures, defs, history>>

(* The rows come in no particular order.  A game whose zone is unknown is  *)
(* passed over.                                                            *)
NextGame(i) ==
    /\ pc[i] = "next"
    /\ \E g \in todo[i] :
          /\ todo' = [todo EXCEPT ![i] = @ \ {g}]
          /\ IF defs[i][g].zone \in DOMAIN ZoneRule
             THEN /\ game' = [game EXCEPT ![i] = g]
                  /\ nowLocal' = [nowLocal EXCEPT ![i] =
                                    In(defs[i][g].zone, clock)]
                  /\ offset' = [offset EXCEPT ![i] = 0]
                  /\ Goto(i, "date")
             ELSE UNCHANGED <<pc, game, nowLocal, offset>>
    /\ UNCHANGED <<clock, db, failures, defs, history>>

EndRun(i) ==
    /\ pc[i] = "next" /\ todo[i] = {}
    /\ Goto(i, "idle")
    /\ covered' = [g \in Games |-> IF g \in seen[i] THEN began[i]
                                                    ELSE covered[g]]
    /\ UNCHANGED <<clock, db, failures, defs, todo, game, nowLocal, offset,
                   began, seen, late>>

(* Mutant: the date is that of UTC.                                        *)
DayUTC(i) == Date(clock) + offset[i]

(* The date of the day the run is at: AddDate, then midnight of that day.  *)
DayOf(i) ==
    LET z        == defs[i][game[i]].zone
        local    == In(z, GoDate(z, nowLocal[i] + offset[i] * DayLength))
        midnight == GoDate(z, Date(local) * DayLength)
    IN  Date(In(z, midnight))

(* Mutant: one day too many.                                               *)
CheckDateOneMore(i) ==
    /\ pc[i] = "date"
    /\ IF offset[i] > DaysAhead
       THEN Goto(i, "next") /\ UNCHANGED offset
       ELSE IF \/ Weekday(DayOf(i)) \in defs[i][game[i]].offDays
               \/ <<game[i], DayOf(i)>> \in holidays
            THEN offset' = [offset EXCEPT ![i] = @ + 1] /\ UNCHANGED pc
            ELSE Goto(i, "insert") /\ UNCHANGED offset
    /\ late' = [late EXCEPT ![i] = FALSE]
    /\ UNCHANGED <<clock, db, failures, defs, todo, game, nowLocal,
                   began, seen, covered>>

(* Mutant: the holidays are not asked for.                                 *)
CheckDateNoHoliday(i) ==
    /\ pc[i] = "date"
    /\ IF offset[i] = DaysAhead
       THEN Goto(i, "next") /\ UNCHANGED offset
       ELSE IF Weekday(DayOf(i)) \in defs[i][game[i]].offDays
            THEN offset' = [offset EXCEPT ![i] = @ + 1] /\ UNCHANGED pc
            ELSE Goto(i, "insert") /\ UNCHANGED offset
    /\ late' = [late EXCEPT ![i] = FALSE]
    /\ UNCHANGED <<clock, db, failures, defs, todo, game, nowLocal,
                   began, seen, covered>>

(* The head of the loop over the days: leave days are passed over.  The    *)
(* weekly ones are those the run read, the holidays are asked for now.     *)
CheckDate(i) ==
    /\ pc[i] = "date"
    /\ IF offset[i] = DaysAhead
       THEN Goto(i, "next") /\ UNCHANGED offset
       ELSE IF \/ Weekday(DayOf(i)) \in defs[i][game[i]].offDays
               \/ <<game[i], DayOf(i)>> \in holidays
            THEN offset' = [offset EXCEPT ![i] = @ + 1] /\ UNCHANGED pc
            ELSE Goto(i, "insert") /\ UNCHANGED offset
    /\ late' = [late EXCEPT ![i] = FALSE]
    /\ UNCHANGED <<clock, db, failures, defs, todo, game, nowLocal,
                   began, seen, covered>>

(* Mutant: the instants are counted in hours from midnight.                *)
RoundFromMidnight(d, def) ==
    LET midnight == GoDate(def.zone, d * DayLength)
    IN  [opens |-> midnight + def.open, closes |-> midnight + def.close,
         by |-> def]

RoundOn(d, def) ==
    [opens  |-> GoDate(def.zone, d * DayLength + def.open),
     closes |-> GoDate(def.zone, d * DayLength + def.close),
     by     |-> def]

(* Mutant: ON CONFLICT DO UPDATE.                                          *)
UpsertRound(i) ==
    /\ pc[i] = "insert"
    /\ rounds' = [rounds EXCEPT ![game[i]][DayOf(i)] =
                    RoundOn(DayOf(i), defs[i][game[i]])]
    /\ offset' = [offset EXCEPT ![i] = @ + 1]
    /\ Goto(i, "date")
    /\ UNCHANGED <<clock, games, holidays, failures, defs, todo, game,
                   nowLocal, history>>

(* INSERT ... ON CONFLICT (game_id, date) DO NOTHING                       *)
InsertRound(i) ==
    /\ pc[i] = "insert"
    /\ rounds' = [rounds EXCEPT ![game[i]][DayOf(i)] =
                    IF @ = NoRound THEN RoundOn(DayOf(i), defs[i][game[i]])
                                   ELSE @]
    /\ offset' = [offset EXCEPT ![i] = @ + 1]
    /\ Goto(i, "date")
    /\ UNCHANGED <<clock, games, holidays, failures, defs, todo, game,
                   nowLocal, history>>

(* A statement fails: the rest of the run is given up, whichever game it   *)
(* was for, until the next tick.                                           *)
FailRun(i) ==
    /\ pc[i] \in {"next", "date", "insert"}
    /\ failures < MaxFailures
    /\ failures' = failures + 1
    /\ Goto(i, "idle")
    /\ UNCHANGED <<clock, db, defs, todo, game, nowLocal, offset, history>>

Crash(i) ==
    /\ pc[i] # "down"
    /\ failures < MaxFailures
    /\ failures' = failures + 1
    /\ Goto(i, "down")
    /\ UNCHANGED <<clock, db, defs, todo, game, nowLocal, offset, history>>

-----------------------------------------------------------------------------
(* Platform Admin, and time.                                               *)

Edited(g) ==
    /\ seen' = [i \in Instances |-> seen[i] \ {g}]
    /\ covered' = [covered EXCEPT ![g] = Never]
    /\ UNCHANGED began

EditGame(g) ==
    /\ "games" \in Edits
    /\ \E def \in Definitions : games' = [games EXCEPT ![g] = def]
    /\ Edited(g)
    /\ UNCHANGED <<clock, holidays, rounds, failures, run, late>>

EditHoliday(g, d) ==
    /\ "holidays" \in Edits
    /\ holidays' = IF <<g, d>> \in holidays THEN holidays \ {<<g, d>>}
                                            ELSE holidays \cup {<<g, d>>}
    /\ Edited(g)
    /\ late' = [i \in Instances |->
                   IF pc[i] = "insert" /\ game[i] = g /\ DayOf(i) = d
                   THEN <<g, d>> \notin holidays ELSE late[i]]
    /\ UNCHANGED <<clock, games, rounds, failures, run>>

Tick ==
    /\ clock < MaxClock
    /\ clock' = clock + 1
    /\ UNCHANGED <<db, failures, run, history>>

-----------------------------------------------------------------------------
(* GET /games/{gameId}/history.                                            *)

Rounds(g) == {d \in Days : rounds[g][d] # NoRound}

(* Mutant: ORDER BY date ASC.                                              *)
HistoryAscending(g, n) ==
    {d \in Rounds(g) : Cardinality({e \in Rounds(g) : e < d}) < n}

(* SELECT ... ORDER BY date DESC LIMIT n: rounds still to come included.   *)
History(g, n) ==
    {d \in Rounds(g) : Cardinality({e \in Rounds(g) : e > d}) < n}

-----------------------------------------------------------------------------
Step(i) == ReadGames(i) \/ NextGame(i) \/ EndRun(i) \/ CheckDate(i)
              \/ InsertRound(i)

Next ==
    \/ \E i \in Instances : Step(i) \/ FailRun(i) \/ Crash(i)
    \/ \E g \in Games : EditGame(g)
    \/ \E g \in Games, d \in Days : EditHoliday(g, d)
    \/ Tick

Spec == Init /\ [][Next]_vars

(* The ticker fires again and again and a statement that does not fail     *)
(* ends; failures are bounded, so some run gets through.                   *)
FairSpec == Spec /\ \A i \in Instances : WF_vars(Step(i))

-----------------------------------------------------------------------------
(* PROPERTIES                                                              *)

Round == [opens : Int, closes : Int, by : Definition] \cup {NoRound}

(* What a run may have read: some of the games, as they are defined.       *)
Readings == UNION {[G -> Definitions] : G \in SUBSET Games}

(* Every column and variable holds a value of its type.                    *)
TypeOK ==
    /\ clock \in Nat
    /\ games \in [Games -> Definitions]
    /\ holidays \subseteq Games \X Days
    /\ rounds \in [Games -> [Days -> Round]]
    /\ failures \in 0..MaxFailures
    /\ pc \in [Instances -> {"down", "idle", "next", "date", "insert"}]
    /\ defs \in [Instances -> Readings]
    /\ \A i \in Instances :
          /\ todo[i] \subseteq DOMAIN defs[i]
          /\ pc[i] \in {"date", "insert"} => game[i] \in DOMAIN defs[i]
          /\ pc[i] = "insert" => offset[i] < DaysAhead
    /\ todo \in [Instances -> SUBSET Games]
    /\ game \in [Instances -> Games]
    /\ nowLocal \in [Instances -> Int]
    /\ offset \in [Instances -> 0..DaysAhead]
    /\ began \in [Instances -> Nat \cup {Never}]
    /\ seen \in [Instances -> SUBSET Games]
    /\ covered \in [Games -> Nat \cup {Never}]
    /\ late \in [Instances -> BOOLEAN]

LeaveDay(g, d) ==
    \/ Weekday(d) \in games[g].offDays
    \/ <<g, d>> \in holidays

Offered(g) ==
    /\ games[g].active /\ games[g].zone \in DOMAIN ZoneRule
    /\ ~LeaveDay(g, Today(g))

(* "A Round row for each of the next daysAhead days": once a run has gone  *)
(* through, a Player finds today's round of each active game, and goes on  *)
(* finding it for daysAhead days even if no later run succeeds, unless the *)
(* game or its holidays are edited or today is a leave day.  Today is what *)
(* TodaysRound takes it to be, in the game's own zone.                     *)
TodayIsBettable ==
    \A g \in Games :
        covered[g] # Never /\ Offered(g)
          /\ Today(g) < Date(In(games[g].zone, covered[g])) + DaysAhead
            => rounds[g][Today(g)] # NoRound

(* Instance i inserts the round of g on d, a holiday that was put in only  *)
(* after i had looked it up.                                               *)
InsertsLate(i, g, d) ==
    /\ pc[i] = "insert" /\ pc'[i] = "date"
    /\ game[i] = g /\ DayOf(i) = d
    /\ late[i]

(* Whatever instances race and whatever is edited while they run, no round *)
(* is made for a weekly leave day of the definition it is made from, and   *)
(* none for a holiday but one that was put in between the lookup of that   *)
(* very day and the INSERT: a day that is a holiday when it is looked up   *)
(* gets no round from that lookup, however old the run is.                 *)
LeaveDaysSkipped ==
    [][\A g \in Games, d \in Days : rounds'[g][d] # rounds[g][d] =>
          /\ Weekday(d) \notin rounds'[g][d].by.offDays
          /\ <<g, d>> \in holidays => \E i \in Instances : InsertsLate(i, g, d)]_vars

(* "A Round's instants are fixed at generation and never rewritten": not   *)
(* by a later run, by another instance or by a run with other definitions. *)
RoundsAreFinal ==
    [][\A g \in Games, d \in Days :
          rounds[g][d] # NoRound => rounds'[g][d] = rounds[g][d]]_vars

(* "The wall-clock time is what the game means": a round opens and closes  *)
(* at its game's times, on its own date, on the clocks of the game's zone, *)
(* across any change of offset.                                            *)
InstantsAreWallClock ==
    \A g \in Games, d \in Days :
        LET r == rounds[g][d] IN
        r # NoRound =>
            /\ In(r.by.zone, r.opens)  = d * DayLength + r.by.open
            /\ In(r.by.zone, r.closes) = d * DayLength + r.by.close

Least(a, b) == IF a < b THEN a ELSE b

(* The list is not, as its comment says, of past rounds only: those        *)
(* generated ahead lead it.  They never take more places than the days     *)
(* that a run goes beyond today, however runs race; all other places go to *)
(* past days and today, the latest ones, as far as there are.              *)
AheadTakesFewPlaces ==
    \A g \in Games, n \in 1..Cardinality(Days) :
        LET past  == {d \in Rounds(g) : d <= Today(g)}
            shown == History(g, n) \cap past
        IN  games[g].zone \in DOMAIN ZoneRule =>
              /\ Cardinality(shown) >= Least(n - (DaysAhead - 1), Cardinality(past))
              /\ \A d \in shown, e \in past \ shown : e < d

(* Once the failures are over, an active game whose today is no leave day  *)
(* has its round in the end.                                               *)
TodayComes ==
    <>[](\A g \in Games : Offered(g) => rounds[g][Today(g)] # NoRound)

=============================================================================
