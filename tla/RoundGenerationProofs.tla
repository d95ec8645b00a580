------------------------ MODULE RoundGenerationProofs ------------------------
(***************************************************************************)
(* Proofs about the generation of rounds, for any number of instances,     *)
(* games, zones and days: rounds are never rewritten, leave days are       *)
(* passed over whatever races, instants are what the game's wall clock     *)
(* means as long as its zone skips none of them, every active game has     *)
(* today's round once a run after midnight has succeeded, and the rounds   *)
(* made ahead never push a past one off a page of History.                 *)
(*                                                                         *)
(* What a run knows of a game is true while nobody edits it: the           *)
(* definition it goes by is the one in the table (Fresh), and each day     *)
(* that it has walked past is settled by a leave day or a round (Walk).    *)
(* Whatever is edited, a day it is about to insert is a leave day only if  *)
(* it was made one after it was looked up (Vetted).                        *)
(***************************************************************************)
EXTENDS RoundGeneration, FiniteSetTheorems, TLAPS

(* The zone that a run reckons with is known.                              *)
Located(i) ==
    pc[i] \in {"date", "insert"} => defs[i][game[i]].zone \in DOMAIN ZoneRule

Fresh(i) == \A g \in seen[i] \cap DOMAIN defs[i] : defs[i][g] = games[g]

Vetted(i) ==
    pc[i] = "insert" =>
       /\ Weekday(DayOf(i)) \notin defs[i][game[i]].offDays
       /\ <<game[i], DayOf(i)>> \in holidays => late[i]

TypeInv == TypeOK /\ \A i \in Instances : Located(i)

RunInv == \A i \in Instances : Fresh(i) /\ Vetted(i)

-----------------------------------------------------------------------------
(* Time zones.                                                             *)

LEMMA ReadingFacts ==
    ASSUME NEW f \in Readings
    PROVE  /\ DOMAIN f \subseteq Games
           /\ \A g \in DOMAIN f : f[g] \in Definitions
  BY DEF Readings

LEMMA ReadingType ==
    ASSUME NEW G \in SUBSET Games, NEW f \in [G -> Definitions]
    PROVE  f \in Readings
  BY DEF Readings

LEMMA OffsetType ==
    ASSUME NEW z \in DOMAIN ZoneRule, NEW t \in Int
    PROVE  OffsetAt(z, t) \in Int
  BY RoundGenerationAssumption DEF OffsetAt

LEMMA InType ==
    ASSUME NEW z \in DOMAIN ZoneRule, NEW t \in Int
    PROVE  In(z, t) \in Int
  BY OffsetType DEF In

LEMMA GoDateType ==
    ASSUME NEW z \in DOMAIN ZoneRule, NEW wall \in Int
    PROVE  GoDate(z, wall) \in Int
  <1>1. OffsetAt(z, wall) \in Int
    BY OffsetType
  <1>2. wall - OffsetAt(z, wall) \in Int
    BY <1>1
  <1>3. OffsetAt(z, wall - OffsetAt(z, wall)) \in Int
    BY <1>2, OffsetType
  <1> QED BY <1>3 DEF GoDate

LEMMA DateType == ASSUME NEW wall \in Int PROVE Date(wall) \in Int
  BY RoundGenerationAssumption DEF Date

LEMMA DayStart == ASSUME NEW d \in Int PROVE d * DayLength \in Int
  BY RoundGenerationAssumption

(* A wall-clock time that the zone does not skip.                          *)
Shown(z, wall) ==
    LET r == ZoneRule[z] IN wall < r.at + r.before \/ wall >= r.at + r.after

(* time.Date finds an instant at which the clocks show what it was given,  *)
(* whenever there is one: east and west of UTC, when the offset grows and  *)
(* when it shrinks.                                                        *)
THEOREM GoDateIsRight ==
    ASSUME NEW z \in DOMAIN ZoneRule, NEW wall \in Int, Shown(z, wall)
    PROVE  In(z, GoDate(z, wall)) = wall
  <1>1. PICK T, b, a \in Int : ZoneRule[z].at = T /\ ZoneRule[z].before = b
                                 /\ ZoneRule[z].after = a
    BY RoundGenerationAssumption
  <1>2. wall < T + b \/ wall >= T + a
    BY <1>1 DEF Shown
  <1>3. \A t \in Int : OffsetAt(z, t) = IF t < T THEN b ELSE a
    BY <1>1 DEF OffsetAt
  <1>4. CASE wall < T
    <2>1. GoDate(z, wall) = wall - (IF wall - b < T THEN b ELSE a)
      BY <1>3, <1>4 DEF GoDate
    <2> QED BY <1>2, <1>3, <1>4, <2>1 DEF In
  <1>5. CASE ~(wall < T)
    <2>1. GoDate(z, wall) = wall - (IF wall - a < T THEN b ELSE a)
      BY <1>3, <1>5 DEF GoDate
    <2> QED BY <1>2, <1>3, <1>5, <2>1 DEF In
  <1> QED BY <1>4, <1>5

-----------------------------------------------------------------------------
(* Types.                                                                  *)

LEMMA RunTypes ==
    ASSUME TypeInv, NEW i \in Instances, pc[i] \in {"date", "insert"}
    PROVE  /\ game[i] \in Games /\ game[i] \in DOMAIN defs[i]
           /\ defs[i][game[i]] \in Definition
           /\ defs[i][game[i]].zone \in DOMAIN ZoneRule
           /\ DayOf(i) \in Int
  <1>1. /\ game[i] \in Games /\ game[i] \in DOMAIN defs[i]
        /\ defs[i][game[i]] \in Definition
        /\ defs[i][game[i]].zone \in DOMAIN ZoneRule
        /\ nowLocal[i] \in Int /\ offset[i] \in Int
    BY ReadingFacts, RoundGenerationAssumption DEF TypeInv, TypeOK, Located
  <1> DEFINE z        == defs[i][game[i]].zone
             local    == In(z, GoDate(z, nowLocal[i] + offset[i] * DayLength))
             midnight == GoDate(z, Date(local) * DayLength)
  <1>2. nowLocal[i] + offset[i] * DayLength \in Int
    BY <1>1, DayStart
  <1>3. GoDate(z, nowLocal[i] + offset[i] * DayLength) \in Int
    BY <1>1, <1>2, GoDateType
  <1>4. local \in Int
    BY <1>1, <1>3, InType
  <1>5. midnight \in Int
    BY <1>1, <1>4, DateType, DayStart, GoDateType
  <1>6. Date(In(z, midnight)) \in Int
    BY <1>1, <1>5, InType, DateType
  <1> QED BY <1>1, <1>6 DEF DayOf

LEMMA RoundOnType ==
    ASSUME NEW d \in Int, NEW def \in Definition, def.zone \in DOMAIN ZoneRule
    PROVE  RoundOn(d, def) \in Round
  <1>1. def.open \in Int /\ def.close \in Int
    BY RoundGenerationAssumption DEF Definition
  <1>2. d * DayLength + def.open \in Int /\ d * DayLength + def.close \in Int
    BY <1>1, DayStart
  <1>3. /\ GoDate(def.zone, d * DayLength + def.open) \in Int
        /\ GoDate(def.zone, d * DayLength + def.close) \in Int
    BY <1>2, GoDateType
  <1> QED BY <1>3 DEF RoundOn, Round

(* A run adds the round of its day where there is none.                    *)
Added(i) ==
    \A g \in Games, d \in Days :
        rounds'[g][d] = IF /\ g = game[i] /\ d = DayOf(i)
                           /\ rounds[g][d] = NoRound
                        THEN RoundOn(DayOf(i), defs[i][game[i]])
                        ELSE rounds[g][d]

LEMMA InsertAdds ==
    ASSUME TypeInv, NEW i \in Instances, InsertRound(i)
    PROVE  Added(i) /\ rounds' \in [Games -> [Days -> Round]]
  <1> DEFINE d0 == DayOf(i)
             g0 == game[i]
             n  == RoundOn(d0, defs[i][g0])
             R  == [Days -> Round]
  <1>1. n \in Round /\ g0 \in Games
    BY RunTypes, RoundOnType DEF InsertRound
  <1>2. rounds \in [Games -> R]
    BY DEF TypeInv, TypeOK
  <1>3. PICK x : x = IF rounds[g0][d0] = NoRound THEN n ELSE rounds[g0][d0]
    OBVIOUS
  <1>4. rounds' = [rounds EXCEPT ![g0] = [rounds[g0] EXCEPT ![d0] = x]]
    BY <1>3 DEF InsertRound
  <1>5. d0 \in Days => x \in Round
    BY <1>1, <1>2, <1>3
  <1>6. rounds[g0] \in R
    BY <1>1, <1>2
  <1>7. [rounds[g0] EXCEPT ![d0] = x] \in R
    BY <1>5, <1>6
  <1>8. PICK row \in R : row = [rounds[g0] EXCEPT ![d0] = x]
    BY <1>7
  <1>9. \A d \in Days : row[d] = IF d = d0 THEN x ELSE rounds[g0][d]
    BY <1>6, <1>8
  <1>10. rounds' = [rounds EXCEPT ![g0] = row]
    BY <1>4, <1>8
  <1>11. rounds' \in [Games -> R]
    <2> HIDE DEF R
    <2> QED BY <1>2, <1>10
  <1>12. \A g \in Games : rounds'[g] = IF g = g0 THEN row ELSE rounds[g]
    BY <1>1, <1>2, <1>10
  <1> QED BY <1>3, <1>9, <1>11, <1>12 DEF Added

LEMMA InitTypeInv == Init => TypeInv
  <1> SUFFICES ASSUME Init PROVE TypeInv
    OBVIOUS
  <1>1. NoRound \in Round
    BY DEF Round
  <1>2. defs \in [Instances -> Readings]
    <2>1. <<>> \in [{} -> Definitions]
      OBVIOUS
    <2>2. <<>> \in Readings
      BY <2>1, ReadingType
    <2> QED BY <2>2 DEF Init
  <1>3. game \in [Instances -> Games]
    BY RoundGenerationAssumption DEF Init
  <1>4. TypeOK
    BY <1>1, <1>2, <1>3, RoundGenerationAssumption DEF Init, TypeOK, Never
  <1> QED BY <1>4 DEF Init, TypeInv, Located

LEMMA DaysLeft ==
    ASSUME NEW n \in 0..DaysAhead, n # DaysAhead
    PROVE  n < DaysAhead /\ n + 1 \in 0..DaysAhead
  BY RoundGenerationAssumption

LEMMA LateType ==
    ASSUME TypeInv, [Next]_vars
    PROVE  late' \in [Instances -> BOOLEAN]
  <1>0. late \in [Instances -> BOOLEAN]
    BY DEF TypeInv, TypeOK
  <1>1. ASSUME NEW i \in Instances,
               \/ ReadGames(i) \/ NextGame(i) \/ EndRun(i) \/ CheckDate(i)
               \/ InsertRound(i) \/ FailRun(i) \/ Crash(i)
        PROVE  late' \in [Instances -> BOOLEAN]
    <2>1. UNCHANGED late \/ late' = [late EXCEPT ![i] = FALSE]
      BY <1>1 DEF ReadGames, NextGame, EndRun, CheckDate, InsertRound, FailRun,
         Crash, history
    <2> QED BY <1>0, <2>1
  <1>2. ASSUME NEW g \in Games, NEW d \in Days, EditHoliday(g, d)
        PROVE  late' \in [Instances -> BOOLEAN]
    <2>1. /\ late' = [i \in Instances |->
                        IF pc[i] = "insert" /\ game[i] = g /\ DayOf(i) = d
                        THEN <<g, d>> \notin holidays ELSE late[i]]
      BY <1>2 DEF EditHoliday
    <2>2. \A i \in Instances : late[i] \in BOOLEAN
      BY <1>0
    <2> QED BY <2>1, <2>2, Zenon
  <1>3. CASE (\E g \in Games : EditGame(g)) \/ Tick \/ UNCHANGED vars
    BY <1>0, <1>3 DEF EditGame, Tick, vars, history
  <1> QED BY <1>1, <1>2, <1>3 DEF Next, Step

(* A step of a run, without what becomes of the rounds.                    *)
LEMMA StepTypeInv ==
    ASSUME TypeInv, [Next]_vars, NEW i \in Instances,
           \/ ReadGames(i) \/ NextGame(i) \/ EndRun(i) \/ CheckDate(i)
           \/ InsertRound(i) \/ FailRun(i) \/ Crash(i)
    PROVE  TypeInv'
  <1>0. late' \in [Instances -> BOOLEAN]
    BY LateType
  <1> USE RoundGenerationAssumption DEF TypeInv, TypeOK, Located, Goto, db, run,
          history
  <1>1. CASE ReadGames(i)
    <2>1. todo' \in [Instances -> SUBSET Games] /\ seen' \in [Instances -> SUBSET Games]
      BY <1>1 DEF ReadGames
    <2>2. PICK f \in Readings : /\ f = [g \in {h \in Games : games[h].active} |-> games[g]]
                                /\ DOMAIN f = {h \in Games : games[h].active}
      <3>1. [g \in {h \in Games : games[h].active} |-> games[g]]
               \in [{h \in Games : games[h].active} -> Definitions]
        OBVIOUS
      <3> QED BY <3>1, ReadingType
    <2>3. defs' = [defs EXCEPT ![i] = f] /\ todo' = [todo EXCEPT ![i] = DOMAIN f]
      BY <1>1, <2>2 DEF ReadGames
    <2>4. \A j \in Instances : todo'[j] \subseteq DOMAIN defs'[j]
      BY <2>3
    <2>5. \A j \in Instances : pc'[j] \in {"date", "insert"} =>
             j # i /\ pc'[j] = pc[j] /\ defs'[j] = defs[j] /\ game'[j] = game[j]
      BY <1>1 DEF ReadGames
    <2>6. UNCHANGED <<clock, games, holidays, rounds, failures, game, nowLocal,
                      offset, covered>>
      BY <1>1 DEF ReadGames
    <2>7. /\ pc' \in [Instances -> {"down", "idle", "next", "date", "insert"}]
          /\ began' \in [Instances -> Nat \cup {Never}]
          /\ seen' \in [Instances -> SUBSET Games]
      BY <1>1 DEF ReadGames
    <2>8. /\ defs' \in [Instances -> Readings]
          /\ todo' \in [Instances -> SUBSET Games]
      BY <2>1, <2>3
    <2>9. \A j \in Instances : Located(j)'
      BY <2>5
    <2> QED BY <1>0, <2>4, <2>5, <2>6, <2>7, <2>8, <2>9
  <1>2. CASE NextGame(i)
    <2>1. PICK g \in todo[i] :
             /\ todo' = [todo EXCEPT ![i] = @ \ {g}]
             /\ IF defs[i][g].zone \in DOMAIN ZoneRule
                THEN /\ game' = [game EXCEPT ![i] = g]
                     /\ nowLocal' = [nowLocal EXCEPT ![i] = In(defs[i][g].zone, clock)]
                     /\ offset' = [offset EXCEPT ![i] = 0]
                     /\ Goto(i, "date")
                ELSE UNCHANGED <<pc, game, nowLocal, offset>>
      BY <1>2 DEF NextGame
    <2>2. /\ g \in Games /\ g \in DOMAIN defs[i]
          /\ todo' \in [Instances -> SUBSET Games]
          /\ \A j \in Instances : todo'[j] \subseteq todo[j]
      BY <2>1
    <2>3. UNCHANGED <<clock, games, holidays, rounds, failures, defs, began,
                      seen, covered>>
      BY <1>2 DEF NextGame
    <2>4. CASE defs[i][g].zone \in DOMAIN ZoneRule
      <3>1. In(defs[i][g].zone, clock) \in Int /\ 0 \in 0..DaysAhead
        BY <2>4, InType
      <3>a. /\ game' = [game EXCEPT ![i] = g]
            /\ nowLocal' = [nowLocal EXCEPT ![i] = In(defs[i][g].zone, clock)]
            /\ offset' = [offset EXCEPT ![i] = 0]
            /\ pc' = [pc EXCEPT ![i] = "date"]
        BY <2>1, <2>4
      <3>2. /\ game' \in [Instances -> Games]
            /\ nowLocal' \in [Instances -> Int]
            /\ offset' \in [Instances -> 0..DaysAhead]
            /\ pc' \in [Instances -> {"down", "idle", "next", "date", "insert"}]
        <4>1. game' \in [Instances -> Games]
          BY <2>2, <3>a
        <4>2. nowLocal' \in [Instances -> Int]
          <5>1. nowLocal \in [Instances -> Int]
            OBVIOUS
          <5> QED BY <3>1, <3>a, <5>1
        <4>3. offset' \in [Instances -> 0..DaysAhead]
          BY <3>1, <3>a
        <4>4. pc' \in [Instances -> {"down", "idle", "next", "date", "insert"}]
          BY <3>a
        <4> QED BY <4>1, <4>2, <4>3, <4>4
      <3>3. \A j \in Instances : IF j = i THEN pc'[j] = "date" /\ game'[j] = g
                                   ELSE /\ pc'[j] = pc[j] /\ game'[j] = game[j]
                                        /\ offset'[j] = offset[j]
        BY <2>1, <2>4
      <3> QED BY <1>0, <2>2, <2>3, <2>4, <3>2, <3>3
    <2>5. CASE defs[i][g].zone \notin DOMAIN ZoneRule
      <3>1. UNCHANGED <<pc, game, nowLocal, offset>>
        BY <2>1, <2>5
      <3> QED BY <1>0, <2>2, <2>3, <3>1
    <2> QED BY <2>4, <2>5
  <1>3. CASE EndRun(i)
    BY <1>3 DEF EndRun
  <1>4. CASE CheckDate(i)
    <2>1. /\ pc[i] = "date" /\ offset[i] \in 0..DaysAhead
          /\ UNCHANGED <<clock, games, holidays, rounds, failures, defs, todo,
                         game, nowLocal, began, seen, covered>>
      BY <1>4 DEF CheckDate
    <2>2. \/ Goto(i, "next") /\ UNCHANGED offset
          \/ offset[i] # DaysAhead /\ offset' = [offset EXCEPT ![i] = @ + 1]
                /\ UNCHANGED pc
          \/ offset[i] # DaysAhead /\ Goto(i, "insert") /\ UNCHANGED offset
      BY <1>4 DEF CheckDate
    <2>3. CASE Goto(i, "next") /\ UNCHANGED offset
      BY <1>0, <2>1, <2>3
    <2>4. CASE offset[i] # DaysAhead /\ offset' = [offset EXCEPT ![i] = @ + 1]
                  /\ UNCHANGED pc
      <3>1. offset[i] + 1 \in 0..DaysAhead
        BY <2>1, <2>4, DaysLeft
      <3>2. /\ offset' \in [Instances -> 0..DaysAhead]
            /\ \A j \in Instances \ {i} : offset'[j] = offset[j]
        BY <2>4, <3>1
      <3> QED BY <1>0, <2>1, <2>4, <3>2
    <2>5. CASE offset[i] # DaysAhead /\ Goto(i, "insert") /\ UNCHANGED offset
      <3>1. offset[i] < DaysAhead
        BY <2>1, <2>5, DaysLeft
      <3> QED BY <1>0, <2>1, <2>5, <3>1
    <2> QED BY <2>2, <2>3, <2>4, <2>5
  <1>5. CASE InsertRound(i)
    <2>1. rounds' \in [Games -> [Days -> Round]]
      BY <1>5, InsertAdds
    <2> QED BY <1>5, <2>1 DEF InsertRound
  <1>6. CASE FailRun(i)
    BY <1>6 DEF FailRun
  <1>7. CASE Crash(i)
    BY <1>7 DEF Crash
  <1> QED BY <1>1, <1>2, <1>3, <1>4, <1>5, <1>6, <1>7

LEMMA OthersTypeInv ==
    ASSUME TypeInv, [Next]_vars,
           \/ \E g \in Games : EditGame(g)
           \/ \E g \in Games, d \in Days : EditHoliday(g, d)
           \/ Tick
           \/ UNCHANGED vars
    PROVE  TypeInv'
  <1>0. late' \in [Instances -> BOOLEAN]
    BY LateType
  <1> USE RoundGenerationAssumption DEF TypeInv, TypeOK, Located, run, Edited
  <1>1. ASSUME NEW g \in Games, EditGame(g) PROVE TypeInv'
    BY <1>1 DEF EditGame, Never
  <1>2. ASSUME NEW g \in Games, NEW d \in Days, EditHoliday(g, d) PROVE TypeInv'
    <2>1. /\ UNCHANGED <<clock, games, rounds, failures, run>> /\ Edited(g)
          /\ holidays' \subseteq Games \X Days
      BY <1>2 DEF EditHoliday
    <2> QED BY <1>0, <2>1 DEF Never
  <1>3. CASE Tick
    BY <1>3 DEF Tick, db, history
  <1>4. CASE UNCHANGED vars
    BY <1>4 DEF vars, db, history
  <1> QED BY <1>1, <1>2, <1>3, <1>4

LEMMA NextTypeInv == ASSUME TypeInv, [Next]_vars PROVE TypeInv'
  BY StepTypeInv, OthersTypeInv DEF Next, Step

LEMMA TypeInvariant == Spec => []TypeInv
  BY InitTypeInv, NextTypeInv, PTL DEF Spec

(* Every run of every instance stays within the types of its variables, in *)
(* particular within the days it is to look ahead and in zones it knows.   *)
THEOREM RoundsTypeCorrect == Spec => []TypeOK
  <1>1. TypeInv => TypeOK
    BY DEF TypeInv
  <1> QED BY <1>1, TypeInvariant, PTL

-----------------------------------------------------------------------------
(* Rounds are final.                                                       *)

(* Only an INSERT writes rounds.                                           *)
LEMMA OnlyInserts ==
    ASSUME TypeInv, [Next]_vars
    PROVE  UNCHANGED rounds \/ \E i \in Instances : InsertRound(i) /\ Added(i)
  <1>1. ASSUME NEW i \in Instances,
               \/ ReadGames(i) \/ NextGame(i) \/ EndRun(i) \/ CheckDate(i)
               \/ FailRun(i) \/ Crash(i)
        PROVE  UNCHANGED rounds
    BY <1>1 DEF ReadGames, NextGame, EndRun, CheckDate, FailRun, Crash, db
  <1>2. CASE \/ \E g \in Games : EditGame(g)
             \/ \E g \in Games, d \in Days : EditHoliday(g, d)
             \/ Tick
             \/ UNCHANGED vars
    BY <1>2 DEF EditGame, EditHoliday, Tick, vars, db
  <1> QED BY <1>1, <1>2, InsertAdds DEF Next, Step

(* However many instances generate at once, whatever definitions they go   *)
(* by and wherever they fail, the instants of a round never change.        *)
THEOREM RoundsNeverRewritten == Spec => RoundsAreFinal
  <1> DEFINE A == \A g \in Games, d \in Days :
                     rounds[g][d] # NoRound => rounds'[g][d] = rounds[g][d]
  <1>1. TypeInv /\ [Next]_vars => A
    BY OnlyInserts DEF Added
  <1> QED BY <1>1, TypeInvariant, PTL DEF Spec, RoundsAreFinal

-----------------------------------------------------------------------------
(* Leave days.                                                             *)

LEMMA StepRunInv ==
    ASSUME TypeInv, RunInv, NEW i \in Instances,
           \/ ReadGames(i) \/ NextGame(i) \/ EndRun(i) \/ CheckDate(i)
           \/ InsertRound(i) \/ FailRun(i) \/ Crash(i)
    PROVE  RunInv'
  <1>1. /\ UNCHANGED <<games, holidays>>
        /\ \A j \in Instances \ {i} :
              /\ pc'[j] = pc[j] /\ defs'[j] = defs[j] /\ game'[j] = game[j]
              /\ nowLocal'[j] = nowLocal[j] /\ offset'[j] = offset[j]
              /\ seen'[j] = seen[j]
    BY DEF ReadGames, NextGame, EndRun, CheckDate, InsertRound, FailRun, Crash,
       Goto, db, run, history, TypeInv, TypeOK
  <1>a. ASSUME NEW j \in Instances, j # i PROVE late'[j] = late[j]
    <2>1. UNCHANGED late \/ late' = [late EXCEPT ![i] = FALSE]
      BY DEF ReadGames, NextGame, EndRun, CheckDate, InsertRound, FailRun,
         Crash, history
    <2> QED BY <1>a, <2>1 DEF TypeInv, TypeOK
  <1>2. ASSUME NEW j \in Instances, j # i PROVE Fresh(j)' /\ Vetted(j)'
    <2>1. Fresh(j) /\ Vetted(j)
      BY DEF RunInv
    <2>2. DayOf(j)' = DayOf(j)
      BY <1>1, <1>2 DEF DayOf
    <2>3. Fresh(j)'
      BY <1>1, <1>2, <2>1 DEF Fresh
    <2>4. Vetted(j)'
      BY <1>1, <1>a, <1>2, <2>1, <2>2 DEF Vetted
    <2> QED BY <2>3, <2>4
  <1>3. Fresh(i)'
    <2>1. CASE ReadGames(i)
      <3>1. DOMAIN defs'[i] \subseteq Games
             /\ \A g \in DOMAIN defs'[i] : defs'[i][g] = games[g]
        <4>1. defs'[i] = [g \in {h \in Games : games[h].active} |-> games[g]]
          <5>1. defs' = [defs EXCEPT ![i] = [g \in {h \in Games : games[h].active} |-> games[g]]]
            BY <2>1 DEF ReadGames
          <5> QED BY <5>1 DEF TypeInv, TypeOK
        <4> QED BY <4>1
      <3> QED BY <1>1, <3>1 DEF Fresh
    <2>2. CASE ~ReadGames(i)
      <3>1. UNCHANGED <<defs, seen>>
        BY <2>2 DEF NextGame, EndRun, CheckDate, InsertRound, FailRun, Crash,
           run, history
      <3> QED BY <1>1, <3>1 DEF RunInv, Fresh
    <2> QED BY <2>1, <2>2
  <1>4. Vetted(i)'
    <2>1. CASE CheckDate(i) /\ pc'[i] = "insert"
      <3>1. /\ pc[i] = "date" /\ UNCHANGED <<defs, game, nowLocal, offset>>
            /\ Weekday(DayOf(i)) \notin defs[i][game[i]].offDays
            /\ <<game[i], DayOf(i)>> \notin holidays
        BY <2>1 DEF CheckDate, Goto, TypeInv, TypeOK
      <3>2. DayOf(i)' = DayOf(i)
        BY <3>1 DEF DayOf
      <3> QED BY <1>1, <3>1, <3>2 DEF Vetted
    <2>2. CASE ~(CheckDate(i) /\ pc'[i] = "insert")
      <3>1. pc'[i] # "insert"
        <4>1. CASE NextGame(i)
          BY <4>1 DEF NextGame, Goto, TypeInv, TypeOK
        <4>2. CASE ~NextGame(i)
          BY <2>2, <4>2 DEF ReadGames, EndRun, InsertRound, FailRun, Crash,
             Goto, TypeInv, TypeOK
        <4> QED BY <4>1, <4>2
      <3> QED BY <3>1 DEF Vetted
    <2> QED BY <2>1, <2>2
  <1> QED BY <1>2, <1>3, <1>4 DEF RunInv

(* The day a run is about to insert, and its leave days, while it pauses.  *)
LEMMA PausedVetted ==
    ASSUME NEW i \in Instances, Vetted(i), UNCHANGED run,
           \/ UNCHANGED <<holidays, late>>
           \/ \E h \in Games, e \in Days : EditHoliday(h, e)
    PROVE  Vetted(i)'
  <1>1. DayOf(i)' = DayOf(i) /\ UNCHANGED <<pc, defs, game>>
    BY DEF DayOf, run
  <1>2. CASE UNCHANGED <<holidays, late>>
    BY <1>1, <1>2 DEF Vetted
  <1>3. ASSUME NEW h \in Games, NEW e \in Days, EditHoliday(h, e)
        PROVE  Vetted(i)'
    <2> SUFFICES ASSUME pc[i] = "insert",
                        <<game[i], DayOf(i)>> \in holidays'
                 PROVE  late'[i]
      BY <1>1 DEF Vetted
    <2>1. late' = [j \in Instances |->
                     IF pc[j] = "insert" /\ game[j] = h /\ DayOf(j) = e
                     THEN <<h, e>> \notin holidays ELSE late[j]]
      BY <1>3 DEF EditHoliday
    <2>2. holidays' = IF <<h, e>> \in holidays THEN holidays \ {<<h, e>>}
                                               ELSE holidays \cup {<<h, e>>}
      BY <1>3 DEF EditHoliday
    <2>3. CASE game[i] = h /\ DayOf(i) = e
      <3>1. <<h, e>> \notin holidays
        BY <2>2, <2>3
      <3>2. late'[i] = (<<h, e>> \notin holidays)
        BY <2>1, <2>3
      <3> QED BY <3>1, <3>2
    <2>4. CASE ~(game[i] = h /\ DayOf(i) = e)
      <3>1. late'[i] = late[i]
        BY <2>1, <2>4
      <3>2. <<game[i], DayOf(i)>> # <<h, e>>
        BY <2>4
      <3>3. <<game[i], DayOf(i)>> \in holidays
        BY <2>2, <3>2
      <3> QED BY <3>1, <3>3 DEF Vetted
    <2> QED BY <2>3, <2>4
  <1> QED BY <1>2, <1>3

LEMMA NextRunInv == ASSUME TypeInv, RunInv, [Next]_vars PROVE RunInv'
  <1>1. ASSUME NEW h \in Games, Edited(h), UNCHANGED run,
               \A g \in Games \ {h} : games'[g] = games[g]
        PROVE  \A i \in Instances : Fresh(i)'
    <2> SUFFICES ASSUME NEW i \in Instances PROVE Fresh(i)'
      OBVIOUS
    <2>1. seen'[i] = seen[i] \ {h} /\ seen[i] \subseteq Games
      BY <1>1 DEF Edited, TypeInv, TypeOK
    <2> QED BY <1>1, <2>1 DEF RunInv, Fresh, run
  <1>2. ASSUME NEW h \in Games, EditGame(h) PROVE RunInv'
    <2>1. \A g \in Games \ {h} : games'[g] = games[g]
      BY <1>2 DEF EditGame, TypeInv, TypeOK
    <2>2. UNCHANGED <<holidays, run, late>> /\ Edited(h)
      BY <1>2 DEF EditGame
    <2> QED BY <1>1, <2>1, <2>2, PausedVetted DEF RunInv
  <1>3. ASSUME NEW h \in Games, NEW e \in Days, EditHoliday(h, e) PROVE RunInv'
    <2>1. UNCHANGED <<games, run>> /\ Edited(h)
      BY <1>3 DEF EditHoliday
    <2> QED BY <1>1, <1>3, <2>1, PausedVetted DEF RunInv
  <1>4. CASE Tick \/ UNCHANGED vars
    <2>1. UNCHANGED <<games, holidays, run, seen, late>>
      BY <1>4 DEF Tick, vars, db, history
    <2>2. ASSUME NEW i \in Instances PROVE Fresh(i)' /\ Vetted(i)'
      BY <2>1, PausedVetted DEF RunInv, Fresh, run
    <2> QED BY <2>2 DEF RunInv
  <1> QED BY <1>2, <1>3, <1>4, StepRunInv DEF Next, Step

(* However instances race, fail and restart, and whatever Platform Admin   *)
(* edits meanwhile: a round is made for a holiday only by the INSERT whose *)
(* lookup came before that holiday was put in.                             *)
THEOREM NoRoundOnLeaveDays == Spec => LeaveDaysSkipped
  <1> DEFINE A == \A g \in Games, d \in Days : rounds'[g][d] # rounds[g][d] =>
                     /\ Weekday(d) \notin rounds'[g][d].by.offDays
                     /\ <<g, d>> \in holidays =>
                           \E i \in Instances : InsertsLate(i, g, d)
  <1>1. Init => RunInv
    BY DEF Init, RunInv, Fresh, Vetted
  <1>2. TypeInv /\ RunInv /\ [Next]_vars => A
    <2> SUFFICES ASSUME TypeInv, RunInv, [Next]_vars, NEW g \in Games,
                        NEW d \in Days, rounds'[g][d] # rounds[g][d]
                 PROVE  /\ Weekday(d) \notin rounds'[g][d].by.offDays
                        /\ <<g, d>> \in holidays =>
                              \E i \in Instances : InsertsLate(i, g, d)
      OBVIOUS
    <2>1. PICK i \in Instances : InsertRound(i) /\ Added(i)
      BY OnlyInserts
    <2>2. /\ g = game[i] /\ d = DayOf(i)
          /\ rounds'[g][d] = RoundOn(DayOf(i), defs[i][game[i]])
      BY <2>1 DEF Added
    <2>3. pc[i] = "insert" /\ pc'[i] = "date"
      BY <2>1 DEF InsertRound, Goto, TypeInv, TypeOK
    <2>4. Vetted(i)
      BY DEF RunInv
    <2>5. Weekday(d) \notin rounds'[g][d].by.offDays
      BY <2>2, <2>3, <2>4 DEF Vetted, RoundOn
    <2>6. <<g, d>> \in holidays => InsertsLate(i, g, d)
      BY <2>2, <2>3, <2>4 DEF Vetted, InsertsLate
    <2> QED BY <2>5, <2>6
  <1>3. TypeInv /\ RunInv /\ [Next]_vars => RunInv'
    BY NextRunInv
  <1> QED BY <1>1, <1>2, <1>3, TypeInvariant, PTL DEF Spec, LeaveDaysSkipped

-----------------------------------------------------------------------------
(* Instants.                                                               *)

(* No zone skips the hours at which its games open and close.              *)
NoneSkipped ==
    \A def \in Definitions : def.zone \in DOMAIN ZoneRule =>
        \A d \in Int : /\ Shown(def.zone, d * DayLength + def.open)
                        /\ Shown(def.zone, d * DayLength + def.close)

LEMMA RoundOnInstants ==
    ASSUME NoneSkipped, NEW d \in Int, NEW def \in Definitions,
           def.zone \in DOMAIN ZoneRule
    PROVE  LET r == RoundOn(d, def) IN
           /\ In(r.by.zone, r.opens)  = d * DayLength + r.by.open
           /\ In(r.by.zone, r.closes) = d * DayLength + r.by.close
  <1>1. def.open \in Int /\ def.close \in Int
    BY RoundGenerationAssumption DEF Definition
  <1>2. d * DayLength + def.open \in Int /\ d * DayLength + def.close \in Int
    BY <1>1, DayStart
  <1>3. /\ In(def.zone, GoDate(def.zone, d * DayLength + def.open))
              = d * DayLength + def.open
        /\ In(def.zone, GoDate(def.zone, d * DayLength + def.close))
              = d * DayLength + def.close
    BY <1>2, GoDateIsRight DEF NoneSkipped
  <1> QED BY <1>3 DEF RoundOn

(* Where no zone skips the hours of its games, a round opens and closes at *)
(* those hours of its own date, on either side of a change of offset.      *)
THEOREM InstantsOnTheClock ==
    ASSUME NoneSkipped
    PROVE  Spec => []InstantsAreWallClock
  <1>1. Init => InstantsAreWallClock
    BY DEF Init, InstantsAreWallClock
  <1>2. TypeInv /\ InstantsAreWallClock /\ [Next]_vars => InstantsAreWallClock'
    <2> SUFFICES ASSUME TypeInv, InstantsAreWallClock, [Next]_vars
                 PROVE  InstantsAreWallClock'
      OBVIOUS
    <2>1. CASE UNCHANGED rounds
      BY <2>1 DEF InstantsAreWallClock, In, OffsetAt
    <2>2. ASSUME NEW i \in Instances, InsertRound(i), Added(i)
          PROVE  InstantsAreWallClock'
      <3> DEFINE n == RoundOn(DayOf(i), defs[i][game[i]])
      <3>1. /\ DayOf(i) \in Int /\ defs[i][game[i]] \in Definitions
            /\ defs[i][game[i]].zone \in DOMAIN ZoneRule
        BY <2>2, RunTypes, ReadingFacts DEF InsertRound, TypeInv, TypeOK
      <3>2. /\ In(n.by.zone, n.opens)  = DayOf(i) * DayLength + n.by.open
            /\ In(n.by.zone, n.closes) = DayOf(i) * DayLength + n.by.close
        BY <3>1, RoundOnInstants
      <3>3. ASSUME NEW g \in Games, NEW d \in Days, rounds'[g][d] # NoRound
            PROVE  LET r == rounds'[g][d] IN
                   /\ In(r.by.zone, r.opens)  = d * DayLength + r.by.open
                   /\ In(r.by.zone, r.closes) = d * DayLength + r.by.close
        <4>1. CASE rounds'[g][d] = rounds[g][d]
          BY <3>3, <4>1 DEF InstantsAreWallClock
        <4>2. CASE rounds'[g][d] # rounds[g][d]
          <5>1. rounds'[g][d] = n /\ d = DayOf(i)
            BY <2>2, <4>2 DEF Added
          <5> HIDE DEF n
          <5> QED BY <3>2, <5>1
        <4> QED BY <4>1, <4>2
      <3> QED BY <3>3 DEF InstantsAreWallClock, In, OffsetAt
    <2> QED BY <2>1, <2>2, OnlyInserts
  <1> QED BY <1>1, <1>2, TypeInvariant, PTL DEF Spec

-----------------------------------------------------------------------------
(* Today.                                                                  *)

(* What the calendars of the games must keep to.  The instant of a wall-   *)
(* clock time lies on that time's date, also when the zone skips the time, *)
(* and the date never goes back.                                           *)
CalendarsKept ==
    \A z \in DOMAIN ZoneRule :
        /\ \A wall \in Int : Date(In(z, GoDate(z, wall))) = Date(wall)
        /\ \A t, u \in Int : t <= u => Date(In(z, t)) <= Date(In(z, u))

(* Days holds every date that the clock comes to.                          *)
DaysSuffice ==
    \A z \in DOMAIN ZoneRule, t \in Nat :
        t = Start \/ t \in Start..MaxClock => Date(In(z, t)) \in Days

Known(g)    == games[g].zone \in DOMAIN ZoneRule
DayAt(g, t) == Date(In(games[g].zone, t))

(* A day for which nothing is left to be done.                             *)
Settled(g, d) == LeaveDay(g, d) \/ rounds[g][d] # NoRound

(* What a run that began at t owes the game, of the days not over yet.     *)
SettledFrom(g, t) ==
    \A d \in Days : Today(g) <= d /\ d < DayAt(g, t) + DaysAhead => Settled(g, d)

(* A run goes by a time between its beginning and now.                     *)
Timely(i) ==
    /\ pc[i] \in {"next", "date", "insert"} => began[i] \in Nat /\ began[i] <= clock
    /\ pc[i] \in {"date", "insert"} =>
          \E t \in Nat : /\ began[i] <= t /\ t <= clock
                         /\ nowLocal[i] = In(defs[i][game[i]].zone, t)

(* The games that a run did not read are closed.                           *)
Unread(i) == \A g \in seen[i] \ DOMAIN defs[i] : ~games[g].active

(* The game that a run is at.                                              *)
At(i, g) == pc[i] \in {"date", "insert"} /\ game[i] = g

(* A run has settled all days of the games it has been through, and of the *)
(* one it is at those before the day it is at.                             *)
Walked(i) ==
    /\ \A g \in (seen[i] \cap DOMAIN defs[i]) \ todo[i] :
          /\ pc[i] \in {"next", "date", "insert"} /\ Known(g) /\ ~At(i, g)
          => SettledFrom(g, began[i])
    /\ pc[i] \in {"date", "insert"} /\ game[i] \in seen[i] =>
          \A d \in Days :
              /\ Date(nowLocal[i]) <= d /\ d < Date(nowLocal[i]) + offset[i]
              => Settled(game[i], d)

Walk(i) == Timely(i) /\ Unread(i) /\ Walked(i)

CoverageKept ==
    \A g \in Games :
        covered[g] # Never =>
            /\ covered[g] <= clock
            /\ games[g].active /\ Known(g) => SettledFrom(g, covered[g])

(* The clock stays within the bounds of the behaviour.                     *)
ClockBound == clock = Start \/ clock \in Start..MaxClock

CoverInv ==
    /\ TypeInv /\ RunInv /\ ClockBound
    /\ \A i \in Instances : Walk(i)
    /\ CoverageKept

LEMMA DaysAdd ==
    ASSUME NEW wall \in Int, NEW k \in Int
    PROVE  Date(wall + k * DayLength) = Date(wall) + k
  <1>1. ASSUME NEW L \in Nat \ {0}
        PROVE  (wall + k * L) \div L = wall \div L + k
    BY <1>1
  <1> QED BY <1>1, RoundGenerationAssumption DEF Date

(* The run goes through the dates from today on, one by one.               *)
LEMMA DayOfIs ==
    ASSUME CalendarsKept, TypeInv, NEW i \in Instances,
           pc[i] \in {"date", "insert"}
    PROVE  DayOf(i) = Date(nowLocal[i]) + offset[i]
  <1>1. /\ defs[i][game[i]].zone \in DOMAIN ZoneRule
        /\ nowLocal[i] \in Int /\ offset[i] \in Int
    BY RunTypes, RoundGenerationAssumption DEF TypeInv, TypeOK
  <1> DEFINE z     == defs[i][game[i]].zone
             wall  == nowLocal[i] + offset[i] * DayLength
             local == In(z, GoDate(z, wall))
  <1>2. wall \in Int
    BY <1>1, DayStart
  <1>3. Date(local) = Date(wall)
    BY <1>1, <1>2 DEF CalendarsKept
  <1>4. Date(wall) \in Int /\ Date(wall) * DayLength \in Int
    BY <1>2, DateType, DayStart
  <1>5. Date(In(z, GoDate(z, Date(wall) * DayLength)))
           = Date(Date(wall) * DayLength)
    BY <1>1, <1>4 DEF CalendarsKept
  <1>6. Date(0 + Date(wall) * DayLength) = Date(0) + Date(wall)
    BY <1>4, DaysAdd
  <1>7. Date(0) = 0
    <2>1. \A L \in Nat \ {0} : 0 \div L = 0
      OBVIOUS
    <2> QED BY <2>1, RoundGenerationAssumption DEF Date
  <1>8. Date(Date(wall) * DayLength) = Date(wall)
    BY <1>4, <1>6, <1>7
  <1>9. Date(wall) = Date(nowLocal[i]) + offset[i]
    BY <1>1, DaysAdd
  <1> QED BY <1>3, <1>5, <1>8, <1>9 DEF DayOf

(* What a step leaves of a game that it does not edit.                     *)
Unedited(g) ==
    /\ games'[g] = games[g]
    /\ \A d \in Days : LeaveDay(g, d)' <=> LeaveDay(g, d)

(* What every step does: time and rounds only grow.                        *)
Grows ==
    /\ clock <= clock'
    /\ \A g \in Games, d \in Days :
          rounds[g][d] # NoRound => rounds'[g][d] = rounds[g][d]

LEMMA SettledFromKept ==
    ASSUME CalendarsKept, TypeInv, TypeInv', Grows, NEW g \in Games, Known(g),
           Unedited(g), NEW t \in Nat, SettledFrom(g, t)
    PROVE  SettledFrom(g, t)'
  <1> SUFFICES ASSUME NEW d \in Days, Today(g)' <= d,
                      d < DayAt(g, t)' + DaysAhead
               PROVE  Settled(g, d)'
    BY DEF SettledFrom
  <1> DEFINE z == games[g].zone
  <1>1. clock \in Int /\ clock' \in Int /\ t \in Int /\ clock <= clock'
    BY DEF TypeInv, TypeOK, Grows
  <1>2. In(z, clock) \in Int /\ In(z, clock') \in Int
    BY <1>1, InType DEF Known
  <1>3. /\ Date(In(z, clock)) \in Int /\ Date(In(z, clock')) \in Int
        /\ d \in Int
    BY <1>2, DateType, RoundGenerationAssumption
  <1>4. Date(In(z, clock)) <= Date(In(z, clock'))
    BY <1>1 DEF CalendarsKept, Known
  <1>5. Today(g)' = Date(In(z, clock')) /\ DayAt(g, t)' = DayAt(g, t)
    BY DEF Today, DayAt, Unedited, In, OffsetAt
  <1>6. Today(g) <= d
    BY <1>3, <1>4, <1>5 DEF Today
  <1>7. Settled(g, d)
    BY <1>5, <1>6 DEF SettledFrom
  <1> QED BY <1>7 DEF Settled, Unedited, Grows

(* What a step leaves of a run that it is no step of.                      *)
Untouched(i) ==
    /\ pc'[i] = pc[i] /\ defs'[i] = defs[i] /\ todo'[i] = todo[i]
    /\ game'[i] = game[i] /\ nowLocal'[i] = nowLocal[i]
    /\ offset'[i] = offset[i] /\ began'[i] = began[i]
    /\ seen'[i] \subseteq seen[i]
    /\ \A g \in seen'[i] : Unedited(g)

LEMMA TimelyKept ==
    ASSUME TypeInv, TypeInv', Grows, NEW i \in Instances, Timely(i),
           defs'[i] = defs[i], game'[i] = game[i], nowLocal'[i] = nowLocal[i],
           began'[i] = began[i],
           pc'[i] \in {"next", "date", "insert"} => pc[i] \in {"next", "date", "insert"},
           pc'[i] \in {"date", "insert"} => pc[i] \in {"date", "insert"}
    PROVE  Timely(i)'
  <1>1. clock \in Nat /\ clock' \in Nat /\ clock <= clock'
    BY DEF TypeInv, TypeOK, Grows
  <1>2. ASSUME pc'[i] \in {"next", "date", "insert"}
        PROVE  began'[i] \in Nat /\ began'[i] <= clock'
    BY <1>1, <1>2 DEF Timely
  <1>3. ASSUME pc'[i] \in {"date", "insert"}
        PROVE  \E t \in Nat : /\ began'[i] <= t /\ t <= clock'
                              /\ nowLocal'[i] = In(defs'[i][game'[i]].zone, t)
    <2>1. PICK t \in Nat : /\ began[i] <= t /\ t <= clock
                           /\ nowLocal[i] = In(defs[i][game[i]].zone, t)
      BY <1>3 DEF Timely
    <2>2. t <= clock'
      BY <1>1, <2>1
    <2> QED BY <2>1, <2>2
  <1> QED BY <1>2, <1>3 DEF Timely, In, OffsetAt

LEMMA UntouchedWalk ==
    ASSUME CalendarsKept, TypeInv, TypeInv', Grows, NEW i \in Instances,
           Walk(i), Untouched(i)
    PROVE  Walk(i)'
  <1>0. seen'[i] \subseteq Games /\ seen'[i] \subseteq seen[i]
    BY DEF TypeInv, TypeOK, Untouched
  <1>1. Timely(i)'
    BY TimelyKept DEF Walk, Untouched
  <1>2. Unread(i)'
    BY DEF Walk, Untouched, Unread, Unedited
  <1>3. ASSUME NEW g \in Games, g \in seen'[i], g \in DOMAIN defs'[i],
               g \notin todo'[i], pc'[i] \in {"next", "date", "insert"},
               Known(g)', ~At(i, g)'
        PROVE  SettledFrom(g, began[i])'
    <2>1. Known(g) /\ ~At(i, g) /\ Unedited(g)
      BY <1>0, <1>3 DEF Untouched, Unedited, Known, At
    <2>2. PICK t \in Nat : t = began[i]
      BY <1>0, <1>3 DEF Untouched, Walk, Timely
    <2>3. SettledFrom(g, t)
      BY <1>0, <1>3, <2>1, <2>2 DEF Untouched, Walk, Walked
    <2>4. SettledFrom(g, t)'
      BY <2>1, <2>3, SettledFromKept
    <2>5. began'[i] = t
      BY <2>2 DEF Untouched
    <2> QED BY <2>4, <2>5 DEF SettledFrom, DayAt, In, OffsetAt
  <1>4. ASSUME pc'[i] \in {"date", "insert"}, game'[i] \in seen'[i],
               NEW d \in Days, Date(nowLocal'[i]) <= d,
               d < Date(nowLocal'[i]) + offset'[i]
        PROVE  Settled(game[i], d)'
    <2>1. PICK g \in Games : g = game[i] /\ game'[i] = g
      BY <1>0, <1>4 DEF Untouched
    <2>2. Settled(g, d) /\ Unedited(g)
      BY <1>0, <1>4, <2>1 DEF Untouched, Walk, Walked
    <2>3. Settled(g, d)'
      BY <2>2 DEF Settled, Unedited, Grows
    <2> QED BY <2>1, <2>3 DEF Settled, LeaveDay
  <1>5. Walked(i)'
    BY <1>0, <1>3, <1>4 DEF Walked, Date
  <1> QED BY <1>1, <1>2, <1>5 DEF Walk

LEMMA CoverageUntouched ==
    ASSUME CalendarsKept, TypeInv, TypeInv', Grows, CoverageKept,
           NEW g \in Games, Unedited(g), covered'[g] = covered[g],
           covered[g] # Never
    PROVE  /\ covered'[g] <= clock'
           /\ games'[g].active /\ Known(g)' => SettledFrom(g, covered[g])'
  <1>1. /\ covered[g] \in Nat /\ clock \in Nat /\ clock' \in Nat
        /\ clock <= clock'
    BY DEF TypeInv, TypeOK, Grows, Never
  <1>2. covered[g] <= clock
    BY DEF CoverageKept
  <1>3. ASSUME games'[g].active, Known(g)' PROVE SettledFrom(g, covered[g])'
    <2>1. games[g].active /\ Known(g)
      BY <1>3 DEF Unedited, Known
    <2>2. PICK t \in Nat : t = covered[g]
      BY <1>1
    <2>3. SettledFrom(g, t)'
      BY <2>1, <2>2, SettledFromKept DEF CoverageKept
    <2> QED BY <2>2, <2>3 DEF SettledFrom, DayAt, In, OffsetAt
  <1> QED BY <1>1, <1>2, <1>3

LEMMA NextGrows ==
    ASSUME TypeInv, ClockBound, [Next]_vars
    PROVE  Grows /\ ClockBound'
  <1>1. \A g \in Games, d \in Days :
           rounds[g][d] # NoRound => rounds'[g][d] = rounds[g][d]
    BY OnlyInserts DEF Added
  <1>2. clock \in Nat /\ Start \in Nat /\ MaxClock \in Nat
    BY RoundGenerationAssumption DEF TypeInv, TypeOK
  <1>3. CASE Tick
    <2>1. clock < MaxClock /\ clock' = clock + 1
      BY <1>3 DEF Tick
    <2> QED BY <1>1, <1>2, <2>1 DEF Grows, ClockBound
  <1>4. CASE ~Tick
    <2>1. ASSUME NEW i \in Instances,
                 \/ ReadGames(i) \/ NextGame(i) \/ EndRun(i) \/ CheckDate(i)
                 \/ InsertRound(i) \/ FailRun(i) \/ Crash(i)
          PROVE  clock' = clock
      BY <2>1 DEF ReadGames, NextGame, EndRun, CheckDate, InsertRound, FailRun,
         Crash
    <2>2. clock' = clock
      BY <1>4, <2>1 DEF Next, Step, EditGame, EditHoliday, vars
    <2> QED BY <1>1, <1>2, <2>2 DEF Grows, ClockBound
  <1> QED BY <1>3, <1>4

(* An edit: the games it leaves alone are as they were, the other is no    *)
(* longer anyone's concern.                                                *)
LEMMA EditWalk ==
    ASSUME CalendarsKept, CoverInv, TypeInv', Grows, NEW h \in Games,
           Edited(h), UNCHANGED run, \A g \in Games \ {h} : Unedited(g)
    PROVE  CoverageKept' /\ \A i \in Instances : Walk(i)'
  <1>1. ASSUME NEW i \in Instances PROVE Walk(i)'
    <2>1. seen'[i] = seen[i] \ {h} /\ seen[i] \subseteq Games /\ began' = began
      BY DEF Edited, CoverInv, TypeInv, TypeOK
    <2>2. Untouched(i)
      BY <2>1 DEF Untouched, run
    <2> QED BY <2>2, UntouchedWalk DEF CoverInv
  <1>2. ASSUME NEW g \in Games, covered'[g] # Never
        PROVE  /\ covered'[g] <= clock'
               /\ games'[g].active /\ Known(g)' => SettledFrom(g, covered[g])'
    <2>1. g # h /\ covered'[g] = covered[g]
      BY <1>2 DEF Edited, CoverInv, TypeInv, TypeOK
    <2> QED BY <1>2, <2>1, CoverageUntouched DEF CoverInv
  <1> QED BY <1>1, <1>2 DEF CoverageKept

LEMMA StepUnedited ==
    ASSUME UNCHANGED <<games, holidays>>, NEW g
    PROVE  Unedited(g)
  BY DEF Unedited, LeaveDay

(* What a step of a run leaves of the others.                              *)
LEMMA OtherRuns ==
    ASSUME TypeInv, NEW i \in Instances, NEW j \in Instances, i # j,
           \/ ReadGames(i) \/ NextGame(i) \/ EndRun(i) \/ CheckDate(i)
           \/ InsertRound(i) \/ FailRun(i) \/ Crash(i)
    PROVE  Untouched(j)
  <1>1. UNCHANGED <<games, holidays>>
    BY DEF ReadGames, NextGame, EndRun, CheckDate, InsertRound, FailRun, Crash,
       db
  <1>2. \A g : Unedited(g)
    BY <1>1, StepUnedited
  <1>3. /\ pc'[j] = pc[j] /\ defs'[j] = defs[j] /\ todo'[j] = todo[j]
        /\ game'[j] = game[j] /\ nowLocal'[j] = nowLocal[j]
        /\ offset'[j] = offset[j] /\ began'[j] = began[j]
        /\ seen'[j] = seen[j]
    BY DEF ReadGames, NextGame, EndRun, CheckDate, InsertRound, FailRun, Crash,
       Goto, db, run, history, TypeInv, TypeOK
  <1> QED BY <1>2, <1>3 DEF Untouched

LEMMA ReadGamesWalk ==
    ASSUME TypeInv, NEW i \in Instances, ReadGames(i)
    PROVE  Walk(i)'
  <1>1. /\ pc'[i] = "next" /\ began'[i] = clock /\ clock' = clock
        /\ clock \in Nat
        /\ UNCHANGED games
    BY DEF ReadGames, Goto, db, TypeInv, TypeOK
  <1>2. /\ DOMAIN defs'[i] = {g \in Games : games[g].active}
        /\ todo'[i] = {g \in Games : games[g].active}
    <2>1. defs' = [defs EXCEPT ![i] =
                     [g \in {h \in Games : games[h].active} |-> games[g]]]
      BY DEF ReadGames
    <2>2. todo' = [todo EXCEPT ![i] = {h \in Games : games[h].active}]
      BY DEF ReadGames
    <2> QED BY <2>1, <2>2 DEF TypeInv, TypeOK
  <1>3. seen'[i] = Games
    BY DEF ReadGames, TypeInv, TypeOK
  <1>4. Timely(i)'
    BY <1>1 DEF Timely
  <1>5. Unread(i)'
    BY <1>1, <1>2, <1>3 DEF Unread
  <1>6. Walked(i)'
    BY <1>1, <1>2, <1>3 DEF Walked
  <1> QED BY <1>4, <1>5, <1>6 DEF Walk

(* A run that has ended owes nothing more.                                 *)
LEMMA StoppedWalk ==
    ASSUME NEW i \in Instances, Walk(i), UNCHANGED <<games, seen, defs>>,
           pc'[i] \in {"idle", "down"}
    PROVE  Walk(i)'
  <1>1. Timely(i)' /\ Unread(i)' /\ Walked(i)'
    BY DEF Walk, Timely, Unread, Walked
  <1> QED BY <1>1 DEF Walk

LEMMA NextGameWalk ==
    ASSUME CalendarsKept, CoverInv, TypeInv', Grows, NEW i \in Instances,
           NextGame(i)
    PROVE  Walk(i)'
  <1>1. PICK g \in todo[i] :
           /\ todo' = [todo EXCEPT ![i] = @ \ {g}]
           /\ IF defs[i][g].zone \in DOMAIN ZoneRule
              THEN /\ game' = [game EXCEPT ![i] = g]
                   /\ nowLocal' = [nowLocal EXCEPT ![i] = In(defs[i][g].zone, clock)]
                   /\ offset' = [offset EXCEPT ![i] = 0]
                   /\ Goto(i, "date")
              ELSE UNCHANGED <<pc, game, nowLocal, offset>>
    BY DEF NextGame
  <1>2. /\ pc[i] = "next"
        /\ UNCHANGED <<clock, games, holidays, rounds, defs, began, seen>>
    BY DEF NextGame, db, history
  <1>3. todo'[i] = todo[i] \ {g} /\ seen[i] \subseteq Games /\ clock \in Nat
    BY <1>1 DEF CoverInv, TypeInv, TypeOK
  <1>4. Unread(i)'
    BY <1>2 DEF CoverInv, Walk, Unread
  <1>5. began[i] \in Nat /\ began[i] <= clock
    BY <1>2 DEF CoverInv, Walk, Timely
  <1>6. ASSUME NEW h \in Games, h \in seen[i], h \in DOMAIN defs[i],
               h \notin todo'[i], Known(h)', ~At(i, h)'
        PROVE  SettledFrom(h, began[i])'
    <2>1. Known(h) /\ ~At(i, h)
      BY <1>2, <1>6 DEF Known, At
    <2>2. h \notin todo[i]
      <3>1. CASE h = g
        <4>1. defs[i][h] = games[h]
          BY <1>6 DEF CoverInv, RunInv, Fresh
        <4>2. game' = [game EXCEPT ![i] = g] /\ pc' = [pc EXCEPT ![i] = "date"]
          BY <1>1, <2>1, <3>1, <4>1 DEF Known, Goto
        <4>3. At(i, h)'
          BY <3>1, <4>2 DEF At, CoverInv, TypeInv, TypeOK
        <4> QED BY <1>6, <4>3
      <3> QED BY <1>3, <1>6, <3>1
    <2>3. SettledFrom(h, began[i])
      BY <1>2, <1>6, <2>1, <2>2 DEF CoverInv, Walk, Walked
    <2> QED BY <1>2, <2>3 DEF SettledFrom, Settled, LeaveDay, Today, DayAt, In,
            OffsetAt
  <1>7. CASE defs[i][g].zone \in DOMAIN ZoneRule
    <2>1. /\ pc'[i] = "date" /\ game'[i] = g /\ offset'[i] = 0
          /\ nowLocal'[i] = In(defs[i][g].zone, clock)
      BY <1>1, <1>7 DEF Goto, CoverInv, TypeInv, TypeOK
    <2>2. Timely(i)'
      <3>1. began'[i] <= clock' /\ clock' <= clock' /\ began'[i] \in Nat /\ clock' \in Nat
        BY <1>2, <1>3, <1>5
      <3>2. nowLocal'[i] = In(defs'[i][game'[i]].zone, clock')
        BY <1>2, <2>1
      <3>3. \E t \in Nat : /\ began'[i] <= t /\ t <= clock'
                           /\ nowLocal'[i] = In(defs'[i][game'[i]].zone, t)
        BY <3>1, <3>2
      <3> QED BY <3>1, <3>3 DEF Timely, In, OffsetAt
    <2>3. Date(nowLocal'[i]) \in Int
      BY DateType DEF TypeInv, TypeOK
    <2>4. \A d \in Days :
             ~(Date(nowLocal'[i]) <= d /\ d < Date(nowLocal'[i]) + offset'[i])
      <3>1. \A D \in Int, d \in Days : ~(D <= d /\ d < D + 0)
        BY RoundGenerationAssumption
      <3> QED BY <2>1, <2>3, <3>1
    <2>5. Walked(i)'
      BY <1>2, <1>3, <1>6, <2>4 DEF Walked, Date
    <2> QED BY <1>4, <2>2, <2>5 DEF Walk
  <1>8. CASE defs[i][g].zone \notin DOMAIN ZoneRule
    <2>1. pc'[i] = "next" /\ UNCHANGED <<game, nowLocal, offset, pc>>
      BY <1>1, <1>2, <1>8
    <2>2. Timely(i)'
      BY <1>2, <1>5, <2>1 DEF Timely
    <2>3. Walked(i)'
      BY <1>2, <1>3, <1>6, <2>1 DEF Walked
    <2> QED BY <1>4, <2>2, <2>3 DEF Walk
  <1> QED BY <1>7, <1>8

(* When the days ahead are through, the game is settled.                   *)
LEMMA GameFinished ==
    ASSUME CalendarsKept, CoverInv, NEW i \in Instances, pc[i] = "date",
           offset[i] = DaysAhead, NEW g \in Games, g \in seen[i], game[i] = g
    PROVE  SettledFrom(g, began[i])
  <1>1. g \in DOMAIN defs[i] /\ defs[i][g].zone \in DOMAIN ZoneRule
    BY RunTypes DEF CoverInv
  <1>2. defs[i][g] = games[g]
    BY <1>1 DEF CoverInv, RunInv, Fresh
  <1> DEFINE z == games[g].zone
  <1>3. z \in DOMAIN ZoneRule
    BY <1>1, <1>2
  <1>4. PICK t \in Nat : began[i] <= t /\ t <= clock /\ nowLocal[i] = In(z, t)
    BY <1>2 DEF CoverInv, Walk, Timely
  <1>5. began[i] \in Int /\ clock \in Int /\ t \in Int
    BY DEF CoverInv, Walk, Timely, TypeInv, TypeOK
  <1>6. /\ Date(In(z, began[i])) \in Int /\ Date(In(z, t)) \in Int
        /\ Date(In(z, clock)) \in Int
    BY <1>3, <1>5, InType, DateType
  <1>7. /\ Date(In(z, began[i])) <= Date(In(z, t))
        /\ Date(In(z, t)) <= Date(In(z, clock))
    BY <1>3, <1>4, <1>5 DEF CalendarsKept
  <1>8. DaysAhead \in Int /\ Days \subseteq Int
    BY RoundGenerationAssumption
  <1>9. \A d \in Days :
           Date(In(z, t)) <= d /\ d < Date(In(z, t)) + DaysAhead => Settled(g, d)
    BY <1>4 DEF CoverInv, Walk, Walked
  <1>10. \A d \in Days :
           /\ Date(In(z, clock)) <= d /\ d < Date(In(z, began[i])) + DaysAhead
           => Date(In(z, t)) <= d /\ d < Date(In(z, t)) + DaysAhead
    BY <1>6, <1>7, <1>8
  <1> QED BY <1>9, <1>10 DEF SettledFrom, Today, DayAt

LEMMA CheckDateWalk ==
    ASSUME CalendarsKept, CoverInv, TypeInv', Grows, NEW i \in Instances,
           CheckDate(i)
    PROVE  Walk(i)'
  <1>1. /\ pc[i] = "date"
        /\ UNCHANGED <<clock, games, holidays, rounds, defs, todo, game,
                       nowLocal, began, seen>>
    BY DEF CheckDate, db, history
  <1>2. /\ pc'[i] \in {"next", "date", "insert"}
        /\ Timely(i) /\ Unread(i) /\ Walked(i)
    BY <1>1 DEF CheckDate, Goto, CoverInv, TypeInv, TypeOK, Walk
  <1>3. Timely(i)'
    BY <1>1, <1>2, TimelyKept DEF CoverInv
  <1>4. Unread(i)'
    BY <1>1, <1>2 DEF Unread
  <1>5. /\ game[i] \in Games /\ offset[i] \in 0..DaysAhead
        /\ defs[i][game[i]] \in Definition /\ game[i] \in DOMAIN defs[i]
    BY <1>1, RunTypes DEF CoverInv, TypeInv, TypeOK
  <1>6. ASSUME NEW h \in Games, h \in seen[i], h \in DOMAIN defs[i],
               h \notin todo[i], Known(h), h # game[i] \/ offset[i] = DaysAhead
        PROVE  SettledFrom(h, began[i])'
    <2>1. CASE h # game[i]
      <3>1. SettledFrom(h, began[i])
        BY <1>1, <1>2, <1>6, <2>1 DEF Walked, At
      <3> QED BY <1>1, <3>1 DEF SettledFrom, Settled, LeaveDay, Today, DayAt,
              In, OffsetAt
    <2>2. CASE h = game[i] /\ offset[i] = DaysAhead
      <3>1. SettledFrom(h, began[i])
        BY <1>1, <1>6, <2>2, GameFinished
      <3> QED BY <1>1, <3>1 DEF SettledFrom, Settled, LeaveDay, Today, DayAt,
              In, OffsetAt
    <2> QED BY <1>6, <2>1, <2>2
  <1>7. ASSUME game[i] \in seen[i], NEW d \in Days, offset'[i] \in Int,
               offset'[i] = offset[i] \/ (offset'[i] = offset[i] + 1 /\
                                          Settled(game[i], DayOf(i))),
               Date(nowLocal[i]) <= d, d < Date(nowLocal[i]) + offset'[i]
        PROVE  Settled(game[i], d)'
    <2>1. \A e \in Days :
             Date(nowLocal[i]) <= e /\ e < Date(nowLocal[i]) + offset[i]
               => Settled(game[i], e)
      BY <1>1, <1>2, <1>7 DEF Walked
    <2>2. DayOf(i) = Date(nowLocal[i]) + offset[i]
      BY <1>1, DayOfIs DEF CoverInv
    <2>3. Date(nowLocal[i]) \in Int /\ d \in Int /\ offset[i] \in Int
      BY <1>5, DateType, RoundGenerationAssumption DEF CoverInv, TypeInv, TypeOK
    <2>4. d < Date(nowLocal[i]) + offset[i]
            \/ (d = DayOf(i) /\ Settled(game[i], DayOf(i)))
      BY <1>7, <2>2, <2>3
    <2>5. Settled(game[i], d)
      BY <1>7, <2>1, <2>4
    <2> QED BY <1>1, <2>5 DEF Settled, LeaveDay
  <1>8. CASE offset[i] = DaysAhead
    <2>1. pc'[i] = "next"
      BY <1>8 DEF CheckDate, Goto, CoverInv, TypeInv, TypeOK
    <2>2. Walked(i)'
      BY <1>1, <1>6, <1>8, <2>1 DEF Walked, Known, CoverInv, TypeInv, TypeOK
    <2> QED BY <1>3, <1>4, <2>2 DEF Walk
  <1>9. CASE offset[i] # DaysAhead
    <2>1. pc'[i] \in {"date", "insert"}
      BY <1>1, <1>9 DEF CheckDate, Goto, CoverInv, TypeInv, TypeOK
    <2>2. /\ offset'[i] \in Int
          /\ \/ offset'[i] = offset[i]
             \/ /\ offset'[i] = offset[i] + 1
                /\ \/ Weekday(DayOf(i)) \in defs[i][game[i]].offDays
                   \/ <<game[i], DayOf(i)>> \in holidays
      BY <1>5, <1>9 DEF CheckDate, Goto, CoverInv, TypeInv, TypeOK
    <2>3. ASSUME game[i] \in seen[i]
          PROVE  offset'[i] = offset[i] \/ (offset'[i] = offset[i] + 1 /\
                                            Settled(game[i], DayOf(i)))
      <3>1. defs[i][game[i]] = games[game[i]]
        BY <1>5, <2>3 DEF CoverInv, RunInv, Fresh
      <3> QED BY <2>2, <3>1 DEF Settled, LeaveDay
    <2>4. Walked(i)'
      <3>1. \A h \in (seen'[i] \cap DOMAIN defs'[i]) \ todo'[i] :
               Known(h)' /\ ~At(i, h)' => SettledFrom(h, began[i])'
        BY <1>1, <1>6, <2>1 DEF At, Known, CoverInv, TypeInv, TypeOK
      <3>2. game'[i] \in seen'[i] => \A d \in Days :
               Date(nowLocal'[i]) <= d /\ d < Date(nowLocal'[i]) + offset'[i]
                 => Settled(game[i], d)'
        BY <1>1, <1>7, <2>2, <2>3
      <3> QED BY <3>1, <3>2 DEF Walked, Date
    <2> QED BY <1>3, <1>4, <2>4 DEF Walk
  <1> QED BY <1>8, <1>9

LEMMA RoundIsOne == \A d, def : RoundOn(d, def) # NoRound
  <1>1. \A d, def : "by" \in DOMAIN RoundOn(d, def)
    BY DEF RoundOn
  <1>2. "by" \notin DOMAIN NoRound
    BY DEF NoRound
  <1> QED BY <1>1, <1>2

LEMMA InsertRoundWalk ==
    ASSUME CalendarsKept, CoverInv, TypeInv', Grows, NEW i \in Instances,
           InsertRound(i)
    PROVE  Walk(i)'
  <1>1. /\ pc[i] = "insert" /\ pc'[i] = "date" /\ offset'[i] = offset[i] + 1
        /\ UNCHANGED <<clock, games, holidays, defs, todo, game, nowLocal,
                       began, seen>>
    BY DEF InsertRound, Goto, history, CoverInv, TypeInv, TypeOK
  <1>2. Timely(i) /\ Unread(i) /\ Walked(i)
    BY DEF CoverInv, Walk
  <1>3. Timely(i)'
    BY <1>1, <1>2, TimelyKept DEF CoverInv
  <1>4. Unread(i)'
    BY <1>1, <1>2 DEF Unread
  <1>5. /\ game[i] \in Games /\ offset[i] \in Int /\ nowLocal[i] \in Int
        /\ DayOf(i) = Date(nowLocal[i]) + offset[i]
    BY <1>1, DayOfIs, RunTypes, RoundGenerationAssumption
       DEF CoverInv, TypeInv, TypeOK
  <1>6. ASSUME NEW h \in Games, h \in seen[i], h \in DOMAIN defs[i],
               h \notin todo[i], Known(h), h # game[i]
        PROVE  SettledFrom(h, began[i])'
    <2>1. SettledFrom(h, began[i])
      BY <1>1, <1>2, <1>6 DEF Walked, At
    <2>2. \A d \in Days : Settled(h, d) => Settled(h, d)'
      BY <1>1 DEF Settled, LeaveDay, Grows
    <2> QED BY <1>1, <2>1, <2>2 DEF SettledFrom, Today, DayAt, In, OffsetAt
  <1>7. ASSUME game[i] \in seen[i], NEW d \in Days, Date(nowLocal[i]) <= d,
               d < Date(nowLocal[i]) + offset'[i]
        PROVE  Settled(game[i], d)'
    <2>1. Date(nowLocal[i]) \in Int /\ d \in Int
      BY <1>5, DateType, RoundGenerationAssumption
    <2>2. d < Date(nowLocal[i]) + offset[i] \/ d = DayOf(i)
      BY <1>1, <1>5, <1>7, <2>1
    <2>3. CASE d < Date(nowLocal[i]) + offset[i]
      <3>1. Settled(game[i], d)
        BY <1>1, <1>2, <1>7, <2>3 DEF Walked
      <3>2. rounds[game[i]][d] # NoRound => rounds'[game[i]][d] # NoRound
        BY <1>5 DEF Grows
      <3> QED BY <1>1, <3>1, <3>2 DEF Settled, LeaveDay
    <2>4. CASE d = DayOf(i)
      <3>1. Added(i)
        BY InsertAdds DEF CoverInv
      <3>2. rounds'[game[i]][d] # NoRound
        BY <1>5, <2>4, <3>1, RoundIsOne DEF Added
      <3> QED BY <1>1, <3>2 DEF Settled
    <2> QED BY <2>2, <2>3, <2>4
  <1>8. Walked(i)'
    <2>1. \A h \in (seen'[i] \cap DOMAIN defs'[i]) \ todo'[i] :
             Known(h)' /\ ~At(i, h)' => SettledFrom(h, began[i])'
      BY <1>1, <1>6 DEF At, Known, CoverInv, TypeInv, TypeOK
    <2>2. game'[i] \in seen'[i] => \A d \in Days :
             Date(nowLocal'[i]) <= d /\ d < Date(nowLocal'[i]) + offset'[i]
               => Settled(game[i], d)'
      BY <1>1, <1>7
    <2> QED BY <2>1, <2>2 DEF Walked, Date
  <1> QED BY <1>3, <1>4, <1>8 DEF Walk

LEMMA EndRunCovers ==
    ASSUME CoverInv, TypeInv', NEW i \in Instances, EndRun(i)
    PROVE  CoverageKept' /\ Walk(i)'
  <1>1. /\ pc[i] = "next" /\ todo[i] = {} /\ pc'[i] = "idle"
        /\ UNCHANGED <<clock, games, holidays, rounds, defs, seen>>
        /\ covered' = [g \in Games |-> IF g \in seen[i] THEN began[i]
                                                        ELSE covered[g]]
    BY DEF EndRun, Goto, db, CoverInv, TypeInv, TypeOK
  <1>2. Walk(i)'
    BY <1>1, StoppedWalk DEF CoverInv
  <1>3. began[i] \in Nat /\ began[i] <= clock
    BY <1>1 DEF CoverInv, Walk, Timely
  <1>4. ASSUME NEW g \in Games, covered'[g] # Never
        PROVE  /\ covered'[g] <= clock'
               /\ games'[g].active /\ Known(g)' => SettledFrom(g, covered[g])'
    <2>1. CASE g \in seen[i]
      <3>1. covered'[g] = began[i]
        BY <1>1, <2>1
      <3>2. games[g].active /\ Known(g) => SettledFrom(g, began[i])
        BY <1>1, <2>1 DEF CoverInv, Walk, Unread, Walked, At
      <3> QED BY <1>1, <1>3, <3>1, <3>2 DEF SettledFrom, Settled, LeaveDay,
              Today, DayAt, In, OffsetAt, Known
    <2>2. CASE g \notin seen[i]
      <3>1. covered'[g] = covered[g]
        BY <1>1, <2>2
      <3>2. /\ covered[g] <= clock
            /\ games[g].active /\ Known(g) => SettledFrom(g, covered[g])
        BY <1>4, <3>1 DEF CoverInv, CoverageKept
      <3> QED BY <1>1, <3>1, <3>2 DEF SettledFrom, Settled, LeaveDay,
              Today, DayAt, In, OffsetAt, Known
    <2> QED BY <2>1, <2>2
  <1> QED BY <1>2, <1>4 DEF CoverageKept

LEMMA StepCovers ==
    ASSUME CalendarsKept, CoverInv, TypeInv', Grows, NEW i \in Instances,
           \/ ReadGames(i) \/ NextGame(i) \/ EndRun(i) \/ CheckDate(i)
           \/ InsertRound(i) \/ FailRun(i) \/ Crash(i)
    PROVE  CoverageKept' /\ \A j \in Instances : Walk(j)'
  <1>1. ASSUME NEW j \in Instances, j # i PROVE Walk(j)'
    BY <1>1, OtherRuns, UntouchedWalk DEF CoverInv
  <1>2. CASE EndRun(i)
    BY <1>1, <1>2, EndRunCovers
  <1>3. CASE ~EndRun(i)
    <2>1. CoverageKept'
      <3>1. UNCHANGED <<games, holidays, covered>>
        BY <1>3 DEF ReadGames, NextGame, CheckDate, InsertRound, FailRun, Crash,
           db, history
      <3>2. \A g \in Games : Unedited(g)
        BY <3>1, StepUnedited
      <3>3. ASSUME NEW g \in Games, covered'[g] # Never
            PROVE  /\ covered'[g] <= clock'
                   /\ games'[g].active /\ Known(g)'
                        => SettledFrom(g, covered[g])'
        BY <3>1, <3>2, <3>3, CoverageUntouched DEF CoverInv
      <3> QED BY <3>3 DEF CoverageKept
    <2>2. Walk(i)'
      <3>1. CASE FailRun(i) \/ Crash(i)
        <4>1. pc'[i] \in {"idle", "down"} /\ UNCHANGED <<games, seen, defs>>
          BY <3>1 DEF FailRun, Crash, Goto, db, history, CoverInv, TypeInv, TypeOK
        <4> QED BY <4>1, StoppedWalk DEF CoverInv
      <3> QED BY <1>3, <3>1, ReadGamesWalk, NextGameWalk, CheckDateWalk,
              InsertRoundWalk DEF CoverInv
    <2> QED BY <1>1, <2>1, <2>2
  <1> QED BY <1>2, <1>3

LEMMA NextCoverInv ==
    ASSUME CalendarsKept, CoverInv, [Next]_vars
    PROVE  CoverInv'
  <1>1. TypeInv' /\ RunInv' /\ Grows /\ ClockBound'
    BY NextTypeInv, NextRunInv, NextGrows DEF CoverInv
  <1>2. ASSUME NEW h \in Games, EditGame(h)
        PROVE  CoverageKept' /\ \A i \in Instances : Walk(i)'
    <2>1. /\ Edited(h) /\ UNCHANGED run
          /\ \A g \in Games \ {h} : Unedited(g)
      BY <1>2 DEF EditGame, Unedited, LeaveDay, CoverInv, TypeInv, TypeOK
    <2> QED BY <1>1, <2>1, EditWalk
  <1>3. ASSUME NEW h \in Games, NEW e \in Days, EditHoliday(h, e)
        PROVE  CoverageKept' /\ \A i \in Instances : Walk(i)'
    <2>1. \A g \in Games \ {h} : \A d : <<g, d>> \in holidays' <=> <<g, d>> \in holidays
      BY <1>3 DEF EditHoliday
    <2>2. /\ Edited(h) /\ UNCHANGED run
          /\ \A g \in Games \ {h} : Unedited(g)
      BY <1>3, <2>1 DEF EditHoliday, Unedited, LeaveDay
    <2> QED BY <1>1, <2>2, EditWalk
  <1>4. ASSUME Tick \/ UNCHANGED vars
        PROVE  CoverageKept' /\ \A i \in Instances : Walk(i)'
    <2>1. UNCHANGED <<games, holidays, run, history>>
      BY <1>4 DEF Tick, vars, db
    <2>2. \A g \in Games : Unedited(g)
      BY <2>1, StepUnedited
    <2>3. ASSUME NEW i \in Instances PROVE Walk(i)'
      <3>1. Untouched(i)
        BY <2>1, <2>2 DEF Untouched, run, history, CoverInv, TypeInv, TypeOK
      <3> QED BY <1>1, <3>1, UntouchedWalk DEF CoverInv
    <2>4. ASSUME NEW g \in Games, covered'[g] # Never
          PROVE  /\ covered'[g] <= clock'
                 /\ games'[g].active /\ Known(g)' => SettledFrom(g, covered[g])'
      BY <1>1, <2>1, <2>2, <2>4, CoverageUntouched DEF CoverInv, history
    <2> QED BY <2>3, <2>4 DEF CoverageKept
  <1>5. ASSUME NEW i \in Instances, Step(i) \/ FailRun(i) \/ Crash(i)
        PROVE  CoverageKept' /\ \A j \in Instances : Walk(j)'
    BY <1>1, <1>5, StepCovers DEF Step
  <1>6. CoverageKept' /\ \A i \in Instances : Walk(i)'
    BY <1>2, <1>3, <1>4, <1>5 DEF Next
  <1> QED BY <1>1, <1>6 DEF CoverInv

LEMMA InitCoverInv == Init => CoverInv
  <1>1. Init => RunInv
    BY DEF Init, RunInv, Fresh, Vetted
  <1>2. Init => ClockBound /\ CoverageKept
    BY DEF Init, ClockBound, CoverageKept
  <1>3. Init => \A i \in Instances : Walk(i)
    BY DEF Init, Walk, Timely, Unread, Walked
  <1> QED BY <1>1, <1>2, <1>3, InitTypeInv DEF CoverInv

(* Whatever instances race, fail and restart, and whatever is edited: once *)
(* a run has gone through, a Player finds today's round of every game that *)
(* was not edited since, for as many days as the run looked ahead.         *)
THEOREM TodayHasItsRound ==
    ASSUME CalendarsKept, DaysSuffice
    PROVE  Spec => []TodayIsBettable
  <1>1. Init => CoverInv
    BY InitCoverInv
  <1>2. CoverInv /\ [Next]_vars => CoverInv'
    BY NextCoverInv
  <1>3. CoverInv => TodayIsBettable
    <2> SUFFICES ASSUME CoverInv, NEW g \in Games, covered[g] # Never,
                        Offered(g), Today(g) < DayAt(g, covered[g]) + DaysAhead
                 PROVE  rounds[g][Today(g)] # NoRound
      BY DEF TodayIsBettable, DayAt
    <2>1. /\ games[g].active /\ Known(g) /\ ~LeaveDay(g, Today(g))
          /\ clock \in Nat
      BY DEF Offered, Known, CoverInv, TypeInv, TypeOK
    <2>2. Today(g) \in Days
      BY <2>1 DEF DaysSuffice, CoverInv, ClockBound, Today, Known
    <2>3. SettledFrom(g, covered[g])
      BY <2>1 DEF CoverInv, CoverageKept
    <2>4. Today(g) \in Int
      BY <2>2, RoundGenerationAssumption
    <2> QED BY <2>1, <2>2, <2>3, <2>4 DEF SettledFrom, Settled
  <1> QED BY <1>1, <1>2, <1>3, PTL DEF Spec

(* Around a change of its offset, the clocks of a zone read one date under *)
(* either offset: the changes that happen at night, but not at midnight.   *)
ChangesWithinADay(z) ==
    LET r     == ZoneRule[z]
        width == IF r.before < r.after THEN r.after - r.before
                                       ELSE r.before - r.after
    IN  \E d \in Int : \A t \in (r.at - width)..(r.at + width - 1) :
            Date(t + r.before) = d /\ Date(t + r.after) = d

LEMMA DatesGrow ==
    ASSUME NEW v \in Int, NEW w \in Int, v <= w
    PROVE  Date(v) <= Date(w)
  <1>1. \A L \in Nat \ {0} : v \div L <= w \div L
    OBVIOUS
  <1> QED BY <1>1, RoundGenerationAssumption DEF Date

(* The calendars are kept wherever the offsets change within a day.        *)
THEOREM OrdinaryZonesKeepCalendars ==
    ASSUME \A z \in DOMAIN ZoneRule : ChangesWithinADay(z)
    PROVE  CalendarsKept
  <1> SUFFICES ASSUME NEW z \in DOMAIN ZoneRule
               PROVE  /\ \A wall \in Int : Date(In(z, GoDate(z, wall))) = Date(wall)
                      /\ \A t, u \in Int : t <= u => Date(In(z, t)) <= Date(In(z, u))
    BY DEF CalendarsKept
  <1>1. PICK T, b, a \in Int : ZoneRule[z].at = T /\ ZoneRule[z].before = b
                                 /\ ZoneRule[z].after = a
    BY RoundGenerationAssumption
  <1>2. \A t \in Int : OffsetAt(z, t) = IF t < T THEN b ELSE a
    BY <1>1 DEF OffsetAt
  <1>3. PICK w \in Nat : w = IF b < a THEN a - b ELSE b - a
    <2>1. (IF b < a THEN a - b ELSE b - a) \in Nat
      OBVIOUS
    <2> QED BY <2>1
  <1>4. PICK d \in Int : \A t \in (T - w)..(T + w - 1) :
                            Date(t + b) = d /\ Date(t + a) = d
    <2> DEFINE r     == ZoneRule[z]
               width == IF r.before < r.after THEN r.after - r.before
                                              ELSE r.before - r.after
    <2>1. \E d \in Int : \A t \in (r.at - width)..(r.at + width - 1) :
             Date(t + r.before) = d /\ Date(t + r.after) = d
      BY DEF ChangesWithinADay
    <2>2. width = w /\ r.at = T /\ r.before = b /\ r.after = a
      BY <1>1, <1>3
    <2> HIDE DEF width, r
    <2> QED BY <2>1, <2>2
  <1>5. ASSUME NEW wall \in Int
        PROVE  Date(In(z, GoDate(z, wall))) = Date(wall)
    <2>1. CASE Shown(z, wall)
      BY <2>1, GoDateIsRight
    <2>2. CASE ~Shown(z, wall)
      <3>1. T + b <= wall /\ wall < T + a /\ w = a - b
        BY <1>1, <1>3, <2>2 DEF Shown
      <3>2. wall - b \in (T - w)..(T + w - 1) /\ wall - a \in (T - w)..(T + w - 1)
        BY <3>1
      <3>3. Date(wall) = d
        <4>1. (wall - b) + b = wall
          OBVIOUS
        <4>2. Date((wall - b) + b) = d
          BY <1>4, <3>2
        <4> QED BY <4>1, <4>2
      <3>4. CASE wall < T
        <4>1. GoDate(z, wall) = wall - a
          BY <1>2, <3>1, <3>4 DEF GoDate
        <4>2. In(z, wall - a) = (wall - a) + b
          BY <1>2, <3>1 DEF In
        <4>3. Date((wall - a) + b) = d
          BY <1>4, <3>2
        <4> QED BY <3>3, <4>1, <4>2, <4>3
      <3>5. CASE ~(wall < T)
        <4>1. GoDate(z, wall) = wall - b
          BY <1>2, <3>1, <3>5 DEF GoDate
        <4>2. In(z, wall - b) = (wall - b) + a
          BY <1>2, <3>1 DEF In
        <4>3. Date((wall - b) + a) = d
          BY <1>4, <3>2
        <4> QED BY <3>3, <4>1, <4>2, <4>3
      <3> QED BY <3>4, <3>5
    <2> QED BY <2>1, <2>2
  <1>6. ASSUME NEW t \in Int, NEW u \in Int, t <= u
        PROVE  Date(In(z, t)) <= Date(In(z, u))
    <2>1. In(z, t) \in Int /\ In(z, u) \in Int
      BY InType
    <2>2. CASE In(z, t) <= In(z, u)
      BY <2>1, <2>2, DatesGrow
    <2>3. CASE ~(In(z, t) <= In(z, u))
      <3>1. /\ t < T /\ T <= u /\ a < b /\ w = b - a /\ w > 0
            /\ In(z, t) = t + b /\ In(z, u) = u + a
        BY <1>2, <1>3, <1>6, <2>3 DEF In
      <3>2. Date(T - w + b) = d /\ Date(T + w - 1 + a) = d
        <4>1. T - w \in (T - w)..(T + w - 1) /\ T + w - 1 \in (T - w)..(T + w - 1)
          BY <3>1
        <4> QED BY <1>4, <4>1
      <3>3. Date(t + b) <= d
        <4>1. CASE t >= T - w
          <5>1. t \in (T - w)..(T + w - 1)
            BY <3>1, <4>1
          <5> QED BY <1>4, <5>1
        <4>2. CASE t < T - w
          <5>1. t + b <= T - w + b /\ t + b \in Int /\ T - w + b \in Int
            BY <4>2
          <5> QED BY <3>2, <5>1, DatesGrow
        <4> QED BY <4>1, <4>2
      <3>4. d <= Date(u + a)
        <4>1. CASE u <= T + w - 1
          <5>1. u \in (T - w)..(T + w - 1)
            BY <3>1, <4>1
          <5> QED BY <1>4, <5>1
        <4>2. CASE u > T + w - 1
          <5>1. T + w - 1 + a <= u + a /\ u + a \in Int /\ T + w - 1 + a \in Int
            BY <4>2
          <5> QED BY <3>2, <5>1, DatesGrow
        <4> QED BY <4>1, <4>2
      <3>5. Date(t + b) \in Int /\ Date(u + a) \in Int
        BY <2>1, <3>1, DateType
      <3> QED BY <3>1, <3>3, <3>4, <3>5
    <2> QED BY <2>2, <2>3
  <1> QED BY <1>5, <1>6

-----------------------------------------------------------------------------
(* Past rounds.                                                            *)

(* A non-empty finite set of numbers has a greatest.                       *)
LEMMA GreatestExists ==
    ASSUME NEW S \in SUBSET Int, IsFiniteSet(S), S # {}
    PROVE  \E d \in S : \A e \in S : e <= d
  <1> DEFINE Above(d) == {e \in S : e > d}
             T        == {Above(d) : d \in S}
  <1>1. T \subseteq FiniteSubsetsOf(S) /\ T # {}
    <2>1. T \subseteq SUBSET S /\ T # {}
      OBVIOUS
    <2> HIDE DEF T
    <2> QED BY <2>1, FS_FiniteSubsetsOfFinite
  <1>2. PICK x \in T : \A y \in T : <<y, x>> \notin StrictSubsetOrdering(S)
    BY <1>1, FS_StrictSubsetOrderingWellFounded, WFMin
  <1>3. PICK d \in S : x = Above(d)
    BY <1>2
  <1>4. ASSUME NEW e \in S, e > d PROVE FALSE
    <2>0. e \in Int /\ d \in Int
      OBVIOUS
    <2>1. Above(e) \subseteq Above(d) /\ e \in Above(d) /\ e \notin Above(e)
      <3>1. ASSUME NEW f \in Above(e) PROVE f \in Above(d)
        <4>1. f \in S /\ f \in Int /\ f > e
          OBVIOUS
        <4> QED BY <1>4, <2>0, <4>1
      <3>2. e \in Above(d)
        BY <1>4
      <3>3. e \notin Above(e)
        BY <2>0
      <3> HIDE DEF Above
      <3> QED BY <3>1, <3>2, <3>3
    <2>2. Above(e) \in SUBSET S /\ Above(d) \in SUBSET S /\ Above(e) \in T
      OBVIOUS
    <2>3. <<Above(e), Above(d)>> \in StrictSubsetOrdering(S)
      <3> HIDE DEF Above
      <3> QED BY <2>1, <2>2 DEF StrictSubsetOrdering
    <2> QED BY <1>2, <1>3, <2>2, <2>3
  <1> QED BY <1>4

(* The n greatest of R, those up to T and those beyond: all but as many as *)
(* lie beyond are up to T.                                                 *)
LEMMA GreatestUpTo ==
    ASSUME NEW R \in SUBSET Int, IsFiniteSet(R), NEW T \in Int, NEW n \in Nat,
           NEW k \in Int, k >= Cardinality({e \in R : e > T})
    PROVE  LET past  == {d \in R : d <= T}
               shown == {d \in R : Cardinality({e \in R : e > d}) < n} \cap past
           IN  /\ Cardinality(shown) >= Least(n - k, Cardinality(past))
               /\ \A d \in shown, e \in past \ shown : e < d
  <1> DEFINE past     == {d \in R : d <= T}
             beyond   == {e \in R : e > T}
             Above(d) == {e \in R : e > d}
             top      == {d \in R : Cardinality(Above(d)) < n}
             shown    == top \cap past
  <1> SUFFICES /\ Cardinality(shown) >= Least(n - k, Cardinality(past))
               /\ \A d \in shown, e \in past \ shown : e < d
    OBVIOUS
  <1>1. \A d : IsFiniteSet(Above(d)) /\ Cardinality(Above(d)) \in Nat
    BY FS_Subset, FS_CardinalityType
  <1>2. \A d, e \in R : d <= e => Cardinality(Above(e)) <= Cardinality(Above(d))
    <2> SUFFICES ASSUME NEW d \in R, NEW e \in R, d <= e
                 PROVE  Cardinality(Above(e)) <= Cardinality(Above(d))
      OBVIOUS
    <2>1. ASSUME NEW f \in Above(e) PROVE f \in Above(d)
      <3>1. f \in R /\ f \in Int /\ d \in Int /\ e \in Int /\ f > e
        OBVIOUS
      <3> QED BY <3>1
    <2> HIDE DEF Above
    <2> QED BY <1>1, <2>1, FS_Subset
  <1>3. \A d \in shown, e \in past \ shown : e < d
    <2> SUFFICES ASSUME NEW d \in shown, NEW e \in past \ shown PROVE e < d
      OBVIOUS
    <2>1. d \in R /\ e \in R /\ d \in Int /\ e \in Int
      OBVIOUS
    <2>2. Cardinality(Above(d)) < n /\ ~(Cardinality(Above(e)) < n)
      OBVIOUS
    <2> HIDE DEF Above, past, shown
    <2> QED BY <1>1, <1>2, <2>1, <2>2
  <1>4. /\ IsFiniteSet(past) /\ IsFiniteSet(shown) /\ IsFiniteSet(beyond)
        /\ IsFiniteSet(past \ shown)
    BY FS_Subset
  <1>5. /\ Cardinality(past) \in Nat /\ Cardinality(shown) \in Nat
        /\ Cardinality(beyond) \in Nat
    BY <1>4, FS_CardinalityType
  <1>6. CASE shown = past
    <2> HIDE DEF past, shown, beyond
    <2> QED BY <1>3, <1>5, <1>6 DEF Least
  <1>7. CASE shown # past
    <2>1. PICK d \in past \ shown : \A e \in past \ shown : e <= d
      <3>1. past \ shown \in SUBSET Int /\ past \ shown # {}
        BY <1>7
      <3> HIDE DEF past, shown
      <3> QED BY <1>4, <3>1, GreatestExists
    <2>2. d \in R /\ d \in Int /\ d <= T
      OBVIOUS
    <2>3. Cardinality(Above(d)) >= n
      BY <1>1
    <2>4. Above(d) = shown \cup beyond
      <3>1. ASSUME NEW e \in Above(d) PROVE e \in shown \cup beyond
        <4>1. e \in R /\ e > d /\ e \in Int
          OBVIOUS
        <4>2. CASE e <= T
          <5>1. e \in past
            BY <4>1, <4>2
          <5> QED BY <2>1, <2>2, <4>1, <5>1
        <4> QED BY <4>1, <4>2
      <3>2. ASSUME NEW e \in shown PROVE e \in Above(d)
        <4>1. e \in R
          OBVIOUS
        <4>2. d < e
          BY <1>3
        <4> QED BY <2>2, <4>1, <4>2
      <3>3. ASSUME NEW e \in beyond PROVE e \in Above(d)
        BY <2>2
      <3> QED BY <3>1, <3>2, <3>3
    <2>5. shown \cap beyond = {}
      <3>1. ASSUME NEW e \in R PROVE ~(e <= T /\ e > T)
        <4>1. e \in Int
          OBVIOUS
        <4> QED BY <4>1
      <3> QED BY <3>1
    <2>6. Cardinality(Above(d)) = Cardinality(shown) + Cardinality(beyond)
      <3> HIDE DEF Above, shown, beyond
      <3>1. Cardinality(shown \cap beyond) = 0
        BY <2>5, FS_EmptySet
      <3>2. Cardinality(shown \cup beyond)
               = Cardinality(shown) + Cardinality(beyond)
                    - Cardinality(shown \cap beyond)
        BY <1>4, FS_Union
      <3> QED BY <1>5, <2>4, <3>1, <3>2
    <2>7. Cardinality(shown) >= n - k
      <3> HIDE DEF Above, shown, beyond
      <3>1. k >= Cardinality(beyond)
        BY DEF beyond
      <3> QED BY <1>1, <1>5, <2>3, <2>6, <3>1
    <2> HIDE DEF past, shown, beyond
    <2> QED BY <1>3, <1>5, <2>7 DEF Least
  <1> QED BY <1>6, <1>7

(* No game is moved to another zone.                                       *)
ZoneKept  == \A g \in Games : games'[g].zone = games[g].zone
ZonesKept == [][ZoneKept]_vars

(* Rounds are made for no more days ahead than the code says, and a run    *)
(* reckons with the zones that the games have.                             *)
AheadInv ==
    /\ \A g \in Games, d \in Days :
          rounds[g][d] # NoRound =>
              Known(g) /\ 0 < DaysAhead /\ d < Today(g) + DaysAhead
    /\ \A i \in Instances : \A g \in DOMAIN defs[i] :
          defs[i][g].zone = games[g].zone

(* A new round is not beyond the days ahead.                               *)
LEMMA InsertedAhead ==
    ASSUME CalendarsKept, CoverInv, AheadInv, NEW i \in Instances,
           pc[i] = "insert", NEW g \in Games, g = game[i]
    PROVE  Known(g) /\ 0 < DaysAhead /\ DayOf(i) < Today(g) + DaysAhead
  <1>1. /\ g \in DOMAIN defs[i] /\ defs[i][g].zone \in DOMAIN ZoneRule
        /\ DayOf(i) = Date(nowLocal[i]) + offset[i]
    BY RunTypes, DayOfIs DEF CoverInv
  <1> DEFINE z == games[g].zone
  <1>2. z \in DOMAIN ZoneRule /\ defs[i][g].zone = z
    BY <1>1 DEF AheadInv
  <1>3. PICK t \in Nat : t <= clock /\ nowLocal[i] = In(z, t)
    BY <1>2 DEF CoverInv, Walk, Timely
  <1>4. clock \in Nat /\ offset[i] \in 0..DaysAhead /\ offset[i] < DaysAhead
    BY DEF CoverInv, TypeInv, TypeOK
  <1>5. Date(In(z, t)) \in Int /\ Date(In(z, clock)) \in Int
    BY <1>2, <1>4, InType, DateType
  <1>6. Date(In(z, t)) <= Date(In(z, clock))
    BY <1>2, <1>3, <1>4 DEF CalendarsKept
  <1>7. DaysAhead \in Nat
    BY RoundGenerationAssumption
  <1>8. DayOf(i) = Date(In(z, t)) + offset[i]
    BY <1>1, <1>3
  <1>9. Today(g) = Date(In(z, clock))
    BY DEF Today
  <1>10. 0 < DaysAhead /\ DayOf(i) < Today(g) + DaysAhead
    BY <1>4, <1>5, <1>6, <1>7, <1>8, <1>9
  <1> QED BY <1>2, <1>10 DEF Known

LEMMA NextAheadInv ==
    ASSUME CalendarsKept, CoverInv, AheadInv, [Next]_vars, [ZoneKept]_vars
    PROVE  AheadInv'
  <1>1. TypeInv /\ TypeInv' /\ Grows
    BY NextTypeInv, NextGrows DEF CoverInv
  <1>2. \A g \in Games : games'[g].zone = games[g].zone
    BY DEF ZoneKept, vars, db
  <1>3. ASSUME NEW i \in Instances
        PROVE  \A g \in DOMAIN defs'[i] : defs'[i][g].zone = games'[g].zone
    <2>1. \A g \in DOMAIN defs[i] : defs[i][g].zone = games'[g].zone
      BY <1>1, <1>2, ReadingFacts DEF AheadInv, TypeInv, TypeOK
    <2>2. \/ defs'[i] = defs[i]
          \/ ReadGames(i)
      <3>1. ASSUME NEW j \in Instances,
                   \/ NextGame(j) \/ EndRun(j) \/ CheckDate(j)
                   \/ InsertRound(j) \/ FailRun(j) \/ Crash(j)
            PROVE  defs' = defs
        BY <3>1 DEF NextGame, EndRun, CheckDate, InsertRound, FailRun, Crash
      <3>2. ASSUME NEW j \in Instances, ReadGames(j), j # i
            PROVE  defs'[i] = defs[i]
        BY <1>1, <3>2 DEF ReadGames, TypeInv, TypeOK
      <3>3. ASSUME \/ \E g \in Games : EditGame(g)
                   \/ \E g \in Games, d \in Days : EditHoliday(g, d)
                   \/ Tick
                   \/ UNCHANGED vars
            PROVE  defs' = defs
        BY <3>3 DEF EditGame, EditHoliday, Tick, run, vars
      <3> QED BY <3>1, <3>2, <3>3 DEF Next, Step
    <2>3. CASE ReadGames(i)
      <3>1. defs' = [defs EXCEPT ![i] =
                       [g \in {h \in Games : games[h].active} |-> games[g]]]
        BY <2>3 DEF ReadGames
      <3>2. defs'[i] = [g \in {h \in Games : games[h].active} |-> games[g]]
        BY <1>1, <3>1 DEF TypeInv, TypeOK
      <3> QED BY <1>2, <3>2
    <2> QED BY <2>1, <2>2, <2>3
  <1>4. ASSUME NEW g \in Games, NEW d \in Days, Known(g), 0 < DaysAhead,
               d < Today(g) + DaysAhead
        PROVE  Known(g)' /\ d < Today(g)' + DaysAhead
    <2> DEFINE z == games[g].zone
    <2>1. z \in DOMAIN ZoneRule /\ games'[g].zone = z
      BY <1>2, <1>4 DEF Known
    <2>2. clock \in Nat /\ clock' \in Nat /\ clock <= clock'
      BY <1>1 DEF TypeInv, TypeOK, Grows
    <2>3. Date(In(z, clock)) \in Int /\ Date(In(z, clock')) \in Int
      BY <2>1, <2>2, InType, DateType
    <2>4. Date(In(z, clock)) <= Date(In(z, clock'))
      BY <2>1, <2>2 DEF CalendarsKept
    <2>5. d \in Int /\ DaysAhead \in Int
      BY RoundGenerationAssumption
    <2>6. Today(g)' = Date(In(z, clock'))
      BY <2>1 DEF Today, In, OffsetAt
    <2>7. Today(g) = Date(In(z, clock))
      BY DEF Today
    <2>8. d < Today(g)' + DaysAhead
      BY <1>4, <2>3, <2>4, <2>5, <2>6, <2>7
    <2> QED BY <2>1, <2>8 DEF Known
  <1>5. ASSUME NEW g \in Games, NEW d \in Days, rounds'[g][d] # NoRound
        PROVE  Known(g)' /\ 0 < DaysAhead /\ d < Today(g)' + DaysAhead
    <2>1. CASE rounds[g][d] # NoRound
      BY <1>4, <2>1 DEF AheadInv
    <2>2. CASE rounds[g][d] = NoRound
      <3>1. PICK i \in Instances : InsertRound(i) /\ Added(i)
        BY <1>1, <1>5, <2>2, OnlyInserts
      <3>2. g = game[i] /\ d = DayOf(i)
        BY <1>5, <2>2, <3>1 DEF Added
      <3>3. Known(g) /\ 0 < DaysAhead /\ d < Today(g) + DaysAhead
        BY <3>1, <3>2, InsertedAhead DEF InsertRound
      <3> QED BY <1>4, <3>3
    <2> QED BY <2>1, <2>2
  <1> QED BY <1>3, <1>5 DEF AheadInv

LEMMA HistoryInState ==
    ASSUME IsFiniteSet(Days), TypeInv, AheadInv
    PROVE  AheadTakesFewPlaces
  <1> SUFFICES ASSUME NEW g \in Games, NEW n \in 1..Cardinality(Days), Known(g)
               PROVE  LET past  == {d \in Rounds(g) : d <= Today(g)}
                          shown == History(g, n) \cap past
                      IN  /\ Cardinality(shown)
                                >= Least(n - (DaysAhead - 1), Cardinality(past))
                          /\ \A d \in shown, e \in past \ shown : e < d
    BY DEF AheadTakesFewPlaces, Known
  <1> DEFINE R      == Rounds(g)
             T      == Today(g)
             beyond == {e \in R : e > T}
  <1>1. R \in SUBSET Int /\ IsFiniteSet(R) /\ n \in Nat
    <2>1. R \in SUBSET Days
      BY DEF Rounds
    <2>2. Cardinality(Days) \in Nat
      BY FS_CardinalityType
    <2>3. n \in Nat
      BY <2>2
    <2>4. Days \subseteq Int
      BY RoundGenerationAssumption
    <2> HIDE DEF R
    <2>5. IsFiniteSet(R)
      BY <2>1, FS_Subset
    <2> QED BY <2>1, <2>3, <2>4, <2>5
  <1>2. T \in Int
    <2>1. clock \in Int
      BY DEF TypeInv, TypeOK
    <2> QED BY <2>1, InType, DateType DEF Today, Known
  <1>3. \A d \in R : 0 < DaysAhead /\ d < T + DaysAhead
    BY DEF AheadInv, Rounds
  <1>4. CASE R = {}
    <2>1. {d \in R : d <= T} = {} /\ History(g, n) \cap {d \in R : d <= T} = {}
      BY <1>4
    <2>2. Cardinality({}) = 0 /\ n >= 1 /\ DaysAhead \in Nat
      BY FS_EmptySet, RoundGenerationAssumption
    <2>3. 0 >= Least(n - (DaysAhead - 1), 0)
      BY <2>2 DEF Least
    <2> HIDE DEF R, T
    <2> QED BY <2>1, <2>2, <2>3 DEF R, T
  <1>5. CASE R # {}
    <2>1. DaysAhead \in Int /\ DaysAhead > 0
      BY <1>3, <1>5, RoundGenerationAssumption
    <2>2. beyond \subseteq (T + 1)..(T + DaysAhead - 1)
      <3>1. ASSUME NEW e \in beyond PROVE e \in (T + 1)..(T + DaysAhead - 1)
        <4>1. e \in Int /\ e > T /\ e < T + DaysAhead
          BY <1>1, <1>3
        <4> HIDE DEF T
        <4> QED BY <1>2, <2>1, <4>1
      <3> QED BY <3>1
    <2>3. /\ IsFiniteSet((T + 1)..(T + DaysAhead - 1))
          /\ Cardinality((T + 1)..(T + DaysAhead - 1)) = DaysAhead - 1
      <3> HIDE DEF T
      <3>1. T + 1 \in Int /\ T + DaysAhead - 1 \in Int
        BY <1>2, <2>1
      <3>2. /\ IsFiniteSet((T + 1)..(T + DaysAhead - 1))
            /\ Cardinality((T + 1)..(T + DaysAhead - 1))
                  = IF T + 1 > T + DaysAhead - 1 THEN 0
                    ELSE (T + DaysAhead - 1) - (T + 1) + 1
        BY <3>1, FS_Interval
      <3> QED BY <1>2, <2>1, <3>2
    <2>4. Cardinality(beyond) <= DaysAhead - 1
      <3> HIDE DEF beyond
      <3> QED BY <2>2, <2>3, FS_Subset
    <2>5. LET past  == {d \in R : d <= T}
              shown == {d \in R : Cardinality({e \in R : e > d}) < n} \cap past
          IN  /\ Cardinality(shown) >= Least(n - (DaysAhead - 1), Cardinality(past))
              /\ \A d \in shown, e \in past \ shown : e < d
      <3>1. Cardinality(beyond) \in Nat
        BY <1>1, FS_Subset, FS_CardinalityType
      <3>2. PICK k \in Int : k = DaysAhead - 1
        BY <2>1
      <3>3. k >= Cardinality(beyond)
        <4> HIDE DEF beyond
        <4> QED BY <2>4, <3>1, <3>2
      <3> HIDE DEF R, T
      <3>4. LET past  == {d \in R : d <= T}
                shown == {d \in R : Cardinality({e \in R : e > d}) < n} \cap past
            IN  /\ Cardinality(shown) >= Least(n - k, Cardinality(past))
                /\ \A d \in shown, e \in past \ shown : e < d
        BY <1>1, <1>2, <3>3, GreatestUpTo
      <3> QED BY <3>2, <3>4
    <2> QED BY <2>5 DEF History
  <1> QED BY <1>4, <1>5

(* The rounds generated ahead take at most DaysAhead - 1 places of a       *)
(* game's history, whatever instances race, unless a game is moved to      *)
(* another zone; the past rounds on it are the latest ones.                *)
THEOREM HistoryHasThePast ==
    ASSUME CalendarsKept, IsFiniteSet(Days)
    PROVE  Spec /\ ZonesKept => []AheadTakesFewPlaces
  <1>1. Init => CoverInv
    BY InitCoverInv
  <1>2. Init => AheadInv
    BY DEF Init, AheadInv
  <1>3. CoverInv /\ [Next]_vars => CoverInv'
    BY NextCoverInv
  <1>4. CoverInv /\ AheadInv /\ [Next]_vars /\ [ZoneKept]_vars => AheadInv'
    BY NextAheadInv
  <1>5. CoverInv /\ AheadInv => AheadTakesFewPlaces
    BY HistoryInState DEF CoverInv
  <1> QED BY <1>1, <1>2, <1>3, <1>4, <1>5, PTL DEF Spec, ZonesKept

=============================================================================
