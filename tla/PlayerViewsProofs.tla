-------------------------- MODULE PlayerViewsProofs --------------------------
(***************************************************************************)
(* Proofs about what a Player is shown, for any number of requests, games  *)
(* and rates, and pages of any length: the lists agree with what Place     *)
(* does, and the pages agree with each other.                              *)
(*                                                                         *)
(* Pages are cut by counting rows, so these proofs need that the ledger is *)
(* finite, and that no two rows of a Player share a seq (OneRowPerSeq).    *)
(***************************************************************************)
EXTENDS PlayerViews, PlacementLedgerProofs, FiniteSetTheorems

FiniteRows == IsFiniteSet(ledger) /\ \A r \in Requests : IsFiniteSet(rows[r])

OneRowPerSeq ==
    \A e, f \in ledger : e.user = f.user /\ e.seq = f.seq => e = f

PageInv == WalletInv /\ FiniteRows /\ OneRowPerSeq

-----------------------------------------------------------------------------
(* The list of games.                                                      *)

(* Listed with a cutoff to come, and admitted: the same, but for the       *)
(* status of the round.                                                    *)
LEMMA OfferedIsAdmissible ==
    ASSUME TypeInv, NEW r \in Requests, pc[r] = "lookup", NEW now \in Int
    PROVE  Admissible(r, now) <=> Offered(r, now) /\ cancelled[GameOf(r)] = Never
  <1>1. /\ UserOf(r) \in Players /\ AgentOf[UserOf(r)] # None
        /\ GameOf(r) \in Games
    BY AdmittedFacts, PlacementAssumption DEF Open
  <1>2. CutoffShown(GameOf(r), TypeOf(r)) = CutoffOf(r)
    BY DEF CutoffShown, CutoffOf, Cutoff
  <1> QED BY <1>1, <1>2 DEF Admissible, Offered, GamesShown,
         ActiveGames

(* Only the lookup itself takes a request from there to "playing" or to    *)
(* "rejected".                                                             *)
LEMMA OnlyLookupDecides ==
    ASSUME TypeInv, [Next]_vars, NEW r \in Requests, pc[r] = "lookup",
           pc'[r] \in {"playing", "rejected"}
    PROVE  LookupRound(r)
  <1>1. ASSUME NEW q \in Requests,
               \/ Receive(q) \/ ReadPlaying(q) \/ ReadGiving(q) \/ ReadGiven(q)
               \/ Begin(q) \/ LockWallets(q) \/ Debit(q) \/ InsertPrediction(q)
               \/ WriteLedger(q) \/ Commit(q) \/ CommitUnacknowledged(q)
               \/ Fail(q)
               \/ LookupRound(q) /\ q # r
        PROVE  FALSE
    <2>1. \E l : Goto(q, l) /\ (q # r \/ pc[q] # "lookup" \/ l = "failed")
      BY <1>1 DEF Receive, LookupRound, ReadPlaying, ReadGiving, ReadGiven,
         Begin, LockWallets, Debit, InsertPrediction, WriteLedger, Commit,
         CommitUnacknowledged, Fail, Quote, Reject
    <2> QED BY <2>1 DEF Goto, TypeInv, TypeOK
  <1>2. CASE Others \/ UNCHANGED vars
    BY <1>2 DEF Others, Tick, Crash, GenerateRound, SetGameStatus, CancelRound,
       SetEnablement, SubmitResult, SetRates, CoreDelta, requests, vars, Open
  <1>3. ASSUME NEW q \in Requests, LookupRound(q) PROVE LookupRound(r)
    BY <1>1, <1>3
  <1> QED BY <1>1, <1>2, <1>3 DEF Next, Advance, Done

(* The list of games offers exactly the bets that the lookup of Place lets *)
(* through at that instant, those of a cancelled round apart.              *)
THEOREM ListAgreesWithLookup == Spec => OfferedBetsGoOn
  <1> DEFINE A == \A r \in Requests : pc[r] = "lookup" =>
          LET skewed == (clock - Skew)..(clock + Skew) IN
          /\ pc'[r] = "playing" => \E now \in skewed : Offered(r, now)
          /\ pc'[r] = "rejected" => \/ cancelled[GameOf(r)] # Never
                                    \/ \E now \in skewed : ~Offered(r, now)
  <1>1. TypeInv /\ [Next]_vars => A
    <2> SUFFICES ASSUME TypeInv, [Next]_vars, NEW r \in Requests,
                        pc[r] = "lookup", pc'[r] \in {"playing", "rejected"}
                 PROVE  LET skewed == (clock - Skew)..(clock + Skew) IN
                        /\ pc'[r] = "playing" => \E now \in skewed : Offered(r, now)
                        /\ pc'[r] = "rejected" =>
                              \/ cancelled[GameOf(r)] # Never
                              \/ \E now \in skewed : ~Offered(r, now)
      OBVIOUS
    <2>1. PICK now \in (clock - Skew)..(clock + Skew) :
             IF Admissible(r, now) THEN Goto(r, "playing") ELSE Goto(r, "rejected")
      BY OnlyLookupDecides DEF LookupRound
    <2>2. now \in Int
      OBVIOUS
    <2>3. IF Admissible(r, now) THEN pc'[r] = "playing" ELSE pc'[r] = "rejected"
      BY <2>1 DEF Goto, TypeInv, TypeOK
    <2>4. Admissible(r, now) <=> Offered(r, now) /\ cancelled[GameOf(r)] = Never
      BY <2>2, OfferedIsAdmissible
    <2> QED BY <2>3, <2>4
  <1>2. TypeInv /\ [Next]_vars => TypeInv'
    BY NextTypeInv
  <1> QED BY <1>1, <1>2, InitTypeInv, PTL DEF Spec, OfferedBetsGoOn

-----------------------------------------------------------------------------
(* The rate card.                                                          *)

(* What the card says of a family is what Place will read for it.          *)
LEMMA CardIsEffective ==
    ASSUME TypeInv, NEW r \in Requests, pc[r] \in {"playing", "giving"},
           FamilyOf(r) \in DOMAIN MyRates(UserOf(r))
    PROVE  /\ MyRates(UserOf(r))[FamilyOf(r)] = EffectiveOdds(r)
           /\ EffectiveOdds(r) # NoRate
  <1>1. UserOf(r) \in Players /\ AgentOf[UserOf(r)] # None /\ FamilyOf(r) \in Families
    BY AdmittedFacts, PlacementAssumption DEF Open
  <1> QED BY <1>1 DEF MyRates, EffectiveOdds

(* What a step of pricing does with the rate it reads.                     *)
LEMMA PricingStep ==
    ASSUME TypeInv, Fallback, [Next]_vars, NEW r \in Requests,
           \/ odds'[r] # odds[r]
           \/ pc[r] \in {"playing", "giving"} /\ pc'[r] = "rejected",
           EffectiveOdds(r) # NoRate
    PROVE  /\ pc[r] \in {"playing", "giving"}
           /\ odds'[r] # odds[r] => odds'[r] = EffectiveOdds(r)
           /\ pc'[r] = "rejected" => StakeOf(r) * EffectiveOdds(r) > MaxPayout
  <1> DEFINE Goal == /\ pc[r] \in {"playing", "giving"}
                     /\ odds'[r] # odds[r] => odds'[r] = EffectiveOdds(r)
                     /\ pc'[r] = "rejected"
                           => StakeOf(r) * EffectiveOdds(r) > MaxPayout
  <1>0. pc \in [Requests -> {"new"} \cup Open \cup Final] /\ odds \in [Requests -> Nat]
    BY DEF TypeInv, TypeOK
  <1>1. ASSUME NEW q \in Requests, ReadPlaying(q) \/ ReadGiving(q)
        PROVE  Goal
    <2>1. CASE q = r
      <3>1. pc[r] \in {"playing", "giving"}
        BY <1>1, <2>1 DEF ReadPlaying, ReadGiving
      <3>2. \/ Quote(r, EffectiveOdds(r))
            \/ Goto(r, "giving") /\ UNCHANGED odds
        BY <1>1, <2>1 DEF ReadPlaying, ReadGiving, EffectiveOdds, Fallback
      <3> QED BY <1>0, <3>1, <3>2 DEF Quote, Goto
    <2>2. CASE q # r
      <3>1. pc'[r] = pc[r] /\ odds'[r] = odds[r]
        BY <1>0, <1>1, <2>2 DEF ReadPlaying, ReadGiving, Quote, Goto
      <3> QED BY <3>1
    <2> QED BY <2>1, <2>2
  <1>2. ASSUME NEW q \in Requests,
               \/ Receive(q) \/ LookupRound(q) \/ ReadGiven(q) \/ Begin(q)
               \/ LockWallets(q) \/ Debit(q) \/ InsertPrediction(q)
               \/ WriteLedger(q) \/ Commit(q) \/ CommitUnacknowledged(q)
               \/ Fail(q)
        PROVE  FALSE
    <2>1. /\ UNCHANGED odds
          /\ \E l : Goto(q, l) /\ (\/ l = "failed" \/ l = "placed"
                                   \/ pc[q] \notin {"playing", "giving"})
      BY <1>2 DEF Receive, LookupRound, ReadGiven, Begin, LockWallets, Debit,
         InsertPrediction, WriteLedger, Commit, CommitUnacknowledged, Fail, Reject
    <2> QED BY <1>0, <2>1 DEF Goto
  <1>3. CASE Others \/ UNCHANGED vars
    BY <1>3 DEF Others, Tick, Crash, GenerateRound, SetGameStatus, CancelRound,
       SetEnablement, SubmitResult, SetRates, CoreDelta, requests, vars, Open
  <1> QED BY <1>1, <1>2, <1>3 DEF Next, Advance, Done

(* A bet of a family that is on the Player's card is priced at what the    *)
(* card shows when the rate is read, and refused only if its payout would  *)
(* not fit.                                                                *)
THEOREM CardKeepsItsWord == Spec => CardIsHonest
  <1> DEFINE A == \A r \in Requests :
          LET card == MyRates(UserOf(r))
              f    == FamilyOf(r)
          IN  f \in DOMAIN card =>
                /\ odds'[r] # odds[r] => odds'[r] = card[f]
                /\ pc[r] \in {"playing", "giving"} /\ pc'[r] = "rejected"
                      => StakeOf(r) * card[f] > MaxPayout
  <1>1. TypeInv /\ Fallback /\ [Next]_vars => A
    <2> SUFFICES ASSUME TypeInv, Fallback, [Next]_vars, NEW r \in Requests,
                        FamilyOf(r) \in DOMAIN MyRates(UserOf(r))
                 PROVE  LET c == MyRates(UserOf(r))[FamilyOf(r)] IN
                        /\ odds'[r] # odds[r] => odds'[r] = c
                        /\ pc[r] \in {"playing", "giving"} /\ pc'[r] = "rejected"
                              => StakeOf(r) * c > MaxPayout
      OBVIOUS
    <2>1. EffectiveOdds(r) # NoRate
      BY DEF MyRates, EffectiveOdds
    <2>2. CASE pc[r] \in {"playing", "giving"}
      <3>1. MyRates(UserOf(r))[FamilyOf(r)] = EffectiveOdds(r)
        BY <2>2, CardIsEffective
      <3> QED BY <2>1, <3>1, PricingStep
    <2>3. CASE pc[r] \notin {"playing", "giving"}
      BY <2>1, <2>3, PricingStep
    <2> QED BY <2>2, <2>3
  <1>2. Init => Fallback
    BY DEF Init, Fallback
  <1>3. TypeInv /\ Fallback /\ [Next]_vars => TypeInv' /\ Fallback'
    BY NextTypeInv, NextFallback
  <1> QED BY <1>1, <1>2, <1>3, InitTypeInv, PTL DEF Spec, CardIsHonest

-----------------------------------------------------------------------------
(* The ledger stays finite, and a seq names one row of a Player.           *)

LEMMA NextAppended ==
    ASSUME TypeInv, TxInv, [Next]_vars
    PROVE  Appended
  <1>1. ASSUME NEW r \in Requests,
               Receive(r) \/ Advance(r) \/ CommitUnacknowledged(r) \/ Fail(r)
        PROVE  Appended
    <2>1. CASE Commit(r) \/ CommitUnacknowledged(r)
      BY <2>1, PublishAppended DEF Commit, CommitUnacknowledged
    <2>2. CASE ~(Commit(r) \/ CommitUnacknowledged(r))
      BY <1>1, <2>2 DEF Advance, Receive, LookupRound, ReadPlaying, ReadGiving,
         ReadGiven, Begin, LockWallets, Debit, InsertPrediction, WriteLedger,
         Fail, store, Appended
    <2> QED BY <2>1, <2>2
  <1>2. ASSUME NEW u \in Users, NEW w \in Wallets, NEW d \in CoreDeltas,
               CoreDelta(u, w, d)
        PROVE  Appended
    BY <1>2, CoreAppended
  <1>3. ASSUME UNCHANGED ledger PROVE Appended
    BY <1>3 DEF Appended
  <1>4. CASE \/ Tick \/ Crash
             \/ \E g \in Games : GenerateRound(g) \/ SetGameStatus(g) \/ CancelRound(g)
             \/ \E g \in Games, a \in Admins : SetEnablement(g, a)
             \/ \E g \in Games, s \in Sides : SubmitResult(g, s)
             \/ \E a \in Agents, f \in Families : SetRates(a, f)
             \/ UNCHANGED vars
    BY <1>3, <1>4 DEF Tick, Crash, GenerateRound, SetGameStatus, CancelRound,
       SetEnablement, SubmitResult, SetRates, store, vars
  <1> QED BY <1>1, <1>2, <1>4 DEF Next, Others, Done

(* A step leaves the rows of the ledger and of the transactions as they    *)
(* are, drops some, or adds one or two.                                    *)
LEMMA NextFiniteRows ==
    ASSUME TypeInv, FiniteRows, [Next]_vars
    PROVE  FiniteRows'
  <1>0. rows \in [Requests -> SUBSET Row]
    BY DEF TypeInv, TypeOK
  <1>1. ASSUME NEW r \in Requests, WriteLedger(r) PROVE FiniteRows'
    <2>1. PICK d1, d2 : /\ UNCHANGED ledger
                        /\ rows' = [rows EXCEPT ![r] = d1 \cup d2]
                        /\ IsFiniteSet(d1) /\ IsFiniteSet(d2)
      BY <1>1, FS_EmptySet, FS_Singleton DEF WriteLedger, store
    <2>2. IsFiniteSet(d1 \cup d2)
      BY <2>1, FS_Union
    <2> QED BY <1>0, <2>1, <2>2 DEF FiniteRows
  <1>2. ASSUME NEW r \in Requests, Commit(r) \/ CommitUnacknowledged(r)
        PROVE  FiniteRows'
    <2>1. ledger' = ledger \cup rows[r] /\ rows' = [rows EXCEPT ![r] = {}]
      BY <1>2 DEF Commit, CommitUnacknowledged, Publish, Rollback
    <2>2. IsFiniteSet(ledger \cup rows[r])
      BY FS_Union DEF FiniteRows
    <2> QED BY <1>0, <2>1, <2>2, FS_EmptySet DEF FiniteRows
  <1>3. ASSUME NEW u \in Users, NEW w \in Wallets, NEW d \in CoreDeltas,
               CoreDelta(u, w, d)
        PROVE  FiniteRows'
    <2>1. PICK e : ledger' = ledger \cup {e} /\ UNCHANGED rows
      BY <1>3 DEF CoreDelta, requests, tx
    <2>2. IsFiniteSet(ledger \cup {e})
      BY FS_Union, FS_Singleton DEF FiniteRows
    <2> QED BY <2>1, <2>2 DEF FiniteRows
  <1>4. ASSUME UNCHANGED ledger,
               \A q \in Requests : rows'[q] = rows[q] \/ rows'[q] = {}
        PROVE  FiniteRows'
    BY <1>4, FS_EmptySet DEF FiniteRows
  <1>5. ASSUME NEW r \in Requests,
               \/ Receive(r) \/ LookupRound(r) \/ ReadPlaying(r)
               \/ ReadGiving(r) \/ ReadGiven(r) \/ Begin(r) \/ LockWallets(r)
               \/ Debit(r) \/ InsertPrediction(r) \/ Fail(r)
        PROVE  FiniteRows'
    <2>1. UNCHANGED ledger
      BY <1>5 DEF Receive, LookupRound, ReadPlaying, ReadGiving, ReadGiven,
         Begin, LockWallets, Debit, InsertPrediction, Fail, store
    <2>2. rows' = rows \/ rows' = [rows EXCEPT ![r] = {}]
      BY <1>5 DEF Receive, LookupRound, ReadPlaying, ReadGiving, ReadGiven,
         Begin, LockWallets, Debit, InsertPrediction, Fail, tx, Reject, Rollback
    <2> QED BY <1>0, <1>4, <2>1, <2>2
  <1>6. CASE \/ Tick \/ Crash
             \/ \E g \in Games : GenerateRound(g) \/ SetGameStatus(g) \/ CancelRound(g)
             \/ \E g \in Games, a \in Admins : SetEnablement(g, a)
             \/ \E g \in Games, s \in Sides : SubmitResult(g, s)
             \/ \E a \in Agents, f \in Families : SetRates(a, f)
             \/ UNCHANGED vars
    <2>1. UNCHANGED ledger /\ (rows' = rows \/ rows' = [r \in Requests |-> {}])
      BY <1>6 DEF Tick, Crash, GenerateRound, SetGameStatus, CancelRound,
         SetEnablement, SubmitResult, SetRates, requests, store, tx, vars
    <2> QED BY <1>4, <2>1
  <1> QED BY <1>1, <1>2, <1>3, <1>5, <1>6 DEF Next, Advance, Others, Done

LEMMA NextOneRowPerSeq ==
    ASSUME TypeInv, TxInv, OneRowPerSeq, [Next]_vars
    PROVE  OneRowPerSeq'
  <1>1. Appended
    BY NextAppended
  <1>2. \A e \in ledger : e.seq \in Nat
    BY DEF TypeInv, TypeOK, Row
  <1>3. ASSUME \A e, f \in ledger' \ ledger :
                   e.user = f.user /\ e.seq = f.seq => e = f
        PROVE  OneRowPerSeq'
    <2> SUFFICES ASSUME NEW e \in ledger', NEW f \in ledger',
                        e.user = f.user, e.seq = f.seq
                 PROVE  e = f
      BY DEF OneRowPerSeq
    <2>1. CASE e \in ledger /\ f \in ledger
      BY <2>1 DEF OneRowPerSeq
    <2>2. CASE e \in ledger /\ f \notin ledger
      BY <1>1, <1>2, <2>2 DEF Appended
    <2>3. CASE e \notin ledger /\ f \in ledger
      BY <1>1, <1>2, <2>3 DEF Appended
    <2> QED BY <1>3, <2>1, <2>2, <2>3
  <1>4. ASSUME NEW r \in Requests, Commit(r) \/ CommitUnacknowledged(r)
        PROVE  OneRowPerSeq'
    <2>1. pc[r] = "commit" /\ Publish(r)
      BY <1>4 DEF Commit, CommitUnacknowledged
    <2>2. OwnRows(r) /\ ledger' = ledger \cup rows[r]
      BY <2>1, PublishFacts DEF Publish
    <2>3. \A e \in rows[r] : e.seq \in Nat /\ e.wallet \in {"MAIN", "WINNINGS"}
      BY DEF TypeInv, TypeOK, Row, Wallets
    <2>4. \A e, f \in rows[r] : e.seq = f.seq => e = f
      BY <2>2, <2>3 DEF OwnRows
    <2> QED BY <1>3, <2>2, <2>4
  <1>5. ASSUME NEW u \in Users, NEW w \in Wallets, NEW d \in CoreDeltas,
               CoreDelta(u, w, d)
        PROVE  OneRowPerSeq'
    <2>1. PICK e : ledger' = ledger \cup {e}
      BY <1>5 DEF CoreDelta
    <2> QED BY <1>3, <2>1
  <1>6. CASE UNCHANGED ledger
    BY <1>6 DEF OneRowPerSeq
  <1>7. CASE ~(\E r \in Requests : Commit(r) \/ CommitUnacknowledged(r))
             /\ ~(\E u \in Users, w \in Wallets, d \in CoreDeltas :
                     CoreDelta(u, w, d))
    <2>1. UNCHANGED ledger
      BY <1>7 DEF Next, Advance, Others, Done, Receive, LookupRound, ReadPlaying,
         ReadGiving, ReadGiven, Begin, LockWallets, Debit, InsertPrediction,
         WriteLedger, Fail, Tick, Crash, GenerateRound, SetGameStatus,
         CancelRound, SetEnablement, SubmitResult, SetRates, store, vars
    <2> QED BY <1>6, <2>1
  <1> QED BY <1>4, <1>5, <1>7

LEMMA PageInvInvariant == Spec => []PageInv
  <1>1. Init => WalletInv /\ FiniteRows /\ OneRowPerSeq
    BY InitTypeInv, InitTxInv, InitMoneyInv, FS_EmptySet
       DEF Init, WalletInv, FiniteRows, OneRowPerSeq
  <1>2. WalletInv /\ FiniteRows /\ OneRowPerSeq /\ [Next]_vars
           => WalletInv' /\ FiniteRows' /\ OneRowPerSeq'
    BY NextTypeInv, NextTxInv, NextMoneyInv, NextFiniteRows, NextOneRowPerSeq
       DEF WalletInv
  <1> QED BY <1>1, <1>2, PTL DEF Spec, PageInv

-----------------------------------------------------------------------------
(* Pages.                                                                  *)

(* A page of the ledger that is read again has only gained rows at its     *)
(* top.                                                                    *)
THEOREM PagesGrow == Spec => PagesGrowAtTheTop
  <1> DEFINE A == \A u \in Users, n \in PageSizes :
          \A e \in (LedgerPage(u, n))' \ LedgerPage(u, n), f \in LedgerPage(u, n) :
              e.seq > f.seq
  <1>1. PageInv /\ PageInv' /\ [Next]_vars => A
    <2> SUFFICES ASSUME PageInv, PageInv', [Next]_vars, NEW u \in Users,
                        NEW n \in PageSizes,
                        NEW e \in (LedgerPage(u, n))' \ LedgerPage(u, n),
                        NEW f \in LedgerPage(u, n)
                 PROVE  e.seq > f.seq
      OBVIOUS
    <2> DEFINE old == {x \in ledger : x.user = u /\ x.seq > e.seq}
               new == {x \in ledger' : x.user = u /\ x.seq > e.seq}
    <2>1. Appended
      BY NextAppended DEF PageInv, WalletInv
    <2>2. /\ e \in ledger' /\ e.user = u /\ Cardinality(new) < n
          /\ f \in ledger /\ f.user = u
          /\ e \in ledger => ~(Cardinality(old) < n)
      BY DEF LedgerPage
    <2>3. e \notin ledger
      <3>1. old \subseteq new /\ new \subseteq ledger'
        BY <2>1 DEF Appended
      <3>2. IsFiniteSet(new)
        BY <3>1, FS_Subset DEF PageInv, FiniteRows
      <3>3. /\ Cardinality(old) \in Nat /\ Cardinality(new) \in Nat
            /\ Cardinality(old) <= Cardinality(new)
        BY <3>1, <3>2, FS_Subset, FS_CardinalityType
      <3>4. n \in Nat
        BY PlayerViewsAssumption
      <3> HIDE DEF old, new
      <3> QED BY <2>2, <3>3, <3>4
    <2>4. e.seq \in Nat /\ f.seq \in Nat
      BY <2>2 DEF PageInv, WalletInv, TypeInv, TypeOK, Row
    <2> QED BY <2>1, <2>2, <2>3, <2>4 DEF Appended
  <1> QED BY <1>1, PageInvInvariant, PTL DEF Spec, PagesGrowAtTheTop

(* Whatever stands above a row of a page is on the page.                   *)
LEMMA PageIsUpwardClosed ==
    ASSUME PageInv, NEW u, NEW n \in PageSizes, NEW e \in LedgerPage(u, n),
           NEW f \in ledger, f.user = u, e.seq <= f.seq
    PROVE  f \in LedgerPage(u, n)
  <1> DEFINE low  == {x \in ledger : x.user = u /\ x.seq > e.seq}
             high == {x \in ledger : x.user = u /\ x.seq > f.seq}
  <1>1. e \in ledger /\ Cardinality(low) < n
    BY DEF LedgerPage
  <1>2. \A x \in ledger : x.seq \in Nat
    BY DEF PageInv, WalletInv, TypeInv, TypeOK, Row
  <1>3. high \subseteq low /\ low \subseteq ledger
    BY <1>1, <1>2
  <1>4. IsFiniteSet(low)
    BY <1>3, FS_Subset DEF PageInv, FiniteRows
  <1>5. /\ Cardinality(high) \in Nat /\ Cardinality(low) \in Nat
        /\ Cardinality(high) <= Cardinality(low)
    BY <1>3, <1>4, FS_Subset, FS_CardinalityType
  <1>6. n \in Nat
    BY PlayerViewsAssumption
  <1>7. Cardinality(high) < n
    <2> HIDE DEF high, low
    <2> QED BY <1>1, <1>5, <1>6
  <1> QED BY <1>7 DEF LedgerPage

(* The portal's pages tell one story, on pages of any length.              *)
THEOREM PagesTellOneStory == Spec => []ViewsAgree
  <1>1. PageInv => ViewsAgree
    <2> SUFFICES ASSUME PageInv, NEW u \in Players, NEW n \in PageSizes,
                        NEW w \in Wallets
                 PROVE  LET page == {e \in LedgerPage(u, n) : e.wallet = w} IN
                        /\ \A e \in Newest(page), record \in UserRecord(u, u) :
                              e.after = record[w]
                        /\ \A e \in page, f \in page :
                              f \in Newest({x \in page : x.seq < e.seq})
                                 => e.after = f.after + e.delta
                        /\ \A e \in page : e.bet \in MyPredictions(u) \cup {None}
      BY DEF ViewsAgree
    <2> DEFINE page == {e \in LedgerPage(u, n) : e.wallet = w}
    <2>1. u \in Users
      BY PlacementAssumption
    <2>2. Explains(u, w) /\ \A r \in Requests : PaidOnce(r)
      BY <2>1, MoneyParts DEF PageInv, WalletInv
    <2>3. page \subseteq Rows(u, w) /\ Rows(u, w) \subseteq ledger
      BY DEF LedgerPage, Rows
    <2>4. \A x \in ledger : /\ x.seq \in Nat /\ x.after \in Nat /\ x.delta \in Int
                            /\ x.bet \in Requests \cup {None}
      BY DEF PageInv, WalletInv, TypeInv, TypeOK, Row
    <2>5. ASSUME NEW e \in page, NEW x \in Rows(u, w), e.seq <= x.seq
          PROVE  x \in page
      BY <2>3, <2>5, PageIsUpwardClosed DEF Rows
    <2>6. ASSUME NEW e \in Rows(u, w), NEW x \in Rows(u, w), e.seq = x.seq
          PROVE  e = x
      BY <2>6 DEF Rows, PageInv, OneRowPerSeq
    <2> HIDE DEF page
    <2>7. ASSUME NEW e \in Newest(page)
          PROVE  e.after = balance[u][w]
      <3>1. e \in page /\ e \in Rows(u, w) /\ \A f \in page : f.seq <= e.seq
        BY <2>3 DEF Newest
      <3>2. PICK x \in Rows(u, w) :
               x.after = balance[u][w] /\ \A f \in Rows(u, w) : f.seq <= x.seq
        BY <2>2, <3>1 DEF Explains, LeavesAt
      <3>3. e.seq = x.seq
        BY <2>3, <2>4, <2>5, <3>1, <3>2
      <3> QED BY <2>6, <3>1, <3>2, <3>3
    <2>8. ASSUME NEW e \in page, NEW f \in page,
                 f \in Newest({x \in page : x.seq < e.seq})
          PROVE  e.after = f.after + e.delta
      <3>1. /\ f.seq < e.seq /\ e \in Rows(u, w) /\ f \in Rows(u, w)
            /\ \A x \in page : x.seq < e.seq => x.seq <= f.seq
        BY <2>3, <2>8 DEF Newest
      <3>2. PICK y \in Earlier(u, w, e.seq) :
               /\ y.after = e.after - e.delta
               /\ \A x \in Earlier(u, w, e.seq) : x.seq <= y.seq
        BY <2>2, <3>1 DEF Explains, LeavesAt, Earlier
      <3>3. y \in Rows(u, w) /\ y.seq < e.seq /\ f.seq <= y.seq
        BY <3>1, <3>2 DEF Earlier
      <3>4. y.seq = f.seq
        BY <2>3, <2>4, <2>5, <3>1, <3>3
      <3>5. y = f
        BY <2>6, <3>1, <3>3, <3>4
      <3> QED BY <2>3, <2>4, <3>1, <3>2, <3>5
    <2>9. ASSUME NEW e \in page, e.bet # None
          PROVE  e.bet \in MyPredictions(u)
      <3>1. e.bet \in Requests /\ e \in BetRows(e.bet) /\ e.user = u
        BY <2>3, <2>4, <2>9 DEF BetRows, Rows
      <3>2. bets[e.bet] # NoBet /\ UserOf(e.bet) = u
        BY <2>2, <3>1 DEF PaidOnce
      <3> QED BY <3>1, <3>2 DEF MyPredictions
    <2> USE DEF page
    <2> QED BY <2>7, <2>8, <2>9 DEF UserRecord
  <1> QED BY <1>1, PageInvInvariant, PTL

=============================================================================
