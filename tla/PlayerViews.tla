----------------------------- MODULE PlayerViews -----------------------------
(***************************************************************************)
(* What the Player portal is shown while bets are placed: the lists of     *)
(* games, rates, ledger rows and bets, and the Player's own record.  The   *)
(* ledger, the bets and the record are one SELECT each.  The games and the *)
(* rates are up to two queries, the first of which reads what no behaviour *)
(* changes (the Agent's created_by_id, the PLAYING rates): every answer is *)
(* a function of the state of the database at the last query of its route. *)
(***************************************************************************)
EXTENDS Placement

CONSTANT PageSizes   \* the limits that GET /ledger is called with

ASSUME PlayerViewsAssumption == PageSizes \subseteq Nat

-----------------------------------------------------------------------------
(* The routes.                                                             *)

(* game.ActiveGamesForPlayer, once the Admin is known.                     *)
ActiveGames(admin) ==
    {g \in Games : /\ disabled[g][admin] = Never
                   /\ exists[g]
                   /\ inactive[g] = Never}

(* GET /games/active: the status of the answer and the games in it.  A     *)
(* Player without an agent gets an empty list; an agent whose Admin cannot *)
(* be resolved is an error.                                                *)
GamesShown(u) ==
    LET admin == AdminOf[AgentOf[u]]
    IN  IF u \notin Players THEN [code |-> 403, games |-> {}]
        ELSE IF AgentOf[u] = None THEN [code |-> 200, games |-> {}]
        ELSE IF admin = None THEN [code |-> 500, games |-> {}]
        ELSE [code |-> 200, games |-> ActiveGames(admin)]

(* Mutant: the list shows the instant itself.                              *)
InstantShown(g, t) == IF t \in CloseTypes THEN ClosesAt[g] ELSE OpensAt[g]

(* The cutoff it gives for a type of a game.                               *)
CutoffShown(g, t) ==
    (IF CutoffGroup(t) = "close" THEN ClosesAt[g] ELSE OpensAt[g]) - Buffer

(* Mutant: the Agent's card, whatever the Player's own is.                 *)
AgentCard(u) ==
    LET agents == {f \in Families : giving[AgentOf[u]][f] # NoRate}
    IN  IF u \notin Players \/ AgentOf[u] = None THEN << >>
        ELSE [f \in agents |-> giving[AgentOf[u]][f]]

(* GET /rates/me: the Player's own card or, by a second SELECT if that is  *)
(* empty, its Agent's.                                                     *)
MyRates(u) ==
    LET own    == {f \in Families : Playing[u][f] # NoRate}
        agents == {f \in Families : giving[AgentOf[u]][f] # NoRate}
    IN  IF u \notin Players \/ AgentOf[u] = None THEN << >>
        ELSE IF own # {} THEN [f \in own |-> Playing[u][f]]
        ELSE [f \in agents |-> giving[AgentOf[u]][f]]

(* Mutant: the page starts at the other end.                               *)
OldestPage(u, n) ==
    {e \in ledger : /\ e.user = u
                    /\ Cardinality({f \in ledger : f.user = u
                                                   /\ f.seq < e.seq}) < n}

(* GET /ledger: the n newest rows, newest by seq.                          *)
LedgerPage(u, n) ==
    {e \in ledger : /\ e.user = u
                    /\ Cardinality({f \in ledger : f.user = u
                                                   /\ f.seq > e.seq}) < n}

(* GET /predictions/me: all of the Player's bets.                          *)
MyPredictions(u) == {r \in Requests : UserOf(r) = u /\ bets[r] # NoBet}

(* GET /users/{id}: the caller's own wallets, and nobody else's.           *)
UserRecord(caller, id) == IF id = caller THEN {balance[id]} ELSE {}

-----------------------------------------------------------------------------
(* PROPERTIES                                                              *)

(* The portal lets the Player send r: its game is listed, with limits that *)
(* the stake keeps, a cutoff to come and no result for its side.           *)
Offered(r, now) ==
    LET g == GameOf(r) IN
    /\ g \in GamesShown(UserOf(r)).games
    /\ MinStake[g] <= StakeOf(r) /\ StakeOf(r) <= MaxStake[g]
    /\ published[g][CutoffGroup(TypeOf(r))] = Never
    /\ now <= CutoffShown(g, TypeOf(r))

(* The list of games and the lookup of a placement are two queries with    *)
(* their own joins, and the cutoff is computed twice.  They agree: a bet   *)
(* goes on only if the list offers it at that instant, and one that the    *)
(* list offers is only refused because its round is cancelled, which the   *)
(* list does not show.                                                     *)
OfferedBetsGoOn ==
    [][\A r \in Requests : pc[r] = "lookup" =>
          LET skewed == (clock - Skew)..(clock + Skew) IN
          /\ pc'[r] = "playing" => \E now \in skewed : Offered(r, now)
          /\ pc'[r] = "rejected" => \/ cancelled[GameOf(r)] # Never
                                    \/ \E now \in skewed : ~Offered(r, now)]_vars

(* A bet is never priced but at the multiplier its family has on the card, *)
(* if the card has it, and such a bet is refused only for its payout.      *)
(* A bet of a family that is not on the card may still be taken, when the  *)
(* card is the Player's own and its Agent prices that family.              *)
CardIsHonest ==
    [][\A r \in Requests :
          LET card == MyRates(UserOf(r))
              f    == FamilyOf(r)
          IN  f \in DOMAIN card =>
                /\ odds'[r] # odds[r] => odds'[r] = card[f]
                /\ pc[r] \in {"playing", "giving"} /\ pc'[r] = "rejected"
                      => StakeOf(r) * card[f] > MaxPayout]_vars

(* A page of the ledger that is read again has only gained rows at its     *)
(* top: seq is drawn while a transaction runs, yet a row never shows up    *)
(* under one that was there before it.                                     *)
PagesGrowAtTheTop ==
    [][\A u \in Users, n \in PageSizes :
          \A e \in (LedgerPage(u, n))' \ LedgerPage(u, n), f \in LedgerPage(u, n) :
              e.seq > f.seq]_vars

Newest(S) == {e \in S : \A f \in S : f.seq <= e.seq}

(* The portal's pages tell one story: on a page of any length, the newest  *)
(* row of a wallet leaves what the Player's record shows, each row starts  *)
(* where the row under it ended, and a row that names a bet names one of   *)
(* the Player's list of bets.                                              *)
ViewsAgree ==
    \A u \in Players, n \in PageSizes, w \in Wallets :
        LET page == {e \in LedgerPage(u, n) : e.wallet = w} IN
        /\ \A e \in Newest(page), record \in UserRecord(u, u) :
              e.after = record[w]
        /\ \A e \in page, f \in page :
              f \in Newest({x \in page : x.seq < e.seq})
                 => e.after = f.after + e.delta
        /\ \A e \in page : e.bet \in MyPredictions(u) \cup {None}

=============================================================================
