--------------------------- MODULE SessionsProofs ----------------------------
(***************************************************************************)
(* Proofs about login and sessions, for any number of calls, accounts,     *)
(* browsers and portals.                                                   *)
(*                                                                         *)
(* What Middleware attached to a call stays true while it runs, because a  *)
(* session never changes hands: the session that the cookie named belongs  *)
(* to the caller (Known), and so does the one it has asked about (Asked).  *)
(***************************************************************************)
EXTENDS Sessions, TLAPS

(* A call runs the statements of its own route.                            *)
Routed(c) ==
    /\ pc[c] # "new" => arg[c] \in Args
    /\ pc[c] \in {"password", "insert", "permissions"} => arg[c].route = "login"
    /\ pc[c] = "insert" => arg[c].user \in Users
    /\ pc[c] = "auth" => arg[c].route # "login"
    /\ pc[c] \in {"owner", "end"} => arg[c].route = "revoke"
    /\ pc[c] \in {"me", "list", "others", "logout"} => arg[c].route = pc[c]

Known(c) ==
    pc[c] \in {"me", "list", "owner", "end", "others", "logout"} =>
        /\ caller[c] # None /\ carried[c] \in Sessions
        /\ owner[carried[c]] = caller[c]

Asked(c) == pc[c] = "end" => owner[arg[c].id] = caller[c]

(* A login has no session before its INSERT.                               *)
Unborn(c) == pc[c] \in {"new", "password", "insert"} => owner[c] = None

(* A logout that is about to answer has revoked, or failed to.             *)
Over(c) ==
    pc[c] = "reply" /\ arg[c].route = "logout"
        => c \in unrevoked \/ carried[c] \in ended

(* Nothing has been listed or ended by a call that is not authenticated.   *)
Whole(c) == pc[c] \in {"new", "auth"} => left[c] = Sessions

CallInv(c) ==
    Routed(c) /\ Known(c) /\ Asked(c) /\ Unborn(c) /\ Over(c) /\ Whole(c)

SessionInv == TypeOK /\ ListedOrNew /\ \A c \in Calls : CallInv(c)

-----------------------------------------------------------------------------
LEMMA ArgFacts ==
    ASSUME NEW a \in Args
    PROVE  /\ a.browser \in Browsers /\ CookieName(a.header) \in Names
           /\ a.route \in {"login", "revoke", "me", "list", "others", "logout"}
           /\ a.route = "login" => a.user \in Users \cup {None}
           /\ a.route = "revoke" => a.id \in Sessions
  BY DEF Args, Login, Revoke, Other, CookieName, Names

LEMMA CallTypes ==
    ASSUME SessionInv, NEW c \in Calls
    PROVE  /\ pc[c] \in {"new"} \cup Open \cup Final
           /\ pc[c] # "new" => arg[c] \in Args
           /\ carried[c] \in Sessions \cup {None}
           /\ caller[c] \in Users \cup {None}
           /\ c \in Sessions /\ None \notin Sessions /\ None \notin Users
  BY SessionsAssumption DEF SessionInv, TypeOK, CallInv, Routed, Sessions

LEMMA InitSessionInv == Init => SessionInv
  <1> SUFFICES ASSUME Init PROVE SessionInv
    OBVIOUS
  <1> USE SessionsAssumption
  <1>1. jar \in [Browsers -> [Names -> Sessions \cup {None}]]
    <2>1. [Names -> Old \cup {None}] \subseteq [Names -> Sessions \cup {None}]
      BY DEF Sessions
    <2> QED BY <2>1 DEF Init
  <1>2. owner \in [Sessions -> Users \cup {None}]
    BY DEF Init, Sessions
  <1>3. TypeOK
    BY <1>1, <1>2 DEF Init, TypeOK
  <1>4. ListedOrNew
    BY DEF Init, ListedOrNew
  <1>5. ASSUME NEW c \in Calls PROVE CallInv(c)
    BY DEF Init, CallInv, Routed, Known, Asked, Unborn, Over, Whole, Sessions
  <1> QED BY <1>3, <1>4, <1>5 DEF SessionInv

-----------------------------------------------------------------------------
(* A call that makes no step of its own knows what it knew: a session does *)
(* not change hands and is not revived.                                    *)
LEMMA CallKept ==
    ASSUME NEW d \in Calls, SessionInv,
           pc'[d] = pc[d], arg'[d] = arg[d], carried'[d] = carried[d],
           caller'[d] = caller[d], owner'[d] = owner[d],
           \A s \in Sessions : owner[s] # None => owner'[s] = owner[s],
           ended \subseteq ended', unrevoked \subseteq unrevoked',
           left[d] \subseteq left'[d], left'[d] \subseteq Sessions
    PROVE  CallInv(d)'
  <1>1. CallInv(d)
    BY DEF SessionInv
  <1>2. Routed(d)' /\ Unborn(d)' /\ Over(d)' /\ Whole(d)'
    BY <1>1 DEF CallInv, Routed, Unborn, Over, Whole
  <1>3. Known(d)'
    BY <1>1 DEF CallInv, Known
  <1>4. Asked(d)'
    <2> SUFFICES ASSUME pc[d] = "end" PROVE Asked(d)'
      BY DEF Asked
    <2>1. arg[d].id \in Sessions
      BY <1>1, ArgFacts DEF CallInv, Routed
    <2> QED BY <1>1, <2>1 DEF CallInv, Known, Asked
  <1> QED BY <1>2, <1>3, <1>4 DEF CallInv

(* A session that was out of reach stays so while nothing is inserted.     *)
LEMMA ReachKept ==
    ASSUME ListedOrNew, UNCHANGED owner, ended \subseteq ended',
           expired \subseteq expired',
           \A c \in Calls : left[c] = Sessions \/ caller'[c] = caller[c],
           \A c \in Calls : left[c] \subseteq left'[c]
    PROVE  ListedOrNew'
  BY DEF ListedOrNew, Live

(* A step of c that touches nothing of the other calls.                    *)
LEMMA StepKept ==
    ASSUME SessionInv, NEW c \in Calls, NEW l \in Open \cup Final, Goto(c, l),
           \A d \in Calls \ {c} :
              arg'[d] = arg[d] /\ carried'[d] = carried[d]
              /\ caller'[d] = caller[d] /\ left'[d] = left[d],
           UNCHANGED owner, ended \subseteq ended', unrevoked \subseteq unrevoked',
           TypeOK', ListedOrNew', pc'[c] = l => CallInv(c)'
    PROVE  SessionInv'
  <1>1. pc'[c] = l /\ \A d \in Calls \ {c} : pc'[d] = pc[d]
    BY DEF Goto, SessionInv, TypeOK
  <1>2. ASSUME NEW d \in Calls \ {c} PROVE CallInv(d)'
    <2>1. left[d] \subseteq Sessions
      BY DEF SessionInv, TypeOK
    <2> QED BY <1>1, <2>1, CallKept
  <1> QED BY <1>1, <1>2 DEF SessionInv

-----------------------------------------------------------------------------
(* Login.                                                                  *)

LEMMA SendInv ==
    ASSUME SessionInv, NEW c \in Calls, Send(c) PROVE SessionInv'
  <1>1. PICK a \in Args :
           /\ arg' = [arg EXCEPT ![c] = a]
           /\ \/ UNCHANGED carried
              \/ \E s \in Found(a.browser, a.header) :
                    carried' = [carried EXCEPT ![c] = s]
           /\ Goto(c, IF a.route = "login" THEN "password" ELSE "auth")
    BY DEF Send
  <1>2. pc[c] = "new" /\ UNCHANGED <<table, jar, caller, unrevoked, left>>
    BY DEF Send
  <1>3. Found(a.browser, a.header) \subseteq Sessions \cup {None}
    <2>1. \A n \in Names : jar[a.browser][n] \in Sessions \cup {None}
      BY ArgFacts DEF SessionInv, TypeOK
    <2> QED BY <2>1, ArgFacts DEF Found
  <1>4. /\ carried' \in [Calls -> Sessions \cup {None}]
        /\ \A d \in Calls \ {c} : carried'[d] = carried[d]
    BY <1>1, <1>3 DEF SessionInv, TypeOK
  <1>5. TypeOK'
    BY <1>1, <1>2, <1>4 DEF SessionInv, TypeOK, table, Goto, Open
  <1>6. ListedOrNew'
    BY <1>2, ReachKept DEF SessionInv, table
  <1>7. PICK l \in {"password", "auth"} :
           Goto(c, l) /\ (l = "password" <=> a.route = "login")
    BY <1>1
  <1>8. pc'[c] = l => CallInv(c)'
    <2>1. CallInv(c) /\ arg'[c] = a
      BY <1>1 DEF SessionInv, TypeOK
    <2> QED BY <1>2, <1>7, <2>1 DEF CallInv, Routed, Known, Asked, Unborn,
            Over, Whole, table
  <1>9. \A d \in Calls \ {c} : arg'[d] = arg[d] /\ carried'[d] = carried[d]
    BY <1>1, <1>4 DEF SessionInv, TypeOK
  <1>10. l \in Open \cup Final
    BY DEF Open
  <1> QED BY <1>2, <1>5, <1>6, <1>7, <1>8, <1>9, <1>10, StepKept DEF table

(* Steps that only move a call on.                                         *)
LEMMA MoveInv ==
    ASSUME SessionInv, NEW c \in Calls, NEW l \in Open \cup Final, Goto(c, l),
           UNCHANGED <<table, jar, request, caller, left>>,
           unrevoked' \in {unrevoked, unrevoked \cup {c}},
           pc'[c] = l => CallInv(c)'
    PROVE  SessionInv'
  <1>1. TypeOK'
    BY DEF SessionInv, TypeOK, table, request, Goto
  <1>2. ListedOrNew'
    BY ReachKept DEF SessionInv, table
  <1> QED BY <1>1, <1>2, StepKept DEF table, request

LEMMA InsertInv ==
    ASSUME SessionInv, NEW c \in Calls, InsertSession(c) PROVE SessionInv'
  <1>1. /\ pc[c] = "insert" /\ Goto(c, "permissions")
        /\ owner' = [owner EXCEPT ![c] = arg[c].user]
        /\ left' = [d \in Calls |-> left[d] \cup {c}]
        /\ UNCHANGED <<ended, expired, active, jar, request, caller, unrevoked>>
    BY DEF InsertSession
  <1>2. CallInv(c) /\ arg[c].user \in Users /\ c \in Sessions /\ owner[c] = None
    BY <1>1, CallTypes DEF SessionInv, CallInv, Routed, Unborn
  <1>3. TypeOK'
    BY <1>1, <1>2 DEF SessionInv, TypeOK, request, Goto, Open
  <1>4. \A s \in Sessions : s # c => owner'[s] = owner[s]
    BY <1>1 DEF SessionInv, TypeOK
  <1>5. ListedOrNew'
    BY <1>1, <1>4 DEF SessionInv, ListedOrNew, Live
  <1>6. CallInv(c)'
    <2>1. pc'[c] = "permissions"
      BY <1>1 DEF Goto, SessionInv, TypeOK
    <2> QED BY <1>1, <1>2, <2>1 DEF CallInv, Routed, Known, Asked, Unborn, Over,
            Whole, request
  <1>7. ASSUME NEW d \in Calls \ {c} PROVE CallInv(d)'
    <2>1. /\ pc'[d] = pc[d] /\ left[d] \subseteq Sessions
          /\ left'[d] = left[d] \cup {c} /\ d \in Sessions
      BY <1>1, CallTypes DEF Goto, SessionInv, TypeOK
    <2> QED BY <1>1, <1>2, <1>4, <2>1, CallKept DEF request
  <1> QED BY <1>3, <1>5, <1>6, <1>7 DEF SessionInv

LEMMA LoginInv ==
    ASSUME SessionInv, NEW c \in Calls,
           CheckPassword(c) \/ ReadPermissions(c) \/ Me(c) \/ ReadOwner(c)
           \/ LogoutUnrevoked(c) \/ Fail(c)
    PROVE  SessionInv'
  <1>1. CallInv(c) /\ active \subseteq Users
    BY DEF SessionInv, TypeOK
  <1>2. /\ UNCHANGED <<table, jar, request, caller, left>>
        /\ unrevoked' \in {unrevoked, unrevoked \cup {c}}
    BY DEF CheckPassword, ReadPermissions, Me, ReadOwner, LogoutUnrevoked, Fail
  <1>3. PICK l \in {"insert", "refused", "reply", "end", "failed"} :
           /\ Goto(c, l)
           /\ l = "insert" => pc[c] = "password" /\ arg[c].user \in active
           /\ l = "end" => pc[c] = "owner" /\ owner[arg[c].id] = caller[c]
           /\ l = "reply" => \/ pc[c] \in {"permissions", "me"}
                             \/ pc[c] = "logout" /\ c \in unrevoked'
           /\ pc[c] # "new"
    BY DEF CheckPassword, ReadPermissions, Me, ReadOwner, LogoutUnrevoked, Fail,
       Open
  <1>4. l \in Open \cup Final
    BY DEF Open, Final
  <1>5. pc'[c] = l => CallInv(c)'
    BY <1>1, <1>2, <1>3 DEF CallInv, Routed, Known, Asked, Unborn, Over, Whole,
       table, request
  <1> QED BY <1>2, <1>3, <1>4, <1>5, MoveInv

-----------------------------------------------------------------------------
(* Sessions.                                                               *)

LEMMA AuthenticateInv ==
    ASSUME SessionInv, NEW c \in Calls, Authenticate(c) PROVE SessionInv'
  <1>1. /\ pc[c] = "auth" /\ CallInv(c)
        /\ UNCHANGED <<table, jar, request, unrevoked, left>>
    BY DEF Authenticate, SessionInv
  <1>2. arg[c] \in Args /\ arg[c].route # "login" /\ left[c] = Sessions
    BY <1>1 DEF CallInv, Routed, Whole
  <1>3. carried[c] \in Sessions \cup {None}
    BY CallTypes
  <1>4. CASE carried[c] # None /\ Live(carried[c]) /\ owner[carried[c]] \in active
    <2>1. /\ caller' = [caller EXCEPT ![c] = owner[carried[c]]]
          /\ Goto(c, Handler(arg[c].route))
      BY <1>4 DEF Authenticate
    <2>2. /\ carried[c] \in Sessions /\ owner[carried[c]] \in Users
          /\ owner[carried[c]] # None
      BY <1>3, <1>4, CallTypes DEF SessionInv, TypeOK
    <2>3. PICK l \in {"me", "list", "owner", "others", "logout"} :
             /\ l = Handler(arg[c].route)
             /\ arg[c].route = IF l = "owner" THEN "revoke" ELSE l
      BY <1>2, ArgFacts DEF Handler
    <2>4. l \in Open \cup Final
      BY DEF Open
    <2>5. TypeOK'
      BY <1>1, <2>1, <2>2, <2>3, <2>4
         DEF SessionInv, TypeOK, table, request, Goto
    <2>6. /\ caller'[c] = owner[carried[c]]
          /\ \A d \in Calls \ {c} : caller'[d] = caller[d]
      BY <2>1 DEF SessionInv, TypeOK
    <2>7. ListedOrNew'
      BY <1>1, <1>2, <2>6, ReachKept DEF SessionInv, table
    <2>8. pc'[c] = l => CallInv(c)'
      BY <1>1, <1>2, <2>2, <2>3, <2>6 DEF CallInv, Routed, Known, Asked,
         Unborn, Over, Whole, table, request
    <2> QED BY <1>1, <2>1, <2>3, <2>4, <2>5, <2>6, <2>7, <2>8, StepKept
            DEF table, request
  <1>5. CASE ~(carried[c] # None /\ Live(carried[c]) /\ owner[carried[c]] \in active)
    <2>1. Goto(c, "refused") /\ UNCHANGED caller
      BY <1>5 DEF Authenticate
    <2>2. pc'[c] = "refused" => CallInv(c)'
      BY <1>1, <1>2, <2>1 DEF CallInv, Routed, Known, Asked, Unborn, Over, Whole,
         table, request
    <2>3. "refused" \in Open \cup Final
      BY DEF Final
    <2> QED BY <1>1, <2>1, <2>2, <2>3, MoveInv
  <1> QED BY <1>4, <1>5

(* Listing sessions, and ending them.                                      *)
LEMMA EndInv ==
    ASSUME SessionInv, NEW c \in Calls,
           ListSessions(c) \/ EndSession(c) \/ EndOthers(c) \/ Logout(c)
    PROVE  SessionInv'
  <1>1. CallInv(c) /\ arg[c] \in Args
    BY CallTypes DEF ListSessions, EndSession, EndOthers, Logout, SessionInv
  <1>2. /\ pc[c] \in {"list", "end", "others", "logout"} /\ Goto(c, "reply")
        /\ UNCHANGED <<owner, expired, active, jar, request, caller, unrevoked>>
    BY DEF ListSessions, EndSession, EndOthers, Logout, table
  <1>3. /\ caller[c] # None /\ carried[c] \in Sessions
        /\ owner[carried[c]] = caller[c]
        /\ pc[c] = "end" => arg[c].id \in Sessions
        /\ arg[c].route = "logout" <=> pc[c] = "logout"
    BY <1>1, <1>2, ArgFacts DEF CallInv, Known, Routed
  <1>4. ended \subseteq ended' /\ ended' \subseteq Sessions
    BY <1>3 DEF ListSessions, EndSession, EndOthers, Logout, table, SessionInv,
       TypeOK
  <1>5. \/ UNCHANGED left
        \/ left' = [left EXCEPT ![c] = LiveOf(caller[c])] /\ UNCHANGED ended
        \/ /\ left' = [left EXCEPT ![c] = {carried[c]}]
           /\ ended' = ended \cup {s \in Sessions : /\ owner[s] = caller[c]
                                                    /\ s # carried[c]}
    BY DEF ListSessions, EndSession, EndOthers, Logout, table
  <1>6. left' \in [Calls -> SUBSET Sessions]
    <2>1. LiveOf(caller[c]) \subseteq Sessions /\ {carried[c]} \subseteq Sessions
      BY <1>3 DEF LiveOf
    <2> QED BY <1>5, <2>1 DEF SessionInv, TypeOK
  <1>7. \A d \in Calls \ {c} : left'[d] = left[d]
    BY <1>5 DEF SessionInv, TypeOK
  <1>8. TypeOK'
    BY <1>2, <1>4, <1>6 DEF SessionInv, TypeOK, request, Goto, Open
  <1>9. ListedOrNew'
    <2> SUFFICES ASSUME NEW d \in Calls, NEW s \in Sessions, Live(s)',
                        owner'[s] = caller'[d]
                 PROVE  s \in left'[d]
      BY DEF ListedOrNew
    <2>1. Live(s) /\ owner[s] = caller[d] /\ s \notin ended'
      BY <1>2, <1>4 DEF Live
    <2>2. CASE d # c
      BY <1>7, <2>1, <2>2 DEF SessionInv, ListedOrNew
    <2>3. CASE d = c
      <3>1. s \in left[c]
        BY <2>1, <2>3 DEF SessionInv, ListedOrNew
      <3> QED BY <1>5, <2>1, <2>3, <3>1 DEF LiveOf, SessionInv, TypeOK
    <2> QED BY <2>2, <2>3
  <1>10. pc'[c] = "reply" => CallInv(c)'
    <2>1. pc[c] = "logout" => carried[c] \in ended'
      BY DEF ListSessions, EndSession, EndOthers, Logout
    <2> QED BY <1>1, <1>2, <1>3, <2>1 DEF CallInv, Routed, Known, Asked, Unborn,
            Over, Whole, request
  <1>11. "reply" \in Open \cup Final
    BY DEF Open
  <1> QED BY <1>2, <1>4, <1>7, <1>8, <1>9, <1>10, <1>11, StepKept DEF request

(* What Reply leaves in the jars.                                          *)
LEMMA ReplyJars ==
    ASSUME SessionInv, NEW c \in Calls, Reply(c)
    PROVE  /\ CookieLeft(c) \in Sessions \cup {None}
           /\ jar' \in [Browsers -> [Names -> Sessions \cup {None}]]
           /\ \A b \in Browsers, n \in Names :
                 jar'[b][n] = IF b = arg[c].browser /\ n = CookieName(arg[c].header)
                              THEN CookieLeft(c) ELSE jar[b][n]
  <1> DEFINE b0 == arg[c].browser
             n0 == CookieName(arg[c].header)
             J  == [Names -> Sessions \cup {None}]
  <1>1. arg[c] \in Args /\ c \in Sessions
    BY CallTypes DEF Reply
  <1>2. b0 \in Browsers /\ n0 \in Names
    BY <1>1, ArgFacts
  <1>3. jar \in [Browsers -> J]
    BY DEF SessionInv, TypeOK
  <1>4. jar[b0] \in J
    BY <1>2, <1>3
  <1>5. CookieLeft(c) \in Sessions \cup {None}
    BY <1>1, <1>2, <1>4 DEF CookieLeft
  <1>6. PICK x \in Sessions \cup {None} : x = CookieLeft(c)
    BY <1>5
  <1>7. PICK row \in J : row = [jar[b0] EXCEPT ![n0] = x]
    BY <1>4
  <1>8. jar' = [jar EXCEPT ![b0] = row]
    BY <1>6, <1>7 DEF Reply
  <1>9. \A n \in Names : row[n] = IF n = n0 THEN x ELSE jar[b0][n]
    BY <1>4, <1>7
  <1>10. jar' \in [Browsers -> J]
    <2> HIDE DEF J, b0
    <2> QED BY <1>3, <1>8
  <1>11. \A b \in Browsers : jar'[b] = IF b = b0 THEN row ELSE jar[b]
    <2> HIDE DEF J, b0
    <2> QED BY <1>3, <1>8
  <1> QED BY <1>5, <1>6, <1>9, <1>10, <1>11

LEMMA ReplyInv ==
    ASSUME SessionInv, NEW c \in Calls, Reply(c) PROVE SessionInv'
  <1>1. /\ pc[c] = "reply" /\ Goto(c, "done")
        /\ UNCHANGED <<table, request, caller, unrevoked, left>>
    BY DEF Reply
  <1>2. TypeOK'
    BY <1>1, ReplyJars DEF SessionInv, TypeOK, table, request, Goto, Final
  <1>3. ListedOrNew'
    BY <1>1, ReachKept DEF SessionInv, table
  <1>4. pc'[c] = "done" => CallInv(c)'
    <2>1. CallInv(c)
      BY DEF SessionInv
    <2> QED BY <1>1, <2>1 DEF CallInv, Routed, Known, Asked, Unborn, Over, Whole,
            table, request
  <1>5. "done" \in Open \cup Final
    BY DEF Final
  <1> QED BY <1>1, <1>2, <1>3, <1>4, <1>5, StepKept DEF table, request

LEMMA OthersInv ==
    ASSUME SessionInv,
           \/ \E s \in Sessions : Expire(s) \/ CoreEnds(s)
           \/ \E u \in Users : SetActive(u)
           \/ UNCHANGED vars
    PROVE  SessionInv'
  <1>1. /\ UNCHANGED <<owner, calls>> /\ ended \subseteq ended'
        /\ expired \subseteq expired'
    BY DEF Expire, CoreEnds, SetActive, vars, table, calls
  <1>2. /\ ended' \subseteq Sessions /\ expired' \subseteq Sessions
        /\ active' \subseteq Users
    BY DEF Expire, CoreEnds, SetActive, vars, table, SessionInv, TypeOK
  <1>3. TypeOK'
    BY <1>1, <1>2 DEF SessionInv, TypeOK, calls, request
  <1>4. ListedOrNew'
    BY <1>1, ReachKept DEF SessionInv, calls
  <1>5. ASSUME NEW c \in Calls PROVE CallInv(c)'
    <2>1. left[c] \subseteq Sessions
      BY DEF SessionInv, TypeOK
    <2> QED BY <1>1, <2>1, CallKept DEF calls, request
  <1> QED BY <1>3, <1>4, <1>5 DEF SessionInv

LEMMA NextSessionInv == ASSUME SessionInv, [Next]_vars PROVE SessionInv'
  BY SendInv, InsertInv, LoginInv, AuthenticateInv, EndInv, ReplyInv, OthersInv
     DEF Next, Step

LEMMA SessionInvariant == Spec => []SessionInv
  BY InitSessionInv, NextSessionInv, PTL DEF Spec

-----------------------------------------------------------------------------
(* Every column, cookie and variable of a call keeps its type.             *)
THEOREM SessionsTypeCorrect == Spec => []TypeOK
  <1>1. SessionInv => TypeOK
    BY DEF SessionInv
  <1> QED BY <1>1, SessionInvariant, PTL

(* Nothing an account owns escapes its list, or its "log out everywhere    *)
(* else", but what logs in later.                                          *)
THEOREM NothingUnlisted == Spec => []ListedOrNew
  <1>1. SessionInv => ListedOrNew
    BY DEF SessionInv
  <1> QED BY <1>1, SessionInvariant, PTL

(* No call ends a session of another account, nor, from "everywhere else", *)
(* the session that it came with.                                          *)
THEOREM OwnersEndTheirOwn == Spec => OnlyOwnersEnd
  <1> DEFINE A == \A c \in Calls : pc'[c] # pc[c] =>
                     \A s \in ended' \ ended :
                        /\ caller[c] # None /\ owner[s] = caller[c]
                        /\ arg[c].route = "others" => s # carried[c]
  <1>1. SessionInv /\ [Next]_vars => A
    <2> SUFFICES ASSUME SessionInv, [Next]_vars, NEW c \in Calls,
                        pc'[c] # pc[c], NEW s \in ended' \ ended
                 PROVE  /\ caller[c] # None /\ owner[s] = caller[c]
                        /\ arg[c].route = "others" => s # carried[c]
      OBVIOUS
    <2>1. CASE \/ \E t \in Sessions : Expire(t) \/ CoreEnds(t)
               \/ \E u \in Users : SetActive(u)
               \/ UNCHANGED vars
      BY <2>1 DEF Expire, CoreEnds, SetActive, vars, calls
    <2>2. ASSUME NEW d \in Calls, Step(d)
          PROVE  /\ caller[c] # None /\ owner[s] = caller[c]
                 /\ arg[c].route = "others" => s # carried[c]
      <3>1. d = c
        <4>1. pc \in [Calls -> {"new"} \cup Open \cup Final]
          BY DEF SessionInv, TypeOK
        <4>2. \E l : Goto(d, l)
          BY <2>2 DEF Step, Send, CheckPassword, InsertSession, ReadPermissions,
             Authenticate, Me, ListSessions, ReadOwner, EndSession, EndOthers,
             Logout, LogoutUnrevoked, Reply, Fail
        <4> QED BY <4>1, <4>2 DEF Goto
      <3>2. EndSession(c) \/ EndOthers(c) \/ Logout(c)
        BY <2>2, <3>1 DEF Step, Send, CheckPassword, InsertSession,
           ReadPermissions, Authenticate, Me, ListSessions, ReadOwner,
           LogoutUnrevoked, Reply, Fail, table
      <3>3. CallInv(c)
        BY DEF SessionInv
      <3> QED BY <3>2, <3>3 DEF EndSession, EndOthers, Logout, CallInv, Known,
              Asked, Routed
    <2> QED BY <2>1, <2>2 DEF Next
  <1> QED BY <1>1, SessionInvariant, PTL DEF Spec, OnlyOwnersEnd

(* A browser that loses its cookie by logging out leaves no live session   *)
(* behind, unless the revocation failed or the cookie was newer.           *)
THEOREM LogoutEnds == Spec => LogoutEndsWhatItClears
  <1> DEFINE A == \A b \in Browsers, n \in Names :
                     jar[b][n] # None /\ jar'[b][n] = None
                       => \/ jar[b][n] \in ended
                          \/ \E c \in Calls : /\ pc[c] = "reply" /\ pc'[c] = "done"
                                              /\ c \in unrevoked \/ carried[c] # jar[b][n]
  <1>1. SessionInv /\ [Next]_vars => A
    <2> SUFFICES ASSUME SessionInv, [Next]_vars, NEW b \in Browsers,
                        NEW n \in Names, jar[b][n] # None, jar'[b][n] = None
                 PROVE  \/ jar[b][n] \in ended
                        \/ \E c \in Calls : /\ pc[c] = "reply" /\ pc'[c] = "done"
                                            /\ c \in unrevoked \/ carried[c] # jar[b][n]
      OBVIOUS
    <2>1. PICK c \in Calls : Reply(c)
      BY DEF Next, Step, Send, CheckPassword, InsertSession, ReadPermissions,
         Authenticate, Me, ListSessions, ReadOwner, EndSession, EndOthers,
         Logout, LogoutUnrevoked, Fail, Expire, SetActive, CoreEnds, calls, vars
    <2>2. /\ b = arg[c].browser /\ n = CookieName(arg[c].header)
          /\ CookieLeft(c) = None
      BY <2>1, ReplyJars
    <2>3. arg[c].route = "logout"
      BY <2>2, CallTypes DEF CookieLeft
    <2>4. pc[c] = "reply" /\ pc'[c] = "done"
      BY <2>1 DEF Reply, Goto, SessionInv, TypeOK
    <2>5. c \in unrevoked \/ carried[c] \in ended
      BY <2>3, <2>4 DEF SessionInv, CallInv, Over
    <2> QED BY <2>4, <2>5
  <1> QED BY <1>1, SessionInvariant, PTL DEF Spec, LogoutEndsWhatItClears

=============================================================================
