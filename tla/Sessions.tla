------------------------------ MODULE Sessions ------------------------------
(***************************************************************************)
(* Login and sessions: package auth, run by several calls at once against  *)
(* the sessions table that core-service writes too, together with the      *)
(* cookies that browsers hold.                                             *)
(*                                                                         *)
(* Every SQL statement is a step, and so is the arrival of the answer with *)
(* its Set-Cookie.  A token is drawn at random and stored as its hash: the *)
(* session a cookie names stands for both.                                 *)
(***************************************************************************)
EXTENDS Integers

CONSTANTS
    Calls,       \* the calls of /auth routes; a login creates the session
                 \* that bears its name
    Old,         \* the sessions there are at the start
    Owner0,      \* whose they are
    Users, Browsers,
    Portals,     \* the keys of portalIDs
    Base,        \* baseCookieName()
    Headers,     \* the values of X-Portal that calls send
    Jar0,        \* the cookies at the start
    None

Names    == Portals \cup {Base}
Sessions == Calls \cup Old

(* The calls of a behaviour.  A login names no user when its identifier or *)
(* its password is wrong.  "me" stands for every route that only reads.    *)
Login  == [route : {"login"}, browser : Browsers, header : Headers,
           user : Users \cup {None}]
Revoke == [route : {"revoke"}, browser : Browsers, header : Headers,
           id : Sessions]
Other  == [route : {"me", "list", "others", "logout"}, browser : Browsers,
           header : Headers]
Args   == Login \cup Revoke \cup Other

ASSUME SessionsAssumption ==
    /\ Calls \cap Old = {} /\ None \notin Sessions \cup Users
    /\ Owner0 \in [Old -> Users]
    /\ Jar0 \in [Browsers -> [Names -> Old \cup {None}]]
    /\ Base \notin Portals

VARIABLES
    owner,     \* sessions.user_id, None without a row
    ended,     \* the sessions whose revoked_at is set
    expired,   \* those whose expires_at has passed
    active,    \* users.is_active
    jar,       \* the cookies of each browser, by name
    arg,       \* the call, None until it is sent
    pc,        \* the statement it is about to run
    carried,   \* the session that its cookie names
    caller,    \* the User that Middleware attached
    \* history
    unrevoked, \* the logouts whose UPDATE failed
    left       \* for a call that listed or ended sessions, those it showed
               \* or kept, and those inserted since

table   == <<owner, ended, expired, active>>
request == <<arg, carried>>
vars    == <<table, jar, request, pc, caller, unrevoked, left>>

Open  == {"password", "insert", "permissions", "auth", "me", "list", "owner",
          "end", "others", "logout", "reply"}
Final == {"refused", "failed", "done"}

Live(s)    == owner[s] # None /\ s \notin ended \cup expired
LiveOf(u)  == {s \in Sessions : Live(s) /\ owner[s] = u}

(* cookieNameFor.                                                          *)
CookieName(h) == IF h \in Portals THEN h ELSE Base

(* sessionCookieValue: the cookie of the portal's own name, or else the    *)
(* first of any name, in an order that is the browser's.                   *)
Found(b, h) ==
    LET named == jar[b][CookieName(h)]
    IN  IF named # None THEN {named} ELSE {jar[b][n] : n \in Names} \ {None}

Init ==
    /\ owner = [s \in Sessions |-> IF s \in Old THEN Owner0[s] ELSE None]
    /\ ended = {} /\ expired = {}
    /\ active = Users
    /\ jar = Jar0
    /\ arg = [c \in Calls |-> None]
    /\ pc = [c \in Calls |-> "new"]
    /\ carried = [c \in Calls |-> None]
    /\ caller = [c \in Calls |-> None]
    /\ unrevoked = {}
    /\ left = [c \in Calls |-> Sessions]

-----------------------------------------------------------------------------
(* The calls.                                                              *)

Goto(c, l) == pc' = [pc EXCEPT ![c] = l]

(* A browser sends the call with the cookies that it holds by then.        *)
Send(c) ==
    /\ pc[c] = "new"
    /\ \E a \in Args :
          LET found == Found(a.browser, a.header) IN
          /\ arg' = [arg EXCEPT ![c] = a]
          /\ IF found = {} THEN UNCHANGED carried
             ELSE \E s \in found : carried' = [carried EXCEPT ![c] = s]
          /\ Goto(c, IF a.route = "login" THEN "password" ELSE "auth")
    /\ UNCHANGED <<table, jar, caller, unrevoked, left>>

(* Login: SELECT ... FROM users, is_active and the password.               *)
CheckPassword(c) ==
    /\ pc[c] = "password"
    /\ Goto(c, IF arg[c].user \in active THEN "insert" ELSE "refused")
    /\ UNCHANGED <<table, jar, request, caller, unrevoked, left>>

InsertSession(c) ==
    /\ pc[c] = "insert"
    /\ owner' = [owner EXCEPT ![c] = arg[c].user]
    /\ left' = [d \in Calls |-> left[d] \cup {c}]
    /\ Goto(c, "permissions")
    /\ UNCHANGED <<ended, expired, active, jar, request, caller, unrevoked>>

(* permissionsFor changes nothing, but it may fail after the INSERT.       *)
ReadPermissions(c) ==
    /\ pc[c] = "permissions"
    /\ Goto(c, "reply")
    /\ UNCHANGED <<table, jar, request, caller, unrevoked, left>>

(* A route that reads.                                                     *)
Me(c) ==
    /\ pc[c] = "me"
    /\ Goto(c, "reply")
    /\ UNCHANGED <<table, jar, request, caller, unrevoked, left>>

Handler(route) ==
    IF route = "revoke" THEN "owner" ELSE route

(* Middleware: the session must be live and its account active by then.    *)
Authenticate(c) ==
    /\ pc[c] = "auth"
    /\ LET s == carried[c] IN
       IF s # None /\ Live(s) /\ owner[s] \in active
       THEN /\ caller' = [caller EXCEPT ![c] = owner[s]]
            /\ Goto(c, Handler(arg[c].route))
       ELSE Goto(c, "refused") /\ UNCHANGED caller
    /\ UNCHANGED <<table, jar, request, unrevoked, left>>

(* Mutant: the session that asks is left out of the list.                  *)
ListOthers(c) ==
    /\ pc[c] = "list"
    /\ left' = [left EXCEPT ![c] = LiveOf(caller[c]) \ {carried[c]}]
    /\ Goto(c, "reply")
    /\ UNCHANGED <<table, jar, request, caller, unrevoked>>

ListSessions(c) ==
    /\ pc[c] = "list"
    /\ left' = [left EXCEPT ![c] = LiveOf(caller[c])]
    /\ Goto(c, "reply")
    /\ UNCHANGED <<table, jar, request, caller, unrevoked>>

(* Mutant: the owner is not compared.                                      *)
ReadOwnerUnscoped(c) ==
    /\ pc[c] = "owner"
    /\ Goto(c, IF owner[arg[c].id] # None THEN "end" ELSE "refused")
    /\ UNCHANGED <<table, jar, request, caller, unrevoked, left>>

(* RevokeSession: SELECT user_id, then the UPDATE.                         *)
ReadOwner(c) ==
    /\ pc[c] = "owner"
    /\ Goto(c, IF owner[arg[c].id] = caller[c] THEN "end" ELSE "refused")
    /\ UNCHANGED <<table, jar, request, caller, unrevoked, left>>

EndSession(c) ==
    /\ pc[c] = "end"
    /\ ended' = ended \cup {arg[c].id}
    /\ Goto(c, "reply")
    /\ UNCHANGED <<owner, expired, active, jar, request, caller, unrevoked,
                   left>>

(* RevokeOtherSessions.                                                    *)
EndOthers(c) ==
    /\ pc[c] = "others"
    /\ ended' = ended \cup {s \in Sessions : /\ owner[s] = caller[c]
                                             /\ s # carried[c]}
    /\ left' = [left EXCEPT ![c] = {carried[c]}]
    /\ Goto(c, "reply")
    /\ UNCHANGED <<owner, expired, active, jar, request, caller, unrevoked>>

(* Mutant: the cookie is cleared and no session is revoked.                *)
LogoutOnlyClears(c) ==
    /\ pc[c] = "logout"
    /\ Goto(c, "reply")
    /\ UNCHANGED <<table, jar, request, caller, unrevoked, left>>

Logout(c) ==
    /\ pc[c] = "logout"
    /\ ended' = ended \cup {carried[c]}
    /\ Goto(c, "reply")
    /\ UNCHANGED <<owner, expired, active, jar, request, caller, unrevoked,
                   left>>

(* Its UPDATE fails, and nobody is told.                                   *)
LogoutUnrevoked(c) ==
    /\ pc[c] = "logout"
    /\ unrevoked' = unrevoked \cup {c}
    /\ Goto(c, "reply")
    /\ UNCHANGED <<table, jar, request, caller, left>>

(* Mutant: the cookie is given the account's id instead of the token.      *)
CookieLeftOfUser(c) ==
    CASE arg[c].route = "login"  -> arg[c].user
      [] arg[c].route = "logout" -> None
      [] OTHER -> jar[arg[c].browser][CookieName(arg[c].header)]

(* What Set-Cookie leaves in the slot of the call's portal.                *)
CookieLeft(c) ==
    LET slot == jar[arg[c].browser][CookieName(arg[c].header)]
    IN  CASE arg[c].route = "login"  -> c
          [] arg[c].route = "logout" -> None
          [] OTHER                   -> slot

(* The answer reaches the browser.                                         *)
Reply(c) ==
    /\ pc[c] = "reply"
    /\ jar' = [jar EXCEPT ![arg[c].browser][CookieName(arg[c].header)] =
                  CookieLeft(c)]
    /\ Goto(c, "done")
    /\ UNCHANGED <<table, request, caller, unrevoked, left>>

(* A statement fails, the process dies, or the answer is lost.             *)
Fail(c) ==
    /\ pc[c] \in Open
    /\ Goto(c, "failed")
    /\ UNCHANGED <<table, jar, request, caller, unrevoked, left>>

-----------------------------------------------------------------------------
(* Time, and core-service.                                                 *)

calls == <<jar, request, pc, caller, unrevoked, left>>

Expire(s) ==
    /\ owner[s] # None
    /\ expired' = expired \cup {s}
    /\ UNCHANGED <<owner, ended, active, calls>>

(* An account is disabled or enabled again.                                *)
SetActive(u) ==
    /\ active' = IF u \in active THEN active \ {u} ELSE active \cup {u}
    /\ UNCHANGED <<owner, ended, expired, calls>>

CoreEnds(s) ==
    /\ owner[s] # None
    /\ ended' = ended \cup {s}
    /\ UNCHANGED <<owner, expired, active, calls>>

-----------------------------------------------------------------------------
Step(c) ==
    \/ Send(c) \/ CheckPassword(c) \/ InsertSession(c) \/ ReadPermissions(c)
    \/ Authenticate(c) \/ Me(c) \/ ListSessions(c) \/ ReadOwner(c)
    \/ EndSession(c) \/ EndOthers(c) \/ Logout(c) \/ LogoutUnrevoked(c) \/ Reply(c)
    \/ Fail(c)

Next ==
    \/ \E c \in Calls : Step(c)
    \/ \E s \in Sessions : Expire(s) \/ CoreEnds(s)
    \/ \E u \in Users : SetActive(u)

Spec == Init /\ [][Next]_vars

-----------------------------------------------------------------------------
(* PROPERTIES                                                              *)

TypeOK ==
    /\ owner \in [Sessions -> Users \cup {None}]
    /\ ended \subseteq Sessions /\ expired \subseteq Sessions
    /\ active \subseteq Users
    /\ jar \in [Browsers -> [Names -> Sessions \cup {None}]]
    /\ arg \in [Calls -> Args \cup {None}]
    /\ pc \in [Calls -> {"new"} \cup Open \cup Final]
    /\ carried \in [Calls -> Sessions \cup {None}]
    /\ caller \in [Calls -> Users \cup {None}]
    /\ unrevoked \subseteq Calls
    /\ left \in [Calls -> SUBSET Sessions]

(* A call ends sessions of its own account only, even if they are named by *)
(* a guessed id, and "log out everywhere else" never ends the session that *)
(* asks for it, whichever of several cookies that session was found by.    *)
OnlyOwnersEnd ==
    [][\A c \in Calls : pc'[c] # pc[c] =>
          \A s \in ended' \ ended :
              /\ caller[c] # None /\ owner[s] = caller[c]
              /\ arg[c].route = "others" => s # carried[c]]_vars

(* An account's sessions are all within its reach: a session that is live  *)
(* after the account's list was read, or after it logged out everywhere    *)
(* else, was on that list, is the one that was kept, or was inserted       *)
(* later.  A session that no cookie names, since its login failed after    *)
(* the INSERT or its logout failed to revoke it, is no exception.          *)
ListedOrNew ==
    \A c \in Calls, s \in Sessions :
        Live(s) /\ owner[s] = caller[c] => s \in left[c]

(* When a logout takes a cookie out of a browser, the session it named is  *)
(* over, but for two cases: the UPDATE failed unnoticed, or the cookie     *)
(* came with a login that was answered after the logout had been sent.     *)
LogoutEndsWhatItClears ==
    [][\A b \in Browsers, n \in Names :
          jar[b][n] # None /\ jar'[b][n] = None
            => \/ jar[b][n] \in ended
               \/ \E c \in Calls : /\ pc[c] = "reply" /\ pc'[c] = "done"
                                   /\ c \in unrevoked \/ carried[c] # jar[b][n]]_vars

=============================================================================
