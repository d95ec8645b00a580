---------------------------- MODULE TokenRequests ----------------------------
(***************************************************************************)
(* The requests a Player raises for tokens: POST /token-requests, and the  *)
(* cancel route, run by several calls at once against the row locks of one *)
(* table, while core-service approves and rejects the same rows.           *)
(*                                                                         *)
(* A create call runs three statements outside any transaction, so each is *)
(* a step; cancel is one conditional UPDATE and the SELECT of its answer.  *)
(***************************************************************************)
EXTENDS Integers, FiniteSets

CONSTANTS
    Creates, Cancels,    \* the calls of each route
    Users, Players,
    HasAgent,            \* the Players whose agent_id is set
    Amounts,             \* the amounts that calls name
    MaxGrant,            \* maxGrant
    Opening,             \* what each account holds at the start
    MaxHeld              \* bound on what an account is brought to hold

Kinds    == {"TOP_UP", "SURRENDER"}
Statuses == {"PENDING", "CANCELLED", "APPROVED", "REJECTED"}
Absent   == "ABSENT"                   \* no such row in token_requests

(* A kind outside Kinds stands for every body that validation refuses.     *)
CreateArgs == [user : Users, kind : Kinds \cup {"OTHER"}, amount : Amounts]
CancelArgs == [user : Users, id : Creates]

ASSUME TokenRequestsAssumption ==
    /\ Players \subseteq Users /\ HasAgent \subseteq Players
    /\ Creates \cap Cancels = {}
    /\ Amounts \subseteq Int /\ MaxGrant \in Nat
    /\ Opening \in [Users -> Nat] /\ MaxHeld \in Nat

VARIABLES
    held,      \* users.balance + users.winnings_balance
    status,    \* token_requests.status, by the call that created the row
    moved,     \* the delta of the row's ledger_entry_id, 0 when it has none
    arg,       \* the body or path of a call
    pc,        \* the statement it is about to run
    answer,    \* the status field of its 2xx response
    since      \* history: the rows created since a create call counted

vars == <<held, status, moved, arg, pc, answer, since>>

Calls == Creates \cup Cancels
Open  == {"count", "insert", "load"}
Final == {"answered", "refused", "failed"}

Init ==
    /\ held = Opening
    /\ status = [c \in Creates |-> Absent]
    /\ moved = [c \in Creates |-> 0]
    /\ arg \in {f \in [Calls -> CreateArgs \cup CancelArgs] :
                   /\ \A c \in Creates : f[c] \in CreateArgs
                   /\ \A c \in Cancels : f[c] \in CancelArgs}
    /\ pc = [c \in Calls |-> "new"]
    /\ answer = [c \in Calls |-> Absent]
    /\ since = [c \in Creates |-> {}]

Goto(c, l) == pc' = [pc EXCEPT ![c] = l]

SameKind(c, d) == arg[c].user = arg[d].user /\ arg[c].kind = arg[d].kind

(* Validation, then the SELECT of the account: the surrender check reads   *)
(* both wallets and holds neither.                                         *)
Acceptable(c) ==
    LET q == arg[c] IN
    /\ q.user \in Players
    /\ q.kind \in Kinds
    /\ 1 <= q.amount /\ q.amount <= MaxGrant
    /\ q.user \in HasAgent
    /\ q.kind = "SURRENDER" => q.amount <= held[q.user]

ReadAccount(c) ==
    /\ pc[c] = "new"
    /\ Goto(c, IF Acceptable(c) THEN "count" ELSE "refused")
    /\ UNCHANGED <<held, status, moved, arg, answer, since>>

(* SELECT count( * ) of the caller's PENDING rows of the kind.             *)
Pending(c) == {d \in Creates : SameKind(c, d) /\ status[d] = "PENDING"}

(* Mutant: the count is not looked at.                                     *)
CountIgnored(c) ==
    /\ pc[c] = "count"
    /\ Goto(c, "insert")
    /\ UNCHANGED <<held, status, moved, arg, answer, since>>

CountOpen(c) ==
    /\ pc[c] = "count"
    /\ Goto(c, IF Pending(c) = {} THEN "insert" ELSE "refused")
    /\ UNCHANGED <<held, status, moved, arg, answer, since>>

InsertRequest(c) ==
    /\ pc[c] = "insert"
    /\ status' = [status EXCEPT ![c] = "PENDING"]
    /\ since' = [d \in Creates |-> IF pc[d] = "insert" /\ d # c
                                   THEN since[d] \cup {c} ELSE since[d]]
    /\ Goto(c, "load")
    /\ UNCHANGED <<held, moved, arg, answer>>

(* Mutant: the row is scanned with two columns swapped.                    *)
LoadSwapped(c) ==
    /\ pc[c] = "load" /\ c \in Creates
    /\ answer' = [answer EXCEPT ![c] = arg[c].kind]
    /\ Goto(c, "answered")
    /\ UNCHANGED <<held, status, moved, arg, since>>

(* loadTokenRequest: the row as it is by now, which may be resolved.       *)
LoadCreated(c) ==
    /\ pc[c] = "load" /\ c \in Creates
    /\ answer' = [answer EXCEPT ![c] = status[c]]
    /\ Goto(c, "answered")
    /\ UNCHANGED <<held, status, moved, arg, since>>

(* Mutant: the UPDATE asks only whose row it is, not that it is PENDING.   *)
CancelAnyStatus(c) ==
    LET q == arg[c] IN
    /\ pc[c] = "new"
    /\ IF /\ q.user \in Players /\ status[q.id] # Absent
          /\ arg[q.id].user = q.user
       THEN /\ status' = [status EXCEPT ![q.id] = "CANCELLED"]
            /\ Goto(c, "load")
       ELSE Goto(c, "refused") /\ UNCHANGED status
    /\ UNCHANGED <<held, moved, arg, answer, since>>

(* UPDATE ... WHERE id AND requester_id AND status = PENDING.              *)
CancelRequest(c) ==
    LET q == arg[c] IN
    /\ pc[c] = "new"
    /\ IF /\ q.user \in Players
          /\ arg[q.id].user = q.user
          /\ status[q.id] = "PENDING"
       THEN /\ status' = [status EXCEPT ![q.id] = "CANCELLED"]
            /\ Goto(c, "load")
       ELSE Goto(c, "refused") /\ UNCHANGED status
    /\ UNCHANGED <<held, moved, arg, answer, since>>

LoadCancelled(c) ==
    /\ pc[c] = "load"
    /\ answer' = [answer EXCEPT ![c] = status[arg[c].id]]
    /\ Goto(c, "answered")
    /\ UNCHANGED <<held, status, moved, arg, since>>

(* A statement fails, the deadline passes or the process dies; what the    *)
(* call has already written stays.                                         *)
Fail(c) ==
    /\ pc[c] \in {"new"} \cup Open
    /\ Goto(c, "failed")
    /\ UNCHANGED <<held, status, moved, arg, answer, since>>

(* The INSERT is carried out, but the call does not learn of it.           *)
InsertUnacknowledged(c) ==
    /\ pc[c] = "insert"
    /\ status' = [status EXCEPT ![c] = "PENDING"]
    /\ since' = [d \in Creates |-> IF pc[d] = "insert" /\ d # c
                                   THEN since[d] \cup {c} ELSE since[d]]
    /\ Goto(c, "failed")
    /\ UNCHANGED <<held, moved, arg, answer>>

(* GET /token-requests/me: the rows of user u, with their status.          *)
MyTokenRequests(u) ==
    [c \in {d \in Creates : arg[d].user = u /\ status[d] # Absent} |-> status[c]]

-----------------------------------------------------------------------------
(* core-service: approve moves the tokens and the status in one            *)
(* transaction, on the same condition that cancel uses.                    *)
Delta(c) == IF arg[c].kind = "TOP_UP" THEN arg[c].amount ELSE -arg[c].amount

Approve(c) ==
    LET u == arg[c].user IN
    /\ status[c] = "PENDING"
    /\ held[u] + Delta(c) \in 0..MaxHeld
    /\ held' = [held EXCEPT ![u] = @ + Delta(c)]
    /\ moved' = [moved EXCEPT ![c] = Delta(c)]
    /\ status' = [status EXCEPT ![c] = "APPROVED"]
    /\ UNCHANGED <<arg, pc, answer, since>>

RejectRequest(c) ==
    /\ status[c] = "PENDING"
    /\ status' = [status EXCEPT ![c] = "REJECTED"]
    /\ UNCHANGED <<held, moved, arg, pc, answer, since>>

(* Bets and payouts move the same wallets.                                 *)
Spend(u) ==
    /\ held[u] > 0
    /\ held' = [held EXCEPT ![u] = @ - 1]
    /\ UNCHANGED <<status, moved, arg, pc, answer, since>>

Done == (\A c \in Calls : pc[c] \in Final) /\ UNCHANGED vars

Next ==
    \/ \E c \in Creates : \/ ReadAccount(c) \/ CountOpen(c) \/ InsertRequest(c)
                          \/ InsertUnacknowledged(c) \/ LoadCreated(c)
    \/ \E c \in Cancels : CancelRequest(c) \/ LoadCancelled(c)
    \/ \E c \in Calls : Fail(c)
    \/ \E c \in Creates : Approve(c) \/ RejectRequest(c)
    \/ \E u \in Users : Spend(u)
    \/ Done

Spec == Init /\ [][Next]_vars

-----------------------------------------------------------------------------
(* PROPERTIES                                                              *)

TypeOK ==
    /\ held \in [Users -> Nat]
    /\ status \in [Creates -> Statuses \cup {Absent}]
    /\ moved \in [Creates -> Int]
    /\ \A c \in Creates : arg[c] \in CreateArgs
    /\ \A c \in Cancels : arg[c] \in CancelArgs
    /\ pc \in [Calls -> {"new"} \cup Open \cup Final]
    /\ answer \in [Calls -> Statuses \cup {Absent}]
    /\ since \in [Creates -> SUBSET Creates]

(* CreateTokenRequest keeps "one open request per kind at a time".         *)
OneOpenRequestPerKind ==
    \A c \in Creates : Cardinality(Pending(c)) <= 1

(* The count and the insert are not atomic, but that is the only way to a  *)
(* second open request of a kind on a Player's list: of any two, one was   *)
(* inserted after the other call had counted.  A retry of a call whose     *)
(* answer was lost, sent once that call has ended, finds the row and adds  *)
(* none.                                                                   *)
DuplicatesOnlyByRace ==
    \A u \in Users :
        LET list == MyTokenRequests(u) IN
        \A c, d \in DOMAIN list :
            c # d /\ arg[c].kind = arg[d].kind
              /\ list[c] = "PENDING" /\ list[d] = "PENDING"
                => c \in since[d] \/ d \in since[c]

(* Cancel and approve race on the same row and one of them wins for good:  *)
(* a row that is no longer PENDING never changes again.                    *)
ResolvedOnce ==
    [][\A c \in Creates :
          status[c] \notin {Absent, "PENDING"} => status'[c] = status[c]]_vars

(* Tokens move for a request if and only if it stays APPROVED; a request   *)
(* that a Player was told is cancelled stays so on its list and never      *)
(* moves any.                                                              *)
TokensFollowApproval ==
    /\ \A c \in Creates : moved[c] # 0 <=> status[c] = "APPROVED"
    /\ \A c \in Cancels : pc[c] = "answered" =>
          LET list == MyTokenRequests(arg[c].user)
              id   == arg[c].id
          IN  /\ answer[c] = "CANCELLED" /\ moved[id] = 0
              /\ id \in DOMAIN list /\ list[id] = "CANCELLED"

=============================================================================
