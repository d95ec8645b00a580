------------------------- MODULE TokenRequestsProofs -------------------------
(***************************************************************************)
(* Proofs about token requests, for any number of calls and Players.       *)
(*                                                                         *)
(* The inductive invariant says what a create call still knows when it     *)
(* inserts: its row does not exist, its amount was vetted, and any other   *)
(* open row of its kind came after it counted (Fresh).                     *)
(***************************************************************************)
EXTENDS TokenRequests, TLAPS

Unwritten(c) == pc[c] \in {"new", "count", "insert"} => status[c] = Absent

Vetted(c) ==
    pc[c] \in {"count", "insert"} \/ status[c] # Absent => arg[c].amount >= 1

Fresh(c) ==
    pc[c] = "insert" =>
        \A d \in Creates \ {c} :
            SameKind(d, c) /\ status[d] = "PENDING" => d \in since[c]

Raced(c, d) ==
    c # d /\ SameKind(c, d) /\ status[c] = "PENDING" /\ status[d] = "PENDING"
        => c \in since[d] \/ d \in since[c]

Paid(c) == moved[c] # 0 <=> status[c] = "APPROVED"

(* What a cancel call that has written goes by.                            *)
Withdrawn(c) ==
    LET id == arg[c].id IN
    /\ pc[c] \in {"load", "answered"} =>
          status[id] = "CANCELLED" /\ arg[id].user = arg[c].user
    /\ pc[c] = "answered" => answer[c] = "CANCELLED"

RowInv(c) == Unwritten(c) /\ Vetted(c) /\ Fresh(c) /\ Paid(c)

TokenInv ==
    /\ TypeOK
    /\ \A c \in Creates : RowInv(c)
    /\ \A c, d \in Creates : Raced(c, d)
    /\ \A c \in Cancels : Withdrawn(c)

-----------------------------------------------------------------------------
LEMMA InitTokenInv == Init => TokenInv
  <1> SUFFICES ASSUME Init PROVE TokenInv
    OBVIOUS
  <1>1. TypeOK
    <2>1. arg \in [Calls -> CreateArgs \cup CancelArgs]
      BY DEF Init
    <2>2. \A c \in Creates : arg[c] \in CreateArgs
      BY DEF Init
    <2>3. \A c \in Cancels : arg[c] \in CancelArgs
      BY DEF Init
    <2> QED BY <2>2, <2>3, TokenRequestsAssumption DEF Init, TypeOK, Absent
  <1>2. ASSUME NEW c \in Creates PROVE RowInv(c)
    BY DEF Init, RowInv, Unwritten, Vetted, Fresh, Paid, Calls, Absent
  <1>3. ASSUME NEW c \in Creates, NEW d \in Creates PROVE Raced(c, d)
    BY DEF Init, Raced, Absent
  <1>4. ASSUME NEW c \in Cancels PROVE Withdrawn(c)
    BY DEF Init, Withdrawn, Calls
  <1> QED BY <1>1, <1>2, <1>3, <1>4 DEF TokenInv

(* The types of the call's body and of the row it names.                   *)
LEMMA ArgTypes ==
    ASSUME TypeOK
    PROVE  /\ \A c \in Creates : arg[c].user \in Users /\ arg[c].amount \in Int
           /\ \A c \in Cancels : arg[c].user \in Users /\ arg[c].id \in Creates
  BY TokenRequestsAssumption DEF TypeOK, CreateArgs, CancelArgs

LEMMA NextTypeOK == ASSUME TypeOK, [Next]_vars PROVE TypeOK'
  <1> USE DEF TypeOK, Calls, Open, Final, Goto, Statuses, Absent
  <1>1. ASSUME NEW c \in Creates,
               ReadAccount(c) \/ CountOpen(c) \/ LoadCreated(c)
        PROVE  TypeOK'
    BY <1>1 DEF ReadAccount, CountOpen, LoadCreated
  <1>2. ASSUME NEW c \in Creates, InsertRequest(c) \/ InsertUnacknowledged(c)
        PROVE  TypeOK'
    <2>1. since' \in [Creates -> SUBSET Creates]
      BY <1>2 DEF InsertRequest, InsertUnacknowledged
    <2> QED BY <1>2, <2>1 DEF InsertRequest, InsertUnacknowledged
  <1>3. ASSUME NEW c \in Cancels, CancelRequest(c) \/ LoadCancelled(c)
        PROVE  TypeOK'
    BY <1>3, ArgTypes DEF CancelRequest, LoadCancelled
  <1>4. ASSUME NEW c \in Calls, Fail(c) PROVE TypeOK'
    BY <1>4 DEF Fail
  <1>5. ASSUME NEW c \in Creates, Approve(c) PROVE TypeOK'
    <2>1. Delta(c) \in Int
      BY ArgTypes DEF Delta
    <2>2. held[arg[c].user] + Delta(c) \in Nat
      BY <1>5, TokenRequestsAssumption DEF Approve
    <2> QED BY <1>5, <2>1, <2>2 DEF Approve
  <1>6. ASSUME NEW c \in Creates, RejectRequest(c) PROVE TypeOK'
    BY <1>6 DEF RejectRequest
  <1>7. ASSUME NEW u \in Users, Spend(u) PROVE TypeOK'
    BY <1>7 DEF Spend
  <1>8. CASE UNCHANGED vars
    BY <1>8 DEF vars
  <1> QED BY <1>1, <1>2, <1>3, <1>4, <1>5, <1>6, <1>7, <1>8 DEF Next, Done

-----------------------------------------------------------------------------
(* A step that writes no row: a call moves on, or none does.               *)
LEMMA NoRowWritten ==
    ASSUME TokenInv, TypeOK', UNCHANGED <<status, moved, arg, since>>,
           \A c \in Creates :
              \/ pc'[c] = pc[c]
              \/ pc'[c] \notin {"new", "count", "insert"}
              \/ pc'[c] = "count" /\ Unwritten(c) /\ status[c] = Absent
                    /\ arg[c].amount >= 1
              \/ pc'[c] = "insert" /\ pc[c] = "count" /\ Pending(c) = {},
           \A c \in Cancels :
              \/ pc'[c] = pc[c] /\ answer'[c] = answer[c]
              \/ pc'[c] = "failed"
              \/ pc[c] = "load" /\ answer'[c] = status[arg[c].id]
    PROVE  TokenInv'
  <1>1. ASSUME NEW c \in Creates PROVE RowInv(c)'
    <2>1. RowInv(c)
      BY DEF TokenInv
    <2>2. Unwritten(c)' /\ Vetted(c)' /\ Paid(c)'
      BY <2>1 DEF RowInv, Unwritten, Vetted, Paid
    <2>3. Fresh(c)'
      BY <2>1 DEF RowInv, Fresh, SameKind, Pending
    <2> QED BY <2>2, <2>3 DEF RowInv
  <1>2. ASSUME NEW c \in Creates, NEW d \in Creates PROVE Raced(c, d)'
    BY DEF TokenInv, Raced, SameKind
  <1>3. ASSUME NEW c \in Cancels PROVE Withdrawn(c)'
    BY DEF TokenInv, Withdrawn
  <1> QED BY <1>1, <1>2, <1>3 DEF TokenInv

LEMMA ReadsTokenInv ==
    ASSUME TokenInv, TypeOK', NEW c \in Creates,
           ReadAccount(c) \/ CountOpen(c) \/ LoadCreated(c)
    PROVE  TokenInv'
  <1>1. UNCHANGED <<status, moved, arg, since>>
    BY DEF ReadAccount, CountOpen, LoadCreated
  <1>2. \A d \in Calls \ {c} : pc'[d] = pc[d] /\ answer'[d] = answer[d]
    BY DEF ReadAccount, CountOpen, LoadCreated, Goto, TokenInv, TypeOK
  <1>3. \A d \in Cancels : pc'[d] = pc[d] /\ answer'[d] = answer[d]
    BY <1>2, TokenRequestsAssumption DEF Calls
  <1>4. \/ pc'[c] \notin {"new", "count", "insert"}
        \/ pc'[c] = "count" /\ Unwritten(c) /\ status[c] = Absent
              /\ arg[c].amount >= 1
        \/ pc'[c] = "insert" /\ pc[c] = "count" /\ Pending(c) = {}
    <2>1. RowInv(c) /\ c \in Calls /\ pc \in [Calls -> {"new"} \cup Open \cup Final]
      BY DEF TokenInv, TypeOK, Calls
    <2>2. CASE ReadAccount(c)
      <3>1. pc[c] = "new" /\ status[c] = Absent
        BY <2>1, <2>2 DEF ReadAccount, RowInv, Unwritten
      <3>2. CASE Acceptable(c)
        <4>1. arg[c].amount >= 1
          <5>1. 1 <= arg[c].amount /\ arg[c].amount \in Int
            BY <3>2, ArgTypes DEF Acceptable, TokenInv
          <5> QED BY <5>1
        <4> QED BY <2>1, <2>2, <3>1, <3>2, <4>1 DEF ReadAccount, Goto, RowInv
      <3>3. CASE ~Acceptable(c)
        BY <2>1, <2>2, <3>3 DEF ReadAccount, Goto
      <3> QED BY <3>2, <3>3
    <2>3. CASE CountOpen(c)
      BY <2>1, <2>3 DEF CountOpen, Goto
    <2>4. CASE LoadCreated(c)
      BY <2>1, <2>4 DEF LoadCreated, Goto
    <2> QED BY <2>2, <2>3, <2>4
  <1>5. \A d \in Creates : d = c \/ pc'[d] = pc[d]
    BY <1>2 DEF Calls
  <1> QED BY <1>1, <1>3, <1>4, <1>5, NoRowWritten

(* The INSERT, acknowledged or not: every other call that is about to      *)
(* insert has now been overtaken by this row.                              *)
LEMMA InsertTokenInv ==
    ASSUME TokenInv, TypeOK', NEW c \in Creates,
           InsertRequest(c) \/ InsertUnacknowledged(c)
    PROVE  TokenInv'
  <1>1. /\ pc[c] = "insert" /\ pc'[c] \in {"load", "failed"}
        /\ \A d \in Calls \ {c} : pc'[d] = pc[d]
        /\ status'[c] = "PENDING"
        /\ \A d \in Creates \ {c} : status'[d] = status[d]
        /\ \A d \in Creates : since'[d] = IF pc[d] = "insert" /\ d # c
                                          THEN since[d] \cup {c} ELSE since[d]
        /\ UNCHANGED <<moved, arg, answer>>
    BY DEF InsertRequest, InsertUnacknowledged, Goto, TokenInv, TypeOK, Calls
  <1>2. RowInv(c) /\ status[c] = Absent /\ arg[c].amount >= 1
    BY <1>1 DEF TokenInv, RowInv, Unwritten, Vetted
  <1>3. ASSUME NEW d \in Creates PROVE RowInv(d)'
    <2>1. RowInv(d)
      BY DEF TokenInv
    <2>2. Unwritten(d)' /\ Vetted(d)' /\ Paid(d)'
      BY <1>1, <1>2, <2>1
         DEF RowInv, Unwritten, Vetted, Paid, Absent, Calls
    <2>3. Fresh(d)'
      BY <1>1, <2>1 DEF RowInv, Fresh, SameKind, Calls
    <2> QED BY <2>2, <2>3 DEF RowInv
  <1>4. ASSUME NEW d \in Creates, NEW e \in Creates PROVE Raced(d, e)'
    <2>1. Raced(d, e) /\ Fresh(c)
      BY <1>2 DEF TokenInv, RowInv
    <2> QED BY <1>1, <2>1 DEF Raced, Fresh, SameKind
  <1>5. ASSUME NEW d \in Cancels PROVE Withdrawn(d)'
    <2>1. d \in Calls \ {c} /\ arg[d].id \in Creates /\ Withdrawn(d)
      BY ArgTypes, TokenRequestsAssumption DEF Calls, TokenInv
    <2> QED BY <1>1, <1>2, <2>1 DEF Withdrawn, Absent
  <1> QED BY <1>3, <1>4, <1>5 DEF TokenInv

Settled == {"CANCELLED", "APPROVED", "REJECTED"}

(* Resolving an open row, by its Player or by core-service.                *)
LEMMA ResolveTokenInv ==
    ASSUME TokenInv, TypeOK', NEW c \in Creates, status[c] = "PENDING",
           NEW s \in Settled, status'[c] = s,
           \A d \in Creates \ {c} : status'[d] = status[d],
           UNCHANGED <<arg, since, answer>>,
           \A d \in Creates : pc'[d] = pc[d],
           \A d \in Creates \ {c} : moved'[d] = moved[d],
           moved'[c] # 0 <=> s = "APPROVED",
           \A d \in Cancels : \/ pc'[d] = pc[d]
                              \/ pc'[d] = "refused"
                              \/ /\ pc'[d] = "load" /\ s = "CANCELLED"
                                 /\ arg[d].id = c /\ arg[c].user = arg[d].user
    PROVE  TokenInv'
  <1>1. s \in {"CANCELLED", "APPROVED", "REJECTED"}
    BY DEF Settled
  <1>2. ASSUME NEW d \in Creates PROVE RowInv(d)'
    <2>1. RowInv(d)
      BY DEF TokenInv
    <2>2. Unwritten(d)' /\ Vetted(d)' /\ Paid(d)'
      BY <1>1, <2>1 DEF RowInv, Unwritten, Vetted, Paid, Absent
    <2>3. Fresh(d)'
      BY <1>1, <2>1 DEF RowInv, Fresh, SameKind
    <2> QED BY <2>2, <2>3 DEF RowInv
  <1>3. ASSUME NEW d \in Creates, NEW e \in Creates PROVE Raced(d, e)'
    BY <1>1 DEF TokenInv, Raced, SameKind
  <1>4. ASSUME NEW d \in Cancels PROVE Withdrawn(d)'
    <2>1. arg[d].id \in Creates /\ Withdrawn(d)
      BY ArgTypes DEF TokenInv
    <2> QED BY <1>1, <2>1 DEF Withdrawn
  <1> QED BY <1>2, <1>3, <1>4 DEF TokenInv

LEMMA CoreTokenInv ==
    ASSUME TokenInv, TypeOK', NEW c \in Creates, Approve(c) \/ RejectRequest(c)
    PROVE  TokenInv'
  <1>1. status[c] = "PENDING" /\ UNCHANGED <<arg, since, answer, pc>>
    BY DEF Approve, RejectRequest
  <1>2. Paid(c) /\ arg[c].amount >= 1 /\ arg[c].amount \in Int
    BY <1>1, ArgTypes DEF TokenInv, RowInv, Vetted, Absent
  <1>3. CASE Approve(c)
    <2>1. Delta(c) # 0
      BY <1>2 DEF Delta
    <2>2. moved'[c] # 0 /\ \A d \in Creates \ {c} : moved'[d] = moved[d]
      BY <1>3, <2>1 DEF Approve, TokenInv, TypeOK
    <2>3. /\ status'[c] = "APPROVED" /\ "APPROVED" \in Settled
          /\ \A d \in Creates \ {c} : status'[d] = status[d]
      BY <1>3 DEF Approve, TokenInv, TypeOK, Settled
    <2> QED BY <1>1, <2>2, <2>3, ResolveTokenInv
  <1>4. CASE RejectRequest(c)
    <2>1. moved'[c] = 0 /\ UNCHANGED moved
      BY <1>1, <1>2, <1>4 DEF Paid, RejectRequest
    <2>2. /\ status'[c] = "REJECTED" /\ "REJECTED" \in Settled
          /\ \A d \in Creates \ {c} : status'[d] = status[d]
      BY <1>4 DEF RejectRequest, TokenInv, TypeOK, Settled
    <2> QED BY <1>1, <2>1, <2>2, ResolveTokenInv
  <1> QED BY <1>3, <1>4

LEMMA CancelTokenInv ==
    ASSUME TokenInv, TypeOK', NEW c \in Cancels,
           CancelRequest(c) \/ LoadCancelled(c)
    PROVE  TokenInv'
  <1>1. /\ c \notin Creates /\ c \in Calls /\ arg[c].id \in Creates
        /\ pc \in [Calls -> {"new"} \cup Open \cup Final]
        /\ answer \in [Calls -> Statuses \cup {Absent}]
    BY ArgTypes, TokenRequestsAssumption DEF Calls, TokenInv, TypeOK
  <1>2. \A d \in Calls \ {c} : pc'[d] = pc[d] /\ answer'[d] = answer[d]
    BY <1>1 DEF CancelRequest, LoadCancelled, Goto
  <1>3. \A d \in Creates : pc'[d] = pc[d]
    BY <1>1, <1>2 DEF Calls
  <1>4. \A d \in Cancels \ {c} : pc'[d] = pc[d] /\ answer'[d] = answer[d]
    BY <1>2 DEF Calls
  <1>5. CASE LoadCancelled(c)
    BY <1>1, <1>3, <1>4, <1>5, NoRowWritten DEF LoadCancelled
  <1>6. CASE CancelRequest(c)
    <2> DEFINE id == arg[c].id
    <2>1. CASE /\ arg[c].user \in Players /\ arg[id].user = arg[c].user
               /\ status[id] = "PENDING"
      <3>1. /\ status' = [status EXCEPT ![id] = "CANCELLED"] /\ pc'[c] = "load"
            /\ UNCHANGED <<arg, since, answer, moved>>
        BY <1>1, <1>6, <2>1 DEF CancelRequest, Goto
      <3>2. moved[id] = 0
        <4>1. RowInv(id)
          BY <1>1 DEF TokenInv
        <4> QED BY <2>1, <4>1 DEF RowInv, Paid
      <3>3. /\ status'[id] = "CANCELLED" /\ "CANCELLED" \in Settled
            /\ \A d \in Creates \ {id} : status'[d] = status[d]
        BY <1>1, <3>1 DEF TokenInv, TypeOK, Settled
      <3>4. \A d \in Cancels : \/ pc'[d] = pc[d]
                               \/ /\ pc'[d] = "load" /\ arg[d].id = id
                                  /\ arg[id].user = arg[d].user
        BY <1>4, <2>1, <3>1
      <3>5. id \in Creates /\ status[id] = "PENDING" /\ moved'[id] = 0
        BY <1>1, <2>1, <3>1, <3>2
      <3>6. \A d \in Creates \ {id} : moved'[d] = moved[d]
        BY <3>1
      <3> QED BY <1>3, <3>1, <3>3, <3>4, <3>5, <3>6, ResolveTokenInv
    <2>2. CASE ~(/\ arg[c].user \in Players /\ arg[id].user = arg[c].user
                 /\ status[id] = "PENDING")
      <3>1. pc'[c] = "refused" /\ UNCHANGED <<status, moved, arg, since, answer>>
        BY <1>1, <1>6, <2>2 DEF CancelRequest, Goto
      <3>2. ASSUME NEW d \in Creates PROVE RowInv(d)'
        BY <1>3, <3>1 DEF TokenInv, RowInv, Unwritten, Vetted, Paid, Fresh, SameKind
      <3>3. ASSUME NEW d \in Creates, NEW e \in Creates PROVE Raced(d, e)'
        BY <3>1 DEF TokenInv, Raced, SameKind
      <3>4. ASSUME NEW d \in Cancels PROVE Withdrawn(d)'
        BY <1>4, <3>1 DEF TokenInv, Withdrawn
      <3> QED BY <3>2, <3>3, <3>4 DEF TokenInv
    <2> QED BY <2>1, <2>2
  <1> QED BY <1>5, <1>6

LEMMA NextTokenInv == ASSUME TokenInv, [Next]_vars PROVE TokenInv'
  <1>0. TypeOK'
    BY NextTypeOK DEF TokenInv
  <1>1. ASSUME NEW c \in Calls, Fail(c) PROVE TokenInv'
    <2>1. /\ UNCHANGED <<status, moved, arg, since, answer>> /\ pc'[c] = "failed"
          /\ \A d \in Calls \ {c} : pc'[d] = pc[d]
      BY <1>1 DEF Fail, Goto, TokenInv, TypeOK
    <2>2. \A d \in Calls : pc'[d] = pc[d] \/ pc'[d] = "failed"
      BY <2>1
    <2> QED BY <1>0, <2>1, <2>2, NoRowWritten DEF Calls
  <1>2. ASSUME UNCHANGED <<status, moved, arg, since, pc, answer>> PROVE TokenInv'
    BY <1>0, <1>2, NoRowWritten
  <1>3. CASE (\E u \in Users : Spend(u)) \/ Done \/ UNCHANGED vars
    BY <1>2, <1>3 DEF Spend, Done, vars
  <1> QED BY <1>0, <1>1, <1>3, ReadsTokenInv, InsertTokenInv, CoreTokenInv,
          CancelTokenInv DEF Next

LEMMA TokenInvariant == Spec => []TokenInv
  BY InitTokenInv, NextTokenInv, PTL DEF Spec

-----------------------------------------------------------------------------
(* No column and no step of a call leaves its type, and no account is      *)
(* brought below zero.                                                     *)
THEOREM TokensTypeCorrect == Spec => []TypeOK
  <1>1. TokenInv => TypeOK
    BY DEF TokenInv
  <1> QED BY <1>1, TokenInvariant, PTL

(* Two open requests of a kind on one list always come from two calls that *)
(* ran at once: the first was inserted after the second had counted, or    *)
(* the other way round.  Calls sent one after the other never make two.    *)
THEOREM OnlyRacesDuplicate == Spec => []DuplicatesOnlyByRace
  <1>1. TokenInv => DuplicatesOnlyByRace
    <2> SUFFICES ASSUME TokenInv, NEW u \in Users,
                        NEW c \in DOMAIN MyTokenRequests(u),
                        NEW d \in DOMAIN MyTokenRequests(u),
                        c # d, arg[c].kind = arg[d].kind,
                        MyTokenRequests(u)[c] = "PENDING",
                        MyTokenRequests(u)[d] = "PENDING"
                 PROVE  c \in since[d] \/ d \in since[c]
      BY DEF DuplicatesOnlyByRace
    <2>1. /\ c \in Creates /\ d \in Creates /\ SameKind(c, d)
          /\ status[c] = "PENDING" /\ status[d] = "PENDING"
      BY DEF MyTokenRequests, SameKind
    <2> QED BY <2>1 DEF TokenInv, Raced
  <1> QED BY <1>1, TokenInvariant, PTL

(* Cancelling and approving race on one row, and whichever UPDATE comes    *)
(* first settles it for good.                                              *)
THEOREM FirstResolutionWins == Spec => ResolvedOnce
  <1> DEFINE A == \A c \in Creates :
                     status[c] \notin {Absent, "PENDING"} => status'[c] = status[c]
  <1>1. TokenInv /\ [Next]_vars => A
    <2> SUFFICES ASSUME TokenInv, [Next]_vars, NEW c \in Creates,
                        status[c] \notin {Absent, "PENDING"}
                 PROVE  status'[c] = status[c]
      OBVIOUS
    <2>1. status \in [Creates -> Statuses \cup {Absent}]
      BY DEF TokenInv, TypeOK
    <2>2. ASSUME NEW d \in Creates, InsertRequest(d) \/ InsertUnacknowledged(d)
          PROVE  status'[c] = status[c]
      <3>1. d # c
        BY <2>2 DEF InsertRequest, InsertUnacknowledged, TokenInv, RowInv, Unwritten
      <3> QED BY <2>1, <2>2, <3>1 DEF InsertRequest, InsertUnacknowledged
    <2>3. ASSUME NEW d \in Creates, Approve(d) \/ RejectRequest(d)
          PROVE  status'[c] = status[c]
      BY <2>1, <2>3 DEF Approve, RejectRequest
    <2>4. ASSUME NEW d \in Cancels, CancelRequest(d)
          PROVE  status'[c] = status[c]
      BY <2>1, <2>4 DEF CancelRequest
    <2>5. CASE \/ \E d \in Creates : ReadAccount(d) \/ CountOpen(d) \/ LoadCreated(d)
               \/ \E d \in Cancels : LoadCancelled(d)
               \/ \E d \in Calls : Fail(d)
               \/ \E u \in Users : Spend(u)
               \/ UNCHANGED vars
      BY <2>5 DEF ReadAccount, CountOpen, LoadCreated, LoadCancelled, Fail,
         Spend, vars
    <2> QED BY <2>2, <2>3, <2>4, <2>5 DEF Next, Done
  <1> QED BY <1>1, TokenInvariant, PTL DEF Spec, ResolvedOnce

(* A request's tokens move exactly when it is approved, and a Player who   *)
(* was told its request is cancelled keeps its tokens.                     *)
THEOREM ApprovalMovesTokens == Spec => []TokensFollowApproval
  <1>1. TokenInv => TokensFollowApproval
    <2> SUFFICES ASSUME TokenInv PROVE TokensFollowApproval
      OBVIOUS
    <2>1. \A c \in Creates : moved[c] # 0 <=> status[c] = "APPROVED"
      BY DEF TokenInv, RowInv, Paid
    <2>2. ASSUME NEW c \in Cancels, pc[c] = "answered"
          PROVE  LET list == MyTokenRequests(arg[c].user)
                     id   == arg[c].id
                 IN  /\ answer[c] = "CANCELLED" /\ moved[id] = 0
                     /\ id \in DOMAIN list /\ list[id] = "CANCELLED"
      <3>1. Withdrawn(c) /\ arg[c].id \in Creates
        BY ArgTypes DEF TokenInv
      <3>2. /\ status[arg[c].id] = "CANCELLED" /\ answer[c] = "CANCELLED"
            /\ arg[arg[c].id].user = arg[c].user
        BY <2>2, <3>1 DEF Withdrawn
      <3>3. moved[arg[c].id] = 0
        BY <2>1, <3>1, <3>2
      <3> QED BY <3>1, <3>2, <3>3 DEF MyTokenRequests, Absent
    <2> QED BY <2>1, <2>2 DEF TokensFollowApproval
  <1> QED BY <1>1, TokenInvariant, PTL

=============================================================================
