-------------------------- MODULE MembershipProofs --------------------------
(***************************************************************************)
(* That an invite lets one user in, that joins keep the standing of        *)
(* members, and that a user who is no longer an operator carries out the   *)
(* orders in flight and no more, for any numbers of users, sessions,       *)
(* invites and requests.                                                   *)
(***************************************************************************)
EXTENDS Membership, FiniteSetTheorems, TLAPS

\* Session s has consumed invite i and not yet added the member.
Holding(s, i) == pc[s] \in {"count", "upsert"} /\ job[s].item = i

\* An invite is in the hands of one session at a time, which has consumed it,
\* and of none once it let somebody in.
OneHolder ==
    \A i \in Invites :
        /\ entered[i] # {} => i \in used
        /\ \A s \in Sessions : Holding(s, i) => i \in used /\ entered[i] = {}
        /\ \A s, q \in Sessions : Holding(s, i) /\ Holding(q, i) => s = q

IInv == TypeOK /\ OneHolder /\ InviteAdmitsOne

-----------------------------------------------------------------------------
(* Type correctness *)

LEMMA NoJobType == NoJob \in Job
  BY DEF NoJob, Job

LEMMA ReturnType ==
    ASSUME HandlersOK, NEW s \in Sessions, Return(s)
    PROVE  HandlersOK'
  BY NoJobType DEF HandlersOK, Return, Goto, Labels

LEMMA ProceedType ==
    ASSUME HandlersOK, NEW s \in Sessions, NEW label \in Labels, Proceed(s, label),
           pc[s] # "idle", label \notin {"idle", "request_read", "decide", "operate"}
    PROVE  HandlersOK'
  BY DEF HandlersOK, Proceed, Goto

\* RequestRead goes on to the decision it was asked for.
LEMMA DecideType ==
    ASSUME HandlersOK, NEW s \in Sessions, Proceed(s, "decide"), pc[s] = "request_read"
    PROVE  HandlersOK'
  BY DEF HandlersOK, Proceed, Goto, Labels

LEMMA BeginType ==
    ASSUME HandlersOK, NEW s \in Sessions, NEW label \in Labels \ {"idle"},
           NEW order \in MemberOrders \cup Decisions \cup {"claim", "join"},
           NEW u \in Users, NEW i \in Items \cup {Nothing}, Begin(s, label, order, u, i),
           label = "operate" => order \in MemberOrders,
           label \in {"request_read", "decide"} => i \in Requests /\ order \in Decisions
    PROVE  HandlersOK'
  <1> DEFINE new == [order |-> order, user |-> u, item |-> i, first |-> FALSE]
  <1>1. new \in Job /\ new # NoJob /\ new.user = u /\ new.item = i /\ new.order = order
    BY MembershipAssumption DEF Job, NoJob
  <1>2. pc' = [pc EXCEPT ![s] = label] /\ job' = [job EXCEPT ![s] = new]
    BY DEF Begin, Goto
  <1> QED
    BY <1>1, <1>2 DEF HandlersOK

\* Joins, approvals, orders and departures leave a table of members behind.
LEMMA UpsertType ==
    ASSUME MembersOK, NEW v \in Users, NEW role \in {"member", "owner"}, Upsert(v, role)
    PROVE  MembersOK'
  BY DEF MembersOK, Upsert, Newcomer, Row, Roles, Joined

LEMMA ObeyedType ==
    ASSUME NEW row \in Row, NEW order \in MemberOrders, row.role # "none"
    PROVE  /\ Obeyed(order, row) \in Row
           /\ Obeyed(order, row).role = "none" => Obeyed(order, row) = Absent
  BY DEF Obeyed, Row, Roles, Absent, MemberOrders

LEMMA LateType ==
    ASSUME late \in [Users -> Nat], NEW s, CountLate(s) \/ RecallLate
    PROVE  late' \in [Users -> Nat]
  BY DEF CountLate, RecallLate

LEMMA InitTypeOK == Init => TypeOK
  BY NoJobType, MembershipAssumption
  DEF Init, TypeOK, MembersOK, HandlersOK, Absent, Row, Roles, Joined, Labels, Statuses

LEMMA SubmitType ==
    ASSUME TypeOK, NEW s \in Sessions, Submit(s)
    PROVE  TypeOK'
  <1> USE DEF TypeOK, invites, history
  <1>1. ASSUME NEW i \in Invites \cup {Nothing}, NEW order \in {"join", "claim"},
               Join(s, order, i)
        PROVE  TypeOK'
    <2>1. HandlersOK'
      BY <1>1, BeginType, MembershipAssumption DEF Join, Labels, Items
    <2> QED
      BY <1>1, <2>1 DEF Join, MembersOK, Joined
  <1>2. CASE Leave(s)
    <2>1. HandlersOK' /\ late' \in [Users -> Nat]
      BY <1>2, LateType DEF Leave, HandlersOK
    <2>2. MembersOK'
      BY <1>2 DEF Leave, MembersOK, Absent, Row, Roles, Joined
    <2> QED
      BY <1>2, <2>1, <2>2 DEF Leave
  <1>3. ASSUME NEW order \in Orders, NEW u \in Users, Order(s, order, u)
        PROVE  TypeOK'
    <2>1. HandlersOK'
      BY <1>3, BeginType DEF Order, Labels
    <2> QED
      BY <1>3, <2>1 DEF Order, MembersOK, Joined
  <1>4. ASSUME NEW order \in Orders, NEW r \in Requests, Handle(s, order, r)
        PROVE  TypeOK'
    <2>1. HandlersOK'
      BY <1>4, BeginType, MembershipAssumption DEF Handle, Labels, Items
    <2> QED
      BY <1>4, <2>1 DEF Handle, MembersOK, Joined
  <1> QED
    BY <1>1, <1>2, <1>3, <1>4 DEF Submit

LEMMA ContinueType ==
    ASSUME TypeOK, NEW s \in Sessions, Continue(s)
    PROVE  TypeOK'
  <1> USE DEF TypeOK, invites, history
  <1>1. CASE ClaimRead(s)
    <2>1. HandlersOK'
      BY <1>1, ReturnType, ProceedType DEF ClaimRead, Labels
    <2> QED
      BY <1>1, <2>1 DEF ClaimRead, MembersOK, Joined
  <1>2. CASE ClaimUpsert(s)
    <2>1. HandlersOK' /\ late' \in [Users -> Nat]
      BY <1>2, ProceedType, LateType DEF ClaimUpsert, Labels
    <2>2. job[s].user \in Users
      BY <1>2 DEF ClaimUpsert, HandlersOK
    <2> QED
      BY <1>2, <2>1, <2>2, UpsertType DEF ClaimUpsert
  <1>3. CASE ClaimClear(s)
    <2>1. HandlersOK'
      BY <1>3, ReturnType DEF ClaimClear
    <2> QED
      BY <1>3, <2>1 DEF ClaimClear, MembersOK, Joined
  <1>4. CASE JoinPolicy(s)
    <2>1. HandlersOK'
      <3> DEFINE new == [job[s] EXCEPT !.item = IF strategy = "invite" THEN @ ELSE Nothing]
      <3>1. new \in Job /\ new # NoJob /\ new.user = job[s].user /\ new.order = job[s].order
        BY <1>4, MembershipAssumption DEF JoinPolicy, HandlersOK, Job, NoJob
      <3>2. \E label \in {"count", "consume", "apply"} : pc' = [pc EXCEPT ![s] = label]
        BY <1>4 DEF JoinPolicy, Goto
      <3>3. pc[s] = "policy" /\ job' = [job EXCEPT ![s] = new]
        BY <1>4 DEF JoinPolicy
      <3> HIDE DEF new
      <3> QED
        BY <3>1, <3>2, <3>3 DEF HandlersOK, Labels
    <2> QED
      BY <1>4, <2>1 DEF JoinPolicy, MembersOK, Joined
  <1>5. CASE Consume(s)
    <2>1. HandlersOK'
      BY <1>5, ReturnType, ProceedType DEF Consume, Labels
    <2> QED
      BY <1>5, <2>1 DEF Consume, MembersOK, Joined
  <1>6. CASE FileRequest(s)
    <2>1. HandlersOK'
      BY <1>6, ReturnType DEF FileRequest
    <2> QED
      BY <1>6, <2>1 DEF FileRequest, Statuses, MembersOK, Joined
  <1>7. CASE Count(s)
    <2>1. HandlersOK'
      <3> DEFINE new == [job[s] EXCEPT !.first = NoMembers]
      <3>0. NoMembers \in BOOLEAN
        BY DEF NoMembers
      <3>1. new \in Job /\ new # NoJob /\ new.user = job[s].user /\ new.order = job[s].order
        BY <1>7, <3>0, MembershipAssumption DEF Count, HandlersOK, Job, NoJob
      <3>2. pc[s] = "count" /\ pc' = [pc EXCEPT ![s] = "upsert"] /\ job' = [job EXCEPT ![s] = new]
        BY <1>7 DEF Count, Goto
      <3> HIDE DEF new
      <3> QED
        BY <3>1, <3>2 DEF HandlersOK, Labels
    <2> QED
      BY <1>7, <2>1 DEF Count, MembersOK, Joined
  <1>8. CASE Enter(s)
    <2>1. HandlersOK' /\ late' \in [Users -> Nat]
      BY <1>8, ReturnType, LateType DEF Enter
    <2>2. job[s].user \in Users
      BY <1>8 DEF Enter, HandlersOK
    <2>3. MembersOK'
      BY <1>8, <2>2, UpsertType DEF Enter
    <2> QED
      BY <1>8, <2>1, <2>2, <2>3 DEF Enter
  <1>9. CASE Operate(s)
    <2>1. HandlersOK' /\ late' \in [Users -> Nat]
      BY <1>9, ReturnType, ProceedType, LateType DEF Operate, Labels
    <2>2. MembersOK'
      BY <1>9, ObeyedType DEF Operate, HandlersOK, MembersOK, Joined
    <2> QED
      BY <1>9, <2>1, <2>2 DEF Operate
  <1>10. CASE Notify(s)
    <2>1. HandlersOK'
      BY <1>10, ReturnType DEF Notify
    <2> QED
      BY <1>10, <2>1 DEF Notify, MembersOK, Joined
  <1>11. CASE RequestRead(s)
    <2>1. HandlersOK'
      BY <1>11, ReturnType, DecideType DEF RequestRead
    <2> QED
      BY <1>11, <2>1 DEF RequestRead, MembersOK, Joined
  <1>12. CASE Decide(s)
    <2>1. HandlersOK' /\ late' \in [Users -> Nat]
      BY <1>12, ReturnType, ProceedType, LateType DEF Decide, Labels
    <2>2. status' \in [Requests -> Statuses]
      BY <1>12 DEF Decide, HandlersOK, Statuses
    <2> QED
      BY <1>12, <2>1, <2>2 DEF Decide, MembersOK, Joined
  <1> QED
    BY <1>1, <1>2, <1>3, <1>4, <1>5, <1>6, <1>7, <1>8, <1>9, <1>10, <1>11, <1>12
    DEF Continue

LEMMA AdministerType ==
    ASSUME TypeOK, Administer
    PROVE  TypeOK'
  BY DEF TypeOK, Administer, ChangeStrategy, CreateInvite, RevokeInvite, invites, history,
         MembersOK, HandlersOK, Joined

LEMMA FailType ==
    ASSUME TypeOK, Fail
    PROVE  TypeOK'
  <1> USE DEF TypeOK, invites, history
  <1>1. ASSUME NEW s \in Sessions, StatementFails(s)
        PROVE  TypeOK'
    <2>1. HandlersOK'
      BY <1>1, ReturnType, ProceedType DEF StatementFails, Labels
    <2> QED
      BY <1>1, <2>1 DEF StatementFails, MembersOK, Joined
  <1>2. CASE Restart
    <2>1. HandlersOK'
      BY <1>2, NoJobType DEF Restart, HandlersOK, Labels
    <2> QED
      BY <1>2, <2>1 DEF Restart, MembersOK, Joined, NoMembers
  <1> QED
    BY <1>1, <1>2 DEF Fail

LEMMA NextTypeOK == TypeOK /\ [Next]_vars => TypeOK'
  <1> SUFFICES ASSUME TypeOK, [Next]_vars PROVE TypeOK'
    OBVIOUS
  <1>1. CASE UNCHANGED vars
    BY <1>1 DEF vars, invites, history, TypeOK, MembersOK, HandlersOK, Joined
  <1> QED
    BY <1>1, SubmitType, ContinueType, AdministerType, FailType DEF Next, Serve

\* Every variable keeps its type, and every handler finds the arguments that
\* its next statement needs.
THEOREM TypeCorrect == Spec => []TypeOK
  BY InitTypeOK, NextTypeOK, PTL DEF Spec

-----------------------------------------------------------------------------
(* Invites *)

\* Steps that hand no invite to a session, use none up and let nobody in.
Quiet ==
    /\ used' = used /\ entered' = entered
    /\ \A s \in Sessions, i \in Invites : Holding(s, i)' => Holding(s, i)

LEMMA QuietStep ==
    ASSUME OneHolder, Quiet
    PROVE  OneHolder'
  BY DEF OneHolder, Quiet

LEMMA SubmitIsQuiet ==
    ASSUME HandlersOK, NEW s \in Sessions, Submit(s)
    PROVE  Quiet
  BY DEF Submit, Join, Leave, Order, Handle, Begin, Goto, Quiet, Holding, HandlersOK,
         invites, history

LEMMA FailIsQuiet ==
    ASSUME HandlersOK, Administer \/ Fail
    PROVE  Quiet
  <1>1. CASE Administer
    BY <1>1 DEF Administer, ChangeStrategy, CreateInvite, RevokeInvite, Quiet, Holding,
                invites, history
  <1>2. ASSUME NEW s \in Sessions, StatementFails(s) PROVE Quiet
    <2>1. pc[s] = "decide" => job[s].item \notin Invites
      BY MembershipAssumption DEF HandlersOK
    <2> QED
      BY <1>2, <2>1 DEF StatementFails, Return, Proceed, Goto, Quiet, Holding, HandlersOK,
                        NoJob, invites, history
  <1>3. CASE Restart
    BY <1>3 DEF Restart, Quiet, Holding, invites, history
  <1> QED
    BY <1>1, <1>2, <1>3 DEF Fail

\* An invite is consumed once, and its holder lets in one user.
LEMMA ContinueKeepsHolder ==
    ASSUME TypeOK, OneHolder, InviteAdmitsOne, NEW s \in Sessions, Continue(s)
    PROVE  OneHolder' /\ InviteAdmitsOne'
  <1> USE DEF invites, history
  <1>1. CASE Consume(s)
    <2>1. CASE job[s].item \in issued \ (used \cup revoked)
      <3>1. /\ used' = used \cup {job[s].item} /\ entered' = entered
            /\ pc' = [pc EXCEPT ![s] = "count"] /\ job' = job
        BY <1>1, <2>1 DEF Consume, Proceed, Goto
      <3>2. \A q \in Sessions, i \in Invites :
                Holding(q, i)' <=> Holding(q, i) \/ (q = s /\ i = job[s].item)
        BY <3>1, <1>1 DEF Holding, Consume, TypeOK, HandlersOK
      <3>3. \A q \in Sessions : ~Holding(q, job[s].item) /\ entered[job[s].item] = {}
        BY <2>1 DEF OneHolder, TypeOK
      <3> QED
        BY <3>1, <3>2, <3>3 DEF OneHolder, InviteAdmitsOne
    <2>2. CASE job[s].item \notin issued \ (used \cup revoked)
      <3>1. Quiet
        BY <1>1, <2>2 DEF Consume, Return, Goto, Quiet, Holding, TypeOK, HandlersOK
      <3> QED
        BY <3>1, QuietStep DEF Quiet, InviteAdmitsOne
    <2> QED
      BY <2>1, <2>2
  <1>2. CASE Enter(s)
    <2>1. /\ used' = used
          /\ \A q \in Sessions, i \in Invites : Holding(q, i)' => Holding(q, i) /\ q # s
      BY <1>2 DEF Enter, Return, Goto, Holding, TypeOK, HandlersOK
    <2>2. CASE job[s].item \in Invites
      <3>1. entered' = [entered EXCEPT ![job[s].item] = @ \cup {job[s].user}]
        BY <1>2, <2>2 DEF Enter
      <3>2. Holding(s, job[s].item)
        BY <1>2 DEF Enter, Holding
      <3>3. entered'[job[s].item] = {job[s].user}
        BY <2>2, <3>1, <3>2 DEF OneHolder, TypeOK
      <3>4. \A i \in Invites : i # job[s].item => entered'[i] = entered[i]
        BY <3>1 DEF TypeOK
      <3> QED
        BY <2>1, <2>2, <3>2, <3>3, <3>4 DEF OneHolder, InviteAdmitsOne
    <2>3. CASE job[s].item \notin Invites
      <3>1. Quiet
        BY <1>2, <2>1, <2>3 DEF Enter, Quiet
      <3> QED
        BY <3>1, QuietStep DEF Quiet, InviteAdmitsOne
    <2> QED
      BY <2>2, <2>3
  <1>3. CASE JoinPolicy(s) \/ Count(s)
    <2>1. Quiet
      <3>1. CASE JoinPolicy(s)
        <4>1. \A q \in Sessions : q # s => pc'[q] = pc[q] /\ job'[q] = job[q]
          BY <1>3, <3>1 DEF JoinPolicy, Goto, TypeOK, HandlersOK
        <4>2. pc'[s] = "count" => job'[s].item = Nothing
          BY <3>1 DEF JoinPolicy, Goto, TypeOK, HandlersOK, Job
        <4>3. pc'[s] # "upsert" /\ Nothing \notin Invites
          BY <3>1, MembershipAssumption DEF JoinPolicy, Goto, TypeOK, HandlersOK, Items
        <4> QED
          BY <3>1, <4>1, <4>2, <4>3 DEF JoinPolicy, Quiet, Holding
      <3>2. CASE Count(s)
        BY <3>2 DEF Count, Goto, Quiet, Holding, TypeOK, HandlersOK, Job
      <3> QED
        BY <1>3, <3>1, <3>2
    <2> QED
      BY <2>1, QuietStep DEF Quiet, InviteAdmitsOne
  <1>4. CASE Decide(s)
    <2>1. job[s].item \notin Invites
      BY <1>4, MembershipAssumption DEF Decide, TypeOK, HandlersOK
    <2>2. Quiet
      BY <1>4, <2>1 DEF Decide, Return, Proceed, Goto, Quiet, Holding, TypeOK, HandlersOK
    <2> QED
      BY <2>2, QuietStep DEF Quiet, InviteAdmitsOne
  <1>5. CASE \/ ClaimRead(s) \/ ClaimUpsert(s) \/ ClaimClear(s) \/ FileRequest(s)
             \/ Operate(s) \/ Notify(s) \/ RequestRead(s)
    <2>1. Quiet
      BY <1>5 DEF ClaimRead, ClaimUpsert, ClaimClear, FileRequest, Operate, Notify,
                  RequestRead, Return, Proceed, Goto, Quiet, Holding, TypeOK, HandlersOK
    <2> QED
      BY <2>1, QuietStep DEF Quiet, InviteAdmitsOne
  <1> QED
    BY <1>1, <1>2, <1>3, <1>4, <1>5 DEF Continue

LEMMA InitIInv == Init => IInv
  <1> SUFFICES ASSUME Init PROVE IInv
    OBVIOUS
  <1>1. OneHolder /\ InviteAdmitsOne
    BY DEF Init, OneHolder, InviteAdmitsOne, Holding
  <1> QED
    BY <1>1, InitTypeOK DEF IInv

LEMMA NextIInv == IInv /\ [Next]_vars => IInv'
  <1> SUFFICES ASSUME IInv, [Next]_vars PROVE OneHolder' /\ InviteAdmitsOne'
    BY NextTypeOK DEF IInv
  <1>1. CASE UNCHANGED vars
    BY <1>1 DEF vars, invites, history, IInv, OneHolder, InviteAdmitsOne, Holding
  <1>2. ASSUME NEW s \in Sessions, Continue(s) PROVE OneHolder' /\ InviteAdmitsOne'
    BY <1>2, ContinueKeepsHolder DEF IInv
  <1>3. CASE (\E s \in Sessions : Submit(s)) \/ Administer \/ Fail
    <2>1. Quiet
      BY <1>3, SubmitIsQuiet, FailIsQuiet DEF IInv, TypeOK
    <2> QED
      BY <2>1, QuietStep DEF Quiet, IInv, InviteAdmitsOne
  <1> QED
    BY <1>1, <1>2, <1>3 DEF Next, Serve

LEMMA Invariant == Spec => []IInv
  BY InitIInv, NextIInv, PTL DEF Spec

\* Whatever joins, revocations, failures and restarts interleave, an invite
\* lets at most one user in.
THEOREM OneUserPerInvite == Spec => []InviteAdmitsOne
  <1>1. IInv => InviteAdmitsOne
    BY DEF IInv
  <1> QED
    BY <1>1, Invariant, PTL

-----------------------------------------------------------------------------
(* Standing *)

\* An order about u is carried out and explains what became of its row.
Explained(u) ==
    \E s \in Sessions : /\ pc[s] = "operate" /\ job[s].user = u
                        /\ members'[u] = Obeyed(job[s].order, members[u])

LEMMA StepKeepsStanding ==
    ASSUME TypeOK, Next, NEW u \in Users, Joined(u), Joined(u)', members'[u] # members[u]
    PROVE  Explained(u)
  <1>1. ASSUME NEW s \in Sessions, Operate(s) PROVE Explained(u)
    <2>1. pc[s] = "operate" /\ job[s].user = u
      BY <1>1 DEF Operate, TypeOK, MembersOK
    <2> QED
      BY <1>1, <2>1 DEF Operate, Explained, TypeOK, MembersOK
  <1>2. ASSUME NEW s \in Sessions, Leave(s) PROVE FALSE
    BY <1>2 DEF Leave, Joined, Absent, TypeOK, MembersOK
  <1>3. ASSUME NEW s \in Sessions, ClaimUpsert(s) \/ Enter(s) PROVE FALSE
    BY <1>3 DEF ClaimUpsert, Enter, Upsert, Joined, TypeOK, MembersOK
  <1>4. ASSUME NEW s \in Sessions, Submit(s), ~Leave(s) PROVE members' = members
    BY <1>4 DEF Submit, Join, Order, Handle
  <1>5. ASSUME NEW s \in Sessions, Continue(s), ~Operate(s), ~ClaimUpsert(s), ~Enter(s)
        PROVE  members' = members
    BY <1>5 DEF Continue, ClaimRead, ClaimClear, JoinPolicy, Consume, FileRequest, Count,
                Notify, RequestRead, Decide
  <1>6. Administer \/ Fail => members' = members
    BY DEF Administer, ChangeStrategy, CreateInvite, RevokeInvite, Fail, StatementFails,
           Restart
  <1> QED
    BY <1>1, <1>2, <1>3, <1>4, <1>5, <1>6 DEF Next, Serve

\* No join and no approval changes the role, mute or ban of a member it finds.
THEOREM JoinsKeepStanding == Spec => StandingKept
  <1>1. TypeOK /\ [Next]_vars =>
            [\A u \in Users :
                 Joined(u) /\ Joined(u)' /\ members'[u] # members[u] => Explained(u)]_vars
    BY StepKeepsStanding
  <1> QED
    BY <1>1, TypeCorrect, PTL DEF Spec, StandingKept, Explained

-----------------------------------------------------------------------------
(* Late orders *)

ConnectionsOf(u) == {s \in Connections : UserOf[s] = u}

\* The connections of u that were authorised and have not carried out the order.
InFlight(u) == {s \in ConnectionsOf(u) : pc[s] \in {"operate", "request_read", "decide"}}

\* An operator has no late orders; whoever no longer is one has carried out as
\* many as its connections have let go of.
LateAccounted ==
    \A u \in Users :
        IF Operator(members[u]) THEN late[u] = 0
        ELSE late[u] + Cardinality(InFlight(u)) <= Cardinality(ConnectionsOf(u))

\* What a step may do to the count of a user: start again from 0 because the
\* user is an operator after it, stay, or grow by an order that was in flight.
Restarts(u) == Operator(members'[u]) /\ late'[u] = 0

Keeps(u) ==
    /\ ~Operator(members'[u])
    /\ late'[u] = late[u]
    /\ Operator(members[u]) \/ InFlight(u)' \subseteq InFlight(u)

Grows(u) ==
    /\ ~Operator(members'[u]) /\ ~Operator(members[u])
    /\ late'[u] = late[u] + 1
    /\ \E s \in InFlight(u) : InFlight(u)' \subseteq InFlight(u) \ {s}

LEMMA InFlightFinite ==
    ASSUME NEW u
    PROVE  /\ IsFiniteSet(ConnectionsOf(u)) /\ Cardinality(ConnectionsOf(u)) \in Nat
           /\ IsFiniteSet(InFlight(u)) /\ Cardinality(InFlight(u)) \in Nat
           /\ Cardinality(InFlight(u)) <= Cardinality(ConnectionsOf(u))
  <1>1. IsFiniteSet(ConnectionsOf(u))
    BY FS_Subset, MembershipAssumption DEF ConnectionsOf
  <1>2. InFlight(u) \in SUBSET ConnectionsOf(u)
    BY DEF InFlight
  <1>3. IsFiniteSet(InFlight(u)) /\ Cardinality(InFlight(u)) <= Cardinality(ConnectionsOf(u))
    BY <1>1, <1>2, FS_Subset
  <1> QED
    BY <1>1, <1>3, FS_CardinalityType

LEMMA InFlightFiniteNext ==
    ASSUME NEW u
    PROVE  /\ IsFiniteSet(InFlight(u)') /\ Cardinality(InFlight(u)') \in Nat
           /\ Cardinality(InFlight(u)') <= Cardinality(ConnectionsOf(u))
  <1>1. InFlight(u)' \in SUBSET ConnectionsOf(u)
    BY DEF InFlight, ConnectionsOf
  <1>2. IsFiniteSet(InFlight(u)') /\ Cardinality(InFlight(u)') <= Cardinality(ConnectionsOf(u))
    BY <1>1, InFlightFinite, FS_Subset
  <1> QED
    BY <1>2, FS_CardinalityType

\* The argument by counting.
LEMMA StepKeepsAccount ==
    ASSUME TypeOK, LateAccounted, \A u \in Users : Restarts(u) \/ Keeps(u) \/ Grows(u)
    PROVE  LateAccounted'
  <1> SUFFICES ASSUME NEW u \in Users, ~Operator(members'[u])
               PROVE  late'[u] + Cardinality(InFlight(u)') <= Cardinality(ConnectionsOf(u))
    BY DEF LateAccounted, Restarts, Keeps, Grows, ConnectionsOf, Operator
  <1> USE InFlightFinite, InFlightFiniteNext
  <1>1. late[u] \in Nat
    BY DEF TypeOK
  <1>2. CASE Keeps(u) /\ Operator(members[u])
    BY <1>2, <1>1 DEF Keeps, LateAccounted
  <1>3. CASE Keeps(u) /\ ~Operator(members[u])
    <2>1. Cardinality(InFlight(u)') <= Cardinality(InFlight(u))
      BY <1>3, FS_Subset DEF Keeps
    <2> QED
      BY <1>1, <1>3, <2>1 DEF Keeps, LateAccounted
  <1>4. CASE Grows(u)
    <2>1. PICK s \in InFlight(u) : InFlight(u)' \subseteq InFlight(u) \ {s}
      BY <1>4 DEF Grows
    <2>2. /\ IsFiniteSet(InFlight(u) \ {s})
          /\ Cardinality(InFlight(u) \ {s}) = Cardinality(InFlight(u)) - 1
      BY <2>1, FS_RemoveElement
    <2>3. Cardinality(InFlight(u)') <= Cardinality(InFlight(u)) - 1
      BY <2>1, <2>2, FS_Subset
    <2> QED
      BY <1>1, <1>4, <2>3 DEF Grows, LateAccounted
  <1> QED
    BY <1>2, <1>3, <1>4 DEF Restarts

\* Only an operator's request becomes an order in flight.
LEMMA SubmitAccounts ==
    ASSUME TypeOK, LateAccounted, NEW s \in Sessions, Submit(s), NEW u \in Users
    PROVE  Restarts(u) \/ Keeps(u)
  <1>1. CASE Leave(s)
    BY <1>1 DEF Leave, RecallLate, TypeOK, MembersOK, Restarts, Keeps, Operator, Absent,
                InFlight, LateAccounted
  <1>2. ASSUME NEW i, NEW order, Join(s, order, i) PROVE Restarts(u) \/ Keeps(u)
    <2>1. pc' = [pc EXCEPT ![s] = IF order = "claim" THEN "claim_read" ELSE "policy"]
      BY <1>2 DEF Join, Begin, Goto
    <2>2. InFlight(u)' \subseteq InFlight(u)
      BY <2>1 DEF InFlight, TypeOK, HandlersOK
    <2> QED
      BY <1>2, <2>2 DEF Join, Restarts, Keeps, LateAccounted
  <1>3. ASSUME NEW order, NEW v, Order(s, order, v) \/ Handle(s, order, v)
        PROVE  Restarts(u) \/ Keeps(u)
    <2>1. /\ Authorised(s) /\ members' = members /\ late' = late
          /\ \A q \in Sessions : q # s => pc'[q] = pc[q]
      BY <1>3 DEF Order, Handle, Begin, Goto, TypeOK, HandlersOK
    <2>2. Operator(members[u]) \/ InFlight(u)' \subseteq InFlight(u)
      BY <2>1 DEF Authorised, InFlight, ConnectionsOf, Sessions
    <2> QED
      BY <2>1, <2>2 DEF Restarts, Keeps, LateAccounted
  <1> QED
    BY <1>1, <1>2, <1>3 DEF Submit

\* An order that takes effect is no longer in flight.
LEMMA CountAccounts ==
    ASSUME TypeOK, LateAccounted, NEW s \in Sessions, CountLate(s),
           pc[s] \in {"operate", "decide"}, NEW label \in Labels, Goto(s, label),
           label \notin {"operate", "request_read", "decide"}, NEW u \in Users
    PROVE  Restarts(u) \/ Keeps(u) \/ Grows(u)
  <1>1. InFlight(u)' = InFlight(u) \ {s}
    BY DEF Goto, InFlight, ConnectionsOf, Sessions, TypeOK, HandlersOK
  <1>2. CASE Operator(members'[u])
    BY <1>2 DEF CountLate, Restarts
  <1>3. CASE ~Operator(members'[u]) /\ s \in Connections /\ UserOf[s] = u /\ ~Operator(members[u])
    <2>1. s \in InFlight(u)
      BY <1>3 DEF InFlight, ConnectionsOf
    <2> QED
      BY <1>1, <1>3, <2>1 DEF CountLate, Grows
  <1>4. CASE /\ ~Operator(members'[u])
             /\ ~(s \in Connections /\ UserOf[s] = u /\ ~Operator(members[u]))
    BY <1>1, <1>4 DEF CountLate, Keeps
  <1> QED
    BY <1>2, <1>3, <1>4

LEMMA ContinueAccounts ==
    ASSUME TypeOK, LateAccounted, NEW s \in Sessions, Continue(s), NEW u \in Users
    PROVE  Restarts(u) \/ Keeps(u) \/ Grows(u)
  <1>1. CASE Operate(s)
    BY <1>1, CountAccounts DEF Operate, Proceed, Return, Labels
  <1>2. CASE Decide(s)
    BY <1>2, CountAccounts DEF Decide, Proceed, Return, Labels
  <1>3. CASE ClaimUpsert(s) \/ Enter(s)
    <2>1. RecallLate /\ InFlight(u)' \subseteq InFlight(u)
      BY <1>3 DEF ClaimUpsert, Enter, Return, Proceed, Goto, InFlight, ConnectionsOf, Sessions,
                  TypeOK, HandlersOK
    <2> QED
      BY <2>1 DEF RecallLate, Restarts, Keeps
  <1>4. CASE \/ ClaimRead(s) \/ ClaimClear(s) \/ JoinPolicy(s) \/ Consume(s) \/ FileRequest(s)
             \/ Count(s) \/ Notify(s) \/ RequestRead(s)
    <2>1. members' = members /\ late' = late
      BY <1>4 DEF ClaimRead, ClaimClear, JoinPolicy, Consume, FileRequest, Count, Notify,
                  RequestRead
    <2>2. \E label \in Labels : /\ pc' = [pc EXCEPT ![s] = label]
                                /\ \/ label \notin {"operate", "request_read", "decide"}
                                   \/ pc[s] = "request_read"
      BY <1>4 DEF ClaimRead, ClaimClear, JoinPolicy, Consume, FileRequest, Count, Notify,
                  RequestRead, Return, Proceed, Goto, Labels
    <2>3. InFlight(u)' \subseteq InFlight(u)
      BY <2>2 DEF InFlight, ConnectionsOf, Sessions, TypeOK, HandlersOK
    <2> QED
      BY <2>1, <2>3 DEF Restarts, Keeps, LateAccounted
  <1> QED
    BY <1>1, <1>2, <1>3, <1>4 DEF Continue

LEMMA FailAccounts ==
    ASSUME TypeOK, LateAccounted, Administer \/ Fail, NEW u \in Users
    PROVE  Restarts(u) \/ Keeps(u)
  <1>1. members' = members /\ late' = late
    BY DEF Administer, ChangeStrategy, CreateInvite, RevokeInvite, Fail, StatementFails,
           Restart
  <1>2. CASE Administer
    BY <1>1, <1>2 DEF Administer, ChangeStrategy, CreateInvite, RevokeInvite, Restarts, Keeps,
                      InFlight, LateAccounted
  <1>3. ASSUME NEW s \in Sessions, StatementFails(s) PROVE InFlight(u)' \subseteq InFlight(u)
    <2>1. \A q \in Sessions : q # s => pc'[q] = pc[q]
      BY <1>3 DEF StatementFails, Return, Proceed, Goto, TypeOK, HandlersOK
    <2>2. s \in Connections => pc'[s] = "idle"
      BY <1>3, MembershipAssumption DEF StatementFails, Return, Goto, TypeOK, HandlersOK
    <2> QED
      BY <2>1, <2>2 DEF InFlight, ConnectionsOf, Sessions
  <1>4. Restart => InFlight(u)' \subseteq InFlight(u)
    BY DEF Restart, InFlight, ConnectionsOf, Sessions
  <1> QED
    BY <1>1, <1>2, <1>3, <1>4 DEF Fail, Restarts, Keeps, LateAccounted

LEMMA InitAccounted == Init => LateAccounted
  <1> SUFFICES ASSUME Init, NEW u \in Users PROVE 0 + Cardinality(InFlight(u)) <= Cardinality(ConnectionsOf(u))
    BY DEF Init, LateAccounted, Operator, Absent
  <1> QED
    BY InFlightFinite

LEMMA NextAccounted == TypeOK /\ LateAccounted /\ [Next]_vars => LateAccounted'
  <1> SUFFICES ASSUME TypeOK, LateAccounted, [Next]_vars PROVE LateAccounted'
    OBVIOUS
  <1>1. CASE UNCHANGED vars
    BY <1>1 DEF vars, LateAccounted, InFlight, ConnectionsOf
  <1>2. CASE Next
    BY <1>2, StepKeepsAccount, SubmitAccounts, ContinueAccounts, FailAccounts
    DEF Next, Serve
  <1> QED
    BY <1>1, <1>2

\* However orders, dismissals, failures and restarts interleave, an operator
\* that lost the role carries out at most one order per connection after it.
THEOREM LateOrdersFew == Spec => []LateOrdersBounded
  <1>1. TypeOK /\ LateAccounted => LateOrdersBounded
    <2> SUFFICES ASSUME TypeOK, LateAccounted, NEW u \in Users
                 PROVE  late[u] <= Cardinality(ConnectionsOf(u))
      BY DEF LateOrdersBounded, ConnectionsOf
    <2> QED
      BY InFlightFinite DEF TypeOK, LateAccounted
  <1> QED
    BY <1>1, TypeCorrect, InitAccounted, NextAccounted, PTL DEF Spec
=============================================================================
