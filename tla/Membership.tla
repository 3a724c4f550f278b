----------------------------- MODULE Membership -----------------------------
(***************************************************************************)
(* Who is in the server: the tables `members`, `invite_tokens` and         *)
(* `join_requests`, the owner's claim code in `server_meta`                *)
(* (server/src/storage.rs), and the handlers that write them: joining,     *)
(* leaving, deciding on join requests and moderating members, both over    *)
(* WebSocket (server/src/ws.rs) and from the admin page                    *)
(* (server/src/admin.rs).                                                  *)
(*                                                                         *)
(* A connection is a WebSocket connection of one user after its Hello, a   *)
(* console one tab of the admin page, whose token is checked before the    *)
(* handler runs and which has no user.  Each handles one request at a      *)
(* time; requests of different ones interleave at every `.await` on the    *)
(* database, so that each SQL statement is a step and pc[s] names the next *)
(* statement of session s.                                                 *)
(*                                                                         *)
(* The profile columns of a member (name, avatar, push address, public     *)
(* key) and the text of requests and answers are left out.                 *)
(***************************************************************************)
EXTENDS Integers, FiniteSets

CONSTANTS
    Users, Connections, Consoles,
    Invites,      \* bound: the invite tokens that can be created
    Requests,     \* bound: the join requests that can be filed
    Nobody, Nothing,
    UserOf,       \* [Connections -> Users]  current_user
    Applicant,    \* [Requests -> Users]     user_id of a join request
    Strategies,   \* the join strategies the server is switched between
    Orders        \* what operators ask for in this instance

Sessions == Connections \cup Consoles
Items == Invites \cup Requests

MemberOrders == {"member", "admin", "owner", "mute", "unmute", "ban", "unban", "kick"}
Decisions == {"approve", "reject", "ignore"}

ASSUME MembershipAssumption ==
    /\ Connections \cap Consoles = {}
    /\ Invites \cap Requests = {}
    /\ Nobody \notin Users
    /\ Nothing \notin Items
    /\ IsFiniteSet(Connections)
    /\ UserOf \in [Connections -> Users]
    /\ Applicant \in [Requests -> Users]
    /\ Strategies \subseteq {"open", "invite", "approval"}
    /\ Orders \subseteq MemberOrders \cup Decisions

VARIABLES
    members,    \* per user the row of `members`, or Absent
    strategy,   \* the join strategy of server_meta
    claim,      \* whether owner_claim_hash is set
    issued,     \* the rows of invite_tokens
    used,       \* those with used_at
    revoked,    \* those with revoked = 1
    status,     \* per join request its status, or "none"
    pc,         \* the next statement of each session
    job,        \* the request it is handling
    notice,     \* the last removal notice a connection broadcast
    claimants,  \* history: users made members by the present claim code
    entered,    \* history: per invite, the users made members by it
    late        \* history: orders of a user since no longer an operator

vars == <<members, strategy, claim, issued, used, revoked, status, pc, job,
          notice, claimants, entered, late>>

invites == <<issued, used, revoked>>
history == <<claimants, entered>>

-----------------------------------------------------------------------------
(* Rows *)

\* MemberRole; "none" where there is no row.
Roles == {"none", "member", "admin", "owner"}

Row == [role : Roles, muted : BOOLEAN, banned : BOOLEAN]

Absent == [role |-> "none", muted |-> FALSE, banned |-> FALSE]

\* The row that a join or an approval wants to insert.
Newcomer(role) == [role |-> role, muted |-> FALSE, banned |-> FALSE]

Joined(u) == members[u].role # "none"

NoMembers == \A u \in Users : ~Joined(u)

\* Mutant of Upsert: INSERT OR REPLACE.
UpsertReplaces(u, role) == members' = [members EXCEPT ![u] = Newcomer(role)]

\* upsert_member: ON CONFLICT updates profile columns only, so that an existing
\* row keeps its role, mute and ban.
Upsert(u, role) ==
    members' = IF Joined(u) THEN members
               ELSE [members EXCEPT ![u] = Newcomer(role)]

\* require_role(Admin) for a row; the ban is not looked at.
Operator(row) == row.role \in {"admin", "owner"}

\* What the UPDATE or DELETE of an order makes of an existing row.
Obeyed(order, row) ==
    CASE order \in Roles  -> [row EXCEPT !.role = order]
      [] order = "mute"   -> [row EXCEPT !.muted = TRUE]
      [] order = "unmute" -> [row EXCEPT !.muted = FALSE]
      [] order = "ban"    -> [row EXCEPT !.banned = TRUE]
      [] order = "unban"  -> [row EXCEPT !.banned = FALSE]
      [] OTHER            -> Absent

-----------------------------------------------------------------------------
(* Steps every handler shares *)

Job == [order : MemberOrders \cup Decisions \cup {"none", "claim", "join"},
        user : Users \cup {Nobody}, item : Items \cup {Nothing}, first : BOOLEAN]

NoJob == [order |-> "none", user |-> Nobody, item |-> Nothing, first |-> FALSE]

Goto(s, label) == pc' = [pc EXCEPT ![s] = label]

\* The handler begins with its request.
Begin(s, label, order, u, i) ==
    /\ pc[s] = "idle"
    /\ Goto(s, label)
    /\ job' = [job EXCEPT ![s] =
                  [order |-> order, user |-> u, item |-> i, first |-> FALSE]]

\* The handler answers.
Return(s) ==
    /\ Goto(s, "idle")
    /\ job' = [job EXCEPT ![s] = NoJob]

Proceed(s, label) == Goto(s, label) /\ UNCHANGED job

\* A statement of an order takes effect: count it if the operator no longer is
\* one, and forget the count of everyone who is one afterwards.
CountLate(s) ==
    late' = [u \in Users |->
                IF Operator(members'[u]) THEN 0
                ELSE IF s \in Connections /\ UserOf[s] = u /\ ~Operator(members[u])
                     THEN late[u] + 1
                     ELSE late[u]]

\* A change of `members` that is not an order.
RecallLate == late' = [u \in Users |-> IF Operator(members'[u]) THEN 0 ELSE late[u]]

-----------------------------------------------------------------------------
(* handle_join *)

\* get_member: a member is answered at once, accepted or, if banned, refused.
Join(s, order, i) ==
    /\ s \in Connections
    /\ ~Joined(UserOf[s])
    /\ Begin(s, IF order = "claim" THEN "claim_read" ELSE "policy", order, UserOf[s], i)
    /\ UNCHANGED <<members, strategy, claim, invites, status, notice, history, late>>

\* get_owner_claim_hash: the code presented is the one in force, or it is not.
ClaimRead(s) ==
    /\ pc[s] = "claim_read"
    /\ \/ claim /\ Proceed(s, "claim_upsert")
       \/ Return(s)
    /\ UNCHANGED <<members, strategy, claim, invites, status, notice, history, late>>

\* The claimant joins as Owner ...
ClaimUpsert(s) ==
    /\ pc[s] = "claim_upsert"
    /\ Upsert(job[s].user, "owner")
    /\ RecallLate
    /\ claimants' = claimants \cup {job[s].user}
    /\ Proceed(s, "claim_clear")
    /\ UNCHANGED <<strategy, claim, invites, status, notice, entered>>

\* ... and then clear_owner_claim_hash.
ClaimClear(s) ==
    /\ pc[s] = "claim_clear"
    /\ claim' = FALSE
    /\ Return(s)
    /\ UNCHANGED <<members, strategy, invites, status, notice, history, late>>

\* get_server_meta: what the strategy asks for next.  Only invite-only looks at
\* the token of the request.
JoinPolicy(s) ==
    /\ pc[s] = "policy"
    /\ Goto(s, CASE strategy = "open"   -> "count"
                 [] strategy = "invite" -> "consume"
                 [] OTHER               -> "apply")
    /\ job' = [job EXCEPT ![s].item = IF strategy = "invite" THEN @ ELSE Nothing]
    /\ UNCHANGED <<members, strategy, claim, invites, status, notice, history, late>>

\* Mutant of Consume: without `used_at IS NULL`.
ConsumeAgain(s) ==
    /\ pc[s] = "consume"
    /\ IF job[s].item \in issued \ revoked
       THEN used' = used \cup {job[s].item} /\ Proceed(s, "count")
       ELSE Return(s) /\ UNCHANGED used
    /\ UNCHANGED <<members, strategy, claim, issued, revoked, status, notice, history, late>>

\* consume_invite: one UPDATE tests the token and marks it used.
Consume(s) ==
    /\ pc[s] = "consume"
    /\ IF job[s].item \in issued \ (used \cup revoked)
       THEN used' = used \cup {job[s].item} /\ Proceed(s, "count")
       ELSE Return(s) /\ UNCHANGED used
    /\ UNCHANGED <<members, strategy, claim, issued, revoked, status, notice, history, late>>

\* create_join_request: nothing prevents a second request of the same user.
FileRequest(s) ==
    /\ pc[s] = "apply"
    /\ \E r \in Requests :
           /\ status[r] = "none" /\ Applicant[r] = job[s].user
           /\ status' = [status EXCEPT ![r] = "pending"]
    /\ Return(s)
    /\ UNCHANGED <<members, strategy, claim, invites, notice, history, late>>

\* list_members: is this the first member?  Also a step of an approval.
Count(s) ==
    /\ pc[s] = "count"
    /\ job' = [job EXCEPT ![s].first = NoMembers]
    /\ Goto(s, "upsert")
    /\ UNCHANGED <<members, strategy, claim, invites, status, notice, history, late>>

\* upsert_member: the last statement of a join and of an approval.
Enter(s) ==
    /\ pc[s] = "upsert"
    /\ Upsert(job[s].user, IF job[s].first THEN "owner" ELSE "member")
    /\ RecallLate
    /\ entered' = IF job[s].item \in Invites
                  THEN [entered EXCEPT ![job[s].item] = @ \cup {job[s].user}]
                  ELSE entered
    /\ Return(s)
    /\ UNCHANGED <<strategy, claim, invites, status, notice, claimants>>

\* handle_leave_server: one DELETE, whatever the member's standing.
Leave(s) ==
    /\ s \in Connections
    /\ pc[s] = "idle"
    /\ Joined(UserOf[s])
    /\ members' = [members EXCEPT ![UserOf[s]] = Absent]
    /\ RecallLate
    /\ UNCHANGED <<strategy, claim, invites, status, pc, job, notice, history>>

-----------------------------------------------------------------------------
(* Operators *)

\* Mutant of Authorised: the role is not required.
AuthorisedAny(s) == s \in Connections \/ s \in Consoles

\* require_role(Admin), or the token of the admin page.
Authorised(s) == s \in Connections => Operator(members[UserOf[s]])

\* handle_set_member_role, handle_set_mute, handle_set_ban, handle_kick_member
\* and their counterparts of the admin page.
Order(s, order, u) ==
    /\ order \in Orders \cap MemberOrders
    /\ Authorised(s)
    /\ Begin(s, "operate", order, u, Nothing)
    /\ UNCHANGED <<members, strategy, claim, invites, status, notice, history, late>>

\* handle_process_join_request and handle_ignore_join_request.
Handle(s, order, r) ==
    /\ order \in Orders \cap Decisions
    /\ status[r] # "none"
    /\ Authorised(s)
    /\ Begin(s, IF order = "ignore" THEN "decide" ELSE "request_read", order, Applicant[r], r)
    /\ UNCHANGED <<members, strategy, claim, invites, status, notice, history, late>>

\* Mutant of Operate: the UPDATE is an upsert and makes a row of its own.
OperateUpserts(s) ==
    /\ pc[s] = "operate"
    /\ members' = [members EXCEPT ![job[s].user] = Obeyed(job[s].order, @)]
    /\ CountLate(s)
    /\ Return(s)
    /\ UNCHANGED <<strategy, claim, invites, status, notice, history>>

\* The UPDATE or DELETE of an order.  A connection then sends a notice of
\* removal; the admin page does not.
Operate(s) ==
    LET u == job[s].user
    IN  /\ pc[s] = "operate"
        /\ members' = IF Joined(u)
                      THEN [members EXCEPT ![u] = Obeyed(job[s].order, @)]
                      ELSE members
        /\ CountLate(s)
        /\ IF s \in Connections /\ job[s].order \in {"kick", "ban"}
           THEN Proceed(s, "notify")
           ELSE Return(s)
        /\ UNCHANGED <<strategy, claim, invites, status, notice, history>>

\* notify_member_removal: looks the victim up to name it in the broadcast.
Notify(s) ==
    /\ pc[s] = "notify"
    /\ notice' = [notice EXCEPT ![s] = IF Joined(job[s].user) THEN "named" ELSE "empty"]
    /\ Return(s)
    /\ UNCHANGED <<members, strategy, claim, invites, status, history, late>>

\* get_join_request.  Only the WebSocket handler refuses a request that is no
\* longer pending.
RequestRead(s) ==
    /\ pc[s] = "request_read"
    /\ IF s \in Consoles \/ status[job[s].item] = "pending"
       THEN Proceed(s, "decide")
       ELSE Return(s)
    /\ UNCHANGED <<members, strategy, claim, invites, status, notice, history, late>>

\* Mutant of Decide: approving stops after the status was set.
DecideOnly(s) ==
    /\ pc[s] = "decide"
    /\ status' = [status EXCEPT ![job[s].item] = job[s].order]
    /\ UNCHANGED members
    /\ CountLate(s)
    /\ Return(s)
    /\ UNCHANGED <<strategy, claim, invites, notice, history>>

\* set_join_request_status; an approval goes on to add the member.
Decide(s) ==
    /\ pc[s] = "decide"
    /\ status' = [status EXCEPT ![job[s].item] = job[s].order]
    /\ UNCHANGED members
    /\ CountLate(s)
    /\ IF job[s].order = "approve" THEN Proceed(s, "count") ELSE Return(s)
    /\ UNCHANGED <<strategy, claim, invites, notice, history>>

-----------------------------------------------------------------------------
(* Settings and failures *)

\* handle_update_server_settings and api_update_settings.
ChangeStrategy(st) ==
    /\ strategy # st
    /\ strategy' = st
    /\ UNCHANGED <<members, claim, invites, status, pc, job, notice, history, late>>

CreateInvite(i) ==
    /\ i \notin issued
    /\ issued' = issued \cup {i}
    /\ UNCHANGED <<members, strategy, claim, used, revoked, status, pc, job, notice,
                   history, late>>

RevokeInvite(i) ==
    /\ i \in issued \ revoked
    /\ revoked' = revoked \cup {i}
    /\ UNCHANGED <<members, strategy, claim, issued, used, status, pc, job, notice,
                   history, late>>

\* A statement fails.  `?` leaves the handler and the client gets no answer
\* (consume_invite: it is refused); an approval of the admin page goes on, and
\* takes the member for not the first.
StatementFails(s) ==
    /\ pc[s] # "idle"
    /\ IF s \in Consoles /\ job[s].order = "approve" /\ pc[s] \in {"decide", "count"}
       THEN Proceed(s, IF pc[s] = "decide" THEN "count" ELSE "upsert")
       ELSE Return(s)
    /\ UNCHANGED <<members, strategy, claim, invites, status, notice, history, late>>

\* The process stops, losing the requests in flight.  When it starts again,
\* ensure_owner_claim_code makes a new code if there is neither code nor member.
Restart ==
    /\ pc' = [s \in Sessions |-> "idle"]
    /\ job' = [s \in Sessions |-> NoJob]
    /\ claim' = (claim \/ NoMembers)
    /\ claimants' = IF ~claim /\ NoMembers THEN {} ELSE claimants
    /\ UNCHANGED <<members, strategy, invites, status, notice, entered, late>>

-----------------------------------------------------------------------------
(* The specification *)

Labels == {"idle", "claim_read", "claim_upsert", "claim_clear", "policy", "consume", "apply",
           "count", "upsert", "operate", "notify", "request_read", "decide"}

Statuses == {"none", "pending"} \cup Decisions

\* The first start of the server: a claim code and nobody in.
Init ==
    /\ members = [u \in Users |-> Absent]
    /\ strategy \in Strategies
    /\ claim = TRUE
    /\ issued = {}
    /\ used = {}
    /\ revoked = {}
    /\ status = [r \in Requests |-> "none"]
    /\ pc = [s \in Sessions |-> "idle"]
    /\ job = [s \in Sessions |-> NoJob]
    /\ notice = [s \in Connections |-> "none"]
    /\ claimants = {}
    /\ entered = [i \in Invites |-> {}]
    /\ late = [u \in Users |-> 0]

Submit(s) ==
    \/ \E i \in Invites \cup {Nothing} : Join(s, "join", i)
    \/ Join(s, "claim", Nothing)
    \/ Leave(s)
    \/ \E order \in Orders, u \in Users : Order(s, order, u)
    \/ \E order \in Orders, r \in Requests : Handle(s, order, r)

\* A handler that has started runs its next statement.
Continue(s) ==
    \/ ClaimRead(s) \/ ClaimUpsert(s) \/ ClaimClear(s)
    \/ JoinPolicy(s) \/ Consume(s) \/ FileRequest(s) \/ Count(s) \/ Enter(s)
    \/ Operate(s) \/ Notify(s) \/ RequestRead(s) \/ Decide(s)

Administer ==
    \/ \E st \in Strategies : ChangeStrategy(st)
    \/ \E i \in Invites : CreateInvite(i) \/ RevokeInvite(i)

Serve ==
    \/ \E s \in Sessions : Submit(s) \/ Continue(s)
    \/ Administer

Fail ==
    \/ \E s \in Sessions : StatementFails(s)
    \/ Restart

Next == Serve \/ Fail

Spec == Init /\ [][Next]_vars

-----------------------------------------------------------------------------
(* Properties *)

MembersOK ==
    /\ members \in [Users -> Row]
    /\ \A u \in Users : ~Joined(u) => members[u] = Absent

\* Every handler has the arguments its next statement needs.
HandlersOK ==
    /\ pc \in [Sessions -> Labels]
    /\ job \in [Sessions -> Job]
    /\ \A s \in Sessions : /\ pc[s] = "idle" <=> job[s] = NoJob
                           /\ pc[s] # "idle" => job[s].user \in Users
                           /\ pc[s] = "operate" => job[s].order \in MemberOrders
                           /\ pc[s] \in {"request_read", "decide"} =>
                                  job[s].item \in Requests /\ job[s].order \in Decisions

TypeOK ==
    /\ MembersOK
    /\ HandlersOK
    /\ strategy \in Strategies
    /\ claim \in BOOLEAN
    /\ issued \subseteq Invites
    /\ used \subseteq issued
    /\ revoked \subseteq issued
    /\ status \in [Requests -> Statuses]
    /\ notice \in [Connections -> {"none", "named", "empty"}]
    /\ claimants \subseteq Users
    /\ entered \in [Invites -> SUBSET Users]
    /\ late \in [Users -> Nat]

\* An invite lets at most one user in, however many present it at once.
InviteAdmitsOne ==
    \A i \in Invites : \A u, v \in entered[i] : u = v

\* A join or an approval that overtakes another one of the same user never
\* undoes what operators did to the member in between: role, mute and ban of a
\* member change by an order about that member only.
StandingKept ==
    [][\A u \in Users :
           Joined(u) /\ Joined(u)' /\ members'[u] # members[u] =>
               \E s \in Sessions : /\ pc[s] = "operate" /\ job[s].user = u
                                   /\ members'[u] = Obeyed(job[s].order, members[u])]_vars

\* An operator that lost the role carries out at most the order that each of
\* its connections had in flight.
LateOrdersBounded ==
    \A u \in Users : late[u] <= Cardinality({s \in Connections : UserOf[s] = u})

\* While nothing fails, an approval that is under way makes the applicant a
\* member.
ApprovalAdmits ==
    \A r \in Requests :
        (\E s \in Sessions : pc[s] = "decide" /\ job[s].order = "approve" /\ job[s].item = r)
            ~> Joined(Applicant[r])

\* What the code says of itself and a run refutes.
\* The claim code is spent by the first user who joins with it.
ClaimIsSingleUse == \A u, v \in claimants : u = v
=============================================================================
