----------------------------- MODULE MessageLog -----------------------------
(***************************************************************************)
(* The server's message log: the `messages` table of server/src/storage.rs *)
(* and the three handlers of server/src/ws.rs that write it                *)
(* (handle_send_message, handle_edit_message, handle_delete_message), with *)
(* the bulk deletions of the admin interface.                              *)
(*                                                                         *)
(* A session is one WebSocket connection after its Hello.  handle_socket   *)
(* handles one request of a session at a time, but the requests of         *)
(* different sessions interleave at every `.await` on the connection pool, *)
(* so each handler is split there: pc[s] names the statement session s     *)
(* runs next.  One SQL statement, or one transaction, is one step.         *)
(*                                                                         *)
(* A message is what its author sent once: AuthorOf and TopicOf stand for  *)
(* the author_id and topic_id columns, which no handler changes, and the   *)
(* message itself for the client-chosen msg_id.  Signatures, names, texts  *)
(* and attachments are left out; the removal of a deleted message's        *)
(* attachment, a step of handle_delete_message that touches neither this   *)
(* table nor the broadcast channel, is left out with them.                 *)
(***************************************************************************)
EXTENDS Integers, FiniteSets

CONSTANTS
    Users, Sessions, Topics, Messages,
    NoMessage,    \* the argument of an idle session
    UserOf,       \* [Sessions -> Users]     current_user of a session
    AuthorOf,     \* [Messages -> Users]     author_id
    TopicOf,      \* [Messages -> Topics]    topic_id
    Standings,    \* the standings a member is given, see Standing
    Accesses,     \* the settings a topic is given: public, admins (only), gone
    RateLimit,    \* rate_limit_per_minute; 0 switches the limit off
    MaxSeq        \* bound: no row is inserted once seq MaxSeq was assigned

\* What the handlers read of a row of `members`.
Standing == [joined : BOOLEAN, admin : BOOLEAN, muted : BOOLEAN, banned : BOOLEAN]

ASSUME MessageLogAssumption ==
    /\ NoMessage \notin Messages
    /\ IsFiniteSet(Sessions)
    /\ UserOf \in [Sessions -> Users]
    /\ AuthorOf \in [Messages -> Users]
    /\ TopicOf \in [Messages -> Topics]
    /\ Standings \subseteq Standing
    /\ Accesses \subseteq {"public", "admins", "gone"}
    /\ RateLimit \in Nat
    /\ MaxSeq \in Nat

VARIABLES
    messages,   \* the rows of the table
    lastSeq,    \* sqlite_sequence: the largest seq ever assigned
    standing,   \* the members table, per user
    access,     \* type and permission of each topic, or "gone"
    spoken,     \* speak_limits: admissions in the open window of a user
    pc,         \* the next statement of each session
    arg,        \* the message its request names, NoMessage when idle
    asAdmin,    \* is_admin as handle_send_message read it
    since,      \* history: lastSeq when storage.edit_message read the row
    out,        \* the row a session has committed and not yet broadcast
    committed,  \* history: every row ever inserted
    published,  \* history: every row sent on the broadcast channel
    cleared,    \* history: messages whose row the admin interface removed
    late        \* history: rows a user inserted since losing the right to

vars == <<messages, lastSeq, standing, access, spoken, pc, arg, asAdmin,
          since, out, committed, published, cleared, late>>

table == <<messages, lastSeq, committed, cleared, late>>
rules == <<standing, access>>

-----------------------------------------------------------------------------
(* Rows and queries *)

\* The (edited, deleted) flags of a row: (0,0), (1,0) or (0,1).
Kinds == {"new", "edited", "deleted"}

Row == [msg : Messages, seq : 1..MaxSeq, kind : Kinds]

\* The row(s) of a message: get_message_by_id, and the SELECT of append_message.
RowsOf(m) == {r \in messages : r.msg = m}

Stored(m) == RowsOf(m) # {}

\* The query of get_message_by_id followed by the callers' `deleted` test.
Live(m) == \E r \in RowsOf(m) : r.kind # "deleted"

\* A user's standing allows sending: joined, not banned, not muted.
MaySend(st) == st.joined /\ ~st.banned /\ ~st.muted

\* can_speak: an announcement or read-only topic takes admins only.
CanSpeak(t, admin) == access[t] = "public" \/ (access[t] = "admins" /\ admin)

-----------------------------------------------------------------------------
(* Steps every handler shares *)

Goto(s, label) == pc' = [pc EXCEPT ![s] = label]

\* The handler returns to handle_socket and its locals are gone.
Return(s) ==
    /\ Goto(s, "idle")
    /\ arg' = [arg EXCEPT ![s] = NoMessage]
    /\ asAdmin' = [asAdmin EXCEPT ![s] = FALSE]
    /\ since' = [since EXCEPT ![s] = 0]
    /\ out' = [out EXCEPT ![s] = {}]

\* It goes on, its locals unchanged.
Proceed(s, label) ==
    /\ Goto(s, label)
    /\ UNCHANGED <<arg, asAdmin, since, out>>

\* Mutant of Insert: a plain rowid, the largest seq in the table plus one.
InsertRowid(s, kind, gone) ==
    LET used == {0} \cup {r.seq : r \in messages \ gone}
        max == CHOOSE n \in used : \A k \in used : k <= n
        row == [msg |-> arg[s], seq |-> max + 1, kind |-> kind]
    IN  /\ max < MaxSeq
        /\ lastSeq' = IF max + 1 > lastSeq THEN max + 1 ELSE lastSeq
        /\ messages' = (messages \ gone) \cup {row}
        /\ committed' = committed \cup {row}
        /\ out' = [out EXCEPT ![s] = {row}]
        /\ Goto(s, "announce")
        /\ UNCHANGED <<arg, asAdmin, since>>

\* INSERT of a row for arg[s], after the DELETE of `gone` in the same
\* transaction; the broadcast comes next.  AUTOINCREMENT never hands out a seq
\* twice.
Insert(s, kind, gone) ==
    LET row == [msg |-> arg[s], seq |-> lastSeq + 1, kind |-> kind]
    IN  /\ lastSeq < MaxSeq
        /\ lastSeq' = lastSeq + 1
        /\ messages' = (messages \ gone) \cup {row}
        /\ committed' = committed \cup {row}
        /\ out' = [out EXCEPT ![s] = {row}]
        /\ Goto(s, "announce")
        /\ UNCHANGED <<arg, asAdmin, since>>

-----------------------------------------------------------------------------
(* handle_send_message *)

\* Mutant of SendAdmit: the mute is forgotten.
SendAdmitMuted(s, m) ==
    LET u == UserOf[s]
    IN  /\ pc[s] = "idle"
        /\ AuthorOf[m] = u
        /\ standing[u].joined /\ ~standing[u].banned
        /\ IF RateLimit = 0
           THEN UNCHANGED spoken
           ELSE /\ spoken[u] < RateLimit
                /\ spoken' = [spoken EXCEPT ![u] = @ + 1]
        /\ arg' = [arg EXCEPT ![s] = m]
        /\ asAdmin' = [asAdmin EXCEPT ![s] = standing[u].admin]
        /\ Goto(s, "send_topic")
        /\ UNCHANGED <<table, rules, since, out, published>>

\* get_member and the speaking-rate window of the user.  Rejections leave the
\* state as it was: the counter matters only up to RateLimit.
SendAdmit(s, m) ==
    LET u == UserOf[s]
    IN  /\ pc[s] = "idle"
        /\ AuthorOf[m] = u
        /\ MaySend(standing[u])
        /\ IF RateLimit = 0
           THEN UNCHANGED spoken
           ELSE /\ spoken[u] < RateLimit
                /\ spoken' = [spoken EXCEPT ![u] = @ + 1]
        /\ arg' = [arg EXCEPT ![s] = m]
        /\ asAdmin' = [asAdmin EXCEPT ![s] = standing[u].admin]
        /\ Goto(s, "send_topic")
        /\ UNCHANGED <<table, rules, since, out, published>>

\* get_topic and can_speak, with the role read by SendAdmit.
SendTopic(s) ==
    /\ pc[s] = "send_topic"
    /\ IF CanSpeak(TopicOf[arg[s]], asAdmin[s])
       THEN Proceed(s, "send_dedup")
       ELSE Return(s)
    /\ UNCHANGED <<table, rules, spoken, published>>

\* append_message, first statement: the idempotence query.
SendDedup(s) ==
    /\ pc[s] = "send_dedup"
    /\ IF Stored(arg[s])
       THEN Return(s)        \* acknowledged as duplicated
       ELSE Proceed(s, "send_insert")
    /\ UNCHANGED <<table, rules, spoken, published>>

\* Mutant of SendInsert: no unique index on (author_id, msg_id).
SendInsertNoIndex(s) ==
    /\ pc[s] = "send_insert"
    /\ Insert(s, "new", {})
    /\ UNCHANGED <<rules, spoken, published, cleared, late>>

\* append_message, second statement.  idx_messages_author_msg refuses a second
\* row of the same message, and the request ends like any failed statement.
SendInsert(s) ==
    /\ pc[s] = "send_insert"
    /\ IF Stored(arg[s])
       THEN /\ Return(s)
            /\ UNCHANGED table
       ELSE /\ Insert(s, "new", {})
            /\ late' = IF MaySend(standing[UserOf[s]]) THEN late
                       ELSE [late EXCEPT ![UserOf[s]] = @ + 1]
            /\ UNCHANGED cleared
    /\ UNCHANGED <<rules, spoken, published>>

\* Mutant of Announce: the broadcast carries the newest seq, not the row's own.
AnnounceNewestSeq(s) ==
    /\ pc[s] = "announce"
    /\ published' = published \cup {[r EXCEPT !.seq = lastSeq] : r \in out[s]}
    /\ Return(s)
    /\ UNCHANGED <<table, rules, spoken>>

\* The broadcast that ends each of the three handlers; then the request is
\* acknowledged.
Announce(s) ==
    /\ pc[s] = "announce"
    /\ published' = published \cup out[s]
    /\ Return(s)
    /\ UNCHANGED <<table, rules, spoken>>

-----------------------------------------------------------------------------
(* handle_edit_message *)

\* The handler's own read: only the author, only while not deleted.
EditAdmit(s, m) ==
    /\ pc[s] = "idle"
    /\ AuthorOf[m] = UserOf[s]
    /\ Live(m)
    /\ arg' = [arg EXCEPT ![s] = m]
    /\ Goto(s, "edit_read")
    /\ UNCHANGED <<table, rules, spoken, asAdmin, since, out, published>>

\* Mutant of EditRead: the deleted flag is not tested again.
EditReadAnyRow(s) ==
    /\ pc[s] = "edit_read"
    /\ IF Stored(arg[s])
       THEN /\ since' = [since EXCEPT ![s] = lastSeq]
            /\ Goto(s, "edit_commit")
            /\ UNCHANGED <<arg, asAdmin, out>>
       ELSE Return(s)
    /\ UNCHANGED <<table, rules, spoken, published>>

\* storage.edit_message reads the row again, outside its transaction.
EditRead(s) ==
    /\ pc[s] = "edit_read"
    /\ IF Live(arg[s])
       THEN /\ since' = [since EXCEPT ![s] = lastSeq]
            /\ Goto(s, "edit_commit")
            /\ UNCHANGED <<arg, asAdmin, out>>
       ELSE Return(s)
    /\ UNCHANGED <<table, rules, spoken, published>>

\* Mutant of EditCommit: no transaction, the INSERT fails after the DELETE.
EditCommitTorn(s) ==
    /\ pc[s] = "edit_commit"
    /\ messages' = messages \ RowsOf(arg[s])
    /\ Return(s)
    /\ UNCHANGED <<lastSeq, committed, cleared, late, rules, spoken, published>>

\* The transaction: DELETE the rows of the message, INSERT the edited row.
EditCommit(s) ==
    /\ pc[s] = "edit_commit"
    /\ Insert(s, "edited", RowsOf(arg[s]))
    /\ UNCHANGED <<rules, spoken, published, cleared, late>>

-----------------------------------------------------------------------------
(* handle_delete_message *)

\* The handler's own read; a tombstone may be deleted again.
DeleteAdmit(s, m) ==
    /\ pc[s] = "idle"
    /\ Stored(m)
    /\ arg' = [arg EXCEPT ![s] = m]
    /\ Goto(s, "delete_auth")
    /\ UNCHANGED <<table, rules, spoken, asAdmin, since, out, published>>

\* get_member: the author, or an admin.
DeleteAuth(s) ==
    LET st == standing[UserOf[s]]
    IN  /\ pc[s] = "delete_auth"
        /\ IF AuthorOf[arg[s]] = UserOf[s] \/ (st.joined /\ st.admin)
           THEN Proceed(s, "delete_read")
           ELSE Return(s)
        /\ UNCHANGED <<table, rules, spoken, published>>

\* storage.delete_message reads the row again, outside its transaction.
DeleteRead(s) ==
    /\ pc[s] = "delete_read"
    /\ IF Stored(arg[s]) THEN Proceed(s, "delete_commit") ELSE Return(s)
    /\ UNCHANGED <<table, rules, spoken, published>>

\* Mutant of DeleteCommit: the row is deleted and no tombstone kept.
DeleteCommitHard(s) ==
    /\ pc[s] = "delete_commit"
    /\ messages' = messages \ RowsOf(arg[s])
    /\ Return(s)
    /\ UNCHANGED <<lastSeq, committed, cleared, late, rules, spoken, published>>

\* Mutant of DeleteCommit: the handler returns without its broadcast.
DeleteCommitSilent(s) ==
    LET row == [msg |-> arg[s], seq |-> lastSeq + 1, kind |-> "deleted"]
    IN  /\ pc[s] = "delete_commit"
        /\ lastSeq < MaxSeq
        /\ lastSeq' = lastSeq + 1
        /\ messages' = (messages \ RowsOf(arg[s])) \cup {row}
        /\ committed' = committed \cup {row}
        /\ Return(s)
        /\ UNCHANGED <<rules, spoken, published, cleared, late>>

\* The transaction: DELETE the rows of the message, INSERT the tombstone.
DeleteCommit(s) ==
    /\ pc[s] = "delete_commit"
    /\ Insert(s, "deleted", RowsOf(arg[s]))
    /\ UNCHANGED <<rules, spoken, published, cleared, late>>

-----------------------------------------------------------------------------
(* The environment of the handlers *)

\* A statement fails (pool exhausted, database busy or full, seq at its bound):
\* a transaction rolls back, `?` leaves the handler, and handle_socket logs the
\* error and goes on without an answer to the client.
StatementFails(s) ==
    /\ pc[s] \notin {"idle", "announce"}
    /\ Return(s)
    /\ UNCHANGED <<table, rules, spoken, published>>

\* The admin interface clears a topic, a user's messages, a time range (rows
\* are stamped in seq order) or everything: rows vanish without a tombstone.
Scopes ==
    {{r \in messages : TopicOf[r.msg] = t} : t \in Topics} \cup
    {{r \in messages : AuthorOf[r.msg] = u} : u \in Users} \cup
    {{r \in messages : r.seq \in lo..hi} : lo, hi \in 1..MaxSeq}

Clear(rows) ==
    /\ rows # {}
    /\ messages' = messages \ rows
    /\ cleared' = cleared \cup {r.msg : r \in rows}
    /\ UNCHANGED <<lastSeq, committed, late, rules, spoken, pc, arg, asAdmin, since,
                   out, published>>

\* Join, leave, kick, role, mute and ban: any change of a user's standing.
Moderate(u, st) ==
    /\ standing[u] # st
    /\ standing' = [standing EXCEPT ![u] = st]
    /\ late' = [late EXCEPT ![u] = IF MaySend(st) THEN 0 ELSE @]
    /\ UNCHANGED <<messages, lastSeq, committed, cleared, access, spoken, pc, arg, asAdmin,
                   since, out, published>>

\* Topic creation, update and deletion.
ChangeTopic(t, a) ==
    /\ access[t] # a
    /\ access' = [access EXCEPT ![t] = a]
    /\ UNCHANGED <<table, standing, spoken, pc, arg, asAdmin, since, out, published>>

\* Sixty seconds since the first message of the window.
WindowExpires(u) ==
    /\ spoken[u] > 0
    /\ spoken' = [spoken EXCEPT ![u] = 0]
    /\ UNCHANGED <<table, rules, pc, arg, asAdmin, since, out, published>>

\* The process stops and starts again: the database survives, requests in
\* flight and the in-memory speak_limits do not.
Restart ==
    /\ pc' = [s \in Sessions |-> "idle"]
    /\ arg' = [s \in Sessions |-> NoMessage]
    /\ asAdmin' = [s \in Sessions |-> FALSE]
    /\ since' = [s \in Sessions |-> 0]
    /\ out' = [s \in Sessions |-> {}]
    /\ spoken' = [u \in Users |-> 0]
    /\ UNCHANGED <<table, rules, published>>

-----------------------------------------------------------------------------
(* The specification *)

Labels == {"idle", "send_topic", "send_dedup", "send_insert", "edit_read", "edit_commit",
           "delete_auth", "delete_read", "delete_commit", "announce"}

Init ==
    /\ messages = {}
    /\ lastSeq = 0
    /\ standing \in [Users -> Standings]
    /\ access \in [Topics -> Accesses]
    /\ spoken = [u \in Users |-> 0]
    /\ pc = [s \in Sessions |-> "idle"]
    /\ arg = [s \in Sessions |-> NoMessage]
    /\ asAdmin = [s \in Sessions |-> FALSE]
    /\ since = [s \in Sessions |-> 0]
    /\ out = [s \in Sessions |-> {}]
    /\ committed = {}
    /\ published = {}
    /\ cleared = {}
    /\ late = [u \in Users |-> 0]

Request(s, m) == SendAdmit(s, m) \/ EditAdmit(s, m) \/ DeleteAdmit(s, m)

\* A handler that has started runs its next statement.
Continue(s) ==
    \/ SendTopic(s) \/ SendDedup(s) \/ SendInsert(s)
    \/ EditRead(s) \/ EditCommit(s)
    \/ DeleteAuth(s) \/ DeleteRead(s) \/ DeleteCommit(s)
    \/ Announce(s)
    \/ StatementFails(s)

Environment ==
    \/ \E rows \in Scopes : Clear(rows)
    \/ \E u \in Users, st \in Standings : Moderate(u, st)
    \/ \E t \in Topics, a \in Accesses : ChangeTopic(t, a)
    \/ \E u \in Users : WindowExpires(u)

Serve ==
    \/ \E s \in Sessions, m \in Messages : Request(s, m)
    \/ \E s \in Sessions : Continue(s)
    \/ Environment

Next == Serve \/ Restart

Spec == Init /\ [][Next]_vars

\* A handler that waits for the pool is scheduled again; without restarts.
FairSpec == Init /\ [][Serve]_vars /\ \A s \in Sessions : WF_vars(Continue(s))
-----------------------------------------------------------------------------
(* Properties *)

TypeOK ==
    /\ messages \subseteq Row
    /\ lastSeq \in 0..MaxSeq
    /\ standing \in [Users -> Standings]
    /\ access \in [Topics -> Accesses]
    /\ spoken \in [Users -> 0..RateLimit]
    /\ pc \in [Sessions -> Labels]
    /\ arg \in [Sessions -> Messages \cup {NoMessage}]
    /\ \A s \in Sessions : pc[s] = "idle" <=> arg[s] = NoMessage
    /\ asAdmin \in [Sessions -> BOOLEAN]
    /\ since \in [Sessions -> 0..MaxSeq]
    /\ out \in [Sessions -> SUBSET committed]
    /\ committed \subseteq Row
    /\ published \subseteq committed
    /\ cleared \subseteq Messages
    /\ late \in [Users -> Nat]

\* The idempotence of a send: whatever retries, edits and deletions race, the
\* table never shows a message twice.
OneRowPerMessage == \A r, q \in messages : r.msg = q.msg => r = q

\* The contract of the sync cursor: a row is only ever inserted above every
\* seq assigned before, also after deletions, bulk deletions and restarts, so
\* that a client that has seen everything up to its cursor is told of it.
SeqsOnlyGrow ==
    [][\A r \in committed' \ committed : \A q \in committed : q.seq < r.seq]_vars

\* Nothing is lost but by a bulk deletion: the newest event of every other
\* message is in the table, where sync and history find it.
NewestStored ==
    \A q \in committed : q.msg \notin cleared =>
        \E r \in messages : r.msg = q.msg /\ q.seq <= r.seq

\* A retry never brings a message back as new, not even once it was deleted:
\* its tombstone still answers the idempotence query.
PostedOnce ==
    \A p, q \in committed :
        p.msg = q.msg /\ p.kind = "new" /\ q.kind = "new" => p = q \/ p.msg \in cleared

\* An edit replaces a tombstone only if it had read the row before the
\* deletion was committed: once deleted, no edit that starts later succeeds.
OnlyRacingEditRevives ==
    [][\A t \in messages, e \in messages' :
           t.msg = e.msg /\ t.kind = "deleted" /\ e.kind = "edited" =>
               \E s \in Sessions : /\ pc[s] = "edit_commit" /\ arg[s] = t.msg
                                   /\ since[s] < t.seq]_vars

\* After a kick, a mute or a ban, at most the one message each of the user's
\* connections had in flight still reaches the log.
LateSendsBounded ==
    \A u \in Users : late[u] <= Cardinality({s \in Sessions : UserOf[s] = u})

\* While the server runs, everything that was committed is broadcast.
EventuallyAnnounced ==
    \A q \in 1..MaxSeq :
        (\E r \in committed : r.seq = q) ~> (\E r \in published : r.seq = q)

\* The log implements EventLog: the newest event of a message is its row, and
\* the other statements of the handlers change nothing a reader can see.
EventsOf(m) == {[seq |-> r.seq, kind |-> r.kind] : r \in RowsOf(m)}

Events == INSTANCE EventLog WITH
    latest <- [m \in Messages |-> EventsOf(m)],
    head <- lastSeq

ImplementsEventLog == Events!Spec

\* What the code says of itself and a race refutes: a deletion is final
\* ("only the record that a deletion took place at this seq is kept").
DeletionIsFinal ==
    [][\A t \in messages, e \in messages' :
           t.msg = e.msg /\ t.kind = "deleted" => e.kind = "deleted"]_vars
=============================================================================
