------------------------------ MODULE ClientSync ------------------------------
(***************************************************************************)
(* One device reading the log of one server: ServerConnection and          *)
(* LocalStore of the client (client/lib/src/state/server_connection.dart,  *)
(* client/lib/src/services/local_store.dart) against handle_sync,          *)
(* handle_history and the broadcast channel of server/src/ws.rs.           *)
(*                                                                         *)
(* The log is EventLog, read by its queries and written by other devices.  *)
(* An event is announced some time after it was committed, see MessageLog. *)
(*                                                                         *)
(* The client is a single isolate: a step of it is what runs between two   *)
(* awaits, so that broadcasts, a switch of the topic and other runs of     *)
(* _sync take place between the steps of one.  Operations on the local     *)
(* database are issued and executed in the same order, so that a write     *)
(* takes effect where it is issued, and so does _loadLocal, but after a    *)
(* switch of the topic: until then the list shows the old one.             *)
(*                                                                         *)
(* Texts, attachments, unread counts and the device's own unsent messages  *)
(* are left out, and of reactions all but what is broadcast of them: that  *)
(* someone reacted, or that the last reaction to a message was withdrawn.  *)
(***************************************************************************)
EXTENDS Integers, FiniteSets, Sequences

CONSTANTS
    Messages, Topics, TopicOf,
    Reacted,        \* bound: messages with reactions that come and go
    Syncs,          \* bound: runs of _sync that can overlap
    MaxSeq,         \* bound: events of the log
    SyncLimit,      \* rows in a sync response (100)
    HistoryLimit,   \* rows in a history response (50); 0: no paging here
    Capacity        \* events the broadcast channel keeps for a slow receiver (1024)

ASSUME ClientSyncAssumption ==
    /\ TopicOf \in [Messages -> Topics]
    /\ Topics # {}
    /\ Reacted \subseteq Messages
    /\ MaxSeq \in Nat
    /\ SyncLimit \in Nat \ {0}
    /\ HistoryLimit \in Nat
    /\ Capacity \in Nat \ {0}

VARIABLES
    latest, head,   \* the server's log, see EventLog
    announcing,     \* events committed and not yet broadcast
    conn,           \* "down", "shaking" (Hello, Join, RegisterDevice) or "up"
    rx,             \* events in the connection's receiver of the channel
    topic,          \* currentTopicId
    cursor,         \* _cursor
    cursors,        \* the local table `cursors`
    store,          \* the local table `messages`
    screen,         \* the ids in `messages`, the list on screen
    task,           \* the runs of _sync
    paging,         \* loadMoreHistory
    more,           \* hasMoreHistory
    owed            \* history: messages new to the device, sent to the current topic
                    \* of an uninterrupted connection, that no administrator removed
                    \* and whose last reaction nobody withdrew since

Log == INSTANCE EventLog

log == <<latest, head>>
local == <<cursors, store, screen>>
clientVars == <<latest, head, announcing, conn, rx, topic, cursor, cursors, store, screen, task,
          paging, more, owed>>

-----------------------------------------------------------------------------
(* Rows *)

Kinds == {"new", "edited", "deleted"}

\* Rows of the log ...
Entry == [msg : Messages, seq : 1..MaxSeq, kind : Kinds]

\* ... and of the local table, where the row with seq 0 comes from the event of a
\* message that has no reaction left.
StoredRow == [msg : Messages, seq : 0..MaxSeq, kind : Kinds]

\* What is broadcast: events of the log, and reactions with seq 0.  That event looks
\* like a new message without content.
Notice == [msg : Messages, seq : 0..MaxSeq, kind : Kinds \cup {"reacted"}]

\* The local rows of a topic: loadMessages.
LocalRows(t) == {r \in store : TopicOf[r.msg] = t}

HasRow(m) == \E r \in store : r.msg = m

\* And it is the message itself.
Stored(m) == \E r \in store : r.msg = m /\ r.seq # 0

\* _loadLocal.
Reload == screen' = {m \in Messages : TopicOf[m] = topic /\ HasRow(m)'}

\* UNIQUE(server_id, topic_id, seq) and UNIQUE(server_id, author_id, msg_id); a
\* reaction event has no author.
Clash(q, r) ==
    \/ q.seq = r.seq /\ TopicOf[q.msg] = TopicOf[r.msg]
    \/ q.msg = r.msg /\ (q.seq = 0 <=> r.seq = 0)

\* upsertMessage(s): INSERT OR REPLACE.
UpsertRows(rows) == store' = rows \cup {r \in store : \A q \in rows : ~Clash(q, r)}

\* markDeleted and markEdited: a row keeps its place, and a deleted one its mark.
Mark(e) ==
    store' = {IF r.msg = e.msg /\ r.kind # "deleted" THEN [r EXCEPT !.kind = e.kind] ELSE r :
                 r \in store}

-----------------------------------------------------------------------------
(* The server *)

\* seq is the cursor until the server has answered, and the answer's latest_seq
\* from then on.
NoTask == [at |-> "idle", topic |-> "none", seq |-> 0, page |-> {}]

NoPaging == [at |-> "idle", topic |-> "none", before |-> 0, page |-> {}]

\* The connection is served one request at a time, and while a request is
\* handled, or its response under way, nothing is forwarded from the channel.
Serving ==
    \/ \E k \in Syncs : task[k].at \in {"paged", "answered"}
    \/ paging.at = "answered"

\* broadcast_simple: a receiver that lags loses the oldest.
Broadcast(e) ==
    /\ conn # "down"
    /\ rx' = Append(IF Len(rx) = Capacity THEN Tail(rx) ELSE rx, e)
    /\ owed' = owed \ ((IF Len(rx) = Capacity THEN {Head(rx).msg} ELSE {})
                       \cup (IF e.seq = 0 /\ e.kind = "new" THEN {e.msg} ELSE {}))

\* The device has not met the message.
New(m) == ~HasRow(m) /\ m \notin screen /\ \A i \in DOMAIN rx : rx[i].msg # m

\* Other devices send, edit and delete.
Commit(m) ==
    /\ Log!Post(m) \/ (latest[m] # {} /\ (Log!Edit(m) \/ Log!Delete(m)))
    /\ announcing' = announcing \cup
           {[msg |-> m, seq |-> e.seq, kind |-> e.kind] : e \in latest'[m]}
    /\ owed' = IF latest[m] = {} /\ conn # "down" /\ TopicOf[m] = topic /\ New(m)
               THEN owed \cup {m} ELSE owed
    /\ UNCHANGED <<conn, rx, topic, cursor, local, task, paging, more>>

\* An administrator removes a message; no event tells of it.
Purge(m) ==
    /\ latest[m] # {}
    /\ Log!Purge({m})
    /\ owed' = owed \ {m}
    /\ UNCHANGED <<announcing, conn, rx, topic, cursor, local, task, paging, more>>

\* Mutant of Announce: a channel without a bound.
AnnounceUnbounded(e) ==
    /\ announcing' = announcing \ {e}
    /\ rx' = IF conn = "down" THEN rx ELSE Append(rx, e)
    /\ UNCHANGED <<log, conn, topic, cursor, local, task, paging, more, owed>>

\* A handler broadcasts its event.
Announce(e) ==
    /\ announcing' = announcing \ {e}
    /\ Broadcast(e) \/ (conn = "down" /\ UNCHANGED <<rx, owed>>)
    /\ UNCHANGED <<log, conn, topic, cursor, local, task, paging, more>>

\* handle_add_reaction, handle_remove_reaction, of a message that is in the log:
\* what is left is broadcast.
React(m) ==
    /\ m \in Reacted /\ latest[m] # {}
    /\ \E kind \in {"reacted", "new"} : Broadcast([msg |-> m, seq |-> 0, kind |-> kind])
    /\ UNCHANGED <<log, announcing, conn, topic, cursor, local, task, paging, more>>

\* handle_sync, first statement: the page ...
SyncPage(k) ==
    /\ task[k].at = "asked"
    /\ conn # "down"
    /\ ~Serving
    /\ task' = [task EXCEPT ![k].at = "paged",
                            ![k].page = Log!Since(task[k].topic, task[k].seq, SyncLimit)]
    /\ UNCHANGED <<log, announcing, conn, rx, topic, cursor, local, paging, more, owed>>

\* Mutant of SyncLatest: the seq the next event will have.
SyncLatestNext(k) ==
    /\ task[k].at = "paged"
    /\ task' = [task EXCEPT ![k] = [at |-> "answered", topic |-> "none", page |-> @.page,
                                   seq |-> Log!LatestSeq(@.topic) + 1]]
    /\ UNCHANGED <<log, announcing, conn, rx, topic, cursor, local, paging, more, owed>>

\* ... and the second: latest_seq.
SyncLatest(k) ==
    /\ task[k].at = "paged"
    /\ task' = [task EXCEPT ![k] = [at |-> "answered", topic |-> "none", page |-> @.page,
                                   seq |-> Log!LatestSeq(@.topic)]]
    /\ UNCHANGED <<log, announcing, conn, rx, topic, cursor, local, paging, more, owed>>

\* handle_history.  before_seq 0 becomes u64::MAX, which the query binds as -1.
HistoryPage ==
    /\ paging.at = "asked"
    /\ conn # "down"
    /\ ~Serving
    /\ paging' = [paging EXCEPT !.at = "answered",
                                !.page = IF paging.before = 0 THEN {}
                                         ELSE Log!Before(paging.topic, paging.before, HistoryLimit)]
    /\ UNCHANGED <<log, announcing, conn, rx, topic, cursor, local, task, more, owed>>

-----------------------------------------------------------------------------
(* The connection *)

\* What was asked on a connection that is gone is never answered.
Orphaned(t) == IF t.at \in {"asked", "paged", "answered"} THEN [t EXCEPT !.at = "lost"] ELSE t

\* ConnectionService opens the socket; the server subscribes it to the channel
\* before it has said Hello.
Connect ==
    /\ conn = "down"
    /\ conn' = "shaking"
    /\ rx' = <<>>
    /\ UNCHANGED <<log, announcing, topic, cursor, local, task, paging, more, owed>>

Disconnect ==
    /\ conn # "down"
    /\ conn' = "down"
    /\ rx' = <<>>
    /\ task' = [k \in Syncs |-> Orphaned(task[k])]
    /\ paging' = Orphaned(paging)
    /\ owed' = {}
    /\ UNCHANGED <<log, announcing, topic, cursor, local, more>>

\* The server stops: events not broadcast by then never are.
ServerStops ==
    /\ announcing # {}
    /\ announcing' = {}
    /\ conn' = "down"
    /\ rx' = <<>>
    /\ task' = [k \in Syncs |-> Orphaned(task[k])]
    /\ paging' = Orphaned(paging)
    /\ owed' = {}
    /\ UNCHANGED <<log, topic, cursor, local, more>>

\* The app is killed and started: the local database and the last topic survive.
AppRestarts ==
    /\ conn' = "down"
    /\ rx' = <<>>
    /\ task' = [k \in Syncs |-> NoTask]
    /\ paging' = NoPaging
    /\ more' = TRUE
    /\ cursor' = 0
    /\ owed' = {}
    /\ UNCHANGED <<log, announcing, topic, cursors, store>>
    /\ Reload

-----------------------------------------------------------------------------
(* _onBroadcast *)

\* Mutant of Deliver: what arrives while a sync runs is left to it.
DeliverUnlessSyncing ==
    LET e == Head(rx)
    IN  /\ conn # "down" /\ rx # <<>> /\ ~Serving
        /\ rx' = Tail(rx)
        /\ IF TopicOf[e.msg] = topic /\ e.kind = "new" /\ \A k \in Syncs : task[k].at = "idle"
           THEN /\ UpsertRows({e}) /\ screen' = screen \cup {e.msg}
                /\ cursor' = e.seq /\ cursors' = [cursors EXCEPT ![topic] = e.seq]
           ELSE UNCHANGED <<cursor, local>>
        /\ UNCHANGED <<log, announcing, conn, topic, task, paging, more, owed>>

\* Reactions update the local row.  An event of another topic only counts as
\* unread; an edit or a deletion marks the local row; a message that is not on
\* screen is stored and moves the cursor, as does the event of one that has no
\* reaction left.
Deliver ==
    LET e == Head(rx)
    IN  /\ conn # "down" /\ rx # <<>> /\ ~Serving
        /\ rx' = Tail(rx)
        /\ CASE e.kind = "reacted" ->
                    UNCHANGED <<cursor, cursors, store>> /\ Reload
             [] e.kind # "reacted" /\ TopicOf[e.msg] # topic ->
                    UNCHANGED <<cursor, local>>
             [] e.kind \in {"edited", "deleted"} /\ TopicOf[e.msg] = topic ->
                    Mark(e) /\ Reload /\ UNCHANGED <<cursor, cursors>>
             [] e.kind = "new" /\ TopicOf[e.msg] = topic /\ e.msg \in screen ->
                    UNCHANGED <<cursor, local>>
             [] OTHER ->
                    /\ UpsertRows({e})
                    /\ screen' = screen \cup {e.msg}
                    /\ cursor' = e.seq
                    /\ cursors' = [cursors EXCEPT ![topic] = e.seq]
        /\ UNCHANGED <<log, announcing, conn, topic, task, paging, more, owed>>

-----------------------------------------------------------------------------
(* _sync *)

\* _sync is called at the end of the handshake ...
Handshake(k) ==
    /\ conn = "shaking"
    /\ conn' = "up"
    /\ task[k].at = "idle"
    /\ task' = [task EXCEPT ![k].at = "called"]
    /\ UNCHANGED <<log, announcing, rx, topic, cursor, local, paging, more, owed>>

\* ... and by switchTopic, once it has loaded the list of the new topic.
SwitchTopic(k, t) ==
    /\ t # topic
    /\ topic' = t
    /\ task[k].at = "idle"
    /\ task' = [task EXCEPT ![k].at = "switched"]
    /\ owed' = {}
    /\ UNCHANGED <<log, announcing, conn, rx, cursor, local, paging, more>>

SwitchLoad(k) ==
    /\ task[k].at = "switched"
    /\ task' = [task EXCEPT ![k].at = "called"]
    /\ UNCHANGED <<log, announcing, conn, rx, topic, cursor, cursors, store, paging, more, owed>>
    /\ Reload

\* readCursor for the topic that is current now ...
SyncRead(k) ==
    /\ task[k].at = "called"
    /\ task' = [task EXCEPT ![k].at = "read", ![k].seq = cursors[topic]]
    /\ UNCHANGED <<log, announcing, conn, rx, topic, cursor, local, paging, more, owed>>

\* ... and the request for the topic that is current then.
SyncAsk(k) ==
    /\ task[k].at = "read"
    /\ cursor' = task[k].seq
    /\ task' = [task EXCEPT ![k].at = IF conn = "down" THEN "lost" ELSE "asked",
                            ![k].topic = topic]
    /\ UNCHANGED <<log, announcing, conn, rx, topic, local, paging, more, owed>>

\* The response arrives; the ids of the current topic are loaded and the events
\* of known messages left out, as are deletions of unknown ones.
SyncFilter(k) ==
    /\ task[k].at = "answered"
    /\ task' = [task EXCEPT
           ![k].at = "filtered",
           ![k].page = {r \in @ : \/ r.kind = "new"
                                 \/ (/\ r.kind = "edited"
                                     /\ r.msg \notin {q.msg : q \in LocalRows(topic)})}]
    /\ UNCHANGED <<log, announcing, conn, rx, topic, cursor, local, paging, more, owed>>

SyncStore(k) ==
    /\ task[k].at = "filtered"
    /\ UpsertRows(task[k].page)
    /\ Reload
    /\ task' = [task EXCEPT ![k].at = "stored"]
    /\ UNCHANGED <<log, announcing, conn, rx, topic, cursor, cursors, paging, more, owed>>

\* The cursor moves to latest_seq, whatever the page held and whichever topic is
\* current by now.
SyncFinish(k) ==
    /\ task[k].at = "stored"
    /\ IF task[k].seq > cursor
       THEN /\ cursor' = task[k].seq
            /\ cursors' = [cursors EXCEPT ![topic] = task[k].seq]
       ELSE UNCHANGED <<cursor, cursors>>
    /\ task' = [task EXCEPT ![k] = NoTask]
    /\ UNCHANGED <<log, announcing, conn, rx, topic, store, screen, paging, more, owed>>

\* No answer within ten seconds ...
SyncTimesOut(k) ==
    /\ task[k].at = "lost"
    /\ task' = [task EXCEPT ![k] = NoTask]
    /\ UNCHANGED <<log, announcing, conn, rx, topic, cursor, local, paging, more, owed>>

\* ... though the server is there, or the local database refuses the rows.
SyncFails(k) ==
    /\ task[k].at \in {"asked", "paged", "answered", "filtered"}
    /\ task' = [task EXCEPT ![k] = NoTask]
    /\ UNCHANGED <<log, announcing, conn, rx, topic, cursor, local, paging, more, owed>>

-----------------------------------------------------------------------------
(* loadMoreHistory *)

Oldest(t) ==
    IF LocalRows(t) = {} THEN 0
    ELSE CHOOSE n \in {r.seq : r \in LocalRows(t)} : \A r \in LocalRows(t) : n <= r.seq

HistoryAsk ==
    /\ HistoryLimit > 0
    /\ paging.at = "idle"
    /\ more
    /\ paging' = [at |-> IF conn = "down" THEN "lost" ELSE "asked", topic |-> topic,
                  before |-> Oldest(topic), page |-> {}]
    /\ UNCHANGED <<log, announcing, conn, rx, topic, cursor, local, task, more, owed>>

HistoryStore ==
    /\ paging.at = "answered"
    /\ UpsertRows(paging.page)
    /\ IF paging.page = {} THEN UNCHANGED screen ELSE Reload
    /\ more' = (Cardinality(paging.page) = HistoryLimit)
    /\ paging' = NoPaging
    /\ UNCHANGED <<log, announcing, conn, rx, topic, cursor, cursors, task, owed>>

HistoryFails ==
    /\ paging.at \in {"asked", "answered", "lost"}
    /\ paging' = NoPaging
    /\ UNCHANGED <<log, announcing, conn, rx, topic, cursor, local, task, more, owed>>

-----------------------------------------------------------------------------
(* The specification *)

ClientInit ==
    /\ Log!Init
    /\ announcing = {}
    /\ conn = "down"
    /\ rx = <<>>
    /\ topic \in Topics
    /\ cursor = 0
    /\ cursors = [t \in Topics |-> 0]
    /\ store = {}
    /\ screen = {}
    /\ task = [k \in Syncs |-> NoTask]
    /\ paging = NoPaging
    /\ more = TRUE
    /\ owed = {}

Sync(k) ==
    \/ SwitchLoad(k) \/ SyncRead(k) \/ SyncAsk(k) \/ SyncPage(k) \/ SyncLatest(k)
    \/ SyncFilter(k) \/ SyncStore(k) \/ SyncFinish(k) \/ SyncTimesOut(k)

History == HistoryAsk \/ HistoryPage \/ HistoryStore

\* What happens without a failure.
ClientRun ==
    \/ \E m \in Messages : Commit(m) \/ Purge(m) \/ React(m)
    \/ \E e \in announcing : Announce(e)
    \/ Connect
    \/ Deliver
    \/ \E k \in Syncs : Handshake(k) \/ Sync(k)
    \/ \E k \in Syncs, t \in Topics : SwitchTopic(k, t)
    \/ History

ClientFail ==
    \/ Disconnect \/ ServerStops \/ AppRestarts
    \/ \E k \in Syncs : SyncFails(k)
    \/ HistoryFails

ClientNext == ClientRun \/ ClientFail

ClientSpec == ClientInit /\ [][ClientNext]_clientVars

CalmSpec == ClientInit /\ [][ClientRun]_clientVars

\* Without failures, handlers and responses are not held up for ever, and select!
\* picks among its ready branches at random, so that a connection that is asked
\* again and again still forwards what the channel holds.
DeliveryFairness ==
    /\ WF_clientVars(\E e \in announcing : Announce(e))
    /\ SF_clientVars(Deliver)
    /\ WF_clientVars(HistoryPage \/ HistoryStore)
    /\ \A k \in Syncs : WF_clientVars(Sync(k))

-----------------------------------------------------------------------------
(* Properties *)

Places == {"idle", "switched", "called", "read", "asked", "paged", "answered", "filtered", "stored", "lost"}

Task == [at : Places, topic : Topics \cup {"none"}, seq : 0..MaxSeq, page : SUBSET Entry]

Paging == [at : Places, topic : Topics \cup {"none"}, before : 0..MaxSeq, page : SUBSET Entry]

ClientTypeOK ==
    /\ Log!TypeOK
    /\ announcing \subseteq Entry
    /\ conn \in {"down", "shaking", "up"}
    /\ rx \in Seq(Notice)
    /\ Len(rx) <= Capacity
    /\ topic \in Topics
    /\ cursor \in 0..MaxSeq
    /\ cursors \in [Topics -> 0..MaxSeq]
    /\ store \subseteq StoredRow
    /\ screen \subseteq Messages
    /\ task \in [Syncs -> Task]
    /\ paging \in Paging
    /\ more \in BOOLEAN
    /\ owed \subseteq Messages

\* A cursor never runs ahead of the log, over whichever topic, page or broadcast
\* it was written from: later events are still asked for.
CursorsBehindHead == \A t \in Topics : cursors[t] <= head

\* A message that the device holds stays: INSERT OR REPLACE under two unique
\* indexes only ever replaces it by an event of its own, because the server never
\* hands out a seq twice, and no reaction event takes its place.  (Two rows of
\* reaction events do push each other out.)
MessagesSurvive == [][\A m \in Messages : Stored(m) => Stored(m)']_clientVars

\* A device that stays connected on one topic misses nothing that is sent there:
\* once all is quiet it holds every such message, although broadcasts overtake
\* and overlap the sync.
ConnectedMissesNothing ==
    announcing = {} /\ rx = <<>> => \A m \in owed : Stored(m)

\* And it gets each of them in the end.
OwedArrives == \A m \in Messages : m \in owed ~> (Stored(m) \/ m \notin owed)

\* What the code says of itself and a run refutes.
\* A device that is connected and has caught up.
Settled ==
    /\ conn = "up" /\ announcing = {} /\ rx = <<>> /\ paging.at = "idle"
    /\ \A k \in Syncs : task[k].at = "idle"

\* The cursor is "the largest seq synchronised": a message below it and above the
\* oldest on screen, which neither sync nor paging asks for again, is there.
NothingSkipped ==
    Settled => \A m \in Messages : \A e \in latest[m] :
        /\ e.kind # "deleted" /\ e.seq <= cursors[TopicOf[m]]
        /\ \E r \in LocalRows(TopicOf[m]) : r.seq < e.seq
        => Stored(m)

\* Events of known messages can be left out of a sync because they have been
\* marked already: a settled device shows no message of its topic that is deleted.
DeletionsArrive ==
    Settled => \A r \in LocalRows(topic) : \A e \in latest[r.msg] :
                   e.kind = "deleted" => r.kind = "deleted"
=============================================================================
