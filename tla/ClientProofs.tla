----------------------------- MODULE ClientProofs -----------------------------
(***************************************************************************)
(* Safety of ClientSync for any number of messages, topics and events, any *)
(* page sizes and channel capacity, and any number of overlapping runs of  *)
(* _sync, which the runs of TLC keep to one; and of Outbox for any entries *)
(* and texts and any number of attempts.                                   *)
(***************************************************************************)
EXTENDS ClientSync, Outbox, FiniteSetTheorems, WellFoundedInduction, SequenceTheorems, TLAPS

LogRows == {r \in Entry : \E e \in latest[r.msg] : r.seq = e.seq /\ r.kind = e.kind}

Received == {rx[i] : i \in DOMAIN rx}

Pages == paging.page \cup UNION {task[k].page : k \in Syncs}

\* Every event there is: in the log, on its way, in a response or stored locally;
\* reactions are none.
Held ==
    {r \in LogRows \cup store \cup announcing \cup Received \cup Pages : r.seq # 0}

\* The events of S are known ones, but for their kind.
Kept(S) == \A r \in S : r.seq # 0 => \E q \in Held : q.msg = r.msg /\ q.seq = r.seq

\* No two messages share a seq, and no event is above the head.
RowsOK ==
    /\ \A r \in Held : r.seq <= head
    /\ \A r, q \in Held : r.seq = q.seq => r.msg = q.msg

CursorsOK ==
    /\ cursor <= head
    /\ CursorsBehindHead
    /\ \A k \in Syncs : task[k].seq <= head

IInv == ClientTypeOK /\ RowsOK /\ CursorsOK

-----------------------------------------------------------------------------
(* The queries of the log *)

\* A non-empty set of naturals has a least element: its least initial segment is.
LEMMA Least ==
    ASSUME NEW S \in SUBSET Nat, S # {}
    PROVE  \E n \in S : \A k \in S : n <= k
  <1> DEFINE T == {0..n : n \in S}
  <1>1. T \subseteq FiniteSubsetsOf(Nat) /\ T # {}
    <2>1. \A n \in S : IsFiniteSet(0..n)
      BY FS_Interval
    <2>2. \A n \in S : 0..n \in SUBSET Nat
      OBVIOUS
    <2> QED
      BY <2>1, <2>2 DEF FiniteSubsetsOf
  <1>2. PICK x \in T : \A y \in T : <<y, x>> \notin StrictSubsetOrdering(Nat)
    BY <1>1, FS_StrictSubsetOrderingWellFounded, WFMin
  <1>3. PICK n \in S : x = 0..n
    OBVIOUS
  <1>4. ASSUME NEW k \in S, k < n PROVE FALSE
    <2>1. 0..k \in T
      OBVIOUS
    <2>2. /\ 0..k \in SUBSET Nat /\ x \in SUBSET Nat
          /\ 0..k \subseteq x /\ 0..k # x
      BY <1>3, <1>4
    <2>3. <<0..k, x>> \in StrictSubsetOrdering(Nat)
      BY <2>2 DEF StrictSubsetOrdering
    <2> QED
      BY <1>2, <2>1, <2>3
  <1> QED
    BY <1>4

\* And with a bound B a greatest one, from which B is nearest.
LEMMA Greatest ==
    ASSUME NEW B \in Nat, NEW S \in SUBSET (0..B), S # {}
    PROVE  \E n \in S : \A k \in S : k <= n
  <1> DEFINE D == {B - k : k \in S}
  <1>1. \A k \in S : B - k \in Nat
    OBVIOUS
  <1>2. D \in SUBSET Nat /\ D # {}
    BY <1>1
  <1>3. PICK d \in D : \A c \in D : d <= c
    BY <1>2, Least
  <1>4. PICK n \in S : d = B - n
    OBVIOUS
  <1>5. ASSUME NEW k \in S PROVE k <= n
    <2>1. B - k \in D
      OBVIOUS
    <2> QED
      BY <1>3, <1>4, <2>1
  <1> QED
    BY <1>5

LEMMA RowsType ==
    ASSUME ClientTypeOK, NEW t
    PROVE  /\ Log!Rows(t) \subseteq LogRows
           /\ LogRows \subseteq Entry
  <1> SUFFICES ASSUME NEW m \in Messages, NEW e \in latest[m]
               PROVE  [msg |-> m, seq |-> e.seq, kind |-> e.kind] \in LogRows
    BY DEF Log!Rows, LogRows
  <1>1. e \in Log!Event
    BY DEF ClientTypeOK, Log!TypeOK
  <1> QED
    BY <1>1 DEF LogRows, Entry, Kinds, Log!Event

LEMMA PagesType ==
    ASSUME ClientTypeOK, NEW t, NEW n, NEW limit
    PROVE  /\ Log!Since(t, n, limit) \subseteq LogRows
           /\ Log!Before(t, n, limit) \subseteq LogRows
  BY RowsType DEF Log!Since, Log!Before, Log!First, Log!Last

LEMMA LatestSeqType ==
    ASSUME ClientTypeOK, NEW t
    PROVE  /\ Log!LatestSeq(t) \in 0..MaxSeq
           /\ (\A r \in LogRows : r.seq <= head) => Log!LatestSeq(t) <= head
  <1> DEFINE S == {r.seq : r \in Log!Rows(t)}
  <1>1. CASE Log!Rows(t) = {}
    BY <1>1, ClientSyncAssumption DEF Log!LatestSeq, ClientTypeOK, Log!TypeOK
  <1>2. CASE Log!Rows(t) # {}
    <2>1. S \in SUBSET (0..MaxSeq) /\ S # {}
      BY <1>2, RowsType, ClientSyncAssumption DEF Entry
    <2>2. \E n \in S : \A k \in S : k <= n
      BY <2>1, Greatest, ClientSyncAssumption
    <2>3. Log!LatestSeq(t) \in S
      BY <1>2, <2>2 DEF Log!LatestSeq
    <2> QED
      BY <2>1, <2>3, RowsType
  <1> QED
    BY <1>1, <1>2

LEMMA OldestType ==
    ASSUME ClientTypeOK, NEW t \in Topics
    PROVE  Oldest(t) \in 0..MaxSeq
  <1> DEFINE S == {r.seq : r \in LocalRows(t)}
  <1>1. CASE LocalRows(t) = {}
    BY <1>1, ClientSyncAssumption DEF Oldest
  <1>2. CASE LocalRows(t) # {}
    <2>1. S \in SUBSET (0..MaxSeq) /\ S # {}
      BY <1>2 DEF LocalRows, ClientTypeOK, StoredRow
    <2> S \in SUBSET Nat
      BY <2>1
    <2>2. \E n \in S : \A k \in S : n <= k
      BY <2>1, Least
    <2>3. Oldest(t) \in S
      BY <1>2, <2>2 DEF Oldest, LocalRows
    <2> QED
      BY <2>1, <2>3
  <1> QED
    BY <1>1, <1>2

-----------------------------------------------------------------------------
(* Type correctness *)

LEMMA InitTypeOK == ClientInit => ClientTypeOK
  BY ClientSyncAssumption
  DEF ClientInit, ClientTypeOK, Log!Init, Log!TypeOK, NoTask, NoPaging, Task, Paging, Places

\* The channel with one event more.
LEMMA AppendType ==
    ASSUME rx \in Seq(Notice), Len(rx) <= Capacity, NEW e \in Notice
    PROVE  LET new == Append(IF Len(rx) = Capacity THEN Tail(rx) ELSE rx, e)
           IN  /\ new \in Seq(Notice)
               /\ Len(new) <= Capacity
               /\ \A i \in DOMAIN new : new[i] = e \/ \E j \in DOMAIN rx : new[i] = rx[j]
  <1> DEFINE old == IF Len(rx) = Capacity THEN Tail(rx) ELSE rx
  <1>1. old \in Seq(Notice) /\ Len(old) < Capacity
    BY HeadTailProperties, ClientSyncAssumption
  <1>2. \A i \in DOMAIN old : \E j \in DOMAIN rx : old[i] = rx[j]
    BY HeadTailProperties, ClientSyncAssumption
  <1> HIDE DEF old
  <1>3. /\ Append(old, e) \in Seq(Notice)
        /\ Len(Append(old, e)) <= Capacity
        /\ \A i \in DOMAIN Append(old, e) :
              Append(old, e)[i] = e \/ \E j \in DOMAIN old : Append(old, e)[i] = old[j]
    BY <1>1, ClientSyncAssumption
  <1>4. \A i \in DOMAIN Append(old, e) :
              Append(old, e)[i] = e \/ \E j \in DOMAIN rx : Append(old, e)[i] = rx[j]
    BY <1>2, <1>3
  <1> QED
    BY <1>3, <1>4 DEF old

LEMMA TailType ==
    ASSUME rx \in Seq(Notice), Len(rx) <= Capacity, rx # <<>>
    PROVE  /\ Head(rx) \in Notice
           /\ Tail(rx) \in Seq(Notice)
           /\ Len(Tail(rx)) <= Capacity
           /\ Head(rx) \in {rx[i] : i \in DOMAIN rx}
           /\ \A i \in DOMAIN Tail(rx) : \E j \in DOMAIN rx : Tail(rx)[i] = rx[j]
  BY HeadTailProperties, ClientSyncAssumption

\* What a commit does to the log.
LEMMA CommitRecords ==
    ASSUME NEW m \in Messages, Commit(m)
    PROVE  \E kind \in Kinds : Log!Record(m, kind)
  BY DEF Commit, Log!Post, Log!Edit, Log!Delete, Kinds

LEMMA RecordType ==
    ASSUME ClientTypeOK, NEW m \in Messages, NEW kind \in Kinds, Log!Record(m, kind)
    PROVE  Log!TypeOK' /\ head' = head + 1 /\ head + 1 \in 1..MaxSeq
  <1>1. head + 1 \in 1..MaxSeq
    BY ClientSyncAssumption DEF ClientTypeOK, Log!TypeOK, Log!Record
  <1>2. [seq |-> head + 1, kind |-> kind] \in Log!Event
    BY <1>1 DEF Log!Event, Kinds
  <1> QED
    BY <1>1, <1>2 DEF ClientTypeOK, Log!TypeOK, Log!Record

LEMMA CommitType ==
    ASSUME ClientTypeOK, NEW m \in Messages, Commit(m)
    PROVE  ClientTypeOK'
  <1>1. Log!TypeOK'
    BY CommitRecords, RecordType
  <1>2. \A e \in latest'[m] : e \in Log!Event
    BY <1>1 DEF Log!TypeOK
  <1>3. announcing' \subseteq Entry
    BY <1>2 DEF Commit, ClientTypeOK, Entry, Kinds, Log!Event
  <1>4. owed' \subseteq Messages
    BY DEF Commit, ClientTypeOK
  <1> QED
    BY <1>1, <1>3, <1>4 DEF Commit, ClientTypeOK, local

LEMMA PurgeType ==
    ASSUME ClientTypeOK, NEW m \in Messages, Purge(m)
    PROVE  ClientTypeOK'
  <1>1. Log!TypeOK'
    BY DEF Purge, Log!Purge, ClientTypeOK, Log!TypeOK
  <1> QED
    BY <1>1 DEF Purge, ClientTypeOK, local

LEMMA EntriesAreNotices == Entry \subseteq Notice /\ Entry \subseteq StoredRow /\ StoredRow \subseteq Notice
  BY ClientSyncAssumption DEF Entry, Notice, StoredRow

\* What React broadcasts.
LEMMA ReactionType ==
    ASSUME NEW m \in Messages, React(m)
    PROVE  \E e \in Notice : e.seq = 0 /\ Broadcast(e)
  <1>1. \A kind \in {"reacted", "new"} : [msg |-> m, seq |-> 0, kind |-> kind] \in Notice
    BY ClientSyncAssumption DEF Notice, Kinds
  <1> QED
    BY <1>1 DEF React

\* The channel after a broadcast.
LEMMA BroadcastType ==
    ASSUME ClientTypeOK, NEW e \in Notice, Broadcast(e)
    PROVE  /\ rx' \in Seq(Notice) /\ Len(rx') <= Capacity
           /\ owed' \subseteq owed
           /\ Received' \subseteq Received \cup {e}
  <1>1. rx \in Seq(Notice) /\ Len(rx) <= Capacity
    BY DEF ClientTypeOK
  <1>2. rx' = Append(IF Len(rx) = Capacity THEN Tail(rx) ELSE rx, e)
    BY DEF Broadcast
  <1>3. owed' \subseteq owed
    BY DEF Broadcast
  <1>4. /\ rx' \in Seq(Notice) /\ Len(rx') <= Capacity
        /\ \A i \in DOMAIN rx' : rx'[i] = e \/ \E j \in DOMAIN rx : rx'[i] = rx[j]
    BY <1>1, <1>2, AppendType
  <1>5. Received' \subseteq Received \cup {e}
    BY <1>4 DEF Received
  <1> QED
    BY <1>3, <1>4, <1>5

LEMMA AnnounceType ==
    ASSUME ClientTypeOK, NEW e \in announcing, Announce(e)
    PROVE  ClientTypeOK'
  <1>1. e \in Notice /\ announcing' \subseteq announcing
    BY EntriesAreNotices DEF ClientTypeOK, Announce
  <1>2. rx' \in Seq(Notice) /\ Len(rx') <= Capacity /\ owed' \subseteq owed
    BY <1>1, BroadcastType DEF Announce, ClientTypeOK
  <1> QED
    BY <1>1, <1>2 DEF Announce, ClientTypeOK, log, local, Log!TypeOK

LEMMA ReactType ==
    ASSUME ClientTypeOK, NEW m \in Messages, React(m)
    PROVE  ClientTypeOK'
  <1>1. rx' \in Seq(Notice) /\ Len(rx') <= Capacity /\ owed' \subseteq owed
    BY ReactionType, BroadcastType
  <1> QED
    BY <1>1 DEF React, ClientTypeOK, log, local, Log!TypeOK

\* The list on screen as it is loaded.
LEMMA ReloadType == Reload => screen' \subseteq Messages
  BY DEF Reload

LEMMA DeliverType ==
    ASSUME ClientTypeOK, Deliver
    PROVE  ClientTypeOK'
  <1>1. Head(rx) \in Notice /\ Tail(rx) \in Seq(Notice) /\ Len(Tail(rx)) <= Capacity
    BY TailType DEF ClientTypeOK, Deliver
  <1>2. /\ Head(rx).seq \in 0..MaxSeq /\ Head(rx).msg \in Messages
        /\ Head(rx).kind \in Kinds \cup {"reacted"}
        /\ Head(rx).kind \in Kinds => Head(rx) \in StoredRow
    BY <1>1 DEF Notice, StoredRow
  <1>3. UpsertRows({Head(rx)}) /\ Head(rx).kind \in Kinds => store' \subseteq StoredRow
    BY <1>2 DEF UpsertRows, ClientTypeOK
  <1>4. Mark(Head(rx)) /\ Head(rx).kind \in Kinds => store' \subseteq StoredRow
    BY DEF Mark, ClientTypeOK, StoredRow
  <1>5. /\ \/ UNCHANGED store
           \/ (UpsertRows({Head(rx)}) \/ Mark(Head(rx))) /\ Head(rx).kind \in Kinds
        /\ UNCHANGED screen \/ Reload \/ screen' = screen \cup {Head(rx).msg}
        /\ \/ UNCHANGED <<cursor, cursors>>
           \/ cursor' = Head(rx).seq /\ cursors' = [cursors EXCEPT ![topic] = Head(rx).seq]
    BY <1>2 DEF Deliver, local
  <1>6. store' \subseteq StoredRow /\ screen' \subseteq Messages
    BY <1>2, <1>3, <1>4, <1>5, ReloadType DEF ClientTypeOK
  <1>7. cursor' \in 0..MaxSeq /\ cursors' \in [Topics -> 0..MaxSeq]
    BY <1>2, <1>5 DEF ClientTypeOK
  <1> QED
    BY <1>1, <1>6, <1>7 DEF Deliver, ClientTypeOK, log, Log!TypeOK

\* A run of _sync after a step of its own.
LEMMA TaskType ==
    ASSUME ClientTypeOK, NEW k \in Syncs, NEW x \in Task, task' = [task EXCEPT ![k] = x]
    PROVE  task' \in [Syncs -> Task]
  BY DEF ClientTypeOK

LEMMA OrphanedType ==
    /\ \A t \in Task : Orphaned(t) \in Task
    /\ \A t \in Paging : Orphaned(t) \in Paging
  BY DEF Orphaned, Task, Paging, Places

LEMMA ConnectionType ==
    ASSUME ClientTypeOK, Connect \/ Disconnect \/ ServerStops \/ AppRestarts
    PROVE  ClientTypeOK'
  <1>1. rx' \in Seq(Notice) /\ Len(rx') <= Capacity
    <2>1. rx' = <<>>
      BY DEF Connect, Disconnect, ServerStops, AppRestarts
    <2>2. <<>> \in Seq(Notice) /\ Len(<<>>) = 0
      OBVIOUS
    <2> QED
      BY <2>1, <2>2, ClientSyncAssumption
  <1>2. NoTask \in Task /\ NoPaging \in Paging
    BY ClientSyncAssumption DEF NoTask, NoPaging, Task, Paging, Places
  <1>3. task' \in [Syncs -> Task] /\ paging' \in Paging
    BY <1>2, OrphanedType DEF Connect, Disconnect, ServerStops, AppRestarts, ClientTypeOK
  <1>4. /\ UNCHANGED <<latest, head, topic, store, cursors>>
        /\ announcing' \in {announcing, {}}
    BY DEF Connect, Disconnect, ServerStops, AppRestarts, log, local
  <1>5. /\ conn' \in {"down", "shaking", "up"} /\ cursor' \in 0..MaxSeq
        /\ owed' \subseteq Messages /\ screen' \subseteq Messages
    BY ReloadType, ClientSyncAssumption
    DEF Connect, Disconnect, ServerStops, AppRestarts, ClientTypeOK, log, local
  <1>6. more' \in BOOLEAN
    BY DEF Connect, Disconnect, ServerStops, AppRestarts, ClientTypeOK, log, local
  <1> QED
    BY <1>1, <1>3, <1>4, <1>5, <1>6 DEF ClientTypeOK, Log!TypeOK

\* The runs of _sync after a step of one of them.
LEMMA SyncType ==
    ASSUME ClientTypeOK, NEW k \in Syncs, Sync(k) \/ SyncFails(k)
    PROVE  task' \in [Syncs -> Task]
  <1> DEFINE old == task[k]
  <1>1. /\ old \in Task /\ old.at \in Places /\ old.topic \in Topics \cup {"none"}
        /\ old.seq \in 0..MaxSeq /\ old.page \in SUBSET Entry
    BY DEF ClientTypeOK, Task
  <1>2. NoTask \in Task
    BY ClientSyncAssumption DEF NoTask, Task, Places
  <1>3. SwitchLoad(k) => task' = [task EXCEPT ![k] = [old EXCEPT !.at = "called"]]
    BY DEF SwitchLoad
  <1>4. SyncRead(k) => task' = [task EXCEPT ![k] = [old EXCEPT !.at = "read", !.seq = cursors[topic]]]
    BY DEF SyncRead
  <1>5. SyncAsk(k) => task' = [task EXCEPT ![k] =
            [old EXCEPT !.at = IF conn = "down" THEN "lost" ELSE "asked", !.topic = topic]]
    BY DEF SyncAsk
  <1>6. SyncPage(k) => task' = [task EXCEPT ![k] =
            [old EXCEPT !.at = "paged", !.page = Log!Since(old.topic, old.seq, SyncLimit)]]
    BY DEF SyncPage
  <1>7. SyncLatest(k) => task' = [task EXCEPT ![k] =
            [at |-> "answered", topic |-> "none", page |-> old.page, seq |-> Log!LatestSeq(old.topic)]]
    BY DEF SyncLatest
  <1>8. SyncFilter(k) => \E P \in SUBSET old.page :
            task' = [task EXCEPT ![k] = [old EXCEPT !.at = "filtered", !.page = P]]
    BY DEF SyncFilter
  <1>9. SyncStore(k) => task' = [task EXCEPT ![k] = [old EXCEPT !.at = "stored"]]
    BY DEF SyncStore
  <1>10. SyncFinish(k) \/ SyncTimesOut(k) \/ SyncFails(k) => task' = [task EXCEPT ![k] = NoTask]
    BY DEF SyncFinish, SyncTimesOut, SyncFails
  <1>11. /\ cursors[topic] \in 0..MaxSeq /\ topic \in Topics
         /\ Log!Since(old.topic, old.seq, SyncLimit) \subseteq Entry
         /\ Log!LatestSeq(old.topic) \in 0..MaxSeq
    BY PagesType, LatestSeqType, RowsType DEF ClientTypeOK
  <1> SUFFICES \E x \in Task : task' = [task EXCEPT ![k] = x]
    BY TaskType
  <1> HIDE DEF old
  <1> USE <1>1
  <1>a. CASE SwitchLoad(k)
    BY <1>a, <1>3 DEF Task, Places
  <1>b. CASE SyncRead(k)
    BY <1>b, <1>4, <1>11 DEF Task, Places
  <1>c. CASE SyncAsk(k)
    BY <1>c, <1>5, <1>11 DEF Task, Places
  <1>d. CASE SyncPage(k)
    BY <1>d, <1>6, <1>11 DEF Task, Places
  <1>e. CASE SyncLatest(k)
    BY <1>e, <1>7, <1>11 DEF Task, Places
  <1>f. CASE SyncFilter(k)
    BY <1>f, <1>8 DEF Task, Places
  <1>g. CASE SyncStore(k)
    BY <1>g, <1>9 DEF Task, Places
  <1>h. CASE SyncFinish(k) \/ SyncTimesOut(k) \/ SyncFails(k)
    BY <1>h, <1>2, <1>10
  <1> QED
    BY <1>a, <1>b, <1>c, <1>d, <1>e, <1>f, <1>g, <1>h DEF Sync

LEMMA UpsertType ==
    ASSUME ClientTypeOK, NEW rows \in SUBSET Entry, UpsertRows(rows)
    PROVE  store' \subseteq StoredRow
  BY EntriesAreNotices DEF UpsertRows, ClientTypeOK

LEMMA SyncTypeOK ==
    ASSUME ClientTypeOK, NEW k \in Syncs, Sync(k) \/ SyncFails(k)
    PROVE  ClientTypeOK'
  <1>1. task' \in [Syncs -> Task]
    BY SyncType
  <1>2. /\ UNCHANGED <<latest, head, announcing, conn, rx, topic, paging, more, owed>>
    BY DEF Sync, SwitchLoad, SyncRead, SyncAsk, SyncPage, SyncLatest, SyncFilter, SyncStore, SyncFinish,
           SyncTimesOut, SyncFails, log, local
  <1>3. task[k].seq \in 0..MaxSeq /\ task[k].page \in SUBSET Entry
    BY DEF ClientTypeOK, Task
  <1>4. store' \subseteq StoredRow
    <2>1. SyncStore(k) \/ UNCHANGED store
      BY DEF Sync, SwitchLoad, SyncRead, SyncAsk, SyncPage, SyncLatest, SyncFilter, SyncFinish,
             SyncTimesOut, SyncFails, local
    <2>2. SyncStore(k) => UpsertRows(task[k].page)
      BY DEF SyncStore
    <2> QED
      BY <1>3, <2>1, <2>2, UpsertType DEF ClientTypeOK
  <1>5. cursor' \in 0..MaxSeq /\ cursors' \in [Topics -> 0..MaxSeq]
    BY <1>3 DEF Sync, SwitchLoad, SyncRead, SyncAsk, SyncPage, SyncLatest, SyncFilter, SyncStore, SyncFinish,
           SyncTimesOut, SyncFails, local, ClientTypeOK
  <1>6. screen' \subseteq Messages
    <2>1. UNCHANGED screen \/ Reload
      BY DEF Sync, SwitchLoad, SyncRead, SyncAsk, SyncPage, SyncLatest, SyncFilter, SyncStore,
             SyncFinish, SyncTimesOut, SyncFails, local
    <2> QED
      BY <2>1, ReloadType DEF ClientTypeOK
  <1> QED
    BY <1>1, <1>2, <1>4, <1>5, <1>6 DEF ClientTypeOK, Log!TypeOK

LEMMA HistoryTypeOK ==
    ASSUME ClientTypeOK, History \/ HistoryFails
    PROVE  ClientTypeOK'
  <1>1. UNCHANGED <<latest, head, announcing, conn, rx, topic, cursor, cursors, task, owed>>
    BY DEF History, HistoryAsk, HistoryPage, HistoryStore, HistoryFails, log, local
  <1>2. NoPaging \in Paging
    BY ClientSyncAssumption DEF NoPaging, Paging, Places
  <1>3. /\ paging.before \in 0..MaxSeq /\ paging.page \in SUBSET Entry
        /\ paging.topic \in Topics \cup {"none"} /\ paging.at \in Places
        /\ topic \in Topics /\ Oldest(topic) \in 0..MaxSeq
        /\ Log!Before(paging.topic, paging.before, HistoryLimit) \subseteq Entry
    BY OldestType, PagesType, RowsType DEF ClientTypeOK, Paging
  <1>4. paging' \in Paging
    <2>1. HistoryAsk => paging' \in Paging
      BY <1>3 DEF HistoryAsk, Paging, Places
    <2>2. HistoryPage => paging' \in Paging
      BY <1>3 DEF HistoryPage, ClientTypeOK, Paging, Places
    <2> QED
      BY <1>2, <2>1, <2>2 DEF History, HistoryStore, HistoryFails
  <1>5. store' \subseteq StoredRow
    <2>1. HistoryStore \/ UNCHANGED store
      BY DEF History, HistoryAsk, HistoryPage, HistoryFails, local
    <2>2. HistoryStore => UpsertRows(paging.page)
      BY DEF HistoryStore
    <2> QED
      BY <1>3, <2>1, <2>2, UpsertType DEF ClientTypeOK
  <1>6. more' \in BOOLEAN
    BY DEF History, HistoryAsk, HistoryPage, HistoryStore, HistoryFails, ClientTypeOK
  <1>7. screen' \subseteq Messages
    <2>1. UNCHANGED screen \/ Reload
      BY DEF History, HistoryAsk, HistoryPage, HistoryStore, HistoryFails, local
    <2> QED
      BY <2>1, ReloadType DEF ClientTypeOK
  <1> QED
    BY <1>1, <1>4, <1>5, <1>6, <1>7 DEF ClientTypeOK, Log!TypeOK

LEMMA CallTypeOK ==
    ASSUME ClientTypeOK, NEW k \in Syncs, NEW t \in Topics, Handshake(k) \/ SwitchTopic(k, t)
    PROVE  ClientTypeOK'
  <1>1. PICK at \in {"called", "switched"} : task' = [task EXCEPT ![k] = [task[k] EXCEPT !.at = at]]
    BY DEF Handshake, SwitchTopic
  <1>2. task[k] \in Task
    BY DEF ClientTypeOK
  <1>3. [task[k] EXCEPT !.at = at] \in Task
    BY <1>2 DEF Task, Places
  <1>4. task' \in [Syncs -> Task]
    BY <1>1, <1>3, TaskType
  <1> QED
    BY <1>4 DEF Handshake, SwitchTopic, ClientTypeOK, Log!TypeOK, log, local

LEMMA NextTypeOK == ClientTypeOK /\ [ClientNext]_clientVars => ClientTypeOK'
  <1> SUFFICES ASSUME ClientTypeOK, [ClientNext]_clientVars PROVE ClientTypeOK'
    OBVIOUS
  <1>1. CASE \E m \in Messages : Commit(m) \/ Purge(m) \/ React(m)
    BY <1>1, CommitType, PurgeType, ReactType
  <1>2. CASE \E e \in announcing : Announce(e)
    BY <1>2, AnnounceType
  <1>3. CASE Deliver
    BY <1>3, DeliverType
  <1>4. CASE Connect \/ Disconnect \/ ServerStops \/ AppRestarts
    BY <1>4, ConnectionType
  <1>5. CASE \E k \in Syncs : Sync(k) \/ SyncFails(k)
    BY <1>5, SyncTypeOK
  <1>6. CASE \E k \in Syncs, t \in Topics : Handshake(k) \/ SwitchTopic(k, t)
    BY <1>6, CallTypeOK
  <1>7. CASE History \/ HistoryFails
    BY <1>7, HistoryTypeOK
  <1>8. CASE UNCHANGED clientVars
    BY <1>8 DEF clientVars, log, local, ClientTypeOK, Log!TypeOK
  <1> QED
    BY <1>1, <1>2, <1>3, <1>4, <1>5, <1>6, <1>7, <1>8, ClientSyncAssumption DEF ClientNext, ClientRun, ClientFail

\* The state of the device, of the connection and of the log is well typed, and
\* the channel never holds more than its capacity.
THEOREM TypeCorrect == ClientSpec => []ClientTypeOK
  BY InitTypeOK, NextTypeOK, PTL DEF ClientSpec

-----------------------------------------------------------------------------
(* Where rows come from *)

LEMMA HeldType == ClientTypeOK => Held \subseteq Notice
  <1> SUFFICES ASSUME ClientTypeOK PROVE Held \subseteq Notice
    OBVIOUS
  <1>1. LogRows \subseteq Notice /\ store \subseteq Notice /\ announcing \subseteq Notice
    BY EntriesAreNotices DEF ClientTypeOK, LogRows
  <1>2. Received \subseteq Notice
    BY DEF ClientTypeOK, Received
  <1>3. Pages \subseteq Notice
    BY EntriesAreNotices DEF ClientTypeOK, Pages, Task, Paging
  <1> QED
    BY <1>1, <1>2, <1>3 DEF Held

LEMMA HeldTypeNext == ClientTypeOK' => Held' \subseteq Notice
  <1>1. (ClientTypeOK => Held \subseteq Notice)'
    BY HeldType, PTL
  <1> QED
    BY <1>1

LEMMA PurgeKeeps ==
    ASSUME ClientTypeOK, NEW m \in Messages, Purge(m)
    PROVE  Kept(Held')
  <1>1. LogRows' \subseteq LogRows
    BY DEF Purge, Log!Purge, LogRows, Entry
  <1>2. UNCHANGED <<store, announcing, Received, Pages>>
    BY DEF Purge, local, Received, Pages
  <1> QED
    BY <1>1, <1>2 DEF Held, Kept

LEMMA AnnounceKeeps ==
    ASSUME ClientTypeOK, NEW e \in announcing, Announce(e)
    PROVE  Kept(Held')
  <1>1. Received' \subseteq Received \cup {e}
    <2>1. e \in Notice
      BY EntriesAreNotices DEF ClientTypeOK
    <2> QED
      BY <2>1, BroadcastType DEF Announce, Received
  <1>2. announcing' \subseteq announcing /\ UNCHANGED <<store, LogRows, Pages>>
    BY DEF Announce, log, local, LogRows, Pages
  <1> QED
    BY <1>1, <1>2 DEF Held, Kept

LEMMA ReactKeeps ==
    ASSUME ClientTypeOK, NEW m \in Messages, React(m)
    PROVE  Kept(Held')
  <1>1. PICK e \in Notice : e.seq = 0 /\ Broadcast(e)
    BY ReactionType
  <1>2. Received' \subseteq Received \cup {e}
    BY <1>1, BroadcastType
  <1>3. UNCHANGED <<announcing, store, LogRows, Pages>>
    BY DEF React, log, local, LogRows, Pages
  <1> QED
    BY <1>1, <1>2, <1>3 DEF Held, Kept

LEMMA DeliverKeeps ==
    ASSUME ClientTypeOK, Deliver
    PROVE  /\ Kept(Held')
           /\ Head(rx).seq # 0 => Head(rx) \in Held
  <1>1. /\ Head(rx) \in Received
        /\ Received' \subseteq Received
    BY TailType DEF Deliver, ClientTypeOK, Received
  <1>2. UNCHANGED <<announcing, LogRows, Pages>>
    BY DEF Deliver, log, LogRows, Pages
  <1>3. Kept(store')
    <2>1. UpsertRows({Head(rx)}) => Kept(store')
      BY <1>1 DEF UpsertRows, Kept, Held
    <2>2. Mark(Head(rx)) => Kept(store')
      BY DEF Mark, Kept, Held, ClientTypeOK, StoredRow
    <2>3. UNCHANGED store => Kept(store')
      BY DEF Kept, Held
    <2> QED
      BY <2>1, <2>2, <2>3 DEF Deliver, local
  <1> QED
    BY <1>1, <1>2, <1>3 DEF Held, Kept

LEMMA ConnectionKeeps ==
    ASSUME ClientTypeOK, Connect \/ Disconnect \/ ServerStops \/ AppRestarts
    PROVE  Kept(Held')
  <1>1. Received' = {}
    BY DEF Connect, Disconnect, ServerStops, AppRestarts, Received
  <1>2. UNCHANGED <<LogRows, store>> /\ announcing' \subseteq announcing
    BY DEF Connect, Disconnect, ServerStops, AppRestarts, log, local, LogRows
  <1>3. \A t \in Task \cup Paging : Orphaned(t).page = t.page
    BY DEF Orphaned, Task, Paging
  <1>4. NoTask.page = {} /\ NoPaging.page = {}
    BY DEF NoTask, NoPaging
  <1>5. Pages' \subseteq Pages
    BY <1>3, <1>4 DEF Connect, Disconnect, ServerStops, AppRestarts, ClientTypeOK, Pages
  <1> QED
    BY <1>1, <1>2, <1>5 DEF Held, Kept

\* A run of _sync holds rows of the log, and stores only rows it holds.
LEMMA SyncKeeps ==
    ASSUME ClientTypeOK, NEW k \in Syncs, Sync(k) \/ SyncFails(k)
    PROVE  Kept(Held')
  <1>1. UNCHANGED <<LogRows, announcing, Received, paging>>
    BY DEF Sync, SwitchLoad, SyncRead, SyncAsk, SyncPage, SyncLatest, SyncFilter, SyncStore, SyncFinish,
           SyncTimesOut, SyncFails, log, local, LogRows, Received
  <1>2. task \in [Syncs -> Task] /\ task[k] \in Task
    BY DEF ClientTypeOK
  <1>3. \A j \in Syncs : task'[j].page \subseteq task[j].page \cup LogRows
    <2>1. \A j \in Syncs \ {k} : task'[j] = task[j]
      BY <1>2 DEF Sync, SwitchLoad, SyncRead, SyncAsk, SyncPage, SyncLatest, SyncFilter, SyncStore, SyncFinish,
             SyncTimesOut, SyncFails
    <2>2. NoTask.page = {}
      BY DEF NoTask
    <2>3. Log!Since(task[k].topic, task[k].seq, SyncLimit) \subseteq LogRows
      BY PagesType
    <2>4. SyncPage(k) => task'[k].page \subseteq LogRows
      BY <1>2, <2>3 DEF SyncPage, Task
    <2>5. Sync(k) \/ SyncFails(k) => SyncPage(k) \/ task'[k].page \subseteq task[k].page
      BY <1>2, <2>2 DEF Sync, SwitchLoad, SyncRead, SyncAsk, SyncLatest, SyncFilter, SyncStore, SyncFinish,
             SyncTimesOut, SyncFails, Task
    <2> QED
      BY <2>1, <2>4, <2>5
  <1>4. Pages' \subseteq Pages \cup LogRows
    BY <1>1, <1>3 DEF Pages
  <1>5. store' \subseteq store \cup Pages
    BY DEF Sync, SwitchLoad, SyncRead, SyncAsk, SyncPage, SyncLatest, SyncFilter, SyncStore, SyncFinish,
           SyncTimesOut, SyncFails, local, UpsertRows, Pages
  <1> QED
    BY <1>1, <1>4, <1>5 DEF Held, Kept

LEMMA HistoryKeeps ==
    ASSUME ClientTypeOK, History \/ HistoryFails
    PROVE  Kept(Held')
  <1>1. UNCHANGED <<LogRows, announcing, Received, task>>
    BY DEF History, HistoryAsk, HistoryPage, HistoryStore, HistoryFails, log, local, LogRows,
           Received
  <1>2. Log!Before(paging.topic, paging.before, HistoryLimit) \subseteq LogRows
    BY PagesType
  <1>3. paging'.page \subseteq paging.page \cup LogRows
    <2>1. HistoryPage => paging'.page \subseteq LogRows
      BY <1>2 DEF HistoryPage, ClientTypeOK, Paging
    <2>2. HistoryAsk \/ HistoryStore \/ HistoryFails => paging'.page = {}
      BY DEF HistoryAsk, HistoryStore, HistoryFails, NoPaging
    <2> QED
      BY <2>1, <2>2 DEF History
  <1>4. Pages' \subseteq Pages \cup LogRows
    BY <1>1, <1>3 DEF Pages
  <1>5. store' \subseteq store \cup Pages
    BY DEF History, HistoryAsk, HistoryPage, HistoryStore, HistoryFails, local, UpsertRows, Pages
  <1> QED
    BY <1>1, <1>4, <1>5 DEF Held, Kept

LEMMA CallKeeps ==
    ASSUME ClientTypeOK, NEW k \in Syncs, NEW t \in Topics, Handshake(k) \/ SwitchTopic(k, t)
    PROVE  Kept(Held')
  <1>1. UNCHANGED <<LogRows, store, announcing, Received, paging>>
    BY DEF Handshake, SwitchTopic, log, local, LogRows, Received
  <1>2. \A j \in Syncs : task'[j].page = task[j].page
    <2>1. /\ task \in [Syncs -> Task]
          /\ \E at \in Places : task' = [task EXCEPT ![k].at = at]
      BY DEF Handshake, SwitchTopic, ClientTypeOK, Places
    <2> QED
      BY <2>1 DEF Task
  <1>3. UNCHANGED Pages
    BY <1>1, <1>2 DEF Pages
  <1> QED
    BY <1>1, <1>3 DEF Held, Kept

\* Only a commit makes a row with a new seq, the one above the head.
LEMMA CommitAdds ==
    ASSUME ClientTypeOK, NEW m \in Messages, Commit(m)
    PROVE  /\ head' = head + 1
           /\ \A r \in Held' : Kept({r}) \/ (r.msg = m /\ r.seq = head + 1)
  <1>1. PICK kind \in Kinds : Log!Record(m, kind)
    BY CommitRecords
  <1>2. UNCHANGED <<store, Received, Pages>>
    BY DEF Commit, local, Received, Pages
  <1>3. latest'[m] = {[seq |-> head + 1, kind |-> kind]}
    BY <1>1 DEF Log!Record, ClientTypeOK, Log!TypeOK
  <1>4. \A n \in Messages \ {m} : latest'[n] = latest[n]
    BY <1>1 DEF Log!Record, ClientTypeOK, Log!TypeOK
  <1>5. \A r \in LogRows' : r \in LogRows \/ (r.msg = m /\ r.seq = head + 1)
    BY <1>3, <1>4 DEF LogRows, Entry
  <1>6. \A r \in announcing' : r \in announcing \/ (r.msg = m /\ r.seq = head + 1)
    BY <1>3 DEF Commit
  <1>7. \A r \in Held' : r \in Held \/ (r.msg = m /\ r.seq = head + 1)
    BY <1>2, <1>5, <1>6 DEF Held
  <1> QED
    BY <1>1, <1>7 DEF Log!Record, Kept

\* A step keeps to the rows there are, or commits.
LEMMA StepRows ==
    ASSUME ClientTypeOK, [ClientNext]_clientVars
    PROVE  \/ head' = head /\ Kept(Held')
           \/ \E m \in Messages : Commit(m)
  <1>1. CASE \E m \in Messages : Purge(m) \/ React(m)
    BY <1>1, PurgeKeeps, ReactKeeps DEF Purge, Log!Purge, React, log
  <1>2. CASE \E e \in announcing : Announce(e)
    BY <1>2, AnnounceKeeps DEF Announce, log
  <1>3. CASE Deliver
    BY <1>3, DeliverKeeps DEF Deliver, log
  <1>4. CASE Connect \/ Disconnect \/ ServerStops \/ AppRestarts
    BY <1>4, ConnectionKeeps DEF Connect, Disconnect, ServerStops, AppRestarts, log
  <1>5. CASE \E k \in Syncs : Sync(k) \/ SyncFails(k)
    BY <1>5, SyncKeeps
    DEF Sync, SwitchLoad, SyncRead, SyncAsk, SyncPage, SyncLatest, SyncFilter, SyncStore, SyncFinish,
        SyncTimesOut, SyncFails, log
  <1>6. CASE \E k \in Syncs, t \in Topics : Handshake(k) \/ SwitchTopic(k, t)
    BY <1>6, CallKeeps DEF Handshake, SwitchTopic, log
  <1>7. CASE History \/ HistoryFails
    BY <1>7, HistoryKeeps
    DEF History, HistoryAsk, HistoryPage, HistoryStore, HistoryFails, log
  <1>8. CASE UNCHANGED clientVars
    <2>1. UNCHANGED <<LogRows, store, announcing, Received, Pages>>
      BY <1>8 DEF clientVars, log, local, LogRows, Received, Pages
    <2> QED
      BY <1>8, <2>1 DEF clientVars, log, Held, Kept
  <1> QED
    BY <1>1, <1>2, <1>3, <1>4, <1>5, <1>6, <1>7, <1>8, ClientSyncAssumption DEF ClientNext, ClientRun, ClientFail

LEMMA RowsInv ==
    ASSUME ClientTypeOK, RowsOK, [ClientNext]_clientVars
    PROVE  RowsOK' /\ head <= head'
  <1>1. Held \subseteq Notice /\ Held' \subseteq Notice /\ head \in Nat /\ MaxSeq \in Nat
    BY HeldType, NextTypeOK, HeldTypeNext, ClientSyncAssumption DEF ClientTypeOK, Log!TypeOK
  <1>2. CASE head' = head /\ Kept(Held')
    <2>1. \A r \in Held' : \E q \in Held : q.msg = r.msg /\ q.seq = r.seq
      BY <1>2 DEF Kept, Held
    <2> QED
      BY <1>1, <1>2, <2>1 DEF RowsOK
  <1>3. CASE \E m \in Messages : Commit(m)
    <2>1. PICK m \in Messages : Commit(m)
      BY <1>3
    <2>2. /\ head' = head + 1
          /\ \A r \in Held' : \/ r.msg = m /\ r.seq = head + 1
                              \/ \E q \in Held : q.msg = r.msg /\ q.seq = r.seq
      BY <2>1, CommitAdds DEF Kept, Held
    <2>3. \A r \in Held : r.seq \in Nat /\ r.seq <= head
      BY <1>1 DEF RowsOK, Notice
    <2> QED
      BY <1>1, <2>2, <2>3 DEF RowsOK
  <1> QED
    BY <1>2, <1>3, StepRows

-----------------------------------------------------------------------------
(* The cursors and the local rows *)

\* What a step writes as a cursor is an older cursor or the seq of a row.
LEMMA CursorsInv ==
    ASSUME ClientTypeOK, RowsOK, CursorsOK, [ClientNext]_clientVars
    PROVE  CursorsOK'
  <1> DEFINE Low(n) == n <= head
  <1>1. head <= head' /\ head \in Nat /\ head' \in Nat
    <2>1. ClientTypeOK'
      BY NextTypeOK
    <2>2. head \in 0..MaxSeq /\ head' \in 0..MaxSeq
      BY <2>1 DEF ClientTypeOK, Log!TypeOK
    <2>3. head <= head'
      BY RowsInv
    <2> QED
      BY <2>2, <2>3, ClientSyncAssumption
  <1>2. /\ cursor \in Nat /\ cursors \in [Topics -> Nat] /\ topic \in Topics
        /\ task \in [Syncs -> Task] /\ \A k \in Syncs : task[k].seq \in Nat
    BY ClientSyncAssumption DEF ClientTypeOK, Task
  <1>3. /\ Low(0) /\ Low(cursor)
        /\ \A t \in Topics : Low(cursors[t])
        /\ \A k \in Syncs : Low(task[k].seq)
        /\ \A r \in Held : Low(r.seq)
        /\ \A t : Low(Log!LatestSeq(t))
    BY <1>1, LatestSeqType DEF CursorsOK, CursorsBehindHead, RowsOK, Held
  <1> HIDE DEF Low
  <1>4. SUFFICES /\ Low(cursor')
                 /\ \A t \in Topics : Low(cursors'[t])
                 /\ \A k \in Syncs : Low(task'[k].seq)
    <2>1. cursor' \in Nat /\ cursors' \in [Topics -> Nat] /\ \A k \in Syncs : task'[k].seq \in Nat
      BY NextTypeOK, ClientSyncAssumption DEF ClientTypeOK, Task
    <2> QED
      BY <1>1, <2>1 DEF CursorsOK, CursorsBehindHead, Low
  <1>5. CASE UNCHANGED <<cursor, cursors, task>>
    BY <1>3, <1>5
  <1>6. CASE Deliver
    <2>1. Low(Head(rx).seq)
      BY <1>3, <1>6, DeliverKeeps
    <2> QED
      BY <1>2, <1>3, <1>6, <2>1 DEF Deliver, local
  <1>7. CASE Connect \/ Disconnect \/ ServerStops \/ AppRestarts
    <2>1. \A k \in Syncs : task'[k] \in {task[k], Orphaned(task[k]), NoTask}
      BY <1>2, <1>7 DEF Connect, Disconnect, ServerStops, AppRestarts
    <2>2. \A t \in Task : Orphaned(t).seq = t.seq
      BY DEF Orphaned, Task
    <2>3. NoTask.seq = 0
      BY DEF NoTask
    <2>4. \A k \in Syncs : Low(task'[k].seq)
      BY <1>2, <1>3, <2>1, <2>2, <2>3
    <2> QED
      BY <1>3, <1>7, <2>4 DEF Connect, Disconnect, ServerStops, AppRestarts, local
  <1>8. ASSUME NEW k \in Syncs, Sync(k) \/ SyncFails(k)
        PROVE  /\ Low(cursor')
               /\ \A t \in Topics : Low(cursors'[t])
               /\ \A j \in Syncs : Low(task'[j].seq)
    <2>1. \A j \in Syncs \ {k} : task'[j] = task[j]
      BY <1>2, <1>8
      DEF Sync, SwitchLoad, SyncRead, SyncAsk, SyncPage, SyncLatest, SyncFilter, SyncStore, SyncFinish,
          SyncTimesOut, SyncFails
    <2>2. Low(task'[k].seq)
      <3>1. task[k] \in Task
        BY <1>2
      <3>2. SyncRead(k) => task'[k].seq = cursors[topic]
        BY <1>2, <3>1 DEF SyncRead, Task
      <3>3. SyncLatest(k) => task'[k].seq = Log!LatestSeq(task[k].topic)
        BY <1>2, <3>1 DEF SyncLatest
      <3>4. SwitchLoad(k) \/ SyncAsk(k) \/ SyncPage(k) \/ SyncFilter(k) \/ SyncStore(k)
            => task'[k].seq = task[k].seq
        BY <1>2, <3>1 DEF SwitchLoad, SyncAsk, SyncPage, SyncFilter, SyncStore, Task
      <3>5. SyncFinish(k) \/ SyncTimesOut(k) \/ SyncFails(k) => task'[k].seq = 0
        BY <1>2 DEF SyncFinish, SyncTimesOut, SyncFails, NoTask
      <3> QED
        BY <1>2, <1>3, <1>8, <3>2, <3>3, <3>4, <3>5 DEF Sync
    <2>3. Low(cursor') /\ \A t \in Topics : Low(cursors'[t])
      BY <1>2, <1>3, <1>8
      DEF Sync, SwitchLoad, SyncRead, SyncAsk, SyncPage, SyncLatest, SyncFilter, SyncStore, SyncFinish,
          SyncTimesOut, SyncFails, local
    <2> QED
      BY <1>3, <2>1, <2>2, <2>3
  <1>9. ASSUME NEW k \in Syncs, NEW t \in Topics, Handshake(k) \/ SwitchTopic(k, t)
        PROVE  /\ Low(cursor')
               /\ \A s \in Topics : Low(cursors'[s])
               /\ \A j \in Syncs : Low(task'[j].seq)
    <2>1. /\ UNCHANGED <<cursor, cursors>>
          /\ \E at \in Places : task' = [task EXCEPT ![k].at = at]
      BY <1>9 DEF Handshake, SwitchTopic, Places, local
    <2>2. \A j \in Syncs : task'[j].seq = task[j].seq
      BY <1>2, <2>1 DEF Task
    <2> QED
      BY <1>3, <2>1, <2>2
  <1>10. ASSUME \/ \E m \in Messages : Commit(m) \/ Purge(m) \/ React(m)
                \/ \E e \in announcing : Announce(e)
                \/ History \/ HistoryFails
                \/ UNCHANGED clientVars
         PROVE  UNCHANGED <<cursor, cursors, task>>
    BY <1>10
    DEF Commit, Purge, React, Announce, History, HistoryAsk, HistoryPage, HistoryStore, HistoryFails,
        clientVars, local
  <1> QED
    BY <1>5, <1>6, <1>7, <1>8, <1>9, <1>10, ClientSyncAssumption DEF ClientNext, ClientRun, ClientFail

LEMMA InitIInv == ClientInit => IInv
  <1> SUFFICES ASSUME ClientInit PROVE IInv
    OBVIOUS
  <1>1. Held = {}
    BY DEF ClientInit, Log!Init, Held, LogRows, Received, Pages, NoTask, NoPaging, Entry
  <1>2. CursorsOK
    BY DEF ClientInit, Log!Init, CursorsOK, CursorsBehindHead, NoTask
  <1> QED
    BY <1>1, <1>2, InitTypeOK DEF IInv, RowsOK

LEMMA NextIInv == IInv /\ [ClientNext]_clientVars => IInv'
  BY NextTypeOK, RowsInv, CursorsInv DEF IInv

\* No cursor is ever ahead of the log, whichever runs of _sync, broadcasts and
\* switches of topic wrote it: the next sync asks for every later event.
THEOREM CursorsNeverPassTheHead == ClientSpec => []CursorsBehindHead
  <1>1. IInv => CursorsBehindHead
    BY DEF IInv, CursorsOK
  <1> QED
    BY <1>1, InitIInv, NextIInv, PTL DEF ClientSpec

\* INSERT OR REPLACE of known events replaces messages by themselves only, and the
\* event of a withdrawn reaction replaces none.
LEMMA UpsertSurvives ==
    ASSUME ClientTypeOK, RowsOK,
           NEW rows \in SUBSET (store \cup Received \cup Pages), UpsertRows(rows),
           NEW r \in store, r.seq # 0
    PROVE  \E q \in store' : q.msg = r.msg /\ q.seq # 0
  <1>1. \A q \in rows : Clash(q, r) => q.seq # 0
    BY DEF Clash
  <1>2. \A q \in rows : Clash(q, r) => q.msg = r.msg
    BY <1>1 DEF RowsOK, Held, Clash
  <1> QED
    BY <1>1, <1>2 DEF UpsertRows

\* No step loses a message from the local table.
Survives == \A m \in Messages : Stored(m) => Stored(m)'

LEMMA MarkSurvives ==
    ASSUME ClientTypeOK, NEW e, Mark(e)
    PROVE  /\ Survives
           /\ \A m \in Messages : HasRow(m)' => HasRow(m)
  <1>1. \A r \in store : LET q == [r EXCEPT !.kind = e.kind] IN q.msg = r.msg /\ q.seq = r.seq
    BY DEF ClientTypeOK, StoredRow
  <1>2. /\ \A r \in store : \E q \in store' : q.msg = r.msg /\ q.seq = r.seq
        /\ \A q \in store' : \E r \in store : q.msg = r.msg
    BY <1>1 DEF Mark
  <1> QED
    BY <1>2 DEF Survives, Stored, HasRow

LEMMA StepSurvives ==
    ASSUME ClientTypeOK, RowsOK, [ClientNext]_clientVars
    PROVE  Survives
  <1>1. CASE UNCHANGED store
    BY <1>1 DEF Survives, Stored
  <1>2. CASE \E rows \in SUBSET (store \cup Received \cup Pages) : UpsertRows(rows)
    BY <1>2, UpsertSurvives DEF Survives, Stored
  <1>3. \/ UNCHANGED store \/ Deliver \/ HistoryStore
        \/ \E k \in Syncs : SyncStore(k)
    BY ClientSyncAssumption
    DEF ClientNext, ClientRun, ClientFail, Commit, Purge, React, Announce, Connect, Disconnect,
        ServerStops, AppRestarts, Handshake, SwitchTopic, Sync, SwitchLoad, SyncRead, SyncAsk,
        SyncPage, SyncLatest, SyncFilter, SyncFinish, SyncTimesOut, SyncFails, History,
        HistoryAsk, HistoryPage, HistoryFails, clientVars, local
  <1>4. CASE Deliver
    <2>1. UNCHANGED store \/ Mark(Head(rx)) \/ UpsertRows({Head(rx)})
      BY <1>4 DEF Deliver, local
    <2>2. {Head(rx)} \in SUBSET (store \cup Received \cup Pages)
      BY <1>4, TailType DEF ClientTypeOK, Deliver, Received
    <2> QED
      BY <1>1, <1>2, <2>1, <2>2, MarkSurvives
  <1>5. CASE HistoryStore \/ \E k \in Syncs : SyncStore(k)
    BY <1>2, <1>5 DEF HistoryStore, SyncStore, Pages
  <1> QED
    BY <1>1, <1>3, <1>4, <1>5

\* A message that once is in the device's local table stays there, under any
\* interleaving of broadcasts, syncs, paging and reactions and over restarts: its
\* row is only ever replaced by another event of the same message, never by that
\* of a reaction.
THEOREM DeviceKeepsMessages == ClientSpec => MessagesSurvive
  <1>1. IInv /\ [ClientNext]_clientVars
        => [\A m \in Messages : Stored(m) => Stored(m)']_clientVars
    BY StepSurvives DEF IInv, Survives
  <1> QED
    BY <1>1, InitIInv, NextIInv, PTL DEF ClientSpec, MessagesSurvive

-----------------------------------------------------------------------------
(* What a connected device is owed *)

\* The message is being announced or waits in the receiver ...
Coming(m) == \E e \in announcing \cup Received : e.kind = "new" /\ e.msg = m

\* ... and the device will take it for new: it is neither stored nor on screen, and
\* no event of a withdrawn reaction comes before it.
Unseen(m) == ~HasRow(m) /\ m \notin screen

Ghost(e, m) == e.seq = 0 /\ e.kind = "new" /\ e.msg = m

Sent(m) == Coming(m) /\ Unseen(m) /\ \A e \in Received : ~Ghost(e, m)

\* Only a connection owes, only messages of the current topic, and none of them
\* is lost on its way.
OwedOK ==
    /\ conn = "down" => owed = {}
    /\ \A m \in owed : TopicOf[m] = topic /\ (Stored(m) \/ Sent(m))

\* A step that keeps to the connection and the topic, and to what is sent.
Steady ==
    /\ owed' \subseteq owed
    /\ conn' = "down" => owed' = {}
    /\ topic' = topic
    /\ \A m \in owed' : Sent(m) => Stored(m)' \/ Sent(m)'

LEMMA SteadyKeepsOwed ==
    ASSUME ClientTypeOK, OwedOK, Survives, Steady
    PROVE  OwedOK'
  <1>1. \A m \in owed' : m \in Messages
    BY DEF Steady, ClientTypeOK
  <1> QED
    BY <1>1 DEF OwedOK, Steady, Survives

LEMMA CommitOwes ==
    ASSUME ClientTypeOK, OwedOK, NEW m \in Messages, Commit(m)
    PROVE  OwedOK'
  <1>1. UNCHANGED <<conn, topic, store, screen, rx, Received>> /\ announcing \subseteq announcing'
    BY DEF Commit, local, Received
  <1>2. \A n : (Stored(n) => Stored(n)') /\ (Sent(n) => Sent(n)')
    BY <1>1 DEF HasRow, Stored, Sent, Coming, Unseen, Ghost
  <1>3. CASE latest[m] = {} /\ conn # "down" /\ TopicOf[m] = topic /\ New(m)
    <2>1. latest'[m] = {[seq |-> head + 1, kind |-> "new"]}
      BY <1>3 DEF Commit, Log!Post, Log!Record, ClientTypeOK, Log!TypeOK
    <2>2. [msg |-> m, seq |-> head + 1, kind |-> "new"] \in announcing'
      BY <2>1 DEF Commit
    <2>3. Coming(m)'
      BY <2>2 DEF Coming
    <2>4. Unseen(m)' /\ \A e \in Received' : ~Ghost(e, m)
      BY <1>1, <1>3 DEF New, Unseen, HasRow, Received, Ghost
    <2>5. Sent(m)'
      BY <2>3, <2>4 DEF Sent, Ghost
    <2>6. owed' = owed \cup {m}
      BY <1>3 DEF Commit
    <2> QED
      BY <1>1, <1>2, <1>3, <2>5, <2>6 DEF OwedOK
  <1>4. CASE ~(latest[m] = {} /\ conn # "down" /\ TopicOf[m] = topic /\ New(m))
    <2>1. owed' = owed
      BY <1>4 DEF Commit
    <2> QED
      BY <1>1, <1>2, <2>1 DEF OwedOK
  <1> QED
    BY <1>3, <1>4

\* The receiver after a broadcast holds it, and all it held but the oldest of a
\* full one.
LEMMA AppendKeeps ==
    ASSUME rx \in Seq(Notice), Len(rx) <= Capacity, NEW e \in Notice
    PROVE  LET new == Append(IF Len(rx) = Capacity THEN Tail(rx) ELSE rx, e)
           IN  /\ \E i \in DOMAIN new : new[i] = e
               /\ \A j \in DOMAIN rx : \/ Len(rx) = Capacity /\ rx[j] = Head(rx)
                                       \/ \E i \in DOMAIN new : new[i] = rx[j]
  <1> DEFINE old == IF Len(rx) = Capacity THEN Tail(rx) ELSE rx
             new == Append(old, e)
  <1>1. old \in Seq(Notice)
    BY HeadTailProperties, ClientSyncAssumption
  <1>2. new \in Seq(Notice) /\ Len(new) = Len(old) + 1 /\ new[Len(old) + 1] = e
    BY <1>1
  <1>3. \A i \in 1..Len(old) : i \in DOMAIN new /\ new[i] = old[i]
    BY <1>1
  <1>4. ASSUME NEW j \in DOMAIN rx, ~(Len(rx) = Capacity /\ rx[j] = Head(rx))
        PROVE  \E i \in 1..Len(old) : old[i] = rx[j]
    <2>1. CASE Len(rx) = Capacity
      <3>1. j \in 1..Len(rx) /\ j # 1 /\ rx # <<>>
        BY <1>4, <2>1, ClientSyncAssumption
      <3>2. j - 1 \in 1..Len(Tail(rx)) /\ Tail(rx)[j - 1] = rx[j]
        BY <3>1, HeadTailProperties
      <3> QED
        BY <2>1, <3>2
    <2>2. CASE Len(rx) # Capacity
      BY <2>2
    <2> QED
      BY <2>1, <2>2
  <1>5. Len(old) + 1 \in DOMAIN new
    BY <1>1, <1>2
  <1> HIDE DEF old, new
  <1>6. \A j \in DOMAIN rx : \/ Len(rx) = Capacity /\ rx[j] = Head(rx)
                             \/ \E i \in DOMAIN new : new[i] = rx[j]
    BY <1>3, <1>4
  <1>7. \E i \in DOMAIN new : new[i] = e
    BY <1>2, <1>5
  <1> QED
    BY <1>6, <1>7 DEF new, old

LEMMA BroadcastSteady ==
    ASSUME ClientTypeOK, NEW e \in Notice, Broadcast(e),
           announcing \subseteq announcing' \cup {e},
           UNCHANGED <<conn, topic, store, screen>>
    PROVE  Steady
  <1>1. rx \in Seq(Notice) /\ Len(rx) <= Capacity
    BY DEF ClientTypeOK
  <1>2. /\ rx' = Append(IF Len(rx) = Capacity THEN Tail(rx) ELSE rx, e)
        /\ conn # "down"
    BY DEF Broadcast
  <1>3. /\ owed' \subseteq owed
        /\ \A m \in owed' : ~Ghost(e, m) /\ (Len(rx) = Capacity => m # Head(rx).msg)
    BY DEF Broadcast, Ghost
  <1>4. e \in Received' /\ \A q \in Received : q \in Received' \/ (Len(rx) = Capacity /\ q = Head(rx))
    <2>1. /\ \E i \in DOMAIN rx' : rx'[i] = e
          /\ \A j \in DOMAIN rx : \/ Len(rx) = Capacity /\ rx[j] = Head(rx)
                                  \/ \E i \in DOMAIN rx' : rx'[i] = rx[j]
      BY <1>1, <1>2, AppendKeeps
    <2> QED
      BY <2>1 DEF Received
  <1>5. Received' \subseteq Received \cup {e}
    BY BroadcastType
  <1>6. ASSUME NEW m \in owed', Sent(m) PROVE Sent(m)'
    <2>1. Coming(m)'
      BY <1>3, <1>4, <1>6 DEF Sent, Coming
    <2>2. \A q \in Received' : ~Ghost(q, m)
      BY <1>3, <1>5, <1>6 DEF Sent
    <2> QED
      BY <1>6, <2>1, <2>2 DEF Sent, Unseen, HasRow, Ghost
  <1> QED
    BY <1>2, <1>3, <1>6 DEF Steady

LEMMA AnnounceSteady ==
    ASSUME ClientTypeOK, OwedOK, NEW e \in announcing, Announce(e)
    PROVE  Steady
  <1>1. UNCHANGED <<conn, topic, store, screen>> /\ announcing \subseteq announcing' \cup {e}
    BY DEF Announce, local
  <1>2. CASE conn = "down" /\ UNCHANGED owed
    BY <1>1, <1>2 DEF Steady, OwedOK
  <1>3. CASE Broadcast(e)
    BY <1>1, <1>3, EntriesAreNotices, BroadcastSteady DEF ClientTypeOK
  <1> QED
    BY <1>2, <1>3 DEF Announce

LEMMA ReactSteady ==
    ASSUME ClientTypeOK, NEW m \in Messages, React(m)
    PROVE  Steady
  <1>1. UNCHANGED <<announcing, conn, topic, store, screen>>
    BY DEF React, local
  <1> QED
    BY <1>1, ReactionType, BroadcastSteady

\* What a step stores or shows of an unseen message is the message itself.
LEMMA StoredOrUnseen ==
    ASSUME NEW m \in Messages, Unseen(m),
           NEW rows, \A q \in rows : q.msg = m => q.seq # 0,
           UpsertRows(rows) \/ UNCHANGED store \/ \E e : Mark(e),
           Reload \/ UNCHANGED screen, ClientTypeOK
    PROVE  Stored(m)' \/ Unseen(m)'
  <1>1. Stored(m)' \/ ~HasRow(m)'
    <2>1. CASE UpsertRows(rows)
      BY <2>1 DEF UpsertRows, Unseen, HasRow, Stored
    <2>2. CASE UNCHANGED store
      BY <2>2 DEF Unseen, HasRow
    <2>3. CASE \E e : Mark(e)
      BY <2>3, MarkSurvives DEF Unseen
    <2> QED
      BY <2>1, <2>2, <2>3
  <1>2. HasRow(m)' \/ m \notin screen'
    BY DEF Unseen, Reload
  <1> QED
    BY <1>1, <1>2 DEF Unseen

LEMMA DeliverSteady ==
    ASSUME ClientTypeOK, OwedOK, Deliver
    PROVE  Steady
  <1> DEFINE e == Head(rx)
  <1>1. /\ UNCHANGED <<announcing, conn, topic, owed>> /\ rx' = Tail(rx)
    BY DEF Deliver
  <1>2. /\ e \in Received /\ Received' \subseteq Received
        /\ \A q \in Received : q = e \/ q \in Received'
    <2>1. rx \in Seq(Notice) /\ rx # <<>>
      BY DEF Deliver, ClientTypeOK
    <2>2. \A j \in DOMAIN rx : rx[j] = Head(rx) \/ \E i \in DOMAIN Tail(rx) : Tail(rx)[i] = rx[j]
      <3> SUFFICES ASSUME NEW j \in DOMAIN rx, rx[j] # Head(rx)
                   PROVE  \E i \in DOMAIN Tail(rx) : Tail(rx)[i] = rx[j]
        OBVIOUS
      <3>1. j \in 1..Len(rx) /\ j # 1
        BY <2>1
      <3>2. j - 1 \in 1..Len(Tail(rx)) /\ Tail(rx)[j - 1] = rx[j]
        BY <2>1, <3>1, HeadTailProperties
      <3> QED
        BY <2>1, <3>2, HeadTailProperties
    <2>3. e \in Received /\ Received' \subseteq Received
      BY <1>1, <2>1, TailType DEF ClientTypeOK, Received
    <2> QED
      BY <1>1, <2>2, <2>3 DEF Received
  <1> HIDE DEF e
  <1>3. ASSUME NEW m \in owed, Sent(m) PROVE Stored(m)' \/ Sent(m)'
    <2>1. TopicOf[m] = topic /\ m \in Messages /\ Unseen(m)
      BY <1>3 DEF OwedOK, ClientTypeOK, Sent
    <2>2. CASE e.kind = "new" /\ e.msg = m
      <3>1. e.seq # 0
        BY <1>2, <1>3, <2>2 DEF Sent, Ghost
      <3>2. UpsertRows({e})
        BY <2>1, <2>2 DEF Deliver, Unseen, e
      <3> QED
        BY <2>2, <3>1, <3>2 DEF UpsertRows, Stored
    <2>3. CASE ~(e.kind = "new" /\ e.msg = m)
      <3>1. \A q \in Received' : ~Ghost(q, m)
        BY <1>2, <1>3 DEF Sent
      <3>2. Coming(m)'
        BY <1>1, <1>2, <1>3, <2>3 DEF Sent, Coming
      <3>3. CASE e.kind = "new" /\ e.msg # m
        <4>1. UpsertRows({e}) \/ UNCHANGED store
          BY <3>3 DEF Deliver, e, local
        <4>2. ~HasRow(m)'
          BY <2>1, <3>3, <4>1 DEF UpsertRows, Unseen, HasRow
        <4>3. screen' \subseteq screen \cup {e.msg}
          BY <3>3 DEF Deliver, e, local
        <4> QED
          BY <2>1, <3>1, <3>2, <3>3, <4>2, <4>3 DEF Sent, Unseen, Ghost
      <3>4. CASE e.kind # "new"
        <4>1. (UNCHANGED store \/ Mark(e)) /\ (Reload \/ UNCHANGED screen)
          <5>1. e.kind \in {"edited", "deleted", "reacted"}
            <6>1. e \in Notice
              BY TailType DEF ClientTypeOK, Deliver, e
            <6> QED
              BY <3>4, <6>1 DEF Notice, Kinds
          <5> QED
            BY <3>4, <5>1 DEF Deliver, e, local
        <4>2. Stored(m)' \/ Unseen(m)'
          <5> DEFINE none == {}
          <5>1. \A q \in none : q.msg = m => q.seq # 0
            OBVIOUS
          <5> HIDE DEF none
          <5>2. UpsertRows(none) \/ UNCHANGED store \/ \E f : Mark(f)
            BY <4>1
          <5> QED
            BY <2>1, <4>1, <5>1, <5>2, StoredOrUnseen
        <4> QED
          BY <3>1, <3>2, <4>2 DEF Sent, Ghost
      <3> QED
        BY <2>3, <3>3, <3>4
    <2> QED
      BY <2>2, <2>3
  <1> QED
    BY <1>1, <1>3 DEF Steady, OwedOK

\* What else is stored comes from a page, which holds events only.
LEMMA PageSteady ==
    ASSUME ClientTypeOK, OwedOK,
           NEW rows \in SUBSET Entry, UpsertRows(rows) \/ UNCHANGED store,
           Reload \/ UNCHANGED screen,
           UNCHANGED <<announcing, rx, topic>>, owed' \subseteq owed,
           conn' = conn \/ conn' = "up"
    PROVE  Steady
  <1>1. \A q \in rows : q.seq # 0
    BY DEF Entry
  <1>2. ASSUME NEW m \in owed', Sent(m) PROVE Stored(m)' \/ Sent(m)'
    <2>1. m \in Messages /\ Unseen(m)
      BY <1>2 DEF ClientTypeOK, Sent
    <2>2. Stored(m)' \/ Unseen(m)'
      BY <1>1, <2>1, StoredOrUnseen
    <2>3. Received' = Received
      BY DEF Received
    <2> QED
      BY <1>2, <2>2, <2>3 DEF Sent, Coming, Ghost
  <1> QED
    BY <1>2 DEF Steady, OwedOK

LEMMA OthersOwe ==
    ASSUME ClientTypeOK, OwedOK, Survives, [ClientNext]_clientVars,
           ~\E m \in Messages : Commit(m) \/ React(m),
           ~\E e \in announcing : Announce(e), ~Deliver
    PROVE  OwedOK'
  <1>1. CASE Disconnect \/ ServerStops \/ AppRestarts \/ \E k \in Syncs, t \in Topics : SwitchTopic(k, t)
    BY <1>1 DEF Disconnect, ServerStops, AppRestarts, SwitchTopic, OwedOK
  <1>2. CASE Connect
    BY <1>2 DEF Connect, OwedOK
  <1>3. ASSUME NEW rows \in SUBSET Entry, UpsertRows(rows) \/ UNCHANGED store,
               Reload \/ UNCHANGED screen,
               UNCHANGED <<announcing, rx, topic>>, owed' \subseteq owed,
               conn' = conn \/ conn' = "up"
        PROVE  OwedOK'
    BY <1>3, PageSteady, SteadyKeepsOwed
  <1>4. CASE (\E m \in Messages : Purge(m)) \/ (\E k \in Syncs : Handshake(k)) \/ UNCHANGED clientVars
    <2>1. /\ UNCHANGED <<announcing, rx, topic, store, screen>> /\ owed' \subseteq owed
          /\ conn' = conn \/ conn' = "up"
      BY <1>4 DEF Purge, Handshake, clientVars, local
    <2> QED
      BY <1>3, <2>1
  <1>5. CASE History \/ HistoryFails
    <2>1. /\ UNCHANGED <<announcing, rx, topic, owed, conn>>
          /\ UpsertRows(paging.page) \/ UNCHANGED store
          /\ Reload \/ UNCHANGED screen
      BY <1>5 DEF History, HistoryAsk, HistoryPage, HistoryStore, HistoryFails, local
    <2>2. paging.page \in SUBSET Entry
      BY DEF ClientTypeOK, Paging
    <2> QED
      BY <1>3, <2>1, <2>2
  <1>6. ASSUME NEW k \in Syncs, Sync(k) \/ SyncFails(k) PROVE OwedOK'
    <2>1. /\ UNCHANGED <<announcing, rx, topic, owed, conn>>
          /\ UpsertRows(task[k].page) \/ UNCHANGED store
          /\ Reload \/ UNCHANGED screen
      BY <1>6 DEF Sync, SwitchLoad, SyncRead, SyncAsk, SyncPage, SyncLatest, SyncFilter,
                  SyncStore, SyncFinish, SyncTimesOut, SyncFails, local
    <2>2. task[k].page \in SUBSET Entry
      BY DEF ClientTypeOK, Task
    <2> QED
      BY <1>3, <2>1, <2>2
  <1> QED
    BY <1>1, <1>2, <1>4, <1>5, <1>6, ClientSyncAssumption DEF ClientNext, ClientRun, ClientFail

LEMMA InitOwedOK == ClientInit => OwedOK
  BY DEF ClientInit, OwedOK

LEMMA NextOwedOK == IInv /\ OwedOK /\ [ClientNext]_clientVars => OwedOK'
  <1> SUFFICES ASSUME ClientTypeOK, RowsOK, OwedOK, [ClientNext]_clientVars PROVE OwedOK'
    BY DEF IInv
  <1>1. Survives
    BY StepSurvives
  <1>2. CASE \E m \in Messages : Commit(m)
    BY <1>2, CommitOwes
  <1>3. CASE (\E e \in announcing : Announce(e)) \/ (\E m \in Messages : React(m)) \/ Deliver
    BY <1>1, <1>3, AnnounceSteady, ReactSteady, DeliverSteady, SteadyKeepsOwed
  <1> QED
    BY <1>1, <1>2, <1>3, OthersOwe

\* Whatever is sent to the topic of an uninterrupted connection is stored, still
\* to be announced, or in the receiver; once both are empty the device holds it.
THEOREM NothingMissed == ClientSpec => []ConnectedMissesNothing
  <1>1. ClientTypeOK /\ OwedOK => ConnectedMissesNothing
    BY DEF ClientTypeOK, OwedOK, ConnectedMissesNothing, Sent, Coming, Received
  <1>2. IInv => ClientTypeOK
    BY DEF IInv
  <1> QED
    BY <1>1, <1>2, InitIInv, NextIInv, InitOwedOK, NextOwedOK, PTL DEF ClientSpec

-----------------------------------------------------------------------------
(* The log the device reads *)

LEMMA StepOfLog ==
    ASSUME [ClientNext]_clientVars
    PROVE  [Log!Next]_log
  <1>1. CASE \E m \in Messages : Commit(m)
    BY <1>1 DEF Commit, Log!Next
  <1>2. CASE \E m \in Messages : Purge(m)
    <2>1. PICK m \in Messages : Log!Purge({m})
      BY <1>2 DEF Purge
    <2> QED
      BY <2>1 DEF Log!Next
  <1>3. CASE (\E e \in announcing : Announce(e)) \/ (\E m \in Messages : React(m))
             \/ Deliver \/ Connect \/ Disconnect \/ ServerStops \/ AppRestarts
             \/ History \/ HistoryFails \/ UNCHANGED clientVars
    BY <1>3 DEF Announce, React, Deliver, Connect, Disconnect, ServerStops, AppRestarts, History,
                HistoryAsk, HistoryPage, HistoryStore, HistoryFails, clientVars, log
  <1>4. CASE \E k \in Syncs : Sync(k) \/ SyncFails(k) \/ Handshake(k) \/ \E t \in Topics : SwitchTopic(k, t)
    BY <1>4 DEF Sync, SwitchLoad, SyncRead, SyncAsk, SyncPage, SyncLatest, SyncFilter, SyncStore, SyncFinish,
                SyncTimesOut, SyncFails, Handshake, SwitchTopic, log
  <1> QED
    BY <1>1, <1>2, <1>3, <1>4, ClientSyncAssumption DEF ClientNext, ClientRun, ClientFail

\* What the device reads is the log that the server's handlers implement, see
\* MessageLogProofs.
THEOREM ReadsTheEventLog == ClientSpec => Log!Spec
  <1>1. ClientInit => Log!Init
    BY DEF ClientInit
  <1> QED
    BY <1>1, StepOfLog, PTL DEF ClientSpec, Log!Spec, log

-----------------------------------------------------------------------------
(* The outbox *)

Attempt ==
    [entry : Entries, retry : BOOLEAN, server : {"underway", "stored", "refused"},
     client : {"waits", "acked", "failed"}]

OutboxType ==
    /\ shown \subseteq [entry : Entries, failed : BOOLEAN, place : Nat]
    /\ calls \in Seq(Attempt)
    /\ menu \subseteq Entries

\* An entry is listed once, and only what was sent is listed or has a menu.
ListedOnce ==
    /\ \A r, q \in shown : r.entry = q.entry => r = q
    /\ \A r \in shown : CallsOf(r.entry) # {}
    /\ \A e \in menu : CallsOf(e) # {}

\* What happens to an entry with a text of its own is decided by its own attempts
\* alone: nobody else's answer or timeout touches it.
OutboxInv == OutboxType /\ ListedOnce /\ OneAttemptOpen

\* An attempt more, and what it leaves of the attempts of every entry.
LEMMA RequestAdds ==
    ASSUME OutboxType, NEW e \in Entries, NEW retry \in BOOLEAN, Request(e, retry)
    PROVE  /\ calls' \in Seq(Attempt)
           /\ Len(calls) + 1 \in CallsOf(e)' /\ calls'[Len(calls) + 1].client = "waits"
           /\ \A f \in Entries : /\ CallsOf(f) \subseteq CallsOf(f)'
                                 /\ \A k \in CallsOf(f)' : k \in CallsOf(f) \/ (f = e /\ k = Len(calls) + 1)
                                 /\ \A k \in CallsOf(f) : calls'[k] = calls[k]
  <1> DEFINE c == [entry |-> e, retry |-> retry, server |-> "underway", client |-> "waits"]
  <1>1. c \in Attempt
    BY DEF Attempt
  <1>2. calls' = Append(calls, c) /\ calls \in Seq(Attempt)
    BY DEF Request, OutboxType
  <1>3. c.entry = e /\ c.client = "waits"
    OBVIOUS
  <1> HIDE DEF c
  <1>4. /\ calls' \in Seq(Attempt) /\ Len(calls) \in Nat /\ Len(calls') = Len(calls) + 1
        /\ DOMAIN calls' = 1..(Len(calls) + 1) /\ DOMAIN calls = 1..Len(calls)
        /\ \A k \in 1..Len(calls) : calls'[k] = calls[k]
        /\ calls'[Len(calls) + 1] = c
    BY <1>1, <1>2
  <1> QED
    BY <1>3, <1>4 DEF CallsOf

\* What is marked keeps its entry and its place.
LEMMA MarkedType ==
    ASSUME OutboxType, NEW S \in SUBSET shown, NEW failed \in BOOLEAN
    PROVE  /\ Marked(S, failed) \subseteq [entry : Entries, failed : BOOLEAN, place : Nat]
           /\ \A r \in Marked(S, failed) :
                 \E q \in shown : /\ q.entry = r.entry /\ q.place = r.place
                                  /\ \/ q \in S /\ r.failed = failed
                                     \/ q \notin S /\ r = q
           /\ \A q \in shown : \E r \in Marked(S, failed) : r.entry = q.entry
  <1> DEFINE Rec == [entry : Entries, failed : BOOLEAN, place : Nat]
  <1>1. \A q \in shown : q \in Rec
    BY DEF OutboxType
  <1>2. \A q \in Rec : /\ [q EXCEPT !.failed = failed] \in Rec
                       /\ [q EXCEPT !.failed = failed].entry = q.entry
                       /\ [q EXCEPT !.failed = failed].place = q.place
                       /\ [q EXCEPT !.failed = failed].failed = failed
    OBVIOUS
  <1> HIDE DEF Rec
  <1>3. Marked(S, failed) \subseteq Rec
    BY <1>1, <1>2 DEF Marked
  <1>4. \A q \in shown : \E r \in Marked(S, failed) : r.entry = q.entry
    BY <1>1, <1>2 DEF Marked
  <1>5. ASSUME NEW r \in Marked(S, failed)
        PROVE  \E q \in shown : /\ q.entry = r.entry /\ q.place = r.place
                                /\ \/ q \in S /\ r.failed = failed
                                   \/ q \notin S /\ r = q
    <2>1. CASE r \in shown \ S
      BY <2>1
    <2>2. ASSUME NEW q \in S, r = [q EXCEPT !.failed = failed]
          PROVE  q \in shown /\ q.entry = r.entry /\ q.place = r.place /\ r.failed = failed
      BY <1>1, <1>2, <2>2
    <2> QED
      BY <1>5, <2>1, <2>2 DEF Marked
  <1> QED
    BY <1>3, <1>4, <1>5 DEF Rec

LEMMA MarkedListedOnce ==
    ASSUME OutboxType, ListedOnce, NEW S \in SUBSET shown, NEW failed \in BOOLEAN,
           shown' = Marked(S, failed)
    PROVE  \A r, q \in shown' : r.entry = q.entry => r = q
  <1> SUFFICES ASSUME NEW r \in shown', NEW q \in shown', r.entry = q.entry PROVE r = q
    OBVIOUS
  <1>1. PICK s \in shown : /\ s.entry = r.entry /\ s.place = r.place
                           /\ \/ s \in S /\ r.failed = failed
                              \/ s \notin S /\ r = s
    BY MarkedType
  <1>2. PICK t \in shown : /\ t.entry = q.entry /\ t.place = q.place
                           /\ \/ t \in S /\ q.failed = failed
                              \/ t \notin S /\ q = t
    BY MarkedType
  <1>3. s = t
    BY <1>1, <1>2 DEF ListedOnce
  <1>4. /\ r \in [entry : Entries, failed : BOOLEAN, place : Nat]
        /\ q \in [entry : Entries, failed : BOOLEAN, place : Nat]
    BY MarkedType
  <1>5. CASE s \in S
    <2>1. r.entry = q.entry /\ r.failed = q.failed /\ r.place = q.place
      BY <1>1, <1>2, <1>3, <1>5
    <2> QED
      BY <1>4, <2>1
  <1>6. CASE s \notin S
    BY <1>1, <1>2, <1>3, <1>6
  <1> QED
    BY <1>5, <1>6

LEMMA SendKeepsOutbox ==
    ASSUME OutboxInv, NEW e \in Entries, SendText(e)
    PROVE  OutboxInv'
  <1> DEFINE new == [entry |-> e, failed |-> FALSE, place |-> Len(calls)]
  <1>1. /\ OutboxType /\ ListedOnce /\ OneAttemptOpen
        /\ CallsOf(e) = {} /\ Request(e, FALSE) /\ shown' = shown \cup {new}
        /\ menu' = menu
    BY DEF OutboxInv, SendText
  <1>2. new \in [entry : Entries, failed : BOOLEAN, place : Nat] /\ new.entry = e /\ new.failed = FALSE
    BY <1>1 DEF OutboxType
  <1> HIDE DEF new
  <1>3. /\ calls' \in Seq(Attempt)
        /\ Len(calls) + 1 \in CallsOf(e)' /\ calls'[Len(calls) + 1].client = "waits"
        /\ \A f \in Entries : /\ CallsOf(f) \subseteq CallsOf(f)'
                              /\ \A k \in CallsOf(f)' : k \in CallsOf(f) \/ (f = e /\ k = Len(calls) + 1)
                              /\ \A k \in CallsOf(f) : calls'[k] = calls[k]
    BY <1>1, RequestAdds
  <1>4. OutboxType'
    BY <1>1, <1>2, <1>3 DEF OutboxType
  <1>5. ListedOnce'
    <2>1. \A r \in shown : r.entry \in Entries /\ r.entry # e
      BY <1>1 DEF ListedOnce, OutboxType
    <2>2. \A r \in shown' : r.entry \in Entries /\ (r \in shown \/ r = new)
      BY <1>1, <1>2, <2>1
    <2>3. \A r, q \in shown' : r.entry = q.entry => r = q
      BY <1>1, <1>2, <2>1, <2>2 DEF ListedOnce
    <2>4. \A f \in Entries : f = e \/ CallsOf(f) # {} => CallsOf(f)' # {}
      BY <1>3
    <2>5. menu \subseteq Entries /\ \A f \in menu : CallsOf(f) # {}
      BY <1>1 DEF ListedOnce, OutboxType
    <2>6. \A r \in shown' : r.entry = e \/ CallsOf(r.entry) # {}
      BY <1>1, <1>2 DEF ListedOnce
    <2> QED
      BY <1>1, <2>2, <2>3, <2>4, <2>5, <2>6 DEF ListedOnce
  <1>7. OneAttemptOpen'
    <2> SUFFICES ASSUME NEW f \in Entries, Alone(f)
                 PROVE  /\ Listed(f, FALSE)' => \E k \in CallsOf(f)' : calls'[k].client = "waits"
                        /\ (Listed(f, TRUE)' \/ f \in menu') => GivenUp(f)'
                        /\ \A k, j \in CallsOf(f)' :
                              calls'[k].client # "failed" /\ calls'[j].client # "failed" => k = j
      BY DEF OneAttemptOpen, Alone, SameText
    <2>1. CASE f # e
      <3>1. CallsOf(f)' = CallsOf(f)
        BY <1>3, <2>1
      <3>2. Listed(f, TRUE)' = Listed(f, TRUE) /\ Listed(f, FALSE)' = Listed(f, FALSE)
        BY <1>1, <1>2, <2>1 DEF Listed
      <3>3. /\ Listed(f, FALSE) => \E k \in CallsOf(f) : calls[k].client = "waits"
            /\ Listed(f, TRUE) \/ f \in menu => \A k \in CallsOf(f) : calls[k].client = "failed"
            /\ \A k, j \in CallsOf(f) :
                  calls[k].client # "failed" /\ calls[j].client # "failed" => k = j
        BY <1>1 DEF OneAttemptOpen, GivenUp
      <3>4. \A k \in CallsOf(f) : calls'[k] = calls[k]
        BY <1>3
      <3> QED
        BY <1>1, <3>1, <3>2, <3>3, <3>4 DEF GivenUp
    <2>2. CASE f = e
      <3>1. \A k \in CallsOf(e)' : k = Len(calls) + 1
        BY <1>1, <1>3
      <3>2. ~Listed(e, TRUE)'
        BY <1>1, <1>2 DEF Listed, ListedOnce
      <3>3. e \notin menu
        BY <1>1 DEF ListedOnce
      <3> QED
        BY <1>1, <1>3, <2>2, <3>1, <3>2, <3>3
    <2> QED
      BY <2>1, <2>2
  <1> QED
    BY <1>4, <1>5, <1>7 DEF OutboxInv

LEMMA RetryKeepsOutbox ==
    ASSUME OutboxInv, NEW e \in menu, RetryFailedMessage(e)
    PROVE  OutboxInv'
  <1> DEFINE S == {r \in shown : r.entry = e}
  <1>1. /\ OutboxType /\ ListedOnce /\ OneAttemptOpen
        /\ e \in Entries /\ Request(e, TRUE) /\ shown' = Marked(S, FALSE)
        /\ menu' = {} /\ S \in SUBSET shown
        /\ \A r \in shown : r \in S <=> r.entry = e
    BY DEF OutboxInv, OutboxType, RetryFailedMessage
  <1> HIDE DEF S
  <1>2. /\ calls' \in Seq(Attempt)
        /\ Len(calls) + 1 \in CallsOf(e)' /\ calls'[Len(calls) + 1].client = "waits"
        /\ \A f \in Entries : /\ CallsOf(f) \subseteq CallsOf(f)'
                              /\ \A k \in CallsOf(f)' : k \in CallsOf(f) \/ (f = e /\ k = Len(calls) + 1)
                              /\ \A k \in CallsOf(f) : calls'[k] = calls[k]
    BY <1>1, RequestAdds
  <1>3. /\ shown' \subseteq [entry : Entries, failed : BOOLEAN, place : Nat]
        /\ \A r \in shown' :
              \E q \in shown : /\ q.entry = r.entry /\ q.place = r.place
                               /\ \/ q \in S /\ r.failed = FALSE
                                  \/ q \notin S /\ r = q
        /\ \A q \in shown : \E r \in shown' : r.entry = q.entry
    BY <1>1, MarkedType
  <1>4. OutboxType'
    BY <1>1, <1>2, <1>3 DEF OutboxType
  <1>5. ListedOnce'
    <2>1. \A r, q \in shown' : r.entry = q.entry => r = q
      BY <1>1, MarkedListedOnce
    <2>2. \A r \in shown' : \E q \in shown : q.entry = r.entry
      BY <1>3
    <2>3. \A r \in shown' : r.entry \in Entries /\ CallsOf(r.entry) # {}
      BY <1>1, <2>2 DEF ListedOnce, OutboxType
    <2> QED
      BY <1>1, <1>2, <2>1, <2>3 DEF ListedOnce
  <1>7. OneAttemptOpen'
    <2> SUFFICES ASSUME NEW f \in Entries, Alone(f)
                 PROVE  /\ Listed(f, FALSE)' => \E k \in CallsOf(f)' : calls'[k].client = "waits"
                        /\ Listed(f, TRUE)' => GivenUp(f)'
                        /\ \A k, j \in CallsOf(f)' :
                              calls'[k].client # "failed" /\ calls'[j].client # "failed" => k = j
      BY <1>1 DEF OneAttemptOpen, Alone, SameText
    <2>1. CASE f # e
      <3>1. CallsOf(f)' = CallsOf(f)
        BY <1>2, <2>1
      <3>2. (Listed(f, TRUE)' => Listed(f, TRUE)) /\ (Listed(f, FALSE)' => Listed(f, FALSE))
        BY <1>1, <1>3, <2>1 DEF Listed
      <3>3. /\ Listed(f, FALSE) => \E k \in CallsOf(f) : calls[k].client = "waits"
            /\ Listed(f, TRUE) \/ f \in menu => \A k \in CallsOf(f) : calls[k].client = "failed"
            /\ \A k, j \in CallsOf(f) :
                  calls[k].client # "failed" /\ calls[j].client # "failed" => k = j
        BY <1>1 DEF OneAttemptOpen, GivenUp
      <3>4. \A k \in CallsOf(f) : calls'[k] = calls[k]
        BY <1>2
      <3> QED
        BY <1>1, <3>1, <3>2, <3>3, <3>4 DEF GivenUp
    <2>2. CASE f = e
      <3>1. ~Listed(e, TRUE)'
        <4> SUFFICES ASSUME NEW r \in shown', r.entry = e PROVE r.failed = FALSE
          BY DEF Listed
        <4> QED
          BY <1>1, <1>3
      <3>2. \A k \in CallsOf(e) : calls[k].client = "failed"
        BY <1>1, <2>2 DEF OneAttemptOpen, GivenUp
      <3>3. \A k \in CallsOf(e)' : calls'[k].client # "failed" => k = Len(calls) + 1
        BY <1>1, <1>2, <3>2
      <3> QED
        BY <1>2, <2>2, <3>1, <3>3
    <2> QED
      BY <2>1, <2>2
  <1> QED
    BY <1>4, <1>5, <1>7 DEF OutboxInv

\* What happens to an attempt leaves the others alone.
LEMMA AttemptChanges ==
    ASSUME OutboxType, NEW k \in DOMAIN calls, NEW new \in Attempt, new.entry = calls[k].entry,
           calls' = [calls EXCEPT ![k] = new]
    PROVE  /\ calls' \in Seq(Attempt) /\ calls'[k] = new
           /\ \A j \in DOMAIN calls : j # k => calls'[j] = calls[j]
           /\ \A e \in Entries : CallsOf(e)' = CallsOf(e)
  <1>1. calls \in Seq(Attempt)
    BY DEF OutboxType
  <1>2. calls' \in Seq(Attempt) /\ DOMAIN calls' = DOMAIN calls
    BY <1>1
  <1>3. \A j \in DOMAIN calls : calls'[j] = IF j = k THEN new ELSE calls[j]
    BY <1>1
  <1> QED
    BY <1>2, <1>3 DEF CallsOf

LEMMA HandleKeepsOutbox ==
    ASSUME OutboxInv, NEW k \in DOMAIN calls, Handle(k)
    PROVE  OutboxInv'
  <1>1. /\ OutboxType /\ ListedOnce /\ OneAttemptOpen
        /\ shown' = shown /\ menu' = menu
    BY DEF OutboxInv, Handle
  <1>2. PICK verdict \in {"stored", "refused"} : calls' = [calls EXCEPT ![k].server = verdict]
    BY DEF Handle
  <1> DEFINE new == [calls[k] EXCEPT !.server = verdict]
  <1>3. calls[k] \in Attempt
    BY <1>1 DEF OutboxType
  <1>4. new \in Attempt /\ new.entry = calls[k].entry /\ new.client = calls[k].client
    BY <1>3 DEF Attempt
  <1>5. calls' = [calls EXCEPT ![k] = new]
    BY <1>2
  <1> HIDE DEF new
  <1>6. /\ calls' \in Seq(Attempt) /\ \A e \in Entries : CallsOf(e)' = CallsOf(e)
        /\ \A j \in DOMAIN calls : calls'[j].client = calls[j].client
    BY <1>1, <1>4, <1>5, AttemptChanges
  <1>7. OutboxType'
    BY <1>1, <1>6 DEF OutboxType
  <1>8. ListedOnce'
    BY <1>1, <1>6 DEF ListedOnce, OutboxType
  <1>9. \A e \in Entries : \A j \in CallsOf(e) : calls'[j].client = calls[j].client
    BY <1>6 DEF CallsOf
  <1>11. OneAttemptOpen'
    BY <1>1, <1>6, <1>9 DEF OneAttemptOpen, GivenUp, Listed, Alone, SameText
  <1> QED
    BY <1>7, <1>8, <1>11 DEF OutboxInv

LEMMA AcknowledgeKeepsOutbox ==
    ASSUME OutboxInv, NEW k \in DOMAIN calls, Acknowledge(k)
    PROVE  OutboxInv'
  <1> DEFINE new == [calls[k] EXCEPT !.client = "acked"]
             a == calls[k].entry
  <1>1. /\ OutboxType /\ ListedOnce /\ OneAttemptOpen
        /\ calls[k].client = "waits" /\ menu' = menu
        /\ shown' = {r \in shown : ~SameText(r.entry, a)}
    BY DEF OutboxInv, Acknowledge
  <1>2. calls[k] \in Attempt
    BY <1>1 DEF OutboxType
  <1>3. new \in Attempt /\ new.entry = a /\ new.client = "acked" /\ a \in Entries /\ k \in CallsOf(a)
    BY <1>2 DEF Attempt, CallsOf
  <1>4. calls' = [calls EXCEPT ![k] = new]
    BY DEF Acknowledge
  <1> HIDE DEF new
  <1>5. /\ calls' \in Seq(Attempt) /\ \A e \in Entries : CallsOf(e)' = CallsOf(e)
        /\ \A j \in DOMAIN calls : j # k => calls'[j] = calls[j]
        /\ calls'[k].client = "acked"
    BY <1>1, <1>3, <1>4, AttemptChanges
  <1> HIDE DEF a
  <1>6. OutboxType'
    BY <1>1, <1>5 DEF OutboxType
  <1>7. ListedOnce'
    BY <1>1, <1>5 DEF ListedOnce, OutboxType
  <1>8. \A e \in Entries : \A j \in CallsOf(e) : j \in DOMAIN calls /\ (e # a => j # k)
    BY DEF CallsOf, a
  <1>10. OneAttemptOpen'
    <2> SUFFICES ASSUME NEW e \in Entries, Alone(e)
                 PROVE  /\ Listed(e, FALSE)' => \E j \in CallsOf(e)' : calls'[j].client = "waits"
                        /\ (Listed(e, TRUE)' \/ e \in menu') => GivenUp(e)'
                        /\ \A i, j \in CallsOf(e)' :
                              calls'[i].client # "failed" /\ calls'[j].client # "failed" => i = j
      BY DEF OneAttemptOpen, Alone, SameText
    <2>1. CASE e = a
      <3>1. ~Listed(e, TRUE)' /\ ~Listed(e, FALSE)'
        BY <1>1, <2>1 DEF Listed, SameText
      <3>2. e \notin menu
        BY <1>1, <1>3, <2>1 DEF OneAttemptOpen, GivenUp
      <3>3. \A j \in CallsOf(e) : calls'[j].client # "failed" => calls[j].client # "failed"
        BY <1>1, <1>5, <1>8
      <3>4. \A i, j \in CallsOf(e) :
               calls[i].client # "failed" /\ calls[j].client # "failed" => i = j
        BY <1>1 DEF OneAttemptOpen
      <3> QED
        BY <1>1, <1>5, <3>1, <3>2, <3>3, <3>4
    <2>2. CASE e # a
      <3>1. \A j \in CallsOf(e) : calls'[j] = calls[j]
        BY <1>5, <1>8, <2>2
      <3>2. (Listed(e, TRUE)' => Listed(e, TRUE)) /\ (Listed(e, FALSE)' => Listed(e, FALSE))
        BY <1>1 DEF Listed
      <3>3. /\ Listed(e, FALSE) => \E j \in CallsOf(e) : calls[j].client = "waits"
            /\ Listed(e, TRUE) \/ e \in menu => \A j \in CallsOf(e) : calls[j].client = "failed"
            /\ \A i, j \in CallsOf(e) :
                  calls[i].client # "failed" /\ calls[j].client # "failed" => i = j
        BY <1>1 DEF OneAttemptOpen, GivenUp
      <3>4. CallsOf(e)' = CallsOf(e)
        BY <1>5
      <3> QED
        BY <1>1, <3>1, <3>2, <3>3, <3>4 DEF GivenUp
    <2> QED
      BY <2>1, <2>2
  <1> QED
    BY <1>6, <1>7, <1>10 DEF OutboxInv

LEMMA ExpireKeepsOutbox ==
    ASSUME OutboxInv, NEW k \in DOMAIN calls, Expire(k)
    PROVE  OutboxInv'
  <1> DEFINE new == [calls[k] EXCEPT !.client = "failed"]
             a == calls[k].entry
             S == Blamed(calls[k])
  <1>1. /\ OutboxType /\ ListedOnce /\ OneAttemptOpen
        /\ calls[k].client = "waits" /\ menu' = menu
        /\ shown' = Marked(S, TRUE)
    BY DEF OutboxInv, Expire
  <1>2. calls[k] \in Attempt
    BY <1>1 DEF OutboxType
  <1>3. new \in Attempt /\ new.entry = a /\ new.client = "failed" /\ a \in Entries /\ k \in CallsOf(a)
    BY <1>2 DEF Attempt, CallsOf
  <1>4. calls' = [calls EXCEPT ![k] = new]
    BY DEF Expire
  <1> HIDE DEF new
  <1>5. /\ calls' \in Seq(Attempt) /\ \A e \in Entries : CallsOf(e)' = CallsOf(e)
        /\ \A j \in DOMAIN calls : j # k => calls'[j] = calls[j]
        /\ calls'[k].client = "failed"
    BY <1>1, <1>3, <1>4, AttemptChanges
  <1>6. S \in SUBSET shown
    BY DEF Blamed
  <1>7. \A r \in S : SameText(r.entry, a)
    BY DEF Blamed, SameText
  \* An entry with a text of its own is the one blamed for its attempts.
  <1>8. \A r \in shown : Alone(a) /\ r.entry = a => r \in S
    <2> SUFFICES ASSUME NEW r \in shown, Alone(a), r.entry = a PROVE r \in S
      OBVIOUS
    <2>1. \A q \in shown : q.entry \in Entries /\ q.place \in Nat
      BY <1>1 DEF OutboxType
    <2>2. \A q \in shown : SameText(q.entry, a) => q = r
      BY <1>1, <2>1 DEF Alone, SameText, ListedOnce
    <2>3. r.place <= r.place
      BY <2>1
    <2> QED
      BY <2>2, <2>3 DEF Blamed, SameText
  <1> HIDE DEF S
  <1>9. /\ shown' \subseteq [entry : Entries, failed : BOOLEAN, place : Nat]
        /\ \A r \in shown' :
              \E q \in shown : /\ q.entry = r.entry /\ q.place = r.place
                               /\ \/ q \in S /\ r.failed = TRUE
                                  \/ q \notin S /\ r = q
        /\ \A q \in shown : \E r \in shown' : r.entry = q.entry
    <2>1. OutboxType /\ TRUE \in BOOLEAN
      BY <1>1
    <2>2. /\ Marked(S, TRUE) \subseteq [entry : Entries, failed : BOOLEAN, place : Nat]
          /\ \A r \in Marked(S, TRUE) :
                \E q \in shown : /\ q.entry = r.entry /\ q.place = r.place
                                 /\ \/ q \in S /\ r.failed = TRUE
                                    \/ q \notin S /\ r = q
          /\ \A q \in shown : \E r \in Marked(S, TRUE) : r.entry = q.entry
      BY <1>6, <2>1, MarkedType
    <2> QED
      BY <1>1, <2>2
  <1>10. \A e \in Entries : \A j \in CallsOf(e) : j \in DOMAIN calls /\ (e # a => j # k)
    BY DEF CallsOf
  <1> HIDE DEF a
  <1>11. OutboxType'
    BY <1>1, <1>5, <1>9 DEF OutboxType
  <1>12. ListedOnce'
    <2>1. \A r, q \in shown' : r.entry = q.entry => r = q
      BY <1>1, <1>6, MarkedListedOnce
    <2>2. \A r \in shown' : \E q \in shown : q.entry = r.entry
      BY <1>9
    <2>3. \A r \in shown' : r.entry \in Entries /\ CallsOf(r.entry) # {}
      BY <1>1, <2>2 DEF ListedOnce, OutboxType
    <2>4. menu \subseteq Entries
      BY <1>1 DEF OutboxType
    <2> QED
      BY <1>1, <1>5, <2>1, <2>3, <2>4 DEF ListedOnce
  <1>14. OneAttemptOpen'
    <2> SUFFICES ASSUME NEW e \in Entries, Alone(e)
                 PROVE  /\ Listed(e, FALSE)' => \E j \in CallsOf(e)' : calls'[j].client = "waits"
                        /\ (Listed(e, TRUE)' \/ e \in menu') => GivenUp(e)'
                        /\ \A i, j \in CallsOf(e)' :
                              calls'[i].client # "failed" /\ calls'[j].client # "failed" => i = j
      BY DEF OneAttemptOpen, Alone, SameText
    <2>1. /\ Listed(e, FALSE) => \E j \in CallsOf(e) : calls[j].client = "waits"
          /\ Listed(e, TRUE) \/ e \in menu => \A j \in CallsOf(e) : calls[j].client = "failed"
          /\ \A i, j \in CallsOf(e) :
                calls[i].client # "failed" /\ calls[j].client # "failed" => i = j
      BY <1>1 DEF OneAttemptOpen, GivenUp
    <2>2. CallsOf(e)' = CallsOf(e)
      BY <1>5
    <2>3. CASE e = a
      <3>1. ~Listed(e, FALSE)'
        BY <1>8, <1>9, <2>3 DEF Listed
      <3>2. \A j \in CallsOf(e) : calls'[j].client = "failed"
        BY <1>1, <1>3, <1>5, <1>10, <2>1, <2>3
      <3> QED
        BY <2>2, <3>1, <3>2 DEF GivenUp
    <2>4. CASE e # a
      <3>1. \A j \in CallsOf(e) : calls'[j] = calls[j]
        BY <1>5, <1>10, <2>4
      <3>2. ~SameText(e, a) /\ ~SameText(a, e)
        BY <1>3, <2>4 DEF Alone, SameText
      <3>3. (Listed(e, TRUE)' => Listed(e, TRUE)) /\ (Listed(e, FALSE)' => Listed(e, FALSE))
        BY <1>7, <1>9, <3>2 DEF Listed
      <3> QED
        BY <1>1, <2>1, <2>2, <3>1, <3>3 DEF GivenUp
    <2> QED
      BY <2>3, <2>4
  <1> QED
    BY <1>11, <1>12, <1>14 DEF OutboxInv

LEMMA OthersKeepOutbox ==
    ASSUME OutboxInv,
           \/ \E r \in shown : OpenMenu(r)
           \/ \E e \in menu : RemoveFailedMessage(e)
           \/ DismissMenu \/ LoadLocal \/ UNCHANGED outbox
    PROVE  OutboxInv'
  <1>1. /\ OutboxType /\ ListedOnce /\ OneAttemptOpen
    BY DEF OutboxInv
  <1>2. calls' = calls /\ \A e \in Entries : CallsOf(e)' = CallsOf(e)
    BY DEF OpenMenu, RemoveFailedMessage, DismissMenu, LoadLocal, outbox, CallsOf
  <1>3. shown' \subseteq shown
    BY DEF OpenMenu, RemoveFailedMessage, DismissMenu, LoadLocal, outbox
  <1>5. \A e \in menu' : e \in menu \/ \E r \in shown : r.entry = e /\ r.failed
    BY DEF OpenMenu, RemoveFailedMessage, DismissMenu, LoadLocal, outbox
  <1>6. \A r \in shown : r.entry \in Entries /\ r.failed \in BOOLEAN
    BY <1>1 DEF OutboxType
  <1>7. OutboxType'
    BY <1>1, <1>2, <1>3, <1>5, <1>6 DEF OutboxType
  <1>8. ListedOnce'
    <2>1. menu \subseteq Entries
      BY <1>1 DEF OutboxType
    <2> QED
      BY <1>1, <1>2, <1>3, <1>5, <1>6, <2>1 DEF ListedOnce
  <1>10. OneAttemptOpen'
    <2> SUFFICES ASSUME NEW e \in Entries, Alone(e)
                 PROVE  /\ Listed(e, FALSE)' => \E j \in CallsOf(e)' : calls'[j].client = "waits"
                        /\ (Listed(e, TRUE)' \/ e \in menu') => GivenUp(e)'
                        /\ \A i, j \in CallsOf(e)' :
                              calls'[i].client # "failed" /\ calls'[j].client # "failed" => i = j
      BY DEF OneAttemptOpen, Alone, SameText
    <2>1. /\ Listed(e, FALSE) => \E j \in CallsOf(e) : calls[j].client = "waits"
          /\ Listed(e, TRUE) \/ e \in menu => \A j \in CallsOf(e) : calls[j].client = "failed"
          /\ \A i, j \in CallsOf(e) :
                calls[i].client # "failed" /\ calls[j].client # "failed" => i = j
      BY <1>1 DEF OneAttemptOpen, GivenUp
    <2>2. (Listed(e, TRUE)' => Listed(e, TRUE)) /\ (Listed(e, FALSE)' => Listed(e, FALSE))
      BY <1>3 DEF Listed
    <2>3. e \in menu' => e \in menu \/ Listed(e, TRUE)
      BY <1>5, <1>6 DEF Listed
    <2>4. CallsOf(e)' = CallsOf(e)
      BY <1>2
    <2>5. calls' = calls
      BY <1>2
    <2>6. Listed(e, FALSE)' => \E j \in CallsOf(e)' : calls'[j].client = "waits"
      BY <2>1, <2>2, <2>4, <2>5
    <2>7. (Listed(e, TRUE)' \/ e \in menu') => \A j \in CallsOf(e) : calls'[j].client = "failed"
      BY <2>1, <2>2, <2>3, <2>5
    <2> QED
      BY <2>1, <2>4, <2>5, <2>6, <2>7 DEF GivenUp
  <1> QED
    BY <1>7, <1>8, <1>10 DEF OutboxInv

LEMMA InitOutboxInv == OutboxInit => OutboxInv
  BY DEF OutboxInit, OutboxInv, OutboxType, ListedOnce, OneAttemptOpen, CallsOf, Listed

LEMMA NextOutboxInv == OutboxInv /\ [OutboxNext]_outbox => OutboxInv'
  <1> SUFFICES ASSUME OutboxInv, [OutboxNext]_outbox PROVE OutboxInv'
    OBVIOUS
  <1>1. CASE \E e \in Entries : SendText(e)
    BY <1>1, SendKeepsOutbox
  <1>2. CASE \E e \in menu : RetryFailedMessage(e)
    BY <1>2, RetryKeepsOutbox
  <1>3. CASE \E k \in DOMAIN calls : Handle(k) \/ Acknowledge(k) \/ Expire(k)
    BY <1>3, HandleKeepsOutbox, AcknowledgeKeepsOutbox, ExpireKeepsOutbox
  <1>4. CASE \/ \E r \in shown : OpenMenu(r)
             \/ \E e \in menu : RemoveFailedMessage(e)
             \/ DismissMenu \/ LoadLocal \/ UNCHANGED outbox
    BY <1>4, OthersKeepOutbox
  <1> QED
    BY <1>1, <1>2, <1>3, <1>4 DEF OutboxNext

\* Of a message with a text of its own at most one attempt is open, it is retried
\* only when all are given up, and it is shown as being sent only while an answer is
\* waited for: for any entries and texts, any number of attempts, and reloads of the
\* list and menus at any time.
THEOREM OneAttemptAtATime == OutboxSpec => []OneAttemptOpen
  <1>1. OutboxInv => OneAttemptOpen
    BY DEF OutboxInv
  <1> QED
    BY <1>1, InitOutboxInv, NextOutboxInv, PTL DEF OutboxSpec
=============================================================================
