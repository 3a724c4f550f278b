------------------------------ MODULE EventLog ------------------------------
(***************************************************************************)
(* What the server's message log promises to the clients that read it, with*)
(* no sessions, statements or transactions: for each message the newest of *)
(* its events (sent, edited or deleted), each at a position of its own in  *)
(* one order, and the two queries by which clients read it.                *)
(*                                                                         *)
(* MessageLog implements it; ClientSync reads from it.                     *)
(***************************************************************************)
EXTENDS Integers, FiniteSets

CONSTANTS Messages, Topics, TopicOf, MaxSeq

VARIABLES
    latest,   \* per message the set of its newest event; {} if there is none
    head      \* the position of the newest event ever

Event == [seq : 1..MaxSeq, kind : {"new", "edited", "deleted"}]

-----------------------------------------------------------------------------

Init ==
    /\ latest = [m \in Messages |-> {}]
    /\ head = 0

\* Mutant of Record: the position after the last one still taken.
RecordReused(m, kind) ==
    LET taken == {0} \cup UNION {{e.seq : e \in latest[n]} : n \in Messages}
        free == 1 + (CHOOSE k \in taken : \A j \in taken : j <= k)
    IN  /\ head < MaxSeq
        /\ head' = IF head > free THEN head ELSE free
        /\ latest' = [latest EXCEPT ![m] = {[seq |-> free, kind |-> kind]}]

\* A new event of m, above all others.
Record(m, kind) ==
    /\ head < MaxSeq
    /\ head' = head + 1
    /\ latest' = [latest EXCEPT ![m] = {[seq |-> head + 1, kind |-> kind]}]

\* A message is sent only once: a retry finds its event, whatever its kind.
Post(m) == latest[m] = {} /\ Record(m, "new")

Edit(m) == Record(m, "edited")

Delete(m) == Record(m, "deleted")

\* The administrator removes messages for good.
Purge(S) ==
    /\ latest' = [m \in Messages |-> IF m \in S THEN {} ELSE latest[m]]
    /\ UNCHANGED head

Next ==
    \/ \E m \in Messages : Post(m) \/ Edit(m) \/ Delete(m)
    \/ \E S \in SUBSET Messages : Purge(S)

Spec == Init /\ [][Next]_<<latest, head>>

-----------------------------------------------------------------------------
(* The queries *)

\* The rows of a topic.
Rows(t) ==
    UNION {{[msg |-> m, seq |-> e.seq, kind |-> e.kind] : e \in latest[m]} :
              m \in {n \in Messages : TopicOf[n] = t}}

\* The first `limit` of a set of rows in ascending order of seq.
First(rows, limit) ==
    {r \in rows : Cardinality({q \in rows : q.seq < r.seq}) < limit}

\* And the last.
Last(rows, limit) ==
    {r \in rows : Cardinality({q \in rows : q.seq > r.seq}) < limit}

\* get_messages_since, get_messages_before, latest_seq.
Since(t, after, limit) == First({r \in Rows(t) : r.seq > after}, limit)

Before(t, before, limit) == Last({r \in Rows(t) : r.seq < before}, limit)

LatestSeq(t) ==
    IF Rows(t) = {} THEN 0
    ELSE CHOOSE n \in {r.seq : r \in Rows(t)} : \A r \in Rows(t) : r.seq <= n

-----------------------------------------------------------------------------

TypeOK ==
    /\ latest \in [Messages -> SUBSET Event]
    /\ head \in 0..MaxSeq

\* One newest event per message, no two messages at the same position.
Ordered ==
    \A m, n \in Messages : \A d \in latest[m], e \in latest[n] :
        /\ d.seq <= head
        /\ d.seq = e.seq => m = n /\ d = e
        /\ m = n => d = e
=============================================================================
