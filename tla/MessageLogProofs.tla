-------------------------- MODULE MessageLogProofs --------------------------
(***************************************************************************)
(* The safety properties of MessageLog, and that it implements EventLog,   *)
(* for any numbers of users, sessions, topics and messages.                *)
(***************************************************************************)
EXTENDS MessageLog, FiniteSetTheorems, TLAPS

\* The assigned seqs are exactly those up to lastSeq, and the table holds
\* nothing that was not inserted.
Bounded ==
    /\ \A r \in committed : r.seq <= lastSeq
    /\ messages \subseteq committed
    /\ \A s \in Sessions : since[s] <= lastSeq

\* An edit about to commit over a tombstone read the row before the deletion.
StaleEdit ==
    \A s \in Sessions : pc[s] = "edit_commit" =>
        \A t \in messages : t.msg = arg[s] /\ t.kind = "deleted" => since[s] < t.seq

IInv ==
    /\ TypeOK
    /\ Bounded
    /\ OneRowPerMessage
    /\ NewestStored
    /\ PostedOnce
    /\ StaleEdit

-----------------------------------------------------------------------------
(* Type correctness *)

LEMMA InitTypeOK == Init => TypeOK
  BY MessageLogAssumption DEF Init, TypeOK, Labels, Row

\* What Return and Proceed leave behind has the right type.
LEMMA ReturnType ==
    ASSUME TypeOK, NEW s \in Sessions, Return(s)
    PROVE  /\ pc' \in [Sessions -> Labels]
           /\ arg' \in [Sessions -> Messages \cup {NoMessage}]
           /\ \A q \in Sessions : pc'[q] = "idle" <=> arg'[q] = NoMessage
           /\ asAdmin' \in [Sessions -> BOOLEAN]
           /\ since' \in [Sessions -> 0..MaxSeq]
           /\ out' \in [Sessions -> SUBSET committed]
  BY MessageLogAssumption DEF Return, Goto, TypeOK, Labels

LEMMA ProceedType ==
    ASSUME TypeOK, NEW s \in Sessions, NEW label \in Labels \ {"idle"},
           pc[s] # "idle", Proceed(s, label)
    PROVE  /\ pc' \in [Sessions -> Labels]
           /\ arg' \in [Sessions -> Messages \cup {NoMessage}]
           /\ \A q \in Sessions : pc'[q] = "idle" <=> arg'[q] = NoMessage
           /\ asAdmin' \in [Sessions -> BOOLEAN]
           /\ since' \in [Sessions -> 0..MaxSeq]
           /\ out' \in [Sessions -> SUBSET committed]
  BY DEF Proceed, Goto, TypeOK, Labels

LEMMA InsertType ==
    ASSUME TypeOK, NEW s \in Sessions, NEW kind \in Kinds, NEW gone,
           pc[s] # "idle", Insert(s, kind, gone)
    PROVE  /\ messages' \subseteq Row
           /\ lastSeq' \in 0..MaxSeq
           /\ committed' \subseteq Row
           /\ committed \subseteq committed'
           /\ pc' \in [Sessions -> Labels]
           /\ arg' \in [Sessions -> Messages \cup {NoMessage}]
           /\ \A q \in Sessions : pc'[q] = "idle" <=> arg'[q] = NoMessage
           /\ asAdmin' \in [Sessions -> BOOLEAN]
           /\ since' \in [Sessions -> 0..MaxSeq]
           /\ out' \in [Sessions -> SUBSET committed']
  <1> DEFINE row == [msg |-> arg[s], seq |-> lastSeq + 1, kind |-> kind]
  <1>1. row \in Row
    BY MessageLogAssumption DEF Insert, TypeOK, Row
  <1>2. /\ messages' = (messages \ gone) \cup {row}
        /\ committed' = committed \cup {row}
        /\ out' = [out EXCEPT ![s] = {row}]
        /\ lastSeq' \in 0..MaxSeq
    BY MessageLogAssumption DEF Insert, TypeOK
  <1>3. /\ messages' \subseteq Row
        /\ committed' \subseteq Row
        /\ committed \subseteq committed'
        /\ out' \in [Sessions -> SUBSET committed']
    BY <1>1, <1>2 DEF TypeOK
  <1>4. /\ pc' \in [Sessions -> Labels]
        /\ \A q \in Sessions : pc'[q] = "idle" <=> arg'[q] = NoMessage
    BY DEF Insert, Goto, TypeOK, Labels
  <1> QED
    BY <1>2, <1>3, <1>4 DEF Insert, TypeOK

\* A handler starts.
LEMMA RequestType ==
    ASSUME TypeOK, NEW s \in Sessions, NEW m \in Messages, Request(s, m)
    PROVE  TypeOK'
  <1>1. CASE SendAdmit(s, m)
    <2>1. spoken' \in [Users -> 0..RateLimit]
      BY <1>1, MessageLogAssumption DEF SendAdmit, TypeOK
    <2>2. standing[UserOf[s]].admin \in BOOLEAN
      BY MessageLogAssumption DEF TypeOK, Standing
    <2> QED
      BY <1>1, <2>1, <2>2, MessageLogAssumption
      DEF SendAdmit, Goto, TypeOK, Labels, table, rules
  <1>2. CASE EditAdmit(s, m)
    BY <1>2, MessageLogAssumption DEF EditAdmit, Goto, TypeOK, Labels, table, rules
  <1>3. CASE DeleteAdmit(s, m)
    BY <1>3, MessageLogAssumption DEF DeleteAdmit, Goto, TypeOK, Labels, table, rules
  <1> QED
    BY <1>1, <1>2, <1>3 DEF Request

\* A handler goes on.
LEMMA ContinueType ==
    ASSUME TypeOK, NEW s \in Sessions, Continue(s)
    PROVE  TypeOK'
  <1>1. CASE SendTopic(s)
    <2>1. pc[s] # "idle"
      BY <1>1 DEF SendTopic
    <2> QED
      BY <1>1, <2>1, ReturnType, ProceedType DEF SendTopic, TypeOK, Labels, table, rules
  <1>2. CASE SendDedup(s)
    <2>1. pc[s] # "idle"
      BY <1>2 DEF SendDedup
    <2> QED
      BY <1>2, <2>1, ReturnType, ProceedType DEF SendDedup, TypeOK, Labels, table, rules
  <1>3. CASE SendInsert(s)
    <2>1. pc[s] # "idle"
      BY <1>3 DEF SendInsert
    <2>2. CASE Stored(arg[s])
      BY <1>3, <2>2, ReturnType DEF SendInsert, TypeOK, table, rules
    <2>3. CASE ~Stored(arg[s])
      <3>1. late' \in [Users -> Nat]
        BY <1>3, <2>3, MessageLogAssumption DEF SendInsert, TypeOK
      <3> QED
        BY <1>3, <2>1, <2>3, <3>1, InsertType DEF SendInsert, TypeOK, Kinds, rules
    <2> QED
      BY <2>2, <2>3
  <1>4. CASE EditRead(s)
    <2>1. CASE Live(arg[s])
      <3>1. since' \in [Sessions -> 0..MaxSeq]
        BY <1>4, <2>1 DEF EditRead, TypeOK
      <3> QED
        BY <1>4, <2>1, <3>1 DEF EditRead, Goto, TypeOK, Labels, table, rules
    <2>2. CASE ~Live(arg[s])
      BY <1>4, <2>2, ReturnType DEF EditRead, TypeOK, table, rules
    <2> QED
      BY <2>1, <2>2
  <1>5. CASE EditCommit(s)
    <2>1. pc[s] # "idle"
      BY <1>5 DEF EditCommit
    <2> QED
      BY <1>5, <2>1, InsertType DEF EditCommit, TypeOK, Kinds, rules
  <1>6. CASE DeleteAuth(s)
    <2>1. pc[s] # "idle"
      BY <1>6 DEF DeleteAuth
    <2> QED
      BY <1>6, <2>1, ReturnType, ProceedType DEF DeleteAuth, TypeOK, Labels, table, rules
  <1>7. CASE DeleteRead(s)
    <2>1. pc[s] # "idle"
      BY <1>7 DEF DeleteRead
    <2> QED
      BY <1>7, <2>1, ReturnType, ProceedType DEF DeleteRead, TypeOK, Labels, table, rules
  <1>8. CASE DeleteCommit(s)
    <2>1. pc[s] # "idle"
      BY <1>8 DEF DeleteCommit
    <2> QED
      BY <1>8, <2>1, InsertType DEF DeleteCommit, TypeOK, Kinds, rules
  <1>9. CASE Announce(s)
    BY <1>9, ReturnType DEF Announce, TypeOK, table, rules
  <1>10. CASE StatementFails(s)
    BY <1>10, ReturnType DEF StatementFails, TypeOK, table, rules
  <1> QED
    BY <1>1, <1>2, <1>3, <1>4, <1>5, <1>6, <1>7, <1>8, <1>9, <1>10 DEF Continue

LEMMA EnvironmentType ==
    ASSUME TypeOK, Environment
    PROVE  TypeOK'
  <1>1. ASSUME NEW rows \in Scopes, Clear(rows)
        PROVE  TypeOK'
    <2>1. cleared' \subseteq Messages
      <3>1. rows \subseteq messages
        BY DEF Scopes
      <3> QED
        BY <1>1, <3>1 DEF Clear, TypeOK, Row
    <2> QED
      BY <1>1, <2>1 DEF Clear, TypeOK, rules
  <1>2. ASSUME NEW u \in Users, NEW st \in Standings, Moderate(u, st)
        PROVE  TypeOK'
    <2>1. late' \in [Users -> Nat]
      BY <1>2 DEF Moderate, TypeOK
    <2> QED
      BY <1>2, <2>1 DEF Moderate, TypeOK
  <1>3. ASSUME NEW t \in Topics, NEW a \in Accesses, ChangeTopic(t, a)
        PROVE  TypeOK'
    BY <1>3 DEF ChangeTopic, TypeOK, table
  <1>4. ASSUME NEW u \in Users, WindowExpires(u)
        PROVE  TypeOK'
    BY <1>4, MessageLogAssumption DEF WindowExpires, TypeOK, table, rules
  <1> QED
    BY <1>1, <1>2, <1>3, <1>4 DEF Environment

LEMMA NextTypeOK == TypeOK /\ [Next]_vars => TypeOK'
  <1> SUFFICES ASSUME TypeOK, [Next]_vars PROVE TypeOK'
    OBVIOUS
  <1>1. CASE Restart
    BY <1>1, MessageLogAssumption DEF Restart, TypeOK, Labels, table, rules
  <1>2. CASE UNCHANGED vars
    BY <1>2 DEF vars, TypeOK
  <1> QED
    BY <1>1, <1>2, RequestType, ContinueType, EnvironmentType DEF Next, Serve

\* Every variable keeps its type; what is broadcast was committed before.
THEOREM TypeCorrect == Spec => []TypeOK
  <1> QED
    BY InitTypeOK, NextTypeOK, PTL DEF Spec
-----------------------------------------------------------------------------
(* The inductive invariant *)

\* A statement that inserts nothing leaves the table and its history alone, and
\* if it moves a session to its commit, the session has just read a live row.
Quiet(s) ==
    /\ UNCHANGED <<messages, lastSeq, committed, cleared>>
    /\ \A q \in Sessions :
          /\ since'[q] <= lastSeq
          /\ pc'[q] = "edit_commit" =>
                \/ pc[q] = "edit_commit" /\ arg'[q] = arg[q] /\ since'[q] = since[q]
                \/ q = s /\ Live(arg'[q]) /\ since'[q] = lastSeq

LEMMA QuietKeepsInv ==
    ASSUME IInv, TypeOK', NEW s \in Sessions, Quiet(s)
    PROVE  IInv'
  <1>1. Bounded'
    BY DEF IInv, Bounded, Quiet
  <1>2. OneRowPerMessage' /\ NewestStored' /\ PostedOnce'
    BY DEF IInv, OneRowPerMessage, NewestStored, PostedOnce, Quiet
  <1>3. StaleEdit'
    <2> SUFFICES ASSUME NEW q \in Sessions, pc'[q] = "edit_commit",
                        NEW t \in messages, t.msg = arg'[q], t.kind = "deleted"
                 PROVE  since'[q] < t.seq
      BY DEF StaleEdit, Quiet
    <2>1. CASE pc[q] = "edit_commit" /\ arg'[q] = arg[q] /\ since'[q] = since[q]
      BY <2>1 DEF IInv, StaleEdit
    <2>2. CASE Live(arg'[q])
      BY <2>2 DEF IInv, OneRowPerMessage, Live, RowsOf
    <2> QED
      BY <2>1, <2>2 DEF Quiet
  <1> QED
    BY <1>1, <1>2, <1>3 DEF IInv

\* An insertion keeps the invariant when it takes every row of the message
\* away first, or finds none.
LEMMA InsertKeepsInv ==
    ASSUME IInv, TypeOK', NEW s \in Sessions, NEW kind \in Kinds, NEW gone,
           arg[s] \in Messages, gone = RowsOf(arg[s]), Insert(s, kind, gone),
           kind = "new" => ~Stored(arg[s]), cleared' = cleared
    PROVE  IInv'
  <1> DEFINE m == arg[s]
             row == [msg |-> m, seq |-> lastSeq + 1, kind |-> kind]
  <1>1. /\ messages' = (messages \ gone) \cup {row}
        /\ committed' = committed \cup {row}
        /\ lastSeq' = lastSeq + 1
        /\ pc' = [pc EXCEPT ![s] = "announce"]
        /\ arg' = arg /\ since' = since
    BY DEF Insert, Goto
  <1>2. lastSeq \in Nat /\ \A q \in Sessions : since[q] \in Nat
    BY MessageLogAssumption DEF IInv, TypeOK
  <1>3. \A r \in committed : r.seq \in Nat /\ r.seq < row.seq
    BY <1>2, MessageLogAssumption DEF IInv, TypeOK, Bounded, Row
  <1>4. Bounded'
    BY <1>1, <1>2, <1>3 DEF IInv, Bounded
  <1>5. OneRowPerMessage'
    BY <1>1 DEF IInv, OneRowPerMessage, RowsOf
  <1>6. NewestStored'
    <2> SUFFICES ASSUME NEW q \in committed', q.msg \notin cleared
                 PROVE  \E r \in messages' : r.msg = q.msg /\ q.seq <= r.seq
      BY DEF NewestStored
    <2>1. CASE q.msg = m
      <3>1. row \in messages' /\ row.msg = q.msg
        BY <1>1, <2>1
      <3>2. q = row \/ q.seq < row.seq
        BY <1>1, <1>3
      <3>3. q.seq <= row.seq
        BY <1>2, <1>3, <1>1, <3>2
      <3> QED
        BY <3>1, <3>3
    <2>2. CASE q.msg # m
      <3>1. q \in committed
        BY <1>1, <2>2
      <3>2. PICK r \in messages : r.msg = q.msg /\ q.seq <= r.seq
        BY <3>1 DEF IInv, NewestStored
      <3> QED
        BY <1>1, <2>2, <3>2 DEF RowsOf
    <2> QED
      BY <2>1, <2>2
  <1>7. PostedOnce'
    <2>1. ASSUME kind = "new", NEW q \in committed, q.msg = m
          PROVE  m \in cleared
      BY <2>1 DEF IInv, NewestStored, Stored, RowsOf
    <2> QED
      BY <1>1, <2>1 DEF IInv, PostedOnce
  <1>8. StaleEdit'
    <2> SUFFICES ASSUME NEW q \in Sessions, pc'[q] = "edit_commit",
                        NEW t \in messages', t.msg = arg[q], t.kind = "deleted"
                 PROVE  since[q] < t.seq
      BY <1>1 DEF StaleEdit
    <2>1. pc[q] = "edit_commit"
      BY <1>1 DEF IInv, TypeOK
    <2>2. CASE t = row
      BY <1>2, <2>2 DEF IInv, Bounded
    <2>3. CASE t # row
      BY <1>1, <2>1, <2>3 DEF IInv, StaleEdit
    <2> QED
      BY <2>2, <2>3
  <1> QED
    BY <1>4, <1>5, <1>6, <1>7, <1>8 DEF IInv

\* A handler whose pc is not "idle" has a message to work on.
LEMMA BusyHasMessage ==
    ASSUME TypeOK, NEW s \in Sessions, pc[s] # "idle"
    PROVE  arg[s] \in Messages
  BY DEF TypeOK

LEMMA RequestInv ==
    ASSUME IInv, TypeOK', NEW s \in Sessions, NEW m \in Messages, Request(s, m)
    PROVE  IInv'
  <1>1. Quiet(s)
    BY MessageLogAssumption
    DEF Request, SendAdmit, EditAdmit, DeleteAdmit, Goto, Quiet, table, IInv, TypeOK, Bounded
  <1> QED
    BY <1>1, QuietKeepsInv

LEMMA ContinueInv ==
    ASSUME IInv, TypeOK', NEW s \in Sessions, Continue(s)
    PROVE  IInv'
  <1> USE DEF IInv
  <1>a. /\ lastSeq \in Nat
        /\ \A q \in Sessions : since[q] \in Nat /\ since[q] <= lastSeq
    BY MessageLogAssumption DEF TypeOK, Bounded
  <1>b. ASSUME Return(s), UNCHANGED table
        PROVE  Quiet(s)
    BY <1>a, <1>b DEF Return, Goto, Quiet, TypeOK, table
  <1>c. ASSUME NEW label \in Labels \ {"edit_commit"}, Proceed(s, label), UNCHANGED table
        PROVE  Quiet(s)
    BY <1>a, <1>c DEF Proceed, Goto, Quiet, TypeOK, table
  <1>1. CASE SendTopic(s)
    <2>1. Quiet(s)
      BY <1>1, <1>b, <1>c DEF SendTopic, Labels
    <2> QED
      BY <2>1, QuietKeepsInv
  <1>2. CASE SendDedup(s)
    <2>1. Quiet(s)
      BY <1>2, <1>b, <1>c DEF SendDedup, Labels
    <2> QED
      BY <2>1, QuietKeepsInv
  <1>3. CASE SendInsert(s)
    <2>1. CASE Stored(arg[s])
      <3>1. Quiet(s)
        BY <1>3, <2>1, <1>b DEF SendInsert
      <3> QED
        BY <3>1, QuietKeepsInv
    <2>2. CASE ~Stored(arg[s])
      <3>1. RowsOf(arg[s]) = {}
        BY <2>2 DEF Stored
      <3>2. arg[s] \in Messages
        BY <1>3, BusyHasMessage DEF SendInsert
      <3>3. Insert(s, "new", {}) /\ cleared' = cleared
        BY <1>3, <2>2 DEF SendInsert
      <3> QED
        BY <2>2, <3>1, <3>2, <3>3, InsertKeepsInv DEF Kinds
    <2> QED
      BY <2>1, <2>2
  <1>4. CASE EditRead(s)
    <2>1. CASE Live(arg[s])
      <3>1. Quiet(s)
        BY <1>4, <1>a, <2>1 DEF EditRead, Goto, Quiet, table, TypeOK
      <3> QED
        BY <3>1, QuietKeepsInv
    <2>2. CASE ~Live(arg[s])
      <3>1. Quiet(s)
        BY <1>4, <2>2, <1>b DEF EditRead
      <3> QED
        BY <3>1, QuietKeepsInv
    <2> QED
      BY <2>1, <2>2
  <1>5. CASE EditCommit(s)
    <2>1. arg[s] \in Messages
      BY <1>5, BusyHasMessage DEF EditCommit
    <2> QED
      BY <1>5, <2>1, InsertKeepsInv DEF EditCommit, Kinds
  <1>6. CASE DeleteAuth(s)
    <2>1. Quiet(s)
      BY <1>6, <1>b, <1>c DEF DeleteAuth, Labels
    <2> QED
      BY <2>1, QuietKeepsInv
  <1>7. CASE DeleteRead(s)
    <2>1. Quiet(s)
      BY <1>7, <1>b, <1>c DEF DeleteRead, Labels
    <2> QED
      BY <2>1, QuietKeepsInv
  <1>8. CASE DeleteCommit(s)
    <2>1. arg[s] \in Messages
      BY <1>8, BusyHasMessage DEF DeleteCommit
    <2> QED
      BY <1>8, <2>1, InsertKeepsInv DEF DeleteCommit, Kinds
  <1>9. CASE Announce(s)
    <2>1. Quiet(s)
      BY <1>9, <1>b DEF Announce
    <2> QED
      BY <2>1, QuietKeepsInv
  <1>10. CASE StatementFails(s)
    <2>1. Quiet(s)
      BY <1>10, <1>b DEF StatementFails
    <2> QED
      BY <2>1, QuietKeepsInv
  <1> QED
    BY <1>1, <1>2, <1>3, <1>4, <1>5, <1>6, <1>7, <1>8, <1>9, <1>10 DEF Continue

LEMMA OthersInv ==
    ASSUME IInv, TypeOK', Environment \/ Restart \/ UNCHANGED vars
    PROVE  IInv'
  <1>1. ASSUME NEW rows \in Scopes, Clear(rows)
        PROVE  IInv'
    <2>1. NewestStored'
      <3> SUFFICES ASSUME NEW q \in committed, q.msg \notin cleared'
                   PROVE  \E r \in messages' : r.msg = q.msg /\ q.seq <= r.seq
        BY <1>1 DEF NewestStored, Clear
      <3>1. PICK r \in messages : r.msg = q.msg /\ q.seq <= r.seq
        BY <1>1 DEF IInv, NewestStored, Clear
      <3>2. r \notin rows
        BY <1>1, <3>1 DEF Clear
      <3> QED
        BY <1>1, <3>1, <3>2 DEF Clear
    <2>2. PostedOnce'
      BY <1>1 DEF Clear, IInv, PostedOnce
    <2>3. Bounded' /\ OneRowPerMessage' /\ StaleEdit'
      BY <1>1 DEF Clear, IInv, Bounded, OneRowPerMessage, StaleEdit
    <2> QED
      BY <2>1, <2>2, <2>3 DEF IInv
  <1>2. CASE Restart
    <2>1. Bounded' /\ StaleEdit'
      BY <1>2, MessageLogAssumption DEF Restart, IInv, TypeOK, Bounded, StaleEdit, table
    <2>2. OneRowPerMessage' /\ NewestStored' /\ PostedOnce'
      BY <1>2 DEF Restart, IInv, OneRowPerMessage, NewestStored, PostedOnce, table
    <2> QED
      BY <2>1, <2>2 DEF IInv
  <1>3. ASSUME UNCHANGED <<messages, lastSeq, committed, cleared, pc, arg, since>>
        PROVE  IInv'
    <2>1. Bounded' /\ StaleEdit'
      BY <1>3 DEF IInv, Bounded, StaleEdit
    <2>2. OneRowPerMessage' /\ NewestStored' /\ PostedOnce'
      BY <1>3 DEF IInv, OneRowPerMessage, NewestStored, PostedOnce
    <2> QED
      BY <2>1, <2>2 DEF IInv
  <1> QED
    BY <1>1, <1>2, <1>3 DEF Environment, Moderate, ChangeTopic, WindowExpires, vars, table

LEMMA InitIInv == Init => IInv
  BY InitTypeOK, MessageLogAssumption
  DEF Init, IInv, Bounded, OneRowPerMessage, NewestStored, PostedOnce, StaleEdit

LEMMA NextIInv == IInv /\ [Next]_vars => IInv'
  <1> SUFFICES ASSUME IInv, [Next]_vars PROVE IInv'
    OBVIOUS
  <1>1. TypeOK'
    BY NextTypeOK DEF IInv
  <1> QED
    BY <1>1, RequestInv, ContinueInv, OthersInv DEF Next, Serve

LEMMA Invariance == Spec => []IInv
  BY InitIInv, NextIInv, PTL DEF Spec

-----------------------------------------------------------------------------
(* The safety properties *)

\* However retries, edits and deletions interleave, no message has two rows.
THEOREM OneRow == Spec => []OneRowPerMessage
  <1>1. IInv => OneRowPerMessage
    BY DEF IInv
  <1> QED
    BY <1>1, Invariance, PTL

\* Only a bulk deletion loses the newest event of a message.
THEOREM NewestEventIsStored == Spec => []NewestStored
  <1>1. IInv => NewestStored
    BY DEF IInv
  <1> QED
    BY <1>1, Invariance, PTL

\* A message becomes new only once, unless an administrator cleared it.
THEOREM NoRepost == Spec => []PostedOnce
  <1>1. IInv => PostedOnce
    BY DEF IInv
  <1> QED
    BY <1>1, Invariance, PTL

\* How a step changes the table: not at all, by one insertion that replaces the
\* message's rows, or by a bulk deletion.
Inserts(m, kind) ==
    /\ lastSeq < MaxSeq
    /\ lastSeq' = lastSeq + 1
    /\ messages' = (messages \ RowsOf(m)) \cup
                      {[msg |-> m, seq |-> lastSeq + 1, kind |-> kind]}
    /\ committed' = committed \cup {[msg |-> m, seq |-> lastSeq + 1, kind |-> kind]}

Removes(rows) ==
    /\ messages' = messages \ rows
    /\ UNCHANGED <<lastSeq, committed>>

LEMMA StepOfTable ==
    ASSUME IInv, [Next]_vars
    PROVE  \/ UNCHANGED <<messages, lastSeq, committed>>
           \/ \E m \in Messages : Inserts(m, "new") /\ ~Stored(m)
           \/ \E s \in Sessions : /\ pc[s] = "edit_commit" /\ arg[s] \in Messages
                                  /\ Inserts(arg[s], "edited")
           \/ \E m \in Messages : Inserts(m, "deleted")
           \/ \E rows \in SUBSET messages : Removes(rows)
  <1> USE DEF IInv
  <1>1. ASSUME NEW s \in Sessions, SendInsert(s), ~Stored(arg[s])
        PROVE  arg[s] \in Messages /\ Inserts(arg[s], "new")
    <2>1. arg[s] \in Messages
      BY <1>1, BusyHasMessage DEF SendInsert
    <2>2. RowsOf(arg[s]) = {}
      BY <1>1 DEF Stored
    <2> QED
      BY <1>1, <2>1, <2>2 DEF SendInsert, Insert, Inserts
  <1>2. ASSUME NEW s \in Sessions, EditCommit(s)
        PROVE  pc[s] = "edit_commit" /\ arg[s] \in Messages /\ Inserts(arg[s], "edited")
    BY <1>2, BusyHasMessage DEF EditCommit, Insert, Inserts
  <1>3. ASSUME NEW s \in Sessions, DeleteCommit(s)
        PROVE  arg[s] \in Messages /\ Inserts(arg[s], "deleted")
    BY <1>3, BusyHasMessage DEF DeleteCommit, Insert, Inserts
  <1>4. ASSUME NEW rows \in Scopes, Clear(rows)
        PROVE  rows \in SUBSET messages /\ Removes(rows)
    BY <1>4 DEF Clear, Removes, Scopes
  <1>5. ASSUME NEW s \in Sessions, Continue(s),
               ~(SendInsert(s) /\ ~Stored(arg[s])), ~EditCommit(s), ~DeleteCommit(s)
        PROVE  UNCHANGED <<messages, lastSeq, committed>>
    BY <1>5 DEF Continue, SendTopic, SendDedup, SendInsert, EditRead, DeleteAuth,
                DeleteRead, Announce, StatementFails, table
  <1>6. ASSUME NEW s \in Sessions, NEW m \in Messages, Request(s, m)
        PROVE  UNCHANGED <<messages, lastSeq, committed>>
    BY <1>6 DEF Request, SendAdmit, EditAdmit, DeleteAdmit, table
  <1>7. CASE Environment \/ Restart \/ UNCHANGED vars
    BY <1>4, <1>7
    DEF Environment, Moderate, ChangeTopic, WindowExpires, Restart, table, vars
  <1> QED
    BY <1>1, <1>2, <1>3, <1>5, <1>6, <1>7 DEF Next, Serve

\* Every insertion is above all seqs ever assigned: a cursor misses nothing.
THEOREM CursorContract == Spec => SeqsOnlyGrow
  <1>1. IInv /\ [Next]_vars =>
           [\A r \in committed' \ committed : \A q \in committed : q.seq < r.seq]_vars
    <2> SUFFICES ASSUME IInv, [Next]_vars,
                        NEW r \in committed' \ committed, NEW q \in committed
                 PROVE  q.seq < r.seq
      OBVIOUS
    <2>1. q.seq \in Nat /\ lastSeq \in Nat /\ q.seq <= lastSeq
      BY MessageLogAssumption DEF IInv, TypeOK, Bounded, Row
    <2>2. r.seq = lastSeq + 1
      BY StepOfTable DEF Inserts, Removes
    <2> QED
      BY <2>1, <2>2
  <1> QED
    BY <1>1, Invariance, PTL DEF Spec, SeqsOnlyGrow

\* An edit that starts after a deletion was committed never undoes it.
THEOREM LateEditNeverRevives == Spec => OnlyRacingEditRevives
  <1> DEFINE Revived(t, e) == t.msg = e.msg /\ t.kind = "deleted" /\ e.kind = "edited"
             Racing(t) == \E s \in Sessions : /\ pc[s] = "edit_commit" /\ arg[s] = t.msg
                                              /\ since[s] < t.seq
  <1>1. IInv /\ [Next]_vars =>
           [\A t \in messages, e \in messages' : Revived(t, e) => Racing(t)]_vars
    <2> SUFFICES ASSUME IInv, [Next]_vars, NEW t \in messages, NEW e \in messages',
                        Revived(t, e)
                 PROVE  Racing(t)
      OBVIOUS
    <2>1. e \notin messages
      BY DEF IInv, OneRowPerMessage
    <2>2. PICK s \in Sessions : pc[s] = "edit_commit" /\ Inserts(arg[s], "edited")
      BY <2>1, StepOfTable DEF Inserts, Removes
    <2>3. e.msg = arg[s]
      BY <2>1, <2>2 DEF Inserts
    <2> QED
      BY <2>2, <2>3 DEF IInv, StaleEdit
  <1> QED
    BY <1>1, Invariance, PTL DEF Spec, OnlyRacingEditRevives

-----------------------------------------------------------------------------
(* Late sends *)

SessionsOf(u) == {s \in Sessions : UserOf[s] = u}

\* The sends of u that were admitted and have not reached the table.
Sending(u) == {s \in SessionsOf(u) : pc[s] \in {"send_topic", "send_dedup", "send_insert"}}

\* Whoever may send has no late rows; whoever no longer may has inserted as many
\* as its sessions have let go of.
LateAccounted ==
    \A u \in Users :
        IF MaySend(standing[u]) THEN late[u] = 0
        ELSE late[u] + Cardinality(Sending(u)) <= Cardinality(SessionsOf(u))

\* What a step may do to the count of a user: be 0 because the user may send
\* after it, stay, or grow by a send that was under way.
Cleared(u) == MaySend(standing'[u]) /\ late'[u] = 0

Keeps(u) ==
    /\ ~MaySend(standing'[u])
    /\ late'[u] = late[u]
    /\ MaySend(standing[u]) \/ Sending(u)' \subseteq Sending(u)

Grows(u) ==
    /\ ~MaySend(standing'[u]) /\ ~MaySend(standing[u])
    /\ late'[u] = late[u] + 1
    /\ \E s \in Sending(u) : Sending(u)' \subseteq Sending(u) \ {s}

LEMMA SendingFinite ==
    ASSUME NEW u
    PROVE  /\ Cardinality(SessionsOf(u)) \in Nat
           /\ IsFiniteSet(Sending(u)) /\ Cardinality(Sending(u)) \in Nat
           /\ Cardinality(Sending(u)) <= Cardinality(SessionsOf(u))
           /\ Cardinality(Sending(u)') \in Nat
           /\ Cardinality(Sending(u)') <= Cardinality(SessionsOf(u))
  <1>1. IsFiniteSet(SessionsOf(u))
    BY FS_Subset, MessageLogAssumption DEF SessionsOf
  <1>2. Sending(u) \in SUBSET SessionsOf(u) /\ Sending(u)' \in SUBSET SessionsOf(u)
    BY DEF Sending, SessionsOf
  <1>3. /\ IsFiniteSet(Sending(u)) /\ Cardinality(Sending(u)) <= Cardinality(SessionsOf(u))
        /\ IsFiniteSet(Sending(u)') /\ Cardinality(Sending(u)') <= Cardinality(SessionsOf(u))
    BY <1>1, <1>2, FS_Subset
  <1> QED
    BY <1>1, <1>3, FS_CardinalityType

\* The argument by counting.
LEMMA StepKeepsAccount ==
    ASSUME TypeOK, LateAccounted, \A u \in Users : Cleared(u) \/ Keeps(u) \/ Grows(u)
    PROVE  LateAccounted'
  <1> SUFFICES ASSUME NEW u \in Users, ~MaySend(standing'[u])
               PROVE  late'[u] + Cardinality(Sending(u)') <= Cardinality(SessionsOf(u))
    BY DEF LateAccounted, Cleared, Keeps, Grows, SessionsOf, MaySend
  <1> USE SendingFinite
  <1>1. late[u] \in Nat
    BY DEF TypeOK
  <1>2. CASE Keeps(u) /\ MaySend(standing[u])
    BY <1>2, <1>1 DEF Keeps, LateAccounted
  <1>3. CASE Keeps(u) /\ ~MaySend(standing[u])
    <2>1. Cardinality(Sending(u)') <= Cardinality(Sending(u))
      BY <1>3, FS_Subset DEF Keeps
    <2> QED
      BY <1>1, <1>3, <2>1 DEF Keeps, LateAccounted
  <1>4. CASE Grows(u)
    <2>1. PICK s \in Sending(u) : Sending(u)' \subseteq Sending(u) \ {s}
      BY <1>4 DEF Grows
    <2>2. /\ IsFiniteSet(Sending(u) \ {s})
          /\ Cardinality(Sending(u) \ {s}) = Cardinality(Sending(u)) - 1
      BY <2>1, FS_RemoveElement
    <2>3. Cardinality(Sending(u)') <= Cardinality(Sending(u)) - 1
      BY <2>1, <2>2, FS_Subset
    <2> QED
      BY <1>1, <1>4, <2>3 DEF Grows, LateAccounted
  <1> QED
    BY <1>2, <1>3, <1>4 DEF Cleared

\* A send is admitted only while its author may send.
LEMMA RequestAccounts ==
    ASSUME TypeOK, LateAccounted, NEW s \in Sessions, NEW m \in Messages, Request(s, m),
           NEW u \in Users
    PROVE  Cleared(u) \/ Keeps(u)
  <1>1. /\ standing' = standing /\ late' = late
        /\ \A q \in Sessions : q # s => pc'[q] = pc[q]
        /\ pc'[s] = "send_topic" => MaySend(standing[UserOf[s]])
        /\ pc'[s] \in {"send_topic", "edit_read", "delete_auth"}
    BY DEF Request, SendAdmit, EditAdmit, DeleteAdmit, Goto, TypeOK, table, rules
  <1>2. MaySend(standing[u]) \/ Sending(u)' \subseteq Sending(u)
    BY <1>1 DEF Sending, SessionsOf
  <1> QED
    BY <1>1, <1>2 DEF Cleared, Keeps, LateAccounted

\* A row that is inserted is no longer under way.
LEMMA ContinueAccounts ==
    ASSUME TypeOK, LateAccounted, NEW s \in Sessions, Continue(s), NEW u \in Users
    PROVE  Cleared(u) \/ Keeps(u) \/ Grows(u)
  <1>1. /\ standing' = standing
        /\ \A q \in Sessions : q # s => pc'[q] = pc[q]
    BY DEF Continue, SendTopic, SendDedup, SendInsert, EditRead, EditCommit, DeleteAuth,
           DeleteRead, DeleteCommit, Announce, StatementFails, Insert, Return, Proceed, Goto,
           TypeOK, rules
  <1>2. CASE SendInsert(s) /\ ~Stored(arg[s])
    <2>1. /\ pc[s] = "send_insert" /\ pc'[s] = "announce"
          /\ late' = IF MaySend(standing[UserOf[s]]) THEN late
                     ELSE [late EXCEPT ![UserOf[s]] = @ + 1]
      BY <1>2 DEF SendInsert, Insert, Goto, TypeOK
    <2>2. Sending(u)' = Sending(u) \ {s}
      BY <1>1, <2>1 DEF Sending, SessionsOf
    <2>3. CASE MaySend(standing[u])
      <3>1. late'[u] = late[u]
        BY <2>1, <2>3, MessageLogAssumption DEF TypeOK
      <3> QED
        BY <1>1, <2>3, <3>1 DEF Cleared, LateAccounted
    <2>4. CASE ~MaySend(standing[u]) /\ UserOf[s] = u
      <3>1. s \in Sending(u) /\ late'[u] = late[u] + 1
        BY <2>1, <2>4 DEF Sending, SessionsOf, TypeOK
      <3> QED
        BY <1>1, <2>2, <2>4, <3>1 DEF Grows
    <2>5. CASE ~MaySend(standing[u]) /\ UserOf[s] # u
      <3>1. late'[u] = late[u]
        BY <2>1, <2>5 DEF TypeOK
      <3> QED
        BY <1>1, <2>2, <2>5, <3>1 DEF Keeps
    <2> QED
      BY <2>3, <2>4, <2>5
  <1>3. CASE ~(SendInsert(s) /\ ~Stored(arg[s]))
    <2>1. late' = late
      BY <1>3 DEF Continue, SendTopic, SendDedup, SendInsert, EditRead, EditCommit, DeleteAuth,
                  DeleteRead, DeleteCommit, Announce, StatementFails, table
    <2>2. \/ pc'[s] \notin {"send_topic", "send_dedup", "send_insert"}
          \/ pc[s] \in {"send_topic", "send_dedup"}
      BY <1>3 DEF Continue, SendTopic, SendDedup, SendInsert, EditRead, EditCommit, DeleteAuth,
                  DeleteRead, DeleteCommit, Announce, StatementFails, Insert, Return, Proceed,
                  Goto, TypeOK
    <2>3. Sending(u)' \subseteq Sending(u)
      BY <1>1, <2>2 DEF Sending, SessionsOf
    <2> QED
      BY <1>1, <2>1, <2>3 DEF Cleared, Keeps, LateAccounted
  <1> QED
    BY <1>2, <1>3

LEMMA OthersAccount ==
    ASSUME TypeOK, LateAccounted, Environment \/ Restart, NEW u \in Users
    PROVE  Cleared(u) \/ Keeps(u)
  <1>1. CASE Restart
    <2>1. Sending(u)' = {}
      BY <1>1 DEF Restart, Sending, SessionsOf
    <2> QED
      BY <1>1, <2>1 DEF Restart, Cleared, Keeps, LateAccounted, table, rules
  <1>2. ASSUME NEW v \in Users, NEW st \in Standings, Moderate(v, st)
        PROVE  Cleared(u) \/ Keeps(u)
    <2>1. Sending(u)' = Sending(u)
      BY <1>2 DEF Moderate, Sending, SessionsOf
    <2>2. u # v => standing'[u] = standing[u] /\ late'[u] = late[u]
      BY <1>2 DEF Moderate, TypeOK
    <2>3. u = v => standing'[u] = st /\ late'[u] = IF MaySend(st) THEN 0 ELSE late[u]
      BY <1>2 DEF Moderate, TypeOK
    <2> QED
      BY <2>1, <2>2, <2>3 DEF Cleared, Keeps, LateAccounted
  <1>3. ASSUME UNCHANGED <<standing, late, pc>>
        PROVE  Cleared(u) \/ Keeps(u)
    BY <1>3 DEF Cleared, Keeps, LateAccounted, Sending, SessionsOf
  <1> QED
    BY <1>1, <1>2, <1>3 DEF Environment, Clear, ChangeTopic, WindowExpires, table, rules

LEMMA InitAccounted == Init => LateAccounted
  <1> SUFFICES ASSUME Init, NEW u \in Users
               PROVE  0 + Cardinality(Sending(u)) <= Cardinality(SessionsOf(u))
    BY DEF Init, LateAccounted
  <1> QED
    BY SendingFinite

LEMMA NextAccounted == TypeOK /\ LateAccounted /\ [Next]_vars => LateAccounted'
  <1> SUFFICES ASSUME TypeOK, LateAccounted, [Next]_vars PROVE LateAccounted'
    OBVIOUS
  <1>1. CASE UNCHANGED vars
    BY <1>1 DEF vars, LateAccounted, Sending, SessionsOf
  <1>2. CASE Next
    BY <1>2, StepKeepsAccount, RequestAccounts, ContinueAccounts, OthersAccount
    DEF Next, Serve
  <1> QED
    BY <1>1, <1>2

\* However kicks, mutes and bans interleave with sends, the sends that still
\* reach the log are at most one per session of the user.
THEOREM LateSendsFew == Spec => []LateSendsBounded
  <1>1. TypeOK /\ LateAccounted => LateSendsBounded
    <2> SUFFICES ASSUME TypeOK, LateAccounted, NEW u \in Users
                 PROVE  late[u] <= Cardinality(SessionsOf(u))
      BY DEF LateSendsBounded, SessionsOf
    <2> QED
      BY SendingFinite DEF TypeOK, LateAccounted
  <1> QED
    BY <1>1, TypeCorrect, InitAccounted, NextAccounted, PTL DEF Spec

-----------------------------------------------------------------------------
(* MessageLog implements EventLog *)

LEMMA InitImplements == Init => Events!Init
  BY DEF Init, Events!Init, EventsOf, RowsOf

LEMMA InsertImplements ==
    ASSUME NEW m \in Messages, NEW kind \in Kinds, Inserts(m, kind)
    PROVE  Events!Record(m, kind)
  <1> DEFINE event == [seq |-> lastSeq + 1, kind |-> kind]
  <1>1. EventsOf(m)' = {event}
    <2>1. RowsOf(m)' = {[msg |-> m, seq |-> lastSeq + 1, kind |-> kind]}
      BY DEF Inserts, RowsOf
    <2> QED
      BY <2>1 DEF EventsOf
  <1>2. ASSUME NEW n \in Messages, n # m
        PROVE  EventsOf(n)' = EventsOf(n)
    BY <1>2 DEF Inserts, EventsOf, RowsOf
  <1>3. [n \in Messages |-> EventsOf(n)]' =
           [[n \in Messages |-> EventsOf(n)] EXCEPT ![m] = {event}]
    BY <1>1, <1>2
  <1> QED
    BY <1>3 DEF Inserts, Events!Record

LEMMA NextImplements ==
    IInv /\ [Next]_vars =>
        [Events!Next]_<<[m \in Messages |-> EventsOf(m)], lastSeq>>
  <1> SUFFICES ASSUME IInv, [Next]_vars
               PROVE  [Events!Next]_<<[m \in Messages |-> EventsOf(m)], lastSeq>>
    OBVIOUS
  <1>1. CASE UNCHANGED <<messages, lastSeq, committed>>
    <2>1. \A m : EventsOf(m)' = EventsOf(m)
      BY <1>1 DEF EventsOf, RowsOf
    <2> QED
      BY <1>1, <2>1
  <1>2. ASSUME NEW m \in Messages, Inserts(m, "new"), ~Stored(m)
        PROVE  Events!Next
    <2>1. EventsOf(m) = {}
      BY <1>2 DEF EventsOf, Stored
    <2>2. Events!Record(m, "new")
      BY <1>2, InsertImplements DEF Kinds
    <2> QED
      BY <2>1, <2>2 DEF Events!Next, Events!Post
  <1>3. ASSUME NEW m \in Messages, Inserts(m, "edited")
        PROVE  Events!Next
    BY <1>3, InsertImplements DEF Kinds, Events!Next, Events!Edit
  <1>4. ASSUME NEW m \in Messages, Inserts(m, "deleted")
        PROVE  Events!Next
    BY <1>4, InsertImplements DEF Kinds, Events!Next, Events!Delete
  <1>5. ASSUME NEW rows \in SUBSET messages, Removes(rows)
        PROVE  Events!Next
    <2> DEFINE S == {r.msg : r \in rows}
    <2>1. S \in SUBSET Messages
      BY DEF IInv, TypeOK, Row
    <2>2. ASSUME NEW m \in Messages
          PROVE  EventsOf(m)' = IF m \in S THEN {} ELSE EventsOf(m)
      <3>1. CASE m \in S
        <4>1. RowsOf(m)' = {}
          BY <1>5, <3>1 DEF Removes, RowsOf, IInv, OneRowPerMessage
        <4> QED
          BY <3>1, <4>1 DEF EventsOf
      <3>2. CASE m \notin S
        <4>1. RowsOf(m)' = RowsOf(m)
          BY <1>5, <3>2 DEF Removes, RowsOf
        <4> QED
          BY <3>2, <4>1 DEF EventsOf
      <3> QED
        BY <3>1, <3>2
    <2>3. Events!Purge(S)
      BY <1>5, <2>2 DEF Events!Purge, Removes
    <2> QED
      BY <2>1, <2>3 DEF Events!Next
  <1> QED
    BY StepOfTable, <1>1, <1>2, <1>3, <1>4, <1>5

\* The handlers and the table implement the event log the clients rely on.
THEOREM Implementation == Spec => ImplementsEventLog
  <1> QED
    BY InitImplements, NextImplements, Invariance, PTL
    DEF Spec, ImplementsEventLog, Events!Spec
=============================================================================
