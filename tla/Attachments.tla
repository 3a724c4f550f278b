----------------------------- MODULE Attachments -----------------------------
(***************************************************************************)
(* The attachments of the chat server (server/src/attachments.rs, and the  *)
(* removals by ws.rs and admin.rs): files named by their content, shared   *)
(* by all records of the table `attachments` with that content.            *)
(*                                                                         *)
(*   - an upload writes the file unless it is there, then the record;      *)
(*   - the removal of one attachment, requested or because its message is  *)
(*     deleted, deletes the record, counts the records with that path and  *)
(*     removes the file when none is left;                                 *)
(*   - a bulk deletion removes the messages, then looks for attachments    *)
(*     whose upload named one of them as its msg_id.                       *)
(*                                                                         *)
(* A worker serves one request at a time.  A statement or a call of the    *)
(* file system is a step, and step[w] names the next one.  Sizes, types,   *)
(* names and thumbnails (uploads like any other) are left out.             *)
(***************************************************************************)
EXTENDS Naturals, FiniteSets

CONSTANTS
    Workers,     \* requests being served at a time
    Uploads,     \* attachment ids; each is given to one upload
    Contents,    \* hashes and sizes of contents: the paths
    ContentOf,   \* [Uploads -> Contents]
    Posts,       \* msg_ids of messages with an attachment
    Tags         \* what uploads name as their msg_id; a client's is no message's

ASSUME AttachmentsAssumption ==
    /\ ContentOf \in [Uploads -> Contents]
    /\ "none" \notin Tags

VARIABLES
    attachments, \* the table `attachments`: its attachment_ids
    tag,         \* the column msg_id, per id given out
    files,       \* per path: no file, a torn one, a whole one
    posts,       \* per message: not sent yet, the attachment it carries, or
                 \* deleted, or gone in a bulk deletion
    step, work,  \* the next step of each worker and the request it serves
    victims,     \* history: uploads that overlapped the removal of their file
    torn,        \* history: paths whose file a crash or an error left torn
    strays       \* history: paths whose upload or removal was cut short

storeVars == <<attachments, tag, files, posts, step, work, victims, torn, strays>>

-----------------------------------------------------------------------------
(* Requests *)

States == {"none", "torn", "whole"}

\* What became of a message.
Fates == {"unsent", "deleted", "cleared"}

\* id: the attachment; post: the message to delete; left: the messages a bulk
\* deletion has reported and not looked at yet; linked: the file that it writes
\* still has its name; rivals: history: uploads recorded since it counted none.
Idle == [order |-> "none", id |-> "none", post |-> "none", left |-> {}, linked |-> FALSE,
         rivals |-> {}]

Path(w) == ContentOf[work[w].id]

Ask(w, order, id, post) ==
    /\ step[w] = "idle"
    /\ work' = [work EXCEPT ![w] = [Idle EXCEPT !.order = order, !.id = id, !.post = post]]

Then(w, next) == step' = [step EXCEPT ![w] = next]

Answer(w) == Then(w, "idle") /\ work' = [work EXCEPT ![w] = Idle]

-----------------------------------------------------------------------------
(* upload *)

\* attachment_id is fresh; the client chooses msg_id.
Upload(w, a, t) ==
    /\ tag[a] = "none"
    /\ Ask(w, "upload", a, "none")
    /\ tag' = [tag EXCEPT ![a] = t]
    /\ Then(w, "exists")
    /\ UNCHANGED <<attachments, files, posts, victims, torn, strays>>

\* A file of that name is taken to hold the content.
UploadExists(w) ==
    /\ step[w] = "exists"
    /\ Then(w, IF files[Path(w)] = "none" THEN "open" ELSE "insert")
    /\ UNCHANGED <<attachments, tag, files, posts, work, victims, torn, strays>>

\* fs::write creates or empties the file ...
UploadOpen(w) ==
    /\ step[w] = "open"
    /\ files' = [files EXCEPT ![Path(w)] = "torn"]
    /\ work' = [work EXCEPT ![w].linked = TRUE]
    /\ Then(w, "fill")
    /\ UNCHANGED <<attachments, tag, posts, victims, torn, strays>>

\* ... and fills it, under its name or not.
UploadFill(w) ==
    LET p == Path(w)
    IN  /\ step[w] = "fill"
        /\ IF work[w].linked
           THEN files' = [files EXCEPT ![p] = "whole"] /\ torn' = torn \ {p}
           ELSE UNCHANGED <<files, torn>>
        /\ Then(w, "insert")
        /\ UNCHANGED <<attachments, tag, posts, work, victims, strays>>

\* insert_attachment.
UploadInsert(w) ==
    LET a == work[w].id
    IN  /\ step[w] = "insert"
        /\ attachments' = attachments \cup {a}
        /\ step' = [step EXCEPT ![w] = "idle"]
        /\ work' = [v \in Workers |->
               IF v = w THEN Idle
               ELSE IF step[v] = "unlink" /\ Path(v) = ContentOf[a]
                    THEN [work[v] EXCEPT !.rivals = @ \cup {a}]
                    ELSE work[v]]
        /\ UNCHANGED <<tag, files, posts, victims, torn, strays>>

\* A message carries an attachment uploaded before, its own or, as a sticker,
\* one of another message.
Post(m, a) ==
    /\ posts[m] = "unsent"
    /\ tag[a] # "none"
    /\ \A w \in Workers : ~(work[w].order = "upload" /\ work[w].id = a)
    /\ posts' = [posts EXCEPT ![m] = a]
    /\ UNCHANGED <<attachments, tag, files, step, work, victims, torn, strays>>

-----------------------------------------------------------------------------
(* Removals *)

\* The HTTP request to delete an attachment.
Remove(w, a) ==
    /\ tag[a] # "none"
    /\ Ask(w, "remove", a, "none")
    /\ Then(w, "get")
    /\ UNCHANGED <<attachments, tag, files, posts, victims, torn, strays>>

\* handle_delete_message has read the message and may delete it.
DeletePost(w, m) ==
    /\ posts[m] \in Uploads
    /\ Ask(w, "delete", posts[m], m)
    /\ Then(w, "tombstone")
    /\ UNCHANGED <<attachments, tag, files, posts, victims, torn, strays>>

\* delete_message, unless the row has gone.
Tombstone(w) ==
    LET m == work[w].post
    IN  /\ step[w] = "tombstone"
        /\ IF posts[m] = "cleared" THEN Answer(w) /\ UNCHANGED posts
           ELSE /\ posts' = [posts EXCEPT ![m] = "deleted"]
                /\ Then(w, "get")
                /\ UNCHANGED work
        /\ UNCHANGED <<attachments, tag, files, victims, torn, strays>>

\* get_attachment.
GetRecord(w) ==
    /\ step[w] = "get"
    /\ IF work[w].id \in attachments THEN Then(w, "row") /\ UNCHANGED work ELSE Answer(w)
    /\ UNCHANGED <<attachments, tag, files, posts, victims, torn, strays>>

\* delete_attachment.
DeleteRow(w) ==
    /\ step[w] = "row"
    /\ attachments' = attachments \ {work[w].id}
    /\ Then(w, "count")
    /\ UNCHANGED <<tag, files, posts, work, victims, torn, strays>>

\* Mutant of CountRows: the file goes with the second to last record.
CountRowsOff(w) ==
    /\ step[w] = "count"
    /\ IF Cardinality({b \in attachments : ContentOf[b] = Path(w)}) > 1 THEN Answer(w)
       ELSE Then(w, "unlink") /\ UNCHANGED work
    /\ UNCHANGED <<attachments, tag, files, posts, victims, torn, strays>>

\* count_attachments_by_path.
CountRows(w) ==
    /\ step[w] = "count"
    /\ IF \E b \in attachments : ContentOf[b] = Path(w) THEN Answer(w)
       ELSE Then(w, "unlink") /\ UNCHANGED work
    /\ UNCHANGED <<attachments, tag, files, posts, victims, torn, strays>>

\* remove_file, whatever was uploaded since the count.
Unlink(w) ==
    LET p == Path(w)
        overtaken == {v \in Workers : step[v] \in {"fill", "insert"} /\ Path(v) = p}
    IN  /\ step[w] = "unlink"
        /\ files' = [files EXCEPT ![p] = "none"]
        /\ victims' = victims \cup work[w].rivals \cup {work[v].id : v \in overtaken}
        /\ torn' = torn \ {p}
        /\ strays' = strays \ {p}
        /\ step' = [step EXCEPT ![w] = "idle"]
        /\ work' = [v \in Workers |->
               IF v = w THEN Idle
               ELSE IF v \in overtaken THEN [work[v] EXCEPT !.linked = FALSE] ELSE work[v]]
        /\ UNCHANGED <<attachments, tag, posts>>

-----------------------------------------------------------------------------
(* Bulk deletions *)

\* The messages to report are selected ...
ClearSelect(w) ==
    /\ step[w] = "idle"
    /\ work' = [work EXCEPT ![w] = [Idle EXCEPT !.order = "clear",
                                                !.left = {m \in Posts : posts[m] \in Uploads}]]
    /\ Then(w, "wipe")
    /\ UNCHANGED <<attachments, tag, files, posts, victims, torn, strays>>

\* ... and what the table holds by now is deleted.
ClearWipe(w) ==
    /\ step[w] = "wipe"
    /\ posts' = [m \in Posts |-> IF posts[m] \in Uploads THEN "cleared" ELSE posts[m]]
    /\ Then(w, "list")
    /\ UNCHANGED <<attachments, tag, files, work, victims, torn, strays>>

\* list_attachments_for_message does not select content_hash, which its rows
\* are then read for: with a row to return, the handler panics.
ClearList(w) ==
    /\ step[w] = "list"
    /\ \E m \in work[w].left :
           IF (\E a \in attachments : tag[a] = m) \/ work[w].left = {m}
           THEN Answer(w)
           ELSE work' = [work EXCEPT ![w].left = @ \ {m}] /\ UNCHANGED step
    /\ UNCHANGED <<attachments, tag, files, posts, victims, torn, strays>>

ClearNone(w) ==
    /\ step[w] = "list" /\ work[w].left = {}
    /\ Answer(w)
    /\ UNCHANGED <<attachments, tag, files, posts, victims, torn, strays>>

-----------------------------------------------------------------------------
(* Failures *)

\* The path of a request that is cut short, when a file may stay without record.
Abandoned(w) == IF step[w] \in {"fill", "insert", "count", "unlink"} THEN {Path(w)} ELSE {}

Unfilled(w) == IF step[w] = "fill" /\ work[w].linked THEN {Path(w)} ELSE {}

\* A statement or a file operation fails: the request is answered, but for a row
\* that a message's deletion leaves and for a message whose records are not read.
StoreFails(w) ==
    /\ step[w] \notin {"idle", "exists"}
    /\ \/ /\ step[w] = "row" /\ work[w].order = "delete"
          /\ Then(w, "count") /\ UNCHANGED work
       \/ /\ step[w] = "list"
          /\ \E m \in work[w].left : work' = [work EXCEPT ![w].left = @ \ {m}]
          /\ UNCHANGED step
       \/ /\ step[w] # "list" /\ ~(step[w] = "row" /\ work[w].order = "delete")
          /\ Answer(w)
    /\ IF step'[w] = "idle"
       THEN strays' = strays \cup Abandoned(w) /\ torn' = torn \cup Unfilled(w)
       ELSE UNCHANGED <<strays, torn>>
    /\ UNCHANGED <<attachments, tag, files, posts, victims>>

StoreRestart ==
    /\ \E w \in Workers : step[w] # "idle"
    /\ step' = [w \in Workers |-> "idle"]
    /\ work' = [w \in Workers |-> Idle]
    /\ strays' = strays \cup UNION {Abandoned(w) : w \in Workers}
    /\ torn' = torn \cup UNION {Unfilled(w) : w \in Workers}
    /\ UNCHANGED <<attachments, tag, files, posts, victims>>

-----------------------------------------------------------------------------
(* Specification *)

StoreInit ==
    /\ attachments = {}
    /\ tag = [a \in Uploads |-> "none"]
    /\ files = [p \in Contents |-> "none"]
    /\ posts = [m \in Posts |-> "unsent"]
    /\ step = [w \in Workers |-> "idle"]
    /\ work = [w \in Workers |-> Idle]
    /\ victims = {} /\ torn = {} /\ strays = {}

StoreRequest(w) ==
    \/ \E a \in Uploads : Remove(w, a) \/ \E t \in Tags : Upload(w, a, t)
    \/ \E m \in Posts : DeletePost(w, m)
    \/ ClearSelect(w)

StoreStep(w) ==
    \/ UploadExists(w) \/ UploadOpen(w) \/ UploadFill(w) \/ UploadInsert(w)
    \/ Tombstone(w) \/ GetRecord(w) \/ DeleteRow(w) \/ CountRows(w) \/ Unlink(w)
    \/ ClearWipe(w) \/ ClearList(w) \/ ClearNone(w)

StoreNext ==
    \/ \E w \in Workers : StoreRequest(w) \/ StoreStep(w) \/ StoreFails(w)
    \/ \E m \in Posts, a \in Uploads : Post(m, a)
    \/ StoreRestart

StoreSpec == StoreInit /\ [][StoreNext]_storeVars

-----------------------------------------------------------------------------
(* Properties *)

Steps == {"idle", "exists", "open", "fill", "insert", "tombstone", "get", "row", "count",
          "unlink", "wipe", "list"}

\* Types.
StoreTypeOK ==
    /\ attachments \subseteq {a \in Uploads : tag[a] # "none"}
    /\ tag \in [Uploads -> Tags \cup {"none"}]
    /\ files \in [Contents -> States]
    /\ posts \in [Posts -> Uploads \cup Fates]
    /\ step \in [Workers -> Steps]
    /\ work \in [Workers -> [order : {"none", "upload", "remove", "delete", "clear"},
                             id : Uploads \cup {"none"}, post : Posts \cup {"none"},
                             left : SUBSET Posts, linked : BOOLEAN, rivals : SUBSET Uploads]]
    /\ victims \subseteq Uploads
    /\ torn \subseteq Contents /\ strays \subseteq Contents

AtStep(p, at) == {w \in Workers : step[w] \in at /\ Path(w) = p}

\* The file of a recorded attachment is whole, unless a removal took it between
\* this upload's look at the file and its record, or a writer has not finished
\* it and never may.
NoneMissing ==
    \A a \in attachments :
        LET p == ContentOf[a]
        IN  \/ files[p] = "whole"
            \/ a \in victims
            \/ files[p] = "torn" /\ (p \in torn \/ \E w \in AtStep(p, {"fill"}) : work[w].linked)

\* A file has a record, unless a request that will record or remove it is on its
\* way, or was cut short.
NoStray ==
    \A p \in Contents :
        files[p] # "none" =>
            \/ \E a \in attachments : ContentOf[a] = p
            \/ AtStep(p, {"fill", "insert", "count", "unlink"}) # {}
            \/ p \in strays

\* Records and files agree however uploads, removals, deletions of messages and
\* bulk deletions interleave: what is missing or left over was lost to an
\* overlap or a failure of a named kind, and to nothing else (attachments.rs,
\* "shared files go with their last reference").
StoreConsistent == StoreTypeOK /\ NoneMissing /\ NoStray
=============================================================================
