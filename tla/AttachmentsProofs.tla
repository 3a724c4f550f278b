-------------------------- MODULE AttachmentsProofs --------------------------
(***************************************************************************)
(* Records and files agree, for any number of requests, attachments and    *)
(* contents.  The inductive invariant adds what is known of the requests   *)
(* on their way: an upload whose file has gone is a victim of the removal  *)
(* already, and a removal that is about to remove a file has every record  *)
(* made since its count among its rivals.                                  *)
(***************************************************************************)
EXTENDS Attachments, TLAPS

Work == [order : {"none", "upload", "remove", "delete", "clear"},
         id : Uploads \cup {"none"}, post : Posts \cup {"none"},
         left : SUBSET Posts, linked : BOOLEAN, rivals : SUBSET Uploads]

\* Steps that answer for a file ...
Busy == {"fill", "insert", "count", "unlink"}

\* ... and those that work on an attachment.
Holding == Busy \cup {"exists", "open", "tombstone", "get", "row"}

\* A request has an attachment; an upload's id has been given out.
IdsKnown ==
    \A w \in Workers :
        /\ step[w] \in Holding => work[w].id \in Uploads
        /\ step[w] \in {"exists", "open", "fill", "insert"} => tag[work[w].id] # "none"

\* A torn file is being written, or was cut short.
TornKnown ==
    \A p \in Contents :
        files[p] = "torn" =>
            p \in torn \/ \E w \in Workers : step[w] = "fill" /\ Path(w) = p /\ work[w].linked

Kept(a) == files[ContentOf[a]] # "none" \/ a \in victims

\* An upload that writes a file without a name is a victim.
FillKept == \A w \in Workers : step[w] = "fill" => work[w].linked \/ work[w].id \in victims

InsertKept == \A w \in Workers : step[w] = "insert" => Kept(work[w].id)

RecordsKept == \A a \in attachments : Kept(a)

\* Records made since the count are rivals of the removal.
RivalsKnown ==
    \A w \in Workers :
        step[w] = "unlink" =>
            \A a \in attachments : ContentOf[a] = Path(w) => a \in work[w].rivals

FilesInv == TornKnown /\ FillKept /\ InsertKept /\ RecordsKept /\ RivalsKnown /\ NoStray

StoreInv == StoreTypeOK /\ IdsKnown /\ FilesInv

-----------------------------------------------------------------------------
\* The invariant says more than StoreConsistent.
LEMMA InvConsistent == StoreInv => StoreConsistent
<1> SUFFICES ASSUME StoreInv PROVE NoneMissing
  BY DEF StoreInv, FilesInv, StoreConsistent
<1> SUFFICES ASSUME NEW a \in attachments, files[ContentOf[a]] # "whole", a \notin victims
             PROVE  /\ files[ContentOf[a]] = "torn"
                    /\ \/ ContentOf[a] \in torn
                       \/ \E w \in AtStep(ContentOf[a], {"fill"}) : work[w].linked
  BY DEF NoneMissing
<1>1. ContentOf[a] \in Contents
  BY AttachmentsAssumption DEF StoreInv, StoreTypeOK
<1>2. files[ContentOf[a]] = "torn"
  BY <1>1 DEF StoreInv, StoreTypeOK, States, FilesInv, RecordsKept, Kept
<1> QED
  BY <1>1, <1>2 DEF StoreInv, FilesInv, TornKnown, AtStep

\* A worker that answers for no file, before or after its step, changes nothing.
LEMMA Quiet ==
    ASSUME FilesInv, NEW w \in Workers,
           UNCHANGED <<attachments, files, victims, torn, strays>>,
           \A v \in Workers : v # w => step'[v] = step[v] /\ work'[v] = work[v],
           step[w] \notin Busy, step'[w] \notin Busy
    PROVE  FilesInv'
<1> USE DEF FilesInv, Busy, Path
<1>1. TornKnown'
  BY DEF TornKnown
<1>2. FillKept' /\ InsertKept' /\ RecordsKept' /\ RivalsKnown'
  BY DEF FillKept, InsertKept, RecordsKept, RivalsKnown, Kept
<1>3. NoStray'
  BY DEF NoStray, AtStep
<1> QED
  BY <1>1, <1>2, <1>3

\* The other workers go on as before.
Others(w) == \A v \in Workers : v # w => step'[v] = step[v] /\ work'[v] = work[v]

\* A request that begins.
LEMMA AskShape ==
    ASSUME StoreTypeOK, NEW w \in Workers, NEW order \in {"upload", "remove", "delete"},
           NEW a \in Uploads, NEW m \in Posts \cup {"none"}, NEW next \in Steps,
           Ask(w, order, a, m), Then(w, next)
    PROVE  /\ step' \in [Workers -> Steps] /\ work' \in [Workers -> Work]
           /\ step[w] = "idle" /\ step'[w] = next /\ work'[w].id = a
           /\ Others(w)
<1> DEFINE new == [Idle EXCEPT !.order = order, !.id = a, !.post = m]
<1>1. new \in Work /\ new.id = a
  BY DEF Work, Idle
<1>2. work' = [work EXCEPT ![w] = new] /\ step[w] = "idle" /\ step' = [step EXCEPT ![w] = next]
  BY DEF Ask, Then
<1> HIDE DEF new
<1> QED
  BY <1>1, <1>2 DEF StoreTypeOK, Work, Others

\* A request that ends.
LEMMA AnswerShape ==
    ASSUME StoreTypeOK, NEW w \in Workers, Answer(w)
    PROVE  /\ step' \in [Workers -> Steps] /\ work' \in [Workers -> Work]
           /\ step'[w] = "idle"
           /\ Others(w)
<1>1. Idle \in Work
  BY DEF Work, Idle
<1>2. work' = [work EXCEPT ![w] = Idle] /\ step' = [step EXCEPT ![w] = "idle"]
  BY DEF Answer, Then
<1> QED
  BY <1>1, <1>2 DEF StoreTypeOK, Work, Steps, Others

\* A request that goes on.
LEMMA ThenShape ==
    ASSUME StoreTypeOK, NEW w \in Workers, NEW next \in Steps, Then(w, next), UNCHANGED work
    PROVE  /\ step' \in [Workers -> Steps] /\ work' \in [Workers -> Work]
           /\ step'[w] = next
           /\ Others(w)
  BY DEF Then, StoreTypeOK, Work, Others

\* What a bulk deletion has left to look at.
LEMMA LeftShape ==
    ASSUME StoreTypeOK, NEW w \in Workers, NEW left \in SUBSET Posts
    PROVE  [work EXCEPT ![w].left = left] \in [Workers -> Work]
<1>1. work \in [Workers -> Work]
  BY DEF StoreTypeOK, Work
<1>2. [work[w] EXCEPT !.left = left] \in Work
  BY <1>1 DEF Work
<1> QED
  BY <1>1, <1>2

\* Whether the file being written has a name.
LEMMA LinkedShape ==
    ASSUME StoreTypeOK, NEW w \in Workers, NEW b \in BOOLEAN
    PROVE  /\ [work[w] EXCEPT !.linked = b] \in Work
           /\ [work[w] EXCEPT !.linked = b].linked = b
           /\ [work[w] EXCEPT !.linked = b].id = work[w].id
           /\ [work[w] EXCEPT !.linked = b].rivals = work[w].rivals
  BY DEF StoreTypeOK, Work

\* Another rival.
LEMMA RivalShape ==
    ASSUME StoreTypeOK, NEW w \in Workers, NEW a \in Uploads
    PROVE  /\ [work[w] EXCEPT !.rivals = work[w].rivals \cup {a}] \in Work
           /\ [work[w] EXCEPT !.rivals = work[w].rivals \cup {a}].rivals = work[w].rivals \cup {a}
           /\ [work[w] EXCEPT !.rivals = work[w].rivals \cup {a}].id = work[w].id
           /\ [work[w] EXCEPT !.rivals = work[w].rivals \cup {a}].linked = work[w].linked
  BY DEF StoreTypeOK, Work

-----------------------------------------------------------------------------
(* Requests and the steps that touch no file *)

\* Requests begin.
LEMMA RequestStep ==
    ASSUME StoreInv, NEW w \in Workers, StoreRequest(w) PROVE StoreInv'
<1> USE AttachmentsAssumption DEF StoreInv
<1>1. ASSUME NEW a \in Uploads, Remove(w, a) PROVE StoreInv'
  <2>1. /\ step' \in [Workers -> Steps] /\ work' \in [Workers -> Work]
        /\ step[w] = "idle" /\ step'[w] = "get" /\ work'[w].id = a /\ Others(w)
    BY <1>1, AskShape DEF Remove, Steps
  <2>2. StoreTypeOK'
    BY <1>1, <2>1 DEF Remove, StoreTypeOK, Work
  <2>3. IdsKnown'
    BY <1>1, <2>1 DEF Remove, IdsKnown, Others
  <2>4. FilesInv'
    BY <1>1, <2>1, Quiet DEF Remove, Others, Busy
  <2> QED
    BY <2>2, <2>3, <2>4
<1>2. ASSUME NEW a \in Uploads, NEW t \in Tags, Upload(w, a, t) PROVE StoreInv'
  <2>1. /\ step' \in [Workers -> Steps] /\ work' \in [Workers -> Work]
        /\ step[w] = "idle" /\ step'[w] = "exists" /\ work'[w].id = a /\ Others(w)
    BY <1>2, AskShape DEF Upload, Steps
  <2>2. tag' \in [Uploads -> Tags \cup {"none"}] /\ tag'[a] # "none"
    BY <1>2 DEF Upload, StoreTypeOK
  <2>3. \A b \in Uploads : tag[b] # "none" => tag'[b] # "none"
    BY <1>2 DEF Upload, StoreTypeOK
  <2>4. StoreTypeOK'
    BY <1>2, <2>1, <2>2, <2>3 DEF Upload, StoreTypeOK, Work
  <2>5. IdsKnown'
    BY <1>2, <2>1, <2>2, <2>3 DEF Upload, IdsKnown, Others, Holding, Busy
  <2>6. FilesInv'
    BY <1>2, <2>1, Quiet DEF Upload, Others, Busy
  <2> QED
    BY <2>4, <2>5, <2>6
<1>3. ASSUME NEW m \in Posts, DeletePost(w, m) PROVE StoreInv'
  <2>1. /\ step' \in [Workers -> Steps] /\ work' \in [Workers -> Work]
        /\ step[w] = "idle" /\ step'[w] = "tombstone" /\ work'[w].id = posts[m] /\ Others(w)
    BY <1>3, AskShape DEF DeletePost, Steps
  <2>2. StoreTypeOK'
    BY <1>3, <2>1 DEF DeletePost, StoreTypeOK, Work
  <2>3. IdsKnown'
    BY <1>3, <2>1 DEF DeletePost, IdsKnown, Others
  <2>4. FilesInv'
    BY <1>3, <2>1, Quiet DEF DeletePost, Others, Busy
  <2> QED
    BY <2>2, <2>3, <2>4
<1>4. CASE ClearSelect(w)
  <2> DEFINE new == [Idle EXCEPT !.order = "clear", !.left = {m \in Posts : posts[m] \in Uploads}]
  <2>1. new \in Work
    BY DEF Idle, Work
  <2>2. work' = [work EXCEPT ![w] = new] /\ step' = [step EXCEPT ![w] = "wipe"] /\ step[w] = "idle"
    BY <1>4 DEF ClearSelect, Then
  <2> HIDE DEF new
  <2>3. /\ step' \in [Workers -> Steps] /\ work' \in [Workers -> Work]
        /\ step'[w] = "wipe" /\ Others(w)
    BY <2>1, <2>2 DEF StoreTypeOK, Work, Steps, Others
  <2>4. StoreTypeOK'
    BY <1>4, <2>3 DEF ClearSelect, StoreTypeOK, Work
  <2>5. IdsKnown'
    BY <1>4, <2>3 DEF ClearSelect, IdsKnown, Others, Holding, Busy
  <2>6. FilesInv'
    BY <1>4, <2>2, <2>3, Quiet DEF ClearSelect, Others, Busy
  <2> QED
    BY <2>4, <2>5, <2>6
<1> QED
  BY <1>1, <1>2, <1>3, <1>4 DEF StoreRequest

\* A message is sent.
LEMMA PostStep ==
    ASSUME StoreInv, NEW m \in Posts, NEW a \in Uploads, Post(m, a) PROVE StoreInv'
<1>1. StoreTypeOK'
  BY DEF StoreInv, StoreTypeOK, Post
<1>2. IdsKnown'
  BY DEF StoreInv, IdsKnown, Post
<1>3. FilesInv'
  BY DEF StoreInv, Post, FilesInv, TornKnown, FillKept, InsertKept, RecordsKept, RivalsKnown,
         NoStray, Kept, AtStep, Path
<1> QED
  BY <1>1, <1>2, <1>3 DEF StoreInv

\* The database is asked or changed, but for the attachments.
LEMMA TableStep ==
    ASSUME StoreInv, NEW w \in Workers,
           Tombstone(w) \/ GetRecord(w) \/ ClearWipe(w) \/ ClearList(w) \/ ClearNone(w)
    PROVE  StoreInv'
<1> USE AttachmentsAssumption DEF StoreInv
<1>0. /\ UNCHANGED <<attachments, tag, files, victims, torn, strays>>
      /\ step[w] \in {"tombstone", "get", "wipe", "list"}
      /\ \/ Answer(w)
         \/ step[w] = "tombstone" /\ Then(w, "get") /\ UNCHANGED work
         \/ step[w] = "get" /\ Then(w, "row") /\ UNCHANGED work
         \/ Then(w, "list") /\ UNCHANGED work
         \/ /\ step[w] = "list" /\ UNCHANGED step
            /\ \E left \in SUBSET Posts : work' = [work EXCEPT ![w].left = left]
  <2>1. CASE Tombstone(w)
    <3>1. UNCHANGED <<attachments, tag, files, victims, torn, strays>> /\ step[w] = "tombstone"
      BY <2>1 DEF Tombstone
    <3>2. Answer(w) \/ (UNCHANGED work /\ Then(w, "get"))
      <4>1. CASE posts[work[w].post] = "cleared"
        BY <2>1, <4>1 DEF Tombstone, Answer, Then
      <4>2. CASE posts[work[w].post] # "cleared"
        BY <2>1, <4>2 DEF Tombstone, Answer, Then
      <4> QED
        BY <4>1, <4>2
    <3> QED
      BY <3>1, <3>2 DEF Answer, Then
  <2>2. CASE GetRecord(w)
    BY <2>2 DEF GetRecord
  <2>3. CASE ClearWipe(w) \/ ClearNone(w)
    BY <2>3 DEF ClearWipe, ClearNone
  <2>4. CASE ClearList(w)
    <3>0. PICK m \in work[w].left :
                IF (\E a \in attachments : tag[a] = m) \/ work[w].left = {m} THEN Answer(w)
                ELSE work' = [work EXCEPT ![w].left = @ \ {m}] /\ UNCHANGED step
      BY <2>4 DEF ClearList
    <3>1. \/ Answer(w)
          \/ work' = [work EXCEPT ![w].left = work[w].left \ {m}] /\ UNCHANGED step
      BY <3>0 DEF Answer, Then
    <3>2. work[w].left \ {m} \in SUBSET Posts
      BY DEF StoreTypeOK
    <3> QED
      BY <2>4, <3>1, <3>2 DEF ClearList
  <2> QED
    BY <2>1, <2>2, <2>3, <2>4
<1>1. posts' \in [Posts -> Uploads \cup Fates]
  BY DEF Tombstone, GetRecord, ClearWipe, ClearList, ClearNone, StoreTypeOK, Fates
<1>2. /\ step' \in [Workers -> Steps] /\ work' \in [Workers -> Work] /\ Others(w)
      /\ step'[w] \in {"idle", "get", "row", "list"}
      /\ step'[w] \in {"get", "row"} => work'[w] = work[w] /\ step[w] \in {"tombstone", "get"}
  <2>1. CASE Answer(w)
    BY <2>1, AnswerShape
  <2>2. CASE \/ step[w] = "tombstone" /\ Then(w, "get") /\ UNCHANGED work
             \/ step[w] = "get" /\ Then(w, "row") /\ UNCHANGED work
             \/ Then(w, "list") /\ UNCHANGED work
    BY <2>2, ThenShape DEF Steps
  <2>3. ASSUME step[w] = "list", UNCHANGED step,
               NEW left \in SUBSET Posts, work' = [work EXCEPT ![w].left = left]
        PROVE  <1>2!:
    BY <2>3, LeftShape DEF Others, StoreTypeOK, Steps
  <2> QED
    BY <1>0, <2>1, <2>2, <2>3
<1>3. StoreTypeOK'
  BY <1>0, <1>1, <1>2 DEF StoreTypeOK, Work
<1>4. IdsKnown'
  BY <1>0, <1>2 DEF IdsKnown, Others, Holding, Busy
<1>5. FilesInv'
  BY <1>0, <1>2, Quiet DEF Others, Busy
<1> QED
  BY <1>3, <1>4, <1>5

-----------------------------------------------------------------------------
(* Files *)

\* An upload looks for its file; one that is there it answers for from now on.
LEMMA ExistsStep ==
    ASSUME StoreInv, NEW w \in Workers, UploadExists(w) PROVE StoreInv'
<1> USE AttachmentsAssumption DEF StoreInv
<1> DEFINE p == Path(w)
<1>1. work[w].id \in Uploads /\ p \in Contents
  BY DEF UploadExists, IdsKnown, Holding, Path
<1>2. /\ step' \in [Workers -> Steps] /\ work' = work /\ Others(w)
      /\ step[w] = "exists" /\ step'[w] = IF files[p] = "none" THEN "open" ELSE "insert"
  BY ThenShape DEF UploadExists, Steps
<1>3. StoreTypeOK'
  BY <1>2 DEF UploadExists, StoreTypeOK
<1>4. IdsKnown'
  BY <1>2 DEF UploadExists, IdsKnown, Others, Holding, Busy
<1>5. CASE files[p] = "none"
  BY <1>2, <1>3, <1>4, <1>5, Quiet DEF UploadExists, Others, Busy
<1>6. CASE files[p] # "none"
  <2>1. UNCHANGED <<attachments, files, victims, torn, strays>> /\ step'[w] = "insert"
    BY <1>2, <1>6 DEF UploadExists
  <2>2. (TornKnown /\ FillKept /\ RecordsKept /\ RivalsKnown)'
    BY <1>2, <2>1 DEF Others, FilesInv, TornKnown, FillKept, RecordsKept, RivalsKnown, Kept, Path
  <2>3. InsertKept'
    BY <1>2, <1>6, <2>1 DEF Others, FilesInv, InsertKept, Kept, Path
  <2>4. NoStray'
    BY <1>2, <2>1 DEF Others, FilesInv, NoStray, AtStep, Path
  <2> QED
    BY <1>3, <1>4, <2>2, <2>3, <2>4 DEF FilesInv
<1> QED
  BY <1>5, <1>6

\* fs::write makes an empty file of its name ...
LEMMA OpenStep ==
    ASSUME StoreInv, NEW w \in Workers, UploadOpen(w) PROVE StoreInv'
<1> USE AttachmentsAssumption DEF StoreInv
<1>1. work[w].id \in Uploads /\ Path(w) \in Contents /\ step[w] = "open"
  BY DEF UploadOpen, IdsKnown, Holding, Path
<1>2. PICK p \in Contents : p = Path(w)
  BY <1>1
<1>3. /\ files' = [files EXCEPT ![p] = "torn"]
      /\ step' = [step EXCEPT ![w] = "fill"]
      /\ work' = [work EXCEPT ![w].linked = TRUE]
      /\ UNCHANGED <<attachments, tag, posts, victims, torn, strays>>
  BY <1>2 DEF UploadOpen, Then
<1>4. /\ step' \in [Workers -> Steps] /\ work' \in [Workers -> Work]
      /\ Others(w) /\ step'[w] = "fill"
      /\ work'[w].id = work[w].id /\ work'[w].linked
  BY <1>3, LinkedShape DEF StoreTypeOK, Work, Steps, Others
<1>5. files' \in [Contents -> States] /\ files'[p] = "torn"
      /\ \A q \in Contents : q # p => files'[q] = files[q]
  BY <1>3 DEF StoreTypeOK, States
<1>6. StoreTypeOK'
  BY <1>3, <1>4, <1>5 DEF StoreTypeOK, Work
<1>7. IdsKnown'
  BY <1>1, <1>3, <1>4 DEF IdsKnown, Others, Holding, Busy
<1>8. \A v \in Workers : Path(v)' = Path(v)
  BY <1>4 DEF Others, Path
<1>9. TornKnown'
  BY <1>1, <1>2, <1>3, <1>4, <1>5, <1>8 DEF Others, FilesInv, TornKnown
<1>10. (FillKept /\ InsertKept)'
  <2>1. \A a \in Uploads : Kept(a) => Kept(a)'
    BY <1>3, <1>5 DEF Kept
  <2> QED
    BY <1>3, <1>4, <1>7, <2>1 DEF Others, FilesInv, FillKept, InsertKept, IdsKnown, Holding, Busy
<1>11. RecordsKept'
  <2>1. \A a \in attachments : a \in Uploads /\ ContentOf[a] \in Contents
    BY DEF StoreTypeOK
  <2> QED
    BY <1>3, <1>5, <2>1 DEF FilesInv, RecordsKept, Kept
<1>12. (RivalsKnown /\ NoStray)'
  BY <1>1, <1>2, <1>3, <1>4, <1>5, <1>8 DEF Others, FilesInv, RivalsKnown, NoStray, AtStep
<1> QED
  BY <1>6, <1>7, <1>9, <1>10, <1>11, <1>12 DEF FilesInv

\* ... and fills it.
LEMMA FillStep ==
    ASSUME StoreInv, NEW w \in Workers, UploadFill(w) PROVE StoreInv'
<1> USE AttachmentsAssumption DEF StoreInv
<1>1. work[w].id \in Uploads /\ Path(w) \in Contents /\ step[w] = "fill"
  BY DEF UploadFill, IdsKnown, Holding, Busy, Path
<1>2. PICK p \in Contents : p = Path(w)
  BY <1>1
<1>3. /\ \/ /\ work[w].linked
            /\ files' = [files EXCEPT ![p] = "whole"] /\ torn' = torn \ {p}
         \/ ~work[w].linked /\ UNCHANGED <<files, torn>>
      /\ UNCHANGED <<attachments, tag, posts, work, victims, strays>>
  BY <1>2 DEF UploadFill
<1>4. /\ step' \in [Workers -> Steps] /\ Others(w) /\ step'[w] = "insert"
  BY ThenShape DEF UploadFill, Steps
<1>5. /\ files' \in [Contents -> States]
      /\ work[w].linked => files'[p] = "whole"
      /\ \A q \in Contents : q # p => files'[q] = files[q] /\ (q \in torn' <=> q \in torn)
      /\ ~work[w].linked => files' = files /\ torn' = torn
  BY <1>3 DEF StoreTypeOK, States
<1>6. StoreTypeOK'
  BY <1>3, <1>4, <1>5 DEF StoreTypeOK, Work
<1>7. IdsKnown'
  BY <1>1, <1>3, <1>4 DEF IdsKnown, Others, Holding, Busy
<1>8. TornKnown'
  <2> SUFFICES ASSUME NEW q \in Contents, files'[q] = "torn"
               PROVE  \/ q \in torn'
                      \/ \E v \in Workers : step'[v] = "fill" /\ Path(v)' = q /\ work'[v].linked
    BY DEF TornKnown
  <2>1. files[q] = "torn" /\ (q = p => ~work[w].linked) /\ (q \in torn => q \in torn')
    BY <1>5
  <2>2. CASE q \notin torn
    <3>1. PICK v \in Workers : step[v] = "fill" /\ Path(v) = q /\ work[v].linked
      BY <2>1, <2>2 DEF FilesInv, TornKnown
    <3>2. v # w
      BY <1>2, <2>1, <3>1
    <3> QED
      BY <1>3, <1>4, <3>1, <3>2 DEF Others, Path
  <2> QED
    BY <2>1, <2>2
<1>9. \A a \in Uploads : Kept(a) => Kept(a)'
  BY <1>3, <1>5 DEF Kept
<1>10. InsertKept'
  <2>1. Kept(work[w].id)'
    BY <1>1, <1>2, <1>3, <1>5 DEF FilesInv, FillKept, Kept, Path
  <2> QED
    BY <1>3, <1>4, <1>7, <1>9, <2>1 DEF Others, FilesInv, InsertKept, IdsKnown, Holding, Busy
<1>11. FillKept'
  BY <1>3, <1>4 DEF Others, FilesInv, FillKept
<1>12. RecordsKept'
  BY <1>3, <1>9 DEF FilesInv, RecordsKept, StoreTypeOK
<1>13. RivalsKnown'
  BY <1>3, <1>4 DEF Others, FilesInv, RivalsKnown, Path
<1>14. NoStray'
  BY <1>1, <1>2, <1>3, <1>4, <1>5 DEF Others, FilesInv, NoStray, AtStep, Path
<1> QED
  BY <1>6, <1>7, <1>8, <1>10, <1>11, <1>12, <1>13, <1>14 DEF FilesInv

\* insert_attachment: the record is a rival of every removal that has counted.
LEMMA InsertStep ==
    ASSUME StoreInv, NEW w \in Workers, UploadInsert(w) PROVE StoreInv'
<1> USE AttachmentsAssumption DEF StoreInv
<1>0. work[w].id \in Uploads /\ step[w] = "insert" /\ tag[work[w].id] # "none"
  BY DEF UploadInsert, IdsKnown, Holding, Busy
<1>1. PICK a \in Uploads : a = work[w].id
  BY <1>0
<1>2. /\ attachments' = attachments \cup {a}
      /\ step' = [step EXCEPT ![w] = "idle"]
      /\ UNCHANGED <<tag, files, posts, victims, torn, strays>>
  BY <1>1 DEF UploadInsert
<1>3. work' = [v \in Workers |->
                  IF v = w THEN Idle
                  ELSE IF step[v] = "unlink" /\ Path(v) = ContentOf[a]
                       THEN [work[v] EXCEPT !.rivals = work[v].rivals \cup {a}]
                       ELSE work[v]]
  BY <1>1 DEF UploadInsert
<1>4. step'[w] = "idle" /\ step' \in [Workers -> Steps]
      /\ \A v \in Workers : v # w => step'[v] = step[v]
  BY <1>2 DEF StoreTypeOK, Steps
<1>5. work' \in [Workers -> Work]
  <2>1. Idle \in Work
    BY DEF Idle, Work
  <2>2. \A v \in Workers : work[v] \in Work
    BY DEF StoreTypeOK, Work
  <2>3. \A v \in Workers : [work[v] EXCEPT !.rivals = work[v].rivals \cup {a}] \in Work
    BY RivalShape
  <2> QED
    BY <1>3, <2>1, <2>2, <2>3
<1>6. \A v \in Workers :
          v # w => /\ work'[v].id = work[v].id /\ work'[v].linked = work[v].linked
                   /\ work[v].rivals \subseteq work'[v].rivals
                   /\ step[v] = "unlink" /\ Path(v) = ContentOf[a] => a \in work'[v].rivals
  <2> SUFFICES ASSUME NEW v \in Workers, v # w
               PROVE  /\ work'[v].id = work[v].id /\ work'[v].linked = work[v].linked
                      /\ work[v].rivals \subseteq work'[v].rivals
                      /\ step[v] = "unlink" /\ Path(v) = ContentOf[a] => a \in work'[v].rivals
    OBVIOUS
  <2>1. CASE step[v] = "unlink" /\ Path(v) = ContentOf[a]
    <3>1. work'[v] = [work[v] EXCEPT !.rivals = work[v].rivals \cup {a}]
      BY <1>3, <2>1
    <3> QED
      BY <3>1, RivalShape
  <2>2. CASE ~(step[v] = "unlink" /\ Path(v) = ContentOf[a])
    BY <1>3, <2>2
  <2> QED
    BY <2>1, <2>2
<1>7. StoreTypeOK'
  BY <1>0, <1>1, <1>2, <1>4, <1>5 DEF StoreTypeOK, Work
<1>8. IdsKnown'
  BY <1>2, <1>4, <1>6 DEF IdsKnown, Holding, Busy
<1>9. \A v \in Workers : v # w => Path(v)' = Path(v)
  BY <1>6 DEF Path
<1>10. \A b \in Uploads : Kept(b)' <=> Kept(b)
  BY <1>2 DEF Kept
<1>11. (TornKnown /\ FillKept)'
  BY <1>0, <1>2, <1>4, <1>6, <1>9 DEF FilesInv, TornKnown, FillKept
<1>12. (InsertKept /\ RecordsKept)'
  <2>1. Kept(a)
    BY <1>0, <1>1 DEF FilesInv, InsertKept
  <2> QED
    BY <1>1, <1>2, <1>4, <1>6, <1>8, <1>10, <2>1 DEF FilesInv, InsertKept, RecordsKept, StoreTypeOK,
       IdsKnown, Holding, Busy
<1>13. RivalsKnown'
  BY <1>2, <1>4, <1>6, <1>9 DEF FilesInv, RivalsKnown
<1>14. NoStray'
  <2> SUFFICES ASSUME NEW p \in Contents, files'[p] # "none", p \notin strays'
               PROVE  \/ \E b \in attachments' : ContentOf[b] = p
                      \/ AtStep(p, {"fill", "insert", "count", "unlink"})' # {}
    BY DEF NoStray
  <2>1. \/ \E b \in attachments : ContentOf[b] = p
        \/ \E v \in Workers : step[v] \in {"fill", "insert", "count", "unlink"} /\ Path(v) = p
    BY <1>2 DEF FilesInv, NoStray, AtStep
  <2>2. CASE \E b \in attachments : ContentOf[b] = p
    BY <1>2, <2>2
  <2>3. ASSUME NEW v \in Workers, step[v] \in {"fill", "insert", "count", "unlink"}, Path(v) = p
        PROVE  \/ \E b \in attachments' : ContentOf[b] = p
               \/ AtStep(p, {"fill", "insert", "count", "unlink"})' # {}
    <3>1. CASE v = w
      BY <1>1, <1>2, <2>3, <3>1 DEF Path
    <3>2. CASE v # w
      BY <1>4, <1>9, <2>3, <3>2 DEF AtStep
    <3> QED
      BY <3>1, <3>2
  <2> QED
    BY <2>1, <2>2, <2>3
<1> QED
  BY <1>7, <1>8, <1>11, <1>12, <1>13, <1>14 DEF FilesInv

\* delete_attachment: the removal answers for the file from now on.
LEMMA DeleteStep ==
    ASSUME StoreInv, NEW w \in Workers, step[w] = "row", Then(w, "count"),
           attachments' \subseteq attachments, attachments \subseteq attachments' \cup {work[w].id},
           UNCHANGED <<tag, files, posts, work, victims, torn, strays>>
    PROVE  StoreInv'
<1> USE AttachmentsAssumption DEF StoreInv
<1>1. /\ step' \in [Workers -> Steps] /\ step'[w] = "count" /\ Others(w)
  BY ThenShape DEF Steps
<1>2. StoreTypeOK'
  BY <1>1 DEF StoreTypeOK
<1>3. IdsKnown'
  BY <1>1 DEF IdsKnown, Others, Holding, Busy
<1>4. (TornKnown /\ FillKept /\ InsertKept /\ RecordsKept)'
  BY <1>1 DEF Others, FilesInv, TornKnown, FillKept, InsertKept, RecordsKept, Kept, Path
<1>5. RivalsKnown'
  BY <1>1 DEF Others, FilesInv, RivalsKnown, Path
<1>6. NoStray'
  BY <1>1 DEF Others, FilesInv, NoStray, AtStep, Path
<1> QED
  BY <1>2, <1>3, <1>4, <1>5, <1>6 DEF FilesInv

\* count_attachments_by_path: a removal goes on when there is no record.
LEMMA CountStep ==
    ASSUME StoreInv, NEW w \in Workers, CountRows(w) PROVE StoreInv'
<1> USE AttachmentsAssumption DEF StoreInv
<1>1. step[w] = "count" /\ UNCHANGED <<attachments, tag, files, posts, victims, torn, strays>>
  BY DEF CountRows
<1>2. CASE \E b \in attachments : ContentOf[b] = Path(w)
  <2>1. Answer(w)
    BY <1>2 DEF CountRows, Answer, Then
  <2>2. /\ step' \in [Workers -> Steps] /\ work' \in [Workers -> Work]
        /\ step'[w] = "idle" /\ Others(w)
    BY <2>1, AnswerShape
  <2>3. StoreTypeOK'
    BY <1>1, <2>2 DEF StoreTypeOK, Work
  <2>4. IdsKnown'
    BY <1>1, <2>2 DEF IdsKnown, Others, Holding, Busy
  <2>5. (TornKnown /\ FillKept /\ InsertKept /\ RecordsKept /\ RivalsKnown)'
    BY <1>1, <2>2 DEF Others, FilesInv, TornKnown, FillKept, InsertKept, RecordsKept, RivalsKnown,
                      Kept, Path
  <2>6. NoStray'
    BY <1>1, <1>2, <2>2 DEF Others, FilesInv, NoStray, AtStep, Path
  <2> QED
    BY <2>3, <2>4, <2>5, <2>6 DEF FilesInv
<1>3. CASE ~\E b \in attachments : ContentOf[b] = Path(w)
  <2>1. Then(w, "unlink") /\ UNCHANGED work
    BY <1>3 DEF CountRows, Answer, Then
  <2>2. /\ step' \in [Workers -> Steps] /\ step'[w] = "unlink" /\ Others(w)
    BY <2>1, ThenShape DEF Steps
  <2>3. StoreTypeOK'
    BY <1>1, <2>1, <2>2 DEF StoreTypeOK
  <2>4. IdsKnown'
    BY <1>1, <2>1, <2>2 DEF IdsKnown, Others, Holding, Busy
  <2>5. (TornKnown /\ FillKept /\ InsertKept /\ RecordsKept)'
    BY <1>1, <2>1, <2>2 DEF Others, FilesInv, TornKnown, FillKept, InsertKept, RecordsKept, Kept, Path
  <2>6. RivalsKnown'
    BY <1>1, <1>3, <2>1, <2>2 DEF Others, FilesInv, RivalsKnown, Path
  <2>7. NoStray'
    BY <1>1, <2>1, <2>2 DEF Others, FilesInv, NoStray, AtStep, Path
  <2> QED
    BY <2>3, <2>4, <2>5, <2>6, <2>7 DEF FilesInv
<1> QED
  BY <1>2, <1>3

\* remove_file: the uploads that it overtook are its victims.
LEMMA UnlinkStep ==
    ASSUME StoreInv, NEW w \in Workers, Unlink(w) PROVE StoreInv'
<1> USE AttachmentsAssumption DEF StoreInv
<1>0. work[w].id \in Uploads /\ step[w] = "unlink" /\ Path(w) \in Contents
  BY DEF Unlink, IdsKnown, Holding, Busy, Path
<1>1. PICK p \in Contents : p = Path(w)
  BY <1>0
<1> DEFINE overtaken == {v \in Workers : step[v] \in {"fill", "insert"} /\ Path(v) = p}
<1>2. /\ files' = [files EXCEPT ![p] = "none"]
      /\ victims' = victims \cup work[w].rivals \cup {work[v].id : v \in overtaken}
      /\ torn' = torn \ {p} /\ strays' = strays \ {p}
      /\ step' = [step EXCEPT ![w] = "idle"]
      /\ work' = [v \in Workers |->
                     IF v = w THEN Idle
                     ELSE IF v \in overtaken THEN [work[v] EXCEPT !.linked = FALSE] ELSE work[v]]
      /\ UNCHANGED <<attachments, tag, posts>>
  BY <1>1 DEF Unlink
<1>3. /\ \A v \in Workers : v \in overtaken <=> step[v] \in {"fill", "insert"} /\ Path(v) = p
      /\ overtaken \subseteq Workers
  OBVIOUS
<1> HIDE DEF overtaken
<1>4. step'[w] = "idle" /\ step' \in [Workers -> Steps]
      /\ \A v \in Workers : v # w => step'[v] = step[v]
  BY <1>2 DEF StoreTypeOK, Steps
<1>5. work' \in [Workers -> Work]
  <2>1. Idle \in Work
    BY DEF Idle, Work
  <2>2. \A v \in Workers : work[v] \in Work
    BY DEF StoreTypeOK, Work
  <2>3. \A v \in Workers : [work[v] EXCEPT !.linked = FALSE] \in Work
    BY LinkedShape
  <2> QED
    BY <1>2, <2>1, <2>2, <2>3
<1>6. \A v \in Workers :
          v # w => /\ work'[v].id = work[v].id /\ work'[v].rivals = work[v].rivals
                   /\ v \notin overtaken => work'[v].linked = work[v].linked
  <2> SUFFICES ASSUME NEW v \in Workers, v # w
               PROVE  /\ work'[v].id = work[v].id /\ work'[v].rivals = work[v].rivals
                      /\ v \notin overtaken => work'[v].linked = work[v].linked
    OBVIOUS
  <2>1. CASE v \in overtaken
    <3>1. work'[v] = [work[v] EXCEPT !.linked = FALSE]
      BY <1>2, <2>1
    <3> QED
      BY <2>1, <3>1, LinkedShape
  <2>2. CASE v \notin overtaken
    BY <1>2, <2>2
  <2> QED
    BY <2>1, <2>2
<1>7. \A v \in overtaken : work[v].id \in Uploads /\ v # w /\ work[v].id \in victims'
  BY <1>0, <1>2, <1>3 DEF IdsKnown, Holding, Busy
<1>8. victims \subseteq victims' /\ victims' \subseteq Uploads
  BY <1>0, <1>2, <1>7 DEF StoreTypeOK
<1>9. /\ files' \in [Contents -> States] /\ files'[p] = "none"
      /\ \A q \in Contents : q # p => files'[q] = files[q]
  BY <1>2 DEF StoreTypeOK, States
<1>10. StoreTypeOK'
  BY <1>2, <1>4, <1>5, <1>8, <1>9 DEF StoreTypeOK, Work
<1>11. IdsKnown'
  BY <1>2, <1>4, <1>6 DEF IdsKnown, Holding, Busy
<1>12. \A v \in Workers : v # w => Path(v)' = Path(v)
  BY <1>6 DEF Path
<1>13. \A a \in Uploads : ContentOf[a] # p /\ Kept(a) => Kept(a)'
  BY <1>8, <1>9 DEF Kept
<1>14. TornKnown'
  <2> SUFFICES ASSUME NEW q \in Contents, files'[q] = "torn", q \notin torn'
               PROVE  \E v \in Workers : step'[v] = "fill" /\ Path(v)' = q /\ work'[v].linked
    BY DEF TornKnown
  <2>1. q # p /\ files[q] = "torn" /\ q \notin torn
    BY <1>2, <1>9
  <2>2. PICK v \in Workers : step[v] = "fill" /\ Path(v) = q /\ work[v].linked
    BY <2>1 DEF FilesInv, TornKnown
  <2>3. v # w /\ v \notin overtaken
    BY <1>0, <1>3, <2>1, <2>2
  <2> QED
    BY <1>4, <1>6, <1>12, <2>2, <2>3
<1>15. FillKept'
  <2> SUFFICES ASSUME NEW v \in Workers, step'[v] = "fill"
               PROVE  work'[v].linked \/ work'[v].id \in victims'
    BY DEF FillKept
  <2>1. v # w /\ step[v] = "fill" /\ work'[v].id = work[v].id
    BY <1>4, <1>6
  <2>2. v \notin overtaken => work'[v].linked = work[v].linked
    BY <1>6, <2>1
  <2> QED
    BY <1>7, <1>8, <2>1, <2>2 DEF FilesInv, FillKept
<1>16. InsertKept'
  <2> SUFFICES ASSUME NEW v \in Workers, step'[v] = "insert" PROVE Kept(work[v].id)'
    BY DEF InsertKept
  <2>1. v # w /\ step[v] = "insert" /\ work'[v].id = work[v].id /\ work[v].id \in Uploads
    BY <1>4, <1>6 DEF IdsKnown, Holding, Busy
  <2>2. CASE v \in overtaken
    BY <1>7, <2>1, <2>2 DEF Kept
  <2>3. CASE v \notin overtaken
    BY <1>3, <1>13, <2>1, <2>3 DEF FilesInv, InsertKept, Path
  <2> QED
    BY <2>2, <2>3
<1>17. RecordsKept'
  <2> SUFFICES ASSUME NEW a \in attachments PROVE Kept(a)'
    BY <1>2 DEF RecordsKept
  <2>1. a \in Uploads /\ Kept(a)
    BY DEF StoreTypeOK, FilesInv, RecordsKept
  <2>2. ContentOf[a] = p => a \in victims'
    BY <1>0, <1>1, <1>2 DEF FilesInv, RivalsKnown
  <2> QED
    BY <1>13, <2>1, <2>2 DEF Kept
<1>18. RivalsKnown'
  BY <1>2, <1>4, <1>6, <1>12 DEF FilesInv, RivalsKnown
<1>19. NoStray'
  <2> SUFFICES ASSUME NEW q \in Contents, files'[q] # "none", q \notin strays'
               PROVE  \/ \E b \in attachments' : ContentOf[b] = q
                      \/ \E v \in Workers : /\ step'[v] \in {"fill", "insert", "count", "unlink"}
                                            /\ Path(v)' = q
    BY DEF NoStray, AtStep
  <2>1. q # p /\ files[q] # "none" /\ q \notin strays
    BY <1>2, <1>9
  <2>2. \/ \E b \in attachments : ContentOf[b] = q
        \/ \E v \in Workers : step[v] \in {"fill", "insert", "count", "unlink"} /\ Path(v) = q
    BY <2>1 DEF FilesInv, NoStray, AtStep
  <2> QED
    BY <1>1, <1>2, <1>4, <1>12, <2>1, <2>2
<1> QED
  BY <1>10, <1>11, <1>14, <1>15, <1>16, <1>17, <1>18, <1>19 DEF FilesInv

-----------------------------------------------------------------------------
(* Failures *)

\* Workers stop: the files they answered for are named.
LEMMA StopStep ==
    ASSUME StoreInv, NEW ws \in SUBSET Workers,
           step' \in [Workers -> Steps], work' \in [Workers -> Work],
           \A v \in ws : step'[v] = "idle",
           \A v \in Workers \ ws : step'[v] = step[v] /\ work'[v] = work[v],
           strays' = strays \cup UNION {Abandoned(v) : v \in ws},
           torn' = torn \cup UNION {Unfilled(v) : v \in ws},
           UNCHANGED <<attachments, tag, files, posts, victims>>
    PROVE  StoreInv'
<1> USE AttachmentsAssumption DEF StoreInv
<1>1. /\ \A v \in ws : step[v] \in Busy => Path(v) \in strays'
      /\ \A v \in ws : step[v] = "fill" /\ work[v].linked => Path(v) \in torn'
      /\ strays \subseteq strays' /\ torn \subseteq torn'
  BY DEF Abandoned, Unfilled, Busy
<1>2. strays' \subseteq Contents /\ torn' \subseteq Contents
  <2>1. \A v \in ws : step[v] \in Busy => Path(v) \in Contents
    BY DEF IdsKnown, Holding, Path
  <2> QED
    BY <2>1 DEF Abandoned, Unfilled, Busy, StoreTypeOK
<1>3. StoreTypeOK'
  BY <1>2 DEF StoreTypeOK, Work
<1>4. IdsKnown'
  BY DEF IdsKnown, Holding, Busy
<1>5. \A v \in Workers : v \notin ws => Path(v)' = Path(v)
  BY DEF Path
<1>6. TornKnown'
  <2> SUFFICES ASSUME NEW q \in Contents, files'[q] = "torn", q \notin torn'
               PROVE  \E v \in Workers : step'[v] = "fill" /\ Path(v)' = q /\ work'[v].linked
    BY DEF TornKnown
  <2>1. PICK v \in Workers : step[v] = "fill" /\ Path(v) = q /\ work[v].linked
    BY <1>1 DEF FilesInv, TornKnown
  <2> QED
    BY <1>1, <1>5, <2>1
<1>7. (FillKept /\ InsertKept /\ RecordsKept)'
  BY DEF FilesInv, FillKept, InsertKept, RecordsKept, Kept
<1>8. RivalsKnown'
  BY <1>5 DEF FilesInv, RivalsKnown
<1>9. NoStray'
  <2> SUFFICES ASSUME NEW q \in Contents, files'[q] # "none", q \notin strays'
               PROVE  \/ \E b \in attachments' : ContentOf[b] = q
                      \/ \E v \in Workers : step'[v] \in Busy /\ Path(v)' = q
    BY DEF NoStray, AtStep, Busy
  <2>1. \/ \E b \in attachments : ContentOf[b] = q
        \/ \E v \in Workers : step[v] \in Busy /\ Path(v) = q
    BY <1>1 DEF FilesInv, NoStray, AtStep, Busy
  <2> QED
    BY <1>1, <1>5, <2>1
<1> QED
  BY <1>3, <1>4, <1>6, <1>7, <1>8, <1>9 DEF FilesInv

\* A statement or a file operation fails.
LEMMA FailsStep ==
    ASSUME StoreInv, NEW w \in Workers, StoreFails(w) PROVE StoreInv'
<1> USE AttachmentsAssumption DEF StoreInv
<1>1. /\ UNCHANGED <<attachments, tag, files, posts, victims>>
      /\ step'[w] = "idle" => /\ strays' = strays \cup Abandoned(w)
                              /\ torn' = torn \cup Unfilled(w)
      /\ step'[w] # "idle" => UNCHANGED <<strays, torn>>
  BY DEF StoreFails
<1>2. CASE step[w] = "row" /\ Then(w, "count") /\ UNCHANGED work
  <2>1. step'[w] = "count"
    BY <1>2 DEF Then, StoreTypeOK
  <2> QED
    BY <1>1, <1>2, <2>1, DeleteStep
<1>3. CASE /\ step[w] = "list" /\ UNCHANGED step
           /\ \E m \in work[w].left : work' = [work EXCEPT ![w].left = work[w].left \ {m}]
  <2>1. PICK left \in SUBSET Posts : work' = [work EXCEPT ![w].left = left]
    <3>1. \A m : work[w].left \ {m} \in SUBSET Posts
      BY DEF StoreTypeOK
    <3> QED
      BY <1>3, <3>1
  <2>2. work' \in [Workers -> Work] /\ Others(w)
    BY <1>3, <2>1, LeftShape DEF Others, StoreTypeOK
  <2>3. UNCHANGED <<strays, torn>>
    BY <1>1, <1>3
  <2>4. StoreTypeOK'
    BY <1>1, <1>3, <2>2, <2>3 DEF StoreTypeOK, Work
  <2>5. IdsKnown'
    BY <1>1, <1>3, <2>2 DEF IdsKnown, Others, Holding, Busy
  <2>6. FilesInv'
    BY <1>1, <1>3, <2>2, <2>3, Quiet DEF Others, Busy
  <2> QED
    BY <2>4, <2>5, <2>6
<1>4. CASE Answer(w)
  <2>1. /\ step' \in [Workers -> Steps] /\ work' \in [Workers -> Work]
        /\ step'[w] = "idle" /\ Others(w)
    BY <1>4, AnswerShape
  <2>2. /\ strays' = strays \cup UNION {Abandoned(v) : v \in {w}}
        /\ torn' = torn \cup UNION {Unfilled(v) : v \in {w}}
    BY <1>1, <2>1
  <2>3. {w} \in SUBSET Workers
    OBVIOUS
  <2> QED
    BY <1>1, <2>1, <2>2, <2>3, StopStep DEF Others
<1> QED
  BY <1>2, <1>3, <1>4 DEF StoreFails

\* The server restarts.
LEMMA RestartStep ==
    ASSUME StoreInv, StoreRestart PROVE StoreInv'
<1>1. Idle \in Work /\ "idle" \in Steps
  BY DEF Idle, Work, Steps
<1>2. /\ step' \in [Workers -> Steps] /\ work' \in [Workers -> Work]
      /\ \A v \in Workers : step'[v] = "idle"
  BY <1>1 DEF StoreRestart
<1> QED
  BY <1>2, StopStep DEF StoreRestart

-----------------------------------------------------------------------------
\* The store starts empty.
LEMMA StoreInvInit == StoreInit => StoreInv
<1> SUFFICES ASSUME StoreInit PROVE StoreInv
  OBVIOUS
<1>1. Idle \in Work
  BY DEF Idle, Work
<1>2. StoreTypeOK
  BY <1>1 DEF StoreInit, StoreTypeOK, Work, Steps, States, Fates
<1>3. IdsKnown /\ FilesInv
  BY DEF StoreInit, IdsKnown, Holding, Busy, FilesInv, TornKnown, FillKept, InsertKept, RecordsKept,
         RivalsKnown, NoStray
<1> QED
  BY <1>2, <1>3 DEF StoreInv

\* Every step keeps the invariant.
LEMMA StoreInvStep == StoreInv /\ [StoreNext]_storeVars => StoreInv'
<1> SUFFICES ASSUME StoreInv, [StoreNext]_storeVars PROVE StoreInv'
  OBVIOUS
<1>1. ASSUME NEW w \in Workers, StoreStep(w) PROVE StoreInv'
  <2>1. CASE DeleteRow(w)
    BY <2>1, DeleteStep DEF DeleteRow
  <2> QED
    BY <1>1, <2>1, ExistsStep, OpenStep, FillStep, InsertStep, CountStep, UnlinkStep, TableStep
       DEF StoreStep
<1>2. CASE UNCHANGED storeVars
  BY <1>2 DEF storeVars, StoreInv, StoreTypeOK, IdsKnown, FilesInv, TornKnown, FillKept, InsertKept,
              RecordsKept, RivalsKnown, NoStray, Kept, AtStep, Path
<1> QED
  BY <1>1, <1>2, RequestStep, PostStep, FailsStep, RestartStep DEF StoreNext

\* Records and files agree however uploads and removals interleave and fail
\* (attachments.rs), for any number of requests, attachments and contents.
THEOREM StoreStaysConsistent == StoreSpec => []StoreConsistent
<1>1. StoreSpec => []StoreInv
  BY StoreInvInit, StoreInvStep, PTL DEF StoreSpec
<1> QED
  BY <1>1, InvConsistent, PTL
=============================================================================
