--------------------------- MODULE ServerMetaProofs ---------------------------
(***************************************************************************)
(* Changes of settings stay, for any number of editors and any values: an  *)
(* editor that still has a field to write, and does not change it, holds   *)
(* the value that the field is to keep.                                    *)
(***************************************************************************)
EXTENDS ServerMeta, TLAPS

Values == Changes \cup {Default}

MetaType ==
    /\ meta \in [Fields -> Values] /\ kept \in [Fields -> Values]
    /\ edit \in [Editors -> [fields : SUBSET Fields, page : BOOLEAN, value : Values]]
    /\ draft \in [Editors -> [Fields -> Values]]
    /\ next \in [Editors -> 0..Len(FieldOrder)]

\* What is written back unchanged is what is there.
DraftsFresh ==
    \A f \in Fields : \A e \in Stale(f) :
        f \notin edit[e].fields /\ kept[f] # Default => draft[e][f] = kept[f]

MetaInv == MetaType /\ ChangesKept /\ DraftsFresh

-----------------------------------------------------------------------------
(* The order of the statements *)

LEMMA OrderIsFixed ==
    /\ Len(FieldOrder) \in Nat /\ Len(FieldOrder) >= 1
    /\ \A i \in 1..Len(FieldOrder) : FieldOrder[i] \in Fields
    /\ \A i, j \in 1..Len(FieldOrder) : FieldOrder[i] = FieldOrder[j] => i = j
  <1>1. Len(FieldOrder) = 4 /\ DOMAIN FieldOrder = 1..4
    BY DEF FieldOrder
  <1>2. \A i \in 1..4 : i = 1 \/ i = 2 \/ i = 3 \/ i = 4
    OBVIOUS
  <1>3. /\ FieldOrder[1] = "settings" /\ FieldOrder[2] = "target"
        /\ FieldOrder[3] = "signature" /\ FieldOrder[4] = "limits"
    BY DEF FieldOrder
  <1>4. \A i, j \in 1..4 : FieldOrder[i] = FieldOrder[j] => i = j
    BY <1>2, <1>3
  <1>5. \A i \in 1..4 : FieldOrder[i] \in Fields
    BY <1>1 DEF Fields
  <1> QED
    BY <1>1, <1>4, <1>5

\* The requests and the values that they give.
LEMMA EditsTyped ==
    /\ \A r \in Edits : r.fields \in SUBSET Fields /\ r.page \in BOOLEAN
    /\ NoEdit \in [fields : SUBSET Fields, page : BOOLEAN, value : Values]
    /\ Defaults \in [Fields -> Values]
  <1>1. {"settings", "target", "signature", "limits"} \subseteq Fields
    <2>1. DOMAIN FieldOrder = 1..4
      BY DEF FieldOrder
    <2>2. /\ FieldOrder[1] = "settings" /\ FieldOrder[2] = "target"
          /\ FieldOrder[3] = "signature" /\ FieldOrder[4] = "limits"
      BY DEF FieldOrder
    <2> QED
      BY <2>1, <2>2 DEF Fields
  <1>2. \A r \in Edits : r.fields \in SUBSET Fields /\ r.page \in BOOLEAN
    <2>1. /\ UpdateSettings.fields \in SUBSET Fields /\ UpdateSettings.page \in BOOLEAN
          /\ SettingsBySocket.fields \in SUBSET Fields /\ SettingsBySocket.page \in BOOLEAN
      BY <1>1 DEF UpdateSettings, SettingsBySocket
    <2>2. /\ AnnounceMigration.fields \in SUBSET Fields /\ AnnounceMigration.page \in BOOLEAN
          /\ SetLimits.fields \in SUBSET Fields /\ SetLimits.page \in BOOLEAN
      BY <1>1 DEF AnnounceMigration, SetLimits
    <2> QED
      BY <2>1, <2>2 DEF Edits
  <1>3. NoEdit \in [fields : SUBSET Fields, page : BOOLEAN, value : Values]
    BY DEF NoEdit, Values
  <1>4. Defaults \in [Fields -> Values]
    BY DEF Defaults, Values
  <1> QED
    BY <1>2, <1>3, <1>4

LEMMA DraftsTyped ==
    ASSUME MetaType, NEW e \in Editors, NEW m \in [Fields -> Values]
    PROVE  /\ Drafts(e, m) \in [Fields -> Values]
           /\ \A f \in Fields : f \notin edit[e].fields => Drafts(e, m)[f] = m[f]
  BY DEF MetaType, Drafts

\* An editor without a request, or one whose request is finished, is stale for no
\* field.
LEMMA NotStale ==
    ASSUME NEW e \in Editors, next[e] = 0, NEW f \in Fields
    PROVE  e \notin Stale(f)
  BY DEF Stale

-----------------------------------------------------------------------------
(* The statements *)

LEMMA InitMeta == MetaInit => MetaInv
  <1> SUFFICES ASSUME MetaInit PROVE MetaInv
    OBVIOUS
  <1>1. MetaType
    BY EditsTyped, OrderIsFixed DEF MetaInit, MetaType
  <1>2. ChangesKept
    BY DEF MetaInit, ChangesKept, Defaults
  <1>3. DraftsFresh
    BY DEF MetaInit, DraftsFresh, Defaults
  <1> QED
    BY <1>1, <1>2, <1>3 DEF MetaInv

\* Steps that change no setting and leave the drafts of whoever is stale alone.
LEMMA QuietKeepsMeta ==
    ASSUME MetaInv, MetaType', UNCHANGED <<meta, kept>>,
           \A e \in Editors : \/ next'[e] = next[e] /\ draft'[e] = draft[e] /\ edit'[e] = edit[e]
                              \/ next'[e] = 0
                              \/ next[e] = 0 /\ edit'[e] = edit[e]
                                 /\ \A f \in Fields : f \notin edit[e].fields => draft'[e][f] = meta[f]
    PROVE  MetaInv'
  <1>1. ChangesKept'
    BY DEF MetaInv, ChangesKept
  <1>2. DraftsFresh'
    <2> SUFFICES ASSUME NEW f \in Fields, NEW e \in Stale(f)',
                        f \notin edit'[e].fields, kept[f] # Default
                 PROVE  draft'[e][f] = kept[f]
      BY DEF DraftsFresh
    <2>1. e \in Editors /\ next'[e] # 0
      BY DEF Stale, MetaType
    <2>2. CASE next'[e] = next[e] /\ draft'[e] = draft[e] /\ edit'[e] = edit[e]
      <3>1. e \in Stale(f)
        BY <2>1, <2>2 DEF Stale
      <3> QED
        BY <2>2, <3>1 DEF MetaInv, DraftsFresh
    <2>3. CASE /\ edit'[e] = edit[e]
               /\ \A g \in Fields : g \notin edit[e].fields => draft'[e][g] = meta[g]
      BY <2>3 DEF MetaInv, ChangesKept
    <2> QED
      BY <2>1, <2>2, <2>3
  <1> QED
    BY <1>1, <1>2 DEF MetaInv

LEMMA ReadKeepsMeta ==
    ASSUME MetaInv, NEW e \in Editors, ReadMeta(e)
    PROVE  MetaInv'
  <1>1. MetaType
    BY DEF MetaInv
  <1>2. Drafts(e, meta) \in [Fields -> Values]
        /\ \A f \in Fields : f \notin edit[e].fields => Drafts(e, meta)[f] = meta[f]
    BY <1>1, DraftsTyped DEF MetaType
  <1>3. /\ draft' = [draft EXCEPT ![e] = Drafts(e, meta)]
        /\ next' = [next EXCEPT ![e] = 1] /\ next[e] = 0
        /\ UNCHANGED <<meta, edit, kept>>
    BY DEF ReadMeta
  <1>4. 1 \in 0..Len(FieldOrder)
    BY OrderIsFixed
  <1>5. MetaType'
    BY <1>1, <1>2, <1>3, <1>4 DEF MetaType
  <1>6. /\ draft'[e] = Drafts(e, meta)
        /\ \A x \in Editors \ {e} : draft'[x] = draft[x] /\ next'[x] = next[x]
    BY <1>1, <1>3 DEF MetaType
  <1> QED
    BY <1>2, <1>3, <1>5, <1>6, QuietKeepsMeta

\* On the page a failed read goes on from the defaults: from then on nothing is
\* promised until the next change.
LEMMA ReadFailsKeepsMeta ==
    ASSUME MetaInv, NEW e \in Editors, ReadFails(e)
    PROVE  MetaInv'
  <1>1. MetaType
    BY DEF MetaInv
  <1>2. CASE edit[e].page
    <2>1. /\ draft' = [draft EXCEPT ![e] = Drafts(e, Defaults)]
          /\ next' = [next EXCEPT ![e] = 1]
          /\ kept' = Defaults /\ UNCHANGED <<edit, meta>>
      BY <1>2 DEF ReadFails
    <2>2. Drafts(e, Defaults) \in [Fields -> Values] /\ 1 \in 0..Len(FieldOrder)
      BY <1>1, DraftsTyped, EditsTyped, OrderIsFixed
    <2>3. MetaType'
      BY <1>1, <2>1, <2>2, EditsTyped DEF MetaType
    <2>4. \A f \in Fields : kept'[f] = Default
      BY <2>1 DEF Defaults
    <2> QED
      BY <2>3, <2>4 DEF MetaInv, ChangesKept, DraftsFresh
  <1>3. CASE ~edit[e].page
    <2>1. edit' = [edit EXCEPT ![e] = NoEdit] /\ UNCHANGED <<draft, next, kept, meta>> /\ next[e] = 0
      BY <1>3 DEF ReadFails
    <2>2. MetaType'
      BY <1>1, <2>1, EditsTyped DEF MetaType
    <2> QED
      BY <1>1, <2>1, <2>2, QuietKeepsMeta DEF MetaType
  <1> QED
    BY <1>2, <1>3

\* A statement that several editors race for promises nothing; one that is alone
\* writes the change, or back what was kept.
LEMMA WriteKeepsMeta ==
    ASSUME MetaInv, NEW e \in Editors, WriteField(e)
    PROVE  MetaInv'
  <1>0. MetaType
    BY DEF MetaInv
  <1>a. next[e] \in 1..Len(FieldOrder)
    BY <1>0, OrderIsFixed DEF WriteField, MetaType
  <1>1. PICK i \in 1..Len(FieldOrder), f \in Fields : i = next[e] /\ f = FieldOrder[i]
    BY <1>a, OrderIsFixed
  <1>2. /\ meta' = [meta EXCEPT ![f] = draft[e][f]]
        /\ kept' = [kept EXCEPT ![f] =
               IF Stale(f) # {e} THEN Default
               ELSE IF f \in edit[e].fields THEN draft[e][f] ELSE kept[f]]
        /\ \/ i = Len(FieldOrder) /\ Finish(e)
           \/ /\ i # Len(FieldOrder)
              /\ next' = [next EXCEPT ![e] = i + 1]
              /\ draft' = [draft EXCEPT ![e][f] = Default] /\ UNCHANGED edit
    BY <1>1 DEF WriteField
  <1>3. e \in Stale(f)
    BY <1>1, OrderIsFixed DEF Stale
  <1>4. MetaType'
    <2>1. draft[e][f] \in Values /\ Default \in Values
      BY <1>0, <1>1 DEF MetaType, Values
    <2>2. meta' \in [Fields -> Values] /\ kept' \in [Fields -> Values]
      BY <1>0, <1>1, <1>2, <2>1 DEF MetaType
    <2>3. /\ 0 \in 0..Len(FieldOrder)
          /\ i # Len(FieldOrder) => i + 1 \in 0..Len(FieldOrder)
      BY <1>1, OrderIsFixed
    <2>4. next' \in [Editors -> 0..Len(FieldOrder)]
      BY <1>0, <1>2, <2>3 DEF MetaType, Finish
    <2>5. /\ edit' \in [Editors -> [fields : SUBSET Fields, page : BOOLEAN, value : Values]]
          /\ draft' \in [Editors -> [Fields -> Values]]
      <3> DEFINE rest == [draft[e] EXCEPT ![f] = Default]
      <3>1. rest \in [Fields -> Values]
        BY <1>0, <1>1, <2>1 DEF MetaType
      <3>2. \/ UNCHANGED edit /\ draft' = [draft EXCEPT ![e] = rest]
            \/ /\ edit' = [edit EXCEPT ![e] = NoEdit]
               /\ draft' = [draft EXCEPT ![e] = Defaults]
        BY <1>2 DEF Finish
      <3> HIDE DEF rest
      <3> QED
        BY <1>0, <3>1, <3>2, EditsTyped DEF MetaType
    <2> QED
      BY <2>2, <2>4, <2>5 DEF MetaType
  <1>5. \A x \in Editors \ {e} :
            next'[x] = next[x] /\ draft'[x] = draft[x] /\ edit'[x] = edit[x]
    BY <1>0, <1>2 DEF Finish, MetaType
  <1>6. \/ next'[e] = 0
        \/ /\ next'[e] = i + 1 /\ edit'[e] = edit[e]
           /\ \A g \in Fields \ {f} : draft'[e][g] = draft[e][g]
    BY <1>0, <1>1, <1>2 DEF Finish, MetaType
  <1>7. e \notin Stale(f)'
    <2>1. \A j \in (i + 1)..Len(FieldOrder) : FieldOrder[j] # f
      BY <1>1, OrderIsFixed
    <2> QED
      BY <1>6, <2>1 DEF Stale
  <1>8. \A g \in Fields : Stale(g)' \subseteq Stale(g)
    <2> SUFFICES ASSUME NEW g \in Fields, NEW x \in Stale(g)' PROVE x \in Stale(g)
      OBVIOUS
    <2>1. x \in Editors /\ next'[x] > 0
          /\ \E j \in next'[x]..Len(FieldOrder) : FieldOrder[j] = g
      BY DEF Stale
    <2>2. CASE x # e
      BY <1>5, <2>1, <2>2 DEF Stale
    <2>3. CASE x = e
      <3>1. next'[e] = i + 1
        BY <1>6, <2>1, <2>3
      <3>2. PICK j \in (i + 1)..Len(FieldOrder) : FieldOrder[j] = g
        BY <2>1, <2>3, <3>1
      <3>3. j \in i..Len(FieldOrder) /\ i > 0
        BY <1>1, <3>2, OrderIsFixed
      <3> QED
        BY <1>1, <2>3, <3>2, <3>3 DEF Stale
    <2> QED
      BY <2>2, <2>3
  <1>9. \A g \in Fields \ {f} : meta'[g] = meta[g] /\ kept'[g] = kept[g]
    BY <1>0, <1>1, <1>2 DEF MetaType
  <1>10. /\ meta'[f] = draft[e][f]
         /\ kept'[f] = IF Stale(f) # {e} THEN Default
                       ELSE IF f \in edit[e].fields THEN draft[e][f] ELSE kept[f]
    BY <1>0, <1>1, <1>2 DEF MetaType
  <1>11. ChangesKept'
    <2>1. kept'[f] # Default => meta'[f] = kept'[f]
      BY <1>1, <1>3, <1>10 DEF MetaInv, DraftsFresh
    <2> QED
      BY <1>9, <2>1 DEF MetaInv, ChangesKept
  <1>12. DraftsFresh'
    <2> SUFFICES ASSUME NEW g \in Fields, NEW x \in Stale(g)',
                        g \notin edit'[x].fields, kept'[g] # Default
                 PROVE  draft'[x][g] = kept'[g]
      BY DEF DraftsFresh
    <2>0. x \in Stale(g) /\ x \in Editors /\ next'[x] > 0
      BY <1>8 DEF Stale
    <2>1. g # f
      <3>1. CASE Stale(f) # {e}
        BY <1>10, <3>1
      <3>2. CASE Stale(f) = {e}
        <4>1. Stale(f)' = {}
          BY <1>7, <1>8, <3>2
        <4> QED
          BY <4>1
      <3> QED
        BY <3>1, <3>2
    <2>2. edit'[x] = edit[x] /\ draft'[x][g] = draft[x][g]
      BY <1>5, <1>6, <2>0, <2>1
    <2> QED
      BY <1>9, <2>0, <2>1, <2>2 DEF MetaInv, DraftsFresh
  <1> QED
    BY <1>4, <1>11, <1>12 DEF MetaInv

LEMMA StepMeta == MetaInv /\ [MetaNext]_metaVars => MetaInv'
  <1> SUFFICES ASSUME MetaInv, [MetaNext]_metaVars PROVE MetaInv'
    OBVIOUS
  <1>0. MetaType
    BY DEF MetaInv
  <1>1. ASSUME NEW e \in Editors, NEW r \in Edits, NEW v \in Changes, AskEdit(e, r, v)
        PROVE  MetaInv'
    <2>1. /\ edit' = [edit EXCEPT ![e] = [fields |-> r.fields, page |-> r.page, value |-> v]]
          /\ edit[e] = NoEdit /\ UNCHANGED <<meta, draft, next, kept>>
      BY <1>1 DEF AskEdit
    <2>2. r.fields \in SUBSET Fields /\ r.page \in BOOLEAN /\ v \in Values
      BY EditsTyped DEF Values
    <2>3. MetaType'
      BY <1>0, <2>1, <2>2 DEF MetaType
    <2>4. \A f \in Fields : \A x \in Stale(f)' :
              f \notin edit'[x].fields => x \in Stale(f) /\ f \notin edit[x].fields
      BY <1>0, <2>1 DEF Stale, NoEdit, MetaType
    <2> QED
      BY <2>1, <2>3, <2>4 DEF MetaInv, ChangesKept, DraftsFresh
  <1>2. ASSUME NEW e \in Editors, WriteFails(e) PROVE MetaInv'
    <2>1. MetaType'
      BY <1>0, <1>2, EditsTyped, OrderIsFixed DEF WriteFails, Finish, MetaType
    <2> QED
      BY <1>0, <1>2, <2>1, QuietKeepsMeta DEF WriteFails, Finish, MetaType
  <1>3. CASE MetaRestart
    <2>1. MetaType'
      BY <1>0, <1>3, EditsTyped, OrderIsFixed DEF MetaRestart, MetaType
    <2> QED
      BY <1>3, <2>1, QuietKeepsMeta DEF MetaRestart
  <1>4. CASE UNCHANGED metaVars
    BY <1>0, <1>4, QuietKeepsMeta DEF metaVars, MetaType
  <1> QED
    BY <1>1, <1>2, <1>3, <1>4, ReadKeepsMeta, ReadFailsKeepsMeta, WriteKeepsMeta DEF MetaNext

\* A change of a setting is there until the next one: no request that read the
\* settings after it, and no failure on the way, writes an older value back.
THEOREM SettingsStay == MetaSpec => []ChangesKept
  <1>1. MetaInv => ChangesKept
    BY DEF MetaInv
  <1> QED
    BY <1>1, InitMeta, StepMeta, PTL DEF MetaSpec
=============================================================================
