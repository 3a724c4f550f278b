------------------------------ MODULE ServerMeta ------------------------------
(***************************************************************************)
(* The settings of a chat server (server/src/storage.rs, table             *)
(* `server_meta`; admin.rs and ws.rs): a row per field.  Every change      *)
(* reads all fields, changes its own and writes all of them back, one      *)
(* statement per field in a fixed order, outside a transaction.  Fields    *)
(* that are changed together and do not depend on each other are one here: *)
(* "settings" are name, description and strategy; "limits" stands for the  *)
(* limits, the switch of mention reads and the AV service, each changed on *)
(* a page of its own.  The icon is left out.                               *)
(***************************************************************************)
EXTENDS Naturals, Sequences

CONSTANTS
    Editors,    \* requests being served at a time
    Changes     \* the values given: versions

\* set_server_meta's order.
FieldOrder == <<"settings", "target", "signature", "limits">>

Fields == {FieldOrder[i] : i \in DOMAIN FieldOrder}

\* What the requests change, and whether they come from the admin page.
UpdateSettings    == [fields |-> {"settings"}, page |-> TRUE]
SettingsBySocket  == [fields |-> {"settings"}, page |-> FALSE]
AnnounceMigration == [fields |-> {"target", "signature"}, page |-> TRUE]
SetLimits         == [fields |-> {"limits"}, page |-> TRUE]

Edits == {UpdateSettings, SettingsBySocket, AnnounceMigration, SetLimits}

VARIABLES
    meta,       \* the table
    edit,       \* per editor the request: its fields, value and interface
    draft,      \* per editor the ServerMeta it writes
    next,       \* per editor: 0 before it has read; then the field to write
    kept        \* history: per field the last change nothing stale can undo

metaVars == <<meta, edit, draft, next, kept>>

-----------------------------------------------------------------------------

Default == "default"
Defaults == [f \in Fields |-> Default]
NoEdit == [fields |-> {}, page |-> FALSE, value |-> Default]

\* Editors that will write a field from what they read.
Stale(f) == {e \in Editors : next[e] > 0 /\ \E i \in next[e]..Len(FieldOrder) : FieldOrder[i] = f}

AskEdit(e, r, v) ==
    /\ edit[e] = NoEdit
    /\ edit' = [edit EXCEPT ![e] = [fields |-> r.fields, page |-> r.page, value |-> v]]
    /\ UNCHANGED <<meta, draft, next, kept>>

Drafts(e, m) == [f \in Fields |-> IF f \in edit[e].fields THEN edit[e].value ELSE m[f]]

\* Mutant of ReadMeta: a field that get_server_meta does not know.
ReadMetaForgets(e) ==
    /\ edit[e] # NoEdit /\ next[e] = 0
    /\ draft' = [draft EXCEPT ![e] = Drafts(e, [meta EXCEPT !["limits"] = Default])]
    /\ next' = [next EXCEPT ![e] = 1]
    /\ UNCHANGED <<meta, edit, kept>>

\* get_server_meta.
ReadMeta(e) ==
    /\ edit[e] # NoEdit /\ next[e] = 0
    /\ draft' = [draft EXCEPT ![e] = Drafts(e, meta)]
    /\ next' = [next EXCEPT ![e] = 1]
    /\ UNCHANGED <<meta, edit, kept>>

\* An error of get_server_meta: the admin page goes on from the defaults.
ReadFails(e) ==
    /\ edit[e] # NoEdit /\ next[e] = 0
    /\ IF edit[e].page
       THEN /\ draft' = [draft EXCEPT ![e] = Drafts(e, Defaults)]
            /\ next' = [next EXCEPT ![e] = 1]
            /\ kept' = Defaults
            /\ UNCHANGED edit
       ELSE /\ edit' = [edit EXCEPT ![e] = NoEdit]
            /\ UNCHANGED <<draft, next, kept>>
    /\ UNCHANGED meta

Finish(e) ==
    /\ edit' = [edit EXCEPT ![e] = NoEdit]
    /\ draft' = [draft EXCEPT ![e] = Defaults]
    /\ next' = [next EXCEPT ![e] = 0]

\* One statement of set_server_meta.
WriteField(e) ==
    LET f == FieldOrder[next[e]]
    IN  /\ next[e] > 0
        /\ meta' = [meta EXCEPT ![f] = draft[e][f]]
        /\ kept' = [kept EXCEPT ![f] =
               IF Stale(f) # {e} THEN Default
               ELSE IF f \in edit[e].fields THEN draft[e][f] ELSE @]
        /\ IF next[e] = Len(FieldOrder) THEN Finish(e)
           ELSE /\ next' = [next EXCEPT ![e] = @ + 1]
                /\ draft' = [draft EXCEPT ![e][f] = Default]   \* written
                /\ UNCHANGED edit

\* A statement fails: the rest is not written.
WriteFails(e) ==
    /\ next[e] > 0
    /\ Finish(e)
    /\ UNCHANGED <<meta, kept>>

\* The server stops and is started again without --name and --description: it
\* reads the settings and writes the same values back.
MetaRestart ==
    /\ \E e \in Editors : edit[e] # NoEdit
    /\ edit' = [e \in Editors |-> NoEdit]
    /\ draft' = [e \in Editors |-> Defaults]
    /\ next' = [e \in Editors |-> 0]
    /\ UNCHANGED <<meta, kept>>

MetaInit ==
    /\ meta = Defaults
    /\ edit = [e \in Editors |-> NoEdit]
    /\ draft = [e \in Editors |-> Defaults]
    /\ next = [e \in Editors |-> 0]
    /\ kept = Defaults

MetaNext ==
    \/ \E e \in Editors :
        \/ \E r \in Edits, v \in Changes : AskEdit(e, r, v)
        \/ ReadMeta(e) \/ ReadFails(e) \/ WriteField(e) \/ WriteFails(e)
    \/ MetaRestart

MetaSpec == MetaInit /\ [][MetaNext]_metaVars

-----------------------------------------------------------------------------
(* Properties *)

\* A change of a setting stays until the next change of it: no other request,
\* on the page or by WebSocket, and no failure undoes it, unless that request
\* had read the settings before, or could not read them at all.
ChangesKept == \A f \in Fields : kept[f] # Default => meta[f] = kept[f]
=============================================================================
