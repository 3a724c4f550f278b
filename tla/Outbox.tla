------------------------------- MODULE Outbox -------------------------------
(***************************************************************************)
(* The text messages a device is sending in one topic: the optimistic      *)
(* entries ServerConnection keeps at the end of `messages`, and the        *)
(* requests ConnectionService has made for them.  An entry is only in      *)
(* memory.  Every attempt carries a message id drawn at random, so that    *)
(* the server's check for duplicates never sees two attempts as one, and   *)
(* _request completes on any answer with its request id: the server        *)
(* answers a refusal under the same id and nobody looks at its error.      *)
(* Entries are told apart by their text where the code does so.            *)
(***************************************************************************)
EXTENDS Naturals, Sequences, FiniteSets

CONSTANTS
    Entries,    \* what the user sends, one member each time
    TextOf,     \* the text of each: two may be equal
    MaxCalls    \* bound: attempts, retries included

VARIABLES
    shown,      \* the optimistic entries of `messages`, each with its place in the order
    calls,      \* the requests made, in order
    menu,       \* the failed entry whose menu is open, if one is
    discarded   \* history: entries that the user took away

outbox == <<shown, calls, menu, discarded>>

SameText(e, f) == TextOf[e] = TextOf[f]

CallsOf(e) == {k \in DOMAIN calls : calls[k].entry = e}

(* The list with the entries of S marked as failed, or as under way again. *)
Marked(S, failed) == (shown \ S) \cup {[r EXCEPT !.failed = failed] : r \in S}

(* _request: the request leaves and a completer waits ten seconds.         *)
Request(e, retry) ==
    /\ Len(calls) < MaxCalls
    /\ calls' = Append(calls, [entry |-> e, retry |-> retry,
                               server |-> "underway", client |-> "waits"])

SendText(e) ==
    /\ CallsOf(e) = {}
    /\ shown' = shown \cup {[entry |-> e, failed |-> FALSE, place |-> Len(calls)]}
    /\ Request(e, FALSE)
    /\ UNCHANGED <<menu, discarded>>

(* MUTANT: a menu that offers to retry what is still being sent.           *)
OpenMenuAlways(r) ==
    /\ menu = {} /\ menu' = {r.entry}
    /\ UNCHANGED <<shown, calls, discarded>>

(* The menu of a failed entry keeps the entry as it was when it opened:    *)
(* what the user chooses may find it changed or gone.                      *)
OpenMenu(r) ==
    /\ menu = {} /\ r.failed
    /\ menu' = {r.entry}
    /\ UNCHANGED <<shown, calls, discarded>>

DismissMenu == menu # {} /\ menu' = {} /\ UNCHANGED <<shown, calls, discarded>>

RetryFailedMessage(e) ==
    /\ e \in menu /\ menu' = {}
    /\ shown' = Marked({r \in shown : r.entry = e}, FALSE)
    /\ Request(e, TRUE)
    /\ UNCHANGED discarded

RemoveFailedMessage(e) ==
    /\ e \in menu /\ menu' = {}
    /\ shown' = {r \in shown : r.entry # e}
    /\ discarded' = discarded \cup {e}
    /\ UNCHANGED calls

(* The server stores the message or refuses it (muted, no permission,      *)
(* rate), at any time: also after the device has stopped waiting, when a   *)
(* refusal is no different from a request that is lost: it stays under way.*)
Handle(k) ==
    /\ calls[k].server = "underway"
    /\ \E verdict \in {"stored", "refused"} :
          /\ verdict = "refused" => calls[k].client = "waits"
          /\ calls' = [calls EXCEPT ![k].server = verdict]
    /\ UNCHANGED <<shown, menu, discarded>>

(* An answer to a request still waited for: every entry of that text goes. *)
Acknowledge(k) ==
    /\ calls[k].client = "waits" /\ calls[k].server # "underway"
    /\ calls' = [calls EXCEPT ![k].client = "acked"]
    /\ shown' = {r \in shown : ~SameText(r.entry, calls[k].entry)}
    /\ UNCHANGED <<menu, discarded>>

(* What a failed attempt marks: a retry its own entry, a first attempt the *)
(* first entry with its text.                                              *)
Blamed(c) ==
    LET same == {r \in shown : SameText(r.entry, c.entry)}
    IN  IF c.retry THEN {r \in shown : r.entry = c.entry}
        ELSE {r \in same : \A q \in same : r.place <= q.place}

(* The timeout, or the error of a closed channel.                          *)
Expire(k) ==
    /\ calls[k].client = "waits"
    /\ calls' = [calls EXCEPT ![k].client = "failed"]
    /\ shown' = Marked(Blamed(calls[k]), TRUE)
    /\ UNCHANGED <<menu, discarded>>

(* _loadLocal replaces the list by the stored rows: at the end of a sync   *)
(* or a page of history, on a switch of topic, and for every broadcast of  *)
(* an edit, a deletion or a reaction.                                      *)
LoadLocal ==
    /\ shown' = {}
    /\ UNCHANGED <<calls, menu, discarded>>

OutboxInit == shown = {} /\ calls = <<>> /\ menu = {} /\ discarded = {}

OutboxNext ==
    \/ \E e \in Entries : SendText(e)
    \/ \E r \in shown : OpenMenu(r)
    \/ \E e \in menu : RetryFailedMessage(e) \/ RemoveFailedMessage(e)
    \/ DismissMenu
    \/ \E k \in DOMAIN calls : Handle(k) \/ Acknowledge(k) \/ Expire(k)
    \/ LoadLocal

OutboxSpec == OutboxInit /\ [][OutboxNext]_outbox

-----------------------------------------------------------------------------

Listed(e, failed) == \E r \in shown : r.entry = e /\ r.failed = failed

GivenUp(e) == \A k \in CallsOf(e) : calls[k].client = "failed"

(* A message whose text no other entry shares.                             *)
Alone(e) == \A f \in Entries : SameText(e, f) => f = e

(* Of a message whose text is its own at most one attempt is open, that is *)
(* not given up; it is marked as failed and offered for a retry only when  *)
(* none is, and listed as being sent only while an answer is waited for.   *)
(* Over timeouts, late answers, reloads of the list and menus that outlive *)
(* them, the device sends it again only after it gave every earlier        *)
(* attempt up (sendText, retryFailedMessage, _request).                    *)
OneAttemptOpen ==
    \A e \in Entries : Alone(e) =>
        /\ Listed(e, TRUE) \/ e \in menu => GivenUp(e)
        /\ Listed(e, FALSE) => \E k \in CallsOf(e) : calls[k].client = "waits"
        /\ \A k, j \in CallsOf(e) :
               calls[k].client # "failed" /\ calls[j].client # "failed" => k = j

(* "On failure the optimistic message stays in the list and is marked      *)
(* failed": one whose every attempt was given up is there for a retry,     *)
(* unless the user discarded it.                                           *)
FailedStays ==
    \A e \in Entries : CallsOf(e) # {} /\ GivenUp(e) => e \in discarded \/ Listed(e, TRUE)
=============================================================================
