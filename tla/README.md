# LonIsle: formal models, model checking and proofs

LonIsle is a self-hosted chat system: a Rust server (`server/`, SQLite behind `sqlx`, WebSocket with
protobuf, an HTTP admin API), a Rust library shared by all parts (`core/`), a push relay (`push/`) and
a Flutter client (`client/lib/`).  This directory models the parts whose correctness depends on the order
in which things happen: requests of several connections that interleave statement by statement on the
database, broadcasts that overtake responses, retries, failures and restarts.

    tlc -workers 2 -config MC_MessageLog.cfg MC_MessageLog.tla     # a run, see "Runs"
    tlapm MessageLogProofs.tla                                     # a module of proofs

`PROJECT.json` lists the runs, the source lines each definition translates, the mutants that each
property detects, the hazards of the code and the findings.

## Inventory

| component (source) | state | operations | hard behaviour | correct when |
|---|---|---|---|---|
| message log (`storage.rs`, `ws.rs`, `admin.rs`) | `messages`, AUTOINCREMENT seq | send, edit, delete, bulk deletions | several statements per request, retries, crash between commit and broadcast | one row per message, nothing lost, every row above all earlier seqs |
| sync and history (`ws.rs`, `storage.rs`) | none | page since a seq, page before a seq, latest seq | page and latest seq are two statements | what a client needs is in some page |
| broadcast (`ws.rs`) | tokio broadcast channel of 1024 events, one receiver per connection | subscribe (before Hello), send, forward between requests | lagging receiver loses the oldest | a connected client misses nothing that is kept for it |
| membership (`ws.rs`, `admin.rs`, `storage.rs`) | `members`, `invite_tokens`, `join_requests`, owner claim hash | join (claim code, invite, approval, open), decide, role, mute, ban, kick, leave | check-then-act on tables shared by all connections and the admin page | an invite admits one, a code makes one owner, decisions and standings are not overwritten |
| roles (`ws.rs` `require_*`) | `roles`, `members.role` | edit a role, assign | checks precede the action by an await | a right that is gone is not used much longer |
| topics (`ws.rs`, `admin.rs`) | `topics` | create, update, order, delete | sends in flight to a deleted topic | as above |
| devices (`ws.rs`, `core/device.rs`) | `devices`, `revocations`, the proofs each client keeps | Hello with certificate chain, register, revoke, learn a proof | sessions outlive a revocation; proofs travel with clients from server to server | no session of a revoked device starts any more |
| pre-keys (`ws.rs`, `storage.rs`) | `pre_keys` | upload, fetch | no transaction | a one-time key is given out once |
| presence (`ws.rs`) | connections per user, in memory | Hello, close | a client reconnects before its old socket is given up | online exactly while connected |
| attachments, stickers (`attachments.rs`, `admin.rs`) | records, files by content hash, sticker packs | upload, download, delete, with a message, in bulk | count references, then remove; files are not written atomically | a record's file exists |
| reactions, mention reads | small tables | toggle, mark | a reaction is broadcast as an event with seq 0 | idempotent; clients lose nothing by it |
| settings (`admin.rs`, `ws.rs`, `storage.rs`) | `server_meta`, a row per field | change a page, announce a migration | read, change, write everything back | a change stays until the next |
| bots, admin login, backup, LiveKit, start-up | configuration rows | edit, export, restore | | |
| client sync (`server_connection.dart`, `local_store.dart`) | local rows, a cursor per topic, current topic | handshake, `_sync`, `loadMoreHistory`, `switchTopic`, live broadcasts | every await lets a broadcast, a topic switch or another sync in; disconnects, restarts | the device converges to the log |
| client outbox (`server_connection.dart`, `connection_service.dart`) | optimistic messages, pending requests | send, retry, remove | timeout racing the answer | sent once, shown once |
| client connection (`connection_service.dart`) | socket, backoff, heartbeat | open, lose, reconnect | overlapping sockets | one live socket |
| ratchet, X3DH (`core/ratchet.rs`, `x3dh.rs`) | keys, counters, skipped keys | encrypt, decrypt | loss and reordering | whatever arrives in bounds is read |
| push relay (`push/`) | device tokens, whitelist, cooldowns, blacklist, mutes, directory; buckets and counters in memory | push, apply, review, health monitor | limits, reviews and a monitor that goes by lists it read earlier | only admitted servers push, within limits |
| UI, media, bindings, web pages | views | | I/O | |

How they interact.  A client talks to a server over one WebSocket: requests with a `request_id`, answered
in order, one at a time per connection (`handle_socket`), and broadcasts pushed in between.  All
connections and the admin API share one SQLite pool; each `.await` on it is a point where another request
may run.  A write is announced after its commit by the handler that made it.  The client keeps a copy of
the log in a database of its own and reconciles it through the sync cursor.

## Modules

| module | models |
|---|---|
| `EventLog` | the abstract log: per message its newest event, at a position of its own in one order; the queries clients read it by |
| `MessageLog` | the `messages` table and the handlers of sending, editing and deleting, one step per SQL statement or transaction |
| `Membership` | joining, requests, invites, the claim code, orders of operators, one step per statement |
| `Attachments` | uploads, removals, deletions with a message and in bulk, one step per statement or file operation |
| `ServerMeta` | the settings: read all, change some, write all back field by field |
| `Devices` | Hello, join, registration, revocation, the proofs clients keep and hand over, the sessions a revocation finds, the online count |
| `PreKeys` | upload and fetch of one-time pre-keys, one step per statement |
| `Ratchet` | an encrypted conversation of two users: X3DH, the double ratchet, the session kept around it, a network that loses, repeats and reorders |
| `ClientSync` | one device against an `EventLog`, one step per await of `_sync` and `loadMoreHistory`; what is broadcast of reactions |
| `Outbox` | the messages a device is sending: optimistic entries, attempts, timeouts, late answers, retries, discards, reloads of the list |
| `PushService` | the push relay: the path of a push through the lists and the circuit breaker, applications and reviews, the directory, the health monitor |
| `RateLimiter` | the relay's token bucket, in integer arithmetic |
| `*Proofs` | theorems about the module they are named after; `ClientProofs` is about `ClientSync` and `Outbox`, `KeysProofs` about `PreKeys` and `Devices`, `PushProofs` about `PushService` and `RateLimiter` |
| `MC_*` | the small instances |

Which compose: `ClientSync` runs on `EventLog`, `MessageLog` implements `EventLog`.  The other modules share no state that
the properties speak of; instances put several of them side by side as *scenarios* (see "Runs").

How the models correspond to the code:

* **A handler** is a chain of actions. `pc[s]` names the statement that session `s` runs next; what the
  Rust code holds in local variables across an await is `arg`, `asAdmin`, `since`, `job`.  The first
  action of a chain does everything up to the first await that can observe shared state; an early return
  is the action `Return`.  `StatementFails` is any `?` on a `StorageError`: the handler ends and, as in
  `handle_socket`, nobody is told.
* **A transaction** is one step, because SQLite has one writer.  `edit_message` and `delete_message` read the
  row before they begin theirs, so they are two steps.
* **AUTOINCREMENT** is `lastSeq`, which deletions do not lower and restarts keep.
* **`Restart`** ends all handlers between any two statements and keeps what was committed.
* **History variables** (`committed`, `published`, `cleared`, `late` of `MessageLog`; `claimants`, `entered`,
  `late` of `Membership`; `owed` of `ClientSync`; `discarded` of `Outbox`; `lateEntries`, `outliving` of `Devices`) record what the properties speak of; no guard of a
  handler reads them.
* **The client** is one Dart isolate.  `task[k]` is one run of `_sync`; its place `at` names the await it is
  in.  Two runs overlap when the user switches topics.  The local tables are `store` and `cursors`; `INSERT
  OR REPLACE` is `UpsertRows` under both unique indexes, `UNIQUE(server_id, author_id, msg_id)` and
  `UNIQUE(server_id, topic_id, seq)` (`Clash`).
* **Reactions** reach a client as events with seq 0, no author and no content (`broadcast_reaction`), whether one was added or
  withdrawn.  While the message has reactions left, `_onBroadcast` updates its row.  The event of the last one's withdrawal has an empty list, does
  not match that branch and is taken for a message: if the message is not on screen, a row with seq 0 is stored and `_cursor` and the
  stored cursor become 0 (`React`, `Deliver`).  `Stored(m)` means the message itself, a row with a seq of the log.
* **`MessageLog` implements `EventLog`** under the mapping *newest event of a message = its row*, *head =
  AUTOINCREMENT*.  `ClientSync` reads `EventLog`, so what it shows holds over the statement-level log; it keeps
  the gap between commit and broadcast in `announcing`, out of order included.
* **Keys** of `Ratchet` are terms: a key is the list of inputs that the key derivation functions of the code were
  given, so two keys are equal just if the code computes them from equal inputs.  `Skip`, `DhRatchet`, `Decrypt` are
  the functions of `ratchet.rs` on the record of a session; each returns the set of its outcomes, empty where the
  Rust function returns an error.  A failed `Receive` changes nothing, because `e2ee_session_decrypt` works on a copy that
  the client keeps only on success.  The client code that would exchange these messages is not written yet: no
  caller of `acceptSession` exists, and the sessions of `E2eeService` live in memory.

* **`Devices`**: a link is a WebSocket with its handler (`at`, `task`) and its client (`stage`, `inbox`).  `socket[l]`
  is "in" from `mark_online` to `mark_offline`.  A client that opens a link while another of its own lives is what a reconnect
  before the server notices, or a failed re-handshake, leads to.  A client says Hello once on a socket, as `_rehandshake` and
  `connectAndJoin` do; a second Hello on one would be counted again, which is outside the model.  `outliving` are the links that were past
  the check of Hello when the revocation of their device was stored.  `proofs[d]` is what a device has learnt and will hand over.
* **`Attachments`**: `ContentOf` is the hash and size that name a file.  A file is torn from `File::create` to the end of the write;
  `victims`, `torn` and `strays` record what an overlap or a failure cost, and each names the kind of loss.
* **`ServerMeta`**: `next[e]` is the field that editor `e` writes next, in the order of `set_server_meta`.  `kept[f]` is the last change of `f` that
  nothing under way can undo: it is dropped when an editor that read before it, or failed to read, may still write.
  A restart ends the requests under way and, without `--name` and `--description`, writes back what it reads.
* **`PushService`**: `pc[h]`, `job[h]` of a handler as above; `monitor` is `health_monitor_loop` with the list it read and the
  entry it is at; what a handler holds of a list is in `job`.  Whether a bucket holds a token is a choice there; `RateLimiter` says how
  often it can.  It counts in `Unit`s of a token, so that the rate per minute times the time elapsed is a whole number.
* **`Outbox`**: an entry of `shown` is an optimistic message with its place in the list, a record of `calls` an attempt: what the server made of it and what
  the device was told.  Entries are told apart by text where the code does so.  `menu` is the message that an open popup menu was built
  with.  `discarded` are the messages the user removed.

Left out everywhere: texts, names, signatures (an author is taken to be who the signature says),
cryptographic primitives, logging.

## Runs

Several instances hold more than one component.  Where components share no state, their product would multiply states and
show nothing, so a behaviour picks a `scenario` at its start, and only the actions of that scenario are taken.  Properties whose
name starts with *Calm*, and `MonitorFollows`, are about one scenario, under the fairness stated for it.

| run | asks | bounds |
|---|---|---|
| `log_races` | `TypeOK`, `OneRowPerMessage`, `NewestStored`, `PostedOnce`, `OnlyRacingEditRevives`, `ImplementsEventLog` | an author with two connections, an admin, two messages, three events: a retry, an edit or a deletion can race any other on the same message while another message shares the order; failing statements, restarts |
| `log_moderation` | `LateSendsBounded`, `EventuallyAnnounced` | one connection each, two messages, two events, rate limit 1, both users muted, promoted, demoted, unmuted, a topic public, restricted, gone; fair, failing statements, no restart |
| `membership` | `TypeOK`, `InviteAdmitsOne`, `LateOrdersBounded`, `StandingKept`, `CalmApprovalAdmits`; files: `StoreConsistent`; settings: `ChangesKept` | mixed: two users with a connection each, one invite, one request, the strategy switched between invite and approval, demotion, mute, approval; failing statements, restarts. Approval: the same connections and the admin page, one request, approve and ban; fair, nothing fails. Files: two requests at a time, two uploads of one content, one message; all failures and restarts. Settings: two requests at a time, all failures and restarts |
| `client_sync` | sync: `ClientTypeOK`, `CursorsBehindHead`, `ConnectedMissesNothing`, `MessagesSurvive`; outbox: `OneAttemptOpen`; session: `KeysFresh`, `ReadOnce`, `InOrderReadable` | sync: two topics, two messages in one of them, two events, a channel of one event; all failures; once with history pages of one row, once with reactions to both messages that come and go. Outbox: two messages of one text and one of another, three attempts. Session: two chains of each user, four messages a chain, gaps of at most two (`MaxSkip`, 200 in the code), so that a gap can be too large; with a one-time pre-key, and for three messages without |
| `services` | devices: `OnlyOldSessionsRemain`, `PresenceExact`, `CalmRelayReaches`; pre-keys: `SharedOnlyByRace`; delivery: `OwedArrives`; push: `PushTypeOK`, `BarsHold`, `BreakerTrips`, `OnlyOperatorApproves`, `ApprovalKeepsUrl`, `MonitorFollows`, `PeriodBounded` | devices: two devices of a user and one of another, up to three links; a device revoking the other one over two links, one client on two links, and, without failures, a device that hands over two proofs. Pre-keys: bundles of two keys and of one, three fetches. Delivery (fair, nothing fails): two messages, switches between two topics, a channel of one event that lags; and one message with history. Push: one server and user, two requests at a time and the monitor, threshold 1 (100 in the code) and a count of two; scenarios pushes (none refused), refusals (nobody muted), listing, directory, health (fair loop, nothing fails) and bucket: rates 1 and 2, pauses up to three units of time |

In the scenarios of pushes the whitelist comes into force by a switch of the mode only; `BarredSoon` covers an eligibility that is withdrawn.

What a bound leaves out: a third message, session or user would add no kind of pair that is not already
there, since each property is violated by two actors over one or two messages, as the mutants show.  The
theorems below remove the bounds for the safety properties they name; in particular the overlap of two
runs of `_sync`, which TLC's instances leave out (`Syncs` has one element), is covered by
`CursorsNeverPassTheHead` and `DeviceKeepsMessages`.  `SyncLimit`, `HistoryLimit` and
`Capacity` stand for 100, 50 and 1024 and are set so that pages are full and channels overflow.

Runs that end in a violation, each a disagreement between the code and what the repository says of it
(quoted under `findings`):

| run | what happens |
|---|---|
| `deletion_is_final` | an edit that read the row before a deletion committed replaces the tombstone |
| `claim_is_single_use` | two users present the claim code at once, both become Owner |
| `nothing_skipped` | a broadcast on a fresh connection moves the cursor before the sync reads it (pages and channel are large enough here to hold everything, so that neither is the cause) |
| `deletions_arrive` | sync skips the deletion of a message the device has |
| `late_readable` | the header's `pn` is always 0, so the messages of an earlier chain cannot be read once a new chain began (with the length of the own chain in `dh_ratchet` the run passes) |
| `revoked_at_once` | a device is revoked over another connection, its own is in and stays in with all rights, though the user was told that it becomes invalid at once (nothing fails here, and no proof comes from elsewhere) |
| `failed_stays` | the list is reloaded while a message is being sent; the timeout then finds no entry to mark, and the message is on no list, though it should stay there for a retry |

Noticed while modelling.  No run asks for these; most are behaviours of a model above, the others of code read beside it:

* The second of two racing sends of one message fails on the unique index (`storage.rs:1107`) instead of
  reporting the duplicate that `storage.rs:333` promises, and its client gets no answer.
* A claim of ownership that an open join of the same user overtakes changes no role, since `upsert_member`
  keeps the existing row's (`ws.rs:466`): the code is spent and there is no Owner.
* The notice of a kick looks the member up after `handle_kick_member` deleted it, finds nobody and is empty, although
  `ws.rs:715-717` and `ws.rs:1653` say that it names the victim (`Notify` of `Membership`).
* Decisions on join requests overwrite each other: the status is tested, if at all, in another statement
  than the `UPDATE` (`storage.rs:1867`, `ws.rs:1508`, `ws.rs:1592`, `admin.rs:585`).
* `_sync` sets the cursor to `latest_seq` although its page of 100 rows may hold less
  (`server_connection.dart:565`): the rest of a longer backlog is never asked for.
* `loadMoreHistory` stores the tombstones that `_sync` filters (`server_connection.dart:605`, `:529`).
* `before_seq` 0, "from the newest", becomes `u64::MAX` and is bound as -1: the page is empty
  (`ws.rs:1247`, `storage.rs:1175`), after which the client stops paging.
* `MAX_SKIP` is said to bound the cache of skipped keys of a session (`ratchet.rs:20`), but bounds one gap
  (`ratchet.rs:137`): repeated gaps make the cache grow.

* Reactions: two rows with seq 0 of one topic push each other out, and a message whose row with seq 0 is on screen is not stored when its own event
  arrives (`server_connection.dart:402`): only a sync brings it, from the cursor that is 0 until the next message.  The comment at `server_connection.dart:324` says that a reaction only
  updates a row.  Messages themselves are never pushed out (`MessagesSurvive`).
* Devices: a registration that overlaps the revocation lists the device again; a proof learnt passively never removes the row;
  a Hello that is refused leaves the socket open, and the client shows it as connected.
* Pre-keys: `uploadPreKeys` has no caller in the client.
* Outbox: the server answers a refusal under the request's id (`ws.rs:275`) and `_request` never reads
  `error`, so a refused message disappears as if it were sent.  Of two messages of the same text one is marked failed for the other's timeout,
  and the other one stays pending for ever.  A retry has a fresh id, so a message that was stored after its timeout is stored twice.
* Attachments: clients tag an upload with an id that no message ever gets, so the bulk deletions of the admin page find no attachments to
  remove, although `admin.rs:1309` says so (`storage.rs:2028` would also miss a column that `row_to_attachment` reads).  Deleting a message that carries a
  sticker removes the record and the file of the sticker for everybody.  A torn file is taken for stored by later uploads.  Records of thumbnails are never removed.
* Settings: a failing read counts as "no settings" (`admin.rs:923` and the same arm elsewhere), and the change is written together with defaults
  for everything else.  Two migration announcements at once can leave the target of one with the signature of the other.
* Push relay: refusals are never forgotten, so that after an entry of the breaker is lifted the next refusal restores it; a second application takes
  an approval back; an approval whose list fails to be read loses the `health_url` that the comment at `push/src/admin.rs:369` wants kept;
  failing reads of the blacklist and of mutes let the push through; the rate and whitelist mode are back at their start-up values after a restart;
  the capacity of a bucket never falls below the initial rate; a change of a directory entry that overlaps its removal brings it back.
  `push/src/main.rs:231` speaks of consecutive failures, but one failed probe pauses
  a server (`MonitorProbe`).
* The first member becomes Owner by a count before the insert (`ws.rs:498`): two first joins at once make two Owners, and a bot's row makes none.
* `hasMoreHistory` (`server_connection.dart:577`) belongs to the connection: reaching the start of one topic ends paging in all of them.

`CHECK_DEADLOCK FALSE` stands only in `MC_NothingSkipped` and `MC_DeletionsArrive`, runs of
`ClientSync` without failures, which stop when the bound on events is used up and everything was delivered.

### Fairness

* `MessageLog!FairSpec`, and `Membership` in the approval scenario of `MC_Administration`: weak fairness of `Continue(s)`.  A handler awaits
  the pool only, whose statements end or fail (`StatementFails` is part of `Continue` in the log; the approval scenario leaves
  failures out); tokio polls a ready task again.  No fairness for requests, administrators or failures.  Restarts are excluded: an event committed just
  before one is never broadcast, as in the code.
* `ClientSync!DeliveryFairness`, in the delivery scenarios of `MC_Services`: weak fairness of announcing, of answering and of each run of `_sync`; **strong**
  fairness of `Deliver`, because a request under way disables forwarding again and again: `tokio::select!`
  picks among ready branches at random, so that a queue that is ready infinitely often is served.
  No fairness for connecting or for the user.  Failures are excluded.
* `PushService`, in the health scenario: weak fairness of `MonitorStep`.  The loop of `main.rs:240` ticks every minute, and each probe ends
  by its timeout of five seconds.
* `Devices` assumes no fairness: `CalmRelayReaches` has registering again and again as its premise.

## Proofs

All theorems hold for any number of users, sessions, topics, messages and events, under the modules'
named assumptions (constants have the right types; a connection belongs to one user; the connections to a server,
`Sessions`, `Connections` and `Links`, are finitely many).

`MessageLogProofs`. The invariant is
`IInv == TypeOK /\ Bounded /\ OneRowPerMessage /\ NewestStored /\ PostedOnce /\ StaleEdit`.
`Bounded` (every seq inserted is at most `lastSeq`, the table holds only inserted rows) is what makes a
fresh seq fresh; with it an insertion that removes the message's old row keeps `NewestStored`.
`PostedOnce` needs `NewestStored`: the deduplication query is an answer about the past only because the newest event of a
message that was not purged is always there.  `StaleEdit` says how an edit can still be about to commit over a
tombstone.  From it:
`TypeCorrect`, `OneRow`, `NewestEventIsStored`, `NoRepost`, `CursorContract` (an action property), `LateEditNeverRevives` (an
action property), and `Implementation`: each step of `MessageLog` is a step of `EventLog` or leaves it unchanged.

`LateSendsFew` has an invariant of its own, `LateAccounted`: the late rows of a user who may not send, and the sends of the user that
are past their checks, are together no more than the user's sessions.  A send takes one from the second to the first, and nobody passes the checks
while barred.  It needs `Sessions` to be finite, as connections are.

`MembershipProofs`. `IInv == TypeOK /\ OneHolder /\ InviteAdmitsOne`: after an invite is consumed there is at
most one handler or one admitted user that it was consumed for.  `TypeCorrect`, `OneUserPerInvite` and `JoinsKeepStanding` follow.
`LateOrdersFew` counts orders as `LateSendsFew` counts sends (`LateAccounted`; `Connections` is finite).

`ClientProofs`. `IInv == ClientTypeOK /\ RowsOK /\ CursorsOK`. `Held` is every event there is: in the log, announced,
in the channel, in a response, in a run of `_sync` and in the local table; the rows and notices of reactions, which have seq 0, are not
among them.  `RowsOK` says that no two messages of
`Held` share a seq and that none is above the head of the log; it is kept because every step either takes its events from
`Held` or is a commit, which adds one above the head (`StepRows`).  `CursorsOK` follows because whatever is written
as a cursor is 0, an older cursor, the seq of an event in `Held` or the log's `latest_seq`.  From it: `TypeCorrect`,
`CursorsNeverPassTheHead`, and `DeviceKeepsMessages`: the row that `INSERT OR REPLACE` removes because of
`UNIQUE(server_id, topic_id, seq)` is one of the same message, or one with seq 0 that gives way to another; a row with seq 0 clashes with no
event, since it has neither a seq of the log nor an author.  `NothingMissed` adds `OwedOK`: a message that is owed is of the
current topic and is stored, or `Sent`: to be announced or in the receiver, neither on screen nor in the table, and with no event of a withdrawn
reaction before it, so that the device takes it for new when it comes.  It rests on `DeviceKeepsMessages`, because what was stored must
stay.  `ReadsTheEventLog`: the log in `ClientSync` behaves as `EventLog`, which `Implementation` above shows of the server.

For the outbox, `OutboxInv == OutboxType /\ ListedOnce /\ OneAttemptOpen`: an entry whose text is its own is offered
for a retry, in the list or in a menu still open, only when every attempt is given up (`GivenUp`), so that among its attempts at most one is not;
and a timeout or an answer touches no other entry than its own (`Blamed`, `Acknowledge`).  `OneAttemptAtATime` follows.

`RatchetProofs`. `IInv == StateType /\ ChainsOK /\ SentOK /\ Distinct`. A sending chain's root key ends in the Diffie-Hellman
output of its own key pair and the pair of the peer that it answers, which the owner and number of the own pair determine
(`Opposite`); a user ratchets only on a message whose key it computed itself, so the peer's pair in its header is the
right one (`RatchetStep`).  Chains of the two users end in different outputs (`SealsDiffer`), chains of one user have
different pairs, and messages of a chain different counters: `KeysNeverReused`.

What a session has read is in two predicates of the session and the messages its user read.  `Spent`: every key that was used or is kept comes
`Before` the key of the receiving chain, in an earlier chain (a shorter root key) or earlier in the same one, and no used key is kept.  `Traced`: every kept
key stands at its counter in a chain of which a message was read, and every counter below `recvN` was read or its key is kept.  `Skip`, `DhRatchet`, `FromChain` and `FromSkipped` keep both, function by function.
Between the users, `Leads(p)` says that one of the two is a step ahead: its root key is the peer's with the two present key pairs mixed in.  It is what
makes the receiver derive the sender's key (`OneRoot` ties a key pair to one root key) and not only some key.  `RatchetInv` is their conjunction with
`ReadSent` and `NoneBefore`; from it `ReadingIsFinal` and, with the skipping lemmas, `PresentChainsOpen`.

`KeysProofs`, for `PreKeys` and `Devices`. `PreKeysInv == PreKeysTypeOK /\ FreshKept /\ GivenGone /\ HeldIsKey /\ SameMet`. A key that an upload has yet to
insert is in no other place, and one that was given is no longer in the table: a bundle cannot bring back a given key, and two
fetches that have the same one both held it when the second selected it.  `KeySharedOnlyByRace` follows.
`DevicesInv == DeviceTypeOK /\ ItemKnown /\ HelloOpen /\ LateOnce /\ Outlived /\ Counted`. A revoked device is past the check of Hello only
on links that outlive the revocation (`Outlived`), since the check reads the stored proofs; a handler that has passed the check of revocations has
not been late yet (`LateOnce`), and one that is about to count a link finds it uncounted (`HelloOpen`), so the count changes by one with the
set of links that are in (`Counted`; it needs `Links` to be finite).  `RevocationsHold` and `PresenceIsExact` follow.

`PushProofs`, for `PushService` and `RateLimiter`. `PushTypeOK` is inductive with what `HandlersOK` and `MonitorOK` say of the job of a handler in each place
(`PushTypeCorrect`).  `BarredSoon` rests on `LateOnce`: a handler with a late push is not past the check of that bar, and every other step is
`Fair`: it lifts a bar only with a recount, and passes a check only where the bar is not in force.  `BreakerAlwaysTrips` is inductive itself: whoever counts the
refusal that reaches the threshold is the one on its way to `trip`.  `OnlyOperators` and `UrlsKept` are action properties; the second needs `UrlsFresh`, that an
approval not `overtaken` holds the `health_url` in the table.
For the token bucket, `LimiterInv == LimiterTypeOK /\ Covered`. What was granted, together with what an attempt would find in the bucket now, stays
within the capacity and the allowance of the time that passed: an attempt moves a token from one to the other, time adds to both sides at
the same rate.  `LimiterKeepsRate` follows, for any rates and pauses.

`ServerMetaProofs`. `MetaInv == MetaType /\ ChangesKept /\ DraftsFresh`: an editor that has yet to write back a field it did not mean to change
has, for every field with a change to keep, that very value in its draft.  `SettingsStay` follows.

`AttachmentsProofs`. `StoreInv == StoreTypeOK /\ IdsKnown /\ TornKnown /\ FillKept /\ InsertKept /\ RecordsKept /\ RivalsKnown /\ NoStray`.
Requests on their way are what makes `StoreConsistent` non-inductive: an upload about to record either has its file or is a victim already (`InsertKept`,
`FillKept`), and a removal about to unlink has every record made since its count among its rivals (`RivalsKnown`), which become victims when it
does.  `StoreStaysConsistent` follows.

Every invariant and every action property of the runs that hold is stated by one of these theorems.  Only model-checked are the liveness properties
`EventuallyAnnounced`, `CalmApprovalAdmits`, `OwedArrives`, `MonitorFollows` and `CalmRelayReaches`: they need fairness and ENABLED, which
are out of the prover's reach.

## Not modelled

* The sets of reactions (what is broadcast of them is in `ClientSync`), mention reads, custom roles, sticker packs, bots, the order, names and push switches of topics: rows that single
  statements change and that nothing else depends on.  What is known to go wrong there (a list read before an upsert, two deletions
  of a pack, a reorder row by row) loses one of two edits made at the same moment; no text of the code promises more.
* The delays of the client's backoff and heartbeat: they decide when a connection is lost, which `Disconnect` may do at any time.
* Notices other than of messages, removals and revocations: the client reloads a list on each.
* Key storage, device pairing, E2EE of the client beyond the session it keeps: the exchange of session messages is not written yet.
* Export, backup and restore, TLS, configuration, start-up, LiveKit tokens, the call to the push relay, device tokens and vendors of
  push: I/O without state of their own.
* User interface, media download, platform notifications, web pages, generated bindings.
* Clients that do not keep to the protocol: one author using the `msg_id` of another, whose row an edit or a deletion by `(topic_id, msg_id)` would
  hit as well (`storage.rs:1206`), or a second Hello on one socket.
* Cryptographic primitives: signatures and certificates are genuine, a key is known to whoever can derive it.
