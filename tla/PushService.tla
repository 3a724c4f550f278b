----------------------------- MODULE PushService -----------------------------
(***************************************************************************)
(* The push service (push/src): chat servers ask it to wake users up.      *)
(*                                                                         *)
(*   - push: blacklist, whitelist mode, mute, rate limit, delivery, with   *)
(*     the circuit breaker that blacklists a server refused too often      *)
(*     (api.rs, rate_limit.rs);                                            *)
(*   - the whitelist: applications, the operator's decisions (api.rs,      *)
(*     admin.rs) and the health monitor, which pauses a server that does   *)
(*     not answer (main.rs);                                               *)
(*   - the public directory and its status cache.                          *)
(*                                                                         *)
(* A handler serves one HTTP request at a time; handlers interleave at     *)
(* every await and at every lock, so that a statement, a probe or the      *)
(* access to one piece of shared memory is a step, and pc[h] names the     *)
(* next one.  Whether a bucket holds a token depends on the time; here it  *)
(* does or does not, and RateLimiter says how often it can.                *)
(*                                                                         *)
(* Signatures, device tokens, vendors, the texts of directory entries and  *)
(* the stored settings of FCM and TLS are left out.                        *)
(***************************************************************************)
EXTENDS Integers, FiniteSets

CONSTANTS
    Handlers,       \* requests being served at a time
    Servers, Users,
    Threshold,      \* circuit_breaker_threshold (100)
    MaxViolations   \* bound: where the count of refusals stops growing

ASSUME PushServiceAssumption ==
    /\ Threshold \in Nat \ {0}
    /\ MaxViolations \in Nat
    /\ Threshold <= MaxViolations

VARIABLES
    whitelist,      \* the table `whitelist`
    cooling,        \* servers whose row of `cooldown` is in the future
    blacklist,      \* the table `blacklist`
    mute,           \* the table `mute`
    directory,      \* the table `directory`
    whitelistMode,  \* whitelist_mode, in memory
    violations,     \* refusals per server, in memory
    online,         \* directory_status, in memory: the servers shown as online
    answers,        \* the servers whose health_url and /status answer
    pc, job,        \* the next step of each handler and the request it serves
    monitor,        \* health_monitor_loop
    late,           \* history: pushes that each handler forwarded against each bar
                    \* since it is in force
    excused,        \* history: servers taken off the blacklist since the breaker
                    \* tripped, or whose entry could not be written
    overtaken       \* history: approvals whose row was written since they read it

tables == <<whitelist, cooling, blacklist, mute, directory>>
memory == <<whitelistMode, violations, online>>
history == <<late, excused, overtaken>>
pushVars == <<tables, memory, answers, pc, job, monitor, history>>

-----------------------------------------------------------------------------
(* Rows and requests *)

\* A row of `whitelist`.  Every query takes a server without a row for one that
\* is not approved, and no row is ever removed.
Row == [approved : BOOLEAN, url : BOOLEAN, paused : BOOLEAN]

Unlisted == [approved |-> FALSE, url |-> FALSE, paused |-> FALSE]

\* is_whitelisted.
Eligible(s) == whitelist[s].approved /\ ~whitelist[s].paused

IsBlacklisted(s) == s \in blacklist

IsMuted(s, u) == <<s, u>> \in mute

\* get_cooldown, and a time still to come.
InCooldown(s) == s \in cooling

\* The rows that the monitor probes.
Watched(s) == whitelist[s].approved /\ whitelist[s].url

\* What can keep a push of server s to user u from being forwarded.
Bars == {"blacklist", "whitelist", "mute"}

InForce(s, u, bar) ==
    CASE bar = "blacklist" -> IsBlacklisted(s)
      [] bar = "mute"      -> IsMuted(s, u)
      [] OTHER             -> whitelistMode /\ ~Eligible(s)

\* What a request asks for; url: the health_url it carries or has read;
\* blind: a check was passed over because its statement failed.
Orders == {"push", "apply", "approve", "reject", "add", "enlist", "update"}

Job == [order : Orders \cup {"none"}, server : Servers \cup {"none"},
        user : Users \cup {"none"}, url : BOOLEAN, blind : SUBSET (Bars \cup {"list"})]

NoJob == [order |-> "none", server |-> "none", user |-> "none", url |-> FALSE, blind |-> {}]

Goto(h, label) == pc' = [pc EXCEPT ![h] = label]

Proceed(h, label) == Goto(h, label) /\ UNCHANGED job

\* Mutant of Return: the request stays behind.
ReturnLate(h) == Goto(h, "idle") /\ UNCHANGED job

Return(h) == Goto(h, "idle") /\ job' = [job EXCEPT ![h] = NoJob]

\* A request arrives; its first step.
First(order) ==
    CASE order = "push"    -> "blacklisted"
      [] order = "apply"   -> "cooldown"
      [] order = "approve" -> "list"
      [] order = "reject"  -> "cool"
      [] order = "add"     -> "add"
      [] order = "enlist"  -> "vet"
      [] OTHER             -> "find"

Request(h, order, s, u, url) ==
    /\ pc[h] = "idle"
    /\ Goto(h, First(order))
    /\ job' = [job EXCEPT ![h] = [order |-> order, server |-> s, user |-> u, url |-> url,
                                  blind |-> {}]]
    /\ UNCHANGED <<tables, memory, answers, monitor, history>>

\* A bar that is lifted is counted against no more.
Recount ==
    late' = [h \in Handlers |-> [s \in Servers |-> [u \in Users |-> [bar \in Bars |->
                IF InForce(s, u, bar)' THEN late[h][s][u][bar] ELSE 0]]]]

-----------------------------------------------------------------------------
(* push *)

\* Mutant of CheckBlacklist: the blacklist is only looked at in blacklist mode.
CheckBlacklistByMode(h) ==
    /\ pc[h] = "blacklisted"
    /\ IF IsBlacklisted(job[h].server) /\ ~whitelistMode THEN Return(h) ELSE Proceed(h, "mode")
    /\ UNCHANGED <<tables, memory, answers, monitor, history>>

\* In both modes.
CheckBlacklist(h) ==
    /\ pc[h] = "blacklisted"
    /\ IF IsBlacklisted(job[h].server) THEN Return(h) ELSE Proceed(h, "mode")
    /\ UNCHANGED <<tables, memory, answers, monitor, history>>

CheckMode(h) ==
    /\ pc[h] = "mode"
    /\ Proceed(h, IF whitelistMode THEN "eligible" ELSE "muted")
    /\ UNCHANGED <<tables, memory, answers, monitor, history>>

CheckEligible(h) ==
    /\ pc[h] = "eligible"
    /\ IF Eligible(job[h].server) THEN Proceed(h, "muted") ELSE Return(h)
    /\ UNCHANGED <<tables, memory, answers, monitor, history>>

\* The server is told that all went well.
CheckMuted(h) ==
    /\ pc[h] = "muted"
    /\ IF IsMuted(job[h].server, job[h].user) THEN Return(h) ELSE Proceed(h, "acquire")
    /\ UNCHANGED <<tables, memory, answers, monitor, history>>

\* try_acquire.
Acquire(h) ==
    /\ pc[h] = "acquire"
    /\ Proceed(h, "forward") \/ Proceed(h, "refuse")
    /\ UNCHANGED <<tables, memory, answers, monitor, history>>

\* record_violation ...
RecordViolation(h) ==
    LET s == job[h].server
    IN  /\ pc[h] = "refuse"
        /\ violations' = [violations EXCEPT ![s] = IF @ = MaxViolations THEN @ ELSE @ + 1]
        /\ Proceed(h, "count")
        /\ UNCHANGED <<tables, whitelistMode, online, answers, monitor, history>>

\* Mutant of CountViolations: the breaker trips at the threshold only.
CountViolationsExactly(h) ==
    /\ pc[h] = "count"
    /\ IF violations[job[h].server] = Threshold THEN Proceed(h, "trip") ELSE Return(h)
    /\ UNCHANGED <<tables, memory, answers, monitor, history>>

\* ... and, under another lock, violation_count, which another refusal may have
\* raised meanwhile.
CountViolations(h) ==
    /\ pc[h] = "count"
    /\ IF violations[job[h].server] >= Threshold THEN Proceed(h, "trip") ELSE Return(h)
    /\ UNCHANGED <<tables, memory, answers, monitor, history>>

\* add_blacklist keeps the entry there is.
AddBlacklist(s) == blacklist' = blacklist \cup {s}

Trip(h) ==
    /\ pc[h] = "trip"
    /\ AddBlacklist(job[h].server)
    /\ excused' = excused \ {job[h].server}
    /\ Return(h)
    /\ UNCHANGED <<whitelist, cooling, mute, directory, memory, answers, monitor, late, overtaken>>

\* list_device_tokens and the vendors' send: the push is on its way.
Forward(h) ==
    LET s == job[h].server
        u == job[h].user
    IN  /\ pc[h] = "forward"
        /\ late' = [late EXCEPT ![h][s][u] = [bar \in Bars |->
                       IF InForce(s, u, bar) /\ bar \notin job[h].blind THEN @[bar] + 1 ELSE @[bar]]]
        /\ Return(h)
        /\ UNCHANGED <<tables, memory, answers, monitor, excused, overtaken>>

SetMute(s, u, on) ==
    /\ mute' = IF on THEN mute \cup {<<s, u>>} ELSE mute \ {<<s, u>>}
    /\ mute' # mute
    /\ UNCHANGED <<whitelist, cooling, blacklist, directory, memory, answers, pc, job, monitor,
                   excused, overtaken>>
    /\ Recount

\* add_blacklist by the operator.
Ban(s) ==
    /\ ~IsBlacklisted(s)
    /\ AddBlacklist(s)
    /\ UNCHANGED <<whitelist, cooling, mute, directory, memory, answers, pc, job, monitor, history>>

\* remove_blacklist: the count of refusals stays, so that the next one trips the
\* breaker again.
Pardon(s) ==
    /\ IsBlacklisted(s)
    /\ blacklist' = blacklist \ {s}
    /\ excused' = excused \cup {s}
    /\ UNCHANGED <<whitelist, cooling, mute, directory, memory, answers, pc, job, monitor, overtaken>>
    /\ Recount

\* set_mode.
SetMode(on) ==
    /\ whitelistMode # on
    /\ whitelistMode' = on
    /\ UNCHANGED <<tables, violations, online, answers, pc, job, monitor, excused, overtaken>>
    /\ Recount

-----------------------------------------------------------------------------
(* The whitelist *)

\* Every write of a whole row; the approvals that have read it are overtaken.
WriteRow(h, row) ==
    /\ whitelist' = [whitelist EXCEPT ![job[h].server] = row]
    /\ overtaken' = {g \in Handlers \ {h} : /\ pc[g] = "approve"
                                            /\ g \in overtaken \/ job[g].server = job[h].server}

\* An application: the cooldown ...
ApplyCooldown(h) ==
    /\ pc[h] = "cooldown"
    /\ IF InCooldown(job[h].server) THEN Return(h) ELSE Proceed(h, "health")
    /\ UNCHANGED <<tables, memory, answers, monitor, history>>

\* ... the health check, which can take five seconds ...
ApplyHealth(h) ==
    /\ pc[h] = "health"
    /\ IF job[h].server \in answers THEN Proceed(h, "file") ELSE Return(h)
    /\ UNCHANGED <<tables, memory, answers, monitor, history>>

\* ... and upsert_whitelist, over whatever the row is by now: the application of
\* an approved server takes its approval away.
ApplyFile(h) ==
    /\ pc[h] = "file"
    /\ WriteRow(h, [approved |-> FALSE, url |-> TRUE, paused |-> FALSE])
    /\ Return(h)
    /\ UNCHANGED <<cooling, blacklist, mute, directory, memory, answers, monitor, excused>>
    /\ Recount

\* approve_whitelist keeps the health_url of the row: list_whitelist ...
ApproveList(h) ==
    /\ pc[h] = "list"
    /\ job' = [job EXCEPT ![h].url = whitelist[job[h].server].url]
    /\ Goto(h, "approve")
    /\ overtaken' = overtaken \ {h}
    /\ UNCHANGED <<tables, memory, answers, monitor, late, excused>>

\* Mutant of Approve: the row is built anew.
ApproveAnew(h) ==
    /\ pc[h] = "approve"
    /\ WriteRow(h, [approved |-> TRUE, url |-> FALSE, paused |-> FALSE])
    /\ Return(h)
    /\ UNCHANGED <<cooling, blacklist, mute, directory, memory, answers, monitor, excused>>
    /\ Recount

\* ... and upsert_whitelist.
Approve(h) ==
    /\ pc[h] = "approve"
    /\ WriteRow(h, [approved |-> TRUE, url |-> job[h].url, paused |-> FALSE])
    /\ Return(h)
    /\ UNCHANGED <<cooling, blacklist, mute, directory, memory, answers, monitor, excused>>
    /\ Recount

SetCooldown(s, on) == cooling' = IF on THEN cooling \cup {s} ELSE cooling \ {s}

\* A rejection: the cooldown ...
RejectCool(h) ==
    /\ pc[h] = "cool"
    /\ SetCooldown(job[h].server, TRUE)
    /\ Proceed(h, "reject")
    /\ UNCHANGED <<whitelist, blacklist, mute, directory, memory, answers, monitor, history>>

\* ... and the row.
Reject(h) ==
    /\ pc[h] = "reject"
    /\ WriteRow(h, Unlisted)
    /\ Return(h)
    /\ UNCHANGED <<cooling, blacklist, mute, directory, memory, answers, monitor, excused>>
    /\ Recount

\* add_whitelist: the row, then the cooldown to 0.
Add(h) ==
    /\ pc[h] = "add"
    /\ WriteRow(h, [approved |-> TRUE, url |-> job[h].url, paused |-> FALSE])
    /\ Proceed(h, "warm")
    /\ UNCHANGED <<cooling, blacklist, mute, directory, memory, answers, monitor, excused>>
    /\ Recount

AddWarm(h) ==
    /\ pc[h] = "warm"
    /\ SetCooldown(job[h].server, FALSE)
    /\ Return(h)
    /\ UNCHANGED <<whitelist, blacklist, mute, directory, memory, answers, monitor, history>>

\* A month passes.
CooldownEnds(s) ==
    /\ InCooldown(s)
    /\ SetCooldown(s, FALSE)
    /\ UNCHANGED <<whitelist, blacklist, mute, directory, memory, answers, pc, job, monitor, history>>

-----------------------------------------------------------------------------
(* The directory *)

\* directory_register: only for a whitelisted server.
Vet(h) ==
    /\ pc[h] = "vet"
    /\ IF Eligible(job[h].server) THEN Proceed(h, "write") ELSE Return(h)
    /\ UNCHANGED <<tables, memory, answers, monitor, history>>

\* directory_update: get_directory, for a registered one.
Find(h) ==
    /\ pc[h] = "find"
    /\ IF job[h].server \in directory THEN Proceed(h, "write") ELSE Return(h)
    /\ UNCHANGED <<tables, memory, answers, monitor, history>>

\* upsert_directory: the update of an entry removed since brings it back.
WriteEntry(h) ==
    /\ pc[h] = "write"
    /\ directory' = directory \cup {job[h].server}
    /\ Return(h)
    /\ UNCHANGED <<whitelist, cooling, blacklist, mute, memory, answers, monitor, history>>

\* directory_remove and the operator's remove_directory.
Delist(s) ==
    /\ s \in directory
    /\ directory' = directory \ {s}
    /\ UNCHANGED <<whitelist, cooling, blacklist, mute, memory, answers, pc, job, monitor, history>>

-----------------------------------------------------------------------------
(* health_monitor_loop *)

\* at: what it does next; todo: the rows it has read and not probed yet;
\* server, pause: what it is about to write; found: what answered in this round.
NoRound == [at |-> "waiting", todo |-> {}, server |-> "none", pause |-> FALSE, found |-> {}]

\* list_whitelist: it goes by these rows until the round is over.
MonitorList ==
    /\ monitor.at = "waiting"
    /\ monitor' = [monitor EXCEPT
           !.at = "probing",
           !.todo = {[server |-> s, paused |-> whitelist[s].paused] :
                        s \in {t \in Servers : Watched(t)}}]
    /\ UNCHANGED <<tables, memory, answers, pc, job, history>>

\* Mutant of MonitorProbe: a pause is never lifted.
MonitorProbeDown ==
    /\ monitor.at = "probing"
    /\ \E row \in monitor.todo :
           monitor' = IF row.server \notin answers /\ ~row.paused
                      THEN [monitor EXCEPT !.at = "pausing", !.todo = @ \ {row},
                                           !.server = row.server, !.pause = TRUE]
                      ELSE [monitor EXCEPT !.todo = @ \ {row}]
    /\ UNCHANGED <<tables, memory, answers, pc, job, history>>

\* The health_url of a server is probed: a change of its answer is written.
MonitorProbe ==
    /\ monitor.at = "probing"
    /\ \E row \in monitor.todo :
           monitor' = IF (row.server \in answers) = row.paused
                      THEN [monitor EXCEPT !.at = "pausing", !.todo = @ \ {row},
                                           !.server = row.server, !.pause = ~row.paused]
                      ELSE [monitor EXCEPT !.todo = @ \ {row}]
    /\ UNCHANGED <<tables, memory, answers, pc, job, history>>

\* Mutant of MonitorPause: the row that was read is written back.
MonitorPauseRow ==
    LET s == monitor.server
    IN  /\ monitor.at = "pausing"
        /\ whitelist' = [whitelist EXCEPT ![s] = [approved |-> TRUE, url |-> TRUE,
                                                  paused |-> monitor.pause]]
        /\ monitor' = [monitor EXCEPT !.at = "probing"]
        /\ UNCHANGED <<cooling, blacklist, mute, directory, memory, answers, pc, job,
                       excused, overtaken>>
        /\ Recount

\* set_paused, on whatever the row is by now.
MonitorPause ==
    /\ monitor.at = "pausing"
    /\ whitelist' = [whitelist EXCEPT ![monitor.server].paused = monitor.pause]
    /\ monitor' = [monitor EXCEPT !.at = "probing"]
    /\ UNCHANGED <<cooling, blacklist, mute, directory, memory, answers, pc, job,
                   excused, overtaken>>
    /\ Recount

\* list_directory.
MonitorDirectory ==
    /\ monitor.at = "probing" /\ monitor.todo = {}
    /\ monitor' = [NoRound EXCEPT !.at = "looking",
                                  !.todo = {[server |-> s, paused |-> FALSE] : s \in directory}]
    /\ UNCHANGED <<tables, memory, answers, pc, job, history>>

\* The public status of one entry.
MonitorLook ==
    /\ monitor.at = "looking"
    /\ \E row \in monitor.todo :
           monitor' = [monitor EXCEPT !.todo = @ \ {row}, !.found = @ \cup ({row.server} \cap answers)]
    /\ UNCHANGED <<tables, memory, answers, pc, job, history>>

\* The cache is replaced as a whole.
MonitorPublish ==
    /\ monitor.at = "looking" /\ monitor.todo = {}
    /\ online' = monitor.found
    /\ monitor' = NoRound
    /\ UNCHANGED <<tables, whitelistMode, violations, answers, pc, job, history>>

MonitorStep ==
    \/ MonitorList \/ MonitorProbe \/ MonitorPause
    \/ MonitorDirectory \/ MonitorLook \/ MonitorPublish

\* A list that cannot be read ends the round; a pause that cannot be written is
\* left to the next one.
MonitorFails ==
    /\ \/ monitor.at = "probing" /\ monitor.todo = {} /\ monitor' = NoRound
       \/ monitor.at = "pausing" /\ monitor' = [monitor EXCEPT !.at = "probing"]
    /\ UNCHANGED <<tables, memory, answers, pc, job, history>>

-----------------------------------------------------------------------------
(* Failures *)

\* A server goes away or comes back.
Flip(s) ==
    /\ answers' = IF s \in answers THEN answers \ {s} ELSE answers \cup {s}
    /\ UNCHANGED <<tables, memory, pc, job, monitor, history>>

\* A statement fails.  Where the code asks `if let Ok(..)` the check is passed
\* over, and an approval whose list fails takes the row to have no health_url.
StatementFails(h) ==
    /\ CASE pc[h] = "blacklisted" ->
                Goto(h, "mode") /\ job' = [job EXCEPT ![h].blind = @ \cup {"blacklist"}]
         [] pc[h] = "muted" ->
                Goto(h, "acquire") /\ job' = [job EXCEPT ![h].blind = @ \cup {"mute"}]
         [] pc[h] = "cooldown" -> Proceed(h, "health")
         [] pc[h] = "list" ->
                Goto(h, "approve") /\ job' = [job EXCEPT ![h].blind = {"list"}]
         [] pc[h] = "vet" -> Proceed(h, "write")
         [] pc[h] \in {"eligible", "trip", "forward", "file", "approve", "cool", "reject", "add",
                       "warm", "find", "write"} -> Return(h)
         [] OTHER -> FALSE
    /\ excused' = IF pc[h] = "trip" THEN excused \cup {job[h].server} ELSE excused
    /\ UNCHANGED <<tables, memory, answers, monitor, late, overtaken>>

\* The process stops and starts: in whitelist mode, without a count of refusals
\* and without the requests in flight.
Restart ==
    /\ whitelistMode' = TRUE
    /\ violations' = [s \in Servers |-> 0]
    /\ online' = {}
    /\ pc' = [h \in Handlers |-> "idle"]
    /\ job' = [h \in Handlers |-> NoJob]
    /\ monitor' = NoRound
    /\ excused' = {}
    /\ overtaken' = {}
    /\ UNCHANGED <<tables, answers>>
    /\ Recount

-----------------------------------------------------------------------------
(* The specification *)

PushInit ==
    /\ whitelist = [s \in Servers |-> Unlisted]
    /\ cooling = {}
    /\ blacklist = {}
    /\ mute = {}
    /\ directory = {}
    /\ whitelistMode = TRUE
    /\ violations = [s \in Servers |-> 0]
    /\ online = {}
    /\ answers = Servers
    /\ pc = [h \in Handlers |-> "idle"]
    /\ job = [h \in Handlers |-> NoJob]
    /\ monitor = NoRound
    /\ late = [h \in Handlers |-> [s \in Servers |-> [u \in Users |-> [bar \in Bars |-> 0]]]]
    /\ excused = {}
    /\ overtaken = {}

Submit(h) ==
    \E s \in Servers :
        \/ \E u \in Users : Request(h, "push", s, u, FALSE)
        \/ \E order \in Orders \ {"push", "add"} : Request(h, order, s, "none", FALSE)
        \/ \E url \in BOOLEAN : Request(h, "add", s, "none", url)

Push(h) ==
    \/ CheckBlacklist(h) \/ CheckMode(h) \/ CheckEligible(h) \/ CheckMuted(h) \/ Acquire(h)
    \/ RecordViolation(h) \/ CountViolations(h) \/ Trip(h) \/ Forward(h)

Register(h) ==
    \/ ApplyCooldown(h) \/ ApplyHealth(h) \/ ApplyFile(h) \/ ApproveList(h) \/ Approve(h)
    \/ RejectCool(h) \/ Reject(h) \/ Add(h) \/ AddWarm(h)
    \/ Vet(h) \/ Find(h) \/ WriteEntry(h)

Administer ==
    \/ \E s \in Servers : Ban(s) \/ Pardon(s) \/ Delist(s) \/ CooldownEnds(s) \/ Flip(s)
    \/ \E s \in Servers, u \in Users, on \in BOOLEAN : SetMute(s, u, on)
    \/ \E on \in BOOLEAN : SetMode(on)

PushFail ==
    \/ \E h \in Handlers : StatementFails(h)
    \/ MonitorFails
    \/ Restart

\* What happens in a process that neither stops nor loses its database.
PushRun ==
    \/ \E h \in Handlers : Submit(h) \/ Push(h) \/ Register(h)
    \/ Administer
    \/ MonitorStep

PushNext == PushRun \/ PushFail

PushSpec == PushInit /\ [][PushNext]_pushVars

-----------------------------------------------------------------------------
(* Properties *)

Labels == {"idle", "blacklisted", "mode", "eligible", "muted", "acquire", "refuse", "count", "trip",
           "forward", "cooldown", "health", "file", "list", "approve", "cool", "reject", "add",
           "warm", "vet", "find", "write"}

PushSteps == {"blacklisted", "mode", "eligible", "muted", "acquire", "refuse", "count", "trip",
              "forward"}

HandlersOK ==
    /\ pc \in [Handlers -> Labels]
    /\ job \in [Handlers -> Job]
    /\ \A h \in Handlers : /\ pc[h] = "idle" <=> job[h] = NoJob
                           /\ pc[h] # "idle" => job[h].order \in Orders /\ job[h].server \in Servers
                           /\ pc[h] \in PushSteps => job[h].user \in Users

MonitorOK ==
    /\ monitor \in [at : {"waiting", "probing", "pausing", "looking"},
                    todo : SUBSET [server : Servers, paused : BOOLEAN],
                    server : Servers \cup {"none"}, pause : BOOLEAN, found : SUBSET Servers]
    /\ monitor.at = "pausing" => monitor.server \in Servers

PushTypeOK ==
    /\ whitelist \in [Servers -> Row]
    /\ cooling \subseteq Servers
    /\ blacklist \subseteq Servers
    /\ mute \subseteq Servers \X Users
    /\ directory \subseteq Servers
    /\ whitelistMode \in BOOLEAN
    /\ violations \in [Servers -> 0..MaxViolations]
    /\ online \subseteq Servers
    /\ answers \subseteq Servers
    /\ HandlersOK
    /\ MonitorOK
    /\ late \in [Handlers -> [Servers -> [Users -> [Bars -> Nat]]]]
    /\ excused \subseteq Servers
    /\ overtaken \subseteq Handlers

\* A bar holds at once: while a server is blacklisted, not eligible in whitelist
\* mode, or muted by the user, each handler forwards at most the one push that it
\* was serving when the bar came into force, unless the check itself failed.
BarsHold ==
    \A h \in Handlers, s \in Servers, u \in Users, bar \in Bars : late[h][s][u][bar] <= 1

\* A server refused Threshold times is on the blacklist, however its refusals
\* interleave, unless the operator took it off, the entry could not be written or
\* a handler is about to write it.
BreakerTrips ==
    \A s \in Servers : violations[s] >= Threshold =>
        \/ s \in blacklist \cup excused
        \/ \E h \in Handlers : pc[h] \in {"count", "trip"} /\ job[h].server = s

\* Only the operator lets a server in: neither an application nor the monitor,
\* which go by rows read earlier, brings back an approval withdrawn since.
OnlyOperatorApproves ==
    [][\A s \in Servers : whitelist'[s].approved /\ ~whitelist[s].approved =>
           \E h \in Handlers : job[h].server = s /\ pc[h] \in {"approve", "add"}]_pushVars

\* An approval keeps the health_url of the application, which the monitor needs,
\* unless the list could not be read or the row was written in between.
ApprovalKeepsUrl ==
    [][\A h \in Handlers :
           pc[h] = "approve" /\ whitelist' # whitelist /\ pc'[h] = "idle"
               /\ h \notin overtaken /\ "list" \notin job[h].blind
           => whitelist'[job[h].server].url = whitelist[job[h].server].url]_pushVars

\* A watched server that stays away is paused again and again, and one that
\* stays is in the end eligible and shown as online, whatever the monitor read
\* before.
HealthFollowed ==
    \A s \in Servers :
        /\ <>[](Watched(s) /\ s \in answers) => <>[]Eligible(s)
        /\ <>[](Watched(s) /\ s \notin answers) => []<>whitelist[s].paused
        /\ <>[](s \in directory /\ s \in answers) => <>[](s \in online)
=============================================================================
