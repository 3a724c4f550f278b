------------------------------ MODULE PushProofs ------------------------------
(***************************************************************************)
(* The push service, for any numbers of handlers, servers and users: its   *)
(* types, that bars hold and the breaker trips however handlers            *)
(* interleave, that only the operator approves, and that the token bucket  *)
(* keeps to its rate, for any number of buckets and of attempts, any rates *)
(* and any pauses.                                                         *)
(***************************************************************************)
EXTENDS PushService, RateLimiter, TLAPS

-----------------------------------------------------------------------------
(* Type correctness *)

LEMMA NoJobType == NoJob \in Job
  BY DEF NoJob, Job, Bars

LEMMA ReturnType ==
    ASSUME HandlersOK, NEW h \in Handlers, Return(h)
    PROVE  HandlersOK'
  BY NoJobType DEF HandlersOK, Return, Goto, Labels, PushSteps

LEMMA ProceedType ==
    ASSUME HandlersOK, NEW h \in Handlers, NEW label \in Labels \ {"idle"}, Proceed(h, label),
           pc[h] # "idle", label \in PushSteps => pc[h] \in PushSteps
    PROVE  HandlersOK'
  BY DEF HandlersOK, Proceed, Goto

\* A handler goes on with a request that is the old one but for what it has
\* read or passed over.
LEMMA RewriteType ==
    ASSUME HandlersOK, NEW h \in Handlers, NEW label \in Labels \ {"idle"}, Goto(h, label),
           NEW new \in Job, job' = [job EXCEPT ![h] = new], new.order = job[h].order,
           new.server = job[h].server, new.user = job[h].user,
           pc[h] # "idle", label \in PushSteps => pc[h] \in PushSteps
    PROVE  HandlersOK'
  <1>1. new # NoJob
    BY DEF HandlersOK, NoJob, Orders
  <1> QED
    BY <1>1 DEF HandlersOK, Goto

\* `late` after a bar was lifted or came into force.
LEMMA RecountType ==
    ASSUME late \in [Handlers -> [Servers -> [Users -> [Bars -> Nat]]]], Recount
    PROVE  late' \in [Handlers -> [Servers -> [Users -> [Bars -> Nat]]]]
  BY DEF Recount

LEMMA InitTypeOK == PushInit => PushTypeOK
  BY NoJobType, PushServiceAssumption
  DEF PushInit, PushTypeOK, HandlersOK, MonitorOK, NoRound, Unlisted, Row, Labels, PushSteps

LEMMA RequestType ==
    ASSUME HandlersOK, NEW h \in Handlers, NEW order \in Orders, NEW s \in Servers,
           NEW u \in Users \cup {"none"}, order = "push" => u \in Users, NEW url \in BOOLEAN,
           Request(h, order, s, u, url)
    PROVE  HandlersOK'
  <1> DEFINE new == [order |-> order, server |-> s, user |-> u, url |-> url, blind |-> {}]
  <1>1. new \in Job /\ new # NoJob /\ new.order = order /\ new.server = s /\ new.user = u
    BY DEF Job, NoJob, Orders
  <1>2. /\ pc' = [pc EXCEPT ![h] = First(order)] /\ job' = [job EXCEPT ![h] = new]
    BY DEF Request, Goto
  <1>3. /\ First(order) \in Labels \ {"idle"}
        /\ First(order) \in PushSteps => order = "push"
    BY DEF First, Orders, Labels, PushSteps
  <1> HIDE DEF new
  <1> QED
    BY <1>1, <1>2, <1>3 DEF HandlersOK

\* The steps of a push.
LEMMA PushType ==
    ASSUME PushTypeOK, NEW h \in Handlers, Push(h)
    PROVE  PushTypeOK'
  <1> USE DEF PushTypeOK, tables, memory, history
  <1>1. CASE CheckBlacklist(h) \/ CheckMode(h) \/ CheckEligible(h) \/ CheckMuted(h)
             \/ Acquire(h) \/ CountViolations(h)
    <2>1. HandlersOK'
      BY <1>1, ReturnType, ProceedType
      DEF CheckBlacklist, CheckMode, CheckEligible, CheckMuted, Acquire, CountViolations,
          Labels, PushSteps
    <2> QED
      BY <1>1, <2>1 DEF CheckBlacklist, CheckMode, CheckEligible, CheckMuted, Acquire,
                        CountViolations, MonitorOK
  <1>2. CASE RecordViolation(h)
    <2>1. HandlersOK'
      BY <1>2, ProceedType DEF RecordViolation, Labels, PushSteps
    <2>2. violations' \in [Servers -> 0..MaxViolations]
      <3>1. job[h].server \in Servers
        BY <1>2 DEF RecordViolation, HandlersOK
      <3> DEFINE n == violations[job[h].server]
      <3>0. n \in 0..MaxViolations
        BY <3>1
      <3>3. violations' = [violations EXCEPT ![job[h].server] = IF n = MaxViolations THEN n ELSE n + 1]
        BY <1>2 DEF RecordViolation
      <3> HIDE DEF n
      <3>2. n \in Nat /\ (IF n = MaxViolations THEN n ELSE n + 1) \in 0..MaxViolations
        BY <3>0, PushServiceAssumption
      <3> QED
        BY <3>1, <3>3, <3>2
    <2> QED
      BY <1>2, <2>1, <2>2 DEF RecordViolation, MonitorOK
  <1>3. CASE Trip(h)
    <2>1. HandlersOK' /\ job[h].server \in Servers
      BY <1>3, ReturnType DEF Trip, HandlersOK
    <2> QED
      BY <1>3, <2>1 DEF Trip, AddBlacklist, MonitorOK
  <1>4. CASE Forward(h)
    <2>1. HandlersOK' /\ job[h].server \in Servers /\ job[h].user \in Users
      BY <1>4, ReturnType DEF Forward, HandlersOK, PushSteps
    <2>2. late' \in [Handlers -> [Servers -> [Users -> [Bars -> Nat]]]]
      <3> DEFINE s == job[h].server
                 u == job[h].user
                 new == [bar \in Bars |-> IF InForce(s, u, bar) /\ bar \notin job[h].blind
                                          THEN late[h][s][u][bar] + 1 ELSE late[h][s][u][bar]]
      <3>1. late' = [late EXCEPT ![h][s][u] = new]
        BY <1>4 DEF Forward
      <3>2. new \in [Bars -> Nat]
        BY <2>1
      <3> HIDE DEF new
      <3> QED
        BY <2>1, <3>1, <3>2
    <2> QED
      BY <1>4, <2>1, <2>2 DEF Forward, MonitorOK
  <1> QED
    BY <1>1, <1>2, <1>3, <1>4 DEF Push

LEMMA WriteRowType ==
    ASSUME PushTypeOK, NEW h \in Handlers, pc[h] # "idle", NEW row \in Row, WriteRow(h, row)
    PROVE  whitelist' \in [Servers -> Row] /\ overtaken' \subseteq Handlers
  BY DEF PushTypeOK, WriteRow, HandlersOK

\* The steps of applications, of the operator's decisions and of the directory.
LEMMA RegisterType ==
    ASSUME PushTypeOK, NEW h \in Handlers, Register(h)
    PROVE  PushTypeOK'
  <1> USE DEF PushTypeOK, tables, memory, history
  <1>0. job[h] \in Job /\ job[h].url \in BOOLEAN /\ (pc[h] # "idle" => job[h].server \in Servers)
    BY DEF HandlersOK, Job
  <1>1. CASE ApplyCooldown(h) \/ ApplyHealth(h) \/ Vet(h) \/ Find(h)
    <2>1. HandlersOK'
      BY <1>1, ReturnType, ProceedType DEF ApplyCooldown, ApplyHealth, Vet, Find, Labels, PushSteps
    <2> QED
      BY <1>1, <2>1 DEF ApplyCooldown, ApplyHealth, Vet, Find, MonitorOK
  <1>2. CASE ApplyFile(h) \/ Approve(h) \/ Reject(h) \/ Add(h)
    <2>1. HandlersOK'
      BY <1>2, ReturnType, ProceedType DEF ApplyFile, Approve, Reject, Add, Labels, PushSteps
    <2>2. \E row \in Row : WriteRow(h, row)
      BY <1>0, <1>2 DEF ApplyFile, Approve, Reject, Add, Row, Unlisted
    <2>3. pc[h] # "idle" /\ Recount
      BY <1>2 DEF ApplyFile, Approve, Reject, Add
    <2> QED
      BY <1>2, <2>1, <2>2, <2>3, WriteRowType, RecountType DEF ApplyFile, Approve, Reject, Add, MonitorOK
  <1>3. CASE ApproveList(h)
    <2> DEFINE new == [job[h] EXCEPT !.url = whitelist[job[h].server].url]
    <2>1. whitelist[job[h].server].url \in BOOLEAN
      BY <1>0, <1>3 DEF ApproveList, Row
    <2>2. /\ new \in Job /\ new.order = job[h].order
          /\ new.server = job[h].server /\ new.user = job[h].user
      BY <1>0, <2>1 DEF Job
    <2>3. HandlersOK'
      <3>1. Goto(h, "approve") /\ pc[h] = "list" /\ job' = [job EXCEPT ![h] = new]
        BY <1>3 DEF ApproveList
      <3>2. "approve" \in Labels \ {"idle"} /\ "approve" \notin PushSteps
        BY DEF Labels, PushSteps
      <3> HIDE DEF new
      <3>3. HandlersOK
        OBVIOUS
      <3> QED
        BY <2>2, <3>1, <3>2, <3>3, RewriteType
    <2> QED
      BY <1>3, <2>3 DEF ApproveList, MonitorOK
  <1>4. CASE RejectCool(h) \/ AddWarm(h)
    <2>1. HandlersOK'
      BY <1>4, ReturnType, ProceedType DEF RejectCool, AddWarm, Labels, PushSteps
    <2> QED
      BY <1>0, <1>4, <2>1 DEF RejectCool, AddWarm, SetCooldown, MonitorOK
  <1>5. CASE WriteEntry(h)
    <2>1. HandlersOK'
      BY <1>5, ReturnType DEF WriteEntry
    <2> QED
      BY <1>0, <1>5, <2>1 DEF WriteEntry, MonitorOK
  <1> QED
    BY <1>1, <1>2, <1>3, <1>4, <1>5 DEF Register

LEMMA AdministerType ==
    ASSUME PushTypeOK, Administer
    PROVE  PushTypeOK'
  <1> USE DEF PushTypeOK, tables, memory, history
  <1>1. ASSUME NEW s \in Servers, Ban(s) \/ Delist(s) \/ CooldownEnds(s) \/ Flip(s) PROVE PushTypeOK'
    BY <1>1 DEF Ban, Delist, CooldownEnds, Flip, AddBlacklist, SetCooldown, HandlersOK, MonitorOK
  <1>2. ASSUME NEW s \in Servers, Pardon(s) PROVE PushTypeOK'
    BY <1>2, RecountType DEF Pardon, HandlersOK, MonitorOK
  <1>3. ASSUME NEW s \in Servers, NEW u \in Users, NEW on \in BOOLEAN, SetMute(s, u, on)
        PROVE  PushTypeOK'
    BY <1>3, RecountType DEF SetMute, HandlersOK, MonitorOK
  <1>4. ASSUME NEW on \in BOOLEAN, SetMode(on) PROVE PushTypeOK'
    BY <1>4, RecountType DEF SetMode, HandlersOK, MonitorOK
  <1> QED
    BY <1>1, <1>2, <1>3, <1>4 DEF Administer

LEMMA MonitorType ==
    ASSUME PushTypeOK, MonitorStep \/ MonitorFails
    PROVE  PushTypeOK'
  <1> USE DEF PushTypeOK, tables, memory, history
  <1>1. MonitorOK'
    <2>1. CASE MonitorList
      <3>1. {[server |-> s, paused |-> whitelist[s].paused] : s \in {t \in Servers : Watched(t)}}
                \in SUBSET [server : Servers, paused : BOOLEAN]
        BY DEF Row
      <3> QED
        BY <2>1, <3>1 DEF MonitorList, MonitorOK
    <2>2. CASE MonitorProbe
      <3>1. PICK row \in monitor.todo :
                monitor' = IF (row.server \in answers) = row.paused
                           THEN [monitor EXCEPT !.at = "pausing", !.todo = @ \ {row},
                                                !.server = row.server, !.pause = ~row.paused]
                           ELSE [monitor EXCEPT !.todo = @ \ {row}]
        BY <2>2 DEF MonitorProbe
      <3>2. row.server \in Servers /\ row.paused \in BOOLEAN
        BY DEF MonitorOK
      <3> QED
        BY <2>2, <3>1, <3>2 DEF MonitorOK, MonitorProbe
    <2>3. CASE MonitorPause \/ MonitorFails
      <3>1. monitor' \in {NoRound, [monitor EXCEPT !.at = "probing"]}
        BY <2>3 DEF MonitorPause, MonitorFails
      <3>2. {} \in SUBSET [server : Servers, paused : BOOLEAN] /\ {} \in SUBSET Servers
        OBVIOUS
      <3>3. CASE monitor' = NoRound
        BY <3>2, <3>3 DEF NoRound, MonitorOK
      <3>4. CASE monitor' = [monitor EXCEPT !.at = "probing"]
        BY <3>4 DEF MonitorOK
      <3> QED
        BY <3>1, <3>3, <3>4
    <2>4. CASE MonitorDirectory
      <3>1. {[server |-> s, paused |-> FALSE] : s \in directory}
                \in SUBSET [server : Servers, paused : BOOLEAN]
        <4>1. \A s \in directory : [server |-> s, paused |-> FALSE] \in [server : Servers, paused : BOOLEAN]
          OBVIOUS
        <4> QED
          BY <4>1
      <3> QED
        BY <2>4, <3>1 DEF MonitorDirectory, NoRound, MonitorOK
    <2>5. CASE MonitorLook
      <3>1. PICK row \in monitor.todo :
                monitor' = [monitor EXCEPT !.todo = @ \ {row},
                                           !.found = @ \cup ({row.server} \cap answers)]
        BY <2>5 DEF MonitorLook
      <3>2. /\ monitor.todo \ {row} \in SUBSET [server : Servers, paused : BOOLEAN]
            /\ monitor.found \cup ({row.server} \cap answers) \in SUBSET Servers
        BY DEF MonitorOK
      <3> QED
        BY <2>5, <3>1, <3>2 DEF MonitorLook, MonitorOK
    <2>6. CASE MonitorPublish
      BY <2>6 DEF MonitorPublish, NoRound, MonitorOK
    <2> QED
      BY <2>1, <2>2, <2>3, <2>4, <2>5, <2>6 DEF MonitorStep
  <1>2. CASE MonitorPause
    <2>1. whitelist' \in [Servers -> Row]
      BY <1>2 DEF MonitorPause, MonitorOK, Row
    <2> QED
      BY <1>1, <1>2, <2>1, RecountType DEF MonitorPause, HandlersOK
  <1>3. CASE MonitorPublish
    BY <1>1, <1>3 DEF MonitorPublish, MonitorOK, HandlersOK
  <1>4. CASE MonitorList \/ MonitorProbe \/ MonitorDirectory \/ MonitorLook \/ MonitorFails
    BY <1>1, <1>4 DEF MonitorList, MonitorProbe, MonitorDirectory, MonitorLook, MonitorFails, HandlersOK
  <1> QED
    BY <1>2, <1>3, <1>4 DEF MonitorStep

\* A check that is passed over leaves its mark in the request.
LEMMA StatementFailsType ==
    ASSUME PushTypeOK, NEW h \in Handlers, StatementFails(h)
    PROVE  PushTypeOK'
  <1> USE DEF PushTypeOK, tables, memory, history
  <1>0. job[h] \in Job /\ (pc[h] # "idle" => job[h].server \in Servers)
    BY DEF HandlersOK
  <1>1. HandlersOK'
    <2>1. ASSUME NEW label \in Labels \ {"idle"}, Goto(h, label), pc[h] # "idle",
                 label \in PushSteps => pc[h] \in PushSteps,
                 NEW checks \in SUBSET (Bars \cup {"list"}),
                 job' = [job EXCEPT ![h].blind = checks]
          PROVE  HandlersOK'
      <3> DEFINE new == [job[h] EXCEPT !.blind = checks]
      <3>1. /\ new \in Job /\ new.order = job[h].order
            /\ new.server = job[h].server /\ new.user = job[h].user
        BY <1>0 DEF Job
      <3>2. job' = [job EXCEPT ![h] = new]
        BY <2>1
      <3> HIDE DEF new
      <3> QED
        BY <2>1, <3>1, <3>2, RewriteType
    <2>2. CASE pc[h] \in {"blacklisted", "muted"}
      <3>1. job[h].blind \cup {"blacklist"} \in SUBSET (Bars \cup {"list"})
            /\ job[h].blind \cup {"mute"} \in SUBSET (Bars \cup {"list"})
        BY <1>0 DEF Job, Bars
      <3> QED
        BY <2>1, <2>2, <3>1 DEF StatementFails, Labels, PushSteps
    <2>3. CASE pc[h] = "list"
      BY <2>1, <2>3 DEF StatementFails, Labels, PushSteps, Bars
    <2>4. CASE pc[h] \in {"cooldown", "vet"}
      BY <2>4, ProceedType DEF StatementFails, Labels, PushSteps
    <2>5. CASE pc[h] \notin {"blacklisted", "muted", "list", "cooldown", "vet"}
      BY <2>5, ReturnType DEF StatementFails
    <2> QED
      BY <2>2, <2>3, <2>4, <2>5
  <1>2. excused' \subseteq Servers
    BY <1>0 DEF StatementFails
  <1> QED
    BY <1>1, <1>2 DEF StatementFails, MonitorOK

LEMMA NextTypeOK == PushTypeOK /\ [PushNext]_pushVars => PushTypeOK'
  <1> SUFFICES ASSUME PushTypeOK, [PushNext]_pushVars PROVE PushTypeOK'
    OBVIOUS
  <1> USE DEF tables, memory, history
  <1>1. ASSUME NEW h \in Handlers, Submit(h) PROVE PushTypeOK'
    <2>1. HandlersOK'
      BY <1>1, RequestType DEF Submit, PushTypeOK, Orders
    <2> QED
      BY <1>1, <2>1 DEF Submit, Request, PushTypeOK, MonitorOK
  <1>2. CASE Restart
    <2>1. HandlersOK' /\ MonitorOK'
      BY <1>2, NoJobType DEF Restart, HandlersOK, MonitorOK, NoRound, Labels, PushSteps
    <2> QED
      BY <1>2, <2>1, RecountType, PushServiceAssumption DEF Restart, PushTypeOK
  <1>3. CASE UNCHANGED pushVars
    BY <1>3 DEF pushVars, PushTypeOK, HandlersOK, MonitorOK
  <1> QED
    BY <1>1, <1>2, <1>3, PushType, RegisterType, AdministerType, MonitorType, StatementFailsType
    DEF PushNext, PushRun, PushFail

\* Tables, memory, handlers and the monitor are well typed: every handler finds
\* the server and the user its next step needs.
THEOREM PushTypeCorrect == PushSpec => []PushTypeOK
  BY InitTypeOK, NextTypeOK, PTL DEF PushSpec

-----------------------------------------------------------------------------
(* Bars *)

\* Handler h serves a push of s to u and has passed the check of a bar.
PastCheck(bar) ==
    CASE bar = "blacklist" -> {"mode", "eligible", "muted", "acquire", "forward"}
      [] bar = "mute"      -> {"acquire", "forward"}
      [] OTHER             -> {"muted", "acquire", "forward"}

Past(h, s, u, bar) ==
    /\ pc[h] \in PastCheck(bar)
    /\ job[h].server = s /\ job[h].user = u
    /\ bar \notin job[h].blind

\* A handler that forwarded a push against a bar serves another one by now and
\* has not got past the bar with it.
LateOnce ==
    \A h \in Handlers, s \in Servers, u \in Users, bar \in Bars :
        late[h][s][u][bar] = 0
            \/ (late[h][s][u][bar] = 1 /\ InForce(s, u, bar) /\ ~Past(h, s, u, bar))

\* A step that forwards nothing: bars are lifted only with a recount, and a check
\* is passed only while its bar is not in force.
Fair ==
    \A h \in Handlers, s \in Servers, u \in Users, bar \in Bars :
        /\ \/ late'[h][s][u][bar] = 0
           \/ late'[h][s][u][bar] = late[h][s][u][bar] /\ (InForce(s, u, bar) => InForce(s, u, bar)')
        /\ Past(h, s, u, bar)' => Past(h, s, u, bar) \/ ~InForce(s, u, bar)

LEMMA FairKeepsLate ==
    ASSUME LateOnce, Fair
    PROVE  LateOnce'
  BY DEF LateOnce, Fair

\* What a recount does to a bar.
LEMMA RecountIsFair ==
    ASSUME Recount, NEW h \in Handlers, NEW s \in Servers, NEW u \in Users, NEW bar \in Bars
    PROVE  \/ late'[h][s][u][bar] = 0
           \/ late'[h][s][u][bar] = late[h][s][u][bar] /\ InForce(s, u, bar)'
  BY DEF Recount

\* Steps that change no bar and pass no check.
LEMMA IdleIsFair ==
    ASSUME UNCHANGED <<whitelist, blacklist, mute, whitelistMode, late>> \/ Recount,
           \A h \in Handlers, s \in Servers, u \in Users, bar \in Bars :
               Past(h, s, u, bar)' => Past(h, s, u, bar)
    PROVE  Fair
  <1>1. CASE Recount
    BY <1>1, RecountIsFair DEF Fair
  <1>2. CASE UNCHANGED <<whitelist, blacklist, mute, whitelistMode, late>>
    BY <1>2 DEF Fair, InForce, IsBlacklisted, IsMuted, Eligible
  <1> QED
    BY <1>1, <1>2

\* A handler that goes on to a step where it is past no bar.
LEMMA AwayIsFair ==
    ASSUME PushTypeOK, UNCHANGED <<whitelist, blacklist, mute, whitelistMode, late>> \/ Recount,
           NEW h \in Handlers, \A q \in Handlers \ {h} : pc'[q] = pc[q] /\ job'[q] = job[q],
           pc'[h] \notin {"mode", "eligible", "muted", "acquire", "forward"}
    PROVE  Fair
  <1>1. \A q \in Handlers, s \in Servers, u \in Users, bar \in Bars :
            Past(q, s, u, bar)' => Past(q, s, u, bar)
    BY DEF Past, PastCheck
  <1> QED
    BY <1>1, IdleIsFair

\* The checks of a push.
LEMMA CheckIsFair ==
    ASSUME PushTypeOK, NEW h \in Handlers,
           CheckBlacklist(h) \/ CheckMode(h) \/ CheckEligible(h) \/ CheckMuted(h) \/ Acquire(h)
    PROVE  Fair
  <1> USE DEF tables, memory, history, PushTypeOK, HandlersOK
  <1>1. UNCHANGED <<whitelist, blacklist, mute, whitelistMode, late>>
    BY DEF CheckBlacklist, CheckMode, CheckEligible, CheckMuted, Acquire
  <1>2. \A q \in Handlers \ {h} : pc'[q] = pc[q] /\ job'[q] = job[q]
    BY DEF CheckBlacklist, CheckMode, CheckEligible, CheckMuted, Acquire, Return, Proceed, Goto
  <1>3. CASE pc'[h] \in {"idle", "refuse"}
    BY <1>1, <1>2, <1>3, AwayIsFair
  <1>4. ASSUME pc'[h] \notin {"idle", "refuse"},
               NEW s \in Servers, NEW u \in Users, NEW bar \in Bars, Past(h, s, u, bar)'
        PROVE  Past(h, s, u, bar) \/ ~InForce(s, u, bar)
    <2>1. job' = job
      BY <1>4 DEF CheckBlacklist, CheckMode, CheckEligible, CheckMuted, Acquire, Return,
                  Proceed, Goto
    <2>2. CASE CheckBlacklist(h)
      <3>1. pc[h] = "blacklisted" /\ ~IsBlacklisted(job[h].server) /\ pc'[h] = "mode"
        BY <1>4, <2>2 DEF CheckBlacklist, Return, Proceed, Goto
      <3> QED
        BY <1>4, <2>1, <3>1 DEF Past, PastCheck, InForce
    <2>3. CASE CheckMode(h)
      <3>1. /\ pc[h] = "mode" /\ pc'[h] = IF whitelistMode THEN "eligible" ELSE "muted"
        BY <2>3 DEF CheckMode, Proceed, Goto
      <3> QED
        BY <1>4, <2>1, <3>1 DEF Past, PastCheck, InForce, Bars
    <2>4. CASE CheckEligible(h)
      <3>1. pc[h] = "eligible" /\ Eligible(job[h].server) /\ pc'[h] = "muted"
        BY <1>4, <2>4 DEF CheckEligible, Return, Proceed, Goto
      <3> QED
        BY <1>4, <2>1, <3>1 DEF Past, PastCheck, InForce, Bars
    <2>5. CASE CheckMuted(h)
      <3>1. pc[h] = "muted" /\ ~IsMuted(job[h].server, job[h].user) /\ pc'[h] = "acquire"
        BY <1>4, <2>5 DEF CheckMuted, Return, Proceed, Goto
      <3> QED
        BY <1>4, <2>1, <3>1 DEF Past, PastCheck, InForce, Bars
    <2>6. CASE Acquire(h)
      <3>1. pc[h] = "acquire" /\ pc'[h] = "forward"
        BY <1>4, <2>6 DEF Acquire, Proceed, Goto
      <3> QED
        BY <1>4, <2>1, <3>1 DEF Past, PastCheck, InForce, Bars
    <2> QED
      BY <2>2, <2>3, <2>4, <2>5, <2>6
  <1>5. CASE pc'[h] \notin {"idle", "refuse"}
    <2>1. \A q \in Handlers, s \in Servers, u \in Users, bar \in Bars :
              Past(q, s, u, bar)' => Past(q, s, u, bar) \/ ~InForce(s, u, bar)
      <3> SUFFICES ASSUME NEW q \in Handlers, NEW s \in Servers, NEW u \in Users, NEW bar \in Bars,
                          Past(q, s, u, bar)'
                   PROVE  Past(q, s, u, bar) \/ ~InForce(s, u, bar)
        OBVIOUS
      <3>1. CASE q = h
        BY <1>4, <1>5, <3>1
      <3>2. CASE q # h
        BY <1>2, <3>2 DEF Past
      <3> QED
        BY <3>1, <3>2
    <2>2. \A s \in Servers, u \in Users, bar \in Bars : InForce(s, u, bar) => InForce(s, u, bar)'
      BY <1>1 DEF InForce, IsBlacklisted, IsMuted, Eligible
    <2>3. late' = late
      BY <1>1
    <2> QED
      BY <2>1, <2>2, <2>3 DEF Fair
  <1> QED
    BY <1>3, <1>5

\* The push that is forwarded: the handler is past each bar it was not blind to.
LEMMA ForwardCounts ==
    ASSUME PushTypeOK, LateOnce, NEW h \in Handlers, Forward(h)
    PROVE  LateOnce'
  <1> DEFINE s == job[h].server
             u == job[h].user
             old == late[h][s][u]
             new == [bar \in Bars |-> IF InForce(s, u, bar) /\ bar \notin job[h].blind
                                      THEN old[bar] + 1 ELSE old[bar]]
  <1> USE DEF tables, memory, history
  <1>1. /\ pc[h] = "forward" /\ late' = [late EXCEPT ![h][s][u] = new]
        /\ pc' = [pc EXCEPT ![h] = "idle"] /\ job' = [job EXCEPT ![h] = NoJob]
        /\ UNCHANGED <<whitelist, blacklist, mute, whitelistMode>>
    BY DEF Forward, Return, Goto
  <1>2. s \in Servers /\ u \in Users
    BY <1>1 DEF PushTypeOK, HandlersOK, PushSteps
  <1>3. \A t \in Servers, v \in Users, bar \in Bars : InForce(t, v, bar)' = InForce(t, v, bar)
    BY <1>1 DEF InForce, IsBlacklisted, IsMuted, Eligible
  <1>4. ASSUME NEW q \in Handlers, NEW t \in Servers, NEW v \in Users, NEW bar \in Bars
        PROVE  Past(q, t, v, bar)' => Past(q, t, v, bar) /\ q # h
    <2>1. "idle" \notin PastCheck(bar)
      BY DEF PastCheck
    <2>2. pc'[h] = "idle" /\ (q # h => pc'[q] = pc[q] /\ job'[q] = job[q])
      BY <1>1 DEF PushTypeOK, HandlersOK
    <2> QED
      BY <2>1, <2>2 DEF Past
  <1>5. \A bar \in Bars : bar \notin job[h].blind => Past(h, s, u, bar)
    BY <1>1, <1>2 DEF Past, PastCheck
  <1>6. \A bar \in Bars : \/ new[bar] = old[bar]
                          \/ old[bar] = 0 /\ new[bar] = 1 /\ InForce(s, u, bar)
    <2> SUFFICES ASSUME NEW bar \in Bars, InForce(s, u, bar), bar \notin job[h].blind
                 PROVE  old[bar] = 0 /\ new[bar] = 1
      OBVIOUS
    <2>1. old[bar] = 0
      BY <1>2, <1>5 DEF LateOnce
    <2> QED
      BY <2>1
  <1> HIDE DEF new
  <1>7. \A q \in Handlers, t \in Servers, v \in Users, bar \in Bars :
            late'[q][t][v][bar] = IF q = h /\ t = s /\ v = u THEN new[bar] ELSE late[q][t][v][bar]
    BY <1>1, <1>2 DEF PushTypeOK
  <1> HIDE DEF s, u
  <1>8. ASSUME NEW q \in Handlers, NEW t \in Servers, NEW v \in Users, NEW bar \in Bars
        PROVE  \/ late'[q][t][v][bar] = 0
               \/ late'[q][t][v][bar] = 1 /\ InForce(t, v, bar)' /\ ~Past(q, t, v, bar)'
    <2>1. CASE late'[q][t][v][bar] = late[q][t][v][bar]
      BY <1>3, <1>4, <2>1 DEF LateOnce
    <2>2. CASE q = h /\ t = s /\ v = u /\ new[bar] = 1 /\ InForce(s, u, bar)
      BY <1>3, <1>4, <1>7, <2>2
    <2> QED
      BY <1>6, <1>7, <2>1, <2>2
  <1> QED
    BY <1>8 DEF LateOnce

LEMMA StatementFailsIsFair ==
    ASSUME PushTypeOK, NEW h \in Handlers, StatementFails(h)
    PROVE  Fair
  <1> USE DEF tables, memory, history
  <1>1. /\ UNCHANGED <<whitelist, blacklist, mute, whitelistMode, late>>
        /\ \A q \in Handlers \ {h} : pc'[q] = pc[q] /\ job'[q] = job[q]
    BY DEF StatementFails, Return, Proceed, Goto, PushTypeOK, HandlersOK
  <1>2. CASE pc[h] \notin {"blacklisted", "muted"}
    <2>1. pc'[h] \in {"idle", "health", "approve", "write"}
      BY <1>2 DEF StatementFails, Return, Proceed, Goto, PushTypeOK, HandlersOK
    <2> QED
      BY <1>1, <2>1, AwayIsFair
  <1>3. CASE pc[h] \in {"blacklisted", "muted"}
    <2> DEFINE bar == IF pc[h] = "muted" THEN "mute" ELSE "blacklist"
    <2>1. /\ job' = [job EXCEPT ![h].blind = @ \cup {bar}]
          /\ pc' = [pc EXCEPT ![h] = IF pc[h] = "muted" THEN "acquire" ELSE "mode"]
      BY <1>3 DEF StatementFails, Goto
    <2>2. /\ job[h] \in Job
          /\ job'[h].server = job[h].server /\ job'[h].user = job[h].user
          /\ job'[h].blind = job[h].blind \cup {bar}
          /\ pc'[h] = IF pc[h] = "muted" THEN "acquire" ELSE "mode"
      BY <2>1 DEF PushTypeOK, HandlersOK, Job
    <2>3. \A s \in Servers, u \in Users, b \in Bars : Past(h, s, u, b)' => Past(h, s, u, b)
      BY <1>3, <2>2 DEF Past, PastCheck, Bars
    <2>4. \A q \in Handlers, s \in Servers, u \in Users, b \in Bars :
              Past(q, s, u, b)' => Past(q, s, u, b)
      BY <1>1, <2>3 DEF Past
    <2> QED
      BY <1>1, <2>4, IdleIsFair
  <1> QED
    BY <1>2, <1>3

\* The other steps of handlers leave a push or have none.
LEMMA OthersAreFair ==
    ASSUME PushTypeOK, NEW h \in Handlers,
           Submit(h) \/ RecordViolation(h) \/ CountViolations(h) \/ Register(h)
    PROVE  Fair
  <1> USE DEF tables, memory, history
  <1>1. /\ UNCHANGED <<whitelist, blacklist, mute, whitelistMode, late>> \/ Recount
        /\ pc'[h] \notin {"mode", "eligible", "muted", "acquire", "forward"}
        /\ \A q \in Handlers \ {h} : pc'[q] = pc[q] /\ job'[q] = job[q]
    <2>1. CASE Submit(h)
      BY <2>1 DEF Submit, Request, First, Goto, PushTypeOK, HandlersOK
    <2>2. CASE RecordViolation(h) \/ CountViolations(h)
      BY <2>2 DEF RecordViolation, CountViolations, Return, Proceed, Goto, PushTypeOK, HandlersOK
    <2>3. CASE Register(h)
      BY <2>3 DEF Register, ApplyCooldown, ApplyHealth, ApplyFile, ApproveList, Approve, RejectCool,
                  Reject, Add, AddWarm, Vet, Find, WriteEntry, Return, Proceed, Goto, PushTypeOK,
                  HandlersOK
    <2> QED
      BY <2>1, <2>2, <2>3
  <1> QED
    BY <1>1, AwayIsFair

LEMMA TripIsFair ==
    ASSUME PushTypeOK, (\E h \in Handlers : Trip(h)) \/ (\E s \in Servers : Ban(s))
    PROVE  Fair
  <1> USE DEF tables, memory, history
  <1>1. /\ UNCHANGED <<whitelist, mute, whitelistMode, late>> /\ blacklist \subseteq blacklist'
    BY DEF Trip, Ban, AddBlacklist
  <1>2. \A h \in Handlers : pc'[h] = "idle" \/ (pc'[h] = pc[h] /\ job'[h] = job[h])
    BY DEF Trip, Ban, Return, Goto, PushTypeOK, HandlersOK
  <1>3. \A h \in Handlers, s \in Servers, u \in Users, bar \in Bars :
            Past(h, s, u, bar)' => Past(h, s, u, bar)
    BY <1>2 DEF Past, PastCheck
  <1> QED
    BY <1>1, <1>3 DEF Fair, InForce, IsBlacklisted, IsMuted, Eligible

LEMMA RestIsFair ==
    ASSUME PushTypeOK,
           (Administer /\ ~\E s \in Servers : Ban(s)) \/ MonitorStep \/ MonitorFails \/ Restart
    PROVE  Fair
  <1> USE DEF tables, memory, history
  <1>1. UNCHANGED <<whitelist, blacklist, mute, whitelistMode, late>> \/ Recount
    BY DEF Administer, Pardon, Delist, CooldownEnds, Flip, SetMute, SetMode, MonitorStep, MonitorList,
           MonitorProbe, MonitorPause, MonitorDirectory, MonitorLook, MonitorPublish, MonitorFails,
           Restart
  <1>2. UNCHANGED <<pc, job>> \/ \A h \in Handlers : pc'[h] = "idle"
    BY DEF Administer, Pardon, Delist, CooldownEnds, Flip, SetMute, SetMode, MonitorStep, MonitorList,
           MonitorProbe, MonitorPause, MonitorDirectory, MonitorLook, MonitorPublish, MonitorFails,
           Restart
  <1>3. \A h \in Handlers, s \in Servers, u \in Users, bar \in Bars :
            Past(h, s, u, bar)' => Past(h, s, u, bar)
    BY <1>2 DEF Past, PastCheck
  <1> QED
    BY <1>1, <1>3, IdleIsFair

LEMMA InitLateOnce == PushInit => LateOnce
  BY DEF PushInit, LateOnce

LEMMA NextLateOnce == PushTypeOK /\ LateOnce /\ [PushNext]_pushVars => LateOnce'
  <1> SUFFICES ASSUME PushTypeOK, LateOnce, [PushNext]_pushVars PROVE LateOnce'
    OBVIOUS
  <1>1. CASE UNCHANGED pushVars
    <2>1. /\ UNCHANGED <<whitelist, blacklist, mute, whitelistMode, late>>
          /\ UNCHANGED <<pc, job>>
      BY <1>1 DEF pushVars, tables, memory, history
    <2>2. Fair
      BY <2>1, IdleIsFair DEF Past
    <2> QED
      BY <2>2, FairKeepsLate
  <1>2. CASE \E h \in Handlers : Forward(h)
    BY <1>2, ForwardCounts
  <1>3. CASE PushNext /\ ~\E h \in Handlers : Forward(h)
    <2>1. Fair
      BY <1>3, CheckIsFair, StatementFailsIsFair, OthersAreFair, TripIsFair, RestIsFair
      DEF PushNext, PushRun, PushFail, Push
    <2> QED
      BY <2>1, FairKeepsLate
  <1> QED
    BY <1>1, <1>2, <1>3

\* A blacklisted, unlisted or muted server gets at most the pushes through that
\* were being served when it was barred: one per handler.
THEOREM BarredSoon == PushSpec => []BarsHold
  <1>1. LateOnce => BarsHold
    BY DEF LateOnce, BarsHold
  <1> QED
    BY <1>1, PushTypeCorrect, InitLateOnce, NextLateOnce, PTL DEF PushSpec

-----------------------------------------------------------------------------
(* The circuit breaker *)

\* Steps that refuse nothing, take nobody off the blacklist and leave the
\* handlers alone that are about to count or to trip.
LEMMA QuietKeepsBreaker ==
    ASSUME BreakerTrips, violations' = violations,
           blacklist \cup excused \subseteq (blacklist \cup excused)',
           \A q \in Handlers : pc[q] \in {"count", "trip"} => pc'[q] = pc[q] /\ job'[q] = job[q]
    PROVE  BreakerTrips'
  BY DEF BreakerTrips

\* A handler that serves another step meanwhile.
LEMMA ElsewhereKeepsBreaker ==
    ASSUME BreakerTrips, UNCHANGED <<violations, blacklist, excused>>,
           NEW h \in Handlers, pc[h] \notin {"count", "trip"},
           \A q \in Handlers \ {h} : pc'[q] = pc[q] /\ job'[q] = job[q]
    PROVE  BreakerTrips'
  BY QuietKeepsBreaker

\* A refusal: the handler that recorded it goes on to count.
LEMMA RefusalKeepsBreaker ==
    ASSUME PushTypeOK, BreakerTrips, NEW h \in Handlers, RecordViolation(h)
    PROVE  BreakerTrips'
  <1> USE DEF tables, memory, history
  <1>1. /\ pc'[h] = "count" /\ job' = job /\ UNCHANGED <<blacklist, excused>>
        /\ \A q \in Handlers \ {h} : pc'[q] = pc[q]
    BY DEF RecordViolation, Proceed, Goto, PushTypeOK, HandlersOK
  <1>2. pc[h] = "refuse" /\ \A s \in Servers \ {job[h].server} : violations'[s] = violations[s]
    BY DEF RecordViolation, PushTypeOK
  <1> SUFFICES ASSUME NEW s \in Servers, violations'[s] >= Threshold
               PROVE  \/ s \in (blacklist \cup excused)'
                      \/ \E q \in Handlers : pc'[q] \in {"count", "trip"} /\ job'[q].server = s
    BY DEF BreakerTrips
  <1>3. CASE s = job[h].server
    BY <1>1, <1>3
  <1>4. CASE s # job[h].server
    BY <1>1, <1>2, <1>4 DEF BreakerTrips
  <1> QED
    BY <1>3, <1>4

\* The count: a handler leaves only when it finds too few refusals.
LEMMA CountKeepsBreaker ==
    ASSUME PushTypeOK, BreakerTrips, NEW h \in Handlers, CountViolations(h)
    PROVE  BreakerTrips'
  <1> USE DEF tables, memory, history
  <1>1. /\ UNCHANGED <<violations, blacklist, excused>>
        /\ \A q \in Handlers \ {h} : pc'[q] = pc[q] /\ job'[q] = job[q]
        /\ pc[h] = "count"
        /\ violations[job[h].server] >= Threshold => pc'[h] = "trip" /\ job'[h] = job[h]
    BY DEF CountViolations, Return, Proceed, Goto, PushTypeOK, HandlersOK
  <1> SUFFICES ASSUME NEW s \in Servers, violations[s] >= Threshold, s \notin blacklist \cup excused
               PROVE  \E q \in Handlers : pc'[q] \in {"count", "trip"} /\ job'[q].server = s
    BY <1>1 DEF BreakerTrips
  <1>2. PICK q \in Handlers : pc[q] \in {"count", "trip"} /\ job[q].server = s
    BY DEF BreakerTrips
  <1> QED
    BY <1>1, <1>2

\* A handler about to trip the breaker does so, or its entry could not be written.
LEMMA TripKeepsBreaker ==
    ASSUME PushTypeOK, BreakerTrips, NEW h \in Handlers,
           Trip(h) \/ (StatementFails(h) /\ pc[h] = "trip")
    PROVE  BreakerTrips'
  <1> USE DEF tables, memory, history
  <1>1. /\ violations' = violations
        /\ (blacklist \cup excused)' = blacklist \cup excused \cup {job[h].server}
        /\ \A q \in Handlers \ {h} : pc'[q] = pc[q] /\ job'[q] = job[q]
    BY DEF Trip, StatementFails, AddBlacklist, Return, Goto, PushTypeOK, HandlersOK
  <1> QED
    BY <1>1 DEF BreakerTrips

LEMMA InitBreaker == PushInit => BreakerTrips
  BY PushServiceAssumption DEF PushInit, BreakerTrips

LEMMA NextBreaker == PushTypeOK /\ BreakerTrips /\ [PushNext]_pushVars => BreakerTrips'
  <1> SUFFICES ASSUME PushTypeOK, BreakerTrips, [PushNext]_pushVars PROVE BreakerTrips'
    OBVIOUS
  <1> USE DEF tables, memory, history
  <1>1. ASSUME NEW h \in Handlers,
               Submit(h) \/ CheckBlacklist(h) \/ CheckMode(h) \/ CheckEligible(h) \/ CheckMuted(h)
               \/ Acquire(h) \/ Forward(h)
        PROVE  BreakerTrips'
    <2>1. /\ UNCHANGED <<violations, blacklist, excused>> /\ pc[h] \notin {"count", "trip"}
          /\ \A q \in Handlers \ {h} : pc'[q] = pc[q] /\ job'[q] = job[q]
      BY <1>1 DEF Submit, Request, CheckBlacklist, CheckMode, CheckEligible, CheckMuted, Acquire,
                  Forward, Return, Proceed, Goto, PushTypeOK, HandlersOK
    <2> QED
      BY <2>1, ElsewhereKeepsBreaker
  <1>2. ASSUME NEW h \in Handlers, Register(h) PROVE BreakerTrips'
    <2>1. /\ UNCHANGED <<violations, blacklist, excused>> /\ pc[h] \notin {"count", "trip"}
          /\ \A q \in Handlers \ {h} : pc'[q] = pc[q] /\ job'[q] = job[q]
      BY <1>2 DEF Register, ApplyCooldown, ApplyHealth, ApplyFile, ApproveList, Approve, RejectCool,
                  Reject, Add, AddWarm, Vet, Find, WriteEntry, Return, Proceed, Goto, PushTypeOK,
                  HandlersOK
    <2> QED
      BY <2>1, ElsewhereKeepsBreaker
  <1>3. ASSUME NEW h \in Handlers, StatementFails(h), pc[h] # "trip" PROVE BreakerTrips'
    <2>1. /\ UNCHANGED <<violations, blacklist, excused>> /\ pc[h] \notin {"count", "trip"}
          /\ \A q \in Handlers \ {h} : pc'[q] = pc[q] /\ job'[q] = job[q]
      BY <1>3 DEF StatementFails, Return, Proceed, Goto, PushTypeOK, HandlersOK
    <2> QED
      BY <2>1, ElsewhereKeepsBreaker
  <1>4. CASE Administer \/ MonitorStep \/ MonitorFails \/ UNCHANGED pushVars
    <2>1. /\ violations' = violations /\ UNCHANGED <<pc, job>>
          /\ blacklist \cup excused \subseteq (blacklist \cup excused)'
      BY <1>4 DEF pushVars, Administer, Ban, Pardon, Delist, CooldownEnds, Flip, SetMute, SetMode,
                  AddBlacklist, MonitorStep, MonitorList, MonitorProbe, MonitorPause,
                  MonitorDirectory, MonitorLook, MonitorPublish, MonitorFails
    <2> QED
      BY <2>1, QuietKeepsBreaker
  <1>5. CASE Restart
    BY <1>5, PushServiceAssumption DEF Restart, BreakerTrips
  <1> QED
    BY <1>1, <1>2, <1>3, <1>4, <1>5, RefusalKeepsBreaker, CountKeepsBreaker, TripKeepsBreaker
    DEF PushNext, PushRun, PushFail, Push

\* No refusal is lost between the two locks of record_violation and
\* violation_count: at the threshold somebody trips the breaker.
THEOREM BreakerAlwaysTrips == PushSpec => []BreakerTrips
  BY PushTypeCorrect, InitBreaker, NextBreaker, PTL DEF PushSpec

-----------------------------------------------------------------------------
(* Approvals *)

\* An approval that nothing has overtaken holds the health_url that the row has.
UrlsFresh ==
    \A h \in Handlers :
        pc[h] = "approve" /\ h \notin overtaken /\ "list" \notin job[h].blind
            => job[h].url = whitelist[job[h].server].url

\* What a whole row that is written does to the table.
LEMMA WriteRowEffect ==
    ASSUME PushTypeOK, NEW h \in Handlers, pc[h] # "idle", NEW row \in Row, WriteRow(h, row)
    PROVE  /\ whitelist'[job[h].server] = row
           /\ \A s \in Servers \ {job[h].server} : whitelist'[s] = whitelist[s]
           /\ \A g \in Handlers \ {h} : pc[g] = "approve" /\ g \notin overtaken'
                  => g \notin overtaken /\ job[g].server # job[h].server
  BY DEF PushTypeOK, HandlersOK, WriteRow

\* The four writers of a row.
LEMMA Writers ==
    ASSUME PushTypeOK, NEW h \in Handlers, ApplyFile(h) \/ Approve(h) \/ Reject(h) \/ Add(h)
    PROVE  /\ pc[h] # "idle" /\ pc'[h] \in {"idle", "warm"}
           /\ \A g \in Handlers \ {h} : pc'[g] = pc[g] /\ job'[g] = job[g]
           /\ \E row \in Row : /\ WriteRow(h, row)
                               /\ row.approved => pc[h] \in {"approve", "add"}
                               /\ pc[h] = "approve" => row.url = job[h].url
  <1>1. job[h].url \in BOOLEAN
    BY DEF PushTypeOK, HandlersOK, Job
  <1>2. /\ pc[h] # "idle" /\ pc'[h] \in {"idle", "warm"}
        /\ \A g \in Handlers \ {h} : pc'[g] = pc[g] /\ job'[g] = job[g]
    BY DEF ApplyFile, Approve, Reject, Add, Return, Proceed, Goto, PushTypeOK, HandlersOK
  <1>3. \E row \in Row : /\ WriteRow(h, row)
                         /\ row.approved => pc[h] \in {"approve", "add"}
                         /\ pc[h] = "approve" => row.url = job[h].url
    <2>1. [approved |-> FALSE, url |-> TRUE, paused |-> FALSE] \in Row
      BY DEF Row
    <2>2. [approved |-> TRUE, url |-> job[h].url, paused |-> FALSE] \in Row
      BY <1>1 DEF Row
    <2>3. Unlisted \in Row /\ ~Unlisted.approved
      BY DEF Row, Unlisted
    <2>4. CASE ApplyFile(h)
      BY <2>1, <2>4 DEF ApplyFile
    <2>5. CASE Reject(h)
      BY <2>3, <2>5 DEF Reject
    <2>6. CASE Approve(h)
      BY <2>2, <2>6 DEF Approve
    <2>7. CASE Add(h)
      BY <2>2, <2>7 DEF Add
    <2> QED
      BY <2>4, <2>5, <2>6, <2>7
  <1> QED
    BY <1>2, <1>3

\* Every other step leaves the table alone; only the monitor writes a pause into
\* a row.
LEMMA OthersLeaveRows ==
    ASSUME PushTypeOK, [PushNext]_pushVars,
           ~\E h \in Handlers : ApplyFile(h) \/ Approve(h) \/ Reject(h) \/ Add(h)
    PROVE  /\ whitelist' # whitelist => MonitorPause
           /\ \A s \in Servers : /\ whitelist'[s].approved = whitelist[s].approved
                                 /\ whitelist'[s].url = whitelist[s].url
  <1> USE DEF tables, memory, history
  <1>1. ASSUME NEW h \in Handlers, Submit(h) \/ Push(h) \/ StatementFails(h)
        PROVE  whitelist' = whitelist
    BY <1>1 DEF Submit, Request, Push, CheckBlacklist, CheckMode, CheckEligible, CheckMuted, Acquire,
                RecordViolation, CountViolations, Trip, Forward, StatementFails
  <1>2. ASSUME NEW h \in Handlers, Register(h) PROVE whitelist' = whitelist
    BY <1>2 DEF Register, ApplyCooldown, ApplyHealth, ApproveList, RejectCool, AddWarm, Vet, Find,
                WriteEntry
  <1>3. CASE Administer \/ MonitorFails \/ Restart \/ UNCHANGED pushVars \/ (MonitorStep /\ ~MonitorPause)
    BY <1>3 DEF pushVars, Administer, Ban, Pardon, Delist, CooldownEnds, Flip, SetMute, SetMode,
                MonitorStep, MonitorList, MonitorProbe, MonitorDirectory, MonitorLook,
                MonitorPublish, MonitorFails, Restart
  <1>4. whitelist' = whitelist \/ MonitorPause
    BY <1>1, <1>2, <1>3 DEF PushNext, PushRun, PushFail
  <1>5. CASE MonitorPause
    <2>1. monitor.server \in Servers /\ monitor.pause \in BOOLEAN
      BY <1>5 DEF MonitorPause, PushTypeOK, MonitorOK
    <2> QED
      BY <1>5, <2>1 DEF MonitorPause, PushTypeOK, Row
  <1> QED
    BY <1>4, <1>5

\* How an approval in flight came to be what it is.
LEMMA ApproveStays ==
    ASSUME PushTypeOK, [PushNext]_pushVars, NEW h \in Handlers, pc'[h] = "approve",
           ~\E g \in Handlers : ApplyFile(g) \/ Approve(g) \/ Reject(g) \/ Add(g)
    PROVE  \/ ApproveList(h)
           \/ "list" \in job'[h].blind
           \/ /\ pc[h] = "approve" /\ job'[h] = job[h]
              /\ h \in overtaken => h \in overtaken'
  <1> USE DEF tables, memory, history
  <1>1. ASSUME NEW g \in Handlers, Submit(g) \/ Push(g)
        PROVE  pc[h] = "approve" /\ job'[h] = job[h] /\ overtaken' = overtaken
    <2>1. pc'[g] # "approve" /\ overtaken' = overtaken
      BY <1>1 DEF Submit, Request, First, Push, CheckBlacklist, CheckMode, CheckEligible, CheckMuted,
                  Acquire, RecordViolation, CountViolations, Trip, Forward, Return, Proceed, Goto,
                  PushTypeOK, HandlersOK
    <2>2. \A q \in Handlers \ {g} : pc'[q] = pc[q] /\ job'[q] = job[q]
      BY <1>1 DEF Submit, Request, Push, CheckBlacklist, CheckMode, CheckEligible, CheckMuted,
                  Acquire, RecordViolation, CountViolations, Trip, Forward, Return, Proceed, Goto,
                  PushTypeOK, HandlersOK
    <2> QED
      BY <2>1, <2>2
  <1>2. ASSUME NEW g \in Handlers, Register(g), ~ApproveList(g)
        PROVE  pc[h] = "approve" /\ job'[h] = job[h] /\ overtaken' = overtaken
    <2>1. pc'[g] # "approve" /\ overtaken' = overtaken
      BY <1>2 DEF Register, ApplyCooldown, ApplyHealth, RejectCool, AddWarm, Vet, Find, WriteEntry,
                  Return, Proceed, Goto, PushTypeOK, HandlersOK
    <2>2. \A q \in Handlers \ {g} : pc'[q] = pc[q] /\ job'[q] = job[q]
      BY <1>2 DEF Register, ApplyCooldown, ApplyHealth, RejectCool, AddWarm, Vet, Find, WriteEntry,
                  Return, Proceed, Goto, PushTypeOK, HandlersOK
    <2> QED
      BY <2>1, <2>2
  <1>3. ASSUME NEW g \in Handlers, ApproveList(g), g # h
        PROVE  pc[h] = "approve" /\ job'[h] = job[h] /\ (h \in overtaken => h \in overtaken')
    BY <1>3 DEF ApproveList, Goto, PushTypeOK, HandlersOK
  <1>4. ASSUME NEW g \in Handlers, StatementFails(g)
        PROVE  \/ "list" \in job'[h].blind
               \/ pc[h] = "approve" /\ job'[h] = job[h] /\ overtaken' = overtaken
    <2>1. overtaken' = overtaken /\ \A q \in Handlers \ {g} : pc'[q] = pc[q] /\ job'[q] = job[q]
      BY <1>4 DEF StatementFails, Return, Proceed, Goto, PushTypeOK, HandlersOK
    <2>2. CASE g # h
      BY <2>1, <2>2
    <2>3. CASE g = h
      <3>1. pc[h] = "list"
        BY <1>4, <2>3 DEF StatementFails, Return, Proceed, Goto, PushTypeOK, HandlersOK
      <3>2. job' = [job EXCEPT ![h].blind = {"list"}] /\ job[h] \in Job
        BY <1>4, <2>3, <3>1 DEF StatementFails, PushTypeOK, HandlersOK
      <3>3. job'[h].blind = {"list"}
        BY <3>2 DEF Job, PushTypeOK, HandlersOK
      <3> QED
        BY <3>3
    <2> QED
      BY <2>2, <2>3
  <1>5. CASE Administer \/ MonitorStep \/ MonitorFails \/ UNCHANGED pushVars
    <2>1. UNCHANGED <<pc, job, overtaken>>
      BY <1>5 DEF pushVars, Administer, Ban, Pardon, Delist, CooldownEnds, Flip, SetMute, SetMode,
                  MonitorStep, MonitorList, MonitorProbe, MonitorPause, MonitorDirectory,
                  MonitorLook, MonitorPublish, MonitorFails
    <2> QED
      BY <2>1
  <1>6. CASE Restart
    BY <1>6 DEF Restart
  <1> QED
    BY <1>1, <1>2, <1>3, <1>4, <1>5, <1>6 DEF PushNext, PushRun, PushFail, Register

LEMMA InitUrls == PushInit => UrlsFresh
  BY DEF PushInit, UrlsFresh

LEMMA NextUrls == PushTypeOK /\ UrlsFresh /\ [PushNext]_pushVars => UrlsFresh'
  <1> SUFFICES ASSUME PushTypeOK, UrlsFresh, [PushNext]_pushVars, NEW h \in Handlers,
                      pc'[h] = "approve", h \notin overtaken', "list" \notin job'[h].blind
               PROVE  job'[h].url = whitelist'[job'[h].server].url
    BY DEF UrlsFresh
  <1>1. job[h].server \in Servers \/ pc[h] = "idle"
    BY DEF PushTypeOK, HandlersOK
  <1>2. ASSUME NEW g \in Handlers, ApplyFile(g) \/ Approve(g) \/ Reject(g) \/ Add(g)
        PROVE  job'[h].url = whitelist'[job'[h].server].url
    <2>1. g # h /\ pc[g] # "idle" /\ pc[h] = "approve" /\ job'[h] = job[h]
      BY <1>2, Writers
    <2>2. PICK row \in Row : WriteRow(g, row)
      BY <1>2, Writers
    <2>3. h \notin overtaken /\ job[h].server # job[g].server
      BY <2>1, <2>2, WriteRowEffect
    <2>4. whitelist'[job[h].server] = whitelist[job[h].server]
      BY <1>1, <2>1, <2>2, <2>3, WriteRowEffect
    <2> QED
      BY <2>1, <2>3, <2>4 DEF UrlsFresh
  <1>3. CASE ~\E g \in Handlers : ApplyFile(g) \/ Approve(g) \/ Reject(g) \/ Add(g)
    <2>1. CASE ApproveList(h)
      <3> DEFINE new == [job[h] EXCEPT !.url = whitelist[job[h].server].url]
      <3>1. job[h] \in Job /\ job' = [job EXCEPT ![h] = new] /\ whitelist' = whitelist
        BY <2>1 DEF ApproveList, PushTypeOK, HandlersOK, tables
      <3>2. job'[h] = new
        BY <3>1 DEF PushTypeOK, HandlersOK
      <3>3. new.url = whitelist[job[h].server].url /\ new.server = job[h].server
        BY <3>1 DEF Job
      <3> HIDE DEF new
      <3> QED
        BY <3>1, <3>2, <3>3
    <2>2. CASE /\ pc[h] = "approve" /\ job'[h] = job[h]
               /\ h \in overtaken => h \in overtaken'
      <3>1. whitelist'[job[h].server].url = whitelist[job[h].server].url
        BY <1>1, <1>3, <2>2, OthersLeaveRows
      <3> QED
        BY <2>2, <3>1 DEF UrlsFresh
    <2> QED
      BY <1>3, <2>1, <2>2, ApproveStays
  <1> QED
    BY <1>2, <1>3

\* An application files a server without its approval, and the monitor writes
\* its pauses only: both go by what they read earlier and let nobody in.
THEOREM OnlyOperators == PushSpec => OnlyOperatorApproves
  <1>1. ASSUME PushTypeOK, [PushNext]_pushVars, NEW s \in Servers, whitelist'[s].approved, ~whitelist[s].approved
        PROVE  \E h \in Handlers : job[h].server = s /\ pc[h] \in {"approve", "add"}
    <2>1. PICK h \in Handlers : ApplyFile(h) \/ Approve(h) \/ Reject(h) \/ Add(h)
      BY <1>1, OthersLeaveRows
    <2>2. PICK row \in Row : WriteRow(h, row) /\ (row.approved => pc[h] \in {"approve", "add"})
      BY <1>1, <2>1, Writers
    <2>3. pc[h] # "idle"
      BY <1>1, <2>1, Writers
    <2>4. s = job[h].server /\ row.approved
      BY <1>1, <2>2, <2>3, WriteRowEffect
    <2> QED
      BY <2>2, <2>4
  <1>2. PushTypeOK /\ [PushNext]_pushVars =>
            [\A s \in Servers : whitelist'[s].approved /\ ~whitelist[s].approved =>
                 \E h \in Handlers : job[h].server = s /\ pc[h] \in {"approve", "add"}]_pushVars
    BY <1>1
  <1> QED
    BY <1>2, PushTypeCorrect, PTL DEF PushSpec, OnlyOperatorApproves

\* An approval writes back the health_url that it read, and whoever wrote the
\* row since it was read has overtaken it.
THEOREM UrlsKept == PushSpec => ApprovalKeepsUrl
  <1>1. ASSUME PushTypeOK, UrlsFresh, [PushNext]_pushVars, NEW h \in Handlers,
               pc[h] = "approve", whitelist' # whitelist, pc'[h] = "idle",
               h \notin overtaken, "list" \notin job[h].blind
        PROVE  whitelist'[job[h].server].url = whitelist[job[h].server].url
    <2>1. job[h].server \in Servers
      BY <1>1 DEF PushTypeOK, HandlersOK
    <2>2. CASE ~\E g \in Handlers : ApplyFile(g) \/ Approve(g) \/ Reject(g) \/ Add(g)
      BY <1>1, <2>1, <2>2, OthersLeaveRows
    <2>3. ASSUME NEW g \in Handlers, ApplyFile(g) \/ Approve(g) \/ Reject(g) \/ Add(g)
          PROVE  whitelist'[job[h].server].url = whitelist[job[h].server].url
      <3>1. g = h
        BY <1>1, <2>3, Writers
      <3>2. PICK row \in Row : WriteRow(h, row) /\ row.url = job[h].url
        BY <1>1, <2>3, <3>1, Writers
      <3>3. whitelist'[job[h].server] = row
        BY <1>1, <3>2, WriteRowEffect
      <3> QED
        BY <1>1, <3>2, <3>3 DEF UrlsFresh
    <2> QED
      BY <2>2, <2>3
  <1>2. PushTypeOK /\ UrlsFresh /\ [PushNext]_pushVars =>
            [\A h \in Handlers :
                 pc[h] = "approve" /\ whitelist' # whitelist /\ pc'[h] = "idle"
                     /\ h \notin overtaken /\ "list" \notin job[h].blind
                 => whitelist'[job[h].server].url = whitelist[job[h].server].url]_pushVars
    BY <1>1
  <1>3. PushSpec => []UrlsFresh
    BY PushTypeCorrect, InitUrls, NextUrls, PTL DEF PushSpec
  <1> QED
    BY <1>2, <1>3, PushTypeCorrect, PTL DEF PushSpec, ApprovalKeepsUrl

-----------------------------------------------------------------------------
(* The token bucket: what an attempt finds in a bucket stands in for the tokens *)
(* that are still to come.  Together with those that were granted it never      *)
(* exceeds a full bucket and the allowance.                                     *)

\* What was granted, and what an attempt at the present rate would find.
Covered ==
    \A k \in Keys : Unit * granted[k] + Refilled(k, rate) <= CapacityAt(rate) + allowance

LimiterInv == LimiterTypeOK /\ Covered

-----------------------------------------------------------------------------
(* Arithmetic *)

\* Products of naturals are naturals.
LEMMA ProductNat == ASSUME NEW a \in Nat, NEW b \in Nat PROVE a * b \in Nat
  OBVIOUS

\* A sum is multiplied term by term.
LEMMA ProductSum ==
    ASSUME NEW a \in Nat, NEW b \in Nat, NEW c \in Nat
    PROVE  (a + b) * c = a * c + b * c
  OBVIOUS

\* One more granted costs one unit.
LEMMA ProductNext == ASSUME NEW a \in Nat, NEW n \in Nat PROVE a * (n + 1) = a * n + a
  OBVIOUS

\* A full bucket holds a token at least.
LEMMA CapacityNat == ASSUME NEW r \in Nat PROVE CapacityAt(r) \in Nat /\ CapacityAt(r) >= Unit
<1> DEFINE top == Larger(Larger(InitialRate, 1), Larger(r, 1))
<1>1. top \in Nat /\ top >= 1
  BY RateLimiterAssumption DEF Larger
<1>2. PICK n \in Nat : top = n + 1
  BY <1>1
<1>3. Unit * top = Unit * n + Unit /\ Unit * n \in Nat
  BY <1>2, RateLimiterAssumption, ProductNext, ProductNat
<1> HIDE DEF top
<1>4. Unit * top \in Nat /\ Unit * top >= Unit
  BY <1>3, RateLimiterAssumption
<1> QED
  BY <1>4 DEF CapacityAt, top

\* What a bucket is refilled to (try_acquire): at most its capacity, and with no
\* waiting time what it holds.
LEMMA RefilledRange ==
    ASSUME LimiterTypeOK, NEW k \in Keys, NEW r \in Nat
    PROVE  Refilled(k, r) \in Nat /\ Refilled(k, r) <= CapacityAt(r)
<1>1. CapacityAt(r) \in Nat
  BY CapacityNat
<1>2. idle[k] * r \in Nat
  BY ProductNat DEF LimiterTypeOK
<1> QED
  BY <1>1, <1>2 DEF LimiterTypeOK, Refilled, Smaller

-----------------------------------------------------------------------------
\* A measured period that begins is covered.
LEMMA Begins ==
    ASSUME LimiterTypeOK', Measure PROVE Covered'
<1>1. rate' \in Nat
  BY RateLimiterAssumption DEF LimiterTypeOK, Known
<1> SUFFICES ASSUME NEW k \in Keys
             PROVE  (Unit * granted[k] + Refilled(k, rate) <= CapacityAt(rate) + allowance)'
  BY DEF Covered
<1>2. Refilled(k, rate)' \in Nat /\ Refilled(k, rate)' <= CapacityAt(rate)'
  <2>1. CapacityAt(rate') \in Nat
    BY <1>1, CapacityNat
  <2>2. (idle[k] * rate)' \in Nat
    BY <1>1, ProductNat DEF LimiterTypeOK
  <2> QED
    BY <2>1, <2>2 DEF LimiterTypeOK, Refilled, Smaller, CapacityAt
<1>3. Unit * granted'[k] = 0
  BY RateLimiterAssumption DEF Measure
<1> QED
  BY <1>2, <1>3, CapacityNat, <1>1 DEF Measure

\* The buckets are absent at the start.
LEMMA LimiterInvInit == LimiterInit => LimiterInv
<1> SUFFICES ASSUME LimiterInit PROVE LimiterInv
  OBVIOUS
<1>1. LimiterTypeOK
  BY DEF LimiterInit, LimiterTypeOK, Known
<1>2. Covered
  <2>1. CapacityAt(rate) \in Nat /\ Unit * 0 = 0
    BY RateLimiterAssumption, CapacityNat DEF LimiterInit
  <2>2. \A k \in Keys : Refilled(k, rate) = CapacityAt(rate) /\ granted[k] = 0
    BY DEF LimiterInit, Refilled
  <2> QED
    <3> DEFINE full == CapacityAt(rate)
    <3>1. full \in Nat /\ Unit * 0 = 0 /\ allowance = 0
      BY <2>1 DEF LimiterInit
    <3>2. \A k \in Keys : Unit * granted[k] + Refilled(k, rate) = Unit * 0 + full
      BY <2>2
    <3> HIDE DEF full
    <3>3. Unit * 0 + full <= full + allowance
      BY <3>1
    <3> QED
      BY <3>2, <3>3 DEF Covered, full
<1> QED
  BY <1>1, <1>2 DEF LimiterInv

\* Every action keeps the buckets covered.
LEMMA LimiterInvStep == LimiterInv /\ [LimiterNext]_limiterVars => LimiterInv'
<1> SUFFICES ASSUME LimiterInv, [LimiterNext]_limiterVars PROVE LimiterInv'
  OBVIOUS
<1>0. LimiterTypeOK /\ Covered /\ rate \in Nat /\ Unit \in Nat \ {0}
  BY RateLimiterAssumption DEF LimiterInv, LimiterTypeOK, Known
<1>1. ASSUME NEW h \in Attempts, TryAcquire(h) PROVE LimiterInv'
  <2>0. loaded[h].key \in Keys /\ loaded[h].rate \in Known
    BY <1>0, <1>1 DEF LimiterTypeOK, TryAcquire
  <2>1. PICK k \in Keys, r \in Known : k = loaded[h].key /\ r = loaded[h].rate
    BY <2>0
  <2>r. r \in Nat
    BY RateLimiterAssumption DEF Known
  <2>2. PICK filled \in Nat : filled = Refilled(k, r)
    BY <1>0, <2>r, RefilledRange
  <2>3. /\ loaded' = [loaded EXCEPT ![h] = NoAttempt]
        /\ bucket' = [bucket EXCEPT ![k] = IF filled >= Unit THEN filled - Unit ELSE filled]
        /\ idle' = [idle EXCEPT ![k] = 0]
        /\ rate' = rate
        /\ r # rate => Measure
        /\ r = rate => /\ granted' = [granted EXCEPT ![k] = IF filled >= Unit THEN @ + 1 ELSE @]
                       /\ allowance' = allowance
    BY <1>1, <2>1, <2>2 DEF TryAcquire
  <2>4. LimiterTypeOK'
    <3>1. granted' \in [Keys -> Nat] /\ allowance' \in Nat
      BY <1>0, <2>1, <2>3 DEF LimiterTypeOK, Measure
    <3>2. bucket' \in [Keys -> Int] /\ \A j \in Keys : bucket'[j] >= -1
      BY <1>0, <2>1, <2>2, <2>3 DEF LimiterTypeOK
    <3>3. loaded' \in [Attempts -> {NoAttempt} \cup [key : Keys, rate : Known]]
      BY <1>0, <2>3 DEF LimiterTypeOK
    <3>4. rate' \in Known /\ idle' \in [Keys -> Nat]
      BY <1>0, <2>3 DEF LimiterTypeOK
    <3> QED
      BY <3>1, <3>2, <3>3, <3>4 DEF LimiterTypeOK
  <2>5. CASE r # rate
    BY <2>3, <2>4, <2>5, Begins DEF LimiterInv
  <2>6. CASE r = rate
    <3>1. ASSUME NEW j \in Keys, j # k
          PROVE  (Unit * granted[j] + Refilled(j, rate) <= CapacityAt(rate) + allowance)'
      <4>1. granted'[j] = granted[j] /\ Refilled(j, rate)' = Refilled(j, rate)
        BY <1>0, <2>1, <2>3, <2>6, <3>1 DEF LimiterTypeOK, Refilled, Smaller, CapacityAt
      <4> QED
        BY <1>0, <2>3, <2>6, <4>1 DEF Covered, CapacityAt
    <3>2. (Unit * granted[k] + Refilled(k, rate) <= CapacityAt(rate) + allowance)'
      <4> DEFINE spent == Unit * granted[k]
                 rest == IF filled >= Unit THEN filled - Unit ELSE filled
      <4>1. spent + filled <= CapacityAt(rate) + allowance /\ spent \in Nat
        BY <1>0, <2>2, <2>6, ProductNat DEF Covered, LimiterTypeOK
      <4>2. bucket'[k] = rest /\ idle'[k] = 0 /\ rest \in Nat
        BY <1>0, <2>1, <2>2, <2>3 DEF LimiterTypeOK
      <4>3. Refilled(k, rate)' <= rest /\ Refilled(k, rate)' \in Int
        <5>1. (idle[k] * rate)' = 0
          BY <1>0, <2>3, <4>2
        <5>2. CapacityAt(rate)' \in Nat
          BY <1>0, <2>3, CapacityNat DEF CapacityAt
        <5> HIDE DEF rest
        <5>3. Refilled(k, rate)' = Smaller(rest, CapacityAt(rate)')
          BY <4>2, <5>1 DEF Refilled
        <5> QED
          BY <4>2, <5>2, <5>3 DEF Smaller
      <4>4. Unit * granted'[k] = IF filled >= Unit THEN spent + Unit ELSE spent
        BY <1>0, <2>1, <2>3, <2>6, ProductNext DEF LimiterTypeOK
      <4>5. CapacityAt(rate)' = CapacityAt(rate) /\ CapacityAt(rate) \in Nat
        BY <1>0, <2>3, CapacityNat DEF CapacityAt
      <4> HIDE DEF spent
      <4>6. allowance' = allowance /\ allowance \in Nat
        BY <1>0, <2>3, <2>6 DEF LimiterTypeOK
      <4> QED
        BY <1>0, <2>2, <4>1, <4>3, <4>4, <4>5, <4>6
    <3> QED
      BY <2>4, <3>1, <3>2 DEF LimiterInv, Covered
  <2> QED
    BY <2>5, <2>6
<1>2. ASSUME NEW h \in Attempts, NEW k \in Keys, LoadRate(h, k) PROVE LimiterInv'
  <2>1. LimiterTypeOK'
    BY <1>0, <1>2 DEF LimiterTypeOK, LoadRate
  <2>2. Covered'
    BY <1>0, <1>2 DEF Covered, LoadRate, Refilled, CapacityAt
  <2> QED
    BY <2>1, <2>2 DEF LimiterInv
<1>3. ASSUME NEW seconds \in 1..MaxElapsed, Elapse(seconds) PROVE LimiterInv'
  <2>1. seconds \in Nat /\ seconds * rate \in Nat
    BY <1>0, RateLimiterAssumption, ProductNat
  <2>2. /\ idle' = [k \in Keys |-> idle[k] + seconds]
        /\ allowance' = allowance + seconds * rate
        /\ UNCHANGED <<rate, bucket, loaded, granted>>
    BY <1>3 DEF Elapse
  <2>3. LimiterTypeOK'
    BY <1>0, <2>1, <2>2 DEF LimiterTypeOK
  <2>4. ASSUME NEW k \in Keys
        PROVE  (Unit * granted[k] + Refilled(k, rate) <= CapacityAt(rate) + allowance)'
    <3> DEFINE spent == Unit * granted[k]
               gain == seconds * rate
    <3>1. (idle[k] + seconds) * rate = idle[k] * rate + gain /\ idle[k] * rate \in Nat
      BY <1>0, <2>1, ProductSum, ProductNat DEF LimiterTypeOK
    <3>2. CapacityAt(rate)' = CapacityAt(rate) /\ CapacityAt(rate) \in Nat
      BY <1>0, <2>2, CapacityNat DEF CapacityAt
    <3>3. spent + Refilled(k, rate) <= CapacityAt(rate) + allowance /\ spent \in Nat
      BY <1>0, ProductNat DEF Covered, LimiterTypeOK
    <3>4. (idle[k] * rate)' = idle[k] * rate + gain
      BY <2>2, <3>1
    <3>5. gain \in Nat /\ allowance' = allowance + gain /\ allowance \in Nat
      BY <1>0, <2>1, <2>2 DEF LimiterTypeOK
    <3> HIDE DEF gain
    <3>6. Refilled(k, rate)' <= Refilled(k, rate) + gain /\ Refilled(k, rate)' \in Int
      BY <1>0, <2>2, <3>1, <3>2, <3>4, <3>5 DEF Refilled, Smaller, LimiterTypeOK
    <3>7. Unit * granted'[k] = spent /\ Refilled(k, rate) \in Nat
      BY <1>0, <2>2, RefilledRange
    <3> HIDE DEF spent
    <3> QED
      BY <3>2, <3>3, <3>5, <3>6, <3>7
  <2> QED
    BY <2>3, <2>4 DEF LimiterInv, Covered
<1>4. ASSUME NEW r \in Rates, SetRate(r) PROVE LimiterInv'
  <2>1. LimiterTypeOK'
    BY <1>0, <1>4 DEF LimiterTypeOK, SetRate, Measure, Known
  <2> QED
    BY <1>4, <2>1, Begins DEF LimiterInv, SetRate
<1>5. CASE Measure /\ UNCHANGED <<rate, bucket, idle, loaded>>
  <2>1. LimiterTypeOK'
    BY <1>0, <1>5 DEF LimiterTypeOK, Measure
  <2> QED
    BY <1>5, <2>1, Begins DEF LimiterInv
<1>6. CASE LimiterRestart
  <2>1. LimiterTypeOK'
    BY <1>6 DEF LimiterTypeOK, LimiterRestart, Measure, Known
  <2> QED
    BY <1>6, <2>1, Begins DEF LimiterInv, LimiterRestart
<1>7. CASE UNCHANGED limiterVars
  BY <1>0, <1>7 DEF limiterVars, LimiterInv, LimiterTypeOK, Covered, Refilled, CapacityAt
<1> QED
  BY <1>1, <1>2, <1>3, <1>4, <1>5, <1>6, <1>7 DEF LimiterNext

\* Every reachable state satisfies the invariant.
LEMMA LimiterAlways == LimiterSpec => []LimiterInv
BY LimiterInvInit, LimiterInvStep, PTL DEF LimiterSpec

\* Over any period between two changes of the rate a server gets through to a
\* user no more than a full bucket and what the rate adds (try_acquire).
THEOREM LimiterKeepsRate == LimiterSpec => []PeriodBounded
<1>1. LimiterInv => PeriodBounded
  <2> SUFFICES ASSUME LimiterInv, NEW k \in Keys
               PROVE  Unit * granted[k] <= CapacityAt(rate) + allowance
    BY DEF PeriodBounded
  <2>1. rate \in Nat
    BY RateLimiterAssumption DEF LimiterInv, LimiterTypeOK, Known
  <2>2. Refilled(k, rate) \in Nat
    BY <2>1, RefilledRange DEF LimiterInv
  <2>3. Unit * granted[k] \in Nat /\ CapacityAt(rate) \in Nat /\ allowance \in Nat
    BY <2>1, RateLimiterAssumption, CapacityNat, ProductNat DEF LimiterInv, LimiterTypeOK
  <2> QED
    BY <2>2, <2>3 DEF LimiterInv, Covered
<1> QED
  BY <1>1, LimiterAlways, PTL
=============================================================================
