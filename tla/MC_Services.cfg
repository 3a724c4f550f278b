SPECIFICATION MCSpec
CONSTANTS
    l1 = l1
    l2 = l2
    l3 = l3
    d1 = d1
    d2 = d2
    d3 = d3
    ann = ann
    ben = ben
    o1 = o1
    o2 = o2
    o3 = o3
    b1 = b1
    b2 = b2
    h1 = h1
    h2 = h2
    chat = chat
    alice = alice
    bucket1 = bucket1
    Links = {l1, l2, l3}
    Devices = {d1, d2, d3}
    DeviceOf <- MCDeviceOf
    Holders = {ann, ben}
    HolderOf <- MCHolderOf
    OneTimeKeys = {o1, o2, o3}
    Bundles = {b1, b2}
    BundleOf <- MCBundleOf
    Fetches = {"f1", "f2", "f3"}
    Handlers = {h1, h2}
    Servers = {chat}
    Users = {alice}
    Threshold = 1
    MaxViolations = 2
    Keys = {bucket1}
    Attempts = {h1, h2}
    Unit = 3
    InitialRate = 1
    Rates = {1, 2}
    MaxElapsed = 3
    MaxAllowance = 6
    t1 = t1
    t2 = t2
    m1 = m1
    m2 = m2
    m3 = m3
    n1 = n1
    k1 = k1
    Messages = {m1, m2}
    Topics = {t1, t2}
    TopicOf <- MCTopicOf
    Reacted = {}
    Syncs = {k1}
    MaxSeq = 2
    SyncLimit = 2
    HistoryLimit = 1
    Capacity = 1
INVARIANTS
    SharedOnlyByRace
    OnlyOldSessionsRemain
    PresenceExact
    PushTypeOK
    BarsHold
    BreakerTrips
    PeriodBounded
PROPERTIES
    CalmRelayReaches
    OnlyOperatorApproves
    ApprovalKeepsUrl
    MonitorFollows
    OwedArrives
