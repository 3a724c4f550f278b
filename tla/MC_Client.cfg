SPECIFICATION MCSpec
CONSTANTS
    t1 = t1
    t2 = t2
    m1 = m1
    m2 = m2
    m3 = m3
    n1 = n1
    k1 = k1
    e1 = e1
    e2 = e2
    e3 = e3
    Entries = {e1, e2, e3}
    TextOf <- MCTextOf
    MaxCalls = 3
    Messages = {m1, m2}
    Topics = {t1, t2}
    TopicOf <- MCTopicOf
    Reacted = {m1, m2}
    Syncs = {k1}
    MaxSeq = 2
    SyncLimit = 2
    HistoryLimit = 1
    Capacity = 1
    MaxSkip = 2
    MaxKeys = 2
    MaxSend = 4
INVARIANTS
    KeysFresh
    ReadOnce
    InOrderReadable
    ClientTypeOK
    CursorsBehindHead
    ConnectedMissesNothing
    OneAttemptOpen
PROPERTIES
    MessagesSurvive
