SPECIFICATION CalmSpec
CONSTANTS
    t1 = t1
    t2 = t2
    m1 = m1
    m2 = m2
    m3 = m3
    n1 = n1
    k1 = k1
    Messages = {m1, m2, m3}
    Topics = {t1}
    TopicOf <- MCTopicOf
    Reacted = {}
    Syncs = {k1}
    MaxSeq = 3
    SyncLimit = 3
    HistoryLimit = 0
    Capacity = 3
INVARIANTS
    NothingSkipped
CHECK_DEADLOCK FALSE
