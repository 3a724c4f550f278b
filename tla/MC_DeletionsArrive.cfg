SPECIFICATION CalmSpec
CONSTANTS
    t1 = t1
    t2 = t2
    m1 = m1
    m2 = m2
    m3 = m3
    n1 = n1
    k1 = k1
    Messages = {m1, n1}
    Topics = {t1, t2}
    TopicOf <- MCTopicOf
    Reacted = {}
    Syncs = {k1}
    MaxSeq = 3
    SyncLimit = 2
    HistoryLimit = 0
    Capacity = 2
INVARIANTS
    DeletionsArrive
CHECK_DEADLOCK FALSE
