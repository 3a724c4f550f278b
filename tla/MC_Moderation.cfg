SPECIFICATION FairSpec
CONSTANTS
    alice = alice
    admin = admin
    a1 = a1
    a2 = a2
    o1 = o1
    t1 = t1
    t2 = t2
    m1 = m1
    m2 = m2
    NoMessage = NoMessage
    Users = {alice, admin}
    Sessions = {a1, o1}
    Topics = {t1}
    Messages = {m1, m2}
    UserOf <- MCUserOf
    AuthorOf <- MCAuthorOf
    TopicOf <- MCTopicOf
    Standings <- Moderated
    Accesses = {"public", "admins", "gone"}
    RateLimit = 1
    MaxSeq = 2
INVARIANTS
    LateSendsBounded
PROPERTIES
    EventuallyAnnounced
