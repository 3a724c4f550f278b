SPECIFICATION Spec
CONSTANTS
    alice = alice
    admin = admin
    a1 = a1
    a2 = a2
    o1 = o1
    t1 = t1
    t2 = t2
    m1 = m1
    m2 = m2
    NoMessage = NoMessage
    Users = {alice, admin}
    Sessions = {a1, a2, o1}
    Topics = {t1}
    Messages = {m1, m2}
    UserOf <- MCUserOf
    AuthorOf <- MCAuthorOf
    TopicOf <- MCTopicOf
    Standings <- Admins
    Accesses = {"public"}
    RateLimit = 0
    MaxSeq = 3
INVARIANTS
    TypeOK
    OneRowPerMessage
    NewestStored
    PostedOnce
PROPERTIES
    OnlyRacingEditRevives
    ImplementsEventLog
SYMMETRY Symm
