SPECIFICATION MCSpec
CONSTANTS
    alice = alice
    bob = bob
    a1 = a1
    b1 = b1
    page = page
    i1 = i1
    r2 = r2
    w1 = w1
    w2 = w2
    f1 = f1
    f2 = f2
    content = content
    p1 = p1
    Nobody = Nobody
    Nothing = Nothing
    Users = {alice, bob}
    Connections = {a1, b1}
    Consoles = {page}
    Invites = {i1}
    Requests = {r2}
    UserOf <- MCUserOf
    Applicant <- MCApplicant
    Strategies = {"approval", "invite"}
    Orders = {"member", "mute", "approve", "ban"}
    Workers = {w1, w2}
    Uploads = {f1, f2}
    Contents = {content}
    ContentOf <- MCContentOf
    Posts = {p1}
    Tags = {p1, "fresh"}
    Editors = {w1, w2}
    Changes = {"changed"}
INVARIANTS
    TypeOK
    InviteAdmitsOne
    LateOrdersBounded
    StoreConsistent
    ChangesKept
PROPERTIES
    StandingKept
    CalmApprovalAdmits
