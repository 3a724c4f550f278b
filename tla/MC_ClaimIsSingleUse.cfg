SPECIFICATION Spec
CONSTANTS
    alice = alice
    bob = bob
    a1 = a1
    b1 = b1
    page = page
    i1 = i1
    r2 = r2
    Nobody = Nobody
    Nothing = Nothing
    Users = {alice, bob}
    Connections = {a1, b1}
    Consoles = {}
    Invites = {}
    Requests = {}
    UserOf <- MCUserOf
    Applicant <- MCApplicant
    Strategies = {"open"}
    Orders = {}
INVARIANTS
    ClaimIsSingleUse
