SPECIFICATION OutboxSpec
CONSTANTS
    e1 = e1
    e2 = e2
    e3 = e3
    Entries = {e3}
    TextOf <- MCTextOf
    MaxCalls = 2
INVARIANTS
    FailedStays
