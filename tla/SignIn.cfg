SPECIFICATION Spec
CONSTANTS
    h1 = h1
    h2 = h2
    alice = alice
    bob = bob
    alice1 = alice1
    alice2 = alice2
    NoLink = NoLink
    Handlers = {h1, h2}
    Emails = {alice, bob}
    Links = {alice1, alice2}
    Member = bob
    EmailOf <- MCEmailOf
    MaxAge = 1
    SessionAge = 1
    MaxTime = 3
    MaxCalls = 3
SYMMETRY MCSymmetry
INVARIANTS TypeOK LinkOnce LoggedOutStaysOut SignedInStays
PROPERTIES AccountKept
CHECK_DEADLOCK FALSE
