SPECIFICATION Spec
CONSTANTS
    h1 = h1
    h2 = h2
    alice = alice
    bob = bob
    editLink = editLink
    viewLink = viewLink
    cli = cli
    Nobody = Nobody
    Handlers = {h1, h2}
    Users = {alice, bob}
    Invites = {editLink, viewLink}
    Level <- MCLevel
    Single = {editLink}
    ExpiresAt <- MCExpiresAt
    ManyUses = 3
    Granted <- MCGranted
    MaxTime = 3
    MaxCalls = 6
    Devices = {cli}
    CarriedBy <- MCCarriedBy
    CodeTTL = 2
    Window = 1
    MaxFailed = 1
INVARIANT OneTokenAlways
CHECK_DEADLOCK FALSE
