SPECIFICATION Spec
CONSTANTS
    loop = loop
    h1 = h1
    h2 = h2
    old = old
    new = new
    fresh = fresh
    k1 = k1
    k2 = k2
    k3 = k3
    user = user
    agent = agent
    NoToken = NoToken
    Resolvers = {loop}
    Handlers = {h1, h2}
    Bearers = {old, new, fresh}
    Tokens = {k1, k2, k3}
    Principals = {user, agent}
    Agents = {agent}
    Legacy = {k1}
    Unminted = {k3}
    Opens <- MCOpens
    Embeds <- MCEmbeds
    Owner <- MCOwner
    MaxEntries = 1
    TTL = 1
    MaxTime = 2
    MaxCalls = 3
SYMMETRY MCSymmetry
VIEW MCView
INVARIANTS TypeOK RevokedStaysOut StaleLessThanTTL OnlyTheBearerOpens
PROPERTIES EvictionIsScoped LiveTokenAccepted
CHECK_DEADLOCK FALSE
