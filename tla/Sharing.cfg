SPECIFICATION Spec
CONSTANTS
    h1 = h1
    h2 = h2
    alice = alice
    bob = bob
    bot = bot
    aide = aide
    mailView = mailView
    mailEdit = mailEdit
    link = link
    Nobody = Nobody
    Handlers = {h1, h2}
    Users = {alice, bob}
    Agents = {bot, aide}
    AgentOf <- MCAgentOf
    Owner = alice
    SignedUp = {alice}
    Invites = {mailView, mailEdit, link}
    For <- MCFor
    Level <- MCLevel
    Single = {mailView, mailEdit}
    ExpiresAt <- MCExpiresAt
    ManyUses = 1
    Granted <- MCGranted
    MaxTime = 1
    MaxCalls = 3
SYMMETRY MCSymmetry
VIEW MCView
INVARIANTS TypeOK PrivateLinkRotated OwnerOnly RevokedLinkDead ListedIsViewable OneInvitePerEmail
PROPERTIES AnswerRight
CHECK_DEADLOCK FALSE
