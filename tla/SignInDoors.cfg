\* One mailbox, one browser: links and flows in a few requests at once.
SPECIFICATION SignInSpec
CONSTANTS
    m1 = m1
    Mailboxes = {m1}
    Window = 1
    FlowTTL = 1
    MaxRequests = 1
    MaxTime = 2
    MaxVisits = 3
    MaxFlows = 2
    MaxRotations = 1
    Environments <- SmallEnvironments
CHECK_DEADLOCK FALSE
INVARIANTS
    SessionIsProved
    OneAccountPerMailbox
    LimitHoldsUnlessRaced
PROPERTY
    SpentNeverExpires
