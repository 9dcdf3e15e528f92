SPECIFICATION PayoutsSpec
CONSTANTS
    o1 = o1
    o2 = o2
    s1 = s1
    Orders = {o1}
    Sellers = {s1}
    SellerOf <- OneSeller
    MaxAcctEvents = 3
    Refundable = {o1}
    MaxAttempts = 2
    MaxCrashes = 2
    HookMayCrash = TRUE
    StandingMayDrop = TRUE
INVARIANTS
    NoLostWakeup
    RowsMatchProvider
    PendingHasOwner
    FoundPaidIsReversed
CHECK_DEADLOCK FALSE
