SPECIFICATION FairPayoutsSpec
CONSTANTS
    o1 = o1
    o2 = o2
    s1 = s1
    Orders = {o1, o2}
    Sellers = {s1}
    SellerOf <- OneSeller
    MaxAcctEvents = 1
    Refundable = {o1}
    MaxAttempts = 2
    MaxCrashes = 1
    HookMayCrash = FALSE
    StandingMayDrop = FALSE
PROPERTY
    EarnedMoneyMoves
CHECK_DEADLOCK FALSE
