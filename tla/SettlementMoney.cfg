SPECIFICATION FairSettlementSpec
CONSTANTS
    o1 = o1
    s1 = s1
    Orders = {o1}
    Sellers = {s1}
    SellerOf <- OneSeller
    Purchasable = {o1}
    Refundable = {o1}
    Copies = 1
    DashboardRefunds = TRUE
    MaxAcctEvents = 1
    MaxAttempts = 1
    MaxCrashes = 1
    HookMayCrash = FALSE
    StandingMayDrop = FALSE
INVARIANT
    OrdersHaveTheirRuns
PROPERTIES
    MoneyFollowsLedger
    ChargeIsOwed
    RefundIsRecorded
    RefundRequestSettles
CHECK_DEADLOCK FALSE
