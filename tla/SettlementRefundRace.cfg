SPECIFICATION SettlementSpec
CONSTANTS
    o1 = o1
    s1 = s1
    Orders = {o1}
    Sellers = {s1}
    SellerOf <- OneSeller
    Purchasable = {o1}
    Refundable = {o1}
    Copies = 1
    DashboardRefunds = FALSE
    MaxAcctEvents = 1
    MaxAttempts = 2
    MaxCrashes = 0
    HookMayCrash = FALSE
    StandingMayDrop = FALSE
INVARIANT
    RefundedSaleIsNotPaidOut
CHECK_DEADLOCK FALSE
