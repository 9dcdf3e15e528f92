SPECIFICATION BillingSpec
CONSTANTS
    o1 = o1
    Orders = {o1}
    Purchasable = {o1}
    Copies = 2
    DashboardRefunds = FALSE
    MaxCrashes = 1
    HookMayCrash = TRUE
INVARIANTS
    OneWinner
    OrderMatchesProvider
    MoneyEventsFindTheirOrder
CHECK_DEADLOCK FALSE
