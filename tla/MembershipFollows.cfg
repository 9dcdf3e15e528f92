SPECIFICATION FairSubscriptionsSpec
CONSTANTS
    MaxSubs = 1
    MaxPeriods = 2
INVARIANTS
    SubMatchesProvider
    PeriodEndIsPaid
PROPERTY
    KnownMemberIsCanceled
CHECK_DEADLOCK FALSE
