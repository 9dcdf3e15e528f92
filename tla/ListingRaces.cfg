SPECIFICATION FairListingsSpec
CONSTANTS
    r1 = r1
    r2 = r2
    r3 = r3
    NoRun = NoRun
    Submissions = {r1, r2, r3}
    MaxCrashes = 1
INVARIANTS
    PendingIsDecidable
    PublishedWasApproved
PROPERTY
    ReviewIsDecided
CHECK_DEADLOCK FALSE
