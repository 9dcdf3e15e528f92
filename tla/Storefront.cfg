\* Every small corpus, document and question; two purchases rated and moderated.
SPECIFICATION StorefrontSpec
CONSTANTS
    o1 = o1
    o2 = o2
    t1 = t1
    t2 = t2
    m1 = m1
    m2 = m2
    v1 = v1
    none = none
    Listings <- ThreeListings
    Locales = {"en", "vi"}
    RRFK = 60
    Limit = 2
    Widen = 1
    Least = 3
    Spread = 1
    PassageK = 3
    FetchK = 3
    Quoted = 2
    LineChars = 7
    Target = 7
    Overlap = 2
    Absent = none
    Corpora <- SmallCorpora
    Docs <- SmallDocs
    EvalQuestions <- SmallQuestions
    Documents <- SmallDocuments
    MaxAsks = 3
    MaxPieces = 2
    Ideas = {o1, o2}
    MaxListings = 2
    Nobody = none
    Orders = {o1, o2}
    Submits = {t1, t2}
    Moderations = {m1, m2}
    Views = {v1}
    Scale <- StarScale
    Take = 1
    Instants = {1, 2}
    NoRating = none
SYMMETRY StorefrontSymmetry
CHECK_DEADLOCK FALSE
INVARIANTS
    FusionRewardsAgreement
    PageAccountsForItself
    AnswerIsItsPassages
    ChunksCoverTheDocument
    OneRatingPerPurchase
    DecidedOnce
    AverageIsOfThePublished
    ThreadIsDrawnOnce
    NextQuestionHearsTheLast
PROPERTY NothingTypedIsDropped
