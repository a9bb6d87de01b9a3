SPECIFICATION Spec
CONSTANTS
    Checkers = {c1, c2}
    TagOrder <- FourTags
    FirstVersion <- OneNineZero
    PageSize = 2
    MaxTagPages = 2
    MaxRequests = 2
    MaxCrashes = 2
CHECK_DEADLOCK FALSE
INVARIANTS StatusInv AppliedOnce NewestIsFound
PROPERTIES NeverDowngrades TakenIsAnswered JobSpec
