SPECIFICATION Spec
CONSTANTS
    Checkers = {c1}
    TagOrder <- FourTags
    FirstVersion <- OneNineZero
    PageSize = 2
    MaxTagPages = 2
    MaxRequests = 2
    MaxCrashes = 0
CHECK_DEADLOCK FALSE
PROPERTY RequestIsAnswered
