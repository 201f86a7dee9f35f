SPECIFICATION Spec
CONSTANTS
    c1 = c1
    c2 = c2
    Clients = {c1, c2}
    ClientOpts <- EdgeOpts
    Urls <- SomeUrls
    PutSizes = {0, 5, 6}
    Replies <- OtherReplies
    Numbers <- EdgeNumbers
    MaxOpts = 2
    MaxRequests = 3
INVARIANTS
    RequestUnderstood BuffersFit PutTellsItsSize GetAsksForSize
    OackNeverPanics AnswerUnderstood
SYMMETRY ClientSymmetry
CHECK_DEADLOCK FALSE
