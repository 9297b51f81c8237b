SPECIFICATION MCSpec
CONSTANTS
    Units = {u1, u2}
    Workers = {w1, w2}
    Keys = {k1, k2}
    Verbs = {"create", "update", "partial_update", "replace"}
    MayFail = TRUE
    Concurrent = FALSE
    Clients = {1, 2, 3}
    Ids = {1, 2, 3}
    Cells = {0, 1, 2}
    Hierarchies <- MCHierarchies
    Tables <- MCTables
    Calls <- MCCalls
    PageSize = 1
    MaxListed = 4
    MayBreak = TRUE
INVARIANT OwnConnection NothingLeaks ListingFaithful AnswerTells SearchAnswers MadeAsDeclared
PROPERTY ImplementsCollection UnitsEnd
CHECK_DEADLOCK FALSE
