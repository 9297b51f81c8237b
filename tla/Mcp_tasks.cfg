SPECIFICATION Spec
CONSTANTS
    Servers = {"a", "b"}
    Entries <- MCEntries
    Requests <- MCRequests
    Handles = {"h"}
    Questions = {"city", "day"}
    Values = {1, 2}
    Replies <- MCReplies
INVARIANTS WorkingIsDriven AnswersKept Vouched
PROPERTY CancelledStays
