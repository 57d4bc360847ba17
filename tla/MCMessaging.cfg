SPECIFICATION MCSpec
CONSTANTS
    Call = {"stat", "truncate"}
    Retries = 1
    IdSpaces = {1, 2}
    Requests <- MCRequests
    Values <- MCValues
INVARIANTS
    MessagesAreFaithful
    AnswersAreOwn
    SuccessIsProviders
PROPERTY
    CallsReturn
\* All calls may be over, and the pool may be stuck.
CHECK_DEADLOCK FALSE
