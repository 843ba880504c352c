SPECIFICATION FairSpec
CONSTANTS
    r1 = r1
    Requests = {r1}
    Statuses = {200, 204, 304, 429, 500}
    Codes <- MCCodes
    NoBody = NoBody
    NoRule = NoRule
    NoReply = NoReply
    NoRow = NoRow
    NoAnswer = NoAnswer
INVARIANTS
    TypeOK
    TracedOnce
    LogTellsAnswer
    ErrorsAreShaped
    SuccessOnlyFromSuccess
PROPERTY
    AnsweredInTheEnd
