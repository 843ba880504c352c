SPECIFICATION ASpec
CONSTANTS
    FieldNames <- MCFieldNames
    Texts <- MCTexts
    MaxDepth = 12
    Largest <- MCLargest
    Float <- MCFloat
    Bodies <- MCBodies
    Sources <- MCSources
    Official <- MCOfficial
    Upstream <- MCUpstream
    Types <- MCTypes
    Required <- MCRequired
    Defaulted <- MCDefaulted
    Values <- MCValues
    ErrorOfficial <- MCErrorOfficial
    Statuses = {502, 599}
    KnownStatuses = {502}
    NoAnswer = NoAnswer
INVARIANTS
    TypeOK
    Delivered
    Aligned
    UsageAddsUp
    ErrorsSpeakOpenAI
    RowShowsAllButImages
