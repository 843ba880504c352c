SPECIFICATION Spec
CONSTANTS
    FieldNames <- MCFieldNames
    Texts <- MCTexts
    MaxDepth = 6
    Largest = 40
    Names <- MCNames
    FileNames <- MCFileNames
    Targets <- MCTargets
    Defaulted <- MCDefaulted
    ModelField <- model
    MaxValues = 2
    ObjectDefaults <- MCObjectDefaults
INVARIANTS
    TypeOK
    ModelWins
    IgnoredNotSent
    FieldsSent
    DefaultsInJson
    RequestColumnsHideImages
