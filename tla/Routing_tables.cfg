SPECIFICATION Spec
CONSTANTS
    PlaceholderType <- Placeholder
    Digits <- Digit
    Top = "app"
    AppKind <- Kinds
    Candidates <- CandidatesOf
    MaxRoutes <- Sizes
    Requests <- RequestsOf
    Values <- ValuesOf
    Signature <- SignatureOf
    SchemaFields <- FieldsOf
    ComponentName <- Registered
    ShortName <- Short
    Library <- LibraryOf
    ErrorSchema = "Error"
    Queries <- QueriesOf
    Bodies = {"none", "garbled", "unknown", "record", "records", "wrong", "file"}
INVARIANT ResolutionsAgree
INVARIANT DocumentIsTrue
INVARIANT BuiltUrlsMatch
PROPERTY ServedStaysServed
CHECK_DEADLOCK FALSE
