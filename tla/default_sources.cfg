SPECIFICATION FairSpec
CONSTANTS
    a = a  b = b  Eq = Eq  NL = NL  NUL = NUL  Null = Null  One = One
    Debug = TRUE
    Char = {a, b, Eq, NL, NUL}
    LineSize = 5
    FieldSize = 3
    TextLen = 5
    BytesLen = 6
    Scenarios <- MCScenarios
INVARIANTS TypeOK SourcesLoaded InsideTable LongKeysCut
PROPERTY Returns
CHECK_DEADLOCK FALSE
