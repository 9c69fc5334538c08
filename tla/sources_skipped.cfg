SPECIFICATION Spec
CONSTANTS
    a = a  b = b  Eq = Eq  NL = NL  NUL = NUL  Null = Null  One = One
    Debug = FALSE
    Char = {a, b, Eq, NL, NUL}
    LineSize = 5
    FieldSize = 3
    TextLen = 5
    BytesLen = 6
    Scenarios <- MCScenarios
INVARIANT SourcesLoaded
CHECK_DEADLOCK FALSE
