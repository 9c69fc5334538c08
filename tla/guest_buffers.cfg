SPECIFICATION Spec
CONSTANTS
    Base = 5
    Eq = 4
    Digit0 = 1
    Minus = 3
    Radix = 2
    IntBytes = 2
    Wide = 3
    Archs <- MCArchs
    Key <- MCKey
    Text <- MCText
    Num <- MCNum
    Size = {0, 1, 3, 5, 9, 12}
    Marked <- MCMarked
    None = None
INVARIANTS TypeOK BufferSafe TextDelivered WholeRecords IntDelivered
