SPECIFICATION FairSpec
CONSTANTS
    v1 = v1  one = one
    n1 = n1  n2 = n2  n3 = n3  k1 = k1  k2 = k2  k3 = k3
    Null = Null  Wild = Wild  Junk = Junk
    Node = {n1, n2, n3}
    Key = {k1, k2, k3}
    Val = {v1}
    Num = {one}
    Words = {{1}}

CHECK_DEADLOCK FALSE

INVARIANTS ListTypeOK ListOK
PROPERTIES IsMap JobsEnd
