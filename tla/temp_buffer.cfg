SPECIFICATION Spec
CONSTANTS
    p1 = p1  p2 = p2  t1 = t1  t2 = t2  t3 = t3  k1 = k1  k2 = k2
    a = a  x = x  y = y  NoRest = NoRest  NoText = NoText
    Proc = {p1, p2}
    Thread = {t1, t2, t3}
    ProcOf <- MCProcOf
    Key = {k1, k2}
    Char = {a}
    Rest = {x, y, NoRest}
    Values <- MCValues
    Defaults <- MCDefaults
    Ops <- MCOps
    Careful = TRUE
INVARIANTS TypeOK ReadsNamed OwnValues DelRemoves DefaultsFirst
