SPECIFICATION FairSpec
CONSTANTS
    p1 = p1  p2 = p2  k1 = k1  k2 = k2  v1 = v1  v2 = v2  one = one
    Zero = Zero  NoVal = NoVal  Junk = Junk  NoKey = NoKey
    Proc = {p1, p2}
    Key = {k1, k2}
    Val = {v1, v2}
    Num = {Zero, one}
    ParseInt <- MCParseInt
    Misread <- MCMisread
    Defaults <- MCDefaults
    Ops = {"init", "reset", "set_default", "clear", "unset", "list_add"}
    StrKey = {}
    IntKey = {}
    MayBlock = {}
    StrAnswers <- NoAnswers
    IntAnswers <- NoAnswers
    NativeGet = FALSE
    Mortal = {p1}
    Methods = {}
    Confs <- Off
    CacheCfgs <- Unmarked
    Images <- MCImages
INVARIANTS TypeOK DefaultsSurvive
PROPERTY CallsReturn
