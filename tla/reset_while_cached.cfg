SPECIFICATION Spec
CONSTANTS
    p1 = p1  p2 = p2  k1 = k1  k2 = k2  v1 = v1  v2 = v2  one = one
    Zero = Zero  NoVal = NoVal  Junk = Junk  NoKey = NoKey
    Proc = {p1}
    Key = {k1, k2}
    Val = {v1, v2}
    Num = {Zero, one}
    ParseInt <- MCParseInt
    Misread <- MCMisread
    Defaults <- MCDefaults
    Ops = {"get", "reset"}
    StrKey = {k1}
    IntKey = {}
    MayBlock = {}
    StrAnswers <- NoAnswers
    IntAnswers <- NoAnswers
    NativeGet = FALSE
    Mortal = {}
    Methods = {}
    Confs <- On
    CacheCfgs <- Marked
    Images <- MCImages
INVARIANT DefaultsSurvive
