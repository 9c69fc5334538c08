SPECIFICATION Spec
CONSTANTS
    p1 = p1  p2 = p2  k1 = k1  k2 = k2  v1 = v1  v2 = v2  one = one
    Zero = Zero  NoVal = NoVal  Junk = Junk  NoKey = NoKey
    Proc = {p1}
    Key = {k1, k2}
    Val = {v1, v2}
    Num = {Zero, one}
    ParseInt <- MCParseInt
    Misread <- MCMisread
    Defaults <- MCDefaults
    Ops = {"get", "get_int", "set", "set_int", "unset", "safe_unset", "default_get", "clear", "commit"}
    StrKey = {k1}
    IntKey = {k2}
    MayBlock = {"init", "clear", "set"}
    StrAnswers <- AnswerStr
    IntAnswers <- AnswerInt
    NativeGet = TRUE
    Mortal = {p1}
    Methods = {"set_conf", "add_cache", "remove_cache", "set_cache", "add_nvram", "set_nvram"}
    Confs <- OffOrNative
    CacheCfgs <- MarkedOrNot
    Images <- MCImages
PROPERTY ReadsArePinned
