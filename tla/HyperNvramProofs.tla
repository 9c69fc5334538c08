-------------------------- MODULE HyperNvramProofs --------------------------
(***************************************************************************)
(* Theorems about HyperNvram, for any number of processes, keys, values    *)
(* and defaults.                                                           *)
(***************************************************************************)
EXTENDS HyperNvram, TLAPS

\* The stages a call of op goes through.
StagesOf(op) ==
    CASE op = "init" -> {"init", "load"}
      [] op = "get" -> {"init", "load", "get"}
      [] op = "get_int" -> {"init", "load", "getint"}
      [] op = "safe_unset" -> {"init", "load", "get", "reget", "unset"}
      [] op = "default_get" -> {"init", "load", "get", "set", "reget"}
      [] op = "reset" -> {"clear", "load"}
      [] op = "set_default" -> {"load"}
      [] op = "clear" -> {"clear"}
      [] op = "unset" -> {"unset"}
      [] op = "set" -> {"set"}
      [] op = "set_int" -> {"setint"}
      [] op = "list_add" -> {"listadd"}
      [] op = "commit" -> {"sync"}
      [] OTHER -> {"idle"}

StageOK ==
    \A p \in Proc :
        /\ pc[p] \in StagesOf(call[p].op)
        /\ pc[p] = "set" => call[p].val # NoVal

\* What the host wrote to the buffer is of the kind the stage asked for.
AnswerOK ==
    \A p \in Proc :
        reply[p] # NoReply =>
            /\ pc[p] # "idle"
            /\ pc[p] \in {"get", "reget"} => reply[p].val \in Val \cup {Junk}
            /\ pc[p] = "getint" => reply[p].val \in Num

TypeInv == TypeOK /\ StageOK /\ AnswerOK

\* No process caches: the configuration word never has bit 2.
Uncached ==
    /\ 2 \notin conf
    /\ \A p \in Proc : 2 \notin config[p] /\ (pc[p] = "init" => 2 \notin reply[p].flags)

\* The plugin is never told to enable caching, and no callback consumes an
\* NVRAM_INIT or the NVRAM_SET of a default.
QuietHost ==
    /\ \A c \in Confs : 2 \notin c
    /\ MayBlock \cap {"init", "load"} = {}

-----------------------------------------------------------------------------

\* The arguments of a call are of the kinds its function takes.
LEMMA CallArguments ==
    ASSUME NEW c \in Calls \cup {NoCall}
    PROVE  /\ c.op \in AllOps \cup {"none"}
           /\ c.op \in KeyOps \cup {"set", "list_add", "set_int"} => c.key \in Key
           /\ c.op \in {"set", "list_add"} => c.val \in Val
           /\ c.op = "default_get" => c.val \in Val \cup {NoVal}
           /\ c.op = "set_int" => c.val \in Num
           /\ c.op = "none" <=> c = NoCall
           /\ c = [op |-> c.op, key |-> c.key, val |-> c.val]
  BY GuestAssumption
  DEF Calls, NoCall, Request, AllOps, KeyOps, PlainOps

\* The key and the value of a stage that uses them.
LEMMA StageArguments ==
    ASSUME TypeInv, NEW p \in Proc
    PROVE  /\ pc[p] \in {"load", "get", "reget", "getint", "set", "setint", "listadd", "unset"}
                => CurKey(p) \in Key
           /\ pc[p] \in {"load", "set", "listadd"} => CurVal(p) \in Val
           /\ pc[p] = "setint" => CurVal(p) \in Num
  <1> DEFINE c == call[p]
  <1>1. c \in Calls \cup {NoCall} /\ pc[p] \in StagesOf(c.op) /\ (pc[p] = "set" => c.val # NoVal)
    BY DEF TypeInv, TypeOK, StageOK
  <1>2. CASE pc[p] = "load"
    <2>1. Defaults[idx[p]] \in Pair
      BY GuestAssumption DEF TypeInv, TypeOK
    <2>2. QED
      BY <1>2, <2>1 DEF CurKey, CurVal, Pair
  <1>3. CASE pc[p] # "load"
    <2>1. c.op \in AllOps \cup {"none"}
      BY <1>1, CallArguments
    <2>2. QED
      BY <1>1, <1>3, <2>1, CallArguments DEF CurKey, CurVal, StagesOf, AllOps, KeyOps, PlainOps
  <1>4. QED
    BY <1>2, <1>3

\* The stage that follows is one of the same call, or none.
LEMMA NextStage ==
    ASSUME TypeInv, NEW p \in Proc, pc[p] # "idle", NEW found \in BOOLEAN
    PROVE  /\ After(p, found) \in StagesOf(call[p].op) \cup {"idle"}
           /\ pc[p] = "load" /\ After(p, found) = "load" => idx[p] < Len(Defaults)
           /\ After(p, found) = "set" => call[p].val # NoVal
  <1> DEFINE op == call[p].op
  <1>1. call[p] \in Calls \cup {NoCall} /\ pc[p] \in StagesOf(op)
        /\ (pc[p] = "set" => call[p].val # NoVal)
    BY DEF TypeInv, TypeOK, StageOK
  <1>2. op \in AllOps \cup {"none"}
    BY <1>1, CallArguments
  <1>3. CASE pc[p] = "load"
    <2>1. op \in {"init", "get", "get_int", "safe_unset", "default_get", "reset", "set_default"}
      BY <1>1, <1>2, <1>3 DEF StagesOf, AllOps, KeyOps, PlainOps
    <2>2. op \notin {"reset", "set_default"} =>
            Body(p, op) \in StagesOf(op) \cup {"idle"} /\ Body(p, op) \notin {"load", "set"}
      BY <2>1 DEF Body, StagesOf
    <2>3. After(p, found) = IF idx[p] < Len(Defaults) THEN "load"
                            ELSE IF op \in InitFirst THEN Body(p, op)
                            ELSE "idle"
      <3>1. idx[p] \in 1 .. Len(Defaults) /\ Len(Defaults) \in Nat
        BY GuestAssumption DEF TypeInv, TypeOK
      <3>2. QED
        BY <1>3, <3>1 DEF After
    <2>4. "load" \in StagesOf(op)
      BY <1>1, <1>3
    <2>5. QED
      BY <1>3, <2>1, <2>2, <2>3, <2>4 DEF InitFirst
  <1>4. CASE pc[p] # "load"
    BY <1>1, <1>2, <1>4 DEF After, StagesOf, AllOps, KeyOps, PlainOps
  <1>5. QED
    BY <1>3, <1>4

\* Leaving a stage for a stage of the same call, or for none, keeps the
\* control state in order and voids p's answer.
LEMMA GotoStep ==
    ASSUME TypeInv, NEW p \in Proc, NEW l \in StagesOf(call[p].op) \cup {"idle"},
           pc[p] = "load" /\ l = "load" => idx[p] < Len(Defaults),
           l = "set" => call[p].val # NoVal,
           Goto(p, l)
    PROVE  /\ pc' \in [Proc -> Stages]
           /\ call' \in [Proc -> Calls \cup {NoCall}]
           /\ idx' \in [Proc -> 1 .. Len(Defaults)]
           /\ reply' \in [Proc -> Reply]
           /\ StageOK' /\ AnswerOK'
  <1>1. call[p] \in Calls \cup {NoCall} /\ call[p].op \in AllOps \cup {"none"}
    BY CallArguments DEF TypeInv, TypeOK
  <1>2. l \in Stages
    BY <1>1 DEF StagesOf, Stages
  <1>3. pc' \in [Proc -> Stages] /\ call' \in [Proc -> Calls \cup {NoCall}]
    BY <1>2 DEF Goto, Enter, Loading, TypeInv, TypeOK
  <1>4. idx' \in [Proc -> 1 .. Len(Defaults)]
    <2>1. Len(Defaults) \in Nat \ {0}
      BY GuestAssumption
    <2>2. QED
      BY <2>1 DEF Goto, Enter, Loading, TypeInv, TypeOK
  <1>5. reply' \in [Proc -> Reply]
    <2>1. NoReply \in Reply
      BY DEF NoReply, Word, Reply, Tags, Flags
    <2>2. QED
      BY <2>1 DEF Goto, Enter, Loading, TypeInv, TypeOK, PluginTypeOK
  <1>6. StageOK'
    <2> SUFFICES ASSUME NEW q \in Proc
                 PROVE  pc'[q] \in StagesOf(call'[q].op) /\ (pc'[q] = "set" => call'[q].val # NoVal)
      BY DEF StageOK
    <2>1. CASE q # p
      BY <2>1 DEF Goto, Enter, Loading, TypeInv, TypeOK, StageOK
    <2>2. CASE q = p /\ l = "idle"
      BY <2>2 DEF Goto, Enter, Loading, TypeInv, TypeOK, NoCall, StagesOf
    <2>3. CASE q = p /\ l # "idle"
      BY <2>3 DEF Goto, Enter, Loading, TypeInv, TypeOK
    <2>4. QED
      BY <2>1, <2>2, <2>3
  <1>7. AnswerOK'
    BY DEF Goto, Enter, Loading, AnswerOK, TypeInv, TypeOK, PluginTypeOK
  <1>8. QED
    BY <1>3, <1>4, <1>5, <1>6, <1>7

\* A trap that the host answers with a word of the right kind.
LEMMA TrapStep ==
    ASSUME TypeInv, NEW p \in Proc, NEW w \in Reply, SetRetval(p, w),
           UNCHANGED guestVars, pc[p] # "idle",
           pc[p] \in {"get", "reget"} => w.val \in Val \cup {Junk},
           pc[p] = "getint" => w.val \in Num
    PROVE  reply' \in [Proc -> Reply] /\ StageOK' /\ AnswerOK'
  <1>1. reply' \in [Proc -> Reply]
    BY DEF SetRetval, TypeInv, TypeOK, PluginTypeOK
  <1>2. StageOK'
    BY DEF TypeInv, StageOK, guestVars
  <1>3. AnswerOK'
    BY DEF TypeInv, TypeOK, PluginTypeOK, AnswerOK, guestVars, SetRetval
  <1>4. QED
    BY <1>1, <1>2, <1>3

\* The words the plugin answers with.
LEMMA WordType ==
    ASSUME NEW t \in Tags, NEW f \in Flags, NEW v \in Val \cup Num \cup {NoVal, Junk}
    PROVE  Word(t, f, v) \in Reply /\ Word(t, f, v).val = v /\ Word(t, f, v).flags = f
  BY DEF Word, Reply

LEMMA FoundType ==
    ASSUME TypeInv, NEW k \in Key, NEW v \in Val \cup Num
    PROVE  Found(k, v) \in Reply /\ Found(k, v).val = v
  <1>1. cacheCfg[k] \in Flags /\ {} \in Flags /\ {"CACHE", "ZERO"} \subseteq Tags
    BY DEF TypeInv, TypeOK, PluginTypeOK, Flags, Tags
  <1>2. QED
    BY <1>1, WordType DEF Found

LEMMA MagicType ==
    ASSUME NEW v \in Val \cup Num \cup {NoVal, Junk}
    PROVE  Magic(v) \in Reply /\ Magic(v).val = v
  <1>1. {1, 2} \in Flags /\ "MAGIC" \in Tags
    BY DEF Flags, Tags
  <1>2. QED
    BY <1>1, WordType DEF Magic

\* A trap keeps the invariant: the host's handlers answer in kind.
LEMMA TrapType ==
    ASSUME TypeInv, NEW p \in Proc,
           \/ TrapInit(p) \/ TrapGetBuf(p) \/ TrapGetInt(p) \/ TrapSet(p) \/ TrapSetInt(p)
           \/ TrapUnset(p) \/ TrapClear(p) \/ TrapSync(p) \/ TrapBlocked(p)
    PROVE  TypeInv'
  <1>a. UNCHANGED guestVars
    BY DEF TrapInit, TrapGetBuf, TrapGetInt, TrapSet, TrapSetInt, TrapUnset, TrapClear,
           TrapSync, TrapBlocked
  <1>b. \A k \in Key, v \in Val : [nvram EXCEPT ![k] = v] \in [Key -> Val \cup {NoVal}]
    BY DEF TypeInv, TypeOK, PluginTypeOK
  <1>e. pc[p] # "idle"
    BY GuestAssumption
    DEF TrapInit, TrapGetBuf, TrapGetInt, TrapSet, TrapSetInt, TrapUnset, TrapClear,
        TrapSync, TrapBlocked, Trapping
  <1> SUFFICES /\ nvram' \in [Key -> Val \cup {NoVal}]
               /\ UNCHANGED <<cacheCfg, conf>>
               /\ gone' \subseteq Key /\ lost' \in [Proc -> SUBSET Key]
               /\ \E w \in Reply :
                    /\ SetRetval(p, w)
                    /\ pc[p] \in {"get", "reget"} => w.val \in Val \cup {Junk}
                    /\ pc[p] = "getint" => w.val \in Num
    BY <1>a, <1>e, TrapStep DEF TypeInv, TypeOK, PluginTypeOK, guestVars
  <1>c. {} \in Flags /\ {"NONE", "MAGIC", "ZERO", "NOTFOUND", "CACHE", "CONF", "VALUE"} = Tags
    BY DEF Flags, Tags
  <1>f. gone' \subseteq Key /\ lost' \in [Proc -> SUBSET Key]
    <2>1. CASE TrapUnset(p)
      <3>1. CurKey(p) \in Key
        BY <2>1, StageArguments DEF TrapUnset, Trapping
      <3>2. QED
        BY <2>1, <3>1 DEF TrapUnset, TypeInv, TypeOK
    <2>2. CASE TrapClear(p)
      BY <2>2 DEF TrapClear, TypeInv, TypeOK
    <2>3. CASE TrapSet(p) \/ TrapSetInt(p)
      BY <2>3 DEF TrapSet, TrapSetInt, Written, TypeInv, TypeOK
    <2>4. CASE UNCHANGED history
      BY <2>4 DEF history, TypeInv, TypeOK
    <2>5. QED
      BY <2>1, <2>2, <2>3, <2>4
      DEF TrapInit, TrapGetBuf, TrapGetInt, TrapSync, TrapBlocked
  <1>d. Zero \in Num
    BY PluginAssumption
  <1>1. CASE TrapInit(p)
    <2>1. Word("CONF", conf, NoVal) \in Reply
      BY <1>c, WordType DEF TypeInv, TypeOK, PluginTypeOK
    <2>2. QED
      BY <1>1, <1>f, <2>1 DEF TrapInit, Trapping, HcInit, TypeInv, TypeOK, PluginTypeOK, hostVars
  <1>2. CASE TrapGetBuf(p)
    <2>1. CurKey(p) \in Key /\ pc[p] # "getint"
      BY <1>2, StageArguments DEF TrapGetBuf, Trapping
    <2>2. nvram[CurKey(p)] \in Val \cup {NoVal}
      BY <2>1 DEF TypeInv, TypeOK, PluginTypeOK
    <2>3. NotFound \in Reply /\ NotFound.val = Junk
      BY <1>c, WordType DEF NotFound
    <2>4. nvram[CurKey(p)] # NoVal => Found(CurKey(p), nvram[CurKey(p)]) \in Reply
                                      /\ Found(CurKey(p), nvram[CurKey(p)]).val \in Val
      BY <2>1, <2>2, FoundType
    <2>5. QED
      BY <1>2, <1>f, <2>1, <2>3, <2>4
      DEF TrapGetBuf, HcGetBuf, TypeInv, TypeOK, PluginTypeOK, hostVars
  <1>3. CASE TrapGetInt(p)
    <2>1. CurKey(p) \in Key /\ pc[p] = "getint"
      BY <1>3, StageArguments DEF TrapGetInt, Trapping
    <2>2. nvram[CurKey(p)] # NoVal => ParseInt[nvram[CurKey(p)]] \in Num
      BY <2>1, PluginAssumption DEF TypeInv, TypeOK, PluginTypeOK
    <2>3. Word("ZERO", {}, Zero) \in Reply /\ Word("ZERO", {}, Zero).val \in Num
      BY <1>c, <1>d, WordType
    <2>4. nvram[CurKey(p)] # NoVal => Found(CurKey(p), ParseInt[nvram[CurKey(p)]]) \in Reply
                                      /\ Found(CurKey(p), ParseInt[nvram[CurKey(p)]]).val \in Num
      BY <2>1, <2>2, FoundType
    <2>5. QED
      BY <1>3, <1>f, <2>1, <2>3, <2>4
      DEF TrapGetInt, HcGetInt, TypeInv, TypeOK, PluginTypeOK, hostVars
  <1>4. CASE TrapSet(p)
    <2>1. CurKey(p) \in Key /\ CurVal(p) \in Val /\ pc[p] \notin {"get", "reget", "getint"}
      BY <1>4, StageArguments DEF TrapSet, Trapping
    <2>2. Magic(NoVal) \in Reply
      BY MagicType
    <2>3. QED
      BY <1>4, <1>f, <1>b, <2>1, <2>2 DEF TrapSet, HcSet, TypeInv, TypeOK
  <1>5. CASE TrapSetInt(p)
    <2>1. CurKey(p) \in Key /\ CurVal(p) \in Num /\ pc[p] = "setint"
      BY <1>5, StageArguments DEF TrapSetInt, Trapping
    <2>2. Misread[CurVal(p)] \subseteq Val
      BY <2>1, PluginAssumption
    <2>3. Word("VALUE", {}, NoVal) \in Reply
      BY <1>c, WordType
    <2>4. QED
      BY <1>5, <1>f, <1>b, <2>1, <2>2, <2>3 DEF TrapSetInt, HcSetInt, TypeInv, TypeOK
  <1>6. CASE TrapUnset(p)
    <2>1. CurKey(p) \in Key /\ pc[p] = "unset"
      BY <1>6, StageArguments DEF TrapUnset, Trapping
    <2>2. Word("ZERO", {}, NoVal) \in Reply /\ Magic(NoVal) \in Reply
      BY <1>c, WordType, MagicType
    <2>3. QED
      BY <1>6, <1>f, <2>1, <2>2 DEF TrapUnset, HcUnset, TypeInv, TypeOK, PluginTypeOK
  <1>7. CASE TrapClear(p)
    <2>1. Word("ZERO", {}, NoVal) \in Reply
      BY <1>c, WordType
    <2>2. QED
      BY <1>7, <1>f, <2>1 DEF TrapClear, Trapping, HcClear, TypeInv, TypeOK, PluginTypeOK
  <1>8. CASE TrapSync(p)
    <2>1. Magic(NoVal) \in Reply
      BY MagicType
    <2>2. QED
      BY <1>8, <1>f, <2>1 DEF TrapSync, Trapping, HcSync, TypeInv, TypeOK, PluginTypeOK, hostVars
  <1>9. CASE TrapBlocked(p)
    <2>1. \E v : /\ HcBlocked(p, v) /\ v \in Val \cup Num \cup {NoVal, Junk}
                 /\ pc[p] \in {"get", "reget"} => v \in Val \cup {Junk}
                 /\ pc[p] = "getint" => v \in Num
      <3>1. CASE Trapping(p, MayBlock) /\ HcBlocked(p, Junk)
        BY <3>1, GuestAssumption DEF Trapping
      <3>2. CASE pc[p] \in {"get", "reget"} /\ \E v \in StrAnswers[CurKey(p)] : HcBlocked(p, v)
        <4>1. CurKey(p) \in Key
          BY <3>2, StageArguments
        <4>2. StrAnswers[CurKey(p)] \subseteq Val \cup {Junk}
          BY <4>1, GuestAssumption
        <4>3. QED
          BY <3>2, <4>2
      <3>3. CASE pc[p] = "getint" /\ \E n \in IntAnswers[CurKey(p)] : HcBlocked(p, n)
        <4>1. CurKey(p) \in Key
          BY <3>3, StageArguments
        <4>2. IntAnswers[CurKey(p)] \subseteq Num
          BY <4>1, GuestAssumption
        <4>3. QED
          BY <3>3, <4>2
      <3>4. QED
        BY <1>9, <3>1, <3>2, <3>3 DEF TrapBlocked, Trapping
    <2>2. PICK v : /\ HcBlocked(p, v) /\ v \in Val \cup Num \cup {NoVal, Junk}
                   /\ pc[p] \in {"get", "reget"} => v \in Val \cup {Junk}
                   /\ pc[p] = "getint" => v \in Num
      BY <2>1
    <2>3. Magic(v) \in Reply /\ Magic(v).val = v
      BY <2>2, MagicType
    <2>4. nvram' \in [Key -> Val \cup {NoVal}] /\ UNCHANGED <<cacheCfg, conf>>
      BY <2>2 DEF HcBlocked, hostVars, TypeInv, TypeOK, PluginTypeOK
    <2>5. QED
      BY <1>f, <2>2, <2>3, <2>4 DEF HcBlocked
  <1>10. QED
    BY <1>1, <1>2, <1>3, <1>4, <1>5, <1>6, <1>7, <1>8, <1>9

\* A cache entry keeps its type when a read's answer goes into it.
LEMMA InsertType ==
    ASSUME NEW d \in Entry, NEW e \in Fresh(d), NEW f \in Flags, NEW x
    PROVE  /\ x \in Val \cup {Junk} => InsertStr(e, x, f) \in Entry
           /\ x \in Num => InsertInt(e, x, f) \in Entry
  <1>0. e \in Entry
    BY DEF Fresh, Entry
  <1>1. e.conf \cup f \cup {1} \in Flags /\ e.conf \cup f \cup {2} \in Flags
    BY <1>0 DEF Entry, Flags
  <1>2. QED
    BY <1>0, <1>1 DEF InsertStr, InsertInt, Entry

\* Leaving a stage, by a cache hit or a return, keeps the invariant.
LEMMA LeaveType ==
    ASSUME TypeInv, NEW p \in Proc, 
           \/ CacheHit(p) \/ ReturnInit(p) \/ ReturnGetBuf(p) \/ ReturnGetInt(p)
           \/ ReturnClear(p) \/ ReturnOther(p)
    PROVE  TypeInv'
  <1>a. pc[p] # "idle" /\ \E found \in BOOLEAN : Goto(p, After(p, found))
    <2>1. (reply[p].tag # "NOTFOUND") \in BOOLEAN
      OBVIOUS
    <2>2. QED
      BY <2>1 DEF CacheHit, ReturnInit, ReturnGetBuf, ReturnGetInt, ReturnClear, ReturnOther,
                  Returning
  <1>b. /\ pc' \in [Proc -> Stages]
        /\ call' \in [Proc -> Calls \cup {NoCall}]
        /\ idx' \in [Proc -> 1 .. Len(Defaults)]
        /\ reply' \in [Proc -> Reply]
        /\ StageOK' /\ AnswerOK'
    <2>1. PICK found \in BOOLEAN : Goto(p, After(p, found))
      BY <1>a
    <2>2. QED
      BY <1>a, <2>1, NextStage, GotoStep
  <1>c. UNCHANGED <<hostVars, init, gone, lost>>
    BY DEF history, CacheHit, ReturnInit, ReturnGetBuf, ReturnGetInt, ReturnClear, ReturnOther
  <1>d. /\ nvram' \in [Key -> Val \cup {NoVal}] /\ cacheCfg' \in [Key -> Flags]
        /\ conf' \in Flags /\ init' \in [Proc -> BOOLEAN] /\ gone' \subseteq Key
        /\ lost' \in [Proc -> SUBSET Key]
    BY <1>c DEF TypeInv, TypeOK, PluginTypeOK, hostVars
  <1> SUFFICES /\ config' \in [Proc -> Flags]
               /\ cache' \in [Proc -> [Key -> Entry]]
               /\ ret' \in [Proc -> Val \cup Num \cup {NoVal, Junk}]
    BY <1>b, <1>d DEF TypeInv, TypeOK, PluginTypeOK
  <1>e. /\ config \in [Proc -> Flags]
        /\ cache \in [Proc -> [Key -> Entry]]
        /\ ret \in [Proc -> Val \cup Num \cup {NoVal, Junk}]
        /\ reply[p] \in Reply
    BY DEF TypeInv, TypeOK, PluginTypeOK
  <1>f. reply[p].flags \in Flags /\ reply[p].val \in Val \cup Num \cup {NoVal, Junk}
    BY <1>e DEF Reply
  <1>1. CASE CacheHit(p)
    <2>1. pc[p] \in {"get", "reget", "getint"} =>
            cache[p][CurKey(p)].str \in Val \cup {Junk} /\ cache[p][CurKey(p)].int \in Num \cup {Junk}
      BY <1>e, StageArguments DEF Entry
    <2>2. CASE pc[p] \in {"get", "reget"}
      BY <1>1, <1>e, <2>1, <2>2 DEF CacheHit
    <2>3. CASE pc[p] = "getint"
      BY <1>1, <1>e, <2>1, <2>3 DEF CacheHit
    <2>4. CASE pc[p] \notin {"get", "reget", "getint"}
      BY <1>1, <1>e, <2>4 DEF CacheHit
    <2>5. QED
      BY <2>2, <2>3, <2>4
  <1>2. CASE ReturnInit(p)
    BY <1>2, <1>e, <1>f DEF ReturnInit
  <1>3. CASE ReturnGetBuf(p)
    <2>1. CurKey(p) \in Key /\ reply[p].val \in Val \cup {Junk}
      BY <1>3, StageArguments DEF ReturnGetBuf, Returning, TypeInv, AnswerOK
    <2>2. \A e \in Fresh(cache[p][CurKey(p)]) : InsertStr(e, reply[p].val, reply[p].flags) \in Entry
      BY <1>e, <1>f, <2>1, InsertType
    <2>3. config' = config /\ ret' \in [Proc -> Val \cup Num \cup {NoVal, Junk}]
      BY <1>3, <1>e, <1>f DEF ReturnGetBuf
    <2>4. cache' \in [Proc -> [Key -> Entry]]
      <3>1. CASE cache' = cache
        BY <1>e, <3>1
      <3>2. CASE cache' # cache
        <4>1. PICK e \in Fresh(cache[p][CurKey(p)]) :
                cache' = [cache EXCEPT ![p][CurKey(p)] =
                                           InsertStr(e, reply[p].val, reply[p].flags)]
          BY <1>3, <3>2 DEF ReturnGetBuf
        <4>2. QED
          BY <1>e, <2>1, <2>2, <4>1
      <3>3. QED
        BY <3>1, <3>2
    <2>5. QED
      BY <1>e, <2>3, <2>4
  <1>4. CASE ReturnGetInt(p)
    <2>1. CurKey(p) \in Key /\ reply[p].val \in Num
      BY <1>4, StageArguments DEF ReturnGetInt, Returning, TypeInv, AnswerOK
    <2>2. \A e \in Fresh(cache[p][CurKey(p)]) : InsertInt(e, reply[p].val, reply[p].flags) \in Entry
      BY <1>e, <1>f, <2>1, InsertType
    <2>3. config' = config /\ ret' \in [Proc -> Val \cup Num \cup {NoVal, Junk}]
      BY <1>4, <1>e, <1>f DEF ReturnGetInt
    <2>4. cache' \in [Proc -> [Key -> Entry]]
      <3>1. CASE cache' = cache
        BY <1>e, <3>1
      <3>2. CASE cache' # cache
        <4>1. PICK e \in Fresh(cache[p][CurKey(p)]) :
                cache' = [cache EXCEPT ![p][CurKey(p)] =
                                           InsertInt(e, reply[p].val, reply[p].flags)]
          BY <1>4, <3>2 DEF ReturnGetInt
        <4>2. QED
          BY <1>e, <2>1, <2>2, <4>1
      <3>3. QED
        BY <3>1, <3>2
    <2>5. QED
      BY <1>e, <2>3, <2>4
  <1>5. CASE ReturnClear(p)
    <2>1. EmptyCache \in [Key -> Entry]
      BY DEF EmptyCache, NoEntry, Entry, Flags
    <2>2. QED
      BY <1>5, <1>e, <2>1 DEF ReturnClear
  <1>6. CASE ReturnOther(p)
    BY <1>6, <1>e DEF ReturnOther
  <1>7. QED
    BY <1>1, <1>2, <1>3, <1>4, <1>5, <1>6

\* The firmware's calls keep the invariant.
LEMMA CallType ==
    ASSUME TypeInv, NEW p \in Proc, Call(p)
    PROVE  TypeInv'
  <1> PICK c \in Calls :
        LET l == IF c.op \in InitFirst /\ ~init[p] THEN "init" ELSE Body(p, c.op)
        IN  /\ l # "idle"
            /\ pc' = [pc EXCEPT ![p] = l]
            /\ call' = [call EXCEPT ![p] = c]
            /\ init' = [init EXCEPT ![p] = @ \/ l = "init"]
            /\ lost' = IF l = "init" THEN [lost EXCEPT ![p] = {}] ELSE lost
    BY DEF Call
  <1> DEFINE l == IF c.op \in InitFirst /\ ~init[p] THEN "init" ELSE Body(p, c.op)
  <1>1. c.op \in AllOps /\ (c.op = "set" => c.val \in Val)
    BY CallArguments, GuestAssumption DEF Calls, Request
  <1>2. l \in StagesOf(c.op) \cup {"idle"} /\ (l = "set" => c.op = "set")
    BY <1>1 DEF Body, StagesOf, AllOps, KeyOps, PlainOps, InitFirst
  <1>3. l \in Stages
    BY <1>1, <1>2 DEF StagesOf, Stages, AllOps, KeyOps, PlainOps
  <1>4. l \in StagesOf(c.op) /\ (l = "set" => c.val # NoVal)
    BY <1>1, <1>2, PluginAssumption
  <1>5. TypeOK'
    <2>1. /\ pc' \in [Proc -> Stages]
          /\ call' \in [Proc -> Calls \cup {NoCall}]
          /\ init' \in [Proc -> BOOLEAN]
          /\ lost' \in [Proc -> SUBSET Key]
      BY <1>3 DEF TypeInv, TypeOK
    <2>2. ret' \in [Proc -> Val \cup Num \cup {NoVal, Junk}]
      BY DEF Call, TypeInv, TypeOK
    <2>3. QED
      BY <2>1, <2>2 DEF Call, TypeInv, TypeOK, PluginTypeOK, hostVars
  <1>6. StageOK'
    BY <1>4 DEF TypeInv, TypeOK, StageOK
  <1>7. AnswerOK'
    <2>1. reply' = reply /\ \A q \in Proc : q # p => pc'[q] = pc[q]
      BY DEF Call, TypeInv, TypeOK
    <2>2. reply[p] = NoReply
      BY DEF Call, TypeInv, AnswerOK
    <2>3. QED
      BY <2>1, <2>2 DEF TypeInv, AnswerOK
  <1>8. QED
    BY <1>5, <1>6, <1>7 DEF TypeInv

LEMMA RestartType ==
    ASSUME TypeInv, NEW p \in Proc, Restart(p)
    PROVE  TypeInv'
  <1>1. /\ pc' \in [Proc -> Stages]
        /\ call' \in [Proc -> Calls \cup {NoCall}]
        /\ idx' \in [Proc -> 1 .. Len(Defaults)]
        /\ reply' \in [Proc -> Reply]
        /\ StageOK' /\ AnswerOK'
    BY GotoStep DEF Restart
  <1>2. EmptyCache \in [Key -> Entry] /\ {} \in Flags
    BY DEF EmptyCache, NoEntry, Entry, Flags
  <1>3. /\ init' \in [Proc -> BOOLEAN] /\ config' \in [Proc -> Flags]
        /\ cache' \in [Proc -> [Key -> Entry]]
        /\ ret' \in [Proc -> Val \cup Num \cup {NoVal, Junk}]
        /\ gone' \subseteq Key /\ lost' \in [Proc -> SUBSET Key]
    BY <1>2 DEF Restart, TypeInv, TypeOK
  <1>4. QED
    BY <1>1, <1>3 DEF Restart, TypeInv, TypeOK, PluginTypeOK, hostVars

\* The plugin's methods keep the invariant.
LEMMA ScriptType ==
    ASSUME TypeInv, Script
    PROVE  TypeInv'
  <1>1. UNCHANGED <<reply, guestVars>>
    BY DEF Script, SetConf, AddCache, RemoveCache, SetCache, AddNvram, SetNvram
  <1>2. conf' \in Flags
    BY GuestAssumption
    DEF Script, SetConf, AddCache, RemoveCache, SetCache, AddNvram, SetNvram,
        TypeInv, TypeOK, PluginTypeOK
  <1>3. cacheCfg' \in [Key -> Flags]
    <2>1. {} \in Flags
      BY DEF Flags
    <2>2. CacheCfgs \subseteq Flags
      BY GuestAssumption
    <2>3. [Key -> CacheCfgs] \subseteq [Key -> Flags]
      BY <2>2
    <2>4. cacheCfg \in [Key -> Flags]
      BY DEF TypeInv, TypeOK, PluginTypeOK
    <2>5. QED
      BY <2>1, <2>2, <2>3, <2>4
      DEF Script, SetConf, AddCache, RemoveCache, SetCache, AddNvram, SetNvram
  <1>4. nvram' \in [Key -> Val \cup {NoVal}]
    <2>1. Images \subseteq [Key -> Val \cup {NoVal}]
      BY GuestAssumption
    <2>2. nvram \in [Key -> Val \cup {NoVal}]
      BY DEF TypeInv, TypeOK, PluginTypeOK
    <2>3. QED
      BY <2>1, <2>2
      DEF Script, SetConf, AddCache, RemoveCache, SetCache, AddNvram, SetNvram
  <1>5. gone' \subseteq Key /\ lost' \in [Proc -> SUBSET Key]
    BY DEF Script, Written, history, TypeInv, TypeOK
  <1>6. TypeOK'
    BY <1>1, <1>2, <1>3, <1>4, <1>5 DEF TypeInv, TypeOK, PluginTypeOK, guestVars
  <1>7. StageOK' /\ AnswerOK'
    BY <1>1 DEF TypeInv, StageOK, AnswerOK, guestVars
  <1>8. QED
    BY <1>6, <1>7 DEF TypeInv

LEMMA InitType == Init => TypeInv
  <1> SUFFICES ASSUME Init PROVE TypeInv
    OBVIOUS
  <1>1. NoReply \in Reply /\ EmptyCache \in [Key -> Entry] /\ {} \in Flags
    BY DEF NoReply, Word, Reply, Tags, Flags, EmptyCache, NoEntry, Entry
  <1>2. PluginTypeOK
    <2>1. CacheCfgs \subseteq Flags /\ Confs \subseteq Flags
          /\ Images \subseteq [Key -> Val \cup {NoVal}]
      BY GuestAssumption
    <2>2. [Key -> CacheCfgs] \subseteq [Key -> Flags]
      BY <2>1
    <2>3. QED
      BY <1>1, <2>1, <2>2 DEF Init, PluginTypeOK
  <1>3. TypeOK
    <2>1. 1 \in 1 .. Len(Defaults)
      BY GuestAssumption
    <2>2. QED
      BY <1>1, <1>2, <2>1 DEF Init, TypeOK, Stages
  <1>4. StageOK /\ AnswerOK
    BY DEF Init, StageOK, AnswerOK, StagesOf, NoCall
  <1>5. QED
    BY <1>3, <1>4 DEF TypeInv

LEMMA StepType == TypeInv /\ [Next]_vars => TypeInv'
  <1> SUFFICES ASSUME TypeInv, [Next]_vars PROVE TypeInv'
    OBVIOUS
  <1>1. ASSUME NEW p \in Proc, Call(p) PROVE TypeInv'
    BY <1>1, CallType
  <1>2. ASSUME NEW p \in Proc, Step(p) PROVE TypeInv'
    BY <1>2, TrapType, LeaveType DEF Step
  <1>3. ASSUME NEW p \in Proc, Restart(p) PROVE TypeInv'
    BY <1>3, RestartType
  <1>4. CASE Script
    BY <1>4, ScriptType
  <1>5. CASE UNCHANGED vars
    BY <1>5 DEF vars, hostVars, guestVars, history, TypeInv, TypeOK, PluginTypeOK, StageOK, AnswerOK
  <1>6. QED
    BY <1>1, <1>2, <1>3, <1>4, <1>5 DEF Next

\* Every variable keeps its type: a call only ever goes through the stages of
\* its own function, whose buffers and answers are of the kind the stage reads
\* (all of nvram.c and nvram_plugin.py that the model covers).
THEOREM TypeCorrect == Spec => []TypeOK
  <1>1. TypeInv => TypeOK
    BY DEF TypeInv
  <1>2. QED
    BY <1>1, InitType, StepType, PTL DEF Spec

-----------------------------------------------------------------------------
(* The defaults survive on a quiet host. *)

\* Only a stage's own steps and NVRAM_INIT's answer could bring bit 2 in.
LEMMA UncachedStep ==
    ASSUME QuietHost, TypeInv, Uncached, [Next]_vars
    PROVE  Uncached'
  <1> USE DEF Uncached
  <1>0. NoReply.flags = {}
    BY DEF NoReply, Word
  <1>1. ASSUME NEW p \in Proc, Call(p) PROVE Uncached'
    <2>1. conf' = conf /\ config' = config /\ reply' = reply
          /\ \A q \in Proc : q # p => pc'[q] = pc[q]
      BY <1>1 DEF Call, hostVars, TypeInv, TypeOK
    <2>2. reply[p] = NoReply
      BY <1>1 DEF Call, TypeInv, AnswerOK
    <2>3. QED
      BY <1>0, <2>1, <2>2
  <1>2. ASSUME NEW p \in Proc, TrapInit(p) PROVE Uncached'
    BY <1>2 DEF TrapInit, Trapping, HcInit, SetRetval, Word, hostVars, guestVars,
                TypeInv, TypeOK, PluginTypeOK
  <1>3. ASSUME NEW p \in Proc,
               \/ TrapGetBuf(p) \/ TrapGetInt(p) \/ TrapSet(p) \/ TrapSetInt(p)
               \/ TrapUnset(p) \/ TrapClear(p) \/ TrapSync(p) \/ TrapBlocked(p)
        PROVE  Uncached'
    <2>1. conf' = conf /\ config' = config /\ pc' = pc /\ pc[p] # "init"
          /\ \E w : SetRetval(p, w)
      BY <1>3 DEF QuietHost, TrapGetBuf, TrapGetInt, TrapSet, TrapSetInt, TrapUnset,
                  TrapClear, TrapSync, TrapBlocked, Trapping, HcGetBuf, HcGetInt, HcSet,
                  HcSetInt, HcUnset, HcClear, HcSync, HcBlocked, hostVars, guestVars
    <2>2. \A q \in Proc : q # p => reply'[q] = reply[q]
      BY <2>1 DEF SetRetval, TypeInv, TypeOK, PluginTypeOK
    <2>3. QED
      BY <2>1, <2>2
  <1>4. ASSUME NEW p \in Proc, NEW l, Goto(p, l), conf' = conf,
               \/ config' = config
               \/ config' = [config EXCEPT ![p] = {}]
               \/ pc[p] = "init" /\ config' = [config EXCEPT ![p] = reply[p].flags]
        PROVE  Uncached'
    <2>1. \A q \in Proc : 2 \notin config'[q]
      BY <1>4 DEF TypeInv, TypeOK
    <2>2. \A q \in Proc : pc'[q] = "init" => 2 \notin reply'[q].flags
      BY <1>0, <1>4 DEF Goto, Enter, Loading, TypeInv, TypeOK, PluginTypeOK
    <2>3. QED
      BY <1>4, <2>1, <2>2
  <1>5. ASSUME NEW p \in Proc,
               \/ CacheHit(p) \/ ReturnInit(p) \/ ReturnGetBuf(p) \/ ReturnGetInt(p)
               \/ ReturnClear(p) \/ ReturnOther(p) \/ Restart(p)
        PROVE  Uncached'
    <2>1. conf' = conf /\ \E l : Goto(p, l)
      BY <1>5 DEF CacheHit, ReturnInit, ReturnGetBuf, ReturnGetInt, ReturnClear,
                  ReturnOther, Restart, hostVars
    <2>2. \/ config' = config
          \/ config' = [config EXCEPT ![p] = {}]
          \/ pc[p] = "init" /\ config' = [config EXCEPT ![p] = reply[p].flags]
      BY <1>5 DEF CacheHit, ReturnInit, ReturnGetBuf, ReturnGetInt, ReturnClear,
                  ReturnOther, Restart, Returning
    <2>3. QED
      BY <1>4, <2>1, <2>2
  <1>6. CASE Script
    BY <1>6 DEF QuietHost, Script, SetConf, AddCache, RemoveCache, SetCache, AddNvram,
                SetNvram, guestVars
  <1>7. CASE UNCHANGED vars
    BY <1>7 DEF vars, hostVars, guestVars
  <1>8. QED
    BY <1>1, <1>2, <1>3, <1>5, <1>6, <1>7 DEF Next, Step

\* A default key is accounted for.
Kept(k) == nvram[k] # NoVal \/ k \in gone \/ \E p \in Proc : Owes(p, k) \/ k \in lost[p]

\* Traps: only NVRAM_UNSET and NVRAM_CLEAR take keys away, and only the
\* NVRAM_SET of a load pays what p owes.
LEMMA TrapKeeps ==
    ASSUME QuietHost, TypeInv, NEW p \in Proc, NEW k \in DefaultKeys, k \in Key, Kept(k),
           \/ TrapInit(p) \/ TrapGetBuf(p) \/ TrapGetInt(p) \/ TrapSet(p) \/ TrapSetInt(p)
           \/ TrapUnset(p) \/ TrapClear(p) \/ TrapSync(p) \/ TrapBlocked(p)
    PROVE  Kept(k)'
  <1>a. UNCHANGED guestVars
    BY DEF TrapInit, TrapGetBuf, TrapGetInt, TrapSet, TrapSetInt, TrapUnset, TrapClear,
           TrapSync, TrapBlocked
  <1>b. \A q \in Proc : q # p => reply'[q] = reply[q]
    BY DEF TrapInit, TrapGetBuf, TrapGetInt, TrapSet, TrapSetInt, TrapUnset, TrapClear,
           TrapSync, TrapBlocked, HcInit, HcGetBuf, HcGetInt, HcSet, HcSetInt, HcUnset,
           HcClear, HcSync, HcBlocked, SetRetval, TypeInv, TypeOK, PluginTypeOK
  <1>c. \A q \in Proc : q # p /\ Owes(q, k) => Owes(q, k)'
    BY <1>a, <1>b DEF Owes, guestVars
  <1>d. pc[p] # "load" /\ Owes(p, k) => Owes(p, k)'
    BY <1>a DEF Owes, guestVars
  <1>1. CASE TrapInit(p) \/ TrapGetBuf(p) \/ TrapGetInt(p) \/ TrapSync(p) \/ TrapBlocked(p)
    <2>1. pc[p] # "load" /\ nvram' = nvram /\ gone' = gone /\ lost' = lost
      BY <1>1 DEF history, QuietHost, TrapInit, TrapGetBuf, TrapGetInt, TrapSync, TrapBlocked,
                  Trapping, HcInit, HcGetBuf, HcGetInt, HcSync, HcBlocked, hostVars
    <2>2. QED
      BY <1>c, <1>d, <2>1 DEF Kept
  <1>2. CASE TrapSet(p)
    <2>1. CurKey(p) \in Key /\ CurVal(p) \in Val
      BY <1>2, StageArguments DEF TrapSet, Trapping
    <2>2. nvram' = [nvram EXCEPT ![CurKey(p)] = CurVal(p)] /\ Written(CurKey(p))
      BY <1>2 DEF TrapSet, HcSet
    <2>3. CASE k = CurKey(p)
      BY <2>1, <2>2, <2>3, PluginAssumption DEF Kept, TypeInv, TypeOK, PluginTypeOK
    <2>4. CASE k # CurKey(p)
      <3>1. nvram'[k] = nvram[k] /\ (k \in gone => k \in gone')
            /\ \A q \in Proc : k \in lost[q] => k \in lost'[q]
        BY <2>1, <2>2, <2>4 DEF Written, TypeInv, TypeOK, PluginTypeOK
      <3>2. Owes(p, k) => Owes(p, k)'
        <4>1. CASE pc[p] # "load"
          BY <1>d, <4>1
        <4>2. CASE pc[p] = "load"
          BY <1>a, <2>4, <4>2 DEF Owes, CurKey, guestVars
        <4>3. QED
          BY <4>1, <4>2
      <3>3. QED
        BY <1>c, <3>1, <3>2 DEF Kept
    <2>5. QED
      BY <2>3, <2>4
  <1>3. CASE TrapSetInt(p)
    <2>1. CurKey(p) \in Key /\ CurVal(p) \in Num /\ pc[p] # "load"
      BY <1>3, StageArguments DEF TrapSetInt, Trapping
    <2>2. PICK v \in Misread[CurVal(p)] : nvram' = [nvram EXCEPT ![CurKey(p)] = v]
      BY <1>3 DEF TrapSetInt, HcSetInt
    <2>3. v \in Val
      BY <2>1, <2>2, PluginAssumption
    <2>4. CASE k = CurKey(p)
      BY <2>1, <2>2, <2>3, <2>4, PluginAssumption DEF Kept, TypeInv, TypeOK, PluginTypeOK
    <2>5. CASE k # CurKey(p)
      <3>1. nvram'[k] = nvram[k] /\ (k \in gone => k \in gone')
            /\ \A q \in Proc : k \in lost[q] => k \in lost'[q]
        BY <1>3, <2>1, <2>2, <2>5 DEF TrapSetInt, Written, TypeInv, TypeOK, PluginTypeOK
      <3>2. QED
        BY <1>c, <1>d, <2>1, <3>1 DEF Kept
    <2>6. QED
      BY <2>4, <2>5
  <1>4. CASE TrapUnset(p)
    <2>1. CurKey(p) \in Key /\ pc[p] # "load"
      BY <1>4, StageArguments DEF TrapUnset, Trapping
    <2>2. nvram' = [nvram EXCEPT ![CurKey(p)] = NoVal] /\ gone' = gone \cup {CurKey(p)} /\ lost' = lost
      BY <1>4 DEF TrapUnset, HcUnset
    <2>3. k \in gone' \/ nvram'[k] = nvram[k]
      BY <2>2 DEF TypeInv, TypeOK, PluginTypeOK
    <2>4. QED
      BY <1>c, <1>d, <2>1, <2>2, <2>3 DEF Kept
  <1>5. CASE TrapClear(p)
    <2>1. pc'[p] = "clear" /\ call' = call
      BY <1>5, <1>a DEF TrapClear, Trapping, guestVars
    <2>2. CASE call[p].op = "reset"
      BY <2>1, <2>2 DEF Kept, Owes
    <2>3. CASE call[p].op # "reset"
      BY <1>5, <2>3 DEF Kept, TrapClear
    <2>4. QED
      BY <2>2, <2>3
  <1>6. QED
    BY <1>1, <1>2, <1>3, <1>4, <1>5

\* Returns: what p owes when it leaves a stage it owes afterwards as well.
LEMMA ReturnKeeps ==
    ASSUME TypeInv, Uncached, NEW p \in Proc, NEW k \in DefaultKeys, Kept(k),
           \/ CacheHit(p) \/ ReturnInit(p) \/ ReturnGetBuf(p) \/ ReturnGetInt(p)
           \/ ReturnClear(p) \/ ReturnOther(p)
    PROVE  Kept(k)'
  <1>1. PICK found \in BOOLEAN : Goto(p, After(p, found))
    <2>1. (reply[p].tag # "NOTFOUND") \in BOOLEAN
      OBVIOUS
    <2>2. QED
      BY <2>1 DEF CacheHit, ReturnInit, ReturnGetBuf, ReturnGetInt, ReturnClear, ReturnOther
  <1>2. nvram' = nvram /\ gone' = gone /\ lost' = lost
    BY DEF history, CacheHit, ReturnInit, ReturnGetBuf, ReturnGetInt, ReturnClear, ReturnOther, hostVars
  <1>3. reply[p] # NoReply
    BY DEF CacheHit, Hit, Cached, Uncached, ReturnInit, ReturnGetBuf, ReturnGetInt,
           ReturnClear, ReturnOther, Returning
  <1>4. ASSUME NEW q \in Proc, Owes(q, k), q # p PROVE Owes(q, k)'
    <2>1. pc'[q] = pc[q] /\ call'[q] = call[q] /\ idx'[q] = idx[q] /\ reply'[q] = reply[q]
      BY <1>1, <1>4 DEF Goto, Enter, Loading, TypeInv, TypeOK, PluginTypeOK
    <2>2. QED
      BY <1>4, <2>1 DEF Owes
  <1>5. ASSUME Owes(p, k) PROVE Owes(p, k)'
    <2>1. /\ pc'[p] = After(p, found) /\ reply'[p] = NoReply
          /\ idx'[p] = IF pc[p] = "load" /\ After(p, found) = "load" THEN idx[p] + 1 ELSE 1
      BY <1>1 DEF Goto, Enter, Loading, TypeInv, TypeOK, PluginTypeOK
    <2>2. CASE pc[p] # "load"
      <3>1. pc'[p] = "load" /\ idx'[p] = 1
        BY <1>5, <2>1, <2>2 DEF Owes, After
      <3>2. PICK d \in Range(Defaults) : d.key = k
        BY DEF DefaultKeys
      <3>3. PICK i \in 1 .. Len(Defaults) : Defaults[i] = d
        BY <3>2, GuestAssumption DEF Range
      <3>4. QED
        BY <2>1, <3>1, <3>2, <3>3 DEF Owes
    <2>3. CASE pc[p] = "load"
      <3>1. PICK i \in idx[p] .. Len(Defaults) :
              Defaults[i].key = k /\ (i = idx[p] => reply[p] = NoReply)
        BY <1>5, <2>3 DEF Owes
      <3>2. idx[p] \in 1 .. Len(Defaults) /\ Len(Defaults) \in Nat
        BY GuestAssumption DEF TypeInv, TypeOK
      <3>3. i \in idx[p] + 1 .. Len(Defaults)
        BY <1>3, <3>1, <3>2
      <3>4. After(p, found) = "load"
        BY <2>3, <3>2, <3>3 DEF After
      <3>5. QED
        BY <2>1, <2>3, <3>1, <3>3, <3>4 DEF Owes
    <2>4. QED
      BY <2>2, <2>3
  <1>6. QED
    BY <1>2, <1>4, <1>5 DEF Kept

LEMMA DefaultKeysAreKeys == DefaultKeys \subseteq Key
  <1> SUFFICES ASSUME NEW d \in Range(Defaults) PROVE d.key \in Key
    BY DEF DefaultKeys
  <1>1. PICK i \in 1 .. Len(Defaults) : Defaults[i] = d
    BY GuestAssumption DEF Range
  <1>2. d \in Pair
    BY <1>1, GuestAssumption
  <1>3. QED
    BY <1>2 DEF Pair

LEMMA SurviveStep ==
    ASSUME QuietHost, TypeInv, Uncached, DefaultsSurvive, [Next]_vars
    PROVE  DefaultsSurvive'
  <1> SUFFICES ASSUME NEW r \in Proc, init'[r], NEW k \in DefaultKeys
               PROVE  Kept(k)'
    BY DEF DefaultsSurvive, Kept
  <1>a. k \in Key
    BY DefaultKeysAreKeys
  <1>b. (\E p \in Proc : init[p]) => Kept(k)
    BY DEF DefaultsSurvive, Kept
  <1>1. ASSUME NEW p \in Proc, Call(p) PROVE Kept(k)'
    <2>1. nvram' = nvram /\ gone' = gone /\ reply' = reply
      BY <1>1 DEF Call, hostVars
    <2>2. pc[p] = "idle" /\ \A q \in Proc : q # p =>
            pc'[q] = pc[q] /\ call'[q] = call[q] /\ idx'[q] = idx[q] /\ init'[q] = init[q]
      BY <1>1 DEF Call, TypeInv, TypeOK
    <2>3. CASE pc'[p] = "init"
      BY <2>3 DEF Kept, Owes
    <2>4. CASE pc'[p] # "init"
      <3>1. init'[p] = init[p]
        BY <1>1, <2>4 DEF Call, TypeInv, TypeOK
      <3>2. Kept(k)
        BY <1>b, <2>2, <3>1
      <3>3. \A q \in Proc : Owes(q, k) => Owes(q, k)'
        BY <2>1, <2>2 DEF Owes
      <3>4. lost' = lost
        BY <1>1, <2>2, <2>4 DEF Call, TypeInv, TypeOK
      <3>5. QED
        BY <2>1, <3>2, <3>3, <3>4 DEF Kept
    <2>5. QED
      BY <2>3, <2>4
  <1>2. ASSUME NEW p \in Proc, Step(p) PROVE Kept(k)'
    <2>1. init' = init
      BY <1>2 DEF Step, CacheHit, TrapInit, TrapGetBuf, TrapGetInt, TrapSet, TrapSetInt,
                  TrapUnset, TrapClear, TrapSync, TrapBlocked, ReturnInit, ReturnGetBuf,
                  ReturnGetInt, ReturnClear, ReturnOther, guestVars
    <2>2. Kept(k)
      BY <1>b, <2>1
    <2>3. QED
      BY <1>2, <1>a, <2>2, TrapKeeps, ReturnKeeps DEF Step
  <1>3. ASSUME NEW p \in Proc, Restart(p) PROVE Kept(k)'
    <2>1. Kept(k)
      BY <1>3, <1>b DEF Restart, TypeInv, TypeOK
    <2>2. /\ nvram' = nvram /\ gone' = gone
          /\ lost' = [lost EXCEPT ![p] = @ \cup {x \in Key : nvram[x] = NoVal /\ Owes(p, x)}]
      BY <1>3 DEF Restart, hostVars
    <2>3. \A q \in Proc : q # p /\ Owes(q, k) => Owes(q, k)'
      BY <1>3 DEF Restart, Goto, Enter, Loading, Owes, TypeInv, TypeOK, PluginTypeOK
    <2>4. \A q \in Proc : k \in lost[q] => k \in lost'[q]
      BY <2>2 DEF TypeInv, TypeOK
    <2>5. nvram[k] = NoVal /\ Owes(p, k) => k \in lost'[p]
      BY <1>a, <2>2 DEF TypeInv, TypeOK
    <2>6. QED
      BY <2>1, <2>2, <2>3, <2>4, <2>5 DEF Kept
  <1>4. CASE Script
    <2>1. UNCHANGED guestVars /\ reply' = reply
      BY <1>4 DEF Script, SetConf, AddCache, RemoveCache, SetCache, AddNvram, SetNvram
    <2>2. Kept(k)
      BY <1>b, <2>1 DEF guestVars
    <2>3. \A q \in Proc : Owes(q, k) => Owes(q, k)'
      BY <2>1 DEF Owes, guestVars
    <2>4. \/ nvram' = nvram /\ UNCHANGED history
          \/ \E x \in Key, v \in Val : nvram' = [nvram EXCEPT ![x] = v] /\ Written(x)
          \/ gone' = {x \in Key : nvram'[x] = NoVal}
      BY <1>4 DEF Script, SetConf, AddCache, RemoveCache, SetCache, AddNvram, SetNvram
    <2>5. nvram' = nvram /\ UNCHANGED history => Kept(k)'
      BY <2>2, <2>3 DEF Kept, history
    <2>6. ASSUME NEW x \in Key, NEW v \in Val,
                 nvram' = [nvram EXCEPT ![x] = v], Written(x)
          PROVE  Kept(k)'
      <3>1. x = k => nvram'[k] # NoVal
        BY <2>6, PluginAssumption DEF TypeInv, TypeOK, PluginTypeOK
      <3>2. x # k => /\ nvram'[k] = nvram[k] /\ (k \in gone => k \in gone')
                     /\ \A q \in Proc : k \in lost[q] => k \in lost'[q]
        BY <2>6 DEF Written, TypeInv, TypeOK, PluginTypeOK
      <3>3. QED
        BY <2>2, <2>3, <3>1, <3>2 DEF Kept
    <2>7. gone' = {x \in Key : nvram'[x] = NoVal} => Kept(k)'
      BY <1>a DEF Kept
    <2>8. QED
      BY <2>4, <2>5, <2>6, <2>7
  <1>5. CASE UNCHANGED vars
    <2>1. Kept(k)
      BY <1>5, <1>b DEF vars, guestVars
    <2>2. QED
      BY <1>5, <2>1 DEF Kept, Owes, vars, hostVars, guestVars, history
  <1>6. QED
    BY <1>1, <1>2, <1>3, <1>4, <1>5 DEF Next

\* On a host that leaves caching off and lets every NVRAM_INIT and every
\* NVRAM_SET of a default through, no interleaving of resets, clears,
\* initialisations, restarts and scripts loses a default for good: what a process
\* that died has left out is there again once it has initialised the library.
THEOREM DefaultsSafe == ASSUME QuietHost PROVE Spec => []DefaultsSurvive
  <1>1. Init => Uncached
    BY DEF Init, Uncached, QuietHost
  <1>2. Init => DefaultsSurvive
    BY DEF Init, DefaultsSurvive
  <1>3. TypeInv /\ Uncached /\ DefaultsSurvive /\ [Next]_vars => Uncached' /\ DefaultsSurvive'
    BY UncachedStep, SurviveStep
  <1>4. QED
    BY <1>1, <1>2, <1>3, InitType, StepType, PTL DEF Spec
=============================================================================
