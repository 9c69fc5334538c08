------------------------ MODULE HyperNvramReadsProofs ------------------------
(***************************************************************************)
(* The proof that HyperNvram implements PinnedReads, for any number of     *)
(* processes, keys and values.                                             *)
(***************************************************************************)
EXTENDS HyperNvramReads, HyperNvramProofs

ReadStages == {"get", "reget", "getint"}

\* The firmware reads a key either as strings or as integers.
ReadsApart == StrKey \cap IntKey = {}

\* The word for a missing key answers reads of strings only, and has no flags.
MissesPlain ==
    \A p \in Proc :
        Answered(p) /\ reply[p].tag = "NOTFOUND" =>
            pc[p] # "getint" /\ reply[p].flags = {}

\* A process that has not initialised the library is in no function that would,
\* and nothing is cached before the configuration word is there.
NothingEarly ==
    \A p \in Proc :
        /\ call[p].op \in InitFirst => init[p]
        /\ ~init[p] \/ pc[p] = "init" => cache[p] = EmptyCache

ReadsInv == TypeInv /\ MissesPlain /\ NothingEarly

\* What a step of p leaves alone: all of the other processes.
Others(p) ==
    \A q \in Proc \ {p} :
        /\ config'[q] = config[q] /\ cache'[q] = cache[q]
        /\ pc'[q] = pc[q] /\ call'[q] = call[q] /\ idx'[q] = idx[q]
        /\ reply'[q] = reply[q] /\ ret'[q] = ret[q] /\ init'[q] = init[q]

-----------------------------------------------------------------------------

\* A stage that reads has a key of its kind.
LEMMA ReadKeys ==
    ASSUME TypeInv, NEW p \in Proc
    PROVE  /\ pc[p] \in {"get", "reget"} => CurKey(p) \in StrKey
           /\ pc[p] = "getint" => CurKey(p) \in IntKey
           /\ pc[p] \in ReadStages => CurKey(p) \in Key
           /\ pc[p] \in ReadStages \cup {"init"} => call[p].op \in InitFirst
  <1>1. call[p] \in Calls \cup {NoCall} /\ pc[p] \in StagesOf(call[p].op)
    BY DEF TypeInv, TypeOK, StageOK
  <1>2. call[p].op \in AllOps \cup {"none"}
    BY <1>1, CallArguments
  <1>3. /\ call[p].op \in {"get", "safe_unset", "default_get"} => call[p].key \in StrKey
        /\ call[p].op = "get_int" => call[p].key \in IntKey
    BY <1>1 DEF Calls, Request, NoCall, PlainOps
  <1>4. /\ pc[p] \in {"get", "reget"} => call[p].op \in {"get", "safe_unset", "default_get"}
        /\ pc[p] = "getint" => call[p].op = "get_int"
        /\ pc[p] = "init" => call[p].op \in InitFirst
    BY <1>1, <1>2 DEF StagesOf, AllOps, KeyOps, PlainOps, InitFirst
  <1>5. QED
    BY <1>3, <1>4, GuestAssumption DEF CurKey, ReadStages, InitFirst

\* Every step of a process leaves the others alone.
LEMMA OnlyOne ==
    ASSUME TypeInv, NEW p \in Proc, Call(p) \/ Step(p) \/ Restart(p)
    PROVE  Others(p)
  <1>1. CASE Call(p)
    BY <1>1 DEF Call, Others, TypeInv, TypeOK, PluginTypeOK
  <1>2. CASE CacheHit(p) \/ ReturnInit(p) \/ ReturnGetBuf(p) \/ ReturnGetInt(p)
             \/ ReturnClear(p) \/ ReturnOther(p) \/ Restart(p)
    <2>1. \E l, i : Enter(p, l, i)
      BY <1>2 DEF CacheHit, ReturnInit, ReturnGetBuf, ReturnGetInt, ReturnClear, ReturnOther,
                  Restart, Goto
    <2>2. \A q \in Proc \ {p} : pc'[q] = pc[q] /\ call'[q] = call[q] /\ idx'[q] = idx[q]
                                /\ reply'[q] = reply[q]
      BY <2>1 DEF Enter, TypeInv, TypeOK, PluginTypeOK
    <2>3. \A q \in Proc \ {p} : config'[q] = config[q] /\ ret'[q] = ret[q] /\ init'[q] = init[q]
      BY <1>2 DEF CacheHit, ReturnInit, ReturnGetBuf, ReturnGetInt, ReturnClear, ReturnOther,
                  Restart, TypeInv, TypeOK
    <2>4. \A q \in Proc \ {p} : cache'[q] = cache[q]
      BY <1>2 DEF CacheHit, ReturnInit, ReturnGetBuf, ReturnGetInt, ReturnClear, ReturnOther,
                  Restart, TypeInv, TypeOK
    <2>5. QED
      BY <2>2, <2>3, <2>4 DEF Others
  <1>3. CASE \/ TrapInit(p) \/ TrapGetBuf(p) \/ TrapGetInt(p) \/ TrapSet(p) \/ TrapSetInt(p)
             \/ TrapUnset(p) \/ TrapClear(p) \/ TrapSync(p) \/ TrapBlocked(p)
    <2>1. UNCHANGED guestVars /\ \E w : SetRetval(p, w)
      BY <1>3 DEF TrapInit, TrapGetBuf, TrapGetInt, TrapSet, TrapSetInt, TrapUnset, TrapClear,
             TrapSync, TrapBlocked, HcInit, HcGetBuf, HcGetInt, HcSet, HcSetInt, HcUnset, HcClear,
             HcSync, HcBlocked
    <2>2. QED
      BY <2>1 DEF Others, guestVars, SetRetval, TypeInv, TypeOK, PluginTypeOK
  <1>4. QED
    BY <1>1, <1>2, <1>3 DEF Step

\* The words of the plugin: only that for a missing key has the tag NOTFOUND.
LEMMA MissStep ==
    ASSUME ReadsInv, NEW p \in Proc, Call(p) \/ Step(p) \/ Restart(p)
    PROVE  MissesPlain'
  <1> SUFFICES ASSUME NEW q \in Proc, Answered(q)', reply'[q].tag = "NOTFOUND"
               PROVE  pc'[q] # "getint" /\ reply'[q].flags = {}
    BY DEF MissesPlain
  <1>1. Others(p)
    BY OnlyOne DEF ReadsInv
  <1>2. CASE q # p
    <2>1. pc'[q] = pc[q] /\ reply'[q] = reply[q]
      BY <1>1, <1>2 DEF Others
    <2>2. Answered(q)
      BY <2>1 DEF Answered
    <2>3. QED
      BY <2>1, <2>2 DEF ReadsInv, MissesPlain
  <1>3. CASE q = p
    <2>1. CASE TrapGetBuf(p) \/ TrapGetInt(p)
      <3>1. \A k, v : Found(k, v).tag # "NOTFOUND"
        BY DEF Found, Word
      <3>2. Word("ZERO", {}, Zero).tag # "NOTFOUND" /\ NotFound.flags = {}
        BY DEF Word, NotFound
      <3>3. QED
        BY <1>3, <2>1, <3>1, <3>2
        DEF TrapGetBuf, TrapGetInt, HcGetBuf, HcGetInt, SetRetval, Trapping, guestVars,
            ReadsInv, TypeInv, TypeOK, PluginTypeOK
    <2>2. CASE \/ TrapInit(p) \/ TrapSet(p) \/ TrapSetInt(p) \/ TrapUnset(p) \/ TrapClear(p)
               \/ TrapSync(p)
      <3>1. pc' = pc /\ pc[p] \notin ReadStages
        BY <2>2 DEF TrapInit, TrapSet, TrapSetInt, TrapUnset, TrapClear, TrapSync,
                    Trapping, ReadStages, guestVars
      <3>2. QED
        BY <1>3, <3>1 DEF Answered, ReadStages
    <2>3. CASE \/ CacheHit(p) \/ ReturnInit(p) \/ ReturnGetBuf(p) \/ ReturnGetInt(p)
               \/ ReturnClear(p) \/ ReturnOther(p) \/ Restart(p)
      <3>1. \E l, i : Enter(p, l, i)
        BY <2>3 DEF CacheHit, ReturnInit, ReturnGetBuf, ReturnGetInt, ReturnClear, ReturnOther,
                    Restart, Goto
      <3>2. reply'[p] = NoReply
        BY <3>1 DEF Enter, ReadsInv, TypeInv, TypeOK, PluginTypeOK
      <3>3. QED
        BY <1>3, <3>2 DEF Answered
    <2>4. CASE Call(p)
      <3>1. reply'[p] = NoReply
        BY <2>4 DEF Call, ReadsInv, TypeInv, AnswerOK
      <3>2. QED
        BY <1>3, <3>1 DEF Answered
    <2>5. CASE TrapBlocked(p)
      <3>1. PICK v : reply' = [reply EXCEPT ![p] = Magic(v)]
        BY <2>5 DEF TrapBlocked, HcBlocked, SetRetval
      <3>2. reply'[p].tag = "MAGIC"
        BY <3>1 DEF Magic, Word, ReadsInv, TypeInv, TypeOK, PluginTypeOK
      <3>3. QED
        BY <1>3, <3>2
    <2>6. QED
      BY <2>1, <2>2, <2>3, <2>4, <2>5 DEF Step
  <1>4. QED
    BY <1>2, <1>3

\* The initialisation comes before the first read.
LEMMA EarlyStep ==
    ASSUME ReadsInv, NEW p \in Proc, Call(p) \/ Step(p) \/ Restart(p)
    PROVE  NothingEarly'
  <1> DEFINE Early(q) == /\ call[q].op \in InitFirst => init[q]
                         /\ ~init[q] \/ pc[q] = "init" => cache[q] = EmptyCache
  <1>1. Others(p) /\ \A q \in Proc : Early(q)
    BY OnlyOne DEF ReadsInv, NothingEarly
  <1>2. \A q \in Proc \ {p} : Early(q)'
    BY <1>1 DEF Others
  <1>3. Early(p)'
    <2>1. CASE Call(p)
      <3>1. PICK c \in Calls :
              LET l == IF c.op \in InitFirst /\ ~init[p] THEN "init" ELSE Body(p, c.op)
              IN  /\ l # "idle"
                  /\ pc' = [pc EXCEPT ![p] = l]
                  /\ call' = [call EXCEPT ![p] = c]
                  /\ init' = [init EXCEPT ![p] = @ \/ l = "init"]
        BY <2>1 DEF Call
      <3>2. call'[p] = c /\ cache' = cache
        BY <2>1, <3>1 DEF Call, ReadsInv, TypeInv, TypeOK
      <3>3. CASE c.op \in InitFirst /\ ~init[p]
        BY <1>1, <3>1, <3>2, <3>3 DEF ReadsInv, TypeInv, TypeOK
      <3>4. CASE ~(c.op \in InitFirst /\ ~init[p])
        <4>1. c.op \in AllOps
          BY CallArguments, GuestAssumption DEF Calls, Request, AllOps, KeyOps, PlainOps
        <4>2. Body(p, c.op) # "init" \/ Body(p, c.op) = "idle"
          BY <4>1 DEF Body, AllOps, KeyOps, PlainOps
        <4>3. pc'[p] # "init" /\ init'[p] = init[p]
          BY <3>1, <3>4, <4>2 DEF ReadsInv, TypeInv, TypeOK
        <4>4. QED
          BY <1>1, <3>2, <3>4, <4>3
      <3>5. QED
        BY <3>3, <3>4
    <2>2. CASE Restart(p)
      BY <2>2 DEF Restart, Goto, Enter, NoCall, InitFirst, ReadsInv, TypeInv, TypeOK
    <2>3. CASE \/ TrapInit(p) \/ TrapGetBuf(p) \/ TrapGetInt(p) \/ TrapSet(p) \/ TrapSetInt(p)
               \/ TrapUnset(p) \/ TrapClear(p) \/ TrapSync(p) \/ TrapBlocked(p)
      <3>1. UNCHANGED guestVars
        BY <2>3 DEF TrapInit, TrapGetBuf, TrapGetInt, TrapSet, TrapSetInt, TrapUnset, TrapClear,
                    TrapSync, TrapBlocked
      <3>2. QED
        BY <1>1, <3>1 DEF guestVars
    <2>4. CASE CacheHit(p) \/ ReturnInit(p) \/ ReturnGetBuf(p) \/ ReturnGetInt(p)
               \/ ReturnClear(p) \/ ReturnOther(p)
      <3>1. init' = init /\ pc[p] # "idle" /\ \E found \in BOOLEAN : Goto(p, After(p, found))
        BY <2>4, (reply[p].tag # "NOTFOUND") \in BOOLEAN
        DEF CacheHit, ReturnInit, ReturnGetBuf, ReturnGetInt, ReturnClear, ReturnOther, Returning
      <3>2. PICK found \in BOOLEAN : Goto(p, After(p, found))
        BY <3>1
      <3>3. call'[p] \in {NoCall, call[p]} /\ pc'[p] = After(p, found)
        BY <3>2 DEF Goto, Enter, ReadsInv, TypeInv, TypeOK
      <3>4. call'[p].op \in InitFirst => init'[p]
        BY <1>1, <3>1, <3>3 DEF NoCall, InitFirst
      <3>5. After(p, found) # "init"
        <4>1. \A op \in InitFirst : Body(p, op) # "init"
          BY DEF Body, InitFirst
        <4>2. QED
          BY <4>1 DEF After
      <3>6. ~init[p] => pc[p] \notin ReadStages
        BY <1>1, ReadKeys DEF ReadsInv
      <3>7. pc[p] \notin ReadStages => cache'[p] \in {cache[p], EmptyCache}
        BY <2>4 DEF CacheHit, ReturnInit, ReturnGetBuf, ReturnGetInt, ReturnClear, ReturnOther,
                    Returning, ReadStages, ReadsInv, TypeInv, TypeOK
      <3>8. QED
        BY <1>1, <3>1, <3>3, <3>4, <3>5, <3>6, <3>7
    <2>5. QED
      BY <2>1, <2>2, <2>3, <2>4 DEF Step
  <1>4. QED
    BY <1>2, <1>3 DEF NothingEarly

LEMMA InvStep == ReadsInv /\ [Next]_vars => ReadsInv'
  <1> SUFFICES ASSUME ReadsInv, [Next]_vars PROVE MissesPlain' /\ NothingEarly'
    BY StepType DEF ReadsInv
  <1>1. ASSUME NEW p \in Proc, Call(p) \/ Step(p) \/ Restart(p)
        PROVE  MissesPlain' /\ NothingEarly'
    BY <1>1, MissStep, EarlyStep
  <1>2. CASE Script \/ UNCHANGED vars
    <2>1. UNCHANGED <<reply, guestVars>>
      BY <1>2 DEF Script, SetConf, AddCache, RemoveCache, SetCache, AddNvram, SetNvram, vars
    <2>2. QED
      BY <2>1 DEF ReadsInv, MissesPlain, NothingEarly, Answered, guestVars
  <1>3. QED
    BY <1>1, <1>2 DEF Next

-----------------------------------------------------------------------------
(* The refinement mapping, process by process and key by key. *)

\* What the mapping gives for a process and a key, in a state and in the next.
LEMMA PinAt ==
    ASSUME NEW p \in Proc, NEW k \in Key
    PROVE  PinBar[p][k] = IF 2 \notin config[p] THEN NoVal
                          ELSE IF Answered(p) /\ CurKey(p) = k /\ ToCache(p) THEN Answer(p)
                          ELSE Held(p, k)
  BY DEF PinBar

LEMMA PinAtNext ==
    ASSUME NEW p \in Proc, NEW k \in Key
    PROVE  PinBar'[p][k] = IF 2 \notin config'[p] THEN NoVal
                           ELSE IF Answered(p)' /\ CurKey(p)' = k /\ ToCache(p)' THEN Answer(p)'
                           ELSE Held(p, k)'
  BY DEF PinBar

LEMMA MapDomains ==
    /\ DOMAIN PinBar = Proc /\ \A p \in Proc : DOMAIN PinBar[p] = Key
    /\ DOMAIN GotBar = Proc
    /\ PinBar = [p \in DOMAIN PinBar |-> PinBar[p]]
    /\ GotBar = [p \in DOMAIN GotBar |-> GotBar[p]]
    /\ \A p \in Proc : PinBar[p] = [k \in DOMAIN PinBar[p] |-> PinBar[p][k]]
  BY DEF PinBar, GotBar

LEMMA MapDomainsNext ==
    /\ DOMAIN PinBar' = Proc /\ \A p \in Proc : DOMAIN PinBar'[p] = Key
    /\ DOMAIN GotBar' = Proc
    /\ PinBar' = [p \in DOMAIN PinBar' |-> PinBar'[p]]
    /\ GotBar' = [p \in DOMAIN GotBar' |-> GotBar'[p]]
    /\ \A p \in Proc : PinBar'[p] = [k \in DOMAIN PinBar'[p] |-> PinBar'[p][k]]
  BY DEF PinBar, GotBar

\* Only scripts change the table, and only NVRAM_INIT and death a process's
\* configuration word.
LEMMA TableKept ==
    ASSUME NEW p \in Proc, Call(p) \/ Step(p) \/ Restart(p)
    PROVE  cacheCfg' = cacheCfg /\ MarkedBar' = MarkedBar
  <1>1. cacheCfg' = cacheCfg
    <2>1. CASE Call(p) \/ Restart(p)
      BY <2>1 DEF Call, Restart, hostVars
    <2>2. CASE \/ CacheHit(p) \/ ReturnInit(p) \/ ReturnGetBuf(p) \/ ReturnGetInt(p)
               \/ ReturnClear(p) \/ ReturnOther(p)
      BY <2>2 DEF CacheHit, ReturnInit, ReturnGetBuf, ReturnGetInt, ReturnClear, ReturnOther,
                  hostVars
    <2>3. CASE \/ TrapInit(p) \/ TrapGetBuf(p) \/ TrapGetInt(p) \/ TrapSet(p) \/ TrapSetInt(p)
               \/ TrapUnset(p) \/ TrapClear(p) \/ TrapSync(p) \/ TrapBlocked(p)
      BY <2>3 DEF TrapInit, TrapGetBuf, TrapGetInt, TrapSet, TrapSetInt, TrapUnset, TrapClear,
             TrapSync, TrapBlocked, HcInit, HcGetBuf, HcGetInt, HcSet, HcSetInt, HcUnset, HcClear,
             HcSync, HcBlocked, hostVars
    <2>4. QED
      BY <2>1, <2>2, <2>3 DEF Step
  <1>2. QED
    BY <1>1 DEF MarkedBar

LEMMA CachesKept == ASSUME config' = config PROVE CachesBar' = CachesBar
  BY DEF CachesBar

LEMMA CachesAt == \A p \in Proc : CachesBar[p] <=> 2 \in config[p]
  BY DEF CachesBar

\* A step that changes p's configuration word only changes p's entry.
LEMMA CachesOnly ==
    ASSUME NEW p \in Proc, Others(p)
    PROVE  CachesBar' = [CachesBar EXCEPT ![p] = (2 \in config'[p])]
  <1>1. \A q \in Proc \ {p} : config'[q] = config[q]
    BY DEF Others
  <1>2. QED
    BY <1>1 DEF CachesBar

\* What is cached and delivered of the others stays.
LEMMA OthersMapped ==
    ASSUME NEW p \in Proc, Others(p), NEW q \in Proc \ {p}
    PROVE  PinBar'[q] = PinBar[q] /\ GotBar'[q] = GotBar[q]
  <1>1. Answered(q)' = Answered(q) /\ Answer(q)' = Answer(q) /\ CurKey(q)' = CurKey(q)
        /\ ToCache(q)' = ToCache(q)
    BY DEF Others, Answered, Answer, CurKey, ToCache
  <1>2. \A k \in Key : Held(q, k)' = Held(q, k)
    BY DEF Others, Held
  <1>3. \A k \in Key : PinBar'[q][k] = PinBar[q][k]
    BY <1>1, <1>2, PinAt, PinAtNext DEF Others
  <1>4. PinBar'[q] = PinBar[q]
    BY <1>3, MapDomains, MapDomainsNext
  <1>5. GotBar'[q] = GotBar[q]
    BY <1>1 DEF GotBar, Others
  <1>6. QED
    BY <1>4, <1>5

\* A step of p changes the row of p only.
LEMMA RowOnly ==
    ASSUME NEW p \in Proc, Others(p)
    PROVE  /\ PinBar' = [PinBar EXCEPT ![p] = PinBar'[p]]
           /\ GotBar' = [GotBar EXCEPT ![p] = GotBar'[p]]
  <1>1. \A q \in Proc \ {p} : PinBar'[q] = PinBar[q] /\ GotBar'[q] = GotBar[q]
    BY OthersMapped
  <1>2. QED
    BY <1>1, MapDomains, MapDomainsNext

\* What the mapping gives for a process with no answer under way.
LEMMA GotAt ==
    ASSUME NEW p \in Proc
    PROVE  GotBar[p] = IF Answered(p) THEN Answer(p) ELSE ret[p]
  BY DEF GotBar

LEMMA GotAtNext ==
    ASSUME NEW p \in Proc
    PROVE  GotBar'[p] = IF Answered(p)' THEN Answer(p)' ELSE ret'[p]
  BY DEF GotBar

\* A process that is not reading and keeps its cache, its configuration and
\* what it was delivered, does nothing to its row.
LEMMA RowKept ==
    ASSUME NEW p \in Proc, Others(p), ~Answered(p), ~Answered(p)',
           cache'[p] = cache[p], config'[p] = config[p] \/ \A k \in Key : Held(p, k) = NoVal,
           ret'[p] = ret[p]
    PROVE  PinBar' = PinBar /\ GotBar' = GotBar
  <1>1. \A k \in Key : Held(p, k)' = Held(p, k)
    BY DEF Held
  <1>2. \A k \in Key : PinBar'[p][k] = PinBar[p][k]
    BY <1>1, PinAt, PinAtNext
  <1>3. PinBar'[p] = PinBar[p]
    BY <1>2, MapDomains, MapDomainsNext
  <1>4. GotBar'[p] = GotBar[p]
    BY GotAt, GotAtNext
  <1>5. QED
    BY <1>3, <1>4, RowOnly, MapDomains

-----------------------------------------------------------------------------
(* Every step of HyperNvram is a step of PinnedReads or changes nothing there. *)

\* The host answers a read, which pins the answer if it will be cached.
LEMMA DeliverMaps ==
    ASSUME ReadsApart, ReadsInv, NEW p \in Proc, pc[p] \in ReadStages,
           reply[p] = NoReply, ~Hit(p), Others(p), UNCHANGED <<hostVars, guestVars>>,
           NEW v, NEW pins \in BOOLEAN,
           Answered(p)', Answer(p)' = v, ToCache(p)' <=> pins
    PROVE  Promise!Deliver(p, CurKey(p), v, pins)
  <1> DEFINE k == CurKey(p)
  <1>1. k \in Key
    BY ReadKeys DEF ReadsInv
  <1>2. CurKey(p)' = k /\ ~Answered(p)
    BY DEF CurKey, guestVars, Answered
  <1>3. Held(p, k) = NoVal \/ 2 \notin config[p]
    <2>1. CASE pc[p] = "getint"
      <3>1. k \in IntKey
        BY <2>1, ReadKeys DEF ReadsInv
      <3>2. QED
        BY <2>1, <3>1 DEF Held, Hit, Cached, Lookup
    <2>2. CASE pc[p] # "getint"
      <3>1. k \notin IntKey /\ pc[p] \in {"get", "reget"}
        BY <2>2, ReadKeys DEF ReadsInv, ReadsApart, ReadStages
      <3>2. QED
        BY <3>1 DEF Held, Hit, Cached, Lookup
    <2>3. QED
      BY <2>1, <2>2
  <1>4. PinBar[p][k] = NoVal
    BY <1>1, <1>2, <1>3, PinAt
  <1>5. config' = config /\ \A x \in Key : Held(p, x)' = Held(p, x)
    BY DEF Held, guestVars
  <1>6. \A x \in Key \ {k} : PinBar'[p][x] = PinBar[p][x]
    BY <1>2, <1>5, PinAt, PinAtNext
  <1>7. PinBar'[p][k] = IF CachesBar[p] /\ pins THEN v ELSE NoVal
    BY <1>1, <1>2, <1>3, <1>5, PinAtNext, CachesAt
  <1>8. PinBar' = IF CachesBar[p] /\ pins THEN [PinBar EXCEPT ![p][k] = v] ELSE PinBar
    <2>1. PinBar'[p] = [PinBar[p] EXCEPT ![k] = PinBar'[p][k]]
      BY <1>6, MapDomains, MapDomainsNext
    <2>2. PinBar' = [PinBar EXCEPT ![p][k] = PinBar'[p][k]]
      BY <2>1, RowOnly
    <2>3. PinBar'[p][k] = NoVal => PinBar'[p] = PinBar[p]
      BY <1>4, <1>6, MapDomains, MapDomainsNext
    <2>4. PinBar'[p][k] = NoVal => PinBar' = PinBar
      BY <2>3, RowOnly, MapDomains
    <2>5. QED
      BY <1>7, <2>2, <2>4
  <1>9. GotBar' = [GotBar EXCEPT ![p] = v]
    BY GotAtNext, RowOnly
  <1>10. UNCHANGED <<nvram, MarkedBar, CachesBar>>
    BY <1>5 DEF hostVars, MarkedBar, CachesBar
  <1>11. QED
    BY <1>4, <1>8, <1>9, <1>10 DEF Promise!Deliver

\* The answer to a read is the value of the store at that instant.
LEMMA FetchMaps ==
    ASSUME ReadsApart, ReadsInv, NEW p \in Proc, TrapGetBuf(p) \/ TrapGetInt(p)
    PROVE  Promise!Fetch(p, CurKey(p))
  <1> DEFINE k == CurKey(p)
             pins == k \in MarkedBar /\ nvram[k] # NoVal
  <1>1. /\ UNCHANGED <<hostVars, guestVars>> /\ reply[p] = NoReply /\ ~Hit(p)
        /\ pc[p] \in ReadStages /\ k \in Key /\ Others(p)
    BY ReadKeys, OnlyOne DEF TrapGetBuf, TrapGetInt, Trapping, HcGetBuf, HcGetInt, ReadStages,
                             ReadsInv, Step
  <1>2. nvram[k] # NoVal => nvram[k] \in Val /\ ParseInt[nvram[k]] \in Num
    BY <1>1, PluginAssumption DEF ReadsInv, TypeInv, TypeOK, PluginTypeOK
  <1>3. \A v : /\ Found(k, v).tag \notin {"NONE", "NOTFOUND"} /\ Found(k, v).val = v
               /\ 1 \in Found(k, v).flags <=> k \in MarkedBar
    BY <1>1 DEF Found, Word, MarkedBar
  <1>4. /\ NotFound.tag = "NOTFOUND" /\ NotFound.flags = {}
        /\ Word("ZERO", {}, Zero).tag = "ZERO" /\ Word("ZERO", {}, Zero).flags = {}
        /\ Word("ZERO", {}, Zero).val = Zero /\ NoReply.tag = "NONE"
    BY DEF NotFound, Word, NoReply
  <1>5. Answered(p)' /\ Answer(p)' = Promise!Present(k) /\ (ToCache(p)' <=> pins)
    <2>1. CASE TrapGetBuf(p)
      <3>1. k \notin IntKey /\ pc[p] \in {"get", "reget"}
        BY <2>1, ReadKeys DEF TrapGetBuf, Trapping, ReadsApart, ReadsInv
      <3>2. reply'[p] = IF nvram[k] = NoVal THEN NotFound ELSE Found(k, nvram[k])
        BY <2>1 DEF TrapGetBuf, HcGetBuf, SetRetval, ReadsInv, TypeInv, TypeOK, PluginTypeOK
      <3>3. Answered(p)'
        BY <1>1, <1>3, <1>4, <3>2 DEF Answered, guestVars, ReadStages
      <3>4. Answer(p)' = Promise!Present(k)
        BY <1>3, <1>4, <3>1, <3>2 DEF Answer, Promise!Present
      <3>5. ToCache(p)' <=> pins
        BY <1>3, <1>4, <3>2 DEF ToCache
      <3>6. QED
        BY <3>3, <3>4, <3>5
    <2>2. CASE TrapGetInt(p)
      <3>1. k \in IntKey /\ pc[p] = "getint"
        BY <2>2, ReadKeys DEF TrapGetInt, Trapping, ReadsInv
      <3>2. reply'[p] = IF nvram[k] = NoVal THEN Word("ZERO", {}, Zero)
                                            ELSE Found(k, ParseInt[nvram[k]])
        BY <2>2 DEF TrapGetInt, HcGetInt, SetRetval, ReadsInv, TypeInv, TypeOK, PluginTypeOK
      <3>3. Answered(p)'
        BY <1>1, <1>3, <1>4, <3>2 DEF Answered, guestVars, ReadStages
      <3>4. Answer(p)' = Promise!Present(k)
        BY <1>3, <1>4, <3>1, <3>2 DEF Answer, Promise!Present
      <3>5. ToCache(p)' <=> pins
        BY <1>3, <1>4, <3>2 DEF ToCache
      <3>6. QED
        BY <3>3, <3>4, <3>5
    <2>3. QED
      BY <2>1, <2>2
  <1>6. Promise!Deliver(p, k, Promise!Present(k), pins)
    <2>1. pins \in BOOLEAN
      OBVIOUS
    <2> HIDE DEF pins, k
    <2>2. QED
      BY <1>1, <1>5, <2>1, DeliverMaps DEF k
  <1>7. QED
    BY <1>6 DEF Promise!Fetch

\* So is the answer of a callback, which is pinned whatever the table says.
LEMMA ServeMaps ==
    ASSUME ReadsApart, ReadsInv, NEW p \in Proc, TrapBlocked(p), pc[p] \in ReadStages
    PROVE  Promise!Serve(p, CurKey(p))
  <1> DEFINE k == CurKey(p)
  <1>1. UNCHANGED <<hostVars, guestVars>> /\ k \in Key /\ Others(p)
    BY ReadKeys, OnlyOne DEF TrapBlocked, HcBlocked, ReadsInv, Step
  <1>2. PICK v \in Answers[k] : HcBlocked(p, v)
    <2>1. CASE pc[p] = "getint"
      <3>1. k \in IntKey
        BY <2>1, ReadKeys DEF ReadsInv
      <3>2. \E n \in IntAnswers[k] : HcBlocked(p, n)
        BY <2>1, GuestAssumption DEF TrapBlocked, Trapping
      <3>3. QED
        BY <1>1, <3>1, <3>2 DEF Answers
    <2>2. CASE pc[p] # "getint"
      <3>1. k \notin IntKey
        BY <2>2, ReadKeys DEF ReadsInv, ReadsApart, ReadStages
      <3>2. \E v \in StrAnswers[k] : HcBlocked(p, v)
        BY <2>2, GuestAssumption DEF TrapBlocked, Trapping, ReadStages
      <3>3. QED
        BY <1>1, <3>1, <3>2 DEF Answers
    <2>3. QED
      BY <2>1, <2>2
  <1>3. reply[p] = NoReply /\ ~Hit(p)
    BY DEF TrapBlocked, Trapping
  <1>4. reply'[p] = Magic(v)
    BY <1>2 DEF HcBlocked, SetRetval, ReadsInv, TypeInv, TypeOK, PluginTypeOK
  <1>5. Answered(p)' /\ Answer(p)' = v /\ (ToCache(p)' <=> TRUE)
    BY <1>1, <1>4 DEF Answered, Answer, ToCache, Magic, NoReply, Word, guestVars, ReadStages
  <1>6. Promise!Deliver(p, k, v, TRUE)
    BY <1>1, <1>3, <1>5, DeliverMaps
  <1>7. QED
    BY <1>2, <1>6 DEF Promise!Serve

\* A read that the cache answers delivers what is pinned.
LEMMA RereadMaps ==
    ASSUME ReadsApart, ReadsInv, NEW p \in Proc, CacheHit(p), pc[p] \in ReadStages
    PROVE  Promise!Reread(p, CurKey(p))
  <1> DEFINE k == CurKey(p)
  <1>1. Others(p) /\ k \in Key /\ UNCHANGED <<nvram, config, cache>>
    BY OnlyOne, ReadKeys DEF ReadsInv, Step, CacheHit, hostVars
  <1>2. ~Answered(p) /\ ~Answered(p)'
    <2>1. reply'[p] = NoReply
      BY DEF CacheHit, Goto, Enter, ReadsInv, TypeInv, TypeOK, PluginTypeOK
    <2>2. QED
      BY <2>1 DEF CacheHit, Answered
  <1>3. ret'[p] = Held(p, k) /\ Held(p, k) # NoVal /\ 2 \in config[p]
    <2>1. cache[p][k] \in Entry
      BY <1>1 DEF ReadsInv, TypeInv, TypeOK
    <2>2. cache[p][k].str # NoVal /\ cache[p][k].int # NoVal
      BY <2>1, PluginAssumption DEF Entry
    <2>3. CASE pc[p] = "getint"
      <3>1. k \in IntKey
        BY <2>3, ReadKeys DEF ReadsInv
      <3>2. 2 \in config[p] /\ 2 \in cache[p][k].conf
        BY <2>3 DEF CacheHit, Hit, Cached, Lookup
      <3>3. ret'[p] = cache[p][k].int
        BY <2>3 DEF CacheHit, ReadsInv, TypeInv, TypeOK
      <3>4. QED
        BY <2>2, <3>1, <3>2, <3>3 DEF Held
    <2>4. CASE pc[p] # "getint"
      <3>1. k \notin IntKey /\ pc[p] \in {"get", "reget"}
        BY <2>4, ReadKeys DEF ReadsInv, ReadsApart, ReadStages
      <3>2. 2 \in config[p] /\ 1 \in cache[p][k].conf
        BY <3>1 DEF CacheHit, Hit, Cached, Lookup
      <3>3. ret'[p] = cache[p][k].str
        BY <3>1 DEF CacheHit, ReadsInv, TypeInv, TypeOK
      <3>4. QED
        BY <2>2, <3>1, <3>2, <3>3 DEF Held
    <2>5. QED
      BY <2>3, <2>4
  <1>4. PinBar[p][k] = Held(p, k)
    BY <1>1, <1>2, <1>3, PinAt
  <1>5. \A x \in Key : PinBar'[p][x] = PinBar[p][x]
    <2>1. \A x \in Key : Held(p, x)' = Held(p, x)
      BY <1>1 DEF Held
    <2>2. QED
      BY <1>1, <1>2, <2>1, PinAt, PinAtNext
  <1>6. PinBar' = PinBar
    <2>1. PinBar'[p] = PinBar[p]
      BY <1>5, MapDomains, MapDomainsNext
    <2>2. QED
      BY <1>1, <2>1, RowOnly, MapDomains
  <1>7. GotBar' = [GotBar EXCEPT ![p] = PinBar[p][k]]
    BY <1>1, <1>2, <1>3, <1>4, GotAtNext, RowOnly
  <1>8. UNCHANGED <<MarkedBar, CachesBar>>
    BY <1>1, TableKept, CachesKept DEF Step
  <1>9. QED
    BY <1>1, <1>3, <1>4, <1>6, <1>7, <1>8 DEF Promise!Reread

\* The return of a read puts into the cache what is pinned already.
LEMMA ReturnMaps ==
    ASSUME ReadsApart, ReadsInv, NEW p \in Proc, ReturnGetBuf(p) \/ ReturnGetInt(p)
    PROVE  PinBar' = PinBar /\ GotBar' = GotBar /\ CachesBar' = CachesBar
  <1> DEFINE k == CurKey(p)
  <1>1. /\ Others(p) /\ k \in Key /\ config' = config
        /\ Answered(p) /\ pc[p] \in ReadStages
    BY OnlyOne, ReadKeys
    DEF ReadsInv, Step, ReturnGetBuf, ReturnGetInt, Returning, Answered, ReadStages
  <1>2. reply'[p] = NoReply /\ ~Answered(p)'
    BY DEF ReturnGetBuf, ReturnGetInt, Goto, Enter, Answered, ReadsInv, TypeInv, TypeOK,
           PluginTypeOK
  <1>3. Fresh(cache[p][k]) \subseteq Entry
    <2>1. cache[p][k] \in Entry
      BY <1>1 DEF ReadsInv, TypeInv, TypeOK
    <2>2. QED
      BY <2>1 DEF Fresh, Entry
  <1>4. reply[p].tag = "NOTFOUND" => pc[p] # "getint" /\ ~ToCache(p)
    BY <1>1 DEF ReadsInv, MissesPlain, ToCache
  <1>5. ret'[p] = Answer(p)
    BY <1>4 DEF ReturnGetBuf, ReturnGetInt, Answer, Returning, ReadsInv, TypeInv, TypeOK
  <1>6. \A x \in Key : x # k \/ ~ToCache(p) => cache'[p][x] = cache[p][x]
    <2>1. \/ cache' = cache
          \/ ToCache(p) /\ \E e : cache' = [cache EXCEPT ![p][k] = e]
      BY DEF ReturnGetBuf, ReturnGetInt
    <2>2. \A e : \A x \in Key \ {k} : [cache EXCEPT ![p][k] = e][p][x] = cache[p][x]
      BY <1>1 DEF ReadsInv, TypeInv, TypeOK
    <2>3. CASE cache' = cache
      BY <2>3
    <2>4. CASE cache' # cache
      <3>1. PICK e : cache' = [cache EXCEPT ![p][k] = e]
        BY <2>1, <2>4
      <3>2. \A x \in Key \ {k} : cache'[p][x] = cache[p][x]
        BY <2>2, <3>1
      <3>3. QED
        BY <2>1, <2>4, <3>2
    <2>5. QED
      BY <2>3, <2>4
  <1>7. ToCache(p) => \A x \in Key : x = k => Held(p, x)' = Answer(p)
    <2>1. CASE ReturnGetBuf(p)
      <3>1. k \notin IntKey
        BY <2>1, ReadKeys DEF ReturnGetBuf, Returning, ReadsInv, ReadsApart
      <3>2. ToCache(p) => \E e \in Fresh(cache[p][k]) :
                            cache'[p][k] = InsertStr(e, reply[p].val, reply[p].flags)
        BY <1>1, <1>4, <2>1 DEF ReturnGetBuf, ReadsInv, TypeInv, TypeOK
      <3>3. \A e \in Fresh(cache[p][k]) :
              LET i == InsertStr(e, reply[p].val, reply[p].flags)
              IN  1 \in i.conf /\ i.str = reply[p].val
        BY <1>3 DEF InsertStr, Entry
      <3>4. QED
        BY <1>4, <3>1, <3>2, <3>3 DEF Held, Answer
    <2>2. CASE ReturnGetInt(p)
      <3>1. k \in IntKey
        BY <2>2, ReadKeys DEF ReturnGetInt, Returning, ReadsInv
      <3>2. ToCache(p) => \E e \in Fresh(cache[p][k]) :
                            cache'[p][k] = InsertInt(e, reply[p].val, reply[p].flags)
        BY <1>1, <2>2 DEF ReturnGetInt, ReadsInv, TypeInv, TypeOK
      <3>3. \A e \in Fresh(cache[p][k]) :
              LET i == InsertInt(e, reply[p].val, reply[p].flags)
              IN  2 \in i.conf /\ i.int = reply[p].val
        BY <1>3 DEF InsertInt, Entry
      <3>4. QED
        BY <1>4, <3>1, <3>2, <3>3 DEF Held, Answer
    <2>3. QED
      BY <2>1, <2>2
  <1>8. \A x \in Key : PinBar'[p][x] = PinBar[p][x]
    <2>1. \A x \in Key : x # k \/ ~ToCache(p) => Held(p, x)' = Held(p, x)
      BY <1>6 DEF Held
    <2>2. QED
      BY <1>1, <1>2, <1>7, <2>1, PinAt, PinAtNext
  <1>9. PinBar'[p] = PinBar[p]
    BY <1>8, MapDomains, MapDomainsNext
  <1>10. GotBar'[p] = GotBar[p]
    BY <1>1, <1>2, <1>5, GotAt, GotAtNext
  <1>11. QED
    BY <1>1, <1>9, <1>10, RowOnly, MapDomains, CachesKept

\* The clear that empties the cache, and the death of a process, forget its pins.
LEMMA ForgetMaps ==
    ASSUME ReadsInv, NEW p \in Proc,
           Restart(p) \/ (ReturnClear(p) /\ reply[p].tag # "ZERO")
    PROVE  Promise!Forget(p)
  <1>1. Others(p) /\ nvram' = nvram
    BY OnlyOne DEF ReadsInv, Step, Restart, ReturnClear, hostVars
  <1>2. cache'[p] = EmptyCache
    BY DEF Restart, ReturnClear, ReadsInv, TypeInv, TypeOK
  <1>3. ~Answered(p)'
    BY DEF Restart, ReturnClear, Goto, Enter, Answered, ReadsInv, TypeInv, TypeOK, PluginTypeOK
  <1>4. \A x \in Key : Held(p, x)' = NoVal
    BY <1>2 DEF Held, EmptyCache, NoEntry
  <1>5. \A x \in Key : PinBar'[p][x] = NoVal
    BY <1>3, <1>4, PinAtNext
  <1>6. PinBar'[p] = Promise!Unpinned
    BY <1>5, MapDomainsNext DEF Promise!Unpinned
  <1>7. \/ GotBar' = GotBar /\ CachesBar' = CachesBar
        \/ /\ GotBar' = [GotBar EXCEPT ![p] = NoVal]
           /\ CachesBar' = [CachesBar EXCEPT ![p] = FALSE]
    <2>1. CASE Restart(p)
      <3>1. ret'[p] = NoVal /\ 2 \notin config'[p]
        BY <2>1 DEF Restart, ReadsInv, TypeInv, TypeOK
      <3>2. GotBar'[p] = NoVal
        BY <1>3, <3>1, GotAtNext
      <3>3. CachesBar' = [CachesBar EXCEPT ![p] = FALSE]
        <4>1. (2 \in config'[p]) = FALSE
          BY <3>1
        <4>2. QED
          BY <1>1, <4>1, CachesOnly, Zenon
      <3>4. QED
        BY <1>1, <3>2, <3>3, RowOnly
    <2>2. CASE ReturnClear(p)
      <3>1. ret' = ret /\ config' = config /\ ~Answered(p)
        BY <2>2 DEF ReturnClear, Returning, Answered
      <3>2. GotBar'[p] = GotBar[p]
        BY <1>3, <3>1, GotAt, GotAtNext
      <3>3. QED
        BY <1>1, <3>1, <3>2, RowOnly, MapDomains, CachesKept
    <2>3. QED
      BY <2>1, <2>2
  <1>8. MarkedBar' = MarkedBar
    BY TableKept DEF Step
  <1>9. PinBar' = [PinBar EXCEPT ![p] = Promise!Unpinned]
    BY <1>1, <1>6, RowOnly
  <1>10. QED
    BY <1>1, <1>7, <1>8, <1>9 DEF Promise!Forget

\* A call starts a new read.
LEMMA BeginMaps ==
    ASSUME ReadsInv, NEW p \in Proc, Call(p)
    PROVE  Promise!Begin(p)
  <1>1. Others(p) /\ UNCHANGED <<nvram, config, cache, reply>>
    BY OnlyOne DEF ReadsInv, Call, hostVars
  <1>2. reply[p] = NoReply /\ ret'[p] = NoVal
    BY DEF Call, ReadsInv, TypeInv, TypeOK, AnswerOK
  <1>3. ~Answered(p) /\ ~Answered(p)'
    BY <1>1, <1>2 DEF Answered
  <1>4. \A x \in Key : PinBar'[p][x] = PinBar[p][x]
    <2>1. \A x \in Key : Held(p, x)' = Held(p, x)
      BY <1>1 DEF Held
    <2>2. QED
      BY <1>1, <1>3, <2>1, PinAt, PinAtNext
  <1>5. PinBar' = PinBar
    <2>1. PinBar'[p] = PinBar[p]
      BY <1>4, MapDomains, MapDomainsNext
    <2>2. QED
      BY <1>1, <2>1, RowOnly, MapDomains
  <1>6. GotBar' = [GotBar EXCEPT ![p] = NoVal]
    BY <1>1, <1>2, <1>3, GotAtNext, RowOnly
  <1>7. UNCHANGED <<MarkedBar, CachesBar>>
    BY <1>1, TableKept, CachesKept
  <1>8. QED
    BY <1>1, <1>5, <1>6, <1>7 DEF Promise!Begin

\* The other steps of a call pin nothing and deliver nothing.
LEMMA OtherMaps ==
    ASSUME ReadsApart, ReadsInv, NEW p \in Proc,
           \/ CacheHit(p) /\ pc[p] \notin ReadStages
           \/ ReturnOther(p)
           \/ ReturnClear(p) /\ reply[p].tag = "ZERO"
           \/ TrapInit(p) \/ TrapSet(p) \/ TrapSetInt(p) \/ TrapUnset(p) \/ TrapClear(p)
           \/ TrapSync(p)
           \/ TrapBlocked(p) /\ pc[p] \notin ReadStages
    PROVE  PinBar' = PinBar /\ GotBar' = GotBar /\ CachesBar' = CachesBar
  <1>1. Others(p)
    BY OnlyOne DEF ReadsInv, Step
  <1>2. pc[p] \notin ReadStages
    BY DEF ReturnOther, ReturnClear, Returning, TrapInit, TrapSet, TrapSetInt,
           TrapUnset, TrapClear, TrapSync, Trapping, ReadStages
  <1>3. ~Answered(p)
    BY <1>2 DEF Answered, ReadStages
  <1>4. CASE \/ CacheHit(p) /\ pc[p] \notin ReadStages
             \/ ReturnOther(p)
             \/ ReturnClear(p) /\ reply[p].tag = "ZERO"
    <2>1. ~Answered(p)'
      BY <1>4 DEF CacheHit, ReturnOther, ReturnClear, Goto, Enter, Answered,
                  ReadsInv, TypeInv, TypeOK, PluginTypeOK
    <2>2. cache' = cache /\ ret'[p] = ret[p] /\ config' = config
      BY <1>2, <1>4 DEF CacheHit, ReturnOther, ReturnClear, ReadStages,
                        ReadsInv, TypeInv, TypeOK
    <2>3. QED
      BY <1>1, <1>3, <2>1, <2>2, RowKept, CachesKept
  <1>5. CASE \/ TrapInit(p) \/ TrapSet(p) \/ TrapSetInt(p) \/ TrapUnset(p) \/ TrapClear(p)
             \/ TrapSync(p) \/ TrapBlocked(p)
    <2>1. UNCHANGED guestVars
      BY <1>5 DEF TrapInit, TrapSet, TrapSetInt, TrapUnset, TrapClear, TrapSync, TrapBlocked
    <2>2. ~Answered(p)'
      BY <1>2, <2>1 DEF Answered, guestVars, ReadStages
    <2>3. QED
      BY <1>1, <1>3, <2>1, <2>2, RowKept, CachesKept DEF guestVars
  <1>6. QED
    BY <1>4, <1>5

\* NVRAM_INIT tells a process that has nothing cached whether it caches.
LEMMA ConfigureMaps ==
    ASSUME ReadsApart, ReadsInv, NEW p \in Proc, ReturnInit(p)
    PROVE  Promise!Configure(p)
  <1>1. Others(p) /\ nvram' = nvram /\ MarkedBar' = MarkedBar
    BY OnlyOne, TableKept DEF ReadsInv, Step, ReturnInit, hostVars
  <1>2. cache[p] = EmptyCache /\ cache' = cache /\ ret' = ret /\ ~Answered(p) /\ ~Answered(p)'
    BY DEF ReturnInit, Returning, Answered, Goto, Enter, ReadsInv, NothingEarly, TypeInv, TypeOK,
           PluginTypeOK
  <1>3. \A x \in Key : Held(p, x) = NoVal
    BY <1>2 DEF Held, EmptyCache, NoEntry
  <1>4. PinBar' = PinBar /\ GotBar' = GotBar
    BY <1>1, <1>2, <1>3, RowKept
  <1>5. PinBar[p] = Promise!Unpinned
    <2>1. \A x \in Key : PinBar[p][x] = NoVal
      BY <1>2, <1>3, PinAt
    <2>2. QED
      BY <2>1, MapDomains DEF Promise!Unpinned
  <1>6. \E c \in BOOLEAN : CachesBar' = [CachesBar EXCEPT ![p] = c]
    BY <1>1, CachesOnly, (2 \in config'[p]) \in BOOLEAN
  <1>7. QED
    BY <1>1, <1>4, <1>5, <1>6 DEF Promise!Configure

\* Scripts reach into no process.
LEMMA ScriptMaps ==
    ASSUME UNCHANGED <<reply, guestVars>>
    PROVE  PinBar' = PinBar /\ GotBar' = GotBar /\ CachesBar' = CachesBar
  BY DEF PinBar, GotBar, CachesBar, Answered, Answer, CurKey, ToCache, Held, guestVars

LEMMA InitReads == Init => ReadsInv /\ Promise!Init
  <1> SUFFICES ASSUME Init PROVE ReadsInv /\ Promise!Init
    OBVIOUS
  <1>1. MissesPlain /\ NothingEarly
    BY DEF Init, MissesPlain, NothingEarly, Answered, NoCall, InitFirst
  <1>2. PinBar = [p \in Proc |-> Promise!Unpinned]
    BY DEF Init, PinBar, Promise!Unpinned
  <1>3. GotBar = [p \in Proc |-> NoVal]
    BY DEF Init, GotBar, Answered
  <1>4. MarkedBar \in SUBSET Key
    BY DEF MarkedBar
  <1>5. CachesBar = [p \in Proc |-> FALSE]
    <2>1. \A p \in Proc : (2 \in config[p]) = FALSE
      BY DEF Init
    <2>2. QED
      BY <2>1, Zenon DEF CachesBar
  <1>6. QED
    BY <1>1, <1>2, <1>3, <1>4, <1>5, InitType DEF ReadsInv, Promise!Init, TypeInv, TypeOK, PluginTypeOK

LEMMA StepReads ==
    ASSUME ReadsApart, ReadsInv, ReadsInv', [Next]_vars
    PROVE  [Promise!Next]_(Promise!vars)
  <1>1. nvram' \in [Key -> Val \cup {NoVal}] /\ MarkedBar' \in SUBSET Key
    BY DEF ReadsInv, TypeInv, TypeOK, PluginTypeOK, MarkedBar
  <1>2. ASSUME PinBar' = PinBar, GotBar' = GotBar, CachesBar' = CachesBar PROVE Promise!Next
    BY <1>1, <1>2 DEF Promise!Next, Promise!Change
  <1>3. ASSUME NEW p \in Proc, Call(p) PROVE Promise!Next
    BY <1>3, BeginMaps DEF Promise!Next
  <1>4. ASSUME NEW p \in Proc, Restart(p) PROVE Promise!Next
    BY <1>4, ForgetMaps DEF Promise!Next
  <1>5. ASSUME NEW p \in Proc, Step(p) PROVE Promise!Next
    <2>1. CASE TrapGetBuf(p) \/ TrapGetInt(p)
      <3>1. CurKey(p) \in Key
        BY <2>1, ReadKeys DEF TrapGetBuf, TrapGetInt, Trapping, ReadStages, ReadsInv
      <3>2. QED
        BY <2>1, <3>1, FetchMaps DEF Promise!Next
    <2>2. CASE CacheHit(p) /\ pc[p] \in ReadStages
      <3>1. CurKey(p) \in Key
        BY <2>2, ReadKeys DEF ReadsInv
      <3>2. QED
        BY <2>2, <3>1, RereadMaps DEF Promise!Next
    <2>3. CASE ReturnGetBuf(p) \/ ReturnGetInt(p)
      BY <1>2, <2>3, ReturnMaps
    <2>4. CASE ReturnClear(p) /\ reply[p].tag # "ZERO"
      BY <2>4, ForgetMaps DEF Promise!Next
    <2>5. CASE ReturnInit(p)
      BY <2>5, ConfigureMaps DEF Promise!Next
    <2>6. CASE \/ CacheHit(p) /\ pc[p] \notin ReadStages
               \/ ReturnOther(p)
               \/ ReturnClear(p) /\ reply[p].tag = "ZERO"
               \/ TrapInit(p) \/ TrapSet(p) \/ TrapSetInt(p) \/ TrapUnset(p) \/ TrapClear(p)
               \/ TrapSync(p)
               \/ TrapBlocked(p) /\ pc[p] \notin ReadStages
      BY <1>2, <2>6, OtherMaps
    <2>7. CASE TrapBlocked(p) /\ pc[p] \in ReadStages
      <3>1. CurKey(p) \in Key
        BY <2>7, ReadKeys DEF ReadsInv
      <3>2. QED
        BY <2>7, <3>1, ServeMaps DEF Promise!Next
    <2>8. QED
      BY <1>5, <2>1, <2>2, <2>3, <2>4, <2>5, <2>6, <2>7 DEF Step
  <1>6. CASE Script \/ UNCHANGED vars
    <2>1. UNCHANGED <<reply, guestVars>>
      BY <1>6 DEF Script, SetConf, AddCache, RemoveCache, SetCache, AddNvram, SetNvram, vars
    <2>2. QED
      BY <1>2, <2>1, ScriptMaps
  <1>7. QED
    BY <1>3, <1>4, <1>5, <1>6 DEF Next

\* Whatever other processes, scripts and callbacks do to the store, the cache
\* table, the configuration and the hypercalls, and whenever a process dies: every
\* string or integer that it reads was in the store at an instant of the read, or
\* a callback answered it, or it is the one value the process has cached, the same
\* at every read; and what it caches are values of marked keys and the answers of
\* callbacks, which come with the magic word, marked or not.  The firmware reads a
\* key in one way (nvram_get_buf, nvram_get_int, nvram_clear).
THEOREM ReadsPinned == ASSUME ReadsApart PROVE Spec => ReadsArePinned
  <1>1. Init => ReadsInv /\ Promise!Init
    BY InitReads
  <1>2. ReadsInv /\ [Next]_vars => ReadsInv'
    BY InvStep
  <1>3. ReadsInv /\ ReadsInv' /\ [Next]_vars => [Promise!Next]_(Promise!vars)
    BY StepReads
  <1>4. QED
    BY <1>1, <1>2, <1>3, PTL DEF Spec, ReadsArePinned, Promise!Spec
=============================================================================
