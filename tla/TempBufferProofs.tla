--------------------------- MODULE TempBufferProofs ---------------------------
(***************************************************************************)
(* Theorems about TempBuffer, for any number of processes, threads, keys,  *)
(* values and defaults.                                                    *)
(***************************************************************************)
EXTENDS TempBuffer, TLAPS

\* The functions a thread may be in when it is at stage l.
OpsAt(l) ==
    CASE l = "idle" -> {"none"}
      [] l = "format" -> FormatsKey \cup {"setf"}
      [] l \in {"check", "enter", "read"} -> Reads
      [] l = "load" -> Reads \cup {"set_default"}
      [] l = "use" -> IntoTemp
      [] l \in {"reread", "edit"} -> {"list_del"}
      [] l = "put" -> Writes \cup {"unset", "list_del"}
      [] OTHER -> AllOps

StageOK(t) == call[t].op \in OpsAt(pc[t])

TypeInv == TypeOK /\ \A t \in Thread : StageOK(t)

-----------------------------------------------------------------------------
(* Types. *)

\* What the library knows of an element of a sequence.
LEMMA ElementOf ==
    ASSUME NEW S, NEW s \in Seq(S), NEW n \in 1 .. Len(s)
    PROVE  s[n] \in S
  OBVIOUS

\* The arguments of a call are of the kinds its function takes.
LEMMA CallArguments ==
    ASSUME NEW t \in Thread, NEW c \in Calls(t) \cup {NoCall}
    PROVE  /\ c.op \in AllOps \cup {"none"}
           /\ c.key \in Key \cup {NoText}
           /\ c.val \in Value \cup {NoText}
           /\ c.op \in Reads \cup Writes \cup {"unset"} => c.key \in Key
           /\ c.op \in Writes => c.val \in Values[c.key]
           /\ c.op = "unset" => c.val = NoText
           /\ c.op = "list_del" => c.rest # NoRest
  <1>1. CASE c = NoCall
    BY <1>1 DEF NoCall, AllOps, Reads, Writes, IntoTemp
  <1>2. CASE c \in Calls(t)
    <2>1. PICK op \in Ops[t] : c \in Request(op)
      BY <1>2 DEF Calls
    <2>2. op \in AllOps
      BY <2>1, TempAssumption
    <2>3. CASE op \in Writes
      <3>1. PICK k \in Key : c \in [op : {op}, key : {k}, val : Values[k], rest : {NoRest}]
        <4>1. Request(op)
                = UNION {[op : {op}, key : {k}, val : Values[k], rest : {NoRest}] : k \in Key}
          BY <2>3 DEF Request, Writes
        <4>2. QED
          BY <2>1, <4>1
      <3>2. Values[k] \subseteq Value
        BY TempAssumption
      <3>3. c.op = op /\ c.key = k /\ c.val \in Values[k]
        BY <3>1
      <3>4. QED
        BY <2>2, <2>3, <3>2, <3>3 DEF Writes, Reads, IntoTemp
    <2>4. CASE op \in {"list_exist", "list_del"}
      BY <2>1, <2>2, <2>4 DEF Request, Writes, Reads, IntoTemp
    <2>5. CASE op = "set_default"
      BY <2>1, <2>2, <2>5 DEF Request, Writes, Reads, IntoTemp
    <2>6. CASE op \notin Writes \cup {"list_exist", "list_del", "set_default"}
      <3>1. c \in [op : {op}, key : Key, val : {NoText}, rest : {NoRest}]
        BY <2>1, <2>6 DEF Request
      <3>2. QED
        BY <2>2, <2>6, <3>1 DEF Writes, Reads, IntoTemp
    <2>7. QED
      BY <2>3, <2>4, <2>5, <2>6
  <1>3. QED
    BY <1>1, <1>2

LEMMA CallOfThread ==
    ASSUME TypeInv, NEW t \in Thread
    PROVE  /\ call[t].op \in AllOps \cup {"none"}
           /\ call[t].key \in Key \cup {NoText}
           /\ call[t].val \in Value \cup {NoText}
           /\ call[t].op \in Reads \cup Writes \cup {"unset"} => call[t].key \in Key
           /\ call[t].op \in Writes => call[t].val \in Values[call[t].key]
           /\ call[t].op = "unset" => call[t].val = NoText
           /\ call[t].op = "list_del" => call[t].rest # NoRest
           /\ call[t].op \in OpsAt(pc[t])
  <1>1. call[t] \in Calls(t) \cup {NoCall} /\ call[t].op \in OpsAt(pc[t])
    BY DEF TypeInv, TypeOK, StageOK
  <1>2. QED
    BY <1>1, CallArguments

\* A pair of the defaults.
LEMMA DefaultPair ==
    ASSUME NEW i \in 1 .. Len(Defaults)
    PROVE  /\ Defaults[i].key \in Key
           /\ Defaults[i].val \in Value
           /\ Defaults[i].val \in Values[Defaults[i].key]
           /\ Defaults[i].val # NoText
  <1>1. Defaults[i] \in [key : Key, val : Value, file : BOOLEAN]
    BY TempAssumption, ElementOf
  <1>2. Defaults[i].val \in Values[Defaults[i].key]
    BY TempAssumption
  <1>3. QED
    BY <1>1, <1>2, TempAssumption DEF Text

\* What strtok and the edit leave of a value is a value.
LEMMA DeletedType ==
    ASSUME NEW v \in Value, NEW rest
    PROVE  Deleted(v, rest) \in Value
  <1>1. CASE v = <<>>
    BY <1>1 DEF Deleted, Value
  <1>2. CASE v # <<>>
    <2>1. v[1] \in Element
      BY <1>2, ElementOf DEF Value
    <2>2. [v[1] EXCEPT !.rest = NoRest] \in Element
      BY <2>1, TempAssumption DEF Element
    <2>3. \A e \in Element : <<e>> \in Value
      BY DEF Value
    <2>4. QED
      BY <1>2, <2>1, <2>2, <2>3 DEF Deleted
  <1>3. QED
    BY <1>1, <1>2

LEMMA ArgumentTypes ==
    ASSUME TypeInv, NEW t \in Thread
    PROVE  /\ KeyArg(t) \in Text \cup {NoText}
           /\ ValArg(t) \in Text \cup {NoText}
           /\ \A k : Stored(k) \in Text \cup {NoText}
           /\ ProcOf[t] \in Proc
           /\ temp[ProcOf[t]] \in Text \cup {NoText}
  <1>1. ProcOf[t] \in Proc
    BY TempAssumption
  <1>2. temp[ProcOf[t]] \in Text \cup {NoText}
    BY <1>1 DEF TypeInv, TypeOK
  <1>3. \A k : Stored(k) \in Text \cup {NoText}
    BY DEF Stored, TypeInv, TypeOK
  <1>4. QED
    BY <1>1, <1>2, <1>3, CallOfThread DEF KeyArg, ValArg, Text

\* Entering a stage keeps the stages right.
LEMMA GotoType ==
    ASSUME TypeInv, NEW t \in Thread, NEW l \in Stages, Goto(t, l), call' = call,
           call[t].op \in OpsAt(l)
    PROVE  pc' \in [Thread -> Stages] /\ \A u \in Thread : StageOK(u)'
  <1>1. pc' \in [Thread -> Stages] /\ pc'[t] = l /\ \A u \in Thread : u # t => pc'[u] = pc[u]
    BY DEF Goto, TypeInv, TypeOK
  <1>2. QED
    BY <1>1 DEF TypeInv, StageOK

LEMMA UpdateType ==
    ASSUME TypeInv, NEW s \in [Key -> Text \cup {NoText}], Update(s)
    PROVE  /\ store' \in [Key -> Text \cup {NoText}]
           /\ seen' \in [Thread -> SUBSET (Text \cup {NoText})]
           /\ known' \subseteq Key
  <1>1. \A t \in Thread : call[t].op \in Reads => s[call[t].key] \in Text \cup {NoText}
    BY CallOfThread
  <1>2. seen \in [Thread -> SUBSET (Text \cup {NoText})] /\ known \subseteq Key
    BY DEF TypeInv, TypeOK
  <1>3. seen' \in [Thread -> SUBSET (Text \cup {NoText})]
    BY <1>1, <1>2 DEF Update
  <1>4. QED
    BY <1>2, <1>3 DEF Update

LEMMA CallType ==
    ASSUME TypeInv, NEW t \in Thread, Call(t)
    PROVE  TypeInv'
  <1> PICK c \in Calls(t) :
        /\ call' = [call EXCEPT ![t] = c]
        /\ pc' = [pc EXCEPT ![t] = Entry(c.op)]
        /\ seen' = [seen EXCEPT ![t] = IF c.op \in Reads THEN {store[c.key]} ELSE {}]
    BY DEF Call
  <1>1. /\ c.op \in AllOps \cup {"none"}
        /\ c.op \in Reads => c.key \in Key
    BY CallArguments
  <1>2. c.op # "none"
    <2>1. PICK op \in Ops[t] : c \in Request(op)
      BY DEF Calls
    <2>2. op \in AllOps
      BY <2>1, TempAssumption
    <2>3. CASE op \in Writes
      <3>1. Request(op)
              = UNION {[op : {op}, key : {k}, val : Values[k], rest : {NoRest}] : k \in Key}
        BY <2>3 DEF Request, Writes
      <3>2. QED
        BY <2>1, <2>3, <3>1 DEF Writes
    <2>4. CASE op \notin Writes
      BY <2>1, <2>2, <2>4 DEF Request, AllOps, Reads, IntoTemp
    <2>5. QED
      BY <2>3, <2>4
  <1>3. Entry(c.op) \in Stages /\ c.op \in OpsAt(Entry(c.op))
    BY <1>1, <1>2 DEF Entry, Stages, OpsAt, AllOps, Reads, Writes, IntoTemp, FormatsKey
  <1>4. pc' \in [Thread -> Stages] /\ \A u \in Thread : call'[u] \in Calls(u) \cup {NoCall}
    BY <1>3 DEF TypeInv, TypeOK
  <1>5. seen' \in [Thread -> SUBSET (Text \cup {NoText})]
    BY <1>1 DEF TypeInv, TypeOK
  <1>6. \A u \in Thread : StageOK(u)'
    BY <1>3 DEF TypeInv, TypeOK, StageOK
  <1>7. QED
    BY <1>4, <1>5, <1>6 DEF Call, TypeInv, TypeOK

LEMMA StepType ==
    ASSUME TypeInv, NEW t \in Thread, Step(t)
    PROVE  TypeInv'
  <1>a. ProcOf[t] \in Proc /\ temp[ProcOf[t]] \in Text \cup {NoText}
    BY ArgumentTypes
  <1>b. call[t].op \in OpsAt(pc[t])
    BY CallOfThread
  <1>c. \A x \in Text \cup {NoText} : SetTemp(t, x) => temp' \in [Proc -> Text \cup {NoText}]
    BY DEF SetTemp, TypeInv, TypeOK
  <1>d. \A x \in Text \cup {NoText} :
            Deliver(t, x) => ans' \in [Thread -> Text \cup {NoText}] /\ Goto(t, "return")
    BY DEF Deliver, TypeInv, TypeOK
  <1> USE DEF Reads, Writes, IntoTemp, FormatsKey
  <1>1. CASE Format(t)
    <2>1. (IF call[t].op = "setf" THEN call[t].val ELSE call[t].key) \in Text \cup {NoText}
      BY CallOfThread DEF Text
    <2>2. temp' \in [Proc -> Text \cup {NoText}]
      BY <1>1, <1>c, <2>1 DEF Format
    <2>3. call' = call /\ \E l \in {"check", "put"} : Goto(t, l) /\ call[t].op \in OpsAt(l)
      BY <1>1, <1>b DEF Format, OpsAt
    <2>4. pc' \in [Thread -> Stages] /\ \A u \in Thread : StageOK(u)'
      BY <2>3, GotoType DEF Stages
    <2>5. QED
      BY <1>1, <2>2, <2>4 DEF Format, TypeInv, TypeOK
  <1>2. CASE Check(t)
    <2>1. call' = call /\ \E l \in {"read", "enter"} : Goto(t, l) /\ call[t].op \in OpsAt(l)
      BY <1>2, <1>b DEF Check, OpsAt
    <2>2. pc' \in [Thread -> Stages] /\ \A u \in Thread : StageOK(u)'
      BY <2>1, GotoType DEF Stages
    <2>3. QED
      BY <1>2, <2>2 DEF Check, TypeInv, TypeOK
  <1>3. CASE Enter(t)
    <2>1. call' = call /\ \E l \in {"read", "load"} : Goto(t, l) /\ call[t].op \in OpsAt(l)
      BY <1>3, <1>b DEF Enter, OpsAt
    <2>2. pc' \in [Thread -> Stages] /\ \A u \in Thread : StageOK(u)'
      BY <2>1, GotoType DEF Stages
    <2>3. QED
      BY <1>3, <2>2 DEF Enter, TypeInv, TypeOK
  <1>4. CASE Load(t)
    <2> DEFINE d == Defaults[line[t]]
    <2>1. line[t] \in 1 .. Len(Defaults) /\ Len(Defaults) \in Nat \ {0}
      BY TempAssumption DEF TypeInv, TypeOK
    <2>2. d.key \in Key /\ d.val \in Value
      BY <2>1, DefaultPair
    <2>3. [store EXCEPT ![d.key] = d.val] \in [Key -> Text \cup {NoText}]
      BY <2>2 DEF TypeInv, TypeOK, Text
    <2>4. /\ store' \in [Key -> Text \cup {NoText}]
          /\ seen' \in [Thread -> SUBSET (Text \cup {NoText})]
          /\ known' \subseteq Key
      BY <1>4, <2>3, UpdateType DEF Load
    <2>5. temp' \in [Proc -> Text \cup {NoText}]
      BY <1>4, <1>c, <2>2 DEF Load, TypeInv, TypeOK, Text
    <2>6. line' \in [Thread -> 1 .. Len(Defaults)]
      <3>1. line \in [Thread -> 1 .. Len(Defaults)] /\ 1 \in 1 .. Len(Defaults)
        BY <2>1 DEF TypeInv, TypeOK
      <3>2. MoreToLoad(t) => line[t] + 1 \in 1 .. Len(Defaults)
        BY <2>1 DEF MoreToLoad
      <3>3. \/ MoreToLoad(t) /\ line' = [line EXCEPT ![t] = line[t] + 1]
            \/ line' = [line EXCEPT ![t] = 1]
        BY <1>4 DEF Load
      <3>4. QED
        BY <3>1, <3>2, <3>3
    <2>7. pc' \in [Thread -> Stages] /\ \A u \in Thread : StageOK(u)'
      <3>1. CASE MoreToLoad(t)
        BY <1>4, <3>1 DEF Load, TypeInv, TypeOK, StageOK
      <3>2. CASE ~MoreToLoad(t)
        <4>1. call' = call /\ \E l \in {"read", "return"} : Goto(t, l) /\ call[t].op \in OpsAt(l)
          BY <1>4, <1>b, <3>2 DEF Load, OpsAt, AllOps
        <4>2. QED
          BY <4>1, GotoType DEF Stages
      <3>3. QED
        BY <3>1, <3>2
    <2>8. QED
      BY <1>4, <2>4, <2>5, <2>6, <2>7 DEF Load, TypeInv, TypeOK
  <1>5. CASE Read(t)
    <2> DEFINE v == Stored(KeyArg(t))
    <2>1. v \in Text \cup {NoText}
      BY ArgumentTypes
    <2>2. temp' \in [Proc -> Text \cup {NoText}]
      BY <1>5, <1>c, <2>1 DEF Read, TypeInv, TypeOK
    <2>3. ans' \in [Thread -> Text \cup {NoText}]
      BY <1>5, <1>d, <2>1 DEF Read, TypeInv, TypeOK
    <2>4. call' = call /\ \E l \in {"use", "return"} : Goto(t, l) /\ call[t].op \in OpsAt(l)
      BY <1>5, <1>b DEF Read, Deliver, OpsAt, AllOps
    <2>5. pc' \in [Thread -> Stages] /\ \A u \in Thread : StageOK(u)'
      BY <2>4, GotoType DEF Stages
    <2>6. QED
      BY <1>5, <2>2, <2>3, <2>5 DEF Read, TypeInv, TypeOK
  <1>6. CASE Use(t)
    <2>1. ans' \in [Thread -> Text \cup {NoText}]
      BY <1>6, <1>a, <1>d DEF Use, TypeInv, TypeOK
    <2>2. call' = call /\ \E l \in {"reread", "return"} : Goto(t, l) /\ call[t].op \in OpsAt(l)
      BY <1>6, <1>b DEF Use, Deliver, OpsAt, AllOps
    <2>3. pc' \in [Thread -> Stages] /\ \A u \in Thread : StageOK(u)'
      BY <2>2, GotoType DEF Stages
    <2>4. QED
      BY <1>6, <2>1, <2>3 DEF Use, TypeInv, TypeOK
  <1>7. CASE Reread(t)
    <2>1. temp' \in [Proc -> Text \cup {NoText}]
      BY <1>7, <1>c, ArgumentTypes DEF Reread, TypeInv, TypeOK
    <2>2. call' = call /\ \E l \in {"put", "edit"} : Goto(t, l) /\ call[t].op \in OpsAt(l)
      BY <1>7, <1>b DEF Reread, OpsAt
    <2>3. pc' \in [Thread -> Stages] /\ \A u \in Thread : StageOK(u)'
      BY <2>2, GotoType DEF Stages
    <2>4. QED
      BY <1>7, <2>1, <2>3 DEF Reread, TypeInv, TypeOK
  <1>8. CASE Edit(t)
    <2>1. temp' \in [Proc -> Text \cup {NoText}]
      BY <1>8, <1>a, <1>c, DeletedType DEF Edit, Text
    <2>2. call' = call /\ Goto(t, "put") /\ call[t].op \in OpsAt("put")
      BY <1>8, <1>b DEF Edit, OpsAt
    <2>3. pc' \in [Thread -> Stages] /\ \A u \in Thread : StageOK(u)'
      BY <2>2, GotoType DEF Stages
    <2>4. QED
      BY <1>8, <2>1, <2>3 DEF Edit, TypeInv, TypeOK
  <1>9. CASE Put(t)
    <2> DEFINE k == KeyArg(t)
               s == IF k \in Key THEN [store EXCEPT ![k] = ValArg(t)] ELSE store
    <2>1. s \in [Key -> Text \cup {NoText}]
      BY ArgumentTypes DEF TypeInv, TypeOK
    <2>2. Update(s)
      BY <1>9 DEF Put
    <2>3. /\ store' \in [Key -> Text \cup {NoText}]
          /\ seen' \in [Thread -> SUBSET (Text \cup {NoText})]
          /\ known' \subseteq Key
      BY <2>1, <2>2, UpdateType
    <2>4. call' = call /\ Goto(t, "return") /\ call[t].op \in OpsAt("return")
      BY <1>9, <1>b DEF Put, OpsAt, AllOps
    <2>5. pc' \in [Thread -> Stages] /\ \A u \in Thread : StageOK(u)'
      BY <2>4, GotoType DEF Stages
    <2>6. QED
      BY <1>9, <2>3, <2>5 DEF Put, TypeInv, TypeOK
  <1>10. CASE Return(t)
    <2>1. /\ pc' \in [Thread -> Stages] /\ ans' \in [Thread -> Text \cup {NoText}]
          /\ seen' \in [Thread -> SUBSET (Text \cup {NoText})]
          /\ \A u \in Thread : call'[u] \in Calls(u) \cup {NoCall}
      BY <1>10 DEF Return, Goto, Stages, TypeInv, TypeOK
    <2>2. \A u \in Thread : StageOK(u)'
      BY <1>10 DEF Return, Goto, TypeInv, TypeOK, StageOK, OpsAt, NoCall
    <2>3. QED
      BY <1>10, <2>1, <2>2 DEF Return, TypeInv, TypeOK
  <1>11. QED
    BY <1>1, <1>2, <1>3, <1>4, <1>5, <1>6, <1>7, <1>8, <1>9, <1>10 DEF Step

LEMMA InitType == Init => TypeInv
  <1> SUFFICES ASSUME Init PROVE TypeInv
    OBVIOUS
  <1>1. 1 \in 1 .. Len(Defaults)
    BY TempAssumption
  <1>2. TypeOK
    BY <1>1 DEF Init, TypeOK, Stages
  <1>3. QED
    BY <1>2 DEF Init, TypeInv, StageOK, OpsAt, NoCall

LEMMA NextType == TypeInv /\ [Next]_vars => TypeInv'
  <1>1. TypeInv /\ UNCHANGED vars => TypeInv'
    BY DEF vars, TypeInv, TypeOK, StageOK
  <1>2. QED
    BY <1>1, CallType, StepType DEF Next

\* Every variable keeps its type, however careless the threads are: what goes
\* through temp is a key or a value, and what is stored is one too.
THEOREM TypeCorrect == Spec => []TypeOK
  <1>1. TypeInv => TypeOK
    BY DEF TypeInv
  <1>2. QED
    BY <1>1, InitType, NextType, PTL DEF Spec

-----------------------------------------------------------------------------
(* What holds of temp if the firmware is careful. *)

\* One thread of a process at a time is in a part of its call that uses temp.
OneBusy ==
    \A t, u \in Thread : ProcOf[t] = ProcOf[u] /\ Busy(t) /\ Busy(u) => t = u

\* A key or value that was formatted is still in temp when it is used: either no
\* default file will be read over it, or the defaults have been loaded.
FormatOK(t) ==
    LET p == ProcOf[t]
    IN  /\ call[t].op \in FormatsKey \cup {"setf"} => init[p] \/ ~HasFile
        /\ call[t].op \in FormatsKey /\ pc[t] \in {"enter", "load"} => ~HasFile
        /\ call[t].op \in FormatsKey /\ pc[t] \in {"check", "enter", "load", "read", "put"}
             => temp[p] = call[t].key
        /\ call[t].op = "setf" /\ pc[t] = "put" => temp[p] = call[t].val

SeenOK(t) ==
    /\ call[t].op \in Reads => store[call[t].key] \in seen[t]
    /\ pc[t] = "use" => temp[ProcOf[t]] \in seen[t]
    /\ pc[t] = "return" /\ call[t].op \in Reads \ {"list_del"} => ans[t] \in seen[t]

\* What deletions may leave of a value: all of it, its first element, or the
\* first character of that.
Remains(v) ==
    {v} \cup (IF v = <<>> THEN {} ELSE {<<v[1]>>, <<[v[1] EXCEPT !.rest = NoRest]>>})

\* x is what deletions may have left of a value of k.
Owned(k, x) == \E v \in Values[k] : x \in Remains(v)

ListOK(t) ==
    call[t].op = "list_del" =>
        /\ pc[t] \in {"use", "reread", "edit", "put"} => Owned(call[t].key, temp[ProcOf[t]])
        /\ pc[t] = "put" =>
             ~HasElement(temp[ProcOf[t]], call[t].rest) \/ NoText \in seen[t]

KnownUpTo(n) == \A i \in 1 .. Len(Defaults) : i <= n => Defaults[i].key \in known

\* The defaults are loaded in order, and before anything is read through temp.
LoadOK(t) ==
    /\ pc[t] # "load" => line[t] = 1
    /\ KnownUpTo(line[t] - 1)
    /\ pc[t] = "enter" => ~init[ProcOf[t]]
    /\ pc[t] \in {"read", "use", "reread", "edit", "put", "return"} /\ call[t].op \in Reads \ {"buf"}
         => KnownUpTo(Len(Defaults))

Loader(p, t) == ProcOf[t] = p /\ pc[t] = "load" /\ call[t].op # "set_default"

\* An initialised library has its defaults, or a thread that is loading them.
InitOK ==
    \A p \in Proc : init[p] => KnownUpTo(Len(Defaults)) \/ \E t \in Thread : Loader(p, t)

ThreadOK(t) == FormatOK(t) /\ SeenOK(t) /\ ListOK(t) /\ LoadOK(t)

StoredOwn == \A k \in Key : store[k] # NoText => Owned(k, store[k])

TempInv == TypeInv /\ OneBusy /\ StoredOwn /\ InitOK /\ \A t \in Thread : ThreadOK(t)

\* What a step of thread u does to the others: nothing but in the store, which
\* they see, and in what their process shares.  Only a busy thread writes temp.
Effect(u) ==
    /\ \A t \in Thread : t # u =>
         /\ pc'[t] = pc[t] /\ call'[t] = call[t] /\ line'[t] = line[t] /\ ans'[t] = ans[t]
         /\ seen[t] \subseteq seen'[t]
         /\ call[t].op \in Reads /\ store[call[t].key] \in seen[t]
              => store'[call[t].key] \in seen'[t]
    /\ \A p \in Proc : temp'[p] = temp[p] \/ (p = ProcOf[u] /\ Busy(u))
    /\ \A p \in Proc : init[p] => init'[p]
    /\ \A p \in Proc : init'[p] => init[p] \/ (p = ProcOf[u] /\ pc[u] = "enter")
    /\ known \subseteq known'

\* A change of the store is seen.
LEMMA UpdateSeen ==
    ASSUME TypeInv, NEW s, Update(s)
    PROVE  /\ store' = s /\ known \subseteq known'
           /\ \A k \in Key : s[k] # NoText => k \in known'
           /\ \A t \in Thread :
                /\ seen[t] \subseteq seen'[t]
                /\ call[t].op \in Reads => s[call[t].key] \in seen'[t]
  BY DEF Update

LEMMA StepEffect ==
    ASSUME TypeInv, NEW u \in Thread, Call(u) \/ Step(u)
    PROVE  Effect(u)
  <1>a. ProcOf[u] \in Proc /\ call[u].op \in OpsAt(pc[u])
    BY ArgumentTypes, CallOfThread
  <1>b. \A l : Goto(u, l) => \A t \in Thread : t # u => pc'[t] = pc[t]
    BY DEF Goto, TypeInv, TypeOK
  <1>c. \A x : SetTemp(u, x) => \A p \in Proc : temp'[p] = temp[p] \/ p = ProcOf[u]
    BY DEF SetTemp, TypeInv, TypeOK
  <1>d. \A x : Deliver(u, x) => \A t \in Thread : t # u => ans'[t] = ans[t] /\ pc'[t] = pc[t]
    BY DEF Deliver, Goto, TypeInv, TypeOK
  <1>e. seen' = seen /\ store' = store =>
          \A t \in Thread :
            /\ seen[t] \subseteq seen'[t]
            /\ call[t].op \in Reads /\ store[call[t].key] \in seen[t]
                 => store'[call[t].key] \in seen'[t]
    OBVIOUS
  <1>1. CASE Call(u)
    BY <1>1, <1>e DEF Call, TypeInv, TypeOK, Effect
  <1>2. CASE Format(u)
    <2>1. Busy(u)
      BY <1>2, <1>a DEF Format, OpsAt, Busy, UsesTemp
    <2>2. QED
      BY <1>2, <1>b, <1>c, <1>e, <2>1 DEF Format, Effect
  <1>3. CASE Check(u)
    BY <1>3, <1>b, <1>e DEF Check, Effect
  <1>4. CASE Enter(u)
    BY <1>4, <1>a, <1>b, <1>e DEF Enter, Effect, TypeInv, TypeOK
  <1>5. CASE Load(u)
    <2>1. Busy(u)
      BY <1>5 DEF Load, Busy
    <2>2. \A t \in Thread : t # u => pc'[t] = pc[t] /\ line'[t] = line[t]
      <3>1. CASE MoreToLoad(u)
        BY <1>5, <3>1 DEF Load, TypeInv, TypeOK
      <3>2. CASE ~MoreToLoad(u)
        BY <1>5, <1>b, <3>2 DEF Load, TypeInv, TypeOK
      <3>3. QED
        BY <3>1, <3>2
    <2>3. \A p \in Proc : temp'[p] = temp[p] \/ p = ProcOf[u]
      BY <1>5, <1>c DEF Load
    <2>4. \E s : Update(s)
      BY <1>5 DEF Load
    <2>5. /\ known \subseteq known'
          /\ \A t \in Thread :
               /\ seen[t] \subseteq seen'[t]
               /\ call[t].op \in Reads => store'[call[t].key] \in seen'[t]
      BY <2>4, UpdateSeen
    <2>6. QED
      BY <1>5, <2>1, <2>2, <2>3, <2>5 DEF Load, Effect
  <1>6. CASE Read(u)
    <2>1. \A p \in Proc : temp'[p] = temp[p] \/ (p = ProcOf[u] /\ Busy(u))
      BY <1>6, <1>c DEF Read, Busy, UsesTemp
    <2>2. \A t \in Thread : t # u => pc'[t] = pc[t] /\ ans'[t] = ans[t]
      BY <1>6, <1>b, <1>d DEF Read
    <2>3. QED
      BY <1>6, <1>e, <2>1, <2>2 DEF Read, Effect
  <1>7. CASE Use(u)
    <2>1. \A t \in Thread : t # u => pc'[t] = pc[t] /\ ans'[t] = ans[t]
      BY <1>7, <1>b, <1>d DEF Use
    <2>2. QED
      BY <1>7, <1>e, <2>1 DEF Use, Effect
  <1>8. CASE Reread(u)
    <2>1. Busy(u)
      BY <1>8, <1>a DEF Reread, OpsAt, Busy, UsesTemp, IntoTemp
    <2>2. QED
      BY <1>8, <1>b, <1>c, <1>e, <2>1 DEF Reread, Effect
  <1>9. CASE Edit(u)
    <2>1. Busy(u)
      BY <1>9, <1>a DEF Edit, OpsAt, Busy, UsesTemp, IntoTemp
    <2>2. QED
      BY <1>9, <1>b, <1>c, <1>e, <2>1 DEF Edit, Effect
  <1>10. CASE Put(u)
    <2>1. \E s : Update(s)
      BY <1>10 DEF Put
    <2>2. /\ known \subseteq known'
          /\ \A t \in Thread :
               /\ seen[t] \subseteq seen'[t]
               /\ call[t].op \in Reads => store'[call[t].key] \in seen'[t]
      BY <2>1, UpdateSeen
    <2>3. QED
      BY <1>10, <1>b, <2>2 DEF Put, Effect
  <1>11. CASE Return(u)
    BY <1>11, <1>b, <1>e DEF Return, Effect, TypeInv, TypeOK
  <1>12. QED
    BY <1>1, <1>2, <1>3, <1>4, <1>5, <1>6, <1>7, <1>8, <1>9, <1>10, <1>11 DEF Step

\* A thread that uses temp is busy.
LEMMA UserBusy ==
    ASSUME TypeInv, NEW t \in Thread
    PROVE  /\ call[t].op \in FormatsKey \cup {"setf", "list_del"} => Busy(t)
           /\ pc[t] \in {"enter", "load", "use"} => Busy(t)
  BY CallOfThread DEF Busy, UsesTemp, OpsAt, IntoTemp

\* Thread t keeps its part of the invariant in the steps of the others.
LEMMA OthersKeep ==
    ASSUME TempInv, NEW t \in Thread, NEW u \in Thread, t # u, Effect(u)
    PROVE  ThreadOK(t)'
  <1> DEFINE p == ProcOf[t]
  <1>1. /\ pc'[t] = pc[t] /\ call'[t] = call[t] /\ line'[t] = line[t] /\ ans'[t] = ans[t]
        /\ seen[t] \subseteq seen'[t] /\ known \subseteq known'
        /\ call[t].op \in Reads /\ store[call[t].key] \in seen[t]
             => store'[call[t].key] \in seen'[t]
    BY DEF Effect
  <1>2. p \in Proc /\ TypeInv /\ ThreadOK(t)
    BY ArgumentTypes DEF TempInv
  <1>3. Busy(t) => temp'[p] = temp[p]
    BY <1>2 DEF Effect, TempInv, OneBusy
  <1>4. init[p] => init'[p]
    BY <1>2 DEF Effect
  <1>5. init'[p] /\ pc[t] = "enter" => init[p]
    <2> SUFFICES ASSUME init'[p], pc[t] = "enter", ~init[p] PROVE FALSE
      OBVIOUS
    <2>1. p = ProcOf[u] /\ pc[u] = "enter"
      BY <1>2 DEF Effect
    <2>2. QED
      BY <1>2, <2>1, UserBusy DEF TempInv, OneBusy
  <1>6. FormatOK(t)'
    BY <1>1, <1>2, <1>3, <1>4, UserBusy DEF ThreadOK, FormatOK
  <1>7. SeenOK(t)'
    BY <1>1, <1>2, <1>3, UserBusy DEF ThreadOK, SeenOK
  <1>8. ListOK(t)'
    BY <1>1, <1>2, <1>3, UserBusy DEF ThreadOK, ListOK, Owned, HasElement
  <1>9. LoadOK(t)'
    <2>1. KnownUpTo(line[t] - 1)
      BY <1>2 DEF ThreadOK, LoadOK
    <2>2. KnownUpTo(line[t] - 1)'
      BY <1>1, <2>1 DEF KnownUpTo
    <2>3. KnownUpTo(Len(Defaults)) => KnownUpTo(Len(Defaults))'
      BY <1>1 DEF KnownUpTo
    <2>4. QED
      BY <1>1, <1>2, <1>5, <2>2, <2>3 DEF ThreadOK, LoadOK
  <1>10. QED
    BY <1>6, <1>7, <1>8, <1>9 DEF ThreadOK

\* What is busy after a step that is no call was busy before it.
LEMMA StepBusy ==
    ASSUME TypeInv, NEW u \in Thread, Step(u)
    PROVE  \A t \in Thread : Busy(t)' => Busy(t)
  <1>1. Effect(u) /\ ProcOf[u] \in Proc
    BY StepEffect, ArgumentTypes
  <1>2. ASSUME NEW t \in Thread, t # u, Busy(t)' PROVE Busy(t)
    <2>1. ProcOf[t] \in Proc
      BY ArgumentTypes
    <2>2. QED
      BY <1>1, <1>2, <2>1 DEF Effect, Busy
  <1>3. Busy(u)' => Busy(u)
    <2>1. call' = call \/ Return(u)
      BY DEF Step, Format, Check, Enter, Load, Read, Use, Reread, Edit, Put
    <2>2. CASE Return(u)
      BY <2>2 DEF Return, Goto, Busy, NoCall, UsesTemp, IntoTemp, FormatsKey, TypeInv, TypeOK
    <2>3. CASE Format(u)
      <3>1. call[u].op \in OpsAt("format")
        BY <2>3, CallOfThread DEF Format
      <3>2. QED
        BY <3>1 DEF OpsAt, Busy, UsesTemp
    <2>4. CASE Check(u)
      <3>1. call' = call /\ pc'[u] = IF init[ProcOf[u]] THEN "read" ELSE "enter"
        BY <2>4 DEF Check, Goto, TypeInv, TypeOK
      <3>2. QED
        BY <2>4, <3>1 DEF Check, Busy
    <2>5. CASE Enter(u) \/ Load(u)
      BY <2>5 DEF Enter, Load, Busy
    <2>6. CASE Read(u) \/ Use(u) \/ Reread(u) \/ Edit(u) \/ Put(u)
      <3>1. \E l \in {"use", "return", "reread", "edit", "put"} : Goto(u, l)
        BY <2>6 DEF Read, Use, Reread, Edit, Put, Deliver
      <3>2. call' = call /\ pc'[u] \notin {"enter", "load", "check"}
        BY <2>6, <3>1 DEF Read, Use, Reread, Edit, Put, Goto, TypeInv, TypeOK
      <3>3. QED
        BY <3>2 DEF Busy
    <2>7. QED
      BY <2>2, <2>3, <2>4, <2>5, <2>6 DEF Step
  <1>4. QED
    BY <1>2, <1>3

\* Deletions leave less and less of a value, and it stays a value.
LEMMA OwnedValue ==
    ASSUME NEW k \in Key, NEW x, Owned(k, x)
    PROVE  x \in Value /\ \A rest : Owned(k, Deleted(x, rest))
  <1> PICK v \in Values[k] : x \in Remains(v)
    BY DEF Owned
  <1>1. v \in Value
    BY TempAssumption
  <1>2. CASE v = <<>>
    BY <1>1, <1>2 DEF Remains, Deleted, Owned
  <1>3. CASE v # <<>>
    <2> DEFINE e == v[1]
               cut == [e EXCEPT !.rest = NoRest]
    <2>1. e \in Element /\ cut \in Element
      <3>1. e \in Element
        BY <1>1, <1>3, ElementOf DEF Value
      <3>2. QED
        BY <3>1, TempAssumption DEF Element
    <2>2. <<e>> \in Value /\ <<cut>> \in Value
      BY <2>1 DEF Value
    <2>3. x \in {v, <<e>>, <<cut>>} /\ {v, <<e>>, <<cut>>} = Remains(v)
      BY <1>3 DEF Remains
    <2>4. x # <<>> /\ x[1] \in {e, cut}
      BY <1>3, <2>3
    <2>5. [e EXCEPT !.rest = NoRest] = cut /\ [cut EXCEPT !.rest = NoRest] = cut
      BY <2>1 DEF Element
    <2>6. \A rest : Deleted(x, rest) \in {<<e>>, <<cut>>}
      BY <2>4, <2>5 DEF Deleted
    <2>7. QED
      BY <1>1, <2>2, <2>3, <2>6 DEF Owned
  <1>4. QED
    BY <1>2, <1>3

\* The element that was looked for is gone.
LEMMA DeletedGone ==
    ASSUME NEW v \in Value, NEW rest, rest # NoRest
    PROVE  ~HasElement(Deleted(v, rest), rest)
  <1>1. CASE v = <<>>
    BY <1>1 DEF Deleted, HasElement
  <1>2. CASE v # <<>>
    <2>1. v[1] \in Element
      BY <1>2, ElementOf DEF Value
    <2>2. \E e \in Element : Deleted(v, rest) = <<e>> /\ e.rest # rest
      <3>1. CASE v[1].rest = rest
        <4>1. [v[1] EXCEPT !.rest = NoRest] \in Element /\ [v[1] EXCEPT !.rest = NoRest].rest = NoRest
          BY <2>1, TempAssumption DEF Element
        <4>2. QED
          BY <1>2, <3>1, <4>1 DEF Deleted
      <3>2. CASE v[1].rest # rest
        BY <1>2, <2>1, <3>2 DEF Deleted
      <3>3. QED
        BY <3>1, <3>2
    <2>3. QED
      BY <2>2 DEF HasElement
  <1>3. QED
    BY <1>1, <1>2

\* A whole value is its own.
LEMMA OwnedWhole ==
    ASSUME NEW k \in Key, NEW v \in Values[k]
    PROVE  Owned(k, v)
  BY DEF Owned, Remains

\* The key a hypercall is made with is the one the caller named.
LEMMA KeyNamed ==
    ASSUME TempInv, NEW t \in Thread, pc[t] \in {"read", "put"}
    PROVE  KeyArg(t) = call[t].key
  BY DEF TempInv, ThreadOK, FormatOK, KeyArg

\* The threads of a process take turns.
LEMMA BusyStep ==
    ASSUME Careful, TempInv, NEW u \in Thread, Call(u) \/ Step(u)
    PROVE  OneBusy'
  <1>1. CASE Step(u)
    BY <1>1, StepBusy DEF TempInv, OneBusy
  <1>2. CASE Call(u)
    <2>1. TypeInv /\ Effect(u) /\ ProcOf[u] \in Proc
      BY <1>2, StepEffect, ArgumentTypes DEF TempInv
    <2>2. \A t \in Thread : t # u => (Busy(t)' => Busy(t))
      BY <1>2 DEF Call, Busy, TempInv, TypeInv, TypeOK
    <2>3. PICK c \in Calls(u) : /\ Allowed(u, c)
                                /\ call' = [call EXCEPT ![u] = c]
                                /\ pc' = [pc EXCEPT ![u] = Entry(c.op)]
      BY <1>2 DEF Call
    <2>4. call'[u] = c /\ pc'[u] = Entry(c.op) /\ init' = init
      BY <1>2, <2>1, <2>3 DEF Call, TypeInv, TypeOK
    <2>5. Busy(u)' => \A t \in Thread : ProcOf[t] = ProcOf[u] => ~Busy(t)
      <3>1. c.op \in AllOps \cup {"none"}
        BY CallArguments
      <3>2. Busy(u)' => c.op \in UsesTemp \/ (c.op = "buf" /\ ~init[ProcOf[u]])
        BY <2>4, <3>1 DEF Busy, Entry, UsesTemp, AllOps, Reads, Writes, FormatsKey, IntoTemp
      <3>3. QED
        BY <2>3, <3>2 DEF Allowed
    <2>6. QED
      BY <2>2, <2>5 DEF TempInv, OneBusy
  <1>3. QED
    BY <1>1, <1>2

\* What is stored under a key is its own.
LEMMA OwnStep ==
    ASSUME TempInv, NEW u \in Thread, Call(u) \/ Step(u)
    PROVE  StoredOwn'
  <1>a. TypeInv /\ StoredOwn /\ ThreadOK(u)
    BY DEF TempInv
  <1>1. CASE Load(u)
    <2> DEFINE d == Defaults[line[u]]
    <2>1. line[u] \in 1 .. Len(Defaults)
      BY <1>a DEF TypeInv, TypeOK
    <2>2. d.key \in Key /\ Owned(d.key, d.val)
      BY <2>1, DefaultPair, OwnedWhole
    <2>3. store' = [store EXCEPT ![d.key] = d.val]
      BY <1>1 DEF Load, Update
    <2> HIDE DEF d
    <2>4. QED
      BY <1>a, <2>2, <2>3 DEF StoredOwn, Owned, TypeInv, TypeOK
  <1>2. CASE Put(u)
    <2> DEFINE k == call[u].key
    <2>1. k \in Key \cup {NoText} /\ call[u].op \in Writes \cup {"unset", "list_del"}
      BY <1>2, <1>a, CallOfThread DEF Put, OpsAt
    <2>2. store' = IF k \in Key THEN [store EXCEPT ![k] = ValArg(u)] ELSE store
      <3>1. KeyArg(u) = k
        BY <1>2, KeyNamed DEF Put
      <3>2. QED
        BY <1>2, <3>1 DEF Put, Update
    <2>3. k \in Key => ValArg(u) = NoText \/ Owned(k, ValArg(u))
      <3>1. CASE call[u].op = "list_del"
        BY <1>2, <1>a, <3>1 DEF Put, ThreadOK, ListOK, ValArg
      <3>2. CASE call[u].op \in Writes
        <4>1. ValArg(u) = call[u].val
          BY <1>2, <1>a, <3>2 DEF Put, ThreadOK, FormatOK, ValArg, Writes
        <4>2. call[u].val \in Values[k]
          BY <1>a, <3>2, CallOfThread
        <4>3. QED
          BY <4>1, <4>2, OwnedWhole
      <3>3. CASE call[u].op = "unset"
        BY <1>a, <3>3, CallOfThread DEF ValArg
      <3>4. QED
        BY <2>1, <3>1, <3>2, <3>3
    <2> HIDE DEF k
    <2>4. QED
      BY <1>a, <2>2, <2>3 DEF StoredOwn, Owned, TypeInv, TypeOK
  <1>3. CASE ~(Load(u) \/ Put(u))
    <2>1. store' = store
      BY <1>3 DEF Step, Call, Format, Check, Enter, Read, Use, Reread, Edit, Return
    <2>2. QED
      BY <1>a, <2>1 DEF StoredOwn
  <1>4. QED
    BY <1>1, <1>2, <1>3

\* The next pair of the defaults is written.
LEMMA LoadKnown ==
    ASSUME TempInv, NEW u \in Thread, Load(u)
    PROVE  /\ \A i \in 1 .. Len(Defaults) : i <= line[u] => Defaults[i].key \in known'
           /\ ~MoreToLoad(u) => KnownUpTo(Len(Defaults))'
  <1>1. TypeInv /\ KnownUpTo(line[u] - 1)
    BY DEF TempInv, ThreadOK, LoadOK
  <1>2. line[u] \in 1 .. Len(Defaults) /\ Len(Defaults) \in Nat
    BY <1>1, TempAssumption DEF TypeInv, TypeOK
  <1>3. Defaults[line[u]].key \in known'
    <2>1. Defaults[line[u]].key \in Key /\ Defaults[line[u]].val # NoText
      BY <1>2, DefaultPair
    <2>2. \E s : Update(s) /\ s = [store EXCEPT ![Defaults[line[u]].key] = Defaults[line[u]].val]
      BY DEF Load
    <2>3. QED
      BY <1>1, <2>1, <2>2 DEF Update, TypeInv, TypeOK
  <1>4. known \subseteq known'
    BY <1>1, StepEffect DEF Step, Effect
  <1>5. ASSUME NEW i \in 1 .. Len(Defaults), i <= line[u]
        PROVE  Defaults[i].key \in known'
    <2>1. CASE i = line[u]
      BY <1>3, <2>1
    <2>2. CASE i # line[u]
      <3>1. i <= line[u] - 1
        BY <1>2, <1>5, <2>2
      <3>2. QED
        BY <1>1, <1>4, <3>1 DEF KnownUpTo
    <2>3. QED
      BY <2>1, <2>2
  <1>6. ~MoreToLoad(u) => line[u] = Len(Defaults)
    BY <1>2 DEF MoreToLoad
  <1>7. QED
    BY <1>5, <1>6 DEF KnownUpTo

\* An initialised library keeps its defaults, or the thread that loads them.
LEMMA InitOKStep ==
    ASSUME TempInv, NEW u \in Thread, Call(u) \/ Step(u)
    PROVE  InitOK'
  <1>a. TypeInv /\ ThreadOK(u) /\ Effect(u) /\ ProcOf[u] \in Proc
    BY StepEffect, ArgumentTypes DEF TempInv
  <1>b. KnownUpTo(Len(Defaults)) => KnownUpTo(Len(Defaults))'
    BY <1>a DEF Effect, KnownUpTo
  <1> SUFFICES ASSUME NEW p \in Proc, init'[p]
               PROVE  KnownUpTo(Len(Defaults))' \/ \E t \in Thread : Loader(p, t)'
    BY DEF InitOK
  <1>c. ASSUME NEW t \in Thread, t # u, Loader(p, t) PROVE Loader(p, t)'
    BY <1>a, <1>c DEF Effect, Loader
  <1>1. CASE Enter(u) /\ ProcOf[u] = p
    <2>1. ~init[p]
      BY <1>1, <1>a DEF Enter, ThreadOK, LoadOK
    <2>2. call[u].op \in Reads
      BY <1>1, <1>a, CallOfThread DEF Enter, OpsAt
    <2>3. Loader(p, u)'
      BY <1>1, <1>a, <2>1, <2>2
      DEF Enter, Goto, Loader, TypeInv, TypeOK, Reads, IntoTemp
    <2>4. QED
      BY <2>3
  <1>2. CASE Load(u)
    <2>1. init[p]
      BY <1>2 DEF Load
    <2>2. CASE MoreToLoad(u)
      <3>1. Loader(p, u) => Loader(p, u)'
        BY <1>2, <2>2 DEF Load, Loader
      <3>2. QED
        BY <1>b, <1>c, <2>1, <3>1 DEF TempInv, InitOK
    <2>3. CASE ~MoreToLoad(u)
      BY <1>2, <2>3, LoadKnown
    <2>4. QED
      BY <2>2, <2>3
  <1>3. CASE ~Load(u) /\ ~(Enter(u) /\ ProcOf[u] = p)
    <2>1. init[p]
      BY <1>3, <1>a DEF Effect, Step, Call, Format, Check, Enter, Load, Read, Use, Reread, Edit,
                        Put, Return
    <2>2. ~Loader(p, u)
      BY <1>3 DEF Loader, Step, Call, Format, Check, Enter, Load, Read, Use, Reread, Edit,
                  Put, Return
    <2>3. QED
      BY <1>b, <1>c, <2>1, <2>2 DEF TempInv, InitOK
  <1>4. QED
    BY <1>1, <1>2, <1>3

\* The caller's own thread, when it makes a call.
LEMMA CallKeeps ==
    ASSUME Careful, TempInv, NEW u \in Thread, Call(u)
    PROVE  ThreadOK(u)'
  <1>a. TypeInv /\ ThreadOK(u)
    BY DEF TempInv
  <1> PICK c \in Calls(u) :
        /\ Allowed(u, c)
        /\ call' = [call EXCEPT ![u] = c]
        /\ pc' = [pc EXCEPT ![u] = Entry(c.op)]
        /\ seen' = [seen EXCEPT ![u] = IF c.op \in Reads THEN {store[c.key]} ELSE {}]
    BY DEF Call
  <1>1. /\ call'[u] = c /\ pc'[u] = Entry(c.op)
        /\ seen'[u] = IF c.op \in Reads THEN {store[c.key]} ELSE {}
        /\ UNCHANGED <<store, temp, init, line, known>>
        /\ pc[u] = "idle"
    BY <1>a DEF Call, TypeInv, TypeOK
  <1>2. /\ Entry(c.op) \in {"format", "check", "load", "put"}
        /\ c.op \in FormatsKey \cup {"setf"} => Entry(c.op) = "format"
        /\ c.op = "list_del" => Entry(c.op) = "check"
        /\ c.op \in Reads => Entry(c.op) \in {"format", "check"}
    <2>1. c.op \in AllOps \cup {"none"}
      BY CallArguments
    <2>2. QED
      BY <2>1 DEF Entry, AllOps, Writes, Reads, IntoTemp, FormatsKey
  <1>3. FormatOK(u)'
    BY <1>1, <1>2 DEF FormatOK, Allowed
  <1>4. SeenOK(u)'
    BY <1>1, <1>2 DEF SeenOK
  <1>5. ListOK(u)'
    BY <1>1, <1>2 DEF ListOK
  <1>6. LoadOK(u)'
    <2>1. line'[u] = 1 /\ KnownUpTo(line[u] - 1)
      BY <1>1, <1>a DEF ThreadOK, LoadOK
    <2>2. KnownUpTo(line[u] - 1)'
      BY <1>1, <2>1 DEF KnownUpTo
    <2>3. KnownUpTo(line[u] - 1)' /\ pc'[u] \in {"format", "check", "load", "put"}
          /\ (pc'[u] = "put" => call'[u].op \notin Reads)
      BY <1>1, <1>2, <2>2 DEF Entry, Reads, IntoTemp, FormatsKey
    <2>4. QED
      BY <1>1, <2>1, <2>3 DEF LoadOK
  <1>7. QED
    BY <1>3, <1>4, <1>5, <1>6 DEF ThreadOK

\* The thread's own steps before it reads or writes the store.
LEMMA PrepareKeeps ==
    ASSUME TempInv, NEW u \in Thread, Format(u) \/ Check(u) \/ Enter(u)
    PROVE  ThreadOK(u)'
  <1> DEFINE p == ProcOf[u]
  <1>a. TypeInv /\ ThreadOK(u) /\ p \in Proc /\ call[u].op \in OpsAt(pc[u])
    BY ArgumentTypes, CallOfThread DEF TempInv
  <1>b. UNCHANGED <<store, call, line, seen, known>>
    BY DEF Format, Check, Enter
  <1>c. SeenOK(u)'
    BY <1>a, <1>b DEF Format, Check, Enter, Goto, ThreadOK, SeenOK, TypeInv, TypeOK
  <1>d. line'[u] = 1 /\ KnownUpTo(0)'
    BY <1>a, <1>b DEF Format, Check, Enter, ThreadOK, LoadOK, KnownUpTo
  <1>1. CASE Format(u)
    <2>1. /\ call[u].op \in FormatsKey \cup {"setf"}
          /\ pc'[u] = IF call[u].op \in Reads THEN "check" ELSE "put"
          /\ temp'[p] = IF call[u].op = "setf" THEN call[u].val ELSE call[u].key
          /\ init' = init
      BY <1>1, <1>a DEF Format, Goto, SetTemp, OpsAt, TypeInv, TypeOK
    <2>2. FormatOK(u)'
      BY <1>a, <1>b, <2>1 DEF ThreadOK, FormatOK, FormatsKey, Reads, IntoTemp
    <2>3. ListOK(u)'
      BY <1>b, <2>1 DEF ListOK, FormatsKey
    <2>4. LoadOK(u)'
      BY <1>b, <1>d, <2>1 DEF LoadOK, KnownUpTo
    <2>5. QED
      BY <1>c, <2>2, <2>3, <2>4 DEF ThreadOK
  <1>2. CASE Check(u)
    <2>1. /\ pc[u] = "check" /\ call[u].op \in Reads
          /\ pc'[u] = IF init[p] THEN "read" ELSE "enter"
          /\ UNCHANGED <<temp, init>>
      BY <1>2, <1>a DEF Check, Goto, OpsAt, TypeInv, TypeOK
    <2>2. FormatOK(u)'
      BY <1>a, <1>b, <2>1 DEF ThreadOK, FormatOK, Reads, IntoTemp
    <2>3. ListOK(u)'
      BY <1>b, <2>1 DEF ListOK
    <2>4. init[p] /\ call[u].op \in Reads \ {"buf"} => KnownUpTo(Len(Defaults))
      <3> SUFFICES ASSUME NEW t \in Thread, Loader(p, t), call[u].op \in Reads \ {"buf"} PROVE FALSE
        BY <1>a DEF TempInv, InitOK
      <3>1. Busy(t) /\ Busy(u)
        BY DEF Loader, Busy, UsesTemp, Reads, FormatsKey
      <3>2. t = u
        BY <3>1 DEF TempInv, OneBusy, Loader
      <3>3. QED
        BY <2>1, <3>2 DEF Loader
    <2>5. LoadOK(u)'
      BY <1>b, <1>d, <2>1, <2>4 DEF LoadOK, KnownUpTo
    <2>6. QED
      BY <1>c, <2>2, <2>3, <2>5 DEF ThreadOK
  <1>3. CASE Enter(u)
    <2>1. /\ pc[u] = "enter" /\ call[u].op \in Reads /\ ~init[p]
          /\ pc'[u] = "load" /\ init'[p] /\ temp' = temp
      BY <1>3, <1>a DEF Enter, Goto, OpsAt, ThreadOK, LoadOK, TypeInv, TypeOK
    <2>2. FormatOK(u)'
      BY <1>a, <1>b, <2>1 DEF ThreadOK, FormatOK, Reads, IntoTemp
    <2>3. ListOK(u)'
      BY <1>b, <2>1 DEF ListOK
    <2>4. LoadOK(u)'
      BY <1>d, <2>1 DEF LoadOK, KnownUpTo
    <2>5. QED
      BY <1>c, <2>2, <2>3, <2>4 DEF ThreadOK
  <1>4. QED
    BY <1>1, <1>2, <1>3

LEMMA LoadKeeps ==
    ASSUME TempInv, NEW u \in Thread, Load(u)
    PROVE  ThreadOK(u)'
  <1> DEFINE p == ProcOf[u]
  <1>a. TypeInv /\ ThreadOK(u) /\ p \in Proc
    BY ArgumentTypes DEF TempInv
  <1>b. line[u] \in 1 .. Len(Defaults) /\ Len(Defaults) \in Nat /\ call' = call /\ init' = init
    BY <1>a, TempAssumption DEF Load, TypeInv, TypeOK
  <1>c. call[u].op \in Reads \cup {"set_default"}
    BY <1>a, CallOfThread DEF Load, OpsAt
  <1>d. \E s : Update(s)
    BY DEF Load
  <1>e. call[u].op \in Reads => store'[call[u].key] \in seen'[u]
    BY <1>a, <1>d, UpdateSeen
  <1>1. /\ MoreToLoad(u) => pc'[u] = "load" /\ line'[u] = line[u] + 1
        /\ ~MoreToLoad(u) => pc'[u] \in {"read", "return"} /\ line'[u] = 1
                             /\ (pc'[u] = "return" => call[u].op = "set_default")
    BY <1>a DEF Load, Goto, TypeInv, TypeOK
  <1>2. FormatOK(u)'
    <2>1. ~HasFile => temp' = temp
      BY <1>b DEF Load, HasFile
    <2>2. QED
      BY <1>a, <1>b, <1>c, <1>1, <2>1
      DEF Load, ThreadOK, FormatOK, Reads, IntoTemp, FormatsKey
  <1>3. SeenOK(u)'
    BY <1>b, <1>e, <1>1 DEF SeenOK, Reads, IntoTemp
  <1>4. ListOK(u)'
    BY <1>1, <1>b, <1>c DEF ListOK
  <1>5. LoadOK(u)'
    <2>1. CASE MoreToLoad(u)
      <3>1. line'[u] - 1 = line[u]
        BY <1>b, <1>1, <2>1
      <3>2. KnownUpTo(line[u] - 1)'
        BY <3>1, LoadKnown DEF KnownUpTo
      <3>3. QED
        BY <1>1, <2>1, <3>2 DEF LoadOK
    <2>2. CASE ~MoreToLoad(u)
      BY <1>1, <2>2, LoadKnown DEF LoadOK, KnownUpTo
    <2>3. QED
      BY <2>1, <2>2
  <1>6. QED
    BY <1>2, <1>3, <1>4, <1>5 DEF ThreadOK

\* What a read finds is its key's value.
LEMMA FoundValue ==
    ASSUME TempInv, NEW u \in Thread, pc[u] \in {"read", "reread"}
    PROVE  LET k == call[u].key
           IN  /\ k \in Key /\ call[u].op \in Reads
               /\ Stored(k) = store[k] /\ store[k] \in seen[u]
               /\ store[k] # NoText => Owned(k, store[k])
  <1>1. call[u].key \in Key /\ call[u].op \in Reads
    BY CallOfThread DEF TempInv, OpsAt, Reads, IntoTemp
  <1>2. QED
    BY <1>1 DEF TempInv, ThreadOK, SeenOK, Stored, StoredOwn, Owned

LEMMA ReadKeeps ==
    ASSUME TempInv, NEW u \in Thread, Read(u)
    PROVE  ThreadOK(u)'
  <1> DEFINE p == ProcOf[u]
             v == store[call[u].key]
  <1>a. TypeInv /\ ThreadOK(u) /\ p \in Proc /\ pc[u] = "read"
    BY ArgumentTypes DEF TempInv, Read
  <1>b. UNCHANGED <<store, init, call, line, seen, known>>
    BY DEF Read
  <1>c. /\ call[u].op \in Reads /\ v \in seen[u] /\ (v # NoText => Owned(call[u].key, v))
        /\ Stored(KeyArg(u)) = v
    BY <1>a, FoundValue, KeyNamed
  <1>1. \/ call[u].op \in IntoTemp /\ v # NoText /\ pc'[u] = "use" /\ temp'[p] = v
        \/ pc'[u] = "return" /\ ans'[u] = v
    BY <1>a, <1>c DEF Read, Deliver, Goto, SetTemp, TypeInv, TypeOK
  <1>2. FormatOK(u)'
    BY <1>a, <1>b, <1>1 DEF ThreadOK, FormatOK
  <1>3. SeenOK(u)'
    BY <1>a, <1>b, <1>c, <1>1 DEF ThreadOK, SeenOK
  <1>4. ListOK(u)'
    BY <1>b, <1>c, <1>1 DEF ListOK, Owned
  <1>5. LoadOK(u)'
    BY <1>a, <1>b, <1>1 DEF ThreadOK, LoadOK, KnownUpTo
  <1>6. QED
    BY <1>2, <1>3, <1>4, <1>5 DEF ThreadOK

LEMMA UseKeeps ==
    ASSUME TempInv, NEW u \in Thread, Use(u)
    PROVE  ThreadOK(u)'
  <1>a. TypeInv /\ ThreadOK(u) /\ pc[u] = "use" /\ call[u].op \in IntoTemp
    BY CallOfThread DEF TempInv, Use, OpsAt
  <1>b. UNCHANGED <<store, temp, init, call, line, seen, known>>
    BY DEF Use
  <1>1. \/ call[u].op = "list_del" /\ pc'[u] = "reread"
        \/ pc'[u] = "return" /\ ans'[u] = temp[ProcOf[u]]
    BY <1>a DEF Use, Deliver, Goto, TypeInv, TypeOK
  <1>2. FormatOK(u)'
    BY <1>a, <1>b, <1>1 DEF ThreadOK, FormatOK
  <1>3. SeenOK(u)'
    BY <1>a, <1>b, <1>1 DEF ThreadOK, SeenOK
  <1>4. ListOK(u)'
    BY <1>a, <1>b, <1>1 DEF ThreadOK, ListOK, Owned
  <1>5. LoadOK(u)'
    BY <1>a, <1>b, <1>1 DEF ThreadOK, LoadOK, KnownUpTo, IntoTemp, Reads
  <1>6. QED
    BY <1>2, <1>3, <1>4, <1>5 DEF ThreadOK

\* nvram_list_del between its first read and its write.
LEMMA ListKeeps ==
    ASSUME TempInv, NEW u \in Thread, Reread(u) \/ Edit(u)
    PROVE  ThreadOK(u)'
  <1> DEFINE p == ProcOf[u]
             k == call[u].key
  <1>a. /\ TypeInv /\ ThreadOK(u) /\ p \in Proc /\ pc[u] \in {"reread", "edit"}
        /\ call[u].op = "list_del" /\ k \in Key /\ call[u].rest # NoRest
    BY ArgumentTypes, CallOfThread DEF TempInv, Reread, Edit, OpsAt, Reads, IntoTemp
  <1>b. UNCHANGED <<store, init, call, line, ans, seen, known>>
    BY DEF Reread, Edit
  <1>c. Owned(k, temp[p])
    BY <1>a DEF ThreadOK, ListOK
  <1>1. /\ Owned(k, temp'[p]) /\ pc'[u] \in {"edit", "put"}
        /\ pc'[u] = "put" => ~HasElement(temp'[p], call[u].rest) \/ NoText \in seen[u]
    <2>1. CASE Reread(u)
      <3>1. store[k] \in seen[u] /\ Stored(k) = store[k] /\ (store[k] # NoText => Owned(k, store[k]))
        BY <2>1, FoundValue DEF Reread
      <3>2. \/ store[k] = NoText /\ pc'[u] = "put" /\ temp' = temp
            \/ store[k] # NoText /\ pc'[u] = "edit" /\ temp'[p] = store[k]
        BY <2>1, <1>a, <3>1 DEF Reread, Goto, SetTemp, TypeInv, TypeOK
      <3>3. QED
        BY <1>c, <3>1, <3>2
    <2>2. CASE Edit(u)
      <3>1. temp[p] \in Value /\ Owned(k, Deleted(temp[p], call[u].rest))
        BY <1>a, <1>c, OwnedValue
      <3>2. ~HasElement(Deleted(temp[p], call[u].rest), call[u].rest)
        BY <1>a, <3>1, DeletedGone
      <3>3. temp'[p] = Deleted(temp[p], call[u].rest) /\ pc'[u] = "put"
        BY <2>2, <1>a, <3>1, TempAssumption DEF Edit, Goto, SetTemp, TypeInv, TypeOK, Text
      <3>4. QED
        BY <3>1, <3>2, <3>3
    <2>3. QED
      BY <2>1, <2>2
  <1>2. FormatOK(u)'
    BY <1>a, <1>b DEF FormatOK, FormatsKey
  <1>3. SeenOK(u)'
    BY <1>a, <1>b, <1>1 DEF ThreadOK, SeenOK
  <1>4. ListOK(u)'
    BY <1>b, <1>1 DEF ListOK, Owned, HasElement
  <1>5. LoadOK(u)'
    BY <1>a, <1>b, <1>1 DEF ThreadOK, LoadOK, KnownUpTo, Reads, IntoTemp
  <1>6. QED
    BY <1>2, <1>3, <1>4, <1>5 DEF ThreadOK

LEMMA EndKeeps ==
    ASSUME TempInv, NEW u \in Thread, Put(u) \/ Return(u)
    PROVE  ThreadOK(u)'
  <1>a. TypeInv /\ ThreadOK(u)
    BY DEF TempInv
  <1>b. line'[u] = 1 /\ KnownUpTo(0)'
    BY <1>a DEF Put, Return, ThreadOK, LoadOK, KnownUpTo
  <1>1. CASE Put(u)
    <2>1. /\ pc'[u] = "return" /\ UNCHANGED <<temp, init, call, line, ans>>
          /\ call[u].op \in Writes \cup {"unset", "list_del"} /\ \E s : Update(s)
      BY <1>1, <1>a, CallOfThread DEF Put, Goto, OpsAt, TypeInv, TypeOK
    <2>2. known \subseteq known' /\ (call[u].op \in Reads => store'[call[u].key] \in seen'[u])
      BY <1>a, <2>1, UpdateSeen
    <2>3. FormatOK(u)'
      BY <1>a, <2>1 DEF ThreadOK, FormatOK
    <2>4. SeenOK(u)' /\ ListOK(u)'
      BY <2>1, <2>2 DEF SeenOK, ListOK, Writes, Reads, IntoTemp
    <2>5. call[u].op \in Reads => KnownUpTo(Len(Defaults))
      BY <1>1, <1>a, <2>1 DEF Put, ThreadOK, LoadOK, Writes
    <2>6. LoadOK(u)'
      BY <1>b, <2>1, <2>2, <2>5 DEF LoadOK, KnownUpTo
    <2>7. QED
      BY <2>3, <2>4, <2>6 DEF ThreadOK
  <1>2. CASE Return(u)
    <2>1. pc'[u] = "idle" /\ call'[u].op = "none"
      BY <1>2, <1>a DEF Return, Goto, NoCall, TypeInv, TypeOK
    <2>2. QED
      BY <1>b, <2>1 DEF ThreadOK, FormatOK, SeenOK, ListOK, LoadOK, KnownUpTo, FormatsKey, Reads,
                        IntoTemp
  <1>3. QED
    BY <1>1, <1>2

LEMMA TempInvStep == ASSUME Careful PROVE TempInv /\ [Next]_vars => TempInv'
  <1> SUFFICES ASSUME TempInv, [Next]_vars PROVE TempInv'
    OBVIOUS
  <1>1. ASSUME NEW u \in Thread, Call(u) \/ Step(u) PROVE TempInv'
    <2>1. TypeInv' /\ Effect(u)
      BY <1>1, CallType, StepType, StepEffect DEF TempInv
    <2>2. OneBusy' /\ StoredOwn' /\ InitOK'
      BY <1>1, BusyStep, OwnStep, InitOKStep
    <2>3. ThreadOK(u)'
      BY <1>1, CallKeeps, PrepareKeeps, LoadKeeps, ReadKeeps, UseKeeps, ListKeeps, EndKeeps
      DEF Step
    <2>4. \A t \in Thread : t # u => ThreadOK(t)'
      BY <2>1, OthersKeep
    <2>5. QED
      BY <2>1, <2>2, <2>3, <2>4 DEF TempInv
  <1>2. CASE UNCHANGED vars
    BY <1>2 DEF vars, TempInv, TypeInv, TypeOK, StageOK, OneBusy, Busy, StoredOwn, InitOK, Loader,
                ThreadOK, FormatOK, SeenOK, ListOK, Owned, HasElement, LoadOK, KnownUpTo
  <1>3. QED
    BY <1>1, <1>2 DEF Next

LEMMA TempInvInit == Init => TempInv
  <1> SUFFICES ASSUME Init PROVE TempInv
    OBVIOUS
  <1>1. TypeInv
    BY InitType
  <1>2. \A t \in Thread : pc[t] = "idle" /\ call[t].op = "none" /\ line[t] = 1
    BY DEF Init, NoCall
  <1>3. OneBusy
    BY <1>2 DEF OneBusy, Busy, UsesTemp, IntoTemp, FormatsKey
  <1>4. StoredOwn /\ InitOK
    BY DEF Init, StoredOwn, InitOK
  <1>5. \A t \in Thread : ThreadOK(t)
    BY <1>2 DEF ThreadOK, FormatOK, SeenOK, ListOK, LoadOK, KnownUpTo, FormatsKey, Reads, IntoTemp
  <1>6. QED
    BY <1>1, <1>3, <1>4, <1>5 DEF TempInv

\* If the firmware keeps to Allowed, what a read delivers is a value its key had
\* during the call: formatting the key into the buffer that takes the value, a
\* default file that passes through it, and other threads do no harm.
THEOREM ReadsAreNamed == ASSUME Careful PROVE Spec => []ReadsNamed
  <1>1. TempInv => ReadsNamed
    BY DEF TempInv, ThreadOK, SeenOK, ReadsNamed
  <1>2. QED
    BY <1>1, TempInvInit, TempInvStep, PTL DEF Spec

\* Deletions leave elements of the value they worked on.
LEMMA OwnedElements ==
    ASSUME NEW k \in Key, NEW x, Owned(k, x)
    PROVE  x \in Value /\ Range(x) \subseteq OwnElements(k)
  <1> PICK v \in Values[k] : x \in Remains(v)
    BY DEF Owned
  <1>1. x \in Value /\ v \in Value
    BY OwnedValue, TempAssumption
  <1>2. \A e \in Range(v) : e \in OwnElements(k) /\ [e EXCEPT !.rest = NoRest] \in OwnElements(k)
    BY DEF OwnElements
  <1>3. CASE x = v
    BY <1>1, <1>2, <1>3
  <1>4. CASE x # v
    <2> DEFINE e == v[1]
    <2>1. v # <<>> /\ x \in {<<e>>, <<[e EXCEPT !.rest = NoRest]>>}
      BY <1>4 DEF Remains
    <2>2. e \in Range(v)
      BY <1>1, <2>1, ElementOf DEF Range, Value
    <2>3. Range(x) \subseteq {e, [e EXCEPT !.rest = NoRest]}
      BY <2>1 DEF Range
    <2>4. QED
      BY <1>1, <1>2, <2>2, <2>3
  <1>5. QED
    BY <1>3, <1>4

\* If the firmware keeps to Allowed, every element stored under a key was meant
\* for it.
THEOREM ValuesAreOwn == ASSUME Careful PROVE Spec => []OwnValues
  <1>1. TempInv => OwnValues
    BY OwnedElements DEF TempInv, StoredOwn, OwnValues
  <1>2. QED
    BY <1>1, TempInvInit, TempInvStep, PTL DEF Spec

\* If the firmware keeps to Allowed, nvram_list_del stores no list with the
\* element it was to delete, unless the key was unset meanwhile.
THEOREM DeletionsRemove == ASSUME Careful PROVE Spec => []DelRemoves
  <1>1. TempInv => DelRemoves
    BY DEF TempInv, ThreadOK, ListOK, DelRemoves
  <1>2. QED
    BY <1>1, TempInvInit, TempInvStep, PTL DEF Spec

\* If the firmware keeps to Allowed, a key of the defaults that is not found was
\* there before: reads through temp wait for the defaults.
THEOREM ReadsFollowDefaults == ASSUME Careful PROVE Spec => []DefaultsFirst
  <1>1. TempInv => DefaultsFirst
    <2> SUFFICES ASSUME TempInv, NEW t \in Thread, pc[t] = "return",
                        call[t].op \in {"get", "nget", "list_exist", "wget"},
                        NEW i \in 1 .. Len(Defaults), Defaults[i].key = call[t].key
                 PROVE  call[t].key \in known
      BY DEF DefaultsFirst
    <2>1. KnownUpTo(Len(Defaults))
      BY DEF TempInv, ThreadOK, LoadOK, Reads, IntoTemp
    <2>2. QED
      BY <2>1, TempAssumption DEF KnownUpTo
  <1>2. QED
    BY <1>1, TempInvInit, TempInvStep, PTL DEF Spec
===============================================================================
