------------------------------ MODULE TempBuffer ------------------------------
(***************************************************************************)
(* The static buffer temp of libhypernvram (nvram.c:48).  Reads deliver    *)
(* into it, the variadic functions of alias.c format their key or value in *)
(* it, the list functions edit values in it, and the lines of a default    *)
(* file pass through it.  It belongs to the process: the threads of a      *)
(* process share it, and init with it.                                     *)
(*                                                                         *)
(* An access to temp, init or the store is a step of its own, with two     *)
(* exceptions: nvram_init's test of init and its assignment are one step,  *)
(* and so is a line of a default file, from fgets to nvram_set.  Another   *)
(* thread could run in between; with Careful none does, and without it the *)
(* code has more outcomes than the model.  What the store does is one      *)
(* hypercall; nothing is cached here (HyperNvram has the cache).  The      *)
(* header says of most functions that they hold a lock (nvram.h:7-53):     *)
(* the code has none, and neither has the model.                           *)
(*                                                                         *)
(* A function stands for those that treat temp alike:                      *)
(*    nget  nvram_nget, nvram_nmatch: key formatted in temp, value read    *)
(*          over it                                                        *)
(*    wget  WAN_ith_CONFIG_GET, apmib_get: key formatted, value elsewhere  *)
(*    nset  nvram_nset, nvram_nset_int, apmib_set: key formatted           *)
(*    setf  envram_setf: value formatted                                   *)
(*    get   nvram_get, nvram_match, envram_getf: value read into temp      *)
(*    buf   nvram_get_buf, nvram_get_int: temp is not used                 *)
(*                                                                         *)
(* A value is the sequence of the elements that LIST_SEP separates in it.  *)
(* An element is its first character and the rest, since nvram_list_exist  *)
(* compares the rest alone; how many separators lie between two elements   *)
(* makes no difference to strtok and is left out.                          *)
(***************************************************************************)
EXTENDS Naturals, Sequences, Functions

CONSTANTS
    Proc, Thread, ProcOf,   \* processes, threads, and whose thread each is
    Key, Char, Rest,        \* keys; what elements begin with and go on with
    NoRest,                 \* the empty string
    NoText,                 \* no value, no key
    Values,                 \* Values[k]: what the firmware stores under k
    Defaults,               \* what nvram_set_default writes, in order; a pair
                            \* with file = TRUE comes from a default file
    Ops,                    \* Ops[t]: the functions thread t calls
    Careful                 \* whether the firmware keeps to Allowed below

VARIABLES
    store,  \* the host's store
    temp, init,             \* per process
    pc, call, line,         \* per thread: stage, call, next pair of Defaults
    ans,    \* what a read delivers
    seen,   \* history: what the store held under a read's key during the call
    known   \* history: the keys the store has ever held

vars == <<store, temp, init, pc, call, line, ans, seen, known>>

Element == [first : Char, rest : Rest]
Value == Seq(Element)
Text == Key \cup Value

FormatsKey == {"nget", "wget", "nset"}
IntoTemp == {"get", "nget", "list_exist", "list_del"}
Reads == IntoTemp \cup {"wget", "buf"}
UsesTemp == IntoTemp \cup FormatsKey \cup {"setf", "set_default"}
Writes == {"set", "setf", "nset", "list_add"}
AllOps == Reads \cup Writes \cup {"unset", "set_default"}

Stages == {"idle", "format", "check", "enter", "load", "read", "use",
           "reread", "edit", "put", "return"}

\* An element to look for is given by its rest; list_add is given a value.
Request(op) ==
    CASE op \in Writes ->
           UNION {[op : {op}, key : {k}, val : Values[k], rest : {NoRest}] : k \in Key}
      [] op \in {"list_exist", "list_del"} ->
           [op : {op}, key : Key, val : {NoText}, rest : Rest \ {NoRest}]
      [] op = "set_default" ->
           {[op |-> op, key |-> NoText, val |-> NoText, rest |-> NoRest]}
      [] OTHER -> [op : {op}, key : Key, val : {NoText}, rest : {NoRest}]

NoCall == [op |-> "none", key |-> NoText, val |-> NoText, rest |-> NoRest]

Calls(t) == UNION {Request(op) : op \in Ops[t]}

ASSUME TempAssumption ==
    /\ ProcOf \in [Thread -> Proc]
    /\ NoRest \in Rest
    /\ NoText \notin Text
    /\ Key \cap Value = {}
    /\ \A k \in Key : Values[k] \subseteq Value
    /\ DOMAIN Values = Key
    /\ Defaults # <<>>
    /\ \A i \in 1 .. Len(Defaults) :
         /\ Defaults[i] \in [key : Key, val : Value, file : BOOLEAN]
         /\ Defaults[i].val \in Values[Defaults[i].key]
    /\ Defaults \in Seq([key : Key, val : Value, file : BOOLEAN])
    /\ Ops \in [Thread -> SUBSET AllOps]
    /\ Careful \in BOOLEAN

TypeOK ==
    /\ store \in [Key -> Text \cup {NoText}]
    /\ temp \in [Proc -> Text \cup {NoText}]
    /\ init \in [Proc -> BOOLEAN]
    /\ pc \in [Thread -> Stages]
    /\ DOMAIN call = Thread
    /\ \A t \in Thread : call[t] \in Calls(t) \cup {NoCall}
    /\ line \in [Thread -> 1 .. Len(Defaults)]
    /\ ans \in [Thread -> Text \cup {NoText}]
    /\ seen \in [Thread -> SUBSET (Text \cup {NoText})]
    /\ known \subseteq Key

Init ==
    /\ store = [k \in Key |-> NoText]
    /\ temp = [p \in Proc |-> NoText]
    /\ init = [p \in Proc |-> FALSE]
    /\ pc = [t \in Thread |-> "idle"]
    /\ call = [t \in Thread |-> NoCall]
    /\ line = [t \in Thread |-> 1]
    /\ ans = [t \in Thread |-> NoText]
    /\ seen = [t \in Thread |-> {}]
    /\ known = {}

-----------------------------------------------------------------------------
(* What the firmware may do. *)

HasFile == \E i \in 1 .. Len(Defaults) : Defaults[i].file

\* Thread t is in a part of its call that uses temp, or will come to one.
Busy(t) ==
    \/ call[t].op \in UsesTemp
    \/ pc[t] \in {"enter", "load"}
    \/ pc[t] = "check" /\ ~init[ProcOf[t]]

\* One thread of a process at a time makes a call that uses temp, be it to
\* initialise the library; and where there is a default file, a key or value is
\* formatted only after nvram_init.  A single-threaded process that begins with
\* nvram_init keeps to this.
Allowed(t, c) ==
    LET p == ProcOf[t]
    IN  /\ c.op \in UsesTemp \/ (c.op = "buf" /\ ~init[p])
             => \A u \in Thread : ProcOf[u] = p => ~Busy(u)
        /\ c.op \in FormatsKey \cup {"setf"} => init[p] \/ ~HasFile

\* The stage a function begins with.
Entry(op) ==
    CASE op \in FormatsKey \cup {"setf"} -> "format"
      [] op \in Reads \ FormatsKey -> "check"
      [] op = "set_default" -> "load"
      [] OTHER -> "put"

Call(t) ==
    /\ pc[t] = "idle"
    /\ \E c \in Calls(t) :
         /\ Careful => Allowed(t, c)
         /\ call' = [call EXCEPT ![t] = c]
         /\ pc' = [pc EXCEPT ![t] = Entry(c.op)]
         /\ seen' = [seen EXCEPT ![t] = IF c.op \in Reads THEN {store[c.key]} ELSE {}]
    /\ UNCHANGED <<store, temp, init, line, ans, known>>

-----------------------------------------------------------------------------
(* The steps of the functions. *)

Goto(t, l) == pc' = [pc EXCEPT ![t] = l]

\* A read that is about to return v.
Deliver(t, v) == Goto(t, "return") /\ ans' = [ans EXCEPT ![t] = v]

SetTemp(t, text) == temp' = [temp EXCEPT ![ProcOf[t]] = text]

\* The store changes, before the eyes of every call under way.
Update(s) ==
    /\ store' = s
    /\ seen' = [t \in Thread |->
                  IF call[t].op \in Reads THEN seen[t] \cup {s[call[t].key]} ELSE seen[t]]
    /\ known' = known \cup {k \in Key : s[k] # NoText}

\* vsnprintf(temp, BUFFER_SIZE, fmt, va).
Format(t) ==
    /\ pc[t] = "format"
    /\ SetTemp(t, IF call[t].op = "setf" THEN call[t].val ELSE call[t].key)
    /\ Goto(t, IF call[t].op \in Reads THEN "check" ELSE "put")
    /\ UNCHANGED <<store, init, call, line, ans, seen, known>>

\* if (!init) nvram_init();
Check(t) ==
    /\ pc[t] = "check"
    /\ Goto(t, IF init[ProcOf[t]] THEN "read" ELSE "enter")
    /\ UNCHANGED <<store, temp, init, call, line, ans, seen, known>>

\* nvram_init tests init once more, and sets it before the defaults are there.
Enter(t) ==
    /\ pc[t] = "enter"
    /\ init' = [init EXCEPT ![ProcOf[t]] = TRUE]
    /\ Goto(t, IF init[ProcOf[t]] THEN "read" ELSE "load")
    /\ UNCHANGED <<store, temp, call, line, ans, seen, known>>

\* Mutants of MoreToLoad: the load goes past its end, and ends one pair early.
MoreToLoadToo(t) == line[t] <= Len(Defaults)
MoreToLoadLess(t) == line[t] + 1 < Len(Defaults)

MoreToLoad(t) == line[t] < Len(Defaults)

\* One pair of nvram_set_default.  A line of a file is read into temp, where the
\* '=' is overwritten: what is left there is the key.
Load(t) ==
    /\ pc[t] = "load"
    /\ LET d == Defaults[line[t]]
       IN  /\ Update([store EXCEPT ![d.key] = d.val])
           /\ IF d.file THEN SetTemp(t, d.key) ELSE UNCHANGED temp
    /\ IF MoreToLoad(t)
       THEN line' = [line EXCEPT ![t] = @ + 1] /\ UNCHANGED pc
       ELSE /\ line' = [line EXCEPT ![t] = 1]
            /\ Goto(t, IF call[t].op = "set_default" THEN "return" ELSE "read")
    /\ UNCHANGED <<init, call, ans>>

\* The key and the value a hypercall is made with.  A text in temp that is no key
\* is a key the store does not have.
KeyArg(t) == IF call[t].op \in FormatsKey THEN temp[ProcOf[t]] ELSE call[t].key
ValArg(t) == IF call[t].op \in {"setf", "list_del"} THEN temp[ProcOf[t]] ELSE call[t].val

Stored(k) == IF k \in Key THEN store[k] ELSE NoText

\* Mutant of Read: a missing key is not noticed.
ReadAnyway(t) ==
    /\ pc[t] = "read"
    /\ LET v == Stored(KeyArg(t))
       IN  IF call[t].op \in IntoTemp
           THEN /\ IF v = NoText THEN UNCHANGED temp ELSE SetTemp(t, v)
                /\ Goto(t, "use") /\ UNCHANGED ans
           ELSE Deliver(t, v) /\ UNCHANGED temp
    /\ UNCHANGED <<store, init, call, line, seen, known>>

\* The hypercall of nvram_get_buf, and of nvram_get_int.
Read(t) ==
    /\ pc[t] = "read"
    /\ LET v == Stored(KeyArg(t))
       IN  IF v # NoText /\ call[t].op \in IntoTemp
           THEN SetTemp(t, v) /\ Goto(t, "use") /\ UNCHANGED ans
           ELSE Deliver(t, v) /\ UNCHANGED temp
    /\ UNCHANGED <<store, init, call, line, seen, known>>

\* The value is copied, compared or searched where it lies.
Use(t) ==
    /\ pc[t] = "use"
    /\ IF call[t].op = "list_del"
       THEN Goto(t, "reread") /\ UNCHANGED ans
       ELSE Deliver(t, temp[ProcOf[t]])
    /\ UNCHANGED <<store, temp, init, call, line, seen, known>>

\* nvram_list_del has nvram_list_exist read the value again; if it is gone by
\* then, temp still has the value of the first read, and that is stored.
Reread(t) ==
    /\ pc[t] = "reread"
    /\ LET v == Stored(call[t].key)
       IN  IF v = NoText THEN Goto(t, "put") /\ UNCHANGED temp
                         ELSE Goto(t, "edit") /\ SetTemp(t, v)
    /\ UNCHANGED <<store, init, call, line, ans, seen, known>>

\* Mutant of Deleted: the search compares whole elements, not what follows the
\* first character, so nothing is ever found.
DeletedNever(v, rest) == IF v = <<>> THEN v ELSE <<v[1]>>

\* strtok ends the text behind its first element, and what is stored of it ends
\* there.  If that is the element looked for, its rest is overwritten.
Deleted(v, rest) ==
    IF v = <<>> THEN v
    ELSE <<IF v[1].rest = rest THEN [v[1] EXCEPT !.rest = NoRest] ELSE v[1]>>

Edit(t) ==
    /\ pc[t] = "edit"
    /\ SetTemp(t, IF temp[ProcOf[t]] \in Key \cup {NoText} THEN temp[ProcOf[t]]
                  ELSE Deleted(temp[ProcOf[t]], call[t].rest))
    /\ Goto(t, "put")
    /\ UNCHANGED <<store, init, call, line, ans, seen, known>>

\* The hypercall of nvram_set, nvram_set_int, nvram_list_add and nvram_unset.
Put(t) ==
    /\ pc[t] = "put"
    /\ LET k == KeyArg(t)
       IN  Update(IF k \in Key THEN [store EXCEPT ![k] = ValArg(t)] ELSE store)
    /\ Goto(t, "return")
    /\ UNCHANGED <<temp, init, call, line, ans>>

Return(t) ==
    /\ pc[t] = "return"
    /\ Goto(t, "idle")
    /\ call' = [call EXCEPT ![t] = NoCall]
    /\ ans' = [ans EXCEPT ![t] = NoText]
    /\ seen' = [seen EXCEPT ![t] = {}]
    /\ UNCHANGED <<store, temp, init, line, known>>

Step(t) ==
    \/ Format(t) \/ Check(t) \/ Enter(t) \/ Load(t)
    \/ Read(t) \/ Use(t) \/ Reread(t) \/ Edit(t) \/ Put(t) \/ Return(t)

Next == \E t \in Thread : Call(t) \/ Step(t)

Spec == Init /\ [][Next]_vars

-----------------------------------------------------------------------------
(* Properties. *)

\* What a read delivers, the store held under the key that the caller named, at
\* an instant of the call, although key and value may lie in the same buffer and
\* other threads and processes go on (nvram_get, nvram_nget, WAN_ith_CONFIG_GET).
ReadsNamed ==
    \A t \in Thread :
        pc[t] = "return" /\ call[t].op \in Reads \ {"list_del"} => ans[t] \in seen[t]

\* The elements that may stand under k: those of the values the firmware stores
\* there, and what the overwriting of nvram_list_del leaves of them.
OwnElements(k) ==
    LET stored == UNION {Range(v) : v \in Values[k]}
    IN  stored \cup {[e EXCEPT !.rest = NoRest] : e \in stored}

\* No element is stored under a key but its own: the texts of other calls, which
\* went through temp before or are left there by a read that found nothing, never
\* end up under it (nvram_nset, envram_setf, nvram_list_del).  Which of its own
\* elements a key keeps is not said here; see DelKeepsOthers.
OwnValues ==
    \A k \in Key :
        store[k] # NoText => store[k] \in Value /\ Range(store[k]) \subseteq OwnElements(k)

HasElement(v, rest) == \E i \in DOMAIN v : v[i].rest = rest

\* nvram_list_del never stores a list with the element it was to delete, whatever
\* other processes do to the list between its two reads and its write, unless the
\* key was unset meanwhile: then it stores what it read first.
DelRemoves ==
    \A t \in Thread :
        pc[t] = "put" /\ call[t].op = "list_del" =>
            ~HasElement(temp[ProcOf[t]], call[t].rest) \/ NoText \in seen[t]

\* nvram_list_del deletes a list entry, as the header has it: what it stores has
\* every other element of a list that the key held during the call (nvram.h:62).
\* It does not hold: strtok has ended the text behind its first element.
DelKeepsOthers ==
    \A t \in Thread :
        pc[t] = "put" /\ call[t].op = "list_del" /\ NoText \notin seen[t] =>
            \E v \in seen[t] :
                \A i \in DOMAIN v :
                    v[i].rest # call[t].rest => v[i] \in Range(temp[ProcOf[t]])

\* A function that uses temp and finds nothing under a default key finds nothing
\* because some thread has unset it: the library is never read through temp
\* before its defaults are there (nvram_init, nvram_get_buf).
DefaultsFirst ==
    \A t \in Thread :
        /\ pc[t] = "return" /\ call[t].op \in {"get", "nget", "list_exist", "wget"}
        /\ ans[t] = NoText
        => \A i \in 1 .. Len(Defaults) :
             Defaults[i].key = call[t].key => call[t].key \in known
=============================================================================
