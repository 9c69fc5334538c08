------------------------------ MODULE HyperNvram ------------------------------
(***************************************************************************)
(* libhypernvram (libhypernvram/nvram.c, alias.c) in every guest process,  *)
(* composed with the plugin.  A process is single-threaded and calls one   *)
(* API function at a time.  A call runs through stages, one per hypercall  *)
(* the function makes; pc[p] names the stage, "idle" means the process is  *)
(* in firmware code.  A stage is                                           *)
(*                                                                         *)
(*    - a hit in the process's own cache, which makes no hypercall, or     *)
(*    - a trap, in which the host answers, and then a return, in which the *)
(*      library reads the answer.                                          *)
(*                                                                         *)
(* Other processes run between the two and between stages.  The cache      *)
(* lookup before a trap and the cache update after it touch only the       *)
(* process's own memory, so they are part of those steps.                  *)
(*                                                                         *)
(* Arguments are never NULL here: every function rejects a NULL argument   *)
(* before it changes anything but, through nvram_init, what "init" does.   *)
(* The cache is a map from keys to entries, whose flags and unwritten fields  *)
(* start as malloc leaves them; module CacheList has the entries as the    *)
(* list the code keeps.                                                    *)
(***************************************************************************)
EXTENDS NvramPlugin, Naturals, Sequences, Functions

CONSTANTS
    Defaults,   \* the pairs nvram_set_default writes, in order
    Ops,        \* the API functions the firmware calls
    StrKey,     \* keys it reads as strings
    IntKey,     \* keys it reads as integers
    NoKey,      \* the key of a call that has none
    MayBlock,   \* other hypercalls than reads that a callback may consume
    StrAnswers, \* StrAnswers[k], IntAnswers[k]: what a callback that consumes a
    IntAnswers, \* read of k leaves in the buffer, the old contents included
    NativeGet,  \* whether the firmware exports its own nvram_default_get
    Mortal,     \* processes that may die and be started again
    Methods,    \* the plugin's methods that analysis scripts call, and
    Confs, CacheCfgs, Images    \* the arguments they give them

VARIABLES
    init,       \* the library's flag of that name
    config,     \* its copy of the plugin's configuration word
    cache,      \* cache[p][k]: the entry get_cached finds for k
    pc, call,   \* the stage and the API call a process is in
    idx,        \* the next pair of Defaults to write
    ret,        \* what the process's last read delivered
    gone,       \* history: keys removed by name, by nvram_clear or by a script and
                \* not written since
    lost        \* history: lost[p]: keys missing since p died on its way to write
                \* them, and p has not initialised the library again

guestVars == <<init, config, cache, pc, call, idx, ret>>
history == <<gone, lost>>
vars == <<hostVars, reply, guestVars, history>>

Stages == {"idle", "init", "load", "get", "reget", "getint", "set", "setint",
           "listadd", "unset", "clear", "sync"}

KeyOps == {"get", "get_int", "unset", "safe_unset", "default_get"}
PlainOps == {"init", "set_default", "reset", "clear", "commit"}
AllOps == KeyOps \cup PlainOps \cup {"set", "list_add", "set_int"}

Request(ops, keys, vals) == [op : ops, key : keys, val : vals]

Calls ==
    Request(Ops \cap {"get", "safe_unset"}, StrKey, {NoVal})
        \cup Request(Ops \cap {"default_get"}, StrKey, Val \cup {NoVal})
        \cup Request(Ops \cap {"get_int"}, IntKey, {NoVal})
        \cup Request(Ops \cap {"unset"}, Key, {NoVal})
        \cup Request(Ops \cap {"set", "list_add"}, Key, Val)
        \cup Request(Ops \cap {"set_int"}, Key, Num)
        \cup Request(Ops \cap PlainOps, {NoKey}, {NoVal})

NoCall == [op |-> "none", key |-> NoKey, val |-> NoVal]

Pair == [key : Key, val : Val]

ASSUME GuestAssumption ==
    /\ Defaults \in Seq(Pair) /\ Defaults # <<>>
    /\ StrKey \subseteq Key /\ IntKey \subseteq Key
    /\ NoKey \notin Key
    /\ Ops \subseteq AllOps
    /\ NativeGet \in BOOLEAN
    /\ MayBlock \subseteq Stages \ {"idle", "get", "reget", "getint"}
    /\ StrAnswers \in [Key -> SUBSET (Val \cup {Junk})]
    /\ IntAnswers \in [Key -> SUBSET Num]
    /\ Mortal \subseteq Proc
    /\ Methods \subseteq {"set_conf", "add_cache", "remove_cache", "set_cache",
                         "add_nvram", "set_nvram"}
    /\ Confs \subseteq Flags /\ CacheCfgs \subseteq Flags
    /\ Images \subseteq [Key -> Val \cup {NoVal}]

TypeOK ==
    /\ PluginTypeOK
    /\ init \in [Proc -> BOOLEAN]
    /\ config \in [Proc -> Flags]
    /\ cache \in [Proc -> [Key -> Entry]]
    /\ pc \in [Proc -> Stages]
    /\ call \in [Proc -> Calls \cup {NoCall}]
    /\ idx \in [Proc -> 1 .. Len(Defaults)]
    /\ ret \in [Proc -> Val \cup Num \cup {NoVal, Junk}]
    /\ gone \subseteq Key
    /\ lost \in [Proc -> SUBSET Key]

Init ==
    /\ nvram \in Images
    /\ cacheCfg \in [Key -> CacheCfgs]
    /\ conf \in Confs
    /\ reply = [p \in Proc |-> NoReply]
    /\ init = [p \in Proc |-> FALSE]
    /\ config = [p \in Proc |-> {}]
    /\ cache = [p \in Proc |-> EmptyCache]
    /\ pc = [p \in Proc |-> "idle"]
    /\ call = [p \in Proc |-> NoCall]
    /\ idx = [p \in Proc |-> 1]
    /\ ret = [p \in Proc |-> NoVal]
    /\ gone = {}
    /\ lost = [p \in Proc |-> {}]

-----------------------------------------------------------------------------
(* Control flow: the stages of each API function. *)

\* nvram_get_buf, nvram_get_int and nvram_default_get initialise the library
\* when they find it uninitialised; the writing functions do not.
InitFirst == {"init", "get", "get_int", "safe_unset", "default_get"}

\* The first stage of a function's own work, initialisation apart.
Body(p, op) ==
    CASE op = "default_get" -> IF NativeGet /\ 1 \in config[p] THEN "idle" ELSE "get"
      [] op \in {"get", "safe_unset"} -> "get"
      [] op = "get_int" -> "getint"
      [] op = "set_int" -> "setint"
      [] op = "list_add" -> "listadd"
      [] op = "reset" -> "clear"
      [] op = "set_default" -> "load"
      [] op = "commit" -> "sync"
      [] op = "init" -> "idle"
      [] OTHER -> op

\* The stage that follows p's present one; found: whether a read found its key.
After(p, found) ==
    LET op == call[p].op
    IN  CASE pc[p] = "init" -> "load"
          [] pc[p] = "load" /\ idx[p] < Len(Defaults) -> "load"
          [] pc[p] = "load" /\ idx[p] = Len(Defaults) /\ op \in InitFirst -> Body(p, op)
          [] pc[p] = "clear" /\ op = "reset" -> "load"
          [] pc[p] = "get" /\ op = "safe_unset" -> "reget"
          [] pc[p] = "reget" /\ op = "safe_unset" /\ found -> "unset"
          [] pc[p] = "get" /\ op = "default_get" /\ ~found /\ call[p].val # NoVal -> "set"
          [] pc[p] = "set" /\ op = "default_get" -> "reget"
          [] OTHER -> "idle"

\* Enters stage l with Defaults[i] the next pair to write.
Enter(p, l, i) ==
    /\ pc' = [pc EXCEPT ![p] = l]
    /\ call' = [call EXCEPT ![p] = IF l = "idle" THEN NoCall ELSE @]
    /\ idx' = [idx EXCEPT ![p] = i]
    /\ reply' = [reply EXCEPT ![p] = NoReply]

Loading(p, l) == pc[p] = "load" /\ l = "load"

\* Mutants of Goto: the index is not reset when the load ends, a load starts
\* where the last one ended, and the index does not advance.
GotoPastEnd(p, l) == Enter(p, l, IF pc[p] = "load" THEN idx[p] + 1 ELSE 1)
GotoNoRewind(p, l) == Enter(p, l, IF Loading(p, l) THEN idx[p] + 1 ELSE idx[p])
GotoStuck(p, l) == Enter(p, l, 1)

\* Leaves the present stage for stage l.
Goto(p, l) == Enter(p, l, IF Loading(p, l) THEN idx[p] + 1 ELSE 1)

\* The firmware calls an API function.  init is set before any hypercall.
Call(p) ==
    /\ pc[p] = "idle"
    /\ \E c \in Calls :
         LET l == IF c.op \in InitFirst /\ ~init[p] THEN "init" ELSE Body(p, c.op)
         IN  /\ l # "idle"
             /\ pc' = [pc EXCEPT ![p] = l]
             /\ call' = [call EXCEPT ![p] = c]
             /\ init' = [init EXCEPT ![p] = @ \/ l = "init"]
             /\ lost' = IF l = "init" THEN [lost EXCEPT ![p] = {}] ELSE lost
    /\ ret' = [ret EXCEPT ![p] = NoVal]
    /\ UNCHANGED <<hostVars, reply, config, cache, idx, gone>>

\* The key and the value of the present stage.
CurKey(p) == IF pc[p] = "load" THEN Defaults[idx[p]].key ELSE call[p].key
CurVal(p) == IF pc[p] = "load" THEN Defaults[idx[p]].val ELSE call[p].val

\* get_cached(key, m) under `config & 2': a node that has one of the flags m.
Cached(p, k, m) == 2 \in config[p] /\ cache[p][k].conf \cap m # {}

\* The flags a stage looks its key up under.
Lookup(l) ==
    CASE l \in {"get", "reget"} -> {1}
      [] l = "getint" -> {2}
      [] l \in {"set", "setint", "unset", "load"} -> {1, 2}
      [] OTHER -> {}

Hit(p) == Lookup(pc[p]) # {} /\ Cached(p, CurKey(p), Lookup(pc[p]))

\* A stage its cache answers.  A cached key's writes succeed and do nothing.
CacheHit(p) ==
    /\ pc[p] # "idle" /\ reply[p] = NoReply
    /\ Hit(p)
    /\ ret' = [ret EXCEPT ![p] = CASE pc[p] \in {"get", "reget"} -> cache[p][CurKey(p)].str
                                   [] pc[p] = "getint" -> cache[p][CurKey(p)].int
                                   [] OTHER -> @]
    /\ Goto(p, After(p, TRUE))
    /\ UNCHANGED <<hostVars, init, config, cache, history>>

-----------------------------------------------------------------------------
(* Traps: a stage its cache does not answer; the host does its part. *)

Trapping(p, l) == pc[p] \in l /\ reply[p] = NoReply /\ ~Hit(p)

TrapInit(p) ==
    /\ Trapping(p, {"init"})
    /\ HcInit(p)
    /\ UNCHANGED <<guestVars, history>>

TrapGetBuf(p) ==
    /\ Trapping(p, {"get", "reget"})
    /\ HcGetBuf(p, CurKey(p))
    /\ UNCHANGED <<guestVars, history>>

TrapGetInt(p) ==
    /\ Trapping(p, {"getint"})
    /\ HcGetInt(p, CurKey(p))
    /\ UNCHANGED <<guestVars, history>>

\* Key k has a value again, whoever was to write it.
Written(k) ==
    /\ gone' = gone \ {k}
    /\ lost' = [q \in Proc |-> lost[q] \ {k}]

\* nvram_list_add makes its hypercall without a look at the cache.
TrapSet(p) ==
    /\ Trapping(p, {"set", "load", "listadd"})
    /\ HcSet(p, CurKey(p), CurVal(p))
    /\ Written(CurKey(p))
    /\ UNCHANGED guestVars

TrapSetInt(p) ==
    /\ Trapping(p, {"setint"})
    /\ HcSetInt(p, CurKey(p), CurVal(p))
    /\ Written(CurKey(p))
    /\ UNCHANGED guestVars

TrapUnset(p) ==
    /\ Trapping(p, {"unset"})
    /\ HcUnset(p, CurKey(p))
    /\ gone' = gone \cup {CurKey(p)}
    /\ UNCHANGED <<guestVars, lost>>

\* The clear of nvram_reset is no removal: the defaults are to follow.
TrapClear(p) ==
    /\ Trapping(p, {"clear"})
    /\ HcClear(p)
    /\ gone' = IF call[p].op = "reset" THEN gone ELSE Key
    /\ UNCHANGED <<guestVars, lost>>

TrapSync(p) ==
    /\ Trapping(p, {"sync"})
    /\ HcSync(p)
    /\ UNCHANGED <<guestVars, history>>

\* A callback consumes the hypercall: nvram_block_all, or the one of the single
\* hypercall (nvram_get, nvram_get_int).
TrapBlocked(p) ==
    /\ \/ Trapping(p, MayBlock) /\ HcBlocked(p, Junk)
       \/ /\ Trapping(p, {"get", "reget"})
          /\ \E v \in StrAnswers[CurKey(p)] : HcBlocked(p, v)
       \/ /\ Trapping(p, {"getint"})
          /\ \E n \in IntAnswers[CurKey(p)] : HcBlocked(p, n)
    /\ UNCHANGED <<guestVars, history>>

-----------------------------------------------------------------------------
(* Returns: the library reads the answer of its trap. *)

Returning(p, l) == pc[p] \in l /\ reply[p] # NoReply

\* `result & CACHE == CACHE' is result & 1.
ToCache(p) == 1 \in reply[p].flags

ReturnInit(p) ==
    /\ Returning(p, {"init"})
    /\ config' = [config EXCEPT ![p] = reply[p].flags]
    /\ Goto(p, After(p, TRUE))
    /\ UNCHANGED <<hostVars, init, cache, ret, history>>

ReturnGetBuf(p) ==
    /\ Returning(p, {"get", "reget"})
    /\ LET found == reply[p].tag # "NOTFOUND"
           k == CurKey(p)
       IN  /\ ret' = [ret EXCEPT ![p] = IF found THEN reply[p].val ELSE NoVal]
           /\ IF found /\ ToCache(p)
              THEN \E e \in Fresh(cache[p][k]) :
                     cache' = [cache EXCEPT ![p][k] = InsertStr(e, reply[p].val, reply[p].flags)]
              ELSE cache' = cache
           /\ Goto(p, After(p, found))
    /\ UNCHANGED <<hostVars, init, config, history>>

ReturnGetInt(p) ==
    /\ Returning(p, {"getint"})
    /\ ret' = [ret EXCEPT ![p] = reply[p].val]
    /\ LET k == CurKey(p)
       IN  IF ToCache(p)
           THEN \E e \in Fresh(cache[p][k]) :
                  cache' = [cache EXCEPT ![p][k] = InsertInt(e, reply[p].val, reply[p].flags)]
           ELSE cache' = cache
    /\ Goto(p, After(p, TRUE))
    /\ UNCHANGED <<hostVars, init, config, history>>

\* The cache is emptied when the host answers anything but zero.
ReturnClear(p) ==
    /\ Returning(p, {"clear"})
    /\ cache' = IF reply[p].tag = "ZERO" THEN cache ELSE [cache EXCEPT ![p] = EmptyCache]
    /\ Goto(p, After(p, TRUE))
    /\ UNCHANGED <<hostVars, init, config, ret, history>>

ReturnOther(p) ==
    /\ Returning(p, {"load", "set", "setint", "listadd", "unset", "sync"})
    /\ Goto(p, After(p, TRUE))
    /\ UNCHANGED <<hostVars, init, config, cache, ret, history>>

\* p is inside a call that will still load key k.
Owes(p, k) ==
    \/ pc[p] = "init"
    \/ pc[p] = "clear" /\ call[p].op = "reset"
    \/ /\ pc[p] = "load"
       /\ \E i \in idx[p] .. Len(Defaults) :
            Defaults[i].key = k /\ (i = idx[p] => reply[p] = NoReply)

\* The process dies, at whatever stage, and is started again.
Restart(p) ==
    /\ p \in Mortal
    /\ init' = [init EXCEPT ![p] = FALSE]
    /\ config' = [config EXCEPT ![p] = {}]
    /\ cache' = [cache EXCEPT ![p] = EmptyCache]
    /\ ret' = [ret EXCEPT ![p] = NoVal]
    /\ Goto(p, "idle")
    /\ lost' = [lost EXCEPT ![p] = @ \cup {k \in Key : nvram[k] = NoVal /\ Owes(p, k)}]
    /\ UNCHANGED <<hostVars, gone>>

\* An analysis script calls a method of the plugin.
Script ==
    /\ \/ /\ \/ "set_conf" \in Methods /\ \E c \in Confs : SetConf(c)
             \/ "add_cache" \in Methods /\ \E k \in Key, c \in CacheCfgs : AddCache(k, c)
             \/ "remove_cache" \in Methods /\ \E k \in Key : RemoveCache(k)
             \/ "set_cache" \in Methods /\ \E f \in [Key -> CacheCfgs] : SetCache(f)
          /\ UNCHANGED history
       \/ "add_nvram" \in Methods /\ \E k \in Key, v \in Val : AddNvram(k, v) /\ Written(k)
       \/ /\ "set_nvram" \in Methods
          /\ \E d \in Images : SetNvram(d) /\ gone' = {k \in Key : d[k] = NoVal}
          /\ UNCHANGED lost
    /\ UNCHANGED guestVars

\* A step of the API call p is in.
Step(p) ==
    \/ CacheHit(p)
    \/ TrapInit(p) \/ TrapGetBuf(p) \/ TrapGetInt(p) \/ TrapSet(p) \/ TrapSetInt(p)
    \/ TrapUnset(p) \/ TrapClear(p) \/ TrapSync(p) \/ TrapBlocked(p)
    \/ ReturnInit(p) \/ ReturnGetBuf(p) \/ ReturnGetInt(p) \/ ReturnClear(p)
    \/ ReturnOther(p)

Next ==
    \/ \E p \in Proc : Call(p) \/ Step(p) \/ Restart(p)
    \/ Script

Spec == Init /\ [][Next]_vars

\* The guest kernel schedules every process, and every trap returns.
FairSpec == Spec /\ \A p \in Proc : WF_vars(Step(p))

-----------------------------------------------------------------------------
(* Properties. *)

DefaultKeys == {d.key : d \in Range(Defaults)}

\* Once a process has initialised the library, a default key is missing from
\* the store only if it was removed on purpose, some process is still on its way
\* to write it, or one died on that way and has not initialised the library since:
\* however the resets, initialisations and deaths of several processes interleave,
\* none of them leaves a hole in the defaults that the next initialisation does
\* not close (nvram_reset, nvram_set_default, nvram_init).
DefaultsSurvive ==
    (\E p \in Proc : init[p]) =>
        \A k \in DefaultKeys :
            nvram[k] # NoVal \/ k \in gone \/ \E p \in Proc : Owes(p, k) \/ k \in lost[p]

\* Every API call returns to the firmware.
CallsReturn == \A p \in Proc : pc[p] # "idle" ~> pc[p] = "idle"
=============================================================================
