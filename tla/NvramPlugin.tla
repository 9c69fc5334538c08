----------------------------- MODULE NvramPlugin -----------------------------
(***************************************************************************)
(* The host side of HyperNVRAM: the PANDA plugin NVRAM_Hypercall of        *)
(* python/nvram_plugin.py.  It owns the key-value store that every guest   *)
(* process shares, the table that says which keys a guest may cache, and   *)
(* the configuration word that NVRAM_INIT hands to a guest.                *)
(*                                                                         *)
(* A handler runs while the guest CPU is stopped in its trap, so a handler *)
(* is one atomic step.  It answers by writing the guest's return register, *)
(* reply[p].  The word RETRY, which makes the guest trap again with        *)
(* nothing changed on the host, is a stuttering step here.                 *)
(***************************************************************************)
EXTENDS CacheEntry

CONSTANTS
    Proc,      \* guest processes that have the library loaded
    Zero,      \* the integer 0
    NoVal,     \* no value: an absent key, a NULL result
    ParseInt,  \* ParseInt[v]: int(v), or 0 when v is not a number
    Misread    \* Misread[n]: the strings NVRAM_SET_INT may store for n

ASSUME PluginAssumption ==
    /\ NoVal \notin Val \cup Num
    /\ Junk \notin Val \cup Num \cup {NoVal}
    /\ Zero \in Num
    /\ ParseInt \in [Val -> Num]
    /\ Misread \in [Num -> (SUBSET Val) \ {{}}]

VARIABLES
    nvram,     \* self.nvram: the value of each key
    cacheCfg,  \* self.cache: the flags a guest may cache each key under
    conf,      \* self.conf: the configuration word of NVRAM_INIT
    reply      \* reply[p]: p's return register, with what the host wrote to
               \* the buffer p passed

hostVars == <<nvram, cacheCfg, conf>>

Tags == {"NONE", "MAGIC", "ZERO", "NOTFOUND", "CACHE", "CONF", "VALUE"}

Reply == [tag : Tags, flags : Flags, val : Val \cup Num \cup {NoVal, Junk}]

Word(t, f, v) == [tag |-> t, flags |-> f, val |-> v]

\* No hypercall has returned to the guest since it last trapped.
NoReply == Word("NONE", {}, NoVal)

\* set_retval(MAGIC_VALUE) before dispatch: 0x4e564843 has both flag bits set.
Magic(v) == Word("MAGIC", {1, 2}, v)

\* The low bits of NVRAM_GET_BUF, the word for a missing key, are clear.
NotFound == Word("NOTFOUND", {}, Junk)

SetRetval(p, w) == reply' = [reply EXCEPT ![p] = w]

\* Mutant of Found: the magic word stays for a key that may not be cached.
FoundKeepsMagic(k, v) ==
    IF cacheCfg[k] # {} THEN Word("CACHE", cacheCfg[k], v) ELSE Magic(v)

\* A key that was found: its cache configuration decides the word.
Found(k, v) ==
    IF cacheCfg[k] # {} THEN Word("CACHE", cacheCfg[k], v)
                        ELSE Word("ZERO", {}, v)

PluginTypeOK ==
    /\ nvram \in [Key -> Val \cup {NoVal}]
    /\ cacheCfg \in [Key -> Flags]
    /\ conf \in Flags
    /\ reply \in [Proc -> Reply]

-----------------------------------------------------------------------------
(* The hypercall handlers. *)

HcInit(p) ==
    /\ SetRetval(p, Word("CONF", conf, NoVal))
    /\ UNCHANGED hostVars

HcGetBuf(p, k) ==
    /\ SetRetval(p, IF nvram[k] = NoVal THEN NotFound ELSE Found(k, nvram[k]))
    /\ UNCHANGED hostVars

\* Mutant of HcGetInt: nothing zeroes the result word before a miss.
HcGetIntUnset(p, k) ==
    /\ SetRetval(p, IF nvram[k] = NoVal THEN Word("ZERO", {}, Junk)
                                        ELSE Found(k, ParseInt[nvram[k]]))
    /\ UNCHANGED hostVars

\* The guest zeroes its result word before the trap; a miss leaves it zero.
HcGetInt(p, k) ==
    /\ SetRetval(p, IF nvram[k] = NoVal THEN Word("ZERO", {}, Zero)
                                        ELSE Found(k, ParseInt[nvram[k]]))
    /\ UNCHANGED hostVars

\* Also NVRAM_LIST_ADD, which stores the element as the whole value.
HcSet(p, k, v) ==
    /\ nvram' = [nvram EXCEPT ![k] = v]
    /\ SetRetval(p, Magic(NoVal))
    /\ UNCHANGED <<cacheCfg, conf>>

\* The guest passes decimal text, and the plugin reads its bytes as a word.
HcSetInt(p, k, n) ==
    /\ \E v \in Misread[n] : nvram' = [nvram EXCEPT ![k] = v]
    /\ SetRetval(p, Word("VALUE", {}, NoVal))
    /\ UNCHANGED <<cacheCfg, conf>>

HcUnset(p, k) ==
    /\ nvram' = [nvram EXCEPT ![k] = NoVal]
    /\ SetRetval(p, IF nvram[k] = NoVal THEN Word("ZERO", {}, NoVal)
                                        ELSE Magic(NoVal))
    /\ UNCHANGED <<cacheCfg, conf>>

HcClear(p) ==
    /\ nvram' = [k \in Key |-> NoVal]
    /\ SetRetval(p, Word("ZERO", {}, NoVal))
    /\ UNCHANGED <<cacheCfg, conf>>

\* NVRAM_COMMIT and NVRAM_CLOSE, which the plugin acknowledges only.
HcSync(p) ==
    /\ SetRetval(p, Magic(NoVal))
    /\ UNCHANGED hostVars

\* A callback consumed the hypercall before any handler saw it: the guest
\* finds v, what its buffer held before, and the magic word.
HcBlocked(p, v) ==
    /\ SetRetval(p, Magic(v))
    /\ UNCHANGED hostVars

-----------------------------------------------------------------------------
(* The methods the plugin exports to analysis scripts.                     *)

SetConf(c) ==
    /\ conf' = c
    /\ UNCHANGED <<nvram, cacheCfg, reply>>

AddNvram(k, v) ==
    /\ nvram' = [nvram EXCEPT ![k] = v]
    /\ UNCHANGED <<cacheCfg, conf, reply>>

\* Replaces the whole dictionary.
SetNvram(d) ==
    /\ nvram' = d
    /\ UNCHANGED <<cacheCfg, conf, reply>>

\* add_cache raises on self.uncache.pop and remove_cache on
\* self.uncache.append, each after it has changed self.cache.  So uncache
\* stays empty, and control, which tests it, never answers CONTROL.
AddCache(k, c) ==
    /\ cacheCfg' = [cacheCfg EXCEPT ![k] = c]
    /\ UNCHANGED <<nvram, conf, reply>>

RemoveCache(k) == AddCache(k, {})

SetCache(f) ==
    /\ cacheCfg' = f
    /\ UNCHANGED <<nvram, conf, reply>>
=============================================================================
