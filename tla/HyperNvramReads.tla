--------------------------- MODULE HyperNvramReads ---------------------------
(***************************************************************************)
(* The library and the plugin keep the promise of PinnedReads, provided    *)
(* the firmware reads a key either as strings or as integers.  A value is  *)
(* pinned when the host answers with a word that will be cached, one step  *)
(* before the library caches it.                                           *)
(***************************************************************************)
EXTENDS HyperNvram

\* p's read has been answered but has not returned.
Answered(p) == reply[p] # NoReply /\ pc[p] \in {"get", "reget", "getint"}

Answer(p) == IF reply[p].tag = "NOTFOUND" THEN NoVal ELSE reply[p].val

\* The value p's cache has for k, as the kind of key k is.
Held(p, k) ==
    IF k \in IntKey THEN IF 2 \in cache[p][k].conf THEN cache[p][k].int ELSE NoVal
                    ELSE IF 1 \in cache[p][k].conf THEN cache[p][k].str ELSE NoVal

PinBar ==
    [p \in Proc |-> [k \in Key |->
        IF 2 \notin config[p] THEN NoVal
        ELSE IF Answered(p) /\ CurKey(p) = k /\ ToCache(p) THEN Answer(p)
        ELSE Held(p, k)]]

GotBar == [p \in Proc |-> IF Answered(p) THEN Answer(p) ELSE ret[p]]

MarkedBar == {k \in Key : 1 \in cacheCfg[k]}

CachesBar == [p \in Proc |-> 2 \in config[p]]

Answers == [k \in Key |-> IF k \in IntKey THEN IntAnswers[k] ELSE StrAnswers[k]]

Promise == INSTANCE PinnedReads
           WITH store <- nvram, marked <- MarkedBar, caches <- CachesBar,
                pin <- PinBar, got <- GotBar

\* Every string or integer a process reads was the store's value of that key at
\* an instant of the read, or an answer of a callback, or is the one value the
\* process cached before, the same at every read: an answer that another process's
\* write overtakes on its way into the cache included.  What is cached are the
\* values of keys that the plugin's table marked when the host answered, under the
\* string bit, and what callbacks answered, marked or not; the words the host
\* leaves in the return register for all other answers, misses included, cache
\* nothing (nvram_get_buf, nvram_get_int, insert_cached_str, insert_cached_int).
ReadsArePinned == Promise!Spec
=============================================================================
