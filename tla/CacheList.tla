------------------------------ MODULE CacheList ------------------------------
(***************************************************************************)
(* The guest cache as the library keeps it (libhypernvram/nvram.c): a      *)
(* doubly linked list of malloc'ed cache_nodes between the globals cache   *)
(* and cache_end.  One process, whose jobs are                             *)
(*                                                                         *)
(*    get         get_cached, for a read, a write or an unset              *)
(*    str, int    insert_cached_str, insert_cached_int after a read        *)
(*    clear       the loop of nvram_clear that deletes the first node      *)
(*                until there is none                                      *)
(*                                                                         *)
(* Every job walks the list in get_cached; an iteration of its loop is a   *)
(* step here, so that a walk can fail to end.  order is a history          *)
(* variable, the nodes in the order in which they were appended.           *)
(*                                                                         *)
(* create_cache writes a node's key, and back unless the node is the first *)
(* one; forward, conf, val and vali keep what malloc left there, new memory*)
(* or a chunk freed before, until something writes them.  A link left so   *)
(* is NULL or Wild, a pointer to somewhere.  The library is astray once it *)
(* takes such a pointer for a node's or a value's; what it does then is    *)
(* undefined, and no step here.                                            *)
(***************************************************************************)
EXTENDS CacheEntry, Naturals, Sequences

CONSTANTS
    Node,     \* the chunks of memory malloc can return for a cache_node
    Null,
    Wild,     \* a pointer that is not NULL and that nobody has written
    Words     \* the low bits of the words the host marks a cached value with

ASSUME ListAssumption ==
    /\ Null \notin Node /\ Wild \notin Node \cup {Null}
    /\ Key # {}
    /\ Words \subseteq {f \in Flags : 1 \in f}
    /\ Junk \notin Val \cup Num

VARIABLES
    cache, cache_end,                      \* the globals
    key, conf, val, vali, forward, back,   \* the fields of each node
    job,       \* what the library is at
    current,   \* get_cached's local of that name, Wild once it is astray
    found,     \* what the last get found
    order

links == <<cache, cache_end, forward, back>>
fields == <<key, conf, val, vali>>
vars == <<links, fields, job, current, found, order>>

NoJob == [op |-> "idle"]

Jobs ==
    [op : {"get"}, key : Key, flags : {{1}, {2}, {1, 2}}]
        \cup [op : {"str"}, key : Key, flags : Words, val : Val]
        \cup [op : {"int"}, key : Key, flags : Words, val : Num]
        \cup [op : {"clear"}]

ListTypeOK ==
    /\ cache \in Node \cup {Null} /\ cache_end \in Node \cup {Null}
    /\ key \in [Node -> Key]
    /\ conf \in [Node -> Flags]
    /\ val \in [Node -> Val \cup {Junk}]
    /\ vali \in [Node -> Num \cup {Junk}]
    /\ forward \in [Node -> Node \cup {Null, Wild}]
    /\ back \in [Node -> Node \cup {Null, Wild}]
    /\ job \in Jobs \cup {NoJob}
    /\ current \in Node \cup {Null, Wild}
    /\ found \in Entry
    /\ order \in Seq(Node)

\* What a chunk that is no node holds is of no matter: AnyKey, no flags, Junk
\* and Null links stand for it.
AnyKey == CHOOSE k \in Key : TRUE

Init ==
    /\ cache = Null /\ cache_end = Null
    /\ key = [n \in Node |-> AnyKey]
    /\ conf = [n \in Node |-> {}]
    /\ val = [n \in Node |-> Junk]
    /\ vali = [n \in Node |-> Junk]
    /\ forward = [n \in Node |-> Null]
    /\ back = [n \in Node |-> Null]
    /\ job = NoJob
    /\ current = Null
    /\ found = NoEntry
    /\ order = <<>>

Live == {order[i] : i \in 1 .. Len(order)}

\* The chunks the next malloc may return, freed ones among them.  When there is
\* none left, which stands for no limit of the code, no insertion begins.
Available == Node \ Live

Unwritten == {Null, Wild}

Astray == current = Wild

Begin ==
    /\ job = NoJob
    /\ \E j \in Jobs :
         /\ j.op \in {"str", "int"} => Available # {}
         /\ job' = j
    /\ current' = cache
    /\ UNCHANGED <<links, fields, found, order>>

-----------------------------------------------------------------------------
(* get_cached *)

\* Its arguments in the present job.
Sought == IF job.op = "clear" THEN key[cache] ELSE job.key
Mask == IF job.op = "get" THEN job.flags ELSE {1, 2}

AtEnd == ~Astray /\ (current # Null => key[current] = Sought)

\* What it returns: the first node with the key, if it has one of the flags.
Target == IF current # Null /\ conf[current] \cap Mask # {} THEN current ELSE Null

Skip ==
    /\ job # NoJob
    /\ current \in Node /\ key[current] # Sought
    /\ current' = forward[current]
    /\ UNCHANGED <<links, fields, job, found, order>>

EntryOf(n) == [str |-> val[n], int |-> vali[n], conf |-> conf[n]]

Get ==
    /\ job.op = "get" /\ AtEnd
    /\ found' = IF Target = Null THEN NoEntry ELSE EntryOf(Target)
    /\ job' = NoJob /\ current' = Null
    /\ UNCHANGED <<links, fields, order>>

-----------------------------------------------------------------------------
(* create_cache and the insertions *)

\* Mutant of Fill: both kinds write the string.
FillOneField(n, f) ==
    /\ conf' = [conf EXCEPT ![n] = f \cup job.flags \cup {IF job.op = "str" THEN 1 ELSE 2}]
    /\ val' = [val EXCEPT ![n] = job.val]
    /\ job' = NoJob /\ current' = Null
    /\ UNCHANGED <<vali, found>>

\* insert_cached_str or insert_cached_int on the node create_cache returned,
\* whose flags are f.
Fill(n, f) ==
    /\ conf' = [conf EXCEPT ![n] = f \cup job.flags \cup {IF job.op = "str" THEN 1 ELSE 2}]
    /\ val' = [val EXCEPT ![n] = IF job.op = "str" THEN job.val ELSE @]
    /\ vali' = [vali EXCEPT ![n] = IF job.op = "int" THEN job.val ELSE @]
    /\ job' = NoJob /\ current' = Null
    /\ UNCHANGED found

Inserting == job.op \in {"str", "int"} /\ AtEnd

Reuse ==
    /\ Inserting /\ Target # Null
    /\ Fill(Target, conf[Target])
    /\ UNCHANGED <<links, key, order>>

\* A new node n: its flags are what malloc left.
Malloc(n) ==
    /\ n \in Available
    /\ key' = [key EXCEPT ![n] = job.key]
    /\ order' = Append(order, n)
    /\ \E f \in Flags : Fill(n, f)

First ==
    /\ Inserting /\ Target = Null /\ cache = Null
    /\ \E n \in Node, f, b \in Unwritten :
         /\ Malloc(n)
         /\ cache' = n /\ cache_end' = n
         /\ forward' = [forward EXCEPT ![n] = f]
         /\ back' = [back EXCEPT ![n] = b]

\* Mutants of LinkLast: no back link; cache_end stays.
LinkLastOneWay(n, f) ==
    /\ forward' = [forward EXCEPT ![n] = f, ![cache_end] = n]
    /\ cache_end' = n
    /\ UNCHANGED back

LinkLastKeepsEnd(n, f) ==
    /\ forward' = [forward EXCEPT ![n] = f, ![cache_end] = n]
    /\ back' = [back EXCEPT ![n] = cache_end]
    /\ UNCHANGED cache_end

\* Links n in behind cache_end; its forward keeps the f that malloc left.
LinkLast(n, f) ==
    /\ forward' = [forward EXCEPT ![n] = f, ![cache_end] = n]
    /\ back' = [back EXCEPT ![n] = cache_end]
    /\ cache_end' = n

Extend ==
    /\ Inserting /\ Target = Null /\ cache # Null
    /\ \E n \in Node, f \in Unwritten : Malloc(n) /\ LinkLast(n, f)
    /\ UNCHANGED cache

-----------------------------------------------------------------------------
(* delete_cached and nvram_clear *)

\* Mutant of Unlink: cache stays at the node that is freed.
UnlinkKeepsHead(t) ==
    LET f == forward[t]
        b == back[t]
    IN  /\ cache_end' = IF t = cache_end THEN b ELSE cache_end
        /\ forward' = [n \in Node |-> IF n = t THEN Null ELSE IF n = b THEN f ELSE forward[n]]
        /\ back' = [n \in Node |-> IF n = t THEN Null ELSE IF n = f THEN b ELSE back[n]]
        /\ UNCHANGED cache

\* Takes t out of the list.
Unlink(t) ==
    LET f == forward[t]
        b == back[t]
    IN  /\ cache_end' = IF t = cache_end THEN b ELSE cache_end
        /\ cache' = IF t = cache THEN f ELSE cache
        /\ forward' = [n \in Node |-> IF n = t THEN Null ELSE IF n = b THEN f ELSE forward[n]]
        /\ back' = [n \in Node |-> IF n = t THEN Null ELSE IF n = f THEN b ELSE back[n]]

Round == job.op = "clear" /\ cache # Null /\ AtEnd

\* A round of the loop; one that finds no node to delete changes nothing.
Delete ==
    /\ Round
    /\ IF Target = Null THEN UNCHANGED <<links, fields, order>>
       ELSE /\ Wild \notin {forward[Target], back[Target]}
            /\ Unlink(Target)
            /\ key' = [key EXCEPT ![Target] = AnyKey]
            /\ conf' = [conf EXCEPT ![Target] = {}]
            /\ val' = [val EXCEPT ![Target] = Junk]
            /\ vali' = [vali EXCEPT ![Target] = Junk]
            /\ order' = SubSeq(order, 2, Len(order))
    /\ current' = cache'
    /\ UNCHANGED <<job, found>>

\* delete_cached writes through a link that nobody wrote, or frees the val of an
\* entry that was cached as an integer only, if it is not NULL by chance.
Trample ==
    /\ Round /\ Target # Null
    /\ Wild \in {forward[Target], back[Target]} \/ val[Target] = Junk
    /\ current' = Wild
    /\ UNCHANGED <<links, fields, job, found, order>>

ClearDone ==
    /\ job.op = "clear" /\ cache = Null /\ ~Astray
    /\ job' = NoJob /\ current' = Null
    /\ UNCHANGED <<links, fields, found, order>>

Step == Skip \/ Get \/ Reuse \/ First \/ Extend \/ Delete \/ Trample \/ ClearDone

Next == Begin \/ Step

Spec == Init /\ [][Next]_vars

FairSpec == Spec /\ WF_vars(Step)

-----------------------------------------------------------------------------
(* Properties. *)

\* Whatever malloc returns, the pointers are a list: cache and cache_end are its
\* ends, every forward link has its back link, no link but those that nobody wrote,
\* at the two ends, leads out of it, and no two nodes have the same key
\* (create_cache, delete_cached).
ListOK ==
    /\ cache = IF order = <<>> THEN Null ELSE order[1]
    /\ order # <<>> => cache_end = order[Len(order)]
    /\ \A i \in 1 .. Len(order) :
         /\ IF i = Len(order) THEN forward[order[i]] \in Unwritten
                             ELSE forward[order[i]] = order[i + 1]
         /\ IF i = 1 THEN back[order[i]] \in Unwritten
                     ELSE back[order[i]] = order[i - 1]
         /\ conf[order[i]] # {}
    /\ \A i, j \in 1 .. Len(order) : key[order[i]] = key[order[j]] => i = j

\* Every get, insertion and clear returns, unless it goes astray: no walk along
\* the list goes round (get_cached, nvram_clear).
JobsEnd == job # NoJob ~> job = NoJob \/ Astray

\* As include/nvram.h says of nvram_get, a key that is not there gives NULL: the
\* library never takes for a node of its list a pointer that nobody wrote
\* (get_cached, create_cache, delete_cached).  Violated.
StaysOnList == ~Astray

\* The list as a map.
MapBar ==
    [k \in Key |-> IF \E n \in Live : key[n] = k
                   THEN EntryOf(CHOOSE n \in Live : key[n] = k) ELSE NoEntry]

AsMap == INSTANCE CacheMap WITH map <- MapBar

\* Whatever malloc leaves in a node, the list is the map until the library goes
\* astray: a get finds what was last inserted under its key, and an insertion or
\* deletion disturbs no other key (get_cached, create_cache, insert_cached_str,
\* insert_cached_int, delete_cached).
IsMap == AsMap!Spec
=============================================================================
