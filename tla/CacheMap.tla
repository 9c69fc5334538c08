------------------------------- MODULE CacheMap -------------------------------
(***************************************************************************)
(* The guest cache as its users see it, and as HyperNvram models it: a map *)
(* from keys to entries.                                                   *)
(***************************************************************************)
EXTENDS CacheEntry

VARIABLES
    map,    \* map[k]: the entry of k, NoEntry if it has none
    found   \* what the last lookup found

vars == <<map, found>>

Init == map = EmptyCache /\ found = NoEntry

Lookup(k, m) ==
    /\ found' = IF map[k].conf \cap m # {} THEN map[k] ELSE NoEntry
    /\ UNCHANGED map

PutStr(k, v, f) ==
    /\ \E e \in Fresh(map[k]) : map' = [map EXCEPT ![k] = InsertStr(e, v, f)]
    /\ UNCHANGED found

PutInt(k, n, f) ==
    /\ \E e \in Fresh(map[k]) : map' = [map EXCEPT ![k] = InsertInt(e, n, f)]
    /\ UNCHANGED found

Drop(k) == map' = [map EXCEPT ![k] = NoEntry] /\ UNCHANGED found

Next ==
    \E k \in Key, f \in Flags :
        \/ Lookup(k, f)
        \/ \E v \in Val : PutStr(k, v, f)
        \/ \E n \in Num : PutInt(k, n, f)
        \/ Drop(k)

Spec == Init /\ [][Next]_vars
=============================================================================
