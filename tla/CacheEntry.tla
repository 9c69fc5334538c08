------------------------------ MODULE CacheEntry ------------------------------
(***************************************************************************)
(* What the library caches of a key, shared by the model of the whole      *)
(* system and by the model of the list that holds the entries.             *)
(*                                                                         *)
(* Flag words (the plugin's conf, a cache entry's conf, the low bits of a  *)
(* return word) are the sets of those of their bits 1 and 2 that are set,  *)
(* the only bits the guest ever tests: `w & m' is w \cap m # {} and        *)
(* `w |= x' is w \cup x.  Bit 1 of an entry says that it serves nvram_get, *)
(* bit 2 that it serves nvram_get_int.                                     *)
(***************************************************************************)

CONSTANTS
    Key,   \* NVRAM keys
    Val,   \* strings a key may hold
    Num,   \* integers nvram_get_int may deliver
    Junk   \* what a buffer or a malloc'ed field held before it was written

Flags == SUBSET {1, 2}

\* A cache_node: val, vali and conf; conf = 0 exactly when there is no node.
Entry == [str : Val \cup {Junk}, int : Num \cup {Junk}, conf : Flags]
NoEntry == [str |-> Junk, int |-> Junk, conf |-> {}]
EmptyCache == [k \in Key |-> NoEntry]

\* What an insertion starts from: the entry there is, or a node as malloc returns
\* it, whose flags nobody has written.
Fresh(e) == IF e.conf = {} THEN {[e EXCEPT !.conf = g] : g \in Flags} ELSE {e}

\* insert_cached_str and insert_cached_int write one field, the control bits of
\* the word the host answered with, and the kind's own flag.
InsertStr(e, v, f) == [e EXCEPT !.str = v, !.conf = @ \cup f \cup {1}]
InsertInt(e, n, f) == [e EXCEPT !.int = n, !.conf = @ \cup f \cup {2}]
=============================================================================
