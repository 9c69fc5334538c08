---------------------------- MODULE MCTempBuffer ----------------------------
(* An instance of TempBuffer for TLC: process p1 has the threads t1 and t2,    *)
(* process p2 the thread t3.                                                   *)
EXTENDS TempBuffer

CONSTANTS p1, p2, t1, t2, t3, k1, k2, a, x, y

El(r) == [first |-> a, rest |-> r]

\* A list of two elements and one of one under k1, one element under k2.
MCValues == [k \in Key |-> IF k = k1 THEN {<<El(x), El(y)>>, <<El(y)>>} ELSE {<<El(x)>>}]

MCProcOf == [t \in Thread |-> IF t = t3 THEN p2 ELSE p1]

\* k1 has a built-in default, k2 one of a file.
MCDefaults == <<[key |-> k1, val |-> <<El(x), El(y)>>, file |-> FALSE],
                [key |-> k2, val |-> <<El(x)>>, file |-> TRUE]>>

MCOps == [t \in Thread |->
            CASE t = t1 -> {"get", "nget", "nset", "list_del"}
              [] t = t2 -> {"buf", "set", "setf", "wget"}
              [] OTHER -> {"unset"}]

\* Thread t1 alone, deleting from lists.
DelOps == [t \in Thread |-> IF t = t1 THEN {"list_del"} ELSE {}]

\* Two threads of a process that read, and no other calls.
ReadOps == [t \in Thread |-> IF t = t3 THEN {} ELSE {"get"}]
=============================================================================
