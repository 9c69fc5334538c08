---------------------------- MODULE MCHyperNvram ----------------------------
(* Instances of HyperNvram for TLC. *)
EXTENDS HyperNvramReads, TLC

CONSTANTS p1, p2, k1, k2, v1, v2, one

MCDefaults == <<[key |-> k1, val |-> v1], [key |-> k2, val |-> v1]>>

\* v1 is not a number, v2 is 1.
MCParseInt == [v \in Val |-> IF v = v2 THEN one ELSE Zero]
MCMisread == [n \in Num |-> IF n = Zero THEN {v1} ELSE {v1, v2}]

EmptyImage == [k \in Key |-> NoVal]
MCImages == {EmptyImage}

Off == {{}}
On == {{2}}
OffOrNative == {{}, {1, 2}}
Unmarked == {{}}
Marked == {{1, 2}}
MarkedOrNot == {{}, {1, 2}}

NoAnswers == [k \in Key |-> {}]

\* Callbacks that consume reads and leave the buffers as they are: nvram_get_int
\* has a 0 there.
UnwrittenStr == [k \in Key |-> IF k \in StrKey THEN {Junk} ELSE {}]
UnwrittenInt == [k \in Key |-> IF k \in IntKey THEN {Zero} ELSE {}]

\* Callbacks that may also answer with a value of their own.
AnswerStr == [k \in Key |-> IF k \in StrKey THEN {Junk, v2} ELSE {}]
AnswerInt == [k \in Key |-> IF k \in IntKey THEN {Zero, one} ELSE {}]

Procs == Permutations({p1, p2})
=============================================================================
