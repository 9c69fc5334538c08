-------------------------- MODULE MCDefaultSources --------------------------
(* Instances of DefaultSources for TLC: every short file, every short table,  *)
(* and lists of four sources, each there or not.                              *)
EXTENDS DefaultSources

CONSTANTS a, b, TextLen, BytesLen

Texts == [kind : {"text"}, there : {TRUE}, firmae : {FALSE}, cols : {2}, data : SeqOf({a, b, Eq, NL}, TextLen)]
Files == [kind : {"bytes"}, there : {TRUE}, firmae : {FALSE}, cols : {2}, data : SeqOf({a, b, Eq, NUL}, BytesLen)]

Name == {<<a>>, <<b>>}
RowsOf(cols) ==
    IF cols = 2 THEN {<<k, v>> : k \in Name, v \in {<<b>>, Null}}
                ELSE {<<k, v, f>> : k \in Name, v \in {<<b>>, Null}, f \in {Null, One}}
Table(cols, rows) ==
    [kind |-> "table", there |-> TRUE, firmae |-> FALSE, cols |-> cols,
     data |-> FlattenSeq(rows) \o [i \in 1 .. IF cols = 2 THEN 2 ELSE 1 |-> Null]]
Tables == UNION {{Table(cols, rows) : rows \in SeqOf(RowsOf(cols), 3)} : cols \in {2, 3}}

Flags == [there : BOOLEAN, firmae : BOOLEAN]
Lists ==
    {<<[kind |-> "builtin", there |-> TRUE, firmae |-> FALSE, cols |-> 2,
        data |-> <<[key |-> <<a>>, val |-> <<b>>, firmae |-> FALSE],
                   [key |-> <<b>>, val |-> <<b>>, firmae |-> TRUE]>>],
       [kind |-> "text", there |-> f.there, firmae |-> f.firmae, cols |-> 2,
        data |-> <<a, Eq, a, NL, NL, b, Eq>>],
       [kind |-> "table", there |-> g.there, firmae |-> FALSE, cols |-> 3,
        data |-> <<<<a>>, <<b>>, Null, <<b>>, <<a>>, One, Null>>],
       [kind |-> "bytes", there |-> h.there, firmae |-> h.firmae, cols |-> 2,
        data |-> <<b, Eq, b, NUL>>]>>
     : f \in Flags, g \in Flags, h \in Flags}

MCScenarios == {<<s>> : s \in Texts \cup Files \cup Tables} \cup Lists
=============================================================================
