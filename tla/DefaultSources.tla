---------------------------- MODULE DefaultSources ----------------------------
(***************************************************************************)
(* Where the defaults come from: nvram_set_default (nvram.c:302) goes      *)
(* through the built-in values and then through a list of sources, each a  *)
(* table of the firmware or a file of one of two formats, and makes one    *)
(* nvram_set per pair it finds.  The parsers run here as the loops they    *)
(* are; HyperNvram and TempBuffer take the pairs as given (Defaults).      *)
(*                                                                         *)
(* A source is a record: its kind; whether it is there (the symbol is not  *)
(* NULL, the file can be read, the list does not call it an ELF file);     *)
(* whether it counts only when FIRMAE_NVRAM is set; the columns of a       *)
(* table; its data.                                                        *)
(*    builtin  pairs, with a flag for FIRMAE_ENTRY (nvram.c:364)           *)
(*    table    pointers, each Null, One or a string (nvram.c:407)          *)
(*    text     characters, lines of key=value (alias.c:29)                 *)
(*    bytes    characters, key=value ending in NUL (nvram.c:482)           *)
(* Strings are sequences of characters.                                    *)
(***************************************************************************)
EXTENDS Naturals, Sequences, SequencesExt

CONSTANTS
    Debug,          \* DEBUG of config.h
    Char,           \* characters,
    Eq, NL, NUL,    \* among them these
    Null, One,      \* the pointers 0 and (char *) 1
    LineSize,       \* BUFFER_SIZE: what fgets reads at most, with a NUL
    FieldSize,      \* LEN: the size of larr and of rarr
    Scenarios       \* lists of sources

VARIABLES
    sources, firmae,    \* the environment: fixed
    pc, at,             \* "next" source, "load", "done"; the source's number
    pos,                \* how much of the source's data is consumed
    left, larr, rarr,   \* of parse_nvram_from_file: the arrays up to j and k
    out                 \* the pairs given to nvram_set

vars == <<sources, firmae, pc, at, pos, left, larr, rarr, out>>

Kinds == {"builtin", "table", "text", "bytes"}

DataOf(kind) ==
    CASE kind = "builtin" -> Seq([key : Seq(Char), val : Seq(Char), firmae : BOOLEAN])
      [] kind = "table" -> Seq(Seq(Char) \cup {Null, One})
      [] kind \in {"text", "bytes"} -> Seq(Char)

SourceOf(kind) ==
    [kind : {kind}, there : BOOLEAN, firmae : BOOLEAN, cols : {2, 3}, data : DataOf(kind)]

ASSUME SourceAssumption ==
    /\ Debug \in BOOLEAN
    /\ {Eq, NL, NUL} \subseteq Char /\ Eq \notin {NL, NUL}
    /\ LineSize \in Nat \ {0, 1} /\ FieldSize \in Nat \ {0}
    /\ \A list \in Scenarios :
           /\ Len(list) \in Nat /\ DOMAIN list = 1 .. Len(list)
           /\ \A i \in DOMAIN list : list[i].kind \in Kinds /\ list[i] \in SourceOf(list[i].kind)

TypeOK ==
    /\ pc \in {"next", "load", "done"}
    /\ at \in 1 .. Len(sources) + 1
    /\ pc = "load" => at <= Len(sources)
    /\ pos \in Nat
    /\ pc = "load" /\ sources[at].kind # "table" => pos <= Len(sources[at].data)
    /\ left \in BOOLEAN
    /\ larr \in Seq(Char) /\ Len(larr) <= FieldSize
    /\ rarr \in Seq(Char) /\ Len(rarr) <= FieldSize

Init ==
    /\ sources \in Scenarios
    /\ firmae \in BOOLEAN
    /\ pc = "next" /\ at = 1 /\ pos = 0
    /\ left = TRUE /\ larr = <<>> /\ rarr = <<>>
    /\ out = <<>>

Source == sources[at]
Data == Source.data

\* Whether source s is read.  All calls but that of nvram_set_default_builtin are
\* arguments of PRINT_MSG, which evaluates its arguments only if DEBUG is set.
Wanted(s) ==
    /\ s.there
    /\ s.firmae => firmae
    /\ Debug \/ s.kind = "builtin"

Begin ==
    /\ pc = "next" /\ at <= Len(sources)
    /\ IF Wanted(Source) THEN pc' = "load" /\ UNCHANGED at ELSE at' = at + 1 /\ UNCHANGED pc
    /\ UNCHANGED <<sources, firmae, pos, left, larr, rarr, out>>

\* The end of the present source.
End ==
    /\ pc' = "next" /\ at' = at + 1 /\ pos' = 0
    /\ left' = TRUE /\ larr' = <<>> /\ rarr' = <<>>
    /\ UNCHANGED <<sources, firmae, out>>

Write(key, val) == out' = Append(out, <<key, val>>)

Loading(kind) == pc = "load" /\ Source.kind = kind

\* ENTRY, FIRMAE_ENTRY and each round of FIRMAE_FOR_ENTRY.
Builtin ==
    /\ Loading("builtin") /\ pos < Len(Data)
    /\ LET e == Data[pos + 1]
       IN  IF e.firmae => firmae THEN Write(e.key, e.val) ELSE UNCHANGED out
    /\ pos' = pos + 1
    /\ UNCHANGED <<sources, firmae, pc, at, left, larr, rarr>>

-----------------------------------------------------------------------------
(* nvram_set_default_table.  The number of columns is guessed in every row. *)

Pointer(i) == Data[i + 1]

\* Mutant of Stride: only NULL tells a third column.
StrideByNull(i) == IF Pointer(i + 2) # Null THEN 2 ELSE 3

Stride(i) == IF Pointer(i + 2) \notin {Null, One} THEN 2 ELSE 3

\* Inside the table, as far as the loop looks in this round.
Inside == pos < Len(Data) /\ (Pointer(pos) # Null => pos + 2 < Len(Data))

\* nvram_set rejects a NULL value.
Row ==
    /\ Loading("table") /\ Inside /\ Pointer(pos) # Null
    /\ IF Pointer(pos + 1) = Null THEN UNCHANGED out ELSE Write(Pointer(pos), Pointer(pos + 1))
    /\ pos' = pos + Stride(pos)
    /\ UNCHANGED <<sources, firmae, pc, at, left, larr, rarr>>

-----------------------------------------------------------------------------
(* foreach_nvram_from: fgets, and what is before and after the first `='. *)

First(s, c) == SelectInSeq(s, LAMBDA x : x = c)
Before(s, c) == IF First(s, c) = 0 THEN s ELSE SubSeq(s, 1, First(s, c) - 1)
After(s, c) == SubSeq(s, First(s, c) + 1, Len(s))

\* Mutant of Chunk: nothing is read of a line that does not fit the buffer.
ChunkWhole(s) ==
    LET line == SubSeq(s, 1, IF First(s, NL) = 0 THEN Len(s) ELSE First(s, NL))
    IN  IF Len(line) < LineSize THEN line ELSE <<>>

\* What fgets reads of s: a line with its newline, or as much as the buffer holds.
Chunk(s) ==
    LET most == SubSeq(s, 1, IF Len(s) < LineSize THEN Len(s) ELSE LineSize - 1)
    IN  IF First(most, NL) = 0 THEN most ELSE SubSeq(most, 1, First(most, NL))

Line ==
    /\ Loading("text") /\ pos < Len(Data)
    /\ LET s == Chunk(SubSeq(Data, pos + 1, Len(Data)))
       IN  /\ IF First(s, Eq) = 0 THEN UNCHANGED out
              ELSE Write(Before(s, Eq), Before(After(s, Eq), NL))
           /\ pos' = pos + Len(s)
    /\ UNCHANGED <<sources, firmae, pc, at, left, larr, rarr>>

-----------------------------------------------------------------------------
(* parse_nvram_from_file, byte by byte. *)

\* Mutant of Put: one byte too many.
PutOneMore(a, c) == IF Len(a) <= FieldSize THEN Append(a, c) ELSE a

\* Stores c in the array, unless it is full.
Put(a, c) == IF Len(a) < FieldSize THEN Append(a, c) ELSE a

\* larr[j - 1] = '\0'
Ended(a) == [a EXCEPT ![Len(a)] = NUL]

\* The string in an array that is zero behind what was stored.  One that is full
\* and has no NUL goes on in memory: it is delivered with a NUL inside.
CString(a) == IF NUL \notin ToSet(a) /\ Len(a) = FieldSize THEN Append(a, NUL) ELSE Before(a, NUL)

\* Mutant of Side: it never changes.
SideAlways(c) == left

\* Whether the next byte still belongs to the key.
Side(c) == left /\ c # Eq

Feed ==
    /\ Loading("bytes") /\ pos < Len(Data)
    /\ LET c == Data[pos + 1]
           l == IF left THEN Put(larr, c) ELSE larr
           r == IF left THEN rarr ELSE Put(rarr, c)
       IN  IF c = NUL
           THEN /\ Write(CString(l), CString(r))
                /\ left' = TRUE /\ larr' = <<>> /\ rarr' = <<>>
           ELSE /\ larr' = IF c = Eq THEN Ended(l) ELSE l
                /\ rarr' = r
                /\ left' = Side(c)
                /\ UNCHANGED out
    /\ pos' = pos + 1
    /\ UNCHANGED <<sources, firmae, pc, at>>

-----------------------------------------------------------------------------

\* The source is at its end, or the table's loop has left the table.
Finish ==
    /\ pc = "load"
    /\ IF Source.kind = "table" THEN Inside => Pointer(pos) = Null ELSE pos = Len(Data)
    /\ End

\* nvram_set_default returns.
Return ==
    /\ pc = "next" /\ at > Len(sources)
    /\ pc' = "done"
    /\ UNCHANGED <<sources, firmae, at, pos, left, larr, rarr, out>>

Next == Begin \/ Builtin \/ Row \/ Line \/ Feed \/ Finish \/ Return

Spec == Init /\ [][Next]_vars
FairSpec == Spec /\ WF_vars(Next)

-----------------------------------------------------------------------------
(* What the sources say, by their formats alone. *)

\* The piece of s that ends before position i and starts behind the last c there.
Start(s, c, i) == CHOOSE j \in 0 .. i - 1 : (j = 0 \/ s[j] = c) /\ \A x \in j + 1 .. i - 1 : s[x] # c
Piece(s, c, i) == SubSeq(s, Start(s, c, i) + 1, i - 1)

HasEq(s) == Eq \in ToSet(s)
PairOf(s) == <<Before(s, Eq), IF HasEq(s) THEN After(s, Eq) ELSE <<>>>>

EndsLine(s, i) == i = Len(s) + 1 \/ s[i] = NL

\* A table ends before its first row without a key; rows are counted from 0.
RowKey(s, i) == s.data[s.cols * i + 1]
RowVal(s, i) == s.data[s.cols * i + 2]
HasRows(s, n) ==
    /\ s.cols * n < Len(s.data)
    /\ RowKey(s, n) = Null
    /\ \A i \in 0 .. n - 1 : RowKey(s, i) \notin {Null, One}
RowCount(s) == CHOOSE n \in 0 .. Len(s.data) : HasRows(s, n)

\* What each entry, row or character of a source adds to its pairs.
Parts(s) ==
    CASE s.kind = "builtin" ->
           [i \in DOMAIN s.data |-> LET e == s.data[i]
                                    IN  IF e.firmae => firmae THEN <<<<e.key, e.val>>>> ELSE <<>>]
      [] s.kind = "table" ->
           [i \in 1 .. RowCount(s) |->
               IF RowVal(s, i - 1) = Null THEN <<>> ELSE <<<<RowKey(s, i - 1), RowVal(s, i - 1)>>>>]
      [] s.kind = "text" ->
           [i \in 1 .. Len(s.data) + 1 |-> LET line == Piece(s.data, NL, i)
                                           IN  IF EndsLine(s.data, i) /\ HasEq(line) THEN <<PairOf(line)>>
                                               ELSE <<>>]
      [] s.kind = "bytes" ->
           [i \in DOMAIN s.data |->
               IF s.data[i] = NUL THEN <<PairOf(Piece(s.data, NUL, i))>> ELSE <<>>]

\* The first i of some sequences, joined, and all of them.
UpTo(parts) ==
    LET upTo[i \in 0 .. Len(parts)] == IF i = 0 THEN <<>> ELSE upTo[i - 1] \o parts[i] IN upTo
Joined(parts) == UpTo(parts)[Len(parts)]

Pairs(s) == Joined(Parts(s))

\* A table of n rows has two columns and ends in a row of NULL, or it has a third
\* one of 0 and 1 and ends in NULL.
Shaped(s, n) ==
    /\ HasRows(s, n)
    /\ IF s.cols = 2
       THEN 2 * n + 1 < Len(s.data) /\ RowVal(s, n) = Null
       ELSE \A i \in 0 .. n - 1 : s.data[3 * i + 3] \in {Null, One}

\* The formats the parsers are made for.
WellFormed(s) ==
    CASE s.kind = "builtin" -> TRUE
      [] s.kind = "table" ->
           \E n \in 0 .. Len(s.data) : Shaped(s, n)
      [] s.kind = "text" ->
           \A i \in 1 .. Len(s.data) + 1 :
               EndsLine(s.data, i) =>
                   Len(Piece(s.data, NL, i)) + (IF i = Len(s.data) + 1 THEN 1 ELSE 2) <= LineSize
      [] s.kind = "bytes" ->
           \A i \in DOMAIN s.data :
               LET pair == PairOf(Piece(s.data, NUL, i))
               IN  s.data[i] = NUL => Len(pair[1]) < FieldSize /\ Len(pair[2]) < FieldSize

-----------------------------------------------------------------------------
(* Properties. *)

Counts(s) == s.there /\ (s.firmae => firmae)
PairsBySource == [i \in DOMAIN sources |-> IF Counts(sources[i]) THEN Pairs(sources[i]) ELSE <<>>]
Expected == Joined(PairsBySource)

\* The pairs of every source that is there reach nvram_set, in order and with
\* nothing invented between them, if the sources are in the formats the parsers
\* are made for (nvram_set_default, nvram_set_default_table, foreach_nvram_from,
\* parse_nvram_from_file).
SourcesLoaded ==
    (\A i \in DOMAIN sources : WellFormed(sources[i])) =>
        IsPrefix(out, Expected) /\ (pc = "done" => out = Expected)

\* The loop over a table reads no pointer outside it, though it guesses the number
\* of columns from one of them (nvram_set_default_table).
InsideTable == Loading("table") /\ WellFormed(Source) => Inside

AllHaveEq(s) == \A i \in DOMAIN s : s[i] = NUL => HasEq(Piece(s, NUL, i))
CutKey(key) == SubSeq(key, 1, IF Len(key) < FieldSize THEN Len(key) ELSE FieldSize - 1)

\* A key that is too long for larr reaches nvram_set cut to what fits, and
\* terminated, if it has its '=' (parse_nvram_from_file).
LongKeysCut ==
    Len(sources) = 1 /\ sources[1].kind = "bytes" /\ AllHaveEq(sources[1].data) =>
        \A n \in DOMAIN out : out[n][1] = CutKey(Pairs(sources[1])[n][1])

\* nvram_set_default returns.
Returns == <>(pc = "done")
=============================================================================
