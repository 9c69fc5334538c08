------------------------- MODULE DefaultSourcesProofs -------------------------
(***************************************************************************)
(* Proofs about DefaultSources.  After the types and the loop over a table *)
(* come what the recursive and chosen operators of the expected result     *)
(* are (joined sequences, pieces between characters), then what the arrays *)
(* of parse_nvram_from_file hold of the record being read (FieldInv), what *)
(* is written of it (CutInv), and last what has been written of the        *)
(* sources at each point (OutInv).                                         *)
(***************************************************************************)
EXTENDS DefaultSources, SequenceTheorems, Recursions, TLAPS

LEMMA LeastOf ==
    ASSUME NEW S, S \subseteq Nat, S # {}
    PROVE  Min(S) \in S /\ \A i \in S : Min(S) <= i
<1>1. \E least \in S : \A i \in S : least <= i
  BY LeastElement
<1> QED BY <1>1 DEF Min

LEMMA FirstIsThere ==
    ASSUME NEW C, NEW s \in Seq(C), NEW c
    PROVE  /\ First(s, c) \in 0 .. Len(s)
           /\ First(s, c) # 0 => s[First(s, c)] = c
<1> DEFINE I == {i \in 1 .. Len(s) : s[i] = c}
<1>1. First(s, c) = IF I # {} THEN Min(I) ELSE 0
  BY DEF First, SelectInSeq
<1>2. CASE I = {}
  BY <1>1, <1>2
<1>3. CASE I # {}
  <2>1. Min(I) \in I
    BY <1>3, LeastOf, I \subseteq Nat
  <2> QED BY <1>1, <1>3, <2>1
<1> QED BY <1>2, <1>3

-----------------------------------------------------------------------------
(* The arrays and the position. *)

LEMMA ChunkFits ==
    ASSUME SourceAssumption, NEW s \in Seq(Char)
    PROVE  Len(Chunk(s)) \in 0 .. Len(s)
<1> DEFINE most == SubSeq(s, 1, IF Len(s) < LineSize THEN Len(s) ELSE LineSize - 1)
<1>1. most \in Seq(Char) /\ Len(most) \in 0 .. Len(s)
  BY DEF SourceAssumption
<1>2. First(most, NL) \in 0 .. Len(most)
  BY <1>1, FirstIsThere
<1>3. Len(SubSeq(most, 1, First(most, NL))) = First(most, NL)
  BY <1>1, <1>2
<1>4. Chunk(s) = IF First(most, NL) = 0 THEN most ELSE SubSeq(most, 1, First(most, NL))
  BY DEF Chunk
<1> QED BY <1>1, <1>2, <1>3, <1>4

LEMMA ArrayHolds ==
    ASSUME SourceAssumption, NEW a \in Seq(Char), Len(a) <= FieldSize
    PROVE  /\ \A c \in Char : Put(a, c) \in Seq(Char) /\ Len(Put(a, c)) <= FieldSize
           /\ Ended(a) \in Seq(Char) /\ Len(Ended(a)) <= FieldSize
<1>1. \A c \in Char : Put(a, c) \in Seq(Char) /\ Len(Put(a, c)) <= FieldSize
  BY DEF SourceAssumption, Put
<1>2. NUL \in Char
  BY DEF SourceAssumption
<1>3. Ended(a) \in Seq(Char) /\ Len(Ended(a)) = Len(a)
  <2>1. Ended(a) = [i \in 1 .. Len(a) |-> IF i = Len(a) THEN NUL ELSE a[i]]
    BY DEF Ended
  <2> QED BY <1>2, <2>1
<1> QED BY <1>1, <1>3

LEMMA DataTyped ==
    ASSUME SourceAssumption, sources \in Scenarios, at \in 1 .. Len(sources) + 1, at <= Len(sources)
    PROVE  /\ Source.kind \in Kinds /\ Source.cols \in {2, 3}
           /\ Source.kind \in {"text", "bytes"} => Data \in Seq(Char)
           /\ Len(Data) \in Nat
<1>1. Source.kind \in Kinds /\ Source \in SourceOf(Source.kind)
  BY DEF SourceAssumption, Source
<1>2. Data \in DataOf(Source.kind) /\ Source.cols \in {2, 3}
  BY <1>1 DEF SourceOf, Data
<1> QED BY <1>1, <1>2 DEF Kinds, DataOf

TypeInv ==
    /\ sources \in Scenarios
    /\ TypeOK
    /\ pc = "next" => pos = 0

LEMMA StepKeepsType == ASSUME SourceAssumption, TypeInv, [Next]_vars PROVE TypeInv'
<1>0. /\ Len(sources) \in Nat
      /\ sources \in Scenarios
      /\ TypeOK
      /\ pc = "next" => pos = 0
  BY DEF SourceAssumption, TypeInv
<1>1. CASE UNCHANGED vars
  BY <1>0, <1>1 DEF vars, TypeInv, TypeOK
<1>2. CASE Begin
  <2>1. CASE Wanted(Source)
    <3>1. Len(Data) \in Nat
      BY <1>0, <1>2, DataTyped DEF Begin, TypeOK
    <3> QED BY <1>0, <1>2, <2>1, <3>1 DEF Begin, TypeInv, TypeOK
  <2>2. CASE ~ Wanted(Source)
    BY <1>0, <1>2, <2>2 DEF Begin, TypeInv, TypeOK
  <2> QED BY <2>1, <2>2
<1>3. ASSUME pc = "load", at' = at, pc' = pc, sources' = sources,
             pos < Len(Data) \/ Source.kind = "table",
             pos' \in Nat, Source.kind # "table" => pos' <= Len(Data),
             left' \in BOOLEAN,
             larr' \in Seq(Char), Len(larr') <= FieldSize,
             rarr' \in Seq(Char), Len(rarr') <= FieldSize
      PROVE  TypeInv'
  BY <1>0, <1>3 DEF TypeInv, TypeOK, Source, Data
<1>4. ASSUME pc = "load" PROVE Len(Data) \in Nat
  BY <1>0, <1>4, DataTyped DEF TypeOK
<1>5. CASE Builtin
  <2>1. pc = "load" /\ pos < Len(Data) /\ pos' = pos + 1 /\ Len(Data) \in Nat /\ pos \in Nat
    BY <1>0, <1>4, <1>5 DEF Builtin, Loading, TypeOK
  <2>2. /\ at' = at /\ pc' = pc /\ sources' = sources
        /\ left' = left /\ larr' = larr /\ rarr' = rarr
    BY <1>5 DEF Builtin
  <2> QED BY <1>0, <1>3, <2>1, <2>2 DEF TypeOK
<1>6. CASE Row
  <2>1. pc = "load" /\ Source.kind = "table" /\ pos' = pos + Stride(pos) /\ pos \in Nat
    BY <1>0, <1>6 DEF Row, Loading, TypeOK
  <2>2. /\ at' = at /\ pc' = pc /\ sources' = sources
        /\ left' = left /\ larr' = larr /\ rarr' = rarr
    BY <1>6 DEF Row
  <2>3. pos' \in Nat
    BY <2>1 DEF Stride
  <2> QED BY <1>0, <1>3, <2>1, <2>2, <2>3 DEF TypeOK
<1>7. CASE Line
  <2> DEFINE rest == SubSeq(Data, pos + 1, Len(Data))
  <2>1. pc = "load" /\ Source.kind = "text" /\ pos < Len(Data) /\ pos \in Nat
    BY <1>0, <1>7 DEF Line, Loading, TypeOK
  <2>2. /\ at' = at /\ pc' = pc /\ sources' = sources
        /\ left' = left /\ larr' = larr /\ rarr' = rarr
        /\ pos' = pos + Len(Chunk(rest))
    BY <1>7 DEF Line
  <2>3. Data \in Seq(Char) /\ Len(Data) \in Nat
    BY <1>0, <2>1, DataTyped DEF TypeOK
  <2>4. rest \in Seq(Char) /\ Len(rest) = Len(Data) - pos
    BY <2>1, <2>3
  <2>5. Len(Chunk(rest)) \in 0 .. Len(rest)
    BY <2>4, ChunkFits
  <2>6. pos' \in Nat /\ pos' <= Len(Data)
    BY <2>1, <2>2, <2>3, <2>4, <2>5
  <2> QED BY <1>0, <1>3, <2>1, <2>2, <2>6 DEF TypeOK
<1>8. CASE Feed
  <2> DEFINE c == Data[pos + 1]
             l == IF left THEN Put(larr, c) ELSE larr
             r == IF left THEN rarr ELSE Put(rarr, c)
  <2>1. pc = "load" /\ Source.kind = "bytes" /\ pos < Len(Data) /\ pos \in Nat
    BY <1>0, <1>8 DEF Feed, Loading, TypeOK
  <2>2. at' = at /\ pc' = pc /\ sources' = sources /\ pos' = pos + 1
    BY <1>8 DEF Feed
  <2>3. Data \in Seq(Char) /\ Len(Data) \in Nat
    BY <1>0, <2>1, DataTyped DEF TypeOK
  <2>4. c \in Char
    BY <2>1, <2>3
  <2>5. l \in Seq(Char) /\ Len(l) <= FieldSize /\ r \in Seq(Char) /\ Len(r) <= FieldSize
    BY <1>0, <2>4, ArrayHolds DEF TypeOK
  <2>6. Ended(l) \in Seq(Char) /\ Len(Ended(l)) <= FieldSize
    BY <2>5, ArrayHolds
  <2>7. /\ left' \in BOOLEAN
        /\ larr' \in Seq(Char) /\ Len(larr') <= FieldSize
        /\ rarr' \in Seq(Char) /\ Len(rarr') <= FieldSize
    <3>1. CASE c = NUL
      <4>1. left' = TRUE /\ larr' = <<>> /\ rarr' = <<>>
        BY <1>8, <3>1 DEF Feed
      <4> QED BY <4>1 DEF SourceAssumption
    <3>2. CASE c # NUL
      <4>1. larr' = (IF c = Eq THEN Ended(l) ELSE l) /\ rarr' = r /\ left' = Side(c)
        BY <1>8, <3>2 DEF Feed
      <4>2. Side(c) \in BOOLEAN
        BY DEF Side
      <4> QED BY <2>5, <2>6, <4>1, <4>2
    <3> QED BY <3>1, <3>2
  <2>8. pos' \in Nat /\ pos' <= Len(Data)
    BY <2>1, <2>2, <2>3
  <2> QED BY <1>3, <2>1, <2>2, <2>7, <2>8
<1>9. CASE Finish
  <2>1. pc = "load" /\ End
    BY <1>9 DEF Finish
  <2>2. /\ pc' = "next" /\ at' = at + 1 /\ pos' = 0 /\ sources' = sources
        /\ left' = TRUE /\ larr' = <<>> /\ rarr' = <<>>
    BY <2>1 DEF End
  <2> QED BY <1>0, <2>1, <2>2 DEF TypeInv, TypeOK, SourceAssumption
<1>10. CASE Return
  BY <1>0, <1>10 DEF Return, TypeInv, TypeOK
<1> QED BY <1>1, <1>2, <1>5, <1>6, <1>7, <1>8, <1>9, <1>10 DEF Next

LEMMA StartsTyped == ASSUME SourceAssumption, Init PROVE TypeInv
<1>1. Len(sources) \in Nat
  BY DEF SourceAssumption, Init
<1> QED BY <1>1 DEF Init, TypeInv, TypeOK, SourceAssumption

\* Whatever the sources hold and whichever are there, larr and rarr are never
\* written beyond their ends and no parser goes past the end of its file
\* (parse_nvram_from_file, foreach_nvram_from).
THEOREM TypeCorrect == Spec => []TypeOK
<1>1. Init => TypeInv
  BY SourceAssumption, StartsTyped
<1>2. TypeInv /\ [Next]_vars => TypeInv'
  BY SourceAssumption, StepKeepsType
<1>3. TypeInv => TypeOK
  BY DEF TypeInv
<1> QED BY <1>1, <1>2, <1>3, PTL DEF Spec

-----------------------------------------------------------------------------
(* The loop over a table.  In a well-formed one the position is always that of *)
(* a row or, where the last row has two columns and its successor's NULL is     *)
(* taken for a third, that of the NULL after it.                                *)

AtRow(s, n) ==
    IF s.cols = 2 THEN pos = 2 * n + 1 \/ \E i \in 0 .. n : pos = 2 * i
                  ELSE \E i \in 0 .. n : pos = 3 * i

RowsInv == Loading("table") => \A n \in 0 .. Len(Data) : Shaped(Source, n) => AtRow(Source, n)

\* Where such a position leads: inside the table, and to the next one.
LEMMA RowInside ==
    ASSUME SourceAssumption, TypeInv, Loading("table"),
           NEW n \in 0 .. Len(Data), Shaped(Source, n), AtRow(Source, n)
    PROVE  /\ Inside
           /\ Pointer(pos) # Null =>
                IF Source.cols = 2
                THEN pos + Stride(pos) = 2 * n + 1 \/ \E i \in 0 .. n : pos + Stride(pos) = 2 * i
                ELSE \E i \in 0 .. n : pos + Stride(pos) = 3 * i
<1>1. Source.cols \in {2, 3} /\ Len(Data) \in Nat /\ n \in Nat
  BY DataTyped DEF TypeInv, TypeOK, Loading
<1>2. CASE Source.cols = 2
  <2>1. /\ 2 * n + 1 < Len(Data) /\ Data[2 * n + 1] = Null /\ Data[2 * n + 2] = Null
        /\ \A i \in 0 .. n - 1 : Data[2 * i + 1] \notin {Null, One}
    BY <1>2 DEF Shaped, HasRows, RowKey, RowVal, Data
  <2>2. CASE pos = 2 * n + 1
    <3>1. Pointer(pos) = Null
      BY <1>1, <2>1, <2>2 DEF Pointer
    <3> QED BY <1>1, <2>1, <2>2, <3>1 DEF Inside
  <2>3. ASSUME NEW i \in 0 .. n, pos = 2 * i
        PROVE  /\ Inside
               /\ Pointer(pos) # Null =>
                    pos + Stride(pos) = 2 * n + 1 \/ \E k \in 0 .. n : pos + Stride(pos) = 2 * k
    <3>1. CASE i = n
      BY <1>1, <2>1, <2>3, <3>1 DEF Pointer, Inside
    <3>2. CASE i # n
      <4>1. i + 1 \in 0 .. n /\ i \in 0 .. n - 1
        BY <1>1, <3>2
      <4>2. pos + 2 < Len(Data)
        BY <1>1, <2>1, <2>3, <4>1
      <4>3. Pointer(pos + 2) = Data[2 * (i + 1) + 1]
        BY <2>3, <4>1 DEF Pointer
      <4>4. CASE i + 1 = n
        <5>1. Pointer(pos + 2) = Null
          BY <2>1, <4>3, <4>4
        <5>2. pos + Stride(pos) = 2 * n + 1
          BY <1>1, <2>3, <4>4, <5>1 DEF Stride
        <5> QED BY <4>2, <5>2, <1>1, <4>1, <2>3 DEF Inside
      <4>5. CASE i + 1 # n
        <5>1. i + 1 \in 0 .. n - 1
          BY <1>1, <4>1, <4>5
        <5>2. Pointer(pos + 2) \notin {Null, One}
          BY <2>1, <4>3, <5>1
        <5>3. pos + Stride(pos) = 2 * (i + 1)
          BY <1>1, <2>3, <4>1, <5>2 DEF Stride
        <5>4. pos < Len(Data)
          BY <1>1, <2>3, <4>2
        <5>5. Inside
          BY <4>2, <5>4 DEF Inside
        <5> QED BY <4>1, <5>3, <5>5
      <4> QED BY <4>4, <4>5
    <3> QED BY <3>1, <3>2
  <2>4. pos = 2 * n + 1 \/ \E i \in 0 .. n : pos = 2 * i
    BY <1>2 DEF AtRow
  <2> QED BY <1>2, <2>2, <2>3, <2>4
<1>3. CASE Source.cols = 3
  <2>1. /\ 3 * n < Len(Data) /\ Data[3 * n + 1] = Null
        /\ \A i \in 0 .. n - 1 : Data[3 * i + 3] \in {Null, One}
    BY <1>3 DEF Shaped, HasRows, RowKey, Data
  <2>2. PICK i \in 0 .. n : pos = 3 * i
    BY <1>3 DEF AtRow
  <2>3. CASE i = n
    BY <1>1, <1>3, <2>1, <2>2, <2>3 DEF Pointer, Inside
  <2>4. CASE i # n
    <3>1. i + 1 \in 0 .. n /\ i \in 0 .. n - 1
      BY <1>1, <2>4
    <3>2. pos + 2 < Len(Data)
      BY <1>1, <2>1, <2>2, <3>1
    <3>3. Pointer(pos + 2) \in {Null, One}
      <4>1. Pointer(pos + 2) = Data[3 * i + 3]
        BY <2>2, <3>1 DEF Pointer
      <4> QED BY <2>1, <3>1, <4>1
    <3>4. pos + Stride(pos) = 3 * (i + 1)
      BY <2>2, <3>1, <3>3 DEF Stride
    <3>5. pos < Len(Data)
      BY <1>1, <2>2, <3>2
    <3>6. Inside
      BY <3>2, <3>5 DEF Inside
    <3>7. \E k \in 0 .. n : pos + Stride(pos) = 3 * k
      BY <3>1, <3>4
    <3> QED BY <1>3, <3>6, <3>7
  <2> QED BY <2>3, <2>4
<1> QED BY <1>1, <1>2, <1>3

LEMMA StepKeepsRows ==
    ASSUME SourceAssumption, TypeInv, RowsInv, [Next]_vars
    PROVE  RowsInv'
<1>1. CASE UNCHANGED vars
  BY <1>1 DEF vars, RowsInv, Loading, Shaped, HasRows, RowKey, RowVal, AtRow, Source, Data
<1>2. CASE Begin
  <2>1. pos' = 0 /\ sources' = sources
    BY <1>2 DEF Begin, TypeInv
  <2>2. ASSUME Loading("table")', NEW n \in (0 .. Len(Data))'
        PROVE  AtRow(Source, n)'
    <3>1. at' \in 1 .. Len(sources)' + 1 /\ at' <= Len(sources)' /\ sources' \in Scenarios
      BY <2>2, StepKeepsType DEF TypeInv, TypeOK, Loading
    <3>2. Len(Data)' \in Nat
      <4>1. Source' \in SourceOf(Source'.kind) /\ Source'.kind \in Kinds
        BY <3>1 DEF SourceAssumption, Source
      <4>2. Data' \in DataOf(Source'.kind)
        BY <4>1 DEF SourceOf, Data
      <4> QED BY <4>1, <4>2 DEF Kinds, DataOf
    <3>3. 0 \in 0 .. n /\ 2 * 0 = 0 /\ 3 * 0 = 0
      BY <2>2, <3>2
    <3> QED BY <2>1, <3>3 DEF AtRow
  <2> QED BY <2>1, <2>2 DEF RowsInv
<1>3. CASE Row
  <2>1. /\ Loading("table") /\ Pointer(pos) # Null /\ pos' = pos + Stride(pos)
        /\ pc' = pc /\ Source' = Source /\ Data' = Data
    BY <1>3 DEF Row, Source, Data
  <2>2. ASSUME NEW n \in 0 .. Len(Data), Shaped(Source, n)
        PROVE  AtRow(Source, n)'
    <3>1. AtRow(Source, n)
      BY <2>1, <2>2 DEF RowsInv
    <3>2. IF Source.cols = 2
          THEN pos' = 2 * n + 1 \/ \E i \in 0 .. n : pos' = 2 * i
          ELSE \E i \in 0 .. n : pos' = 3 * i
      BY <2>1, <2>2, <3>1, RowInside
    <3> QED BY <2>1, <3>2 DEF AtRow
  <2>3. \A n : Shaped(Source, n)' <=> Shaped(Source, n)
    BY <2>1 DEF Shaped, HasRows, RowKey, RowVal
  <2>4. pc' = "load"
    BY <2>1 DEF Loading
  <2> QED BY <2>1, <2>2, <2>3, <2>4 DEF RowsInv
<1>4. CASE Builtin \/ Line \/ Feed
  <2>1. pc' = "load" /\ Source' = Source /\ Source.kind # "table"
    BY <1>4 DEF Builtin, Line, Feed, Loading, Source
  <2> QED BY <2>1 DEF RowsInv, Loading
<1>5. CASE Finish
  BY <1>5 DEF Finish, End, RowsInv, Loading
<1>6. CASE Return
  BY <1>6 DEF Return, RowsInv, Loading
<1> QED BY <1>1, <1>2, <1>3, <1>4, <1>5, <1>6 DEF Next

\* The loop over a table reads no pointer outside a well-formed one, whatever its
\* rows hold: the wrong guess of three columns for a last row of two leads to the
\* second NULL behind it (nvram_set_default_table).
THEOREM TablesInside == Spec => []InsideTable
<1>1. Init => TypeInv /\ RowsInv
  BY SourceAssumption, StartsTyped DEF Init, RowsInv, Loading
<1>2. TypeInv /\ RowsInv /\ [Next]_vars => (TypeInv /\ RowsInv)'
  BY SourceAssumption, StepKeepsType, StepKeepsRows
<1>3. TypeInv /\ RowsInv => InsideTable
  <2>1. ASSUME TypeInv, RowsInv, Loading("table"), WellFormed(Source) PROVE Inside
    <3>1. PICK n \in 0 .. Len(Data) : Shaped(Source, n)
      BY <2>1 DEF WellFormed, Loading, Data
    <3>2. AtRow(Source, n)
      BY <2>1, <3>1 DEF RowsInv
    <3> QED BY <2>1, <3>1, <3>2, SourceAssumption, RowInside
  <2> QED BY <2>1 DEF InsideTable
<1> QED BY <1>1, <1>2, <1>3, PTL DEF Spec

-----------------------------------------------------------------------------
(* Joined sequences. *)

LEMMA UpToDef ==
    ASSUME NEW T, NEW parts \in Seq(Seq(T))
    PROVE  /\ UpTo(parts)[0] = <<>>
           /\ \A i \in 1 .. Len(parts) : UpTo(parts)[i] = UpTo(parts)[i - 1] \o parts[i]
           /\ \A i \in 0 .. Len(parts) : UpTo(parts)[i] \in Seq(T)
<1> DEFINE N == Len(parts)
           D == 0 .. N
           C == Seq(T)
           a == <<>>
           R == [i \in Nat |-> IF i \in 1 .. N THEN parts[i] ELSE <<>>]
           g == [i \in Nat |-> [x \in C |-> x \o R[i]]]
           upTo[i \in D] == IF i = 0 THEN <<>> ELSE upTo[i - 1] \o parts[i]
           Solution(h) == h = [i \in D |-> IF i = 0 THEN <<>> ELSE h[i - 1] \o parts[i]]
<1>1. N \in Nat /\ a \in C
  OBVIOUS
<1>2. g \in [Nat -> [C -> C]]
  <2>1. \A i \in Nat : R[i] \in Seq(T)
    OBVIOUS
  <2> HIDE DEF R
  <2> QED BY <2>1
<1>3. PICK f \in [0 .. N -> C] : Solves(f, 0 .. N, a, g)
  <2> HIDE DEF N, C, a, g
  <2> QED BY <1>1, <1>2, Recursion
<1>4. f[0] = <<>>
  BY <1>3 DEF Solves
<1>5. ASSUME NEW i \in 1 .. N PROVE f[i] = f[i - 1] \o parts[i]
  <2>1. f[i] = g[i][f[i - 1]]
    <3> HIDE DEF g, a, C, N
    <3> QED BY <1>1, <1>3 DEF Solves
  <2>2. f[i - 1] \in C /\ i \in Nat /\ R[i] = parts[i]
    BY <1>1
  <2>3. g[i][f[i - 1]] = f[i - 1] \o R[i]
    <3> HIDE DEF R, C
    <3> QED BY <2>2
  <2> QED BY <2>1, <2>2, <2>3
<1> HIDE DEF R, g
<1>6. Solution(f)
  <2>1. ASSUME NEW i \in 0 .. N PROVE f[i] = IF i = 0 THEN <<>> ELSE f[i - 1] \o parts[i]
    <3>1. CASE i = 0
      BY <1>4, <3>1
    <3>2. CASE i # 0
      <4>1. i \in 1 .. N
        BY <3>2
      <4> QED BY <1>5, <3>2, <4>1
    <3> QED BY <3>1, <3>2
  <2> HIDE DEF N, C
  <2> QED BY <2>1
<1>7. Solution(upTo)
  <2>1. upTo = CHOOSE h : Solution(h)
    OBVIOUS
  <2> HIDE DEF Solution, upTo
  <2> QED BY <1>6, <2>1
<1>8. UpTo(parts) = upTo
  BY DEF UpTo
<1> HIDE DEF upTo
<1>9. upTo[0] = <<>> /\ \A i \in 1 .. N : upTo[i] = upTo[i - 1] \o parts[i]
  <2>1. 0 \in D /\ \A i \in 1 .. N : i \in D /\ i # 0
    BY <1>1
  <2> HIDE DEF N, D
  <2> QED BY <1>7, <2>1
<1>10. Nat \subseteq {i \in Nat : i <= N => upTo[i] \in Seq(T)}
  <2> DEFINE S == {i \in Nat : i <= N => upTo[i] \in Seq(T)}
  <2>1. 0 \in S
    BY <1>9, EmptySeq
  <2>2. ASSUME NEW i \in Nat, i \in S PROVE i + 1 \in S
    <3>1. CASE i + 1 <= N
      <4>1. i + 1 \in 1 .. N /\ (i + 1) - 1 = i /\ upTo[i] \in Seq(T)
        BY <1>1, <2>2, <3>1
      <4>2. upTo[i + 1] = upTo[i] \o parts[i + 1]
        BY <1>9, <4>1
      <4>3. parts[i + 1] \in Seq(T)
        BY <4>1
      <4>4. upTo[i] \o parts[i + 1] \in Seq(T)
        BY <4>1, <4>3, ConcatProperties
      <4>5. upTo[i + 1] \in Seq(T)
        BY <4>2, <4>4
      <4> QED BY <4>5
    <3> QED BY <3>1
  <2> HIDE DEF S
  <2>3. Nat \subseteq S
    BY <2>1, <2>2, Induction
  <2> QED BY <2>3 DEF S
<1> HIDE DEF N
<1>11. \A i \in 0 .. N : upTo[i] \in Seq(T)
  BY <1>1, <1>10
<1> QED BY <1>8, <1>9, <1>11 DEF N

Begins(s, t, T) == \E u \in Seq(T) : t = s \o u

LEMMA BeginsPrefix ==
    ASSUME NEW T, NEW s \in Seq(T), NEW t, Begins(s, t, T)
    PROVE  IsPrefix(s, t)
<1>1. PICK u \in Seq(T) : t = s \o u
  BY DEF Begins
<1>2. t \in Seq(T) /\ Len(s) <= Len(t) /\ \A i \in 1 .. Len(s) : t[i] = s[i]
  BY <1>1, ConcatProperties
<1>3. SubSeq(s, 1, Len(s)) = SubSeq(t, 1, Len(s))
  BY <1>2
<1> QED BY <1>2, <1>3 DEF IsPrefix

LEMMA BeginsThere ==
    ASSUME NEW T, NEW a \in Seq(T), NEW s \in Seq(T), NEW t \in Seq(T), NEW u,
           Begins(s, t, T), Begins(a \o t, u, T)
    PROVE  Begins(a \o s, u, T)
<1>1. PICK x \in Seq(T) : t = s \o x
  BY DEF Begins
<1>2. PICK y \in Seq(T) : u = (a \o t) \o y
  BY DEF Begins
<1>3. a \o t = (a \o s) \o x
  BY <1>1, ConcatAssociative, SMTT(30)
<1>4. u = (a \o s) \o (x \o y)
  <2> DEFINE b == a \o s
  <2>1. b \in Seq(T)
    OBVIOUS
  <2>2. u = (b \o x) \o y
    BY <1>2, <1>3
  <2> HIDE DEF b
  <2>3. (b \o x) \o y = b \o (x \o y)
    BY <1>1, <1>2, <2>1, ConcatAssociative, SMTT(30)
  <2>4. u = b \o (x \o y)
    BY <2>2, <2>3
  <2> QED BY <2>4 DEF b
<1>5. x \o y \in Seq(T)
  OBVIOUS
<1> QED BY <1>4, <1>5 DEF Begins

LEMMA UpToBegins ==
    ASSUME NEW T, NEW parts \in Seq(Seq(T)), NEW i \in 0 .. Len(parts)
    PROVE  Begins(UpTo(parts)[i], Joined(parts), T)
<1> DEFINE N == Len(parts)
           U == UpTo(parts)
           S == {d \in Nat : d <= N => Begins(U[N - d], U[N], T)}
<1>1. N \in Nat /\ \A j \in 0 .. N : U[j] \in Seq(T)
  <2>1. \A j \in 0 .. N : U[j] \in Seq(T)
    BY UpToDef, Zenon
  <2> QED BY <2>1
<1>2. \A j \in 1 .. N : U[j] = U[j - 1] \o parts[j]
  BY UpToDef
<1> HIDE DEF U
<1>3. 0 \in S
  <2>1. U[N] \in Seq(T) /\ U[N] = U[N] \o <<>> /\ <<>> \in Seq(T)
    BY <1>1, ConcatEmptySeq
  <2>2. Begins(U[N], U[N], T)
    BY <2>1 DEF Begins
  <2> QED BY <1>1, <2>2
<1>4. ASSUME NEW d \in Nat, d \in S PROVE d + 1 \in S
  <2>1. CASE d + 1 <= N
    <3> DEFINE j == N - d
    <3>1. j \in 1 .. N /\ N - (d + 1) = j - 1 /\ Begins(U[j], U[N], T)
      BY <1>1, <1>4, <2>1
    <3> HIDE DEF j, N
    <3>2. PICK u \in Seq(T) : U[N] = U[j] \o u
      BY <3>1 DEF Begins
    <3> DEFINE v == U[j - 1]
               p == parts[j]
    <3>3. U[j] = v \o p
      BY <1>2, <3>1
    <3>4. v \in Seq(T)
      BY <1>1, <3>1
    <3>5. p \in Seq(T)
      BY <3>1 DEF N
    <3> HIDE DEF v, p
    <3>6. U[N] = v \o (p \o u)
      <4>1. (v \o p) \o u = v \o (p \o u)
        BY <3>2, <3>4, <3>5, ConcatAssociative, SMTT(30)
      <4> QED BY <3>2, <3>3, <4>1
    <3>7. p \o u \in Seq(T)
      BY <3>2, <3>5, ConcatProperties
    <3>8. Begins(v, U[N], T)
      BY <3>6, <3>7 DEF Begins
    <3> QED BY <3>1, <3>8 DEF v
  <2>2. CASE ~ (d + 1 <= N)
    BY <2>2
  <2> QED BY <2>1, <2>2
<1>5. Nat \subseteq S
  <2> HIDE DEF S
  <2> QED BY <1>3, <1>4, Induction
<1>6. N - i \in Nat /\ N - i <= N /\ N - (N - i) = i
  BY <1>1
<1>7. Begins(U[i], U[N], T)
  <2> HIDE DEF U, N
  <2> QED BY <1>5, <1>6
<1> QED BY <1>7 DEF Joined, U

-----------------------------------------------------------------------------
(* Pieces, and what is before and after a character. *)

\* Position j is where the piece that ends before i starts.
Starts(s, c, i, j) == (j = 0 \/ s[j] = c) /\ \A x \in j + 1 .. i - 1 : s[x] # c

LEMMA StartIs ==
    ASSUME NEW C, NEW s \in Seq(C), NEW c, NEW i \in 1 .. Len(s) + 1
    PROVE  /\ Start(s, c, i) \in 0 .. i - 1 /\ Starts(s, c, i, Start(s, c, i))
           /\ \A j \in 0 .. i - 1 : Starts(s, c, i, j) => Start(s, c, i) = j
<1> DEFINE S == {d \in 0 .. i - 1 : d = i - 1 \/ s[i - 1 - d] = c}
<1>1. S \subseteq Nat /\ S # {}
  <2>1. i - 1 \in 0 .. i - 1
    OBVIOUS
  <2>2. i - 1 \in S
    BY <2>1
  <2>3. S \subseteq Nat
    OBVIOUS
  <2> HIDE DEF S
  <2> QED BY <2>2, <2>3
<1>2. PICK d \in S : \A e \in S : d <= e
  BY <1>1, LeastElement
<1>3. Starts(s, c, i, i - 1 - d) /\ i - 1 - d \in 0 .. i - 1
  <2>1. d \in 0 .. i - 1 /\ (d = i - 1 \/ s[i - 1 - d] = c)
    BY <1>2
  <2>2. ASSUME NEW x \in (i - 1 - d) + 1 .. i - 1, s[x] = c PROVE FALSE
    <3>1. i - 1 - x \in 0 .. i - 1 /\ i - 1 - (i - 1 - x) = x /\ i - 1 - x < d
      BY <2>1
    <3>2. i - 1 - x \in S
      BY <2>2, <3>1
    <3> HIDE DEF S
    <3>3. d <= i - 1 - x
      BY <1>2, <3>2
    <3> QED BY <2>1, <3>1, <3>3
  <2> QED BY <2>1, <2>2 DEF Starts
<1>4. Start(s, c, i) \in 0 .. i - 1 /\ Starts(s, c, i, Start(s, c, i))
  BY <1>3 DEF Start, Starts
<1>5. ASSUME NEW j \in 0 .. i - 1, NEW k \in 0 .. i - 1, Starts(s, c, i, j), Starts(s, c, i, k)
      PROVE  j = k
  <2>1. ~ (j < k)
    BY <1>5 DEF Starts
  <2>2. ~ (k < j)
    BY <1>5 DEF Starts
  <2> QED BY <2>1, <2>2
<1> QED BY <1>4, <1>5

LEMMA StartStep ==
    ASSUME NEW C, NEW s \in Seq(C), NEW c
    PROVE  /\ Start(s, c, 1) = 0
           /\ \A i \in 1 .. Len(s) : Start(s, c, i + 1) = IF s[i] = c THEN i ELSE Start(s, c, i)
<1>1. Start(s, c, 1) = 0
  <2>1. 1 \in 1 .. Len(s) + 1
    OBVIOUS
  <2>2. Start(s, c, 1) \in 0 .. 1 - 1
    BY <2>1, StartIs
  <2> QED BY <2>2
<1>2. ASSUME NEW i \in 1 .. Len(s) PROVE Start(s, c, i + 1) = IF s[i] = c THEN i ELSE Start(s, c, i)
  <2>1. i + 1 \in 1 .. Len(s) + 1 /\ i \in 1 .. Len(s) + 1 /\ (i + 1) - 1 = i
    OBVIOUS
  <2>2. CASE s[i] = c
    <3>1. i \in 0 .. (i + 1) - 1 /\ Starts(s, c, i + 1, i)
      BY <2>2 DEF Starts
    <3> QED BY <2>1, <2>2, <3>1, StartIs
  <2>3. CASE s[i] # c
    <3> DEFINE j == Start(s, c, i)
    <3>1. j \in 0 .. i - 1 /\ Starts(s, c, i, j)
      BY <2>1, StartIs
    <3> HIDE DEF j
    <3>2. j \in 0 .. (i + 1) - 1 /\ Starts(s, c, i + 1, j)
      BY <2>3, <3>1 DEF Starts
    <3>3. Start(s, c, i + 1) = j
      BY <2>1, <3>2, StartIs
    <3> QED BY <2>3, <3>3 DEF j
  <2> QED BY <2>2, <2>3
<1> QED BY <1>1, <1>2

\* A piece has no c, and grows by the characters that are none.
LEMMA PieceFirst ==
    ASSUME NEW C, NEW s \in Seq(C), NEW c
    PROVE  Piece(s, c, 1) = <<>>
BY StartStep DEF Piece

LEMMA PieceIs ==
    ASSUME NEW C, NEW s \in Seq(C), NEW c, NEW i \in 1 .. Len(s) + 1
    PROVE  /\ Piece(s, c, i) \in Seq(C) /\ Len(Piece(s, c, i)) = i - 1 - Start(s, c, i)
           /\ \A x \in 1 .. Len(Piece(s, c, i)) :
                  Piece(s, c, i)[x] # c /\ Piece(s, c, i)[x] = s[Start(s, c, i) + x]
<1> DEFINE j == Start(s, c, i)
           p == SubSeq(s, j + 1, i - 1)
<1>1. j \in 0 .. i - 1 /\ Starts(s, c, i, j)
  BY StartIs
<1> HIDE DEF j
<1>2. p \in Seq(C) /\ Len(p) = i - 1 - j /\ \A x \in 1 .. i - 1 - j : p[x] = s[j + x]
  BY <1>1
<1>3. \A x \in 1 .. i - 1 - j : s[j + x] # c
  BY <1>1 DEF Starts
<1>4. Piece(s, c, i) = p
  BY DEF Piece, j
<1> HIDE DEF p
<1> QED BY <1>2, <1>3, <1>4 DEF j

LEMMA PieceNext ==
    ASSUME NEW C, NEW s \in Seq(C), NEW c, NEW i \in 1 .. Len(s)
    PROVE  Piece(s, c, i + 1) = IF s[i] = c THEN <<>> ELSE Append(Piece(s, c, i), s[i])
<1>1. i \in 1 .. Len(s) + 1 /\ i + 1 \in 1 .. Len(s) + 1
  OBVIOUS
<1>2. CASE s[i] = c
  <2>1. Start(s, c, i + 1) = i
    BY <1>2, StartStep
  <2> QED BY <1>2, <2>1 DEF Piece
<1>3. CASE s[i] # c
  <2> DEFINE j == Start(s, c, i)
  <2>1. j \in 0 .. i - 1
    BY <1>1, StartIs
  <2>2. Start(s, c, i + 1) = j
    BY <1>3, StartStep
  <2> HIDE DEF j
  <2>3. SubSeq(s, j + 1, (i + 1) - 1) = Append(SubSeq(s, j + 1, i - 1), s[i])
    BY <2>1
  <2> QED BY <1>3, <2>2, <2>3 DEF Piece, j
<1> QED BY <1>2, <1>3

\* Where a character first is.
IsFirst(s, c, i) == s[i] = c /\ \A x \in 1 .. i - 1 : s[x] # c

LEMMA FirstIs ==
    ASSUME NEW C, NEW s \in Seq(C), NEW c
    PROVE  /\ First(s, c) = 0 <=> \A x \in 1 .. Len(s) : s[x] # c
           /\ First(s, c) # 0 => First(s, c) \in 1 .. Len(s) /\ IsFirst(s, c, First(s, c))
           /\ \A i \in 1 .. Len(s) : IsFirst(s, c, i) => First(s, c) = i
<1> DEFINE I == {i \in 1 .. Len(s) : s[i] = c}
<1>1. First(s, c) = IF I # {} THEN Min(I) ELSE 0
  BY DEF First, SelectInSeq
<1>2. CASE I = {}
  BY <1>1, <1>2 DEF IsFirst
<1>3. CASE I # {}
  <2>1. Min(I) \in I /\ \A i \in I : Min(I) <= i
    BY <1>3, LeastOf, I \subseteq Nat
  <2> DEFINE m == Min(I)
  <2> HIDE DEF m
  <2>2. m \in 1 .. Len(s) /\ s[m] = c /\ \A i \in 1 .. Len(s) : s[i] = c => m <= i
    BY <2>1 DEF m
  <2>3. IsFirst(s, c, m)
    BY <2>2 DEF IsFirst
  <2>4. \A i \in 1 .. Len(s) : IsFirst(s, c, i) => m = i
    BY <2>2 DEF IsFirst
  <2>5. First(s, c) = m
    BY <1>1, <1>3 DEF m
  <2> QED BY <2>2, <2>3, <2>4, <2>5
<1> QED BY <1>2, <1>3

LEMMA HasEqFirst ==
    ASSUME NEW C, NEW s \in Seq(C)
    PROVE  HasEq(s) <=> First(s, Eq) # 0
<1>1. HasEq(s) <=> \E x \in 1 .. Len(s) : s[x] = Eq
  BY DEF HasEq, ToSet
<1> QED BY <1>1, FirstIs

-----------------------------------------------------------------------------
(* The arrays of parse_nvram_from_file. *)

Fit(n) == IF n < FieldSize THEN n ELSE FieldSize

\* What an array holds of the characters of q behind position k.
Kept(q, k) == SubSeq(q, k + 1, k + Fit(Len(q) - k))

\* What the arrays hold when q has been fed of a record.
Fields(q, isLeft, l, r) ==
    /\ isLeft <=> First(q, Eq) = 0
    /\ IF First(q, Eq) = 0 THEN l = Kept(q, 0) /\ r = <<>>
       ELSE LET e == First(q, Eq)
            IN  /\ l = [x \in 1 .. Fit(e) |-> IF x = Fit(e) THEN NUL ELSE q[x]]
                /\ r = Kept(q, e)

LEMMA SubSeqAppend ==
    ASSUME NEW C, NEW q \in Seq(C), NEW c \in C, NEW N, N = Len(q), NEW k \in 0 .. N,
           NEW t, t = Append(q, c)
    PROVE  /\ Append(SubSeq(q, k + 1, N), c) = SubSeq(t, k + 1, N + 1)
           /\ \A n \in 0 .. N : SubSeq(q, k + 1, n) = SubSeq(t, k + 1, n)
<1> DEFINE a == SubSeq(q, k + 1, N)
           b == SubSeq(t, k + 1, N + 1)
<1>1. N \in Nat /\ k \in 0 .. N
  OBVIOUS
<1>2. t \in Seq(C) /\ Len(t) = N + 1 /\ t[N + 1] = c /\ \A x \in 1 .. N : t[x] = q[x]
  OBVIOUS
<1>3. a \in Seq(C) /\ Len(a) = N - k /\ \A x \in 1 .. N - k : a[x] = q[k + x]
  BY <1>1
<1>4. b \in Seq(C) /\ Len(b) = N + 1 - k /\ \A x \in 1 .. N + 1 - k : b[x] = t[k + x]
  BY <1>1, <1>2
<1> HIDE DEF a, b
<1>5. Append(a, c) = b
  <2> DEFINE d == Append(a, c)
  <2>1. d \in Seq(C) /\ Len(d) = N - k + 1 /\ d[N - k + 1] = c /\ \A x \in 1 .. N - k : d[x] = a[x]
    BY <1>3
  <2> HIDE DEF d
  <2>2. ASSUME NEW x \in 1 .. N + 1 - k PROVE d[x] = b[x]
    <3>1. CASE x = N + 1 - k
      <4>1. k + x = N + 1 /\ x = N - k + 1
        BY <1>1, <3>1
      <4>2. d[x] = c
        BY <2>1, <4>1
      <4>3. b[x] = t[k + x]
        BY <1>4
      <4> QED BY <1>2, <4>1, <4>2, <4>3
    <3>2. CASE x \in 1 .. N - k
      <4>1. k + x \in 1 .. N
        BY <1>1, <3>2
      <4> QED BY <1>2, <1>3, <1>4, <2>1, <3>2, <4>1
    <3> QED BY <1>1, <3>1, <3>2
  <2>3. Len(d) = Len(b) /\ Len(d) = N + 1 - k
    BY <1>1, <1>4, <2>1
  <2>4. d = b
    BY <1>4, <2>1, <2>2, <2>3, SeqEqual
  <2> QED BY <2>4 DEF d
<1>6. ASSUME NEW n \in 0 .. N PROVE SubSeq(q, k + 1, n) = SubSeq(t, k + 1, n)
  BY <1>1, <1>2
<1> QED BY <1>5, <1>6 DEF a, b

LEMMA PutFits ==
    ASSUME FieldSize \in Nat \ {0}, NEW q \in Seq(Char), NEW N, N = Len(q), NEW k \in 0 .. N,
           NEW c \in Char, NEW t, t = Append(q, c)
    PROVE  Put(Kept(q, k), c) = Kept(t, k)
<1>1. FieldSize \in Nat \ {0} /\ N \in Nat /\ k \in 0 .. N /\ Len(t) = N + 1
  OBVIOUS
<1>2. \A n \in k .. N : Len(SubSeq(q, k + 1, n)) = n - k
  BY <1>1
<1>3. /\ Append(SubSeq(q, k + 1, N), c) = SubSeq(t, k + 1, N + 1)
      /\ \A n \in 0 .. N : SubSeq(q, k + 1, n) = SubSeq(t, k + 1, n)
  BY SubSeqAppend
<1>4. Kept(q, k) = SubSeq(q, k + 1, k + Fit(N - k)) /\ Kept(t, k) = SubSeq(t, k + 1, k + Fit((N + 1) - k))
  <2>1. \A s : \A n : n = Len(s) => Kept(s, k) = SubSeq(s, k + 1, k + Fit(n - k))
    BY Zenon DEF Kept
  <2>2. N = Len(q) /\ N + 1 = Len(t)
    BY <1>1
  <2>3. Kept(q, k) = SubSeq(q, k + 1, k + Fit(N - k))
    BY <2>1, <2>2, Zenon
  <2>4. Kept(t, k) = SubSeq(t, k + 1, k + Fit((N + 1) - k))
    BY <2>1, <2>2, Zenon
  <2> QED BY <2>3, <2>4, Zenon
<1>5. CASE N - k < FieldSize
  <2> DEFINE a == SubSeq(q, k + 1, N)
  <2>1. k + Fit(N - k) = N /\ k + Fit((N + 1) - k) = N + 1
    BY <1>1, <1>5 DEF Fit
  <2>2. Len(a) = N - k
    BY <1>1, <1>2
  <2> HIDE DEF a
  <2>3. Put(a, c) = Append(a, c)
    BY <1>5, <2>2 DEF Put
  <2> QED BY <1>3, <1>4, <2>1, <2>3 DEF a
<1>6. CASE ~ (N - k < FieldSize)
  <2>1. Fit(N - k) = FieldSize /\ Fit((N + 1) - k) = FieldSize /\ k + FieldSize \in k .. N
    BY <1>1, <1>6 DEF Fit
  <2> DEFINE M == k + FieldSize
             a == SubSeq(q, k + 1, M)
  <2>2. M \in k .. N /\ M \in 0 .. N /\ M - k = FieldSize
    BY <1>1, <2>1
  <2>3. Kept(q, k) = a /\ Kept(t, k) = SubSeq(t, k + 1, M)
    BY <1>4, <2>1
  <2> HIDE DEF M
  <2>4. Len(a) = FieldSize
    BY <1>2, <2>2
  <2>5. a = SubSeq(t, k + 1, M)
    BY <1>3, <2>2
  <2> HIDE DEF a
  <2>6. Put(a, c) = a
    BY <1>1, <2>4 DEF Put
  <2> QED BY <2>3, <2>5, <2>6
<1> QED BY <1>5, <1>6

LEMMA FirstAppend ==
    ASSUME NEW q \in Seq(Char), NEW c \in Char
    PROVE  First(Append(q, c), Eq) = IF First(q, Eq) # 0 THEN First(q, Eq)
                                     ELSE IF c = Eq THEN Len(q) + 1 ELSE 0
<1> DEFINE t == Append(q, c)
<1>1. t \in Seq(Char) /\ Len(t) = Len(q) + 1 /\ t[Len(q) + 1] = c /\ \A x \in 1 .. Len(q) : t[x] = q[x]
  OBVIOUS
<1> HIDE DEF t
<1>2. CASE First(q, Eq) # 0
  <2> DEFINE e == First(q, Eq)
  <2>1. e \in 1 .. Len(q) /\ IsFirst(q, Eq, e)
    BY <1>2, FirstIs
  <2> HIDE DEF e
  <2>2. e \in 1 .. Len(t) /\ IsFirst(t, Eq, e)
    BY <1>1, <2>1 DEF IsFirst
  <2>3. First(t, Eq) = e
    BY <1>1, <2>2, FirstIs
  <2> QED BY <1>2, <2>3 DEF e, t
<1>3. CASE First(q, Eq) = 0
  <2>1. \A x \in 1 .. Len(q) : q[x] # Eq
    BY <1>3, FirstIs
  <2>2. CASE c = Eq
    <3>1. Len(q) + 1 \in 1 .. Len(t) /\ IsFirst(t, Eq, Len(q) + 1)
      BY <1>1, <2>1, <2>2 DEF IsFirst
    <3>2. First(t, Eq) = Len(q) + 1
      BY <1>1, <3>1, FirstIs
    <3> QED BY <1>3, <2>2, <3>2 DEF t
  <2>3. CASE c # Eq
    <3>1. \A x \in 1 .. Len(t) : t[x] # Eq
      BY <1>1, <2>1, <2>3
    <3>2. First(t, Eq) = 0
      BY <1>1, <3>1, FirstIs
    <3> QED BY <1>3, <2>3, <3>2 DEF t
  <2> QED BY <2>2, <2>3
<1> QED BY <1>2, <1>3

LEMMA FieldsStep ==
    ASSUME SourceAssumption, NEW q \in Seq(Char), NEW c \in Char,
           NEW isLeft \in BOOLEAN, NEW l, NEW r, Fields(q, isLeft, l, r)
    PROVE  LET l1 == IF isLeft THEN Put(l, c) ELSE l
               r1 == IF isLeft THEN r ELSE Put(r, c)
           IN  Fields(Append(q, c), isLeft /\ c # Eq, IF c = Eq THEN Ended(l1) ELSE l1, r1)
<1> DEFINE t == Append(q, c)
           e == First(q, Eq)
<1>1. FieldSize \in Nat \ {0} /\ Len(q) \in Nat /\ e \in 0 .. Len(q)
  BY FirstIsThere DEF SourceAssumption
<1>2. t \in Seq(Char) /\ Len(t) = Len(q) + 1 /\ \A x \in 1 .. Len(q) : t[x] = q[x]
  OBVIOUS
<1>3. First(t, Eq) = IF e # 0 THEN e ELSE IF c = Eq THEN Len(q) + 1 ELSE 0
  BY FirstAppend
<1> HIDE DEF t, e
<1>4. CASE e = 0
  <2>1. isLeft /\ l = Kept(q, 0) /\ r = <<>>
    BY <1>4 DEF Fields, e
  <2>2. Put(l, c) = Kept(t, 0)
    <3>1. 0 \in 0 .. Len(q) /\ t = Append(q, c)
      BY <1>1 DEF t
    <3> QED BY <1>1, <2>1, <3>1, PutFits
  <2>3. CASE c # Eq
    <3>1. Fields(t, TRUE, Kept(t, 0), <<>>)
      BY <1>3, <1>4, <2>3 DEF Fields
    <3> QED BY <2>1, <2>2, <2>3, <3>1 DEF t
  <2>4. CASE c = Eq
    <3> DEFINE N == Len(q) + 1
               b == SubSeq(t, 1, Fit(N))
    <3>1. First(t, Eq) = N /\ Len(t) = N /\ N \in Nat \ {0}
      BY <1>1, <1>2, <1>3, <1>4, <2>4
    <3> HIDE DEF N, b
    <3>2. Fit(N) \in 1 .. N /\ Fit(N - N) = 0 /\ N - 0 = N /\ 0 + Fit(N) = Fit(N) /\ N + 0 = N
      BY <1>1, <3>1 DEF Fit
    <3>3. Kept(t, 0) = b /\ Kept(t, N) = <<>>
      <4>1. Kept(t, 0) = b
        BY <3>1, <3>2 DEF Kept, b
      <4>2. Kept(t, N) = SubSeq(t, N + 1, N)
        BY <3>1, <3>2 DEF Kept
      <4> QED BY <1>2, <3>1, <4>1, <4>2
    <3>4. b \in Seq(Char) /\ Len(b) = Fit(N) /\ \A x \in 1 .. Fit(N) : b[x] = t[x]
      BY <1>2, <3>1, <3>2 DEF b
    <3>5. Ended(b) = [x \in 1 .. Fit(N) |-> IF x = Fit(N) THEN NUL ELSE t[x]]
      <4> DEFINE M == Fit(N)
      <4> HIDE DEF M
      <4>1. b \in Seq(Char) /\ Len(b) = M /\ \A x \in 1 .. M : b[x] = t[x]
        BY <3>4 DEF M
      <4>2. Ended(b) = [x \in DOMAIN b |-> IF x = M THEN NUL ELSE b[x]]
        BY <4>1 DEF Ended
      <4>3. DOMAIN b = 1 .. M
        BY <4>1
      <4>4. Ended(b) = [x \in 1 .. M |-> IF x = M THEN NUL ELSE t[x]]
        BY <4>1, <4>2, <4>3
      <4> QED BY <4>4 DEF M
    <3>6. Fields(t, FALSE, Ended(b), <<>>)
      BY <3>1, <3>3, <3>5 DEF Fields
    <3> QED BY <2>1, <2>2, <2>4, <3>3, <3>6 DEF t
  <2> QED BY <2>3, <2>4
<1>5. CASE e # 0
  <2>1. ~ isLeft /\ l = [x \in 1 .. Fit(e) |-> IF x = Fit(e) THEN NUL ELSE q[x]]
        /\ r = Kept(q, e)
    BY <1>5 DEF Fields, e
  <2>2. Put(r, c) = Kept(t, e)
    <3>1. e \in 0 .. Len(q) /\ t = Append(q, c)
      BY <1>1 DEF t
    <3> QED BY <1>1, <2>1, <3>1, PutFits
  <2>3. First(t, Eq) = e /\ Fit(e) \in 1 .. Len(q)
    BY <1>1, <1>3, <1>5 DEF Fit
  <2>4. l = [x \in 1 .. Fit(e) |-> IF x = Fit(e) THEN NUL ELSE t[x]]
    <3> DEFINE M == Fit(e)
    <3>1. \A x \in 1 .. M : t[x] = q[x]
      BY <1>2, <2>3
    <3>2. l = [x \in 1 .. M |-> IF x = M THEN NUL ELSE q[x]]
      BY <2>1
    <3> HIDE DEF M
    <3> QED BY <3>1, <3>2 DEF M
  <2>5. Ended(l) = l
    <3> DEFINE M == Fit(e)
    <3>1. M \in Nat \ {0} /\ l = [x \in 1 .. M |-> IF x = M THEN NUL ELSE q[x]]
      BY <2>1, <2>3
    <3> HIDE DEF M
    <3>2. Len(l) = M /\ DOMAIN l = 1 .. M /\ l[M] = NUL
      BY <3>1
    <3>3. Ended(l) = [x \in 1 .. M |-> IF x = M THEN NUL ELSE l[x]]
      BY <3>2 DEF Ended
    <3> QED BY <3>1, <3>3
  <2>6. Fields(t, FALSE, l, Put(r, c))
    BY <1>5, <2>2, <2>3, <2>4 DEF Fields
  <2> QED BY <2>1, <2>5, <2>6 DEF t
<1> QED BY <1>4, <1>5

-----------------------------------------------------------------------------
(* What is written of the arrays. *)

LEMMA SubSeqIs ==
    ASSUME NEW C, NEW s \in Seq(C), NEW i \in 0 .. Len(s), NEW n \in i .. Len(s)
    PROVE  /\ SubSeq(s, i + 1, n) \in Seq(C) /\ Len(SubSeq(s, i + 1, n)) = n - i
           /\ \A x \in 1 .. n - i : SubSeq(s, i + 1, n)[x] = s[i + x]
OBVIOUS

LEMMA TailIs ==
    ASSUME NEW C, NEW s \in Seq(C), NEW n \in Nat, Len(s) = n + 1, NEW k \in 0 .. n
    PROVE  /\ SubSeq(s, k + 1, n + 1) \in Seq(C) /\ Len(SubSeq(s, k + 1, n + 1)) = (n - k) + 1
           /\ \A x \in 1 .. (n - k) + 1 : SubSeq(s, k + 1, n + 1)[x] = s[k + x]
<1>1. k \in 0 .. Len(s) /\ n + 1 \in k .. Len(s) /\ (n + 1) - k = (n - k) + 1
  OBVIOUS
<1> QED BY <1>1, SubSeqIs

LEMMA FitLess ==
    ASSUME FieldSize \in Nat \ {0}, NEW n \in Nat, NEW k \in 0 .. n, n - k < FieldSize
    PROVE  k + Fit((n + 1) - k) = n + 1
BY DEF Fit

LEMMA CStringIs ==
    ASSUME NEW a \in Seq(Char), NEW k \in 1 .. Len(a), IsFirst(a, NUL, k)
    PROVE  CString(a) = SubSeq(a, 1, k - 1)
<1>1. First(a, NUL) = k
  BY FirstIs
<1>2. NUL \in ToSet(a)
  <2>1. a[k] = NUL
    BY DEF IsFirst
  <2> QED BY <2>1 DEF ToSet
<1> QED BY <1>1, <1>2 DEF CString, Before

LEMMA CStringEmpty == ASSUME SourceAssumption PROVE CString(<<>>) = <<>>
<1>1. First(<<>>, NUL) = 0 /\ Len(<<>>) # FieldSize
  <2>1. <<>> \in Seq(Char) /\ Len(<<>>) = 0
    OBVIOUS
  <2>2. First(<<>>, NUL) \in 0 .. Len(<<>>)
    BY <2>1, FirstIsThere
  <2> QED BY <2>1, <2>2 DEF SourceAssumption
<1> QED BY <1>1 DEF CString, Before

LEMMA SubSubSeq ==
    ASSUME NEW C, NEW s \in Seq(C), NEW n, n = Len(s), NEW p \in 0 .. n, NEW i \in p .. n
    PROVE  SubSeq(SubSeq(s, p + 1, n), 1, i - p) = SubSeq(s, p + 1, i)
<1> DEFINE rest == SubSeq(s, p + 1, n)
           a == SubSeq(rest, 1, i - p)
           b == SubSeq(s, p + 1, i)
           M == i - p
<1>1. n \in Nat /\ p \in Nat /\ i \in Nat /\ M \in 0 .. n - p /\ n - p \in Nat /\ n = Len(s)
  OBVIOUS
<1>2. rest \in Seq(C) /\ Len(rest) = n - p /\ \A x \in 1 .. n - p : rest[x] = s[p + x]
  BY <1>1, SubSeqIs
<1>3. b \in Seq(C) /\ Len(b) = M /\ \A x \in 1 .. M : b[x] = s[p + x]
  BY <1>1, SubSeqIs
<1> HIDE DEF rest, M, b
<1>4. a \in Seq(C) /\ Len(a) = M /\ \A x \in 1 .. M : a[x] = rest[x]
  <2>1. a = SubSeq(rest, 1, M)
    BY DEF M
  <2> HIDE DEF a
  <2> QED BY <1>1, <1>2, <2>1
<1> HIDE DEF a
<1>5. \A x \in 1 .. M : a[x] = b[x]
  <2>1. \A x \in 1 .. M : x \in 1 .. n - p
    BY <1>1
  <2> QED BY <1>2, <1>3, <1>4, <2>1
<1>6. a = b
  BY <1>3, <1>4, <1>5, SeqEqual
<1> QED BY <1>6 DEF a, b, rest

LEMMA TailBut ==
    ASSUME NEW C, NEW s \in Seq(C), NEW n \in Nat, Len(s) = n + 1, NEW k \in 0 .. n
    PROVE  SubSeq(SubSeq(s, k + 1, n + 1), 1, n - k) = SubSeq(s, k + 1, n)
<1> DEFINE l == Len(s)
<1>1. l = n + 1 /\ k \in 0 .. l /\ n \in k .. l
  OBVIOUS
<1> HIDE DEF l
<1>2. SubSeq(SubSeq(s, k + 1, l), 1, n - k) = SubSeq(s, k + 1, n)
  <2>1. l = Len(s)
    BY DEF l
  <2> QED BY <1>1, <2>1, SubSubSeq
<1> QED BY <1>1, <1>2

\* What an array holds of a string from k + 1 with its NUL, if that fits.
LEMMA TailString ==
    ASSUME SourceAssumption, NEW t \in Seq(Char), NEW n \in Nat, Len(t) = n + 1, t[n + 1] = NUL,
           \A x \in 1 .. n : t[x] # NUL, NEW k \in 0 .. n, n - k < FieldSize
    PROVE  CString(Kept(t, k)) = SubSeq(t, k + 1, n)
<1>1. FieldSize \in Nat \ {0} /\ NUL \in Char
  BY DEF SourceAssumption
<1> DEFINE a == SubSeq(t, k + 1, n + 1)
           m == n - k
<1>2. Kept(t, k) = a
  <2>1. k + Fit((n + 1) - k) = n + 1
    BY <1>1, FitLess
  <2>2. \A l : l = Len(t) => Kept(t, k) = SubSeq(t, k + 1, k + Fit(l - k))
    BY Zenon DEF Kept
  <2>3. n + 1 = Len(t)
    OBVIOUS
  <2>4. Kept(t, k) = SubSeq(t, k + 1, k + Fit((n + 1) - k))
    BY <2>2, <2>3, Zenon
  <2> QED BY <2>1, <2>4
<1>3. m \in Nat /\ k + (m + 1) = n + 1 /\ \A x \in 1 .. m : k + x \in 1 .. n /\ x \in 1 .. m + 1
  OBVIOUS
<1>4. a \in Seq(Char) /\ Len(a) = m + 1 /\ \A x \in 1 .. m + 1 : a[x] = t[k + x]
  BY TailIs
<1>5. SubSeq(a, 1, m) = SubSeq(t, k + 1, n)
  BY TailBut
<1> HIDE DEF a, m
<1>6. m + 1 \in 1 .. Len(a) /\ IsFirst(a, NUL, m + 1)
  <2>1. a[m + 1] = NUL
    <3>1. m + 1 \in 1 .. m + 1
      BY <1>3
    <3>2. a[m + 1] = t[k + (m + 1)]
      BY <1>4, <3>1, Zenon
    <3> QED BY <1>3, <3>2, Zenon
  <2>2. \A x \in 1 .. m : a[x] # NUL
    BY <1>3, <1>4
  <2> QED BY <1>3, <1>4, <2>1, <2>2 DEF IsFirst
<1>7. CString(a) = SubSeq(a, 1, m)
  BY <1>3, <1>4, <1>6, CStringIs
<1> QED BY <1>2, <1>5, <1>7

LEMMA KeptString ==
    ASSUME SourceAssumption, NEW q \in Seq(Char), \A x \in 1 .. Len(q) : q[x] # NUL,
           NEW n, n = Len(q), NEW t, t = Append(q, NUL), NEW k \in 0 .. n, n - k < FieldSize
    PROVE  CString(Kept(t, k)) = SubSeq(q, k + 1, n)
<1>1. NUL \in Char /\ n \in Nat
  BY DEF SourceAssumption
<1>2. /\ t \in Seq(Char) /\ Len(t) = n + 1 /\ t[n + 1] = NUL
      /\ \A x \in 1 .. n : t[x] = q[x] /\ t[x] # NUL
  BY <1>1
<1>3. CString(Kept(t, k)) = SubSeq(t, k + 1, n)
  BY <1>1, <1>2, TailString
<1>4. SubSeq(t, k + 1, n) = SubSeq(q, k + 1, n)
  BY <1>1
<1> QED BY <1>3, <1>4

LEMMA CutAt ==
    ASSUME SourceAssumption, NEW q \in Seq(Char), NEW e \in 1 .. Len(q)
    PROVE  CutKey(SubSeq(q, 1, e - 1)) = SubSeq(q, 1, Fit(e) - 1)
<1> DEFINE p == SubSeq(q, 1, e - 1)
           m == IF Len(p) < FieldSize THEN Len(p) ELSE FieldSize - 1
<1>1. FieldSize \in Nat \ {0}
  BY DEF SourceAssumption
<1>2. p \in Seq(Char) /\ Len(p) = e - 1 /\ \A x \in 1 .. e - 1 : p[x] = q[x]
  OBVIOUS
<1>3. m = Fit(e) - 1 /\ m \in 0 .. e - 1
  <2> HIDE DEF p
  <2> QED BY <1>1, <1>2 DEF Fit
<1>4. CutKey(p) = SubSeq(p, 1, m)
  BY DEF CutKey
<1> HIDE DEF m, p
<1>5. SubSeq(p, 1, m) = SubSeq(q, 1, m)
  BY <1>2, <1>3
<1> QED BY <1>3, <1>4, <1>5 DEF p

LEMMA KeyString ==
    ASSUME SourceAssumption, NEW q \in Seq(Char), \A x \in 1 .. Len(q) : q[x] # NUL,
           NEW e \in 1 .. Len(q)
    PROVE  CString([x \in 1 .. Fit(e) |-> IF x = Fit(e) THEN NUL ELSE q[x]])
               = CutKey(SubSeq(q, 1, e - 1))
<1> DEFINE m == Fit(e)
           a == [x \in 1 .. m |-> IF x = m THEN NUL ELSE q[x]]
           N == Len(q)
<1>1. m \in 1 .. N /\ NUL \in Char /\ N \in Nat
  BY DEF SourceAssumption, Fit
<1>2. \A x \in 1 .. N : q[x] \in Char /\ q[x] # NUL
  OBVIOUS
<1>2a. q \in Seq(Char) /\ Len(q) = N
  OBVIOUS
<1> HIDE DEF m, N
<1>3. /\ a \in Seq(Char) /\ Len(a) = m /\ a[m] = NUL
      /\ \A x \in 1 .. m - 1 : a[x] = q[x] /\ a[x] # NUL
  BY <1>1, <1>2
<1> HIDE DEF a
<1>4. CString(a) = SubSeq(a, 1, m - 1)
  <2>1. m \in 1 .. Len(a) /\ IsFirst(a, NUL, m)
    BY <1>1, <1>3 DEF IsFirst
  <2> QED BY <1>3, <2>1, CStringIs
<1>5. SubSeq(a, 1, m - 1) = SubSeq(q, 1, m - 1)
  BY <1>1, <1>2a, <1>3
<1>6. CutKey(SubSeq(q, 1, e - 1)) = SubSeq(q, 1, m - 1)
  BY CutAt DEF m
<1> QED BY <1>4, <1>5, <1>6 DEF a, m

\* What is written at the NUL that ends the record q.
LEMMA FieldsEnd ==
    ASSUME SourceAssumption, NEW q \in Seq(Char), \A x \in 1 .. Len(q) : q[x] # NUL,
           NEW isLeft \in BOOLEAN, NEW l, NEW r, Fields(Append(q, NUL), isLeft, l, r)
    PROVE  /\ HasEq(q) => CString(l) = CutKey(PairOf(q)[1])
           /\ Len(PairOf(q)[1]) < FieldSize /\ Len(PairOf(q)[2]) < FieldSize =>
                <<CString(l), CString(r)>> = PairOf(q)
<1> DEFINE t == Append(q, NUL)
           e == First(q, Eq)
           N == Len(q)
<1>1. FieldSize \in Nat \ {0} /\ NUL \in Char /\ NUL # Eq /\ N \in Nat /\ e \in 0 .. N
  BY FirstIsThere DEF SourceAssumption
<1>2. t = Append(q, NUL) /\ N = Len(q) /\ Len(t) = N + 1 /\ \A x \in 1 .. N : t[x] = q[x]
  BY <1>1
<1>3. First(t, Eq) = e
  BY <1>1, FirstAppend
<1>4. HasEq(q) <=> e # 0
  BY HasEqFirst
<1>5. CASE e = 0
  <2>1. l = Kept(t, 0) /\ r = <<>>
    BY <1>3, <1>5 DEF Fields
  <2>2. PairOf(q) = <<q, <<>>>>
    BY <1>4, <1>5 DEF PairOf, Before
  <2>3. ASSUME N < FieldSize PROVE CString(l) = q
    <3>1. 0 \in 0 .. N /\ N - 0 < FieldSize
      BY <1>1, <2>3
    <3>2. CString(Kept(t, 0)) = SubSeq(q, 0 + 1, N)
      <4> HIDE DEF t, N
      <4> QED BY <1>2, <3>1, KeptString, ZenonT(30)
    <3>3. SubSeq(q, 1, N) = q
      OBVIOUS
    <3> QED BY <2>1, <3>2, <3>3
  <2> HIDE DEF t, e, N
  <2> QED BY <1>2, <1>4, <1>5, <2>1, <2>2, <2>3, CStringEmpty
<1>6. CASE e # 0
  <2> DEFINE p == SubSeq(q, 1, e - 1)
             v == SubSeq(q, e + 1, N)
  <2>1. r = Kept(t, e) /\ l = [x \in 1 .. Fit(e) |-> IF x = Fit(e) THEN NUL ELSE t[x]]
    BY <1>3, <1>6 DEF Fields
  <2>2. PairOf(q) = <<p, v>>
    BY <1>4, <1>6 DEF PairOf, Before, After
  <2> HIDE DEF t, e
  <2>3. Len(p) = e - 1 /\ Len(v) = N - e
    <3>1. Len(p) = e - 1
      BY <1>1, <1>6
    <3>2. e \in 0 .. Len(q) /\ N \in e .. Len(q)
      BY <1>1
    <3> QED BY <3>1, <3>2, SubSeqIs
  <2>4. CString(l) = CutKey(p)
    <3>1. Fit(e) \in 1 .. N /\ e \in 1 .. N
      BY <1>1, <1>6 DEF Fit
    <3>2. l = [x \in 1 .. Fit(e) |-> IF x = Fit(e) THEN NUL ELSE q[x]]
      BY <1>2, <2>1, <3>1
    <3> QED BY <3>1, <3>2, KeyString
  <2>5. ASSUME Len(p) < FieldSize PROVE CutKey(p) = p
    <3>1. p \in Seq(Char)
      BY <1>1, <1>6
    <3> HIDE DEF p
    <3>2. CutKey(p) = SubSeq(p, 1, Len(p))
      BY <2>5 DEF CutKey
    <3> QED BY <3>1, <3>2
  <2>6. ASSUME Len(v) < FieldSize PROVE CString(r) = v
    <3>1. N - e < FieldSize
      BY <2>3, <2>6
    <3>2. e \in 0 .. N /\ N = Len(q)
      BY <1>1, <2>1 DEF N
    <3> HIDE DEF N
    <3> QED BY <1>1, <1>2, <2>1, <3>1, <3>2, KeptString, ZenonT(30)
  <2> HIDE DEF p, v
  <2> QED BY <2>2, <2>4, <2>5, <2>6
<1> QED BY <1>5, <1>6

-----------------------------------------------------------------------------
(* The pairs of a source have types. *)

Cell == Seq(Char) \cup {Null, One}
Pair == Cell \X Cell

LEMMA IsSeq ==
    ASSUME NEW S, NEW n \in Nat, NEW f, f = [i \in 1 .. n |-> f[i]], \A i \in 1 .. n : f[i] \in S
    PROVE  f \in Seq(S)
OBVIOUS

LEMMA PairOfTyped ==
    ASSUME NEW q \in Seq(Char)
    PROVE  PairOf(q) \in Pair /\ PairOf(q)[1] \in Seq(Char) /\ PairOf(q)[2] \in Seq(Char)
<1> DEFINE e == First(q, Eq)
<1>1. e \in 0 .. Len(q)
  BY FirstIsThere
<1>2. Before(q, Eq) \in Seq(Char) /\ After(q, Eq) \in Seq(Char)
  <2>1. SubSeq(q, e + 1, Len(q)) \in Seq(Char)
    BY <1>1
  <2>2. e # 0 => SubSeq(q, 1, e - 1) \in Seq(Char)
    BY <1>1
  <2> QED BY <2>1, <2>2 DEF Before, After
<1>3. <<>> \in Seq(Char)
  OBVIOUS
<1> QED BY <1>2, <1>3 DEF PairOf, Pair, Cell

LEMMA RowCountIs ==
    ASSUME NEW s, s.data \in Seq(Cell), s.cols \in {2, 3}, NEW n \in 0 .. Len(s.data), HasRows(s, n)
    PROVE  RowCount(s) = n
<1>1. ASSUME NEW m \in 0 .. Len(s.data), NEW k \in 0 .. Len(s.data), HasRows(s, m), HasRows(s, k)
      PROVE  ~ (m < k)
  BY <1>1 DEF HasRows
<1>2. \A m \in 0 .. Len(s.data) : HasRows(s, m) => m = n
  <2>1. TAKE m \in 0 .. Len(s.data)
  <2>2. HAVE HasRows(s, m)
  <2>3. ~ (m < n) /\ ~ (n < m)
    BY <1>1, <2>2
  <2> QED BY <2>3
<1> QED BY <1>2 DEF RowCount

LEMMA PartsTyped ==
    ASSUME SourceAssumption, NEW s, s.kind \in Kinds, s \in SourceOf(s.kind),
           s.kind = "table" => WellFormed(s)
    PROVE  Parts(s) \in Seq(Seq(Pair))
<1>1. s.data \in DataOf(s.kind) /\ s.cols \in {2, 3}
  BY DEF SourceOf
<1>2. CASE s.kind = "builtin"
  <2> DEFINE P == [i \in 1 .. Len(s.data) |->
                      LET e == s.data[i] IN IF e.firmae => firmae THEN <<<<e.key, e.val>>>> ELSE <<>>]
  <2>1. s.data \in Seq([key : Seq(Char), val : Seq(Char), firmae : BOOLEAN])
    BY <1>1, <1>2 DEF DataOf
  <2>2. Parts(s) = P
    <3>1. DOMAIN s.data = 1 .. Len(s.data)
      BY <2>1
    <3> DEFINE F(e) == IF e.firmae => firmae THEN <<<<e.key, e.val>>>> ELSE <<>>
    <3>2. Parts(s) = [i \in DOMAIN s.data |-> F(s.data[i])]
      BY <1>2 DEF Parts
    <3> HIDE DEF F
    <3>3. [i \in DOMAIN s.data |-> F(s.data[i])] = [i \in 1 .. Len(s.data) |-> F(s.data[i])]
      BY <3>1
    <3>4. P = [i \in 1 .. Len(s.data) |-> F(s.data[i])]
      BY DEF F
    <3> QED BY <3>2, <3>3, <3>4
  <2>3. ASSUME NEW i \in 1 .. Len(s.data) PROVE P[i] \in Seq(Pair)
    <3> DEFINE e == s.data[i]
           R == [key : Seq(Char), val : Seq(Char), firmae : BOOLEAN]
    <3>0. e \in R
      <4>1. s.data \in Seq(R)
        BY <2>1
      <4> HIDE DEF R
      <4> QED BY <4>1
    <3> HIDE DEF e
    <3>1. e.key \in Seq(Char) /\ e.val \in Seq(Char)
      BY <3>0
    <3>2. <<e.key, e.val>> \in Pair
      BY <3>1 DEF Pair, Cell
    <3> QED BY <3>2 DEF e
  <2>4. Len(s.data) \in Nat
    BY <2>1
  <2> HIDE DEF P
  <2>5. P = [i \in 1 .. Len(s.data) |-> P[i]]
    BY DEF P
  <2>6. P \in Seq(Seq(Pair))
    BY <2>3, <2>4, <2>5, IsSeq
  <2> QED BY <2>2, <2>6
<1>3. CASE s.kind = "table"
  <2> DEFINE P == [i \in 1 .. RowCount(s) |->
               IF RowVal(s, i - 1) = Null THEN <<>> ELSE <<<<RowKey(s, i - 1), RowVal(s, i - 1)>>>>]
  <2>1. s.data \in Seq(Cell)
    BY <1>1, <1>3 DEF DataOf, Cell
  <2>2. PICK n \in 0 .. Len(s.data) : HasRows(s, n)
    BY <1>3 DEF WellFormed, Shaped
  <2>3. RowCount(s) = n /\ n \in Nat
    BY <1>1, <2>1, <2>2, RowCountIs
  <2>4. Parts(s) = P
    BY <1>3 DEF Parts
  <2>5. ASSUME NEW i \in 1 .. n PROVE P[i] \in Seq(Pair)
    <3>1. s.cols * (i - 1) + 2 \in 1 .. Len(s.data) /\ s.cols * (i - 1) + 1 \in 1 .. Len(s.data)
      <4>1. Len(s.data) \in Nat /\ n \in Nat /\ s.cols * n < Len(s.data)
        BY <1>1, <2>1, <2>2 DEF HasRows
      <4>2. CASE s.cols = 2
        BY <4>1, <4>2
      <4>3. CASE s.cols = 3
        BY <4>1, <4>3
      <4> QED BY <1>1, <4>2, <4>3
    <3>2. RowKey(s, i - 1) \in Cell /\ RowVal(s, i - 1) \in Cell
      BY <2>1, <3>1 DEF RowKey, RowVal
    <3>3. <<RowKey(s, i - 1), RowVal(s, i - 1)>> \in Pair
      BY <3>2 DEF Pair
    <3> QED BY <2>3, <3>3
  <2> HIDE DEF P
  <2>6. P = [i \in 1 .. n |-> P[i]]
    BY <2>3 DEF P
  <2>7. P \in Seq(Seq(Pair))
    BY <2>3, <2>5, <2>6, IsSeq
  <2> QED BY <2>4, <2>7
<1>4. CASE s.kind = "text"
  <2> DEFINE P == [i \in 1 .. Len(s.data) + 1 |->
               LET line == Piece(s.data, NL, i)
               IN  IF EndsLine(s.data, i) /\ HasEq(line) THEN <<PairOf(line)>> ELSE <<>>]
  <2>1. s.data \in Seq(Char)
    BY <1>1, <1>4 DEF DataOf
  <2>2. Parts(s) = P
    BY <1>4 DEF Parts
  <2>3. ASSUME NEW i \in 1 .. Len(s.data) + 1 PROVE P[i] \in Seq(Pair)
    <3>1. Piece(s.data, NL, i) \in Seq(Char)
      BY <2>1, PieceIs
    <3>2. PairOf(Piece(s.data, NL, i)) \in Pair
      BY <3>1, PairOfTyped
    <3> QED BY <3>2
  <2>4. Len(s.data) + 1 \in Nat
    BY <2>1
  <2> HIDE DEF P
  <2>5. P = [i \in 1 .. Len(s.data) + 1 |-> P[i]]
    BY DEF P
  <2>6. P \in Seq(Seq(Pair))
    BY <2>3, <2>4, <2>5, IsSeq
  <2> QED BY <2>2, <2>6
<1>5. CASE s.kind = "bytes"
  <2> DEFINE P == [i \in 1 .. Len(s.data) |->
               IF s.data[i] = NUL THEN <<PairOf(Piece(s.data, NUL, i))>> ELSE <<>>]
  <2>1. s.data \in Seq(Char)
    BY <1>1, <1>5 DEF DataOf
  <2>2. Parts(s) = P
    BY <1>5, <2>1 DEF Parts
  <2>3. ASSUME NEW i \in 1 .. Len(s.data) PROVE P[i] \in Seq(Pair)
    <3>1. i \in 1 .. Len(s.data) + 1
      BY <2>1
    <3>2. Piece(s.data, NUL, i) \in Seq(Char)
      BY <2>1, <3>1, PieceIs
    <3>3. PairOf(Piece(s.data, NUL, i)) \in Pair
      BY <3>2, PairOfTyped
    <3> QED BY <3>3
  <2>4. Len(s.data) \in Nat
    BY <2>1
  <2> HIDE DEF P
  <2>5. P = [i \in 1 .. Len(s.data) |-> P[i]]
    BY DEF P
  <2>6. P \in Seq(Seq(Pair))
    BY <2>3, <2>4, <2>5, IsSeq
  <2> QED BY <2>2, <2>6
<1> QED BY <1>2, <1>3, <1>4, <1>5 DEF Kinds

-----------------------------------------------------------------------------
(* The record that is being read, and what is written at its end. *)

FieldInv ==
    IF Loading("bytes") THEN Fields(Piece(Data, NUL, pos + 1), left, larr, rarr)
    ELSE left = TRUE /\ larr = <<>> /\ rarr = <<>>

LEMMA NoFields == ASSUME SourceAssumption PROVE Fields(<<>>, TRUE, <<>>, <<>>)
<1>1. First(<<>>, Eq) = 0
  <2>1. <<>> \in Seq(Char) /\ Len(<<>>) = 0
    OBVIOUS
  <2>2. First(<<>>, Eq) \in 0 .. Len(<<>>)
    BY <2>1, FirstIsThere
  <2> QED BY <2>1, <2>2
<1>2. Kept(<<>>, 0) = <<>>
  <2>1. Fit(0) = 0
    BY DEF Fit, SourceAssumption
  <2>2. Kept(<<>>, 0) = SubSeq(<<>>, 1, 0)
    BY <2>1 DEF Kept
  <2> QED BY <2>2
<1> QED BY <1>1, <1>2 DEF Fields

\* The byte c has been fed after q.
FedTo(q, c) ==
    \E l, r \in Seq(Char), isLeft \in BOOLEAN :
        /\ Fields(Append(q, c), isLeft, l, r)
        /\ IF c = NUL
           THEN /\ out' = Append(out, <<CString(l), CString(r)>>)
                /\ left' = TRUE /\ larr' = <<>> /\ rarr' = <<>>
           ELSE out' = out /\ left' = isLeft /\ larr' = l /\ rarr' = r

LEMMA FedBytes ==
    ASSUME SourceAssumption, TypeInv, FieldInv, Feed
    PROVE  /\ Data \in Seq(Char) /\ pos \in Nat /\ pos + 1 \in 1 .. Len(Data)
           /\ FedTo(Piece(Data, NUL, pos + 1), Data[pos + 1])
<1> DEFINE q == Piece(Data, NUL, pos + 1)
           c == Data[pos + 1]
           l1 == IF left THEN Put(larr, c) ELSE larr
           r1 == IF left THEN rarr ELSE Put(rarr, c)
           l2 == IF c = Eq THEN Ended(l1) ELSE l1
           left2 == left /\ c # Eq
<1>1. /\ Loading("bytes") /\ pos \in Nat /\ pos < Len(Data) /\ left \in BOOLEAN
      /\ larr \in Seq(Char) /\ Len(larr) <= FieldSize /\ rarr \in Seq(Char) /\ Len(rarr) <= FieldSize
  BY DEF Feed, TypeInv, TypeOK
<1>2. Data \in Seq(Char) /\ Len(Data) \in Nat
  BY <1>1, DataTyped DEF TypeInv, TypeOK, Loading
<1>3. pos + 1 \in 1 .. Len(Data) /\ pos + 1 \in 1 .. Len(Data) + 1 /\ c \in Char
  BY <1>1, <1>2
<1>4. q \in Seq(Char)
  BY <1>2, <1>3, PieceIs
<1>5. Fields(q, left, larr, rarr)
  BY <1>1 DEF FieldInv
<1>6. Fields(Append(q, c), left2, l2, r1)
  <2> HIDE DEF q, c
  <2> QED BY <1>1, <1>3, <1>4, <1>5, FieldsStep
<1>7. l2 \in Seq(Char) /\ r1 \in Seq(Char)
  <2> HIDE DEF q, c
  <2>1. l1 \in Seq(Char) /\ Len(l1) <= FieldSize /\ r1 \in Seq(Char)
    BY <1>1, <1>3, ArrayHolds
  <2> HIDE DEF l1
  <2>2. Ended(l1) \in Seq(Char)
    BY <2>1, ArrayHolds
  <2> QED BY <2>1, <2>2
<1>8. left2 \in BOOLEAN
  BY <1>1
<1>9. FedTo(q, c)
  <2>1. CASE c = NUL
    <3>1. l2 = l1
      BY <2>1 DEF SourceAssumption
    <3>2. /\ out' = Append(out, <<CString(l1), CString(r1)>>)
          /\ left' = TRUE /\ larr' = <<>> /\ rarr' = <<>>
      BY <2>1 DEF Feed, Write
    <3> HIDE DEF q, c, l1, r1, l2, left2
    <3> QED BY <1>6, <1>7, <1>8, <2>1, <3>1, <3>2 DEF FedTo
  <2>2. CASE c # NUL
    <3>1. out' = out /\ left' = left2 /\ larr' = l2 /\ rarr' = r1
      BY <2>2 DEF Feed, Side
    <3> HIDE DEF q, c, l1, r1, l2, left2
    <3> QED BY <1>6, <1>7, <1>8, <2>2, <3>1 DEF FedTo
  <2> QED BY <2>1, <2>2
<1> HIDE DEF l1, r1, l2, left2
<1> QED BY <1>1, <1>2, <1>3, <1>9

LEMMA FeedKeepsFields ==
    ASSUME SourceAssumption, TypeInv, FieldInv, Feed
    PROVE  FieldInv'
<1>1. Loading("bytes")' /\ Data' = Data /\ pos' = pos + 1
  BY DEF Feed, Loading, Source, Data
<1>2. /\ Data \in Seq(Char) /\ pos \in Nat /\ pos + 1 \in 1 .. Len(Data)
      /\ FedTo(Piece(Data, NUL, pos + 1), Data[pos + 1])
  BY FedBytes
<1>3. Piece(Data, NUL, (pos + 1) + 1)
        = IF Data[pos + 1] = NUL THEN <<>> ELSE Append(Piece(Data, NUL, pos + 1), Data[pos + 1])
  <2> DEFINE s == Data
             i == pos + 1
  <2>1. s \in Seq(Char) /\ i \in 1 .. Len(s)
    BY <1>2
  <2> HIDE DEF s, i
  <2>2. Piece(s, NUL, i + 1) = IF s[i] = NUL THEN <<>> ELSE Append(Piece(s, NUL, i), s[i])
    BY <2>1, PieceNext
  <2> QED BY <2>2 DEF s, i
<1>4. CASE Data[pos + 1] = NUL
  <2>1. left' = TRUE /\ larr' = <<>> /\ rarr' = <<>>
    BY <1>2, <1>4 DEF FedTo
  <2> QED BY <1>1, <1>3, <1>4, <2>1, NoFields DEF FieldInv
<1>5. CASE Data[pos + 1] # NUL
  <2>1. Fields(Append(Piece(Data, NUL, pos + 1), Data[pos + 1]), left', larr', rarr')
    BY <1>2, <1>5 DEF FedTo
  <2> QED BY <1>1, <1>3, <1>5, <2>1 DEF FieldInv
<1> QED BY <1>4, <1>5

LEMMA StepKeepsFields ==
    ASSUME SourceAssumption, TypeInv, FieldInv, [Next]_vars
    PROVE  FieldInv'
<1>1. CASE UNCHANGED vars
  BY <1>1 DEF vars, FieldInv, Loading, Source, Data
<1>2. CASE Begin
  <2>1. /\ ~ Loading("bytes") /\ pos = 0 /\ pos' = 0 /\ left = TRUE /\ larr = <<>> /\ rarr = <<>>
        /\ left' = TRUE /\ larr' = <<>> /\ rarr' = <<>>
    BY <1>2 DEF Begin, TypeInv, FieldInv, Loading
  <2>2. CASE Loading("bytes")'
    <3>1. Source' = Source /\ Data' = Data /\ at' = at /\ Source.kind = "bytes"
      BY <1>2, <2>2 DEF Begin, Loading, Source, Data
    <3>2. Data \in Seq(Char)
      BY <1>2, <3>1, DataTyped DEF Begin, TypeInv, TypeOK
    <3>3. Piece(Data, NUL, 0 + 1) = <<>>
      BY <3>2, PieceFirst
    <3> QED BY <2>1, <2>2, <3>1, <3>3, NoFields DEF FieldInv
  <2>3. CASE ~ Loading("bytes")'
    BY <2>1, <2>3 DEF FieldInv
  <2> QED BY <2>2, <2>3
<1>3. CASE Builtin \/ Row \/ Line
  <2>1. /\ ~ Loading("bytes") /\ ~ Loading("bytes")'
        /\ left' = left /\ larr' = larr /\ rarr' = rarr
    BY <1>3 DEF Builtin, Row, Line, Loading, Source
  <2> QED BY <2>1 DEF FieldInv
<1>4. CASE Feed
  BY <1>4, FeedKeepsFields
<1>5. CASE Finish
  BY <1>5 DEF Finish, End, FieldInv, Loading
<1>6. CASE Return
  BY <1>6 DEF Return, FieldInv, Loading
<1> QED BY <1>1, <1>2, <1>3, <1>4, <1>5, <1>6 DEF Next

\* What parse_nvram_from_file writes at the end of a record.
LEMMA RecordWritten ==
    ASSUME SourceAssumption, TypeInv, FieldInv, Feed, Data[pos + 1] = NUL
    PROVE  LET pair == PairOf(Piece(Data, NUL, pos + 1))
           IN  \E key, val :
                 /\ out' = Append(out, <<key, val>>)
                 /\ HasEq(Piece(Data, NUL, pos + 1)) => key = CutKey(pair[1])
                 /\ Len(pair[1]) < FieldSize /\ Len(pair[2]) < FieldSize => <<key, val>> = pair
<1> DEFINE q == Piece(Data, NUL, pos + 1)
<1>1. /\ Data \in Seq(Char) /\ pos \in Nat /\ pos + 1 \in 1 .. Len(Data)
      /\ FedTo(q, NUL)
  BY FedBytes
<1>2. q \in Seq(Char) /\ \A x \in 1 .. Len(q) : q[x] # NUL
  <2> DEFINE s == Data
             i == pos + 1
  <2>1. s \in Seq(Char) /\ i \in 1 .. Len(s) + 1
    BY <1>1
  <2> HIDE DEF s, i
  <2>2. Piece(s, NUL, i) \in Seq(Char) /\ \A x \in 1 .. Len(Piece(s, NUL, i)) : Piece(s, NUL, i)[x] # NUL
    BY <2>1, PieceIs
  <2> QED BY <2>2 DEF s, i
<1> HIDE DEF q
<1>3. PICK l, r \in Seq(Char), isLeft \in BOOLEAN :
          Fields(Append(q, NUL), isLeft, l, r) /\ out' = Append(out, <<CString(l), CString(r)>>)
  BY <1>1 DEF FedTo
<1>4. /\ HasEq(q) => CString(l) = CutKey(PairOf(q)[1])
      /\ Len(PairOf(q)[1]) < FieldSize /\ Len(PairOf(q)[2]) < FieldSize =>
           <<CString(l), CString(r)>> = PairOf(q)
  BY <1>2, <1>3, FieldsEnd
<1> QED BY <1>3, <1>4 DEF q

-----------------------------------------------------------------------------
(* Long keys. *)

BytesPart(s, i) == IF s.data[i] = NUL THEN <<PairOf(Piece(s.data, NUL, i))>> ELSE <<>>

LEMMA PartsOfBytes ==
    ASSUME NEW s, s.kind = "bytes", s.data \in Seq(Char)
    PROVE  Len(Parts(s)) = Len(s.data) /\ \A i \in 1 .. Len(s.data) : Parts(s)[i] = BytesPart(s, i)
<1>1. Parts(s) = [i \in 1 .. Len(s.data) |-> BytesPart(s, i)]
  BY DEF Parts, BytesPart
<1>2. Len(s.data) \in Nat
  OBVIOUS
<1> QED BY <1>1, <1>2

\* The pairs o are those of p with their keys cut.
CutTo(o, p) ==
    /\ \E S : o \in Seq(S)
    /\ Len(o) = Len(p)
    /\ \A n \in 1 .. Len(o) : o[n][1] = CutKey(p[n][1])

Cutting == Len(sources) = 1 /\ sources[1].kind = "bytes" /\ AllHaveEq(sources[1].data)

CutInv ==
    Cutting => \E m \in 0 .. Len(sources[1].data) :
                   (at = 1 => m = pos) /\ CutTo(out, UpTo(Parts(sources[1]))[m])

LEMMA CutMore ==
    ASSUME NEW o, NEW p, CutTo(o, p), NEW T, p \in Seq(T), NEW x, NEW y \in T, x[1] = CutKey(y[1])
    PROVE  CutTo(Append(o, x), p \o <<y>>)
<1>1. PICK S : o \in Seq(S)
  BY DEF CutTo
<1> DEFINE N == Len(o)
           U == S \cup {x}
           a == Append(o, x)
           b == p \o <<y>>
<1>2. N \in Nat /\ Len(p) = N /\ \A n \in 1 .. N : o[n][1] = CutKey(p[n][1])
  BY <1>1 DEF CutTo
<1>3. o \in Seq(U)
  BY <1>1
<1>4. a \in Seq(U) /\ Len(a) = N + 1 /\ a[N + 1] = x /\ \A n \in 1 .. N : a[n] = o[n]
  <2> HIDE DEF U
  <2>1. x \in U
    BY DEF U
  <2> QED BY <1>3, <2>1
<1>5. Len(b) = N + 1 /\ b[N + 1] = y /\ \A n \in 1 .. N : b[n] = p[n]
  <2>1. <<y>> \in Seq(T) /\ Len(<<y>>) = 1 /\ <<y>>[1] = y
    OBVIOUS
  <2> QED BY <1>2, <2>1, ConcatProperties
<1> HIDE DEF a, b, N, U
<1>6. \A n \in 1 .. N + 1 : a[n][1] = CutKey(b[n][1])
  <2>1. ASSUME NEW n \in 1 .. N + 1 PROVE a[n][1] = CutKey(b[n][1])
    <3>1. CASE n = N + 1
      BY <1>4, <1>5, <3>1
    <3>2. CASE n \in 1 .. N
      BY <1>2, <1>4, <1>5, <3>2
    <3> QED BY <1>2, <3>1, <3>2
  <2> QED BY <2>1
<1>7. CutTo(a, b)
  BY <1>4, <1>5, <1>6 DEF CutTo
<1> QED BY <1>7 DEF a, b

LEMMA CutPairs ==
    ASSUME SourceAssumption, TypeInv, Cutting
    PROVE  LET s == sources[1]
               P == UpTo(Parts(s))
           IN  /\ s.data \in Seq(Char)
               /\ Parts(s) \in Seq(Seq(Pair)) /\ Len(Parts(s)) = Len(s.data)
               /\ P[0] = <<>>
               /\ \A i \in 0 .. Len(s.data) : P[i] \in Seq(Pair)
               /\ \A i \in 1 .. Len(s.data) : P[i] = P[i - 1] \o BytesPart(s, i)
<1> DEFINE s == sources[1]
           P == UpTo(Parts(s))
<1>1. s.kind = "bytes" /\ s.kind \in Kinds /\ s \in SourceOf(s.kind)
  BY DEF Cutting, TypeInv, SourceAssumption
<1>2. s.data \in Seq(Char)
  BY <1>1 DEF SourceOf, DataOf
<1> HIDE DEF s
<1>3. Parts(s) \in Seq(Seq(Pair))
  BY <1>1, PartsTyped
<1>4. Len(Parts(s)) = Len(s.data) /\ \A i \in 1 .. Len(s.data) : Parts(s)[i] = BytesPart(s, i)
  BY <1>1, <1>2, PartsOfBytes
<1>5. /\ P[0] = <<>>
      /\ \A i \in 1 .. Len(Parts(s)) : P[i] = P[i - 1] \o Parts(s)[i]
      /\ \A i \in 0 .. Len(Parts(s)) : P[i] \in Seq(Pair)
  BY <1>3, UpToDef, Zenon
<1> HIDE DEF P
<1> QED BY <1>2, <1>3, <1>4, <1>5 DEF P, s

LEMMA StepKeepsCut ==
    ASSUME SourceAssumption, TypeInv, FieldInv, CutInv, [Next]_vars
    PROVE  CutInv'
<1> DEFINE s == sources[1]
           P == UpTo(Parts(s))
<1>1. sources' = sources /\ firmae' = firmae
  <2>1. CASE UNCHANGED vars
    BY <2>1 DEF vars
  <2>2. CASE Begin \/ Builtin \/ Row \/ Line \/ Feed \/ Return
    BY <2>2 DEF Begin, Builtin, Row, Line, Feed, Return
  <2>3. CASE Finish
    BY <2>3 DEF Finish, End
  <2> QED BY <2>1, <2>2, <2>3 DEF Next
<1>1a. s' = s /\ Parts(s)' = Parts(s) /\ P' = P /\ Cutting' = Cutting
  BY <1>1 DEF Parts, Cutting
<1> SUFFICES ASSUME Cutting
             PROVE  \E m \in 0 .. Len(s.data) : (at' = 1 => m = pos') /\ CutTo(out', P[m])
  <2> HIDE DEF P
  <2>1. Cutting' => \E m \in 0 .. Len(s'.data) : (at' = 1 => m = pos') /\ CutTo(out', P'[m])
    BY <1>1a
  <2> QED BY <2>1 DEF CutInv, P
<1>3. PICK m \in 0 .. Len(sources[1].data) :
          (at = 1 => m = pos) /\ CutTo(out, P[m])
  BY DEF CutInv
<1>4. pc = "load" => at = 1 /\ Source = sources[1] /\ Source.kind = "bytes"
  BY DEF TypeInv, TypeOK, Cutting, Source
<1>5. ASSUME at' = 1 => at = 1 /\ pos' = pos, out' = out
      PROVE  \E k \in 0 .. Len(s.data) : (at' = 1 => k = pos') /\ CutTo(out', P[k])
  <2> HIDE DEF P
  <2> QED BY <1>3, <1>5
<1>6. CASE UNCHANGED vars
  BY <1>5, <1>6 DEF vars
<1>7. CASE Begin
  BY <1>5, <1>7 DEF Begin, TypeInv, TypeOK
<1>8. CASE Builtin \/ Row \/ Line
  BY <1>4, <1>8 DEF Builtin, Row, Line, Loading
<1>9. CASE Finish
  BY <1>4, <1>5, <1>9 DEF Finish, End
<1>10. CASE Return
  BY <1>5, <1>10 DEF Return
<1>11. CASE Feed
  <2> DEFINE i == pos + 1
  <2>1. at = 1 /\ at' = 1 /\ pos' = i /\ Data = s.data /\ m = pos
    BY <1>3, <1>4, <1>11 DEF Feed, Loading, Data
  <2>2. s.data \in Seq(Char) /\ pos \in Nat /\ i \in 1 .. Len(s.data) /\ i - 1 = pos
    BY <1>11, <2>1, FedBytes
  <2>3. P[i] = P[i - 1] \o BytesPart(s, i) /\ P[pos] \in Seq(Pair)
    <3>1. pos \in 0 .. Len(s.data)
      BY <2>2
    <3> QED BY <2>2, <3>1, CutPairs
  <2>4. CutTo(out, P[pos])
    BY <1>3, <2>1
  <2>5. CutTo(out', P[i])
    <3>1. CASE s.data[i] = NUL
      <4> DEFINE q == Piece(s.data, NUL, i)
      <4>1. PICK key, val : out' = Append(out, <<key, val>>) /\ (HasEq(q) => key = CutKey(PairOf(q)[1]))
        BY <1>11, <2>1, <3>1, RecordWritten
      <4>2. HasEq(q)
        BY <2>2, <3>1 DEF Cutting, AllHaveEq
      <4>3. PairOf(q) \in Pair
        <5>1. i \in 1 .. Len(s.data) + 1
          BY <2>2
        <5>2. q \in Seq(Char)
          BY <2>2, <5>1, PieceIs
        <5> QED BY <5>2, PairOfTyped
      <4>4. P[i] = P[pos] \o <<PairOf(q)>>
        BY <2>2, <2>3, <3>1 DEF BytesPart
      <4> DEFINE x == <<key, val>>
                 y == PairOf(q)
      <4>5. x[1] = CutKey(y[1])
        BY <4>1, <4>2
      <4> HIDE DEF x, y, q, P, i, s
      <4>6. CutTo(Append(out, x), P[pos] \o <<y>>)
        BY <2>3, <2>4, <4>3, <4>5, CutMore DEF y
      <4> QED BY <4>1, <4>4, <4>6 DEF x, y
    <3>2. CASE s.data[i] # NUL
      <4>1. out' = out
        BY <1>11, <2>1, <3>2 DEF Feed
      <4>2. P[i] = P[pos]
        <5>1. P[i] = P[pos] \o <<>>
          BY <2>2, <2>3, <3>2 DEF BytesPart
        <5> HIDE DEF P
        <5> QED BY <2>3, <5>1, ConcatEmptySeq
      <4> QED BY <2>4, <4>1, <4>2
    <3> QED BY <3>1, <3>2
  <2>6. i \in 0 .. Len(s.data)
    BY <2>2
  <2> HIDE DEF P, i
  <2> QED BY <2>1, <2>5, <2>6
<1> QED BY <1>6, <1>7, <1>8, <1>9, <1>10, <1>11 DEF Next

LEMMA FieldsStart == ASSUME Init PROVE FieldInv
BY DEF Init, FieldInv, Loading

LEMMA CutStart == ASSUME SourceAssumption, Init PROVE CutInv
<1>1. SUFFICES ASSUME Cutting PROVE CutTo(out, UpTo(Parts(sources[1]))[0]) /\ 0 \in 0 .. Len(sources[1].data)
  BY DEF CutInv, Init
<1>2. TypeInv
  BY StartsTyped
<1>3. UpTo(Parts(sources[1]))[0] = <<>> /\ sources[1].data \in Seq(Char)
  BY <1>1, <1>2, CutPairs
<1>4. out = <<>> /\ out \in Seq({}) /\ Len(out) = 0
  BY DEF Init
<1> QED BY <1>3, <1>4 DEF CutTo

\* A key that is too long for larr reaches nvram_set cut to what fits, and
\* terminated, wherever it is in the file (parse_nvram_from_file).
THEOREM KeysCut == Spec => []LongKeysCut
<1>1. Init => TypeInv /\ FieldInv /\ CutInv
  BY SourceAssumption, StartsTyped, FieldsStart, CutStart
<1>2. TypeInv /\ FieldInv /\ CutInv /\ [Next]_vars => (TypeInv /\ FieldInv /\ CutInv)'
  BY SourceAssumption, StepKeepsType, StepKeepsFields, StepKeepsCut
<1>3. TypeInv /\ CutInv => LongKeysCut
  <2> SUFFICES ASSUME TypeInv, CutInv, Cutting, NEW n \in DOMAIN out
               PROVE  out[n][1] = CutKey(Pairs(sources[1])[n][1])
    BY DEF LongKeysCut, Cutting
  <2> DEFINE s == sources[1]
             P == UpTo(Parts(s))
  <2>1. PICK m \in 0 .. Len(s.data) : CutTo(out, P[m])
    BY DEF CutInv
  <2>2. P[m] \in Seq(Pair) /\ Parts(s) \in Seq(Seq(Pair)) /\ m \in 0 .. Len(Parts(s))
    BY SourceAssumption, CutPairs
  <2> HIDE DEF s
  <2>3. PICK u \in Seq(Pair) : Pairs(s) = P[m] \o u
    BY <2>2, UpToBegins DEF Begins, Pairs
  <2> HIDE DEF P
  <2>4. n \in 1 .. Len(P[m]) /\ out[n][1] = CutKey(P[m][n][1])
    BY <2>1 DEF CutTo
  <2>5. Pairs(s)[n] = P[m][n]
    BY <2>2, <2>3, <2>4, ConcatProperties
  <2> QED BY <2>4, <2>5 DEF s
<1> QED BY <1>1, <1>2, <1>3, PTL DEF Spec

-----------------------------------------------------------------------------
(* What reaches nvram_set of each source. *)

\* What is in a part of a source, at most one pair, is added to o.
Adds(part, o, o1) == (part = <<>> /\ o1 = o) \/ (\E p \in Pair : part = <<p>> /\ o1 = Append(o, p))

LEMMA AddPart ==
    ASSUME NEW b \in Seq(Pair), NEW v \in Seq(Pair), NEW part \in Seq(Pair),
           NEW o, o = b \o v, NEW o1, Adds(part, o, o1)
    PROVE  o1 = b \o (v \o part)
<1>1. o \in Seq(Pair)
  BY ConcatProperties
<1>2. o1 = o \o part
  <2>1. CASE part = <<>> /\ o1 = o
    BY <1>1, <2>1, ConcatEmptySeq
  <2>2. ASSUME NEW p \in Pair, part = <<p>>, o1 = Append(o, p) PROVE o1 = o \o part
    <3>1. Append(o, p) = o \o <<p>>
      BY <1>1, AppendIsConcat
    <3> QED BY <2>2, <3>1
  <2> QED BY <2>1, <2>2 DEF Adds
<1>3. (b \o v) \o part = b \o (v \o part)
  BY ConcatAssociative, SMTT(30)
<1> QED BY <1>2, <1>3, Zenon

LEMMA UpToSkip ==
    ASSUME NEW T, NEW parts \in Seq(Seq(T)), NEW i \in 0 .. Len(parts), NEW j \in i .. Len(parts),
           \A k \in i + 1 .. j : parts[k] = <<>>
    PROVE  UpTo(parts)[j] = UpTo(parts)[i]
<1> DEFINE U == UpTo(parts)
           N == Len(parts)
           S == {d \in Nat : i + d <= j => U[i + d] = U[i]}
<1>1. N \in Nat /\ i \in Nat /\ j \in Nat /\ i <= j /\ j <= N
  OBVIOUS
<1>2. \A k \in 1 .. N : U[k] = U[k - 1] \o parts[k]
  BY UpToDef, Zenon
<1>3. \A k \in 0 .. N : U[k] \in Seq(T)
  BY UpToDef, Zenon
<1> HIDE DEF U, N
<1>4. 0 \in S
  BY <1>1
<1>5. ASSUME NEW d \in Nat, d \in S PROVE d + 1 \in S
  <2>1. CASE i + (d + 1) <= j
    <3> DEFINE k == i + (d + 1)
    <3>1. k \in 1 .. N /\ k - 1 = i + d /\ k \in i + 1 .. j /\ k - 1 \in 0 .. N
      BY <1>1, <2>1
    <3>1a. U[k - 1] = U[i]
      <4>1. i + d <= j /\ U[i + d] = U[i]
        BY <1>1, <1>5, <2>1
      <4> QED BY <3>1, <4>1
    <3> HIDE DEF k
    <3>2. U[k] = U[k - 1] \o <<>>
      BY <1>2, <3>1
    <3>3. U[k] = U[k - 1]
      BY <1>3, <3>1, <3>2, ConcatEmptySeq
    <3> QED BY <3>1, <3>1a, <3>3 DEF k
  <2> QED BY <2>1
<1>6. Nat \subseteq S
  <2> HIDE DEF S
  <2> QED BY <1>4, <1>5, Induction
<1>7. j - i \in Nat /\ i + (j - i) = j
  BY <1>1
<1>8. j - i \in S
  BY <1>6, <1>7
<1>9. U[j] = U[i]
  BY <1>1, <1>7, <1>8
<1> QED BY <1>9 DEF U

AllWell == \A i \in DOMAIN sources : WellFormed(sources[i])

Reached == [i \in DOMAIN sources |-> IF Wanted(sources[i]) THEN Pairs(sources[i]) ELSE <<>>]

LEMMA SourceTyped ==
    ASSUME SourceAssumption, TypeInv, NEW i \in 1 .. Len(sources)
    PROVE  /\ Len(sources) \in Nat /\ i \in DOMAIN sources
           /\ sources[i].kind \in Kinds /\ sources[i] \in SourceOf(sources[i].kind)
BY DEF TypeInv, SourceAssumption

\* The pairs of one source.
LEMMA PartsJoin ==
    ASSUME SourceAssumption, TypeInv, AllWell, NEW i \in 1 .. Len(sources)
    PROVE  LET s == sources[i]
               V == UpTo(Parts(s))
               N == Len(Parts(s))
           IN  /\ N \in Nat /\ Parts(s) \in Seq(Seq(Pair))
               /\ V[0] = <<>>
               /\ \A k \in 1 .. N : V[k] = V[k - 1] \o Parts(s)[k]
               /\ \A k \in 0 .. N : V[k] \in Seq(Pair)
               /\ Pairs(s) = V[N]
<1> DEFINE s == sources[i]
           V == UpTo(Parts(s))
           N == Len(Parts(s))
<1>1. s.kind \in Kinds /\ s \in SourceOf(s.kind) /\ i \in DOMAIN sources
  BY SourceTyped
<1>2. WellFormed(s)
  BY <1>1 DEF AllWell
<1> HIDE DEF s
<1>3. Parts(s) \in Seq(Seq(Pair))
  BY <1>1, <1>2, PartsTyped
<1>4. N \in Nat
  BY <1>3
<1>5. /\ V[0] = <<>>
      /\ \A k \in 1 .. N : V[k] = V[k - 1] \o Parts(s)[k]
      /\ \A k \in 0 .. N : V[k] \in Seq(Pair)
  BY <1>3, UpToDef, Zenon
<1>6. Pairs(s) = V[N]
  BY DEF Pairs, Joined
<1> HIDE DEF V, N
<1> QED BY <1>3, <1>4, <1>5, <1>6 DEF V, N, s

\* The pairs of all of them.
LEMMA ReachedJoin ==
    ASSUME SourceAssumption, TypeInv, AllWell
    PROVE  LET U == UpTo(Reached)
               N == Len(sources)
           IN  /\ N \in Nat /\ Len(Reached) = N /\ Reached \in Seq(Seq(Pair))
               /\ U[0] = <<>>
               /\ \A i \in 1 .. N : U[i] = U[i - 1] \o (IF Wanted(sources[i]) THEN Pairs(sources[i]) ELSE <<>>)
               /\ \A i \in 0 .. N : U[i] \in Seq(Pair)
<1> DEFINE U == UpTo(Reached)
           N == Len(sources)
           R(i) == IF Wanted(sources[i]) THEN Pairs(sources[i]) ELSE <<>>
<1>1. N \in Nat /\ DOMAIN sources = 1 .. N
  BY DEF TypeInv, SourceAssumption
<1>2. Reached = [i \in 1 .. N |-> R(i)]
  BY <1>1 DEF Reached
<1>3. \A i \in 1 .. N : R(i) \in Seq(Pair)
  <2>1. TAKE i \in 1 .. N
  <2> DEFINE M == Len(Parts(sources[i]))
             V == UpTo(Parts(sources[i]))
  <2>2. M \in Nat /\ Pairs(sources[i]) = V[M] /\ \A k \in 0 .. M : V[k] \in Seq(Pair)
    BY PartsJoin
  <2> HIDE DEF M, V
  <2>3. Pairs(sources[i]) \in Seq(Pair)
    BY <2>2
  <2>4. <<>> \in Seq(Pair)
    OBVIOUS
  <2> QED BY <2>3, <2>4
<1> HIDE DEF R
<1>4. Reached \in Seq(Seq(Pair)) /\ Len(Reached) = N /\ \A i \in 1 .. N : Reached[i] = R(i)
  <2> HIDE DEF N
  <2>1. Reached = [i \in 1 .. N |-> Reached[i]] /\ \A i \in 1 .. N : Reached[i] = R(i)
    BY <1>2
  <2>2. Reached \in Seq(Seq(Pair))
    <3>1. \A i \in 1 .. N : Reached[i] \in Seq(Pair)
      BY <1>3, <2>1
    <3> QED BY <1>1, <2>1, <3>1, IsSeq
  <2>3. Len(Reached) = N
    BY <1>1, <1>2
  <2> QED BY <2>1, <2>2, <2>3
<1>5. /\ U[0] = <<>>
      /\ \A i \in 1 .. Len(Reached) : U[i] = U[i - 1] \o Reached[i]
      /\ \A i \in 0 .. Len(Reached) : U[i] \in Seq(Pair)
  BY <1>4, UpToDef, Zenon
<1>6. \A i \in 1 .. N : U[i] = U[i - 1] \o R(i)
  BY <1>4, <1>5
<1> HIDE DEF U, N
<1> QED BY <1>1, <1>4, <1>5, <1>6 DEF U, N, R

-----------------------------------------------------------------------------
(* Reading a line. *)

LEMMA FirstIn ==
    ASSUME NEW C, NEW s \in Seq(C), NEW c, NEW i \in 1 .. Len(s), IsFirst(s, c, i)
    PROVE  First(s, c) = i
BY FirstIs

LEMMA FirstNone ==
    ASSUME NEW C, NEW s \in Seq(C), NEW c, \A x \in 1 .. Len(s) : s[x] # c
    PROVE  First(s, c) = 0
BY FirstIs

LEMMA FirstFound ==
    ASSUME NEW C, NEW s \in Seq(C), NEW c
    PROVE  /\ First(s, c) \in 0 .. Len(s)
           /\ First(s, c) = 0 => \A x \in 1 .. Len(s) : s[x] # c
           /\ First(s, c) # 0 => s[First(s, c)] = c /\ \A x \in 1 .. First(s, c) - 1 : s[x] # c
<1>1. First(s, c) \in 0 .. Len(s)
  BY FirstIsThere
<1>2. First(s, c) = 0 => \A x \in 1 .. Len(s) : s[x] # c
  BY FirstIs
<1>3. First(s, c) # 0 => IsFirst(s, c, First(s, c))
  BY FirstIs
<1> QED BY <1>1, <1>2, <1>3 DEF IsFirst

LEMMA SubSeqLast ==
    ASSUME NEW C, NEW s \in Seq(C), NEW p \in 0 .. Len(s), NEW i \in p + 1 .. Len(s)
    PROVE  SubSeq(s, p + 1, i) = Append(SubSeq(s, p + 1, i - 1), s[i])
OBVIOUS

LEMMA TailAppend ==
    ASSUME NEW C, NEW q \in Seq(C), NEW c \in C, NEW k \in 0 .. Len(q)
    PROVE  SubSeq(Append(q, c), k + 1, Len(q) + 1) = Append(SubSeq(q, k + 1, Len(q)), c)
<1> DEFINE t == Append(q, c)
           N == Len(q)
<1>1. t \in Seq(C) /\ Len(t) = N + 1 /\ t[N + 1] = c /\ \A x \in 1 .. N : t[x] = q[x]
  OBVIOUS
<1>2. N \in Nat /\ k \in 0 .. N /\ q \in Seq(C) /\ Len(q) = N
  OBVIOUS
<1> HIDE DEF t, N
<1>3. SubSeq(t, k + 1, N) = SubSeq(q, k + 1, N)
  BY <1>1, <1>2
<1>4. SubSeq(t, k + 1, N + 1) = Append(SubSeq(t, k + 1, (N + 1) - 1), t[N + 1])
  <2>1. k \in 0 .. Len(t) /\ N + 1 \in k + 1 .. Len(t)
    BY <1>1, <1>2
  <2> QED BY <1>1, <2>1, SubSeqLast
<1>5. (N + 1) - 1 = N
  BY <1>2
<1>6. SubSeq(t, k + 1, N + 1) = Append(SubSeq(q, k + 1, N), c)
  BY <1>1, <1>3, <1>4, <1>5
<1> QED BY <1>6 DEF t, N

\* fgets reads a whole line that fits, its newline included if there is one.
LEMMA ChunkIs ==
    ASSUME SourceAssumption, NEW s \in Seq(Char)
    PROVE  /\ First(s, NL) # 0 /\ First(s, NL) < LineSize => Chunk(s) = SubSeq(s, 1, First(s, NL))
           /\ First(s, NL) = 0 /\ Len(s) < LineSize => Chunk(s) = s
<1> DEFINE f == First(s, NL)
           M == IF Len(s) < LineSize THEN Len(s) ELSE LineSize - 1
           most == SubSeq(s, 1, M)
<1>1. LineSize \in Nat \ {0, 1} /\ Len(s) \in Nat
  BY DEF SourceAssumption
<1>2. /\ f \in 0 .. Len(s)
      /\ f = 0 => \A x \in 1 .. Len(s) : s[x] # NL
      /\ f # 0 => s[f] = NL /\ \A x \in 1 .. f - 1 : s[x] # NL
  BY FirstFound
<1>3. Chunk(s) = IF First(most, NL) = 0 THEN most ELSE SubSeq(most, 1, First(most, NL))
  BY DEF Chunk
<1>4. M \in 0 .. Len(s)
  BY <1>1
<1> HIDE DEF f, M
<1>5. most \in Seq(Char) /\ Len(most) = M /\ \A x \in 1 .. M : most[x] = s[x]
  BY <1>4
<1>6. ASSUME f # 0, f < LineSize PROVE Chunk(s) = SubSeq(s, 1, f)
  <2>1. f \in 1 .. M
    BY <1>1, <1>2, <1>6 DEF M
  <2>2. SubSeq(most, 1, f) = SubSeq(s, 1, f)
    BY <1>4, <1>5, <2>1
  <2> HIDE DEF most
  <2>3. f \in 1 .. Len(most) /\ IsFirst(most, NL, f)
    BY <1>2, <1>5, <2>1 DEF IsFirst
  <2>4. First(most, NL) = f
    BY <1>5, <2>3, FirstIn
  <2> QED BY <1>3, <1>6, <2>2, <2>4
<1>7. ASSUME f = 0, Len(s) < LineSize PROVE Chunk(s) = s
  <2>1. M = Len(s)
    BY <1>7 DEF M
  <2>2. most = s
    BY <2>1
  <2>3. First(most, NL) = 0
    BY <1>7, <2>2 DEF f
  <2> QED BY <1>3, <2>2, <2>3
<1> QED BY <1>6, <1>7 DEF f

LineFits(s, i) == Len(Piece(s, NL, i)) + (IF i = Len(s) + 1 THEN 1 ELSE 2) <= LineSize

\* A chunk of s behind position p is the line that ends at i, with its newline.
LineTo(s, p, chunk, i) ==
    /\ EndsLine(s, i) /\ \A k \in p + 1 .. i - 1 : ~ EndsLine(s, k)
    /\ IF i = Len(s) + 1
       THEN chunk = Piece(s, NL, i) /\ p + Len(chunk) = Len(s)
       ELSE chunk = Append(Piece(s, NL, i), NL) /\ p + Len(chunk) = i

\* Behind a newline at p, up to the next one or to the end of the text.
LEMMA LineRead ==
    ASSUME SourceAssumption, NEW s \in Seq(Char), NEW p \in 0 .. Len(s) - 1, p = 0 \/ s[p] = NL,
           \A i \in 1 .. Len(s) + 1 : EndsLine(s, i) => LineFits(s, i)
    PROVE  \E i \in p + 1 .. Len(s) + 1 : LineTo(s, p, Chunk(SubSeq(s, p + 1, Len(s))), i)
<1> DEFINE N == Len(s)
           rest == SubSeq(s, p + 1, N)
           f == First(rest, NL)
<1>1. N \in Nat /\ p \in 0 .. N /\ N - p \in Nat /\ p < N /\ N = Len(s)
  OBVIOUS
<1>2. rest \in Seq(Char) /\ Len(rest) = N - p /\ \A x \in 1 .. N - p : rest[x] = s[p + x]
  BY <1>1, SubSeqIs
<1>3. /\ f \in 0 .. N - p
      /\ f = 0 => \A x \in 1 .. N - p : rest[x] # NL
      /\ f # 0 => rest[f] = NL /\ \A x \in 1 .. f - 1 : rest[x] # NL
  <2> HIDE DEF rest
  <2> QED BY <1>2, FirstFound
<1>4. /\ f # 0 /\ f < LineSize => Chunk(rest) = SubSeq(rest, 1, f)
      /\ f = 0 /\ Len(rest) < LineSize => Chunk(rest) = rest
  <2> HIDE DEF rest
  <2> QED BY <1>2, ChunkIs
<1> HIDE DEF N, f
<1>5. ASSUME NEW i \in p + 1 .. N + 1, \A x \in p + 1 .. i - 1 : s[x] # NL
      PROVE  Piece(s, NL, i) = SubSeq(s, p + 1, i - 1)
  <2>1. i \in 1 .. Len(s) + 1 /\ p \in 0 .. i - 1
    BY <1>1
  <2>2. Starts(s, NL, i, p)
    BY <1>5 DEF Starts
  <2>3. Start(s, NL, i) = p
    BY <2>1, <2>2, StartIs
  <2>4. \A j : j = Start(s, NL, i) => Piece(s, NL, i) = SubSeq(s, j + 1, i - 1)
    BY Zenon DEF Piece
  <2> QED BY <2>3, <2>4, Zenon
<1>6. CASE f # 0
  <2> DEFINE i == p + f
  <2>1. i \in p + 1 .. N /\ i - 1 \in p .. N /\ i - p = f
    BY <1>1, <1>3, <1>6
  <2>2. s[i] = NL
    BY <1>2, <1>3, <1>6
  <2>3. \A x \in p + 1 .. i - 1 : s[x] # NL
    <3>1. TAKE x \in p + 1 .. i - 1
    <3>2. x - p \in 1 .. f - 1 /\ x - p \in 1 .. N - p /\ p + (x - p) = x
      BY <1>1, <1>3, <1>6
    <3> QED BY <1>2, <1>3, <1>6, <3>2
  <2> DEFINE line == SubSeq(s, p + 1, i - 1)
  <2>4. line \in Seq(Char) /\ Len(line) = f - 1
    <3>1. p \in 0 .. Len(s) /\ i - 1 \in p .. Len(s) /\ (i - 1) - p = f - 1
      BY <1>1, <2>1
    <3> HIDE DEF i
    <3> QED BY <3>1, SubSeqIs
  <2>5. Piece(s, NL, i) = line
    <3>1. i \in p + 1 .. N + 1
      BY <1>1, <2>1
    <3> HIDE DEF i
    <3> QED BY <1>5, <2>3, <3>1
  <2>6. EndsLine(s, i) /\ i # N + 1 /\ i \in 1 .. Len(s) + 1
    BY <1>1, <2>1, <2>2 DEF EndsLine
  <2>7. f < LineSize
    <3>1. LineFits(s, i)
      BY <2>6
    <3>2. f - 1 + 2 <= LineSize
      BY <1>1, <2>4, <2>5, <2>6, <3>1 DEF LineFits
    <3> QED BY <1>3, <3>2 DEF SourceAssumption
  <2>8. Chunk(rest) = SubSeq(rest, 1, f)
    BY <1>4, <1>6, <2>7
  <2>9. SubSeq(rest, 1, f) = SubSeq(s, p + 1, i)
    <3>1. p \in 0 .. N /\ i \in p .. N
      BY <1>1, <2>1
    <3> HIDE DEF i
    <3>2. SubSeq(SubSeq(s, p + 1, N), 1, i - p) = SubSeq(s, p + 1, i)
      BY <1>1, <3>1, SubSubSeq
    <3> QED BY <2>1, <3>2
  <2>10. SubSeq(s, p + 1, i) = Append(line, NL)
    <3>1. p \in 0 .. Len(s) /\ i \in p + 1 .. Len(s)
      BY <1>1, <2>1
    <3> HIDE DEF i
    <3>2. SubSeq(s, p + 1, i) = Append(line, s[i])
      BY <3>1, SubSeqLast
    <3> QED BY <2>2, <3>2
  <2>11. \A k \in p + 1 .. i - 1 : ~ EndsLine(s, k)
    BY <1>1, <2>1, <2>3 DEF EndsLine
  <2>12. Len(Append(line, NL)) = f
    <3> HIDE DEF line
    <3>1. NL \in Char
      BY DEF SourceAssumption
    <3> QED BY <1>3, <1>6, <2>4, <3>1
  <2> HIDE DEF i, line, rest
  <2>13. p + f = i
    BY DEF i
  <2>14. /\ i # Len(s) + 1 /\ i \in p + 1 .. Len(s) + 1
         /\ Chunk(rest) = Append(Piece(s, NL, i), NL)
         /\ p + Len(Chunk(rest)) = i
    <3>1. Chunk(rest) = Append(line, NL)
      BY <2>8, <2>9, <2>10
    <3>2. i # Len(s) + 1 /\ i \in p + 1 .. Len(s) + 1
      BY <1>1, <2>1, <2>6
    <3>3. p + Len(Chunk(rest)) = i
      BY <2>12, <2>13, <3>1
    <3> QED BY <2>5, <3>1, <3>2, <3>3
  <2>15. LineTo(s, p, Chunk(rest), i)
    BY <2>6, <2>11, <2>14 DEF LineTo
  <2> QED BY <2>14, <2>15 DEF rest, N
<1>7. CASE f = 0
  <2> DEFINE i == N + 1
  <2>1. i \in p + 1 .. N + 1 /\ i - 1 = N /\ i \in 1 .. Len(s) + 1
    BY <1>1
  <2>2. \A x \in p + 1 .. i - 1 : s[x] # NL
    <3>1. TAKE x \in p + 1 .. i - 1
    <3>2. x - p \in 1 .. N - p /\ p + (x - p) = x
      BY <1>1
    <3> QED BY <1>2, <1>3, <1>7, <3>2
  <2>3. Piece(s, NL, i) = rest
    BY <1>5, <2>1, <2>2
  <2>4. EndsLine(s, i) /\ \A k \in p + 1 .. i - 1 : ~ EndsLine(s, k)
    BY <1>1, <2>1, <2>2 DEF EndsLine
  <2>5. Len(rest) < LineSize
    <3>1. LineFits(s, i)
      BY <2>1, <2>4
    <3>2. (N - p) + 1 <= LineSize
      <4> HIDE DEF rest
      <4> QED BY <1>1, <1>2, <2>3, <3>1 DEF LineFits
    <3> QED BY <1>1, <1>2, <3>2 DEF SourceAssumption
  <2>6. Chunk(rest) = rest
    BY <1>4, <1>7, <2>5
  <2>7. p + (N - p) = N /\ i = Len(s) + 1
    BY <1>1
  <2> HIDE DEF i, rest
  <2>8. p + Len(Chunk(rest)) = Len(s)
    BY <1>1, <1>2, <2>6, <2>7
  <2>9. LineTo(s, p, Chunk(rest), i)
    BY <2>3, <2>4, <2>6, <2>7, <2>8 DEF LineTo
  <2>10. i \in p + 1 .. Len(s) + 1
    BY <1>1, <2>1
  <2> QED BY <2>9, <2>10 DEF rest, N
<1> QED BY <1>6, <1>7

\* What is written for a line, with its newline or without one.
LEMMA LinePair ==
    ASSUME SourceAssumption, NEW line \in Seq(Char), \A x \in 1 .. Len(line) : line[x] # NL,
           NEW c, c = line \/ c = Append(line, NL)
    PROVE  /\ First(c, Eq) = 0 <=> ~ HasEq(line)
           /\ HasEq(line) => <<Before(c, Eq), Before(After(c, Eq), NL)>> = PairOf(line)
<1> DEFINE e == First(line, Eq)
           N == Len(line)
           v == SubSeq(line, e + 1, N)
<1>1. NL \in Char /\ NL # Eq /\ N \in Nat /\ e \in 0 .. N
  BY FirstFound DEF SourceAssumption
<1>2. HasEq(line) <=> e # 0
  BY HasEqFirst
<1>3. First(c, Eq) = e
  <2>1. First(Append(line, NL), Eq) = e
    BY <1>1, FirstAppend
  <2> QED BY <2>1
<1>4. ASSUME e # 0 PROVE Before(c, Eq) = Before(line, Eq) /\ Before(After(c, Eq), NL) = v
  <2>1. e \in 1 .. N
    BY <1>1, <1>4
  <2>2. v \in Seq(Char) /\ Len(v) = N - e /\ \A x \in 1 .. N - e : v[x] = line[e + x]
    <3>1. e \in 0 .. Len(line) /\ N \in e .. Len(line)
      BY <1>1
    <3> HIDE DEF e, N
    <3> QED BY <3>1, SubSeqIs
  <2>3. \A x \in 1 .. N - e : v[x] # NL
    BY <1>1, <2>2
  <2>4. First(v, NL) = 0
    <3> HIDE DEF v
    <3> QED BY <2>2, <2>3, FirstNone
  <2>5. Before(v, NL) = v
    BY <2>4 DEF Before
  <2>6. CASE c = line
    <3>1. After(c, Eq) = v
      BY <2>6 DEF After
    <3> QED BY <2>5, <2>6, <3>1
  <2>7. CASE c = Append(line, NL)
    <3>1. Len(c) = N + 1
      BY <1>1, <2>7
    <3>2. SubSeq(c, 1, e - 1) = SubSeq(line, 1, e - 1)
      <4> HIDE DEF e
      <4> QED BY <1>1, <2>1, <2>7
    <3>3. Before(c, Eq) = Before(line, Eq)
      BY <1>3, <1>4, <3>2 DEF Before
    <3>4. SubSeq(c, e + 1, N + 1) = Append(v, NL)
      <4>1. e \in 0 .. Len(line)
        BY <1>1
      <4> HIDE DEF e
      <4>2. SubSeq(Append(line, NL), e + 1, Len(line) + 1) = Append(SubSeq(line, e + 1, Len(line)), NL)
        BY <1>1, <4>1, TailAppend
      <4> QED BY <2>7, <4>2
    <3>5. After(c, Eq) = Append(v, NL)
      BY <1>3, <3>1, <3>4 DEF After
    <3> DEFINE w == Append(v, NL)
               M == N - e
    <3>5a. M \in Nat
      BY <1>1
    <3> HIDE DEF v
    <3>6. w \in Seq(Char) /\ Len(w) = M + 1 /\ w[M + 1] = NL /\ \A x \in 1 .. M : w[x] = v[x]
      BY <1>1, <2>2
    <3>7. SubSeq(w, 1, M) = v
      BY <1>1, <2>2
    <3> HIDE DEF w, M
    <3>8. M + 1 \in 1 .. Len(w) /\ IsFirst(w, NL, M + 1)
      <4>1. \A x \in 1 .. M : v[x] # NL
        BY <2>3 DEF M
      <4> QED BY <3>5a, <3>6, <4>1 DEF IsFirst
    <3>9. First(w, NL) = M + 1
      BY <3>6, <3>8, FirstIn
    <3>10. Before(w, NL) = v
      <4>1. M + 1 # 0 /\ (M + 1) - 1 = M
        BY <3>5a
      <4> QED BY <3>7, <3>9, <4>1 DEF Before
    <3> QED BY <3>3, <3>5, <3>10 DEF w
  <2> QED BY <2>6, <2>7
<1>5. e # 0 => PairOf(line) = <<Before(line, Eq), v>>
  BY <1>2 DEF PairOf, After
<1> HIDE DEF e, v
<1> QED BY <1>2, <1>3, <1>4, <1>5

-----------------------------------------------------------------------------
(* What has reached nvram_set at each point. *)

\* The first m parts of the source s have been read.
AtPart(s, m) ==
    CASE s.kind \in {"builtin", "bytes"} -> pos = m
      [] s.kind = "table" -> pos = s.cols * m \/ (s.cols = 2 /\ m = RowCount(s) /\ pos = 2 * m + 1)
      [] s.kind = "text" ->
           \/ pos = m /\ (pos = 0 \/ s.data[pos] = NL)
           \/ pos = Len(s.data) /\ m = Len(s.data) + 1

HalfRead ==
    \E m \in 0 .. Len(Parts(Source)) :
        AtPart(Source, m) /\ out = UpTo(Reached)[at - 1] \o UpTo(Parts(Source))[m]

OutInv ==
    AllWell => /\ IF pc = "load" THEN Wanted(Source) /\ HalfRead ELSE out = UpTo(Reached)[at - 1]
               /\ pc = "done" => at = Len(sources) + 1

\* What does not change.
LEMMA SourcesFixed ==
    ASSUME [Next]_vars
    PROVE  /\ sources' = sources /\ firmae' = firmae
           /\ AllWell' = AllWell /\ Reached' = Reached
           /\ at' = at => /\ Source' = Source /\ Wanted(Source)' = Wanted(Source)
                          /\ Parts(Source)' = Parts(Source)
<1>1. sources' = sources /\ firmae' = firmae
  <2>1. CASE UNCHANGED vars
    BY <2>1 DEF vars
  <2>2. CASE Begin \/ Builtin \/ Row \/ Line \/ Feed \/ Return
    BY <2>2 DEF Begin, Builtin, Row, Line, Feed, Return
  <2>3. CASE Finish
    BY <2>3 DEF Finish, End
  <2> QED BY <2>1, <2>2, <2>3 DEF Next
<1>2. AllWell' = AllWell
  BY <1>1 DEF AllWell, WellFormed
<1>3. Reached' = Reached
  BY <1>1 DEF Reached, Wanted, Pairs, Joined, Parts, UpTo
<1>4. ASSUME at' = at
      PROVE  Source' = Source /\ Wanted(Source)' = Wanted(Source) /\ Parts(Source)' = Parts(Source)
  BY <1>1, <1>4 DEF Source, Wanted, Parts
<1> QED BY <1>1, <1>2, <1>3, <1>4

\* A step that reads on from part m to part k, of which it writes what is in it.
ReadsOn(m, k) ==
    /\ m \in 0 .. Len(Parts(Source)) /\ out = UpTo(Reached)[at - 1] \o UpTo(Parts(Source))[m]
    /\ k \in m + 1 .. Len(Parts(Source)) /\ \A j \in m + 1 .. k - 1 : Parts(Source)[j] = <<>>
    /\ Adds(Parts(Source)[k], out, out')

LEMMA GoesOn ==
    ASSUME SourceAssumption, TypeInv, AllWell, OutInv, [Next]_vars,
           pc = "load", pc' = "load", at' = at, NEW m, NEW k, ReadsOn(m, k), AtPart(Source, k)'
    PROVE  OutInv'
<1> DEFINE V == UpTo(Parts(Source))
           N == Len(Parts(Source))
           b == UpTo(Reached)[at - 1]
           part == Parts(Source)[k]
<1>1. at \in 1 .. Len(sources) /\ Source = sources[at] /\ Len(sources) \in Nat /\ at - 1 \in 0 .. Len(sources)
  BY ReachedJoin DEF TypeInv, TypeOK, Source
<1>2. /\ N \in Nat /\ Parts(Source) \in Seq(Seq(Pair))
      /\ \A i \in 1 .. N : V[i] = V[i - 1] \o Parts(Source)[i]
      /\ \A i \in 0 .. N : V[i] \in Seq(Pair)
  BY <1>1, PartsJoin
<1>3. b \in Seq(Pair)
  BY <1>1, ReachedJoin
<1>4. k - 1 \in m .. N /\ k - 1 \in 0 .. N /\ k \in 1 .. N /\ m \in 0 .. N /\ k \in 0 .. N
  BY <1>2 DEF ReadsOn
<1>5. V[k - 1] = V[m]
  <2>1. k - 1 \in m .. Len(Parts(Source)) /\ m \in 0 .. Len(Parts(Source))
    BY <1>4
  <2> DEFINE h == k - 1
  <2>2. h \in m .. Len(Parts(Source)) /\ \A j \in m + 1 .. h : Parts(Source)[j] = <<>>
    BY <2>1 DEF ReadsOn
  <2> HIDE DEF h
  <2>3. UpTo(Parts(Source))[h] = UpTo(Parts(Source))[m]
    BY <1>2, <2>1, <2>2, UpToSkip
  <2> QED BY <2>3 DEF h
<1>6. V[k] = V[m] \o part
  BY <1>2, <1>4, <1>5
<1>7. part \in Seq(Pair)
  BY <1>2, <1>4
<1>8. V[m] \in Seq(Pair) /\ out = b \o V[m]
  BY <1>2, <1>4 DEF ReadsOn
<1>9. Adds(part, out, out')
  BY DEF ReadsOn
<1> HIDE DEF V, b, part, N
<1>10. out' = b \o V[k]
  <2> DEFINE v == V[m]
  <2> HIDE DEF v
  <2>1. v \in Seq(Pair) /\ out = b \o v
    BY <1>8 DEF v
  <2>2. out' = b \o (v \o part)
    BY <1>3, <1>7, <1>9, <2>1, AddPart
  <2> QED BY <1>6, <2>2 DEF v
<1>11. Wanted(Source)
  BY DEF OutInv
<1>12. Reached' = Reached /\ Source' = Source /\ Parts(Source)' = Parts(Source) /\ Wanted(Source)' = Wanted(Source)
  BY SourcesFixed
<1>13. k \in 0 .. Len(Parts(Source))'
  BY <1>4, <1>12 DEF N
<1>14. out' = (UpTo(Reached)[at - 1] \o UpTo(Parts(Source))[k])'
  BY <1>10, <1>12 DEF b, V
<1>15. HalfRead'
  BY <1>13, <1>14 DEF HalfRead
<1> QED BY <1>11, <1>12, <1>15 DEF OutInv

-----------------------------------------------------------------------------
(* The steps that read, for each kind of source. *)

LEMMA IsPart ==
    ASSUME NEW parts \in Seq(Seq(Pair)), NEW k \in 1 .. Len(parts), NEW p, parts[k] = <<p>>
    PROVE  p \in Pair
<1> DEFINE s == <<p>>
           S == Seq(Pair)
<1>1. s \in S
  <2> HIDE DEF s, S
  <2>1. parts \in Seq(S) /\ parts[k] = s
    BY DEF S, s
  <2> QED BY <2>1
<1>2. Len(s) = 1 /\ s[1] = p
  OBVIOUS
<1> HIDE DEF s
<1>3. 1 \in 1 .. Len(s)
  BY <1>2
<1>4. s[1] \in Pair
  BY <1>1, <1>3, ElementOfSeq
<1> QED BY <1>2, <1>4

\* The source that is being read.
LEMMA Loads ==
    ASSUME SourceAssumption, TypeInv, AllWell, OutInv, pc = "load"
    PROVE  /\ at \in 1 .. Len(sources) /\ Source = sources[at]
           /\ Source.kind \in Kinds /\ Source.cols \in {2, 3} /\ Data \in DataOf(Source.kind)
           /\ WellFormed(Source) /\ Parts(Source) \in Seq(Seq(Pair))
           /\ pos \in Nat /\ HalfRead
<1>1. at \in 1 .. Len(sources) /\ Source = sources[at] /\ pos \in Nat
  <2>1. Len(sources) \in Nat
    BY ReachedJoin
  <2> QED BY <2>1 DEF TypeInv, TypeOK, Source
<1>2. Source.kind \in Kinds /\ Source \in SourceOf(Source.kind) /\ at \in DOMAIN sources
  BY <1>1, SourceTyped
<1>3. WellFormed(Source)
  BY <1>1, <1>2 DEF AllWell
<1>4. Data \in DataOf(Source.kind) /\ Source.cols \in {2, 3}
  BY <1>2 DEF SourceOf, Data
<1>5. Parts(Source) \in Seq(Seq(Pair))
  BY <1>2, <1>3, PartsTyped
<1>6. HalfRead
  BY DEF OutInv
<1> QED BY <1>1, <1>2, <1>3, <1>4, <1>5, <1>6

-----------------------------------------------------------------------------

BuiltinPart(s, i) == IF s.data[i].firmae => firmae THEN <<<<s.data[i].key, s.data[i].val>>>> ELSE <<>>

LEMMA PartsOfBuiltin ==
    ASSUME NEW s, s.kind = "builtin", s.data \in DataOf("builtin")
    PROVE  /\ Len(s.data) \in Nat /\ Len(Parts(s)) = Len(s.data)
           /\ \A i \in 1 .. Len(s.data) : Parts(s)[i] = BuiltinPart(s, i)
<1>1. DOMAIN s.data = 1 .. Len(s.data) /\ Len(s.data) \in Nat
  BY DEF DataOf
<1>2. Parts(s) = [i \in DOMAIN s.data |-> BuiltinPart(s, i)]
  BY DEF Parts, BuiltinPart
<1>3. Parts(s) = [i \in 1 .. Len(s.data) |-> BuiltinPart(s, i)]
  BY <1>1, <1>2
<1> QED BY <1>1, <1>3

LEMMA BuiltinReads ==
    ASSUME SourceAssumption, TypeInv, AllWell, OutInv, [Next]_vars, Builtin
    PROVE  OutInv'
<1>1. /\ pc = "load" /\ pc' = "load" /\ at' = at /\ Source.kind = "builtin"
      /\ pos < Len(Data) /\ pos' = pos + 1
  BY DEF Builtin, Loading
<1>2. /\ Data \in DataOf("builtin") /\ pos \in Nat /\ HalfRead /\ Data = Source.data
      /\ Parts(Source) \in Seq(Seq(Pair)) /\ Source' = Source
  BY <1>1, Loads, SourcesFixed DEF Data
<1>3. /\ Len(Data) \in Nat /\ Len(Parts(Source)) = Len(Data)
      /\ \A i \in 1 .. Len(Data) : Parts(Source)[i] = BuiltinPart(Source, i)
  BY <1>1, <1>2, PartsOfBuiltin
<1>4. PICK m \in 0 .. Len(Parts(Source)) :
          AtPart(Source, m) /\ out = UpTo(Reached)[at - 1] \o UpTo(Parts(Source))[m]
  BY <1>2 DEF HalfRead
<1>5. m = pos
  BY <1>1, <1>4 DEF AtPart
<1>5a. PICK k \in Nat : k = pos + 1
  BY <1>2
<1>6. /\ k \in m + 1 .. Len(Parts(Source)) /\ k \in 1 .. Len(Parts(Source))
      /\ \A j \in m + 1 .. k - 1 : Parts(Source)[j] = <<>>
  BY <1>1, <1>2, <1>3, <1>5, <1>5a
<1>7. Adds(Parts(Source)[k], out, out')
  <2> DEFINE p == <<Data[k].key, Data[k].val>>
  <2>1. Parts(Source)[k] = IF Data[k].firmae => firmae THEN <<p>> ELSE <<>>
    BY <1>2, <1>3, <1>6 DEF BuiltinPart
  <2>2. IF Data[k].firmae => firmae THEN out' = Append(out, p) ELSE out' = out
    BY <1>5a DEF Builtin, Write
  <2> HIDE DEF p
  <2>3. CASE Data[k].firmae => firmae
    <3>1. p \in Pair
      BY <1>2, <1>6, <2>1, <2>3, IsPart
    <3> QED BY <2>1, <2>2, <2>3, <3>1 DEF Adds
  <2>4. CASE ~ (Data[k].firmae => firmae)
    BY <2>1, <2>2, <2>4 DEF Adds
  <2> QED BY <2>3, <2>4
<1>8. AtPart(Source, k)'
  BY <1>1, <1>2, <1>5a DEF AtPart
<1>9. ReadsOn(m, k)
  BY <1>4, <1>6, <1>7 DEF ReadsOn
<1> QED BY <1>1, <1>8, <1>9, GoesOn


LEMMA FeedReads ==
    ASSUME SourceAssumption, TypeInv, FieldInv, AllWell, OutInv, [Next]_vars, Feed
    PROVE  OutInv'
<1>1. /\ pc = "load" /\ pc' = "load" /\ at' = at /\ Source.kind = "bytes"
      /\ pos < Len(Data) /\ pos' = pos + 1
  BY DEF Feed, Loading
<1>2. /\ Data \in Seq(Char) /\ pos \in Nat /\ HalfRead /\ Data = Source.data /\ WellFormed(Source)
      /\ Parts(Source) \in Seq(Seq(Pair)) /\ Source' = Source
  BY <1>1, Loads, SourcesFixed DEF Data, DataOf
<1>3. /\ Len(Data) \in Nat /\ Len(Parts(Source)) = Len(Data)
      /\ \A i \in 1 .. Len(Data) : Parts(Source)[i] = BytesPart(Source, i)
  BY <1>1, <1>2, PartsOfBytes
<1>4. PICK m \in 0 .. Len(Parts(Source)) :
          AtPart(Source, m) /\ out = UpTo(Reached)[at - 1] \o UpTo(Parts(Source))[m]
  BY <1>2 DEF HalfRead
<1>5. m = pos
  BY <1>1, <1>4 DEF AtPart
<1>5a. PICK k \in Nat : k = pos + 1
  BY <1>2
<1>6. /\ k \in m + 1 .. Len(Parts(Source)) /\ k \in 1 .. Len(Parts(Source)) /\ k \in DOMAIN Data
      /\ \A j \in m + 1 .. k - 1 : Parts(Source)[j] = <<>>
  BY <1>1, <1>2, <1>3, <1>5, <1>5a
<1>7. Adds(Parts(Source)[k], out, out')
  <2> DEFINE p == PairOf(Piece(Data, NUL, k))
  <2>1. Parts(Source)[k] = IF Data[k] = NUL THEN <<p>> ELSE <<>>
    BY <1>2, <1>3, <1>6 DEF BytesPart
  <2>2. CASE Data[k] = NUL
    <3>1. PICK key, val : /\ out' = Append(out, <<key, val>>)
                          /\ Len(p[1]) < FieldSize /\ Len(p[2]) < FieldSize => <<key, val>> = p
      BY <1>5a, <2>2, RecordWritten
    <3>2. Len(p[1]) < FieldSize /\ Len(p[2]) < FieldSize
      <4> QED BY <1>1, <1>2, <1>6, <2>2 DEF WellFormed
    <3> HIDE DEF p
    <3>3. p \in Pair
      BY <1>2, <1>6, <2>1, <2>2, IsPart
    <3> QED BY <2>1, <2>2, <3>1, <3>2, <3>3 DEF Adds
  <2>3. CASE Data[k] # NUL
    <3>1. out' = out
      BY <1>5a, <2>3 DEF Feed
    <3> HIDE DEF p
    <3> QED BY <2>1, <2>3, <3>1 DEF Adds
  <2> QED BY <2>2, <2>3
<1>8. AtPart(Source, k)'
  BY <1>1, <1>2, <1>5a DEF AtPart
<1>9. ReadsOn(m, k)
  BY <1>4, <1>6, <1>7 DEF ReadsOn
<1> QED BY <1>1, <1>8, <1>9, GoesOn

-----------------------------------------------------------------------------
RowPart(s, i) == IF RowVal(s, i - 1) = Null THEN <<>> ELSE <<<<RowKey(s, i - 1), RowVal(s, i - 1)>>>>

LEMMA PartsOfTable ==
    ASSUME NEW s, s.kind = "table", s.data \in DataOf("table"), s.cols \in {2, 3}, WellFormed(s)
    PROVE  \E n \in 0 .. Len(s.data) :
             /\ Shaped(s, n) /\ RowCount(s) = n
             /\ Len(Parts(s)) = n /\ \A i \in 1 .. n : Parts(s)[i] = RowPart(s, i)
<1>1. s.data \in Seq(Cell)
  BY DEF DataOf, Cell
<1>2. PICK n \in 0 .. Len(s.data) : Shaped(s, n)
  BY DEF WellFormed
<1>3. RowCount(s) = n
  BY <1>1, <1>2, RowCountIs DEF Shaped
<1>4. Parts(s) = [i \in 1 .. n |-> RowPart(s, i)]
  BY <1>3 DEF Parts, RowPart
<1>5. Len(Parts(s)) = n /\ \A i \in 1 .. n : Parts(s)[i] = RowPart(s, i)
  <2>1. n \in Nat
    OBVIOUS
  <2> QED BY <1>4, <2>1
<1> QED BY <1>2, <1>3, <1>5

\* The row behind row m is where the loop goes from it.
LEMMA RowGoes ==
    ASSUME NEW n \in 0 .. Len(Data), Shaped(Source, n), Source.cols \in {2, 3}, Len(Data) \in Nat,
           NEW m \in 0 .. n, RowCount(Source) = n, pos \in Nat, Pointer(pos) # Null,
           Source.kind = "table", AtPart(Source, m)
    PROVE  /\ m < n
           /\ Pointer(pos) = RowKey(Source, m) /\ Pointer(pos + 1) = RowVal(Source, m)
           /\ \/ pos + Stride(pos) = Source.cols * (m + 1)
              \/ Source.cols = 2 /\ m + 1 = n /\ pos + Stride(pos) = 2 * (m + 1) + 1
<1>1. pos = Source.cols * m \/ (Source.cols = 2 /\ m = n /\ pos = 2 * n + 1)
  BY DEF AtPart
<1>2. CASE Source.cols = 2
  <2>1. /\ Data[2 * n + 1] = Null /\ Data[2 * n + 2] = Null
        /\ \A i \in 0 .. n - 1 : Data[2 * i + 1] \notin {Null, One}
    BY <1>2 DEF Shaped, HasRows, RowKey, RowVal, Data
  <2>2. pos # 2 * n + 1
    BY <2>1 DEF Pointer
  <2>3. pos = 2 * m
    BY <1>1, <1>2, <2>2
  <2>4. m < n
    BY <2>1, <2>3 DEF Pointer
  <2>5. Pointer(pos) = RowKey(Source, m) /\ Pointer(pos + 1) = RowVal(Source, m)
    BY <1>2, <2>3 DEF Pointer, RowKey, RowVal, Data
  <2>6. Pointer(pos + 2) = Data[2 * (m + 1) + 1]
    BY <2>3 DEF Pointer
  <2>7. CASE m + 1 = n
    <3>1. Stride(pos) = 3
      BY <2>1, <2>6, <2>7 DEF Stride
    <3> QED BY <1>2, <2>3, <2>4, <2>5, <2>7, <3>1
  <2>8. CASE m + 1 # n
    <3>1. m + 1 \in 0 .. n - 1
      BY <2>4, <2>8
    <3>2. Stride(pos) = 2
      BY <2>1, <2>6, <3>1 DEF Stride
    <3> QED BY <1>2, <2>3, <2>4, <2>5, <3>2
  <2> QED BY <2>7, <2>8
<1>3. CASE Source.cols = 3
  <2>1. Data[3 * n + 1] = Null /\ \A i \in 0 .. n - 1 : Data[3 * i + 3] \in {Null, One}
    BY <1>3 DEF Shaped, HasRows, RowKey, Data
  <2>2. pos = 3 * m
    BY <1>1, <1>3
  <2>3. m < n
    BY <2>1, <2>2 DEF Pointer
  <2>4. Pointer(pos) = RowKey(Source, m) /\ Pointer(pos + 1) = RowVal(Source, m)
    BY <1>3, <2>2 DEF Pointer, RowKey, RowVal, Data
  <2>5. Stride(pos) = 3
    <3>1. m \in 0 .. n - 1 /\ Pointer(pos + 2) = Data[3 * m + 3]
      BY <2>2, <2>3 DEF Pointer
    <3> QED BY <2>1, <3>1 DEF Stride
  <2> QED BY <1>3, <2>2, <2>3, <2>4, <2>5
<1> QED BY <1>2, <1>3

LEMMA RowReads ==
    ASSUME SourceAssumption, TypeInv, AllWell, OutInv, [Next]_vars, Row
    PROVE  OutInv'
<1>1. /\ pc = "load" /\ pc' = "load" /\ at' = at /\ Source.kind = "table"
      /\ Pointer(pos) # Null /\ pos' = pos + Stride(pos)
  BY DEF Row, Loading
<1>2. /\ Data \in DataOf("table") /\ pos \in Nat /\ HalfRead /\ Data = Source.data /\ WellFormed(Source)
      /\ Parts(Source) \in Seq(Seq(Pair)) /\ Source' = Source /\ Source.cols \in {2, 3}
  BY <1>1, Loads, SourcesFixed DEF Data
<1>3. PICK n \in 0 .. Len(Data) :
          /\ Shaped(Source, n) /\ RowCount(Source) = n
          /\ Len(Parts(Source)) = n /\ \A i \in 1 .. n : Parts(Source)[i] = RowPart(Source, i)
  BY <1>1, <1>2, PartsOfTable
<1>4. PICK m \in 0 .. Len(Parts(Source)) :
          AtPart(Source, m) /\ out = UpTo(Reached)[at - 1] \o UpTo(Parts(Source))[m]
  BY <1>2 DEF HalfRead
<1>5. /\ m < n
      /\ Pointer(pos) = RowKey(Source, m) /\ Pointer(pos + 1) = RowVal(Source, m)
      /\ \/ pos + Stride(pos) = Source.cols * (m + 1)
         \/ Source.cols = 2 /\ m + 1 = n /\ pos + Stride(pos) = 2 * (m + 1) + 1
  <2>1. Len(Data) \in Nat
    BY <1>2 DEF DataOf
  <2> QED BY <1>1, <1>2, <1>3, <1>4, <2>1, RowGoes
<1>6. PICK k \in Nat : k = m + 1
  BY <1>3, <1>4
<1>7. /\ k \in m + 1 .. Len(Parts(Source)) /\ k \in 1 .. Len(Parts(Source)) /\ k - 1 = m
      /\ \A j \in m + 1 .. k - 1 : Parts(Source)[j] = <<>>
  BY <1>3, <1>4, <1>5, <1>6
<1>8. Adds(Parts(Source)[k], out, out')
  <2> DEFINE p == <<RowKey(Source, m), RowVal(Source, m)>>
  <2>1. Parts(Source)[k] = IF RowVal(Source, m) = Null THEN <<>> ELSE <<p>>
    BY <1>3, <1>7 DEF RowPart
  <2>2. IF RowVal(Source, m) = Null THEN out' = out ELSE out' = Append(out, p)
    BY <1>5 DEF Row, Write
  <2> HIDE DEF p
  <2>3. CASE RowVal(Source, m) = Null
    BY <2>1, <2>2, <2>3 DEF Adds
  <2>4. CASE RowVal(Source, m) # Null
    <3>1. p \in Pair
      BY <1>2, <1>7, <2>1, <2>4, IsPart
    <3> QED BY <2>1, <2>2, <2>4, <3>1 DEF Adds
  <2> QED BY <2>3, <2>4
<1>9. AtPart(Source, k)'
  <2>1. RowCount(Source)' = n
    BY <1>2, <1>3
  <2> QED BY <1>1, <1>2, <1>5, <1>6, <2>1 DEF AtPart
<1>10. ReadsOn(m, k)
  BY <1>4, <1>7, <1>8 DEF ReadsOn
<1> QED BY <1>1, <1>9, <1>10, GoesOn

-----------------------------------------------------------------------------

LinePart(s, i) == IF EndsLine(s.data, i) /\ HasEq(Piece(s.data, NL, i)) THEN <<PairOf(Piece(s.data, NL, i))>> ELSE <<>>

LEMMA PartsOfText ==
    ASSUME NEW s, s.kind = "text", s.data \in Seq(Char)
    PROVE  /\ Len(s.data) \in Nat /\ Len(Parts(s)) = Len(s.data) + 1
           /\ \A i \in 1 .. Len(s.data) + 1 : Parts(s)[i] = LinePart(s, i)
<1>1. Parts(s) = [i \in 1 .. Len(s.data) + 1 |-> LinePart(s, i)]
  BY DEF Parts, LinePart
<1>2. Len(s.data) \in Nat
  OBVIOUS
<1> QED BY <1>1, <1>2

LEMMA LineReads ==
    ASSUME SourceAssumption, TypeInv, AllWell, OutInv, [Next]_vars, Line
    PROVE  OutInv'
<1> DEFINE chunk == Chunk(SubSeq(Data, pos + 1, Len(Data)))
<1>1. /\ pc = "load" /\ pc' = "load" /\ at' = at /\ Source.kind = "text"
      /\ pos < Len(Data) /\ pos' = pos + Len(chunk)
      /\ IF First(chunk, Eq) = 0 THEN out' = out
         ELSE out' = Append(out, <<Before(chunk, Eq), Before(After(chunk, Eq), NL)>>)
  BY DEF Line, Loading, Write
<1>2. /\ Data \in Seq(Char) /\ pos \in Nat /\ HalfRead /\ Data = Source.data /\ WellFormed(Source)
      /\ Parts(Source) \in Seq(Seq(Pair)) /\ Source' = Source
  BY <1>1, Loads, SourcesFixed DEF Data, DataOf
<1>3. /\ Len(Data) \in Nat /\ Len(Parts(Source)) = Len(Data) + 1
      /\ \A i \in 1 .. Len(Data) + 1 : Parts(Source)[i] = LinePart(Source, i)
  BY <1>1, <1>2, PartsOfText
<1>4. PICK m \in 0 .. Len(Parts(Source)) :
          AtPart(Source, m) /\ out = UpTo(Reached)[at - 1] \o UpTo(Parts(Source))[m]
  BY <1>2 DEF HalfRead
<1>5. m = pos /\ (pos = 0 \/ Data[pos] = NL) /\ pos \in 0 .. Len(Data) - 1
  BY <1>1, <1>2, <1>3, <1>4 DEF AtPart
<1>5a. PICK k \in pos + 1 .. Len(Data) + 1 : LineTo(Data, pos, chunk, k)
  <2>1. \A i \in 1 .. Len(Data) + 1 : EndsLine(Data, i) => LineFits(Data, i)
    BY <1>1, <1>2 DEF WellFormed, LineFits
  <2>2. pos \in 0 .. Len(Data) - 1 /\ (pos = 0 \/ Data[pos] = NL)
    BY <1>5
  <2> QED BY <1>2, <2>1, <2>2, LineRead
<1> HIDE DEF chunk
<1>6. /\ EndsLine(Data, k) /\ \A j \in pos + 1 .. k - 1 : ~ EndsLine(Data, j)
      /\ IF k = Len(Data) + 1
         THEN chunk = Piece(Data, NL, k) /\ pos + Len(chunk) = Len(Data)
         ELSE chunk = Append(Piece(Data, NL, k), NL) /\ pos + Len(chunk) = k
  BY <1>5a DEF LineTo
<1>7. /\ k \in m + 1 .. Len(Parts(Source)) /\ k \in 1 .. Len(Parts(Source)) /\ k \in 1 .. Len(Data) + 1
      /\ \A j \in m + 1 .. k - 1 : j \in 1 .. Len(Data) + 1
  <2>1. Len(Data) \in Nat /\ Len(Parts(Source)) = Len(Data) + 1
    BY <1>3
  <2>2. m = pos /\ pos \in 0 .. Len(Data) - 1 /\ k \in pos + 1 .. Len(Data) + 1
    BY <1>5, <1>6
  <2> QED BY <2>1, <2>2
<1>8. \A j \in m + 1 .. k - 1 : Parts(Source)[j] = <<>>
  BY <1>2, <1>3, <1>5, <1>6, <1>7 DEF LinePart
<1>9. Adds(Parts(Source)[k], out, out')
  <2> DEFINE line == Piece(Data, NL, k)
             p == PairOf(line)
  <2>1. Parts(Source)[k] = IF HasEq(line) THEN <<p>> ELSE <<>>
    <3>1. Parts(Source)[k] = LinePart(Source, k) /\ EndsLine(Data, k) /\ Data = Source.data
      BY <1>2, <1>3, <1>6, <1>7
    <3> QED BY <3>1 DEF LinePart
  <2>2. line \in Seq(Char) /\ \A x \in 1 .. Len(line) : line[x] # NL
    BY <1>2, <1>7, PieceIs
  <2>3. chunk = line \/ chunk = Append(line, NL)
    BY <1>6
  <2> HIDE DEF line
  <2>4. /\ First(chunk, Eq) = 0 <=> ~ HasEq(line)
        /\ HasEq(line) => <<Before(chunk, Eq), Before(After(chunk, Eq), NL)>> = p
    BY <2>2, <2>3, LinePair
  <2> HIDE DEF p
  <2>5. CASE HasEq(line)
    <3>1. p \in Pair
      BY <1>2, <1>7, <2>1, <2>5, IsPart
    <3> QED BY <1>1, <2>1, <2>4, <2>5, <3>1 DEF Adds
  <2>6. CASE ~ HasEq(line)
    BY <1>1, <2>1, <2>4, <2>6 DEF Adds
  <2> QED BY <2>5, <2>6
<1>10. AtPart(Source, k)'
  <2>1. IF k = Len(Data) + 1 THEN pos' = Len(Data) ELSE pos' = k
    BY <1>1, <1>6
  <2>2. k # Len(Data) + 1 => Data[k] = NL
    BY <1>6 DEF EndsLine
  <2>3. Data = Source.data
    BY <1>2
  <2> QED BY <1>1, <1>2, <2>1, <2>2, <2>3 DEF AtPart
<1>11. ReadsOn(m, k)
  BY <1>4, <1>7, <1>8, <1>9 DEF ReadsOn
<1> QED BY <1>1, <1>10, <1>11, GoesOn

-----------------------------------------------------------------------------
(* A source begins and ends. *)

LEMMA BeginReads ==
    ASSUME SourceAssumption, TypeInv, AllWell, OutInv, [Next]_vars, Begin
    PROVE  OutInv'
<1> DEFINE U == UpTo(Reached)
<1>1. /\ pc = "next" /\ at <= Len(sources) /\ pos' = pos /\ out' = out
      /\ IF Wanted(Source) THEN pc' = "load" /\ at' = at ELSE at' = at + 1 /\ pc' = pc
  BY DEF Begin
<1>2. /\ at \in 1 .. Len(sources) /\ Source = sources[at] /\ pos = 0 /\ Len(sources) \in Nat
      /\ at - 1 \in 0 .. Len(sources)
  <2>1. Len(sources) \in Nat
    BY ReachedJoin
  <2> QED BY <1>1, <2>1 DEF TypeInv, TypeOK, Source
<1>3. out = U[at - 1]
  BY <1>1 DEF OutInv
<1>4. /\ U[at - 1] \in Seq(Pair)
      /\ U[at] = U[at - 1] \o (IF Wanted(Source) THEN Pairs(Source) ELSE <<>>)
  BY <1>2, ReachedJoin
<1>5. Reached' = Reached
  BY SourcesFixed
<1>6. U[at - 1] \o <<>> = U[at - 1]
  <2> HIDE DEF U
  <2> QED BY <1>4, ConcatEmptySeq
<1>7. CASE Wanted(Source)
  <2>1. at' = at /\ pc' = "load"
    BY <1>1, <1>7
  <2>2. Source' = Source /\ Wanted(Source)' /\ Parts(Source)' = Parts(Source)
    BY <1>7, <2>1, SourcesFixed
  <2>3. Len(Parts(Source)) \in Nat /\ UpTo(Parts(Source))[0] = <<>>
    BY <1>2, PartsJoin
  <2>4. Source.kind \in Kinds /\ Source.cols \in {2, 3}
    BY <1>2, SourceTyped DEF SourceOf
  <2>5. AtPart(Source, 0)'
    <3>1. pos' = 0 /\ pos' = Source.cols * 0
      BY <1>1, <1>2, <2>4
    <3> QED BY <2>2, <2>4, <3>1 DEF AtPart, Kinds
  <2>6. out' = (UpTo(Reached)[at - 1] \o UpTo(Parts(Source))[0])'
    BY <1>1, <1>3, <1>5, <1>6, <2>1, <2>2, <2>3
  <2>7. 0 \in 0 .. Len(Parts(Source))'
    BY <2>2, <2>3
  <2>8. HalfRead'
    BY <2>5, <2>6, <2>7 DEF HalfRead
  <2> QED BY <2>1, <2>2, <2>8 DEF OutInv
<1>8. CASE ~ Wanted(Source)
  <2>1. at' = at + 1 /\ pc' = "next"
    BY <1>1, <1>8
  <2>2. U[at] = U[at - 1]
    BY <1>4, <1>6, <1>8
  <2>3. at' - 1 = at
    BY <1>2, <2>1
  <2>4. out' = UpTo(Reached)'[at' - 1]
    BY <1>1, <1>3, <1>5, <2>2, <2>3
  <2> QED BY <2>1, <2>4 DEF OutInv
<1> QED BY <1>7, <1>8

\* At its end all the parts of a source have been read but empty ones.
LEMMA AllRead ==
    ASSUME SourceAssumption, TypeInv, RowsInv, AllWell, OutInv, Finish,
           NEW m \in 0 .. Len(Parts(Source)), AtPart(Source, m)
    PROVE  \A j \in m + 1 .. Len(Parts(Source)) : Parts(Source)[j] = <<>>
<1>1. /\ Source.kind \in Kinds /\ Source.cols \in {2, 3} /\ Source.data \in DataOf(Source.kind)
      /\ WellFormed(Source) /\ pos \in Nat /\ pc = "load" /\ Parts(Source) \in Seq(Seq(Pair))
  BY Loads DEF Finish, Data
<1>2. CASE Source.kind = "builtin"
  <2>1. Len(Parts(Source)) = pos /\ pos = m
    BY <1>1, <1>2, PartsOfBuiltin DEF Finish, AtPart, Data
  <2> QED BY <1>1, <2>1
<1>3. CASE Source.kind = "bytes"
  <2>1. Source.data \in Seq(Char)
    BY <1>1, <1>3 DEF DataOf
  <2>2. Len(Parts(Source)) = pos /\ pos = m
    BY <1>1, <1>3, <2>1, PartsOfBytes DEF Finish, AtPart, Data
  <2> QED BY <1>1, <2>2
<1>4. CASE Source.kind = "table"
  <2>1. PICK n \in 0 .. Len(Data) :
            Shaped(Source, n) /\ RowCount(Source) = n /\ Len(Parts(Source)) = n
    BY <1>1, <1>4, PartsOfTable DEF Data
  <2>2. Loading("table")
    BY <1>1, <1>4 DEF Loading
  <2>3. AtRow(Source, n)
    BY <2>1, <2>2 DEF RowsInv
  <2>4. Inside
    BY <2>1, <2>2, <2>3, RowInside
  <2>5. Pointer(pos) = Null
    BY <1>4, <2>4 DEF Finish
  <2>6. m = n
    <3>1. SUFFICES ASSUME m # n PROVE FALSE
      OBVIOUS
    <3>2. m \in 0 .. n - 1
      BY <2>1, <3>1
    <3>3. pos = Source.cols * m
      BY <1>4, <2>1, <3>1 DEF AtPart
    <3>4. Pointer(pos) = RowKey(Source, m)
      BY <3>3 DEF Pointer, RowKey, Data
    <3>5. RowKey(Source, m) # Null
      BY <2>1, <3>2 DEF Shaped, HasRows
    <3> QED BY <2>5, <3>4, <3>5
  <2> QED BY <2>1, <2>6
<1>5. CASE Source.kind = "text"
  <2>1. Source.data \in Seq(Char) /\ pos = Len(Source.data)
    BY <1>1, <1>5 DEF DataOf, Finish, Data
  <2>2. /\ Len(Parts(Source)) = pos + 1
        /\ \A i \in 1 .. pos + 1 : Parts(Source)[i] = LinePart(Source, i)
    BY <1>5, <2>1, PartsOfText
  <2>3. m = pos + 1 \/ (m = pos /\ (pos = 0 \/ Source.data[pos] = NL))
    BY <1>5, <2>1 DEF AtPart
  <2>4. CASE m = pos + 1
    BY <1>1, <2>2, <2>4
  <2>5. CASE m = pos /\ (pos = 0 \/ Source.data[pos] = NL)
    <3> DEFINE k == pos + 1
               line == Piece(Source.data, NL, k)
    <3>1. line = <<>>
      <4>1. CASE pos = 0
        BY <2>1, <4>1, PieceFirst
      <4>2. CASE pos # 0
        <5>1. pos \in 1 .. Len(Source.data) /\ Source.data[pos] = NL
          BY <1>1, <2>1, <2>5, <4>2
        <5> QED BY <2>1, <5>1, PieceNext
      <4> QED BY <4>1, <4>2
    <3> HIDE DEF line
    <3>2. ~ HasEq(line)
      BY <3>1 DEF HasEq, ToSet
    <3>3. Parts(Source)[k] = <<>>
      BY <1>1, <2>2, <3>2 DEF LinePart, line
    <3> QED BY <1>1, <2>2, <2>5, <3>3
  <2> QED BY <2>3, <2>4, <2>5
<1> QED BY <1>1, <1>2, <1>3, <1>4, <1>5 DEF Kinds

LEMMA FinishReads ==
    ASSUME SourceAssumption, TypeInv, RowsInv, AllWell, OutInv, [Next]_vars, Finish
    PROVE  OutInv'
<1> DEFINE U == UpTo(Reached)
           V == UpTo(Parts(Source))
           N == Len(Parts(Source))
<1>1. pc = "load" /\ pc' = "next" /\ at' = at + 1 /\ out' = out
  BY DEF Finish, End
<1>2. /\ at \in 1 .. Len(sources) /\ Source = sources[at] /\ HalfRead /\ Parts(Source) \in Seq(Seq(Pair))
  BY <1>1, Loads
<1>3. PICK m \in 0 .. N : AtPart(Source, m) /\ out = U[at - 1] \o V[m]
  BY <1>2 DEF HalfRead
<1>4. \A j \in m + 1 .. N : Parts(Source)[j] = <<>>
  BY <1>3, AllRead
<1>5. N \in Nat /\ Pairs(Source) = V[N]
  BY <1>2, PartsJoin
<1>6. V[N] = V[m]
  <2>1. N \in m .. N
    BY <1>3, <1>5
  <2> QED BY <1>2, <1>3, <1>4, <2>1, UpToSkip
<1>7. Wanted(Source)
  BY <1>1 DEF OutInv
<1>8. U[at] = U[at - 1] \o Pairs(Source)
  BY <1>2, <1>7, ReachedJoin
<1>9. out' = U[at]
  BY <1>1, <1>3, <1>5, <1>6, <1>8
<1>10. at' - 1 = at
  BY <1>1, <1>2
<1>11. Reached' = Reached
  BY SourcesFixed
<1>12. out' = UpTo(Reached)'[at' - 1]
  BY <1>9, <1>10, <1>11
<1> QED BY <1>1, <1>12 DEF OutInv

LEMMA StepKeepsOut ==
    ASSUME SourceAssumption, TypeInv, RowsInv, FieldInv, OutInv, [Next]_vars
    PROVE  OutInv'
<1>1. SUFFICES ASSUME AllWell PROVE OutInv'
  BY SourcesFixed DEF OutInv
<1>2. CASE UNCHANGED vars
  <2>1. /\ Reached' = Reached /\ Source' = Source /\ Wanted(Source)' = Wanted(Source)
        /\ Parts(Source)' = Parts(Source)
    BY <1>2, SourcesFixed DEF vars
  <2>2. pos' = pos /\ out' = out /\ at' = at /\ pc' = pc /\ sources' = sources
    BY <1>2 DEF vars
  <2>3. \A m : AtPart(Source, m) => AtPart(Source, m)'
    BY <2>1, <2>2 DEF AtPart, RowCount, HasRows, RowKey
  <2>4. HalfRead => HalfRead'
    BY <2>1, <2>2, <2>3 DEF HalfRead
  <2> QED BY <1>1, <2>1, <2>2, <2>4 DEF OutInv
<1>3. CASE Begin
  BY <1>1, <1>3, BeginReads
<1>4. CASE Builtin
  BY <1>1, <1>4, BuiltinReads
<1>5. CASE Row
  BY <1>1, <1>5, RowReads
<1>6. CASE Line
  BY <1>1, <1>6, LineReads
<1>7. CASE Feed
  BY <1>1, <1>7, FeedReads
<1>8. CASE Finish
  BY <1>1, <1>8, FinishReads
<1>9. CASE Return
  <2>1. Len(sources) \in Nat
    BY <1>1, ReachedJoin
  <2>2. pc = "next" /\ pc' = "done" /\ at' = at /\ out' = out /\ sources' = sources /\ at = Len(sources) + 1
    BY <1>9, <2>1 DEF Return, TypeInv, TypeOK
  <2>3. Reached' = Reached
    BY SourcesFixed
  <2> QED BY <1>1, <2>2, <2>3 DEF OutInv
<1> QED BY <1>2, <1>3, <1>4, <1>5, <1>6, <1>7, <1>8, <1>9 DEF Next

LEMMA OutStart == ASSUME SourceAssumption, Init PROVE OutInv
<1>1. SUFFICES ASSUME AllWell PROVE out = UpTo(Reached)[at - 1] /\ pc = "next"
  BY DEF OutInv
<1>2. TypeInv
  BY StartsTyped
<1>3. UpTo(Reached)[0] = <<>>
  BY <1>1, <1>2, ReachedJoin
<1>4. at - 1 = 0
  BY DEF Init
<1> QED BY <1>3, <1>4 DEF Init

\* The pairs of the sources that the build reads reach nvram_set.
OutWanted ==
    AllWell => IsPrefix(out, Joined(Reached)) /\ (pc = "done" => out = Joined(Reached))

LEMMA OutIsWanted == ASSUME SourceAssumption, TypeInv, OutInv PROVE OutWanted
<1>1. SUFFICES ASSUME AllWell
               PROVE  IsPrefix(out, Joined(Reached)) /\ (pc = "done" => out = Joined(Reached))
  BY DEF OutWanted
<1> DEFINE U == UpTo(Reached)
           N == Len(sources)
<1>2. /\ N \in Nat /\ Len(Reached) = N /\ Reached \in Seq(Seq(Pair))
      /\ \A i \in 1 .. N : U[i] = U[i - 1] \o (IF Wanted(sources[i]) THEN Pairs(sources[i]) ELSE <<>>)
      /\ \A i \in 0 .. N : U[i] \in Seq(Pair)
  BY <1>1, ReachedJoin
<1>3. Joined(Reached) = U[N]
  BY <1>2 DEF Joined
<1>4. at - 1 \in 0 .. N /\ (pc = "done" => at - 1 = N)
  BY <1>1, <1>2 DEF TypeInv, TypeOK, OutInv
<1>5. \A i \in 0 .. N : Begins(U[i], Joined(Reached), Pair)
  <2>1. TAKE i \in 0 .. N
  <2>2. i \in 0 .. Len(Reached)
    BY <1>2
  <2> QED BY <1>2, <2>2, UpToBegins
<1>6. CASE pc = "load"
  <2>1. /\ HalfRead /\ Wanted(Source) /\ at \in 1 .. N /\ Source = sources[at]
        /\ Parts(Source) \in Seq(Seq(Pair))
    BY <1>1, <1>6, Loads DEF OutInv
  <2> DEFINE V == UpTo(Parts(Source))
  <2>2. PICK m \in 0 .. Len(Parts(Source)) : out = U[at - 1] \o V[m]
    BY <2>1 DEF HalfRead
  <2>3. Begins(V[m], Pairs(Source), Pair)
    BY <2>1, UpToBegins DEF Pairs
  <2>4. V[m] \in Seq(Pair) /\ Pairs(Source) \in Seq(Pair)
    <3>1. /\ Len(Parts(Source)) \in Nat /\ Pairs(Source) = V[Len(Parts(Source))]
          /\ \A k \in 0 .. Len(Parts(Source)) : V[k] \in Seq(Pair)
      BY <1>1, <2>1, PartsJoin
    <3> HIDE DEF V
    <3> QED BY <3>1
  <2>5. U[at] = U[at - 1] \o Pairs(Source) /\ U[at - 1] \in Seq(Pair)
    BY <1>2, <1>4, <2>1
  <2>6. Begins(U[at - 1] \o Pairs(Source), Joined(Reached), Pair)
    <3>1. at \in 0 .. N
      BY <2>1
    <3>2. Begins(U[at], Joined(Reached), Pair)
      BY <1>5, <3>1
    <3> QED BY <2>5, <3>2
  <2> HIDE DEF U, V
  <2>7. Begins(out, Joined(Reached), Pair)
    BY <2>2, <2>3, <2>4, <2>5, <2>6, BeginsThere
  <2>8. out \in Seq(Pair)
    BY <2>2, <2>4, <2>5, ConcatProperties
  <2> QED BY <1>6, <2>7, <2>8, BeginsPrefix
<1>7. CASE pc # "load"
  <2>1. out = U[at - 1]
    BY <1>1, <1>7 DEF OutInv
  <2>2. out \in Seq(Pair) /\ Begins(out, Joined(Reached), Pair)
    BY <1>2, <1>4, <1>5, <2>1
  <2>3. IsPrefix(out, Joined(Reached))
    BY <2>2, BeginsPrefix
  <2> QED BY <1>3, <1>4, <2>1, <2>3
<1> QED BY <1>6, <1>7

\* What reaches nvram_set are the pairs of the sources that the build reads, in
\* order, none lost or invented, if the sources are in the formats the parsers are
\* made for (nvram_set_default).  Without DEBUG those are the built-in values only.
THEOREM LoadedAsWanted == Spec => []OutWanted
<1>1. Init => TypeInv /\ RowsInv /\ FieldInv /\ OutInv
  BY SourceAssumption, StartsTyped, FieldsStart, OutStart DEF Init, RowsInv, Loading
<1>2. TypeInv /\ RowsInv /\ FieldInv /\ OutInv /\ [Next]_vars => (TypeInv /\ RowsInv /\ FieldInv /\ OutInv)'
  BY SourceAssumption, StepKeepsType, StepKeepsRows, StepKeepsFields, StepKeepsOut
<1>3. TypeInv /\ OutInv => OutWanted
  BY SourceAssumption, OutIsWanted
<1> QED BY <1>1, <1>2, <1>3, PTL DEF Spec

\* With DEBUG set, the pairs of every source that is there reach nvram_set
\* (nvram_set_default, nvram_set_default_table, foreach_nvram_from,
\* parse_nvram_from_file).
THEOREM AllLoaded == ASSUME Debug PROVE Spec => []SourcesLoaded
<1>1. OutWanted => SourcesLoaded
  <2>1. Reached = PairsBySource
    BY DEF Reached, PairsBySource, Wanted, Counts
  <2> QED BY <2>1 DEF OutWanted, SourcesLoaded, AllWell, Expected
<1> QED BY <1>1, LoadedAsWanted, PTL
=============================================================================
