--------------------------- MODULE CacheListProofs ---------------------------
(***************************************************************************)
(* Theorems about CacheList, for any number of nodes, keys and values, and *)
(* whatever malloc leaves in a node: the pointers stay a list, and the     *)
(* list is the map of module CacheMap, until the library takes a pointer   *)
(* that nobody wrote for a node's.                                         *)
(***************************************************************************)
EXTENDS CacheList, SequenceTheorems, TLAPS

\* A walk that is not astray stands at the i-th node, or past the last, and has
\* passed no node with the key it looks for.
WalkAt(i) ==
    /\ current = IF i <= Len(order) THEN order[i] ELSE Null
    /\ \A j \in 1 .. i - 1 : key[order[j]] # job.key

WalkOK ==
    /\ job = NoJob => current = Null
    /\ job.op = "clear" => current \in {cache, Wild}
    /\ job.op \in {"get", "str", "int"} => Astray \/ \E i \in 1 .. Len(order) + 1 : WalkAt(i)

ListInv == ListTypeOK /\ ListOK /\ WalkOK

-----------------------------------------------------------------------------

\* The kinds of jobs.
LEMMA JobKinds ==
    ASSUME NEW j \in Jobs \cup {NoJob}
    PROVE  /\ j = NoJob <=> j.op = "idle"
           /\ j.op \in {"idle", "get", "str", "int", "clear"}
           /\ j.op \in {"get", "str", "int"} => j.key \in Key /\ j.flags \in Flags
           /\ j.op = "get" => j.flags # {}
           /\ j.op = "str" => j.val \in Val
           /\ j.op = "int" => j.val \in Num
  <1>1. CASE j \in [op : {"get"}, key : Key, flags : {{1}, {2}, {1, 2}}]
    BY <1>1 DEF NoJob, Flags
  <1>2. CASE j \in [op : {"str"}, key : Key, flags : Words, val : Val]
    BY <1>2, ListAssumption DEF NoJob
  <1>3. CASE j \in [op : {"int"}, key : Key, flags : Words, val : Num]
    BY <1>3, ListAssumption DEF NoJob
  <1>4. CASE j \in [op : {"clear"}]
    BY <1>4 DEF NoJob
  <1>5. CASE j = NoJob
    BY <1>5 DEF NoJob
  <1>6. QED
    BY <1>1, <1>2, <1>3, <1>4, <1>5 DEF Jobs

\* The nodes of the list, and the number of a node.
LEMMA NodesOfList ==
    ASSUME ListTypeOK
    PROVE  /\ Len(order) \in Nat
           /\ order = <<>> <=> Len(order) = 0
           /\ \A i \in 1 .. Len(order) : order[i] \in Node /\ order[i] \in Live
           /\ Live \subseteq Node
           /\ \A n \in Live : \E i \in 1 .. Len(order) : n = order[i]
  BY DEF ListTypeOK, Live

\* A walk that has come to its end stands at the node with the key it looks
\* for, which has a flag, or there is no such node.
LEMMA WalkEnd ==
    ASSUME ListInv, job.op \in {"get", "str", "int"}, AtEnd
    PROVE  \/ /\ current \in Live /\ key[current] = job.key /\ conf[current] # {}
           \/ /\ current = Null /\ \A n \in Live : key[n] # job.key
  <1>1. PICK i \in 1 .. Len(order) + 1 : WalkAt(i)
    BY DEF ListInv, WalkOK, AtEnd
  <1>2. Len(order) \in Nat /\ \A n \in Live : \E j \in 1 .. Len(order) : n = order[j]
    BY NodesOfList DEF ListInv
  <1>3. CASE i <= Len(order)
    <2>1. current = order[i] /\ current \in Node /\ current \in Live /\ i \in 1 .. Len(order)
      BY <1>1, <1>2, <1>3, NodesOfList DEF WalkAt, ListInv
    <2>2. current # Null
      BY <2>1, ListAssumption
    <2>3. key[current] = job.key
      BY <2>2 DEF AtEnd, Sought
    <2>4. conf[current] # {}
      BY <2>1 DEF ListInv, ListOK
    <2>5. QED
      BY <2>1, <2>3, <2>4
  <1>4. CASE ~(i <= Len(order))
    <2>1. i - 1 = Len(order) /\ current = Null
      BY <1>1, <1>2, <1>4 DEF WalkAt
    <2>2. \A n \in Live : key[n] # job.key
      BY <1>1, <1>2, <2>1 DEF WalkAt
    <2>3. QED
      BY <2>1, <2>2
  <1>5. QED
    BY <1>3, <1>4

LEMMA TargetOfInsert ==
    ASSUME ListInv, job.op \in {"str", "int"}, AtEnd
    PROVE  Target = current
  <1>1. Mask = {1, 2}
    BY DEF Mask
  <1>2. CASE current = Null
    BY <1>2 DEF Target
  <1>3. CASE current # Null
    <2>1. current \in Live /\ conf[current] # {}
      BY <1>3, WalkEnd
    <2>2. conf[current] \in Flags
      BY <2>1, NodesOfList DEF ListInv, ListTypeOK
    <2>3. conf[current] \cap {1, 2} # {}
      BY <2>1, <2>2 DEF Flags
    <2>4. QED
      BY <1>1, <1>3, <2>3 DEF Target
  <1>4. QED
    BY <1>2, <1>3

-----------------------------------------------------------------------------
(* The steps that leave the list alone. *)

\* The list and the memory around it are as they were.
ListKept == UNCHANGED <<links, key, conf, order>>

LEMMA KeptList ==
    ASSUME ListInv, ListKept
    PROVE  ListOK' /\ Live' = Live
  BY DEF ListKept, ListInv, ListOK, Live, links

LEMMA BeginInv ==
    ASSUME ListInv, Begin
    PROVE  ListInv'
  <1>1. job' \in Jobs /\ current' = cache /\ ListKept
    BY DEF Begin, ListKept, fields
  <1>2. ListTypeOK'
    BY <1>1 DEF Begin, ListInv, ListTypeOK, links, fields
  <1>3. job' # NoJob
    BY <1>1, JobKinds DEF Jobs, NoJob
  <1>4. WalkAt(1)'
    <2>1. cache = IF 1 <= Len(order) THEN order[1] ELSE Null
      BY NodesOfList DEF ListInv, ListOK
    <2>2. QED
      BY <1>1, <2>1 DEF WalkAt, ListKept, links
  <1>5. 1 \in 1 .. Len(order') + 1
    BY <1>1, NodesOfList DEF ListKept, ListInv
  <1>6. WalkOK'
    BY <1>1, <1>3, <1>4, <1>5 DEF WalkOK, ListKept, links
  <1>7. QED
    BY <1>1, <1>2, <1>6, KeptList DEF ListInv

LEMMA SkipInv ==
    ASSUME ListInv, Skip
    PROVE  ListInv'
  <1>1. job' = job /\ current' = forward[current] /\ ListKept /\ current \in Node /\ job # NoJob
    BY DEF Skip, ListKept, fields
  <1>2. job \in Jobs \cup {NoJob} /\ ~Astray
    BY <1>1, ListAssumption DEF ListInv, ListTypeOK, Astray
  <1>3. job.op \in {"get", "str", "int"}
    <2>1. job.op \in {"get", "str", "int", "clear"}
      BY <1>1, <1>2, JobKinds
    <2>2. job.op # "clear"
      BY <1>2 DEF Skip, Sought, ListInv, WalkOK, Astray
    <2>3. QED
      BY <2>1, <2>2
  <1>4. PICK i \in 1 .. Len(order) + 1 : WalkAt(i)
    BY <1>2, <1>3 DEF ListInv, WalkOK
  <1>5. i \in 1 .. Len(order) /\ current = order[i] /\ Len(order) \in Nat
    BY <1>1, <1>4, NodesOfList, ListAssumption DEF WalkAt, ListInv
  <1>6. key[order[i]] # job.key
    BY <1>3, <1>5 DEF Skip, Sought
  <1>7. Astray' \/ WalkAt(i + 1)'
    <2>1. Astray' \/ current' = IF i + 1 <= Len(order) THEN order[i + 1] ELSE Null
      BY <1>1, <1>5 DEF ListInv, ListOK, Unwritten, Astray
    <2>2. \A j \in 1 .. i : key[order[j]] # job.key
      BY <1>4, <1>5, <1>6 DEF WalkAt
    <2>3. QED
      BY <1>1, <1>5, <2>1, <2>2 DEF WalkAt, ListKept
  <1>8. WalkOK'
    <2>1. i + 1 \in 1 .. Len(order') + 1
      BY <1>1, <1>5 DEF ListKept
    <2>2. QED
      BY <1>1, <1>3, <1>7, <2>1 DEF WalkOK
  <1>9. ListTypeOK'
    BY <1>1, <1>2 DEF Skip, ListInv, ListTypeOK, links, fields
  <1>10. QED
    BY <1>1, <1>8, <1>9, KeptList DEF ListInv

\* A job that is done leaves no walk behind.
LEMMA DoneWalk ==
    ASSUME job' = NoJob, current' = Null
    PROVE  WalkOK'
  BY DEF WalkOK, NoJob

LEMMA EntryType ==
    ASSUME ListTypeOK, NEW n \in Node
    PROVE  EntryOf(n) \in Entry
  BY DEF ListTypeOK, EntryOf, Entry

LEMMA GetInv ==
    ASSUME ListInv, Get
    PROVE  ListInv'
  <1>1. job' = NoJob /\ current' = Null /\ ListKept /\ UNCHANGED <<val, vali>>
    BY DEF Get, ListKept, fields
  <1>2. Target # Null => Target \in Node
    BY DEF Get, Target, AtEnd, Astray, ListInv, ListTypeOK
  <1>3. found' \in Entry
    <2>1. NoEntry \in Entry
      BY DEF NoEntry, Entry, Flags
    <2>2. QED
      BY <1>2, <2>1, EntryType DEF Get, ListInv
  <1>4. ListTypeOK'
    BY <1>1, <1>3 DEF ListInv, ListTypeOK, ListKept, links
  <1>5. QED
    BY <1>1, <1>4, DoneWalk, KeptList DEF ListInv

LEMMA ClearDoneInv ==
    ASSUME ListInv, ClearDone
    PROVE  ListInv'
  <1>1. job' = NoJob /\ current' = Null /\ ListKept /\ UNCHANGED <<val, vali, found>>
    BY DEF ClearDone, ListKept, fields
  <1>2. ListTypeOK'
    BY <1>1 DEF ListInv, ListTypeOK, ListKept, links
  <1>3. QED
    BY <1>1, <1>2, DoneWalk, KeptList DEF ListInv

LEMMA TrampleInv ==
    ASSUME ListInv, Trample
    PROVE  ListInv'
  <1>1. job' = job /\ current' = Wild /\ ListKept /\ UNCHANGED <<val, vali, found>>
        /\ job.op = "clear"
    BY DEF Trample, Round, ListKept, fields
  <1>2. ListTypeOK'
    BY <1>1 DEF ListInv, ListTypeOK, ListKept, links
  <1>3. WalkOK'
    BY <1>1 DEF WalkOK, NoJob
  <1>4. QED
    BY <1>1, <1>2, <1>3, KeptList DEF ListInv

-----------------------------------------------------------------------------
(* Insertions. *)

\* insert_cached_str and insert_cached_int write fields of the right type.
LEMMA FillType ==
    ASSUME ListTypeOK, Inserting, NEW n \in Node, NEW f \in Flags, Fill(n, f)
    PROVE  /\ conf' \in [Node -> Flags] /\ conf'[n] # {}
           /\ val' \in [Node -> Val \cup {Junk}]
           /\ vali' \in [Node -> Num \cup {Junk}]
           /\ job' = NoJob /\ current' = Null /\ found' = found
           /\ \A m \in Node : m # n => conf'[m] = conf[m]
  <1>1. job \in Jobs \cup {NoJob}
    BY DEF ListTypeOK
  <1>2. /\ job.flags \in Flags /\ job.key \in Key
        /\ job.op = "str" => job.val \in Val
        /\ job.op = "int" => job.val \in Num
    BY <1>1, JobKinds DEF Inserting
  <1>3. f \cup job.flags \cup {IF job.op = "str" THEN 1 ELSE 2} \in Flags
    BY <1>2 DEF ListTypeOK, Flags
  <1>4. QED
    BY <1>2, <1>3 DEF Fill, Inserting, ListTypeOK

LEMMA ReuseInv ==
    ASSUME ListInv, Reuse
    PROVE  ListInv'
  <1>1. Target = current /\ current \in Node /\ conf[current] \in Flags
    <2>1. Target = current
      BY TargetOfInsert DEF Reuse, Inserting
    <2>2. QED
      BY <2>1 DEF Reuse, Inserting, AtEnd, Astray, ListInv, ListTypeOK
  <1>2. /\ conf' \in [Node -> Flags] /\ conf'[current] # {}
        /\ val' \in [Node -> Val \cup {Junk}]
        /\ vali' \in [Node -> Num \cup {Junk}]
        /\ job' = NoJob /\ current' = Null /\ found' = found
        /\ \A m \in Node : m # current => conf'[m] = conf[m]
    BY <1>1, FillType DEF Reuse, ListInv
  <1>3. UNCHANGED <<links, key, order>>
    BY DEF Reuse
  <1>4. ListTypeOK'
    BY <1>2, <1>3, ListAssumption DEF ListInv, ListTypeOK, links
  <1>5. ListOK'
    <2>1. \A i \in 1 .. Len(order) : conf'[order[i]] # {}
      BY <1>2, NodesOfList DEF ListInv, ListOK
    <2>2. QED
      BY <1>3, <2>1 DEF ListInv, ListOK, links
  <1>6. QED
    BY <1>2, <1>4, <1>5, DoneWalk DEF ListInv

\* A chunk malloc returns is not in the list, and its node gets flags of its own.
LEMMA MallocFresh ==
    ASSUME ListInv, Inserting, NEW n \in Node, Malloc(n)
    PROVE  /\ n \notin Live
           /\ order' = Append(order, n) /\ key' = [key EXCEPT ![n] = job.key]
           /\ conf' \in [Node -> Flags] /\ conf'[n] # {}
           /\ val' \in [Node -> Val \cup {Junk}]
           /\ vali' \in [Node -> Num \cup {Junk}]
           /\ job' = NoJob /\ current' = Null /\ found' = found
           /\ \A m \in Node : m # n => conf'[m] = conf[m]
  <1>1. PICK f \in Flags : Fill(n, f)
    BY DEF Malloc
  <1>2. QED
    BY <1>1, FillType DEF Malloc, Available, ListInv

LEMMA FirstInv ==
    ASSUME ListInv, First
    PROVE  ListInv'
  <1>1. PICK n \in Node, f, b \in Unwritten :
          /\ Malloc(n) /\ cache' = n /\ cache_end' = n
          /\ forward' = [forward EXCEPT ![n] = f] /\ back' = [back EXCEPT ![n] = b]
    BY DEF First
  <1>2. /\ conf' \in [Node -> Flags] /\ conf'[n] # {}
        /\ val' \in [Node -> Val \cup {Junk}]
        /\ vali' \in [Node -> Num \cup {Junk}]
        /\ job' = NoJob /\ current' = Null /\ found' = found
        /\ order' = Append(order, n) /\ key' = [key EXCEPT ![n] = job.key]
    BY <1>1, MallocFresh DEF First
  <1>3. forward' \in [Node -> Node \cup {Null, Wild}] /\ back' \in [Node -> Node \cup {Null, Wild}]
        /\ forward'[n] \in Unwritten /\ back'[n] \in Unwritten
    BY <1>1 DEF ListInv, ListTypeOK, Unwritten
  <1>4. job.key \in Key
    BY JobKinds DEF First, Inserting, ListInv, ListTypeOK
  <1>5. order = <<>>
    <2>1. Len(order) # 0 => order[1] \in Node /\ cache = order[1]
      BY NodesOfList DEF ListInv, ListOK
    <2>2. QED
      BY <2>1, NodesOfList, ListAssumption DEF First, ListInv
  <1>6. order' = <<n>>
    BY <1>2, <1>5
  <1>7. ListTypeOK'
    BY <1>1, <1>2, <1>3, <1>4, <1>6, ListAssumption DEF ListInv, ListTypeOK
  <1>8. ListOK'
    BY <1>1, <1>2, <1>3, <1>6 DEF ListOK
  <1>9. QED
    BY <1>2, <1>7, <1>8, DoneWalk DEF ListInv

LEMMA ExtendInv ==
    ASSUME ListInv, Extend
    PROVE  ListInv'
  <1>1. PICK n \in Node, f \in Unwritten : Malloc(n) /\ LinkLast(n, f)
    BY DEF Extend
  <1>2. /\ n \notin Live
        /\ conf' \in [Node -> Flags] /\ conf'[n] # {}
        /\ val' \in [Node -> Val \cup {Junk}]
        /\ vali' \in [Node -> Num \cup {Junk}]
        /\ job' = NoJob /\ current' = Null /\ found' = found
        /\ \A m \in Node : m # n => conf'[m] = conf[m]
    BY <1>1, MallocFresh DEF Extend
  <1>3. cache' = cache
    BY DEF Extend
  <1>4. job.key \in Key
    BY JobKinds DEF Extend, Inserting, ListInv, ListTypeOK
  <1> DEFINE L == Len(order)
  <1>5. L \in Nat \ {0} /\ cache = order[1] /\ cache_end = order[L]
    BY NodesOfList DEF Extend, ListInv, ListOK
  <1>6. order' = Append(order, n) /\ key' = [key EXCEPT ![n] = job.key]
    BY <1>1 DEF Malloc
  <1>7. /\ Len(order') = L + 1 /\ order'[L + 1] = n
        /\ \A i \in 1 .. L : order'[i] = order[i] /\ order[i] \in Node /\ order[i] # n
    BY <1>2, <1>6, NodesOfList DEF ListInv, ListTypeOK
  <1>8. \A m \in Live : key[m] # job.key
    <2>1. current = Null
      BY TargetOfInsert DEF Extend, Inserting, ListInv
    <2>2. current \notin Live
      BY <2>1, NodesOfList, ListAssumption DEF ListInv
    <2>3. QED
      BY <2>2, WalkEnd DEF Extend, Inserting
  <1>9. /\ forward' = [forward EXCEPT ![n] = f, ![order[L]] = n]
        /\ back' = [back EXCEPT ![n] = order[L]]
        /\ cache_end' = n
    BY <1>1, <1>5 DEF LinkLast
  <1>10. order[L] \in Node /\ order[L] # n
    BY <1>5, <1>7
  <1>11. ListTypeOK'
    <2>1. order' \in Seq(Node)
      BY <1>6 DEF ListInv, ListTypeOK
    <2>2. /\ forward' \in [Node -> Node \cup {Null, Wild}]
          /\ back' \in [Node -> Node \cup {Null, Wild}]
      BY <1>9, <1>10 DEF ListInv, ListTypeOK, Unwritten
    <2>3. QED
      BY <1>2, <1>3, <1>4, <1>6, <1>9, <2>1, <2>2, ListAssumption DEF ListInv, ListTypeOK
  <1>12. ListOK'
    <2>1. \A i, j \in 1 .. L : order[i] = order[j] => i = j
      BY DEF ListInv, ListOK
    <2>2. cache' = order'[1] /\ cache_end' = order'[L + 1] /\ order' # <<>>
      BY <1>3, <1>5, <1>7, <1>9
    <2>3. \A i \in 1 .. L + 1 :
            IF i = L + 1 THEN forward'[order'[i]] \in Unwritten
                         ELSE forward'[order'[i]] = order'[i + 1]
      <3>1. ASSUME NEW i \in 1 .. L - 1 PROVE forward'[order'[i]] = order'[i + 1]
        <4>1. order[i] # order[L]
          BY <1>5, <2>1
        <4>2. forward[order[i]] = order[i + 1]
          BY <1>5 DEF ListInv, ListOK
        <4>3. QED
          BY <1>5, <1>7, <1>9, <4>1, <4>2 DEF ListInv, ListTypeOK
      <3>2. forward'[order'[L]] = order'[L + 1]
        BY <1>5, <1>7, <1>9, <1>10 DEF ListInv, ListTypeOK
      <3>3. forward'[order'[L + 1]] \in Unwritten
        BY <1>7, <1>9, <1>10 DEF ListInv, ListTypeOK
      <3>4. QED
        BY <1>5, <3>1, <3>2, <3>3
    <2>4. \A i \in 1 .. L + 1 :
            IF i = 1 THEN back'[order'[i]] \in Unwritten ELSE back'[order'[i]] = order'[i - 1]
      <3>1. \A i \in 1 .. L : back'[order'[i]] = back[order[i]]
        BY <1>7, <1>9 DEF ListInv, ListTypeOK
      <3>2. \A i \in 1 .. L :
              IF i = 1 THEN back[order[i]] \in Unwritten ELSE back[order[i]] = order[i - 1]
        BY DEF ListInv, ListOK
      <3>3. back'[order'[L + 1]] = order'[L]
        BY <1>5, <1>7, <1>9 DEF ListInv, ListTypeOK
      <3>4. ASSUME NEW i \in 1 .. L
            PROVE IF i = 1 THEN back'[order'[i]] \in Unwritten
                           ELSE back'[order'[i]] = order'[i - 1]
        <4>1. i # 1 => order'[i - 1] = order[i - 1]
          BY <1>5, <1>7
        <4>2. QED
          BY <3>1, <3>2, <4>1
      <3>5. L + 1 # 1 /\ (L + 1) - 1 = L
        BY <1>5
      <3>6. \A i \in 1 .. L + 1 : i \in 1 .. L \/ i = L + 1
        BY <1>5
      <3>7. QED
        BY <3>3, <3>4, <3>5, <3>6
    <2>5. \A i \in 1 .. L + 1 : conf'[order'[i]] # {}
      BY <1>2, <1>5, <1>7 DEF ListInv, ListOK
    <2>6. \A i, j \in 1 .. L + 1 : key'[order'[i]] = key'[order'[j]] => i = j
      <3>1. \A i \in 1 .. L : key'[order'[i]] = key[order[i]] /\ key[order[i]] # job.key
        BY <1>6, <1>7, <1>8, NodesOfList DEF ListInv, ListTypeOK
      <3>2. key'[order'[L + 1]] = job.key
        BY <1>6, <1>7 DEF ListInv, ListTypeOK
      <3>3. \A i, j \in 1 .. L : key[order[i]] = key[order[j]] => i = j
        BY DEF ListInv, ListOK
      <3>4. \A i \in 1 .. L + 1 : i \in 1 .. L \/ i = L + 1
        BY <1>5
      <3>5. QED
        BY <3>1, <3>2, <3>3, <3>4
    <2>7. QED
      BY <1>7, <2>2, <2>3, <2>4, <2>5, <2>6 DEF ListOK
  <1>13. QED
    BY <1>2, <1>11, <1>12, DoneWalk DEF ListInv

-----------------------------------------------------------------------------
(* Deletion. *)

\* The node a round of nvram_clear deletes is the first.
LEMMA DeletedNode ==
    ASSUME ListInv, Delete
    PROVE  Len(order) \in Nat \ {0} /\ order[1] = cache /\ Target = cache /\ cache \in Node
  <1>1. Len(order) \in Nat \ {0} /\ order[1] = cache /\ cache \in Node
    BY NodesOfList DEF Delete, Round, ListInv, ListOK
  <1>2. current = cache /\ current # Null /\ Mask = {1, 2}
    BY DEF Delete, Round, AtEnd, Astray, Mask, ListInv, WalkOK
  <1>3. conf[cache] # {} /\ conf[cache] \in Flags
    BY <1>1 DEF ListInv, ListOK, ListTypeOK
  <1>4. QED
    BY <1>1, <1>2, <1>3 DEF Target, Flags

LEMMA DeletedOrder ==
    ASSUME ListInv, Len(order) \in Nat \ {0}, order' = SubSeq(order, 2, Len(order))
    PROVE  /\ order' \in Seq(Node) /\ Len(order') = Len(order) - 1
           /\ \A i \in 1 .. Len(order) - 1 : order'[i] = order[i + 1]
  <1> DEFINE L == Len(order)
  <1>1. \A i \in 2 .. L : order[i] \in Node
    BY NodesOfList DEF ListInv
  <1>2. order \in Seq(Node) /\ 2 \in Int /\ L \in Int
    BY DEF ListInv, ListTypeOK
  <1>3. /\ SubSeq(order, 2, L) \in Seq(Node)
        /\ Len(SubSeq(order, 2, L)) = IF 2 <= L THEN L - 2 + 1 ELSE 0
        /\ \A i \in 1 .. L - 2 + 1 : SubSeq(order, 2, L)[i] = order[2 + i - 1]
    BY <1>1, <1>2, SubSeqProperties
  <1>4. L \in Nat /\ L # 0
    OBVIOUS
  <1>5. \A i \in 1 .. L - 1 : i \in 1 .. L - 2 + 1 /\ 2 + i - 1 = i + 1
    OBVIOUS
  <1>6. order' = SubSeq(order, 2, L)
    OBVIOUS
  <1>7. L >= 2 \/ L = 1
    <2>1. \A n \in Nat : n # 0 => n >= 2 \/ n = 1
      OBVIOUS
    <2>2. QED
      BY ONLY <1>4, <2>1
  <1>8. /\ order' \in Seq(Node) /\ Len(order') = L - 1
        /\ \A i \in 1 .. L - 1 : order'[i] = order[i + 1]
    BY ONLY <1>3, <1>4, <1>5, <1>6, <1>7
  <1>9. QED
    BY <1>8

LEMMA DeleteInv ==
    ASSUME ListInv, Delete
    PROVE  ListInv'
  <1> DEFINE L == Len(order)
             t == order[1]
             f == forward[t]
  <1>1. L \in Nat \ {0} /\ t = cache /\ Target = t /\ t \in Node /\ t # Null
    BY DeletedNode, ListAssumption
  <1>2. /\ Unlink(t) /\ forward[t] # Wild /\ back[t] # Wild
        /\ key' = [key EXCEPT ![t] = AnyKey] /\ conf' = [conf EXCEPT ![t] = {}]
        /\ val' = [val EXCEPT ![t] = Junk] /\ vali' = [vali EXCEPT ![t] = Junk]
        /\ order' = SubSeq(order, 2, Len(order))
        /\ current' = cache'
        /\ UNCHANGED <<job, found>>
    BY <1>1 DEF Delete
  <1>3. /\ f = IF L = 1 THEN Null ELSE order[2]
        /\ back[t] = Null
    <2>1. \A i \in 1 .. L :
            /\ IF i = L THEN forward[order[i]] \in Unwritten
                        ELSE forward[order[i]] = order[i + 1]
            /\ IF i = 1 THEN back[order[i]] \in Unwritten ELSE back[order[i]] = order[i - 1]
      BY DEF ListInv, ListOK
    <2>2. 1 \in 1 .. L
      BY <1>1
    <2>3. /\ IF 1 = L THEN f \in Unwritten ELSE f = order[1 + 1]
          /\ back[t] \in Unwritten
      BY <2>1, <2>2
    <2>4. QED
      BY <1>2, <2>3 DEF Unwritten
  <1>4. /\ cache' = f
        /\ cache_end' = IF t = cache_end THEN Null ELSE cache_end
        /\ forward' = [n \in Node |-> IF n = t THEN Null ELSE forward[n]]
        /\ back' = [n \in Node |-> IF n = t THEN Null ELSE IF n = f THEN Null ELSE back[n]]
    BY <1>1, <1>2, <1>3, ListAssumption DEF Unlink
  <1>5. \A i \in 1 .. L : order[i] \in Node
    BY NodesOfList DEF ListInv
  <1>6. \A i, j \in 1 .. L : order[i] = order[j] => i = j
    BY DEF ListInv, ListOK
  <1>7. /\ order' \in Seq(Node) /\ Len(order') = L - 1
        /\ \A i \in 1 .. L - 1 : order'[i] = order[i + 1]
    <2>1. order' = SubSeq(order, 2, L)
      BY <1>2
    <2>2. QED
      BY <1>1, <2>1, DeletedOrder
  <1>8. f \in Node \cup {Null}
    BY <1>1, <1>2 DEF ListInv, ListTypeOK
  <1>9. ListTypeOK'
    <2>1. /\ forward' \in [Node -> Node \cup {Null, Wild}]
          /\ back' \in [Node -> Node \cup {Null, Wild}]
      BY <1>4, <1>8 DEF ListInv, ListTypeOK
    <2>2. /\ val' \in [Node -> Val \cup {Junk}] /\ vali' \in [Node -> Num \cup {Junk}]
      BY <1>2 DEF ListInv, ListTypeOK
    <2>3. cache' \in Node \cup {Null} /\ cache_end' \in Node \cup {Null}
      BY <1>4, <1>8 DEF ListInv, ListTypeOK
    <2>4. key' \in [Node -> Key] /\ conf' \in [Node -> Flags]
      <3>1. \E k \in Key : TRUE
        BY ListAssumption
      <3>2. AnyKey \in Key /\ {} \in Flags
        BY <3>1 DEF AnyKey, Flags
      <3>3. QED
        BY <1>2, <3>2 DEF ListInv, ListTypeOK
    <2>5. job' \in Jobs \cup {NoJob} /\ current' \in Node \cup {Null, Wild} /\ found' \in Entry
      BY <1>2, <1>4, <1>8 DEF ListInv, ListTypeOK
    <2>6. QED
      BY <1>7, <2>1, <2>2, <2>3, <2>4, <2>5 DEF ListTypeOK
  <1>10. ListOK'
    <2>1. cache' = IF order' = <<>> THEN Null ELSE order'[1]
      BY <1>1, <1>3, <1>4, <1>7
    <2>2. order' # <<>> => cache_end' = order'[Len(order')]
      <3>1. SUFFICES ASSUME L # 1 PROVE cache_end' = order'[L - 1]
        BY <1>1, <1>7
      <3>2. cache_end = order[L] /\ order[L] # t
        <4>1. 1 \in 1 .. L /\ L \in 1 .. L /\ order # <<>>
          BY <1>1, NodesOfList DEF ListInv
        <4>2. cache_end = order[L]
          BY <4>1 DEF ListInv, ListOK
        <4>3. QED
          BY <1>6, <3>1, <4>1, <4>2
      <3>3. QED
        BY <1>1, <1>4, <1>7, <3>1, <3>2
    <2>3. \A i \in 1 .. L - 1 :
            IF i = L - 1 THEN forward'[order'[i]] \in Unwritten
                         ELSE forward'[order'[i]] = order'[i + 1]
      <3>1. \A i \in 1 .. L : IF i = L THEN forward[order[i]] \in Unwritten
                                      ELSE forward[order[i]] = order[i + 1]
        BY DEF ListInv, ListOK
      <3>2. \A i \in 1 .. L - 1 : forward'[order'[i]] = forward[order[i + 1]]
        <4>1. \A i \in 1 .. L - 1 : order[i + 1] \in Node /\ order[i + 1] # t
          BY <1>1, <1>5, <1>6
        <4>2. QED
          BY <1>4, <1>7, <4>1
      <3>3. \A i \in 1 .. L - 1 : i + 1 \in 1 .. L /\ (i + 1 = L <=> i = L - 1)
        BY <1>1
      <3>4. \A i \in 1 .. L - 1 : i # L - 1 => order'[i + 1] = order[(i + 1) + 1]
        BY <1>1, <1>7
      <3>5. QED
        BY <3>1, <3>2, <3>3, <3>4
    <2>4. \A i \in 1 .. L - 1 :
            IF i = 1 THEN back'[order'[i]] \in Unwritten ELSE back'[order'[i]] = order'[i - 1]
      <3>1. \A i \in 1 .. L : i # 1 => back[order[i]] = order[i - 1]
        BY DEF ListInv, ListOK
      <3>2. SUFFICES ASSUME NEW i \in 1 .. L - 1
                     PROVE  IF i = 1 THEN back'[order'[i]] \in Unwritten
                                     ELSE back'[order'[i]] = order'[i - 1]
        OBVIOUS
      <3>3. L # 1 /\ f = order[2] /\ f \in Node /\ f # Null
        BY <1>1, <1>3, <1>5, <3>2, ListAssumption
      <3>4. order'[i] = order[i + 1] /\ order[i + 1] \in Node /\ order[i + 1] # t
        BY <1>1, <1>5, <1>6, <1>7
      <3>5. CASE i = 1
        BY <1>4, <3>3, <3>4, <3>5 DEF Unwritten
      <3>6. CASE i # 1
        <4>1. order[i + 1] # f
          BY <1>1, <1>6, <3>3, <3>6
        <4>2. back'[order'[i]] = back[order[i + 1]]
          BY <1>4, <3>4, <4>1
        <4>3. back[order[i + 1]] = order[i]
          BY <1>1, <3>1, <3>6
        <4>4. order'[i - 1] = order[i]
          BY <1>1, <1>7, <3>6
        <4>5. QED
          BY <3>6, <4>2, <4>3, <4>4
      <3>7. QED
        BY <3>5, <3>6
    <2>5. \A i \in 1 .. L - 1 : order[i + 1] \in Node /\ order[i + 1] # t
      BY <1>1, <1>5, <1>6
    <2>6. \A i \in 1 .. L - 1 : conf'[order'[i]] # {}
      <3>1. \A i \in 1 .. L : conf[order[i]] # {}
        BY DEF ListInv, ListOK
      <3>2. \A i \in 1 .. L - 1 : i + 1 \in 1 .. L
        BY <1>1
      <3>3. \A i \in 1 .. L - 1 : conf'[order'[i]] = conf[order[i + 1]]
        BY <1>2, <1>7, <2>5 DEF ListInv, ListTypeOK
      <3>4. QED
        BY <3>1, <3>2, <3>3
    <2>7. \A i, j \in 1 .. L - 1 : key'[order'[i]] = key'[order'[j]] => i = j
      <3>1. \A i, j \in 1 .. L : key[order[i]] = key[order[j]] => i = j
        BY DEF ListInv, ListOK
      <3>2. SUFFICES ASSUME NEW i \in 1 .. L - 1, NEW j \in 1 .. L - 1,
                            key'[order'[i]] = key'[order'[j]]
                     PROVE  i = j
        OBVIOUS
      <3>3. key[order[i + 1]] = key[order[j + 1]]
        BY <1>2, <1>7, <2>5, <3>2 DEF ListInv, ListTypeOK
      <3>4. i + 1 = j + 1
        BY <1>1, <3>1, <3>3
      <3>5. QED
        BY <1>1, <3>4
    <2>8. QED
      BY <1>7, <2>1, <2>2, <2>3, <2>4, <2>6, <2>7 DEF ListOK
  <1>11. WalkOK'
    <2>1. job'.op = "clear" /\ current' = cache'
      BY <1>2 DEF Delete, Round
    <2>2. QED
      BY <2>1 DEF WalkOK, NoJob
  <1>12. QED
    BY <1>9, <1>10, <1>11 DEF ListInv

-----------------------------------------------------------------------------

LEMMA InitInv == Init => ListInv
  <1> SUFFICES ASSUME Init PROVE ListInv
    OBVIOUS
  <1>1. ListTypeOK
    <2>1. \E k \in Key : TRUE
      BY ListAssumption
    <2>2. AnyKey \in Key
      BY <2>1 DEF AnyKey
    <2>3. NoEntry \in Entry /\ {} \in Flags
      BY DEF NoEntry, Entry, Flags
    <2>4. job \in Jobs \cup {NoJob} /\ order \in Seq(Node)
      BY DEF Init
    <2>5. QED
      BY <2>2, <2>3, <2>4 DEF Init, ListTypeOK
  <1>2. ListOK
    BY DEF Init, ListOK
  <1>3. WalkOK
    BY DEF Init, WalkOK, NoJob
  <1>4. QED
    BY <1>1, <1>2, <1>3 DEF ListInv

LEMMA StepInv ==
    ASSUME ListInv, [Next]_vars
    PROVE  ListInv'
  <1>1. CASE Begin BY <1>1, BeginInv
  <1>2. CASE Skip BY <1>2, SkipInv
  <1>3. CASE Get BY <1>3, GetInv
  <1>4. CASE Reuse BY <1>4, ReuseInv
  <1>5. CASE First BY <1>5, FirstInv
  <1>6. CASE Extend BY <1>6, ExtendInv
  <1>7. CASE Delete BY <1>7, DeleteInv
  <1>8. CASE ClearDone BY <1>8, ClearDoneInv
  <1>9. CASE UNCHANGED vars
    BY <1>9 DEF vars, links, fields, ListInv, ListTypeOK, ListOK, WalkOK, WalkAt, Astray
  <1>10. CASE Trample BY <1>10, TrampleInv
  <1>11. QED
    BY <1>1, <1>2, <1>3, <1>4, <1>5, <1>6, <1>7, <1>8, <1>9, <1>10 DEF Next, Step

\* Whatever malloc returns, new memory or freed chunks, and whatever is cached and
\* cleared, the pointers of the cache are a list until the library takes a pointer
\* that nobody wrote for a node's: no lost node, no link to freed memory, no key
\* twice (create_cache, delete_cached).
THEOREM ListSafe == Spec => []ListOK
  <1>1. ListInv => ListOK
    BY DEF ListInv
  <1>2. QED
    BY <1>1, InitInv, StepInv, PTL DEF Spec

\* Every link leads to a node, is NULL, or is as malloc left it, and every node
\* holds a key, flags and values of its own or what malloc left there
\* (create_cache, get_cached, nvram_clear).
THEOREM ListTyped == Spec => []ListTypeOK
  <1>1. ListInv => ListTypeOK
    BY DEF ListInv
  <1>2. QED
    BY <1>1, InitInv, StepInv, PTL DEF Spec

-----------------------------------------------------------------------------
(* The list is the map. *)

\* A chunk that is no node holds no value.
FreshEntries == \A n \in Node \ Live : val[n] = Junk /\ vali[n] = Junk

\* An entry of a node changes only in the insertion of that node.
LEMMA FillEntry ==
    ASSUME ListTypeOK, Inserting, NEW n \in Node, NEW f \in Flags, Fill(n, f)
    PROVE  /\ EntryOf(n)' = IF job.op = "str"
                            THEN InsertStr([EntryOf(n) EXCEPT !.conf = f], job.val, job.flags)
                            ELSE InsertInt([EntryOf(n) EXCEPT !.conf = f], job.val, job.flags)
           /\ \A m \in Node : m # n => EntryOf(m)' = EntryOf(m)
  BY DEF Fill, Inserting, EntryOf, InsertStr, InsertInt, ListTypeOK

\* A new node is the last of the list.
LEMMA AppendLive ==
    ASSUME ListTypeOK, NEW n \in Node, order' = Append(order, n)
    PROVE  Live' = Live \cup {n}
  <1>1. /\ Len(order) \in Nat /\ Len(order') = Len(order) + 1
        /\ order'[Len(order) + 1] = n
        /\ \A i \in 1 .. Len(order) : order'[i] = order[i]
    BY DEF ListTypeOK
  <1>2. QED
    BY <1>1 DEF Live

\* A deletion takes the first node out of the list.
LEMMA DeletedLive ==
    ASSUME ListInv, Delete
    PROVE  Live' = Live \ {order[1]}
  <1> DEFINE L == Len(order)
  <1>1. L \in Nat \ {0} /\ Target = order[1] /\ order[1] \in Node
    BY DeletedNode
  <1>2. /\ Len(order') = L - 1
        /\ \A i \in 1 .. L - 1 : order'[i] = order[i + 1]
    <2>1. order' = SubSeq(order, 2, L)
      BY <1>1, ListAssumption DEF Delete
    <2>2. QED
      BY <1>1, <2>1, DeletedOrder
  <1>3. \A i \in 2 .. L : order[i] # order[1]
    <2>1. \A i, j \in 1 .. L : order[i] = order[j] => i = j
      BY DEF ListInv, ListOK
    <2>2. QED
      BY <1>1, <2>1
  <1>4. \A i \in 2 .. L : i - 1 \in 1 .. L - 1 /\ order'[i - 1] = order[i]
    BY <1>1, <1>2
  <1>5. Live' = {order[i] : i \in 2 .. L}
    BY <1>1, <1>2, <1>4 DEF Live
  <1>6. Live = {order[i] : i \in 2 .. L} \cup {order[1]}
    BY <1>1 DEF Live
  <1>7. QED
    BY <1>3, <1>5, <1>6

LEMMA FreshEntriesStep ==
    ASSUME ListInv, FreshEntries, [Next]_vars
    PROVE  FreshEntries'
  <1>1. CASE UNCHANGED <<fields, order>>
    BY <1>1 DEF FreshEntries, Live, fields
  <1>2. CASE Reuse
    <2>1. Target \in Live /\ Live' = Live
      BY <1>2, TargetOfInsert, WalkEnd DEF Reuse, Inserting, Live
    <2>2. \A m \in Node : m # Target => val'[m] = val[m] /\ vali'[m] = vali[m]
      BY <1>2 DEF Reuse, Fill, ListInv, ListTypeOK
    <2>3. QED
      BY <2>1, <2>2 DEF FreshEntries
  <1>3. CASE First \/ Extend
    <2>1. PICK n \in Node : Malloc(n)
      BY <1>3 DEF First, Extend
    <2>2. \A m \in Node : m # n => val'[m] = val[m] /\ vali'[m] = vali[m]
      BY <2>1 DEF Malloc, Fill, ListInv, ListTypeOK
    <2>3. Live' = Live \cup {n}
      BY <2>1, AppendLive DEF Malloc, ListInv
    <2>4. QED
      BY <2>2, <2>3 DEF FreshEntries
  <1>4. CASE Delete
    <2>1. Target = order[1] /\ Target \in Node /\ Target # Null
      BY <1>4, DeletedNode, ListAssumption
    <2>2. Live' = Live \ {Target}
      BY <1>4, <2>1, DeletedLive
    <2>3. val' = [val EXCEPT ![Target] = Junk] /\ vali' = [vali EXCEPT ![Target] = Junk]
      BY <1>4, <2>1 DEF Delete
    <2>4. QED
      BY <2>1, <2>2, <2>3 DEF FreshEntries, ListInv, ListTypeOK
  <1>5. QED
    BY <1>1, <1>2, <1>3, <1>4
    DEF Next, Step, Begin, Skip, Get, Trample, ClearDone, vars

\* MapBar looks a key up in the list, before a step and after it.
LEMMA MapAt ==
    ASSUME ListInv, NEW k \in Key
    PROVE  /\ \A n \in Live : key[n] = k => MapBar[k] = EntryOf(n)
           /\ (\A n \in Live : key[n] # k) => MapBar[k] = NoEntry
  <1>1. \A m, n \in Live : key[m] = key[n] => m = n
    BY DEF ListInv, ListOK, Live
  <1>2. ASSUME NEW n \in Live, key[n] = k
        PROVE  (CHOOSE m \in Live : key[m] = k) = n
    BY <1>1, <1>2
  <1>3. QED
    BY <1>2 DEF MapBar

LEMMA MapAtNext ==
    ASSUME ListInv', NEW k \in Key
    PROVE  /\ \A n \in Live' : key'[n] = k => MapBar'[k] = EntryOf(n)'
           /\ (\A n \in Live' : key'[n] # k) => MapBar'[k] = NoEntry
  <1>1. \A m, n \in Live' : key'[m] = key'[n] => m = n
    BY DEF ListInv, ListOK, Live
  <1>2. ASSUME NEW n \in Live', key'[n] = k
        PROVE  (CHOOSE m \in Live' : key'[m] = k) = n
    BY <1>1, <1>2
  <1>3. QED
    BY <1>2 DEF MapBar

LEMMA MapDomain ==
    MapBar = [k \in Key |-> MapBar[k]] /\ MapBar' = [k \in Key |-> MapBar'[k]]
  BY DEF MapBar

\* CacheMap's copies of the definitions of CacheEntry are those of CacheList.
LEMMA SameEntries ==
    /\ AsMap!Flags = Flags /\ AsMap!NoEntry = NoEntry
    /\ \A e : AsMap!Fresh(e) = Fresh(e)
    /\ \A e, x, f : AsMap!InsertStr(e, x, f) = InsertStr(e, x, f)
    /\ \A e, x, f : AsMap!InsertInt(e, x, f) = InsertInt(e, x, f)
  BY DEF AsMap!Flags, Flags, AsMap!NoEntry, NoEntry, AsMap!InsertStr, InsertStr,
         AsMap!InsertInt, InsertInt, AsMap!Fresh, Fresh

\* A step that leaves the list, its fields and the answer alone is no step of
\* the map.
LEMMA MapKept ==
    ASSUME UNCHANGED <<fields, found, order>>
    PROVE  UNCHANGED AsMap!vars
  BY DEF AsMap!vars, MapBar, EntryOf, Live, fields

LEMMA GetMaps ==
    ASSUME ListInv, Get
    PROVE  AsMap!Next
  <1>1. job.key \in Key /\ job.flags \in Flags /\ Mask = job.flags
    BY JobKinds DEF Get, Mask, ListInv, ListTypeOK
  <1>2. found' = IF MapBar[job.key].conf \cap job.flags # {} THEN MapBar[job.key] ELSE NoEntry
    <2>1. CASE current \in Live /\ key[current] = job.key
      <3>1. MapBar[job.key] = EntryOf(current) /\ current # Null
        BY <1>1, <2>1, MapAt, NodesOfList, ListAssumption DEF ListInv
      <3>2. QED
        BY <1>1, <3>1, ListAssumption DEF Get, Target, EntryOf
    <2>2. CASE current = Null /\ \A n \in Live : key[n] # job.key
      <3>1. MapBar[job.key] = NoEntry
        BY <1>1, <2>2, MapAt
      <3>2. QED
        BY <2>2, <3>1 DEF Get, Target, NoEntry
    <2>3. QED
      BY <2>1, <2>2, WalkEnd DEF Get
  <1>3. MapBar' = MapBar
    BY DEF Get, MapBar, EntryOf, Live, fields
  <1>4. AsMap!Lookup(job.key, job.flags)
    BY <1>2, <1>3, SameEntries DEF AsMap!Lookup
  <1>5. QED
    BY <1>1, <1>4, SameEntries DEF AsMap!Next

\* An insertion that changes one entry as insert_cached_str or
\* insert_cached_int does is a step of the map.
LEMMA PutMaps ==
    ASSUME ListInv, Inserting, found' = found,
           NEW e \in Fresh(MapBar[job.key]),
           MapBar'[job.key] = IF job.op = "str" THEN InsertStr(e, job.val, job.flags)
                                                ELSE InsertInt(e, job.val, job.flags),
           \A k \in Key : k # job.key => MapBar'[k] = MapBar[k]
    PROVE  AsMap!Next
  <1>1. /\ job.key \in Key /\ job.flags \in Flags
        /\ job.op = "str" => job.val \in Val
        /\ job.op = "int" => job.val \in Num
    BY JobKinds DEF Inserting, ListInv, ListTypeOK
  <1>2. CASE job.op = "str"
    <2>1. MapBar' = [MapBar EXCEPT ![job.key] = InsertStr(e, job.val, job.flags)]
      BY <1>1, <1>2, MapDomain
    <2>2. AsMap!PutStr(job.key, job.val, job.flags)
      BY <2>1, SameEntries DEF AsMap!PutStr
    <2>3. QED
      BY <1>1, <1>2, <2>2, SameEntries DEF AsMap!Next
  <1>3. CASE job.op = "int"
    <2>1. MapBar' = [MapBar EXCEPT ![job.key] = InsertInt(e, job.val, job.flags)]
      BY <1>1, <1>3, MapDomain
    <2>2. AsMap!PutInt(job.key, job.val, job.flags)
      BY <2>1, SameEntries DEF AsMap!PutInt
    <2>3. QED
      BY <1>1, <1>3, <2>2, SameEntries DEF AsMap!Next
  <1>4. QED
    BY <1>2, <1>3 DEF Inserting

LEMMA ReuseMaps ==
    ASSUME ListInv, ListInv', Reuse
    PROVE  AsMap!Next
  <1>1. PICK n \in Live : Target = n /\ n \in Node /\ key[n] = job.key
    <2>1. Target = current
      BY TargetOfInsert DEF Reuse, Inserting
    <2>2. current \in Live /\ key[current] = job.key
      BY <2>1, WalkEnd, ListAssumption DEF Reuse, Inserting
    <2>3. QED
      BY <2>1, <2>2, NodesOfList DEF ListInv
  <1>2. /\ EntryOf(n)' = IF job.op = "str" THEN InsertStr(EntryOf(n), job.val, job.flags)
                                           ELSE InsertInt(EntryOf(n), job.val, job.flags)
        /\ \A m \in Node : m # n => EntryOf(m)' = EntryOf(m)
    <2>1. Inserting /\ Fill(n, conf[n]) /\ conf[n] \in Flags
      BY <1>1 DEF Reuse, ListInv, ListTypeOK
    <2>2. [EntryOf(n) EXCEPT !.conf = conf[n]] = EntryOf(n)
      BY DEF EntryOf
    <2>3. QED
      BY <1>1, <2>1, <2>2, FillEntry DEF ListInv
  <1>3. Live' = Live /\ key' = key /\ found' = found /\ Inserting
    BY DEF Reuse, Live, Fill
  <1>4. job.key \in Key
    BY <1>3, JobKinds DEF Inserting, ListInv, ListTypeOK
  <1>5. MapBar[job.key] = EntryOf(n) /\ MapBar'[job.key] = EntryOf(n)'
    BY <1>1, <1>3, <1>4, MapAt, MapAtNext
  <1>6. ASSUME NEW k \in Key, k # job.key PROVE MapBar'[k] = MapBar[k]
    <2>1. CASE \E m \in Live : key[m] = k
      <3>1. PICK m \in Live : key[m] = k
        BY <2>1
      <3>2. m \in Node /\ m # n
        BY <1>1, <1>6, <3>1, NodesOfList DEF ListInv
      <3>3. MapBar[k] = EntryOf(m) /\ MapBar'[k] = EntryOf(m)'
        BY <1>3, <3>1, MapAt, MapAtNext
      <3>4. QED
        BY <1>2, <3>2, <3>3
    <2>2. CASE \A m \in Live : key[m] # k
      BY <1>3, <2>2, MapAt, MapAtNext
    <2>3. QED
      BY <2>1, <2>2
  <1>7. EntryOf(n) \in Fresh(MapBar[job.key])
    <2>1. EntryOf(n).conf # {}
      BY <1>1 DEF EntryOf, Live, ListInv, ListOK
    <2>2. QED
      BY <1>5, <2>1 DEF Fresh
  <1>8. QED
    BY <1>2, <1>3, <1>5, <1>6, <1>7, PutMaps

\* create_cache makes a node of its own for a key without one.
LEMMA CreateMaps ==
    ASSUME ListInv, ListInv', FreshEntries, First \/ Extend
    PROVE  AsMap!Next
  <1>1. /\ Inserting /\ Target = Null
        /\ \E n \in Node : Malloc(n)
    BY DEF First, Extend
  <1>2. PICK n \in Node, f \in Flags : Malloc(n) /\ Fill(n, f)
    BY <1>1 DEF Malloc
  <1> DEFINE e == [NoEntry EXCEPT !.conf = f]
  <1>3. /\ EntryOf(n)' = IF job.op = "str" THEN InsertStr(e, job.val, job.flags)
                                           ELSE InsertInt(e, job.val, job.flags)
        /\ \A m \in Node : m # n => EntryOf(m)' = EntryOf(m)
        /\ n \notin Live
    <2>1. n \notin Live
      BY <1>2 DEF Malloc, Available
    <2>2. [EntryOf(n) EXCEPT !.conf = f] = e
      BY <2>1 DEF FreshEntries, EntryOf, NoEntry
    <2>3. QED
      BY <1>1, <1>2, <2>1, <2>2, FillEntry DEF ListInv
  <1>4. e \in Fresh(NoEntry)
    BY DEF Fresh, NoEntry
  <1>5. job.key \in Key
    BY <1>1, JobKinds DEF Inserting, ListInv, ListTypeOK
  <1>6. /\ Live' = Live \cup {n} /\ found' = found
        /\ key'[n] = job.key /\ \A m \in Live : key'[m] = key[m]
    <2>1. order' = Append(order, n) /\ key' = [key EXCEPT ![n] = job.key] /\ found' = found
      BY <1>2 DEF Malloc, Fill
    <2>2. Live' = Live \cup {n}
      BY <2>1, AppendLive DEF ListInv
    <2>3. QED
      BY <1>3, <2>1, <2>2, NodesOfList DEF ListInv, ListTypeOK
  <1>7. \A m \in Live : key[m] # job.key
    <2>1. current = Null
      BY <1>1, TargetOfInsert DEF Inserting
    <2>2. current \notin Live
      BY <2>1, NodesOfList, ListAssumption DEF ListInv
    <2>3. QED
      BY <1>1, <2>2, WalkEnd DEF Inserting
  <1>8. MapBar[job.key] = NoEntry /\ MapBar'[job.key] = EntryOf(n)'
    BY <1>5, <1>6, <1>7, MapAt, MapAtNext
  <1>9. ASSUME NEW k \in Key, k # job.key PROVE MapBar'[k] = MapBar[k]
    <2>1. CASE \E m \in Live : key[m] = k
      <3>1. PICK m \in Live : key[m] = k
        BY <2>1
      <3>2. m \in Node /\ m # n /\ EntryOf(m)' = EntryOf(m)
        BY <1>3, <3>1, NodesOfList DEF ListInv
      <3>3. MapBar[k] = EntryOf(m) /\ MapBar'[k] = EntryOf(m)'
        BY <1>6, <3>1, MapAt, MapAtNext
      <3>4. QED
        BY <3>2, <3>3
    <2>2. CASE \A m \in Live : key[m] # k
      <3>1. \A m \in Live' : key'[m] # k
        BY <1>6, <1>9, <2>2
      <3>2. QED
        BY <2>2, <3>1, MapAt, MapAtNext
    <2>3. QED
      BY <2>1, <2>2
  <1>10. QED
    BY <1>1, <1>3, <1>4, <1>6, <1>8, <1>9, PutMaps

\* A round of nvram_clear takes out one key and no other.
LEMMA DeleteMaps ==
    ASSUME ListInv, ListInv', Delete
    PROVE  AsMap!Next
  <1> DEFINE L == Len(order)
  <1>1. PICK t \in Node : t = order[1] /\ Target = t
    BY DeletedNode
  <1>2. L \in Nat \ {0} /\ t \in Live
    BY <1>1, DeletedNode, NodesOfList DEF ListInv
  <1>3. Live' = Live \ {t}
    BY <1>1, DeletedLive
  <1>4. /\ found' = found /\ \A m \in Node : m # t => key'[m] = key[m] /\ EntryOf(m)' = EntryOf(m)
    BY <1>1, ListAssumption DEF Delete, EntryOf, ListInv, ListTypeOK
  <1>5. key[t] \in Key
    BY DEF ListInv, ListTypeOK
  <1>6. MapBar'[key[t]] = NoEntry
    <2>1. \A m, n \in Live : key[m] = key[n] => m = n
      BY DEF ListInv, ListOK, Live
    <2>2. \A m \in Live' : m \in Node /\ key'[m] # key[t]
      BY <1>2, <1>3, <1>4, <2>1, NodesOfList DEF ListInv
    <2>3. QED
      BY <1>5, <2>2, MapAtNext
  <1>7. ASSUME NEW k \in Key, k # key[t] PROVE MapBar'[k] = MapBar[k]
    <2>1. CASE \E m \in Live : key[m] = k
      <3>1. PICK m \in Live : key[m] = k
        BY <2>1
      <3>2. m \in Node /\ m # t /\ m \in Live'
        BY <1>3, <1>7, <3>1, NodesOfList DEF ListInv
      <3>3. MapBar[k] = EntryOf(m) /\ MapBar'[k] = EntryOf(m)'
        BY <1>4, <3>1, <3>2, MapAt, MapAtNext
      <3>4. QED
        BY <1>4, <3>2, <3>3
    <2>2. CASE \A m \in Live : key[m] # k
      <3>1. \A m \in Live' : key'[m] # k
        BY <1>3, <1>4, <2>2, NodesOfList DEF ListInv
      <3>2. QED
        BY <2>2, <3>1, MapAt, MapAtNext
    <2>3. QED
      BY <2>1, <2>2
  <1>8. MapBar' = [MapBar EXCEPT ![key[t]] = NoEntry]
    BY <1>5, <1>6, <1>7, MapDomain
  <1>9. AsMap!Drop(key[t])
    BY <1>4, <1>8, SameEntries DEF AsMap!Drop
  <1>10. {} \in AsMap!Flags
    BY DEF AsMap!Flags
  <1>11. QED
    BY <1>5, <1>9, <1>10 DEF AsMap!Next

LEMMA InitMaps == Init => AsMap!Init /\ FreshEntries
  <1> SUFFICES ASSUME Init PROVE AsMap!Init /\ FreshEntries
    OBVIOUS
  <1>1. Live = {}
    BY DEF Init, Live
  <1>2. MapBar = [k \in Key |-> NoEntry]
    BY <1>1 DEF MapBar
  <1>3. QED
    BY <1>2, SameEntries
    DEF Init, AsMap!Init, AsMap!EmptyCache, FreshEntries, EntryOf, NoEntry

LEMMA StepMaps ==
    ASSUME ListInv, ListInv', FreshEntries, [Next]_vars
    PROVE  [AsMap!Next]_(AsMap!vars)
  <1>1. CASE UNCHANGED <<fields, found, order>>
    BY <1>1, MapKept
  <1>2. CASE Get BY <1>2, GetMaps
  <1>3. CASE Reuse BY <1>3, ReuseMaps
  <1>4. CASE First \/ Extend BY <1>4, CreateMaps
  <1>5. CASE Delete BY <1>5, DeleteMaps
  <1>6. QED
    BY <1>1, <1>2, <1>3, <1>4, <1>5
    DEF Next, Step, Begin, Skip, Trample, ClearDone, vars

\* Whatever malloc returns, the library's list implements the map that HyperNvram
\* takes it for, until the library takes a pointer that nobody wrote for a node's
\* (get_cached, create_cache, insert_cached_str, insert_cached_int, delete_cached).
THEOREM ListIsMap == Spec => IsMap
  <1> DEFINE Inv == ListInv /\ FreshEntries
  <1>1. Init => Inv /\ AsMap!Init
    BY InitInv, InitMaps
  <1>2. Inv /\ [Next]_vars => Inv'
    BY StepInv, FreshEntriesStep
  <1>3. Inv /\ Inv' /\ [Next]_vars => [AsMap!Next]_(AsMap!vars)
    BY StepMaps
  <1>4. QED
    BY <1>1, <1>2, <1>3, PTL DEF Spec, IsMap, AsMap!Spec
=============================================================================
