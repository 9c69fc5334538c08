----------------------------- MODULE GuestBuffers -----------------------------
(***************************************************************************)
(* How values cross the border between host and guest: strings cut to the  *)
(* caller's buffer (nvram_get_buf), all pairs in one buffer                *)
(* (nvram_getall), and integers, which the store keeps as text             *)
(* (nvram_get_int, nvram_set_int).  One process, one call at a time: what  *)
(* counts here are bytes.                                                  *)
(*                                                                         *)
(* A byte is a number below Base; 256 is scaled down in instances, and the *)
(* decimal system with it (Radix).  The store is a Python dict, which      *)
(* keeps the order of insertion: a sequence of pairs.  Every value in it   *)
(* ends in the NUL that add_nvram appends, which is left out.              *)
(***************************************************************************)
EXTENDS Integers, Sequences, Functions

CONSTANTS
    Base,       \* bytes are the numbers below
    Eq,         \* the byte `=',
    Digit0,     \* the digit 0, which the other digits follow,
    Minus,      \* and the sign
    Radix,
    IntBytes,   \* the width of an int
    Archs,      \* [ptr: bytes of a pointer, big: whether the guest is big-endian]
    Key, Text,  \* byte strings used as keys and as values
    Num,        \* integers that the guest sets
    Size,       \* buffer sizes
    Marked,     \* keys that the plugin's table lets the process cache
    None        \* no value

VARIABLES
    arch,
    nvram,      \* the store
    cached,     \* the strings in the process's cache
    last, out,  \* the last call, and what it wrote from the start of the buffer on
    num,        \* what the last nvram_get_int returned
    ints        \* history: the integer that was set last, unless a text was since

vars == <<arch, nvram, cached, last, out, num, ints>>

Byte == 0 .. Base - 1
NUL == 0
String == Seq(Byte \ {NUL})
Pair == [key : Key, val : String]
NoCall == [op |-> "none", key |-> <<>>, size |-> 0]

\* b to the power of n.
Power(b, n) == LET power[i \in Nat] == IF i = 0 THEN 1 ELSE b * power[i - 1] IN power[n]

\* Pointers are at least as wide as an int, and a size fits them.
ASSUME BufferAssumption ==
    /\ Base \in Nat /\ Radix \in Nat \ {0, 1} /\ IntBytes \in Nat \ {0}
    /\ Eq \in Byte \ {NUL} /\ Minus \in Byte \ {NUL}
    /\ Digit0 \in Nat \ {0} /\ Digit0 + Radix <= Base
    /\ {Minus, Eq} \cap (Digit0 .. Digit0 + Radix - 1) = {}
    /\ Archs \subseteq [ptr : Nat \ {0}, big : BOOLEAN]
    /\ \A g \in Archs : IntBytes <= g.ptr /\ \A size \in Size : size < Power(Base, g.ptr)
    /\ Key \subseteq String /\ Text \subseteq String
    /\ \A k \in Key : Eq \notin Range(k)
    /\ Num \subseteq Int /\ Size \subseteq Nat
    /\ Marked \subseteq Key
    /\ None \notin String \cup Int

-----------------------------------------------------------------------------
(* Integers as text, and as words. *)

\* The last w digits of n in base b, and the number that digits make.
InBase(n, b, w) == [i \in 1 .. w |-> (n \div Power(b, w - i)) % b]
FromDigits(s, b) ==
    LET value[i \in 0 .. Len(s)] == IF i = 0 THEN 0 ELSE b * value[i - 1] + s[i]
    IN  value[Len(s)]

Digits[n \in Nat] ==
    IF n < Radix THEN <<Digit0 + n>>
    ELSE Append(Digits[n \div Radix], Digit0 + (n % Radix))

\* "%d", and str() of Python.
Decimal(n) == IF n < 0 THEN <<Minus>> \o Digits[-n] ELSE Digits[n]

AllDigits(s) == s # <<>> /\ Range(s) \subseteq Digit0 .. Digit0 + Radix - 1
NumberOf(s) == FromDigits([i \in 1 .. Len(s) |-> s[i] - Digit0], Radix)

\* int(s), or 0 where that raises ValueError.
ParseInt(s) ==
    CASE AllDigits(s) -> NumberOf(s)
      [] s # <<>> /\ s[1] = Minus /\ AllDigits(Tail(s)) -> - NumberOf(Tail(s))
      [] OTHER -> 0

Reversed(s) == [i \in 1 .. Len(s) |-> s[Len(s) + 1 - i]]

\* The w bytes of n, least significant first, and the number they make.
Little(n, w) == Reversed(InBase(n, Base, w))
FromLittle(s) == FromDigits(Reversed(s), Base)

\* Bytes as the guest's CPU orders them.
Order(s) == IF arch.big THEN Reversed(s) ELSE s

\* A size_t of the guest as the plugin reads it, which takes every guest to be
\* little-endian.
HostSize(n) == FromLittle(Order(Little(n, arch.ptr)))

Signed(n) == IF 2 * n >= Power(Base, IntBytes) THEN n - Power(Base, IntBytes) ELSE n

-----------------------------------------------------------------------------
(* The store. *)

Positions(k) == {i \in DOMAIN nvram : nvram[i].key = k}
Present(k) == Positions(k) # {}
Value(k) == nvram[CHOOSE i \in DOMAIN nvram : nvram[i].key = k].val

\* Mutant of Stored: every write is a new pair.
StoredTwice(k, v) == Append(nvram, [key |-> k, val |-> v])

\* self.nvram[key] = val: the place of a key that is there stays.
Stored(k, v) ==
    IF Present(k)
    THEN [i \in DOMAIN nvram |-> IF nvram[i].key = k THEN [nvram[i] EXCEPT !.val = v] ELSE nvram[i]]
    ELSE Append(nvram, [key |-> k, val |-> v])

\* del self.nvram[key], if it is there.
Without(k) ==
    IF Present(k)
    THEN LET i == CHOOSE i \in DOMAIN nvram : nvram[i].key = k
         IN  SubSeq(nvram, 1, i - 1) \o SubSeq(nvram, i + 1, Len(nvram))
    ELSE nvram

Init ==
    /\ arch \in Archs
    /\ nvram = <<>>
    /\ cached = [k \in Key |-> None]
    /\ last = NoCall
    /\ out = <<>>
    /\ num = None
    /\ ints = [k \in Key |-> None]

\* The call op of key k with a buffer of the given size has written bytes.
Answer(op, k, size, bytes, n) ==
    /\ last' = [op |-> op, key |-> k, size |-> size]
    /\ out' = bytes
    /\ num' = n

NoAnswer == Answer("write", <<>>, 0, <<>>, None)

\* nvram_set: a key that is cached keeps its value.
Set(k, v) ==
    /\ IF cached[k] # None THEN UNCHANGED <<nvram, ints>>
       ELSE nvram' = Stored(k, v) /\ ints' = [ints EXCEPT ![k] = None]
    /\ NoAnswer
    /\ UNCHANGED <<arch, cached>>

\* nvram_set_int: the guest passes the integer's text; the plugin takes the bytes
\* there, and what follows them in memory, for the integer.
SetInt(k, n) ==
    /\ IF cached[k] # None THEN UNCHANGED <<nvram, ints>>
       ELSE /\ \E rest \in [1 .. arch.ptr - 2 -> Byte] :
                 LET bytes == SubSeq(Append(Decimal(n), NUL) \o rest, 1, arch.ptr)
                 IN  nvram' = Stored(k, Decimal(FromLittle(bytes)))
            /\ ints' = [ints EXCEPT ![k] = n]
    /\ NoAnswer
    /\ UNCHANGED <<arch, cached>>

Unset(k) ==
    /\ IF cached[k] # None THEN UNCHANGED <<nvram, ints>>
       ELSE nvram' = Without(k) /\ ints' = [ints EXCEPT ![k] = None]
    /\ NoAnswer
    /\ UNCHANGED <<arch, cached>>

\* The plugin answers MAGIC_VALUE or 0; the cache is left as it is (HyperNvram has
\* the case where it is not).
Clear ==
    /\ nvram' = <<>>
    /\ ints' = [k \in Key |-> None]
    /\ NoAnswer
    /\ UNCHANGED <<arch, cached>>

-----------------------------------------------------------------------------
(* Reads. *)

\* The C string at the start of bytes, and its length.
StrLen(bytes) ==
    CHOOSE n \in 0 .. Len(bytes) :
        /\ \A i \in 1 .. n : bytes[i] # NUL
        /\ n < Len(bytes) => bytes[n + 1] = NUL
CString(bytes) == SubSeq(bytes, 1, StrLen(bytes))

\* s[:n] of Python for n from -1 on.
Slice(s, n) == SubSeq(s, 1, IF n = -1 THEN Len(s) - 1 ELSE IF n < Len(s) THEN n ELSE Len(s))

\* Mutant of Cut: the string is cut at the size, and its NUL added behind that.
CutLate(b, size) == IF Len(b) > size THEN Append(Slice(b, size), NUL) ELSE b

\* Mutant of Cut: a string as long as the buffer is not cut.
CutKeepsText(b, size) == IF Len(b) > size THEN Slice(b, size) ELSE b

\* The string b with its NUL, cut to a buffer of the given size.
Cut(b, size) == IF Len(b) > size THEN Append(Slice(b, size - 1), NUL) ELSE b

\* strncpy(buf, val, sz).
Strncpy(s, size) == [i \in 1 .. size |-> IF i <= Len(s) THEN s[i] ELSE NUL]

GetBuf(k, size) ==
    /\ CASE cached[k] # None ->
              Answer("get_buf", k, size, Strncpy(cached[k], size), None) /\ UNCHANGED cached
         [] cached[k] = None /\ Present(k) ->
              LET bytes == Cut(Append(Value(k), NUL), HostSize(size))
              IN  /\ Answer("get_buf", k, size, bytes, None)
                  /\ cached' = IF k \in Marked THEN [cached EXCEPT ![k] = CString(bytes)]
                               ELSE cached
         [] OTHER -> Answer("missing", k, size, <<>>, None) /\ UNCHANGED cached
    /\ UNCHANGED <<arch, nvram, ints>>

\* key=value, terminated.
Record(e) == e.key \o <<Eq>> \o e.val \o <<NUL>>

\* What nvram_byte_str adds for a pair: its record, or nothing if its value is
\* empty.
Part(e) == IF e.val = <<>> THEN <<>> ELSE Record(e)
BytesUpTo[i \in 0 .. Len(nvram)] ==
    IF i = 0 THEN <<>> ELSE BytesUpTo[i - 1] \o Part(nvram[i])
ByteStr == BytesUpTo[Len(nvram)]

Largest(S) == CHOOSE i \in S : \A j \in S : j <= i

\* Mutant of Framed: what there is of the pair that crosses the end is kept.
FramedRaw(b, size) == Slice(b, size)

\* b[:b[:size].rfind(NUL) + 1]
Framed(b, size) == Slice(b, Largest({0} \cup {i \in 1 .. Len(b) : b[i] = NUL /\ i <= size}))

\* nvram_getall; it rejects a size of zero.  The handler raises behind its write
\* (control takes an argument), which the guest does not look at.
GetAll(size) ==
    /\ size > 0
    /\ Answer("getall", <<>>, size, Framed(ByteStr, HostSize(size)), None)
    /\ UNCHANGED <<arch, nvram, cached, ints>>

\* Mutant of GuestInt: the sign is lost.
GuestIntUnsigned(n) ==
    LET word == n % Power(Base, arch.ptr)
    IN  IF word >= Power(Base, IntBytes) THEN 0 ELSE FromLittle(Order(Little(word, IntBytes)))

\* The int in which the guest finds the number n, zero before the call.  A number
\* that is too wide for to_bytes raises, and nothing is written.
GuestInt(n) ==
    LET word == n % Power(Base, arch.ptr)
    IN  IF word >= Power(Base, IntBytes) THEN 0
        ELSE Signed(FromLittle(Order(Little(word, IntBytes))))

GetInt(k) ==
    /\ k \notin Marked
    /\ Answer("get_int", k, IntBytes, <<>>, IF Present(k) THEN GuestInt(ParseInt(Value(k))) ELSE 0)
    /\ UNCHANGED <<arch, nvram, cached, ints>>

Next ==
    \/ \E k \in Key :
         \/ \E v \in Text : Set(k, v)
         \/ \E n \in Num : SetInt(k, n)
         \/ Unset(k)
         \/ \E size \in Size : GetBuf(k, size)
         \/ GetInt(k)
    \/ Clear
    \/ \E size \in Size : GetAll(size)

Spec == Init /\ [][Next]_vars

-----------------------------------------------------------------------------
(* Properties. *)

TypeOK ==
    /\ arch \in Archs
    /\ nvram \in Seq(Pair)
    /\ \A i, j \in DOMAIN nvram : nvram[i].key = nvram[j].key => i = j
    /\ cached \in [Key -> String \cup {None}]
    /\ out \in Seq(Byte)
    /\ num \in Int \cup {None}
    /\ ints \in [Key -> Num \cup {None}]

\* No byte is written behind the caller's buffer, on a little-endian guest and
\* unless the buffer is empty (nvram_get_buf, nvram_getall).
BufferSafe == ~arch.big /\ last.size > 0 => Len(out) <= last.size

\* A read delivers a prefix of the value.  Unless the key is one that is cached,
\* it is terminated, and it is the whole value or fills the buffer; what is cached
\* may have been cut to an earlier, smaller buffer, and lacks the NUL if it is as
\* long as the present one (nvram_get_buf).
TextDelivered ==
    last.op = "get_buf" /\ last.size > 0 /\ ~arch.big /\ Present(last.key) =>
        LET text == CString(out)
            value == Value(last.key)
        IN  /\ text = SubSeq(value, 1, Len(text))
            /\ last.key \notin Marked =>
                 NUL \in Range(out) /\ (text = value \/ Len(text) = last.size - 1)

\* Where the records end of those of the first i pairs that have one, if there is
\* room for them.
EndOf[i \in 0 .. Len(nvram)] == IF i = 0 THEN 0 ELSE EndOf[i - 1] + Len(Part(nvram[i]))

\* Of the pairs whose value is not empty, nvram_getall delivers whole records only,
\* the first ones of the store, and as many of them as fit.  The other pairs get
\* no record (nvram_byte_str); see AllDelivered.
WholeRecords ==
    last.op = "getall" /\ ~arch.big =>
        \E n \in 0 .. Len(nvram) :
            /\ Len(out) = EndOf[n]
            /\ \A i \in 1 .. n :
                 nvram[i].val # <<>> =>
                     SubSeq(out, EndOf[i - 1] + 1, EndOf[i]) = Record(nvram[i])
            /\ n < Len(nvram) => EndOf[n + 1] > last.size

\* A buffer with room for the records of all pairs gets them all: nvram_getall is
\* to get all keys and values (nvram.h:42).  It does not hold, as a pair with an
\* empty value is left out.
AllDelivered ==
    LET all[i \in 0 .. Len(nvram)] == IF i = 0 THEN <<>> ELSE all[i - 1] \o Record(nvram[i])
        records == all[Len(nvram)]
    IN  last.op = "getall" /\ ~arch.big /\ Len(records) <= last.size => out = records

\* nvram_get_int delivers the number whose text is stored if an int can hold it;
\* where pointers are wider than an int, negative numbers are lost.
IntDelivered ==
    last.op = "get_int" /\ ~arch.big /\ Present(last.key) =>
        \A n \in -(Power(Base, IntBytes) \div 2) .. (Power(Base, IntBytes) - 1) \div 2 :
            Value(last.key) = Decimal(n) /\ (n >= 0 \/ arch.ptr = IntBytes) => num = n

\* What nvram_set_int has set, nvram_get_int reads.
SetIntIsRead == last.op = "get_int" /\ ints[last.key] # None => num = ints[last.key]
=============================================================================
