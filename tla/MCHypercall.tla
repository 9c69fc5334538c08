----------------------------- MODULE MCHypercall -----------------------------
(***************************************************************************)
(* Instances of Hypercall for TLC: ten words in pages of two.  Strings and *)
(* buffers lie in the first words, on two pages; the vector, and the word  *)
(* for a size or an integer, in the stack frame of the library function.   *)
(***************************************************************************)
EXTENDS Hypercall, FiniteSets

At(first, size) == [first |-> first, size |-> size]
Data == {At(f, n) : f \in 0 .. 2, n \in 1 .. 2}
Frame == 4
Local == At(7, 1)

Req(op, args) == [op |-> op, vec |-> Frame, args |-> args]

Apart(a, b) == Span(a) \cap Span(b) = {}

\* Buffers of any size, anywhere, that do not overlap the key.
NvramRequests ==
    {Req("PLAIN", <<>>)}
    \cup {Req("UNSET", <<k>>) : k \in Data}
    \cup {Req("GET_INT", <<k, Local>>) : k \in Data}
    \cup {Req("SET_INT", <<k, Local>>) : k \in Data}
    \cup {Req("SET", <<k, v>>) : k \in Data, v \in Data}
    \cup {Req("GET_BUF", <<k, b, Local>>) : <<k, b>> \in
            {kb \in Data \X Data : Apart(kb[1], kb[2])}}

\* nvram_nget: the key and the buffer are both the static `temp'.
NgetRequests == {Req("GET_BUF", <<At(1, 1), At(1, 2), Local>>)}

GetallRequests == {Req("GETALL", <<b, Local>>) : b \in Data}

AllRequests == NvramRequests \cup NgetRequests \cup GetallRequests
=============================================================================
