------------------------------- MODULE Hypercall -------------------------------
(***************************************************************************)
(* The transport: hc of include/hypercall.h in one process, and the way    *)
(* the handlers of python/nvram_plugin.py get at the process's memory.     *)
(*                                                                         *)
(* The host reads and writes guest memory by virtual address and cannot    *)
(* bring a page in.  So hc first reads a word of every argument, which     *)
(* makes the kernel bring those pages in, and then traps; a handler that   *)
(* misses a page answers RETRY and hc starts over, on most architectures   *)
(* one word further on.                                                    *)
(*                                                                         *)
(* Memory is the words 0 .. Words - 1, in pages of PageSize words; nothing *)
(* is mapped behind it.  An argument is the span of words that the handler *)
(* reads or writes through it.  x86_64 is no instance of the model: it     *)
(* passes its registers as i386 does and leaves the fourth, rdx, unset.    *)
(* mips64 is "arm" here: the two loops are the same.                       *)
(***************************************************************************)
EXTENDS Integers, Sequences

CONSTANTS
    PageSize,  \* words in a page
    Words,     \* words the process has mapped
    Archs,     \* architectures the library is built for
    Requests,  \* calls of hc: the operation, where the vector s is, and args
    Reclaims   \* the kernel takes pages away again

Ops == {"GET_BUF", "GET_INT", "SET", "SET_INT", "UNSET", "GETALL", "PLAIN"}

\* The arguments each handler reads and the one it writes.  SET stands for
\* NVRAM_LIST_ADD too, PLAIN for the hypercalls that have no arguments.
Reads == [op \in Ops |->
    CASE op = "GET_BUF" -> {1, 3}
      [] op \in {"SET", "SET_INT"} -> {1, 2}
      [] op \in {"GET_INT", "UNSET"} -> {1}
      [] op = "GETALL" -> {2}
      [] OTHER -> {}]

Writes == [op \in Ops |->
    CASE op \in {"GET_BUF", "GET_INT"} -> {2}
      [] op = "GETALL" -> {1}
      [] OTHER -> {}]

Address == 0 .. Words - 1
Page(w) == w \div PageSize
Pages == {Page(w) : w \in Address}

\* Mutant of Mapped: the first word behind the memory counts as mapped.
MappedOffByOne(w) == w <= Words

Mapped(w) == w \in Address

Span(a) == a.first .. a.first + a.size - 1

Request ==
    [op : Ops, vec : Address, args : Seq([first : Address, size : Nat \ {0}])]

ASSUME HypercallAssumption ==
    /\ PageSize \in Nat \ {0}
    /\ Words \in Nat
    /\ Archs \subseteq {"arm", "aarch64", "mips", "i386"}
    /\ Requests \subseteq Request
    /\ \A r \in Requests : Reads[r.op] \cup Writes[r.op] = DOMAIN r.args
    /\ Reclaims \in BOOLEAN

VARIABLES
    arch,      \* the architecture of this build
    pc,        \* "idle", "touch" before the trap, "back" after it, "dead"
    req,       \* the arguments of hc
    y, i,      \* hc's locals: the word and the argument to touch next
    resident,  \* the pages the host can reach
    intact,    \* the key in memory is still the one the caller passed
    word,      \* ret: what the host answered
    done       \* what the host has carried out for this call

vars == <<arch, pc, req, y, i, resident, intact, word, done>>

\* y before the first trap: 32-bit mips increments it before it touches.
FirstY == IF arch = "mips" THEN 1 ELSE 0

\* aarch64 has no y++ in its loop.
Advance == IF arch = "aarch64" THEN 0 ELSE 1

\* Between calls the arguments and locals of hc do not exist.
NoReq == [op |-> "PLAIN", vec |-> 0, args |-> <<>>]

\* Every variable has its type.  In particular the walk of y ends at the end
\* of the memory, and the pages the host is given are pages of it.
TypeOK ==
    /\ arch \in Archs
    /\ pc \in {"idle", "touch", "back", "dead"}
    /\ req \in IF pc \in {"touch", "back"} THEN Requests ELSE {NoReq}
    /\ y \in 0 .. Words
    /\ i \in 1 .. Len(req.args) + 1
    /\ resident \subseteq Pages
    /\ intact \in BOOLEAN
    /\ word \in {"NONE", "RETRY", "MAGIC", "GETALL"}
    /\ done \in Seq([op : Ops, asked : BOOLEAN])

Init ==
    /\ arch \in Archs
    /\ pc = "idle"
    /\ req = NoReq
    /\ y = 0
    /\ i = 1
    /\ resident \in SUBSET Pages
    /\ intact = TRUE
    /\ word = "NONE"
    /\ done = <<>>

-----------------------------------------------------------------------------
(* The guest. *)

Call(r) ==
    /\ pc = "idle"
    /\ pc' = "touch"
    /\ req' = r
    /\ y' = FirstY
    /\ UNCHANGED <<arch, i, resident, intact, word, done>>

\* The end of hc, or of the process in it.
Leave(stage) ==
    /\ pc' = stage
    /\ req' = NoReq
    /\ y' = 0
    /\ i' = 1
    /\ intact' = TRUE
    /\ word' = "NONE"
    /\ done' = <<>>
    /\ UNCHANGED <<arch, resident>>

\* The words hc reads for argument i: s[i], and word y of what it points to.
Touched == {req.vec + i - 1, req.args[i].first + y}

Touching == pc = "touch" /\ i <= Len(req.args)

Touch ==
    /\ Touching
    /\ \A w \in Touched : Mapped(w)
    /\ resident' = resident \cup {Page(w) : w \in Touched}
    /\ i' = i + 1
    /\ UNCHANGED <<arch, pc, req, y, intact, word, done>>

\* Segmentation fault: y has walked out of the memory.
Fault ==
    /\ Touching
    /\ \E w \in Touched : ~Mapped(w)
    /\ Leave("dead")

\* Mutant of Again: another round does not touch the first argument.
AgainSkipsFirst ==
    /\ pc = "back"
    /\ word = "RETRY"
    /\ pc' = "touch"
    /\ y' = y + Advance
    /\ i' = 2
    /\ UNCHANGED <<arch, req, resident, intact, word, done>>

Again ==
    /\ pc = "back"
    /\ word = "RETRY"
    /\ pc' = "touch"
    /\ y' = y + Advance
    /\ i' = 1
    /\ UNCHANGED <<arch, req, resident, intact, word, done>>

Return ==
    /\ pc = "back"
    /\ word # "RETRY"
    /\ Leave("idle")

-----------------------------------------------------------------------------
(* The host.  A handler runs while the CPU is stopped: one step.           *)

Reached(S) == \A w \in S : Mapped(w) /\ Page(w) \in resident

\* The host takes the vector's address from the third argument register and its
\* length from the fourth.  i386 passes them in the other order, which does no
\* harm when both are 0; otherwise the host reads at the length's address,
\* where nothing is mapped.
VectorReached ==
    IF arch = "i386" THEN req.args = <<>>
    ELSE Reached(req.vec .. req.vec + Len(req.args) - 1)

Readable ==
    /\ VectorReached
    /\ \A j \in Reads[req.op] : Reached(Span(req.args[j]))

Writable == \A j \in Writes[req.op] : Reached(Span(req.args[j]))

Trapping == pc = "touch" /\ i = Len(req.args) + 1 /\ pc' = "back"

\* A handler reads the key from memory.
Effect == [op |-> req.op, asked |-> intact]

\* Mutant of TrapUnread: the handler acts before it has read everything.
TrapUnreadActs ==
    /\ Trapping
    /\ ~Readable
    /\ word' = "RETRY"
    /\ done' = Append(done, Effect)
    /\ UNCHANGED <<arch, req, y, i, resident, intact>>

TrapUnread ==
    /\ Trapping
    /\ ~Readable
    /\ word' = "RETRY"
    /\ UNCHANGED <<arch, req, y, i, resident, intact, done>>

\* `found': the host has something to write to the buffer.
TrapServed(found) ==
    /\ Trapping
    /\ Readable
    /\ found => Writable
    /\ word' = "MAGIC"
    /\ done' = Append(done, Effect)
    /\ UNCHANGED <<arch, req, y, i, resident, intact>>

\* A write goes page by page and stops at the first page it cannot reach.
Written(a) == {w \in Span(a) : Reached(a.first .. w)}

Garbles ==
    \E j \in Writes[req.op] :
        1 \in Reads[req.op] /\ Written(req.args[j]) \cap Span(req.args[1]) # {}

\* The handlers answer RETRY to a failed write, all but getall.
TrapUnwritten ==
    /\ Trapping
    /\ Readable
    /\ ~Writable
    /\ word' = IF req.op = "GETALL" THEN "GETALL" ELSE "RETRY"
    /\ intact' = (intact /\ ~Garbles)
    /\ UNCHANGED <<arch, req, y, i, resident, done>>

-----------------------------------------------------------------------------
(* The kernel. *)

Reclaim(p) ==
    /\ Reclaims
    /\ resident' = resident \ {p}
    /\ UNCHANGED <<arch, pc, req, y, i, intact, word, done>>

Restart ==
    /\ pc = "dead"
    /\ Leave("idle")

-----------------------------------------------------------------------------
InCall ==
    \/ Touch
    \/ Fault
    \/ TrapUnread
    \/ \E found \in BOOLEAN : TrapServed(found)
    \/ TrapUnwritten
    \/ Again
    \/ Return

Next ==
    \/ \E r \in Requests : Call(r)
    \/ InCall
    \/ \E p \in resident : Reclaim(p)
    \/ Restart

Spec == Init /\ [][Next]_vars

\* The guest kernel schedules the process, and a handler has no loop.
FairSpec == Spec /\ WF_vars(InCall)

-----------------------------------------------------------------------------
(* Properties. *)

\* A hypercall takes effect once before hc returns, however often hc had to
\* trap for it, and with the key the library function passed.
Asked(r) == [op |-> r.op, asked |-> TRUE]

NoCall == [op |-> "none", asked |-> TRUE]
Killed == [op |-> "dead", asked |-> TRUE]

Atomic == INSTANCE AtomicCall WITH
    Calls <- {Asked(r) : r \in Requests},
    Dead <- Killed,
    call <- CASE pc = "idle" -> NoCall [] pc = "dead" -> Killed [] OTHER -> Asked(req),
    effects <- done

EffectOnce == Atomic!Spec

\* The retry loop ends: hc returns, and does not run out of the memory.
HcReturns == pc = "touch" ~> pc = "idle"
=============================================================================
