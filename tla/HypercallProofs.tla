--------------------------- MODULE HypercallProofs ---------------------------
(***************************************************************************)
(* Theorems about Hypercall, for any memory, any page size and any set of  *)
(* calls.                                                                  *)
(***************************************************************************)
EXTENDS Hypercall, TLAPS

\* The walk of y: it is inside the memory once a word has been touched, and a
\* call is only made again when the handler missed a word of an argument.
WalkOK ==
    /\ pc = "touch" /\ i > 1 => y < Words
    /\ pc = "back" /\ word = "RETRY" => y < Words

TypeInv == TypeOK /\ WalkOK

\* No call but NVRAM_GETALL, and none whose buffer overlaps its key.
KeyApart ==
    \A r \in Requests :
        /\ r.op # "GETALL"
        /\ 1 \in Reads[r.op] =>
               \A j \in Writes[r.op] : Span(r.args[j]) \cap Span(r.args[1]) = {}

\* The host has acted exactly when its answer is not RETRY, and on the key the
\* library function passed.
ActedOnce ==
    /\ intact = TRUE
    /\ pc \in {"idle", "dead", "touch"} => done = <<>>
    /\ pc = "back" => \/ word = "RETRY" /\ done = <<>>
                      \/ word = "MAGIC" /\ done = <<Asked(req)>>

-----------------------------------------------------------------------------

\* The arguments of a call, and what its handler reads and writes of them.
LEMMA RequestArgs ==
    ASSUME NEW r \in Requests
    PROVE  /\ r.op \in Ops
           /\ r.vec \in Address
           /\ r.args \in Seq([first : Address, size : Nat \ {0}])
           /\ Reads[r.op] \subseteq DOMAIN r.args
           /\ Writes[r.op] \subseteq DOMAIN r.args
  BY HypercallAssumption DEF Request

\* An element of a sequence.
LEMMA ElementOf ==
    ASSUME NEW S, NEW s \in Seq(S), NEW n \in 1 .. Len(s)
    PROVE  s[n] \in S /\ Len(s) \in Nat
  OBVIOUS

\* Memory is not empty: the vector of a call lies in it.
LEMMA SomeWord == ASSUME NEW r \in Requests PROVE Words \in Nat \ {0}
  BY RequestArgs, HypercallAssumption DEF Address

\* Between calls there are no arguments.
LEMMA NoReqArgs == NoReq.op \in Ops /\ NoReq.args = <<>> /\ Len(NoReq.args) = 0
  BY DEF NoReq, Ops

\* A call without arguments is never answered RETRY.
LEMMA UnreadHasArgs ==
    ASSUME req \in Requests, ~Readable
    PROVE  Len(req.args) >= 1
<1> SUFFICES ASSUME Len(req.args) = 0 PROVE FALSE
  BY RequestArgs
<1>1. req.args = <<>> /\ DOMAIN req.args = {}
  BY RequestArgs
<1>2. Reads[req.op] = {}
  BY <1>1, RequestArgs
<1>3. req.vec .. req.vec + Len(req.args) - 1 = {}
  BY RequestArgs, HypercallAssumption DEF Address
<1>4. VectorReached
  BY <1>1, <1>3 DEF VectorReached, Reached
<1> QED
  BY <1>2, <1>4 DEF Readable

LEMMA UnwrittenHasArgs ==
    ASSUME req \in Requests, ~Writable
    PROVE  Len(req.args) >= 1
<1>1. PICK j \in Writes[req.op] : TRUE
  BY DEF Writable
<1>2. j \in DOMAIN req.args
  BY <1>1, RequestArgs
<1> QED
  BY <1>2, RequestArgs

-----------------------------------------------------------------------------
(* Types. *)

\* The end of hc leaves everything as before the first call.
LEMMA LeaveType ==
    ASSUME TypeInv, NEW stage \in {"idle", "dead"}, Leave(stage)
    PROVE  TypeInv'
  BY NoReqArgs, HypercallAssumption DEF TypeInv, TypeOK, WalkOK, Leave, Ops

LEMMA CallType ==
    ASSUME TypeInv, NEW r \in Requests, Call(r)
    PROVE  TypeInv'
<1>1. y' \in 0 .. Words
  BY SomeWord DEF Call, FirstY
<1>2. i' = 1 /\ 1 \in 1 .. Len(r.args) + 1
  BY RequestArgs, NoReqArgs DEF Call, TypeInv, TypeOK
<1>3. pc' = "touch" /\ req' = r /\ i' \in 1 .. Len(req'.args) + 1
  BY <1>2 DEF Call
<1>4. WalkOK'
  BY <1>2, <1>3 DEF WalkOK
<1>5. TypeOK'
  BY <1>1, <1>3 DEF TypeInv, TypeOK, Call
<1> QED
  BY <1>4, <1>5 DEF TypeInv

LEMMA TouchType ==
    ASSUME TypeInv, Touch
    PROVE  TypeInv'
<1>1. req \in Requests /\ i \in 1 .. Len(req.args) /\ y \in 0 .. Words
  BY DEF TypeInv, TypeOK, Touch, Touching
<1>2. Len(req.args) \in Nat /\ req.args[i].first \in Nat
  <2>1. req.args \in Seq([first : Address, size : Nat \ {0}])
    BY <1>1, RequestArgs
  <2>2. req.args[i] \in [first : Address, size : Nat \ {0}]
    BY <1>1, <2>1, ElementOf
  <2>3. req.args[i].first \in Address
    BY <2>2
  <2> QED
    BY <2>1, <2>3 DEF Address
<1>3. req.args[i].first + y \in 0 .. Words - 1
  BY DEF Touch, Touched, Mapped, Address
<1>4. y < Words
  BY <1>1, <1>2, <1>3, HypercallAssumption
<1>5. {Page(w) : w \in Touched} \subseteq Pages
  BY DEF Touch, Pages, Mapped
<1>6. i' \in 1 .. Len(req.args) + 1
  BY <1>1, <1>2 DEF Touch
<1> QED
  BY <1>1, <1>4, <1>5, <1>6 DEF TypeInv, TypeOK, WalkOK, Touch, Touching

LEMMA AgainType ==
    ASSUME TypeInv, Again
    PROVE  TypeInv'
<1>1. req \in Requests /\ y \in 0 .. Words /\ y < Words
  BY DEF TypeInv, TypeOK, WalkOK, Again
<1>2. y' \in 0 .. Words
  BY <1>1, HypercallAssumption DEF Again, Advance
<1>3. i' \in 1 .. Len(req.args) + 1
  BY <1>1, RequestArgs DEF Again
<1> QED
  BY <1>1, <1>2, <1>3 DEF TypeInv, TypeOK, WalkOK, Again

LEMMA TrapUnreadType ==
    ASSUME TypeInv, TrapUnread
    PROVE  TypeInv'
<1>1. req \in Requests
  BY DEF TypeInv, TypeOK, TrapUnread, Trapping
<1>2. i > 1
  BY <1>1, UnreadHasArgs, RequestArgs DEF TrapUnread, Trapping
<1> QED
  BY <1>1, <1>2 DEF TypeInv, TypeOK, WalkOK, TrapUnread, Trapping

LEMMA TrapServedType ==
    ASSUME TypeInv, NEW found \in BOOLEAN, TrapServed(found)
    PROVE  TypeInv'
<1>1. req \in Requests /\ req.op \in Ops
  BY RequestArgs DEF TypeInv, TypeOK, TrapServed, Trapping
<1>2. Effect \in [op : Ops, asked : BOOLEAN]
  BY <1>1 DEF Effect, TypeInv, TypeOK
<1>3. done' \in Seq([op : Ops, asked : BOOLEAN])
  BY <1>2 DEF TrapServed, TypeInv, TypeOK
<1> QED
  BY <1>1, <1>3 DEF TypeInv, TypeOK, WalkOK, TrapServed, Trapping

LEMMA TrapUnwrittenType ==
    ASSUME TypeInv, TrapUnwritten
    PROVE  TypeInv'
<1>1. req \in Requests
  BY DEF TypeInv, TypeOK, TrapUnwritten, Trapping
<1>2. i > 1
  BY <1>1, UnwrittenHasArgs, RequestArgs DEF TrapUnwritten, Trapping
<1>3. intact' \in BOOLEAN
  BY DEF TrapUnwritten
<1> QED
  BY <1>1, <1>2, <1>3 DEF TypeInv, TypeOK, WalkOK, TrapUnwritten, Trapping

\* Every step of the guest, the host and the kernel keeps the types.
LEMMA NextType == TypeInv /\ [Next]_vars => TypeInv'
<1> SUFFICES ASSUME TypeInv, [Next]_vars PROVE TypeInv'
  OBVIOUS
<1>1. ASSUME NEW r \in Requests, Call(r) PROVE TypeInv'
  BY <1>1, CallType
<1>2. CASE Touch
  BY <1>2, TouchType
<1>3. CASE Fault
  BY <1>3, LeaveType DEF Fault
<1>4. CASE TrapUnread
  BY <1>4, TrapUnreadType
<1>5. ASSUME NEW found \in BOOLEAN, TrapServed(found) PROVE TypeInv'
  BY <1>5, TrapServedType
<1>6. CASE TrapUnwritten
  BY <1>6, TrapUnwrittenType
<1>7. CASE Again
  BY <1>7, AgainType
<1>8. CASE Return
  BY <1>8, LeaveType DEF Return
<1>9. ASSUME NEW p \in resident, Reclaim(p) PROVE TypeInv'
  BY <1>9 DEF TypeInv, TypeOK, WalkOK, Reclaim
<1>10. CASE Restart
  BY <1>10, LeaveType DEF Restart
<1>11. CASE UNCHANGED vars
  BY <1>11 DEF TypeInv, TypeOK, WalkOK, vars
<1> QED
  BY <1>1, <1>2, <1>3, <1>4, <1>5, <1>6, <1>7, <1>8, <1>9, <1>10, <1>11
  DEF Next, InCall

LEMMA InitType == Init => TypeInv
  BY NoReqArgs, HypercallAssumption DEF Init, TypeInv, TypeOK, WalkOK, Ops

\* TypeOK of hc and its handlers: on every architecture and with any memory the
\* walk stays within one word of the memory, and the host's pages are pages.
THEOREM TransportTypeCorrect == Spec => []TypeOK
<1>1. TypeInv => TypeOK
  BY DEF TypeInv
<1> QED
  BY <1>1, InitType, NextType, PTL DEF Spec

-----------------------------------------------------------------------------
(* One effect per call. *)

LEMMA NothingGarbled ==
    ASSUME KeyApart, req \in Requests
    PROVE  ~Garbles
  BY RequestArgs DEF KeyApart, Garbles, Written

\* What a step of hc or of the host is in AtomicCall.
LEMMA CallBegins ==
    ASSUME NEW r \in Requests, ActedOnce, Call(r)
    PROVE  ActedOnce' /\ Atomic!Next
<1>1. ActedOnce'
  BY DEF ActedOnce, Call
<1>2. Asked(r) \in {Asked(q) : q \in Requests}
  OBVIOUS
<1>3. Atomic!Begin(Asked(r))
  BY <1>2 DEF Atomic!Begin, Call, ActedOnce
<1> QED
  BY <1>1, <1>2, <1>3 DEF Atomic!Next

LEMMA ServedOnce ==
    ASSUME TypeInv, ActedOnce, NEW found \in BOOLEAN, TrapServed(found)
    PROVE  ActedOnce' /\ Atomic!Next
<1>1. pc = "touch" /\ pc' = "back" /\ req \in Requests /\ done = <<>> /\ intact = TRUE
  BY DEF TrapServed, Trapping, ActedOnce, TypeInv, TypeOK
<1>2. done' = <<Asked(req)>>
  BY <1>1 DEF TrapServed, Effect, Asked
<1>3. ActedOnce'
  BY <1>1, <1>2 DEF TrapServed, ActedOnce
<1>4. Atomic!Serve
  BY <1>1, <1>2 DEF Atomic!Serve, TrapServed
<1> QED
  BY <1>3, <1>4 DEF Atomic!Next

LEMMA ReturnEnds ==
    ASSUME TypeInv, ActedOnce, Return
    PROVE  ActedOnce' /\ Atomic!Next
<1>1. pc = "back" /\ pc' = "idle" /\ req \in Requests /\ done = <<Asked(req)>>
  BY DEF Return, Leave, ActedOnce, TypeInv, TypeOK
<1>2. ActedOnce'
  BY DEF Return, Leave, ActedOnce
<1>3. Atomic!End
  BY <1>1 DEF Atomic!End, Return, Leave
<1> QED
  BY <1>2, <1>3 DEF Atomic!Next

LEMMA FaultKills ==
    ASSUME TypeInv, ActedOnce, Fault
    PROVE  ActedOnce' /\ Atomic!Next
<1>1. pc = "touch" /\ pc' = "dead" /\ req \in Requests /\ done = <<>> /\ done' = <<>>
  BY DEF Fault, Touching, Leave, ActedOnce, TypeInv, TypeOK
<1>2. ActedOnce'
  BY DEF Fault, Leave, ActedOnce
<1>3. Atomic!Killed
  BY <1>1 DEF Atomic!Killed
<1> QED
  BY <1>2, <1>3 DEF Atomic!Next

LEMMA RestartBegins ==
    ASSUME ActedOnce, Restart
    PROVE  ActedOnce' /\ Atomic!Next
<1>1. ActedOnce'
  BY DEF Restart, Leave, ActedOnce
<1>2. Atomic!Restart
  BY DEF Atomic!Restart, Restart, Leave, ActedOnce
<1> QED
  BY <1>1, <1>2 DEF Atomic!Next

\* A step that leaves the call where it is and does not act.
Silent ==
    /\ {pc, pc'} \subseteq {"touch", "back"} \/ pc' = pc
    /\ UNCHANGED <<req, done>>

LEMMA SilentStutters == ASSUME Silent PROVE UNCHANGED Atomic!vars
  BY DEF Silent, Atomic!vars

\* Every other step of hc, the host and the kernel is silent: touching, an
\* answer RETRY, another round, and pages that come and go.
LEMMA OthersSilent ==
    ASSUME TypeInv, ActedOnce, KeyApart,
           \/ Touch \/ TrapUnread \/ TrapUnwritten \/ Again
           \/ \E p \in resident : Reclaim(p)
           \/ UNCHANGED vars
    PROVE  ActedOnce' /\ Silent
<1>1. CASE Touch
  BY <1>1 DEF Touch, Touching, ActedOnce, Silent
<1>2. CASE TrapUnread
  BY <1>2 DEF TrapUnread, Trapping, ActedOnce, Silent
<1>3. CASE TrapUnwritten
  <2>1. req \in Requests /\ pc = "touch" /\ pc' = "back"
    BY <1>3 DEF TrapUnwritten, Trapping, TypeInv, TypeOK
  <2>2. word' = "RETRY"
    BY <1>3, <2>1 DEF TrapUnwritten, KeyApart
  <2>3. intact' = TRUE
    BY <1>3, <2>1, NothingGarbled DEF TrapUnwritten, ActedOnce
  <2> QED
    BY <1>3, <2>1, <2>2, <2>3 DEF TrapUnwritten, ActedOnce, Silent
<1>4. CASE Again
  BY <1>4 DEF Again, ActedOnce, Silent
<1>5. CASE \E p \in resident : Reclaim(p)
  BY <1>5 DEF Reclaim, ActedOnce, Silent
<1>6. CASE UNCHANGED vars
  BY <1>6 DEF vars, ActedOnce, Silent
<1> QED
  BY <1>1, <1>2, <1>3, <1>4, <1>5, <1>6

LEMMA NextAtomic ==
    ASSUME KeyApart, TypeInv, ActedOnce, [Next]_vars
    PROVE  ActedOnce' /\ [Atomic!Next]_(Atomic!vars)
<1>1. CASE \E r \in Requests : Call(r)
  BY <1>1, CallBegins
<1>2. CASE \E found \in BOOLEAN : TrapServed(found)
  BY <1>2, ServedOnce
<1>3. CASE Return
  BY <1>3, ReturnEnds
<1>4. CASE Fault
  BY <1>4, FaultKills
<1>5. CASE Restart
  BY <1>5, RestartBegins
<1>6. CASE \/ Touch \/ TrapUnread \/ TrapUnwritten \/ Again
           \/ \E p \in resident : Reclaim(p)
           \/ UNCHANGED vars
  BY <1>6, OthersSilent, SilentStutters
<1> QED
  BY <1>1, <1>2, <1>3, <1>4, <1>5, <1>6 DEF Next, InCall

LEMMA InitAtomic == Init => ActedOnce /\ Atomic!Init
  BY DEF Init, ActedOnce, Atomic!Init

\* EffectOnce of hc with the handlers of the plugin, except NVRAM_GETALL: with
\* any memory, on every architecture and with pages taken away at any time, a
\* call whose buffer does not overlap its key takes effect exactly once, with
\* the key it was given, before hc returns.
THEOREM TransportOnce == ASSUME KeyApart PROVE Spec => EffectOnce
<1>1. Init => TypeInv /\ ActedOnce /\ Atomic!Init
  BY InitType, InitAtomic
<1>2. TypeInv /\ ActedOnce /\ [Next]_vars => (TypeInv /\ ActedOnce)' /\ [Atomic!Next]_(Atomic!vars)
  BY NextType, NextAtomic
<1> QED
  BY <1>1, <1>2, PTL DEF Spec, EffectOnce, Atomic!Spec
=============================================================================
