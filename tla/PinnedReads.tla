----------------------------- MODULE PinnedReads -----------------------------
(***************************************************************************)
(* What reading NVRAM promises a guest process, caching included: a read   *)
(* delivers what the shared store holds at one instant of the read, or     *)
(* what an analysis callback answers instead.  If the process caches, it   *)
(* pins the value of a marked key that is there, and every answer of a     *)
(* callback; from then on each of its reads of that key delivers the       *)
(* pinned value, until it forgets all its pins at once.  No other read     *)
(* pins anything.  No guest stages, words, flags or cache entries here.    *)
(***************************************************************************)
CONSTANTS
    Proc, Key, IntKey, Val, Num, Zero, NoVal, ParseInt,
    Answers     \* Answers[k]: with what callbacks answer reads of k

VARIABLES
    store,  \* store[k]: the value of k, or NoVal
    marked, \* the keys that may be pinned
    caches, \* caches[p]: whether p pins values
    pin,    \* pin[p][k]: the value p reads k as from now on, or NoVal
    got     \* got[p]: what p's last read delivered, NoVal if it found nothing

vars == <<store, marked, caches, pin, got>>

Unpinned == [k \in Key |-> NoVal]

Init ==
    /\ store \in [Key -> Val \cup {NoVal}]
    /\ marked \in SUBSET Key
    /\ caches = [p \in Proc |-> FALSE]
    /\ pin = [p \in Proc |-> Unpinned]
    /\ got = [p \in Proc |-> NoVal]

\* Writes, removals, resets and scripts.
Change ==
    /\ store' \in [Key -> Val \cup {NoVal}]
    /\ marked' \in SUBSET Key
    /\ UNCHANGED <<caches, pin, got>>

\* A process learns whether it caches before it pins anything.
Configure(p) ==
    /\ pin[p] = Unpinned
    /\ \E c \in BOOLEAN : caches' = [caches EXCEPT ![p] = c]
    /\ UNCHANGED <<store, marked, pin, got>>

Begin(p) ==
    /\ got' = [got EXCEPT ![p] = NoVal]
    /\ UNCHANGED <<store, marked, caches, pin>>

\* The store's present value of k as the kind of key k is.
Present(k) ==
    IF k \in IntKey THEN IF store[k] = NoVal THEN Zero ELSE ParseInt[store[k]]
                    ELSE store[k]

\* A read of k that delivers v.
Deliver(p, k, v, pins) ==
    /\ pin[p][k] = NoVal
    /\ got' = [got EXCEPT ![p] = v]
    /\ pin' = IF caches[p] /\ pins THEN [pin EXCEPT ![p][k] = v] ELSE pin
    /\ UNCHANGED <<store, marked, caches>>

Fetch(p, k) == Deliver(p, k, Present(k), k \in marked /\ store[k] # NoVal)
Serve(p, k) == \E v \in Answers[k] : Deliver(p, k, v, TRUE)

Reread(p, k) ==
    /\ pin[p][k] # NoVal
    /\ got' = [got EXCEPT ![p] = pin[p][k]]
    /\ UNCHANGED <<store, marked, caches, pin>>

\* The cache is emptied, or the process is started again.
Forget(p) ==
    /\ pin' = [pin EXCEPT ![p] = Unpinned]
    /\ \/ UNCHANGED <<caches, got>>
       \/ /\ caches' = [caches EXCEPT ![p] = FALSE]
          /\ got' = [got EXCEPT ![p] = NoVal]
    /\ UNCHANGED <<store, marked>>

Next ==
    \/ Change
    \/ \E p \in Proc : Configure(p) \/ Begin(p) \/ Forget(p)
    \/ \E p \in Proc, k \in Key : Fetch(p, k) \/ Serve(p, k) \/ Reread(p, k)

Spec == Init /\ [][Next]_vars
=============================================================================
