------------------------------ MODULE AtomicCall ------------------------------
(***************************************************************************)
(* What a hypercall promises to the library function that makes it: by the *)
(* time hc returns, the host has carried the call out, once, and with the  *)
(* arguments the function passed.  A caller that is killed is promised at  *)
(* most one effect.                                                        *)
(***************************************************************************)
EXTENDS Sequences

CONSTANTS
    Calls,   \* the calls a library function can make
    NoCall,  \* no call is under way
    Dead     \* the caller was killed in its call

VARIABLES
    call,    \* the call under way
    effects  \* what the host has carried out for it

vars == <<call, effects>>

Init == call = NoCall /\ effects = <<>>

Begin(c) ==
    /\ call = NoCall
    /\ call' = c
    /\ UNCHANGED effects

Serve ==
    /\ call \in Calls
    /\ effects = <<>>
    /\ effects' = <<call>>
    /\ UNCHANGED call

End ==
    /\ call \in Calls
    /\ effects = <<call>>
    /\ call' = NoCall
    /\ effects' = <<>>

Killed ==
    /\ call \in Calls
    /\ call' = Dead
    /\ UNCHANGED effects

Restart ==
    /\ call = Dead
    /\ call' = NoCall
    /\ effects' = <<>>

Next ==
    \/ \E c \in Calls : Begin(c)
    \/ Serve
    \/ End
    \/ Killed
    \/ Restart

Spec == Init /\ [][Next]_vars
=============================================================================
