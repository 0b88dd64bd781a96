------------------------------ MODULE HttpCall ------------------------------
(***************************************************************************)
(* What a Client promises of each call of get and post, without the pool   *)
(* under it (src/src/client/pool.rs:166-176): a hop of a call is tried     *)
(* once, and a second time at most; each try reaches a server once at      *)
(* most; the call goes on to the next hop, or ends well, only with what a  *)
(* server answered to the last try of this hop.                            *)
(***************************************************************************)
EXTENDS Naturals

CONSTANTS
    Call,       \* the calls made on one Client
    Origin,     \* what their URLs may point to
    MaxHops     \* requests one call may send, resends not counted

VARIABLES
    state,      \* of each call
    hop,        \* the number of redirects it has followed
    origin,     \* where the current hop goes
    tries,      \* the tries that this hop has begun
    processed,  \* how often a server has processed its request
    heard       \* whether one did in the last try, which has not failed since

vars == <<state, hop, origin, tries, processed, heard>>

Start(c) ==
    /\ state[c] = "idle"
    /\ state' = [state EXCEPT ![c] = "running"]
    /\ UNCHANGED <<hop, origin, tries, processed, heard>>

Process(c) ==
    /\ state[c] = "running"
    /\ ~heard[c]
    /\ processed[c] < tries[c]
    /\ processed' = [processed EXCEPT ![c] = @ + 1]
    /\ heard' = [heard EXCEPT ![c] = TRUE]
    /\ UNCHANGED <<state, hop, origin, tries>>

\* The first try failed, before or after a server processed the request.
Retry(c) ==
    /\ state[c] = "running"
    /\ tries[c] = 1
    /\ tries' = [tries EXCEPT ![c] = 2]
    /\ heard' = [heard EXCEPT ![c] = FALSE]
    /\ UNCHANGED <<state, hop, origin, processed>>

Redirect(c) ==
    /\ state[c] = "running"
    /\ heard[c]
    /\ hop[c] + 1 < MaxHops
    /\ hop' = [hop EXCEPT ![c] = @ + 1]
    /\ \E o \in Origin : origin' = [origin EXCEPT ![c] = o]
    /\ tries' = [tries EXCEPT ![c] = 1]
    /\ processed' = [processed EXCEPT ![c] = 0]
    /\ heard' = [heard EXCEPT ![c] = FALSE]
    /\ UNCHANGED state

End(c, how) ==
    /\ state[c] = "running"
    /\ state' = [state EXCEPT ![c] = how]
    /\ heard' = [heard EXCEPT ![c] = FALSE]
    /\ UNCHANGED <<hop, origin, tries, processed>>

\* A response, or the end of the hops, comes from a server that was heard.
Finish(c) == heard[c] /\ End(c, "ok")
Limit(c)  == heard[c] /\ hop[c] + 1 = MaxHops /\ End(c, "limit")

\* An error of the last try, or the caller drops the call.
Break(c) == \E how \in {"err", "gone"} : End(c, how)

Init ==
    /\ state = [c \in Call |-> "idle"]
    /\ hop = [c \in Call |-> 0]
    /\ origin \in [Call -> Origin]
    /\ tries = [c \in Call |-> 1]
    /\ processed = [c \in Call |-> 0]
    /\ heard = [c \in Call |-> FALSE]

Next == \E c \in Call :
    \/ Start(c) \/ Process(c) \/ Retry(c) \/ Redirect(c)
    \/ Finish(c) \/ Limit(c) \/ Break(c)

Spec == Init /\ [][Next]_vars

=============================================================================
