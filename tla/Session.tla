------------------------------ MODULE Session ------------------------------
(***************************************************************************)
(* What a pooled connection of quik promises, whichever transport is under *)
(* it: the send of PooledConnection (src/src/client/pool.rs) together with *)
(* the collection of the body (src/src/client/response.rs).  The two       *)
(* implementations are QuicDriver and Http2Session.                        *)
(*                                                                         *)
(* A call is heard by the server at most once, and only while the session  *)
(* is up.  A call that ends well has the answer that the server completed  *)
(* for it, whole; an answer never comes after the session is gone, but one *)
(* that came before is not lost with it.                                   *)
(***************************************************************************)
CONSTANTS
    Call,       \* the requests sent on one session
    Answers,    \* what a server may answer
    NoAnswer    \* none yet: not one of the Answers

VARIABLES
    state,      \* of the session
    call,       \* where each call is
    processed,  \* whether the server has got its request
    answer,     \* the server's complete answer to it, or NoAnswer
    result      \* what a call that ended well returned, or NoAnswer

vars == <<state, call, processed, answer, result>>

\* The handshake is complete, or the session was up from the start.
Open ==
    /\ state = "connecting"
    /\ state' = "open"
    /\ UNCHANGED <<call, processed, answer, result>>

Close ==
    /\ state # "closed"
    /\ state' = "closed"
    /\ UNCHANGED <<call, processed, answer, result>>

Offer(c) ==
    /\ call[c] = "idle"
    /\ call' = [call EXCEPT ![c] = "waiting"]
    /\ UNCHANGED <<state, processed, answer, result>>

\* The server gets the request, of a call that was dropped as well.
Process(c) ==
    /\ state = "open"
    /\ call[c] \in {"waiting", "gone"}
    /\ ~processed[c]
    /\ processed' = [processed EXCEPT ![c] = TRUE]
    /\ UNCHANGED <<state, call, answer, result>>

Complete(c) ==
    /\ state = "open"
    /\ processed[c]
    /\ answer[c] = NoAnswer
    /\ answer'[c] \in Answers
    /\ answer' = [answer EXCEPT ![c] = answer'[c]]
    /\ UNCHANGED <<state, call, processed, result>>

Deliver(c) ==
    /\ call[c] = "waiting"
    /\ answer[c] # NoAnswer
    /\ call' = [call EXCEPT ![c] = "ok"]
    /\ result' = [result EXCEPT ![c] = answer[c]]
    /\ UNCHANGED <<state, processed, answer>>

\* The session refuses the call, breaks under it, or cannot make sense of the
\* answer.
Fail(c) ==
    /\ call[c] \in {"idle", "waiting"}
    /\ call' = [call EXCEPT ![c] = "err"]
    /\ UNCHANGED <<state, processed, answer, result>>

Drop(c) ==
    /\ call[c] = "waiting"
    /\ call' = [call EXCEPT ![c] = "gone"]
    /\ UNCHANGED <<state, processed, answer, result>>

Init ==
    /\ state \in {"connecting", "open"}
    /\ call = [c \in Call |-> "idle"]
    /\ processed = [c \in Call |-> FALSE]
    /\ answer = [c \in Call |-> NoAnswer]
    /\ result = [c \in Call |-> NoAnswer]

Next ==
    \/ Open \/ Close
    \/ \E c \in Call :
        \/ Offer(c) \/ Process(c) \/ Complete(c)
        \/ Deliver(c) \/ Fail(c) \/ Drop(c)

Spec == Init /\ [][Next]_vars

=============================================================================
