---------------------- MODULE ConnectionPoolRefinement ----------------------
(***************************************************************************)
(* ConnectionPool implements HttpCall, for any number of calls, origins    *)
(* and connections and any redirect limit.  Each lemma says which step of  *)
(* a call an action of the pool is, or that it is none; the invariant of   *)
(* ConnectionPoolProofs says what holds where the action begins.           *)
(***************************************************************************)
EXTENDS ConnectionPoolProofs

LEMMA InitRefines == Init => H!Init
  BY DEF Init, H!Init, CallState, Tries, Requests, Heard, AtHead, Ended

(* A call that moves from one place of the middle to another is running. *)
LEMMA Invisible ==
    ASSUME IInv, NEW t \in Task, NEW place,
           pc[t] \notin {"idle", "route", "served", "answered"} \cup Ended,
           place \notin {"idle", "route", "served", "answered"} \cup Ended,
           pc' = [pc EXCEPT ![t] = place],
           UNCHANGED <<origin, transport, target, hop, served>>
    PROVE UNCHANGED H!vars
  <1>1. CallState' = CallState
    BY DEF IInv, TypeOK, CallState, Ended
  <1>2. Tries' = Tries /\ Requests' = Requests
    BY DEF IInv, TypeOK, Tries, Requests, AtHead
  <1>3. Heard' = Heard
    BY DEF IInv, TypeOK, Heard
  <1> QED
    BY <1>1, <1>2, <1>3 DEF H!vars

LEMMA BeginRefines ==
    ASSUME IInv, NEW t \in Task, Begin(t)
    PROVE H!Start(t)
  <1>1. CallState[t] = "idle" /\ CallState' = [CallState EXCEPT ![t] = "running"]
    BY DEF Begin, IInv, TypeOK, CallState, Ended
  <1>2. UNCHANGED <<hop, origin, Tries, Requests, Heard>>
    BY DEF Begin, IInv, TypeOK, Tries, Requests, Heard, AtHead
  <1> QED
    BY <1>1, <1>2 DEF H!Start

LEMMA RouteRefines ==
    ASSUME IInv, NEW t \in Task, Route(t)
    PROVE UNCHANGED H!vars
  <1>1. CallState' = CallState
    BY DEF Route, IInv, TypeOK, CallState, Ended
  <1>2. Tries' = Tries /\ Requests' = Requests
    BY DEF Route, IInv, TypeOK, Tries, Requests, AtHead
  <1>3. Heard' = Heard
    BY DEF Route, IInv, TypeOK, Heard
  <1> QED
    BY <1>1, <1>2, <1>3 DEF Route, H!vars

(* Finding, checking and dialing a connection is not seen. *)
LEMMA ConnectRefines ==
    ASSUME IInv, NEW t \in Task,
           \/ Peek(t) \/ Check(t) \/ Clear(t) \/ Acquire(t) \/ FallbackLock(t)
           \/ FailoverLock(t) \/ FailoverCheck(t) \/ \E c \in Conn : DialOk(t, c)
    PROVE UNCHANGED H!vars
  <1>1. \E place \in {"inflight", "check", "acquire", "clear", "peek", "dial", "rfcheck", "rfdial"} :
            pc' = [pc EXCEPT ![t] = place]
    BY DEF Peek, Check, Clear, Acquire, FallbackLock, FailoverLock, FailoverCheck, DialOk, Use
  <1>2. pc[t] \in {"peek", "check", "clear", "acquire", "fbwait", "rfwait", "rfcheck", "dial", "rfdial"}
    BY DEF Peek, Check, Clear, Acquire, FallbackLock, FailoverLock, FailoverCheck, DialOk, Dialing
  <1>3. UNCHANGED <<origin, transport, target, hop, served>>
    BY DEF Peek, Check, Clear, Acquire, FallbackLock, FailoverLock, FailoverCheck, DialOk
  <1> QED
    BY <1>1, <1>2, <1>3, Invisible DEF Ended

(* A call that ends where it was not served ends as its mapping does. *)
LEMMA EndRefines ==
    ASSUME IInv, NEW t \in Task, NEW how \in Ended, End(t, how),
           pc[t] \notin {"idle", "route"} \cup Ended,
           UNCHANGED <<origin, transport, target, hop, served>>
    PROVE H!End(t, how)
  <1>1. CallState[t] = "running" /\ CallState' = [CallState EXCEPT ![t] = how]
    BY DEF End, IInv, TypeOK, CallState, Ended
  <1>2. UNCHANGED <<hop, origin, Tries, Requests>>
    BY DEF End, IInv, TypeOK, Tries, Requests, AtHead, Ended
  <1>3. Heard' = [Heard EXCEPT ![t] = FALSE]
    BY DEF End, IInv, TypeOK, Heard, Ended
  <1> QED
    BY <1>1, <1>2, <1>3 DEF H!End

(* A fallback is the second try of its hop. *)
LEMMA FallbackRefines ==
    ASSUME IInv, NEW t \in Task, NEW place \in {"fbwait", "rfwait"},
           pc[t] \in Sent \cup Dialing, target[t] = "h3",
           pc' = [pc EXCEPT ![t] = place],
           target' = [target EXCEPT ![t] = "h2"],
           UNCHANGED <<origin, transport, hop, served>>
    PROVE H!Retry(t)
  <1>1. transport[t] = "h3"
    BY DEF IInv, TargetInv
  <1>2. CallState[t] = "running" /\ CallState' = CallState
    BY DEF IInv, TypeOK, CallState, Ended, Sent, Dialing
  <1>3. Tries[t] = 1 /\ Tries' = [Tries EXCEPT ![t] = 2]
    BY <1>1 DEF IInv, TypeOK, Tries, AtHead, Sent, Dialing
  <1>4. Requests' = Requests
    BY DEF IInv, TypeOK, Requests, AtHead, Sent, Dialing
  <1>5. Heard' = [Heard EXCEPT ![t] = FALSE]
    BY DEF IInv, TypeOK, Heard
  <1> QED
    BY <1>2, <1>3, <1>4, <1>5 DEF H!Retry

LEMMA DialFailRefines ==
    ASSUME IInv, NEW t \in Task, DialFail(t)
    PROVE H!Retry(t) \/ H!Break(t)
  <1>1. CASE target[t] = "h2"
    <2>1. H!End(t, "err")
      BY <1>1, EndRefines DEF DialFail, Ended, Dialing
    <2> QED
      BY <2>1 DEF H!Break
  <1>2. CASE target[t] = "h3"
    BY <1>2, FallbackRefines DEF DialFail
  <1> QED
    BY <1>1, <1>2 DEF DialFail

(* The invariant leaves a try for the request that is in flight. *)
LEMMA ServeRefines ==
    ASSUME IInv, NEW t \in Task, Serve(t)
    PROVE H!Process(t)
  <1>1. CallState[t] = "running" /\ CallState' = CallState
    BY DEF Serve, IInv, TypeOK, CallState, Ended
  <1>2. Tries' = Tries
    BY DEF Serve, IInv, TypeOK, Tries, AtHead
  <1>3. Requests[t] < Tries[t]
    BY DEF Serve, IInv, TypeOK, ServedInv, Earlier, Tries, Requests, AtHead
  <1>4. Requests' = [Requests EXCEPT ![t] = @ + 1]
    BY DEF Serve, IInv, TypeOK, Requests, AtHead
  <1>5. ~Heard[t] /\ Heard' = [Heard EXCEPT ![t] = TRUE]
    BY DEF Serve, IInv, TypeOK, Heard
  <1> QED
    BY <1>1, <1>2, <1>3, <1>4, <1>5 DEF Serve, H!Process

LEMMA FailRefines ==
    ASSUME IInv, NEW t \in Task, Fail(t)
    PROVE H!Retry(t) \/ H!Break(t)
  <1>1. CASE target[t] = "h3"
    BY <1>1, FallbackRefines DEF Fail, Retries
  <1>2. CASE target[t] # "h3"
    <2>1. H!End(t, "err")
      BY <1>2, EndRefines DEF Fail, Retries, Ended, Sent
    <2> QED
      BY <2>1 DEF H!Break
  <1> QED
    BY <1>1, <1>2

(* The answer was heard when the server gave it; that it arrives is not seen. *)
LEMMA ReceiveRefines ==
    ASSUME IInv, NEW t \in Task, Receive(t)
    PROVE UNCHANGED H!vars
  <1>1. CallState' = CallState
    BY DEF Receive, IInv, TypeOK, CallState, Ended
  <1>2. Tries' = Tries /\ Requests' = Requests
    BY DEF Receive, IInv, TypeOK, Tries, Requests, AtHead
  <1>3. Heard' = Heard
    BY DEF Receive, IInv, TypeOK, Heard
  <1> QED
    BY <1>1, <1>2, <1>3 DEF Receive, H!vars

LEMMA RedirectRefines ==
    ASSUME IInv, NEW t \in Task, NEW o \in Origin,
           pc[t] = "answered", HopsLeft(t),
           origin' = [origin EXCEPT ![t] = o],
           hop' = [hop EXCEPT ![t] = @ + 1],
           pc' = [pc EXCEPT ![t] = "route"],
           UNCHANGED <<transport, target, served>>
    PROVE H!Redirect(t)
  <1>1. CallState[t] = "running" /\ CallState' = CallState
    BY DEF IInv, TypeOK, CallState, Ended
  <1>2. Tries' = [Tries EXCEPT ![t] = 1]
    BY DEF IInv, TypeOK, Tries, AtHead
  <1>3. Requests' = [Requests EXCEPT ![t] = 0]
    BY DEF IInv, TypeOK, Requests, AtHead
  <1>4. Heard[t] /\ Heard' = [Heard EXCEPT ![t] = FALSE]
    BY DEF IInv, TypeOK, Heard
  <1> QED
    BY <1>1, <1>2, <1>3, <1>4 DEF H!Redirect, HopsLeft

LEMMA RespondRefines ==
    ASSUME IInv, NEW t \in Task, Respond(t)
    PROVE H!Redirect(t) \/ H!Finish(t) \/ H!Limit(t)
  <1>1. Heard[t]
    BY DEF Respond, Heard
  <1>2. CASE End(t, "ok") /\ UNCHANGED <<origin, hop>>
    BY <1>1, <1>2, EndRefines DEF Respond, H!Finish, Ended
  <1>3. CASE ~HopsLeft(t) /\ End(t, "limit") /\ UNCHANGED <<origin, hop>>
    <2>1. hop[t] + 1 = MaxHops
      BY <1>3, MaxHopsAssumption DEF IInv, TypeOK, HopsLeft
    <2> QED
      BY <1>1, <1>3, <2>1, EndRefines DEF Respond, H!Limit, Ended
  <1>4. ASSUME NEW o \in Origin,
               HopsLeft(t),
               origin' = [origin EXCEPT ![t] = o],
               hop' = [hop EXCEPT ![t] = @ + 1],
               pc' = [pc EXCEPT ![t] = "route"]
        PROVE  H!Redirect(t)
    BY <1>4, RedirectRefines DEF Respond
  <1> QED
    BY <1>2, <1>3, <1>4 DEF Respond

LEMMA CancelRefines ==
    ASSUME IInv, NEW t \in Task, Cancel(t)
    PROVE H!Break(t)
  <1>1. H!End(t, "gone")
    BY EndRefines DEF Cancel, Ended, Waiting, Holding, Dialing, Sent
  <1> QED
    BY <1>1 DEF H!Break

(* The network changes nothing that a call tells of. *)
LEMMA NetworkRefines ==
    ASSUME UNCHANGED calls
    PROVE UNCHANGED H!vars
  BY DEF calls, H!vars, CallState, Tries, Requests, Heard, AtHead

LEMMA NextRefines == IInv /\ [Next]_vars => [H!Next]_(H!vars)
  <1> SUFFICES ASSUME IInv, [Next]_vars
               PROVE  [H!Next]_(H!vars)
    OBVIOUS
  <1>1. ASSUME NEW t \in Task, Begin(t)
        PROVE  H!Next
    BY <1>1, BeginRefines DEF H!Next
  <1>2. ASSUME NEW t \in Task, Serve(t)
        PROVE  H!Next
    BY <1>2, ServeRefines DEF H!Next
  <1>3. ASSUME NEW t \in Task, DialFail(t) \/ Fail(t)
        PROVE  H!Next
    BY <1>3, DialFailRefines, FailRefines DEF H!Next
  <1>4. ASSUME NEW t \in Task, Respond(t)
        PROVE  H!Next
    BY <1>4, RespondRefines DEF H!Next
  <1>5. ASSUME NEW t \in Task, Cancel(t)
        PROVE  H!Next
    BY <1>5, CancelRefines DEF H!Next
  <1>6. ASSUME NEW t \in Task, Route(t) \/ Receive(t)
        PROVE  UNCHANGED H!vars
    BY <1>6, RouteRefines, ReceiveRefines
  <1>7. ASSUME NEW t \in Task,
               \/ Peek(t) \/ Check(t) \/ Clear(t) \/ Acquire(t) \/ FallbackLock(t)
               \/ FailoverLock(t) \/ FailoverCheck(t) \/ \E c \in Conn : DialOk(t, c)
        PROVE  UNCHANGED H!vars
    BY <1>7, ConnectRefines
  <1>8. ASSUME UNCHANGED calls
        PROVE  UNCHANGED H!vars
    BY <1>8, NetworkRefines
  <1> QED
    BY <1>1, <1>2, <1>3, <1>4, <1>5, <1>6, <1>7, <1>8
    DEF Next, Handshake, Close, Quiesce, vars

(* However calls share connections, fall back and are dropped, each of them is a
   call as HttpCall has it (pool.rs:166-176): two tries of a hop at most, and no
   redirect, success or limit without an answer to the last one. *)
THEOREM PoolImplementsHttpCall == Spec => ImplementsHttpCall
  <1>1. Init => H!Init
    BY InitRefines
  <1>2. IInv /\ [Next]_vars => [H!Next]_(H!vars)
    BY NextRefines
  <1> QED
    BY <1>1, <1>2, Invariance, PTL DEF Spec, ImplementsHttpCall, H!Spec

=============================================================================
