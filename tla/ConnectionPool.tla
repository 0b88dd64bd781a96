--------------------------- MODULE ConnectionPool ---------------------------
(***************************************************************************)
(* The connection pool of quik's Client (src/src/client/pool.rs).          *)
(*                                                                         *)
(* A task is one call of Client::get or Client::post: a future that runs   *)
(* execute_with_redirects on any worker thread of the runtime, and that    *)
(* its caller may drop at every await.  Tasks share the pool, a map from a *)
(* key (an origin and a transport) to a tokio mutex around                 *)
(* Option<PooledConnection>, and the Alt-Svc cache, which decides between  *)
(* HTTP/2 and HTTP/3.  One action is the code between two awaits, or the   *)
(* code between two accesses to the shared state.                          *)
(*                                                                         *)
(* The proxy prefix of a pool key is a constant of one Client and is left  *)
(* out, as are the headers and the body of a request (RedirectChain).      *)
(***************************************************************************)
EXTENDS Naturals, FiniteSets

CONSTANTS
    Task,       \* the calls made on one Client and its clones
    Origin,     \* authority:port pairs
    AltSvcKey,  \* the one under which an advertisement of each is filed
    Conn,       \* identities of connections, each dialed at most once
    NoTask,     \* "the mutex is free"
    NoConn,     \* None
    MaxHops,    \* requests one call may send: the 10 of `for hop in 0..10`
    H2Faults    \* whether TCP dials, connections and streams may fail

ASSUME AltSvcKeyAssumption == AltSvcKey \in [Origin -> Origin]
ASSUME NoTaskAssumption == NoTask \notin Task
ASSUME NoConnAssumption == NoConn \notin Conn
ASSUME MaxHopsAssumption == MaxHops \in Nat \ {0}
ASSUME H2FaultsAssumption == H2Faults \in BOOLEAN

Proto == {"h2", "h3"}
Key   == Origin \X Proto
NoKey == <<>>

\* How a call ends: its response, an error, the redirect limit, or dropped.
Ended == {"ok", "err", "limit", "gone"}

\* Where a call dials: "rfdial" once its request failed in flight.
Dialing == {"dial", "rfdial"}

\* Where a call holds the mutex of TargetKey whatever happened before, or waits
\* for it.
Holding == Dialing \cup {"rfcheck"}
Waiting == {"peek", "clear", "acquire", "fbwait", "rfwait"}

\* Where a call has sent its request and awaits the response.
Sent == {"inflight", "served"}

PC == {"idle", "route", "check", "answered"}
        \cup Holding \cup Waiting \cup Sent \cup Ended

VARIABLES
    altSvc,     \* the keys of AltSvcCache: origins known to speak HTTP/3
    slot,       \* the pool: the connection under each mutex, or NoConn
    holder,     \* the task that owns each mutex, or NoTask
    phase,      \* state of each connection
    key,        \* what each connection was dialed for
    pc,         \* where each task is in execute_with_redirects
    origin,     \* the origin of its current URL
    transport,  \* transport_proto, as this hop was routed
    target,     \* the transport whose mutex it works on: "h2" after a fallback
    conn,       \* pooled_client: the connection it was handed, or NoConn
    hop,        \* the loop counter
    served      \* how often a server has processed this hop's request

shared == <<altSvc, slot, holder>>
wires  == <<phase, key>>
calls  == <<pc, origin, transport, target, conn, hop, served>>
vars   == <<shared, wires, calls>>

-----------------------------------------------------------------------------

(* A fault of the limit test: one request too many. *)
HopsLeftOffByOne(t) == hop[t] < MaxHops

HopsLeft(t) == hop[t] + 1 < MaxHops

(* A fault of the fallback: still the pool key the hop was routed to. *)
TargetKeyAsRouted(t) == <<origin[t], transport[t]>>

(* The pool key a task works on. *)
TargetKey(t) == <<origin[t], target[t]>>

(* A fault: a pool without mutexes. *)
FreeAlways(k) == k \in Key

Free(k) == holder[k] = NoTask

(* A fault: only the inner of two nested guards is dropped. *)
ReleaseInner(t) == [holder EXCEPT ![TargetKey(t)] = NoTask]

(* A task leaves the scopes of its guards: the loop that finds a connection, or
   the block of the failover, which ends with the response to its request. *)
Release(t) == [k \in Key |-> IF holder[k] = t THEN NoTask ELSE holder[k]]

(* A task's future completes, or is dropped, with all it owns. *)
End(t, how) ==
    /\ pc' = [pc EXCEPT ![t] = how]
    /\ conn' = [conn EXCEPT ![t] = NoConn]
    /\ holder' = Release(t)

(* A task sends its request on connection c. *)
Use(t, c) ==
    /\ conn' = [conn EXCEPT ![t] = c]
    /\ pc' = [pc EXCEPT ![t] = "inflight"]

(* AltSvcCache::remove and store_alt_svc: what a response may add to the cache.
   The port of a URL without one is 443 here, where Route takes 80 for http. *)
Evict(t)      == altSvc' = altSvc \ {origin[t]}
Advertised(t) == {{}, {AltSvcKey[origin[t]]}}

-----------------------------------------------------------------------------
(* A hop: route it, look for a pooled connection, dial one if there is none *)

(* get, post: the future of the call is polled for the first time. *)
Begin(t) ==
    /\ pc[t] = "idle"
    /\ pc' = [pc EXCEPT ![t] = "route"]
    /\ UNCHANGED <<shared, wires, origin, transport, target, conn, hop, served>>

(* The Alt-Svc lookup fixes the transport and with it the pool key. *)
Route(t) ==
    /\ pc[t] = "route"
    /\ LET proto == IF origin[t] \in altSvc THEN "h3" ELSE "h2"
       IN  /\ transport' = [transport EXCEPT ![t] = proto]
           /\ target' = [target EXCEPT ![t] = proto]
    /\ served' = [served EXCEPT ![t] = 0]
    /\ pc' = [pc EXCEPT ![t] = "peek"]
    /\ UNCHANGED <<shared, wires, origin, conn, hop>>

(* The slot is cloned under its mutex, which is released at once.  An HTTP/3
   session is used as it is: its driver is trusted to handle everything. *)
Peek(t) ==
    /\ pc[t] = "peek"
    /\ Free(TargetKey(t))
    /\ LET c == slot[TargetKey(t)]
       IN  \/ /\ c = NoConn
              /\ pc' = [pc EXCEPT ![t] = "acquire"]
              /\ UNCHANGED conn
           \/ /\ c # NoConn
              /\ conn' = [conn EXCEPT ![t] = c]
              /\ pc' = [pc EXCEPT ![t] = IF target[t] = "h3" THEN "inflight"
                                                             ELSE "check"]
    /\ UNCHANGED <<shared, wires, origin, transport, target, hop, served>>

(* h2.ready() on the clone, outside the mutex: an error of the connection. *)
Check(t) ==
    /\ pc[t] = "check"
    /\ \/ /\ phase[conn[t]] = "open"
          /\ pc' = [pc EXCEPT ![t] = "inflight"]
          /\ UNCHANGED conn
       \/ /\ phase[conn[t]] # "open"
          /\ pc' = [pc EXCEPT ![t] = "clear"]
          /\ conn' = [conn EXCEPT ![t] = NoConn]
    /\ UNCHANGED <<shared, wires, origin, transport, target, hop, served>>

(* `*guard = None`, whatever the slot holds by now. *)
Clear(t) ==
    /\ pc[t] = "clear"
    /\ Free(TargetKey(t))
    /\ slot' = [slot EXCEPT ![TargetKey(t)] = NoConn]
    /\ pc' = [pc EXCEPT ![t] = "peek"]
    /\ UNCHANGED <<altSvc, holder, wires, origin, transport, target, conn, hop, served>>

(* A fault: the second look at the slot, now under the mutex, is missing. *)
AcquireUnchecked(t) ==
    /\ pc[t] = "acquire"
    /\ Free(TargetKey(t))
    /\ holder' = [holder EXCEPT ![TargetKey(t)] = t]
    /\ pc' = [pc EXCEPT ![t] = "dial"]
    /\ UNCHANGED <<altSvc, slot, wires, origin, transport, target, conn, hop, served>>

(* Lock an empty slot to dial; a slot filled meanwhile sends the task back. *)
Acquire(t) ==
    /\ pc[t] = "acquire"
    /\ Free(TargetKey(t))
    /\ \/ /\ slot[TargetKey(t)] = NoConn
          /\ holder' = [holder EXCEPT ![TargetKey(t)] = t]
          /\ pc' = [pc EXCEPT ![t] = "dial"]
       \/ /\ slot[TargetKey(t)] # NoConn
          /\ pc' = [pc EXCEPT ![t] = "peek"]
          /\ UNCHANGED holder
    /\ UNCHANGED <<altSvc, slot, wires, origin, transport, target, conn, hop, served>>

(* Client::dial returns a connection, which goes to the slot and to the task.
   TCP and TLS are up by then; the QUIC handshake has not begun.  In a failover
   the guard outlives the send. *)
DialOk(t, c) ==
    /\ pc[t] \in Dialing
    /\ phase[c] = "unused"
    /\ phase' = [phase EXCEPT ![c] = IF target[t] = "h3" THEN "connecting" ELSE "open"]
    /\ key' = [key EXCEPT ![c] = <<origin[t], target[t]>>]
    /\ slot' = [slot EXCEPT ![TargetKey(t)] = c]
    /\ Use(t, c)
    /\ holder' = IF pc[t] = "dial" THEN Release(t) ELSE holder
    /\ UNCHANGED <<altSvc, origin, transport, target, hop, served>>

(* Client::dial fails.  Over TCP the call fails; over UDP the origin is
   evicted and the task goes for the HTTP/2 slot, its HTTP/3 guard still held. *)
DialFail(t) ==
    /\ pc[t] \in Dialing
    /\ \/ /\ target[t] = "h2"
          /\ H2Faults
          /\ End(t, "err")
          /\ UNCHANGED <<altSvc, target>>
       \/ /\ target[t] = "h3"
          /\ Evict(t)
          /\ target' = [target EXCEPT ![t] = "h2"]
          /\ pc' = [pc EXCEPT ![t] = "fbwait"]
          /\ UNCHANGED <<holder, conn>>
    /\ UNCHANGED <<slot, wires, origin, transport, hop, served>>

(* The HTTP/2 slot after a failed UDP dial: what it holds is used unchecked,
   an empty one is dialed under both mutexes. *)
FallbackLock(t) ==
    /\ pc[t] = "fbwait"
    /\ Free(TargetKey(t))
    /\ \/ /\ slot[TargetKey(t)] # NoConn
          /\ Use(t, slot[TargetKey(t)])
          /\ holder' = Release(t)
       \/ /\ slot[TargetKey(t)] = NoConn
          /\ holder' = [holder EXCEPT ![TargetKey(t)] = t]
          /\ pc' = [pc EXCEPT ![t] = "dial"]
          /\ UNCHANGED conn
    /\ UNCHANGED <<altSvc, slot, wires, origin, transport, target, hop, served>>

-----------------------------------------------------------------------------
(* The request in flight, and its second chance over HTTP/2 *)

(* The server of the connection processes the request. *)
Serve(t) ==
    /\ pc[t] = "inflight"
    /\ phase[conn[t]] = "open"
    /\ served' = [served EXCEPT ![t] = @ + 1]
    /\ pc' = [pc EXCEPT ![t] = "served"]
    /\ UNCHANGED <<shared, wires, origin, transport, target, conn, hop>>

(* Faults: no request, or every request, gets a second chance. *)
RetriesNever(t)  == FALSE /\ t \in Task
RetriesAlways(t) == t \in Task

(* `if let PooledConnection::Http3(_) = pooled_client`, before the fallback
   has replaced the connection. *)
Retries(t) == target[t] = "h3"

(* pooled_client.send fails, whether or not the server saw the request.
   HTTP/3 is evicted and the request goes to HTTP/2; HTTP/2 is final. *)
Fail(t) ==
    /\ pc[t] \in Sent
    /\ target[t] = "h2" => H2Faults
    /\ \/ /\ Retries(t)
          /\ Evict(t)
          /\ target' = [target EXCEPT ![t] = "h2"]
          /\ pc' = [pc EXCEPT ![t] = "rfwait"]
          /\ conn' = [conn EXCEPT ![t] = NoConn]
          /\ UNCHANGED holder
       \/ /\ ~Retries(t)
          /\ End(t, "err")
          /\ UNCHANGED <<altSvc, target>>
    /\ UNCHANGED <<slot, wires, origin, transport, hop, served>>

(* A fault, which a release of quik had: every failover dials. *)
FailoverLockDials(t) ==
    /\ pc[t] = "rfwait"
    /\ Free(TargetKey(t))
    /\ holder' = [holder EXCEPT ![TargetKey(t)] = t]
    /\ pc' = [pc EXCEPT ![t] = "rfdial"]
    /\ UNCHANGED <<altSvc, slot, wires, origin, transport, target, conn, hop, served>>

(* The HTTP/2 mutex, kept while the slot is checked or filled, and then until
   the response to the second request. *)
FailoverLock(t) ==
    /\ pc[t] = "rfwait"
    /\ Free(TargetKey(t))
    /\ holder' = [holder EXCEPT ![TargetKey(t)] = t]
    /\ pc' = [pc EXCEPT ![t] = IF slot[TargetKey(t)] = NoConn THEN "rfdial" ELSE "rfcheck"]
    /\ UNCHANGED <<altSvc, slot, wires, origin, transport, target, conn, hop, served>>

(* ready() under the mutex: reuse the pooled connection or redial. *)
FailoverCheck(t) ==
    /\ pc[t] = "rfcheck"
    /\ LET c == slot[TargetKey(t)]
       IN  \/ /\ phase[c] = "open"
              /\ Use(t, c)
           \/ /\ phase[c] # "open"
              /\ pc' = [pc EXCEPT ![t] = "rfdial"]
              /\ UNCHANGED conn
    /\ UNCHANGED <<shared, wires, origin, transport, target, hop, served>>

(* The response arrives, and send returns it: the connection and a guard that
   the failover kept are dropped. *)
Receive(t) ==
    /\ pc[t] = "served"
    /\ pc' = [pc EXCEPT ![t] = "answered"]
    /\ conn' = [conn EXCEPT ![t] = NoConn]
    /\ holder' = Release(t)
    /\ UNCHANGED <<altSvc, slot, wires, origin, transport, target, hop, served>>

(* The response is handled.  It may advertise HTTP/3 for its origin; it is the
   result of the call, or a redirect, which the last hop turns into an error. *)
Respond(t) ==
    /\ pc[t] = "answered"
    /\ \E advert \in Advertised(t) : altSvc' = altSvc \cup advert
    /\ \/ /\ End(t, "ok")
          /\ UNCHANGED <<origin, hop>>
       \/ \E o \in Origin :
            /\ HopsLeft(t)
            /\ origin' = [origin EXCEPT ![t] = o]
            /\ hop' = [hop EXCEPT ![t] = @ + 1]
            /\ pc' = [pc EXCEPT ![t] = "route"]
            /\ UNCHANGED <<conn, holder>>
       \/ /\ ~HopsLeft(t)
          /\ End(t, "limit")
          /\ UNCHANGED <<origin, hop>>
    /\ UNCHANGED <<slot, wires, transport, target, served>>

(* The caller drops the future while it awaits. *)
Cancel(t) ==
    /\ pc[t] \in Waiting \cup Holding \cup Sent \cup {"check"}
    /\ End(t, "gone")
    /\ UNCHANGED <<altSvc, slot, wires, origin, transport, target, hop, served>>

-----------------------------------------------------------------------------
(* The network, and the end of all calls *)

\* The driver of an HTTP/3 session completes its handshake.
Handshake(c) ==
    /\ phase[c] = "connecting"
    /\ phase' = [phase EXCEPT ![c] = "open"]
    /\ UNCHANGED <<shared, key, calls>>

\* A connection dies: the peer, an idle timeout, a failed handshake.
Close(c) ==
    /\ phase[c] \in {"connecting", "open"}
    /\ key[c][2] = "h2" => H2Faults
    /\ phase' = [phase EXCEPT ![c] = "closed"]
    /\ UNCHANGED <<shared, key, calls>>

Quiesce ==
    /\ \A t \in Task : pc[t] \in Ended
    /\ UNCHANGED vars

Init ==
    /\ altSvc = {}
    /\ slot = [k \in Key |-> NoConn]
    /\ holder = [k \in Key |-> NoTask]
    /\ phase = [c \in Conn |-> "unused"]
    /\ key = [c \in Conn |-> NoKey]
    /\ pc = [t \in Task |-> "idle"]
    /\ origin \in [Task -> Origin]
    /\ transport = [t \in Task |-> "h2"]
    /\ target = [t \in Task |-> "h2"]
    /\ conn = [t \in Task |-> NoConn]
    /\ hop = [t \in Task |-> 0]
    /\ served = [t \in Task |-> 0]

Next ==
    \/ \E t \in Task :
        \/ Begin(t) \/ Route(t) \/ Peek(t) \/ Check(t) \/ Clear(t) \/ Acquire(t)
        \/ \E c \in Conn : DialOk(t, c)
        \/ DialFail(t) \/ FallbackLock(t)
        \/ Serve(t) \/ Fail(t) \/ FailoverLock(t) \/ FailoverCheck(t)
        \/ Receive(t) \/ Respond(t) \/ Cancel(t)
    \/ \E c \in Conn : Handshake(c) \/ Close(c)
    \/ Quiesce

Spec == Init /\ [][Next]_vars

(* The runtime polls every ready task again, and a tokio mutex is granted in
   the order of its waiters.  Nothing makes a dial or a response end: the code
   sets no timeout on either. *)
Fairness ==
    \A t \in Task :
        /\ WF_vars(Route(t) \/ Check(t) \/ FailoverCheck(t) \/ Respond(t))
        /\ SF_vars(Peek(t) \/ Clear(t) \/ Acquire(t) \/ FallbackLock(t) \/ FailoverLock(t))

FairSpec == Spec /\ Fairness

-----------------------------------------------------------------------------
(* Safety *)

(* Every variable stays in its domain; a hop counter never reaches the limit
   (pool.rs:192). *)
TypeOK ==
    /\ altSvc \subseteq Origin
    /\ slot \in [Key -> Conn \cup {NoConn}]
    /\ holder \in [Key -> Task \cup {NoTask}]
    /\ phase \in [Conn -> {"unused", "connecting", "open", "closed"}]
    /\ key \in [Conn -> Key \cup {NoKey}]
    /\ pc \in [Task -> PC]
    /\ origin \in [Task -> Origin]
    /\ transport \in [Task -> Proto]
    /\ target \in [Task -> Proto]
    /\ conn \in [Task -> Conn \cup {NoConn}]
    /\ hop \in [Task -> 0 .. MaxHops - 1]
    /\ served \in [Task -> 0 .. 2]

(* The promise of the mutex per pool key (pool.rs:257-258): two calls never
   dial the same origin over the same transport at once, on whichever of the
   three paths to dial they came. *)
SingleFlight ==
    \A t, u \in Task :
        pc[t] \in Dialing /\ pc[u] \in Dialing /\ TargetKey(t) = TargetKey(u) => t = u

(* Pool keys isolate origins and transports (pool.rs:216-220): the connection a
   call sends on was dialed for the call's origin over the transport it now
   works with, and so was whatever a slot holds, after any mix of fallbacks. *)
HandoutMatches ==
    /\ \A t \in Task : conn[t] # NoConn => key[conn[t]] = TargetKey(t)
    /\ \A k \in Key : slot[k] # NoConn => key[slot[k]] = k

(* The three uses of a mutex: its owner dials or checks its slot; it is the
   HTTP/3 one of a call that fell back after a failed dial; or it is the HTTP/2
   one of a call whose second request is in flight. *)
MayOwn(t, k) ==
    /\ k[1] = origin[t]
    /\ \/ pc[t] \in Holding /\ k = TargetKey(t)
       \/ pc[t] \in {"fbwait", "dial"} /\ k[2] = "h3" /\ target[t] = "h2"
       \/ pc[t] \in Sent /\ k[2] = "h2" /\ target[t] = "h2" /\ transport[t] = "h3"

(* The locking discipline of the two fallbacks, which take mutexes of two slots
   (pool.rs:299-337, 396-456).  No dropped or ended call owns one, nor a call
   whose first request is in flight or whose response has come; a call that
   waits for a mutex owns at most its HTTP/3 one, so the owner of an HTTP/2
   mutex waits for none. *)
LockDiscipline == \A k \in Key : holder[k] # NoTask => MayOwn(holder[k], k)

(* One hop sends its request at most twice, the second time only after a first
   attempt over HTTP/3 (pool.rs:379-384): a request that went to HTTP/2 reaches
   a server once, whatever fails after. *)
ResendBound ==
    \A t \in Task : pc[t] \in PC \ {"idle", "route"} =>
        served[t] <= IF transport[t] = "h3" /\ target[t] = "h2" THEN 2 ELSE 1

(* Fallbacks reuse the pooled connection (CHANGELOG.md:45): a step that puts
   one connection in the place of another replaces a dead one. *)
OverwriteOnlyDead ==
    [][\A k \in Key :
        slot[k] # NoConn /\ slot'[k] \notin {slot[k], NoConn}
            => phase[slot[k]] = "closed"]_vars

-----------------------------------------------------------------------------
(* A call, seen without the pool *)

CallState == [t \in Task |-> IF pc[t] \in Ended \cup {"idle"} THEN pc[t] ELSE "running"]

\* At the head of the loop nothing of the last hop counts any more.
AtHead(t) == pc[t] \in {"idle", "route"}

Tries == [t \in Task |->
    IF ~AtHead(t) /\ transport[t] = "h3" /\ target[t] = "h2" THEN 2 ELSE 1]

Requests == [t \in Task |-> IF AtHead(t) THEN 0 ELSE served[t]]

Heard == [t \in Task |-> pc[t] = "served" \/ pc[t] = "answered"]

H == INSTANCE HttpCall WITH
        Call      <- Task,
        state     <- CallState,
        tries     <- Tries,
        processed <- Requests,
        heard     <- Heard

(* Mutexes, dead connections, evictions and both fallbacks are invisible
   (pool.rs:166-176): every call tries each hop at most twice, and redirects,
   the limit and success follow only from an answer to the last try. *)
ImplementsHttpCall == H!Spec

-----------------------------------------------------------------------------
(* What the pool promises while TCP works and only UDP fails *)

(* Graceful degradation (pool.rs:171-173): no failure of HTTP/3, at the dial or
   in flight, at any moment and with any number of calls, fails a call. *)
GracefulDegradation == \A t \in Task : pc[t] # "err"

(* No connection storm (pool.rs:257-258): all calls together dial an origin
   once over TCP, and once over UDP if that dial ends. *)
NoStorm ==
    \A c, d \in Conn : key[c] = key[d] /\ key[c] # NoKey => c = d

(* A call that keeps others waiting: it dials, or the request that its failover
   sent under the HTTP/2 mutex is in flight. *)
Lingers(t) ==
    pc[t] \in Dialing \/ (pc[t] \in Sent /\ \E k \in Key : holder[k] = t)

(* No call starves before it has a connection, unless a dial or the response
   to a failover's request never comes (nothing bounds either): otherwise a call
   that was routed sends its request or ends, though fallbacks hold one mutex
   while they wait for another and callers drop calls that hold them. *)
Establishes ==
    (\A t \in Task : []<>~Lingers(t)) =>
        \A t \in Task :
            pc[t] \in Waiting \cup Holding \cup {"route", "check"}
                ~> pc[t] \in Sent \cup {"answered"} \cup Ended

-----------------------------------------------------------------------------
(* What the documents say and the pool does not do *)

(* CHANGELOG.md:70: concurrent requests to one origin spawn no redundant TCP
   connection.  Two live ones mean that one was dialed while the other served. *)
OneLiveConnection ==
    \A c, d \in Conn :
        /\ key[c] = key[d] /\ key[c] # NoKey /\ key[c][2] = "h2"
        /\ phase[c] = "open" /\ phase[d] = "open"
        => c = d

(* README.md:30: sessions are reused after a readiness check.  A session that
   died in its slot is not handed out again. *)
NoDeadHandout ==
    [][\A t \in Task :
        conn'[t] # conn[t] /\ conn'[t] # NoConn /\ pc'[t] = "inflight"
            => phase[conn'[t]] # "closed"]_vars

(* CHANGELOG.md:58: no request waits, for the lock of the pool, for the response
   to another one.  The mutex a call waits for is not owned by one in flight. *)
NoHeadOfLine ==
    \A t \in Task :
        pc[t] \in Waiting /\ ~Free(TargetKey(t)) => pc[holder[TargetKey(t)]] \notin Sent

=============================================================================
