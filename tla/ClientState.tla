---------------------------- MODULE ClientState ----------------------------
(***************************************************************************)
(* What the calls of one quik client share besides connections: the cookie *)
(* jar and the cache of client hints (src/src/client/pool.rs).             *)
(*                                                                         *)
(* Each hop reads both before it waits for a connection, puts what it has  *)
(* read into its request, and into the same request again if HTTP/3 fails, *)
(* and stores what the response says.  Calls run on several threads: the   *)
(* reads and the stores take a lock each, and others come between.         *)
(*                                                                         *)
(* A jar is the log of what was stored for a host; the last entry is what  *)
(* it holds.  A cookie that a server sets has a number of its own, and may *)
(* as well be one that expires at once.  Which transport a request takes   *)
(* is ConnectionPool's.                                                    *)
(***************************************************************************)
EXTENDS Naturals, Sequences

CONSTANTS
    Task,       \* calls of get and post
    Origin,     \* what a hint belongs to
    Host,       \* what a cookie belongs to
    HostOf,     \* the host of an origin
    MaxHops,    \* requests in a chain, 10 in the code
    MaxIssue    \* bound: cookies that servers set

ASSUME HostOfAssumption == HostOf \in [Origin -> Host]
ASSUME BoundAssumption == MaxHops \in Nat \ {0} /\ MaxIssue \in Nat

VARIABLES
    jar,        \* jar[h]: the cookies stored for h, in the order of storing
    hints,      \* hint_cache
    issued,     \* how many cookies the servers have set
    asked,      \* the origins whose server has asked for the hint
    pc,         \* where a call is
    hop,        \* its loop counter
    origin,     \* the origin of current_url_str
    cookies,    \* cookie_header: how much of the jar of which host was read
    acceptCh,   \* accept_ch
    sent,       \* the requests of this hop
    got         \* the responses of the call

shared == <<jar, hints>>
servers == <<issued, asked>>
loop == <<hop, origin>>
vars == <<shared, servers, pc, loop, cookies, acceptCh, sent, got>>

Waiting == {"connect", "inflight", "answered"}
Ended   == {"ok", "err"}

Snapshot == [host : Host, upto : Nat]
Request  == [to : Origin, cookie : Snapshot, hint : BOOLEAN, sensitive : BOOLEAN]
Response == [from : Origin, cookie : 0 .. MaxIssue, ask : BOOLEAN]

Last(s) == s[Len(s)]

-----------------------------------------------------------------------------
(* What a request carries *)

Current(t) == [host |-> HostOf[origin[t]], upto |-> Len(jar[HostOf[origin[t]]])]

(* A fault: the jar is read once for a call and not for each hop. *)
MatchesOnce(t) == IF hop[t] = 0 THEN Current(t) ELSE cookies[t]

(* store.matches(&parsed_url) *)
Matches(t) == Current(t)

(* The request before any header; a snapshot of nothing is no cookie. *)
Bare(t) ==
    [to |-> origin[t], cookie |-> [host |-> HostOf[origin[t]], upto |-> 0],
     hint |-> FALSE, sensitive |-> FALSE]

InsertCookie(t, r) == [r EXCEPT !.cookie = cookies[t]]

(* inject_chrome_headers: the hint, and the mark on the cookie that is there. *)
Inject(t, r) == [r EXCEPT !.hint = acceptCh[t], !.sensitive = r.cookie.upto > 0]

(* A fault: the cookie comes after the marks. *)
BuildMarksFirst(t) == InsertCookie(t, Inject(t, Bare(t)))

Build(t) == Inject(t, InsertCookie(t, Bare(t)))

(* A fault: the second request takes what the jar holds by now. *)
RebuildAnew(t) == [Build(t) EXCEPT !.cookie = Current(t)]

(* fallback_request *)
Rebuild(t) == Build(t)

-----------------------------------------------------------------------------
(* What a response leaves *)

(* A fault: the jar that was read before the awaits is put back. *)
JarWithFromSnapshot(t, v) ==
    [jar EXCEPT ![HostOf[origin[t]]] = Append(SubSeq(@, 1, cookies[t].upto), v)]

JarWith(t, v) == [jar EXCEPT ![HostOf[origin[t]]] = Append(@, v)]

(* A fault: a hint is remembered for the host. *)
HintsOfHost(t) == {o \in Origin : HostOf[o] = HostOf[origin[t]]}

Hinted(t) == {origin[t]}

(* A fault: the limit lets one more request pass. *)
HopsLeftOneMore(n) == n <= MaxHops

HopsLeft(n) == n < MaxHops

-----------------------------------------------------------------------------
(* One hop of a call *)

ReadCookies(t) ==
    /\ pc[t] = "cookies"
    /\ cookies' = [cookies EXCEPT ![t] = Matches(t)]
    /\ pc' = [pc EXCEPT ![t] = "hints"]
    /\ UNCHANGED <<shared, servers, loop, acceptCh, sent, got>>

ReadHints(t) ==
    /\ pc[t] = "hints"
    /\ acceptCh' = [acceptCh EXCEPT ![t] = origin[t] \in hints]
    /\ pc' = [pc EXCEPT ![t] = "connect"]
    /\ UNCHANGED <<shared, servers, loop, cookies, sent, got>>

(* A connection is there, at last; the request is built and sent. *)
Transmit(t) ==
    /\ pc[t] = "connect"
    /\ sent' = [sent EXCEPT ![t] = <<Build(t)>>]
    /\ pc' = [pc EXCEPT ![t] = "inflight"]
    /\ UNCHANGED <<shared, servers, loop, cookies, acceptCh, got>>

(* The send failed on HTTP/3 and is repeated on HTTP/2. *)
Resend(t) ==
    /\ pc[t] = "inflight"
    /\ Len(sent[t]) = 1
    /\ sent' = [sent EXCEPT ![t] = Append(@, Rebuild(t))]
    /\ UNCHANGED <<shared, servers, pc, loop, cookies, acceptCh, got>>

(* The server answers.  The answer may be long under way. *)
Answer(t) ==
    /\ pc[t] = "inflight"
    /\ \E set \in BOOLEAN, ask \in BOOLEAN :
        /\ set => issued < MaxIssue
        /\ issued' = IF set THEN issued + 1 ELSE issued
        /\ asked' = IF ask THEN asked \cup {origin[t]} ELSE asked
        /\ got' = [got EXCEPT ![t] = Append(@,
                    [from |-> origin[t], cookie |-> IF set THEN issued' ELSE 0, ask |-> ask])]
    /\ pc' = [pc EXCEPT ![t] = "answered"]
    /\ UNCHANGED <<shared, loop, cookies, acceptCh, sent>>

(* store_cookies *)
StoreCookies(t) ==
    /\ pc[t] = "answered"
    /\ jar' = IF Last(got[t]).cookie = 0 THEN jar ELSE JarWith(t, Last(got[t]).cookie)
    /\ pc' = [pc EXCEPT ![t] = "store"]
    /\ UNCHANGED <<hints, servers, loop, cookies, acceptCh, sent, got>>

(* store_hints, and the decision about the next hop. *)
StoreHints(t) ==
    /\ pc[t] = "store"
    /\ hints' = IF Last(got[t]).ask THEN hints \cup Hinted(t) ELSE hints
    /\ \/ pc' = [pc EXCEPT ![t] = "ok"] /\ UNCHANGED <<loop, sent>>
       \/ /\ hop' = [hop EXCEPT ![t] = @ + 1]
          /\ pc' = [pc EXCEPT ![t] = IF HopsLeft(hop'[t]) THEN "cookies" ELSE "err"]
          /\ \E next \in Origin : origin' = [origin EXCEPT ![t] = next]
          /\ sent' = [sent EXCEPT ![t] = <<>>]
    /\ UNCHANGED <<jar, servers, cookies, acceptCh, got>>

(* No connection, no response, or a caller that drops its future at an await. *)
Break(t) ==
    /\ pc[t] \in Waiting
    /\ pc' = [pc EXCEPT ![t] = "err"]
    /\ sent' = [sent EXCEPT ![t] = <<>>]
    /\ got' = [got EXCEPT ![t] = <<>>]
    /\ UNCHANGED <<shared, servers, loop, cookies, acceptCh>>

Quiesce == (\A t \in Task : pc[t] \in Ended) /\ UNCHANGED vars

Init ==
    /\ jar = [h \in Host |-> <<>>]
    /\ hints = {}
    /\ issued = 0
    /\ asked = {}
    /\ pc = [t \in Task |-> "cookies"]
    /\ hop = [t \in Task |-> 0]
    /\ origin \in [Task -> Origin]
    /\ cookies = [t \in Task |-> [host |-> HostOf[origin[t]], upto |-> 0]]
    /\ acceptCh = [t \in Task |-> FALSE]
    /\ sent = [t \in Task |-> <<>>]
    /\ got = [t \in Task |-> <<>>]

Next ==
    \/ \E t \in Task :
        \/ ReadCookies(t) \/ ReadHints(t)
        \/ Transmit(t) \/ Resend(t) \/ Answer(t)
        \/ StoreCookies(t) \/ StoreHints(t)
        \/ Break(t)
    \/ Quiesce

Spec == Init /\ [][Next]_vars

-----------------------------------------------------------------------------

(* Every variable stays in its domain, and no request is prepared at the limit
   (pool.rs:192). *)
TypeOK ==
    /\ jar \in [Host -> Seq(1 .. MaxIssue)]
    /\ hints \subseteq Origin
    /\ issued \in 0 .. MaxIssue
    /\ asked \subseteq Origin
    /\ pc \in [Task -> {"cookies", "hints", "store"} \cup Waiting \cup Ended]
    /\ hop \in [Task -> 0 .. MaxHops]
    /\ \A t \in Task : hop[t] = MaxHops => pc[t] = "err"
    /\ origin \in [Task -> Origin]
    /\ cookies \in [Task -> Snapshot]
    /\ acceptCh \in [Task -> BOOLEAN]
    /\ sent \in [Task -> Seq(Request)]
    /\ got \in [Task -> Seq(Response)]

(* The cookies that a snapshot holds or held before. *)
Stored(s) == {jar[s.host][i] : i \in 1 .. s.upto}

(* A call sees what it was told: when it sends a request, also after a redirect
   and whatever others store meanwhile, what earlier responses of the same call
   have set for the host is in the request or was replaced since, and a hint that
   this origin has asked for is there (pool.rs:222-245, 462-464). *)
ReadYourWrites ==
    \A t \in Task : \A j \in 1 .. Len(sent[t]) : \A i \in 1 .. hop[t] :
        LET request == sent[t][j]
            response == got[t][i] IN
        /\ response.cookie # 0 /\ HostOf[response.from] = HostOf[request.to]
              => response.cookie \in Stored(request.cookie)
        /\ response.ask /\ response.from = request.to => request.hint

(* A cookie goes to the host that set it only (pool.rs:229). *)
CookieToOwner ==
    \A t \in Task : \A j \in 1 .. Len(sent[t]) :
        sent[t][j].cookie.host = HostOf[sent[t][j].to]

(* "Chrome only sends platform-version if explicitly solicited via Accept-CH in
   previous responses" (request.rs:67): by the same origin. *)
HintSolicited ==
    \A t \in Task : \A j \in 1 .. Len(sent[t]) : sent[t][j].hint => sent[t][j].to \in asked

(* A request that is sent again is the same request, whatever was stored since
   (pool.rs:419-450). *)
SameTwice ==
    \A t \in Task : \A i, j \in 1 .. Len(sent[t]) : sent[t][i] = sent[t][j]

(* "cookie and authorization headers are marked as sensitive" (request.rs:46), the
   cookie of a repeated request too. *)
NeverIndexed ==
    \A t \in Task : \A j \in 1 .. Len(sent[t]) :
        sent[t][j].cookie.upto > 0 => sent[t][j].sensitive

(* A caller that has its response finds in the jar and the cache what all responses
   of its chain have set, though other calls store at the same time
   (pool.rs:463-464, 573-596). *)
StoredWhenDone ==
    \A t \in Task : pc[t] = "ok" => \A i \in 1 .. Len(got[t]) :
        LET h == HostOf[got[t][i].from] IN
        /\ got[t][i].cookie # 0
              => got[t][i].cookie \in Stored([host |-> h, upto |-> Len(jar[h])])
        /\ got[t][i].ask => got[t][i].from \in hints

=============================================================================
