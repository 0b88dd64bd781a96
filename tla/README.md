# quik: a TLA+ model of the client

quik is an HTTP client written in Rust that speaks HTTP/2 (the `http2` crate, a
fork of `h2`, over BoringSSL) and HTTP/3 (`quiche`) the way Chrome does. This
directory holds specifications of the parts of it where order matters: the
connection pool with its two fallbacks, the redirect loop, the driver task of an
HTTP/3 session, the streams and windows of an HTTP/2 connection, the cookies and
client hints that calls share, and the dial through a proxy. Two abstract
specifications say what a session and what a call promise, and the detailed ones
are shown to implement them. All are checked by TLC on small instances; their
safety is proved by TLAPS for every value of their constants. Only the four liveness
properties are not, and of each of them section 5 proves the part that is safety: that
whoever waits has a step of the system that can serve it.

All paths below are relative to the repository; `pool.rs` is
`src/client/pool.rs`, and likewise for its neighbours. In `PROJECT.json` they
carry the prefix `src/`, the directory the repository is checked out in.

Contents: [1 inventory](#1-inventory) · [2 modules](#2-modules-and-how-they-correspond-to-the-code) ·
[3 runs](#3-runs) · [4 fairness](#4-fairness) · [5 proofs](#5-proofs) ·
[6 findings](#6-what-the-code-does-differently) · [7 not modelled](#7-what-is-not-modelled) ·
[8 plan](#8-plan)

## 1 Inventory

| component | state | operations | interacts with |
|---|---|---|---|
| **Pool and routing** (`Client`, pool.rs) | `pool`: a concurrent map from a key (proxy, origin, transport) to `Arc<tokio::Mutex<Option<PooledConnection>>>`; per call `current_url_str`, `pooled_client`, loop counter | `get`, `post` → `execute_with_redirects`; `dial` | reads and evicts the Alt-Svc cache; dials through the connectors; sends on sessions |
| **Alt-Svc cache** (`AltSvcCache`, pool.rs:35-64) | a map from an origin to what it advertised | `insert` (by `store_alt_svc` after each response), `get` (routing), `remove` (after a failure of HTTP/3) | shared by all calls of a client and its clones |
| **Redirect chain** (pool.rs:177-507) | method, body, referer, `sec_fetch_site`, `is_cross_site`, hop | one request per hop; rotate the method, classify the site, resolve the location | request headers (request.rs) |
| **HTTP/3 session and driver** (quic.rs, h3.rs) | a bounded command channel; in the driver task the QUIC connection, `h3_conn`, `pending_requests` | `send`; the branches of the driver's `select!`: a datagram, the timer, a command | callers over the channel and one oneshot each; quiche below |
| **HTTP/2 connector and session** (connector.rs, http2/) | an `h2` send handle cloned by each call, a spawned connection task; the windows set at the handshake | `connect`, `ready`, `send` | TLS connector, proxy tunnel; response bodies use its windows |
| **Proxy tunnel** (proxy.rs) | a stream and a reply buffer | CONNECT, SOCKS5 | before TLS |
| **Cookies, client hints** (pool.rs) | a cookie jar; the set of origins that asked for hints | read before, written after each request | all calls of a client |
| **Response body** (response.rs) | the `h2` receive stream or collected bytes | `bytes`, `text`, decoders | HTTP/2 flow control: capacity is never released while it reads |
| **Request headers** (request.rs) | none | builds the header list | redirect chain, profile |
| **TLS connector, profiles, errors** | none (settings and data) | — | — |

### What is hard

*Concurrency.* A call is a future on a multi-threaded runtime; between two
awaits anything may happen to the shared pool, and its caller may drop it at any
of them. Two mutexes are taken in a nest when an HTTP/3 dial fails. The driver of
an HTTP/3 session runs beside its callers and ends when its connection does.

*Failure.* A dial, a connection, a stream and a handshake fail independently; a
request may have been processed when its connection fails, and is then sent
again; a request body may be taken by the transport in part.

*Ordering.* Alt-Svc advertisements and evictions of one origin come from
different calls; stream events of one session come in any order across streams.

*Time.* No dial, request or body has a timeout of its own; only quiche's idle
timer ends a silent session.

### What makes each component correct

* Pool: one dial at a time per key; a call is given a connection to its own
  origin over the transport it works with; a mutex is owned only by a call that
  dials, checks, has fallen back after a failed dial or awaits the response of its
  failover (the code does keep it there, finding 3); no cycle of waiting; a request
  is sent again at most once, and only from HTTP/3 to HTTP/2; a live pooled
  connection is not replaced; HTTP/3 failures do not fail a call; no call starves
  unless a dial or such a response never ends.
* Redirects: at most ten requests; a body goes as far as its method; a chain that has crossed
  sites says so for good; a path is not told to another site; the response names
  the URL it came from.
* Driver: a caller always hears; what it hears is the whole response to its own
  request; a oneshot is in one place.
* Proxy tunnel: a reply is recognised however the stream splits it; bytes after
  it are not lost.
* Cookies and hints: a call sees what its own responses set; a finished call has
  stored all of it; nothing goes to an owner it does not belong to; a repeated
  request is the same request.
* HTTP/2 session and response body: a body arrives whole or not at all; what a
  dropped or failed response used of the connection window comes back; nothing but
  bodies on their way that fill the windows keeps a call waiting.
* Session, the interface that the pool sees of both transports: a request is heard at
  most once, and a call that ends well has the answer the server completed for it.
* Call, the interface that a caller of `get` and `post` sees: a hop is tried twice at
  most, and goes on only with an answer to its last try.

`PROJECT.json` lists the hazards line by line, each with the properties that
would catch it.

## 2 Modules and how they correspond to the code

| module | what it is | lines it stands for |
|---|---|---|
| `ConnectionPool` | the pool, its calls, the Alt-Svc cache, the connections | pool.rs:147-571, 597-611 |
| `MCConnectionPool` | instances for TLC, symmetry | |
| `ConnectionPoolProofs` | inductive invariant, theorems | |
| `QuicDriver` | one HTTP/3 session: callers, channel, driver, events | quic.rs:99-391 |
| `MCQuicDriver` | instances for TLC | |
| `QuicDriverProofs` | inductive invariant, theorems | |
| `RedirectChain` | the hop loop as the servers see it | pool.rs:177-507 |
| `MCRedirectChain` | six URLs for TLC | |
| `RedirectChainProofs` | inductive invariant, theorems | |
| `TcpDial` | one TCP dial, through a proxy or not | connector.rs:42-147, proxy.rs:41-158 |
| `MCTcpDial` | the replies of a proxy for TLC | |
| `ClientState` | cookie jar and hint cache, and the requests built from them | pool.rs:222-245, 346-464, 574-595; request.rs:49-148 |
| `MCClientState` | three origins of two hosts for TLC | |
| `ClientStateProofs` | inductive invariant, theorems | |
| `TcpDialProofs` | inductive invariant, theorems | |
| `Http2Session` | one HTTP/2 connection: streams, windows, bodies | connector.rs:129-179, response.rs:87-129, handshake.rs:28-36 |
| `MCHttp2Session` | three calls and their codings for TLC | |
| `Http2SessionProofs` | inductive invariant, refinement of `Session` | |
| `Session` | abstract: what a pooled connection promises | |
| `HttpCall` | abstract: what a call of `get` or `post` promises | |
| `QuicDriverRefinement` | `QuicDriver` implements `Session` | |
| `ConnectionPoolRefinement` | `ConnectionPool` implements `HttpCall` | |

The abstract specifications stand for no lines of their own; `PROJECT.json` maps the
modules that implement them. They fit together so:

```
   HttpCall       what get and post promise
      ^ implements
   ConnectionPool      a connection of the pool is used as a session:
      |                open, closed, fails before or after the server has heard
   Session        what PooledConnection::send promises
      ^ implements                 ^ implements
   QuicDriver                   Http2Session   <- TcpDial makes its connection
```

`RedirectChain` and `ClientState` look at the same calls from the side of the servers
and of the caches that calls share.

### ConnectionPool

A **task** is one call of `get` or `post`. `pc[t]` is where it is in
`execute_with_redirects`, one value per await or per access to shared state:

| `pc` | place in pool.rs | leaves by |
|---|---|---|
| `idle`, `route` | before the call; the head of the loop, 192-220 | `Begin`, `Route` |
| `peek` | `mutex.lock().await.clone()`, 268-274 | `Peek` |
| `check` | `h2.ready().await` on the clone, 275-282 | `Check` |
| `clear` | lock again and `*guard = None`, 283-286 | `Clear` |
| `acquire` | lock to dial, and look again, 295-299 | `Acquire` |
| `dial` | `Client::dial` under the mutex, 301-339 | `DialOk`, `DialFail` |
| `fbwait` | the HTTP/2 mutex after a failed UDP dial, 311-336 | `FallbackLock` |
| `inflight`, `served` | `send`, before and after the server has processed the request, 377-379 and 452-455 | `Serve`, `Fail`, `Receive` |
| `rfwait`, `rfcheck`, `rfdial` | the HTTP/2 mutex after a failure in flight, the check and the dial under it, 385-418 | `FailoverLock`, `FailoverCheck`, `DialOk`, `DialFail` |
| `answered` | the response is in hand, no await follows in this hop, 460-503 | `Respond` |
| `ok`, `err`, `limit`, `gone` | the four ends of a call | |

`Cancel` drops the future at any await of the table, with every guard it owns. `target` is
the transport whose mutex the task works on: it starts as `transport`, what the hop was
routed to, and becomes `"h2"` in either fallback; so one `dial` state stands for the first
dial and the one in the fallback after it, which differ by what `holder` says the task owns.
Guards live as long as their scopes, and there are two: the loop that finds a connection
(268-339), whose guards are dropped when it breaks with one, and the block of the failover
(385-456), whose tail expression is the second `send`, so that its guard is dropped when
the response of that one has come. `Release(t)` is the end of such a scope: it drops all
that the task owns. `DialOk` and `FallbackLock` release in the first scope, `Receive` ends
the second; `DialOk` in the failover and `FailoverCheck` keep the mutex. `Serve` is
the server: it separates a request that failed before it was processed from one
that failed after, which is what a resend duplicates. A connection has a `phase`;
`Close` may hit it at any time. An HTTP/2 connection is open when it is dialed
(TCP, TLS and the preface are done), an HTTP/3 session is still `connecting`
because `dial` spawns its driver and returns.

The cache of advertisements is the set `altSvc`. What a response of an origin
advertises is stored under `AltSvcKey[origin]`, because `store_alt_svc` forms its
key without the scheme that the lookup takes into account: for an origin with an
explicit port or an https origin the two agree (`SameKey`), for http on its
default port they do not (`HttpKey`). The theorems hold for any such function.

Abstracted: headers, cookies, bodies (see `RedirectChain`), the proxy prefix of
the key (constant for one client), wall-clock expiry of connections. URLs are
valid: a call with another one ends before it touches the pool.

### QuicDriver

Callers, the channel `chan` (with `Capacity`), the oneshots `reply`/`response`,
and the driver's locals: `quic` (the state quiche reports), `h3`, `pending`,
`partial` (status and body collected per stream). The branches of the `select!`
are actions: `TakeCommand`; the events of a datagram `PollHeaders`, `PollData`,
`PollFinished`, `PollReset`, and the datagrams that establish or drain the
connection, `Establish` and `Drain`; the timer `TimeOut`. `Stop` is the check at
the top of the loop. `Exit` is what returning from `run_quic_driver` does: it
drops the receiver with the commands in it, and the table with its oneshot
senders, and every caller concerned sees `dropped`. The server is a log, `told`,
of what it sent on each stream, and `request`/`whole` what it got.

One packet is one event. The driver drains all events that a packet completes
before it turns to another branch; since each of them touches one stream and
callers cannot observe the loop between two of them except through their oneshot,
splitting a packet adds interleavings and removes none.

### Session and HttpCall

`Session` has a state (`connecting`, `open`, `closed`) and its calls. `Process` hands a
request to the server, once, and only while the session is open; `Complete` is the
server's whole answer; `Deliver` gives a waiting call that answer and no other, also
after the session has closed. `Fail` is possible at any time: neither transport
promises more. `HttpCall` counts: a hop has one or two tries (`Retry`), a server
processes each try at most once (`Process`), and `Redirect`, `Finish` and `Limit` follow
only from a server `heard` in the last try. Neither knows of channels, tables, mutexes,
slots or evictions, so the refinements say that all of these are invisible.

The refinement mapping of `ConnectionPool` reads the tries off `transport` and `target`
(a hop that was routed to HTTP/3 and works on HTTP/2 is in its second), that of
`QuicDriver` reads an answer off the server's log, and that of `Http2Session` off the
stream that has ended.

### Http2Session

The streams of one connection from the side of quik. `Send` and `Respond` are
`QuikConnection::send`; `Take`, `Collect` and `Break` are the turns and the ends of the loop
in `Response::bytes`; `Drop` is a dropped future or `Response`, which is what the redirect
loop does with each response that redirects it. The connection task is the `http2` crate's and
external, and so is the server: `Open` is the queue for a stream, `Headers`, `Data`,
`EndStream` and `Reset` are frames that arrive, `GoAway` and `CloseWire` end the
connection. `InWindows` is the flow control that the handshake sets up
(handshake.rs:32-36): `got` is what counts against the window of a stream and `credit`
what is left of the connection's. `bytes` never calls `release_capacity`, so neither
grows while a body is read; `DropStream` is the only way back, when the
`RecvStream` goes out of scope at the end of the loop or with the call. `Outstanding` is
what has been received and not been given back, piece by piece.
`Decoder` is the chain of `contains` tests on Content-Encoding.

Sizes are in pieces of a body; request bodies, trailers, pushes and priorities are left
out.

### RedirectChain

One call as the servers see it. `Follow(status, next)` is one whole turn of the
loop that ends in a redirect: it sends `Request` (recorded in the history
`sent`), rotates method and body, classifies the site, and moves the URLs.
`Finish`, `Fail` and `GiveUp` are its other ends. Referers are abstracted to what
they tell: the whole URL or only its origin. `get` and `post` are the only ways
in, so the context is always `Navigate`.

### TcpDial

One call of `connect`, `stage` by `stage`, each the place of an await:
`connect`, then `reply` (the loop of a CONNECT proxy) or the seven `read_exact`s
of a SOCKS5 proxy (`method`, `header`, then `ipv4`, `ipv6` or `length` and
`domain`, then `port`), then `tls`, `h2` and `ok`; `refused` is an error of
`dial_proxy`, `failed` one of the other stages. `reply` is everything the proxy
is going to say, `arrived` and `read` are cursors into it. `Arrive` moves the
first by any amount, so a reply is split in every way; `ProxyClose` cuts it
anywhere. A CONNECT reply is a sequence of tokens, a SOCKS5 reply of bytes;
`Buffer` is the size of `buf` in tokens. The target host is known to be short:
`Client::dial` resolves it before it dials, by proxy or not, and no name of more
than 253 bytes resolves, so the length byte of the request does not overflow.

### ClientState

Two locks are taken to read (`ReadCookies`, `ReadHints`) and two to store
(`StoreCookies`, `StoreHints`); between them calls on other threads run, and
between the reads and the stores lie the awaits of a hop: finding a connection
(`connect`), the exchange (`inflight`), the way of the answer (`answered`). There
is no await from `StoreCookies` on, so `Break`, which stands for errors and dropped
calls alike, cannot come between the stores. A jar is a log, so that what a request
carries, a prefix of it, can be told from what was stored later. `Build` is the
request with its headers in the order in which the code inserts them; `Rebuild` is
`fallback_request`. `sent` holds the requests of a hop, `got` the responses of the
chain; they are histories.

Abstracted: a cookie belongs to a host; paths, domains, the secure attribute and
expiry decide which of its cookies match, and are the `cookie_store` crate's. A jar
that the caller shares with others (`ClientBuilder::cookie_store`) is changed by
nobody else.

## 3 Runs

| run | instance | distinct states | shows |
|---|---|---|---|
| `pool_safety` | 2 calls, http and https on the default ports of one host, 4 connections, 2 hops, all faults, symmetry | 308,425 | `TypeOK`, `SingleFlight`, `HandoutMatches`, `LockDiscipline`, `ResendBound`, `OverwriteOnlyDead`, `ImplementsHttpCall` |
| `pool_degradation` | 3 calls, 1 origin, 2 connections, 1 hop, no TCP faults, fair | 56,990 | `GracefulDegradation`, `NoStorm`, `Establishes` |
| `pool_redundant_dial` | 2 calls, 1 origin, 4 connections | stops | `OneLiveConnection` is violated |
| `pool_dead_handout` | 2 calls, 1 origin, 4 connections | stops | `NoDeadHandout` is violated |
| `pool_head_of_line` | 2 calls, 1 origin, 4 connections | stops | `NoHeadOfLine` is violated |
| `quic_driver` | 3 calls, channel of 1, 2 streams, 2 chunks, fair | 291,675 | `TypeOK`, `NoLostCall`, `OnePlace`, `ResponseIntegrity`, `ImplementsSession`, `Answered` |
| `quic_truncation` | 2 calls, partial bodies | stops | `PendingWhole` is violated |
| `redirect_chain` | 6 URLs, 3 statuses, 4 requests | 565,524 | `TypeOK`, `BodyFollowsMethod`, `CrossSiteSticks`, `FirstHopMarks`, `ResponseUrl` |
| `redirect_referer` | the same, limit 10 | stops | `StrictOrigin` is violated |
| `tcp_dial` | 31 replies over three routes, buffer of 7 tokens | 1,811 | `TypeOK`, `OnlyGranted`, `GrantedTaken`, `NothingLeft`, `Decided` |
| `client_state` | 2 calls, 3 origins of 2 hosts, 2 hops, 2 cookies, symmetry | 1,651,041 | `TypeOK`, `ReadYourWrites`, `CookieToOwner`, `HintSolicited`, `SameTwice`, `NeverIndexed`, `StoredWhenDone` |
| `http2_session` | 3 calls, 2 streams, windows of 2 and 2 pieces, bodies of 2 and 3, fair | 109,222 | `TypeOK`, `CreditConserved`, `ImplementsSession`, `Collected` |

**Why the bounds are enough to be interesting.**

* *pool_safety.* Two calls meet on every mutex, two origins let a redirect leave
  one key for another, and what the first of them advertises is filed under the key of
  the second (`HttpKey`), so that calls are also routed wrongly; two hops let an Alt-Svc advertisement of the first route the
  second to HTTP/3 and fall back. Four connections allow both calls to replace a
  dead one, and one transport to be tried before the other. A task that wants to
  dial when no identity is left waits in `dial`; it may be cancelled or, where the
  faults allow, fail. The theorems of section 5 lift the bounds.
* *pool_degradation.* Three calls on one origin: one dials, one waits for the HTTP/2
  mutex with the HTTP/3 mutex in hand, one waits for that. Two connections are
  what the property says are enough (one per transport); a storm would need a
  third, and would show as two with one key. HTTP/3 needs a way into the cache: the
  first call's response advertises it, the others are routed by it.
  `H2Faults = FALSE` is the premise "TCP works" of the promise.
* *quic_driver.* With three calls and a channel of one, a call is pending, one
  is in the channel and one waits for room when the connection ends. Two streams
  have their events interleaved, two chunks make a reordered, lost or doubled
  chunk visible. `MaxStream = 2` makes the third command fail in `send_request`
  (quiche's stream limit does the same).
* *redirect_chain.* Four requests are three redirects: leave a site, come back,
  and stay. The URLs are the smallest set with two paths of an origin, another
  scheme and port of the same host, another host, and two IP addresses. 302 stands
  for 301 and 303, which the code treats alike, 307 for 308 and every other 3xx,
  200 for the rest. `Limit` is 10 in the code; the run with 10 stops at its
  counterexample.

* *tcp_dial.* CONNECT replies of 3, 5, 7 and 9 tokens are below, at and above the
  buffer of 7; each is also there with another status and without its end. SOCKS5
  replies have every form of an address, domain names of 0, 1 and 4 bytes, a
  refused method, a refused request, another version and an unknown type.

* *client_state.* Two origins of one host share cookies and not hints; the third
  shares neither. Two hops let a call come back to what it stored, two cookies let
  one call replace what the other has read. The symmetry is of the calls, and of
  the two origins of one host; no property of the run is temporal.

* *http2_session.* Three calls for two streams make one wait for its turn. A body of three
  pieces does not fit the window of its stream, and two bodies that have each got one piece
  fill that of the connection, so both ways of being clogged are reached, with a third call
  queued behind them; TLC finds both when asked for the opposite. `Collected` has no premise
  about bodies or windows: it says that a connection ends up clogged for good or without
  calls. The three codings are one that is decoded, one that is only asked for, and two
  layers.

No run needs `CHECK_DEADLOCK FALSE`: each module has an action that stutters when,
and only when, all calls have ended; a state where a call is not finished and
nothing can happen would be reported. What stays possible at any time in the
models, a dropped call for instance, also hides a deadlock from that check;
`Establishes` and `Answered` are the properties that do not let it.

Each property was also run against a *fault*: the operators commented "A fault"
are plausible bugs of the code next to the definition they would replace (a pool
without mutexes, a limit that is off by one, a driver that exits and keeps its
tables, ...). `PROJECT.json` pairs each property with one that violates it.

## 4 Fairness

*Pool.* The runtime polls a ready task again: weak fairness of the steps that wait
for nothing. A tokio mutex is a FIFO queue, so a task that waits gets it though
others take it in between: strong fairness of the steps that lock. There is no
fairness on `DialOk`, `DialFail`, `Serve`, `Receive` or `Fail`, because the code
puts no timeout on a dial or on a response. `Establishes` therefore has a premise for what
others must wait for, `Lingers`: *if* no call dials for ever, nor keeps a mutex for ever
while the request of its failover is in flight, every routed call gets to send or ends. The
response to a first request may hang, since no mutex is kept for it. Nothing is assumed of
cancellation.

*Driver.* The driver and the callers are polled (weak fairness), the channel is a
FIFO semaphore (strong fairness of `Enqueue`), quiche's draining timer fires.
Of the peer, `Answered` needs that a stream on which the whole request came is
finished or reset at some time; quik has no timeout that would do without.
There is no fairness on `Establish`: before it commands are rejected, so a
handshake that hangs blocks nobody.

*HTTP/2 session.* The connection task, the callers that await a response and those that
read a body are polled (weak fairness). Queued requests are opened in their order, so
that each gets its turn though others take streams in between (strong fairness of
`Open`). The server answers what it gets and ends what it has sent (weak fairness), and
serves all its streams: one that has often room in the windows sends on (strong fairness
of `Data`). Nothing is assumed of `Reset`, `GoAway`, `CloseWire` or `Drop`. Callers are
assumed to read the bodies they are given; one that keeps a `Response` unread keeps its
part of the window.

*Dial.* The dial is polled when its stream has something to read (weak fairness of
its reads). Nothing is assumed of the proxy: `Decided` speaks of streams that were
closed or that have delivered everything. A proxy that says nothing and closes
nothing keeps the dial, and with it the mutex of the origin, for ever; the code
has no timeout there.

## 5 Proofs

`ConnectionPoolProofs` proves, for any sets of calls, origins and connections and
any limit,

| theorem | states |
|---|---|
| `TypeCorrect` | `Spec => []TypeOK` |
| `SingleFlightHolds` | `Spec => []SingleFlight` |
| `HandoutMatchesHolds` | `Spec => []HandoutMatches` |
| `LockDisciplineHolds` | `Spec => []LockDiscipline` |
| `ResendBoundHolds` | `Spec => []ResendBound` |
| `OverwriteOnlyDeadHolds` | `Spec => OverwriteOnlyDead` |
| `GracefulDegradationHolds` | `Spec => []GracefulDegradation`, if `H2Faults = FALSE` |
| `NoStormHolds` | `Spec => []NoStorm`, if `H2Faults = FALSE` |
| `NoCircle` | `Spec => []WaitEnds` |
| `DeadHandoutUnchecked` | `Spec => [][UncheckedOnly]_vars` |

from the assumptions named in `ConnectionPool`: `NoTask` is no task, `NoConn` no
connection, the limit is positive, `H2Faults` is a Boolean.

None of the invariants is inductive alone. `IInv` is the conjunction of `TypeOK` with

* `HandoutMatches` itself: what a call or a slot has was dialed for its key.
* `ConnInv`: a call has a connection exactly while it checks it or sends on it.
  A step that moves a call elsewhere must have taken its connection away.
* `KeyInv`: an undialed connection has no key, and one whose handshake is not
  complete is an HTTP/3 one. `DialOk` writes the key of an undialed connection,
  so it changes none that somebody has; and `ready()` never meets a handshake,
  so what it rejects is dead.
* `TargetInv`: a call that works on HTTP/3 was routed there, and those `pc` that
  belong to a check or a fallback work on HTTP/2. This is what bounds resends.
* `OwnInv`: a call that dials or checks under a mutex owns the mutex of its key.
  `SingleFlight` follows at once, since a mutex has one owner.
* `HolderInv`: conversely, whoever owns a mutex is in one of three places (`MayOwn`): it
  dials or checks the slot, it has fallen back and the mutex is its HTTP/3 one, or its
  second request is in flight and the mutex is its HTTP/2 one. `LockDiscipline` follows.
  A step gives and takes mutexes only to and from its own call (`OwnerStep`), so each
  action has to show it of that call alone.
* `SlotInv`: under its mutex a call in `rfcheck` finds a connection, and one that
  dials an empty slot or a dead connection. It stays so because nobody else can
  change the slot meanwhile (`OwnInv`) and the dead stay dead.
  `OverwriteOnlyDead` follows: `DialOk` is the only step that fills a slot.
* `ServedInv`: how often a server may have seen the request, by `pc`, `transport`
  and `target`.

`InitIInv` and `NextIInv` show that `IInv` holds initially and is preserved: one
lemma per action, with a step per conjunct. The theorems cite them.

`NoCircle` is what `Establishes` rests on. A call that falls back holds the HTTP/3 mutex
of its origin while it waits for the HTTP/2 one (pool.rs:320-337), which is where a
circle could close. `WaitEnds` says that none does: whoever waits for a mutex waits for a
call that is `Busy`, that is one that dials or checks or awaits the response of its
failover, or for one that has fallen back and itself waits for a free mutex or a busy call.
It follows from `HolderInv`, since no call waits for an HTTP/3 mutex with an HTTP/2 one in
hand. A chain of two links needs three calls; the theorem has any number. That the chain
may end with a response is finding 3, and the reason for the second half of `Lingers`.

`DeadHandoutUnchecked` says where finding 2 ends: a connection that is dead when a call
begins to send on it was taken from its slot unchecked, by one of the two paths that the
finding names; on every other path, races included, it is alive at that moment.

`GracefulDegradationHolds` and `NoStormHolds` have as their premise that TCP works. They rest on `CalmInv`, which
is inductive together with `IInv`: a connection that was dialed is in its slot for good
(`Pooled`), an HTTP/2 one is open (`TcpUp`), a dial finds its slot empty (`EmptyDial`)
and no call clears a slot or fails (`Unfailed`). Each needs the others: a slot is
cleared only after a check found its connection dead, which `TcpUp` excludes; so `Pooled`
holds; so whoever dials found nothing.

`ConnectionPoolRefinement` proves `PoolImplementsHttpCall == Spec => ImplementsHttpCall`.
Each action of the pool is one step of a call, or none; `IInv` is what tells which: a
failure that is retried is of a first try because a call on HTTP/3 was routed there
(`TargetInv`), and what a server may have seen before is bounded by `ServedInv`.

`QuicDriverProofs`, for any calls, streams, chunks and capacity, from `NoCall` being
no call and the bounds being numbers:

| theorem | states |
|---|---|
| `TypeCorrect` | `Spec => []TypeOK` |
| `NoLostCallHolds` | `Spec => []NoLostCall` |
| `OnePlaceHolds` | `Spec => []OnePlace` |
| `ResponseIntegrityHolds` | `Spec => []ResponseIntegrity` |
| `NobodyForgotten` | `Spec => []Attended` |

`NoLostCall`, `OnePlace` and `ResponseIntegrity` are part of the induction, with

* `StreamInv`: streams are opened in order, an unopened one is unused on both
  sides, and a pending one belongs to the call whose request was sent on it and has
  not been ended by the server. So an event of a stream can only concern that call.
* `CallerInv`: a call that has not got its command into the channel is held
  nowhere; so an `Enqueue` puts its sender in the only place there is.
* `ExitInv`: an exited driver has left neither commands nor pending calls; together
  with `Exit`, which answers them, this is what makes `NoLostCall` inductive.
* `PartialInv`: what the driver has collected of a pending stream is exactly what
  its server has sent so far. `ResponseIntegrity` follows when the stream ends.

`NobodyForgotten` is what `Answered` rests on: a call that has yet to send finds room in the
channel, or a driver that can take from it or stop, or one that has exited; a call that
waits has its command in a channel that can be taken from, or its request on a stream
that the server can still end, or a driver that can stop or is about to be closed by its
timer. So no order of events leaves a call that no step of the driver, the server or the
timer would answer. It needs `LayerInv`: streams are opened over the HTTP/3 layer, and there
is one only after the handshake, so that no pending stream is of a connection whose events
are not polled yet.

`QuicDriverRefinement` proves `DriverImplementsSession == Spec => ImplementsSession`. The view
from outside needs more than `IInv`, and `RInv` adds it: a request is on one stream at
most (`OneStream`), and on none while its command has not been taken (`Unissued`), so
that `Process` happens once; whoever has a command in the channel still waits or was dropped
(`Offered`); and a call that returned well was answered well (`Returned`).

`Http2SessionProofs`, for any calls, any limit of streams and any windows:

| theorem | states |
|---|---|
| `TypeCorrect` | `Spec => []TypeOK` |
| `CreditConservedHolds` | `Spec => []CreditConserved` |
| `NeverBlocked` | `Spec => []((\E c \in Call : Holding(c)) /\ (\A c \in Call : ~Ready(c)) => Clogged)` |
| `CloggedBound` | `Spec => [](Clogged => (\E c \in Active : size[c] > StreamWindow) \/ Cardinality(Active) * (StreamWindow - 1) >= ConnWindow)` |
| `Http2ImplementsSession` | `Spec => ImplementsSession` |

Its `IInv` is the domains of the variables, the limit of streams (`Limits`), that a
stream with something left to do is of a connection that is up (`Live`), that only
a call that awaits its response is queued (`Queued`), and that a body that has ended has arrived
whole (`Arrived`), that only a call that holds its stream has received anything that
counts (`Held`), and the conservation itself (`Window`). `Arrived` is why `Collect` delivers
the server's answer.

Conservation speaks of a sum over the calls, whose laws the prover cannot do without an
induction over data. The pieces are therefore counted one by one: `Outstanding` is the set of
pairs of a call that holds its stream and the number of a piece it has received, and
`CreditConserved` compares its cardinality. `Data` adds one pair to it; a call that lets go of its
stream takes its pairs away, which are as many as `DropStream` returns; so the laws of
finite cardinals are enough. That `credit` never exceeds `ConnWindow`, the part of
`TypeOK` that no step shows alone, follows.

`NeverBlocked` is what `Collected` rests on: while any call holds its stream, some call can
take its next step, or the connection is `Clogged`. Suppose that none can. Then whoever
holds a stream has taken all that came; it is queued, or its body is on its way and lacks a
piece (`StuckStreams`). Not all are queued, or one of them could be opened. So all that is
outstanding is of open streams (`StuckWindow`), and their servers may not send: because the
window of the stream is full, or because there is no credit, and then what is outstanding is
the whole window of the connection. Neither theorem assumes anything of bodies, limits and
windows.

`CloggedBound` says what clogging takes: a body larger than the window of its stream, or so
many open bodies that all but one piece of each fills the window of the connection. In the code
the windows are 6,291,456 and 15,728,640 bytes (handshake.rs:32-36), so bodies that fit their
windows must be at least three.

`TcpDialProofs`, for replies of any length, split and cut anywhere, and any buffer:

| theorem | states |
|---|---|
| `TypeCorrect` | `Spec => []TypeOK` |
| `OnlyGrantedHolds` | `Spec => []OnlyGranted` |
| `GrantedTakenHolds` | `Spec => []GrantedTaken` |
| `NothingLeftHolds` | `Spec => []NothingLeft` |
| `NeverStarved` | `Spec => [](stage \in Tunnel /\ (closed \/ (Granted /\ arrived = Len(reply))) => CanRead)` |
| `ReadsEnd` | `Spec => [][ReadOn => read' > read \/ (stage = "domain" /\ stage' = "port")]_vars` |

They assume, as `ReplyAssumption`, that a proxy which grants says nothing more: the
blank line of a CONNECT reply is its end, a SOCKS5 reply is as long as its type of
address says. Without it the code would take the proxy's next bytes for the TLS
handshake, or drop them (proxy.rs:62-88); the targets wait for the client to
speak, so there are none. The invariant adds `Position`, which says for each stage of the
SOCKS5 exchange where in the reply it is and what it has accepted, and `Routed`: the
CONNECT loop goes on only because what it has read is not complete.

The last two are what `Decided` rests on. No read waits for bytes that do not come: once
the stream is closed, or all of a reply that grants has arrived, `CanRead` says that the
next read returns. That is `Position` once more: what a stage still wants is what a granting
reply still has. And each read that does not decide gets further, except that of a
domain name of no bytes, after which the port is read; as a reply has an end, so have the
reads.

`ClientStateProofs`, for any calls, origins, hosts and cookies and any limit:

| theorem | states |
|---|---|
| `TypeCorrect` | `Spec => []TypeOK` |
| `ReadYourWritesHolds` | `Spec => []ReadYourWrites` |
| `CookieToOwnerHolds` | `Spec => []CookieToOwner` |
| `HintSolicitedHolds` | `Spec => []HintSolicited` |
| `SameTwiceHolds` | `Spec => []SameTwice` |
| `NeverIndexedHolds` | `Spec => []NeverIndexed` |
| `StoredWhenDoneHolds` | `Spec => []StoredWhenDone` |

The invariant says what each call knows at each of its steps: what it sent is the one
request built from what the hop has read (`SentInv`), what it read is still in the jar
(`SnapshotInv`) and contains what earlier hops were told (`ReadInv`), and every response but
the last has been stored (`StoredInv`). A step of another call keeps all of it because the
jar and the hint cache only grow; that is why the stores must add to what is there, and not
write back what was read.

`RedirectChainProofs`, for any set of URLs, any statuses and any limit:

| theorem | states |
|---|---|
| `BodyFollowsMethodHolds` | `Spec => []BodyFollowsMethod` |
| `CrossSiteSticksHolds` | `Spec => []CrossSiteSticks` |
| `FirstHopMarksHolds` | `Spec => []FirstHopMarks` |
| `ResponseUrlHolds` | `Spec => []ResponseUrl` |
| `TypeCorrect` | `Spec => []TypeOK` |
| `LimitEdgeHolds` | `Spec => []LimitEdge` |
| `StrictOriginIfOneEach` | `Spec => []StrictOrigin`, if `Domain(u) = Domain(v) => Origin(u) = Origin(v)` for all URLs |

The properties speak of the history `sent`, and each needs to know how the loop's
variables summarise it: `CountInv` (the counter is the number of redirects
followed, and of requests sent before this hop), `BodyInv` (a body that is left has
gone with every request, and no redirect changed the method), `SiteInv` (an unset
flag means that every request went to the current site) and `PreviousInv` (the
previous URL is the one of the last request). `LimitEdge` relates requests to redirects at
the bound: a call that ends well, or in an error, has followed fewer redirects than `Limit`,
and one that ends with the limit has sent `Limit` requests and got as many redirects, so the
loop of ten follows nine. `StrictOriginIfOneEach` locates finding 5: a whole referer names the
URL before it (`FirstHopMarks`), which is of the same site (`CrossSiteSticks`); so what the comment promises is kept between sites, and it is only
within one that the test of the host is too weak.

**Only model-checked:** `Establishes`, `Answered`, `Decided` and `Collected`, because liveness
and `ENABLED` are beyond the prover. What each of them needs of the reachable states is
proved (`NoCircle`, `NobodyForgotten`, `NeverStarved` with `ReadsEnd`, `NeverBlocked`); that
fairness turns it into progress is what TLC adds, on its instances. `Ready`, `CanRead`,
`CanTake`, `CanStop` and `CanEnd` spell out the guards of the actions they stand for,
because `ENABLED` cannot be used.

## 6 What the code does differently

Five runs end in a violation; each states what a document or a comment says.

1. **A healthy connection is thrown away** (`pool_redundant_dial`, pool.rs:285).
   Two calls clone the same dead connection; the first clears the slot and dials;
   the second, which judged its clone before that, clears the slot again, and with
   it the new connection, and dials a third. `CHANGELOG.md:70` says
   concurrent requests spawn no redundant dials.
2. **A dead connection is handed out** (`pool_dead_handout`, pool.rs:335). After a
   failed UDP dial the HTTP/2 slot is used without `ready()`, unlike on both other
   paths. The call then fails, though a redial would have succeeded. The same
   property is violated on the HTTP/3 side too (pool.rs:289-293): a session whose
   driver has exited stays in the slot, is handed to each call routed to it, fails,
   and the call falls back; nobody ever dials a new session in its place.
3. **Calls wait for another's response** (`pool_head_of_line`, pool.rs:396). The failover
   takes the HTTP/2 mutex of the origin into `h2_guard`, and the tail expression of the
   block it lives in is the second `send` (452-455). So the mutex is kept until that response
   has come, and with it every other call to the origin waits in `lock().await`, those too
   that would only clone the pooled connection. Nothing bounds the response: one that never
   comes stops the origin for this client. `CHANGELOG.md:58` says connections are cloned
   outside of the lock, "eliminating HoL blocking when concurrent requests await capacity".
   The path for a first request does so.
4. **A body sent in part** (`quic_truncation`, quic.rs:267). How much `send_body`
   took is ignored, and so is its error; the request is pending either way and its
   caller waits for a response to a request the server never gets whole.
5. **Referers within a host** (`redirect_referer`, pool.rs:249). The comment says
   strict-origin-when-cross-origin; what is tested is whether the site changed, so a
   redirect to another scheme or port, from https to http included, carries the
   whole URL.

Seen while modelling, and not the subject of a run:

* An advertisement is filed under another origin's key (pool.rs:605): `store_alt_svc` takes
  443 for every URL without a port, the lookup (198-204) 80 for http. What `http://host`
  advertises is never found for it and is used for `https://host`; `CHANGELOG.md:98` says the
  pool defaults to 80 for http. `AltSvcKey` models it, and `pool_safety` runs with it: calls
  are routed to HTTP/3 that should not be, and every property of the run holds all the same.
* `Client::dial` of an HTTP/3 session does not use the proxy, though the key of the
  session has the proxy in it and pool.rs:113 says it is applied to all connections.
* A command that reaches the driver before the handshake is complete is refused
  (quic.rs:252-260), so the first request on a new session usually falls back.
* A body longer than the stream window never arrives (response.rs:82-95): `bytes` does not
  release capacity, the server stops at 6,291,456 bytes, and neither side has a timeout.
  Shorter bodies that are read at once can stop each other on the connection window: three
  that have each received 5,242,880 bytes, and have more to come, fill it. No document of the
  repository promises otherwise, so there is no run that ends in it; it is `Clogged`, the one
  exception that `Collected` and `NeverBlocked` name.
* `deflate` is asked for (request.rs:118-123) and never decoded: such a body is returned as
  it came. Of two layers of coding one is taken off, or the body is an error
  (response.rs:102-128).
* The limit counts ten requests, which is nine redirects (`LimitEdgeHolds`); the doc comment
  at pool.rs:175 says ten redirects.
* Of two cookies that a server set in one order, the jar keeps the one stored last;
  responses of two calls may be stored in the other order.
* Two IP addresses have no domain and so count as one site (pool.rs:487).
* `sec-fetch-site` takes the relation of the last hop alone until a chain has
  crossed sites: same-site, then same-origin, is reported as same-origin.

## 7 What is not modelled

* The TLS connector, profiles, errors and the crate's surface: settings, data and
  conversions with no state. `build_connector` is a straight line of calls to BoringSSL,
  a profile is a constant, an error is a value.
* quiche, h2, BoringSSL, the servers: external; modelled by what the code relies
  on. Loss and reordering of datagrams are below that line; a server finishes a
  stream only after a final status.
* Header values, their order on the wire, wording and formats. Of request.rs what depends on
  the chain or on shared state is modelled, the rest is data of the profile.
* `text` and `json`, which convert what `bytes` returns.
* Memory: keys of the pool are never removed, and are as many as the origins that a client
  visits.

## 8 Plan

| step | module | what | where |
|---|---|---|---|
| done | `ConnectionPool`, proofs | pool, routing, fallbacks | sections 3, 5 |
| done | `QuicDriver`, proofs | HTTP/3 session | sections 3, 5 |
| done | `RedirectChain`, proofs | hop loop | sections 3, 5 |
| done | `TcpDial`, proofs | CONNECT reply in a bounded buffer, SOCKS5 | sections 3, 5 |
| done | `ClientState`, proofs | cookies and hints read before the awaits of a hop, used after them and in a resend, stored after the response | sections 3, 5 |
| done | `HttpCall`, refinement | what a client promises; the pool implements it | sections 3, 5 |
| done | `Session`, refinements | what a session promises; both transports implement it | sections 3, 5 |
| done | `Http2Session`, proofs | streams, windows and bodies of an HTTP/2 connection | sections 3, 5 |
| 1 | `PoolOverSession` | the pool with each of its connections an instance of `Session` with one call per try, so that the pool's own view of a connection is a refinement too and not only an abstraction by hand | run, then theorem |
