--------------------------- MODULE RedirectChain ---------------------------
(***************************************************************************)
(* One call of execute_with_redirects (src/src/client/pool.rs) as the      *)
(* servers see it: the requests it sends hop by hop, with the method, the  *)
(* body, the referer and the fetch metadata that each redirect leaves.     *)
(* Where and how a request is sent is the business of ConnectionPool.      *)
(***************************************************************************)
EXTENDS Naturals, Sequences

CONSTANTS
    Url,        \* records with a scheme, a host, a port and a path
    Ip,         \* those of their hosts that are IP addresses, not names
    NoUrl,      \* None
    Status,     \* the statuses that servers answer with
    Limit       \* requests one call may send: the 10 of `for hop in 0..10`

ASSUME LimitAssumption == Limit \in Nat \ {0}
ASSUME NoUrlAssumption == NoUrl \notin Url \cup [full : BOOLEAN, of : Url]
ASSUME StatusAssumption == Status \subseteq 100 .. 599
ASSUME UrlAssumption ==
    \A u \in Url : DOMAIN u = {"scheme", "host", "port", "path"}

Method == {"GET", "POST"}
Site   == {"none", "same-origin", "same-site", "cross-site"}

\* The requests that a chain sends.
Message ==
    [url : Url, method : Method, body : BOOLEAN, site : Site,
     referer : {NoUrl} \cup [full : BOOLEAN, of : Url], user : BOOLEAN, origin : BOOLEAN]

VARIABLES
    current,    \* current_url_str
    previous,   \* previous_url_str, or NoUrl
    method,     \* current_method
    body,       \* whether current_body is Some
    site,       \* sec_fetch_site
    crossed,    \* is_cross_site
    hop,        \* the loop counter
    outcome,    \* "running", "ok", "err" or "limit"
    final,      \* the URL of the response, or NoUrl
    sent,       \* history: the requests sent
    followed    \* history: the statuses of the redirects followed

chain   == <<current, previous, method, body, site, crossed, hop>>
result  == <<outcome, final>>
history == <<sent, followed>>
vars    == <<chain, result, history>>

-----------------------------------------------------------------------------
(* URLs *)

Origin(u) == <<u.scheme, u.host, u.port>>

(* Url::domain: None for an IP address, the whole host name otherwise. *)
Domain(u) == IF u.host \in Ip THEN <<>> ELSE <<u.host>>

(* The referer of a URL: all of it, or its origin and "/". *)
Whole(u)    == [full |-> TRUE,  of |-> u]
Stripped(u) == [full |-> FALSE, of |-> u]

(* referer_to_send. *)
Referer ==
    IF previous = NoUrl THEN NoUrl
    ELSE IF crossed THEN Stripped(previous)
                    ELSE Whole(previous)

(* The request of a hop.  sec-fetch-user goes with the first one only, origin
   with every method that changes state. *)
Request ==
    [url |-> current, method |-> method, body |-> body, site |-> site,
     referer |-> Referer, user |-> hop = 0, origin |-> method = "POST"]

-----------------------------------------------------------------------------
(* Redirects *)

IsRedirection(status) == status \in 300 .. 399

(* A fault: the method changes and the body stays. *)
RotateMethodOnly(status) ==
    /\ method' = IF status \in {301, 302, 303} THEN "GET" ELSE method
    /\ body' = body

(* 301, 302 and 303 make the next request a GET without a body. *)
Rotate(status) ==
    IF status \in {301, 302, 303}
    THEN method' = "GET" /\ body' = FALSE
    ELSE UNCHANGED <<method, body>>

(* A fault: the flag is computed anew for each hop. *)
ClassifyAnew(next) ==
    /\ site' = IF Origin(next) = Origin(current) THEN "same-origin"
               ELSE IF Domain(next) = Domain(current) THEN "same-site"
               ELSE "cross-site"
    /\ crossed' = (site' = "cross-site")

(* The relation of this hop, until a chain has crossed sites. *)
Classify(next) ==
    \/ crossed /\ UNCHANGED <<site, crossed>>
    \/ ~crossed /\ ClassifyAnew(next)

(* A fault: one request more than the loop has. *)
HopsLeftOne == hop <= Limit

HopsLeft == hop < Limit

(* A hop sends its request, whatever becomes of it. *)
Transmit ==
    /\ outcome = "running"
    /\ HopsLeft
    /\ sent' = Append(sent, Request)

(* A fault: the next request goes out as the initial one did. *)
AdvanceWithoutCount == hop' = hop

Advance == hop' = hop + 1

(* The response is a redirect with a location that resolves to next. *)
Follow(status, next) ==
    /\ Transmit
    /\ IsRedirection(status)
    /\ Rotate(status)
    /\ Classify(next)
    /\ previous' = current
    /\ current' = next
    /\ followed' = Append(followed, status)
    /\ Advance
    /\ UNCHANGED result

(* A fault: the response names the URL it was redirected from. *)
FinalUrlPrevious == IF previous = NoUrl THEN current ELSE previous

FinalUrl == current

(* Any other response, a 3xx without a location among them, is the result. *)
Finish ==
    /\ Transmit
    /\ outcome' = "ok"
    /\ final' = FinalUrl
    /\ UNCHANGED <<chain, followed>>

(* The transport fails for good, or the location does not resolve. *)
Fail ==
    /\ Transmit
    /\ outcome' = "err"
    /\ UNCHANGED <<chain, final, followed>>

(* The loop is exhausted. *)
GiveUp ==
    /\ outcome = "running"
    /\ ~HopsLeft
    /\ outcome' = "limit"
    /\ UNCHANGED <<chain, final, history>>

Done ==
    /\ outcome # "running"
    /\ UNCHANGED vars

(* Client::get, and Client::post with its body. *)
Init ==
    /\ current \in Url
    /\ previous = NoUrl
    /\ \E post \in BOOLEAN : body = post /\ method = IF post THEN "POST" ELSE "GET"
    /\ site = "none"
    /\ crossed = FALSE
    /\ hop = 0
    /\ outcome = "running"
    /\ final = NoUrl
    /\ sent = <<>>
    /\ followed = <<>>

Next ==
    \/ \E status \in Status, next \in Url : Follow(status, next)
    \/ Finish \/ Fail \/ GiveUp
    \/ Done

Spec == Init /\ [][Next]_vars

-----------------------------------------------------------------------------
(* Properties of the requests that the servers see *)

(* Every variable stays in its domain; a chain counts its hops (pool.rs:192). *)
TypeOK ==
    /\ current \in Url /\ previous \in Url \cup {NoUrl} /\ final \in Url \cup {NoUrl}
    /\ method \in Method
    /\ body \in BOOLEAN /\ crossed \in BOOLEAN
    /\ site \in Site
    /\ hop \in 0 .. Limit
    /\ outcome \in {"running", "ok", "err", "limit"}
    /\ sent \in Seq(Message)
    /\ followed \in Seq(Status)

(* A body is sent as far as the redirects keep the method and no further, and
   never with a GET (pool.rs:475-482): after the first 301, 302 or 303 no later
   request has one. *)
BodyFollowsMethod ==
    \A i \in 1 .. Len(sent) :
        /\ sent[i].body = (sent[i].method = "POST")
        /\ sent[i].body => \A j \in 1 .. i - 1 : followed[j] \notin {301, 302, 303}
        /\ \A j \in 1 .. i : sent[i].body => sent[j].body

(* Once a chain has gone to another site every later request says cross-site and
   names its referer by origin only (pool.rs:247-255, 484-493), even when the
   chain comes back to a site or an origin it has been to. *)
CrossSiteSticks ==
    \A i, j \in 1 .. Len(sent) :
        i < j /\ Domain(sent[i].url) # Domain(sent[j].url) =>
            \A k \in j .. Len(sent) : sent[k].site = "cross-site" /\ ~sent[k].referer.full

(* The marks of a navigation that the user began, sec-fetch-site none,
   sec-fetch-user and no referer, are on the first request and on no other
   (pool.rs:190, 241; request.rs:101-107); the others name the URL before them. *)
FirstHopMarks ==
    \A i \in 1 .. Len(sent) :
        /\ (i = 1) = (sent[i].site = "none") /\ (i = 1) = sent[i].user
        /\ (i = 1) = (sent[i].referer = NoUrl)
        /\ i > 1 => sent[i].referer.of = sent[i - 1].url

(* A response says which URL it came from (pool.rs:501-502): the last one that
   was requested. *)
ResponseUrl == outcome = "ok" => final = sent[Len(sent)].url

-----------------------------------------------------------------------------
(* What the documents say and the chain does not do *)

(* pool.rs:247: strict-origin-when-cross-origin.  A request to another origin
   than the referer's names the referer by its origin only. *)
StrictOrigin ==
    \A i \in 1 .. Len(sent) : sent[i].referer # NoUrl /\ sent[i].referer.full =>
        Origin(sent[i].referer.of) = Origin(sent[i].url)

=============================================================================
