------------------------ MODULE RedirectChainProofs ------------------------
(***************************************************************************)
(* Proofs about RedirectChain for any set of URLs, any statuses and any    *)
(* limit: what the requests of a chain tell the servers, how many there    *)
(* are, and when their referers are those that the comment promises.       *)
(***************************************************************************)
EXTENDS RedirectChain, SequenceTheorems, TLAPS

(* The loop counter is the number of redirects followed, and of requests sent
   before the current hop. *)
CountInv ==
    /\ Len(followed) = hop
    /\ outcome \in {"running", "limit"} => Len(sent) = hop
    /\ outcome \in {"ok", "err"} => Len(sent) = hop + 1 /\ hop < Limit
    /\ outcome = "limit" => hop = Limit

(* A body that is still there has been sent with every request so far, and no
   redirect so far has changed the method. *)
BodyInv ==
    /\ body = (method = "POST")
    /\ body => \A j \in 1 .. Len(followed) : followed[j] \notin {301, 302, 303}
    /\ body => \A j \in 1 .. Len(sent) : sent[j].body

(* The flag knows whether the chain has ever left its site. *)
SiteInv ==
    /\ crossed = (site = "cross-site")
    /\ ~crossed => \A j \in 1 .. Len(sent) : Domain(sent[j].url) = Domain(current)

(* The previous URL is the one of the last request that was redirected. *)
PreviousInv ==
    /\ (hop = 0) = (site = "none")
    /\ (hop = 0) = (previous = NoUrl)
    /\ hop > 0 => previous = sent[hop].url

IInv ==
    /\ TypeOK
    /\ CountInv
    /\ BodyInv
    /\ SiteInv
    /\ PreviousInv
    /\ BodyFollowsMethod
    /\ CrossSiteSticks
    /\ FirstHopMarks
    /\ ResponseUrl

-----------------------------------------------------------------------------
(* What appending does to a sequence, index by index. *)
LEMMA Appended ==
    ASSUME NEW S, NEW s \in Seq(S), NEW e \in S
    PROVE  /\ Append(s, e) \in Seq(S)
           /\ Len(Append(s, e)) = Len(s) + 1
           /\ \A i \in 1 .. Len(s) : Append(s, e)[i] = s[i]
           /\ Append(s, e)[Len(s) + 1] = e
  BY AppendProperties

(* The request of a hop, field by field. *)
LEMMA RequestFacts ==
    ASSUME TypeOK
    PROVE  /\ Request \in Message
           /\ Request.url = current
           /\ Request.method = method
           /\ Request.body = body
           /\ Request.site = site
           /\ Request.referer = Referer
           /\ Request.user = (hop = 0)
  BY DEF Request, TypeOK, Message, Method, Referer, Whole, Stripped

(* The referer of a hop names the previous URL, in full until the chain has
   crossed sites. *)
LEMMA RefererFacts ==
    ASSUME TypeOK
    PROVE  /\ previous = NoUrl => Referer = NoUrl
           /\ previous # NoUrl => /\ Referer # NoUrl
                                  /\ Referer.of = previous
                                  /\ crossed => ~Referer.full
                                  /\ ~crossed => Referer.full
  <1>1. CASE previous = NoUrl
    BY <1>1 DEF Referer
  <1>2. CASE previous # NoUrl
    <2>1. previous \in Url
      BY <1>2 DEF TypeOK
    <2>2. /\ Whole(previous) \in [full : BOOLEAN, of : Url]
          /\ Stripped(previous) \in [full : BOOLEAN, of : Url]
      BY <2>1 DEF Whole, Stripped
    <2>3. CASE crossed
      <3>1. Referer = Stripped(previous)
        BY <1>2, <2>3 DEF Referer
      <3> QED
        BY <1>2, <2>2, <2>3, <3>1, NoUrlAssumption DEF Stripped
    <2>4. CASE ~crossed
      <3>1. Referer = Whole(previous)
        BY <1>2, <2>4 DEF Referer
      <3> QED
        BY <1>2, <2>2, <2>4, <3>1, NoUrlAssumption DEF Whole
    <2> QED
      BY <2>3, <2>4
  <1> QED
    BY <1>1, <1>2

(* What the history looks like after a hop has sent its request. *)
LEMMA TransmitFacts ==
    ASSUME IInv, Transmit
    PROVE  /\ Len(sent) = hop /\ hop \in Nat /\ hop < Limit /\ Limit \in Nat
           /\ sent' \in Seq(Message)
           /\ Len(sent') = hop + 1
           /\ \A i \in 1 .. hop : sent'[i] = sent[i]
           /\ sent'[hop + 1] = Request
  <1>1. Len(sent) = hop /\ hop \in Nat /\ hop < Limit /\ Limit \in Nat /\ sent \in Seq(Message)
    BY LimitAssumption DEF IInv, TypeOK, CountInv, Transmit, HopsLeft
  <1>2. Request \in Message
    BY RequestFacts DEF IInv
  <1> QED
    BY <1>1, <1>2, Appended DEF Transmit

-----------------------------------------------------------------------------
(* The properties of the requests survive the sending of one more, whatever
   then becomes of the hop. *)

LEMMA BodyStep ==
    ASSUME IInv, Transmit, \A j \in 1 .. hop : followed'[j] = followed[j]
    PROVE BodyFollowsMethod'
  <1> SUFFICES ASSUME NEW i \in 1 .. hop + 1
               PROVE  /\ sent'[i].body = (sent'[i].method = "POST")
                      /\ sent'[i].body => \A j \in 1 .. i - 1 : followed'[j] \notin {301, 302, 303}
                      /\ \A j \in 1 .. i : sent'[i].body => sent'[j].body
    BY TransmitFacts DEF BodyFollowsMethod
  <1>1. CASE i \in 1 .. hop
    <2>1. /\ sent[i].body = (sent[i].method = "POST")
          /\ sent[i].body => \A j \in 1 .. i - 1 : followed[j] \notin {301, 302, 303}
          /\ \A j \in 1 .. i : sent[i].body => sent[j].body
      BY <1>1, TransmitFacts DEF IInv, BodyFollowsMethod
    <2>2. \A j \in 1 .. i : j \in 1 .. hop
      BY <1>1, TransmitFacts
    <2> QED
      BY <1>1, <2>1, <2>2, TransmitFacts
  <1>2. CASE i = hop + 1
    <2>1. Request.body = body /\ Request.method = method
      BY RequestFacts DEF IInv
    <2>2. body = (method = "POST")
      BY DEF IInv, BodyInv
    <2>3. body => \A j \in 1 .. hop : followed[j] \notin {301, 302, 303} /\ sent[j].body
      BY TransmitFacts DEF IInv, BodyInv, CountInv
    <2>4. \A j \in 1 .. i - 1 : j \in 1 .. hop
      BY <1>2, TransmitFacts
    <2>5. \A j \in 1 .. i : j \in 1 .. hop \/ j = i
      BY <1>2, TransmitFacts
    <2> QED
      BY <1>2, <2>1, <2>2, <2>3, <2>4, <2>5, TransmitFacts
  <1> QED
    BY <1>1, <1>2, TransmitFacts

LEMMA CrossSiteStep ==
    ASSUME IInv, Transmit
    PROVE CrossSiteSticks'
  <1> SUFFICES ASSUME NEW i \in 1 .. hop + 1, NEW j \in 1 .. hop + 1, i < j,
                      Domain(sent'[i].url) # Domain(sent'[j].url),
                      NEW k \in j .. hop + 1
               PROVE  sent'[k].site = "cross-site" /\ ~sent'[k].referer.full
    BY TransmitFacts DEF CrossSiteSticks, Domain
  <1>1. CASE k \in 1 .. hop
    <2>1. i \in 1 .. hop /\ j \in 1 .. hop
      BY <1>1, TransmitFacts
    <2>2. sent'[i] = sent[i] /\ sent'[j] = sent[j] /\ sent'[k] = sent[k]
      BY <1>1, <2>1, TransmitFacts
    <2>3. Domain(sent[i].url) # Domain(sent[j].url)
      BY <2>2
    <2>4. i \in 1 .. Len(sent) /\ j \in 1 .. Len(sent) /\ k \in j .. Len(sent)
      BY <1>1, <2>1, TransmitFacts
    <2>5. sent[k].site = "cross-site" /\ ~sent[k].referer.full
      BY <2>3, <2>4 DEF IInv, CrossSiteSticks
    <2> QED
      BY <2>2, <2>5
  <1>2. CASE k = hop + 1
    <2>1. Request.url = current /\ Request.site = site /\ Request.referer = Referer
      BY RequestFacts DEF IInv
    <2>2. sent'[i] = sent[i] /\ i \in 1 .. Len(sent)
      BY TransmitFacts
    <2>3. crossed
      <3>1. CASE j = hop + 1
        BY <2>1, <2>2, <3>1, TransmitFacts DEF IInv, SiteInv
      <3>2. CASE j \in 1 .. hop
        BY <2>2, <3>2, TransmitFacts DEF IInv, SiteInv
      <3> QED
        BY <3>1, <3>2, TransmitFacts
    <2>4. previous # NoUrl
      BY TransmitFacts DEF IInv, PreviousInv
    <2> QED
      BY <1>2, <2>1, <2>3, <2>4, TransmitFacts, RefererFacts DEF IInv, SiteInv
  <1> QED
    BY <1>1, <1>2, TransmitFacts

LEMMA MarksStep ==
    ASSUME IInv, Transmit
    PROVE FirstHopMarks'
  <1> SUFFICES ASSUME NEW i \in 1 .. hop + 1
               PROVE  /\ (i = 1) = (sent'[i].site = "none") /\ (i = 1) = sent'[i].user
                      /\ (i = 1) = (sent'[i].referer = NoUrl)
                      /\ i > 1 => sent'[i].referer.of = sent'[i - 1].url
    BY TransmitFacts DEF FirstHopMarks
  <1>1. CASE i \in 1 .. hop
    <2>1. i > 1 => i - 1 \in 1 .. hop
      BY <1>1, TransmitFacts
    <2> QED
      BY <1>1, <2>1, TransmitFacts DEF IInv, FirstHopMarks
  <1>2. CASE i = hop + 1
    <2>1. Request.site = site /\ Request.referer = Referer /\ Request.user = (hop = 0)
      BY RequestFacts DEF IInv
    <2>2. (i = 1) = (hop = 0)
      BY <1>2, TransmitFacts
    <2>3. i > 1 => i - 1 \in 1 .. hop /\ i - 1 = hop /\ hop > 0
      BY <1>2, TransmitFacts
    <2>4. sent'[i] = Request /\ (i > 1 => sent'[i - 1] = sent[hop])
      BY <1>2, <2>3, TransmitFacts
    <2>5. /\ (i = 1) = (site = "none") /\ (i = 1) = (previous = NoUrl)
          /\ i > 1 => previous = sent[hop].url
      BY <2>2, <2>3 DEF IInv, PreviousInv
    <2>6. (previous = NoUrl) = (Referer = NoUrl) /\ (previous # NoUrl => Referer.of = previous)
      BY RefererFacts DEF IInv
    <2>7. (i > 1) = (i # 1)
      BY <1>2, TransmitFacts
    <2>8. (i = 1) = (sent'[i].site = "none") /\ (i = 1) = sent'[i].user
      BY <2>1, <2>2, <2>4, <2>5
    <2>9. (i = 1) = (sent'[i].referer = NoUrl)
      BY <2>1, <2>4, <2>5, <2>6
    <2>10. i > 1 => sent'[i].referer.of = sent'[i - 1].url
      BY <2>1, <2>4, <2>5, <2>6, <2>7
    <2> QED
      BY <2>8, <2>9, <2>10
  <1> QED
    BY <1>1, <1>2, TransmitFacts
-----------------------------------------------------------------------------
(* The inductive step, one lemma per action and one step per conjunct. *)

LEMMA FollowStep ==
    ASSUME IInv, NEW status \in Status, NEW next \in Url, Follow(status, next)
    PROVE IInv'
  <1> Transmit
    BY DEF Follow
  <1>1. /\ followed' = Append(followed, status) /\ followed \in Seq(Status)
        /\ hop' = hop + 1 /\ current' = next /\ previous' = current
        /\ outcome' = "running" /\ outcome = "running" /\ final' = final
    BY DEF Follow, Transmit, Advance, result, IInv, TypeOK
  <1>2. /\ followed' \in Seq(Status) /\ Len(followed) = hop /\ Len(followed') = hop + 1
        /\ \A j \in 1 .. hop : followed'[j] = followed[j]
        /\ followed'[hop + 1] = status
    BY <1>1, Appended DEF IInv, CountInv
  <1>3. /\ method' \in Method /\ body' \in BOOLEAN
        /\ body' = (method' = "POST")
        /\ body' => body /\ status \notin {301, 302, 303}
    <2>1. CASE status \in {301, 302, 303}
      <3>1. method' = "GET" /\ body' = FALSE
        BY <2>1 DEF Follow, Rotate
      <3> QED
        BY <3>1 DEF Method
    <2>2. CASE status \notin {301, 302, 303}
      <3>1. method' = method /\ body' = body
        BY <2>2 DEF Follow, Rotate
      <3> QED
        BY <2>2, <3>1 DEF IInv, TypeOK, BodyInv
    <2> QED
      BY <2>1, <2>2
  <1>4. /\ site' \in Site /\ crossed' \in BOOLEAN /\ site' # "none"
        /\ crossed' = (site' = "cross-site")
        /\ ~crossed' => ~crossed /\ Domain(next) = Domain(current)
    <2>1. CASE crossed /\ UNCHANGED <<site, crossed>>
      BY <2>1 DEF IInv, TypeOK, SiteInv
    <2>2. CASE ~crossed /\ ClassifyAnew(next)
      BY <2>2 DEF ClassifyAnew, Site, Origin, Domain
    <2> QED
      BY <2>1, <2>2 DEF Follow, Classify
  <1>5. TypeOK'
    BY <1>1, <1>2, <1>3, <1>4, TransmitFacts DEF IInv, TypeOK
  <1>6. CountInv'
    BY <1>1, <1>2, TransmitFacts DEF CountInv
  <1>7. BodyInv'
    <2>1. body' => \A j \in 1 .. hop + 1 : followed'[j] \notin {301, 302, 303}
      <3>1. body => \A j \in 1 .. hop : followed[j] \notin {301, 302, 303}
        BY <1>2 DEF IInv, BodyInv
      <3>2. \A j \in 1 .. hop + 1 : j \in 1 .. hop \/ j = hop + 1
        BY TransmitFacts
      <3> QED
        BY <1>2, <1>3, <3>1, <3>2
    <2>2. body' => \A j \in 1 .. hop + 1 : sent'[j].body
      <3>1. Request.body = body
        BY RequestFacts DEF IInv
      <3>2. body => \A j \in 1 .. hop : sent[j].body
        BY TransmitFacts DEF IInv, BodyInv
      <3>3. \A j \in 1 .. hop + 1 : j \in 1 .. hop \/ j = hop + 1
        BY TransmitFacts
      <3> QED
        BY <1>3, <3>1, <3>2, <3>3, TransmitFacts
    <2> QED
      BY <1>2, <1>3, <2>1, <2>2, TransmitFacts DEF BodyInv
  <1>8. SiteInv'
    <2>1. ASSUME ~crossed', NEW j \in 1 .. hop + 1
          PROVE  Domain(sent'[j].url) = Domain(next)
      <3>1. CASE j \in 1 .. hop
        BY <1>4, <2>1, <3>1, TransmitFacts DEF IInv, SiteInv
      <3>2. CASE j = hop + 1
        BY <1>4, <2>1, <3>2, TransmitFacts, RequestFacts DEF IInv
      <3> QED
        BY <3>1, <3>2, TransmitFacts
    <2> QED
      BY <1>1, <1>4, <2>1, TransmitFacts DEF SiteInv, Domain
  <1>9. PreviousInv'
    <2>1. sent'[hop + 1].url = current /\ current # NoUrl
      BY TransmitFacts, RequestFacts, NoUrlAssumption DEF IInv, TypeOK
    <2> QED
      BY <1>1, <1>4, <2>1, TransmitFacts DEF PreviousInv
  <1>10. BodyFollowsMethod' /\ CrossSiteSticks' /\ FirstHopMarks'
    BY <1>2, BodyStep, CrossSiteStep, MarksStep
  <1>11. ResponseUrl'
    BY <1>1 DEF ResponseUrl
  <1> QED
    BY <1>5, <1>6, <1>7, <1>8, <1>9, <1>10, <1>11 DEF IInv

LEMMA EndStep ==
    ASSUME IInv, Finish \/ Fail
    PROVE IInv'
  <1> Transmit /\ UNCHANGED <<chain, followed>>
    BY DEF Finish, Fail
  <1>1. /\ outcome' \in {"ok", "err"}
        /\ outcome' = "ok" => final' = current
        /\ final' \in {current, final}
    BY DEF Finish, Fail, FinalUrl
  <1>2. TypeOK'
    BY <1>1, TransmitFacts DEF IInv, TypeOK, chain
  <1>3. CountInv'
    BY <1>1, TransmitFacts DEF IInv, CountInv, chain
  <1>4. BodyInv'
    <2>1. body => \A j \in 1 .. hop + 1 : sent'[j].body
      <3>1. Request.body = body
        BY RequestFacts DEF IInv
      <3>2. body => \A j \in 1 .. hop : sent[j].body
        BY TransmitFacts DEF IInv, BodyInv
      <3>3. \A j \in 1 .. hop + 1 : j \in 1 .. hop \/ j = hop + 1
        BY TransmitFacts
      <3> QED
        BY <3>1, <3>2, <3>3, TransmitFacts
    <2> QED
      BY <2>1, TransmitFacts DEF IInv, BodyInv, chain
  <1>5. SiteInv'
    <2>1. ASSUME ~crossed, NEW j \in 1 .. hop + 1
          PROVE  Domain(sent'[j].url) = Domain(current)
      <3>1. CASE j \in 1 .. hop
        BY <2>1, <3>1, TransmitFacts DEF IInv, SiteInv
      <3>2. CASE j = hop + 1
        BY <3>2, TransmitFacts, RequestFacts DEF IInv
      <3> QED
        BY <3>1, <3>2, TransmitFacts
    <2> QED
      BY <2>1, TransmitFacts DEF IInv, SiteInv, Domain, chain
  <1>6. PreviousInv'
    BY TransmitFacts DEF IInv, PreviousInv, chain
  <1>7. BodyFollowsMethod' /\ CrossSiteSticks' /\ FirstHopMarks'
    BY BodyStep, CrossSiteStep, MarksStep
  <1>8. ResponseUrl'
    BY <1>1, TransmitFacts, RequestFacts DEF IInv, ResponseUrl
  <1> QED
    BY <1>2, <1>3, <1>4, <1>5, <1>6, <1>7, <1>8 DEF IInv

LEMMA GiveUpStep ==
    ASSUME IInv, GiveUp
    PROVE IInv'
  <1>1. outcome' = "limit" /\ outcome = "running" /\ UNCHANGED <<chain, final, history>>
    BY DEF GiveUp
  <1>2. TypeOK'
    BY <1>1 DEF IInv, TypeOK, chain, history
  <1>3. CountInv'
    BY <1>1, LimitAssumption DEF GiveUp, HopsLeft, IInv, TypeOK, CountInv, chain, history
  <1>4. BodyInv' /\ SiteInv' /\ PreviousInv'
    BY <1>1 DEF IInv, BodyInv, SiteInv, PreviousInv, Domain, chain, history
  <1>5. BodyFollowsMethod' /\ CrossSiteSticks' /\ FirstHopMarks'
    BY <1>1 DEF IInv, BodyFollowsMethod, CrossSiteSticks, FirstHopMarks,
                Domain, history
  <1>6. ResponseUrl'
    BY <1>1 DEF ResponseUrl
  <1> QED
    BY <1>2, <1>3, <1>4, <1>5, <1>6 DEF IInv

LEMMA StutterStep ==
    ASSUME IInv, UNCHANGED vars
    PROVE IInv'
  <1>1. TypeOK' /\ CountInv' /\ BodyInv' /\ SiteInv' /\ PreviousInv'
    BY DEF IInv, TypeOK, CountInv, BodyInv, SiteInv, PreviousInv, Domain, vars, chain, result, history
  <1>2. BodyFollowsMethod' /\ CrossSiteSticks' /\ FirstHopMarks' /\ ResponseUrl'
    BY DEF IInv, BodyFollowsMethod, CrossSiteSticks, FirstHopMarks, ResponseUrl,
           Domain, vars, result, history
  <1> QED
    BY <1>1, <1>2 DEF IInv

LEMMA InitIInv == Init => IInv
  <1> SUFFICES ASSUME Init PROVE IInv
    OBVIOUS
  <1>1. body \in BOOLEAN /\ method \in Method /\ body = (method = "POST")
    <2>1. PICK post \in BOOLEAN : body = post /\ method = IF post THEN "POST" ELSE "GET"
      BY DEF Init
    <2>2. CASE post
      BY <2>1, <2>2 DEF Method
    <2>3. CASE ~post
      BY <2>1, <2>3 DEF Method
    <2> QED
      BY <2>2, <2>3
  <1>2. /\ sent = <<>> /\ followed = <<>> /\ hop = 0 /\ outcome = "running" /\ current \in Url
        /\ previous = NoUrl /\ final = NoUrl /\ site = "none" /\ crossed = FALSE
    BY DEF Init
  <1> Len(sent) = 0 /\ Len(followed) = 0 /\ 1 .. 0 = {}
    BY <1>2
  <1>3. TypeOK
    <2>1. sent \in Seq(Message) /\ followed \in Seq(Status)
      BY <1>2
    <2>2. hop \in 0 .. Limit
      BY <1>2, LimitAssumption
    <2>3. crossed \in BOOLEAN /\ site \in Site
      BY <1>2 DEF Site
    <2>4. /\ current \in Url /\ previous \in Url \cup {NoUrl} /\ final \in Url \cup {NoUrl}
          /\ outcome \in {"running", "ok", "err", "limit"}
      BY <1>2
    <2> QED
      BY <1>1, <2>1, <2>2, <2>3, <2>4 DEF TypeOK
  <1>4. CountInv /\ BodyInv /\ SiteInv /\ PreviousInv
    <2>1. CountInv /\ PreviousInv
      BY <1>2 DEF CountInv, PreviousInv
    <2>2. SiteInv
      BY <1>2 DEF SiteInv
    <2>3. BodyInv
      BY <1>1 DEF BodyInv
    <2> QED
      BY <2>1, <2>2, <2>3
  <1>5. BodyFollowsMethod /\ CrossSiteSticks /\ FirstHopMarks /\ ResponseUrl
    BY <1>2 DEF BodyFollowsMethod, CrossSiteSticks, FirstHopMarks, ResponseUrl
  <1> QED
    BY <1>3, <1>4, <1>5 DEF IInv

LEMMA NextIInv == IInv /\ [Next]_vars => IInv'
  BY FollowStep, EndStep, GiveUpStep, StutterStep DEF Next, Done

(* IInv holds in every reachable state of a chain (pool.rs:177-507). *)
LEMMA Invariance == Spec => []IInv
  BY InitIInv, NextIInv, PTL DEF Spec

-----------------------------------------------------------------------------
(* A call sends at most Limit requests; one that ends with a response or an error has
   followed fewer than Limit redirects, and one that reaches the limit has followed as
   many as it sent requests (pool.rs:192, 505-507).  So the loop of ten hops ends a call
   at its tenth redirect, where pool.rs:175 speaks of a limit of ten redirects. *)
LimitEdge ==
    /\ Len(sent) <= Limit
    /\ outcome \in {"ok", "err"} => Len(followed) < Limit /\ Len(sent) = Len(followed) + 1
    /\ outcome = "limit" => Len(followed) = Limit /\ Len(sent) = Limit

(* LimitEdge: the loop of ten requests follows nine redirects and fails at the tenth. *)
THEOREM LimitEdgeHolds == Spec => []LimitEdge
  <1>1. IInv => LimitEdge
    BY LimitAssumption DEF IInv, TypeOK, CountInv, LimitEdge
  <1> QED
    BY <1>1, Invariance, PTL

(* BodyFollowsMethod: the rotation of pool.rs:475-482 takes the body with the
   method, for good. *)
THEOREM BodyFollowsMethodHolds == Spec => []BodyFollowsMethod
  <1>1. IInv => BodyFollowsMethod
    BY DEF IInv
  <1> QED
    BY <1>1, Invariance, PTL

(* CrossSiteSticks: the flag of pool.rs:484-493 survives a way back to a site. *)
THEOREM CrossSiteSticksHolds == Spec => []CrossSiteSticks
  <1>1. IInv => CrossSiteSticks
    BY DEF IInv
  <1> QED
    BY <1>1, Invariance, PTL

(* FirstHopMarks: the first request looks like a navigation, the others like
   redirects of it, each naming the one before (pool.rs:177-190, 247-255). *)
THEOREM FirstHopMarksHolds == Spec => []FirstHopMarks
  <1>1. IInv => FirstHopMarks
    BY DEF IInv
  <1> QED
    BY <1>1, Invariance, PTL

(* ResponseUrl: a response names the last URL that a request went to
   (pool.rs:501-502). *)
THEOREM ResponseUrlHolds == Spec => []ResponseUrl
  <1>1. IInv => ResponseUrl
    BY DEF IInv
  <1> QED
    BY <1>1, Invariance, PTL

(* TypeOK: the variables of the loop stay in their domains, its counter within
   the limit (pool.rs:177-192). *)
THEOREM TypeCorrect == Spec => []TypeOK
  <1>1. IInv => TypeOK
    BY DEF IInv
  <1> QED
    BY <1>1, Invariance, PTL

-----------------------------------------------------------------------------
(* Sites are told apart by host alone (pool.rs:484-493), and that is all that is wrong
   with the referer: where a site is one origin, which takes one scheme and port for
   each host and no more than one IP address, no chain of redirects names a path to
   another origin. *)
THEOREM StrictOriginIfOneEach ==
    ASSUME \A u, v \in Url : Domain(u) = Domain(v) => Origin(u) = Origin(v)
    PROVE  Spec => []StrictOrigin
  <1>1. ASSUME IInv, NEW i \in 1 .. Len(sent), sent[i].referer # NoUrl, sent[i].referer.full
        PROVE  Origin(sent[i].referer.of) = Origin(sent[i].url)
    <2>1. sent \in Seq(Message) /\ Len(sent) \in Nat
      BY <1>1 DEF IInv, TypeOK
    <2>2. i > 1 /\ i - 1 \in 1 .. Len(sent) /\ i - 1 \in 1 .. i
      BY <1>1, <2>1 DEF IInv, FirstHopMarks
    <2>3. sent[i].referer.of = sent[i - 1].url
      BY <1>1, <2>2 DEF IInv, FirstHopMarks
    <2>4. Domain(sent[i - 1].url) = Domain(sent[i].url)
      BY <1>1, <2>2 DEF IInv, CrossSiteSticks
    <2>5. sent[i] \in Message /\ sent[i - 1] \in Message
      BY <1>1, <2>1, <2>2
    <2>6. sent[i].url \in Url /\ sent[i - 1].url \in Url
      BY <2>5 DEF Message
    <2> QED
      BY <2>3, <2>4, <2>6
  <1>2. IInv => StrictOrigin
    BY <1>1 DEF StrictOrigin
  <1> QED
    BY <1>2, Invariance, PTL

=============================================================================
