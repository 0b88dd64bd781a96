------------------------- MODULE ClientStateProofs -------------------------
(***************************************************************************)
(* What holds of the cookie jar and the hint cache for any number of calls,*)
(* origins and hosts and any redirect limit.  The invariant says what each *)
(* call knows at each of its steps; it is kept by a step of another call   *)
(* because the jar and the cache only grow.                                *)
(***************************************************************************)
EXTENDS ClientState, TLAPS

InJar(v, h, upto) == \E k \in 1 .. upto : jar[h][k] = v

(* What is sent in a hop is one request, built from what the hop has read. *)
SentInv(t) ==
    /\ pc[t] \in {"cookies", "hints", "connect", "err"} => sent[t] = <<>>
    /\ \A j \in 1 .. Len(sent[t]) : sent[t][j] = Build(t)

(* A call has a response to each hop before this one, and to this one once it
   was answered. *)
GotInv(t) ==
    /\ pc[t] \in {"cookies", "hints", "connect", "inflight"} => Len(got[t]) = hop[t]
    /\ pc[t] \in {"answered", "store", "ok"} => Len(got[t]) = hop[t] + 1
    /\ pc[t] \in {"answered", "store"} => got[t][hop[t] + 1].from = origin[t]

(* What was read is of the host of this hop, and still in the jar. *)
SnapshotInv(t) ==
    /\ cookies[t].upto <= Len(jar[cookies[t].host])
    /\ pc[t] \notin {"cookies", "err"} => cookies[t].host = HostOf[origin[t]]

SolicitedInv(t) ==
    /\ \A i \in 1 .. Len(got[t]) : got[t][i].ask => got[t][i].from \in asked
    /\ pc[t] \notin {"cookies", "hints", "err"} /\ acceptCh[t] => origin[t] \in asked

(* Every response is stored, but for the last one while it waits for that. *)
StoredInv(t) ==
    \A i \in 1 .. Len(got[t]) :
        LET h == HostOf[got[t][i].from] IN
        /\ got[t][i].cookie # 0 /\ ~(pc[t] = "answered" /\ i = Len(got[t]))
              => InJar(got[t][i].cookie, h, Len(jar[h]))
        /\ got[t][i].ask /\ ~(pc[t] \in {"answered", "store"} /\ i = Len(got[t]))
              => got[t][i].from \in hints

(* What earlier hops were told has been read, once this hop has read. *)
ReadInv(t) ==
    \A i \in 1 .. hop[t] :
        /\ pc[t] \notin {"cookies", "err"} =>
              (got[t][i].cookie # 0 /\ HostOf[got[t][i].from] = HostOf[origin[t]]
                  => InJar(got[t][i].cookie, cookies[t].host, cookies[t].upto))
        /\ pc[t] \notin {"cookies", "hints", "err"} =>
              (got[t][i].ask /\ got[t][i].from = origin[t] => acceptCh[t])

CallInv(t) ==
    /\ SentInv(t)
    /\ GotInv(t)
    /\ SnapshotInv(t)
    /\ SolicitedInv(t)
    /\ StoredInv(t)
    /\ ReadInv(t)

IInv ==
    /\ TypeOK
    /\ hints \subseteq asked
    /\ \A t \in Task : CallInv(t)

-----------------------------------------------------------------------------
(* The request, and what other calls leave alone *)

LEMMA BuildIs ==
    ASSUME TypeOK, NEW t \in Task
    PROVE /\ Build(t) \in Request
          /\ Build(t).to = origin[t] /\ Build(t).cookie = cookies[t]
          /\ Build(t).hint = acceptCh[t]
          /\ Build(t).sensitive = (cookies[t].upto > 0)
  <1>1. /\ cookies[t] \in Snapshot /\ cookies[t].upto \in Nat
        /\ origin[t] \in Origin /\ acceptCh[t] \in BOOLEAN /\ HostOf[origin[t]] \in Host
    BY HostOfAssumption DEF TypeOK, Snapshot
  <1> DEFINE bare == Bare(t)
             with == InsertCookie(t, bare)
  <1>2. bare \in Request /\ bare.to = origin[t]
    BY <1>1 DEF Bare, Request, Snapshot
  <1>3. with \in Request /\ with.to = origin[t] /\ with.cookie = cookies[t]
    <2> HIDE DEF bare
    <2> QED
      BY <1>1, <1>2 DEF InsertCookie, Request
  <1>4. Build(t) = Inject(t, with)
    BY DEF Build
  <1>5. (cookies[t].upto > 0) \in BOOLEAN
    OBVIOUS
  <1> HIDE DEF with
  <1> QED
    BY <1>1, <1>3, <1>4, <1>5 DEF Inject, Request

Locals(t) == <<pc[t], hop[t], origin[t], cookies[t], acceptCh[t], sent[t], got[t]>>

Grows ==
    /\ hints \subseteq hints'
    /\ asked \subseteq asked'
    /\ \A h \in Host :
        /\ Len(jar[h]) \in Nat /\ Len(jar'[h]) \in Nat /\ Len(jar[h]) <= Len(jar'[h])
        /\ \A k \in 1 .. Len(jar[h]) : jar'[h][k] = jar[h][k]

(* What was in a jar stays in it. *)
LEMMA InJarStays ==
    ASSUME NEW h \in Host, Grows, NEW k \in 1 .. Len(jar[h])
    PROVE  k \in 1 .. Len(jar'[h]) /\ jar'[h][k] = jar[h][k]
  BY DEF Grows

(* A step of another call keeps what a call knows. *)
LEMMA OtherCall ==
    ASSUME TypeOK, NEW t \in Task, CallInv(t), Grows, UNCHANGED Locals(t)
    PROVE CallInv(t)'
  <1>1. /\ pc'[t] = pc[t] /\ hop'[t] = hop[t] /\ origin'[t] = origin[t]
        /\ cookies'[t] = cookies[t] /\ acceptCh'[t] = acceptCh[t]
        /\ sent'[t] = sent[t] /\ got'[t] = got[t]
    BY DEF Locals
  <1>2. /\ cookies[t].host \in Host /\ cookies[t].upto \in Nat
        /\ \A i \in 1 .. Len(got[t]) : HostOf[got[t][i].from] \in Host
    <2>1. cookies[t] \in Snapshot /\ got[t] \in Seq(Response)
      BY DEF TypeOK
    <2>2. \A i \in 1 .. Len(got[t]) : got[t][i] \in Response
      BY <2>1
    <2> QED
      BY <2>1, <2>2, HostOfAssumption DEF Snapshot, Response
  <1>3. SentInv(t)'
    <2>1. Build(t)' = Build(t)
      BY <1>1, Zenon DEF Build, Inject, InsertCookie, Bare
    <2> QED
      BY <1>1, <2>1 DEF CallInv, SentInv
  <1>4. GotInv(t)'
    BY <1>1 DEF CallInv, GotInv
  <1>5. SnapshotInv(t)'
    BY <1>1, <1>2 DEF CallInv, SnapshotInv, Grows
  <1>6. SolicitedInv(t)'
    BY <1>1 DEF CallInv, SolicitedInv, Grows
  <1>7. StoredInv(t)'
    <2> SUFFICES ASSUME NEW i \in 1 .. Len(got[t])
                 PROVE  LET h == HostOf[got[t][i].from] IN
                        /\ got[t][i].cookie # 0 /\ ~(pc[t] = "answered" /\ i = Len(got[t]))
                              => InJar(got[t][i].cookie, h, Len(jar[h]))'
                        /\ got[t][i].ask /\ ~(pc[t] \in {"answered", "store"} /\ i = Len(got[t]))
                              => got[t][i].from \in hints'
      BY <1>1 DEF StoredInv, InJar
    <2> DEFINE h == HostOf[got[t][i].from]
    <2>1. h \in Host /\ Len(jar[h]) \in Nat /\ Len(jar'[h]) \in Nat /\ Len(jar[h]) <= Len(jar'[h])
      BY <1>2 DEF Grows
    <2>2. ASSUME InJar(got[t][i].cookie, h, Len(jar[h]))
          PROVE  \E k \in 1 .. Len(jar'[h]) : jar'[h][k] = got[t][i].cookie
      <3>1. PICK k \in 1 .. Len(jar[h]) : jar[h][k] = got[t][i].cookie
        BY <2>2 DEF InJar
      <3>2. k \in 1 .. Len(jar'[h]) /\ jar'[h][k] = jar[h][k]
        BY <2>1, InJarStays
      <3> QED
        BY <3>1, <3>2
    <2>3. InJar(got[t][i].cookie, h, Len(jar[h])) => InJar(got[t][i].cookie, h, Len(jar[h]))'
      BY <1>1, <2>2 DEF InJar
    <2> QED
      BY <2>3 DEF CallInv, StoredInv, Grows
  <1>8. ReadInv(t)'
    <2>1. \A v : InJar(v, cookies[t].host, cookies[t].upto)
                    => InJar(v, cookies[t].host, cookies[t].upto)'
      BY <1>1, <1>2 DEF InJar, CallInv, SnapshotInv, Grows
    <2> QED
      BY <1>1, <2>1 DEF CallInv, ReadInv, InJar
  <1> QED
    BY <1>3, <1>4, <1>5, <1>6, <1>7, <1>8 DEF CallInv

-----------------------------------------------------------------------------
(* What a step leaves alone, and that it stays in the domains *)

LEMMA SameJarGrows ==
    ASSUME TypeOK, UNCHANGED jar, hints \subseteq hints', asked \subseteq asked'
    PROVE Grows
  <1>1. \A h \in Host : jar[h] \in Seq(1 .. MaxIssue)
    BY DEF TypeOK
  <1> QED
    BY <1>1 DEF Grows

LEMMA OthersUntouched ==
    ASSUME TypeOK, NEW t \in Task, NEW d \in Task, d # t,
           \/ ReadCookies(t) \/ ReadHints(t) \/ Transmit(t) \/ Resend(t)
           \/ Answer(t) \/ StoreCookies(t) \/ StoreHints(t) \/ Break(t)
    PROVE UNCHANGED Locals(d)
  <1> USE DEF TypeOK, Locals, loop
  <1>1. CASE ReadCookies(t) \/ ReadHints(t) \/ Transmit(t) \/ Resend(t)
    BY <1>1 DEF ReadCookies, ReadHints, Transmit, Resend
  <1>2. CASE Answer(t)
    BY <1>2 DEF Answer
  <1>3. CASE StoreCookies(t) \/ Break(t)
    BY <1>3 DEF StoreCookies, Break
  <1>4. CASE StoreHints(t)
    BY <1>4 DEF StoreHints
  <1> QED
    BY <1>1, <1>2, <1>3, <1>4

(* The response that is stored is the last of those that came. *)
LEMMA LastResponse ==
    ASSUME TypeOK, NEW t \in Task, GotInv(t), pc[t] \in {"answered", "store"}
    PROVE /\ Last(got[t]) \in Response
          /\ Last(got[t]) = got[t][hop[t] + 1] /\ Len(got[t]) = hop[t] + 1
          /\ Last(got[t]).from = origin[t]
  <1>1. got[t] \in Seq(Response) /\ hop[t] \in Nat /\ Len(got[t]) = hop[t] + 1
    BY DEF TypeOK, GotInv
  <1> QED
    BY <1>1 DEF GotInv, Last

-----------------------------------------------------------------------------
(* The inductive step, one lemma per action *)

(* A step that keeps what it does not own keeps the invariant. *)
LEMMA StepOf ==
    ASSUME IInv, NEW t \in Task, Grows, TypeOK', hints' \subseteq asked', CallInv(t)',
           \/ ReadCookies(t) \/ ReadHints(t) \/ Transmit(t) \/ Resend(t)
           \/ Answer(t) \/ StoreCookies(t) \/ StoreHints(t) \/ Break(t)
    PROVE IInv'
  <1>1. ASSUME NEW d \in Task, d # t
        PROVE  CallInv(d)'
    <2>1. UNCHANGED Locals(d)
      BY <1>1, OthersUntouched DEF IInv
    <2> QED
      BY <2>1, OtherCall DEF IInv
  <1> QED
    BY <1>1 DEF IInv

LEMMA ReadCookiesStep ==
    ASSUME IInv, NEW t \in Task, ReadCookies(t)
    PROVE IInv'
  <1> DEFINE h == HostOf[origin[t]]
  <1>1. h \in Host /\ jar[h] \in Seq(1 .. MaxIssue) /\ got[t] \in Seq(Response) /\ hop[t] \in Nat
    BY HostOfAssumption DEF IInv, TypeOK
  <1>2. cookies'[t] = [host |-> h, upto |-> Len(jar[h])] /\ cookies'[t] \in Snapshot
    BY <1>1 DEF ReadCookies, Matches, Current, IInv, TypeOK, Snapshot
  <1>3. /\ pc[t] = "cookies" /\ pc'[t] = "hints" /\ UNCHANGED <<jar, hints, asked, issued>>
        /\ UNCHANGED <<origin, hop, acceptCh, sent, got>>
    BY DEF ReadCookies, IInv, TypeOK, shared, servers, loop
  <1>4. TypeOK'
    BY <1>2, <1>3 DEF ReadCookies, IInv, TypeOK, Matches, Current
  <1>5. SentInv(t)' /\ GotInv(t)' /\ SolicitedInv(t)'
    BY <1>3 DEF IInv, CallInv, SentInv, GotInv, SolicitedInv
  <1>6. SnapshotInv(t)'
    BY <1>1, <1>2, <1>3 DEF SnapshotInv
  <1>7. StoredInv(t)'
    BY <1>3 DEF IInv, CallInv, StoredInv, InJar
  <1>8. ReadInv(t)'
    <2>1. Len(got[t]) = hop[t]
      BY <1>3 DEF IInv, CallInv, GotInv
    <2>2. ASSUME NEW i \in 1 .. hop[t], got[t][i].cookie # 0, HostOf[got[t][i].from] = h
          PROVE  InJar(got[t][i].cookie, h, Len(jar[h]))
      BY <1>3, <2>1, <2>2 DEF IInv, CallInv, StoredInv
    <2>3. ASSUME NEW i \in 1 .. hop'[t], got'[t][i].cookie # 0,
                 HostOf[got'[t][i].from] = HostOf[origin'[t]]
          PROVE  InJar(got[t][i].cookie, cookies[t].host, cookies[t].upto)'
      <3>1. InJar(got[t][i].cookie, h, Len(jar[h]))
        BY <1>3, <2>2, <2>3
      <3> QED
        BY <1>2, <1>3, <3>1 DEF InJar
    <2> QED
      BY <1>3, <2>3 DEF ReadInv
  <1> QED
    BY <1>3, <1>4, <1>5, <1>6, <1>7, <1>8, SameJarGrows, StepOf DEF CallInv, IInv

LEMMA ReadHintsStep ==
    ASSUME IInv, NEW t \in Task, ReadHints(t)
    PROVE IInv'
  <1>1. /\ pc[t] = "hints" /\ pc'[t] = "connect" /\ acceptCh'[t] = (origin[t] \in hints)
        /\ UNCHANGED <<jar, hints, asked, issued>>
        /\ UNCHANGED <<origin, hop, cookies, sent, got>>
    BY DEF ReadHints, IInv, TypeOK, shared, servers, loop
  <1>2. TypeOK'
    <2> DEFINE hinted == origin[t] \in hints
    <2>1. hinted \in BOOLEAN
      OBVIOUS
    <2>2. acceptCh' = [acceptCh EXCEPT ![t] = hinted] /\ acceptCh \in [Task -> BOOLEAN]
      BY DEF ReadHints, IInv, TypeOK
    <2> HIDE DEF hinted
    <2>3. acceptCh' \in [Task -> BOOLEAN]
      BY <2>1, <2>2
    <2>4. pc' \in [Task -> {"cookies", "hints", "store"} \cup Waiting \cup Ended]
      BY DEF ReadHints, IInv, TypeOK, Waiting
    <2>5. \A d \in Task : hop'[d] = MaxHops => pc'[d] = "err"
      BY <1>1 DEF ReadHints, IInv, TypeOK
    <2> QED
      BY <1>1, <2>3, <2>4, <2>5 DEF IInv, TypeOK
  <1>3. SentInv(t)' /\ GotInv(t)'
    BY <1>1 DEF IInv, CallInv, SentInv, GotInv
  <1>4. SnapshotInv(t)' /\ SolicitedInv(t)'
    BY <1>1 DEF IInv, CallInv, SnapshotInv, SolicitedInv
  <1>5. StoredInv(t)'
    BY <1>1 DEF IInv, CallInv, StoredInv, InJar
  <1>6. ReadInv(t)'
    <2>1. Len(got[t]) = hop[t]
      BY <1>1 DEF IInv, CallInv, GotInv
    <2>2. \A i \in 1 .. hop[t] : got[t][i].ask => got[t][i].from \in hints
      BY <1>1, <2>1 DEF IInv, CallInv, StoredInv
    <2> QED
      BY <1>1, <2>2 DEF IInv, CallInv, ReadInv, InJar
  <1> QED
    BY <1>1, <1>2, <1>3, <1>4, <1>5, <1>6, SameJarGrows, StepOf DEF CallInv, IInv

(* A step that only sends changes what was sent. *)
LEMMA SendingStep ==
    ASSUME IInv, NEW t \in Task, Transmit(t) \/ Resend(t)
    PROVE IInv'
  <1>1. /\ pc[t] \in {"connect", "inflight"} /\ pc'[t] = "inflight"
        /\ UNCHANGED <<jar, hints, asked, issued, origin, hop, cookies, acceptCh, got>>
        /\ pc' = [pc EXCEPT ![t] = "inflight"]
    BY DEF Transmit, Resend, IInv, TypeOK, shared, servers, loop
  <1>2. Build(t) \in Request
    BY BuildIs DEF IInv
  <1>3. sent[t] \in Seq(Request) /\ \A j \in 1 .. Len(sent[t]) : sent[t][j] = Build(t)
    BY DEF IInv, TypeOK, CallInv, SentInv
  <1>4. /\ sent' = [sent EXCEPT ![t] = sent'[t]] /\ sent'[t] \in Seq(Request)
        /\ \A j \in 1 .. Len(sent'[t]) : sent'[t][j] = Build(t)
    <2> DEFINE r == Build(t)
               more == IF Transmit(t) THEN <<r>> ELSE Append(sent[t], r)
    <2>1. sent' = [sent EXCEPT ![t] = more] /\ sent'[t] = more
      BY DEF Transmit, Resend, Rebuild, IInv, TypeOK
    <2> HIDE DEF r
    <2>2. more \in Seq(Request) /\ \A j \in 1 .. Len(more) : more[j] = r
      BY <1>2, <1>3 DEF r
    <2> HIDE DEF more
    <2> QED
      BY <2>1, <2>2 DEF r
  <1>5. TypeOK'
    <2>1. pc' \in [Task -> {"cookies", "hints", "store"} \cup Waiting \cup Ended]
      BY <1>1 DEF IInv, TypeOK, Waiting
    <2>2. sent' \in [Task -> Seq(Request)]
      BY <1>4 DEF IInv, TypeOK
    <2>3. \A d \in Task : hop'[d] = MaxHops => pc'[d] = "err"
      BY <1>1 DEF IInv, TypeOK
    <2> QED
      BY <1>1, <2>1, <2>2, <2>3 DEF IInv, TypeOK
  <1>6. SentInv(t)'
    <2>1. Build(t)' = Build(t)
      BY <1>1, Zenon DEF Build, Inject, InsertCookie, Bare
    <2> QED
      BY <1>1, <1>4, <2>1 DEF SentInv
  <1>7. GotInv(t)' /\ SnapshotInv(t)' /\ SolicitedInv(t)'
    BY <1>1 DEF IInv, CallInv, GotInv, SnapshotInv, SolicitedInv
  <1>8. StoredInv(t)'
    BY <1>1 DEF IInv, CallInv, StoredInv, InJar
  <1>9. ReadInv(t)'
    BY <1>1 DEF IInv, CallInv, ReadInv, InJar
  <1> QED
    BY <1>1, <1>5, <1>6, <1>7, <1>8, <1>9, SameJarGrows, StepOf DEF CallInv, IInv

LEMMA AnswerStep ==
    ASSUME IInv, NEW t \in Task, Answer(t)
    PROVE IInv'
  <1>1. PICK set \in BOOLEAN, ask \in BOOLEAN :
            /\ set => issued < MaxIssue
            /\ issued' = IF set THEN issued + 1 ELSE issued
            /\ asked' = IF ask THEN asked \cup {origin[t]} ELSE asked
            /\ got' = [got EXCEPT ![t] = Append(@,
                    [from |-> origin[t], cookie |-> IF set THEN issued' ELSE 0, ask |-> ask])]
    BY DEF Answer
  <1> DEFINE r == [from |-> origin[t], cookie |-> IF set THEN issued' ELSE 0, ask |-> ask]
             n == Len(got[t])
  <1>2. /\ pc[t] = "inflight" /\ pc'[t] = "answered" /\ pc' = [pc EXCEPT ![t] = "answered"]
        /\ UNCHANGED <<jar, hints, origin, hop, cookies, acceptCh, sent>>
    BY DEF Answer, IInv, TypeOK, shared, loop
  <1>3. issued' \in 0 .. MaxIssue
    BY <1>1, BoundAssumption DEF IInv, TypeOK
  <1>4. r \in Response /\ r.from = origin[t] /\ r.ask = ask
    BY <1>3, BoundAssumption DEF Response, IInv, TypeOK
  <1>5. /\ asked \subseteq asked' /\ asked' \subseteq Origin
        /\ ask => origin[t] \in asked'
    BY <1>1 DEF IInv, TypeOK
  <1>6. /\ got' = [got EXCEPT ![t] = Append(got[t], r)] /\ got'[t] = Append(got[t], r)
        /\ got[t] \in Seq(Response) /\ n = hop[t] /\ n \in Nat
    BY <1>1, <1>2 DEF IInv, TypeOK, CallInv, GotInv
  <1> HIDE DEF r
  <1>7. /\ got'[t] \in Seq(Response) /\ Len(got'[t]) = n + 1 /\ got'[t][n + 1] = r
        /\ \A i \in 1 .. n : got'[t][i] = got[t][i]
        /\ \A i \in 1 .. n + 1 : i \in 1 .. n \/ i = n + 1
    BY <1>4, <1>6
  <1>8. TypeOK'
    <2>1. pc' \in [Task -> {"cookies", "hints", "store"} \cup Waiting \cup Ended]
      BY <1>2 DEF IInv, TypeOK, Waiting
    <2>2. got' \in [Task -> Seq(Response)]
      BY <1>6, <1>7 DEF IInv, TypeOK
    <2>3. \A d \in Task : hop'[d] = MaxHops => pc'[d] = "err"
      BY <1>2 DEF IInv, TypeOK
    <2> QED
      BY <1>2, <1>3, <1>5, <2>1, <2>2, <2>3 DEF IInv, TypeOK
  <1>9. SentInv(t)'
    <2>1. Build(t)' = Build(t)
      BY <1>2, Zenon DEF Build, Inject, InsertCookie, Bare
    <2> QED
      BY <1>2, <2>1 DEF SentInv, IInv, CallInv
  <1>10. GotInv(t)'
    BY <1>2, <1>4, <1>6, <1>7 DEF GotInv
  <1>11. SnapshotInv(t)' /\ SolicitedInv(t)'
    <2>1. SnapshotInv(t)'
      BY <1>2 DEF IInv, CallInv, SnapshotInv
    <2>2. \A i \in 1 .. n + 1 : got'[t][i].ask => got'[t][i].from \in asked'
      BY <1>4, <1>5, <1>7 DEF IInv, CallInv, SolicitedInv
    <2> QED
      BY <1>2, <1>5, <1>7, <2>1, <2>2 DEF IInv, CallInv, SolicitedInv
  <1>12. StoredInv(t)'
    <2>1. ASSUME NEW i \in 1 .. n
          PROVE  /\ got[t][i].cookie # 0 =>
                        InJar(got[t][i].cookie, HostOf[got[t][i].from],
                              Len(jar[HostOf[got[t][i].from]]))
                 /\ got[t][i].ask => got[t][i].from \in hints
      BY <1>2 DEF IInv, CallInv, StoredInv
    <2> QED
      BY <1>2, <1>7, <2>1 DEF StoredInv, InJar
  <1>13. ReadInv(t)'
    BY <1>2, <1>6, <1>7 DEF IInv, CallInv, ReadInv, InJar
  <1> QED
    BY <1>2, <1>5, <1>8, <1>9, <1>10, <1>11, <1>12, <1>13, SameJarGrows, StepOf
       DEF CallInv, IInv

LEMMA StoreCookiesStep ==
    ASSUME IInv, NEW t \in Task, StoreCookies(t)
    PROVE IInv'
  <1> DEFINE h == HostOf[origin[t]]
             v == Last(got[t]).cookie
             n == hop[t] + 1
  <1>1. /\ pc[t] = "answered" /\ pc'[t] = "store" /\ pc' = [pc EXCEPT ![t] = "store"]
        /\ UNCHANGED <<hints, issued, asked, origin, hop, cookies, acceptCh, sent, got>>
        /\ jar' = IF v = 0 THEN jar ELSE [jar EXCEPT ![h] = Append(@, v)]
    BY DEF StoreCookies, JarWith, IInv, TypeOK, servers, loop
  <1>2. /\ Last(got[t]) = got[t][n] /\ Len(got[t]) = n /\ Last(got[t]).from = origin[t]
        /\ v \in 0 .. MaxIssue
    BY <1>1, LastResponse DEF IInv, CallInv, Response
  <1>3. h \in Host /\ \A g \in Host : jar[g] \in Seq(1 .. MaxIssue) /\ Len(jar[g]) \in Nat
    BY HostOfAssumption DEF IInv, TypeOK
  <1> HIDE DEF h, v
  <1>4. /\ \A g \in Host : jar'[g] = IF g = h /\ v # 0 THEN Append(jar[g], v) ELSE jar[g]
        /\ jar' \in [Host -> Seq(1 .. MaxIssue)]
    <2>1. jar \in [Host -> Seq(1 .. MaxIssue)]
      BY DEF IInv, TypeOK
    <2>2. CASE v = 0
      BY <1>1, <2>1, <2>2
    <2>3. CASE v # 0
      <3>1. v \in 1 .. MaxIssue
        BY <1>2, <2>3, BoundAssumption
      <3>2. Append(jar[h], v) \in Seq(1 .. MaxIssue)
        BY <1>3, <3>1
      <3> QED
        BY <1>1, <1>3, <2>1, <2>3, <3>2
    <2> QED
      BY <2>2, <2>3
  <1>5. Grows
    <2> SUFFICES ASSUME NEW g \in Host
                 PROVE  /\ Len(jar[g]) \in Nat /\ Len(jar'[g]) \in Nat
                        /\ Len(jar[g]) <= Len(jar'[g])
                        /\ \A k \in 1 .. Len(jar[g]) : jar'[g][k] = jar[g][k]
      BY <1>1 DEF Grows
    <2>1. CASE g = h /\ v # 0
      BY <1>3, <1>4, <2>1
    <2>2. CASE ~(g = h /\ v # 0)
      BY <1>3, <1>4, <2>2
    <2> QED
      BY <2>1, <2>2
  <1>6. TypeOK'
    <2>1. pc' \in [Task -> {"cookies", "hints", "store"} \cup Waiting \cup Ended]
      BY <1>1 DEF IInv, TypeOK
    <2>2. \A d \in Task : hop'[d] = MaxHops => pc'[d] = "err"
      BY <1>1 DEF IInv, TypeOK
    <2> QED
      BY <1>1, <1>4, <2>1, <2>2 DEF IInv, TypeOK
  <1>7. SentInv(t)'
    <2>1. Build(t)' = Build(t)
      BY <1>1, Zenon DEF Build, Inject, InsertCookie, Bare
    <2> QED
      BY <1>1, <2>1 DEF SentInv, IInv, CallInv
  <1>8. GotInv(t)' /\ SolicitedInv(t)'
    BY <1>1 DEF IInv, CallInv, GotInv, SolicitedInv
  <1>9. SnapshotInv(t)'
    <2>1. cookies[t].host \in Host /\ cookies[t].upto \in Nat
      BY DEF IInv, TypeOK, Snapshot
    <2> QED
      BY <1>1, <1>5, <2>1 DEF IInv, CallInv, SnapshotInv, Grows
  <1>10. StoredInv(t)'
    <2>1. ASSUME NEW i \in 1 .. n, got[t][i].cookie # 0
          PROVE  InJar(got[t][i].cookie, HostOf[got[t][i].from], Len(jar[HostOf[got[t][i].from]]))'
      <3>1. CASE i = n
        <4>1. got[t][i].cookie = v /\ HostOf[got[t][i].from] = h
          BY <1>2, <3>1 DEF v, h
        <4>2. jar'[h] = Append(jar[h], v)
          BY <1>3, <1>4, <2>1, <4>1
        <4>3. Len(jar'[h]) \in 1 .. Len(jar'[h]) /\ jar'[h][Len(jar'[h])] = v
          BY <1>3, <4>2
        <4> QED
          BY <1>1, <4>1, <4>3 DEF InJar
      <3>2. CASE i # n
        <4> DEFINE g == HostOf[got[t][i].from]
        <4>1. InJar(got[t][i].cookie, g, Len(jar[g]))
          BY <1>2, <2>1, <3>2 DEF IInv, CallInv, StoredInv
        <4>2. g \in Host
          <5>1. got[t] \in Seq(Response)
            BY DEF IInv, TypeOK
          <5>2. got[t][i] \in Response
            BY <1>2, <5>1
          <5> QED
            BY <5>2, HostOfAssumption DEF Response
        <4>3. \E k \in 1 .. Len(jar'[g]) : jar'[g][k] = got[t][i].cookie
          <5>1. PICK k \in 1 .. Len(jar[g]) : jar[g][k] = got[t][i].cookie
            BY <4>1 DEF InJar
          <5>2. k \in 1 .. Len(jar'[g]) /\ jar'[g][k] = jar[g][k]
            BY <1>5, <4>2, InJarStays
          <5> QED
            BY <5>1, <5>2
        <4> QED
          BY <1>1, <4>3 DEF InJar
      <3> QED
        BY <3>1, <3>2
    <2>2. ASSUME NEW i \in 1 .. n, got[t][i].ask, i # n
          PROVE  got[t][i].from \in hints
      BY <1>2, <2>2 DEF IInv, CallInv, StoredInv
    <2> QED
      BY <1>1, <1>2, <2>1, <2>2 DEF StoredInv
  <1>11. ReadInv(t)'
    <2>1. \A w : InJar(w, cookies[t].host, cookies[t].upto)
                    => InJar(w, cookies[t].host, cookies[t].upto)'
      <3>1. cookies[t].host \in Host /\ cookies[t].upto \in Nat
        BY DEF IInv, TypeOK, Snapshot
      <3> QED
        BY <1>1, <1>5, <3>1 DEF InJar, IInv, CallInv, SnapshotInv, Grows
    <2>2. ASSUME NEW i \in 1 .. hop'[t], got'[t][i].cookie # 0,
                 HostOf[got'[t][i].from] = HostOf[origin'[t]]
          PROVE  InJar(got[t][i].cookie, cookies[t].host, cookies[t].upto)'
      <3>1. InJar(got[t][i].cookie, cookies[t].host, cookies[t].upto)
        BY <1>1, <2>2 DEF IInv, CallInv, ReadInv
      <3> QED
        BY <1>1, <2>1, <3>1 DEF InJar
    <2>3. ASSUME NEW i \in 1 .. hop'[t], got'[t][i].ask, got'[t][i].from = origin'[t]
          PROVE  acceptCh'[t]
      BY <1>1, <2>3 DEF IInv, CallInv, ReadInv
    <2> QED
      BY <2>2, <2>3 DEF ReadInv
  <1> QED
    BY <1>1, <1>5, <1>6, <1>7, <1>8, <1>9, <1>10, <1>11, StepOf DEF CallInv, IInv

LEMMA StoreHintsStep ==
    ASSUME IInv, NEW t \in Task, StoreHints(t)
    PROVE IInv'
  <1> DEFINE n == hop[t] + 1
  <1>1. /\ pc[t] = "store" /\ UNCHANGED <<jar, issued, asked, cookies, acceptCh, got>>
        /\ hints' = IF Last(got[t]).ask THEN hints \cup {origin[t]} ELSE hints
    BY DEF StoreHints, Hinted, servers
  <1>2. /\ Last(got[t]) = got[t][n] /\ Len(got[t]) = n /\ Last(got[t]).from = origin[t]
        /\ got[t] \in Seq(Response) /\ n \in Nat /\ n \in 1 .. n /\ origin[t] \in Origin
    BY <1>1, LastResponse DEF IInv, TypeOK, CallInv
  <1>3. /\ hints \subseteq hints' /\ hints' \subseteq Origin /\ hints' \subseteq asked'
        /\ got[t][n].ask => origin[t] \in hints'
    <2>1. got[t][n].ask => origin[t] \in asked
      BY <1>2 DEF IInv, CallInv, SolicitedInv
    <2>2. hints \subseteq hints' /\ hints' \subseteq hints \cup {origin[t]}
      BY <1>1
    <2>3. hints \subseteq Origin /\ hints \subseteq asked /\ UNCHANGED asked
      BY <1>1 DEF IInv, TypeOK
    <2>4. origin[t] \in hints' => origin[t] \in hints \/ got[t][n].ask
      BY <1>1, <1>2
    <2>5. got[t][n].ask => origin[t] \in hints'
      BY <1>1, <1>2
    <2> QED
      BY <1>2, <2>1, <2>2, <2>3, <2>4, <2>5
  <1>4. hop[t] \in 0 .. MaxHops /\ hop[t] # MaxHops /\ n \in 0 .. MaxHops
    BY <1>1, BoundAssumption DEF IInv, TypeOK
  <1>5. \/ /\ pc' = [pc EXCEPT ![t] = "ok"] /\ pc'[t] = "ok"
           /\ UNCHANGED <<hop, origin, sent>>
        \/ /\ hop' = [hop EXCEPT ![t] = n] /\ hop'[t] = n
           /\ pc' = [pc EXCEPT ![t] = pc'[t]]
           /\ pc'[t] \in {"cookies", "err"} /\ (n = MaxHops => pc'[t] = "err")
           /\ \E next \in Origin : origin' = [origin EXCEPT ![t] = next]
           /\ sent' = [sent EXCEPT ![t] = <<>>] /\ sent'[t] = <<>>
    BY <1>4 DEF StoreHints, HopsLeft, loop, IInv, TypeOK
  <1>6. TypeOK'
    <2>1. pc' \in [Task -> {"cookies", "hints", "store"} \cup Waiting \cup Ended]
      BY <1>5 DEF IInv, TypeOK, Ended
    <2>2. hop' \in [Task -> 0 .. MaxHops] /\ origin' \in [Task -> Origin]
      <3>1. hop \in [Task -> 0 .. MaxHops] /\ origin \in [Task -> Origin]
        BY DEF IInv, TypeOK
      <3>2. hop' = hop \/ hop' = [hop EXCEPT ![t] = n]
        BY <1>5
      <3>3. origin' = origin \/ \E next \in Origin : origin' = [origin EXCEPT ![t] = next]
        BY <1>5
      <3>4. hop' \in [Task -> 0 .. MaxHops]
        BY <1>4, <3>1, <3>2
      <3>5. origin' \in [Task -> Origin]
        BY <3>1, <3>3
      <3> QED
        BY <3>4, <3>5
    <2>3. sent' \in [Task -> Seq(Request)]
      <3>1. <<>> \in Seq(Request) /\ sent \in [Task -> Seq(Request)]
        BY DEF IInv, TypeOK
      <3>2. sent' = sent \/ sent' = [sent EXCEPT ![t] = <<>>]
        BY <1>5
      <3> QED
        BY <3>1, <3>2
    <2>4. \A d \in Task : hop'[d] = MaxHops => pc'[d] = "err"
      BY <1>4, <1>5 DEF IInv, TypeOK
    <2> QED
      BY <1>1, <1>3, <2>1, <2>2, <2>3, <2>4 DEF IInv, TypeOK
  <1>7. SentInv(t)'
    <2>1. CASE UNCHANGED <<hop, origin, sent>> /\ pc'[t] = "ok"
      <3>1. Build(t)' = Build(t)
        BY <1>1, <2>1, Zenon DEF Build, Inject, InsertCookie, Bare
      <3> QED
        BY <2>1, <3>1 DEF SentInv, IInv, CallInv
    <2>2. CASE sent'[t] = <<>>
      BY <2>2 DEF SentInv
    <2> QED
      BY <1>5, <2>1, <2>2
  <1>8. GotInv(t)'
    BY <1>1, <1>2, <1>5 DEF GotInv
  <1>9. SnapshotInv(t)'
    BY <1>1, <1>5 DEF IInv, CallInv, SnapshotInv
  <1>10. SolicitedInv(t)'
    BY <1>1, <1>5 DEF IInv, CallInv, SolicitedInv
  <1>11. StoredInv(t)'
    <2>1. ASSUME NEW i \in 1 .. Len(got[t]), got[t][i].cookie # 0
          PROVE  InJar(got[t][i].cookie, HostOf[got[t][i].from], Len(jar[HostOf[got[t][i].from]]))
      BY <1>1, <2>1 DEF IInv, CallInv, StoredInv
    <2>2. ASSUME NEW i \in 1 .. Len(got[t]), got[t][i].ask
          PROVE  got[t][i].from \in hints'
      BY <1>1, <1>2, <1>3, <2>2 DEF IInv, CallInv, StoredInv
    <2> QED
      BY <1>1, <2>1, <2>2 DEF StoredInv, InJar
  <1>12. ReadInv(t)'
    <2>1. CASE UNCHANGED <<hop, origin, sent>> /\ pc'[t] = "ok"
      BY <1>1, <2>1 DEF IInv, CallInv, ReadInv, InJar
    <2>2. CASE pc'[t] \in {"cookies", "err"}
      BY <2>2 DEF ReadInv
    <2> QED
      BY <1>5, <2>1, <2>2
  <1> QED
    BY <1>1, <1>3, <1>6, <1>7, <1>8, <1>9, <1>10, <1>11, <1>12, SameJarGrows, StepOf
       DEF CallInv, IInv

LEMMA BreakStep ==
    ASSUME IInv, NEW t \in Task, Break(t)
    PROVE IInv'
  <1>1. /\ pc' = [pc EXCEPT ![t] = "err"] /\ pc'[t] = "err"
        /\ sent' = [sent EXCEPT ![t] = <<>>] /\ sent'[t] = <<>>
        /\ got' = [got EXCEPT ![t] = <<>>] /\ got'[t] = <<>>
        /\ UNCHANGED <<jar, hints, issued, asked, hop, origin, cookies, acceptCh>>
    BY DEF Break, IInv, TypeOK, shared, servers, loop
  <1>2. TypeOK'
    <2>1. pc' \in [Task -> {"cookies", "hints", "store"} \cup Waiting \cup Ended]
      BY <1>1 DEF IInv, TypeOK, Ended
    <2>2. sent' \in [Task -> Seq(Request)] /\ got' \in [Task -> Seq(Response)]
      BY <1>1 DEF IInv, TypeOK
    <2>3. \A d \in Task : hop'[d] = MaxHops => pc'[d] = "err"
      BY <1>1 DEF IInv, TypeOK
    <2> QED
      BY <1>1, <2>1, <2>2, <2>3 DEF IInv, TypeOK
  <1>3. SentInv(t)' /\ GotInv(t)' /\ SolicitedInv(t)' /\ StoredInv(t)' /\ ReadInv(t)'
    BY <1>1 DEF SentInv, GotInv, SolicitedInv, StoredInv, ReadInv
  <1>4. SnapshotInv(t)'
    BY <1>1 DEF IInv, CallInv, SnapshotInv
  <1> QED
    BY <1>1, <1>2, <1>3, <1>4, SameJarGrows, StepOf DEF CallInv, IInv

LEMMA StutterStep ==
    ASSUME IInv, UNCHANGED vars
    PROVE IInv'
  <1>1. UNCHANGED <<jar, hints, issued, asked, pc, hop, origin, cookies, acceptCh, sent, got>>
    BY DEF vars, shared, servers, loop
  <1>2. TypeOK' /\ hints' \subseteq asked'
    BY <1>1 DEF IInv, TypeOK
  <1>3. ASSUME NEW t \in Task
        PROVE  CallInv(t)'
    BY <1>1, SameJarGrows, OtherCall DEF IInv, Locals
  <1> QED
    BY <1>2, <1>3 DEF IInv

LEMMA InitInv == Init => IInv
  <1> SUFFICES ASSUME Init PROVE IInv
    OBVIOUS
  <1>1. \A t \in Task : cookies[t] \in Snapshot /\ cookies[t].upto = 0 /\ origin[t] \in Origin
                       /\ cookies[t].host \in Host
    BY HostOfAssumption DEF Init, Snapshot
  <1>2. TypeOK
    BY <1>1, BoundAssumption DEF Init, TypeOK
  <1>3. ASSUME NEW t \in Task
        PROVE  CallInv(t)
    <2>1. /\ pc[t] = "cookies" /\ sent[t] = <<>> /\ got[t] = <<>> /\ hop[t] = 0
          /\ jar[cookies[t].host] = <<>>
      BY <1>1 DEF Init
    <2> QED
      BY <1>1, <2>1 DEF CallInv, SentInv, GotInv, SnapshotInv, SolicitedInv, StoredInv, ReadInv
  <1> QED
    BY <1>2, <1>3 DEF IInv, Init

LEMMA Invariance == Spec => []IInv
  <1>1. IInv /\ [Next]_vars => IInv'
    BY ReadCookiesStep, ReadHintsStep, SendingStep, AnswerStep, StoreCookiesStep,
       StoreHintsStep, BreakStep, StutterStep DEF Next, Quiesce
  <1> QED
    BY <1>1, InitInv, PTL DEF Spec

-----------------------------------------------------------------------------
(* What a request carries, and what a call leaves *)

(* What is in a request, from what its call knows. *)
LEMMA SentFacts ==
    ASSUME IInv, NEW t \in Task, NEW j \in 1 .. Len(sent[t])
    PROVE /\ sent[t][j] = Build(t)
          /\ sent[t][j].to = origin[t] /\ sent[t][j].cookie = cookies[t]
          /\ sent[t][j].hint = acceptCh[t]
          /\ sent[t][j].sensitive = (cookies[t].upto > 0)
          /\ pc[t] \notin {"cookies", "hints", "connect", "err"}
  <1>1. sent[t][j] = Build(t) /\ sent[t] # <<>>
    BY DEF IInv, CallInv, SentInv
  <1>2. pc[t] \notin {"cookies", "hints", "connect", "err"}
    BY <1>1 DEF IInv, CallInv, SentInv
  <1> QED
    BY <1>1, <1>2, BuildIs DEF IInv

(* TypeOK: the variables of the calls stay in their domains, and no request is
   prepared at the limit (pool.rs:192). *)
THEOREM TypeCorrect == Spec => []TypeOK
  <1>1. IInv => TypeOK
    BY DEF IInv
  <1> QED
    BY <1>1, Invariance, PTL

(* ReadYourWrites: whatever other calls store meanwhile, a request has what the
   earlier responses of its call have set (pool.rs:222-245, 462-464). *)
THEOREM ReadYourWritesHolds == Spec => []ReadYourWrites
  <1>1. ASSUME IInv
        PROVE  ReadYourWrites
    <2> SUFFICES ASSUME NEW t \in Task, NEW j \in 1 .. Len(sent[t]), NEW i \in 1 .. hop[t]
                 PROVE  /\ got[t][i].cookie # 0 /\ HostOf[got[t][i].from] = HostOf[sent[t][j].to]
                               => got[t][i].cookie \in Stored(sent[t][j].cookie)
                        /\ got[t][i].ask /\ got[t][i].from = sent[t][j].to => sent[t][j].hint
      BY DEF ReadYourWrites
    <2>1. CallInv(t)
      BY <1>1 DEF IInv
    <2>2. /\ sent[t][j].to = origin[t] /\ sent[t][j].cookie = cookies[t]
          /\ sent[t][j].hint = acceptCh[t]
          /\ pc[t] \notin {"cookies", "hints", "connect", "err"}
      BY <1>1, SentFacts
    <2>3. got[t][i].cookie # 0 /\ HostOf[got[t][i].from] = HostOf[origin[t]]
              => InJar(got[t][i].cookie, cookies[t].host, cookies[t].upto)
      BY <2>1, <2>2 DEF CallInv, ReadInv
    <2>4. got[t][i].ask /\ got[t][i].from = origin[t] => acceptCh[t]
      BY <2>1, <2>2 DEF CallInv, ReadInv
    <2> QED
      BY <2>2, <2>3, <2>4 DEF InJar, Stored
  <1> QED
    BY <1>1, Invariance, PTL

(* CookieToOwner: the snapshot in a request is of the host that it goes to
   (pool.rs:229). *)
THEOREM CookieToOwnerHolds == Spec => []CookieToOwner
  <1>1. ASSUME IInv
        PROVE  CookieToOwner
    <2> SUFFICES ASSUME NEW t \in Task, NEW j \in 1 .. Len(sent[t])
                 PROVE  sent[t][j].cookie.host = HostOf[sent[t][j].to]
      BY DEF CookieToOwner
    <2> QED
      BY <1>1, SentFacts DEF IInv, CallInv, SnapshotInv
  <1> QED
    BY <1>1, Invariance, PTL

(* HintSolicited: a hint goes only to an origin that has asked for it
   (request.rs:67, pool.rs:240-245). *)
THEOREM HintSolicitedHolds == Spec => []HintSolicited
  <1>1. ASSUME IInv
        PROVE  HintSolicited
    <2> SUFFICES ASSUME NEW t \in Task, NEW j \in 1 .. Len(sent[t]), sent[t][j].hint
                 PROVE  sent[t][j].to \in asked
      BY DEF HintSolicited
    <2> QED
      BY <1>1, SentFacts DEF IInv, CallInv, SolicitedInv
  <1> QED
    BY <1>1, Invariance, PTL

(* SameTwice: a resend repeats the request, whatever was stored since
   (pool.rs:419-450). *)
THEOREM SameTwiceHolds == Spec => []SameTwice
  <1>1. IInv => SameTwice
    BY DEF IInv, CallInv, SentInv, SameTwice
  <1> QED
    BY <1>1, Invariance, PTL

(* NeverIndexed: a request that carries a cookie carries the mark that keeps it out
   of the compression table (request.rs:46). *)
THEOREM NeverIndexedHolds == Spec => []NeverIndexed
  <1>1. ASSUME IInv
        PROVE  NeverIndexed
    <2> SUFFICES ASSUME NEW t \in Task, NEW j \in 1 .. Len(sent[t]), sent[t][j].cookie.upto > 0
                 PROVE  sent[t][j].sensitive
      BY DEF NeverIndexed
    <2> QED
      BY <1>1, SentFacts
  <1> QED
    BY <1>1, Invariance, PTL

(* StoredWhenDone: what all responses of a finished chain have set is in the jar
   and the cache (pool.rs:463-464, 573-596). *)
THEOREM StoredWhenDoneHolds == Spec => []StoredWhenDone
  <1>1. ASSUME IInv
        PROVE  StoredWhenDone
    <2> SUFFICES ASSUME NEW t \in Task, pc[t] = "ok", NEW i \in 1 .. Len(got[t])
                 PROVE  /\ got[t][i].cookie # 0 => got[t][i].cookie \in
                               Stored([host |-> HostOf[got[t][i].from],
                                       upto |-> Len(jar[HostOf[got[t][i].from]])])
                        /\ got[t][i].ask => got[t][i].from \in hints
      BY DEF StoredWhenDone
    <2>1. StoredInv(t)
      BY <1>1 DEF IInv, CallInv
    <2> QED
      BY <2>1 DEF StoredInv, InJar, Stored
  <1> QED
    BY <1>1, Invariance, PTL

=============================================================================
