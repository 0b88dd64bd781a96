------------------------- MODULE Http2SessionProofs -------------------------
(***************************************************************************)
(* What holds of one HTTP/2 connection for any number of calls, any limit  *)
(* of streams and any windows: the server's limits are kept, the window of *)
(* the connection is conserved, calls block each other in one way only and *)
(* it takes large bodies, or many, to do so, and all of it implements      *)
(* Session.                                                                *)
(***************************************************************************)
EXTENDS Http2Session, FiniteSetTheorems, TLAPS

(* TypeOK without its two bounds: that of the streams is Limits, and that of the
   connection window follows from its conservation. *)
Domains ==
    /\ wire \in {"open", "draining", "closed"}
    /\ stream \in [Call -> {"none", "queued", "open", "ended", "reset", "unsent"}]
    /\ size \in [Call -> Lengths \cup {Unknown}]
    /\ got \in [Call -> 0 .. StreamWindow]
    /\ credit \in Nat
    /\ call \in [Call -> {"idle", "sent", "answered"} \cup Finished]
    /\ taken \in [Call -> 0 .. StreamWindow]

(* The server's limits: of concurrent streams, and of what one body may be before
   its stream is dropped. *)
Limits == IsFiniteSet(Active) /\ Cardinality(Active) <= MaxStreams

(* A stream that still has something to do is of a connection that is up. *)
Live == \A c \in Call : stream[c] \in {"queued", "open"} => wire # "closed"

(* Only a call that has sent its request, and awaits the response, is queued; no
   response comes before its stream has opened. *)
Queued == \A c \in Call :
    /\ call[c] = "idle" => stream[c] = "none"
    /\ stream[c] = "queued" => call[c] = "sent"
    /\ Holding(c) => stream[c] # "none"
    /\ stream[c] \in {"none", "queued"} => size[c] = Unknown

(* A body that has ended has arrived whole. *)
Arrived == \A c \in Call : Holding(c) /\ stream[c] = "ended" => got[c] = size[c]

(* Only a call that holds its stream receives, and what it has received is gone
   once it lets go. *)
Held == \A c \in Call :
    /\ stream[c] = "open" => Holding(c)
    /\ ~Holding(c) => got[c] = 0

(* The pieces are counted one by one, so that no sum over the calls is needed. *)
Window == IsFiniteSet(Outstanding) /\ CreditConserved

IInv == Domains /\ Limits /\ Live /\ Queued /\ Arrived /\ Held /\ Window

LEMMA InitInv == Init => IInv
  <1> SUFFICES ASSUME Init PROVE IInv
    OBVIOUS
  <1>1. Domains
    BY WindowAssumption DEF Init, Domains
  <1>2. Active = {}
    BY DEF Init, Active
  <1>3. Limits
    BY <1>2, FS_EmptySet, WindowAssumption DEF Limits
  <1>4. Outstanding = {}
    BY DEF Init, Outstanding, Holding
  <1>5. Window
    BY <1>4, FS_EmptySet, WindowAssumption DEF Init, Window, CreditConserved
  <1> QED
    BY <1>1, <1>3, <1>5 DEF Init, IInv, Live, Queued, Arrived, Held, Holding

LEMMA DropStreamInDomains ==
    ASSUME Domains, NEW c \in Call, DropStream(c)
    PROVE /\ size' \in [Call -> Lengths \cup {Unknown}]
          /\ got' \in [Call -> 0 .. StreamWindow]
          /\ credit' \in Nat
  BY WindowAssumption DEF Domains, DropStream

LEMMA DomainsStep == Domains /\ Queued /\ [Next]_vars => Domains'
  <1> SUFFICES ASSUME Domains, Queued, [Next]_vars
               PROVE  Domains'
    OBVIOUS
  <1> USE WindowAssumption DEF Domains, Finished
  <1>1. ASSUME NEW c \in Call, Send(c) \/ Open(c) \/ Respond(c)
        PROVE  Domains'
    BY <1>1 DEF Send, Open, Respond, network
  <1>2. ASSUME NEW c \in Call, Headers(c) \/ EndStream(c) \/ Reset(c)
        PROVE  Domains'
    BY <1>2 DEF Headers, EndStream, Reset
  <1>3. ASSUME NEW c \in Call, Data(c)
        PROVE  Domains'
    BY <1>3 DEF Data, InWindows
  <1>4. ASSUME NEW c \in Call, Take(c)
        PROVE  Domains'
    BY <1>4 DEF Take, network
  <1>5. ASSUME NEW c \in Call, Collect(c) \/ Break(c) \/ Drop(c)
        PROVE  Domains'
    BY <1>5, DropStreamInDomains DEF Collect, Break, Drop
  <1>6. CASE GoAway \/ CloseWire
    BY <1>6 DEF GoAway, CloseWire
  <1>7. CASE UNCHANGED vars
    BY <1>7 DEF vars, network
  <1> QED
    BY <1>1, <1>2, <1>3, <1>4, <1>5, <1>6, <1>7 DEF Next, Quiesce

(* Only Open adds to what is open, and by one. *)
LEMMA LimitsStep == Domains /\ Limits /\ [Next]_vars => Limits'
  <1> SUFFICES ASSUME Domains, Limits, [Next]_vars
               PROVE  Limits'
    OBVIOUS
  <1>1. ASSUME NEW c \in Call, Open(c)
        PROVE  Limits'
    <2>1. Active' = Active \cup {c} /\ c \notin Active
      BY <1>1 DEF Open, Active, Domains
    <2>2. Cardinality(Active) \in Nat
      BY FS_CardinalityType DEF Limits
    <2>3. IsFiniteSet(Active') /\ Cardinality(Active') = Cardinality(Active) + 1
      BY <2>1, FS_AddElement DEF Limits
    <2> QED
      BY <1>1, <2>2, <2>3, WindowAssumption DEF Open, Limits
  <1>2. ASSUME Active' \in SUBSET Active
        PROVE  Limits'
    <2>1. /\ IsFiniteSet(Active') /\ Cardinality(Active') <= Cardinality(Active)
          /\ Cardinality(Active') \in Nat /\ Cardinality(Active) \in Nat
      BY <1>2, FS_Subset, FS_CardinalityType DEF Limits
    <2> QED
      BY <2>1, WindowAssumption DEF Limits
  <1>3. ASSUME NEW c \in Call, Send(c) \/ EndStream(c) \/ Reset(c) \/ Drop(c)
        PROVE  Active' \in SUBSET Active
    BY <1>3 DEF Send, EndStream, Reset, Drop, Active, Domains
  <1>4. ASSUME UNCHANGED stream
        PROVE  Active' \in SUBSET Active
    BY <1>4 DEF Active
  <1>5. ASSUME NEW c \in Call, Respond(c) \/ Headers(c) \/ Data(c) \/ Take(c) \/ Collect(c) \/ Break(c)
        PROVE  UNCHANGED stream
    BY <1>5 DEF Respond, Headers, Data, Take, Collect, Break, network
  <1>6. CASE GoAway \/ CloseWire
    <2>1. Active' \in SUBSET Active
      BY <1>6 DEF GoAway, CloseWire, Active, Domains
    <2> QED
      BY <1>2, <2>1
  <1>7. CASE UNCHANGED vars
    BY <1>2, <1>4, <1>7 DEF vars, network
  <1> QED
    BY <1>1, <1>2, <1>3, <1>4, <1>5, <1>6, <1>7 DEF Next, Quiesce

LEMMA ShapeStep ==
    Domains /\ Live /\ Queued /\ Arrived /\ [Next]_vars => Live' /\ Queued' /\ Arrived'
  <1> SUFFICES ASSUME Domains, Live, Queued, Arrived, [Next]_vars
               PROVE  Live' /\ Queued' /\ Arrived'
    OBVIOUS
  <1> USE DEF Domains, Live, Queued, Arrived, Holding, Finished
  <1>1. ASSUME NEW c \in Call, Send(c) \/ Open(c) \/ Respond(c)
        PROVE  Live' /\ Queued' /\ Arrived'
    <2>1. CASE Send(c)
      BY <2>1 DEF Send
    <2>2. CASE Open(c)
      BY <2>2 DEF Open
    <2>3. CASE Respond(c)
      <3>1. UNCHANGED <<wire, stream, size, got>>
        BY <2>3 DEF Respond, network
      <3>2. call[c] = "sent" /\ call' = [call EXCEPT ![c] = "answered"]
        BY <2>3 DEF Respond
      <3>3. /\ \A d \in Call : Holding(d)' <=> Holding(d)
            /\ \A d \in Call : call'[d] = "idle" => call[d] = "idle"
        BY <3>2
      <3>4. stream[c] # "queued"
        BY <2>3 DEF Respond
      <3> QED
        BY <3>1, <3>2, <3>3, <3>4
    <2> QED
      BY <1>1, <2>1, <2>2, <2>3
  <1>2. ASSUME NEW c \in Call, Headers(c) \/ EndStream(c) \/ Reset(c) \/ Data(c)
        PROVE  Live' /\ Queued' /\ Arrived'
    BY <1>2 DEF Headers, EndStream, Reset, Data
  <1>3. ASSUME NEW c \in Call, Take(c)
        PROVE  Live' /\ Queued' /\ Arrived'
    BY <1>3 DEF Take, network
  <1>4. ASSUME NEW c \in Call, Collect(c) \/ Break(c) \/ Drop(c)
        PROVE  Live' /\ Queued' /\ Arrived'
    <2>1. /\ ~Holding(c)' /\ call'[c] # "idle" /\ UNCHANGED wire
          /\ \A d \in Call : d # c =>
                /\ call'[d] = call[d] /\ stream'[d] = stream[d]
                /\ got'[d] = got[d] /\ size'[d] = size[d]
          /\ stream'[c] \notin {"none", "queued"}
          /\ stream'[c] = "open" => stream[c] = "open"
      BY <1>4 DEF Collect, Break, Drop, DropStream, AtEnd
    <2> QED
      BY <2>1
  <1>5. CASE GoAway \/ CloseWire
    BY <1>5 DEF GoAway, CloseWire
  <1>6. CASE UNCHANGED vars
    BY <1>6 DEF vars, network
  <1> QED
    BY <1>1, <1>2, <1>3, <1>4, <1>5, <1>6 DEF Next, Quiesce

LEMMA HeldStep == Domains /\ Queued /\ Held /\ [Next]_vars => Held'
  <1> SUFFICES ASSUME Domains, Queued, Held, [Next]_vars
               PROVE  Held'
    OBVIOUS
  <1> USE DEF Domains, Queued, Held, Holding, Finished
  <1>1. ASSUME NEW c \in Call, Send(c) \/ Open(c) \/ Respond(c)
        PROVE  Held'
    BY <1>1 DEF Send, Open, Respond, network
  <1>2. ASSUME NEW c \in Call, Headers(c) \/ EndStream(c) \/ Reset(c) \/ Data(c)
        PROVE  Held'
    BY <1>2 DEF Headers, EndStream, Reset, Data
  <1>3. ASSUME NEW c \in Call, Take(c)
        PROVE  Held'
    BY <1>3 DEF Take, network
  <1>4. ASSUME NEW c \in Call, Collect(c) \/ Break(c) \/ Drop(c)
        PROVE  Held'
    <2>1. /\ got'[c] = 0 /\ stream'[c] # "open"
          /\ \A d \in Call : d # c =>
                call'[d] = call[d] /\ stream'[d] = stream[d] /\ got'[d] = got[d]
      BY <1>4 DEF Collect, Break, Drop, DropStream, AtEnd
    <2> QED
      BY <2>1
  <1>5. CASE GoAway \/ CloseWire
    BY <1>5 DEF GoAway, CloseWire
  <1>6. CASE UNCHANGED vars
    BY <1>6 DEF vars, network
  <1> QED
    BY <1>1, <1>2, <1>3, <1>4, <1>5, <1>6 DEF Next, Quiesce

(* A step that neither receives nor lets go of anything. *)
LEMMA WindowFrame ==
    ASSUME Window, UNCHANGED credit,
           \A c \in Call : /\ got'[c] = got[c]
                           /\ Holding(c)' # Holding(c) => got[c] = 0
    PROVE Window'
  <1>1. \A c \in Call, i \in 1 .. StreamWindow :
            Holding(c)' /\ i <= got'[c] <=> Holding(c) /\ i <= got[c]
    OBVIOUS
  <1>2. Outstanding' = Outstanding
    BY <1>1 DEF Outstanding
  <1> QED
    BY <1>2 DEF Window, CreditConserved

(* A piece that arrives is one more, and takes one off the window. *)
LEMMA DataWindow ==
    ASSUME Domains, Held, Window, NEW c \in Call, Data(c)
    PROVE Window'
  <1>1. /\ got[c] \in Nat /\ got[c] < StreamWindow /\ Holding(c)
        /\ got'[c] = got[c] + 1 /\ UNCHANGED call
        /\ \A d \in Call : d # c => got'[d] = got[d]
        /\ credit \in Nat /\ credit' = credit - 1
    BY WindowAssumption DEF Data, InWindows, Domains, Held
  <1>2. \A d \in Call : Holding(d)' <=> Holding(d)
    BY <1>1 DEF Holding
  <1> DEFINE p == <<c, got[c] + 1>>
  <1>3. p \notin Outstanding
    BY <1>1 DEF Outstanding
  <1>4. Outstanding' = Outstanding \cup {p}
    <2>1. \A d \in Call, i \in 1 .. StreamWindow :
              Holding(d)' /\ i <= got'[d] <=> (Holding(d) /\ i <= got[d]) \/ <<d, i>> = p
      BY <1>1, <1>2 DEF Domains
    <2>2. p \in Call \X (1 .. StreamWindow)
      BY <1>1, WindowAssumption
    <2> HIDE DEF p
    <2> QED
      BY <2>1, <2>2 DEF Outstanding
  <1>5. IsFiniteSet(Outstanding') /\ Cardinality(Outstanding') = Cardinality(Outstanding) + 1
    BY <1>3, <1>4, FS_AddElement DEF Window
  <1> QED
    BY <1>1, <1>5, FS_CardinalityType, WindowAssumption DEF Window, CreditConserved

LEMMA PiecesOf ==
    ASSUME NEW c, NEW n \in Nat
    PROVE  IsFiniteSet({c} \X (1 .. n)) /\ Cardinality({c} \X (1 .. n)) = n
  <1>1. IsFiniteSet({c}) /\ Cardinality({c}) = 1
    BY FS_Singleton
  <1>2. IsFiniteSet(1 .. n) /\ Cardinality(1 .. n) = IF 1 > n THEN 0 ELSE n - 1 + 1
    BY FS_Interval
  <1>3. Cardinality(1 .. n) = n
    BY <1>2
  <1> DEFINE one == {c}  all == 1 .. n
  <1>4. IsFiniteSet(one \X all) /\ Cardinality(one \X all) = Cardinality(one) * Cardinality(all)
    <2>1. IsFiniteSet(one) /\ IsFiniteSet(all)
      BY <1>1, <1>2
    <2> HIDE DEF one, all
    <2> QED
      BY <2>1, FS_Product
  <1> QED
    BY <1>1, <1>3, <1>4

(* Whoever lets go of a stream gives back exactly the pieces it had received. *)
LEMMA DropWindow ==
    ASSUME Domains, Window, NEW c \in Call, Holding(c), ~Holding(c)', DropStream(c),
           \A d \in Call : d # c => call'[d] = call[d]
    PROVE Window'
  <1> DEFINE own == {c} \X (1 .. got[c])
  <1>1. /\ got[c] \in Nat /\ got[c] <= StreamWindow
        /\ \A d \in Call : d # c => got'[d] = got[d]
        /\ credit \in Nat /\ credit' = credit + got[c]
    BY WindowAssumption DEF DropStream, Domains
  <1>2. IsFiniteSet(own) /\ Cardinality(own) = got[c]
    BY <1>1, PiecesOf
  <1>3. own \subseteq Outstanding
    BY <1>1, WindowAssumption DEF Outstanding
  <1>4. Outstanding' = Outstanding \ own
    BY <1>1 DEF Outstanding, Holding
  <1>5. Outstanding \cap own = own
    BY <1>3
  <1> HIDE DEF own
  <1>6. /\ IsFiniteSet(Outstanding')
        /\ Cardinality(Outstanding') = Cardinality(Outstanding) - got[c]
    <2>1. /\ IsFiniteSet(Outstanding \ own)
          /\ Cardinality(Outstanding \ own)
                = Cardinality(Outstanding) - Cardinality(Outstanding \cap own)
      BY FS_Difference DEF Window
    <2> QED
      BY <1>2, <1>4, <1>5, <2>1
  <1>7. Cardinality(Outstanding) \in Nat
    BY FS_CardinalityType DEF Window
  <1>8. credit + Cardinality(Outstanding) = ConnWindow
    BY DEF Window, CreditConserved
  <1>9. credit' + Cardinality(Outstanding') = ConnWindow
    BY <1>1, <1>6, <1>7, <1>8
  <1> QED
    BY <1>6, <1>9 DEF Window, CreditConserved

LEMMA WindowStep == Domains /\ Queued /\ Held /\ Window /\ [Next]_vars => Window'
  <1> SUFFICES ASSUME Domains, Queued, Held, Window, [Next]_vars
               PROVE  Window'
    OBVIOUS
  <1>1. ASSUME NEW c \in Call, Send(c)
        PROVE  Window'
    BY <1>1, WindowFrame DEF Send, Holding, Held, Domains
  <1>2. ASSUME NEW c \in Call, Respond(c)
        PROVE  Window'
    BY <1>2, WindowFrame DEF Respond, network, Holding, Domains
  <1>3. ASSUME UNCHANGED <<got, credit, call>>
        PROVE  Window'
    BY <1>3, WindowFrame DEF Holding
  <1>4. ASSUME NEW c \in Call, Open(c) \/ Headers(c) \/ EndStream(c) \/ Reset(c) \/ Take(c)
        PROVE  UNCHANGED <<got, credit, call>>
    BY <1>4 DEF Open, Headers, EndStream, Reset, Take, network
  <1>5. ASSUME NEW c \in Call, Collect(c) \/ Break(c) \/ Drop(c)
        PROVE  Window'
    <2>1. /\ Holding(c) /\ ~Holding(c)' /\ DropStream(c)
          /\ \A d \in Call : d # c => call'[d] = call[d]
      BY <1>5 DEF Collect, Break, Drop, Holding, Domains
    <2> QED
      BY <2>1, DropWindow
  <1>6. CASE GoAway \/ CloseWire
    BY <1>3, <1>6 DEF GoAway, CloseWire
  <1>7. CASE UNCHANGED vars
    BY <1>3, <1>7 DEF vars, network
  <1> QED
    BY <1>1, <1>2, <1>3, <1>4, <1>5, <1>6, <1>7, DataWindow DEF Next, Quiesce

LEMMA Invariance == Spec => []IInv
  <1>1. IInv /\ [Next]_vars => IInv'
    BY DomainsStep, LimitsStep, ShapeStep, HeldStep, WindowStep DEF IInv
  <1> QED
    BY <1>1, InitInv, PTL DEF Spec

(* The window of the connection is not used up by what is over (response.rs:91):
   with any number of calls, what is missing of it is what the responses in hand
   have received. *)
THEOREM CreditConservedHolds == Spec => []CreditConserved
  BY Invariance, PTL DEF IInv, Window

(* Every variable stays in its domain: the server's limit of streams is kept, and
   the window of the connection is neither overdrawn nor returned twice. *)
THEOREM TypeCorrect == Spec => []TypeOK
  <1>1. IInv => TypeOK
    <2> SUFFICES ASSUME IInv PROVE TypeOK
      OBVIOUS
    <2>1. Cardinality(Outstanding) \in Nat
      BY FS_CardinalityType DEF IInv, Window
    <2>2. credit \in 0 .. ConnWindow
      BY <2>1, WindowAssumption DEF IInv, Domains, Window, CreditConserved
    <2> QED
      BY <2>2 DEF IInv, Domains, Limits, TypeOK
  <1> QED
    BY <1>1, Invariance, PTL

-----------------------------------------------------------------------------
(* The connection never blocks itself *)

(* A step that c can make alone, or its server: the condition under which Open,
   Headers, Data, EndStream, Respond, Take, Collect or Break can happen. *)
Ready(c) ==
    \/ stream[c] = "queued" /\ Cardinality(Active) < MaxStreams
    \/ stream[c] = "open" /\ size[c] \in {Unknown, got[c]}
    \/ stream[c] = "open" /\ size[c] # Unknown /\ got[c] < size[c] /\ InWindows(c)
    \/ call[c] = "sent" /\ size[c] # Unknown
    \/ call[c] = "answered" /\ (taken[c] < got[c] \/ AtEnd(c))
    \/ /\ stream[c] \in {"reset", "unsent"}
       /\ \/ call[c] = "sent" /\ size[c] = Unknown
          \/ call[c] = "answered" /\ taken[c] = got[c]

(* What has been taken has arrived, and what has arrived was announced. *)
Received == \A c \in Call :
    /\ call[c] = "idle" => taken[c] = 0
    /\ Holding(c) => taken[c] <= got[c]
    /\ size[c] = Unknown => got[c] = 0
    /\ Holding(c) /\ size[c] # Unknown => got[c] <= size[c]

LEMMA NumberFacts ==
    ASSUME Domains, NEW c \in Call
    PROVE  /\ got[c] \in Nat /\ got[c] <= StreamWindow /\ taken[c] \in Nat
           /\ size[c] # Unknown => size[c] \in Nat
  <1>1. got[c] \in 0 .. StreamWindow /\ taken[c] \in 0 .. StreamWindow
    BY DEF Domains
  <1>2. size[c] \in Lengths \cup {Unknown}
    BY DEF Domains
  <1>3. size[c] # Unknown => size[c] \in Nat
    BY <1>2, LengthAssumption
  <1> QED
    BY <1>1, <1>3, WindowAssumption

LEMMA ReceivedStep == Domains /\ Held /\ Queued /\ Received /\ [Next]_vars => Received'
  <1> SUFFICES ASSUME Domains, Held, Queued, Received, [Next]_vars
               PROVE  Received'
    OBVIOUS
  <1> USE LengthAssumption, WindowAssumption DEF Domains, Held, Queued, Received, Holding, Finished
  <1>1. ASSUME NEW c \in Call, Send(c) \/ Open(c) \/ Respond(c)
        PROVE  Received'
    BY <1>1 DEF Send, Open, Respond, network
  <1>2. ASSUME NEW c \in Call, Headers(c)
        PROVE  Received'
    BY <1>2 DEF Headers
  <1>3. ASSUME NEW c \in Call, EndStream(c) \/ Reset(c)
        PROVE  Received'
    BY <1>3 DEF EndStream, Reset
  <1>4. ASSUME NEW c \in Call, Data(c)
        PROVE  Received'
    <2>1. /\ got' = [got EXCEPT ![c] = got[c] + 1] /\ UNCHANGED <<size, call, taken>>
          /\ size[c] # Unknown /\ got[c] < size[c]
      BY <1>4 DEF Data
    <2>2. /\ got'[c] = got[c] + 1 /\ \A d \in Call : d # c => got'[d] = got[d]
      BY <2>1
    <2>3. /\ got[c] \in Nat /\ taken[c] \in Nat /\ size[c] \in Nat
      BY <2>1, NumberFacts
    <2>4. ASSUME Holding(c) PROVE taken'[c] <= got'[c] /\ got'[c] <= size'[c]
      BY <2>1, <2>2, <2>3, <2>4
    <2> QED
      BY <2>1, <2>2, <2>4
  <1>5. ASSUME NEW c \in Call, Take(c)
        PROVE  Received'
    BY <1>5 DEF Take, network
  <1>6. ASSUME NEW c \in Call, Collect(c) \/ Break(c) \/ Drop(c)
        PROVE  Received'
    <2>1. /\ got'[c] = 0 /\ call'[c] \in Finished
          /\ \A d \in Call : d # c => /\ call'[d] = call[d] /\ taken'[d] = taken[d]
                                     /\ got'[d] = got[d] /\ size'[d] = size[d]
      BY <1>6 DEF Collect, Break, Drop, DropStream
    <2> QED
      BY <2>1
  <1>7. CASE GoAway \/ CloseWire
    BY <1>7 DEF GoAway, CloseWire
  <1>8. CASE UNCHANGED vars
    BY <1>8 DEF vars, network
  <1> QED
    BY <1>1, <1>2, <1>3, <1>4, <1>5, <1>6, <1>7, <1>8 DEF Next, Quiesce

LEMMA InvarianceReceived == Spec => []Received
  <1>1. Init => Received
    BY DEF Init, Received, Holding
  <1>2. IInv /\ Received /\ [Next]_vars => Received'
    BY ReceivedStep DEF IInv
  <1> QED
    BY <1>1, <1>2, Invariance, PTL DEF Spec

(* What is known of an open stream when nobody can go on. *)
LEMMA ActiveRuns ==
    ASSUME IInv, Received, \A c \in Call : ~Ready(c), NEW c \in Active
    PROVE  /\ c \in Call /\ stream[c] = "open" /\ Holding(c)
           /\ size[c] # Unknown /\ size[c] \in Nat /\ got[c] \in Nat /\ got[c] < size[c]
  <1>1. c \in Call /\ stream[c] = "open" /\ size[c] # Unknown /\ size[c] # got[c]
    BY DEF Active, Ready
  <1>2. Holding(c) /\ size[c] \in Nat /\ got[c] \in Nat
    BY <1>1, NumberFacts DEF IInv, Held
  <1> QED
    BY <1>1, <1>2 DEF Received

(* When nobody can go on, whoever holds a stream waits for it to open, or for a
   body that is still on its way. *)
LEMMA StuckStreams ==
    ASSUME IInv, Received, \A c \in Call : ~Ready(c), NEW c \in Call, Holding(c)
    PROVE  stream[c] \in {"queued", "open"}
  <1>1. stream[c] \in {"queued", "open", "ended", "reset", "unsent"}
    BY DEF IInv, Domains, Queued
  <1>2. got[c] \in Nat /\ taken[c] \in Nat /\ taken[c] <= got[c]
    BY NumberFacts DEF IInv, Received
  <1>3. CASE call[c] = "sent"
    <2>1. stream[c] # "ended"
      BY <1>2, <1>3, LengthAssumption DEF IInv, Arrived, Ready
    <2>2. stream[c] \notin {"reset", "unsent"}
      BY <1>3 DEF Ready
    <2> QED
      BY <1>1, <2>1, <2>2
  <1>4. CASE call[c] = "answered"
    <2>1. taken[c] = got[c]
      BY <1>2, <1>4 DEF Ready
    <2>2. stream[c] \notin {"ended", "reset", "unsent"}
      BY <1>4, <2>1 DEF Ready, AtEnd
    <2> QED
      BY <1>1, <2>2
  <1> QED
    BY <1>3, <1>4 DEF Holding

(* Then all that is missing of the connection window is of incomplete bodies. *)
LEMMA StuckWindow ==
    ASSUME IInv, Received, \A c \in Call : ~Ready(c)
    PROVE  Incomplete = Outstanding
  <1> SUFFICES ASSUME NEW p \in Outstanding PROVE stream[p[1]] = "open"
    BY DEF Incomplete
  <1>1. p[1] \in Call /\ Holding(p[1]) /\ got[p[1]] # 0
    <2>1. p[1] \in Call /\ p[2] \in 1 .. StreamWindow /\ p[2] <= got[p[1]] /\ Holding(p[1])
      BY DEF Outstanding
    <2> QED
      BY <2>1, WindowAssumption
  <1>2. stream[p[1]] \in {"queued", "open"}
    BY <1>1, StuckStreams
  <1> QED
    BY <1>1, <1>2 DEF IInv, Queued, Received

(* Calls that share a connection block each other in one way only (response.rs:92-95):
   whatever was cancelled, refused, reset or cut off before, while one of them holds
   its stream some call can go on, unless the bodies that are on their way fill the
   windows.  Nothing is said of how large bodies, limits and windows are. *)
THEOREM NeverBlocked ==
    Spec => []((\E c \in Call : Holding(c)) /\ (\A c \in Call : ~Ready(c)) => Clogged)
  <1>1. ASSUME IInv, Received, NEW h \in Call, Holding(h), \A c \in Call : ~Ready(c)
        PROVE  Clogged
    <2>1. Active # {}
      <3> SUFFICES ASSUME Active = {} PROVE FALSE
        OBVIOUS
      <3>1. stream[h] = "queued"
        BY <1>1, StuckStreams DEF Active
      <3>2. Cardinality(Active) < MaxStreams
        BY FS_EmptySet, WindowAssumption
      <3> QED
        BY <1>1, <3>1, <3>2 DEF Ready
    <2>2. ASSUME NEW c \in Active
          PROVE  /\ size[c] # Unknown /\ got[c] < size[c]
                 /\ got[c] = StreamWindow \/ Cardinality(Incomplete) = ConnWindow
      <3>1. /\ c \in Call /\ stream[c] = "open" /\ size[c] # Unknown
            /\ got[c] \in Nat /\ got[c] < size[c]
        BY <1>1, <2>2, ActiveRuns
      <3>2. ~InWindows(c)
        BY <1>1, <3>1 DEF Ready
      <3>3. got[c] <= StreamWindow
        BY <1>1, <3>1, NumberFacts DEF IInv
      <3>4. CASE credit > 0
        BY <3>1, <3>2, <3>3, <3>4, WindowAssumption DEF InWindows
      <3>5. CASE ~(credit > 0)
        <4>1. credit = 0
          BY <1>1, <3>5 DEF IInv, Domains
        <4>2. Cardinality(Outstanding) \in Nat
          BY <1>1, FS_CardinalityType DEF IInv, Window
        <4>3. Cardinality(Outstanding) = ConnWindow
          BY <1>1, <4>1, <4>2 DEF IInv, Window, CreditConserved
        <4> QED
          BY <1>1, <3>1, <4>3, StuckWindow
      <3> QED
        BY <3>4, <3>5
    <2> QED
      BY <2>1, <2>2 DEF Clogged
  <1>2. IInv /\ Received =>
            ((\E c \in Call : Holding(c)) /\ (\A c \in Call : ~Ready(c)) => Clogged)
    BY <1>1
  <1> QED
    BY <1>2, Invariance, InvarianceReceived, PTL

(* The pieces of incomplete bodies none of which is larger than the window of its
   stream: each open stream has at most all but one. *)
LEMMA IncompleteBound ==
    ASSUME IInv, \A c \in Active : /\ size[c] # Unknown /\ got[c] < size[c]
                                   /\ size[c] <= StreamWindow
    PROVE  /\ Cardinality(Incomplete) \in Nat /\ Cardinality(Active) \in Nat
           /\ Cardinality(Incomplete) <= Cardinality(Active) * (StreamWindow - 1)
  <1> DEFINE room == StreamWindow - 1
             every == 1 .. room
  <1>1. room \in Nat
    BY WindowAssumption
  <1>2. Incomplete \subseteq Active \X every
    <2> SUFFICES ASSUME NEW c \in Call, NEW i \in 1 .. StreamWindow,
                        i <= got[c], stream[c] = "open"
                 PROVE  c \in Active /\ i \in 1 .. room
      BY DEF Incomplete, Outstanding
    <2>1. c \in Active
      BY DEF Active
    <2>2. got[c] \in Nat /\ size[c] \in Nat
      BY <2>1, NumberFacts DEF IInv
    <2>3. i \in 1 .. room
      BY <2>1, <2>2, WindowAssumption
    <2> QED
      BY <2>1, <2>3
  <1>3. IsFiniteSet(Active) /\ Cardinality(Active) \in Nat
    BY FS_CardinalityType DEF IInv, Limits
  <1>4. IsFiniteSet(every) /\ Cardinality(every) = room
    <2>1. IsFiniteSet(1 .. room) /\ Cardinality(1 .. room) = IF 1 > room THEN 0 ELSE room - 1 + 1
      <3> HIDE DEF room
      <3> QED
        BY <1>1, FS_Interval
    <2> HIDE DEF room
    <2> QED
      BY <1>1, <2>1
  <1> HIDE DEF every
  <1>5. /\ IsFiniteSet(Active \X every)
        /\ Cardinality(Active \X every) = Cardinality(Active) * Cardinality(every)
    BY <1>3, <1>4, FS_Product
  <1>6. IsFiniteSet(Incomplete) /\ Cardinality(Incomplete) <= Cardinality(Active \X every)
    BY <1>2, <1>5, FS_Subset
  <1>7. Cardinality(Incomplete) \in Nat
    BY <1>6, FS_CardinalityType
  <1> QED
    BY <1>3, <1>4, <1>5, <1>6, <1>7

(* What it takes to clog a connection (handshake.rs:32-38): a body larger than the
   window of its stream, or so many open bodies that all but one piece of each fills
   the window of the connection.  With the 6,291,456 and 15,728,640 bytes of the
   code, bodies that fit their windows need at least three open streams. *)
THEOREM CloggedBound ==
    Spec => [](Clogged =>
                 \/ \E c \in Active : size[c] > StreamWindow
                 \/ Cardinality(Active) * (StreamWindow - 1) >= ConnWindow)
  <1>1. ASSUME IInv, Clogged, ~ \E c \in Active : size[c] > StreamWindow
        PROVE  Cardinality(Active) * (StreamWindow - 1) >= ConnWindow
    <2>1. \A c \in Active : /\ c \in Call /\ size[c] # Unknown /\ got[c] < size[c]
                            /\ got[c] = StreamWindow \/ Cardinality(Incomplete) = ConnWindow
      BY <1>1 DEF Clogged, Active
    <2>2. \A c \in Active : /\ got[c] \in Nat /\ size[c] \in Nat /\ size[c] <= StreamWindow
      BY <1>1, <2>1, NumberFacts, WindowAssumption DEF IInv
    <2>3. /\ Cardinality(Incomplete) \in Nat /\ Cardinality(Active) \in Nat
          /\ Cardinality(Incomplete) <= Cardinality(Active) * (StreamWindow - 1)
      BY <1>1, <2>1, <2>2, IncompleteBound
    <2>4. Cardinality(Incomplete) = ConnWindow
      <3>1. PICK c \in Active : TRUE
        BY <1>1 DEF Clogged
      <3>2. got[c] # StreamWindow
        BY <2>1, <2>2, <3>1, WindowAssumption
      <3> QED
        BY <2>1, <3>1, <3>2
    <2>5. Cardinality(Active) * (StreamWindow - 1) \in Nat
      <3> DEFINE n == Cardinality(Active)  k == StreamWindow - 1
      <3>1. n \in Nat /\ k \in Nat
        BY <2>3, WindowAssumption
      <3> HIDE DEF n, k
      <3>2. n * k \in Nat
        BY <3>1
      <3> QED
        BY <3>2 DEF n, k
    <2> HIDE DEF Clogged
    <2> QED
      BY <2>3, <2>4, <2>5, WindowAssumption
  <1>2. IInv => (Clogged => \/ \E c \in Active : size[c] > StreamWindow
                            \/ Cardinality(Active) * (StreamWindow - 1) >= ConnWindow)
    BY <1>1
  <1> QED
    BY <1>2, Invariance, PTL

-----------------------------------------------------------------------------
(* Refinement *)

LEMMA InitRefines == Init => S!Init
  <1> SUFFICES ASSUME Init PROVE S!Init
    OBVIOUS
  <1>1. SessionState = "open" /\ SessionCall = [c \in Call |-> "idle"]
    BY DEF Init, SessionState, SessionCall, Holding
  <1>2. Processed = [c \in Call |-> FALSE]
    <2>1. \A c \in Call : (stream[c] \in {"open", "ended", "reset"}) = FALSE
      BY DEF Init
    <2> QED
      BY <2>1, Zenon DEF Processed
  <1>3. Answer = [c \in Call |-> Unknown]
    BY DEF Init, Answer
  <1>4. Result = [c \in Call |-> Unknown]
    BY DEF Init, Result
  <1> QED
    BY <1>1, <1>2, <1>3, <1>4 DEF S!Init

LEMMA SendRefines ==
    ASSUME IInv, NEW c \in Call, Send(c)
    PROVE S!Offer(c) \/ S!Fail(c)
  <1>1. UNCHANGED <<SessionState, Answer>>
    BY DEF Send, SessionState, Answer, IInv, Domains, Queued
  <1>2. UNCHANGED Processed
    BY DEF Send, Processed, IInv, Domains, Queued
  <1>3. UNCHANGED Result
    BY DEF Send, Result, IInv, Domains
  <1>4. SessionCall[c] = "idle"
    BY DEF Send, SessionCall, Holding
  <1>5. \/ SessionCall' = [SessionCall EXCEPT ![c] = "waiting"]
        \/ SessionCall' = [SessionCall EXCEPT ![c] = "err"]
    BY DEF Send, SessionCall, Holding, IInv, Domains
  <1> QED
    BY <1>1, <1>2, <1>3, <1>4, <1>5 DEF S!Offer, S!Fail

LEMMA OpenRefines ==
    ASSUME IInv, NEW c \in Call, Open(c)
    PROVE S!Process(c)
  <1>1. SessionState = "open"
    BY DEF Open, SessionState, IInv, Live
  <1>2. SessionCall[c] = "waiting"
    BY DEF Open, SessionCall, Holding, IInv, Queued
  <1>3. ~Processed[c] /\ Processed' = [Processed EXCEPT ![c] = TRUE]
    BY DEF Open, Processed, IInv, Domains
  <1>4. UNCHANGED <<SessionState, SessionCall, Answer, Result>>
    BY DEF Open, SessionState, SessionCall, Holding, Answer, Result, IInv, Domains
  <1> QED
    BY <1>1, <1>2, <1>3, <1>4 DEF S!Process

(* Reading, and what the server sends before the end of a body, is not seen. *)
LEMMA MiddleRefines ==
    ASSUME IInv, NEW c \in Call,
           Respond(c) \/ Headers(c) \/ Data(c) \/ Reset(c) \/ Take(c)
    PROVE UNCHANGED S!vars
  <1>1. UNCHANGED SessionState
    BY DEF Respond, Headers, Data, Reset, Take, network, SessionState
  <1>2. UNCHANGED SessionCall
    BY DEF Respond, Headers, Data, Reset, Take, network, SessionCall, Holding, IInv, Domains
  <1>3. UNCHANGED <<Processed, Answer>>
    BY DEF Respond, Headers, Data, Reset, Take, network, Processed, Answer, IInv, Domains
  <1>4. UNCHANGED Result
    BY DEF Respond, Headers, Data, Reset, Take, network, Result, IInv, Domains
  <1> QED
    BY <1>1, <1>2, <1>3, <1>4 DEF S!vars

LEMMA EndStreamRefines ==
    ASSUME IInv, NEW c \in Call, EndStream(c)
    PROVE S!Complete(c)
  <1>1. SessionState = "open"
    BY DEF EndStream, SessionState, IInv, Live
  <1>2. Processed[c] /\ UNCHANGED Processed
    <2>1. \A d \in Call : (stream'[d] \in {"open", "ended", "reset"})
                            = (stream[d] \in {"open", "ended", "reset"})
      BY DEF EndStream, IInv, Domains
    <2>2. UNCHANGED Processed
      BY <2>1, Zenon DEF Processed
    <2>3. Processed[c]
      BY DEF EndStream, Processed
    <2> QED
      BY <2>2, <2>3
  <1>3. size[c] \in Lengths
    BY LengthAssumption, WindowAssumption DEF EndStream, IInv, Domains
  <1>4. Answer[c] = Unknown /\ Answer' = [Answer EXCEPT ![c] = size[c]]
    BY DEF EndStream, Answer, IInv, Domains
  <1>5. UNCHANGED <<SessionState, SessionCall, Result>>
    BY DEF EndStream, SessionState, SessionCall, Holding, Result
  <1> QED
    BY <1>1, <1>2, <1>3, <1>4, <1>5 DEF S!Complete, Answer

LEMMA WireRefines ==
    ASSUME IInv, GoAway \/ CloseWire
    PROVE S!Close \/ UNCHANGED S!vars
  <1>1. UNCHANGED <<Processed, Answer>>
    BY DEF GoAway, CloseWire, Processed, Answer, IInv, Domains
  <1>2. UNCHANGED <<SessionCall, Result>>
    BY DEF GoAway, CloseWire, SessionCall, Holding, Result
  <1>3. CASE GoAway
    BY <1>1, <1>2, <1>3 DEF GoAway, SessionState, S!vars
  <1>4. CASE CloseWire
    BY <1>1, <1>2, <1>4 DEF CloseWire, SessionState, S!Close
  <1> QED
    BY <1>3, <1>4

(* Whoever lets its stream go takes no complete answer with it. *)
LEMMA FinishRefines ==
    ASSUME IInv, NEW c \in Call, Collect(c) \/ Break(c) \/ Drop(c)
    PROVE S!Deliver(c) \/ S!Fail(c) \/ S!Drop(c)
  <1>1. SessionCall[c] = "waiting"
    BY DEF Collect, Break, Drop, SessionCall, Holding
  <1>2. UNCHANGED <<SessionState, Processed>>
    BY DEF Collect, Break, Drop, SessionState, Processed, IInv, Domains
  <1>3. UNCHANGED Answer
    BY DEF Collect, Break, Drop, DropStream, Answer, IInv, Domains
  <1>4. ASSUME NEW end \in {"ok", "err", "gone"}, call' = [call EXCEPT ![c] = end]
        PROVE  SessionCall' = [SessionCall EXCEPT ![c] = end]
    BY <1>4 DEF SessionCall, Holding, IInv, Domains
  <1>5. ASSUME NEW end \in {"err", "gone"}, call' = [call EXCEPT ![c] = end],
               taken' = [taken EXCEPT ![c] = 0]
        PROVE  UNCHANGED Result
    BY <1>1, <1>5 DEF Result, SessionCall, Holding, IInv, Domains
  <1>6. CASE Collect(c) /\ call' = [call EXCEPT ![c] = "ok"] /\ UNCHANGED taken
    <2>1. taken[c] = size[c] /\ size[c] \in Nat
      BY <1>6, WindowAssumption DEF Collect, AtEnd, Holding, IInv, Arrived, Domains
    <2>2. Answer[c] = taken[c] /\ Answer[c] # Unknown
      BY <1>6, <2>1, LengthAssumption DEF Collect, AtEnd, Answer
    <2>3. Result' = [Result EXCEPT ![c] = taken[c]]
      BY <1>6 DEF Result, IInv, Domains
    <2> QED
      BY <1>1, <1>2, <1>3, <1>4, <1>6, <2>2, <2>3 DEF S!Deliver
  <1>7. CASE call' = [call EXCEPT ![c] = "err"] /\ taken' = [taken EXCEPT ![c] = 0]
    BY <1>1, <1>2, <1>3, <1>4, <1>5, <1>7 DEF S!Fail
  <1>8. CASE Drop(c)
    BY <1>1, <1>2, <1>3, <1>4, <1>5, <1>8 DEF Drop, S!Drop
  <1> QED
    BY <1>6, <1>7, <1>8 DEF Collect, Break

(* The connection task, the queue of streams, the windows and bytes() together
   (connector.rs:150-179, response.rs:87-129) are a session, as the HTTP/3 driver
   is: an answer is returned whole or not at all, for any number of calls. *)
THEOREM Http2ImplementsSession == Spec => ImplementsSession
  <1>1. Init => S!Init
    BY InitRefines
  <1>2. IInv /\ [Next]_vars => [S!Next]_(S!vars)
    <2> SUFFICES ASSUME IInv, [Next]_vars
                 PROVE  [S!Next]_(S!vars)
      OBVIOUS
    <2>1. ASSUME NEW c \in Call, Send(c) \/ Open(c) \/ EndStream(c)
          PROVE  S!Next
      BY <2>1, SendRefines, OpenRefines, EndStreamRefines DEF S!Next
    <2>2. ASSUME NEW c \in Call, Collect(c) \/ Break(c) \/ Drop(c)
          PROVE  S!Next
      BY <2>2, FinishRefines DEF S!Next
    <2>3. ASSUME NEW c \in Call, Respond(c) \/ Headers(c) \/ Data(c) \/ Reset(c) \/ Take(c)
          PROVE  UNCHANGED S!vars
      BY <2>3, MiddleRefines
    <2>4. CASE GoAway \/ CloseWire
      BY <2>4, WireRefines DEF S!Next
    <2>5. CASE UNCHANGED vars
      BY <2>5 DEF vars, network, S!vars, SessionState, SessionCall, Holding, Processed,
                  Answer, Result
    <2> QED
      BY <2>1, <2>2, <2>3, <2>4, <2>5 DEF Next, Quiesce
  <1> QED
    BY <1>1, <1>2, Invariance, PTL DEF Spec, ImplementsSession, S!Spec

=============================================================================
