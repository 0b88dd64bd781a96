-------------------------- MODULE QuicDriverProofs --------------------------
(***************************************************************************)
(* Proofs about QuicDriver for any number of calls and streams, any        *)
(* capacity of the channel and any length of a response: no call is lost,  *)
(* its oneshot is in one place, a response is the whole answer to the      *)
(* caller's own request, and whoever waits has a step of the driver that   *)
(* can still answer.                                                       *)
(***************************************************************************)
EXTENDS QuicDriver, SequenceTheorems, TLAPS

(* Streams are opened in order; a pending one is the caller's own, and its
   server has not ended it. *)
StreamInv ==
    \A s \in Stream :
        /\ request[s] = NoCall <=> s > opened
        /\ s > opened => told[s] = Silent
        /\ pending[s] # NoCall => request[s] = pending[s] /\ told[s].end = "none"

(* A call that has not got its command into the channel is known to nobody. *)
CallerInv ==
    \A c \in Call : caller[c] \in {"idle", "sending"} => ~Held(c) /\ reply[c] = "empty"

(* The driver leaves nothing behind. *)
ExitInv == driver = "exited" => chan = <<>> /\ \A s \in Stream : pending[s] = NoCall

(* The chunks 1 to n of the answer to c. *)
Body(c, n) == [i \in 1 .. n |-> Chunk(c, i)]

(* What has been collected of a pending stream is what its server has sent. *)
PartialInv ==
    \A s \in Stream : pending[s] # NoCall =>
        partial[s] = [status |-> told[s].status, body |-> Body(request[s], told[s].chunks)]

IInv ==
    /\ TypeOK
    /\ StreamInv
    /\ CallerInv
    /\ ExitInv
    /\ NoLostCall
    /\ OnePlace
    /\ PartialInv
    /\ ResponseIntegrity

-----------------------------------------------------------------------------
(* The channel as a set of calls, and the body as a sequence *)

(* A command that is offered is in the channel, once if it was not before. *)
LEMMA ChannelAppend ==
    ASSUME chan \in Seq(Call), NEW c \in Call, chan' = Append(chan, c)
    PROVE  /\ chan' \in Seq(Call)
           /\ Len(chan') = Len(chan) + 1
           /\ \A d \in Call : InChannel(d)' <=> InChannel(d) \/ d = c
           /\ ~InChannel(c) /\ (\A i, j \in 1 .. Len(chan) : chan[i] = chan[j] => i = j)
                => \A i, j \in 1 .. Len(chan') : chan'[i] = chan'[j] => i = j
  <1>1. /\ chan' \in Seq(Call)
        /\ Len(chan') = Len(chan) + 1
        /\ \A i \in 1 .. Len(chan) : chan'[i] = chan[i]
        /\ chan'[Len(chan) + 1] = c
        /\ Len(chan) \in Nat
    BY AppendProperties
  <1>2. \A i \in 1 .. Len(chan') : i \in 1 .. Len(chan) \/ i = Len(chan) + 1
    BY <1>1
  <1>3. \A i \in 1 .. Len(chan) + 1 : i \in 1 .. Len(chan')
    BY <1>1
  <1>4. ASSUME NEW d \in Call
        PROVE  InChannel(d)' <=> InChannel(d) \/ d = c
    BY <1>1, <1>2, <1>3 DEF InChannel
  <1> QED
    BY <1>1, <1>2, <1>4 DEF InChannel

(* The command that is taken has left the channel, and no other has. *)
LEMMA ChannelTail ==
    ASSUME chan \in Seq(Call), chan # <<>>, chan' = Tail(chan),
           \A i, j \in 1 .. Len(chan) : chan[i] = chan[j] => i = j
    PROVE  /\ chan' \in Seq(Call)
           /\ Len(chan') = Len(chan) - 1
           /\ Head(chan) \in Call /\ InChannel(Head(chan))
           /\ \A d \in Call : InChannel(d)' <=> InChannel(d) /\ d # Head(chan)
           /\ \A i, j \in 1 .. Len(chan') : chan'[i] = chan'[j] => i = j
  <1>1. /\ chan' \in Seq(Call)
        /\ Len(chan') = Len(chan) - 1
        /\ \A i \in 1 .. Len(chan') : chan'[i] = chan[i + 1]
        /\ Len(chan) \in Nat /\ Len(chan) > 0
        /\ Head(chan) = chan[1] /\ Head(chan) \in Call
    BY HeadTailProperties, EmptySeq
  <1>2. \A i \in 1 .. Len(chan') : i + 1 \in 1 .. Len(chan) /\ i + 1 # 1
    BY <1>1
  <1>3. \A i \in 1 .. Len(chan) : i = 1 \/ (i - 1 \in 1 .. Len(chan') /\ (i - 1) + 1 = i)
    BY <1>1
  <1>4. 1 \in 1 .. Len(chan)
    BY <1>1
  <1>5. ASSUME NEW d \in Call
        PROVE  InChannel(d)' <=> InChannel(d) /\ d # Head(chan)
    BY <1>1, <1>2, <1>3, <1>4 DEF InChannel
  <1>6. ASSUME NEW i \in 1 .. Len(chan'), NEW j \in 1 .. Len(chan'), chan'[i] = chan'[j]
        PROVE  i = j
    <2>1. i + 1 = j + 1
      BY <1>1, <1>2, <1>6
    <2> QED
      BY <2>1
  <1> QED
    BY <1>1, <1>4, <1>5, <1>6 DEF InChannel

(* A body grows by its next chunk. *)
LEMMA BodyAppend ==
    ASSUME NEW c, NEW n \in Nat
    PROVE  Append(Body(c, n), Chunk(c, n + 1)) = Body(c, n + 1)
  <1> DEFINE s == Append(Body(c, n), Chunk(c, n + 1))
  <1>1. Body(c, n) \in Seq({Chunk(c, i) : i \in Nat}) /\ Len(Body(c, n)) = n
    BY DEF Body
  <1>2. Len(s) = n + 1 /\ \A i \in 1 .. n + 1 : s[i] = Chunk(c, i)
    BY <1>1 DEF Body
  <1>3. s \in Seq({Chunk(c, i) : i \in Nat})
    BY <1>1
  <1> QED
    BY <1>2, <1>3 DEF Body

(* Every body of an answer is a sequence of chunks. *)
LEMMA BodyEmpty ==
    ASSUME NEW c
    PROVE  Body(c, 0) = <<>>
  BY DEF Body

-----------------------------------------------------------------------------
(* The pending table as a set of calls *)

(* A stream that is not open yet is free in the table, and a call is issued to
   it at most once. *)
LEMMA PendingSet ==
    ASSUME TypeOK, NEW s \in Stream, NEW c \in Call, pending[s] = NoCall,
           pending' = [pending EXCEPT ![s] = c]
    PROVE  /\ pending' \in [Stream -> Call \cup {NoCall}]
           /\ pending'[s] = c
           /\ \A r \in Stream : r # s => pending'[r] = pending[r]
           /\ \A d \in Call : IsPending(d)' <=> IsPending(d) \/ d = c
  <1>1. /\ pending' \in [Stream -> Call \cup {NoCall}]
        /\ pending'[s] = c
        /\ \A r \in Stream : r # s => pending'[r] = pending[r]
    BY DEF TypeOK
  <1>2. ASSUME NEW d \in Call
        PROVE  IsPending(d)' <=> IsPending(d) \/ d = c
    BY <1>1, NoCallAssumption DEF IsPending
  <1> QED
    BY <1>1, <1>2

(* A stream that is forgotten was the only one of its call. *)
LEMMA PendingForget ==
    ASSUME TypeOK, OnePlace, NEW s \in Stream, pending[s] # NoCall, Forget(s)
    PROVE  /\ pending' \in [Stream -> Call \cup {NoCall}]
           /\ pending'[s] = NoCall
           /\ \A r \in Stream : r # s => pending'[r] = pending[r]
           /\ pending[s] \in Call /\ IsPending(pending[s])
           /\ \A d \in Call : IsPending(d)' <=> IsPending(d) /\ d # pending[s]
  <1>1. /\ pending' \in [Stream -> Call \cup {NoCall}]
        /\ pending'[s] = NoCall
        /\ \A r \in Stream : r # s => pending'[r] = pending[r]
        /\ pending[s] \in Call
    BY DEF TypeOK, Forget
  <1>2. ASSUME NEW d \in Call
        PROVE  IsPending(d)' <=> IsPending(d) /\ d # pending[s]
    BY <1>1, NoCallAssumption DEF IsPending, OnePlace
  <1> QED
    BY <1>1, <1>2 DEF IsPending

-----------------------------------------------------------------------------
(* A response stays right while its stream's log, which has ended, does. *)
LEMMA ResponseFrame ==
    ASSUME ResponseIntegrity,
           \A c \in Call : reply'[c] = "ok" => reply[c] = "ok" /\ response'[c] = response[c],
           \A s \in Stream : told[s].end = "fin" => told'[s] = told[s] /\ request'[s] = request[s]
    PROVE  ResponseIntegrity'
  <1>1. ASSUME NEW c \in Call, reply'[c] = "ok"
        PROVE  \E s \in Stream :
                  /\ request'[s] = c
                  /\ told'[s].end = "fin"
                  /\ response'[c] = [status |-> "final",
                                     body |-> [n \in 1 .. told'[s].chunks |-> Chunk(c, n)]]
    <2>1. PICK s \in Stream :
              /\ request[s] = c
              /\ told[s].end = "fin"
              /\ response[c] = [status |-> "final",
                                body |-> [n \in 1 .. told[s].chunks |-> Chunk(c, n)]]
      BY <1>1 DEF ResponseIntegrity
    <2> QED
      BY <1>1, <2>1
  <1> QED
    BY <1>1 DEF ResponseIntegrity, Chunk

-----------------------------------------------------------------------------
(* The inductive step: the callers *)

(* A step of a caller that leaves the channel and the table alone. *)
LEMMA CallerStep ==
    ASSUME IInv, NEW c \in Call, Send(c) \/ Refused(c) \/ Receive(c) \/ Abandon(c)
    PROVE IInv'
  <1>1. /\ caller' \in [Call -> {"idle", "sending", "waiting"} \cup Finished]
        /\ caller'[c] # "idle"
        /\ caller'[c] = "sending" => caller[c] = "idle"
        /\ caller'[c] # "waiting"
        /\ \A d \in Call : d # c => caller'[d] = caller[d]
        /\ UNCHANGED <<oneshot, loop, streams, server>>
    BY DEF IInv, TypeOK, Send, Refused, Receive, Abandon, Finished
  <1>2. TypeOK'
    BY <1>1 DEF IInv, TypeOK, oneshot, loop, streams, server
  <1>3. StreamInv' /\ ExitInv' /\ PartialInv' /\ ResponseIntegrity'
    BY <1>1 DEF IInv, StreamInv, ExitInv, PartialInv, ResponseIntegrity, Body,
                oneshot, loop, streams, server
  <1>4. \A d \in Call : /\ InChannel(d)' <=> InChannel(d)
                        /\ IsPending(d)' <=> IsPending(d)
                        /\ Held(d)' <=> Held(d)
    BY <1>1 DEF InChannel, IsPending, Held, loop, streams
  <1>5. CallerInv'
    BY <1>1, <1>4 DEF IInv, CallerInv, oneshot
  <1>6. NoLostCall'
    BY <1>1, <1>4 DEF IInv, NoLostCall, oneshot, loop
  <1>7. OnePlace'
    BY <1>1, <1>4 DEF IInv, OnePlace, oneshot, loop, streams
  <1> QED
    BY <1>2, <1>3, <1>5, <1>6, <1>7 DEF IInv

LEMMA EnqueueStep ==
    ASSUME IInv, NEW c \in Call, Enqueue(c)
    PROVE IInv'
  <1>1. /\ caller[c] = "sending" /\ driver = "running" /\ Len(chan) < Capacity
        /\ chan' = Append(chan, c)
        /\ caller' = [caller EXCEPT ![c] = "waiting"]
        /\ UNCHANGED <<oneshot, driver, quic, h3, streams, server>>
    BY DEF Enqueue, Room
  <1>2. chan \in Seq(Call) /\ Capacity \in Nat /\ Len(chan) \in Nat
    BY CapacityAssumption DEF IInv, TypeOK
  <1>3. /\ chan' \in Seq(Call) /\ Len(chan') <= Capacity
        /\ \A d \in Call : InChannel(d)' <=> InChannel(d) \/ d = c
    BY <1>1, <1>2, ChannelAppend
  <1>4. ~Held(c) /\ reply[c] = "empty"
    BY <1>1 DEF IInv, CallerInv
  <1>5. \A i, j \in 1 .. Len(chan') : chan'[i] = chan'[j] => i = j
    BY <1>1, <1>2, <1>4, ChannelAppend DEF IInv, OnePlace, Held
  <1>6. \A d \in Call : IsPending(d)' <=> IsPending(d)
    BY <1>1 DEF IsPending, streams
  <1>7. TypeOK'
    BY <1>1, <1>3 DEF IInv, TypeOK, oneshot, streams, server
  <1>8. StreamInv' /\ ExitInv' /\ PartialInv' /\ ResponseIntegrity'
    BY <1>1 DEF IInv, StreamInv, ExitInv, PartialInv, ResponseIntegrity, Body,
                oneshot, streams, server
  <1>9. CallerInv'
    BY <1>1, <1>3, <1>6 DEF IInv, TypeOK, CallerInv, Held, oneshot
  <1>10. NoLostCall'
    BY <1>1, <1>3, <1>6 DEF IInv, TypeOK, NoLostCall, Held, oneshot
  <1>11. OnePlace'
    BY <1>1, <1>3, <1>4, <1>5, <1>6 DEF IInv, OnePlace, Held, oneshot, streams
  <1> QED
    BY <1>7, <1>8, <1>9, <1>10, <1>11 DEF IInv

-----------------------------------------------------------------------------
(* The inductive step: commands *)

(* The command that is taken, and the channel without it. *)
LEMMA TakeFacts ==
    ASSUME IInv, TakeCommand
    PROVE  /\ chan' \in Seq(Call) /\ Len(chan') <= Capacity
           /\ Head(chan) \in Call /\ InChannel(Head(chan)) /\ ~IsPending(Head(chan))
           /\ reply[Head(chan)] = "empty"
           /\ caller[Head(chan)] \notin {"idle", "sending"}
           /\ \A d \in Call : InChannel(d)' <=> InChannel(d) /\ d # Head(chan)
           /\ \A i, j \in 1 .. Len(chan') : chan'[i] = chan'[j] => i = j
           /\ driver = "running" /\ UNCHANGED <<callers, driver, quic, h3>>
  <1>1. chan \in Seq(Call) /\ chan # <<>> /\ chan' = Tail(chan) /\ Len(chan) <= Capacity
    BY DEF IInv, TypeOK, TakeCommand
  <1>2. \A i, j \in 1 .. Len(chan) : chan[i] = chan[j] => i = j
    BY DEF IInv, OnePlace
  <1>3. /\ chan' \in Seq(Call) /\ Len(chan') = Len(chan) - 1
        /\ Head(chan) \in Call /\ InChannel(Head(chan))
        /\ \A d \in Call : InChannel(d)' <=> InChannel(d) /\ d # Head(chan)
        /\ \A i, j \in 1 .. Len(chan') : chan'[i] = chan'[j] => i = j
    BY <1>1, <1>2, ChannelTail
  <1>4. Len(chan') <= Capacity
    BY <1>1, <1>3, CapacityAssumption
  <1>5. ~IsPending(Head(chan)) /\ reply[Head(chan)] = "empty"
    BY <1>3 DEF IInv, OnePlace, Held
  <1>6. caller[Head(chan)] \notin {"idle", "sending"}
    BY <1>3 DEF IInv, CallerInv, Held
  <1> QED
    BY <1>3, <1>4, <1>5, <1>6 DEF TakeCommand, Running

LEMMA IssueStep ==
    ASSUME IInv, TakeCommand, Issue(Head(chan), NextStream)
    PROVE IInv'
  <1> DEFINE c == Head(chan)
             s == opened + 1
  <1>1. /\ opened \in Nat /\ MaxStream \in Nat /\ opened < MaxStream
        /\ s \in Stream /\ s > opened
        /\ opened' = s
        /\ pending' = [pending EXCEPT ![s] = c]
        /\ partial' = [partial EXCEPT ![s] = Empty]
        /\ request' = [request EXCEPT ![s] = c]
        /\ UNCHANGED <<told, oneshot>>
    BY BoundAssumption DEF Issue, NextStream, IInv, TypeOK, Stream
  <1>2. whole' \in [Stream -> BOOLEAN]
    BY TruncatesAssumption DEF Issue, IInv, TypeOK
  <1>3. request[s] = NoCall /\ pending[s] = NoCall /\ told[s] = Silent
    BY <1>1 DEF IInv, StreamInv
  <1>4. c \in Call /\ c # NoCall
    BY TakeFacts, NoCallAssumption
  <1>5. /\ pending' \in [Stream -> Call \cup {NoCall}]
        /\ pending'[s] = c
        /\ \A r \in Stream : r # s => pending'[r] = pending[r]
        /\ \A d \in Call : IsPending(d)' <=> IsPending(d) \/ d = c
    BY <1>1, <1>3, <1>4, PendingSet DEF IInv
  <1>6. \A d \in Call : Held(d)' <=> Held(d)
    BY <1>5, TakeFacts DEF Held
  <1>7. Empty \in Collected
    BY DEF Empty, Collected, Status
  <1>8. TypeOK'
    BY <1>1, <1>2, <1>4, <1>5, <1>7, TakeFacts DEF IInv, TypeOK, oneshot, callers
  <1>9. StreamInv'
    <2>1. ASSUME NEW r \in Stream
          PROVE  /\ request'[r] = NoCall <=> r > opened'
                 /\ r > opened' => told'[r] = Silent
                 /\ pending'[r] # NoCall => request'[r] = pending'[r] /\ told'[r].end = "none"
      <3>1. CASE r = s
        BY <1>1, <1>3, <1>4, <1>5, <3>1 DEF IInv, TypeOK, Silent
      <3>2. CASE r # s
        <4>1. request'[r] = request[r] /\ pending'[r] = pending[r] /\ told'[r] = told[r]
          BY <1>1, <1>5, <3>2 DEF IInv, TypeOK
        <4>2. r > opened' <=> r > opened
          BY <1>1, <3>2 DEF Stream
        <4> QED
          BY <4>1, <4>2 DEF IInv, StreamInv
      <3> QED
        BY <3>1, <3>2
    <2> QED
      BY <2>1 DEF StreamInv
  <1>10. CallerInv' /\ NoLostCall'
    BY <1>1, <1>6, TakeFacts DEF IInv, CallerInv, NoLostCall, oneshot, callers
  <1>11. ExitInv'
    BY TakeFacts DEF ExitInv
  <1>12. OnePlace'
    <2>1. \A r \in Stream : pending[r] # c
      BY TakeFacts DEF IsPending
    <2>2. \A r, q \in Stream : pending'[r] = pending'[q] /\ pending'[r] # NoCall => r = q
      BY <1>5, <2>1 DEF IInv, OnePlace
    <2>3. \A d \in Call : ~(InChannel(d)' /\ IsPending(d)')
      BY <1>5, TakeFacts DEF IInv, OnePlace
    <2>4. \A d \in Call : Held(d)' => reply'[d] = "empty"
      BY <1>1, <1>6 DEF IInv, OnePlace, oneshot
    <2> QED
      BY <2>2, <2>3, <2>4, TakeFacts DEF OnePlace
  <1>13. PartialInv'
    <2>1. ASSUME NEW r \in Stream, pending'[r] # NoCall
          PROVE  partial'[r] = [status |-> told'[r].status,
                                body |-> Body(request'[r], told'[r].chunks)]
      <3>1. CASE r = s
        <4>1. partial'[r] = Empty /\ told'[r] = Silent
          BY <1>1, <1>3, <3>1 DEF IInv, TypeOK
        <4> QED
          BY <4>1, BodyEmpty DEF Empty, Silent
      <3>2. CASE r # s
        <4>1. /\ request'[r] = request[r] /\ pending'[r] = pending[r]
              /\ told'[r] = told[r] /\ partial'[r] = partial[r]
          BY <1>1, <1>5, <3>2 DEF IInv, TypeOK
        <4> QED
          BY <2>1, <4>1 DEF IInv, PartialInv
      <3> QED
        BY <3>1, <3>2
    <2> QED
      BY <2>1 DEF PartialInv, Body
  <1>14. ResponseIntegrity'
    <2>1. told[s].end # "fin"
      BY <1>3 DEF Silent
    <2>2. \A r \in Stream : r # s => request'[r] = request[r]
      BY <1>1 DEF IInv, TypeOK
    <2> QED
      BY <1>1, <2>1, <2>2, ResponseFrame DEF IInv, oneshot
  <1> QED
    BY <1>8, <1>9, <1>10, <1>11, <1>12, <1>13, <1>14 DEF IInv

LEMMA RejectStep ==
    ASSUME IInv, TakeCommand, Reject(Head(chan))
    PROVE IInv'
  <1> DEFINE c == Head(chan)
  <1>1. /\ reply' = [reply EXCEPT ![c] = "err"]
        /\ UNCHANGED <<response, streams, server>>
    BY DEF Reject, Answer
  <1>2. /\ c \in Call /\ reply'[c] = "err" /\ reply[c] = "empty"
        /\ \A d \in Call : d # c => reply'[d] = reply[d]
    BY <1>1, TakeFacts DEF IInv, TypeOK
  <1>3. \A d \in Call : IsPending(d)' <=> IsPending(d)
    BY <1>1 DEF IsPending, streams
  <1>4. \A d \in Call : Held(d)' <=> Held(d) /\ d # c
    BY <1>3, TakeFacts DEF Held
  <1>5. TypeOK'
    BY <1>1, TakeFacts DEF IInv, TypeOK, streams, server, callers
  <1>6. StreamInv' /\ PartialInv'
    BY <1>1 DEF IInv, StreamInv, PartialInv, Body, streams, server
  <1>7. ExitInv'
    BY TakeFacts DEF ExitInv
  <1>8. CallerInv' /\ NoLostCall'
    BY <1>2, <1>4, TakeFacts DEF IInv, CallerInv, NoLostCall, callers
  <1>9. OnePlace'
    BY <1>1, <1>2, <1>3, <1>4, TakeFacts DEF IInv, OnePlace, streams
  <1>10. ResponseIntegrity'
    BY <1>1, <1>2 DEF IInv, ResponseIntegrity, server
  <1> QED
    BY <1>5, <1>6, <1>7, <1>8, <1>9, <1>10 DEF IInv

-----------------------------------------------------------------------------
(* The inductive step: the events of a packet *)

LEMMA PollHeadersStep ==
    ASSUME IInv, NEW s \in Stream, PollHeaders(s)
    PROVE IInv'
  <1>1. PICK status \in {"interim", "final"} :
            /\ told' = [told EXCEPT ![s].status = status]
            /\ partial' = IF pending[s] # NoCall
                          THEN [partial EXCEPT ![s].status = status] ELSE partial
    BY DEF PollHeaders
  <1>2. /\ told[s].end = "none" /\ request[s] # NoCall
        /\ UNCHANGED <<callers, oneshot, loop, pending, opened, request, whole>>
    BY DEF PollHeaders, CanPoll
  <1>3. /\ told' \in [Stream -> Told] /\ partial' \in [Stream -> Collected]
        /\ told'[s].end = "none" /\ told'[s].chunks = told[s].chunks /\ told'[s].status = status
        /\ \A r \in Stream : r # s => told'[r] = told[r] /\ partial'[r] = partial[r]
    <2>1. told \in [Stream -> Told] /\ partial \in [Stream -> Collected] /\ status \in Status
      BY DEF IInv, TypeOK, Status
    <2>2. /\ [told[s] EXCEPT !.status = status] \in Told
          /\ [told[s] EXCEPT !.status = status].end = told[s].end
          /\ [told[s] EXCEPT !.status = status].chunks = told[s].chunks
          /\ [told[s] EXCEPT !.status = status].status = status
      BY <2>1 DEF Told
    <2>3. [partial[s] EXCEPT !.status = status] \in Collected
      BY <2>1 DEF Collected
    <2>4. told' \in [Stream -> Told] /\ told'[s] = [told[s] EXCEPT !.status = status]
      BY <1>1, <2>1, <2>2
    <2>5. partial' \in [Stream -> Collected]
      BY <1>1, <2>1, <2>3
    <2>6. \A r \in Stream : r # s => told'[r] = told[r] /\ partial'[r] = partial[r]
      BY <1>1, <2>1
    <2> QED
      BY <1>2, <2>2, <2>4, <2>5, <2>6
  <1>4. TypeOK'
    BY <1>2, <1>3 DEF IInv, TypeOK, callers, oneshot, loop
  <1>5. StreamInv'
    BY <1>2, <1>3 DEF IInv, StreamInv
  <1>6. CallerInv' /\ NoLostCall' /\ ExitInv' /\ OnePlace'
    BY <1>2 DEF IInv, CallerInv, NoLostCall, ExitInv, OnePlace, Held, InChannel, IsPending,
                callers, oneshot, loop
  <1>7. PartialInv'
    <2>1. ASSUME NEW r \in Stream, pending[r] # NoCall
          PROVE  partial'[r] = [status |-> told'[r].status, body |-> Body(request[r], told'[r].chunks)]
      <3>1. partial[r] = [status |-> told[r].status, body |-> Body(request[r], told[r].chunks)]
        BY <2>1 DEF IInv, PartialInv
      <3>2. CASE r = s
        <4>1. partial'[s] = [partial[s] EXCEPT !.status = status]
          BY <1>1, <2>1, <3>2 DEF IInv, TypeOK
        <4> QED
          BY <1>3, <3>1, <3>2, <4>1
      <3>3. CASE r # s
        BY <1>3, <3>1, <3>3
      <3> QED
        BY <3>2, <3>3
    <2> QED
      BY <1>2, <2>1 DEF PartialInv, Body
  <1>8. ResponseIntegrity'
    BY <1>2, <1>3, ResponseFrame DEF IInv, oneshot
  <1> QED
    BY <1>4, <1>5, <1>6, <1>7, <1>8 DEF IInv

LEMMA PollDataStep ==
    ASSUME IInv, NEW s \in Stream, PollData(s)
    PROVE IInv'
  <1> DEFINE n == told[s].chunks
  <1>1. /\ told[s].end = "none" /\ request[s] # NoCall
        /\ told' = [told EXCEPT ![s].chunks = @ + 1]
        /\ told[s].chunks < MaxChunk
        /\ UNCHANGED <<callers, oneshot, loop, pending, opened, request, whole>>
    BY DEF PollData, CanPoll
  <1>2. told[s] \in Told /\ n \in Nat /\ MaxChunk \in Nat /\ n + 1 \in 1 .. MaxChunk
    BY <1>1, BoundAssumption DEF IInv, TypeOK, Told
  <1>3. /\ told' \in [Stream -> Told]
        /\ told'[s].end = "none" /\ told'[s].status = told[s].status /\ told'[s].chunks = n + 1
        /\ \A r \in Stream : r # s => told'[r] = told[r]
    <2>1. told'[s] = [told[s] EXCEPT !.chunks = n + 1]
      BY <1>1 DEF IInv, TypeOK
    <2>2. /\ told'[s] \in Told
          /\ told'[s].end = told[s].end /\ told'[s].status = told[s].status
          /\ told'[s].chunks = n + 1
      BY <1>2, <2>1 DEF Told
    <2> QED
      BY <1>1, <2>2 DEF IInv, TypeOK
  <1>4. partial' = IF pending[s] # NoCall
                   THEN [partial EXCEPT ![s].body = Append(@, Chunk(request[s], n + 1))]
                   ELSE partial
    BY <1>3 DEF PollData
  <1>5. /\ partial' \in [Stream -> Collected]
        /\ \A r \in Stream : r # s => partial'[r] = partial[r]
        /\ pending[s] # NoCall =>
              partial'[s] = [status |-> partial[s].status,
                             body |-> Append(partial[s].body, Chunk(request[s], n + 1))]
    <2>1. partial \in [Stream -> Collected] /\ partial[s] \in Collected
      BY DEF IInv, TypeOK
    <2>2. CASE pending[s] = NoCall
      BY <1>4, <2>1, <2>2
    <2>3. CASE pending[s] # NoCall
      <3>1. Chunk(request[s], n + 1) \in Chunks
        BY <1>1, <1>2 DEF IInv, TypeOK, Chunk, Chunks
      <3>2. partial[s].body \in Seq(Chunks) /\ partial[s].status \in Status
        BY <2>1 DEF Collected
      <3>3. Append(partial[s].body, Chunk(request[s], n + 1)) \in Seq(Chunks)
        BY <3>1, <3>2, AppendProperties
      <3>4. partial' = [partial EXCEPT ![s].body = Append(@, Chunk(request[s], n + 1))]
        BY <1>4, <2>3
      <3>5. partial'[s] = [status |-> partial[s].status,
                           body |-> Append(partial[s].body, Chunk(request[s], n + 1))]
        BY <2>1, <3>4 DEF Collected
      <3> QED
        BY <2>1, <3>2, <3>3, <3>4, <3>5 DEF Collected
    <2> QED
      BY <2>2, <2>3
  <1>6. TypeOK'
    BY <1>1, <1>3, <1>5 DEF IInv, TypeOK, callers, oneshot, loop
  <1>7. StreamInv'
    BY <1>1, <1>3 DEF IInv, StreamInv
  <1>8. CallerInv' /\ NoLostCall' /\ ExitInv' /\ OnePlace'
    BY <1>1 DEF IInv, CallerInv, NoLostCall, ExitInv, OnePlace, Held, InChannel, IsPending,
                callers, oneshot, loop
  <1>9. PartialInv'
    <2>1. ASSUME NEW r \in Stream, pending[r] # NoCall
          PROVE  partial'[r] = [status |-> told'[r].status, body |-> Body(request[r], told'[r].chunks)]
      <3>1. partial[r] = [status |-> told[r].status, body |-> Body(request[r], told[r].chunks)]
        BY <2>1 DEF IInv, PartialInv
      <3>2. CASE r = s
        <4>1. partial[s].body = Body(request[s], n) /\ partial[s].status = told[s].status
          BY <3>1, <3>2
        <4>2. Append(partial[s].body, Chunk(request[s], n + 1)) = Body(request[s], n + 1)
          BY <1>2, <4>1, BodyAppend
        <4> QED
          BY <1>3, <1>5, <2>1, <3>2, <4>1, <4>2
      <3>3. CASE r # s
        BY <1>3, <1>5, <3>1, <3>3
      <3> QED
        BY <3>2, <3>3
    <2> QED
      BY <1>1, <2>1 DEF PartialInv, Body
  <1>10. ResponseIntegrity'
    BY <1>1, <1>3, ResponseFrame DEF IInv, oneshot
  <1> QED
    BY <1>6, <1>7, <1>8, <1>9, <1>10 DEF IInv

(* What the two events that end a stream have in common. *)
LEMMA EndFacts ==
    ASSUME IInv, NEW s \in Stream, NEW end \in {"fin", "reset"}, CanPoll(s),
           told' = [told EXCEPT ![s].end = end],
           pending[s] # NoCall => Forget(s), pending[s] = NoCall => UNCHANGED pending,
           UNCHANGED <<callers, loop, partial, opened, request, whole>>
    PROVE  /\ told' \in [Stream -> Told] /\ told'[s].end = end /\ told[s].end = "none"
           /\ told'[s].status = told[s].status /\ told'[s].chunks = told[s].chunks
           /\ \A r \in Stream : r # s => told'[r] = told[r] /\ pending'[r] = pending[r]
           /\ pending' \in [Stream -> Call \cup {NoCall}] /\ pending'[s] = NoCall
           /\ \A d \in Call : Held(d)' <=> Held(d) /\ d # pending[s]
           /\ pending[s] # NoCall =>
                 /\ pending[s] \in Call /\ Held(pending[s]) /\ reply[pending[s]] = "empty"
                 /\ request[s] = pending[s]
           /\ StreamInv' /\ ExitInv' /\ PartialInv'
           /\ \A i, j \in 1 .. Len(chan') : chan'[i] = chan'[j] => i = j
           /\ \A q, r \in Stream : pending'[q] = pending'[r] /\ pending'[q] # NoCall => q = r
           /\ \A d \in Call : ~(InChannel(d)' /\ IsPending(d)')
  <1>1. /\ told' \in [Stream -> Told] /\ told'[s].end = end /\ told[s].end = "none"
        /\ told'[s].status = told[s].status /\ told'[s].chunks = told[s].chunks
        /\ \A r \in Stream : r # s => told'[r] = told[r]
        /\ request[s] # NoCall
    BY DEF CanPoll, IInv, TypeOK, Told
  <1>2. /\ pending' \in [Stream -> Call \cup {NoCall}] /\ pending'[s] = NoCall
        /\ \A r \in Stream : r # s => pending'[r] = pending[r]
        /\ \A d \in Call : IsPending(d)' <=> IsPending(d) /\ d # pending[s]
        /\ pending[s] # NoCall => pending[s] \in Call /\ IsPending(pending[s])
    <2>1. CASE pending[s] # NoCall
      BY <2>1, PendingForget DEF IInv
    <2>2. CASE pending[s] = NoCall
      BY <2>2, NoCallAssumption DEF IInv, TypeOK, IsPending
    <2> QED
      BY <2>1, <2>2
  <1>3. \A d \in Call : InChannel(d)' <=> InChannel(d)
    BY DEF InChannel, loop
  <1>4. \A d \in Call : Held(d)' <=> Held(d) /\ d # pending[s]
    BY <1>2, <1>3, NoCallAssumption DEF IInv, OnePlace, Held
  <1>5. pending[s] # NoCall =>
           /\ pending[s] \in Call /\ Held(pending[s]) /\ reply[pending[s]] = "empty"
           /\ request[s] = pending[s]
    BY <1>2 DEF IInv, OnePlace, StreamInv, Held
  <1>6. StreamInv'
    <2>1. s <= opened
      BY <1>1 DEF IInv, StreamInv, TypeOK, Stream
    <2> QED
      BY <1>1, <1>2, <2>1 DEF IInv, StreamInv, TypeOK, Stream
  <1>7. ExitInv'
    BY <1>2 DEF IInv, ExitInv, loop
  <1>8. PartialInv'
    BY <1>1, <1>2 DEF IInv, PartialInv, Body
  <1>9. /\ \A i, j \in 1 .. Len(chan') : chan'[i] = chan'[j] => i = j
        /\ \A q, r \in Stream : pending'[q] = pending'[r] /\ pending'[q] # NoCall => q = r
        /\ \A d \in Call : ~(InChannel(d)' /\ IsPending(d)')
    BY <1>2, <1>3 DEF IInv, OnePlace, loop
  <1> QED
    BY <1>1, <1>2, <1>4, <1>5, <1>6, <1>7, <1>8, <1>9

LEMMA PollFinishedStep ==
    ASSUME IInv, NEW s \in Stream, PollFinished(s)
    PROVE IInv'
  <1> DEFINE c == pending[s]
  <1>1. /\ CanPoll(s) /\ told[s].status = "final"
        /\ told' = [told EXCEPT ![s].end = "fin"]
        /\ UNCHANGED <<callers, loop, partial, opened, request, whole>>
        /\ c # NoCall => Forget(s)
        /\ c # NoCall => reply' = [reply EXCEPT ![c] = "ok"]
        /\ c # NoCall => response' = [response EXCEPT ![c] = partial[s]]
        /\ c = NoCall => UNCHANGED <<oneshot, pending>>
    BY DEF PollFinished, Answer
  <1>2. /\ told' \in [Stream -> Told] /\ told'[s].end = "fin" /\ told[s].end = "none"
        /\ told'[s].status = told[s].status /\ told'[s].chunks = told[s].chunks
        /\ \A r \in Stream : r # s => told'[r] = told[r] /\ pending'[r] = pending[r]
        /\ pending' \in [Stream -> Call \cup {NoCall}] /\ pending'[s] = NoCall
        /\ \A d \in Call : Held(d)' <=> Held(d) /\ d # c
        /\ c # NoCall => c \in Call /\ Held(c) /\ reply[c] = "empty" /\ request[s] = c
    BY <1>1, EndFacts
  <1>3. /\ StreamInv' /\ ExitInv' /\ PartialInv'
        /\ \A i, j \in 1 .. Len(chan') : chan'[i] = chan'[j] => i = j
        /\ \A q, r \in Stream : pending'[q] = pending'[r] /\ pending'[q] # NoCall => q = r
        /\ \A d \in Call : ~(InChannel(d)' /\ IsPending(d)')
    BY <1>1, EndFacts
  <1>4. /\ reply' \in [Call -> {"empty", "ok", "err", "dropped"}]
        /\ response' \in [Call -> Collected]
        /\ c # NoCall => reply'[c] = "ok" /\ response'[c] = partial[s]
        /\ \A d \in Call : d # c => reply'[d] = reply[d] /\ response'[d] = response[d]
    <2>1. partial[s] \in Collected
      BY DEF IInv, TypeOK
    <2>2. CASE c = NoCall
      BY <1>1, <2>2 DEF IInv, TypeOK, oneshot
    <2>3. CASE c # NoCall
      BY <1>1, <1>2, <2>1, <2>3 DEF IInv, TypeOK
    <2> QED
      BY <2>2, <2>3
  <1>5. TypeOK'
    BY <1>1, <1>2, <1>4 DEF IInv, TypeOK, callers, loop
  <1>6. CallerInv'
    <2>1. c # NoCall => caller[c] \notin {"idle", "sending"}
      BY <1>2 DEF IInv, CallerInv
    <2>2. \A d \in Call : caller[d] \in {"idle", "sending"} => d # c
      BY <2>1, NoCallAssumption
    <2> QED
      BY <1>1, <1>2, <1>4, <2>2 DEF IInv, CallerInv, callers
  <1>7. NoLostCall'
    BY <1>1, <1>2, <1>4, NoCallAssumption DEF IInv, NoLostCall, callers, loop
  <1>8. OnePlace'
    BY <1>2, <1>3, <1>4 DEF IInv, OnePlace
  <1>9. ResponseIntegrity'
    <2>1. ASSUME NEW d \in Call, reply'[d] = "ok"
          PROVE  \E r \in Stream :
                    /\ request'[r] = d
                    /\ told'[r].end = "fin"
                    /\ response'[d] = [status |-> "final", body |-> Body(d, told'[r].chunks)]
      <3>1. CASE d # c
        <4>1. PICK r \in Stream :
                  /\ request[r] = d
                  /\ told[r].end = "fin"
                  /\ response[d] = [status |-> "final", body |-> Body(d, told[r].chunks)]
          BY <1>4, <2>1, <3>1 DEF IInv, ResponseIntegrity, Body
        <4>2. r # s
          BY <1>2, <4>1
        <4> QED
          BY <1>1, <1>2, <1>4, <3>1, <4>1, <4>2
      <3>2. CASE d = c
        <4>1. c # NoCall
          BY <3>2, NoCallAssumption
        <4>2. partial[s] = [status |-> told[s].status, body |-> Body(request[s], told[s].chunks)]
          BY <4>1 DEF IInv, PartialInv
        <4> QED
          BY <1>1, <1>2, <1>4, <3>2, <4>1, <4>2
      <3> QED
        BY <3>1, <3>2
    <2> QED
      BY <2>1 DEF ResponseIntegrity, Body
  <1> QED
    BY <1>3, <1>5, <1>6, <1>7, <1>8, <1>9 DEF IInv

LEMMA PollResetStep ==
    ASSUME IInv, NEW s \in Stream, PollReset(s)
    PROVE IInv'
  <1> DEFINE c == pending[s]
  <1>1. /\ CanPoll(s)
        /\ told' = [told EXCEPT ![s].end = "reset"]
        /\ UNCHANGED <<callers, response, loop, partial, opened, request, whole>>
        /\ c # NoCall => Forget(s)
        /\ c # NoCall => reply' = [reply EXCEPT ![c] = "err"]
        /\ c = NoCall => UNCHANGED <<reply, pending>>
    BY DEF PollReset, Answer, ResetAnswer
  <1>2. /\ told' \in [Stream -> Told] /\ told[s].end = "none"
        /\ \A r \in Stream : r # s => told'[r] = told[r] /\ pending'[r] = pending[r]
        /\ pending' \in [Stream -> Call \cup {NoCall}] /\ pending'[s] = NoCall
        /\ \A d \in Call : Held(d)' <=> Held(d) /\ d # c
        /\ c # NoCall => c \in Call /\ Held(c) /\ reply[c] = "empty"
    BY <1>1, EndFacts
  <1>3. /\ StreamInv' /\ ExitInv' /\ PartialInv'
        /\ \A i, j \in 1 .. Len(chan') : chan'[i] = chan'[j] => i = j
        /\ \A q, r \in Stream : pending'[q] = pending'[r] /\ pending'[q] # NoCall => q = r
        /\ \A d \in Call : ~(InChannel(d)' /\ IsPending(d)')
    BY <1>1, EndFacts
  <1>4. /\ reply' \in [Call -> {"empty", "ok", "err", "dropped"}]
        /\ c # NoCall => reply'[c] = "err"
        /\ \A d \in Call : d # c => reply'[d] = reply[d]
    BY <1>1, <1>2 DEF IInv, TypeOK
  <1>5. TypeOK'
    BY <1>1, <1>2, <1>4 DEF IInv, TypeOK, callers, loop
  <1>6. CallerInv'
    <2>1. c # NoCall => caller[c] \notin {"idle", "sending"}
      BY <1>2 DEF IInv, CallerInv
    <2>2. \A d \in Call : caller[d] \in {"idle", "sending"} => d # c
      BY <2>1, NoCallAssumption
    <2> QED
      BY <1>1, <1>2, <1>4, <2>2 DEF IInv, CallerInv, callers
  <1>7. NoLostCall'
    BY <1>1, <1>2, <1>4, NoCallAssumption DEF IInv, NoLostCall, callers, loop
  <1>8. OnePlace'
    BY <1>2, <1>3, <1>4 DEF IInv, OnePlace
  <1>9. ResponseIntegrity'
    BY <1>1, <1>2, <1>4, ResponseFrame DEF IInv
  <1> QED
    BY <1>3, <1>5, <1>6, <1>7, <1>8, <1>9 DEF IInv

-----------------------------------------------------------------------------
(* The inductive step: the connection's life *)

(* When the driver returns, everyone it owed an answer has one. *)
LEMMA ExitStep ==
    ASSUME IInv, Exit, h3' \in BOOLEAN,
           quic' \in {"handshaking", "established", "draining", "closed"},
           UNCHANGED <<callers, response, partial, opened, server>>
    PROVE IInv'
  <1>1. /\ driver' = "exited" /\ chan' = <<>> /\ pending' = [s \in Stream |-> NoCall]
        /\ reply' = [c \in Call |-> IF Held(c) THEN "dropped" ELSE reply[c]]
    BY DEF Exit
  <1>2. \A c \in Call : ~InChannel(c)' /\ ~IsPending(c)' /\ ~Held(c)'
    BY <1>1, NoCallAssumption DEF InChannel, IsPending, Held
  <1>3. TypeOK'
    <2>1. chan' \in Seq(Call) /\ Len(chan') <= Capacity
      BY <1>1, CapacityAssumption
    <2>2. reply' \in [Call -> {"empty", "ok", "err", "dropped"}]
      BY <1>1 DEF IInv, TypeOK
    <2> QED
      BY <1>1, <2>1, <2>2 DEF IInv, TypeOK, callers, server
  <1>4. StreamInv'
    BY <1>1 DEF IInv, StreamInv, server
  <1>5. ExitInv' /\ PartialInv'
    BY <1>1 DEF ExitInv, PartialInv
  <1>6. CallerInv'
    BY <1>1, <1>2 DEF IInv, CallerInv, callers
  <1>7. NoLostCall'
    BY <1>1 DEF IInv, NoLostCall, callers
  <1>8. OnePlace'
    BY <1>1, <1>2 DEF OnePlace
  <1>9. ResponseIntegrity'
    BY <1>1, ResponseFrame DEF IInv, server
  <1> QED
    BY <1>3, <1>4, <1>5, <1>6, <1>7, <1>8, <1>9 DEF IInv

(* A step that only changes the state of the connection. *)
LEMMA ConnectionStep ==
    ASSUME IInv, h3' \in BOOLEAN,
           quic' \in {"handshaking", "established", "draining", "closed"},
           UNCHANGED <<callers, oneshot, chan, driver, streams, server>>
    PROVE IInv'
  <1>1. TypeOK'
    BY DEF IInv, TypeOK, callers, oneshot, streams, server
  <1>2. StreamInv' /\ ExitInv' /\ PartialInv'
    BY DEF IInv, StreamInv, ExitInv, PartialInv, Body, streams, server
  <1>3. CallerInv' /\ NoLostCall' /\ OnePlace'
    BY DEF IInv, CallerInv, NoLostCall, OnePlace, Held, InChannel, IsPending,
           callers, oneshot, streams
  <1>4. ResponseIntegrity'
    BY ResponseFrame DEF IInv, oneshot, server
  <1> QED
    BY <1>1, <1>2, <1>3, <1>4 DEF IInv

LEMMA LifeStep ==
    ASSUME IInv, Establish \/ Drain \/ TimeOut \/ Stop \/ UNCHANGED vars
    PROVE IInv'
  <1>1. CASE Establish
    <2>1. CASE Exit /\ UNCHANGED h3
      BY <1>1, <2>1, ExitStep DEF Establish, IInv, TypeOK
    <2>2. CASE h3' = TRUE /\ UNCHANGED <<driver, chan, pending, reply>>
      BY <1>1, <2>2, ConnectionStep DEF Establish, oneshot, streams
    <2> QED
      BY <1>1, <2>1, <2>2 DEF Establish
  <1>2. CASE Drain \/ TimeOut
    BY <1>2, ConnectionStep DEF Drain, TimeOut, IInv, TypeOK
  <1>3. CASE Stop
    BY <1>3, ExitStep DEF Stop, IInv, TypeOK
  <1>4. CASE UNCHANGED vars
    BY <1>4, ConnectionStep DEF vars, loop, IInv, TypeOK
  <1> QED
    BY <1>1, <1>2, <1>3, <1>4

-----------------------------------------------------------------------------
(* The invariant *)

LEMMA InitIInv == Init => IInv
  <1> SUFFICES ASSUME Init PROVE IInv
    OBVIOUS
  <1>1. \A c \in Call : ~InChannel(c) /\ ~IsPending(c) /\ ~Held(c)
    <2>1. Len(chan) = 0 /\ 1 .. 0 = {} /\ \A s \in Stream : pending[s] = NoCall
      BY DEF Init
    <2> QED
      BY <2>1, NoCallAssumption DEF InChannel, IsPending, Held
  <1>2. TypeOK
    <2>1. Empty \in Collected /\ Silent \in Told
      BY BoundAssumption DEF Empty, Collected, Silent, Told, Status
    <2>2. chan \in Seq(Call) /\ Len(chan) <= Capacity
      BY CapacityAssumption DEF Init
    <2>3. opened \in 0 .. MaxStream
      BY BoundAssumption DEF Init
    <2> QED
      BY <2>1, <2>2, <2>3 DEF Init, TypeOK
  <1>3. StreamInv
    BY BoundAssumption DEF Init, StreamInv, Stream
  <1>4. CallerInv /\ NoLostCall
    BY <1>1 DEF Init, CallerInv, NoLostCall
  <1>5. ExitInv /\ PartialInv /\ ResponseIntegrity
    BY DEF Init, ExitInv, PartialInv, ResponseIntegrity
  <1>6. OnePlace
    BY <1>1 DEF Init, OnePlace
  <1> QED
    BY <1>2, <1>3, <1>4, <1>5, <1>6 DEF IInv

LEMMA NextIInv == IInv /\ [Next]_vars => IInv'
  <1> SUFFICES ASSUME IInv, [Next]_vars PROVE IInv'
    OBVIOUS
  <1>1. ASSUME NEW c \in Call, Send(c) \/ Enqueue(c) \/ Refused(c) \/ Receive(c) \/ Abandon(c)
        PROVE  IInv'
    BY <1>1, CallerStep, EnqueueStep
  <1>2. CASE TakeCommand
    <2>1. Issue(Head(chan), NextStream) \/ Reject(Head(chan))
      BY <1>2 DEF TakeCommand
    <2> QED
      BY <1>2, <2>1, IssueStep, RejectStep
  <1>3. ASSUME NEW s \in Stream, PollHeaders(s) \/ PollData(s) \/ PollFinished(s) \/ PollReset(s)
        PROVE  IInv'
    BY <1>3, PollHeadersStep, PollDataStep, PollFinishedStep, PollResetStep
  <1>4. CASE Establish \/ Drain \/ TimeOut \/ Stop \/ UNCHANGED vars
    BY <1>4, LifeStep
  <1> QED
    BY <1>1, <1>2, <1>3, <1>4 DEF Next, Quiesce

(* IInv holds in every reachable state of a session (quic.rs:99-391). *)
LEMMA Invariance == Spec => []IInv
  BY InitIInv, NextIInv, PTL DEF Spec

-----------------------------------------------------------------------------

(* TypeOK: among the rest, the channel never exceeds its capacity (pool.rs:551). *)
THEOREM TypeCorrect == Spec => []TypeOK
  <1>1. IInv => TypeOK
    BY DEF IInv
  <1> QED
    BY <1>1, Invariance, PTL

(* NoLostCall: a call that waits is known to a running driver (quic.rs:148-161,
   227-391). *)
THEOREM NoLostCallHolds == Spec => []NoLostCall
  <1>1. IInv => NoLostCall
    BY DEF IInv
  <1> QED
    BY <1>1, Invariance, PTL

(* OnePlace: a oneshot sender is never in two places (quic.rs:249-288). *)
THEOREM OnePlaceHolds == Spec => []OnePlace
  <1>1. IInv => OnePlace
    BY DEF IInv
  <1> QED
    BY <1>1, Invariance, PTL

(* ResponseIntegrity: a response is the whole answer to the caller's own request
   (quic.rs:321-376). *)
THEOREM ResponseIntegrityHolds == Spec => []ResponseIntegrity
  <1>1. IInv => ResponseIntegrity
    BY DEF IInv
  <1> QED
    BY <1>1, Invariance, PTL

-----------------------------------------------------------------------------
(* What Answered rests on: who is waited for can go on *)

(* A stream is opened over the HTTP/3 layer, which there is after the handshake. *)
LayerInv == (opened > 0 => h3) /\ (h3 => quic # "handshaking")

LEMMA InvarianceLayer == Spec => []LayerInv
  <1>1. Init => LayerInv
    BY DEF Init, LayerInv
  <1>2. IInv /\ LayerInv /\ [Next]_vars => LayerInv'
    <2> SUFFICES ASSUME IInv, LayerInv, [Next]_vars PROVE LayerInv'
      OBVIOUS
    <2>1. ASSUME NEW c \in Call, Send(c) \/ Enqueue(c) \/ Refused(c) \/ Receive(c) \/ Abandon(c)
          PROVE  LayerInv'
      BY <2>1 DEF Send, Enqueue, Refused, Receive, Abandon, loop, streams, LayerInv
    <2>2. CASE TakeCommand
      BY <2>2 DEF TakeCommand, Issue, Reject, streams, LayerInv
    <2>3. ASSUME NEW s \in Stream, PollHeaders(s) \/ PollData(s) \/ PollFinished(s) \/ PollReset(s)
          PROVE  LayerInv'
      BY <2>3 DEF PollHeaders, PollData, PollFinished, PollReset, loop, LayerInv
    <2>4. CASE Establish \/ Drain \/ TimeOut \/ Stop
      BY <2>4 DEF Establish, Drain, TimeOut, Stop, streams, LayerInv
    <2>5. CASE UNCHANGED vars
      BY <2>5 DEF vars, loop, streams, LayerInv
    <2> QED
      BY <2>1, <2>2, <2>3, <2>4, <2>5 DEF Next, Quiesce
  <1> QED
    BY <1>1, <1>2, Invariance, PTL DEF Spec

(* The driver can return, or take a command: the condition of Stop or TakeCommand. *)
CanStop == driver = "running" /\ quic = "closed"
CanTake == Running /\ chan # <<>>

(* It can take an event of the stream, or the end of the draining period is due. *)
CanEnd(s) == CanPoll(s) \/ (Running /\ quic = "draining")

(* Nobody waits for nothing (quic.rs:148-161, 227-391): a sender that has no room
   is behind commands that the driver can take, or the driver can return; a caller
   without an answer is in the channel of such a driver, or under a stream that
   can still end; with any number of calls, streams and commands. *)
Attended ==
    \A c \in Call :
        /\ caller[c] = "sending" => driver = "exited" \/ Room \/ CanTake \/ CanStop
        /\ caller[c] = "waiting" /\ reply[c] = "empty" =>
              \/ CanStop
              \/ InChannel(c) /\ CanTake
              \/ \E s \in Stream : pending[s] = c /\ request[s] = c /\ CanEnd(s)

(* Attended: with any number of calls and streams, every caller has somebody to end it. *)
THEOREM NobodyForgotten == Spec => []Attended
  <1>1. ASSUME IInv, LayerInv, NEW c \in Call, caller[c] = "sending"
        PROVE  driver = "exited" \/ Room \/ CanTake \/ CanStop
    <2>1. chan = <<>> => Room
      BY CapacityAssumption DEF Room
    <2>2. driver \in {"running", "exited"}
      BY <1>1 DEF IInv, TypeOK
    <2> QED
      BY <2>1, <2>2 DEF CanTake, CanStop, Running
  <1>2. ASSUME IInv, LayerInv, NEW c \in Call, caller[c] = "waiting", reply[c] = "empty", ~CanStop
        PROVE  \/ InChannel(c) /\ CanTake
               \/ \E s \in Stream : pending[s] = c /\ request[s] = c /\ CanEnd(s)
    <2>1. driver = "running" /\ Running /\ Held(c)
      BY <1>2 DEF IInv, NoLostCall, CanStop, Running
    <2>2. CASE InChannel(c)
      <3>1. chan # <<>>
        BY <2>2 DEF InChannel
      <3> QED
        BY <2>1, <2>2, <3>1 DEF CanTake
    <2>3. CASE IsPending(c)
      <3>1. PICK s \in Stream : pending[s] = c
        BY <2>3 DEF IsPending
      <3>2. request[s] = c /\ request[s] # NoCall /\ told[s].end = "none"
        BY <1>2, <3>1, NoCallAssumption DEF IInv, StreamInv
      <3>3. opened > 0
        <4>1. ~(s > opened) /\ s > 0 /\ s \in Nat /\ opened \in Nat
          BY <1>2, <3>2, BoundAssumption DEF IInv, StreamInv, TypeOK, Stream
        <4> QED
          BY <4>1
      <3>4. h3 /\ quic \in {"established", "draining"}
        BY <1>2, <2>1, <3>3 DEF LayerInv, IInv, TypeOK, Running
      <3> QED
        BY <2>1, <3>1, <3>2, <3>4 DEF CanEnd, CanPoll
    <2> QED
      BY <2>1, <2>2, <2>3 DEF Held
  <1>3. IInv /\ LayerInv => Attended
    BY <1>1, <1>2 DEF Attended
  <1> QED
    BY <1>3, Invariance, InvarianceLayer, PTL

=============================================================================
