------------------------ MODULE QuicDriverRefinement ------------------------
(***************************************************************************)
(* QuicDriver implements Session, for any number of calls and streams, any *)
(* capacity of the channel and any length of a response.  RInv adds to the *)
(* invariant of QuicDriverProofs what only the view from outside needs: a  *)
(* request is on one stream at most, and on none while its command waits.  *)
(***************************************************************************)
EXTENDS QuicDriverProofs

OneStream ==
    \A s, r \in Stream : request[s] = request[r] /\ request[s] # NoCall => s = r

(* A command that is not issued yet has no stream. *)
Unissued ==
    \A c \in Call : InChannel(c) \/ caller[c] \in {"idle", "sending"} =>
        \A s \in Stream : request[s] # c

(* Whoever has a command in the channel still waits, or has been dropped. *)
Offered == \A c \in Call : InChannel(c) => caller[c] \in {"waiting", "gone"}

(* A call that has returned well was answered well. *)
Returned == \A c \in Call : caller[c] = "ok" => reply[c] = "ok"

RInv == OneStream /\ Unissued /\ Offered /\ Returned

-----------------------------------------------------------------------------
(* RInv is inductive. *)

LEMMA NothingInEmpty ==
    ASSUME chan' = <<>>, NEW c \in Call
    PROVE ~InChannel(c)'
  BY DEF InChannel

LEMMA CallerRInv ==
    ASSUME IInv, RInv, NEW c \in Call,
           Send(c) \/ Refused(c) \/ Receive(c) \/ Abandon(c)
    PROVE RInv'
  <1>1. UNCHANGED <<chan, request, reply>>
    BY DEF Send, Refused, Receive, Abandon, oneshot, loop, server
  <1>2. \A d \in Call : InChannel(d)' <=> InChannel(d)
    BY <1>1 DEF InChannel
  <1>3. \A d \in Call : d # c => caller'[d] = caller[d]
    BY DEF Send, Refused, Receive, Abandon, IInv, TypeOK
  <1>4. /\ caller'[c] \in {"sending", "ok", "err", "gone"}
        /\ caller'[c] = "sending" => caller[c] = "idle"
        /\ caller'[c] = "ok" => reply[c] = "ok"
        /\ caller'[c] \in {"ok", "err"} => ~InChannel(c)
        /\ caller[c] = "idle" => ~InChannel(c)
    BY DEF Send, Refused, Receive, Abandon, IInv, TypeOK, CallerInv, OnePlace, Held
  <1>5. OneStream'
    BY <1>1 DEF RInv, OneStream
  <1>6. Unissued'
    BY <1>1, <1>2, <1>3, <1>4 DEF RInv, Unissued
  <1>7. Offered'
    BY <1>2, <1>3, <1>4 DEF RInv, Offered
  <1>8. Returned'
    BY <1>1, <1>3, <1>4 DEF RInv, Returned
  <1> QED
    BY <1>5, <1>6, <1>7, <1>8 DEF RInv

LEMMA EnqueueRInv ==
    ASSUME IInv, RInv, NEW c \in Call, Enqueue(c)
    PROVE RInv'
  <1>1. \A d \in Call : InChannel(d)' <=> InChannel(d) \/ d = c
    BY ChannelAppend DEF Enqueue, IInv, TypeOK
  <1>2. /\ caller[c] = "sending" /\ caller' = [caller EXCEPT ![c] = "waiting"]
        /\ UNCHANGED <<request, reply>>
    BY DEF Enqueue, oneshot, server
  <1>3. OneStream'
    BY <1>2 DEF RInv, OneStream
  <1>4. Unissued'
    BY <1>1, <1>2 DEF RInv, Unissued, IInv, TypeOK
  <1>5. Offered'
    BY <1>1, <1>2 DEF RInv, Offered, IInv, TypeOK
  <1>6. Returned'
    BY <1>2 DEF RInv, Returned, IInv, TypeOK
  <1> QED
    BY <1>3, <1>4, <1>5, <1>6 DEF RInv

LEMMA TakeRInv ==
    ASSUME IInv, RInv, TakeCommand
    PROVE RInv'
  <1> DEFINE c == Head(chan)
  <1>1. /\ c \in Call /\ InChannel(c)
        /\ \A d \in Call : InChannel(d)' <=> InChannel(d) /\ d # c
    BY ChannelTail DEF TakeCommand, IInv, TypeOK, OnePlace
  <1>2. UNCHANGED caller
    BY DEF TakeCommand, callers
  <1>3. Offered'
    BY <1>1, <1>2 DEF RInv, Offered
  <1>4. CASE Issue(c, NextStream)
    <2> DEFINE s == opened + 1
    <2>1. /\ s \in Stream /\ request' = [request EXCEPT ![s] = c] /\ reply' = reply
      BY <1>4, BoundAssumption DEF Issue, NextStream, oneshot, IInv, TypeOK, Stream
    <2>2. \A r \in Stream : request[r] # c
      BY <1>1 DEF RInv, Unissued
    <2>3. OneStream'
      BY <2>1, <2>2 DEF RInv, OneStream, IInv, TypeOK
    <2>4. Unissued'
      <3>1. caller[c] \in {"waiting", "gone"}
        BY <1>1 DEF RInv, Offered
      <3> QED
        BY <1>1, <1>2, <2>1, <3>1 DEF RInv, Unissued, IInv, TypeOK
    <2>5. Returned'
      BY <1>2, <2>1 DEF RInv, Returned
    <2> QED
      BY <1>3, <2>3, <2>4, <2>5 DEF RInv
  <1>5. CASE Reject(c)
    <2>1. request' = request /\ reply' = [reply EXCEPT ![c] = "err"]
      BY <1>5 DEF Reject, Answer, server
    <2>2. caller[c] # "ok"
      BY <1>1 DEF RInv, Offered
    <2> QED
      BY <1>1, <1>2, <1>3, <2>1, <2>2 DEF RInv, OneStream, Unissued, Returned, IInv, TypeOK
  <1> QED
    BY <1>4, <1>5 DEF TakeCommand

LEMMA PollRInv ==
    ASSUME IInv, RInv, NEW s \in Stream,
           PollHeaders(s) \/ PollData(s) \/ PollFinished(s) \/ PollReset(s)
    PROVE RInv'
  <1>1. UNCHANGED <<caller, chan, request>>
    BY DEF PollHeaders, PollData, PollFinished, PollReset, callers, loop
  <1>2. \A c \in Call : InChannel(c)' <=> InChannel(c)
    BY <1>1 DEF InChannel
  <1>3. \A c \in Call : reply[c] = "ok" => reply'[c] = "ok"
    <2>1. \/ reply' = reply
          \/ /\ pending[s] # NoCall
             /\ \E how \in {"ok", "err"} : reply' = [reply EXCEPT ![pending[s]] = how]
      BY DEF PollHeaders, PollData, PollFinished, PollReset, Answer, ResetAnswer, oneshot
    <2>2. pending[s] # NoCall => pending[s] \in Call /\ reply[pending[s]] = "empty"
      BY DEF IInv, TypeOK, OnePlace, Held, IsPending
    <2> QED
      BY <2>1, <2>2 DEF IInv, TypeOK
  <1> QED
    BY <1>1, <1>2, <1>3 DEF RInv, OneStream, Unissued, Offered, Returned

LEMMA LifeRInv ==
    ASSUME IInv, RInv, Establish \/ Drain \/ TimeOut \/ Stop \/ UNCHANGED vars
    PROVE RInv'
  <1>1. UNCHANGED <<caller, request>>
    BY DEF Establish, Drain, TimeOut, Stop, vars, callers, server
  <1>2. CASE Exit
    <2>1. \A c \in Call : ~InChannel(c)'
      BY <1>2, NothingInEmpty DEF Exit
    <2>2. \A c \in Call : reply[c] = "ok" => reply'[c] = "ok"
      BY <1>2 DEF Exit, IInv, OnePlace
    <2> QED
      BY <1>1, <2>1, <2>2 DEF RInv, OneStream, Unissued, Offered, Returned
  <1>3. CASE UNCHANGED <<chan, reply>>
    BY <1>1, <1>3 DEF RInv, OneStream, Unissued, Offered, Returned, InChannel
  <1> QED
    BY <1>2, <1>3 DEF Establish, Drain, TimeOut, Stop, vars, oneshot, loop

LEMMA InitRInv == Init => RInv
  <1> SUFFICES ASSUME Init PROVE RInv
    OBVIOUS
  <1>1. Len(chan) = 0
    BY DEF Init
  <1>2. \A c \in Call : ~InChannel(c)
    BY <1>1 DEF InChannel
  <1> QED
    BY <1>2, NoCallAssumption DEF Init, RInv, OneStream, Unissued, Offered, Returned

LEMMA NextRInv == IInv /\ RInv /\ [Next]_vars => RInv'
  BY CallerRInv, EnqueueRInv, TakeRInv, PollRInv, LifeRInv DEF Next, Quiesce

LEMMA RInvariance == Spec => [](IInv /\ RInv)
  BY InitIInv, InitRInv, NextIInv, NextRInv, PTL DEF Spec

-----------------------------------------------------------------------------
(* What the server has answered, as a function of its log *)

Whole(c, n) == [status |-> "final", body |-> Body(c, n)]

AnswerIn(req, log, c) ==
    IF \E s \in Stream : req[s] = c /\ log[s].end = "fin"
    THEN LET s == CHOOSE s \in Stream : req[s] = c /\ log[s].end = "fin"
         IN  Whole(c, log[s].chunks)
    ELSE Empty

LEMMA FinalAnswerIs ==
    /\ FinalAnswer = [c \in Call |-> AnswerIn(request, told, c)]
    /\ FinalAnswer' = [c \in Call |-> AnswerIn(request', told', c)]
  BY DEF FinalAnswer, AnswerIn, Ends, Whole, Body

LEMMA AnswerOnStream ==
    ASSUME NEW req, NEW log, NEW c \in Call, NEW s \in Stream,
           req[s] = c, log[s].end = "fin",
           \A r \in Stream : req[r] = c => r = s
    PROVE AnswerIn(req, log, c) = Whole(c, log[s].chunks)
  <1>1. (CHOOSE r \in Stream : req[r] = c /\ log[r].end = "fin") = s
    OBVIOUS
  <1> QED
    BY <1>1 DEF AnswerIn

(* A step that ends no stream well changes no answer. *)
LEMMA SameAnswers ==
    ASSUME RInv, RInv',
           \A s \in Stream : told[s].end = "fin" =>
               told'[s] = told[s] /\ request'[s] = request[s],
           \A s \in Stream : told'[s].end = "fin" => told[s].end = "fin"
    PROVE FinalAnswer' = FinalAnswer
  <1>1. ASSUME NEW c \in Call
        PROVE  AnswerIn(request', told', c) = AnswerIn(request, told, c)
    <2>1. CASE \E s \in Stream : request[s] = c /\ told[s].end = "fin"
      <3>1. PICK s \in Stream : request[s] = c /\ told[s].end = "fin"
        BY <2>1
      <3>2. /\ \A r \in Stream : request[r] = c => r = s
            /\ \A r \in Stream : request'[r] = c => r = s
        BY <3>1, NoCallAssumption DEF RInv, OneStream
      <3>3. AnswerIn(request, told, c) = Whole(c, told[s].chunks)
        BY <3>1, <3>2, AnswerOnStream
      <3>4. AnswerIn(request', told', c) = Whole(c, told'[s].chunks)
        BY <3>1, <3>2, AnswerOnStream
      <3> QED
        BY <3>1, <3>3, <3>4
    <2>2. CASE ~\E s \in Stream : request[s] = c /\ told[s].end = "fin"
      <3>1. ~\E s \in Stream : request'[s] = c /\ told'[s].end = "fin"
        BY <2>2
      <3> QED
        BY <2>2, <3>1 DEF AnswerIn
    <2> QED
      BY <2>1, <2>2
  <1> QED
    BY <1>1, FinalAnswerIs

-----------------------------------------------------------------------------
(* What each step of the session's tasks is to a reader of Session *)

(* The view of a call that has returned well depends on nothing else. *)
LEMMA SameResults ==
    ASSUME IInv, RInv, UNCHANGED caller,
           \A c \in Call : reply[c] = "ok" => response'[c] = response[c]
    PROVE UNCHANGED <<SessionCall, Result>>
  BY DEF SessionCall, Result, RInv, Returned

LEMMA SendRefines ==
    ASSUME IInv, RInv, NEW c \in Call, Send(c)
    PROVE S!Offer(c)
  <1>1. SessionCall[c] = "idle" /\ SessionCall' = [SessionCall EXCEPT ![c] = "waiting"]
    BY DEF Send, SessionCall, IInv, TypeOK
  <1>2. UNCHANGED <<SessionState, Processed, FinalAnswer, Result>>
    BY DEF Send, oneshot, loop, server, SessionState, Processed, FinalAnswer, Ends, Result, IInv, TypeOK
  <1> QED
    BY <1>1, <1>2 DEF S!Offer

(* That there was room in the channel is not seen. *)
LEMMA EnqueueRefines ==
    ASSUME IInv, RInv, NEW c \in Call, Enqueue(c)
    PROVE UNCHANGED S!vars
  <1>1. UNCHANGED <<SessionCall, Result>>
    BY DEF Enqueue, oneshot, SessionCall, Result, IInv, TypeOK
  <1>2. UNCHANGED <<SessionState, Processed, FinalAnswer>>
    BY DEF Enqueue, server, SessionState, Processed, FinalAnswer, Ends
  <1> QED
    BY <1>1, <1>2 DEF S!vars

LEMMA RefusedRefines ==
    ASSUME IInv, RInv, NEW c \in Call, Refused(c)
    PROVE S!Fail(c)
  <1>1. SessionCall[c] = "waiting" /\ SessionCall' = [SessionCall EXCEPT ![c] = "err"]
    BY DEF Refused, SessionCall, IInv, TypeOK
  <1>2. UNCHANGED <<SessionState, Processed, FinalAnswer, Result>>
    BY DEF Refused, oneshot, loop, server, SessionState, Processed, FinalAnswer, Ends, Result, IInv, TypeOK
  <1> QED
    BY <1>1, <1>2 DEF S!Fail

LEMMA AbandonRefines ==
    ASSUME IInv, RInv, NEW c \in Call, Abandon(c)
    PROVE S!Drop(c)
  <1>1. SessionCall[c] = "waiting" /\ SessionCall' = [SessionCall EXCEPT ![c] = "gone"]
    BY DEF Abandon, SessionCall, IInv, TypeOK
  <1>2. UNCHANGED <<SessionState, Processed, FinalAnswer, Result>>
    BY DEF Abandon, oneshot, loop, server, SessionState, Processed, FinalAnswer, Ends, Result, IInv, TypeOK
  <1> QED
    BY <1>1, <1>2 DEF S!Drop

(* ResponseIntegrity: what the oneshot brings is what the server completed. *)
LEMMA ReceiveRefines ==
    ASSUME IInv, RInv, NEW c \in Call, Receive(c)
    PROVE S!Deliver(c) \/ S!Fail(c)
  <1>1. SessionCall[c] = "waiting"
    BY DEF Receive, SessionCall
  <1>2. UNCHANGED <<SessionState, Processed, FinalAnswer>>
    BY DEF Receive, loop, server, SessionState, Processed, FinalAnswer, Ends
  <1>3. CASE reply[c] = "ok"
    <2>1. PICK s \in Stream : /\ request[s] = c /\ told[s].end = "fin"
                             /\ response[c] = Whole(c, told[s].chunks)
      BY <1>3 DEF IInv, ResponseIntegrity, Whole, Body
    <2>2. \A r \in Stream : request[r] = c => r = s
      BY <2>1, NoCallAssumption DEF RInv, OneStream
    <2>3. FinalAnswer[c] = response[c]
      BY <2>1, <2>2, AnswerOnStream, FinalAnswerIs
    <2>4. FinalAnswer[c] # Empty
      BY <2>1, <2>3 DEF Whole, Empty
    <2>5. SessionCall' = [SessionCall EXCEPT ![c] = "ok"]
      BY <1>3 DEF Receive, SessionCall, IInv, TypeOK
    <2>6. Result' = [Result EXCEPT ![c] = FinalAnswer[c]]
      BY <1>3, <2>3 DEF Receive, oneshot, Result, IInv, TypeOK
    <2> QED
      BY <1>1, <1>2, <2>4, <2>5, <2>6 DEF S!Deliver
  <1>4. CASE reply[c] # "ok"
    <2>1. SessionCall' = [SessionCall EXCEPT ![c] = "err"]
      BY <1>4 DEF Receive, SessionCall, IInv, TypeOK
    <2>2. Result' = Result
      BY <1>4 DEF Receive, oneshot, Result, IInv, TypeOK
    <2> QED
      BY <1>1, <1>2, <2>1, <2>2 DEF S!Fail
  <1> QED
    BY <1>3, <1>4

LEMMA IssueRefines ==
    ASSUME IInv, RInv, RInv', TakeCommand, Issue(Head(chan), NextStream), h3
    PROVE S!Process(Head(chan))
  <1> DEFINE c == Head(chan)
             s == opened + 1
  <1>1. /\ s \in Stream /\ request' = [request EXCEPT ![s] = c]
        /\ UNCHANGED <<told, oneshot>>
    BY BoundAssumption DEF Issue, NextStream, IInv, TypeOK, Stream
  <1>2. c \in Call /\ InChannel(c)
    BY ChannelTail DEF TakeCommand, IInv, TypeOK, OnePlace
  <1>3. request[s] = NoCall /\ told[s] = Silent
    BY <1>1, BoundAssumption DEF IInv, StreamInv, TypeOK
  <1>4. ~Processed[c]
    BY <1>2 DEF Processed, RInv, Unissued
  <1>5. Processed' = [Processed EXCEPT ![c] = TRUE]
    <2> HIDE DEF c, s
    <2>1. /\ \A r \in Stream : request'[r] = IF r = s THEN c ELSE request[r]
          /\ request[s] = NoCall
      BY <1>1, <1>3 DEF IInv, TypeOK
    <2>2. ASSUME NEW d \in Call
          PROVE  (\E r \in Stream : request'[r] = d) <=>
                    (d = c \/ \E r \in Stream : request[r] = d)
      <3>1. d # NoCall
        BY NoCallAssumption
      <3>2. CASE d = c
        BY <1>1, <2>1, <3>2
      <3>3. CASE d # c
        BY <2>1, <3>1, <3>3
      <3> QED
        BY <3>2, <3>3
    <2>3. \A d \in Call : Processed'[d] = [Processed EXCEPT ![c] = TRUE][d]
      BY <2>2, Zenon DEF Processed
    <2> QED
      BY <2>3, Zenon DEF Processed
  <1>6. SessionCall[c] \in {"waiting", "gone"}
    BY <1>2 DEF SessionCall, RInv, Offered
  <1>7. UNCHANGED <<SessionCall, Result>>
    BY <1>1, SameResults DEF TakeCommand, callers, oneshot
  <1>8. FinalAnswer' = FinalAnswer
    BY <1>1, <1>3, SameAnswers DEF Silent, IInv, TypeOK
  <1>9. SessionState = "open" /\ SessionState' = SessionState
    BY DEF TakeCommand, Running, SessionState
  <1> QED
    BY <1>4, <1>5, <1>6, <1>7, <1>8, <1>9 DEF S!Process

LEMMA RejectRefines ==
    ASSUME IInv, RInv, TakeCommand, Reject(Head(chan))
    PROVE UNCHANGED S!vars
  <1>1. UNCHANGED <<SessionCall, Result>>
    BY SameResults DEF TakeCommand, Reject, callers
  <1>2. UNCHANGED <<SessionState, Processed, FinalAnswer>>
    BY DEF TakeCommand, Reject, server, SessionState, Processed, FinalAnswer, Ends
  <1> QED
    BY <1>1, <1>2 DEF S!vars

(* What a stream tells before its end, and a reset, completes no answer. *)
LEMMA PollRefines ==
    ASSUME IInv, RInv, RInv', NEW s \in Stream, PollHeaders(s) \/ PollData(s) \/ PollReset(s)
    PROVE UNCHANGED S!vars
  <1>1. told[s].end = "none" /\ \A r \in Stream : r # s => told'[r] = told[r]
    BY DEF PollHeaders, PollData, PollReset, CanPoll, IInv, TypeOK
  <1>2. told'[s].end # "fin"
    BY <1>1 DEF PollHeaders, PollData, PollReset, IInv, TypeOK, Told
  <1>3. FinalAnswer' = FinalAnswer
    BY <1>1, <1>2, SameAnswers DEF PollHeaders, PollData, PollReset
  <1>4. UNCHANGED <<SessionCall, Result>>
    BY SameResults DEF PollHeaders, PollData, PollReset, callers, oneshot
  <1>5. UNCHANGED <<SessionState, Processed>>
    BY DEF PollHeaders, PollData, PollReset, loop, SessionState, Processed
  <1> QED
    BY <1>3, <1>4, <1>5 DEF S!vars

LEMMA FinishedRefines ==
    ASSUME IInv, RInv, RInv', NEW s \in Stream, PollFinished(s)
    PROVE S!Complete(request[s])
  <1> DEFINE c == request[s]
             n == told[s].chunks
  <1>1. /\ c \in Call /\ told[s].end = "none" /\ n \in 0 .. MaxChunk
        /\ told' = [told EXCEPT ![s].end = "fin"]
        /\ UNCHANGED request
    BY DEF PollFinished, CanPoll, IInv, TypeOK, Told
  <1>2. \A r \in Stream : request[r] = c => r = s
    BY <1>1, NoCallAssumption DEF RInv, OneStream
  <1>3. FinalAnswer[c] = Empty
    BY <1>1, <1>2, FinalAnswerIs DEF AnswerIn
  <1>4. told'[s].end = "fin" /\ told'[s].chunks = n
    BY <1>1 DEF IInv, TypeOK, Told
  <1>5. FinalAnswer'[c] = Whole(c, n)
    <2>1. /\ request'[s] = c /\ told'[s].end = "fin" /\ c \in Call
          /\ \A r \in Stream : request'[r] = c => r = s
      BY <1>1, <1>2, <1>4
    <2>2. AnswerIn(request', told', c) = Whole(c, told'[s].chunks)
      <3> HIDE DEF c, n
      <3> QED
        BY <2>1, AnswerOnStream
    <2> QED
      BY <1>4, <2>1, <2>2, FinalAnswerIs
  <1>6. ASSUME NEW d \in Call, d # c
        PROVE  FinalAnswer'[d] = FinalAnswer[d]
    <2>1. \A r \in Stream : request[r] = d => r # s /\ told'[r] = told[r]
      BY <1>1, <1>6 DEF IInv, TypeOK
    <2>2. CASE \E r \in Stream : request[r] = d /\ told[r].end = "fin"
      <3>1. PICK r \in Stream : request[r] = d /\ told[r].end = "fin"
        BY <2>2
      <3>2. \A q \in Stream : request[q] = d => q = r
        BY <3>1, NoCallAssumption DEF RInv, OneStream
      <3>3. AnswerIn(request, told, d) = Whole(d, told[r].chunks)
        BY <3>1, <3>2, AnswerOnStream
      <3>4. /\ request'[r] = d /\ told'[r].end = "fin"
            /\ \A q \in Stream : request'[q] = d => q = r
        BY <1>1, <2>1, <3>1, <3>2
      <3>5. AnswerIn(request', told', d) = Whole(d, told'[r].chunks)
        <4> HIDE DEF c, n
        <4> QED
          BY <1>6, <3>4, AnswerOnStream
      <3> QED
        BY <2>1, <3>1, <3>3, <3>5, FinalAnswerIs
    <2>3. CASE ~\E r \in Stream : request[r] = d /\ told[r].end = "fin"
      <3>1. ~\E r \in Stream : request'[r] = d /\ told'[r].end = "fin"
        BY <1>1, <2>1, <2>3
      <3> QED
        BY <2>3, <3>1, FinalAnswerIs DEF AnswerIn
    <2> QED
      BY <2>2, <2>3
  <1>7. FinalAnswer' = [FinalAnswer EXCEPT ![c] = FinalAnswer'[c]]
    BY <1>6, FinalAnswerIs
  <1>8. FinalAnswer'[c] \in [status : {"final"}, body : Seq(Chunks)]
    <2>1. Body(c, n) \in Seq(Chunks)
      BY <1>1, BoundAssumption DEF Body, Chunk, Chunks
    <2> QED
      BY <1>5, <2>1 DEF Whole
  <1>9. UNCHANGED <<SessionCall, Result>>
    <2>1. \A d \in Call : reply[d] = "ok" => response'[d] = response[d]
      <3>1. \/ UNCHANGED response
            \/ pending[s] # NoCall /\ response' = [response EXCEPT ![pending[s]] = partial[s]]
        BY DEF PollFinished, oneshot
      <3>2. pending[s] # NoCall => pending[s] \in Call /\ reply[pending[s]] = "empty"
        BY DEF IInv, TypeOK, OnePlace, Held, IsPending
      <3> QED
        BY <3>1, <3>2 DEF IInv, TypeOK
    <2> QED
      BY <2>1, SameResults DEF PollFinished, callers
  <1>10. Processed[c] /\ Processed' = Processed
    BY <1>1 DEF Processed
  <1>11. SessionState = "open" /\ SessionState' = SessionState
    BY DEF PollFinished, CanPoll, Running, loop, SessionState
  <1> QED
    BY <1>3, <1>7, <1>8, <1>9, <1>10, <1>11 DEF S!Complete

(* The end of the driver closes the session, and the handshake opens it. *)
LEMMA LifeRefines ==
    ASSUME IInv, RInv, Establish \/ Drain \/ TimeOut \/ Stop \/ UNCHANGED vars
    PROVE S!Open \/ S!Close \/ UNCHANGED S!vars
  <1>1. UNCHANGED <<caller, response, request, told>>
    BY DEF Establish, Drain, TimeOut, Stop, vars, callers, oneshot, server
  <1>2. UNCHANGED <<SessionCall, Processed, FinalAnswer, Result>>
    BY <1>1 DEF SessionCall, Processed, FinalAnswer, Ends, Result
  <1>3. CASE Establish
    <2>1. CASE Exit /\ UNCHANGED h3
      BY <1>2, <1>3, <2>1 DEF Establish, Running, Exit, SessionState, S!Close
    <2>2. CASE h3' = TRUE /\ UNCHANGED driver
      BY <1>2, <1>3, <2>2 DEF Establish, Running, SessionState, S!Open, S!vars
    <2> QED
      BY <1>3, <2>1, <2>2 DEF Establish
  <1>4. CASE Drain \/ TimeOut \/ UNCHANGED vars
    BY <1>2, <1>4 DEF Drain, TimeOut, vars, loop, SessionState, S!vars
  <1>5. CASE Stop
    BY <1>2, <1>5 DEF Stop, Exit, SessionState, S!Close
  <1> QED
    BY <1>3, <1>4, <1>5

-----------------------------------------------------------------------------

LEMMA InitRefines == Init => S!Init
  <1> SUFFICES ASSUME Init PROVE S!Init
    OBVIOUS
  <1>1. SessionState = "connecting"
    BY DEF Init, SessionState
  <1>2. SessionCall = [c \in Call |-> "idle"]
    BY DEF Init, SessionCall
  <1>3. Processed = [c \in Call |-> FALSE]
    BY NoCallAssumption DEF Init, Processed
  <1>4. FinalAnswer = [c \in Call |-> Empty]
    BY DEF Init, FinalAnswer, Ends, Silent
  <1>5. Result = [c \in Call |-> Empty]
    BY DEF Init, Result
  <1> QED
    BY <1>1, <1>2, <1>3, <1>4, <1>5 DEF S!Init

LEMMA NextRefines == IInv /\ RInv /\ RInv' /\ [Next]_vars => [S!Next]_(S!vars)
  <1> SUFFICES ASSUME IInv, RInv, RInv', [Next]_vars
               PROVE  [S!Next]_(S!vars)
    OBVIOUS
  <1>1. ASSUME NEW c \in Call, Send(c) \/ Refused(c) \/ Receive(c) \/ Abandon(c)
        PROVE  S!Next
    BY <1>1, SendRefines, RefusedRefines, ReceiveRefines, AbandonRefines DEF S!Next
  <1>2. ASSUME NEW c \in Call, Enqueue(c)
        PROVE  UNCHANGED S!vars
    BY <1>2, EnqueueRefines
  <1>3. CASE TakeCommand
    <2>1. CASE h3 /\ Issue(Head(chan), NextStream)
      <3>1. Head(chan) \in Call
        BY <1>3, ChannelTail DEF TakeCommand, IInv, TypeOK, OnePlace
      <3> QED
        BY <1>3, <2>1, <3>1, IssueRefines DEF S!Next
    <2>2. CASE Reject(Head(chan))
      BY <1>3, <2>2, RejectRefines
    <2> QED
      BY <1>3, <2>1, <2>2 DEF TakeCommand
  <1>4. ASSUME NEW s \in Stream, PollHeaders(s) \/ PollData(s) \/ PollReset(s)
        PROVE  UNCHANGED S!vars
    BY <1>4, PollRefines
  <1>5. ASSUME NEW s \in Stream, PollFinished(s)
        PROVE  S!Next
    <2>1. request[s] \in Call
      BY <1>5 DEF PollFinished, CanPoll, IInv, TypeOK
    <2> QED
      BY <1>5, <2>1, FinishedRefines DEF S!Next
  <1>6. CASE Establish \/ Drain \/ TimeOut \/ Stop \/ UNCHANGED vars
    BY <1>6, LifeRefines DEF S!Next
  <1> QED
    BY <1>1, <1>2, <1>3, <1>4, <1>5, <1>6 DEF Next, Quiesce

(* The driver, its channel and its tables (quic.rs:99-391) are a session: each
   request is heard once at most, and what a caller gets is what the server
   completed for it, for any number of calls on any number of streams. *)
THEOREM DriverImplementsSession == Spec => ImplementsSession
  <1>1. Init => S!Init
    BY InitRefines
  <1>2. IInv /\ RInv /\ RInv' /\ [Next]_vars => [S!Next]_(S!vars)
    BY NextRefines
  <1> QED
    BY <1>1, <1>2, RInvariance, PTL DEF Spec, ImplementsSession, S!Spec

=============================================================================
