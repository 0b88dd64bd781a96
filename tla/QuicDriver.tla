----------------------------- MODULE QuicDriver -----------------------------
(***************************************************************************)
(* One HTTP/3 session of quik (src/src/client/quic.rs): the callers of     *)
(* QuicSession::send, the bounded channel to the driver task, and the      *)
(* driver loop run_quic_driver, which owns the QUIC connection, the HTTP/3 *)
(* layer and the table of pending requests.                                *)
(*                                                                         *)
(* The quiche library delivers the events of one stream in order and those *)
(* of different streams in any order.  The driver polls every event that a *)
(* packet completes; here each event is a packet of its own, which has the *)
(* same effect.  The server of a stream is external: it is a log of what   *)
(* it sent.  Header fields other than :status are left out.                *)
(***************************************************************************)
EXTENDS Naturals, Sequences

CONSTANTS
    Call,       \* calls of QuicSession::send, on clones of one session
    NoCall,     \* no entry in the pending table
    Capacity,   \* of the command channel: the 100 of mpsc::channel(100)
    MaxStream,  \* bound: streams the connection opens
    MaxChunk,   \* bound: Data events of one response
    Truncates   \* whether the transport may take only a part of a body at once

ASSUME NoCallAssumption == NoCall \notin Call
ASSUME CapacityAssumption == Capacity \in Nat \ {0}
ASSUME BoundAssumption == MaxStream \in Nat /\ MaxChunk \in Nat
ASSUME TruncatesAssumption == Truncates \in BOOLEAN

Stream == 1 .. MaxStream

\* The n-th piece of the body that the server sends for call c.
Chunk(c, n) == <<c, n>>
Chunks      == Call \X (1 .. MaxChunk)

\* A PendingRequest's status and body, and so the Response made of them.
Status    == {"none", "interim", "final"}
Collected == [status : Status, body : Seq(Chunks)]
Empty     == [status |-> "none", body |-> <<>>]

\* What a server has sent on a stream.
Told   == [status : Status, chunks : 0 .. MaxChunk, end : {"none", "fin", "reset"}]
Silent == [status |-> "none", chunks |-> 0, end |-> "none"]

VARIABLES
    caller,     \* where each call of send is
    reply,      \* the oneshot of each call: "empty", "ok", "err" or "dropped"
    response,   \* the Response in the oneshot
    chan,       \* the commands in the channel
    driver,     \* "running" or "exited"
    quic,       \* the connection's state
    h3,         \* whether h3_conn is Some
    pending,    \* pending_requests: the call of each stream, or NoCall
    partial,    \* what has been collected of each stream's response
    opened,     \* how many streams the connection has opened
    request,    \* server: the call whose request came on each stream
    whole,      \* server: whether that request came with its whole body
    told        \* server: status, number of chunks and end it sent on each stream

callers == <<caller>>
oneshot == <<reply, response>>
loop    == <<chan, driver, quic, h3>>
streams == <<pending, partial, opened>>
server  == <<request, whole, told>>
vars    == <<callers, oneshot, loop, streams, server>>

Finished == {"ok", "err", "gone"}

InChannel(c) == \E i \in 1 .. Len(chan) : chan[i] = c
IsPending(c) == \E s \in Stream : pending[s] = c
Held(c)      == InChannel(c) \/ IsPending(c)

-----------------------------------------------------------------------------
(* The callers *)

(* QuicSession::send: the oneshot is made and the command offered. *)
Send(c) ==
    /\ caller[c] = "idle"
    /\ caller' = [caller EXCEPT ![c] = "sending"]
    /\ UNCHANGED <<oneshot, loop, streams, server>>

(* A fault: the channel takes one command too many. *)
RoomForOneMore == Len(chan) <= Capacity

Room == Len(chan) < Capacity

(* tx.send completes: there is room in the channel. *)
Enqueue(c) ==
    /\ caller[c] = "sending"
    /\ driver = "running"
    /\ Room
    /\ chan' = Append(chan, c)
    /\ caller' = [caller EXCEPT ![c] = "waiting"]
    /\ UNCHANGED <<oneshot, driver, quic, h3, streams, server>>

(* tx.send fails: the receiver is gone with its driver. *)
Refused(c) ==
    /\ caller[c] = "sending"
    /\ driver = "exited"
    /\ caller' = [caller EXCEPT ![c] = "err"]
    /\ UNCHANGED <<oneshot, loop, streams, server>>

(* response_rx: the answer, or the error of a dropped sender. *)
Receive(c) ==
    /\ caller[c] = "waiting"
    /\ reply[c] # "empty"
    /\ caller' = [caller EXCEPT ![c] = IF reply[c] = "ok" THEN "ok" ELSE "err"]
    /\ UNCHANGED <<oneshot, loop, streams, server>>

(* The caller's future is dropped.  The driver is not told. *)
Abandon(c) ==
    /\ caller[c] \in {"sending", "waiting"}
    /\ caller' = [caller EXCEPT ![c] = "gone"]
    /\ UNCHANGED <<oneshot, loop, streams, server>>

-----------------------------------------------------------------------------
(* The driver: commands *)

(* The top of the loop lets only a connection that is not closed go on. *)
Running == driver = "running" /\ quic # "closed"

Answer(c, how) == reply' = [reply EXCEPT ![c] = how]

(* A fault: the table is written before the stream is known to be new. *)
StreamReused == IF opened = 0 THEN 1 ELSE opened

NextStream == opened + 1

(* send_request and send_body succeed: the request has a stream.  A body that
   the transport took a part of, or nothing of, is not offered again. *)
Issue(c, s) ==
    /\ opened < MaxStream
    /\ opened' = opened + 1
    /\ pending' = [pending EXCEPT ![s] = c]
    /\ partial' = [partial EXCEPT ![s] = Empty]
    /\ request' = [request EXCEPT ![s] = c]
    /\ \E all \in {TRUE, ~Truncates} : whole' = [whole EXCEPT ![s] = all]
    /\ UNCHANGED <<told, oneshot>>

(* A fault: a failed request is logged, and its oneshot kept. *)
RejectSilently(c) == c \in Call /\ UNCHANGED <<oneshot, streams, server>>

(* The command is answered with an error at once. *)
Reject(c) ==
    /\ Answer(c, "err")
    /\ UNCHANGED <<response, streams, server>>

(* The command branch of the select: before the handshake is complete every
   command is rejected; send_request may fail too. *)
TakeCommand ==
    /\ Running
    /\ chan # <<>>
    /\ chan' = Tail(chan)
    /\ \/ h3 /\ Issue(Head(chan), NextStream)
       \/ Reject(Head(chan))
    /\ UNCHANGED <<callers, driver, quic, h3>>

-----------------------------------------------------------------------------
(* The driver: the events of a packet *)

CanPoll(s) ==
    /\ Running /\ quic = "established" /\ h3
    /\ request[s] # NoCall
    /\ told[s].end = "none"

(* Event::Headers: the last :status wins, of interim and final responses. *)
PollHeaders(s) ==
    /\ CanPoll(s)
    /\ told[s].status # "final"
    /\ \E status \in {"interim", "final"} :
        /\ told' = [told EXCEPT ![s].status = status]
        /\ partial' = IF pending[s] # NoCall
                      THEN [partial EXCEPT ![s].status = status] ELSE partial
    /\ UNCHANGED <<callers, oneshot, loop, pending, opened, request, whole>>

(* Event::Data: everything readable goes to the end of the body. *)
PollData(s) ==
    /\ CanPoll(s)
    /\ told[s].status = "final"
    /\ told[s].chunks < MaxChunk
    /\ told' = [told EXCEPT ![s].chunks = @ + 1]
    /\ partial' = IF pending[s] # NoCall
                  THEN [partial EXCEPT ![s].body = Append(@, Chunk(request[s], told'[s].chunks))]
                  ELSE partial
    /\ UNCHANGED <<callers, oneshot, loop, pending, opened, request, whole>>

(* A fault: get_mut instead of remove. *)
ForgetNot(s) == pending' = [pending EXCEPT ![s] = @]

Forget(s) == pending' = [pending EXCEPT ![s] = NoCall]

(* Event::Finished: the response is made of what was collected. *)
PollFinished(s) ==
    /\ CanPoll(s)
    /\ told[s].status = "final"
    /\ told' = [told EXCEPT ![s].end = "fin"]
    /\ IF pending[s] # NoCall
       THEN /\ Answer(pending[s], "ok")
            /\ response' = [response EXCEPT ![pending[s]] = partial[s]]
            /\ Forget(s)
       ELSE UNCHANGED <<oneshot, pending>>
    /\ UNCHANGED <<callers, loop, partial, opened, request, whole>>

(* A fault: a reset ends the response as Finished does. *)
ResetReply == "ok"

ResetAnswer == "err"

(* Event::Reset: the caller gets an error. *)
PollReset(s) ==
    /\ CanPoll(s)
    /\ told' = [told EXCEPT ![s].end = "reset"]
    /\ IF pending[s] # NoCall
       THEN Answer(pending[s], ResetAnswer) /\ Forget(s)
       ELSE UNCHANGED <<reply, pending>>
    /\ UNCHANGED <<callers, response, loop, partial, opened, request, whole>>

-----------------------------------------------------------------------------
(* The driver: the connection's life *)

(* A fault: the driver returns to a handle that keeps its tables alive. *)
LeaveTables ==
    /\ driver' = "exited"
    /\ UNCHANGED <<chan, pending, reply>>

(* run_quic_driver returns: the receiver and the pending table are dropped, and
   with them the oneshot sender of every unanswered call. *)
Exit ==
    /\ driver' = "exited"
    /\ chan' = <<>>
    /\ pending' = [s \in Stream |-> NoCall]
    /\ reply' = [c \in Call |-> IF Held(c) THEN "dropped" ELSE reply[c]]

(* The packet that completes the handshake makes the HTTP/3 layer, or fails to,
   which ends the loop. *)
Establish ==
    /\ Running
    /\ quic = "handshaking"
    /\ quic' = "established"
    /\ \/ /\ h3' = TRUE
          /\ UNCHANGED <<driver, chan, pending, reply>>
       \/ /\ Exit
          /\ UNCHANGED h3
    /\ UNCHANGED <<callers, response, partial, opened, server>>

(* The peer closes: nothing more is read, but commands are still taken until
   the draining period is over. *)
Drain ==
    /\ Running
    /\ quic \in {"handshaking", "established"}
    /\ quic' = "draining"
    /\ UNCHANGED <<callers, oneshot, chan, driver, h3, streams, server>>

(* on_timeout: the idle timeout, a handshake that got no answer, or the end of
   the draining period. *)
TimeOut ==
    /\ Running
    /\ quic' = "closed"
    /\ UNCHANGED <<callers, oneshot, chan, driver, h3, streams, server>>

(* The top of the loop finds the connection closed. *)
Stop ==
    /\ driver = "running"
    /\ quic = "closed"
    /\ Exit
    /\ UNCHANGED <<callers, response, quic, h3, partial, opened, server>>

Quiesce ==
    /\ \A c \in Call : caller[c] \in Finished
    /\ UNCHANGED vars

Init ==
    /\ caller = [c \in Call |-> "idle"]
    /\ reply = [c \in Call |-> "empty"]
    /\ response = [c \in Call |-> Empty]
    /\ chan = <<>>
    /\ driver = "running"
    /\ quic = "handshaking"
    /\ h3 = FALSE
    /\ pending = [s \in Stream |-> NoCall]
    /\ partial = [s \in Stream |-> Empty]
    /\ opened = 0
    /\ request = [s \in Stream |-> NoCall]
    /\ whole = [s \in Stream |-> TRUE]
    /\ told = [s \in Stream |-> Silent]

Next ==
    \/ \E c \in Call : Send(c) \/ Enqueue(c) \/ Refused(c) \/ Receive(c) \/ Abandon(c)
    \/ TakeCommand
    \/ \E s \in Stream : PollHeaders(s) \/ PollData(s) \/ PollFinished(s) \/ PollReset(s)
    \/ Establish \/ Drain \/ TimeOut \/ Stop
    \/ Quiesce

Spec == Init /\ [][Next]_vars

(* The runtime polls the driver and the callers, the channel admits senders in
   their order, and the draining period is a timer.  Of the server it is only
   asked that a stream on which the whole request came ends at some time. *)
Fairness ==
    /\ \A c \in Call : SF_vars(Enqueue(c)) /\ WF_vars(Refused(c)) /\ WF_vars(Receive(c))
    /\ WF_vars(TakeCommand)
    /\ WF_vars(quic = "draining" /\ TimeOut)
    /\ WF_vars(Stop)
    /\ \A s \in Stream : WF_vars(whole[s] /\ (PollFinished(s) \/ PollReset(s)))

FairSpec == Spec /\ Fairness

-----------------------------------------------------------------------------
(* Safety *)

(* Every variable stays in its domain, the channel within its capacity
   (pool.rs:551). *)
TypeOK ==
    /\ caller \in [Call -> {"idle", "sending", "waiting"} \cup Finished]
    /\ reply \in [Call -> {"empty", "ok", "err", "dropped"}]
    /\ response \in [Call -> Collected]
    /\ chan \in Seq(Call) /\ Len(chan) <= Capacity
    /\ driver \in {"running", "exited"}
    /\ quic \in {"handshaking", "established", "draining", "closed"}
    /\ h3 \in BOOLEAN
    /\ pending \in [Stream -> Call \cup {NoCall}]
    /\ partial \in [Stream -> Collected]
    /\ opened \in 0 .. MaxStream
    /\ request \in [Stream -> Call \cup {NoCall}]
    /\ whole \in [Stream -> BOOLEAN]
    /\ told \in [Stream -> Told]

(* No caller waits for nothing (quic.rs:148-161): while a call waits without an
   answer its oneshot sender is in the channel or in the pending table, and a
   driver runs that will use it. *)
NoLostCall ==
    \A c \in Call : caller[c] = "waiting" /\ reply[c] = "empty" =>
        driver = "running" /\ Held(c)

(* A oneshot sender is in one place (quic.rs:249-288): in the channel once or
   under one stream, and nowhere once it was used or dropped. *)
OnePlace ==
    /\ \A i, j \in 1 .. Len(chan) : chan[i] = chan[j] => i = j
    /\ \A s, r \in Stream : pending[s] = pending[r] /\ pending[s] # NoCall => s = r
    /\ \A c \in Call : ~(InChannel(c) /\ IsPending(c))
    /\ \A c \in Call : Held(c) => reply[c] = "empty"

(* A call that succeeds has the answer to its own request (quic.rs:321-376): the
   final status and every piece of the body, in order and to the end, that the
   server sent on the stream on which it got that request. *)
ResponseIntegrity ==
    \A c \in Call : reply[c] = "ok" =>
        \E s \in Stream :
            /\ request[s] = c
            /\ told[s].end = "fin"
            /\ response[c] = [status |-> "final",
                              body |-> [n \in 1 .. told[s].chunks |-> Chunk(c, n)]]

(* Every call of send ends (quic.rs:148-161) under any interleaving of its steps
   with the driver's, a full channel, abandoned calls and the end of the
   connection, provided that servers end the streams of whole requests. *)
Answered == \A c \in Call : caller[c] = "sending" ~> caller[c] \in Finished

-----------------------------------------------------------------------------
(* A session, seen from outside *)

SessionState == IF driver = "exited" THEN "closed"
                ELSE IF h3 THEN "open" ELSE "connecting"

SessionCall == [c \in Call |-> IF caller[c] = "sending" THEN "waiting" ELSE caller[c]]

Processed == [c \in Call |-> \E s \in Stream : request[s] = c]

\* What the server ended on the stream of c, if it ended it.
Ends(c, s) == request[s] = c /\ told[s].end = "fin"

FinalAnswer == [c \in Call |->
    IF \E s \in Stream : Ends(c, s)
    THEN LET s == CHOOSE s \in Stream : Ends(c, s)
         IN  [status |-> "final", body |-> [n \in 1 .. told[s].chunks |-> Chunk(c, n)]]
    ELSE Empty]

Result == [c \in Call |-> IF caller[c] = "ok" THEN response[c] ELSE Empty]

S == INSTANCE Session WITH
        Answers   <- [status : {"final"}, body : Seq(Chunks)],
        NoAnswer  <- Empty,
        state     <- SessionState,
        call      <- SessionCall,
        processed <- Processed,
        answer    <- FinalAnswer,
        result    <- Result

(* The command channel, the oneshots, the table of streams and the connection
   together (quic.rs:103-161) are one session: no request is put on two streams,
   no answer is made up, cut short or taken from another call, and nothing is
   heard or completed once the driver has gone. *)
ImplementsSession == S!Spec

-----------------------------------------------------------------------------
(* What the documents say and the driver does not do *)

(* quic.rs:103-105: the request is transmitted and the response awaited.  A
   pending request is one that the server can answer: its body went out whole. *)
PendingWhole == \A s \in Stream : pending[s] # NoCall => whole[s]

=============================================================================
