---------------------------- MODULE Http2Session ----------------------------
(***************************************************************************)
(* One HTTP/2 connection of quik and the calls that share it: the send of  *)
(* QuikConnection (src/src/client/connector.rs), and the collection of the *)
(* response body by Response::bytes (src/src/client/response.rs).          *)
(*                                                                         *)
(* The connection itself is the task of the http2 crate, and external: it  *)
(* opens streams as far as the server's limit allows, keeps what arrives   *)
(* until it is taken, and holds the server to two windows, one per stream  *)
(* and one for the connection.  quik sets both once, at the handshake, and *)
(* never releases capacity while it reads: what a body used comes back to  *)
(* the connection when its RecvStream is dropped, and to the stream never. *)
(* Sizes are counted in pieces of a body.                                  *)
(***************************************************************************)
EXTENDS Naturals, Sequences, FiniteSets, SequencesExt

CONSTANTS
    Call,         \* the requests sent on clones of one connection
    MaxStreams,   \* the concurrent streams that the server allows
    StreamWindow, \* initial_window_size, in pieces of a body
    ConnWindow,   \* initial_connection_window_size
    Lengths,      \* the lengths of the bodies that servers send
    Unknown,      \* a response of which no header block has arrived
    Coding        \* the Content-Encoding of each response: codings in order of use

ASSUME WindowAssumption ==
    /\ MaxStreams \in Nat \ {0}
    /\ StreamWindow \in Nat \ {0}
    /\ ConnWindow \in Nat \ {0}
ASSUME LengthAssumption == Lengths \subseteq Nat /\ Unknown \notin Nat
ASSUME CodingAssumption == Coding \in [Call -> Seq({"br", "zstd", "gzip", "deflate"})]

VARIABLES
    wire,     \* the connection: "open", "draining" after a GOAWAY, or "closed"
    stream,   \* the state of each call's stream
    size,     \* the length of the server's response, once it has answered
    got,      \* pieces of it that have arrived and still count
    credit,   \* what is left of the connection window
    call,     \* where each call is
    taken     \* pieces that bytes() has put into `data`

network == <<wire, stream, size, got, credit>>
vars    == <<network, call, taken>>

\* A call holds its stream while it awaits the response or has the Response.
Holding(c) == call[c] \in {"sent", "answered"}

Finished == {"ok", "err", "gone"}

Active == {c \in Call : stream[c] = "open"}

-----------------------------------------------------------------------------
(* send *)

(* send_request: the request is queued; a connection that said GOAWAY, or
   failed, takes no more. *)
Send(c) ==
    /\ call[c] = "idle"
    /\ \/ /\ wire = "open"
          /\ call' = [call EXCEPT ![c] = "sent"]
          /\ stream' = [stream EXCEPT ![c] = "queued"]
       \/ /\ wire # "open"
          /\ call' = [call EXCEPT ![c] = "err"]
          /\ UNCHANGED stream
    /\ UNCHANGED <<wire, size, got, credit, taken>>

(* The request, with its body, goes to the server. *)
Open(c) ==
    /\ stream[c] = "queued"
    /\ Cardinality(Active) < MaxStreams
    /\ stream' = [stream EXCEPT ![c] = "open"]
    /\ UNCHANGED <<wire, size, got, credit, call, taken>>

(* response_future resolves to the response and its body_stream. *)
Respond(c) ==
    /\ call[c] = "sent"
    /\ size[c] # Unknown
    /\ call' = [call EXCEPT ![c] = "answered"]
    /\ UNCHANGED <<network, taken>>

-----------------------------------------------------------------------------
(* The server and the network *)

Headers(c) ==
    /\ stream[c] = "open"
    /\ size[c] = Unknown
    /\ \E n \in Lengths : size' = [size EXCEPT ![c] = n]
    /\ UNCHANGED <<wire, stream, got, credit, call, taken>>

(* A fault: the server is told that the window of the connection has no end. *)
WindowsOfStreamOnly(c) == got[c] < StreamWindow

(* What the server may send: all that has arrived still counts. *)
InWindows(c) == got[c] < StreamWindow /\ credit > 0

Data(c) ==
    /\ stream[c] = "open"
    /\ size[c] # Unknown
    /\ got[c] < size[c]
    /\ InWindows(c)
    /\ got' = [got EXCEPT ![c] = @ + 1]
    /\ credit' = credit - 1
    /\ UNCHANGED <<wire, stream, size, call, taken>>

EndStream(c) ==
    /\ stream[c] = "open"
    /\ size[c] = got[c]
    /\ stream' = [stream EXCEPT ![c] = "ended"]
    /\ UNCHANGED <<wire, size, got, credit, call, taken>>

Reset(c) ==
    /\ stream[c] = "open"
    /\ stream' = [stream EXCEPT ![c] = "reset"]
    /\ UNCHANGED <<wire, size, got, credit, call, taken>>

(* GOAWAY: the streams that are open go on, those queued never open. *)
GoAway ==
    /\ wire = "open"
    /\ wire' = "draining"
    /\ stream' = [c \in Call |-> IF stream[c] = "queued" THEN "unsent" ELSE stream[c]]
    /\ UNCHANGED <<size, got, credit, call, taken>>

(* The connection task ends: an error, or the end of the TCP stream. *)
CloseWire ==
    /\ wire # "closed"
    /\ wire' = "closed"
    /\ stream' = [c \in Call |-> CASE stream[c] = "queued" -> "unsent"
                                   [] stream[c] = "open"   -> "reset"
                                   [] OTHER                -> stream[c]]
    /\ UNCHANGED <<size, got, credit, call, taken>>

-----------------------------------------------------------------------------
(* bytes *)

(* Faults: the RecvStream is kept, or only what was never read is returned. *)
KeepStream(c)   == c \in Call /\ UNCHANGED <<size, got, credit>>
ReturnUnread(c) ==
    /\ credit' = credit + (got[c] - taken[c])
    /\ got' = [got EXCEPT ![c] = 0]
    /\ UNCHANGED size

(* The handles of a stream are dropped: all that it used returns to the window
   of the connection, and nothing is left of a response that did not end. *)
DropStream(c) ==
    /\ credit' = credit + got[c]
    /\ got' = [got EXCEPT ![c] = 0]
    /\ size' = [size EXCEPT ![c] = IF stream[c] = "ended" THEN @ ELSE Unknown]

(* body_stream.data().await *)
Take(c) ==
    /\ call[c] = "answered"
    /\ taken[c] < got[c]
    /\ taken' = [taken EXCEPT ![c] = @ + 1]
    /\ UNCHANGED <<network, call>>

(* The one decoder that the names in Content-Encoding select. *)
Decoder(code) ==
    IF \E d \in {"br", "zstd", "gzip"} : Contains(code, d)
    THEN CHOOSE d \in {"br", "zstd", "gzip"} :
            /\ Contains(code, d)
            /\ Contains(code, "br") => d = "br"
            /\ Contains(code, "zstd") => d # "gzip"
    ELSE "none"

(* A decoder takes off the coding that was put on last, and fails on another. *)
Decodable(code) == Decoder(code) # "none" => Last(code) = Decoder(code)

(* A fault: `while let Some(Ok(chunk))`, an error ends the body. *)
AtEndOrError(c) == stream[c] \in {"ended", "reset"} /\ taken[c] = got[c]

(* data() yields None only after END_STREAM, and after what came before it. *)
AtEnd(c) == stream[c] = "ended" /\ taken[c] = got[c]

(* The end of the body: the stream is dropped and `data` decoded, if it is what
   its header says. *)
Collect(c) ==
    /\ call[c] = "answered"
    /\ AtEnd(c)
    /\ DropStream(c)
    /\ \/ /\ Decodable(Coding[c])
          /\ call' = [call EXCEPT ![c] = "ok"]
          /\ UNCHANGED taken
       \/ /\ Decoder(Coding[c]) # "none"
          /\ call' = [call EXCEPT ![c] = "err"]
          /\ taken' = [taken EXCEPT ![c] = 0]
    /\ UNCHANGED <<wire, stream>>

(* The response future, or data(), yields an error; what arrived before it has
   been taken by then. *)
Break(c) ==
    /\ stream[c] \in {"reset", "unsent"}
    /\ \/ call[c] = "sent" /\ size[c] = Unknown
       \/ call[c] = "answered" /\ taken[c] = got[c]
    /\ DropStream(c)
    /\ call' = [call EXCEPT ![c] = "err"]
    /\ taken' = [taken EXCEPT ![c] = 0]
    /\ UNCHANGED <<wire, stream>>

(* The caller drops the future or the Response, as the redirect loop does with
   the response that redirects it: a stream that has not ended is reset. *)
Drop(c) ==
    /\ Holding(c)
    /\ DropStream(c)
    /\ call' = [call EXCEPT ![c] = "gone"]
    /\ stream' = [stream EXCEPT ![c] = CASE @ = "queued" -> "unsent"
                                         [] @ = "open"   -> "reset"
                                         [] OTHER        -> @]
    /\ taken' = [taken EXCEPT ![c] = 0]
    /\ UNCHANGED wire

Quiesce ==
    /\ \A c \in Call : call[c] \in Finished
    /\ UNCHANGED vars

Init ==
    /\ wire = "open"
    /\ stream = [c \in Call |-> "none"]
    /\ size = [c \in Call |-> Unknown]
    /\ got = [c \in Call |-> 0]
    /\ credit = ConnWindow
    /\ call = [c \in Call |-> "idle"]
    /\ taken = [c \in Call |-> 0]

Next ==
    \/ \E c \in Call :
        \/ Send(c) \/ Open(c) \/ Respond(c)
        \/ Headers(c) \/ Data(c) \/ EndStream(c) \/ Reset(c)
        \/ Take(c) \/ Collect(c) \/ Break(c) \/ Drop(c)
    \/ GoAway \/ CloseWire
    \/ Quiesce

Spec == Init /\ [][Next]_vars

(* The runtime polls the connection task and the callers, and callers read what
   they were given; streams open in the order of their requests.  Of the server
   it is asked that it answers what it gets, and goes on with every body that
   the windows let it. *)
Fairness ==
    \A c \in Call :
        /\ WF_vars(Respond(c) \/ Take(c) \/ Collect(c) \/ Break(c))
        /\ WF_vars(Headers(c) \/ EndStream(c))
        /\ SF_vars(Open(c))
        /\ SF_vars(Data(c))

FairSpec == Spec /\ Fairness

-----------------------------------------------------------------------------
(* Properties *)

(* Every variable stays in its domain; the server never has more streams than it
   allows, nor sends more than its windows (handshake.rs:32-38). *)
TypeOK ==
    /\ wire \in {"open", "draining", "closed"}
    /\ stream \in [Call -> {"none", "queued", "open", "ended", "reset", "unsent"}]
    /\ Cardinality(Active) <= MaxStreams
    /\ size \in [Call -> Lengths \cup {Unknown}]
    /\ got \in [Call -> 0 .. StreamWindow]
    /\ credit \in 0 .. ConnWindow
    /\ call \in [Call -> {"idle", "sent", "answered"} \cup Finished]
    /\ taken \in [Call -> 0 .. StreamWindow]

\* The pieces that responses in hand have received, each by its call and its number.
Outstanding == {p \in Call \X (1 .. StreamWindow) : Holding(p[1]) /\ p[2] <= got[p[1]]}

(* The window of the connection is not used up by what is over (response.rs:91):
   what is missing of it is what the responses in hand have received, however
   calls are dropped, reset, refused or cut off. *)
CreditConserved == credit + Cardinality(Outstanding) = ConnWindow

\* Those of bodies that are still on their way.
Incomplete == {p \in Outstanding : stream[p[1]] = "open"}

(* The one way in which a connection stops: every open body is short of a piece that
   its server may not send, because what came of it fills the window of its stream, or
   because what came of all open bodies together fills that of the connection. *)
Clogged ==
    /\ Active # {}
    /\ \A c \in Active :
        /\ size[c] # Unknown /\ got[c] < size[c]
        /\ got[c] = StreamWindow \/ Cardinality(Incomplete) = ConnWindow

(* Every call ends (response.rs:92-95), though capacity is released only with the
   stream, unless incomplete bodies fill the windows for good: neither what was read
   to its end, nor what was dropped, reset or cut off, nor the wait for a free stream
   ever blocks a call.  No call is sent twice, so that once none is held for ever,
   all have ended. *)
Collected == <>[]Clogged \/ <>[](\A c \in Call : ~Holding(c))

-----------------------------------------------------------------------------
(* A session, seen from outside *)

SessionState == IF wire = "closed" THEN "closed" ELSE "open"

SessionCall == [c \in Call |-> IF Holding(c) THEN "waiting" ELSE call[c]]

Processed == [c \in Call |-> stream[c] \in {"open", "ended", "reset"}]

Answer == [c \in Call |-> IF stream[c] = "ended" THEN size[c] ELSE Unknown]

Result == [c \in Call |-> IF call[c] = "ok" THEN taken[c] ELSE Unknown]

S == INSTANCE Session WITH
        Answers   <- Lengths,
        NoAnswer  <- Unknown,
        state     <- SessionState,
        call      <- SessionCall,
        processed <- Processed,
        answer    <- Answer,
        result    <- Result

(* An HTTP/2 connection and the collection of bodies (connector.rs:150-179,
   response.rs:87-100) are a session, as the HTTP/3 driver is: no body is cut
   short, also not when the stream or the connection breaks while it is read. *)
ImplementsSession == S!Spec

=============================================================================
