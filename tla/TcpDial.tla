------------------------------ MODULE TcpDial ------------------------------
(***************************************************************************)
(* One TCP dial of quik: connect (src/src/client/connector.rs) through the *)
(* tunnel of dial_proxy (src/src/client/proxy.rs).                         *)
(*                                                                         *)
(* The proxy's reply reaches the client over a stream that splits it       *)
(* anywhere, and the proxy may close the stream at any moment.  A CONNECT  *)
(* reply is a sequence of tokens: a status line, header lines and line     *)
(* ends.  A SOCKS5 reply is the sequence of its bytes.  What the client    *)
(* sends is left out but for the moments at which it is sent: a SOCKS5     *)
(* server says nothing more than its method until it has the request.  A   *)
(* reset of the stream is a close: what it discards has not arrived.       *)
(***************************************************************************)
EXTENDS Naturals, Sequences

CONSTANTS
    Via,        \* the routes of Client::proxy: some of "none", "http", "socks5"
    Reply,      \* for each of them, what the proxy may say
    Buffer      \* tokens that fit the buffer for a CONNECT reply, 4096 bytes

ASSUME ViaAssumption == Via \subseteq {"none", "http", "socks5"}
ASSUME BufferAssumption == Buffer \in Nat \ {0}

(* A proxy may refuse in any form, but says nothing after a reply that grants: a
   CONNECT reply has one blank line, its last, and a SOCKS5 reply with an address
   of a known type is as long as that type says. *)
ASSUME ReplyAssumption ==
    /\ "none" \in Via => Reply["none"] \subseteq Seq(STRING)
    /\ "http" \in Via => \A r \in Reply["http"] :
            /\ r \in Seq(STRING)
            /\ \A i \in 1 .. Len(r) - 1 :
                  r[1] = "200" /\ r[i] = "crlf" /\ r[i + 1] = "crlf" => i + 1 = Len(r)
    /\ "socks5" \in Via => \A r \in Reply["socks5"] :
            /\ r \in Seq(0 .. 255)
            /\ Len(r) >= 6 /\ <<r[1], r[2], r[3], r[4]>> = <<5, 0, 5, 0>> =>
                  /\ r[6] = 1 => Len(r) = 12
                  /\ r[6] = 3 => Len(r) >= 7 /\ Len(r) = 9 + r[7]
                  /\ r[6] = 4 => Len(r) = 24

VARIABLES
    via,        \* the proxy of this client
    reply,      \* what the proxy says, if it is not cut short
    arrived,    \* how much of it the stream has delivered
    closed,     \* whether the proxy has closed the stream
    read,       \* how much of it the client has read
    stage       \* where connect and dial_proxy are

peer == <<via, reply>>
vars == <<peer, arrived, closed, read, stage>>

Exactly == {"method", "header", "ipv4", "ipv6", "length", "domain", "port"}
Tunnel  == {"reply"} \cup Exactly

\* "refused" is an error of dial_proxy, "failed" one of the stages around it.
Ended == {"ok", "refused", "failed"}

-----------------------------------------------------------------------------
(* What a reply says *)

(* response.contains("\r\n\r\n") *)
BlankLine(s) == \E i \in 1 .. Len(s) - 1 : s[i] = "crlf" /\ s[i + 1] = "crlf"

(* A fault: only what the last read has brought is searched. *)
CompleteInLast(n) == BlankLine(SubSeq(reply, read + 1, n))

(* The first n tokens hold the whole header of a CONNECT reply. *)
Complete(n) == BlankLine(SubSeq(reply, 1, n))

(* A fault: the status of the request is not looked at. *)
AcceptedAlways(i) == reply[i] = 5

(* A version byte and the zero that grants the method or the request. *)
Accepted(i) == reply[i] = 5 /\ reply[i + 1] = 0

(* A fault: the length byte is taken to count itself. *)
DomainLengthOneLess == IF reply[read] = 0 THEN 0 ELSE reply[read] - 1

(* The length byte has just been read. *)
DomainLength == reply[read]

(* The three forms of a bound address, by their type byte. *)
AddressStage == <<"ipv4", "refused", "length", "ipv6">>
AfterHeader(type) == IF type \in 1 .. 4 THEN AddressStage[type] ELSE "refused"

-----------------------------------------------------------------------------
(* The network *)

(* What the proxy can have said so far. *)
Sendable ==
    IF stage = "method" /\ Len(reply) > 2 THEN 2 ELSE Len(reply)

Arrive ==
    /\ stage \in Tunnel
    /\ ~closed
    /\ \E n \in arrived + 1 .. Sendable : arrived' = n
    /\ UNCHANGED <<peer, closed, read, stage>>

ProxyClose ==
    /\ stage \in Tunnel
    /\ ~closed
    /\ closed' = TRUE
    /\ UNCHANGED <<peer, arrived, read, stage>>

-----------------------------------------------------------------------------
(* The client *)

(* TcpStream::connect to the target or the proxy, and the first write. *)
Connect ==
    /\ stage = "connect"
    /\ stage' \in {"failed", CASE via = "none"   -> "tls"
                               [] via = "http"   -> "reply"
                               [] via = "socks5" -> "method"}
    /\ UNCHANGED <<peer, arrived, closed, read>>

(* A fault: the buffer is taken to be one longer than it is. *)
FitsOneMore(n) == n <= Buffer + 1

(* The slice that is read into is the rest of the buffer. *)
Fits(n) == n <= Buffer

(* One turn of the CONNECT loop. *)
ReadReply ==
    /\ stage = "reply"
    /\ \E n \in read + 1 .. arrived :
        /\ Fits(n)
        /\ read' = n
        /\ stage' = IF ~Complete(n) THEN "reply"
                    ELSE IF reply[1] = "200" THEN "tls" ELSE "refused"
    /\ UNCHANGED <<peer, arrived, closed>>

(* A fault: a read of nothing is tried again. *)
EmptyReadRetries == read = Buffer

(* A read returns 0: at the end of the stream, and in a full buffer. *)
EmptyRead == read = Buffer \/ (closed /\ read = arrived)

ReadNothing ==
    /\ stage = "reply"
    /\ EmptyRead
    /\ stage' = "refused"
    /\ UNCHANGED <<peer, arrived, closed, read>>

(* What a stage of the SOCKS5 exchange waits for. *)
Wanted == CASE stage \in {"method", "port"} -> 2
            [] stage \in {"header", "ipv4"} -> 4
            [] stage = "ipv6"   -> 16
            [] stage = "length" -> 1
            [] stage = "domain" -> DomainLength

(* read_exact returns. *)
ReadExact(at) ==
    /\ stage \in at
    /\ arrived - read >= Wanted
    /\ read' = read + Wanted
    /\ UNCHANGED <<peer, arrived, closed>>

(* read_exact meets the end of the stream. *)
ReadShort ==
    /\ stage \in Exactly
    /\ closed
    /\ arrived - read < Wanted
    /\ stage' = "refused"
    /\ UNCHANGED <<peer, arrived, closed, read>>

(* The method, and with it the request that is sent in answer. *)
Method ==
    /\ ReadExact({"method"})
    /\ stage' = IF Accepted(read + 1) THEN "header" ELSE "refused"

Header ==
    /\ ReadExact({"header"})
    /\ stage' = IF Accepted(read + 1) THEN AfterHeader(reply[read + 4]) ELSE "refused"

Address ==
    \/ ReadExact({"ipv4", "ipv6", "domain"}) /\ stage' = "port"
    \/ ReadExact({"length"}) /\ stage' = "domain"

Port == ReadExact({"port"}) /\ stage' = "tls"

(* The TLS handshake over the tunnel, then the HTTP/2 one. *)
Handshake ==
    /\ \/ stage = "tls" /\ stage' \in {"h2", "failed"}
       \/ stage = "h2" /\ stage' \in {"ok", "failed"}
    /\ UNCHANGED <<peer, arrived, closed, read>>

Quiesce == stage \in Ended /\ UNCHANGED vars

Init ==
    /\ via \in Via
    /\ reply \in Reply[via]
    /\ arrived = 0
    /\ closed = FALSE
    /\ read = 0
    /\ stage = "connect"

Next ==
    \/ Arrive \/ ProxyClose
    \/ Connect
    \/ ReadReply \/ ReadNothing
    \/ Method \/ Header \/ Address \/ Port \/ ReadShort
    \/ Handshake
    \/ Quiesce

Spec == Init /\ [][Next]_vars

(* The runtime polls the dial when its stream has something to read. *)
FairSpec ==
    /\ Spec
    /\ WF_vars(ReadReply \/ ReadNothing \/ Method \/ Header \/ Address \/ Port \/ ReadShort)

-----------------------------------------------------------------------------

(* Every variable stays in its domain; the client reads what has arrived, and
   of a CONNECT reply what fits its buffer (proxy.rs:63-76). *)
TypeOK ==
    /\ via \in Via
    /\ reply \in Reply[via]
    /\ arrived \in 0 .. Len(reply)
    /\ closed \in BOOLEAN
    /\ read \in 0 .. arrived
    /\ via = "http" => read <= Buffer
    /\ stage \in {"connect", "tls", "h2"} \cup Tunnel \cup Ended

(* The proxy grants the tunnel, judged from its whole reply: a CONNECT reply
   whose header fits the buffer and says 200, or a SOCKS5 reply that grants the
   method and the request and has an address of a known type. *)
Granted ==
    CASE via = "http"   -> /\ reply[1] = "200"
                           /\ BlankLine(SubSeq(reply, 1, IF Len(reply) < Buffer THEN Len(reply) ELSE Buffer))
      [] via = "socks5" -> /\ Len(reply) >= 6
                           /\ <<reply[1], reply[2], reply[3], reply[4]>> = <<5, 0, 5, 0>>
                           /\ reply[6] \in {1, 3, 4}
      [] via = "none"   -> TRUE

(* However the stream splits the reply, TLS starts only over a tunnel that was
   granted (proxy.rs:62-88, 103-157). *)
OnlyGranted == stage \in {"tls", "h2", "ok"} => Granted

(* However the stream splits the reply, a tunnel that was granted is taken,
   unless the proxy closed the stream before it had said everything. *)
GrantedTaken == stage = "refused" => ~Granted \/ (closed /\ arrived < Len(reply))

(* TLS starts at the first byte after the reply, whatever form its address has
   (proxy.rs:128-157): nothing of the reply is left in the stream. *)
NothingLeft == stage \in {"tls", "h2", "ok"} /\ via # "none" => read = Len(reply)

(* No wait for bytes that cannot come: once the proxy has said everything or
   closed the stream, the tunnel is decided (proxy.rs:66-75). *)
Decided ==
    stage \in Tunnel /\ (closed \/ (Granted /\ arrived = Len(reply))) ~> stage \notin Tunnel

=============================================================================
