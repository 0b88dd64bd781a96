--------------------------- MODULE TcpDialProofs ---------------------------
(***************************************************************************)
(* What holds of a TCP dial for replies of any length, split and cut       *)
(* anywhere, and any size of the buffer: TLS starts over a tunnel that was *)
(* granted, at its first byte, no granted tunnel is refused, and no read   *)
(* waits for bytes that do not come.                                       *)
(***************************************************************************)
EXTENDS TcpDial, TLAPS

Started == {"tls", "h2", "ok"}

(* The method and the request were granted, as far as the client has read. *)
GrantedPrefix ==
    /\ Len(reply) >= 6
    /\ reply[1] = 5 /\ reply[2] = 0 /\ reply[3] = 5 /\ reply[4] = 0

(* Where in the reply a stage of the SOCKS5 exchange is. *)
Position ==
    /\ stage \in {"connect", "method"} => read = 0
    /\ stage = "header" => read = 2 /\ reply[1] = 5 /\ reply[2] = 0
    /\ stage = "ipv4" => read = 6 /\ GrantedPrefix /\ reply[6] = 1
    /\ stage = "ipv6" => read = 6 /\ GrantedPrefix /\ reply[6] = 4
    /\ stage = "length" => read = 6 /\ GrantedPrefix /\ reply[6] = 3
    /\ stage = "domain" => read = 7 /\ GrantedPrefix /\ reply[6] = 3
    /\ stage = "port" => read = Len(reply) - 2 /\ GrantedPrefix /\ reply[6] \in {1, 3, 4}

(* Each route has its own stages; the CONNECT loop goes on because what it has
   read is not complete. *)
Routed ==
    /\ stage = "reply" => via = "http" /\ ~Complete(read)
    /\ stage \in Exactly => via = "socks5"
    /\ stage = "refused" => via # "none"

IInv == TypeOK /\ Position /\ Routed /\ OnlyGranted /\ GrantedTaken /\ NothingLeft

-----------------------------------------------------------------------------
(* What the assumptions say of the reply *)

LEMMA ReplyFacts ==
    ASSUME TypeOK
    PROVE /\ Len(reply) \in Nat /\ read \in Nat /\ arrived \in Nat
          /\ read <= arrived /\ arrived <= Len(reply)
          /\ via = "http" => reply \in Seq(STRING)
          /\ via = "socks5" => reply \in Seq(0 .. 255)
  <1>1. \/ via = "none" /\ reply \in Seq(STRING)
        \/ via = "http" /\ reply \in Seq(STRING)
        \/ via = "socks5" /\ reply \in Seq(0 .. 255)
    BY ViaAssumption, ReplyAssumption DEF TypeOK
  <1>2. Len(reply) \in Nat
    BY <1>1
  <1> QED
    BY <1>1, <1>2 DEF TypeOK

LEMMA PrefixBlank ==
    ASSUME NEW s \in Seq(STRING), NEW n \in 0 .. Len(s)
    PROVE BlankLine(SubSeq(s, 1, n)) <=>
              \E i \in 1 .. n - 1 : s[i] = "crlf" /\ s[i + 1] = "crlf"
  <1>1. Len(SubSeq(s, 1, n)) = n /\ \A i \in 1 .. n : SubSeq(s, 1, n)[i] = s[i]
    OBVIOUS
  <1>2. \A i \in 1 .. n - 1 : i \in 1 .. n /\ i + 1 \in 1 .. n
    OBVIOUS
  <1> QED
    BY <1>1, <1>2 DEF BlankLine

(* A CONNECT reply grants if it says 200 and has its blank line in the buffer. *)
LEMMA GrantedHttp ==
    ASSUME TypeOK, via = "http"
    PROVE Granted <=>
            /\ reply[1] = "200"
            /\ \E i \in 1 .. Len(reply) - 1 :
                  i < Buffer /\ reply[i] = "crlf" /\ reply[i + 1] = "crlf"
  <1> DEFINE m == IF Len(reply) < Buffer THEN Len(reply) ELSE Buffer
  <1>1. reply \in Seq(STRING) /\ Len(reply) \in Nat /\ m \in 0 .. Len(reply)
    BY ReplyFacts, BufferAssumption
  <1>2. Granted <=> reply[1] = "200" /\ BlankLine(SubSeq(reply, 1, m))
    BY DEF Granted
  <1>3. BlankLine(SubSeq(reply, 1, m)) <=>
            \E i \in 1 .. m - 1 : reply[i] = "crlf" /\ reply[i + 1] = "crlf"
    BY <1>1, PrefixBlank
  <1>4. \A i : i \in 1 .. m - 1 <=> i \in 1 .. Len(reply) - 1 /\ i < Buffer
    BY <1>1, BufferAssumption
  <1> QED
    BY <1>2, <1>3, <1>4

LEMMA CompleteHttp ==
    ASSUME TypeOK, via = "http", NEW n \in 0 .. Len(reply)
    PROVE Complete(n) <=> \E i \in 1 .. n - 1 : reply[i] = "crlf" /\ reply[i + 1] = "crlf"
  BY ReplyFacts, PrefixBlank DEF Complete

LEMMA SeqFacts ==
    ASSUME NEW S, NEW s \in Seq(S)
    PROVE Len(s) \in Nat /\ \A i \in 1 .. Len(s) : s[i] \in S
  OBVIOUS

LEMMA ByteIsNat == \A b \in 0 .. 255 : b \in Nat
  OBVIOUS

LEMMA SeventhByte ==
    ASSUME NEW s \in Seq(0 .. 255)
    PROVE Len(s) >= 7 => s[7] \in Nat
  <1> SUFFICES ASSUME Len(s) >= 7 PROVE s[7] \in Nat
    OBVIOUS
  <1>1. Len(s) \in Nat
    BY SeqFacts
  <1>2. 7 \in 1 .. Len(s)
    BY <1>1
  <1>3. s[7] \in 0 .. 255
    BY <1>2, SeqFacts
  <1> QED
    BY <1>3, ByteIsNat, Zenon

(* A SOCKS5 reply that grants, of a known type. *)
LEMMA GrantedSocks5 ==
    ASSUME TypeOK, via = "socks5"
    PROVE /\ Granted <=> GrantedPrefix /\ reply[6] \in {1, 3, 4}
          /\ GrantedPrefix =>
                /\ reply[6] = 1 => Len(reply) = 12
                /\ reply[6] = 3 => Len(reply) >= 7 /\ Len(reply) = 9 + reply[7] /\ reply[7] \in Nat
                /\ reply[6] = 4 => Len(reply) = 24
  <1>1. reply \in Seq(0 .. 255) /\ reply \in Reply["socks5"] /\ "socks5" \in Via
    BY ReplyFacts DEF TypeOK
  <1>2. Granted <=> GrantedPrefix /\ reply[6] \in {1, 3, 4}
    BY DEF Granted, GrantedPrefix
  <1>3. GrantedPrefix =>
                /\ reply[6] = 1 => Len(reply) = 12
                /\ reply[6] = 3 => Len(reply) >= 7 /\ Len(reply) = 9 + reply[7]
                /\ reply[6] = 4 => Len(reply) = 24
    <2>1. Len(reply) >= 6 /\ <<reply[1], reply[2], reply[3], reply[4]>> = <<5, 0, 5, 0>> =>
                /\ reply[6] = 1 => Len(reply) = 12
                /\ reply[6] = 3 => Len(reply) >= 7 /\ Len(reply) = 9 + reply[7]
                /\ reply[6] = 4 => Len(reply) = 24
      BY <1>1, ReplyAssumption
    <2> QED
      BY <2>1 DEF GrantedPrefix
  <1>4. Len(reply) >= 7 => reply[7] \in Nat
    <2>1. reply \in Seq(0 .. 255)
      BY <1>1
    <2> QED
      BY <2>1, SeventhByte
  <1> QED
    BY <1>2, <1>3, <1>4

-----------------------------------------------------------------------------
(* The inductive step, one lemma per action *)

LEMMA InitInv == Init => IInv
  <1> SUFFICES ASSUME Init PROVE IInv
    OBVIOUS
  <1>1. Len(reply) \in Nat
    BY ViaAssumption, ReplyAssumption DEF Init
  <1>2. TypeOK
    <2>1. arrived \in 0 .. Len(reply) /\ read \in 0 .. arrived /\ read <= Buffer
      BY <1>1, BufferAssumption DEF Init
    <2>2. stage = "connect"
      BY DEF Init
    <2>3. stage \in {"connect", "tls", "h2"} \cup Tunnel \cup Ended
      BY <2>2
    <2>4. via \in Via /\ reply \in Reply[via] /\ closed \in BOOLEAN
      BY DEF Init
    <2> QED
      BY <2>1, <2>3, <2>4, Zenon DEF TypeOK
  <1> QED
    BY <1>2, Zenon DEF Init, IInv, Position, Routed, Exactly, OnlyGranted, GrantedTaken,
                       NothingLeft

(* The proxy goes on, or closes the stream. *)
LEMMA ProxyStep ==
    ASSUME IInv, Arrive \/ ProxyClose
    PROVE IInv'
  <1>1. /\ stage \in Tunnel /\ stage' = stage /\ read' = read /\ via' = via /\ reply' = reply
        /\ stage # "refused" /\ stage \notin Started
    BY DEF Arrive, ProxyClose, peer, Tunnel, Exactly, Started
  <1>2. TypeOK'
    <2>1. Len(reply) \in Nat /\ read \in Nat /\ arrived \in Nat /\ read <= arrived
          /\ arrived <= Len(reply)
      BY ReplyFacts DEF IInv
    <2>2. arrived' \in arrived .. Len(reply) /\ closed' \in BOOLEAN
      <3>1. closed' \in BOOLEAN /\ (arrived' = arrived \/ arrived' \in arrived + 1 .. Sendable)
        BY DEF Arrive, ProxyClose, IInv, TypeOK
      <3>2. Sendable \in Nat /\ Sendable <= Len(reply)
        BY <2>1 DEF Sendable
      <3> QED
        BY <2>1, <3>1, <3>2
    <2> QED
      BY <1>1, <2>1, <2>2 DEF IInv, TypeOK
  <1>3. Position'
    BY <1>1 DEF IInv, Position, GrantedPrefix
  <1>4. Routed'
    BY <1>1 DEF IInv, Routed, Complete
  <1> QED
    BY <1>1, <1>2, <1>3, <1>4 DEF IInv, OnlyGranted, GrantedTaken, NothingLeft, Started

LEMMA ConnectStep ==
    ASSUME IInv, Connect
    PROVE IInv'
  <1>1. /\ stage = "connect" /\ UNCHANGED <<via, reply, arrived, closed, read>>
        /\ read = 0
    BY DEF Connect, peer, IInv, Position
  <1>2. /\ stage' \in {"failed", "tls", "reply", "method"}
        /\ stage' = "tls" => via = "none"
        /\ stage' = "reply" => via = "http"
        /\ stage' = "method" => via = "socks5"
    BY ViaAssumption DEF Connect, IInv, TypeOK
  <1>3. TypeOK'
    BY <1>1, <1>2 DEF IInv, TypeOK, Tunnel, Exactly, Ended
  <1>4. Position'
    BY <1>1, <1>2 DEF Position
  <1>5. via = "http" => ~Complete(0)
    BY CompleteHttp, ReplyFacts DEF IInv
  <1>6. Routed'
    BY <1>1, <1>2, <1>5 DEF Routed, Exactly, Complete
  <1>7. via = "none" => Granted
    BY DEF Granted
  <1> QED
    BY <1>1, <1>2, <1>3, <1>4, <1>6, <1>7
       DEF IInv, OnlyGranted, GrantedTaken, NothingLeft, Granted

LEMMA ReadReplyStep ==
    ASSUME IInv, ReadReply
    PROVE IInv'
  <1>1. PICK n \in read + 1 .. arrived :
            /\ Fits(n) /\ read' = n
            /\ stage' = IF ~Complete(n) THEN "reply"
                        ELSE IF reply[1] = "200" THEN "tls" ELSE "refused"
    BY DEF ReadReply
  <1>2. /\ stage = "reply" /\ via = "http" /\ UNCHANGED <<via, reply, arrived, closed>>
    BY DEF ReadReply, peer, IInv, Routed
  <1>3. /\ Len(reply) \in Nat /\ n \in 1 .. Len(reply) /\ n \in 0 .. Len(reply)
        /\ n <= arrived /\ n <= Buffer
    BY <1>1, ReplyFacts DEF IInv, Fits
  <1>4. TypeOK'
    BY <1>1, <1>2, <1>3 DEF IInv, TypeOK, Tunnel, Ended
  <1>5. Complete(n) /\ reply[1] = "200" => Granted /\ n = Len(reply)
    <2> SUFFICES ASSUME Complete(n), reply[1] = "200"
                 PROVE  Granted /\ n = Len(reply)
      OBVIOUS
    <2>1. PICK i \in 1 .. n - 1 : reply[i] = "crlf" /\ reply[i + 1] = "crlf"
      BY <1>2, <1>3, CompleteHttp DEF IInv
    <2>2. i \in 1 .. Len(reply) - 1 /\ i < Buffer
      BY <1>3, <2>1, BufferAssumption
    <2>3. Granted
      BY <1>2, <2>1, <2>2, GrantedHttp DEF IInv
    <2>4. i + 1 = Len(reply)
      BY <1>2, <2>1, <2>2, ReplyAssumption DEF IInv, TypeOK
    <2> QED
      BY <1>3, <2>1, <2>3, <2>4
  <1>6. reply[1] # "200" => ~Granted
    BY <1>2, GrantedHttp DEF IInv
  <1>7. Position'
    BY <1>1 DEF Position
  <1>8. Routed'
    BY <1>1, <1>2 DEF Routed, Exactly, Complete
  <1>9. OnlyGranted' /\ NothingLeft' /\ GrantedTaken'
    BY <1>1, <1>2, <1>5, <1>6 DEF OnlyGranted, NothingLeft, GrantedTaken, Granted
  <1> QED
    BY <1>4, <1>7, <1>8, <1>9 DEF IInv

(* As long as the CONNECT loop goes on, what would grant the tunnel is still to be
   read, and fits the buffer. *)
LEMMA LoopIsCut ==
    ASSUME IInv, stage = "reply", Granted
    PROVE  read < Buffer /\ read < Len(reply)
  <1>1. via = "http" /\ ~Complete(read)
    BY DEF IInv, Routed
  <1>2. PICK i \in 1 .. Len(reply) - 1 :
            i < Buffer /\ reply[i] = "crlf" /\ reply[i + 1] = "crlf"
    BY <1>1, GrantedHttp DEF IInv
  <1>3. Len(reply) \in Nat /\ read \in 0 .. Len(reply) /\ read <= Buffer
    BY <1>1, ReplyFacts DEF IInv, TypeOK
  <1>4. i \notin 1 .. read - 1
    BY <1>1, <1>2, <1>3, CompleteHttp DEF IInv
  <1> QED
    BY <1>2, <1>3, <1>4, BufferAssumption

LEMMA ReadNothingStep ==
    ASSUME IInv, ReadNothing
    PROVE IInv'
  <1>1. /\ stage = "reply" /\ via = "http" /\ stage' = "refused" /\ ~Complete(read)
        /\ UNCHANGED <<via, reply, arrived, closed, read>>
        /\ read = Buffer \/ (closed /\ read = arrived)
    BY DEF ReadNothing, EmptyRead, peer, IInv, Routed
  <1>2. TypeOK'
    BY <1>1 DEF IInv, TypeOK, Ended
  <1>3. ~Granted \/ (closed /\ arrived < Len(reply))
    BY <1>1, LoopIsCut, BufferAssumption
  <1> QED
    BY <1>1, <1>2, <1>3 DEF IInv, Position, Routed, Exactly, OnlyGranted, GrantedTaken,
                            NothingLeft, Granted

(* What every read_exact does, whatever it waits for. *)
LEMMA ReadExactFacts ==
    ASSUME IInv, NEW at, at \subseteq Exactly, ReadExact(at), Wanted \in Nat
    PROVE /\ stage \in at /\ stage \in Exactly /\ via = "socks5"
          /\ via' = via /\ reply' = reply /\ arrived' = arrived /\ closed' = closed
          /\ read' = read + Wanted /\ read + Wanted <= Len(reply)
          /\ Len(reply) \in Nat /\ read \in Nat /\ read' \in 0 .. arrived
  <1>1. /\ stage \in at /\ arrived - read >= Wanted /\ read' = read + Wanted
        /\ via' = via /\ reply' = reply /\ arrived' = arrived /\ closed' = closed
    BY DEF ReadExact, peer
  <1>2. stage \in Exactly
    BY <1>1
  <1>3. via = "socks5"
    BY <1>2 DEF IInv, Routed
  <1>4. Len(reply) \in Nat /\ read \in Nat /\ arrived \in Nat /\ arrived <= Len(reply)
    BY ReplyFacts DEF IInv
  <1> QED
    BY <1>1, <1>2, <1>3, <1>4

(* A step of the SOCKS5 exchange keeps the types. *)
LEMMA StageTyped ==
    ASSUME TypeOK, via = "socks5", read' \in 0 .. arrived,
           via' = via, reply' = reply, arrived' = arrived, closed' = closed,
           stage' \in Exactly \cup {"tls", "refused"}
    PROVE TypeOK'
  <1>1. stage' \in {"connect", "tls", "h2"} \cup Tunnel \cup Ended
    BY DEF Tunnel, Ended
  <1> QED
    BY <1>1 DEF TypeOK

LEMMA MethodStep ==
    ASSUME IInv, Method
    PROVE IInv'
  <1>1. stage = "method"
    BY DEF Method, ReadExact
  <1>2. Wanted = 2
    BY <1>1 DEF Wanted
  <1>3. /\ via = "socks5" /\ read' \in 0 .. arrived
        /\ via' = via /\ reply' = reply /\ arrived' = arrived /\ closed' = closed
        /\ read' = read + 2
    BY <1>2, ReadExactFacts DEF Method, Exactly
  <1>4. read = 0 /\ read' = 2
    BY <1>1, <1>3 DEF IInv, Position
  <1>5. \/ stage' = "header" /\ reply[1] = 5 /\ reply[2] = 0
        \/ stage' = "refused" /\ ~GrantedPrefix
    BY <1>4 DEF Method, Accepted, GrantedPrefix
  <1>6. TypeOK'
    BY <1>3, <1>5, StageTyped DEF IInv, Exactly
  <1>7. Position' /\ Routed'
    BY <1>3, <1>4, <1>5 DEF Position, Routed, Exactly
  <1>8. stage' = "refused" => ~Granted
    BY <1>3, <1>5, GrantedSocks5 DEF IInv
  <1> QED
    BY <1>3, <1>5, <1>6, <1>7, <1>8
       DEF IInv, OnlyGranted, GrantedTaken, NothingLeft, Granted

LEMMA HeaderStep ==
    ASSUME IInv, Header
    PROVE IInv'
  <1>1. stage = "header"
    BY DEF Header, ReadExact
  <1>2. Wanted = 4
    BY <1>1 DEF Wanted
  <1>3. /\ via = "socks5" /\ read' \in 0 .. arrived /\ Len(reply) \in Nat
        /\ via' = via /\ reply' = reply /\ arrived' = arrived /\ closed' = closed
        /\ read' = read + 4 /\ read + 4 <= Len(reply)
    BY <1>2, ReadExactFacts DEF Header, Exactly
  <1>4. read = 2 /\ read' = 6 /\ Len(reply) >= 6 /\ reply[1] = 5 /\ reply[2] = 0
    BY <1>1, <1>3 DEF IInv, Position
  <1>5. stage' = IF reply[3] = 5 /\ reply[4] = 0 THEN AfterHeader(reply[6]) ELSE "refused"
    BY <1>4 DEF Header, Accepted
  <1>6. \/ stage' = "ipv4" /\ GrantedPrefix /\ reply[6] = 1
        \/ stage' = "length" /\ GrantedPrefix /\ reply[6] = 3
        \/ stage' = "ipv6" /\ GrantedPrefix /\ reply[6] = 4
        \/ stage' = "refused" /\ ~(GrantedPrefix /\ reply[6] \in {1, 3, 4})
    <2>1. CASE ~(reply[3] = 5 /\ reply[4] = 0)
      BY <1>5, <2>1 DEF GrantedPrefix
    <2>2. CASE reply[3] = 5 /\ reply[4] = 0
      <3>1. GrantedPrefix /\ stage' = AfterHeader(reply[6])
        BY <1>4, <1>5, <2>2 DEF GrantedPrefix
      <3>2. \A t : \/ t = 1 /\ AfterHeader(t) = "ipv4"
                   \/ t = 3 /\ AfterHeader(t) = "length"
                   \/ t = 4 /\ AfterHeader(t) = "ipv6"
                   \/ t \notin {1, 3, 4} /\ AfterHeader(t) = "refused"
        BY DEF AfterHeader, AddressStage
      <3> QED
        BY <3>1, <3>2
    <2> QED
      BY <2>1, <2>2
  <1>7. TypeOK'
    BY <1>3, <1>6, StageTyped DEF IInv, Exactly
  <1>8. Position' /\ Routed'
    BY <1>3, <1>4, <1>6 DEF Position, Routed, Exactly, GrantedPrefix
  <1>9. stage' = "refused" => ~Granted
    BY <1>3, <1>6, GrantedSocks5 DEF IInv
  <1> QED
    BY <1>3, <1>6, <1>7, <1>8, <1>9
       DEF IInv, OnlyGranted, GrantedTaken, NothingLeft, Granted

LEMMA AddressStep ==
    ASSUME IInv, Address
    PROVE IInv'
  <1>1. CASE ReadExact({"length"}) /\ stage' = "domain"
    <2>1. stage = "length"
      BY <1>1 DEF ReadExact
    <2>2. Wanted = 1
      BY <2>1 DEF Wanted
    <2>3. /\ via = "socks5" /\ read' \in 0 .. arrived
          /\ via' = via /\ reply' = reply /\ arrived' = arrived /\ closed' = closed
          /\ read' = read + 1
      BY <1>1, <2>2, ReadExactFacts DEF Exactly
    <2>4. read' = 7 /\ GrantedPrefix /\ reply[6] = 3
      BY <2>1, <2>3 DEF IInv, Position
    <2>5. TypeOK'
      BY <1>1, <2>3, StageTyped DEF IInv, Exactly
    <2>6. Position' /\ Routed'
      BY <1>1, <2>3, <2>4 DEF Position, Routed, Exactly, GrantedPrefix
    <2> QED
      BY <1>1, <2>5, <2>6 DEF IInv, OnlyGranted, GrantedTaken, NothingLeft
  <1>2. CASE ReadExact({"ipv4", "ipv6", "domain"}) /\ stage' = "port"
    <2>1. \/ stage = "ipv4" /\ Wanted = 4
          \/ stage = "ipv6" /\ Wanted = 16
          \/ stage = "domain" /\ Wanted = reply[read]
      BY <1>2 DEF ReadExact, Wanted, DomainLength
    <2>2. stage \in Exactly
      BY <2>1 DEF Exactly
    <2>3. via = "socks5"
      BY <2>2 DEF IInv, Routed
    <2>4. /\ GrantedPrefix /\ reply[6] \in {1, 3, 4} /\ Wanted \in Nat
          /\ read + Wanted = Len(reply) - 2
      <3>1. /\ reply[6] = 1 => Len(reply) = 12
            /\ reply[6] = 3 => Len(reply) >= 7 /\ Len(reply) = 9 + reply[7] /\ reply[7] \in Nat
            /\ reply[6] = 4 => Len(reply) = 24
            /\ GrantedPrefix
        BY <2>1, <2>3, GrantedSocks5 DEF IInv, Position
      <3>2. \/ stage = "ipv4" /\ read = 6 /\ reply[6] = 1 /\ Wanted = 4
            \/ stage = "ipv6" /\ read = 6 /\ reply[6] = 4 /\ Wanted = 16
            \/ stage = "domain" /\ read = 7 /\ reply[6] = 3 /\ Wanted = reply[7]
        BY <2>1 DEF IInv, Position
      <3>3. CASE reply[6] = 1
        BY <3>1, <3>2, <3>3
      <3>4. CASE reply[6] = 4
        BY <3>1, <3>2, <3>4
      <3>5. CASE reply[6] = 3
        <4> DEFINE b == reply[7]
        <4>1. read = 7 /\ Wanted = b /\ b \in Nat /\ Len(reply) = 9 + b
          BY <3>1, <3>2, <3>5
        <4> HIDE DEF b
        <4>2. read + Wanted = Len(reply) - 2 /\ Wanted \in Nat
          BY <4>1
        <4> QED
          BY <3>1, <3>5, <4>2
      <3> QED
        BY <3>2, <3>3, <3>4, <3>5
    <2>5. /\ read' \in 0 .. arrived /\ read' = Len(reply) - 2
          /\ via' = via /\ reply' = reply /\ arrived' = arrived /\ closed' = closed
      BY <1>2, <2>4, ReadExactFacts DEF Exactly
    <2>6. TypeOK'
      BY <1>2, <2>3, <2>5, StageTyped DEF IInv, Exactly
    <2>7. Position' /\ Routed'
      BY <1>2, <2>3, <2>4, <2>5 DEF Position, Routed, Exactly, GrantedPrefix
    <2> QED
      BY <1>2, <2>6, <2>7 DEF IInv, OnlyGranted, GrantedTaken, NothingLeft
  <1> QED
    BY <1>1, <1>2 DEF Address

LEMMA PortStep ==
    ASSUME IInv, Port
    PROVE IInv'
  <1>1. stage = "port" /\ stage' = "tls"
    BY DEF Port, ReadExact
  <1>2. Wanted = 2
    BY <1>1 DEF Wanted
  <1>3. /\ via = "socks5" /\ read' \in 0 .. arrived /\ Len(reply) \in Nat
        /\ via' = via /\ reply' = reply /\ arrived' = arrived /\ closed' = closed
        /\ read' = read + 2
    BY <1>2, ReadExactFacts DEF Port, Exactly
  <1>4. read' = Len(reply) /\ GrantedPrefix /\ reply[6] \in {1, 3, 4}
    BY <1>1, <1>3 DEF IInv, Position
  <1>5. Granted
    BY <1>3, <1>4, GrantedSocks5 DEF IInv
  <1>6. TypeOK'
    BY <1>1, <1>3, StageTyped DEF IInv
  <1>7. Position' /\ Routed'
    BY <1>1 DEF Position, Routed, Exactly
  <1> QED
    BY <1>1, <1>3, <1>4, <1>5, <1>6, <1>7
       DEF IInv, OnlyGranted, GrantedTaken, NothingLeft, Granted

LEMMA WantedFacts ==
    ASSUME IInv, stage \in Exactly
    PROVE  Wanted \in Nat
  <1>1. CASE stage = "domain"
    <2>1. Wanted = reply[read] /\ read = 7 /\ GrantedPrefix /\ reply[6] = 3 /\ via = "socks5"
      BY <1>1 DEF Wanted, DomainLength, IInv, Position, Routed, Exactly
    <2>2. reply[7] \in Nat
      BY <2>1, GrantedSocks5 DEF IInv
    <2> QED
      BY <2>1, <2>2
  <1>2. CASE stage # "domain"
    BY <1>2 DEF Wanted, Exactly
  <1> QED
    BY <1>1, <1>2

(* A granted reply that ends before a stage has what it waits for was cut short:
   every stage waits for a part of it. *)
LEMMA ShortIsCut ==
    ASSUME IInv, stage \in Exactly, arrived - read < Wanted, Granted
    PROVE  arrived < Len(reply)
  <1>0. Len(reply) \in Nat /\ read \in Nat /\ arrived \in Nat /\ via = "socks5"
    BY ReplyFacts DEF IInv, Routed
  <1>1. /\ GrantedPrefix /\ Len(reply) >= 6
        /\ reply[6] = 1 => Len(reply) = 12
        /\ reply[6] = 3 => Len(reply) >= 7 /\ Len(reply) = 9 + reply[7] /\ reply[7] \in Nat
        /\ reply[6] = 4 => Len(reply) = 24
    BY <1>0, GrantedSocks5 DEF IInv, GrantedPrefix
  <1>2. \/ stage = "method" /\ Wanted = 2
        \/ stage = "header" /\ Wanted = 4
        \/ stage = "ipv4" /\ Wanted = 4
        \/ stage = "ipv6" /\ Wanted = 16
        \/ stage = "length" /\ Wanted = 1
        \/ stage = "domain" /\ Wanted = reply[read]
        \/ stage = "port" /\ Wanted = 2
    BY DEF Exactly, Wanted, DomainLength
  <1>3. /\ stage = "method" => read = 0
        /\ stage = "header" => read = 2
        /\ stage = "ipv4" => read = 6 /\ reply[6] = 1
        /\ stage = "ipv6" => read = 6 /\ reply[6] = 4
        /\ stage = "length" => read = 6 /\ reply[6] = 3
        /\ stage = "domain" => read = 7 /\ reply[6] = 3
        /\ stage = "port" => read = Len(reply) - 2
    BY DEF IInv, Position
  <1>4. CASE stage = "domain"
    <2> DEFINE b == reply[7]
    <2>1. arrived - 7 < b /\ b \in Nat /\ Len(reply) = 9 + b
      BY <1>1, <1>2, <1>3, <1>4
    <2> HIDE DEF b
    <2> QED
      BY <1>0, <2>1
  <1>5. CASE stage \in {"ipv4", "ipv6", "length"}
    <2>1. \/ read = 6 /\ Wanted = 4 /\ Len(reply) = 12
          \/ read = 6 /\ Wanted = 16 /\ Len(reply) = 24
          \/ read = 6 /\ Wanted = 1 /\ Len(reply) >= 7
      <3>1. CASE stage = "ipv4"
        BY <1>1, <1>2, <1>3, <3>1
      <3>2. CASE stage = "ipv6"
        BY <1>1, <1>2, <1>3, <3>2
      <3>3. CASE stage = "length"
        BY <1>1, <1>2, <1>3, <3>3
      <3> QED
        BY <1>5, <3>1, <3>2, <3>3
    <2>2. \/ arrived - 6 < 4 /\ Len(reply) = 12
          \/ arrived - 6 < 16 /\ Len(reply) = 24
          \/ arrived - 6 < 1 /\ Len(reply) >= 7
      BY <2>1
    <2> DEFINE n == Len(reply)
    <2>3. n \in Nat /\ arrived \in Nat
      BY <1>0
    <2>4. \/ arrived - 6 < 4 /\ n = 12
          \/ arrived - 6 < 16 /\ n = 24
          \/ arrived - 6 < 1 /\ n >= 7
      BY <2>2
    <2> HIDE DEF n
    <2>5. arrived < n
      BY <2>3, <2>4
    <2> QED
      BY <2>5 DEF n
  <1>6. CASE stage \in {"method", "header", "port"}
    <2>1. \/ read = 0 /\ Wanted = 2
          \/ read = 2 /\ Wanted = 4
          \/ read = Len(reply) - 2 /\ Wanted = 2
      BY <1>2, <1>3, <1>6
    <2>2. Len(reply) >= 6
      BY <1>1
    <2> QED
      BY <1>0, <2>1, <2>2
  <1> QED
    BY <1>2, <1>4, <1>5, <1>6

LEMMA ReadShortStep ==
    ASSUME IInv, ReadShort
    PROVE IInv'
  <1>1. /\ stage \in Exactly /\ stage' = "refused" /\ closed /\ arrived - read < Wanted
        /\ via' = via /\ reply' = reply /\ arrived' = arrived /\ closed' = closed
        /\ read' = read /\ via = "socks5"
    BY DEF ReadShort, peer, IInv, Routed
  <1>2. Granted => arrived < Len(reply)
    BY <1>1, ShortIsCut
  <1>3. TypeOK'
    BY <1>1 DEF IInv, TypeOK, Ended
  <1>4. Position' /\ Routed'
    BY <1>1 DEF Position, Routed, Exactly
  <1> QED
    BY <1>1, <1>2, <1>3, <1>4 DEF IInv, OnlyGranted, GrantedTaken, NothingLeft, Granted

(* The handshakes, and a dial that is over. *)
LEMMA OtherStep ==
    ASSUME IInv, Handshake \/ Quiesce \/ UNCHANGED vars
    PROVE IInv'
  <1>1. /\ via' = via /\ reply' = reply /\ arrived' = arrived /\ closed' = closed
        /\ read' = read
        /\ stage' = stage \/ (stage \in Started /\ stage' \in Started \cup {"failed"})
    BY DEF Handshake, Quiesce, vars, peer, Started
  <1>2. TypeOK'
    BY <1>1 DEF IInv, TypeOK, Ended, Started
  <1>3. Position' /\ Routed'
    BY <1>1 DEF IInv, Position, Routed, Exactly, Started, GrantedPrefix, Complete
  <1> QED
    BY <1>1, <1>2, <1>3
       DEF IInv, OnlyGranted, GrantedTaken, NothingLeft, Granted, Started

-----------------------------------------------------------------------------
(* The theorems *)

(* The inductive invariant holds in every reachable state of a dial (connector.rs). *)
THEOREM Invariance == Spec => []IInv
  <1>1. IInv /\ [Next]_vars => IInv'
    <2> SUFFICES ASSUME IInv, [Next]_vars PROVE IInv'
      OBVIOUS
    <2> QED
      BY ProxyStep, ConnectStep, ReadReplyStep, ReadNothingStep, MethodStep, HeaderStep,
         AddressStep, PortStep, ReadShortStep, OtherStep DEF Next
  <1> QED
    BY InitInv, <1>1, PTL DEF Spec

(* Every variable stays in its domain: no read passes what has arrived, and none
   of a CONNECT reply its buffer (proxy.rs:63-76). *)
THEOREM TypeCorrect == Spec => []TypeOK
  <1>1. IInv => TypeOK
    BY DEF IInv
  <1> QED
    BY <1>1, Invariance, PTL

(* TLS starts only over a tunnel that the whole reply grants, however it was split
   (proxy.rs:62-88, 103-157). *)
THEOREM OnlyGrantedHolds == Spec => []OnlyGranted
  <1>1. IInv => OnlyGranted
    BY DEF IInv
  <1> QED
    BY <1>1, Invariance, PTL

(* A tunnel that was granted is refused only if the stream ended before the reply
   did (proxy.rs:66-75, 103-157). *)
THEOREM GrantedTakenHolds == Spec => []GrantedTaken
  <1>1. IInv => GrantedTaken
    BY DEF IInv
  <1> QED
    BY <1>1, Invariance, PTL

(* TLS starts at the first byte after the reply, whichever form its address has
   (proxy.rs:128-157). *)
THEOREM NothingLeftHolds == Spec => []NothingLeft
  <1>1. IInv => NothingLeft
    BY DEF IInv
  <1> QED
    BY <1>1, Invariance, PTL

-----------------------------------------------------------------------------
(* What Decided rests on *)

(* The condition under which ReadReply, ReadNothing, Method, Header, Address, Port
   or ReadShort can happen. *)
CanRead ==
    \/ stage = "reply" /\ (EmptyRead \/ (read < arrived /\ Fits(read + 1)))
    \/ stage \in Exactly /\ (arrived - read >= Wanted \/ closed)

(* The client never waits for bytes that do not come (proxy.rs:62-88, 103-157):
   once the stream is closed, or all of a reply that grants has arrived, the next
   read returns, whatever the length of the reply and however it was split. *)
THEOREM NeverStarved ==
    Spec => [](stage \in Tunnel /\ (closed \/ (Granted /\ arrived = Len(reply))) => CanRead)
  <1>1. ASSUME IInv, stage = "reply", closed \/ (Granted /\ arrived = Len(reply))
        PROVE  CanRead
    <2>1. read \in Nat /\ arrived \in Nat /\ read <= arrived
      BY <1>1, ReplyFacts DEF IInv
    <2>2. read <= Buffer
      BY <1>1 DEF IInv, Routed, TypeOK
    <2>3. CASE read < arrived /\ read # Buffer
      BY <1>1, <2>1, <2>2, <2>3, BufferAssumption DEF CanRead, Fits
    <2>4. CASE read = Buffer \/ (read = arrived /\ closed)
      BY <1>1, <2>4 DEF CanRead, EmptyRead
    <2>5. CASE read = arrived /\ ~closed
      BY <1>1, <2>5, LoopIsCut, BufferAssumption, ReplyFacts DEF IInv
    <2> QED
      BY <2>1, <2>3, <2>4, <2>5
  <1>2. ASSUME IInv, stage \in Exactly, closed \/ (Granted /\ arrived = Len(reply))
        PROVE  CanRead
    <2>1. CASE closed
      BY <1>2, <2>1 DEF CanRead
    <2>2. CASE Granted /\ arrived = Len(reply)
      <3>1. Len(reply) \in Nat /\ ~(Len(reply) < Len(reply))
        BY <1>2, ReplyFacts DEF IInv
      <3>2. ~(arrived - read < Wanted)
        BY <1>2, <2>2, <3>1, ShortIsCut
      <3>3. arrived \in Nat /\ read \in Nat /\ Wanted \in Nat
        BY <1>2, ReplyFacts, WantedFacts DEF IInv
      <3>4. arrived - read >= Wanted
        BY <3>2, <3>3
      <3> QED
        BY <1>2, <3>4 DEF CanRead
    <2> QED
      BY <1>2, <2>1, <2>2
  <1>3. IInv => (stage \in Tunnel /\ (closed \/ (Granted /\ arrived = Len(reply))) => CanRead)
    BY <1>1, <1>2 DEF Tunnel
  <1> QED
    BY <1>3, Invariance, PTL

\* A step of the client that goes on reading, which is one that brings no news of the stream.
ReadOn == stage \in Tunnel /\ stage' \in Tunnel /\ UNCHANGED <<arrived, closed>>

(* The reads end (proxy.rs:62-88, 103-157): each that does not decide the tunnel gets
   further in the reply, but for a domain name of no bytes. *)
THEOREM ReadsEnd ==
    Spec => [][ReadOn => read' > read \/ (stage = "domain" /\ stage' = "port")]_vars
  <1>1. ASSUME IInv, Next, ReadOn, vars' # vars
        PROVE  read' > read \/ (stage = "domain" /\ stage' = "port")
    <2>1. read \in Nat /\ arrived \in Nat
      BY <1>1, ReplyFacts DEF IInv
    <2>2. CASE Arrive \/ ProxyClose
      BY <1>1, <2>1, <2>2 DEF Arrive, ProxyClose, ReadOn
    <2>3. CASE Connect \/ Handshake \/ ReadNothing \/ ReadShort \/ Port \/ Quiesce
      BY <1>1, <2>3 DEF Connect, Handshake, ReadNothing, ReadShort, Port, Quiesce, ReadOn,
                        Tunnel, Exactly
    <2>4. CASE ReadReply
      BY <2>1, <2>4 DEF ReadReply
    <2>5. CASE Method \/ Header \/ Address
      <3>1. stage \in {"method", "header", "ipv4", "ipv6", "length"} => read' > read
        <4>1. ASSUME stage \in {"method", "header", "ipv4", "ipv6", "length"}
              PROVE  Wanted \in Nat /\ Wanted > 0
          BY <4>1 DEF Wanted
        <4>2. read' = read + Wanted
          BY <2>5 DEF Method, Header, Address, ReadExact
        <4> QED
          BY <2>1, <4>1, <4>2
      <3>2. stage = "domain" => stage' = "port"
        BY <2>5 DEF Method, Header, Address, ReadExact
      <3>3. stage \in {"method", "header", "ipv4", "ipv6", "length", "domain"}
        BY <2>5 DEF Method, Header, Address, ReadExact
      <3> QED
        BY <3>1, <3>2, <3>3
    <2> QED
      BY <1>1, <2>2, <2>3, <2>4, <2>5 DEF Next
  <1>2. IInv /\ [Next]_vars => [ReadOn => read' > read \/ (stage = "domain" /\ stage' = "port")]_vars
    BY <1>1
  <1> QED
    BY <1>2, Invariance, PTL DEF Spec

=============================================================================
