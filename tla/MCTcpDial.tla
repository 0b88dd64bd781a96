----------------------------- MODULE MCTcpDial -----------------------------
(* TcpDial on the replies that tell its branches apart: CONNECT replies below,  *)
(* at and above the size of the buffer, refused and unfinished ones, and SOCKS5 *)
(* replies of every address form, refusals and unknown types.                   *)
EXTENDS TcpDial

Line == <<"line", "crlf">>

ConnectReplies ==
    {<<status, "crlf">> \o header \o end :
        status \in {"200", "407"},
        header \in {<<>>, Line, Line \o Line, Line \o Line \o Line},
        end \in {<<"crlf">>, <<>>}}

Bytes(n) == [i \in 1 .. n |-> 0]

Socks5Replies ==
    {<<5, 255>>, <<4, 0>>, <<5, 0, 5, 0, 0, 2>>, <<5, 0, 4, 0, 0, 1>> \o Bytes(6)}
    \cup {<<5, 0, 5, rep, 0>> \o address \o Bytes(2) :
            rep \in {0, 1},
            address \in {<<1>> \o Bytes(4), <<4>> \o Bytes(16)}
                \cup {<<3, n>> \o Bytes(n) : n \in {0, 1, 4}}}

MCReply == [none |-> {<<>>}, http |-> ConnectReplies, socks5 |-> Socks5Replies]
=============================================================================
