-------------------------- MODULE MCHttp2Session --------------------------
(* Http2Session on a small instance: model values for the calls that share   *)
(* one connection, and what their servers put on the bodies.                 *)
EXTENDS Http2Session, TLC

CONSTANTS c1, c2, c3

\* A coding that is decoded, one that is offered and not, and two layers.
EachCoding == c1 :> <<"zstd">> @@ c2 :> <<"deflate">> @@ c3 :> <<"gzip", "br">>
===========================================================================
