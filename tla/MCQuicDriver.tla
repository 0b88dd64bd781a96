---------------------------- MODULE MCQuicDriver ----------------------------
(* QuicDriver on small instances: model values for the calls of one session.  *)
EXTENDS QuicDriver, TLC
=============================================================================
