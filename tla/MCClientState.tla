--------------------------- MODULE MCClientState ---------------------------
(* ClientState with two origins of one host and one of another. *)
EXTENDS ClientState, TLC

CONSTANTS a, a2, b, ha, hb, t1, t2

Symmetry == Permutations({t1, t2}) \cup Permutations({a, a2})

MCHostOf == [o \in Origin |-> IF o = b THEN hb ELSE ha]
=============================================================================
