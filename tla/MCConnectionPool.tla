-------------------------- MODULE MCConnectionPool --------------------------
(* ConnectionPool on small instances: model values for calls, origins and    *)
(* connections, and the symmetry that the safety runs use.                    *)
EXTENDS ConnectionPool, TLC

\* No action tells two calls or two connections apart.  Two origins it does,
\* where the advertisements of both are filed under one of them.
Symmetry == Permutations(Task) \cup Permutations(Conn)

\* https origins, and http ones with explicit ports.
SameKey == [o \in Origin |-> o]

\* One host without a port: http, which is looked up under 80, and https.
CONSTANTS o80, o443
HttpKey == [o \in Origin |-> o443]
=============================================================================
