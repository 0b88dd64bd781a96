-------------------------- MODULE MCRedirectChain --------------------------
(* RedirectChain on a handful of URLs: two paths of one origin, the same host  *)
(* over another scheme and port, another host, and two IP addresses.           *)
EXTENDS RedirectChain

CONSTANTS NameA, NameB, Ip1, Ip2

MCUrl ==
    {[scheme |-> "https", host |-> NameA, port |-> 443, path |-> 1],
     [scheme |-> "https", host |-> NameA, port |-> 443, path |-> 2],
     [scheme |-> "http",  host |-> NameA, port |-> 80,  path |-> 1],
     [scheme |-> "https", host |-> NameB, port |-> 443, path |-> 1],
     [scheme |-> "https", host |-> Ip1,   port |-> 443, path |-> 1],
     [scheme |-> "https", host |-> Ip2,   port |-> 443, path |-> 1]}

MCIp == {Ip1, Ip2}
=============================================================================
