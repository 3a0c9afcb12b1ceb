---------------------------- MODULE MCSharedServer ----------------------------
(***************************************************************************)
(* SharedServer for TLC: two proxies on two ports of the shared node.      *)
(***************************************************************************)
EXTENDS SharedServer, TLC

CONSTANTS u1, u2, d1, d2, q1, q2

User(d, a, b) == [domain |-> d, proto |-> q1 :> a @@ q2 :> b]

\* Two proxies on one router; a direct port against a router; and a proxy on a
\* router and a packet port that has the node for itself.
Mixed ==
  { u1 :> User(d1, "https", None) @@ u2 :> User(d2, "https", None),
    u1 :> User(d1, "tcp", None) @@ u2 :> User(d2, "http", None),
    u1 :> User(d1, None, None) @@ u2 :> User(d2, "https", "udp") }

\* The node is restarted, except where two proxies only compete for a port.
MixedStarts ==
  [c \in Mixed |-> IF c[u1].proto[q1] = "tcp" THEN 1 ELSE MaxGen]

OnePort == {[u \in Users |-> User(IF u = u1 THEN d1 ELSE d2, "https", None)]}
OnePortStarts == [c \in OnePort |-> MaxGen]
=============================================================================
