---------------------------- MODULE PeerIdentity ----------------------------
(***************************************************************************)
(* Who a request is from: the way of a request with the identity of its    *)
(* sender (RequestPath), and the cache in which that identity is looked up *)
(* (WhoisCache).  The two share no state.                                  *)
(***************************************************************************)
EXTENDS RequestPath, WhoisCache

\* Who a request is from: what the node says of its sender, as fresh as the
\* cache promises, and never what the sender says of itself.
IdentitySafe == RequestSafe /\ WhoisSafe
=============================================================================
