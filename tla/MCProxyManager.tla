---------------------------- MODULE MCProxyManager ----------------------------
(***************************************************************************)
(* ProxyManager for TLC.  Two targets that want the same hostname are the  *)
(* smallest case in which the target locks do not serialize everything.    *)
(***************************************************************************)
EXTENDS ProxyManager, TLC

CONSTANTS h1

\* Both targets have hostname h1.
SameHost == [t \in Targets |-> {h1}]

Symmetric == Permutations(Handlers) \cup Permutations(Insts)
=============================================================================
