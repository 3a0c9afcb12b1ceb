--------------------------- MODULE MCServicesServer ---------------------------
(* One proxy with two ports and device approval; or two proxies. *)
EXTENDS ServicesServer, TLC

MCConfigs ==
  {[wants |-> [v \in Users |-> IF v = u THEN {80, 443} ELSE {}],
    autoApprove |-> TRUE] : u \in Users}
  \cup {[wants |-> [v \in Users |-> {443}], autoApprove |-> FALSE]}

Symmetric == Permutations(Users)
=============================================================================
