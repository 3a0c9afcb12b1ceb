-------------------------- MODULE TargetFollowing --------------------------
(***************************************************************************)
(* How the proxies follow the targets: the providers that are told of what *)
(* happens to a target (TargetWatch: Docker, Incus) and the one that polls *)
(* (ProxmoxPoll).  The two share no state.                                 *)
(***************************************************************************)
EXTENDS TargetWatch, ProxmoxPoll

\* Docker, Incus and Proxmox: once events and polls are worked off, no request
\* failed and no handler overtook another, a target that runs and wants a proxy has
\* one with its configuration of now, if that could be made and started
\* (WatchEvents, startAllProxies; pollOnce, which removes the proxies of stopped
\* guests too, whatever happened before).
TargetsFollowed == WatchSafe /\ PollSafe
=============================================================================
