-------------------------------- MODULE MCParts --------------------------------
(***************************************************************************)
(* The parts of the program that share no state with one another, for TLC: *)
(* a behaviour is one of one part, chosen in the initial state; the others *)
(* rest.  The bounds are those of each part.                               *)
(***************************************************************************)
EXTENDS PortRouter, TCPPort, UDPPort, HTTPPort, HealthChecker, PeerIdentity,
        BoundedBuffers, Webhook, TargetFollowing, ListFile, Preferences, NodeStart,
        DomainSetup, MCTargetPorts

CONSTANTS c1, c2, c3, c4, i1, i2, l1, l2, k1, k2, r1, w1, w2

VARIABLE part

\* A peer with a user and a tagged node.
MCPeerOwner == [p \in Peers |-> IF p = "100.64.0.1" THEN "ann" ELSE Nobody]

\* The second hook is not for the second event.
MCMatches == (Events \X Hooks) \ {<<"e2", "h2">>}

-----------------------------------------------------------------------------
Parts == {"router", "tcp", "udp", "http", "health", "request", "whois", "rate",
          "log", "webhook", "watch", "proxmox", "list", "ports", "prefs", "node", "domain"}

Rest(p, vars) == IF part = p THEN TRUE ELSE UNCHANGED vars

RestExcept ==
  /\ Rest("router", rvars) /\ Rest("tcp", tvars) /\ Rest("udp", uvars)
  /\ Rest("http", hvars) /\ Rest("health", kvars) /\ Rest("request", pvars)
  /\ Rest("whois", wvars) /\ Rest("rate", lvars) /\ Rest("log", gvars)
  /\ Rest("webhook", vvars) /\ Rest("watch", tgvars) /\ Rest("proxmox", qvars)
  /\ Rest("list", fvars) /\ Rest("ports", tpvars) /\ Rest("prefs", evars)
  /\ Rest("node", nvars) /\ Rest("domain", domvars)
  /\ UNCHANGED part

\* A part that rests does so in one of its initial states.
PartsInit ==
  /\ part \in Parts
  /\ part = "health" \/ kPort = [p \in KPorts |-> CHOOSE t \in KTargets : TRUE]
  /\ \/ part = "request"
     \/ /\ pConf = CHOOSE c \in Configs : TRUE
        /\ pReq = CHOOSE r \in Requests : TRUE
  /\ part = "watch" \/ tKind = "docker"
  /\ part = "proxmox" \/ qGuest = [st |-> "stopped", on |-> TRUE, cfg |-> 1]
  /\ part = "list" \/ fFile = NoneListed
  /\ part = "ports" \/ tpTarget = CHOOSE t \in TPTargets[1] : TRUE
  /\ part = "prefs" \/ eFile = [k \in UserKeys |-> NoFile]
  /\ part = "node" \/ (nApi = TRUE /\ nCfg = NoTag /\ nDev = [d \in Devs |-> Unused])
  /\ part = "domain" \/ (domNames = NoNames /\ domCleanup = TRUE /\ domMetrics = TRUE /\ domRecs = {})
  /\ RInit /\ TInit /\ UInit /\ HInit /\ KInit /\ PInit /\ WInit /\ LInit /\ GInit
  /\ VInit /\ TGInit /\ QInit /\ FInit /\ TPInit /\ EInit /\ NInit /\ DomInit

PartsNext ==
  \/ part = "router" /\ RNext /\ RestExcept
  \/ part = "tcp" /\ TNext /\ RestExcept
  \/ part = "udp" /\ UNext /\ RestExcept
  \/ part = "http" /\ HNext /\ RestExcept
  \/ part = "health" /\ KNext /\ RestExcept
  \/ part = "request" /\ PNext /\ RestExcept
  \/ part = "whois" /\ WNext /\ RestExcept
  \/ part = "rate" /\ LNext /\ RestExcept
  \/ part = "log" /\ GNext /\ RestExcept
  \/ part = "webhook" /\ VNext /\ RestExcept
  \/ part = "watch" /\ TGNext /\ RestExcept
  \/ part = "proxmox" /\ QNext /\ RestExcept
  \/ part = "list" /\ FNext /\ RestExcept
  \/ part = "ports" /\ TPNext /\ RestExcept
  \/ part = "prefs" /\ ENext /\ RestExcept
  \/ part = "node" /\ NNext /\ RestExcept
  \/ part = "domain" /\ DomNext /\ RestExcept

PartsSpec == PartsInit /\ [][PartsNext]_<<part, rvars, tvars, uvars, hvars, kvars,
               pvars, wvars, lvars, gvars, vvars, tgvars, qvars, fvars, tpvars,
               evars, nvars, domvars>>

-----------------------------------------------------------------------------
(* The health checker's durations are no state's: TLC evaluates, once, that *)
(* nextBackoff and clampDuration give what they should, for every argument  *)
(* of a small width (health.go).                                            *)
ASSUME DurationsAssumption == DurationsExact
=============================================================================
