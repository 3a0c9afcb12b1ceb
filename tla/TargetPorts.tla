----------------------------- MODULE TargetPorts -----------------------------
(***************************************************************************)
(* From what a target says of its ports to the ports of its proxy          *)
(* (docker/container.go, autodetect.go, legacy.go; incus/instance.go;      *)
(* proxmox/guest.go; the end of list/list.go).  A target is chosen in the  *)
(* initial state; one step makes its ports.  What answers on the network   *)
(* while Docker's targets are probed is part of the target.                *)
(***************************************************************************)
EXTENDS PortLabels

CONSTANTS TPTargets,    \* what the providers may find, in families
          LegacyPort    \* 443

ASSUME LegacyAssumption == LegacyPort \in 1..PortMax

NoPort == 0
NoAddr == ""

VARIABLES tpTarget, tpPorts, tpDone

tpvars == <<tpTarget, tpPorts, tpDone>>

TPInit == (\E i \in DOMAIN TPTargets : tpTarget \in TPTargets[i]) /\ tpPorts = {} /\ tpDone = FALSE

-----------------------------------------------------------------------------
(* Docker: newContainer.                                                   *)

\* What is published of a container: a service's ports count for the numbers
\* that no binding has, in whatever protocol.
Published(c) ==
  LET bound == {b.port : b \in c.binds} IN
  c.binds \cup {s \in c.service : ~c.hostNetwork /\ s.port \notin bound}

\* setContainerPorts: a published number for every port number.  The protocol is
\* dropped: of 53/tcp and 53/udp, two keys of a Go map, the one that comes last
\* stays.
setContainerPorts(c) ==
  LET nums == {b.port : b \in Published(c)} IN
  IF c.hostNetwork THEN {[n \in nums |-> n]}
  ELSE {f \in [nums -> {b.pub : b \in Published(c)}] :
          \A n \in nums : \E b \in Published(c) : b.port = n /\ b.pub = f[n]}

\* setContainerNetwork: in the order of their names, the default bridge first.
Networks(c) ==
  LET IsBridge(net) == c.bridge # NoAddr /\ net.gw = c.bridge
      NotBridge(net) == ~IsBridge(net) IN
  SelectSeq(c.nets, IsBridge) \o SelectSeq(c.nets, NotBridge)

Present(addrs) == SelectSeq(addrs, LAMBDA a : a # NoAddr)
ContainerIPs(c) == Present([i \in DOMAIN c.nets |-> Networks(c)[i].ip])
Gateways(c) == Present([i \in DOMAIN c.nets |-> Networks(c)[i].gw])

-----------------------------------------------------------------------------
(* Docker: getTargetURL, the first address of the resolvers in their order.*)

At(hosts, port) == [i \in DOMAIN hosts |-> [host |-> hosts[i], port |-> port]]

resolveSelfHost(c, internal) == IF c.self THEN At(<<"127.0.0.1">>, internal) ELSE <<>>

\* tryConnectContainer: the addresses that answer.
tryConnectContainer(c, internal, published) ==
  LET bridge == IF c.hostNetwork /\ c.bridge # NoAddr THEN <<c.bridge>> ELSE <<>>
      gateways == IF published = NoPort THEN <<>> ELSE At(Gateways(c), published) IN
  SelectSeq(At(bridge \o ContainerIPs(c), internal) \o gateways, LAMBDA a : a \in c.open)

resolveByProbing(c, internal, published, noauto) ==
  IF ~c.autodetect \/ noauto THEN <<>> ELSE tryConnectContainer(c, internal, published)

hasExplicitPortLabel(c) == c.legacy.port # NoPort \/ DOMAIN c.labels # {}

resolvePublished(c, internal, published) ==
  CASE c.hostname = NoAddr -> <<>>
    [] c.hostname # NoAddr /\ published # NoPort -> At(<<c.hostname>>, published)
    [] OTHER -> IF c.hostNetwork \/ hasExplicitPortLabel(c) THEN At(<<c.hostname>>, internal)
                ELSE <<>>

\* Mutant of resolveViaGateway: the container's own port, on the gateway.
ResolveViaGatewayInternal(c, internal, published) ==
  IF c.hostNetwork THEN <<>> ELSE At(Gateways(c), internal)

resolveViaGateway(c, internal, published) ==
  IF c.hostNetwork \/ published = NoPort THEN <<>> ELSE At(Gateways(c), published)

resolveContainerIP(c, internal) == IF c.hostNetwork THEN <<>> ELSE At(ContainerIPs(c), internal)

\* The set of the one target of a port, {} if it has none.
DockerTarget(c, ports, cfg) ==
  LET first == cfg.targets[1]
      internal == first.port
      published == IF internal \in DOMAIN ports THEN ports[internal] ELSE NoPort
      found == resolveSelfHost(c, internal)
               \o resolveByProbing(c, internal, published, cfg.noauto)
               \o resolvePublished(c, internal, published)
               \o resolveViaGateway(c, internal, published)
               \o resolveContainerIP(c, internal) IN
  IF found = <<>> THEN {}
  ELSE {[scheme |-> first.scheme, host |-> found[1].host, port |-> found[1].port]}

-----------------------------------------------------------------------------
(* Docker: newProxyConfig.                                                 *)

DockerGates(c) == [tls |-> c.gates.tls, funnel |-> c.gates.funnel, auto |-> TRUE]

\* getInternalPortLegacy: the label, or else the lowest port.
getInternalPortLegacy(c, ports) ==
  IF c.legacy.port # NoPort THEN c.legacy.port
  ELSE IF DOMAIN ports = {} THEN NotNumber
  ELSE CHOOSE n \in DOMAIN ports : \A o \in DOMAIN ports : n <= o

getLegacyPort(c, ports) ==
  LET label == [form |-> "pair", proxy |-> [from |-> LegacyPort, to |-> NoEnd, proto |-> "https"],
                target |-> [from |-> getInternalPortLegacy(c, ports), to |-> NoEnd,
                            proto |-> c.legacy.scheme]]
      Gated(cfg) == [cfg EXCEPT !.tls = c.legacy.tls \/ ~c.gates.tls,
                                !.funnel = c.legacy.funnel /\ c.gates.funnel] IN
  UNION {{ReplaceTarget(Gated(cfg), cfg.targets[1], t) : t \in DockerTarget(c, ports, cfg)} :
         cfg \in NewPortLongLabel(label)}

\* The legacy labels count only if no port came of the others.
DockerPorts(c, ports) ==
  LET parsed == LabelPorts(c.labels, DockerGates(c))
      labelled == Resolved(parsed, [p \in parsed |-> DockerTarget(c, ports, p.cfg)]) IN
  IF labelled # {} THEN labelled
  ELSE {[key |-> "legacy", n |-> 0, cfg |-> cfg] : cfg \in getLegacyPort(c, ports)}

DockerConfig ==
  /\ ~tpDone /\ tpTarget.kind = "docker"
  /\ \E ports \in setContainerPorts(tpTarget) : tpPorts' = DockerPorts(tpTarget, ports)
  /\ tpDone' = TRUE /\ UNCHANGED tpTarget

-----------------------------------------------------------------------------
(* Incus instances and Proxmox guests.                                     *)

\* setInstanceNetwork, setInterfaces: the global addresses, IPv4 first, those
\* of eth0 before the others; the interfaces come in the order of their names.
GuestIPs(g) ==
  LET IsEth0(a) == a.nic = "eth0"
      NotEth0(a) == ~IsEth0(a)
      byNic == SelectSeq(g.addrs, IsEth0) \o SelectSeq(g.addrs, NotEth0) IN
  SelectSeq(byNic, LAMBDA a : a.nic # "lo" /\ a.global /\ a.v = 4)
  \o SelectSeq(byNic, LAMBDA a : a.nic # "lo" /\ a.global /\ a.v = 6)

\* The operator's targetHostname or else the first address, as a set.
GuestHost(g) ==
  CASE g.hostname # NoAddr -> {g.hostname}
    [] GuestIPs(g) # <<>> -> {GuestIPs(g)[1].addr}
    [] OTHER -> {}

\* getTargetURL
GuestTarget(g, cfg) == {[cfg.targets[1] EXCEPT !.host = h] : h \in GuestHost(g)}

GuestGates(g) == [tls |-> g.gates.tls, funnel |-> g.gates.funnel, auto |-> FALSE]

\* newPortFromLabel
newPortFromLabel(label) ==
  IF label.form = "short" THEN NewPortShortLabel(label) ELSE NewPortLongLabel(label)

\* labelPlaceholder: a port of a label has at most one target as yet.
labelPlaceholder(cfg) == \E i \in DOMAIN cfg.targets : cfg.targets[i].host = "0.0.0.0"

\* addExplicitTargets: the first valid target takes the placeholder's place.
addExplicitTargets(cfg, targets) ==
  LET valid == SelectSeq(targets, LAMBDA t : t.scheme # "" /\ t.host # "") IN
  CASE valid = <<>> -> {}
    [] valid # <<>> /\ labelPlaceholder(cfg) -> {[cfg EXCEPT !.targets = valid]}
    [] OTHER -> {[cfg EXCEPT !.targets = @ \o valid]}

\* addGeneratedTarget: in the placeholder's place, or on the proxy's port.
addGeneratedTarget(g, cfg) ==
  {IF labelPlaceholder(cfg)
   THEN ReplaceTarget(cfg, cfg.targets[1], [cfg.targets[1] EXCEPT !.host = h])
   ELSE [cfg EXCEPT !.targets = Append(@, [scheme |-> defaultTargetProtocol(cfg.proto), host |-> h,
                                           port |-> cfg.port])] :
   h \in GuestHost(g)}

\* applyListPort, with gateTLSValidate and gateFunnel.
applyListPort(g, cfg, entry) ==
  LET gated == [cfg EXCEPT !.redirect = entry.redirect,
                           !.tls = entry.tls \/ ~g.gates.tls,
                           !.funnel = entry.funnel /\ g.gates.funnel] IN
  CASE entry.targets # <<>> -> addExplicitTargets(gated, entry.targets)
    [] entry.targets = <<>> /\ entry.redirect -> {}
    [] OTHER -> addGeneratedTarget(g, gated)

\* processListPort, processListPortRange
processListPort(g, key, entry) ==
  LET parsed == IF IsPortRangeShortLabel(entry.label) THEN ExpandPortRangeShortLabel(entry.label)
                ELSE {[n |-> 0, cfg |-> c] : c \in newPortFromLabel(entry.label)} IN
  UNION {{[key |-> key, n |-> e.n, cfg |-> c] : c \in applyListPort(g, e.cfg, entry)} : e \in parsed}

\* getPorts: an Incus instance has no entries of the list's kind.
GuestPorts(g) ==
  LET parsed == LabelPorts(g.labels, GuestGates(g)) IN
  Resolved(parsed, [p \in parsed |-> GuestTarget(g, p.cfg)])
  \cup UNION {processListPort(g, k, g.entries[k]) : k \in DOMAIN g.entries}

GuestConfig ==
  /\ ~tpDone /\ tpTarget.kind = "guest"
  /\ tpPorts' = GuestPorts(tpTarget) /\ tpDone' = TRUE /\ UNCHANGED tpTarget

-----------------------------------------------------------------------------
(* The list provider: short labels and explicit targets, without gates.    *)

\* parseAndAddTargets and the two callers of it.
ListPort(key, entry) ==
  LET valid == SelectSeq(entry.targets, LAMBDA t : t.scheme # "" /\ t.host # "")
      parsed == IF IsPortRangeShortLabel(entry.label) THEN ExpandPortRangeShortLabel(entry.label)
                ELSE {[n |-> 0, cfg |-> c] : c \in NewPortShortLabel(entry.label)} IN
  IF valid = <<>> THEN {}
  ELSE {[key |-> key, n |-> e.n,
         cfg |-> [e.cfg EXCEPT !.redirect = entry.redirect, !.targets = valid,
                               !.tls = entry.tls, !.funnel = entry.funnel]] : e \in parsed}

ListConfig ==
  /\ ~tpDone /\ tpTarget.kind = "list"
  /\ tpPorts' = UNION {ListPort(k, tpTarget.entries[k]) : k \in DOMAIN tpTarget.entries}
  /\ tpDone' = TRUE /\ UNCHANGED tpTarget

TPNext == DockerConfig \/ GuestConfig \/ ListConfig
TPSpec == TPInit /\ [][TPNext]_tpvars

-----------------------------------------------------------------------------
(* What a label says, by the pairs of ports it relates.                    *)

Span(seg) == IF seg.to = NoEnd THEN {seg.from} ELSE seg.from..seg.to

Sane(seg) ==
  /\ NotNumber \notin {seg.from, seg.to}
  /\ Span(seg) # {} /\ Span(seg) \subseteq 1..PortMax /\ Cardinality(Span(seg)) <= RangeMax

Single(seg) == Cardinality(Span(seg)) = 1

WantedPairs(label) ==
  LET p == label.proxy
      t == label.target IN
  IF /\ label.form = "pair" /\ Sane(p) /\ Sane(t)
     /\ Single(p) \/ Single(t) \/ Cardinality(Span(p)) = Cardinality(Span(t))
     /\ p.proto # "bad" \/ isPortRange(p) \/ isPortRange(t)
  THEN {w \in Span(p) \X Span(t) : Single(p) \/ Single(t) \/ w[1] - p.from = w[2] - t.from}
  ELSE {}

\* A protocol is UDP or goes over TCP.
Transport(t) == IF t.scheme = "udp" THEN "udp" ELSE "tcp"

\* The numbers under which port n of container c is published in a protocol.
PublishedAs(c, n, proto) == {b.pub : b \in {b \in Published(c) : b.port = n /\ b.proto = proto}}

OnHost(c, t) == t.host \in {c.bridge, c.hostname} \cup {c.nets[i].gw : i \in DOMAIN c.nets}

\* The ports a port of the proxy stands for, and whether the user named them.
Stated(e) == e.key # "legacy" \/ tpTarget.legacy.port # NoPort
Named(e) ==
  CASE e.key # "legacy" -> {w[2] : w \in {w \in WantedPairs(tpTarget.labels[e.key]) : w[1] = e.cfg.port}}
    [] e.key = "legacy" /\ Stated(e) -> {tpTarget.legacy.port}
    [] OTHER -> {b.port : b \in Published(tpTarget)}

\* The address leads to port n of container c, in the protocol of the target: as
\* the container itself, by its own address, or by the Docker host, on whose
\* network the container is or which publishes the port.
Leads(c, t, n) ==
  \/ c.self /\ t.host = "127.0.0.1" /\ t.port = n
  \/ (\E i \in DOMAIN c.nets : c.nets[i].ip = t.host) /\ t.port = n
  \/ OnHost(c, t) /\ (IF c.hostNetwork THEN t.port = n ELSE t.port \in PublishedAs(c, n, Transport(t)))

\* Port n is not published, but a label of the user's names it, which counts as
\* the statement that the operator's host has it ("they are stating the port is
\* reachable at defaultTargetHostname", container.go).
ByStatement(c, t, n) ==
  t.host = c.hostname /\ t.port = n /\ \A b \in Published(c) : b.port # n

\* The number of the other protocol, where that is published.
ByOtherProtocol(c, t, n) ==
  OnHost(c, t) /\ \E proto \in {"tcp", "udp"} \ {Transport(t)} : t.port \in PublishedAs(c, n, proto)

\* A container's port leads to the port of that container that its label names,
\* whichever way it was found and whatever answered the probes.  Only a port
\* that is not published and that its own label names is looked for under its
\* own number on the operator's host; a port inferred from what is published
\* never is ("would silently route to whatever happens to listen on that port",
\* container.go).  Excluded: setContainerPorts does not tell the protocols of one
\* number apart, and a port may get the number published for the other one.
OwnContainer ==
  tpTarget.kind = "docker" =>
    \A e \in tpPorts : e.cfg.redirect \/
      \E n \in Named(e) :
        \/ Leads(tpTarget, e.cfg.targets[1], n)
        \/ Stated(e) /\ ByStatement(tpTarget, e.cfg.targets[1], n)
        \/ ByOtherProtocol(tpTarget, e.cfg.targets[1], n)

\* A guest that has an address gets every pair of ports its labels relate, no
\* other, and each on an address of its own or the operator's.
OwnGuest ==
  tpTarget.kind = "guest" =>
    \A k \in DOMAIN tpTarget.labels : tpTarget.labels[k].form # "pair" \/
      LET of == {e \in tpPorts : e.key = k} IN
      /\ {<<e.cfg.port, e.cfg.targets[1].port>> : e \in of} =
           IF GuestHost(tpTarget) = {} THEN {} ELSE WantedPairs(tpTarget.labels[k])
      /\ Cardinality(of) = Cardinality({<<e.cfg.port, e.cfg.targets[1].port>> : e \in of})
      /\ \A e \in of :
           \/ e.cfg.targets[1].host = tpTarget.hostname
           \/ \E i \in DOMAIN tpTarget.addrs :
                /\ tpTarget.addrs[i].addr = e.cfg.targets[1].host
                /\ tpTarget.addrs[i].global /\ tpTarget.addrs[i].nic # "lo"

\* "operators gate the dangerous ones" (port.go): no label, option, legacy label
\* or entry of the notes opens a port to the internet or leaves a certificate
\* unchecked that the operator does not allow to.
GatesKept ==
  tpTarget.kind # "list" =>
    \A e \in tpPorts :
      (e.cfg.funnel => tpTarget.gates.funnel) /\ (~e.cfg.tls => tpTarget.gates.tls)

\* Every port of a proxy has a target, and the address that stands for the
\* target's own never reaches the proxy, where it would be the proxy's host.
NoPlaceholder ==
  \A e \in tpPorts :
    /\ e.cfg.targets # <<>> /\ e.cfg.port \in 1..PortMax
    /\ \A i \in DOMAIN e.cfg.targets : e.cfg.targets[i].host # "0.0.0.0"

\* The ports of a proxy are those its target names, lead to that target and
\* have no more rights than the operator gives.
PortsSafe == tpDone => OwnContainer /\ OwnGuest /\ GatesKept /\ NoPlaceholder
=============================================================================
