------------------------------ MODULE PortLabels ------------------------------
(***************************************************************************)
(* The port labels of model/port.go.  A label is a record: its form, the   *)
(* segments of its proxy and target ports, a redirect's URL and the set of *)
(* its options.  A segment has a number or NotNumber, the end of a range   *)
(* or NoEnd, and a protocol or "".  A parser returns a set: {} stands for  *)
(* an error.                                                               *)
(***************************************************************************)
EXTENDS Integers, Sequences, FiniteSets

CONSTANTS PortMax, RangeMax   \* maxPort, maxRangeLen

ASSUME PortsAssumption == PortMax \in Nat \ {0} /\ RangeMax \in Nat \ {0}

NotNumber == -1
NoEnd == -2

PortConfig(proto, port, targets) ==
  [proto |-> proto, port |-> port, targets |-> targets, tls |-> TRUE, noauto |-> FALSE,
   redirect |-> FALSE, funnel |-> FALSE]

Placeholder(scheme, port) == [scheme |-> scheme, host |-> "0.0.0.0", port |-> port]

\* What is not in a label has its default.
DefaultProxyProtocol(seg) == IF seg.proto = "" THEN "https" ELSE seg.proto

defaultTargetProtocol(proto) == IF proto \in {"tcp", "udp"} THEN proto ELSE "http"

TargetProtocol(label) ==
  IF label.target.proto = "" THEN defaultTargetProtocol(DefaultProxyProtocol(label.proxy))
  ELSE label.target.proto

validatePortRange(n) == n \in 1..PortMax

isPortRange(seg) == seg.from # NotNumber /\ seg.to \notin {NotNumber, NoEnd}

\* The ports of a segment in order, <<>> if it is refused.
parsePortRange(seg) ==
  IF /\ validatePortRange(seg.from) /\ validatePortRange(seg.to)
     /\ seg.from <= seg.to /\ seg.to - seg.from + 1 <= RangeMax
  THEN [i \in 1..(seg.to - seg.from + 1) |-> seg.from + i - 1]
  ELSE <<>>

parsePortList(seg) ==
  CASE isPortRange(seg) -> parsePortRange(seg)
    [] seg.to = NoEnd /\ validatePortRange(seg.from) -> <<seg.from>>
    [] OTHER -> <<>>

-----------------------------------------------------------------------------
(* Labels of one port.                                                     *)

\* parseProxySegment
ValidProxySegment(seg) ==
  /\ seg.to = NoEnd /\ validatePortRange(seg.from)
  /\ DefaultProxyProtocol(seg) \in {"https", "http", "tcp", "udp"}

\* parseTargetSegment: the protocol may be any.
ValidTargetSegment(seg) == seg.to = NoEnd /\ validatePortRange(seg.from)

\* parseRedirectTarget
ValidRedirect(url) == url.scheme \in {"http", "https"} /\ url.host # ""

NewPortShortLabel(label) ==
  {PortConfig(DefaultProxyProtocol(s), s.from, <<>>) :
     s \in {s \in {label.proxy} : label.form = "short" /\ ValidProxySegment(s)}}

NewPortLongLabel(label) ==
  LET Config(t) == PortConfig(DefaultProxyProtocol(label.proxy), label.proxy.from, <<t>>) IN
  IF ~ValidProxySegment(label.proxy) THEN {}
  ELSE CASE label.form = "pair" /\ ValidTargetSegment(label.target) ->
              {Config(Placeholder(TargetProtocol(label), label.target.from))}
         [] label.form = "redirect" /\ ValidRedirect(label.url) ->
              {[Config(label.url) EXCEPT !.redirect = TRUE]}
         [] OTHER -> {}

-----------------------------------------------------------------------------
(* Labels with a range: their configurations with the numbers of their     *)
(* keys.  The protocol of a range is not looked at.                        *)

IsPortRangeLabel(label) ==
  \/ label.form \in {"pair", "redirect"} /\ isPortRange(label.proxy)
  \/ label.form = "pair" /\ isPortRange(label.target)

\* expandPortConfigs: a single port goes with every port of the other range.
expandPortConfigs(proxies, targets, proto, scheme) ==
  LET count == IF Len(proxies) > Len(targets) THEN Len(proxies) ELSE Len(targets)
      Nth(ports, i) == IF Len(ports) > 1 THEN ports[i] ELSE ports[1] IN
  IF Len(proxies) > 1 /\ Len(targets) > 1 /\ Len(proxies) # Len(targets) THEN {}
  ELSE {[n |-> i, cfg |-> PortConfig(proto, Nth(proxies, i),
                                     <<Placeholder(scheme, Nth(targets, i))>>)] : i \in 1..count}

ExpandPortRangeLabel(label) ==
  LET proxies == parsePortList(label.proxy)
      targets == parsePortList(label.target) IN
  IF label.form = "redirect" \/ proxies = <<>> \/ targets = <<>> THEN {}
  ELSE expandPortConfigs(proxies, targets, DefaultProxyProtocol(label.proxy), TargetProtocol(label))

\* The part before the first slash, which with a protocol is the proxy's port
\* whatever follows it.
IsPortRangeShortLabel(label) ==
  isPortRange(label.proxy) /\ (label.form = "short" \/ label.proxy.proto # "")

\* The rest of a label that is not short is taken for its protocol.
ExpandPortRangeShortLabel(label) ==
  LET ports == parsePortList(label.proxy)
      proto == IF label.form = "short" THEN DefaultProxyProtocol(label.proxy) ELSE "junk" IN
  {[n |-> i, cfg |-> PortConfig(proto, ports[i], <<>>)] : i \in 1..Len(ports)}

-----------------------------------------------------------------------------
\* Options that the operator or the provider does not allow are ignored.
ApplyPortOptions(cfg, options, gates) ==
  [cfg EXCEPT !.tls = @ /\ ~("no_tlsvalidate" \in options /\ gates.tls),
              !.funnel = @ \/ ("tailscale_funnel" \in options /\ gates.funnel),
              !.noauto = @ \/ ("no_autodetect" \in options /\ gates.auto)]

ReplaceTarget(cfg, old, new) ==
  [cfg EXCEPT !.targets = [i \in DOMAIN @ |-> IF @[i] = old THEN new ELSE @[i]]]

\* Ports: of every label its ports with their keys and options.
LabelPorts(labels, gates) ==
  LET Parsed(label) ==
        IF IsPortRangeLabel(label) THEN ExpandPortRangeLabel(label)
        ELSE {[n |-> 0, cfg |-> c] : c \in NewPortLongLabel(label)} IN
  UNION {{[key |-> k, n |-> e.n, cfg |-> ApplyPortOptions(e.cfg, labels[k].opts, gates)] :
            e \in Parsed(labels[k])} : k \in DOMAIN labels}

\* Ports: the ports that are no redirects get the targets the provider resolves
\* for them; targets[p] is the set of the one target of p, {} when there is none.
Resolved(ports, targets) ==
  {p \in ports : p.cfg.redirect}
  \cup UNION {{[p EXCEPT !.cfg = ReplaceTarget(@, @.targets[1], t)] : t \in targets[p]} :
              p \in {q \in ports : ~q.cfg.redirect}}
=============================================================================
