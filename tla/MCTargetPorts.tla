---------------------------- MODULE MCTargetPorts ----------------------------
(***************************************************************************)
(* The targets on which TLC checks TargetPorts: four ports, ranges of at   *)
(* most three, and every way to write them wrong.                          *)
(***************************************************************************)
EXTENDS TargetPorts

\* Segments with every kind of number and range, and the labels made of them.
Seg(from, to, proto) == [from |-> from, to |-> to, proto |-> proto]
Segs == [from : {NotNumber, 0, 1, 2, 5}, to : {NoEnd, NotNumber, 1, 2, 4, 5}, proto : {"", "udp", "bad"}]
Url(scheme) == [scheme |-> scheme, host |-> "www", port |-> 443]
PortLabel(form, p, t, url, opts) ==
  [form |-> form, proxy |-> p, target |-> t, url |-> url, opts |-> opts]
Pair(p, t) == PortLabel("pair", p, t, Url(""), {})
OnePort == Seg(1, NoEnd, "")

\* A guest without ports, and one with each label, each option and each entry.
Guest(addrs, hostname, labels, entries, gates) ==
  [kind |-> "guest", addrs |-> addrs, hostname |-> hostname, labels |-> labels,
   entries |-> entries, gates |-> gates]
Addr(nic, v, global, addr) == [nic |-> nic, v |-> v, global |-> global, addr |-> addr]
GuestAddrs == {<<>>, <<Addr("a", 4, TRUE, "g1"), Addr("eth0", 6, TRUE, "g2"), Addr("lo", 4, FALSE, "g3")>>,
          <<Addr("eth0", 4, FALSE, "g4"), Addr("eth0", 6, TRUE, "g5")>>, <<Addr("lo", 4, TRUE, "g6")>>}
Gates == [tls : BOOLEAN, funnel : BOOLEAN]
Shut == [tls |-> FALSE, funnel |-> FALSE]
AllOpts == {"no_tlsvalidate", "tailscale_funnel", "no_autodetect"}
Entry(label, targets, redirect, tls, funnel) ==
  [label |-> label, targets |-> targets, redirect |-> redirect, tls |-> tls, funnel |-> funnel]
Entries ==
  {Entry(PortLabel(form, p, OnePort, Url("https"), {}), ts, r, v, f) :
     form \in {"short", "pair", "redirect"}, p \in {s \in Segs : s.from # 5 /\ s.proto # "bad"},
     ts \in {<<>>, <<Url("")>>, <<Url("http"), Url("")>>}, r \in BOOLEAN, v \in BOOLEAN, f \in BOOLEAN}
MCGuests ==
  {Guest(as, h, [p |-> PortLabel(form, OnePort, Seg(2, to, ""), Url(sch), o)], <<>>, g) :
     as \in GuestAddrs, h \in {NoAddr, "op"}, form \in {"pair", "redirect"}, to \in {NoEnd, 4},
     sch \in {"https", "ftp"}, o \in SUBSET AllOpts, g \in Gates}
MCLabels ==
  {Guest(<<Addr("eth0", 4, TRUE, "g1")>>, NoAddr, [p |-> Pair(p, t)], <<>>, Shut) :
     p \in Segs, t \in {s \in Segs : s.proto # "bad"}}
MCNotes ==
  {Guest(<<Addr("eth0", 4, TRUE, "g1")>>, NoAddr, <<>>, [p |-> e], g) :
     e \in Entries, g \in {Shut, [tls |-> TRUE, funnel |-> TRUE]}}
MCLists == {[kind |-> "list", entries |-> [p |-> e]] : e \in Entries}

\* Containers on up to two networks, with published ports of two protocols on one
\* number.
Nets == {<<>>, <<[ip |-> "i1", gw |-> "w1"]>>,
         <<[ip |-> "i1", gw |-> NoAddr], [ip |-> NoAddr, gw |-> "w2"]>>,
         <<[ip |-> "i1", gw |-> "w1"], [ip |-> "i2", gw |-> "w2"]>>}
Bind(port, proto, pub) == [port |-> port, proto |-> proto, pub |-> pub]
Legacy(port, tls, funnel) == [port |-> port, scheme |-> "http", tls |-> tls, funnel |-> funnel]
Container(net, binds, service, nets, bridge, self, hostname, auto, open, labels, legacy, gates) ==
  [kind |-> "docker", hostNetwork |-> net, binds |-> binds, service |-> service, nets |-> nets,
   bridge |-> bridge, self |-> self, hostname |-> hostname, autodetect |-> auto, open |-> open,
   labels |-> labels, legacy |-> legacy, gates |-> gates]
Answers(hosts, ports) == {[host |-> h, port |-> n] : h \in hosts, n \in ports}
Opens == {{}, Answers({"i2", "w2"}, 1..4), Answers({"w1"}, {3, 4})}
DockerLabels == {<<>>, [p |-> Pair(OnePort, Seg(2, NoEnd, ""))],
                 [p |-> Pair(Seg(2, NoEnd, "udp"), Seg(1, NoEnd, ""))],
                 [p |-> Pair(Seg(1, 2, ""), Seg(1, 2, "")), q |-> Pair(Seg(1, 2, ""), OnePort)]}
MCContainers ==
  {Container(net, b, s, n, IF n = <<>> THEN "w2" ELSE br, self, h, o # {}, o, l, Legacy(p, TRUE, FALSE), Shut) :
     net \in BOOLEAN, b \in {{}, {Bind(1, "tcp", 3)}, {Bind(1, "tcp", 3), Bind(1, "udp", 4), Bind(2, "tcp", 1)}},
     s \in {{}, {Bind(1, "udp", 2), Bind(2, "udp", 4)}}, n \in Nets, br \in {NoAddr, "w2"}, self \in BOOLEAN,
     h \in {NoAddr, "h"}, o \in Opens, l \in DockerLabels, p \in {NoPort, 2}}
MCOptions ==
  {Container(FALSE, {Bind(1, "tcp", 3)}, {}, <<[ip |-> "i1", gw |-> "w1"]>>, NoAddr, FALSE, NoAddr, TRUE,
             Answers({"i1"}, {1, 2}), [p |-> [Pair(OnePort, t) EXCEPT !.opts = o]],
             Legacy(NoPort, v, f), g) :
     t \in {OnePort, Seg(0, NoEnd, "")}, o \in SUBSET AllOpts, v \in BOOLEAN, f \in BOOLEAN, g \in Gates}
MCTargets == <<MCGuests, MCLabels, MCNotes, MCLists, MCContainers, MCOptions>>
=============================================================================
