----------------------------- MODULE RequestPath -----------------------------
(***************************************************************************)
(* The way of one request through an HTTP port, to a backend or to         *)
(* TSDProxy's own management server (the self-proxy case), and the         *)
(* admission there:                                                        *)
(*   WhoisMiddleware -> proxyRewrite -> StripProxyIdentityHeaders ->       *)
(*   AdminMiddleware or ViewerMiddleware,                                  *)
(* in proxymanager/port_http.go, ratelimit.go, proxyproviders/tailscale/   *)
(* whois.go, services_server.go and core/admin.go.  A header is one value; *)
(* the four identity headers are one, and so are the headers that carry    *)
(* the user's name (Remote-User, X-Forwarded-User, ...).                   *)
(***************************************************************************)
EXTENDS Integers, Sequences, FiniteSets

CONSTANTS Peers,      \* addresses in the tailnet
          Users,      \* their users; a tagged node has none
          PeerOwner,  \* the user of each peer, or Nobody
          Claimed     \* users a client may claim to be

Nobody   == "nobody"
Loopback == "127.0.0.1"
Lan      == "192.168.0.9"
Internet == "8.8.8.8"
Secret   == "secret"     \* ProxyAuth.token
Absent   == "absent"
APIKey   == "key"
LocalhostUserID == "localhost"

\* A user's ID is not empty, and is not the one that stands for localhost.
ASSUME PAssumption == /\ PeerOwner \in [Peers -> Users \cup {Nobody}]
                      /\ Users \cap {Absent, LocalhostUserID} = {}

Addrs == Peers \cup {Loopback, Lan, Internet}

\* X-Forwarded-For as the client or the VIP proxy has sent it: the values of
\* its headers; "list" is a value with a comma.
XFFs == {<<>>, <<"list">>, <<Loopback>>, <<"junk", Internet>>} \cup {<<p>> : p \in Peers}

Target(h, n, d) == [host |-> h, port |-> n, path |-> d]
Targets == {Target(Loopback, "management", "/"), Target("localhost", "management", ""),
            Target(Loopback, "management", "/app"), Target(Loopback, "other", ""),
            Target("127.0.0.2", "management", "/"), Target("backend", "management", "")}

Requests == [remote : Addrs, xff : XFFs,
             ids : {Absent} \cup Claimed,    \* identity headers the client sent
             token : {Absent, "guess"},
             bearer : {Absent, APIKey}]

VARIABLES
  pConf,   \* the port and the configuration, fixed
  pStage,
  pReq,    \* the request as it is now
  pWho,    \* the identity in its context
  pFrom,   \* history: the request as the port has received it
  pOut     \* what the management server has decided

pvars == <<pConf, pStage, pReq, pWho, pFrom, pOut>>

Configs == [node : {"own", "services"}, target : Targets, identity : BOOLEAN,
            admins : {{}} \cup {{u} : u \in Users},
            local : BOOLEAN, key : {Absent, APIKey}]

NoOut == [admin |-> FALSE, viewer |-> FALSE, page |-> FALSE]

-----------------------------------------------------------------------------
IsLocalhost(addr) == addr = Loopback
IsTrustedSource(addr) == addr \in Peers \cup {Loopback, Lan}   \* CGNAT, private

\* Mutant of resolvePeerIP: the header is believed from anyone.
ResolvePeerIPTrusting(remote, xff) ==
  IF Len(xff) = 1 /\ xff[1] \in Addrs THEN xff[1] ELSE remote

\* The address of the peer: the connection's, or, on the VIP proxy's hop over
\* loopback, that of the one X-Forwarded-For value (resolvePeerIP, and
\* trustedPeerIP word for word); Absent for "".
resolvePeerIP(remote, xff) ==
  IF ~IsLocalhost(remote) THEN remote
  ELSE IF Len(xff) = 1 /\ xff[1] \in Addrs \ {Loopback} THEN xff[1] ELSE Absent

\* whoisFromAddr: peers that are not tagged.
whoisFromAddr(addr) == IF addr \in Peers THEN PeerOwner[addr] ELSE Nobody

\* Proxy.Whois and SharedServer.Whois ask for the connection's address,
\* ServicesServer.Whois for trustedPeerIP.
Whois(node, req) ==
  whoisFromAddr(IF node = "services" THEN resolvePeerIP(req.remote, req.xff) ELSE req.remote)

isManagementTarget(t) ==
  t.host \in {"localhost", Loopback} /\ t.port = "management" /\ t.path \in {"", "/"}

PInit ==
  /\ pConf \in Configs /\ pStage = "idle" /\ pWho = Nobody /\ pOut = NoOut
  /\ pReq \in Requests /\ pFrom = pReq

\* A request reaches the port and its context gets the identity
\* (ProviderUserMiddleware; Nobody is the empty ID).
PWhois ==
  /\ pStage = "idle"
  /\ pStage' = "whois" /\ pWho' = Whois(pConf.node, pReq)
  /\ UNCHANGED <<pConf, pReq, pFrom, pOut>>

\* proxyRewrite: every trusted header is removed; then the identity, the token
\* for the management server alone, and the client's address are set.  The
\* new connection comes from this host.
proxyRewrite(conf, req, who) ==
  LET peer == resolvePeerIP(req.remote, req.xff)
      known == conf.identity /\ who # Nobody
  IN [remote |-> Loopback, bearer |-> req.bearer,
      ids    |-> IF known THEN who ELSE Absent,
      token  |-> IF known /\ isManagementTarget(conf.target) THEN Secret ELSE Absent,
      xff    |-> <<IF peer # Absent THEN peer ELSE req.remote>>]

PForward ==
  /\ pStage = "whois"
  /\ pStage' = IF isManagementTarget(pConf.target) THEN "management" ELSE "backend"
  /\ pReq' = proxyRewrite(pConf, pReq, pWho)
  /\ pWho' = Nobody          \* another process, or another request here
  /\ UNCHANGED <<pConf, pFrom, pOut>>

\* Or a client speaks to the management server itself.
PDirect ==
  /\ pStage = "idle" /\ pStage' = "direct"
  /\ UNCHANGED <<pConf, pReq, pWho, pFrom, pOut>>

-----------------------------------------------------------------------------
validToken(req) == IsLocalhost(req.remote) /\ req.token = Secret

\* StripProxyIdentityHeaders: a valid token promotes the headers to the
\* context; they and the token are removed in any case.
PStrip ==
  /\ pStage \in {"management", "direct"}
  /\ pWho' = IF validToken(pReq) /\ pReq.ids # Absent THEN pReq.ids ELSE Nobody
  /\ pReq' = [pReq EXCEPT !.token = Absent, !.ids = Absent]
  /\ pStage' = IF pStage = "direct" THEN "admitDirect" ELSE "admit"
  /\ UNCHANGED <<pConf, pFrom, pOut>>

ValidAPIKey(conf, req) == conf.key # Absent /\ req.bearer = conf.key

\* AdminMiddleware: a known user is never taken for localhost.
AdminMiddleware(conf, req, who) ==
  \/ ValidAPIKey(conf, req)
  \/ who # Nobody /\ (conf.admins = {} \/ who \in conf.admins)
  \/ who = Nobody /\ IsTrustedSource(req.remote) /\ conf.local

ViewerMiddleware(conf, req, who) ==
  \/ ValidAPIKey(conf, req)
  \/ who # Nobody
  \/ IsTrustedSource(req.remote) /\ conf.local

\* localhostUserID stands for a client without an identity in a trusted network.
UserIDIsAdmin(conf, who) ==
  \/ conf.admins = {}
  \/ IF who = LocalhostUserID THEN conf.local ELSE who \in conf.admins

\* IsAdmin, which decides what a page offers.
IsAdmin(conf, req, who) ==
  IF ValidAPIKey(conf, req) THEN TRUE
  ELSE IF who # Nobody THEN UserIDIsAdmin(conf, who)
  ELSE IsTrustedSource(req.remote) /\ conf.local

PAdmit ==
  /\ pStage \in {"admit", "admitDirect"}
  /\ pStage' = IF pStage = "admit" THEN "decided" ELSE "decidedDirect"
  /\ pOut' = [admin  |-> AdminMiddleware(pConf, pReq, pWho),
              viewer |-> ViewerMiddleware(pConf, pReq, pWho),
              page   |-> IsAdmin(pConf, pReq, pWho)]
  /\ UNCHANGED <<pConf, pReq, pWho, pFrom>>

PNext == PWhois \/ PForward \/ PDirect \/ PStrip \/ PAdmit

PSpec == PInit /\ [][PNext]_pvars

-----------------------------------------------------------------------------
\* The user on whose behalf the port has received the request.
Sender == Whois(pConf.node, pFrom)

\* A backend reads the sender's identity or none, whatever headers the client
\* sent; it never reads the token, which only the management server gets.
BackendIdentity ==
  pStage = "backend" =>
    /\ pReq.ids = (IF pConf.identity /\ Sender # Nobody THEN Sender ELSE Absent)
    /\ pReq.token = Absent
    /\ Len(pReq.xff) = 1

\* The client's address that is passed on is the connection's own unless the
\* request came over loopback.
AddressHonest ==
  pStage \in {"backend", "management"} =>
    (~IsLocalhost(pFrom.remote) => pReq.xff = <<pFrom.remote>>)

\* The management server knows the sender of a proxied request, and never
\* learns an identity from a client that speaks to it directly.
ManagementIdentity ==
  /\ pStage \in {"admit", "decided"} =>
       pWho = (IF pConf.identity THEN Sender ELSE Nobody)
  /\ pStage \in {"admitDirect", "decidedDirect"} => pWho = Nobody

\* A page offers an action exactly when the action's own check admits it, and
\* who may act may also look.
AdmissionAgrees ==
  pStage \in {"decided", "decidedDirect"} =>
    /\ pOut.page = pOut.admin
    /\ pOut.admin => pOut.viewer

PTypeOK == pStage \in {"idle", "whois", "backend", "management", "direct", "admit",
                       "admitDirect", "decided", "decidedDirect"}

\* Identity and address survive the way of a request unforged, and the two
\* forms of the admin check agree (port_http.go, core/admin.go).
RequestSafe ==
  PTypeOK /\ BackendIdentity /\ AddressHonest /\ ManagementIdentity /\ AdmissionAgrees
=============================================================================
