----------------------------- MODULE DomainSetup -----------------------------
(***************************************************************************)
(* The custom domain of one proxy (proxymanager/domain.go, providers.go,   *)
(* proxytls.go, dnsproviders, tlsproviders): a goroutine makes the CNAME   *)
(* record and the certificate, a tracker reads the certificate's expiry    *)
(* now and then, handshakes ask for the certificate, and teardownProxy     *)
(* takes all of it down.  Every request to the DNS provider or to the      *)
(* certificate authority may fail, before or after it took effect, and one *)
(* under a canceled context does fail.                                     *)
(***************************************************************************)
EXTENDS Integers

CONSTANT DomRetries   \* dnsValidationRetries

ASSUME DomAssumption == DomRetries \in Nat

VARIABLES
  domNames,    \* the names in the proxy's and in the program's configuration
  domDNS, domTLS,              \* p.dnsProvider, p.tlsProvider
  domCleanup, domMetrics,      \* LifecycleManager.cleanup, pm.metrics # nil
  domAt,       \* where the setup goroutine and teardownProxy are
  domSeen,     \* records of a listing that are not worked on yet
  domTry,      \* attempts of Retry
  domStatus,   \* p.dnsStatus and p.tlsStatus
  domTracked,  \* the StateTrackers of the two lifecycle managers
  domAlive,    \* p.ctx is not canceled
  domNode,     \* "off": no local client, "on": no URL yet, "url"
  domRecs,     \* the contents of the domain's CNAME records
  domCert,     \* the certificate is there
  domExpiry,   \* the tracker's goroutine
  domStop,     \* p.certTrackerStop is closed
  domShake,    \* a handshake: what its GetCertificate does
  domClosed,   \* the ACME provider is closed
  domOops      \* a deletion failed

domSetup == <<domNames, domDNS, domTLS, domCleanup, domMetrics>>
domProxy == <<domStatus, domTracked, domCert, domExpiry, domStop, domClosed>>
domOut == <<domAlive, domNode, domShake>>
domvars == <<domSetup, domAt, domSeen, domTry, domProxy, domOut, domRecs, domOops>>

NoNames == [dns |-> "", defDNS |-> "", tls |-> "", defTLS |-> ""]
BothNone == [dns |-> "none", tls |-> "none"]
Host == "host"   \* the node's name; another content is a record of earlier times

DomInit ==
  /\ domNames \in [dns : {"", "cf", "magic", "other"}, defDNS : {"", "cf", "other"},
                   tls : {"", "tailscale", "ts", "le", "other"}, defTLS : {"", "le"}]
  /\ domDNS = "none" /\ domTLS = "none" /\ domCleanup \in BOOLEAN /\ domMetrics \in BOOLEAN
  /\ domAt = [setup |-> "new", down |-> "no"] /\ domSeen = {} /\ domTry = 0
  /\ domStatus = BothNone /\ domTracked = BothNone /\ domAlive = TRUE /\ domNode = "off"
  /\ domRecs \in {{}, {"old"}} /\ domCert = FALSE /\ domExpiry = "none" /\ domStop = FALSE
  /\ domShake = "none" /\ domClosed = FALSE /\ domOops = FALSE

Goes(who, pc) == domAt' = [domAt EXCEPT ![who] = pc]

-----------------------------------------------------------------------------
\* ValidateProxyConfig
ValidNames(c) == (c.dns # "" \/ c.defDNS # "") /\ (c.tls # "" \/ c.defTLS # "")

\* The proxy's name goes before the default; "cf" and "magic" are configured.
resolveDNSProvider(c) ==
  LET name == IF c.dns # "" THEN c.dns ELSE c.defDNS IN
  CASE name = "cf" -> "cloudflare" [] name = "magic" -> "magicdns" [] OTHER -> "error"

\* "tailscale" needs no configuration, "ts" and "le" are configured; ACME needs
\* a DNS provider that can answer DNS-01 challenges.
resolveTLSProvider(c, dns) ==
  LET name == IF c.tls # "" THEN c.tls ELSE c.defTLS IN
  CASE name \in {"tailscale", "ts"} -> "tailscale"
    [] name = "le" /\ dns = "cloudflare" -> "acme"
    [] OTHER -> "error"

\* configureProxyDomain: the providers are set only if both are there, and
\* without them there is no goroutine.  The names are not read again.
DomConfigure ==
  LET dns == resolveDNSProvider(domNames)
      tls == resolveTLSProvider(domNames, dns)
      ok == ValidNames(domNames) /\ dns # "error" /\ tls # "error" IN
  /\ domAt.setup = "new" /\ Goes("setup", IF ok THEN "local" ELSE "done")
  /\ domDNS' = (IF ok THEN dns ELSE "none") /\ domTLS' = (IF ok THEN tls ELSE "none")
  /\ domNames' = NoNames
  /\ UNCHANGED <<domCleanup, domMetrics, domSeen, domTry, domProxy, domOut, domRecs, domOops>>

\* configureTailscaleTLS wants the local client, which Start makes later.
DomLocalClient ==
  /\ domAt.setup = "local"
  /\ Goes("setup", IF domTLS = "tailscale" /\ domNode = "off" THEN "done" ELSE "url")
  /\ UNCHANGED <<domSetup, domSeen, domTry, domProxy, domOut, domRecs, domOops>>

\* waitForProxyURL, until the node has a URL, 60 seconds are over or the
\* context is canceled; then SetupDNS begins.
DomWaitForURL ==
  /\ domAt.setup = "url"
  /\ \/ /\ domNode = "url"
        /\ Goes("setup", IF domDNS = "magicdns" THEN "validate" ELSE "list")
        /\ domStatus' = [domStatus EXCEPT !.dns = "pending"]
        /\ domTracked' = [domTracked EXCEPT !.dns = "pending"]
     \/ Goes("setup", "done") /\ UNCHANGED <<domStatus, domTracked>>
  /\ domTry' = 0
  /\ UNCHANGED <<domSetup, domSeen, domCert, domExpiry, domStop, domClosed, domOut, domRecs, domOops>>

-----------------------------------------------------------------------------
(* SetupDNS.                                                               *)

DNSFails ==
  /\ Goes("setup", "done")
  /\ domStatus' = [domStatus EXCEPT !.dns = "error"]
  /\ domTracked' = [domTracked EXCEPT !.dns = "error"]

\* CreateRecord: the zone and its records.
DomList ==
  /\ domAt.setup = "list"
  /\ \/ /\ domAlive /\ domSeen' = domRecs
        /\ Goes("setup", "create") /\ UNCHANGED <<domStatus, domTracked>>
     \/ DNSFails /\ domSeen' = {}
  /\ UNCHANGED <<domSetup, domTry, domCert, domExpiry, domStop, domClosed, domOut, domRecs, domOops>>

\* CreateRecord: a record with another content is deleted.
DomDropStale ==
  /\ domAt.setup = "create"
  /\ \E r \in domSeen \ {Host} :
       \/ domAlive /\ domRecs' = domRecs \ {r} /\ domSeen' = domSeen \ {r}
          /\ UNCHANGED <<domAt, domStatus, domTracked>>
       \/ domRecs' \in {domRecs, domRecs \ {r}} /\ DNSFails /\ domSeen' = {}
  /\ UNCHANGED <<domSetup, domTry, domCert, domExpiry, domStop, domClosed, domOut, domOops>>

\* CreateRecord: the record is made, unless the listing had it.
DomCreate ==
  /\ domAt.setup = "create" /\ domSeen \subseteq {Host}
  /\ \/ /\ domAlive \/ Host \in domSeen
        /\ domRecs' = domRecs \cup {Host}
        /\ Goes("setup", "validate") /\ UNCHANGED <<domStatus, domTracked>>
     \/ Host \notin domSeen /\ domRecs' \in {domRecs, domRecs \cup {Host}} /\ DNSFails
  /\ domSeen' = {}
  /\ UNCHANGED <<domSetup, domTry, domCert, domExpiry, domStop, domClosed, domOut, domOops>>

\* An attempt of Retry: ValidateRecord finds the record, or it does not yet.
DomValidate ==
  /\ domAt.setup = "validate"
  /\ \/ /\ domAlive
        /\ domDNS = "cloudflare" => Host \in domRecs
        /\ Goes("setup", "provision")
        /\ domStatus' = [dns |-> "active", tls |-> "pending"]
        /\ domTracked' = [dns |-> "active", tls |-> "pending"]
        /\ UNCHANGED domTry
     \/ /\ domAlive /\ domDNS = "cloudflare" /\ domTry < DomRetries
        /\ domTry' = domTry + 1 /\ Goes("setup", "backoff") /\ UNCHANGED <<domStatus, domTracked>>
     \/ /\ ~domAlive \/ (domDNS = "cloudflare" /\ domTry = DomRetries)
        /\ DNSFails /\ UNCHANGED domTry
  /\ UNCHANGED <<domSetup, domSeen, domCert, domExpiry, domStop, domClosed, domOut, domRecs, domOops>>

DomBackoff ==
  /\ domAt.setup = "backoff"
  /\ \/ Goes("setup", "validate") /\ UNCHANGED <<domStatus, domTracked>>
     \/ ~domAlive /\ DNSFails
  /\ UNCHANGED <<domSetup, domSeen, domTry, domCert, domExpiry, domStop, domClosed, domOut,
                 domRecs, domOops>>

-----------------------------------------------------------------------------
(* The certificate, and the deletion of the record.                        *)

\* Provision, for which ACME may need no request that a canceled context ends;
\* with metrics on, startCertExpiryTracking makes the tracker.  A failure takes
\* the record back, unless the proxy is being torn down.
DomProvision ==
  /\ domAt.setup = "provision"
  /\ \/ /\ domAlive \/ domTLS = "acme"
        /\ domCert' = TRUE /\ Goes("setup", "done")
        /\ domStatus' = [domStatus EXCEPT !.tls = "active"]
        /\ domTracked' = [domTracked EXCEPT !.tls = "active"]
        /\ domExpiry' = (IF domMetrics THEN "idle" ELSE "none")
     \/ /\ domTracked' = [domTracked EXCEPT !.tls = "error"]
        /\ domStatus' = [dns |-> IF domAlive THEN domStatus.dns ELSE "error", tls |-> "error"]
        /\ Goes("setup", IF domAlive THEN "delete" ELSE "done")
        /\ UNCHANGED <<domCert, domExpiry>>
  /\ UNCHANGED <<domSetup, domSeen, domTry, domStop, domClosed, domOut, domRecs, domOops>>

\* What follows CleanupDNS: the rollback of the setup goroutine ends with
\* status Error, cleanupDomainForProxy with both statuses None.
Deleted(who) ==
  IF who = "setup"
  THEN Goes(who, "done") /\ domStatus' = [domStatus EXCEPT !.dns = "error"]
  ELSE Goes(who, "close") /\ domStatus' = BothNone

\* CleanupDNS up to the listing of DeleteRecord.  MagicDNS has nothing to delete.
DomCleanupDNS(who) ==
  /\ domAt[who] = "delete"
  /\ \/ /\ domDNS = "none" \/ ~domCleanup
        /\ Deleted(who) /\ UNCHANGED <<domTracked, domSeen, domOops>>
     \/ /\ domDNS = "magicdns" /\ domCleanup
        /\ Deleted(who) /\ domTracked' = [domTracked EXCEPT !.dns = "none"]
        /\ UNCHANGED <<domSeen, domOops>>
     \/ /\ domDNS = "cloudflare" /\ domCleanup
        /\ \/ domSeen' = domRecs /\ Goes(who, "deleting") /\ UNCHANGED <<domStatus, domOops>>
           \/ Deleted(who) /\ domOops' = TRUE /\ UNCHANGED domSeen
        /\ UNCHANGED domTracked
  /\ UNCHANGED <<domSetup, domTry, domCert, domExpiry, domStop, domClosed, domOut, domRecs>>

\* DeleteRecord: every CNAME record of the domain goes, whatever its content.
DomDeleteRecord(who) ==
  /\ domAt[who] = "deleting"
  /\ \/ /\ domSeen = {} /\ Deleted(who)
        /\ domTracked' = [domTracked EXCEPT !.dns = "none"]
        /\ UNCHANGED <<domSeen, domRecs, domOops>>
     \/ \E r \in domSeen :
          \/ /\ domRecs' = domRecs \ {r} /\ domSeen' = domSeen \ {r}
             /\ UNCHANGED <<domAt, domStatus, domTracked, domOops>>
          \/ /\ domRecs' \in {domRecs, domRecs \ {r}} /\ domSeen' = {} /\ domOops' = TRUE
             /\ Deleted(who) /\ UNCHANGED domTracked
  /\ UNCHANGED <<domSetup, domTry, domCert, domExpiry, domStop, domClosed, domOut>>

-----------------------------------------------------------------------------
(* The goroutine of startCertExpiryTracking.                               *)

DomTick ==
  /\ \/ domExpiry = "idle" /\ domExpiry' = "get"
     \/ domExpiry = "get" /\ domExpiry' = "idle"
  /\ UNCHANGED <<domSetup, domAt, domSeen, domTry, domStatus, domTracked, domCert, domStop,
                 domClosed, domOut, domRecs, domOops>>

DomTrackerEnds ==
  /\ domExpiry = "idle" /\ (~domAlive \/ domStop) /\ domExpiry' = "gone"
  /\ UNCHANGED <<domSetup, domAt, domSeen, domTry, domStatus, domTracked, domCert, domStop,
                 domClosed, domOut, domRecs, domOops>>

-----------------------------------------------------------------------------
(* teardownProxy.                                                          *)

DomTeardown ==
  /\ domAt.down = "no" /\ domAlive' = FALSE /\ Goes("down", "wait")
  /\ UNCHANGED <<domSetup, domSeen, domTry, domProxy, domNode, domShake, domRecs, domOops>>

\* setupWg.Wait, and stopCertTracker up to its wait.
DomSetupDone ==
  /\ domAt.down = "wait" /\ domAt.setup = "done"
  /\ Goes("down", "tracker") /\ domStop' = (domExpiry # "none")
  /\ UNCHANGED <<domSetup, domSeen, domTry, domStatus, domTracked, domCert, domExpiry, domClosed,
                 domOut, domRecs, domOops>>

\* The TLS half of cleanupDomainForProxy: neither provider has anything to do.
CleanupTLS ==
  domTracked' = [domTracked EXCEPT !.tls = IF domTLS # "none" /\ domCleanup THEN "none" ELSE @]

\* Mutant of DomTrackerStopped: the tracker is told to end, not waited for.
DomTrackerNotAwaited ==
  /\ domAt.down = "tracker"
  /\ Goes("down", "delete") /\ CleanupTLS
  /\ UNCHANGED <<domSetup, domSeen, domTry, domStatus, domCert, domExpiry, domStop, domClosed,
                 domOut, domRecs, domOops>>

\* The end of stopCertTracker.
DomTrackerStopped ==
  /\ domAt.down = "tracker" /\ domExpiry \in {"none", "gone"}
  /\ Goes("down", "delete") /\ CleanupTLS
  /\ UNCHANGED <<domSetup, domSeen, domTry, domStatus, domCert, domExpiry, domStop, domClosed,
                 domOut, domRecs, domOops>>

\* Close ends the listeners; closeTLSProvider.
DomClose ==
  /\ domAt.down = "close" /\ domNode' = "off" /\ Goes("down", "closetls")
  /\ UNCHANGED <<domSetup, domSeen, domTry, domProxy, domAlive, domShake, domRecs, domOops>>

DomCloseTLS ==
  /\ domAt.down = "closetls" /\ Goes("down", "done")
  /\ domClosed' = (domTLS = "acme")
  /\ UNCHANGED <<domSetup, domSeen, domTry, domStatus, domTracked, domCert, domExpiry, domStop,
                 domOut, domRecs, domOops>>

-----------------------------------------------------------------------------
\* The node comes up and learns its URL.
DomNodeUp ==
  /\ domAt.down \in {"no", "wait", "tracker"}
  /\ \/ domNode = "off" /\ domNode' = "on"
     \/ domNode = "on" /\ domNode' = "url"
  /\ UNCHANGED <<domSetup, domAt, domSeen, domTry, domProxy, domAlive, domShake, domRecs, domOops>>

\* GetCertificate of getCustomTLSListener: it reads the status, asks the TLS
\* provider, and falls back on the node's own certificate.
DomHandshake ==
  /\ \/ /\ domShake = "none" /\ domNode # "off" /\ domTLS # "none"
        /\ domShake' = (IF domStatus.tls = "active" THEN "custom" ELSE "tailscale")
     \/ domShake = "custom" /\ domShake' \in {"served", "tailscale"}
     \/ domShake \in {"tailscale", "served"} /\ domShake' = "none"
  /\ UNCHANGED <<domSetup, domAt, domSeen, domTry, domProxy, domAlive, domNode, domRecs, domOops>>

DomNext ==
  \/ DomConfigure \/ DomLocalClient \/ DomWaitForURL
  \/ DomList \/ DomDropStale \/ DomCreate \/ DomValidate \/ DomBackoff \/ DomProvision
  \/ \E who \in {"setup", "down"} : DomCleanupDNS(who) \/ DomDeleteRecord(who)
  \/ DomTick \/ DomTrackerEnds
  \/ DomTeardown \/ DomSetupDone \/ DomTrackerStopped \/ DomClose \/ DomCloseTLS
  \/ DomNodeUp \/ DomHandshake
DomSpec == DomInit /\ [][DomNext]_domvars

-----------------------------------------------------------------------------
\* The proxy says Active for its certificate only while the domain leads to the
\* node, by one record, and a handshake gets a custom certificate only if there
\* is one, however setup, teardown and handshakes interleave.
ActiveIsReachable ==
  /\ domStatus.tls = "active" /\ domAt.down \in {"no", "wait", "tracker"} =>
       /\ domCert /\ domStatus.dns = "active"
       /\ domTracked = [dns |-> "active", tls |-> "active"]
       /\ domDNS = "cloudflare" => domRecs = {Host}
  /\ domShake \in {"custom", "served"} => domCert

\* "Roll back the DNS record so the CNAME doesn't point at a host that can't
\* serve a valid cert" (domain.go), when cleanup is on and no deletion failed.
RolledBack ==
  /\ domAt.setup = "done" /\ domStatus.tls = "error" /\ domAlive
  /\ domCleanup /\ ~domOops /\ domDNS = "cloudflare"
  => domRecs = {}

\* "no concurrent tlsProvider.GetCertificate calls during TLS cleanup"
\* (stopCertTracker): the tracker is in no call, and makes none, from then on.
TrackerQuiet ==
  domAt.down \in {"delete", "deleting", "close", "closetls", "done"} =>
    domExpiry \in {"none", "gone"}

\* At whatever point of its setup the teardown came: a proxy that is torn down
\* has no status and no open ACME provider, and it leaves no tracked resource and
\* no record unless clean-up is disabled or a deletion failed (which is logged
\* and not tried again).  The certificate is not taken back.
DomainGone ==
  domAt.down = "done" =>
    /\ domStatus = BothNone
    /\ domTLS = "acme" => domClosed
    /\ domCleanup /\ ~domOops => domTracked = BothNone
    /\ domCleanup /\ ~domOops /\ domDNS = "cloudflare" => domRecs = {}

\* The custom domain: what is announced is there, a failed setup and a teardown
\* take back what they can (see the parts), and no certificate is asked for after
\* the TLS clean-up.
DomainSafe == ActiveIsReachable /\ RolledBack /\ TrackerQuiet /\ DomainGone
=============================================================================
