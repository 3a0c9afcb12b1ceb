----------------------------- MODULE WhoisCache -----------------------------
(***************************************************************************)
(* The cache of peer identities (proxyproviders/tailscale/whois_cache.go): *)
(* a map with a time to live, in front of a singleflight group in which    *)
(* one lookup asks tailscaled and the others wait for its answer.          *)
(***************************************************************************)
EXTENDS Integers, FiniteSets, FiniteSetsExt

CONSTANTS IPs,
          Lookups,      \* requests; each looks up one address
          TTL, NegTTL, MaxEntries,
          WMaxTime      \* bound: how long time runs

ASSUME WAssumption == /\ TTL \in Nat /\ NegTTL \in Nat /\ MaxEntries \in Nat \ {0}
                      /\ IsFiniteSet(IPs) /\ IPs # {}

VARIABLES
  wNow,
  wEntry,    \* c.entries: [who, expires], and whose identity it is (of) and when
             \* it was stored (at); or None
  wFlight,   \* the call of each address in the group: [leader, who, of], or None
  wReq       \* the lookups: [pc, ip, start], and the answer [who, of, at]

wvars == <<wNow, wEntry, wFlight, wReq>>

None == [who |-> -1]
AnyIP == CHOOSE i \in IPs : TRUE
Idle == [pc |-> "idle", ip |-> AnyIP, start |-> 0, who |-> 0, of |-> AnyIP, at |-> 0]

WInit ==
  /\ wNow = 0
  /\ wEntry = [i \in IPs |-> None] /\ wFlight = [i \in IPs |-> None]
  /\ wReq = [r \in Lookups |-> Idle]

Cached(e) == {i \in IPs : e[i] # None}

WTypeOK ==
  /\ \A r \in Lookups : wReq[r].pc \in {"idle", "lookup", "lead", "store", "join", "done"}
  /\ Cardinality(Cached(wEntry)) <= MaxEntries

WTime == wNow < WMaxTime /\ wNow' = wNow + 1 /\ UNCHANGED <<wEntry, wFlight, wReq>>

\* A request of the address i.
WRequest(r, i) ==
  /\ wReq[r].pc = "idle"
  /\ wReq' = [wReq EXCEPT ![r] = [Idle EXCEPT !.pc = "lookup", !.ip = i, !.start = wNow]]
  /\ UNCHANGED <<wNow, wEntry, wFlight>>

Live(i) == wEntry[i] # None /\ wNow < wEntry[i].expires
Answer(r, who, of, at) == [wReq[r] EXCEPT !.pc = "done", !.who = who, !.of = of, !.at = at]

\* How long an answer is kept: that nobody is there, for a shorter time.
Life(who) == IF who = 0 THEN NegTTL ELSE TTL

\* Lookup under the read lock: an entry that has not expired is the answer.
WLookup(r) ==
  LET i == wReq[r].ip IN
  /\ wReq[r].pc = "lookup"
  /\ Live(i)
  /\ wReq' = [wReq EXCEPT ![r] = Answer(r, wEntry[i].who, wEntry[i].of, wEntry[i].at)]
  /\ UNCHANGED <<wNow, wEntry, wFlight>>

\* Otherwise sf.Do: the first leads and asks about its own address, the others
\* wait.  The entries may have
\* changed since they were read; they are not read again.
WMiss(r) ==
  LET i == wReq[r].ip IN
  /\ wReq[r].pc = "lookup"
  /\ ~Live(i)
  /\ IF wFlight[i] = None
     THEN /\ wFlight' = [wFlight EXCEPT ![i] = [leader |-> r, who |-> -1, of |-> i]]
          /\ wReq' = [wReq EXCEPT ![r].pc = "lead"]
     ELSE wReq' = [wReq EXCEPT ![r].pc = "join"] /\ UNCHANGED wFlight
  /\ UNCHANGED <<wNow, wEntry>>

\* resolve: whoisFromAddr answers with a user (1), or with nobody (0) when the
\* node is tagged, the leader's request is canceled or the call fails.
WResolve(r) ==
  LET i == wReq[r].ip IN
  /\ wReq[r].pc = "lead"
  /\ \E who \in {0, 1} :
       wFlight' = [wFlight EXCEPT ![i].who = who]
  /\ wReq' = [wReq EXCEPT ![r].pc = "store"]
  /\ UNCHANGED <<wNow, wEntry>>

\* evict: what has expired, and then the entries that expire first.
evict(e) ==
  LET live == [i \in IPs |-> IF e[i] # None /\ wNow > e[i].expires THEN None ELSE e[i]]
      over == Cardinality(Cached(live)) - MaxEntries
  IN IF over <= 0 THEN {live}
     ELSE {[i \in IPs |-> IF i \in gone THEN None ELSE live[i]] :
             gone \in {g \in kSubset(over, Cached(live)) :
                         \A i \in g, j \in Cached(live) \ g : live[i].expires <= live[j].expires}}

storeEntry(i, who, of) ==
  LET e == [wEntry EXCEPT ![i] = [who |-> who, of |-> of, expires |-> wNow + Life(who), at |-> wNow]]
  IN IF Cardinality(Cached(e)) > MaxEntries THEN evict(e) ELSE {e}

\* The entry is stored; then the call leaves the group and all who wait for
\* it have its answer.
WStore(r) ==
  LET i == wReq[r].ip  call == wFlight[i]
      who == call.who
  IN
  /\ wReq[r].pc = "store"
  /\ wEntry' \in storeEntry(i, who, call.of)
  /\ wFlight' = [wFlight EXCEPT ![i] = None]
  /\ wReq' = [q \in Lookups |->
                IF q = r \/ (wReq[q].pc = "join" /\ wReq[q].ip = i)
                THEN Answer(q, who, call.of, wNow) ELSE wReq[q]]
  /\ UNCHANGED <<wNow>>

\* Another request takes the place of one that is answered.
WAgain(r) ==
  /\ wReq[r].pc = "done" /\ wReq' = [wReq EXCEPT ![r] = Idle]
  /\ UNCHANGED <<wNow, wEntry, wFlight>>

WNext ==
  \/ WTime
  \/ \E i \in IPs, r \in Lookups : WRequest(r, i)
  \/ \E r \in Lookups : \/ WLookup(r) \/ WMiss(r) \/ WResolve(r) \/ WStore(r) \/ WAgain(r)

WSpec == WInit /\ [][WNext]_wvars

-----------------------------------------------------------------------------
\* tailscaled is asked once per address at a time, and whoever waits has a
\* leader who will answer.
OneFlight ==
  \A i \in IPs :
    LET leaders == {r \in Lookups : wReq[r].pc \in {"lead", "store"} /\ wReq[r].ip = i} IN
    /\ Cardinality(leaders) <= 1
    /\ wFlight[i] # None <=> leaders # {}
    /\ (\E r \in Lookups : wReq[r].pc = "join" /\ wReq[r].ip = i) => leaders # {}

\* An answer is about the address that was looked up, whoever asked tailscaled,
\* and it was stored less than its time to live before the lookup began, or after.
AnswersFresh ==
  \A r \in Lookups : wReq[r].pc = "done" =>
    /\ wReq[r].of = wReq[r].ip
    /\ wReq[r].start <= wReq[r].at \/ wReq[r].start < wReq[r].at + Life(wReq[r].who)

\* Concurrent lookups share one call and a bounded cache, and none gets an
\* answer about another address or one that had expired, a negative one after
\* its shorter time (whois_cache.go, Lookup, storeEntry, evict).
WhoisSafe == WTypeOK /\ OneFlight /\ AnswersFresh
=============================================================================
