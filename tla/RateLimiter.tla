----------------------------- MODULE RateLimiter -----------------------------
(***************************************************************************)
(* The rate limiters of an HTTP port (proxymanager/ratelimit.go): one per  *)
(* client address, in a map and a list that is ordered by the last         *)
(* request, at most httpRateLimitClients of them.                          *)
(***************************************************************************)
EXTENDS Integers, Sequences, FiniteSets, SequencesExt

CONSTANTS LClients,
          LSize,        \* httpRateLimitClients
          LBurst,       \* burst of one limiter
          LMaxRequests  \* bound: requests between two closes

ASSUME LAssumption == LSize \in Nat \ {0} /\ LBurst \in Nat

VARIABLES
  lClients, \* l.clients: the tokens left in the limiter of each client known
  lList,    \* l.lruList, the front first
  lHist     \* history: the clients of the requests since the last close

lvars == <<lClients, lList, lHist>>

LInit == lClients = <<>> /\ lList = <<>> /\ lHist = <<>>

\* lruList.MoveToFront of the entry at position p.
MoveToFront(l, p) ==
  [i \in 1 .. Len(l) |-> IF i = 1 THEN l[p] ELSE IF i <= p THEN l[i - 1] ELSE l[i]]

\* get: the list afterwards; the oldest client makes room for a new one.
get(c) ==
  \/ /\ c \in DOMAIN lClients
     /\ \E p \in 1 .. Len(lList) : lList[p] = c /\ lList' = MoveToFront(lList, p)
  \/ /\ c \notin DOMAIN lClients
     /\ lList' = <<c>> \o (IF Cardinality(DOMAIN lClients) >= LSize THEN Front(lList) ELSE lList)

\* rateLimitMiddleware: get, and then Allow of the limiter, which takes a
\* token or refuses the request.
LRequest(c) ==
  /\ Len(lHist) < LMaxRequests
  /\ get(c)
  /\ LET tokens == IF c \in DOMAIN lClients THEN lClients[c] ELSE LBurst IN
     lClients' = [d \in ToSet(lList') |->
                    IF d # c THEN lClients[d] ELSE IF tokens > 0 THEN tokens - 1 ELSE 0]
  /\ lHist' = Append(lHist, c)

\* Time gives a limiter a token.
LRefill(c) ==
  /\ c \in DOMAIN lClients /\ lClients[c] < LBurst
  /\ lClients' = [lClients EXCEPT ![c] = @ + 1]
  /\ UNCHANGED <<lList, lHist>>

\* close.
LClose ==
  /\ lHist # <<>>
  /\ lClients' = <<>> /\ lList' = <<>> /\ lHist' = <<>>

LNext == LClose \/ \E c \in LClients : LRequest(c) \/ LRefill(c)

LSpec == LInit /\ [][LNext]_lvars

-----------------------------------------------------------------------------
\* Client c has asked after the last request of client d.
Later(c, d) ==
  \E k \in 1 .. Len(lHist) : lHist[k] = c /\ \A m \in k .. Len(lHist) : lHist[m] # d

\* The limiters that are kept are those of the last LSize clients, in the map
\* as in the list, the most recent first: a client that is active keeps its
\* count, however many others come by (ratelimit.go, get).
LimiterSafe ==
  /\ \A i, j \in 1 .. Len(lList) : i < j => Later(lList[i], lList[j])
  /\ \A k \in 1 .. Len(lHist) :
       \/ lHist[k] \in ToSet(lList)
       \/ Len(lList) = LSize /\ \A i \in 1 .. Len(lList) : Later(lList[i], lHist[k])
  /\ ToSet(lList) \subseteq ToSet(lHist) /\ Len(lList) <= LSize
  /\ DOMAIN lClients = ToSet(lList)
  /\ \A c \in DOMAIN lClients : lClients[c] \in 0 .. LBurst
=============================================================================
