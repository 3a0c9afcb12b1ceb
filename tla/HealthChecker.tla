---------------------------- MODULE HealthChecker ----------------------------
(***************************************************************************)
(* The health checker of a proxy (proxymanager/health.go): a goroutine     *)
(* that probes the target of one port, counts failures, and asks the       *)
(* target provider for the current targets, at most once per cooldown.     *)
(* Time is counted in seconds; the arithmetic is that of W-bit integers.   *)
(***************************************************************************)
EXTENDS Integers, FiniteSets

CONSTANTS KPorts,      \* the ports that are no redirects, as numbers: the order of their names
          KTargets,    \* addresses of containers
          Interval, Cooldown, FailThreshold,
          MaxBackoff,
          W,           \* bits of a Duration
          KMaxTime,    \* bound: how long time runs
          KMaxMoves    \* bound: how often a container moves

ASSUME KAssumption ==
  /\ \E p \in KPorts : \A q \in KPorts : p <= q   \* or there is no checker
  /\ Interval \in Nat \ {0} /\ Cooldown \in Nat /\ FailThreshold \in Nat
  /\ W \in Nat \ {0} /\ MaxBackoff \in Nat /\ MaxBackoff < 2^(W - 1) /\ 2^(W - 1) < 2^W
  /\ KMaxTime \in Nat \ {0}

VARIABLES
  kNow,      \* the clock
  kTick,     \* when the ticker has its next tick
  kPc,       \* run and check
  kTarget,   \* hc.target
  kPort,     \* first target of each port of proxy.Config
  kReal,     \* where the container of each port is
  kMoves,
  kAlive,    \* the containers answer
  kFails,    \* consecutiveFailures
  kRetry,    \* retryAttempt
  kUntil,    \* cooldownUntil; 0 is the zero time
  kFound,    \* what reResolveConfig has returned
  kResult,   \* hc.result
  kGauge,    \* the proxy_up metric
  kCtx,      \* hc.ctx is canceled (stopHealthChecker)
  kLast      \* history: when the last re-resolution ended, and its backoff

kvars == <<kNow, kTick, kPc, kTarget, kPort, kReal, kMoves, kAlive, kFails, kRetry,
           kUntil, kFound, kResult, kGauge, kCtx, kLast>>

-----------------------------------------------------------------------------
(* Durations.                                                              *)

\* A W-bit two's complement integer.
Wrap(x) == ((x + 2^(W - 1)) % 2^W) - 2^(W - 1)

\* maxBackoffShift is W - 2: the largest shift that stays positive.
nextBackoff(interval, attempt) ==
  IF attempt > W - 2 THEN MaxBackoff
  ELSE LET shift == Wrap(2^attempt) IN
       IF shift > 0 /\ interval > MaxBackoff \div shift THEN MaxBackoff
       ELSE LET d == Wrap(interval * shift) IN IF d > MaxBackoff THEN MaxBackoff ELSE d

\* A second is `unit` ticks of the clock.
clampDuration(seconds, unit, minVal, maxVal) ==
  LET d == Wrap(seconds * unit) IN
  IF d < minVal THEN minVal ELSE IF d > maxVal THEN maxVal ELSE d

-----------------------------------------------------------------------------
NoAnswer == [p \in {} |-> 0]
healthPort == CHOOSE p \in KPorts : \A q \in KPorts : p <= q

\* startHealthChecker: the first port by name, and the gauge says unknown.
KInit ==
  /\ kNow = 1 /\ kTick = 1 /\ kPc = "wait"
  /\ \E t \in KTargets : kPort = [p \in KPorts |-> t]
  /\ kTarget = kPort[healthPort] /\ kReal = kPort /\ kMoves = 0 /\ kAlive = TRUE
  /\ kFails = 0 /\ kRetry = 0 /\ kUntil = 0 /\ kFound = NoAnswer
  /\ kResult = "unknown" /\ kGauge = "unknown" /\ kCtx = FALSE
  /\ kLast = [at |-> 0, pause |-> 0]

KTypeOK ==
  /\ kPc \in {"wait", "judge", "resolve", "swap", "cool", "notify", "ended"}
  /\ kPort \in [KPorts -> KTargets] /\ kReal \in [KPorts -> KTargets]
  /\ kFails \in 0 .. FailThreshold + KMaxTime /\ kRetry \in 0 .. KMaxTime
  /\ kResult \in {"unknown", "healthy", "down"} /\ kGauge \in {"unknown", "healthy", "down"}

KTimePasses ==
  /\ kNow < KMaxTime /\ kNow' = kNow + 1
  /\ UNCHANGED <<kTick, kPc, kTarget, kPort, kReal, kMoves, kAlive, kFails, kRetry,
                 kUntil, kFound, kResult, kGauge, kCtx, kLast>>

\* The containers move, or stop or start answering.
KContainers ==
  /\ kMoves < KMaxMoves /\ kMoves' = kMoves + 1
  /\ \/ \E p \in KPorts, t \in KTargets : kReal' = [kReal EXCEPT ![p] = t] /\ UNCHANGED kAlive
     \/ kAlive' = ~kAlive /\ UNCHANGED kReal
  /\ UNCHANGED <<kNow, kTick, kPc, kTarget, kPort, kFails, kRetry, kUntil, kFound,
                 kResult, kGauge, kCtx, kLast>>

\* check: the probe.  A canceled context fails it.
KProbe ==
  /\ kPc = "wait" /\ kNow >= kTick
  /\ kTick' = kNow + Interval
  /\ \/ /\ kAlive /\ kReal[healthPort] = kTarget /\ ~kCtx
        /\ kResult' = "healthy" /\ kPc' = "notify"
        /\ kFails' = 0 /\ kRetry' = 0 /\ kUntil' = 0
     \/ /\ ~(kAlive /\ kReal[healthPort] = kTarget) \/ kCtx
        /\ kResult' = "down" /\ kPc' = "judge"
        /\ UNCHANGED <<kFails, kRetry, kUntil>>
  /\ UNCHANGED <<kNow, kTarget, kPort, kReal, kMoves, kAlive, kFound, kGauge, kCtx, kLast>>

\* Then the failure is counted, unless the cooldown runs.
KJudge ==
  /\ kPc = "judge"
  /\ IF kUntil # 0 /\ kNow < kUntil
     THEN kPc' = "notify" /\ UNCHANGED <<kFails, kRetry>>
     ELSE /\ kFails' = kFails + 1
          /\ IF ~kCtx /\ kFails' >= FailThreshold
             THEN kPc' = "resolve" /\ kRetry' = kRetry + 1
             ELSE kPc' = "notify" /\ UNCHANGED kRetry
  /\ UNCHANGED <<kNow, kTick, kTarget, kPort, kReal, kMoves, kAlive, kUntil, kFound,
                 kResult, kGauge, kCtx, kLast>>

\* reResolveConfig: what the provider finds now (a port may be gone), or an
\* error; without AutoRestart nothing is asked.
KResolve ==
  /\ kPc = "resolve"
  /\ \/ \E known \in SUBSET KPorts :
          kFound' = [p \in known |-> kReal[p]] /\ kPc' = "swap"
     \/ kPc' = "cool" /\ UNCHANGED kFound
  /\ UNCHANGED <<kNow, kTick, kTarget, kPort, kReal, kMoves, kAlive, kFails, kRetry,
                 kUntil, kResult, kGauge, kCtx, kLast>>

\* Mutant of KSwap: the checker keeps the old address.
KSwapPortsOnly ==
  /\ kPc = "swap"
  /\ kPc' = "cool" /\ kFound' = NoAnswer
  /\ kPort' = [p \in KPorts |-> IF p \in DOMAIN kFound THEN kFound[p] ELSE kPort[p]]
  /\ UNCHANGED <<kTarget, kNow, kTick, kReal, kMoves, kAlive, kFails, kRetry, kUntil, kResult,
                 kGauge, kCtx, kLast>>

\* reResolveHealthTarget: unless the proxy's context is canceled (by Close; Pause
\* cancels the checker's only), each port whose target differs gets the new one,
\* and the checker follows its port.
KSwap ==
  /\ kPc = "swap"
  /\ kPc' = "cool" /\ kFound' = NoAnswer
  /\ \/ kCtx /\ UNCHANGED <<kPort, kTarget>>
     \/ LET changed == {p \in DOMAIN kFound : kFound[p] # kPort[p]} IN
        /\ kPort' = [p \in KPorts |-> IF p \in changed THEN kFound[p] ELSE kPort[p]]
        /\ kTarget' = IF healthPort \in changed THEN kFound[healthPort] ELSE kTarget
  /\ UNCHANGED <<kNow, kTick, kReal, kMoves, kAlive, kFails, kRetry, kUntil, kResult,
                 kGauge, kCtx, kLast>>

KCool ==
  /\ kPc = "cool"
  /\ kPc' = "notify" /\ kFails' = 0
  /\ LET bo == IF Cooldown = 0 THEN nextBackoff(Interval, kRetry - 1) ELSE Cooldown IN
     /\ kUntil' = kNow + bo
     /\ kLast' = [at |-> kNow, pause |-> bo]
  /\ UNCHANGED <<kNow, kTick, kTarget, kPort, kReal, kMoves, kAlive, kRetry, kFound,
                 kResult, kGauge, kCtx>>

\* notifyResult sets the gauge; the loop ends when the context is canceled,
\* and may take one more tick that is already there.
KNotify ==
  /\ kPc = "notify"
  /\ kPc' = "wait" /\ kGauge' = kResult
  /\ UNCHANGED <<kNow, kTick, kTarget, kPort, kReal, kMoves, kAlive, kFails, kRetry,
                 kUntil, kFound, kResult, kCtx, kLast>>

KEnds ==
  /\ kPc = "wait" /\ kCtx /\ kPc' = "ended"
  /\ UNCHANGED <<kNow, kTick, kTarget, kPort, kReal, kMoves, kAlive, kFails, kRetry,
                 kUntil, kFound, kResult, kGauge, kCtx, kLast>>

\* Pause and Close cancel the checker (and Close the proxy) and wait for it.
KStop ==
  /\ ~kCtx /\ kCtx' = TRUE
  /\ UNCHANGED <<kNow, kTick, kPc, kTarget, kPort, kReal, kMoves, kAlive, kFails, kRetry,
                 kUntil, kFound, kResult, kGauge, kLast>>

KNext ==
  \/ KTimePasses \/ KContainers \/ KProbe \/ KJudge \/ KResolve \/ KSwap \/ KCool
  \/ KNotify \/ KEnds \/ KStop

KSpec == KInit /\ [][KNext]_kvars

-----------------------------------------------------------------------------
\* Between two re-resolutions lies the cooldown, unless a check has succeeded
\* in between (which clears retryAttempt).
Spaced ==
  (kPc = "resolve" /\ kRetry > 1) => kNow >= kLast.at + kLast.pause

\* The pause after a re-resolution that did not help is the next of nextBackoff,
\* which doubles up to MaxBackoff (DurationsExact); no attempt is left out.
Doubles ==
  (kPc = "cool" /\ Cooldown = 0 /\ kRetry > 1) => kLast.pause = nextBackoff(Interval, kRetry - 2)

\* The checker probes the address that the port forwards to.
ProbesItsPort == kTarget = kPort[healthPort]

\* The gauge lags behind the result by one check in progress at most.
GaugeFollows == kPc = "ended" => kGauge = kResult

\* nextBackoff is interval * 2^attempt capped at MaxBackoff, for every attempt,
\* also where the shift or the product leaves the range of the type; a clamped
\* duration is in its range whatever the configured number of seconds.
DurationsExact ==
  /\ \A i \in 1 .. MaxBackoff, a \in 0 .. 2 * W :
       nextBackoff(i, a) = IF i * 2^a > MaxBackoff THEN MaxBackoff ELSE i * 2^a
  /\ \A s \in -2^(W - 1) .. 2^(W - 1) - 1 : clampDuration(s, 3, 1, MaxBackoff) \in 1 .. MaxBackoff

\* The health checker follows its port and spaces its re-resolutions
\* (health.go, check, reResolveHealthTarget).
HealthSafe == KTypeOK /\ Spaced /\ Doubles /\ ProbesItsPort /\ GaugeFollows
=============================================================================
