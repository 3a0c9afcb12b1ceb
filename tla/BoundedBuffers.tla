---------------------------- MODULE BoundedBuffers ----------------------------
(***************************************************************************)
(* What a port keeps of its past and of its clients, up to a limit: the    *)
(* rate limiters (RateLimiter) and the access log (LogBuffer).  The two    *)
(* share no state.                                                         *)
(***************************************************************************)
EXTENDS RateLimiter, LogBuffer

\* What has a limit keeps it, and keeps the right part: the limiters of the last
\* clients, the last lines; a reader of the log is told of those that it misses
\* (ratelimit.go, get; logbuffer.go, fanOutLocked).
BoundsKept == LimiterSafe /\ LogSafe
=============================================================================
