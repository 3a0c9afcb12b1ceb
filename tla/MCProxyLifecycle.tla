--------------------------- MODULE MCProxyLifecycle ---------------------------
(***************************************************************************)
(* ProxyLifecycle for TLC.  Two ports are the smallest case in which       *)
(* startListeners is half done when Pause, Resume or Close comes.          *)
(***************************************************************************)
EXTENDS ProxyLifecycle, TLC

CONSTANTS p1, p2

\* A port that waits for the login and one whose context closes it, and a proxy
\* none of whose listeners can be had.
Mixed == {p1 :> "https" @@ p2 :> "udp", p1 :> "udp" @@ p2 :> "https",
          p1 :> "custom" @@ p2 :> "custom"}

\* Ports differ in nothing but their kind.
Symmetric == Permutations(Ports)

OnlyHTTP == {p1 :> "http"}
=============================================================================
