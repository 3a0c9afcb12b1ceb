------------------------------ MODULE LogBuffer ------------------------------
(***************************************************************************)
(* The access log of a proxy (proxymanager/logbuffer.go) and its readers   *)
(* (dashboard/dash.go, streamProxyLogsHandler): a ring of the last lines,  *)
(* and a channel per subscriber that loses lines when its reader is slow.  *)
(* Lines are numbered; a marker about dropped lines is the number negated. *)
(***************************************************************************)
EXTENDS Integers, Sequences

CONSTANTS Readers,
          GSize,       \* size: of the ring and of each channel
          GMaxLines    \* bound: how many lines are written

ASSUME GAssumption == GSize \in Nat \ {0} /\ GMaxLines \in Nat

VARIABLES
  gLines, gPos, gFull, \* the ring
  gCount,    \* history: how many lines have been written
  gSub,      \* each reader: "out", "snapshot", "stream", "closed" (its channel), "gone"
  gChan,     \* its channel
  gPending,  \* pendingDropped
  gFirst,    \* history: gCount when it subscribed
  gGot       \* history: what has been written to its page, snapshot included

gvars == <<gLines, gPos, gFull, gCount, gSub, gChan, gPending, gFirst, gGot>>

GInit ==
  /\ gLines = [i \in 0 .. GSize - 1 |-> 0] /\ gPos = 0 /\ gFull = FALSE /\ gCount = 0
  /\ gSub = [r \in Readers |-> "out"] /\ gChan = [r \in Readers |-> <<>>]
  /\ gPending = [r \in Readers |-> 0] /\ gFirst = [r \in Readers |-> 0]
  /\ gGot = [r \in Readers |-> <<>>]

Subscribers == {r \in Readers : gSub[r] \in {"snapshot", "stream"}}

GTypeOK ==
  /\ gPos \in 0 .. GSize - 1 /\ gCount \in 0 .. GMaxLines
  /\ gSub \in [Readers -> {"out", "snapshot", "stream", "closed", "gone"}]
  /\ \A r \in Readers : Len(gChan[r]) <= GSize /\ gPending[r] \in 0 .. 2 * GSize

snapshotLocked ==
  LET before == [i \in 1 .. gPos |-> gLines[i - 1]]
      after  == [i \in 1 .. GSize - gPos |-> gLines[gPos + i - 1]]
  IN IF gFull THEN after \o before ELSE before

\* The positions of a full channel that a reader may come by, the first first.
Rising == {at \in UNION {[1 .. k -> 1 .. GSize] : k \in 0 .. GSize} :
             \A i, j \in DOMAIN at : i < j => at[i] < at[j]}

Capped(n) == IF n > 2 * GSize THEN GSize ELSE n

\* Mutant of fanOut: a marker that does not fit is forgotten.
FanOutForgets(r, line, taken) ==
  LET ch == gChan[r]
      marked == IF gPending[r] > 0 /\ Len(ch) < GSize
                THEN Append(ch, -(IF gPending[r] > GSize THEN GSize ELSE gPending[r]))
                ELSE ch
  IN IF Len(marked) < GSize
     THEN [chan |-> Append(marked, line), pending |-> 0, got |-> <<>>]
     ELSE [chan |-> <<line>>, pending |-> 0,
           got |-> [i \in DOMAIN taken |-> marked[taken[i]]]]

\* fanOutLocked for one subscriber: the marker of earlier losses, then the
\* line; a full channel is drained first, and every line drained and this one
\* count as dropped (this one although it is sent after all).  The reader may
\* take lines out of the channel while it is drained: the positions `taken'.
fanOut(r, line, taken) ==
  LET ch == gChan[r]
      d == IF gPending[r] > GSize THEN GSize ELSE gPending[r]
      fits == gPending[r] > 0 /\ Len(ch) < GSize
      marked == IF fits THEN Append(ch, -d) ELSE ch
      pending == IF fits THEN 0 ELSE d
      got == [i \in DOMAIN taken |-> marked[taken[i]]]
  IN IF Len(marked) < GSize
     THEN [chan |-> Append(marked, line), pending |-> pending, got |-> <<>>]
     ELSE [chan |-> <<line>>, got |-> got,
           pending |-> Capped(pending + 1 + Len(marked) - Len(got))]

\* Write: one line, under b.mu.
GWrite ==
  /\ gCount < GMaxLines
  /\ LET line == gCount + 1 IN
     /\ gCount' = line
     /\ gLines' = [gLines EXCEPT ![gPos] = line]
     /\ gPos' = (gPos + 1) % GSize
     /\ gFull' = (gFull \/ (gPos + 1) % GSize = 0)
     /\ \E taken \in [Subscribers -> Rising] :
          /\ \A r \in Subscribers : gSub[r] # "stream" => taken[r] = <<>>
          /\ gChan' = [r \in Readers |-> IF r \in Subscribers
                         THEN fanOut(r, line, taken[r]).chan ELSE gChan[r]]
          /\ gPending' = [r \in Readers |-> IF r \in Subscribers
                            THEN fanOut(r, line, taken[r]).pending ELSE gPending[r]]
          /\ gGot' = [r \in Readers |-> IF r \in Subscribers
                        THEN gGot[r] \o fanOut(r, line, taken[r]).got ELSE gGot[r]]
  /\ UNCHANGED <<gSub, gFirst>>

\* SubscribeWithSnapshot.
GSubscribe(r) ==
  /\ gSub[r] = "out"
  /\ gSub' = [gSub EXCEPT ![r] = "snapshot"]
  /\ gFirst' = [gFirst EXCEPT ![r] = gCount]
  /\ gGot' = [gGot EXCEPT ![r] = snapshotLocked]
  /\ UNCHANGED <<gLines, gPos, gFull, gCount, gChan, gPending>>

\* renderInitialSnapshot, which is written before the first line.
GRender(r) ==
  /\ gSub[r] = "snapshot" /\ gSub' = [gSub EXCEPT ![r] = "stream"]
  /\ UNCHANGED <<gLines, gPos, gFull, gCount, gChan, gPending, gFirst, gGot>>

\* streamEvents and drainBatch: a batch of lines is written to the page.  A
\* closed channel still gives what is in it.
GRead(r) ==
  /\ gSub[r] \in {"stream", "closed"} /\ gChan[r] # <<>>
  /\ \E n \in 1 .. Len(gChan[r]) :
       /\ gGot' = [gGot EXCEPT ![r] = @ \o SubSeq(gChan[r], 1, n)]
       /\ gChan' = [gChan EXCEPT ![r] = SubSeq(@, n + 1, Len(@))]
  /\ UNCHANGED <<gLines, gPos, gFull, gCount, gSub, gPending, gFirst>>

\* The page is closed, a write fails, or the closed channel is empty:
\* Unsubscribe, which does nothing when Close has come first.
GLeave(r) ==
  /\ gSub[r] \in {"snapshot", "stream"} \/ (gSub[r] = "closed" /\ gChan[r] = <<>>)
  /\ gSub' = [gSub EXCEPT ![r] = "gone"]
  /\ UNCHANGED <<gLines, gPos, gFull, gCount, gChan, gPending, gFirst, gGot>>

\* Close: every channel is closed.
GClose ==
  /\ Subscribers # {}
  /\ gSub' = [r \in Readers |-> IF r \in Subscribers THEN "closed" ELSE gSub[r]]
  /\ UNCHANGED <<gLines, gPos, gFull, gCount, gChan, gPending, gFirst, gGot>>

GNext ==
  \/ GWrite \/ GClose
  \/ \E r \in Readers : GSubscribe(r) \/ GRender(r) \/ GRead(r) \/ GLeave(r)

GSpec == GInit /\ [][GNext]_gvars

-----------------------------------------------------------------------------
\* The ring holds the last lines in their order.
RingExact ==
  snapshotLocked = LET n == IF gCount < GSize THEN gCount ELSE GSize
                   IN [i \in 1 .. n |-> gCount - n + i]

\* What has reached or will reach the page of a reader.
Shown(r) == gGot[r] \o gChan[r]
IsLine(x) == x > 0

\* The snapshot and the lines after it come in order and each once, and the
\* last line written is never the one that is lost.
InOrder ==
  \A r \in Readers :
    LET s == Shown(r) IN
    /\ \A i, j \in 1 .. Len(s) : i < j /\ IsLine(s[i]) /\ IsLine(s[j]) => s[i] < s[j]
    /\ r \in Subscribers /\ gCount > 0 =>
         \E i \in 1 .. Len(s) : s[i] = gCount /\ \A j \in i + 1 .. Len(s) : ~IsLine(s[j])

\* A line that is missing is announced: the marker is on its way behind the
\* gap, or is owed to the reader.
GapsAnnounced ==
  \A r \in Subscribers :
    LET s == Shown(r) IN
    \A i \in 1 .. Len(s) :
      IsLine(s[i]) /\ s[i] > gFirst[r] + 1 /\ (\A j \in 1 .. i - 1 : s[j] # s[i] - 1) =>
        \/ gPending[r] > 0
        \/ \E j \in i + 1 .. Len(s) : ~IsLine(s[j])

\* A reader sees the log in order, from the snapshot on without a seam, and
\* is told when it misses lines (logbuffer.go, fanOutLocked).
LogSafe == GTypeOK /\ RingExact /\ InOrder /\ GapsAnnounced
=============================================================================
