------------------------------ MODULE NodeStart ------------------------------
(***************************************************************************)
(* How a Tailscale node comes up over several runs of the program          *)
(* (node_lifecycle.go, state_manager.go, device_reconciler.go,             *)
(* auth_manager.go, retry_policy.go): state of another configuration is    *)
(* thrown away, devices that hold the hostname are deleted, and tsnet is   *)
(* started.  The control server gives a new device the suffix "-1" when    *)
(* its name is taken.  The program may end or crash at any point, and the  *)
(* devices of the tailnet come and go meanwhile.  The hostname is that of  *)
(* all runs, and the node is not ephemeral; the tags stand for the control *)
(* URL and the mode too, which CleanStale compares in the same way.        *)
(***************************************************************************)
EXTENDS Integers, FiniteSets

CONSTANTS Devs,        \* device IDs of the control server
          Tags,        \* lists of tags; the devices carry the first
          NMaxAttempts,\* RetryPolicy.MaxAttempts
          NMaxRuns     \* bound: starts of the node

ASSUME NAssumption == NMaxAttempts \in Nat /\ "none" \notin Devs /\ "untagged" \notin Tags

VARIABLES
  nApi,      \* an API client is there: without it nothing is reconciled
  nCfg,      \* the tags of the configuration
  nLocal,    \* tailscaled.state: the device it is for, and under which tags
  nMeta,     \* the tags in tsdproxy.yaml, NoTag also when it is not there or empty
  nDev,      \* the control server's devices: name ("" when free), online, tag
  nPc,
  nForce,    \* WithForceClean
  nTodo,     \* listed devices that are not processed yet
  nDoomed,   \* the device that was fetched again and is about to be deleted
  nKeep,     \* devices that are online since before their second look
  nClean,    \* the reconciliation of this start met no error and no conflict
  nTries,    \* attempts of startWithRetry
  nMine,     \* the device of the running node
  nTorn,     \* RemoveAll or WriteFile has failed, or the program crashed in one of
             \* them, and since then no start has begun without state
  nRuns

disk == <<nLocal, nMeta, nTorn>>
tailnet == <<nDev, nMine>>
reconciling == <<nTodo, nDoomed, nKeep, nClean>>
nvars == <<nApi, nCfg, disk, tailnet, nPc, nForce, reconciling, nTries, nRuns>>

NoDev == "none"
NoTag == "untagged"
NoLocal == [dev |-> NoDev, cfg |-> NoTag]
Registered == {d \in Devs : nDev[d].name # ""}
Unused == [name |-> "", online |-> FALSE, tag |-> NoTag]
NodeTags == Tags \cup {NoTag}

NInit ==
  /\ nApi \in BOOLEAN /\ nCfg \in NodeTags /\ nLocal = NoLocal /\ nMeta = NoTag /\ nTorn = FALSE
  /\ nDev \in [Devs -> {Unused} \cup [name : {"app"}, online : BOOLEAN, tag : NodeTags]]
  /\ Cardinality(Registered) <= 1 /\ nMine = NoDev
  /\ nPc = "down" /\ nForce = FALSE
  /\ nTodo = {} /\ nDoomed = NoDev /\ nKeep = {} /\ nClean = FALSE
  /\ nTries = 0 /\ nRuns = 0

-----------------------------------------------------------------------------
\* CleanStale: what the metadata does not hold is not compared, and there is
\* nothing to clean without state.
Stale == nLocal.dev # NoDev /\ nMeta \notin {NoTag, nCfg}

\* Start: StateExists and CleanStale.  ResolveKey may fail, and then nothing
\* is touched.
NPrepare ==
  /\ nPc = "down" /\ nRuns < NMaxRuns /\ nRuns' = nRuns + 1
  /\ nPc' = IF Stale THEN "remove" ELSE "save"
  /\ nForce' = (nLocal.dev = NoDev)
  /\ UNCHANGED <<nApi, nCfg, disk, tailnet, reconciling, nTries>>

\* RemoveAll takes the files in the order of the directory.
NRemove ==
  /\ nPc = "remove"
  /\ \/ nLocal # NoLocal /\ nLocal' = NoLocal /\ UNCHANGED nMeta
     \/ nMeta # NoTag /\ nMeta' = NoTag /\ UNCHANGED nLocal
  /\ UNCHANGED <<nApi, nCfg, nTorn, tailnet, nPc, nForce, reconciling, nTries, nRuns>>

\* RemoveAll returns; after an error what is left is taken as it is, and the
\* state counts as there.
NRemoved ==
  /\ nPc = "remove" /\ nPc' = "save"
  /\ \/ nLocal = NoLocal /\ nMeta = NoTag /\ nForce' = TRUE /\ UNCHANGED nTorn
     \/ nForce' = FALSE /\ nTorn' = TRUE
  /\ UNCHANGED <<nApi, nCfg, nLocal, nMeta, tailnet, reconciling, nTries, nRuns>>

\* Save: WriteFile truncates the metadata and writes it; an error is only
\* logged.
NSave ==
  /\ \/ /\ nPc = "save" /\ nPc' = "write" /\ nMeta' = NoTag /\ UNCHANGED nTorn
     \/ /\ nPc = "write" /\ nPc' = "list" /\ nMeta' = nCfg
        /\ nTorn' = (nTorn /\ nLocal.dev # NoDev)
     \/ /\ nPc \in {"save", "write"} /\ nPc' = "list" /\ nTorn' = TRUE /\ UNCHANGED nMeta
  /\ UNCHANGED <<nApi, nCfg, nLocal, tailnet, nForce, reconciling, nTries, nRuns>>

\* Reconcile lists the devices with the first tag, unless there is no API or no
\* tag, or the list cannot be had.
NList ==
  /\ nPc = "list"
  /\ \/ /\ nApi /\ nCfg # NoTag
        /\ nTodo' = {[dev |-> d, name |-> nDev[d].name, online |-> nDev[d].online] :
                       d \in {d \in Registered : nDev[d].tag = nCfg}}
        /\ nKeep' = {d \in Registered : nDev[d].online}
        /\ nPc' = "reconcile" /\ nClean' = TRUE
     \/ nPc' = "start" /\ nClean' = FALSE /\ UNCHANGED <<nTodo, nKeep>>
  /\ nTries' = 0
  /\ UNCHANGED <<nApi, nCfg, disk, tailnet, nForce, nDoomed, nRuns>>

\* isDeviceMatch.  nForce is ~hasLocalState.
isDeviceMatch(e) == IF e.name = "app" THEN nForce \/ ~e.online ELSE e.name = "app-1"

\* Mutant of NProcess: the device is not fetched again.
NProcessOnce(e) ==
  /\ nPc = "reconcile" /\ nDoomed = NoDev /\ e \in nTodo
  /\ nTodo' = nTodo \ {e}
  /\ IF isDeviceMatch(e) /\ (nForce \/ ~e.online) THEN nDoomed' = e.dev ELSE UNCHANGED nDoomed
  /\ UNCHANGED <<nApi, nCfg, disk, tailnet, nPc, nForce, nKeep, nClean, nTries, nRuns>>

\* processDevice up to the second look at the device, which may fail.
NProcess(e) ==
  /\ nPc = "reconcile" /\ nDoomed = NoDev /\ e \in nTodo
  /\ nTodo' = nTodo \ {e}
  /\ LET seen == nDev[e.dev] IN
     \/ ~isDeviceMatch(e) /\ UNCHANGED <<nDoomed, nClean>>
     \/ /\ isDeviceMatch(e) /\ seen.name # "" /\ (nForce \/ (~e.online /\ ~seen.online))
        /\ nDoomed' = e.dev /\ UNCHANGED nClean
     \/ isDeviceMatch(e) /\ nClean' = FALSE /\ UNCHANGED nDoomed
  /\ UNCHANGED <<nApi, nCfg, disk, tailnet, nPc, nForce, nKeep, nTries, nRuns>>

\* The delete, which the device may have outrun by reconnecting.
NDelete ==
  /\ nDoomed # NoDev /\ nDoomed' = NoDev
  /\ \/ nDev' = [nDev EXCEPT ![nDoomed] = Unused] /\ UNCHANGED nClean
     \/ nClean' = FALSE /\ UNCHANGED nDev
  /\ UNCHANGED <<nApi, nCfg, disk, nMine, nPc, nForce, nTodo, nKeep, nTries, nRuns>>

NReconciled ==
  /\ nPc = "reconcile" /\ nTodo = {} /\ nDoomed = NoDev /\ nPc' = "start"
  /\ nKeep' = {}
  /\ UNCHANGED <<nApi, nCfg, disk, tailnet, nForce, nTodo, nDoomed, nClean, nTries, nRuns>>

\* startWithRetry: an attempt fails; the last one, or an error that cannot be
\* recovered from, ends Start, which closes the server.
NAttemptFails ==
  /\ nPc = "start"
  /\ nTries' = nTries + 1
  /\ \/ nPc' = "down"
     \/ nTries + 1 < NMaxAttempts /\ UNCHANGED nPc
  /\ UNCHANGED <<nApi, nCfg, disk, tailnet, nForce, reconciling, nRuns>>

\* The name the control server gives to a new device.
NewName == IF \E d \in Registered : nDev[d].name = "app" THEN "app-1" ELSE "app"

\* tsnet comes up: with the device of its state if that is still there,
\* otherwise as a new device, whose state it writes; its tag is that of the
\* configuration or of the key.
NUp ==
  /\ nPc = "start" /\ nPc' = "up"
  /\ IF nLocal.dev # NoDev /\ nDev[nLocal.dev].name # ""
     THEN nMine' = nLocal.dev /\ nDev' = [nDev EXCEPT ![nLocal.dev].online = TRUE] /\ UNCHANGED nLocal
     ELSE \E d \in Devs \ Registered :
            /\ \E t \in NodeTags :
                 nDev' = [nDev EXCEPT ![d] = [name |-> NewName, online |-> TRUE, tag |-> t]]
            /\ nMine' = d /\ nLocal' = [dev |-> d, cfg |-> nCfg]
  /\ UNCHANGED <<nApi, nCfg, nMeta, nTorn, nForce, reconciling, nTries, nRuns>>

\* Close, a failed key, or a crash at any point; the device stays online until
\* the control server notices.  The configuration may change before the next run.
NDown ==
  /\ nPc # "down"
  /\ nPc' = "down" /\ nMine' = NoDev /\ nTodo' = {} /\ nDoomed' = NoDev /\ nKeep' = {} /\ nClean' = FALSE
  /\ nTries' = 0
  /\ nTorn' = (nTorn \/ nPc \in {"remove", "write"})
  /\ nCfg' \in NodeTags
  /\ UNCHANGED <<nApi, nLocal, nMeta, nDev, nForce, nRuns>>

\* A device that is not ours now connects or disconnects.
NFlip(d) ==
  /\ d \in Registered /\ d # nMine
  /\ nDev' = [nDev EXCEPT ![d].online = ~@]
  /\ nKeep' = IF nPc = "reconcile" /\ ~nDev[d].online /\ nDoomed # d
              THEN nKeep \cup {d} ELSE nKeep \ {d}
  /\ UNCHANGED <<nApi, nCfg, disk, nMine, nPc, nForce, nTodo, nDoomed, nClean, nTries, nRuns>>

NNext ==
  \/ NPrepare \/ NRemove \/ NRemoved \/ NSave \/ NList \/ NDelete \/ NReconciled
  \/ NAttemptFails \/ NUp \/ NDown
  \/ \E e \in nTodo : NProcess(e)
  \/ \E d \in Devs : NFlip(d)
NSpec == NInit /\ [][NNext]_nvars

-----------------------------------------------------------------------------
\* The state a node runs on was made under its own tags or under none, however
\* earlier runs ended, unless the disk failed or the program crashed while the
\* files were removed or written: then state may be left whose tags are not known
\* (CleanStale, Save).
NStateMatches == nPc = "up" /\ ~nTorn => nLocal.dev = nMine /\ nLocal.cfg \in {NoTag, nCfg}

\* Without local state, a reconciliation that met no error gives the node the
\* hostname itself, unless it is that of a device without the tag.
NNameClaimed ==
  nPc = "up" /\ nClean /\ nForce =>
    \/ nDev[nMine].name = "app"
    \/ \E d \in Registered \ {nMine} : nDev[d].name = "app" /\ nDev[d].tag # nCfg

\* A device that has been online since before the second look at it is not
\* deleted, unless the state was lost.
NOnlineKept == nForce \/ nKeep \subseteq Registered

\* A node comes up on state of its own configuration, as far as the metadata
\* tells it, prevents "the "-1" suffix duplication problem" among the devices with
\* its tag, and a device "that reconnected between the List snapshot and now must
\* not be deleted" (device_reconciler.go), unless local state was lost.
NodeSafe ==
  /\ NStateMatches /\ NNameClaimed /\ NOnlineKept
  /\ nTries <= IF NMaxAttempts = 0 THEN 1 ELSE NMaxAttempts
=============================================================================
