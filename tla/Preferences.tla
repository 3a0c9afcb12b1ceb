----------------------------- MODULE Preferences -----------------------------
(***************************************************************************)
(* The preferences of the dashboard's users (dashboard/preferences.go): a  *)
(* file per user, written to a temporary file and renamed, and a cache.    *)
(* Users whose ID is not a safe file name share one file and cache entry.  *)
(* A value is a pair: a sort key and the set of pinned proxies.            *)
(***************************************************************************)
EXTENDS Integers, FiniteSets

CONSTANTS EUsers,     \* user IDs
          ESafe,      \* those that are safe file names
          EProxies,   \* what can be pinned
          EMaxCalls,  \* bound: calls of Update and TogglePin
          EMaxCrashes \* bound: restarts

ASSUME EAssumption == "none" \notin EProxies

VARIABLES
  eFile,     \* the file of each key: "none", "corrupt", or the preferences in it
  eTemp,     \* temporary files that nobody has removed
  eCache,    \* s.cache, "none" where there is no entry
  eMu,       \* who holds s.mu for writing: "free" or the running call
  eCall,     \* the running call: where it is, for whom, and its preferences
  ePinned,   \* per key: the pins of the calls that have returned without error
  eWhole,    \* per key: no file was corrupted since
  eCalls, eCrashes

evars == <<eFile, eTemp, eCache, eMu, eCall, ePinned, eWhole, eCalls, eCrashes>>

\* normalizeUserID.
Key(u) == IF u \in ESafe THEN u ELSE "invalid"
UserKeys == {Key(u) : u \in EUsers}

ValidSort == {"name", "status"}
Prefs == [sort : ValidSort \cup {"bogus"}, pins : SUBSET EProxies]
Default == [sort |-> "name", pins |-> {}]
validatePrefs(p) == IF p.sort \in ValidSort THEN p ELSE [p EXCEPT !.sort = Default.sort]

Quiet == [pc |-> "none", key |-> "none", prefs |-> Default, pin |-> "none"]
NoFile == [is |-> "none", prefs |-> Default]
Holds(p) == [is |-> "prefs", prefs |-> p]
Corrupt == [is |-> "corrupt", prefs |-> Default]

EInit ==
  /\ eFile \in [UserKeys -> {NoFile, Holds([Default EXCEPT !.sort = "status"])}]
  /\ eTemp = 0 /\ eCache = [k \in UserKeys |-> NoFile] /\ eMu = "free" /\ eCall = Quiet
  /\ ePinned = [k \in UserKeys |-> {}] /\ eWhole = [k \in UserKeys |-> TRUE]
  /\ eCalls = 0 /\ eCrashes = 0

-----------------------------------------------------------------------------
\* loadFromDisk: a corrupt file counts as the defaults.
FromDisk(k) == IF eFile[k].is = "prefs" THEN validatePrefs(eFile[k].prefs) ELSE Default

\* Load: from the cache, else from the file, under the lock.
ELoad(u) ==
  /\ eMu = "free" /\ eCache[Key(u)].is = "none"
  /\ eCache' = [eCache EXCEPT ![Key(u)] = Holds(FromDisk(Key(u)))]
  /\ UNCHANGED <<eFile, eTemp, eMu, eCall, ePinned, eWhole, eCalls, eCrashes>>

\* Mutant of EUpdate: the cached preferences are taken instead of the file's.
EUpdateCached(u) ==
  /\ eMu = "free" /\ eCalls < EMaxCalls /\ eCalls' = eCalls + 1
  /\ \E pin \in EProxies \cup {"none"}, sort \in ValidSort \cup {"bogus"} :
       LET k == Key(u)
           p == IF eCache[k].is = "prefs" THEN eCache[k].prefs ELSE Default
       IN /\ eCache' = [eCache EXCEPT ![k] = Holds(p)]
          /\ eCall' = [pc |-> "temp", key |-> k, pin |-> pin,
                       prefs |-> IF pin = "none" THEN [p EXCEPT !.sort = sort]
                                 ELSE [p EXCEPT !.pins = IF pin \in @ THEN @ \ {pin} ELSE @ \cup {pin}]]
  /\ eMu' = "call"
  /\ UNCHANGED <<eFile, eTemp, ePinned, eWhole, eCrashes>>

\* Update takes the lock, loads the file (which fills the cache) and applies
\* the change: a sort key from the request, valid or not, or TogglePin.
EUpdate(u) ==
  /\ eMu = "free" /\ eCalls < EMaxCalls /\ eCalls' = eCalls + 1
  /\ \E pin \in EProxies \cup {"none"}, sort \in ValidSort \cup {"bogus"} :
       LET k == Key(u)
           p == FromDisk(k)
       IN /\ eCache' = [eCache EXCEPT ![k] = Holds(p)]
          /\ eCall' = [pc |-> "temp", key |-> k, pin |-> pin,
                       prefs |-> IF pin = "none" THEN [p EXCEPT !.sort = sort]
                                 ELSE [p EXCEPT !.pins = IF pin \in @ THEN @ \ {pin} ELSE @ \cup {pin}]]
  /\ eMu' = "call"
  /\ UNCHANGED <<eFile, eTemp, ePinned, eWhole, eCrashes>>

\* prepareSave: the temporary file holds the validated copy.  Writing fails,
\* and the temporary file is removed, or it is there.
ETemp ==
  /\ eCall.pc = "temp"
  /\ \/ eTemp' = 1 /\ eCall' = [eCall EXCEPT !.pc = "rename"] /\ UNCHANGED eMu
     \/ eCall' = Quiet /\ eMu' = "free" /\ UNCHANGED eTemp
  /\ UNCHANGED <<eFile, eCache, ePinned, eWhole, eCalls, eCrashes>>

\* commitSave: Rename replaces the file at once; the cache gets the
\* preferences as the caller made them.
ERename ==
  /\ eCall.pc = "rename" /\ eTemp' = 0
  /\ \/ /\ eFile' = [eFile EXCEPT ![eCall.key] = Holds(validatePrefs(eCall.prefs))]
        /\ eCall' = [eCall EXCEPT !.pc = "cache"] /\ UNCHANGED eMu
     \/ eCall' = Quiet /\ eMu' = "free" /\ UNCHANGED eFile
  /\ UNCHANGED <<eCache, ePinned, eWhole, eCalls, eCrashes>>

ECommit ==
  /\ eCall.pc = "cache"
  /\ eCache' = [eCache EXCEPT ![eCall.key] = Holds(eCall.prefs)]
  /\ ePinned' = [ePinned EXCEPT ![eCall.key] =
                   IF eCall.pin \in @ THEN @ \ {eCall.pin} ELSE @ \cup ({eCall.pin} \ {"none"})]
  /\ eCall' = Quiet /\ eMu' = "free"
  /\ UNCHANGED <<eFile, eTemp, eWhole, eCalls, eCrashes>>

\* The process ends at any point and starts again with an empty cache.  A
\* rename that was made but not reported counts as reported.
ECrash ==
  /\ eCrashes < EMaxCrashes /\ eCrashes' = eCrashes + 1
  /\ eCache' = [k \in UserKeys |-> NoFile] /\ eMu' = "free" /\ eCall' = Quiet
  /\ ePinned' = IF eCall.pc # "cache" THEN ePinned
                ELSE [ePinned EXCEPT ![eCall.key] = eFile[eCall.key].prefs.pins]
  /\ UNCHANGED <<eFile, eTemp, eWhole, eCalls>>

\* The file is damaged from outside while the process is down.
EDamage(k) ==
  /\ eCrashes = 1 /\ eCalls < EMaxCalls /\ eFile[k].is = "prefs" /\ eMu = "free"
  /\ \A j \in UserKeys : eCache[j].is = "none"
  /\ eFile' = [eFile EXCEPT ![k] = Corrupt] /\ ePinned' = [ePinned EXCEPT ![k] = {}]
  /\ eWhole' = [eWhole EXCEPT ![k] = FALSE]
  /\ UNCHANGED <<eTemp, eCache, eMu, eCall, eCalls, eCrashes>>

ENext ==
  \/ \E u \in EUsers : ELoad(u) \/ EUpdate(u)
  \/ ETemp \/ ERename \/ ECommit \/ ECrash \/ \E k \in UserKeys : EDamage(k)
ESpec == EInit /\ [][ENext]_evars

-----------------------------------------------------------------------------
\* The file is whole and valid at every step, whatever fails or crashes when,
\* and holds the pins of exactly the calls that succeeded; the cache differs
\* from the file at most by what validatePrefs would correct (Update,
\* prepareSave, commitSave).
PrefsSafe ==
  \A k \in UserKeys :
    /\ eFile[k].is = "corrupt" => ~eWhole[k]
    /\ eFile[k].is = "prefs" => eFile[k].prefs.sort \in ValidSort
    /\ ~(eCall.pc = "cache" /\ eCall.key = k) =>
         /\ FromDisk(k).pins = ePinned[k]
         /\ eCache[k].is = "prefs" => validatePrefs(eCache[k].prefs) = FromDisk(k)
=============================================================================
