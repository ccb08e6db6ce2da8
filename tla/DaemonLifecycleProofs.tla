------------------------ MODULE DaemonLifecycleProofs ------------------------
(***************************************************************************)
(* Whatever the number of clients and daemon processes, whichever of them  *)
(* crash and whenever an update replaces the executable: a daemon that     *)
(* serves owns the flock and the socket file.  And whatever the mirror     *)
(* serves, an update runs nothing whose signed manifest was not verified.  *)
(***************************************************************************)
EXTENDS DaemonLifecycle, TLAPS

ProcStates == {"none", "started", "locked", "serving", "leaving", "exiting"}
Owning == {"locked", "serving", "leaving", "exiting"}

(* The flock is what the invariant rests on: from Flock to the end of the  *)
(* process at most one process can touch the socket file.                  *)
LockInv ==
    /\ proc \in [Procs -> ProcStates]
    /\ \A p \in Procs : proc[p] \in Owning => lock = p
    /\ \A p \in Procs : proc[p] = "serving" => socket = p

(* No step of a caller but Spawn and Receive touches a process, and none   *)
(* touches flock or socket.                                                *)
LEMMA CallersKeepLockInv ==
    ASSUME LockInv, NEW c \in Callers, CallerStep(c)
    PROVE  LockInv'
<1> USE DEF LockInv, ProcStates, Owning
<1>1. CASE Connect(c) \/ Broken(c) \/ Reply(c) \/ SpawnFails(c)
  BY <1>1 DEF Connect, Broken, Reply, SpawnFails, procVars
<1>2. ASSUME NEW p \in Procs, Spawn(c, p)
      PROVE  LockInv'
  BY <1>2 DEF Spawn
<1>3. ASSUME NEW p \in Procs, Accept(p, c)
      PROVE  LockInv'
  BY <1>3 DEF Accept, procVars
<1>4. ASSUME NEW p \in Procs, Receive(p, c)
      PROVE  LockInv'
  <2>1. proc[p] = "serving"
    BY <1>4 DEF Receive
  <2>2. lock' = lock /\ socket' = socket
    BY <1>4 DEF Receive
  <2>3. CASE proc' = [proc EXCEPT ![p] = "leaving"]
    BY <2>1, <2>2, <2>3
  <2>4. CASE proc' = proc
    BY <2>2, <2>4
  <2> QED BY <1>4, <2>3, <2>4 DEF Receive
<1> QED BY <1>1, <1>2, <1>3, <1>4 DEF CallerStep

LEMMA ProcessesKeepLockInv ==
    ASSUME LockInv, NEW p \in Procs, DaemonStep(p) \/ Idle(p) \/ Crash(p)
    PROVE  LockInv'
<1> USE LifecycleAssumption DEF LockInv, ProcStates, Owning
<1>1. CASE Flock(p)
  <2>1. CASE lock = NoProc
    BY <1>1, <2>1 DEF Flock
  <2>2. CASE lock # NoProc
    BY <1>1, <2>2 DEF Flock
  <2> QED BY <2>1, <2>2
<1>2. CASE Bind(p)
  BY <1>2 DEF Bind
<1>3. CASE Unlink(p)
  BY <1>3 DEF Unlink
<1>4. CASE Idle(p)
  BY <1>4 DEF Idle
<1>5. CASE Exit(p) \/ Crash(p)
  <2>1. Gone(p) /\ socket' = socket
    BY <1>5 DEF Exit, Crash
  <2>2. /\ proc' = [proc EXCEPT ![p] = "none"]
        /\ lock' = IF lock = p THEN NoProc ELSE lock
    BY <2>1 DEF Gone
  <2> QED BY <2>1, <2>2
<1> QED BY <1>1, <1>2, <1>3, <1>4, <1>5 DEF DaemonStep

(* A daemon that serves owns the flock and its socket file leads to it.    *)
THEOREM ReachableWhileServing == Spec => []ServingIsReachable
<1>1. Init => LockInv
  BY DEF Init, LockInv, ProcStates, Owning
<1>2. LockInv /\ [Next]_vars => LockInv'
  <2> SUFFICES ASSUME LockInv, [Next]_vars PROVE LockInv'
    OBVIOUS
  <2>1. ASSUME NEW p \in Procs, DaemonStep(p) \/ Idle(p) \/ Crash(p)
        PROVE  LockInv'
    BY <2>1, ProcessesKeepLockInv
  <2>2. ASSUME NEW c \in Callers, CallerStep(c)
        PROVE  LockInv'
    BY <2>2, CallersKeepLockInv
  <2>3. ASSUME NEW c \in Callers, Ask(c)
        PROVE  LockInv'
    BY <2>3 DEF Ask, procVars, LockInv
  <2>4. CASE TaskStep \/ Update \/ Uninstall
    BY <2>4 DEF TaskStep, Fetch, Fetched, Replace, Update, Uninstall, procVars, LockInv
  <2>5. CASE MirrorMoves /\ UNCHANGED <<procVars, callerVars, taskVars, crashes>>
    BY <2>5 DEF procVars, LockInv
  <2>6. CASE UNCHANGED vars
    BY <2>6 DEF vars, procVars, LockInv
  <2> QED BY <2>1, <2>2, <2>3, <2>4, <2>5, <2>6 DEF Next
<1>3. LockInv => ServingIsReachable
  BY DEF LockInv, ServingIsReachable, Owning
<1> QED BY <1>1, <1>2, <1>3, PTL DEF Spec

-----------------------------------------------------------------------------
(* The release being fetched.  A downloaded asset is not missing, and what *)
(* was authenticated or verified stays as it was until it is used.         *)
AssetTypes ==
    /\ latest \in Releases
    /\ asset \in [Assets -> Releases \cup {Junk, Missing}]

FetchInv ==
    /\ AssetTypes
    /\ fetching = "off" => asset = Empty
    /\ fetching \in {"signature", "authenticate"} => asset["manifest"] # Missing
    /\ VerifiedBeforeUse

LEMMA RefusedIsFetchInv ==
    ASSUME FetchInv, Refused, latest' = latest
    PROVE  FetchInv'
<1>1. Empty \in [Assets -> Releases \cup {Junk, Missing}]
  BY DEF Empty
<1> QED
  BY <1>1 DEF Refused, FetchInv, AssetTypes, VerifiedBeforeUse

LEMMA DownloadKeepsFetchInv ==
    ASSUME FetchInv, NEW a \in Assets, Download(a)
    PROVE  FetchInv'
<1>1. CASE Refused
  BY <1>1, RefusedIsFetchInv DEF Download
<1>2. ASSUME NEW r \in Releases \cup {Junk},
             asset' = [asset EXCEPT ![a] = r], fetching' = After[a]
      PROVE  FetchInv'
  <2>1. r # Missing /\ latest' = latest /\ AssetTypes'
    BY <1>2, ReleaseAssumption DEF Download, FetchInv, AssetTypes, Missing
  <2>2. /\ asset'[a] = r
        /\ \A b \in Assets : b # a => asset'[b] = asset[b]
    BY <1>2 DEF FetchInv, AssetTypes
  <2>3. CASE a = "manifest"
    BY <1>2, <2>1, <2>2, <2>3 DEF After, Assets, FetchInv, VerifiedBeforeUse
  <2>4. CASE a = "signature"
    BY <1>2, <2>1, <2>2, <2>4 DEF Download, After, Assets, FetchInv, VerifiedBeforeUse
  <2>5. CASE a \in {"archive", "checksum"}
    <3>1. fetching' \in {"checksum", "verify"} /\ fetching \in {"archive", "checksum"}
      BY <1>2, <2>5 DEF Download, After
    <3>2. asset'["manifest"] = asset["manifest"] /\ asset'["signature"] = asset["signature"]
      BY <2>2, <2>5 DEF Assets
    <3> QED
      BY <2>1, <3>1, <3>2 DEF FetchInv, VerifiedBeforeUse
  <2> QED
    BY <2>3, <2>4, <2>5 DEF Assets
<1> QED
  BY <1>1, <1>2 DEF Download, FetchInv, AssetTypes

LEMMA FetchKeepsFetchInv ==
    ASSUME FetchInv, NEW target, FetchStep(target)
    PROVE  FetchInv'
<1>1. CASE Authenticate
  <2>1. CASE Authentic
    <3>1. asset["manifest"] \in Releases
      BY <1>1, <2>1 DEF Authenticate, Authentic, FetchInv, AssetTypes, Assets
    <3> QED
      BY <1>1, <2>1, <3>1
         DEF Authenticate, Authentic, FetchInv, AssetTypes, VerifiedBeforeUse
  <2>2. CASE ~Authentic
    BY <1>1, <2>2, RefusedIsFetchInv DEF Authenticate
  <2> QED
    BY <2>1, <2>2
<1>2. CASE Verify
  <2>1. CASE ArchiveMatches
    BY <1>2, <2>1 DEF Verify, ArchiveMatches, FetchInv, AssetTypes, VerifiedBeforeUse
  <2>2. CASE ~ArchiveMatches
    BY <1>2, <2>2, RefusedIsFetchInv DEF Verify
  <2> QED
    BY <2>1, <2>2
<1>3. CASE Extract
  <2>1. CASE Refused
    BY <1>3, <2>1, RefusedIsFetchInv DEF Extract
  <2>2. CASE ~Refused
    BY <1>3, <2>2 DEF Extract, FetchInv, AssetTypes, VerifiedBeforeUse
  <2> QED
    BY <2>1, <2>2
<1>4. CASE Validate(target)
  <2>1. CASE Refused
    BY <1>4, <2>1, RefusedIsFetchInv DEF Validate
  <2>2. CASE fetching' = "ready" /\ asset' = Empty
    <3>1. Empty \in [Assets -> Releases \cup {Junk, Missing}]
      BY DEF Empty
    <3> QED
      BY <1>4, <2>2, <3>1 DEF Validate, FetchInv, AssetTypes, VerifiedBeforeUse
  <2> QED
    BY <1>4, <2>1, <2>2 DEF Validate
<1> QED
  BY <1>1, <1>2, <1>3, <1>4, DownloadKeepsFetchInv DEF FetchStep

LEMMA NextKeepsFetchInv == FetchInv /\ [Next]_vars => FetchInv'
<1> SUFFICES ASSUME FetchInv, [Next]_vars PROVE FetchInv'
  OBVIOUS
<1>1. ASSUME UNCHANGED <<latest, asset, fetching, candidate>> PROVE FetchInv'
  BY <1>1 DEF FetchInv, AssetTypes, VerifiedBeforeUse
<1>2. CASE Fetch
  BY <1>2, FetchKeepsFetchInv DEF Fetch
<1>3. CASE Update
  BY <1>3 DEF Update, BeginUpdate, FetchInv, AssetTypes, VerifiedBeforeUse
<1>4. CASE MirrorMoves
  BY <1>4 DEF MirrorMoves, FetchInv, AssetTypes, VerifiedBeforeUse
<1>5. CASE Replace \/ Fetched \/ Uninstall \/ UNCHANGED vars
  BY <1>1, <1>5 DEF Replace, Fetched, Uninstall, vars, releaseVars
<1>6. ASSUME NEW p \in Procs, DaemonStep(p) \/ Idle(p) \/ Crash(p) PROVE FetchInv'
  BY <1>1, <1>6 DEF DaemonStep, Flock, Bind, Unlink, Exit, Idle, Crash, releaseVars
<1>7. ASSUME NEW c \in Callers, CallerStep(c) \/ Ask(c) PROVE FetchInv'
  BY <1>1, <1>7
     DEF CallerStep, Connect, Broken, Reply, SpawnFails, Spawn, Accept, Receive, Ask, releaseVars
<1> QED
  BY <1>2, <1>3, <1>4, <1>5, <1>6, <1>7 DEF Next, TaskStep

(* Whatever the mirror serves and however it moves on between downloads,   *)
(* what is unpacked and run is the archive of the release whose signed     *)
(* manifest was verified before (release_download.rs, release_auth.rs).    *)
THEOREM NothingUnverifiedRuns == Spec => []VerifiedBeforeUse
<1>1. Init => FetchInv
  BY DEF Init, ReleaseInit, Empty, FetchInv, AssetTypes, VerifiedBeforeUse
<1>2. FetchInv /\ [Next]_vars => FetchInv'
  BY NextKeepsFetchInv
<1>3. FetchInv => VerifiedBeforeUse
  BY DEF FetchInv
<1> QED
  BY <1>1, <1>2, <1>3, PTL DEF Spec
=============================================================================
