-------------------------- MODULE DaemonLifecycle ---------------------------
(***************************************************************************)
(* Starting, finding, stopping and replacing the daemon: daemon.rs,        *)
(* daemon/server.rs run(), and lifecycle.rs update() and uninstall().      *)
(*                                                                         *)
(* Any client that cannot reach the socket spawns a daemon from the        *)
(* installed executable and tries again.  A daemon process takes the flock *)
(* of daemon.lock or exits, replaces the socket, serves until it is        *)
(* stopped or idle, removes the socket and exits, which drops the flock.   *)
(***************************************************************************)
EXTENDS Release

CONSTANTS
    Clients,        \* processes that query the daemon
    Updater,        \* the process that runs update or uninstall
    Procs,          \* bound: daemon processes alive at once
    NoProc,
    MaxTries,       \* bound for the 50 attempts after a daemon was spawned
    MaxCrashes      \* bound: daemon processes that are killed

ASSUME LifecycleAssumption ==
    /\ Updater \notin Clients /\ NoProc \notin Procs
    /\ MaxTries \in Nat \ {0} /\ MaxCrashes \in Nat

VARIABLES
    installed,  \* version of the executable, Missing when it was removed
    proc,       \* [Procs -> where the daemon process is]
    image,      \* [Procs -> version it was started from]
    lock,       \* holder of the flock
    socket,     \* process that bound the socket file, or NoProc without file
    pc,         \* [Callers -> where the exchange with the daemon is]
    at,         \* [Callers -> daemon a connection leads to]
    tries,      \* [Callers -> attempts after spawning a daemon]
    task,       \* what the updater is at
    wasRunning, \* what stop_for_lifecycle returned
    crashes

procVars == <<proc, image, lock, socket>>
callerVars == <<pc, at, tries>>
taskVars == <<task, wasRunning, installed>>
vars == <<releaseVars, procVars, callerVars, taskVars, crashes>>

-----------------------------------------------------------------------------
Callers == Clients \cup {Updater}

Listening == {"serving", "leaving"}
Tasks == {"off", "fetch", "ping", "stop", "replace", "restart", "restore", "done", "failed"}

Init ==
    /\ ReleaseInit
    /\ installed = Current
    /\ proc = [p \in Procs |-> "none"]
    /\ image = [p \in Procs |-> Missing]
    /\ lock = NoProc
    /\ socket = NoProc
    /\ pc = [c \in Callers |-> "idle"]
    /\ at = [c \in Callers |-> NoProc]
    /\ tries = [c \in Callers |-> 0]
    /\ task = "off"
    /\ wasRunning = FALSE
    /\ crashes = 0

-----------------------------------------------------------------------------
(* exchange(): one connection, one request, one reply. *)
Goes(c, where, n) ==
    /\ pc' = [pc EXCEPT ![c] = where]
    /\ at' = [at EXCEPT ![c] = NoProc]
    /\ tries' = [tries EXCEPT ![c] = n]

(* query(): spawn once, then try again MaxTries times; its caller falls    *)
(* back to the scheduler.                                                  *)
ClientFailed(c) ==
    /\ IF tries[c] = 0 THEN Goes(c, "spawn", 0)
       ELSE IF tries[c] < MaxTries THEN Goes(c, "connect", tries[c] + 1)
       ELSE Goes(c, "idle", 0)
    /\ UNCHANGED <<task, wasRunning>>

Ends(outcome) == Goes(Updater, "idle", 0) /\ task' = outcome

(* A failing ping says the daemon does not run, a failing stop ends the    *)
(* command, and the pings after a start are repeated.                      *)
UpdaterFailed ==
    \/ task = "ping" /\ Ends("replace") /\ wasRunning' = FALSE
    \/ task = "stop" /\ Ends("failed") /\ UNCHANGED wasRunning
    \/ /\ task \in {"restart", "restore"}
       /\ IF tries[Updater] < MaxTries
          THEN Goes(Updater, "connect", tries[Updater] + 1) /\ UNCHANGED task
          ELSE Ends("failed")
       /\ UNCHANGED wasRunning

RetryForever(c) ==     \* mutant: the attempts are not counted
    IF c = Updater THEN UpdaterFailed
    ELSE /\ IF tries[c] = 0 THEN Goes(c, "spawn", 0) ELSE Goes(c, "connect", 1)
         /\ UNCHANGED <<task, wasRunning>>

Failed(c) == IF c = Updater THEN UpdaterFailed ELSE ClientFailed(c)

Replied(c) ==
    \/ c # Updater /\ Goes(c, "idle", 0) /\ UNCHANGED <<task, wasRunning>>
    \/ /\ c = Updater
       /\ \/ /\ task = "ping"
             /\ Goes(c, "connect", 0) /\ task' = "stop" /\ wasRunning' = TRUE
          \/ task = "stop" /\ Ends("replace") /\ UNCHANGED wasRunning
          \/ task = "restart" /\ Ends("done") /\ UNCHANGED wasRunning
          \/ task = "restore" /\ Ends("failed") /\ UNCHANGED wasRunning

(* bound: no client asks while a release is being fetched, which shares no *)
(* state with it.                                                          *)
Ask(c) ==
    /\ c \in Clients
    /\ pc[c] = "idle"
    /\ fetching \in {"off", "ready", "refused"}
    /\ Goes(c, "connect", 0)
    /\ UNCHANGED <<releaseVars, procVars, taskVars, crashes>>

Connect(c) ==
    /\ pc[c] = "connect"
    /\ IF socket # NoProc /\ proc[socket] \in Listening
       THEN /\ pc' = [pc EXCEPT ![c] = "backlog"]
            /\ at' = [at EXCEPT ![c] = socket]
            /\ UNCHANGED <<tries, task, wasRunning>>
       ELSE Failed(c)
    /\ UNCHANGED <<releaseVars, procVars, installed, crashes>>

(* The daemon is gone, or CLIENT_TIMEOUT is over. *)
Broken(c) ==
    /\ \/ pc[c] = "broken" /\ UNCHANGED mishaps
       \/ pc[c] \in {"backlog", "queued", "working"} /\ Mishap
    /\ Failed(c)
    /\ UNCHANGED <<latest, asset, fetching, candidate, procVars, installed, crashes>>

(* start() *)
Spawn(c, p) ==
    /\ pc[c] = "spawn"
    /\ installed # Missing
    /\ proc[p] = "none"
    /\ proc' = [proc EXCEPT ![p] = "started"]
    /\ image' = [image EXCEPT ![p] = installed]
    /\ Goes(c, "connect", 1)
    /\ UNCHANGED <<releaseVars, lock, socket, taskVars, crashes>>

SpawnFails(c) ==
    /\ pc[c] = "spawn"
    /\ installed = Missing
    /\ Goes(c, "idle", 0)
    /\ UNCHANGED <<releaseVars, procVars, taskVars, crashes>>

-----------------------------------------------------------------------------
(* run(): the flock, or a silent exit. *)
NoFlock(p) ==     \* mutant: the result of flock is ignored
    /\ proc[p] = "started"
    /\ lock' = p
    /\ proc' = [proc EXCEPT ![p] = "locked"]
    /\ UNCHANGED <<releaseVars, image, socket, callerVars, taskVars, crashes>>

Flock(p) ==
    /\ proc[p] = "started"
    /\ IF lock = NoProc
       THEN /\ lock' = p
            /\ proc' = [proc EXCEPT ![p] = "locked"]
            /\ UNCHANGED image
       ELSE /\ proc' = [proc EXCEPT ![p] = "none"]
            /\ image' = [image EXCEPT ![p] = Missing]
            /\ UNCHANGED lock
    /\ UNCHANGED <<releaseVars, socket, callerVars, taskVars, crashes>>

(* Remove the old socket file and bind a new one. *)
Bind(p) ==
    /\ proc[p] = "locked"
    /\ proc' = [proc EXCEPT ![p] = "serving"]
    /\ socket' = p
    /\ UNCHANGED <<releaseVars, image, lock, callerVars, taskVars, crashes>>

(* The accept thread. *)
Accept(p, c) ==
    /\ pc[c] = "backlog" /\ at[c] = p
    /\ proc[p] \in Listening
    /\ pc' = [pc EXCEPT ![c] = "queued"]
    /\ UNCHANGED <<releaseVars, procVars, at, tries, taskVars, crashes>>

(* The receive loop: a stop is answered and ends it, every other request   *)
(* gets a thread.                                                          *)
Receive(p, c) ==
    /\ proc[p] = "serving"
    /\ pc[c] = "queued" /\ at[c] = p
    /\ IF c = Updater /\ task = "stop"
       THEN /\ proc' = [proc EXCEPT ![p] = "leaving"]
            /\ Replied(c)
       ELSE /\ pc' = [pc EXCEPT ![c] = "working"]
            /\ UNCHANGED <<proc, at, tries, task, wasRunning>>
    /\ UNCHANGED <<releaseVars, image, lock, socket, installed, crashes>>

Reply(c) ==
    /\ pc[c] = "working"
    /\ Replied(c)
    /\ UNCHANGED <<releaseVars, procVars, installed, crashes>>

(* IDLE_TIMEOUT: nothing is in the channel, whatever the accept thread is  *)
(* about to put there.                                                     *)
Idle(p) ==
    /\ proc[p] = "serving"
    /\ \A c \in Callers : ~(pc[c] = "queued" /\ at[c] = p)
    /\ proc' = [proc EXCEPT ![p] = "leaving"]
    /\ UNCHANGED <<releaseVars, image, lock, socket, callerVars, taskVars, crashes>>

Unlink(p) ==
    /\ proc[p] = "leaving"
    /\ socket' = NoProc
    /\ proc' = [proc EXCEPT ![p] = "exiting"]
    /\ UNCHANGED <<releaseVars, image, lock, callerVars, taskVars, crashes>>

(* The end of the process drops its flock and breaks its connections. *)
Gone(p) ==
    /\ proc' = [proc EXCEPT ![p] = "none"]
    /\ image' = [image EXCEPT ![p] = Missing]
    /\ lock' = IF lock = p THEN NoProc ELSE lock
    /\ pc' = [c \in Callers |-> IF at[c] = p THEN "broken" ELSE pc[c]]
    /\ at' = [c \in Callers |-> IF at[c] = p THEN NoProc ELSE at[c]]

Exit(p) ==
    /\ proc[p] = "exiting"
    /\ Gone(p)
    /\ UNCHANGED <<releaseVars, socket, tries, taskVars, crashes>>

Crash(p) ==
    /\ proc[p] # "none"
    /\ crashes < MaxCrashes /\ crashes' = crashes + 1
    /\ Gone(p)
    /\ UNCHANGED <<releaseVars, socket, tries, taskVars>>

-----------------------------------------------------------------------------
Update ==
    /\ task = "off"
    /\ BeginUpdate
    /\ task' = "fetch"
    /\ UNCHANGED <<procVars, callerVars, installed, wasRunning, crashes>>

Fetch ==
    /\ task = "fetch"
    /\ FetchStep(installed)
    /\ UNCHANGED <<procVars, callerVars, taskVars, crashes>>

Fetched ==
    /\ task = "fetch" /\ fetching \in {"ready", "refused"}
    /\ IF fetching = "ready"
       THEN task' = "ping" /\ Goes(Updater, "connect", 0)
       ELSE task' = "failed" /\ UNCHANGED callerVars
    /\ UNCHANGED <<releaseVars, procVars, installed, wasRunning, crashes>>

Uninstall ==
    /\ task = "off"
    /\ task' = "ping"
    /\ Goes(Updater, "connect", 0)
    /\ UNCHANGED <<releaseVars, procVars, installed, wasRunning, crashes>>

(* atomic_replace or remove_file; when it fails, the daemon is started     *)
(* again and the result ignored.                                           *)
Replace ==
    /\ task = "replace"
    /\ \/ /\ installed' = candidate
          /\ IF wasRunning /\ candidate # Missing
             THEN task' = "restart" /\ Goes(Updater, "spawn", 0)
             ELSE task' = "done" /\ UNCHANGED callerVars
          /\ UNCHANGED mishaps
       \/ /\ Mishap
          /\ IF wasRunning
             THEN task' = "restore" /\ Goes(Updater, "spawn", 0)
             ELSE task' = "failed" /\ UNCHANGED callerVars
          /\ UNCHANGED installed
    /\ UNCHANGED <<latest, asset, fetching, candidate, procVars, wasRunning, crashes>>

DaemonStep(p) == Flock(p) \/ Bind(p) \/ Unlink(p) \/ Exit(p)

CallerStep(c) ==
    \/ Connect(c) \/ Broken(c) \/ Reply(c) \/ SpawnFails(c)
    \/ \E p \in Procs : Spawn(c, p) \/ Accept(p, c) \/ Receive(p, c)

TaskStep == Fetch \/ Fetched \/ Replace

Next ==
    \/ \E p \in Procs : DaemonStep(p) \/ Idle(p) \/ Crash(p)
    \/ \E c \in Callers : CallerStep(c) \/ Ask(c)
    \/ TaskStep \/ Update \/ Uninstall
    \/ MirrorMoves /\ UNCHANGED <<procVars, callerVars, taskVars, crashes>>

Spec == Init /\ [][Next]_vars

(* Processes run, connections are served in their order, and a broken one  *)
(* is noticed.  Strong fairness, because the bound Procs can keep a caller *)
(* from spawning again and again, which the system cannot.                 *)
Fairness ==
    /\ \A p \in Procs : WF_vars(DaemonStep(p))
    /\ \A c \in Callers : SF_vars(CallerStep(c))
    /\ WF_vars(TaskStep)

FairSpec == Spec /\ Fairness

-----------------------------------------------------------------------------
TypeOK ==
    /\ ReleaseTypeOK
    /\ installed \in Releases \cup {Current, Missing}
    /\ proc \in [Procs -> {"none", "started", "locked", "serving", "leaving", "exiting"}]
    /\ image \in [Procs -> Releases \cup {Current, Missing}]
    /\ lock \in Procs \cup {NoProc}
    /\ socket \in Procs \cup {NoProc}
    /\ pc \in [Callers -> {"idle", "connect", "spawn", "backlog", "queued", "working", "broken"}]
    /\ at \in [Callers -> Procs \cup {NoProc}]
    /\ tries \in [Callers -> 0..MaxTries]
    /\ task \in Tasks
    /\ wasRunning \in BOOLEAN /\ crashes \in 0..MaxCrashes

(* A daemon that serves can be reached: neither a daemon that starts nor   *)
(* one that leaves ever takes its socket away, so no second daemon is      *)
(* spawned next to it.                                                     *)
ServingIsReachable ==
    \A p \in Procs : proc[p] = "serving" => socket = p /\ lock = p

(* A client that meets a stopping, dying or idle daemon gets an answer or  *)
(* falls back to the scheduler; an update or uninstall ends.               *)
EveryoneEnds ==
    /\ \A c \in Clients : pc[c] # "idle" ~> pc[c] = "idle"
    /\ task # "off" ~> task \in {"done", "failed"}

(* README: "If the private daemon was running, it is restarted with the    *)
(* new binary."                                                            *)
UpdatedDaemonIsNew ==
    task = "done" /\ wasRunning /\ candidate # Missing =>
        \A p \in Procs : proc[p] = "serving" => image[p] = installed
=============================================================================
