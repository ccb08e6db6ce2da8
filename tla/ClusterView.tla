----------------------------- MODULE ClusterView -----------------------------
(***************************************************************************)
(* What the terminal processes of slurm-log can learn about one cluster's  *)
(* jobs.  The cluster itself is outside the repository: jobs are           *)
(* registered, start and end, and now and then the controller does not     *)
(* answer.  The repository's part is what an answer looks like:            *)
(* slurm::queued with its cache file of 15 seconds (slurm.rs), the merged  *)
(* listing of slurm::all_jobs, which an outage thins out and marks with a  *)
(* warning (slurm/aggregate.rs), the authorized look-up of a log's path    *)
(* (slurm/log_path.rs).                                                    *)
(***************************************************************************)
EXTENDS Naturals

CONSTANTS
    Jobs,
    QueueTtl,       \* QUEUE_CACHE_TTL in ticks
    CallLimit       \* ticks from the controller's answer to the end of the call

ASSUME ClusterAssumption == QueueTtl \in Nat /\ CallLimit \in Nat

VARIABLES
    queue,      \* [Jobs -> the job's true state]
    kind,       \* [Jobs -> whether it writes a log]
    file,       \* [Jobs -> tail can be started: the log is on another host, or exists]
    down,       \* the controller does not answer
    cached,     \* queue-v3-<cluster>-cache: a usable listing, or None
    call        \* the squeue whose answer is on its way, or None

clusterVars == <<queue, kind, file, down, cached, call>>

Active == {"pending", "running"}
Ended == {"completed", "failed"}        \* CANCELLED and TIMEOUT count as failed
Kinds == {"batch", "interactive"}
None == <<>>

ClusterInit ==
    /\ queue \in [Jobs -> {"absent", "pending", "running"}]
    /\ kind \in [Jobs -> Kinds]
    /\ \E elsewhere \in SUBSET {j \in Jobs : kind[j] = "batch"} :
         file = [j \in Jobs |-> j \in elsewhere \/ queue[j] = "running"]
    /\ down = FALSE
    /\ cached = None
    /\ call = None

(* An ended job stays ended: no requeue. *)
Becomes(j, states) ==
    /\ \E s \in states : queue' = [queue EXCEPT ![j] = s]
    /\ UNCHANGED <<kind, down, cached, call>>

Register(j) == queue[j] = "absent" /\ Becomes(j, {"pending"}) /\ UNCHANGED file
Start(j) == queue[j] = "pending" /\ Becomes(j, {"running"}) /\ file' = [file EXCEPT ![j] = TRUE]
End(j) ==
    /\ \/ queue[j] = "running" /\ Becomes(j, Ended)
       \/ queue[j] = "pending" /\ Becomes(j, {"failed"})
    /\ UNCHANGED file

Outage ==
    /\ ~down
    /\ down' = TRUE
    /\ UNCHANGED <<queue, kind, file, cached, call>>

Recovery == down /\ down' = FALSE /\ UNCHANGED <<queue, kind, file, cached, call>>

-----------------------------------------------------------------------------
(* squeue lists the active jobs and no other. *)
Queued == {j \in Jobs : queue[j] \in Active}

(* queued(): a listing in the file is used while it is no older than the   *)
(* time limit.  Whoever finds none takes the lock, looks again and calls   *)
(* squeue; the listing is stored when the call ends, and its age counts    *)
(* from then.  by: the job whose pane calls; {} for any other process.     *)
Asks(by) ==
    /\ call = None /\ cached = None
    /\ ~down
    /\ call' = [by |-> by, jobs |-> Queued, held |-> 0]
    /\ UNCHANGED cached

Calling(by) == call # None /\ call.by = by

Stores(by) ==
    /\ Calling(by)
    /\ cached' = [jobs |-> call.jobs, age |-> 0]
    /\ call' = None

QueueFails(by) ==
    /\ down
    /\ call = None \/ Calling(by)
    /\ call' = None
    /\ UNCHANGED cached

(* Another process calls and leaves its listing, fails or is killed. *)
OtherAsks == Asks({}) /\ UNCHANGED <<queue, kind, file, down>>
OtherEnds ==
    /\ Calling({})
    /\ Stores({}) \/ (call' = None /\ UNCHANGED cached)
    /\ UNCHANGED <<queue, kind, file, down>>

(* invalidate_caches, for a forced query. *)
Invalidate ==
    /\ cached # None
    /\ cached' = None
    /\ UNCHANGED <<queue, kind, file, down, call>>

(* A tick: the file ages until it is of no use; an answer is not on its    *)
(* way for longer than a call may last.                                    *)
ListingsAge ==
    /\ call # None => call.held < CallLimit
    /\ call' = IF call = None THEN None ELSE [call EXCEPT !.held = @ + 1]
    /\ cached' = IF cached = None \/ cached.age = QueueTtl THEN None
                 ELSE [cached EXCEPT !.age = @ + 1]
    /\ UNCHANGED <<queue, kind, file, down>>

(* all_jobs merges squeue, which knows every active job, with accounting,  *)
(* which may be late.  Either may fail; what the other knows is listed, and *)
(* a warning names the cluster.                                             *)
Frame(known, warned) ==
    [rows |-> [j \in Jobs |-> IF j \in known THEN queue[j] ELSE "absent"], warned |-> warned]

Frames ==
    LET listed == {j \in Jobs : queue[j] # "absent"}
        active == {j \in Jobs : queue[j] \in Active}
    IN  IF down THEN {Frame(known, TRUE) : known \in SUBSET listed}
        ELSE {Frame(active, TRUE)}
             \cup {Frame(active \cup known, FALSE) : known \in SUBSET (listed \ active)}

(* terminal_path: authorize_exact_job, then scontrol or sacct. *)
Paths(j) ==
    (IF ~down /\ queue[j] # "absent"
     THEN {IF kind[j] = "interactive" THEN "no path" ELSE "path"} ELSE {})
    \cup (IF down \/ queue[j] \notin Active THEN {"error"} ELSE {})

=============================================================================
