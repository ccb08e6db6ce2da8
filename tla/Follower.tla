------------------------------ MODULE Follower ------------------------------
(***************************************************************************)
(* The process in a log pane: follow::run with its supervised tail         *)
(* (follow.rs), the monitor it runs while there is no log to show, and the *)
(* prompt before the pane closes.  A job has at most one pane here; what   *)
(* several processes do to the panes themselves is module Workspace.       *)
(***************************************************************************)
EXTENDS ClusterView

CONSTANTS
    PollInterval    \* FOLLOWER_SCHEDULER_POLL_INTERVAL in ticks

(* A listing that lacks a job was answered before the job was registered.  *)
(* It must be out of use when a follower may poll for the second time, two *)
(* intervals after it began: the answer has to arrive within 15 seconds.   *)
ASSUME FollowerAssumption ==
    /\ PollInterval \in Nat
    /\ QueueTtl + CallLimit < 2 * PollInterval

VARIABLES
    pane,       \* [Jobs -> the follower in the job's pane]
    stopped     \* jobs whose tail the supervisor has killed (history)

followerVars == <<pane, stopped>>

(* given: the state the pane was started with; seen: the monitor's copy;   *)
(* timer: ticks to next_scheduler_poll; polling: inside queued().          *)
NoPane == [phase |-> "closed", given |-> "unknown", seen |-> "unknown", misses |-> 0,
           timer |-> 0, polling |-> FALSE]
NewPane(given) == [NoPane EXCEPT !.phase = "resolve", !.given = given]

FollowerInit ==
    /\ pane = [j \in Jobs |-> NoPane]
    /\ stopped = {}

In(j, phase) == pane[j].phase = phase
Set(j, p) == pane' = [pane EXCEPT ![j] = p]
Go(j, phase) == Set(j, [NoPane EXCEPT !.phase = phase])

(* supervise_follower begins: the first poll is a whole interval away. *)
Supervise(j) == Set(j, [NoPane EXCEPT !.phase = "follow", !.timer = PollInterval])

(* From the picker, right after sbatch, or by name: the state passed on may *)
(* be older than the job's.                                                *)
Openable(j) == {"unknown", "pending"} \cup ({queue[j]} \ {"absent"})

Open(j) ==
    /\ In(j, "closed")
    /\ \E g \in Openable(j) : Set(j, NewPane(g))
    /\ UNCHANGED <<stopped, clusterVars>>

(* run(): without a path a monitor takes over; only a pending job may be   *)
(* unknown to the scheduler.                                               *)
WatchFrom(j) == Set(j, [NoPane EXCEPT !.phase = "watch", !.seen = pane[j].given])

Resolve(j) ==
    /\ In(j, "resolve")
    /\ \E path \in Paths(j) :
         \/ path = "error" /\ pane[j].given = "pending" /\ WatchFrom(j)
         \/ path = "error" /\ pane[j].given # "pending" /\ Go(j, "dead")
         \/ path = "no path" /\ WatchFrom(j)
         \/ path = "path" /\ ~file[j] /\ Go(j, "wait")
         \/ path = "path" /\ file[j] /\ Supervise(j)
    /\ UNCHANGED <<stopped, clusterVars>>

(* A local log is waited for before anything supervises the follower. *)
FileAppears(j) ==
    /\ In(j, "wait") /\ file[j]
    /\ Supervise(j)
    /\ UNCHANGED <<stopped, clusterVars>>

(* observe_queue: two listings in a row without the job. *)
MissesForgotten(j, jobs) == IF j \in jobs THEN 0 ELSE 2     \* mutant: one listing is enough
MissesKept(j, jobs) == 0                                     \* mutant: misses are never counted
Misses(j, jobs) == IF j \in jobs THEN 0 ELSE pane[j].misses + 1

(* The next poll is timed from here, before queued() is called: it may     *)
(* well find the listing that this one reads or stores.                    *)
BeginPoll(j) ==
    /\ In(j, "follow") /\ ~pane[j].polling
    /\ pane[j].timer = 0
    /\ Set(j, [pane[j] EXCEPT !.polling = TRUE, !.timer = PollInterval])
    /\ UNCHANGED <<stopped, clusterVars>>

Polling(j) == In(j, "follow") /\ pane[j].polling

Judge(j, jobs) ==
    LET n == Misses(j, jobs)
    IN  /\ IF n >= 2 THEN Go(j, "ending")
           ELSE Set(j, [pane[j] EXCEPT !.misses = n, !.polling = FALSE])
        /\ stopped' = IF n >= 2 THEN stopped \cup {j} ELSE stopped \ {j}

ReadCache(j) ==
    /\ Polling(j) /\ ~Calling({j})
    /\ cached # None
    /\ Judge(j, cached.jobs)
    /\ UNCHANGED clusterVars

Ask(j) ==
    /\ Polling(j)
    /\ Asks({j})
    /\ UNCHANGED <<followerVars, queue, kind, file, down>>

Store(j) ==
    /\ Polling(j)
    /\ Stores({j})
    /\ Judge(j, call.jobs)
    /\ UNCHANGED <<queue, kind, file, down>>

PollFails(j) ==
    /\ Polling(j)
    /\ QueueFails({j})
    /\ Set(j, [pane[j] EXCEPT !.misses = 0, !.polling = FALSE])
    /\ UNCHANGED <<stopped, queue, kind, file, down>>

FinishPoll(j) == ReadCache(j) \/ Ask(j) \/ Store(j) \/ PollFails(j)

(* tail or its ssh ends by itself. *)
TailDies(j) ==
    /\ In(j, "follow") /\ ~pane[j].polling
    /\ Go(j, "ending")
    /\ UNCHANGED <<stopped, clusterVars>>

Interrupt(j) ==
    /\ In(j, "follow") /\ ~pane[j].polling
    /\ Go(j, "closing")
    /\ UNCHANGED <<stopped, clusterVars>>

(* The message drawn from final_details and a last look at the queue, and  *)
(* the prompt.                                                             *)
Report(j) ==
    /\ In(j, "ending")
    /\ Go(j, "prompt")
    /\ UNCHANGED <<stopped, clusterVars>>

-----------------------------------------------------------------------------
(* run_interactive_monitor: one refresh every three seconds. *)
Snapshot(j, rows) ==
    IF rows[j] # "absent" THEN [pane[j] EXCEPT !.seen = rows[j], !.misses = 0]
    ELSE [pane[j] EXCEPT !.misses = IF @ < 2 THEN @ + 1 ELSE @]

AttachesPending(p, path) == p.seen = "pending" /\ path = "path"     \* mutant: a running job is not looked up
Attaches(p, path) == p.seen \in Active /\ path = "path"

GivesUp(p) == p.misses >= 2 \/ p.seen \notin Active

Refresh(j) ==
    /\ In(j, "watch")
    /\ \E frame \in Frames, path \in Paths(j) :
         LET p == Snapshot(j, frame.rows)
         IN  \/ Attaches(p, path) /\ Set(j, NewPane(p.seen))
             \/ ~Attaches(p, path) /\ GivesUp(p) /\ Go(j, "prompt")
             \/ ~Attaches(p, path) /\ ~GivesUp(p) /\ Set(j, p)
    /\ UNCHANGED <<stopped, clusterVars>>

(* Enter closes the monitor, or the pane behind the last message. *)
Enter(j) ==
    /\ pane[j].phase \in {"watch", "prompt"}
    /\ Go(j, "closing")
    /\ UNCHANGED <<stopped, clusterVars>>

(* A process that goes takes its call with it, and the lock is free. *)
HangUp(jobs) == call' = IF \E j \in jobs : Calling({j}) THEN None ELSE call

(* defer_pane_close; and Ctrl-b x closes any pane. *)
PaneGoes(j) ==
    /\ ~In(j, "closed")
    /\ Set(j, NoPane)
    /\ HangUp({j})
    /\ UNCHANGED <<stopped, queue, kind, file, down, cached>>

TimersRun ==
    /\ pane' = [j \in Jobs |-> [pane[j] EXCEPT !.timer = IF @ > 0 THEN @ - 1 ELSE 0]]
    /\ UNCHANGED stopped

Follow(j) ==
    \/ Resolve(j) \/ FileAppears(j) \/ BeginPoll(j) \/ FinishPoll(j)
    \/ TailDies(j) \/ Interrupt(j)
    \/ Report(j) \/ Refresh(j) \/ Enter(j) \/ PaneGoes(j)

=============================================================================
