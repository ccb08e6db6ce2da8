----------------------------- MODULE AutoMonitor -----------------------------
(***************************************************************************)
(* The auto-add monitor of a log workspace (tmux/monitor.rs, and           *)
(* toggle_auto and start_monitor of tmux/detail_pane.rs): a process that   *)
(* polls the merged listing, opens a pane for every job that appears or    *)
(* starts, and closes the pane of a pending job that failed or left.       *)
(* Switching auto-add off and on again faster than a monitor looks leaves  *)
(* two of them.  Composed with the followers in module Watch.              *)
(***************************************************************************)
EXTENDS Follower

CONSTANTS
    Monitors        \* monitor processes that may be alive at once (bound)

VARIABLES
    auto,       \* @slurm_log_auto_add
    step,       \* [Monitors -> where the loop is]
    observed,   \* [Monitors -> rows of the last frame]
    tracked,    \* [Monitors -> tracked_pending]
    missing,    \* [Monitors -> missing_pending]
    todo,       \* [Monitors -> additions and closings of the update]
    met         \* [Monitors -> [Jobs -> active states it has seen the job in]] (history)

monitorVars == <<auto, step, observed, tracked, missing, todo, met>>

NoRows == [j \in Jobs |-> "absent"]
Nothing == [add |-> {}, close |-> {}]

MonitorInit ==
    /\ auto = FALSE
    /\ step = [m \in Monitors |-> "off"]
    /\ observed = [m \in Monitors |-> NoRows]
    /\ tracked = [m \in Monitors |-> {}]
    /\ missing = [m \in Monitors |-> [j \in Jobs |-> 0]]
    /\ todo = [m \in Monitors |-> Nothing]
    /\ met = [m \in Monitors |-> [j \in Jobs |-> {}]]

Goes(m, s) == step' = [step EXCEPT ![m] = s]

(* What the process knew goes with it. *)
Forgets(m) ==
    /\ Goes(m, "off")
    /\ observed' = [observed EXCEPT ![m] = NoRows]
    /\ tracked' = [tracked EXCEPT ![m] = {}]
    /\ missing' = [missing EXCEPT ![m] = [j \in Jobs |-> 0]]
    /\ todo' = [todo EXCEPT ![m] = Nothing]
    /\ met' = [met EXCEPT ![m] = [j \in Jobs |-> {}]]

(* toggle_auto, and start_monitor when it switches on. *)
SwitchOn(m) ==
    /\ ~auto /\ step[m] = "off"
    /\ auto' = TRUE
    /\ Goes(m, "start")
    /\ UNCHANGED <<observed, tracked, missing, todo, met, clusterVars, followerVars>>

SwitchOff ==
    /\ auto
    /\ auto' = FALSE
    /\ UNCHANGED <<step, observed, tracked, missing, todo, met, clusterVars, followerVars>>

(* The active states the monitor remembers to have seen a job in; after a  *)
(* warned frame, none.                                                     *)
Meet(m, frame) ==
    met' = [met EXCEPT ![m] = [j \in Jobs |->
               IF frame.warned THEN {} ELSE @[j] \cup ({frame.rows[j]} \cap Active)]]

(* MonitorState::new *)
FirstFrame(m) ==
    /\ step[m] = "start"
    /\ \E frame \in Frames :
         /\ observed' = [observed EXCEPT ![m] = frame.rows]
         /\ tracked' = [tracked EXCEPT ![m] = {j \in Jobs : frame.rows[j] = "pending"}]
         /\ Meet(m, frame)
    /\ Goes(m, "check")
    /\ UNCHANGED <<auto, missing, todo, clusterVars, followerVars>>

Check(m) ==
    /\ step[m] = "check"
    /\ \/ auto /\ Goes(m, "poll") /\ UNCHANGED <<observed, tracked, missing, todo, met>>
       \/ ~auto /\ Forgets(m)
    /\ UNCHANGED <<auto, clusterVars, followerVars>>

(* monitor_additions *)
AdditionsAgain(before, rows) ==     \* mutant: a running job is news in every frame
    {j \in Jobs : rows[j] \in Active /\ kind[j] # "interactive"
                  /\ (before[j] = "absent" \/ rows[j] = "running")}
Additions(before, rows) ==
    {j \in Jobs : rows[j] \in Active /\ kind[j] # "interactive"
                  /\ (before[j] = "absent" \/ (before[j] = "pending" /\ rows[j] = "running"))}

FailedBeforeStart(before, rows) == {j \in Jobs : before[j] = "pending" /\ rows[j] = "failed"}

(* Pending jobs the frame should list and does not: a cluster some warning *)
(* names is not counted against its jobs.                                  *)
LostAnyway(pending, frame) == {j \in pending : frame.rows[j] = "absent"}    \* mutant: warnings are ignored
Lost(pending, frame) == {j \in pending : frame.rows[j] = "absent" /\ ~frame.warned}

(* MonitorState::update *)
Update(m, frame) ==
    LET rows == frame.rows
        failed == FailedBeforeStart(observed[m], rows)
        pending == ((tracked[m] \ failed) \cup {j \in Jobs : rows[j] = "pending"})
                   \ {j \in Jobs : rows[j] = "running"}
        lost == Lost(pending, frame)
        vanished == {j \in lost : missing[m][j] = 1}
    IN  /\ todo' = [todo EXCEPT ![m] = [add |-> Additions(observed[m], rows),
                                        close |-> failed \cup vanished]]
        /\ tracked' = [tracked EXCEPT ![m] = pending \ vanished]
        /\ missing' = [missing EXCEPT ![m] = [j \in Jobs |->
               IF j \in lost \ vanished THEN 1
               ELSE IF j \in vanished \/ rows[j] # "absent" THEN 0 ELSE @[j]]]
        /\ observed' = [observed EXCEPT ![m] = rows]

PollFrame(m) ==
    /\ step[m] = "poll"
    /\ \E frame \in Frames : Update(m, frame) /\ Meet(m, frame)
    /\ Goes(m, "add")
    /\ UNCHANGED <<auto, clusterVars, followerVars>>

(* An error ends the process: auto-add stays on with nobody serving it. *)
MonitorDies(m) ==
    /\ step[m] \in {"start", "poll", "add", "close"}
    /\ Forgets(m)
    /\ UNCHANGED <<auto, clusterVars, followerVars>>

(* reconcile with the open panes and the additions: nothing is closed. *)
AddPanes(m) ==
    /\ step[m] = "add"
    /\ pane' = [j \in Jobs |-> IF j \in todo[m].add /\ In(j, "closed")
                               THEN NewPane(observed[m][j]) ELSE pane[j]]
    /\ Goes(m, "close")
    /\ UNCHANGED <<auto, observed, tracked, missing, todo, met, stopped, clusterVars>>

(* close_job_pane, whatever its follower is doing. *)
ClosePanes(m) ==
    /\ step[m] = "close"
    /\ pane' = [j \in Jobs |-> IF j \in todo[m].close THEN NoPane ELSE pane[j]]
    /\ todo' = [todo EXCEPT ![m] = Nothing]
    /\ HangUp(todo[m].close)
    /\ Goes(m, "check")
    /\ UNCHANGED <<auto, observed, tracked, missing, met, stopped,
                   queue, kind, file, down, cached>>

MonitorStep(m) ==
    FirstFrame(m) \/ Check(m) \/ PollFrame(m) \/ MonitorDies(m) \/ AddPanes(m) \/ ClosePanes(m)

=============================================================================
