-------------------------------- MODULE Watch --------------------------------
(***************************************************************************)
(* Followers and auto-add monitors of one workspace, on one cluster that   *)
(* loses jobs and stops answering: what each of them concludes from        *)
(* listings that are stale, thinned out or missing.                        *)
(***************************************************************************)
EXTENDS AutoMonitor

watchVars == <<clusterVars, followerVars, monitorVars>>

WatchInit == ClusterInit /\ FollowerInit /\ MonitorInit

Cluster ==
    /\ \/ \E j \in Jobs : Register(j) \/ Start(j) \/ End(j)
       \/ Outage \/ Recovery \/ OtherAsks \/ OtherEnds \/ Invalidate
    /\ UNCHANGED <<followerVars, monitorVars>>

Panes == (\E j \in Jobs : Open(j) \/ Follow(j)) /\ UNCHANGED monitorVars

Monitoring == (\E m \in Monitors : SwitchOn(m) \/ MonitorStep(m)) \/ SwitchOff

TimePasses == ListingsAge /\ TimersRun /\ UNCHANGED monitorVars

WatchNext == Cluster \/ Panes \/ Monitoring \/ TimePasses

(* What a pane's process does of its own accord. *)
Turn(j) == Resolve(j) \/ BeginPoll(j) \/ FinishPoll(j) \/ Refresh(j)

(* Time passes, calls end and the loops of a follower run by a timer; the  *)
(* file lock is handed to whoever waits for it, which is strong fairness.  *)
(* Nothing makes a user press a key, a job end or the controller come back.*)
WatchFairness ==
    /\ WF_watchVars(TimePasses)
    /\ WF_watchVars(OtherEnds /\ UNCHANGED <<followerVars, monitorVars>>)
    /\ \A j \in Jobs : SF_watchVars(Turn(j) /\ UNCHANGED monitorVars)

WatchSpec == WatchInit /\ [][WatchNext]_watchVars /\ WatchFairness

-----------------------------------------------------------------------------
(* A supervisor kills the tail it follows only when its job is over, if    *)
(* answers reach the stored listing in time (FollowerAssumption).          *)
StopsOnlyGoneJobs == \A j \in stopped : queue[j] \in Ended

(* No monitor closes the pane of a job that still waits or runs.           *)
ClosesOnlyLostJobs == \A m \in Monitors : \A j \in todo[m].close : queue[j] \in Ended

(* A monitor opens a pane when it meets a job in a state it has never seen *)
(* it in; only after a frame without its cluster is everything news again. *)
AddsOnlyNews ==
    [][\A m \in Monitors : step[m] = "poll" =>
          \A j \in todo'[m].add : observed'[m][j] \notin met[m][j]]_watchVars

(* The follower of a job that is over notices, if the scheduler answers.   *)
FollowerNotices ==
    <>[]~down => \A j \in Jobs : (In(j, "follow") /\ queue[j] \in Ended) ~> ~In(j, "follow")

(* A pane without a log turns into a follower once there is one to show:   *)
(* it does not keep monitoring a running batch job.                        *)
WatcherAttaches ==
    <>[]~down => \A j \in Jobs :
        (In(j, "watch") /\ queue[j] = "running" /\ kind[j] # "interactive") ~> ~In(j, "watch")

=============================================================================
