---------------------------- MODULE DaemonDetail ----------------------------
(***************************************************************************)
(* The daemon's cache of job details (daemon/server.rs) and the detail     *)
(* views that poll it (details/control.rs).                                *)
(*                                                                         *)
(* One job and its cache entry are modelled.  A request runs on a thread   *)
(* of the daemon: it authorizes the job, looks at the entry under the      *)
(* mutex, fetches without the mutex on a miss, and takes the mutex again   *)
(* to store what it has, which on a hit is the sample it just read.  A     *)
(* view that waits too long abandons its request to the daemon and sends   *)
(* another.  Time passes in ticks of ten seconds; a sample is named by a   *)
(* stamp, the smallest one in nobody's hands.                              *)
(***************************************************************************)
EXTENDS Naturals, FiniteSets

CONSTANTS
    Views,          \* detail views of the job
    Pressers,       \* those whose user presses r
    Threads,        \* bound: requests the daemon works on at once
    NoView,         \* the client of an abandoned request
    MaxMishaps,     \* bound: failing and slow scheduler calls, changes of the owner
    FirstDelay,     \* ticks until a view's second poll: ten seconds and refresh_phase(id)
    MayBeLost       \* whether the job id may pass to another owner

ASSUME ConstantsAssumption ==
    /\ Pressers \subseteq Views /\ NoView \notin Views
    /\ IsFiniteSet(Views) /\ IsFiniteSet(Threads)
    /\ FirstDelay \in 1..2 /\ MaxMishaps \in Nat /\ MayBeLost \in BOOLEAN

VARIABLES
    entry,      \* the cache entry of the job, or NoEntry
    thread,     \* [Threads -> request the daemon works on]
    view,       \* [Views -> state of the polling loop]
    job,        \* what the scheduler knows: [state, owned]
    mishaps     \* how many of them so far

vars == <<entry, thread, view, job, mishaps>>

-----------------------------------------------------------------------------
ForcedMinimum == 1      \* FORCED_DETAIL_MINIMUM
ActiveTtl == 3          \* ACTIVE_DETAIL_TTL
KeptFor == 6            \* an entry nobody reads for a minute is dropped
TtlAfter(n) == ActiveTtl * 2^n

Stamps == 1 .. (1 + Cardinality(Views) + Cardinality(Threads))
NoSample == [stamp |-> 0, final |-> FALSE]
Samples == [stamp: Stamps, final: BOOLEAN]

NoEntry == [created |-> 0, access |-> 0, failures |-> 0, sample |-> NoSample]
Entries == [created: 0..TtlAfter(2), access: 0..KeptFor, failures: 0..2, sample: Samples]

Free == [phase |-> "free", client |-> NoView, force |-> FALSE, got |-> NoSample, foreign |-> FALSE]
Requests == [phase: {"authorize", "lookup", "fetch", "store", "failed"},
             client: Views \cup {NoView}, force: BOOLEAN,
             got: Samples \cup {NoSample},   \* the sample to store
             foreign: BOOLEAN]               \* history: the job had another owner when the request came

ViewStates == [phase: {"rest", "send", "wait"}, timer: 0..ActiveTtl, force: BOOLEAN,
               manual: BOOLEAN, first: BOOLEAN, shows: Samples \cup {NoSample}]

Init ==
    /\ entry = NoEntry
    /\ thread = [t \in Threads |-> Free]
    /\ view = [v \in Views |-> [phase |-> "rest", timer |-> 0, force |-> TRUE,
                                manual |-> FALSE, first |-> TRUE, shows |-> NoSample]]
    /\ job = [state |-> "active", owned |-> TRUE]
    /\ mishaps = 0

(* The request of thread t in its next phase. *)
Moved(t, phase, got) ==
    [phase |-> phase, client |-> thread[t].client, force |-> thread[t].force,
     got |-> got, foreign |-> thread[t].foreign]

Smaller(a, b) == IF a < b THEN a ELSE b

(* A call to the scheduler fails or is slow, or the job changes its owner: *)
(* at most MaxMishaps times.                                               *)
Mishap == mishaps < MaxMishaps /\ mishaps' = mishaps + 1

-----------------------------------------------------------------------------
(* The loop of details/control.rs, run(): it polls when the timer is out,  *)
(* unless it shows the final snapshot.                                     *)
Due(v) == view[v].phase = "rest" /\ view[v].timer = 0 /\ ~view[v].shows.final

Delay(v, manual) ==
    IF manual THEN ForcedMinimum
    ELSE IF view[v].first THEN FirstDelay ELSE ActiveTtl

(* The view after a poll that shows sample s.  A manual refresh that came *)
(* back with the sample already shown is asked for again.                  *)
Rested(v, s, queued) ==
    [phase |-> "rest", timer |-> Delay(v, queued), force |-> queued, manual |-> queued,
     first |-> view[v].first /\ queued, shows |-> s]

ShowsReply(v, s) ==
    view' = [view EXCEPT ![v] = Rested(v, s, view[v].manual /\ s = view[v].shows /\ ~s.final)]

ShowsError(v) == view' = [view EXCEPT ![v] = Rested(v, view[v].shows, FALSE)]

(* daemon.rs, job_details(): authorize, then send. *)
Poll(v) ==
    /\ Due(v)
    /\ \/ /\ job.owned
          /\ view' = [view EXCEPT ![v].phase = "send"]
          /\ UNCHANGED mishaps
       \/ /\ ~job.owned
          /\ ShowsError(v)
          /\ UNCHANGED mishaps
       \/ Mishap /\ ShowsError(v)
    /\ UNCHANGED <<entry, thread, job>>

Send(v, t) ==
    /\ view[v].phase = "send"
    /\ thread[t] = Free
    /\ t = CHOOSE free \in Threads : thread[free] = Free
    /\ thread' = [thread EXCEPT ![t] = [phase |-> "authorize", client |-> v, got |-> NoSample,
                                        force |-> view[v].force, foreign |-> ~job.owned]]
    /\ view' = [view EXCEPT ![v].phase = "wait"]
    /\ UNCHANGED <<entry, job, mishaps>>

(* CLIENT_TIMEOUT: the retry loop of job_details sends the request again   *)
(* while the daemon still works on the first one.                          *)
GiveUp(v, t) ==
    /\ thread[t].client = v
    /\ thread[t].phase = "fetch"
    /\ \E free \in Threads : thread[free] = Free
    /\ Mishap
    /\ thread' = [thread EXCEPT ![t] = [phase |-> "fetch", client |-> NoView, force |-> thread[t].force,
                                        got |-> NoSample, foreign |-> thread[t].foreign]]
    /\ view' = [view EXCEPT ![v].phase = "send"]
    /\ UNCHANGED <<entry, job>>

(* The key r. *)
Press(v) ==
    /\ v \in Pressers
    /\ view[v].phase = "rest" /\ ~view[v].manual /\ ~view[v].shows.final
    /\ view' = [view EXCEPT ![v].manual = TRUE, ![v].force = TRUE, ![v].timer = 0]
    /\ UNCHANGED <<entry, thread, job, mishaps>>

-----------------------------------------------------------------------------
Answer(t, s) ==
    LET v == thread[t].client IN IF v = NoView THEN UNCHANGED view ELSE ShowsReply(v, s)
Refuse(t) ==
    LET v == thread[t].client IN IF v = NoView THEN UNCHANGED view ELSE ShowsError(v)

(* dispatch_request: authorization comes before the cache. *)
CachedIsAuthorized(t) ==     \* mutant: a cached job is not authorized again
    /\ thread[t].phase = "authorize"
    /\ \/ /\ job.owned \/ entry # NoEntry
          /\ thread' = [thread EXCEPT ![t] = Moved(t, "lookup", NoSample)]
          /\ UNCHANGED <<view, mishaps>>
       \/ /\ ~job.owned
          /\ thread' = [thread EXCEPT ![t] = Free]
          /\ Refuse(t)
          /\ UNCHANGED mishaps
       \/ /\ Mishap
          /\ thread' = [thread EXCEPT ![t] = Free]
          /\ Refuse(t)
    /\ UNCHANGED <<entry, job>>

Authorize(t) ==
    /\ thread[t].phase = "authorize"
    /\ \/ /\ job.owned
          /\ thread' = [thread EXCEPT ![t] = Moved(t, "lookup", NoSample)]
          /\ UNCHANGED <<view, mishaps>>
       \/ /\ ~job.owned
          /\ thread' = [thread EXCEPT ![t] = Free]
          /\ Refuse(t)
          /\ UNCHANGED mishaps
       \/ /\ Mishap
          /\ thread' = [thread EXCEPT ![t] = Free]
          /\ Refuse(t)
    /\ UNCHANGED <<entry, job>>

(* cached_detail *)
HitByAge(e, force) ==     \* mutant: a final sample expires like any other
    e.created < IF force THEN ForcedMinimum ELSE TtlAfter(e.failures)

ForceIgnored(e, force) ==     \* mutant: a forced request waits for the normal ttl
    e.sample.final \/ e.created < TtlAfter(e.failures)

Hit(e, force) ==
    \/ e.sample.final
    \/ e.created < IF force THEN ForcedMinimum ELSE TtlAfter(e.failures)

Lookup(t) ==
    LET kept == entry # NoEntry /\ entry.access < KeptFor
        hit == kept /\ Hit(entry, thread[t].force)
    IN
    /\ thread[t].phase = "lookup"
    /\ entry' = IF kept THEN [entry EXCEPT !.access = 0] ELSE NoEntry
    /\ thread' = [thread EXCEPT ![t] = IF hit THEN Moved(t, "store", entry.sample)
                                       ELSE Moved(t, "fetch", NoSample)]
    /\ UNCHANGED <<view, job, mishaps>>

InUse ==
    {entry.sample.stamp} \cup {thread[t].got.stamp : t \in Threads}
      \cup {view[v].shows.stamp : v \in Views}
Unused == CHOOSE s \in Stamps \ InUse : \A r \in Stamps \ InUse : s <= r

(* details.rs, fetch(): it authorizes again; a pending or running job is   *)
(* sampled live, a finished one from accounting, which may lag or fail.    *)
(* The first frame of a running job never fails once authorized.           *)
Fetch(t) ==
    /\ thread[t].phase = "fetch"
    /\ \/ /\ job.owned
          /\ thread' = [thread EXCEPT ![t] =
                          Moved(t, "store", [stamp |-> Unused, final |-> job.state = "finished"])]
          /\ UNCHANGED mishaps
       \/ /\ Mishap
          /\ thread' = [thread EXCEPT ![t] = Moved(t, "failed", NoSample)]
       \/ /\ ~job.owned
          /\ thread' = [thread EXCEPT ![t] = Moved(t, "failed", NoSample)]
          /\ UNCHANGED mishaps
    /\ UNCHANGED <<entry, view, job>>

(* store_detail, for a hit as for a fetched sample. *)
Store(t) ==
    /\ thread[t].phase = "store"
    /\ entry' = [created |-> 0, access |-> 0, failures |-> 0, sample |-> thread[t].got]
    /\ thread' = [thread EXCEPT ![t] = Free]
    /\ Answer(t, thread[t].got)
    /\ UNCHANGED <<job, mishaps>>

(* failed_detail: the last sample, marked stale, or an error. *)
Failed(t) ==
    /\ thread[t].phase = "failed"
    /\ thread' = [thread EXCEPT ![t] = Free]
    /\ IF entry = NoEntry
       THEN entry' = NoEntry /\ Refuse(t)
       ELSE /\ entry' = [entry EXCEPT !.failures = Smaller(@ + 1, 2), !.created = 0]
            /\ Answer(t, entry.sample)
    /\ UNCHANGED <<job, mishaps>>

-----------------------------------------------------------------------------
(* Requests for other jobs drop this entry: cached_detail when it is a     *)
(* minute old, store_detail when it is the oldest of 64.                   *)
Evicted ==
    /\ entry # NoEntry
    /\ entry.access > 0
    /\ entry' = NoEntry
    /\ UNCHANGED <<thread, view, job, mishaps>>

(* A view that is due polls within its tick, and of the steps of a request *)
(* only the fetch takes longer than one.                                   *)
Tick ==
    /\ \A v \in Views : ~Due(v) /\ view[v].phase # "send"
    /\ \A t \in Threads : thread[t].phase \in {"free", "fetch"}
    /\ entry' = IF entry = NoEntry THEN NoEntry
                ELSE [entry EXCEPT !.created = Smaller(@ + 1, TtlAfter(entry.failures)),
                                        !.access = Smaller(@ + 1, KeptFor)]
    /\ view' = [v \in Views |->
                  [view[v] EXCEPT !.timer = IF @ > 0 /\ view[v].phase = "rest" THEN @ - 1 ELSE @]]
    /\ UNCHANGED <<thread, job, mishaps>>

JobFinishes ==
    /\ job.state = "active"
    /\ job' = [state |-> "finished", owned |-> job.owned]
    /\ UNCHANGED <<entry, thread, view, mishaps>>

JobLost ==
    /\ MayBeLost /\ job.owned
    /\ Mishap
    /\ job' = [state |-> job.state, owned |-> FALSE]
    /\ UNCHANGED <<entry, thread, view>>

Work(t) == Authorize(t) \/ Lookup(t) \/ Fetch(t) \/ Store(t) \/ Failed(t)

Next ==
    \/ Tick \/ JobFinishes \/ JobLost \/ Evicted
    \/ \E t \in Threads : Work(t)
    \/ \E v \in Views :
         \/ Poll(v) \/ Press(v)
         \/ \E t \in Threads : Send(v, t) \/ GiveUp(v, t)

Spec == Init /\ [][Next]_vars

(* Time passes, views poll, the daemon's threads run and calls return.     *)
Fairness ==
    /\ WF_vars(Tick)
    /\ \A t \in Threads : WF_vars(Work(t))
    /\ \A v \in Views : WF_vars(Poll(v)) /\ WF_vars(\E t \in Threads : Send(v, t))

FairSpec == Spec /\ Fairness

-----------------------------------------------------------------------------
TypeOK ==
    /\ entry \in Entries \cup {NoEntry}
    /\ thread \in [Threads -> Requests \cup {Free}]
    /\ view \in [Views -> ViewStates]
    /\ job \in [state: {"active", "finished"}, owned: BOOLEAN]
    /\ mishaps \in 0..MaxMishaps

(* "Unix-socket callers must not inherit a prior job instance" (server.rs, *)
(* dispatch_request): a request that arrives after the id went to another  *)
(* owner gets no further than its authorization, whatever is cached.       *)
ForeignIsRefused ==
    \A t \in Threads : thread[t].foreign => thread[t].phase \in {"authorize", "free"}

(* README: "terminal snapshots stop polling".  Once the entry is final and *)
(* no older sample is on its way, it stays final until it is evicted, and  *)
(* nobody samples the job.                                                 *)
FinalIsKept ==
    [][(/\ entry.sample.final /\ entry' # NoEntry
        /\ \A t \in Threads : thread[t].phase \notin {"fetch", "store"} \/ thread[t].got.final)
       => (entry'.sample.final /\ \A t \in Threads : thread'[t].phase # "fetch")]_vars

(* "Forced samples are coalesced for ten seconds.  Preserve an early       *)
(* request and retry it" (control.rs): a press of r ends with a sample the *)
(* view did not show before, a final one, or an error, even though another *)
(* view polls the same job.                                                *)
PressIsServed == \A v \in Views : view[v].manual ~> ~view[v].manual

(* README: "Finished jobs freeze on their final accounting snapshot".      *)
FinishedFreezes ==
    \A v \in Views : job.state = "finished" ~> view[v].shows.final
=============================================================================
