------------------------------ MODULE McpServer ------------------------------
(***************************************************************************)
(* The MCP server: the admission of requests (mcp/transport.rs), the pool  *)
(* of blocking workers (mcp.rs) and the subscriptions with their monitors  *)
(* (mcp/subscriptions.rs).                                                 *)
(*                                                                         *)
(* One thread runs all of the server but the workers, so what happens      *)
(* between two awaits is one step.  An admission permit is one of Slots: a *)
(* request that finds none is answered by receive() itself and leaves no   *)
(* trace.  What a resource says is a version, and so is its digest.        *)
(* Timers are not clocked: a timeout may come at any moment of the wait it *)
(* bounds.                                                                 *)
(***************************************************************************)
EXTENDS Naturals, Sequences, SequencesExt, FiniteSets

CONSTANTS
    Slots,              \* admission permits, MAX_MCP_INFLIGHT_REQUESTS of them
    Workers,            \* permits of the pool, MCP_BLOCKING_CONCURRENCY of them
    Uris,               \* resources
    JobUris,            \* those of an exact job: authorized first, end with it
    Monitors,           \* bound: monitor tasks that exist at a time
    None,               \* neither a slot nor a monitor nor a resource
    MaxSubscriptions,   \* MAX_SUBSCRIPTIONS
    MaxVersion,         \* bound: versions of a resource, the last one terminal
    MaxRequests         \* bound: requests sent by the client

ASSUME McpServerAssumption ==
    /\ Slots \cap Monitors = {}
    /\ None \notin Slots \cup Monitors \cup Uris
    /\ JobUris \subseteq Uris
    /\ MaxSubscriptions \in Nat \ {0}
    /\ MaxVersion \in Nat \ {0}
    /\ MaxRequests \in Nat

VARIABLES
    where,      \* [Slots and Monitors -> where the request or the monitor is]
    uri,        \* [Slots and Monitors -> what a subscribe or a monitor is about]
    queue,      \* those who wait for a worker, first come, first served
    busy,       \* workers that run
    owner,      \* [Workers -> who waits for it, None when it was given up]
    table,      \* subscriptions: [Uris -> its monitor or None]
    cancel,     \* [Monitors -> the flag of its subscription]
    previous,   \* [Monitors -> version announced last, 0 if the sampling failed]
    sample,     \* [Monitors -> version in hand, 0 if the sampling failed]
    version,    \* [Uris -> 1..MaxVersion]
    asked

poolVars == <<queue, busy, owner>>
monitorVars == <<table, cancel, previous, sample>>
serverVars == <<where, uri, poolVars, monitorVars, version, asked>>

-----------------------------------------------------------------------------
Owners == Slots \cup Monitors
Requests == {"blocking", "light", "subscribe", "unsubscribe"}
Unsampled == MaxVersion + 1     \* previous, before the first sample

Terminal(u, v) == u \in JobUris /\ v = MaxVersion

AllIdle == [o \in Owners |-> "idle"]
NoUri == [o \in Owners |-> None]
NoOwner == [w \in Workers |-> None]
NoEntry == [u \in Uris |-> None]
NoCancel == [m \in Monitors |-> FALSE]
NotSampled == [m \in Monitors |-> Unsampled]
NoSample == [m \in Monitors |-> 0]

ServerInit ==
    /\ where = AllIdle /\ uri = NoUri
    /\ queue = <<>> /\ busy = {} /\ owner = NoOwner
    /\ table = NoEntry /\ cancel = NoCancel
    /\ previous = NotSampled /\ sample = NoSample
    /\ version = [u \in Uris |-> 1]
    /\ asked = 0

(* What the resource says changes. *)
Change(u) ==
    /\ version[u] < MaxVersion
    /\ version' = [version EXCEPT ![u] = @ + 1]
    /\ UNCHANGED <<where, uri, poolVars, monitorVars, asked>>

To(o, st) == where' = [where EXCEPT ![o] = st]

-----------------------------------------------------------------------------
(* The pool: run_blocking and run_subscription_blocking. *)
Enqueue(o) == To(o, "queued") /\ queue' = Append(queue, o)

Acquire(w) ==
    /\ w \notin busy /\ queue # <<>>
    /\ busy' = busy \cup {w}
    /\ owner' = [owner EXCEPT ![w] = Head(queue)]
    /\ queue' = Tail(queue)
    /\ To(Head(queue), "working")
    /\ UNCHANGED <<uri, monitorVars, version, asked>>

(* The worker of o runs on with nobody waiting for it. *)
GiveUp(o) == owner' = [w \in Workers |-> IF owner[w] = o THEN None ELSE owner[w]]

(* mutant: without a worker in time the monitor returns, its entry stays *)
UnservedEnds(o) == To(o, IF o \in Slots THEN "send" ELSE "idle")

(* The wait of o is over: an error for a request, no sample for a monitor. *)
Unserved(o) == To(o, IF o \in Slots THEN "send" ELSE "done")
Brings(o, v) == sample' = [m \in Monitors |-> IF m = o THEN v ELSE sample[m]]

NoTimeout(o) == FALSE /\ UNCHANGED serverVars     \* mutant: the wait has no end

QueueTimeout(o) ==
    /\ where[o] = "queued" /\ busy = Workers
    /\ queue' = RemoveFirst(queue, o)
    /\ Unserved(o) /\ Brings(o, 0)
    /\ UNCHANGED <<uri, busy, owner, table, cancel, previous, version, asked>>

(* Authorization and samplings may fail, and those of a killed command do. *)
Results(o) == IF o \in Monitors THEN {0, version[uri[o]]} ELSE {0}

(* The permit is the worker's and dropped when its closure returns. *)
Finish(w) ==
    /\ w \in busy
    /\ busy' = busy \ {w}
    /\ owner' = [owner EXCEPT ![w] = None]
    /\ IF owner[w] = None
       THEN UNCHANGED <<where, sample>>
       ELSE To(owner[w], "done") /\ \E v \in Results(owner[w]) : Brings(owner[w], v)
    /\ UNCHANGED <<uri, queue, table, cancel, previous, version, asked>>

(* MCP_WORK_TIMEOUT raises the flag of the worker: one of its own for a    *)
(* request, but that of the whole subscription for a monitor.              *)
Deadline(o) ==
    /\ where[o] = "working"
    /\ GiveUp(o)
    /\ Unserved(o) /\ Brings(o, 0)
    /\ cancel' = [m \in Monitors |-> cancel[m] \/ m = o]
    /\ UNCHANGED <<uri, queue, busy, table, previous, version, asked>>

-----------------------------------------------------------------------------
(* Requests. *)
TableFull == Cardinality({u \in Uris : table[u] # None}) >= MaxSubscriptions

(* An error, or a resource that is subscribed already. *)
NoInsert(s, u) == To(s, "send") /\ UNCHANGED <<uri, monitorVars>>

(* The entry and the monitor task that is spawned for it. *)
Insert(s, u) ==
    \E m \in Monitors :
        /\ where[m] = "idle"
        /\ table' = [table EXCEPT ![u] = m]
        /\ cancel' = [cancel EXCEPT ![m] = FALSE]
        /\ previous' = [previous EXCEPT ![m] = Unsampled]
        /\ uri' = [uri EXCEPT ![m] = u]
        /\ where' = [where EXCEPT ![s] = "send", ![m] = "start"]
        /\ UNCHANGED sample

InsertIfAbsent(s, u) == IF table[u] # None \/ TableFull THEN NoInsert(s, u) ELSE Insert(s, u)

Subscribe(s, u) ==
    IF table[u] = None /\ TableFull
    THEN NoInsert(s, u) /\ UNCHANGED queue
    ELSE IF u \in JobUris
    THEN Enqueue(s) /\ uri' = [uri EXCEPT ![s] = u] /\ UNCHANGED monitorVars
    ELSE InsertIfAbsent(s, u) /\ UNCHANGED queue

Unsubscribe(s, u) ==
    /\ table' = [table EXCEPT ![u] = None]
    /\ cancel' = [m \in Monitors |-> cancel[m] \/ m = table[u]]
    /\ To(s, "send")
    /\ UNCHANGED <<uri, queue, previous, sample>>

Receive(s, what, u) ==
    /\ where[s] = "idle"
    /\ asked < MaxRequests /\ asked' = asked + 1
    /\ CASE what = "blocking" -> Enqueue(s) /\ UNCHANGED <<uri, monitorVars>>
         [] what = "light" -> To(s, "send") /\ UNCHANGED <<uri, queue, monitorVars>>
         [] what = "subscribe" -> Subscribe(s, u)
         [] what = "unsubscribe" -> Unsubscribe(s, u)
    /\ UNCHANGED <<busy, owner, version>>

(* The handler has the result of its worker; a subscribe goes on if the    *)
(* job is the user's.                                                      *)
Resume(s) ==
    /\ where[s] = "done"
    /\ \/ To(s, "send") /\ UNCHANGED <<uri, monitorVars>>
       \/ uri[s] # None /\ InsertIfAbsent(s, uri[s])
    /\ UNCHANGED <<poolVars, version, asked>>

(* notifications/cancelled: the next poll of the handler prefers it. *)
CancelRequest(s) ==
    /\ where[s] \in {"queued", "working", "done"}
    /\ queue' = RemoveFirst(queue, s)
    /\ GiveUp(s)
    /\ To(s, "send")
    /\ UNCHANGED <<uri, busy, monitorVars, version, asked>>

(* The client has read the answer and the send future drops the permit. *)
Drain(s) ==
    /\ where[s] = "send"
    /\ To(s, "idle")
    /\ uri' = [uri EXCEPT ![s] = None]
    /\ UNCHANGED <<poolVars, monitorVars, version, asked>>

(* End of input, an id that is still in flight, a line that is too long:   *)
(* the process ends and the client starts another one.                     *)
Disconnect ==
    /\ \E s \in Slots : where[s] = "idle"
    /\ asked < MaxRequests /\ asked' = asked + 1
    /\ where' = AllIdle /\ uri' = NoUri
    /\ queue' = <<>> /\ busy' = {} /\ owner' = NoOwner
    /\ table' = NoEntry /\ cancel' = NoCancel
    /\ previous' = NotSampled /\ sample' = NoSample
    /\ UNCHANGED version

-----------------------------------------------------------------------------
(* monitor() *)
Begin(m) ==
    /\ where[m] \in {"start", "sleep"}
    /\ ~cancel[m]
    /\ Enqueue(m)
    /\ UNCHANGED <<uri, busy, owner, monitorVars, version, asked>>

(* run_subscription_blocking() finds the flag raised before it began, or   *)
(* within 25 ms while its worker runs.                                     *)
SeeCancel(m) ==
    /\ where[m] \in {"start", "working"} /\ cancel[m]
    /\ GiveUp(m)
    /\ To(m, "done") /\ Brings(m, 0)
    /\ UNCHANGED <<uri, queue, busy, table, cancel, previous, version, asked>>

LateResult(m) == sample[m]     \* mutant: the flag is not looked at with the result

Sampled(m) == IF cancel[m] THEN 0 ELSE sample[m]

(* The first sample is only announced when it is the last one as well, the *)
(* others when they differ from the one before.                            *)
Announces(m, v) ==
    IF previous[m] = Unsampled THEN v # 0 /\ Terminal(uri[m], v) ELSE v \notin {0, previous[m]}

Compare(m) ==
    /\ where[m] = "done"
    /\ IF Announces(m, Sampled(m))
       THEN To(m, "notice") /\ Brings(m, Sampled(m))
       ELSE To(m, "sleep") /\ Brings(m, 0)
    /\ previous' = [previous EXCEPT ![m] = IF @ = Unsampled THEN Sampled(m) ELSE @]
    /\ UNCHANGED <<uri, poolVars, table, cancel, version, asked>>

(* remove_subscription() *)
Others(m) == [table EXCEPT ![uri[m]] = None]     \* mutant: whoever's entry it is

WithoutEntry(m) == [table EXCEPT ![uri[m]] = IF @ = m THEN None ELSE @]

End(m) ==
    /\ To(m, "idle")
    /\ table' = WithoutEntry(m)
    /\ uri' = [uri EXCEPT ![m] = None]
    /\ cancel' = [cancel EXCEPT ![m] = FALSE]
    /\ previous' = [previous EXCEPT ![m] = Unsampled]
    /\ Brings(m, 0)

(* notifications/resources/updated is written. *)
Notify(m) ==
    /\ where[m] = "notice"
    /\ IF Terminal(uri[m], sample[m])
       THEN End(m)
       ELSE /\ To(m, "sleep")
            /\ previous' = [previous EXCEPT ![m] = sample[m]]
            /\ Brings(m, 0)
            /\ UNCHANGED <<uri, table, cancel>>
    /\ UNCHANGED <<poolVars, version, asked>>

Stop(m) ==
    /\ where[m] = "sleep" /\ cancel[m]
    /\ End(m)
    /\ UNCHANGED <<poolVars, version, asked>>

-----------------------------------------------------------------------------
Monitor(m) == Begin(m) \/ SeeCancel(m) \/ Compare(m) \/ Notify(m) \/ Stop(m)
Timeout(o) == QueueTimeout(o) \/ Deadline(o)

ServerNext ==
    \/ \E u \in Uris : Change(u)
    \/ \E w \in Workers : Acquire(w) \/ Finish(w)
    \/ \E o \in Owners : Timeout(o)
    \/ \E s \in Slots :
        \/ \E what \in Requests, u \in Uris : Receive(s, what, u)
        \/ Resume(s) \/ CancelRequest(s) \/ Drain(s)
    \/ \E m \in Monitors : Monitor(m)
    \/ Disconnect

ServerSpec == ServerInit /\ [][ServerNext]_serverVars

(* The thread of the server runs, its timers go off and the client reads   *)
(* what it is sent.  Nothing is said of the workers: a command may hang.   *)
Fairness ==
    /\ \A w \in Workers : WF_serverVars(Acquire(w))
    /\ \A s \in Slots : WF_serverVars(Timeout(s) \/ Resume(s) \/ Drain(s))
    /\ \A m \in Monitors : WF_serverVars(Timeout(m) \/ Monitor(m))

ServerFairSpec == ServerSpec /\ Fairness

-----------------------------------------------------------------------------
TypeOK ==
    /\ \A s \in Slots : where[s] \in {"idle", "queued", "working", "done", "send"}
    /\ \A m \in Monitors :
          where[m] \in {"idle", "start", "queued", "working", "done", "sleep", "notice"}
    /\ uri \in [Owners -> Uris \cup {None}]
    /\ queue \in Seq(Owners) /\ busy \subseteq Workers
    /\ owner \in [Workers -> Owners \cup {None}]
    /\ table \in [Uris -> Monitors \cup {None}]
    /\ Cardinality({u \in Uris : table[u] # None}) <= MaxSubscriptions
    /\ cancel \in [Monitors -> BOOLEAN]
    /\ previous \in [Monitors -> 0..Unsampled] /\ sample \in [Monitors -> 0..MaxVersion]
    /\ version \in [Uris -> 1..MaxVersion] /\ asked \in 0..MaxRequests

(* Every monitor that was not told to stop is the one of the entry for its *)
(* resource, and every entry has such a running monitor: unsubscribe       *)
(* reaches what sends the notices, however it met with the end of an       *)
(* earlier subscription of the same resource.                              *)
WatchersAreSubscribed ==
    /\ \A m \in Monitors : where[m] # "idle" /\ ~cancel[m] => table[uri[m]] = m
    /\ \A u \in Uris : table[u] # None => where[table[u]] # "idle" /\ uri[table[u]] = u

(* A change is only announced for a subscription the client still has,     *)
(* even if the sample that shows it was under way when it was given up.    *)
NoticesAreWanted ==
    [][\A m \in Monitors :
          where[m] # "notice" /\ where'[m] = "notice" => table[uri[m]] = m]_serverVars

(* Every request is answered and gives its permit back, even if every      *)
(* worker hangs.                                                           *)
RequestsAnswered == \A s \in Slots : where[s] # "idle" ~> where[s] = "idle"

(* If commands end and do not fail for ever, a resource that stays         *)
(* subscribed is sampled until its last change has been announced,         *)
(* whatever was cancelled, given up or timed out before.                   *)
Succeeds(m) == \E w \in Workers : owner[w] = m /\ Finish(w) /\ sample'[m] # 0

CommandsEnd ==
    /\ \A w \in Workers : WF_serverVars(Finish(w))
    /\ \A m \in Monitors : SF_serverVars(Succeeds(m))

ChangesAnnounced ==
    CommandsEnd =>
        \A u \in Uris : <>[](table[u] # None => previous[table[u]] = version[u])
=============================================================================
