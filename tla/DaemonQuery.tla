----------------------------- MODULE DaemonQuery -----------------------------
(***************************************************************************)
(* The canonical snapshot cache of the per-user daemon: one CachedReply    *)
(* per (cluster selector, archive flag), filled by request handlers that   *)
(* run on threads of their own (daemon/server.rs, Request::Query), kept    *)
(* warm by the refresh loop (daemon/cache.rs) and fed by all_jobs_direct   *)
(* (slurm/aggregate.rs), which reads the per-cluster queue files on disk   *)
(* and otherwise calls the scheduler.                                      *)
(*                                                                         *)
(* Time is measured in ticks of MEMORY_TTL, the sleep of the refresh loop. *)
(* Every Instant is kept as an age, capped at the largest bound the code   *)
(* compares it with, so the state space is finite and time never ends.     *)
(* The cache mutex is held inside one action at most; between two actions  *)
(* of a thread any other thread may run.  A handler takes the time of its  *)
(* entry before it waits for the mutex: ages within one tick are equal, so *)
(* the order of such an instant and the entries is kept beside it.         *)
(***************************************************************************)
EXTENDS Naturals, FiniteSets, Functions

CONSTANTS
    Clusters,       \* names of the configured clusters
    Combined,       \* the selectors that mean every cluster: "all", "both"
    Modes,          \* values of the archive flag that clients use
    Forces,         \* values of the force flag that clients use
    Handlers,       \* bound: request threads alive at once
    Refreshers,     \* bound: refresh threads alive at once
    Ttl,            \* [Modes -> ticks]: age at which a snapshot is due
    Window,         \* [Modes -> ticks]: how recently it must have been read
    ForceMinimum,   \* FORCED_DETAIL_MINIMUM in ticks
    DiskTtl,        \* QUEUE_CACHE_TTL in ticks
    Faults          \* which failures occur: subset of FaultKinds

FaultKinds == {"rpc", "ledger", "client"}

ASSUME NamesAssumption ==
    /\ Clusters \cap Combined = {}
    /\ Handlers \cap Refreshers = {}
    /\ Modes \subseteq BOOLEAN
    /\ Forces \subseteq BOOLEAN
    /\ Faults \subseteq FaultKinds

ASSUME TimesAssumption ==
    /\ Ttl \in [Modes -> Nat \ {0}]
    /\ Window \in [Modes -> Nat \ {0}]
    /\ ForceMinimum \in Nat \ {0}
    /\ DiskTtl \in Nat

VARIABLES
    cache,     \* SharedCache: the entries, for the keys that have one
    task,      \* [Threads -> what the thread is doing]
    disk,      \* [Clusters -> age of the queue file; DiskTtl + 1 when unusable]
    slept      \* has the refresh loop slept a tick since its last pass

vars == <<cache, task, disk, slept>>

-----------------------------------------------------------------------------
Threads == Handlers \cup Refreshers
Selectors == Clusters \cup Combined
Keys == [cluster: Selectors, archive: Modes]          \* cache_key
Selected(k) == IF k.cluster \in Combined THEN Clusters ELSE {k.cluster}

(* A reply is abstracted to the clusters whose jobs it lists: a lookup     *)
(* that fails leaves its cluster out and adds a warning.                   *)
Replies == [ok: BOOLEAN, jobs: SUBSET Clusters]
Failed == [ok |-> FALSE, jobs |-> {}]
Listed(S) == [ok |-> TRUE, jobs |-> S]

Older(age, cap) == IF age < cap THEN age + 1 ELSE cap
Never == ForceMinimum              \* last_force: None, or too old to throttle

(* The last two fields are history: the age of the reply itself, and the   *)
(* time since the entry was put in the map or a refresh of it ended.       *)
Entry == [created: Nat, access: Nat, force: 0..ForceMinimum,
          refreshing: BOOLEAN, reply: Replies, updated: Nat, tried: Nat]
Present == DOMAIN cache

Idle == [kind |-> "idle"]
HandlerTask == [kind: {"handler"}, pc: {"lookup", "purge", "remove", "fetch"},
                key: Keys, forced: BOOLEAN]
WriteTask == [kind: {"handler"}, pc: {"write"}, key: Keys, forced: BOOLEAN,
              reply: Replies]
(* newer: the keys whose entry was created after this handler took its     *)
(* time; after: the handlers that took theirs after it.                    *)
InsertTask == [kind: {"handler"}, pc: {"insert"}, key: Keys,
               entry: {e \in Entry : ~e.refreshing},
               newer: SUBSET Keys, after: SUBSET Handlers]
RefreshTask == [kind: {"refresh"}, pc: {"fetch"}, key: Keys]
ApplyTask == [kind: {"refresh"}, pc: {"apply"}, key: Keys, reply: Replies]
Tasks == {Idle} \cup HandlerTask \cup WriteTask \cup InsertTask
            \cup RefreshTask \cup ApplyTask

At(t, kind, pc) == task[t].kind = kind /\ task[t].pc = pc
Stamped == {t \in Handlers : At(t, "handler", "insert")}
IdleRefreshers == {t \in Refreshers : task[t] = Idle}
Refreshing(k) == {t \in Refreshers : task[t] # Idle /\ task[t].key = k}

Init ==
    /\ cache = [k \in {} |-> 0]
    /\ task = [t \in Threads |-> Idle]
    /\ disk = [c \in Clusters |-> DiskTtl + 1]
    /\ slept = FALSE

-----------------------------------------------------------------------------
(* run: the accept loop hands a parsed Query to a new thread. *)
Accept(t) ==
    /\ task[t] = Idle
    /\ \E k \in Keys, forced \in Forces :
         task' = [task EXCEPT ![t] = [kind |-> "handler", pc |-> "lookup",
                                      key |-> k, forced |-> forced]]
    /\ UNCHANGED <<cache, disk, slept>>

(* A hit that answers at once: any hit for a plain query, and for a forced *)
(* one a hit whose last force is too recent.                               *)
Answers(e, forced) == forced => e.force < ForceMinimum

Lookup(t) ==
    /\ At(t, "handler", "lookup")
    /\ LET k == task[t].key
           forced == task[t].forced
           hit == k \in Present
       IN /\ cache' = IF hit THEN [cache EXCEPT ![k].access = 0] ELSE cache
          /\ task' = [task EXCEPT ![t] =
                        IF hit /\ Answers(cache[k], forced) THEN Idle
                        ELSE [@ EXCEPT !.pc = IF forced THEN "purge" ELSE "fetch"]]
    /\ UNCHANGED <<disk, slept>>

(* slurm::invalidate_caches, outside the cache mutex. *)
Purge(t) ==
    /\ At(t, "handler", "purge")
    /\ disk' = [c \in Clusters |-> DiskTtl + 1]
    /\ task' = [task EXCEPT ![t].pc = "remove"]
    /\ UNCHANGED <<cache, slept>>

Remove(t) ==
    /\ At(t, "handler", "remove")
    /\ cache' = Restrict(cache, Present \ {task[t].key})
    /\ task' = [task EXCEPT ![t].pc = "fetch"]
    /\ UNCHANGED <<disk, slept>>

(* all_jobs_direct: every selected cluster whose queue file is not usable  *)
(* costs a scheduler call; a call that fails stores nothing and its        *)
(* cluster is left out of an otherwise successful reply.  The ledger sync  *)
(* at the end can fail the whole listing.                                  *)
Listing(k, reply) ==
    LET missed == {c \in Selected(k) : disk[c] > DiskTtl}
    IN \E failed \in SUBSET (IF "rpc" \in Faults THEN missed ELSE {}) :
         /\ disk' = [c \in Clusters |-> IF c \in missed \ failed THEN 0 ELSE disk[c]]
         /\ \/ reply = Listed(Selected(k) \ failed)
            \/ "ledger" \in Faults /\ reply = Failed

Fetch(t) ==
    /\ At(t, "handler", "fetch")
    /\ \E reply \in Replies :
         /\ Listing(task[t].key, reply)
         /\ task' = [task EXCEPT ![t] =
                       [kind |-> "handler", pc |-> "write", key |-> task[t].key,
                        forced |-> task[t].forced, reply |-> reply]]
    /\ UNCHANGED <<cache, slept>>

(* invalidate_older_combined: the keys it looks at.  A combined entry that *)
(* was created after the instant passed in stays.                          *)
CombinedOfOther(k) ==     \* mutant: the archive flags are mixed up
    IF k.cluster \in Combined THEN {}
    ELSE {j \in Keys : j.cluster \in Combined /\ j.archive # k.archive}

CombinedOf(k) ==
    IF k.cluster \in Combined THEN {}
    ELSE {j \in Keys : j.cluster \in Combined /\ j.archive = k.archive}

(* The map after key k got entry e. *)
Put(k, e, dropped) ==
    [j \in (Present \ dropped) \cup {k} |-> IF j = k THEN e ELSE cache[j]]

MarkedEntry(reply, forced) ==     \* mutant: a new entry claims a refresh
    [created |-> 0, access |-> 0, force |-> IF forced THEN 0 ELSE Never,
     refreshing |-> TRUE, reply |-> reply, updated |-> 0, tried |-> 0]

FreshEntry(reply, forced) ==
    [created |-> 0, access |-> 0, force |-> IF forced THEN 0 ELSE Never,
     refreshing |-> FALSE, reply |-> reply, updated |-> 0, tried |-> 0]

(* The reply is written first; a client that hung up loses the insert. *)
WriteFails(t) ==
    /\ "client" \in Faults
    /\ At(t, "handler", "write")
    /\ task' = [task EXCEPT ![t] = Idle]
    /\ UNCHANGED <<cache, disk, slept>>

(* After the write and before the mutex: the instant of the new entry. *)
Stamp(t) ==
    /\ At(t, "handler", "write")
    /\ task' = [u \in Threads |->
                  IF u = t
                  THEN [kind |-> "handler", pc |-> "insert", key |-> task[t].key,
                        entry |-> FreshEntry(task[t].reply, task[t].forced),
                        newer |-> {}, after |-> {}]
                  ELSE IF u \in Stamped THEN [task[u] EXCEPT !.after = @ \cup {t}]
                  ELSE task[u]]
    /\ UNCHANGED <<cache, disk, slept>>

(* Under the mutex: the entry, as old as the wait for the mutex has made   *)
(* it, goes in, and the combined entries it is not older than go out.      *)
Insert(t) ==
    /\ At(t, "handler", "insert")
    /\ LET k == task[t].key
       IN /\ cache' = Put(k, [task[t].entry EXCEPT !.tried = 0],
                          CombinedOf(k) \ task[t].newer)
          /\ task' = [u \in Threads |->
                        IF u = t THEN Idle
                        ELSE IF u \in Stamped
                        THEN [task[u] EXCEPT
                                !.newer = IF t \in task[u].after THEN @ \cup {k} ELSE @ \ {k},
                                !.after = @ \ {t}]
                        ELSE task[u]]
    /\ UNCHANGED <<disk, slept>>

-----------------------------------------------------------------------------
(* mark_due_refreshes *)
Due(k) ==
    /\ k \in Present
    /\ ~cache[k].refreshing
    /\ cache[k].created >= Ttl[k.archive]
    /\ cache[k].access < Window[k.archive]

(* One pass of the refresh loop: mark every due entry under the mutex and  *)
(* spawn a thread for each.                                                *)
MarkDue ==
    /\ slept
    /\ LET due == {k \in Keys : Due(k)}
       IN \E spawn \in [due -> IdleRefreshers] :
            /\ \A j, k \in due : spawn[j] = spawn[k] => j = k
            /\ cache' = [k \in Present |->
                           IF k \in due THEN [cache[k] EXCEPT !.refreshing = TRUE]
                                        ELSE cache[k]]
            /\ task' = [t \in Threads |->
                          IF \E k \in due : spawn[k] = t
                          THEN [kind |-> "refresh", pc |-> "fetch",
                                key |-> CHOOSE k \in due : spawn[k] = t]
                          ELSE task[t]]
    /\ slept' = FALSE
    /\ UNCHANGED <<disk>>

RefreshFetch(t) ==
    /\ At(t, "refresh", "fetch")
    /\ \E reply \in Replies :
         /\ Listing(task[t].key, reply)
         /\ task' = [task EXCEPT ![t] = [kind |-> "refresh", pc |-> "apply",
                                         key |-> task[t].key, reply |-> reply]]
    /\ UNCHANGED <<cache, slept>>

RefreshedUnlessError(e, reply) ==     \* mutant: an error leaves the flag set
    IF reply.ok THEN [e EXCEPT !.refreshing = FALSE, !.created = 0, !.tried = 0,
                               !.reply = reply, !.updated = 0]
    ELSE [e EXCEPT !.created = 0, !.tried = 0]

Refreshed(e, reply) ==
    [e EXCEPT !.refreshing = FALSE, !.created = 0, !.tried = 0,
              !.reply = IF reply.ok THEN reply ELSE @,
              !.updated = IF reply.ok THEN 0 ELSE @]

(* apply_refresh_result: an entry that is gone stays gone; an error keeps  *)
(* the old reply and only postpones the next attempt.  Its instant is      *)
(* taken under the mutex, so no entry in the map is newer, and it is later *)
(* than that of every handler still waiting for the mutex.                 *)
Applied(k, reply) ==
    IF k \in Present
    THEN Put(k, Refreshed(cache[k], reply), IF reply.ok THEN CombinedOf(k) ELSE {})
    ELSE cache

ApplyRefresh(t) ==
    /\ At(t, "refresh", "apply")
    /\ LET k == task[t].key
       IN /\ cache' = Applied(k, task[t].reply)
          /\ task' = [u \in Threads |->
                        IF u = t THEN Idle
                        ELSE IF u \in Stamped /\ k \in Present
                        THEN [task[u] EXCEPT !.newer = @ \cup {k}]
                        ELSE task[u]]
    /\ UNCHANGED <<disk, slept>>

-----------------------------------------------------------------------------
(* One tick passes: every age grows up to the largest bound it is          *)
(* compared with.                                                          *)
Aged(k, e) ==
    [e EXCEPT !.created = Older(@, Ttl[k.archive]),
              !.updated = Older(@, Ttl[k.archive]),
              !.tried = Older(@, Ttl[k.archive]),
              !.access = Older(@, Window[k.archive]),
              !.force = Older(@, ForceMinimum)]

Tick ==
    /\ cache' = [k \in Present |-> Aged(k, cache[k])]
    /\ disk' = [c \in Clusters |-> Older(disk[c], DiskTtl + 1)]
    /\ task' = [t \in Threads |->
                  IF t \in Stamped
                  THEN [task[t] EXCEPT !.entry = Aged(task[t].key, @)]
                  ELSE task[t]]
    /\ slept' = TRUE

HandlerStep(t) ==
    \/ Lookup(t) \/ Purge(t) \/ Remove(t) \/ Fetch(t)
    \/ WriteFails(t) \/ Stamp(t) \/ Insert(t)
RefreshStep(t) == RefreshFetch(t) \/ ApplyRefresh(t)

Next ==
    \/ Tick
    \/ MarkDue
    \/ \E t \in Handlers : Accept(t) \/ HandlerStep(t)
    \/ \E t \in Refreshers : RefreshStep(t)

Spec == Init /\ [][Next]_vars

(* The operating system runs every thread that is ready and time passes.   *)
(* Nothing makes clients send requests, so Accept has no fairness.         *)
Fairness ==
    /\ WF_vars(Tick)
    /\ WF_vars(MarkDue)
    /\ \A t \in Handlers : WF_vars(HandlerStep(t))
    /\ \A t \in Refreshers : WF_vars(RefreshStep(t))

FairSpec == Spec /\ Fairness

-----------------------------------------------------------------------------
TypeOK ==
    /\ Present \subseteq Keys
    /\ \A k \in Present : cache[k] \in Entry
    /\ task \in [Threads -> Tasks]
    /\ disk \in [Clusters -> 0..(DiskTtl + 1)]
    /\ slept \in BOOLEAN

(* A snapshot marked refreshing is being refreshed: the flag cannot be     *)
(* left behind by a forced request that replaces the entry or by a refresh *)
(* that fails, or the refresh loop would skip the key for ever.            *)
RefreshFlagOwned ==
    \A k \in Present : cache[k].refreshing => Refreshing(k) # {}

(* The daemon never goes on showing a combined snapshot it took no notice  *)
(* of since one of its clusters moved on: beside the newer snapshot of a   *)
(* cluster, a combined one of the same mode was stored, or a refresh of it *)
(* ended (even a failing one), after that newer reply was stamped          *)
(* (invalidate_older_combined, whichever of the threads are in between).   *)
CombinedTriedSince ==
    \A k, j \in Present :
        k.cluster \notin Combined /\ j.cluster \in Combined /\ j.archive = k.archive
            => cache[j].tried <= cache[k].updated

(* Polling stops after the last client: if requests end, refreshing ends.  *)
Quiescence ==
    <>[](\A t \in Handlers : task[t] = Idle) => <>[](\A t \in Refreshers : task[t] = Idle)

(* A snapshot that clients keep reading does not stay stale, even when     *)
(* forced requests replace it and refreshes fail.                          *)
KeptWarm ==
    \A k \in Keys :
        <>[](k \in Present => cache[k].access < Window[k.archive])
            => []<>(k \in Present => cache[k].created < Ttl[k.archive])

(* Both: a window is refreshed as long as somebody reads, and no longer    *)
(* (daemon/cache.rs:136).                                                  *)
RefreshedWhileRead == Quiescence /\ KeptWarm

-----------------------------------------------------------------------------
(* What the README and a test's name say and the code does not do.         *)

(* daemon/tests.rs: newer_cluster_snapshot_invalidates_only_older_combined *)
(* _snapshots.  An older combined reply stays when a refresh of it failed  *)
(* between the handler's instant and its insert: created is then newer     *)
(* than the instant though the reply is not.  And a handler of a combined  *)
(* key may wait for the mutex while a refresh of a cluster goes first.     *)
CombinedNotOlder ==
    \A k, j \in Present :
        k.cluster \notin Combined /\ j.cluster \in Combined /\ j.archive = k.archive
            => cache[j].updated <= cache[k].updated

(* README: "one background refresh updates every window".                  *)
OneRefreshPerKey == \A k \in Keys : Cardinality(Refreshing(k)) <= 1
=============================================================================
