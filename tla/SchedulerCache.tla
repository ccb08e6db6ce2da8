--------------------------- MODULE SchedulerCache ---------------------------
(***************************************************************************)
(* The scheduler metadata cache on disk (slurm.rs, slurm/aggregate.rs).    *)
(* Followers, monitors, pickers and the daemon are separate processes that *)
(* list the jobs of a cluster; each listing runs two lookups on threads of *)
(* their own, one for the queue and one for accounting.  A lookup reads a  *)
(* cache file, and on a miss takes the file's flock, reads it again, calls *)
(* the scheduler and renames a new file into place.  A forced listing      *)
(* first deletes cache files by name.                                      *)
(*                                                                         *)
(* One cluster is modelled: lookups of different clusters share nothing    *)
(* but invalidate_caches, which deletes the files of all of them.  What a  *)
(* scheduler would answer is a version number that only grows; the age of  *)
(* a file is measured in ticks and capped.                                 *)
(***************************************************************************)
EXTENDS Naturals, FiniteSets

CONSTANTS
    Procs,          \* bound: listings in flight at once
    NoProc,         \* nobody holds the flock
    Accounting,     \* whether the cluster has accounting enabled
    Archives,       \* values of the archive flag that listings use
    QueueTtl,       \* QUEUE_CACHE_TTL in ticks
    AccountingTtl,  \* RECENT_CACHE_TTL and ARCHIVE_CACHE_TTL in ticks
    MaxVersion,     \* bound: changes of the scheduler's state
    Crashes         \* whether a process may be killed at any point

ASSUME ConstantsAssumption ==
    /\ NoProc \notin Procs
    /\ Accounting \in BOOLEAN /\ Crashes \in BOOLEAN
    /\ Archives \subseteq BOOLEAN
    /\ QueueTtl \in Nat /\ AccountingTtl \in Nat /\ MaxVersion \in Nat

VARIABLES
    file,       \* [Names -> [ver, age]]: a file older than its ttl is as good as absent
    lock,       \* [Names -> Procs or NoProc]: flock on the file's query.lock
    listing,    \* [Procs -> what the process is doing]
    world,      \* version of the scheduler's state
    newest      \* history: [Names -> highest version ever stored]

vars == <<file, lock, listing, world, newest>>

-----------------------------------------------------------------------------
Parts == {"queue", "accounting"}

Names == {"queue-v3", "recent", "recent-v2", "archive", "archive-v2",
          "archive-days", "archive-v2-days"}

(* queue_cache_name and the names recent() builds. *)
NameOf(part, archive) ==
    IF part = "queue" THEN "queue-v3"
    ELSE IF archive THEN "archive-v2-days" ELSE "recent-v2"

(* The names the cache-only fast path of all_jobs_direct reads. *)
FastNameOf(part, archive) ==
    IF part = "queue" THEN "queue-v3"
    ELSE IF archive THEN "archive-days" ELSE "recent"

(* The names invalidate_caches removes, older generations included. *)
Invalidated == {"queue-v3", "recent", "recent-v2", "archive", "archive-v2", "archive-days"}

TtlOf(n) == IF n = "queue-v3" THEN QueueTtl ELSE AccountingTtl
Absent(n) == [ver |-> 0, age |-> TtlOf(n) + 1]

(* cached_jobs *)
Usable(n) == file[n].age <= TtlOf(n)

Idle == [phase |-> "idle"]
PartStates == {"check", "wait", "recheck", "call", "store", "done", "failed"}
Listings == {Idle} \cup
    [phase: {"purge", "fast", "slow"}, archive: BOOLEAN, forced: BOOLEAN,
     at: [Parts -> PartStates], got: [Parts -> Nat],
     since: Nat]      \* history: world when a forced listing began

Part(p, part) == listing[p].at[part]
InPart(p, part, state) == listing[p].phase = "slow" /\ Part(p, part) = state
FileOf(p, part) == NameOf(part, listing[p].archive)

Init ==
    /\ file = [n \in Names |-> Absent(n)]
    /\ lock = [n \in Names |-> NoProc]
    /\ listing = [p \in Procs |-> Idle]
    /\ world = 0
    /\ newest = [n \in Names |-> 0]

-----------------------------------------------------------------------------
(* all_jobs, or all_jobs_fresh with force. *)
Start(p, archive, forced) ==
    /\ listing[p] = Idle
    /\ listing' = [listing EXCEPT ![p] =
                     [phase |-> IF forced THEN "purge" ELSE "fast",
                      archive |-> archive, forced |-> forced,
                      at |-> [part \in Parts |-> "check"],
                      got |-> [part \in Parts |-> 0],
                      since |-> IF forced THEN world ELSE 0]]
    /\ UNCHANGED <<file, lock, world, newest>>

Purge(p) ==
    /\ listing[p].phase = "purge"
    /\ file' = [n \in Names |-> IF n \in Invalidated THEN Absent(n) ELSE file[n]]
    /\ listing' = [listing EXCEPT ![p].phase = "fast"]
    /\ UNCHANGED <<lock, world, newest>>

(* The fast path answers only if every file it reads is usable; a cluster  *)
(* without accounting has no second file.                                  *)
FastHit(p) ==
    /\ Usable(FastNameOf("queue", listing[p].archive))
    /\ Accounting => Usable(FastNameOf("accounting", listing[p].archive))

FastPath(p) ==
    /\ listing[p].phase = "fast"
    /\ listing' = [listing EXCEPT
                     ![p].phase = "slow",
                     ![p].at = [part \in Parts |->
                                  IF FastHit(p) \/ (part = "accounting" /\ ~Accounting)
                                  THEN "done" ELSE "check"],
                     ![p].got = [part \in Parts |->
                                   IF FastHit(p) /\ (part = "accounting" => Accounting)
                                   THEN file[FastNameOf(part, listing[p].archive)].ver
                                   ELSE listing[p].since]]
    /\ UNCHANGED <<file, lock, world, newest>>

Moved(p, part, state) == [listing EXCEPT ![p].at[part] = state]
Answered(p, part, ver) == [listing EXCEPT ![p].at[part] = "done", ![p].got[part] = ver]

(* The first look at the file, without the lock. *)
Check(p, part) ==
    /\ InPart(p, part, "check")
    /\ listing' = IF Usable(FileOf(p, part))
                  THEN Answered(p, part, file[FileOf(p, part)].ver)
                  ELSE Moved(p, part, "wait")
    /\ UNCHANGED <<file, lock, world, newest>>

(* query_lock *)
NoLock(p, part) ==     \* mutant: the flock is shared, so it never blocks
    /\ InPart(p, part, "wait")
    /\ lock' = [lock EXCEPT ![FileOf(p, part)] = p]
    /\ listing' = Moved(p, part, "recheck")
    /\ UNCHANGED <<file, world, newest>>

Lock(p, part) ==
    /\ InPart(p, part, "wait")
    /\ lock[FileOf(p, part)] = NoProc
    /\ lock' = [lock EXCEPT ![FileOf(p, part)] = p]
    /\ listing' = Moved(p, part, "recheck")
    /\ UNCHANGED <<file, world, newest>>

Unlock(p, part) == lock' = [lock EXCEPT ![FileOf(p, part)] = NoProc]

(* Another process may have stored while this one waited. *)
NoRecheck(p, part) ==     \* mutant: the lock holder always calls
    /\ InPart(p, part, "recheck")
    /\ listing' = Moved(p, part, "call")
    /\ UNCHANGED <<file, lock, world, newest>>

Recheck(p, part) ==
    /\ InPart(p, part, "recheck")
    /\ IF Usable(FileOf(p, part))
       THEN /\ listing' = Answered(p, part, file[FileOf(p, part)].ver)
            /\ Unlock(p, part)
       ELSE /\ listing' = Moved(p, part, "call")
            /\ UNCHANGED lock
    /\ UNCHANGED <<file, world, newest>>

(* The scheduler answers with its state of this moment. *)
Respond(p, part) ==
    /\ InPart(p, part, "call")
    /\ listing' = [listing EXCEPT ![p].at[part] = "store", ![p].got[part] = world]
    /\ UNCHANGED <<file, lock, world, newest>>

(* The lookup ends in a warning; dropping the file handle unlocks. *)
CallFails(p, part) ==
    /\ InPart(p, part, "call")
    /\ listing' = Moved(p, part, "failed")
    /\ Unlock(p, part)
    /\ UNCHANGED <<file, world, newest>>

(* store_jobs: rename over the old file, or drop the temporary file. *)
Store(p, part) ==
    /\ InPart(p, part, "store")
    /\ LET n == FileOf(p, part)
           ver == listing[p].got[part]
       IN /\ \/ /\ file' = [file EXCEPT ![n] = [ver |-> ver, age |-> 0]]
                /\ newest' = [newest EXCEPT ![n] = IF ver > @ THEN ver ELSE @]
             \/ UNCHANGED <<file, newest>>
    /\ listing' = Moved(p, part, "done")
    /\ Unlock(p, part)
    /\ UNCHANGED world

(* The scope joins both threads. *)
Finish(p) ==
    /\ listing[p].phase = "slow"
    /\ \A part \in Parts : Part(p, part) \in {"done", "failed"}
    /\ listing' = [listing EXCEPT ![p] = Idle]
    /\ UNCHANGED <<file, lock, world, newest>>

(* A killed process loses its locks and leaves every file as it is. *)
Crash(p) ==
    /\ Crashes
    /\ listing[p] # Idle
    /\ listing' = [listing EXCEPT ![p] = Idle]
    /\ lock' = [n \in Names |-> IF lock[n] = p THEN NoProc ELSE lock[n]]
    /\ UNCHANGED <<file, world, newest>>

-----------------------------------------------------------------------------
Tick ==
    /\ file' = [n \in Names |-> [file[n] EXCEPT !.age = IF @ <= TtlOf(n) THEN @ + 1 ELSE @]]
    /\ UNCHANGED <<lock, listing, world, newest>>

WorldMoves ==
    /\ world < MaxVersion
    /\ world' = world + 1
    /\ UNCHANGED <<file, lock, listing, newest>>

LookupStep(p, part) ==
    \/ Check(p, part) \/ Lock(p, part) \/ Recheck(p, part)
    \/ Respond(p, part) \/ CallFails(p, part) \/ Store(p, part)

Next ==
    \/ Tick
    \/ WorldMoves
    \/ \E p \in Procs :
         \/ \E archive \in Archives, forced \in BOOLEAN : Start(p, archive, forced)
         \/ Purge(p) \/ FastPath(p) \/ Finish(p) \/ Crash(p)
         \/ \E part \in Parts : LookupStep(p, part)

Spec == Init /\ [][Next]_vars

(* Some thread of every process runs, calls return or fail, and the kernel *)
(* grants a flock that is free again and again to a process that waits.    *)
Progress(p) ==
    \/ Purge(p) \/ FastPath(p) \/ Finish(p)
    \/ \E part \in Parts :
         Check(p, part) \/ Recheck(p, part) \/ Store(p, part) \/ Respond(p, part)
           \/ CallFails(p, part)

Fairness ==
    \A p \in Procs : WF_vars(Progress(p)) /\ SF_vars(\E part \in Parts : Lock(p, part))

FairSpec == Spec /\ Fairness

-----------------------------------------------------------------------------
TypeOK ==
    /\ file \in [Names -> [ver: Nat, age: Nat]]
    /\ lock \in [Names -> Procs \cup {NoProc}]
    /\ listing \in [Procs -> Listings]
    /\ world \in Nat
    /\ newest \in [Names -> Nat]

Locked == {"recheck", "call", "store"}

(* The lookups that are inside the locked section of file n. *)
Inside(n) == {p \in Procs : \E part \in Parts :
                 /\ listing[p].phase = "slow" /\ Part(p, part) \in Locked
                 /\ FileOf(p, part) = n}

(* "Lock and recheck so only one of them performs the scheduler RPC at     *)
(* expiry" (slurm.rs, queued): at most one process is inside the locked    *)
(* section of a file, whatever crashes and whatever is deleted.            *)
SingleFlight ==
    \A n \in Names : \A p, q \in Inside(n) : p = q

(* A lookup calls the scheduler only while no usable copy of the answer    *)
(* exists: none can appear before it stores its own.                       *)
NoWastedCall ==
    \A p \in Procs, part \in Parts :
        InPart(p, part, "call") \/ InPart(p, part, "store") => ~Usable(FileOf(p, part))

(* Cache files never go back in time: a store never replaces the answer of *)
(* a later call, not even after the newer file was deleted.                *)
StoresInOrder ==
    [][\A n \in Names : file'[n].age = 0 /\ file'[n] # file[n] => file'[n].ver >= newest[n]]_vars

(* README: "Pressing `r` requests fresh data": what a forced listing       *)
(* returns was not observed before the key was pressed.                    *)
ForcedIsFresh ==
    \A p \in Procs :
        listing[p].phase = "slow" /\ listing[p].forced
            => \A part \in Parts : Part(p, part) = "done"
                                     => listing[p].got[part] >= listing[p].since
=============================================================================
