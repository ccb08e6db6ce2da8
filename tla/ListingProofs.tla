--------------------------- MODULE ListingProofs ---------------------------
(***************************************************************************)
(* Proofs about job listings and about what is concluded from them, for    *)
(* every set of clusters, threads, jobs and monitors: the snapshots of the *)
(* daemon, and the followers and auto-add monitors that read stored,       *)
(* thinned or missing listings.  The two specifications share no state.    *)
(***************************************************************************)
EXTENDS DaemonQuery, Watch, TLAPS

-----------------------------------------------------------------------------
(* The snapshots of the daemon (module DaemonQuery): the refreshing flag   *)
(* is never left behind, and a combined snapshot that is older than one of *)
(* its parts was stored or tried again after that part was made.           *)

(* What the type invariant says of one thread's task. *)
LEMMA TaskTypes ==
    ASSUME TypeOK, NEW t \in Threads
    PROVE  /\ task[t] \in Tasks
           /\ At(t, "handler", "lookup") => task[t] \in HandlerTask
           /\ At(t, "handler", "purge") => task[t] \in HandlerTask
           /\ At(t, "handler", "remove") => task[t] \in HandlerTask
           /\ At(t, "handler", "fetch") => task[t] \in HandlerTask
           /\ At(t, "handler", "write") => task[t] \in WriteTask
           /\ At(t, "handler", "insert") => task[t] \in InsertTask
           /\ At(t, "refresh", "fetch") => task[t] \in RefreshTask
           /\ At(t, "refresh", "apply") => task[t] \in ApplyTask
  BY DEF TypeOK, At, Tasks, Idle, HandlerTask, WriteTask, InsertTask, RefreshTask, ApplyTask

(* Ages stay in range and keep their type. *)
LEMMA OlderType ==
    ASSUME NEW age \in Nat, NEW cap \in Nat
    PROVE  /\ Older(age, cap) \in Nat
           /\ age \in 0..cap => Older(age, cap) \in 0..cap
  BY DEF Older

(* Entries written by a request or a refresh are entries. *)
LEMMA EntryTypes ==
    ASSUME NEW reply \in Replies, NEW forced, NEW e \in Entry
    PROVE  FreshEntry(reply, forced) \in Entry /\ Refreshed(e, reply) \in Entry
  <1>1. FreshEntry(reply, forced) \in Entry
    <2>1. (IF forced THEN 0 ELSE Never) \in 0..ForceMinimum
      BY TimesAssumption DEF Never
    <2> QED BY <2>1 DEF FreshEntry, Entry
  <1>2. Refreshed(e, reply) \in Entry
    <2>1. (IF reply.ok THEN reply ELSE e.reply) \in Replies
      BY DEF Entry
    <2>2. (IF reply.ok THEN 0 ELSE e.updated) \in Nat
      BY DEF Entry
    <2> QED BY <2>1, <2>2 DEF Refreshed, Entry
  <1> QED BY <1>1, <1>2

(* Put changes one key, drops some and keeps the rest. *)
LEMMA PutType ==
    ASSUME TypeOK, NEW k \in Keys, NEW e \in Entry, NEW dropped
    PROVE  /\ DOMAIN Put(k, e, dropped) \subseteq Keys
           /\ \A j \in DOMAIN Put(k, e, dropped) : Put(k, e, dropped)[j] \in Entry
           /\ Put(k, e, dropped)[k] = e
           /\ \A j \in DOMAIN Put(k, e, dropped) \ {k} :
                 j \in Present /\ Put(k, e, dropped)[j] = cache[j]
  BY DEF TypeOK, Put, Present

LEMMA KeyFields ==
    ASSUME NEW k \in Keys
    PROVE  k.archive \in Modes
  BY DEF Keys

(* A waiting handler that notes what went before it is a waiting handler;  *)
(* nobody else is touched.                                                 *)
LEMMA NotedTypes ==
    ASSUME TypeOK, NEW t \in Threads,
           task' = [u \in Threads |-> task'[u]],
           task'[t] \in Tasks,
           \A u \in Threads \ {t} :
              \/ task'[u] = task[u]
              \/ /\ u \in Stamped
                 /\ \E newer \in SUBSET Keys, after \in SUBSET Handlers :
                       task'[u] = [task[u] EXCEPT !.newer = newer, !.after = after]
    PROVE  /\ task' \in [Threads -> Tasks]
           /\ \A r \in Refreshers : r # t => task'[r] = task[r]
  <1>1. ASSUME NEW u \in Threads PROVE task'[u] \in Tasks
    <2>1. CASE u = t \/ task'[u] = task[u]
      BY <2>1 DEF TypeOK
    <2>2. CASE u # t /\ task'[u] # task[u]
      <3>1. PICK newer \in SUBSET Keys, after \in SUBSET Handlers :
               task'[u] = [task[u] EXCEPT !.newer = newer, !.after = after]
        BY <2>2
      <3>2. task[u] \in InsertTask
        BY <2>2, TaskTypes DEF Stamped
      <3>3. task'[u] \in InsertTask
        BY <3>1, <3>2 DEF InsertTask
      <3> QED BY <3>3 DEF Tasks
    <2> QED BY <2>1, <2>2
  <1>2. \A r \in Refreshers : r # t => task'[r] = task[r]
    BY NamesAssumption DEF Stamped, Threads
  <1> QED BY <1>1, <1>2

(* What a listing leaves behind. *)
LEMMA ListingType ==
    ASSUME TypeOK, NEW k, NEW reply, Listing(k, reply)
    PROVE  disk' \in [Clusters -> 0..(DiskTtl + 1)]
  <1> DEFINE missed == {c \in Selected(k) : disk[c] > DiskTtl}
  <1>1. PICK failed \in SUBSET (IF "rpc" \in Faults THEN missed ELSE {}) :
           disk' = [c \in Clusters |-> IF c \in missed \ failed THEN 0 ELSE disk[c]]
    BY DEF Listing
  <1> QED BY <1>1, TimesAssumption DEF TypeOK

(* Spawning: a pass of the loop gives every due key a thread of its own.   *)
LEMMA SpawnFacts ==
    ASSUME TypeOK, NEW due \in SUBSET Keys, NEW spawn \in [due -> IdleRefreshers],
           \A j, k \in due : spawn[j] = spawn[k] => j = k,
           task' = [t \in Threads |->
                      IF \E k \in due : spawn[k] = t
                      THEN [kind |-> "refresh", pc |-> "fetch",
                            key |-> CHOOSE k \in due : spawn[k] = t]
                      ELSE task[t]]
    PROVE  /\ task' \in [Threads -> Tasks]
           /\ \A k \in due : Refreshing(k)' # {}
           /\ \A k \in Keys : Refreshing(k) # {} => Refreshing(k)' # {}
  <1>1. task' \in [Threads -> Tasks]
    <2>1. ASSUME NEW t \in Threads PROVE task'[t] \in Tasks
      <3>1. CASE \E k \in due : spawn[k] = t
        <4>1. (CHOOSE k \in due : spawn[k] = t) \in Keys
          BY <3>1
        <4> QED BY <3>1, <4>1 DEF Tasks, RefreshTask
      <3>2. CASE ~ \E k \in due : spawn[k] = t
        BY <3>2 DEF TypeOK
      <3> QED BY <3>1, <3>2
    <2> QED BY <2>1
  <1>2. ASSUME NEW k \in due PROVE Refreshing(k)' # {}
    <2> DEFINE t == spawn[k]
    <2>1. t \in Refreshers
      BY DEF IdleRefreshers
    <2>2. t \in Threads
      BY <2>1 DEF Threads
    <2>3. (CHOOSE j \in due : spawn[j] = t) = k
      <3>1. \A j \in due : spawn[j] = t => j = k
        OBVIOUS
      <3>2. spawn[k] = t
        OBVIOUS
      <3> HIDE DEF t
      <3> QED BY <3>1, <3>2
    <2>4. \E j \in due : spawn[j] = t
      OBVIOUS
    <2>5. task'[t] = [kind |-> "refresh", pc |-> "fetch", key |-> k]
      <3> HIDE DEF t
      <3> QED BY <2>2, <2>3, <2>4
    <2>6. task'[t] # Idle /\ task'[t].key = k
      <3> HIDE DEF t
      <3> QED BY <2>5 DEF Idle
    <2> QED BY <2>1, <2>6 DEF Refreshing
  <1>3. ASSUME NEW k \in Keys, Refreshing(k) # {} PROVE Refreshing(k)' # {}
    <2>1. PICK t \in Refreshers : task[t] # Idle /\ task[t].key = k
      BY <1>3 DEF Refreshing
    <2>2. ~ \E j \in due : spawn[j] = t
      BY <2>1 DEF IdleRefreshers
    <2>3. task'[t] = task[t]
      BY <2>1, <2>2 DEF Threads
    <2> QED BY <2>1, <2>3 DEF Refreshing
  <1> QED BY <1>1, <1>2, <1>3

-----------------------------------------------------------------------------
Inv == TypeOK /\ RefreshFlagOwned

LEMMA InitInv == Init => Inv
  <1> SUFFICES ASSUME Init PROVE Inv
    OBVIOUS
  <1>1. Present = {}
    BY DEF Init, Present
  <1>2. disk \in [Clusters -> 0..(DiskTtl + 1)]
    BY TimesAssumption DEF Init
  <1>3. task \in [Threads -> Tasks] /\ slept \in BOOLEAN
    BY DEF Init, Tasks
  <1> QED BY <1>1, <1>2, <1>3 DEF Inv, TypeOK, RefreshFlagOwned

(* A step that changes no refresher's task and at most unmarks entries     *)
(* keeps every flag owned.                                                 *)
LEMMA FlagsKept ==
    ASSUME RefreshFlagOwned,
           \A t \in Refreshers : task'[t] = task[t],
           \A k \in Present' : cache'[k].refreshing => k \in Present /\ cache[k].refreshing
    PROVE  RefreshFlagOwned'
  BY DEF RefreshFlagOwned, Refreshing

(* A handler is not a refresher, so a step of a handler leaves refreshers' tasks alone. *)
LEMMA HandlerLeavesRefreshers ==
    ASSUME TypeOK, NEW t \in Handlers, NEW v, task' = [task EXCEPT ![t] = v]
    PROVE  \A r \in Refreshers : task'[r] = task[r]
  BY NamesAssumption DEF TypeOK, Threads

(* What the other waiting handlers note when one takes its instant, when   *)
(* one inserts, and when a refresh ends.                                   *)
LEMMA StampNotes ==
    ASSUME TypeOK, NEW t \in Handlers, Stamp(t)
    PROVE  /\ task' \in [Threads -> Tasks]
           /\ \A r \in Refreshers : r # t => task'[r] = task[r]
  <1>0. t \in Threads
    BY DEF Threads
  <1>1. task[t] \in WriteTask
    BY <1>0, TaskTypes DEF Stamp
  <1>2. task[t].key \in Keys /\ task[t].reply \in Replies
    BY <1>1 DEF WriteTask
  <1>3. /\ FreshEntry(task[t].reply, task[t].forced) \in Entry
        /\ ~FreshEntry(task[t].reply, task[t].forced).refreshing
    <2>1. (IF task[t].forced THEN 0 ELSE Never) \in 0..ForceMinimum
      BY TimesAssumption DEF Never
    <2> QED BY <1>2, <2>1 DEF FreshEntry, Entry
  <1>4. task' = [u \in Threads |-> task'[u]]
    BY DEF Stamp
  <1>5. task'[t] \in Tasks
    <2>1. task'[t] = [kind |-> "handler", pc |-> "insert", key |-> task[t].key,
                      entry |-> FreshEntry(task[t].reply, task[t].forced),
                      newer |-> {}, after |-> {}]
      BY <1>0 DEF Stamp
    <2> HIDE DEF FreshEntry
    <2> QED BY <2>1, <1>2, <1>3 DEF Tasks, InsertTask
  <1>6. ASSUME NEW u \in Threads \ {t}, u \in Stamped
        PROVE  \E newer \in SUBSET Keys, after \in SUBSET Handlers :
                  task'[u] = [task[u] EXCEPT !.newer = newer, !.after = after]
    <2>1. task[u] \in InsertTask
      BY <1>6, TaskTypes DEF Stamped
    <2>2. task'[u] = [task[u] EXCEPT !.after = task[u].after \cup {t}]
      BY <1>6 DEF Stamp
    <2>3. task'[u] = [task[u] EXCEPT !.newer = task[u].newer, !.after = task[u].after \cup {t}]
      BY <2>1, <2>2 DEF InsertTask
    <2>4. task[u].newer \in SUBSET Keys /\ task[u].after \cup {t} \in SUBSET Handlers
      BY <2>1 DEF InsertTask
    <2> QED BY <2>3, <2>4
  <1>7. \A u \in Threads \ {t} : u \notin Stamped => task'[u] = task[u]
    BY DEF Stamp
  <1> QED BY <1>0, <1>4, <1>5, <1>6, <1>7, NotedTypes

LEMMA InsertNotes ==
    ASSUME TypeOK, NEW t \in Handlers, Insert(t)
    PROVE  /\ task' \in [Threads -> Tasks]
           /\ \A r \in Refreshers : r # t => task'[r] = task[r]
           /\ \A u \in Threads \ {t} : u \in Stamped =>
                 /\ task'[u].key = task[u].key /\ task'[u].entry = task[u].entry
                 /\ task'[u].newer \subseteq task[u].newer \cup {task[t].key}
  <1>0. t \in Threads
    BY DEF Threads
  <1>1. task[t] \in InsertTask
    BY <1>0, TaskTypes DEF Insert
  <1>2. task[t].key \in Keys
    BY <1>1 DEF InsertTask
  <1>4. task' = [u \in Threads |-> task'[u]]
    BY DEF Insert
  <1>5. task'[t] \in Tasks
    BY <1>0 DEF Insert, Tasks
  <1>6. ASSUME NEW u \in Threads \ {t}, u \in Stamped
        PROVE  \E newer \in SUBSET Keys, after \in SUBSET Handlers :
                  /\ task'[u] = [task[u] EXCEPT !.newer = newer, !.after = after]
                  /\ newer \subseteq task[u].newer \cup {task[t].key}
    <2>1. task[u] \in InsertTask
      BY <1>6, TaskTypes DEF Stamped
    <2> DEFINE newer == IF t \in task[u].after THEN task[u].newer \cup {task[t].key}
                        ELSE task[u].newer \ {task[t].key}
               after == task[u].after \ {t}
    <2>2. task'[u] = [task[u] EXCEPT !.newer = newer, !.after = after]
      BY <1>6, <2>1 DEF Insert, InsertTask
    <2>3. /\ newer \in SUBSET Keys /\ after \in SUBSET Handlers
          /\ newer \subseteq task[u].newer \cup {task[t].key}
      BY <2>1, <1>2 DEF InsertTask
    <2> HIDE DEF newer, after
    <2> QED BY <2>2, <2>3
  <1>7. \A u \in Threads \ {t} : u \notin Stamped => task'[u] = task[u]
    BY DEF Insert
  <1>8. ASSUME NEW u \in Threads \ {t}, u \in Stamped
        PROVE  /\ task'[u].key = task[u].key /\ task'[u].entry = task[u].entry
               /\ task'[u].newer \subseteq task[u].newer \cup {task[t].key}
    <2>1. task[u] \in InsertTask
      BY <1>8, TaskTypes DEF Stamped
    <2> QED BY <1>6, <1>8, <2>1 DEF InsertTask
  <1>9. \A u \in Threads \ {t} : u \in Stamped =>
           \E newer \in SUBSET Keys, after \in SUBSET Handlers :
              task'[u] = [task[u] EXCEPT !.newer = newer, !.after = after]
    BY <1>6
  <1> QED BY <1>0, <1>4, <1>5, <1>7, <1>8, <1>9, NotedTypes

LEMMA ApplyNotes ==
    ASSUME TypeOK, NEW t \in Refreshers, ApplyRefresh(t)
    PROVE  /\ task' \in [Threads -> Tasks]
           /\ \A r \in Refreshers : r # t => task'[r] = task[r]
           /\ \A u \in Threads \ {t} : u \in Stamped =>
                 /\ task'[u].key = task[u].key /\ task'[u].entry = task[u].entry
                 /\ task'[u].newer \subseteq
                       task[u].newer \cup ({task[t].key} \cap Present)
  <1>0. t \in Threads
    BY DEF Threads
  <1>1. task[t] \in ApplyTask
    BY <1>0, TaskTypes DEF ApplyRefresh
  <1>2. task[t].key \in Keys
    BY <1>1 DEF ApplyTask
  <1>4. task' = [u \in Threads |-> task'[u]]
    BY DEF ApplyRefresh
  <1>5. task'[t] \in Tasks
    BY <1>0 DEF ApplyRefresh, Tasks
  <1>6. ASSUME NEW u \in Threads \ {t}, u \in Stamped
        PROVE  \E newer \in SUBSET Keys, after \in SUBSET Handlers :
                  /\ task'[u] = [task[u] EXCEPT !.newer = newer, !.after = after]
                  /\ newer \subseteq task[u].newer \cup ({task[t].key} \cap Present)
    <2>1. task[u] \in InsertTask
      BY <1>6, TaskTypes DEF Stamped
    <2> DEFINE newer == task[u].newer \cup ({task[t].key} \cap Present)
    <2>2. task'[u] = [task[u] EXCEPT !.newer = newer, !.after = task[u].after]
      <3>1. CASE task[t].key \in Present
        <4>1. task'[u] = [task[u] EXCEPT !.newer = task[u].newer \cup {task[t].key}]
          BY <1>6, <3>1 DEF ApplyRefresh
        <4>2. newer = task[u].newer \cup {task[t].key}
          BY <3>1
        <4> HIDE DEF newer
        <4> QED BY <2>1, <4>1, <4>2 DEF InsertTask
      <3>2. CASE task[t].key \notin Present
        <4>1. task'[u] = task[u]
          BY <1>6, <3>2 DEF ApplyRefresh
        <4>2. newer = task[u].newer
          BY <3>2
        <4> HIDE DEF newer
        <4> QED BY <2>1, <4>1, <4>2 DEF InsertTask
      <3> QED BY <3>1, <3>2
    <2>3. newer \in SUBSET Keys /\ task[u].after \in SUBSET Handlers
      BY <2>1, <1>2 DEF InsertTask
    <2> QED BY <2>2, <2>3
  <1>7. \A u \in Threads \ {t} : u \notin Stamped => task'[u] = task[u]
    BY DEF ApplyRefresh
  <1>8. ASSUME NEW u \in Threads \ {t}, u \in Stamped
        PROVE  /\ task'[u].key = task[u].key /\ task'[u].entry = task[u].entry
               /\ task'[u].newer \subseteq
                     task[u].newer \cup ({task[t].key} \cap Present)
    <2>1. task[u] \in InsertTask
      BY <1>8, TaskTypes DEF Stamped
    <2> QED BY <1>6, <1>8, <2>1 DEF InsertTask
  <1>9. \A u \in Threads \ {t} : u \in Stamped =>
           \E newer \in SUBSET Keys, after \in SUBSET Handlers :
              task'[u] = [task[u] EXCEPT !.newer = newer, !.after = after]
    BY <1>6
  <1> QED BY <1>0, <1>4, <1>5, <1>7, <1>8, <1>9, NotedTypes

LEMMA HandlerStepInv ==
    ASSUME Inv, NEW t \in Handlers, Accept(t) \/ HandlerStep(t)
    PROVE  Inv'
  <1> USE DEF Inv
  <1>0. t \in Threads
    BY DEF Threads
  <1>1. CASE Accept(t)
    <2>1. TypeOK'
      BY <1>1, <1>0, NamesAssumption
      DEF Accept, TypeOK, Tasks, HandlerTask, Present
    <2>2. RefreshFlagOwned'
      <3>1. PICK v : task' = [task EXCEPT ![t] = v]
        BY <1>1 DEF Accept
      <3>2. \A r \in Refreshers : task'[r] = task[r]
        BY <3>1, HandlerLeavesRefreshers
      <3> QED BY <1>1, <3>2, FlagsKept DEF Accept, Present
    <2> QED BY <2>1, <2>2
  <1>2. CASE Lookup(t)
    <2> DEFINE k == task[t].key
               v == IF k \in Present /\ Answers(cache[k], task[t].forced) THEN Idle
                    ELSE [task[t] EXCEPT !.pc = IF task[t].forced THEN "purge" ELSE "fetch"]
    <2>1. task[t] \in HandlerTask
      BY <1>2, <1>0, TaskTypes DEF Lookup
    <2>2. task' = [task EXCEPT ![t] = v]
      BY <1>2 DEF Lookup
    <2>3. v \in Tasks
      BY <2>1 DEF Tasks, HandlerTask
    <2>4. /\ Present' = Present
          /\ \A j \in Present : cache'[j] = IF j = k THEN [cache[j] EXCEPT !.access = 0]
                                                     ELSE cache[j]
      BY <1>2 DEF Lookup, Present
    <2>5. \A j \in Present : cache'[j] \in Entry /\ cache'[j].refreshing = cache[j].refreshing
      <3> SUFFICES ASSUME NEW j \in Present
                   PROVE  cache'[j] \in Entry /\ cache'[j].refreshing = cache[j].refreshing
        OBVIOUS
      <3>1. cache[j] \in Entry
        BY DEF TypeOK
      <3>2. CASE cache'[j] = cache[j]
        BY <3>1, <3>2
      <3>3. CASE cache'[j] = [cache[j] EXCEPT !.access = 0]
        BY <3>1, <3>3 DEF Entry
      <3> QED BY <2>4, <3>2, <3>3
    <2>6. TypeOK'
      <3> HIDE DEF v
      <3> QED BY <1>2, <1>0, <2>2, <2>3, <2>4, <2>5 DEF Lookup, TypeOK
    <2>7. \A r \in Refreshers : task'[r] = task[r]
      BY <2>2, HandlerLeavesRefreshers
    <2>8. RefreshFlagOwned'
      BY <2>4, <2>5, <2>7, FlagsKept
    <2> QED BY <2>6, <2>8
  <1>3. CASE Purge(t)
    <2>1. task[t] \in HandlerTask
      BY <1>3, <1>0, TaskTypes DEF Purge
    <2>2. [task[t] EXCEPT !.pc = "remove"] \in Tasks
      BY <2>1 DEF Tasks, HandlerTask
    <2>3. task' = [task EXCEPT ![t] = [task[t] EXCEPT !.pc = "remove"]]
      BY <1>3 DEF Purge
    <2>4. TypeOK'
      BY <1>3, <1>0, <2>2, <2>3, TimesAssumption DEF Purge, TypeOK, Present
    <2>5. \A r \in Refreshers : task'[r] = task[r]
      BY <2>3, HandlerLeavesRefreshers
    <2>6. RefreshFlagOwned'
      BY <1>3, <2>5, FlagsKept DEF Purge, Present
    <2> QED BY <2>4, <2>6
  <1>4. CASE Remove(t)
    <2>1. task[t] \in HandlerTask
      BY <1>4, <1>0, TaskTypes DEF Remove
    <2>2. [task[t] EXCEPT !.pc = "fetch"] \in Tasks
      BY <2>1 DEF Tasks, HandlerTask
    <2>3. task' = [task EXCEPT ![t] = [task[t] EXCEPT !.pc = "fetch"]]
      BY <1>4 DEF Remove
    <2>4. /\ Present' \subseteq Present
          /\ \A j \in Present' : cache'[j] = cache[j]
      BY <1>4 DEF Remove, Present, Restrict
    <2>5. TypeOK'
      BY <1>4, <1>0, <2>2, <2>3, <2>4 DEF Remove, TypeOK
    <2>6. \A r \in Refreshers : task'[r] = task[r]
      BY <2>3, HandlerLeavesRefreshers
    <2>7. RefreshFlagOwned'
      BY <2>4, <2>6, FlagsKept
    <2> QED BY <2>5, <2>7
  <1>5. CASE Fetch(t)
    <2>1. task[t] \in HandlerTask
      BY <1>5, <1>0, TaskTypes DEF Fetch
    <2>2. PICK reply \in Replies :
            /\ Listing(task[t].key, reply)
            /\ task' = [task EXCEPT ![t] =
                          [kind |-> "handler", pc |-> "write", key |-> task[t].key,
                           forced |-> task[t].forced, reply |-> reply]]
      BY <1>5 DEF Fetch
    <2>3. [kind |-> "handler", pc |-> "write", key |-> task[t].key,
           forced |-> task[t].forced, reply |-> reply] \in Tasks
      BY <2>1 DEF Tasks, HandlerTask, WriteTask
    <2>4. task' \in [Threads -> Tasks]
      BY <2>2, <2>3, <1>0 DEF TypeOK
    <2>5. TypeOK'
      BY <1>5, <2>2, <2>4, ListingType DEF Fetch, TypeOK, Present
    <2>6. \A r \in Refreshers : task'[r] = task[r]
      BY <2>2, HandlerLeavesRefreshers
    <2>7. RefreshFlagOwned'
      BY <1>5, <2>6, FlagsKept DEF Fetch, Present
    <2> QED BY <2>5, <2>7
  <1>6. CASE Insert(t)
    <2> DEFINE k == task[t].key
               e == [task[t].entry EXCEPT !.tried = 0]
    <2>1. task[t] \in InsertTask
      BY <1>6, <1>0, TaskTypes DEF Insert
    <2>2. k \in Keys /\ task[t].entry \in Entry /\ ~task[t].entry.refreshing
      BY <2>1 DEF InsertTask
    <2>3. e \in Entry /\ ~e.refreshing
      BY <2>2 DEF Entry
    <2>4. PICK dropped : cache' = Put(k, e, dropped)
      BY <1>6 DEF Insert
    <2>5. /\ Present' \subseteq Keys
          /\ \A j \in Present' : cache'[j] \in Entry
          /\ cache'[k] = e
          /\ \A j \in Present' \ {k} : j \in Present /\ cache'[j] = cache[j]
      <3> HIDE DEF e, k
      <3> QED BY <2>2, <2>3, <2>4, PutType DEF Present
    <2>6. /\ task' \in [Threads -> Tasks]
          /\ \A r \in Refreshers : r # t => task'[r] = task[r]
      BY <1>6, InsertNotes
    <2>7. TypeOK'
      BY <1>6, <2>5, <2>6 DEF Insert, TypeOK
    <2>8. \A r \in Refreshers : task'[r] = task[r]
      BY <2>6, NamesAssumption
    <2>9. RefreshFlagOwned'
      <3> HIDE DEF e, k
      <3> QED BY <2>3, <2>5, <2>8, FlagsKept
    <2> QED BY <2>7, <2>9
  <1>7. CASE WriteFails(t)
    <2>1. TypeOK'
      BY <1>7, <1>0 DEF WriteFails, TypeOK, Tasks, Present
    <2>2. \A r \in Refreshers : task'[r] = task[r]
      BY <1>7, HandlerLeavesRefreshers DEF WriteFails
    <2>3. RefreshFlagOwned'
      BY <1>7, <2>2, FlagsKept DEF WriteFails, Present
    <2> QED BY <2>1, <2>3
  <1>8. CASE Stamp(t)
    <2>1. /\ task' \in [Threads -> Tasks]
          /\ \A r \in Refreshers : r # t => task'[r] = task[r]
      BY <1>8, StampNotes
    <2>2. \A r \in Refreshers : task'[r] = task[r]
      BY <2>1, NamesAssumption
    <2>3. TypeOK'
      BY <1>8, <2>1 DEF Stamp, TypeOK, Present
    <2>4. RefreshFlagOwned'
      BY <1>8, <2>2, FlagsKept DEF Stamp, Present
    <2> QED BY <2>3, <2>4
  <1> QED BY <1>1, <1>2, <1>3, <1>4, <1>5, <1>6, <1>7, <1>8 DEF HandlerStep

LEMMA RefreshStepInv ==
    ASSUME Inv, NEW t \in Refreshers, RefreshStep(t)
    PROVE  Inv'
  <1> USE DEF Inv
  <1>0. t \in Threads
    BY DEF Threads
  <1>1. CASE RefreshFetch(t)
    <2>1. task[t] \in RefreshTask
      BY <1>1, <1>0, TaskTypes DEF RefreshFetch
    <2>2. PICK reply \in Replies :
            /\ Listing(task[t].key, reply)
            /\ task' = [task EXCEPT ![t] = [kind |-> "refresh", pc |-> "apply",
                                            key |-> task[t].key, reply |-> reply]]
      BY <1>1 DEF RefreshFetch
    <2>3. [kind |-> "refresh", pc |-> "apply", key |-> task[t].key, reply |-> reply] \in Tasks
      BY <2>1 DEF Tasks, RefreshTask, ApplyTask
    <2>4. task' \in [Threads -> Tasks]
      BY <2>2, <2>3, <1>0 DEF TypeOK
    <2>5. TypeOK'
      BY <1>1, <2>2, <2>4, ListingType DEF RefreshFetch, TypeOK, Present
    <2>6. task'[t].key = task[t].key /\ task'[t] # Idle
      BY <2>2, <1>0 DEF TypeOK, Idle
    <2>7. \A r \in Refreshers : r # t => task'[r] = task[r]
      BY <2>2 DEF TypeOK, Threads
    <2>8. \A k \in Keys : Refreshing(k) # {} => Refreshing(k)' # {}
      BY <2>6, <2>7 DEF Refreshing
    <2>9. RefreshFlagOwned'
      BY <1>1, <2>8 DEF RefreshFetch, RefreshFlagOwned, Present, TypeOK
    <2> QED BY <2>5, <2>9
  <1>2. CASE ApplyRefresh(t)
    <2> DEFINE k == task[t].key
               e == Refreshed(cache[k], task[t].reply)
    <2>1. task[t] \in ApplyTask
      BY <1>2, <1>0, TaskTypes DEF ApplyRefresh
    <2>2. k \in Keys /\ task[t].reply \in Replies
      BY <2>1 DEF ApplyTask
    <2>3. /\ Present' \subseteq Keys
          /\ \A j \in Present' : cache'[j] \in Entry
          /\ k \in Present' => ~cache'[k].refreshing
          /\ \A j \in Present' \ {k} : j \in Present /\ cache'[j] = cache[j]
      <3>1. CASE k \in Present
        <4>1. cache[k] \in Entry
          BY <3>1 DEF TypeOK
        <4>2. e \in Entry /\ ~e.refreshing
          BY <4>1, <2>2, EntryTypes DEF Refreshed, Entry
        <4>3. PICK dropped : cache' = Put(k, e, dropped)
          BY <1>2, <3>1 DEF ApplyRefresh, Applied
        <4> HIDE DEF e, k
        <4> QED BY <2>2, <4>2, <4>3, PutType DEF Present
      <3>2. CASE k \notin Present
        BY <1>2, <3>2 DEF ApplyRefresh, Applied, Present, TypeOK
      <3> QED BY <3>1, <3>2
    <2>4. TypeOK'
      BY <1>2, <2>3, ApplyNotes DEF ApplyRefresh, TypeOK
    <2>5. \A r \in Refreshers : r # t => task'[r] = task[r]
      BY <1>2, ApplyNotes
    <2>6. ASSUME NEW j \in Present', cache'[j].refreshing PROVE Refreshing(j)' # {}
      <3>1. j # k /\ j \in Present /\ cache[j].refreshing
        BY <2>3, <2>6
      <3>2. PICK r \in Refreshers : task[r] # Idle /\ task[r].key = j
        BY <3>1 DEF RefreshFlagOwned, Refreshing
      <3>3. r # t
        BY <3>1, <3>2
      <3> QED BY <2>5, <3>2, <3>3 DEF Refreshing
    <2>7. RefreshFlagOwned'
      BY <2>6 DEF RefreshFlagOwned
    <2> QED BY <2>4, <2>7
  <1> QED BY <1>1, <1>2 DEF RefreshStep

LEMMA MarkDueInv ==
    ASSUME Inv, MarkDue
    PROVE  Inv'
  <1> USE DEF Inv
  <1> DEFINE due == {k \in Keys : Due(k)}
  <1>1. PICK spawn \in [due -> IdleRefreshers] :
          /\ \A j, k \in due : spawn[j] = spawn[k] => j = k
          /\ cache' = [k \in Present |->
                         IF k \in due THEN [cache[k] EXCEPT !.refreshing = TRUE]
                                      ELSE cache[k]]
          /\ task' = [t \in Threads |->
                        IF \E k \in due : spawn[k] = t
                        THEN [kind |-> "refresh", pc |-> "fetch",
                              key |-> CHOOSE k \in due : spawn[k] = t]
                        ELSE task[t]]
    BY DEF MarkDue
  <1>2. due \in SUBSET Keys
    OBVIOUS
  <1>3. /\ task' \in [Threads -> Tasks]
        /\ \A k \in due : Refreshing(k)' # {}
        /\ \A k \in Keys : Refreshing(k) # {} => Refreshing(k)' # {}
    <2> HIDE DEF due
    <2> QED BY <1>1, <1>2, SpawnFacts
  <1>4. /\ Present' = Present
        /\ \A k \in Present : /\ cache'[k] \in Entry
                              /\ k \notin due => cache'[k] = cache[k]
    <2>1. ASSUME NEW k \in Present PROVE [cache[k] EXCEPT !.refreshing = TRUE] \in Entry
      <3>1. cache[k] \in Entry
        BY DEF TypeOK
      <3> QED BY <3>1 DEF Entry
    <2> QED BY <1>1, <2>1 DEF Present, TypeOK
  <1>5. TypeOK'
    BY <1>3, <1>4 DEF MarkDue, TypeOK
  <1>6. RefreshFlagOwned'
    <2> HIDE DEF due
    <2> QED BY <1>3, <1>4 DEF RefreshFlagOwned, TypeOK
  <1> QED BY <1>5, <1>6

(* An entry grows older and keeps its type and its flag. *)
LEMMA AgedType ==
    ASSUME NEW k \in Keys, NEW e \in Entry
    PROVE  /\ Aged(k, e) \in Entry
           /\ Aged(k, e).refreshing = e.refreshing
           /\ Aged(k, e).updated = Older(e.updated, Ttl[k.archive])
           /\ Aged(k, e).tried = Older(e.tried, Ttl[k.archive])
  <1>1. Ttl[k.archive] \in Nat /\ Window[k.archive] \in Nat
    BY KeyFields, TimesAssumption
  <1>2. /\ Older(e.created, Ttl[k.archive]) \in Nat
        /\ Older(e.updated, Ttl[k.archive]) \in Nat
        /\ Older(e.tried, Ttl[k.archive]) \in Nat
        /\ Older(e.access, Window[k.archive]) \in Nat
        /\ Older(e.force, ForceMinimum) \in 0..ForceMinimum
    <2>1. /\ e.created \in Nat /\ e.updated \in Nat /\ e.tried \in Nat
          /\ e.access \in Nat
          /\ e.force \in Nat /\ e.force \in 0..ForceMinimum
      BY TimesAssumption DEF Entry
    <2> QED BY <1>1, <2>1, OlderType, TimesAssumption
  <1> QED BY <1>2 DEF Aged, Entry

(* What a tick does to the entries and to the handlers that wait. *)
LEMMA TickFacts ==
    ASSUME TypeOK, Tick
    PROVE  /\ Present' = Present
           /\ \A k \in Present : cache'[k] = Aged(k, cache[k])
           /\ task' \in [Threads -> Tasks]
           /\ \A r \in Refreshers : task'[r] = task[r]
           /\ Stamped' = Stamped
           /\ \A u \in Stamped : /\ task'[u].key = task[u].key
                                /\ task'[u].entry = Aged(task[u].key, task[u].entry)
                                /\ task'[u].newer = task[u].newer
  <1>1. Present' = Present /\ \A k \in Present : cache'[k] = Aged(k, cache[k])
    BY DEF Tick, Present
  <1>2. ASSUME NEW u \in Stamped
        PROVE  /\ u \in Threads
               /\ task'[u] \in InsertTask
               /\ task'[u].key = task[u].key
               /\ task'[u].entry = Aged(task[u].key, task[u].entry)
               /\ task'[u].newer = task[u].newer
    <2>1. u \in Threads /\ task[u] \in InsertTask
      BY TaskTypes DEF Stamped, Threads
    <2>2. task'[u] = [task[u] EXCEPT !.entry = Aged(task[u].key, task[u].entry)]
      BY <2>1 DEF Tick
    <2>3. PICK aged : aged = Aged(task[u].key, task[u].entry)
      OBVIOUS
    <2>4. aged \in Entry /\ ~aged.refreshing
      BY <2>1, <2>3, AgedType DEF InsertTask
    <2>5. task'[u] = [task[u] EXCEPT !.entry = aged]
      BY <2>2, <2>3
    <2> QED BY <2>1, <2>3, <2>4, <2>5 DEF InsertTask
  <1>3. \A u \in Threads \ Stamped : task'[u] = task[u]
    BY DEF Tick
  <1>4. task' \in [Threads -> Tasks]
    BY <1>2, <1>3 DEF Tick, TypeOK, Tasks
  <1>5. \A r \in Refreshers : task'[r] = task[r]
    BY <1>3, NamesAssumption DEF Stamped, Threads
  <1>6. Stamped' = Stamped
    BY <1>2, <1>3 DEF Stamped, At, InsertTask, Threads
  <1> QED BY <1>1, <1>2, <1>4, <1>5, <1>6

LEMMA TickInv ==
    ASSUME Inv, Tick
    PROVE  Inv'
  <1> USE DEF Inv
  <1>1. ASSUME NEW k \in Present
        PROVE  Aged(k, cache[k]) \in Entry /\ Aged(k, cache[k]).refreshing = cache[k].refreshing
    BY AgedType DEF TypeOK
  <1>2. /\ Present' = Present /\ \A k \in Present : cache'[k] = Aged(k, cache[k])
        /\ task' \in [Threads -> Tasks]
        /\ \A r \in Refreshers : task'[r] = task[r]
    BY TickFacts
  <1>3. disk' \in [Clusters -> 0..(DiskTtl + 1)]
    <2>1. \A c \in Clusters : Older(disk[c], DiskTtl + 1) \in 0..(DiskTtl + 1)
      BY TimesAssumption DEF TypeOK, Older
    <2> QED BY <2>1 DEF Tick
  <1>4. TypeOK'
    BY <1>1, <1>2, <1>3 DEF Tick, TypeOK
  <1>5. RefreshFlagOwned'
    BY <1>1, <1>2, FlagsKept
  <1> QED BY <1>4, <1>5

LEMMA NextInv == Inv /\ [Next]_vars => Inv'
  <1> SUFFICES ASSUME Inv, [Next]_vars PROVE Inv'
    OBVIOUS
  <1>1. CASE Tick
    BY <1>1, TickInv
  <1>2. CASE MarkDue
    BY <1>2, MarkDueInv
  <1>3. CASE \E t \in Handlers : Accept(t) \/ HandlerStep(t)
    BY <1>3, HandlerStepInv
  <1>4. CASE \E t \in Refreshers : RefreshStep(t)
    BY <1>4, RefreshStepInv
  <1>5. CASE UNCHANGED vars
    BY <1>5 DEF vars, Inv, TypeOK, RefreshFlagOwned, Refreshing, Present
  <1> QED BY <1>1, <1>2, <1>3, <1>4, <1>5 DEF Next

(* Every reachable state is typed and no refreshing flag is left behind:   *)
(* the refresh loop can always come back to a key (cache.rs:134).          *)
THEOREM FlagsOwned == Spec => [](TypeOK /\ RefreshFlagOwned)
  <1>1. Inv => TypeOK /\ RefreshFlagOwned
    BY DEF Inv
  <1> QED BY <1>1, InitInv, NextInv, PTL DEF Spec

-----------------------------------------------------------------------------
(* The order of the snapshots.  A single cluster's snapshot gets younger   *)
(* when a reply is put in the map, and that removes the combined ones of   *)
(* its mode that are not known to be newer than the reply's instant; those *)
(* that stay were stored or tried since.  The last is what has to be known *)
(* of every handler that waits for the mutex to make the order inductive.  *)
StampsKept ==
    \A t \in Stamped : \A j \in Present :
        j \in CombinedOf(task[t].key) /\ j \in task[t].newer
            => cache[j].tried <= task[t].entry.updated

Order == CombinedTriedSince /\ StampsKept

(* A step that writes no new reply keeps the order. *)
LEMMA OrderKept ==
    ASSUME Order,
           \A k \in Present' : /\ k \in Present
                               /\ cache'[k].updated = cache[k].updated
                               /\ cache'[k].tried = cache[k].tried,
           \A u \in Stamped' :
              \/ task'[u].newer = {}
              \/ /\ u \in Stamped
                 /\ task'[u].key = task[u].key /\ task'[u].entry = task[u].entry
                 /\ task'[u].newer = task[u].newer
    PROVE  Order'
  <1>1. CombinedTriedSince'
    BY DEF Order, CombinedTriedSince
  <1>2. StampsKept'
    <2> SUFFICES ASSUME NEW u \in Stamped', NEW j \in Present',
                        j \in CombinedOf(task'[u].key), j \in task'[u].newer
                 PROVE  cache'[j].tried <= task'[u].entry.updated
      BY DEF StampsKept, CombinedOf
    <2> QED BY DEF Order, StampsKept
  <1> QED BY <1>1, <1>2 DEF Order

(* The waiting handlers are as they were. *)
LEMMA StampedSame ==
    ASSUME NEW t, \A u \in Handlers : u # t => task'[u] = task[u],
           t \in Handlers => ~At(t, "handler", "insert")'
    PROVE  \A u \in Stamped' : /\ u \in Stamped
                               /\ task'[u] = task[u]
  BY DEF Stamped, At

(* A new entry takes combined entries of its mode with it, all but those   *)
(* tried since its reply was made, and is itself the newest in the map.    *)
LEMMA OrderAfterPut ==
    ASSUME TypeOK, Order, NEW k \in Keys, NEW e \in Entry, NEW dropped, e.tried = 0,
           cache' = Put(k, e, dropped),
           \A j \in Present \ dropped :
              j \in CombinedOf(k) => cache[j].tried <= e.updated,
           \A u \in Stamped' :
              /\ u \in Stamped
              /\ task'[u].key = task[u].key /\ task'[u].entry = task[u].entry
              /\ task'[u].newer \subseteq task[u].newer \cup {k}
    PROVE  Order'
  <1>1. /\ Present' = (Present \ dropped) \cup {k}
        /\ \A j \in Present' : cache'[j] = IF j = k THEN e ELSE cache[j]
    BY DEF Put, Present
  <1>2. \A j \in Present : j \in Keys /\ cache[j].updated \in Nat /\ cache[j].tried \in Nat
    BY DEF TypeOK, Entry
  <1>3. e.updated \in Nat
    BY DEF Entry
  <1>4. ASSUME NEW single \in Present', NEW both \in Present',
               single.cluster \notin Combined, both.cluster \in Combined,
               both.archive = single.archive
        PROVE  cache'[both].tried <= cache'[single].updated
    <2>1. CASE single = k
      <3>1. both # k /\ both \in Present \ dropped
        BY <1>1, <1>4, <2>1
      <3>2. both \in CombinedOf(k)
        BY <1>2, <1>4, <2>1, <3>1 DEF CombinedOf
      <3> QED BY <1>1, <2>1, <3>1, <3>2
    <2>2. CASE both = k
      <3>1. single # k /\ single \in Present
        BY <1>1, <1>4, <2>2
      <3> QED BY <3>1, <1>1, <1>2, <2>2
    <2>3. CASE single # k /\ both # k
      BY <1>1, <1>4, <2>3 DEF Order, CombinedTriedSince
    <2> QED BY <2>1, <2>2, <2>3
  <1>5. ASSUME NEW u \in Stamped', NEW j \in Present',
               j \in CombinedOf(task'[u].key), j \in task'[u].newer
        PROVE  cache'[j].tried <= task'[u].entry.updated
    <2>1. u \in Stamped /\ task[u] \in InsertTask
      BY TaskTypes DEF Stamped, Threads
    <2>2. task[u].entry.updated \in Nat
      BY <2>1 DEF InsertTask, Entry
    <2>3. CASE j = k
      BY <1>1, <2>2, <2>3
    <2>4. CASE j # k
      <3>1. j \in Present /\ j \in task[u].newer /\ j \in CombinedOf(task[u].key)
        BY <1>1, <1>5, <2>4
      <3> QED BY <1>1, <2>1, <2>4, <3>1 DEF Order, StampsKept
    <2> QED BY <2>3, <2>4
  <1> QED BY <1>4, <1>5 DEF Order, CombinedTriedSince, StampsKept, CombinedOf

(* Ageing two entries up to the same cap keeps their order. *)
LEMMA OlderMonotone ==
    ASSUME NEW a \in Nat, NEW b \in Nat, NEW cap \in Nat, a <= b
    PROVE  Older(a, cap) <= Older(b, cap)
  BY DEF Older

LEMMA HandlerStepOrder ==
    ASSUME TypeOK, Order, NEW t \in Handlers, Accept(t) \/ HandlerStep(t)
    PROVE  Order'
  <1>0. t \in Threads
    BY DEF Threads
  <1>1. CASE Accept(t) \/ Purge(t) \/ Remove(t) \/ Fetch(t) \/ WriteFails(t)
    <2>1. PICK v : task' = [task EXCEPT ![t] = v] /\ (v = Idle \/ v.pc # "insert")
      <3>1. CASE Accept(t)
        <4>1. PICK k, forced :
                task' = [task EXCEPT ![t] = [kind |-> "handler", pc |-> "lookup",
                                             key |-> k, forced |-> forced]]
          BY <3>1 DEF Accept
        <4>2. [kind |-> "handler", pc |-> "lookup", key |-> k, forced |-> forced].pc # "insert"
          OBVIOUS
        <4> QED BY <4>1, <4>2
      <3>2. CASE Purge(t)
        <4>1. [task[t] EXCEPT !.pc = "remove"].pc # "insert"
          BY <1>0, <3>2, TaskTypes DEF Purge, HandlerTask
        <4>2. task' = [task EXCEPT ![t] = [task[t] EXCEPT !.pc = "remove"]]
          BY <3>2 DEF Purge
        <4> QED BY <4>1, <4>2
      <3>3. CASE Remove(t)
        <4>1. [task[t] EXCEPT !.pc = "fetch"].pc # "insert"
          BY <1>0, <3>3, TaskTypes DEF Remove, HandlerTask
        <4>2. task' = [task EXCEPT ![t] = [task[t] EXCEPT !.pc = "fetch"]]
          BY <3>3 DEF Remove
        <4> QED BY <4>1, <4>2
      <3>4. CASE Fetch(t)
        <4>1. PICK reply :
                task' = [task EXCEPT ![t] =
                           [kind |-> "handler", pc |-> "write", key |-> task[t].key,
                            forced |-> task[t].forced, reply |-> reply]]
          BY <3>4 DEF Fetch
        <4>2. [kind |-> "handler", pc |-> "write", key |-> task[t].key,
               forced |-> task[t].forced, reply |-> reply].pc # "insert"
          OBVIOUS
        <4> QED BY <4>1, <4>2
      <3>5. CASE WriteFails(t)
        BY <3>5 DEF WriteFails
      <3> QED BY <1>1, <3>1, <3>2, <3>3, <3>4, <3>5
    <2>2. \A u \in Stamped' : u \in Stamped /\ task'[u] = task[u]
      BY <1>0, <2>1, StampedSame DEF TypeOK, At, Idle, Threads
    <2>3. \A k \in Present' : k \in Present /\ cache'[k] = cache[k]
      BY <1>1 DEF Accept, Purge, Remove, Fetch, WriteFails, Present, Restrict
    <2> QED BY <2>2, <2>3, OrderKept
  <1>2. CASE Lookup(t)
    <2> DEFINE k == task[t].key
               v == IF k \in Present /\ Answers(cache[k], task[t].forced) THEN Idle
                    ELSE [task[t] EXCEPT !.pc = IF task[t].forced THEN "purge" ELSE "fetch"]
    <2>1. \A j \in Present : cache[j] \in Entry
      BY DEF TypeOK
    <2>2. task[t] \in HandlerTask
      BY <1>2, <1>0, TaskTypes DEF Lookup
    <2>3. task' = [task EXCEPT ![t] = v]
      BY <1>2 DEF Lookup
    <2>4. v = Idle \/ v.pc # "insert"
      BY <2>2 DEF HandlerTask
    <2>5. \A u \in Stamped' : u \in Stamped /\ task'[u] = task[u]
      <3> HIDE DEF v
      <3> QED BY <1>0, <2>3, <2>4, StampedSame DEF TypeOK, At, Idle, Threads
    <2>6. \A j \in Present' : /\ j \in Present
                              /\ cache'[j].updated = cache[j].updated
                              /\ cache'[j].tried = cache[j].tried
      <3>1. CASE k \in Present
        <4>1. cache' = [cache EXCEPT ![k].access = 0]
          BY <1>2, <3>1 DEF Lookup
        <4>2. /\ Present' = Present
              /\ \A j \in Present : cache'[j] = IF j = k THEN [cache[j] EXCEPT !.access = 0]
                                                         ELSE cache[j]
          BY <4>1 DEF Present
        <4>3. \A j \in Present : /\ [cache[j] EXCEPT !.access = 0].updated = cache[j].updated
                                 /\ [cache[j] EXCEPT !.access = 0].tried = cache[j].tried
          BY <2>1 DEF Entry
        <4> QED BY <4>2, <4>3
      <3>2. CASE k \notin Present
        BY <1>2, <3>2 DEF Lookup, Present
      <3> QED BY <3>1, <3>2
    <2> QED BY <2>5, <2>6, OrderKept
  <1>3. CASE Stamp(t)
    <2>1. task'[t].newer = {}
      BY <1>0, <1>3 DEF Stamp
    <2>2. ASSUME NEW u \in Stamped', u # t
          PROVE  /\ u \in Stamped
                 /\ task'[u].key = task[u].key /\ task'[u].entry = task[u].entry
                 /\ task'[u].newer = task[u].newer
      <3>1. u \in Threads /\ u \in Handlers
        BY DEF Stamped, Threads
      <3>2. u \in Stamped
        BY <1>3, <2>2, <3>1 DEF Stamp, Stamped, At
      <3>3. task[u] \in InsertTask
        BY <3>1, <3>2, TaskTypes DEF Stamped
      <3>4. task'[u] = [task[u] EXCEPT !.after = @ \cup {t}]
        BY <1>3, <2>2, <3>1, <3>2 DEF Stamp
      <3> QED BY <3>2, <3>3, <3>4 DEF InsertTask
    <2>3. \A k \in Present' : k \in Present /\ cache'[k] = cache[k]
      BY <1>3 DEF Stamp, Present
    <2> QED BY <2>1, <2>2, <2>3, OrderKept
  <1>4. CASE Insert(t)
    <2> DEFINE k == task[t].key
               e == [task[t].entry EXCEPT !.tried = 0]
    <2>1. task[t] \in InsertTask /\ t \in Stamped
      BY <1>0, <1>4, TaskTypes DEF Insert, Stamped
    <2>2. k \in Keys /\ e \in Entry /\ e.tried = 0 /\ e.updated = task[t].entry.updated
      BY <2>1 DEF InsertTask, Entry
    <2>3. cache' = Put(k, e, CombinedOf(k) \ task[t].newer)
      BY <1>4 DEF Insert
    <2>4. \A j \in Present \ (CombinedOf(k) \ task[t].newer) :
             j \in CombinedOf(k) => cache[j].tried <= e.updated
      BY <2>1, <2>2 DEF Order, StampsKept
    <2>5. ASSUME NEW u \in Stamped'
          PROVE  /\ u \in Stamped
                 /\ task'[u].key = task[u].key /\ task'[u].entry = task[u].entry
                 /\ task'[u].newer \subseteq task[u].newer \cup {k}
      <3>1. u \in Threads /\ u # t
        BY <1>0, <1>4 DEF Insert, Stamped, At, Idle, Threads
      <3>2. u \in Stamped
        BY <1>4, <3>1 DEF Insert, Stamped, At
      <3> QED BY <1>4, <3>1, <3>2, InsertNotes
    <2> HIDE DEF k, e
    <2> QED BY <2>2, <2>3, <2>4, <2>5, OrderAfterPut
  <1> QED BY <1>1, <1>2, <1>3, <1>4 DEF HandlerStep

LEMMA RefreshStepOrder ==
    ASSUME TypeOK, Order, NEW t \in Refreshers, RefreshStep(t)
    PROVE  Order'
  <1>0. t \in Threads /\ t \notin Handlers
    BY NamesAssumption DEF Threads
  <1>1. CASE RefreshFetch(t)
    <2>1. \A u \in Handlers : task'[u] = task[u]
      BY <1>0, <1>1 DEF RefreshFetch, TypeOK, Threads
    <2>2. \A u \in Stamped' : u \in Stamped /\ task'[u] = task[u]
      BY <1>0, <2>1, StampedSame
    <2> QED BY <1>1, <2>2, OrderKept DEF RefreshFetch, Present
  <1>2. CASE ApplyRefresh(t)
    <2> DEFINE k == task[t].key
               reply == task[t].reply
               e == Refreshed(cache[k], reply)
    <2>1. task[t] \in ApplyTask
      BY <1>0, <1>2, TaskTypes DEF ApplyRefresh
    <2>2. k \in Keys /\ reply \in Replies
      BY <2>1 DEF ApplyTask
    <2>3. ASSUME NEW u \in Stamped'
          PROVE  /\ u \in Stamped
                 /\ task'[u].key = task[u].key /\ task'[u].entry = task[u].entry
                 /\ task'[u].newer \subseteq task[u].newer \cup ({k} \cap Present)
      <3>1. u \in Threads /\ u # t
        BY <1>0 DEF Stamped, Threads
      <3>2. u \in Stamped
        BY <1>2, <3>1 DEF ApplyRefresh, Stamped, At
      <3> QED BY <1>2, <3>1, <3>2, ApplyNotes
    <2>4. CASE k \notin Present
      <3>1. cache' = cache
        BY <1>2, <2>4 DEF ApplyRefresh, Applied
      <3>2. ASSUME NEW u \in Stamped' PROVE u \in Stamped /\ task'[u] = task[u]
        <4>1. u \in Threads /\ u # t
          BY <1>0 DEF Stamped, Threads
        <4> QED BY <1>2, <2>3, <2>4, <4>1 DEF ApplyRefresh
      <3> QED BY <3>1, <3>2, OrderKept DEF Present
    <2>5. CASE k \in Present
      <3>1. cache[k] \in Entry
        BY <2>5 DEF TypeOK
      <3>2. e \in Entry /\ e.tried = 0
        BY <2>2, <3>1, EntryTypes DEF Refreshed, Entry
      <3>3. CASE reply.ok
        <4>1. cache' = Put(k, e, CombinedOf(k))
          BY <1>2, <2>5, <3>3 DEF ApplyRefresh, Applied
        <4> HIDE DEF e, k
        <4> QED BY <2>2, <2>3, <3>2, <4>1, OrderAfterPut
      <3>4. CASE ~reply.ok
        <4>1. e.updated = cache[k].updated
          BY <3>1, <3>4 DEF Refreshed, Entry
        <4>2. cache' = Put(k, e, {})
          BY <1>2, <2>5, <3>4 DEF ApplyRefresh, Applied
        <4>3. \A j \in Present : j \in CombinedOf(k) => cache[j].tried <= e.updated
          BY <2>5, <4>1 DEF Order, CombinedTriedSince, CombinedOf
        <4> HIDE DEF e, k
        <4> QED BY <2>2, <2>3, <3>2, <4>2, <4>3, OrderAfterPut
      <3> QED BY <3>3, <3>4
    <2> QED BY <2>4, <2>5
  <1> QED BY <1>1, <1>2 DEF RefreshStep

LEMMA MarkDueOrder ==
    ASSUME TypeOK, Order, MarkDue
    PROVE  Order'
  <1> DEFINE due == {k \in Keys : Due(k)}
  <1>1. PICK spawn \in [due -> IdleRefreshers] :
          /\ cache' = [k \in Present |->
                         IF k \in due THEN [cache[k] EXCEPT !.refreshing = TRUE]
                                      ELSE cache[k]]
          /\ task' = [t \in Threads |->
                        IF \E k \in due : spawn[k] = t
                        THEN [kind |-> "refresh", pc |-> "fetch",
                              key |-> CHOOSE k \in due : spawn[k] = t]
                        ELSE task[t]]
    BY DEF MarkDue
  <1> HIDE DEF due
  <1>2. \A k \in Present : /\ [cache[k] EXCEPT !.refreshing = TRUE].updated = cache[k].updated
                           /\ [cache[k] EXCEPT !.refreshing = TRUE].tried = cache[k].tried
    BY DEF TypeOK, Entry
  <1>3. \A u \in Handlers : task'[u] = task[u]
    BY <1>1, NamesAssumption DEF IdleRefreshers, Threads
  <1>4. \A u \in Stamped' : u \in Stamped /\ task'[u] = task[u]
    BY <1>3 DEF Stamped, At
  <1> QED BY <1>1, <1>2, <1>4, OrderKept DEF Present

LEMMA TickOrder ==
    ASSUME TypeOK, Order, Tick
    PROVE  Order'
  <1>1. \A k \in Present : /\ k \in Keys /\ cache[k] \in Entry
                           /\ cache[k].updated \in Nat /\ cache[k].tried \in Nat
                           /\ Ttl[k.archive] \in Nat
    BY KeyFields, TimesAssumption DEF TypeOK, Entry
  <1>2. \A k \in Present :
           /\ cache'[k].updated = Older(cache[k].updated, Ttl[k.archive])
           /\ cache'[k].tried = Older(cache[k].tried, Ttl[k.archive])
    BY <1>1, TickFacts, AgedType
  <1>3. ASSUME NEW single \in Present, NEW both \in Present,
               single.cluster \notin Combined, both.cluster \in Combined,
               both.archive = single.archive
        PROVE  cache'[both].tried <= cache'[single].updated
    <2>1. cache[both].tried <= cache[single].updated
      BY <1>3 DEF Order, CombinedTriedSince
    <2> QED BY <1>1, <1>2, <1>3, <2>1, OlderMonotone
  <1>4. ASSUME NEW u \in Stamped, NEW j \in Present,
               j \in CombinedOf(task'[u].key), j \in task'[u].newer
        PROVE  cache'[j].tried <= task'[u].entry.updated
    <2>1. /\ task'[u].key = task[u].key /\ task'[u].newer = task[u].newer
          /\ task'[u].entry = Aged(task[u].key, task[u].entry)
      BY TickFacts
    <2>2. task[u] \in InsertTask
      BY TaskTypes DEF Stamped, Threads
    <2>3. task[u].key \in Keys /\ task[u].entry \in Entry /\ task[u].entry.updated \in Nat
      BY <2>2 DEF InsertTask, Entry
    <2>4. cache[j].tried <= task[u].entry.updated
      BY <1>4, <2>1 DEF Order, StampsKept
    <2>5. j.archive = task[u].key.archive
      BY <1>4, <2>1 DEF CombinedOf
    <2>6. task'[u].entry.updated = Older(task[u].entry.updated, Ttl[j.archive])
      BY <2>1, <2>3, <2>5, AgedType
    <2> QED BY <1>1, <1>2, <2>3, <2>4, <2>6, OlderMonotone
  <1>5. Present' = Present /\ Stamped' = Stamped
    BY TickFacts
  <1> QED BY <1>3, <1>4, <1>5 DEF Order, CombinedTriedSince, StampsKept, CombinedOf

(* Beside a newer snapshot of one of its clusters, a combined snapshot was *)
(* stored, or a refresh of it ended, after that newer reply was stamped:   *)
(* handlers that wait for the mutex with an instant taken before, forced   *)
(* queries, refreshes that fail and clients that hang up in between leave  *)
(* no combined entry behind that nothing has looked at since (cache.rs,    *)
(* invalidate_older_combined; server.rs, Request::Query).                  *)
THEOREM CombinedKeepsUp == Spec => []CombinedTriedSince
  <1>1. Init => Order
    <2> SUFFICES ASSUME Init PROVE Order
      OBVIOUS
    <2>1. Present = {}
      BY DEF Init, Present
    <2>2. Stamped = {}
      BY DEF Init, Stamped, At, Idle, Threads
    <2> QED BY <2>1, <2>2 DEF Order, CombinedTriedSince, StampsKept
  <1>2. TypeOK /\ Order /\ [Next]_vars => Order'
    <2> SUFFICES ASSUME TypeOK, Order, [Next]_vars PROVE Order'
      OBVIOUS
    <2>1. CASE Tick
      BY <2>1, TickOrder
    <2>2. CASE MarkDue
      BY <2>2, MarkDueOrder
    <2>3. CASE \E t \in Handlers : Accept(t) \/ HandlerStep(t)
      BY <2>3, HandlerStepOrder
    <2>4. CASE \E t \in Refreshers : RefreshStep(t)
      BY <2>4, RefreshStepOrder
    <2>5. CASE UNCHANGED vars
      BY <2>5, OrderKept DEF vars, Present, Stamped, At
    <2> QED BY <2>1, <2>2, <2>3, <2>4, <2>5 DEF Next
  <1>3. Spec => []TypeOK
    BY FlagsOwned, PTL
  <1>4. Order => CombinedTriedSince
    BY DEF Order
  <1> QED BY <1>1, <1>2, <1>3, <1>4, PTL DEF Spec

-----------------------------------------------------------------------------
(* Followers and monitors (module Watch).                                  *)

(* What followers and monitors hold; states of jobs as rows show them.     *)
States == {"absent"} \cup Active \cup Ended
Phases == {"closed", "resolve", "wait", "follow", "ending", "prompt", "closing", "watch", "dead"}
PaneStates == [phase: Phases, given: States \cup {"unknown"}, seen: States \cup {"unknown"},
               misses: 0..2, timer: 0..PollInterval, polling: BOOLEAN]

ClusterTypes ==
    /\ queue \in [Jobs -> States]
    /\ cached # None => cached \in [jobs: SUBSET Jobs, age: 0..QueueTtl]
    /\ call # None => call \in [by: SUBSET Jobs, jobs: SUBSET Jobs, held: 0..CallLimit]

PaneTypes == pane \in [Jobs -> PaneStates] /\ stopped \subseteq Jobs

MonitorTypes ==
    /\ step \in [Monitors -> {"off", "start", "check", "poll", "add", "close"}]
    /\ observed \in [Monitors -> [Jobs -> States]]
    /\ tracked \in [Monitors -> SUBSET Jobs]
    /\ missing \in [Monitors -> [Jobs -> {0, 1}]]
    /\ todo \in [Monitors -> [add: SUBSET Jobs, close: SUBSET Jobs]]
    /\ met \in [Monitors -> [Jobs -> SUBSET States]]

(* The earliest moment, in ticks from now, of a follower's second miss in  *)
(* a row.                                                                  *)
SecondMiss(p) ==
    IF p.polling THEN (IF p.misses = 0 THEN p.timer ELSE 0)
    ELSE p.timer + (IF p.misses = 0 THEN PollInterval ELSE 0)

(* Listings that lack a job and can still be read when a follower with     *)
(* pane p may miss it for the second time: there are none.                 *)
OutOfUse(p, j) ==
    /\ cached # None /\ j \notin cached.jobs => QueueTtl < SecondMiss(p) + cached.age
    /\ call # None /\ j \notin call.jobs => CallLimit + QueueTtl < SecondMiss(p) + call.held

(* A follower's job has been known to the scheduler.  A listing without a  *)
(* job that is active, stored or on its way, is too old to be used when    *)
(* the follower may find the job missing for the second time: one listing  *)
(* may well be read twice, but not one from before the job.                *)
Judged(j) ==
    /\ pane[j].phase \in {"wait", "follow"} => queue[j] # "absent"
    /\ pane[j].phase = "follow" => pane[j].misses <= 1
    /\ pane[j].phase = "follow" /\ queue[j] \in Active => OutOfUse(pane[j], j)

FollowInv == (\A j \in Jobs : Judged(j)) /\ StopsOnlyGoneJobs

(* What a monitor remembers has happened: a job it waits for exists, a     *)
(* state it met was reached, and an active job it does not see now it has  *)
(* not met since its cluster last answered.                                *)
Remembers(m) ==
    /\ \A j \in tracked[m] : queue[j] # "absent"
    /\ \A j \in Jobs :
         /\ met[m][j] # {} => queue[j] # "absent"
         /\ "running" \in met[m][j] => queue[j] \in {"running"} \cup Ended
         /\ observed[m][j] = "absent" => met[m][j] = {} \/ queue[j] \in Ended
         /\ observed[m][j] = "pending" => "running" \notin met[m][j]
    /\ step[m] \notin {"add", "close"} => todo[m] = Nothing

MonitorInv == (\A m \in Monitors : Remembers(m)) /\ ClosesOnlyLostJobs

WatchInv == ClusterTypes /\ PaneTypes /\ MonitorTypes /\ FollowInv /\ MonitorInv

(* The panes that processes begin with. *)
LEMMA PlainPanes ==
    /\ NoPane \in PaneStates
    /\ \A phase \in Phases : [NoPane EXCEPT !.phase = phase] \in PaneStates
    /\ \A given \in States \cup {"unknown"} : NewPane(given) \in PaneStates
  <1>0. PollInterval \in Nat
    BY FollowerAssumption
  <1>1. NoPane \in PaneStates
    BY <1>0 DEF NoPane, PaneStates, Phases
  <1>2. ASSUME NEW phase \in Phases
        PROVE  [NoPane EXCEPT !.phase = phase] \in PaneStates
    BY <1>1 DEF PaneStates
  <1>3. ASSUME NEW given \in States \cup {"unknown"} PROVE NewPane(given) \in PaneStates
    BY <1>1 DEF NewPane, PaneStates, Phases
  <1> QED BY <1>1, <1>2, <1>3

LEMMA WatchInitInv == WatchInit => WatchInv
  <1> SUFFICES ASSUME WatchInit PROVE WatchInv
    OBVIOUS
  <1>1. ClusterTypes
    BY DEF WatchInit, ClusterInit, ClusterTypes, States, Active
  <1>2. PaneTypes
    BY PlainPanes DEF WatchInit, FollowerInit, PaneTypes
  <1>3. MonitorTypes
    BY DEF WatchInit, MonitorInit, MonitorTypes, NoRows, Nothing, States
  <1>4. FollowInv
    BY DEF WatchInit, FollowerInit, FollowInv, Judged, NoPane, StopsOnlyGoneJobs
  <1>5. MonitorInv
    BY DEF WatchInit, MonitorInit, MonitorInv, Remembers, Nothing, NoRows, ClosesOnlyLostJobs
  <1> QED BY <1>1, <1>2, <1>3, <1>4, <1>5 DEF WatchInv

(* A frame shows a job as it is or not at all, and one without a warning   *)
(* shows every active job.                                                 *)
LEMMA FrameShows ==
    ASSUME ClusterTypes, NEW frame \in Frames
    PROVE  /\ frame.rows \in [Jobs -> States]
           /\ frame.warned \in BOOLEAN
           /\ \A j \in Jobs : frame.rows[j] \in {queue[j], "absent"}
           /\ ~frame.warned => \A j \in Jobs : queue[j] \in Active => frame.rows[j] = queue[j]
  <1>1. PICK known \in SUBSET Jobs, warned \in BOOLEAN :
           /\ frame = Frame(known, warned)
           /\ ~warned => {j \in Jobs : queue[j] \in Active} \subseteq known
    BY DEF Frames
  <1>2. frame.rows = [j \in Jobs |-> IF j \in known THEN queue[j] ELSE "absent"]
        /\ frame.warned = warned
    BY <1>1 DEF Frame
  <1> QED BY <1>1, <1>2 DEF ClusterTypes, States

LEMMA QueuedShows ==
    ASSUME ClusterTypes
    PROVE  Queued \subseteq Jobs /\ \A j \in Jobs : queue[j] \in Active => j \in Queued
  BY DEF Queued

(* Jobs only move forward. *)
LEMMA QueueForward ==
    ASSUME ClusterTypes, [WatchNext]_watchVars
    PROVE  /\ queue' \in [Jobs -> States]
           /\ \A j \in Jobs :
                /\ queue[j] # "absent" => queue'[j] # "absent"
                /\ queue[j] \in Ended => queue'[j] \in Ended
                /\ queue[j] = "running" => queue'[j] \in {"running"} \cup Ended
                /\ queue'[j] \in Active => queue[j] \in Active \/ queue[j] = "absent"
  <1>1. ASSUME NEW j \in Jobs, Register(j) \/ Start(j) \/ End(j)
        PROVE  \E s \in States \ {"absent"} :
                 /\ queue' = [queue EXCEPT ![j] = s]
                 /\ \/ queue[j] = "absent"
                    \/ queue[j] = "pending"
                    \/ queue[j] = "running" /\ s \in Ended
    <2>1. CASE Register(j)
      <3>1. queue' = [queue EXCEPT ![j] = "pending"] /\ queue[j] = "absent"
        BY <2>1 DEF Register, Becomes
      <3> QED BY <3>1 DEF States, Active
    <2>2. CASE Start(j)
      <3>1. queue' = [queue EXCEPT ![j] = "running"] /\ queue[j] = "pending"
        BY <2>2 DEF Start, Becomes
      <3> QED BY <3>1 DEF States, Active
    <2>3. CASE End(j)
      <3>1. PICK s \in Ended : queue' = [queue EXCEPT ![j] = s]
        BY <2>3 DEF End, Becomes, Ended
      <3>2. s \in States \ {"absent"} /\ queue[j] \in {"pending", "running"}
        BY <2>3 DEF End, States, Ended
      <3> QED BY <3>1, <3>2
    <2> QED BY <1>1, <2>1, <2>2, <2>3
  <1>2. ASSUME NEW j \in Jobs, NEW s \in States \ {"absent"},
               queue' = [queue EXCEPT ![j] = s],
               \/ queue[j] = "absent"
               \/ queue[j] = "pending"
               \/ queue[j] = "running" /\ s \in Ended
        PROVE  /\ queue' \in [Jobs -> States]
               /\ \A k \in Jobs :
                    /\ queue[k] # "absent" => queue'[k] # "absent"
                    /\ queue[k] \in Ended => queue'[k] \in Ended
                    /\ queue[k] = "running" => queue'[k] \in {"running"} \cup Ended
                    /\ queue'[k] \in Active => queue[k] \in Active \/ queue[k] = "absent"
    BY <1>2 DEF ClusterTypes, States, Active, Ended
  <1>3. CASE \E j \in Jobs : Register(j) \/ Start(j) \/ End(j)
    BY <1>1, <1>2, <1>3
  <1>4. CASE queue' = queue
    BY <1>4 DEF ClusterTypes
  <1>5. \/ \E j \in Jobs : Register(j) \/ Start(j) \/ End(j)
        \/ queue' = queue
    <2>1. Outage \/ Recovery \/ OtherAsks \/ OtherEnds \/ Invalidate \/ TimePasses
            \/ UNCHANGED watchVars
          => queue' = queue
      BY DEF Outage, Recovery, OtherAsks, OtherEnds, Invalidate, TimePasses, ListingsAge, watchVars,
             clusterVars
    <2>2. ASSUME NEW j \in Jobs, Open(j) \/ Follow(j) PROVE queue' = queue
      BY <2>2 DEF Open, Follow, Resolve, FileAppears, BeginPoll, FinishPoll, ReadCache, Ask, Store,
                  PollFails, TailDies, Interrupt, Report, Refresh, Enter, PaneGoes, clusterVars
    <2>3. Monitoring => queue' = queue
      BY DEF Monitoring, SwitchOn, SwitchOff, MonitorStep, FirstFrame, Check, PollFrame,
             MonitorDies, AddPanes, ClosePanes, clusterVars
    <2> QED BY <2>1, <2>2, <2>3 DEF WatchNext, Cluster, Panes
  <1> QED BY <1>3, <1>4, <1>5

-----------------------------------------------------------------------------
(* Types. *)
LEMMA SetPane ==
    ASSUME PaneTypes, NEW j \in Jobs, NEW p \in PaneStates, Set(j, p)
    PROVE  pane' \in [Jobs -> PaneStates]
  BY DEF PaneTypes, Set

LEMMA SeenPane ==
    ASSUME NEW p \in PaneStates, NEW state \in States \cup {"unknown"}, NEW phase \in Phases,
           NEW n \in 0..2
    PROVE  /\ [p EXCEPT !.seen = state, !.misses = n] \in PaneStates
           /\ [p EXCEPT !.phase = phase, !.seen = state] \in PaneStates
  <1>1. [p EXCEPT !.seen = state, !.misses = n] \in PaneStates
    BY DEF PaneStates
  <1>2. [p EXCEPT !.phase = phase, !.seen = state] \in PaneStates
    BY DEF PaneStates
  <1> QED BY <1>1, <1>2

LEMMA TimerPanes ==
    ASSUME NEW p \in PaneStates
    PROVE  [p EXCEPT !.timer = IF @ > 0 THEN @ - 1 ELSE 0] \in PaneStates
  BY FollowerAssumption DEF PaneStates

LEMMA PollingPanes ==
    ASSUME NEW p \in PaneStates, NEW phase \in Phases, NEW n \in 0..2,
           NEW ticks \in 0..PollInterval, NEW polling \in BOOLEAN
    PROVE  /\ [p EXCEPT !.phase = phase, !.timer = ticks] \in PaneStates
           /\ [p EXCEPT !.misses = n, !.polling = polling] \in PaneStates
           /\ [p EXCEPT !.polling = polling, !.timer = ticks] \in PaneStates
  <1>1. [p EXCEPT !.phase = phase, !.timer = ticks] \in PaneStates
    BY DEF PaneStates
  <1>2. [p EXCEPT !.misses = n, !.polling = polling] \in PaneStates
    BY DEF PaneStates
  <1>3. [p EXCEPT !.polling = polling, !.timer = ticks] \in PaneStates
    BY DEF PaneStates
  <1> QED BY <1>1, <1>2, <1>3

LEMMA FollowerTypes ==
    ASSUME ClusterTypes, PaneTypes, NEW j \in Jobs, Open(j) \/ Follow(j)
    PROVE  PaneTypes'
  <1>0. pane[j] \in PaneStates
    BY DEF PaneTypes
  <1>1. CASE \E phase \in Phases : Go(j, phase) /\ UNCHANGED stopped
    BY <1>1, PlainPanes, SetPane DEF Go, PaneTypes
  <1>2. CASE Open(j)
    <2>1. PICK given \in Openable(j) : Set(j, NewPane(given))
      BY <1>2 DEF Open
    <2>2. given \in States \cup {"unknown"}
      BY DEF Openable, ClusterTypes, States, Active
    <2> QED BY <1>2, <2>1, <2>2, PlainPanes, SetPane DEF Open, PaneTypes
  <1>6. CASE Supervise(j) /\ UNCHANGED stopped
    <2>1. "follow" \in Phases /\ PollInterval \in 0..PollInterval
      BY FollowerAssumption DEF Phases
    <2>2. [NoPane EXCEPT !.phase = "follow", !.timer = PollInterval] \in PaneStates
      <3>1. NoPane \in PaneStates /\ 0 \in 0..2 /\ FALSE \in BOOLEAN
        BY PlainPanes
      <3> QED BY <2>1, <3>1, PollingPanes
    <2> QED BY <1>6, <2>2, SetPane DEF Supervise, PaneTypes
  <1>3. CASE Resolve(j)
    <2>1. \/ WatchFrom(j)
          \/ Supervise(j)
          \/ \E phase \in Phases : Go(j, phase)
      BY <1>3 DEF Resolve, Phases
    <2>2. CASE WatchFrom(j)
      <3>1. [NoPane EXCEPT !.phase = "watch", !.seen = pane[j].given] \in PaneStates
        <4>1. pane[j].given \in States \cup {"unknown"} /\ "watch" \in Phases
          BY <1>0 DEF PaneStates, Phases
        <4>2. NoPane \in PaneStates /\ 0 \in 0..2
          BY PlainPanes
        <4> QED BY <4>1, <4>2, SeenPane
      <3> QED BY <1>3, <2>2, <3>1, SetPane DEF Resolve, WatchFrom, PaneTypes
    <2> QED BY <1>1, <1>3, <1>6, <2>1, <2>2 DEF Resolve
  <1>4. CASE TailDies(j) \/ Interrupt(j) \/ Report(j) \/ Enter(j)
    <2>1. \E phase \in Phases : Go(j, phase)
      BY <1>4 DEF TailDies, Interrupt, Report, Enter, Phases
    <2> QED BY <1>1, <1>4, <2>1 DEF TailDies, Interrupt, Report, Enter
  <1>5. CASE PaneGoes(j)
    BY <1>5, PlainPanes, SetPane DEF PaneGoes, PaneTypes
  <1>8. CASE FileAppears(j)
    BY <1>6, <1>8 DEF FileAppears
  <1>9. CASE BeginPoll(j) \/ FinishPoll(j)
    <2>1. CASE BeginPoll(j)
      <3>1. [pane[j] EXCEPT !.polling = TRUE, !.timer = PollInterval] \in PaneStates
        <4>1. "follow" \in Phases /\ PollInterval \in 0..PollInterval /\ 0 \in 0..2
          BY FollowerAssumption DEF Phases
        <4>2. TRUE \in BOOLEAN
          OBVIOUS
        <4> QED BY <1>0, <4>1, <4>2, PollingPanes
      <3> QED BY <2>1, <3>1, SetPane DEF BeginPoll, PaneTypes
    <2>2. ASSUME NEW jobs, Judge(j, jobs) PROVE PaneTypes'
      <3>1. Misses(j, jobs) \in Nat
        BY <1>0 DEF Misses, PaneStates
      <3>2. CASE Misses(j, jobs) >= 2
        <4>1. Go(j, "ending") /\ "ending" \in Phases /\ stopped' = stopped \cup {j}
          BY <2>2, <3>2 DEF Judge, Phases
        <4> QED BY <4>1, PlainPanes, SetPane DEF Go, PaneTypes
      <3>3. CASE ~(Misses(j, jobs) >= 2)
        <4>1. PICK n \in 0..2 : Set(j, [pane[j] EXCEPT !.misses = n, !.polling = FALSE])
          <5>1. Misses(j, jobs) \in 0..2
            BY <3>1, <3>3
          <5>2. Set(j, [pane[j] EXCEPT !.misses = Misses(j, jobs), !.polling = FALSE])
            BY <2>2, <3>3 DEF Judge
          <5> QED BY <5>1, <5>2
        <4>2. [pane[j] EXCEPT !.misses = n, !.polling = FALSE] \in PaneStates
          BY <1>0 DEF PaneStates
        <4>3. stopped' = stopped \ {j}
          BY <2>2, <3>3 DEF Judge
        <4> QED BY <4>1, <4>2, <4>3, SetPane DEF PaneTypes
      <3> QED BY <3>2, <3>3
    <2>3. CASE PollFails(j)
      <3>1. [pane[j] EXCEPT !.misses = 0, !.polling = FALSE] \in PaneStates
        <4>1. "follow" \in Phases /\ PollInterval \in 0..PollInterval /\ 0 \in 0..2
          BY FollowerAssumption DEF Phases
        <4>2. FALSE \in BOOLEAN
          OBVIOUS
        <4> QED BY <1>0, <4>1, <4>2, PollingPanes
      <3> QED BY <2>3, <3>1, SetPane DEF PollFails, PaneTypes
    <2>4. CASE Ask(j)
      BY <2>4 DEF Ask, followerVars, PaneTypes
    <2> QED BY <1>9, <2>1, <2>2, <2>3, <2>4 DEF FinishPoll, ReadCache, Store
  <1>7. CASE Refresh(j)
    <2>1. PICK frame \in Frames :
            \/ Snapshot(j, frame.rows).seen \in Active /\ Set(j, NewPane(Snapshot(j, frame.rows).seen))
            \/ Go(j, "prompt")
            \/ Set(j, Snapshot(j, frame.rows))
      BY <1>7 DEF Refresh, Attaches
    <2>2. frame.rows[j] \in States
      BY FrameShows
    <2>3. Snapshot(j, frame.rows) \in PaneStates
      <3>1. [pane[j] EXCEPT !.seen = frame.rows[j], !.misses = 0] \in PaneStates
        <4>1. 0 \in 0..2
          OBVIOUS
        <4>2. "follow" \in Phases /\ frame.rows[j] \in States \cup {"unknown"}
          BY <2>2 DEF Phases
        <4> QED BY <1>0, <4>1, <4>2, SeenPane
      <3>2. ASSUME NEW n \in 0..2 PROVE [pane[j] EXCEPT !.misses = n] \in PaneStates
        BY <1>0 DEF PaneStates
      <3>3. (IF pane[j].misses < 2 THEN pane[j].misses + 1 ELSE pane[j].misses) \in 0..2
        BY <1>0 DEF PaneStates
      <3> QED BY <3>1, <3>2, <3>3 DEF Snapshot
    <2>4. CASE Go(j, "prompt")
      BY <1>1, <1>7, <2>4 DEF Refresh, Phases
    <2>5. CASE Set(j, Snapshot(j, frame.rows))
      BY <1>7, <2>3, <2>5, SetPane DEF Refresh, PaneTypes
    <2>6. CASE Snapshot(j, frame.rows).seen \in Active /\ Set(j, NewPane(Snapshot(j, frame.rows).seen))
      BY <1>7, <2>6, PlainPanes, SetPane DEF Refresh, PaneTypes, States
    <2> QED BY <2>1, <2>4, <2>5, <2>6
  <1> QED BY <1>2, <1>3, <1>4, <1>5, <1>7, <1>8, <1>9 DEF Follow

(* What becomes of the stored listing and of the call in a step that takes *)
(* no time.                                                                *)
LEMMA ListingSteps ==
    ASSUME [WatchNext]_watchVars, ~TimePasses
    PROVE  /\ \/ cached' \in {cached, None}
              \/ call # None /\ cached' = [jobs |-> call.jobs, age |-> 0]
           /\ \/ call' \in {call, None}
              \/ \E by \in SUBSET Jobs : call' = [by |-> by, jobs |-> Queued, held |-> 0]
  <1>1. \A j \in Jobs : Register(j) \/ Start(j) \/ End(j) => UNCHANGED <<cached, call>>
    BY DEF Register, Start, End, Becomes
  <1>2. Outage \/ Recovery \/ UNCHANGED watchVars => UNCHANGED <<cached, call>>
    BY DEF Outage, Recovery, watchVars, clusterVars
  <1>3. ASSUME NEW by \in SUBSET Jobs, Asks(by) \/ Stores(by) \/ QueueFails(by)
        PROVE  /\ \/ cached' \in {cached, None}
                  \/ call # None /\ cached' = [jobs |-> call.jobs, age |-> 0]
               /\ \/ call' \in {call, None}
                  \/ call' = [by |-> by, jobs |-> Queued, held |-> 0]
    BY <1>3 DEF Asks, Stores, QueueFails, Calling
  <1>4. CASE OtherAsks \/ OtherEnds \/ Invalidate
    <2>1. {} \in SUBSET Jobs
      OBVIOUS
    <2> QED BY <1>3, <1>4, <2>1 DEF OtherAsks, OtherEnds, Invalidate
  <1>5. ASSUME NEW j \in Jobs, Open(j) \/ Follow(j)
        PROVE  /\ \/ cached' \in {cached, None}
                  \/ call # None /\ cached' = [jobs |-> call.jobs, age |-> 0]
               /\ \/ call' \in {call, None}
                  \/ \E by \in SUBSET Jobs : call' = [by |-> by, jobs |-> Queued, held |-> 0]
    <2>1. CASE Ask(j) \/ Store(j) \/ PollFails(j)
      <3>1. {j} \in SUBSET Jobs
        OBVIOUS
      <3> QED BY <1>3, <2>1, <3>1 DEF Ask, Store, PollFails
    <2>2. CASE PaneGoes(j)
      BY <2>2 DEF PaneGoes, HangUp
    <2>3. CASE ReadCache(j)
      BY <2>3 DEF ReadCache, clusterVars
    <2> QED BY <1>5, <2>1, <2>2, <2>3 DEF Open, Follow, Resolve, FileAppears, BeginPoll, FinishPoll,
                TailDies, Interrupt, Report, Refresh, Enter, clusterVars
  <1>6. CASE Monitoring
    <2>1. ASSUME NEW m \in Monitors, ClosePanes(m)
          PROVE  cached' = cached /\ call' \in {call, None}
      BY <2>1 DEF ClosePanes, HangUp
    <2>2. ASSUME NEW m \in Monitors, SwitchOn(m) \/ FirstFrame(m) \/ Check(m) \/ PollFrame(m)
                                    \/ MonitorDies(m) \/ AddPanes(m)
          PROVE  UNCHANGED <<cached, call>>
      BY <2>2 DEF SwitchOn, FirstFrame, Check, PollFrame, MonitorDies, AddPanes, clusterVars
    <2>3. SwitchOff => UNCHANGED <<cached, call>>
      BY DEF SwitchOff, clusterVars
    <2> QED BY <1>6, <2>1, <2>2, <2>3 DEF Monitoring, MonitorStep
  <1> QED BY <1>1, <1>2, <1>4, <1>5, <1>6 DEF WatchNext, Cluster, Panes

LEMMA ClusterTypesNext ==
    ASSUME ClusterTypes, [WatchNext]_watchVars
    PROVE  ClusterTypes'
  <1>0. QueueTtl \in Nat /\ CallLimit \in Nat
    BY ClusterAssumption
  <1>1. queue' \in [Jobs -> States]
    BY QueueForward
  <1>2. CASE ~TimePasses
    <2>1. cached' # None => cached' \in [jobs: SUBSET Jobs, age: 0..QueueTtl]
      <3>1. call # None => [jobs |-> call.jobs, age |-> 0] \in [jobs: SUBSET Jobs, age: 0..QueueTtl]
        BY <1>0 DEF ClusterTypes
      <3> QED BY <1>2, <3>1, ListingSteps DEF ClusterTypes
    <2>2. call' # None => call' \in [by: SUBSET Jobs, jobs: SUBSET Jobs, held: 0..CallLimit]
      <3>1. ASSUME NEW by \in SUBSET Jobs
            PROVE  [by |-> by, jobs |-> Queued, held |-> 0]
                     \in [by: SUBSET Jobs, jobs: SUBSET Jobs, held: 0..CallLimit]
        BY <1>0, QueuedShows
      <3> QED BY <1>2, <3>1, ListingSteps DEF ClusterTypes
    <2> QED BY <1>1, <2>1, <2>2 DEF ClusterTypes
  <1>3. CASE TimePasses
    <2>1. cached' # None => cached' \in [jobs: SUBSET Jobs, age: 0..QueueTtl]
      <3>1. ASSUME cached # None, cached.age # QueueTtl
            PROVE  [cached EXCEPT !.age = @ + 1] \in [jobs: SUBSET Jobs, age: 0..QueueTtl]
        BY <1>0, <3>1 DEF ClusterTypes
      <3> QED BY <1>3, <3>1 DEF TimePasses, ListingsAge
    <2>2. call' # None => call' \in [by: SUBSET Jobs, jobs: SUBSET Jobs, held: 0..CallLimit]
      <3>1. ASSUME call # None, call.held < CallLimit
            PROVE  [call EXCEPT !.held = @ + 1]
                     \in [by: SUBSET Jobs, jobs: SUBSET Jobs, held: 0..CallLimit]
        BY <1>0, <3>1 DEF ClusterTypes
      <3> QED BY <1>3, <3>1 DEF TimePasses, ListingsAge
    <2> QED BY <1>1, <2>1, <2>2 DEF ClusterTypes
  <1> QED BY <1>2, <1>3

(* The monitor a step belongs to: the others keep what they have.          *)
MonitorTurn(m) == SwitchOn(m) \/ MonitorStep(m)

LEMMA MonitorTurnTypes ==
    ASSUME ClusterTypes, PaneTypes, MonitorTypes, NEW m \in Monitors, MonitorTurn(m)
    PROVE  PaneTypes' /\ MonitorTypes'
  <1>1. CASE SwitchOn(m)
    BY <1>1 DEF SwitchOn, Goes, PaneTypes, MonitorTypes, followerVars
  <1>2. CASE FirstFrame(m)
    <2>1. PICK frame \in Frames :
            /\ observed' = [observed EXCEPT ![m] = frame.rows]
            /\ tracked' = [tracked EXCEPT ![m] = {j \in Jobs : frame.rows[j] = "pending"}]
            /\ Meet(m, frame)
      BY <1>2 DEF FirstFrame
    <2>2. frame.rows \in [Jobs -> States]
      BY FrameShows
    <2>3. met' \in [Monitors -> [Jobs -> SUBSET States]]
      BY <2>1, <2>2 DEF Meet, MonitorTypes
    <2> QED BY <1>2, <2>1, <2>2, <2>3 DEF FirstFrame, Goes, PaneTypes, MonitorTypes, followerVars
  <1>3. CASE Forgets(m) /\ UNCHANGED <<pane, stopped>>
    BY <1>3 DEF Forgets, Goes, NoRows, Nothing, States, PaneTypes, MonitorTypes
  <1>4. CASE Check(m)
    <2>1. CASE Forgets(m)
      BY <1>3, <1>4, <2>1 DEF Check, followerVars
    <2>2. CASE ~Forgets(m)
      BY <1>4, <2>2 DEF Check, Goes, PaneTypes, MonitorTypes, followerVars
    <2> QED BY <2>1, <2>2
  <1>5. CASE MonitorDies(m)
    BY <1>3, <1>5 DEF MonitorDies, followerVars
  <1>6. CASE PollFrame(m)
    <2>1. PICK frame \in Frames : Update(m, frame) /\ Meet(m, frame)
      BY <1>6 DEF PollFrame
    <2>2. frame.rows \in [Jobs -> States]
      BY FrameShows
    <2>3. met' \in [Monitors -> [Jobs -> SUBSET States]]
      BY <2>1, <2>2 DEF Meet, MonitorTypes
    <2>4. todo' \in [Monitors -> [add: SUBSET Jobs, close: SUBSET Jobs]]
      <3>1. PICK add \in SUBSET Jobs, close \in SUBSET Jobs :
               todo' = [todo EXCEPT ![m] = [add |-> add, close |-> close]]
        <4>1. tracked[m] \subseteq Jobs
          BY DEF MonitorTypes
        <4> QED BY <2>1, <4>1 DEF Update, Additions, FailedBeforeStart, Lost
      <3> QED BY <3>1 DEF MonitorTypes
    <2>5. tracked' \in [Monitors -> SUBSET Jobs]
      <3>1. PICK rest \in SUBSET Jobs : tracked' = [tracked EXCEPT ![m] = rest]
        <4>1. tracked[m] \subseteq Jobs
          BY DEF MonitorTypes
        <4> QED BY <2>1, <4>1 DEF Update
      <3> QED BY <3>1 DEF MonitorTypes
    <2>6. missing' \in [Monitors -> [Jobs -> {0, 1}]]
      <3>1. \A j \in Jobs : missing[m][j] \in {0, 1}
        BY DEF MonitorTypes
      <3> DEFINE failed == FailedBeforeStart(observed[m], frame.rows)
                 pending == ((tracked[m] \ failed) \cup {j \in Jobs : frame.rows[j] = "pending"})
                            \ {j \in Jobs : frame.rows[j] = "running"}
                 lost == Lost(pending, frame)
                 vanished == {j \in lost : missing[m][j] = 1}
                 counts == [j \in Jobs |-> IF j \in lost \ vanished THEN 1
                              ELSE IF j \in vanished \/ frame.rows[j] # "absent" THEN 0
                              ELSE missing[m][j]]
      <3>2. missing' = [missing EXCEPT ![m] = counts]
        BY <2>1 DEF Update
      <3> HIDE DEF lost, vanished
      <3>3. counts \in [Jobs -> {0, 1}]
        BY <3>1
      <3> HIDE DEF counts
      <3> QED BY <3>2, <3>3 DEF MonitorTypes
    <2>7. observed' \in [Monitors -> [Jobs -> States]]
      BY <2>1, <2>2 DEF Update, MonitorTypes
    <2>8. step' \in [Monitors -> {"off", "start", "check", "poll", "add", "close"}]
      BY <1>6 DEF PollFrame, Goes, MonitorTypes
    <2> QED BY <1>6, <2>3, <2>4, <2>5, <2>6, <2>7, <2>8
            DEF PollFrame, PaneTypes, MonitorTypes, followerVars
  <1>7. CASE AddPanes(m)
    <2>1. \A j \in Jobs : NewPane(observed[m][j]) \in PaneStates
      BY PlainPanes DEF MonitorTypes
    <2> QED BY <1>7, <2>1 DEF AddPanes, Goes, PaneTypes, MonitorTypes
  <1>8. CASE ClosePanes(m)
    BY <1>8, PlainPanes DEF ClosePanes, Goes, Nothing, PaneTypes, MonitorTypes
  <1> QED BY <1>1, <1>2, <1>4, <1>5, <1>6, <1>7, <1>8 DEF MonitorTurn, MonitorStep

LEMMA TypesNext ==
    ASSUME ClusterTypes, PaneTypes, MonitorTypes, [WatchNext]_watchVars
    PROVE  ClusterTypes' /\ PaneTypes' /\ MonitorTypes'
  <1>1. ClusterTypes'
    BY ClusterTypesNext
  <1>2. CASE Cluster \/ UNCHANGED watchVars
    BY <1>1, <1>2 DEF Cluster, watchVars, followerVars, monitorVars, PaneTypes, MonitorTypes
  <1>3. CASE Panes
    BY <1>1, <1>3, FollowerTypes DEF Panes, monitorVars, MonitorTypes
  <1>4. CASE SwitchOff
    BY <1>1, <1>4 DEF SwitchOff, followerVars, PaneTypes, MonitorTypes
  <1>5. CASE \E m \in Monitors : MonitorTurn(m)
    BY <1>1, <1>5, MonitorTurnTypes
  <1>6. CASE TimePasses
    <2>1. \A j \in Jobs : pane'[j] \in PaneStates
      BY <1>6, TimerPanes DEF TimePasses, TimersRun, PaneTypes
    <2>2. pane' \in [Jobs -> PaneStates]
      BY <1>6, <2>1 DEF TimePasses, TimersRun
    <2> QED BY <1>1, <1>6, <2>2 DEF TimePasses, TimersRun, PaneTypes, monitorVars, MonitorTypes
  <1> QED BY <1>2, <1>3, <1>4, <1>5, <1>6 DEF WatchNext, Monitoring, MonitorTurn

-----------------------------------------------------------------------------
(* Followers. *)

(* A follower that begins, or that has just seen its job, is two polls     *)
(* away from a second miss, and no listing stays in use for so long.       *)
LEMMA FarAway ==
    ASSUME ClusterTypes, NEW j \in Jobs, NEW p \in PaneStates,
           2 * PollInterval <= SecondMiss(p)
    PROVE  OutOfUse(p, j)
  <1> DEFINE away == SecondMiss(p)
  <1>0. QueueTtl + CallLimit < 2 * PollInterval /\ 2 * PollInterval <= away
    BY FollowerAssumption
  <1>1. QueueTtl \in Nat /\ CallLimit \in Nat /\ PollInterval \in Nat
    BY ClusterAssumption, FollowerAssumption
  <1>2. away \in Nat
    BY <1>1 DEF SecondMiss, PaneStates
  <1> HIDE DEF away
  <1>3. cached # None => QueueTtl < away + cached.age
    BY <1>0, <1>1, <1>2 DEF ClusterTypes
  <1>4. call # None => CallLimit + QueueTtl < away + call.held
    BY <1>0, <1>1, <1>2 DEF ClusterTypes
  <1> QED BY <1>3, <1>4 DEF OutOfUse, away

LEMMA MissType ==
    ASSUME NEW p \in PaneStates
    PROVE  SecondMiss(p) \in Nat
  BY FollowerAssumption DEF SecondMiss, PaneStates

(* The later the second miss, the better. *)
LEMMA LaterMiss ==
    ASSUME ClusterTypes, NEW j \in Jobs, NEW p \in PaneStates, NEW q \in PaneStates,
           OutOfUse(p, j), SecondMiss(p) <= SecondMiss(q)
    PROVE  OutOfUse(q, j)
  <1> DEFINE before == SecondMiss(p)
             after == SecondMiss(q)
  <1>1. before \in Nat /\ after \in Nat /\ before <= after
    BY MissType
  <1>2. QueueTtl \in Nat /\ CallLimit \in Nat
    BY ClusterAssumption
  <1>3. /\ cached # None /\ j \notin cached.jobs => QueueTtl < before + cached.age
        /\ call # None /\ j \notin call.jobs => CallLimit + QueueTtl < before + call.held
    BY DEF OutOfUse
  <1> HIDE DEF before, after
  <1>4. /\ cached # None /\ j \notin cached.jobs => QueueTtl < after + cached.age
        /\ call # None /\ j \notin call.jobs => CallLimit + QueueTtl < after + call.held
    BY <1>1, <1>2, <1>3 DEF ClusterTypes
  <1> QED BY <1>4 DEF OutOfUse, after

(* A step that takes no time brings in no such listing: squeue names every *)
(* active job, and a call that ends has lasted no longer than it may.      *)
LEMMA StaysOutOfUse ==
    ASSUME ClusterTypes, [WatchNext]_watchVars, ~TimePasses, NEW j \in Jobs,
           NEW p \in PaneStates, queue[j] \in Active, OutOfUse(p, j)
    PROVE  OutOfUse(p, j)'
  <1> DEFINE away == SecondMiss(p)
  <1>1. away \in Nat
    BY MissType
  <1>2. QueueTtl \in Nat /\ CallLimit \in Nat
    BY ClusterAssumption
  <1>3. /\ cached # None /\ j \notin cached.jobs => QueueTtl < away + cached.age
        /\ call # None /\ j \notin call.jobs => CallLimit + QueueTtl < away + call.held
    BY DEF OutOfUse
  <1> HIDE DEF away
  <1>4. cached' # None /\ j \notin cached'.jobs => QueueTtl < away + cached'.age
    <2>1. ASSUME call # None, cached' = [jobs |-> call.jobs, age |-> 0], j \notin cached'.jobs
          PROVE  QueueTtl < away + cached'.age
      <3>1. j \notin call.jobs /\ call.held \in 0..CallLimit /\ cached'.age = 0
        BY <2>1 DEF ClusterTypes
      <3> QED BY <1>1, <1>2, <1>3, <2>1, <3>1
    <2> QED BY <1>3, <2>1, ListingSteps
  <1>5. call' # None /\ j \notin call'.jobs => CallLimit + QueueTtl < away + call'.held
    <2>1. ASSUME NEW by, call' = [by |-> by, jobs |-> Queued, held |-> 0] PROVE j \in call'.jobs
      BY <2>1, QueuedShows
    <2> QED BY <1>3, <2>1, ListingSteps
  <1> QED BY <1>4, <1>5 DEF OutOfUse, away, SecondMiss

(* What has to be known of the panes for the conclusions to stay right.    *)
LEMMA KeepFollow ==
    ASSUME ClusterTypes, PaneTypes, PaneTypes', FollowInv, [WatchNext]_watchVars, ~TimePasses,
           StopsOnlyGoneJobs',
           \A k \in Jobs :
             \/ pane'[k] = pane[k]
             \/ pane'[k].phase \notin {"wait", "follow"}
             \/ pane'[k].phase = "wait" /\ queue[k] # "absent"
             \/ /\ pane'[k].phase = "follow" /\ pane'[k].misses <= 1 /\ queue[k] # "absent"
                /\ 2 * PollInterval <= SecondMiss(pane'[k])
             \/ /\ pane[k].phase = "follow" /\ pane'[k].misses <= 1
                /\ SecondMiss(pane[k]) <= SecondMiss(pane'[k])
    PROVE  FollowInv'
  <1>0. ClusterTypes'
    BY ClusterTypesNext
  <1>1. ASSUME NEW k \in Jobs PROVE Judged(k)'
    <2>1. PICK p \in PaneStates : p = pane[k]
      BY DEF PaneTypes
    <2>2. PICK q \in PaneStates : q = pane'[k]
      BY DEF PaneTypes
    <2>3. /\ p.phase \in {"wait", "follow"} => queue[k] # "absent"
          /\ p.phase = "follow" => p.misses <= 1
          /\ p.phase = "follow" /\ queue[k] \in Active => OutOfUse(p, k)
      BY <2>1 DEF FollowInv, Judged
    <2>4. /\ queue[k] # "absent" => queue'[k] # "absent"
          /\ queue'[k] \in Active => queue[k] \in Active \/ queue[k] = "absent"
      BY QueueForward
    <2>5. \/ q = p
          \/ q.phase \notin {"wait", "follow"}
          \/ q.phase = "wait" /\ queue[k] # "absent"
          \/ /\ q.phase = "follow" /\ q.misses <= 1 /\ queue[k] # "absent"
             /\ 2 * PollInterval <= SecondMiss(q)
          \/ p.phase = "follow" /\ q.misses <= 1 /\ SecondMiss(p) <= SecondMiss(q)
      BY <2>1, <2>2 DEF SecondMiss
    <2>6. /\ q.phase \in {"wait", "follow"} => queue'[k] # "absent"
          /\ q.phase = "follow" => q.misses <= 1
      BY <2>3, <2>4, <2>5
    <2>7. q.phase = "follow" /\ queue'[k] \in Active => OutOfUse(q, k)'
      <3> SUFFICES ASSUME q.phase = "follow", queue'[k] \in Active PROVE OutOfUse(q, k)'
        OBVIOUS
      <3>1. queue[k] \in Active
        BY <2>3, <2>4, <2>5
      <3>2. OutOfUse(q, k)
        <4>1. CASE 2 * PollInterval <= SecondMiss(q)
          BY <4>1, FarAway
        <4>2. CASE q = p \/ (p.phase = "follow" /\ SecondMiss(p) <= SecondMiss(q))
          <5>1. OutOfUse(p, k)
            BY <2>3, <3>1, <4>2
          <5> QED BY <4>2, <5>1, LaterMiss
        <4> QED BY <2>5, <4>1, <4>2
      <3> QED BY <3>1, <3>2, StaysOutOfUse
    <2>8. OutOfUse(q, k)' => OutOfUse(pane[k], k)'
      BY <2>2 DEF OutOfUse, SecondMiss
    <2> QED BY <2>2, <2>6, <2>7, <2>8 DEF Judged
  <1> QED BY <1>1 DEF FollowInv

(* What the pane of one job may become for KeepFollow. *)
Allowed(k) ==
    \/ pane'[k].phase \notin {"wait", "follow"}
    \/ pane'[k].phase = "wait" /\ queue[k] # "absent"
    \/ /\ pane'[k].phase = "follow" /\ pane'[k].misses <= 1 /\ queue[k] # "absent"
       /\ 2 * PollInterval <= SecondMiss(pane'[k])
    \/ /\ pane[k].phase = "follow" /\ pane'[k].misses <= 1
       /\ SecondMiss(pane[k]) <= SecondMiss(pane'[k])

(* A listing is judged: the second miss in a row comes when no listing     *)
(* without the job can be read while the job is active.                    *)
LEMMA JudgeFollow ==
    ASSUME ClusterTypes, PaneTypes, FollowInv, NEW j \in Jobs, NEW jobs, Judge(j, jobs), Polling(j),
           j \in jobs \/ queue[j] \notin Active \/ pane[j].misses = 0
    PROVE  /\ pane'[j] = pane[j] \/ Allowed(j)
           /\ \A k \in Jobs : k # j => pane'[k] = pane[k]
           /\ \A k \in stopped' : queue[k] \in Ended
  <1>1. PICK p \in PaneStates : p = pane[j]
    BY DEF PaneTypes
  <1>2. p.phase = "follow" /\ p.polling /\ p.misses \in {0, 1} /\ queue[j] # "absent"
    <2>1. p.phase = "follow" /\ p.polling
      BY <1>1 DEF Polling, In
    <2>2. p.misses <= 1 /\ queue[j] # "absent"
      BY <1>1, <2>1 DEF FollowInv, Judged
    <2> QED BY <2>1, <2>2 DEF PaneStates
  <1>3. PICK n \in 0..2 : n = Misses(j, jobs) /\ n = IF j \in jobs THEN 0 ELSE p.misses + 1
    BY <1>1, <1>2 DEF Misses
  <1>4. CASE n = 2
    <2>1. pane' = [pane EXCEPT ![j] = [NoPane EXCEPT !.phase = "ending"]]
          /\ stopped' = stopped \cup {j}
      BY <1>3, <1>4 DEF Judge, Go, Set
    <2>2. pane'[j].phase = "ending" /\ \A k \in Jobs : k # j => pane'[k] = pane[k]
      BY <2>1 DEF NoPane, PaneTypes
    <2>3. queue[j] \in Ended
      <3>1. queue[j] \notin Active
        BY <1>1, <1>3, <1>4
      <3> QED BY <1>2, <3>1 DEF ClusterTypes, States
    <2> QED BY <2>1, <2>2, <2>3 DEF Allowed, FollowInv, StopsOnlyGoneJobs
  <1>5. CASE n < 2
    <2>1. pane' = [pane EXCEPT ![j] = [p EXCEPT !.misses = n, !.polling = FALSE]]
          /\ stopped' = stopped \ {j}
      <3>1. ~(Misses(j, jobs) >= 2)
        BY <1>3, <1>5
      <3> QED BY <1>1, <1>3, <3>1 DEF Judge, Set
    <2>2. pane'[j] = [p EXCEPT !.misses = n, !.polling = FALSE]
          /\ \A k \in Jobs : k # j => pane'[k] = pane[k]
      BY <2>1 DEF PaneTypes
    <2>3. PICK q : q = pane'[j]
      OBVIOUS
    <2>4. q.misses = n /\ q.polling = FALSE /\ q.timer = p.timer
      BY <2>2, <2>3 DEF PaneStates
    <2>5. SecondMiss(p) <= SecondMiss(q)
      BY <1>2, <1>3, <1>5, <2>4, FollowerAssumption DEF SecondMiss, PaneStates
    <2>6. Allowed(j)
      <3>1. pane[j].phase = "follow" /\ pane'[j].misses <= 1
        BY <1>1, <1>2, <1>5, <2>3, <2>4
      <3>2. SecondMiss(pane[j]) <= SecondMiss(pane'[j])
        BY <1>1, <2>3, <2>5
      <3> QED BY <3>1, <3>2 DEF Allowed
    <2> QED BY <2>1, <2>2, <2>6 DEF FollowInv, StopsOnlyGoneJobs
  <1> QED BY <1>4, <1>5

LEMMA PollFollow ==
    ASSUME ClusterTypes, PaneTypes, FollowInv, NEW j \in Jobs, BeginPoll(j) \/ FinishPoll(j)
    PROVE  /\ pane'[j] = pane[j] \/ Allowed(j)
           /\ \A k \in Jobs : k # j => pane'[k] = pane[k]
           /\ \A k \in stopped' : queue[k] \in Ended
  <1>1. PICK p \in PaneStates : p = pane[j]
    BY DEF PaneTypes
  <1>2. p.phase = "follow" /\ p.misses \in {0, 1}
    <2>1. p.phase = "follow"
      BY <1>1 DEF BeginPoll, FinishPoll, ReadCache, Ask, Store, PollFails, Polling, In
    <2> QED BY <1>1, <2>1 DEF FollowInv, Judged, PaneStates
  <1>3. \A k \in stopped : queue[k] \in Ended
    BY DEF FollowInv, StopsOnlyGoneJobs
  <1>4. QueueTtl \in Nat /\ CallLimit \in Nat /\ PollInterval \in Nat
    BY ClusterAssumption, FollowerAssumption
  (* A second miss comes at once when a poll is under way after the first. *)
  <1>5. ASSUME queue[j] \in Active, p.misses # 0, p.polling
        PROVE  (cached # None => j \in cached.jobs) /\ (call # None => j \in call.jobs)
    <2>1. SecondMiss(p) = 0
      BY <1>5 DEF SecondMiss
    <2>2. OutOfUse(p, j)
      BY <1>1, <1>2, <1>5 DEF FollowInv, Judged
    <2>3. /\ cached # None /\ j \notin cached.jobs => QueueTtl < cached.age
          /\ call # None /\ j \notin call.jobs => CallLimit + QueueTtl < call.held
      BY <2>1, <2>2, <1>4 DEF OutOfUse, ClusterTypes
    <2> QED BY <1>4, <2>3 DEF ClusterTypes
  <1>6. CASE ReadCache(j)
    <2>1. cached # None /\ Judge(j, cached.jobs) /\ Polling(j) /\ p.polling
      BY <1>1, <1>6 DEF ReadCache, Polling
    <2>2. j \in cached.jobs \/ queue[j] \notin Active \/ pane[j].misses = 0
      BY <1>1, <1>5, <2>1
    <2> QED BY <2>1, <2>2, JudgeFollow
  <1>7. CASE Store(j)
    <2>1. call # None /\ Judge(j, call.jobs) /\ Polling(j) /\ p.polling
      BY <1>1, <1>7 DEF Store, Stores, Calling, Polling
    <2>2. j \in call.jobs \/ queue[j] \notin Active \/ pane[j].misses = 0
      BY <1>1, <1>5, <2>1
    <2> QED BY <2>1, <2>2, JudgeFollow
  <1>8. CASE Ask(j)
    BY <1>3, <1>8 DEF Ask, followerVars
  <1>9. ASSUME NEW q, pane' = [pane EXCEPT ![j] = q], q.phase = "follow", q.misses \in {0, 1},
               SecondMiss(p) <= SecondMiss(q)
        PROVE  Allowed(j) /\ \A k \in Jobs : k # j => pane'[k] = pane[k]
    <2>1. pane'[j] = q /\ \A k \in Jobs : k # j => pane'[k] = pane[k]
      BY <1>9 DEF PaneTypes
    <2>2. SecondMiss(pane[j]) <= SecondMiss(pane'[j])
      BY <1>1, <1>9, <2>1
    <2> QED BY <1>1, <1>2, <1>9, <2>1, <2>2 DEF Allowed
  <1>10. CASE PollFails(j)
    <2>1. PICK q : q = [p EXCEPT !.misses = 0, !.polling = FALSE]
      OBVIOUS
    <2>2. q.misses = 0 /\ q.polling = FALSE /\ q.timer = p.timer /\ q.phase = p.phase
      BY <2>1 DEF PaneStates
    <2>3. SecondMiss(p) <= SecondMiss(q)
      BY <1>4, <2>2 DEF SecondMiss, PaneStates
    <2>4. pane' = [pane EXCEPT ![j] = q] /\ stopped' = stopped
      BY <1>1, <1>10, <2>1 DEF PollFails, Set
    <2> QED BY <1>2, <1>3, <1>9, <2>2, <2>3, <2>4
  <1>11. CASE BeginPoll(j)
    <2>1. PICK q : q = [p EXCEPT !.polling = TRUE, !.timer = PollInterval]
      OBVIOUS
    <2>2. q.misses = p.misses /\ q.polling = TRUE /\ q.timer = PollInterval /\ q.phase = p.phase
      BY <2>1 DEF PaneStates
    <2>3. p.timer = 0 /\ ~p.polling
      BY <1>1, <1>11 DEF BeginPoll
    <2>4. SecondMiss(p) <= SecondMiss(q)
      BY <1>2, <1>4, <2>2, <2>3 DEF SecondMiss
    <2>5. pane' = [pane EXCEPT ![j] = q] /\ stopped' = stopped
      BY <1>1, <1>11, <2>1 DEF BeginPoll, Set
    <2> QED BY <1>2, <1>3, <1>9, <2>2, <2>4, <2>5
  <1> QED BY <1>6, <1>7, <1>8, <1>10, <1>11 DEF FinishPoll

LEMMA FollowerStepFollow ==
    ASSUME ClusterTypes, PaneTypes, FollowInv, NEW j \in Jobs, Open(j) \/ Follow(j)
    PROVE  /\ \A k \in Jobs : pane'[k] = pane[k] \/ Allowed(k)
           /\ \A k \in stopped' : queue[k] \in Ended
  <1>0. Judged(j) /\ \A k \in stopped : queue[k] \in Ended
    BY DEF FollowInv, StopsOnlyGoneJobs
  <1>1. ASSUME NEW p, Set(j, p), p.phase \notin {"wait", "follow"}
        PROVE  \A k \in Jobs : pane'[k] = pane[k] \/ Allowed(k)
    BY <1>1 DEF Set, PaneTypes, Allowed
  <1>2. ASSUME NEW phase, Go(j, phase),
               phase \notin {"wait", "follow"} \/ (phase = "wait" /\ queue[j] # "absent")
        PROVE  \A k \in Jobs : pane'[k] = pane[k] \/ Allowed(k)
    <2>1. pane'[j].phase = phase /\ \A k \in Jobs : k # j => pane'[k] = pane[k]
      BY <1>2 DEF Go, Set, NoPane, PaneTypes
    <2> QED BY <1>2, <2>1 DEF Allowed
  <1>3. ASSUME Supervise(j), queue[j] # "absent"
        PROVE  \A k \in Jobs : pane'[k] = pane[k] \/ Allowed(k)
    <2>1. PICK q : q = [NoPane EXCEPT !.phase = "follow", !.timer = PollInterval]
      OBVIOUS
    <2>2. q.phase = "follow" /\ q.misses = 0 /\ q.polling = FALSE /\ q.timer = PollInterval
      BY <2>1 DEF NoPane
    <2>3. pane'[j] = q /\ \A k \in Jobs : k # j => pane'[k] = pane[k]
      BY <1>3, <2>1 DEF Supervise, Set, PaneTypes
    <2>4. 2 * PollInterval <= SecondMiss(q)
      BY <2>2, FollowerAssumption DEF SecondMiss
    <2>5. 2 * PollInterval <= SecondMiss(pane'[j])
      BY <2>3, <2>4
    <2>6. pane'[j].phase = "follow" /\ pane'[j].misses <= 1
      BY <2>2, <2>3
    <2>7. Allowed(j)
      BY <1>3, <2>5, <2>6 DEF Allowed
    <2> QED BY <2>3, <2>7
  <1>4. CASE Open(j)
    <2>1. PICK given : Set(j, NewPane(given))
      BY <1>4 DEF Open
    <2>2. NewPane(given).phase = "resolve"
      BY DEF NewPane, NoPane
    <2> QED BY <1>0, <1>1, <1>4, <2>1, <2>2 DEF Open
  <1>5. CASE Resolve(j)
    <2>1. CASE WatchFrom(j)
      BY <1>0, <1>1, <1>5, <2>1 DEF Resolve, WatchFrom, NoPane
    <2>2. CASE Go(j, "dead")
      BY <1>0, <1>2, <1>5, <2>2 DEF Resolve
    <2>3. CASE "path" \in Paths(j) /\ (Go(j, "wait") \/ Supervise(j))
      <3>1. queue[j] # "absent"
        BY <2>3 DEF Paths
      <3> QED BY <1>0, <1>2, <1>3, <1>5, <2>3, <3>1 DEF Resolve
    <2> QED BY <1>5, <2>1, <2>2, <2>3 DEF Resolve
  <1>6. CASE FileAppears(j)
    <2>1. pane[j].phase = "wait" /\ Supervise(j) /\ stopped' = stopped
      BY <1>6 DEF FileAppears, In
    <2>2. queue[j] # "absent"
      BY <1>0, <2>1 DEF Judged
    <2> QED BY <1>0, <1>3, <2>1, <2>2
  <1>7. CASE TailDies(j) \/ Interrupt(j) \/ Report(j) \/ Enter(j)
    BY <1>0, <1>2, <1>7 DEF TailDies, Interrupt, Report, Enter
  <1>8. CASE PaneGoes(j)
    BY <1>0, <1>1, <1>8 DEF PaneGoes, NoPane
  <1>9. CASE Refresh(j)
    <2>0. stopped' = stopped
      BY <1>9 DEF Refresh
    <2>1. PICK rows :
            \/ Set(j, NewPane(Snapshot(j, rows).seen))
            \/ Go(j, "prompt")
            \/ Set(j, Snapshot(j, rows))
      BY <1>9 DEF Refresh
    <2>2. CASE Set(j, NewPane(Snapshot(j, rows).seen))
      <3>1. NewPane(Snapshot(j, rows).seen).phase = "resolve"
        BY DEF NewPane, NoPane
      <3> QED BY <1>0, <1>1, <2>0, <2>2, <3>1
    <2>3. CASE Go(j, "prompt")
      BY <1>0, <1>2, <2>0, <2>3
    <2>4. CASE Set(j, Snapshot(j, rows))
      <3>1. pane[j].phase = "watch" /\ pane[j] \in PaneStates
        BY <1>9 DEF Refresh, In, PaneTypes
      <3>2. Snapshot(j, rows).phase = "watch"
        BY <3>1 DEF Snapshot, PaneStates
      <3> QED BY <1>0, <1>1, <2>0, <2>4, <3>2
    <2> QED BY <2>1, <2>2, <2>3, <2>4
  <1>10. CASE BeginPoll(j) \/ FinishPoll(j)
    BY <1>10, PollFollow
  <1> QED BY <1>4, <1>5, <1>6, <1>7, <1>8, <1>9, <1>10 DEF Follow

(* A tick takes the second miss as much closer as it ages the listings.    *)
LEMMA TickFollow ==
    ASSUME ClusterTypes, PaneTypes, FollowInv, TimePasses
    PROVE  FollowInv'
  <1>0. UNCHANGED <<queue, stopped>>
    BY DEF TimePasses, ListingsAge, TimersRun
  <1>1. ASSUME NEW j \in Jobs PROVE Judged(j)'
    <2>1. PICK p \in PaneStates : p = pane[j]
      BY DEF PaneTypes
    <2>2. PICK q : q = [p EXCEPT !.timer = IF @ > 0 THEN @ - 1 ELSE 0] /\ q = pane'[j]
      BY <2>1 DEF TimePasses, TimersRun
    <2>3. /\ q.phase = p.phase /\ q.misses = p.misses /\ q.polling = p.polling
          /\ q.timer = IF p.timer > 0 THEN p.timer - 1 ELSE 0
      BY <2>2 DEF PaneStates
    <2>4. /\ p.phase \in {"wait", "follow"} => queue[j] # "absent"
          /\ p.phase = "follow" => p.misses <= 1
          /\ p.phase = "follow" /\ queue[j] \in Active => OutOfUse(p, j)
      BY <2>1 DEF FollowInv, Judged
    <2>5. ASSUME OutOfUse(p, j) PROVE OutOfUse(q, j)'
      <3> DEFINE before == SecondMiss(p)
                 after == SecondMiss(q)
      <3>1. before \in Nat /\ after \in Nat /\ before <= after + 1
        BY <2>3, FollowerAssumption DEF SecondMiss, PaneStates
      <3>2. QueueTtl \in Nat /\ CallLimit \in Nat
        BY ClusterAssumption
      <3>3. /\ cached # None /\ j \notin cached.jobs => QueueTtl < before + cached.age
            /\ call # None /\ j \notin call.jobs => CallLimit + QueueTtl < before + call.held
        BY <2>5 DEF OutOfUse
      <3> HIDE DEF before, after
      <3>4. cached' # None /\ j \notin cached'.jobs => QueueTtl < after + cached'.age
        <4> SUFFICES ASSUME cached' # None, j \notin cached'.jobs
                     PROVE  QueueTtl < after + cached'.age
          OBVIOUS
        <4>1. cached # None /\ cached' = [cached EXCEPT !.age = @ + 1]
          BY DEF TimePasses, ListingsAge
        <4>2. cached.age \in Nat /\ cached'.age = cached.age + 1 /\ cached'.jobs = cached.jobs
          BY <4>1 DEF ClusterTypes
        <4> QED BY <3>1, <3>2, <3>3, <4>1, <4>2
      <3>5. call' # None /\ j \notin call'.jobs => CallLimit + QueueTtl < after + call'.held
        <4> SUFFICES ASSUME call' # None, j \notin call'.jobs
                     PROVE  CallLimit + QueueTtl < after + call'.held
          OBVIOUS
        <4>1. call # None /\ call' = [call EXCEPT !.held = @ + 1]
          BY DEF TimePasses, ListingsAge
        <4>2. call.held \in Nat /\ call'.held = call.held + 1 /\ call'.jobs = call.jobs
          BY <4>1 DEF ClusterTypes
        <4> QED BY <3>1, <3>2, <3>3, <4>1, <4>2
      <3> QED BY <3>4, <3>5 DEF OutOfUse, after, SecondMiss
    <2>6. OutOfUse(q, j)' => OutOfUse(pane[j], j)'
      BY <2>2 DEF OutOfUse, SecondMiss
    <2>7. /\ q.phase \in {"wait", "follow"} => queue'[j] # "absent"
          /\ q.phase = "follow" => q.misses <= 1
          /\ q.phase = "follow" /\ queue'[j] \in Active => OutOfUse(pane[j], j)'
      BY <1>0, <2>3, <2>4, <2>5, <2>6
    <2> QED BY <2>2, <2>7 DEF Judged
  <1> QED BY <1>0, <1>1 DEF FollowInv, StopsOnlyGoneJobs

LEMMA FollowNext ==
    ASSUME ClusterTypes, PaneTypes, MonitorTypes, FollowInv, [WatchNext]_watchVars
    PROVE  FollowInv'
  <1>1. CASE TimePasses
    BY <1>1, TickFollow
  <1>2. CASE ~TimePasses
    <2>0. PaneTypes'
      BY TypesNext
    <2>1. ASSUME NEW s \in SUBSET Jobs, s = stopped', \A k \in s : queue[k] \in Ended
          PROVE  StopsOnlyGoneJobs'
      BY <2>1, QueueForward DEF StopsOnlyGoneJobs
    <2>2. (\A k \in stopped' : queue[k] \in Ended) => StopsOnlyGoneJobs'
      BY <2>0, <2>1 DEF PaneTypes
    <2>3. (\A k \in Jobs : pane'[k] = pane[k] \/ Allowed(k))
            /\ (\A k \in stopped' : queue[k] \in Ended)
          => FollowInv'
      BY <1>2, <2>0, <2>2, KeepFollow DEF Allowed
    <2>4. CASE Panes
      BY <2>3, <2>4, FollowerStepFollow DEF Panes
    <2>5. CASE Cluster \/ Monitoring \/ UNCHANGED watchVars
      <3>1. stopped' = stopped
        BY <2>5 DEF Cluster, Monitoring, SwitchOn, SwitchOff, MonitorStep, FirstFrame, Check,
                    PollFrame, MonitorDies, AddPanes, ClosePanes, watchVars, followerVars
      <3>2. \A k \in Jobs : pane'[k] = pane[k] \/ pane'[k].phase \in {"closed", "resolve"}
        <4>1. ASSUME NEW m \in Monitors, AddPanes(m) \/ ClosePanes(m)
              PROVE  \A k \in Jobs : pane'[k] = pane[k] \/ pane'[k].phase \in {"closed", "resolve"}
          <5>1. NoPane.phase = "closed" /\ \A given : NewPane(given).phase = "resolve"
            BY DEF NewPane, NoPane
          <5>2. CASE AddPanes(m)
            BY <5>1, <5>2 DEF AddPanes
          <5>3. CASE ClosePanes(m)
            BY <5>1, <5>3 DEF ClosePanes
          <5> QED BY <4>1, <5>2, <5>3
        <4>2. ASSUME NEW m \in Monitors,
                     SwitchOn(m) \/ FirstFrame(m) \/ Check(m) \/ PollFrame(m) \/ MonitorDies(m)
              PROVE  pane' = pane
          BY <4>2 DEF SwitchOn, FirstFrame, Check, PollFrame, MonitorDies, followerVars
        <4>3. Cluster \/ SwitchOff \/ UNCHANGED watchVars => pane' = pane
          BY DEF Cluster, SwitchOff, watchVars, followerVars
        <4> QED BY <2>5, <4>1, <4>2, <4>3 DEF Monitoring, MonitorStep
      <3>3. \A k \in Jobs : pane'[k] = pane[k] \/ Allowed(k)
        BY <3>2 DEF Allowed
      <3> QED BY <2>3, <3>1, <3>3 DEF FollowInv, StopsOnlyGoneJobs
    <2> QED BY <1>2, <2>4, <2>5 DEF WatchNext
  <1> QED BY <1>1, <1>2

-----------------------------------------------------------------------------
(* Monitors. *)

(* What a monitor remembers stays true as jobs move on. *)
LEMMA StillRemembers ==
    ASSUME ClusterTypes, MonitorTypes, [WatchNext]_watchVars, NEW m \in Monitors, Remembers(m),
           UNCHANGED <<tracked[m], met[m], observed[m], todo[m]>>,
           step'[m] \notin {"add", "close"} => step[m] \notin {"add", "close"} \/ todo[m] = Nothing
    PROVE  Remembers(m)'
  <1>1. \A j \in Jobs :
          /\ queue[j] # "absent" => queue'[j] # "absent"
          /\ queue[j] \in Ended => queue'[j] \in Ended
          /\ queue[j] = "running" => queue'[j] \in {"running"} \cup Ended
    BY QueueForward
  <1>2. tracked[m] \subseteq Jobs
    BY DEF MonitorTypes
  <1> QED BY <1>1, <1>2 DEF Remembers

LEMMA StillClosed ==
    ASSUME ClusterTypes, MonitorTypes, [WatchNext]_watchVars, ClosesOnlyLostJobs,
           NEW m \in Monitors, todo'[m].close \subseteq todo[m].close
    PROVE  \A j \in todo'[m].close : queue'[j] \in Ended
  <1>1. \A j \in Jobs : queue[j] \in Ended => queue'[j] \in Ended
    BY QueueForward
  <1>2. todo[m].close \subseteq Jobs
    BY DEF MonitorTypes
  <1> QED BY <1>1, <1>2 DEF ClosesOnlyLostJobs

(* What one frame tells a monitor. *)
LEMMA PollRemembers ==
    ASSUME ClusterTypes, MonitorTypes, NEW m \in Monitors, Remembers(m),
           PollFrame(m)
    PROVE  /\ Remembers(m)'
           /\ \A j \in todo'[m].close : queue'[j] \in Ended
           /\ \A j \in todo'[m].add : observed'[m][j] \notin met[m][j]
  <1>1. PICK frame \in Frames : Update(m, frame) /\ Meet(m, frame)
    BY DEF PollFrame
  <1> DEFINE rows == frame.rows
             failed == FailedBeforeStart(observed[m], rows)
             pending == ((tracked[m] \ failed) \cup {j \in Jobs : rows[j] = "pending"})
                        \ {j \in Jobs : rows[j] = "running"}
             lost == Lost(pending, frame)
             vanished == {j \in lost : missing[m][j] = 1}
  <1>2. /\ rows \in [Jobs -> States]
        /\ \A j \in Jobs : rows[j] \in {queue[j], "absent"}
        /\ ~frame.warned => \A j \in Jobs : queue[j] \in Active => rows[j] = queue[j]
        /\ \A j \in Jobs : queue[j] \in States
    BY FrameShows DEF ClusterTypes
  <1>3. /\ todo'[m] = [add |-> Additions(observed[m], rows), close |-> failed \cup vanished]
        /\ tracked'[m] = pending \ vanished
        /\ observed'[m] = rows
        /\ met'[m] = [j \in Jobs |-> IF frame.warned THEN {}
                                     ELSE met[m][j] \cup ({rows[j]} \cap Active)]
    BY <1>1 DEF Update, Meet, MonitorTypes
  <1>4. queue' = queue /\ step'[m] = "add"
    BY DEF PollFrame, clusterVars, Goes, MonitorTypes
  <1>5. tracked[m] \subseteq Jobs /\ \A j \in tracked[m] : queue[j] # "absent"
    BY DEF MonitorTypes, Remembers
  <1>6. pending \subseteq Jobs /\ \A j \in pending : queue[j] # "absent"
    BY <1>2, <1>5
  <1>7. failed \subseteq Jobs /\ \A j \in failed : queue[j] \in Ended
    BY <1>2 DEF FailedBeforeStart, Ended
  <1>8. \A j \in vanished : queue[j] \in Ended
    <2> SUFFICES ASSUME NEW j \in lost PROVE queue[j] \in Ended
      OBVIOUS
    <2>1. j \in pending /\ rows[j] = "absent" /\ ~frame.warned
      BY DEF Lost
    <2>2. queue[j] \in States /\ queue[j] # "absent" /\ queue[j] \notin Active
      BY <1>2, <1>6, <2>1 DEF Active
    <2> QED BY <2>2 DEF States
  <1>9. \A j \in todo'[m].close : queue'[j] \in Ended
    BY <1>3, <1>4, <1>7, <1>8
  <1>10. ASSUME NEW j \in Jobs
         PROVE  /\ met'[m][j] # {} => queue[j] # "absent"
                /\ "running" \in met'[m][j] => queue[j] \in {"running"} \cup Ended
                /\ observed'[m][j] = "absent" => met'[m][j] = {} \/ queue[j] \in Ended
                /\ observed'[m][j] = "pending" => "running" \notin met'[m][j]
    <2>1. /\ met[m][j] # {} => queue[j] # "absent"
          /\ "running" \in met[m][j] => queue[j] \in {"running"} \cup Ended
      BY DEF Remembers
    <2>2. rows[j] \in {queue[j], "absent"} /\ queue[j] \in States
      BY <1>2
    <2>3. ~frame.warned => (queue[j] \in Active => rows[j] = queue[j])
      BY <1>2
    <2>4. /\ observed'[m][j] = rows[j]
          /\ met'[m][j] = IF frame.warned THEN {} ELSE met[m][j] \cup ({rows[j]} \cap Active)
      BY <1>3
    <2> HIDE DEF rows
    <2> QED BY <2>1, <2>2, <2>3, <2>4 DEF States, Active, Ended
  <1>11. Remembers(m)'
    <2>1. \A j \in tracked'[m] : queue'[j] # "absent"
      BY <1>3, <1>4, <1>6
    <2> HIDE DEF rows, failed, pending, lost, vanished
    <2> QED BY <1>4, <1>10, <2>1 DEF Remembers
  <1>12. ASSUME NEW j \in todo'[m].add PROVE observed'[m][j] \notin met[m][j]
    <2>1. /\ j \in Jobs /\ rows[j] \in Active
          /\ \/ observed[m][j] = "absent"
             \/ observed[m][j] = "pending" /\ rows[j] = "running"
      BY <1>3, <1>12 DEF Additions
    <2>2. rows[j] = queue[j]
      BY <1>2, <2>1 DEF Active
    <2>3. /\ observed[m][j] = "absent" => met[m][j] = {} \/ queue[j] \in Ended
          /\ observed[m][j] = "pending" => "running" \notin met[m][j]
      BY <2>1 DEF Remembers
    <2> HIDE DEF rows
    <2> QED BY <1>3, <2>1, <2>2, <2>3 DEF Active, Ended
  <1> QED BY <1>9, <1>11, <1>12

LEMMA FirstRemembers ==
    ASSUME ClusterTypes, MonitorTypes, NEW m \in Monitors, Remembers(m), FirstFrame(m)
    PROVE  Remembers(m)' /\ todo' = todo
  <1>1. PICK frame \in Frames :
          /\ observed' = [observed EXCEPT ![m] = frame.rows]
          /\ tracked' = [tracked EXCEPT ![m] = {j \in Jobs : frame.rows[j] = "pending"}]
          /\ Meet(m, frame)
    BY DEF FirstFrame
  <1>2. /\ \A j \in Jobs : frame.rows[j] \in {queue[j], "absent"} /\ queue[j] \in States
        /\ ~frame.warned => \A j \in Jobs : queue[j] \in Active => frame.rows[j] = queue[j]
    BY FrameShows DEF ClusterTypes
  <1>3. /\ tracked'[m] = {j \in Jobs : frame.rows[j] = "pending"}
        /\ observed'[m] = frame.rows
        /\ met'[m] = [j \in Jobs |-> IF frame.warned THEN {}
                                     ELSE met[m][j] \cup ({frame.rows[j]} \cap Active)]
    BY <1>1 DEF Meet, MonitorTypes
  <1>4. queue' = queue /\ todo' = todo /\ todo[m] = Nothing
    BY DEF FirstFrame, clusterVars, Remembers
  <1>5. ASSUME NEW j \in Jobs
        PROVE  /\ met'[m][j] # {} => queue[j] # "absent"
               /\ "running" \in met'[m][j] => queue[j] \in {"running"} \cup Ended
               /\ observed'[m][j] = "absent" => met'[m][j] = {} \/ queue[j] \in Ended
               /\ observed'[m][j] = "pending" => "running" \notin met'[m][j]
    <2>1. /\ met[m][j] # {} => queue[j] # "absent"
          /\ "running" \in met[m][j] => queue[j] \in {"running"} \cup Ended
      BY DEF Remembers
    <2> DEFINE row == frame.rows[j]
    <2>2. row \in {queue[j], "absent"} /\ queue[j] \in States
      BY <1>2
    <2>3. ~frame.warned => (queue[j] \in Active => row = queue[j])
      BY <1>2
    <2>4. /\ observed'[m][j] = row
          /\ met'[m][j] = IF frame.warned THEN {} ELSE met[m][j] \cup ({row} \cap Active)
      BY <1>3
    <2> HIDE DEF row
    <2> QED BY <2>1, <2>2, <2>3, <2>4 DEF States, Active, Ended
  <1>6. \A j \in tracked'[m] : queue[j] # "absent"
    BY <1>2, <1>3
  <1> QED BY <1>4, <1>5, <1>6 DEF Remembers

(* A step of one monitor leaves the memory of the others alone. *)
LEMMA OthersKeep ==
    ASSUME MonitorTypes, NEW m \in Monitors, MonitorTurn(m), NEW k \in Monitors, k # m
    PROVE  UNCHANGED <<tracked[k], met[k], observed[k], todo[k], step[k]>>
  BY DEF MonitorTurn, SwitchOn, MonitorStep, FirstFrame, Check, PollFrame, MonitorDies, AddPanes,
         ClosePanes, Goes, Forgets, Meet, Update, MonitorTypes

LEMMA TurnRemembers ==
    ASSUME ClusterTypes, MonitorTypes, MonitorInv, NEW m \in Monitors, MonitorTurn(m)
    PROVE  Remembers(m)' /\ \A j \in todo'[m].close : queue'[j] \in Ended
  <1>0. /\ Remembers(m) /\ queue' = queue
        /\ \A j \in todo[m].close : queue[j] \in Ended
    BY DEF MonitorInv, ClosesOnlyLostJobs, MonitorTurn, SwitchOn, MonitorStep, FirstFrame, Check,
           PollFrame, MonitorDies, AddPanes, ClosePanes, clusterVars
  <1>1. CASE PollFrame(m)
    BY <1>0, <1>1, PollRemembers
  <1>2. CASE FirstFrame(m)
    BY <1>0, <1>2, FirstRemembers
  <1>3. CASE Forgets(m)
    BY <1>3 DEF Forgets, Goes, Nothing, NoRows, Remembers, MonitorTypes
  <1>4. CASE ClosePanes(m)
    <2>1. /\ todo'[m] = Nothing
          /\ UNCHANGED <<tracked, met, observed>>
      BY <1>4 DEF ClosePanes, MonitorTypes
    <2> QED BY <1>0, <2>1 DEF Remembers, Nothing
  <1>5. CASE SwitchOn(m) \/ AddPanes(m) \/ (Check(m) /\ ~Forgets(m))
    <2>1. UNCHANGED <<tracked, met, observed, todo>>
      BY <1>5 DEF SwitchOn, AddPanes, Check
    <2>2. step'[m] \notin {"add", "close"} => step[m] \notin {"add", "close"}
      BY <1>5 DEF SwitchOn, AddPanes, Check, Goes, MonitorTypes
    <2> QED BY <1>0, <2>1, <2>2 DEF Remembers
  <1> QED BY <1>1, <1>2, <1>3, <1>4, <1>5 DEF MonitorTurn, MonitorStep, MonitorDies

LEMMA MonitorNext ==
    ASSUME ClusterTypes, MonitorTypes, MonitorInv, [WatchNext]_watchVars
    PROVE  MonitorInv'
  <1>1. CASE \E m \in Monitors : MonitorTurn(m)
    <2>1. PICK m \in Monitors : MonitorTurn(m)
      BY <1>1
    <2>2. ASSUME NEW k \in Monitors
          PROVE  Remembers(k)' /\ \A j \in todo'[k].close : queue'[j] \in Ended
      <3>1. CASE k = m
        BY <2>1, <3>1, TurnRemembers
      <3>2. CASE k # m
        <4>1. UNCHANGED <<tracked[k], met[k], observed[k], todo[k], step[k]>>
          BY <2>1, <3>2, OthersKeep
        <4> QED BY <4>1, StillRemembers, StillClosed DEF MonitorInv
      <3> QED BY <3>1, <3>2
    <2> QED BY <2>2 DEF MonitorInv, ClosesOnlyLostJobs
  <1>2. CASE UNCHANGED <<step, tracked, met, observed, todo>>
    <2>1. ASSUME NEW k \in Monitors
          PROVE  Remembers(k)' /\ \A j \in todo'[k].close : queue'[j] \in Ended
      BY <1>2, StillRemembers, StillClosed DEF MonitorInv
    <2> QED BY <2>1 DEF MonitorInv, ClosesOnlyLostJobs
  <1>3. Cluster \/ Panes \/ SwitchOff \/ UNCHANGED watchVars
          => UNCHANGED <<step, tracked, met, observed, todo>>
    BY DEF Cluster, Panes, SwitchOff, watchVars, monitorVars
  <1>4. TimePasses => UNCHANGED <<step, tracked, met, observed, todo>>
    BY DEF TimePasses, monitorVars
  <1> QED BY <1>1, <1>2, <1>3, <1>4 DEF WatchNext, Monitoring, MonitorTurn

LEMMA StepAddsNews ==
    ASSUME ClusterTypes, MonitorTypes, MonitorInv, [WatchNext]_watchVars,
           NEW m \in Monitors, step[m] = "poll"
    PROVE  \A j \in todo'[m].add : observed'[m][j] \notin met[m][j]
  <1>0. Remembers(m) /\ todo[m] = Nothing
    BY DEF MonitorInv, Remembers
  <1>1. CASE PollFrame(m)
    BY <1>0, <1>1, PollRemembers
  <1>2. CASE todo'[m] \in {todo[m], Nothing}
    BY <1>0, <1>2 DEF Nothing
  <1>3. ASSUME NEW k \in Monitors, MonitorTurn(k), k # m PROVE todo'[m] = todo[m]
    BY <1>3, OthersKeep
  <1>4. MonitorTurn(m) => PollFrame(m) \/ todo'[m] \in {todo[m], Nothing}
    BY DEF MonitorTurn, SwitchOn, MonitorStep, FirstFrame, Check, MonitorDies, AddPanes, ClosePanes,
           Forgets, MonitorTypes
  <1>5. Cluster \/ Panes \/ SwitchOff \/ TimePasses \/ UNCHANGED watchVars => todo' = todo
    BY DEF Cluster, Panes, SwitchOff, TimePasses, watchVars, monitorVars
  <1> QED BY <1>1, <1>2, <1>3, <1>4, <1>5 DEF WatchNext, Monitoring, MonitorTurn

LEMMA WatchNextInv == WatchInv /\ [WatchNext]_watchVars => WatchInv'
  BY TypesNext, FollowNext, MonitorNext DEF WatchInv

(* A follower stops its tail only when the job is over, although listings  *)
(* are shared, may be read twice and are sometimes missing (follow.rs,     *)
(* supervise_follower and observe_queue), for any number of jobs and panes. *)
(* The premise is FollowerAssumption: a listing is out of use two polling  *)
(* intervals after the scheduler answered, so the answer has to reach the  *)
(* cache file within 15 seconds; what protects a job that was registered a *)
(* moment ago is the whole interval before the first poll.                 *)
THEOREM FollowersStopGoneJobs == WatchSpec => []StopsOnlyGoneJobs
  <1>1. WatchInv => StopsOnlyGoneJobs
    BY DEF WatchInv, FollowInv
  <1> QED BY <1>1, WatchInitInv, WatchNextInv, PTL DEF WatchSpec

(* No monitor closes the pane of an active job, whatever frames leave out  *)
(* and however many monitors run (tmux/monitor.rs, update).                *)
THEOREM MonitorsCloseLostJobs == WatchSpec => []ClosesOnlyLostJobs
  <1>1. WatchInv => ClosesOnlyLostJobs
    BY DEF WatchInv, MonitorInv
  <1> QED BY <1>1, WatchInitInv, WatchNextInv, PTL DEF WatchSpec

(* Additions are news, for any number of monitors (tmux/monitor.rs,        *)
(* monitor_additions).                                                     *)
THEOREM MonitorsAddNews == WatchSpec => AddsOnlyNews
  <1>1. WatchInv /\ [WatchNext]_watchVars
          => [\A m \in Monitors : step[m] = "poll" =>
                \A j \in todo'[m].add : observed'[m][j] \notin met[m][j]]_watchVars
    BY StepAddsNews DEF WatchInv
  <1> QED BY <1>1, WatchInitInv, WatchNextInv, PTL DEF WatchSpec, AddsOnlyNews

=============================================================================
