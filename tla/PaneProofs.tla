----------------------------- MODULE PaneProofs -----------------------------
(***************************************************************************)
(* Proofs about the two sides of the panes of a workspace: the details     *)
(* that the daemon answers to a details pane (DaemonDetail), and the       *)
(* commands that open, fill and close the panes themselves (Workspace).    *)
(* For any number of views, threads and mishaps, the detail cache never    *)
(* answers for a job whose id has passed to another owner, and keeps a     *)
(* final sample.  For any number of jobs, panes and commands, what a       *)
(* command that was left alone promises holds when it ends.                *)
(***************************************************************************)
EXTENDS DaemonDetail, Workspace, FiniteSetTheorems, TLAPS


(* A request that came after the job was lost is still being authorized,   *)
(* and the job stays lost.                                                 *)
Lost ==
    \A t \in Threads :
        thread[t].foreign => ~job.owned /\ thread[t].phase \in {"authorize", "free"}

(* thread is a function on Threads; its values are not constrained. *)
ThreadOK == thread = [t \in Threads |-> thread[t]]

IInv == ThreadOK /\ Lost

LEMMA Start == Init => IInv
  BY DEF Init, IInv, ThreadOK, Lost, Free

LEMMA Polling ==
    ASSUME IInv, NEW v \in Views, Poll(v) \/ Press(v)
    PROVE  IInv'
  BY DEF IInv, ThreadOK, Lost, Poll, Press

LEMMA Sending ==
    ASSUME IInv, NEW v \in Views, NEW t \in Threads, Send(v, t) \/ GiveUp(v, t)
    PROVE  IInv'
  <1>1. CASE Send(v, t)
    BY <1>1 DEF IInv, ThreadOK, Lost, Send
  <1>2. CASE GiveUp(v, t)
    BY <1>2 DEF IInv, ThreadOK, Lost, GiveUp
  <1> QED BY <1>1, <1>2

(* Authorization is what keeps a foreign request from the cache. *)
LEMMA Authorizing ==
    ASSUME IInv, NEW t \in Threads, Authorize(t)
    PROVE  IInv'
  BY DEF IInv, ThreadOK, Lost, Authorize, Moved, Free, Mishap

LEMMA Working ==
    ASSUME IInv, NEW t \in Threads, Lookup(t) \/ Fetch(t) \/ Store(t) \/ Failed(t)
    PROVE  IInv'
  <1>1. CASE Lookup(t)
    BY <1>1 DEF IInv, ThreadOK, Lost, Lookup, Moved
  <1>2. CASE Fetch(t)
    BY <1>2 DEF IInv, ThreadOK, Lost, Fetch, Moved
  <1>3. CASE Store(t)
    BY <1>3 DEF IInv, ThreadOK, Lost, Store, Free
  <1>4. CASE Failed(t)
    BY <1>4 DEF IInv, ThreadOK, Lost, Failed, Free
  <1> QED BY <1>1, <1>2, <1>3, <1>4

LEMMA Environment ==
    ASSUME IInv, Tick \/ JobFinishes \/ JobLost \/ Evicted
    PROVE  IInv'
  BY DEF IInv, ThreadOK, Lost, Tick, JobFinishes, JobLost, Evicted

(* ForeignIsRefused for every value of the constants: a socket caller      *)
(* that asks after the id changed hands is never answered from the cache.  *)
THEOREM ForeignRefused == Spec => []ForeignIsRefused
  <1>1. IInv /\ [Next]_vars => IInv'
    <2> SUFFICES ASSUME IInv, [Next]_vars PROVE IInv'
      OBVIOUS
    <2>1. CASE UNCHANGED vars
      BY <2>1 DEF IInv, ThreadOK, Lost, vars
    <2>2. CASE Next
      BY <2>2, Polling, Sending, Authorizing, Working, Environment DEF Next, Work
    <2> QED BY <2>1, <2>2
  <1>2. IInv => ForeignIsRefused
    BY DEF IInv, Lost, ForeignIsRefused
  <1> QED BY Start, <1>1, <1>2, PTL DEF Spec
-----------------------------------------------------------------------------
(* A final sample stays.  The entry is a record whose values are not       *)
(* constrained, and a request that fetches has nothing in its hands yet.   *)
EntryOK == entry = [created |-> entry.created, access |-> entry.access,
                    failures |-> entry.failures, sample |-> entry.sample]

FetchesAnew == \A t \in Threads : thread[t].phase = "fetch" => thread[t].got = NoSample

KeepInv == ThreadOK /\ EntryOK /\ FetchesAnew

LEMMA StartKeep == Init => KeepInv
  BY DEF Init, KeepInv, ThreadOK, EntryOK, FetchesAnew, Free, NoEntry

LEMMA WorkKeeps ==
    ASSUME KeepInv, NEW t \in Threads, Work(t)
    PROVE  KeepInv'
  <1>1. CASE Authorize(t)
    <2>1. \/ thread' = [thread EXCEPT ![t] = Moved(t, "lookup", NoSample)]
          \/ thread' = [thread EXCEPT ![t] = Free]
      BY <1>1 DEF Authorize
    <2> QED BY <1>1, <2>1 DEF Authorize, Moved, Free, KeepInv, ThreadOK, EntryOK, FetchesAnew
  <1>2. CASE Lookup(t)
    <2>1. \/ thread' = [thread EXCEPT ![t] = Moved(t, "store", entry.sample)]
          \/ thread' = [thread EXCEPT ![t] = Moved(t, "fetch", NoSample)]
      BY <1>2 DEF Lookup
    <2>2. EntryOK'
      BY <1>2 DEF Lookup, KeepInv, EntryOK, NoEntry
    <2> QED BY <2>1, <2>2 DEF Moved, KeepInv, ThreadOK, FetchesAnew
  <1>3. CASE Fetch(t)
    <2>1. \/ thread' = [thread EXCEPT ![t] = Moved(t, "failed", NoSample)]
          \/ \E s : thread' = [thread EXCEPT ![t] = Moved(t, "store", s)]
      BY <1>3 DEF Fetch
    <2>2. ThreadOK' /\ FetchesAnew'
      <3>1. CASE thread' = [thread EXCEPT ![t] = Moved(t, "failed", NoSample)]
        BY <3>1 DEF Moved, KeepInv, ThreadOK, FetchesAnew
      <3>2. CASE \E s : thread' = [thread EXCEPT ![t] = Moved(t, "store", s)]
        BY <3>2 DEF Moved, KeepInv, ThreadOK, FetchesAnew
      <3> QED BY <2>1, <3>1, <3>2
    <2> QED BY <1>3, <2>2 DEF Fetch, KeepInv, EntryOK
  <1>4. CASE Store(t) \/ Failed(t)
    <2>1. thread' = [thread EXCEPT ![t] = Free]
      BY <1>4 DEF Store, Failed
    <2>2. EntryOK'
      BY <1>4 DEF Store, Failed, KeepInv, EntryOK, NoEntry
    <2> QED BY <2>1, <2>2 DEF KeepInv, ThreadOK, FetchesAnew, Free
  <1> QED BY <1>1, <1>2, <1>3, <1>4 DEF Work

LEMMA RestKeeps ==
    ASSUME KeepInv,
           \/ Tick \/ JobFinishes \/ JobLost \/ Evicted \/ UNCHANGED vars
           \/ \E v \in Views : \/ Poll(v) \/ Press(v)
                               \/ \E t \in Threads : Send(v, t) \/ GiveUp(v, t)
    PROVE  KeepInv'
  <1> USE DEF KeepInv, ThreadOK, EntryOK, FetchesAnew
  <1>1. CASE Tick
    BY <1>1 DEF Tick, NoEntry
  <1>2. CASE JobFinishes \/ JobLost \/ UNCHANGED vars
    BY <1>2 DEF JobFinishes, JobLost, vars
  <1>3. CASE Evicted
    BY <1>3 DEF Evicted, NoEntry
  <1>4. CASE \E v \in Views : Poll(v) \/ Press(v)
    BY <1>4 DEF Poll, Press
  <1>5. CASE \E v \in Views, t \in Threads : Send(v, t) \/ GiveUp(v, t)
    <2>1. PICK t \in Threads :
            \E r : /\ thread' = [thread EXCEPT ![t] = r]
                   /\ r.phase = "fetch" => r.got = NoSample
      BY <1>5 DEF Send, GiveUp
    <2>2. PICK r : /\ thread' = [thread EXCEPT ![t] = r]
                   /\ r.phase = "fetch" => r.got = NoSample
      BY <2>1
    <2>3. entry' = entry
      BY <1>5 DEF Send, GiveUp
    <2> QED BY <2>2, <2>3
  <1> QED BY <1>1, <1>2, <1>3, <1>4, <1>5

(* The step of FinalIsKept. *)
LEMMA StepKeepsFinal ==
    ASSUME KeepInv, [Next]_vars, entry.sample.final, entry' # NoEntry,
           \A t \in Threads : thread[t].phase \notin {"fetch", "store"} \/ thread[t].got.final
    PROVE  entry'.sample.final /\ \A t \in Threads : thread'[t].phase # "fetch"
  <1>0. /\ ThreadOK /\ EntryOK
        /\ \A t \in Threads : thread[t].phase # "fetch"
        /\ entry # NoEntry
    BY DEF KeepInv, FetchesAnew, NoSample, NoEntry
  <1> USE DEF ThreadOK
  <1>1. CASE \E t \in Threads : Authorize(t)
    BY <1>0, <1>1 DEF Authorize, Moved, Free
  <1>2. CASE \E t \in Threads : Lookup(t)
    <2>1. PICK t \in Threads : Lookup(t)
      BY <1>2
    <2>2. entry' = [entry EXCEPT !.access = 0] /\ entry # NoEntry /\ entry.access < KeptFor
      BY <2>1 DEF Lookup
    <2>3. entry'.sample = entry.sample
      BY <1>0, <2>2 DEF EntryOK
    <2>4. Hit(entry, thread[t].force)
      BY DEF Hit
    <2>5. thread' = [thread EXCEPT ![t] = Moved(t, "store", entry.sample)]
      BY <2>1, <2>2, <2>4 DEF Lookup
    <2> QED BY <1>0, <2>3, <2>5 DEF Moved
  <1>3. CASE \E t \in Threads : Store(t)
    BY <1>0, <1>3 DEF Store, Free
  <1>4. CASE \E t \in Threads : Failed(t)
    <2>1. PICK t \in Threads : Failed(t)
      BY <1>4
    <2>2. entry' = [entry EXCEPT !.failures = Smaller(@ + 1, 2), !.created = 0]
      BY <1>0, <2>1 DEF Failed
    <2>3. entry'.sample = entry.sample
      BY <1>0, <2>2 DEF EntryOK
    <2> QED BY <1>0, <2>1, <2>3 DEF Failed, Free
  <1>5. CASE Tick
    <2>1. entry'.sample = entry.sample
      BY <1>0, <1>5 DEF Tick, EntryOK
    <2> QED BY <1>0, <1>5, <2>1 DEF Tick
  <1>6. CASE \E v \in Views, t \in Threads : Send(v, t)
    BY <1>0, <1>6 DEF Send
  <1>7. CASE UNCHANGED <<entry, thread>>
    BY <1>0, <1>7
  <1>8. ASSUME NEW t \in Threads PROVE ~Fetch(t) /\ \A v \in Views : ~GiveUp(v, t)
    BY <1>0 DEF Fetch, GiveUp
  <1>9. ~Evicted
    BY DEF Evicted
  <1>10. JobFinishes \/ JobLost \/ UNCHANGED vars \/ (\E v \in Views : Poll(v) \/ Press(v))
           => UNCHANGED <<entry, thread>>
    BY DEF JobFinishes, JobLost, vars, Poll, Press
  <1> QED BY <1>1, <1>2, <1>3, <1>4, <1>5, <1>6, <1>7, <1>8, <1>9, <1>10 DEF Next, Work

(* A finished job's entry is never replaced by an older sample, nor is the *)
(* job sampled again, while no request has such a sample on its way        *)
(* (server.rs, cached_detail and store_detail).                            *)
THEOREM FinalKept == Spec => FinalIsKept
  <1>1. KeepInv /\ [Next]_vars => KeepInv'
    BY WorkKeeps, RestKeeps DEF Next
  <1>2. KeepInv /\ [Next]_vars
          => [(/\ entry.sample.final /\ entry' # NoEntry
               /\ \A t \in Threads :
                     thread[t].phase \notin {"fetch", "store"} \/ thread[t].got.final)
              => (entry'.sample.final /\ \A t \in Threads : thread'[t].phase # "fetch")]_vars
    BY StepKeepsFinal
  <1> QED BY <1>1, <1>2, StartKeep, PTL DEF Spec, FinalIsKept

-----------------------------------------------------------------------------
(***************************************************************************)
(* The log workspace (module Workspace).                                   *)
(***************************************************************************)
Places == {"idle", "new", "label", "setup", "respawn", "broken", "split", "gather", "clear", "read",
           "kill", "gone", "toggle", "detail", "pair", "close", "leave", "quit", "last", "done",
           "failed"}
Names == {"none", "open", "pick", "add", "gone", "details", "close", "leave", "quit"}
Options == [job: Jobs \cup {NoJob}, parent: 0..created]
Commands == [cmd: Names, at: Places, want: SUBSET Jobs, keys: SUBSET Jobs, kills: SUBSET Nat,
             next: Places, job: Jobs \cup {NoJob}, focus: Nat, pane: Nat, anchor: Nat]

WorkTypes ==
    /\ created \in Nat
    /\ Ids \subseteq 1..created
    /\ panes \in [Ids -> Options]
    /\ proc \in [Processes -> Commands]
    /\ alone \in [Processes -> BOOLEAN]

(* Which command is where. *)
Fits(r) ==
    /\ r.at \in {"new", "setup", "respawn", "broken"} => r.cmd = "open"
    /\ r.at = "new" => r.anchor = NoPane
    /\ r.at = "gather" => r.job # NoJob
    /\ r.at \in {"gather", "clear", "read"} => r.cmd \in {"pick", "add"}
    /\ r.at \in {"split", "label"} => r.cmd \in {"open", "pick", "add"}
    /\ r.at \in {"toggle", "detail", "pair"} => r.cmd = "details"
    /\ r.at \in {"gone", "close", "leave", "quit"} => r.cmd = r.at
    /\ r.at = "last" => r.cmd \in {"details", "close", "leave"}
    /\ r.at = "kill" => \/ r.next \in {"read", "split"} /\ r.cmd \in {"pick", "add"}
                        \/ r.next = "done" /\ r.cmd \in {"gone", "details"}
                        \/ r.next = "last" /\ r.cmd \in {"close", "leave"}

(* A details pane carries the job of the log pane it belongs to.           *)
Partners ==
    \A d \in Details :
        /\ panes[d].job # NoJob
        /\ panes[d].parent \in Ids =>
               /\ panes[panes[d].parent].job = panes[d].job
               /\ panes[panes[d].parent].parent = NoPane

(* What a command has in hand while others may do as they like.            *)
InHand(c) ==
    /\ proc[c].at \in {"label", "pair"} =>
           /\ proc[c].job # NoJob
           /\ proc[c].pane \in 1..created
           /\ proc[c].pane \in Ids => panes[proc[c].pane] = Unlabelled
    /\ proc[c].at \in {"detail", "pair"} =>
           /\ proc[c].job # NoJob
           /\ proc[c].focus \in 1..created
           /\ proc[c].focus \in Ids => panes[proc[c].focus] = [job |-> proc[c].job, parent |-> NoPane]
    /\ proc[c].at = "new" => created = 0

Apart ==
    \A c, d \in Processes :
        c # d =>
           /\ proc[c].at = "new" => proc[d].at = "idle"
           /\ proc[c].at \in {"label", "pair"} /\ proc[d].at \in {"label", "pair"}
                => proc[c].pane # proc[d].pane

Doomed(c) == IF proc[c].at = "kill" THEN proc[c].kills ELSE {}
Kept(c) == Listed \ Doomed(c)

(* The panes of the new selection are there or will be. *)
Filling(c) ==
    \/ proc[c].at \in {"split", "label", "setup", "respawn"}
    \/ proc[c].at = "kill" /\ proc[c].next = "split"

Filled(c) ==
    /\ Details = {}
    /\ Shown(Kept(c)) \cup (IF proc[c].at = "label" THEN {proc[c].job} ELSE {}) = proc[c].keys
    /\ \A p \in Kept(c) : panes[p].job \in proc[c].want \/ p = proc[c].anchor
    /\ proc[c].anchor # NoPane =>
           proc[c].anchor \in Kept(c) /\ panes[proc[c].anchor].job \notin proc[c].want
    /\ proc[c].at = "label" => proc[c].job \in proc[c].want /\ proc[c].pane \in Ids

(* One pane for every job of an open. *)
Counted(c) ==
    /\ proc[c].anchor = NoPane
    /\ IsFiniteSet(Listed) /\ IsFiniteSet(proc[c].keys)
    /\ Cardinality(proc[c].keys) = Cardinality(Listed) + (IF proc[c].at = "label" THEN 1 ELSE 0)
    /\ proc[c].at = "label" /\ proc[c].pane = 1 => Listed = {}

Picking == {"gather", "clear", "kill", "read", "split", "label", "failed"}

Steady(c) ==
    /\ Orphans \subseteq Doomed(c)
    /\ \A p \in Doomed(c) : DetailsOf(p) \subseteq Doomed(c)
    /\ proc[c].at = "last" \/ (proc[c].at = "kill" /\ proc[c].next = "last")
           => DetailsOf(proc[c].focus) \subseteq Doomed(c)
    /\ proc[c].at = "kill" /\ proc[c].next = "read" => Details \subseteq Doomed(c)
    /\ proc[c].at = "read" => Details = {}
    /\ proc[c].at \in {"detail", "pair"} => proc[c].focus \in Ids
    /\ Filling(c) => Filled(c)
    /\ proc[c].at \in {"setup", "respawn", "broken"} => Listed = {1} /\ Details = {}
    /\ proc[c].cmd = "open" /\ Filling(c) => Counted(c)
    /\ proc[c].cmd \in {"pick", "add"} /\ proc[c].at \in Picking => Ids \ Doomed(c) # {}
    /\ proc[c].cmd \in {"pick", "add"} /\ proc[c].at = "done"
           => Shown(LogPanes) = proc[c].want /\ Details = {}
    /\ proc[c].cmd = "open" /\ proc[c].at = "done"
           => Shown(LogPanes) = proc[c].want /\ Cardinality(LogPanes) = Cardinality(proc[c].want)
    /\ proc[c].cmd = "open" /\ proc[c].at = "failed" => ~Alive

WorkBase == WorkTypes /\ Partners /\ Apart /\ \A c \in Processes : Fits(proc[c]) /\ InHand(c)
WorkInv == WorkBase /\ \A c \in Processes : alone[c] => Steady(c)

-----------------------------------------------------------------------------
(* How the panes change: some go, one comes, or one is given its options.  *)
Shrinks ==
    /\ created' = created
    /\ Ids' \subseteq Ids
    /\ panes' = [p \in Ids' |-> panes[p]]

Grows ==
    /\ created' = created + 1
    /\ Ids' = Ids \cup {created + 1}
    /\ panes' = [p \in Ids' |-> IF p = created + 1 THEN Unlabelled ELSE panes[p]]

Marks(c) ==
    /\ created' = created
    /\ Ids' = Ids
    /\ proc[c].pane \in Ids
    /\ \/ /\ proc[c].at = "label"
          /\ panes' = [panes EXCEPT ![proc[c].pane] = [job |-> proc[c].job, parent |-> NoPane]]
       \/ /\ proc[c].at = "pair"
          /\ panes' = [panes EXCEPT ![proc[c].pane] =
                           [job |-> proc[c].job, parent |-> proc[c].focus]]

LEMMA PanesWell ==
    ASSUME WorkBase, NEW c \in Processes, Shrinks \/ Grows \/ Marks(c),
           Grows => \A d \in Processes \ {c} : proc[d].at # "new"
    PROVE  /\ created' \in Nat /\ Ids' \subseteq 1..created'
           /\ panes' \in [Ids' -> Options']
           /\ Partners'
           /\ \A d \in Processes \ {c} : proc'[d] = proc[d] => InHand(d)'
  <1> USE DEF WorkBase, WorkTypes
  <1>1. \A d \in Processes : proc[d] \in Commands
    OBVIOUS
  <1>2. NoPane \notin Ids
    BY DEF NoPane
  <1>3. CASE Shrinks
    <2>1. created' = created /\ Ids' \subseteq Ids /\ \A p \in Ids' : panes'[p] = panes[p]
      BY <1>3 DEF Shrinks
    <2>2. panes' \in [Ids' -> Options']
      BY <1>3, <2>1 DEF Shrinks, Options
    <2>3. Partners'
      BY <2>1 DEF Partners, Details, Ids
    <2>4. \A d \in Processes \ {c} : proc'[d] = proc[d] => InHand(d)'
      BY <2>1 DEF InHand
    <2> QED BY <2>1, <2>2, <2>3, <2>4
  <1>4. CASE Grows
    <2> DEFINE n == created + 1
    <2>1. /\ created' = n /\ Ids' = Ids \cup {n} /\ n \notin Ids
          /\ \A p \in Ids : panes'[p] = panes[p]
          /\ panes'[n] = Unlabelled
      BY <1>4 DEF Grows
    <2>2. panes' \in [Ids' -> Options']
      BY <1>4, <2>1 DEF Grows, Options, Unlabelled, NoPane
    <2>3. Partners'
      <3> SUFFICES ASSUME NEW d \in Details'
          PROVE  /\ panes'[d].job # NoJob
                 /\ panes'[d].parent \in Ids' =>
                        /\ panes'[panes'[d].parent].job = panes'[d].job
                        /\ panes'[panes'[d].parent].parent = NoPane
        BY DEF Partners
      <3>1. d \in Ids' /\ panes'[d].parent # NoPane
        BY DEF Details
      <3>2. panes'[n].parent = NoPane
        BY <2>1 DEF Unlabelled
      <3>3. d \in Ids /\ panes'[d] = panes[d]
        BY <2>1, <3>1, <3>2
      <3>4. d \in Details
        BY <3>1, <3>3 DEF Details
      <3>5. panes[d] \in Options
        BY <3>3
      <3>6. panes[d].parent # n
        BY <3>5 DEF Options
      <3> QED BY <2>1, <3>3, <3>4, <3>6 DEF Partners
    <2>4. \A d \in Processes \ {c} : proc'[d] = proc[d] => InHand(d)'
      <3> SUFFICES ASSUME NEW d \in Processes \ {c}, proc'[d] = proc[d] PROVE InHand(d)'
        OBVIOUS
      <3>1. proc[d].at # "new"
        BY <1>4
      <3> QED BY <2>1, <3>1 DEF InHand
    <2>5. created' \in Nat /\ Ids' \subseteq 1..created'
      BY <2>1
    <2> HIDE DEF n
    <2> QED BY <2>2, <2>3, <2>4, <2>5
  <1>5. CASE Marks(c)
    <2> DEFINE n == proc[c].pane
    <2>1. /\ created' = created /\ Ids' = Ids /\ n \in Ids /\ panes[n] = Unlabelled
          /\ \A p \in Ids \ {n} : panes'[p] = panes[p]
          /\ panes'[n].job = proc[c].job /\ proc[c].job # NoJob
          /\ \/ panes'[n].parent = NoPane
             \/ /\ panes'[n].parent = proc[c].focus /\ proc[c].focus \in 1..created
                /\ proc[c].focus \in Ids =>
                      panes[proc[c].focus] = [job |-> proc[c].job, parent |-> NoPane]
      BY <1>5 DEF Marks, InHand
    <2>2. panes' \in [Ids' -> Options']
      BY <1>5, <2>1 DEF Marks, Options, Commands, NoPane, InHand
    <2>3. Partners'
      <3> SUFFICES ASSUME NEW d \in Details'
          PROVE  /\ panes'[d].job # NoJob
                 /\ panes'[d].parent \in Ids' =>
                        /\ panes'[panes'[d].parent].job = panes'[d].job
                        /\ panes'[panes'[d].parent].parent = NoPane
        BY DEF Partners
      <3>1. d \in Ids /\ panes'[d].parent # NoPane
        BY <2>1 DEF Details
      <3>2. CASE d = n
        <4>1. panes[proc[c].focus] = [job |-> proc[c].job, parent |-> NoPane] => proc[c].focus # n
          BY <2>1 DEF Unlabelled
        <4> QED BY <2>1, <3>1, <3>2, <4>1
      <3>3. CASE d # n
        <4>1. d \in Details /\ panes'[d] = panes[d]
          BY <2>1, <3>1, <3>3 DEF Details
        <4>2. panes[d].parent \in Ids => panes[d].parent # n
          BY <2>1, <4>1 DEF Partners, Unlabelled
        <4> QED BY <2>1, <4>1, <4>2 DEF Partners
      <3> QED BY <3>2, <3>3
    <2>4. \A d \in Processes \ {c} : proc'[d] = proc[d] => InHand(d)'
      <3> SUFFICES ASSUME NEW d \in Processes \ {c}, proc'[d] = proc[d] PROVE InHand(d)'
        OBVIOUS
      <3>1. proc[d].at \in {"label", "pair"} => proc[d].pane # n
        BY <1>5 DEF Marks, Apart
      <3>2. proc[d].at \in {"detail", "pair"} /\ proc[d].focus \in Ids => proc[d].focus # n
        <4> SUFFICES ASSUME proc[d].at \in {"detail", "pair"}, proc[d].focus \in Ids
                     PROVE  panes[proc[d].focus].job # NoJob
          BY <2>1 DEF Unlabelled
        <4>1. /\ panes[proc[d].focus] = [job |-> proc[d].job, parent |-> NoPane]
              /\ proc[d].job # NoJob
          BY DEF InHand
        <4> QED BY <4>1
      <3> QED BY <2>1, <3>1, <3>2 DEF InHand
    <2> QED BY <2>1, <2>2, <2>3, <2>4
  <1> QED BY <1>3, <1>4, <1>5

(* A command moves on to rec while the panes change.                       *)
LEMMA BaseStep ==
    ASSUME WorkBase, NEW c \in Processes, NEW rec \in Commands, Becomes(c, rec), Fits(rec),
           Shrinks \/ Grows \/ Marks(c),
           \A d \in Processes \ {c} : proc[d].at # "new",
           alone' \in [Processes -> BOOLEAN],
           rec.at \in {"label", "pair"} => rec.pane = created + 1 /\ Grows /\ rec.job # NoJob,
           rec.at \in {"detail", "pair"} =>
               /\ rec.job # NoJob /\ rec.focus \in 1..created'
               /\ rec.focus \in Ids' => panes'[rec.focus] = [job |-> rec.job, parent |-> NoPane],
           rec.at = "new" => created' = 0 /\ \A d \in Processes \ {c} : proc[d].at = "idle"
    PROVE  WorkBase'
  <1> USE DEF WorkBase, WorkTypes
  <1>1. proc' = [proc EXCEPT ![c] = rec] /\ proc' \in [Processes -> Commands]
    BY DEF Becomes
  <1>2. proc'[c] = rec /\ \A d \in Processes \ {c} : proc'[d] = proc[d]
    BY <1>1
  <1>3. /\ created' \in Nat /\ Ids' \subseteq 1..created'
        /\ panes' \in [Ids' -> Options'] /\ Partners'
        /\ \A d \in Processes \ {c} : InHand(d)'
    BY <1>2, PanesWell
  <1>4. InHand(c)'
    <2>1. Grows => created' = created + 1 /\ created + 1 \in Ids' /\ panes'[created + 1] = Unlabelled
      BY DEF Grows
    <2> QED BY <1>2, <2>1 DEF InHand
  <1>5. Apart'
    <2> SUFFICES ASSUME NEW a \in Processes, NEW b \in Processes, a # b
        PROVE  /\ proc'[a].at = "new" => proc'[b].at = "idle"
               /\ proc'[a].at \in {"label", "pair"} /\ proc'[b].at \in {"label", "pair"}
                    => proc'[a].pane # proc'[b].pane
      BY DEF Apart
    <2>1. ASSUME NEW d \in Processes \ {c}, proc[d].at \in {"label", "pair"}
          PROVE  proc[d].pane # created + 1
      <3>1. InHand(d)
        OBVIOUS
      <3>2. proc[d].pane \in 1..created
        BY <2>1, <3>1 DEF InHand
      <3> QED BY <3>2
    <2> QED BY <1>2, <2>1 DEF Apart
  <1>6. \A d \in Processes : Fits(proc'[d])
    BY <1>2
  <1> QED BY <1>1, <1>3, <1>4, <1>5, <1>6, <1>2

LEMMA MakesPanes ==
    ASSUME WorkBase, NEW c \in Processes, NEW new, Makes(c, new)
    PROVE  /\ panes' = new
           /\ alone' \in [Processes -> BOOLEAN]
           /\ alone'[c] => alone[c]
           /\ \A d \in Processes \ {c} : alone'[d] => alone[d] /\ panes' = panes
  BY DEF Makes, WorkBase, WorkTypes

LEMMA WithoutShrinks ==
    ASSUME WorkBase, NEW ids, panes' = Without(ids), created' = created
    PROVE  Shrinks /\ Ids' = Ids \ ids
  BY DEF Shrinks, Without, Ids

LEMMA SameShrinks ==
    ASSUME WorkBase, panes' = panes, created' = created
    PROVE  Shrinks /\ Ids' = Ids
  BY DEF Shrinks, Ids, WorkBase, WorkTypes

LEMMA EmptyShrinks ==
    ASSUME WorkBase, panes' = <<>>, created' = created
    PROVE  Shrinks /\ Ids' = {}
  BY DEF Shrinks, Ids

LEMMA WithGrows ==
    ASSUME WorkBase, panes' = With(created + 1, Unlabelled), created' = created + 1
    PROVE  Grows
  BY DEF Grows, With, Ids

LEMMA WithMarks ==
    ASSUME WorkBase, NEW p \in Ids, NEW o
    PROVE  With(p, o) = [panes EXCEPT ![p] = o]
  BY DEF With, Ids, WorkBase, WorkTypes

LEMMA NobodyNew ==
    ASSUME WorkBase, NEW c \in Processes, proc[c].at # "idle" \/ Alive
    PROVE  \A d \in Processes \ {c} : proc[d].at # "new"
  <1>1. ASSUME NEW d \in Processes \ {c}, proc[d].at = "new" PROVE Ids = {} /\ proc[c].at = "idle"
    <2>1. InHand(d) /\ Apart /\ Ids \subseteq 1..created
      BY DEF WorkBase, WorkTypes
    <2>2. created = 0 /\ proc[c].at = "idle"
      BY <1>1, <2>1 DEF InHand, Apart
    <2> QED BY <2>1, <2>2
  <1> QED BY <1>1 DEF Alive

LEMMA PlainStep ==
    ASSUME WorkBase, NEW c \in Processes, NEW rec \in Commands, Becomes(c, rec), Fits(rec),
           Shrinks \/ Marks(c), alone' \in [Processes -> BOOLEAN],
           proc[c].at # "idle" \/ Alive,
           rec.at \notin {"label", "pair", "detail", "new"}
    PROVE  WorkBase'
  BY NobodyNew, BaseStep

-----------------------------------------------------------------------------
(* WorkBase is kept by every action. *)
Entry(cmd, place) ==
    \/ cmd = "open" /\ place = "new"
    \/ cmd = "pick" /\ place = "clear"
    \/ cmd = "add" /\ place = "gather"
    \/ cmd = "details" /\ place = "toggle"
    \/ cmd \in {"gone", "close", "leave", "quit"} /\ place = cmd

LEMMA Beginnings ==
    ASSUME WorkBase, NEW c \in Processes, Command(c)
    PROVE  \E cmd \in Names, rec \in Commands :
              /\ Begin(c, cmd, rec) /\ Entry(cmd, rec.at) /\ rec.anchor = NoPane
              /\ rec.at = "gather" => rec.job # NoJob
              /\ cmd = "open" => created = 0 /\ \A d \in Processes : proc[d].at = "idle"
              /\ cmd # "open" => Alive
  <1> DEFINE Goal == \E cmd \in Names, rec \in Commands :
                         /\ Begin(c, cmd, rec) /\ Entry(cmd, rec.at) /\ rec.anchor = NoPane
                         /\ rec.at = "gather" => rec.job # NoJob
                         /\ cmd = "open" =>
                               created = 0 /\ \A d \in Processes : proc[d].at = "idle"
                         /\ cmd # "open" => Alive
  <1>1. ASSUME NEW cmd \in Names, NEW place \in Places, NEW rec, Begin(c, cmd, rec),
               \/ \E S \in SUBSET Jobs : rec = [Idle EXCEPT !.at = place, !.want = S]
               \/ \E j \in Jobs : rec = [Idle EXCEPT !.at = place, !.job = j]
               \/ \E p \in Nat : rec = [Idle EXCEPT !.at = place, !.focus = p]
               \/ rec = [Idle EXCEPT !.at = place],
               place = "gather" => \E j \in Jobs : rec = [Idle EXCEPT !.at = place, !.job = j],
               Entry(cmd, place),
               cmd = "open" => created = 0 /\ \A d \in Processes : proc[d].at = "idle",
               cmd # "open" => Alive
        PROVE  Goal
    <2>1. rec \in Commands /\ rec.at = place /\ rec.anchor = NoPane
      <3>1. Idle \in Commands /\ Idle.anchor = NoPane
        BY DEF Idle, Commands, Places, Names, NoPane
      <3>2. CASE \E S \in SUBSET Jobs : rec = [Idle EXCEPT !.at = place, !.want = S]
        BY <3>1, <3>2 DEF Commands
      <3>3. CASE \E j \in Jobs : rec = [Idle EXCEPT !.at = place, !.job = j]
        BY <3>1, <3>3 DEF Commands
      <3>4. CASE \E p \in Nat : rec = [Idle EXCEPT !.at = place, !.focus = p]
        BY <3>1, <3>4 DEF Commands
      <3>5. CASE rec = [Idle EXCEPT !.at = place]
        BY <3>1, <3>5 DEF Commands
      <3> QED BY <1>1, <3>2, <3>3, <3>4, <3>5
    <2>2. place = "gather" => rec.job # NoJob
      BY <1>1, WorkspaceAssumption DEF Idle
    <2> QED BY <1>1, <2>1, <2>2
  <1> HIDE DEF Goal
  <1>2. Ids \subseteq Nat
    BY DEF WorkBase, WorkTypes
  <1>3. ASSUME Open(c) PROVE Goal
    <2>1. PICK S \in SUBSET Jobs \ {{}} : Begin(c, "open", [Idle EXCEPT !.at = "new", !.want = S])
      BY <1>3 DEF Open
    <2>2. created = 0 /\ \A d \in Processes : proc[d].at = "idle"
      BY <1>3 DEF Open, At
    <2>3. "open" \in Names /\ "new" \in Places /\ Entry("open", "new")
      BY DEF Names, Places, Entry
    <2> QED BY <1>1, <2>1, <2>2, <2>3
  <1>4. ASSUME Alive, PickAdd(c) PROVE Goal
    <2>1. "pick" \in Names /\ "clear" \in Places /\ Entry("pick", "clear") /\ "pick" # "open"
      BY DEF Names, Places, Entry
    <2>2. PICK S \in SUBSET Jobs \ {{}} : Begin(c, "pick", [Idle EXCEPT !.at = "clear", !.want = S])
      BY <1>4 DEF PickAdd
    <2> QED BY <1>1, <1>4, <2>1, <2>2
  <1>5. ASSUME Alive, AddJob(c) PROVE Goal
    <2>1. "add" \in Names /\ "gather" \in Places /\ Entry("add", "gather") /\ "add" # "open"
      BY DEF Names, Places, Entry
    <2>2. PICK j \in Jobs : Begin(c, "add", [Idle EXCEPT !.at = "gather", !.job = j])
      BY <1>5 DEF AddJob
    <2> QED BY <1>1, <1>5, <2>1, <2>2
  <1>6. ASSUME Alive, JobGone(c) PROVE Goal
    <2>1. "gone" \in Names /\ "gone" \in Places /\ Entry("gone", "gone") /\ "gone" # "open"
      BY DEF Names, Places, Entry
    <2>2. PICK j \in Jobs : Begin(c, "gone", [Idle EXCEPT !.at = "gone", !.job = j])
      BY <1>6 DEF JobGone
    <2> QED BY <1>1, <1>6, <2>1, <2>2
  <1>7. ASSUME Alive, ToggleDetails(c) PROVE Goal
    <2>1. "details" \in Names /\ "toggle" \in Places /\ Entry("details", "toggle")
          /\ "details" # "open"
      BY DEF Names, Places, Entry
    <2>2. PICK p \in Nat : Begin(c, "details", [Idle EXCEPT !.at = "toggle", !.focus = p])
      BY <1>2, <1>7 DEF ToggleDetails
    <2> QED BY <1>1, <1>7, <2>1, <2>2
  <1>8. ASSUME Alive, ClosePane(c) PROVE Goal
    <2>1. "close" \in Names /\ "close" \in Places /\ Entry("close", "close") /\ "close" # "open"
      BY DEF Names, Places, Entry
    <2>2. PICK p \in Nat : Begin(c, "close", [Idle EXCEPT !.at = "close", !.focus = p])
      BY <1>2, <1>8 DEF ClosePane
    <2> QED BY <1>1, <1>8, <2>1, <2>2
  <1>9. ASSUME Alive, FollowerEnds(c) PROVE Goal
    <2>1. "leave" \in Names /\ "leave" \in Places /\ Entry("leave", "leave") /\ "leave" # "open"
      BY DEF Names, Places, Entry
    <2>2. PICK p \in Nat : Begin(c, "leave", [Idle EXCEPT !.at = "leave", !.focus = p])
      BY <1>2, <1>9 DEF FollowerEnds
    <2> QED BY <1>1, <1>9, <2>1, <2>2
  <1>10. ASSUME Alive, QuitKey(c) PROVE Goal
    <2>1. "quit" \in Names /\ "quit" \in Places /\ Entry("quit", "quit") /\ "quit" # "open"
      BY DEF Names, Places, Entry
    <2> QED BY <1>1, <1>10, <2>1 DEF QuitKey
  <1>11. Goal
    BY <1>3, <1>4, <1>5, <1>6, <1>7, <1>8, <1>9, <1>10 DEF Command
  <1> QED BY <1>11 DEF Goal

LEMMA BaseBegin == ASSUME WorkBase, NEW c \in Processes, Command(c) PROVE WorkBase'
  <1>1. PICK cmd \in Names, rec \in Commands :
              /\ Begin(c, cmd, rec) /\ Entry(cmd, rec.at) /\ rec.anchor = NoPane
              /\ rec.at = "gather" => rec.job # NoJob
              /\ cmd = "open" => created = 0 /\ \A d \in Processes : proc[d].at = "idle"
              /\ cmd # "open" => Alive
    BY Beginnings
  <1> DEFINE r == [rec EXCEPT !.cmd = cmd]
  <1>2. r \in Commands /\ r.at = rec.at /\ r.cmd = cmd /\ r.anchor = rec.anchor
        /\ r.job = rec.job
    BY DEF Commands
  <1>3. Becomes(c, r) /\ panes' = panes /\ created' = created /\ proc[c].at = "idle"
    BY <1>1 DEF Begin, At
  <1>4. alone' \in [Processes -> BOOLEAN]
    BY <1>1 DEF Begin, WorkBase, WorkTypes
  <1> HIDE DEF r
  <1>5. Fits(r) /\ r.at \notin {"label", "pair", "detail"} /\ (r.at = "new" => cmd = "open")
    BY <1>1, <1>2 DEF Fits, Entry
  <1>6. \A d \in Processes \ {c} : proc[d].at # "new"
    BY <1>1, NobodyNew
  <1>7. r.at = "new" => created' = 0 /\ \A d \in Processes \ {c} : proc[d].at = "idle"
    BY <1>1, <1>3, <1>5
  <1> QED BY <1>2, <1>3, <1>4, <1>5, <1>6, <1>7, SameShrinks, BaseStep

-----------------------------------------------------------------------------
(* What the steps on panes do to the sets the commands look at.            *)
LEMMA SamePanes ==
    ASSUME panes' = panes
    PROVE  /\ Ids' = Ids /\ Details' = Details /\ Listed' = Listed /\ Orphans' = Orphans
           /\ LogPanes' = LogPanes /\ Alive' = Alive
           /\ \A p : DetailsOf(p)' = DetailsOf(p)
           /\ \A S : Shown(S)' = Shown(S)
  BY DEF Ids, Details, Listed, Orphans, LogPanes, Alive, DetailsOf, Shown

LEMMA KillEffect ==
    ASSUME WorkBase, NEW ids, panes' = Without(ids)
    PROVE  /\ Ids' = Ids \ ids /\ Details' = Details \ ids /\ Listed' = Listed \ ids
           /\ Orphans' \subseteq (Orphans \cup UNION {DetailsOf(p) : p \in ids}) \ ids
           /\ \A q : DetailsOf(q)' = DetailsOf(q) \ ids
           /\ \A p \in Ids' : panes'[p] = panes[p]
           /\ \A S : Shown(S)' = Shown(S \ ids)
  <1>1. Ids' = Ids \ ids /\ \A p \in Ids' : panes'[p] = panes[p]
    BY DEF Without, Ids
  <1>2. Details' = Details \ ids /\ Listed' = Listed \ ids
    BY <1>1 DEF Details, Listed
  <1>3. \A q : DetailsOf(q)' = DetailsOf(q) \ ids
    BY <1>1, <1>2 DEF DetailsOf, Details
  <1>4. Orphans' \subseteq (Orphans \cup UNION {DetailsOf(p) : p \in ids}) \ ids
    BY <1>1, <1>2 DEF Orphans, DetailsOf, Details
  <1>5. \A S : Shown(S)' = Shown(S \ ids)
    BY <1>1 DEF Shown
  <1> QED BY <1>1, <1>2, <1>3, <1>4, <1>5

LEMMA GrowEffect ==
    ASSUME WorkBase, Grows
    PROVE  /\ Ids' = Ids \cup {created + 1} /\ created + 1 \notin Ids
           /\ Details' = Details /\ Listed' = Listed /\ Orphans' \subseteq Orphans
           /\ \A q : DetailsOf(q)' = DetailsOf(q)
           /\ \A p \in Ids : panes'[p] = panes[p]
           /\ \A S \in SUBSET Ids : Shown(S)' = Shown(S)
  <1>1. created + 1 \notin Ids
    BY DEF WorkBase, WorkTypes
  <1>2. /\ Ids' = Ids \cup {created + 1} /\ panes'[created + 1] = Unlabelled
        /\ \A p \in Ids : panes'[p] = panes[p]
    BY <1>1 DEF Grows
  <1>3. Details' = Details /\ Listed' = Listed
    BY <1>2 DEF Details, Listed, Unlabelled
  <1>4. \A q : DetailsOf(q)' = DetailsOf(q)
    BY <1>2, <1>3 DEF DetailsOf, Details
  <1>5. Orphans' \subseteq Orphans
    BY <1>2, <1>3 DEF Orphans, Details
  <1>6. \A S \in SUBSET Ids : Shown(S)' = Shown(S)
    BY <1>2 DEF Shown
  <1> QED BY <1>1, <1>2, <1>3, <1>4, <1>5, <1>6

LEMMA MarkEffect ==
    ASSUME WorkBase, NEW c \in Processes, Marks(c)
    PROVE  LET n == proc[c].pane
           IN  /\ Ids' = Ids /\ n \in Ids /\ n \notin Listed /\ n \notin Details
               /\ Listed' = Listed \cup {n}
               /\ \A p \in Ids \ {n} : panes'[p] = panes[p]
               /\ panes'[n].job = proc[c].job
               /\ proc[c].at = "label" =>
                    /\ Details' = Details /\ Orphans' = Orphans
                    /\ \A q : DetailsOf(q)' = DetailsOf(q)
               /\ proc[c].at = "pair" =>
                    /\ Details' = Details \cup {n}
                    /\ Orphans' = Orphans \cup (IF proc[c].focus \in Ids THEN {} ELSE {n})
  <1> DEFINE n == proc[c].pane
  <1>0. InHand(c) /\ panes \in [Ids -> Options]
    BY DEF WorkBase, WorkTypes
  <1>1. /\ Ids' = Ids /\ n \in Ids /\ panes[n] = Unlabelled
        /\ \A p \in Ids \ {n} : panes'[p] = panes[p]
        /\ panes'[n].job = proc[c].job /\ proc[c].job # NoJob
        /\ proc[c].at = "label" => panes'[n].parent = NoPane
        /\ proc[c].at = "pair" => panes'[n].parent = proc[c].focus /\ proc[c].focus \in 1..created
    BY <1>0 DEF Marks, InHand
  <1>2. n \notin Listed /\ n \notin Details /\ Listed' = Listed \cup {n}
    BY <1>1 DEF Listed, Details, Unlabelled
  <1>3. ASSUME proc[c].at = "label"
        PROVE  /\ Details' = Details /\ Orphans' = Orphans
               /\ \A q : DetailsOf(q)' = DetailsOf(q)
    <2>1. Details' = Details
      BY <1>1, <1>2, <1>3 DEF Details
    <2>2. \A d \in Details : panes'[d] = panes[d]
      BY <1>1, <1>2 DEF Details
    <2> QED BY <1>1, <2>1, <2>2 DEF Orphans, DetailsOf
  <1>4. ASSUME proc[c].at = "pair"
        PROVE  /\ Details' = Details \cup {n}
               /\ Orphans' = Orphans \cup (IF proc[c].focus \in Ids THEN {} ELSE {n})
    <2>1. Details' = Details \cup {n}
      BY <1>1, <1>2, <1>4 DEF Details, NoPane
    <2>2. \A d \in Details : panes'[d] = panes[d]
      BY <1>1, <1>2 DEF Details
    <2> QED BY <1>1, <1>2, <1>4, <2>1, <2>2 DEF Orphans
  <1> QED BY <1>1, <1>2, <1>3, <1>4

(* No details pane has one of its own.                                     *)
LEMMA NotNested == WorkBase => \A d \in Details : DetailsOf(d) = {}
  BY DEF WorkBase, Partners, Details, DetailsOf

LEMMA Undisturbed ==
    ASSUME NEW d \in Processes, panes' = panes, proc'[d] = proc[d], Steady(d)
    PROVE  Steady(d)'
  <1>1. /\ Ids' = Ids /\ Details' = Details /\ Listed' = Listed /\ Orphans' = Orphans
        /\ LogPanes' = LogPanes /\ Alive' = Alive
        /\ \A p : DetailsOf(p)' = DetailsOf(p)
        /\ \A S : Shown(S)' = Shown(S)
    BY SamePanes
  <1>2. Doomed(d)' = Doomed(d) /\ Kept(d)' = Kept(d) /\ Filling(d)' = Filling(d)
    BY <1>1 DEF Doomed, Kept, Filling
  <1>3. Shown(Kept(d))' = Shown(Kept(d)) /\ Shown(LogPanes)' = Shown(LogPanes)
    BY <1>1, <1>2
  <1>4. Filled(d)' = Filled(d) /\ Counted(d)' = Counted(d)
    BY <1>1, <1>2, <1>3 DEF Filled, Counted
  <1> QED BY <1>1, <1>2, <1>3, <1>4 DEF Steady

(* A command rests or begins, and nothing is on its list.                  *)
Resting == {"idle", "new", "gone", "toggle", "close", "leave", "quit", "done"}

LEMMA SteadyRest ==
    ASSUME NEW c \in Processes, proc'[c].at \in Resting, Orphans' = {},
           proc'[c].at = "done" => proc'[c].cmd \notin {"open", "pick", "add"}
    PROVE  Steady(c)'
  BY DEF Resting, Steady, Filling, Doomed, Picking

(* How the record of a command changes.                                    *)
LEMMA RecordGoto ==
    ASSUME WorkBase, NEW c \in Processes, NEW place \in Places, Goto(c, place)
    PROVE  \E r \in Commands :
              /\ Becomes(c, r) /\ proc'[c] = r /\ r.at = place
              /\ r.cmd = proc[c].cmd /\ r.want = proc[c].want /\ r.keys = proc[c].keys
              /\ r.job = proc[c].job /\ r.focus = proc[c].focus /\ r.pane = proc[c].pane
              /\ r.anchor = proc[c].anchor
  <1> DEFINE r == [proc[c] EXCEPT !.at = place]
  <1>1. proc[c] \in Commands /\ proc \in [Processes -> Commands]
    BY DEF WorkBase, WorkTypes
  <1>2. /\ r \in Commands /\ r.at = place
        /\ r.cmd = proc[c].cmd /\ r.want = proc[c].want /\ r.keys = proc[c].keys
        /\ r.job = proc[c].job /\ r.focus = proc[c].focus /\ r.pane = proc[c].pane
        /\ r.anchor = proc[c].anchor
    BY <1>1 DEF Commands
  <1>3. Becomes(c, r)
    BY DEF Goto
  <1> HIDE DEF r
  <1>4. proc'[c] = r
    BY <1>1, <1>3 DEF Becomes
  <1> QED BY <1>2, <1>3, <1>4

LEMMA RecordKills ==
    ASSUME NEW old \in Commands, NEW ids \in SUBSET Nat, NEW next \in Places
    PROVE  LET r == WithKills(old, ids, next)
           IN  /\ r \in Commands
               /\ r.at = IF ids = {} THEN next ELSE "kill"
               /\ r.kills = ids /\ r.next = next
               /\ r.cmd = old.cmd /\ r.want = old.want /\ r.keys = old.keys
               /\ r.job = old.job /\ r.focus = old.focus /\ r.pane = old.pane
               /\ r.anchor = old.anchor
  <1> DEFINE place == IF ids = {} THEN next ELSE "kill"
  <1>1. place \in Places
    BY DEF Places
  <1>2. WithKills(old, ids, next) = [old EXCEPT !.at = place, !.kills = ids, !.next = next]
    BY DEF WithKills
  <1> HIDE DEF place
  <1>3. /\ WithKills(old, ids, next) \in Commands
        /\ WithKills(old, ids, next).at = place
        /\ WithKills(old, ids, next).kills = ids /\ WithKills(old, ids, next).next = next
    BY <1>1, <1>2 DEF Commands
  <1>4. LET r == WithKills(old, ids, next)
        IN  /\ r.cmd = old.cmd /\ r.want = old.want /\ r.keys = old.keys
            /\ r.job = old.job /\ r.focus = old.focus /\ r.pane = old.pane
            /\ r.anchor = old.anchor
    BY <1>2 DEF Commands
  <1> QED BY <1>3, <1>4 DEF place

LEMMA BecomesThat ==
    ASSUME WorkBase, NEW c \in Processes, NEW r, Becomes(c, r)
    PROVE  proc'[c] = r
  BY DEF WorkBase, WorkTypes, Becomes

LEMMA BeginKept ==
    ASSUME WorkBase, NEW c \in Processes, Command(c)
    PROVE  alone'[c] => Steady(c)'
  <1>1. PICK cmd \in Names, rec \in Commands :
              /\ Begin(c, cmd, rec) /\ Entry(cmd, rec.at) /\ rec.anchor = NoPane
              /\ rec.at = "gather" => rec.job # NoJob
              /\ cmd = "open" => created = 0 /\ \A d \in Processes : proc[d].at = "idle"
              /\ cmd # "open" => Alive
    BY Beginnings
  <1> DEFINE r == [rec EXCEPT !.cmd = cmd]
  <1>2. r \in Commands /\ r.at = rec.at /\ r.cmd = cmd
    BY DEF Commands
  <1>3. Becomes(c, r) /\ panes' = panes /\ alone' = [alone EXCEPT ![c] = Orphans = {}]
    BY <1>1 DEF Begin
  <1> HIDE DEF r
  <1>4. proc'[c] = r
    BY <1>3, BecomesThat
  <1>5. SUFFICES ASSUME alone'[c] PROVE Steady(c)'
    OBVIOUS
  <1>6. Orphans' = {} /\ Ids' = Ids
    <2>1. alone'[c] = (Orphans = {})
      BY <1>3 DEF WorkBase, WorkTypes
    <2> QED BY <1>3, <1>5, <2>1, SamePanes
  <1>7. CASE r.at \in {"clear", "gather"}
    <2>1. Ids # {}
      BY <1>1, <1>2, <1>7 DEF Entry, Alive
    <2> QED BY <1>4, <1>6, <1>7, <2>1 DEF Steady, Filling, Doomed, Picking
  <1>8. CASE r.at \notin {"clear", "gather"}
    <2>1. r.at \in Resting /\ r.at # "done"
      BY <1>1, <1>2, <1>8 DEF Entry, Resting
    <2> QED BY <1>4, <1>6, <2>1, SteadyRest
  <1> QED BY <1>7, <1>8

LEMMA KillOneKept ==
    ASSUME WorkBase, NEW c \in Processes, alone[c] => Steady(c), KillOne(c)
    PROVE  WorkBase' /\ (alone'[c] => Steady(c)')
  <1>0. PICK old : old = proc[c]
    OBVIOUS
  <1>1. PICK p \in old.kills :
            /\ Makes(c, Without({p}))
            /\ Becomes(c, WithKills(old, old.kills \ {p}, old.next))
    BY <1>0 DEF KillOne
  <1>01. PICK r : r = WithKills(old, old.kills \ {p}, old.next)
    OBVIOUS
  <1>2. old \in Commands /\ old.at = "kill" /\ Fits(old) /\ created' = created
    BY <1>0 DEF WorkBase, WorkTypes, KillOne, At
  <1>3. old.kills \in SUBSET Nat /\ old.next \in Places
    BY <1>2 DEF Commands
  <1>4. /\ r \in Commands
        /\ r.at = IF old.kills \ {p} = {} THEN old.next ELSE "kill"
        /\ r.kills = old.kills \ {p} /\ r.next = old.next
        /\ r.cmd = old.cmd /\ r.want = old.want /\ r.keys = old.keys
        /\ r.focus = old.focus /\ r.anchor = old.anchor
    BY <1>2, <1>3, <1>01, RecordKills
  <1>5. proc'[c] = r /\ Becomes(c, r)
    BY <1>1, <1>01, BecomesThat
  <1>6. Fits(r)
    BY <1>2, <1>4 DEF Fits
  <1>7. old.next \in {"read", "split", "done", "last"}
    BY <1>2 DEF Fits
  <1>8. /\ Ids' = Ids \ {p} /\ Details' = Details \ {p} /\ Listed' = Listed \ {p}
        /\ Orphans' \subseteq (Orphans \cup DetailsOf(p)) \ {p}
        /\ \A q : DetailsOf(q)' = DetailsOf(q) \ {p}
        /\ \A q \in Ids' : panes'[q] = panes[q]
        /\ \A S : Shown(S)' = Shown(S \ {p})
    BY <1>1, KillEffect, MakesPanes
  <1>9. WorkBase'
    BY <1>0, <1>1, <1>2, <1>4, <1>5, <1>6, <1>7, MakesPanes, WithoutShrinks, PlainStep
  <1>10. SUFFICES ASSUME alone'[c] PROVE Steady(c)'
    BY <1>9
  <1>11. Steady(c) /\ Doomed(c) = old.kills /\ Doomed(c)' = r.kills
    BY <1>0, <1>1, <1>2, <1>4, <1>5, <1>10, MakesPanes DEF Doomed
  <1>12. /\ Orphans' \subseteq r.kills
         /\ \A q \in r.kills : DetailsOf(q)' \subseteq r.kills
    BY <1>4, <1>8, <1>11 DEF Steady
  <1>13. old.next = "last" => DetailsOf(old.focus)' \subseteq r.kills
    <2>1. old.next = "last" => DetailsOf(old.focus) \subseteq old.kills
      BY <1>0, <1>2, <1>11 DEF Steady
    <2>2. DetailsOf(old.focus)' = DetailsOf(old.focus) \ {p}
      BY <1>8
    <2> QED BY <1>4, <2>1, <2>2
  <1>14. old.next = "read" => Details' \subseteq r.kills
    BY <1>0, <1>2, <1>4, <1>8, <1>11 DEF Steady
  <1>15. r.cmd \in {"pick", "add"} => Ids' \ r.kills # {}
    BY <1>0, <1>2, <1>4, <1>8, <1>11 DEF Steady, Picking
  <1>16. ASSUME old.next = "split" PROVE Filled(c)'
    <2>1. Filled(c)
      BY <1>0, <1>2, <1>11, <1>16 DEF Steady, Filling
    <2>2. Kept(c)' = Kept(c) /\ p \notin Kept(c)
      BY <1>0, <1>4, <1>8, <1>11 DEF Kept
    <2>3. Shown(Kept(c))' = Shown(Kept(c))
      <3>1. Kept(c) \ {p} = Kept(c)
        BY <2>2
      <3> QED BY <1>8, <2>2, <3>1
    <2>4. \A q \in Kept(c) : panes'[q] = panes[q]
      BY <1>8, <2>2 DEF Kept, Listed
    <2> QED BY <1>0, <1>2, <1>4, <1>5, <1>7, <1>8, <1>16, <2>1, <2>2, <2>3, <2>4 DEF Filled
  <1>17. ~(r.cmd = "open") /\ r.at \in {"kill", "read", "split", "done", "last"}
    BY <1>2, <1>4, <1>7 DEF Fits
  <1>18. CASE r.kills # {}
    <2>1. r.at = "kill"
      BY <1>4, <1>18
    <2> QED BY <1>4, <1>5, <1>11, <1>12, <1>13, <1>14, <1>15, <1>16, <1>17, <2>1
            DEF Steady, Filling
  <1>19. CASE r.kills = {}
    <2>1. r.at = old.next /\ Doomed(c)' = {}
      BY <1>4, <1>11, <1>19
    <2>2. r.at = "done" => r.cmd \notin {"pick", "add"}
      BY <1>2, <1>4, <2>1 DEF Fits
    <2> QED BY <1>4, <1>5, <1>12, <1>13, <1>14, <1>15, <1>16, <1>17, <1>19, <2>1, <2>2
            DEF Steady, Filling
  <1> QED BY <1>18, <1>19

LEMMA KillFocusKept ==
    ASSUME WorkBase, NEW c \in Processes, alone[c] => Steady(c), KillFocus(c)
    PROVE  WorkBase' /\ (alone'[c] => Steady(c)')
  <1>0. PICK old : old = proc[c]
    OBVIOUS
  <1>1. /\ old \in Commands /\ old.at = "last" /\ Fits(old) /\ created' = created
        /\ Makes(c, Without({old.focus})) /\ Goto(c, "done") /\ "done" \in Places
    BY <1>0 DEF WorkBase, WorkTypes, KillFocus, At, Places
  <1>2. PICK r \in Commands : Becomes(c, r) /\ proc'[c] = r /\ r.at = "done" /\ r.cmd = old.cmd
    BY <1>0, <1>1, RecordGoto
  <1>3. Fits(r) /\ r.cmd \notin {"open", "pick", "add"}
    BY <1>1, <1>2 DEF Fits
  <1>4. WorkBase'
    BY <1>0, <1>1, <1>2, <1>3, MakesPanes, WithoutShrinks, PlainStep
  <1>5. SUFFICES ASSUME alone'[c] PROVE Steady(c)'
    BY <1>4
  <1>6. Orphans = {} /\ DetailsOf(old.focus) = {}
    <2>1. Steady(c)
      BY <1>1, <1>5, MakesPanes
    <2> QED BY <1>0, <1>1, <2>1 DEF Steady, Doomed
  <1>7. Orphans' = {}
    BY <1>1, <1>6, KillEffect, MakesPanes
  <1> QED BY <1>2, <1>3, <1>7, SteadyRest DEF Resting

LEMMA NewSessionKept ==
    ASSUME WorkBase, NEW c \in Processes, NewSession(c)
    PROVE  WorkBase' /\ Steady(c)'
  <1>0. PICK old : old = proc[c]
    OBVIOUS
  <1>1. PICK j \in old.want :
          /\ Makes(c, With(1, Unlabelled))
          /\ Becomes(c, [old EXCEPT !.at = "label", !.pane = 1, !.job = j, !.keys = {j}])
    BY <1>0 DEF NewSession
  <1>2. /\ old \in Commands /\ old.at = "new" /\ Fits(old) /\ InHand(c)
        /\ old.cmd = "open" /\ old.anchor = NoPane
    BY <1>0 DEF WorkBase, WorkTypes, NewSession, At, Fits
  <1>3. created = 0 /\ created' = 1 /\ Ids = {}
    BY <1>0, <1>2 DEF NewSession, InHand, WorkBase, WorkTypes
  <1>4. PICK r : r = [old EXCEPT !.at = "label", !.pane = 1, !.job = j, !.keys = {j}]
    OBVIOUS
  <1>5. /\ r \in Commands /\ r.at = "label" /\ r.pane = 1 /\ r.job = j /\ r.keys = {j}
        /\ r.cmd = "open" /\ r.want = old.want /\ r.anchor = NoPane
        /\ j \in Jobs
    BY <1>2, <1>4 DEF Commands, Places
  <1>6. Becomes(c, r) /\ proc'[c] = r
    BY <1>1, <1>4, BecomesThat
  <1>7. Grows
    BY <1>1, <1>3, MakesPanes, WithGrows
  <1>8. Fits(r) /\ r.job # NoJob
    BY <1>5, WorkspaceAssumption DEF Fits
  <1>9. WorkBase'
    <2>1. \A d \in Processes \ {c} : proc[d].at # "new"
      BY <1>0, <1>2, NobodyNew
    <2>2. alone' \in [Processes -> BOOLEAN]
      BY <1>1, MakesPanes
    <2>3. r.pane = created + 1 /\ r.at \notin {"detail", "pair", "new"}
      BY <1>3, <1>5
    <2> QED BY <1>5, <1>6, <1>7, <1>8, <2>1, <2>2, <2>3, BaseStep
  <1>10. Listed = {} /\ Details = {} /\ Orphans = {}
    BY <1>3 DEF Listed, Details, Orphans
  <1>11. Listed' = {} /\ Details' = {} /\ Orphans' = {} /\ Ids' = {1}
    BY <1>3, <1>7, <1>10, GrowEffect
  <1>12. Doomed(c)' = {} /\ Kept(c)' = {} /\ Shown(Kept(c))' = {}
    BY <1>5, <1>6, <1>11 DEF Doomed, Kept, Shown
  <1>13. Filled(c)'
    BY <1>1, <1>5, <1>6, <1>11, <1>12 DEF Filled, NoPane
  <1>14. Counted(c)'
    <2>1. IsFiniteSet({}) /\ Cardinality({}) = 0
      BY FS_EmptySet
    <2>2. IsFiniteSet({j}) /\ Cardinality({j}) = 1
      BY FS_Singleton
    <2> QED BY <1>5, <1>6, <1>11, <2>1, <2>2 DEF Counted
  <1> QED BY <1>5, <1>6, <1>9, <1>11, <1>12, <1>13, <1>14 DEF Steady

LEMMA LabelKept ==
    ASSUME WorkBase, NEW c \in Processes, alone[c] => Steady(c), Label(c)
    PROVE  WorkBase' /\ (alone'[c] => Steady(c)')
  <1>0. PICK old : old = proc[c]
    OBVIOUS
  <1>1. /\ old \in Commands /\ old.at = "label" /\ Fits(old) /\ created' = created
        /\ old.cmd \in {"open", "pick", "add"}
        /\ old.job # NoJob
    BY <1>0 DEF WorkBase, WorkTypes, Label, At, Fits, InHand
  <1>2. PICK place \in {"setup", "split"} :
            Goto(c, place) /\ (place = "setup" => old.cmd = "open" /\ old.pane = 1)
    BY <1>0 DEF Label
  <1>3. PICK r \in Commands :
            /\ Becomes(c, r) /\ proc'[c] = r /\ r.at = place /\ r.cmd = old.cmd
            /\ r.want = old.want /\ r.keys = old.keys /\ r.anchor = old.anchor
    BY <1>0, <1>2, RecordGoto DEF Places
  <1>4. Fits(r)
    BY <1>1, <1>2, <1>3 DEF Fits
  <1>5. Makes(c, IF old.pane \in Ids THEN With(old.pane, [job |-> old.job, parent |-> NoPane])
                 ELSE panes)
    BY <1>0 DEF Label
  <1>6. old.pane \in Ids => Marks(c)
    BY <1>0, <1>1, <1>5, MakesPanes, WithMarks, SameShrinks DEF Marks, Ids
  <1>7. old.pane \notin Ids => Shrinks
    BY <1>1, <1>5, MakesPanes, SameShrinks
  <1>8. WorkBase'
    BY <1>0, <1>1, <1>2, <1>3, <1>4, <1>5, <1>6, <1>7, MakesPanes, PlainStep
  <1>9. SUFFICES ASSUME alone'[c] PROVE Steady(c)'
    BY <1>8
  <1>10. /\ Orphans = {} /\ Filled(c) /\ old.pane \in Ids /\ Details = {}
         /\ old.cmd = "open" => Counted(c)
         /\ Kept(c) = Listed
    <2>1. Steady(c)
      BY <1>5, <1>9, MakesPanes
    <2>2. Filled(c)
      BY <1>0, <1>1, <2>1 DEF Steady, Filling
    <2> QED BY <1>0, <1>1, <2>1, <2>2 DEF Steady, Filling, Filled, Doomed, Kept
  <1>11. /\ Ids' = Ids /\ old.pane \notin Listed /\ Listed' = Listed \cup {old.pane}
         /\ Details' = {} /\ Orphans' = {}
         /\ \A p \in Ids \ {old.pane} : panes'[p] = panes[p]
         /\ panes'[old.pane].job = old.job
    BY <1>0, <1>1, <1>6, <1>10, MarkEffect
  <1>12. Doomed(c)' = {} /\ Kept(c)' = Listed \cup {old.pane}
    BY <1>2, <1>3, <1>11 DEF Doomed, Kept
  <1>13. Filled(c)'
    <2>1. Shown(Kept(c))' = Shown(Listed) \cup {old.job}
      BY <1>10, <1>11, <1>12 DEF Shown, Listed
    <2>2. Shown(Listed) \cup {old.job} = old.keys
      BY <1>0, <1>1, <1>10 DEF Filled
    <2>3. \A p \in Kept(c)' : panes'[p].job \in old.want \/ p = old.anchor
      BY <1>0, <1>1, <1>10, <1>11, <1>12 DEF Filled, Listed
    <2>4. old.anchor # NoPane =>
             old.anchor \in Kept(c)' /\ panes'[old.anchor].job \notin old.want
      <3>1. old.anchor # NoPane => old.anchor \in Listed /\ panes[old.anchor].job \notin old.want
        BY <1>0, <1>10 DEF Filled
      <3> QED BY <1>11, <1>12, <3>1 DEF Listed
    <2> QED BY <1>2, <1>3, <1>11, <2>1, <2>2, <2>3, <2>4 DEF Filled
  <1>14. old.cmd = "open" => Counted(c)'
    <2> SUFFICES ASSUME old.cmd = "open" PROVE Counted(c)'
      OBVIOUS
    <2>1. /\ old.anchor = NoPane /\ IsFiniteSet(Listed) /\ IsFiniteSet(old.keys)
          /\ Cardinality(old.keys) = Cardinality(Listed) + 1
      BY <1>0, <1>1, <1>10 DEF Counted
    <2>2. IsFiniteSet(Listed') /\ Cardinality(Listed') = Cardinality(Listed) + 1
      BY <1>11, <2>1, FS_AddElement
    <2>3. Cardinality(Listed') \in Nat
      BY <2>2, FS_CardinalityType
    <2> QED BY <1>2, <1>3, <2>1, <2>2, <2>3 DEF Counted
  <1>15. place = "setup" => Listed' = {1}
    BY <1>0, <1>1, <1>2, <1>10, <1>11 DEF Counted
  <1>16. Ids' # {}
    BY <1>10, <1>11
  <1> QED BY <1>2, <1>3, <1>11, <1>12, <1>13, <1>14, <1>15, <1>16 DEF Steady

LEMMA SetupKept ==
    ASSUME WorkBase, NEW c \in Processes, alone[c] => Steady(c), Setup(c)
    PROVE  WorkBase' /\ (alone'[c] => Steady(c)')
  <1>0. PICK old : old = proc[c]
    OBVIOUS
  <1>1. /\ old \in Commands /\ old.at = "setup" /\ Fits(old) /\ old.cmd = "open"
        /\ panes' = panes /\ created' = created /\ alone' = alone
    BY <1>0 DEF WorkBase, WorkTypes, Setup, At, Fits, Looks
  <1>2. PICK place \in {"respawn", "broken"} : Goto(c, place)
    BY DEF Setup
  <1>3. PICK r \in Commands :
            /\ Becomes(c, r) /\ proc'[c] = r /\ r.at = place /\ r.cmd = old.cmd
            /\ r.want = old.want /\ r.keys = old.keys /\ r.anchor = old.anchor
    BY <1>0, <1>2, RecordGoto DEF Places
  <1>4. WorkBase'
    <2>1. Fits(r) /\ alone' \in [Processes -> BOOLEAN]
      BY <1>1, <1>2, <1>3 DEF Fits, WorkBase, WorkTypes
    <2> QED BY <1>0, <1>1, <1>2, <1>3, <2>1, SameShrinks, PlainStep
  <1>5. SUFFICES ASSUME alone'[c] PROVE Steady(c)'
    BY <1>4
  <1>6. /\ Orphans = {} /\ Filled(c) /\ Counted(c) /\ Listed = {1} /\ Details = {}
        /\ Doomed(c) = {} /\ Kept(c) = Listed
    BY <1>0, <1>1, <1>5 DEF Steady, Filling, Doomed, Kept
  <1>7. /\ Ids' = Ids /\ Listed' = {1} /\ Details' = {} /\ Orphans' = {} /\ Doomed(c)' = {}
        /\ Kept(c)' = Listed /\ Shown(Kept(c))' = Shown(Listed)
    BY <1>1, <1>2, <1>3, <1>6, SamePanes DEF Doomed, Kept
  <1>8. Filled(c)' /\ Counted(c)'
    BY <1>0, <1>1, <1>2, <1>3, <1>6, <1>7 DEF Filled, Counted
  <1> QED BY <1>1, <1>2, <1>3, <1>7, <1>8 DEF Steady

(* tmux refused a pane: open kills its session, reconcile leaves what is.  *)
LEMMA RefusalKept ==
    ASSUME WorkBase, NEW c \in Processes, alone[c] => Steady(c), created' = created,
           proc[c].at \in {"respawn", "split"}, Makes(c, AfterRefusal(c)), Goto(c, "failed")
    PROVE  WorkBase' /\ (alone'[c] => Steady(c)')
  <1>0. PICK old : old = proc[c]
    OBVIOUS
  <1>1. /\ old \in Commands /\ Fits(old) /\ old.cmd \in {"open", "pick", "add"}
        /\ old.cmd # "open" => old.at = "split"
    BY <1>0 DEF WorkBase, WorkTypes, Fits
  <1>2. PICK r \in Commands :
            Becomes(c, r) /\ proc'[c] = r /\ r.at = "failed" /\ r.cmd = old.cmd
    BY <1>0, RecordGoto DEF Places
  <1>3. Fits(r)
    BY <1>2 DEF Fits
  <1>4. CASE old.cmd = "open"
    <2>1. Shrinks /\ Ids' = {}
      BY <1>0, <1>4, MakesPanes, EmptyShrinks DEF AfterRefusal
    <2>2. WorkBase'
      BY <1>0, <1>2, <1>3, <2>1, MakesPanes, PlainStep
    <2>3. Orphans' = {} /\ ~Alive'
      BY <2>1 DEF Orphans, Details, Alive
    <2> QED BY <1>2, <1>4, <2>2, <2>3 DEF Steady, Filling, Doomed
  <1>5. CASE old.cmd # "open"
    <2>1. panes' = panes
      BY <1>0, <1>5, MakesPanes DEF AfterRefusal
    <2>2. WorkBase'
      BY <1>0, <1>2, <1>3, <2>1, MakesPanes, SameShrinks, PlainStep
    <2>3. SUFFICES ASSUME alone'[c] PROVE Steady(c)'
      BY <2>2
    <2>4. Orphans = {} /\ Ids # {}
      <3>1. Steady(c)
        BY <2>3, MakesPanes
      <3> QED BY <1>0, <1>1, <1>5, <3>1 DEF Steady, Doomed, Picking
    <2>5. Orphans' = {} /\ Ids' # {}
      BY <2>1, <2>4, SamePanes
    <2> QED BY <1>1, <1>2, <1>5, <2>5 DEF Steady, Filling, Doomed, Picking
  <1> QED BY <1>4, <1>5

LEMMA RespawnKept ==
    ASSUME WorkBase, NEW c \in Processes, alone[c] => Steady(c), Respawn(c)
    PROVE  WorkBase' /\ (alone'[c] => Steady(c)')
  <1>0. PICK old : old = proc[c]
    OBVIOUS
  <1>1. /\ old \in Commands /\ old.at = "respawn" /\ Fits(old) /\ old.cmd = "open"
    BY <1>0 DEF WorkBase, WorkTypes, Respawn, At, Fits
  <1>2. CASE Goto(c, "split") /\ Looks
    <2>1. panes' = panes /\ created' = created /\ alone' = alone
      BY <1>2 DEF Looks
    <2>2. PICK r \in Commands :
              /\ Becomes(c, r) /\ proc'[c] = r /\ r.at = "split" /\ r.cmd = old.cmd
              /\ r.want = old.want /\ r.keys = old.keys /\ r.anchor = old.anchor
      BY <1>0, <1>2, RecordGoto DEF Places
    <2>3. WorkBase'
      <3>1. Fits(r) /\ alone' \in [Processes -> BOOLEAN]
        BY <1>1, <2>1, <2>2 DEF Fits, WorkBase, WorkTypes
      <3> QED BY <1>0, <1>1, <2>1, <2>2, <3>1, SameShrinks, PlainStep
    <2>4. SUFFICES ASSUME alone'[c] PROVE Steady(c)'
      BY <2>3
    <2>5. /\ Orphans = {} /\ Filled(c) /\ Counted(c) /\ Details = {}
          /\ Doomed(c) = {} /\ Kept(c) = Listed
      BY <1>0, <1>1, <2>1, <2>4 DEF Steady, Filling, Doomed, Kept
    <2>6. /\ Ids' = Ids /\ Listed' = Listed /\ Details' = {} /\ Orphans' = {} /\ Doomed(c)' = {}
          /\ Kept(c)' = Listed /\ Shown(Kept(c))' = Shown(Listed)
      BY <2>1, <2>2, <2>5, SamePanes DEF Doomed, Kept
    <2>7. Filled(c)' /\ Counted(c)'
      BY <1>0, <1>1, <2>1, <2>2, <2>5, <2>6 DEF Filled, Counted
    <2> QED BY <1>1, <2>2, <2>6, <2>7 DEF Steady
  <1>3. CASE created' = created /\ Makes(c, AfterRefusal(c)) /\ Goto(c, "failed")
    BY <1>0, <1>1, <1>3, RefusalKept
  <1> QED BY <1>2, <1>3 DEF Respawn

LEMMA SplitKept ==
    ASSUME WorkBase, NEW c \in Processes, alone[c] => Steady(c), Split(c)
    PROVE  WorkBase' /\ (alone'[c] => Steady(c)')
  <1>0. PICK old : old = proc[c]
    OBVIOUS
  <1>1. /\ old \in Commands /\ old.at = "split" /\ Fits(old)
        /\ old.cmd \in {"open", "pick", "add"}
    BY <1>0 DEF WorkBase, WorkTypes, Split, At, Fits
  <1>2. CASE \E j \in old.want \ old.keys : NewPane(c, j, "label")
    <2>1. PICK j \in old.want \ old.keys : NewPane(c, j, "label")
      BY <1>2
    <2>2. PICK r : r = [old EXCEPT !.at = "label", !.pane = created + 1, !.job = j,
                                   !.keys = @ \cup {j}]
      OBVIOUS
    <2>3. created \in Nat /\ created' = created + 1 /\ Alive
      BY <2>1 DEF NewPane, Room, WorkBase, WorkTypes
    <2>4. /\ r \in Commands /\ r.at = "label" /\ r.pane = created + 1 /\ r.job = j
          /\ r.keys = old.keys \cup {j} /\ r.cmd = old.cmd /\ r.want = old.want
          /\ r.anchor = old.anchor /\ j \in Jobs
      <3>1. j \in Jobs /\ old.keys \in SUBSET Jobs /\ created + 1 \in Nat /\ "label" \in Places
        BY <1>1, <2>3 DEF Commands, Places
      <3>2. r = [old EXCEPT !.at = "label", !.pane = created + 1, !.job = j,
                            !.keys = old.keys \cup {j}]
        BY <2>2
      <3>3. old.keys \cup {j} \in SUBSET Jobs
        BY <3>1
      <3> QED BY <1>1, <3>1, <3>2, <3>3 DEF Commands
    <2>5. Becomes(c, r) /\ proc'[c] = r
      BY <1>0, <2>1, <2>2, BecomesThat DEF NewPane
    <2>6. Grows /\ Makes(c, With(created + 1, Unlabelled))
      BY <2>1, MakesPanes, WithGrows DEF NewPane
    <2>7. WorkBase'
      <3>1. Fits(r) /\ r.job # NoJob
        BY <1>1, <2>4, WorkspaceAssumption DEF Fits
      <3>2. \A d \in Processes \ {c} : proc[d].at # "new"
        BY <2>3, NobodyNew
      <3> QED BY <2>4, <2>5, <2>6, <3>1, <3>2, MakesPanes, BaseStep
    <2>8. SUFFICES ASSUME alone'[c] PROVE Steady(c)'
      BY <2>7
    <2>9. Steady(c)
      BY <2>6, <2>8, MakesPanes
    <2>10. /\ Orphans = {} /\ Filled(c) /\ Details = {} /\ Doomed(c) = {} /\ Kept(c) = Listed
           /\ old.cmd = "open" => Counted(c)
      BY <1>0, <1>1, <2>9 DEF Steady, Filling, Filled, Doomed, Kept
    <2>11. /\ Ids' = Ids \cup {created + 1} /\ created + 1 \notin Ids
           /\ Details' = {} /\ Listed' = Listed /\ Orphans' = {}
           /\ \A p \in Ids : panes'[p] = panes[p]
           /\ panes'[created + 1] = Unlabelled
           /\ Shown(Listed)' = Shown(Listed)
      <3>1. Listed \subseteq Ids
        BY DEF Listed
      <3> QED BY <2>6, <2>10, <3>1, GrowEffect DEF Grows
    <2>12. Doomed(c)' = {} /\ Kept(c)' = Listed /\ Shown(Kept(c))' = Shown(Listed)
      BY <2>4, <2>5, <2>11 DEF Doomed, Kept
    <2>13. Filled(c)'
      <3>1. /\ Shown(Listed) = old.keys
            /\ \A p \in Listed : panes[p].job \in old.want \/ p = old.anchor
            /\ old.anchor # NoPane =>
                  old.anchor \in Listed /\ panes[old.anchor].job \notin old.want
        BY <1>0, <1>1, <2>10 DEF Filled
      <3> QED BY <2>4, <2>5, <2>11, <2>12, <3>1 DEF Filled, Listed
    <2>14. old.cmd = "open" => Counted(c)'
      <3> SUFFICES ASSUME old.cmd = "open" PROVE Counted(c)'
        OBVIOUS
      <3>1. /\ old.anchor = NoPane /\ IsFiniteSet(Listed) /\ IsFiniteSet(old.keys)
            /\ Cardinality(old.keys) = Cardinality(Listed)
        BY <1>0, <1>1, <2>10, FS_CardinalityType DEF Counted
      <3>2. IsFiniteSet(r.keys) /\ Cardinality(r.keys) = Cardinality(old.keys) + 1
        BY <2>4, <3>1, FS_AddElement
      <3>3. r.pane # 1
        <4>1. created # 0
          <5>1. PICK p \in Ids : p \in 1..created
            BY <2>3 DEF WorkBase, WorkTypes, Alive
          <5> QED BY <5>1
        <4> QED BY <2>3, <2>4, <4>1
      <3> QED BY <2>4, <2>5, <2>11, <3>1, <3>2, <3>3 DEF Counted
    <2> QED BY <2>4, <2>5, <2>11, <2>12, <2>13, <2>14 DEF Steady
  <1>3. CASE created' = created /\ Makes(c, AfterRefusal(c)) /\ Goto(c, "failed")
    BY <1>0, <1>1, <1>3, RefusalKept
  <1> QED BY <1>0, <1>2, <1>3 DEF Split

LEMMA AllSplitKept ==
    ASSUME WorkBase, NEW c \in Processes, alone[c] => Steady(c), AllSplit(c)
    PROVE  WorkBase' /\ (alone'[c] => Steady(c)')
  <1>0. PICK old : old = proc[c]
    OBVIOUS
  <1>1. /\ old \in Commands /\ old.at = "split" /\ Fits(old) /\ created' = created
        /\ old.cmd \in {"open", "pick", "add"} /\ old.want \subseteq old.keys
        /\ Makes(c, Without({old.anchor})) /\ Goto(c, "done")
    BY <1>0 DEF WorkBase, WorkTypes, AllSplit, At, Fits
  <1>2. PICK r \in Commands :
            /\ Becomes(c, r) /\ proc'[c] = r /\ r.at = "done" /\ r.cmd = old.cmd
            /\ r.want = old.want
    BY <1>0, <1>1, RecordGoto DEF Places
  <1>3. WorkBase'
    <2>1. Fits(r)
      BY <1>2 DEF Fits
    <2> QED BY <1>0, <1>1, <1>2, <2>1, MakesPanes, WithoutShrinks, PlainStep
  <1>4. SUFFICES ASSUME alone'[c] PROVE Steady(c)'
    BY <1>3
  <1>5. /\ Orphans = {} /\ Filled(c) /\ Details = {} /\ Doomed(c) = {} /\ Kept(c) = Listed
        /\ old.cmd = "open" => Counted(c)
    <2>1. Steady(c)
      BY <1>1, <1>4, MakesPanes
    <2> QED BY <1>0, <1>1, <2>1 DEF Steady, Filling, Filled, Doomed, Kept
  <1>6. /\ Ids' = Ids \ {old.anchor} /\ Details' = {} /\ Listed' = Listed \ {old.anchor}
        /\ Orphans' = {} /\ \A S : Shown(S)' = Shown(S \ {old.anchor})
    BY <1>1, <1>5, KillEffect, MakesPanes DEF Details, Orphans
  <1>7. LogPanes = Listed /\ LogPanes' = Listed \ {old.anchor}
    BY <1>5, <1>6 DEF LogPanes
  <1>8. /\ Shown(Listed) = old.keys
        /\ \A p \in Listed : panes[p].job \in old.want \/ p = old.anchor
        /\ old.anchor # NoPane => old.anchor \in Listed /\ panes[old.anchor].job \notin old.want
    BY <1>0, <1>1, <1>5 DEF Filled
  <1>9. Listed \subseteq Ids /\ NoPane \notin Ids
    BY DEF Listed, WorkBase, WorkTypes, NoPane
  <1>10. Shown(LogPanes)' = old.want
    <2>1. Shown(LogPanes)' = Shown(Listed \ {old.anchor})
      <3>1. (Listed \ {old.anchor}) \ {old.anchor} = Listed \ {old.anchor}
        OBVIOUS
      <3> QED BY <1>6, <1>7, <3>1
    <2>2. \A j \in old.want : \E p \in Listed \ {old.anchor} : panes[p].job = j
      <3> SUFFICES ASSUME NEW j \in old.want
                   PROVE  \E p \in Listed \ {old.anchor} : panes[p].job = j
        OBVIOUS
      <3>1. PICK p \in Listed : panes[p].job = j
        BY <1>1, <1>8 DEF Shown
      <3>2. p # NoPane
        BY <1>9
      <3> QED BY <1>8, <3>1, <3>2
    <2>3. \A p \in Listed \ {old.anchor} : panes[p].job \in old.want
      BY <1>8
    <2>4. Shown(Listed \ {old.anchor}) = {panes[p].job : p \in Listed \ {old.anchor}}
      BY <1>9 DEF Shown
    <2>5. {panes[p].job : p \in Listed \ {old.anchor}} = old.want
      BY <2>2, <2>3
    <2> QED BY <2>1, <2>4, <2>5
  <1>11. old.cmd = "open" => Cardinality(LogPanes)' = Cardinality(old.want)
    <2> SUFFICES ASSUME old.cmd = "open" PROVE Cardinality(LogPanes)' = Cardinality(old.want)
      OBVIOUS
    <2>1. /\ old.anchor = NoPane /\ IsFiniteSet(Listed)
          /\ Cardinality(old.keys) = Cardinality(Listed)
      BY <1>0, <1>1, <1>5, FS_CardinalityType DEF Counted
    <2>2. LogPanes' = Listed
      BY <1>7, <1>9, <2>1
    <2>3. old.keys = old.want
      BY <1>1, <1>8, <1>9, <2>1 DEF Shown
    <2> QED BY <2>1, <2>2, <2>3
  <1> QED BY <1>1, <1>2, <1>6, <1>10, <1>11 DEF Steady, Filling, Doomed, Picking

LEMMA GatherKept ==
    ASSUME WorkBase, NEW c \in Processes, alone[c] => Steady(c), Gather(c)
    PROVE  WorkBase' /\ (alone'[c] => Steady(c)')
  <1>0. PICK old : old = proc[c]
    OBVIOUS
  <1>1. /\ old \in Commands /\ old.at = "gather" /\ Fits(old) /\ old.job # NoJob
        /\ old.cmd \in {"pick", "add"}
        /\ panes' = panes /\ created' = created /\ alone' = alone
    BY <1>0 DEF WorkBase, WorkTypes, Gather, At, Looks, Fits
  <1>2. Shown(Listed) \cup {old.job} \in SUBSET Jobs
    BY <1>1 DEF Shown, Listed, WorkBase, WorkTypes, Options, Commands
  <1>3. PICK r : r = [old EXCEPT !.at = "clear", !.want = Shown(Listed) \cup {old.job}]
    OBVIOUS
  <1>4. r \in Commands /\ r.at = "clear" /\ r.cmd = old.cmd
    BY <1>1, <1>2, <1>3 DEF Commands, Places
  <1>5. Becomes(c, r) /\ proc'[c] = r
    BY <1>0, <1>3, BecomesThat DEF Gather
  <1>6. WorkBase'
    <2>1. Fits(r) /\ alone' \in [Processes -> BOOLEAN]
      BY <1>1, <1>4 DEF Fits, WorkBase, WorkTypes
    <2> QED BY <1>0, <1>1, <1>4, <1>5, <2>1, SameShrinks, PlainStep
  <1>7. SUFFICES ASSUME alone'[c] PROVE Steady(c)'
    BY <1>6
  <1>8. Orphans = {} /\ Ids # {}
    BY <1>0, <1>1, <1>7 DEF Steady, Doomed, Picking
  <1>9. Orphans' = {} /\ Ids' # {}
    BY <1>1, <1>8, SamePanes
  <1> QED BY <1>4, <1>5, <1>9 DEF Steady, Filling, Doomed

(* A command that only looks and makes a list of panes to kill.            *)
LEMMA ListKept ==
    ASSUME WorkBase, NEW c \in Processes, alone[c] => Steady(c), Looks,
           NEW old \in Commands, old.at # "idle", old.at = proc[c].at,
           NEW ids \in SUBSET Ids, NEW next \in {"read", "split", "done", "last"},
           Becomes(c, WithKills(old, ids, next)),
           next \in {"read", "split"} => old.cmd \in {"pick", "add"},
           next = "done" => old.cmd \in {"gone", "details"},
           next = "last" => old.cmd \in {"close", "leave"},
           alone[c] =>
               /\ Orphans \subseteq ids
               /\ \A p \in ids : DetailsOf(p) \subseteq ids
               /\ next = "last" => DetailsOf(old.focus) \subseteq ids
               /\ next = "read" => Details \subseteq ids
               /\ next = "split" =>
                     /\ Details = {}
                     /\ Shown(Listed \ ids) = old.keys
                     /\ \A p \in Listed \ ids : panes[p].job \in old.want \/ p = old.anchor
                     /\ old.anchor # NoPane =>
                           old.anchor \in Listed \ ids /\ panes[old.anchor].job \notin old.want
               /\ old.cmd \in {"pick", "add"} => Ids \ ids # {}
    PROVE  WorkBase' /\ (alone'[c] => Steady(c)')
  <1>1. panes' = panes /\ created' = created /\ alone' = alone /\ ids \in SUBSET Nat
    BY DEF Looks, WorkBase, WorkTypes
  <1>2. PICK r : r = WithKills(old, ids, next)
    OBVIOUS
  <1>3. /\ r \in Commands /\ r.at = IF ids = {} THEN next ELSE "kill"
        /\ r.kills = ids /\ r.next = next
        /\ r.cmd = old.cmd /\ r.want = old.want /\ r.keys = old.keys
        /\ r.focus = old.focus /\ r.anchor = old.anchor
    <2>1. next \in Places
      BY DEF Places
    <2> QED BY <1>1, <1>2, <2>1, RecordKills
  <1>4. Becomes(c, r) /\ proc'[c] = r
    BY <1>2, BecomesThat
  <1>5. WorkBase'
    <2>1. alone' \in [Processes -> BOOLEAN] /\ r.at \notin {"label", "pair", "detail", "new"}
      BY <1>1, <1>3 DEF WorkBase, WorkTypes
    <2>2. Fits(r)
      BY <1>3 DEF Fits
    <2> QED BY <1>1, <1>3, <1>4, <2>1, <2>2, SameShrinks, PlainStep
  <1>6. SUFFICES ASSUME alone'[c] PROVE Steady(c)'
    BY <1>5
  <1>7. /\ Ids' = Ids /\ Details' = Details /\ Listed' = Listed /\ Orphans' = Orphans
        /\ \A p : DetailsOf(p)' = DetailsOf(p)
        /\ Shown(Listed \ ids)' = Shown(Listed \ ids)
    BY <1>1, SamePanes
  <1>8. Doomed(c)' = ids
    BY <1>3, <1>4 DEF Doomed
  <1>9. /\ Orphans' \subseteq ids
        /\ \A p \in ids : DetailsOf(p)' \subseteq ids
        /\ next = "last" => DetailsOf(r.focus)' \subseteq ids
        /\ next = "read" => Details' \subseteq ids
        /\ r.cmd \in {"pick", "add"} => Ids' \ ids # {}
    BY <1>1, <1>3, <1>6, <1>7
  <1>10. next = "split" => Filled(c)'
    <2>1. Kept(c)' = Listed \ ids
      BY <1>7, <1>8 DEF Kept
    <2> QED BY <1>1, <1>3, <1>4, <1>6, <1>7, <2>1 DEF Filled
  <1>11. CASE ids = {}
    BY <1>3, <1>4, <1>8, <1>9, <1>10, <1>11 DEF Steady, Filling
  <1>12. CASE ids # {}
    BY <1>3, <1>4, <1>8, <1>9, <1>10, <1>12 DEF Steady, Filling
  <1> QED BY <1>11, <1>12

(* A command that only looks and goes on. *)
LEMMA LookKept ==
    ASSUME WorkBase, NEW c \in Processes, alone[c] => Steady(c), Looks,
           NEW place \in {"last", "failed", "done"}, Goto(c, place), proc[c].at # "idle",
           proc[c].cmd \notin {"open", "pick", "add"},
           place = "last" => proc[c].cmd \in {"details", "close", "leave"},
           alone[c] => Orphans = {} /\ (place = "last" => DetailsOf(proc[c].focus) = {})
    PROVE  WorkBase' /\ (alone'[c] => Steady(c)')
  <1>0. PICK old : old = proc[c]
    OBVIOUS
  <1>1. panes' = panes /\ created' = created /\ alone' = alone
    BY DEF Looks
  <1>2. PICK r \in Commands :
            /\ Becomes(c, r) /\ proc'[c] = r /\ r.at = place /\ r.cmd = old.cmd
            /\ r.focus = old.focus
    BY <1>0, RecordGoto DEF Places
  <1>3. WorkBase'
    <2>1. Fits(r) /\ alone' \in [Processes -> BOOLEAN]
      BY <1>0, <1>1, <1>2 DEF Fits, WorkBase, WorkTypes
    <2> QED BY <1>0, <1>1, <1>2, <2>1, SameShrinks, PlainStep
  <1>4. SUFFICES ASSUME alone'[c] PROVE Steady(c)'
    BY <1>3
  <1>5. Orphans' = {} /\ Doomed(c)' = {}
    BY <1>1, <1>2, <1>4, SamePanes DEF Doomed
  <1>6. place = "last" => DetailsOf(r.focus)' = {}
    <2>1. DetailsOf(r.focus)' = DetailsOf(r.focus)
      BY <1>1, SamePanes
    <2> QED BY <1>0, <1>1, <1>2, <1>4, <2>1
  <1> QED BY <1>0, <1>2, <1>5, <1>6 DEF Steady, Filling

LEMMA CloseDetailsKept ==
    ASSUME WorkBase, NEW c \in Processes, alone[c] => Steady(c), CloseDetails(c)
    PROVE  WorkBase' /\ (alone'[c] => Steady(c)')
  <1>0. PICK old : old = proc[c]
    OBVIOUS
  <1>1. /\ old \in Commands /\ old.at = "clear" /\ old.cmd \in {"pick", "add"}
        /\ Looks /\ Becomes(c, WithKills(old, Details, "read"))
    BY <1>0 DEF WorkBase, WorkTypes, CloseDetails, At, Fits
  <1>2. Details \in SUBSET Ids
    BY DEF Details
  <1>3. ASSUME alone[c]
        PROVE  /\ Orphans \subseteq Details /\ \A p \in Details : DetailsOf(p) \subseteq Details
               /\ Ids \ Details # {}
    <2>1. Orphans = {} /\ Ids # {}
      BY <1>0, <1>1, <1>3 DEF Steady, Doomed, Picking
    <2>2. PICK p \in Ids : TRUE
      BY <2>1
    <2>3. CASE p \notin Details
      BY <2>1, <2>3 DEF DetailsOf
    <2>4. CASE p \in Details
      <3>1. panes[p].parent \in Ids
        BY <2>1, <2>4 DEF Orphans
      <3>2. panes[p].parent \notin Details
        BY <2>4, <3>1 DEF WorkBase, Partners, Details
      <3> QED BY <2>1, <3>1, <3>2 DEF DetailsOf
    <2> QED BY <2>3, <2>4
  <1> QED BY <1>0, <1>1, <1>2, <1>3, ListKept

LEMMA ReadPanesKept ==
    ASSUME WorkBase, NEW c \in Processes, alone[c] => Steady(c), ReadPanes(c)
    PROVE  WorkBase' /\ (alone'[c] => Steady(c)')
  <1>0. PICK old : old = proc[c]
    OBVIOUS
  <1>1. /\ old \in Commands /\ old.at = "read" /\ old.cmd \in {"pick", "add"} /\ Looks
    BY <1>0 DEF WorkBase, WorkTypes, ReadPanes, At, Fits
  <1>2. PICK obsolete : obsolete = {p \in Listed : panes[p].job \notin old.want}
    OBVIOUS
  <1>3. PICK anchor \in Anchors(obsolete) :
            Becomes(c, WithKills([old EXCEPT !.anchor = anchor,
                                             !.keys = Shown(Listed \ (obsolete \ {anchor}))],
                                 obsolete \ {anchor}, "split"))
    BY <1>0, <1>2 DEF ReadPanes
  <1>4. PICK ids : ids = obsolete \ {anchor}
    OBVIOUS
  <1>5. PICK mid : mid = [old EXCEPT !.anchor = anchor, !.keys = Shown(Listed \ ids)]
    OBVIOUS
  <1>6. Listed \subseteq Ids /\ Ids \subseteq Nat /\ NoPane \notin Ids /\ NoPane \in Nat
    BY DEF Listed, WorkBase, WorkTypes, NoPane
  <1>7. anchor \in Nat /\ ids \in SUBSET Ids
    BY <1>2, <1>3, <1>4, <1>6 DEF Anchors
  <1>8. Shown(Listed \ ids) \in SUBSET Jobs
    BY DEF Shown, Listed, WorkBase, WorkTypes, Options
  <1>9. /\ mid \in Commands /\ mid.at = old.at /\ mid.cmd = old.cmd /\ mid.want = old.want
        /\ mid.anchor = anchor /\ mid.keys = Shown(Listed \ ids)
    BY <1>1, <1>5, <1>7, <1>8 DEF Commands
  <1>10. \A p \in Listed \ ids : panes[p].job \in old.want \/ p = anchor
    BY <1>2, <1>4
  <1>11. anchor # NoPane => anchor \in Listed \ ids /\ panes[anchor].job \notin old.want
    BY <1>2, <1>3, <1>4 DEF Anchors
  <1>12. ASSUME alone[c]
         PROVE  /\ Orphans \subseteq ids /\ \A p \in ids : DetailsOf(p) \subseteq ids
                /\ Details = {} /\ Ids \ ids # {}
    <2>1. Orphans = {} /\ Ids # {} /\ Details = {}
      BY <1>0, <1>1, <1>12 DEF Steady, Doomed, Picking
    <2>2. Ids \ ids # {}
      <3>1. CASE obsolete = {}
        BY <1>4, <2>1, <3>1
      <3>2. CASE obsolete # {} /\ obsolete = Listed
        BY <1>3, <1>4, <1>6, <3>2 DEF Anchors
      <3>3. CASE obsolete # Listed
        BY <1>2, <1>4, <1>6, <3>3
      <3> QED BY <3>1, <3>2, <3>3
    <2> QED BY <2>1, <2>2 DEF DetailsOf
  <1>13. Becomes(c, WithKills(mid, ids, "split"))
    BY <1>3, <1>4, <1>5
  <1> QED BY <1>0, <1>1, <1>7, <1>9, <1>10, <1>11, <1>12, <1>13, ListKept

LEMMA GoneKept ==
    ASSUME WorkBase, NEW c \in Processes, alone[c] => Steady(c), Gone(c)
    PROVE  WorkBase' /\ (alone'[c] => Steady(c)')
  <1>0. PICK old : old = proc[c]
    OBVIOUS
  <1>1. PICK ids : ids = {p \in Listed : panes[p].job = old.job}
    OBVIOUS
  <1>2. /\ old \in Commands /\ old.at = "gone" /\ old.cmd = "gone" /\ Looks
        /\ Becomes(c, WithKills(old, ids, "done"))
    BY <1>0, <1>1 DEF WorkBase, WorkTypes, Gone, At, Fits
  <1>3. ids \in SUBSET Ids
    BY <1>1 DEF Listed
  <1>4. \A p \in ids : DetailsOf(p) \subseteq ids
    BY <1>1 DEF WorkBase, Partners, DetailsOf, Details, Listed
  <1>5. alone[c] => Orphans = {}
    BY <1>0, <1>2 DEF Steady, Doomed
  <1> QED BY <1>0, <1>2, <1>3, <1>4, <1>5, ListKept

LEMMA ToggleKept ==
    ASSUME WorkBase, NEW c \in Processes, alone[c] => Steady(c), Toggle(c)
    PROVE  WorkBase' /\ (alone'[c] => Steady(c)')
  <1>0. PICK old : old = proc[c]
    OBVIOUS
  <1>1. old \in Commands /\ old.at = "toggle" /\ old.cmd = "details" /\ Looks
    BY <1>0 DEF WorkBase, WorkTypes, Toggle, At, Fits
  <1>2. alone[c] => Orphans = {}
    BY <1>0, <1>1 DEF Steady, Doomed
  <1>3. CASE old.focus \in Details /\ Goto(c, "last")
    BY <1>0, <1>1, <1>2, <1>3, NotNested, LookKept
  <1>4. CASE \E d \in DetailsOf(old.focus) : Becomes(c, WithKills(old, {d}, "done"))
    <2>1. PICK d \in DetailsOf(old.focus) : Becomes(c, WithKills(old, {d}, "done"))
      BY <1>4
    <2>2. d \in Ids /\ DetailsOf(d) = {}
      BY NotNested DEF DetailsOf, Details
    <2> QED BY <1>0, <1>1, <1>2, <2>1, <2>2, ListKept
  <1>5. CASE /\ old.focus \in LogPanes
             /\ Becomes(c, [old EXCEPT !.at = "detail", !.job = panes[old.focus].job])
    <2>1. /\ old.focus \in Ids /\ panes[old.focus].job # NoJob
          /\ panes[old.focus].parent = NoPane /\ panes[old.focus] \in Options
          /\ old.focus \in 1..created
      BY <1>5 DEF LogPanes, Listed, Details, WorkBase, WorkTypes
    <2>2. PICK r : r = [old EXCEPT !.at = "detail", !.job = panes[old.focus].job]
      OBVIOUS
    <2>3. /\ r \in Commands /\ r.at = "detail" /\ r.job = panes[old.focus].job
          /\ r.cmd = old.cmd /\ r.focus = old.focus
      BY <1>1, <2>1, <2>2 DEF Commands, Places, Options
    <2>4. Becomes(c, r) /\ proc'[c] = r
      BY <1>5, <2>2, BecomesThat
    <2>5. panes' = panes /\ created' = created /\ alone' = alone
      BY <1>1 DEF Looks
    <2>6. WorkBase'
      <3>1. Fits(r) /\ alone' \in [Processes -> BOOLEAN]
        BY <1>1, <2>3, <2>5 DEF Fits, WorkBase, WorkTypes
      <3>2. \A d \in Processes \ {c} : proc[d].at # "new"
        BY <1>0, <1>1, NobodyNew
      <3>3. panes'[r.focus] = [job |-> r.job, parent |-> NoPane]
        BY <2>1, <2>3, <2>5 DEF Options
      <3> QED BY <2>1, <2>3, <2>4, <2>5, <3>1, <3>2, <3>3, SameShrinks, BaseStep
    <2>7. alone'[c] => Orphans' = {} /\ r.focus \in Ids'
      BY <1>2, <2>1, <2>3, <2>5, SamePanes
    <2> QED BY <1>1, <2>3, <2>4, <2>6, <2>7 DEF Steady, Filling, Doomed
  <1>6. CASE Goto(c, "failed")
    BY <1>0, <1>1, <1>2, <1>6, LookKept
  <1> QED BY <1>0, <1>3, <1>4, <1>5, <1>6 DEF Toggle

LEMMA DetailSplitKept ==
    ASSUME WorkBase, NEW c \in Processes, alone[c] => Steady(c), DetailSplit(c)
    PROVE  WorkBase' /\ (alone'[c] => Steady(c)')
  <1>0. PICK old : old = proc[c]
    OBVIOUS
  <1>1. /\ old \in Commands /\ old.at = "detail" /\ old.cmd = "details" /\ InHand(c)
        /\ old.job # NoJob /\ old.focus \in 1..created
        /\ old.focus \in Ids => panes[old.focus] = [job |-> old.job, parent |-> NoPane]
    BY <1>0 DEF WorkBase, WorkTypes, DetailSplit, At, Fits, InHand
  <1>2. CASE old.focus \in Ids /\ NewPane(c, old.job, "pair")
    <2>1. PICK r : r = [old EXCEPT !.at = "pair", !.pane = created + 1, !.job = old.job,
                                   !.keys = @ \cup {old.job}]
      OBVIOUS
    <2>2. created \in Nat /\ created' = created + 1 /\ Alive
      BY <1>2 DEF NewPane, Room, WorkBase, WorkTypes
    <2>3. /\ r \in Commands /\ r.at = "pair" /\ r.pane = created + 1 /\ r.job = old.job
          /\ r.cmd = old.cmd /\ r.focus = old.focus
      <3>1. /\ old.job \in Jobs /\ old.keys \in SUBSET Jobs /\ created + 1 \in Nat
            /\ "pair" \in Places
        BY <1>1, <2>2 DEF Commands, Places
      <3>2. r = [old EXCEPT !.at = "pair", !.pane = created + 1, !.job = old.job,
                            !.keys = old.keys \cup {old.job}]
        BY <2>1
      <3>3. old.keys \cup {old.job} \in SUBSET Jobs
        BY <3>1
      <3> QED BY <1>1, <3>1, <3>2, <3>3 DEF Commands
    <2>4. Becomes(c, r) /\ proc'[c] = r
      BY <1>0, <1>2, <2>1, BecomesThat DEF NewPane
    <2>5. Grows /\ Makes(c, With(created + 1, Unlabelled))
      BY <1>2, MakesPanes, WithGrows DEF NewPane
    <2>6. /\ Ids' = Ids \cup {created + 1} /\ Orphans' \subseteq Orphans
          /\ \A p \in Ids : panes'[p] = panes[p]
      BY <2>5, GrowEffect
    <2>7. WorkBase'
      <3>1. Fits(r)
        BY <1>1, <2>3 DEF Fits
      <3>2. \A d \in Processes \ {c} : proc[d].at # "new"
        BY <2>2, NobodyNew
      <3>3. alone' \in [Processes -> BOOLEAN]
        BY <2>5, MakesPanes
      <3>4. r.focus \in 1..created' /\ panes'[r.focus] = [job |-> r.job, parent |-> NoPane]
        BY <1>1, <1>2, <2>2, <2>3, <2>6
      <3> QED BY <1>1, <2>3, <2>4, <2>5, <3>1, <3>2, <3>3, <3>4, BaseStep
    <2>8. SUFFICES ASSUME alone'[c] PROVE Steady(c)'
      BY <2>7
    <2>9. Orphans' = {}
      <3>1. Steady(c)
        BY <2>5, <2>8, MakesPanes
      <3> QED BY <1>0, <1>1, <2>6, <3>1 DEF Steady, Doomed
    <2> QED BY <1>1, <1>2, <2>3, <2>4, <2>6, <2>9 DEF Steady, Filling, Doomed
  <1>3. CASE Goto(c, "failed") /\ created' = created /\ UNCHANGED <<panes, alone>>
    <2>1. PICK r \in Commands : Becomes(c, r) /\ proc'[c] = r /\ r.at = "failed" /\ r.cmd = old.cmd
      BY <1>0, <1>3, RecordGoto DEF Places
    <2>2. WorkBase'
      <3>1. Fits(r) /\ alone' \in [Processes -> BOOLEAN]
        BY <1>3, <2>1 DEF Fits, WorkBase, WorkTypes
      <3> QED BY <1>0, <1>1, <1>3, <2>1, <3>1, SameShrinks, PlainStep
    <2>3. alone'[c] => Orphans' = {}
      BY <1>0, <1>1, <1>3, SamePanes DEF Steady, Doomed
    <2> QED BY <1>1, <2>1, <2>2, <2>3 DEF Steady, Filling, Doomed
  <1> QED BY <1>0, <1>2, <1>3 DEF DetailSplit

LEMMA PairKept ==
    ASSUME WorkBase, NEW c \in Processes, alone[c] => Steady(c), Pair(c)
    PROVE  WorkBase' /\ (alone'[c] => Steady(c)')
  <1>0. PICK old : old = proc[c]
    OBVIOUS
  <1>1. /\ old \in Commands /\ old.at = "pair" /\ old.cmd = "details" /\ created' = created
        /\ Goto(c, "done")
        /\ Makes(c, IF old.pane \in Ids
                    THEN With(old.pane, [job |-> old.job, parent |-> old.focus])
                    ELSE panes)
    BY <1>0 DEF WorkBase, WorkTypes, Pair, At, Fits
  <1>2. PICK r \in Commands : Becomes(c, r) /\ proc'[c] = r /\ r.at = "done" /\ r.cmd = old.cmd
    BY <1>0, <1>1, RecordGoto DEF Places
  <1>3. old.pane \in Ids => Marks(c)
    BY <1>0, <1>1, MakesPanes, WithMarks, SameShrinks DEF Marks, Ids
  <1>4. old.pane \notin Ids => panes' = panes /\ Shrinks
    BY <1>1, MakesPanes, SameShrinks
  <1>5. WorkBase'
    <2>1. Fits(r)
      BY <1>2 DEF Fits
    <2> QED BY <1>0, <1>1, <1>2, <1>3, <1>4, <2>1, MakesPanes, PlainStep
  <1>6. SUFFICES ASSUME alone'[c] PROVE Steady(c)'
    BY <1>5
  <1>7. Orphans = {} /\ old.focus \in Ids
    <2>1. Steady(c)
      BY <1>1, <1>6, MakesPanes
    <2> QED BY <1>0, <1>1, <2>1 DEF Steady, Doomed
  <1>8. Orphans' = {}
    <2>1. CASE old.pane \in Ids
      BY <1>0, <1>1, <1>3, <1>7, <2>1, MarkEffect
    <2>2. CASE old.pane \notin Ids
      BY <1>4, <1>7, <2>2, SamePanes
    <2> QED BY <2>1, <2>2
  <1> QED BY <1>1, <1>2, <1>8, SteadyRest DEF Resting

LEMMA CloseKept ==
    ASSUME WorkBase, NEW c \in Processes, alone[c] => Steady(c), Close(c)
    PROVE  WorkBase' /\ (alone'[c] => Steady(c)')
  <1>0. PICK old : old = proc[c]
    OBVIOUS
  <1>1. old \in Commands /\ old.at = "close" /\ old.cmd = "close" /\ Looks
    BY <1>0 DEF WorkBase, WorkTypes, Close, At, Fits
  <1>2. alone[c] => Orphans = {}
    BY <1>0, <1>1 DEF Steady, Doomed
  <1>3. CASE old.focus \in Details /\ Goto(c, "last")
    BY <1>0, <1>1, <1>2, <1>3, NotNested, LookKept
  <1>4. CASE Goto(c, "failed") \/ Goto(c, "done")
    BY <1>0, <1>1, <1>2, <1>4, LookKept
  <1>5. CASE Becomes(c, WithKills(old, Paired(old.focus), "last"))
    <2>1. PICK ids : ids = DetailsOf(old.focus)
      OBVIOUS
    <2>2. ids \in SUBSET Ids /\ \A d \in ids : DetailsOf(d) = {}
      BY <2>1, NotNested DEF DetailsOf, Details
    <2> QED BY <1>0, <1>1, <1>2, <1>5, <2>1, <2>2, ListKept DEF Paired
  <1> QED BY <1>0, <1>3, <1>4, <1>5 DEF Close

LEMMA LeaveKept ==
    ASSUME WorkBase, NEW c \in Processes, alone[c] => Steady(c), Leave(c)
    PROVE  WorkBase' /\ (alone'[c] => Steady(c)')
  <1>0. PICK old : old = proc[c]
    OBVIOUS
  <1>1. PICK ids : ids = DetailsOf(old.focus)
    OBVIOUS
  <1>2. /\ old \in Commands /\ old.at = "leave" /\ old.cmd = "leave" /\ Looks
        /\ Becomes(c, WithKills(old, ids, "last"))
    BY <1>0, <1>1 DEF WorkBase, WorkTypes, Leave, At, Fits, Paired
  <1>3. ids \in SUBSET Ids /\ \A d \in ids : DetailsOf(d) = {}
    BY <1>1, NotNested DEF DetailsOf, Details
  <1>4. alone[c] => Orphans = {}
    BY <1>0, <1>2 DEF Steady, Doomed
  <1> QED BY <1>0, <1>1, <1>2, <1>3, <1>4, ListKept

LEMMA QuitKept ==
    ASSUME WorkBase, NEW c \in Processes, alone[c] => Steady(c), Quit(c)
    PROVE  WorkBase' /\ (alone'[c] => Steady(c)')
  <1>0. PICK old : old = proc[c]
    OBVIOUS
  <1>1. /\ old \in Commands /\ old.at = "quit" /\ old.cmd = "quit" /\ created' = created
        /\ Goto(c, "done")
    BY <1>0 DEF WorkBase, WorkTypes, Quit, At, Fits
  <1>2. PICK r \in Commands : Becomes(c, r) /\ proc'[c] = r /\ r.at = "done" /\ r.cmd = old.cmd
    BY <1>0, <1>1, RecordGoto DEF Places
  <1>3. Fits(r)
    BY <1>2 DEF Fits
  <1>4. CASE Makes(c, <<>>)
    <2>1. Shrinks /\ Ids' = {}
      BY <1>1, <1>4, MakesPanes, EmptyShrinks
    <2>2. WorkBase'
      BY <1>0, <1>1, <1>2, <1>3, <1>4, <2>1, MakesPanes, PlainStep
    <2>3. Orphans' = {}
      BY <2>1 DEF Orphans, Details
    <2> QED BY <1>1, <1>2, <2>2, <2>3, SteadyRest DEF Resting
  <1>5. CASE UNCHANGED <<panes, alone>>
    <2>1. WorkBase'
      <3>1. alone' \in [Processes -> BOOLEAN]
        BY <1>5 DEF WorkBase, WorkTypes
      <3> QED BY <1>0, <1>1, <1>2, <1>3, <1>5, <3>1, SameShrinks, PlainStep
    <2>2. alone'[c] => Orphans' = {}
      BY <1>0, <1>1, <1>5, SamePanes DEF Steady, Doomed
    <2> QED BY <1>1, <1>2, <2>1, <2>2, SteadyRest DEF Resting
  <1> QED BY <1>4, <1>5 DEF Quit

LEMMA ExitKept ==
    ASSUME WorkBase, NEW c \in Processes, alone[c] => Steady(c), Exit(c)
    PROVE  WorkBase' /\ (alone'[c] => Steady(c)')
  <1>1. /\ proc[c].at \in {"done", "failed", "broken"} /\ Becomes(c, Idle)
        /\ panes' = panes /\ created' = created /\ alone' = alone
    BY DEF Exit, Looks
  <1>2. Idle \in Commands /\ Idle.at = "idle" /\ Fits(Idle) /\ proc'[c] = Idle
    BY <1>1, BecomesThat DEF Idle, Commands, Places, Names, NoPane, Fits
  <1>3. WorkBase'
    <2>1. alone' \in [Processes -> BOOLEAN]
      BY <1>1 DEF WorkBase, WorkTypes
    <2> QED BY <1>1, <1>2, <2>1, SameShrinks, PlainStep
  <1>4. alone'[c] => Orphans' = {}
    BY <1>1, SamePanes DEF Steady, Doomed
  <1> QED BY <1>2, <1>3, <1>4, SteadyRest DEF Resting

-----------------------------------------------------------------------------
(* What any other command does leaves c's picture as it is, or is noticed. *)
Act(c) ==
    \/ Command(c) \/ KillOne(c) \/ KillFocus(c) \/ NewSession(c) \/ Label(c) \/ Setup(c)
    \/ Respawn(c) \/ Split(c) \/ AllSplit(c) \/ Gather(c) \/ CloseDetails(c) \/ ReadPanes(c)
    \/ Gone(c) \/ Toggle(c) \/ DetailSplit(c) \/ Pair(c) \/ Close(c) \/ Leave(c) \/ Quit(c) \/ Exit(c)

LEMMA ActKept ==
    ASSUME WorkBase, NEW c \in Processes, alone[c] => Steady(c), Act(c)
    PROVE  WorkBase' /\ (alone'[c] => Steady(c)')
  BY BaseBegin, BeginKept, KillOneKept, KillFocusKept, NewSessionKept, LabelKept, SetupKept,
     RespawnKept, SplitKept, AllSplitKept, GatherKept, CloseDetailsKept, ReadPanesKept, GoneKept,
     ToggleKept, DetailSplitKept, PairKept, CloseKept, LeaveKept, QuitKept, ExitKept DEF Act

LEMMA ActElsewhere ==
    ASSUME WorkBase, NEW c \in Processes, Act(c), NEW d \in Processes \ {c}
    PROVE  proc'[d] = proc[d] /\ (alone'[d] => alone[d] /\ panes' = panes)
  <1>1. \A r : Becomes(c, r) => proc'[d] = proc[d]
    BY DEF Becomes, WorkBase, WorkTypes
  <1>2. \A new : Makes(c, new) => (alone'[d] => alone[d] /\ panes' = panes)
    BY MakesPanes
  <1>3. \A cmd, rec : Begin(c, cmd, rec) => panes' = panes /\ alone'[d] = alone[d]
    BY DEF Begin, WorkBase, WorkTypes
  <1>4. CASE Command(c)
    <2>1. \E cmd, rec : Begin(c, cmd, rec)
      BY <1>4, Beginnings
    <2>2. proc'[d] = proc[d]
      BY <1>1, <2>1 DEF Begin
    <2> QED BY <1>3, <2>1, <2>2
  <1>5. proc'[d] = proc[d]
    <2>1. \A place : Goto(c, place) => proc'[d] = proc[d]
      BY <1>1 DEF Goto
    <2>2. CASE KillOne(c) \/ KillFocus(c) \/ NewSession(c) \/ Label(c) \/ Setup(c) \/ Respawn(c)
      BY <1>1, <2>1, <2>2 DEF KillOne, KillFocus, NewSession, Label, Setup, Respawn
    <2>3. CASE Split(c) \/ AllSplit(c) \/ Gather(c) \/ CloseDetails(c) \/ ReadPanes(c)
      BY <1>1, <2>1, <2>3 DEF Split, NewPane, AllSplit, Gather, CloseDetails, ReadPanes
    <2>4. CASE Gone(c) \/ Toggle(c) \/ DetailSplit(c) \/ Pair(c)
      BY <1>1, <2>1, <2>4 DEF Gone, Toggle, DetailSplit, NewPane, Pair
    <2>5. CASE Close(c) \/ Leave(c) \/ Quit(c) \/ Exit(c)
      BY <1>1, <2>1, <2>5 DEF Close, Leave, Quit, Exit
    <2> QED BY <1>4, <1>1, <2>2, <2>3, <2>4, <2>5, Beginnings DEF Act, Begin
  <1>6. CASE KillOne(c) \/ KillFocus(c) \/ NewSession(c) \/ Label(c) \/ AllSplit(c) \/ Pair(c)
    BY <1>2, <1>5, <1>6 DEF KillOne, KillFocus, NewSession, Label, AllSplit, Pair
  <1>7. CASE Setup(c) \/ Gather(c) \/ CloseDetails(c) \/ ReadPanes(c) \/ Gone(c) \/ Toggle(c)
             \/ Close(c) \/ Leave(c) \/ Exit(c)
    BY <1>5, <1>7 DEF Setup, Gather, CloseDetails, ReadPanes, Gone, Toggle, Close, Leave, Exit, Looks
  <1>8. CASE Respawn(c) \/ Split(c) \/ DetailSplit(c) \/ Quit(c)
    BY <1>2, <1>5, <1>8 DEF Respawn, Split, DetailSplit, NewPane, Quit, Looks
  <1> QED BY <1>4, <1>6, <1>7, <1>8 DEF Act

LEMMA WorkStart == WorkspaceInit => WorkInv
  <1> SUFFICES ASSUME WorkspaceInit PROVE WorkInv
    OBVIOUS
  <1>1. Ids = {} /\ Details = {}
    BY DEF WorkspaceInit, Ids, Details
  <1>2. Idle \in Commands /\ Fits(Idle) /\ Idle.at = "idle"
    BY DEF Idle, Commands, Places, Names, NoPane, Fits
  <1>3. \A c \in Processes : proc[c] = Idle /\ ~alone[c]
    BY DEF WorkspaceInit
  <1>4. WorkTypes
    BY <1>1, <1>2 DEF WorkspaceInit, WorkTypes, Ids
  <1>5. Partners /\ Apart /\ \A c \in Processes : Fits(proc[c]) /\ InHand(c)
    BY <1>1, <1>2, <1>3 DEF Partners, Apart, InHand
  <1> QED BY <1>3, <1>4, <1>5 DEF WorkInv, WorkBase

LEMMA WorkNext == WorkInv /\ [WorkspaceNext]_workspaceVars => WorkInv'
  <1> SUFFICES ASSUME WorkInv, [WorkspaceNext]_workspaceVars PROVE WorkInv'
    OBVIOUS
  <1>1. CASE WorkspaceNext
    <2>1. PICK c \in Processes : Act(c)
      BY <1>1 DEF WorkspaceNext, Act
    <2>2. WorkBase' /\ (alone'[c] => Steady(c)')
      BY <2>1, ActKept DEF WorkInv
    <2>3. ASSUME NEW d \in Processes \ {c}, alone'[d] PROVE Steady(d)'
      BY <2>1, <2>3, ActElsewhere, Undisturbed DEF WorkInv
    <2> QED BY <2>2, <2>3 DEF WorkInv
  <1>2. CASE UNCHANGED workspaceVars
    <2>1. WorkBase'
      BY <1>2 DEF WorkInv, WorkBase, WorkTypes, Partners, Apart, InHand, workspaceVars,
                  Ids, Details, Options, At
    <2>2. ASSUME NEW d \in Processes, alone'[d] PROVE Steady(d)'
      BY <1>2, <2>2, Undisturbed DEF WorkInv, workspaceVars
    <2> QED BY <2>1, <2>2 DEF WorkInv
  <1> QED BY <1>1, <1>2

LEMMA WorkAlways == WorkspaceSpec => []WorkInv
  BY WorkStart, WorkNext, PTL DEF WorkspaceSpec

(* open shows every selected job in a pane of its own, or leaves no        *)
(* session when tmux refuses a pane half-way, for any number of jobs and   *)
(* commands (tmux.rs, open).                                               *)
THEOREM OpensWhole == WorkspaceSpec => []OpensAllOrNothing
  <1>1. WorkInv => OpensAllOrNothing
    BY DEF WorkInv, Steady, OpensAllOrNothing, Ended, At
  <1> QED BY <1>1, WorkAlways, PTL

(* The picker's Enter and the monitor's additions end with the chosen jobs *)
(* and no others, whatever was open before (tmux/reconcile.rs).            *)
THEOREM PicksHold == WorkspaceSpec => []PicksTakeEffect
  <1>1. WorkInv => PicksTakeEffect
    BY DEF WorkInv, Steady, PicksTakeEffect, Ended, At, Doomed, Picking, Alive
  <1> QED BY <1>1, WorkAlways, PTL

(* No command leaves a details pane behind whose log pane it closed        *)
(* (tmux/detail_pane.rs, close_details_for_parent).                        *)
THEOREM DetailsFollowTheirLog == WorkspaceSpec => []NoOrphanDetails
  <1>1. WorkInv => NoOrphanDetails
    BY DEF WorkInv, Steady, NoOrphanDetails, At, Doomed
  <1> QED BY <1>1, WorkAlways, PTL

=============================================================================
