------------------------------- MODULE Ledger -------------------------------
(***************************************************************************)
(* What the tracking ledger promises (state.rs): one value that every      *)
(* process of the user changes by whole operations, each applied to the    *)
(* latest value.  LedgerStore shows that the file, its lock and the rename *)
(* keep the promise.  Time stamps are left out: a map from keys to times   *)
(* is the set of its keys.                                                 *)
(***************************************************************************)
EXTENDS Naturals, FiniteSets

CONSTANTS
    Jobs,         \* job keys, "cluster:id"
    Clusters,
    ClusterOf,    \* [Jobs -> Clusters]
    IdOf,         \* [Jobs -> the id part of the key]
    Requests      \* the updates that clients make

VARIABLE ledger

Ledgers == [known: SUBSET Jobs, opened: SUBSET Jobs, dismissed: SUBSET Jobs,
            interactive: SUBSET Jobs, baselined: SUBSET Clusters,
            current: BOOLEAN,       \* tracking_schema is SCHEMA
            autoAdd: BOOLEAN, logWarnings: BOOLEAN]

(* A listing: the jobs it holds, which of them are active or interactive,  *)
(* and the clusters whose accounting history it holds completely.          *)
SyncRequest ==
    [op: {"sync"}, jobs: SUBSET Jobs, active: SUBSET Jobs, interactive: SUBSET Jobs,
     complete: SUBSET Clusters]
JobRequest == [op: {"open", "suppress"}, job: Jobs]
DismissRequest == [op: {"dismiss"}, jobs: SUBSET Jobs, active: SUBSET Jobs]
SettingRequest == [op: {"autoAdd", "logWarnings"}, enabled: BOOLEAN]
ReadRequest == [op: {"read", "unread"}, id: {IdOf[j] : j \in Jobs}]

AllRequests == SyncRequest \cup JobRequest \cup DismissRequest \cup SettingRequest
                 \cup ReadRequest

ASSUME LedgerAssumption ==
    /\ ClusterOf \in [Jobs -> Clusters]
    /\ Requests \subseteq AllRequests

-----------------------------------------------------------------------------
(* The jobs a listing opens by itself: the finished jobs of a cluster whose *)
(* history is seen completely for the first time.                          *)
BaselineAlways(s, r) ==     \* mutant: every complete listing is a baseline
    {j \in r.jobs \ r.active : ClusterOf[j] \in r.complete}

Baseline(s, r) ==
    {j \in r.jobs \ r.active :
        ClusterOf[j] \in r.complete /\ (~s.current \/ ClusterOf[j] \notin s.baselined)}

Sync(s, r) ==
    [known |-> s.known \cup r.jobs,
     opened |-> s.opened \cup Baseline(s, r),
     dismissed |-> s.dismissed,
     interactive |-> s.interactive \cup (r.jobs \cap r.interactive),
     baselined |-> s.baselined \cup r.complete,
     current |-> TRUE,
     autoAdd |-> s.autoAdd, logWarnings |-> s.logWarnings]

(* mark_opened (nothing hidden), suppress and dismiss *)
Mark(s, S, concealed) ==
    [known |-> s.known \cup S,
     opened |-> s.opened \cup S,
     dismissed |-> s.dismissed \cup concealed,
     interactive |-> s.interactive, baselined |-> s.baselined, current |-> s.current,
     autoAdd |-> s.autoAdd, logWarnings |-> s.logWarnings]
Open(s, S) == Mark(s, S, {})

Hide(s, S) == Mark(s, S, S)

(* set_read: every known key that ends in the id, in whatever cluster. *)
Tracked(s, id) == {j \in s.known : IdOf[j] = id}

Apply(r, s) ==
    CASE r.op = "sync"        -> Sync(s, r)
      [] r.op = "open"        -> Open(s, {r.job})
      [] r.op = "suppress"    -> Hide(s, {r.job})
      [] r.op = "dismiss"     -> Hide(s, r.jobs \ r.active)
      [] r.op = "autoAdd"     -> [s EXCEPT !.autoAdd = r.enabled]
      [] r.op = "logWarnings" -> [s EXCEPT !.logWarnings = r.enabled]
      [] r.op = "read"        -> [s EXCEPT !.opened = @ \cup Tracked(s, r.id)]
      [] r.op = "unread"      -> [s EXCEPT !.opened = @ \ Tracked(s, r.id)]

(* No file yet, or one that an older version has left behind. *)
Old(S, O, C) == [known |-> S, opened |-> S \cap O, dismissed |-> {},
                 interactive |-> {}, baselined |-> C, current |-> FALSE,
                 autoAdd |-> FALSE, logWarnings |-> FALSE]

Init == ledger \in {Old(S, O, C) : S, O \in SUBSET Jobs, C \in SUBSET Clusters}

Update(r) == ledger' = Apply(r, ledger)

Next == \E r \in Requests : Update(r)

Spec == Init /\ [][Next]_ledger

-----------------------------------------------------------------------------
(* visible_jobs in live mode, for a job that is not blocked. *)
Visible(s, j, active, recentlyEnded) ==
    j \notin s.dismissed /\ (active \/ j \notin s.opened \/ recentlyEnded)

TypeOK == ledger \in Ledgers

(* set_read and the picker reach jobs through known, so whatever is        *)
(* opened, hidden or classified has to be there.                           *)
MarksAreKnown ==
    ledger.opened \cup ledger.dismissed \cup ledger.interactive \subseteq ledger.known

(* A listing opens jobs by itself only the first time it shows a cluster's *)
(* whole history: a job that finishes later stays unread until the user    *)
(* opens it, however often listings are synced and in whatever order.      *)
UnreadUntilOpened ==
    [][\A j \in ledger'.opened \ ledger.opened :
          ledger.current /\ ClusterOf[j] \in ledger.baselined
            => \A r \in Requests : Update(r) => r.op # "sync"]_ledger

(* Nothing but "unread" takes a mark back. *)
MarksStay ==
    [][/\ ledger.known \subseteq ledger'.known
       /\ ledger.dismissed \subseteq ledger'.dismissed
       /\ ledger.interactive \subseteq ledger'.interactive
       /\ ledger.baselined \subseteq ledger'.baselined
       /\ (ledger.current => ledger'.current)]_ledger
=============================================================================
