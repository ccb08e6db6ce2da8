------------------------- MODULE LedgerStoreProofs -------------------------
(***************************************************************************)
(* The promises of the ledger, for any jobs, clusters and requests, and    *)
(* the proof that the file and its lock keep them: updates that fail, are  *)
(* killed or run at the same time are, seen from the file, whole           *)
(* operations applied one after the other.                                 *)
(***************************************************************************)
EXTENDS LedgerStore, TLAPS

(* Every operation turns a ledger into a ledger and keeps marks known. *)
LEMMA ApplyFacts ==
    ASSUME NEW s \in Ledgers, NEW r \in Requests,
           s.opened \cup s.dismissed \cup s.interactive \subseteq s.known
    PROVE  LET t == Apply(r, s)
           IN /\ t \in Ledgers
              /\ t.opened \cup t.dismissed \cup t.interactive \subseteq t.known
              /\ s.known \subseteq t.known
              /\ s.dismissed \subseteq t.dismissed
              /\ s.interactive \subseteq t.interactive
              /\ s.baselined \subseteq t.baselined
              /\ (s.current => t.current)
              /\ (r.op = "sync" =>
                    \A j \in t.opened \ s.opened : ~s.current \/ ClusterOf[j] \notin s.baselined)
  <1>1. CASE r \in SyncRequest
    <2>1. Apply(r, s) = Sync(s, r)
      BY <1>1 DEF Apply, SyncRequest
    <2>2. Baseline(s, r) \subseteq r.jobs /\ r.jobs \subseteq Jobs
      BY <1>1 DEF Baseline, SyncRequest
    <2>3. \A j \in Baseline(s, r) : ~s.current \/ ClusterOf[j] \notin s.baselined
      BY DEF Baseline
    <2> HIDE DEF Baseline
    <2>4. /\ r.complete \subseteq Clusters
          /\ r.jobs \cap r.interactive \subseteq r.jobs
      BY <1>1 DEF SyncRequest
    <2>5. Sync(s, r) \in Ledgers
      BY <1>1, <2>2, <2>4 DEF Ledgers, Sync
    <2> QED BY <1>1, <2>1, <2>2, <2>3, <2>4, <2>5 DEF Sync
  <1>2. CASE r \in JobRequest
    <2>1. Apply(r, s) = Open(s, {r.job}) \/ Apply(r, s) = Hide(s, {r.job})
      BY <1>2 DEF Apply, JobRequest
    <2>2. {r.job} \in SUBSET Jobs /\ r.op # "sync"
      BY <1>2 DEF JobRequest
    <2>3. Open(s, {r.job}) \in Ledgers /\ Hide(s, {r.job}) \in Ledgers
      BY <2>2 DEF Ledgers, Open, Hide, Mark
    <2> QED BY <2>1, <2>2, <2>3 DEF Open, Hide, Mark
  <1>3. CASE r \in DismissRequest
    <2>1. Apply(r, s) = Hide(s, r.jobs \ r.active)
      BY <1>3 DEF Apply, DismissRequest
    <2>2. r.jobs \ r.active \in SUBSET Jobs /\ r.op # "sync"
      BY <1>3 DEF DismissRequest
    <2>3. Hide(s, r.jobs \ r.active) \in Ledgers
      BY <2>2 DEF Ledgers, Open, Hide, Mark
    <2> QED BY <2>1, <2>2, <2>3 DEF Open, Hide, Mark
  <1>4. CASE r \in SettingRequest
    <2>1. \/ Apply(r, s) = [s EXCEPT !.autoAdd = r.enabled]
          \/ Apply(r, s) = [s EXCEPT !.logWarnings = r.enabled]
      BY <1>4 DEF Apply, SettingRequest
    <2> QED BY <1>4, <2>1 DEF SettingRequest, Ledgers
  <1>5. CASE r \in ReadRequest
    <2>1. \/ Apply(r, s) = [s EXCEPT !.opened = s.opened \cup Tracked(s, r.id)]
          \/ Apply(r, s) = [s EXCEPT !.opened = s.opened \ Tracked(s, r.id)]
      BY <1>5 DEF Apply, ReadRequest
    <2>2. Tracked(s, r.id) \subseteq s.known
      BY DEF Tracked
    <2> HIDE DEF Tracked
    <2> QED BY <1>5, <2>1, <2>2 DEF ReadRequest, Ledgers
  <1> QED BY <1>1, <1>2, <1>3, <1>4, <1>5, LedgerAssumption DEF AllRequests

Inv == TypeOK /\ MarksAreKnown

LEMMA InitInv == Init => Inv
  <1> SUFFICES ASSUME Init PROVE Inv
    OBVIOUS
  <1>1. PICK S, O \in SUBSET Jobs, C \in SUBSET Clusters :
          ledger = [known |-> S, opened |-> S \cap O, dismissed |-> {}, interactive |-> {},
                    baselined |-> C, current |-> FALSE, autoAdd |-> FALSE,
                    logWarnings |-> FALSE]
    BY DEF Init, Old
  <1> QED BY <1>1 DEF Inv, TypeOK, MarksAreKnown, Ledgers

LEMMA NextInv == Inv /\ [Next]_ledger => Inv'
  <1> SUFFICES ASSUME Inv, [Next]_ledger PROVE Inv'
    OBVIOUS
  <1>1. CASE Next
    <2>1. PICK r \in Requests : ledger' = Apply(r, ledger)
      BY <1>1 DEF Next, Update
    <2> QED BY <2>1, ApplyFacts DEF Inv, TypeOK, MarksAreKnown
  <1>2. CASE UNCHANGED ledger
    BY <1>2 DEF Inv, TypeOK, MarksAreKnown
  <1> QED BY <1>1, <1>2

(* Whatever is opened, hidden or classified is known to set_read. *)
THEOREM MarksKnown == Spec => [](TypeOK /\ MarksAreKnown)
  <1>1. Inv => TypeOK /\ MarksAreKnown
    BY DEF Inv
  <1> QED BY <1>1, InitInv, NextInv, PTL DEF Spec

(* No update but "unread" takes a mark back (state.rs). *)
THEOREM MarksNeverLost == Spec => MarksStay
  <1>1. Inv /\ [Next]_ledger =>
          [/\ ledger.known \subseteq ledger'.known
           /\ ledger.dismissed \subseteq ledger'.dismissed
           /\ ledger.interactive \subseteq ledger'.interactive
           /\ ledger.baselined \subseteq ledger'.baselined
           /\ (ledger.current => ledger'.current)]_ledger
    <2> SUFFICES ASSUME Inv, Next
                 PROVE  /\ ledger.known \subseteq ledger'.known
                        /\ ledger.dismissed \subseteq ledger'.dismissed
                        /\ ledger.interactive \subseteq ledger'.interactive
                        /\ ledger.baselined \subseteq ledger'.baselined
                        /\ (ledger.current => ledger'.current)
      OBVIOUS
    <2>1. PICK r \in Requests : ledger' = Apply(r, ledger)
      BY DEF Next, Update
    <2> QED BY <2>1, ApplyFacts DEF Inv, TypeOK, MarksAreKnown
  <1> QED BY <1>1, InitInv, NextInv, PTL DEF Spec, MarksStay

(* After the baseline of a cluster, syncing listings opens nothing. *)
THEOREM SyncNeverReads == Spec => UnreadUntilOpened
  <1>1. Inv /\ [Next]_ledger =>
          [\A j \in ledger'.opened \ ledger.opened :
             ledger.current /\ ClusterOf[j] \in ledger.baselined
               => \A r \in Requests : Update(r) => r.op # "sync"]_ledger
    <2> SUFFICES ASSUME Inv,
                        NEW j \in ledger'.opened \ ledger.opened,
                        ledger.current, ClusterOf[j] \in ledger.baselined,
                        NEW r \in Requests, Update(r)
                 PROVE  r.op # "sync"
      OBVIOUS
    <2> QED BY ApplyFacts DEF Update, Inv, TypeOK, MarksAreKnown
  <1> QED BY <1>1, InitInv, NextInv, PTL DEF Spec, UnreadUntilOpened

-----------------------------------------------------------------------------
(* What a call has reported as hidden is hidden by its operation. *)
LEMMA HiddenApplied ==
    ASSUME NEW s \in Ledgers, NEW r \in Requests
    PROVE  /\ Hidden(r) \subseteq Apply(r, s).dismissed
           /\ Hidden(r) \subseteq Jobs
  <1>1. r \in AllRequests
    BY LedgerAssumption
  <1>2. CASE r.op = "dismiss"
    <2>1. Apply(r, s) = Hide(s, r.jobs \ r.active)
      BY <1>2 DEF Apply
    <2>2. Hidden(r) = r.jobs \ r.active
      BY <1>2 DEF Hidden
    <2>3. r.jobs \subseteq Jobs
      BY <1>1, <1>2 DEF AllRequests, SyncRequest, JobRequest,
                        DismissRequest, SettingRequest,
                        ReadRequest
    <2> QED BY <2>1, <2>2, <2>3 DEF Hide, Mark
  <1>3. CASE r.op = "suppress"
    <2>1. Apply(r, s) = Hide(s, {r.job})
      BY <1>3 DEF Apply
    <2>2. Hidden(r) = {r.job}
      BY <1>3 DEF Hidden
    <2>3. r.job \in Jobs
      BY <1>1, <1>3 DEF AllRequests, SyncRequest, JobRequest,
                        DismissRequest, SettingRequest,
                        ReadRequest
    <2> QED BY <2>1, <2>2, <2>3 DEF Hide, Mark
  <1>4. CASE r.op # "dismiss" /\ r.op # "suppress"
    BY <1>4 DEF Hidden
  <1> QED BY <1>2, <1>3, <1>4

-----------------------------------------------------------------------------
(* A call past flock holds the lock, so there is one of them. *)
Holders == \A u \in Updaters : update[u].pc \in {"read", "write", "rename"} => lock = u

(* Nobody changes the file between a call's read and its rename. *)
Prepared ==
    \A u \in Updaters : update[u].pc \in {"write", "rename"} =>
        update[u].state = Apply(update[u].request, ledger)

HiddenStay == hidden \subseteq ledger.dismissed

StoreInv == StoreTypeOK /\ MarksAreKnown /\ Holders /\ Prepared /\ HiddenStay

LEMMA StoreInitInv == StoreInit => StoreInv
  <1> SUFFICES ASSUME StoreInit PROVE StoreInv
    OBVIOUS
  <1>1. PICK S, O \in SUBSET Jobs, C \in SUBSET Clusters :
          ledger = [known |-> S, opened |-> S \cap O, dismissed |-> {}, interactive |-> {},
                  baselined |-> C, current |-> FALSE, autoAdd |-> FALSE,
                  logWarnings |-> FALSE]
    BY DEF StoreInit, Init, Old
  <1>2. ledger \in Ledgers /\ MarksAreKnown /\ HiddenStay
    BY <1>1 DEF StoreInit, Ledgers, MarksAreKnown, HiddenStay
  <1>3. \A u \in Updaters : update[u] = Idle /\ update[u].pc = "idle"
    BY DEF StoreInit, Idle
  <1>4. update \in [Updaters -> Calls]
    BY DEF StoreInit, Calls
  <1> QED BY <1>2, <1>3, <1>4 DEF StoreInit, StoreInv, StoreTypeOK, TypeOK, Holders, Prepared

(* What a step of one call does, with the lock it needs. *)
LEMMA StoreNextInv == StoreInv /\ [StoreNext]_vars => StoreInv' /\ [Next]_ledger
  <1> SUFFICES ASSUME StoreInv, [StoreNext]_vars PROVE StoreInv' /\ [Next]_ledger
    OBVIOUS
  <1> USE DEF StoreInv
  <1>1. CASE UNCHANGED vars
    BY <1>1 DEF vars, StoreTypeOK, TypeOK, MarksAreKnown, Holders, Prepared, HiddenStay
  <1>2. ASSUME NEW u \in Updaters, NEW r \in Requests, Begin(u, r)
        PROVE  StoreInv' /\ [Next]_ledger
    <2>1. update' \in [Updaters -> Calls]
      BY <1>2 DEF Begin, StoreTypeOK, TypeOK, Calls
    <2>2. \A v \in Updaters : v # u => update'[v] = update[v]
      BY <1>2 DEF Begin, StoreTypeOK, TypeOK
    <2>3. update'[u].pc = "wait"
      BY <1>2 DEF Begin, StoreTypeOK, TypeOK
    <2> QED BY <1>2, <2>1, <2>2, <2>3
            DEF Begin, StoreTypeOK, TypeOK, MarksAreKnown, Holders, Prepared, HiddenStay
  <1>3. ASSUME NEW u \in Updaters, Acquire(u)
        PROVE  StoreInv' /\ [Next]_ledger
    <2>1. update' \in [Updaters -> Calls] /\ update'[u].pc = "read"
      BY <1>3 DEF Acquire, StoreTypeOK, TypeOK, Calls, Idle
    <2>2. \A v \in Updaters : v # u => update'[v] = update[v]
      BY <1>3 DEF Acquire, StoreTypeOK, TypeOK
    <2>3. \A v \in Updaters : update[v].pc \notin {"read", "write", "rename"}
      BY <1>3, StoreAssumption DEF Acquire, Holders
    <2> QED BY <1>3, <2>1, <2>2, <2>3
            DEF Acquire, StoreTypeOK, TypeOK, MarksAreKnown, Holders, Prepared, HiddenStay
  <1>4. ASSUME NEW u \in Updaters, Mutate(u)
        PROVE  StoreInv' /\ [Next]_ledger
    <2> DEFINE r == update[u].request
               state == Apply(r, ledger)
    <2>1. r \in Requests /\ lock = u /\ ledger \in Ledgers
      BY <1>4 DEF Mutate, StoreTypeOK, TypeOK, Calls, Idle, Holders
    <2>2. state \in Ledgers
      BY <2>1, ApplyFacts DEF MarksAreKnown
    <2>3. \A v \in Updaters : v # u => update[v].pc \notin {"read", "write", "rename"}
      BY <2>1 DEF Holders
    <2>4. CASE state = ledger
      <3>1. Return(u) /\ UNCHANGED ledger
        BY <1>4, <2>4 DEF Mutate
      <3>2. Hidden(r) \subseteq ledger.dismissed /\ Hidden(r) \subseteq Jobs
        BY <2>1, <2>4, HiddenApplied
      <3>3. update' \in [Updaters -> Calls] /\ update'[u].pc = "idle"
        BY <3>1 DEF Return, StoreTypeOK, TypeOK, Calls, Idle
      <3>4. \A v \in Updaters : v # u => update'[v] = update[v]
        BY <3>1 DEF Return, StoreTypeOK, TypeOK
      <3> QED BY <2>1, <2>3, <3>1, <3>2, <3>3, <3>4
              DEF Return, StoreTypeOK, TypeOK, MarksAreKnown, Holders, Prepared, HiddenStay
    <2>5. CASE state # ledger
      <3>1. /\ update' = [update EXCEPT ![u] = [pc |-> "write", request |-> r,
                                                state |-> state]]
            /\ UNCHANGED <<ledger, lock, hidden>>
        BY <1>4, <2>5 DEF Mutate
      <3> HIDE DEF r, state
      <3>2. update' \in [Updaters -> Calls]
        BY <2>1, <2>2, <3>1 DEF StoreTypeOK, TypeOK, Calls
      <3>3. \A v \in Updaters : v # u => update'[v] = update[v]
        BY <3>1 DEF StoreTypeOK, TypeOK
      <3>4. update'[u].request = r /\ update'[u].state = state
        BY <3>1 DEF StoreTypeOK, TypeOK
      <3> QED BY <2>1, <2>3, <3>1, <3>2, <3>3, <3>4
              DEF state, StoreTypeOK, TypeOK, MarksAreKnown, Holders, Prepared, HiddenStay
    <2> QED BY <2>4, <2>5
  <1>5. ASSUME NEW u \in Updaters, WriteTemporary(u)
        PROVE  StoreInv' /\ [Next]_ledger
    <2>1. update[u] \in [pc: {"write", "rename"}, request: Requests,
                         state: Ledgers]
      BY <1>5 DEF WriteTemporary, StoreTypeOK, TypeOK, Calls, Idle
    <2>2. /\ update' \in [Updaters -> Calls]
          /\ update'[u].pc = "rename"
          /\ update'[u].request = update[u].request
          /\ update'[u].state = update[u].state
      BY <1>5, <2>1 DEF WriteTemporary, StoreTypeOK, TypeOK, Calls
    <2>3. \A v \in Updaters : v # u => update'[v] = update[v]
      BY <1>5 DEF WriteTemporary, StoreTypeOK, TypeOK
    <2> QED BY <1>5, <2>2, <2>3 DEF WriteTemporary, StoreTypeOK, TypeOK, MarksAreKnown,
                                    Holders, Prepared, HiddenStay
  <1>6. ASSUME NEW u \in Updaters, Rename(u)
        PROVE  StoreInv' /\ [Next]_ledger
    <2> DEFINE r == update[u].request
    <2>1. /\ r \in Requests /\ lock = u /\ ledger \in Ledgers
          /\ ledger' = Apply(r, ledger)
      BY <1>6 DEF Rename, StoreTypeOK, TypeOK, Calls, Idle, Holders, Prepared
    <2>2. Next
      BY <2>1 DEF Next, Update
    <2>3. /\ ledger' \in Ledgers
          /\ MarksAreKnown'
          /\ ledger.dismissed \subseteq ledger'.dismissed
      BY <2>1, ApplyFacts DEF MarksAreKnown
    <2>4. Hidden(r) \subseteq ledger'.dismissed /\ Hidden(r) \subseteq Jobs
      BY <2>1, HiddenApplied
    <2>5. \A v \in Updaters : v # u => update[v].pc \notin {"read", "write", "rename"}
      BY <2>1 DEF Holders
    <2>6. update' \in [Updaters -> Calls] /\ update'[u].pc = "idle"
      BY <1>6 DEF Rename, Return, StoreTypeOK, TypeOK, Calls, Idle
    <2>7. \A v \in Updaters : v # u => update'[v] = update[v]
      BY <1>6 DEF Rename, Return, StoreTypeOK, TypeOK
    <2>8. lock' = NoUpdater /\ hidden' = hidden \cup Hidden(r)
      BY <1>6 DEF Rename, Return
    <2> HIDE DEF r
    <2>9. StoreInv'
      BY <2>1, <2>3, <2>4, <2>5, <2>6, <2>7, <2>8
      DEF StoreTypeOK, TypeOK, Holders, Prepared, HiddenStay
    <2> QED BY <2>2, <2>9
  <1>7. ASSUME NEW u \in Updaters, Fail(u)
        PROVE  StoreInv' /\ [Next]_ledger
    <2>1. update' \in [Updaters -> Calls] /\ update'[u].pc = "idle"
      BY <1>7 DEF Fail, StoreTypeOK, TypeOK, Calls, Idle
    <2>2. \A v \in Updaters : v # u => update'[v] = update[v]
      BY <1>7 DEF Fail, StoreTypeOK, TypeOK
    <2>3. \A v \in Updaters : v # u /\ update[v].pc \in {"read", "write", "rename"}
                                => lock' = lock
      BY <1>7 DEF Fail, Holders
    <2> QED BY <1>7, <2>1, <2>2, <2>3
            DEF Fail, StoreTypeOK, TypeOK, MarksAreKnown, Holders, Prepared, HiddenStay
  <1> QED BY <1>1, <1>2, <1>3, <1>4, <1>5, <1>6, <1>7 DEF StoreNext, Step

(* The file, the lock and the rename implement the ledger (state.rs,       *)
(* update): no update is lost or applied to a value that is not the latest.*)
THEOREM Implementation == StoreSpec => ImplementsLedger
  <1>1. StoreInit => Init
    BY DEF StoreInit
  <1> QED BY <1>1, StoreInitInv, StoreNextInv, PTL DEF StoreSpec, ImplementsLedger, Spec

(* So what holds of the ledger holds of the file. *)
THEOREM FileKeepsMarks == StoreSpec => MarksStay /\ UnreadUntilOpened
  BY Implementation, MarksNeverLost, SyncNeverReads, PTL DEF ImplementsLedger

(* A reported dismissal is never undone by a concurrent or a later update. *)
THEOREM DismissalsNeverUndone == StoreSpec => [](StoreTypeOK /\ DismissalsHold)
  <1>1. StoreInv => StoreTypeOK /\ DismissalsHold
    BY DEF StoreInv, HiddenStay, DismissalsHold, Visible
  <1> QED BY <1>1, StoreInitInv, StoreNextInv, PTL DEF StoreSpec
=============================================================================
