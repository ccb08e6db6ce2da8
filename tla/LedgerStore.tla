---------------------------- MODULE LedgerStore ----------------------------
(***************************************************************************)
(* How the ledger is kept (state.rs, update and load): processes and       *)
(* daemon threads take the flock on state.lock, read and parse state.json, *)
(* change the value in memory and, if it changed, write a temporary file   *)
(* and rename it over the old one.  Any of them may fail or be killed at   *)
(* any point; readers take no lock.  The variable ledger of module Ledger  *)
(* is the parsed content of state.json, so this module refines that one    *)
(* with the identity: ImplementsLedger.                                    *)
(***************************************************************************)
EXTENDS Ledger

CONSTANTS
    Updaters,        \* bound: updates in flight at once
    NoUpdater,       \* nobody holds the flock
    Failures         \* whether updates may fail and processes be killed

VARIABLES
    lock,       \* holder of the flock on state.lock
    update,     \* [Updaters -> the call in progress]
    hidden      \* history: jobs whose dismissal was reported as done

vars == <<ledger, lock, update, hidden>>

ASSUME StoreAssumption ==
    /\ NoUpdater \notin Updaters
    /\ Failures \in BOOLEAN

Idle == [pc |-> "idle"]
Calls == {Idle}
    \cup [pc: {"wait", "read"}, request: Requests]
    \cup [pc: {"write", "rename"}, request: Requests, state: Ledgers]

StoreInit ==
    /\ Init
    /\ lock = NoUpdater
    /\ update = [u \in Updaters |-> Idle]
    /\ hidden = {}

Begin(u, r) ==
    /\ update[u] = Idle
    /\ update' = [update EXCEPT ![u] = [pc |-> "wait", request |-> r]]
    /\ UNCHANGED <<ledger, lock, hidden>>

(* flock(LockExclusive) *)
AcquireAnyway(u) ==     \* mutant: the lock is not exclusive
    /\ update[u].pc = "wait"
    /\ lock' = u
    /\ update' = [update EXCEPT ![u].pc = "read"]
    /\ UNCHANGED <<ledger, hidden>>

Acquire(u) ==
    /\ update[u].pc = "wait"
    /\ lock = NoUpdater
    /\ lock' = u
    /\ update' = [update EXCEPT ![u].pc = "read"]
    /\ UNCHANGED <<ledger, hidden>>

(* The jobs a finished call has reported as hidden. *)
Hidden(r) ==
    IF r.op = "dismiss" THEN r.jobs \ r.active
    ELSE IF r.op = "suppress" THEN {r.job} ELSE {}

Return(u) ==
    /\ update' = [update EXCEPT ![u] = Idle]
    /\ lock' = NoUpdater
    /\ hidden' = hidden \cup Hidden(update[u].request)

(* mutate: a change goes on to be written, anything else returns at once.  *)
(* mark_opened and suppress always write, dismiss and set_read when they   *)
(* name a job; writing an equal value is invisible, so only the value      *)
(* decides here.                                                           *)
Mutate(u) ==
    /\ update[u].pc = "read"
    /\ LET r == update[u].request
           state == Apply(r, ledger)
       IN IF state = ledger
          THEN Return(u) /\ UNCHANGED ledger
          ELSE /\ update' = [update EXCEPT ![u] =
                               [pc |-> "write", request |-> r, state |-> state]]
               /\ UNCHANGED <<ledger, lock, hidden>>

(* Writing the temporary file touches nothing anybody reads. *)
WriteTemporary(u) ==
    /\ update[u].pc = "write"
    /\ update' = [update EXCEPT ![u].pc = "rename"]
    /\ UNCHANGED <<ledger, lock, hidden>>

Rename(u) ==
    /\ update[u].pc = "rename"
    /\ ledger' = update[u].state
    /\ Return(u)

(* An error, or the death of the process: the lock goes with the handle,   *)
(* nothing is reported.                                                    *)
Fail(u) ==
    /\ Failures
    /\ update[u].pc # "idle"
    /\ update' = [update EXCEPT ![u] = Idle]
    /\ lock' = IF lock = u THEN NoUpdater ELSE lock
    /\ UNCHANGED <<ledger, hidden>>

Step(u) == Mutate(u) \/ WriteTemporary(u) \/ Rename(u)

StoreNext == \E u \in Updaters :
           \/ \E r \in Requests : Begin(u, r)
           \/ Acquire(u) \/ Step(u) \/ Fail(u)

StoreSpec == StoreInit /\ [][StoreNext]_vars

(* A waiting process gets a lock that keeps becoming free; the others run. *)
FairSpec ==
    StoreSpec /\ \A u \in Updaters : SF_vars(Acquire(u)) /\ WF_vars(Step(u))

-----------------------------------------------------------------------------
StoreTypeOK ==
    /\ TypeOK
    /\ lock \in Updaters \cup {NoUpdater}
    /\ update \in [Updaters -> Calls]
    /\ hidden \subseteq Jobs

(* The file implements the ledger: every rename is one whole operation on  *)
(* the value before it, so no update is lost and none is applied twice.    *)
ImplementsLedger == Spec

(* "a completed-job dismissal cannot be undone by the next stale-while-    *)
(* refresh daemon response" (daemon/cache.rs): once reported, a hidden job *)
(* is never visible in live mode, whatever else is written concurrently.   *)
DismissalsHold ==
    \A j \in hidden : \A active, ended \in BOOLEAN : ~Visible(ledger, j, active, ended)

=============================================================================
