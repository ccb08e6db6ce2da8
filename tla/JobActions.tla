----------------------------- MODULE JobActions -----------------------------
(***************************************************************************)
(* What the MCP server does to jobs that exist: slurm_cancel_job           *)
(* (mcp/service.rs, slurm/cancellation.rs, bank/catalog.rs) and            *)
(* slurm_adopt_job (mcp/ops.rs, mcp/adoption.rs), with the checks of       *)
(* slurm/authorization.rs, and the two files of JSON lines they write, the *)
(* audit log (mcp/audit.rs) and the adoption ledger.                       *)
(*                                                                         *)
(* All calls name one job id.  What the scheduler knows under that id      *)
(* changes meanwhile: the job ends, is renamed, or the id is another       *)
(* user's.  A line is what it records; files are measured in lines.  Each  *)
(* append holds the flock of its file, so it is one step; the process may  *)
(* be killed inside it.                                                    *)
(***************************************************************************)
EXTENDS Integers, SequencesExt

CONSTANTS
    Cancellers,     \* calls of slurm_cancel_job
    Adopters,       \* calls of slurm_adopt_job
    Requested,      \* "job" or "task": whether the id names an array task
    Accounting,     \* whether the cluster has sacct
    AuditLines,     \* MAX_AUDIT_BYTES
    LedgerLines,    \* ADOPTION_MAX_BYTES
    Attempts,       \* runs of one scancel: 1 locally, up to 3 over ssh
    MaxChanges,     \* bound: changes of the job
    MaxKills        \* bound: kills of the server

ASSUME JobActionsAssumption ==
    /\ Cancellers \cap Adopters = {}
    /\ Requested \in {"job", "task"} /\ Accounting \in BOOLEAN
    /\ AuditLines \in Nat \ {0} /\ LedgerLines \in Nat \ {0} /\ Attempts \in Nat \ {0}
    /\ MaxChanges \in Nat /\ MaxKills \in Nat

VARIABLES
    job,        \* what the scheduler has under the id
    seen,       \* [Calls -> what it had since the call began] (history)
    stage,      \* [Calls -> how far the call is]
    queued,     \* [Cancellers -> the row squeue returned]
    tries,      \* [Cancellers -> scancel commands run]
    audit,      \* mcp-audit.jsonl and its .1
    trail,      \* every line the audit log was given (history)
    ledger,     \* mcp-adopted-jobs.jsonl and its .1
    changes, kills

vars == <<job, seen, stage, queued, tries, audit, trail, ledger, changes, kills>>

-----------------------------------------------------------------------------
Calls == Cancellers \cup Adopters

(* name: the one the caller expects, or not.  scope: an ordinary job, the  *)
(* master of an array, the very task the id spells, or another one.        *)
JobRecords == [mine : BOOLEAN, named : BOOLEAN, active : BOOLEAN,
               scope : {"job", "master", "task", "other task"}]
NoRow == "no row"

Stages == {"new", "attempt", "lookup", "control", "dispatch", "accounting", "append",
           "succeeded", "rejected", "over"}

(* A process killed between rotating and appending leaves one of these. *)
Full(log, limit) == Len(log.cur) >= limit
DropsCurrent(log) == [old |-> log.old, cur |-> <<>>]     \* mutant: rotation removes the wrong file
Rotated(log) == [old |-> log.cur, cur |-> <<>>]
WithoutBackup(log) == [log EXCEPT !.old = <<>>]

Written(log, limit, line) ==
    LET base == IF Full(log, limit) THEN Rotated(log) ELSE log
    IN  [base EXCEPT !.cur = Append(@, line)]

HalfWritten(log, limit) ==
    {log} \cup (IF Full(log, limit) THEN {WithoutBackup(log), Rotated(log)} ELSE {})

EmptyLog == [old |-> <<>>, cur |-> <<>>]

Init ==
    /\ job \in {r \in JobRecords : r.mine /\ r.active /\ r.named}
    /\ seen = [c \in Calls |-> {}]
    /\ stage = [c \in Calls |-> "new"]
    /\ queued = [k \in Cancellers |-> NoRow]
    /\ tries = [k \in Cancellers |-> 0]
    /\ audit = EmptyLog
    /\ trail = <<>>
    /\ ledger = EmptyLog
    /\ changes = 0
    /\ kills = 0

GoTo(c, s) == stage' = [stage EXCEPT ![c] = s]

Running(c) == stage[c] \notin {"new", "over"}

(* The scheduler's record becomes another one. *)
Becomes(r) ==
    /\ job' = r
    /\ seen' = [c \in Calls |-> IF Running(c) THEN seen[c] \cup {r} ELSE seen[c]]

JobChanges ==
    /\ changes < MaxChanges
    /\ changes' = changes + 1
    /\ \/ job.active /\ Becomes([job EXCEPT !.active = FALSE])
       \/ job.mine /\ job.active /\ Becomes([job EXCEPT !.named = ~@])
       \/ Becomes([job EXCEPT !.mine = ~@, !.active = TRUE])
    /\ UNCHANGED <<stage, queued, tries, audit, trail, ledger, kills>>

-----------------------------------------------------------------------------
(* audit::record.  The call goes on at next, or is over when the file      *)
(* cannot be written.                                                      *)
Record(c, result) ==
    /\ audit' = Written(audit, AuditLines, <<c, result>>)
    /\ trail' = Append(trail, <<c, result>>)

Start(c) ==
    /\ stage[c] = "new"
    /\ seen' = [seen EXCEPT ![c] = {job}]
    /\ GoTo(c, "attempt")
    /\ UNCHANGED <<job, queued, tries, audit, trail, ledger, changes, kills>>

GoesOnAnyway(c) == GoTo(c, "lookup")     \* mutant: a failed audit record does not stop the call
Unaudited(c) == GoTo(c, "over")

RecordAttempt(c) ==
    /\ stage[c] = "attempt"
    /\ \/ Record(c, "attempted") /\ GoTo(c, "lookup")
       \/ Unaudited(c) /\ UNCHANGED <<audit, trail>>
    /\ UNCHANGED <<job, seen, queued, tries, ledger, changes, kills>>

(* Whatever comes of it is the answer. *)
RecordOutcome(c) ==
    /\ stage[c] \in {"succeeded", "rejected"}
    /\ GoTo(c, "over")
    /\ \/ Record(c, stage[c])
       \/ UNCHANGED <<audit, trail>>
    /\ UNCHANGED <<job, seen, queued, tries, ledger, changes, kills>>

Reject(c) == GoTo(c, "rejected") /\ UNCHANGED <<queued, tries, ledger>>

-----------------------------------------------------------------------------
(* fresh_cancellable_job, first half: squeue -u lists the id with its      *)
(* owner, and a row of another user is dropped.                            *)
ReadQueue(k) ==
    /\ stage[k] = "lookup"
    /\ \/ Reject(k)
       \/ /\ job.mine /\ job.active
          /\ queued' = [queued EXCEPT ![k] = job]
          /\ GoTo(k, "control")
          /\ UNCHANGED <<tries, ledger>>
    /\ UNCHANGED <<job, seen, audit, trail, changes, kills>>

NotAMaster(r) == r.scope # "master"     \* mutant: the task id is not compared
ProvesScope(r) ==
    CASE Requested = "job" -> r.scope = "job"
      [] Requested = "task" -> r.scope = "task"

(* Second half: scontrol's record must be of this user, active, agree with *)
(* the row, and be exactly what the id spells.  Then the caller's name.    *)
ReadControl(k) ==
    /\ stage[k] = "control"
    /\ \/ Reject(k)
       \/ /\ job.mine /\ job.active
          /\ job.named = queued[k].named
          /\ ProvesScope(job)
          /\ job.named
          /\ GoTo(k, "dispatch")
          /\ UNCHANGED <<queued, tries, ledger>>
    /\ UNCHANGED <<job, seen, audit, trail, changes, kills>>

(* cancel_verified: scancel ends the job there is by now, unless it is     *)
(* another user's, and the command may fail whether it did or not.         *)
Dispatch(k) ==
    /\ stage[k] = "dispatch"
    /\ tries' = [tries EXCEPT ![k] = @ + 1]
    /\ \/ IF job.mine /\ job.active THEN Becomes([job EXCEPT !.active = FALSE])
                                    ELSE UNCHANGED <<job, seen>>
       \/ UNCHANGED <<job, seen>>
    /\ \/ GoTo(k, "succeeded")
       \/ IF tries[k] + 1 < Attempts THEN UNCHANGED stage ELSE GoTo(k, "rejected")
    /\ UNCHANGED <<queued, audit, trail, ledger, changes, kills>>

-----------------------------------------------------------------------------
(* authorize_exact_job asks the queue and, when it has no row of this user *)
(* under the id, accounting where there is one; between the two the job    *)
(* may end or the id be used again.  A row without the expected name, or a *)
(* question that fails, rejects.                                           *)
QueueRow(r) == r.mine /\ r.active
AccountingRow(r) == r.mine

Adopt(a) == job.named /\ GoTo(a, "append") /\ UNCHANGED <<queued, tries, ledger>>

AskQueue(a) ==
    /\ stage[a] = "lookup"
    /\ \/ Reject(a)
       \/ QueueRow(job) /\ Adopt(a)
       \/ /\ ~QueueRow(job) /\ Accounting
          /\ GoTo(a, "accounting")
          /\ UNCHANGED <<queued, tries, ledger>>
    /\ UNCHANGED <<job, seen, audit, trail, changes, kills>>

AskAccounting(a) ==
    /\ stage[a] = "accounting"
    /\ \/ Reject(a)
       \/ AccountingRow(job) /\ Adopt(a)
    /\ UNCHANGED <<job, seen, audit, trail, changes, kills>>

(* append_adoption ignores what goes wrong while rotating; a file that     *)
(* stays is appended to.                                                   *)
AppendAdoption(a) ==
    /\ stage[a] = "append"
    /\ \/ /\ \E base \in HalfWritten(ledger, LedgerLines) :
                ledger' = [base EXCEPT !.cur = Append(@, a)]
          /\ GoTo(a, "succeeded")
          /\ UNCHANGED <<queued, tries>>
       \/ Reject(a)
    /\ UNCHANGED <<job, seen, audit, trail, changes, kills>>

-----------------------------------------------------------------------------
(* The server is killed; a call that was writing leaves its file half done. *)
Kill ==
    /\ kills < MaxKills
    /\ kills' = kills + 1
    /\ \E c \in Calls : Running(c)
    /\ stage' = [c \in Calls |-> IF Running(c) THEN "over" ELSE stage[c]]
    /\ IF \E c \in Calls : stage[c] \in {"attempt", "succeeded", "rejected"}
       THEN audit' \in HalfWritten(audit, AuditLines) ELSE UNCHANGED audit
    /\ IF \E a \in Adopters : stage[a] = "append"
       THEN ledger' \in HalfWritten(ledger, LedgerLines) ELSE UNCHANGED ledger
    /\ UNCHANGED <<job, seen, queued, tries, trail, changes>>

Next ==
    \/ JobChanges
    \/ \E c \in Calls : Start(c) \/ RecordAttempt(c) \/ RecordOutcome(c)
    \/ \E k \in Cancellers : ReadQueue(k) \/ ReadControl(k) \/ Dispatch(k)
    \/ \E a \in Adopters : AskQueue(a) \/ AskAccounting(a) \/ AppendAdoption(a)
    \/ Kill

Spec == Init /\ [][Next]_vars

-----------------------------------------------------------------------------
(* Nothing is done to a job without a line in the audit log that says it   *)
(* was attempted, whatever fails or is killed (README.md:177).             *)
EffectsAreAudited ==
    \A c \in Calls :
        \/ c \in Cancellers /\ tries[c] > 0
        \/ c \in Adopters /\ (Contains(ledger.cur, c) \/ Contains(ledger.old, c))
        => Contains(trail, <<c, "attempted">>)

(* The log and its backup are the end of everything recorded, and at least *)
(* the last AuditLines lines of it: rotation never loses the recent past,  *)
(* not even one that is cut short (audit.rs:110, audit.rs:146).            *)
AuditKeepsRecent ==
    LET kept == audit.old \o audit.cur
    IN  /\ IsSuffix(kept, trail)
        /\ Len(kept) >= IF Len(trail) < AuditLines THEN Len(trail) ELSE AuditLines

(* scancel is only ever run for a job that, at one moment since the call   *)
(* began, was the user's, active, had the expected name, and was no more   *)
(* than what the id spells (README.md:160).                                *)
CancelsOnlyProven ==
    \A k \in Cancellers : tries[k] > 0 =>
        \E r \in seen[k] : r.mine /\ r.active /\ r.named /\ r.scope = Requested

(* And a job is only ever adopted that at one moment was the user's and    *)
(* had the expected name, whatever happened between queue and accounting.  *)
AdoptsOnlyOwned ==
    \A a \in Adopters :
        Contains(ledger.cur, a) \/ Contains(ledger.old, a) => \E r \in seen[a] : r.mine /\ r.named

ActsOnlyOnProven == CancelsOnlyProven /\ AdoptsOnlyOwned
=============================================================================
