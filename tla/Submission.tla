----------------------------- MODULE Submission -----------------------------
(***************************************************************************)
(* Submitting a bank script through the MCP server: preview_submission and *)
(* submit_job (mcp/submission.rs), over the scan of the bank (ScriptBank)  *)
(* down to the sbatch commands of bank::submit.                            *)
(*                                                                         *)
(* A preview call's token carries the name of the call.  The audit log is  *)
(* here only a step that may fail; what it holds is in JobActions.         *)
(***************************************************************************)
EXTENDS ScriptBank, Sequences, FiniteSets

CONSTANTS
    Previewers,     \* calls of slurm_preview_submission
    Submitters,     \* calls of slurm_submit_job
    Listers,        \* calls of slurm_list_scripts
    PreviewLimit,   \* 256, previews held at once
    Workers,        \* MCP_BLOCKING_CONCURRENCY, calls in progress at once
    Attempts,       \* runs of one sbatch command: 1 locally, up to 3 over ssh
    MaxRestarts     \* bound: restarts of the server

ASSUME SubmissionAssumption ==
    /\ Callers = Previewers \cup Submitters \cup Listers
    /\ Previewers \cap Submitters = {} /\ Listers \cap (Previewers \cup Submitters) = {}
    /\ PreviewLimit \in Nat \ {0} /\ Attempts \in Nat \ {0} /\ Workers \in Nat \ {0}
    /\ MaxRestarts \in Nat

VARIABLES
    previews,   \* the map of tokens held, with the Preview of each
    aged,       \* tokens that are PREVIEW_TTL old
    stage,      \* [Callers -> how far the call is]
    token,      \* [Submitters -> the token taken out of the map]
    tries,      \* [Submitters -> runs of its sbatch command so far]
    ran,        \* [tokens -> scripts the scheduler took for it, in order] (history)
    offered,    \* [tokens -> Preview inserted under it] (history)
    fate,       \* [tokens -> what became of it] (history)
    restarts

serverVars == <<previews, aged, stage, token, tries>>
history == <<ran, offered, fate>>
vars == <<bankVars, serverVars, history, restarts>>

-----------------------------------------------------------------------------
Tokens == Previewers
NoToken == "no token"

Preview == [bytes : Bytes, head : Commits, gen : Gens]
Catalog(c) == [bytes |-> scan[c].bytes, head |-> scan[c].head, gen |-> scan[c].gen]

Stages == {"new", "scan", "record", "attempt", "age", "sbatch", "rejected", "submitted",
           "ok", "failed"}

TypeOK ==
    /\ BankTypeOK
    /\ previews \in UNION {[S -> Preview] : S \in SUBSET Tokens}
    /\ Cardinality(DOMAIN previews) <= PreviewLimit
    /\ aged \subseteq Tokens
    /\ stage \in [Callers -> Stages]
    /\ token \in [Submitters -> Tokens \cup {NoToken}]
    /\ tries \in [Submitters -> 0..Attempts]
    /\ ran \in [Tokens -> Seq(Contents)]
    /\ offered \in [Tokens -> Preview]
    /\ fate \in [Tokens -> {"unseen", "held", "late", "taken"}]

Init ==
    /\ BankInit
    /\ previews = <<>>
    /\ aged = {}
    /\ stage = [c \in Callers |-> "new"]
    /\ token = [s \in Submitters |-> NoToken]
    /\ tries = [s \in Submitters |-> 0]
    /\ ran = [t \in Tokens |-> <<>>]
    /\ offered = [t \in Tokens |-> Moment]
    /\ fate = [t \in Tokens |-> "unseen"]
    /\ restarts = 0

GoTo(c, s) == stage' = [stage EXCEPT ![c] = s]

Over == {"new", "ok", "failed"}
Admitted(c) == stage[c] = "new" /\ Cardinality({d \in Callers : stage[d] \notin Over}) < Workers

(* The call is answered, and what it held locally is gone. *)
Answer(c, s) ==
    /\ GoTo(c, s)
    /\ scan' = [scan EXCEPT ![c] = Idle]
    /\ seen' = [seen EXCEPT ![c] = {}]
    /\ UNCHANGED <<tree, head, cache>>

-----------------------------------------------------------------------------
(* preview_submission *)
CatalogFresh(c) == BeginForced(c)

StartPreview(p) ==
    /\ Admitted(p)
    /\ CatalogFresh(p)
    /\ GoTo(p, "scan")
    /\ UNCHANGED <<previews, aged, token, tries, history, restarts>>

(* exact_script finds it.  A script that validate_script_controller does   *)
(* not let pass is one that is not there.                                  *)
Offerable(c) == scan[c].bytes # NoScript

Unexpired == [t \in DOMAIN previews \ aged |-> previews[t]]

Insert(p) ==
    /\ stage[p] = "scan" /\ scan[p].step = "done"
    /\ IF ~Offerable(p)
       THEN GoTo(p, "rejected") /\ UNCHANGED <<previews, offered, fate>>
       ELSE IF Cardinality(DOMAIN Unexpired) >= PreviewLimit
       THEN previews' = Unexpired /\ GoTo(p, "rejected") /\ UNCHANGED <<offered, fate>>
       ELSE /\ previews' = [t \in DOMAIN Unexpired \cup {p} |->
                               IF t = p THEN Catalog(p) ELSE previews[t]]
            /\ offered' = [offered EXCEPT ![p] = Catalog(p)]
            /\ fate' = [fate EXCEPT ![p] = "held"]
            /\ GoTo(p, "record")
    /\ UNCHANGED <<bankVars, aged, token, tries, ran, restarts>>

(* audit::record after the fact: when it fails the token stays in the map  *)
(* and the client never learns it.                                         *)
RecordPreview(p) ==
    /\ p \in Previewers
    /\ \/ stage[p] = "record" /\ Answer(p, "ok")
       \/ stage[p] \in {"record", "rejected"} /\ Answer(p, "failed")
    /\ UNCHANGED <<previews, aged, token, tries, history, restarts>>

PreviewAges(t) ==
    /\ t \in DOMAIN previews \ aged
    /\ aged' = aged \cup {t}
    /\ UNCHANGED <<bankVars, previews, stage, token, tries, history, restarts>>

-----------------------------------------------------------------------------
(* submit_job: the token leaves the map before anything else happens. *)
Kept(t) == previews         \* mutant: the token is looked up and left in the map
Without(t) == [u \in DOMAIN previews \ {t} |-> previews[u]]

Take(s, t) ==
    /\ Admitted(s) /\ stage[t] = "ok"
    /\ IF t \in DOMAIN previews
       THEN /\ previews' = Without(t)
            /\ token' = [token EXCEPT ![s] = t]
            /\ fate' = [fate EXCEPT ![t] = IF t \in aged THEN "late" ELSE "taken"]
            /\ GoTo(s, "attempt")
       ELSE GoTo(s, "failed") /\ UNCHANGED <<previews, token, fate>>
    /\ UNCHANGED <<bankVars, aged, tries, ran, offered, restarts>>

(* "attempted" goes to the audit log, or the call ends here. *)
RecordAttempt(s) ==
    /\ stage[s] = "attempt"
    /\ GoTo(s, "age") \/ GoTo(s, "failed")
    /\ UNCHANGED <<bankVars, previews, aged, token, tries, history, restarts>>

NeverExpired(t) == FALSE    \* mutant: the age of a token is not looked at again
Expired(t) == t \in aged

CheckAge(s) ==
    /\ stage[s] = "age"
    /\ IF Expired(token[s])
       THEN GoTo(s, "rejected") /\ UNCHANGED bankVars
       ELSE GoTo(s, "scan") /\ CatalogFresh(s)
    /\ UNCHANGED <<previews, aged, token, tries, history, restarts>>

AnyGeneration(a, b) == a.bytes = b.bytes /\ a.head = b.head    \* mutant: generation not compared
Digestless(a, b) == a.head = b.head /\ a.gen = b.gen           \* mutant: bytes not compared

SamePreview(a, b) == a.bytes = b.bytes /\ a.head = b.head /\ a.gen = b.gen

Compare(s) ==
    /\ s \in Submitters /\ stage[s] = "scan" /\ scan[s].step = "done"
    /\ IF Offerable(s) /\ SamePreview(Catalog(s), offered[token[s]])
       THEN GoTo(s, "sbatch") ELSE GoTo(s, "rejected")
    /\ UNCHANGED <<bankVars, previews, aged, token, tries, history, restarts>>

(* bank::submit gives the bytes of this scan to sbatch.  The job may exist *)
(* although the command fails (the deadline, a cancelled request, a lost   *)
(* connection) and although its output is not accepted.  ssh_retry runs a  *)
(* command that failed again.                                              *)
Sbatch(s) ==
    /\ stage[s] = "sbatch"
    /\ tries' = [tries EXCEPT ![s] = @ + 1]
    /\ \/ /\ ran' = [ran EXCEPT ![token[s]] = Append(@, scan[s].bytes)]
          /\ \/ GoTo(s, "submitted")
             \/ GoTo(s, "rejected")
             \/ tries[s] + 1 < Attempts /\ UNCHANGED stage
       \/ /\ UNCHANGED ran
          /\ IF tries[s] + 1 < Attempts THEN UNCHANGED stage ELSE GoTo(s, "rejected")
    /\ UNCHANGED <<bankVars, previews, aged, token, offered, fate, restarts>>

(* The outcome goes to the audit log, whether it can be written or not. *)
RecordOutcome(s) ==
    /\ s \in Submitters
    /\ \/ stage[s] = "submitted" /\ Answer(s, "ok")
       \/ stage[s] = "rejected" /\ Answer(s, "failed")
    /\ token' = [token EXCEPT ![s] = NoToken]
    /\ tries' = [tries EXCEPT ![s] = 0]
    /\ UNCHANGED <<previews, aged, history, restarts>>

-----------------------------------------------------------------------------
(* slurm_list_scripts reads the catalog through the cache. *)
StartList(l) ==
    /\ Admitted(l)
    /\ BeginCached(l)
    /\ GoTo(l, "scan")
    /\ UNCHANGED <<previews, aged, token, tries, history, restarts>>

AnswerList(l) ==
    /\ l \in Listers /\ stage[l] = "scan" /\ scan[l].step = "done"
    /\ IF scan[l].bytes = NoScript THEN Answer(l, "failed") ELSE Answer(l, "ok")
    /\ UNCHANGED <<previews, aged, token, tries, history, restarts>>

(* The server is killed and started again: its calls end where they are,   *)
(* and its previews are gone.                                              *)
Restart ==
    /\ restarts < MaxRestarts
    /\ restarts' = restarts + 1
    /\ previews' = <<>>
    /\ stage' = [c \in Callers |-> IF stage[c] \in Over THEN stage[c] ELSE "failed"]
    /\ scan' = [c \in Callers |-> Idle]
    /\ seen' = [c \in Callers |-> {}]
    /\ token' = [s \in Submitters |-> NoToken]
    /\ tries' = [s \in Submitters |-> 0]
    /\ UNCHANGED <<tree, head, cache, aged, history>>

World ==
    /\ Edit \/ Commit
    /\ UNCHANGED <<serverVars, ran, offered, fate, restarts>>

Scanning(c) ==
    /\ ScanStep(c)
    /\ UNCHANGED <<serverVars, history, restarts>>

Call(c) ==
    \/ c \in Previewers /\ (Insert(c) \/ RecordPreview(c))
    \/ c \in Submitters /\ (RecordAttempt(c) \/ CheckAge(c) \/ Compare(c) \/ Sbatch(c) \/ RecordOutcome(c))
    \/ c \in Listers /\ AnswerList(c)
    \/ Scanning(c)

Requests ==
    \/ \E p \in Previewers : StartPreview(p)
    \/ \E s \in Submitters, t \in Tokens : Take(s, t)
    \/ \E l \in Listers : StartList(l)

Next ==
    \/ Requests
    \/ \E c \in Callers : Call(c)
    \/ \E t \in Tokens : PreviewAges(t)
    \/ World
    \/ CacheAges /\ UNCHANGED <<serverVars, history, restarts>>
    \/ Restart

Spec == Init /\ [][Next]_vars

-----------------------------------------------------------------------------
(* Whatever calls, ages, restarts and answers get lost: a token is spent   *)
(* once at most and not after it lapsed, and only scripts with the bytes   *)
(* that were previewed run for it, as often as one call repeats its        *)
(* command (submission.rs:83-120).                                         *)
TokenStatus(t) ==
    CASE fate[t] = "held" -> IF t \in DOMAIN previews \ aged THEN "offered" ELSE "lapsed"
      [] fate[t] = "late" -> "lapsed"
      [] fate[t] = "taken" -> "spent"
      [] OTHER -> "unseen"

Promise == INSTANCE OneUsePreview WITH
    Offers <- Contents,
    status <- [t \in Tokens |-> TokenStatus(t)],
    offer <- [t \in Tokens |-> offered[t].bytes]

ImplementsOneUse == Promise!Spec

(* What a submission reports as provenance, the script, its commit and the *)
(* catalog generation, was all true at one moment, although the three are  *)
(* read one after the other while the bank changes: the generation of the  *)
(* preview still being there closes the gap (submission.rs:111-117).  A    *)
(* generation of 0 says nothing.                                           *)
ProvenanceIsTrue ==
    \A s \in Submitters :
        stage[s] \in {"sbatch", "submitted"} /\ scan[s].gen # 0 => Catalog(s) \in seen[s]

(* One token, one job: README.md:158 calls it a one-use preview token. *)
OneJobPerToken == \A t \in Tokens : Len(ran[t]) <= 1
=============================================================================
