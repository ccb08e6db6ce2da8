----------------------------- MODULE ScriptBank -----------------------------
(***************************************************************************)
(* A configured bank of sbatch scripts and the scan of it: the walk in an  *)
(* isolated worker, the repository's commit, the cache file beside the     *)
(* state ledger, and the fingerprint of the tree (bank.rs, bank/cache.rs,  *)
(* bank/catalog.rs, bank/provenance.rs).                                   *)
(*                                                                         *)
(* One script stands for the bank.  Name and directives are read off the   *)
(* bytes, so the bytes stand for them as well.  A fingerprint hashes the   *)
(* inode, size and time stamps of every script: gen is a new number for    *)
(* every change of the tree, 0 is the default of a tree it cannot read.    *)
(***************************************************************************)
EXTENDS Integers

CONSTANTS
    Callers,        \* the threads that scan: MCP requests, pickers
    Contents,       \* what the script may hold
    MaxChanges      \* bound: changes of the tree and commits in its repository

ASSUME ScriptBankAssumption ==
    /\ Contents # {}
    /\ MaxChanges \in Nat

VARIABLES
    tree,       \* the bank on disk: the script's bytes, and gen
    head,       \* HEAD of the repository around it
    cache,      \* the cache file: a set of at most one entry
    scan,       \* [Callers -> the catalog being built]
    seen        \* [Callers -> what bank and HEAD were while it scanned] (history)

bankVars == <<tree, head, cache, scan, seen>>

-----------------------------------------------------------------------------
NoScript == "no script"     \* the bank has an error, or the script was not readable

Gens == 0..(MaxChanges + 1)
Commits == 0..MaxChanges
Bytes == Contents \cup {NoScript}

Moment == [bytes |-> tree.bytes, head |-> head, gen |-> tree.gen]
Idle == [step |-> "idle", bytes |-> NoScript, head |-> 0, gen |-> 0]

BankInit ==
    /\ tree \in [bytes : Contents, gen : {1}]
    /\ head = 0
    /\ cache = {}
    /\ scan = [c \in Callers |-> Idle]
    /\ seen = [c \in Callers |-> {}]

BankTypeOK ==
    /\ tree \in [bytes : Contents, gen : Gens]
    /\ head \in Commits
    /\ cache \subseteq [bytes : Contents, head : Commits, gen : Gens, old : BOOLEAN]
    /\ scan \in [Callers -> [step : {"idle", "walk", "head", "store", "generation", "done"},
                             bytes : Bytes, head : Commits, gen : Gens]]
    /\ seen \in [Callers -> SUBSET [bytes : Contents, head : Commits, gen : Gens]]

-----------------------------------------------------------------------------
(* The owner of the bank saves the script, with other bytes or the same,   *)
(* and commits.                                                            *)
MayChange == tree.gen + head <= MaxChanges

Noted ==
    [c \in Callers |-> IF scan[c].step \in {"idle", "done"} THEN seen[c] ELSE seen[c] \cup {Moment'}]

Edit ==
    /\ MayChange
    /\ \E b \in Contents : tree' = [bytes |-> b, gen |-> tree.gen + 1]
    /\ UNCHANGED <<head, cache, scan>>
    /\ seen' = Noted

Commit ==
    /\ MayChange
    /\ head' = head + 1
    /\ UNCHANGED <<tree, cache, scan>>
    /\ seen' = Noted

(* BANK_CACHE_TTL passes since the file was written. *)
CacheAges ==
    /\ \E e \in cache : ~e.old
    /\ cache' = {[e EXCEPT !.old = TRUE] : e \in cache}
    /\ UNCHANGED <<tree, head, scan, seen>>

-----------------------------------------------------------------------------
(* load_bank_cache: the file is young, of this root, and the tree has the  *)
(* fingerprint written in it.                                              *)
Hits == {e \in cache : ~e.old /\ e.gen = tree.gen}

Begin(c) ==
    /\ scan[c].step = "idle"
    /\ seen' = [seen EXCEPT ![c] = {Moment}]

BeginForced(c) ==
    /\ Begin(c)
    /\ scan' = [scan EXCEPT ![c].step = "walk"]
    /\ UNCHANGED <<tree, head, cache>>

BeginCached(c) ==
    /\ Begin(c)
    /\ scan' = [scan EXCEPT ![c] =
        IF Hits = {} THEN [@ EXCEPT !.step = "walk"]
        ELSE LET e == CHOOSE e \in Hits : TRUE
             IN  [step |-> "done", bytes |-> e.bytes, head |-> e.head, gen |-> e.gen]]
    /\ UNCHANGED <<tree, head, cache>>

(* scan_isolated: the worker walks the tree; or it dies, or the banks      *)
(* before it and this one took more than BANK_SCAN_TIME_LIMIT, and the     *)
(* bank is listed with an error and no script.                             *)
Walk(c) ==
    /\ scan[c].step = "walk"
    /\ \/ scan' = [scan EXCEPT ![c].step = "head", ![c].bytes = tree.bytes]
       \/ scan' = [scan EXCEPT ![c].step = "generation"]
    /\ UNCHANGED <<tree, head, cache, seen>>

ReadHead(c) ==
    /\ scan[c].step = "head"
    /\ scan' = [scan EXCEPT ![c].step = "store", ![c].head = head]
    /\ UNCHANGED <<tree, head, cache, seen>>

(* store_bank_cache: the payload under the fingerprint of the tree as it   *)
(* is after the walk.  Nothing else of a scan depends on its success.  A   *)
(* change between the fingerprint and the rename only leaves an entry that *)
(* never matches, no better than the one a failure leaves in place.        *)
StoreCache(c) ==
    /\ scan[c].step = "store"
    /\ scan' = [scan EXCEPT ![c].step = "generation"]
    /\ \/ cache' = {[bytes |-> scan[c].bytes, head |-> scan[c].head, gen |-> tree.gen, old |-> FALSE]}
       \/ UNCHANGED cache
    /\ UNCHANGED <<tree, head, seen>>

(* bank_tree_fingerprint once more, for the catalog. *)
ReadGeneration(c) ==
    /\ scan[c].step = "generation"
    /\ \E g \in {tree.gen, 0} :
        scan' = [scan EXCEPT ![c].step = "done", ![c].gen = g]
    /\ UNCHANGED <<tree, head, cache, seen>>

ScanStep(c) == Walk(c) \/ ReadHead(c) \/ StoreCache(c) \/ ReadGeneration(c)

BankNext ==
    \/ Edit
    \/ Commit
    \/ CacheAges
    \/ \E c \in Callers : ScanStep(c)
=============================================================================
