----------------------------- MODULE BankBrowser -----------------------------
(***************************************************************************)
(* The script browser (bank/ui.rs, bank/index.rs): a tree of one bank's    *)
(* scripts as one cluster sees it, a search over them, and the submission  *)
(* of the script under the cursor once the user has said yes.  Rows are    *)
(* rebuilt only when a key marked them stale.  A script is bound to the    *)
(* cluster its bank comes from, or shared by all.                          *)
(***************************************************************************)
EXTENDS Integers, SequencesExt

CONSTANTS
    Clusters,           \* a sequence, in the order of the configuration
    Directories,        \* a sequence of paths, sorted as the index sorts them
    Scripts,            \* a sequence of the scripts there may be, in scan order
    DirectoryOf,        \* [scripts -> its directory; <<>> is the root of the bank]
    OriginOf,           \* [scripts -> its cluster, or Shared]
    MaxBankKeys         \* bound: keys pressed

ASSUME BankBrowserAssumption ==
    /\ Len(Clusters) \in Nat \ {0} /\ Len(Directories) \in Nat /\ Len(Scripts) \in Nat
    /\ MaxBankKeys \in Nat

VARIABLES
    bank,       \* the locals of run()
    keys        \* keys pressed

browserVars == <<bank, keys>>

-----------------------------------------------------------------------------
Shared == "shared"
NoScript == "no script"
NoSearch == "no search"
Root == <<>>
BankRow == [kind |-> "bank", path |-> Root, script |-> NoScript]
DirectoryRow(path) == [kind |-> "directory", path |-> path, script |-> NoScript]
FileRow(s) == [kind |-> "file", path |-> DirectoryOf[s], script |-> s]

(* supports_cluster *)
Supports(s, c) == OriginOf[s] \in {Shared, c}

Target(b) == Clusters[b.target]

(* BankIndex: the scripts of the target, by their number, and the         *)
(* directories that hold any at whatever depth.                            *)
Supported(b) ==
    {k \in DOMAIN Scripts : Scripts[k] \in b.scripts /\ Supports(Scripts[k], Target(b))}
FilesIn(b, path) == {k \in Supported(b) : DirectoryOf[Scripts[k]] = path}
Within(b, path) == \E k \in Supported(b) : IsPrefix(path, DirectoryOf[Scripts[k]])
Ancestors(path) == {SubSeq(path, 1, n) : n \in 1..(Len(path) - 1)}

(* A row is at a place <<d, k>>: the bank at <<0, 0>>, directory d at      *)
(* <<d, 0>>, script k behind its directory, those of the root after all    *)
(* directories.  A search lists files only; a tree shows what the open     *)
(* directories do.                                                         *)
Grid == (0..(Len(Directories) + 1)) \X (0..Len(Scripts))
RowAt(place) ==
    IF place[2] > 0 THEN FileRow(Scripts[place[2]])
    ELSE IF place[1] = 0 THEN BankRow ELSE DirectoryRow(Directories[place[1]])

InTree(b, d, k) ==
    \/ d = 0 /\ k = 0
    \/ /\ Root \in b.expanded /\ d \in DOMAIN Directories /\ Within(b, Directories[d])
       /\ Ancestors(Directories[d]) \subseteq b.expanded
       /\ \/ k = 0
          \/ Directories[d] \in b.expanded /\ k \in FilesIn(b, Directories[d])
    \/ Root \in b.expanded /\ d = Len(Directories) + 1 /\ k \in FilesIn(b, Root)

Places(b) ==
    {p \in Grid : IF b.query # NoSearch
                  THEN p[1] = 0 /\ p[2] \in Supported(b) /\ Scripts[p[2]] = b.query
                  ELSE Supported(b) # {} /\ InTree(b, p[1], p[2])}

(* Pairs of numbers in their order. *)
Precedes(p, q) == p[1] < q[1] \/ (p[1] = q[1] /\ p[2] < q[2])
Before(places, p) == {q \in places : Precedes(q, p)}
Arranged(places) ==
    [i \in 1..Cardinality(places) |->
        CHOOSE p \in places : Cardinality(Before(places, p)) = i - 1]

BankRows(b) ==
    LET order == Arranged(Places(b)) IN [i \in DOMAIN order |-> RowAt(order[i])]

-----------------------------------------------------------------------------
Closed == [at |-> "closed", scripts |-> {}, rows |-> <<>>, focus |-> 1, query |-> NoSearch,
           expanded |-> {}, target |-> 1, dirty |-> TRUE]

(* The rows, then the clamp and the frame. *)
Draw(b) ==
    LET rows == IF b.dirty THEN BankRows(b) ELSE b.rows
    IN  [b EXCEPT !.rows = rows, !.dirty = FALSE,
                  !.focus = IF @ > Len(rows) /\ rows # <<>> THEN Len(rows)
                            ELSE IF rows = <<>> THEN 1 ELSE @]

(* A scan finds some of the scripts: they come and go on disk.             *)
Scans == SUBSET ToSet(Scripts)
Opened(scripts) == Draw([Closed EXCEPT !.at = "browse", !.scripts = scripts])

Typed(place, b) ==
    /\ bank.at = place /\ keys < MaxBankKeys
    /\ keys' = keys + 1
    /\ bank' = Draw(b)

Dirty(b) == [b EXCEPT !.dirty = TRUE]

StepFocus ==
    \E k \in {bank.focus - 1, bank.focus + 1} :
        k \in DOMAIN bank.rows /\ Typed("browse", [bank EXCEPT !.focus = k])

(* Tab and Shift-Tab: another target sees other scripts.                   *)
KeepRows(t) == [bank EXCEPT !.target = t]       \* mutant: the rows stay those of the old target
Retarget(t) == Dirty([bank EXCEPT !.target = t])

NextTarget ==
    \E step \in {0, Len(Clusters) - 2} :
        Typed("browse", Retarget(((bank.target + step) % Len(Clusters)) + 1))

Rescan ==
    \E found \in Scans :
        Typed("browse", Dirty([bank EXCEPT !.scripts = found, !.expanded = @ \cup {Root}]))

StartSearch == Typed("browse", Dirty([bank EXCEPT !.at = "search", !.query = NoSearch]))
EditSearch ==
    \E s \in ToSet(Scripts) \cup {NoSearch} : Typed("search", Dirty([bank EXCEPT !.query = s]))
EndSearch ==
    \/ Typed("search", [bank EXCEPT !.at = "browse"])
    \/ Typed("search", Dirty([bank EXCEPT !.at = "browse", !.query = NoSearch]))
ClearSearch ==
    bank.query # NoSearch /\ Typed("browse", Dirty([bank EXCEPT !.query = NoSearch]))

Under == bank.rows[bank.focus]
OnRow(kinds) == bank.focus \in DOMAIN bank.rows /\ Under.kind \in kinds

Fold ==
    /\ OnRow({"bank", "directory"})
    /\ Typed("browse", Dirty([bank EXCEPT !.expanded =
           IF Under.path \in @ THEN @ \ {Under.path} ELSE @ \cup {Under.path}]))
CloseFold ==
    /\ OnRow({"bank", "directory"}) /\ Under.path \in bank.expanded
    /\ Typed("browse", Dirty([bank EXCEPT !.expanded = @ \ {Under.path}]))

(* submit_flow: the confirmation, then bank::submit; a submission that     *)
(* fails is a warning and no more than a refusal to confirm.               *)
AskSubmit == OnRow({"file"}) /\ Typed("browse", [bank EXCEPT !.at = "confirm"])
Decline == Typed("confirm", [bank EXCEPT !.at = "browse"])

(* A job: the browser is left with it.                                     *)
Submit == bank.at = "confirm" /\ bank' = Closed /\ UNCHANGED keys

LeaveBrowser ==
    bank.at = "browse" /\ bank.query = NoSearch /\ bank' = Closed /\ UNCHANGED keys

BrowserKey ==
    \/ StepFocus \/ NextTarget \/ Rescan \/ StartSearch \/ EditSearch \/ EndSearch \/ ClearSearch
    \/ Fold \/ CloseFold \/ AskSubmit \/ Decline
=============================================================================
