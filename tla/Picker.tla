------------------------------- MODULE Picker -------------------------------
(***************************************************************************)
(* The interactive job list (ui/picker.rs, ui/picker_refresh.rs,           *)
(* ui/picker_actions.rs, ui/rows.rs): one loop that takes a new listing    *)
(* when one is due, rebuilds its rows when something made them stale,      *)
(* draws, and waits for a key.  It opens logs from the shell, or manages   *)
(* the panes of a running workspace: then the marks it begins with are the *)
(* open panes, and Enter makes the panes equal to the marks.               *)
(*                                                                         *)
(* In the code a row holds positions in the job list, here the jobs        *)
(* themselves: rows that outlive the list they were made from name jobs    *)
(* that are not in it.  A listing that cannot be fetched leaves everything *)
(* as it was.  s hands the terminal to the script browser.  Warnings,      *)
(* notices, help and drawing styles are left out.                          *)
(***************************************************************************)
EXTENDS BankBrowser

CONSTANTS
    Jobs,
    ClusterOf,          \* [Jobs -> cluster]
    NameOf,             \* [Jobs -> job name]: a row stands for all of a name
    NumberOf,           \* [Jobs -> number of its id, refined to tell array tasks apart]
    FirstListings,      \* what the scheduler may show when the picker starts
    Limit,              \* ids are below it
    MaxKeys,            \* bound: keys pressed
    MaxChanges          \* bound: changes of the queue and failed listings

ASSUME PickerAssumption ==
    /\ IsFiniteSet(Jobs) /\ Limit \in Nat
    /\ NumberOf \in [Jobs -> 0..(Limit - 1)]
    /\ \A i, j \in Jobs : NumberOf[i] = NumberOf[j] => i = j
    /\ MaxKeys \in Nat /\ MaxChanges \in Nat

VARIABLES
    listing,    \* what squeue and sacct know: [Jobs -> state]
    dismissed,  \* the dismissed jobs of the ledger
    changes,
    ui,         \* the locals of pick()
    screen,     \* what was drawn last
    at,         \* "loop", "key" (waits for one), "bank" (the script browser) or "done"
    result,     \* the jobs of the PickResult
    open,       \* the panes it began with (history)
    touched,    \* the jobs whose mark the user gave or took, singly or in bulk (history)
    aimed       \* [row: where the last key left the cursor, rebuilds: since then] (history)

pickVars ==
    <<listing, dismissed, changes, ui, screen, at, result, open, touched, aimed>>

-----------------------------------------------------------------------------
Absent == "absent"
NoJob == "no job"
NoRow == "no row"
All == 0                        \* the cluster tab "all"; tab n is Clusters[n]
NoQuery == "no query"

ASSUME NamesAssumption == NoJob \notin Jobs /\ \A i, j \in Jobs : NameOf[i] # j

Active == {"running", "pending", "blocked"}
Over == {"failed", "completed"}

(* status_rank; "open" is the state of a pane whose job is not listed.     *)
Rank(state) ==
    CASE state = "running" -> 0
      [] state \in {"pending", "blocked"} -> 1
      [] state = "completed" -> 2
      [] OTHER -> 3

(* StateFilter::matches *)
Filters == <<"all", "running", "pending", "failed", "completed">>
Matches(filter, state) ==
    \/ filter = "all"
    \/ filter = state
    \/ filter = "pending" /\ state = "blocked"

InTab(tab, j) == tab = All \/ ClusterOf[j] = Clusters[tab]

(* job_number *)
Order(jobs, j) == Rank(jobs[j]) * Limit + (Limit - 1 - NumberOf[j])

Row(job, name, members, nested) ==
    [job |-> job, name |-> name, members |-> members, nested |-> nested]

Indices(u) ==
    {j \in DOMAIN u.jobs : Matches(u.filter, u.jobs[j]) /\ u.query \in {NoQuery, NameOf[j]}}

(* grouped_rows: a name with several jobs is one row, and one more for     *)
(* each of them when it is open.                                           *)
Named(shown, name) == {j \in shown : NameOf[j] = name}
Several(shown, j) == Named(shown, NameOf[j]) # {j}
GroupRow(shown, j) == Row(NoJob, NameOf[j], Named(shown, NameOf[j]), FALSE)
JobRow(shown, j) == Row(j, NameOf[j], {j}, Several(shown, j))
GroupRows(shown, expanded) ==
    {GroupRow(shown, j) : j \in {i \in shown : Several(shown, i)}} \cup
    {JobRow(shown, j) : j \in {i \in shown : Several(shown, i) => NameOf[i] \in expanded}}

(* Names in the order of their best job, the newest first, and in a name   *)
(* its jobs likewise.                                                      *)
Place(jobs, shown, row) ==
    LET group == Named(shown, row.name)
    IN  <<Min({Rank(jobs[j]) : j \in group}) * Limit - Max({NumberOf[j] : j \in group}),
          IF row.job = NoJob THEN -1 ELSE Order(jobs, row.job)>>

GroupedRows(jobs, shown, expanded) ==
    LET rows == GroupRows(shown, expanded)
        order == Arranged({Place(jobs, shown, row) : row \in rows})
    IN  [i \in DOMAIN order |-> CHOOSE row \in rows : Place(jobs, shown, row) = order[i]]

RowsOf(u) == GroupedRows(u.jobs, Indices(u), u.expanded)

RowKey(row) == IF row.job = NoJob THEN row.name ELSE row.job

Focused(u) == u.rows[u.focus]
HasRows == ui.rows # <<>>
KeyAt(u) == IF u.focus \in DOMAIN u.rows THEN RowKey(Focused(u)) ELSE NoRow

-----------------------------------------------------------------------------
(* The two catalogs behind the marks: what both know, f knows better.      *)
Merged(f, g) == [j \in DOMAIN f \cup DOMAIN g |-> IF j \in DOMAIN f THEN f[j] ELSE g[j]]
Only(f, S) == Restrict(f, S \cap DOMAIN f)

(* remember_selected *)
RememberNothing(u) == u     \* mutant: marks are only known while they are listed
Remember(u) == [u EXCEPT !.known = Merged(Only(u.jobs, u.selected), @)]

(* restore_selected: the marked jobs a listing left out.                   *)
Restore(u) ==
    LET missing == {j \in u.selected \cap DOMAIN u.known :
                       InTab(u.cluster, j) /\ (u.blocked \/ u.known[j] # "blocked")}
    IN  [u EXCEPT !.jobs = Merged(@, Restrict(u.known, missing))]

(* visible_jobs, on a listing of one tab.                                  *)
Visible(u) ==
    {j \in Jobs : /\ listing'[j] # Absent /\ InTab(u.cluster, j)
                  /\ u.blocked \/ listing'[j] # "blocked"
                  /\ u.live => j \notin dismissed'}

(* refresh(): the new list, and the panes pinned to it.                    *)
Fresh(u) ==
    LET pinned == {j \in DOMAIN u.jobs : u.jobs[j] = "open" /\ InTab(u.cluster, j)}
    IN  Merged([j \in Visible(u) |-> listing'[j]], Restrict(u.jobs, pinned))

SameJobs(old, new) == DOMAIN old = DOMAIN new       \* mutant: a new state is no change
Changed(old, new) == old # new

(* A timed refresh rebuilds only when it changed something; a key that     *)
(* refreshes rebuilds in any case.                                         *)
Refreshed(u, forced) ==
    LET changed == Changed(u.jobs, Fresh(u))
    IN  [u EXCEPT !.jobs = Fresh(u), !.viewDirty = @ \/ forced \/ changed,
                  !.catalogDirty = @ \/ changed, !.redraw = @ \/ changed]

NotRefreshed(u, forced) == [u EXCEPT !.viewDirty = @ \/ forced]

-----------------------------------------------------------------------------
(* pick-add hands over the visible jobs and every open pane, with the      *)
(* state the listing has for it or "open".                                 *)
FirstJobs(panes) ==
    LET seen == {j \in Jobs : listing[j] # Absent}
    IN  [j \in {i \in seen : listing[i] # "blocked"} \cup panes |->
            IF j \in seen THEN listing[j] ELSE "open"]

FirstUi(program, panes) ==
    LET jobs == FirstJobs(panes)
    IN  [manage |-> program = "pick-add", direct |-> program = "bank",
         cluster |-> All, live |-> TRUE, blocked |-> FALSE,
         filter |-> "all", query |-> NoQuery,
         jobs |-> Restrict(jobs, {j \in DOMAIN jobs : jobs[j] # "blocked"}),
         known |-> Restrict(jobs, panes), selected |-> panes, expanded |-> {},
         focus |-> 1, focusedKey |-> NoRow, rows |-> <<>>,
         viewDirty |-> TRUE, catalogDirty |-> FALSE, redraw |-> TRUE, selectionDirty |-> FALSE]

Drawn(u) == [rows |-> u.rows, focus |-> u.focus, selected |-> u.selected]

Init ==
    /\ listing \in FirstListings
    /\ dismissed = {}
    /\ changes = 0
    /\ \/ /\ \E panes \in SUBSET Jobs \ {{}} : ui = FirstUi("pick-add", panes) /\ open = panes
          /\ at = "loop" /\ bank = Closed
       \/ /\ ui = FirstUi("picker", {}) /\ open = {}
          /\ at = "loop" /\ bank = Closed
       \/ /\ ui = FirstUi("bank", {}) /\ open = {}
          /\ at = "bank" /\ bank \in {Opened(scripts) : scripts \in Scans}
    /\ screen = Drawn(ui)
    /\ keys = 0
    /\ result = {}
    /\ touched = {}
    /\ aimed = [row |-> NoRow, rebuilds |-> 0]

-----------------------------------------------------------------------------
(* Outside: a job is submitted, starts, is blocked, ends, or leaves        *)
(* the accounting window.                                                  *)
Successors(state) ==
    CASE state = Absent -> {"pending"}
      [] state = "pending" -> {"running", "blocked"}
      [] state = "blocked" -> {"failed"}
      [] state = "running" -> {"completed"}
      [] OTHER -> {Absent}

QueueChanges(j) ==
    /\ at \in {"loop", "key"} /\ changes < MaxChanges
    /\ \E s \in Successors(listing[j]) : listing' = [listing EXCEPT ![j] = s]
    /\ changes' = changes + 1
    /\ UNCHANGED <<dismissed, ui, screen, at, result, open, touched, aimed>>

(* One pass of the loop, up to the poll for a key. *)
Rebuild(u) ==
    LET remembered == IF u.catalogDirty THEN Remember(u) ELSE u
        restored == IF u.manage /\ u.viewDirty THEN Restore(remembered) ELSE remembered
        rows == RowsOf(restored)
        found == {k \in 1..Len(rows) : RowKey(rows[k]) = u.focusedKey}
        focus == IF found # {} THEN CHOOSE k \in found : TRUE ELSE u.focus
        last == IF rows = <<>> THEN 1 ELSE Len(rows)
    IN  IF ~u.viewDirty THEN [remembered EXCEPT !.catalogDirty = FALSE]
        ELSE [restored EXCEPT !.catalogDirty = FALSE, !.viewDirty = FALSE, !.rows = rows,
                 !.focusedKey = NoRow, !.focus = IF focus > last THEN last ELSE focus]

Pass(u) ==
    LET built == Rebuild(u)
    IN  /\ ui' = [built EXCEPT !.redraw = FALSE]
        /\ screen' = IF built.redraw THEN Drawn(built) ELSE screen
        /\ aimed' = IF u.viewDirty /\ aimed.rebuilds < 2 THEN [aimed EXCEPT !.rebuilds = @ + 1]
                     ELSE aimed
        /\ at' = "key"
        /\ UNCHANGED <<result, open, touched>>

LoopPass == at = "loop" /\ Pass(ui) /\ UNCHANGED <<listing, dismissed, changes>>

(* The same after the poll ran out of time and a refresh is due.           *)
TimedRefresh ==
    /\ at \in {"loop", "key"}
    /\ UNCHANGED <<listing, dismissed, changes>>
    /\ \E u \in {Refreshed(ui, FALSE)} : Pass(u)

-----------------------------------------------------------------------------
(* Keys.  A key that replaces the job list keeps the row it was pressed    *)
(* on, any other the row it moves the cursor to.                           *)
ForgetRow(u) == NoRow           \* mutant: the rebuild has no row to look for
CursorRow(u) == KeyAt(u)

Press(u) ==
    /\ at' = "loop"
    /\ ui' = [u EXCEPT !.redraw = TRUE, !.focusedKey = CursorRow(u)]
    /\ aimed' = [row |-> KeyAt(u), rebuilds |-> 0]
    /\ UNCHANGED <<screen, result, open>>

Leave(jobs) ==
    /\ at' = "done"
    /\ result' = jobs
    /\ UNCHANGED <<ui, screen, open, aimed>>

Outside == UNCHANGED <<listing, dismissed, changes>>
Marks(u) == touched' = touched \cup (u.selected \ ui.selected) \cup (ui.selected \ u.selected)
Same == UNCHANGED touched

(* refresh() as part of a key. *)
PressAndRefresh(u) ==
    \/ Press(Refreshed(u, TRUE)) /\ UNCHANGED changes
    \/ changes < MaxChanges /\ Press(NotRefreshed(u, TRUE)) /\ changes' = changes + 1

Move ==
    /\ LET last == IF HasRows THEN Len(ui.rows) ELSE 1
       IN  \E k \in {1, last} \cup ({ui.focus - 1, ui.focus + 1} \cap 1..last) :
             Press([ui EXCEPT !.focus = k])
    /\ Outside /\ Same

Stale(u) == [u EXCEPT !.viewDirty = TRUE]

Expand ==
    /\ HasRows /\ Focused(ui).job = NoJob
    /\ Press(Stale([ui EXCEPT !.expanded = @ \cup {Focused(ui).name}]))
    /\ Outside /\ Same

Collapse ==
    /\ HasRows /\ Focused(ui).name \in ui.expanded
    /\ Press(Stale([ui EXCEPT !.expanded = @ \ {Focused(ui).name}]))
    /\ Outside /\ Same

(* toggle *)
Toggled(selected, members) ==
    IF members \subseteq selected THEN selected \ members ELSE selected \cup members

ToggleMarks ==
    /\ HasRows
    /\ LET u == [ui EXCEPT !.selected = Toggled(@, Focused(ui).members), !.selectionDirty = TRUE]
       IN  Press(Remember(u)) /\ Marks(u)
    /\ Outside

MarkVisible ==
    /\ LET u == [ui EXCEPT !.selected = @ \cup Indices(ui), !.selectionDirty = TRUE]
       IN  Press(Remember(u)) /\ Marks(u)
    /\ Outside

ClearMarks ==
    /\ LET u == [ui EXCEPT !.selected = {}, !.selectionDirty = TRUE]
       IN  Press(u) /\ Marks(u)
    /\ Outside

(* Tab: a picker that manages a workspace keeps marks of other tabs.       *)
Tabs == IF Len(Clusters) = 1 THEN {1}
        ELSE {(ui.cluster + step) % (Len(Clusters) + 1) : step \in {1, Len(Clusters)}}

AlwaysUnmark(u) == [u EXCEPT !.selected = @ \cap DOMAIN u.jobs]     \* mutant: in every picker
Unmark(u) == IF u.manage THEN u ELSE [u EXCEPT !.selected = @ \cap DOMAIN u.jobs]

CycleCluster ==
    /\ UNCHANGED <<listing, dismissed>>
    /\ \E tab \in Tabs :
         LET moved == [ui EXCEPT !.cluster = tab]
         IN  \/ Press(Unmark(Refreshed(moved, TRUE))) /\ UNCHANGED changes
             \/ /\ changes < MaxChanges /\ changes' = changes + 1
                /\ Press(Unmark(NotRefreshed(moved, TRUE)))
    /\ Same

(* d: the marked jobs of the list, or the focused row; only those over.    *)
Dismiss ==
    /\ HasRows /\ ui.live
    /\ LET targets == IF ui.selected = {} THEN Focused(ui).members
                      ELSE ui.selected \cap DOMAIN ui.jobs
           hidden == targets \cap dismissed'
           u == [ui EXCEPT !.jobs = Only(@, Jobs \ hidden), !.selected = @ \ hidden]
       IN  /\ dismissed' = dismissed \cup {j \in targets : ui.jobs[j] \in Over}
           /\ IF \E j \in targets : ui.jobs[j] \in Over
              THEN Press(Stale(u)) /\ Marks(u)
              ELSE Press(ui) /\ Same
    /\ UNCHANGED <<listing, changes>>

(* x, confirmed: the focused job only; its listing is read again.          *)
Stop ==
    /\ HasRows /\ Focused(ui).job # NoJob
    /\ ui.jobs[Focused(ui).job] \in Active
    /\ listing' \in {listing, [listing EXCEPT ![Focused(ui).job] = "failed"]}
    /\ UNCHANGED dismissed
    /\ PressAndRefresh(ui)
    /\ Same

Reload == UNCHANGED <<listing, dismissed>> /\ PressAndRefresh(ui) /\ Same

(* o and a: live, or one of the windows of the past.                       *)
History ==
    /\ UNCHANGED <<listing, dismissed>>
    /\ \E live \in BOOLEAN :
         /\ ui.live => ~live
         /\ PressAndRefresh([ui EXCEPT !.live = live, !.query = NoQuery])
    /\ Same

ShowBlocked ==
    /\ UNCHANGED <<listing, dismissed>>
    /\ PressAndRefresh([ui EXCEPT !.blocked = ~@])
    /\ Same

NextFilter ==
    /\ \E k \in 1..5 :
         /\ Filters[k] = ui.filter
         /\ Press(Stale([ui EXCEPT !.filter = Filters[(k % 5) + 1]]))
    /\ Outside /\ Same

(* /, or Esc on a search *)
Search ==
    /\ \E q \in {NameOf[j] : j \in Jobs} \cup {NoQuery} :
         /\ q # ui.query
         /\ Press(Stale([ui EXCEPT !.query = q]))
    /\ Outside /\ Same

(* i on a job, w, W, A, and keys without a meaning.                        *)
OtherKey == Press(ui) /\ Outside /\ Same

Quit == Leave({}) /\ Outside /\ Same

(* Enter *)
Enter ==
    /\ HasRows
    /\ LET members == Focused(ui).members
           u == IF ui.manage /\ ~ui.selectionDirty
                THEN [ui EXCEPT !.selected = Toggled(@, members)] ELSE ui
           known == Remember(u).known
           name == Focused(ui).name
       IN  /\ \/ u.selected # {} /\ Leave(u.selected \cap DOMAIN known)
              \/ u.selected = {} /\ Focused(ui).job # NoJob /\ Leave(members)
              \/ /\ u.selected = {} /\ Focused(ui).job = NoJob
                 /\ Press(Stale([u EXCEPT !.expanded = Toggled(@, {name})]))
           /\ touched' = touched \cup (u.selected \ ui.selected) \cup (ui.selected \ u.selected)
                                 \cup (IF u.selected = {} THEN members ELSE {})
    /\ Outside

(* s, and the way back: a submitted job is the result, or one more pane of *)
(* the workspace (the marks know nothing of it).  What happens inside is   *)
(* the same in `slurm-log bank`, where it is followed key by key.          *)
OpenBrowser ==
    /\ at = "key" /\ keys < MaxKeys
    /\ keys' = keys + 1
    /\ at' = "bank"
    /\ ui' = [ui EXCEPT !.redraw = TRUE, !.focusedKey = CursorRow(ui)]
    /\ aimed' = [row |-> KeyAt(ui), rebuilds |-> 0]
    /\ UNCHANGED <<bank, screen, result, open>> /\ Outside /\ Same

CloseBrowser ==
    /\ at = "bank" /\ ~ui.direct
    /\ at' \in {"loop", IF ui.manage THEN "loop" ELSE "done"}
    /\ UNCHANGED <<browserVars, ui, screen, result, open, aimed>> /\ Outside /\ Same

BankProgram ==
    /\ at = "bank" /\ ui.direct
    /\ \/ BrowserKey /\ UNCHANGED at
       \/ (LeaveBrowser \/ Submit) /\ at' = "done"
    /\ UNCHANGED <<ui, screen, result, open, aimed>> /\ Outside /\ Same

Key ==
    \/ Move \/ Expand \/ Collapse \/ ToggleMarks \/ MarkVisible \/ ClearMarks \/ CycleCluster
    \/ Dismiss \/ Stop \/ Reload \/ History \/ ShowBlocked \/ NextFilter \/ Search \/ OtherKey
    \/ Quit \/ Enter

Pick ==
    /\ \/ /\ LoopPass \/ TimedRefresh \/ \E j \in Jobs : QueueChanges(j)
          /\ UNCHANGED keys
       \/ at = "key" /\ keys < MaxKeys /\ keys' = keys + 1 /\ Key
    /\ UNCHANGED bank

Next == Pick \/ OpenBrowser \/ CloseBrowser \/ BankProgram

vars == <<pickVars, browserVars>>

Spec == Init /\ [][Next]_vars

-----------------------------------------------------------------------------
Waiting == at = "key"

(* A key acts on what the user sees: the rows on the screen are the rows   *)
(* of the job list, the filters and the marks as they are now.             *)
KeysActOnWhatIsDrawn ==
    Waiting => /\ screen = Drawn(ui)
               /\ ui.rows = RowsOf(ui)
               /\ HasRows => ui.focus \in DOMAIN ui.rows

(* No job is hidden, however names are grouped, folded and filtered, and   *)
(* no row is found under the key of another: what a rebuild looks for and  *)
(* what a key is about is one row.                                         *)
RowsTellJobsApart ==
    Waiting => /\ \A j \in Indices(ui) : \E k \in DOMAIN ui.rows : j \in ui.rows[k].members
               /\ \A k, l \in DOMAIN ui.rows :
                     RowKey(ui.rows[k]) = RowKey(ui.rows[l]) => k = l

(* Enter opens the marks the user sees, and in a workspace it closes no    *)
(* pane whose mark the user did not take, whatever tab, filter, listing or *)
(* search was in between.                                                  *)
OpensWhatWasMarked ==
    at = "done" /\ result # {} =>
        /\ open \ touched \subseteq result
        /\ result \subseteq open \cup touched
        /\ \A k \in DOMAIN screen.rows :
              LET members == screen.rows[k].members
              IN  members \subseteq screen.selected \ screen.rows[screen.focus].members =>
                      members \subseteq result

(* A new listing does not slip another job under the cursor: the row a key *)
(* left it on keeps it through the rebuild that follows.                   *)
CursorKeepsItsRow ==
    Waiting /\ aimed.rebuilds <= 1 /\ (\E k \in DOMAIN ui.rows : RowKey(ui.rows[k]) = aimed.row)
        => KeyAt(ui) = aimed.row

(* Whatever was searched, folded or scanned again: the script the user     *)
(* confirms is one the target of that moment may run.                      *)
SubmitsWhereItBelongs == bank.at = "confirm" => Supports(Under.script, Target(bank))

=============================================================================
