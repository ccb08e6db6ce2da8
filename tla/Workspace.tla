------------------------------ MODULE Workspace ------------------------------
(***************************************************************************)
(* The tmux session of slurm-log: its panes, and the commands that change  *)
(* them (tmux.rs, tmux/workspace.rs, tmux/detail_pane.rs,                  *)
(* tmux/reconcile.rs, tmux/monitor.rs).  Every command is a process of its *)
(* own, started by a key binding, a popup, the auto-add monitor or a       *)
(* follower that ends; each tmux call that changes something is one step   *)
(* (what a command reads in a row is one, too), and no lock keeps the      *)
(* others out between two of them.                                         *)
(*                                                                         *)
(* A log pane shows a job; a details pane is paired with a log pane.  Both *)
(* carry the cluster and job options panes() looks for, so that most of    *)
(* this code counts a details pane as one more pane of its job.  tmux      *)
(* itself is outside the repository: a pane id is never used twice, and    *)
(* the session ends with its last pane.                                    *)
(***************************************************************************)
EXTENDS Integers, FiniteSets

CONSTANTS
    Jobs,
    Processes,      \* commands that may run at once (bound)
    MaxPanes,       \* bound: panes ever created
    MaxCommands,    \* bound: commands ever started
    MaxRefusals     \* bound: splits tmux refuses for want of room

NoJob == "no job"

ASSUME WorkspaceAssumption ==
    /\ NoJob \notin Jobs
    /\ MaxPanes \in Nat \ {0} /\ MaxCommands \in Nat /\ MaxRefusals \in Nat

VARIABLES
    panes,      \* the live panes: [id -> its options]
    created,    \* pane ids used
    proc,       \* [Processes -> the command it runs]
    alone,      \* [Processes -> nobody else has touched the panes since it began] (history)
    commands, refusals

workspaceVars == <<panes, created, proc, alone, commands, refusals>>

-----------------------------------------------------------------------------
NoPane == 0
Unlabelled == [job |-> NoJob, parent |-> NoPane]

Ids == DOMAIN panes
Details == {p \in Ids : panes[p].parent # NoPane}
DetailsOf(p) == {d \in Details : panes[d].parent = p}

(* panes(): every pane with a cluster and a job, the details panes too. *)
Listed == {p \in Ids : panes[p].job # NoJob}
Shown(ids) == {panes[p].job : p \in ids \cap Ids}
LogPanes == Listed \ Details

Alive == Ids # {}

Without(ids) == [p \in Ids \ ids |-> panes[p]]
With(p, options) == [q \in Ids \cup {p} |-> IF q = p THEN options ELSE panes[q]]

Idle == [cmd |-> "none", at |-> "idle", want |-> {}, keys |-> {}, kills |-> {}, next |-> "idle",
         job |-> NoJob, focus |-> NoPane, pane |-> NoPane, anchor |-> NoPane]

WorkspaceInit ==
    /\ panes = <<>>
    /\ created = 0
    /\ proc = [c \in Processes |-> Idle]
    /\ alone = [c \in Processes |-> FALSE]
    /\ commands = 0
    /\ refusals = 0

At(c, place) == proc[c].at = place
Becomes(c, rec) == proc' = [proc EXCEPT ![c] = rec]
Goto(c, place) == Becomes(c, [proc[c] EXCEPT !.at = place])

(* A tmux call of c leaves these panes; the other commands are disturbed.  *)
Makes(c, new) ==
    /\ panes' = new
    /\ alone' = [d \in Processes |-> alone[d] /\ (d = c \/ new = panes)]
    /\ UNCHANGED commands

Looks == UNCHANGED <<panes, created, alone, commands, refusals>>

-----------------------------------------------------------------------------
(* Which commands there are, and what each is given.                       *)
Orphans == {d \in Details : panes[d].parent \notin Ids}

Begin(c, cmd, rec) ==
    /\ At(c, "idle") /\ commands < MaxCommands
    /\ Becomes(c, [rec EXCEPT !.cmd = cmd])
    /\ commands' = commands + 1
    /\ alone' = [alone EXCEPT ![c] = Orphans = {}]
    /\ UNCHANGED <<panes, created, refusals>>

Open(c) ==
    /\ created = 0 /\ \A d \in Processes : At(d, "idle")
    /\ \E S \in SUBSET Jobs \ {{}} : Begin(c, "open", [Idle EXCEPT !.at = "new", !.want = S])

(* Enter in the picker of the workspace; a job submitted from the picker,  *)
(* or an addition of the monitor.                                          *)
PickAdd(c) ==
    \E S \in SUBSET Jobs \ {{}} : Begin(c, "pick", [Idle EXCEPT !.at = "clear", !.want = S])
AddJob(c) == \E j \in Jobs : Begin(c, "add", [Idle EXCEPT !.at = "gather", !.job = j])

JobGone(c) == \E j \in Jobs : Begin(c, "gone", [Idle EXCEPT !.at = "gone", !.job = j])
ToggleDetails(c) == \E p \in Ids : Begin(c, "details", [Idle EXCEPT !.at = "toggle", !.focus = p])
ClosePane(c) == \E p \in Ids : Begin(c, "close", [Idle EXCEPT !.at = "close", !.focus = p])
FollowerEnds(c) ==
    \E p \in Ids \ Details : Begin(c, "leave", [Idle EXCEPT !.at = "leave", !.focus = p])
QuitKey(c) == Begin(c, "quit", [Idle EXCEPT !.at = "quit"])

Command(c) ==
    \/ Open(c)
    \/ Alive /\ (\/ PickAdd(c) \/ AddJob(c) \/ JobGone(c) \/ ToggleDetails(c)
                 \/ ClosePane(c) \/ FollowerEnds(c) \/ QuitKey(c))

-----------------------------------------------------------------------------
(* Killing the panes of a list, one call each; a pane that is gone already *)
(* is no error.                                                            *)
WithKills(rec, ids, next) ==
    [rec EXCEPT !.at = IF ids = {} THEN next ELSE "kill", !.kills = ids, !.next = next]

KillOne(c) ==
    /\ At(c, "kill")
    /\ \E p \in proc[c].kills :
         /\ Makes(c, Without({p}))
         /\ Becomes(c, WithKills(proc[c], proc[c].kills \ {p}, proc[c].next))
    /\ UNCHANGED <<created, refusals>>

KillFocus(c) ==
    /\ At(c, "last")
    /\ Makes(c, Without({proc[c].focus}))
    /\ Goto(c, "done")
    /\ UNCHANGED <<created, refusals>>

(* split-window: tmux refuses without room, and in a session that is gone. *)
Room == Alive /\ created < MaxPanes
NoRoom == ~Room \/ refusals < MaxRefusals
Refused(target) ==
    refusals' = IF Room /\ target \in Ids \cup {NoPane} THEN refusals + 1 ELSE refusals

NewPane(c, job, place) ==
    /\ Room
    /\ Makes(c, With(created + 1, Unlabelled))
    /\ created' = created + 1
    /\ Becomes(c, [proc[c] EXCEPT !.at = place, !.pane = created + 1, !.job = job,
                                  !.keys = @ \cup {job}])
    /\ UNCHANGED refusals

(* open() kills the session it could not fill; reconcile leaves what is.   *)
PanesAsTheyAre(c) == panes      \* mutant: a half-open workspace is left behind
AfterRefusal(c) == IF proc[c].cmd = "open" THEN <<>> ELSE panes

-----------------------------------------------------------------------------
(* open *)
NewSession(c) ==
    /\ At(c, "new")
    /\ \E j \in proc[c].want :
         /\ Makes(c, With(1, Unlabelled))
         /\ Becomes(c, [proc[c] EXCEPT !.at = "label", !.pane = 1, !.job = j, !.keys = {j}])
    /\ created' = 1
    /\ UNCHANGED refusals

(* label: the options are a call of their own.                             *)
Label(c) ==
    /\ At(c, "label")
    /\ LET p == proc[c].pane
       IN  Makes(c, IF p \in Ids THEN With(p, [job |-> proc[c].job, parent |-> NoPane]) ELSE panes)
    /\ Goto(c, IF proc[c].cmd = "open" /\ proc[c].pane = 1 THEN "setup" ELSE "split")
    /\ UNCHANGED <<created, refusals>>

(* setup: one batch of options and key bindings, then auto-add.  What goes *)
(* wrong here (a ledger that cannot be read, say) ends the command, and    *)
(* its session stays with the placeholder.                                 *)
Setup(c) ==
    /\ At(c, "setup")
    /\ Goto(c, "respawn") \/ Goto(c, "broken")
    /\ Looks

(* The placeholder of the first pane becomes its follower. *)
Respawn(c) ==
    /\ At(c, "respawn")
    /\ \/ 1 \in Ids /\ Goto(c, "split") /\ Looks
       \/ /\ NoRoom \/ 1 \notin Ids
          /\ Refused(1)
          /\ Makes(c, AfterRefusal(c))
          /\ Goto(c, "failed")
          /\ UNCHANGED created

Split(c) ==
    /\ At(c, "split") /\ proc[c].want \ proc[c].keys # {}
    /\ \/ \E j \in proc[c].want \ proc[c].keys : NewPane(c, j, "label")
       \/ /\ NoRoom /\ Refused(NoPane)
          /\ Makes(c, AfterRefusal(c))
          /\ Goto(c, "failed")
          /\ UNCHANGED created

(* reconcile closes the anchor last; open has none.                        *)
AllSplit(c) ==
    /\ At(c, "split") /\ proc[c].want \subseteq proc[c].keys
    /\ Makes(c, Without({proc[c].anchor}))
    /\ Goto(c, "done")
    /\ UNCHANGED <<created, refusals>>

-----------------------------------------------------------------------------
(* reconcile *)
Gather(c) ==
    /\ At(c, "gather")
    /\ Becomes(c, [proc[c] EXCEPT !.at = "clear", !.want = Shown(Listed) \cup {proc[c].job}])
    /\ Looks

CloseDetails(c) ==
    /\ At(c, "clear")
    /\ Becomes(c, WithKills(proc[c], Details, "read"))
    /\ Looks

(* obsolete_panes: with nothing to keep, one pane stays until the others   *)
(* are there.                                                              *)
NoAnchor(obsolete) == {NoPane}      \* mutant: every old pane goes first
Anchors(obsolete) == IF obsolete # {} /\ obsolete = Listed THEN obsolete ELSE {NoPane}

ReadPanes(c) ==
    /\ At(c, "read")
    /\ LET obsolete == {p \in Listed : panes[p].job \notin proc[c].want}
       IN  \E anchor \in Anchors(obsolete) :
             Becomes(c, WithKills([proc[c] EXCEPT !.anchor = anchor,
                                                  !.keys = Shown(Listed \ (obsolete \ {anchor}))],
                                  obsolete \ {anchor}, "split"))
    /\ Looks

(* close_job_pane *)
Gone(c) ==
    /\ At(c, "gone")
    /\ Becomes(c, WithKills(proc[c], {p \in Listed : panes[p].job = proc[c].job}, "done"))
    /\ Looks

-----------------------------------------------------------------------------
(* toggle_details: on a details pane or on a pane that has one, it closes. *)
Toggle(c) ==
    /\ At(c, "toggle")
    /\ LET p == proc[c].focus
       IN  \/ p \in Details /\ Goto(c, "last")
           \/ /\ p \notin Details /\ DetailsOf(p) # {}
              /\ \E d \in DetailsOf(p) : Becomes(c, WithKills(proc[c], {d}, "done"))
           \/ /\ p \in LogPanes /\ DetailsOf(p) = {}
              /\ Becomes(c, [proc[c] EXCEPT !.at = "detail", !.job = panes[p].job])
           \/ p \notin Listed /\ DetailsOf(p) = {} /\ Goto(c, "failed")
    /\ Looks

DetailSplit(c) ==
    /\ At(c, "detail")
    /\ \/ proc[c].focus \in Ids /\ NewPane(c, proc[c].job, "pair")
       \/ /\ NoRoom \/ proc[c].focus \notin Ids
          /\ Refused(proc[c].focus)
          /\ Goto(c, "failed")
          /\ UNCHANGED <<panes, created, alone, commands>>

Pair(c) ==
    /\ At(c, "pair")
    /\ LET d == proc[c].pane
       IN  Makes(c, IF d \in Ids THEN With(d, [job |-> proc[c].job, parent |-> proc[c].focus])
                    ELSE panes)
    /\ Goto(c, "done")
    /\ UNCHANGED <<created, refusals>>

(* close_details_for_parent *)
NotPaired(p) == {}      \* mutant: the details pane is forgotten
Paired(p) == DetailsOf(p)

(* close_focused_pane keeps the last pane panes() counts.                  *)
Close(c) ==
    /\ At(c, "close")
    /\ LET p == proc[c].focus
       IN  \/ p \in Details /\ Goto(c, "last")
           \/ p \notin Listed /\ Goto(c, "failed")
           \/ p \in LogPanes /\ Cardinality(Listed) = 1 /\ Goto(c, "done")
           \/ /\ p \in LogPanes /\ Cardinality(Listed) > 1
              /\ Becomes(c, WithKills(proc[c], Paired(p), "last"))
    /\ Looks

(* A follower that ends closes its details pane, then its own.             *)
Leave(c) ==
    /\ At(c, "leave")
    /\ Becomes(c, WithKills(proc[c], Paired(proc[c].focus), "last"))
    /\ Looks

(* Ctrl-b q: at once with one pane, else if the user confirms.             *)
Quit(c) ==
    /\ At(c, "quit")
    /\ \/ Makes(c, <<>>)
       \/ Cardinality(Listed) > 1 /\ UNCHANGED <<panes, alone, commands>>
    /\ Goto(c, "done")
    /\ UNCHANGED <<created, refusals>>

Exit(c) ==
    /\ proc[c].at \in {"done", "failed", "broken"}
    /\ Becomes(c, Idle)
    /\ Looks

WorkspaceNext ==
    \E c \in Processes :
        \/ Command(c) \/ KillOne(c) \/ KillFocus(c) \/ NewSession(c) \/ Label(c) \/ Setup(c)
        \/ Respawn(c) \/ Split(c) \/ AllSplit(c) \/ Gather(c) \/ CloseDetails(c) \/ ReadPanes(c) \/ Gone(c)
        \/ Toggle(c) \/ DetailSplit(c) \/ Pair(c) \/ Close(c) \/ Leave(c) \/ Quit(c) \/ Exit(c)

WorkspaceSpec == WorkspaceInit /\ [][WorkspaceNext]_workspaceVars

-----------------------------------------------------------------------------
Ended(c, cmds, place) == proc[c].cmd \in cmds /\ At(c, place) /\ alone[c]

(* open shows every selected job in a pane of its own; when tmux refuses   *)
(* one of its followers, no session is left behind.  A setup that fails    *)
(* does leave one, with the one pane labelled before it and no follower.   *)
OpensAllOrNothing ==
    \A c \in Processes :
        /\ Ended(c, {"open"}, "done") =>
               Shown(LogPanes) = proc[c].want /\ Cardinality(LogPanes) = Cardinality(proc[c].want)
        /\ Ended(c, {"open"}, "failed") => ~Alive
        /\ Ended(c, {"open"}, "broken") => Listed = {1} /\ Details = {}

(* reconcile ends with the chosen jobs and no others; when tmux refuses a  *)
(* pane half-way, the workspace is still there.                            *)
PicksTakeEffect ==
    \A c \in Processes :
        /\ Ended(c, {"pick", "add"}, "done") => Shown(LogPanes) = proc[c].want /\ Details = {}
        /\ Ended(c, {"pick", "add"}, "failed") => Alive

(* No command leaves a details pane whose log pane it has closed.          *)
NoOrphanDetails ==
    \A c \in Processes :
        At(c, "done") /\ alone[c] => Orphans = {}

=============================================================================
