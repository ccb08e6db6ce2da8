---------------------------- MODULE MCJobActions ----------------------------
(***************************************************************************)
(* The calls of JobActions, or one run of a command such as a Dispatch     *)
(* step stands for.  The two share no state: Dispatch takes of a command   *)
(* only what CommandRunner says of every one, so a behaviour is of the one *)
(* or of the other.                                                        *)
(***************************************************************************)
EXTENDS JobActions, CommandRunner

NothingCalled ==
    /\ changes = 0 /\ job.scope = Requested
    /\ \A c \in Calls : stage[c] = "new"

MCInit == Init /\ CommandInit

MCNext ==
    \/ caller = "idle" /\ Next /\ UNCHANGED commandVars
    \/ NothingCalled /\ CommandNext /\ UNCHANGED vars

MCSpec == MCInit /\ [][MCNext]_<<vars, commandVars>> /\ CommandFairness
=============================================================================
