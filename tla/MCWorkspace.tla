----------------------------- MODULE MCWorkspace -----------------------------
(* Nothing distinguishes the jobs, or the processes, from one another.     *)
EXTENDS Workspace, TLC

Symmetry == Permutations(Jobs) \cup Permutations(Processes)

=============================================================================
