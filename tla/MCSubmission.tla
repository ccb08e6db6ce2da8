---------------------------- MODULE MCSubmission ----------------------------
(* Instance of Submission for TLC: which content and which of two equal    *)
(* calls does not matter.                                                  *)
EXTENDS Submission, TLC

Symmetry == Permutations(Contents) \cup Permutations(Submitters)
=============================================================================
