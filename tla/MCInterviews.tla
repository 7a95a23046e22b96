---------------------------- MODULE MCInterviews ----------------------------
(* Interviews on small sets of model values. *)
EXTENDS Interviews, TLC

\* Nothing in the module tells two sessions, identifiers or agents apart.
Symmetry == Permutations(Sessions) \cup Permutations(Interviews) \cup Permutations(Agents)
=============================================================================
