---------------------------- MODULE MCRunBuilder ----------------------------
(* RunBuilder and its refinement on a small instance.                       *)
EXTENDS RunBuilderBoard, TLC

\* Jobs are interchangeable.
Symmetry == Permutations(Jobs)
=============================================================================
