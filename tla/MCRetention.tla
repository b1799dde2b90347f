----------------------------- MODULE MCRetention -----------------------------
(***************************************************************************)
(* Model-checking instances of Retention: the configurations name one row  *)
(* per table (two jobs, so that one may be a rerun of the other), and      *)
(* MaxRows lets any two of them exist beside the customer.                 *)
(***************************************************************************)
EXTENDS Retention, TLC

\* Jobs are interchangeable; used for safety only.
JobSymmetry == Permutations(Jobs)
=============================================================================
