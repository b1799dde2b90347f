------------------------------- MODULE MCPurge -------------------------------
(***************************************************************************)
(* The purge at its two scales: the daily passes over all categories       *)
(* (Retention), and the customer_data target of one pass (CustomerPurge).  *)
(* A behaviour is one of either; the other stands still.                   *)
(***************************************************************************)
EXTENDS Retention, TLC

CONSTANT MaxChildren  \* bound of CustomerPurge

VARIABLES scale, mark, pass, request, late, raised

Target == INSTANCE CustomerPurge

targetVars == << mark, pass, request, late, raised >>

PurgeInit ==
    /\ Init /\ Target!Init
    /\ \/ scale = "passes"
       \/ /\ scale = "target"  \* one state of the part that stands still
          /\ \A r \in Rows \ {Customer} : row[r] = Absent
          /\ \A c, d \in Categories : retention_days[c] = retention_days[d]

Passes == scale = "passes" /\ Next /\ UNCHANGED << scale, targetVars >>

OneTarget == scale = "target" /\ Target!Next /\ UNCHANGED << scale, vars >>

PurgeSpec == PurgeInit /\ [][Passes \/ OneTarget]_<< scale, vars, targetVars >>

(***************************************************************************)
(* Every mark, age and position stays in its range, at both scales.        *)
(***************************************************************************)
PurgeTypes == TypeOK /\ Target!TypeOK

(***************************************************************************)
(* DELETE FROM customers never raises: the guard asks for every table that *)
(* a migration made refer to customers, and whatever the API stores while  *)
(* the pass goes on, a customer that is not ready is skipped.              *)
(***************************************************************************)
GuardCoversForeignKeys == Target!GuardCoversForeignKeys

(***************************************************************************)
(* Children are deleted before their parents, but for the results of a     *)
(* screening run stored between the marking of results and of runs.        *)
(***************************************************************************)
ChildrenGoFirst == Target!ChildrenGoFirst

\* Jobs are interchangeable.
JobSymmetry == Permutations(Jobs)
=============================================================================
