----------------------------- MODULE MCCardBinding -----------------------------
(***************************************************************************)
(* Instances of CardBinding for TLC.  Handlers are interchangeable, and so *)
(* are attempts of one kind; the runs with this symmetry have no liveness. *)
(***************************************************************************)
EXTENDS CardBinding, TLC

BindingSymmetry == Permutations(Workers) \cup Permutations(Verifications)

=============================================================================
