------------------------------ MODULE MCRental ------------------------------
(* Model checking of Rental on small fleets.                                *)
EXTENDS Rental, TLC

CONSTANTS b1, b2, b3, u1, u2, o1, o2    \* model values

(* Riders and operators are interchangeable.                                *)
Interchangeable == Permutations(Users) \cup Permutations(Operators)

(* The sweep runs every minute and time passes: the only fairness assumed.  *)
SweepFairness ==
    /\ \A v \in ReservationIds : WF_vars(v \in DOMAIN reservations /\ TtlPasses(v))
    /\ WF_vars(ExpireOverdue)
    /\ WF_vars(FreeOrphans)

FairSpec == Spec /\ SweepFairness

(* A bike is never stuck in reserved: a reserved bike that no active        *)
(* reservation holds is let go of by the orphan pass, however it came about.*)
ReservedBikeIsFreed ==
    \A b \in Bikes : bikes[b] = "reserved" ~> bikes[b] # "reserved"

=============================================================================
