------------------------------ MODULE BikeLease ------------------------------
(***************************************************************************)
(* What the rental promises, whatever locks, reservations, sweeps, the back*)
(* office and restarts do: a bike is let to one rider at a time, a rider   *)
(* has so many bikes and no more, and a wallet moves only with a lease, by *)
(* what it took to begin it, to extend it, to close it, or, once and       *)
(* exactly, to undo it.  Rental implements this.                           *)
(***************************************************************************)
EXTENDS Integers, FiniteSets

CONSTANTS Bikes, Users, MaxLeases, Price, Overages, InitialBalance

VARIABLES
    leases,     \* the leases that run: records [bike, user, paid], paid being
                \* what the wallet was charged for the start (0: paid by card)
    wallet

leaseVars == <<leases, wallet>>

LeaseInit ==
    /\ leases = {}
    /\ wallet = [u \in Users |-> InitialBalance]

LeasesOf(u) == {l \in leases : l.user = u}

Begin(u, b, paid) ==
    /\ \A l \in leases : l.bike # b
    /\ Cardinality(LeasesOf(u)) < MaxLeases
    /\ paid = 0 \/ wallet[u] >= paid
    /\ leases' = leases \cup {[bike |-> b, user |-> u, paid |-> paid]}
    /\ wallet' = [wallet EXCEPT ![u] = @ - paid]

Extend(l) ==
    /\ wallet[l.user] >= Price
    /\ wallet' = [wallet EXCEPT ![l.user] = @ - Price]
    /\ UNCHANGED leases

(* A ride paid by card is not billed from the wallet at its end.            *)
Close(l, overage) ==
    /\ l.paid = 0 => overage = 0
    /\ leases' = leases \ {l}
    /\ wallet' = [wallet EXCEPT ![l.user] = @ - overage]

Undo(l) ==
    /\ leases' = leases \ {l}
    /\ wallet' = [wallet EXCEPT ![l.user] = @ + l.paid]

LeaseNext ==
    \/ \E u \in Users, b \in Bikes, paid \in {0, Price} : Begin(u, b, paid)
    \/ \E l \in leases :
          Extend(l) \/ Undo(l) \/ \E overage \in Overages \cup {0} : Close(l, overage)

LeaseSpec == LeaseInit /\ [][LeaseNext]_leaseVars

=============================================================================
