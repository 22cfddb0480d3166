------------------------------- MODULE PaidOnce -------------------------------
(***************************************************************************)
(* What the acquiring promises a rider: money first, then what it buys,    *)
(* then an order that says paid; and none of the three is ever taken back. *)
(* PaidOrders implements this for the orders paid on the hosted form.      *)
(***************************************************************************)
CONSTANT Payments

VARIABLES
    taken,      \* the payments whose money the bank has captured
    granted,    \* the payments that have bought something
    settled     \* the payments the rider is told are paid

onceVars == <<taken, granted, settled>>

OnceInit == taken = {} /\ granted = {} /\ settled = {}

Take(p) ==
    /\ taken' = taken \cup {p}
    /\ UNCHANGED <<granted, settled>>

Grant(p) ==
    /\ p \in taken \ settled
    /\ granted' = granted \cup {p}
    /\ UNCHANGED <<taken, settled>>

(* A payment can settle without a grant: its ride could not start and the   *)
(* order keeps the reason.                                                  *)
Settle(p) ==
    /\ p \in taken
    /\ settled' = settled \cup {p}
    /\ UNCHANGED <<taken, granted>>

OnceNext == \E p \in Payments : Take(p) \/ Grant(p) \/ Settle(p)

OnceSpec == OnceInit /\ [][OnceNext]_onceVars

=============================================================================
