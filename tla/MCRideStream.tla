---------------------------- MODULE MCRideStream ----------------------------
(* Model checking of RideStream with a few accounts and connections.        *)
EXTENDS RideStream

CONSTANTS a1, a2, c1, c2    \* model values

=============================================================================
