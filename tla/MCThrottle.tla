----------------------------- MODULE MCThrottle -----------------------------
(* Throttle on a small instance.                                           *)
EXTENDS Throttle

CONSTANTS w1, w2, k1, k2, k3

=============================================================================
