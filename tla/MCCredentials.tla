--------------------------- MODULE MCCredentials ---------------------------
(* Credentials on small instances.                                         *)
EXTENDS Credentials, TLC

CONSTANTS w1, w2, u1, u2, s1, s2, k1, c1, r1, r2, d1, d2

Symmetry == Permutations(Workers) \cup Permutations(Uids) \cup Permutations(Sessions)
            \cup Permutations(Refreshes) \cup Permutations(DeviceIds)

=============================================================================
