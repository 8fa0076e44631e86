--------------------------- MODULE MCTokenServer ---------------------------
(* TokenServer on small instances.                                         *)
EXTENDS TokenServer, TLC

CONSTANTS w1, w2, a1, a2, k1, k2, k3

Claim(state, generation, keysChangedAt) ==
  [state |-> state, generation |-> generation, keysChangedAt |-> keysChangedAt]

(* A rotation and a password change after it.                              *)
MCShortLife == {Claim(k1, 1, 1), Claim(k2, 2, 2), Claim(k2, 3, 2)}

(* The sorts of claims two clients race with: a password change of clients *)
(* too old to report when their keys changed, a new key from one that does *)
(* not report a generation, a newer key, an old one reported with new      *)
(* times.                                                                  *)
MCMixed == {Claim(k1, 1, Unreported), Claim(k1, 2, Unreported), Claim(k1, 4, 4),
            Claim(k2, Unreported, 2), Claim(k3, 4, 4)}

Symmetry == Permutations(Workers)

=============================================================================
