---------------------------- MODULE MCAccessChain ----------------------------
(* Small instances of AccessChain. *)
EXTENDS AccessChain, TLC

CONSTANTS k1, k2, secret1, url1, url2

(* One key; the next one, with the first retired and the same secret; and   *)
(* the next one alone, at another URL, with the secret derived from it.     *)
MCConfigs ==
  {[key |-> k1, retired |-> None, secret |-> secret1, url |-> url1],
   [key |-> k2, retired |-> k1, secret |-> secret1, url |-> url1],
   [key |-> k2, retired |-> None, secret |-> None, url |-> url2]}

Symmetry == Permutations(Accounts) \cup Permutations(Browsers)
=============================================================================
