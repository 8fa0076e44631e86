--------------------------- MODULE MCSyncUploads ---------------------------
(* SyncUploads on small instances.                                         *)
EXTENDS SyncUploads, TLC

CONSTANTS c1, c2, i1, i2, p1, p2, s1, d1, d2

Body(payload, sortindex, ttl) ==
  [payload |-> payload, sortindex |-> sortindex, ttl |-> ttl]

(* Records with different fields sent.                                     *)
MCBodies == {Body(p1, Null, Null), Body(p2, s1, Quantum), Body(Null, s1, Null)}

MCHeaders == {NoHeader}

Symmetry == Permutations(Devices) \cup Permutations(Collections)

=============================================================================
