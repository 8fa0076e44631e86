---------------------------- MODULE MCSyncStore ----------------------------
(* SyncStore on small instances.                                           *)
EXTENDS SyncStore, TLC

CONSTANTS c1, c2, i1, i2, p1, p2, s1

Body(payload, sortindex, ttl) ==
  [payload |-> payload, sortindex |-> sortindex, ttl |-> ttl]

(* A full record, one that dies at once, and an update of the ttl alone.   *)
MCBodies == {Body(p1, s1, Null), Body(p1, Null, Quantum), Body(Null, Null, 2 * Quantum)}

MCHeaders ==
  {NoHeader} \cup [kind : {"modified", "unmodified"}, since : {Quantum}]

Symmetry == Permutations(Collections)

=============================================================================
