--------------------------- MODULE MCSyncReader ---------------------------
(* SyncReader on small instances.                                          *)
EXTENDS SyncReader

CONSTANTS c1, c2, i1, i2, p1, p2, s1

Body(payload, sortindex, ttl) ==
  [payload |-> payload, sortindex |-> sortindex, ttl |-> ttl]

(* Two full records, one that dies at once, and updates of one field.      *)
MCBodies == {Body(p1, s1, Null), Body(p2, s1, Quantum), Body(Null, s1, Null),
             Body(Null, Null, 2 * Quantum)}

MCHeaders == {NoHeader}

=============================================================================
