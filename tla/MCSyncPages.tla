---------------------------- MODULE MCSyncPages ----------------------------
(* SyncPages on small instances.                                           *)
EXTENDS SyncPages

CONSTANT c1

(* A record that lasts and one that dies at once, sent without a payload:   *)
(* paging never looks at it.                                               *)
MCBodies == {[payload |-> Null, sortindex |-> 1, ttl |-> Null],
             [payload |-> Null, sortindex |-> 2, ttl |-> Quantum]}

MCHeaders == {NoHeader}

Reading(sort, full, newer, limit, guarded) ==
  [sort |-> sort, full |-> full, newer |-> newer, limit |-> limit, guarded |-> guarded]

(* Every order with and without the guard, pages of one and of two.        *)
MCQueries ==
  {Reading(sort, TRUE, 0, 1, FALSE) : sort \in {"none", "oldest"}}
  \cup {Reading("newest", TRUE, Quantum, 2, FALSE), Reading("oldest", TRUE, 0, 2, FALSE)}
  \cup {Reading("none", FALSE, 0, 1, TRUE)}
  \cup {Reading(sort, TRUE, 0, 1, TRUE) : sort \in {"newest", "oldest", "index"}}

=============================================================================
