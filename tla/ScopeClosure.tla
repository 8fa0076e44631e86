---------------------------- MODULE ScopeClosure ----------------------------
(* What a set of scopes means: everything its holder may do.  Adding a      *)
(* scope adds what that scope implies, and nothing is ever lost by it.      *)
CONSTANTS Scope, Implicants

VARIABLE covered \* the scopes the set implies

Below(s) == {t \in Scope : s \in Implicants[t]}

Init == covered = {}
Add(s) == covered' = covered \cup Below(s)
Clear == covered' = {}

Next == Clear \/ \E s \in Scope : Add(s)
Spec == Init /\ [][Next]_covered
=============================================================================
