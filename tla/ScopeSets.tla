----------------------------- MODULE ScopeSets -----------------------------
(***************************************************************************)
(* ScopeSet (oauth/scopes.py): a set of scopes kept as two dicts that index *)
(* each other, built one scope at a time, in whatever order they come.      *)
(***************************************************************************)
EXTENDS Naturals

CONSTANTS
  Scope,     \* the scopes there are
  Implicants \* Implicants[s]: the scopes that would imply s

(* What Scopes!ImplicantsOf is on well-formed scopes: a partial order.     *)
ASSUME ImplicantsAssumption ==
  /\ Implicants \in [Scope -> SUBSET Scope]
  /\ \A s \in Scope : s \in Implicants[s]
  /\ \A s, t \in Scope : t \in Implicants[s] => Implicants[t] \subseteq Implicants[s]
  /\ \A s, t \in Scope : t \in Implicants[s] /\ s \in Implicants[t] => s = t

VARIABLES
  held,    \* the keys of _scopes_to_implicants; its values are Implicants
  impliedBy \* _implicants_to_scopes; {} where the dict has no key

setVars == <<held, impliedBy>>

-----------------------------------------------------------------------------
(* The operations on a set, S or T being the keys of one.                  *)

HasSomeScope(S, implicants) == S \cap implicants # {}

Contains(S, T) == \A t \in T : HasSomeScope(S, Implicants[t])
Filtered(S, T) == {s \in S : HasSomeScope(T, Implicants[s])}
Difference(S, T) == {s \in S : ~HasSomeScope(T, Implicants[s])}

(* What is left of scopes added one by one: see SetIsExact.                *)
Irredundant(S) == {s \in S : \A t \in S : t \in Implicants[s] => t = s}
Union(S, T) == Irredundant(S \cup T)

-----------------------------------------------------------------------------
(* Building it.                                                            *)

(* Mutants: the scopes the new one implies stay; they are dropped from one *)
(* dict only; what implies the new one is dropped for it, a dict swapped   *)
(* for the other.                                                          *)
AddScopeKeeps(s) ==
  IF HasSomeScope(held, Implicants[s]) THEN UNCHANGED setVars
  ELSE /\ held' = held \cup {s}
       /\ impliedBy' = [i \in Scope |->
            impliedBy[i] \cup {t \in {s} : i \in Implicants[t]}]
AddScopeHalfRemoves(s) ==
  IF HasSomeScope(held, Implicants[s]) THEN UNCHANGED setVars
  ELSE /\ held' = (held \ impliedBy[s]) \cup {s}
       /\ impliedBy' = [i \in Scope |->
            impliedBy[i] \cup {t \in {s} : i \in Implicants[t]}]
AddScopeSwapped(s) ==
  /\ held' = (held \ Implicants[s]) \cup {s}
  /\ impliedBy' = [i \in Scope |-> {t \in held' : i \in Implicants[t]}]

(* _add_scope, with _remove_scope for each scope the new one implies.      *)
AddScope(s) ==
  IF HasSomeScope(held, Implicants[s]) THEN UNCHANGED setVars
  ELSE LET redundant == impliedBy[s] IN
       /\ held' = (held \ redundant) \cup {s}
       /\ impliedBy' = [i \in Scope |->
            (impliedBy[i] \ {r \in redundant : i \in Implicants[r]})
              \cup {t \in {s} : i \in Implicants[t]}]

NewSet ==
  /\ held' = {}
  /\ impliedBy' = [i \in Scope |-> {}]

SetInit == held = {} /\ impliedBy = [i \in Scope |-> {}]
SetNext == NewSet \/ \E s \in Scope : AddScope(s)
SetSpec == SetInit /\ [][SetNext]_setVars

-----------------------------------------------------------------------------
SetTypeOK ==
  /\ held \in SUBSET Scope
  /\ impliedBy \in [Scope -> SUBSET Scope]

(* The two dicts agree, and no scope that is held implies another: so the  *)
(* set that a request is judged by (values(), looked up by equality among  *)
(* the key-bearing scopes) does not depend on the order its scopes came in.*)
SetIsExact ==
  /\ \A i \in Scope : impliedBy[i] = {s \in held : i \in Implicants[s]}
  /\ Irredundant(held) = held

(* The abstract set: what is held and everything that it implies.          *)
Closure == INSTANCE ScopeClosure
             WITH covered <- {t \in Scope : HasSomeScope(held, Implicants[t])}
ImplementsClosure == Closure!Spec

=============================================================================
