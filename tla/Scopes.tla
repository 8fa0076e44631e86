------------------------------- MODULE Scopes -------------------------------
(***************************************************************************)
(* What an OAuth scope is and which scopes imply it (oauth/scopes.py).      *)
(*                                                                         *)
(* A short scope, "profile:email:write", is the sequence of its names; a    *)
(* URL scope is its origin, the segments of its path and its fragment.      *)
(* A value that does not parse is refused before it becomes either.         *)
(***************************************************************************)
EXTENDS Naturals, Sequences
LOCAL INSTANCE SequencesExt

Short(names) == [origin |-> "", path |-> names, fragment |-> ""]
Url(origin, path, fragment) == [origin |-> origin, path |-> path, fragment |-> fragment]

(* MAX_SHORT_SCOPE_COMPONENTS; "write" on its own is no scope.             *)
MaxComponents == 32
WellFormed(s) ==
  /\ s.path # << >>
  /\ s.origin = "" => s.path # <<"write">> /\ Len(s.path) <= MaxComponents

Ancestors(path) == {SubSeq(path, 1, n) : n \in 1 .. Len(path)}

(* "a:b" is implied by "a", "a:write", itself and "a:b:write"; "a:b:write" *)
(* only by the scopes that may write.                                      *)
ShortImplicants(names) ==
  IF Last(names) = "write"
  THEN {Short(Append(p, "write")) : p \in Ancestors(Front(names))}
  ELSE {Short(p) : p \in Ancestors(names)}
         \cup {Short(Append(p, "write")) : p \in Ancestors(names)}

(* A URL by every parent of its path; one with a fragment by the parents   *)
(* that carry the same fragment, too.                                      *)
UrlImplicants(s) ==
  {Url(s.origin, p, f) : p \in Ancestors(s.path), f \in {"", s.fragment}}

(* implicant_values: every scope that would imply s, s itself included.    *)
ImplicantsOf(s) == IF s.origin = "" THEN ShortImplicants(s.path) ELSE UrlImplicants(s)

=============================================================================
