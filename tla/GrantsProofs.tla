--------------------------- MODULE GrantsProofs ---------------------------
(***************************************************************************)
(* What holds of scope sets and of grants for every set of scopes ordered   *)
(* by implication, every registry and every number of clients, codes and    *)
(* refresh tokens.                                                         *)
(***************************************************************************)
EXTENDS Grants, TLAPS

-----------------------------------------------------------------------------
(* The operations on sets of scopes.                                       *)

(* Implication is transitive: what is below a scope is below its implicants.*)
LEMMA BelowMonotone ==
  ASSUME NEW S \in SUBSET Scope, NEW T \in SUBSET Scope,
         \A s \in S : HasSomeScope(T, Implicants[s])
  PROVE  Below(S) \subseteq Below(T)
<1> SUFFICES ASSUME NEW t \in Below(S) PROVE t \in Below(T)
  OBVIOUS
<1>1. t \in Scope
  BY DEF Below
<1>2. PICK s \in S : s \in Implicants[t]
  BY DEF Below, HasSomeScope
<1>3. PICK p \in T : p \in Implicants[s]
  BY DEF HasSomeScope
<1>4. p \in Implicants[t]
  BY <1>1, <1>2, <1>3, ImplicantsAssumption
<1> QED
  BY <1>1, <1>3, <1>4 DEF Below, HasSomeScope

(* A part of a set without redundant scopes has none either.               *)
LEMMA PartsAreTexts ==
  ASSUME NEW S \in Texts, NEW T \in SUBSET S
  PROVE  T \in Texts
BY DEF Texts, Irredundant

(* Every scope implies itself.                                             *)
LEMMA OwnImplicants ==
  ASSUME NEW S \in SUBSET Scope, NEW T \in SUBSET S
  PROVE  Below(T) \subseteq Below(S)
BY DEF Below, HasSomeScope

-----------------------------------------------------------------------------
(* A ScopeSet, one scope at a time.                                        *)

SetInvariant == SetTypeOK /\ SetIsExact

(* _add_scope keeps the two dicts in step and the set free of redundancy.  *)
LEMMA AddScopeIsExact ==
  ASSUME SetInvariant, NEW s \in Scope, AddScope(s)
  PROVE  SetInvariant'
<1>1. CASE HasSomeScope(held, Implicants[s])
  BY <1>1 DEF AddScope, setVars, SetInvariant, SetTypeOK, SetIsExact, Irredundant
<1>2. CASE ~HasSomeScope(held, Implicants[s])
  <2>1. /\ held' = (held \ impliedBy[s]) \cup {s}
        /\ impliedBy' = [i \in Scope |->
             (impliedBy[i] \ {r \in impliedBy[s] : i \in Implicants[r]})
               \cup {t \in {s} : i \in Implicants[t]}]
    BY <1>2 DEF AddScope
  <2>2. /\ held \in SUBSET Scope
        /\ impliedBy \in [Scope -> SUBSET Scope]
        /\ \A i \in Scope : impliedBy[i] = {t \in held : i \in Implicants[t]}
        /\ \A x, y \in held : y \in Implicants[x] => y = x
    BY DEF SetInvariant, SetTypeOK, SetIsExact, Irredundant
  <2>3. SetTypeOK'
    BY <2>1, <2>2 DEF SetTypeOK
  <2>4. ASSUME NEW i \in Scope
        PROVE  impliedBy'[i] = {t \in held' : i \in Implicants[t]}
    BY <2>1, <2>2
  <2>5. ASSUME NEW x \in held', NEW y \in held', y \in Implicants[x]
        PROVE  y = x
    <3>1. CASE x = s
      BY <3>1, <2>1, <2>5, <1>2 DEF HasSomeScope
    <3>2. CASE x # s /\ y = s
      BY <3>2, <2>1, <2>2, <2>5
    <3>3. CASE x # s /\ y # s
      BY <3>3, <2>1, <2>2, <2>5
    <3> QED
      BY <3>1, <3>2, <3>3
  <2> QED
    BY <2>3, <2>4, <2>5 DEF SetInvariant, SetIsExact, Irredundant
<1> QED
  BY <1>1, <1>2

(* What a ScopeSet covers grows by exactly what the added scope implies.   *)
LEMMA AddScopeAddsBelow ==
  ASSUME SetInvariant, NEW s \in Scope, AddScope(s)
  PROVE  Below(held)' = Below(held) \cup {t \in Scope : s \in Implicants[t]}
<1> DEFINE New == {t \in Scope : s \in Implicants[t]}
<1>1. CASE HasSomeScope(held, Implicants[s])
  <2>1. held' = held
    BY <1>1 DEF AddScope, setVars
  <2>2. ASSUME NEW t \in New PROVE t \in Below(held)
    <3>1. Implicants[s] \subseteq Implicants[t]
      BY <2>2, ImplicantsAssumption
    <3> QED
      BY <3>1, <1>1, <2>2 DEF Below, HasSomeScope
  <2> QED
    BY <2>1, <2>2 DEF Below, HasSomeScope
<1>2. CASE ~HasSomeScope(held, Implicants[s])
  <2>1. held' = (held \ impliedBy[s]) \cup {s}
    BY <1>2 DEF AddScope
  <2>2. held \in SUBSET Scope /\ impliedBy[s] = {r \in held : s \in Implicants[r]}
    BY DEF SetInvariant, SetTypeOK, SetIsExact
  <2>3. ASSUME NEW t \in Below(held) PROVE t \in Below(held) ' \cup New
    <3>1. PICK r \in held : r \in Implicants[t]
      BY DEF Below, HasSomeScope
    <3>2. CASE r \in impliedBy[s]
      <4>1. s \in Implicants[r]
        BY <3>2, <2>2
      <4>2. t \in Scope /\ Implicants[r] \subseteq Implicants[t]
        BY <3>1, <2>2, ImplicantsAssumption DEF Below
      <4> QED
        BY <4>1, <4>2
    <3>3. CASE r \notin impliedBy[s]
      BY <3>1, <3>3, <2>1 DEF Below, HasSomeScope
    <3> QED
      BY <3>2, <3>3
  <2>4. New \subseteq Below(held)'
    BY <2>1 DEF Below, HasSomeScope
  <2>5. Below(held)' \subseteq Below(held) \cup New
    BY <2>1 DEF Below, HasSomeScope
  <2> QED
    BY <2>3, <2>4, <2>5
<1> QED
  BY <1>1, <1>2

-----------------------------------------------------------------------------
(* Requests, as steps of the ScopeSet they build.                          *)

LEMMA GrantStepsAreSetSteps == GrantNext \/ UNCHANGED grantVars => [SetNext]_setVars
<1> SUFFICES ASSUME GrantNext \/ UNCHANGED grantVars PROVE SetNext \/ UNCHANGED setVars
  BY DEF setVars
<1>1. ASSUME NEW s \in Requested, ParseScope(s) PROVE SetNext
  BY <1>1, ScopesAssumption DEF ParseScope, SetNext
<1>2. CASE Drop
  BY <1>2 DEF Drop, SetNext
<1>3. CASE Route
  BY <1>3 DEF Route, Authorize, GrantDirectly, ExpireCode, Redeem, Renew, Destroy, SetNext, setVars
<1>4. ASSUME NEW c \in Clients, NEW e \in Entries \cup {Unregistered}, Restart(c, e)
      PROVE  SetNext
  BY <1>4 DEF Restart, SetNext
<1>5. CASE UNCHANGED grantVars
  BY <1>5 DEF grantVars, setVars
<1> QED
  BY <1>1, <1>2, <1>3, <1>4, <1>5 DEF GrantNext, Request

LEMMA SetStepIsExact ==
  ASSUME SetInvariant, [SetNext]_setVars
  PROVE  SetInvariant'
<1>1. ASSUME NEW s \in Scope, AddScope(s) PROVE SetInvariant'
  BY <1>1, AddScopeIsExact
<1>2. CASE NewSet
  BY <1>2 DEF NewSet, SetInvariant, SetTypeOK, SetIsExact, Irredundant
<1>3. CASE UNCHANGED setVars
  BY <1>3 DEF setVars, SetInvariant, SetTypeOK, SetIsExact, Irredundant
<1> QED
  BY <1>1, <1>2, <1>3 DEF SetNext

LEMMA SetStart == SetInit => SetInvariant
BY DEF SetInit, SetInvariant, SetTypeOK, SetIsExact, Irredundant

LEMMA GrantsKeepTheSet == GrantSpec => []SetInvariant /\ [][SetNext]_setVars
<1>1. GrantInit => SetInvariant
  BY SetStart DEF GrantInit
<1>2. SetInvariant /\ [GrantNext]_grantVars => SetInvariant'
  BY GrantStepsAreSetSteps, SetStepIsExact
<1> QED
  BY <1>1, <1>2, GrantStepsAreSetSteps, PTL DEF GrantSpec

(* Whatever order the scopes of a request come in, and however many: the   *)
(* two dicts of a ScopeSet agree, and it holds no scope that another of its *)
(* scopes implies.                                                         *)
THEOREM ScopeSetsAreExact == GrantSpec => []SetIsExact
BY GrantsKeepTheSet, PTL DEF SetInvariant

(* A ScopeSet means what was added to it: each step of a request adds what  *)
(* the new scope implies, or clears the set, and nothing is lost.           *)
THEOREM ScopeSetsImplementClosure == GrantSpec => ImplementsClosure
<1> DEFINE covered == {t \in Scope : HasSomeScope(held, Implicants[t])}
<1>1. GrantInit => Closure!Init
  BY DEF GrantInit, SetInit, Closure!Init, HasSomeScope
<1>2. ASSUME SetInvariant, [SetNext]_setVars
      PROVE  [Closure!Next]_covered
  <2>1. ASSUME NEW s \in Scope, AddScope(s) PROVE Closure!Next
    BY <1>2, <2>1, AddScopeAddsBelow DEF Below, Closure!Next, Closure!Add, Closure!Below
  <2>2. CASE NewSet
    BY <2>2 DEF NewSet, Closure!Next, Closure!Clear, HasSomeScope
  <2>3. CASE UNCHANGED setVars
    BY <2>3 DEF setVars, HasSomeScope
  <2> QED
    BY <1>2, <2>1, <2>2, <2>3 DEF SetNext
<1> QED
  BY <1>1, <1>2, GrantsKeepTheSet, PTL DEF ImplementsClosure, Closure!Spec, GrantSpec

-----------------------------------------------------------------------------
(* What is granted.                                                        *)

LEMMA Registrations ==
  ASSUME registry \in [Clients -> Entries \cup {Unregistered}],
         NEW c \in Clients, Registered(c)
  PROVE  registry[c] \in Entry /\ registry[c].allowed \in Texts
BY EntriesAssumption DEF Registered, Entry, Texts

(* A grant to a client is some of what was asked, within its registration. *)
LEMMA GrantedIsCovered ==
  ASSUME registry \in [Clients -> Entries \cup {Unregistered}],
         NEW c \in Clients, Registered(c), NEW S \in Texts, Grantable(c, S)
  PROVE  Granted(c, S) \in Texts /\ Below(Granted(c, S)) \subseteq Covers(registry[c])
<1>1. S \in SUBSET Scope
  BY DEF Texts
<1>2. registry[c] \in Entry /\ registry[c].allowed \in SUBSET Scope
  BY Registrations DEF Texts
<1>3. /\ Granted(c, S) \in SUBSET S
      /\ registry[c] # Unregistered
      /\ TrustedScopes \in SUBSET Scope /\ UntrustedScopes \in SUBSET Scope
  BY ScopesAssumption DEF Granted, Filtered, Registered
<1>4. CASE registry[c].trusted
  <2> DEFINE A == registry[c].allowed \cup TrustedScopes
  <2>1. \A s \in Granted(c, S) : HasSomeScope(A, Implicants[s])
    BY <1>4 DEF Granted, Filtered, Union, Irredundant, HasSomeScope
  <2>2. A \in SUBSET Scope
    BY <1>2, <1>3
  <2>3. Below(Granted(c, S)) \subseteq Below(A)
    BY <2>1, <2>2, <1>1, <1>3, BelowMonotone
  <2> QED
    BY <2>3, <1>3, <1>4, PartsAreTexts DEF Covers
<1>5. CASE ~registry[c].trusted
  <2>1. \A s \in S : HasSomeScope(UntrustedScopes, Implicants[s])
    BY <1>5 DEF Grantable, Difference
  <2>2. Granted(c, S) = S
    BY <1>5 DEF Granted
  <2>3. Below(S) \subseteq Below(UntrustedScopes)
    BY <2>1, <1>1, <1>3, BelowMonotone
  <2> QED
    BY <2>2, <2>3, <1>3, <1>5 DEF Covers
<1> QED
  BY <1>4, <1>5

(* A refresh grants some of what the token holds, or of what its client may *)
(* be granted now besides.                                                 *)
LEMMA RenewedIsCovered ==
  ASSUME registry \in [Clients -> Entries \cup {Unregistered}],
         NEW t \in Refresh, Registered(t.client), held \in Texts,
         held # {} => Renewable(t), NEW X \in SUBSET (IF held = {} THEN t.scope ELSE held)
  PROVE  X \in Texts /\ Below(X) \subseteq Below(t.scope) \cup Covers(registry[t.client])
<1>1. /\ t.scope \in Texts /\ t.scope \in SUBSET Scope /\ held \in SUBSET Scope
      /\ t.client \in Clients
  BY DEF Refresh, Texts
<1>2. X \in SUBSET t.scope \/ X \in SUBSET held
  OBVIOUS
<1>3. X \in Texts
  BY <1>1, <1>2, PartsAreTexts
<1>4. CASE held = {}
  <2>1. X \in SUBSET t.scope
    BY <1>4
  <2> QED
    BY <2>1, <1>1, <1>3, OwnImplicants
<1>5. CASE held # {} /\ Contains(t.scope, held)
  <2>1. Below(X) \subseteq Below(held)
    BY <1>1, <1>5, OwnImplicants
  <2>2. Below(held) \subseteq Below(t.scope)
    BY <1>1, <1>5, BelowMonotone DEF Contains
  <2> QED
    BY <2>1, <2>2, <1>3
<1>6. CASE held # {} /\ ~Contains(t.scope, held)
  <2> DEFINE A == registry[t.client].allowed \cup TrustedScopes
  <2>1. registry[t.client].trusted /\ registry[t.client] # Unregistered
    BY <1>6 DEF Renewable, Registered
  <2>2. A \in SUBSET Scope
    BY <1>1, Registrations, ScopesAssumption DEF Texts
  <2>3. \A s \in held : HasSomeScope(t.scope \cup A, Implicants[s])
    BY <1>6 DEF Renewable, Contains, Union, Irredundant, HasSomeScope
  <2>4. Below(X) \subseteq Below(held)
    BY <1>1, <1>6, OwnImplicants
  <2>5. Below(held) \subseteq Below(t.scope \cup A)
    BY <1>1, <2>2, <2>3, BelowMonotone
  <2>6. Below(t.scope \cup A) = Below(t.scope) \cup Below(A)
    BY DEF Below, HasSomeScope
  <2> QED
    BY <2>1, <2>4, <2>5, <2>6, <1>3 DEF Covers
<1> QED
  BY <1>3, <1>4, <1>5, <1>6

(* Everything that carries scopes carries no more than its client ever had. *)
Within(S, c) == Below(S) \subseteq ever[c]

GrantInvariant ==
  /\ GrantTypeOK /\ SetIsExact
  /\ \A c \in Clients : Covers(registry[c]) \subseteq ever[c]
  /\ \A code \in codes : Within(code.scope, code.client)
  /\ \A t \in tokens : Within(t.scope, t.client)
  /\ minted # None => /\ Within(minted.scope, minted.client)
                      /\ minted.aud = Tokenserver => Oldsync \in Below(minted.scope)

(* What generate_tokens hands out and stores.                              *)
LEMMA Minting ==
  ASSUME GrantInvariant, NEW c \in Clients, NEW S \in Texts, NEW offline \in BOOLEAN,
         Within(S, c), Mint(c, S, offline)
  PROVE  /\ minted' \in AccessToken
         /\ tokens' \subseteq Refresh
         /\ \A t \in tokens' : Within(t.scope, t.client)
         /\ minted'.client = c /\ minted'.scope = S
         /\ minted'.aud = Tokenserver => Oldsync \in Below(minted'.scope)
<1>1. minted' = [client |-> c, scope |-> S, aud |-> Audience(c, S)]
  BY DEF Mint
<1>2. tokens' \subseteq tokens \cup {[client |-> c, scope |-> S]}
  BY DEF Mint
<1>3. Audience(c, S) = Tokenserver => Oldsync \in Below(S)
  BY AudienceAssumption, ScopesAssumption DEF Audience, Contains, Below
<1>4. Audience(c, S) \in Clients \cup {Tokenserver}
  BY DEF Audience
<1>5. [client |-> c, scope |-> S] \in Refresh
  BY DEF Refresh
<1>6. tokens \subseteq Refresh /\ \A t \in tokens : Within(t.scope, t.client)
  BY DEF GrantInvariant, GrantTypeOK
<1> QED
  BY <1>1, <1>2, <1>3, <1>4, <1>5, <1>6 DEF AccessToken

LEMMA GrantStart == GrantInit => GrantInvariant
<1> SUFFICES ASSUME GrantInit PROVE GrantInvariant
  OBVIOUS
<1>1. SetInvariant
  BY SetStart DEF GrantInit
<1>2. registry \in [Clients -> Entries \cup {Unregistered}]
  BY DEF GrantInit
<1>3. \A c \in Clients : Covers(registry[c]) \subseteq Scope
  BY DEF Covers, Below
<1>4. codes = {} /\ tokens = {} /\ minted = None /\ ever = [c \in Clients |-> Covers(registry[c])]
  BY DEF GrantInit
<1> QED
  BY <1>1, <1>2, <1>3, <1>4 DEF GrantInvariant, GrantTypeOK, SetInvariant

LEMMA GrantStep ==
  ASSUME GrantInvariant, [GrantNext]_grantVars
  PROVE  GrantInvariant'
<1>1. /\ SetTypeOK /\ SetIsExact
      /\ registry \in [Clients -> Entries \cup {Unregistered}]
      /\ codes \subseteq Code /\ tokens \subseteq Refresh
      /\ ever \in [Clients -> SUBSET Scope]
      /\ \A c \in Clients : Covers(registry[c]) \subseteq ever[c]
      /\ \A code \in codes : Within(code.scope, code.client)
      /\ \A t \in tokens : Within(t.scope, t.client)
  BY DEF GrantInvariant, GrantTypeOK
<1>2. SetTypeOK' /\ SetIsExact'
  BY <1>1, GrantStepsAreSetSteps, SetStepIsExact DEF SetInvariant
<1>3. held \in Texts
  BY <1>1 DEF SetTypeOK, SetIsExact, Texts
<1>4. ASSUME NEW s \in Requested, ParseScope(s) PROVE GrantInvariant'
  BY <1>4, <1>1, <1>2 DEF ParseScope, GrantInvariant, GrantTypeOK, Within
<1>5. CASE Drop
  BY <1>5, <1>1, <1>2 DEF Drop, GrantInvariant, GrantTypeOK, Within
<1>6. ASSUME NEW c \in Clients, NEW offline \in BOOLEAN, Authorize(c, offline)
      PROVE  GrantInvariant'
  <2> DEFINE new == [client |-> c, scope |-> Granted(c, held), offline |-> offline,
                     bound |-> registry[c].public]
  <2>1. Registered(c) /\ Grantable(c, held)
    BY <1>6 DEF Authorize
  <2>2. Granted(c, held) \in Texts /\ Within(Granted(c, held), c)
    BY <1>1, <1>3, <2>1, GrantedIsCovered DEF Within
  <2>3. registry[c].public \in BOOLEAN
    BY <1>1, <2>1, Registrations DEF Entry
  <2>4. new \in Code
    BY <2>2, <2>3 DEF Code
  <2>5. /\ codes' = codes \cup {new}
        /\ minted' = None /\ registry' = registry /\ tokens' = tokens /\ ever' = ever
    BY <1>6 DEF Authorize
  <2> HIDE DEF new
  <2>6. new.scope = Granted(c, held) /\ new.client = c
    BY DEF new
  <2> QED
    BY <1>1, <1>2, <2>2, <2>4, <2>5, <2>6 DEF GrantInvariant, GrantTypeOK, Within
<1>7. ASSUME NEW c \in Clients, NEW offline \in BOOLEAN, GrantDirectly(c, offline)
      PROVE  GrantInvariant'
  <2>1. Registered(c) /\ Grantable(c, held) /\ Mint(c, Granted(c, held), offline)
    BY <1>7 DEF GrantDirectly
  <2>2. Granted(c, held) \in Texts /\ Within(Granted(c, held), c)
    BY <1>1, <1>3, <2>1, GrantedIsCovered DEF Within
  <2>3. registry' = registry /\ codes' = codes /\ ever' = ever
    BY <1>7 DEF GrantDirectly
  <2> QED
    BY <1>1, <1>2, <2>1, <2>2, <2>3, Minting DEF GrantInvariant, GrantTypeOK, Within
<1>8. ASSUME NEW code \in codes, ExpireCode(code) PROVE GrantInvariant'
  BY <1>8, <1>1, <1>2 DEF ExpireCode, GrantInvariant, GrantTypeOK, Within
<1>9. ASSUME NEW code \in codes, NEW verifier \in {"none", "right", "wrong"},
             Redeem(code, verifier)
      PROVE  GrantInvariant'
  <2>1. /\ code.client \in Clients /\ code.scope \in Texts /\ code.offline \in BOOLEAN
        /\ Within(code.scope, code.client)
    BY <1>1 DEF Code
  <2>2. /\ codes' = codes \ {code} /\ registry' = registry /\ ever' = ever
        /\ Mint(code.client, code.scope, code.offline)
    BY <1>9 DEF Redeem
  <2>3. /\ minted' \in AccessToken
        /\ tokens' \subseteq Refresh /\ \A t \in tokens' : Within(t.scope, t.client)
        /\ minted'.client = code.client /\ minted'.scope = code.scope
        /\ minted'.aud = Tokenserver => Oldsync \in Below(minted'.scope)
    BY <2>1, <2>2, Minting
  <2> QED
    BY <1>1, <1>2, <2>1, <2>2, <2>3 DEF GrantInvariant, GrantTypeOK, Within
<1>10. ASSUME NEW t \in tokens, Renew(t) PROVE GrantInvariant'
  <2> DEFINE X == Difference(IF held = {} THEN t.scope ELSE held, NonRefreshableScopes)
  <2>1. /\ Registered(t.client)
        /\ held # {} => Renewable(t)
        /\ Mint(t.client, X, FALSE)
        /\ registry' = registry /\ codes' = codes /\ ever' = ever
    BY <1>10 DEF Renew
  <2>2. X \in SUBSET (IF held = {} THEN t.scope ELSE held)
    BY DEF Difference
  <2>3. t \in Refresh /\ t.client \in Clients /\ Within(t.scope, t.client)
    BY <1>1 DEF Refresh
  <2> HIDE DEF X
  <2>4. X \in Texts /\ Below(X) \subseteq Below(t.scope) \cup Covers(registry[t.client])
    BY <1>1, <1>3, <2>1, <2>2, <2>3, RenewedIsCovered
  <2>5. Within(X, t.client)
    BY <1>1, <2>3, <2>4 DEF Within
  <2> QED
    BY <1>1, <1>2, <2>1, <2>3, <2>4, <2>5, Minting DEF GrantInvariant, GrantTypeOK, Within
<1>11. ASSUME NEW t \in tokens, Destroy(t) PROVE GrantInvariant'
  BY <1>11, <1>1, <1>2 DEF Destroy, GrantInvariant, GrantTypeOK, Within
<1>12. ASSUME NEW c \in Clients, NEW e \in Entries \cup {Unregistered}, Restart(c, e)
       PROVE  GrantInvariant'
  <2>1. /\ registry' = [registry EXCEPT ![c] = e]
        /\ ever' = [ever EXCEPT ![c] = @ \cup Covers(e)]
        /\ minted' = None /\ codes' = codes /\ tokens' = tokens
    BY <1>12 DEF Restart
  <2>2. Covers(e) \subseteq Scope
    BY DEF Covers, Below
  <2>3. /\ ever' \in [Clients -> SUBSET Scope]
        /\ \A d \in Clients : ever[d] \subseteq ever'[d] /\ Covers(registry'[d]) \subseteq ever'[d]
    BY <1>1, <2>1, <2>2
  <2>4. /\ \A code \in codes : code.client \in Clients
        /\ \A t \in tokens : t.client \in Clients
    BY <1>1 DEF Code, Refresh
  <2>5. registry' \in [Clients -> Entries \cup {Unregistered}]
    BY <1>1, <2>1
  <2>6. /\ \A code \in codes : Below(code.scope) \subseteq ever'[code.client]
        /\ \A t \in tokens : Below(t.scope) \subseteq ever'[t.client]
    BY <1>1, <2>3, <2>4 DEF Within
  <2> QED
    BY <1>1, <1>2, <2>1, <2>3, <2>5, <2>6 DEF GrantInvariant, GrantTypeOK, Within
<1>13. CASE UNCHANGED grantVars
  <2>1. /\ registry' = registry /\ codes' = codes /\ tokens' = tokens
        /\ minted' = minted /\ ever' = ever
    BY <1>13 DEF grantVars
  <2> QED
    BY <1>1, <1>2, <2>1 DEF GrantInvariant, GrantTypeOK, Within
<1> QED
  BY <1>4, <1>5, <1>6, <1>7, <1>8, <1>9, <1>10, <1>11, <1>12, <1>13
     DEF GrantNext, Request, Route

LEMMA GrantsStayWithin == GrantSpec => []GrantInvariant
BY GrantStart, GrantStep, PTL DEF GrantSpec

(* Types, with the point that every text a row keeps is that of a ScopeSet. *)
THEOREM GrantTypes == GrantSpec => []GrantTypeOK
BY GrantsStayWithin, PTL DEF GrantInvariant

(* No access token does more than some registration of its client allowed,  *)
(* through authorization, redemption, renewal, widening and any number of   *)
(* changes of the configuration.                                           *)
THEOREM GrantsAreRegistered == GrantSpec => []NothingBeyondRegistration
<1>1. GrantInvariant => NothingBeyondRegistration
  BY DEF GrantInvariant, NothingBeyondRegistration, Within
<1> QED
  BY <1>1, GrantsStayWithin, PTL

(* A token that the tokenserver takes was minted for a client that was      *)
(* registered for oldsync.                                                 *)
THEOREM SyncIsRegistered == GrantSpec => []SyncNeedsRegistration
<1>1. GrantInvariant => SyncNeedsRegistration
  BY DEF GrantInvariant, SyncNeedsRegistration, Within
<1> QED
  BY <1>1, GrantsStayWithin, PTL

===========================================================================
