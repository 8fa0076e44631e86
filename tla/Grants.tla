------------------------------- MODULE Grants -------------------------------
(***************************************************************************)
(* Which scopes a client gets: the registry of clients, and every route     *)
(* that turns a request into a code, a refresh token or an access token     *)
(* (oauth/grant.py, oauth/clients.py, oauth/routes.py).                     *)
(*                                                                         *)
(* A request's scopes are parsed into a ScopeSet one by one; the route then *)
(* judges the set.  Codes and refresh tokens carry the scopes they were     *)
(* granted as text, and are honoured long after: between the two the        *)
(* operator may edit the clients in the configuration and restart.          *)
(*                                                                         *)
(* How the statements of two requests interleave is the subject of          *)
(* Credentials; here a request is one step once its scopes are parsed.      *)
(***************************************************************************)
EXTENDS ScopeSets, FiniteSets

CONSTANTS
  Clients,       \* client ids
  Entries,       \* what the configuration may say of a client
  Unregistered,  \* it may also say nothing
  TrustedScopes, UntrustedScopes, NonRefreshableScopes, KeyBearingScopes,
  Oldsync,       \* OLDSYNC_SCOPE
  Tokenserver,   \* the aud of an access token that the tokenserver takes
  None,          \* no access token
  Requested,     \* the scopes requests name
  MaxScopes,     \* bound of the model: scopes held at once
  MaxCodes, MaxTokens \* bounds of the model: codes and refresh tokens at once

Entry == [trusted : BOOLEAN, canGrant : BOOLEAN, public : BOOLEAN, allowed : SUBSET Scope]

ASSUME EntriesAssumption ==
  /\ Entries \subseteq Entry
  /\ Unregistered \notin Entry
  /\ \A e \in Entries : e.allowed = Irredundant(e.allowed)
ASSUME ScopesAssumption ==
  /\ TrustedScopes \cup UntrustedScopes \cup NonRefreshableScopes \subseteq Scope
  /\ KeyBearingScopes \cup Requested \subseteq Scope
  /\ Oldsync \in Scope
\* Client ids are hex, and that audience is a URL.
ASSUME AudienceAssumption == Tokenserver \notin Clients

VARIABLES
  registry, \* the clients the running server knows
  codes,    \* oauth_codes
  tokens,   \* refresh tokens
  minted,   \* the access token just handed out
  ever      \* history: the scopes each client's registrations ever covered

grantVars == <<held, impliedBy, registry, codes, tokens, minted, ever>>

(* Scopes as a row keeps them: the text of a ScopeSet.                     *)
Texts == {S \in SUBSET Scope : Irredundant(S) = S}
Code == [client : Clients, scope : Texts, offline : BOOLEAN, bound : BOOLEAN]
Refresh == [client : Clients, scope : Texts]

Below(S) == {t \in Scope : HasSomeScope(S, Implicants[t])}
Registered(c) == registry[c] # Unregistered

(* All that a registration lets a client have.                             *)
Covers(e) ==
  IF e = Unregistered THEN {}
  ELSE IF e.trusted THEN Below(e.allowed \cup TrustedScopes) ELSE Below(UntrustedScopes)

-----------------------------------------------------------------------------
(* validate_requested_grant.                                               *)

(* Mutant: a trusted client gets what it asks for, as it does upstream.    *)
GrantedLeniently(c, scope) == scope

(* What a trusted client may not have is dropped from what it asks for.    *)
Granted(c, scope) ==
  IF registry[c].trusted
  THEN Filtered(scope, Union(registry[c].allowed, TrustedScopes))
  ELSE scope

Grantable(c, scope) ==
  /\ ~registry[c].trusted => Difference(scope, UntrustedScopes) = {}
  /\ Difference(scope \cap KeyBearingScopes, registry[c].allowed) = {}
  /\ scope # {} => Granted(c, scope) # {}

(* Mutant: the audience is the tokenserver's when the scopes touch sync.   *)
AudienceIntersects(c, scope) ==
  IF Below(scope) \cap Below({Oldsync}) # {} THEN Tokenserver ELSE c

(* _access_token: sync tokens are spent at the tokenserver.                *)
Audience(c, scope) == IF Contains(scope, {Oldsync}) THEN Tokenserver ELSE c

(* generate_tokens: an access token, and a refresh token when offline.     *)
Mint(c, scope, offline) ==
  /\ minted' = [client |-> c, scope |-> scope, aud |-> Audience(c, scope)]
  /\ offline => Cardinality(tokens) < MaxTokens
  /\ tokens' = IF offline THEN tokens \cup {[client |-> c, scope |-> scope]} ELSE tokens

-----------------------------------------------------------------------------
(* A request's scopes.                                                     *)

(* _requested_scope and _parse_scope, a scope at a time.  A request with   *)
(* service=sync for a scope reads as one that names oldsync and profile.   *)
ParseScope(s) ==
  /\ Cardinality(held) < MaxScopes
  /\ AddScope(s)
  /\ minted' = None
  /\ UNCHANGED <<registry, codes, tokens, ever>>

(* A request that is refused, or whose client went away.                   *)
Drop ==
  /\ held # {}
  /\ NewSet
  /\ minted' = None
  /\ UNCHANGED <<registry, codes, tokens, ever>>

-----------------------------------------------------------------------------
(* The routes.                                                             *)

(* POST /oauth/authorization.  A public client, and no other, binds its    *)
(* code to a PKCE challenge.                                               *)
Authorize(c, offline) ==
  /\ Registered(c) /\ Grantable(c, held)
  /\ Cardinality(codes) < MaxCodes
  /\ codes' = codes \cup {[client |-> c, scope |-> Granted(c, held), offline |-> offline,
                           bound |-> registry[c].public]}
  /\ minted' = None
  /\ NewSet
  /\ UNCHANGED <<registry, tokens, ever>>

(* delete_expired_oauth_codes, or an expired code that is presented.       *)
ExpireCode(code) ==
  /\ codes' = codes \ {code}
  /\ minted' = None
  /\ UNCHANGED <<setVars, registry, tokens, ever>>

(* _authorization_code_grant's two checks of the PKCE verifier.            *)
VerifierFits(code, verifier) ==
  /\ verifier # "none" => registry[code.client].public
  /\ verifier = IF code.bound THEN "right" ELSE "none"

(* POST /oauth/token, authorization_code: the code is spent, its scopes    *)
(* are granted as they were recorded.                                      *)
Redeem(code, verifier) ==
  /\ Registered(code.client) /\ VerifierFits(code, verifier)
  /\ codes' = codes \ {code}
  /\ Mint(code.client, code.scope, code.offline)
  /\ UNCHANGED <<setVars, registry, ever>>

(* _refresh_token_grant: a trusted client may widen what it holds, within  *)
(* its allow-list; any client may narrow it.                               *)
Renewable(t) ==
  \/ Contains(t.scope, held)
  \/ /\ registry[t.client].trusted
     /\ Contains(Union(Union(t.scope, registry[t.client].allowed), TrustedScopes), held)

(* POST /oauth/token, refresh_token; held is {} when no scope is asked.    *)
Renew(t) ==
  /\ Registered(t.client)
  /\ held # {} => Renewable(t)
  /\ Mint(t.client, Difference(IF held = {} THEN t.scope ELSE held, NonRefreshableScopes), FALSE)
  /\ NewSet
  /\ UNCHANGED <<registry, codes, ever>>

(* POST /oauth/token, fxa-credentials: straight from a session.            *)
GrantDirectly(c, offline) ==
  /\ Registered(c) /\ registry[c].canGrant /\ registry[c].public
  /\ Grantable(c, held)
  /\ Mint(c, Granted(c, held), offline)
  /\ NewSet
  /\ UNCHANGED <<registry, codes, ever>>

(* POST /oauth/destroy and /destroy; the client, when named, must match.   *)
Destroy(t) ==
  /\ tokens' = tokens \ {t}
  /\ minted' = None
  /\ UNCHANGED <<setVars, registry, codes, ever>>

-----------------------------------------------------------------------------
(* The operator edits [[clients]] and restarts: build() replaces an entry  *)
(* wholesale.  Requests under way are lost, rows are not.                  *)
Restart(c, e) ==
  /\ registry' = [registry EXCEPT ![c] = e]
  /\ ever' = [ever EXCEPT ![c] = @ \cup Covers(e)]
  /\ minted' = None
  /\ NewSet
  /\ UNCHANGED <<codes, tokens>>

GrantInit ==
  /\ SetInit
  /\ registry \in [Clients -> Entries]
  /\ codes = {} /\ tokens = {} /\ minted = None
  /\ ever = [c \in Clients |-> Covers(registry[c])]

Request ==
  \/ \E s \in Requested : ParseScope(s)
  \/ Drop

Route ==
  \/ \E c \in Clients, offline \in BOOLEAN : Authorize(c, offline) \/ GrantDirectly(c, offline)
  \/ \E code \in codes : ExpireCode(code)
  \/ \E code \in codes, verifier \in {"none", "right", "wrong"} : Redeem(code, verifier)
  \/ \E t \in tokens : Renew(t) \/ Destroy(t)

GrantNext ==
  \/ Request
  \/ Route
  \/ \E c \in Clients, e \in Entries \cup {Unregistered} : Restart(c, e)

GrantSpec == GrantInit /\ [][GrantNext]_grantVars

-----------------------------------------------------------------------------
AccessToken == [client : Clients, scope : Texts, aud : Clients \cup {Tokenserver}]

GrantTypeOK ==
  /\ SetTypeOK
  /\ registry \in [Clients -> Entries \cup {Unregistered}]
  /\ codes \subseteq Code
  /\ tokens \subseteq Refresh
  /\ minted \in AccessToken \cup {None}
  /\ ever \in [Clients -> SUBSET Scope]

(* Whatever was asked, granted, recorded, narrowed, widened and redeemed   *)
(* under whichever configuration: no access token does more than some      *)
(* registration of its client allowed.                                     *)
NothingBeyondRegistration ==
  minted # None => Below(minted.scope) \subseteq ever[minted.client]

(* An access token the tokenserver takes, and so a Sync credential, comes  *)
(* only of a client that was registered for all of oldsync.                *)
SyncNeedsRegistration ==
  minted # None /\ minted.aud = Tokenserver => Oldsync \in ever[minted.client]

(* What the strict-scope-validation divergence says of the registry: the   *)
(* registered allow-list has to be the whole answer.  A token granted      *)
(* before the list was narrowed still gives what it did.                   *)
AllowListIsTheWholeAnswer ==
  minted # None => Below(minted.scope) \subseteq Covers(registry[minted.client])

=============================================================================
