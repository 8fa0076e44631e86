----------------------------- MODULE AccessChain -----------------------------
(***************************************************************************)
(* From a grant to a stored record.  A browser's refresh token is renewed   *)
(* into an access token, a JWT that nothing on the server records; the      *)
(* tokenserver exchanges it for a storage credential, which nothing records *)
(* either; and that signs the browser's storage requests.  Each is good     *)
(* until it expires, under the configuration the process was started with:  *)
(* its signing key, the key retired before it, the shared secret and the    *)
(* public URL, which the operator may change.                               *)
(*                                                                         *)
(* Scopes are Grants' and key versions TokenServer's; the exchange, several *)
(* statements there, is one step here.                                      *)
(***************************************************************************)
EXTENDS Integers

CONSTANTS
  Accounts,  \* account uids
  Browsers,  \* each is signed in, and holds at most one credential of each kind
  Configs,   \* what an operator starts the server with: a signing key, a retired
             \* one or None, a shared secret or None, and a public URL
  None,      \* no value
  AccessTtl, \* ttl.access_token
  TokenTtl,  \* ttl.tokenserver_token
  MaxUids,   \* bound of the model: Sync uids handed out
  MaxClock   \* bound of the model: the clock stops here

(* load refuses a retired key with the kid of the active one.              *)
ASSUME KeysAssumption == \A c \in Configs : c.key # c.retired
ASSUME TtlAssumption == AccessTtl \in Nat \ {0} /\ TokenTtl \in Nat \ {0}

VARIABLES
  config,   \* what the process was started with
  clock,    \* seconds
  accounts, \* the accounts that exist
  users,    \* sync_users: uid -> account
  lastUid,  \* AUTOINCREMENT's counter
  records,  \* the uids that have records
  owner,    \* the account each browser is signed in to, once and for all
  ended,    \* when its refresh token was revoked; 0 while it stands
  jwt,      \* the access token each browser holds
  token,    \* the storage credential each browser holds
  request   \* the storage request between its check and its transaction

held == <<owner, ended, jwt, token>>
tables == <<accounts, users, lastUid, records>>
vars == <<config, clock, tables, held, request>>

-----------------------------------------------------------------------------
(* What a process knows from its configuration.                            *)

(* The kids it accepts a signature of: a retired key's public half may be  *)
(* published beside the active key, and has to be another key.             *)
Verifiers == {config.key, config.retired} \ {None}

(* resolve_shared_secret: as configured, or derived from the signing key.  *)
Secret == IF config.secret # None THEN config.secret ELSE config.key

(* verify_jwt: a key we know, an exp that is not reached; and our issuer.  *)
Verifies(t) == t.kid \in Verifiers /\ clock < t.exp /\ t.iss = config.url

(* Mutant: any lifetime a client asks for.                                 *)
DurationAsAsked(asked) == asked

(* _duration: ?duration= may shorten a token but never lengthen it.        *)
Duration(asked) == IF asked \in 1 .. TokenTtl THEN asked ELSE TokenTtl

-----------------------------------------------------------------------------
(* Browsers and the routes they call.                                      *)

(* _access_token and sign_jwt                                              *)
AccessToken(a) ==
  [kid |-> config.key, iss |-> config.url, sub |-> a, exp |-> clock + AccessTtl]

(* The refresh-token grant, of a scope that includes oldsync.              *)
Renew(b) ==
  /\ owner[b] \in accounts /\ ended[b] = 0
  /\ jwt' = [jwt EXCEPT ![b] = AccessToken(owner[b])]
  /\ UNCHANGED <<config, clock, tables, owner, ended, token, request>>

(* /v1/verify and /v1/introspect take the token's word, and change nothing. *)
VerifyAnswers(t) == Verifies(t)

UidsOf(a) == {u \in DOMAIN users : users[u] = a}

(* make_token: claims and a salt under the MAC of the secret.              *)
StorageCredential(a, uid, asked) ==
  [secret |-> Secret, origin |-> config.url, sub |-> a, uid |-> uid,
   expires |-> clock + Duration(asked)]

(* GET /1.0/sync/1.5: the account's uid, or a new one at first sight, and  *)
(* a credential for it.                                                    *)
Exchange(b, asked) ==
  LET a == jwt[b].sub
      fresh == UidsOf(a) = {}
      uid == IF fresh THEN lastUid + 1 ELSE CHOOSE u \in UidsOf(a) : TRUE IN
  /\ jwt[b] # None
  /\ Verifies(jwt[b])
  /\ fresh => a \in accounts /\ uid <= MaxUids
  /\ users' = [u \in DOMAIN users \cup {uid} |-> IF u = uid THEN a ELSE users[u]]
  /\ lastUid' = IF fresh THEN uid ELSE lastUid
  /\ token' = [token EXCEPT ![b] = StorageCredential(a, uid, asked)]
  /\ UNCHANGED <<config, clock, accounts, records, owner, ended, jwt, request>>

-----------------------------------------------------------------------------
(* Storage requests.                                                       *)

(* What changed; a record `collections` of a collection `info`, written;   *)
(* any other, read.                                                        *)
Paths == {"info/collections", "storage/info/collections", "storage/tabs/1"}
Writes(path) == path = "storage/info/collections"

(* _exempt_from_expiry                                                     *)
ExemptFromExpiry(path) == path = "info/collections"

(* parse_token: the claims carry our MAC.                                  *)
Intact(t) == t.secret = Secret

(* verify: the request is signed with the key derived from the claims and  *)
(* our secret, over our host; the client signs for the node it was told.   *)
Signed(t) == t.secret = Secret /\ t.origin = config.url

(* authenticate; and _authenticate: the uid is the URL's, and has its row. *)
Authenticates(t, uid, path) ==
  /\ Intact(t)
  /\ ExemptFromExpiry(path) \/ t.expires > clock
  /\ Signed(t)
  /\ t.uid = uid
  /\ uid \in DOMAIN users

(* The signature is checked, and the uid looked up ...                     *)
Authenticate(b, uid, path) ==
  /\ request = None
  /\ token[b] # None
  /\ Authenticates(token[b], uid, path)
  /\ request' = [by |-> b, sub |-> token[b].sub, uid |-> uid, path |-> path,
                 at |-> clock]
  /\ UNCHANGED <<config, clock, tables, held>>

(* ... and then the transaction runs.  If the uid's row went in between,   *)
(* an insert fails on its foreign key, and a read finds nothing.           *)
Transact ==
  /\ request # None
  /\ records' = IF Writes(request.path) /\ request.uid \in DOMAIN users
                THEN records \cup {request.uid} ELSE records
  /\ request' = None
  /\ UNCHANGED <<config, clock, accounts, users, lastUid, held>>

-----------------------------------------------------------------------------
(* What ends an access, and the operator.                                  *)

Revoke(b) ==
  /\ owner[b] \in accounts /\ ended[b] = 0
  /\ ended' = [ended EXCEPT ![b] = clock]
  /\ UNCHANGED <<config, clock, tables, owner, jwt, token, request>>

(* Mutant: the counter is the largest uid in the table.                    *)
RemoveAndForget(a) ==
  /\ a \in accounts
  /\ accounts' = accounts \ {a}
  /\ users' = [u \in DOMAIN users \ UidsOf(a) |-> users[u]]
  /\ lastUid' = IF DOMAIN users' = {} THEN 0 ELSE CHOOSE u \in DOMAIN users' : \A v \in DOMAIN users' : v <= u
  /\ records' = records \ UidsOf(a)
  /\ ended' = [b \in Browsers |-> IF owner[b] = a /\ ended[b] = 0 THEN clock ELSE ended[b]]
  /\ UNCHANGED <<config, clock, owner, jwt, token, request>>

(* `fxa-lite account remove`, another process: everything goes with the    *)
(* account.                                                                *)
Remove(a) ==
  /\ a \in accounts
  /\ accounts' = accounts \ {a}
  /\ users' = [u \in DOMAIN users \ UidsOf(a) |-> users[u]]
  /\ records' = records \ UidsOf(a)
  /\ ended' = [b \in Browsers |-> IF owner[b] = a /\ ended[b] = 0 THEN clock ELSE ended[b]]
  /\ UNCHANGED <<config, clock, lastUid, owner, jwt, token, request>>

(* The process stops, for whatever reason, and starts with this            *)
(* configuration.                                                          *)
Restart(c) ==
  /\ config' = c
  /\ request' = None
  /\ UNCHANGED <<clock, tables, held>>

Tick ==
  /\ clock < MaxClock
  /\ clock' = clock + 1
  /\ UNCHANGED <<config, tables, held, request>>

Init ==
  /\ config \in Configs
  /\ clock = 1
  /\ accounts = Accounts /\ users = [u \in {} |-> None] /\ lastUid = 0 /\ records = {}
  /\ owner \in [Browsers -> Accounts] /\ ended = [b \in Browsers |-> 0]
  /\ jwt = [b \in Browsers |-> None] /\ token = [b \in Browsers |-> None]
  /\ request = None

Routes ==
  \/ \E b \in Browsers : Renew(b)
  \/ \E b \in Browsers, asked \in 0 .. TokenTtl + 1 : Exchange(b, asked)
  \/ \E b \in Browsers, uid \in 1 .. MaxUids, path \in Paths :
       Authenticate(b, uid, path)
  \/ Transact
  \/ \E b \in Browsers : Revoke(b)

Operator == (\E a \in Accounts : Remove(a)) \/ (\E c \in Configs : Restart(c))

Next == Routes \/ Operator \/ Tick

Spec == Init /\ [][Next]_vars

-----------------------------------------------------------------------------
(* A browser whose refresh token was revoked, or whose account was removed, *)
(* reads and writes storage for no longer than an access token and a        *)
(* storage credential live together, whatever keys, secrets and restarts    *)
(* come in between.  Only the question what changed is answered later.      *)
RevocationReachesStorage ==
  request # None /\ ended[request.by] # 0 /\ request.path # "info/collections" =>
    request.at + 1 < ended[request.by] + AccessTtl + TokenTtl

(* A credential opens the storage of the account it was issued to and no   *)
(* other, though uids outlive neither accounts nor restarts; a write that   *)
(* is acknowledged is in a storage of that account.                         *)
OwnStorageOnly ==
  /\ request # None /\ request.uid \in DOMAIN users => users[request.uid] = request.sub
  /\ \A u \in records : u \in DOMAIN users

(* What the access-tokens-not-revocable divergence says of access tokens:  *)
(* `fxa-lite account remove` stops all of them.  Not those shown to verify. *)
RemovalStopsAccessTokens ==
  \A b \in Browsers : jwt[b] # None /\ VerifyAnswers(jwt[b]) => jwt[b].sub \in accounts
=============================================================================
