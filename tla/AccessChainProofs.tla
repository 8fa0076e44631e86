-------------------------- MODULE AccessChainProofs --------------------------
(***************************************************************************)
(* What holds of AccessChain for all accounts, browsers, configurations and *)
(* lifetimes.                                                              *)
(***************************************************************************)
EXTENDS AccessChain, TLAPS

Jwt == [kid : {c.key : c \in Configs}, iss : {c.url : c \in Configs},
        sub : Accounts, exp : Nat]
Token == [secret : {c.key : c \in Configs} \cup {c.secret : c \in Configs},
          origin : {c.url : c \in Configs}, sub : Accounts, uid : Nat, expires : Nat]
Request == [by : Browsers, sub : Accounts, uid : Nat, path : Paths, at : Nat]

ChainTypes ==
  /\ config \in Configs
  /\ clock \in Nat \ {0}
  /\ accounts \subseteq Accounts
  /\ lastUid \in Nat
  /\ users \in [DOMAIN users -> Accounts] /\ DOMAIN users \subseteq 1 .. lastUid
  /\ owner \in [Browsers -> Accounts]
  /\ ended \in [Browsers -> 0 .. clock]
  /\ jwt \in [Browsers -> Jwt \cup {None}]
  /\ token \in [Browsers -> Token \cup {None}]
  /\ request \in Request \cup {None}

(* The last instant at which a browser can have renewed its access token.  *)
LastRenewal(b) == IF ended[b] = 0 THEN clock ELSE ended[b]

(* Each link of the chain is good for no longer than the one before it and  *)
(* its own lifetime.                                                       *)
Bounded ==
  \A b \in Browsers :
    /\ jwt[b] # None => jwt[b].exp <= LastRenewal(b) + AccessTtl
    /\ token[b] # None => token[b].expires < LastRenewal(b) + AccessTtl + TokenTtl
    /\ request # None /\ request.by = b /\ request.path # "info/collections" =>
         request.at + 1 < LastRenewal(b) + AccessTtl + TokenTtl

(* A uid that was handed out is its account's, or nobody's.                *)
Faithful(uid, a) ==
  /\ uid \in 1 .. lastUid
  /\ uid \in DOMAIN users => users[uid] = a

OwnUids ==
  /\ \A b \in Browsers : token[b] # None => Faithful(token[b].uid, token[b].sub)
  /\ request # None => Faithful(request.uid, request.sub)
  /\ records \subseteq DOMAIN users

ChainInvariant == ChainTypes /\ Bounded /\ OwnUids

-----------------------------------------------------------------------------
LEMMA ChainStart == Init => ChainInvariant
BY DEF Init, ChainInvariant, ChainTypes, Bounded, OwnUids

(* What the exchange answers: the lifetime is capped, and the uid is the    *)
(* account's.                                                              *)
LEMMA Durations ==
  ASSUME NEW asked \in Nat
  PROVE  Duration(asked) \in Nat \ {0} /\ Duration(asked) <= TokenTtl
BY TtlAssumption DEF Duration

LEMMA Secrets == ASSUME config \in Configs
  PROVE  Secret \in {c.key : c \in Configs} \cup {c.secret : c \in Configs}
BY DEF Secret

LEMMA RenewStep ==
  ASSUME ChainInvariant, NEW b \in Browsers, Renew(b)
  PROVE  ChainInvariant'
<1> USE TtlAssumption
<1>1. AccessToken(owner[b]) \in Jwt /\ AccessToken(owner[b]).exp = clock + AccessTtl
  BY DEF ChainInvariant, ChainTypes, AccessToken, Jwt
<1>2. /\ jwt' = [jwt EXCEPT ![b] = AccessToken(owner[b])] /\ ended[b] = 0
      /\ UNCHANGED <<config, clock, accounts, users, lastUid, records, owner, ended, token, request>>
  BY DEF Renew, tables
<1> HIDE DEF AccessToken
<1>3. ChainTypes'
  BY <1>1, <1>2 DEF ChainInvariant, ChainTypes
<1>4. Bounded'
  BY <1>1, <1>2 DEF ChainInvariant, ChainTypes, Bounded, LastRenewal
<1>5. OwnUids'
  BY <1>2 DEF ChainInvariant, OwnUids, Faithful
<1> QED
  BY <1>3, <1>4, <1>5 DEF ChainInvariant

LEMMA ExchangeStep ==
  ASSUME ChainInvariant, NEW b \in Browsers, NEW asked \in 0 .. TokenTtl + 1, Exchange(b, asked)
  PROVE  ChainInvariant'
<1> USE TtlAssumption
<1> DEFINE a == jwt[b].sub
           fresh == UidsOf(a) = {}
           uid == IF fresh THEN lastUid + 1 ELSE CHOOSE u \in UidsOf(a) : TRUE
<1>0. ChainTypes /\ Bounded /\ OwnUids
  BY DEF ChainInvariant
<1>1. /\ jwt[b] # None /\ Verifies(jwt[b])
      /\ users' = [u \in DOMAIN users \cup {uid} |-> IF u = uid THEN a ELSE users[u]]
      /\ lastUid' = IF fresh THEN uid ELSE lastUid
      /\ token' = [token EXCEPT ![b] = StorageCredential(a, uid, asked)]
      /\ UNCHANGED <<config, clock, accounts, records, owner, ended, jwt, request>>
  BY DEF Exchange
<1>2. jwt[b] \in Jwt /\ a \in Accounts /\ clock < jwt[b].exp /\ jwt[b].exp \in Nat
  BY <1>0, <1>1 DEF ChainTypes, Jwt, Verifies
<1>3. /\ lastUid' \in Nat /\ lastUid <= lastUid' /\ uid \in 1 .. lastUid'
      /\ DOMAIN users \subseteq DOMAIN users' /\ DOMAIN users' \subseteq 1 .. lastUid'
      /\ users' \in [DOMAIN users' -> Accounts] /\ users'[uid] = a
      /\ \A u \in 1 .. lastUid : u \in DOMAIN users' => u \in DOMAIN users /\ users'[u] = users[u]
  <2> HIDE DEF uid
  <2>1. /\ DOMAIN users' = DOMAIN users \cup {uid}
        /\ \A u \in DOMAIN users' : users'[u] = IF u = uid THEN a ELSE users[u]
    BY <1>1
  <2>2. users' \in [DOMAIN users' -> Accounts] /\ users'[uid] = a
    BY <2>1, <1>0, <1>1, <1>2 DEF ChainTypes
  <2>3. CASE fresh
    <3>1. uid = lastUid + 1 /\ lastUid' = lastUid + 1
      BY <2>3, <1>1 DEF uid
    <3> QED
      BY <1>0, <2>1, <2>2, <3>1 DEF ChainTypes
  <2>4. CASE ~fresh
    <3>1. uid \in UidsOf(a) /\ lastUid' = lastUid
      BY <2>4, <1>1 DEF uid
    <3>2. uid \in DOMAIN users /\ users[uid] = a
      BY <3>1 DEF UidsOf
    <3> QED
      BY <1>0, <2>1, <2>2, <3>1, <3>2 DEF ChainTypes
  <2> QED
    BY <2>3, <2>4
<1> HIDE DEF uid
<1> DEFINE new == StorageCredential(a, uid, asked)
<1>4. /\ new.sub = a /\ new.uid = uid /\ new.expires = clock + Duration(asked)
      /\ Duration(asked) \in Nat /\ Duration(asked) <= TokenTtl
  BY Durations DEF StorageCredential
<1>5. new \in Token
  <2>1. Secret \in {c.key : c \in Configs} \cup {c.secret : c \in Configs}
    BY <1>0, Secrets DEF ChainTypes
  <2>2. uid \in Nat /\ clock + Duration(asked) \in Nat
    BY <1>0, <1>3, <1>4 DEF ChainTypes
  <2> QED
    BY <1>0, <1>2, <2>1, <2>2 DEF ChainTypes, StorageCredential, Token
<1> HIDE DEF new
<1>6. token' = [token EXCEPT ![b] = new]
  BY <1>1 DEF new
<1>7. ChainTypes'
  BY <1>0, <1>1, <1>3, <1>5, <1>6 DEF ChainTypes
<1>8. Bounded'
  <2>1. new.expires < LastRenewal(b) + AccessTtl + TokenTtl
    BY <1>0, <1>1, <1>2, <1>4 DEF ChainTypes, Bounded, LastRenewal
  <2> QED
    BY <1>0, <1>1, <1>6, <2>1 DEF ChainTypes, Bounded, LastRenewal
<1> DEFINE Kept(u, acc) == u \in 1 .. lastUid' /\ (u \in DOMAIN users' => users'[u] = acc)
<1>9. OwnUids'
  <2>1. ASSUME NEW u \in Nat, NEW acc \in Accounts, Faithful(u, acc)
        PROVE  Kept(u, acc)
    BY <2>1, <1>0, <1>3 DEF Faithful, ChainTypes
  <2>2. Kept(uid, a)
    BY <1>3
  <2> HIDE DEF Kept
  <2>3. ASSUME NEW d \in Browsers, token'[d] # None
        PROVE  Kept(token'[d].uid, token'[d].sub)
    <3>1. CASE d = b
      <4>1. token'[d] = new
        BY <3>1, <1>0, <1>6 DEF ChainTypes
      <4> QED
        BY <4>1, <1>4, <2>2
    <3>2. CASE d # b
      <4>1. token'[d] = token[d] /\ token[d] \in Token
        BY <3>2, <2>3, <1>0, <1>6 DEF ChainTypes
      <4>2. Faithful(token[d].uid, token[d].sub) /\ token[d].uid \in Nat /\ token[d].sub \in Accounts
        BY <4>1, <2>3, <1>0 DEF OwnUids, Token
      <4> QED
        BY <4>1, <4>2, <2>1
    <3> QED
      BY <3>1, <3>2
  <2>4. request # None => Kept(request.uid, request.sub)
    BY <2>1, <1>0 DEF OwnUids, ChainTypes, Request
  <2>5. records \subseteq DOMAIN users'
    BY <1>0, <1>3 DEF OwnUids
  <2> QED
    BY <1>1, <2>3, <2>4, <2>5 DEF OwnUids, Faithful, Kept
<1> QED
  BY <1>7, <1>8, <1>9 DEF ChainInvariant

LEMMA AuthenticateStep ==
  ASSUME ChainInvariant, NEW b \in Browsers, NEW uid \in 1 .. MaxUids, NEW path \in Paths,
         Authenticate(b, uid, path)
  PROVE  ChainInvariant'
<1> USE TtlAssumption
<1>0. ChainTypes /\ Bounded /\ OwnUids
  BY DEF ChainInvariant
<1>1. /\ token[b] # None /\ token[b].uid = uid
      /\ path = "info/collections" \/ clock < token[b].expires
      /\ request' = [by |-> b, sub |-> token[b].sub, uid |-> uid, path |-> path, at |-> clock]
      /\ UNCHANGED <<config, clock, accounts, users, lastUid, records, owner, ended, jwt, token>>
  BY DEF Authenticate, Authenticates, ExemptFromExpiry, tables, held
<1>2. token[b] \in Token /\ token[b].expires \in Nat /\ uid \in Nat
  BY <1>0, <1>1 DEF ChainTypes, Token
<1>3. request' \in Request
  BY <1>0, <1>1, <1>2 DEF ChainTypes, Token, Request
<1>4. ChainTypes'
  BY <1>0, <1>1, <1>3 DEF ChainTypes
<1>5. Bounded'
  BY <1>0, <1>1, <1>2 DEF ChainTypes, Bounded, LastRenewal
<1>6. OwnUids'
  BY <1>0, <1>1 DEF OwnUids, Faithful
<1> QED
  BY <1>4, <1>5, <1>6 DEF ChainInvariant

LEMMA RevokeStep ==
  ASSUME ChainInvariant, NEW b \in Browsers, Revoke(b)
  PROVE  ChainInvariant'
<1>0. ChainTypes /\ Bounded /\ OwnUids
  BY DEF ChainInvariant
<1>1. /\ ended[b] = 0 /\ ended' = [ended EXCEPT ![b] = clock]
      /\ UNCHANGED <<config, clock, accounts, users, lastUid, records, owner, jwt, token, request>>
  BY DEF Revoke, tables
<1>2. \A d \in Browsers : LastRenewal(d)' = LastRenewal(d)
  BY <1>0, <1>1 DEF ChainTypes, LastRenewal
<1>3. ChainTypes'
  BY <1>0, <1>1 DEF ChainTypes
<1>4. Bounded'
  BY <1>0, <1>1, <1>2 DEF Bounded
<1>5. OwnUids'
  BY <1>0, <1>1 DEF OwnUids, Faithful
<1> QED
  BY <1>3, <1>4, <1>5 DEF ChainInvariant

LEMMA RemoveStep ==
  ASSUME ChainInvariant, NEW a \in Accounts, Remove(a)
  PROVE  ChainInvariant'
<1>0. ChainTypes /\ Bounded /\ OwnUids
  BY DEF ChainInvariant
<1>1. /\ accounts' = accounts \ {a}
      /\ users' = [u \in DOMAIN users \ UidsOf(a) |-> users[u]]
      /\ records' = records \ UidsOf(a)
      /\ ended' = [b \in Browsers |-> IF owner[b] = a /\ ended[b] = 0 THEN clock ELSE ended[b]]
      /\ UNCHANGED <<config, clock, lastUid, owner, jwt, token, request>>
  BY DEF Remove
<1>2. \A d \in Browsers : LastRenewal(d)' = LastRenewal(d)
  BY <1>0, <1>1 DEF ChainTypes, LastRenewal
<1>3. /\ DOMAIN users' \subseteq DOMAIN users
      /\ \A u \in DOMAIN users' : users'[u] = users[u]
      /\ users' \in [DOMAIN users' -> Accounts]
      /\ records' \subseteq DOMAIN users'
  BY <1>0, <1>1 DEF ChainTypes, OwnUids
<1>4. ChainTypes'
  <2>1. ended' \in [Browsers -> 0 .. clock]
    BY <1>0, <1>1 DEF ChainTypes
  <2> QED
    BY <1>0, <1>1, <1>3, <2>1 DEF ChainTypes
<1>5. Bounded'
  BY <1>0, <1>1, <1>2 DEF Bounded
<1>6. OwnUids'
  BY <1>0, <1>1, <1>3 DEF OwnUids, Faithful
<1> QED
  BY <1>4, <1>5, <1>6 DEF ChainInvariant

LEMMA TickStep ==
  ASSUME ChainInvariant, Tick
  PROVE  ChainInvariant'
<1>0. ChainTypes /\ Bounded /\ OwnUids
  BY DEF ChainInvariant
<1>1. /\ clock' = clock + 1
      /\ UNCHANGED <<config, accounts, users, lastUid, records, owner, ended, jwt, token, request>>
  BY DEF Tick, tables, held
<1>2. \A d \in Browsers : /\ LastRenewal(d) \in Nat /\ LastRenewal(d)' \in Nat
                          /\ LastRenewal(d) <= LastRenewal(d)'
  BY <1>0, <1>1 DEF ChainTypes, LastRenewal
<1>3. ChainTypes'
  BY <1>0, <1>1 DEF ChainTypes
<1>4. Bounded'
  <2>1. \A d \in Browsers : /\ jwt[d] # None => jwt[d].exp \in Nat
                            /\ token[d] # None => token[d].expires \in Nat
    BY <1>0 DEF ChainTypes, Jwt, Token
  <2>2. request # None => request.at \in Nat
    BY <1>0 DEF ChainTypes, Request
  <2> HIDE DEF LastRenewal
  <2> QED
    BY <1>0, <1>1, <1>2, <2>1, <2>2, TtlAssumption DEF Bounded
<1>5. OwnUids'
  BY <1>0, <1>1 DEF OwnUids, Faithful
<1> QED
  BY <1>3, <1>4, <1>5 DEF ChainInvariant

LEMMA ChainStep ==
  ASSUME ChainInvariant, [Next]_vars
  PROVE  ChainInvariant'
<1>0. ChainTypes /\ Bounded /\ OwnUids
  BY DEF ChainInvariant
<1>1. CASE Routes
  <2>1. CASE Transact
    <3>1. /\ request' = None /\ records' \subseteq DOMAIN users
          /\ UNCHANGED <<config, clock, accounts, users, lastUid, owner, ended, jwt, token>>
      BY <2>1, <1>0 DEF Transact, OwnUids, held
    <3> QED
      BY <1>0, <3>1 DEF ChainInvariant, ChainTypes, Bounded, LastRenewal, OwnUids, Faithful
  <2> QED
    BY <1>1, <2>1, RenewStep, ExchangeStep, AuthenticateStep, RevokeStep DEF Routes
<1>2. CASE Operator
  <2>1. ASSUME NEW c \in Configs, Restart(c) PROVE ChainInvariant'
    <3>1. /\ request' = None /\ config' = c
          /\ UNCHANGED <<clock, accounts, users, lastUid, records, owner, ended, jwt, token>>
      BY <2>1 DEF Restart, tables, held
    <3> QED
      BY <1>0, <3>1 DEF ChainInvariant, ChainTypes, Bounded, LastRenewal, OwnUids, Faithful
  <2> QED
    BY <1>2, <2>1, RemoveStep DEF Operator
<1>3. CASE Tick
  BY <1>3, TickStep
<1>4. CASE UNCHANGED vars
  <2>1. UNCHANGED <<config, clock, accounts, users, lastUid, records, owner, ended, jwt, token, request>>
    BY <1>4 DEF vars, tables, held
  <2> QED
    BY <1>0, <2>1 DEF ChainInvariant, ChainTypes, Bounded, LastRenewal, OwnUids, Faithful
<1> QED
  BY <1>1, <1>2, <1>3, <1>4 DEF Next

LEMMA ChainHolds == Spec => []ChainInvariant
BY ChainStart, ChainStep, PTL DEF Spec

(* Whatever the two lifetimes, the keys and the restarts: a revocation      *)
(* reaches storage before an access token and a storage credential have     *)
(* lived out their time one after the other.                               *)
THEOREM RevocationIsBounded == Spec => []RevocationReachesStorage
<1>1. ChainInvariant => RevocationReachesStorage
  BY DEF ChainInvariant, ChainTypes, Bounded, LastRenewal, Request, RevocationReachesStorage
<1> QED
  BY <1>1, ChainHolds, PTL

(* A storage credential opens one account's storage for good, and no record *)
(* is left under a uid without a row.                                      *)
THEOREM StorageIsOwn == Spec => []OwnStorageOnly
<1>1. ChainInvariant => OwnStorageOnly
  BY DEF ChainInvariant, OwnUids, Faithful, OwnStorageOnly
<1> QED
  BY <1>1, ChainHolds, PTL

==============================================================================
