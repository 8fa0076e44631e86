---------------------------- MODULE Credentials ----------------------------
(***************************************************************************)
(* Accounts and what opens them: session tokens, key-fetch tokens, OAuth    *)
(* codes and refresh tokens, and the device records that point at them      *)
(* (src/src/fxa_lite/auth, oauth, accounts.py and the tables of db.py).     *)
(*                                                                         *)
(* Every route here is a `def` route in a pool of threads, and every        *)
(* statement commits by itself: only delete_device opens a transaction.     *)
(* So a request is one action per statement, with what it has read in the   *)
(* worker's locals, and the foreign keys and unique indexes of the schema   *)
(* are what a statement meets when it finally runs.                         *)
(*                                                                         *)
(* One email address: an account is signed up for it, removed, and signed   *)
(* up for it again under another uid.  Passwords given are right (the       *)
(* wrong ones are Throttle's), timestamps and profiles are left out.        *)
(***************************************************************************)
EXTENDS Integers, FiniteSetsExt

CONSTANTS
  Workers,    \* threads of the pool
  Uids,       \* account uids, random and so never used twice
  Sessions,   \* session tokens, likewise, and so for all tokens
  KeyFetches, \* key-fetch tokens
  Codes,      \* OAuth authorization codes
  Refreshes,  \* OAuth refresh tokens
  DeviceIds,  \* ids of device records
  None        \* no value

Tokens == Sessions \cup KeyFetches \cup Codes \cup Refreshes

ASSUME DisjointAssumption ==
  /\ Sessions \cap KeyFetches = {} /\ Sessions \cap Codes = {} /\ Sessions \cap Refreshes = {}
  /\ KeyFetches \cap Codes = {} /\ KeyFetches \cap Refreshes = {} /\ Codes \cap Refreshes = {}
  /\ None \notin Tokens \cup DeviceIds \cup Uids

VARIABLES
  accounts, \* uids with a row in accounts
  tokens,   \* the rows of the four token tables: token -> account uid
  devices,  \* the rows of devices: id -> its account, and the token it points at
  expired,  \* the codes of it that are past their lifetime
  worker,   \* what each thread is doing
  minted,   \* history: every uid, token and device id handed out so far
  revoked,  \* history: tokens whose revocation was answered
  given     \* history: how often a code or a key-fetch token was honoured

vars == <<accounts, tokens, devices, expired, worker, minted, revoked, given>>
tables == <<accounts, tokens, devices>>
history == <<minted, revoked, given>>

(* What a session token, a refresh token or the account's password may ask *)
(* for.                                                                    *)
SessionOps == {"reauth", "close", "signout", "duplicate", "register", "disconnect",
               "authorize", "direct"}
DeviceOps == {"register", "disconnect"}

Idle == [pc |-> "idle", op |-> None, cred |-> None, uid |-> None, device |-> None,
         pointer |-> None, late |-> FALSE]

-----------------------------------------------------------------------------
(* Statements.                                                             *)

Live(t) == t \in DOMAIN tokens
Fresh(S) == S \ minted
OwnDevices(t) == {d \in DOMAIN devices : devices[d].by = t}

(* Mutant: PRAGMA foreign_keys left off.                                   *)
InsertUnchecked(t, u) ==
  /\ tokens' = [x \in DOMAIN tokens \cup {t} |-> IF x = t THEN u ELSE tokens[x]]
  /\ minted' = minted \cup {t}

(* INSERT of a token; the foreign key on the account refuses it when the   *)
(* account has gone.                                                       *)
Insert(t, u) ==
  /\ u \in accounts
  /\ tokens' = [x \in DOMAIN tokens \cup {t} |-> IF x = t THEN u ELSE tokens[x]]
  /\ minted' = minted \cup {t}

(* DELETE of tokens; the device records of deleted sessions go with them,  *)
(* those of refresh tokens stay.                                           *)
Delete(T) ==
  /\ tokens' = [t \in DOMAIN tokens \ T |-> tokens[t]]
  /\ devices' = [d \in {e \in DOMAIN devices : devices[e].by \notin T \cap Sessions} |->
                   devices[d]]
  /\ expired' = expired \ T

(* delete_account: every child table cascades.                             *)
DeleteAccount(u) ==
  /\ accounts' = accounts \ {u}
  /\ tokens' = [t \in {x \in DOMAIN tokens : tokens[x] # u} |-> tokens[t]]
  /\ devices' = [d \in {e \in DOMAIN devices : devices[e].uid # u} |-> devices[d]]
  /\ expired' = {c \in expired : tokens[c] # u}
  /\ revoked' = revoked \cup {t \in DOMAIN tokens : tokens[t] = u}

-----------------------------------------------------------------------------
(* The life of a request.                                                  *)

At(w, pc) == worker[w].pc = pc

(* The locals a statement still reads; the others are forgotten.           *)
Needs(pc) ==
  {"late"} \cup CASE pc = "answered" -> {}
                 [] pc \in {"delete", "drop"} -> {"cred"}
                 [] pc = "disconnect" -> {"device", "pointer"}
                 [] pc = "password" -> {"op", "uid"}
                 [] pc \in {"session", "copy", "keyfetch", "remove", "sweep", "code", "record"}
                      -> {"uid"}
                 [] OTHER -> {"op", "cred", "uid", "device"}

Then(w, pc, job) ==
  worker' = [worker EXCEPT ![w] =
    [f \in DOMAIN Idle |-> IF f = "pc" THEN pc ELSE IF f \in Needs(pc) THEN job[f] ELSE Idle[f]]]
Goto(w, pc) == Then(w, pc, worker[w])
Refuse(w) == worker' = [worker EXCEPT ![w] = Idle]

(* The step a request comes to once its credential was found.              *)
Handler == [reauth |-> "password", close |-> "password", signout |-> "target",
            duplicate |-> "copy", register |-> "own", disconnect |-> "record",
            authorize |-> "sweep", direct |-> "grant", renew |-> "answered",
            keys |-> "spend", redeem |-> "spend", revoke |-> "delete"]

(* A request whose first statement is its own.                             *)
Arrive(w, op) ==
  /\ At(w, "idle")
  /\ worker' = [worker EXCEPT ![w] = [Idle EXCEPT !.pc = op, !.op = op]]
  /\ UNCHANGED <<tables, expired, history>>

(* A request with a credential looks its row up first, and is refused      *)
(* without one, before anything has changed.  The account is read right    *)
(* after it.  One that has gone never comes back, so to read both at once  *)
(* leaves out some refusals and nothing else.                              *)
Lookup(w, op, cred) ==
  /\ At(w, "idle")
  /\ Live(cred)
  /\ Then(w, IF cred \in expired THEN "drop" ELSE Handler[op],
          [Idle EXCEPT !.op = op, !.cred = cred, !.uid = tokens[cred],
                       !.late = cred \in revoked])
  /\ UNCHANGED <<tables, expired, history>>

(* A token can be presented from the moment its row is written: its answer *)
(* is next, and a list of sessions shows them all.                         *)
Requests(w) ==
  \/ \E op \in {"signup", "password"} : Arrive(w, op)
  \/ \E op \in SessionOps, s \in Sessions : Lookup(w, op, s)
  \/ \E op \in DeviceOps \cup {"renew", "revoke"}, r \in Refreshes : Lookup(w, op, r)
  \/ \E k \in KeyFetches : Lookup(w, "keys", k)
  \/ \E c \in Codes : Lookup(w, "redeem", c)

(* Only a code is spent before its account is looked for.                  *)
Account(w) ==
  /\ At(w, "account")
  /\ IF worker[w].uid \in accounts THEN Goto(w, "grant") ELSE Refuse(w)
  /\ UNCHANGED <<tables, expired, history>>

Done(w) == At(w, "answered") /\ Refuse(w) /\ UNCHANGED <<tables, expired, history>>

-----------------------------------------------------------------------------
(* Accounts and sessions.                                                  *)

(* POST /account/create: the unique email lets one account in; then it is  *)
(* signed in like any other.                                               *)
SignUp(w) ==
  /\ At(w, "signup")
  /\ \/ /\ accounts # {}
        /\ Refuse(w)
        /\ UNCHANGED <<accounts, minted>>
     \/ /\ accounts = {}
        /\ \E u \in Fresh(Uids) :
             /\ accounts' = {u}
             /\ minted' = minted \cup {u}
             /\ Then(w, "session", [worker[w] EXCEPT !.uid = u])
  /\ UNCHANGED <<tokens, devices, expired, revoked, given>>

(* authenticate: the account with the email, and the right password.  A    *)
(* session that is to be renewed or to end its account must be of that one.*)
Password(w) ==
  /\ At(w, "password")
  /\ \/ /\ accounts = {} \/ worker[w].uid \notin accounts \cup {None}
        /\ Refuse(w)
     \/ \E u \in accounts :
          /\ worker[w].uid \in {None, u}
          /\ Then(w, CASE worker[w].op = "close" -> "remove"
                       [] worker[w].op = "reauth" -> "keyfetch"
                       [] OTHER -> "session",
                  [worker[w] EXCEPT !.uid = u])
  /\ UNCHANGED <<tables, expired, history>>

(* What an INSERT comes to: the row, or a 500 for want of the account.     *)
Mint(w, S, next) ==
  \/ /\ \E t \in Fresh(S) : Insert(t, worker[w].uid)
     /\ Goto(w, next)
     /\ UNCHANGED <<accounts, devices>>
  \/ worker[w].uid \notin accounts /\ Refuse(w) /\ UNCHANGED <<tables, minted>>

(* start_session                                                           *)
Session(w) ==
  /\ At(w, "session")
  /\ Mint(w, Sessions, "keyfetch")
  /\ UNCHANGED <<expired, revoked, given>>

(* POST /session/duplicate: a copy of the session as it was read.          *)
Copy(w) ==
  /\ At(w, "copy")
  /\ Mint(w, Sessions, "answered")
  /\ UNCHANGED <<expired, revoked, given>>

(* start_key_fetch, if the keys were asked for.                            *)
KeyFetch(w) ==
  /\ At(w, "keyfetch")
  /\ \/ Mint(w, KeyFetches, "answered")
     \/ Goto(w, "answered") /\ UNCHANGED <<tables, minted>>
  /\ UNCHANGED <<expired, revoked, given>>

(* POST /account/destroy                                                   *)
Remove(w) ==
  /\ At(w, "remove")
  /\ DeleteAccount(worker[w].uid)
  /\ Goto(w, "answered")
  /\ UNCHANGED <<minted, given>>

(* POST /session/destroy: the session itself, or another of its account.   *)
Target(w) ==
  /\ At(w, "target")
  /\ \/ Goto(w, "delete")
     \/ \E s \in Sessions \cap minted :
          IF Live(s) /\ tokens[s] = worker[w].uid
          THEN Then(w, "delete", [worker[w] EXCEPT !.cred = s])
          ELSE Refuse(w)
  /\ UNCHANGED <<tables, expired, history>>

(* The sign-out's DELETE, and that of POST /oauth/destroy and /destroy.    *)
DeleteToken(w) ==
  /\ At(w, "delete")
  /\ Delete({worker[w].cred})
  /\ revoked' = revoked \cup {worker[w].cred}
  /\ Goto(w, "answered")
  /\ UNCHANGED <<accounts, minted, given>>

-----------------------------------------------------------------------------
(* Codes, key bundles and grants.                                          *)

Honour(t) == given' = [given EXCEPT ![t] = @ + 1]

(* oauth_authorization sweeps the expired codes ...                        *)
Sweep(w) ==
  /\ At(w, "sweep")
  /\ Delete(expired)
  /\ Goto(w, "code")
  /\ UNCHANGED <<accounts, history>>

(* ... and inserts its own.                                                *)
Code(w) ==
  /\ At(w, "code")
  /\ Mint(w, Codes, "answered")
  /\ UNCHANGED <<expired, revoked, given>>

(* An expired code is deleted, and the request refused.                    *)
Drop(w) ==
  /\ At(w, "drop")
  /\ Delete({worker[w].cred})
  /\ Refuse(w)
  /\ UNCHANGED <<accounts, history>>

(* Mutant: the token is left where it is.                                  *)
SpendNothing(w) ==
  /\ At(w, "spend")
  /\ IF worker[w].op = "keys"
     THEN Honour(worker[w].cred) /\ Goto(w, "answered")
     ELSE Goto(w, "account") /\ UNCHANGED given
  /\ UNCHANGED <<tables, expired, minted, revoked>>

(* Mutant: the bundle is answered first, and its token deleted after.      *)
SpendGivesFirst(w) ==
  /\ At(w, "spend")
  /\ IF worker[w].op = "keys"
     THEN Honour(worker[w].cred) /\ Goto(w, "delete") /\ UNCHANGED <<tokens, devices, expired>>
     ELSE Delete({worker[w].cred}) /\ Goto(w, "account") /\ UNCHANGED given
  /\ UNCHANGED <<accounts, minted, revoked>>

(* The DELETE that spends a code before the rest of its request, or a      *)
(* key-fetch token before its bundle is answered.  How many rows it hit is *)
(* not looked at.                                                          *)
Spend(w) ==
  /\ At(w, "spend")
  /\ Delete({worker[w].cred})
  /\ IF worker[w].op = "keys"
     THEN Honour(worker[w].cred) /\ Goto(w, "answered")
     ELSE Goto(w, "account") /\ UNCHANGED given
  /\ UNCHANGED <<accounts, minted, revoked>>

(* generate_tokens: an access token, which leaves no row, and for offline  *)
(* access a refresh token.                                                 *)
Grant(w) ==
  /\ At(w, "grant")
  /\ \/ Mint(w, Refreshes, "answered")
     \/ Goto(w, "answered") /\ UNCHANGED <<tables, minted>>
  /\ IF worker[w].op = "redeem" /\ worker'[w].pc = "answered"
     THEN Honour(worker[w].cred) ELSE UNCHANGED given
  /\ UNCHANGED <<expired, revoked>>

-----------------------------------------------------------------------------
(* Devices.                                                                *)

(* device_register: the record the caller's credential points at, if any.  *)
Own(w) ==
  /\ At(w, "own")
  /\ IF OwnDevices(worker[w].cred) = {} THEN Goto(w, "named")
     ELSE \E d \in OwnDevices(worker[w].cred) :
            Then(w, "named", [worker[w] EXCEPT !.device = d])
  /\ UNCHANGED <<tables, expired, history>>

(* The record the request names, if it names one: it must be there, and no *)
(* other than the caller's own.                                            *)
Named(w) ==
  /\ At(w, "named")
  /\ \/ Goto(w, "upsert")
     \/ \E d \in DeviceIds \cap minted :
          IF /\ d \in DOMAIN devices /\ devices[d].uid = worker[w].uid
             /\ worker[w].device \in {None, d}
          THEN Then(w, "upsert", [worker[w] EXCEPT !.device = d])
          ELSE Refuse(w)
  /\ UNCHANGED <<tables, expired, history>>

(* The foreign keys of the row: its account, and a session that must exist.*)
(* The pointer to a refresh token is no foreign key.                       *)
Referenced(w) ==
  worker[w].uid \in accounts /\ (worker[w].cred \in Sessions => Live(worker[w].cred))

PutDevice(w, d, by) ==
  devices' = [e \in DOMAIN devices \cup {d} |->
    IF e # d THEN devices[e]
    ELSE [uid |-> IF d \in DOMAIN devices THEN devices[d].uid ELSE worker[w].uid, by |-> by]]

(* Mutant: the unique indexes are missing (no schema v4).                  *)
UpsertDuplicate(w, d) == Referenced(w) /\ PutDevice(w, d, worker[w].cred)

(* Mutant: the merged record does not carry the caller's credential.       *)
UpsertUnowned(w, d) == Referenced(w) /\ PutDevice(w, d, None)

(* upsert_device, under the unique indexes on both pointers.               *)
Upsert(w, d) ==
  /\ Referenced(w)
  /\ OwnDevices(worker[w].cred) \subseteq {d}
  /\ PutDevice(w, d, worker[w].cred)

Register(w) ==
  /\ At(w, "upsert")
  /\ \/ \E d \in IF worker[w].device = None THEN Fresh(DeviceIds) ELSE {worker[w].device} :
          Upsert(w, d) /\ Goto(w, "answered") /\ minted' = minted \cup {d}
     \/ /\ ~Referenced(w) \/ ~(OwnDevices(worker[w].cred) \subseteq {worker[w].device})
        /\ Refuse(w)
        /\ UNCHANGED <<devices, minted>>
  /\ UNCHANGED <<accounts, tokens, expired, revoked, given>>

(* device_destroy: the record as it is now ...                             *)
Record(w) ==
  /\ At(w, "record")
  /\ \E d \in DeviceIds \cap minted :
       IF d \in DOMAIN devices /\ devices[d].uid = worker[w].uid
       THEN Then(w, "disconnect", [worker[w] EXCEPT !.device = d, !.pointer = devices[d].by])
       ELSE Refuse(w)
  /\ UNCHANGED <<tables, expired, history>>

(* Mutant: the record goes, and its credential stays.                      *)
DisconnectRecordOnly(w) ==
  /\ At(w, "disconnect")
  /\ devices' = [d \in DOMAIN devices \ {worker[w].device} |-> devices[d]]
  /\ revoked' = revoked \cup {worker[w].pointer}
  /\ Goto(w, "answered")
  /\ UNCHANGED <<accounts, tokens, expired, minted, given>>

(* ... and, in a transaction, it and the credential it pointed at deleted. *)
Disconnect(w) ==
  /\ At(w, "disconnect")
  /\ tokens' = [t \in DOMAIN tokens \ {worker[w].pointer} |-> tokens[t]]
  /\ devices' = [d \in {e \in DOMAIN devices \ {worker[w].device} :
                          devices[e].by \notin {worker[w].pointer} \cap Sessions} |-> devices[d]]
  /\ revoked' = revoked \cup {worker[w].pointer}
  /\ Goto(w, "answered")
  /\ UNCHANGED <<accounts, expired, minted, given>>

-----------------------------------------------------------------------------
(* The rest of the world.                                                  *)

(* `fxa-lite account remove`, in another process.                          *)
RemoveAccount(u) ==
  /\ u \in accounts
  /\ DeleteAccount(u)
  /\ UNCHANGED <<worker, minted, given>>

Expire(c) ==
  /\ Live(c) /\ c \notin expired
  /\ expired' = expired \cup {c}
  /\ UNCHANGED <<tables, worker, history>>

(* The process dies between two statements and starts again.               *)
Crash ==
  /\ worker' = [w \in Workers |-> Idle]
  /\ UNCHANGED <<tables, expired, history>>

Init ==
  /\ accounts = {}
  /\ tokens = [t \in {} |-> None]
  /\ devices = [d \in {} |-> None]
  /\ expired = {}
  /\ worker = [w \in Workers |-> Idle]
  /\ minted = {}
  /\ revoked = {}
  /\ given = [t \in KeyFetches \cup Codes |-> 0]

Step(w) ==
  \/ Account(w) \/ Done(w)
  \/ SignUp(w) \/ Password(w) \/ Session(w) \/ Copy(w) \/ KeyFetch(w) \/ Remove(w)
  \/ Target(w) \/ DeleteToken(w)
  \/ Sweep(w) \/ Code(w) \/ Drop(w) \/ Spend(w) \/ Grant(w)
  \/ Own(w) \/ Named(w) \/ Register(w) \/ Record(w) \/ Disconnect(w)

Next ==
  \/ \E w \in Workers : Requests(w) \/ Step(w)
  \/ \E u \in Uids : RemoveAccount(u)
  \/ \E c \in Codes : Expire(c)
  \/ Crash

Spec == Init /\ [][Next]_vars

-----------------------------------------------------------------------------
Steps == {"idle", "account", "answered", "signup", "password", "session", "copy",
          "keyfetch", "remove", "target", "delete", "sweep", "code", "drop", "spend", "grant", "own",
          "named", "upsert", "record", "disconnect"}
Ops == SessionOps \cup {"signup", "password", "renew", "revoke", "keys", "redeem"}

Job == [pc : Steps, op : Ops \cup {None}, cred : Tokens \cup {None}, uid : Uids \cup {None},
        device : DeviceIds \cup {None}, pointer : Tokens \cup {None}, late : BOOLEAN]

TypeOK ==
  /\ accounts \subseteq Uids
  /\ DOMAIN tokens \subseteq Tokens /\ tokens \in [DOMAIN tokens -> Uids]
  /\ DOMAIN devices \subseteq DeviceIds
  /\ devices \in [DOMAIN devices -> [uid : Uids, by : Sessions \cup Refreshes]]
  /\ expired \subseteq Codes \cap DOMAIN tokens
  /\ worker \in [Workers -> Job]
  /\ minted \subseteq Uids \cup Tokens \cup DeviceIds
  /\ revoked \subseteq Tokens
  /\ given \in [KeyFetches \cup Codes -> Nat]

(* Removing an account leaves nothing behind that opens it, and a device   *)
(* list names no session that is gone: whatever requests were under way,   *)
(* none of them writes a row for an account or a session removed           *)
(* meanwhile.                                                              *)
NoOrphans ==
  /\ \A t \in DOMAIN tokens : tokens[t] \in accounts
  /\ \A d \in DOMAIN devices :
       /\ devices[d].uid \in accounts
       /\ devices[d].by \in Sessions => Live(devices[d].by)

(* One row per device: a credential owns one record at most, however its   *)
(* registrations race.                                                     *)
OneDeviceEach == \A t \in Tokens : Cardinality(OwnDevices(t)) <= 1

(* A code or a key-fetch token is out of its table before anything is      *)
(* given for it, so neither a failure nor a crash after that point lets    *)
(* the same one be used again.                                             *)
GivenIsSpent == \A t \in KeyFetches \cup Codes : given[t] > 0 => ~Live(t)

(* Requests with one code or key-fetch token that overlap may each be given *)
(* something for it, but only those that read its row before it went: no   *)
(* more than there are threads, however often the client or another one    *)
(* sends it and wherever the process dies.                                 *)
HonouredWithinThePool ==
  \A t \in KeyFetches \cup Codes : given[t] <= Cardinality(Workers)

(* What was revoked stays out: a request that comes after a sign-out, a    *)
(* revocation, a disconnection or the removal of the account was answered  *)
(* is not granted on the credential that ended.  (Disconnecting a device   *)
(* ends the credential its record pointed at when the request read it.)    *)
RevokedStaysOut == \A w \in Workers : At(w, "answered") => ~worker[w].late

(* What the code says of authorization codes ("one use only") and of key   *)
(* bundles ("hand over ... once").  Not so when two requests overlap.      *)
HonouredOnce == \A t \in KeyFetches \cup Codes : given[t] <= 1

=============================================================================
