---------------------------- MODULE TokenServer ----------------------------
(***************************************************************************)
(* The Sync tokenserver (src/src/fxa_lite/tokenserver): GET /1.0/sync/1.5   *)
(* and the table sync_users.                                                *)
(*                                                                         *)
(* The route is a `def` route, so requests run in a pool of worker threads *)
(* over one SQLite file, and it opens no transaction: every statement      *)
(* commits by itself.  A request is therefore one action per statement,    *)
(* with what it read so far in the worker's locals.                        *)
(***************************************************************************)
EXTENDS Integers, FiniteSetsExt

CONSTANTS
  Workers,    \* threads of the pool
  Accounts,   \* account uids
  Auths,      \* what access tokens and X-KeyID headers claim
  Unreported, \* None: a timestamp that was not reported, or reported as 0
  MaxUids,    \* bound of the model: Sync uids handed out
  MaxClock    \* bound of the model: the clock stops here

(* A timestamp of 0 is read as one that was not reported, and a request     *)
(* without a client state is refused before it comes here.                 *)
ASSUME AuthsAssumption ==
  /\ \A a \in Auths : /\ {a.generation, a.keysChangedAt} \subseteq (Nat \ {0}) \cup {Unreported}
                      /\ a.state # Unreported
  /\ Unreported \notin Nat
ASSUME BoundsAssumption == MaxUids \in Nat /\ MaxClock \in Nat \ {0}

VARIABLES
  accounts,   \* the accounts that exist
  users,      \* sync_users, by uid
  lastUid,    \* AUTOINCREMENT's counter
  clock,
  worker,     \* what each thread is doing
  answered,   \* history: the credentials handed out
  raced       \* history: the accounts whose own requests got in each other's way

vars == <<accounts, users, lastUid, clock, worker, answered, raced>>

Timestamps ==
  ({a.generation : a \in Auths} \cup {a.keysChangedAt : a \in Auths}) \ {Unreported}
ClientStates == {a.state : a \in Auths}

NoRow == [account |-> Unreported, state |-> Unreported, generation |-> 0,
          keysChangedAt |-> Unreported, createdAt |-> 0, replacedAt |-> 0]

Idle == [pc |-> "idle", account |-> Unreported, auth |-> Unreported, at |-> 0,
         uid |-> 0, user |-> NoRow, todo |-> {}, stale |-> {}, late |-> FALSE]

-----------------------------------------------------------------------------
(* The table.                                                              *)

UidsOf(a) == {u \in DOMAIN users : users[u].account = a}

(* Mutant: the newest row is the current one, whatever its generation.     *)
BeforeByTime(u, v) ==
  \/ users[u].createdAt > users[v].createdAt
  \/ users[u].createdAt = users[v].createdAt /\ u > v

(* ORDER BY generation DESC, created_at DESC, uid DESC                     *)
Before(u, v) ==
  LET r == users[u]
      s == users[v] IN
  \/ r.generation > s.generation
  \/ r.generation = s.generation /\ r.createdAt > s.createdAt
  \/ r.generation = s.generation /\ r.createdAt = s.createdAt /\ u > v

Current(a) == CHOOSE u \in UidsOf(a) : \A v \in UidsOf(a) \ {u} : Before(u, v)

Live(a) == {u \in UidsOf(a) : users[u].replacedAt = 0}

(* The client states an account's history holds, its current one aside.    *)
Retired(a) ==
  IF UidsOf(a) = {} THEN {}
  ELSE {users[u].state : u \in UidsOf(a)} \ {users[Current(a)].state}

Row(w, generation, keysChangedAt) ==
  [account |-> worker[w].account, state |-> worker[w].auth.state,
   generation |-> generation, keysChangedAt |-> keysChangedAt,
   createdAt |-> worker[w].at, replacedAt |-> 0]

(* Mutant: a bare rowid, which hands out the largest uid again once its row *)
(* is gone.                                                                 *)
InsertByRowid(row) ==
  LET uid == IF DOMAIN users = {} THEN 1 ELSE Max(DOMAIN users) + 1 IN
  /\ row.account \in accounts
  /\ uid <= MaxUids
  /\ lastUid' = uid
  /\ users' = [u \in DOMAIN users \cup {uid} |-> IF u = uid THEN row ELSE users[u]]

(* create_sync_user.  The foreign key refuses a row for an account that is *)
(* gone, and a uid is never handed out twice.                              *)
Insert(row) ==
  /\ row.account \in accounts
  /\ lastUid < MaxUids
  /\ lastUid' = lastUid + 1
  /\ users' = [u \in DOMAIN users \cup {lastUid + 1} |->
                 IF u = lastUid + 1 THEN row ELSE users[u]]

-----------------------------------------------------------------------------
(* The rules, on what a request claims (auth) and the row it read (user).  *)
(* A comparison with a side unreported is false.                           *)

Gt(left, right) == left # Unreported /\ right # Unreported /\ left > right
Le(left, right) == left # Unreported /\ right # Unreported /\ left <= right

(* Mutant: the stored generation is not compared.                          *)
ValidOldGenerations(auth, user, stale) ==
  LET changed == auth.state # user.state IN
  /\ ~(Gt(auth.keysChangedAt, user.keysChangedAt) /\ Gt(auth.keysChangedAt, auth.generation))
  /\ auth.state \notin stale
  /\ changed => ~Le(auth.keysChangedAt, user.keysChangedAt)
  /\ ~Gt(user.keysChangedAt, auth.keysChangedAt)
  /\ auth.keysChangedAt = Unreported => user.keysChangedAt = Unreported

(* Mutant: the history is not looked into.                                 *)
ValidForgetful(auth, user, stale) ==
  LET changed == auth.state # user.state IN
  /\ ~(Gt(auth.keysChangedAt, user.keysChangedAt) /\ Gt(auth.keysChangedAt, auth.generation))
  /\ changed => ~Le(auth.generation, user.generation) /\ ~Le(auth.keysChangedAt, user.keysChangedAt)
  /\ ~Gt(user.generation, auth.generation) /\ ~Gt(user.keysChangedAt, auth.keysChangedAt)
  /\ auth.keysChangedAt = Unreported => user.keysChangedAt = Unreported

(* Mutant: a generation must rise with every request.                      *)
ValidRising(auth, user, stale) ==
  LET changed == auth.state # user.state IN
  /\ ~(Gt(auth.keysChangedAt, user.keysChangedAt) /\ Gt(auth.keysChangedAt, auth.generation))
  /\ auth.state \notin stale
  /\ changed => ~Le(auth.keysChangedAt, user.keysChangedAt)
  /\ ~Le(auth.generation, user.generation) /\ ~Gt(user.keysChangedAt, auth.keysChangedAt)
  /\ auth.keysChangedAt = Unreported => user.keysChangedAt = Unreported

(* _validate; a client state is never empty here, since X-KeyID requires   *)
(* one.                                                                    *)
Valid(auth, user, stale) ==
  LET changed == auth.state # user.state IN
  /\ ~(Gt(auth.keysChangedAt, user.keysChangedAt) /\ Gt(auth.keysChangedAt, auth.generation))
  /\ auth.state \notin stale
  /\ changed => ~Le(auth.generation, user.generation) /\ ~Le(auth.keysChangedAt, user.keysChangedAt)
  /\ ~Gt(user.generation, auth.generation) /\ ~Gt(user.keysChangedAt, auth.keysChangedAt)
  /\ auth.keysChangedAt = Unreported => user.keysChangedAt = Unreported

(* _next_keys_changed_at: a stored value is never 0, so a request without  *)
(* one that got past the rules leaves it unset.                            *)
NextKeysChangedAt(auth) == auth.keysChangedAt

(* Mutant: the generation as reported, or not.                             *)
NextGenerationReported(auth, user) == auth.generation

(* _next_generation: a new key stands in for a generation not reported.    *)
NextGeneration(auth, user) ==
  IF auth.generation # Unreported THEN auth.generation
  ELSE IF Gt(auth.keysChangedAt, user.generation)
          /\ (user.keysChangedAt = Unreported \/ Gt(auth.keysChangedAt, user.keysChangedAt))
       THEN auth.keysChangedAt
       ELSE user.generation

-----------------------------------------------------------------------------
(* One request, statement by statement.                                    *)

At(w, pc) == worker[w].pc = pc

Goto(w, pc) == worker' = [worker EXCEPT ![w].pc = pc]

Refuse(w) == worker' = [worker EXCEPT ![w] = Idle]

(* The response: a credential for this uid, signed for this key.           *)
Reply(w, uid) ==
  /\ worker' = [worker EXCEPT ![w].pc = "answered", ![w].uid = uid]
  /\ answered' = answered \cup
       {[account |-> worker[w].account, uid |-> uid, state |-> worker[w].auth.state]}

(* History: a statement that writes an account's rows while another request *)
(* of the account is under way or just answered; what that one read, or was *)
(* told, is old now.                                                       *)
Writes(w) ==
  LET a == worker[w].account IN
  raced' = IF \E v \in Workers \ {w} : worker[v].account = a THEN raced \cup {a} ELSE raced

(* A request with a verified access token; the token may outlive its       *)
(* account, and claims any version its client ever had.                    *)
Arrive(w, a, auth) ==
  /\ At(w, "idle")
  /\ worker' = [worker EXCEPT ![w] =
       [Idle EXCEPT !.pc = "read", !.account = a, !.auth = auth, !.at = clock,
                    !.late = auth.state \in Retired(a)]]
  /\ UNCHANGED <<accounts, users, lastUid, clock, answered, raced>>

(* sync_users: the account's rows, the current one first.                  *)
Read(w) ==
  LET a == worker[w].account IN
  /\ At(w, "read")
  /\ IF UidsOf(a) = {} THEN Goto(w, "lookup")
     ELSE worker' = [worker EXCEPT ![w] =
            [@ EXCEPT !.pc = "reconcile", !.uid = Current(a), !.user = users[Current(a)],
                      !.todo = Live(a) \ {Current(a)}, !.stale = Retired(a)]]
  /\ UNCHANGED <<accounts, users, lastUid, clock, answered, raced>>

(* First sight of the account: does it exist at all?                       *)
Lookup(w) ==
  /\ At(w, "lookup")
  /\ IF worker[w].account \in accounts THEN Goto(w, "create") ELSE Refuse(w)
  /\ UNCHANGED <<accounts, users, lastUid, clock, answered, raced>>

(* The row made here is what the request claims, so the rules pass and     *)
(* nothing is left to apply.  If the account went meanwhile: a 500.        *)
Create(w) ==
  LET auth == worker[w].auth
      generation == IF auth.generation = Unreported THEN 0 ELSE auth.generation IN
  /\ At(w, "create")
  /\ \/ /\ Insert(Row(w, generation, auth.keysChangedAt))
        /\ Reply(w, lastUid')
     \/ /\ worker[w].account \notin accounts
        /\ Refuse(w)
        /\ UNCHANGED <<users, lastUid, answered>>
  /\ Writes(w)
  /\ UNCHANGED <<accounts, clock>>

(* replace_sync_user: retire one row of the history that was left live.    *)
Reconcile(w) ==
  /\ At(w, "reconcile")
  /\ \E u \in worker[w].todo :
       /\ worker' = [worker EXCEPT ![w].todo = @ \ {u}]
       /\ users' = [v \in DOMAIN users |->
            IF v = u /\ users[v].replacedAt = 0
            THEN [users[v] EXCEPT !.replacedAt = worker[w].user.createdAt] ELSE users[v]]
  /\ Writes(w)
  /\ UNCHANGED <<accounts, lastUid, clock, answered>>

(* _validate against the row that was read, and what is to be applied.     *)
Validate(w) ==
  LET auth == worker[w].auth
      user == worker[w].user IN
  /\ At(w, "reconcile") /\ worker[w].todo = {}
  /\ \/ /\ ~Valid(auth, user, worker[w].stale)
        /\ Refuse(w)
        /\ UNCHANGED answered
     \/ /\ Valid(auth, user, worker[w].stale) /\ auth.state # user.state
        /\ Goto(w, "rotate")
        /\ UNCHANGED answered
     \/ /\ Valid(auth, user, worker[w].stale) /\ auth.state = user.state
        /\ IF NextGeneration(auth, user) = user.generation
              /\ NextKeysChangedAt(auth) = user.keysChangedAt
           THEN Reply(w, worker[w].uid)
           ELSE Goto(w, "update") /\ UNCHANGED answered
  /\ UNCHANGED <<accounts, users, lastUid, clock, raced>>

(* update_sync_user; no row is hit if the account went meanwhile.          *)
Update(w) ==
  LET auth == worker[w].auth IN
  /\ At(w, "update")
  /\ users' = [v \in DOMAIN users |->
       IF v = worker[w].uid
       THEN [users[v] EXCEPT !.generation = NextGeneration(auth, worker[w].user),
                             !.keysChangedAt = NextKeysChangedAt(auth)]
       ELSE users[v]]
  /\ Reply(w, worker[w].uid)
  /\ Writes(w)
  /\ UNCHANGED <<accounts, lastUid, clock>>

(* A new key: a row of its own ...                                         *)
Rotate(w) ==
  LET auth == worker[w].auth IN
  /\ At(w, "rotate")
  /\ \/ /\ Insert(Row(w, NextGeneration(auth, worker[w].user), NextKeysChangedAt(auth)))
        /\ worker' = [worker EXCEPT ![w].pc = "retire", ![w].uid = lastUid']
     \/ /\ worker[w].account \notin accounts
        /\ Refuse(w)
        /\ UNCHANGED <<users, lastUid>>
  /\ Writes(w)
  /\ UNCHANGED <<accounts, clock, answered>>

(* Mutant: the second statement of the rotation is forgotten.              *)
RetireNone(w) ==
  /\ At(w, "retire")
  /\ Reply(w, worker[w].uid)
  /\ UNCHANGED <<accounts, users, lastUid, clock, raced>>

(* ... and, by a second statement, every other row of the account retired  *)
(* (replace_other_sync_users).                                             *)
Retire(w) ==
  /\ At(w, "retire")
  /\ users' = [v \in DOMAIN users |->
       IF v \in Live(worker[w].account) \ {worker[w].uid}
       THEN [users[v] EXCEPT !.replacedAt = worker[w].at] ELSE users[v]]
  /\ Reply(w, worker[w].uid)
  /\ Writes(w)
  /\ UNCHANGED <<accounts, lastUid, clock>>

Done(w) == At(w, "answered") /\ Refuse(w) /\ UNCHANGED <<accounts, users, lastUid, clock, answered, raced>>

Request(w) ==
  \/ \E a \in Accounts, auth \in Auths : Arrive(w, a, auth)
  \/ Read(w) \/ Lookup(w) \/ Create(w) \/ Reconcile(w) \/ Validate(w)
  \/ Update(w) \/ Rotate(w) \/ Retire(w) \/ Done(w)

-----------------------------------------------------------------------------
(* The rest of the world.                                                  *)

(* `fxa-lite account remove`, in another process; the rows cascade.        *)
RemoveAccount(a) ==
  /\ a \in accounts
  /\ accounts' = accounts \ {a}
  /\ users' = [u \in DOMAIN users \ UidsOf(a) |-> users[u]]
  /\ UNCHANGED <<lastUid, clock, worker, answered, raced>>

(* The process dies between two statements and starts again.               *)
Crash ==
  /\ worker' = [w \in Workers |-> Idle]
  /\ UNCHANGED <<accounts, users, lastUid, clock, answered, raced>>

Tick ==
  /\ clock < MaxClock
  /\ clock' = clock + 1
  /\ UNCHANGED <<accounts, users, lastUid, worker, answered, raced>>

Init ==
  /\ accounts = Accounts
  /\ users = [u \in {} |-> NoRow]
  /\ lastUid = 0
  /\ clock = 1
  /\ worker = [w \in Workers |-> Idle]
  /\ answered = {}
  /\ raced = {}

Next ==
  \/ \E w \in Workers : Request(w)
  \/ \E a \in Accounts : RemoveAccount(a)
  \/ Crash
  \/ Tick

Spec == Init /\ [][Next]_vars

-----------------------------------------------------------------------------
SyncUser == [account : Accounts, state : ClientStates, generation : Timestamps \cup {0},
             keysChangedAt : Timestamps \cup {Unreported},
             createdAt : 1 .. MaxClock, replacedAt : 0 .. MaxClock]

Job == [pc : {"idle", "read", "lookup", "create", "reconcile", "update", "rotate",
              "retire", "answered"},
        account : Accounts \cup {Unreported}, auth : Auths \cup {Unreported},
        at : 0 .. MaxClock, uid : 0 .. MaxUids, user : SyncUser \cup {NoRow},
        todo : SUBSET (1 .. MaxUids), stale : SUBSET ClientStates, late : BOOLEAN]

TypeOK ==
  /\ accounts \subseteq Accounts
  /\ DOMAIN users \subseteq 1 .. lastUid
  /\ \A u \in DOMAIN users : users[u] \in SyncUser /\ users[u].account \in accounts
  /\ lastUid \in 0 .. MaxUids
  /\ clock \in 1 .. MaxClock
  /\ worker \in [Workers -> Job]
  /\ answered \subseteq [account : Accounts, uid : 1 .. MaxUids, state : ClientStates]
  /\ raced \subseteq Accounts

(* The storage of one key is never handed to another, nor to another       *)
(* account: all credentials ever issued for a uid name the same account    *)
(* and the same client state, through rotations, races, crashes and the    *)
(* removal of accounts.                                                    *)
NoUidHandedOn ==
  \A t1, t2 \in answered :
    t1.uid = t2.uid => t1.account = t2.account /\ t1.state = t2.state

(* A client state, once retired, is never accepted again: a request that   *)
(* comes after another client's rotation has taken effect is refused, even *)
(* when rotations and password changes race.                               *)
RetiredStaysOut ==
  \A w \in Workers : At(w, "answered") => ~worker[w].late

(* The same for claims of every sort, such as an old key reported with new  *)
(* times, as long as the account's requests did not race.                  *)
OldKeyIsRefused ==
  \A w \in Workers : At(w, "answered") /\ worker[w].late => worker[w].account \in raced

(* When a request has been answered, its uid is the account's one live     *)
(* row and the one the next request will read as current, whatever crash   *)
(* the row before was left by and whatever the other accounts' requests do. *)
OneLiveRow ==
  \A w \in Workers :
    At(w, "answered") /\ worker[w].account \in accounts \ raced =>
      /\ Live(worker[w].account) = {worker[w].uid}
      /\ Current(worker[w].account) = worker[w].uid

(* A client is not locked out by its own success: once its claim is in the  *)
(* table, the same request sent again - the reply was lost, or the process  *)
(* died before it retired the other rows - passes the rules, meets the same *)
(* row and has nothing left to apply.                                      *)
RepeatIsAccepted ==
  \A w \in Workers :
    worker[w].pc \in {"retire", "answered"} /\ worker[w].account \in accounts \ raced =>
      LET auth == worker[w].auth
          user == users[Current(worker[w].account)] IN
      /\ Current(worker[w].account) = worker[w].uid /\ auth.state = user.state
      /\ Valid(auth, user, Retired(worker[w].account))
      /\ NextGeneration(auth, user) = user.generation
      /\ NextKeysChangedAt(auth) = user.keysChangedAt

(* What the tokenserver promises about keys (KeyVersions), read off the    *)
(* current row; nothing of an account whose requests raced.                *)
AcceptedVersion(a) ==
  IF a \in raced \/ UidsOf(a) = {}
  THEN [state |-> Unreported, generation |-> 0, keysChangedAt |-> Unreported]
  ELSE [state |-> users[Current(a)].state, generation |-> users[Current(a)].generation,
        keysChangedAt |-> users[Current(a)].keysChangedAt]

GivenUp(a) == {state \in Retired(a) : a \notin raced}

Versions == INSTANCE KeyVersions WITH
  version <- [a \in Accounts |-> AcceptedVersion(a)],
  retired <- [a \in Accounts |-> GivenUp(a)]

ImplementsKeyVersions == Versions!Spec

(* What the reconciliation says it keeps true for the storage tier:        *)
(* exactly one live row, whenever no request is under way.  Two requests   *)
(* that overlap can leave two.                                             *)
ExactlyOneLive ==
  (\A w \in Workers : At(w, "idle")) =>
    \A a \in Accounts : UidsOf(a) # {} => Cardinality(Live(a)) = 1

=============================================================================
