------------------------- MODULE TokenServerProofs -------------------------
(***************************************************************************)
(* What holds of TokenServer for any number of accounts and of threads: its *)
(* types, that no uid is handed on, and, if clients report generations that *)
(* rise with their keys, that a key given up is refused.                    *)
(* Whatever is claimed, for each account whose own requests did not get in  *)
(* each other's way: that it has one live row, that a key given up is       *)
(* refused, that a request sent again is accepted, and that its keys move   *)
(* as KeyVersions promises.                                                 *)
(***************************************************************************)
EXTENDS TokenServer, FiniteSetTheorems, WellFoundedInduction, TLAPS

-----------------------------------------------------------------------------
(* The order of an account's rows.                                         *)

RowTypes ==
  /\ lastUid \in 0 .. MaxUids
  /\ DOMAIN users \subseteq 1 .. lastUid
  /\ \A u \in DOMAIN users : users[u] \in SyncUser

LEMMA RowFields ==
  ASSUME RowTypes, NEW u \in DOMAIN users
  PROVE  /\ u \in 1 .. lastUid /\ u \in Nat /\ lastUid \in Nat /\ u \in 1 .. MaxUids
         /\ users[u].account \in Accounts /\ users[u].state \in ClientStates
         /\ users[u].state # Unreported
         /\ users[u].generation \in Nat /\ users[u].createdAt \in Nat
         /\ users[u].keysChangedAt \in Nat \cup {Unreported}
BY AuthsAssumption, BoundsAssumption DEF RowTypes, SyncUser, Timestamps, ClientStates

LEMMA BeforeOrders ==
  ASSUME RowTypes
  PROVE  /\ \A u \in DOMAIN users : ~Before(u, u)
         /\ \A u, v \in DOMAIN users : u # v => Before(u, v) \/ Before(v, u)
         /\ \A u, v, x \in DOMAIN users : Before(u, v) /\ Before(v, x) => Before(u, x)
BY RowFields DEF Before

(* An account with a row has a current one.                                *)
LEMMA CurrentExists ==
  ASSUME RowTypes, NEW a, UidsOf(a) # {}
  PROVE  /\ Current(a) \in UidsOf(a)
         /\ \A v \in UidsOf(a) \ {Current(a)} : Before(Current(a), v)
<1> DEFINE Ahead(u) == {v \in UidsOf(a) : Before(v, u)}
           Counts == {Cardinality(Ahead(u)) : u \in UidsOf(a)}
<1>1. IsFiniteSet(UidsOf(a)) /\ UidsOf(a) \subseteq DOMAIN users
  <2>1. IsFiniteSet(1 .. lastUid)
    BY FS_Interval, BoundsAssumption DEF RowTypes
  <2> QED
    BY <2>1, FS_Subset DEF RowTypes, UidsOf
<1>2. \A u \in UidsOf(a) : IsFiniteSet(Ahead(u)) /\ Cardinality(Ahead(u)) \in Nat
  BY <1>1, FS_Subset, FS_CardinalityType
<1>3. PICK n \in Counts : \A m \in Counts : ~(<<m, n>> \in OpToRel(<, Nat))
  <2>1. Counts \subseteq Nat /\ Counts # {}
    BY <1>2
  <2> HIDE DEF Counts
  <2> QED
    BY <2>1, NatLessThanWellFounded, WFMin
<1>4. PICK u \in UidsOf(a) : n = Cardinality(Ahead(u))
  OBVIOUS
<1>5. Ahead(u) = {}
  <2> SUFFICES ASSUME NEW v \in Ahead(u) PROVE FALSE
    OBVIOUS
  <2>1. v \in UidsOf(a) /\ Before(v, u)
    OBVIOUS
  <2>2. Ahead(v) \subseteq Ahead(u) /\ Ahead(v) # Ahead(u)
    BY <1>1, <2>1, BeforeOrders
  <2>3. Cardinality(Ahead(v)) < Cardinality(Ahead(u))
    <3> HIDE DEF Ahead
    <3> QED
      BY <1>2, <2>1, <2>2, FS_Subset
  <2>4. <<Cardinality(Ahead(v)), n>> \in OpToRel(<, Nat)
    BY <1>2, <1>4, <2>1, <2>3 DEF OpToRel
  <2> QED
    BY <1>3, <2>1, <2>4
<1>6. \A v \in UidsOf(a) \ {u} : Before(u, v)
  BY <1>1, <1>5, BeforeOrders
<1> QED
  BY <1>6 DEF Current

(* There is no other: the row ahead of all others is the current one.      *)
LEMMA CurrentIs ==
  ASSUME RowTypes, NEW a, NEW u \in UidsOf(a), \A v \in UidsOf(a) \ {u} : Before(u, v)
  PROVE  Current(a) = u
<1>1. /\ Current(a) \in UidsOf(a)
      /\ \A v \in UidsOf(a) \ {Current(a)} : Before(Current(a), v)
  BY CurrentExists
<1>2. Current(a) # u => Before(u, Current(a)) /\ Before(Current(a), u)
  BY <1>1
<1> QED
  BY <1>1, <1>2, BeforeOrders DEF UidsOf

(* The states an account has given up.                                     *)
LEMMA RetiredStates ==
  ASSUME NEW a
  PROVE  /\ UidsOf(a) = {} => Retired(a) = {}
         /\ UidsOf(a) # {} =>
              \A s : s \in Retired(a) <=> /\ \E u \in UidsOf(a) : s = users[u].state
                                         /\ s # users[Current(a)].state
<1> DEFINE state == users[Current(a)].state
<1>1. Retired(a) = IF UidsOf(a) = {} THEN {} ELSE {users[u].state : u \in UidsOf(a)} \ {state}
  BY Zenon DEF Retired, Current, UidsOf, Before
<1> HIDE DEF state
<1>2. /\ UidsOf(a) = {} => Retired(a) = {}
      /\ UidsOf(a) # {} =>
           \A s : s \in Retired(a) <=> (\E u \in UidsOf(a) : s = users[u].state) /\ s # state
  BY <1>1
<1> QED
  BY <1>2, Zenon DEF state

LEMMA RetiredTyped ==
  ASSUME RowTypes, NEW a
  PROVE  Retired(a) \in SUBSET ClientStates
<1>1. \A u \in UidsOf(a) : users[u].state \in ClientStates
  BY RowFields DEF UidsOf
<1> HIDE DEF Retired
<1> QED
  BY <1>1, RetiredStates

-----------------------------------------------------------------------------
(* Types, and what each thread holds.                                      *)

(* A request has an account and a claim, and from its first read on the row *)
(* it read; the uid of a rotation is one that was handed out.              *)
JobFits(job, uids) ==
  /\ job.pc # "idle" =>
       job.account \in Accounts /\ job.auth \in Auths /\ job.at \in 1 .. MaxClock
  /\ job.pc \in {"reconcile", "update", "rotate"} => job.user \in SyncUser
  /\ job.pc \in {"reconcile", "update", "rotate", "retire"} => job.uid \in 1 .. uids
  /\ job.pc = "update" => job.auth.state = job.user.state

(* The types, without what the history of races holds.                     *)
TableTypes ==
  /\ accounts \subseteq Accounts
  /\ RowTypes
  /\ \A u \in DOMAIN users : users[u].account \in accounts
  /\ clock \in 1 .. MaxClock
  /\ answered \subseteq [account : Accounts, uid : 1 .. MaxUids, state : ClientStates]

TypeInvariant ==
  /\ TableTypes
  /\ worker \in [Workers -> Job]
  /\ \A w \in Workers : JobFits(worker[w], lastUid)

LEMMA TypeParts ==
  TypeInvariant =>
    /\ TableTypes
    /\ worker \in [Workers -> Job]
    /\ \A w \in Workers : JobFits(worker[w], lastUid)
BY DEF TypeInvariant

LEMMA TypesOfThread ==
  ASSUME TypeInvariant, NEW w \in Workers
  PROVE  TableTypes /\ RowTypes /\ worker[w] \in Job /\ JobFits(worker[w], lastUid)
BY TypeParts DEF TableTypes

LEMMA ThreadMoves ==
  ASSUME TypeInvariant, TableTypes', lastUid <= lastUid', NEW w \in Workers, NEW job \in Job,
         worker' = [worker EXCEPT ![w] = job], JobFits(job, lastUid')
  PROVE  TypeInvariant'
<1>1. worker \in [Workers -> Job] /\ lastUid \in Nat /\ lastUid' \in Nat
  BY TypeParts, BoundsAssumption DEF TableTypes, RowTypes
<1>2. worker' \in [Workers -> Job]
  BY <1>1
<1>3. ASSUME NEW v \in Workers PROVE JobFits(worker'[v], lastUid')
  <2>1. CASE v = w
    BY <1>1, <2>1
  <2>2. CASE v # w
    <3>1. worker'[v] = worker[v] /\ JobFits(worker[v], lastUid)
      BY <1>1, <2>2, TypeParts
    <3> QED
      BY <1>1, <3>1 DEF JobFits
  <2> QED
    BY <2>1, <2>2
<1> QED
  BY <1>2, <1>3 DEF TypeInvariant, TableTypes, RowTypes

LEMMA IdleFits == Idle \in Job /\ \A n : JobFits(Idle, n)
BY BoundsAssumption DEF Idle, Job, JobFits, NoRow

LEMMA ThreadRests ==
  ASSUME TypeInvariant, TableTypes', lastUid <= lastUid', NEW w \in Workers, Refuse(w)
  PROVE  TypeInvariant'
BY IdleFits, ThreadMoves DEF Refuse

LEMMA TablesStay ==
  ASSUME TypeInvariant, UNCHANGED <<accounts, users, lastUid, clock, answered>>
  PROVE  TableTypes' /\ lastUid <= lastUid'
<1>1. TableTypes'
  BY TypeParts DEF TableTypes, RowTypes
<1> QED
  BY TypeParts, BoundsAssumption DEF TableTypes, RowTypes

(* A thread goes on with what it holds.                                    *)
LEMMA ThreadGoes ==
  ASSUME TypeInvariant, TableTypes', lastUid <= lastUid', NEW w \in Workers,
         NEW pc, Goto(w, pc),
         \/ pc \in {"lookup", "create"} /\ worker[w].pc # "idle"
         \/ pc \in {"rotate", "update"} /\ worker[w].pc = "reconcile",
         pc = "update" => worker[w].auth.state = worker[w].user.state
  PROVE  TypeInvariant'
<1> DEFINE job == [worker[w] EXCEPT !.pc = pc]
<1>1. worker[w] \in Job /\ JobFits(worker[w], lastUid)
  BY TypesOfThread
<1>2. /\ job.pc = pc /\ job.account = worker[w].account /\ job.auth = worker[w].auth
      /\ job.at = worker[w].at /\ job.user = worker[w].user /\ job.uid = worker[w].uid
      /\ job \in Job
  BY <1>1 DEF Job
<1>3. worker' = [worker EXCEPT ![w] = job]
  BY DEF Goto
<1>4. lastUid \in Nat /\ lastUid' \in Nat
  BY TypeParts, BoundsAssumption DEF TableTypes, RowTypes
<1> HIDE DEF job
<1>5. JobFits(job, lastUid')
  BY <1>1, <1>2, <1>4 DEF JobFits
<1> QED
  BY <1>2, <1>3, <1>5, ThreadMoves

LEMMA ClaimFields ==
  ASSUME NEW auth \in Auths
  PROVE  /\ auth.state \in ClientStates
         /\ auth.generation \in Timestamps \cup {Unreported}
         /\ auth.keysChangedAt \in Timestamps \cup {Unreported}
         /\ auth.generation \in (Nat \ {0}) \cup {Unreported}
         /\ auth.keysChangedAt \in (Nat \ {0}) \cup {Unreported}
         /\ Unreported \notin Nat
BY AuthsAssumption DEF ClientStates, Timestamps

LEMMA NextGenerationTyped ==
  ASSUME NEW auth \in Auths, NEW user \in SyncUser
  PROVE  NextGeneration(auth, user) \in Timestamps \cup {0}
BY ClaimFields DEF NextGeneration, SyncUser, Timestamps, Gt

(* The credential handed out.                                              *)
LEMMA ReplyTyped ==
  ASSUME TypeInvariant, TableTypes, NEW w \in Workers, worker[w].pc # "idle",
         NEW uid \in 1 .. MaxUids, Reply(w, uid),
         UNCHANGED clock, accounts' \subseteq Accounts, RowTypes', lastUid <= lastUid',
         \A u \in DOMAIN users' : users'[u].account \in accounts'
  PROVE  TypeInvariant'
<1> DEFINE job == [worker[w] EXCEPT !.pc = "answered", !.uid = uid]
<1>1. worker[w] \in Job /\ JobFits(worker[w], lastUid)
  BY TypesOfThread
<1>2. /\ job.pc = "answered" /\ job.account = worker[w].account /\ job.auth = worker[w].auth
      /\ job.at = worker[w].at /\ job \in Job
  <2>1. uid \in 0 .. MaxUids
    BY BoundsAssumption
  <2> QED
    BY <1>1, <2>1 DEF Job
<1>3. worker' = [worker EXCEPT ![w] = job]
  BY DEF Reply
<1> HIDE DEF job
<1>4. JobFits(job, lastUid')
  BY <1>1, <1>2 DEF JobFits
<1>5. answered' \subseteq [account : Accounts, uid : 1 .. MaxUids, state : ClientStates]
  BY <1>1, ClaimFields DEF Reply, JobFits, TableTypes
<1>6. TableTypes'
  BY <1>5 DEF TableTypes
<1> QED
  BY <1>2, <1>3, <1>4, <1>6, ThreadMoves

(* A new row is under a uid of its own.                                    *)
LEMMA InsertTyped ==
  ASSUME TypeInvariant, NEW row \in SyncUser, Insert(row), UNCHANGED accounts
  PROVE  /\ RowTypes' /\ lastUid' = lastUid + 1 /\ lastUid \in Nat /\ lastUid' \in 1 .. MaxUids
         /\ DOMAIN users' = DOMAIN users \cup {lastUid'} /\ lastUid' \notin DOMAIN users
         /\ users'[lastUid'] = row
         /\ \A u \in DOMAIN users : users'[u] = users[u]
         /\ \A u \in DOMAIN users' : users'[u].account \in accounts'
<1>1. /\ RowTypes /\ lastUid \in 0 .. MaxUids /\ lastUid < MaxUids
      /\ \A u \in DOMAIN users : users[u].account \in accounts
  BY TypeParts DEF Insert, TableTypes, RowTypes
<1>2. lastUid \in Nat /\ lastUid' = lastUid + 1 /\ lastUid' \in 1 .. MaxUids
  BY <1>1, BoundsAssumption DEF Insert
<1>3. /\ DOMAIN users' = DOMAIN users \cup {lastUid'} /\ lastUid' \notin DOMAIN users
      /\ users'[lastUid'] = row
      /\ \A u \in DOMAIN users : users'[u] = users[u]
  BY <1>1, <1>2 DEF Insert, RowTypes
<1>4. RowTypes'
  BY <1>1, <1>2, <1>3 DEF RowTypes
<1>5. \A u \in DOMAIN users' : users'[u].account \in accounts'
  BY <1>1, <1>3 DEF Insert
<1> QED
  BY <1>2, <1>3, <1>4, <1>5

LEMMA RowTyped ==
  ASSUME TypeInvariant, NEW w \in Workers, worker[w].pc # "idle",
         NEW generation \in Timestamps \cup {0}
  PROVE  Row(w, generation, worker[w].auth.keysChangedAt) \in SyncUser
BY TypesOfThread, ClaimFields, BoundsAssumption DEF Row, SyncUser, JobFits

(* Rows are changed in place: their account and key stay what they were.   *)
RowsKept ==
  /\ DOMAIN users' = DOMAIN users
  /\ \A u \in DOMAIN users : users'[u].account = users[u].account /\ users'[u].state = users[u].state

LEMMA RowsKeptTyped ==
  ASSUME TypeInvariant, RowsKept, UNCHANGED <<accounts, lastUid>>,
         \A u \in DOMAIN users : users'[u] \in SyncUser
  PROVE  /\ RowTypes' /\ lastUid <= lastUid' /\ accounts' \subseteq Accounts
         /\ \A u \in DOMAIN users' : users'[u].account \in accounts'
<1>1. lastUid \in Nat
  BY TypeParts, BoundsAssumption DEF TableTypes, RowTypes
<1> QED
  BY <1>1, TypeParts DEF TableTypes, RowTypes, RowsKept

(* A change of one row after the other.                                    *)
LEMMA ReplacedTyped ==
  ASSUME NEW row \in SyncUser, NEW at \in 0 .. MaxClock
  PROVE  /\ [row EXCEPT !.replacedAt = at] \in SyncUser
         /\ [row EXCEPT !.replacedAt = at].account = row.account
         /\ [row EXCEPT !.replacedAt = at].state = row.state
BY DEF SyncUser

-----------------------------------------------------------------------------
(* The steps of a request, by type.                                        *)

LEMMA ArriveTyped ==
  ASSUME TypeInvariant, NEW w \in Workers, NEW a \in Accounts, NEW auth \in Auths,
         Arrive(w, a, auth)
  PROVE  TypeInvariant'
<1>1. TableTypes' /\ lastUid <= lastUid'
  BY TablesStay DEF Arrive
<1>2. clock \in 1 .. MaxClock /\ clock \in 0 .. MaxClock
  BY TypeParts, BoundsAssumption DEF TableTypes
<1>3. ASSUME NEW late \in BOOLEAN
      PROVE  LET job == [Idle EXCEPT !.pc = "read", !.account = a, !.auth = auth, !.at = clock,
                                     !.late = late]
             IN  job \in Job /\ JobFits(job, lastUid')
  <2> DEFINE job == [Idle EXCEPT !.pc = "read", !.account = a, !.auth = auth, !.at = clock,
                                 !.late = late]
  <2>1. /\ job.pc = "read" /\ job.account = a /\ job.auth = auth /\ job.at = clock /\ job \in Job
    BY <1>2, IdleFits DEF Job
  <2> HIDE DEF job
  <2>2. JobFits(job, lastUid')
    BY <1>2, <2>1 DEF JobFits
  <2> QED
    BY <2>1, <2>2 DEF job
<1>4. (auth.state \in Retired(a)) \in BOOLEAN
  OBVIOUS
<1> DEFINE job == [Idle EXCEPT !.pc = "read", !.account = a, !.auth = auth, !.at = clock,
                               !.late = auth.state \in Retired(a)]
<1>5. job \in Job /\ JobFits(job, lastUid')
  BY <1>3, <1>4, Zenon
<1>6. worker' = [worker EXCEPT ![w] = job]
  BY DEF Arrive
<1> HIDE DEF job
<1> QED
  BY <1>1, <1>5, <1>6, ThreadMoves

(* What a read sees.                                                       *)
LEMMA ReadSees ==
  ASSUME TypeInvariant, NEW w \in Workers, Read(w), UidsOf(worker[w].account) # {}
  PROVE  LET a == worker[w].account
             job == [worker[w] EXCEPT !.pc = "reconcile", !.uid = Current(a),
                       !.user = users[Current(a)], !.todo = Live(a) \ {Current(a)},
                       !.stale = Retired(a)] IN
         /\ worker' = [worker EXCEPT ![w] = job]
         /\ Current(a) \in UidsOf(a)
         /\ job \in Job
         /\ job.pc = "reconcile" /\ job.account = a /\ job.auth = worker[w].auth
         /\ job.at = worker[w].at /\ job.uid = Current(a) /\ job.user = users[Current(a)]
         /\ job.todo = Live(a) \ {Current(a)} /\ job.stale = Retired(a)
<1> DEFINE a == worker[w].account
           job == [worker[w] EXCEPT !.pc = "reconcile", !.uid = Current(a),
                     !.user = users[Current(a)], !.todo = Live(a) \ {Current(a)},
                     !.stale = Retired(a)]
<1>1. RowTypes /\ worker[w] \in Job
  BY TypesOfThread
<1>2. Current(a) \in UidsOf(a)
  BY <1>1, CurrentExists
<1>3. Current(a) \in 0 .. MaxUids /\ users[Current(a)] \in SyncUser
  BY <1>1, <1>2, RowFields, BoundsAssumption DEF UidsOf, RowTypes
<1>4. Live(a) \ {Current(a)} \in SUBSET (1 .. MaxUids)
  BY <1>1, RowFields DEF Live, UidsOf
<1>5. Retired(a) \in SUBSET ClientStates
  BY <1>1, RetiredTyped
<1>6. worker' = [worker EXCEPT ![w] = job]
  BY DEF Read
<1> HIDE DEF a
<1>7. job \in Job /\ job.pc = "reconcile" /\ job.account = worker[w].account /\ job.auth = worker[w].auth
      /\ job.at = worker[w].at /\ job.uid = Current(a) /\ job.user = users[Current(a)]
      /\ job.todo = Live(a) \ {Current(a)} /\ job.stale = Retired(a)
  <2> DEFINE current == Current(a)
             user == users[Current(a)]
             todo == Live(a) \ {Current(a)}
             stale == Retired(a)
  <2>1. /\ current \in 0 .. MaxUids /\ user \in SyncUser
        /\ todo \in SUBSET (1 .. MaxUids) /\ stale \in SUBSET ClientStates
    BY <1>3, <1>4, <1>5
  <2> HIDE DEF current, user, todo, stale
  <2>2. LET new == [worker[w] EXCEPT !.pc = "reconcile", !.uid = current, !.user = user,
                                     !.todo = todo, !.stale = stale]
        IN  /\ new \in Job /\ new.pc = "reconcile" /\ new.account = worker[w].account
            /\ new.auth = worker[w].auth /\ new.at = worker[w].at /\ new.uid = current
            /\ new.user = user /\ new.todo = todo /\ new.stale = stale
    BY <1>1, <2>1 DEF Job
  <2> QED
    BY <2>2 DEF current, user, todo, stale
<1> QED
  BY <1>2, <1>6, <1>7 DEF a

LEMMA ReadTyped ==
  ASSUME TypeInvariant, NEW w \in Workers, Read(w)
  PROVE  TypeInvariant'
<1>1. TableTypes' /\ lastUid <= lastUid' /\ UNCHANGED lastUid
  BY TablesStay DEF Read
<1>2. CASE UidsOf(worker[w].account) = {}
  <2>1. Goto(w, "lookup") /\ worker[w].pc # "idle"
    BY <1>2 DEF Read, At
  <2> QED
    BY <1>1, <2>1, ThreadGoes
<1>3. CASE UidsOf(worker[w].account) # {}
  <2> DEFINE a == worker[w].account
             job == [worker[w] EXCEPT !.pc = "reconcile", !.uid = Current(a),
                       !.user = users[Current(a)], !.todo = Live(a) \ {Current(a)},
                       !.stale = Retired(a)]
  <2>1. /\ worker' = [worker EXCEPT ![w] = job]
        /\ Current(a) \in UidsOf(a)
        /\ job \in Job
        /\ job.pc = "reconcile" /\ job.account = a /\ job.auth = worker[w].auth
        /\ job.at = worker[w].at /\ job.uid = Current(a) /\ job.user = users[Current(a)]
    BY <1>3, ReadSees
  <2>2. RowTypes /\ JobFits(worker[w], lastUid) /\ worker[w].pc = "read"
    BY TypesOfThread DEF Read, At
  <2>3. Current(a) \in 1 .. lastUid /\ users[Current(a)] \in SyncUser
    BY <2>1, <2>2 DEF RowTypes, UidsOf
  <2> HIDE DEF job
  <2>4. JobFits(job, lastUid')
    BY <1>1, <2>1, <2>2, <2>3 DEF JobFits
  <2> QED
    BY <1>1, <2>1, <2>4, ThreadMoves
<1> QED
  BY <1>2, <1>3

LEMMA LookupTyped ==
  ASSUME TypeInvariant, NEW w \in Workers, Lookup(w)
  PROVE  TypeInvariant'
<1>1. TableTypes' /\ lastUid <= lastUid'
  BY TablesStay DEF Lookup
<1>2. worker[w].pc = "lookup" /\ (Goto(w, "create") \/ Refuse(w))
  BY DEF Lookup, At
<1> QED
  BY <1>1, <1>2, ThreadGoes, ThreadRests

LEMMA CreateTyped ==
  ASSUME TypeInvariant, NEW w \in Workers, Create(w)
  PROVE  TypeInvariant'
<1> DEFINE auth == worker[w].auth
           generation == IF auth.generation = Unreported THEN 0 ELSE auth.generation
           row == Row(w, generation, auth.keysChangedAt)
<1>1. worker[w].pc = "create" /\ TableTypes /\ UNCHANGED <<accounts, clock>>
  BY TypesOfThread DEF Create, At
<1>2. CASE Refuse(w) /\ UNCHANGED <<users, lastUid, answered>>
  BY <1>1, <1>2, TablesStay, ThreadRests
<1>3. CASE Insert(row) /\ Reply(w, lastUid')
  <2>1. generation \in Timestamps \cup {0}
    BY <1>1, TypesOfThread, ClaimFields DEF JobFits
  <2>2. row \in SyncUser
    <3> HIDE DEF generation
    <3> QED
      BY <1>1, <2>1, RowTyped
  <2> HIDE DEF row
  <2>3. /\ RowTypes' /\ lastUid <= lastUid' /\ lastUid' \in 1 .. MaxUids
        /\ \A u \in DOMAIN users' : users'[u].account \in accounts'
    BY <1>1, <1>3, <2>2, InsertTyped
  <2> QED
    BY <1>1, <1>3, <2>3, ReplyTyped DEF TableTypes
<1> QED
  BY <1>2, <1>3 DEF Create

LEMMA ReconcileTyped ==
  ASSUME TypeInvariant, NEW w \in Workers, Reconcile(w)
  PROVE  TypeInvariant' /\ RowsKept
<1>1. PICK u \in worker[w].todo :
        /\ worker' = [worker EXCEPT ![w].todo = @ \ {u}]
        /\ users' = [v \in DOMAIN users |->
             IF v = u /\ users[v].replacedAt = 0
             THEN [users[v] EXCEPT !.replacedAt = worker[w].user.createdAt] ELSE users[v]]
  BY DEF Reconcile
<1>2. /\ UNCHANGED <<accounts, lastUid, clock, answered>> /\ worker[w].pc = "reconcile"
      /\ worker[w] \in Job /\ JobFits(worker[w], lastUid) /\ TableTypes /\ RowTypes
  BY TypesOfThread DEF Reconcile, At
<1>3. worker[w].user.createdAt \in 0 .. MaxClock
  BY <1>2, BoundsAssumption DEF JobFits, SyncUser
<1>4. /\ \A v \in DOMAIN users : users[v] \in SyncUser
      /\ DOMAIN users' = DOMAIN users
      /\ \A v \in DOMAIN users : \/ users'[v] = users[v]
                                 \/ users'[v] = [users[v] EXCEPT !.replacedAt = worker[w].user.createdAt]
  BY <1>1, <1>2 DEF RowTypes
<1>5. ASSUME NEW v \in DOMAIN users
      PROVE  /\ users'[v] \in SyncUser
             /\ users'[v].account = users[v].account /\ users'[v].state = users[v].state
  <2> DEFINE at == worker[w].user.createdAt
             row == users[v]
  <2>1. row \in SyncUser /\ at \in 0 .. MaxClock
    BY <1>3, <1>4
  <2>2. users'[v] = row \/ users'[v] = [row EXCEPT !.replacedAt = at]
    BY <1>4
  <2> HIDE DEF at, row
  <2>3. /\ users'[v] \in SyncUser
        /\ users'[v].account = row.account /\ users'[v].state = row.state
    BY <2>1, <2>2, ReplacedTyped
  <2> QED
    BY <2>3 DEF row
<1>6. RowsKept /\ TableTypes' /\ lastUid <= lastUid'
  BY <1>2, <1>4, <1>5, RowsKeptTyped DEF RowsKept, TableTypes
<1> DEFINE rest == worker[w].todo \ {u}
           job == [worker[w] EXCEPT !.todo = rest]
<1>7. /\ job.pc = worker[w].pc /\ job.account = worker[w].account /\ job.auth = worker[w].auth
      /\ job.at = worker[w].at /\ job.user = worker[w].user /\ job.uid = worker[w].uid
      /\ job \in Job
  <2>1. rest \in SUBSET (1 .. MaxUids)
    BY <1>2 DEF Job
  <2> HIDE DEF rest
  <2> QED
    BY <1>2, <2>1 DEF Job
<1>8. worker' = [worker EXCEPT ![w] = job]
  BY <1>1, <1>2, TypeParts
<1> HIDE DEF job
<1>9. JobFits(job, lastUid')
  BY <1>2, <1>7 DEF JobFits
<1> QED
  BY <1>6, <1>7, <1>8, <1>9, ThreadMoves

LEMMA ValidateTyped ==
  ASSUME TypeInvariant, NEW w \in Workers, Validate(w)
  PROVE  TypeInvariant'
<1> DEFINE auth == worker[w].auth
           user == worker[w].user
<1>1. /\ worker[w].pc = "reconcile" /\ worker[w] \in Job /\ JobFits(worker[w], lastUid)
      /\ TableTypes /\ RowTypes /\ UNCHANGED <<accounts, users, lastUid, clock>>
  BY TypesOfThread DEF Validate, At
<1>2. CASE UNCHANGED answered /\ (Refuse(w) \/ Goto(w, "rotate"))
  BY <1>1, <1>2, TablesStay, ThreadRests, ThreadGoes
<1>3. CASE UNCHANGED answered /\ Goto(w, "update") /\ auth.state = user.state
  BY <1>1, <1>3, TablesStay, ThreadGoes
<1>4. CASE Reply(w, worker[w].uid)
  <2>1. worker[w].uid \in 1 .. MaxUids /\ lastUid <= lastUid'
    BY <1>1, BoundsAssumption DEF JobFits, RowTypes
  <2>2. RowTypes' /\ accounts' \subseteq Accounts /\ \A u \in DOMAIN users' : users'[u].account \in accounts'
    BY <1>1 DEF TableTypes, RowTypes
  <2> QED
    BY <1>1, <1>4, <2>1, <2>2, ReplyTyped
<1> QED
  BY <1>2, <1>3, <1>4 DEF Validate

LEMMA UpdateTyped ==
  ASSUME TypeInvariant, NEW w \in Workers, Update(w)
  PROVE  TypeInvariant' /\ RowsKept
<1> DEFINE auth == worker[w].auth
           generation == NextGeneration(auth, worker[w].user)
           keysChangedAt == NextKeysChangedAt(auth)
<1>1. /\ worker[w].pc = "update" /\ JobFits(worker[w], lastUid)
      /\ TableTypes /\ RowTypes /\ UNCHANGED <<accounts, lastUid, clock>>
      /\ Reply(w, worker[w].uid)
  BY TypesOfThread DEF Update, At
<1>2. generation \in Timestamps \cup {0} /\ keysChangedAt \in Timestamps \cup {Unreported}
  BY <1>1, ClaimFields, NextGenerationTyped DEF JobFits, NextKeysChangedAt
<1>3. users' = [v \in DOMAIN users |->
        IF v = worker[w].uid
        THEN [users[v] EXCEPT !.generation = generation, !.keysChangedAt = keysChangedAt]
        ELSE users[v]]
  BY DEF Update
<1> HIDE DEF generation, keysChangedAt
<1>4. DOMAIN users' = DOMAIN users
  BY <1>3
<1>5. ASSUME NEW v \in DOMAIN users
      PROVE  /\ users'[v] \in SyncUser
             /\ users'[v].account = users[v].account /\ users'[v].state = users[v].state
  <2> DEFINE row == users[v]
  <2>1. row \in SyncUser
    BY <1>1 DEF RowTypes
  <2>2. \/ users'[v] = row
        \/ users'[v] = [row EXCEPT !.generation = generation, !.keysChangedAt = keysChangedAt]
    BY <1>3
  <2> HIDE DEF row
  <2>3. /\ users'[v] \in SyncUser
        /\ users'[v].account = row.account /\ users'[v].state = row.state
    <3> DEFINE new == [row EXCEPT !.generation = generation, !.keysChangedAt = keysChangedAt]
    <3>1. new \in SyncUser /\ new.account = row.account /\ new.state = row.state
      BY <1>2, <2>1 DEF SyncUser
    <3> HIDE DEF new
    <3> QED
      BY <2>1, <2>2, <3>1 DEF new
  <2> QED
    BY <2>3 DEF row
<1>6. /\ RowsKept /\ RowTypes' /\ lastUid <= lastUid' /\ accounts' \subseteq Accounts
      /\ \A u \in DOMAIN users' : users'[u].account \in accounts'
  BY <1>1, <1>4, <1>5, RowsKeptTyped DEF RowsKept
<1>7. worker[w].uid \in 1 .. MaxUids
  BY <1>1, BoundsAssumption DEF JobFits, RowTypes
<1> QED
  BY <1>1, <1>6, <1>7, ReplyTyped

LEMMA RotateTyped ==
  ASSUME TypeInvariant, NEW w \in Workers, Rotate(w)
  PROVE  TypeInvariant'
<1> DEFINE auth == worker[w].auth
           generation == NextGeneration(auth, worker[w].user)
           row == Row(w, generation, auth.keysChangedAt)
<1>1. /\ worker[w].pc = "rotate" /\ worker[w] \in Job /\ JobFits(worker[w], lastUid)
      /\ TableTypes /\ UNCHANGED <<accounts, clock, answered>>
  BY TypesOfThread DEF Rotate, At
<1>2. CASE Refuse(w) /\ UNCHANGED <<users, lastUid>>
  BY <1>1, <1>2, TablesStay, ThreadRests
<1>3. CASE /\ Insert(row)
           /\ worker' = [worker EXCEPT ![w].pc = "retire", ![w].uid = lastUid']
  <2>1. generation \in Timestamps \cup {0}
    BY <1>1, NextGenerationTyped DEF JobFits
  <2>2. row \in SyncUser
    <3> HIDE DEF generation
    <3> QED
      BY <1>1, <2>1, RowTyped
  <2> HIDE DEF row
  <2>3. /\ RowTypes' /\ lastUid <= lastUid' /\ lastUid' \in 1 .. MaxUids
        /\ \A u \in DOMAIN users' : users'[u].account \in accounts'
    BY <1>1, <1>3, <2>2, InsertTyped
  <2>4. TableTypes'
    BY <1>1, <2>3 DEF TableTypes
  <2>5. lastUid' \in 0 .. MaxUids
    BY <2>3, BoundsAssumption
  <2> DEFINE job == [worker[w] EXCEPT !.pc = "retire", !.uid = lastUid']
  <2>6. /\ job.pc = "retire" /\ job.account = worker[w].account /\ job.auth = worker[w].auth
        /\ job.at = worker[w].at /\ job.uid = lastUid' /\ job \in Job
    BY <1>1, <2>5 DEF Job
  <2>7. worker' = [worker EXCEPT ![w] = job]
    BY <1>3
  <2> HIDE DEF job
  <2>8. JobFits(job, lastUid')
    BY <1>1, <2>3, <2>6 DEF JobFits
  <2> QED
    BY <2>3, <2>4, <2>6, <2>7, <2>8, ThreadMoves
<1> QED
  BY <1>2, <1>3 DEF Rotate, NextKeysChangedAt

LEMMA RetireTyped ==
  ASSUME TypeInvariant, NEW w \in Workers, Retire(w)
  PROVE  TypeInvariant' /\ RowsKept
<1>1. /\ worker[w].pc = "retire" /\ JobFits(worker[w], lastUid) /\ worker[w] \in Job
      /\ TableTypes /\ RowTypes /\ UNCHANGED <<accounts, lastUid, clock>>
      /\ Reply(w, worker[w].uid)
  BY TypesOfThread DEF Retire, At
<1>2. DOMAIN users' = DOMAIN users
  BY DEF Retire
<1>3. ASSUME NEW v \in DOMAIN users
      PROVE  /\ users'[v] \in SyncUser
             /\ users'[v].account = users[v].account /\ users'[v].state = users[v].state
  <2> DEFINE row == users[v]
             at == worker[w].at
  <2>1. row \in SyncUser /\ at \in 0 .. MaxClock
    BY <1>1 DEF RowTypes, Job
  <2>2. users'[v] = row \/ users'[v] = [row EXCEPT !.replacedAt = at]
    BY DEF Retire
  <2> HIDE DEF row, at
  <2>3. /\ users'[v] \in SyncUser
        /\ users'[v].account = row.account /\ users'[v].state = row.state
    BY <2>1, <2>2, ReplacedTyped
  <2> QED
    BY <2>3 DEF row
<1>4. /\ RowsKept /\ RowTypes' /\ lastUid <= lastUid' /\ accounts' \subseteq Accounts
      /\ \A u \in DOMAIN users' : users'[u].account \in accounts'
  BY <1>1, <1>2, <1>3, RowsKeptTyped DEF RowsKept
<1>5. worker[w].uid \in 1 .. MaxUids
  BY <1>1, BoundsAssumption DEF JobFits, RowTypes
<1> QED
  BY <1>1, <1>4, <1>5, ReplyTyped

LEMMA RemoveAccountTyped ==
  ASSUME TypeInvariant, NEW a \in Accounts, RemoveAccount(a)
  PROVE  TypeInvariant'
<1>1. /\ DOMAIN users' = DOMAIN users \ UidsOf(a)
      /\ \A u \in DOMAIN users' : users'[u] = users[u]
      /\ accounts' = accounts \ {a} /\ UNCHANGED <<lastUid, clock, worker, answered>>
  BY DEF RemoveAccount
<1>2. TableTypes'
  BY <1>1, TypeParts DEF TableTypes, RowTypes, UidsOf
<1> QED
  BY <1>1, <1>2 DEF TypeInvariant, TableTypes, RowTypes

LEMMA TypesStep ==
  TypeInvariant /\ [Next]_vars => TypeInvariant'
<1> SUFFICES ASSUME TypeInvariant, [Next]_vars PROVE TypeInvariant'
  OBVIOUS
<1>1. ASSUME NEW w \in Workers, Request(w) PROVE TypeInvariant'
  <2>1. CASE Done(w)
    BY <2>1, TablesStay, ThreadRests DEF Done
  <2> QED
    BY <1>1, <2>1, ArriveTyped, ReadTyped, LookupTyped, CreateTyped, ReconcileTyped, ValidateTyped,
       UpdateTyped, RotateTyped, RetireTyped DEF Request
<1>2. CASE Crash
  <2>1. TableTypes'
    BY <1>2, TablesStay DEF Crash
  <2> QED
    BY <1>2, <2>1, IdleFits DEF Crash, TypeInvariant, TableTypes, RowTypes
<1>3. CASE Tick
  <2>1. clock' \in 1 .. MaxClock /\ UNCHANGED <<accounts, users, lastUid, worker, answered>>
    BY <1>3, TypeParts, BoundsAssumption DEF Tick, TableTypes
  <2> QED
    BY <2>1 DEF TypeInvariant, TableTypes, RowTypes
<1>4. CASE UNCHANGED vars
  BY <1>4 DEF vars, TypeInvariant, TableTypes, RowTypes
<1> QED
  BY <1>1, <1>2, <1>3, <1>4, RemoveAccountTyped DEF Next

LEMMA TypesStart == Init => TypeInvariant
BY IdleFits, BoundsAssumption DEF Init, TypeInvariant, TableTypes, RowTypes

(* Only a request under way adds its account to those that raced.          *)
LEMMA RacesTyped ==
  ASSUME TypeInvariant, raced \subseteq Accounts, [Next]_vars
  PROVE  raced' \subseteq Accounts
<1>1. ASSUME NEW w \in Workers, Request(w) PROVE raced' \subseteq Accounts
  <2>1. CASE Writes(w) /\ worker[w].pc # "idle"
    BY <2>1, TypesOfThread DEF Writes, JobFits
  <2>2. CASE UNCHANGED raced
    BY <2>2
  <2>3. UNCHANGED raced \/ (Writes(w) /\ worker[w].pc # "idle")
    BY <1>1 DEF Request, Arrive, Read, Lookup, Create, Reconcile, Validate, Update, Rotate,
       Retire, Done, At
  <2> QED
    BY <2>1, <2>2, <2>3
<1> QED
  BY <1>1 DEF Next, RemoveAccount, Crash, Tick, vars

(* The type invariant, for any claims: a request reads the one current row  *)
(* that an account with rows always has, and what it writes is of the type  *)
(* the schema's columns have.                                              *)
THEOREM TokenServerTyped == Spec => []TypeOK
<1>1. Init => TypeInvariant /\ raced \subseteq Accounts
  BY TypesStart DEF Init
<1>2. /\ TypeInvariant /\ raced \subseteq Accounts /\ [Next]_vars
      => (TypeInvariant /\ raced \subseteq Accounts)'
  BY TypesStep, RacesTyped
<1>3. TypeInvariant /\ raced \subseteq Accounts => TypeOK
  BY DEF TypeInvariant, TableTypes, RowTypes, TypeOK
<1> QED
  BY <1>1, <1>2, <1>3, PTL DEF Spec

-----------------------------------------------------------------------------
(* Who holds a uid, and for which key: the rows, the requests that read one *)
(* or made one, and the credentials handed out.                            *)

Claim(a, u, s) == [account |-> a, uid |-> u, state |-> s]
RowClaims == {Claim(users[u].account, u, users[u].state) : u \in DOMAIN users}

Holding == {"reconcile", "update", "retire"}
JobClaim(job) ==
  Claim(job.account, job.uid, IF job.pc = "retire" THEN job.auth.state ELSE job.user.state)
JobClaims == {JobClaim(worker[w]) : w \in {v \in Workers : worker[v].pc \in Holding}}

Claims == RowClaims \cup JobClaims \cup answered

(* One uid, one claim.                                                     *)
ClaimsAgree ==
  /\ \A c \in Claims : c.uid \in 1 .. lastUid
  /\ \A c, d \in Claims : c.uid = d.uid => c = d

LEMMA ClaimsStay ==
  ASSUME ClaimsAgree, Claims' \subseteq Claims, UNCHANGED lastUid
  PROVE  ClaimsAgree'
BY DEF ClaimsAgree

LEMMA ClaimsGrow ==
  ASSUME ClaimsAgree, lastUid \in Nat, lastUid' = lastUid + 1,
         NEW new, new.uid = lastUid', Claims' \subseteq Claims \cup {new}
  PROVE  ClaimsAgree'
<1> DEFINE before == Claims
           after == Claims'
<1>1. /\ \A c \in before : c.uid \in 1 .. lastUid
      /\ \A c, d \in before : c.uid = d.uid => c = d
      /\ after \subseteq before \cup {new}
  BY DEF ClaimsAgree
<1> HIDE DEF before, after
<1>2. /\ \A c \in after : c.uid \in 1 .. lastUid'
      /\ \A c, d \in after : c.uid = d.uid => c = d
  BY <1>1
<1> QED
  BY <1>2 DEF ClaimsAgree, after

LEMMA RowClaimsStay ==
  ASSUME RowsKept
  PROVE  RowClaims' = RowClaims
BY DEF RowsKept, RowClaims

LEMMA JobClaimsGrow ==
  ASSUME NEW w \in Workers, NEW S, \A v \in Workers \ {w} : worker'[v] = worker[v],
         worker'[w].pc \in Holding => JobClaim(worker'[w]) \in S
  PROVE  JobClaims' \subseteq JobClaims \cup S
<1> SUFFICES ASSUME NEW c \in JobClaims' PROVE c \in JobClaims \cup S
  OBVIOUS
<1>1. PICK v \in Workers : worker'[v].pc \in Holding /\ c = JobClaim(worker'[v])
  BY DEF JobClaims, Holding
<1> QED
  BY <1>1 DEF JobClaims

(* A thread moves on to a step that holds no uid, or the same claim.       *)
LEMMA JobClaimsStay ==
  ASSUME NEW w \in Workers, \A v \in Workers \ {w} : worker'[v] = worker[v],
         worker'[w].pc \in Holding =>
           worker[w].pc \in Holding /\ JobClaim(worker'[w]) = JobClaim(worker[w])
  PROVE  JobClaims' \subseteq JobClaims
<1>1. worker'[w].pc \in Holding => JobClaim(worker'[w]) \in JobClaims
  BY DEF JobClaims
<1> QED
  BY <1>1, JobClaimsGrow

(* What a thread asks for does not change while it is served.              *)
LEMMA Moves ==
  ASSUME TypeInvariant, NEW w \in Workers
  PROVE  /\ \A pc : Goto(w, pc) =>
              /\ \A v \in Workers \ {w} : worker'[v] = worker[v]
              /\ worker'[w].pc = pc /\ worker'[w].account = worker[w].account
              /\ worker'[w].auth = worker[w].auth /\ worker'[w].uid = worker[w].uid
              /\ worker'[w].user = worker[w].user /\ worker'[w].todo = worker[w].todo
              /\ worker'[w].stale = worker[w].stale /\ worker'[w].at = worker[w].at
         /\ Refuse(w) =>
              /\ \A v \in Workers \ {w} : worker'[v] = worker[v]
              /\ worker'[w].pc = "idle"
         /\ \A uid : Reply(w, uid) =>
              /\ \A v \in Workers \ {w} : worker'[v] = worker[v]
              /\ worker'[w].pc = "answered" /\ worker'[w].uid = uid
              /\ worker'[w].account = worker[w].account /\ worker'[w].at = worker[w].at
              /\ answered' = answered \cup {Claim(worker[w].account, uid, worker[w].auth.state)}
<1>1. worker \in [Workers -> Job] /\ worker[w] \in Job
  BY TypeParts
<1> QED
  BY <1>1 DEF Goto, Refuse, Reply, Claim, Idle, Job

LEMMA InsertClaims ==
  ASSUME TypeInvariant, NEW row \in SyncUser, Insert(row), UNCHANGED accounts
  PROVE  RowClaims' \subseteq RowClaims \cup {Claim(row.account, lastUid', row.state)}
<1>1. /\ DOMAIN users' = DOMAIN users \cup {lastUid'}
      /\ users'[lastUid'] = row
      /\ \A u \in DOMAIN users : users'[u] = users[u]
  BY InsertTyped
<1> QED
  BY <1>1 DEF RowClaims

ClaimsInvariant == TypeInvariant /\ ClaimsAgree

LEMMA ReadClaims ==
  ASSUME ClaimsInvariant, NEW w \in Workers, Read(w)
  PROVE  ClaimsAgree'
<1>1. /\ TypeInvariant /\ ClaimsAgree /\ worker \in [Workers -> Job]
      /\ UNCHANGED <<users, lastUid, answered>>
  BY TypeParts DEF ClaimsInvariant, Read
<1>2. RowClaims' = RowClaims
  BY <1>1 DEF RowClaims
<1>3. CASE UidsOf(worker[w].account) = {}
  <2>1. Goto(w, "lookup")
    BY <1>3 DEF Read
  <2>2. JobClaims' \subseteq JobClaims
    BY <1>1, <2>1, Moves, JobClaimsStay DEF Holding
  <2> QED
    BY <1>1, <1>2, <2>2, ClaimsStay DEF Claims
<1>4. CASE UidsOf(worker[w].account) # {}
  <2> DEFINE a == worker[w].account
             job == [worker[w] EXCEPT !.pc = "reconcile", !.uid = Current(a),
                       !.user = users[Current(a)], !.todo = Live(a) \ {Current(a)},
                       !.stale = Retired(a)]
  <2>1. /\ worker' = [worker EXCEPT ![w] = job]
        /\ Current(a) \in UidsOf(a)
        /\ job.pc = "reconcile" /\ job.account = a
        /\ job.uid = Current(a) /\ job.user = users[Current(a)]
    BY <1>1, <1>4, ReadSees
  <2> HIDE DEF job
  <2>2. worker'[w] = job /\ \A v \in Workers \ {w} : worker'[v] = worker[v]
    BY <1>1, <2>1
  <2>3. JobClaim(job) = Claim(users[Current(a)].account, Current(a), users[Current(a)].state)
    BY <2>1 DEF JobClaim, UidsOf
  <2>4. JobClaim(job) \in RowClaims
    BY <2>1, <2>3 DEF RowClaims, UidsOf
  <2>5. JobClaims' \subseteq JobClaims \cup RowClaims
    BY <2>2, <2>4, JobClaimsGrow
  <2> QED
    BY <1>1, <1>2, <2>5, ClaimsStay DEF Claims
<1> QED
  BY <1>3, <1>4

LEMMA CreateClaims ==
  ASSUME ClaimsInvariant, NEW w \in Workers, Create(w)
  PROVE  ClaimsAgree'
<1> DEFINE auth == worker[w].auth
           generation == IF auth.generation = Unreported THEN 0 ELSE auth.generation
           row == Row(w, generation, auth.keysChangedAt)
           new == Claim(worker[w].account, lastUid', auth.state)
<1>1. /\ TypeInvariant /\ ClaimsAgree /\ worker[w].pc = "create" /\ JobFits(worker[w], lastUid)
      /\ UNCHANGED accounts
  BY TypesOfThread DEF ClaimsInvariant, Create, At
<1>2. CASE Refuse(w) /\ UNCHANGED <<users, lastUid, answered>>
  <2>1. JobClaims' \subseteq JobClaims
    BY <1>1, <1>2, Moves, JobClaimsStay DEF Holding
  <2> QED
    BY <1>1, <1>2, <2>1, ClaimsStay DEF Claims, RowClaims
<1>3. CASE Insert(row) /\ Reply(w, lastUid')
  <2>1. generation \in Timestamps \cup {0}
    BY <1>1, ClaimFields DEF JobFits
  <2>2. row \in SyncUser /\ row.account = worker[w].account /\ row.state = auth.state
    <3> HIDE DEF generation
    <3>1. row \in SyncUser
      BY <1>1, <2>1, RowTyped
    <3> QED
      BY <3>1 DEF Row
  <2> HIDE DEF row
  <2>3. RowClaims' \subseteq RowClaims \cup {new} /\ lastUid \in Nat /\ lastUid' = lastUid + 1
    BY <1>1, <1>3, <2>2, InsertTyped, InsertClaims
  <2>4. JobClaims' \subseteq JobClaims
    BY <1>1, <1>3, Moves, JobClaimsStay DEF Holding
  <2>5. answered' = answered \cup {new}
    BY <1>1, <1>3, Moves
  <2>6. new.uid = lastUid' /\ Claims' \subseteq Claims \cup {new}
    BY <2>3, <2>4, <2>5 DEF Claims, Claim
  <2> HIDE DEF new
  <2> QED
    BY <1>1, <2>3, <2>6, ClaimsGrow
<1> QED
  BY <1>2, <1>3 DEF Create

LEMMA ReconcileClaims ==
  ASSUME ClaimsInvariant, NEW w \in Workers, Reconcile(w)
  PROVE  ClaimsAgree'
<1>1. /\ TypeInvariant /\ ClaimsAgree /\ worker[w] \in Job /\ worker \in [Workers -> Job]
      /\ UNCHANGED <<lastUid, answered>> /\ worker[w].pc = "reconcile"
  BY TypeParts, TypesOfThread DEF ClaimsInvariant, Reconcile, At
<1>2. RowClaims' = RowClaims
  BY <1>1, ReconcileTyped, RowClaimsStay
<1>3. PICK u \in worker[w].todo : worker' = [worker EXCEPT ![w].todo = @ \ {u}]
  BY DEF Reconcile
<1>4. /\ \A v \in Workers \ {w} : worker'[v] = worker[v]
      /\ worker'[w].pc = worker[w].pc /\ worker'[w].account = worker[w].account
      /\ worker'[w].auth = worker[w].auth /\ worker'[w].uid = worker[w].uid
      /\ worker'[w].user = worker[w].user
  BY <1>1, <1>3 DEF Job
<1>5. JobClaims' \subseteq JobClaims
  BY <1>4, JobClaimsStay DEF JobClaim
<1> QED
  BY <1>1, <1>2, <1>5, ClaimsStay DEF Claims

(* The credential handed out is for the uid the request holds.             *)
LEMMA ReplyClaims ==
  ASSUME ClaimsInvariant, NEW w \in Workers, Reply(w, worker[w].uid), worker[w].pc \in Holding,
         worker[w].pc # "retire" => worker[w].auth.state = worker[w].user.state,
         RowClaims' = RowClaims, UNCHANGED lastUid
  PROVE  ClaimsAgree'
<1>1. TypeInvariant /\ ClaimsAgree
  BY DEF ClaimsInvariant
<1>2. JobClaims' \subseteq JobClaims
  BY <1>1, Moves, JobClaimsStay DEF Holding
<1>3. JobClaim(worker[w]) = Claim(worker[w].account, worker[w].uid, worker[w].auth.state)
  BY DEF JobClaim
<1>4. answered' = answered \cup {JobClaim(worker[w])}
  BY <1>1, <1>3, Moves
<1>5. JobClaim(worker[w]) \in JobClaims
  BY DEF JobClaims
<1> QED
  BY <1>1, <1>2, <1>4, <1>5, ClaimsStay DEF Claims

LEMMA ValidateClaims ==
  ASSUME ClaimsInvariant, NEW w \in Workers, Validate(w)
  PROVE  ClaimsAgree'
<1>1. /\ TypeInvariant /\ ClaimsAgree /\ worker[w].pc = "reconcile"
      /\ UNCHANGED <<users, lastUid>>
  BY DEF ClaimsInvariant, Validate, At
<1>2. RowClaims' = RowClaims
  BY <1>1 DEF RowClaims
<1>3. CASE UNCHANGED answered /\ (Refuse(w) \/ Goto(w, "rotate"))
  <2>1. JobClaims' \subseteq JobClaims
    BY <1>1, <1>3, Moves, JobClaimsStay DEF Holding
  <2> QED
    BY <1>1, <1>2, <1>3, <2>1, ClaimsStay DEF Claims
<1>4. CASE UNCHANGED answered /\ Goto(w, "update")
  <2>1. worker'[w].pc = "update" /\ JobClaim(worker'[w]) = JobClaim(worker[w])
    BY <1>1, <1>4, Moves DEF JobClaim
  <2>2. JobClaims' \subseteq JobClaims
    BY <1>1, <1>4, <2>1, Moves, JobClaimsStay DEF Holding
  <2> QED
    BY <1>1, <1>2, <1>4, <2>2, ClaimsStay DEF Claims
<1>5. CASE Reply(w, worker[w].uid) /\ worker[w].auth.state = worker[w].user.state
  BY <1>1, <1>2, <1>5, ReplyClaims DEF Holding
<1> QED
  BY <1>3, <1>4, <1>5 DEF Validate

LEMMA UpdateClaims ==
  ASSUME ClaimsInvariant, NEW w \in Workers, Update(w) \/ Retire(w)
  PROVE  ClaimsAgree'
<1>1. /\ TypeInvariant /\ JobFits(worker[w], lastUid) /\ UNCHANGED lastUid
      /\ Reply(w, worker[w].uid) /\ worker[w].pc \in {"update", "retire"}
  BY TypesOfThread DEF ClaimsInvariant, Update, Retire, At
<1>2. RowClaims' = RowClaims
  BY <1>1, UpdateTyped, RetireTyped, RowClaimsStay
<1> QED
  BY <1>1, <1>2, ReplyClaims DEF JobFits, Holding

LEMMA RotateClaims ==
  ASSUME ClaimsInvariant, NEW w \in Workers, Rotate(w)
  PROVE  ClaimsAgree'
<1> DEFINE auth == worker[w].auth
           generation == NextGeneration(auth, worker[w].user)
           row == Row(w, generation, auth.keysChangedAt)
           new == Claim(worker[w].account, lastUid', auth.state)
<1>1. /\ TypeInvariant /\ ClaimsAgree /\ worker[w].pc = "rotate" /\ JobFits(worker[w], lastUid)
      /\ UNCHANGED <<accounts, answered>> /\ worker \in [Workers -> Job] /\ worker[w] \in Job
  BY TypeParts, TypesOfThread DEF ClaimsInvariant, Rotate, At
<1>2. CASE Refuse(w) /\ UNCHANGED <<users, lastUid>>
  <2>1. JobClaims' \subseteq JobClaims
    BY <1>1, <1>2, Moves, JobClaimsStay DEF Holding
  <2> QED
    BY <1>1, <1>2, <2>1, ClaimsStay DEF Claims, RowClaims
<1>3. CASE /\ Insert(row)
           /\ worker' = [worker EXCEPT ![w].pc = "retire", ![w].uid = lastUid']
  <2>1. generation \in Timestamps \cup {0}
    BY <1>1, NextGenerationTyped DEF JobFits
  <2>2. row \in SyncUser /\ row.account = worker[w].account /\ row.state = auth.state
    <3> HIDE DEF generation
    <3>1. row \in SyncUser
      BY <1>1, <2>1, RowTyped
    <3> QED
      BY <3>1 DEF Row
  <2> HIDE DEF row
  <2>3. RowClaims' \subseteq RowClaims \cup {new} /\ lastUid \in Nat /\ lastUid' = lastUid + 1
    BY <1>1, <1>3, <2>2, InsertTyped, InsertClaims
  <2>4. /\ \A v \in Workers \ {w} : worker'[v] = worker[v]
        /\ worker'[w].pc = "retire" /\ worker'[w].uid = lastUid'
        /\ worker'[w].account = worker[w].account /\ worker'[w].auth = worker[w].auth
    BY <1>1, <1>3 DEF Job
  <2>5. JobClaim(worker'[w]) = new
    BY <2>4 DEF JobClaim
  <2>6. JobClaims' \subseteq JobClaims \cup {new}
    BY <2>4, <2>5, JobClaimsGrow
  <2>7. new.uid = lastUid' /\ Claims' \subseteq Claims \cup {new}
    BY <1>1, <2>3, <2>6 DEF Claims, Claim
  <2> HIDE DEF new
  <2> QED
    BY <1>1, <2>3, <2>7, ClaimsGrow
<1> QED
  BY <1>2, <1>3 DEF Rotate, NextKeysChangedAt

LEMMA ClaimsStep ==
  ClaimsInvariant /\ [Next]_vars => ClaimsInvariant'
<1> SUFFICES ASSUME ClaimsInvariant, [Next]_vars PROVE ClaimsAgree'
  BY TypesStep DEF ClaimsInvariant
<1>1. TypeInvariant /\ ClaimsAgree
  BY DEF ClaimsInvariant
<1>2. ASSUME NEW w \in Workers, Request(w) PROVE ClaimsAgree'
  <2>1. ASSUME UNCHANGED <<users, lastUid, answered>>,
               \A v \in Workers \ {w} : worker'[v] = worker[v], worker'[w].pc \notin Holding
        PROVE  ClaimsAgree'
    <3>1. JobClaims' \subseteq JobClaims
      BY <2>1, JobClaimsStay
    <3> QED
      BY <1>1, <2>1, <3>1, ClaimsStay DEF Claims, RowClaims
  <2>2. ASSUME NEW a \in Accounts, NEW auth \in Auths, Arrive(w, a, auth) PROVE ClaimsAgree'
    <3>1. worker \in [Workers -> Job]
      BY <1>1, TypeParts
    <3>2. worker'[w] = [Idle EXCEPT !.pc = "read", !.account = a, !.auth = auth, !.at = clock,
                                    !.late = auth.state \in Retired(a)]
          /\ \A v \in Workers \ {w} : worker'[v] = worker[v]
      BY <2>2, <3>1 DEF Arrive
    <3>3. worker'[w].pc = "read"
      BY <3>2 DEF Idle
    <3> QED
      BY <2>1, <2>2, <3>2, <3>3 DEF Arrive, Holding
  <2>3. CASE Lookup(w) \/ Done(w)
    BY <1>1, <2>1, <2>3, Moves DEF Lookup, Done, Holding
  <2> QED
    BY <1>2, <2>2, <2>3, ReadClaims, CreateClaims, ReconcileClaims, ValidateClaims, UpdateClaims,
       RotateClaims DEF Request
<1>3. ASSUME NEW a \in Accounts, RemoveAccount(a) PROVE ClaimsAgree'
  <2>1. RowClaims' \subseteq RowClaims
    BY <1>3 DEF RemoveAccount, RowClaims
  <2>2. UNCHANGED <<lastUid, worker, answered>>
    BY <1>3 DEF RemoveAccount
  <2> QED
    BY <1>1, <2>1, <2>2, ClaimsStay DEF Claims, JobClaims
<1>4. CASE Crash
  <2>1. JobClaims' = {}
    BY <1>4 DEF Crash, JobClaims, Idle, Holding
  <2> QED
    BY <1>1, <1>4, <2>1, ClaimsStay DEF Crash, Claims, RowClaims
<1>5. CASE Tick \/ UNCHANGED vars
  BY <1>1, <1>5, ClaimsStay DEF Tick, vars, Claims, RowClaims, JobClaims
<1> QED
  BY <1>2, <1>3, <1>4, <1>5 DEF Next

LEMMA ClaimsStart == Init => ClaimsInvariant
BY TypesStart DEF Init, ClaimsInvariant, ClaimsAgree, Claims, RowClaims, JobClaims, Idle, Holding

LEMMA ClaimsHold == Spec => []ClaimsInvariant
BY ClaimsStart, ClaimsStep, PTL DEF Spec

(* However many requests race, and whatever crashes or is removed between   *)
(* two of their statements: the storage of one key of one account is never  *)
(* handed to another.                                                      *)
THEOREM UidsAreNotHandedOn == Spec => []NoUidHandedOn
<1>1. ClaimsInvariant => NoUidHandedOn
  BY DEF ClaimsInvariant, ClaimsAgree, Claims, NoUidHandedOn
<1> QED
  BY <1>1, ClaimsHold, PTL

-----------------------------------------------------------------------------
(* An account's rows, through the steps of requests.                       *)

(* The row of an account that comes before all its others.                 *)
Ahead(u, a) == u \in UidsOf(a) /\ \A v \in UidsOf(a) \ {u} : Before(u, v)

CurrentIsAhead ==
  RowTypes =>
    /\ \A a : UidsOf(a) # {} => Ahead(Current(a), a)
    /\ \A a, u : Ahead(u, a) => Current(a) = u

LEMMA CurrentRow == CurrentIsAhead /\ CurrentIsAhead'
<1>1. CurrentIsAhead
  BY CurrentExists, CurrentIs DEF CurrentIsAhead, Ahead
<1> QED
  BY <1>1, PTL

RetiredAre ==
  \A a : /\ UidsOf(a) = {} => Retired(a) = {}
         /\ UidsOf(a) # {} =>
              \A s : s \in Retired(a) <=> /\ \E u \in UidsOf(a) : s = users[u].state
                                         /\ s # users[Current(a)].state

LEMMA RetiredRows == RetiredAre /\ RetiredAre'
<1>1. RetiredAre
  BY RetiredStates DEF RetiredAre
<1> QED
  BY <1>1, PTL

(* An account whose rows keep their states and their order - the current    *)
(* one may rise - keeps its current row and its retired states.            *)
LEMMA AccountStays ==
  ASSUME RowTypes, RowTypes', NEW a, UidsOf(a)' = UidsOf(a),
         \A u \in UidsOf(a) :
           /\ users'[u].state = users[u].state /\ users'[u].createdAt = users[u].createdAt
           /\ \/ users'[u].generation = users[u].generation
              \/ u = Current(a) /\ users'[u].generation >= users[u].generation
  PROVE  /\ UidsOf(a) # {} => Current(a)' = Current(a)
         /\ Retired(a)' = Retired(a)
<1>1. \A u \in UidsOf(a) : /\ u \in Nat
                           /\ users[u].generation \in Nat /\ users[u].createdAt \in Nat
                           /\ users'[u].generation \in Nat
  <2>1. \A u \in UidsOf(a) : u \in DOMAIN users /\ u \in DOMAIN users'
    BY DEF UidsOf
  <2>2. \A u \in DOMAIN users' : users'[u].generation \in Nat
    BY AuthsAssumption DEF RowTypes, SyncUser, Timestamps
  <2> QED
    BY <2>1, <2>2, RowFields
<1>2. ASSUME UidsOf(a) # {} PROVE Current(a)' = Current(a)
  <2>1. PICK c \in UidsOf(a) : c = Current(a) /\ \A v \in UidsOf(a) \ {c} : Before(c, v)
    BY <1>2, CurrentRow DEF CurrentIsAhead, Ahead
  <2>2. users'[c].generation >= users[c].generation
    BY <1>1, <2>1
  <2>3. ASSUME NEW v \in UidsOf(a) \ {c} PROVE Before(c, v)'
    <3>1. Before(c, v) /\ users'[v].generation = users[v].generation
      BY <2>1, <2>3
    <3> QED
      BY <1>1, <2>1, <2>2, <2>3, <3>1 DEF Before
  <2>4. Ahead(c, a)'
    BY <2>1, <2>3 DEF Ahead
  <2> QED
    BY <2>1, <2>4, CurrentRow DEF CurrentIsAhead
<1>3. Retired(a)' = Retired(a)
  <2>1. CASE UidsOf(a) = {}
    BY <2>1, RetiredRows DEF RetiredAre
  <2>2. CASE UidsOf(a) # {}
    <3>1. Current(a) \in UidsOf(a)
      BY <2>2, CurrentRow DEF CurrentIsAhead, Ahead
    <3>2. \A s : s \in Retired(a)' <=> s \in Retired(a)
      BY <1>2, <2>2, <3>1, RetiredRows DEF RetiredAre
    <3> QED
      BY <3>2
  <2> QED
    BY <2>1, <2>2
<1> QED
  BY <1>2, <1>3

(* A row made last, with a generation no other outranks, is the current one.*)
LEMMA NewRowLeads ==
  ASSUME TypeInvariant, NEW row \in SyncUser, Insert(row), UNCHANGED accounts,
         LET a == row.account IN
           UidsOf(a) # {} => row.generation >= users[Current(a)].generation,
         \A u \in UidsOf(row.account) : users[u].createdAt <= row.createdAt
  PROVE  LET a == row.account IN
         /\ UidsOf(a)' = UidsOf(a) \cup {lastUid'}
         /\ Current(a)' = lastUid'
         /\ \A s : s \in Retired(a)' <=> (\E u \in UidsOf(a) : s = users[u].state) /\ s # row.state
         /\ \A b : b # a => UidsOf(b)' = UidsOf(b) /\ Retired(b)' = Retired(b)
                            /\ (UidsOf(b) # {} => Current(b)' = Current(b))
<1> DEFINE a == row.account
<1>0. PICK new : new = lastUid'
  OBVIOUS
<1>1. /\ RowTypes' /\ RowTypes /\ lastUid \in Nat /\ new = lastUid + 1 /\ new \notin DOMAIN users
      /\ DOMAIN users' = DOMAIN users \cup {new} /\ users'[new] = row
      /\ \A u \in DOMAIN users : users'[u] = users[u]
  BY <1>0, InsertTyped, TypeParts DEF TableTypes
<1>2. UidsOf(a)' = UidsOf(a) \cup {new} /\ \A b : b # a => UidsOf(b)' = UidsOf(b)
  BY <1>1 DEF UidsOf
<1>3. \A u \in UidsOf(a) : /\ u \in DOMAIN users /\ u \in 1 .. lastUid /\ u \in Nat
                           /\ users[u].generation \in Nat /\ users[u].createdAt \in Nat
                           /\ users'[u] = users[u]
  BY <1>1, RowFields DEF UidsOf
<1>4. row.generation \in Nat /\ row.createdAt \in Nat
  BY AuthsAssumption DEF SyncUser, Timestamps
<1>5. \A u \in UidsOf(a) : users[u].generation <= row.generation
  <2> SUFFICES ASSUME NEW u \in UidsOf(a) PROVE users[u].generation <= row.generation
    OBVIOUS
  <2>1. /\ Current(a) \in UidsOf(a)
        /\ u # Current(a) => Before(Current(a), u)
    BY <1>1, CurrentRow DEF CurrentIsAhead, Ahead
  <2>2. users[u].generation <= users[Current(a)].generation
    BY <1>3, <2>1 DEF Before
  <2>3. row.generation >= users[Current(a)].generation
    BY <2>1
  <2> QED
    BY <1>3, <1>4, <2>1, <2>2, <2>3
<1>6. Ahead(new, a)'
  <2>1. new \in UidsOf(a)'
    BY <1>2
  <2>2. ASSUME NEW v \in UidsOf(a) PROVE Before(new, v)'
    <3>1. /\ users'[v] = users[v] /\ v \in Nat /\ v < new
          /\ users[v].generation <= row.generation /\ users[v].createdAt <= row.createdAt
      BY <1>1, <1>3, <1>5
    <3> QED
      BY <1>1, <1>3, <1>4, <3>1 DEF Before
  <2> QED
    BY <1>2, <2>1, <2>2 DEF Ahead
<1>7. Current(a)' = new
  BY <1>1, <1>6, CurrentRow DEF CurrentIsAhead
<1>8. \A s : s \in Retired(a)' <=> (\E u \in UidsOf(a) : s = users[u].state) /\ s # row.state
  BY <1>1, <1>2, <1>3, <1>7, RetiredRows DEF RetiredAre
<1>9. ASSUME NEW b, b # a
      PROVE  Retired(b)' = Retired(b) /\ (UidsOf(b) # {} => Current(b)' = Current(b))
  <2>1. \A u \in UidsOf(b) : users'[u] = users[u]
    BY <1>1 DEF UidsOf
  <2> QED
    BY <1>1, <1>2, <1>9, <2>1, AccountStays
<1> QED
  BY <1>0, <1>2, <1>7, <1>8, <1>9

-----------------------------------------------------------------------------
(* What requests do to the other accounts, and to each other.              *)

(* Nothing of the account's changed.                                       *)
Untouched(a) ==
  /\ UidsOf(a)' = UidsOf(a) /\ (\A u \in UidsOf(a) : users'[u] = users[u])
  /\ a \in accounts' <=> a \in accounts

(* The current row of an account is live, whatever a crash left unfinished. *)
CurrentLive(a) == UidsOf(a) # {} => users[Current(a)].replacedAt = 0

(* What a request changes of its account, as KeyVersions sees it.          *)
Kept(a) ==
  /\ UidsOf(a)' = {} <=> UidsOf(a) = {}
  /\ UidsOf(a) # {} =>
       /\ users'[Current(a)'].state = users[Current(a)].state
       /\ users'[Current(a)'].generation = users[Current(a)].generation
       /\ users'[Current(a)'].keysChangedAt = users[Current(a)].keysChangedAt
  /\ Retired(a)' = Retired(a)

NotBelow(new, old) == old = Unreported \/ (new # Unreported /\ new >= old)

Begins(a) == UidsOf(a) = {} /\ UidsOf(a)' # {} /\ Retired(a)' = {}

NotFalling(a) ==
  /\ UidsOf(a) # {} /\ UidsOf(a)' # {}
  /\ users'[Current(a)'].generation >= users[Current(a)].generation
  /\ NotBelow(users'[Current(a)'].keysChangedAt, users[Current(a)].keysChangedAt)

Advances(a) ==
  /\ NotFalling(a)
  /\ users'[Current(a)'].state = users[Current(a)].state
  /\ Retired(a)' = Retired(a)

Rotates(a) ==
  /\ NotFalling(a)
  /\ users'[Current(a)'].state \notin Retired(a) \cup {users[Current(a)].state}
  /\ users[Current(a)].keysChangedAt # Unreported =>
       users'[Current(a)'].keysChangedAt > users[Current(a)].keysChangedAt
  /\ Retired(a)' = Retired(a) \cup {users[Current(a)].state}

Goes(a) == Kept(a) \/ Begins(a) \/ Advances(a) \/ Rotates(a) \/ UidsOf(a)' = {}

LEMMA UntouchedSo ==
  ASSUME RowTypes, RowTypes', NEW a, Untouched(a)
  PROVE  /\ UidsOf(a)' = UidsOf(a) /\ Live(a)' = Live(a) /\ Retired(a)' = Retired(a)
         /\ UidsOf(a) # {} => Current(a)' = Current(a) /\ users'[Current(a)] = users[Current(a)]
         /\ CurrentLive(a) => CurrentLive(a)'
         /\ Kept(a)
<1>1. UidsOf(a)' = UidsOf(a) /\ \A u \in UidsOf(a) : users'[u] = users[u]
  BY DEF Untouched
<1>2. Live(a)' = Live(a)
  BY <1>1 DEF Live
<1>3. \A u \in UidsOf(a) : u \in DOMAIN users
  BY DEF UidsOf
<1>4. Retired(a)' = Retired(a) /\ (UidsOf(a) # {} => Current(a)' = Current(a))
  BY <1>1, <1>3, RowFields, AccountStays
<1>5. UidsOf(a) # {} => Current(a) \in UidsOf(a) /\ users'[Current(a)] = users[Current(a)]
  BY <1>1, CurrentRow DEF CurrentIsAhead, Ahead
<1> QED
  BY <1>1, <1>2, <1>4, <1>5 DEF CurrentLive, Kept

(* Rows change in nothing but the time they were replaced at.              *)
RowsStay ==
  /\ DOMAIN users' = DOMAIN users
  /\ \A u \in DOMAIN users :
       /\ users'[u].account = users[u].account /\ users'[u].state = users[u].state
       /\ users'[u].generation = users[u].generation
       /\ users'[u].keysChangedAt = users[u].keysChangedAt
       /\ users'[u].createdAt = users[u].createdAt

LEMMA RowsStaySo ==
  ASSUME RowTypes, RowTypes', RowsStay, NEW a
  PROVE  /\ UidsOf(a)' = UidsOf(a) /\ Retired(a)' = Retired(a) /\ Kept(a)
         /\ UidsOf(a) # {} => Current(a)' = Current(a) /\ Current(a) \in UidsOf(a)
<1>1. UidsOf(a)' = UidsOf(a) /\ UidsOf(a) \subseteq DOMAIN users
  BY DEF UidsOf, RowsStay
<1>2. Retired(a)' = Retired(a) /\ (UidsOf(a) # {} => Current(a)' = Current(a))
  BY <1>1, AccountStays DEF RowsStay
<1>3. UidsOf(a) # {} => Current(a) \in UidsOf(a) /\ Current(a) \in DOMAIN users
  BY <1>1, CurrentRow DEF CurrentIsAhead, Ahead
<1> QED
  BY <1>1, <1>2, <1>3 DEF RowsStay, Kept

(* Rows are made in the order of the clock.                                *)
InTime ==
  /\ \A u \in DOMAIN users : users[u].createdAt <= clock
  /\ \A w \in Workers : worker[w].pc # "idle" => worker[w].at <= clock

(* What a request means to retire are rows of its own account.             *)
TodoIsOwn ==
  \A w \in Workers : worker[w].pc = "reconcile" =>
    /\ worker[w].todo \subseteq 1 .. lastUid
    /\ \A u \in worker[w].todo \cap DOMAIN users : users[u].account = worker[w].account

(* The same claim again would pass and change nothing.                     *)
Repeats(auth, user, stale) ==
  /\ auth.state = user.state /\ Valid(auth, user, stale)
  /\ NextGeneration(auth, user) = user.generation
  /\ NextKeysChangedAt(auth) = user.keysChangedAt

(* What a request relies on as long as its account's requests do not race:  *)
(* what it read still stands, unless the account is gone.                  *)
Served(job) ==
  LET a == job.account IN
  /\ job.pc # "idle" => \A u \in UidsOf(a) : users[u].createdAt <= job.at
  /\ job.pc \in {"lookup", "create"} => UidsOf(a) = {}
  /\ job.pc \in {"reconcile", "update", "rotate"} /\ a \in accounts =>
       /\ UidsOf(a) # {} /\ job.uid = Current(a)
       /\ job.user = users[Current(a)] /\ job.stale = Retired(a)
  /\ job.pc = "reconcile" /\ a \in accounts => job.todo = Live(a) \ {Current(a)}
  /\ job.pc \in {"update", "rotate"} => Valid(job.auth, job.user, job.stale)
  /\ job.pc = "rotate" => job.auth.state # job.user.state
  /\ job.pc \in {"update", "rotate", "answered"} /\ a \in accounts => Live(a) = {Current(a)}
  /\ job.pc \in {"retire", "answered"} /\ a \in accounts =>
       /\ UidsOf(a) # {} /\ job.uid = Current(a)
       /\ Repeats(job.auth, users[Current(a)], Retired(a))

(* How far a request gets that claims a state already retired.             *)
Overdue(job) ==
  job.late =>
    \/ job.pc = "read" /\ (job.account \in accounts => job.auth.state \in Retired(job.account))
    \/ job.pc \in {"lookup", "create"} /\ job.account \notin accounts
    \/ job.pc = "reconcile" /\ job.auth.state \in job.stale

Good(w) == Served(worker[w]) /\ Overdue(worker[w])

ServedInvariant ==
  /\ ClaimsInvariant /\ InTime /\ TodoIsOwn
  /\ \A a \in Accounts \ raced : CurrentLive(a)
  /\ \A w \in Workers : worker[w].account \notin raced => Good(w)

LEMMA ServedParts ==
  ASSUME ServedInvariant, NEW w \in Workers
  PROVE  /\ TypeInvariant /\ ClaimsInvariant /\ InTime /\ TodoIsOwn
         /\ \A a \in Accounts \ raced : CurrentLive(a)
         /\ worker[w].account \notin raced => Served(worker[w]) /\ Overdue(worker[w])
         /\ RowTypes /\ worker[w] \in Job /\ JobFits(worker[w], lastUid)
         /\ lastUid \in Nat /\ worker \in [Workers -> Job] /\ clock \in Nat
         /\ \A u \in DOMAIN users : users[u].account \in accounts
BY TypesOfThread, TypeParts, BoundsAssumption
   DEF ServedInvariant, ClaimsInvariant, TableTypes, RowTypes, Good

(* An account that is gone has no rows.                                    *)
LEMMA GoneIsEmpty ==
  ASSUME ServedInvariant, NEW a
  PROVE  a \notin accounts => UidsOf(a) = {}
BY TypeParts DEF ServedInvariant, ClaimsInvariant, TableTypes, UidsOf

(* A request of an account nothing of which changed relies on the same.    *)
LEMMA GoodStays ==
  ASSUME RowTypes, RowTypes', NEW w \in Workers, worker'[w] = worker[w],
         NEW a, a = worker[w].account, Untouched(a), Good(w)
  PROVE  Good(w)'
<1>1. a = worker[w].account
  OBVIOUS
<1>2. /\ UidsOf(a)' = UidsOf(a) /\ Live(a)' = Live(a) /\ Retired(a)' = Retired(a)
      /\ UidsOf(a) # {} => Current(a)' = Current(a) /\ users'[Current(a)] = users[Current(a)]
      /\ a \in accounts' <=> a \in accounts
      /\ \A u \in UidsOf(a) : users'[u] = users[u]
  BY <1>1, UntouchedSo DEF Untouched
<1>3. Served(worker[w])'
  BY <1>1, <1>2 DEF Good, Served
<1>4. Overdue(worker[w])'
  BY <1>1, <1>2 DEF Good, Overdue
<1> QED
  BY <1>3, <1>4 DEF Good

(* What a request may do to the others.                                    *)
Apart(w) ==
  /\ \A v \in Workers \ {w} : worker'[v] = worker[v]
  /\ UNCHANGED <<accounts, clock>>
  /\ raced \subseteq raced' /\ raced' \subseteq raced \cup {worker[w].account}
  /\ \A a : a # worker[w].account => Untouched(a)
  /\ \A a : a \notin raced' /\ (\E v \in Workers \ {w} : worker[v].account = a) => Untouched(a)
  /\ InTime' /\ TodoIsOwn'

LEMMA WritesApart ==
  ASSUME NEW w \in Workers, Writes(w)
  PROVE  /\ raced \subseteq raced' /\ raced' \subseteq raced \cup {worker[w].account}
         /\ \A v \in Workers \ {w} :
              worker[v].account \notin raced' => worker[v].account # worker[w].account
BY DEF Writes

(* A request that writes nothing.                                          *)
LEMMA ReadersApart ==
  ASSUME ServedInvariant, NEW w \in Workers, UNCHANGED <<accounts, users, lastUid, clock>>,
         raced \subseteq raced', raced' \subseteq raced \cup {worker[w].account},
         \A v \in Workers \ {w} : worker'[v] = worker[v],
         worker'[w].pc # "idle" => worker'[w].at <= clock,
         worker'[w].pc = "reconcile" =>
           worker'[w].todo \subseteq UidsOf(worker'[w].account)
  PROVE  Apart(w) /\ \A a : Untouched(a)
<1>1. InTime /\ TodoIsOwn /\ RowTypes
  BY ServedParts
<1>2. \A a : Untouched(a)
  BY DEF Untouched, UidsOf
<1>3. InTime'
  BY <1>1 DEF InTime
<1>4. TodoIsOwn'
  BY <1>1 DEF TodoIsOwn, UidsOf, RowTypes
<1> QED
  BY <1>2, <1>3, <1>4 DEF Apart

(* A request that makes a row of its account.                              *)
LEMMA InsertersApart ==
  ASSUME ServedInvariant, NEW w \in Workers, NEW row \in SyncUser, Insert(row),
         row.account = worker[w].account, row.createdAt = worker[w].at, worker[w].pc # "idle",
         UNCHANGED <<accounts, clock>>, Writes(w),
         \A v \in Workers \ {w} : worker'[v] = worker[v],
         worker'[w].pc \in {"answered", "retire"}, worker'[w].at = worker[w].at
  PROVE  Apart(w)
<1>1. InTime /\ TodoIsOwn /\ TypeInvariant
  BY ServedParts
<1>2. /\ DOMAIN users' = DOMAIN users \cup {lastUid'} /\ users'[lastUid'] = row
      /\ lastUid' = lastUid + 1 /\ lastUid \in Nat
      /\ \A u \in DOMAIN users : users'[u] = users[u]
      /\ lastUid' \notin DOMAIN users
  BY <1>1, InsertTyped
<1>3. ASSUME NEW a, a # worker[w].account PROVE Untouched(a)
  BY <1>2, <1>3 DEF Untouched, UidsOf
<1>4. InTime'
  BY <1>1, <1>2 DEF InTime
<1>5. TodoIsOwn'
  <2> SUFFICES ASSUME NEW v \in Workers, worker'[v].pc = "reconcile"
               PROVE  /\ worker'[v].todo \subseteq 1 .. lastUid'
                      /\ \A u \in worker'[v].todo \cap DOMAIN users' :
                           users'[u].account = worker'[v].account
    BY DEF TodoIsOwn
  <2>1. v # w /\ worker'[v] = worker[v]
    OBVIOUS
  <2>2. /\ worker[v].todo \subseteq 1 .. lastUid
        /\ \A u \in worker[v].todo \cap DOMAIN users : users[u].account = worker[v].account
    BY <1>1, <2>1 DEF TodoIsOwn
  <2> QED
    BY <1>2, <2>1, <2>2
<1> QED
  BY <1>3, <1>4, <1>5, WritesApart DEF Apart

(* A request that changes rows of its account in place.                    *)
LEMMA ChangersApart ==
  ASSUME ServedInvariant, NEW w \in Workers, RowsKept, Writes(w),
         UNCHANGED <<accounts, lastUid, clock>>,
         \A u \in DOMAIN users : /\ users'[u].createdAt = users[u].createdAt
                                 /\ users[u].account # worker[w].account => users'[u] = users[u],
         \A v \in Workers \ {w} : worker'[v] = worker[v],
         worker[w].pc # "idle", worker'[w].at = worker[w].at,
         worker'[w].pc = "reconcile" =>
           /\ worker[w].pc = "reconcile" /\ worker'[w].todo \subseteq worker[w].todo
           /\ worker'[w].account = worker[w].account
  PROVE  Apart(w)
<1>1. InTime /\ TodoIsOwn /\ TypeInvariant
  BY ServedParts
<1>2. ASSUME NEW a, a # worker[w].account PROVE Untouched(a)
  BY <1>2 DEF Untouched, UidsOf, RowsKept
<1>3. InTime'
  BY <1>1 DEF InTime, RowsKept
<1>4. TodoIsOwn'
  BY <1>1 DEF TodoIsOwn, RowsKept
<1> QED
  BY <1>2, <1>3, <1>4, WritesApart DEF Apart

-----------------------------------------------------------------------------
(* What each statement of a request does.                                  *)

Does(w) ==
  /\ Apart(w)
  /\ worker'[w].account \notin raced' => Good(w)'
  /\ \A a \in Accounts \ raced' : a = worker[w].account => CurrentLive(a)' /\ Goes(a)

Reads(w) ==
  /\ UNCHANGED <<accounts, users, lastUid, clock>>
  /\ raced \subseteq raced' /\ raced' \subseteq raced \cup {worker[w].account}
  /\ \A v \in Workers \ {w} : worker'[v] = worker[v]

LEMMA ReaderDoes ==
  ASSUME ServedInvariant, NEW w \in Workers, Reads(w),
         worker'[w].pc # "idle" => worker'[w].at <= clock,
         worker'[w].pc = "reconcile" =>
           worker'[w].todo \subseteq UidsOf(worker'[w].account),
         worker'[w].account \notin raced' => Good(w)'
  PROVE  Does(w)
<1>1. Apart(w) /\ \A a : Untouched(a)
  BY ReadersApart DEF Reads
<1>2. /\ RowTypes /\ RowTypes' /\ raced \subseteq raced'
      /\ \A a \in Accounts \ raced : CurrentLive(a)
  BY ServedParts DEF Reads, RowTypes
<1>3. ASSUME NEW a \in Accounts \ raced', a = worker[w].account PROVE CurrentLive(a)' /\ Goes(a)
  BY <1>1, <1>2, UntouchedSo DEF Goes
<1> QED
  BY <1>1, <1>3 DEF Does

LEMMA IdleGood ==
  ASSUME NEW w \in Workers, worker'[w] = Idle
  PROVE  Good(w)' /\ worker'[w].pc = "idle"
BY DEF Good, Served, Overdue, Idle

LEMMA RefusedDoes ==
  ASSUME ServedInvariant, NEW w \in Workers, Refuse(w),
         UNCHANGED <<accounts, users, lastUid, clock>>, Writes(w) \/ UNCHANGED raced
  PROVE  Does(w)
<1>1. worker \in [Workers -> Job]
  BY ServedParts
<1>2. worker'[w] = Idle /\ \A v \in Workers \ {w} : worker'[v] = worker[v]
  BY <1>1 DEF Refuse
<1>3. Good(w)' /\ worker'[w].pc = "idle"
  BY <1>2, IdleGood
<1>4. Reads(w)
  BY <1>2, WritesApart DEF Reads
<1> QED
  BY <1>3, <1>4, ReaderDoes

LEMMA ArriveDoes ==
  ASSUME ServedInvariant, NEW w \in Workers, NEW a \in Accounts, NEW auth \in Auths,
         Arrive(w, a, auth)
  PROVE  Does(w)
<1>1. /\ TypeInvariant /\ InTime /\ worker \in [Workers -> Job] /\ clock \in Nat
      /\ UNCHANGED <<accounts, users, lastUid, clock, raced>>
  BY ServedParts DEF Arrive
<1>2. ASSUME NEW late \in BOOLEAN
      PROVE  LET job == [Idle EXCEPT !.pc = "read", !.account = a, !.auth = auth, !.at = clock,
                                     !.late = late]
             IN  /\ job.pc = "read" /\ job.account = a /\ job.auth = auth /\ job.at = clock
                 /\ job.late => late
  BY IdleFits DEF Job
<1>3. (auth.state \in Retired(a)) \in BOOLEAN
  OBVIOUS
<1> DEFINE job == [Idle EXCEPT !.pc = "read", !.account = a, !.auth = auth, !.at = clock,
                               !.late = auth.state \in Retired(a)]
<1>4. /\ job.pc = "read" /\ job.account = a /\ job.auth = auth /\ job.at = clock
      /\ job.late => auth.state \in Retired(a)
  BY <1>2, <1>3, Zenon
<1> HIDE DEF job
<1>5. worker' = [worker EXCEPT ![w] = job]
  BY DEF Arrive, job
<1>6. worker'[w] = job /\ Reads(w)
  BY <1>1, <1>5 DEF Reads
<1>7. UidsOf(a)' = UidsOf(a) /\ Retired(a)' = Retired(a)
  <2>1. RowTypes /\ RowTypes' /\ Untouched(a)
    BY <1>1, ServedParts DEF RowTypes, Untouched, UidsOf
  <2> QED
    BY <2>1, UntouchedSo
<1>8. \A u \in UidsOf(a) : users[u].createdAt <= clock
  BY <1>1 DEF InTime, UidsOf
<1>9. Served(worker[w])'
  BY <1>1, <1>4, <1>6, <1>7, <1>8 DEF Served
<1>10. Overdue(worker[w])'
  BY <1>1, <1>4, <1>6, <1>7 DEF Overdue
<1> QED
  BY <1>1, <1>4, <1>6, <1>9, <1>10, ReaderDoes DEF Good

(* A request that goes on with what it holds, having read nothing.         *)
LEMMA ReadDoes ==
  ASSUME ServedInvariant, NEW w \in Workers, Read(w)
  PROVE  Does(w)
<1>1. /\ TypeInvariant /\ worker[w].pc = "read" /\ worker \in [Workers -> Job] /\ worker[w] \in Job
      /\ UNCHANGED <<accounts, users, lastUid, clock, raced>> /\ InTime /\ RowTypes /\ RowTypes'
      /\ worker[w].at <= clock
  BY ServedParts DEF Read, At, InTime, RowTypes
<1>2. PICK a : a = worker[w].account
  OBVIOUS
<1>3. /\ UidsOf(a)' = UidsOf(a) /\ Live(a)' = Live(a) /\ Retired(a)' = Retired(a)
      /\ UidsOf(a) # {} => Current(a)' = Current(a)
  <2>1. Untouched(a)
    BY <1>1 DEF Untouched, UidsOf
  <2> QED
    BY <1>1, <2>1, UntouchedSo
<1>4. CASE UidsOf(a) = {}
  <2>1. Goto(w, "lookup")
    BY <1>2, <1>4 DEF Read
  <2>2. /\ worker'[w].pc = "lookup" /\ worker'[w].account = a /\ worker'[w].at = worker[w].at
        /\ worker'[w].late => worker[w].late
    BY <1>1, <1>2, <2>1 DEF Goto, Job
  <2>3. Reads(w)
    BY <1>1, <2>1, Moves DEF Reads
  <2>4. ASSUME a \notin raced PROVE Good(w)'
    <3>1. Retired(a) = {}
      BY <1>4, RetiredRows DEF RetiredAre
    <3>2. worker[w].late => a \notin accounts
      BY <1>1, <1>2, <2>4, <3>1, ServedParts DEF Overdue
    <3> QED
      BY <1>1, <1>3, <1>4, <2>2, <3>2 DEF Good, Served, Overdue
  <2> QED
    BY <1>1, <2>2, <2>3, <2>4, ReaderDoes
<1>5. CASE UidsOf(a) # {}
  <2> DEFINE job == [worker[w] EXCEPT !.pc = "reconcile", !.uid = Current(a),
                       !.user = users[Current(a)], !.todo = Live(a) \ {Current(a)},
                       !.stale = Retired(a)]
  <2>1. /\ worker' = [worker EXCEPT ![w] = job]
        /\ Current(a) \in UidsOf(a)
        /\ job.pc = "reconcile" /\ job.account = a /\ job.auth = worker[w].auth
        /\ job.at = worker[w].at /\ job.uid = Current(a) /\ job.user = users[Current(a)]
        /\ job.todo = Live(a) \ {Current(a)} /\ job.stale = Retired(a)
    BY <1>1, <1>2, <1>5, ReadSees
  <2>2. job.late => worker[w].late
    BY <1>1 DEF Job
  <2> HIDE DEF job
  <2>3. worker'[w] = job /\ Reads(w)
    BY <1>1, <2>1 DEF Reads
  <2>4. a \in accounts /\ job.todo \subseteq UidsOf(a)
    BY <1>5, <2>1, GoneIsEmpty DEF Live
  <2>5. ASSUME a \notin raced PROVE Good(w)'
    <3>1. Served(worker[w]) /\ Overdue(worker[w])
      BY <1>2, <2>5, ServedParts
    <3>2. \A u \in UidsOf(a) : users[u].createdAt <= worker[w].at
      BY <1>1, <1>2, <3>1 DEF Served
    <3>3. Served(worker[w])'
      BY <1>1, <1>3, <1>5, <2>1, <2>3, <2>4, <3>2 DEF Served
    <3>4. Overdue(worker[w])'
      BY <1>1, <1>2, <2>1, <2>2, <2>3, <2>4, <3>1 DEF Overdue
    <3> QED
      BY <3>3, <3>4 DEF Good
  <2> QED
    BY <1>1, <2>1, <2>3, <2>4, <2>5, ReaderDoes
<1> QED
  BY <1>4, <1>5

LEMMA LookupDoes ==
  ASSUME ServedInvariant, NEW w \in Workers, Lookup(w)
  PROVE  Does(w)
<1>1. /\ TypeInvariant /\ worker[w].pc = "lookup" /\ worker \in [Workers -> Job] /\ worker[w] \in Job
      /\ UNCHANGED <<accounts, users, lastUid, clock, raced>> /\ InTime
      /\ worker[w].at <= clock
  BY ServedParts DEF Lookup, At, InTime
<1>2. PICK a : a = worker[w].account
  OBVIOUS
<1>3. UidsOf(a)' = UidsOf(a)
  BY <1>1 DEF UidsOf
<1>4. CASE Goto(w, "create")
  <2>1. /\ worker'[w].pc = "create" /\ worker'[w].account = a /\ worker'[w].at = worker[w].at
        /\ worker'[w].late => worker[w].late
    BY <1>1, <1>2, <1>4 DEF Goto, Job
  <2>2. Reads(w)
    BY <1>1, <1>4, Moves DEF Reads
  <2>3. a \notin raced => Good(w)'
    BY <1>1, <1>2, <1>3, <2>1, ServedParts DEF Good, Served, Overdue
  <2> QED
    BY <1>1, <2>1, <2>2, <2>3, ReaderDoes
<1>5. CASE Refuse(w)
  BY <1>1, <1>5, RefusedDoes
<1> QED
  BY <1>4, <1>5 DEF Lookup

(* What the rules let through.                                             *)
LEMMA RulesHold ==
  ASSUME NEW auth \in Auths, NEW user \in SyncUser, NEW stale, Valid(auth, user, stale)
  PROVE  /\ NextGeneration(auth, user) >= user.generation
         /\ NotBelow(NextKeysChangedAt(auth), user.keysChangedAt)
         /\ auth.state \notin stale
         /\ auth.state # user.state /\ user.keysChangedAt # Unreported =>
              NextKeysChangedAt(auth) > user.keysChangedAt
<1>1. /\ auth.keysChangedAt = Unreported \/ auth.keysChangedAt \in Nat
      /\ auth.generation = Unreported \/ auth.generation \in Nat
      /\ user.generation \in Nat /\ user.generation # Unreported
      /\ user.keysChangedAt = Unreported \/ user.keysChangedAt \in Nat
  BY AuthsAssumption DEF Timestamps, SyncUser
<1>2. /\ ~Gt(user.generation, auth.generation) /\ ~Gt(user.keysChangedAt, auth.keysChangedAt)
      /\ auth.keysChangedAt = Unreported => user.keysChangedAt = Unreported
      /\ auth.state \notin stale
      /\ auth.state # user.state => ~Le(auth.keysChangedAt, user.keysChangedAt)
  BY DEF Valid
<1>3. NextGeneration(auth, user) >= user.generation
  BY <1>1, <1>2 DEF NextGeneration, Gt
<1>4. NotBelow(NextKeysChangedAt(auth), user.keysChangedAt)
  BY <1>1, <1>2 DEF NotBelow, NextKeysChangedAt, Gt
<1> QED
  BY <1>1, <1>2, <1>3, <1>4 DEF NextKeysChangedAt, Le

(* A row made or brought up to date as claimed repeats the claim.          *)
LEMMA RowRepeats ==
  ASSUME NEW auth \in Auths, NEW row \in SyncUser, NEW stale, auth.state \notin stale,
         row.state = auth.state, row.keysChangedAt = auth.keysChangedAt,
         auth.generation # Unreported => row.generation = auth.generation
  PROVE  Repeats(auth, row, stale)
<1>1. /\ auth.keysChangedAt = Unreported \/ auth.keysChangedAt \in Nat
      /\ auth.generation = Unreported \/ auth.generation \in Nat
      /\ row.generation \in Nat /\ row.generation # Unreported
  BY AuthsAssumption DEF Timestamps, SyncUser
<1>2. Valid(auth, row, stale)
  BY <1>1 DEF Valid, Gt, Le
<1>3. NextGeneration(auth, row) = row.generation
  BY <1>1 DEF NextGeneration, Gt
<1> QED
  BY <1>2, <1>3 DEF Repeats, NextKeysChangedAt

LEMMA ValidateDoes ==
  ASSUME ServedInvariant, NEW w \in Workers, Validate(w)
  PROVE  Does(w)
<1>1. /\ TypeInvariant /\ worker[w].pc = "reconcile" /\ worker[w].todo = {}
      /\ worker \in [Workers -> Job] /\ worker[w] \in Job /\ InTime /\ RowTypes /\ RowTypes'
      /\ UNCHANGED <<accounts, users, lastUid, clock, raced>> /\ worker[w].at <= clock
      /\ JobFits(worker[w], lastUid)
  BY ServedParts DEF Validate, At, InTime, RowTypes
<1>2. PICK a : a = worker[w].account
  OBVIOUS
<1>3. CASE ~Valid(worker[w].auth, worker[w].user, worker[w].stale)
  BY <1>1, <1>3, RefusedDoes DEF Validate
<1>4. CASE Valid(worker[w].auth, worker[w].user, worker[w].stale)
  <2>1. \E pc \in {"rotate", "update", "answered"} :
          /\ worker'[w].pc = pc
          /\ pc = "rotate" => worker[w].auth.state # worker[w].user.state
          /\ pc = "answered" =>
               /\ worker[w].auth.state = worker[w].user.state
               /\ NextGeneration(worker[w].auth, worker[w].user) = worker[w].user.generation
               /\ NextKeysChangedAt(worker[w].auth) = worker[w].user.keysChangedAt
          /\ worker'[w].account = a /\ worker'[w].at = worker[w].at
          /\ worker'[w].auth = worker[w].auth /\ worker'[w].uid = worker[w].uid
          /\ worker'[w].user = worker[w].user /\ worker'[w].stale = worker[w].stale
          /\ worker'[w].late => worker[w].late
    BY <1>1, <1>2, <1>4 DEF Validate, Goto, Reply, Job
  <2>2. Reads(w)
    BY <1>1, <1>4, Moves DEF Reads, Validate
  <2>3. /\ UidsOf(a)' = UidsOf(a) /\ Retired(a)' = Retired(a) /\ Live(a)' = Live(a)
        /\ UidsOf(a) # {} => Current(a)' = Current(a)
    <3>1. Untouched(a)
      BY <1>1 DEF Untouched, UidsOf
    <3> QED
      BY <1>1, <3>1, UntouchedSo
  <2>4. ASSUME a \notin raced PROVE Good(w)'
    <3>1. Served(worker[w]) /\ ~worker[w].late
      BY <1>1, <1>2, <1>4, <2>4, ServedParts DEF Overdue, Valid
    <3>2. ASSUME a \in accounts
          PROVE  /\ UidsOf(a) # {} /\ worker[w].uid = Current(a)
                 /\ worker[w].user = users[Current(a)] /\ worker[w].stale = Retired(a)
                 /\ Live(a) = {Current(a)}
      <4>1. PICK c : c = Current(a)
        OBVIOUS
      <4>2. /\ UidsOf(a) # {} /\ worker[w].uid = c /\ worker[w].user = users[c]
            /\ worker[w].stale = Retired(a) /\ Live(a) \ {c} = {}
        BY <1>1, <1>2, <3>1, <3>2, <4>1 DEF Served
      <4>3. c \in UidsOf(a) /\ users[c].replacedAt = 0
        BY <1>1, <1>2, <2>4, <4>1, <4>2, ServedParts, CurrentRow
           DEF CurrentIsAhead, Ahead, CurrentLive, JobFits
      <4>4. c \in Live(a)
        BY <4>3 DEF Live
      <4> QED
        BY <4>1, <4>2, <4>4
    <3>3. \A u \in UidsOf(a) : users[u].createdAt <= worker[w].at
      BY <1>1, <1>2, <3>1 DEF Served
    <3>4. Served(worker[w])'
      <4>1. CASE a \notin accounts
        BY <1>1, <1>4, <2>1, <2>3, <3>3, <4>1 DEF Served
      <4>2. CASE a \in accounts
        BY <1>1, <1>4, <2>1, <2>3, <3>2, <3>3, <4>2 DEF Served, Repeats
      <4> QED
        BY <4>1, <4>2
    <3>5. Overdue(worker[w])'
      BY <2>1, <3>1 DEF Overdue
    <3> QED
      BY <3>4, <3>5 DEF Good
  <2> QED
    BY <1>1, <2>1, <2>2, <2>4, ReaderDoes
<1> QED
  BY <1>3, <1>4

-----------------------------------------------------------------------------
(* The statements that write.                                              *)

(* A new row, of an account whose requests do not race.                    *)
LEMMA NewRowSo ==
  ASSUME ServedInvariant, NEW w \in Workers, NEW row \in SyncUser, Insert(row),
         UNCHANGED accounts, worker[w].pc # "idle", NEW a, a = worker[w].account, a \notin raced,
         row.account = a, row.createdAt = worker[w].at, row.replacedAt = 0,
         UidsOf(a) # {} => row.generation >= users[Current(a)].generation
  PROVE  /\ CurrentLive(a)'
         /\ UidsOf(a)' = UidsOf(a) \cup {lastUid'}
         /\ Current(a)' = lastUid' /\ users'[lastUid'] = row
         /\ \A s : s \in Retired(a)' <=> (\E u \in UidsOf(a) : s = users[u].state) /\ s # row.state
         /\ \A u \in UidsOf(a)' : users'[u].createdAt <= worker[w].at
<1>1. TypeInvariant /\ Served(worker[w])
  BY ServedParts
<1>2. /\ DOMAIN users' = DOMAIN users \cup {lastUid'} /\ users'[lastUid'] = row
      /\ \A u \in DOMAIN users : users'[u] = users[u]
  BY <1>1, InsertTyped
<1>3. \A u \in UidsOf(a) : users[u].createdAt <= row.createdAt
  BY <1>1 DEF Served
<1>4. /\ UidsOf(a)' = UidsOf(a) \cup {lastUid'}
      /\ Current(a)' = lastUid'
      /\ \A s : s \in Retired(a)' <=> (\E u \in UidsOf(a) : s = users[u].state) /\ s # row.state
  BY <1>1, <1>3, NewRowLeads
<1>5. row.createdAt \in Nat
  BY DEF SyncUser
<1>6. \A u \in UidsOf(a)' : users'[u].createdAt <= worker[w].at
  BY <1>2, <1>3, <1>4, <1>5 DEF UidsOf
<1> QED
  BY <1>2, <1>4, <1>6 DEF CurrentLive

LEMMA CreateDoes ==
  ASSUME ServedInvariant, NEW w \in Workers, Create(w)
  PROVE  Does(w)
<1>1. /\ TypeInvariant /\ worker[w].pc = "create" /\ JobFits(worker[w], lastUid)
      /\ worker \in [Workers -> Job] /\ worker[w] \in Job
      /\ UNCHANGED <<accounts, clock>> /\ Writes(w)
  BY ServedParts DEF Create, At
<1>2. CASE Refuse(w) /\ UNCHANGED <<users, lastUid, answered>>
  BY <1>1, <1>2, RefusedDoes
<1> DEFINE auth == worker[w].auth
           generation == IF auth.generation = Unreported THEN 0 ELSE auth.generation
<1>3. CASE Insert(Row(w, generation, auth.keysChangedAt)) /\ Reply(w, lastUid')
  <2>1. generation \in Timestamps \cup {0}
    BY <1>1, ClaimFields DEF JobFits
  <2>2. PICK row \in SyncUser : row = Row(w, generation, auth.keysChangedAt)
    <3> HIDE DEF generation
    <3> QED
      BY <1>1, <2>1, RowTyped
  <2>3. PICK a : a = worker[w].account
    OBVIOUS
  <2>4. /\ row.account = a /\ row.createdAt = worker[w].at /\ row.replacedAt = 0
        /\ row.state = auth.state /\ row.keysChangedAt = auth.keysChangedAt
        /\ row.generation = generation
    BY <2>2, <2>3 DEF Row
  <2>5. a \in accounts /\ a \in Accounts /\ Insert(row) /\ auth \in Auths
    BY <1>1, <1>3, <2>2, <2>3, <2>4 DEF Insert, JobFits
  <2>6. /\ worker'[w].pc = "answered" /\ worker'[w].uid = lastUid' /\ worker'[w].account = a
        /\ worker'[w].at = worker[w].at /\ (worker'[w].late => worker[w].late)
        /\ worker'[w].auth = auth
        /\ \A v \in Workers \ {w} : worker'[v] = worker[v]
    BY <1>1, <1>3, <2>3 DEF Reply, Job
  <2>7. Apart(w)
    BY <1>1, <2>3, <2>4, <2>5, <2>6, InsertersApart
  <2>8. ASSUME a \notin raced' PROVE Good(w)' /\ CurrentLive(a)' /\ Goes(a)
    <3>1. a \notin raced /\ UidsOf(a) = {} /\ ~worker[w].late
      BY <1>1, <2>3, <2>5, <2>7, <2>8, ServedParts DEF Apart, Served, Overdue
    <3>2. /\ CurrentLive(a)' /\ UidsOf(a)' = UidsOf(a) \cup {lastUid'}
          /\ Current(a)' = lastUid' /\ users'[lastUid'] = row
          /\ \A s : s \in Retired(a)' <=> (\E u \in UidsOf(a) : s = users[u].state) /\ s # row.state
          /\ \A u \in UidsOf(a)' : users'[u].createdAt <= worker[w].at
      BY <1>1, <2>3, <2>4, <2>5, <3>1, NewRowSo
    <3>3. UidsOf(a)' = {lastUid'} /\ Retired(a)' = {}
      BY <3>1, <3>2
    <3>4. Live(a)' = {lastUid'}
      BY <2>4, <3>2, <3>3 DEF Live
    <3>5. Repeats(auth, row, {})
      BY <2>4, <2>5, RowRepeats
    <3>6. Served(worker[w])'
      BY <2>6, <3>2, <3>3, <3>4, <3>5 DEF Served
    <3>7. Overdue(worker[w])'
      BY <2>6, <3>1 DEF Overdue
    <3>8. Begins(a)
      BY <3>1, <3>3 DEF Begins
    <3> QED
      BY <3>2, <3>6, <3>7, <3>8 DEF Good, Goes
  <2> QED
    BY <2>3, <2>6, <2>7, <2>8 DEF Does
<1> QED
  BY <1>2, <1>3 DEF Create

LEMMA ReconcileDoes ==
  ASSUME ServedInvariant, NEW w \in Workers, Reconcile(w)
  PROVE  Does(w)
<1>1. /\ TypeInvariant /\ RowTypes /\ worker[w].pc = "reconcile" /\ worker[w] \in Job
      /\ JobFits(worker[w], lastUid) /\ worker \in [Workers -> Job] /\ TodoIsOwn
      /\ UNCHANGED <<accounts, lastUid, clock>> /\ Writes(w)
  BY ServedParts DEF Reconcile, At
<1>2. PICK u \in worker[w].todo :
        /\ worker' = [worker EXCEPT ![w].todo = @ \ {u}]
        /\ users' = [v \in DOMAIN users |->
             IF v = u /\ users[v].replacedAt = 0
             THEN [users[v] EXCEPT !.replacedAt = worker[w].user.createdAt] ELSE users[v]]
  BY DEF Reconcile
<1>3. PICK a \in Accounts : a = worker[w].account
  BY <1>1 DEF JobFits
<1>4. worker[w].user.createdAt \in Nat \ {0}
  BY <1>1 DEF JobFits, SyncUser
<1>5. /\ RowsStay
      /\ \A v \in DOMAIN users : users'[v].replacedAt =
           IF v = u /\ users[v].replacedAt = 0 THEN worker[w].user.createdAt ELSE users[v].replacedAt
      /\ \A v \in DOMAIN users : v # u => users'[v] = users[v]
  BY <1>1, <1>2 DEF RowsStay, RowTypes, SyncUser
<1>6. /\ worker'[w].pc = "reconcile" /\ worker'[w].todo = worker[w].todo \ {u}
      /\ worker'[w].account = a /\ worker'[w].at = worker[w].at /\ worker'[w].auth = worker[w].auth
      /\ worker'[w].uid = worker[w].uid /\ worker'[w].user = worker[w].user
      /\ worker'[w].stale = worker[w].stale /\ (worker'[w].late => worker[w].late)
      /\ \A v \in Workers \ {w} : worker'[v] = worker[v]
  BY <1>1, <1>2, <1>3 DEF Job
<1>7. RowTypes' /\ RowsKept
  BY ReconcileTyped, ServedParts, TypeParts DEF TypeInvariant, TableTypes
<1>8. /\ UidsOf(a)' = UidsOf(a) /\ Retired(a)' = Retired(a) /\ Kept(a)
      /\ UidsOf(a) # {} => Current(a)' = Current(a) /\ Current(a) \in UidsOf(a)
  BY <1>1, <1>5, <1>7, RowsStaySo
<1>9. u \in DOMAIN users => users[u].account = a
  BY <1>1, <1>3 DEF TodoIsOwn
<1>10. Apart(w)
  <2>1. \A v \in DOMAIN users : /\ users'[v].createdAt = users[v].createdAt
                                /\ users[v].account # worker[w].account => users'[v] = users[v]
    BY <1>3, <1>5, <1>9 DEF RowsStay
  <2>2. /\ worker'[w].todo \subseteq worker[w].todo /\ worker'[w].account = worker[w].account
        /\ worker[w].pc # "idle" /\ worker'[w].at = worker[w].at
    BY <1>1, <1>3, <1>6
  <2> QED
    BY <1>1, <1>6, <1>7, <2>1, <2>2, ChangersApart
<1>11. ASSUME a \notin raced' PROVE Good(w)' /\ CurrentLive(a)'
  <2>1. Served(worker[w]) /\ Overdue(worker[w]) /\ CurrentLive(a)
    BY <1>3, <1>10, <1>11, ServedParts DEF Apart
  <2>2. Overdue(worker[w])'
    BY <1>1, <1>6, <2>1 DEF Overdue
  <2>3. \A v \in UidsOf(a)' : users'[v].createdAt <= worker'[w].at
    BY <1>1, <1>3, <1>5, <1>6, <1>8, <2>1 DEF Served, UidsOf, RowsStay
  <2>4. CASE a \in accounts
    <3>1. PICK c \in UidsOf(a) :
            /\ c = Current(a) /\ c = Current(a)' /\ worker[w].uid = c /\ worker[w].user = users[c]
            /\ worker[w].stale = Retired(a) /\ worker[w].todo = Live(a) \ {c}
      BY <1>1, <1>3, <1>8, <2>1, <2>4 DEF Served
    <3>2. u \in UidsOf(a) /\ u # c /\ users[u].replacedAt = 0 /\ u \in DOMAIN users
      BY <3>1 DEF Live, UidsOf
    <3>3. Live(a)' = Live(a) \ {u}
      BY <1>4, <1>5, <1>8, <3>2 DEF Live, UidsOf
    <3>4. users'[c] = users[c]
      BY <1>5, <3>1, <3>2 DEF UidsOf
    <3>5. Served(worker[w])'
      BY <1>1, <1>6, <1>8, <2>3, <2>4, <3>1, <3>3, <3>4 DEF Served
    <3>6. CurrentLive(a)'
      BY <1>8, <2>1, <3>1, <3>4 DEF CurrentLive
    <3> QED
      BY <2>2, <3>5, <3>6 DEF Good
  <2>5. CASE a \notin accounts
    <3>1. UidsOf(a)' = {}
      BY <1>8, <2>5, GoneIsEmpty
    <3>2. Served(worker[w])'
      BY <1>1, <1>6, <2>3, <2>5 DEF Served
    <3> QED
      BY <2>2, <3>1, <3>2 DEF Good, CurrentLive
  <2> QED
    BY <2>4, <2>5
<1> QED
  BY <1>3, <1>6, <1>8, <1>10, <1>11 DEF Does, Goes

(* A uid a request holds is one of its own account's, or gone.             *)
LEMMA UidIsOwn ==
  ASSUME ServedInvariant, NEW w \in Workers, worker[w].pc = "update",
         NEW u \in DOMAIN users, u = worker[w].uid
  PROVE  worker[w].account = users[u].account
<1>1. JobClaim(worker[w]) \in Claims /\ Claim(users[u].account, u, users[u].state) \in Claims
  BY DEF Claims, RowClaims, JobClaims, Holding
<1>2. JobClaim(worker[w]).uid = u /\ JobClaim(worker[w]).account = worker[w].account
  BY DEF JobClaim, Claim
<1>3. Claim(users[u].account, u, users[u].state).uid = u
      /\ Claim(users[u].account, u, users[u].state).account = users[u].account
  BY DEF Claim
<1> QED
  BY <1>1, <1>2, <1>3 DEF ServedInvariant, ClaimsInvariant, ClaimsAgree

LEMMA UpdateDoes ==
  ASSUME ServedInvariant, NEW w \in Workers, Update(w)
  PROVE  Does(w)
<1>1. /\ TypeInvariant /\ RowTypes /\ worker[w].pc = "update" /\ worker[w] \in Job
      /\ JobFits(worker[w], lastUid) /\ worker \in [Workers -> Job]
      /\ UNCHANGED <<accounts, lastUid, clock>> /\ Writes(w)
      /\ Reply(w, worker[w].uid)
  BY ServedParts DEF Update, At
<1>2. PICK a \in Accounts : a = worker[w].account
  BY <1>1 DEF JobFits
<1>3. PICK c : c = worker[w].uid
  OBVIOUS
<1>4. PICK auth \in Auths : auth = worker[w].auth
  BY <1>1 DEF JobFits
<1>5. PICK user \in SyncUser : user = worker[w].user
  BY <1>1 DEF JobFits
<1>6. RowTypes' /\ RowsKept
  BY <1>1, UpdateTyped DEF TypeInvariant, TableTypes
<1> DEFINE generation == NextGeneration(auth, user)
           keysChangedAt == NextKeysChangedAt(auth)
<1>7. /\ DOMAIN users' = DOMAIN users
      /\ \A v \in DOMAIN users : v # c => users'[v] = users[v]
      /\ c \in DOMAIN users =>
           users'[c] = [users[c] EXCEPT !.generation = generation,
                                        !.keysChangedAt = keysChangedAt]
  BY <1>3, <1>4, <1>5 DEF Update
<1> HIDE DEF generation, keysChangedAt
<1>8. c \in DOMAIN users =>
        /\ users'[c].account = users[c].account /\ users'[c].state = users[c].state
        /\ users'[c].generation = generation /\ users'[c].keysChangedAt = keysChangedAt
        /\ users'[c].createdAt = users[c].createdAt
        /\ users'[c].replacedAt = users[c].replacedAt /\ users[c].account = a
  <2>1. ASSUME c \in DOMAIN users
        PROVE  users[c] \in SyncUser /\ users[c].account = a
    BY <1>1, <1>2, <1>3, <2>1, UidIsOwn DEF RowTypes
  <2> QED
    BY <1>7, <2>1 DEF SyncUser
<1>9. /\ worker'[w].pc = "answered" /\ worker'[w].account = a /\ worker'[w].uid = c
      /\ worker'[w].at = worker[w].at /\ (worker'[w].late => worker[w].late)
      /\ worker'[w].auth = auth
      /\ \A v \in Workers \ {w} : worker'[v] = worker[v]
  BY <1>1, <1>2, <1>3, <1>4 DEF Reply, Job
<1>10. \A v \in DOMAIN users : /\ users'[v].account = users[v].account
                               /\ users'[v].state = users[v].state
                               /\ users'[v].createdAt = users[v].createdAt
                               /\ users'[v].replacedAt = users[v].replacedAt
  BY <1>7, <1>8
<1>11. Apart(w)
  <2>1. \A v \in DOMAIN users : users[v].account # worker[w].account => users'[v] = users[v]
    BY <1>2, <1>7, <1>8
  <2> QED
    BY <1>1, <1>6, <1>9, <1>10, <2>1, ChangersApart
<1>12. UidsOf(a)' = UidsOf(a) /\ Live(a)' = Live(a)
  BY <1>7, <1>10 DEF UidsOf, Live
<1>13. ASSUME a \notin raced' PROVE Good(w)' /\ CurrentLive(a)' /\ Goes(a)
  <2>1. Served(worker[w]) /\ Overdue(worker[w]) /\ CurrentLive(a)
    BY <1>2, <1>11, <1>13, ServedParts DEF Apart
  <2>2. Overdue(worker[w])'
    BY <1>1, <1>9, <2>1 DEF Overdue
  <2>3. \A v \in UidsOf(a)' : users'[v].createdAt <= worker'[w].at
    BY <1>1, <1>2, <1>9, <1>10, <1>12, <2>1 DEF Served, UidsOf
  <2>4. CASE a \notin accounts
    <3>1. UidsOf(a)' = {}
      BY <1>12, <2>4, GoneIsEmpty
    <3>2. Served(worker[w])'
      BY <1>1, <1>9, <2>3, <2>4 DEF Served
    <3> QED
      BY <2>2, <3>1, <3>2 DEF Good, CurrentLive, Goes
  <2>5. CASE a \in accounts
    <3>1. /\ c = Current(a) /\ c \in UidsOf(a) /\ c \in DOMAIN users /\ users[c] = user
          /\ Live(a) = {c} /\ worker[w].stale = Retired(a) /\ auth.state = user.state
          /\ Valid(auth, user, Retired(a)) /\ users[c].replacedAt = 0
      BY <1>1, <1>2, <1>3, <1>4, <1>5, <2>1, <2>5, CurrentRow
         DEF Served, CurrentIsAhead, Ahead, UidsOf, CurrentLive, JobFits
    <3>2. /\ generation >= user.generation /\ NotBelow(keysChangedAt, user.keysChangedAt)
          /\ auth.state \notin Retired(a)
      BY <3>1, RulesHold DEF generation, keysChangedAt
    <3>3. Retired(a)' = Retired(a) /\ Current(a)' = c
      <4> SUFFICES ASSUME NEW u \in UidsOf(a)
                   PROVE  /\ users'[u].state = users[u].state
                          /\ users'[u].createdAt = users[u].createdAt
                          /\ \/ users'[u].generation = users[u].generation
                             \/ u = Current(a) /\ users'[u].generation >= users[u].generation
        BY <1>1, <1>6, <1>12, <3>1, AccountStays
      <4>1. u \in DOMAIN users
        BY DEF UidsOf
      <4> QED
        BY <1>7, <1>8, <1>10, <3>1, <3>2, <4>1
    <3>4. Repeats(auth, users'[c], Retired(a))
      <4>1. PICK row \in SyncUser : row = users'[c]
        BY <1>6, <1>7, <3>1 DEF RowTypes
      <4>2. /\ row.state = auth.state /\ row.keysChangedAt = auth.keysChangedAt
            /\ auth.generation # Unreported => row.generation = auth.generation
        BY <1>8, <3>1, <4>1 DEF generation, keysChangedAt, NextGeneration, NextKeysChangedAt
      <4> QED
        BY <3>2, <4>1, <4>2, RowRepeats
    <3>5. Served(worker[w])'
      BY <1>9, <1>12, <2>3, <3>1, <3>3, <3>4 DEF Served
    <3>6. CurrentLive(a)'
      BY <1>10, <1>12, <3>1, <3>3 DEF CurrentLive
    <3>7. Advances(a)
      BY <1>8, <1>12, <3>1, <3>2, <3>3 DEF Advances, NotFalling
    <3> QED
      BY <2>2, <3>5, <3>6, <3>7 DEF Good, Goes
  <2> QED
    BY <2>4, <2>5
<1> QED
  BY <1>2, <1>9, <1>11, <1>13 DEF Does

LEMMA RotateDoes ==
  ASSUME ServedInvariant, NEW w \in Workers, Rotate(w)
  PROVE  Does(w)
<1>1. /\ TypeInvariant /\ RowTypes /\ worker[w].pc = "rotate" /\ JobFits(worker[w], lastUid)
      /\ worker \in [Workers -> Job] /\ worker[w] \in Job
      /\ UNCHANGED <<accounts, clock>> /\ Writes(w)
  BY ServedParts DEF Rotate, At
<1>2. CASE worker[w].account \notin accounts /\ Refuse(w) /\ UNCHANGED <<users, lastUid>>
  BY <1>1, <1>2, RefusedDoes
<1>3. PICK auth \in Auths : auth = worker[w].auth
  BY <1>1 DEF JobFits
<1>4. PICK user \in SyncUser : user = worker[w].user
  BY <1>1 DEF JobFits
<1> DEFINE generation == NextGeneration(auth, user)
           keysChangedAt == NextKeysChangedAt(auth)
<1>5. CASE /\ Insert(Row(w, generation, keysChangedAt))
           /\ worker' = [worker EXCEPT ![w].pc = "retire", ![w].uid = lastUid']
  <2>1. generation \in Timestamps \cup {0} /\ keysChangedAt = worker[w].auth.keysChangedAt
    BY <1>3, NextGenerationTyped DEF NextKeysChangedAt
  <2>2. PICK row \in SyncUser : row = Row(w, generation, keysChangedAt)
    <3> HIDE DEF generation, keysChangedAt
    <3> QED
      BY <1>1, <2>1, RowTyped
  <2>3. PICK a : a = worker[w].account
    OBVIOUS
  <2>4. /\ row.account = a /\ row.createdAt = worker[w].at /\ row.replacedAt = 0
        /\ row.state = auth.state /\ row.generation = generation
        /\ row.keysChangedAt = keysChangedAt
    <3> HIDE DEF generation, keysChangedAt
    <3> QED
      BY <1>3, <2>2, <2>3 DEF Row
  <2>5. a \in accounts /\ a \in Accounts /\ Insert(row)
    BY <1>1, <1>5, <2>2, <2>3, <2>4 DEF Insert, JobFits
  <2>6. /\ worker'[w].pc = "retire" /\ worker'[w].uid = lastUid' /\ worker'[w].account = a
        /\ worker'[w].at = worker[w].at /\ (worker'[w].late => worker[w].late)
        /\ worker'[w].auth = auth
        /\ \A v \in Workers \ {w} : worker'[v] = worker[v]
    BY <1>1, <1>3, <1>5, <2>3 DEF Job
  <2>7. Apart(w)
    <3> HIDE DEF generation, keysChangedAt
    <3> QED
      BY <1>1, <2>3, <2>4, <2>5, <2>6, InsertersApart
  <2>8. ASSUME a \notin raced' PROVE Good(w)' /\ CurrentLive(a)' /\ Goes(a)
    <3>1. a \notin raced /\ Served(worker[w]) /\ ~worker[w].late
      BY <1>1, <2>3, <2>5, <2>7, <2>8, ServedParts DEF Apart, Overdue
    <3>2. PICK c \in UidsOf(a) :
            /\ c = Current(a) /\ users[c] = user /\ Valid(auth, user, Retired(a))
            /\ auth.state # user.state
      BY <1>1, <1>3, <1>4, <2>3, <2>5, <3>1, CurrentRow DEF Served, CurrentIsAhead, Ahead
    <3>3. /\ generation >= user.generation /\ NotBelow(keysChangedAt, user.keysChangedAt)
          /\ auth.state \notin Retired(a)
          /\ user.keysChangedAt # Unreported => keysChangedAt > user.keysChangedAt
      BY <3>2, RulesHold
    <3>4. row.keysChangedAt = auth.keysChangedAt
          /\ (auth.generation # Unreported => row.generation = auth.generation)
      BY <2>4 DEF NextGeneration, NextKeysChangedAt
    <3> HIDE DEF generation, keysChangedAt
    <3>5. /\ CurrentLive(a)' /\ UidsOf(a)' = UidsOf(a) \cup {lastUid'}
          /\ Current(a)' = lastUid' /\ users'[lastUid'] = row
          /\ \A s : s \in Retired(a)' <=> (\E u \in UidsOf(a) : s = users[u].state) /\ s # row.state
          /\ \A u \in UidsOf(a)' : users'[u].createdAt <= worker[w].at
      <4>1. UidsOf(a) # {} => row.generation >= users[Current(a)].generation
        BY <2>4, <3>2, <3>3
      <4> QED
        BY <1>1, <2>3, <2>4, <2>5, <3>1, <4>1, NewRowSo
    <3>6. Repeats(auth, row, Retired(a)')
      BY <2>4, <3>4, <3>5, RowRepeats
    <3>7. Served(worker[w])'
      BY <2>6, <3>5, <3>6 DEF Served
    <3>8. Overdue(worker[w])'
      BY <2>6, <3>1 DEF Overdue
    <3>9. Rotates(a)
      <4>1. NotFalling(a)
        BY <2>4, <3>2, <3>3, <3>5 DEF NotFalling
      <4>2. users'[Current(a)'].state = auth.state
        BY <2>4, <3>5
      <4>3. \A s : s \in Retired(a)' <=> s \in Retired(a) \cup {user.state}
        <5>1. \A s : s \in Retired(a) <=> (\E u \in UidsOf(a) : s = users[u].state) /\ s # user.state
          BY <3>2, RetiredRows DEF RetiredAre
        <5> QED
          BY <2>4, <3>2, <3>3, <3>5, <5>1
      <4>4. Retired(a)' = Retired(a) \cup {user.state}
        BY <4>3
      <4>5. users[Current(a)] = user
        BY <3>2
      <4>6. users'[Current(a)'].keysChangedAt = keysChangedAt
        BY <2>4, <3>5
      <4> QED
        BY <3>2, <3>3, <4>1, <4>2, <4>4, <4>5, <4>6 DEF Rotates
    <3> QED
      BY <3>5, <3>7, <3>8, <3>9 DEF Good, Goes
  <2> QED
    BY <2>3, <2>6, <2>7, <2>8 DEF Does
<1> QED
  BY <1>2, <1>3, <1>4, <1>5 DEF Rotate

LEMMA RetireDoes ==
  ASSUME ServedInvariant, NEW w \in Workers, Retire(w)
  PROVE  Does(w)
<1>1. /\ TypeInvariant /\ RowTypes /\ worker[w].pc = "retire" /\ worker[w] \in Job
      /\ JobFits(worker[w], lastUid) /\ worker \in [Workers -> Job]
      /\ UNCHANGED <<accounts, lastUid, clock>> /\ Writes(w)
      /\ Reply(w, worker[w].uid)
  BY ServedParts DEF Retire, At
<1>2. PICK a \in Accounts : a = worker[w].account
  BY <1>1 DEF JobFits
<1>3. PICK c : c = worker[w].uid
  OBVIOUS
<1>4. PICK at \in Nat \ {0} : at = worker[w].at
  BY <1>1 DEF JobFits
<1>5. RowTypes' /\ RowsKept
  BY <1>1, RetireTyped DEF TypeInvariant, TableTypes
<1>6. users' = [v \in DOMAIN users |->
                 IF v \in Live(a) \ {c} THEN [users[v] EXCEPT !.replacedAt = at] ELSE users[v]]
  BY <1>2, <1>3, <1>4 DEF Retire
<1>7. /\ RowsStay
      /\ \A v \in DOMAIN users : users'[v].replacedAt =
           IF v \in Live(a) \ {c} THEN at ELSE users[v].replacedAt
      /\ \A v \in DOMAIN users : users[v].account # a => users'[v] = users[v]
      /\ c \in DOMAIN users => users'[c] = users[c]
  BY <1>1, <1>6 DEF RowsStay, RowTypes, SyncUser, Live, UidsOf
<1>8. /\ worker'[w].pc = "answered" /\ worker'[w].account = a /\ worker'[w].uid = c
      /\ worker'[w].at = worker[w].at /\ (worker'[w].late => worker[w].late)
      /\ worker'[w].auth = worker[w].auth
      /\ \A v \in Workers \ {w} : worker'[v] = worker[v]
  BY <1>1, <1>2, <1>3 DEF Reply, Job
<1>9. Apart(w)
  BY <1>1, <1>2, <1>5, <1>7, <1>8, ChangersApart DEF RowsStay
<1>10. /\ UidsOf(a)' = UidsOf(a) /\ Retired(a)' = Retired(a) /\ Kept(a)
       /\ UidsOf(a) # {} => Current(a)' = Current(a) /\ Current(a) \in UidsOf(a)
  BY <1>1, <1>5, <1>7, RowsStaySo
<1>11. ASSUME a \notin raced' PROVE Good(w)' /\ CurrentLive(a)'
  <2>1. Served(worker[w]) /\ Overdue(worker[w]) /\ CurrentLive(a)
    BY <1>2, <1>9, <1>11, ServedParts DEF Apart
  <2>2. Overdue(worker[w])'
    BY <1>1, <1>8, <2>1 DEF Overdue
  <2>3. \A v \in UidsOf(a)' : users'[v].createdAt <= worker'[w].at
    BY <1>1, <1>2, <1>7, <1>8, <1>10, <2>1 DEF Served, UidsOf, RowsStay
  <2>4. CASE a \notin accounts
    <3>1. UidsOf(a)' = {}
      BY <1>10, <2>4, GoneIsEmpty
    <3>2. Served(worker[w])'
      BY <1>1, <1>8, <2>3, <2>4 DEF Served
    <3> QED
      BY <2>2, <3>1, <3>2 DEF Good, CurrentLive
  <2>5. CASE a \in accounts
    <3>1. /\ c = Current(a) /\ c = Current(a)' /\ c \in UidsOf(a) /\ users[c].replacedAt = 0
          /\ users'[c] = users[c] /\ Repeats(worker[w].auth, users[c], Retired(a))
      BY <1>1, <1>2, <1>3, <1>7, <1>10, <2>1, <2>5 DEF Served, CurrentLive, UidsOf
    <3>2. Live(a)' = {c}
      BY <1>4, <1>7, <1>10, <3>1 DEF Live, UidsOf
    <3>3. Served(worker[w])'
      BY <1>8, <1>10, <2>3, <3>1, <3>2 DEF Served
    <3> QED
      BY <2>2, <3>1, <3>3 DEF Good, CurrentLive
  <2> QED
    BY <2>4, <2>5
<1> QED
  BY <1>2, <1>8, <1>9, <1>10, <1>11 DEF Does, Goes

-----------------------------------------------------------------------------
(* Every step.                                                             *)

(* The step goes for one account; nothing happens to the others.           *)
VersionsMove ==
  \E a : /\ raced \subseteq raced' /\ raced' \subseteq raced \cup {a}
         /\ a \in Accounts \ raced' => Goes(a)
         /\ \A b \in Accounts \ {a} : Kept(b)

LEMMA RequestServed ==
  ASSUME ServedInvariant, ClaimsInvariant', NEW w \in Workers, Does(w)
  PROVE  ServedInvariant' /\ VersionsMove
<1>1. /\ RowTypes /\ RowTypes' /\ Apart(w)
      /\ \A a \in Accounts \ raced : CurrentLive(a)
      /\ \A v \in Workers : worker[v].account \notin raced => Good(v)
  BY ServedParts DEF Does, ServedInvariant, ClaimsInvariant, TypeInvariant, TableTypes
<1>2. PICK a : a = worker[w].account
  OBVIOUS
<1>3. ASSUME NEW b \in Accounts \ raced' PROVE CurrentLive(b)'
  <2>1. CASE b = a
    BY <1>2, <1>3, <2>1 DEF Does
  <2>2. CASE b # a
    BY <1>1, <1>2, <1>3, <2>2, UntouchedSo DEF Apart
  <2> QED
    BY <2>1, <2>2
<1>4. ASSUME NEW v \in Workers, worker'[v].account \notin raced' PROVE Good(v)'
  <2>1. CASE v = w
    BY <1>4, <2>1 DEF Does
  <2>2. CASE v # w
    <3>1. PICK b : b = worker[v].account
      OBVIOUS
    <3>2. worker'[v] = worker[v] /\ b \notin raced' /\ b \notin raced
      BY <1>1, <1>4, <2>2, <3>1 DEF Apart
    <3>3. Untouched(b) /\ Good(v)
      BY <1>1, <2>2, <3>1, <3>2 DEF Apart
    <3> QED
      BY <1>1, <3>1, <3>2, <3>3, GoodStays
  <2> QED
    BY <2>1, <2>2
<1>5. VersionsMove
  <2>1. \A b \in Accounts \ {a} : Kept(b)
    BY <1>1, <1>2, UntouchedSo DEF Apart
  <2>2. a \in Accounts \ raced' => Goes(a)
    BY <1>2 DEF Does
  <2> QED
    BY <1>1, <1>2, <2>1, <2>2 DEF VersionsMove, Apart
<1>6. ServedInvariant'
  BY <1>1, <1>3, <1>4 DEF ServedInvariant, Apart
<1> QED
  BY <1>5, <1>6

LEMMA RemoveAccountServed ==
  ASSUME ServedInvariant, ClaimsInvariant', NEW a \in Accounts, RemoveAccount(a)
  PROVE  ServedInvariant' /\ VersionsMove
<1>1. /\ InTime /\ TodoIsOwn /\ RowTypes /\ RowTypes'
      /\ \A b \in Accounts \ raced : CurrentLive(b)
      /\ \A v \in Workers : worker[v].account \notin raced => Good(v)
  BY DEF ServedInvariant, ClaimsInvariant, TypeInvariant, TableTypes
<1>2. /\ DOMAIN users' = DOMAIN users \ UidsOf(a)
      /\ \A u \in DOMAIN users' : users'[u] = users[u]
      /\ accounts' = accounts \ {a} /\ UNCHANGED <<lastUid, clock, worker, raced>>
  BY DEF RemoveAccount
<1>3. UidsOf(a)' = {}
  BY <1>2 DEF UidsOf
<1>4. ASSUME NEW b, b # a PROVE Untouched(b)
  BY <1>2, <1>4 DEF UidsOf, Untouched
<1>5. InTime' /\ TodoIsOwn'
  BY <1>1, <1>2 DEF InTime, TodoIsOwn
<1>6. ASSUME NEW b \in Accounts \ raced' PROVE CurrentLive(b)'
  <2>1. CASE b = a
    BY <1>3, <2>1 DEF CurrentLive
  <2>2. CASE b # a
    BY <1>1, <1>2, <1>4, <1>6, <2>2, UntouchedSo
  <2> QED
    BY <2>1, <2>2
<1>7. ASSUME NEW v \in Workers, worker'[v].account \notin raced' PROVE Good(v)'
  <2>1. Good(v) /\ worker'[v] = worker[v]
    BY <1>1, <1>2, <1>7
  <2>2. CASE worker[v].account # a
    BY <1>1, <1>4, <2>1, <2>2, GoodStays
  <2>3. CASE worker[v].account = a
    <3>1. a \notin accounts'
      BY <1>2
    <3>2. Served(worker[v])'
      BY <1>3, <2>1, <2>3, <3>1 DEF Served, Good
    <3>3. Overdue(worker[v])'
      BY <2>1, <2>3, <3>1 DEF Overdue, Good
    <3> QED
      BY <3>2, <3>3 DEF Good
  <2> QED
    BY <2>2, <2>3
<1>8. VersionsMove
  <2>1. \A b \in Accounts \ {a} : Kept(b)
    BY <1>1, <1>4, UntouchedSo
  <2> QED
    BY <1>2, <1>3, <2>1 DEF VersionsMove, Goes
<1> QED
  BY <1>5, <1>6, <1>7, <1>8 DEF ServedInvariant

(* A crash, or the passing of time, leaves the tables.                     *)
LEMMA RestServed ==
  ASSUME ServedInvariant, ClaimsInvariant', UNCHANGED <<accounts, users, lastUid, raced>>,
         \/ UNCHANGED worker /\ clock' \in {clock, clock + 1}
         \/ clock' = clock /\ \A w \in Workers : worker'[w] = Idle
  PROVE  ServedInvariant' /\ VersionsMove
<1>1. /\ InTime /\ TodoIsOwn /\ RowTypes /\ RowTypes' /\ clock \in Nat
      /\ \A b \in Accounts \ raced : CurrentLive(b)
      /\ \A v \in Workers : worker[v].account \notin raced => Good(v)
      /\ worker \in [Workers -> Job]
  BY BoundsAssumption DEF ServedInvariant, ClaimsInvariant, TypeInvariant, TableTypes
<1>2. \A b : Untouched(b)
  BY DEF Untouched, UidsOf
<1>3. VersionsMove
  <2>1. \A b : Kept(b)
    BY <1>1, <1>2, UntouchedSo
  <2> QED
    BY <2>1 DEF VersionsMove, Goes
<1>4. \A b \in Accounts \ raced' : CurrentLive(b)'
  BY <1>1, <1>2, UntouchedSo
<1>5. CASE UNCHANGED worker /\ clock' \in {clock, clock + 1}
  <2>1. /\ \A u \in DOMAIN users : users[u].createdAt \in Nat
        /\ \A w \in Workers : worker[w].at \in Nat
    BY <1>1, RowFields, BoundsAssumption DEF Job
  <2>2. InTime' /\ TodoIsOwn'
    BY <1>1, <1>5, <2>1 DEF InTime, TodoIsOwn
  <2>3. \A v \in Workers : worker'[v].account \notin raced' => Good(v)'
    BY <1>1, <1>2, <1>5, GoodStays
  <2> QED
    BY <1>3, <1>4, <2>2, <2>3 DEF ServedInvariant
<1>6. CASE clock' = clock /\ \A w \in Workers : worker'[w] = Idle
  <2>1. \A w \in Workers : Good(w)' /\ worker'[w].pc = "idle"
    BY <1>6, IdleGood
  <2>2. InTime' /\ TodoIsOwn'
    BY <1>1, <1>6, <2>1 DEF InTime, TodoIsOwn
  <2> QED
    BY <1>3, <1>4, <2>1, <2>2 DEF ServedInvariant
<1> QED
  BY <1>5, <1>6

LEMMA ServedStart == Init => ServedInvariant
<1> SUFFICES ASSUME Init PROVE ServedInvariant
  OBVIOUS
<1>1. \A w \in Workers : Good(w)
  BY DEF Init, Good, Served, Overdue, Idle
<1>2. InTime /\ TodoIsOwn /\ \A a : CurrentLive(a)
  BY DEF Init, InTime, TodoIsOwn, CurrentLive, Idle, UidsOf
<1> QED
  BY <1>1, <1>2, ClaimsStart DEF ServedInvariant

LEMMA ServedStep ==
  ASSUME ServedInvariant, [Next]_vars
  PROVE  ServedInvariant' /\ VersionsMove
<1>1. ClaimsInvariant'
  BY ClaimsStep DEF ServedInvariant
<1>2. ASSUME NEW w \in Workers, Request(w) PROVE Does(w)
  <2>1. CASE Done(w)
    BY <2>1, RefusedDoes DEF Done
  <2> QED
    BY <1>2, <2>1, ArriveDoes, ReadDoes, LookupDoes, CreateDoes, ReconcileDoes, ValidateDoes,
       UpdateDoes, RotateDoes, RetireDoes DEF Request
<1>3. ASSUME NEW w \in Workers, Request(w) PROVE ServedInvariant' /\ VersionsMove
  BY <1>1, <1>2, <1>3, RequestServed
<1>4. CASE Crash
  BY <1>1, <1>4, RestServed DEF Crash
<1>5. CASE Tick \/ UNCHANGED vars
  BY <1>1, <1>5, RestServed DEF Tick, vars
<1>6. ASSUME NEW a \in Accounts, RemoveAccount(a) PROVE ServedInvariant' /\ VersionsMove
  BY <1>1, <1>6, RemoveAccountServed
<1> QED
  BY <1>3, <1>4, <1>5, <1>6 DEF Next

LEMMA ServedHolds == Spec => []ServedInvariant
<1>1. ServedInvariant /\ [Next]_vars => ServedInvariant'
  BY ServedStep
<1> QED
  BY <1>1, ServedStart, PTL DEF Spec

(* However many requests are served at once: unless the account's own       *)
(* raced, what is handed out is its one live row and the one the next      *)
(* request will read, whatever a crash between a rotation's two statements *)
(* left behind: the reconciliation finishes it.                            *)
THEOREM AnsweredRowIsLive == Spec => []OneLiveRow
<1>1. ServedInvariant => OneLiveRow
  BY DEF ServedInvariant, Good, Served, OneLiveRow, At
<1> QED
  BY <1>1, ServedHolds, PTL

(* However many requests are served at once, and whatever they claim: a key *)
(* given up is accepted again only if requests of its account raced.       *)
THEOREM RetiredIsRefused == Spec => []OldKeyIsRefused
<1>1. ServedInvariant => OldKeyIsRefused
  BY DEF ServedInvariant, Good, Overdue, OldKeyIsRefused, At
<1> QED
  BY <1>1, ServedHolds, PTL

(* However many requests are served at once: unless the account's own       *)
(* raced, a claim that is in the table is accepted again, and changes      *)
(* nothing, so that a client whose reply was lost is not locked out.       *)
THEOREM RepeatsAreAccepted == Spec => []RepeatIsAccepted
<1>1. ServedInvariant => RepeatIsAccepted
  <2> SUFFICES ASSUME ServedInvariant, NEW w \in Workers,
                      worker[w].pc \in {"retire", "answered"},
                      worker[w].account \in accounts \ raced
               PROVE  LET auth == worker[w].auth
                          user == users[Current(worker[w].account)] IN
                      /\ Current(worker[w].account) = worker[w].uid /\ auth.state = user.state
                      /\ Valid(auth, user, Retired(worker[w].account))
                      /\ NextGeneration(auth, user) = user.generation
                      /\ NextKeysChangedAt(auth) = user.keysChangedAt
    BY DEF RepeatIsAccepted
  <2>1. Served(worker[w])
    BY DEF ServedInvariant, Good
  <2> QED
    BY <2>1 DEF Served, Repeats
<1> QED
  BY <1>1, ServedHolds, PTL

-----------------------------------------------------------------------------
(* What the steps are to KeyVersions.                                      *)

LEMMA VersionTyped ==
  ASSUME ServedInvariant, NEW a \in Accounts, UidsOf(a) # {}, a \notin raced
  PROVE  /\ AcceptedVersion(a) \in Versions!Version
         /\ AcceptedVersion(a).state = users[Current(a)].state
         /\ AcceptedVersion(a).generation = users[Current(a)].generation
         /\ AcceptedVersion(a).keysChangedAt = users[Current(a)].keysChangedAt
         /\ AcceptedVersion(a).state # Unreported
<1>1. RowTypes
  BY TypeParts DEF ServedInvariant, ClaimsInvariant, TableTypes
<1>2. PICK row \in SyncUser : row = users[Current(a)]
  BY <1>1, CurrentRow DEF CurrentIsAhead, Ahead, UidsOf, RowTypes
<1>3. AcceptedVersion(a) = [state |-> row.state, generation |-> row.generation,
                            keysChangedAt |-> row.keysChangedAt]
  BY <1>2 DEF AcceptedVersion
<1>4. row.state # Unreported
  BY AuthsAssumption DEF SyncUser, ClientStates
<1> QED
  BY <1>2, <1>3, <1>4 DEF SyncUser, Versions!Version

VersionTypesAre ==
  ServedInvariant =>
    \A a \in Accounts \ raced : UidsOf(a) # {} =>
      /\ AcceptedVersion(a) \in Versions!Version
      /\ AcceptedVersion(a).state = users[Current(a)].state
      /\ AcceptedVersion(a).generation = users[Current(a)].generation
      /\ AcceptedVersion(a).keysChangedAt = users[Current(a)].keysChangedAt
      /\ AcceptedVersion(a).state # Unreported

LEMMA VersionTypes == VersionTypesAre /\ VersionTypesAre'
<1>1. VersionTypesAre
  BY VersionTyped DEF VersionTypesAre
<1> QED
  BY <1>1, PTL

(* The version of an account without one.                                 *)
NoneAccepted ==
  [state |-> Unreported, generation |-> 0, keysChangedAt |-> Unreported]

LEMMA NoVersions ==
  ASSUME NEW a \in Accounts
  PROVE  /\ a \in raced \/ UidsOf(a) = {} =>
              AcceptedVersion(a) = NoneAccepted /\ GivenUp(a) = {}
         /\ a \in raced' \/ UidsOf(a)' = {} =>
              AcceptedVersion(a)' = NoneAccepted /\ GivenUp(a)' = {}
<1>1. /\ a \in raced \/ UidsOf(a) = {} => AcceptedVersion(a) = NoneAccepted
      /\ a \in raced' \/ UidsOf(a)' = {} => AcceptedVersion(a)' = NoneAccepted
  BY DEF AcceptedVersion, NoneAccepted
<1>2. /\ UidsOf(a) = {} => Retired(a) = {}
      /\ UidsOf(a)' = {} => Retired(a)' = {}
  BY DEF Retired
<1> QED
  BY <1>1, <1>2 DEF GivenUp

(* An account nothing happened to keeps its version.                       *)
LEMMA VersionKept ==
  ASSUME ServedInvariant, ServedInvariant', NEW a \in Accounts, Kept(a),
         a \in raced' <=> a \in raced
  PROVE  AcceptedVersion(a)' = AcceptedVersion(a) /\ GivenUp(a)' = GivenUp(a)
<1>1. CASE a \in raced \/ UidsOf(a) = {}
  BY <1>1, NoVersions DEF Kept
<1>2. CASE a \notin raced /\ UidsOf(a) # {}
  BY <1>2 DEF Kept, AcceptedVersion, GivenUp
<1> QED
  BY <1>1, <1>2

(* What one step does to the versions, KeyVersions allows.                 *)
LEMMA VersionsStep ==
  ASSUME ServedInvariant, ServedInvariant', VersionsMove
  PROVE  [Versions!Next]_<<[a \in Accounts |-> AcceptedVersion(a)],
                           [a \in Accounts |-> GivenUp(a)]>>
<1> DEFINE version == [a \in Accounts |-> AcceptedVersion(a)]
           retired == [a \in Accounts |-> GivenUp(a)]
<1>1. PICK a : /\ raced \subseteq raced' /\ raced' \subseteq raced \cup {a}
               /\ a \in Accounts \ raced' => Goes(a)
               /\ \A b \in Accounts \ {a} : Kept(b)
  BY DEF VersionsMove
<1>2. \A b \in Accounts \ {a} :
        AcceptedVersion(b)' = AcceptedVersion(b) /\ GivenUp(b)' = GivenUp(b)
  BY <1>1, VersionKept
<1>3. CASE a \notin Accounts
  <2>1. version' = version /\ retired' = retired
    BY <1>2, <1>3
  <2> QED
    BY <2>1
<1>4. CASE a \in Accounts
  <2>1. /\ version' = [version EXCEPT ![a] = AcceptedVersion(a)']
        /\ version'[a] = AcceptedVersion(a)'
        /\ retired' = [retired EXCEPT ![a] = GivenUp(a)']
        /\ version[a] = AcceptedVersion(a) /\ retired[a] = GivenUp(a)
    BY <1>2, <1>4
  <2>2. CASE a \in raced' \/ UidsOf(a)' = {}
    <3>1. /\ version' = [version EXCEPT ![a] = Versions!NoVersion]
          /\ retired' = [retired EXCEPT ![a] = {}]
      BY <1>4, <2>1, <2>2, NoVersions DEF NoneAccepted, Versions!NoVersion
    <3>2. Versions!Remove(a)
      BY <3>1 DEF Versions!Remove
    <3> QED
      BY <1>4, <3>2 DEF Versions!Next
  <2>3. ASSUME a \notin raced', UidsOf(a)' # {},
               \/ Versions!First(a, AcceptedVersion(a)')
               \/ Versions!Advance(a, AcceptedVersion(a)')
               \/ Versions!Rotate(a, AcceptedVersion(a)')
        PROVE  Versions!Next
    <3>1. /\ version'[a] \in Versions!Version
          /\ \/ Versions!First(a, version'[a])
             \/ Versions!Advance(a, version'[a])
             \/ Versions!Rotate(a, version'[a])
          /\ version' = [version EXCEPT ![a] = version'[a]]
      BY <1>4, <2>1, <2>3, VersionTypes DEF VersionTypesAre
    <3> QED
      BY <1>4, <3>1 DEF Versions!Next
  <2>4. ASSUME a \notin raced', UidsOf(a)' # {}
        PROVE  Versions!Next \/ (version' = version /\ retired' = retired)
    <3>1. /\ a \notin raced /\ Goes(a)
          /\ GivenUp(a) = Retired(a) /\ GivenUp(a)' = Retired(a)'
      BY <1>1, <1>4, <2>4 DEF GivenUp
    <3>2. UidsOf(a) # {} => /\ AcceptedVersion(a) # Versions!NoVersion
                            /\ AcceptedVersion(a).state = users[Current(a)].state
                            /\ AcceptedVersion(a).generation = users[Current(a)].generation
                            /\ AcceptedVersion(a).keysChangedAt = users[Current(a)].keysChangedAt
      BY <1>4, <3>1, VersionTyped DEF Versions!NoVersion
    <3>3. /\ AcceptedVersion(a)' \in Versions!Version
          /\ AcceptedVersion(a)'.state = users'[Current(a)'].state
          /\ AcceptedVersion(a)'.generation = users'[Current(a)'].generation
          /\ AcceptedVersion(a)'.keysChangedAt = users'[Current(a)'].keysChangedAt
      BY <1>4, <2>4, VersionTypes DEF VersionTypesAre
    <3>4. CASE Kept(a)
      BY <1>4, <2>1, <2>4, <3>1, <3>4, VersionKept
    <3>5. CASE Begins(a)
      <4>1. version[a] = Versions!NoVersion /\ retired[a] = {} /\ retired' = retired
        <5>1. UidsOf(a) = {} /\ GivenUp(a)' = {}
          BY <3>1, <3>5 DEF Begins
        <5>2. AcceptedVersion(a) = NoneAccepted /\ GivenUp(a) = {}
          BY <1>4, <5>1, NoVersions
        <5> QED
          BY <2>1, <5>1, <5>2 DEF NoneAccepted, Versions!NoVersion
      <4>2. Versions!First(a, AcceptedVersion(a)')
        BY <4>1 DEF Versions!First
      <4> QED
        BY <2>3, <2>4, <4>2
    <3>6. CASE Advances(a)
      <4>1. /\ version[a] # Versions!NoVersion /\ retired' = retired
            /\ AcceptedVersion(a)'.state = version[a].state
            /\ AcceptedVersion(a)'.generation >= version[a].generation
            /\ Versions!NotBelow(AcceptedVersion(a)'.keysChangedAt, version[a].keysChangedAt)
        BY <2>1, <3>1, <3>2, <3>3, <3>6 DEF Advances, NotFalling, NotBelow, Versions!NotBelow
      <4>2. Versions!Advance(a, AcceptedVersion(a)')
        BY <4>1 DEF Versions!Advance
      <4> QED
        BY <2>3, <2>4, <4>2
    <3>7. CASE Rotates(a)
      <4>1. /\ version[a] # Versions!NoVersion
            /\ retired' = [retired EXCEPT ![a] = @ \cup {version[a].state}]
            /\ AcceptedVersion(a)'.state \notin retired[a] \cup {version[a].state}
            /\ AcceptedVersion(a)'.generation >= version[a].generation
            /\ Versions!NotBelow(AcceptedVersion(a)'.keysChangedAt, version[a].keysChangedAt)
            /\ version[a].keysChangedAt # Unreported =>
                 AcceptedVersion(a)'.keysChangedAt > version[a].keysChangedAt
        BY <2>1, <3>1, <3>2, <3>3, <3>7 DEF Rotates, NotFalling, NotBelow, Versions!NotBelow
      <4>2. Versions!Rotate(a, AcceptedVersion(a)')
        BY <4>1 DEF Versions!Rotate
      <4> QED
        BY <2>3, <2>4, <4>2
    <3> QED
      BY <2>4, <3>1, <3>4, <3>5, <3>6, <3>7 DEF Goes
  <2> QED
    BY <2>2, <2>4
<1> QED
  BY <1>3, <1>4

(* However many requests are served at once, through rotations, crashes     *)
(* between any two statements and the removal of accounts: the version     *)
(* accepted of the keys of each account whose own requests did not race    *)
(* only moves forward, as KeyVersions promises.                            *)
THEOREM TokenServerKeepsVersions == Spec => ImplementsKeyVersions
<1> DEFINE version == [a \in Accounts |-> AcceptedVersion(a)]
           retired == [a \in Accounts |-> GivenUp(a)]
<1>1. Init => Versions!Init
  BY NoVersions DEF Init, Versions!Init, NoneAccepted, Versions!NoVersion, UidsOf
<1>2. ServedInvariant /\ [Next]_vars => ServedInvariant' /\ VersionsMove
  BY ServedStep
<1>3. ServedInvariant /\ ServedInvariant' /\ VersionsMove => [Versions!Next]_<<version, retired>>
  BY VersionsStep
<1>4. Init => ServedInvariant
  BY ServedStart
<1> QED
  BY <1>1, <1>2, <1>3, <1>4, PTL DEF ImplementsKeyVersions, Versions!Spec, Spec

-----------------------------------------------------------------------------
(* Any number of threads, and clients that report their account's          *)
(* generation: it rises with every change of the password, so that those   *)
(* one key is claimed with all lie on one side of those of another.        *)

Generations(s) == {auth.generation : auth \in {x \in Auths : x.state = s}}
Precedes(s, t) == \A g \in Generations(s), h \in Generations(t) : g < h

OrderedClaims ==
  /\ \A auth \in Auths : auth.generation # Unreported
  /\ \A s, t \in ClientStates : s # t => Precedes(s, t) \/ Precedes(t, s)

(* A row has a generation its key was claimed with.                        *)
RowsReport == \A u \in DOMAIN users : users[u].generation \in Generations(users[u].state)

(* The account has had a key since the one that is claimed.                *)
Superseded(a, s) == \E u \in UidsOf(a) : Precedes(s, users[u].state)

(* A request that came with a key given up gets no further than the rules. *)
Behind(job) ==
  job.late =>
    /\ job.pc \in {"read", "lookup", "reconcile"}
    /\ job.pc = "read" => job.account \notin accounts \/ Superseded(job.account, job.auth.state)
    /\ job.pc = "lookup" => job.account \notin accounts
    /\ job.pc = "reconcile" =>
         job.user.state # job.auth.state /\ job.auth.generation <= job.user.generation

OrderedInvariant ==
  /\ ClaimsInvariant
  /\ RowsReport
  /\ \A w \in Workers : Behind(worker[w])

(* What every step leaves of the tables: a row of an account that is not   *)
(* removed stays, for the key it was made for.                             *)
RowsRemain ==
  /\ accounts' \subseteq accounts
  /\ \A u \in DOMAIN users : users[u].account \in accounts' =>
       u \in DOMAIN users' /\ users'[u].account = users[u].account
                           /\ users'[u].state = users[u].state

LEMMA StaysBehind ==
  ASSUME TypeInvariant, RowsRemain, NEW w \in Workers, Behind(worker[w]), worker'[w] = worker[w]
  PROVE  Behind(worker[w])'
<1>1. ASSUME NEW a, NEW s, a \in accounts', Superseded(a, s)
      PROVE  \E u \in DOMAIN users' : users'[u].account = a /\ Precedes(s, users'[u].state)
  BY <1>1 DEF Superseded, UidsOf, RowsRemain
<1> QED
  BY <1>1 DEF Behind, RowsRemain, Superseded, UidsOf

(* The other threads are behind as they were.                              *)
LEMMA OrderedMoves ==
  ASSUME OrderedInvariant, ClaimsInvariant', RowsRemain, RowsReport', NEW w \in Workers,
         \A v \in Workers \ {w} : worker'[v] = worker[v], Behind(worker[w])'
  PROVE  OrderedInvariant'
<1>1. TypeInvariant /\ \A v \in Workers : Behind(worker[v])
  BY DEF OrderedInvariant, ClaimsInvariant
<1>2. ASSUME NEW v \in Workers PROVE Behind(worker[v])'
  BY <1>1, StaysBehind
<1> QED
  BY <1>2 DEF OrderedInvariant

LEMMA TablesRemain ==
  ASSUME OrderedInvariant, UNCHANGED <<accounts, users>>
  PROVE  RowsRemain /\ RowsReport'
BY DEF OrderedInvariant, RowsRemain, RowsReport

LEMMA RestsBehind ==
  ASSUME OrderedInvariant, ClaimsInvariant', NEW w \in Workers, Refuse(w),
         UNCHANGED <<accounts, users>>
  PROVE  OrderedInvariant'
<1>1. worker'[w] = Idle /\ (\A v \in Workers \ {w} : worker'[v] = worker[v])
  BY TypeParts DEF Refuse, OrderedInvariant, ClaimsInvariant
<1>2. Behind(worker[w])'
  BY <1>1 DEF Behind, Idle
<1> QED
  BY <1>1, <1>2, OrderedMoves, TablesRemain

(* A thread that is answered, or made a row, had come with no such key.    *)
LEMMA NotLate ==
  ASSUME OrderedInvariant, NEW w \in Workers,
         worker[w].pc \notin {"read", "lookup", "reconcile"}
  PROVE  ~worker[w].late
BY DEF OrderedInvariant, Behind

LEMMA ReportedGeneration ==
  ASSUME OrderedClaims, NEW auth \in Auths
  PROVE  /\ auth.generation \in Generations(auth.state) /\ auth.generation \in Nat
         /\ auth.generation # Unreported
         /\ \A user : NextGeneration(auth, user) = auth.generation
<1>1. auth.generation # Unreported
  BY DEF OrderedClaims
<1>2. \A user : NextGeneration(auth, user) = auth.generation
  BY <1>1 DEF NextGeneration
<1> QED
  BY <1>1, <1>2, ClaimFields DEF Generations

LEMMA ArriveBehind ==
  ASSUME OrderedClaims, OrderedInvariant, ClaimsInvariant', NEW w \in Workers, NEW a \in Accounts,
         NEW auth \in Auths, Arrive(w, a, auth)
  PROVE  OrderedInvariant'
<1>1. PICK late : late = (auth.state \in Retired(a))
  OBVIOUS
<1>2. /\ worker'[w].pc = "read" /\ worker'[w].account = a /\ worker'[w].auth = auth
      /\ (worker'[w].late <=> auth.state \in Retired(a))
      /\ \A v \in Workers \ {w} : worker'[v] = worker[v]
  <2>1. /\ worker'[w] = [Idle EXCEPT !.pc = "read", !.account = a, !.auth = auth, !.at = clock,
                                     !.late = late]
        /\ \A v \in Workers \ {w} : worker'[v] = worker[v]
    BY <1>1, TypeParts DEF Arrive, OrderedInvariant, ClaimsInvariant
  <2> QED
    BY <1>1, <2>1 DEF Idle
<1>3. UNCHANGED <<accounts, users>> /\ RowTypes /\ RowsReport
  BY TypeParts DEF Arrive, OrderedInvariant, ClaimsInvariant, TableTypes
<1>4. ASSUME auth.state \in Retired(a)
      PROVE  Superseded(a, auth.state)
  <2> DEFINE c == Current(a)
  <2>1. PICK u \in UidsOf(a) : users[u].state = auth.state /\ auth.state # users[c].state
    BY <1>4, RetiredRows DEF RetiredAre
  <2>2. c \in UidsOf(a) /\ (c = u \/ Before(c, u))
    BY <1>3, <2>1, CurrentRow DEF CurrentIsAhead, Ahead
  <2> HIDE DEF c
  <2>3. u \in DOMAIN users /\ c \in DOMAIN users
    BY <2>1, <2>2 DEF UidsOf
  <2>4. /\ users[u].generation \in Nat /\ users[c].generation \in Nat
        /\ users[c].generation >= users[u].generation
    BY <1>3, <2>2, <2>3, RowFields DEF Before
  <2>5. ~Precedes(users[c].state, auth.state)
    BY <1>3, <2>1, <2>3, <2>4 DEF Precedes, RowsReport
  <2>6. users[c].state \in ClientStates /\ auth.state \in ClientStates
    BY <1>3, <2>3, RowFields, ClaimFields
  <2>7. Precedes(auth.state, users[c].state)
    BY <2>1, <2>5, <2>6 DEF OrderedClaims
  <2> QED
    BY <2>2, <2>7 DEF Superseded
<1>5. Behind(worker[w])'
  BY <1>2, <1>3, <1>4 DEF Behind, Superseded, UidsOf
<1> QED
  BY <1>2, <1>3, <1>5, OrderedMoves, TablesRemain

LEMMA ReadBehind ==
  ASSUME OrderedClaims, OrderedInvariant, ClaimsInvariant', NEW w \in Workers, Read(w)
  PROVE  OrderedInvariant'
<1> DEFINE a == worker[w].account
<1>1. /\ TypeInvariant /\ RowTypes /\ RowsReport /\ worker[w].pc = "read"
      /\ worker \in [Workers -> Job] /\ worker[w] \in Job /\ JobFits(worker[w], lastUid)
      /\ UNCHANGED <<accounts, users>> /\ Behind(worker[w])
      /\ \A u \in DOMAIN users : users[u].account \in accounts
  BY TypeParts DEF Read, At, OrderedInvariant, ClaimsInvariant, TableTypes
<1>2. worker[w].late => a \notin accounts \/ Superseded(a, worker[w].auth.state)
  BY <1>1 DEF Behind
<1>3. CASE UidsOf(a) = {}
  <2>1. worker' = [worker EXCEPT ![w].pc = "lookup"]
    BY <1>3 DEF Read, Goto
  <2>2. /\ worker'[w].pc = "lookup" /\ worker'[w].account = a /\ worker'[w].late = worker[w].late
        /\ \A v \in Workers \ {w} : worker'[v] = worker[v]
    BY <1>1, <2>1 DEF Job
  <2>3. Behind(worker[w])'
    BY <1>1, <1>2, <1>3, <2>2 DEF Behind, Superseded
  <2> QED
    BY <1>1, <2>2, <2>3, OrderedMoves, TablesRemain
<1>4. CASE UidsOf(a) # {}
  <2> DEFINE c == Current(a)
             job == [worker[w] EXCEPT !.pc = "reconcile", !.uid = Current(a),
                       !.user = users[Current(a)], !.todo = Live(a) \ {Current(a)},
                       !.stale = Retired(a)]
  <2>1. /\ worker' = [worker EXCEPT ![w] = job]
        /\ job.pc = "reconcile" /\ job.auth = worker[w].auth /\ job.user = users[c]
    BY <1>1, <1>4, ReadSees
  <2>2. job.late = worker[w].late
    BY <1>1 DEF Job
  <2> HIDE DEF job
  <2>3. worker'[w] = job /\ \A v \in Workers \ {w} : worker'[v] = worker[v]
    BY <1>1, <2>1
  <2>4. ASSUME worker[w].late
        PROVE  users[c].state # worker[w].auth.state
               /\ worker[w].auth.generation <= users[c].generation
    <3> DEFINE s == worker[w].auth.state
               g == worker[w].auth.generation
    <3>1. a \in accounts
      BY <1>1, <1>4 DEF UidsOf
    <3>2. PICK u \in UidsOf(a) : Precedes(s, users[u].state)
      BY <1>2, <2>4, <3>1 DEF Superseded
    <3>3. c \in UidsOf(a) /\ (c = u \/ Before(c, u))
      BY <1>1, <1>4, <3>2, CurrentRow DEF CurrentIsAhead, Ahead
    <3>4. g \in Generations(s) /\ g \in Nat
      BY <1>1, ReportedGeneration DEF JobFits
    <3> HIDE DEF c, s, g
    <3>5. u \in DOMAIN users /\ c \in DOMAIN users
      BY <3>2, <3>3 DEF UidsOf
    <3>6. /\ users[u].generation \in Nat /\ users[c].generation \in Nat
          /\ users[c].generation >= users[u].generation
      BY <1>1, <3>3, <3>5, RowFields DEF Before
    <3>7. g < users[u].generation
      BY <1>1, <3>2, <3>4, <3>5 DEF Precedes, RowsReport
    <3>8. users[c].state # s
      BY <1>1, <3>2, <3>5, <3>6 DEF Precedes, RowsReport
    <3> QED
      BY <3>4, <3>6, <3>7, <3>8 DEF s, g
  <2>5. Behind(worker[w])'
    BY <2>1, <2>2, <2>3, <2>4 DEF Behind
  <2> QED
    BY <1>1, <2>3, <2>5, OrderedMoves, TablesRemain
<1> QED
  BY <1>3, <1>4

LEMMA LookupBehind ==
  ASSUME OrderedInvariant, ClaimsInvariant', NEW w \in Workers, Lookup(w)
  PROVE  OrderedInvariant'
<1>1. /\ TypeInvariant /\ worker[w].pc = "lookup" /\ Behind(worker[w])
      /\ worker \in [Workers -> Job] /\ worker[w] \in Job /\ UNCHANGED <<accounts, users>>
  BY TypeParts DEF Lookup, At, OrderedInvariant, ClaimsInvariant
<1>2. CASE Refuse(w)
  BY <1>1, <1>2, RestsBehind
<1>3. CASE worker[w].account \in accounts /\ Goto(w, "create")
  <2>1. ~worker[w].late
    BY <1>1, <1>3 DEF Behind
  <2>2. worker'[w].late = worker[w].late /\ \A v \in Workers \ {w} : worker'[v] = worker[v]
    BY <1>1, <1>3 DEF Goto, Job
  <2>3. Behind(worker[w])'
    BY <2>1, <2>2 DEF Behind
  <2> QED
    BY <1>1, <2>2, <2>3, OrderedMoves, TablesRemain
<1> QED
  BY <1>2, <1>3 DEF Lookup

(* A new row has the generation that was reported with its key.            *)
LEMMA InsertRemains ==
  ASSUME OrderedInvariant, NEW row \in SyncUser, Insert(row), UNCHANGED accounts,
         row.generation \in Generations(row.state)
  PROVE  RowsRemain /\ RowsReport'
<1>1. TypeInvariant /\ RowsReport
  BY DEF OrderedInvariant, ClaimsInvariant
<1>2. /\ DOMAIN users' = DOMAIN users \cup {lastUid'}
      /\ users'[lastUid'] = row
      /\ \A u \in DOMAIN users : users'[u] = users[u]
  BY <1>1, InsertTyped
<1> QED
  BY <1>1, <1>2 DEF RowsRemain, RowsReport

(* Rows changed in place, each with a generation its key was claimed with. *)
LEMMA KeptRemain ==
  ASSUME OrderedInvariant, RowsKept, UNCHANGED accounts,
         \A u \in DOMAIN users : \/ users'[u].generation = users[u].generation
                                 \/ users'[u].generation \in Generations(users[u].state)
  PROVE  RowsRemain /\ RowsReport'
BY DEF OrderedInvariant, RowsKept, RowsRemain, RowsReport

LEMMA ReplyBehind ==
  ASSUME OrderedInvariant, ClaimsInvariant', RowsRemain, RowsReport', NEW w \in Workers,
         NEW uid, Reply(w, uid), ~worker[w].late
  PROVE  OrderedInvariant'
<1>1. worker \in [Workers -> Job] /\ worker[w] \in Job
  BY TypeParts DEF OrderedInvariant, ClaimsInvariant
<1>2. worker'[w].late = worker[w].late /\ \A v \in Workers \ {w} : worker'[v] = worker[v]
  BY <1>1 DEF Reply, Job
<1>3. Behind(worker[w])'
  BY <1>2 DEF Behind
<1> QED
  BY <1>2, <1>3, OrderedMoves

LEMMA CreateBehind ==
  ASSUME OrderedClaims, OrderedInvariant, ClaimsInvariant', NEW w \in Workers, Create(w)
  PROVE  OrderedInvariant'
<1> DEFINE auth == worker[w].auth
           generation == IF auth.generation = Unreported THEN 0 ELSE auth.generation
           row == Row(w, generation, auth.keysChangedAt)
<1>1. /\ TypeInvariant /\ worker[w].pc = "create" /\ JobFits(worker[w], lastUid)
      /\ UNCHANGED accounts /\ ~worker[w].late
  BY TypesOfThread, NotLate DEF OrderedInvariant, ClaimsInvariant, Create, At
<1>2. CASE Refuse(w) /\ UNCHANGED <<users, lastUid, answered>>
  BY <1>1, <1>2, RestsBehind
<1>3. CASE Insert(row) /\ Reply(w, lastUid')
  <2>1. generation = auth.generation /\ generation \in Generations(auth.state)
    BY <1>1, ReportedGeneration DEF JobFits
  <2>2. generation \in Timestamps \cup {0}
    BY <1>1, <2>1, ClaimFields, ReportedGeneration DEF JobFits
  <2>3. row \in SyncUser /\ row.generation = generation /\ row.state = auth.state
    <3> HIDE DEF generation
    <3>1. row \in SyncUser
      BY <1>1, <2>2, RowTyped
    <3> QED
      BY <3>1 DEF Row
  <2> HIDE DEF row
  <2>4. RowsRemain /\ RowsReport'
    BY <1>1, <1>3, <2>1, <2>3, InsertRemains
  <2> QED
    BY <1>1, <1>3, <2>4, ReplyBehind
<1> QED
  BY <1>2, <1>3 DEF Create

LEMMA ReconcileBehind ==
  ASSUME OrderedInvariant, ClaimsInvariant', NEW w \in Workers, Reconcile(w)
  PROVE  OrderedInvariant'
<1>1. /\ TypeInvariant /\ worker[w] \in Job /\ worker \in [Workers -> Job] /\ RowTypes
      /\ UNCHANGED accounts /\ worker[w].pc = "reconcile" /\ Behind(worker[w]) /\ RowsKept
  BY TypeParts, TypesOfThread, ReconcileTyped DEF OrderedInvariant, ClaimsInvariant, Reconcile, At
<1>2. PICK u \in worker[w].todo :
        /\ worker' = [worker EXCEPT ![w].todo = @ \ {u}]
        /\ users' = [v \in DOMAIN users |->
             IF v = u /\ users[v].replacedAt = 0
             THEN [users[v] EXCEPT !.replacedAt = worker[w].user.createdAt] ELSE users[v]]
  BY DEF Reconcile
<1>3. ASSUME NEW v \in DOMAIN users PROVE users'[v].generation = users[v].generation
  <2>1. users[v] \in SyncUser
    BY <1>1 DEF RowTypes
  <2> QED
    BY <1>2, <2>1 DEF SyncUser
<1>4. RowsRemain /\ RowsReport'
  BY <1>1, <1>3, KeptRemain
<1>5. /\ \A v \in Workers \ {w} : worker'[v] = worker[v]
      /\ worker'[w].pc = worker[w].pc /\ worker'[w].auth = worker[w].auth
      /\ worker'[w].user = worker[w].user /\ worker'[w].late = worker[w].late
  BY <1>1, <1>2 DEF Job
<1>6. Behind(worker[w])'
  BY <1>1, <1>5 DEF Behind
<1> QED
  BY <1>4, <1>5, <1>6, OrderedMoves

(* The rules refuse a generation that did not rise with the key.           *)
LEMMA ValidateBehind ==
  ASSUME OrderedClaims, OrderedInvariant, ClaimsInvariant', NEW w \in Workers, Validate(w)
  PROVE  OrderedInvariant'
<1>1. /\ TypeInvariant /\ worker[w].pc = "reconcile" /\ Behind(worker[w])
      /\ worker \in [Workers -> Job] /\ worker[w] \in Job /\ JobFits(worker[w], lastUid)
      /\ UNCHANGED <<accounts, users>>
  BY TypeParts DEF OrderedInvariant, ClaimsInvariant, Validate, At
<1>2. CASE Refuse(w)
  BY <1>1, <1>2, RestsBehind
<1>3. CASE Valid(worker[w].auth, worker[w].user, worker[w].stale)
  <2>1. ~worker[w].late
    <3> SUFFICES ASSUME worker[w].late PROVE FALSE
      OBVIOUS
    <3>1. /\ worker[w].user.state # worker[w].auth.state
          /\ worker[w].auth.generation <= worker[w].user.generation
      BY <1>1 DEF Behind
    <3>2. worker[w].auth.generation # Unreported /\ worker[w].user.generation # Unreported
      BY <1>1, ReportedGeneration, AuthsAssumption DEF JobFits, SyncUser, Timestamps
    <3> QED
      BY <1>3, <3>1, <3>2 DEF Valid, Le
  <2>2. ASSUME NEW pc, Goto(w, pc) PROVE OrderedInvariant'
    <3>1. worker'[w].late = worker[w].late /\ \A v \in Workers \ {w} : worker'[v] = worker[v]
      BY <1>1, <2>2 DEF Goto, Job
    <3>2. Behind(worker[w])'
      BY <2>1, <3>1 DEF Behind
    <3> QED
      BY <1>1, <3>1, <3>2, OrderedMoves, TablesRemain
  <2>3. CASE Reply(w, worker[w].uid)
    BY <1>1, <2>1, <2>3, ReplyBehind, TablesRemain
  <2>4. Refuse(w) \/ Goto(w, "rotate") \/ Goto(w, "update") \/ Reply(w, worker[w].uid)
    BY DEF Validate
  <2> QED
    BY <1>2, <2>2, <2>3, <2>4
<1>4. Refuse(w) \/ Valid(worker[w].auth, worker[w].user, worker[w].stale)
  BY DEF Validate
<1> QED
  BY <1>2, <1>3, <1>4

(* The row that is updated is still one for the key that is claimed.       *)
LEMMA UpdateBehind ==
  ASSUME OrderedClaims, OrderedInvariant, ClaimsInvariant', NEW w \in Workers, Update(w)
  PROVE  OrderedInvariant'
<1>1. /\ TypeInvariant /\ ClaimsAgree /\ worker[w].pc = "update" /\ JobFits(worker[w], lastUid)
      /\ RowTypes /\ UNCHANGED accounts /\ RowsKept /\ ~worker[w].late
      /\ Reply(w, worker[w].uid)
  BY TypesOfThread, UpdateTyped, NotLate DEF OrderedInvariant, ClaimsInvariant, Update, At
<1> DEFINE uid == worker[w].uid
           generation == NextGeneration(worker[w].auth, worker[w].user)
           keysChangedAt == NextKeysChangedAt(worker[w].auth)
<1>2. generation \in Generations(worker[w].auth.state)
  BY <1>1, ReportedGeneration DEF JobFits
<1>3. uid \in DOMAIN users => users[uid].state = worker[w].auth.state
  <2>1. JobClaim(worker[w]) \in Claims /\ JobClaim(worker[w]).uid = uid
        /\ JobClaim(worker[w]).state = worker[w].auth.state
    BY <1>1 DEF Claims, JobClaims, JobClaim, Claim, Holding, JobFits
  <2>2. ASSUME uid \in DOMAIN users
        PROVE  Claim(users[uid].account, uid, users[uid].state) \in Claims
    BY <2>2 DEF Claims, RowClaims
  <2> QED
    BY <1>1, <2>1, <2>2 DEF ClaimsAgree, Claim
<1>4. users' = [v \in DOMAIN users |->
        IF v = uid
        THEN [users[v] EXCEPT !.generation = generation, !.keysChangedAt = keysChangedAt]
        ELSE users[v]]
  BY DEF Update
<1> HIDE DEF uid, generation, keysChangedAt
<1>5. ASSUME NEW v \in DOMAIN users
      PROVE  \/ users'[v].generation = users[v].generation
             \/ users'[v].generation \in Generations(users[v].state)
  <2>1. users[v] \in SyncUser
    BY <1>1 DEF RowTypes
  <2> QED
    BY <1>2, <1>3, <1>4, <2>1 DEF SyncUser
<1>6. RowsRemain /\ RowsReport'
  BY <1>1, <1>5, KeptRemain
<1> QED
  BY <1>1, <1>6, ReplyBehind

LEMMA RotateBehind ==
  ASSUME OrderedClaims, OrderedInvariant, ClaimsInvariant', NEW w \in Workers, Rotate(w)
  PROVE  OrderedInvariant'
<1> DEFINE auth == worker[w].auth
           generation == NextGeneration(auth, worker[w].user)
           row == Row(w, generation, auth.keysChangedAt)
<1>1. /\ TypeInvariant /\ worker[w].pc = "rotate" /\ JobFits(worker[w], lastUid)
      /\ UNCHANGED accounts /\ ~worker[w].late /\ worker \in [Workers -> Job] /\ worker[w] \in Job
  BY TypeParts, NotLate DEF OrderedInvariant, ClaimsInvariant, Rotate, At
<1>2. CASE Refuse(w) /\ UNCHANGED <<users, lastUid>>
  BY <1>1, <1>2, RestsBehind
<1>3. CASE /\ Insert(row)
           /\ worker' = [worker EXCEPT ![w].pc = "retire", ![w].uid = lastUid']
  <2>1. generation \in Timestamps \cup {0} /\ generation \in Generations(auth.state)
    BY <1>1, NextGenerationTyped, ReportedGeneration DEF JobFits
  <2>2. row \in SyncUser /\ row.generation = generation /\ row.state = auth.state
    <3> HIDE DEF generation
    <3>1. row \in SyncUser
      BY <1>1, <2>1, RowTyped
    <3> QED
      BY <3>1 DEF Row
  <2> HIDE DEF row
  <2>3. RowsRemain /\ RowsReport'
    BY <1>1, <1>3, <2>1, <2>2, InsertRemains
  <2>4. worker'[w].late = worker[w].late /\ \A v \in Workers \ {w} : worker'[v] = worker[v]
    BY <1>1, <1>3 DEF Job
  <2>5. Behind(worker[w])'
    BY <1>1, <2>4 DEF Behind
  <2> QED
    BY <2>3, <2>4, <2>5, OrderedMoves
<1> QED
  BY <1>2, <1>3 DEF Rotate, NextKeysChangedAt

LEMMA RetireBehind ==
  ASSUME OrderedInvariant, ClaimsInvariant', NEW w \in Workers, Retire(w)
  PROVE  OrderedInvariant'
<1>1. /\ TypeInvariant /\ RowTypes /\ UNCHANGED accounts /\ RowsKept /\ ~worker[w].late
      /\ Reply(w, worker[w].uid)
  BY TypesOfThread, RetireTyped, NotLate DEF OrderedInvariant, ClaimsInvariant, Retire, At
<1>2. ASSUME NEW v \in DOMAIN users PROVE users'[v].generation = users[v].generation
  <2>1. users[v] \in SyncUser
    BY <1>1 DEF RowTypes
  <2> QED
    BY <2>1 DEF Retire, SyncUser
<1>3. RowsRemain /\ RowsReport'
  BY <1>1, <1>2, KeptRemain
<1> QED
  BY <1>1, <1>3, ReplyBehind

LEMMA OrderedStep ==
  ASSUME OrderedClaims, OrderedInvariant, [Next]_vars
  PROVE  OrderedInvariant'
<1>1. ClaimsInvariant' /\ TypeInvariant /\ (\A w \in Workers : Behind(worker[w]))
  BY ClaimsStep DEF OrderedInvariant, ClaimsInvariant
<1>2. ASSUME NEW w \in Workers, Request(w) PROVE OrderedInvariant'
  <2>1. CASE Done(w)
    BY <1>1, <2>1, RestsBehind DEF Done
  <2> QED
    BY <1>1, <1>2, <2>1, ArriveBehind, ReadBehind, LookupBehind, CreateBehind, ReconcileBehind,
       ValidateBehind, UpdateBehind, RotateBehind, RetireBehind DEF Request
<1>3. ASSUME NEW a \in Accounts, RemoveAccount(a) PROVE OrderedInvariant'
  <2>1. /\ DOMAIN users' = DOMAIN users \ UidsOf(a) /\ accounts' = accounts \ {a}
        /\ \A u \in DOMAIN users' : users'[u] = users[u]
        /\ worker' = worker
    BY <1>3 DEF RemoveAccount
  <2>2. RowsRemain /\ RowsReport'
    BY <2>1 DEF RowsRemain, RowsReport, UidsOf, OrderedInvariant
  <2>3. ASSUME NEW w \in Workers PROVE Behind(worker[w])'
    BY <1>1, <2>1, <2>2, StaysBehind
  <2> QED
    BY <1>1, <2>2, <2>3 DEF OrderedInvariant
<1>4. CASE Crash
  <2>1. RowsReport' /\ \A w \in Workers : worker'[w] = Idle
    BY <1>4, TablesRemain DEF Crash
  <2>2. ASSUME NEW w \in Workers PROVE Behind(worker[w])'
    BY <2>1 DEF Behind, Idle
  <2> QED
    BY <1>1, <2>1, <2>2 DEF OrderedInvariant
<1>5. CASE Tick \/ UNCHANGED vars
  <2>1. UNCHANGED <<accounts, users, worker>>
    BY <1>5 DEF Tick, vars
  <2>2. RowsRemain /\ RowsReport'
    BY <2>1, TablesRemain
  <2>3. ASSUME NEW w \in Workers PROVE Behind(worker[w])'
    BY <1>1, <2>1, <2>2, StaysBehind
  <2> QED
    BY <1>1, <2>2, <2>3 DEF OrderedInvariant
<1> QED
  BY <1>2, <1>3, <1>4, <1>5 DEF Next

(* However many requests race: a request that comes with a key the account *)
(* has given up is refused, as long as clients report a generation with    *)
(* every claim and those of one key all precede those of the next.  The    *)
(* current row then only moves on to later keys, and whichever row the     *)
(* request reads as the current one, its generation is behind it.          *)
THEOREM RetiredIsRefusedInAnyOrder ==
  ASSUME OrderedClaims
  PROVE  Spec => []RetiredStaysOut
<1>1. Init => OrderedInvariant
  BY ClaimsStart DEF Init, OrderedInvariant, RowsReport, Behind, Idle
<1>2. OrderedInvariant /\ [Next]_vars => OrderedInvariant'
  BY OrderedStep
<1>3. OrderedInvariant => RetiredStaysOut
  BY DEF OrderedInvariant, Behind, RetiredStaysOut, At
<1> QED
  BY <1>1, <1>2, <1>3, PTL DEF Spec

=============================================================================
