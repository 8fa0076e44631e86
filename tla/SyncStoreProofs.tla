-------------------------- MODULE SyncStoreProofs --------------------------
(***************************************************************************)
(* What holds of SyncStore for every set of collections, records, bodies   *)
(* and headers, and for every bound of the clock and of the batches.       *)
(***************************************************************************)
EXTENDS SyncStore, WellFoundedInduction, TLAPS

(* Two lists of records with distinct ids, one laid over the other, are    *)
(* such a list again: what append_to_batch leaves staged.                  *)
LEMMA PostsMerge ==
  ASSUME NEW p \in Posts, NEW q \in Posts
  PROVE  Over(p, q) \in Posts
<1>1. PICK S \in SUBSET Ids : p \in [S -> Bodies]
  BY DEF Posts
<1>2. PICK T \in SUBSET Ids : q \in [T -> Bodies]
  BY DEF Posts
<1>3. Over(p, q) \in [S \cup T -> Bodies]
  BY <1>1, <1>2 DEF Over
<1> QED
  BY <1>3 DEF Posts

(* A list of records is a function on some of the ids.                     *)
LEMMA PostsFields ==
  ASSUME NEW p \in Posts, NEW i \in DOMAIN p
  PROVE  i \in Ids /\ p[i] \in Bodies
BY DEF Posts

(* What put_bso and commit_batch store is a row.                           *)
LEMMA RowsStored ==
  ASSUME now \in Nat \ {0}, NEW r \in Row, NEW b \in Bodies
  PROVE  PutRow(r, b) \in Row /\ CommitRow(r, b) \in Row
<1>1. b \in Fields
  BY BodiesAssumption
<1>2. /\ b.payload \in Payloads \cup {Null}
      /\ b.sortindex \in Sortindexes \cup {Null}
      /\ b.ttl \in Ttls \cup {Null}
  BY <1>1 DEF Fields
<1>3. /\ r.payload \in Payloads \cup {Blank} /\ r.sortindex \in Sortindexes \cup {Null}
      /\ r.modified \in Nat /\ r.expiry \in Nat
  BY DEF Row
<1>4. Ttls \subseteq Nat /\ DefaultTtl \in Nat /\ MaxTtlInstant \in Nat
  BY NumbersAssumption
<1>5. /\ Coalesce(b.payload, r.payload) \in Payloads \cup {Blank}
      /\ Coalesce(b.payload, Blank) \in Payloads \cup {Blank}
      /\ Coalesce(b.sortindex, r.sortindex) \in Sortindexes \cup {Null}
  BY <1>2, <1>3 DEF Coalesce
<1>6. /\ now + Coalesce(b.ttl, DefaultTtl) \in Nat
      /\ now + Coalesce(b.ttl, 0) \in Nat
  <2>1. Coalesce(b.ttl, DefaultTtl) \in Nat /\ Coalesce(b.ttl, 0) \in Nat
    <3>1. CASE b.ttl = Null
      BY <3>1, <1>4 DEF Coalesce
    <3>2. CASE b.ttl # Null
      BY <3>2, <1>2, <1>4 DEF Coalesce
    <3> QED
      BY <3>1, <3>2
  <2> QED
    BY <2>1
<1>7. PutRow(r, b) \in Row
  BY <1>2, <1>3, <1>5, <1>6 DEF PutRow, Row
<1>8. CommitRow(r, b) \in Row
  <2>1. CommitRow(r, b).expiry \in Nat
    BY <1>3, <1>4, <1>6 DEF CommitRow
  <2> QED
    BY <2>1, <1>5 DEF CommitRow, Row
<1> QED
  BY <1>7, <1>8

(* What a list of records makes of a collection is records again, and none *)
(* of them is stamped later than the request.                              *)
LEMMA RecordsStored ==
  ASSUME now \in Nat \ {0}, NEW recs \in [Ids -> Row], NEW post \in Posts
  PROVE  PutAll(recs, post) \in [Ids -> Row] /\ CommitAll(recs, post) \in [Ids -> Row]
<1>1. \A i \in DOMAIN post : post[i] \in Bodies
  BY PostsFields
<1>2. \A i \in DOMAIN post \cap Ids :
        PutRow(recs[i], post[i]) \in Row /\ CommitRow(recs[i], post[i]) \in Row
  BY <1>1, RowsStored
<1> QED
  BY <1>2 DEF PutAll, CommitAll

LEMMA RecordsStamped ==
  ASSUME now \in Nat \ {0}, NEW recs \in [Ids -> Row], NEW post \in Posts,
         \A i \in Ids : recs[i].modified <= now
  PROVE  \A i \in Ids : /\ PutAll(recs, post)[i].modified <= now
                        /\ CommitAll(recs, post)[i].modified <= now
<1> SUFFICES ASSUME NEW i \in Ids
             PROVE  /\ PutAll(recs, post)[i].modified <= now
                    /\ CommitAll(recs, post)[i].modified <= now
  OBVIOUS
<1>1. recs[i].modified <= now /\ now <= now
  OBVIOUS
<1>2. PutRow(recs[i], post[i]).modified \in {recs[i].modified, now}
  BY DEF PutRow
<1>3. CommitRow(recs[i], post[i]).modified = now
  BY DEF CommitRow
<1> QED
  BY <1>1, <1>2, <1>3 DEF PutAll, CommitAll

(* Taking records away leaves records, none of them newer.                 *)
LEMMA RecordsRemoved ==
  ASSUME NEW recs \in [Ids -> Row], NEW S
  PROVE  /\ Without(recs, S) \in [Ids -> Row]
         /\ \A i \in Ids : Without(recs, S)[i] \in {NoRow, recs[i]}
<1>1. NoRow \in Row
  BY DEF NoRow, Row
<1> QED
  BY <1>1 DEF Without

-----------------------------------------------------------------------------
(* Every step keeps the types, each action of the store in its turn.       *)
LEMMA StepKeepsTypes ==
  ASSUME TypeOK, [Next]_vars
  PROVE  TypeOK'
<1> USE DEF TypeOK
<1>1. NoRow \in Row
  BY DEF NoRow, Row
<1>2. ASSUME NEW c \in Collections, NEW i \in Ids, NEW b \in Bodies, NEW h \in Headers,
             PutBso(c, i, b, h)
      PROVE  TypeOK'
  <2>1. rows[c][i] \in Row
    OBVIOUS
  <2>2. PutRow(rows[c][i], b) \in Row
    BY <2>1, RowsStored
  <2>3. rows' = [rows EXCEPT ![c] = [rows[c] EXCEPT ![i] = PutRow(rows[c][i], b)]]
    BY <1>2 DEF PutBso
  <2>4. rows' \in [Collections -> [Ids -> Row]]
    BY <2>2, <2>3
  <2> QED
    BY <1>2, <2>4 DEF PutBso, Stamp
<1>3. ASSUME NEW c \in Collections, NEW i \in Ids, NEW h \in Headers,
             DeleteBso(c, i, h)
      PROVE  TypeOK'
  <2>1. Without(rows[c], {i}) \in [Ids -> Row]
    BY RecordsRemoved
  <2> QED
    BY <1>3, <2>1 DEF DeleteBso, Stamp
<1>4. ASSUME NEW c \in Collections, NEW post \in Posts, NEW h \in Headers,
             PostBsos(c, post, h)
      PROVE  TypeOK'
  <2>1. PutAll(rows[c], post) \in [Ids -> Row]
    BY RecordsStored
  <2> QED
    BY <1>4, <2>1 DEF PostBsos, Stamp
<1>5. ASSUME NEW c \in Collections, NEW S \in SUBSET Ids, NEW h \in Headers,
             DeleteBsos(c, S, h)
      PROVE  TypeOK'
  <2>1. Without(rows[c], S) \in [Ids -> Row]
    BY RecordsRemoved
  <2> QED
    BY <1>5, <2>1 DEF DeleteBsos, Stamp
<1>6. ASSUME NEW c \in Collections, NEW h \in Headers, DeleteCollection(c, h)
      PROVE  TypeOK'
  <2>1. Without(rows[c], Ids) \in [Ids -> Row]
    BY RecordsRemoved
  <2> QED
    BY <1>6, <2>1 DEF DeleteCollection
<1>7. ASSUME NEW h \in Headers, DeleteStorage(h)
      PROVE  TypeOK'
  BY <1>1, <1>7 DEF DeleteStorage
<1>8. ASSUME NEW c \in Collections, NEW id \in now .. now + BatchRetries - 1,
             NEW post \in Posts, NEW h \in Headers, OpenBatch(c, id, post, h)
      PROVE  TypeOK'
  <2>1. id \in Nat
    BY NumbersAssumption
  <2>2. [id |-> id, coll |-> c, items |-> post] \in Batch
    BY <2>1 DEF Batch
  <2> QED
    BY <1>8, <2>2 DEF OpenBatch
<1>9. ASSUME NEW c \in Collections, NEW id, NEW post \in Posts, NEW h \in Headers,
             AppendBatch(c, id, post, h)
      PROVE  TypeOK'
  <2>1. ASSUME NEW b \in batches
        PROVE  [b EXCEPT !.items = Over(post, b.items)] \in Batch
    BY PostsMerge DEF Batch
  <2> QED
    BY <1>9, <2>1 DEF AppendBatch
<1>10. ASSUME NEW c \in Collections, NEW id, NEW post \in Posts, NEW h \in Headers,
              CommitBatch(c, id, post, h)
       PROVE  TypeOK'
  <2>1. PICK b \in batches : rows' = [rows EXCEPT ![c] = PutAll(CommitAll(rows[c], b.items), post)]
    BY <1>10 DEF CommitBatch
  <2>2. b.items \in Posts
    BY DEF Batch
  <2>3. PutAll(CommitAll(rows[c], b.items), post) \in [Ids -> Row]
    BY <2>2, RecordsStored
  <2> QED
    BY <1>10, <2>1, <2>3 DEF CommitBatch, Stamp
<1>11. CASE Tick
  BY <1>11, NumbersAssumption DEF Tick
<1>12. CASE StepBack
  BY <1>12, NumbersAssumption DEF StepBack
<1>13. CASE UNCHANGED vars
  BY <1>13 DEF vars
<1> QED
  <2>1. PlainWrite => TypeOK'
    BY <1>2, <1>3, <1>4, <1>5, <1>6 DEF PlainWrite
  <2>2. BatchWrite => TypeOK'
    BY <1>8, <1>9, <1>10 DEF BatchWrite
  <2>3. Wipe => TypeOK'
    BY <1>7 DEF Wipe
  <2> QED
    BY <2>1, <2>2, <2>3, <1>11, <1>12, <1>13 DEF Next

(* The tables of one user hold rows, stamps and batches of the right shape *)
(* after any sequence of requests.                                         *)
THEOREM StoreTypes == Spec => []TypeOK
<1>1. Init => TypeOK
  BY NumbersAssumption DEF Init, TypeOK, NoRow, Row
<1> QED
  BY <1>1, StepKeepsTypes, PTL DEF Spec

-----------------------------------------------------------------------------
(* A write of one collection leaves the others alone, gets past the guard, *)
(* and leaves no record newer than the clock it stamps with.               *)
LEMMA WriteStamps ==
  ASSUME TypeOK, StampCoversRecords,
         NEW c \in Collections, CanAdvance(c), Stamp(c),
         NEW recs \in [Ids -> Row], \A i \in Ids : recs[i].modified <= now,
         rows' = [rows EXCEPT ![c] = recs]
  PROVE  /\ StampCoversRecords'
         /\ collMod'[c] > collMod[c]
         /\ \A d \in Collections \ {c} : rows'[d] = rows[d] /\ collMod'[d] = collMod[d]
<1> USE DEF TypeOK
<1>1. collMod'[c] = now /\ \A d \in Collections \ {c} : collMod'[d] = collMod[d]
  BY DEF Stamp
<1>2. rows'[c] = recs /\ \A d \in Collections \ {c} : rows'[d] = rows[d]
  OBVIOUS
<1>3. StampCoversRecords'
  BY <1>1, <1>2 DEF StampCoversRecords
<1> QED
  BY <1>1, <1>2, <1>3 DEF CanAdvance

(* Records of a collection that can advance are older than the clock.      *)
LEMMA RecordsArePast ==
  ASSUME TypeOK, StampCoversRecords, NEW c \in Collections, CanAdvance(c)
  PROVE  /\ rows[c] \in [Ids -> Row]
         /\ \A i \in Ids : rows[c][i].modified <= now
<1>1. rows[c] \in [Ids -> Row]
  BY DEF TypeOK
<1>2. ASSUME NEW i \in Ids PROVE rows[c][i].modified <= now
  <2>1. rows[c][i].modified \in Nat
    BY <1>1 DEF Row
  <2> QED
    BY <2>1 DEF TypeOK, StampCoversRecords, CanAdvance
<1> QED
  BY <1>1, <1>2

(* What one action does to one collection's records and stamp.             *)
Moved(c) ==
  /\ collMod'[c] > collMod[c] \/ collMod'[c] = 0
  /\ \A d \in Collections \ {c} : rows'[d] = rows[d]

(* The step lemma of both properties below: a step keeps every record at   *)
(* or under its collection's stamp, and changes no record without moving   *)
(* that stamp.                                                             *)
LEMMA StepCoversRecords ==
  ASSUME TypeOK, StampCoversRecords, [Next]_vars
  PROVE  /\ StampCoversRecords'
         /\ \/ UNCHANGED rows
            \/ \E c \in Collections : Moved(c)
            \/ \A c \in Collections : collMod'[c] = 0
<1> DEFINE Goal == /\ StampCoversRecords'
                   /\ \/ UNCHANGED rows
                      \/ \E c \in Collections : Moved(c)
                      \/ \A c \in Collections : collMod'[c] = 0
<1> USE DEF Moved
<1>1. NoRow.modified = 0 /\ now \in Nat \ {0}
  BY DEF NoRow, TypeOK
<1>2. ASSUME NEW c \in Collections, NEW i \in Ids, NEW b \in Bodies, NEW h \in Headers,
             PutBso(c, i, b, h)
      PROVE  Goal
  <2>1. CanAdvance(c) /\ Stamp(c)
    BY <1>2 DEF PutBso, Admits
  <2>2. /\ rows[c] \in [Ids -> Row]
        /\ \A j \in Ids : rows[c][j].modified <= now
    BY <2>1, RecordsArePast
  <2> DEFINE recs == [rows[c] EXCEPT ![i] = PutRow(rows[c][i], b)]
  <2>3. rows' = [rows EXCEPT ![c] = recs]
    BY <1>2 DEF PutBso
  <2>4. PutRow(rows[c][i], b) \in Row
    BY <1>1, <2>2, RowsStored
  <2>5. PutRow(rows[c][i], b).modified \in {rows[c][i].modified, now}
    BY DEF PutRow
  <2>6. recs \in [Ids -> Row] /\ \A j \in Ids : recs[j].modified <= now
    BY <1>1, <2>2, <2>4, <2>5
  <2> QED
    BY <2>1, <2>3, <2>6, WriteStamps
<1>3. ASSUME NEW c \in Collections, NEW S \in SUBSET Ids,
             CanAdvance(c), Stamp(c), rows' = [rows EXCEPT ![c] = Without(rows[c], S)]
      PROVE  Goal
  <2>1. /\ rows[c] \in [Ids -> Row]
        /\ \A j \in Ids : rows[c][j].modified <= now
    BY <1>3, RecordsArePast
  <2>2. /\ Without(rows[c], S) \in [Ids -> Row]
        /\ \A j \in Ids : Without(rows[c], S)[j].modified <= now
    BY <1>1, <2>1, RecordsRemoved
  <2> QED
    BY <1>3, <2>2, WriteStamps
<1>4. ASSUME NEW c \in Collections, NEW post \in Posts, NEW h \in Headers,
             PostBsos(c, post, h)
      PROVE  Goal
  <2>1. CanAdvance(c) /\ Stamp(c)
    BY <1>4 DEF PostBsos, Admits
  <2>2. /\ rows[c] \in [Ids -> Row]
        /\ \A j \in Ids : rows[c][j].modified <= now
    BY <2>1, RecordsArePast
  <2>3. /\ PutAll(rows[c], post) \in [Ids -> Row]
        /\ \A j \in Ids : PutAll(rows[c], post)[j].modified <= now
    BY <1>1, <2>2, RecordsStored, RecordsStamped
  <2> QED
    BY <1>4, <2>1, <2>3, WriteStamps DEF PostBsos
<1>5. ASSUME NEW c \in Collections, NEW h \in Headers, DeleteCollection(c, h)
      PROVE  Goal
  <2>1. rows'[c] = [i \in Ids |-> NoRow] /\ \A d \in Collections \ {c} : rows'[d] = rows[d]
    BY <1>5 DEF DeleteCollection, Without, TypeOK
  <2>2. collMod'[c] = 0 /\ \A d \in Collections \ {c} : collMod'[d] = collMod[d]
    BY <1>5, TombstoneAssumption DEF DeleteCollection, TypeOK
  <2> QED
    BY <1>1, <2>1, <2>2 DEF StampCoversRecords
<1>6. ASSUME NEW h \in Headers, DeleteStorage(h)
      PROVE  Goal
  BY <1>1, <1>6 DEF DeleteStorage, StampCoversRecords
<1>7. ASSUME NEW c \in Collections, NEW id, NEW post \in Posts, NEW h \in Headers,
             CommitBatch(c, id, post, h)
      PROVE  Goal
  <2>1. CanAdvance(c) /\ Stamp(c)
    BY <1>7 DEF CommitBatch, Admits
  <2>2. PICK b \in batches : rows' = [rows EXCEPT ![c] = PutAll(CommitAll(rows[c], b.items), post)]
    BY <1>7 DEF CommitBatch
  <2>3. b.items \in Posts
    BY DEF TypeOK, Batch
  <2>4. /\ rows[c] \in [Ids -> Row]
        /\ \A j \in Ids : rows[c][j].modified <= now
    BY <2>1, RecordsArePast
  <2> DEFINE landed == CommitAll(rows[c], b.items)
  <2>5. landed \in [Ids -> Row] /\ \A j \in Ids : landed[j].modified <= now
    BY <1>1, <2>3, <2>4, RecordsStored, RecordsStamped
  <2> HIDE DEF landed
  <2>6. /\ PutAll(landed, post) \in [Ids -> Row]
        /\ \A j \in Ids : PutAll(landed, post)[j].modified <= now
    BY <1>1, <2>5, RecordsStored, RecordsStamped
  <2> QED
    BY <2>1, <2>2, <2>6, WriteStamps DEF landed
<1>8. ASSUME UNCHANGED <<rows, collMod>>
      PROVE  Goal
  BY <1>8 DEF StampCoversRecords
<1> QED
  <2>1. PlainWrite => Goal
    <3>1. ASSUME NEW c \in Collections, NEW i \in Ids, NEW h \in Headers, DeleteBso(c, i, h)
          PROVE  Goal
      <4>1. CanAdvance(c) /\ Stamp(c) /\ rows' = [rows EXCEPT ![c] = Without(rows[c], {i})]
        BY <3>1 DEF DeleteBso, Admits
      <4>2. {i} \in SUBSET Ids
        OBVIOUS
      <4> HIDE DEF Goal
      <4> QED
        BY <4>1, <4>2, <1>3
    <3>2. ASSUME NEW c \in Collections, NEW S \in SUBSET Ids, NEW h \in Headers,
                 DeleteBsos(c, S, h)
          PROVE  Goal
      BY <3>2, <1>3 DEF DeleteBsos, Admits
    <3> QED
      BY <3>1, <3>2, <1>2, <1>4, <1>5 DEF PlainWrite
  <2>2. BatchWrite => Goal
    <3>1. ASSUME NEW c \in Collections, NEW id, NEW post \in Posts, NEW h \in Headers,
                 OpenBatch(c, id, post, h) \/ AppendBatch(c, id, post, h)
          PROVE  Goal
      BY <3>1, <1>8 DEF OpenBatch, AppendBatch
    <3> QED
      BY <3>1, <1>7 DEF BatchWrite
  <2>3. Wipe => Goal
    BY <1>6 DEF Wipe
  <2>4. Tick \/ StepBack \/ UNCHANGED vars => Goal
    BY <1>8 DEF Tick, StepBack, vars
  <2> QED
    BY <2>1, <2>2, <2>3, <2>4 DEF Next

(* Whatever clients send and however the clock moves, backwards included,  *)
(* no record is newer than its collection's stamp.                         *)
THEOREM StampCovers == Spec => []StampCoversRecords
<1>1. Init => TypeOK /\ StampCoversRecords
  BY NumbersAssumption DEF Init, TypeOK, StampCoversRecords, NoRow, Row
<1>2. TypeOK /\ StampCoversRecords /\ [Next]_vars => (TypeOK /\ StampCoversRecords)'
  BY StepKeepsTypes, StepCoversRecords
<1> QED
  BY <1>1, <1>2, PTL DEF Spec

(* No change to a collection's records is silent: the collection's stamp   *)
(* rises, or the collection goes.                                          *)
THEOREM NoSilentChange == Spec => ChangesMoveTheStamp
<1>1. TypeOK /\ StampCoversRecords /\ [Next]_vars =>
        [\A c \in Collections :
           (\E i \in Ids : rows'[c][i] # rows[c][i])
             => collMod'[c] > collMod[c] \/ collMod'[c] = 0]_vars
  BY StepCoversRecords DEF Moved
<1> QED
  BY <1>1, StoreTypes, StampCovers, PTL DEF Spec, ChangesMoveTheStamp

-----------------------------------------------------------------------------
(* create_batch steps over the ids in use, and what an append rewrites, a   *)
(* commit or a wipe leaves, it leaves under its own id.                    *)
LEMMA StepKeepsIds ==
  ASSUME TypeOK, OneBatchPerId, [Next]_vars
  PROVE  OneBatchPerId'
<1>1. ASSUME NEW c \in Collections, NEW id, NEW post \in Posts, NEW h, OpenBatch(c, id, post, h)
      PROVE  OneBatchPerId'
  <2>1. batches' = batches \cup {[id |-> id, coll |-> c, items |-> post]}
    BY <1>1 DEF OpenBatch
  <2>2. \A b \in batches : b.id # id
    BY <1>1 DEF OpenBatch, FreshId, Taken
  <2>3. \A b \in batches' : b \in batches \/ (b.id = id /\ b = [id |-> id, coll |-> c, items |-> post])
    BY <2>1
  <2> QED
    BY <2>2, <2>3 DEF OneBatchPerId
<1>2. ASSUME NEW c \in Collections, NEW id, NEW post \in Posts, NEW h, AppendBatch(c, id, post, h)
      PROVE  OneBatchPerId'
  <2>1. ASSUME NEW b \in batches
        PROVE  [b EXCEPT !.items = Over(post, b.items)].id = b.id
    BY DEF TypeOK, Batch
  <2>2. ASSUME NEW b1 \in batches', NEW b2 \in batches', b1.id = b2.id
        PROVE  b1 = b2
    <3>1. PICK a1 \in batches :
            b1 = IF a1.id = id THEN [a1 EXCEPT !.items = Over(post, a1.items)] ELSE a1
      BY <1>2 DEF AppendBatch
    <3>2. PICK a2 \in batches :
            b2 = IF a2.id = id THEN [a2 EXCEPT !.items = Over(post, a2.items)] ELSE a2
      BY <1>2 DEF AppendBatch
    <3>3. b1.id = a1.id /\ b2.id = a2.id
      BY <2>1, <3>1, <3>2
    <3>4. a1 = a2
      BY <2>2, <3>3 DEF OneBatchPerId
    <3> QED
      BY <3>1, <3>2, <3>4
  <2> QED
    BY <2>2 DEF OneBatchPerId
<1>3. ASSUME batches' \subseteq batches
      PROVE  OneBatchPerId'
  BY <1>3 DEF OneBatchPerId
<1>4. PlainWrite \/ Wipe \/ Tick \/ StepBack \/ UNCHANGED vars => batches' \subseteq batches
  BY DEF PlainWrite, PutBso, PostBsos, DeleteBso, DeleteBsos, DeleteCollection, Wipe, DeleteStorage,
         Tick, StepBack, vars
<1>5. ASSUME NEW c \in Collections, NEW id, NEW post \in Posts, NEW h, CommitBatch(c, id, post, h)
      PROVE  batches' \subseteq batches
  BY <1>5 DEF CommitBatch
<1>6. BatchWrite => OneBatchPerId'
  BY <1>1, <1>2, <1>3, <1>5 DEF BatchWrite
<1> QED
  BY <1>3, <1>4, <1>6 DEF Next

-----------------------------------------------------------------------------
(* The storage stamp exists: stamps are of a clock that is bounded.        *)
ClockBound ==
  /\ now <= MaxNow + Quantum
  /\ \A c \in Collections \cup {Tombstone} : collMod[c] <= MaxNow + Quantum

LEMMA GreatestStamp ==
  ASSUME NEW S \in SUBSET Nat, S # {}, NEW top \in Nat, \A x \in S : x <= top
  PROVE  Max(S) \in S /\ \A x \in S : x <= Max(S)
<1> DEFINE Bounds == {n \in Nat : \A x \in S : x <= n}
<1>1. PICK n \in Bounds : \A m \in Bounds : ~(<<m, n>> \in OpToRel(<, Nat))
  <2>1. Bounds \subseteq Nat /\ Bounds # {}
    OBVIOUS
  <2> HIDE DEF Bounds
  <2> QED
    BY <2>1, NatLessThanWellFounded, WFMin
<1>2. n \in Nat /\ \A x \in S : x <= n /\ x \in Nat
  BY <1>1
<1>3. \A m \in Bounds : ~(m < n)
  BY <1>1 DEF OpToRel
<1>4. n \in S
  <2> SUFFICES ASSUME n \notin S PROVE FALSE
    OBVIOUS
  <2>1. \A x \in S : x \in Nat /\ x <= n /\ x # n
    BY <1>2
  <2>2. n # 0
    <3>1. PICK x \in S : TRUE
      OBVIOUS
    <3>2. x \in Nat /\ x <= n /\ x # n
      BY <2>1
    <3> QED
      BY <1>2, <3>2
  <2>3. n - 1 \in Nat /\ \A x \in S : x <= n - 1
    BY <1>2, <2>1, <2>2
  <2>4. n - 1 \in Bounds
    BY <2>3
  <2>5. n - 1 < n
    BY <1>2
  <2> HIDE DEF Bounds
  <2> QED
    BY <1>3, <2>4, <2>5
<1> QED
  BY <1>2, <1>4 DEF Max

StampIsGreatest ==
  TypeOK /\ ClockBound =>
    /\ \E k \in Collections \cup {Tombstone} : StorageStamp = collMod[k]
    /\ \A k \in Collections \cup {Tombstone} : collMod[k] <= StorageStamp

LEMMA StampExists == StampIsGreatest /\ StampIsGreatest'
<1>1. StampIsGreatest
  <2> SUFFICES ASSUME TypeOK, ClockBound
               PROVE  /\ \E k \in Collections \cup {Tombstone} : StorageStamp = collMod[k]
                      /\ \A k \in Collections \cup {Tombstone} : collMod[k] <= StorageStamp
    BY DEF StampIsGreatest
  <2> DEFINE S == {collMod[c] : c \in Collections \cup {Tombstone}}
  <2>1. S \in SUBSET Nat /\ S # {}
    BY DEF TypeOK
  <2>2. MaxNow + Quantum \in Nat /\ \A x \in S : x <= MaxNow + Quantum
    BY NumbersAssumption DEF ClockBound
  <2>3. Max(S) \in S /\ \A x \in S : x <= Max(S)
    <3> HIDE DEF S
    <3> QED
      BY <2>1, <2>2, GreatestStamp
  <2> QED
    BY <2>3 DEF StorageStamp
<1> QED
  BY <1>1, PTL

(* What a request does to the stamps: one collection is stamped, or one is  *)
(* deleted and the tombstone stamped instead.                              *)
Stamped(c) == CanAdvance(c) /\ Stamp(c)
Buried(c) == CanAdvance(c) /\ collMod' = [collMod EXCEPT ![c] = 0, ![Tombstone] = now]

LEMMA StampsMove ==
  ASSUME [Next]_vars
  PROVE  \/ UNCHANGED <<now, collMod>>
         \/ Wipe /\ now' = now /\ collMod' = [c \in Collections \cup {Tombstone} |-> 0]
         \/ (Tick \/ StepBack) /\ collMod' = collMod
         \/ now' = now /\ \E c \in Collections : Stamped(c) \/ Buried(c)
<1>1. PlainWrite => now' = now /\ \E c \in Collections : Stamped(c) \/ Buried(c)
  BY DEF PlainWrite, PutBso, PostBsos, DeleteBso, DeleteBsos, DeleteCollection, Admits, Stamped, Buried
<1>2. BatchWrite => \/ UNCHANGED <<now, collMod>>
                    \/ now' = now /\ \E c \in Collections : Stamped(c)
  BY DEF BatchWrite, OpenBatch, AppendBatch, CommitBatch, Admits, Stamped
<1>3. Wipe => now' = now /\ collMod' = [c \in Collections \cup {Tombstone} |-> 0]
  BY DEF Wipe, DeleteStorage
<1> QED
  BY <1>1, <1>2, <1>3 DEF Next, Tick, StepBack, vars

LEMMA StepKeepsBound ==
  ASSUME TypeOK, ClockBound, [Next]_vars
  PROVE  ClockBound'
<1>1. /\ now \in Nat /\ MaxNow \in Nat /\ Quantum \in Nat
      /\ collMod \in [Collections \cup {Tombstone} -> Nat]
  BY NumbersAssumption DEF TypeOK
<1>2. CASE Tick \/ StepBack
  BY <1>1, <1>2 DEF Tick, StepBack, ClockBound
<1>3. CASE UNCHANGED <<now, collMod>>
  BY <1>3 DEF ClockBound
<1>4. CASE now' = now /\ collMod' = [c \in Collections \cup {Tombstone} |-> 0]
  BY <1>1, <1>4 DEF ClockBound
<1>5. ASSUME NEW c \in Collections, Stamped(c) \/ Buried(c), now' = now
      PROVE  ClockBound'
  <2>1. \A k \in Collections \cup {Tombstone} : collMod'[k] \in {collMod[k], now, 0}
    BY <1>1, <1>5 DEF Stamped, Stamp, Buried
  <2> QED
    BY <1>1, <1>5, <2>1 DEF ClockBound
<1> QED
  BY <1>2, <1>3, <1>4, <1>5, StampsMove

(* The storage stamp that a device polls: a deletion that takes the newest  *)
(* collection leaves the tombstone above it.                               *)
THEOREM StorageStampRises == Spec => StorageStampNeverFalls
<1>1. Init => ClockBound
  BY NumbersAssumption DEF Init, ClockBound
<1>2. TypeOK /\ ClockBound /\ [Next]_vars => ClockBound'
  BY StepKeepsBound
<1>3. ASSUME TypeOK, ClockBound, TypeOK', ClockBound', [Next]_vars
      PROVE  [StorageStamp' >= StorageStamp \/ Wipe \/ now < StorageStamp]_vars
  <2> SUFFICES ASSUME ~Wipe, ~(now < StorageStamp)
               PROVE  StorageStamp' >= StorageStamp
    OBVIOUS
  <2>1. PICK k \in Collections \cup {Tombstone} : StorageStamp = collMod[k]
    BY <1>3, StampExists DEF StampIsGreatest
  <2>2. \A j \in Collections \cup {Tombstone} : collMod'[j] <= StorageStamp'
    BY <1>3, StampExists DEF StampIsGreatest
  <2>3. \A j \in Collections \cup {Tombstone} : collMod[j] \in Nat /\ collMod'[j] \in Nat
    BY <1>3 DEF TypeOK
  <2>4. StorageStamp' \in Nat /\ now \in Nat
    BY <1>3, <2>3, StampExists DEF StampIsGreatest, TypeOK
  <2>5. \E j \in Collections \cup {Tombstone} : collMod'[j] >= collMod[k]
    <3>1. CASE collMod' = collMod
      BY <2>3, <3>1
    <3>2. ASSUME NEW c \in Collections, Stamped(c) PROVE collMod'[c] >= collMod[k]
      BY <1>3, <2>1, <2>3, <2>4, <3>2 DEF Stamped, Stamp, TypeOK
    <3>3. ASSUME NEW c \in Collections, Buried(c) PROVE collMod'[Tombstone] >= collMod[k]
      BY <1>3, <2>1, <2>3, <2>4, <3>3, TombstoneAssumption DEF Buried, TypeOK
    <3> QED
      BY <1>3, <3>1, <3>2, <3>3, StampsMove
  <2> QED
    BY <2>1, <2>2, <2>3, <2>4, <2>5
<1> QED
  BY <1>1, <1>2, <1>3, StoreTypes, PTL DEF Spec, StorageStampNeverFalls

=============================================================================
