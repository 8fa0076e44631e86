----------------------------- MODULE SyncStore -----------------------------
(***************************************************************************)
(* One user's Sync 1.5 storage: the tables sync_bso, sync_user_collections, *)
(* sync_batches and sync_batch_items, and every storage route that writes   *)
(* them (src/src/fxa_lite/syncstorage).                                     *)
(*                                                                         *)
(* A storage route is `async def` and runs _run synchronously: read the     *)
(* resource's timestamp, answer the precondition, refuse a write that       *)
(* cannot advance the collection (check_write), run the handler, all in one *)
(* BEGIN IMMEDIATE transaction.  So a request that is carried out is one    *)
(* action here; a request that is refused (304, 400, 404, 412, 503) rolls   *)
(* back or writes nothing, and is a stuttering step.                        *)
(***************************************************************************)
EXTENDS Integers, FiniteSetsExt

CONSTANTS
  Collections,   \* collection names
  Tombstone,     \* the reserved row of sync_user_collections (id 0)
  Ids,           \* record ids
  Payloads,      \* payload texts a client may send
  Sortindexes,   \* sortindex values a client may send
  Ttls,          \* ttl values a client may send, in milliseconds
  Bodies,        \* the record bodies clients send
  Blank,         \* the payload "" of a record created without one
  Null,          \* a field that was not sent; SQL NULL
  Headers,       \* the precondition headers requests carry
  Quantum,       \* a hundredth of a second, in clock units (10 ms)
  DefaultTtl,    \* DEFAULT_BSO_TTL, in clock units
  MaxTtlInstant, \* MAX_TTL * 1000, read by commit_batch as an instant
  BatchLifetime, \* BATCH_LIFETIME_MS
  BatchRetries,  \* MAX_BATCH_CREATE_RETRY
  MaxNow,        \* bound of the model: the clock stops here
  MaxBatches,    \* bound of the model: batches open at once
  ClockStepsBack \* whether the wall clock may be set back

(* A body is what _bso_from_object returns: each field sent or not.        *)
Fields == [payload : Payloads \cup {Null},
           sortindex : Sortindexes \cup {Null},
           ttl : Ttls \cup {Null}]

(* At most one of X-If-Modified-Since and X-If-Unmodified-Since; a request *)
(* with both is a 400.                                                     *)
Header == [kind : {"none", "modified", "unmodified"}, since : Nat]
NoHeader == [kind |-> "none", since |-> 0]

ASSUME BodiesAssumption == Bodies \subseteq Fields
ASSUME HeadersAssumption == Headers \subseteq Header
ASSUME TombstoneAssumption == Tombstone \notin Collections
ASSUME NumbersAssumption ==
  /\ Ttls \subseteq Nat
  /\ {Quantum, BatchRetries} \subseteq Nat \ {0}
  /\ {DefaultTtl, MaxTtlInstant, BatchLifetime, MaxNow, MaxBatches} \subseteq Nat
  /\ ClockStepsBack \in BOOLEAN
\* Batch ids handed out in one hundredth never reach the next one: in the
\* code 5 tries fit in 10 milliseconds.
ASSUME RetriesAssumption == BatchRetries <= Quantum

VARIABLES
  now,     \* the quantized clock, as the next request will read it
  rows,    \* sync_bso: rows[c][i], NoRow when there is none
  collMod, \* sync_user_collections.modified, 0 when there is no row
  batches  \* sync_batches with their sync_batch_items

vars == <<now, rows, collMod, batches>>

(* A list of records with distinct ids, as parse_bso_bodies accepts it.    *)
Posts == UNION {[S -> Bodies] : S \in SUBSET Ids}

Row == [payload : Payloads \cup {Blank},
        sortindex : Sortindexes \cup {Null},
        modified : Nat,
        expiry : Nat]

(* No row has modified = 0: the clock is never there.  So NoRow.modified   *)
(* is also the 0 that bso_timestamp answers for a record that is not there.*)
NoRow == [payload |-> Blank, sortindex |-> Null, modified |-> 0, expiry |-> 0]

Batch == [id : Nat, coll : Collections, items : Posts]

Exists(r) == r.modified # 0
Visible(r) == r.expiry > now
Coalesce(sent, stored) == IF sent = Null THEN stored ELSE sent

-----------------------------------------------------------------------------
(* Timestamps, preconditions and the write guard.                          *)

(* storage_timestamp: the newest thing that happened, tombstone included.  *)
StorageStamp == Max({collMod[c] : c \in Collections \cup {Tombstone}})

(* _precondition: the handler runs unless a header answers 304 or 412.     *)
Proceeds(h, stamp) ==
  /\ h.kind = "modified" => stamp > h.since
  /\ h.kind = "unmodified" => stamp <= h.since

(* Mutant: a guard that only looks for the same instant, and not for an    *)
(* earlier one.                                                            *)
CanAdvanceOtherInstant(c) == collMod[c] # now

(* check_write: refuse (503) a write that would not move the collection.   *)
CanAdvance(c) == collMod[c] < now

(* _run with a collection: what a write needs before its handler runs.     *)
Admits(c, h, stamp) == Proceeds(h, stamp) /\ CanAdvance(c)

(* update_collection                                                       *)
Stamp(c) == collMod' = [collMod EXCEPT ![c] = now]

-----------------------------------------------------------------------------
(* What one record becomes.                                                *)

(* Mutant: a record created without a payload keeps SQL NULL.              *)
PutRowNull(r, b) ==
  [payload |-> b.payload, sortindex |-> b.sortindex,
   modified |-> now, expiry |-> now + Coalesce(b.ttl, DefaultTtl)]

(* The upsert of SyncStore.put_bso: a field not sent is left alone, and    *)
(* modified moves only with the payload or the sortindex.                  *)
PutRow(r, b) ==
  LET expiry == now + Coalesce(b.ttl, DefaultTtl) IN
  IF Exists(r)
  THEN [payload |-> Coalesce(b.payload, r.payload),
        sortindex |-> Coalesce(b.sortindex, r.sortindex),
        modified |-> IF b.payload = Null /\ b.sortindex = Null
                     THEN r.modified ELSE now,
        expiry |-> IF b.ttl = Null THEN r.expiry ELSE expiry]
  ELSE [payload |-> Coalesce(b.payload, Blank),
        sortindex |-> b.sortindex,
        modified |-> now,
        expiry |-> expiry]

(* Mutants: COALESCE left out; COALESCE with its arguments swapped.        *)
CommitRowNull(r, b) ==
  [payload |-> b.payload, sortindex |-> b.sortindex,
   modified |-> now, expiry |-> now + Coalesce(b.ttl, DefaultTtl)]
CommitRowStoredWins(r, b) ==
  [payload |-> IF Exists(r) THEN r.payload ELSE Coalesce(b.payload, Blank),
   sortindex |-> IF Exists(r) THEN r.sortindex ELSE b.sortindex,
   modified |-> now, expiry |-> now + Coalesce(b.ttl, DefaultTtl)]

(* The upsert of commit_batch: modified always moves, and a new record     *)
(* without a ttl expires at an absolute instant.                           *)
CommitRow(r, b) ==
  LET expiry == now + Coalesce(b.ttl, 0) IN
  [payload |-> Coalesce(b.payload, r.payload),
   sortindex |-> Coalesce(b.sortindex, r.sortindex),
   modified |-> now,
   expiry |-> IF b.ttl # Null THEN expiry
              ELSE IF Exists(r) THEN r.expiry ELSE MaxTtlInstant]

(* A collection's records after a list of records is stored in it.         *)
PutAll(recs, post) ==
  [i \in Ids |-> IF i \in DOMAIN post THEN PutRow(recs[i], post[i]) ELSE recs[i]]

CommitAll(recs, items) ==
  [i \in Ids |-> IF i \in DOMAIN items THEN CommitRow(recs[i], items[i]) ELSE recs[i]]

(* append_to_batch: a record sent again replaces the staged one.           *)
Over(post, staged) ==
  [i \in DOMAIN post \cup DOMAIN staged |->
     IF i \in DOMAIN post THEN post[i] ELSE staged[i]]

Without(recs, S) == [i \in Ids |-> IF i \in S THEN NoRow ELSE recs[i]]

-----------------------------------------------------------------------------
(* The routes that write.  Each is one request of one client.              *)

(* PUT /storage/c/i: its precondition is about the record alone, expired   *)
(* or not; a body with no field to store still stamps the collection.      *)
PutBso(c, i, b, h) ==
  /\ Admits(c, h, rows[c][i].modified)
  /\ rows' = [rows EXCEPT ![c][i] = PutRow(@, b)]
  /\ Stamp(c)
  /\ UNCHANGED <<now, batches>>

(* POST /storage/c, not batched (or batch=true&commit=true in one request, *)
(* which is the same thing).  The empty list stamps the collection too.    *)
PostBsos(c, post, h) ==
  /\ Admits(c, h, collMod[c])
  /\ rows' = [rows EXCEPT ![c] = PutAll(@, post)]
  /\ Stamp(c)
  /\ UNCHANGED <<now, batches>>

(* Mutant: a deletion that does not stamp the collection.                  *)
DeleteBsoUnstamped(c, i, h) ==
  /\ Admits(c, h, rows[c][i].modified)
  /\ Visible(rows[c][i])
  /\ rows' = [rows EXCEPT ![c] = Without(@, {i})]
  /\ UNCHANGED <<now, collMod, batches>>

(* DELETE /storage/c/i: 404, and nothing stamped, unless it is visible.    *)
DeleteBso(c, i, h) ==
  /\ Admits(c, h, rows[c][i].modified)
  /\ Visible(rows[c][i])
  /\ rows' = [rows EXCEPT ![c] = Without(@, {i})]
  /\ Stamp(c)
  /\ UNCHANGED <<now, batches>>

(* DELETE /storage/c?ids=...: removes expired rows too, and stamps the     *)
(* collection even when it removes nothing.                                *)
DeleteBsos(c, S, h) ==
  /\ Admits(c, h, collMod[c])
  /\ rows' = [rows EXCEPT ![c] = Without(@, S)]
  /\ Stamp(c)
  /\ UNCHANGED <<now, batches>>

(* Mutants: no tombstone; no write guard.                                  *)
DeleteCollectionNoTombstone(c, h) ==
  /\ Admits(c, h, collMod[c])
  /\ rows' = [rows EXCEPT ![c] = Without(@, Ids)]
  /\ collMod' = [collMod EXCEPT ![c] = 0]
  /\ UNCHANGED <<now, batches>>
DeleteCollectionUnguarded(c, h) ==
  /\ Proceeds(h, collMod[c])
  /\ rows' = [rows EXCEPT ![c] = Without(@, Ids)]
  /\ collMod' = [collMod EXCEPT ![c] = 0, ![Tombstone] = now]
  /\ UNCHANGED <<now, batches>>

(* DELETE /storage/c: the collection's stamp goes with it, and the         *)
(* tombstone carries the deletion.  Its open batches stay.  With nothing   *)
(* to delete it answers 200 and changes nothing.                           *)
DeleteCollection(c, h) ==
  /\ Admits(c, h, collMod[c])
  /\ collMod[c] # 0 \/ \E i \in Ids : Exists(rows[c][i])
  /\ rows' = [rows EXCEPT ![c] = Without(@, Ids)]
  /\ collMod' = [collMod EXCEPT ![c] = 0, ![Tombstone] = now]
  /\ UNCHANGED <<now, batches>>

(* DELETE /: everything, tombstone and open batches included, with no      *)
(* write guard.                                                            *)
DeleteStorage(h) ==
  /\ Proceeds(h, StorageStamp)
  /\ rows' = [c \in Collections |-> [i \in Ids |-> NoRow]]
  /\ collMod' = [c \in Collections \cup {Tombstone} |-> 0]
  /\ batches' = {}
  /\ UNCHANGED now

-----------------------------------------------------------------------------
(* Batched uploads.                                                        *)

Taken(id) == \E b \in batches : b.id = id

(* Mutant: ids in use are not stepped over.                                *)
FreshIdAlwaysNow(id) == id = now

(* create_batch: the id is the clock, walked forward past ids in use.      *)
FreshId(id) ==
  /\ id \in now .. now + BatchRetries - 1
  /\ ~Taken(id)
  /\ \A other \in now .. id - 1 : Taken(other)

(* validate_batch: young enough by its id alone, and open for this         *)
(* collection.                                                             *)
ValidBatch(c, id) ==
  /\ id + BatchLifetime >= now
  /\ \E b \in batches : b.id = id /\ b.coll = c

(* POST /storage/c?batch=true: open a batch and stage the first records.   *)
(* Nothing is stamped, but the write guard applies.                        *)
OpenBatch(c, id, post, h) ==
  /\ Admits(c, h, collMod[c])
  /\ FreshId(id)
  /\ Cardinality(batches) < MaxBatches
  /\ batches' = batches \cup {[id |-> id, coll |-> c, items |-> post]}
  /\ UNCHANGED <<now, rows, collMod>>

(* POST /storage/c?batch=id: a record staged again replaces itself.        *)
AppendBatch(c, id, post, h) ==
  /\ Admits(c, h, collMod[c])
  /\ ValidBatch(c, id)
  /\ batches' = {IF b.id = id THEN [b EXCEPT !.items = Over(post, @)] ELSE b : b \in batches}
  /\ UNCHANGED <<now, rows, collMod>>

(* Mutants: a commit that does not stamp; one that leaves the batch open;  *)
(* one that deletes the collection's batches instead of its own.           *)
CommitBatchAs(c, id, post, h, left, stamp) ==
  /\ Admits(c, h, collMod[c])
  /\ ValidBatch(c, id)
  /\ \E b \in batches :
       /\ b.id = id
       /\ rows' = [rows EXCEPT ![c] = PutAll(CommitAll(@, b.items), post)]
  /\ collMod' = [collMod EXCEPT ![c] = stamp]
  /\ batches' = left
  /\ UNCHANGED now
CommitBatchUnstamped(c, id, post, h) ==
  CommitBatchAs(c, id, post, h, {b \in batches : b.id # id}, collMod[c])
CommitBatchStaysOpen(c, id, post, h) ==
  CommitBatchAs(c, id, post, h, batches, now)
CommitBatchClosesOthers(c, id, post, h) ==
  CommitBatchAs(c, id, post, h, {b \in batches : b.coll # c}, now)

(* POST /storage/c?batch=id&commit=true: everything staged lands at one    *)
(* instant, then the records sent with the commit, at the same one.        *)
CommitBatch(c, id, post, h) ==
  /\ Admits(c, h, collMod[c])
  /\ ValidBatch(c, id)
  /\ \E b \in batches :
       /\ b.id = id
       /\ rows' = [rows EXCEPT ![c] = PutAll(CommitAll(@, b.items), post)]
  /\ Stamp(c)
  /\ batches' = {b \in batches : b.id # id}
  /\ UNCHANGED now

-----------------------------------------------------------------------------
(* The clock: time.time(), read anew by every request and cut down to a    *)
(* hundredth of a second by quantize.                                      *)
Tick ==
  /\ now + Quantum <= MaxNow
  /\ now' = now + Quantum
  /\ UNCHANGED <<rows, collMod, batches>>

StepBack ==
  /\ ClockStepsBack
  /\ now > Quantum
  /\ now' = now - Quantum
  /\ UNCHANGED <<rows, collMod, batches>>

Init ==
  /\ now = Quantum
  /\ rows = [c \in Collections |-> [i \in Ids |-> NoRow]]
  /\ collMod = [c \in Collections \cup {Tombstone} |-> 0]
  /\ batches = {}

PlainWrite ==
  \E c \in Collections, h \in Headers :
    \/ \E i \in Ids, b \in Bodies : PutBso(c, i, b, h)
    \/ \E i \in Ids : DeleteBso(c, i, h)
    \/ \E post \in Posts : PostBsos(c, post, h)
    \/ \E S \in SUBSET Ids \ {{}} : DeleteBsos(c, S, h)
    \/ DeleteCollection(c, h)

BatchWrite ==
  \E c \in Collections, h \in Headers, post \in Posts :
    \/ \E id \in now .. now + BatchRetries - 1 : OpenBatch(c, id, post, h)
    \/ \E b \in batches : AppendBatch(c, b.id, post, h)
    \/ \E b \in batches : CommitBatch(c, b.id, post, h)

Wipe == \E h \in Headers : DeleteStorage(h)

Next == PlainWrite \/ BatchWrite \/ Wipe \/ Tick \/ StepBack

Spec == Init /\ [][Next]_vars

-----------------------------------------------------------------------------
TypeOK ==
  /\ now \in Nat \ {0}
  /\ rows \in [Collections -> [Ids -> Row]]
  /\ collMod \in [Collections \cup {Tombstone} -> Nat]
  /\ batches \subseteq Batch

(* The collection stamp is what preconditions, 304s and info/collections   *)
(* answer for, so it may never be older than a record of the collection:   *)
(* a record above its collection's stamp would be unknown to every check   *)
(* made against the collection.                                            *)
StampCoversRecords ==
  \A c \in Collections, i \in Ids : rows[c][i].modified <= collMod[c]

(* sync_batches' primary key, which create_batch meets by stepping over the *)
(* ids in use: no run's property, but a fact the proofs about uploads rest  *)
(* on.                                                                     *)
OneBatchPerId == \A b1, b2 \in batches : b1.id = b2.id => b1 = b2

(* The storage stamp a device polls at info/collections never falls, short *)
(* of a wipe, or of a clock that was set back below it: deleting the       *)
(* newest collection must leave the tombstone above it.                    *)
StorageStampNeverFalls ==
  [][StorageStamp' >= StorageStamp \/ Wipe \/ now < StorageStamp]_vars

(* A change to a collection's records that any client could make out is    *)
(* never silent: it moves the collection's own stamp, or takes the         *)
(* collection away altogether.                                             *)
ChangesMoveTheStamp ==
  [][\A c \in Collections :
       (\E i \in Ids : rows'[c][i] # rows[c][i])
         => collMod'[c] > collMod[c] \/ collMod'[c] = 0]_vars

=============================================================================
