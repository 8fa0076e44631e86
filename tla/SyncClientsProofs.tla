------------------------- MODULE SyncClientsProofs -------------------------
(***************************************************************************)
(* What holds of the clients of the store beside one another: a device that*)
(* reads incrementally (SyncReader), devices that upload in chunks         *)
(* (SyncUploads) and a client that reads page by page (SyncPages).         *)
(***************************************************************************)
EXTENDS SyncReader, SyncUploads, SyncPages, SyncStoreProofs, FiniteSetTheorems

-----------------------------------------------------------------------------
(* SyncReader: incremental reads lose nothing, for every set of records.   *)

(* What one record is after a step of the store: gone, stamped by a write  *)
(* that got past the guard, or as any client saw it.                       *)
Traced(c, i) ==
  \/ rows'[c][i] = NoRow
  \/ rows'[c][i].modified = now /\ now' = now /\ CanAdvance(c)
  \/ /\ rows'[c][i].modified = rows[c][i].modified
     /\ Content(rows'[c][i]) = Content(rows[c][i])

(* What a collection's stamp is after a step of the store that is not a    *)
(* wipe: where it was, at the request's instant, or gone; it moves only    *)
(* past the guard, and then the clock stands still.                        *)
StampTraced(c) ==
  \/ collMod'[c] = collMod[c]
  \/ now' = now /\ CanAdvance(c) /\ collMod'[c] \in {0, now}

(* put_bso leaves a record it does not stamp as clients see it.            *)
LEMMA PutKeepsContent ==
  ASSUME NEW r, NEW b
  PROVE  \/ PutRow(r, b).modified = now
         \/ /\ PutRow(r, b).modified = r.modified
            /\ Content(PutRow(r, b)) = Content(r)
BY DEF PutRow, Content, Coalesce

(* A list of records, stored, traces each record of the collection.        *)
LEMMA PutAllTraces ==
  ASSUME NEW recs, NEW post, NEW i \in Ids
  PROVE  \/ PutAll(recs, post)[i].modified = now
         \/ /\ PutAll(recs, post)[i].modified = recs[i].modified
            /\ Content(PutAll(recs, post)[i]) = Content(recs[i])
BY PutKeepsContent DEF PutAll

LEMMA CommitAllTraces ==
  ASSUME NEW recs, NEW items, NEW i \in Ids
  PROVE  \/ CommitAll(recs, items)[i].modified = now
         \/ CommitAll(recs, items)[i] = recs[i]
BY DEF CommitAll, CommitRow

(* Every step of the store traces every record.                            *)
LEMMA StoreTraces ==
  ASSUME TypeOK, PlainWrite \/ BatchWrite \/ Tick \/ StepBack,
         NEW d \in Collections, NEW j \in Ids
  PROVE  Traced(d, j)
<1> USE DEF TypeOK
<1> DEFINE Goal == Traced(d, j)
<1>1. ASSUME NEW c \in Collections, CanAdvance(c), Stamp(c), now' = now,
             NEW recs, rows' = [rows EXCEPT ![c] = recs],
             \/ recs[j] = NoRow
             \/ recs[j].modified = now
             \/ /\ recs[j].modified = rows[c][j].modified
                /\ Content(recs[j]) = Content(rows[c][j])
      PROVE  Goal
  <2>1. CASE d = c
    BY <1>1, <2>1 DEF Traced
  <2>2. CASE d # c
    <3>1. rows'[d] = rows[d]
      BY <1>1, <2>2
    <3> QED
      BY <3>1 DEF Traced
  <2> QED
    BY <2>1, <2>2
<1>2. ASSUME rows' = rows, collMod' = collMod
      PROVE  Goal
  BY <1>2 DEF Traced
<1> HIDE DEF Goal
<1>3. ASSUME NEW c \in Collections, NEW i \in Ids, NEW b \in Bodies, NEW h \in Headers,
             PutBso(c, i, b, h)
      PROVE  Goal
  <2> DEFINE recs == [rows[c] EXCEPT ![i] = PutRow(rows[c][i], b)]
  <2>1. recs[j] = IF i = j THEN PutRow(rows[c][j], b) ELSE rows[c][j]
    OBVIOUS
  <2>2. /\ rows' = [rows EXCEPT ![c] = recs]
        /\ CanAdvance(c) /\ Stamp(c) /\ now' = now
    BY <1>3 DEF PutBso, Admits
  <2> HIDE DEF recs
  <2>3. \/ recs[j].modified = now
        \/ /\ recs[j].modified = rows[c][j].modified
           /\ Content(recs[j]) = Content(rows[c][j])
    BY <2>1, PutKeepsContent
  <2> QED
    BY <1>1, <2>2, <2>3
<1>4. ASSUME NEW c \in Collections, NEW S, CanAdvance(c), Stamp(c), now' = now,
             rows' = [rows EXCEPT ![c] = Without(rows[c], S)]
      PROVE  Goal
  <2>1. Without(rows[c], S)[j] \in {NoRow, rows[c][j]}
    BY DEF Without
  <2> QED
    BY <1>1, <1>4, <2>1
<1>5. ASSUME NEW c \in Collections, NEW post \in Posts, NEW h \in Headers,
             PostBsos(c, post, h)
      PROVE  Goal
  <2>1. /\ rows' = [rows EXCEPT ![c] = PutAll(rows[c], post)]
        /\ CanAdvance(c) /\ Stamp(c) /\ now' = now
    BY <1>5 DEF PostBsos, Admits
  <2> DEFINE recs == PutAll(rows[c], post)
  <2>2. \/ recs[j].modified = now
        \/ /\ recs[j].modified = rows[c][j].modified
           /\ Content(recs[j]) = Content(rows[c][j])
    BY PutAllTraces
  <2>3. rows' = [rows EXCEPT ![c] = recs]
    BY <2>1
  <2> HIDE DEF recs
  <2> QED
    BY <1>1, <2>1, <2>2, <2>3
<1>6. ASSUME NEW c \in Collections, NEW h \in Headers, DeleteCollection(c, h)
      PROVE  Goal
  <2>1. /\ rows' = [rows EXCEPT ![c] = [i \in Ids |-> NoRow]]
        /\ CanAdvance(c) /\ now' = now
    BY <1>6 DEF DeleteCollection, Without, Admits
  <2>3. CASE d = c
    BY <2>1, <2>3 DEF Goal, Traced
  <2>4. CASE d # c
    <3>1. rows'[d] = rows[d]
      BY <2>1, <2>4
    <3> QED
      BY <3>1 DEF Goal, Traced
  <2> QED
    BY <2>3, <2>4
<1>7. ASSUME NEW c \in Collections, NEW id, NEW post \in Posts, NEW h \in Headers,
             CommitBatch(c, id, post, h)
      PROVE  Goal
  <2>1. PICK b \in batches : rows' = [rows EXCEPT ![c] = PutAll(CommitAll(rows[c], b.items), post)]
    BY <1>7 DEF CommitBatch
  <2> DEFINE landed == CommitAll(rows[c], b.items)
  <2>2. landed[j].modified = now \/ landed[j] = rows[c][j]
    BY CommitAllTraces
  <2> HIDE DEF landed
  <2>3. \/ PutAll(landed, post)[j].modified = now
        \/ /\ PutAll(landed, post)[j].modified = rows[c][j].modified
           /\ Content(PutAll(landed, post)[j]) = Content(rows[c][j])
    BY <2>2, PutAllTraces
  <2>4. CanAdvance(c) /\ Stamp(c) /\ now' = now
    BY <1>7 DEF CommitBatch, Admits
  <2>5. rows' = [rows EXCEPT ![c] = PutAll(landed, post)]
    BY <2>1 DEF landed
  <2> QED
    BY <1>1, <2>3, <2>4, <2>5
<1>8. PlainWrite => Goal
  <2>1. ASSUME NEW c \in Collections, NEW i \in Ids, NEW h \in Headers, DeleteBso(c, i, h)
        PROVE  Goal
    BY <2>1, <1>4 DEF DeleteBso, Admits
  <2>2. ASSUME NEW c \in Collections, NEW S \in SUBSET Ids, NEW h \in Headers,
               DeleteBsos(c, S, h)
        PROVE  Goal
    BY <2>2, <1>4 DEF DeleteBsos, Admits
  <2> QED
    BY <2>1, <2>2, <1>3, <1>5, <1>6 DEF PlainWrite
<1>9. BatchWrite => Goal
  <2>1. ASSUME NEW c \in Collections, NEW id, NEW post \in Posts, NEW h \in Headers,
               OpenBatch(c, id, post, h) \/ AppendBatch(c, id, post, h)
        PROVE  Goal
    BY <2>1, <1>2 DEF OpenBatch, AppendBatch
  <2> QED
    BY <2>1, <1>7 DEF BatchWrite
<1>10. Tick \/ StepBack => Goal
  BY <1>2 DEF Tick, StepBack
<1> QED
  BY <1>8, <1>9, <1>10 DEF Goal

(* Requests take no time; every step of the store traces every stamp.      *)
LEMMA StampTraces ==
  ASSUME TypeOK, PlainWrite \/ BatchWrite \/ Tick \/ StepBack,
         NEW d \in Collections
  PROVE  /\ StampTraced(d)
         /\ PlainWrite \/ BatchWrite => now' = now
         /\ now' # now => collMod' = collMod
<1> USE DEF TypeOK
<1> DEFINE Goal == StampTraced(d) /\ now' = now
<1>1. ASSUME NEW c \in Collections, CanAdvance(c), Stamp(c), now' = now
      PROVE  Goal
  BY <1>1 DEF StampTraced, Stamp
<1>2. ASSUME NEW c \in Collections, NEW h \in Headers, DeleteCollection(c, h)
      PROVE  Goal
  BY <1>2, TombstoneAssumption DEF DeleteCollection, Admits, StampTraced
<1>3. ASSUME collMod' = collMod
      PROVE  StampTraced(d)
  BY <1>3 DEF StampTraced
<1> HIDE DEF Goal
<1>4. PlainWrite => Goal
  BY <1>1, <1>2 DEF PlainWrite, PutBso, DeleteBso, PostBsos, DeleteBsos, Admits
<1>5. ASSUME NEW c \in Collections, NEW id, NEW post \in Posts, NEW h \in Headers,
             OpenBatch(c, id, post, h) \/ AppendBatch(c, id, post, h) \/ CommitBatch(c, id, post, h)
      PROVE  Goal
  BY <1>1, <1>3, <1>5 DEF OpenBatch, AppendBatch, CommitBatch, Admits, Goal
<1>6. BatchWrite => Goal
  BY <1>5 DEF BatchWrite
<1>7. Tick \/ StepBack => StampTraced(d) /\ collMod' = collMod
  BY <1>3 DEF Tick, StepBack
<1> QED
  BY <1>4, <1>6, <1>7 DEF Goal

-----------------------------------------------------------------------------
Copy == [payload : Payloads \cup {Blank}, sortindex : Sortindexes \cup {Null}]

(* What a device reads of a record, and what it uploads, is a copy of it.  *)
LEMMA ContentIsCopy ==
  ASSUME NEW r \in Row
  PROVE  Content(r) \in Copy
BY DEF Content, Copy, Row

LEMMA UploadIsCopy ==
  ASSUME NEW post \in WholePosts, NEW i \in DOMAIN post
  PROVE  /\ [payload |-> post[i].payload, sortindex |-> post[i].sortindex] \in Copy
         /\ \A r : Content(PutRow(r, post[i]))
                   = [payload |-> post[i].payload, sortindex |-> post[i].sortindex]
<1>1. post[i] \in Bodies /\ post[i].payload # Null /\ post[i].sortindex # Null
  BY DEF WholePosts, WholeBodies
<1>2. post[i].payload \in Payloads /\ post[i].sortindex \in Sortindexes
  BY <1>1, BodiesAssumption DEF Fields
<1>3. ASSUME NEW r
      PROVE  Content(PutRow(r, post[i]))
               = [payload |-> post[i].payload, sortindex |-> post[i].sortindex]
  BY <1>1 DEF Content, PutRow, Coalesce
<1> QED
  BY <1>2, <1>3 DEF Copy

(* The upload's own precondition aside, an upload is a POST like any other.*)
LEMMA UploadKeepsStore ==
  ASSUME TypeOK, StampCoversRecords, NEW c \in Collections, NEW post \in WholePosts,
         Upload(c, post)
  PROVE  /\ TypeOK' /\ StampCoversRecords'
         /\ CanAdvance(c) /\ collMod[c] <= seen[c] /\ collMod'[c] = now /\ now' = now
         /\ rows'[c] = PutAll(rows[c], post)
         /\ \A d \in Collections \ {c} : rows'[d] = rows[d] /\ collMod'[d] = collMod[d]
<1>1. /\ rows' = [rows EXCEPT ![c] = PutAll(rows[c], post)]
      /\ CanAdvance(c) /\ Stamp(c) /\ collMod[c] <= seen[c]
      /\ now' = now /\ batches' = batches
  BY DEF Upload, PostBsos, Admits, Proceeds, Unmodified
<1>2. post \in Posts
  BY DEF WholePosts
<1>3. /\ rows[c] \in [Ids -> Row]
      /\ \A j \in Ids : rows[c][j].modified <= now
  BY <1>1, RecordsArePast
<1>4. now \in Nat \ {0}
  BY DEF TypeOK
<1>5. /\ PutAll(rows[c], post) \in [Ids -> Row]
      /\ \A j \in Ids : PutAll(rows[c], post)[j].modified <= now
  BY <1>2, <1>3, <1>4, RecordsStored, RecordsStamped
<1>6. /\ StampCoversRecords'
      /\ \A d \in Collections \ {c} : rows'[d] = rows[d] /\ collMod'[d] = collMod[d]
  BY <1>1, <1>5, WriteStamps
<1>7. TypeOK'
  BY <1>1, <1>5 DEF TypeOK, Stamp
<1>8. rows'[c] = PutAll(rows[c], post) /\ collMod'[c] = now
  BY <1>1 DEF TypeOK, Stamp
<1> QED
  BY <1>1, <1>6, <1>7, <1>8

LEMMA ReaderStepKeepsTypes ==
  ASSUME ReaderTypeOK, StampCoversRecords, [ReaderNext]_allVars
  PROVE  ReaderTypeOK' /\ StampCoversRecords'
<1> USE DEF ReaderTypeOK
<1>1. [Next]_vars => TypeOK' /\ StampCoversRecords'
  BY StepKeepsTypes, StepCoversRecords
<1>2. CASE OthersWrite
  BY <1>1, <1>2 DEF OthersWrite, Next, Revived
<1>3. CASE ClockFallsBack
  BY <1>1, <1>3 DEF ClockFallsBack, Next, Revived
<1>4. CASE OthersWipe
  BY <1>1, <1>4 DEF OthersWipe, Next
<1>5. ASSUME NEW c \in Collections, ReadNewer(c) \/ ReadAll(c)
      PROVE  ReaderTypeOK' /\ StampCoversRecords'
  <2>1. UNCHANGED vars
    BY <1>5 DEF ReadNewer, ReadAll, vars
  <2>2. TypeOK' /\ StampCoversRecords'
    BY <1>1, <2>1
  <2>3. collMod[c] \in Nat /\ \A i \in Ids : Content(rows[c][i]) \in Copy
    BY ContentIsCopy DEF TypeOK
  <2>4. ASSUME NEW copy \in [Ids -> Copy \cup {Null}], mirror' = [mirror EXCEPT ![c] = copy],
               seen' = [seen EXCEPT ![c] = collMod[c]], current' \in [Collections -> BOOLEAN],
               revived' = revived
        PROVE  ReaderTypeOK'
    BY <2>2, <2>3, <2>4 DEF Copy
  <2>5. CASE ReadNewer(c)
    <3> DEFINE copy == [i \in Ids |-> IF Visible(rows[c][i]) /\ rows[c][i].modified > seen[c]
                                      THEN Content(rows[c][i]) ELSE mirror[c][i]]
    <3>1. copy \in [Ids -> Copy \cup {Null}]
      BY <2>3 DEF Copy
    <3> QED
      BY <2>5, <3>1, <2>2, <2>4 DEF ReadNewer
  <2>6. CASE ReadAll(c)
    <3> DEFINE copy == [i \in Ids |-> IF Visible(rows[c][i])
                                      THEN Content(rows[c][i]) ELSE Null]
    <3>1. copy \in [Ids -> Copy \cup {Null}]
      BY <2>3
    <3>2. current' \in [Collections -> BOOLEAN] /\ revived' = revived
      BY <2>6 DEF ReadAll
    <3> QED
      BY <2>6, <3>1, <3>2, <2>2, <2>4 DEF ReadAll
  <2> QED
    BY <1>5, <2>5, <2>6
<1>6. ASSUME NEW c \in Collections, NEW post \in WholePosts, Upload(c, post)
      PROVE  ReaderTypeOK' /\ StampCoversRecords'
  <2>1. TypeOK' /\ StampCoversRecords'
    BY <1>6, UploadKeepsStore
  <2>2. now \in Nat
    BY DEF TypeOK
  <2> QED
    BY <1>6, <2>1, <2>2, UploadIsCopy DEF Upload, Revived, Copy
<1>7. CASE UNCHANGED allVars
  BY <1>1, <1>7 DEF allVars, vars
<1> QED
  BY <1>2, <1>3, <1>4, <1>5, <1>6, <1>7 DEF ReaderNext, Device

-----------------------------------------------------------------------------
ReaderInv == ReaderTypeOK /\ StampCoversRecords /\ StampIsPast /\ MirrorComplete

(* A write that gets past the guard is stamped above what the device holds.*)
LEMMA AdvancePassesSeen ==
  ASSUME ReaderTypeOK, StampIsPast, NEW c \in Collections, current[c], CanAdvance(c)
  PROVE  seen[c] < now
BY DEF ReaderTypeOK, TypeOK, StampIsPast, CanAdvance

(* One record stays complete over a step that leaves the device alone.     *)
LEMMA TracedStaysComplete ==
  ASSUME ReaderInv, ReaderTypeOK', NEW c \in Collections, NEW i \in Ids,
         Traced(c, i), seen'[c] = seen[c], mirror'[c][i] = mirror[c][i],
         current'[c] => current[c], revived' = Revived,
         current'[c], rows'[c][i].expiry > now', rows'[c][i].modified <= seen'[c],
         <<c, i>> \notin revived'
  PROVE  mirror'[c][i] = Content(rows'[c][i])
<1>1. rows'[c][i] # NoRow
  BY DEF NoRow, ReaderTypeOK, TypeOK
<1>2. ~(rows'[c][i].modified = now /\ now' = now /\ CanAdvance(c))
  BY AdvancePassesSeen DEF ReaderInv, ReaderTypeOK, TypeOK
<1>3. /\ rows'[c][i].modified = rows[c][i].modified
      /\ Content(rows'[c][i]) = Content(rows[c][i])
  BY <1>1, <1>2 DEF Traced
<1>4. <<c, i>> \notin revived /\ Visible(rows[c][i])
  BY <1>3 DEF Revived, Revives
<1> QED
  BY <1>3, <1>4 DEF ReaderInv, MirrorComplete

LEMMA StampStepStaysPast ==
  ASSUME ReaderInv, ReaderTypeOK', NEW c \in Collections,
         StampTraced(c), seen'[c] = seen[c],
         current'[c] => /\ current[c]
                        /\ now' >= now \/ collMod[c] # 0 \/ seen[c] < now',
         now' # now => collMod'[c] = collMod[c],
         current'[c]
  PROVE  IF collMod'[c] # 0 THEN seen'[c] <= collMod'[c] ELSE seen'[c] < now'
<1>1. /\ seen[c] \in Nat /\ collMod[c] \in Nat /\ collMod'[c] \in Nat
      /\ now \in Nat \ {0} /\ now' \in Nat \ {0}
  BY DEF ReaderInv, ReaderTypeOK, TypeOK
<1>2. IF collMod[c] # 0 THEN seen[c] <= collMod[c] ELSE seen[c] < now
  BY DEF ReaderInv, StampIsPast
<1>3. CASE collMod'[c] = collMod[c]
  BY <1>1, <1>2, <1>3
<1>4. CASE now' = now /\ CanAdvance(c) /\ collMod'[c] \in {0, now}
  <2>1. seen[c] < now
    BY <1>4, AdvancePassesSeen DEF ReaderInv
  <2> QED
    BY <1>1, <1>4, <2>1
<1> QED
  BY <1>3, <1>4 DEF StampTraced

LEMMA ReaderStepKeepsInv ==
  ASSUME ReaderInv, [ReaderNext]_allVars
  PROVE  ReaderInv'
<1>1. ReaderTypeOK' /\ StampCoversRecords'
  BY ReaderStepKeepsTypes DEF ReaderInv
<1> DEFINE Past == \A c \in Collections :
             current'[c] => IF collMod'[c] # 0 THEN seen'[c] <= collMod'[c] ELSE seen'[c] < now'
           Complete == \A c \in Collections, i \in Ids :
             /\ current'[c] /\ rows'[c][i].expiry > now' /\ rows'[c][i].modified <= seen'[c]
             /\ <<c, i>> \notin revived'
             => mirror'[c][i] = Content(rows'[c][i])
<1>2. Past /\ Complete => ReaderInv'
  BY <1>1 DEF ReaderInv, StampIsPast, MirrorComplete, Visible, Content
<1>3. CASE OthersWrite \/ ClockFallsBack
  <2>1. /\ PlainWrite \/ BatchWrite \/ Tick \/ StepBack
        /\ revived' = Revived /\ seen' = seen /\ mirror' = mirror
    BY <1>3 DEF OthersWrite, ClockFallsBack
  <2>2. \A c \in Collections, i \in Ids : Traced(c, i)
    BY <2>1, StoreTraces DEF ReaderInv, ReaderTypeOK
  <2>3. \A c \in Collections : /\ StampTraced(c)
                               /\ PlainWrite \/ BatchWrite => now' = now
                               /\ now' # now => collMod' = collMod
    BY <2>1, StampTraces DEF ReaderInv, ReaderTypeOK
  <2>4. ASSUME NEW c \in Collections, current'[c]
        PROVE  current[c] /\ (now' >= now \/ collMod[c] # 0 \/ seen[c] < now')
    <3>1. CASE OthersWrite
      <4>1. current' = current
        BY <3>1 DEF OthersWrite
      <4>2. now' >= now
        <5>1. now \in Nat /\ Quantum \in Nat
          BY NumbersAssumption DEF ReaderInv, ReaderTypeOK, TypeOK
        <5> QED
          BY <2>3, <3>1, <5>1 DEF OthersWrite, Tick
      <4> QED
        BY <2>4, <4>1, <4>2
    <3>2. CASE ClockFallsBack
      BY <2>4, <3>2 DEF ClockFallsBack
    <3> QED
      BY <1>3, <3>1, <3>2
  <2>5. Complete
    BY <1>1, <2>1, <2>2, <2>4, TracedStaysComplete
  <2>7. Past
    BY <1>1, <2>1, <2>3, <2>4, StampStepStaysPast
  <2> QED
    BY <1>2, <2>5, <2>7
<1>4. CASE OthersWipe
  <2>1. \A c \in Collections : current'[c] = FALSE
    BY <1>4 DEF OthersWipe
  <2> QED
    BY <1>2, <2>1
<1>5. ASSUME NEW c \in Collections, ReadNewer(c) \/ ReadAll(c)
      PROVE  ReaderInv'
  <2>1. /\ now' = now /\ rows' = rows /\ collMod' = collMod /\ revived' = revived
        /\ \A d \in Collections \ {c} :
             seen'[d] = seen[d] /\ mirror'[d] = mirror[d] /\ current'[d] = current[d]
        /\ seen'[c] = collMod[c]
    BY <1>5 DEF ReadNewer, ReadAll, ReaderInv, ReaderTypeOK
  <2>2. Past
    <3>1. collMod[c] \in Nat /\ now \in Nat \ {0}
      BY DEF ReaderInv, ReaderTypeOK, TypeOK
    <3> QED
      BY <2>1, <3>1 DEF ReaderInv, StampIsPast
  <2>3. ASSUME NEW i \in Ids, current'[c], Visible(rows[c][i]), <<c, i>> \notin revived
        PROVE  mirror'[c][i] = Content(rows[c][i])
    <3>1. CASE ReadNewer(c)
      <4>1. mirror'[c][i] = IF rows[c][i].modified > seen[c]
                            THEN Content(rows[c][i]) ELSE mirror[c][i]
        BY <2>3, <3>1 DEF ReadNewer, ReaderInv, ReaderTypeOK
      <4>2. current[c]
        BY <2>3, <3>1 DEF ReadNewer
      <4>3. rows[c][i].modified \in Nat /\ seen[c] \in Nat
        BY DEF ReaderInv, ReaderTypeOK, TypeOK, Row
      <4> QED
        BY <2>3, <4>1, <4>2, <4>3 DEF ReaderInv, MirrorComplete
    <3>2. CASE ReadAll(c)
      BY <2>3, <3>2 DEF ReadAll, ReaderInv, ReaderTypeOK
    <3> QED
      BY <1>5, <3>1, <3>2
  <2>4. Complete
    BY <2>1, <2>3 DEF ReaderInv, MirrorComplete, Visible
  <2> QED
    BY <1>2, <2>2, <2>4
<1>6. ASSUME NEW c \in Collections, NEW post \in WholePosts, Upload(c, post)
      PROVE  ReaderInv'
  <2>1. /\ now' = now /\ current' = current /\ revived' = Revived
        /\ \A d \in Collections \ {c} : seen'[d] = seen[d] /\ mirror'[d] = mirror[d]
        /\ seen'[c] = now
    BY <1>6 DEF Upload, PostBsos, ReaderInv, ReaderTypeOK
  <2>2. /\ collMod[c] <= seen[c] /\ collMod'[c] = now
        /\ rows'[c] = PutAll(rows[c], post)
        /\ \A d \in Collections \ {c} : rows'[d] = rows[d] /\ collMod'[d] = collMod[d]
    BY <1>6, UploadKeepsStore DEF ReaderInv, ReaderTypeOK
  <2>3. Past
    <3>1. now \in Nat \ {0}
      BY DEF ReaderInv, ReaderTypeOK, TypeOK
    <3> QED
      BY <2>1, <2>2, <3>1 DEF ReaderInv, StampIsPast
  <2>4. ASSUME NEW d \in Collections, NEW i \in Ids, current'[d],
               rows'[d][i].expiry > now', <<d, i>> \notin revived',
               rows'[d][i].modified <= seen'[d]
        PROVE  mirror'[d][i] = Content(rows'[d][i])
    <3>1. ASSUME rows'[d][i] = rows[d][i]
          PROVE  <<d, i>> \notin revived /\ Visible(rows[d][i])
      BY <2>1, <2>4, <3>1 DEF Revived, Visible
    <3>2. CASE d # c
      BY <2>1, <2>2, <2>4, <3>1, <3>2 DEF ReaderInv, MirrorComplete
    <3>3. CASE d = c /\ i \in DOMAIN post
      <4>1. rows'[c][i] = PutRow(rows[c][i], post[i])
        BY <2>2, <3>3 DEF PutAll
      <4>2. mirror'[c][i] = [payload |-> post[i].payload, sortindex |-> post[i].sortindex]
        BY <1>6, <3>3 DEF Upload, ReaderInv, ReaderTypeOK
      <4> QED
        BY <3>3, <4>1, <4>2, UploadIsCopy
    <3>4. CASE d = c /\ i \notin DOMAIN post
      <4>1. rows'[c][i] = rows[c][i]
        BY <2>2, <3>4 DEF PutAll
      <4>2. mirror'[c][i] = mirror[c][i]
        BY <1>6, <3>4 DEF Upload, ReaderInv, ReaderTypeOK
      <4>3. rows[c][i].modified <= seen[c]
        <5>1. rows[c][i].modified \in Nat /\ collMod[c] \in Nat /\ seen[c] \in Nat
          BY DEF ReaderInv, ReaderTypeOK, TypeOK, Row
        <5> QED
          BY <2>2, <5>1 DEF ReaderInv, StampCoversRecords
      <4> QED
        BY <2>1, <2>4, <3>1, <3>4, <4>1, <4>2, <4>3 DEF ReaderInv, MirrorComplete
    <3> QED
      BY <3>2, <3>3, <3>4
  <2> QED
    BY <1>2, <2>3, <2>4
<1>7. CASE UNCHANGED allVars
  <2>1. Past
    BY <1>7 DEF allVars, ReaderInv, StampIsPast
  <2>2. Complete
    BY <1>7 DEF allVars, ReaderInv, MirrorComplete, Visible
  <2> QED
    BY <1>2, <2>1, <2>2
<1> QED
  BY <1>3, <1>4, <1>5, <1>6, <1>7 DEF ReaderNext, Device

(* Any number of clients writing, expiring, deleting and wiping, and a     *)
(* clock that may be set back: the device's tables keep their shape, its   *)
(* stamp stays in the past of every later write, and its copy is complete  *)
(* up to that stamp.                                                       *)
THEOREM ReaderInvariant == ReaderSpec => []ReaderInv
<1>1. ReaderInit => ReaderInv
  <2>1. Init => TypeOK /\ StampCoversRecords /\ \A c \in Collections : collMod[c] = 0
    BY NumbersAssumption DEF Init, TypeOK, StampCoversRecords, NoRow, Row
  <2>2. ASSUME ReaderInit
        PROVE  StampIsPast /\ MirrorComplete
    BY <2>1, <2>2, NumbersAssumption
       DEF ReaderInit, Init, TypeOK, StampIsPast, MirrorComplete, Visible, NoRow
  <2> QED
    BY <2>1, <2>2 DEF ReaderInit, ReaderInv, ReaderTypeOK
<1> QED
  BY <1>1, ReaderStepKeepsInv, PTL DEF ReaderSpec

(* The stamp a device holds stays below every stamp a later write can get. *)
THEOREM DeviceStampIsPast == ReaderSpec => []StampIsPast
<1>1. ReaderInv => StampIsPast
  BY DEF ReaderInv
<1> QED
  BY <1>1, ReaderInvariant, PTL

(* Incremental sync loses no live record.                                  *)
THEOREM IncrementalSyncIsComplete == ReaderSpec => []MirrorComplete
<1>1. ReaderInv => MirrorComplete
  BY DEF ReaderInv
<1> QED
  BY <1>1, ReaderInvariant, PTL

(* A 304, or a precondition that passes, is an honest answer to the device.*)
THEOREM UnmovedIsCurrent == ReaderSpec => []UnmovedMeansCurrent
<1>1. ReaderInv => UnmovedMeansCurrent
  <2> SUFFICES ASSUME ReaderInv, NEW c \in Collections, NEW i \in Ids,
                      current[c], collMod[c] <= seen[c],
                      Visible(rows[c][i]), <<c, i>> \notin revived
               PROVE  mirror[c][i] = Content(rows[c][i])
    <3>1. ReaderInv => \A c \in Collections : collMod[c] \in Nat /\ seen[c] \in Nat
      BY DEF ReaderInv, ReaderTypeOK, TypeOK
    <3> QED
      BY <3>1 DEF UnmovedMeansCurrent, Proceeds, Unmodified
  <2>1. rows[c][i].modified \in Nat /\ collMod[c] \in Nat /\ seen[c] \in Nat
    BY DEF ReaderInv, ReaderTypeOK, TypeOK, Row
  <2>2. rows[c][i].modified <= seen[c]
    BY <2>1 DEF ReaderInv, StampCoversRecords
  <2> QED
    BY <2>2 DEF ReaderInv, MirrorComplete
<1> QED
  BY <1>1, ReaderInvariant, PTL

-----------------------------------------------------------------------------
(* SyncUploads: any number of devices, batches and records.                *)

(* The inductive invariant.                                                *)

IsOpen(c, id) == \E b \in batches : b.id = id /\ b.coll = c

(* An id of this hundredth or an earlier one: the clock only advances here.*)
Past ==
  /\ \A b \in batches : b.id < now + Quantum
  /\ \A d \in Devices : upload[d].id < now + Quantum
  /\ \A c \in Collections : collMod[c] <= now

(* An upload whose batch is gone was committed: in the hundredth of its id *)
(* the collection is stamped, so that nobody opens the batch anew.         *)
GoneIsStamped ==
  \A d \in Devices :
    Working(d) /\ upload[d].fate # "wiped" /\ upload[d].id >= now
      /\ ~IsOpen(upload[d].coll, upload[d].id)
    => collMod[upload[d].coll] = now

(* A commit that landed closed the batch for good.                         *)
LandedIsClosed ==
  \A d \in Devices :
    upload[d].fate = "own" /\ upload[d].landed > 0 => ~IsOpen(upload[d].coll, upload[d].id)

(* Nobody else, not even with an upload from before a wipe, has the batch  *)
(* of an upload of one's own.                                              *)
OwnIsAlone ==
  \A d, e \in Devices :
    Working(d) /\ upload[d].fate = "own"
      /\ upload[e].id = upload[d].id /\ upload[e].coll = upload[d].coll
    => d = e

UploadsApart ==
  Past /\ GoneIsStamped /\ LandedIsClosed /\ OwnIsAlone /\ BatchHoldsLedger /\ CommitLandsOnce

UploadsInvariant == UploadsTypeOK /\ OneBatchPerId /\ UploadsApart

-----------------------------------------------------------------------------
(* Types, and that the devices' requests are requests of the store.        *)

LEMMA NoRecords == <<>> \in Posts
<1>1. <<>> \in [{} -> Bodies]
  OBVIOUS
<1> QED
  BY <1>1 DEF Posts

LEMMA RestOfPosts ==
  ASSUME NEW p \in Posts, NEW q
  PROVE  Rest(p, q) \in Posts
<1>1. PICK S \in SUBSET Ids : p \in [S -> Bodies]
  BY DEF Posts
<1>2. Rest(p, q) \in [S \ DOMAIN q -> Bodies]
  BY <1>1 DEF Rest
<1> QED
  BY <1>2 DEF Posts

LEMMA UploadFields ==
  ASSUME upload \in [Devices -> UploadState], NEW d \in Devices
  PROVE  /\ upload[d].id \in Nat /\ upload[d].coll \in Collections /\ upload[d].ledger \in Posts
         /\ upload[d].landed \in 0 .. 2 /\ upload[d].fate \in {"own", "wiped", "shared"}
BY DEF UploadState

LEMMA StepKeepsUploads ==
  ASSUME TypeOK, upload \in [Devices -> UploadState], [UploadsNext]_uploadVars
  PROVE  upload' \in [Devices -> UploadState]
<1>1. ASSUME NEW d \in Devices, NEW u \in UploadState, upload' = [upload EXCEPT ![d] = u]
      PROVE  upload' \in [Devices -> UploadState]
  BY <1>1
<1>2. ASSUME NEW d \in Devices, NEW c \in Collections, NEW id \in now .. now + BatchRetries - 1,
             NEW post \in Posts, StartUpload(d, c, id, post)
      PROVE  upload' \in [Devices -> UploadState]
  <2>1. id \in Nat
    BY NumbersAssumption DEF TypeOK
  <2>2. CASE Begin(d, c, id, post)
    <3>1. PICK fate \in {"own", "shared"} :
            upload' = [upload EXCEPT ![d] =
              [id |-> id, coll |-> c, ledger |-> post, landed |-> 0, fate |-> fate]]
      BY <2>2 DEF Begin
    <3>2. [id |-> id, coll |-> c, ledger |-> post, landed |-> 0, fate |-> fate] \in UploadState
      BY <2>1 DEF UploadState
    <3> QED
      BY <1>1, <3>1, <3>2
  <2> QED
    BY <1>2, <2>2 DEF StartUpload
<1>3. ASSUME NEW d \in Devices, NEW post \in Posts, Append(d, post)
      PROVE  upload' \in [Devices -> UploadState]
  <2>1. Over(post, upload[d].ledger) \in Posts /\ Rest(upload[d].ledger, post) \in Posts
    BY UploadFields, PostsMerge, RestOfPosts
  <2>2. PICK ledger \in Posts : upload' = [upload EXCEPT ![d].ledger = ledger]
    BY <1>3, <2>1 DEF Append
  <2> QED
    BY <2>2 DEF UploadState
<1>4. ASSUME NEW d \in Devices, NEW post \in Posts, Commit(d, post)
      PROVE  upload' \in [Devices -> UploadState]
  <2>1. PICK landed \in {1, 2} : upload' = [upload EXCEPT ![d].landed = landed]
    BY <1>4 DEF Commit
  <2> QED
    BY <2>1 DEF UploadState
<1>5. ASSUME NEW d \in Devices, Finish(d)
      PROVE  upload' \in [Devices -> UploadState]
  <2>1. PICK empty \in Posts : empty = <<>>
    BY NoRecords
  <2>2. PICK u \in UploadState : u = upload[d]
    OBVIOUS
  <2>3. upload' = [upload EXCEPT ![d] = [u EXCEPT !.id = 0, !.ledger = empty,
                                                  !.landed = 0, !.fate = "own"]]
    BY <1>5, <2>1, <2>2 DEF Finish
  <2>4. [u EXCEPT !.id = 0, !.ledger = empty, !.landed = 0, !.fate = "own"] \in UploadState
    <3>1. [u EXCEPT !.id = 0] \in UploadState
      BY DEF UploadState
    <3>2. \A v \in UploadState : [v EXCEPT !.ledger = empty] \in UploadState
      BY DEF UploadState
    <3>3. \A v \in UploadState : [v EXCEPT !.landed = 0] \in UploadState
      BY DEF UploadState
    <3>4. \A v \in UploadState : [v EXCEPT !.fate = "own"] \in UploadState
      BY DEF UploadState
    <3> QED
      BY <3>1, <3>2, <3>3, <3>4, Zenon
  <2> QED
    BY <1>1, <2>3, <2>4
<1>6. CASE WipeUnderway
  <2>1. \A d \in Devices : upload'[d] = upload[d] \/ upload'[d] = [upload[d] EXCEPT !.fate = "wiped"]
    BY <1>6 DEF WipeUnderway
  <2>2. upload' = [d \in Devices |-> upload'[d]]
    BY <1>6 DEF WipeUnderway
  <2>3. \A d \in Devices : upload'[d] \in UploadState
    BY <2>1 DEF UploadState
  <2> QED
    BY <2>2, <2>3
<1>7. CASE Others \/ UNCHANGED uploadVars
  BY <1>7 DEF Others, uploadVars
<1> QED
  BY <1>2, <1>3, <1>4, <1>5, <1>6, <1>7 DEF UploadsNext, Uploader

LEMMA UploadsAreRequests ==
  ASSUME upload \in [Devices -> UploadState], [UploadsNext]_uploadVars
  PROVE  [Next]_vars
<1>1. ASSUME NEW d \in Devices, NEW c \in Collections, NEW id \in now .. now + BatchRetries - 1,
             NEW post \in Posts, StartUpload(d, c, id, post)
      PROVE  BatchWrite
  BY <1>1, HeaderlessAssumption DEF StartUpload, BatchWrite
<1>2. ASSUME NEW d \in Devices, NEW post \in Posts, Append(d, post) \/ Commit(d, post)
      PROVE  BatchWrite
  <2>1. upload[d].coll \in Collections
    BY UploadFields
  <2>2. PICK b \in batches : b.id = upload[d].id
    BY <1>2 DEF Append, AppendBatch, Commit, CommitBatch, ValidBatch
  <2> QED
    BY <1>2, <2>1, <2>2, HeaderlessAssumption DEF Append, Commit, BatchWrite
<1>3. ASSUME NEW d \in Devices, Finish(d)
      PROVE  UNCHANGED vars
  BY <1>3 DEF Finish
<1> QED
  BY <1>1, <1>2, <1>3 DEF UploadsNext, Uploader, Others, WipeUnderway, Next, uploadVars, vars

-----------------------------------------------------------------------------
(* Each step, on what the uploads are to each other.                       *)

LEMMA Numbers ==
  ASSUME UploadsTypeOK
  PROVE  /\ now \in Nat \ {0} /\ Quantum \in Nat \ {0} /\ BatchRetries \in Nat
         /\ BatchRetries <= Quantum
         /\ \A c \in Collections : collMod[c] \in Nat
         /\ \A d \in Devices : upload[d].id \in Nat /\ upload[d].coll \in Collections
                               /\ upload[d].landed \in Nat
         /\ \A b \in batches : b.id \in Nat /\ b.items \in Posts
BY NumbersAssumption, RetriesAssumption, UploadFields DEF UploadsTypeOK, TypeOK, Batch

(* Whoever holds a batch that is open alone has its id alone.              *)
LEMMA OneHolder ==
  ASSUME UploadsInvariant, NEW d \in Devices, NEW e \in OpenUploads, e # d, Working(d),
         IsOpen(upload[d].coll, upload[d].id)
  PROVE  upload[e].id # upload[d].id
<1>1. PICK b \in batches : b.id = upload[e].id /\ b.coll = upload[e].coll
  BY DEF UploadsInvariant, UploadsApart, BatchHoldsLedger
<1>2. PICK b2 \in batches : b2.id = upload[d].id /\ b2.coll = upload[d].coll
  BY DEF IsOpen
<1>3. upload[e].fate = "own" /\ Working(e) /\ e \in Devices
  BY DEF OpenUploads
<1> QED
  BY <1>1, <1>2, <1>3 DEF UploadsInvariant, UploadsApart, OneBatchPerId, OwnIsAlone

(* The other clients write, or the clock moves on.                         *)
LEMMA OthersApart ==
  ASSUME UploadsInvariant, Others
  PROVE  UploadsApart'
<1>1. /\ UploadsTypeOK /\ Past /\ GoneIsStamped /\ LandedIsClosed /\ OwnIsAlone
      /\ BatchHoldsLedger /\ CommitLandsOnce
  BY DEF UploadsInvariant, UploadsApart
<1>2. upload' = upload
  BY DEF Others
<1>3. batches' = batches
  BY DEF Others, PlainWrite, PutBso, PostBsos, DeleteBso, DeleteBsos, DeleteCollection, Tick
<1>4. LandedIsClosed' /\ OwnIsAlone' /\ BatchHoldsLedger' /\ CommitLandsOnce'
  BY <1>1, <1>2, <1>3
     DEF LandedIsClosed, OwnIsAlone, BatchHoldsLedger, CommitLandsOnce, IsOpen, OpenUploads, Working
<1>5. Past' /\ GoneIsStamped'
  <2>1. CASE Tick
    BY <1>1, <1>2, <1>3, <2>1, Numbers DEF Tick, Past, GoneIsStamped
  <2>2. CASE PlainWrite
    <3>1. PICK c \in Collections : Stamped(c) \/ Buried(c)
      BY <2>2 DEF PlainWrite, PutBso, PostBsos, DeleteBso, DeleteBsos, DeleteCollection, Admits,
                  Stamped, Buried
    <3>2. now' = now
      BY <2>2 DEF PlainWrite, PutBso, PostBsos, DeleteBso, DeleteBsos, DeleteCollection
    <3>3. \A k \in Collections : IF k = c THEN collMod[k] # now /\ collMod'[k] \in {0, now}
                                 ELSE collMod'[k] = collMod[k]
      BY <1>1, <3>1, Numbers, TombstoneAssumption
         DEF Stamped, Stamp, Buried, CanAdvance, UploadsTypeOK, TypeOK
    <3>4. Past'
      BY <1>1, <1>2, <1>3, <3>2, <3>3, Numbers DEF Past
    <3>5. GoneIsStamped'
      BY <1>1, <1>2, <1>3, <3>2, <3>3, Numbers DEF GoneIsStamped, IsOpen, Working
    <3> QED
      BY <3>4, <3>5
  <2> QED
    BY <2>1, <2>2 DEF Others
<1> QED
  BY <1>4, <1>5 DEF UploadsApart

LEMMA OthersWipeApart ==
  ASSUME UploadsInvariant, WipeUnderway
  PROVE  UploadsApart'
<1>1. /\ UploadsTypeOK /\ Past /\ CommitLandsOnce /\ OwnIsAlone
  BY DEF UploadsInvariant, UploadsApart
<1>2. now' = now /\ batches' = {} /\ \A c \in Collections : collMod'[c] = 0
  BY DEF WipeUnderway, Wipe, DeleteStorage
<1>3. ASSUME NEW d \in Devices
      PROVE  /\ upload'[d].id = upload[d].id /\ upload'[d].landed = upload[d].landed
             /\ IF Working(d) THEN upload'[d].fate = "wiped" ELSE upload'[d] = upload[d]
  <2>1. PICK u \in UploadState : u = upload[d]
    BY <1>1 DEF UploadsTypeOK
  <2>2. upload'[d] = IF Working(d) THEN [u EXCEPT !.fate = "wiped"] ELSE u
    BY <2>1 DEF WipeUnderway
  <2> QED
    BY <2>1, <2>2 DEF UploadState
<1>4. Past'
  BY <1>1, <1>2, <1>3, Numbers DEF Past
<1>5. ASSUME NEW d \in Devices, upload'[d].fate # "wiped"
      PROVE  ~Working(d) /\ ~Working(d)' /\ upload'[d] = upload[d]
  BY <1>3, <1>5 DEF Working
<1>6. GoneIsStamped' /\ LandedIsClosed' /\ OwnIsAlone' /\ BatchHoldsLedger'
  BY <1>2, <1>5 DEF GoneIsStamped, LandedIsClosed, OwnIsAlone, BatchHoldsLedger, OpenUploads, IsOpen
<1>7. CommitLandsOnce'
  BY <1>1, <1>5 DEF CommitLandsOnce
<1> QED
  BY <1>4, <1>6, <1>7 DEF UploadsApart

LEMMA FinishApart ==
  ASSUME UploadsInvariant, NEW d \in Devices, Finish(d)
  PROVE  UploadsApart'
<1>1. /\ UploadsTypeOK /\ Past /\ GoneIsStamped /\ LandedIsClosed /\ OwnIsAlone
      /\ BatchHoldsLedger /\ CommitLandsOnce /\ upload \in [Devices -> UploadState]
  BY DEF UploadsInvariant, UploadsApart, UploadsTypeOK
<1>2. now' = now /\ collMod' = collMod /\ batches' = batches
  BY DEF Finish, vars
<1>3. \A e \in Devices \ {d} : upload'[e] = upload[e]
  BY <1>1 DEF Finish
<1>4. upload'[d].id = 0 /\ upload'[d].landed = 0
  <2>1. PICK u \in UploadState : u = upload[d]
    BY <1>1
  <2>2. upload'[d] = [u EXCEPT !.id = 0, !.ledger = <<>>, !.landed = 0, !.fate = "own"]
    BY <1>1, <2>1 DEF Finish
  <2> QED
    BY <2>2 DEF UploadState
<1>5. Past'
  BY <1>1, <1>2, <1>3, <1>4, Numbers DEF Past
<1>6. GoneIsStamped' /\ LandedIsClosed' /\ OwnIsAlone'
  BY <1>1, <1>2, <1>3, <1>4 DEF GoneIsStamped, LandedIsClosed, OwnIsAlone, IsOpen, Working
<1>7. BatchHoldsLedger' /\ CommitLandsOnce'
  BY <1>1, <1>2, <1>3, <1>4 DEF BatchHoldsLedger, CommitLandsOnce, OpenUploads, Working
<1> QED
  BY <1>5, <1>6, <1>7 DEF UploadsApart

(* A new batch gets an id that is nobody's in its collection: where an     *)
(* earlier holder closed it in this hundredth, the collection is stamped.  *)
LEMMA NewBatchIsNobodys ==
  ASSUME UploadsInvariant, NEW c, NEW id, NEW post, OpenBatch(c, id, post, NoHeader),
         NEW e \in Devices, upload[e].id = id, upload[e].coll = c, upload[e].fate # "wiped"
  PROVE  FALSE
<1>1. /\ id \in now .. now + BatchRetries - 1 /\ CanAdvance(c)
      /\ \A b \in batches : b.id # id
  BY DEF OpenBatch, Admits, FreshId, Taken
<1>2. UploadsTypeOK /\ GoneIsStamped
  BY DEF UploadsInvariant, UploadsApart
<1>3. id >= now /\ id # 0 /\ c \in Collections
  BY <1>1, <1>2, Numbers
<1>4. collMod[c] = now
  BY <1>1, <1>2, <1>3 DEF GoneIsStamped, IsOpen, Working
<1> QED
  BY <1>1, <1>2, <1>4, Numbers DEF CanAdvance

LEMMA StartApart ==
  ASSUME UploadsInvariant, NEW d \in Devices, NEW c \in Collections,
         NEW id \in now .. now + BatchRetries - 1, NEW post \in Posts, StartUpload(d, c, id, post)
  PROVE  UploadsApart'
<1>1. /\ UploadsTypeOK /\ Past /\ GoneIsStamped /\ LandedIsClosed /\ OwnIsAlone
      /\ BatchHoldsLedger /\ CommitLandsOnce /\ upload \in [Devices -> UploadState]
  BY DEF UploadsInvariant, UploadsApart, UploadsTypeOK
<1>2. OpenBatch(c, id, post, NoHeader) /\ ~Working(d)
  BY DEF StartUpload
<1>3. PICK new : new = [id |-> id, coll |-> c, items |-> post]
  OBVIOUS
<1>4. now' = now /\ collMod' = collMod /\ batches' = batches \cup {new}
  BY <1>2, <1>3 DEF OpenBatch
<1>5. new.id = id /\ new.coll = c /\ new.items = post
  BY <1>3
<1>6. /\ id \in Nat /\ id >= now /\ id < now + Quantum /\ id # 0
  BY <1>1, Numbers
<1>7. \A x, y : IsOpen(x, y)' <=> IsOpen(x, y) \/ (x = c /\ y = id)
  BY <1>4, <1>5 DEF IsOpen
<1>8. \A e \in Devices : upload[e].id = id /\ upload[e].coll = c => upload[e].fate = "wiped"
  BY <1>2, NewBatchIsNobodys
<1>9. CASE upload' = upload
  <2>1. Past' /\ GoneIsStamped' /\ OwnIsAlone' /\ CommitLandsOnce'
    BY <1>1, <1>4, <1>5, <1>6, <1>7, <1>9, Numbers
       DEF Past, GoneIsStamped, OwnIsAlone, CommitLandsOnce, Working
  <2>2. LandedIsClosed'
    BY <1>1, <1>7, <1>8, <1>9 DEF LandedIsClosed
  <2>3. BatchHoldsLedger'
    BY <1>1, <1>4, <1>9 DEF BatchHoldsLedger, OpenUploads, Working
  <2> QED
    BY <2>1, <2>2, <2>3 DEF UploadsApart
<1>10. CASE Begin(d, c, id, post)
  <2>1. PICK fate \in {"own", "shared"} :
          /\ upload' = [upload EXCEPT ![d] =
               [id |-> id, coll |-> c, ledger |-> post, landed |-> 0, fate |-> fate]]
          /\ fate = "own" => ~\E e \in Devices : upload[e].id = id /\ upload[e].fate = "wiped"
    BY <1>10 DEF Begin
  <2>2. /\ upload'[d].id = id /\ upload'[d].coll = c /\ upload'[d].ledger = post
        /\ upload'[d].landed = 0 /\ upload'[d].fate = fate
        /\ \A e \in Devices \ {d} : upload'[e] = upload[e]
    BY <1>1, <2>1
  <2>3. Past'
    BY <1>1, <1>4, <1>5, <1>6, <2>2, Numbers DEF Past
  <2>4. GoneIsStamped'
    BY <1>1, <1>4, <1>7, <2>2 DEF GoneIsStamped, Working
  <2>5. LandedIsClosed'
    BY <1>1, <1>7, <1>8, <2>2 DEF LandedIsClosed
  <2>6. OwnIsAlone'
    <3> SUFFICES ASSUME NEW x \in Devices, NEW y \in Devices, Working(x)', upload'[x].fate = "own",
                        upload'[y].id = upload'[x].id, upload'[y].coll = upload'[x].coll, x # y
                 PROVE  FALSE
      BY DEF OwnIsAlone
    <3>1. CASE x = d
      BY <1>8, <2>1, <2>2, <3>1
    <3>2. CASE y = d
      BY <1>8, <2>2, <3>2
    <3>3. CASE x # d /\ y # d
      BY <1>1, <2>2, <3>3 DEF OwnIsAlone, Working
    <3> QED
      BY <3>1, <3>2, <3>3
  <2>7. BatchHoldsLedger'
    <3> SUFFICES ASSUME NEW e \in OpenUploads'
                 PROVE  \E b \in batches' :
                          /\ b.id = upload'[e].id /\ b.coll = upload'[e].coll
                          /\ \A i \in DOMAIN upload'[e].ledger :
                               i \in DOMAIN b.items /\ b.items[i] = upload'[e].ledger[i]
      BY DEF BatchHoldsLedger
    <3>1. CASE e = d
      BY <1>4, <1>5, <2>2, <3>1
    <3>2. CASE e # d
      <4>1. e \in OpenUploads /\ upload'[e] = upload[e]
        BY <2>2, <3>2 DEF OpenUploads, Working
      <4> QED
        BY <1>1, <1>4, <4>1 DEF BatchHoldsLedger
    <3> QED
      BY <3>1, <3>2
  <2>8. CommitLandsOnce'
    BY <1>1, <2>2 DEF CommitLandsOnce
  <2> QED
    BY <2>3, <2>4, <2>5, <2>6, <2>7, <2>8 DEF UploadsApart
<1> QED
  BY <1>9, <1>10 DEF StartUpload

LEMMA AppendApart ==
  ASSUME UploadsInvariant, NEW d \in Devices, NEW post \in Posts, Append(d, post)
  PROVE  UploadsApart'
<1>1. /\ UploadsTypeOK /\ Past /\ GoneIsStamped /\ LandedIsClosed /\ OwnIsAlone
      /\ BatchHoldsLedger /\ CommitLandsOnce /\ upload \in [Devices -> UploadState] /\ OneBatchPerId
  BY DEF UploadsInvariant, UploadsApart, UploadsTypeOK
<1>2. PICK id : id = upload[d].id
  OBVIOUS
<1>3. /\ Working(d) /\ upload[d].landed = 0 /\ IsOpen(upload[d].coll, id)
      /\ now' = now /\ collMod' = collMod
      /\ batches' = {IF b.id = id THEN [b EXCEPT !.items = Over(post, b.items)] ELSE b : b \in batches}
  BY <1>2 DEF Append, AppendBatch, ValidBatch, IsOpen
<1>4. ASSUME NEW b \in batches
      PROVE  /\ [b EXCEPT !.items = Over(post, b.items)].id = b.id
             /\ [b EXCEPT !.items = Over(post, b.items)].coll = b.coll
             /\ [b EXCEPT !.items = Over(post, b.items)].items = Over(post, b.items)
  BY <1>1 DEF UploadsTypeOK, TypeOK, Batch
<1>5. \A b \in batches : \E new \in batches' :
        new.id = b.id /\ new.coll = b.coll /\ new.items = IF b.id = id THEN Over(post, b.items) ELSE b.items
  BY <1>3, <1>4
<1>6. \A new \in batches' : \E b \in batches : new.id = b.id /\ new.coll = b.coll
  BY <1>3, <1>4
<1>7. \A x, y : IsOpen(x, y)' <=> IsOpen(x, y)
  BY <1>5, <1>6 DEF IsOpen
<1>8. /\ upload'[d].id = id /\ upload'[d].coll = upload[d].coll /\ upload'[d].landed = 0
      /\ upload'[d].fate = upload[d].fate
      /\ upload'[d].ledger \in {Over(post, upload[d].ledger), Rest(upload[d].ledger, post)}
      /\ \A e \in Devices \ {d} : upload'[e] = upload[e]
  BY <1>1, <1>2, <1>3 DEF Append, UploadState
<1>9. \A e \in Devices : /\ upload'[e].id = upload[e].id /\ upload'[e].coll = upload[e].coll
                         /\ upload'[e].landed = upload[e].landed /\ upload'[e].fate = upload[e].fate
  BY <1>2, <1>3, <1>8
<1>10. Past' /\ GoneIsStamped' /\ LandedIsClosed' /\ OwnIsAlone' /\ CommitLandsOnce'
  BY <1>1, <1>3, <1>6, <1>7, <1>9
     DEF Past, GoneIsStamped, LandedIsClosed, OwnIsAlone, CommitLandsOnce, Working
<1>11. BatchHoldsLedger'
  <2> SUFFICES ASSUME NEW e \in OpenUploads'
               PROVE  \E b \in batches' :
                        /\ b.id = upload'[e].id /\ b.coll = upload'[e].coll
                        /\ \A i \in DOMAIN upload'[e].ledger :
                             i \in DOMAIN b.items /\ b.items[i] = upload'[e].ledger[i]
    BY DEF BatchHoldsLedger
  <2>1. e \in OpenUploads /\ e \in Devices
    BY <1>9 DEF OpenUploads, Working
  <2>2. PICK b \in batches : /\ b.id = upload[e].id /\ b.coll = upload[e].coll
                             /\ \A i \in DOMAIN upload[e].ledger :
                                  i \in DOMAIN b.items /\ b.items[i] = upload[e].ledger[i]
    BY <1>1, <2>1 DEF BatchHoldsLedger
  <2>3. PICK new \in batches' :
          new.id = b.id /\ new.coll = b.coll /\ new.items = IF b.id = id THEN Over(post, b.items) ELSE b.items
    BY <1>5
  <2>4. CASE e = d
    <3>1. new.items = Over(post, b.items)
      BY <1>2, <2>2, <2>3, <2>4
    <3>2. CASE upload'[d].ledger = Over(post, upload[d].ledger)
      <4>1. \A i \in DOMAIN upload'[d].ledger :
              i \in DOMAIN new.items /\ new.items[i] = upload'[d].ledger[i]
        BY <2>2, <2>4, <3>1, <3>2 DEF Over
      <4> QED
        BY <1>9, <2>2, <2>3, <2>4, <4>1
    <3>3. CASE upload'[d].ledger = Rest(upload[d].ledger, post)
      <4>1. \A i \in DOMAIN upload'[d].ledger :
              i \in DOMAIN new.items /\ new.items[i] = upload'[d].ledger[i]
        BY <2>2, <2>4, <3>1, <3>3 DEF Over, Rest
      <4> QED
        BY <1>9, <2>2, <2>3, <2>4, <4>1
    <3> QED
      BY <1>8, <3>2, <3>3
  <2>5. CASE e # d
    <3>1. upload[e].id # id
      BY <1>2, <1>3, <2>1, <2>5, OneHolder
    <3> QED
      BY <1>8, <2>1, <2>2, <2>3, <2>5, <3>1
  <2> QED
    BY <2>4, <2>5
<1> QED
  BY <1>10, <1>11 DEF UploadsApart

LEMMA CommitApart ==
  ASSUME UploadsInvariant, NEW d \in Devices, NEW post \in Posts, Commit(d, post)
  PROVE  UploadsApart'
<1>1. /\ UploadsTypeOK /\ Past /\ GoneIsStamped /\ LandedIsClosed /\ OwnIsAlone
      /\ BatchHoldsLedger /\ CommitLandsOnce /\ upload \in [Devices -> UploadState] /\ OneBatchPerId
      /\ collMod \in [Collections \cup {Tombstone} -> Nat]
  BY DEF UploadsInvariant, UploadsApart, UploadsTypeOK, TypeOK
<1>2. PICK id, c : id = upload[d].id /\ c = upload[d].coll
  OBVIOUS
<1>3. /\ Working(d) /\ IsOpen(c, id) /\ now' = now /\ collMod' = [collMod EXCEPT ![c] = now]
      /\ batches' = {b \in batches : b.id # id} /\ c \in Collections
  BY <1>1, <1>2, UploadFields DEF Commit, CommitBatch, ValidBatch, IsOpen, Stamp
<1>4. \A k \in Collections : collMod'[k] = IF k = c THEN now ELSE collMod[k]
  BY <1>1, <1>3
<1>5. \A x, y : IsOpen(x, y)' <=> IsOpen(x, y) /\ y # id
  BY <1>3 DEF IsOpen
<1>6. \A x : IsOpen(x, id) => x = c
  BY <1>1, <1>3 DEF IsOpen, OneBatchPerId
<1>7. /\ upload'[d].id = id /\ upload'[d].coll = c /\ upload'[d].fate = upload[d].fate
      /\ upload'[d].ledger = upload[d].ledger
      /\ upload'[d].landed = IF upload[d].landed = 0 THEN 1 ELSE 2
      /\ \A e \in Devices \ {d} : upload'[e] = upload[e]
  BY <1>1, <1>2 DEF Commit, UploadState
<1>8. \A e \in Devices : /\ upload'[e].id = upload[e].id /\ upload'[e].coll = upload[e].coll
                         /\ upload'[e].fate = upload[e].fate
  BY <1>2, <1>7
<1>9. Past'
  BY <1>1, <1>3, <1>4, <1>8, Numbers DEF Past
<1>10. GoneIsStamped'
  <2> SUFFICES ASSUME NEW e \in Devices, Working(e)', upload'[e].fate # "wiped",
                      upload'[e].id >= now', ~IsOpen(upload[e].coll, upload[e].id)'
               PROVE  collMod'[upload'[e].coll] = now'
    BY DEF GoneIsStamped
  <2>1. Working(e) /\ upload[e].fate # "wiped" /\ upload[e].id >= now
    BY <1>3, <1>8 DEF Working
  <2>2. upload[e].coll \in Collections
    BY <1>1, UploadFields
  <2>3. CASE IsOpen(upload[e].coll, upload[e].id)
    <3>1. upload[e].id = id
      BY <1>5, <1>8, <2>3
    <3>2. upload[e].coll = c
      BY <1>6, <2>3, <3>1
    <3> QED
      BY <1>3, <1>4, <1>8, <3>2
  <2>4. CASE ~IsOpen(upload[e].coll, upload[e].id)
    BY <1>1, <1>3, <1>4, <1>8, <2>1, <2>2, <2>4 DEF GoneIsStamped
  <2> QED
    BY <2>3, <2>4
<1>11. LandedIsClosed'
  <2> SUFFICES ASSUME NEW e \in Devices, upload'[e].fate = "own", upload'[e].landed > 0
               PROVE  ~IsOpen(upload[e].coll, upload[e].id)'
    BY DEF LandedIsClosed
  <2>1. CASE e = d
    BY <1>5, <1>7, <2>1
  <2>2. CASE e # d
    BY <1>1, <1>5, <1>7, <2>2 DEF LandedIsClosed
  <2> QED
    BY <2>1, <2>2
<1>12. OwnIsAlone'
  BY <1>1, <1>8 DEF OwnIsAlone, Working
<1>13. BatchHoldsLedger'
  <2> SUFFICES ASSUME NEW e \in OpenUploads'
               PROVE  \E b \in batches' :
                        /\ b.id = upload'[e].id /\ b.coll = upload'[e].coll
                        /\ \A i \in DOMAIN upload'[e].ledger :
                             i \in DOMAIN b.items /\ b.items[i] = upload'[e].ledger[i]
    BY DEF BatchHoldsLedger
  <2>1. e # d
    BY <1>7 DEF OpenUploads
  <2>2. e \in OpenUploads /\ upload'[e] = upload[e]
    BY <1>7, <2>1 DEF OpenUploads, Working
  <2>3. upload[e].id # id
    BY <1>2, <1>3, <2>1, <2>2, OneHolder
  <2> QED
    BY <1>1, <1>3, <2>2, <2>3 DEF BatchHoldsLedger
<1>14. CommitLandsOnce'
  <2>1. upload[d].fate = "own" => upload'[d].landed <= 1
    BY <1>1, <1>2, <1>3, <1>7, Numbers DEF LandedIsClosed
  <2> QED
    BY <1>1, <1>7, <2>1 DEF CommitLandsOnce
<1> QED
  BY <1>9, <1>10, <1>11, <1>12, <1>13, <1>14 DEF UploadsApart

-----------------------------------------------------------------------------
LEMMA UploadsStart == UploadsInit => UploadsInvariant
<1> SUFFICES ASSUME UploadsInit PROVE UploadsInvariant
  OBVIOUS
<1>1. PICK c \in Collections :
        upload = [d \in Devices |-> [id |-> 0, coll |-> c, ledger |-> <<>>,
                                     landed |-> 0, fate |-> "own"]]
  BY DEF UploadsInit
<1>2. Init
  BY DEF UploadsInit
<1>3. TypeOK
  BY <1>2, NumbersAssumption DEF Init, TypeOK, NoRow, Row
<1>4. upload \in [Devices -> UploadState]
  <2>1. PICK empty \in Posts : empty = <<>>
    BY NoRecords
  <2>2. [id |-> 0, coll |-> c, ledger |-> empty, landed |-> 0, fate |-> "own"] \in UploadState
    BY DEF UploadState
  <2> QED
    BY <1>1, <2>1, <2>2
<1>5. batches = {} /\ now = Quantum /\ \A k \in Collections : collMod[k] = 0
  BY <1>2 DEF Init
<1>6. \A d \in Devices : upload[d].id = 0 /\ upload[d].landed = 0
  BY <1>1
<1>7. UploadsApart
  BY <1>5, <1>6, NumbersAssumption
     DEF UploadsApart, Past, GoneIsStamped, LandedIsClosed, OwnIsAlone, BatchHoldsLedger,
         CommitLandsOnce, OpenUploads, Working
<1> QED
  BY <1>3, <1>4, <1>5, <1>7 DEF UploadsInvariant, UploadsTypeOK, OneBatchPerId

LEMMA UploadsStep ==
  ASSUME UploadsInvariant, [UploadsNext]_uploadVars
  PROVE  UploadsInvariant'
<1>1. /\ TypeOK /\ OneBatchPerId /\ upload \in [Devices -> UploadState] /\ UploadsApart
  BY DEF UploadsInvariant, UploadsTypeOK
<1>2. [Next]_vars
  BY <1>1, UploadsAreRequests
<1>3. TypeOK' /\ OneBatchPerId'
  BY <1>1, <1>2, StepKeepsTypes, StepKeepsIds
<1>4. (upload \in [Devices -> UploadState])'
  BY <1>1, StepKeepsUploads
<1>5. UploadsApart'
  <2>1. CASE UNCHANGED uploadVars
    BY <1>1, <2>1 DEF uploadVars, UploadsApart, Past, GoneIsStamped, LandedIsClosed, OwnIsAlone,
                      BatchHoldsLedger, CommitLandsOnce, OpenUploads, Working, IsOpen
  <2>2. CASE UploadsNext
    BY <2>2, StartApart, AppendApart, CommitApart, FinishApart, OthersApart, OthersWipeApart
       DEF UploadsNext, Uploader
  <2> QED
    BY <2>1, <2>2
<1> QED
  BY <1>3, <1>4, <1>5 DEF UploadsInvariant, UploadsTypeOK

(* The inductive invariant of the uploads: types, and how the batches that *)
(* are open and the uploads devices believe in are to each other.          *)
THEOREM UploadsInvariantHolds == UploadsSpec => []UploadsInvariant
BY UploadsStart, UploadsStep, PTL DEF UploadsSpec

(* The devices' uploads are requests of the store, so what is proved of the*)
(* store's Spec is true beside them.                                       *)
THEOREM UploadsImplementStore == UploadsSpec => Spec
<1>1. UploadsInit => Init
  BY DEF UploadsInit
<1>2. UploadsInvariant /\ [UploadsNext]_uploadVars => [Next]_vars
  BY UploadsAreRequests DEF UploadsInvariant, UploadsTypeOK
<1> QED
  BY <1>1, <1>2, UploadsInvariantHolds, PTL DEF UploadsSpec, Spec

(* What the server acknowledged stays staged for as long as the upload is  *)
(* open, whatever other devices open, append, commit or delete.            *)
THEOREM LedgersAreStaged == UploadsSpec => []BatchHoldsLedger
<1>1. UploadsInvariant => BatchHoldsLedger
  BY DEF UploadsInvariant, UploadsApart
<1> QED
  BY <1>1, UploadsInvariantHolds, PTL

(* No two devices that opened their batches for themselves share one, with *)
(* any number of opens, commits and lost replies in one hundredth.         *)
THEOREM UploadsAreApart == UploadsSpec => []BatchesAreNotShared
<1>1. UploadsInvariant => BatchesAreNotShared
  <2> SUFFICES ASSUME UploadsInvariant, NEW d1 \in OpenUploads, NEW d2 \in OpenUploads,
                      upload[d1].id = upload[d2].id
               PROVE  d1 = d2
    BY DEF BatchesAreNotShared
  <2>1. /\ \E b \in batches : b.id = upload[d1].id /\ b.coll = upload[d1].coll
        /\ \E b \in batches : b.id = upload[d2].id /\ b.coll = upload[d2].coll
    BY DEF UploadsInvariant, UploadsApart, BatchHoldsLedger
  <2>2. upload[d1].coll = upload[d2].coll
    BY <2>1 DEF UploadsInvariant, OneBatchPerId
  <2> QED
    BY <2>2 DEF UploadsInvariant, UploadsApart, OwnIsAlone, OpenUploads
<1> QED
  BY <1>1, UploadsInvariantHolds, PTL

(* A commit sent again after its reply was lost does not land twice: in the*)
(* hundredth of its id the collection is stamped, and later the id is not  *)
(* handed out again.                                                       *)
THEOREM CommitsLandOnce == UploadsSpec => []CommitLandsOnce
<1>1. UploadsInvariant => CommitLandsOnce
  BY DEF UploadsInvariant, UploadsApart
<1> QED
  BY <1>1, UploadsInvariantHolds, PTL

(* A commit lands every record that was acknowledged, at one instant, with *)
(* the fields that were staged.                                            *)
THEOREM CommitsLandTheLedger == UploadsSpec => CommitLandsLedger
<1>1. ASSUME UploadsInvariant, NEW d \in OpenUploads, NEW post \in Posts, Commit(d, post),
             NEW i \in DOMAIN upload[d].ledger \ DOMAIN post
      PROVE  LET staged == upload[d].ledger[i]
                 r == rows'[upload[d].coll][i] IN
             /\ r.modified = now /\ collMod'[upload[d].coll] = now
             /\ staged.payload \in {Null, r.payload}
             /\ staged.sortindex \in {Null, r.sortindex}
             /\ staged.ttl # Null => r.expiry = now + staged.ttl
  <2>1. PICK c, id : c \in Collections /\ c = upload[d].coll /\ id = upload[d].id
    BY <1>1, UploadFields DEF UploadsInvariant, UploadsTypeOK, OpenUploads
  <2>2. PICK b \in batches : /\ b.id = id
                             /\ rows' = [rows EXCEPT ![c] = PutAll(CommitAll(rows[c], b.items), post)]
    BY <1>1, <2>1 DEF Commit, CommitBatch
  <2>3. collMod'[c] = now
    BY <1>1, <2>1 DEF Commit, CommitBatch, Stamp, UploadsInvariant, UploadsTypeOK, TypeOK
  <2>4. i \in DOMAIN b.items /\ b.items[i] = upload[d].ledger[i]
    <3>1. PICK b2 \in batches : /\ b2.id = id
                                /\ \A j \in DOMAIN upload[d].ledger :
                                     j \in DOMAIN b2.items /\ b2.items[j] = upload[d].ledger[j]
      BY <1>1, <2>1 DEF UploadsInvariant, UploadsApart, BatchHoldsLedger
    <3>2. b2 = b
      BY <1>1, <2>2, <3>1 DEF UploadsInvariant, OneBatchPerId
    <3> QED
      BY <3>1, <3>2
  <2>5. i \in Ids
    BY <1>1, <2>4, PostsFields DEF UploadsInvariant, UploadsTypeOK, TypeOK, Batch
  <2>6. rows'[c] = PutAll(CommitAll(rows[c], b.items), post)
    BY <1>1, <2>1, <2>2 DEF UploadsInvariant, UploadsTypeOK, TypeOK
  <2>7. rows'[c][i] = CommitRow(rows[c][i], b.items[i])
    BY <2>4, <2>5, <2>6 DEF PutAll, CommitAll
  <2>8. PICK staged, r : staged = upload[d].ledger[i] /\ r = rows'[c][i]
    OBVIOUS
  <2>9. r = CommitRow(rows[c][i], staged)
    BY <2>4, <2>7, <2>8
  <2>10. /\ r.modified = now
         /\ staged.payload \in {Null, r.payload}
         /\ staged.sortindex \in {Null, r.sortindex}
         /\ staged.ttl # Null => r.expiry = now + staged.ttl
    BY <2>9 DEF CommitRow, Coalesce
  <2> QED
    BY <2>1, <2>3, <2>8, <2>10
<1>2. UploadsInvariant /\ [UploadsNext]_uploadVars =>
        [\A d \in OpenUploads : upload'[d].landed = 1 =>
           \A post \in Posts : Commit(d, post) =>
             \A i \in DOMAIN upload[d].ledger \ DOMAIN post :
               LET staged == upload[d].ledger[i]
                   r == rows'[upload[d].coll][i] IN
               /\ r.modified = now /\ collMod'[upload[d].coll] = now
               /\ staged.payload \in {Null, r.payload}
               /\ staged.sortindex \in {Null, r.sortindex}
               /\ staged.ttl # Null => r.expiry = now + staged.ttl]_uploadVars
  BY <1>1
<1> QED
  BY <1>2, UploadsInvariantHolds, PTL DEF UploadsSpec, CommitLandsLedger

-----------------------------------------------------------------------------
(* SyncPages: every collection, query and page size.                       *)

(* The order of a query, and places in it.                                 *)

LEMMA RecordFields ==
  ASSUME TypeOK, NEW i \in Ids
  PROVE  /\ Record(i) \in Row
         /\ Record(i).modified \in Nat /\ Record(i).expiry \in Nat
         /\ Index(i) \in Int
         /\ i \in Nat
<1>1. Record(i) \in Row
  BY CollAssumption DEF TypeOK, Record
<1>2. Record(i).sortindex \in Nat \cup {Null}
  BY <1>1, IdsAssumption DEF Row
<1> QED
  BY <1>1, <1>2, IdsAssumption DEF Row, Index

LEMMA ScannedOrders ==
  ASSUME TypeOK, NEW i \in Ids, NEW j \in Ids, NEW k \in Ids
  PROVE  /\ ~Scanned(i, i)
         /\ i # j => Scanned(i, j) \/ Scanned(j, i)
         /\ Scanned(i, j) /\ Scanned(j, k) => Scanned(i, k)
<1>1. /\ Record(i).modified \in Nat /\ Record(j).modified \in Nat /\ Record(k).modified \in Nat
      /\ i \in Nat /\ j \in Nat /\ k \in Nat
  BY RecordFields
<1> QED
  BY <1>1 DEF Scanned

(* Every query's order is total and strict.                                *)
LEMMA BeforeOrders ==
  ASSUME TypeOK, NEW q \in Query, NEW i \in Ids, NEW j \in Ids, NEW k \in Ids
  PROVE  /\ ~Before(q, i, i)
         /\ i # j => Before(q, i, j) \/ Before(q, j, i)
         /\ Before(q, i, j) /\ Before(q, j, k) => Before(q, i, k)
<1>1. /\ ~Scanned(i, i) /\ ~Scanned(j, j) /\ ~Scanned(k, k)
      /\ i # j => Scanned(i, j) \/ Scanned(j, i)
      /\ j # k => Scanned(j, k) \/ Scanned(k, j)
      /\ i # k => Scanned(i, k) \/ Scanned(k, i)
      /\ Scanned(i, j) /\ Scanned(j, k) => Scanned(i, k)
      /\ Scanned(j, i) /\ Scanned(i, j) => Scanned(j, j)
      /\ Scanned(k, j) /\ Scanned(j, i) => Scanned(k, i)
      /\ Scanned(i, k) /\ Scanned(k, j) => Scanned(i, j)
      /\ Scanned(i, k) /\ Scanned(k, i) => Scanned(i, i)
      /\ Scanned(j, k) /\ Scanned(k, j) => Scanned(j, j)
  BY ScannedOrders
<1>2. CASE NewestFirst(q)
  <2>1. ASSUME NEW a \in Ids, NEW b \in Ids
        PROVE  Before(q, a, b) <=> a # b /\ ~Scanned(a, b)
    BY <1>2 DEF Before, NewestFirst
  <2>2. ~Before(q, i, i) /\ (i # j => Before(q, i, j) \/ Before(q, j, i))
    BY <1>1, <2>1
  <2>3. ASSUME Before(q, i, j), Before(q, j, k) PROVE Before(q, i, k)
    <3>1. Scanned(j, i) /\ Scanned(k, j)
      BY <1>1, <2>1, <2>3
    <3>2. Scanned(k, i)
      BY <1>1, <3>1
    <3>3. i # k /\ ~Scanned(i, k)
      BY <1>1, <3>1, <3>2
    <3> QED
      BY <2>1, <3>3
  <2> QED
    BY <2>2, <2>3
<1>3. CASE ~NewestFirst(q) /\ q.sort = "index"
  <2>1. Index(i) \in Int /\ Index(j) \in Int /\ Index(k) \in Int
    BY RecordFields
  <2>2. ASSUME NEW a \in Ids, NEW b \in Ids
        PROVE  Before(q, a, b) <=> Index(a) > Index(b) \/ (Index(a) = Index(b) /\ Scanned(a, b))
    BY <1>3 DEF Before
  <2> QED
    BY <1>1, <2>1, <2>2
<1>4. CASE ~NewestFirst(q) /\ q.sort # "index"
  BY <1>1, <1>4 DEF Before
<1> QED
  BY <1>2, <1>3, <1>4

(* The place of a row among those of a set.                                *)
Within(q, S, i) == Cardinality({j \in S : Before(q, j, i)})

LEMMA Places ==
  ASSUME NEW q, NEW S \in SUBSET Ids
  PROVE  /\ IsFiniteSet(S) /\ Cardinality(S) \in Nat
         /\ \A i : IsFiniteSet({j \in S : Before(q, j, i)}) /\ Within(q, S, i) \in Nat
<1>1. IsFiniteSet(S)
  BY IdsAssumption, FS_Subset
<1>2. \A T \in SUBSET S : IsFiniteSet(T) /\ Cardinality(T) \in Nat
  BY <1>1, FS_Subset, FS_CardinalityType
<1> QED
  BY <1>1, <1>2 DEF Within

(* Places rise with the order, so no two rows have the same.               *)
LEMMA PlacesRise ==
  ASSUME TypeOK, NEW q \in Query, NEW S \in SUBSET Ids, NEW i \in S, NEW j \in S
  PROVE  /\ Before(q, i, j) <=> Within(q, S, i) < Within(q, S, j)
         /\ i = j <=> Within(q, S, i) = Within(q, S, j)
         /\ Within(q, S, i) < Cardinality(S)
<1> DEFINE Lower(k) == {l \in S : Before(q, l, k)}
<1>1. ASSUME NEW k \in S, NEW T \in SUBSET S, Lower(k) \subseteq T, k \in T
      PROVE  Within(q, S, k) < Cardinality(T)
  <2>1. IsFiniteSet(T) /\ Cardinality(T) \in Nat
    BY Places
  <2>2. k \notin Lower(k)
    BY BeforeOrders
  <2>3. Cardinality(T \ {k}) = Cardinality(T) - 1 /\ IsFiniteSet(T \ {k})
    BY <1>1, <2>1, FS_RemoveElement
  <2>4. Lower(k) \in SUBSET (T \ {k})
    BY <1>1, <2>2
  <2>5. Cardinality(Lower(k)) <= Cardinality(T \ {k})
    BY <2>3, <2>4, FS_Subset
  <2>6. Within(q, S, k) = Cardinality(Lower(k)) /\ Within(q, S, k) \in Nat
    BY Places DEF Within
  <2> QED
    BY <2>1, <2>3, <2>5, <2>6
<1>2. ASSUME NEW k \in S, NEW l \in S, Before(q, k, l) PROVE Within(q, S, k) < Within(q, S, l)
  <2>1. Lower(k) \subseteq Lower(l) /\ k \in Lower(l)
    BY <1>2, BeforeOrders
  <2>2. Within(q, S, k) < Cardinality(Lower(l))
    BY <1>1, <2>1
  <2> QED
    BY <2>2 DEF Within
<1>3. Within(q, S, i) \in Nat /\ Within(q, S, j) \in Nat
  BY Places
<1>4. i = j \/ Before(q, i, j) \/ Before(q, j, i)
  BY BeforeOrders
<1>5. Within(q, S, i) < Cardinality(S)
  BY <1>1
<1>6. ~Before(q, i, i)
  BY BeforeOrders
<1> QED
  BY <1>2, <1>3, <1>4, <1>5, <1>6

(* And there is a row at every place.                                      *)
LEMMA PlacesFill ==
  ASSUME TypeOK, NEW q \in Query, NEW S \in SUBSET Ids, NEW n \in Nat, n < Cardinality(S)
  PROVE  \E i \in S : Within(q, S, i) = n
<1> DEFINE c == Cardinality(S)
           f == [i \in S |-> Within(q, S, i)]
<1>1. IsFiniteSet(S) /\ c \in Nat /\ \A i \in S : Within(q, S, i) \in 0 .. c - 1
  <2>1. IsFiniteSet(S) /\ c \in Nat
    BY Places
  <2>2. \A i \in S : Within(q, S, i) \in Nat /\ Within(q, S, i) < c
    BY Places, PlacesRise
  <2> HIDE DEF c
  <2> QED
    BY <2>1, <2>2
<1>2. \A i, j \in S : Within(q, S, i) = Within(q, S, j) => i = j
  BY PlacesRise
<1> HIDE DEF c
<1>3. f \in Injection(S, 0 .. c - 1)
  <2>1. f \in [S -> 0 .. c - 1] /\ \A i, j \in S : f[i] = f[j] => i = j
    BY <1>1, <1>2
  <2> HIDE DEF f
  <2> QED
    BY <2>1 DEF Injection, IsInjective
<1>4. IsFiniteSet(0 .. c - 1) /\ Cardinality(0 .. c - 1) = c
  <2>1. IsFiniteSet(0 .. c - 1) /\ Cardinality(0 .. c - 1) = IF 0 > c - 1 THEN 0 ELSE c - 1 - 0 + 1
    BY <1>1, FS_Interval
  <2> QED
    BY <1>1, <2>1
<1>5. f \in Surjection(S, 0 .. c - 1)
  BY <1>3, <1>4, FS_Injection DEF c
<1>6. n \in 0 .. c - 1
  BY <1>1 DEF c
<1> QED
  BY <1>5, <1>6 DEF Surjection

-----------------------------------------------------------------------------
(* A page of the result.                                                   *)

Offsets == [bound : Nat, skip : Nat]

(* The rows that have not come before the page at this offset.             *)
Ahead(q, o) == {i \in Selected(q, o) : Place(q, o, i) >= o.skip}

LEMMA PlaceWithin ==
  ASSUME NEW q, NEW o
  PROVE  /\ Selected(q, o) \in SUBSET Ids
         /\ \A i : Place(q, o, i) = Within(q, Selected(q, o), i)
         /\ \A i : Place(q, o, i) \in Nat
<1>1. Selected(q, o) \in SUBSET Ids
  BY DEF Selected
<1>2. \A i : Place(q, o, i) = Within(q, Selected(q, o), i)
  BY DEF Place, Within
<1> QED
  BY <1>1, <1>2, Places

LEMMA PlacesOrder ==
  ASSUME TypeOK, NEW q \in Query, NEW o, NEW i \in Selected(q, o), NEW j \in Selected(q, o)
  PROVE  /\ Before(q, i, j) <=> Place(q, o, i) < Place(q, o, j)
         /\ i = j <=> Place(q, o, i) = Place(q, o, j)
<1> DEFINE S == Selected(q, o)
<1>1. S \in SUBSET Ids /\ \A k : Place(q, o, k) = Within(q, S, k)
  BY PlaceWithin
<1> HIDE DEF S
<1>2. i \in S /\ j \in S
  BY DEF S
<1> QED
  BY <1>1, <1>2, PlacesRise

(* A page that is not the last is full.                                    *)
LEMMA FullPage ==
  ASSUME TypeOK, NEW q \in Query, NEW o \in Offsets, More(q, o)
  PROVE  /\ Cardinality(Items(q, o)) = q.limit
         /\ LastItem(q, o) \in Items(q, o)
         /\ Place(q, o, LastItem(q, o)) = o.skip + q.limit - 1
<1> DEFINE S == Selected(q, o)
           first == o.skip
           last == o.skip + q.limit - 1
           f == [i \in Items(q, o) |-> Place(q, o, i)]
<1>1. /\ first \in Nat /\ last \in Nat /\ q.limit \in Nat \ {0} /\ last = first + q.limit - 1
      /\ last < Cardinality(S) /\ Cardinality(S) \in Nat
  <2>1. Cardinality(S) \in Nat
    BY PlaceWithin, Places
  <2> QED
    BY <2>1 DEF Offsets, Query, More
<1> HIDE DEF first, last
<1>2. Items(q, o) = {i \in S : Place(q, o, i) \in first .. last}
  BY DEF Items, first, last
<1>3. \A i, j \in Items(q, o) : f[i] = f[j] => i = j
  <2>1. S \in SUBSET Ids /\ \A i : Place(q, o, i) = Within(q, S, i)
    BY PlaceWithin
  <2>2. ASSUME NEW i \in S, NEW j \in S, Within(q, S, i) = Within(q, S, j) PROVE i = j
    <3> HIDE DEF S
    <3> QED
      BY <2>1, <2>2, PlacesRise
  <2> QED
    BY <1>2, <2>1, <2>2
<1>4. \A n \in first .. last : \E i \in Items(q, o) : Place(q, o, i) = n
  <2> SUFFICES ASSUME NEW n \in first .. last PROVE \E i \in Items(q, o) : Place(q, o, i) = n
    OBVIOUS
  <2>1. n \in Nat /\ n < Cardinality(S)
    BY <1>1
  <2>2. \E i \in S : Within(q, S, i) = n
    BY <2>1, PlaceWithin, PlacesFill
  <2> QED
    BY <1>2, <2>2, PlaceWithin
<1>5. LastItem(q, o) \in Items(q, o) /\ Place(q, o, LastItem(q, o)) = last
  <2>1. \E i \in Items(q, o) : Place(q, o, i) = last
    BY <1>1, <1>4
  <2> QED
    BY <2>1 DEF LastItem, last
<1>6. f \in Injection(Items(q, o), first .. last) /\ f \in Surjection(Items(q, o), first .. last)
  <2>1. f \in [Items(q, o) -> first .. last]
    BY <1>2
  <2>2. \A n \in first .. last : \E i \in Items(q, o) : f[i] = n
    BY <1>4
  <2> HIDE DEF f
  <2> QED
    BY <1>3, <2>1, <2>2 DEF Injection, IsInjective, Surjection
<1>7. IsFiniteSet(first .. last) /\ Cardinality(first .. last) = q.limit
  <2>1. /\ IsFiniteSet(first .. last)
        /\ Cardinality(first .. last) = IF first > last THEN 0 ELSE last - first + 1
    <3>1. first \in Int /\ last \in Int
      BY <1>1
    <3> HIDE DEF f, S
    <3> QED
      BY <3>1, FS_Interval
  <2> QED
    BY <1>1, <2>1
<1>8. Cardinality(Items(q, o)) = Cardinality(first .. last)
  BY <1>6, <1>7, FS_Injection
<1> QED
  BY <1>5, <1>7, <1>8 DEF last

(* What is ahead after a page is what was ahead, less the page.            *)
LEMMA AfterPage ==
  ASSUME TypeOK, NEW q \in Query, NEW o \in Offsets
  PROVE  /\ Items(q, o) \subseteq Ahead(q, o)
         /\ \A i \in Ahead(q, o) \ Items(q, o) : Place(q, o, i) >= o.skip + q.limit
         /\ \A i \in Items(q, o) : Place(q, o, i) < o.skip + q.limit
         /\ ~More(q, o) => Items(q, o) = Ahead(q, o)
<1>1. /\ o.skip \in Nat /\ q.limit \in Nat \ {0}
      /\ \A i : Place(q, o, i) \in Nat
      /\ \A i \in Selected(q, o) : Place(q, o, i) < Cardinality(Selected(q, o))
      /\ Cardinality(Selected(q, o)) \in Nat
  <2>1. Selected(q, o) \in SUBSET Ids /\ \A i : Place(q, o, i) = Within(q, Selected(q, o), i)
    BY PlaceWithin
  <2>2. \A i \in Selected(q, o) : Within(q, Selected(q, o), i) < Cardinality(Selected(q, o))
    BY <2>1, PlacesRise
  <2>3. Cardinality(Selected(q, o)) \in Nat
    BY <2>1, Places
  <2> QED
    BY <2>1, <2>2, <2>3, PlaceWithin DEF Offsets, Query
<1>2. \A i \in Selected(q, o) : i \in Items(q, o) <=>
        Place(q, o, i) >= o.skip /\ Place(q, o, i) < o.skip + q.limit
  BY <1>1 DEF Items
<1>3. ASSUME ~More(q, o), NEW i \in Selected(q, o) PROVE Place(q, o, i) < o.skip + q.limit
  BY <1>1, <1>3 DEF More
<1> QED
  BY <1>1, <1>2, <1>3 DEF Ahead, Items

(* Rows that come before all the others keep their places without them, and*)
(* the others move up by as many.                                          *)
LEMMA FirstRows ==
  ASSUME TypeOK, NEW q \in Query, NEW S \in SUBSET Ids, NEW E \in SUBSET S,
         \A e \in E, i \in S \ E : Before(q, e, i)
  PROVE  /\ \A i \in E : Within(q, S, i) = Within(q, E, i)
         /\ \A i \in S \ E : Within(q, S, i) = Cardinality(E) + Within(q, S \ E, i)
         /\ Cardinality(E) \in Nat
<1>1. Cardinality(E) \in Nat /\ IsFiniteSet(E) /\ S \ E \in SUBSET Ids
  BY Places
<1>2. ASSUME NEW i \in E PROVE Within(q, S, i) = Within(q, E, i)
  <2>1. \A j \in S : Before(q, j, i) => j \in E
    BY <1>2, BeforeOrders
  <2>2. {j \in S : Before(q, j, i)} = {j \in E : Before(q, j, i)}
    BY <2>1
  <2> QED
    BY <2>2 DEF Within
<1>3. ASSUME NEW i \in S \ E PROVE Within(q, S, i) = Cardinality(E) + Within(q, S \ E, i)
  <2> DEFINE R == {j \in S \ E : Before(q, j, i)}
  <2>1. {j \in S : Before(q, j, i)} = E \cup R /\ E \cap R = {}
    BY <1>3
  <2>2. IsFiniteSet(R) /\ Cardinality(R) \in Nat /\ Within(q, S \ E, i) = Cardinality(R)
    BY <1>1, Places DEF Within
  <2> HIDE DEF R
  <2>3. Cardinality(E \cup R) = Cardinality(E) + Cardinality(R) - Cardinality({})
    BY <1>1, <2>1, <2>2, FS_Union
  <2>4. Cardinality(E \cup R) = Cardinality(E) + Cardinality(R)
    BY <1>1, <2>2, <2>3, FS_EmptySet
  <2> QED
    BY <2>1, <2>2, <2>4 DEF Within
<1> QED
  BY <1>1, <1>2, <1>3

-----------------------------------------------------------------------------
(* Pages in the order of the records' timestamps.                          *)

Ordered(q) == q.full /\ q.sort # "index"
Sooner(q, m, n) == IF q.sort = "oldest" THEN m < n ELSE m > n

LEMMA TimeOrder ==
  ASSUME TypeOK, NEW q \in Query, Ordered(q), NEW i \in Ids, NEW j \in Ids
  PROVE  /\ Before(q, i, j) => ~Sooner(q, Record(j).modified, Record(i).modified)
         /\ Sooner(q, Record(i).modified, Record(j).modified) => Before(q, i, j)
         /\ Record(i).modified = Record(j).modified =>
              (Before(q, i, j) <=> IF q.sort = "oldest" THEN i < j ELSE i > j)
<1>1. /\ Record(i).modified \in Nat /\ Record(j).modified \in Nat /\ i \in Nat /\ j \in Nat
  BY RecordFields
<1>2. CASE q.sort = "oldest"
  <2>1. Before(q, i, j) <=> Scanned(i, j)
    BY <1>2 DEF Before, NewestFirst
  <2> QED
    BY <1>1, <1>2, <2>1 DEF Scanned, Sooner
<1>3. CASE q.sort # "oldest"
  <2>1. NewestFirst(q)
    BY <1>3 DEF NewestFirst, Ordered, Query, Sorts
  <2>2. Before(q, i, j) <=> i # j /\ ~Scanned(i, j)
    BY <2>1 DEF Before, NewestFirst
  <2> QED
    BY <1>1, <1>3, <2>2 DEF Scanned, Sooner
<1> QED
  BY <1>2, <1>3

LEMMA SelectedInTime ==
  ASSUME TypeOK, NEW q \in Query, Ordered(q), NEW o \in Offsets
  PROVE  /\ \A i \in Ids : i \in Selected(q, o) <=>
              /\ Visible(Record(i))
              /\ Record(i).modified > q.newer
              /\ o.bound # 0 => ~Sooner(q, Record(i).modified, o.bound)
         /\ \A i \in Selected(q, o) : i \in Ids /\ Record(i).modified \in Nat
         /\ o.bound \in Nat /\ o.skip \in Nat /\ q.newer \in Nat /\ q.limit \in Nat \ {0}
<1>1. o.bound \in Nat /\ o.skip \in Nat /\ q.newer \in Nat /\ q.limit \in Nat \ {0}
  BY DEF Offsets, Query
<1>2. \A i \in Ids : Record(i).modified \in Nat
  BY RecordFields
<1>3. q.full /\ (NewestFirst(q) <=> q.sort # "oldest")
  BY DEF Ordered, NewestFirst, Query, Sorts
<1>4. ASSUME NEW i \in Ids
      PROVE  i \in Selected(q, o) <=>
               /\ Visible(Record(i))
               /\ Record(i).modified > q.newer
               /\ o.bound # 0 => ~Sooner(q, Record(i).modified, o.bound)
  BY <1>1, <1>2, <1>3 DEF Selected, Sooner
<1>5. \A i \in Selected(q, o) : i \in Ids
  BY DEF Selected
<1> QED
  BY <1>1, <1>2, <1>4, <1>5

(* The records an offset counts.                                           *)
AtBound(o) == {i \in Ids : Visible(Record(i)) /\ Record(i).modified = o.bound}

(* They come first, and what an offset skips is among them.                *)
Fits(q, o) == o.bound > q.newer /\ o.skip <= Cardinality(AtBound(o))

LEMMA BoundComesFirst ==
  ASSUME TypeOK, NEW q \in Query, Ordered(q), NEW o \in Offsets, o.bound > q.newer
  PROVE  /\ AtBound(o) \in SUBSET Selected(q, o)
         /\ Cardinality(AtBound(o)) \in Nat
         /\ \A i \in AtBound(o) : Place(q, o, i) = Within(q, AtBound(o), i)
         /\ \A i \in Selected(q, o) \ AtBound(o) : Place(q, o, i) >= Cardinality(AtBound(o))
<1>1. AtBound(o) \in SUBSET Selected(q, o)
  BY SelectedInTime DEF AtBound, Sooner
<1>2. \A e \in AtBound(o), i \in Selected(q, o) \ AtBound(o) : Before(q, e, i)
  <2> SUFFICES ASSUME NEW e \in AtBound(o), NEW i \in Selected(q, o) \ AtBound(o)
               PROVE  Before(q, e, i)
    OBVIOUS
  <2>1. /\ e \in Ids /\ Record(e).modified = o.bound /\ i \in Ids
        /\ Record(i).modified # o.bound /\ ~Sooner(q, Record(i).modified, o.bound)
        /\ Record(i).modified \in Nat /\ o.bound \in Nat
    BY SelectedInTime DEF AtBound
  <2>2. Sooner(q, Record(e).modified, Record(i).modified)
    BY <2>1 DEF Sooner
  <2> QED
    BY <2>1, <2>2, TimeOrder
<1>3. Selected(q, o) \in SUBSET Ids /\ \A i : Place(q, o, i) = Within(q, Selected(q, o), i)
  BY PlaceWithin
<1>4. /\ \A i \in AtBound(o) : Within(q, Selected(q, o), i) = Within(q, AtBound(o), i)
      /\ \A i \in Selected(q, o) \ AtBound(o) :
           Within(q, Selected(q, o), i)
             = Cardinality(AtBound(o)) + Within(q, Selected(q, o) \ AtBound(o), i)
      /\ Cardinality(AtBound(o)) \in Nat
  BY <1>1, <1>2, <1>3, FirstRows
<1>5. \A i : Within(q, Selected(q, o) \ AtBound(o), i) \in Nat
  BY <1>3, Places
<1> QED
  BY <1>1, <1>3, <1>4, <1>5

(* A page that ends at the bound it began at is all of that bound.         *)
LEMMA TiedPage ==
  ASSUME TypeOK, NEW q \in Query, Ordered(q), NEW o \in Offsets, More(q, o),
         o.bound # 0, Record(LastItem(q, o)).modified = o.bound
  PROVE  /\ Tied(q, o) = Items(q, o)
         /\ NextOffset(q, o) = [bound |-> o.bound, skip |-> o.skip + q.limit]
<1> DEFINE e == LastItem(q, o)
<1>1. /\ e \in Items(q, o) /\ Place(q, o, e) = o.skip + q.limit - 1
      /\ Cardinality(Items(q, o)) = q.limit
  BY FullPage
<1>2. ASSUME NEW i \in Items(q, o) PROVE Record(i).modified = o.bound
  <2>1. i \in Selected(q, o) /\ e \in Selected(q, o) /\ Place(q, o, i) <= Place(q, o, e)
    <3>1. Place(q, o, i) < o.skip + q.limit /\ Place(q, o, i) \in Nat
      BY AfterPage, PlaceWithin
    <3> QED
      BY <1>1, <3>1, SelectedInTime DEF Items
  <2>2. i = e \/ Before(q, i, e)
    <3>1. Place(q, o, i) \in Nat /\ Place(q, o, e) \in Nat
      BY PlaceWithin
    <3> QED
      BY <2>1, <3>1, PlacesOrder
  <2>3. /\ Record(i).modified \in Nat /\ o.bound \in Nat /\ i \in Ids /\ e \in Ids
        /\ ~Sooner(q, Record(i).modified, o.bound)
    BY <2>1, SelectedInTime
  <2>4. ~Sooner(q, Record(e).modified, Record(i).modified)
    BY <2>2, <2>3, TimeOrder DEF Sooner
  <2> QED
    BY <2>3, <2>4 DEF Sooner
<1>3. Tied(q, o) = Items(q, o)
  BY <1>2 DEF Tied
<1> QED
  BY <1>1, <1>3 DEF NextOffset, Ordered

(* After a full page in time order, the next offset counts what came of its*)
(* bound, on this page and on those before it.                             *)
LEMMA NextInTime ==
  ASSUME TypeOK, NEW q \in Query, Ordered(q), NEW o \in Offsets, More(q, o),
         o = NoOffset \/ Fits(q, o)
  PROVE  /\ Fits(q, NextOffset(q, o))
         /\ Ahead(q, NextOffset(q, o)) = Ahead(q, o) \ Items(q, o)
<1> DEFINE next == NextOffset(q, o)
           e == LastItem(q, o)
           m == Record(e).modified
           n == o.skip + q.limit
           S == Selected(q, o)
           Kept == Selected(q, next)
           Gone == S \ Kept
           Low == {i \in Kept : i = e \/ Before(q, i, e)}
<1>1. /\ e \in Items(q, o) /\ e \in S /\ Place(q, o, e) = n - 1
  <2>1. Items(q, o) \subseteq S
    BY DEF Items
  <2>2. e \in Items(q, o) /\ Place(q, o, e) = o.skip + q.limit - 1
    BY FullPage
  <2>3. e \in S
    BY <2>1, <2>2
  <2>4. Place(q, o, e) = n - 1
    <3>1. o.skip \in Nat /\ q.limit \in Nat
      BY DEF Offsets, Query
    <3> QED
      BY <2>2, <3>1
  <2> QED
    BY <2>2, <2>3, <2>4
<1>2. /\ o.bound \in Nat /\ o.skip \in Nat /\ q.newer \in Nat /\ q.limit \in Nat \ {0}
      /\ e \in Ids /\ m \in Nat /\ m > q.newer /\ n \in Nat \ {0}
      /\ \A i \in S : i \in Ids /\ Record(i).modified \in Nat
      /\ o.bound # 0 => ~Sooner(q, m, o.bound)
  BY <1>1, SelectedInTime
<1> HIDE DEF n, e
<1>3. next.bound = m /\ next.skip \in Nat /\ next \in Offsets
  <2>1. Tied(q, o) \in SUBSET Items(q, o) /\ Items(q, o) \in SUBSET Ids
    BY DEF Tied, Items, Selected
  <2>2. Cardinality(Tied(q, o)) \in Nat
    BY <2>1, Places
  <2> QED
    BY <1>2, <2>2 DEF NextOffset, Ordered, Offsets, e
<1> HIDE DEF next
<1>4. \A i \in Ids : i \in Kept <=> i \in S /\ ~Sooner(q, Record(i).modified, m)
  <2> SUFFICES ASSUME NEW i \in Ids
               PROVE  i \in Kept <=> i \in S /\ ~Sooner(q, Record(i).modified, m)
    OBVIOUS
  <2>1. i \in Kept <=> /\ Visible(Record(i))
                       /\ Record(i).modified > q.newer
                       /\ m # 0 => ~Sooner(q, Record(i).modified, m)
    BY <1>3, SelectedInTime
  <2>2. i \in S <=> /\ Visible(Record(i))
                    /\ Record(i).modified > q.newer
                    /\ o.bound # 0 => ~Sooner(q, Record(i).modified, o.bound)
    BY SelectedInTime
  <2>3. Record(i).modified \in Nat
    BY RecordFields
  <2> QED
    BY <1>2, <2>1, <2>2, <2>3 DEF Sooner
<1>5. Kept \in SUBSET S /\ Gone \in SUBSET S /\ Kept = S \ Gone /\ S \in SUBSET Ids
  BY <1>4 DEF Selected
<1>6. e \in Kept
  BY <1>1, <1>2, <1>4 DEF Sooner
<1> HIDE DEF S, Kept
<1>7. \A i \in Gone, j \in Kept : Before(q, i, j)
  <2> SUFFICES ASSUME NEW i \in Gone, NEW j \in Kept PROVE Before(q, i, j)
    OBVIOUS
  <2>1. /\ i \in Ids /\ j \in Ids
        /\ Sooner(q, Record(i).modified, m) /\ ~Sooner(q, Record(j).modified, m)
        /\ Record(i).modified \in Nat /\ Record(j).modified \in Nat
    BY <1>2, <1>4, <1>5
  <2>2. Sooner(q, Record(i).modified, Record(j).modified)
    BY <1>2, <2>1 DEF Sooner
  <2> QED
    BY <2>1, <2>2, TimeOrder
<1>8. /\ Cardinality(Gone) \in Nat
      /\ \A i \in Kept : /\ Place(q, next, i) \in Nat
                         /\ Place(q, o, i) = Cardinality(Gone) + Place(q, next, i)
  <2>1. /\ \A i : Place(q, o, i) = Within(q, S, i) /\ Place(q, next, i) = Within(q, Kept, i)
        /\ \A i : Place(q, next, i) \in Nat
    BY PlaceWithin DEF S, Kept
  <2>2. /\ \A i \in S \ Gone : Within(q, S, i) = Cardinality(Gone) + Within(q, S \ Gone, i)
        /\ Cardinality(Gone) \in Nat
    <3>1. \A i \in Gone, j \in S \ Gone : Before(q, i, j)
      BY <1>5, <1>7
    <3> HIDE DEF Gone
    <3> QED
      BY <1>5, <3>1, FirstRows
  <2> QED
    BY <1>5, <2>1, <2>2
<1> HIDE DEF Gone
<1>9. \A i \in S : /\ Place(q, o, i) \in Nat
                   /\ Place(q, o, i) < n <=> i = e \/ Before(q, i, e)
  <2> SUFFICES ASSUME NEW i \in S
               PROVE  /\ Place(q, o, i) \in Nat
                      /\ Place(q, o, i) < n <=> i = e \/ Before(q, i, e)
    OBVIOUS
  <2>1. /\ Before(q, i, e) <=> Place(q, o, i) < Place(q, o, e)
        /\ i = e <=> Place(q, o, i) = Place(q, o, e)
    BY <1>1, PlacesOrder DEF S
  <2>2. Place(q, o, i) \in Nat
    BY PlaceWithin
  <2> QED
    BY <1>1, <1>2, <2>1, <2>2
<1>10. \A i \in Gone : Place(q, o, i) < n
  BY <1>5, <1>6, <1>7, <1>9
<1>11. Cardinality(Low) = n - Cardinality(Gone) /\ IsFiniteSet(Low)
  <2> DEFINE Lower == {j \in Kept : Before(q, j, e)}
  <2>1. IsFiniteSet(Lower) /\ Place(q, next, e) = Cardinality(Lower)
    <3>1. Kept \in SUBSET Ids
      BY <1>5
    <3> QED
      BY <3>1, Places, PlaceWithin DEF Within, Kept
  <2>2. e \notin Lower
    BY <1>2, BeforeOrders
  <2>3. Low = Lower \cup {e}
    BY <1>6
  <2> HIDE DEF Lower, Low
  <2>4. Cardinality(Low) = Cardinality(Lower) + 1 /\ IsFiniteSet(Low)
    BY <2>1, <2>2, <2>3, FS_AddElement
  <2>5. n - 1 = Cardinality(Gone) + Cardinality(Lower) /\ Cardinality(Lower) \in Nat
    BY <1>1, <1>6, <1>8, <2>1
  <2> QED
    BY <1>2, <1>8, <2>4, <2>5
<1>12. \A i \in Low : Record(i).modified = m
  <2> SUFFICES ASSUME NEW i \in Low PROVE Record(i).modified = m
    OBVIOUS
  <2>1. /\ i \in Ids /\ Record(i).modified \in Nat /\ ~Sooner(q, Record(i).modified, m)
        /\ i = e \/ Before(q, i, e)
    BY <1>2, <1>4, <1>5
  <2>2. ~Sooner(q, m, Record(i).modified)
    BY <1>2, <2>1, TimeOrder DEF Sooner
  <2> QED
    BY <1>2, <2>1, <2>2 DEF Sooner
<1>13. next.skip = n - Cardinality(Gone)
  <2>1. CASE o.bound = m
    <3>1. o.bound # 0
      BY <1>2, <2>1
    <3>2. next.skip = n
      BY <2>1, <3>1, TiedPage DEF next, n, e
    <3>3. Gone = {}
      <4>1. \A i \in S : ~Sooner(q, Record(i).modified, m)
        BY <1>2, <2>1, <3>1, SelectedInTime DEF S
      <4> QED
        BY <1>2, <1>4, <1>5, <4>1
    <3> QED
      BY <1>2, <3>2, <3>3, FS_EmptySet
  <2>2. CASE o.bound # m
    <3>1. next.skip = Cardinality(Tied(q, o))
      BY <2>2 DEF next, NextOffset, Ordered, e
    <3>2. \A i \in Items(q, o) : i \in S /\ Place(q, o, i) < n
      BY AfterPage DEF Items, S, n
    <3>3. \A i \in Tied(q, o) : i \in Items(q, o) /\ Record(i).modified = m
      BY DEF Tied, e
    <3>4. \A i \in Tied(q, o) : i \in Low
      BY <1>2, <1>4, <1>9, <3>2, <3>3 DEF Sooner
    <3>5. o.skip <= Cardinality(Gone)
      <4>1. CASE o = NoOffset
        BY <1>8, <4>1 DEF NoOffset
      <4>2. CASE Fits(q, o)
        <5>1. AtBound(o) \in SUBSET S /\ o.bound > q.newer /\ o.bound # 0
          BY <1>2, <4>2, BoundComesFirst DEF Fits, S
        <5>2. \A i \in AtBound(o) : i \in Gone
          <6> SUFFICES ASSUME NEW i \in AtBound(o) PROVE i \in Gone
            OBVIOUS
          <6>1. i \in S /\ i \in Ids /\ Record(i).modified = o.bound
            BY <5>1 DEF AtBound
          <6>2. Sooner(q, o.bound, m)
            BY <1>2, <2>2, <5>1 DEF Sooner
          <6> QED
            BY <1>4, <1>5, <6>1, <6>2
        <5>3. Gone \in SUBSET Ids
          BY <1>5
        <5>4. Cardinality(AtBound(o)) <= Cardinality(Gone)
          BY <5>2, <5>3, Places, FS_Subset
        <5>5. Cardinality(AtBound(o)) \in Nat /\ o.skip <= Cardinality(AtBound(o))
          BY <4>2, BoundComesFirst DEF Fits
        <5> QED
          BY <1>2, <1>8, <5>4, <5>5
      <4> QED
        BY <4>1, <4>2
    <3>6. \A i \in Low : i \in Tied(q, o)
      <4> SUFFICES ASSUME NEW i \in Low PROVE i \in Tied(q, o)
        OBVIOUS
      <4>1. i \in Kept /\ i \in S /\ Place(q, o, i) < n /\ Place(q, o, i) \in Nat
        BY <1>5, <1>9
      <4>2. Place(q, o, i) >= o.skip
        BY <1>2, <1>8, <3>5, <4>1
      <4>3. i \in Items(q, o)
        BY <1>2, <4>1, <4>2 DEF Items, S, n
      <4> QED
        BY <1>12, <4>3 DEF Tied, e
    <3>7. Tied(q, o) = Low
      BY <3>4, <3>6
    <3> HIDE DEF Low
    <3> QED
      BY <1>11, <3>1, <3>7
  <2> QED
    BY <2>1, <2>2
<1>14. Fits(q, next)
  <2>1. \A i \in Low : i \in AtBound(next)
    <3>1. \A i \in Kept : i \in Ids /\ Visible(Record(i))
      BY <1>5 DEF Kept, Selected
    <3> QED
      BY <1>3, <1>12, <3>1 DEF AtBound
  <2>2. AtBound(next) \in SUBSET Ids
    BY DEF AtBound
  <2> HIDE DEF Low
  <2>3. Cardinality(Low) <= Cardinality(AtBound(next))
    BY <2>1, <2>2, Places, FS_Subset
  <2> QED
    BY <1>2, <1>3, <1>11, <1>13, <2>3 DEF Fits
<1>15. \A i \in Ids : i \in Ahead(q, next) <=> i \in S /\ Place(q, o, i) >= n
  <2> SUFFICES ASSUME NEW i \in Ids
               PROVE  i \in Ahead(q, next) <=> i \in S /\ Place(q, o, i) >= n
    OBVIOUS
  <2>1. i \in Ahead(q, next) <=> i \in Kept /\ Place(q, next, i) >= next.skip
    BY DEF Ahead, Kept
  <2>2. CASE i \in Kept
    BY <1>2, <1>5, <1>8, <1>13, <2>1, <2>2
  <2>3. CASE i \notin Kept
    <3>1. i \in S => Place(q, o, i) < n /\ Place(q, o, i) \in Nat
      BY <1>5, <1>9, <1>10, <2>3
    <3> QED
      BY <1>2, <2>1, <2>3, <3>1
  <2> QED
    BY <2>2, <2>3
<1>16. \A i \in Ids : i \in Ahead(q, o) \ Items(q, o) <=> i \in S /\ Place(q, o, i) >= n
  <2> SUFFICES ASSUME NEW i \in Ids
               PROVE  i \in Ahead(q, o) \ Items(q, o) <=> i \in S /\ Place(q, o, i) >= n
    OBVIOUS
  <2>1. /\ i \in Ahead(q, o) <=> i \in S /\ Place(q, o, i) >= o.skip
        /\ i \in Items(q, o) => Place(q, o, i) < n
        /\ i \in Ahead(q, o) \ Items(q, o) => Place(q, o, i) >= n
        /\ Place(q, o, i) \in Nat
    BY AfterPage, PlaceWithin DEF Ahead, S, n
  <2> QED
    BY <1>2, <2>1 DEF n
<1>17. Ahead(q, next) \subseteq Ids /\ Ahead(q, o) \subseteq Ids
  BY DEF Ahead, Selected
<1> QED
  BY <1>14, <1>15, <1>16, <1>17 DEF next

(* Where pages are cut by a count alone, the next page takes up there.     *)
LEMMA NextByCount ==
  ASSUME TypeOK, NEW q \in Query, ~Ordered(q), NEW o \in Offsets, o.bound = 0, More(q, o)
  PROVE  /\ NextOffset(q, o) = [bound |-> 0, skip |-> o.skip + q.limit]
         /\ Ahead(q, NextOffset(q, o)) = Ahead(q, o) \ Items(q, o)
<1> DEFINE next == NextOffset(q, o)
           n == o.skip + q.limit
<1>1. next = [bound |-> 0, skip |-> n]
  BY FullPage DEF NextOffset, Ordered
<1>2. o.skip \in Nat /\ q.limit \in Nat \ {0} /\ n \in Nat
  BY DEF Offsets, Query
<1> HIDE DEF next, n
<1>3. Selected(q, next) = Selected(q, o)
  BY <1>1 DEF Selected
<1>4. \A i : Place(q, next, i) = Place(q, o, i) /\ Place(q, o, i) \in Nat
  BY <1>3, PlaceWithin DEF Place
<1>5. /\ Items(q, o) \subseteq Ahead(q, o)
      /\ \A i \in Ahead(q, o) \ Items(q, o) : Place(q, o, i) >= n
      /\ \A i \in Items(q, o) : Place(q, o, i) < n
  BY AfterPage DEF n
<1>6. \A i \in Selected(q, o) :
        i \in Ahead(q, next) <=> i \in Ahead(q, o) \ Items(q, o)
  <2> SUFFICES ASSUME NEW i \in Selected(q, o)
               PROVE  i \in Ahead(q, next) <=> i \in Ahead(q, o) \ Items(q, o)
    OBVIOUS
  <2>1. i \in Ahead(q, next) <=> Place(q, o, i) >= n
    BY <1>1, <1>3, <1>4 DEF Ahead
  <2>2. Place(q, o, i) >= n => i \in Ahead(q, o)
    BY <1>2, <1>4 DEF Ahead, n
  <2> QED
    BY <1>2, <1>4, <1>5, <2>1, <2>2
<1>7. Ahead(q, next) \subseteq Selected(q, o) /\ Ahead(q, o) \subseteq Selected(q, o)
  BY <1>3 DEF Ahead
<1> QED
  BY <1>1, <1>6, <1>7 DEF next, n

(* Every next offset is further on in the query's order.                   *)
LEMMA NextAdvances ==
  ASSUME TypeOK, NEW q \in Query, NEW o \in Offsets, More(q, o),
         ~Ordered(q) => o.bound = 0
  PROVE  LET next == NextOffset(q, o) IN
         /\ next \in Offsets
         /\ IF Ordered(q) THEN next.bound > q.newer ELSE next.bound = 0
         /\ ~Ordered(q) => next.skip > o.skip
         /\ Ordered(q) /\ o.bound # 0 =>
              \/ next.bound = o.bound /\ next.skip > o.skip
              \/ Sooner(q, o.bound, next.bound)
<1> DEFINE next == NextOffset(q, o)
<1>1. o.skip \in Nat /\ o.bound \in Nat /\ q.limit \in Nat \ {0} /\ o.skip + q.limit > o.skip
  BY DEF Offsets, Query
<1>2. CASE ~Ordered(q)
  <2>1. next = [bound |-> 0, skip |-> o.skip + q.limit]
    BY <1>2, NextByCount
  <2> QED
    BY <1>1, <1>2, <2>1 DEF Offsets
<1>3. CASE Ordered(q)
  <2> DEFINE m == Record(LastItem(q, o)).modified
  <2>1. LastItem(q, o) \in Selected(q, o)
    <3>1. LastItem(q, o) \in Items(q, o) /\ Items(q, o) \subseteq Selected(q, o)
      BY FullPage DEF Items
    <3> QED
      BY <3>1
  <2>2. m \in Nat /\ m > q.newer /\ (o.bound # 0 => ~Sooner(q, m, o.bound))
    BY <1>3, <2>1, SelectedInTime
  <2>3. next.bound = m /\ next \in Offsets
    <3>1. Tied(q, o) \in SUBSET Items(q, o) /\ Items(q, o) \in SUBSET Ids
      BY DEF Tied, Items, Selected
    <3>2. Cardinality(Tied(q, o)) \in Nat
      BY <3>1, Places
    <3> QED
      BY <1>1, <1>3, <2>2, <3>2 DEF NextOffset, Ordered, Offsets
  <2>4. ASSUME o.bound # 0, m = o.bound PROVE next.skip > o.skip
    BY <1>1, <1>3, <2>4, TiedPage
  <2> HIDE DEF next, m
  <2>5. ASSUME o.bound # 0, m # o.bound PROVE Sooner(q, o.bound, m)
    BY <1>1, <2>2, <2>5 DEF Sooner
  <2> QED
    BY <1>3, <2>2, <2>3, <2>4, <2>5 DEF next
<1> QED
  BY <1>2, <1>3

(* What a page leaves ahead of it, of records that have been counted so far*)
(* as they should.                                                         *)
LEMMA PageTiles ==
  ASSUME TypeOK, NEW q \in Query, NEW o \in Offsets, NEW counts \in [Ids -> 0 .. 2],
         NEW K \in SUBSET Ids, Page(q, o, counts),
         ~Ordered(q) => o.bound = 0,
         o = NoOffset \/ (Ordered(q) => Fits(q, o)),
         \A i \in K : counts[i] = IF i \in Ahead(q, o) THEN 0 ELSE 1
  PROVE  /\ phase' = "paging" =>
              /\ \A i \in K : served'[i] = IF i \in Ahead(q, offset') THEN 0 ELSE 1
              /\ Ordered(q) => Fits(q, offset')
         /\ phase' = "done" => \A i \in K : served'[i] = 1
<1>1. \A i \in K : served'[i] = IF i \in Items(q, o) THEN IF counts[i] = 0 THEN 1 ELSE 2
                               ELSE counts[i]
  BY DEF Page
<1>2. Items(q, o) \subseteq Ahead(q, o)
  BY AfterPage
<1>3. \A i \in K : served'[i] = IF i \in Ahead(q, o) \ Items(q, o) THEN 0 ELSE 1
  BY <1>1, <1>2
<1>4. CASE More(q, o)
  <2>1. phase' = "paging" /\ offset' = NextOffset(q, o)
    BY <1>4 DEF Page
  <2>2. /\ Ahead(q, NextOffset(q, o)) = Ahead(q, o) \ Items(q, o)
        /\ Ordered(q) => Fits(q, NextOffset(q, o))
    BY <1>4, NextInTime, NextByCount
  <2> QED
    BY <1>3, <2>1, <2>2
<1>5. CASE ~More(q, o)
  <2>1. phase' = "done" /\ Items(q, o) = Ahead(q, o)
    BY <1>5, AfterPage DEF Page
  <2> QED
    BY <1>3, <2>1
<1> QED
  BY <1>4, <1>5

-----------------------------------------------------------------------------
(* The inductive invariant.                                                *)

(* The bound of an offset in hand is one that a row of the query has.      *)
InHand ==
  phase = "paging" =>
    IF Ordered(query) THEN offset.bound > query.newer ELSE offset.bound = 0

(* While anything stands, the collection's stamp has not gone back.        *)
SinceIsPast == phase = "paging" /\ standing # {} => since <= collMod[Coll]

(* Nothing has happened that a guarded reader would not be told of.        *)
Unwritten == query.guarded /\ ~lapsed /\ collMod[Coll] <= since
Steady == (Ordered(query) /\ ~stirred) \/ Unwritten

(* What stood still has come, or is ahead.                                 *)
Resumes ==
  phase = "paging" /\ standing # {} /\ Steady =>
    /\ \A i \in standing : served[i] = IF i \in Ahead(query, offset) THEN 0 ELSE 1
    /\ Ordered(query) => Fits(query, offset)

Tiled ==
  phase = "done" /\ ((Ordered(query) /\ ~stirred) \/ (query.guarded /\ ~lapsed)) =>
    \A i \in standing : served[i] = 1

PagesInvariant == PagesTypeOK /\ InHand /\ SinceIsPast /\ Resumes /\ Tiled

(* A reader sees the same as long as the collection's rows are the same.   *)
LEMMA SameRows ==
  ASSUME \A i \in Ids : /\ rows'[Coll][i] = rows[Coll][i]
                        /\ Visible(rows[Coll][i])' <=> Visible(rows[Coll][i])
  PROVE  /\ Ahead(query, offset)' = Ahead(query', offset')
         /\ AtBound(offset)' = AtBound(offset')
         /\ Fits(query, offset)' = Fits(query', offset')
<1>2. Selected(query, offset)' = Selected(query', offset')
  BY DEF Selected, Visible, Record, NewestFirst
<1>3. \A i, j \in Ids : Before(query, i, j)' <=> Before(query', i, j)
  BY DEF Before, Scanned, Index, Record, NewestFirst
<1>4. \A i \in Ids : Place(query, offset, i)' = Place(query', offset', i)
  <2> SUFFICES ASSUME NEW i \in Ids PROVE Place(query, offset, i)' = Place(query', offset', i)
    OBVIOUS
  <2>1. {j \in Selected(query, offset) : Before(query, j, i)}'
          = {j \in Selected(query', offset') : Before(query', j, i)}
    <3>1. Selected(query', offset') \subseteq Ids
      BY DEF Selected
    <3> QED
      BY <1>2, <1>3, <3>1
  <2> QED
    BY <2>1 DEF Place
<1>5. Ahead(query, offset)' = Ahead(query', offset')
  <2>1. Selected(query', offset') \subseteq Ids
    BY DEF Selected
  <2> QED
    BY <1>2, <1>4, <2>1 DEF Ahead
<1>6. AtBound(offset)' = AtBound(offset')
  BY DEF AtBound, Visible, Record
<1>7. Fits(query, offset)' = Fits(query', offset')
  BY <1>6 DEF Fits
<1> QED
  BY <1>5, <1>6, <1>7

(* Places of the rows that an offset counts depend on those rows alone.    *)
BoundCounts ==
  TypeOK /\ query \in Query /\ Ordered(query) /\ offset \in Offsets /\ offset.bound > query.newer =>
    /\ AtBound(offset) \in SUBSET Selected(query, offset)
    /\ \A i \in AtBound(offset) :
         Place(query, offset, i)
           = Cardinality({j \in AtBound(offset) : IF query.sort = "oldest" THEN j < i ELSE j > i})
    /\ \A i \in Selected(query, offset) \ AtBound(offset) :
         Place(query, offset, i) \in Nat /\ Place(query, offset, i) >= Cardinality(AtBound(offset))

LEMMA BoundCounted == BoundCounts
<1> SUFFICES ASSUME TypeOK, query \in Query, Ordered(query), offset \in Offsets,
                    offset.bound > query.newer
             PROVE  /\ AtBound(offset) \in SUBSET Selected(query, offset)
                    /\ \A i \in AtBound(offset) :
                         Place(query, offset, i)
                           = Cardinality({j \in AtBound(offset) :
                                            IF query.sort = "oldest" THEN j < i ELSE j > i})
                    /\ \A i \in Selected(query, offset) \ AtBound(offset) :
                         Place(query, offset, i) \in Nat /\ Place(query, offset, i) >= Cardinality(AtBound(offset))
  BY DEF BoundCounts
<1>1. /\ AtBound(offset) \in SUBSET Selected(query, offset)
      /\ \A i \in AtBound(offset) :
           Place(query, offset, i) = Within(query, AtBound(offset), i)
      /\ \A i \in Selected(query, offset) \ AtBound(offset) :
           Place(query, offset, i) \in Nat /\ Place(query, offset, i) >= Cardinality(AtBound(offset))
  BY BoundComesFirst, PlaceWithin
<1>2. ASSUME NEW i \in AtBound(offset)
      PROVE  Within(query, AtBound(offset), i)
               = Cardinality({j \in AtBound(offset) :
                                IF query.sort = "oldest" THEN j < i ELSE j > i})
  <2>1. \A j \in AtBound(offset) :
          Before(query, j, i) <=> IF query.sort = "oldest" THEN j < i ELSE j > i
    <3> SUFFICES ASSUME NEW j \in AtBound(offset)
                 PROVE  Before(query, j, i) <=> IF query.sort = "oldest" THEN j < i ELSE j > i
      OBVIOUS
    <3>1. j \in Ids /\ i \in Ids /\ Record(i).modified = Record(j).modified
      BY DEF AtBound
    <3> QED
      BY <3>1, TimeOrder
  <2>2. {j \in AtBound(offset) : Before(query, j, i)}
          = {j \in AtBound(offset) : IF query.sort = "oldest" THEN j < i ELSE j > i}
    BY <2>1
  <2> QED
    BY <2>2 DEF Within
<1> QED
  BY <1>1, <1>2

-----------------------------------------------------------------------------
(* The steps.                                                              *)

(* What another client's request does to the collection: nothing, a stamp  *)
(* past the guard, or away with it.                                        *)
LEMMA OthersTrace ==
  ASSUME TypeOK, PlainWrite \/ Wipe \/ Tick
  PROVE  /\ now \in Nat /\ now' \in Nat /\ now' >= now
         /\ \/ rows'[Coll] = rows[Coll] /\ collMod'[Coll] = collMod[Coll]
            \/ collMod[Coll] < now /\ collMod'[Coll] = now
            \/ rows'[Coll] = [i \in Ids |-> NoRow]
<1> DEFINE Goal ==
      /\ now \in Nat /\ now' \in Nat /\ now' >= now
      /\ \/ rows'[Coll] = rows[Coll] /\ collMod'[Coll] = collMod[Coll]
         \/ collMod[Coll] < now /\ collMod'[Coll] = now
         \/ rows'[Coll] = [i \in Ids |-> NoRow]
<1> USE CollAssumption DEF TypeOK
<1>1. ASSUME NEW c \in Collections, CanAdvance(c), Stamp(c), now' = now,
             NEW recs, rows' = [rows EXCEPT ![c] = recs]
      PROVE  Goal
  <2>1. CASE c = Coll
    BY <1>1, <2>1 DEF CanAdvance, Stamp
  <2>2. CASE c # Coll
    BY <1>1, <2>2 DEF Stamp
  <2> QED
    BY <2>1, <2>2
<1>2. CASE PlainWrite
  <2>1. PICK c \in Collections, h \in Headers :
          \/ \E i \in Ids, b \in Bodies : PutBso(c, i, b, h)
          \/ \E i \in Ids : DeleteBso(c, i, h)
          \/ \E post \in Posts : PostBsos(c, post, h)
          \/ \E S \in SUBSET Ids \ {{}} : DeleteBsos(c, S, h)
          \/ DeleteCollection(c, h)
    BY <1>2 DEF PlainWrite
  <2>2. CASE DeleteCollection(c, h)
    <3>1. /\ rows' = [rows EXCEPT ![c] = Without(rows[c], Ids)] /\ now' = now
          /\ collMod' = [collMod EXCEPT ![c] = 0, ![Tombstone] = now]
      BY <2>2 DEF DeleteCollection
    <3>2. Without(rows[c], Ids) = [i \in Ids |-> NoRow]
      BY DEF Without
    <3>3. CASE c = Coll
      BY <3>1, <3>2, <3>3
    <3>4. CASE c # Coll
      BY <3>1, <3>4, TombstoneAssumption
    <3> QED
      BY <3>3, <3>4
  <2>3. CASE ~DeleteCollection(c, h)
    <3>1. /\ CanAdvance(c) /\ Stamp(c) /\ now' = now
          /\ \E recs : rows' = [rows EXCEPT ![c] = recs]
      BY <2>1, <2>3 DEF PutBso, DeleteBso, PostBsos, DeleteBsos, Admits
    <3> QED
      BY <1>1, <3>1
  <2> QED
    BY <2>2, <2>3
<1>3. CASE Wipe
  BY <1>3 DEF Wipe, DeleteStorage
<1>4. CASE Tick
  BY <1>4, NumbersAssumption DEF Tick
<1> QED
  BY <1>2, <1>3, <1>4

(* The lemma again, of the state before a step and of the one after it.    *)
LEMMA BoundCountedAcross == BoundCounts /\ BoundCounts'
<1>1. BoundCounts
  BY BoundCounted
<1> QED
  BY <1>1, PTL

(* The other clients, and the clock.                                       *)
LEMMA OthersStep ==
  ASSUME PagesInvariant, OtherClients
  PROVE  PagesInvariant'
<1> USE DEF Record
<1>1. TypeOK /\ TypeOK'
  <2>1. TypeOK /\ [Next]_vars
    BY DEF PagesInvariant, PagesTypeOK, OtherClients, Next
  <2> QED
    BY <2>1, StepKeepsTypes
<1>2. /\ query' = query /\ phase' = phase /\ offset' = offset /\ since' = since
      /\ served' = served /\ query \in Query /\ offset \in Offsets /\ standing \subseteq Ids
      /\ standing' \subseteq standing
      /\ \A i \in standing' : rows'[Coll][i] = rows[Coll][i] /\ rows[Coll][i].expiry > now'
  BY QueriesAssumption DEF PagesInvariant, PagesTypeOK, OtherClients, Alive, Offsets
<1>3. /\ now \in Nat /\ now' \in Nat /\ now' >= now
      /\ \/ rows'[Coll] = rows[Coll] /\ collMod'[Coll] = collMod[Coll]
         \/ collMod[Coll] < now /\ collMod'[Coll] = now
         \/ rows'[Coll] = [i \in Ids |-> NoRow]
  BY <1>1, OthersTrace DEF OtherClients
<1>4. standing' # {} => rows'[Coll] # [i \in Ids |-> NoRow]
  <2> SUFFICES ASSUME NEW i \in standing', rows'[Coll] = [j \in Ids |-> NoRow] PROVE FALSE
    OBVIOUS
  <2>1. NoRow.expiry > now'
    BY <1>2
  <2> QED
    BY <1>3, <2>1 DEF NoRow
<1>5. PagesTypeOK'
  BY <1>1, <1>2 DEF PagesInvariant, PagesTypeOK, OtherClients
<1>6. InHand'
  BY <1>2 DEF PagesInvariant, InHand, Ordered
<1>7. /\ collMod[Coll] \in Nat /\ collMod'[Coll] \in Nat /\ since \in Nat
      /\ \A i \in Ids : rows[Coll][i].expiry \in Nat /\ rows[Coll][i].modified \in Nat
  <2>1. collMod[Coll] \in Nat /\ collMod'[Coll] \in Nat /\ since \in Nat
    BY <1>1, CollAssumption DEF TypeOK, PagesInvariant, PagesTypeOK
  <2> QED
    BY <1>1, <2>1, RecordFields
<1>8. SinceIsPast'
  <2> SUFFICES ASSUME phase = "paging", standing' # {} PROVE since <= collMod'[Coll]
    BY <1>2 DEF SinceIsPast
  <2>1. since <= collMod[Coll]
    BY <1>2 DEF PagesInvariant, SinceIsPast
  <2> QED
    BY <1>3, <1>4, <1>7, <2>1
<1>9. Resumes'
  <2> SUFFICES ASSUME phase = "paging", standing' # {}, Steady'
               PROVE  /\ \A i \in standing' :
                           served[i] = IF i \in Ahead(query, offset)' THEN 0 ELSE 1
                      /\ Ordered(query) => Fits(query, offset)'
    BY <1>2 DEF Resumes, Ordered
  <2>1. CASE Ordered(query) /\ ~stirred'
    <3>1. ~stirred
      BY <2>1 DEF OtherClients
    <3>2. /\ \A i \in standing : served[i] = IF i \in Ahead(query, offset) THEN 0 ELSE 1
          /\ Fits(query, offset)
      BY <1>2, <2>1, <3>1 DEF PagesInvariant, Resumes, Steady
    <3>3. offset.bound > query.newer /\ offset.bound # 0 /\ offset.skip \in Nat
      BY <1>2, <3>2 DEF Fits, Query, Offsets
    <3>4. AtBound(offset)' = AtBound(offset)
      BY <1>2, <2>1, <3>3 DEF OtherClients, AtBound, Visible, Alive
    <3>5. Fits(query, offset)'
      BY <1>2, <3>2, <3>4 DEF Fits
    <3> DEFINE earlier(i) == {j \in AtBound(offset) : IF query.sort = "oldest" THEN j < i ELSE j > i}
    <3>6. /\ \A i \in AtBound(offset) : Place(query, offset, i) = Cardinality(earlier(i))
          /\ \A i \in Selected(query, offset) \ AtBound(offset) :
               Place(query, offset, i) \in Nat /\ Place(query, offset, i) >= Cardinality(AtBound(offset))
          /\ \A i \in AtBound(offset)' : Place(query, offset, i)' = Cardinality(earlier(i))
          /\ \A i \in Selected(query, offset)' \ AtBound(offset)' :
               Place(query, offset, i)' \in Nat /\ Place(query, offset, i)' >= Cardinality(AtBound(offset))
      <4>1. BoundCounts /\ BoundCounts'
        BY BoundCountedAcross
      <4>2. /\ \A i \in AtBound(offset) : Place(query, offset, i) = Cardinality(earlier(i))
            /\ \A i \in Selected(query, offset) \ AtBound(offset) :
                 Place(query, offset, i) \in Nat /\ Place(query, offset, i) >= Cardinality(AtBound(offset))
        BY <1>1, <1>2, <2>1, <3>3, <4>1 DEF BoundCounts
      <4>3. TypeOK' /\ Ordered(query)' /\ query' \in Query /\ offset' \in Offsets
              /\ offset'.bound > query'.newer
        BY <1>1, <1>2, <2>1, <3>3 DEF Ordered
      <4>4. /\ \A i \in AtBound(offset)' :
                 Place(query, offset, i)'
                   = Cardinality({j \in AtBound(offset)' : IF query'.sort = "oldest" THEN j < i ELSE j > i})
            /\ \A i \in Selected(query, offset)' \ AtBound(offset)' :
                 Place(query, offset, i)' \in Nat /\ Place(query, offset, i)' >= Cardinality(AtBound(offset)')
        BY <4>1, <4>3 DEF BoundCounts
      <4> QED
        BY <1>2, <3>4, <4>2, <4>4
    <3>7. ASSUME NEW i \in standing'
          PROVE  i \in Ahead(query, offset) <=> i \in Ahead(query, offset)'
      <4>1. /\ i \in Ids /\ rows'[Coll][i] = rows[Coll][i]
            /\ rows[Coll][i].expiry > now' /\ rows[Coll][i].expiry > now
        BY <1>2, <1>3, <1>7
      <4>2. i \in Selected(query, offset) <=> i \in Selected(query, offset)'
        BY <1>2, <4>1 DEF Selected, Visible, NewestFirst
      <4>3. CASE i \in AtBound(offset)
        <5>1. Place(query, offset, i)' = Place(query, offset, i)
          BY <3>4, <3>6, <4>3
        <5> QED
          BY <1>2, <4>2, <5>1 DEF Ahead
      <4>4. CASE i \notin AtBound(offset)
        <5>1. Cardinality(AtBound(offset)) \in Nat /\ offset.skip <= Cardinality(AtBound(offset))
          BY <1>1, <1>2, <2>1, <3>2, <3>3, BoundComesFirst DEF Fits
        <5>2. i \in Selected(query, offset) => Place(query, offset, i) >= offset.skip
          BY <1>2, <3>6, <4>4, <5>1, PlaceWithin DEF Offsets
        <5>3. i \in Selected(query, offset)' => Place(query, offset, i)' >= offset.skip
          BY <1>2, <3>4, <3>6, <4>4, <5>1 DEF Offsets
        <5> QED
          BY <1>2, <4>2, <5>2, <5>3 DEF Ahead
      <4> QED
        BY <4>3, <4>4
    <3> QED
      BY <1>2, <3>2, <3>5, <3>7
  <2>2. CASE Unwritten'
    <3>1. query.guarded /\ ~lapsed' /\ ~lapsed /\ collMod'[Coll] <= since
      BY <1>2, <2>2 DEF Unwritten, OtherClients
    <3>2. since <= collMod[Coll]
      BY <1>2 DEF PagesInvariant, SinceIsPast
    <3>3. rows'[Coll] = rows[Coll] /\ collMod'[Coll] = collMod[Coll]
      BY <1>3, <1>4, <1>7, <3>1, <3>2
    <3>4. Unwritten
      BY <3>1, <3>3 DEF Unwritten
    <3>5. /\ \A i \in standing : served[i] = IF i \in Ahead(query, offset) THEN 0 ELSE 1
          /\ Ordered(query) => Fits(query, offset)
      BY <1>2, <3>4 DEF PagesInvariant, Resumes, Steady
    <3>6. \A i \in Ids : /\ rows'[Coll][i] = rows[Coll][i]
                         /\ Visible(rows[Coll][i])' <=> Visible(rows[Coll][i])
      <4>1. \A i \in Ids : Visible(rows[Coll][i]) => rows[Coll][i].expiry > now'
        BY <3>1 DEF OtherClients, Alive
      <4> QED
        BY <1>3, <1>7, <3>3, <4>1 DEF Visible
    <3>7. Ahead(query, offset)' = Ahead(query, offset) /\ Fits(query, offset)' = Fits(query, offset)
      <4>1. Ahead(query, offset)' = Ahead(query', offset') /\ Fits(query, offset)' = Fits(query', offset')
        BY <3>6, SameRows
      <4> QED
        BY <1>2, <4>1
    <3> QED
      BY <1>2, <3>5, <3>7
  <2> QED
    BY <1>2, <2>1, <2>2 DEF Steady, Ordered
<1>10. Tiled'
  <2>1. ~stirred' => ~stirred
    BY DEF OtherClients
  <2>2. ~lapsed' => ~lapsed
    BY DEF OtherClients
  <2> QED
    BY <1>2, <2>1, <2>2 DEF PagesInvariant, Tiled, Ordered
<1> QED
  BY <1>5, <1>6, <1>8, <1>9, <1>10 DEF PagesInvariant

(* A first page.                                                           *)
LEMMA FirstPageStep ==
  ASSUME PagesInvariant, NEW q \in Queries, FirstPage(q)
  PROVE  PagesInvariant'
<1> DEFINE K == Selected(q, NoOffset)
           zeros == [i \in Ids |-> 0]
<1>1. /\ TypeOK /\ UNCHANGED vars /\ q \in Query /\ NoOffset \in Offsets
      /\ query' = q /\ since' = collMod[Coll] /\ standing' = K /\ ~lapsed' /\ lapsed' \in BOOLEAN
      /\ K \in SUBSET Ids /\ zeros \in [Ids -> 0 .. 2] /\ phase = "none"
      /\ Page(q, NoOffset, zeros)
  <2>1. TypeOK /\ UNCHANGED vars /\ q \in Query /\ NoOffset \in Offsets /\ phase = "none"
    BY QueriesAssumption DEF PagesInvariant, PagesTypeOK, FirstPage, Offsets, NoOffset
  <2>2. /\ query' = q /\ since' = collMod[Coll] /\ standing' = K /\ ~lapsed' /\ lapsed' \in BOOLEAN
        /\ Page(q, NoOffset, zeros)
    BY DEF FirstPage
  <2>3. K \in SUBSET Ids /\ zeros \in [Ids -> 0 .. 2]
    BY DEF Selected
  <2> QED
    BY <2>1, <2>2, <2>3
<1>2. TypeOK'
  BY <1>1, StepKeepsTypes
<1>3. Ahead(q, NoOffset) = K
  BY PlaceWithin DEF Ahead, NoOffset
<1>4. /\ phase' = "paging" =>
           /\ \A i \in K : served'[i] = IF i \in Ahead(q, offset') THEN 0 ELSE 1
           /\ Ordered(q) => Fits(q, offset')
      /\ phase' = "done" => \A i \in K : served'[i] = 1
  <2>1. \A i \in K : zeros[i] = IF i \in Ahead(q, NoOffset) THEN 0 ELSE 1
    BY <1>1, <1>3
  <2>2. ~Ordered(q) => NoOffset.bound = 0
    BY DEF NoOffset
  <2> HIDE DEF K, zeros
  <2> QED
    BY <1>1, <2>1, <2>2, PageTiles
<1>5. /\ Ahead(query, offset)' = Ahead(q, offset') /\ Fits(query, offset)' = Fits(q, offset')
  <2>1. \A i \in Ids : /\ rows'[Coll][i] = rows[Coll][i]
                       /\ Visible(rows[Coll][i])' <=> Visible(rows[Coll][i])
    BY <1>1 DEF vars, Visible
  <2> QED
    BY <1>1, <2>1, SameRows
<1>6. /\ phase' \in {"paging", "done"} /\ offset' \in Offsets
      /\ phase' = "paging" =>
           IF Ordered(q) THEN offset'.bound > q.newer ELSE offset'.bound = 0
  <2>1. CASE More(q, NoOffset)
    <3>1. phase' = "paging" /\ offset' = NextOffset(q, NoOffset)
      BY <1>1, <2>1 DEF Page
    <3>2. NoOffset.bound = 0
      BY DEF NoOffset
    <3> QED
      BY <1>1, <2>1, <3>1, <3>2, NextAdvances
  <2>2. CASE ~More(q, NoOffset)
    BY <1>1, <2>2 DEF Page
  <2> QED
    BY <2>1, <2>2
<1>7. served' \in [Ids -> 0 .. 2] /\ stirred' \in BOOLEAN
  BY <1>1 DEF Page
<1>8. PagesTypeOK'
  <2>1. collMod[Coll] \in Nat
    BY <1>1, CollAssumption DEF TypeOK
  <2> HIDE DEF K, zeros
  <2> QED
    BY <1>1, <1>2, <1>6, <1>7, <2>1 DEF PagesTypeOK, Offsets
<1>9. InHand'
  BY <1>1, <1>6 DEF InHand, Ordered
<1>10. SinceIsPast'
  <2>1. collMod[Coll] \in Nat /\ collMod'[Coll] = collMod[Coll]
    BY <1>1, CollAssumption DEF TypeOK, vars
  <2> QED
    BY <1>1, <2>1 DEF SinceIsPast
<1> HIDE DEF K, zeros
<1>11. Resumes'
  BY <1>1, <1>4, <1>5 DEF Resumes, Ordered
<1>12. Tiled'
  BY <1>1, <1>4 DEF Tiled
<1> QED
  BY <1>8, <1>9, <1>10, <1>11, <1>12 DEF PagesInvariant

(* A page in sequence.                                                     *)
LEMMA FollowingPageStep ==
  ASSUME PagesInvariant, FollowingPage
  PROVE  PagesInvariant' /\ (phase' = "paging" => Further(offset', offset))
<1> DEFINE K == IF Steady THEN standing ELSE {}
<1>1. /\ TypeOK /\ UNCHANGED vars /\ query \in Query /\ offset \in Offsets
      /\ query' = query /\ since' = since /\ standing' = standing /\ lapsed' = lapsed
      /\ standing \subseteq Ids /\ served \in [Ids -> 0 .. 2] /\ phase = "paging"
      /\ stirred' = stirred
      /\ Page(query, offset, served)
      /\ IF Ordered(query) THEN offset.bound > query.newer ELSE offset.bound = 0
      /\ since <= collMod[Coll] \/ standing = {}
  <2>1. stirred \in BOOLEAN /\ phase = "paging"
    BY DEF PagesInvariant, PagesTypeOK, FollowingPage
  <2>2. stirred' = stirred
    BY <2>1 DEF FollowingPage, Page
  <2> QED
    BY <2>1, <2>2, QueriesAssumption
    DEF PagesInvariant, PagesTypeOK, FollowingPage, Offsets, InHand, SinceIsPast
<1>2. TypeOK'
  BY <1>1, StepKeepsTypes
<1>3. standing # {} /\ Steady =>
        /\ phase' = "paging" =>
             /\ \A i \in standing : served'[i] = IF i \in Ahead(query, offset') THEN 0 ELSE 1
             /\ Ordered(query) => Fits(query, offset')
        /\ phase' = "done" => \A i \in standing : served'[i] = 1
  <2> SUFFICES ASSUME standing # {}, Steady
               PROVE  /\ phase' = "paging" =>
                           /\ \A i \in standing :
                                served'[i] = IF i \in Ahead(query, offset') THEN 0 ELSE 1
                           /\ Ordered(query) => Fits(query, offset')
                      /\ phase' = "done" => \A i \in standing : served'[i] = 1
    OBVIOUS
  <2>1. /\ \A i \in standing : served[i] = IF i \in Ahead(query, offset) THEN 0 ELSE 1
        /\ Ordered(query) => Fits(query, offset)
    BY <1>1 DEF PagesInvariant, Resumes
  <2> QED
    BY <1>1, <2>1, PageTiles
<1>4. /\ Ahead(query, offset)' = Ahead(query, offset') /\ Fits(query, offset)' = Fits(query, offset')
  <2>1. \A i \in Ids : /\ rows'[Coll][i] = rows[Coll][i]
                       /\ Visible(rows[Coll][i])' <=> Visible(rows[Coll][i])
    BY <1>1 DEF vars, Visible
  <2>2. Ahead(query, offset)' = Ahead(query', offset') /\ Fits(query, offset)' = Fits(query', offset')
    BY <2>1, SameRows
  <2> QED
    BY <1>1, <2>2
<1>5. /\ phase' \in {"paging", "done"} /\ offset' \in Offsets
      /\ phase' = "paging" =>
           /\ IF Ordered(query) THEN offset'.bound > query.newer ELSE offset'.bound = 0
           /\ Further(offset', offset)
  <2>1. CASE More(query, offset)
    <3>1. phase' = "paging" /\ offset' = NextOffset(query, offset)
      BY <1>1, <2>1 DEF Page
    <3>2. /\ offset' \in Offsets
          /\ IF Ordered(query) THEN offset'.bound > query.newer ELSE offset'.bound = 0
          /\ ~Ordered(query) => offset'.skip > offset.skip
          /\ Ordered(query) /\ offset.bound # 0 =>
               \/ offset'.bound = offset.bound /\ offset'.skip > offset.skip
               \/ Sooner(query, offset.bound, offset'.bound)
      BY <1>1, <2>1, <3>1, NextAdvances
    <3>3. Further(offset', offset)
      <4>1. CASE Ordered(query)
        <5>1. /\ offset.bound \in Nat /\ offset.bound # 0 /\ offset'.bound \in Nat
              /\ query.full /\ query.sort # "index"
              /\ NewestFirst(query) \/ query.sort = "oldest"
          BY <1>1, <3>2, <4>1 DEF Query, Offsets, Ordered, NewestFirst, Sorts
        <5> QED
          BY <3>2, <4>1, <5>1 DEF Further, Sooner, NewestFirst
      <4>2. CASE ~Ordered(query)
        BY <3>2, <4>2 DEF Further, Ordered
      <4> QED
        BY <4>1, <4>2
    <3> QED
      BY <3>1, <3>2, <3>3
  <2>2. CASE ~More(query, offset)
    <3>1. phase' = "done" /\ offset' = NoOffset
      BY <1>1, <2>2 DEF Page
    <3> QED
      BY <3>1 DEF Offsets, NoOffset
  <2> QED
    BY <2>1, <2>2
<1>6. served' \in [Ids -> 0 .. 2]
  <2>1. \A i \in Ids : served[i] \in 0 .. 2
    BY <1>1
  <2> QED
    BY <2>1 DEF FollowingPage, Page
<1>7. PagesTypeOK'
  <2>1. {stirred, lapsed} \subseteq BOOLEAN /\ since \in Nat /\ query \in Queries
    BY DEF PagesInvariant, PagesTypeOK
  <2> QED
    BY <1>1, <1>2, <1>5, <1>6, <2>1 DEF PagesTypeOK, Offsets
<1>8. InHand'
  BY <1>1, <1>5 DEF InHand, Ordered
<1>9. SinceIsPast'
  BY <1>1 DEF SinceIsPast, vars
<1>10. Resumes'
  <2>1. Steady' <=> Steady
    BY <1>1 DEF Steady, Unwritten, Ordered, vars
  <2> QED
    BY <1>1, <1>3, <1>4, <2>1 DEF Resumes, Ordered
<1>11. Tiled'
  <2> SUFFICES ASSUME phase' = "done", NEW i \in standing,
                      (Ordered(query) /\ ~stirred) \/ (query.guarded /\ ~lapsed)
               PROVE  served'[i] = 1
    BY <1>1 DEF Tiled, Ordered
  <2>1. query.guarded => collMod[Coll] <= since
    BY DEF FollowingPage, Unmoved, Proceeds
  <2>2. Steady
    BY <2>1 DEF Steady, Unwritten
  <2> QED
    BY <1>3, <2>2
<1> QED
  BY <1>5, <1>7, <1>8, <1>9, <1>10, <1>11 DEF PagesInvariant

(* What came is thrown away; and nothing moves.                            *)
LEMMA GiveUpStep ==
  ASSUME PagesInvariant, GiveUp \/ UNCHANGED pageVars
  PROVE  PagesInvariant'
<1>1. TypeOK'
  <2>1. TypeOK /\ UNCHANGED vars
    BY DEF PagesInvariant, PagesTypeOK, GiveUp, pageVars, vars
  <2> QED
    BY <2>1, StepKeepsTypes
<1>2. CASE GiveUp
  <2>1. phase' = "none"
    BY <1>2 DEF GiveUp
  <2>2. PagesTypeOK'
    <3>1. query' \in Queries
      BY <1>2 DEF PagesInvariant, PagesTypeOK, GiveUp
    <3>2. /\ phase' = "none" /\ offset' = [bound |-> 0, skip |-> 0] /\ since' = 0
          /\ served' = [i \in Ids |-> 0] /\ standing' = {} /\ ~stirred' /\ ~lapsed'
          /\ stirred' \in BOOLEAN /\ lapsed' \in BOOLEAN
      BY <1>2 DEF GiveUp, NoOffset
    <3> QED
      BY <1>1, <3>1, <3>2 DEF PagesTypeOK
  <2> QED
    BY <2>1, <2>2 DEF PagesInvariant, InHand, SinceIsPast, Resumes, Tiled
<1>3. CASE UNCHANGED pageVars
  <2>1. Ahead(query, offset)' = Ahead(query, offset) /\ Fits(query, offset)' = Fits(query, offset)
    <3>1. \A i \in Ids : /\ rows'[Coll][i] = rows[Coll][i]
                         /\ Visible(rows[Coll][i])' <=> Visible(rows[Coll][i])
      BY <1>3 DEF pageVars, Visible
    <3>2. Ahead(query, offset)' = Ahead(query', offset') /\ Fits(query, offset)' = Fits(query', offset')
      BY <3>1, SameRows
    <3> QED
      BY <1>3, <3>2 DEF pageVars
  <2>2. Steady' <=> Steady
    BY <1>3 DEF pageVars, Steady, Unwritten, Ordered
  <2> QED
    BY <1>1, <1>3, <2>1, <2>2
    DEF pageVars, PagesInvariant, PagesTypeOK, InHand, SinceIsPast, Resumes, Tiled, Ordered
<1> QED
  BY <1>2, <1>3

-----------------------------------------------------------------------------
(* What stood still while it was read has come, or is ahead of the offset  *)
(* in hand, as long as the records it counts are what they were, or as     *)
(* the guard has seen no write (SyncStore.get_bsos, encode_next_offset).   *)
THEOREM PagesInvariantHolds == PagesSpec => []PagesInvariant
<1>1. PagesInit => PagesInvariant
  <2> SUFFICES ASSUME PagesInit PROVE PagesInvariant
    OBVIOUS
  <2>1. TypeOK
    BY NumbersAssumption DEF PagesInit, Init, TypeOK, NoRow, Row
  <2>2. PagesTypeOK
    <3>1. /\ phase = "none" /\ offset = [bound |-> 0, skip |-> 0] /\ since = 0 /\ query \in Queries
          /\ served = [i \in Ids |-> 0] /\ standing = {}
          /\ stirred \in BOOLEAN /\ lapsed \in BOOLEAN
      BY DEF PagesInit, NoOffset
    <3> QED
      BY <2>1, <3>1 DEF PagesTypeOK
  <2> QED
    BY <2>2 DEF PagesInit, PagesInvariant, InHand, SinceIsPast, Resumes, Tiled
<1>2. PagesInvariant /\ [PagesNext]_pageVars => PagesInvariant'
  <2> SUFFICES ASSUME PagesInvariant, [PagesNext]_pageVars PROVE PagesInvariant'
    OBVIOUS
  <2>1. CASE \E q \in Queries : FirstPage(q)
    BY <2>1, FirstPageStep
  <2>2. CASE FollowingPage
    BY <2>2, FollowingPageStep
  <2>3. CASE GiveUp \/ UNCHANGED pageVars
    BY <2>3, GiveUpStep
  <2>4. CASE OtherClients
    BY <2>4, OthersStep
  <2> QED
    BY <2>1, <2>2, <2>3, <2>4 DEF PagesNext
<1> QED
  BY <1>1, <1>2, PTL DEF PagesSpec

(* Reading in the order of timestamps, a record that never changed comes   *)
(* on exactly one page, whatever else is written, unless the records at    *)
(* an offset's bound changed under it (encode_next_offset).                *)
THEOREM OrderedPagesAreComplete == PagesSpec => []OrderedPagesTile
<1>1. PagesInvariant => OrderedPagesTile
  BY DEF PagesInvariant, Tiled, OrderedPagesTile, Ordered
<1> QED
  BY <1>1, PagesInvariantHolds, PTL

(* Under X-If-Unmodified-Since every order is complete (get_bsos with the  *)
(* precondition of _run).                                                  *)
THEOREM GuardedPagesAreComplete == PagesSpec => []GuardedPagesTile
<1>1. PagesInvariant => GuardedPagesTile
  BY DEF PagesInvariant, Tiled, GuardedPagesTile
<1> QED
  BY <1>1, PagesInvariantHolds, PTL

(* No client that follows X-Weave-Next-Offset is led in a circle, however  *)
(* many records, pages and writes there are (encode_next_offset).          *)
THEOREM PagesNeverCircle == PagesSpec => PagesAdvance
<1>1. PagesInvariant /\ [PagesNext]_pageVars
        => [FollowingPage /\ phase' = "paging" => Further(offset', offset)]_pageVars
  BY FollowingPageStep
<1> QED
  BY <1>1, PagesInvariantHolds, PTL DEF PagesSpec, PagesAdvance

=============================================================================
