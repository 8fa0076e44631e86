---------------------------- MODULE SyncUploads ----------------------------
(***************************************************************************)
(* Devices that upload in batches against one user's storage, whose        *)
(* replies may be lost, beside other clients that write it.                *)
(*                                                                         *)
(* A device opens a batch, appends to it, and commits it.  It counts on    *)
(* the records the server has acknowledged (the 202s): its ledger.  When   *)
(* the reply to a commit is lost the device sends the commit again.        *)
(***************************************************************************)
EXTENDS SyncStore

CONSTANT Devices

\* The devices send no precondition of their own.
ASSUME HeaderlessAssumption == NoHeader \in Headers

VARIABLE upload

uploadVars == <<now, rows, collMod, batches, upload>>

(* id 0 is no upload.  landed is how often the server carried out its      *)
(* commit: not at all, once, or again (2).                                 *)
(* fate is whether a wipe came between ("wiped"), or the id was in the     *)
(* hands of an upload from before a wipe when this one got it ("shared").  *)
UploadState == [id : Nat, coll : Collections, ledger : Posts,
                landed : 0 .. 2, fate : {"own", "wiped", "shared"}]

Working(d) == upload[d].id # 0
OpenUploads == {d \in Devices : Working(d) /\ upload[d].landed = 0 /\ upload[d].fate = "own"}

Begin(d, c, id, post) ==
  upload' = [upload EXCEPT ![d] =
    [id |-> id, coll |-> c, ledger |-> post, landed |-> 0,
     fate |-> IF \E e \in Devices : upload[e].id = id /\ upload[e].fate = "wiped"
              THEN "shared" ELSE "own"]]

Rest(ledger, post) == [i \in DOMAIN ledger \ DOMAIN post |-> ledger[i]]

UploadsInit ==
  /\ Init
  /\ \E c \in Collections :
       upload = [d \in Devices |-> [id |-> 0, coll |-> c, ledger |-> <<>>,
                                    landed |-> 0, fate |-> "own"]]

-----------------------------------------------------------------------------
(* Opening an upload; if the reply is lost the device never learns the id, *)
(* and the batch stays behind with nobody to commit it.                    *)
StartUpload(d, c, id, post) ==
  /\ ~Working(d)
  /\ OpenBatch(c, id, post, NoHeader)
  /\ Begin(d, c, id, post) \/ UNCHANGED upload

(* Appending; if the reply is lost the device no longer knows what is      *)
(* staged under those ids.                                                 *)
Append(d, post) ==
  /\ Working(d) /\ upload[d].landed = 0
  /\ AppendBatch(upload[d].coll, upload[d].id, post, NoHeader)
  /\ upload' = [upload EXCEPT ![d].ledger = Over(post, @)]
     \/ upload' = [upload EXCEPT ![d].ledger = Rest(@, post)]

(* Committing, for the first time or again after a lost reply.  Nothing is *)
(* known to the device before the reply, so a retry is the same request.   *)
Commit(d, post) ==
  /\ Working(d)
  /\ CommitBatch(upload[d].coll, upload[d].id, post, NoHeader)
  /\ upload' = [upload EXCEPT ![d].landed = IF @ = 0 THEN 1 ELSE 2]

(* The reply to a commit arrives, or the batch is refused (400 for one     *)
(* that is no longer valid): the device is done with this upload.          *)
Finish(d) ==
  /\ Working(d)
  /\ upload[d].landed > 0 \/ ~ValidBatch(upload[d].coll, upload[d].id)
  /\ upload' = [upload EXCEPT ![d] = [@ EXCEPT !.id = 0, !.ledger = <<>>,
                                               !.landed = 0, !.fate = "own"]]
  /\ UNCHANGED vars

Uploader(d) ==
  \/ \E c \in Collections, id \in now .. now + BatchRetries - 1, post \in Posts :
       StartUpload(d, c, id, post)
  \/ \E post \in Posts : Append(d, post) \/ Commit(d, post)
  \/ Finish(d)

(* The other clients and the clock, which only advances here: a commit sent *)
(* again after the clock was set back may find its id in use anew.          *)
Others == (PlainWrite \/ Tick) /\ UNCHANGED upload

WipeUnderway ==
  /\ Wipe
  /\ upload' = [d \in Devices |->
       IF Working(d) THEN [upload[d] EXCEPT !.fate = "wiped"] ELSE upload[d]]

UploadsNext == (\E d \in Devices : Uploader(d)) \/ Others \/ WipeUnderway

UploadsSpec == UploadsInit /\ [][UploadsNext]_uploadVars

-----------------------------------------------------------------------------
UploadsTypeOK == TypeOK /\ upload \in [Devices -> UploadState]

(* What a batch holds for a device is what the server acknowledged to it,  *)
(* for as long as the upload is open, whatever other devices open, append, *)
(* commit or delete meanwhile.                                             *)
BatchHoldsLedger ==
  \A d \in OpenUploads :
    \E b \in batches :
      /\ b.id = upload[d].id /\ b.coll = upload[d].coll
      /\ \A i \in DOMAIN upload[d].ledger :
           i \in DOMAIN b.items /\ b.items[i] = upload[d].ledger[i]

(* No two devices work on one batch.                                       *)
BatchesAreNotShared ==
  \A d1, d2 \in OpenUploads :
    upload[d1].id = upload[d2].id => d1 = d2

(* A commit sent again after its reply was lost never lands a second time, *)
(* on this device's batch or on another's that got the same id: create     *)
(* reuses an id only within its hundredth, and by then the collection is   *)
(* stamped.                                                                *)
CommitLandsOnce ==
  \A d \in Devices : upload[d].fate = "own" => upload[d].landed <= 1

(* A commit lands the whole ledger, at one instant: afterwards every       *)
(* record the server acknowledged is stamped with it and has the fields    *)
(* that were staged, unless the commit itself carried a newer copy.        *)
CommitLandsLedger ==
  [][\A d \in OpenUploads : upload'[d].landed = 1 =>
       \A post \in Posts : Commit(d, post) =>
         \A i \in DOMAIN upload[d].ledger \ DOMAIN post :
           LET staged == upload[d].ledger[i]
               r == rows'[upload[d].coll][i] IN
           /\ r.modified = now /\ collMod'[upload[d].coll] = now
           /\ staged.payload \in {Null, r.payload}
           /\ staged.sortindex \in {Null, r.sortindex}
           /\ staged.ttl # Null => r.expiry = now + staged.ttl]_uploadVars

(* What the code says of a batch opened before a wipe: its commit answers  *)
(* "batch not found" rather than landing.  Not so once its id is reused.   *)
WipedUploadsNeverLand ==
  [][\A d \in Devices :
       upload[d].fate = "wiped" => upload'[d].landed <= upload[d].landed]_uploadVars

=============================================================================
