----------------------------- MODULE SyncReader -----------------------------
(***************************************************************************)
(* A device that follows one user's storage by incremental sync, beside    *)
(* any number of other clients that write it.                              *)
(*                                                                         *)
(* The device keeps, per collection, the X-Last-Modified of its last read  *)
(* or upload and a copy of the records.  It reads what is newer than that  *)
(* stamp, and uploads under X-If-Unmodified-Since with it.  Its steps are  *)
(* the GET and POST routes of the server as the device sees them; the      *)
(* other clients' steps are SyncStore's.                                   *)
(***************************************************************************)
EXTENDS SyncStore

VARIABLES
  seen,    \* the collection stamp of the device's last read or upload
  mirror,  \* the device's copy of each record, Null where it has none
  current, \* history: seen[c] still means what it meant when it was read
  revived  \* history: records that came back from expiry unmodified

deviceVars == <<seen, mirror, current, revived>>
allVars == <<now, rows, collMod, batches, seen, mirror, current, revived>>

(* What a client sees of a record.                                         *)
Content(r) == [payload |-> r.payload, sortindex |-> r.sortindex]

(* A record invisible in one state and visible in the next with the same   *)
(* modified: no read newer than a stamp will ever return it.  It stays so  *)
(* until something moves its modified.                                     *)
Revives(c, i) == ~Visible(rows[c][i]) /\ rows'[c][i].expiry > now'

Revived ==
  {p \in Collections \X Ids :
     /\ rows'[p[1]][p[2]].modified = rows[p[1]][p[2]].modified
     /\ p \in revived \/ Revives(p[1], p[2])}

ReaderInit ==
  /\ Init
  /\ seen = [c \in Collections |-> 0]
  /\ mirror = [c \in Collections |-> [i \in Ids |-> Null]]
  /\ current = [c \in Collections |-> TRUE]
  /\ revived = {}

-----------------------------------------------------------------------------
(* The other clients and the clock.                                        *)

OthersWrite ==
  /\ PlainWrite \/ BatchWrite \/ Tick
  /\ revived' = Revived
  /\ UNCHANGED <<seen, mirror, current>>

(* A stamp loses its meaning for a collection that is not there when the   *)
(* clock falls back to it: nothing then keeps new records above it.        *)
ClockFallsBack ==
  /\ StepBack
  /\ current' = [c \in Collections |->
                   current[c] /\ (collMod[c] # 0 \/ seen[c] < now')]
  /\ revived' = Revived
  /\ UNCHANGED <<seen, mirror>>

(* A wipe starts every stamp over.                                         *)
OthersWipe ==
  /\ Wipe
  /\ current' = [c \in Collections |-> FALSE]
  /\ revived' = {}
  /\ UNCHANGED <<seen, mirror>>

-----------------------------------------------------------------------------
(* The device.                                                             *)

(* GET /storage/c?full&newer=seen, with no limit: get_bsos returns the     *)
(* visible records above the stamp, and _run adds the collection's stamp   *)
(* as X-Last-Modified.                                                     *)
ReadNewer(c) ==
  /\ mirror' = [mirror EXCEPT ![c] =
       [i \in Ids |-> IF Visible(rows[c][i]) /\ rows[c][i].modified > seen[c]
                      THEN Content(rows[c][i]) ELSE @[i]]]
  /\ seen' = [seen EXCEPT ![c] = collMod[c]]
  /\ UNCHANGED <<now, rows, collMod, batches, current, revived>>

(* GET /storage/c?full: what a device does when it starts over.            *)
ReadAll(c) ==
  /\ mirror' = [mirror EXCEPT ![c] =
       [i \in Ids |-> IF Visible(rows[c][i]) THEN Content(rows[c][i]) ELSE Null]]
  /\ seen' = [seen EXCEPT ![c] = collMod[c]]
  /\ current' = [current EXCEPT ![c] = TRUE]
  /\ UNCHANGED <<now, rows, collMod, batches, revived>>

(* A device sends whole records, so it knows what it wrote.                *)
WholeBodies == {b \in Bodies : b.payload # Null /\ b.sortindex # Null}
WholePosts == {post \in Posts : \A i \in DOMAIN post : post[i] \in WholeBodies}

Unmodified(c) == [kind |-> "unmodified", since |-> seen[c]]

(* POST /storage/c under X-If-Unmodified-Since: carried out only if the    *)
(* collection is where the device last saw it, and then the device's stamp *)
(* is the one the server answers.                                          *)
Upload(c, post) ==
  /\ PostBsos(c, post, Unmodified(c))
  /\ mirror' = [mirror EXCEPT ![c] =
       [i \in Ids |-> IF i \in DOMAIN post
                      THEN [payload |-> post[i].payload, sortindex |-> post[i].sortindex]
                      ELSE @[i]]]
  /\ seen' = [seen EXCEPT ![c] = now]
  /\ revived' = Revived
  /\ UNCHANGED current

Device ==
  \E c \in Collections :
    \/ ReadNewer(c)
    \/ ReadAll(c)
    \/ \E post \in WholePosts : Upload(c, post)

ReaderNext == OthersWrite \/ ClockFallsBack \/ OthersWipe \/ Device

ReaderSpec == ReaderInit /\ [][ReaderNext]_allVars

-----------------------------------------------------------------------------
ReaderTypeOK ==
  /\ TypeOK
  /\ seen \in [Collections -> Nat]
  /\ mirror \in [Collections -> [Ids ->
       [payload : Payloads \cup {Blank}, sortindex : Sortindexes \cup {Null}] \cup {Null}]]
  /\ current \in [Collections -> BOOLEAN]
  /\ revived \subseteq Collections \X Ids

(* The stamp a device holds stays at or below every stamp a later write    *)
(* can get.                                                                *)
StampIsPast ==
  \A c \in Collections :
    current[c] => IF collMod[c] # 0 THEN seen[c] <= collMod[c] ELSE seen[c] < now

(* Incremental sync loses nothing: every live record that the next         *)
(* newer=seen read would leave out is already in the device's copy as it   *)
(* stands on the server.  check_write, the one stamp per request and the   *)
(* conditional upload are all there for this.                              *)
MirrorComplete ==
  \A c \in Collections, i \in Ids :
    /\ current[c]
    /\ Visible(rows[c][i])
    /\ rows[c][i].modified <= seen[c]
    /\ <<c, i>> \notin revived
    => mirror[c][i] = Content(rows[c][i])

(* A 304 to X-If-Modified-Since, or a pass of X-If-Unmodified-Since, with  *)
(* the device's stamp is an honest answer: the device's copy has every     *)
(* live record of the collection.  A write let through on a stale copy     *)
(* would be a lost update.                                                 *)
UnmovedMeansCurrent ==
  \A c \in Collections :
    /\ current[c]
    /\ \/ Proceeds(Unmodified(c), collMod[c])
       \/ ~Proceeds([kind |-> "modified", since |-> seen[c]], collMod[c])
    => \A i \in Ids : Visible(rows[c][i]) /\ <<c, i>> \notin revived
                        => mirror[c][i] = Content(rows[c][i])

(* What put_bso says of an update that does not move modified: nothing     *)
(* about the record the client can see has changed.  Then no carve-out for *)
(* revived records would be needed.                                        *)
MirrorCompleteThroughRevival ==
  \A c \in Collections, i \in Ids :
    current[c] /\ Visible(rows[c][i]) /\ rows[c][i].modified <= seen[c]
      => mirror[c][i] = Content(rows[c][i])

=============================================================================
