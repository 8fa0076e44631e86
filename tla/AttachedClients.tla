-------------------------- MODULE AttachedClients --------------------------
(***************************************************************************)
(* GET /account/attached_clients (auth/attached_clients.py): the devices,   *)
(* OAuth grants and sessions of one account, merged into a list with one    *)
(* row for each browser.                                                    *)
(*                                                                         *)
(* The three are read one after the other, and for each device the last     *)
(* use of its credential, every read a statement of its own: browsers sign  *)
(* in and out, register and are disconnected between any two of them.       *)
(* Those requests are single steps here; Credentials has their statements.  *)
(***************************************************************************)
EXTENDS Integers, FiniteSets

CONSTANTS
  Sessions,  \* session tokens, random and so never used twice
  Refreshes, \* OAuth refresh tokens, likewise
  DeviceIds, \* ids of device records, likewise
  None       \* no value

Credentials == Sessions \cup Refreshes

ASSUME DistinctAssumption ==
  /\ Sessions \cap Refreshes = {}
  /\ DeviceIds \cap Credentials = {}
  /\ None \notin Credentials \cup DeviceIds

VARIABLES
  live,    \* the rows of session_tokens and of refresh_tokens
  devices, \* the rows of devices: id -> the credential it points at, and
           \* whether it was created after the cutoff
  minted,  \* every credential and device id handed out so far
  passed,  \* the filterIdleDevicesTimestamp of the model is in the past
  recent,  \* the credentials used since
  request, \* the list request: where it is, who asks, whether idle devices are
           \* filtered, and what it has read so far
  listing, \* the rows that are answered
  standing,\* history: what has stood as it is since the request came
  ended    \* history: the credentials that had ended before it came

others == <<live, devices, minted, passed, recent>>
vars == <<live, devices, minted, passed, recent, request, listing, standing, ended>>

Device == [by : Credentials, new : BOOLEAN]
Waiting == [pc |-> "idle", caller |-> None, filter |-> FALSE,
            seen |-> [d \in {} |-> None], shown |-> {}, weighed |-> {}, grants |-> {}]

-----------------------------------------------------------------------------
(* The browsers.                                                           *)

Owned(cred, devs) == {d \in DOMAIN devs : devs[d].by = cred}

(* What was just used is recent once the cutoff has passed.                *)
Used(creds) == recent' = IF passed THEN recent \cup creds ELSE recent

SignIn(cred) ==
  /\ cred \notin minted
  /\ live' = live \cup {cred}
  /\ minted' = minted \cup {cred}
  /\ Used({cred})
  /\ UNCHANGED <<devices, passed>>

(* An access token is minted from a refresh token; a session is touched.   *)
Use(cred) ==
  /\ cred \in live
  /\ Used({cred})
  /\ UNCHANGED <<live, devices, minted, passed>>

(* Mutant: PRAGMA foreign_keys left off.                                   *)
EndKeepsDevices(cred) ==
  /\ cred \in live
  /\ live' = live \ {cred}
  /\ UNCHANGED <<devices, minted, passed, recent>>

(* A sign-out takes the session's device record with it; a refresh token   *)
(* that is revoked leaves a record that points at nothing.                 *)
End(cred) ==
  /\ cred \in live
  /\ live' = live \ {cred}
  /\ devices' = [d \in DOMAIN devices \ (IF cred \in Sessions THEN Owned(cred, devices) ELSE {})
                   |-> devices[d]]
  /\ UNCHANGED <<minted, passed, recent>>

(* Mutant: the unique indexes on the two pointers are missing, and the     *)
(* caller's own record is not looked for.                                  *)
MayRegisterAny(cred, d) == d \in DOMAIN devices \/ d \notin minted

(* device_register: the record the caller has, or one it names when it has *)
(* none, or a new one.                                                     *)
MayRegister(cred, d) ==
  IF Owned(cred, devices) # {} THEN d \in Owned(cred, devices)
  ELSE d \in DOMAIN devices \/ d \notin minted

Register(cred, d) ==
  /\ cred \in live
  /\ MayRegister(cred, d)
  /\ devices' = [e \in DOMAIN devices \cup {d} |->
       IF e # d THEN devices[e]
       ELSE [by |-> cred, new |-> IF d \in DOMAIN devices THEN devices[d].new ELSE passed]]
  /\ minted' = minted \cup {d}
  /\ UNCHANGED <<live, passed, recent>>

(* delete_device: the record, and the credential it points at.             *)
Disconnect(d) ==
  /\ d \in DOMAIN devices
  /\ live' = live \ {devices[d].by}
  /\ devices' = [e \in DOMAIN devices \ {d} |-> devices[e]]
  /\ UNCHANGED <<minted, passed, recent>>

CutoffPasses ==
  /\ ~passed
  /\ passed' = TRUE
  /\ UNCHANGED <<live, devices, minted, recent>>

Browsers ==
  /\ \/ \E cred \in Credentials : SignIn(cred) \/ Use(cred) \/ End(cred)
     \/ \E cred \in Credentials, d \in DeviceIds : Register(cred, d)
     \/ \E d \in DeviceIds : Disconnect(d)
     \/ CutoffPasses
  /\ standing' = {x \in standing :
       IF x \in Credentials THEN x \in live' ELSE x \in DOMAIN devices' /\ devices'[x] = devices[x]}
  /\ UNCHANGED <<request, listing, ended>>

-----------------------------------------------------------------------------
(* The list.                                                               *)

At(pc) == request.pc = pc

(* last_access_time: of the session, else of the refresh token or, if that *)
(* is later, the record's creation, else of that alone.                    *)
Active(device) ==
  IF device.by \in live
  THEN device.by \in recent \/ (device.by \in Refreshes /\ device.new)
  ELSE device.new

(* The caller's session is found, and touched.                             *)
Ask(caller, filter) ==
  /\ At("idle")
  /\ caller \in live
  /\ Used({caller})
  /\ request' = [Waiting EXCEPT !.pc = "devices", !.caller = caller, !.filter = filter]
  /\ standing' = live \cup {d \in DOMAIN devices : filter => Active(devices[d])}
  /\ ended' = (minted \cap Credentials) \ live
  /\ UNCHANGED <<live, devices, minted, passed, listing>>

ReadDevices ==
  /\ At("devices")
  /\ request' = [request EXCEPT !.pc = "weigh", !.seen = devices]
  /\ UNCHANGED <<others, listing, standing, ended>>

(* _devices: each device's last use, and the idle ones left out.           *)
Weigh(d) ==
  /\ At("weigh")
  /\ d \in DOMAIN request.seen \ request.weighed
  /\ request' = [request EXCEPT !.weighed = @ \cup {d},
       !.shown = IF request.filter /\ ~Active(request.seen[d]) THEN @ ELSE @ \cup {d}]
  /\ UNCHANGED <<others, listing, standing, ended>>

(* authorized_clients                                                      *)
ReadGrants ==
  /\ At("weigh")
  /\ request.weighed = DOMAIN request.seen
  /\ request' = [request EXCEPT !.pc = "sessions", !.grants = live \cap Refreshes]
  /\ UNCHANGED <<others, listing, standing, ended>>

Row(device, session, refresh, current) ==
  [device |-> device, session |-> session, refresh |-> refresh, current |-> current]

(* merge: a row for each device, which claims the session or the grant its *)
(* record points at; a row for every other grant, and every other session. *)
(* A refresh token is reported only if its grant was read; a session is    *)
(* reported as the record has it.                                          *)
Merge(seen, shown, grants, sessions, caller) ==
  LET claimed == {seen[d].by : d \in shown} IN
  {Row(d, IF seen[d].by \in Sessions THEN seen[d].by ELSE None,
       IF seen[d].by \in grants THEN seen[d].by ELSE None,
       seen[d].by \in sessions \cap {caller}) : d \in shown}
  \cup {Row(None, None, r, FALSE) : r \in grants \ claimed}
  \cup {Row(None, s, None, s = caller) : s \in sessions \ claimed}

(* _sessions, and the merged answer.                                       *)
ReadSessions ==
  /\ At("sessions")
  /\ listing' = Merge(request.seen, request.shown, request.grants, live \cap Sessions,
                      request.caller)
  /\ request' = [Waiting EXCEPT !.pc = "answered", !.caller = request.caller,
                                !.filter = request.filter]
  /\ UNCHANGED <<others, standing, ended>>

Done ==
  /\ At("answered")
  /\ request' = Waiting
  /\ listing' = {}
  /\ standing' = {}
  /\ ended' = {}
  /\ UNCHANGED others

List ==
  \/ \E caller \in Sessions, filter \in BOOLEAN : Ask(caller, filter)
  \/ ReadDevices \/ (\E d \in DeviceIds : Weigh(d)) \/ ReadGrants \/ ReadSessions
  \/ Done

Init ==
  /\ live = {} /\ devices = [d \in {} |-> None] /\ minted = {}
  /\ passed = FALSE /\ recent = {}
  /\ request = Waiting /\ listing = {} /\ standing = {} /\ ended = {}

Next == Browsers \/ List

Spec == Init /\ [][Next]_vars

-----------------------------------------------------------------------------
TypeOK ==
  /\ live \subseteq minted \cap Credentials
  /\ DOMAIN devices \subseteq minted \cap DeviceIds
  /\ devices \in [DOMAIN devices -> Device]
  /\ minted \subseteq Credentials \cup DeviceIds
  /\ passed \in BOOLEAN
  /\ recent \subseteq Credentials
  /\ request.pc \in {"idle", "devices", "weigh", "sessions", "answered"}
  /\ request.caller \in Sessions \cup {None}
  /\ request.shown \subseteq request.weighed
  /\ request.weighed \subseteq DOMAIN request.seen
  /\ request.grants \subseteq Refreshes
  /\ listing \subseteq [device : DeviceIds \cup {None}, session : Sessions \cup {None},
                        refresh : Refreshes \cup {None}, current : BOOLEAN]
  /\ standing \subseteq Credentials \cup DeviceIds
  /\ ended \subseteq Credentials

Names(row, x) == x \in {row.device, row.session, row.refresh}
RowsOf(x) == {row \in listing : Names(row, x)}

(* A browser is on one row.  Whatever happens between the reads, nothing   *)
(* is listed twice; what stood throughout is listed, a device in use on    *)
(* the row of its credential; and the caller, unless it is signed out      *)
(* meanwhile, finds itself on the one row that is marked.                  *)
OneRowEach ==
  At("answered") =>
    /\ \A x \in Credentials \cup DeviceIds : Cardinality(RowsOf(x)) <= 1
    /\ \A x \in standing : x \in Credentials \/ ~request.filter => RowsOf(x) # {}
    /\ \A d \in standing \cap DeviceIds :
         devices[d].by \in standing => RowsOf(d) = RowsOf(devices[d].by)
    /\ {row \in listing : row.current} \subseteq RowsOf(request.caller)
    /\ request.caller \in standing => \E row \in RowsOf(request.caller) : row.current

(* Nothing that had ended when the list was asked for is on it: not a      *)
(* session whose device record outlived it, not a grant some record still  *)
(* points at.                                                              *)
EndedIsNotListed == \A x \in ended : RowsOf(x) = {}

=============================================================================
