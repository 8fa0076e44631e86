----------------------- MODULE AttachedClientsProofs -----------------------
(***************************************************************************)
(* What holds of AttachedClients for any number of browsers, grants and    *)
(* device records, and whatever happens between the reads of the list.     *)
(***************************************************************************)
EXTENDS AttachedClients, FiniteSetTheorems, TLAPS

-----------------------------------------------------------------------------
(* The tables.                                                             *)

Records == UNION {[S -> Device] : S \in SUBSET DeviceIds}

UniquePointers(devs) == \A d, e \in DOMAIN devs : devs[d].by = devs[e].by => d = e

Tables ==
  /\ live \subseteq minted \cap Credentials
  /\ devices \in Records /\ DOMAIN devices \subseteq minted
  /\ minted \subseteq Credentials \cup DeviceIds
  /\ passed \in BOOLEAN
  /\ recent \subseteq Credentials
  /\ UniquePointers(devices)
  /\ \A d \in DOMAIN devices : devices[d].by \in Sessions => devices[d].by \in live

LEMMA RecordFields ==
  ASSUME NEW devs \in Records
  PROVE  /\ DOMAIN devs \subseteq DeviceIds
         /\ \A d \in DOMAIN devs : devs[d] \in Device /\ devs[d].by \in Credentials
         /\ devs = [d \in DOMAIN devs |-> devs[d]]
<1>1. PICK S \in SUBSET DeviceIds : devs \in [S -> Device]
  BY DEF Records
<1> QED
  BY <1>1 DEF Device

LEMMA RecordsMade ==
  ASSUME NEW devs, devs = [d \in DOMAIN devs |-> devs[d]], DOMAIN devs \subseteq DeviceIds,
         \A d \in DOMAIN devs : devs[d] \in Device
  PROVE  devs \in Records
<1>1. devs \in [DOMAIN devs -> Device]
  OBVIOUS
<1> QED
  BY <1>1 DEF Records

(* A browser's request leaves the tables as they should be; what it takes   *)
(* away never comes back, and what was used stays so.                      *)
LEMMA BrowsersKeepTables ==
  ASSUME Tables, Browsers
  PROVE  /\ Tables'
         /\ minted \subseteq minted' /\ recent \subseteq recent'
         /\ live' \subseteq live \cup {c \in Credentials : c \notin minted}
<1> DEFINE Goal == /\ Tables'
                   /\ minted \subseteq minted' /\ recent \subseteq recent'
                   /\ live' \subseteq live \cup {c \in Credentials : c \notin minted}
<1>1. ASSUME NEW creds \in SUBSET Credentials, Used(creds)
      PROVE  recent' \subseteq Credentials /\ recent \subseteq recent'
  BY <1>1 DEF Used, Tables
<1>2. ASSUME NEW cred \in Credentials, SignIn(cred)
      PROVE  Goal
  <2>1. recent' \subseteq Credentials /\ recent \subseteq recent'
    BY <1>1, <1>2 DEF SignIn
  <2> QED
    BY <1>2, <2>1 DEF SignIn, Tables
<1>3. ASSUME NEW cred \in Credentials, Use(cred)
      PROVE  Goal
  <2>1. recent' \subseteq Credentials /\ recent \subseteq recent'
    BY <1>1, <1>3 DEF Use
  <2> QED
    BY <1>3, <2>1 DEF Use, Tables
<1>4. ASSUME DOMAIN devices' \subseteq DOMAIN devices,
             devices' = [d \in DOMAIN devices' |-> devices[d]]
      PROVE  devices' \in Records /\ UniquePointers(devices)' /\ DOMAIN devices' \subseteq minted
  <2>1. \A d \in DOMAIN devices' : devices'[d] = devices[d]
    BY <1>4
  <2>2. devices' \in Records
    BY <1>4, <2>1, RecordFields, RecordsMade DEF Tables
  <2> QED
    BY <1>4, <2>1, <2>2 DEF Tables, UniquePointers
<1>5. ASSUME NEW cred \in Credentials, End(cred)
      PROVE  Goal
  <2>1. /\ live' = live \ {cred} /\ minted' = minted /\ passed' = passed /\ recent' = recent
        /\ devices' = [d \in DOMAIN devices'|-> devices[d]]
        /\ DOMAIN devices' =
             DOMAIN devices \ (IF cred \in Sessions THEN Owned(cred, devices) ELSE {})
    BY <1>5 DEF End
  <2>2. devices' \in Records /\ UniquePointers(devices)' /\ DOMAIN devices' \subseteq minted
    BY <1>4, <2>1
  <2>3. ASSUME NEW d \in DOMAIN devices', devices'[d].by \in Sessions
        PROVE  devices'[d].by \in live'
    BY <2>1, <2>3 DEF Tables, Owned
  <2> QED
    BY <2>1, <2>2, <2>3 DEF Tables
<1>6. ASSUME NEW d \in DeviceIds, Disconnect(d)
      PROVE  Goal
  <2>1. /\ live' = live \ {devices[d].by} /\ minted' = minted /\ passed' = passed
        /\ recent' = recent
        /\ devices' = [e \in DOMAIN devices' |-> devices[e]] /\ d \in DOMAIN devices
        /\ DOMAIN devices' = DOMAIN devices \ {d}
    BY <1>6 DEF Disconnect
  <2>2. devices' \in Records /\ UniquePointers(devices)' /\ DOMAIN devices' \subseteq minted
    BY <1>4, <2>1
  <2>3. ASSUME NEW e \in DOMAIN devices', devices'[e].by \in Sessions
        PROVE  devices'[e].by \in live'
    BY <2>1, <2>3 DEF Tables, UniquePointers
  <2> QED
    BY <2>1, <2>2, <2>3 DEF Tables
<1>7. ASSUME NEW cred \in Credentials, NEW d \in DeviceIds, Register(cred, d)
      PROVE  Goal
  <2>1. /\ cred \in live /\ MayRegister(cred, d)
        /\ minted' = minted \cup {d} /\ live' = live /\ passed' = passed /\ recent' = recent
        /\ DOMAIN devices' = DOMAIN devices \cup {d}
        /\ devices' = [e \in DOMAIN devices' |-> devices'[e]]
        /\ \A e \in DOMAIN devices \ {d} : devices'[e] = devices[e]
    BY <1>7 DEF Register
  <2>2. PICK new : new = IF d \in DOMAIN devices THEN devices[d].new ELSE passed
    OBVIOUS
  <2>3. new \in BOOLEAN
    <3>1. d \in DOMAIN devices => devices[d] \in Device
      BY RecordFields DEF Tables
    <3> QED
      BY <2>2, <3>1 DEF Tables, Device
  <2>4. devices'[d] = [by |-> cred, new |-> new]
    BY <1>7, <2>2 DEF Register
  <2>5. devices'[d] \in Device /\ devices'[d].by = cred
    BY <2>3, <2>4 DEF Device
  <2>6. devices' \in Records
    <3>1. \A e \in DOMAIN devices' : devices'[e] \in Device
      BY <2>1, <2>5, RecordFields DEF Tables
    <3>2. DOMAIN devices' \subseteq DeviceIds
      BY <2>1, RecordFields DEF Tables
    <3> QED
      BY <2>1, <3>1, <3>2, RecordsMade
  <2>7. \A e \in DOMAIN devices \ {d} : devices[e].by # cred
    BY <2>1 DEF MayRegister, Owned, Tables, UniquePointers
  <2>8. UniquePointers(devices)'
    BY <2>1, <2>5, <2>7 DEF UniquePointers, Tables
  <2> QED
    BY <2>1, <2>5, <2>6, <2>8 DEF Tables
<1>8. CASE CutoffPasses
  BY <1>8 DEF CutoffPasses, Tables
<1> QED
  BY <1>2, <1>3, <1>5, <1>6, <1>7, <1>8 DEF Browsers

-----------------------------------------------------------------------------
(* The list.  While it is being read: what has ended stays ended, what has *)
(* stood is still there, and the records that were read, which may be out  *)
(* of date by now, are those of every record that still stands and name no *)
(* session that had ended before.                                          *)

Request ==
  [pc : {"idle", "devices", "weigh", "sessions", "answered"}, caller : Sessions \cup {None},
   filter : BOOLEAN, seen : Records, shown : SUBSET DeviceIds, weighed : SUBSET DeviceIds,
   grants : SUBSET Refreshes]

RequestType ==
  /\ request \in Request
  /\ ~At("idle") => request.caller \in Sessions
  /\ At("devices") => request.weighed = {}
  /\ request.shown \subseteq request.weighed
  /\ request.weighed \subseteq DOMAIN request.seen

History ==
  /\ ended \subseteq (minted \cap Credentials) \ live
  /\ standing \subseteq Credentials \cup DeviceIds
  /\ standing \cap Credentials \subseteq live
  /\ standing \cap DeviceIds \subseteq DOMAIN devices

Reading == At("weigh") \/ At("sessions")

SeenStands ==
  Reading =>
    /\ UniquePointers(request.seen)
    /\ \A d \in DOMAIN request.seen :
         request.seen[d].by \in Sessions => request.seen[d].by \notin ended
    /\ \A d \in standing \cap DeviceIds :
         d \in DOMAIN request.seen /\ request.seen[d] = devices[d]

(* A record that stands with its credential is in use, and is not left out. *)
InUse(device) == device.by \in recent \/ (device.by \in Refreshes /\ device.new)

StandingIsShown ==
  /\ At("devices") \/ At("weigh") =>
       \A d \in standing \cap DeviceIds :
         request.filter /\ devices[d].by \in standing => InUse(devices[d])
  /\ Reading =>
       \A d \in standing \cap request.weighed :
         ~request.filter \/ devices[d].by \in standing => d \in request.shown

GrantsStand ==
  At("sessions") =>
    /\ request.weighed = DOMAIN request.seen
    /\ request.grants \cap ended = {}
    /\ standing \cap Refreshes \subseteq request.grants

ListInvariant ==
  /\ Tables
  /\ RequestType
  /\ History
  /\ SeenStands
  /\ StandingIsShown
  /\ GrantsStand
  /\ ~At("answered") => listing = {}
  /\ OneRowEach
  /\ EndedIsNotListed

LEMMA WaitingFields ==
  /\ Waiting.pc = "idle" /\ Waiting.caller = None /\ Waiting.filter = FALSE
  /\ Waiting.seen \in Records /\ DOMAIN Waiting.seen = {}
  /\ Waiting.shown = {} /\ Waiting.weighed = {} /\ Waiting.grants = {}
  /\ Waiting \in Request
<1>1. Waiting.seen = [d \in {} |-> None]
  BY DEF Waiting
<1>2. Waiting.seen \in Records
  BY <1>1, RecordsMade
<1> QED
  BY <1>1, <1>2 DEF Waiting, Request

(* What the requests of the browsers leave of the list's view.             *)
LEMMA BrowsersKeepStanding ==
  ASSUME ListInvariant, Browsers
  PROVE  /\ UNCHANGED <<request, listing, ended>>
         /\ standing' \subseteq standing
         /\ standing' \cap Credentials \subseteq live'
         /\ \A d \in standing' \cap DeviceIds : d \in DOMAIN devices' /\ devices'[d] = devices[d]
<1>1. UNCHANGED <<request, listing, ended>>
  BY DEF Browsers
<1>2. standing' = {x \in standing :
         IF x \in Credentials THEN x \in live'
         ELSE x \in DOMAIN devices' /\ devices'[x] = devices[x]}
  BY DEF Browsers
<1>3. \A d \in DeviceIds : d \notin Credentials
  BY DistinctAssumption
<1> QED
  BY <1>1, <1>2, <1>3

LEMMA BrowsersKeepList ==
  ASSUME ListInvariant, Browsers
  PROVE  ListInvariant'
<1>1. /\ Tables' /\ minted \subseteq minted' /\ recent \subseteq recent'
      /\ live' \subseteq live \cup {c \in Credentials : c \notin minted}
  BY BrowsersKeepTables DEF ListInvariant
<1>2. /\ request' = request /\ listing' = listing /\ ended' = ended
      /\ standing' \subseteq standing
      /\ standing' \cap Credentials \subseteq live'
      /\ \A d \in standing' \cap DeviceIds : d \in DOMAIN devices' /\ devices'[d] = devices[d]
  BY BrowsersKeepStanding
<1>3. RequestType'
  BY <1>2 DEF ListInvariant, RequestType, At
<1>4. History'
  BY <1>1, <1>2 DEF ListInvariant, History
<1>5. SeenStands'
  BY <1>2 DEF ListInvariant, SeenStands, Reading, At
<1>6. StandingIsShown'
  <2>1. ASSUME At("devices") \/ At("weigh"), NEW d \in standing' \cap DeviceIds, request.filter,
               devices'[d].by \in standing'
        PROVE  InUse(devices[d])'
    <3>1. InUse(devices[d])
      BY <1>2, <2>1 DEF ListInvariant, StandingIsShown
    <3> QED
      BY <1>1, <1>2, <2>1, <3>1 DEF InUse
  <2>2. ASSUME Reading, NEW d \in standing' \cap request.weighed,
               ~request.filter \/ devices'[d].by \in standing'
        PROVE  d \in request.shown
    <3>1. d \in DeviceIds
      BY <2>2, RecordFields DEF ListInvariant, RequestType, Request
    <3> QED
      BY <1>2, <2>2, <3>1 DEF ListInvariant, StandingIsShown
  <2> QED
    BY <1>2, <2>1, <2>2 DEF StandingIsShown, Reading, At
<1>7. GrantsStand'
  BY <1>2 DEF ListInvariant, GrantsStand, At
<1>8. \A x : RowsOf(x)' = RowsOf(x)
  BY <1>2 DEF RowsOf
<1>9. OneRowEach'
  <2>1. ASSUME At("answered"), NEW d \in standing' \cap DeviceIds, devices'[d].by \in standing'
        PROVE  RowsOf(d) = RowsOf(devices'[d].by)
    BY <1>2, <2>1 DEF ListInvariant, OneRowEach
  <2> QED
    BY <1>2, <1>8, <2>1 DEF ListInvariant, OneRowEach, At
<1>10. EndedIsNotListed'
  BY <1>2, <1>8 DEF ListInvariant, EndedIsNotListed
<1> QED
  BY <1>1, <1>2, <1>3, <1>4, <1>5, <1>6, <1>7, <1>9, <1>10 DEF ListInvariant, At

LEMMA AskKeepsList ==
  ASSUME ListInvariant, NEW caller \in Sessions, NEW filter \in BOOLEAN, Ask(caller, filter)
  PROVE  ListInvariant'
<1> USE DEF ListInvariant
<1>1. /\ caller \in live /\ recent \subseteq recent' /\ recent' \subseteq Credentials
      /\ UNCHANGED <<live, devices, minted, passed, listing>>
      /\ listing = {}
  BY DEF Ask, Used, Tables, Credentials, At
<1>2. /\ request'.pc = "devices" /\ request'.caller = caller /\ request'.filter = filter
      /\ request'.seen = Waiting.seen /\ request'.shown = {} /\ request'.weighed = {}
      /\ request'.grants = {}
  BY WaitingFields DEF Ask, Waiting
<1>3. /\ standing' = live \cup {d \in DOMAIN devices : filter => Active(devices[d])}
      /\ ended' = (minted \cap Credentials) \ live
  BY DEF Ask
<1>4. /\ live \subseteq Credentials /\ live \cap DeviceIds = {}
      /\ DOMAIN devices \subseteq DeviceIds /\ DOMAIN devices \cap Credentials = {}
  BY RecordFields, DistinctAssumption DEF Tables
<1>5. Tables'
  BY <1>1 DEF Tables
<1>6. RequestType'
  <2>1. /\ Waiting \in Request
        /\ request' = [[[Waiting EXCEPT !.pc = "devices"] EXCEPT !.caller = caller]
                         EXCEPT !.filter = filter]
    BY WaitingFields DEF Ask, Waiting
  <2>2. request' \in Request
    BY <2>1 DEF Request
  <2> QED
    BY <1>2, <2>2, WaitingFields DEF RequestType, At
<1>7. History'
  BY <1>1, <1>3, <1>4 DEF History
<1>8. SeenStands' /\ GrantsStand'
  BY <1>2 DEF SeenStands, GrantsStand, Reading, At
<1>9. StandingIsShown'
  <2>1. ASSUME NEW d \in standing' \cap DeviceIds, filter, devices[d].by \in standing'
        PROVE  InUse(devices[d])'
    <3>1. Active(devices[d])
      BY <1>3, <1>4, <2>1
    <3>2. devices[d].by \in live
      BY <1>3, <1>4, <2>1, RecordFields DEF Tables
    <3> QED
      BY <1>1, <3>1, <3>2 DEF Active, InUse
  <2> QED
    BY <1>1, <1>2, <2>1 DEF StandingIsShown, Reading, At
<1>10. (listing = {})' /\ ~At("answered")'
  BY <1>1, <1>2 DEF At
<1>11. OneRowEach' /\ EndedIsNotListed'
  BY <1>10 DEF OneRowEach, EndedIsNotListed, RowsOf, At
<1> QED
  BY <1>5, <1>6, <1>7, <1>8, <1>9, <1>10, <1>11

LEMMA ReadDevicesKeepsList ==
  ASSUME ListInvariant, ReadDevices
  PROVE  ListInvariant'
<1> USE DEF ListInvariant
<1>1. /\ At("devices") /\ listing = {}
      /\ UNCHANGED <<live, devices, minted, passed, recent, listing, standing, ended>>
  BY DEF ReadDevices, others, At
<1>2. /\ request' \in Request
      /\ request'.pc = "weigh" /\ request'.caller = request.caller
      /\ request'.filter = request.filter /\ request'.seen = devices
      /\ request'.shown = request.shown /\ request'.weighed = request.weighed
      /\ request'.grants = request.grants
  BY DEF ReadDevices, RequestType, Request, Tables
<1>3. Tables'
  BY <1>1 DEF Tables
<1>4. RequestType'
  BY <1>1, <1>2 DEF RequestType, At
<1>5. History'
  BY <1>1 DEF History
<1>6. SeenStands'
  BY <1>1, <1>2, RecordFields DEF SeenStands, Reading, At, Tables, History
<1>7. StandingIsShown'
  BY <1>1, <1>2 DEF StandingIsShown, Reading, At, InUse, RequestType
<1>8. GrantsStand'
  BY <1>2 DEF GrantsStand, At
<1>9. (~At("answered"))'
  BY <1>2 DEF At
<1>10. OneRowEach' /\ EndedIsNotListed'
  BY <1>1, <1>9 DEF OneRowEach, EndedIsNotListed, RowsOf, At
<1> QED
  BY <1>1, <1>3, <1>4, <1>5, <1>6, <1>7, <1>8, <1>9, <1>10

LEMMA WeighKeepsList ==
  ASSUME ListInvariant, NEW d \in DeviceIds, Weigh(d)
  PROVE  ListInvariant'
<1> USE DEF ListInvariant
<1>1. /\ At("weigh") /\ listing = {} /\ d \in DOMAIN request.seen
      /\ UNCHANGED <<live, devices, minted, passed, recent, listing, standing, ended>>
  BY DEF Weigh, others, At
<1>2. PICK shown : shown = IF request.filter /\ ~Active(request.seen[d]) THEN request.shown
                           ELSE request.shown \cup {d}
  OBVIOUS
<1>3. /\ request' \in Request
      /\ request'.pc = "weigh" /\ request'.caller = request.caller
      /\ request'.filter = request.filter /\ request'.seen = request.seen
      /\ request'.shown = shown /\ request'.weighed = request.weighed \cup {d}
      /\ request'.grants = request.grants
  <2>1. shown \subseteq DeviceIds
    BY <1>2 DEF RequestType, Request
  <2>2. request' = [request EXCEPT !.weighed = request.weighed \cup {d}, !.shown = shown]
    BY <1>2 DEF Weigh
  <2> QED
    BY <1>1, <2>1, <2>2 DEF RequestType, Request, At
<1>4. Tables'
  BY <1>1 DEF Tables
<1>5. RequestType'
  <2>1. shown \subseteq request.weighed \cup {d}
    BY <1>2 DEF RequestType
  <2> QED
    BY <1>1, <1>3, <2>1 DEF RequestType, At
<1>6. History'
  BY <1>1 DEF History
<1>7. SeenStands'
  BY <1>1, <1>3 DEF SeenStands, Reading, At
<1>8. StandingIsShown'
  <2>1. request.shown \subseteq shown
    BY <1>2
  <2>2. ASSUME d \in standing, ~request.filter \/ devices[d].by \in standing
        PROVE  d \in shown
    <3>1. CASE ~request.filter
      BY <1>2, <3>1
    <3>2. CASE request.filter
      <4>1. request.seen[d] = devices[d] /\ InUse(devices[d])
        BY <1>1, <2>2, <3>2 DEF SeenStands, Reading, StandingIsShown
      <4>2. devices[d].by \in live
        <5>1. d \in DOMAIN devices
          BY <2>2 DEF History
        <5> QED
          BY <2>2, <3>2, <5>1, RecordFields DEF History, Tables
      <4>3. Active(request.seen[d])
        BY <4>1, <4>2 DEF Active, InUse
      <4> QED
        BY <1>2, <4>3
    <3> QED
      BY <3>1, <3>2
  <2>3. \A e \in standing \cap request.weighed :
          ~request.filter \/ devices[e].by \in standing => e \in request.shown
    BY <1>1 DEF StandingIsShown, Reading
  <2>4. \A e \in standing \cap (request.weighed \cup {d}) :
          ~request.filter \/ devices[e].by \in standing => e \in shown
    BY <2>1, <2>2, <2>3
  <2>5. \A e \in standing \cap DeviceIds :
          request.filter /\ devices[e].by \in standing => InUse(devices[e])
    BY <1>1 DEF StandingIsShown
  <2> QED
    BY <1>1, <1>3, <2>4, <2>5 DEF StandingIsShown, Reading, At, InUse
<1>9. GrantsStand'
  BY <1>3 DEF GrantsStand, At
<1>10. (~At("answered"))'
  BY <1>3 DEF At
<1>11. OneRowEach' /\ EndedIsNotListed'
  BY <1>1, <1>10 DEF OneRowEach, EndedIsNotListed, RowsOf, At
<1> QED
  BY <1>1, <1>4, <1>5, <1>6, <1>7, <1>8, <1>9, <1>10, <1>11

LEMMA ReadGrantsKeepsList ==
  ASSUME ListInvariant, ReadGrants
  PROVE  ListInvariant'
<1> USE DEF ListInvariant
<1>1. /\ At("weigh") /\ listing = {} /\ request.weighed = DOMAIN request.seen
      /\ UNCHANGED <<live, devices, minted, passed, recent, listing, standing, ended>>
  BY DEF ReadGrants, others, At
<1>2. /\ request' \in Request
      /\ request'.pc = "sessions" /\ request'.caller = request.caller
      /\ request'.filter = request.filter /\ request'.seen = request.seen
      /\ request'.shown = request.shown /\ request'.weighed = request.weighed
      /\ request'.grants = live \cap Refreshes
  BY DEF ReadGrants, RequestType, Request
<1>3. Tables'
  BY <1>1 DEF Tables
<1>4. RequestType'
  BY <1>1, <1>2 DEF RequestType, At
<1>5. History'
  BY <1>1 DEF History
<1>6. SeenStands'
  BY <1>1, <1>2 DEF SeenStands, Reading, At
<1>7. StandingIsShown'
  BY <1>1, <1>2 DEF StandingIsShown, Reading, At
<1>8. GrantsStand'
  BY <1>1, <1>2 DEF GrantsStand, History, Credentials
<1>9. (~At("answered"))'
  BY <1>2 DEF At
<1>10. OneRowEach' /\ EndedIsNotListed'
  BY <1>1, <1>9 DEF OneRowEach, EndedIsNotListed, RowsOf, At
<1> QED
  BY <1>1, <1>3, <1>4, <1>5, <1>6, <1>7, <1>8, <1>9, <1>10

LEMMA DoneKeepsList ==
  ASSUME ListInvariant, Done
  PROVE  ListInvariant'
<1> USE DEF ListInvariant
<1>1. /\ listing' = {} /\ standing' = {} /\ ended' = {} /\ request' = Waiting
      /\ UNCHANGED <<live, devices, minted, passed, recent>>
  BY DEF Done, others
<1>2. (~At("devices") /\ ~At("weigh") /\ ~At("sessions") /\ ~At("answered") /\ At("idle"))'
  BY <1>1, WaitingFields DEF At
<1>3. Tables'
  BY <1>1 DEF Tables
<1>4. RequestType'
  BY <1>1, <1>2, WaitingFields DEF RequestType
<1>5. History'
  BY <1>1 DEF History
<1>6. SeenStands' /\ StandingIsShown' /\ GrantsStand'
  BY <1>2 DEF SeenStands, StandingIsShown, GrantsStand, Reading
<1>7. OneRowEach' /\ EndedIsNotListed'
  BY <1>1, <1>2 DEF OneRowEach, EndedIsNotListed
<1> QED
  BY <1>1, <1>3, <1>4, <1>5, <1>6, <1>7

-----------------------------------------------------------------------------
(* The merged rows.                                                        *)

DeviceRow(seen, grants, sessions, caller, d) ==
  Row(d, IF seen[d].by \in Sessions THEN seen[d].by ELSE None,
      IF seen[d].by \in grants THEN seen[d].by ELSE None,
      seen[d].by \in sessions \cap {caller})

GrantRow(r) == Row(None, None, r, FALSE)

SessionRow(s, caller) == Row(None, s, None, s = caller)

Claimed(seen, shown) == {seen[d].by : d \in shown}

LEMMA RowsMerged ==
  ASSUME NEW seen, NEW shown, NEW grants, NEW sessions, NEW caller
  PROVE  /\ \A d \in shown : DeviceRow(seen, grants, sessions, caller, d)
                               \in Merge(seen, shown, grants, sessions, caller)
         /\ \A r \in grants \ Claimed(seen, shown) :
              GrantRow(r) \in Merge(seen, shown, grants, sessions, caller)
         /\ \A s \in sessions \ Claimed(seen, shown) :
              SessionRow(s, caller) \in Merge(seen, shown, grants, sessions, caller)
         /\ \A row \in Merge(seen, shown, grants, sessions, caller) :
              \/ \E d \in shown : row = DeviceRow(seen, grants, sessions, caller, d)
              \/ \E r \in grants \ Claimed(seen, shown) : row = GrantRow(r)
              \/ \E s \in sessions \ Claimed(seen, shown) : row = SessionRow(s, caller)
BY Zenon DEF Merge, DeviceRow, GrantRow, SessionRow, Claimed

(* A row of a device names the device, its session, and its grant if that  *)
(* was read; the other rows name one grant or one session.                 *)
LEMMA DeviceRowNames ==
  ASSUME NEW seen, NEW grants, NEW sessions, NEW caller, NEW d,
         NEW x \in Credentials \cup DeviceIds
  PROVE  Names(DeviceRow(seen, grants, sessions, caller, d), x) <=>
           x = d \/ (x = seen[d].by /\ x \in Sessions \cup grants)
<1> DEFINE row == DeviceRow(seen, grants, sessions, caller, d)
<1>1. /\ row.device = d
      /\ row.session = IF seen[d].by \in Sessions THEN seen[d].by ELSE None
      /\ row.refresh = IF seen[d].by \in grants THEN seen[d].by ELSE None
  BY DEF DeviceRow, Row
<1>2. x # None
  BY DistinctAssumption
<1> QED
  BY <1>1, <1>2 DEF Names

LEMMA GrantRowNames ==
  ASSUME NEW r, NEW x \in Credentials \cup DeviceIds
  PROVE  Names(GrantRow(r), x) <=> x = r
BY DistinctAssumption DEF Names, GrantRow, Row

LEMMA SessionRowNames ==
  ASSUME NEW s, NEW caller, NEW x \in Credentials \cup DeviceIds
  PROVE  Names(SessionRow(s, caller), x) <=> x = s
<1>1. /\ SessionRow(s, caller).device = None /\ SessionRow(s, caller).session = s
      /\ SessionRow(s, caller).refresh = None
  BY DEF SessionRow, Row
<1> QED
  BY <1>1, DistinctAssumption DEF Names

(* Records that point at different credentials claim different rows, so    *)
(* that nothing is named twice.                                            *)
LEMMA RowsAreApart ==
  ASSUME NEW seen \in Records, UniquePointers(seen), NEW shown \in SUBSET DOMAIN seen,
         NEW grants \in SUBSET Refreshes, NEW sessions \in SUBSET Sessions, NEW caller,
         NEW x \in Credentials \cup DeviceIds,
         NEW row1 \in Merge(seen, shown, grants, sessions, caller), Names(row1, x),
         NEW row2 \in Merge(seen, shown, grants, sessions, caller), Names(row2, x)
  PROVE  row1 = row2
<1> DEFINE Dev(d) == DeviceRow(seen, grants, sessions, caller, d)
           IsOne(row) == \/ \E d \in shown :
                              row = Dev(d) /\ (x = d \/ (x = seen[d].by /\ x \in Sessions \cup grants))
                         \/ x \in grants \ Claimed(seen, shown) /\ row = GrantRow(x)
                         \/ x \in sessions \ Claimed(seen, shown) /\ row = SessionRow(x, caller)
<1>1. ASSUME NEW row \in Merge(seen, shown, grants, sessions, caller), Names(row, x)
      PROVE  IsOne(row)
  <2>1. /\ \A d \in shown : Names(Dev(d), x) <=>
             x = d \/ (x = seen[d].by /\ x \in Sessions \cup grants)
        /\ \A r \in grants : Names(GrantRow(r), x) <=> x = r
        /\ \A s \in sessions : Names(SessionRow(s, caller), x) <=> x = s
    BY DeviceRowNames, GrantRowNames, SessionRowNames
  <2>2. \/ \E d \in shown : row = Dev(d)
        \/ \E r \in grants \ Claimed(seen, shown) : row = GrantRow(r)
        \/ \E s \in sessions \ Claimed(seen, shown) : row = SessionRow(s, caller)
    BY <1>1, RowsMerged
  <2>3. CASE \E d \in shown : row = Dev(d)
    BY <1>1, <2>1, <2>3
  <2>4. CASE \E r \in grants \ Claimed(seen, shown) : row = GrantRow(r)
    BY <1>1, <2>1, <2>4
  <2>5. CASE \E s \in sessions \ Claimed(seen, shown) : row = SessionRow(s, caller)
    BY <1>1, <2>1, <2>5
  <2> QED
    BY <2>2, <2>3, <2>4, <2>5
<1>2. IsOne(row1) /\ IsOne(row2)
  BY <1>1
<1>3. /\ shown \subseteq DeviceIds
      /\ \A d \in shown : d \notin Credentials /\ seen[d].by \in Credentials
  BY RecordFields, DistinctAssumption
<1>4. \A d, e \in shown : seen[d].by = seen[e].by => d = e
  BY DEF UniquePointers
<1>5. grants \subseteq Credentials /\ sessions \subseteq Credentials /\ grants \cap sessions = {}
  BY DistinctAssumption DEF Credentials
<1>6. \A d \in shown : seen[d].by \in Claimed(seen, shown)
  BY DEF Claimed
<1>7. CASE \E d \in shown :
             row1 = Dev(d) /\ (x = d \/ (x = seen[d].by /\ x \in Sessions \cup grants))
  <2>1. PICK d \in shown : row1 = Dev(d) /\ (x = d \/ x = seen[d].by)
    BY <1>7
  <2>2. x \notin grants \ Claimed(seen, shown) /\ x \notin sessions \ Claimed(seen, shown)
    BY <1>3, <1>5, <1>6, <2>1
  <2>3. PICK e \in shown : row2 = Dev(e) /\ (x = e \/ x = seen[e].by)
    BY <1>2, <2>2
  <2>4. d = e
    BY <1>3, <1>4, <2>1, <2>3
  <2> QED
    BY <2>1, <2>3, <2>4
<1>8. CASE x \in grants \ Claimed(seen, shown) /\ row1 = GrantRow(x)
  <2>1. \A d \in shown : x # d /\ x # seen[d].by
    BY <1>3, <1>5, <1>6, <1>8
  <2> QED
    BY <1>2, <1>5, <1>8, <2>1
<1>9. CASE x \in sessions \ Claimed(seen, shown) /\ row1 = SessionRow(x, caller)
  <2>1. \A d \in shown : x # d /\ x # seen[d].by
    BY <1>3, <1>5, <1>6, <1>9
  <2> QED
    BY <1>2, <1>5, <1>9, <2>1
<1> QED
  BY <1>2, <1>7, <1>8, <1>9

LEMMA RowsMarked ==
  ASSUME NEW seen, NEW grants, NEW sessions, NEW caller, NEW d, NEW s
  PROVE  /\ DeviceRow(seen, grants, sessions, caller, d).current <=>
              seen[d].by \in sessions /\ seen[d].by = caller
         /\ ~GrantRow(s).current
         /\ SessionRow(s, caller).current <=> s = caller
<1>1. DeviceRow(seen, grants, sessions, caller, d).current <=>
        seen[d].by \in sessions /\ seen[d].by = caller
  BY DEF DeviceRow, Row
<1>2. ~GrantRow(s).current
  BY DEF GrantRow, Row
<1>3. SessionRow(s, caller).current <=> s = caller
  BY DEF SessionRow, Row
<1> QED
  BY <1>1, <1>2, <1>3

(* Whatever was read is on a row.                                          *)
LEMMA ReadIsListed ==
  ASSUME NEW seen \in Records, NEW shown \in SUBSET DOMAIN seen, NEW grants \in SUBSET Refreshes,
         NEW sessions \in SUBSET Sessions, NEW caller,
         NEW x \in sessions \cup grants \cup shown
  PROVE  \E row \in Merge(seen, shown, grants, sessions, caller) : Names(row, x)
<1> DEFINE rows == Merge(seen, shown, grants, sessions, caller)
           Dev(d) == DeviceRow(seen, grants, sessions, caller, d)
<1> HIDE DEF rows, Dev
<1>1. /\ \A d \in shown : Dev(d) \in rows
      /\ \A r \in grants \ Claimed(seen, shown) : GrantRow(r) \in rows
      /\ \A s \in sessions \ Claimed(seen, shown) : SessionRow(s, caller) \in rows
  BY RowsMerged DEF rows, Dev
<1>2. x \in Credentials \cup DeviceIds
  BY RecordFields DEF Credentials
<1>3. /\ \A d : Names(Dev(d), x) <=> x = d \/ (x = seen[d].by /\ x \in Sessions \cup grants)
      /\ \A r : Names(GrantRow(r), x) <=> x = r
      /\ \A s : Names(SessionRow(s, caller), x) <=> x = s
  BY <1>2, DeviceRowNames, GrantRowNames, SessionRowNames DEF Dev
<1>4. x \in Claimed(seen, shown) => \E d \in shown : x = seen[d].by
  BY DEF Claimed
<1>5. \E row \in rows : Names(row, x)
  <2>1. CASE x \in shown
    BY <1>1, <1>3, <2>1
  <2>2. CASE x \in sessions \cup grants /\ x \in Claimed(seen, shown)
    BY <1>1, <1>3, <1>4, <2>2
  <2>3. CASE x \in sessions \cup grants /\ x \notin Claimed(seen, shown)
    BY <1>1, <1>3, <2>3
  <2> QED
    BY <2>1, <2>2, <2>3
<1> QED
  BY <1>5 DEF rows

(* Nothing else is but the sessions the records name.                      *)
LEMMA NothingElseIsListed ==
  ASSUME NEW seen \in Records, NEW shown \in SUBSET DOMAIN seen, NEW grants \in SUBSET Refreshes,
         NEW sessions \in SUBSET Sessions, NEW caller,
         NEW x \in Credentials \ (sessions \cup grants),
         \A d \in shown : seen[d].by \in Sessions => seen[d].by # x,
         NEW row \in Merge(seen, shown, grants, sessions, caller), Names(row, x)
  PROVE  FALSE
<1> DEFINE Dev(d) == DeviceRow(seen, grants, sessions, caller, d)
<1> HIDE DEF Dev
<1>1. \/ \E d \in shown : row = Dev(d)
      \/ \E r \in grants \ Claimed(seen, shown) : row = GrantRow(r)
      \/ \E s \in sessions \ Claimed(seen, shown) : row = SessionRow(s, caller)
  BY RowsMerged DEF Dev
<1>2. /\ \A d : Names(Dev(d), x) <=> x = d \/ (x = seen[d].by /\ x \in Sessions \cup grants)
      /\ \A r : Names(GrantRow(r), x) <=> x = r
      /\ \A s : Names(SessionRow(s, caller), x) <=> x = s
  BY DeviceRowNames, GrantRowNames, SessionRowNames DEF Dev
<1>3. \A d \in shown : x # d
  BY RecordFields, DistinctAssumption
<1>4. \A d \in shown : ~Names(Dev(d), x)
  BY <1>2, <1>3
<1> QED
  BY <1>1, <1>2, <1>4

(* A shown record and the live credential it points at have one row, and   *)
(* the row that is marked is the caller's.                                 *)
LEMMA RowOfItsCredential ==
  ASSUME NEW seen \in Records, UniquePointers(seen), NEW shown \in SUBSET DOMAIN seen,
         NEW grants \in SUBSET Refreshes, NEW sessions \in SUBSET Sessions,
         NEW d \in shown, seen[d].by \in sessions \cup grants, NEW caller,
         NEW row \in Merge(seen, shown, grants, sessions, caller)
  PROVE  Names(row, d) <=> Names(row, seen[d].by)
<1>1. d \in DeviceIds /\ seen[d].by \in Credentials
  BY RecordFields
<1>2. DeviceRow(seen, grants, sessions, caller, d) \in Merge(seen, shown, grants, sessions, caller)
  BY RowsMerged
<1>3. /\ Names(DeviceRow(seen, grants, sessions, caller, d), d)
      /\ Names(DeviceRow(seen, grants, sessions, caller, d), seen[d].by)
  BY <1>1, DeviceRowNames
<1>4. ASSUME NEW x \in {d, seen[d].by}, Names(row, x)
      PROVE  row = DeviceRow(seen, grants, sessions, caller, d)
  <2>1. x \in Credentials \cup DeviceIds
    BY <1>1
  <2> QED
    BY <1>2, <1>3, <1>4, <2>1, RowsAreApart
<1> QED
  BY <1>3, <1>4

LEMMA CallerIsMarked ==
  ASSUME NEW seen \in Records, NEW shown \in SUBSET DOMAIN seen, NEW grants \in SUBSET Refreshes,
         NEW sessions \in SUBSET Sessions, NEW caller \in Sessions
  PROVE  /\ \A row \in Merge(seen, shown, grants, sessions, caller) :
              row.current => Names(row, caller)
         /\ caller \in sessions =>
              \E row \in Merge(seen, shown, grants, sessions, caller) :
                Names(row, caller) /\ row.current
<1> DEFINE rows == Merge(seen, shown, grants, sessions, caller)
           Dev(d) == DeviceRow(seen, grants, sessions, caller, d)
<1> HIDE DEF rows, Dev
<1>1. /\ \A d \in shown : Dev(d) \in rows
      /\ \A s \in sessions \ Claimed(seen, shown) : SessionRow(s, caller) \in rows
      /\ \A row \in rows :
           \/ \E d \in shown : row = Dev(d)
           \/ \E r \in grants \ Claimed(seen, shown) : row = GrantRow(r)
           \/ \E s \in sessions \ Claimed(seen, shown) : row = SessionRow(s, caller)
  BY RowsMerged DEF rows, Dev
<1>2. /\ \A d : Names(Dev(d), caller) <=>
                  caller = d \/ (caller = seen[d].by /\ caller \in Sessions \cup grants)
      /\ \A s : Names(SessionRow(s, caller), caller) <=> caller = s
  BY DeviceRowNames, SessionRowNames DEF Dev, Credentials
<1>3. /\ \A d : Dev(d).current <=> seen[d].by \in sessions /\ seen[d].by = caller
      /\ \A r : ~GrantRow(r).current
      /\ \A s : SessionRow(s, caller).current <=> s = caller
  BY RowsMarked DEF Dev
<1>4. caller \in Claimed(seen, shown) => \E d \in shown : caller = seen[d].by
  BY DEF Claimed
<1>5. ASSUME NEW row \in rows, row.current
      PROVE  Names(row, caller)
  BY <1>1, <1>2, <1>3, <1>5
<1>6. ASSUME caller \in sessions
      PROVE  \E row \in rows : Names(row, caller) /\ row.current
  <2>1. CASE caller \in Claimed(seen, shown)
    <3>1. PICK d \in shown : caller = seen[d].by
      BY <1>4, <2>1
    <3> QED
      BY <1>1, <1>2, <1>3, <1>6, <3>1
  <2>2. CASE caller \notin Claimed(seen, shown)
    BY <1>1, <1>2, <1>3, <1>6, <2>2
  <2> QED
    BY <2>1, <2>2
<1> QED
  BY <1>5, <1>6 DEF rows

LEMMA AtMostOne ==
  ASSUME NEW S, \A a, b \in S : a = b
  PROVE  Cardinality(S) <= 1
<1>1. CASE S = {}
  BY <1>1, FS_EmptySet
<1>2. CASE S # {}
  <2>1. PICK a \in S : TRUE
    BY <1>2
  <2>2. S = {a}
    BY <2>1
  <2> QED
    BY <2>2, FS_Singleton
<1> QED
  BY <1>1, <1>2

LEMMA ReadSessionsKeepsList ==
  ASSUME ListInvariant, ReadSessions
  PROVE  ListInvariant'
<1> USE DEF ListInvariant
<1> DEFINE seen == request.seen
           shown == request.shown
           grants == request.grants
           sessions == live \cap Sessions
           caller == request.caller
           rows == Merge(seen, shown, grants, sessions, caller)
<1>1. /\ At("sessions") /\ listing' = rows
      /\ UNCHANGED <<live, devices, minted, passed, recent, standing, ended>>
  BY DEF ReadSessions, others
<1>2. /\ request' \in Request /\ request'.pc = "answered" /\ request'.caller = caller
      /\ request'.filter = request.filter /\ request'.seen = Waiting.seen
      /\ request'.shown = {} /\ request'.weighed = {} /\ request'.grants = {}
  <2>1. request' = [[[Waiting EXCEPT !.pc = "answered"] EXCEPT !.caller = caller]
                     EXCEPT !.filter = request.filter]
    BY DEF ReadSessions, Waiting
  <2>2. caller \in Sessions \cup {None} /\ request.filter \in BOOLEAN
    BY DEF RequestType, Request
  <2>3. request' \in Request
    BY <2>1, <2>2, WaitingFields DEF Request
  <2> QED
    BY <2>1, <2>3, WaitingFields DEF ReadSessions, Waiting
<1>3. /\ seen \in Records /\ UniquePointers(seen) /\ shown \in SUBSET DOMAIN seen
      /\ grants \in SUBSET Refreshes /\ sessions \in SUBSET Sessions /\ caller \in Sessions
  BY <1>1 DEF RequestType, Request, SeenStands, Reading, At
<1>4. \A d \in standing \cap DeviceIds :
        /\ d \in DOMAIN seen /\ seen[d] = devices[d] /\ d \in DOMAIN devices
        /\ ~request.filter \/ devices[d].by \in standing => d \in shown
  BY <1>1 DEF SeenStands, StandingIsShown, GrantsStand, Reading, History
<1>5. standing \cap Credentials \subseteq sessions \cup grants
  BY <1>1 DEF GrantsStand, History, Credentials
<1> HIDE DEF seen, shown, grants, sessions, caller
<1> DEFINE Naming(x) == {row \in rows : Names(row, x)}
<1> HIDE DEF rows
<1>7. ASSUME NEW x \in Credentials \cup DeviceIds
      PROVE  Cardinality(Naming(x)) <= 1
  <2>1. \A a, b \in Naming(x) : a = b
    BY <1>3, RowsAreApart DEF rows
  <2> QED
    BY <2>1, AtMostOne
<1>8. ASSUME NEW x \in Credentials \cup DeviceIds, x \in sessions \cup grants \cup shown
      PROVE  Naming(x) # {}
  <2>1. \E row \in rows : Names(row, x)
    BY <1>3, <1>8, ReadIsListed DEF rows
  <2> QED
    BY <2>1
<1>9. ASSUME NEW x \in standing, x \in Credentials \/ ~request.filter
      PROVE  Naming(x) # {}
  <2>1. x \in Credentials => x \in sessions \cup grants
    BY <1>5
  <2>2. x \notin Credentials => x \in DeviceIds
    BY <1>9 DEF History
  <2>3. x \notin Credentials => x \in shown
    BY <1>4, <1>9, <2>2
  <2> QED
    BY <1>8, <2>1, <2>2, <2>3
<1>10. ASSUME NEW d \in standing \cap DeviceIds, devices[d].by \in standing
       PROVE  Naming(d) = Naming(devices[d].by)
  <2>1. d \in shown /\ seen[d].by = devices[d].by
    BY <1>4, <1>10
  <2>2. seen[d].by \in sessions \cup grants
    BY <1>4, <1>5, <1>10, RecordFields DEF Tables
  <2>3. \A row \in rows : Names(row, d) <=> Names(row, seen[d].by)
    BY <1>3, <2>1, <2>2, RowOfItsCredential DEF rows
  <2>4. Naming(d) = Naming(seen[d].by)
    BY <2>3
  <2> QED
    BY <2>1, <2>4
<1>11. /\ {row \in rows : row.current} \subseteq Naming(caller)
       /\ caller \in standing => \E row \in Naming(caller) : row.current
  <2>1. /\ \A row \in rows : row.current => Names(row, caller)
        /\ caller \in sessions => \E row \in rows : Names(row, caller) /\ row.current
    BY <1>3, CallerIsMarked DEF rows
  <2>2. caller \in standing => caller \in sessions
    BY <1>1, <1>3 DEF History, Credentials, sessions
  <2> QED
    BY <2>1, <2>2
<1>12. OneRowEach'
  <2>1. /\ request'.caller = caller /\ request'.filter = request.filter
        /\ standing' = standing /\ devices' = devices /\ listing' = rows
    BY <1>1, <1>2
  <2>2. \A x : {row \in listing' : Names(row, x)} = Naming(x)
    BY <2>1
  <2> HIDE DEF Naming
  <2>3. /\ \A x \in Credentials \cup DeviceIds :
              Cardinality({row \in listing' : Names(row, x)}) <= 1
        /\ \A x \in standing' : x \in Credentials \/ ~request'.filter =>
              {row \in listing' : Names(row, x)} # {}
        /\ \A d \in standing' \cap DeviceIds : devices'[d].by \in standing' =>
              {row \in listing' : Names(row, d)} = {row \in listing' : Names(row, devices'[d].by)}
    BY <1>7, <1>9, <1>10, <2>1, <2>2
  <2>4. /\ {row \in listing' : row.current} \subseteq
             {row \in listing' : Names(row, request'.caller)}
        /\ request'.caller \in standing' =>
             \E row \in {row \in listing' : Names(row, request'.caller)} : row.current
    BY <1>11, <2>1, <2>2
  <2> QED
    BY <2>3, <2>4 DEF OneRowEach, RowsOf
<1>13. EndedIsNotListed'
  <2>1. ASSUME NEW x \in ended
        PROVE  Naming(x) = {}
    <3>1. x \in Credentials /\ x \notin sessions \cup grants
      BY <1>1 DEF History, GrantsStand, sessions, grants
    <3>2. \A d \in shown : seen[d].by \in Sessions => seen[d].by # x
      BY <1>1, <1>3 DEF SeenStands, Reading, seen
    <3>3. \A row \in rows : ~Names(row, x)
      BY <1>3, <3>1, <3>2, NothingElseIsListed DEF rows
    <3> QED
      BY <3>3
  <2> QED
    BY <1>1, <2>1 DEF EndedIsNotListed, RowsOf
<1>14. Tables'
  BY <1>1 DEF Tables
<1>15. RequestType'
  BY <1>2, <1>3, WaitingFields DEF RequestType, At
<1>16. History'
  BY <1>1 DEF History
<1>17. (~At("devices") /\ ~At("weigh") /\ ~At("sessions") /\ At("answered"))'
  BY <1>2 DEF At
<1>18. SeenStands' /\ StandingIsShown' /\ GrantsStand'
  BY <1>17 DEF SeenStands, StandingIsShown, GrantsStand, Reading
<1> QED
  BY <1>12, <1>13, <1>14, <1>15, <1>16, <1>17, <1>18

LEMMA NextKeepsList ==
  ASSUME ListInvariant, [Next]_vars
  PROVE  ListInvariant'
<1>1. CASE UNCHANGED vars
  BY <1>1 DEF vars, ListInvariant, Tables, RequestType, History, SeenStands, StandingIsShown,
     GrantsStand, OneRowEach, EndedIsNotListed, Reading, At, InUse, RowsOf
<1> QED
  BY <1>1, BrowsersKeepList, AskKeepsList, ReadDevicesKeepsList, WeighKeepsList,
     ReadGrantsKeepsList, ReadSessionsKeepsList, DoneKeepsList DEF Next, List

-----------------------------------------------------------------------------
(* Whatever the browsers do between the reads, the list's view of the      *)
(* tables (auth/attached_clients.py, _devices, authorized_clients and      *)
(* _sessions) is as ListInvariant says.                                    *)
THEOREM ListInvariantHolds == Spec => []ListInvariant
<1>1. Init => ListInvariant
  <2> SUFFICES ASSUME Init PROVE ListInvariant
    OBVIOUS
  <2>1. /\ devices = [d \in {} |-> None] /\ DOMAIN devices = {}
        /\ live = {} /\ minted = {} /\ passed = FALSE /\ recent = {}
        /\ request = Waiting /\ listing = {} /\ standing = {} /\ ended = {}
    BY DEF Init
  <2>2. devices \in Records
    BY <2>1, RecordsMade
  <2>3. Tables
    BY <2>1, <2>2 DEF Tables, UniquePointers
  <2>4. At("idle") /\ ~At("devices") /\ ~At("weigh") /\ ~At("sessions") /\ ~At("answered")
    BY <2>1, WaitingFields DEF At
  <2>5. RequestType
    BY <2>1, <2>4, WaitingFields DEF RequestType
  <2>6. History /\ SeenStands /\ StandingIsShown /\ GrantsStand
    BY <2>1, <2>4 DEF History, SeenStands, StandingIsShown, GrantsStand, Reading
  <2>7. OneRowEach /\ EndedIsNotListed
    BY <2>1, <2>4 DEF OneRowEach, EndedIsNotListed
  <2> QED
    BY <2>1, <2>3, <2>5, <2>6, <2>7 DEF ListInvariant
<1> QED
  BY <1>1, NextKeepsList, PTL DEF Spec

(* A browser is on one row of the merged list: nothing is listed twice,    *)
(* what stood throughout is listed, a device in use on the row of its      *)
(* credential, and the caller finds itself on the one row that is marked   *)
(* (attached_clients.py, merge).                                           *)
THEOREM BrowsersHaveOneRow == Spec => []OneRowEach
<1>1. ListInvariant => OneRowEach
  BY DEF ListInvariant
<1> QED
  BY <1>1, ListInvariantHolds, PTL

(* Nothing that had ended before the list was asked for is on it           *)
(* (attached_clients.py, merge: a grant is reported only if it was read,   *)
(* and a session's record goes with the session).                          *)
THEOREM WhatHasEndedIsNotListed == Spec => []EndedIsNotListed
<1>1. ListInvariant => EndedIsNotListed
  BY DEF ListInvariant
<1> QED
  BY <1>1, ListInvariantHolds, PTL

=============================================================================
