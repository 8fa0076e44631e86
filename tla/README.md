# fxa-lite in TLA+

fxa-lite serves Firefox Sync for a household from one Python process and one
SQLite file: the accounts server, the OAuth server, the tokenserver, the Sync
1.5 storage server and a profile server, each an APIRouter of one FastAPI
application. This directory holds TLA+ modules of the parts that keep state,
the TLC configurations that model-check them, and TLAPS proofs about all of
them. Paths below are relative to `src/src/fxa_lite/`.

    tlc -workers 2 -config SyncStore.cfg MCSyncStore
    tlapm SyncClientsProofs.tla

`PROJECT.json` lists the components, the runs, for each property a mutation of
the code that breaks it, the lines each definition stands for, the hazards, the
findings and the theorems.

## How the program runs

What decides the atomicity of every module is how a route is scheduled and what
it does to the database.

- `db.py` gives every thread a connection of its own to one WAL file, in
  autocommit. A statement outside `Database.transaction` commits by itself;
  `transaction` is `BEGIN IMMEDIATE ... COMMIT`, and rolls back on any
  exception.
- `def` routes (accounts, OAuth, tokenserver, profile) run in a pool of threads.
  All but one of their database operations are single statements, so two
  requests interleave statement by statement. The exception is `delete_device`.
- Storage routes are `async def` and do their work in `_run`
  (`syncstorage/__init__.py`), which never awaits and holds one transaction from
  the precondition to the end of the handler. They are atomic.
- The command line is another process on the same file: `account remove`
  happens between any two statements of any request.
- The throttle is a dict behind a lock, in memory. Everything else is in SQLite,
  and a crash loses only the locals of the requests under way.

## Inventory

| Component | State | Operations | Modules |
|---|---|---|---|
| Sync storage: store, HTTP tier (`syncstorage/`) | records, collection stamps, open batches | put, post, delete one, several or a collection, wipe; open, append to, commit a batch; conditional, incremental and paged reads | `SyncStore`, `SyncReader`, `SyncUploads`, `SyncPages` |
| Sync storage: credentials and Hawk | none; a shared secret | check a signed request | `AccessChain` |
| Tokenserver, token library (`tokenserver/`) | `sync_users`: key history and Sync uid of each account | one GET that reads, reconciles, validates and applies; mints a credential | `TokenServer`, `KeyVersions`, `AccessChain` |
| Accounts, sessions, key fetch (`accounts.py`, `auth/`) | `accounts`, `session_tokens`, `key_fetch_tokens` | sign up, in and out, re-authenticate, duplicate, fetch keys, remove | `Credentials` |
| Devices (`auth/devices.py`) | `devices`, each row with a pointer to a session or refresh token | register, list, disconnect | `Credentials`, `AttachedClients` |
| Attached clients (`auth/attached_clients.py`) | none of its own | merges three reads | `AttachedClients` |
| OAuth tokens (`oauth/routes.py`, `oauth/grant.py`) | `oauth_codes`, `refresh_tokens` | authorize, redeem, grant, refresh, revoke | `Credentials`, `Grants`, `AccessChain` |
| OAuth scopes and clients (`oauth/scopes.py`, `oauth/clients.py`) | the registry, from the configuration | parse, add, imply, filter, subtract | `Scopes`, `ScopeSets`, `ScopeClosure`, `Grants` |
| OAuth signing keys (`oauth/keys.py`) | an active key and a retired one, from files | sign, verify, derive the shared secret | `AccessChain` |
| Failed-login throttle (`throttle.py`) | failures per email, in the order of the dict | check, record failure, record success | `Throttle` |
| Database (`db.py`) | the schema, its version | transactions, foreign keys, migrations | in the modules above; not the migrations |
| Command line (`cli.py`) | none | `account remove`, others | in the modules above |
| Middleware, profile, cryptography, pages, tracing | none that outlives a request | | not modelled, see below |

How they meet: a browser signs up or in (`Credentials`, with the password check
of `Throttle`), fetches its keys, authorizes itself for some scopes (`Grants`)
and redeems the code for a refresh token and an access token, which is a signed
JWT with no row. It shows that token, with the version of its keys in X-KeyID, to
the tokenserver, which answers a uid and a signed storage credential
(`TokenServer`); no row is looked up when the storage server later checks it,
except that the uid must still exist. That chain of tokens, through restarts and
revocations, is `AccessChain`. The browser then reads and writes its storage
(`SyncStore`), incrementally (`SyncReader`), in batches (`SyncUploads`) and page
by page (`SyncPages`). What is signed in to the account it sees in one list
(`AttachedClients`).

### What makes each component correct

- Storage: a device that polls with `newer=` misses nothing; a conditional write
  never overwrites what its client has not seen; a batch lands whole, once, and
  is never confused with another; a paged read misses nothing that stands still.
  All of this rests on stamps of a hundredth's resolution that must move strictly
  forward.
- Tokenserver: the accepted key version never moves back, a key once given up
  stays out, a client is not locked out by a claim it made good already, each key
  has its own uid and no uid is ever handed on, and the storage tier finds one
  live row.
- Credentials: what is removed or revoked takes everything that hangs on it and
  is not honoured later; what is for one use is gone before it is used, and used
  by no more requests than could read it before.
- Scopes and grants: a scope set means what was added to it, in any order; no
  token does more than some registration of its client allowed.
- Tokens without rows: a revocation reaches storage within the two lifetimes,
  and a credential opens one account's storage for good.
- Attached clients: one row for each browser, nothing missing that stood
  throughout, nothing listed that had ended.
- Throttle: guessing is bounded, the table is bounded, and lock-outs end.

### What is hard to test

Timestamps that collide within a hundredth, or a clock that is set back;
replies to commits that are lost and sent again; two first requests of one
account; a crash between the two statements of a key rotation; an account
removed between any two statements; two requests with one code; password checks
that overlap because scrypt takes a tenth of a second; a page boundary in the
middle of a hundredth; a client that is edited, or a key that is rotated, between
a grant and its use; a browser that moves while the list it is on is read.
`PROJECT.json` "hazards"
has each of them at its line, with the properties that would catch it, or why
none does yet.

## The modules

### SyncStore: the storage of one user

`rows` is `sync_bso`, `collMod` is `sync_user_collections.modified` with the
tombstone (collection id 0) as one more key, `batches` is `sync_batches` joined
with `sync_batch_items`, `now` the quantized clock. One action per write route,
each the whole of `_run`: `Proceeds` is `_precondition`, `CanAdvance` is
`check_write`, `Admits` both. A request that is refused (304, 400, 404, 412,
503) rolls back, and is a stutter. `DeleteStorage` has no write guard, as in the
code. `PutRow` and `CommitRow` are the two upserts with their different
treatment of a field that was not sent. `Posts` are lists with distinct ids,
which `parse_bso_bodies` guarantees.

The clock counts in units of which `Quantum` make a hundredth; batch ids may lie
between two hundredths, as they do in milliseconds. The clock may be set back
where a configuration says so (`ClockStepsBack`): `time.time()` is read by each
request, and nothing forbids it.

### SyncReader: a device on incremental sync

Adds the device's view to SyncStore: `seen`, the X-Last-Modified of its last
read or upload, and `mirror`, its copy. `ReadNewer` is GET with `newer=seen`,
`Upload` a POST under X-If-Unmodified-Since. Two history variables carve out
what the protocol does not promise: `current` is FALSE once a wipe, or a clock
set back below the stamp of a collection that is not there, has started stamps
over; `revived` names records that came back from expiry without a new
`modified` (see Findings).

### SyncUploads: devices with batched uploads

Each device opens a batch, appends and commits, and may lose any reply. Its
`ledger` is what it was told is staged. After a lost reply to a commit it sends
the commit again. `fate` separates uploads from before a wipe. The clock only
advances here: after one that is set back, ids come again. The client side
(what PostQueue does with a 202) is external; the server's steps are SyncStore's.

### SyncPages: reading a collection page by page

A client that follows X-Weave-Next-Offset, beside clients that write. The server
keeps nothing between two pages, so the whole state of the read is the `offset`
in the client's hand: `bound`, the stamp of the page's last record, and `skip`,
how many records of that stamp were served. The query of `get_bsos` is `Selected`
(the WHERE clause; `older`, `ids` and a limit of 0 are left out, as
they only narrow a result), `Before` (the ORDER BY, a strict total order with NULL
sortindexes last) and `Items` (LIMIT and OFFSET): a row is on the page if its
`Place`, the number of rows of the result before it, is within the page's bounds.
`NextOffset` is `encode_next_offset` with the carry over of the count while the
bound stands; it looks at the last row of a full page (`LastItem`) and at the rows
of the page that share its stamp (`Tied`). Ids and sortindexes are numbers, for
their order. With
`sort` left out, whole records come as with `newest`; ids come in the order in
which SQLite scans the index on `modified`.
A guarded client sends X-If-Unmodified-Since with the stamp of its first page and
starts over after a 412 (`GiveUp`).

The history variables carve out what paging cannot promise: `stirred`, that the
records at the bound changed after the offset was taken (an unguarded client may
then miss or repeat one), and `lapsed`, that a record expired meanwhile, which
moves no stamp.

### TokenServer and KeyVersions

TokenServer is one request of `token` in its statements: `Arrive`, `Read`
(`sync_users` in its order), `Lookup` and `Create` at first sight, `Reconcile`
(one `replace_sync_user` per row left live), `Validate`, `Update`, `Rotate` and
`Retire`. `Valid` is `_validate` rule by rule; `Gt` and `Le` are `opt_cmp!`:
false when a side is missing. A `Crash` forgets the locals of all requests.
`answered` is history: every credential ever handed out. So is `raced`: the
accounts of which one request wrote rows while another was under way. The
statements are not guarded by what was read before, so of such an account less
is true (see Findings), and what is promised of the others has to hold however
many threads serve other accounts, and requests of the same one that only read.
An account stays in `raced` for good: the next request retires a row that a race
left live, but nothing raises a generation that one lowered.

KeyVersions is the abstract specification: per account an accepted version that
only moves forward and a set of keys given up for good. TokenServer maps its
current row to it (`Versions`) and, of an account that raced, nothing (which to
KeyVersions is a removal); run `tokenserver` checks `Versions!Spec` with two
workers and crashes at any statement. When two requests of one account race, the
stored generation may fall (see Findings); run `tokenserver_races` checks what
holds even then. KeyVersions asks a little less than the comment it stands for, "a
new client state must arrive with a rise in both timestamps": a timestamp that
was not reported passes, as it does in `_validate`.

### Credentials: accounts and what opens them

`tokens` is the four token tables in one (token to account uid), `devices` the
device rows with their pointer `by`. A request is one action per statement and
its locals are in `worker`. `Insert`, `Delete`, `DeleteAccount` and `Upsert`
carry the schema: foreign keys that refuse, cascades, and the unique indexes of
schema v4. Three abstractions:

- a request begins with the lookup of its credential and, in the same step, of
  the account (the code reads one after the other); account uids are random and
  never come back, so reading both at once only leaves out some refusals;
- a token may be presented from the moment its row is written, before its own
  reply has arrived, which gives more behaviours than the code and none less;
- locals a request no longer needs are forgotten (`Needs`), which merges states
  that cannot be told apart.

`given` counts how often a code or a key-fetch token was honoured (once is what
the code says, and no more often than there are threads is what it keeps), `revoked`
holds what was answered as revoked, `late` that a request arrived after its
credential was revoked.

### Scopes, ScopeSets, ScopeClosure: what a scope allows

`Scopes` is `implicants` on short scopes (`profile:email:write`) and on URL
scopes (a prefix of the path, with or without the fragment): pure operators.
`ScopeSets` is the class ScopeSet: two dicts that index each other, `held` and
`impliedBy`, changed by `AddScope` (`_add_scope` with its `_remove_scope`s) one
scope at a time. It knows scopes only through the constant `Implicants`, of which
it assumes a partial order; `MCGrants` gives it the one `Scopes` computes for
ten named scopes, and TLC checks the assumption. `ScopeClosure` is the abstract
specification: the set of everything the scopes imply, to which an addition adds
and from which nothing is taken.

### Grants: who gets which scopes

Each route of `oauth/routes.py` that turns a request into a code, a refresh token
or an access token, one action each: the request's scopes are parsed into a
ScopeSet scope by scope (`ParseScope`) and the route then judges it.
`Grantable` and `Granted` are `validate_requested_grant`, `Renewable` and
`Renew` the two ways a refresh token is spent, `Audience` what makes an access
token one for the tokenserver, `VerifierFits` the two PKCE checks. Rows carry
scopes as text and outlive the configuration they were granted under: `Restart`
replaces or removes a client's entry. `ever` is history: all that the
registrations of a client, taken each as a whole, ever covered. A request is one
step once its scopes are parsed, since how the statements of two requests meet
is `Credentials`; a restart loses the request under way. A scope parameter of
blanks alone, on a refresh, reads as no scopes asked for; the code grants none
then, which is less than the model does.

### AttachedClients: the list of what is signed in

The list request in its statements: `Ask` finds and touches the caller's
session, `ReadDevices`, `Weigh` for the last use of each device, `ReadGrants`,
`ReadSessions` with the `Merge`. Between any two of them browsers sign in and
out, register, move a record, are disconnected or used; each of those is one step
here (`Credentials` has its statements). Of all timestamps only what the idle
filter can tell apart is kept: used or created after the cutoff, or not
(`recent`, `new`, `passed`). `standing` and `ended` are history: what has stood
unchanged since the request came, and what had ended before it.

### AccessChain: tokens that no row records

From a refresh token to a stored record. `Renew` signs an access token,
`Exchange` is the tokenserver's answer (its statements and key versions are
`TokenServer`'s), `Authenticate` the storage server's checks in their order, and
`Transact` the transaction that follows, between which the account may be removed
by the command line. A `Restart` may come with another configuration: a signing
key, a retired one that is still accepted, a shared secret or the one derived
from the key, a public URL. Signatures and MACs are ideal: a token carries the
key and the secret it was made with, and is accepted by who knows them.
An access token lives the full `AccessTtl`, though a client may ask for less:
the bound on revocation is the harder to meet.
`Duration` is the `?duration=` a client may ask for. One path,
`info/collections`, is answered on an expired credential. `owner` and `ended`
are what a refresh token's row says, and history once it is gone.

### Throttle: failed password checks

The steps of `authenticate`: `Check` (under the lock), `Stretch` (scrypt),
`RecordFailure` or `RecordSuccess`. Each method reads the clock before it takes
the lock, so the instant may be up to `MaxLag` ticks old when it is used.
Instants are kept as ages, which makes the state space finite while time goes on
forever: that is what a liveness property needs. `order` is the order of the
dict, as the pairs of keys of which one is before the other; `_evict` drops the
key that is before all others. `guesses` is history: the wrong passwords that
were stretched inside the window since a key's tally was last forgiven, as a set
in which guesses of one age are told apart by a number.

## The runs

| Run | Instance | What it shows |
|---|---|---|
| `store` | 2 collections, 1 record, 3 hundredths, clock set back, headers, 1 open batch | stamps cover records; no change is silent; the polled storage stamp falls only with a wipe, or a clock set back below it |
| `reader` | 1 collection, 1 record, 2 payloads, 3 hundredths, clock set back | `newer=` is complete, an unmoved collection is one the device has in full |
| `uploads` | 2 devices, 1 collection, 1 record, 2 hundredths, 2 open batches | batches are never shared, hold what was acknowledged, land at one instant and once |
| `tokenserver` | 2 workers, 1 account, 5 claims of several sorts, 3 uids | for an account that did not race: KeyVersions; one live row after each answer, whatever a crash left; old keys refused; a request sent again accepted |
| `tokenserver_races` | 2 workers, 2 accounts, 3 claims | a retired key stays out of later requests; no uid is handed to another key or account |
| `credentials` | 2 workers, 1 account, 2 sessions, 2 device ids, 1 of each other token | no orphans, one record per device, spent before given, given to no more requests than threads, revoked stays out |
| `pages` | 1 collection, 3 records, 3 hundredths, pages of 1 and 2, every order, with and without the guard, with `newer` | a record that stands still comes on exactly one page; a guarded read is complete in every order; a client always gets further |
| `grants` | 1 client with 3 possible registrations, 6 requestable of 10 scopes, 3 scopes held, 1 code, 1 refresh token | scope sets are exact and implement their closure; nothing beyond a registration; sync needs one |
| `attached_clients` | 2 sessions, 1 refresh token, 2 device ids, up to symmetry | one row for each browser; nothing that had ended is listed |
| `access_chain` | 2 accounts, 2 browsers, 3 configurations, lifetimes 2 and 1, 2 uids, 3 seconds, up to symmetry | revocation reaches storage in bounded time; one account's storage for good |
| `throttle` | 2 workers, 3 accounts, table of 2, limit 1, window 2, lag 1 | guessing bounded, eviction fair, lock-outs end |
| `reader_revival` | as `reader` | the finding below |

Why the bounds are enough to be interesting:

- Storage stamps are only ever compared, so three hundredths give before, at and
  after; ttls of one and two hundredths let records expire and come back.
  Records of a collection do not interact except through its stamp, so one
  record meets all the cases of the upserts; two collections are needed only
  where the storage stamp is (`store`). `BatchRetries` is 2 where the code tries
  5 times: two batches of one hundredth are what makes ids walk forward. The
  proofs below hold for all values.
- TokenServer needs three uids (first key, second, and one after a removal or a
  race) and two workers. The claims of `tokenserver` are a password change of a
  client that does not report when its keys changed, a new key without a
  generation, a newer one, and an old key with new times: each rule of `_validate`
  with a side missing, equal, lower or higher. The proofs hold for all claims.
  `MaxUids` and `MaxClock` stop a behaviour, they do not change it.
- Credentials: two workers are what any check-then-act race needs; two sessions
  and two device ids let a session be copied and a device move from one session
  to the other. With one uid an account that was removed is not signed up for
  again: what a removal must leave behind is nothing at all. Uids are random, so
  a second account under the same email shares no row with the first.
- Throttle: two workers exceed a limit of one; three accounts overflow a table
  of two; a lag of one is enough for a clock reading to be overtaken.
- Pages: three records are what it takes for a bound that stands over two pages
  (three records of one hundredth in pages of one), for a bound that moves, and
  for a record written between two others; two sortindexes give ties and an
  order against that of the stamps; a ttl of a hundredth lets a record expire
  between two pages. Collections do not interact in a read, so there is one.
- Grants: three scopes in a set are enough for one that implies two others to
  come first, in between or last. The three registrations are a browser, a
  trusted client that may have only a part of oldsync, and one that is not
  trusted; one client meets all of them in turn, and clients share nothing. A
  code and a token at a time suffice, as no route looks at two. The proofs below
  hold for any number.
- Attached clients: a session and a refresh token are each other's alternative
  in a record, a second session is the caller's neighbour, and two records are
  what it takes for one to be read and the other to take over its credential.
  Credentials are random and never reused, so a finite set of them runs out: the
  run does not check for deadlock.
- Access chain: revocation at the first second and a credential that lives to
  the third is the bound `AccessTtl + TokenTtl` met exactly, and a second more
  would break it; two uids let an account's uid go and another account come. The
  clock and the accounts run out, so the run does not check for deadlock. The
  proofs hold for all lifetimes and configurations.

Deadlock is checked in every other run. The clock of SyncStore stops at its
bound, but reads, wipes and refused requests never do.

Fairness is assumed in one module only, Throttle: time passes (`WF(Tick)`), and
a thread that has read the clock gets the lock (`WF` of its locked section; a
Python lock held for a few dictionary operations by a finite pool). Nothing is
assumed of clients: they may guess on forever, and `LockoutEnds` still holds
because a refused attempt is not recorded. The other modules have no liveness
properties: nothing in that code waits for anything or promises to happen by
itself.

Each property has a mutant in `PROJECT.json`: a definition of the model changed
the way a bug in the code would change it (a guard dropped, `PRAGMA
foreign_keys` left off, ids that do not walk forward, a rowid without
AUTOINCREMENT), under which TLC finds that very property violated. The mutated
forms stand beside the definitions, commented "Mutant".

## The proofs

Eight modules of proofs, checked by TLAPS, each named after the module it is
about; `SyncClientsProofs` is about the three that put a client beside the store,
SyncReader, SyncUploads and SyncPages. Every theorem holds for all values of the
constants that satisfy the ASSUMEs of the module, which TLC evaluates in the
runs; where a theorem needs more, it says so as a hypothesis (`OrderedClaims`,
or that there are finitely many threads). The inductive invariants were checked by TLC on the instances
of the runs before they were proved.

| Module of proofs | Inductive invariant | What follows |
|---|---|---|
| `SyncStoreProofs` | `TypeOK`, `StampCoversRecords`, `OneBatchPerId` | types; no record above its stamp; no silent change; the storage stamp rises |
| `SyncClientsProofs`, readers | these, `StampIsPast`, `MirrorComplete` | incremental reads are complete; what is unmoved is current |
| `SyncClientsProofs`, uploads | `UploadsInvariant` | batches are apart, hold the ledger, land once and whole; refinement of SyncStore |
| `SyncClientsProofs`, pages | `PagesInvariant` | pages tile what stands still, in time order or under the guard; offsets never go back |
| `CredentialsProofs` | `CredentialsInvariant`, `HonoursCounted` | no orphans; one device to a credential; spent before given; given within the pool; revoked stays out |
| `TokenServerProofs` | `ClaimsInvariant`, `ServedInvariant`, `OrderedInvariant` | no uid handed on; one live row; retired keys stay out; repeats are accepted; refinement of KeyVersions |
| `GrantsProofs` | `SetIsExact`, `GrantInvariant` | scope sets; refinement of ScopeClosure; nothing beyond a registration |
| `AccessChainProofs` | `Bounded`, `OwnUids` | revocation is bounded; storage is one's own |
| `AttachedClientsProofs` | `ListInvariant` | one row for each browser; what had ended is not listed |
| `ThrottleProofs` | `ThrottleInvariant` | the table is bounded; guessing is bounded; eviction takes the oldest |

### Storage

What is proved of the store and of incremental readers holds for all collections,
ids, bodies, headers, ttls and clock bounds, with or without a clock that is set
back, from the ASSUMEs of SyncStore (the tombstone is no collection, bodies have
the right fields, numbers are numbers) and no others.

- `StoreTypes`: `Spec => []TypeOK`, one step per route, on lemmas about the
  upserts (`RowsStored`, `RecordsStored`) and about staging (`PostsMerge`).
- `StampCovers`: no record is newer than its collection's stamp. TypeOK and
  StampCoversRecords together are inductive: a write that reaches a record
  stamps the collection with the same instant, and the guard makes that instant
  the larger one, even when the clock has been set back (`RecordsArePast`).
- `NoSilentChange`: the action property `ChangesMoveTheStamp`, by the same step
  lemma (`StepCoversRecords`): every changed record went through `CanAdvance` and
  `Stamp`, or its collection went.
- OneBatchPerId, the primary key of `sync_batches`, is a fact the uploads' proofs
  rest on (`StepKeepsIds`): a batch gets an id that is free, and every other route
  keeps or drops the batches there are.
- `StorageStampRises`: the action property StorageStampNeverFalls. That the
  stamp, the maximum of a set, is one of its elements is `GreatestStamp`, by
  descending on the distance to the clock's bound (WFMin). A write stamps its
  collection with the present instant, and what it
  takes away is buried under a tombstone stamped with the same (`StampsMove`); so
  the maximum falls only when the present is below it, or with a wipe.
- `ReaderInvariant`: the invariant that makes incremental sync work,
  `ReaderTypeOK /\ StampCoversRecords /\ StampIsPast /\ MirrorComplete`.
  MirrorComplete alone is not inductive: a write is harmless to a device only if
  it lands above the device's stamp, which is StampIsPast, and that survives a
  deleted collection only because the device's stamp is then below the clock.
  `StoreTraces` says what any step of the store can do to one record (remove it,
  stamp it past the guard, or leave what clients see), `StampTraces` the same of
  a stamp; the step lemma needs nothing else about the routes.
- `DeviceStampIsPast`, `IncrementalSyncIsComplete` and `UnmovedIsCurrent` are
  its consequences. The last needs StampCoversRecords: an unmoved stamp means
  that no record lies above it.

The uploads' theorems hold for any number of devices, collections, hundredths and
retries; that the header `NoHeader` is among those a client may send is the one
assumption added (`HeaderlessAssumption`).

- `UploadsInvariantHolds`: while a device's upload is open, its batch is there
  with everything the ledger says (BatchHoldsLedger), or it is gone and the
  collection has been stamped since. That second half, `GoneIsStamped`, is what
  the proof turns on. An id whose batch is gone is free again, and within its
  hundredth the next batch to open would get it; but whatever took the batch
  stamped its collection, and a write of that collection, opening a batch
  included, is refused until the clock has moved on; and from then on
  ids are different ones, since RetriesAssumption keeps the ids of a
  hundredth below those of the next (`Past`). `UploadsApart` is the whole:
  `Past`, GoneIsStamped, a landed batch is closed, a batch is its owner's alone,
  BatchHoldsLedger and CommitLandsOnce.
- `UploadsAreApart` and `LedgersAreStaged` are its consequences;
  `CommitsLandOnce` says that a commit sent again after a lost reply finds no
  batch, and `CommitsLandTheLedger` is the action property: a commit that lands,
  lands what was acknowledged.
- `UploadsImplementStore`: with the devices forgotten, this is SyncStore.

The pages' theorems hold for every collection, any queries, page sizes, records,
stamps and sortindexes, as long as there are finitely many ids and they are
ordered (`IdsAssumption`: an id has at most 64 characters, and the database
compares them).

- About one result: the order of every query is strict and total (`BeforeOrders`),
  so the places of its rows are the numbers from 0 on, each once (`PlacesRise`,
  `PlacesFill`); a page that is not the last is full, and what is ahead after a
  page is what was ahead before it, less the page (`FullPage`, `AfterPage`).
- About two: with the next offset the WHERE clause cuts away the rows that lie
  before its bound in time's order. They come before all others, so the places of the others fall by
  their number (`FirstRows`), and the count of an offset is how many rows at its
  bound came, on this page and, when the bound has not moved, on those before
  (`NextInTime`). It is here that the carry over in `encode_next_offset` is needed.
- `PagesInvariantHolds`: a record that stood still since the first page came once
  if it is not ahead of the offset in hand, and not yet if it is (`Resumes`). It
  is kept by the writes of others for one of two reasons. In time order the places
  of the rows at the bound depend on those rows alone (`BoundCounted`), and
  whatever is not at the bound is ahead of it and stays so. Under the guard, a
  write either moves the collection's stamp past the one in the client's hand,
  after which no page is answered, or removes all that stood (`OthersTrace`); so
  `Unwritten` says that nothing has changed at all.
- `OrderedPagesAreComplete` and `GuardedPagesAreComplete` are its consequences;
  `PagesNeverCircle` needs of it only that the bound in hand is one a row of the
  query has (`InHand`).

### Accounts and credentials

`CredentialsProofs` holds for any number of threads, accounts, tokens and
devices.

- `CredentialsInvariantHolds`: the tables keep their foreign keys and unique
  indexes (`TableInvariant`), and what each thread has read fits what was handed
  out (`JobsFit`). The two are needed together: a thread inserts a row on the
  strength of what it read several statements ago, and it is only the foreign key
  at the insert, not the read, that keeps an orphan out (`NothingIsOrphaned`).
- `CredentialsHaveOneDevice`: at every interleaving of register and delete, the
  unique indexes refuse a registration whose credential has another record.
- `HonouredIsSpent`: what is for one use has no row once it was given. Its
  counterpart, that it is given once, is false (`HonouredOnce` in Findings).
- `HonouredIsBounded`: for a finite pool, it is given no more often than there
  are threads. The bound is not inductive; what is counted is how often a token
  was given, and the threads that have read its row and may yet give
  (`HonoursCounted`). A lookup adds to the latter only while the row stands, when
  nothing has been given yet; from the first deletion on a thread can only leave
  them, and gives at most once in doing so (`Used`); a crash empties them.
- `RevokedIsRefused`: a token that was answered as revoked has no row and can get
  none, since tokens are never used twice, so that a request that comes
  later finds nothing.

### Tokenserver

`TokenServerProofs` holds for any claims that name a client state and no
timestamp of 0 (`AuthsAssumption`: those are refused, or read as not reported,
before they come here) and any number of accounts.

- `TokenServerTyped` and `UidsAreNotHandedOn` hold for any number of threads. The
  latter looks at everyone who holds a uid: the row, the requests that read or
  made it, and the credentials ever issued. All that hold one uid agree on its
  account and key (`ClaimsAgree`), since a row never changes either and the
  counter is past every uid that anyone holds.
- `RetiredIsRefusedInAnyOrder` holds for any number of threads if clients report
  a generation with every claim, and the generations one key is claimed with all
  lie before, or all after, those of any other (`OrderedClaims`). That is what an
  account's own tokens say: the generation is the account's `verifierSetAt`, which
  a password change moves (`oauth/grant.py:65`). It stays a hypothesis on the
  claims, since clients of another account server may send others. The claims of run
  `tokenserver_races` are of this kind. Then the current row only moves to later
  keys (`RowsReport`), and a request that comes with a key given up is behind
  whichever row it reads. Without the hypothesis the property fails: with
  the claims (k1, 1, 1), (k1, 5, 1), (k2, 2, 2) TLC finds two requests after which
  the old key is current again.
- `AnsweredRowIsLive`, `RetiredIsRefused`, `RepeatsAreAccepted` and
  `TokenServerKeepsVersions` need no hypothesis on the claims or the threads; they
  speak of the accounts whose own requests did not race (`raced`), beside any
  number of requests of other accounts. Without that restriction the first and
  the last are false (see Findings), and so is the second for claims that are not
  ordered.
  `ServedInvariant` says, of each account that is not in `raced`, that the current
  row is live, that a crash between the two statements of a rotation can have
  left only older rows live beside it, and that what each request of it has read
  still stands (`Served`), as does how far one that claims an old key can have
  come (`Overdue`). It is kept for two reasons: a request writes only rows of its
  own account, so the others' reads stand (`Untouched`); and where it writes while
  another request of its account is under way, the account is in `raced` from then
  on, and nothing is to be kept. The step lemma also says which way the current
  row moves (`VersionsMove`), and `VersionsStep` that each of those moves is one
  of KeyVersions. That a repeated claim passes is part of `Served`: the rules are
  asked again of the row that the first answer left, for each way a request may
  end.

### Scopes and grants

`GrantsProofs` holds for every set of scopes that implication orders partially,
any clients, registrations and number of codes and tokens, from the ASSUMEs of
ScopeSets and Grants.

- `ScopeSetsAreExact`: the two dicts agree and no scope that is held implies
  another. With the types this is inductive by itself: `AddScopeIsExact` uses
  that what a new scope implies is exactly what the second dict lists for it.
- `ScopeSetsImplementClosure`: under the mapping of a set to all it implies, an
  addition is ScopeClosure's, also when it finds the scope implied already
  (`AddScopeAddsBelow`, which is where transitivity is needed: dropping the
  redundant scopes loses nothing).
- `GrantTypes`, `GrantsAreRegistered`, `SyncIsRegistered` come from one inductive
  invariant, `GrantInvariant`. What was minted stays within `ever` only because
  every code and every refresh token does, since a redemption asks nobody again;
  and `ever` covers the registration of the moment, since a widening refresh
  does ask it. `GrantedIsCovered` and `RenewedIsCovered` are about the two places
  where scopes are computed; `Registrations` says what an entry covers. Sync
  follows because what contains oldsync has oldsync below it.

### From a grant to a record

`AccessChainProofs` holds for all accounts, browsers, configurations and positive
lifetimes; `MaxUids` and `MaxClock` play no part in it.

- `RevocationIsBounded`: by `Bounded`, each link lives no longer than the last
  instant its browser could have renewed (`LastRenewal`: the revocation, or now)
  and the lifetimes up to that link. The storage credential's bound is strict,
  as an access token is exchanged before it expires.
- `StorageIsOwn`: by `OwnUids`, a uid that was handed out is its account's or
  nobody's, because the counter never falls below it and whoever is seen first
  later gets a larger one; and a record's uid has its row, because
  a removal takes both and a later insert meets the foreign key.

### The list of attached clients

`AttachedClientsProofs` holds for any number of sessions, grants and devices, and
any number of changes between two reads of the list.

- `ListInvariantHolds`: what the request has read is out of date, but not about
  what still stands. A record that has stood was read as it is (`SeenStands`); if
  its credential has stood too it is in use, and so not filtered out
  (`StandingIsShown`); and a grant that has stood was read (`GrantsStand`). Of
  what had ended before, a session's record went with the session, and the grant
  a record still points at is not among those read.
- `BrowsersHaveOneRow` and `WhatHasEndedIsNotListed` follow, by what `Merge` does
  with such reads: records that point at different credentials claim different
  rows (`RowsAreApart`), everything read is on a row (`ReadIsListed`), and nothing
  else is (`NothingElseIsListed`). That the pointers in `devices` are unique is
  part of the invariant; without it a browser is on two rows.

### The throttle

`ThrottleProofs` holds for any limit, window, table size, set of accounts and
finite pool of threads, and for clock readings that lag by less than the window.

- `ThrottleTyped`: an entry is added only where there is room, so the table never
  exceeds MAX_ENTRIES (`Evicting`), and the dict's order is always a total one of
  the keys that have an entry, so that `_evict` finds a first (`FirstExists`).
- `GuessingIsBounded`: the bound is not inductive, since the table knows nothing
  of guesses. Two facts connect them. Every guess inside the window has an entry
  of its own in its account's tally (`GuessesFailed`, an injection): `_drop_expired`
  cuts a tally from its head only, and only of what is out of the window even for
  a late reading (`Cut`, `LinkedCut`). And guesses and threads on their way to one
  add up to no more than the bound (`GuessesCounted`): a thread is let through
  when its account has fewer entries, hence fewer guesses, than the limit, and
  then all threads together add at most their number.
- `EvictionTakesTheOldest`: the dict is in the order of the last failures, up to
  the lag (`FailedInOrder`), because a key moves to the end whenever it fails; and
  `_evict` prunes all before it drops any.

### What is only model-checked

- LockoutEnds of Throttle, which is liveness under fairness.
- That `ImplicantsOf` of Scopes is a partial order is assumed by the proofs of
  ScopeSets and checked by TLC on ten scopes.

## Findings

One is a run that TLC must find violated (`reader_revival`): `put_bso` does not
move `modified` for an update of the ttl alone, "because nothing about the record
the client can see has changed". If the record had expired, it comes back, below
the stamp of every reader that saw it gone.

Other statements of the repository that its code does not quite keep. Those with
a name are stated in their module; no run of the project checks them.

- `WipedUploadsNeverLand`: "a commit of a batch opened before a wipe answers
  'batch not found' rather than landing". The wipe frees the ids of its own
  hundredth, so a new batch may get the old one's id, and the old commit lands
  that.
- `ExactlyOneLive`: two first requests of one account leave two live rows, each
  handed to a client, against "exactly one live row".
- `HonouredOnce`: a code ("one use only") or a key bundle ("once") is given twice
  when two requests have both read the row before either deletes it; the count
  of the DELETE is not looked at.
- `OwnerNeverLockedOut`: "a client that knows the password is never locked out by
  one that does not". `check` refuses before the password is looked at.
- `PagesTileUnderWrites`: the offset's stamp "makes pagination stable while
  records are being written". So it does for whole records in the order of their
  stamps while the records at the bound stand; a record at the bound that is
  written or deleted between two pages, the order of sortindexes, and lists of
  ids do not have it without the guard that Firefox sends.
- `AllowListIsTheWholeAnswer`: the registered allow-list "has to be" the whole
  answer; a code or refresh token granted before it was narrowed still gives
  what it gave. Nothing ever goes beyond what some registration allowed
  (NothingBeyondRegistration).
- `RemovalStopsAccessTokens`: `account remove` stops all access tokens, says the
  list of divergences; `/v1/verify` and `/v1/introspect` answer for them until
  they expire. Storage and the profile server do refuse at once.
- `delete_collection` says "the storage timestamp is what moves"
  (`syncstorage/store.py:556`). In the hundredth of another collection's write
  the tombstone only equals the newest stamp.
- "Both values are monotonic by the time we get here" (`db.py:786`): a request
  that validated first and updates last can lower the generation.
- "`keysChangedAt <= generation` always" (`tokenserver/__init__.py:24`): the row
  made at first sight takes both as claimed.
- `retry_after` says that expiring the oldest failure brings the count back
  under the limit (`throttle.py:80`); not if concurrent checks recorded more
  failures than the limit.
- `delete_device` reads the record's pointer before its transaction. A device
  that re-registers in between loses its record and keeps its new credential.

## Not modelled

- Quotas, counts and usage of storage; the parsing and size limits of bodies;
  the info routes' formats: sums and conversions without a state of their own.
- Migrations: each step and its version stamp are one transaction. Two processes
  that start on one old file both run the first step, and the second fails on
  the CREATE it repeats and does not start: an error at start-up, in which the
  only state is a number.
- The body limit: a count over the chunks of one request.
- Redirects, authentication strength (acr, amr), scoped key data and the wire
  format of OAuth; the grammar of a scope value, since what does not parse is
  refused.
- Device names, push endpoints and commands; timestamps of last use except where
  the list of attached clients filters by them.
- The profile server: it reads one account behind the token check of AccessChain
  and writes a timestamp.
- Cryptography: Hawk's nonce, skew and payload hash, JOSE, HKDF, onepw and
  scoped keys are functions on byte strings whose properties are cryptographic.
- Tracing, error documents, discovery, parsing of the configuration: no state.
- The content server and its pages: static files.

## Plan

Done: SyncStore, SyncReader, SyncUploads, SyncPages; TokenServer over
KeyVersions; Credentials; Throttle; Scopes, ScopeSets over ScopeClosure, Grants;
AttachedClients; AccessChain; and proofs of the safety properties of all of them,
save the ones named under "What is only model-checked". What could come next:

1. The profile server and the command line's other commands, should they come to
   keep state.
2. An abstract specification of what two devices of one account promise each
   other, with SyncReader and SyncUploads as its implementations.

Runs that share an instance are merged as modules are added: a run's place is
for a question, not for a property.
