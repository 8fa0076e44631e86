------------------------- MODULE CredentialsProofs -------------------------
(***************************************************************************)
(* What holds of Credentials for any number of threads, accounts, tokens    *)
(* and device records, however their requests interleave.                   *)
(***************************************************************************)
EXTENDS Credentials, FiniteSetTheorems, TLAPS

(* One email address has at most one account.                              *)
OneAccount == \A u, v \in accounts : u = v

(* Whatever stands or was revoked or given for was once handed out, and so  *)
(* is never handed out again.                                              *)
OnceMinted ==
  /\ DOMAIN tokens \subseteq minted
  /\ revoked \subseteq minted
  /\ \A d \in DOMAIN devices : devices[d].by \in minted
  /\ \A t \in KeyFetches \cup Codes : given[t] > 0 => t \in minted

(* A revocation is answered once its credential is gone.                   *)
RevokedIsGone == revoked \cap DOMAIN tokens = {}

UniquePointers ==
  \A d, e \in DOMAIN devices : devices[d].by = devices[e].by => d = e

(* The types of the tables.                                                *)
TableTypes ==
  /\ accounts \subseteq Uids
  /\ DOMAIN tokens \subseteq Tokens /\ tokens \in [DOMAIN tokens -> Uids]
  /\ DOMAIN devices \subseteq DeviceIds
  /\ devices \in [DOMAIN devices -> [uid : Uids, by : Sessions \cup Refreshes]]
  /\ expired \subseteq Codes \cap DOMAIN tokens
  /\ minted \subseteq Uids \cup Tokens \cup DeviceIds
  /\ revoked \subseteq Tokens
  /\ given \in [KeyFetches \cup Codes -> Nat]

TableInvariant ==
  /\ TableTypes /\ OneAccount /\ NoOrphans /\ UniquePointers
  /\ OnceMinted /\ RevokedIsGone /\ GivenIsSpent

(* What a thread holds at each step: a credential that was handed out, of   *)
(* the kind the step is about; a code that is to be honoured is spent.      *)
FitsIn(job, out, standing) ==
  /\ ~job.late
  /\ job.pc \in {"target", "delete", "spend", "own", "named", "upsert"} =>
       job.cred \in Tokens \cap out
  /\ job.pc \in {"own", "named", "upsert"} => job.cred \in Sessions \cup Refreshes
  /\ job.pc = "spend" =>
       \/ job.op = "keys" /\ job.cred \in KeyFetches
       \/ job.op = "redeem" /\ job.cred \in Codes
  /\ job.pc \in {"account", "grant"} /\ job.op = "redeem" =>
       job.cred \in (Codes \cap out) \ standing
  /\ job.pc = "disconnect" =>
       /\ job.pointer \in (Sessions \cup Refreshes) \cap out
       /\ job.device \in DeviceIds

Fits(job) == FitsIn(job, minted, DOMAIN tokens)

JobsFit ==
  /\ worker \in [Workers -> Job]
  /\ \A w \in Workers : Fits(worker[w])

CredentialsInvariant == TableInvariant /\ JobsFit

-----------------------------------------------------------------------------
(* Which locals a thread keeps.                                            *)

Kept(pc, job) ==
  [pc |-> pc,
   op |-> IF "op" \in Needs(pc) THEN job.op ELSE None,
   cred |-> IF "cred" \in Needs(pc) THEN job.cred ELSE None,
   uid |-> IF "uid" \in Needs(pc) THEN job.uid ELSE None,
   device |-> IF "device" \in Needs(pc) THEN job.device ELSE None,
   pointer |-> IF "pointer" \in Needs(pc) THEN job.pointer ELSE None,
   late |-> job.late]

LEMMA ThenKeeps ==
  ASSUME NEW pc, NEW job \in Job
  PROVE  [f \in DOMAIN Idle |->
            IF f = "pc" THEN pc ELSE IF f \in Needs(pc) THEN job[f] ELSE Idle[f]]
         = Kept(pc, job)
BY DEF Idle, Kept, Needs, Job

LEMMA Keeping ==
  /\ \A pc \in {"target", "spend", "own", "named", "upsert", "account", "grant"} :
       {"op", "cred", "uid", "device"} \subseteq Needs(pc)
  /\ \A pc \in {"delete", "drop"} : "cred" \in Needs(pc)
  /\ {"device", "pointer"} \subseteq Needs("disconnect")
BY DEF Needs

LEMMA KeptIsJob ==
  ASSUME NEW pc \in Steps, NEW job \in Job
  PROVE  Kept(pc, job) \in Job
BY DEF Kept, Job

(* The steps that need nothing of what the thread holds.                   *)
Plain == Steps \ {"target", "delete", "spend", "own", "named", "upsert", "account", "grant",
                  "disconnect"}

-----------------------------------------------------------------------------
(* One thread moves.                                                       *)

(* A token that has gone does not come back.                               *)
Forward ==
  /\ minted \subseteq minted'
  /\ DOMAIN tokens' \cap minted \subseteq DOMAIN tokens

LEMMA ThreadMoves ==
  ASSUME JobsFit, Forward, NEW w \in Workers, NEW job \in Job,
         worker' = [worker EXCEPT ![w] = job],
         FitsIn(job, minted', DOMAIN tokens')
  PROVE  JobsFit'
<1>1. worker' \in [Workers -> Job]
  BY DEF JobsFit
<1>2. ASSUME NEW v \in Workers PROVE Fits(worker[v])'
  <2>1. CASE v = w
    BY <2>1 DEF JobsFit, Fits
  <2>2. CASE v # w
    <3>1. worker'[v] = worker[v] /\ FitsIn(worker[v], minted, DOMAIN tokens)
      BY <2>2 DEF JobsFit, Fits
    <3>2. FitsIn(worker[v], minted', DOMAIN tokens')
      BY <3>1 DEF FitsIn, Forward
    <3> QED
      BY <3>1, <3>2 DEF Fits
  <2> QED
    BY <2>1, <2>2
<1> QED
  BY <1>1, <1>2 DEF JobsFit

LEMMA ThreadGoes ==
  ASSUME JobsFit, Forward, NEW w \in Workers, NEW pc \in Steps, NEW job \in Job,
         Then(w, pc, job), FitsIn(Kept(pc, job), minted', DOMAIN tokens')
  PROVE  JobsFit'
<1>1. worker' = [worker EXCEPT ![w] = Kept(pc, job)]
  BY ThenKeeps DEF Then
<1> QED
  BY <1>1, KeptIsJob, ThreadMoves

LEMMA ThreadGoesPlainly ==
  ASSUME JobsFit, Forward, NEW w \in Workers, NEW pc \in Plain, NEW job \in Job, ~job.late,
         Then(w, pc, job)
  PROVE  JobsFit'
<1>1. FitsIn(Kept(pc, job), minted', DOMAIN tokens')
  BY DEF FitsIn, Kept, Plain
<1> QED
  BY <1>1, ThreadGoes DEF Plain

LEMMA ThreadRests ==
  ASSUME JobsFit, Forward, NEW w \in Workers, Refuse(w)
  PROVE  JobsFit'
<1>1. Idle \in Job /\ FitsIn(Idle, minted', DOMAIN tokens')
  BY DEF Idle, Job, FitsIn, Steps
<1> QED
  BY <1>1, ThreadMoves DEF Refuse

(* The tables change and no thread does.                                   *)
LEMMA ThreadsWait ==
  ASSUME JobsFit, Forward, UNCHANGED worker
  PROVE  JobsFit'
BY DEF JobsFit, Forward, Fits, FitsIn

-----------------------------------------------------------------------------
(* The statements.                                                         *)

(* What is newly honoured was handed out, and has left its table before.   *)
GivenForSpent ==
  /\ given' \in [KeyFetches \cup Codes -> Nat]
  /\ \A t \in KeyFetches \cup Codes :
       given'[t] > 0 => given[t] > 0 \/ t \in minted \ DOMAIN tokens

LEMMA NothingGiven ==
  ASSUME TableInvariant, UNCHANGED given
  PROVE  GivenForSpent
BY DEF TableInvariant, TableTypes, GivenForSpent

LEMMA HonourCounts ==
  ASSUME TableInvariant, NEW c \in KeyFetches \cup Codes, Honour(c)
  PROVE  /\ given' \in [KeyFetches \cup Codes -> Nat]
         /\ \A t \in KeyFetches \cup Codes : t # c => given'[t] = given[t]
BY DEF TableInvariant, TableTypes, Honour

LEMMA InsertKeepsTables ==
  ASSUME TableInvariant, NEW S \in {Sessions, KeyFetches, Codes, Refreshes},
         NEW t \in Fresh(S), NEW u, Insert(t, u),
         UNCHANGED <<accounts, devices, expired, revoked>>, GivenForSpent
  PROVE  TableInvariant' /\ Forward
<1>1. t \in Tokens /\ t \notin minted /\ u \in accounts /\ u \in Uids
  BY DEF Fresh, Insert, Tokens, TableInvariant, TableTypes
<1>2. /\ DOMAIN tokens' = DOMAIN tokens \cup {t}
      /\ minted' = minted \cup {t}
      /\ \A x \in DOMAIN tokens' : tokens'[x] = IF x = t THEN u ELSE tokens[x]
      /\ tokens' = [x \in DOMAIN tokens \cup {t} |-> IF x = t THEN u ELSE tokens[x]]
  BY DEF Insert
<1>3. TableTypes'
  BY <1>1, <1>2 DEF TableInvariant, TableTypes, GivenForSpent
<1>4. OneAccount' /\ UniquePointers'
  BY DEF TableInvariant, OneAccount, UniquePointers
<1>5. NoOrphans'
  BY <1>1, <1>2 DEF TableInvariant, NoOrphans, Live
<1>6. OnceMinted' /\ RevokedIsGone' /\ GivenIsSpent'
  BY <1>1, <1>2 DEF TableInvariant, OnceMinted, RevokedIsGone, GivenIsSpent, Live, GivenForSpent
<1>7. Forward
  BY <1>1, <1>2 DEF Forward
<1> QED
  BY <1>3, <1>4, <1>5, <1>6, <1>7 DEF TableInvariant

LEMMA DeleteKeepsTables ==
  ASSUME TableInvariant, NEW T, Delete(T),
         UNCHANGED <<accounts, minted>>,
         revoked \subseteq revoked', revoked' \subseteq revoked \cup (T \cap Tokens \cap minted),
         given' \in [KeyFetches \cup Codes -> Nat],
         \A t \in KeyFetches \cup Codes : given'[t] > 0 => given[t] > 0 \/ t \in T \cap minted
  PROVE  TableInvariant' /\ Forward
<1>1. /\ DOMAIN tokens' = DOMAIN tokens \ T
      /\ \A x \in DOMAIN tokens' : tokens'[x] = tokens[x]
      /\ DOMAIN devices' = {e \in DOMAIN devices : devices[e].by \notin T \cap Sessions}
      /\ \A d \in DOMAIN devices' : devices'[d] = devices[d]
      /\ tokens' = [t \in DOMAIN tokens \ T |-> tokens[t]]
      /\ devices' = [d \in {e \in DOMAIN devices : devices[e].by \notin T \cap Sessions} |->
                       devices[d]]
      /\ expired' = expired \ T
  BY DEF Delete
<1>2. TableTypes'
  BY <1>1 DEF TableInvariant, TableTypes
<1>3. OneAccount' /\ UniquePointers'
  BY <1>1 DEF TableInvariant, OneAccount, UniquePointers
<1>4. NoOrphans'
  BY <1>1 DEF TableInvariant, NoOrphans, Live
<1>5. OnceMinted' /\ RevokedIsGone' /\ GivenIsSpent'
  BY <1>1 DEF TableInvariant, OnceMinted, RevokedIsGone, GivenIsSpent, Live
<1>6. Forward
  BY <1>1 DEF Forward
<1> QED
  BY <1>2, <1>3, <1>4, <1>5, <1>6 DEF TableInvariant

LEMMA DeleteAccountKeepsTables ==
  ASSUME TableInvariant, NEW u, DeleteAccount(u), UNCHANGED <<minted, given>>
  PROVE  TableInvariant' /\ Forward
<1>1. /\ accounts' = accounts \ {u}
      /\ DOMAIN tokens' = {x \in DOMAIN tokens : tokens[x] # u}
      /\ \A x \in DOMAIN tokens' : tokens'[x] = tokens[x]
      /\ DOMAIN devices' = {e \in DOMAIN devices : devices[e].uid # u}
      /\ \A d \in DOMAIN devices' : devices'[d] = devices[d]
      /\ tokens' = [t \in {x \in DOMAIN tokens : tokens[x] # u} |-> tokens[t]]
      /\ devices' = [d \in {e \in DOMAIN devices : devices[e].uid # u} |-> devices[d]]
      /\ expired' = {c \in expired : tokens[c] # u}
      /\ revoked' = revoked \cup {t \in DOMAIN tokens : tokens[t] = u}
  BY DEF DeleteAccount
<1>2. TableTypes'
  BY <1>1 DEF TableInvariant, TableTypes
<1>3. OneAccount' /\ UniquePointers'
  BY <1>1 DEF TableInvariant, OneAccount, UniquePointers
<1>4. NoOrphans'
  BY <1>1 DEF TableInvariant, NoOrphans, OneAccount, Live
<1>5. OnceMinted' /\ RevokedIsGone' /\ GivenIsSpent'
  BY <1>1 DEF TableInvariant, OnceMinted, RevokedIsGone, GivenIsSpent, Live
<1>6. Forward
  BY <1>1 DEF Forward
<1> QED
  BY <1>2, <1>3, <1>4, <1>5, <1>6 DEF TableInvariant

LEMMA TablesStay ==
  ASSUME TableInvariant, UNCHANGED <<accounts, tokens, devices, expired, minted, revoked, given>>
  PROVE  TableInvariant' /\ Forward
BY DEF TableInvariant, TableTypes, OneAccount, NoOrphans, UniquePointers, OnceMinted,
       RevokedIsGone, GivenIsSpent, Live, Forward

LEMMA UpsertKeepsTables ==
  ASSUME TableInvariant, NEW w \in Workers, NEW d \in DeviceIds, Upsert(w, d),
         worker[w].cred \in (Sessions \cup Refreshes) \cap minted,
         minted' = minted \cup {d},
         UNCHANGED <<accounts, tokens, expired, revoked, given>>
  PROVE  TableInvariant' /\ Forward
<1> DEFINE cred == worker[w].cred
           owner == IF d \in DOMAIN devices THEN devices[d].uid ELSE worker[w].uid
<1>1. /\ worker[w].uid \in accounts /\ (cred \in Sessions => cred \in DOMAIN tokens)
      /\ \A e \in DOMAIN devices : devices[e].by = cred => e = d
      /\ devices' = [e \in DOMAIN devices \cup {d} |->
                       IF e # d THEN devices[e] ELSE [uid |-> owner, by |-> cred]]
  BY DEF Upsert, Referenced, PutDevice, OwnDevices, Live
<1>2. owner \in accounts /\ owner \in Uids
  BY <1>1 DEF TableInvariant, TableTypes, NoOrphans
<1> HIDE DEF owner
<1>3. /\ DOMAIN devices' = DOMAIN devices \cup {d}
      /\ devices'[d].uid = owner /\ devices'[d].by = cred
      /\ \A e \in DOMAIN devices' : e # d => e \in DOMAIN devices /\ devices'[e] = devices[e]
  BY <1>1
<1>4. TableTypes'
  BY <1>1, <1>2 DEF TableInvariant, TableTypes
<1>5. OneAccount' /\ RevokedIsGone' /\ GivenIsSpent'
  BY DEF TableInvariant, OneAccount, RevokedIsGone, GivenIsSpent, Live
<1>6. NoOrphans'
  BY <1>1, <1>2, <1>3 DEF TableInvariant, NoOrphans, Live
<1>7. UniquePointers'
  BY <1>1, <1>3 DEF TableInvariant, UniquePointers
<1>8. OnceMinted'
  BY <1>3 DEF TableInvariant, OnceMinted
<1>9. Forward
  BY DEF Forward
<1> QED
  BY <1>4, <1>5, <1>6, <1>7, <1>8, <1>9 DEF TableInvariant

LEMMA DisconnectKeepsTables ==
  ASSUME TableInvariant, NEW w \in Workers, Disconnect(w),
         worker[w].pointer \in (Sessions \cup Refreshes) \cap minted
  PROVE  TableInvariant' /\ Forward
<1> DEFINE pointer == worker[w].pointer
<1>1. /\ tokens' = [t \in DOMAIN tokens \ {pointer} |-> tokens[t]]
      /\ devices' = [d \in {e \in DOMAIN devices \ {worker[w].device} :
                              devices[e].by \notin {pointer} \cap Sessions} |-> devices[d]]
      /\ revoked' = revoked \cup {pointer}
      /\ UNCHANGED <<accounts, expired, minted, given>>
  BY DEF Disconnect
<1>2. /\ DOMAIN tokens' = DOMAIN tokens \ {pointer}
      /\ \A t \in DOMAIN tokens' : tokens'[t] = tokens[t]
      /\ \A d \in DOMAIN devices' : /\ d \in DOMAIN devices /\ devices'[d] = devices[d]
                                    /\ devices[d].by \notin {pointer} \cap Sessions
  BY <1>1
<1>3. pointer \in Tokens /\ pointer \notin Codes
  BY DisjointAssumption DEF Tokens
<1>4. TableTypes'
  BY <1>1, <1>3 DEF TableInvariant, TableTypes
<1>5. OneAccount' /\ UniquePointers'
  BY <1>1, <1>2 DEF TableInvariant, OneAccount, UniquePointers
<1>6. NoOrphans'
  BY <1>1, <1>2 DEF TableInvariant, NoOrphans, Live
<1>7. OnceMinted' /\ RevokedIsGone' /\ GivenIsSpent'
  BY <1>1, <1>2 DEF TableInvariant, OnceMinted, RevokedIsGone, GivenIsSpent, Live
<1>8. Forward
  BY <1>1, <1>2 DEF Forward
<1> QED
  BY <1>4, <1>5, <1>6, <1>7, <1>8 DEF TableInvariant

(* What an INSERT of a token comes to.                                     *)
LEMMA MintKeeps ==
  ASSUME TableInvariant, JobsFit, NEW w \in Workers,
         NEW S \in {Sessions, KeyFetches, Codes, Refreshes}, NEW next \in Plain,
         Mint(w, S, next), UNCHANGED <<expired, revoked, given>>
  PROVE  TableInvariant' /\ JobsFit'
<1>1. worker[w] \in Job /\ ~worker[w].late
  BY DEF JobsFit, Fits, FitsIn
<1>2. CASE /\ \E t \in Fresh(S) : Insert(t, worker[w].uid)
           /\ Goto(w, next)
           /\ UNCHANGED <<accounts, devices>>
  <2>1. PICK t \in Fresh(S) : Insert(t, worker[w].uid)
    BY <1>2
  <2>2. TableInvariant' /\ Forward
    BY <1>2, <2>1, NothingGiven, InsertKeepsTables
  <2> QED
    BY <1>1, <1>2, <2>2, ThreadGoesPlainly DEF Goto
<1>3. CASE worker[w].uid \notin accounts /\ Refuse(w) /\ UNCHANGED <<tables, minted>>
  <2>1. TableInvariant' /\ Forward
    BY <1>3, TablesStay DEF tables
  <2> QED
    BY <1>3, <2>1, ThreadRests
<1> QED
  BY <1>2, <1>3 DEF Mint

-----------------------------------------------------------------------------
(* The steps of a request.                                                 *)

LEMMA JobFields ==
  ASSUME JobsFit, NEW w \in Workers
  PROVE  /\ worker[w] \in Job
         /\ FitsIn(worker[w], minted, DOMAIN tokens) /\ ~worker[w].late
         /\ worker[w].cred \in Tokens \cup {None}
         /\ worker[w].device \in DeviceIds \cup {None}
BY DEF JobsFit, Fits, FitsIn, Job

(* A request comes with a credential that stands, and so was not revoked.  *)
LEMMA LookupKeeps ==
  ASSUME TableInvariant, JobsFit, NEW w \in Workers, NEW op \in Ops, NEW cred \in Tokens,
         Lookup(w, op, cred),
         op \in DOMAIN Handler,
         op = "register" => cred \in Sessions \cup Refreshes,
         op = "keys" => cred \in KeyFetches,
         op = "redeem" => cred \in Codes
  PROVE  TableInvariant' /\ JobsFit'
<1> DEFINE pc == IF cred \in expired THEN "drop" ELSE Handler[op]
           job == [Idle EXCEPT !.op = op, !.cred = cred, !.uid = tokens[cred],
                               !.late = cred \in revoked]
<1>1. TableInvariant' /\ Forward /\ UNCHANGED <<minted, tokens>>
  BY TablesStay DEF Lookup, tables, history
<1>2. cred \in DOMAIN tokens /\ tokens[cred] \in Uids /\ cred \in minted /\ cred \notin revoked
  BY DEF Lookup, Live, TableInvariant, TableTypes, OnceMinted, RevokedIsGone
<1>3. /\ job.op = op /\ job.cred = cred /\ job.uid = tokens[cred] /\ ~job.late /\ job \in Job
  <2>1. Idle \in Job
    BY DEF Idle, Job, Steps
  <2>2. (cred \in revoked) = FALSE
    BY <1>2
  <2>3. job = [Idle EXCEPT !.op = op, !.cred = cred, !.uid = tokens[cred], !.late = FALSE]
    BY <2>2, Zenon
  <2> HIDE DEF job
  <2> QED
    BY <1>2, <2>1, <2>3 DEF Job
<1>4. /\ pc \in Plain \cup {"target", "own", "spend", "delete", "grant"}
      /\ pc = "own" => op = "register"
      /\ pc = "spend" => op \in {"keys", "redeem"}
      /\ pc = "grant" => op = "direct"
  BY DEF Handler, Plain, Steps
<1>5. Then(w, pc, job)
  BY DEF Lookup
<1> HIDE DEF pc, job
<1>6. CASE pc \in Plain
  BY <1>1, <1>3, <1>5, <1>6, ThreadGoesPlainly
<1>7. CASE pc \in {"target", "own", "spend", "delete", "grant"}
  <2>1. Kept(pc, job).cred = cred /\ Kept(pc, job).pc = pc /\ ~Kept(pc, job).late
    BY <1>3, <1>7, Keeping DEF Kept
  <2>2. pc # "delete" => Kept(pc, job).op = op
    BY <1>3, <1>7, Keeping DEF Kept
  <2>3. FitsIn(Kept(pc, job), minted', DOMAIN tokens')
    BY <1>1, <1>2, <1>4, <1>7, <2>1, <2>2 DEF FitsIn
  <2>4. pc \in Steps
    BY <1>7 DEF Steps
  <2> QED
    BY <1>1, <1>3, <1>5, <2>3, <2>4, ThreadGoes
<1> QED
  BY <1>4, <1>6, <1>7

LEMMA RequestsKeep ==
  ASSUME TableInvariant, JobsFit, NEW w \in Workers, Requests(w)
  PROVE  TableInvariant' /\ JobsFit'
<1>1. ASSUME NEW op \in {"signup", "password"}, Arrive(w, op)
      PROVE  TableInvariant' /\ JobsFit'
  <2>1. TableInvariant' /\ Forward
    BY <1>1, TablesStay DEF Arrive, tables, history
  <2>2. /\ [Idle EXCEPT !.pc = op, !.op = op] \in Job
        /\ FitsIn([Idle EXCEPT !.pc = op, !.op = op], minted', DOMAIN tokens')
    BY DEF Idle, Job, Steps, Ops, FitsIn
  <2> QED
    BY <1>1, <2>1, <2>2, ThreadMoves DEF Arrive
<1>2. ASSUME NEW op \in SessionOps, NEW s \in Sessions, Lookup(w, op, s)
      PROVE  TableInvariant' /\ JobsFit'
  BY <1>2, LookupKeeps DEF SessionOps, Ops, Handler, Tokens
<1>3. ASSUME NEW op \in DeviceOps \cup {"renew", "revoke"}, NEW r \in Refreshes, Lookup(w, op, r)
      PROVE  TableInvariant' /\ JobsFit'
  BY <1>3, LookupKeeps DEF DeviceOps, SessionOps, Ops, Handler, Tokens
<1>4. ASSUME NEW k \in KeyFetches, Lookup(w, "keys", k)
      PROVE  TableInvariant' /\ JobsFit'
  BY <1>4, LookupKeeps DEF Ops, Handler, Tokens
<1>5. ASSUME NEW c \in Codes, Lookup(w, "redeem", c)
      PROVE  TableInvariant' /\ JobsFit'
  BY <1>5, LookupKeeps DEF Ops, Handler, Tokens
<1> QED
  BY <1>1, <1>2, <1>3, <1>4, <1>5 DEF Requests

(* A thread that keeps its locals goes from one step to another that needs *)
(* no more of them.                                                        *)
LEMMA AccountKeeps ==
  ASSUME TableInvariant, JobsFit, NEW w \in Workers, Account(w)
  PROVE  TableInvariant' /\ JobsFit'
<1>1. TableInvariant' /\ Forward /\ UNCHANGED <<minted, tokens>>
  BY TablesStay DEF Account, tables, history
<1>2. CASE Refuse(w)
  BY <1>1, <1>2, ThreadRests
<1>3. CASE Goto(w, "grant")
  <2>1. FitsIn(Kept("grant", worker[w]), minted', DOMAIN tokens')
    BY <1>1, JobFields, Keeping DEF Kept, FitsIn, Account, At
  <2> QED
    BY <1>1, <1>3, <2>1, JobFields, ThreadGoes DEF Goto, Steps
<1> QED
  BY <1>2, <1>3 DEF Account

LEMMA DoneKeeps ==
  ASSUME TableInvariant, JobsFit, NEW w \in Workers, Done(w)
  PROVE  TableInvariant' /\ JobsFit'
BY TablesStay, ThreadRests DEF Done, tables, history

LEMMA SignUpKeeps ==
  ASSUME TableInvariant, JobsFit, NEW w \in Workers, SignUp(w)
  PROVE  TableInvariant' /\ JobsFit'
<1>1. CASE Refuse(w) /\ UNCHANGED <<accounts, minted>>
  BY <1>1, TablesStay, ThreadRests DEF SignUp
<1>2. ASSUME accounts = {}, NEW u \in Fresh(Uids), accounts' = {u}, minted' = minted \cup {u},
             Then(w, "session", [worker[w] EXCEPT !.uid = u])
      PROVE  TableInvariant' /\ JobsFit'
  <2>1. UNCHANGED <<tokens, devices, expired, revoked, given>> /\ u \in Uids
    BY DEF SignUp, Fresh
  <2>2. TableInvariant'
    BY <1>2, <2>1 DEF TableInvariant, TableTypes, OneAccount, NoOrphans, UniquePointers,
                      OnceMinted, RevokedIsGone, GivenIsSpent, Live
  <2>3. Forward
    BY <1>2, <2>1 DEF Forward
  <2>4. [worker[w] EXCEPT !.uid = u] \in Job /\ ~[worker[w] EXCEPT !.uid = u].late
    BY <2>1, JobFields DEF Job
  <2> QED
    BY <1>2, <2>2, <2>3, <2>4, ThreadGoesPlainly DEF Plain, Steps
<1> QED
  BY <1>1, <1>2 DEF SignUp

LEMMA PasswordKeeps ==
  ASSUME TableInvariant, JobsFit, NEW w \in Workers, Password(w)
  PROVE  TableInvariant' /\ JobsFit'
<1>1. TableInvariant' /\ Forward
  BY TablesStay DEF Password, tables, history
<1>2. CASE Refuse(w)
  BY <1>1, <1>2, ThreadRests
<1>3. ASSUME NEW u \in accounts, NEW pc \in {"remove", "keyfetch", "session"},
             Then(w, pc, [worker[w] EXCEPT !.uid = u])
      PROVE  JobsFit'
  <2>1. [worker[w] EXCEPT !.uid = u] \in Job /\ ~[worker[w] EXCEPT !.uid = u].late
    BY JobFields DEF Job, TableInvariant, TableTypes
  <2> QED
    BY <1>1, <1>3, <2>1, ThreadGoesPlainly DEF Plain, Steps
<1> QED
  BY <1>1, <1>2, <1>3 DEF Password

LEMMA InsertsKeep ==
  ASSUME TableInvariant, JobsFit, NEW w \in Workers, Session(w) \/ Copy(w) \/ Code(w)
  PROVE  TableInvariant' /\ JobsFit'
BY MintKeeps DEF Session, Copy, Code, Plain, Steps

LEMMA KeyFetchKeeps ==
  ASSUME TableInvariant, JobsFit, NEW w \in Workers, KeyFetch(w)
  PROVE  TableInvariant' /\ JobsFit'
<1>1. CASE Mint(w, KeyFetches, "answered")
  BY <1>1, MintKeeps DEF KeyFetch, Plain, Steps
<1>2. CASE Goto(w, "answered") /\ UNCHANGED <<tables, minted>>
  BY <1>2, TablesStay, JobFields, ThreadGoesPlainly DEF KeyFetch, tables, Goto, Plain, Steps
<1> QED
  BY <1>1, <1>2 DEF KeyFetch

LEMMA RemoveKeeps ==
  ASSUME TableInvariant, JobsFit, NEW w \in Workers, Remove(w)
  PROVE  TableInvariant' /\ JobsFit'
BY DeleteAccountKeepsTables, JobFields, ThreadGoesPlainly DEF Remove, Goto, Plain, Steps

(* A thread goes on to a step that needs what it holds now, or what it has  *)
(* just read.                                                              *)
LEMMA ThreadGoesWith ==
  ASSUME JobsFit, Forward, NEW w \in Workers, NEW job \in Job, ~job.late,
         NEW pc \in {"delete", "named", "upsert"}, Then(w, pc, job),
         job.cred \in Tokens \cap minted',
         pc # "delete" => job.cred \in Sessions \cup Refreshes
  PROVE  JobsFit'
<1>1. Kept(pc, job).cred = job.cred /\ Kept(pc, job).pc = pc /\ ~Kept(pc, job).late
  BY Keeping DEF Kept
<1>2. FitsIn(Kept(pc, job), minted', DOMAIN tokens')
  BY <1>1 DEF FitsIn
<1> QED
  BY <1>2, ThreadGoes DEF Steps

LEMMA TargetKeeps ==
  ASSUME TableInvariant, JobsFit, NEW w \in Workers, Target(w)
  PROVE  TableInvariant' /\ JobsFit'
<1>1. TableInvariant' /\ Forward /\ UNCHANGED minted
  BY TablesStay DEF Target, tables, history
<1>2. CASE Goto(w, "delete")
  <2>1. worker[w].cred \in Tokens \cap minted
    BY JobFields DEF FitsIn, Target, At
  <2> QED
    BY <1>1, <1>2, <2>1, JobFields, ThreadGoesWith DEF Goto
<1>3. ASSUME NEW t \in Sessions \cap minted, Then(w, "delete", [worker[w] EXCEPT !.cred = t])
      PROVE  JobsFit'
  <2> DEFINE job == [worker[w] EXCEPT !.cred = t]
  <2>1. job \in Job /\ ~job.late /\ job.cred = t
    BY JobFields DEF Job, Tokens
  <2>2. job.cred \in Tokens \cap minted'
    BY <1>1, <2>1 DEF Tokens
  <2>3. Then(w, "delete", job)
    BY <1>3
  <2> HIDE DEF job
  <2> QED
    BY <1>1, <2>1, <2>2, <2>3, ThreadGoesWith
<1>4. CASE Refuse(w)
  BY <1>1, <1>4, ThreadRests
<1> QED
  BY <1>1, <1>2, <1>3, <1>4 DEF Target

LEMMA DeleteTokenKeeps ==
  ASSUME TableInvariant, JobsFit, NEW w \in Workers, DeleteToken(w)
  PROVE  TableInvariant' /\ JobsFit'
<1>1. worker[w].cred \in Tokens \cap minted
  BY JobFields DEF FitsIn, DeleteToken, At
<1>2. GivenForSpent
  BY NothingGiven DEF DeleteToken
<1>3. TableInvariant' /\ Forward
  BY <1>1, <1>2, DeleteKeepsTables DEF DeleteToken, TableInvariant, TableTypes, GivenForSpent
<1> QED
  BY <1>3, JobFields, ThreadGoesPlainly DEF DeleteToken, Goto, Plain, Steps

LEMMA SweepKeeps ==
  ASSUME TableInvariant, JobsFit, NEW w \in Workers, Sweep(w)
  PROVE  TableInvariant' /\ JobsFit'
<1>1. TableInvariant' /\ Forward
  BY DeleteKeepsTables DEF Sweep, history, TableInvariant, TableTypes
<1> QED
  BY <1>1, JobFields, ThreadGoesPlainly DEF Sweep, Goto, Plain, Steps

LEMMA DropKeeps ==
  ASSUME TableInvariant, JobsFit, NEW w \in Workers, Drop(w)
  PROVE  TableInvariant' /\ JobsFit'
<1>1. TableInvariant' /\ Forward
  BY DeleteKeepsTables DEF Drop, history, TableInvariant, TableTypes
<1> QED
  BY <1>1, ThreadRests DEF Drop

(* The row is gone before the bundle is answered, or the code's request     *)
(* goes on.                                                                *)
LEMMA SpendKeeps ==
  ASSUME TableInvariant, JobsFit, NEW w \in Workers, Spend(w)
  PROVE  TableInvariant' /\ JobsFit'
<1> DEFINE cred == worker[w].cred
<1>1. /\ cred \in Tokens \cap minted
      /\ \/ worker[w].op = "keys" /\ cred \in KeyFetches
         \/ worker[w].op = "redeem" /\ cred \in Codes
  BY JobFields DEF FitsIn, Spend, At
<1>2. /\ given' \in [KeyFetches \cup Codes -> Nat]
      /\ \A t \in KeyFetches \cup Codes : given'[t] > 0 => given[t] > 0 \/ t = cred
  BY <1>1, HonourCounts DEF Spend, TableInvariant, TableTypes
<1>3. /\ Delete({cred}) /\ UNCHANGED <<accounts, minted, revoked>>
  BY DEF Spend
<1>4. TableInvariant' /\ Forward
  BY <1>1, <1>2, <1>3, DeleteKeepsTables
<1>5. CASE worker[w].op = "keys"
  BY <1>4, <1>5, JobFields, ThreadGoesPlainly DEF Spend, Goto, Plain, Steps
<1>6. CASE worker[w].op = "redeem"
  <2>1. cred \in (Codes \cap minted') \ DOMAIN tokens'
    BY <1>1, <1>3, <1>6 DEF Delete
  <2>2. FitsIn(Kept("account", worker[w]), minted', DOMAIN tokens')
    BY <2>1, JobFields, Keeping DEF Kept, FitsIn
  <2> QED
    BY <1>4, <1>6, <2>2, JobFields, ThreadGoes DEF Spend, Goto, Steps
<1> QED
  BY <1>1, <1>5, <1>6

(* A code is honoured by a request that spent it.                          *)
LEMMA GrantKeeps ==
  ASSUME TableInvariant, JobsFit, NEW w \in Workers, Grant(w)
  PROVE  TableInvariant' /\ JobsFit'
<1>1. GivenForSpent
  <2>1. CASE UNCHANGED given
    BY <2>1, NothingGiven
  <2>2. CASE worker[w].op = "redeem" /\ Honour(worker[w].cred)
    <3>1. worker[w].cred \in (Codes \cap minted) \ DOMAIN tokens
      BY <2>2, JobFields DEF FitsIn, Grant, At
    <3> QED
      BY <2>2, <3>1, HonourCounts DEF GivenForSpent
  <2> QED
    BY <2>1, <2>2 DEF Grant
<1>2. "answered" \in Plain
  BY DEF Plain, Steps
<1>3. CASE /\ \E t \in Fresh(Refreshes) : Insert(t, worker[w].uid)
           /\ Goto(w, "answered")
           /\ UNCHANGED <<accounts, devices>>
  <2>1. PICK t \in Fresh(Refreshes) : Insert(t, worker[w].uid)
    BY <1>3
  <2>2. TableInvariant' /\ Forward
    BY <1>1, <1>3, <2>1, InsertKeepsTables DEF Grant
  <2> QED
    BY <1>2, <1>3, <2>2, JobFields, ThreadGoesPlainly DEF Goto
<1>4. CASE (Refuse(w) \/ Goto(w, "answered")) /\ UNCHANGED <<tables, minted>>
  <2>1. TableInvariant' /\ Forward
    BY <1>1, <1>4 DEF Grant, tables, TableInvariant, TableTypes, OneAccount, NoOrphans,
          UniquePointers, OnceMinted, RevokedIsGone, GivenIsSpent, Live, Forward, GivenForSpent
  <2>2. CASE Refuse(w)
    BY <2>1, <2>2, ThreadRests
  <2>3. CASE Goto(w, "answered")
    BY <1>2, <2>1, <2>3, JobFields, ThreadGoesPlainly DEF Goto
  <2> QED
    BY <1>4, <2>2, <2>3
<1> QED
  BY <1>3, <1>4 DEF Grant, Mint

LEMMA OwnKeeps ==
  ASSUME TableInvariant, JobsFit, NEW w \in Workers, Own(w)
  PROVE  TableInvariant' /\ JobsFit'
<1>1. TableInvariant' /\ Forward /\ UNCHANGED minted
  BY TablesStay DEF Own, tables, history
<1>2. worker[w].cred \in (Sessions \cup Refreshes) \cap minted
  BY JobFields DEF FitsIn, Own, At
<1>3. ASSUME NEW job \in Job, ~job.late, job.cred = worker[w].cred, Then(w, "named", job)
      PROVE  JobsFit'
  <2>1. job.cred \in Tokens \cap minted' /\ job.cred \in Sessions \cup Refreshes
    BY <1>1, <1>2, <1>3 DEF Tokens
  <2> QED
    BY <1>1, <1>3, <2>1, ThreadGoesWith
<1>4. CASE Goto(w, "named")
  BY <1>1, <1>3, <1>4, JobFields DEF Goto
<1>5. ASSUME NEW d \in OwnDevices(worker[w].cred), Then(w, "named", [worker[w] EXCEPT !.device = d])
      PROVE  JobsFit'
  <2>1. d \in DeviceIds
    BY DEF OwnDevices, TableInvariant, TableTypes
  <2>2. /\ [worker[w] EXCEPT !.device = d] \in Job
        /\ ~[worker[w] EXCEPT !.device = d].late
        /\ [worker[w] EXCEPT !.device = d].cred = worker[w].cred
    BY <2>1, JobFields DEF Job
  <2> QED
    BY <1>3, <1>5, <2>2
<1> QED
  BY <1>1, <1>4, <1>5 DEF Own

LEMMA NamedKeeps ==
  ASSUME TableInvariant, JobsFit, NEW w \in Workers, Named(w)
  PROVE  TableInvariant' /\ JobsFit'
<1>1. TableInvariant' /\ Forward /\ UNCHANGED minted
  BY TablesStay DEF Named, tables, history
<1>2. worker[w].cred \in (Sessions \cup Refreshes) \cap minted
  BY JobFields DEF FitsIn, Named, At
<1>3. ASSUME NEW job \in Job, ~job.late, job.cred = worker[w].cred, Then(w, "upsert", job)
      PROVE  JobsFit'
  <2>1. job.cred \in Tokens \cap minted' /\ job.cred \in Sessions \cup Refreshes
    BY <1>1, <1>2, <1>3 DEF Tokens
  <2> QED
    BY <1>1, <1>3, <2>1, ThreadGoesWith
<1>4. CASE Goto(w, "upsert")
  BY <1>1, <1>3, <1>4, JobFields DEF Goto
<1>5. ASSUME NEW d \in DeviceIds, Then(w, "upsert", [worker[w] EXCEPT !.device = d])
      PROVE  JobsFit'
  <2>1. /\ [worker[w] EXCEPT !.device = d] \in Job
        /\ ~[worker[w] EXCEPT !.device = d].late
        /\ [worker[w] EXCEPT !.device = d].cred = worker[w].cred
    BY JobFields DEF Job
  <2> QED
    BY <1>3, <1>5, <2>1
<1>6. CASE Refuse(w)
  BY <1>1, <1>6, ThreadRests
<1> QED
  BY <1>1, <1>4, <1>5, <1>6 DEF Named

LEMMA RegisterKeeps ==
  ASSUME TableInvariant, JobsFit, NEW w \in Workers, Register(w)
  PROVE  TableInvariant' /\ JobsFit'
<1>1. /\ worker[w].cred \in (Sessions \cup Refreshes) \cap minted
      /\ worker[w].device \in DeviceIds \cup {None}
  BY JobFields DEF FitsIn, Register, At
<1>2. UNCHANGED <<accounts, tokens, expired, revoked, given>>
  BY DEF Register
<1>3. ASSUME NEW d \in DeviceIds, Upsert(w, d), Goto(w, "answered"), minted' = minted \cup {d}
      PROVE  TableInvariant' /\ JobsFit'
  <2>1. TableInvariant' /\ Forward
    BY <1>1, <1>2, <1>3, UpsertKeepsTables
  <2> QED
    BY <1>3, <2>1, JobFields, ThreadGoesPlainly DEF Goto, Plain, Steps
<1>4. CASE Refuse(w) /\ UNCHANGED <<devices, minted>>
  <2>1. TableInvariant' /\ Forward
    BY <1>2, <1>4, TablesStay
  <2> QED
    BY <1>4, <2>1, ThreadRests
<1> QED
  BY <1>1, <1>3, <1>4 DEF Register, Fresh

LEMMA RecordKeeps ==
  ASSUME TableInvariant, JobsFit, NEW w \in Workers, Record(w)
  PROVE  TableInvariant' /\ JobsFit'
<1>1. TableInvariant' /\ Forward /\ UNCHANGED <<minted, tokens>>
  BY TablesStay DEF Record, tables, history
<1>2. ASSUME NEW d \in DOMAIN devices, 
             Then(w, "disconnect", [worker[w] EXCEPT !.device = d, !.pointer = devices[d].by])
      PROVE  JobsFit'
  <2> DEFINE by == devices[d].by
             job == [worker[w] EXCEPT !.device = d, !.pointer = by]
  <2>1. d \in DeviceIds /\ by \in (Sessions \cup Refreshes) \cap minted
    BY DEF TableInvariant, TableTypes, OnceMinted
  <2>2. job \in Job /\ ~job.late /\ job.device = d /\ job.pointer = by
    <3> HIDE DEF by
    <3> QED
      BY <2>1, JobFields DEF Job, Tokens
  <2>3. Then(w, "disconnect", job)
    BY <1>2
  <2> HIDE DEF job, by
  <2>4. /\ Kept("disconnect", job).pc = "disconnect" /\ ~Kept("disconnect", job).late
        /\ Kept("disconnect", job).device = d /\ Kept("disconnect", job).pointer = by
    BY <2>2, Keeping DEF Kept
  <2>5. FitsIn(Kept("disconnect", job), minted', DOMAIN tokens')
    BY <1>1, <2>1, <2>4 DEF FitsIn
  <2> QED
    BY <1>1, <2>2, <2>3, <2>5, ThreadGoes DEF Steps
<1>3. CASE Refuse(w)
  BY <1>1, <1>3, ThreadRests
<1> QED
  BY <1>1, <1>2, <1>3 DEF Record

LEMMA DisconnectKeeps ==
  ASSUME TableInvariant, JobsFit, NEW w \in Workers, Disconnect(w)
  PROVE  TableInvariant' /\ JobsFit'
<1>1. worker[w].pointer \in (Sessions \cup Refreshes) \cap minted
  BY JobFields DEF FitsIn, Disconnect, At
<1>2. TableInvariant' /\ Forward
  BY <1>1, DisconnectKeepsTables
<1> QED
  BY <1>2, JobFields, ThreadGoesPlainly DEF Disconnect, Goto, Plain, Steps

-----------------------------------------------------------------------------
(* The rest of the world.                                                  *)

LEMMA WorldKeeps ==
  ASSUME TableInvariant, JobsFit,
         (\E u \in Uids : RemoveAccount(u)) \/ (\E c \in Codes : Expire(c)) \/ Crash
  PROVE  TableInvariant' /\ JobsFit'
<1>1. ASSUME NEW u \in Uids, RemoveAccount(u) PROVE TableInvariant' /\ JobsFit'
  BY <1>1, DeleteAccountKeepsTables, ThreadsWait DEF RemoveAccount
<1>2. ASSUME NEW c \in Codes, Expire(c) PROVE TableInvariant' /\ JobsFit'
  <2>1. TableInvariant' /\ Forward
    BY <1>2 DEF Expire, tables, history, TableInvariant, TableTypes, OneAccount, NoOrphans,
                UniquePointers, OnceMinted, RevokedIsGone, GivenIsSpent, Live, Forward
  <2> QED
    BY <1>2, <2>1, ThreadsWait DEF Expire
<1>3. CASE Crash
  <2>1. TableInvariant'
    BY <1>3, TablesStay DEF Crash, tables, history
  <2>2. Idle \in Job /\ FitsIn(Idle, minted', DOMAIN tokens')
    BY DEF Idle, Job, FitsIn, Steps
  <2>3. JobsFit'
    BY <1>3, <2>2 DEF Crash, JobsFit, Fits
  <2> QED
    BY <2>1, <2>3
<1> QED
  BY <1>1, <1>2, <1>3

-----------------------------------------------------------------------------
(* The invariant.                                                          *)

LEMMA CredentialsStart == Init => CredentialsInvariant
<1> SUFFICES ASSUME Init PROVE CredentialsInvariant
  OBVIOUS
<1>1. TableInvariant
  BY DEF Init, TableInvariant, TableTypes, OneAccount, NoOrphans, UniquePointers, OnceMinted,
         RevokedIsGone, GivenIsSpent
<1>2. Idle \in Job /\ FitsIn(Idle, minted, DOMAIN tokens)
  BY DEF Idle, Job, FitsIn, Steps
<1> QED
  BY <1>1, <1>2 DEF Init, CredentialsInvariant, JobsFit, Fits

LEMMA CredentialsStep ==
  CredentialsInvariant /\ [Next]_vars => CredentialsInvariant'
<1> SUFFICES ASSUME TableInvariant, JobsFit, [Next]_vars
             PROVE  TableInvariant' /\ JobsFit'
  BY DEF CredentialsInvariant
<1>1. ASSUME NEW w \in Workers, Requests(w) PROVE TableInvariant' /\ JobsFit'
  BY <1>1, RequestsKeep
<1>2. ASSUME NEW w \in Workers, Step(w) PROVE TableInvariant' /\ JobsFit'
  BY <1>2, AccountKeeps, DoneKeeps, SignUpKeeps, PasswordKeeps, InsertsKeep, KeyFetchKeeps,
     RemoveKeeps, TargetKeeps, DeleteTokenKeeps, SweepKeeps, DropKeeps, SpendKeeps, GrantKeeps,
     OwnKeeps, NamedKeeps, RegisterKeeps, RecordKeeps, DisconnectKeeps DEF Step
<1>3. CASE UNCHANGED vars
  BY <1>3, TablesStay, ThreadsWait DEF vars
<1> QED
  BY <1>1, <1>2, <1>3, WorldKeeps DEF Next

(* However requests interleave, and whatever crashes, expires or is removed *)
(* between two of their statements, the tables keep their types and their   *)
(* foreign keys, and each thread holds what its next statement relies on.   *)
THEOREM CredentialsInvariantHolds == Spec => []CredentialsInvariant
BY CredentialsStart, CredentialsStep, PTL DEF Spec

(* The type invariant: what the tables and the locals of a request hold.   *)
THEOREM CredentialsTyped == Spec => []TypeOK
<1>1. CredentialsInvariant => TypeOK
  BY DEF CredentialsInvariant, TableInvariant, TableTypes, JobsFit, TypeOK
<1> QED
  BY <1>1, CredentialsInvariantHolds, PTL

(* Nothing that opens an account outlives it, and no device record names a  *)
(* session that is gone, whichever requests were under way when the account *)
(* or the session was removed.                                             *)
THEOREM NothingIsOrphaned == Spec => []NoOrphans
<1>1. CredentialsInvariant => NoOrphans
  BY DEF CredentialsInvariant, TableInvariant
<1> QED
  BY <1>1, CredentialsInvariantHolds, PTL

(* However the registrations of one credential race, it has one device      *)
(* record at most.                                                         *)
THEOREM CredentialsHaveOneDevice == Spec => []OneDeviceEach
<1>1. CredentialsInvariant => OneDeviceEach
  <2> SUFFICES ASSUME CredentialsInvariant, NEW t \in Tokens
               PROVE  Cardinality(OwnDevices(t)) <= 1
    BY DEF OneDeviceEach
  <2>1. \A d, e \in OwnDevices(t) : d = e
    BY DEF CredentialsInvariant, TableInvariant, UniquePointers, OwnDevices
  <2>2. CASE OwnDevices(t) = {}
    BY <2>2, FS_EmptySet
  <2>3. CASE OwnDevices(t) # {}
    <3>1. PICK d \in OwnDevices(t) : OwnDevices(t) = {d}
      BY <2>1, <2>3
    <3> QED
      BY <3>1, FS_Singleton
  <2> QED
    BY <2>2, <2>3
<1> QED
  BY <1>1, CredentialsInvariantHolds, PTL

(* A code or a key-fetch token has left its table before anything is given  *)
(* for it, so neither a failure nor a crash later on lets it be used again. *)
THEOREM HonouredIsSpent == Spec => []GivenIsSpent
<1>1. CredentialsInvariant => GivenIsSpent
  BY DEF CredentialsInvariant, TableInvariant
<1> QED
  BY <1>1, CredentialsInvariantHolds, PTL

(* No request that comes after the answer to a sign-out, a revocation, a    *)
(* disconnection or an account's removal is granted on the credential that  *)
(* ended.                                                                  *)
THEOREM RevokedIsRefused == Spec => []RevokedStaysOut
<1>1. CredentialsInvariant => RevokedStaysOut
  BY DEF CredentialsInvariant, JobsFit, Fits, FitsIn, RevokedStaysOut
<1> QED
  BY <1>1, CredentialsInvariantHolds, PTL

-----------------------------------------------------------------------------
(* How often one token is honoured.                                        *)

(* The threads that have read a token's row and may yet honour it.         *)
Holds(job, t) == job.cred = t /\ job.pc \in {"spend", "account", "grant"}
Holders(jobs, t) == {w \in Workers : Holds(jobs[w], t)}

HonoursCounted ==
  \A t \in KeyFetches \cup Codes :
    given[t] + Cardinality(Holders(worker, t)) <= Cardinality(Workers)

(* What a step may do: nothing; or let a thread read a row that stands, of  *)
(* a token nothing was given for yet; or honour a token and let go of it.  *)
Used(t) ==
  \/ given'[t] = given[t] /\ Holders(worker', t) \subseteq Holders(worker, t)
  \/ given'[t] = 0
  \/ \E w \in Holders(worker, t) :
       /\ given'[t] = given[t] + 1
       /\ Holders(worker', t) \subseteq Holders(worker, t) \ {w}

LEMMA UsedIsCounted ==
  ASSUME IsFiniteSet(Workers), NEW t, given[t] \in Nat, Used(t),
         given[t] + Cardinality(Holders(worker, t)) <= Cardinality(Workers)
  PROVE  given'[t] + Cardinality(Holders(worker', t)) <= Cardinality(Workers)
<1> DEFINE H == Holders(worker, t)
           N == Holders(worker', t)
<1>1. H \in SUBSET Workers /\ N \in SUBSET Workers
  BY DEF Holders
<1>2. /\ IsFiniteSet(H) /\ IsFiniteSet(N)
      /\ Cardinality(H) \in Nat /\ Cardinality(N) \in Nat /\ Cardinality(Workers) \in Nat
      /\ Cardinality(N) <= Cardinality(Workers)
  BY <1>1, FS_Subset, FS_CardinalityType
<1> HIDE DEF H, N
<1>3. CASE given'[t] = given[t] /\ N \subseteq H
  <2>1. Cardinality(N) <= Cardinality(H)
    BY <1>2, <1>3, FS_Subset
  <2> QED
    BY <1>2, <1>3, <2>1 DEF H, N
<1>4. CASE given'[t] = 0
  BY <1>2, <1>4 DEF N
<1>5. ASSUME NEW w \in H, given'[t] = given[t] + 1, N \subseteq H \ {w}
      PROVE  given'[t] + Cardinality(N) <= Cardinality(Workers)
  <2>1. IsFiniteSet(H \ {w}) /\ Cardinality(H \ {w}) = Cardinality(H) - 1
    BY <1>2, FS_RemoveElement
  <2>2. Cardinality(N) <= Cardinality(H \ {w})
    BY <1>5, <2>1, FS_Subset
  <2> QED
    BY <1>2, <1>5, <2>1, <2>2 DEF H
<1> QED
  BY <1>3, <1>4, <1>5 DEF Used, H, N

(* One thread goes on, or is idle again.                                   *)
LEMMA HoldersMove ==
  ASSUME NEW w \in Workers, NEW t, NEW job, JobsFit, worker' = [worker EXCEPT ![w] = job]
  PROVE  /\ ~Holds(job, t) => Holders(worker', t) = Holders(worker, t) \ {w}
         /\ Holds(job, t) => Holders(worker', t) = Holders(worker, t) \cup {w}
<1>1. worker'[w] = job /\ \A v \in Workers \ {w} : worker'[v] = worker[v]
  BY DEF JobsFit
<1> QED
  BY <1>1 DEF Holders

LEMMA ThenGoes ==
  ASSUME NEW w \in Workers, NEW pc, NEW job, Then(w, pc, job)
  PROVE  \E next : /\ worker' = [worker EXCEPT ![w] = next]
                   /\ next.pc = pc /\ next.cred \in {job.cred, None}
<1> DEFINE next == [f \in DOMAIN Idle |->
                      IF f = "pc" THEN pc ELSE IF f \in Needs(pc) THEN job[f] ELSE Idle[f]]
<1>1. next.pc = pc /\ next.cred \in {job.cred, None}
  BY DEF Idle
<1>2. worker' = [worker EXCEPT ![w] = next]
  BY DEF Then
<1> QED
  BY <1>1, <1>2

LEMMA LetsGo ==
  ASSUME JobsFit, NEW w \in Workers, NEW t \in KeyFetches \cup Codes, NEW pc, NEW job,
         pc \notin {"spend", "account", "grant"}, Then(w, pc, job)
  PROVE  Holders(worker', t) \subseteq Holders(worker, t) \ {w}
<1>1. PICK next : worker' = [worker EXCEPT ![w] = next] /\ next.pc = pc
  BY ThenGoes
<1>2. ~Holds(next, t)
  BY <1>1 DEF Holds
<1> QED
  BY <1>1, <1>2, HoldersMove

LEMMA GoesElsewhere ==
  ASSUME JobsFit, NEW w \in Workers, NEW t \in KeyFetches \cup Codes, NEW pc, NEW job,
         pc \notin {"spend", "account", "grant"}, Then(w, pc, job), UNCHANGED given
  PROVE  Used(t)
BY LetsGo DEF Used

LEMMA Gives ==
  ASSUME TableInvariant, JobsFit, NEW w \in Workers, NEW t \in KeyFetches \cup Codes,
         worker[w].pc \in {"spend", "account", "grant"}, Goto(w, "answered"),
         worker[w].cred \in KeyFetches \cup Codes, Honour(worker[w].cred)
  PROVE  Used(t)
<1>1. Holders(worker', t) \subseteq Holders(worker, t) \ {w}
  BY LetsGo DEF Goto
<1>2. CASE worker[w].cred = t
  <2>1. w \in Holders(worker, t)
    BY <1>2 DEF Holders, Holds
  <2>2. given'[t] = given[t] + 1
    BY <1>2 DEF Honour, TableInvariant, TableTypes
  <2> QED
    BY <1>1, <2>1, <2>2 DEF Used
<1>3. CASE worker[w].cred # t
  <2>1. given'[t] = given[t]
    BY <1>3 DEF Honour, TableInvariant, TableTypes
  <2> QED
    BY <1>1, <2>1 DEF Used
<1> QED
  BY <1>2, <1>3

LEMMA RestsAgain ==
  ASSUME JobsFit, NEW w \in Workers, NEW t \in KeyFetches \cup Codes, Refuse(w),
         UNCHANGED given
  PROVE  Used(t)
<1>1. ~Holds(Idle, t)
  BY DEF Holds, Idle
<1> QED
  BY <1>1, HoldersMove DEF Refuse, Used

(* A request that finds a token's row is the only way to hold it, and       *)
(* nothing was given for it while that row stood.                          *)
LEMMA LookupUses ==
  ASSUME TableInvariant, JobsFit, NEW w \in Workers, NEW t \in KeyFetches \cup Codes,
         NEW op, NEW cred \in Tokens, Lookup(w, op, cred)
  PROVE  Used(t)
<1> DEFINE pc == IF cred \in expired THEN "drop" ELSE Handler[op]
           job == [Idle EXCEPT !.op = op, !.cred = cred, !.uid = tokens[cred],
                               !.late = cred \in revoked]
<1>1. job.cred = cred
  BY DEF Idle
<1>2. Then(w, pc, job) /\ Live(cred) /\ UNCHANGED given
  BY DEF Lookup, history
<1> HIDE DEF pc, job
<1>3. PICK next : worker' = [worker EXCEPT ![w] = next] /\ next.cred \in {cred, None}
  BY <1>1, <1>2, ThenGoes
<1>4. CASE t = cred
  <2>1. given[t] = 0
    BY <1>2, <1>4 DEF TableInvariant, TableTypes, GivenIsSpent
  <2> QED
    BY <1>2, <2>1 DEF Used
<1>5. CASE t # cred
  <2>1. ~Holds(next, t)
    BY <1>3, <1>5, DisjointAssumption DEF Holds, Tokens
  <2> QED
    BY <1>2, <1>3, <2>1, HoldersMove DEF Used
<1> QED
  BY <1>4, <1>5

LEMMA RequestsUse ==
  ASSUME TableInvariant, JobsFit, NEW w \in Workers, NEW t \in KeyFetches \cup Codes,
         Requests(w)
  PROVE  Used(t)
<1>1. ASSUME NEW op \in {"signup", "password"}, Arrive(w, op) PROVE Used(t)
  <2>1. ~Holds([Idle EXCEPT !.pc = op, !.op = op], t)
    BY DEF Holds, Idle
  <2> QED
    BY <1>1, <2>1, HoldersMove DEF Arrive, history, Used
<1> QED
  BY <1>1, LookupUses DEF Requests, Tokens

(* The statements that neither hold nor honour a token.                    *)
LEMMA StepsUse ==
  ASSUME JobsFit, NEW w \in Workers, NEW t \in KeyFetches \cup Codes,
         \/ Done(w) \/ SignUp(w) \/ Password(w) \/ Session(w) \/ Copy(w) \/ KeyFetch(w)
         \/ Remove(w) \/ Target(w) \/ DeleteToken(w) \/ Sweep(w) \/ Code(w) \/ Drop(w)
         \/ Own(w) \/ Named(w) \/ Register(w) \/ Record(w) \/ Disconnect(w)
  PROVE  Used(t)
<1>1. CASE Done(w) \/ Drop(w)
  BY <1>1, RestsAgain DEF Done, Drop, history
<1>2. CASE SignUp(w)
  <2>1. UNCHANGED given
    BY <1>2 DEF SignUp
  <2>2. ASSUME NEW u, Then(w, "session", [worker[w] EXCEPT !.uid = u]) PROVE Used(t)
    BY <2>1, <2>2, GoesElsewhere
  <2> QED
    BY <1>2, <2>1, <2>2, RestsAgain DEF SignUp
<1>3. CASE Password(w)
  <2>1. UNCHANGED given
    BY <1>3 DEF Password, history
  <2>2. ASSUME NEW u,
               Then(w, CASE worker[w].op = "close" -> "remove"
                         [] worker[w].op = "reauth" -> "keyfetch"
                         [] OTHER -> "session", [worker[w] EXCEPT !.uid = u])
        PROVE  Used(t)
    <3> DEFINE pc == CASE worker[w].op = "close" -> "remove"
                       [] worker[w].op = "reauth" -> "keyfetch"
                       [] OTHER -> "session"
    <3>1. pc \notin {"spend", "account", "grant"} /\ Then(w, pc, [worker[w] EXCEPT !.uid = u])
      BY <2>2
    <3> QED
      BY <2>1, <3>1, GoesElsewhere
  <2> QED
    BY <1>3, <2>1, <2>2, RestsAgain DEF Password
<1>4. CASE Session(w) \/ Copy(w) \/ KeyFetch(w) \/ Code(w)
  BY <1>4, RestsAgain, GoesElsewhere DEF Session, Copy, KeyFetch, Code, Mint, Goto
<1>5. CASE Remove(w) \/ DeleteToken(w) \/ Sweep(w) \/ Disconnect(w)
  BY <1>5, GoesElsewhere DEF Remove, DeleteToken, Sweep, Disconnect, Goto, history
<1>6. CASE Target(w) \/ Own(w) \/ Named(w) \/ Record(w)
  <2>1. UNCHANGED given
    BY <1>6 DEF Target, Own, Named, Record, history
  <2>2. ASSUME NEW pc \in {"delete", "named", "upsert", "disconnect"}, NEW job, Then(w, pc, job)
        PROVE  Used(t)
    BY <2>1, <2>2, GoesElsewhere
  <2>3. \/ Refuse(w)
        \/ \E pc \in {"delete", "named", "upsert", "disconnect"} : \E job : Then(w, pc, job)
    <3>1. CASE Target(w)
      BY <3>1 DEF Target, Goto
    <3>2. CASE Own(w)
      BY <3>2 DEF Own, Goto
    <3>3. CASE Named(w)
      BY <3>3 DEF Named, Goto
    <3>4. CASE Record(w)
      BY <3>4 DEF Record
    <3> QED
      BY <1>6, <3>1, <3>2, <3>3, <3>4
  <2> QED
    BY <2>1, <2>2, <2>3, RestsAgain
<1>7. CASE Register(w)
  BY <1>7, RestsAgain, GoesElsewhere DEF Register, Goto
<1> QED
  BY <1>1, <1>2, <1>3, <1>4, <1>5, <1>6, <1>7

LEMMA AccountUses ==
  ASSUME JobsFit, NEW w \in Workers, NEW t \in KeyFetches \cup Codes, Account(w)
  PROVE  Used(t)
<1>1. worker[w].pc = "account" /\ UNCHANGED given
  BY DEF Account, At, history
<1>2. CASE Refuse(w)
  BY <1>1, <1>2, RestsAgain
<1>3. CASE Goto(w, "grant")
  <2>1. worker' = [worker EXCEPT ![w] = Kept("grant", worker[w])]
    BY <1>3, ThenKeeps, JobFields DEF Goto, Then
  <2>2. Holds(Kept("grant", worker[w]), t) => Holds(worker[w], t)
    BY <1>1, Keeping DEF Holds, Kept
  <2>3. Holders(worker', t) \subseteq Holders(worker, t)
    BY <2>1, <2>2, HoldersMove DEF Holders
  <2> QED
    BY <1>1, <2>3 DEF Used
<1> QED
  BY <1>2, <1>3 DEF Account

LEMMA SpendUses ==
  ASSUME TableInvariant, JobsFit, NEW w \in Workers, NEW t \in KeyFetches \cup Codes, Spend(w)
  PROVE  Used(t)
<1>1. /\ worker[w].pc = "spend"
      /\ worker[w].cred \in KeyFetches \cup Codes
  BY JobFields DEF FitsIn, Spend, At
<1>2. CASE worker[w].op = "keys"
  BY <1>1, <1>2, Gives DEF Spend
<1>3. CASE worker[w].op # "keys"
  <2>1. worker' = [worker EXCEPT ![w] = Kept("account", worker[w])] /\ UNCHANGED given
    BY <1>3, ThenKeeps, JobFields DEF Spend, Goto, Then
  <2>2. Holds(Kept("account", worker[w]), t) => Holds(worker[w], t)
    BY <1>1, Keeping DEF Holds, Kept
  <2>3. Holders(worker', t) \subseteq Holders(worker, t)
    BY <2>1, <2>2, HoldersMove DEF Holders
  <2> QED
    BY <2>1, <2>3 DEF Used
<1> QED
  BY <1>2, <1>3

LEMMA GrantUses ==
  ASSUME TableInvariant, JobsFit, NEW w \in Workers, NEW t \in KeyFetches \cup Codes, Grant(w)
  PROVE  Used(t)
<1>1. Goto(w, "answered") \/ Refuse(w)
  BY DEF Grant, Mint
<1>2. CASE worker[w].op = "redeem" /\ Goto(w, "answered") /\ Honour(worker[w].cred)
  <2>1. worker[w].pc = "grant" /\ worker[w].cred \in KeyFetches \cup Codes
    BY <1>2, JobFields DEF FitsIn, Grant, At
  <2> QED
    BY <1>2, <2>1, Gives
<1>3. CASE UNCHANGED given
  BY <1>1, <1>3, RestsAgain, GoesElsewhere DEF Goto
<1>4. ASSUME Honour(worker[w].cred), worker[w].op = "redeem", worker'[w].pc = "answered"
      PROVE  Goto(w, "answered")
  <2>1. CASE Refuse(w)
    BY <1>4, <2>1 DEF Refuse, Idle, JobsFit
  <2> QED
    BY <1>1, <2>1
<1> QED
  BY <1>2, <1>3, <1>4 DEF Grant

LEMMA HonoursStep ==
  ASSUME IsFiniteSet(Workers), CredentialsInvariant, HonoursCounted, [Next]_vars
  PROVE  HonoursCounted'
<1> USE DEF CredentialsInvariant
<1>1. ASSUME NEW t \in KeyFetches \cup Codes PROVE Used(t)
  <2>1. ASSUME NEW w \in Workers, Step(w) PROVE Used(t)
    BY <2>1, AccountUses, SpendUses, GrantUses, StepsUse DEF Step
  <2>2. CASE Crash
    <3>1. ~Holds(Idle, t)
      BY DEF Holds, Idle
    <3>2. Holders(worker', t) = {}
      BY <2>2, <3>1 DEF Crash, Holders
    <3> QED
      BY <2>2, <3>2 DEF Crash, history, Used
  <2>3. CASE UNCHANGED <<worker, given>>
    BY <2>3 DEF Used
  <2> QED
    BY <2>1, <2>2, <2>3, RequestsUse DEF Next, vars, RemoveAccount, Expire, history
<1>2. \A t \in KeyFetches \cup Codes : given[t] \in Nat
  BY DEF TableInvariant, TableTypes
<1> QED
  BY <1>1, <1>2, UsedIsCounted DEF HonoursCounted

(* However many requests with one code or key-fetch token overlap, however  *)
(* often it is sent and wherever the process dies, it is honoured no more   *)
(* often than there are threads that can have read its row before it went.  *)
THEOREM HonouredIsBounded ==
  ASSUME IsFiniteSet(Workers)
  PROVE  Spec => []HonouredWithinThePool
<1>1. Init => HonoursCounted
  <2> SUFFICES ASSUME Init, NEW t \in KeyFetches \cup Codes
               PROVE  given[t] + Cardinality(Holders(worker, t)) <= Cardinality(Workers)
    BY DEF HonoursCounted
  <2>1. given[t] = 0 /\ Holders(worker, t) = {}
    BY DEF Init, Holders, Holds, Idle
  <2> QED
    BY <2>1, FS_EmptySet, FS_CardinalityType
<1>2. CredentialsInvariant /\ HonoursCounted /\ [Next]_vars => HonoursCounted'
  BY HonoursStep
<1>3. CredentialsInvariant /\ HonoursCounted => HonouredWithinThePool
  <2> SUFFICES ASSUME CredentialsInvariant, HonoursCounted, NEW t \in KeyFetches \cup Codes
               PROVE  given[t] <= Cardinality(Workers)
    BY DEF HonouredWithinThePool
  <2>1. IsFiniteSet(Holders(worker, t)) /\ given[t] \in Nat
    BY FS_Subset DEF Holders, CredentialsInvariant, TableInvariant, TableTypes
  <2> QED
    BY <2>1, FS_CardinalityType DEF HonoursCounted
<1> QED
  BY <1>1, <1>2, <1>3, CredentialsInvariantHolds, PTL DEF Spec
=============================================================================
