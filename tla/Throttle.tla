------------------------------ MODULE Throttle ------------------------------
(***************************************************************************)
(* The failed-login throttle: FailureThrottle (src/src/fxa_lite/throttle.py)*)
(* and the three steps in which accounts.authenticate uses it: check,      *)
(* stretch the password, record.                                           *)
(*                                                                         *)
(* Each method reads the clock and only then takes the lock, so a request  *)
(* is one action per clock reading and one per locked section.  Time is    *)
(* kept as ages: every instant the table or a thread holds grows older with*)
(* each Tick, which leaves the number of states finite though time never   *)
(* stops.  A limit of 0, which turns the throttle off, is left out.        *)
(***************************************************************************)
EXTENDS Integers, FiniteSets, SequencesExt

CONSTANTS
  Workers,    \* threads of the pool
  Keys,       \* normalized emails of accounts that exist
  Limit,      \* failures tolerated inside the window
  Window,     \* ticks a failure is remembered for
  MaxEntries, \* MAX_ENTRIES
  MaxLag,     \* bound of the model: ticks between reading the clock and the lock
  NoKey       \* no value

ASSUME NumbersAssumption ==
  {Limit, Window, MaxEntries} \subseteq Nat \ {0} /\ MaxLag \in 0 .. Window - 1
ASSUME KeyAssumption == NoKey \notin Keys
\* The pool has a size.
ASSUME WorkersAssumption == IsFiniteSet(Workers)

VARIABLES
  failures, \* the ages of each key's failures, as appended; <<>> is no entry
  order,    \* the order of the dict: the pairs of keys, the earlier one first
  worker,   \* what each thread is doing, with the age of the instant it read
  guesses   \* history: ages of the wrong passwords stretched inside the window
            \* since the key's tally was last forgiven

vars == <<failures, order, worker, guesses>>

Idle == [pc |-> "idle", key |-> NoKey, right |-> FALSE, moment |-> 0]

\* No age beyond this one makes a difference to any comparison.
Oldest == Window + MaxLag
Older(age) == IF age < Oldest THEN age + 1 ELSE age

-----------------------------------------------------------------------------
(* The table.                                                              *)

Expired(age, moment) == age - moment >= Window

(* _drop_expired: from the head, up to the first that is not expired.      *)
DropExpired(ages, moment) ==
  LET first == SelectInSeq(ages, LAMBDA age : ~Expired(age, moment))
  IN IF first = 0 THEN <<>> ELSE SubSeq(ages, first, Len(ages))

(* _prune, for the keys of a set: entries left empty are deleted.          *)
Prune(K, moment) ==
  [k \in Keys |-> IF k \in K THEN DropExpired(failures[k], moment) ELSE failures[k]]
Present(table) == {k \in Keys : table[k] # <<>>}
Among(K) == order \cap (K \X K)
First(K) == CHOOSE k \in K : \A j \in K \ {k} : <<k, j>> \in order

(* Mutant: the table grows.                                                *)
EvictNothing(moment) == failures

(* _evict: the table with room for another key.                            *)
Evict(moment) ==
  LET pruned == Prune(Keys, moment)
      left == Present(pruned) IN
  IF Cardinality(Present(failures)) < MaxEntries THEN failures
  ELSE IF Cardinality(left) < MaxEntries THEN pruned
  ELSE [k \in Keys |-> IF k = First(left) THEN <<>> ELSE pruned[k]]

(* Mutant: a key keeps its place in the dict.                              *)
RequeueInPlace(K, key) ==
  IF key \in K THEN Among(K) ELSE Among(K) \cup (K \X {key})

(* The order of keys K once key is the last of them.                       *)
Requeue(K, key) == Among(K \ {key}) \cup ((K \ {key}) \X {key})

(* Mutant: the limit is one more than it says.                             *)
RefusesAbove(ages) == Len(ages) > Limit

(* retry_after is not 0.                                                   *)
Refuses(ages) == Len(ages) >= Limit

-----------------------------------------------------------------------------
(* The history of guesses.                                                 *)

Guess == [age : 0 .. Window - 1, copy : Nat \ {0}]

(* Guesses of one age are told apart by number.                            *)
Counted(G, age) ==
  LET new(n) == [age |-> age, copy |-> n]
  IN G \cup {new(CHOOSE n \in 1 .. Cardinality(G) + 1 : new(n) \notin G)}

(* The guesses that are in the window a tick later.                        *)
InWindow(G) ==
  {[age |-> g.age + 1, copy |-> g.copy] : g \in {h \in G : h.age + 1 < Window}}

-----------------------------------------------------------------------------
(* One call of authenticate.                                               *)

At(w, pc) == worker[w].pc = pc
Become(w, pc) == worker' = [worker EXCEPT ![w].pc = pc, ![w].moment = 0]
Finish(w) == worker' = [worker EXCEPT ![w] = Idle]

(* The account exists; check reads the clock.                              *)
Attempt(w) ==
  /\ At(w, "idle")
  /\ \E k \in Keys, right \in BOOLEAN :
       worker' = [worker EXCEPT ![w] = [pc |-> "check", key |-> k, right |-> right, moment |-> 0]]
  /\ UNCHANGED <<failures, order, guesses>>

(* Mutant: a refused attempt counts, as the newest failure.                *)
CheckCountsRefusals(w) ==
  LET key == worker[w].key
      pruned == Prune({key}, worker[w].moment) IN
  /\ At(w, "check")
  /\ failures' = IF Refuses(pruned[key])
                 THEN [pruned EXCEPT ![key] = Append(Tail(@), worker[w].moment)] ELSE pruned
  /\ order' = Among(Present(pruned))
  /\ Become(w, IF Refuses(pruned[key]) THEN "refused" ELSE "stretch")
  /\ UNCHANGED guesses

(* check, under the lock.                                                  *)
Check(w) ==
  LET key == worker[w].key
      pruned == Prune({key}, worker[w].moment) IN
  /\ At(w, "check")
  /\ failures' = pruned
  /\ order' = Among(Present(pruned))
  /\ Become(w, IF Refuses(pruned[key]) THEN "refused" ELSE "stretch")
  /\ UNCHANGED guesses

(* scrypt has run; record_failure reads the clock.                         *)
Stretch(w) ==
  /\ At(w, "stretch")
  /\ Become(w, IF worker[w].right THEN "success" ELSE "failure")
  /\ UNCHANGED <<failures, order, guesses>>

(* record_failure, under the lock.  A key that has an entry moves to the   *)
(* end of the dict; another is given one, for which there must be room.    *)
RecordFailure(w) ==
  LET key == worker[w].key
      moment == worker[w].moment
      table == IF failures[key] = <<>> THEN Evict(moment) ELSE failures IN
  /\ At(w, "failure")
  /\ failures' = [table EXCEPT ![key] = Append(DropExpired(@, moment), moment)]
  /\ order' = Requeue(Present(table), key)
  /\ guesses' = [k \in Keys |-> IF k = key THEN Counted(guesses[k], moment)
                                ELSE IF table[k] = <<>> THEN {} ELSE guesses[k]]
  /\ Finish(w)

(* record_success: the tally is forgotten.                                 *)
RecordSuccess(w) ==
  /\ At(w, "success")
  /\ failures' = [failures EXCEPT ![worker[w].key] = <<>>]
  /\ order' = Among(Keys \ {worker[w].key})
  /\ guesses' = [guesses EXCEPT ![worker[w].key] = {}]
  /\ Finish(w)

(* 429                                                                     *)
Refused(w) == At(w, "refused") /\ Finish(w) /\ UNCHANGED <<failures, order, guesses>>

-----------------------------------------------------------------------------
(* The rest of the world.                                                  *)

Tick ==
  /\ \A w \in Workers : worker[w].pc \in {"check", "failure"} => worker[w].moment < MaxLag
  /\ failures' = [k \in Keys |-> [i \in DOMAIN failures[k] |-> Older(failures[k][i])]]
  /\ guesses' = [k \in Keys |-> InWindow(guesses[k])]
  /\ worker' = [w \in Workers |->
       IF worker[w].pc \in {"check", "failure"} THEN [worker[w] EXCEPT !.moment = @ + 1]
       ELSE worker[w]]
  /\ UNCHANGED order

(* Nothing is persisted: a restart forgives everyone.                      *)
Restart ==
  /\ failures' = [k \in Keys |-> <<>>]
  /\ order' = {}
  /\ worker' = [w \in Workers |-> Idle]
  /\ guesses' = [k \in Keys |-> {}]

Init ==
  /\ failures = [k \in Keys |-> <<>>]
  /\ order = {}
  /\ worker = [w \in Workers |-> Idle]
  /\ guesses = [k \in Keys |-> {}]

Next ==
  \/ \E w \in Workers :
       \/ Attempt(w) \/ Check(w) \/ Stretch(w)
       \/ RecordFailure(w) \/ RecordSuccess(w) \/ Refused(w)
  \/ Tick
  \/ Restart

(* Time passes, and a thread that read the clock gets the lock.            *)
Fairness ==
  /\ WF_vars(Tick)
  /\ \A w \in Workers : WF_vars(Check(w) \/ RecordFailure(w))

Spec == Init /\ [][Next]_vars /\ Fairness

-----------------------------------------------------------------------------
(* The dict orders the keys that have a tally, and there are no more than  *)
(* MAX_ENTRIES of them.                                                    *)
Orders(r, K) ==
  /\ r \subseteq K \X K
  /\ \A k \in K : <<k, k>> \notin r
  /\ \A j, k \in K : j = k \/ <<j, k>> \in r \/ <<k, j>> \in r
  /\ \A i, j, k \in K : <<i, j>> \in r /\ <<j, k>> \in r => <<i, k>> \in r

TypeOK ==
  /\ failures \in [Keys -> Seq(0 .. Oldest)]
  /\ Orders(order, Present(failures))
  /\ Cardinality(Present(failures)) <= MaxEntries
  /\ worker \in [Workers -> [pc : {"idle", "check", "stretch", "failure", "success", "refused"},
                              key : Keys \cup {NoKey}, right : BOOLEAN, moment : 0 .. MaxLag]]
  /\ guesses \in [Keys -> SUBSET Guess] /\ \A k \in Keys : IsFiniteSet(guesses[k])

(* The bound on guessing: since a tally was last forgiven, no window holds *)
(* more wrong guesses at an account than the limit, and those that other   *)
(* threads had already been let through to (check and record_failure are   *)
(* not one step).                                                          *)
GuessesBounded ==
  \A k \in Keys : Cardinality(guesses[k]) <= Limit - 1 + Cardinality(Workers)

(* A full table makes room at the expense of the least recently failed     *)
(* account, and only if none of its entries had expired: a tally is not    *)
(* lost to a rush of other accounts while there is anything stale to drop  *)
(* (give or take the lag of a clock reading).                              *)
Evicts(k) ==
  /\ \E age \in ToSet(failures[k]) : age < Window
  /\ failures'[k] = <<>>
  /\ \E w \in Workers :
       At(w, "failure") /\ worker'[w] = Idle /\ failures'[worker[w].key] # <<>>

EvictsTheOldest ==
  [][\A k \in Keys : Evicts(k) =>
       /\ Cardinality(Present(failures)) = MaxEntries
       /\ \A j \in Present(failures) :
            /\ \E age \in ToSet(failures[j]) : age < Window + MaxLag
            /\ Last(failures[j]) <= Last(failures[k]) + MaxLag]_vars

(* No one is locked out for good: however guesses keep coming, each account*)
(* is open again and again.                                                *)
LockoutEnds == \A k \in Keys : []<>~Refuses(DropExpired(failures[k], 0))

(* What the module's header says: "a client that knows the password is     *)
(* never locked out by one that does not".  It is, while the window lasts. *)
OwnerNeverLockedOut == \A w \in Workers : At(w, "refused") => ~worker[w].right

=============================================================================
