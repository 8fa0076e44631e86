--------------------------- MODULE ThrottleProofs ---------------------------
(***************************************************************************)
(* What holds of Throttle for any number of threads, accounts and entries, *)
(* any limit and any window.                                               *)
(***************************************************************************)
EXTENDS Throttle, FiniteSetTheorems, WellFoundedInduction, TLAPS

Ages == 0 .. Oldest
Tallies == [Keys -> Seq(Ages)]
Moments == 0 .. MaxLag

LEMMA Numbers ==
  /\ Limit \in Nat \ {0} /\ Window \in Nat \ {0} /\ MaxEntries \in Nat \ {0}
  /\ MaxLag \in Nat /\ MaxLag < Window /\ Oldest = Window + MaxLag
BY NumbersAssumption DEF Oldest

-----------------------------------------------------------------------------
(* A tally whose oldest entries were dropped, all of them out of the window.*)

Cut(old, new) ==
  \E d \in 0 .. Len(old) :
    /\ Len(new) = Len(old) - d
    /\ \A i \in 1 .. Len(new) : new[i] = old[i + d]
    /\ \A i \in 1 .. d : old[i] >= Window

LEMMA LeastOfNaturals ==
  ASSUME NEW S, S \subseteq Nat, S # {}
  PROVE  Min(S) \in S /\ \A n \in S : Min(S) <= n
<1>1. PICK m \in S : \A n \in S : ~(<<n, m>> \in OpToRel(<, Nat))
  BY NatLessThanWellFounded, WFMin
<1>2. \A n \in S : m <= n
  <2> SUFFICES ASSUME NEW n \in S PROVE ~(n < m)
    OBVIOUS
  <2> QED
    BY <1>1 DEF OpToRel
<1> QED
  BY <1>2 DEF Min

LEMMA Dropping ==
  ASSUME NEW ages \in Seq(Ages), NEW moment \in Moments
  PROVE  LET left == DropExpired(ages, moment) IN
         /\ left \in Seq(Ages)
         /\ Cut(ages, left)
         /\ left # <<>> => ~Expired(left[1], moment)
<1> DEFINE I == {i \in 1 .. Len(ages) : ~Expired(ages[i], moment)}
           first == IF I # {} THEN Min(I) ELSE 0
           left == DropExpired(ages, moment)
<1>1. left = IF first = 0 THEN <<>> ELSE SubSeq(ages, first, Len(ages))
  BY DEF DropExpired, SelectInSeq
<1>2. \A i \in 1 .. Len(ages) : ages[i] \in Nat
  BY Numbers DEF Ages
<1>3. \A i \in 1 .. Len(ages) : i \notin I => ages[i] >= Window
  BY <1>2, Numbers DEF Expired, Moments
<1>4. CASE I = {}
  <2>1. left = <<>>
    BY <1>1, <1>4
  <2>2. Len(ages) \in 0 .. Len(ages) /\ \A i \in 1 .. Len(ages) : ages[i] >= Window
    BY <1>3, <1>4
  <2>3. Cut(ages, left)
    BY <2>1, <2>2 DEF Cut
  <2> QED
    BY <2>1, <2>3
<1>5. CASE I # {}
  <2>1. first \in I /\ \A i \in I : first <= i
    <3>1. I \subseteq Nat
      OBVIOUS
    <3> HIDE DEF I
    <3> QED
      BY <1>5, <3>1, LeastOfNaturals
  <2> HIDE DEF first
  <2>2. first \in 1 .. Len(ages) /\ left = SubSeq(ages, first, Len(ages))
    BY <1>1, <2>1
  <2>3. left \in Seq(Ages) /\ Len(left) = Len(ages) - (first - 1)
    BY <2>2
  <2>4. \A i \in 1 .. Len(left) : left[i] = ages[i + (first - 1)]
    BY <2>2, <2>3
  <2>5. \A i \in 1 .. first - 1 : ages[i] >= Window
    BY <1>3, <2>1, <2>2
  <2>6. first - 1 \in 0 .. Len(ages)
    BY <2>2
  <2> HIDE DEF left
  <2>7. Cut(ages, left)
    BY <2>3, <2>4, <2>5, <2>6 DEF Cut
  <2>8. ~Expired(left[1], moment)
    BY <2>1, <2>2, <2>3, <2>4
  <2> QED
    BY <2>3, <2>7, <2>8 DEF left
<1> QED
  BY <1>4, <1>5

LEMMA CutIsSuffix ==
  ASSUME NEW old \in Seq(Ages), NEW new \in Seq(Ages), Cut(old, new)
  PROVE  /\ new # <<>> => old # <<>> /\ Last(new) = Last(old)
         /\ new = <<>> => \A i \in 1 .. Len(old) : old[i] >= Window
<1>1. PICK d \in 0 .. Len(old) :
        /\ Len(new) = Len(old) - d
        /\ \A i \in 1 .. Len(new) : new[i] = old[i + d]
        /\ \A i \in 1 .. d : old[i] >= Window
  BY DEF Cut
<1>2. ASSUME new # <<>> PROVE old # <<>> /\ Last(new) = Last(old)
  <2>1. Len(new) \in 1 .. Len(new)
    BY <1>2
  <2>2. new[Len(new)] = old[Len(old)]
    BY <1>1, <2>1
  <2> QED
    BY <1>1, <2>1, <2>2 DEF Last
<1>3. ASSUME new = <<>> PROVE \A i \in 1 .. Len(old) : old[i] >= Window
  BY <1>1, <1>3
<1> QED
  BY <1>2, <1>3

LEMMA CutNothing ==
  ASSUME NEW ages \in Seq(Ages)
  PROVE  Cut(ages, ages)
<1>1. 0 \in 0 .. Len(ages) /\ Len(ages) = Len(ages) - 0
      /\ (\A i \in 1 .. Len(ages) : ages[i] = ages[i + 0]) /\ 1 .. 0 = {}
  OBVIOUS
<1> QED
  BY <1>1 DEF Cut

-----------------------------------------------------------------------------
(* Guesses and the failures they left: each guess in the window has an     *)
(* entry of its own in the tally.                                          *)

Linked(G, ages) ==
  \E f \in Injection(G, DOMAIN ages) : \A g \in G : ages[f[g]] = g.age

LEMMA LinkMade ==
  ASSUME NEW G, NEW ages, NEW f \in [G -> DOMAIN ages],
         \A g, h \in G : f[g] = f[h] => g = h,
         \A g \in G : ages[f[g]] = g.age
  PROVE  Linked(G, ages)
<1>1. f \in Injection(G, DOMAIN ages)
  BY DEF Injection, IsInjective
<1> QED
  BY <1>1 DEF Linked

LEMMA LinkedBounds ==
  ASSUME NEW G, NEW ages \in Seq(Ages), Linked(G, ages)
  PROVE  IsFiniteSet(G) /\ Cardinality(G) \in Nat /\ Cardinality(G) <= Len(ages)
<1>1. PICK f \in Injection(G, DOMAIN ages) : TRUE
  BY DEF Linked
<1>2. DOMAIN ages = 1 .. Len(ages) /\ Len(ages) \in Nat
  OBVIOUS
<1>3. IsFiniteSet(DOMAIN ages) /\ Cardinality(DOMAIN ages) = Len(ages)
  <2>1. IsFiniteSet(1 .. Len(ages)) /\ Cardinality(1 .. Len(ages)) = Len(ages)
    BY <1>2, FS_Interval
  <2> QED
    BY <1>2, <2>1
<1>4. IsFiniteSet(G) /\ Cardinality(G) <= Len(ages)
  BY <1>1, <1>3, FS_Injection
<1> QED
  BY <1>4, FS_CardinalityType

LEMMA LinkedCut ==
  ASSUME NEW G \in SUBSET Guess, NEW old \in Seq(Ages), NEW new \in Seq(Ages),
         Linked(G, old), Cut(old, new)
  PROVE  Linked(G, new)
<1>1. PICK f \in Injection(G, DOMAIN old) : \A g \in G : old[f[g]] = g.age
  BY DEF Linked
<1>2. PICK d \in 0 .. Len(old) :
        /\ Len(new) = Len(old) - d
        /\ \A i \in 1 .. Len(new) : new[i] = old[i + d]
        /\ \A i \in 1 .. d : old[i] >= Window
  BY DEF Cut
<1>3. /\ f \in [G -> 1 .. Len(old)]
      /\ \A g, h \in G : f[g] = f[h] => g = h
  BY <1>1 DEF Injection, IsInjective
<1>4. \A g \in G : f[g] \in d + 1 .. Len(old)
  <2> SUFFICES ASSUME NEW g \in G, f[g] <= d PROVE FALSE
    BY <1>2, <1>3
  <2>1. f[g] \in 1 .. d
    BY <1>2, <1>3
  <2>2. old[f[g]] >= Window
    BY <1>2, <2>1
  <2>3. g.age < Window /\ g.age \in Nat
    BY Numbers DEF Guess
  <2> QED
    BY <1>1, <2>2, <2>3, Numbers
<1> DEFINE e == [g \in G |-> f[g] - d]
<1>5. \A g \in G : e[g] \in 1 .. Len(new) /\ e[g] + d = f[g]
  BY <1>2, <1>4
<1>6. e \in [G -> DOMAIN new]
  BY <1>5
<1>7. \A g, h \in G : e[g] = e[h] => g = h
  BY <1>3, <1>5
<1>8. \A g \in G : new[e[g]] = g.age
  BY <1>1, <1>2, <1>5
<1> HIDE DEF e
<1> QED
  BY <1>6, <1>7, <1>8, LinkMade

LEMMA CountedIsOneMore ==
  ASSUME NEW G \in SUBSET Guess, IsFiniteSet(G), NEW age \in 0 .. Window - 1
  PROVE  \E g \in Guess \ G : /\ g.age = age
                              /\ Counted(G, age) = G \cup {g}
<1> DEFINE new(n) == [age |-> age, copy |-> n]
           c == Cardinality(G)
           New == {new(n) : n \in 1 .. c + 1}
<1>1. c \in Nat
  BY FS_CardinalityType
<1> HIDE DEF c
<1>2. \E n \in 1 .. c + 1 : new(n) \notin G
  <2> SUFFICES ASSUME \A n \in 1 .. c + 1 : new(n) \in G PROVE FALSE
    OBVIOUS
  <2> DEFINE f == [n \in 1 .. c + 1 |-> new(n)]
  <2>1. f \in [1 .. c + 1 -> G]
    OBVIOUS
  <2>2. \A m, n \in 1 .. c + 1 : f[m] = f[n] => m = n
    <3> SUFFICES ASSUME NEW m \in 1 .. c + 1, NEW n \in 1 .. c + 1, f[m] = f[n] PROVE m = n
      OBVIOUS
    <3>1. f[m].copy = m /\ f[n].copy = n
      OBVIOUS
    <3> QED
      BY <3>1
  <2> HIDE DEF f
  <2>3. f \in Injection(1 .. c + 1, G)
    BY <2>1, <2>2 DEF Injection, IsInjective
  <2>4. Cardinality(1 .. c + 1) <= c
    BY <2>3, FS_Injection DEF c
  <2>5. Cardinality(1 .. c + 1) = c + 1
    BY <1>1, FS_Interval
  <2> QED
    BY <1>1, <2>4, <2>5
<1>3. PICK n : n \in 1 .. c + 1 /\ new(n) \notin G /\ Counted(G, age) = G \cup {new(n)}
  BY <1>2 DEF Counted, c
<1>4. new(n) \in Guess /\ new(n).age = age
  BY <1>1, <1>3 DEF Guess
<1> QED
  BY <1>3, <1>4

LEMMA LinkedCounted ==
  ASSUME NEW G \in SUBSET Guess, NEW ages \in Seq(Ages), Linked(G, ages),
         NEW age \in 0 .. Window - 1
  PROVE  /\ Linked(Counted(G, age), Append(ages, age))
         /\ Counted(G, age) \subseteq Guess
         /\ IsFiniteSet(Counted(G, age))
         /\ Cardinality(Counted(G, age)) = Cardinality(G) + 1
<1>1. IsFiniteSet(G)
  BY LinkedBounds
<1>2. PICK x \in Guess \ G : x.age = age /\ Counted(G, age) = G \cup {x}
  BY <1>1, CountedIsOneMore
<1>3. PICK f \in Injection(G, DOMAIN ages) : \A g \in G : ages[f[g]] = g.age
  BY DEF Linked
<1> DEFINE longer == Append(ages, age)
           e == [g \in G \cup {x} |-> IF g = x THEN Len(ages) + 1 ELSE f[g]]
<1>4. /\ f \in [G -> 1 .. Len(ages)]
      /\ \A g, h \in G : f[g] = f[h] => g = h
  BY <1>3 DEF Injection, IsInjective
<1>5. /\ longer \in Seq(Ages) /\ DOMAIN longer = 1 .. Len(ages) + 1
      /\ longer[Len(ages) + 1] = age
      /\ \A i \in 1 .. Len(ages) : longer[i] = ages[i]
  BY Numbers DEF Ages
<1>6. e \in [G \cup {x} -> DOMAIN longer]
  BY <1>4, <1>5
<1>7. \A g, h \in G \cup {x} : e[g] = e[h] => g = h
  BY <1>4
<1>8. \A g \in G \cup {x} : longer[e[g]] = g.age
  BY <1>2, <1>3, <1>4, <1>5
<1> HIDE DEF e, longer
<1>9. Linked(G \cup {x}, longer)
  BY <1>6, <1>7, <1>8, LinkMade
<1>10. IsFiniteSet(G \cup {x}) /\ Cardinality(G \cup {x}) = Cardinality(G) + 1
  BY <1>1, FS_AddElement
<1> QED
  BY <1>2, <1>9, <1>10 DEF longer

LEMMA LinkedOlder ==
  ASSUME NEW G \in SUBSET Guess, NEW ages \in Seq(Ages), Linked(G, ages)
  PROVE  /\ Linked(InWindow(G), [i \in DOMAIN ages |-> Older(ages[i])])
         /\ InWindow(G) \subseteq Guess
         /\ IsFiniteSet(InWindow(G))
         /\ Cardinality(InWindow(G)) <= Cardinality(G)
<1> DEFINE aged == [i \in DOMAIN ages |-> Older(ages[i])]
           Kept == {h \in G : h.age + 1 < Window}
           older(g) == [age |-> g.age + 1, copy |-> g.copy]
           younger(g) == [age |-> g.age - 1, copy |-> g.copy]
<1>1. PICK f \in Injection(G, DOMAIN ages) : \A g \in G : ages[f[g]] = g.age
  BY DEF Linked
<1>2. /\ f \in [G -> DOMAIN ages]
      /\ \A g, h \in G : f[g] = f[h] => g = h
  BY <1>1 DEF Injection, IsInjective
<1>3. \A g \in Kept : /\ older(g) \in Guess /\ younger(older(g)) = g
                      /\ older(g).age = g.age + 1
  BY Numbers DEF Guess
<1>4. InWindow(G) = {older(g) : g \in Kept}
  BY DEF InWindow
<1> HIDE DEF older, younger
<1>5. \A x \in InWindow(G) : younger(x) \in Kept /\ older(younger(x)) = x /\ x.age = younger(x).age + 1
  <2> SUFFICES ASSUME NEW g \in Kept
               PROVE  /\ younger(older(g)) \in Kept /\ older(younger(older(g))) = older(g)
                      /\ older(g).age = younger(older(g)).age + 1
    BY <1>4
  <2> QED
    BY <1>3
<1> DEFINE e == [x \in InWindow(G) |-> f[younger(x)]]
<1>6. DOMAIN aged = DOMAIN ages
  OBVIOUS
<1>7. e \in [InWindow(G) -> DOMAIN aged]
  BY <1>2, <1>5
<1>8. \A x, y \in InWindow(G) : e[x] = e[y] => x = y
  BY <1>2, <1>5
<1>9. \A x \in InWindow(G) : aged[e[x]] = x.age
  <2> SUFFICES ASSUME NEW x \in InWindow(G) PROVE Older(ages[f[younger(x)]]) = x.age
    BY <1>7
  <2>1. younger(x) \in G /\ younger(x).age + 1 < Window /\ younger(x).age \in Nat
    BY <1>5 DEF Guess
  <2> QED
    BY <1>1, <1>5, <2>1, Numbers DEF Older
<1> HIDE DEF e, aged
<1>10. Linked(InWindow(G), aged)
  BY <1>7, <1>8, <1>9, LinkMade
<1>11. InWindow(G) \subseteq Guess
  BY <1>3, <1>4
<1>12. IsFiniteSet(G)
  BY LinkedBounds
<1>13. IsFiniteSet(InWindow(G)) /\ Cardinality(InWindow(G)) <= Cardinality(G)
  <2> DEFINE back == [x \in InWindow(G) |-> younger(x)]
  <2>1. back \in [InWindow(G) -> G]
    BY <1>5
  <2>2. \A x, y \in InWindow(G) : back[x] = back[y] => x = y
    BY <1>5
  <2> HIDE DEF back
  <2>3. back \in Injection(InWindow(G), G)
    BY <2>1, <2>2 DEF Injection, IsInjective
  <2> QED
    BY <1>12, <2>3, FS_Injection
<1> QED
  BY <1>10, <1>11, <1>13 DEF aged

-----------------------------------------------------------------------------
(* The order of the dict.                                                  *)

LEMMA FewerAreOrdered ==
  ASSUME NEW r, NEW K, Orders(r, K), NEW J \in SUBSET K
  PROVE  Orders(r \cap (J \X J), J)
BY DEF Orders

LEMMA OneMoreIsOrdered ==
  ASSUME NEW r, NEW K, Orders(r, K), NEW key, key \notin K
  PROVE  Orders(r \cup (K \X {key}), K \cup {key})
BY DEF Orders

LEMMA LaterOfPair ==
  ASSUME NEW r, NEW K, NEW key, NEW j, NEW k,
         <<j, k>> \in (r \cap (K \X K)) \cup (K \X {key})
  PROVE  j \in K /\ (k = key \/ (k \in K /\ <<j, k>> \in r))
OBVIOUS

(* A finite set of keys that are in order has a first: the one that the    *)
(* most others come after.                                                 *)
LEMMA FirstExists ==
  ASSUME NEW L, Orders(order, L), NEW K \in SUBSET L, IsFiniteSet(K), K # {}
  PROVE  /\ First(K) \in K
         /\ \A j \in K \ {First(K)} : <<First(K), j>> \in order
<1> DEFINE After(k) == {j \in K : <<k, j>> \in order}
           Missed(k) == Cardinality(K) - Cardinality(After(k))
           Counts == {Missed(k) : k \in K}
<1>1. \A k \in K : IsFiniteSet(After(k)) /\ Cardinality(After(k)) \in Nat /\ Missed(k) \in Nat
  <2> SUFFICES ASSUME NEW k \in K
               PROVE  IsFiniteSet(After(k)) /\ Cardinality(After(k)) \in Nat /\ Missed(k) \in Nat
    OBVIOUS
  <2>1. IsFiniteSet(After(k)) /\ Cardinality(After(k)) <= Cardinality(K)
    BY FS_Subset
  <2>2. Cardinality(After(k)) \in Nat /\ Cardinality(K) \in Nat
    BY <2>1, FS_CardinalityType
  <2> QED
    BY <2>1, <2>2
<1>2. PICK n \in Counts : \A m \in Counts : ~(<<m, n>> \in OpToRel(<, Nat))
  <2>1. Counts \subseteq Nat /\ Counts # {}
    BY <1>1
  <2> HIDE DEF Counts
  <2> QED
    BY <2>1, NatLessThanWellFounded, WFMin
<1>3. PICK k \in K : n = Missed(k)
  OBVIOUS
<1>4. \A j \in K \ {k} : <<k, j>> \in order
  <2> SUFFICES ASSUME NEW j \in K \ {k}, <<k, j>> \notin order PROVE FALSE
    OBVIOUS
  <2>1. After(k) \subseteq After(j) /\ k \in After(j) /\ k \notin After(k)
    BY DEF Orders
  <2>2. Cardinality(After(k)) < Cardinality(After(j))
    <3> HIDE DEF After
    <3> QED
      BY <1>1, <2>1, FS_Subset
  <2>3. Cardinality(K) \in Nat
    BY FS_CardinalityType
  <2>4. Missed(j) < Missed(k)
    <3> HIDE DEF After
    <3> QED
      BY <1>1, <2>2, <2>3
  <2>5. <<Missed(j), n>> \in OpToRel(<, Nat)
    BY <1>1, <1>3, <2>4 DEF OpToRel
  <2> QED
    BY <1>2, <2>5
<1> QED
  BY <1>4 DEF First

-----------------------------------------------------------------------------
(* The inductive invariant.                                                *)

KeysKnown == \A w \in Workers : worker[w].pc # "idle" => worker[w].key \in Keys

GuessesFailed == \A k \in Keys : Linked(guesses[k], failures[k])

(* The threads that were let through to a guess at k and have not recorded *)
(* how it went.                                                            *)
Through(k) ==
  {w \in Workers : worker[w].pc \in {"stretch", "success", "failure"} /\ worker[w].key = k}

GuessesCounted ==
  \A k \in Keys :
    Cardinality(guesses[k]) + Cardinality(Through(k)) <= Limit - 1 + Cardinality(Workers)

(* The dict is in the order of the last failures, give or take the lag.    *)
FailedInOrder ==
  \A j, k \in Keys : <<j, k>> \in order => Last(failures[k]) <= Last(failures[j]) + MaxLag

ThrottleInvariant ==
  /\ TypeOK
  /\ IsFiniteSet(Present(failures))
  /\ KeysKnown
  /\ GuessesFailed
  /\ GuessesCounted
  /\ FailedInOrder

LEMMA ThroughCounts ==
  ASSUME NEW k
  PROVE  /\ IsFiniteSet(Through(k)) /\ Cardinality(Through(k)) \in Nat
         /\ Cardinality(Workers) \in Nat /\ Cardinality(Through(k)) <= Cardinality(Workers)
<1>1. Through(k) \subseteq Workers
  BY DEF Through
<1>2. IsFiniteSet(Through(k)) /\ Cardinality(Through(k)) <= Cardinality(Workers)
  BY <1>1, WorkersAssumption, FS_Subset
<1> QED
  BY <1>2, WorkersAssumption, FS_CardinalityType

(* Fewer guesses and fewer threads on the way are within the same bound.   *)
LEMMA FewerAreCounted ==
  ASSUME NEW G, NEW H, NEW T \in SUBSET Workers, NEW S \in SUBSET T,
         Cardinality(G) \in Nat, Cardinality(H) \in Nat, Cardinality(H) <= Cardinality(G),
         Cardinality(G) + Cardinality(T) <= Limit - 1 + Cardinality(Workers)
  PROVE  Cardinality(H) + Cardinality(S) <= Limit - 1 + Cardinality(Workers)
<1>1. IsFiniteSet(T)
  BY WorkersAssumption, FS_Subset
<1>2. IsFiniteSet(S) /\ Cardinality(S) <= Cardinality(T)
  BY <1>1, FS_Subset
<1>3. Cardinality(S) \in Nat /\ Cardinality(T) \in Nat /\ Cardinality(Workers) \in Nat
  BY <1>1, <1>2, WorkersAssumption, FS_CardinalityType
<1> QED
  BY <1>2, <1>3, Numbers

-----------------------------------------------------------------------------
(* Tables that the methods leave: some tallies are cut, some are gone.     *)

Thinned(table) ==
  /\ table \in Tallies
  /\ \A k \in Keys : table[k] = <<>> \/ Cut(failures[k], table[k])

LEMMA ThinnedPresent ==
  ASSUME ThrottleInvariant, NEW table, Thinned(table)
  PROVE  /\ Present(table) \subseteq Present(failures)
         /\ IsFiniteSet(Present(table))
         /\ Cardinality(Present(table)) <= Cardinality(Present(failures))
         /\ Cardinality(Present(table)) \in Nat /\ Cardinality(Present(failures)) \in Nat
         /\ Cardinality(Present(table)) <= MaxEntries
         /\ \A k \in Present(table) : Last(table[k]) = Last(failures[k])
         /\ \A k \in Present(table) : table[k] \in Seq(Ages) /\ Last(table[k]) \in Ages
<1>1. \A k \in Keys : /\ failures[k] \in Seq(Ages) /\ table[k] \in Seq(Ages)
                      /\ table[k] # <<>> => failures[k] # <<>> /\ Last(table[k]) = Last(failures[k])
  BY CutIsSuffix DEF Thinned, Tallies, ThrottleInvariant, TypeOK, Ages
<1>2. Present(table) \subseteq Present(failures)
  BY <1>1 DEF Present
<1>3. /\ IsFiniteSet(Present(table))
      /\ Cardinality(Present(table)) <= Cardinality(Present(failures))
  BY <1>2, FS_Subset DEF ThrottleInvariant
<1>4. Cardinality(Present(table)) \in Nat /\ Cardinality(Present(failures)) \in Nat
  BY <1>3, FS_CardinalityType DEF ThrottleInvariant
<1>5. Cardinality(Present(table)) <= MaxEntries
  BY <1>3, <1>4, Numbers DEF ThrottleInvariant, TypeOK
<1>6. \A k \in Present(table) : Last(table[k]) \in Ages
  <2> SUFFICES ASSUME NEW k \in Present(table) PROVE Last(table[k]) \in Ages
    OBVIOUS
  <2>1. table[k] \in Seq(Ages) /\ table[k] # <<>>
    BY <1>1 DEF Present
  <2>2. Len(table[k]) \in 1 .. Len(table[k])
    BY <2>1
  <2> QED
    BY <2>1, <2>2 DEF Last
<1> QED
  BY <1>1, <1>2, <1>3, <1>4, <1>5, <1>6 DEF Present

LEMMA Pruning ==
  ASSUME failures \in Tallies, NEW K, NEW moment \in Moments
  PROVE  /\ Thinned(Prune(K, moment))
         /\ \A k \in Keys : Cut(failures[k], Prune(K, moment)[k])
         /\ \A k \in K \cap Keys : Prune(K, moment)[k] = DropExpired(failures[k], moment)
<1>1. \A k \in Keys : failures[k] \in Seq(Ages)
  BY DEF Tallies
<1>2. \A k \in Keys : /\ DropExpired(failures[k], moment) \in Seq(Ages)
                      /\ Cut(failures[k], DropExpired(failures[k], moment))
                      /\ Cut(failures[k], failures[k])
  BY <1>1, Dropping, CutNothing
<1>3. \A k \in Keys : /\ Prune(K, moment)[k] \in Seq(Ages)
                      /\ Cut(failures[k], Prune(K, moment)[k])
  BY <1>1, <1>2 DEF Prune
<1>4. Prune(K, moment) \in Tallies
  <2>1. Prune(K, moment) = [k \in Keys |-> Prune(K, moment)[k]]
    BY DEF Prune
  <2> QED
    BY <1>3, <2>1 DEF Tallies
<1> QED
  BY <1>3, <1>4 DEF Thinned, Prune

(* _evict leaves room, and takes at most one tally that was not stale: the *)
(* first of a table all of whose tallies were not.                         *)
LEMMA Evicting ==
  ASSUME ThrottleInvariant, NEW moment \in Moments
  PROVE  LET table == Evict(moment)
             pruned == Prune(Keys, moment)
             left == Present(pruned) IN
         /\ Thinned(table)
         /\ Cardinality(Present(table)) < MaxEntries
         /\ \A k \in Keys : \/ Cut(failures[k], table[k])
                            \/ /\ table[k] = <<>> /\ k = First(left)
                               /\ left = Present(failures)
                               /\ Cardinality(left) = MaxEntries
                               /\ k \in left /\ \A j \in left \ {k} : <<k, j>> \in order
<1> DEFINE pruned == Prune(Keys, moment)
           left == Present(pruned)
           table == Evict(moment)
<1>1. failures \in Tallies /\ Orders(order, Present(failures))
      /\ Cardinality(Present(failures)) <= MaxEntries
      /\ IsFiniteSet(Present(failures))
  BY DEF ThrottleInvariant, TypeOK, Tallies, Ages
<1>2. Thinned(pruned) /\ \A k \in Keys : Cut(failures[k], pruned[k])
  BY <1>1, Pruning
<1>3. Thinned(failures) /\ \A k \in Keys : Cut(failures[k], failures[k])
  BY <1>1, CutNothing DEF Thinned, Tallies
<1> HIDE DEF pruned
<1>4. /\ left \subseteq Present(failures)
      /\ IsFiniteSet(left) /\ Cardinality(left) \in Nat
      /\ Cardinality(left) <= Cardinality(Present(failures))
      /\ Cardinality(Present(failures)) \in Nat
  BY <1>2, ThinnedPresent
<1>5. CASE Cardinality(Present(failures)) < MaxEntries
  <2>1. table = failures
    BY <1>5 DEF Evict
  <2> QED
    BY <1>3, <1>5, <2>1
<1>6. CASE ~(Cardinality(Present(failures)) < MaxEntries) /\ Cardinality(left) < MaxEntries
  <2>1. table = pruned
    BY <1>6 DEF Evict, pruned
  <2> HIDE DEF table
  <2> QED
    BY <1>2, <1>6, <2>1 DEF table, pruned
<1>7. CASE ~(Cardinality(Present(failures)) < MaxEntries) /\ ~(Cardinality(left) < MaxEntries)
  <2>1. table = [k \in Keys |-> IF k = First(left) THEN <<>> ELSE pruned[k]]
    BY <1>7 DEF Evict, pruned
  <2>2. Cardinality(left) = MaxEntries /\ Cardinality(left) = Cardinality(Present(failures))
    BY <1>1, <1>4, <1>7, Numbers
  <2>3. left = Present(failures)
    BY <1>1, <1>4, <2>2, FS_Subset
  <2>4. left # {}
    BY <2>2, Numbers, FS_EmptySet
  <2> HIDE DEF left
  <2>5. First(left) \in left /\ \A j \in left \ {First(left)} : <<First(left), j>> \in order
    BY <1>1, <1>4, <2>3, <2>4, FirstExists
  <2>6. Present(table) = left \ {First(left)}
    BY <2>1 DEF Present, left
  <2>7. Cardinality(Present(table)) < MaxEntries
    BY <1>4, <2>2, <2>5, <2>6, FS_RemoveElement
  <2>8. pruned \in Tallies
    BY <1>2 DEF Thinned
  <2>9. table \in Tallies
    BY <2>1, <2>8 DEF Tallies
  <2>10. \A k \in Keys : (table[k] = <<>> /\ k = First(left)) \/ Cut(failures[k], table[k])
    BY <1>2, <2>1
  <2> HIDE DEF table
  <2>11. Thinned(table)
    BY <2>9, <2>10 DEF Thinned
  <2> QED
    BY <2>2, <2>3, <2>5, <2>7, <2>10, <2>11 DEF table, left, pruned
<1> QED
  BY <1>5, <1>6, <1>7

-----------------------------------------------------------------------------
(* The steps.                                                              *)

Jobs == [pc : {"idle", "check", "stretch", "failure", "success", "refused"},
         key : Keys \cup {NoKey}, right : BOOLEAN, moment : Moments]

LEMMA Jobbing ==
  ASSUME TypeOK
  PROVE  worker \in [Workers -> Jobs]
BY DEF TypeOK, Jobs, Moments

LEMMA Becoming ==
  ASSUME worker \in [Workers -> Jobs], NEW w \in Workers, NEW to, Become(w, to)
  PROVE  worker' = [worker EXCEPT ![w] = [pc |-> to, key |-> worker[w].key,
                                          right |-> worker[w].right, moment |-> 0]]
<1> DEFINE job == [pc |-> to, key |-> worker[w].key, right |-> worker[w].right, moment |-> 0]
           half == [worker[w] EXCEPT !.pc = to]
<1>1. worker' = [worker EXCEPT ![w] = [half EXCEPT !.moment = 0]]
  BY DEF Become
<1>2. half = [pc |-> to, key |-> worker[w].key, right |-> worker[w].right,
              moment |-> worker[w].moment]
  BY DEF Jobs
<1> HIDE DEF half
<1>3. [half EXCEPT !.moment = 0] = job
  BY <1>2
<1> QED
  BY <1>1, <1>3

(* Steps that touch no tally: only what the threads do changes, and none   *)
(* gets through that was not.                                              *)
LEMMA WorkersStep ==
  ASSUME ThrottleInvariant, UNCHANGED <<failures, order, guesses>>,
         worker' \in [Workers -> Jobs], KeysKnown',
         \A k \in Keys : Through(k)' \subseteq Through(k)
  PROVE  ThrottleInvariant'
<1>1. /\ TypeOK' /\ IsFiniteSet(Present(failures')) /\ GuessesFailed' /\ FailedInOrder'
  BY DEF ThrottleInvariant, TypeOK, GuessesFailed, FailedInOrder, Jobs, Moments
<1>2. GuessesCounted'
  <2> SUFFICES ASSUME NEW k \in Keys
               PROVE  Cardinality(guesses[k]) + Cardinality(Through(k)')
                        <= Limit - 1 + Cardinality(Workers)
    BY DEF GuessesCounted
  <2>1. Cardinality(guesses[k]) \in Nat /\ Cardinality(guesses[k]) <= Cardinality(guesses[k])
    <3>1. IsFiniteSet(guesses[k])
      BY DEF ThrottleInvariant, TypeOK
    <3>2. Cardinality(guesses[k]) \in Nat
      BY <3>1, FS_CardinalityType
    <3> QED
      BY <3>2
  <2>2. Cardinality(guesses[k]) + Cardinality(Through(k)) <= Limit - 1 + Cardinality(Workers)
    BY DEF ThrottleInvariant, GuessesCounted
  <2>3. Through(k) \in SUBSET Workers /\ Through(k)' \in SUBSET Through(k)
    BY DEF Through
  <2> QED
    BY <2>1, <2>2, <2>3, FewerAreCounted
<1> QED
  BY <1>1, <1>2 DEF ThrottleInvariant

LEMMA AttemptStep ==
  ASSUME ThrottleInvariant, NEW w \in Workers, Attempt(w) \/ Stretch(w) \/ Refused(w)
  PROVE  ThrottleInvariant'
<1>1. worker \in [Workers -> Jobs] /\ KeysKnown
  BY Jobbing DEF ThrottleInvariant
<1>2. PICK job \in Jobs :
        /\ worker' = [worker EXCEPT ![w] = job]
        /\ job.pc # "idle" => job.key \in Keys
        /\ job.pc \in {"stretch", "success", "failure"} =>
             worker[w].pc = "stretch" /\ worker[w].key = job.key
  <2>1. 0 \in Moments
    BY Numbers DEF Moments
  <2>2. CASE Attempt(w)
    <3>1. PICK k \in Keys, right \in BOOLEAN :
            worker' = [worker EXCEPT ![w] = [pc |-> "check", key |-> k, right |-> right, moment |-> 0]]
      BY <2>2 DEF Attempt
    <3>2. [pc |-> "check", key |-> k, right |-> right, moment |-> 0] \in Jobs
      BY <2>1 DEF Jobs
    <3> QED
      BY <3>1, <3>2
  <2>3. CASE Stretch(w)
    <3> DEFINE to == IF worker[w].right THEN "success" ELSE "failure"
               job == [pc |-> to, key |-> worker[w].key, right |-> worker[w].right, moment |-> 0]
    <3>1. worker[w] \in Jobs /\ worker[w].pc = "stretch"
      BY <1>1, <2>3 DEF Stretch, At
    <3>2. worker' = [worker EXCEPT ![w] = job]
      BY <1>1, <2>3, Becoming DEF Stretch
    <3>3. job \in Jobs /\ job.key \in Keys
      BY <1>1, <2>1, <3>1 DEF Jobs, KeysKnown
    <3> QED
      BY <3>1, <3>2, <3>3
  <2>4. CASE Refused(w)
    <3>1. Idle \in Jobs
      BY <2>1 DEF Idle, Jobs
    <3>2. worker' = [worker EXCEPT ![w] = Idle]
      BY <2>4 DEF Refused, Finish
    <3> QED
      BY <3>1, <3>2 DEF Idle
  <2> QED
    BY <2>2, <2>3, <2>4
<1>3. worker' \in [Workers -> Jobs] /\ KeysKnown'
  BY <1>1, <1>2 DEF KeysKnown
<1>4. \A k \in Keys : Through(k)' \subseteq Through(k)
  BY <1>1, <1>2 DEF Through
<1>5. UNCHANGED <<failures, order, guesses>>
  BY DEF Attempt, Stretch, Refused
<1> QED
  BY <1>3, <1>4, <1>5, WorkersStep

(* A check that passes finds fewer failures than the limit, and so at most *)
(* as many guesses in the window.                                          *)
LEMMA CheckStep ==
  ASSUME ThrottleInvariant, NEW w \in Workers, Check(w)
  PROVE  ThrottleInvariant'
<1> DEFINE key == worker[w].key
           pruned == Prune({key}, worker[w].moment)
           to == IF Refuses(pruned[key]) THEN "refused" ELSE "stretch"
           job == [pc |-> to, key |-> key, right |-> worker[w].right, moment |-> 0]
<1>1. /\ worker \in [Workers -> Jobs] /\ KeysKnown
      /\ failures \in Tallies /\ Orders(order, Present(failures))
      /\ GuessesFailed /\ GuessesCounted /\ FailedInOrder
      /\ \A k \in Keys : guesses[k] \subseteq Guess /\ IsFiniteSet(guesses[k])
  BY Jobbing DEF ThrottleInvariant, TypeOK, Tallies, Ages
<1>2. worker[w] \in Jobs /\ worker[w].pc = "check" /\ key \in Keys /\ worker[w].moment \in Moments
  BY <1>1 DEF Check, At, KeysKnown, Jobs
<1>3. /\ failures' = pruned /\ guesses' = guesses
      /\ order' = Among(Present(pruned))
      /\ worker' = [worker EXCEPT ![w] = job]
  BY <1>1, Becoming DEF Check
<1>4. Thinned(pruned) /\ \A k \in Keys : Cut(failures[k], pruned[k])
  BY <1>1, <1>2, Pruning
<1> HIDE DEF pruned
<1>5. /\ Present(pruned) \subseteq Present(failures)
      /\ IsFiniteSet(Present(pruned))
      /\ Cardinality(Present(pruned)) <= MaxEntries
      /\ \A k \in Present(pruned) : Last(pruned[k]) = Last(failures[k])
  BY <1>4, ThinnedPresent
<1>6. Orders(order', Present(failures'))
  BY <1>1, <1>3, <1>5, FewerAreOrdered DEF Among
<1>7. FailedInOrder'
  <2> SUFFICES ASSUME NEW j \in Keys, NEW k \in Keys, <<j, k>> \in order'
               PROVE  Last(failures'[k]) <= Last(failures'[j]) + MaxLag
    BY DEF FailedInOrder
  <2>1. <<j, k>> \in order /\ j \in Present(pruned) /\ k \in Present(pruned)
    BY <1>3 DEF Among
  <2> QED
    BY <1>1, <1>3, <1>5, <2>1 DEF FailedInOrder
<1>8. \A k \in Keys : Linked(guesses[k], pruned[k])
  <2> SUFFICES ASSUME NEW k \in Keys PROVE Linked(guesses[k], pruned[k])
    OBVIOUS
  <2>1. failures[k] \in Seq(Ages) /\ pruned[k] \in Seq(Ages) /\ Linked(guesses[k], failures[k])
    BY <1>1, <1>4 DEF Thinned, Tallies, GuessesFailed
  <2> QED
    BY <1>1, <1>4, <2>1, LinkedCut
<1>9. worker' \in [Workers -> Jobs]
  <2>1. job \in Jobs
    BY <1>2, Numbers DEF Jobs, Moments
  <2> QED
    BY <1>1, <1>3, <2>1
<1>10. KeysKnown'
  BY <1>1, <1>2, <1>3 DEF KeysKnown
<1>11. GuessesCounted'
  <2> SUFFICES ASSUME NEW k \in Keys
               PROVE  Cardinality(guesses[k]) + Cardinality(Through(k)')
                        <= Limit - 1 + Cardinality(Workers)
    BY <1>3 DEF GuessesCounted
  <2>1. Cardinality(guesses[k]) \in Nat /\ Cardinality(guesses[k]) <= Cardinality(guesses[k])
    <3>1. Cardinality(guesses[k]) \in Nat
      BY <1>1, FS_CardinalityType
    <3> QED
      BY <3>1
  <2>2. CASE k = key /\ ~Refuses(pruned[key])
    <3>1. pruned[k] \in Seq(Ages) /\ Len(pruned[k]) < Limit /\ Len(pruned[k]) \in Nat
      BY <1>4, <2>2, Numbers DEF Refuses, Thinned, Tallies
    <3>2. Cardinality(guesses[k]) <= Len(pruned[k])
      BY <1>8, <3>1, LinkedBounds
    <3>3. /\ Cardinality(Through(k)') \in Nat /\ Cardinality(Workers) \in Nat
          /\ Cardinality(Through(k)') <= Cardinality(Workers)
      <4>1. Through(k)' \subseteq Workers
        BY DEF Through
      <4> QED
        BY <4>1, WorkersAssumption, FS_Subset, FS_CardinalityType
    <3> QED
      BY <2>1, <3>1, <3>2, <3>3, Numbers
  <2>3. CASE k # key \/ Refuses(pruned[key])
    <3>1. Through(k)' \in SUBSET Through(k)
      BY <1>1, <1>2, <1>3, <2>3 DEF Through
    <3>2. Cardinality(guesses[k]) + Cardinality(Through(k)) <= Limit - 1 + Cardinality(Workers)
      BY <1>1 DEF GuessesCounted
    <3>3. Through(k) \in SUBSET Workers
      BY DEF Through
    <3> QED
      BY <2>1, <3>1, <3>2, <3>3, FewerAreCounted
  <2> QED
    BY <2>2, <2>3
<1>12. TypeOK'
  <2>1. guesses' \in [Keys -> SUBSET Guess] /\ \A k \in Keys : IsFiniteSet(guesses'[k])
    BY <1>1, <1>3 DEF ThrottleInvariant, TypeOK
  <2> QED
    BY <1>3, <1>4, <1>5, <1>6, <1>9, <2>1 DEF TypeOK, Thinned, Tallies, Ages, Jobs, Moments
<1> QED
  BY <1>3, <1>5, <1>7, <1>8, <1>10, <1>11, <1>12 DEF ThrottleInvariant, GuessesFailed

(* A failure counts at the end of its tally and of the dict, in a table    *)
(* that has room for it.                                                   *)
LEMMA RecordFailureStep ==
  ASSUME ThrottleInvariant, NEW w \in Workers, RecordFailure(w)
  PROVE  ThrottleInvariant'
<1> DEFINE key == worker[w].key
           moment == worker[w].moment
           table == IF failures[key] = <<>> THEN Evict(moment) ELSE failures
           kept == DropExpired(table[key], moment)
           others == Present(table) \ {key}
<1>1. /\ worker \in [Workers -> Jobs] /\ KeysKnown
      /\ failures \in Tallies /\ Orders(order, Present(failures))
      /\ GuessesFailed /\ GuessesCounted /\ FailedInOrder
      /\ \A k \in Keys : guesses[k] \subseteq Guess /\ IsFiniteSet(guesses[k])
  BY Jobbing DEF ThrottleInvariant, TypeOK, Tallies, Ages
<1>2. /\ worker[w].pc = "failure" /\ key \in Keys
      /\ moment \in Moments /\ moment \in 0 .. Window - 1 /\ moment \in Ages
  <2>1. worker[w].pc = "failure" /\ key \in Keys /\ moment \in Moments
    BY <1>1 DEF RecordFailure, At, KeysKnown, Jobs
  <2> QED
    BY <2>1, Numbers DEF Moments, Ages
<1>3. /\ failures' = [table EXCEPT ![key] = Append(DropExpired(@, moment), moment)]
      /\ order' = Requeue(Present(table), key)
      /\ guesses' = [k \in Keys |-> IF k = key THEN Counted(guesses[k], moment)
                                    ELSE IF table[k] = <<>> THEN {} ELSE guesses[k]]
      /\ worker' = [worker EXCEPT ![w] = Idle]
  BY DEF RecordFailure, Finish
<1>4. /\ Thinned(table)
      /\ key \in Present(table) \/ Cardinality(Present(table)) < MaxEntries
      /\ Cut(failures[key], table[key])
  <2>1. CASE failures[key] = <<>>
    <3> DEFINE made == Evict(moment)
    <3>1. table = made
      BY <2>1
    <3>2. /\ Thinned(made)
          /\ Cardinality(Present(made)) < MaxEntries
          /\ Cut(failures[key], made[key]) \/ key \in Present(failures)
      BY <1>2, Evicting
    <3>3. key \notin Present(failures)
      BY <2>1 DEF Present
    <3> HIDE DEF made
    <3> QED
      BY <3>1, <3>2, <3>3
  <2>2. CASE failures[key] # <<>>
    <3>1. table = failures
      BY <2>2
    <3>2. Thinned(failures) /\ Cut(failures[key], failures[key]) /\ key \in Present(failures)
      BY <1>1, <1>2, <2>2, CutNothing DEF Thinned, Tallies, Present
    <3> QED
      BY <3>1, <3>2
  <2> QED
    BY <2>1, <2>2
<1> HIDE DEF table
<1>5. /\ Present(table) \subseteq Present(failures)
      /\ IsFiniteSet(Present(table)) /\ Cardinality(Present(table)) \in Nat
      /\ Cardinality(Present(table)) <= MaxEntries
      /\ \A k \in Present(table) : Last(table[k]) = Last(failures[k]) /\ Last(table[k]) \in Ages
      /\ \A k \in Keys : table[k] \in Seq(Ages)
  BY <1>4, ThinnedPresent DEF Thinned, Tallies
<1>6. kept \in Seq(Ages) /\ Cut(table[key], kept)
  BY <1>2, <1>5, Dropping
<1>7. /\ failures' \in Tallies
      /\ failures'[key] = Append(kept, moment)
      /\ \A k \in Keys \ {key} : failures'[k] = table[k]
  BY <1>2, <1>3, <1>4, <1>6 DEF Thinned, Tallies
<1> HIDE DEF kept
<1>8. /\ failures'[key] # <<>> /\ Last(failures'[key]) = moment
  BY <1>2, <1>6, <1>7 DEF Last
<1>9. Present(failures') = others \cup {key}
  BY <1>2, <1>7, <1>8 DEF Present
<1>10. /\ IsFiniteSet(Present(failures'))
       /\ Cardinality(Present(failures')) <= MaxEntries
  <2>1. IsFiniteSet(others)
    BY <1>5, FS_RemoveElement
  <2>2. /\ IsFiniteSet(others \cup {key})
        /\ Cardinality(others \cup {key}) = Cardinality(others) + 1
    BY <2>1, FS_AddElement
  <2>3. Cardinality(others) < MaxEntries /\ Cardinality(others) \in Nat
    <3>1. CASE key \in Present(table)
      BY <1>5, <2>1, <3>1, FS_RemoveElement, FS_CardinalityType, Numbers
    <3>2. CASE key \notin Present(table)
      <4>1. others = Present(table)
        BY <3>2
      <4> QED
        BY <1>4, <1>5, <3>2, <4>1
    <3> QED
      BY <3>1, <3>2
  <2> QED
    BY <1>9, <2>2, <2>3, Numbers
<1>11. Orders(order', Present(failures'))
  <2>1. Orders(order \cap (others \X others), others)
    BY <1>1, <1>5, FewerAreOrdered
  <2>2. Orders((order \cap (others \X others)) \cup (others \X {key}), others \cup {key})
    BY <2>1, OneMoreIsOrdered
  <2> QED
    BY <1>3, <1>9, <2>2 DEF Requeue, Among
<1>12. FailedInOrder'
  <2> SUFFICES ASSUME NEW j \in Keys, NEW k \in Keys, <<j, k>> \in order'
               PROVE  Last(failures'[k]) <= Last(failures'[j]) + MaxLag
    BY DEF FailedInOrder
  <2>1. j \in others /\ (k = key \/ (k \in others /\ <<j, k>> \in order))
    <3>1. order' = (order \cap (others \X others)) \cup (others \X {key})
      BY <1>3 DEF Requeue, Among
    <3> QED
      BY <3>1, LaterOfPair
  <2>2. Last(failures'[j]) = Last(failures[j]) /\ Last(failures'[j]) \in Nat
    BY <1>5, <1>7, <2>1, Numbers DEF Ages, Present
  <2>3. CASE k = key
    BY <1>2, <1>8, <2>2, <2>3, Numbers DEF Moments
  <2>4. CASE k \in others /\ <<j, k>> \in order
    <3>1. Last(failures'[k]) = Last(failures[k])
      BY <1>5, <1>7, <2>4
    <3> QED
      BY <1>1, <2>2, <2>4, <3>1 DEF FailedInOrder
  <2> QED
    BY <2>1, <2>3, <2>4
<1>13. \A k \in Keys : failures[k] \in Seq(Ages) /\ Linked(guesses[k], failures[k])
  BY <1>1 DEF Tallies, GuessesFailed
<1>14. /\ Linked(guesses'[key], failures'[key])
       /\ guesses'[key] \subseteq Guess /\ IsFiniteSet(guesses'[key])
       /\ Cardinality(guesses'[key]) = Cardinality(guesses[key]) + 1
  <2>1. guesses[key] \in SUBSET Guess /\ guesses'[key] = Counted(guesses[key], moment)
    BY <1>1, <1>2, <1>3
  <2>2. Linked(guesses[key], table[key])
    BY <1>2, <1>4, <1>5, <1>13, <2>1, LinkedCut
  <2>3. Linked(guesses[key], kept)
    BY <1>2, <1>5, <1>6, <2>1, <2>2, LinkedCut
  <2> QED
    BY <1>2, <1>6, <1>7, <2>1, <2>3, LinkedCounted
<1>15. \A k \in Keys \ {key} :
         /\ Linked(guesses'[k], failures'[k])
         /\ guesses'[k] = guesses[k] \/ guesses'[k] = {}
  <2> SUFFICES ASSUME NEW k \in Keys \ {key}
               PROVE  /\ Linked(guesses'[k], failures'[k])
                      /\ guesses'[k] = guesses[k] \/ guesses'[k] = {}
    OBVIOUS
  <2>1. failures'[k] = table[k] /\ table[k] \in Seq(Ages)
    BY <1>5, <1>7
  <2>2. CASE table[k] = <<>>
    <3>1. guesses'[k] = {}
      BY <1>3, <2>2
    <3>2. [g \in {} |-> 1] \in [{} -> DOMAIN table[k]]
      OBVIOUS
    <3>3. Linked({}, table[k])
      BY <3>2, LinkMade
    <3> QED
      BY <2>1, <3>1, <3>3
  <2>3. CASE table[k] # <<>>
    <3>1. guesses'[k] = guesses[k]
      BY <1>3, <2>3
    <3>2. guesses[k] \in SUBSET Guess /\ Cut(failures[k], table[k])
      BY <1>1, <1>4, <2>3 DEF Thinned
    <3>3. Linked(guesses[k], table[k])
      BY <1>13, <2>1, <3>2, LinkedCut
    <3> QED
      BY <2>1, <3>1, <3>3
  <2> QED
    BY <2>2, <2>3
<1>16. worker' \in [Workers -> Jobs] /\ KeysKnown'
  BY <1>1, <1>3, Numbers DEF KeysKnown, Idle, Jobs, Moments
<1>17. GuessesCounted'
  <2> SUFFICES ASSUME NEW k \in Keys
               PROVE  Cardinality(guesses'[k]) + Cardinality(Through(k)')
                        <= Limit - 1 + Cardinality(Workers)
    BY DEF GuessesCounted
  <2>1. Cardinality(guesses[k]) \in Nat
    BY <1>1, FS_CardinalityType
  <2>2. Cardinality(guesses[k]) + Cardinality(Through(k)) <= Limit - 1 + Cardinality(Workers)
    BY <1>1 DEF GuessesCounted
  <2>3. CASE k = key
    <3>1. Through(k)' = Through(k) \ {w} /\ w \in Through(k)
      BY <1>1, <1>2, <1>3, <2>3 DEF Through, Idle
    <3>2. IsFiniteSet(Through(k)) /\ Cardinality(Through(k)) \in Nat /\ Cardinality(Workers) \in Nat
      BY ThroughCounts
    <3>3. Cardinality(Through(k)') = Cardinality(Through(k)) - 1
      BY <3>1, <3>2, FS_RemoveElement
    <3> QED
      BY <1>14, <2>1, <2>2, <2>3, <3>2, <3>3, Numbers
  <2>4. CASE k # key
    <3>1. Through(k)' \in SUBSET Through(k)
      BY <1>1, <1>2, <1>3, <2>4 DEF Through, Idle
    <3>2. Cardinality(guesses'[k]) \in Nat /\ Cardinality(guesses'[k]) <= Cardinality(guesses[k])
      <4>1. guesses'[k] = guesses[k] \/ guesses'[k] = {}
        BY <1>15, <2>4
      <4>2. Cardinality({}) = 0
        BY FS_EmptySet
      <4> QED
        BY <2>1, <4>1, <4>2
    <3>3. Through(k) \in SUBSET Workers
      BY DEF Through
    <3> QED
      BY <2>1, <2>2, <3>1, <3>2, <3>3, FewerAreCounted
  <2> QED
    BY <2>3, <2>4
<1>18. guesses' \in [Keys -> SUBSET Guess] /\ \A k \in Keys : IsFiniteSet(guesses'[k])
  <2>1. \A k \in Keys : guesses'[k] \in SUBSET Guess /\ IsFiniteSet(guesses'[k])
    BY <1>1, <1>14, <1>15, FS_EmptySet
  <2>2. guesses' = [k \in Keys |-> guesses'[k]]
    BY <1>3
  <2> QED
    BY <2>1, <2>2
<1>19. TypeOK'
  BY <1>7, <1>10, <1>11, <1>16, <1>18 DEF TypeOK, Tallies, Ages, Jobs, Moments
<1> QED
  BY <1>10, <1>12, <1>14, <1>15, <1>16, <1>17, <1>19 DEF ThrottleInvariant, GuessesFailed

LEMMA RecordSuccessStep ==
  ASSUME ThrottleInvariant, NEW w \in Workers, RecordSuccess(w)
  PROVE  ThrottleInvariant'
<1> DEFINE key == worker[w].key
<1>1. /\ worker \in [Workers -> Jobs] /\ KeysKnown
      /\ failures \in Tallies /\ Orders(order, Present(failures))
      /\ GuessesFailed /\ GuessesCounted /\ FailedInOrder
      /\ \A k \in Keys : guesses[k] \subseteq Guess /\ IsFiniteSet(guesses[k])
      /\ guesses = [k \in Keys |-> guesses[k]]
  BY Jobbing DEF ThrottleInvariant, TypeOK, Tallies, Ages
<1>2. key \in Keys
  BY <1>1 DEF RecordSuccess, At, KeysKnown
<1>3. /\ failures' = [failures EXCEPT ![key] = <<>>]
      /\ order' = Among(Keys \ {key})
      /\ guesses' = [guesses EXCEPT ![key] = {}]
      /\ worker' = [worker EXCEPT ![w] = Idle]
  BY DEF RecordSuccess, Finish
<1>4. Thinned(failures') /\ \A k \in Keys \ {key} : failures'[k] = failures[k]
  BY <1>1, <1>2, <1>3, CutNothing DEF Thinned, Tallies
<1>5. /\ Present(failures') = Present(failures) \ {key}
      /\ IsFiniteSet(Present(failures'))
      /\ Cardinality(Present(failures')) <= MaxEntries
  BY <1>1, <1>2, <1>3, <1>4, ThinnedPresent DEF Present, Tallies
<1>6. Orders(order', Present(failures'))
  <2> DEFINE others == Present(failures) \ {key}
  <2>1. Orders(order \cap (others \X others), others)
    BY <1>1, FewerAreOrdered
  <2>2. order' = order \cap (others \X others)
    BY <1>1, <1>3 DEF Among, Orders, Present
  <2> QED
    BY <1>5, <2>1, <2>2
<1>7. FailedInOrder'
  <2> SUFFICES ASSUME NEW j \in Keys, NEW k \in Keys, <<j, k>> \in order'
               PROVE  Last(failures'[k]) <= Last(failures'[j]) + MaxLag
    BY DEF FailedInOrder
  <2>1. <<j, k>> \in order /\ j # key /\ k # key
    <3> HIDE DEF key
    <3> QED
      BY <1>3 DEF Among
  <2> QED
    BY <1>1, <1>4, <2>1 DEF FailedInOrder
<1>8. \A k \in Keys : /\ Linked(guesses'[k], failures'[k])
                      /\ guesses'[k] = guesses[k] \/ guesses'[k] = {}
  <2>1. Linked({}, <<>>)
    <3>1. [g \in {} |-> 1] \in [{} -> DOMAIN <<>>]
      OBVIOUS
    <3> QED
      BY <3>1, LinkMade
  <2>2. guesses'[key] = {} /\ failures'[key] = <<>>
    BY <1>1, <1>2, <1>3 DEF Tallies
  <2>3. \A k \in Keys \ {key} : guesses'[k] = guesses[k] /\ failures'[k] = failures[k]
    BY <1>1, <1>3, <1>4
  <2>4. \A k \in Keys : Linked(guesses[k], failures[k])
    BY <1>1 DEF GuessesFailed
  <2> QED
    BY <2>1, <2>2, <2>3, <2>4
<1>9. worker' \in [Workers -> Jobs] /\ KeysKnown'
  BY <1>1, <1>3, Numbers DEF KeysKnown, Idle, Jobs, Moments
<1>10. GuessesCounted'
  <2> SUFFICES ASSUME NEW k \in Keys
               PROVE  Cardinality(guesses'[k]) + Cardinality(Through(k)')
                        <= Limit - 1 + Cardinality(Workers)
    BY DEF GuessesCounted
  <2>1. Cardinality(guesses[k]) \in Nat
    BY <1>1, FS_CardinalityType
  <2>2. Cardinality(guesses[k]) + Cardinality(Through(k)) <= Limit - 1 + Cardinality(Workers)
    BY <1>1 DEF GuessesCounted
  <2>3. Through(k)' \in SUBSET Through(k)
    BY <1>1, <1>3 DEF Through, Idle
  <2>4. Cardinality(guesses'[k]) \in Nat /\ Cardinality(guesses'[k]) <= Cardinality(guesses[k])
    <3>1. guesses'[k] = guesses[k] \/ guesses'[k] = {}
      BY <1>8
    <3>2. Cardinality({}) = 0
      BY FS_EmptySet
    <3> QED
      BY <2>1, <3>1, <3>2
  <2>5. Through(k) \in SUBSET Workers
    BY DEF Through
  <2> QED
    BY <2>1, <2>2, <2>3, <2>4, <2>5, FewerAreCounted
<1>11. guesses' \in [Keys -> SUBSET Guess] /\ \A k \in Keys : IsFiniteSet(guesses'[k])
  BY <1>1, <1>3, <1>8, FS_EmptySet
<1>12. TypeOK'
  BY <1>4, <1>5, <1>6, <1>9, <1>11 DEF TypeOK, Thinned, Tallies, Ages, Jobs, Moments
<1> QED
  BY <1>5, <1>7, <1>8, <1>9, <1>10, <1>12 DEF ThrottleInvariant, GuessesFailed

(* A tick makes everything older by as much, and takes guesses out of the  *)
(* window.                                                                 *)
LEMMA TickStep ==
  ASSUME ThrottleInvariant, Tick
  PROVE  ThrottleInvariant'
<1> DEFINE older(ages) == [i \in DOMAIN ages |-> Older(ages[i])]
<1>1. /\ worker \in [Workers -> Jobs] /\ KeysKnown
      /\ failures \in Tallies /\ Orders(order, Present(failures))
      /\ GuessesFailed /\ GuessesCounted /\ FailedInOrder
      /\ \A k \in Keys : guesses[k] \subseteq Guess /\ IsFiniteSet(guesses[k])
  BY Jobbing DEF ThrottleInvariant, TypeOK, Tallies, Ages
<1>2. /\ failures' = [k \in Keys |-> older(failures[k])]
      /\ guesses' = [k \in Keys |-> InWindow(guesses[k])]
      /\ order' = order
  BY DEF Tick
<1>3. ASSUME NEW age \in Ages PROVE Older(age) \in Ages
  BY Numbers DEF Older, Ages
<1>4. ASSUME NEW ages \in Seq(Ages)
      PROVE  /\ older(ages) \in Seq(Ages) /\ Len(older(ages)) = Len(ages)
             /\ older(ages) = <<>> <=> ages = <<>>
             /\ ages # <<>> => Last(ages) \in Ages /\ Last(older(ages)) = Older(Last(ages))
  <2>1. Len(ages) \in Nat /\ DOMAIN ages = 1 .. Len(ages) /\ \A i \in 1 .. Len(ages) : ages[i] \in Ages
    OBVIOUS
  <2>2. older(ages) \in [1 .. Len(ages) -> Ages]
    BY <1>3, <2>1
  <2>3. older(ages) \in Seq(Ages) /\ Len(older(ages)) = Len(ages)
    BY <2>1, <2>2
  <2>4. older(ages) = <<>> <=> ages = <<>>
    BY <2>3
  <2>5. ASSUME ages # <<>> PROVE Last(ages) \in Ages /\ Last(older(ages)) = Older(Last(ages))
    <3>1. Len(ages) \in 1 .. Len(ages)
      BY <2>5
    <3> QED
      BY <2>1, <2>3, <3>1 DEF Last
  <2> QED
    BY <2>3, <2>4, <2>5
<1> HIDE DEF older
<1>5. /\ failures' \in Tallies
      /\ Present(failures') = Present(failures)
      /\ \A k \in Keys : failures'[k] = older(failures[k]) /\ guesses'[k] = InWindow(guesses[k])
      /\ \A k \in Keys : failures[k] \in Seq(Ages)
  BY <1>1, <1>2, <1>4 DEF Tallies, Present
<1>6. FailedInOrder'
  <2> SUFFICES ASSUME NEW j \in Keys, NEW k \in Keys, <<j, k>> \in order
               PROVE  Last(failures'[k]) <= Last(failures'[j]) + MaxLag
    BY <1>2 DEF FailedInOrder
  <2>1. Last(failures[k]) <= Last(failures[j]) + MaxLag
    BY <1>1 DEF FailedInOrder
  <2>2. j \in Present(failures) /\ k \in Present(failures)
    BY <1>1 DEF Orders
  <2>3. /\ Last(failures[j]) \in Ages /\ Last(failures'[j]) = Older(Last(failures[j]))
        /\ Last(failures[k]) \in Ages /\ Last(failures'[k]) = Older(Last(failures[k]))
    BY <1>4, <1>5, <2>2 DEF Present
  <2> QED
    BY <2>1, <2>3, Numbers DEF Older, Ages
<1>7. ASSUME NEW k \in Keys
      PROVE  /\ Linked(guesses'[k], failures'[k])
             /\ guesses'[k] \subseteq Guess /\ IsFiniteSet(guesses'[k])
             /\ Cardinality(guesses'[k]) <= Cardinality(guesses[k])
  <2>1. guesses[k] \in SUBSET Guess /\ Linked(guesses[k], failures[k]) /\ failures[k] \in Seq(Ages)
    BY <1>1, <1>5 DEF GuessesFailed
  <2> QED
    BY <1>5, <2>1, LinkedOlder DEF older
<1>8. /\ worker' \in [Workers -> Jobs]
      /\ \A w \in Workers : worker'[w].pc = worker[w].pc /\ worker'[w].key = worker[w].key
  <2> DEFINE job(w) == IF worker[w].pc \in {"check", "failure"}
                       THEN [worker[w] EXCEPT !.moment = @ + 1] ELSE worker[w]
  <2>1. worker' = [w \in Workers |-> job(w)]
    BY DEF Tick
  <2>2. ASSUME NEW w \in Workers
        PROVE  job(w) \in Jobs /\ job(w).pc = worker[w].pc /\ job(w).key = worker[w].key
    <3>1. worker[w] \in Jobs
      BY <1>1
    <3>2. CASE worker[w].pc \in {"check", "failure"}
      <4>1. worker[w].moment + 1 \in Moments
        BY <3>1, <3>2, Numbers DEF Tick, Moments, Jobs
      <4>2. job(w) = [pc |-> worker[w].pc, key |-> worker[w].key, right |-> worker[w].right,
                      moment |-> worker[w].moment + 1]
        BY <3>1, <3>2 DEF Jobs
      <4> HIDE DEF job
      <4> QED
        BY <3>1, <4>1, <4>2 DEF Jobs
    <3>3. CASE worker[w].pc \notin {"check", "failure"}
      BY <3>1, <3>3
    <3> QED
      BY <3>2, <3>3
  <2> HIDE DEF job
  <2> QED
    BY <2>1, <2>2
<1>9. KeysKnown'
  BY <1>1, <1>8 DEF KeysKnown
<1>10. GuessesCounted'
  <2> SUFFICES ASSUME NEW k \in Keys
               PROVE  Cardinality(guesses'[k]) + Cardinality(Through(k)')
                        <= Limit - 1 + Cardinality(Workers)
    BY DEF GuessesCounted
  <2>1. Cardinality(guesses[k]) \in Nat /\ Cardinality(guesses'[k]) \in Nat
    BY <1>1, <1>7, FS_CardinalityType
  <2>2. Cardinality(guesses[k]) + Cardinality(Through(k)) <= Limit - 1 + Cardinality(Workers)
    BY <1>1 DEF GuessesCounted
  <2>3. Through(k) \in SUBSET Workers /\ Through(k)' \in SUBSET Through(k)
    BY <1>8 DEF Through
  <2> QED
    BY <1>7, <2>1, <2>2, <2>3, FewerAreCounted
<1>11. guesses' \in [Keys -> SUBSET Guess]
  BY <1>2, <1>5, <1>7
<1>12. TypeOK' /\ IsFiniteSet(Present(failures'))
  BY <1>1, <1>2, <1>5, <1>7, <1>8, <1>11 DEF ThrottleInvariant, TypeOK, Tallies, Ages, Jobs, Moments
<1> QED
  BY <1>6, <1>7, <1>9, <1>10, <1>12 DEF ThrottleInvariant, GuessesFailed

(* At the start, and after a restart, everyone is forgiven.                *)
Forgiven ==
  /\ failures = [k \in Keys |-> <<>>] /\ order = {}
  /\ worker = [w \in Workers |-> Idle] /\ guesses = [k \in Keys |-> {}]

LEMMA ForgivenIsFine == Forgiven => ThrottleInvariant
<1> SUFFICES ASSUME Forgiven PROVE ThrottleInvariant
  OBVIOUS
<1> USE DEF Forgiven
<1>1. Present(failures) = {} /\ IsFiniteSet({}) /\ Cardinality({}) = 0
  BY FS_EmptySet DEF Present
<1>2. Idle \in Jobs
  BY Numbers DEF Idle, Jobs, Moments
<1>3. TypeOK
  <2>1. worker \in [Workers -> Jobs] /\ failures \in [Keys -> Seq(0 .. Oldest)]
    BY <1>2
  <2>2. Orders(order, Present(failures)) /\ Cardinality(Present(failures)) <= MaxEntries
    <3>1. Orders({}, {})
      BY DEF Orders
    <3>2. 0 <= MaxEntries
      BY Numbers
    <3> QED
      BY <1>1, <3>1, <3>2
  <2>3. guesses \in [Keys -> SUBSET Guess] /\ \A k \in Keys : IsFiniteSet(guesses[k])
    BY <1>1
  <2> QED
    BY <2>1, <2>2, <2>3 DEF TypeOK, Jobs, Moments
<1>4. KeysKnown /\ FailedInOrder
  BY DEF KeysKnown, Idle, FailedInOrder
<1>5. GuessesFailed
  <2>1. [g \in {} |-> 1] \in [{} -> DOMAIN <<>>]
    OBVIOUS
  <2>2. Linked({}, <<>>)
    BY <2>1, LinkMade
  <2> QED
    BY <2>2 DEF GuessesFailed
<1>6. GuessesCounted
  <2>1. \A k \in Keys : Through(k) = {}
    BY DEF Through, Idle
  <2>2. Cardinality(Workers) \in Nat
    BY WorkersAssumption, FS_CardinalityType
  <2> QED
    <3> SUFFICES ASSUME NEW k \in Keys
                 PROVE  Cardinality(guesses[k]) + Cardinality(Through(k))
                          <= Limit - 1 + Cardinality(Workers)
      BY DEF GuessesCounted
    <3>1. guesses[k] = {}
      OBVIOUS
    <3>2. Cardinality(guesses[k]) = 0 /\ Cardinality(Through(k)) = 0
      BY <1>1, <2>1, <3>1
    <3> QED
      BY <2>2, <3>2, Numbers
<1> QED
  BY <1>1, <1>3, <1>4, <1>5, <1>6 DEF ThrottleInvariant

LEMMA ThrottleStep ==
  ASSUME ThrottleInvariant, [Next]_vars
  PROVE  ThrottleInvariant'
<1>1. CASE \E w \in Workers : Attempt(w) \/ Stretch(w) \/ Refused(w)
  BY <1>1, AttemptStep
<1>2. CASE \E w \in Workers : Check(w)
  BY <1>2, CheckStep
<1>3. CASE \E w \in Workers : RecordFailure(w)
  BY <1>3, RecordFailureStep
<1>4. CASE \E w \in Workers : RecordSuccess(w)
  BY <1>4, RecordSuccessStep
<1>5. CASE Tick
  BY <1>5, TickStep
<1>6. CASE Restart
  <2>1. Forgiven'
    BY <1>6 DEF Restart, Forgiven
  <2> QED
    BY <2>1, ForgivenIsFine, PTL
<1>7. CASE UNCHANGED vars
  BY <1>7 DEF vars, ThrottleInvariant, TypeOK, KeysKnown, GuessesFailed, GuessesCounted,
     FailedInOrder, Through
<1> QED
  BY <1>1, <1>2, <1>3, <1>4, <1>5, <1>6, <1>7 DEF Next

(* Whatever the threads are doing, the dict is in the order of the last    *)
(* failures, each guess inside the window has an entry of its own, and no  *)
(* more threads are on their way to a guess than check could let through   *)
(* (FailureThrottle.check, record_failure, record_success, _evict).        *)
THEOREM ThrottleInvariantHolds == Spec => []ThrottleInvariant
<1>1. Init => ThrottleInvariant
  BY ForgivenIsFine DEF Init, Forgiven
<1> QED
  BY <1>1, ThrottleStep, PTL DEF Spec

(* The table is well typed and ordered, and within MAX_ENTRIES, which      *)
(* record_failure makes room for before it adds an entry (_evict).         *)
THEOREM ThrottleTyped == Spec => []TypeOK
BY ThrottleInvariantHolds, PTL DEF ThrottleInvariant

(* Since its tally was last forgiven, no account has had more wrong guesses*)
(* in a window than the limit and the other threads allow, though check    *)
(* and record_failure take the lock one after the other.                   *)
THEOREM GuessingIsBounded == Spec => []GuessesBounded
<1>1. ThrottleInvariant => GuessesBounded
  <2> SUFFICES ASSUME ThrottleInvariant, NEW k \in Keys
               PROVE  Cardinality(guesses[k]) <= Limit - 1 + Cardinality(Workers)
    BY DEF GuessesBounded
  <2>1. Cardinality(guesses[k]) \in Nat
    BY FS_CardinalityType DEF ThrottleInvariant, TypeOK
  <2>2. Cardinality(guesses[k]) + Cardinality(Through(k)) <= Limit - 1 + Cardinality(Workers)
    BY DEF ThrottleInvariant, GuessesCounted
  <2> QED
    BY <2>1, <2>2, ThroughCounts, Numbers
<1> QED
  BY <1>1, ThrottleInvariantHolds, PTL

-----------------------------------------------------------------------------
(* Evictions.                                                              *)

(* Only a failure that is recorded takes a thread from there to its end and*)
(* leaves its account with a tally.                                        *)
LEMMA OnlyFailuresEvict ==
  ASSUME ThrottleInvariant, [Next]_vars, NEW w \in Workers,
         At(w, "failure"), worker'[w] = Idle, failures'[worker[w].key] # <<>>
  PROVE  RecordFailure(w)
<1>1. worker \in [Workers -> Jobs] /\ worker[w].pc = "failure" /\ worker[w].key \in Keys
  BY Jobbing DEF ThrottleInvariant, KeysKnown, At
<1>2. worker'[w].pc = "idle"
  BY DEF Idle
<1>3. ASSUME NEW v \in Workers, NEW job, worker' = [worker EXCEPT ![v] = job] PROVE v = w
  BY <1>1, <1>2, <1>3
<1>4. ASSUME NEW v \in Workers, Attempt(v) \/ Check(v) \/ Stretch(v) \/ RecordSuccess(v) \/ Refused(v)
      PROVE  FALSE
  <2>1. worker[v].pc # "failure"
    BY <1>4 DEF Attempt, Check, Stretch, RecordSuccess, Refused, At
  <2>2. \E job : worker' = [worker EXCEPT ![v] = job]
    BY <1>1, <1>4, Becoming DEF Attempt, Check, Stretch, RecordSuccess, Refused, Finish
  <2> QED
    BY <1>1, <1>3, <2>1, <2>2
<1>5. ASSUME NEW v \in Workers, RecordFailure(v) PROVE v = w
  BY <1>3, <1>5 DEF RecordFailure, Finish
<1>6. ~Tick
  <2> SUFFICES ASSUME Tick PROVE FALSE
    OBVIOUS
  <2>1. worker'[w] = [worker[w] EXCEPT !.moment = @ + 1]
    BY <1>1 DEF Tick
  <2> QED
    BY <1>1, <1>2, <2>1 DEF Jobs
<1>7. ~Restart
  BY <1>1 DEF Restart
<1>8. ~UNCHANGED vars
  BY <1>1, <1>2 DEF vars
<1> QED
  BY <1>4, <1>5, <1>6, <1>7, <1>8 DEF Next

LEMMA EvictionStep ==
  ASSUME ThrottleInvariant, [Next]_vars, NEW k \in Keys, Evicts(k)
  PROVE  /\ Cardinality(Present(failures)) = MaxEntries
         /\ \A j \in Present(failures) :
              /\ \E age \in ToSet(failures[j]) : age < Window + MaxLag
              /\ Last(failures[j]) <= Last(failures[k]) + MaxLag
<1>1. PICK w \in Workers : At(w, "failure") /\ worker'[w] = Idle /\ failures'[worker[w].key] # <<>>
  BY DEF Evicts
<1> DEFINE key == worker[w].key
           moment == worker[w].moment
           table == Evict(moment)
           pruned == Prune(Keys, moment)
           left == Present(pruned)
<1>2. RecordFailure(w)
  BY <1>1, OnlyFailuresEvict
<1>3. /\ key \in Keys /\ moment \in Moments
      /\ failures \in Tallies /\ FailedInOrder
      /\ \A j \in Keys : failures[j] \in Seq(Ages)
  BY <1>1, Jobbing DEF ThrottleInvariant, KeysKnown, At, Jobs, TypeOK, Tallies, Ages
<1>4. Thinned(table)
  BY <1>3, Evicting
<1> HIDE DEF table
<1>5. ~Cut(failures[k], <<>>) /\ failures[k] # <<>> /\ failures'[k] = <<>>
  <2>1. PICK i \in DOMAIN failures[k] : failures[k][i] < Window
    BY DEF Evicts, ToSet
  <2>2. failures[k] \in Seq(Ages) /\ <<>> \in Seq(Ages) /\ i \in 1 .. Len(failures[k])
    BY <1>3, <2>1
  <2>3. ~(failures[k][i] >= Window)
    BY <2>1, <2>2, Numbers DEF Ages
  <2>4. ~Cut(failures[k], <<>>)
    BY <2>2, <2>3, CutIsSuffix
  <2>5. failures[k] # <<>> /\ failures'[k] = <<>>
    BY <2>2 DEF Evicts
  <2> QED
    BY <2>4, <2>5
<1>6. failures[key] = <<>> /\ table[k] = <<>>
  <2> DEFINE base == IF failures[key] = <<>> THEN table ELSE failures
  <2>1. failures' = [base EXCEPT ![key] = Append(DropExpired(@, moment), moment)]
    BY <1>2 DEF RecordFailure, table
  <2>2. base \in Tallies /\ k # key
    BY <1>1, <1>3, <1>4, <1>5 DEF Thinned
  <2>3. base[k] = <<>>
    BY <1>5, <2>1, <2>2 DEF Tallies
  <2> QED
    BY <1>5, <2>3
<1>7. /\ k = First(left) /\ left = Present(failures) /\ Cardinality(left) = MaxEntries
      /\ \A j \in left \ {k} : <<k, j>> \in order
  BY <1>3, <1>5, <1>6, Evicting DEF table
<1>8. ASSUME NEW j \in Present(failures)
      PROVE  \E age \in ToSet(failures[j]) : age < Window + MaxLag
  <2>1. j \in Keys /\ pruned[j] # <<>> /\ pruned[j] = DropExpired(failures[j], moment)
    BY <1>3, <1>7, Pruning DEF Present
  <2> HIDE DEF pruned
  <2>2. /\ failures[j] \in Seq(Ages) /\ pruned[j] \in Seq(Ages)
        /\ Cut(failures[j], pruned[j]) /\ ~Expired(pruned[j][1], moment)
    BY <1>3, <2>1, Dropping
  <2>3. Len(pruned[j]) > 0
    BY <2>1, <2>2
  <2>4. PICK d \in 0 .. Len(failures[j]) :
          Len(pruned[j]) = Len(failures[j]) - d /\ pruned[j][1] = failures[j][1 + d]
    BY <2>2, <2>3 DEF Cut
  <2>5. 1 + d \in DOMAIN failures[j] /\ failures[j][1 + d] \in Nat
    <3>1. 1 + d \in 1 .. Len(failures[j])
      BY <2>2, <2>3, <2>4
    <3>2. failures[j][1 + d] \in Ages
      BY <2>2, <3>1
    <3> QED
      BY <2>2, <3>1, <3>2, Numbers DEF Ages
  <2>6. failures[j][1 + d] < Window + MaxLag
    BY <1>3, <2>2, <2>4, <2>5, Numbers DEF Expired, Moments
  <2> QED
    BY <2>5, <2>6 DEF ToSet
<1>9. ASSUME NEW j \in Present(failures)
      PROVE  Last(failures[j]) <= Last(failures[k]) + MaxLag
  <2>1. CASE j = k
    <3>1. failures[k] \in Seq(Ages) /\ Len(failures[k]) \in 1 .. Len(failures[k])
      BY <1>3, <1>5
    <3>2. Last(failures[k]) \in Nat
      <4>1. Last(failures[k]) \in Ages
        BY <3>1 DEF Last
      <4> QED
        BY <4>1, Numbers DEF Ages
    <3> QED
      BY <2>1, <3>2, Numbers
  <2>2. CASE j # k
    BY <1>3, <1>7, <2>2 DEF FailedInOrder, Present
  <2> QED
    BY <2>1, <2>2
<1> QED
  BY <1>7, <1>8, <1>9

(* A full table makes room at the expense of the least recently failed     *)
(* account, and only when there is nothing stale to drop.                  *)
THEOREM EvictionTakesTheOldest == Spec => EvictsTheOldest
<1>1. ASSUME ThrottleInvariant, [Next]_vars
      PROVE  [\A k \in Keys : Evicts(k) =>
                /\ Cardinality(Present(failures)) = MaxEntries
                /\ \A j \in Present(failures) :
                     /\ \E age \in ToSet(failures[j]) : age < Window + MaxLag
                     /\ Last(failures[j]) <= Last(failures[k]) + MaxLag]_vars
  BY <1>1, EvictionStep
<1> QED
  BY <1>1, ThrottleInvariantHolds, PTL DEF Spec, EvictsTheOldest

=============================================================================
