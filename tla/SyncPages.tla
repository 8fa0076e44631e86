----------------------------- MODULE SyncPages -----------------------------
(***************************************************************************)
(* A client that reads one collection page by page, beside clients that    *)
(* write it (SyncStore.get_bsos, encode_next_offset, models.parse_query).  *)
(*                                                                         *)
(* Each page is a request of its own: the server keeps nothing of a read   *)
(* between two pages but the X-Weave-Next-Offset it answered, and writes   *)
(* fall in between.  The client may send X-If-Unmodified-Since with the    *)
(* X-Last-Modified of its first page, as Firefox does, or page without it. *)
(***************************************************************************)
EXTENDS SyncStore

CONSTANTS
  Coll,   \* the collection that is read
  Queries \* the queries of the model: sort, full, newer, limit and guarded

ASSUME CollAssumption == Coll \in Collections
\* Ids are compared by the database; numbers stand for their order.
\* An id has at most 64 characters.
ASSUME IdsAssumption == Ids \subseteq Nat /\ IsFiniteSet(Ids) /\ Sortindexes \subseteq Nat

Sorts == {"newest", "oldest", "index", "none"}
Query == [sort : Sorts, full : BOOLEAN, newer : Nat, limit : Nat \ {0}, guarded : BOOLEAN]
ASSUME QueriesAssumption == Queries \subseteq Query

VARIABLES
  query,    \* the read under way, or the last one
  phase,    \* "none", "paging": an offset is in hand, "done": the last page came
  offset,   \* the offset token: the bound, 0 if it has none, and rows to skip
  since,    \* X-Last-Modified of the first page
  served,   \* how often each record came (2: more than once)
  standing, \* history: records of the first page's result that never changed since
  stirred,  \* history: the records at the bound are not those it was taken from
  lapsed    \* history: a record of the collection expired since the first page

readVars == <<query, phase, offset, since, served, standing, stirred, lapsed>>
pageVars == <<now, rows, collMod, batches, query, phase, offset, since, served, standing,
              stirred, lapsed>>

NoOffset == [bound |-> 0, skip |-> 0]

-----------------------------------------------------------------------------
(* One page.                                                               *)

Record(i) == rows[Coll][i]

(* Records come newest first when no order is asked for, ids in no order.  *)
NewestFirst(q) == q.sort = "newest" \/ (q.sort = "none" /\ q.full)

(* The WHERE clause.  Only whole records are bounded by the offset's       *)
(* timestamp, and only in the order of their timestamps.                   *)
Selected(q, o) ==
  {i \in Ids :
     /\ Visible(Record(i))
     /\ Record(i).modified > q.newer
     /\ q.full /\ o.bound # 0 =>
          /\ NewestFirst(q) => Record(i).modified <= o.bound
          /\ q.sort = "oldest" => Record(i).modified >= o.bound}

(* Rows with no order among them come as the index on modified yields them.*)
Scanned(i, j) ==
  \/ Record(i).modified < Record(j).modified
  \/ Record(i).modified = Record(j).modified /\ i < j

(* The ORDER BY clause; SQL NULL is below every sortindex.                 *)
Index(i) == IF Record(i).sortindex = Null THEN -1 ELSE Record(i).sortindex
Before(q, i, j) ==
  CASE NewestFirst(q) -> i # j /\ ~Scanned(i, j)
    [] q.sort = "index" -> Index(i) > Index(j) \/ (Index(i) = Index(j) /\ Scanned(i, j))
    [] OTHER -> Scanned(i, j)

(* How many rows of the result come before this one.                       *)
Place(q, o, i) == Cardinality({j \in Selected(q, o) : Before(q, j, i)})

(* LIMIT and OFFSET over the result.                                       *)
Items(q, o) ==
  {i \in Selected(q, o) : Place(q, o, i) \in o.skip .. o.skip + q.limit - 1}

(* One row more than asked for tells that there is another page.           *)
More(q, o) == Cardinality(Selected(q, o)) > o.skip + q.limit

(* The last row of a page that is full.                                    *)
LastItem(q, o) == CHOOSE i \in Items(q, o) : Place(q, o, i) = o.skip + q.limit - 1

(* Rows of such a page that share the last one's timestamp.  Where this    *)
(* counts, the order is the timestamps': they are at the end of the page.  *)
Tied(q, o) == {i \in Items(q, o) : Record(i).modified = Record(LastItem(q, o)).modified}

(* Mutants: the previous page's skip is forgotten; every page's skip is    *)
(* added to the previous one.                                              *)
NextOffsetForgets(q, o) ==
  IF ~q.full THEN [bound |-> 0, skip |-> o.skip + q.limit]
  ELSE IF q.sort = "index" THEN [bound |-> 0, skip |-> o.skip + Cardinality(Items(q, o))]
  ELSE [bound |-> Record(LastItem(q, o)).modified, skip |-> Cardinality(Tied(q, o))]
NextOffsetAddsAlways(q, o) ==
  IF ~q.full THEN [bound |-> 0, skip |-> o.skip + q.limit]
  ELSE IF q.sort = "index" THEN [bound |-> 0, skip |-> o.skip + Cardinality(Items(q, o))]
  ELSE [bound |-> Record(LastItem(q, o)).modified, skip |-> o.skip + Cardinality(Tied(q, o))]

(* encode_next_offset, and the plain count that pages of ids get.          *)
NextOffset(q, o) ==
  LET bound == Record(LastItem(q, o)).modified
      tied == Cardinality(Tied(q, o)) IN
  IF ~q.full THEN [bound |-> 0, skip |-> o.skip + q.limit]
  ELSE IF q.sort = "index" THEN [bound |-> 0, skip |-> o.skip + Cardinality(Items(q, o))]
  ELSE [bound |-> bound,
        skip |-> IF Tied(q, o) = Items(q, o) /\ o.bound = bound THEN o.skip + tied ELSE tied]

(* GET /storage/c: a page, and the next offset if there is a row left.     *)
Page(q, o, counts) ==
  /\ served' = [i \in Ids |-> IF i \in Items(q, o) THEN IF counts[i] = 0 THEN 1 ELSE 2
                              ELSE counts[i]]
  /\ stirred' = (stirred /\ phase = "paging")
  /\ IF More(q, o) THEN phase' = "paging" /\ offset' = NextOffset(q, o)
     ELSE phase' = "done" /\ offset' = NoOffset

-----------------------------------------------------------------------------
(* The client.                                                             *)

FirstPage(q) ==
  /\ phase = "none"
  /\ query' = q
  /\ since' = collMod[Coll]
  /\ Page(q, NoOffset, [i \in Ids |-> 0])
  /\ standing' = Selected(q, NoOffset)
  /\ lapsed' = FALSE
  /\ UNCHANGED vars

(* parse_query refuses (400) a bound that no page of this query has.       *)
ValidOffset(q, o) == q.sort # "index" /\ o.bound # 0 => o.bound >= q.newer

Unmoved == query.guarded => Proceeds([kind |-> "unmodified", since |-> since], collMod[Coll])

FollowingPage ==
  /\ phase = "paging"
  /\ ValidOffset(query, offset)
  /\ Unmoved
  /\ Page(query, offset, served)
  /\ UNCHANGED <<vars, query, since, standing, lapsed>>

(* A 412, or a client that goes away: what came is thrown away.            *)
GiveUp ==
  /\ phase = "paging" => ~Unmoved \/ ~ValidOffset(query, offset)
  /\ phase # "none"
  /\ phase' = "none"
  /\ offset' = NoOffset
  /\ since' = 0
  /\ served' = [i \in Ids |-> 0]
  /\ standing' = {}
  /\ stirred' = FALSE
  /\ lapsed' = FALSE
  /\ UNCHANGED <<vars, query>>

-----------------------------------------------------------------------------
(* The other clients and the clock.                                        *)

Alive(r, t) == r.expiry > t

(* The records with the bound's timestamp, as the next page will find them.*)
OtherClients ==
  /\ PlainWrite \/ Wipe \/ Tick
  /\ standing' = {i \in standing : rows'[Coll][i] = Record(i) /\ Alive(Record(i), now')}
  /\ stirred' = \/ stirred
                \/ /\ phase = "paging" /\ offset.bound # 0
                   /\ {i \in Ids : Visible(Record(i)) /\ Record(i).modified = offset.bound} #
                      {i \in Ids : /\ Alive(rows'[Coll][i], now')
                                   /\ rows'[Coll][i].modified = offset.bound}
  /\ lapsed' = (lapsed \/ (/\ phase = "paging"
                           /\ \E i \in Ids : Visible(Record(i)) /\ ~Alive(Record(i), now')))
  /\ UNCHANGED <<query, phase, offset, since, served>>

PagesInit ==
  /\ Init
  /\ query \in Queries
  /\ phase = "none"
  /\ offset = NoOffset
  /\ since = 0
  /\ served = [i \in Ids |-> 0]
  /\ standing = {}
  /\ stirred = FALSE
  /\ lapsed = FALSE

PagesNext == (\E q \in Queries : FirstPage(q)) \/ FollowingPage \/ GiveUp \/ OtherClients

PagesSpec == PagesInit /\ [][PagesNext]_pageVars

-----------------------------------------------------------------------------
PagesTypeOK ==
  /\ TypeOK
  /\ query \in Queries
  /\ phase \in {"none", "paging", "done"}
  /\ offset \in [bound : Nat, skip : Nat]
  /\ since \in Nat
  /\ served \in [Ids -> 0 .. 2]
  /\ standing \subseteq Ids
  /\ {stirred, lapsed} \subseteq BOOLEAN

(* A record that never changed while the pages were read comes on exactly  *)
(* one of them, whatever else is written, as long as the records an offset *)
(* counts stay what they were when the page before it ended.  (Pages that  *)
(* are cut by a count alone have no such promise.)                         *)
OrderedPagesTile ==
  /\ phase = "done" /\ ~stirred
  /\ query.full /\ query.sort # "index"
  => \A i \in standing : served[i] = 1

(* Under X-If-Unmodified-Since every order of reading is complete, and     *)
(* repeats nothing, short of a record that expires on the way: no write    *)
(* gets between two pages unnoticed.                                       *)
GuardedPagesTile ==
  phase = "done" /\ query.guarded /\ ~lapsed => \A i \in standing : served[i] = 1

(* Every page takes the reading further in its order, so a client that     *)
(* follows the offsets cannot be led in a circle, whatever is written.     *)
Further(new, old) ==
  IF ~query.full \/ query.sort = "index" THEN new.skip > old.skip
  ELSE \/ new.bound = old.bound /\ new.skip > old.skip
       \/ NewestFirst(query) /\ new.bound < old.bound
       \/ query.sort = "oldest" /\ new.bound > old.bound

PagesAdvance == [][FollowingPage /\ phase' = "paging" => Further(offset', offset)]_pageVars

(* What Offset says of its timestamp (it makes pagination stable while     *)
(* records are being written) and encode_next_offset of its count (it      *)
(* stops a record being served twice or missed).  Not so for every order.  *)
PagesTileUnderWrites ==
  phase = "done" => \A i \in standing : served[i] = 1

=============================================================================
