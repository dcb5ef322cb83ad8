----------------------------- MODULE TablesProofs -----------------------------
(***************************************************************************)
(* Theorems about Tables, for every number of rows, every list request and *)
(* every purge, whatever the tables hold at the start.                     *)
(*                                                                         *)
(* The walk: Before is a strict total order of the rows, because the id is *)
(* the last key of every list, so a page takes what comes next and leaves  *)
(* nothing out that it passes.  The invariant ties the rows seen to the    *)
(* place of the marker (Passed), and each write keeps that tie: it takes   *)
(* its rows out of the steady ones, and leaves the marker's place in the   *)
(* order, notes that it moved (Slipped), or takes the marker's row away.   *)
(*                                                                         *)
(* The purge: once it is past the hosts none of them is old, and none gets *)
(* old, because a host that is deleted from then on is deleted at `before' *)
(* or later.  A host that refers to an old segment is therefore one that   *)
(* was not deleted with it: an orphan.                                     *)
(***************************************************************************)
EXTENDS Tables, FiniteSetTheorems, WellFoundedInduction, TLAPS

RowsAre == rows \in [TableNames -> [Ids -> TableRow]]

-----------------------------------------------------------------------------
(* The order of a list *)

\* The least number of a set
LEMMA LeastNumber ==
  ASSUME NEW S \in SUBSET Nat, S # {}
  PROVE  \E x \in S : \A y \in S : x <= y
<1> DEFINE R == OpToRel(<, Nat)
<1>1. IsWellFoundedOn(R, Nat)
  BY NatLessThanWellFounded
<1>2. \A a, b \in Nat : a < b => <<a, b>> \in R
  BY Zenon DEF OpToRel
<1> HIDE DEF R
<1>3. PICK x \in S : \A y \in S : ~(<<y, x>> \in R)
  BY <1>1, WFMin
<1>4. \A y \in S : ~(y < x)
  BY <1>2, <1>3, Zenon
<1> QED
  BY <1>4

\* The keys of a list, given or not
Names(p) == Range(p.sort_key) \cup { "created_at", "id" }

LEMMA KeysAre ==
  ASSUME NEW p \in Requests
  PROVE  /\ GivenKeys(p) \in Seq(Names(p))
         /\ Missing(p, "created_at") \in Seq(Names(p))
         /\ Missing(p, "id") \in Seq(Names(p))
         /\ SortKeys(p) \in Seq(Names(p))
<1>1. p.sort_key \in Seq(Range(p.sort_key))
  BY TablesAssumption
<1>2. "created_at" \in Names(p) /\ "id" \in Names(p) /\ Range(p.sort_key) \subseteq Names(p)
  BY DEF Names
<1>3. p.sort_key \in Seq(Names(p))
  <2>1. \A n \in 1 .. Len(p.sort_key) : p.sort_key[n] \in Names(p)
    BY <1>1, <1>2
  <2> QED
    BY <1>1, <2>1
<1>4. << "created_at" >> \in Seq(Names(p)) /\ << "id" >> \in Seq(Names(p)) /\ << >> \in Seq(Names(p))
  BY <1>2
<1>5. /\ GivenKeys(p) \in Seq(Names(p))
      /\ Missing(p, "created_at") \in Seq(Names(p))
      /\ Missing(p, "id") \in Seq(Names(p))
  BY <1>3, <1>4 DEF GivenKeys, Missing
<1> QED
  BY <1>5 DEF SortKeys

\* Every list is sorted by id in the end.
LEMMA IdIsAKey ==
  ASSUME NEW p \in Requests
  PROVE  \E n \in DOMAIN SortKeys(p) : SortKeys(p)[n] = "id"
<1> DEFINE most == GivenKeys(p) \o Missing(p, "created_at")
<1>1. most \in Seq(Names(p)) /\ GivenKeys(p) \in Seq(Names(p))
  BY KeysAre
<1>2. CASE "id" \in Range(GivenKeys(p))
  <2>1. PICK n \in DOMAIN GivenKeys(p) : GivenKeys(p)[n] = "id"
    BY <1>2 DEF Range
  <2>2. n \in DOMAIN most /\ most[n] = "id"
    BY <1>1, <2>1, KeysAre
  <2> QED
    BY <1>1, <2>2, KeysAre DEF SortKeys
<1>3. CASE "id" \notin Range(GivenKeys(p))
  <2>1. SortKeys(p) = most \o << "id" >>
    BY <1>3 DEF SortKeys, Missing
  <2> HIDE DEF most
  <2>2. Len(most) + 1 \in DOMAIN SortKeys(p) /\ SortKeys(p)[Len(most) + 1] = "id"
    BY <1>1, <2>1
  <2> QED
    BY <2>2
<1> QED
  BY <1>2, <1>3

\* The keys of a list that may be sorted so, and whether `column' is one.
LEMMA KeysAreKnown ==
  ASSUME NEW p \in Requests, NEW n \in DOMAIN SortKeys(p)
  PROVE  /\ ~InvalidSort(p) => SortKeys(p)[n] \in { "created_at", "column", "id" }
         /\ SortKeys(p)[n] = "column" => "column" \in Range(p.sort_key)
<1>1. \/ SortKeys(p)[n] \in Range(GivenKeys(p))
      \/ SortKeys(p)[n] \in { "created_at", "id" }
  <2> DEFINE most == GivenKeys(p) \o Missing(p, "created_at")
  <2>1. most \in Seq(Names(p)) /\ GivenKeys(p) \in Seq(Names(p))
    BY KeysAre
  <2>2. \A m \in DOMAIN most : most[m] \in Range(GivenKeys(p)) \/ most[m] = "created_at"
    BY <2>1, KeysAre DEF Missing, Range
  <2> HIDE DEF most
  <2>3. SortKeys(p) = most \o Missing(p, "id")
    BY DEF SortKeys, most
  <2>4. Missing(p, "id") = << >> \/ Missing(p, "id") = << "id" >>
    BY DEF Missing
  <2> QED
    BY <2>1, <2>2, <2>3, <2>4
<1>2. ~InvalidSort(p) => Range(GivenKeys(p)) \subseteq { "created_at", "column", "id" }
  BY DEF InvalidSort
<1>3. "column" \in Range(GivenKeys(p)) => "column" \in Range(p.sort_key)
  BY DEF GivenKeys, Range
<1> QED
  BY <1>1, <1>2, <1>3

LEMMA ColumnIsNumber ==
  ASSUME RowsAre, NEW t \in TableNames, NEW i \in Ids, NEW key
  PROVE  Column(t, i, key) \in Nat
<1>1. rows[t][i] \in TableRow
  BY DEF RowsAre
<1> QED
  BY <1>1, TablesAssumption DEF Column, TableRow

\* Of two rows one comes first ...
LEMMA BeforeIsTotal ==
  ASSUME RowsAre, NEW p \in Requests, NEW i \in Ids, NEW j \in Ids, i # j
  PROVE  Before(p, i, j) \/ Before(p, j, i)
<1> DEFINE at(k, n) == Column(p.table, k, SortKeys(p)[n])
           differ == { n \in DOMAIN SortKeys(p) : at(i, n) # at(j, n) }
<1>1. DOMAIN SortKeys(p) = 1 .. Len(SortKeys(p)) /\ Len(SortKeys(p)) \in Nat
  BY KeysAre
<1>2. differ # {}
  BY IdIsAKey DEF Column
<1>3. PICK n \in differ : \A m \in differ : n <= m
  <2>1. differ \in SUBSET Nat
    BY <1>1
  <2> HIDE DEF differ
  <2> QED
    BY <1>2, <2>1, LeastNumber
<1>4. n \in DOMAIN SortKeys(p) /\ at(i, n) # at(j, n)
  BY <1>3
<1>5. \A m \in 1 .. n - 1 : at(i, m) = at(j, m)
  BY <1>1, <1>3
<1>6. at(i, n) \in Nat /\ at(j, n) \in Nat
  BY ColumnIsNumber, TablesAssumption
<1>7. at(i, n) < at(j, n) \/ at(j, n) < at(i, n)
  BY <1>4, <1>6
<1> QED
  BY <1>4, <1>5, <1>7 DEF Before

\* ... and the order is transitive.
LEMMA BeforeIsTransitive ==
  ASSUME RowsAre, NEW p \in Requests, NEW i \in Ids, NEW j \in Ids, NEW k \in Ids,
         Before(p, i, j), Before(p, j, k)
  PROVE  Before(p, i, k)
<1> DEFINE at(r, n) == Column(p.table, r, SortKeys(p)[n])
           less(r, q, n) == IF SortDir(p, n) = "asc" THEN at(r, n) < at(q, n) ELSE at(q, n) < at(r, n)
           first(r, q, n) == (\A m \in 1 .. n - 1 : at(r, m) = at(q, m)) /\ less(r, q, n)
<1>1. DOMAIN SortKeys(p) \subseteq Nat \ {0} /\ p.table \in TableNames
  BY KeysAre, TablesAssumption
<1>2. \A n, r : r \in Ids => at(r, n) \in Nat
  BY <1>1, ColumnIsNumber
<1>3. \A r, q : Before(p, r, q) <=> \E n \in DOMAIN SortKeys(p) : first(r, q, n)
  BY DEF Before
<1>4. PICK n \in DOMAIN SortKeys(p) : first(i, j, n)
  BY <1>3
<1>5. PICK m \in DOMAIN SortKeys(p) : first(j, k, m)
  BY <1>3
<1>6. n \in Nat \ {0} /\ m \in Nat \ {0}
  BY <1>1
<1> HIDE DEF at
<1>7. CASE n < m
  <2>1. at(j, n) = at(k, n)
    BY <1>5, <1>6, <1>7
  <2> QED
    BY <1>3, <1>4, <1>5, <1>6, <1>7, <2>1
<1>8. CASE n = m
  <2>1. less(i, k, n)
    BY <1>2, <1>4, <1>5, <1>8
  <2> QED
    BY <1>3, <1>4, <1>5, <1>8, <2>1
<1>9. CASE m < n
  <2>1. at(i, m) = at(j, m)
    BY <1>4, <1>6, <1>9
  <2> QED
    BY <1>3, <1>4, <1>5, <1>6, <1>9, <2>1
<1> QED
  BY <1>6, <1>7, <1>8, <1>9

\* The order of two rows is that of their columns.
LEMMA BeforeIsKept ==
  ASSUME NEW p \in Requests, NEW i, NEW j,
         \A n \in DOMAIN SortKeys(p) :
           /\ Column(p.table, i, SortKeys(p)[n])' = Column(p.table, i, SortKeys(p)[n])
           /\ Column(p.table, j, SortKeys(p)[n])' = Column(p.table, j, SortKeys(p)[n])
  PROVE  Before(p, i, j)' <=> Before(p, i, j)
<1>1. DOMAIN SortKeys(p) = 1 .. Len(SortKeys(p)) /\ Len(SortKeys(p)) \in Nat
  BY KeysAre
<1>2. \A n \in DOMAIN SortKeys(p), m \in Nat : m \in 1 .. n - 1 => m \in DOMAIN SortKeys(p)
  BY <1>1
<1> QED
  BY <1>2 DEF Before

-----------------------------------------------------------------------------
(* The inductive invariant *)

Walks == [pc : { "ask", "query", "done" }, request : Requests, marker : Ids \cup {0},
          seen : [Ids -> Nat], steady : SUBSET Ids, slipped : BOOLEAN]
Purgings == [pc : { "going", "failed", "ended" }, at : 1 .. 7, before : Nat, max_rows : Nat,
             total : Nat]

IsWalking == walk.pc \in { "ask", "query" }

TypeInv ==
  /\ RowsAre
  /\ clock \in Nat /\ clock >= 2
  /\ IsWalking \/ walk.pc = "done" => walk \in Walks
  /\ purge.pc # "idle" => purge \in Purgings
  /\ raced \subseteq Ids
  /\ changes \in Nat

\* The walk was moved.
Slipped == walk.slipped /\ "column" \in Range(walk.request.sort_key)

\* Of a row that stays put: whether it was seen is whether the marker has
\* passed it, as the order is now.
Passed(p, i) ==
  /\ walk.seen[i] \in {0, 1}
  /\ walk.marker = 0 => walk.seen[i] = 0
  /\ walk.marker # 0 /\ IsLive(p.table, walk.marker) =>
       (walk.seen[i] = 1 <=> ~Before(p, walk.marker, i))

WalkInvOf(p) ==
  /\ \A i \in walk.steady : Fits(p, i)
  /\ walk.marker # 0 => ~InvalidSort(p) /\ rows[p.table][walk.marker].state # "absent"
  /\ Slipped \/ \A i \in walk.steady : Passed(p, i)

WalkInv ==
  /\ IsWalking => WalkInvOf(walk.request)
  /\ walk.pc = "done" => Slipped \/ \A i \in walk.steady : walk.seen[i] = 1

\* Once a purge is past the hosts, those that are left in segments it has to
\* take are the ones that may stop it.
HostsPassed == \A h \in Kept("hosts") : SegmentOf(h).deleted_at \in 1 .. purge.before - 1 => StopsPurge(h)

PurgeInv ==
  /\ purge.pc # "idle" =>
       /\ purge.before <= clock
       /\ purge.max_rows > 0 => purge.total <= purge.max_rows
  /\ purge.pc = "going" => purge.at \in 1 .. 6 /\ (purge.at > 1 => HostsPassed)
  /\ purge.pc = "failed" => \E h \in Kept("hosts") : StopsPurge(h)

SoundInv == Sound(rows, clock) /\ HostsFollow(rows, raced)

IInv == TypeInv /\ SoundInv /\ PurgeInv /\ WalkInv

LEMMA InitIInv == Init => IInv
<1> SUFFICES ASSUME Init PROVE IInv
  OBVIOUS
<1>1. SoundInv /\ RowsAre
  BY TablesAssumption DEF Init, SoundInv, Sound, RowsAre
<1>2. PICK p \in Requests : walk = Begun(p)
  BY DEF Init
<1>3. walk \in Walks /\ walk.pc = "ask" /\ walk.marker = 0 /\ walk.request = p
      /\ walk.seen = [i \in Ids |-> 0] /\ walk.steady = { i \in Ids : Fits(p, i) }
  BY <1>2 DEF Begun, Walks
<1>4. TypeInv
  BY <1>1, <1>3 DEF Init, TypeInv, IsWalking
<1>5. WalkInv
  BY <1>3 DEF WalkInv, WalkInvOf, IsWalking, Passed
<1>6. PurgeInv
  BY DEF Init, PurgeInv
<1> QED
  BY <1>1, <1>4, <1>5, <1>6 DEF IInv

-----------------------------------------------------------------------------
(* A page of the walk *)

\* A page is empty only when nothing is left after the marker.
LEMMA EmptyPageEnds ==
  ASSUME NEW p \in Requests, p.limit # 0, NEW all \in SUBSET Ids, {} \in Pages(p, all)
  PROVE  all = {}
<1>1. IsFiniteSet(all)
  BY FS_Subset, TablesAssumption
<1>2. Cardinality(all) \in Nat
  BY <1>1, FS_CardinalityType
<1>3. Limit(p) \in Nat \ {0}
  BY TablesAssumption DEF Limit
<1>4. Cardinality({}) = IF Cardinality(all) < Limit(p) THEN Cardinality(all) ELSE Limit(p)
  BY DEF Pages
<1>5. Cardinality(all) = 0
  BY <1>2, <1>3, <1>4, FS_EmptySet
<1> QED
  BY <1>1, <1>5, FS_EmptySet

\* A page shows, of the rows that stay put, those the marker passes with it.
LEMMA PagePasses ==
  ASSUME RowsAre, NEW p \in Requests, NEW marker \in Ids \cup {0},
         NEW page \in Pages(p, After(p, marker)), NEW last \in Ids, IsLast(p, page, last),
         NEW i \in Ids, Fits(p, i)
  PROVE  /\ i \in page => (marker = 0 \/ Before(p, marker, i)) /\ ~Before(p, last, i)
         /\ i \notin page /\ (marker = 0 \/ Before(p, marker, i)) => Before(p, last, i)
         /\ marker # 0 /\ ~Before(p, marker, i) => ~Before(p, last, i)
<1>1. page \subseteq After(p, marker) /\ last \in page /\ \A j \in page : ~Before(p, last, j)
  BY DEF Pages, IsLast
<1>2. \A j \in page, k \in After(p, marker) \ page : ~Before(p, k, j)
  BY DEF Pages
<1>3. i \in After(p, marker) <=> marker = 0 \/ Before(p, marker, i)
  BY DEF After
<1>4. marker = 0 \/ Before(p, marker, last)
  BY <1>1 DEF After
<1>5. ASSUME i \notin page, i \in After(p, marker) PROVE Before(p, last, i)
  <2>1. ~Before(p, i, last) /\ i # last
    BY <1>1, <1>2, <1>5
  <2> QED
    BY <2>1, BeforeIsTotal
<1>6. ASSUME marker # 0, Before(p, last, i) PROVE Before(p, marker, i)
  BY <1>4, <1>6, BeforeIsTransitive
<1> QED
  BY <1>1, <1>3, <1>5, <1>6

LEMMA SameRows ==
  ASSUME rows' = rows, NEW p, NEW i, NEW j
  PROVE  /\ Before(p, i, j)' <=> Before(p, i, j)
         /\ Fits(p, i)' <=> Fits(p, i)
         /\ IsLive(p.table, i)' <=> IsLive(p.table, i)
<1>1. \A t, k, key : Column(t, k, key)' = Column(t, k, key)
  BY DEF Column
<1> QED
  BY <1>1 DEF Before, Fits, OfParent, IsLive

LEMMA AskKeepsWalk ==
  ASSUME TypeInv, WalkInv, Ask
  PROVE  (IsWalking' \/ walk'.pc = "done" => walk' \in Walks) /\ WalkInv'
<1>1. IsWalking /\ walk \in Walks /\ WalkInvOf(walk.request) /\ rows' = rows
  BY DEF Ask, IsWalking, TypeInv, WalkInv
<1>2. CASE ~ParentFound(walk.request)
  <2>1. walk' = [pc |-> "404"]
    BY <1>2 DEF Ask, Refuse
  <2> QED
    BY <2>1 DEF IsWalking, WalkInv
<1>3. CASE ParentFound(walk.request)
  <2>1. walk' = [walk EXCEPT !.pc = "query"]
    BY <1>3 DEF Ask
  <2>2. walk' \in Walks /\ walk'.pc = "query"
    BY <1>1, <2>1 DEF Walks
  <2>3. /\ walk'.request = walk.request /\ walk'.marker = walk.marker /\ walk'.seen = walk.seen
        /\ walk'.steady = walk.steady /\ walk'.slipped = walk.slipped
    BY <1>1, <2>1 DEF Walks
  <2> SUFFICES ASSUME NEW p \in Requests, p = walk.request, p = walk'.request
               PROVE  WalkInvOf(p)'
    BY <1>1, <2>2, <2>3 DEF WalkInv, IsWalking, Walks
  <2>4. ASSUME NEW i PROVE Passed(p, i)' <=> Passed(p, i)
    BY <1>1, <2>3, SameRows DEF Passed
  <2>5. Slipped' <=> Slipped
    BY <2>3 DEF Slipped
  <2> QED
    BY <1>1, <2>3, <2>4, <2>5, SameRows DEF WalkInvOf
<1> QED
  BY <1>2, <1>3

LEMMA QueryKeepsWalk ==
  ASSUME TypeInv, WalkInv, Query
  PROVE  (IsWalking' \/ walk'.pc = "done" => walk' \in Walks) /\ WalkInv'
<1> DEFINE p == walk.request
           marker == walk.marker
           shown(page) == [i \in Ids |-> walk.seen[i] + (IF i \in page \cap walk.steady THEN 1 ELSE 0)]
<1>1. /\ walk.pc = "query" /\ walk \in Walks /\ WalkInvOf(p) /\ rows' = rows /\ RowsAre
      /\ p \in Requests /\ marker \in Ids \cup {0} /\ walk.steady \subseteq Ids
      /\ walk.seen \in [Ids -> Nat]
  BY DEF Query, IsWalking, TypeInv, WalkInv, Walks
<1>2. CASE p.limit = 0
  <2>1. walk' = [pc |-> "nothing"]
    BY <1>2 DEF Query, Refuse
  <2> QED
    BY <2>1 DEF IsWalking, WalkInv
<1>3. CASE p.limit # 0 /\ (InvalidSort(p) \/ ~MarkerFound(p.table, marker))
  <2>1. walk' = [pc |-> "400"]
    BY <1>3 DEF Query, Refuse
  <2> QED
    BY <2>1 DEF IsWalking, WalkInv
<1>4. CASE p.limit # 0 /\ ~InvalidSort(p) /\ MarkerFound(p.table, marker)
  <2>1. PICK page \in Pages(p, After(p, marker)) :
          IF page = {} THEN walk' = [walk EXCEPT !.pc = "done", !.marker = 0]
          ELSE \E last \in Ids :
            /\ IsLast(p, page, last)
            /\ walk' = [walk EXCEPT !.pc = "ask", !.marker = last, !.seen = shown(page)]
    BY <1>4 DEF Query
  <2>2. ASSUME NEW i \in walk.steady, ~Slipped
        PROVE  /\ i \in Ids /\ Fits(p, i) /\ Passed(p, i)
               /\ walk.seen[i] = 1 <=> ~(marker = 0 \/ Before(p, marker, i))
    <3>1. i \in Ids /\ Fits(p, i) /\ Passed(p, i)
      BY <1>1, <2>2 DEF WalkInvOf
    <3> QED
      BY <1>4, <3>1 DEF Passed, MarkerFound
  <2>3. CASE page = {}
    <3>1. walk' = [walk EXCEPT !.pc = "done", !.marker = 0]
      BY <2>1, <2>3
    <3>2. /\ walk' \in Walks /\ walk'.pc = "done" /\ walk'.seen = walk.seen
          /\ walk'.steady = walk.steady /\ walk'.slipped = walk.slipped
          /\ walk'.request = walk.request
      BY <1>1, <3>1 DEF Walks
    <3>3. After(p, marker) = {}
      <4>1. After(p, marker) \in SUBSET Ids
        BY DEF After
      <4> QED
        BY <1>1, <1>4, <2>1, <2>3, <4>1, EmptyPageEnds
    <3>4. ASSUME NEW i \in walk.steady, ~Slipped PROVE walk.seen[i] = 1
      BY <2>2, <3>3, <3>4 DEF After
    <3>5. Slipped' <=> Slipped
      BY <3>2 DEF Slipped
    <3> QED
      BY <3>2, <3>4, <3>5 DEF WalkInv, IsWalking
  <2>4. CASE page # {}
    <3>1. PICK last \in Ids :
            /\ IsLast(p, page, last)
            /\ walk' = [walk EXCEPT !.pc = "ask", !.marker = last, !.seen = shown(page)]
      BY <2>1, <2>4
    <3>2. shown(page) \in [Ids -> Nat]
      BY <1>1
    <3>3. /\ walk' \in Walks /\ walk'.pc = "ask" /\ walk'.seen = shown(page)
          /\ walk'.steady = walk.steady /\ walk'.slipped = walk.slipped
          /\ walk'.request = walk.request /\ walk'.marker = last
      BY <1>1, <3>1, <3>2 DEF Walks
    <3> HIDE DEF shown
    <3> SUFFICES ASSUME NEW q \in Requests, q = p, q = walk'.request PROVE WalkInvOf(q)'
      BY <1>1, <3>3 DEF WalkInv, IsWalking
    <3>4. last \in After(p, marker)
      BY <3>1 DEF IsLast, Pages
    <3>5. IsLive(q.table, last)
      BY <3>4 DEF After, Fits
    <3>6. rows'[q.table][last].state # "absent" /\ last # 0
      BY <1>1, <3>5, TablesAssumption DEF IsLive
    <3>7. ASSUME NEW i \in walk.steady, ~Slipped PROVE Passed(q, i)'
      <4>1. /\ i \in page => (marker = 0 \/ Before(p, marker, i)) /\ ~Before(p, last, i)
            /\ i \notin page /\ (marker = 0 \/ Before(p, marker, i)) => Before(p, last, i)
            /\ marker # 0 /\ ~Before(p, marker, i) => ~Before(p, last, i)
        BY <1>1, <2>2, <3>1, <3>7, PagePasses
      <4>2. walk'.seen[i] = walk.seen[i] + (IF i \in page THEN 1 ELSE 0)
        BY <2>2, <3>3, <3>7 DEF shown
      <4>3. walk.seen[i] \in {0, 1} /\ (walk.seen[i] = 1 <=> ~(marker = 0 \/ Before(p, marker, i)))
        BY <2>2, <3>7 DEF Passed
      <4>4. walk'.seen[i] \in {0, 1} /\ (walk'.seen[i] = 1 <=> ~Before(p, last, i))
        BY <4>1, <4>2, <4>3
      <4>5. Before(q, last, i)' <=> Before(p, last, i)
        BY <1>1, SameRows
      <4> QED
        BY <3>3, <3>6, <4>4, <4>5 DEF Passed
    <3>8. Slipped' <=> Slipped
      BY <3>3 DEF Slipped
    <3>9. \A i \in walk.steady : Fits(q, i)'
      BY <1>1, SameRows DEF WalkInvOf
    <3>10. InvalidSort(q)' <=> InvalidSort(q)
      BY DEF InvalidSort
    <3> QED
      BY <1>4, <3>3, <3>6, <3>7, <3>8, <3>9, <3>10 DEF WalkInvOf
  <2> QED
    BY <2>3, <2>4
<1> QED
  BY <1>2, <1>3, <1>4

-----------------------------------------------------------------------------
(* What is written beside the walk *)

\* The walk goes on as it was when the rows that are written leave its steady
\* ones, and the marker's row keeps its place in the order, moves with a
\* change that is taken note of, or is gone.
LEMMA WalkGoesOn ==
  ASSUME TypeInv, WalkInv, IsWalking, NEW gone \in SUBSET Ids, walk' \in Walks, RowsAre',
         walk'.pc = walk.pc, walk'.request = walk.request, walk'.marker = walk.marker,
         walk'.steady = walk.steady \ gone, walk.slipped => walk'.slipped,
         \A i \in walk.steady \ gone : walk'.seen[i] = walk.seen[i],
         NEW t, t = walk.request.table,
         \A i \in Ids \ gone : rows[t][i].state # "absent" => rows'[t][i] = rows[t][i],
         \A i \in gone : rows[t][i].state # "absent" =>
           \/ rows'[t][i].state \notin { "absent", "live" }
           \/ /\ rows[t][i].state = "live" /\ rows'[t][i].state = "live"
              /\ rows'[t][i].created_at = rows[t][i].created_at
              /\ i = walk.marker => walk'.slipped
  PROVE  WalkInv'
<1>1. walk \in Walks /\ WalkInvOf(walk.request) /\ RowsAre
  BY DEF TypeInv, WalkInv
<1> SUFFICES ASSUME NEW p \in Requests, p = walk.request, p = walk'.request
             PROVE  WalkInvOf(p)'
  BY <1>1 DEF WalkInv, IsWalking, Walks
<1>2. t = p.table /\ t \in TableNames
  BY TablesAssumption
<1>3. ASSUME NEW i \in walk'.steady
      PROVE  /\ i \in Ids \ gone /\ i \in walk.steady /\ Fits(p, i)
             /\ rows'[t][i] = rows[t][i]
  <2>1. i \in Ids \ gone /\ i \in walk.steady
    BY <1>1 DEF Walks
  <2>2. Fits(p, i)
    BY <1>1, <2>1 DEF WalkInvOf
  <2> QED
    BY <1>2, <2>1, <2>2 DEF Fits, IsLive
<1>4. \A i \in walk'.steady : Fits(p, i)'
  BY <1>2, <1>3 DEF Fits, IsLive, OfParent
<1>5. walk.marker # 0 => /\ ~InvalidSort(p) /\ walk.marker \in Ids
                         /\ rows[t][walk.marker].state # "absent"
  BY <1>1, <1>2 DEF WalkInvOf, Walks
<1>6. walk'.marker # 0 => ~InvalidSort(p)' /\ rows'[t][walk'.marker].state # "absent"
  <2>1. InvalidSort(p)' <=> InvalidSort(p)
    BY DEF InvalidSort
  <2> QED
    BY <1>5, <2>1
<1>7. ASSUME ~Slipped', NEW i \in walk'.steady PROVE Passed(p, i)'
  <2>1. ~Slipped
    BY <1>7 DEF Slipped
  <2>2. Passed(p, i) /\ walk'.seen[i] = walk.seen[i]
    BY <1>1, <1>3, <2>1 DEF WalkInvOf
  <2>3. ASSUME walk.marker # 0, IsLive(t, walk.marker)'
        PROVE  IsLive(t, walk.marker) /\ (Before(p, walk.marker, i)' <=> Before(p, walk.marker, i))
    <3> DEFINE m == walk.marker
    <3>1. m \in Ids /\ rows[t][m].state # "absent" /\ ~InvalidSort(p)
      BY <1>5, <2>3
    <3>2. rows[t][m] \in TableRow
      BY <1>1, <1>2, <3>1 DEF RowsAre
    <3>3. CASE rows'[t][m] = rows[t][m]
      <4>1. IsLive(t, m)
        BY <2>3, <3>3 DEF IsLive
      <4>2. \A key : /\ Column(p.table, m, key)' = Column(p.table, m, key)
                     /\ Column(p.table, i, key)' = Column(p.table, i, key)
        BY <1>2, <1>3, <3>3 DEF Column
      <4>3. Before(p, m, i)' <=> Before(p, m, i)
        BY <4>2 DEF Before
      <4> QED
        BY <4>1, <4>3
    <3>4. CASE rows'[t][m] # rows[t][m]
      <4>1. m \in gone
        BY <3>1, <3>4
      <4>2. /\ rows[t][m].state = "live" /\ walk'.slipped
            /\ rows'[t][m].created_at = rows[t][m].created_at
        BY <2>3, <3>1, <4>1 DEF IsLive
      <4>3. "column" \notin Range(p.sort_key)
        BY <1>7, <4>2 DEF Slipped
      <4>4. ASSUME NEW n \in DOMAIN SortKeys(p) PROVE SortKeys(p)[n] \in { "created_at", "id" }
        BY <3>1, <4>3, KeysAreKnown
      <4>5. ASSUME NEW n \in DOMAIN SortKeys(p)
            PROVE  /\ Column(p.table, m, SortKeys(p)[n])' = Column(p.table, m, SortKeys(p)[n])
                   /\ Column(p.table, i, SortKeys(p)[n])' = Column(p.table, i, SortKeys(p)[n])
        BY <1>2, <1>3, <4>2, <4>4 DEF Column
      <4>6. Before(p, m, i)' <=> Before(p, m, i)
        BY <4>5, BeforeIsKept
      <4> QED
        BY <4>2, <4>6 DEF IsLive
    <3> QED
      BY <3>3, <3>4
  <2> QED
    BY <1>2, <2>2, <2>3 DEF Passed
<1> QED
  BY <1>4, <1>6, <1>7, <1>2 DEF WalkInvOf

LEMMA WalkUnsettled ==
  ASSUME TypeInv, WalkInv, RowsAre', NEW changed \in BOOLEAN,
         NEW gone \in [TableNames -> SUBSET Ids], Unsettle(gone, changed),
         \A t \in TableNames :
           /\ \A i \in Ids \ gone[t] : rows[t][i].state # "absent" => rows'[t][i] = rows[t][i]
           /\ \A i \in gone[t] : rows[t][i].state # "absent" =>
                \/ rows'[t][i].state \notin { "absent", "live" }
                \/ /\ rows[t][i].state = "live" /\ rows'[t][i].state = "live"
                   /\ rows'[t][i].created_at = rows[t][i].created_at
                   /\ changed
  PROVE  (IsWalking' \/ walk'.pc = "done" => walk' \in Walks) /\ WalkInv'
<1>1. CASE ~IsWalking
  <2>1. walk' = walk
    BY <1>1 DEF Unsettle, IsWalking
  <2> QED
    BY <1>1, <2>1 DEF TypeInv, WalkInv, IsWalking, Slipped
<1>2. CASE IsWalking
  <2> DEFINE t == walk.request.table
             put == [i \in Ids |-> IF i \in gone[t] THEN 0 ELSE walk.seen[i]]
  <2>1. walk \in Walks /\ t \in TableNames
    BY <1>2, TablesAssumption DEF TypeInv, Walks
  <2>2. walk' = [walk EXCEPT !.steady = walk.steady \ gone[t], !.seen = put,
                             !.slipped = walk.slipped \/ (changed /\ walk.marker \in gone[t])]
    BY <1>2, <2>1 DEF Unsettle, IsWalking, Walks
  <2>3. put \in [Ids -> Nat]
    BY <2>1 DEF Walks
  <2>4. (walk.slipped \/ (changed /\ walk.marker \in gone[t])) \in BOOLEAN
    BY Zenon
  <2> HIDE DEF put
  <2>5. walk' \in Walks
    BY <2>1, <2>2, <2>3, <2>4 DEF Walks
  <2>6. /\ walk'.pc = walk.pc /\ walk'.request = walk.request /\ walk'.marker = walk.marker
        /\ walk'.steady = walk.steady \ gone[t] /\ walk'.seen = put
    BY <2>1, <2>2 DEF Walks
  <2>7. walk'.slipped = (walk.slipped \/ (changed /\ walk.marker \in gone[t]))
    BY <2>1, <2>2 DEF Walks
  <2>8. \A i \in walk.steady \ gone[t] : walk'.seen[i] = walk.seen[i]
    BY <2>1, <2>6 DEF put, Walks
  <2>9. WalkInv'
    <3>1. gone[t] \in SUBSET Ids
      BY <2>1
    <3>2. walk.slipped => walk'.slipped
      BY <2>7
    <3>3. \A i \in gone[t] : changed /\ i = walk.marker => walk'.slipped
      BY <2>7
    <3> HIDE DEF t
    <3>4. \A i \in gone[t] : rows[t][i].state # "absent" =>
            \/ rows'[t][i].state \notin { "absent", "live" }
            \/ /\ rows[t][i].state = "live" /\ rows'[t][i].state = "live"
               /\ rows'[t][i].created_at = rows[t][i].created_at
               /\ i = walk.marker => walk'.slipped
      BY <2>1, <3>3
    <3>5. \A i \in Ids \ gone[t] : rows[t][i].state # "absent" => rows'[t][i] = rows[t][i]
      BY <2>1
    <3>6. t = walk.request.table
      BY DEF t
    <3> QED
      <4> DEFINE g == gone[t]
      <4>1. /\ g \in SUBSET Ids /\ walk'.steady = walk.steady \ g
            /\ \A i \in walk.steady \ g : walk'.seen[i] = walk.seen[i]
            /\ \A i \in Ids \ g : rows[t][i].state # "absent" => rows'[t][i] = rows[t][i]
            /\ \A i \in g : rows[t][i].state # "absent" =>
                 \/ rows'[t][i].state \notin { "absent", "live" }
                 \/ /\ rows[t][i].state = "live" /\ rows'[t][i].state = "live"
                    /\ rows'[t][i].created_at = rows[t][i].created_at
                    /\ i = walk.marker => walk'.slipped
        BY <2>6, <2>8, <3>1, <3>4, <3>5
      <4> HIDE DEF g
      <4> QED
        BY <1>2, <2>5, <2>6, <3>2, <3>6, <4>1, WalkGoesOn, SMTT(60)
  <2> QED
    BY <2>5, <2>9
<1> QED
  BY <1>1, <1>2

LEMMA CreateKeepsWalk ==
  ASSUME TypeInv, WalkInv, RowsAre', walk' = walk,
         \A t \in TableNames, i \in Ids : rows[t][i].state # "absent" => rows'[t][i] = rows[t][i]
  PROVE  (IsWalking' \/ walk'.pc = "done" => walk' \in Walks) /\ WalkInv'
<1>1. CASE ~IsWalking
  BY <1>1 DEF TypeInv, WalkInv, IsWalking, Slipped
<1>2. CASE IsWalking
  <2> DEFINE t == walk.request.table
  <2>1. walk \in Walks /\ t \in TableNames
    BY <1>2, TablesAssumption DEF TypeInv, Walks
  <2>2. \A i \in Ids : rows[t][i].state # "absent" => rows'[t][i] = rows[t][i]
    BY <2>1
  <2> HIDE DEF t
  <2>3. WalkInv'
    BY <1>2, <2>1, <2>2, WalkGoesOn, {} \in SUBSET Ids DEF t
  <2> QED
    BY <2>1, <2>3
<1> QED
  BY <1>1, <1>2

-----------------------------------------------------------------------------
(* The rows, and what is old *)

LEMMA RowIsTyped ==
  ASSUME RowsAre, NEW t \in TableNames, NEW i \in Ids
  PROVE  /\ rows[t][i] \in TableRow
         /\ rows[t] \in [Ids -> TableRow]
BY DEF RowsAre

LEMMA HostsAreTables == "hosts" \in TableNames /\ "failover_segments" \in TableNames
BY DEF TableNames

\* A host's segment is there, and deleted only after its hosts, or about when
\* they were.
LEMMA SegmentsAre ==
  ASSUME SoundInv, NEW h \in Kept("hosts")
  PROVE  /\ h \in Ids /\ rows.hosts[h].parent \in Ids
         /\ SegmentOf(h).state \in { "live", "deleted" }
         /\ SegmentOf(h).state = "live" => SegmentOf(h).deleted_at = 0
         /\ h \in raced \/ Follows(rows.hosts[h], SegmentOf(h))
<1>1. h \in Ids /\ rows.hosts[h].state \in { "live", "deleted" }
  BY DEF Kept
<1>2. /\ rows.hosts[h].parent \in Ids /\ SegmentOf(h).state \in { "live", "deleted" }
      /\ h \in raced \/ Follows(rows.hosts[h], SegmentOf(h))
  BY <1>1 DEF SoundInv, HostsFollow, SegmentOf
<1>3. SegmentOf(h).state = "live" => SegmentOf(h).deleted_at = 0
  BY <1>2, HostsAreTables DEF SoundInv, Sound, SegmentOf
<1> QED
  BY <1>1, <1>2, <1>3

\* Beside a purge no segment comes to be deleted long before its cutoff with a
\* host left: one that is deleted now is deleted about now.
LEMMA PurgeGoesOn ==
  ASSUME TypeInv, PurgeInv, purge' = purge, clock' \in Nat, clock <= clock', raced \subseteq raced',
         \A h \in Kept("hosts")' :
           \/ h \in Kept("hosts") /\ SegmentOf(h)'.deleted_at = SegmentOf(h).deleted_at
           \/ SegmentOf(h)'.deleted_at = 0
           \/ SegmentOf(h)'.deleted_at \in Nat /\ clock <= SegmentOf(h)'.deleted_at + Lag
           \/ h \in raced',
         \A h \in Kept("hosts") : SegmentOf(h).deleted_at # 0 =>
           h \in Kept("hosts")' /\ SegmentOf(h)'.deleted_at = SegmentOf(h).deleted_at
  PROVE  PurgeInv'
<1>1. purge.pc # "idle" => purge \in Purgings /\ purge.before \in Nat /\ purge.before <= clock
  BY DEF TypeInv, Purgings, PurgeInv
<1>2. clock \in Nat /\ Lag \in Nat
  BY TablesAssumption DEF TypeInv
<1>3. ASSUME purge.pc = "going", HostsPassed PROVE HostsPassed'
  <2> SUFFICES ASSUME NEW h \in Kept("hosts")', SegmentOf(h)'.deleted_at \in 1 .. purge.before - 1
               PROVE  h \in raced' \/ purge.before <= SegmentOf(h)'.deleted_at + Lag
    BY DEF HostsPassed, StopsPurge
  <2>1. CASE h \in Kept("hosts") /\ SegmentOf(h)'.deleted_at = SegmentOf(h).deleted_at
    BY <1>3, <2>1 DEF HostsPassed, StopsPurge
  <2>2. CASE SegmentOf(h)'.deleted_at \in Nat /\ clock <= SegmentOf(h)'.deleted_at + Lag
    BY <1>1, <1>2, <1>3, <2>2
  <2> QED
    BY <1>1, <1>3, <2>1, <2>2
<1>4. ASSUME purge.pc = "failed", NEW h \in Kept("hosts"), StopsPurge(h)
      PROVE  h \in Kept("hosts")' /\ StopsPurge(h)'
  <2>1. SegmentOf(h).deleted_at \in 1 .. purge.before - 1
    BY <1>4 DEF StopsPurge
  <2>2. h \in Kept("hosts")' /\ SegmentOf(h)'.deleted_at = SegmentOf(h).deleted_at
    BY <1>1, <1>4, <2>1
  <2> QED
    BY <1>4, <2>2 DEF StopsPurge
<1>5. purge.pc # "idle" => purge.before <= clock'
  BY <1>1, <1>2
<1> QED
  BY <1>3, <1>4, <1>5 DEF PurgeInv

\* A step that leaves tables, clock and purge alone
LEMMA RestStays ==
  ASSUME IInv, UNCHANGED <<rows, clock, purge, raced, changes>>,
         (IsWalking' \/ walk'.pc = "done" => walk' \in Walks) /\ WalkInv'
  PROVE  IInv'
<1>1. RowsAre' /\ SoundInv'
  BY DEF IInv, TypeInv, SoundInv, RowsAre, Sound, HostsFollow
<1>2. TypeInv'
  BY <1>1 DEF IInv, TypeInv
<1>3. PurgeInv'
  BY DEF IInv, PurgeInv, HostsPassed, StopsPurge, SegmentOf, Kept
<1> QED
  BY <1>1, <1>2, <1>3 DEF IInv

LEMMA CreateKeepsIInv ==
  ASSUME IInv, NEW t \in Written, Create(t)
  PROVE  IInv'
<1>1. PICK i \in Ids, time \in Times, v \in Values, parent \in Ids \cup {0} :
        /\ rows[t][i].state = "absent"
        /\ IF t \in DOMAIN ParentOf THEN parent \in Kept(ParentOf[t]) ELSE parent = 0
        /\ rows' = [rows EXCEPT ![t][i] = [Absent EXCEPT !.state = "live", !.created_at = time,
                                                         !.column = v, !.parent = parent]]
        /\ raced' = IF t = "hosts" /\ ~IsLive("failover_segments", parent) THEN raced \cup {i} ELSE raced
  BY DEF Create
<1> DEFINE row == [Absent EXCEPT !.state = "live", !.created_at = time, !.column = v, !.parent = parent]
<1>2. t \in TableNames /\ RowsAre /\ clock \in Nat /\ clock >= 2 /\ changes \in Nat /\ raced \subseteq Ids
  BY TablesAssumption DEF IInv, TypeInv
<1>3. walk' = walk /\ purge' = purge /\ clock' = clock /\ changes' = changes + 1
  BY DEF Create, Change
<1>4. row \in TableRow /\ row.state = "live" /\ row.deleted_at = 0 /\ row.parent = parent
  <2>1. Absent \in TableRow /\ Absent.deleted_at = 0
    BY DEF Absent, TableRow
  <2>2. time \in Nat /\ v \in Nat /\ parent \in Nat
    BY <1>2, TablesAssumption DEF Times
  <2> QED
    BY <2>1, <2>2 DEF TableRow
<1>5. rows' = [rows EXCEPT ![t][i] = row]
  BY <1>1
<1> HIDE DEF row
<1>6. RowsAre'
  BY <1>2, <1>4, <1>5 DEF RowsAre
<1>7. /\ rows'[t][i] = row
      /\ \A u \in TableNames, j \in Ids : u # t \/ j # i => rows'[u][j] = rows[u][j]
  BY <1>2, <1>5 DEF RowsAre
<1>8. raced \subseteq raced' /\ raced' \subseteq Ids
  BY <1>1, <1>2
<1>9. (IsWalking' \/ walk'.pc = "done" => walk' \in Walks) /\ WalkInv'
  <2>1. \A u \in TableNames, j \in Ids : rows[u][j].state # "absent" => rows'[u][j] = rows[u][j]
    BY <1>1, <1>7
  <2> QED
    BY <1>3, <1>6, <2>1, CreateKeepsWalk DEF IInv
<1>10. TypeInv'
  BY <1>2, <1>3, <1>6, <1>8, <1>9 DEF TypeInv, IInv
<1>11. Sound(rows, clock)'
  <2>1. \A u \in TableNames, j \in Ids :
          /\ rows'[u][j].state = "live" => rows'[u][j].deleted_at = 0
          /\ rows'[u][j].state = "deleted" => rows'[u][j].deleted_at \in 1 .. clock
    BY <1>4, <1>7 DEF IInv, SoundInv, Sound
  <2> QED
    BY <1>3, <1>6, <2>1 DEF Sound, RowsAre
<1>12. HostsFollow(rows, raced)'
  <2> SUFFICES ASSUME NEW h \in Ids, rows'.hosts[h].state \in { "live", "deleted" }
               PROVE  /\ rows'.hosts[h].parent \in Ids
                      /\ rows'.failover_segments[rows'.hosts[h].parent].state \in { "live", "deleted" }
                      /\ \/ h \in raced'
                         \/ Follows(rows'.hosts[h], rows'.failover_segments[rows'.hosts[h].parent])
    BY DEF HostsFollow
  <2>1. CASE t = "hosts" /\ h = i
    <3>1. parent \in Kept("failover_segments")
      BY <1>1, <2>1 DEF ParentOf
    <3>2. /\ parent \in Ids /\ rows.failover_segments[parent].state \in { "live", "deleted" }
          /\ rows'.failover_segments[parent] = rows.failover_segments[parent]
      BY <1>7, <2>1, <3>1, HostsAreTables DEF Kept
    <3>3. rows'.hosts[h].parent = parent
      BY <1>4, <1>7, <2>1
    <3> QED
      BY <1>1, <2>1, <3>2, <3>3 DEF Follows, IsLive
  <2>2. CASE ~(t = "hosts" /\ h = i)
    <3>1. rows'.hosts[h] = rows.hosts[h]
      BY <1>7, <2>2, HostsAreTables
    <3>2. /\ rows.hosts[h].parent \in Ids
          /\ rows.failover_segments[rows.hosts[h].parent].state \in { "live", "deleted" }
          /\ h \in raced \/ Follows(rows.hosts[h], rows.failover_segments[rows.hosts[h].parent])
      BY <3>1 DEF IInv, SoundInv, HostsFollow
    <3>3. rows'.failover_segments[rows.hosts[h].parent] = rows.failover_segments[rows.hosts[h].parent]
      BY <1>1, <1>7, <3>2, HostsAreTables
    <3> QED
      BY <1>8, <3>1, <3>2, <3>3
  <2> QED
    BY <2>1, <2>2
<1>13. PurgeInv'
  <2>1. ASSUME NEW h \in Kept("hosts"), ~(t = "hosts" /\ h = i)
        PROVE  /\ h \in Kept("hosts")' /\ rows'.hosts[h] = rows.hosts[h]
               /\ SegmentOf(h)' = SegmentOf(h)
    <3>1. h \in Ids /\ rows'.hosts[h] = rows.hosts[h] /\ h \in Kept("hosts")'
      BY <1>7, <2>1, HostsAreTables DEF Kept
    <3>2. /\ rows.hosts[h].parent \in Ids
          /\ rows.failover_segments[rows.hosts[h].parent].state \in { "live", "deleted" }
      BY SegmentsAre DEF IInv, SegmentOf
    <3>3. rows'.failover_segments[rows.hosts[h].parent] = rows.failover_segments[rows.hosts[h].parent]
      BY <1>1, <1>7, <3>2, HostsAreTables
    <3> QED
      BY <3>1, <3>3 DEF SegmentOf
  <2>2. t = "hosts" => i \notin Kept("hosts")
    BY <1>1 DEF Kept
  <2>3. ASSUME t = "hosts" PROVE SegmentOf(i)'.deleted_at = 0 \/ i \in raced'
    <3>1. parent \in Kept("failover_segments")
      BY <1>1, <2>3 DEF ParentOf
    <3>2. parent \in Ids /\ rows'.failover_segments[parent] = rows.failover_segments[parent]
      BY <1>7, <2>3, <3>1, HostsAreTables DEF Kept
    <3>3. SegmentOf(i)' = rows.failover_segments[parent]
      BY <1>4, <1>7, <2>3, <3>2 DEF SegmentOf
    <3>4. IsLive("failover_segments", parent) => rows.failover_segments[parent].deleted_at = 0
      BY <3>2, HostsAreTables DEF IInv, SoundInv, Sound, IsLive
    <3> QED
      BY <1>1, <2>3, <3>3, <3>4
  <2>4. \A h \in Kept("hosts")' : h \in Kept("hosts") \/ (t = "hosts" /\ h = i)
    BY <1>7, HostsAreTables DEF Kept
  <2>5. TypeInv /\ PurgeInv
    BY DEF IInv
  <2> QED
    BY <1>2, <1>3, <1>8, <2>1, <2>2, <2>3, <2>4, <2>5, PurgeGoesOn
<1> QED
  BY <1>9, <1>10, <1>11, <1>12, <1>13 DEF IInv, SoundInv

LEMMA OnlyIs ==
  ASSUME NEW t \in TableNames, NEW i \in Ids
  PROVE  /\ Only(t, i) \in [TableNames -> SUBSET Ids]
         /\ Only(t, i)[t] = {i}
         /\ \A u \in TableNames : u # t => Only(t, i)[u] = {}
BY DEF Only

LEMMA UpdateKeepsIInv ==
  ASSUME IInv, NEW t \in Written, NEW i \in Ids, Update(t, i)
  PROVE  IInv'
<1>1. PICK v \in Values : rows' = [rows EXCEPT ![t][i] = [rows[t][i] EXCEPT !.column = v, !.updated_at = clock]]
  <2>1. t \in TableNames /\ RowsAre
    BY TablesAssumption DEF IInv, TypeInv
  <2> QED
    BY <2>1 DEF Update, RowsAre
<1> DEFINE row == [rows[t][i] EXCEPT !.column = v, !.updated_at = clock]
<1>2. t \in TableNames /\ RowsAre /\ clock \in Nat /\ changes \in Nat /\ raced \subseteq Ids
  BY TablesAssumption DEF IInv, TypeInv
<1>3. /\ purge' = purge /\ clock' = clock /\ changes' = changes + 1 /\ raced' = raced
      /\ IsLive(t, i) /\ Unsettle(Only(t, i), TRUE)
  BY DEF Update, Change
<1>4. /\ row \in TableRow /\ row.state = rows[t][i].state /\ row.deleted_at = rows[t][i].deleted_at
      /\ row.parent = rows[t][i].parent /\ row.created_at = rows[t][i].created_at
  <2>1. rows[t][i] \in TableRow /\ v \in Nat
    BY <1>2, RowIsTyped, TablesAssumption
  <2> QED
    BY <1>2, <2>1 DEF TableRow
<1>5. rows' = [rows EXCEPT ![t][i] = row]
  BY <1>1
<1> HIDE DEF row
<1>6. RowsAre'
  BY <1>2, <1>4, <1>5 DEF RowsAre
<1>7. /\ rows'[t][i] = row
      /\ \A u \in TableNames, j \in Ids : u # t \/ j # i => rows'[u][j] = rows[u][j]
  BY <1>2, <1>5 DEF RowsAre
<1>8. \A u \in TableNames, j \in Ids :
        /\ rows'[u][j].state = rows[u][j].state
        /\ rows'[u][j].deleted_at = rows[u][j].deleted_at
        /\ rows'[u][j].parent = rows[u][j].parent
  BY <1>4, <1>7
<1>9. (IsWalking' \/ walk'.pc = "done" => walk' \in Walks) /\ WalkInv'
  <2> DEFINE gone == Only(t, i)
  <2>1. /\ gone \in [TableNames -> SUBSET Ids] /\ gone[t] = {i}
        /\ \A u \in TableNames : u # t => gone[u] = {}
    BY <1>2, OnlyIs
  <2>2. Unsettle(gone, TRUE)
    BY <1>3
  <2> HIDE DEF gone
  <2>3. ASSUME NEW u \in TableNames
        PROVE  /\ \A j \in Ids \ gone[u] : rows[u][j].state # "absent" => rows'[u][j] = rows[u][j]
               /\ \A j \in gone[u] : rows[u][j].state # "absent" =>
                    \/ rows'[u][j].state \notin { "absent", "live" }
                    \/ /\ rows[u][j].state = "live" /\ rows'[u][j].state = "live"
                       /\ rows'[u][j].created_at = rows[u][j].created_at
                       /\ TRUE
    BY <1>3, <1>4, <1>7, <2>1 DEF IsLive
  <2>4. TypeInv /\ WalkInv
    BY DEF IInv
  <2> QED
    BY <1>6, <2>1, <2>2, <2>3, <2>4, WalkUnsettled
<1>10. TypeInv'
  BY <1>2, <1>3, <1>6, <1>9 DEF TypeInv, IInv
<1>11. Sound(rows, clock)'
  <2>1. \A u \in TableNames, j \in Ids :
          /\ rows'[u][j].state = "live" => rows'[u][j].deleted_at = 0
          /\ rows'[u][j].state = "deleted" => rows'[u][j].deleted_at \in 1 .. clock
    BY <1>8 DEF IInv, SoundInv, Sound
  <2> QED
    BY <1>3, <1>6, <2>1 DEF Sound, RowsAre
<1>12. HostsFollow(rows, raced)'
  BY <1>3, <1>8, HostsAreTables DEF IInv, SoundInv, HostsFollow, Follows
<1>13. PurgeInv'
  <2>1. \A h \in Kept("hosts")' : h \in Kept("hosts")
    BY <1>8, HostsAreTables DEF Kept
  <2>2. ASSUME NEW h \in Kept("hosts")
        PROVE  h \in Kept("hosts")' /\ SegmentOf(h)'.deleted_at = SegmentOf(h).deleted_at
    <3>1. h \in Ids /\ rows.hosts[h].parent \in Ids
      BY SegmentsAre DEF IInv
    <3>2. h \in Kept("hosts")' /\ rows'.hosts[h].parent = rows.hosts[h].parent
      BY <1>8, <3>1, HostsAreTables DEF Kept
    <3> QED
      BY <1>8, <3>1, <3>2, HostsAreTables DEF SegmentOf
  <2>3. TypeInv /\ PurgeInv
    BY DEF IInv
  <2> QED
    BY <1>2, <1>3, <2>1, <2>2, <2>3, PurgeGoesOn
<1> QED
  BY <1>9, <1>10, <1>11, <1>12, <1>13 DEF IInv, SoundInv

LEMMA DeleteKeepsIInv ==
  ASSUME IInv, NEW t \in Written \cap Deletable, NEW i \in Ids, Delete(t, i)
  PROVE  IInv'
<1> DEFINE gone == Gone(t, i)
<1>1. t \in TableNames /\ RowsAre /\ clock \in Nat /\ clock >= 2 /\ changes \in Nat /\ raced \subseteq Ids
  BY TablesAssumption DEF IInv, TypeInv
<1>0. PICK first \in Times, second \in Times :
        rows' = [u \in TableNames |-> [j \in Ids |->
                   IF j \in gone[u]
                     THEN [rows[u][j] EXCEPT !.state = "deleted",
                                             !.deleted_at = IF u = t THEN first ELSE second]
                     ELSE rows[u][j]]]
  BY DEF Delete
<1> DEFINE time(u) == IF u = t THEN first ELSE second
<1>2. /\ purge' = purge /\ clock' = clock /\ changes' = changes + 1 /\ raced' = raced
      /\ IsLive(t, i) /\ Unsettle(gone, FALSE)
      /\ rows' = [u \in TableNames |-> [j \in Ids |->
                    IF j \in gone[u] THEN [rows[u][j] EXCEPT !.state = "deleted", !.deleted_at = time(u)]
                                     ELSE rows[u][j]]]
  BY <1>0 DEF Delete, Change
<1>16. \A u \in TableNames : time(u) \in 1 .. clock /\ clock <= time(u) + Lag
  BY DEF Times
<1> HIDE DEF time
<1>3. HostsOf(i) \in SUBSET Ids /\ \A h \in HostsOf(i) : rows.hosts[h].state = "live"
  BY DEF HostsOf, Live, IsLive
<1>4. gone \in [TableNames -> SUBSET Ids] /\ gone[t] = {i}
  BY <1>1, <1>3, OnlyIs DEF Gone
<1>5. \A u \in TableNames, j \in Ids : j \in gone[u] => rows[u][j].state = "live"
  <2> SUFFICES ASSUME NEW u \in TableNames, NEW j \in Ids, j \in gone[u]
               PROVE  rows[u][j].state = "live"
    OBVIOUS
  <2>1. rows[t][i].state = "live"
    BY <1>2 DEF IsLive
  <2>2. CASE t = "failover_segments" /\ u = "hosts"
    <3>1. gone[u] = HostsOf(i)
      BY <1>1, <2>2, OnlyIs, HostsAreTables DEF Gone
    <3> QED
      BY <1>3, <2>2, <3>1
  <2>3. CASE ~(t = "failover_segments" /\ u = "hosts")
    <3>1. gone[u] = Only(t, i)[u]
      BY <1>1, <2>3, OnlyIs DEF Gone
    <3>2. u = t /\ j = i
      BY <1>1, <3>1, OnlyIs
    <3> QED
      BY <2>1, <3>2
  <2> QED
    BY <2>2, <2>3
<1>6. t = "failover_segments" => \A h \in Live("hosts") : rows.hosts[h].parent = i => h \in gone["hosts"]
  BY OnlyIs, <1>1, HostsAreTables DEF HostsOf, Gone
<1>7. t # "failover_segments" => gone["failover_segments"] = {}
  BY OnlyIs, <1>1, HostsAreTables DEF Gone
<1> HIDE DEF gone
<1>8. \A u \in TableNames, j \in Ids : j \in gone[u] =>
        /\ rows'[u][j] \in TableRow /\ rows'[u][j].state = "deleted" /\ rows'[u][j].deleted_at = time(u)
        /\ rows'[u][j].parent = rows[u][j].parent
  <2> SUFFICES ASSUME NEW u \in TableNames, NEW j \in Ids, j \in gone[u]
               PROVE  /\ rows'[u][j] \in TableRow /\ rows'[u][j].state = "deleted"
                      /\ rows'[u][j].deleted_at = time(u)
                      /\ rows'[u][j].parent = rows[u][j].parent
    OBVIOUS
  <2>1. rows'[u][j] = [rows[u][j] EXCEPT !.state = "deleted", !.deleted_at = time(u)]
    BY <1>2
  <2>3. time(u) \in Nat
    BY <1>1, <1>16
  <2>2. rows[u][j] \in TableRow
    BY <1>1, RowIsTyped
  <2> QED
    BY <1>1, <2>1, <2>2, <2>3 DEF TableRow
<1>9. \A u \in TableNames, j \in Ids : j \notin gone[u] => rows'[u][j] = rows[u][j]
  BY <1>2
<1>10. RowsAre'
  <2>1. \A u \in TableNames, j \in Ids : rows'[u][j] \in TableRow
    BY <1>1, <1>8, <1>9, RowIsTyped
  <2>2. rows' = [u \in TableNames |-> [j \in Ids |-> rows'[u][j]]]
    BY <1>2
  <2> QED
    BY <2>1, <2>2 DEF RowsAre
<1>11. (IsWalking' \/ walk'.pc = "done" => walk' \in Walks) /\ WalkInv'
  <2>1. ASSUME NEW u \in TableNames
        PROVE  /\ \A j \in Ids \ gone[u] : rows[u][j].state # "absent" => rows'[u][j] = rows[u][j]
               /\ \A j \in gone[u] : rows[u][j].state # "absent" =>
                    \/ rows'[u][j].state \notin { "absent", "live" }
                    \/ /\ rows[u][j].state = "live" /\ rows'[u][j].state = "live"
                       /\ rows'[u][j].created_at = rows[u][j].created_at
                       /\ FALSE
    BY <1>4, <1>8, <1>9
  <2>2. TypeInv /\ WalkInv
    BY DEF IInv
  <2> QED
    BY <1>2, <1>4, <1>10, <2>1, <2>2, WalkUnsettled
<1>12. TypeInv'
  <2>1. purge' = purge /\ clock' = clock /\ changes' = changes + 1 /\ raced' = raced
    BY <1>2
  <2> QED
    BY <1>1, <1>10, <1>11, <2>1 DEF TypeInv, IInv
<1>13. Sound(rows, clock)'
  <2>1. \A u \in TableNames, j \in Ids :
          /\ rows'[u][j].state = "live" => rows'[u][j].deleted_at = 0
          /\ rows'[u][j].state = "deleted" => rows'[u][j].deleted_at \in 1 .. clock
    BY <1>1, <1>8, <1>9, <1>16 DEF IInv, SoundInv, Sound
  <2> QED
    BY <1>2, <1>10, <2>1 DEF Sound, RowsAre
<1>14. HostsFollow(rows, raced)'
  <2> SUFFICES ASSUME NEW h \in Ids, rows'.hosts[h].state \in { "live", "deleted" }
               PROVE  /\ rows'.hosts[h].parent \in Ids
                      /\ rows'.failover_segments[rows'.hosts[h].parent].state \in { "live", "deleted" }
                      /\ \/ h \in raced
                         \/ Follows(rows'.hosts[h], rows'.failover_segments[rows'.hosts[h].parent])
    BY <1>2 DEF HostsFollow
  <2> DEFINE s == rows.hosts[h].parent
  <2>1. rows'.hosts[h].parent = s /\ rows.hosts[h].state \in { "live", "deleted" }
    BY <1>5, <1>8, <1>9, HostsAreTables
  <2>2. /\ s \in Ids /\ rows.failover_segments[s].state \in { "live", "deleted" }
        /\ h \in raced \/ Follows(rows.hosts[h], rows.failover_segments[s])
    BY <2>1 DEF IInv, SoundInv, HostsFollow
  <2> HIDE DEF s
  <2>3. rows'.failover_segments[s].state \in { "live", "deleted" }
    BY <1>8, <1>9, <2>2, HostsAreTables
  <2>4. ASSUME h \notin raced PROVE Follows(rows'.hosts[h], rows'.failover_segments[s])
    <3>1. CASE s \in gone["failover_segments"]
      <4>1. t = "failover_segments" /\ s = i
        BY <1>4, <1>7, <3>1
      <4>2. rows'.failover_segments[s].deleted_at \in Nat /\ clock <= rows'.failover_segments[s].deleted_at + Lag
        BY <1>1, <1>8, <1>16, <2>2, <3>1, HostsAreTables
      <4>3. /\ rows'.hosts[h].state = "deleted" /\ rows'.hosts[h].deleted_at \in Nat
            /\ rows'.hosts[h].deleted_at <= clock
        <5>1. CASE h \in gone["hosts"]
          BY <1>1, <1>8, <1>16, <5>1, HostsAreTables
        <5>2. CASE h \notin gone["hosts"]
          <6>1. rows'.hosts[h] = rows.hosts[h]
            BY <1>9, <5>2, HostsAreTables
          <6>2. rows.hosts[h].state = "deleted"
            BY <1>6, <2>1, <4>1, <5>2 DEF Live, IsLive, s
          <6>3. rows.hosts[h].deleted_at \in 1 .. clock
            BY <6>2, HostsAreTables DEF IInv, SoundInv, Sound
          <6> QED
            BY <1>1, <6>1, <6>2, <6>3
        <5> QED
          BY <5>1, <5>2
      <4> QED
        BY <1>1, <4>2, <4>3, TablesAssumption DEF Follows
    <3>2. CASE s \notin gone["failover_segments"]
      <4>1. rows'.failover_segments[s] = rows.failover_segments[s]
        BY <1>9, <2>2, <3>2, HostsAreTables
      <4>2. CASE rows.failover_segments[s].state = "live"
        BY <4>1, <4>2 DEF Follows
      <4>3. CASE rows.failover_segments[s].state # "live"
        <5>1. rows.hosts[h].state = "deleted" /\ Follows(rows.hosts[h], rows.failover_segments[s])
          BY <2>2, <2>4, <4>3 DEF Follows
        <5>2. rows'.hosts[h] = rows.hosts[h]
          BY <1>5, <1>9, <5>1, HostsAreTables
        <5> QED
          BY <4>1, <5>1, <5>2
      <4> QED
        BY <4>2, <4>3
    <3> QED
      BY <3>1, <3>2
  <2> QED
    BY <2>1, <2>2, <2>3, <2>4
<1>15. PurgeInv'
  <2>1. ASSUME NEW h \in Kept("hosts")'
        PROVE  \/ h \in Kept("hosts") /\ SegmentOf(h)'.deleted_at = SegmentOf(h).deleted_at
               \/ SegmentOf(h)'.deleted_at \in Nat /\ clock <= SegmentOf(h)'.deleted_at + Lag
    <3>1. h \in Kept("hosts") /\ h \in Ids /\ rows'.hosts[h].parent = rows.hosts[h].parent
      BY <1>5, <1>8, <1>9, HostsAreTables DEF Kept
    <3>2. rows.hosts[h].parent \in Ids
      BY <3>1, SegmentsAre DEF IInv
    <3>3. CASE rows.hosts[h].parent \in gone["failover_segments"]
      <4>1. rows'.failover_segments[rows.hosts[h].parent].deleted_at = time("failover_segments")
        BY <1>8, <3>2, <3>3, HostsAreTables
      <4> QED
        BY <1>1, <1>16, <3>1, <4>1, HostsAreTables DEF SegmentOf
    <3>4. CASE rows.hosts[h].parent \notin gone["failover_segments"]
      BY <1>9, <3>1, <3>2, <3>4, HostsAreTables DEF SegmentOf
    <3> QED
      BY <3>3, <3>4
  <2>2. ASSUME NEW h \in Kept("hosts"), SegmentOf(h).deleted_at # 0
        PROVE  h \in Kept("hosts")' /\ SegmentOf(h)'.deleted_at = SegmentOf(h).deleted_at
    <3>1. h \in Ids /\ rows.hosts[h].parent \in Ids /\ SegmentOf(h).state # "live"
      BY <2>2, SegmentsAre DEF IInv
    <3>2. h \in Kept("hosts")' /\ rows'.hosts[h].parent = rows.hosts[h].parent
      BY <1>8, <1>9, <3>1, HostsAreTables DEF Kept
    <3>3. rows'.failover_segments[rows.hosts[h].parent] = rows.failover_segments[rows.hosts[h].parent]
      BY <1>5, <1>9, <3>1, HostsAreTables DEF SegmentOf
    <3> QED
      BY <3>2, <3>3 DEF SegmentOf
  <2>3. purge' = purge /\ clock' \in Nat /\ clock <= clock' /\ raced \subseteq raced'
    <3>1. purge' = purge /\ clock' = clock /\ raced' = raced
      BY <1>2
    <3> QED
      BY <1>1, <3>1
  <2>4. TypeInv /\ PurgeInv
    BY DEF IInv
  <2> QED
    BY <2>1, <2>2, <2>3, <2>4, PurgeGoesOn
<1> QED
  BY <1>11, <1>12, <1>13, <1>14, <1>15 DEF IInv, SoundInv

LEMMA TickKeepsIInv ==
  ASSUME IInv, Tick
  PROVE  IInv'
<1>1. /\ clock' = clock + 1 /\ rows' = rows /\ walk' = walk /\ purge' = purge
      /\ raced' = raced /\ changes' = changes
  BY DEF Tick
<1>2. TypeInv /\ WalkInv /\ PurgeInv /\ clock \in Nat /\ clock >= 2
  BY DEF IInv, TypeInv
<1>3. RowsAre'
  BY <1>1, <1>2 DEF TypeInv, RowsAre
<1>4. (IsWalking' \/ walk'.pc = "done" => walk' \in Walks) /\ WalkInv'
  BY <1>1, <1>2, <1>3, CreateKeepsWalk
<1>5. TypeInv'
  BY <1>1, <1>2, <1>3, <1>4 DEF TypeInv
<1>6. SoundInv'
  <2>1. HostsFollow(rows, raced)'
    BY <1>1 DEF IInv, SoundInv, HostsFollow
  <2>2. \A u \in TableNames, j \in Ids :
          /\ rows[u][j].state = "live" => rows[u][j].deleted_at = 0
          /\ rows[u][j].state = "deleted" => rows[u][j].deleted_at \in 1 .. clock
    BY DEF IInv, SoundInv, Sound
  <2>3. \A u \in TableNames, j \in Ids :
          /\ rows[u][j].state = "live" => rows[u][j].deleted_at = 0
          /\ rows[u][j].state = "deleted" => rows[u][j].deleted_at \in 1 .. clock + 1
    BY <1>2, <2>2
  <2> QED
    BY <1>1, <1>3, <2>1, <2>3 DEF SoundInv, Sound, RowsAre
<1>7. PurgeInv'
  <2>1. Kept("hosts")' = Kept("hosts") /\ \A h : SegmentOf(h)' = SegmentOf(h)
    BY <1>1 DEF Kept, SegmentOf
  <2> QED
    BY <1>1, <1>2, <2>1, PurgeGoesOn
<1> QED
  BY <1>4, <1>5, <1>6, <1>7 DEF IInv

-----------------------------------------------------------------------------
(* The purge *)

LEMMA StartPurgeKeepsIInv ==
  ASSUME IInv, NEW c \in Purges, StartPurge(c)
  PROVE  IInv'
<1>1. /\ c.age < clock
      /\ purge' = [pc |-> "going", at |-> 1, before |-> clock - c.age, max_rows |-> c.max_rows, total |-> 0]
      /\ rows' = rows /\ clock' = clock /\ walk' = walk /\ raced' = raced /\ changes' = changes
  BY DEF StartPurge
<1>2. TypeInv /\ WalkInv /\ clock \in Nat /\ c.age \in Nat /\ c.max_rows \in Nat
  BY TablesAssumption DEF IInv, TypeInv
<1>3. RowsAre'
  BY <1>1, <1>2 DEF TypeInv, RowsAre
<1>4. (IsWalking' \/ walk'.pc = "done" => walk' \in Walks) /\ WalkInv'
  BY <1>1, <1>2, <1>3, CreateKeepsWalk
<1>5. purge' \in Purgings
  <2>1. clock - c.age \in Nat
    BY <1>1, <1>2
  <2> QED
    BY <1>1, <1>2, <2>1 DEF Purgings
<1>6. TypeInv'
  BY <1>1, <1>2, <1>3, <1>4, <1>5 DEF TypeInv
<1>7. SoundInv'
  BY <1>1, <1>3 DEF IInv, SoundInv, Sound, HostsFollow
<1>8. PurgeInv'
  <2>1. /\ purge'.pc = "going" /\ purge'.before = clock - c.age /\ purge'.total = 0
        /\ purge'.max_rows = c.max_rows /\ purge'.at = 1
    BY <1>1
  <2> QED
    BY <1>1, <1>2, <2>1 DEF PurgeInv
<1> QED
  BY <1>4, <1>6, <1>7, <1>8 DEF IInv

LEMMA PurgesHostsFirst ==
  ASSUME NEW n \in 1 .. 6
  PROVE  /\ PurgeOrder[n] \in TableNames
         /\ PurgeOrder[n] = "hosts" <=> n = 1
         /\ PurgeOrder[n] = "failover_segments" => n > 1
         /\ Len(PurgeOrder) = 6
<1>1. PurgeOrder \in Seq(TableNames) /\ Len(PurgeOrder) = 6
  BY DEF PurgeOrder, TableNames
<1>2. n = 1 \/ n = 2 \/ n = 3 \/ n = 4 \/ n = 5 \/ n = 6
  OBVIOUS
<1> QED
  BY <1>1, <1>2 DEF PurgeOrder

LEMMA StoppedPurge ==
  ASSUME IInv, purge.pc = "going", NEW t, t = PurgeOrder[purge.at], NEW out \in Oldest(t),
         Referred(t, out), purge' = [purge EXCEPT !.pc = "failed"],
         UNCHANGED <<rows, walk, clock, raced, changes>>
  PROVE  IInv'
<1>1. /\ purge \in Purgings /\ purge.at \in 1 .. 6 /\ TypeInv /\ WalkInv
      /\ purge.before <= clock /\ (purge.max_rows > 0 => purge.total <= purge.max_rows)
  BY DEF IInv, TypeInv, PurgeInv
<1>2. \E h \in Kept("hosts") : StopsPurge(h)
  <2>1. t = "failover_segments" /\ purge.at > 1
    BY <1>1, PurgesHostsFirst DEF Referred
  <2>2. PICK h \in Kept("hosts") : rows.hosts[h].parent \in out
    BY DEF Referred
  <2>3. SegmentOf(h).deleted_at \in 1 .. purge.before - 1
    BY <2>1, <2>2 DEF Oldest, Old, SegmentOf
  <2>4. HostsPassed
    BY <2>1 DEF IInv, PurgeInv
  <2> QED
    BY <2>2, <2>3, <2>4 DEF HostsPassed
<1>3. /\ purge' \in Purgings /\ purge'.pc = "failed" /\ purge'.before = purge.before
      /\ purge'.max_rows = purge.max_rows /\ purge'.total = purge.total
  BY <1>1 DEF Purgings
<1>4. RowsAre'
  BY <1>1 DEF TypeInv, RowsAre
<1>5. (IsWalking' \/ walk'.pc = "done" => walk' \in Walks) /\ WalkInv'
  BY <1>1, <1>4, CreateKeepsWalk
<1>6. TypeInv'
  BY <1>1, <1>3, <1>4, <1>5 DEF TypeInv
<1>7. SoundInv'
  BY <1>4 DEF IInv, SoundInv, Sound, HostsFollow
<1>8. PurgeInv'
  <2>1. (\E h \in Kept("hosts") : StopsPurge(h))'
    BY <1>2, <1>3 DEF StopsPurge, SegmentOf, Kept
  <2> QED
    BY <1>1, <1>3, <2>1 DEF PurgeInv
<1> QED
  BY <1>5, <1>6, <1>7, <1>8 DEF IInv

\* What a table gives keeps to the bound; and either it was all that is old,
\* or the bound is reached.
LEMMA BudgetHolds ==
  ASSUME purge \in Purgings, purge.max_rows > 0 => purge.total <= purge.max_rows,
         NEW t, NEW out \in Oldest(t), NEW total, total = purge.total + Cardinality(out)
  PROVE  /\ total \in Nat
         /\ purge.max_rows > 0 => total <= purge.max_rows
         /\ out = Old(t) \/ (total = purge.max_rows /\ total > 0)
<1>1. out \in SUBSET Old(t) /\ Cardinality(out) = Budget(Cardinality(Old(t)))
  BY DEF Oldest
<1>2. IsFiniteSet(Old(t))
  <2>1. Old(t) \subseteq Ids
    BY DEF Old, Kept
  <2> QED
    BY <2>1, FS_Subset, TablesAssumption
<1> DEFINE n == Cardinality(Old(t))
           k == Cardinality(out)
<1>3. n \in Nat /\ k \in Nat /\ (k = n => out = Old(t))
  <2>1. IsFiniteSet(out) /\ (Cardinality(out) = Cardinality(Old(t)) => Old(t) = out)
    BY <1>1, <1>2, FS_Subset
  <2> QED
    BY <1>2, <2>1, FS_CardinalityType
<1>4. k = IF purge.max_rows > 0 /\ purge.max_rows - purge.total < n THEN purge.max_rows - purge.total ELSE n
  BY <1>1 DEF Budget
<1>5. purge.max_rows \in Nat /\ purge.total \in Nat
  BY DEF Purgings
<1> HIDE DEF n, k
<1>6. total = purge.total + k
  BY DEF k
<1> QED
  BY <1>3, <1>4, <1>5, <1>6

LEMMA PurgedTable ==
  ASSUME IInv, purge.pc = "going", NEW t, t = PurgeOrder[purge.at], NEW out \in Oldest(t),
         ~Referred(t, out), NEW total, total = purge.total + Cardinality(out),
         rows' = [rows EXCEPT ![t] = [i \in Ids |->
                    IF i \in out THEN [Absent EXCEPT !.state = "purged"] ELSE rows[t][i]]],
         Unsettle([Only(t, 0) EXCEPT ![t] = out], FALSE),
         purge' = [purge EXCEPT !.total = total, !.at = purge.at + 1,
                     !.pc = IF (total = purge.max_rows /\ total > 0) \/ purge.at = Len(PurgeOrder)
                              THEN "ended" ELSE "going"],
         clock' = clock, raced' = raced, changes' = changes
  PROVE  IInv'
<1>1. /\ purge \in Purgings /\ purge.at \in 1 .. 6 /\ TypeInv /\ WalkInv /\ RowsAre
      /\ purge.before <= clock /\ (purge.max_rows > 0 => purge.total <= purge.max_rows)
      /\ (purge.at > 1 => HostsPassed)
  BY DEF IInv, TypeInv, PurgeInv
<1>2. /\ t \in TableNames /\ Len(PurgeOrder) = 6 /\ (t = "hosts" <=> purge.at = 1)
  BY <1>1, PurgesHostsFirst
<1>3. out \subseteq Ids /\ out \subseteq Old(t)
  BY DEF Oldest, Old, Kept
<1> DEFINE none == [Absent EXCEPT !.state = "purged"]
           gone == [Only(t, 0) EXCEPT ![t] = out]
<1>4. none \in TableRow /\ none.state = "purged"
  <2>1. Absent \in TableRow
    BY DEF Absent, TableRow
  <2> QED
    BY <2>1 DEF TableRow
<1>5. gone \in [TableNames -> SUBSET Ids] /\ gone[t] = out /\ \A u \in TableNames : u # t => gone[u] = {}
  <2>1. gone = [u \in TableNames |-> IF u = t THEN out ELSE {}]
    BY <1>2 DEF Only
  <2> HIDE DEF gone
  <2> QED
    BY <1>2, <1>3, <2>1
<1>6. Unsettle(gone, FALSE)
  OBVIOUS
<1>7. /\ \A j \in Ids : rows'[t][j] = IF j \in out THEN none ELSE rows[t][j]
      /\ \A u \in TableNames, j \in Ids : u # t => rows'[u][j] = rows[u][j]
  BY <1>1, <1>2 DEF RowsAre
<1>8. RowsAre'
  <2> DEFINE table == [i \in Ids |-> IF i \in out THEN none ELSE rows[t][i]]
  <2>1. rows' = [rows EXCEPT ![t] = table]
    OBVIOUS
  <2>2. table \in [Ids -> TableRow]
    <3> HIDE DEF none
    <3> QED
      BY <1>1, <1>2, <1>4, RowIsTyped
  <2> HIDE DEF table
  <2> QED
    BY <1>1, <1>2, <2>1, <2>2 DEF RowsAre
<1> HIDE DEF none, gone
<1>9. (IsWalking' \/ walk'.pc = "done" => walk' \in Walks) /\ WalkInv'
  <2>1. ASSUME NEW u \in TableNames
        PROVE  /\ \A j \in Ids \ gone[u] : rows[u][j].state # "absent" => rows'[u][j] = rows[u][j]
               /\ \A j \in gone[u] : rows[u][j].state # "absent" =>
                    \/ rows'[u][j].state \notin { "absent", "live" }
                    \/ /\ rows[u][j].state = "live" /\ rows'[u][j].state = "live"
                       /\ rows'[u][j].created_at = rows[u][j].created_at
                       /\ FALSE
    BY <1>3, <1>4, <1>5, <1>7
  <2> QED
    BY <1>1, <1>5, <1>6, <1>8, <2>1, WalkUnsettled
<1>10. /\ total \in Nat
       /\ purge.max_rows > 0 => total <= purge.max_rows
       /\ out = Old(t) \/ (total = purge.max_rows /\ total > 0)
  BY <1>1, BudgetHolds
<1>11. /\ purge' \in Purgings /\ purge'.before = purge.before /\ purge'.max_rows = purge.max_rows
       /\ purge'.total = total /\ purge'.at = purge.at + 1
       /\ purge'.pc = IF (total = purge.max_rows /\ total > 0) \/ purge.at = 6 THEN "ended" ELSE "going"
  <2> DEFINE pc == IF (total = purge.max_rows /\ total > 0) \/ purge.at = 6 THEN "ended" ELSE "going"
  <2>1. pc \in { "going", "failed", "ended" } /\ purge.at + 1 \in 1 .. 7
    BY <1>1
  <2>2. purge' = [purge EXCEPT !.total = total, !.at = purge.at + 1, !.pc = pc]
    BY <1>2
  <2>3. pc = IF (total = purge.max_rows /\ total > 0) \/ purge.at = 6 THEN "ended" ELSE "going"
    OBVIOUS
  <2> HIDE DEF pc
  <2>4. /\ purge' \in Purgings /\ purge'.before = purge.before /\ purge'.max_rows = purge.max_rows
        /\ purge'.total = total /\ purge'.at = purge.at + 1 /\ purge'.pc = pc
    BY <1>1, <1>10, <2>1, <2>2 DEF Purgings
  <2> QED
    BY <2>3, <2>4
<1>12. TypeInv'
  BY <1>1, <1>8, <1>9, <1>11 DEF TypeInv
<1>13. Sound(rows, clock)'
  <2>1. \A u \in TableNames, j \in Ids :
          /\ rows'[u][j].state = "live" => rows'[u][j].deleted_at = 0
          /\ rows'[u][j].state = "deleted" => rows'[u][j].deleted_at \in 1 .. clock
    BY <1>4, <1>7 DEF IInv, SoundInv, Sound
  <2> QED
    BY <1>8, <2>1 DEF Sound, RowsAre
<1>14. HostsFollow(rows, raced)'
  <2> SUFFICES ASSUME NEW h \in Ids, rows'.hosts[h].state \in { "live", "deleted" }
               PROVE  /\ rows'.hosts[h].parent \in Ids
                      /\ rows'.failover_segments[rows'.hosts[h].parent].state \in { "live", "deleted" }
                      /\ \/ h \in raced
                         \/ Follows(rows'.hosts[h], rows'.failover_segments[rows'.hosts[h].parent])
    BY DEF HostsFollow
  <2> DEFINE s == rows.hosts[h].parent
  <2>1. rows'.hosts[h] = rows.hosts[h]
    BY <1>4, <1>7, HostsAreTables
  <2>2. h \in Kept("hosts")
    BY <2>1 DEF Kept
  <2>3. /\ s \in Ids /\ rows.failover_segments[s].state \in { "live", "deleted" }
        /\ h \in raced \/ Follows(rows.hosts[h], rows.failover_segments[s])
    BY <2>1 DEF IInv, SoundInv, HostsFollow
  <2>4. ~(t = "failover_segments" /\ s \in out)
    BY <2>2 DEF Referred
  <2> HIDE DEF s
  <2>5. rows'.failover_segments[s] = rows.failover_segments[s]
    BY <1>7, <2>3, <2>4, HostsAreTables
  <2> QED
    BY <2>1, <2>3, <2>5 DEF s
<1>15. ASSUME purge'.pc = "going" PROVE HostsPassed'
  <2> SUFFICES ASSUME NEW h \in Kept("hosts")', SegmentOf(h)'.deleted_at \in 1 .. purge.before - 1
               PROVE  h \in raced \/ purge.before <= SegmentOf(h)'.deleted_at + Lag
    BY <1>11 DEF HostsPassed, StopsPurge
  <2>1. h \in Kept("hosts") /\ rows'.hosts[h] = rows.hosts[h] /\ (t = "hosts" => h \notin out)
    BY <1>4, <1>7, HostsAreTables DEF Kept
  <2>2. /\ h \in Ids /\ rows.hosts[h].parent \in Ids
        /\ SegmentOf(h).state \in { "live", "deleted" }
        /\ SegmentOf(h).state = "live" => SegmentOf(h).deleted_at = 0
        /\ h \in raced \/ Follows(rows.hosts[h], SegmentOf(h))
    BY <2>1, SegmentsAre DEF IInv
  <2>3. ~(t = "failover_segments" /\ rows.hosts[h].parent \in out)
    BY <2>1 DEF Referred
  <2>4. SegmentOf(h)' = SegmentOf(h)
    <3> DEFINE s == rows.hosts[h].parent
    <3>1. s \in Ids /\ ~(t = "failover_segments" /\ s \in out) /\ rows'.hosts[h].parent = s
      BY <2>1, <2>2, <2>3
    <3> HIDE DEF s
    <3>2. rows'.failover_segments[s] = rows.failover_segments[s]
      BY <1>7, <3>1, HostsAreTables
    <3> QED
      BY <3>1, <3>2 DEF s, SegmentOf
  <2>5. CASE purge.at > 1
    BY <1>1, <2>1, <2>4, <2>5 DEF HostsPassed, StopsPurge
  <2>6. CASE ~(purge.at > 1) /\ h \notin raced
    <3>1. t = "hosts" /\ h \notin Old("hosts")
      BY <1>1, <1>2, <1>10, <1>11, <1>15, <2>1, <2>6
    <3>2. rows.hosts[h].state = "deleted" /\ rows.hosts[h].deleted_at <= SegmentOf(h).deleted_at + Lag
      BY <1>1, <2>2, <2>4, <2>6 DEF Follows, Purgings
    <3>3. clock \in Nat /\ rows.hosts[h].deleted_at \in 1 .. clock
      BY <2>2, <3>2, HostsAreTables DEF IInv, TypeInv, SoundInv, Sound
    <3>4. ~(rows.hosts[h].deleted_at \in 1 .. purge.before - 1)
      BY <2>1, <3>1 DEF Old
    <3>5. purge.before \in Nat /\ Lag \in Nat
      BY <1>1, TablesAssumption DEF Purgings
    <3> QED
      BY <2>4, <3>2, <3>3, <3>4, <3>5
  <2> QED
    BY <2>5, <2>6
<1>16. PurgeInv'
  <2>1. purge'.pc = "going" => purge'.at \in 1 .. 6
    BY <1>1, <1>11
  <2> QED
    BY <1>1, <1>10, <1>11, <1>15, <2>1 DEF PurgeInv
<1> QED
  BY <1>9, <1>12, <1>13, <1>14, <1>16 DEF IInv, SoundInv

LEMMA PurgeTableKeepsIInv ==
  ASSUME IInv, PurgeTable
  PROVE  IInv'
<1> DEFINE t == PurgeOrder[purge.at]
<1>1. /\ purge.pc = "going" /\ clock' = clock /\ raced' = raced /\ changes' = changes
      /\ purge.at \in 1 .. 6 /\ purge \in Purgings /\ RowsAre
  BY DEF PurgeTable, IInv, TypeInv, PurgeInv
<1>2. t \in TableNames
  BY <1>1, PurgesHostsFirst
<1>3. PICK out \in Oldest(t) :
        IF Referred(t, out)
        THEN purge' = [purge EXCEPT !.pc = "failed"] /\ UNCHANGED <<rows, walk>>
        ELSE LET total == purge.total + Cardinality(out) IN
               /\ rows' = [rows EXCEPT ![t] = [i \in Ids |->
                             IF i \in out THEN [Absent EXCEPT !.state = "purged"] ELSE @[i]]]
               /\ Unsettle([Only(t, 0) EXCEPT ![t] = out], FALSE)
               /\ purge' = [purge EXCEPT !.total = total, !.at = @ + 1,
                              !.pc = IF (total = purge.max_rows /\ total > 0) \/ purge.at = Len(PurgeOrder)
                                       THEN "ended" ELSE "going"]
  BY DEF PurgeTable
<1>4. CASE Referred(t, out)
  BY <1>1, <1>3, <1>4, StoppedPurge
<1>5. CASE ~Referred(t, out)
  <2> DEFINE total == purge.total + Cardinality(out)
  <2>1. rows' = [rows EXCEPT ![t] = [i \in Ids |->
                   IF i \in out THEN [Absent EXCEPT !.state = "purged"] ELSE rows[t][i]]]
    BY <1>1, <1>2, <1>3, <1>5 DEF RowsAre
  <2>2. Unsettle([Only(t, 0) EXCEPT ![t] = out], FALSE)
    BY <1>3, <1>5
  <2>3. purge' = [purge EXCEPT !.total = total, !.at = purge.at + 1,
                    !.pc = IF (total = purge.max_rows /\ total > 0) \/ purge.at = Len(PurgeOrder)
                             THEN "ended" ELSE "going"]
    BY <1>1, <1>3, <1>5 DEF Purgings
  <2> HIDE DEF total
  <2>4. total = purge.total + Cardinality(out)
    BY DEF total
  <2> HIDE DEF t
  <2>5. t = PurgeOrder[purge.at]
    BY DEF t
  <2> QED
    BY <1>1, <1>5, <2>1, <2>2, <2>3, <2>4, <2>5, PurgedTable
<1> QED
  BY <1>4, <1>5

LEMMA NextIInv == IInv /\ [Next]_vars => IInv'
<1> SUFFICES ASSUME IInv, [Next]_vars PROVE IInv'
  OBVIOUS
<1>1. TypeInv /\ WalkInv
  BY DEF IInv
<1>2. CASE Ask
  <2>1. UNCHANGED <<rows, clock, purge, raced, changes>>
    BY <1>2 DEF Ask
  <2> QED
    BY <1>1, <1>2, <2>1, AskKeepsWalk, RestStays
<1>3. CASE Query
  <2>1. UNCHANGED <<rows, clock, purge, raced, changes>>
    BY <1>3 DEF Query
  <2> QED
    BY <1>1, <1>3, <2>1, QueryKeepsWalk, RestStays
<1>4. ASSUME NEW t \in Written, Create(t) PROVE IInv'
  BY <1>4, CreateKeepsIInv
<1>5. ASSUME NEW t \in Written, NEW i \in Ids, Update(t, i) PROVE IInv'
  BY <1>5, UpdateKeepsIInv
<1>6. ASSUME NEW t \in Written \cap Deletable, NEW i \in Ids, Delete(t, i) PROVE IInv'
  BY <1>6, DeleteKeepsIInv
<1>7. CASE Tick
  BY <1>7, TickKeepsIInv
<1>8. ASSUME NEW c \in Purges, StartPurge(c) PROVE IInv'
  BY <1>8, StartPurgeKeepsIInv
<1>9. CASE PurgeTable
  BY <1>9, PurgeTableKeepsIInv
<1>10. CASE UNCHANGED vars
  <2>1. UNCHANGED <<rows, clock, purge, raced, changes>> /\ walk' = walk
    BY <1>10 DEF vars
  <2>2. RowsAre'
    BY <1>1, <2>1 DEF TypeInv, RowsAre
  <2>3. (IsWalking' \/ walk'.pc = "done" => walk' \in Walks) /\ WalkInv'
    BY <1>1, <2>1, <2>2, CreateKeepsWalk
  <2> QED
    BY <2>1, <2>3, RestStays
<1> QED
  BY <1>2, <1>3, <1>4, <1>5, <1>6, <1>7, <1>8, <1>9, <1>10 DEF Next

-----------------------------------------------------------------------------
(* The theorems *)

\* The inductive invariant holds in every state: the types, what soft deletes
\* leave of hosts and segments, which hosts a purge has left behind it, and
\* that a row that stays put was seen if and only if the marker is past it.
THEOREM Inductive == Spec => []IInv
<1>1. Init => IInv
  BY InitIInv
<1>2. IInv /\ [Next]_vars => IInv'
  BY NextIInv
<1> QED
  BY <1>1, <1>2, PTL DEF Spec

\* Whatever is created, updated, soft-deleted and purged between two pages of
\* a list, and whatever the keys, directions, filter and limit of the list: a
\* walk to the end sees each row that stays put exactly once, unless its
\* marker was moved (the ..._get_all_by_filters functions of the database
\* layer and paginate_query, whose last key is the id).
THEOREM PagesShowEachOnce == Spec => []EachOnce
<1>1. IInv => EachOnce
  <2> SUFFICES ASSUME IInv, walk.pc \in { "ask", "query", "done" }, ~Slipped,
                      NEW i \in walk.steady
               PROVE  IF walk.pc = "done" THEN walk.seen[i] = 1 ELSE walk.seen[i] <= 1
    BY DEF EachOnce, Slipped
  <2>1. CASE walk.pc = "done"
    BY <2>1 DEF IInv, WalkInv
  <2>2. CASE walk.pc # "done"
    <3>1. IsWalking
      BY <2>2 DEF IsWalking
    <3>2. Passed(walk.request, i)
      BY <3>1 DEF IInv, WalkInv, WalkInvOf
    <3> QED
      BY <2>2, <3>2 DEF Passed
  <2> QED
    BY <2>1, <2>2
<1> QED
  BY <1>1, Inductive, PTL

\* However deletions, creations and the tables of a purge interleave, nothing
\* stops `db purge' at a foreign key but an orphan, a host that was created
\* into a segment that was deleted meanwhile, or a host that was deleted with
\* a segment about the time the purge goes by; and it keeps to max_rows over
\* all its tables together.
THEOREM PurgeStopsForOrphans == Spec => []OnlyOrphansStopPurge
<1>1. IInv => OnlyOrphansStopPurge
  BY DEF IInv, PurgeInv, OnlyOrphansStopPurge
<1> QED
  BY <1>1, Inductive, PTL

\* failover_segment_delete leaves no live host behind but one that was created
\* into the segment by a request that had read it before, and no purge takes
\* the row of a segment that a host refers to.
THEOREM HostsGoWithSegments == Spec => []HostsFollowSegments
<1>1. IInv => HostsFollowSegments
  BY DEF IInv, SoundInv, HostsFollowSegments
<1> QED
  BY <1>1, Inductive, PTL
=============================================================================
