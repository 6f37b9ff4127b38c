-------------------------- MODULE MultiOpenProofs --------------------------
(***************************************************************************)
(* The grouping of the openings, for any commitments, points and lists of  *)
(* queries: nothing is lost, mixed or repeated, only real repetitions are  *)
(* refused, and the padding does what it is for.                           *)
(***************************************************************************)
EXTENDS MultiOpen, PointSetsLemmas

Commitments == Keys \cup FixedKeys

\* The entries of the map of commitments.
Entries == [com : Commitments, point_indices : Seq(Nat)]

\* What the first loop knows after n of the queries qs: every point has one
\* number, every commitment one entry, with the numbers of exactly its points.
EntryIs(qs, n, pts, entry) ==
    /\ ToSet(entry.point_indices) # {} /\ ToSet(entry.point_indices) \subseteq DOMAIN pts
    /\ \A x \in ToSet(entry.point_indices) :
          \E q \in 1 .. n : qs[q] = [com |-> entry.com, point |-> pts[x]]

Numbered(pts, entry, query) ==
    entry.com = query.com /\ \E x \in ToSet(entry.point_indices) : pts[x] = query.point

Scanned(qs, n, pts, m) ==
    /\ pts \in Seq(Points) /\ Distinct(pts)
    /\ m \in Seq(Entries)
    /\ \A i, j \in DOMAIN m : m[i].com = m[j].com => i = j
    /\ \A i \in DOMAIN m : EntryIs(qs, n, pts, m[i])
    /\ \A q \in 1 .. n : \E i \in DOMAIN m : Numbered(pts, m[i], qs[q])

-----------------------------------------------------------------------------
(* One query of the first loop.                                            *)

Holds(new, pts, p) ==
    /\ new \in Seq(Points) /\ Distinct(new)
    /\ DOMAIN pts \subseteq DOMAIN new /\ \A x \in DOMAIN pts : new[x] = pts[x]
    /\ Position(new, p) \in DOMAIN new /\ new[Position(new, p)] = p

\* Scanning a point leaves it in the list of the points.
LEMMA PointScanned ==
    ASSUME NEW pts \in Seq(Points), Distinct(pts), NEW p \in Points
    PROVE  Holds(ScanPoint(pts, p), pts, p)
<1> DEFINE new == ScanPoint(pts, p)
<1> SUFFICES /\ new \in Seq(Points) /\ Distinct(new)
             /\ DOMAIN pts \subseteq DOMAIN new /\ \A x \in DOMAIN pts : new[x] = pts[x]
             /\ Position(new, p) \in DOMAIN new /\ new[Position(new, p)] = p
  BY DEF Holds
<1> HIDE DEF new
<1>1. Contains(pts, p) <=> p \in ToSet(pts)  BY PositionExact
<1>2. CASE p \in ToSet(pts)
  <2>1. new = pts  BY <1>1, <1>2 DEF ScanPoint, new
  <2>2. QED  BY <1>2, <2>1, PositionExact
<1>3. CASE p \notin ToSet(pts)
  <2>1. new = Append(pts, p)  BY <1>1, <1>3 DEF ScanPoint, new
  <2>2. new \in Seq(Points) /\ ToSet(new) = ToSet(pts) \cup {p}  BY <2>1, Appended
  <2>3. ToSet(pts) \subseteq Points  BY DEF ToSet
  <2>4. Distinct(new)
    <3>1. Ordered(pts, Different(Points))  BY DistinctOrdered
    <3>2. \A x \in ToSet(pts) : <<x, p>> \in Different(Points)
      BY <1>3, <2>3 DEF Different
    <3>3. Ordered(new, Different(Points))  BY <2>1, <3>1, <3>2, AppendedOrdered
    <3>4. QED  BY <2>2, <3>3, DistinctOrdered
  <2>5. DOMAIN pts \subseteq DOMAIN new /\ \A x \in DOMAIN pts : new[x] = pts[x]
    <3>1. PICK n \in Nat : Len(pts) = n /\ DOMAIN pts = 1 .. n  OBVIOUS
    <3>2. DOMAIN new = 1 .. n + 1 /\ \A x \in 1 .. n : new[x] = pts[x]  BY <2>1, <3>1
    <3>3. QED  BY <3>1, <3>2
  <2>6. p \in ToSet(new)  BY <2>2
  <2>7. QED  BY <2>2, <2>4, <2>5, <2>6, PositionExact
<1>4. QED  BY <1>2, <1>3

\* What was known of an entry stays true when a query was scanned.
LEMMA EntryKept ==
    ASSUME NEW qs, NEW n \in Nat, NEW pts, NEW new, NEW entry,
           EntryIs(qs, n, pts, entry),
           DOMAIN pts \subseteq DOMAIN new, \A x \in DOMAIN pts : new[x] = pts[x]
    PROVE  EntryIs(qs, n + 1, new, entry)
<1>1. \A q \in 1 .. n : q \in 1 .. n + 1  OBVIOUS
<1>2. QED  BY <1>1 DEF EntryIs

\* A number stays that of its point when points are added.
LEMMA NumberedKept ==
    ASSUME NEW qs, NEW n, NEW pts, NEW new, NEW entry, NEW query,
           EntryIs(qs, n, pts, entry), Numbered(pts, entry, query),
           \A x \in DOMAIN pts : new[x] = pts[x]
    PROVE  Numbered(new, entry, query)
BY DEF EntryIs, Numbered

\* Either no commitment is the query's and a new entry is appended, or the entry
\* of the commitment gets the number of the point.
Entered(pts, m, query, idx, next_map) ==
    \/ /\ \A i \in DOMAIN m : m[i].com # query.com
       /\ next_map = Append(m, [com |-> query.com, point_indices |-> <<idx>>])
    \/ \E pos \in DOMAIN m :
          /\ m[pos].com = query.com
          /\ next_map = [m EXCEPT ![pos] =
                [com |-> query.com, point_indices |-> Append(m[pos].point_indices, idx)]]

\* Scanning a commitment enters it with the number of its point.
LEMMA CommitmentEntered ==
    ASSUME NEW pts, NEW m \in Seq(Entries), NEW query
    PROVE  Entered(pts, m, query, Position(ScanPoint(pts, query.point), query.point),
                   ScanCommitment(pts, m, query))
<1>1. PICK n \in Nat : Len(m) = n /\ DOMAIN m = 1 .. n  OBVIOUS
<1>2. PICK I : I = {i \in 1 .. n : m[i].com = query.com}  OBVIOUS
<1>3. PICK pos : pos = IF I # {} THEN Min(I) ELSE 0  OBVIOUS
<1>4. PICK idx : idx = Position(ScanPoint(pts, query.point), query.point)  OBVIOUS
<1>5. ScanCommitment(pts, m, query) =
        IF pos = 0 THEN Append(m, [com |-> query.com, point_indices |-> <<idx>>])
        ELSE [m EXCEPT ![pos] =
                [com |-> query.com, point_indices |-> Append(m[pos].point_indices, idx)]]
  BY <1>1, <1>2, <1>3, <1>4 DEF ScanCommitment, SelectInSeq
<1>6. CASE I = {}
  <2>1. pos = 0 /\ \A i \in DOMAIN m : m[i].com # query.com  BY <1>1, <1>2, <1>3, <1>6
  <2>2. QED  BY <1>4, <1>5, <2>1 DEF Entered
<1>7. CASE I # {}
  <2>1. I \subseteq Nat  BY <1>2
  <2>2. pos \in I  BY <1>3, <1>7, <2>1, LeastOf
  <2>3. pos # 0 /\ pos \in DOMAIN m /\ m[pos].com = query.com  BY <1>1, <1>2, <2>2
  <2>4. QED  BY <1>4, <1>5, <2>3 DEF Entered
<1>8. QED  BY <1>6, <1>7

\* What a scan makes of an entry is an entry.
LEMMA EntriesTyped ==
    ASSUME NEW com \in Commitments, NEW list \in Seq(Nat), NEW idx \in Nat
    PROVE  /\ [com |-> com, point_indices |-> <<idx>>] \in Entries
           /\ [com |-> com, point_indices |-> Append(list, idx)] \in Entries
           /\ ToSet(<<idx>>) = {idx} /\ ToSet(Append(list, idx)) = ToSet(list) \cup {idx}
<1>1. <<idx>> \in Seq(Nat) /\ Append(list, idx) \in Seq(Nat)  OBVIOUS
<1>2. ToSet(Append(list, idx)) = ToSet(list) \cup {idx}  BY Appended
<1>3. ToSet(<<idx>>) = {idx}  BY DEF ToSet
<1>4. QED  BY <1>1, <1>2, <1>3 DEF Entries

\* A query more is scanned.
LEMMA ScanKeeps ==
    ASSUME NEW qs, NEW n \in Nat, NEW pts, NEW m, Scanned(qs, n, pts, m),
           NEW query \in Queries, qs[n + 1] = query
    PROVE  Scanned(qs, n + 1, ScanPoint(pts, query.point), ScanCommitment(pts, m, query))
<1>1. PICK new : new = ScanPoint(pts, query.point)  OBVIOUS
<1>2. PICK next_map : next_map = ScanCommitment(pts, m, query)  OBVIOUS
<1>3. PICK idx : idx = Position(new, query.point)  OBVIOUS
<1>4. query.com \in Commitments /\ query.point \in Points
      /\ query = [com |-> query.com, point |-> query.point]
  BY DEF Queries, Commitments
<1>5. pts \in Seq(Points) /\ Distinct(pts)  BY DEF Scanned
<1>6. /\ new \in Seq(Points) /\ Distinct(new)
      /\ DOMAIN pts \subseteq DOMAIN new /\ \A x \in DOMAIN pts : new[x] = pts[x]
      /\ idx \in DOMAIN new /\ new[idx] = query.point
  <2>1. Holds(new, pts, query.point)  BY <1>1, <1>4, <1>5, PointScanned
  <2>2. QED  BY <1>3, <2>1 DEF Holds
<1>7. idx \in Nat  BY <1>6
<1>8. PICK k \in Nat : Len(m) = k /\ DOMAIN m = 1 .. k /\ m \in Seq(Entries)
  BY DEF Scanned
<1>9. \A i, j \in 1 .. k : m[i].com = m[j].com => i = j  BY <1>8 DEF Scanned
<1>10. \A i \in 1 .. k : m[i] \in Entries /\ EntryIs(qs, n + 1, new, m[i])
  <2>1. \A i \in 1 .. k : EntryIs(qs, n, pts, m[i])  BY <1>8 DEF Scanned
  <2>2. \A i \in 1 .. k : m[i] \in Entries  BY <1>8
  <2>3. QED  BY <1>6, <2>1, <2>2, EntryKept
<1>11. ASSUME NEW q \in 1 .. n
       PROVE  \E i \in 1 .. k : Numbered(new, m[i], qs[q])
  <2>1. PICK i \in 1 .. k : Numbered(pts, m[i], qs[q])  BY <1>8 DEF Scanned
  <2>2. EntryIs(qs, n, pts, m[i])  BY <1>8, <2>1 DEF Scanned
  <2>3. Numbered(new, m[i], qs[q])  BY <1>6, <2>1, <2>2, NumberedKept
  <2>4. QED  BY <2>1, <2>3
<1>12. Entered(pts, m, query, idx, next_map)
  BY <1>1, <1>2, <1>3, <1>8, CommitmentEntered
<1>13. n + 1 \in 1 .. n + 1 /\ \A q \in 1 .. n + 1 : q \in 1 .. n \/ q = n + 1  OBVIOUS
<1> DEFINE Good(e) == /\ e \in Entries /\ e.com = query.com
                      /\ idx \in ToSet(e.point_indices) /\ EntryIs(qs, n + 1, new, e)
<1>14. ASSUME NEW e, Good(e)
       PROVE  Numbered(new, e, query)
  BY <1>6, <1>14 DEF Numbered
<1>15. CASE \A i \in DOMAIN m : m[i].com # query.com
  <2>1. PICK e : e = [com |-> query.com, point_indices |-> <<idx>>]  OBVIOUS
  <2>2. Good(e)
    <3>1. e \in Entries /\ e.com = query.com /\ ToSet(e.point_indices) = {idx}
      <4>1. <<>> \in Seq(Nat)  OBVIOUS
      <4>2. QED  BY <1>4, <1>7, <2>1, <4>1, EntriesTyped
    <3>2. EntryIs(qs, n + 1, new, e)
      BY <1>4, <1>6, <1>13, <3>1 DEF EntryIs
    <3>3. QED  BY <3>1, <3>2
  <2>3. next_map = Append(m, e)  BY <1>12, <1>15, <2>1 DEF Entered
  <2>4. next_map \in Seq(Entries)  BY <1>8, <2>2, <2>3
  <2>5. DOMAIN next_map = 1 .. k + 1 /\ next_map[k + 1] = e
        /\ \A i \in 1 .. k : next_map[i] = m[i]
    BY <1>8, <2>3
  <2>6. k + 1 \in 1 .. k + 1 /\ \A i \in 1 .. k + 1 : i \in 1 .. k \/ i = k + 1  OBVIOUS
  <2>7. \A i \in 1 .. k : i \in 1 .. k + 1 /\ m[i].com # e.com  BY <1>8, <1>15, <2>1
  <2>8. \A i, j \in 1 .. k + 1 : next_map[i].com = next_map[j].com => i = j
    BY <1>9, <2>5, <2>6, <2>7
  <2>9. \A i \in 1 .. k + 1 : EntryIs(qs, n + 1, new, next_map[i])
    BY <1>10, <2>2, <2>5, <2>6
  <2>10. \A q \in 1 .. n + 1 : \E i \in 1 .. k + 1 : Numbered(new, next_map[i], qs[q])
    <3>1. Numbered(new, next_map[k + 1], qs[n + 1])  BY <1>14, <2>2, <2>5
    <3>2. QED  BY <1>11, <1>13, <2>5, <2>6, <2>7, <3>1
  <2>11. QED  BY <1>1, <1>2, <1>6, <2>4, <2>5, <2>8, <2>9, <2>10 DEF Scanned
<1>16. CASE ~ \A i \in DOMAIN m : m[i].com # query.com
  <2>1. PICK pos \in DOMAIN m :
          /\ m[pos].com = query.com
          /\ next_map = [m EXCEPT ![pos] =
                [com |-> query.com, point_indices |-> Append(m[pos].point_indices, idx)]]
    BY <1>12, <1>16 DEF Entered
  <2>2. PICK e : e = [com |-> query.com, point_indices |-> Append(m[pos].point_indices, idx)]
    OBVIOUS
  <2>3. pos \in 1 .. k /\ m[pos] \in Entries  BY <1>8, <1>10, <2>1
  <2>4. PICK list \in Seq(Nat) : list = m[pos].point_indices  BY <2>3 DEF Entries
  <2>5. e \in Entries /\ e.com = query.com /\ ToSet(e.point_indices) = ToSet(list) \cup {idx}
    <3>1. e = [com |-> query.com, point_indices |-> Append(list, idx)]  BY <2>2, <2>4
    <3>2. /\ [com |-> query.com, point_indices |-> Append(list, idx)] \in Entries
          /\ ToSet(Append(list, idx)) = ToSet(list) \cup {idx}
      BY <1>4, <1>7, EntriesTyped
    <3>3. QED  BY <3>1, <3>2
  <2>6. EntryIs(qs, n + 1, new, e)
    <3>1. EntryIs(qs, n + 1, new, m[pos])  BY <1>10, <2>3
    <3>2. /\ ToSet(list) \subseteq DOMAIN new
          /\ \A x \in ToSet(list) :
                \E q \in 1 .. n + 1 : qs[q] = [com |-> query.com, point |-> new[x]]
      BY <2>1, <2>4, <3>1 DEF EntryIs
    <3>3. qs[n + 1] = [com |-> query.com, point |-> new[idx]]  BY <1>4, <1>6
    <3>4. QED  BY <1>6, <1>13, <2>5, <3>2, <3>3 DEF EntryIs
  <2>7. Good(e)  BY <2>5, <2>6
  <2>8. next_map = [m EXCEPT ![pos] = e]  BY <2>1, <2>2
  <2>9. next_map \in Seq(Entries) /\ DOMAIN next_map = 1 .. k /\ next_map[pos] = e
        /\ \A i \in 1 .. k : i # pos => next_map[i] = m[i]
    BY <1>8, <2>3, <2>5, <2>8
  <2>10. \A i \in 1 .. k : next_map[i].com = m[i].com  BY <2>1, <2>5, <2>9
  <2>11. \A i, j \in 1 .. k : next_map[i].com = next_map[j].com => i = j
    BY <1>9, <2>10
  <2>12. \A i \in 1 .. k : EntryIs(qs, n + 1, new, next_map[i])
    BY <1>10, <2>7, <2>9
  <2>13. \A q \in 1 .. n + 1 : \E i \in 1 .. k : Numbered(new, next_map[i], qs[q])
    <3>1. Numbered(new, next_map[pos], qs[n + 1])  BY <1>14, <2>7, <2>9
    <3>2. ASSUME NEW q \in 1 .. n
          PROVE  \E i \in 1 .. k : Numbered(new, next_map[i], qs[q])
      <4>1. PICK i \in 1 .. k : Numbered(new, m[i], qs[q])  BY <1>11
      <4>2. CASE i # pos  BY <2>9, <4>1, <4>2
      <4>3. CASE i = pos
        <5>1. Numbered(new, e, qs[q])
          BY <2>1, <2>4, <2>5, <4>1, <4>3 DEF Numbered
        <5>2. QED  BY <2>3, <2>9, <5>1
      <4>4. QED  BY <4>2, <4>3
    <3>3. QED  BY <1>13, <2>3, <3>1, <3>2
  <2>14. QED  BY <1>1, <1>2, <1>6, <2>9, <2>11, <2>12, <2>13 DEF Scanned
<1>17. QED  BY <1>15, <1>16

-----------------------------------------------------------------------------
(* The invariant.                                                          *)

FixedAtX(qs) == \A i \in DOMAIN qs : qs[i].com \in FixedKeys => qs[i].point = X

\* The caller's list, before the padding.
IsCaller(caller) ==
    /\ caller \in Seq(Queries) /\ FixedAtX(caller)
    /\ asked = Len(caller) /\ asked # 0
    /\ enabled => Distinct(caller)
    /\ queries = IF enabled THEN caller \o DummyQueries(caller) ELSE caller

Collecting == next = 1 /\ asked = 0 /\ FixedAtX(queries)

MultiOpenInv ==
    /\ enabled \in BOOLEAN
    /\ queries \in Seq(Queries)
    /\ next \in 1 .. Len(queries) + 1
    /\ Scanned(queries, next - 1, points, map)
    /\ stage \in {"collect", "scan", "done", "error", "panic"}
    /\ stage \in {"collect", "panic"} => Collecting
    /\ stage \in {"scan", "done", "error"} => \E caller : IsCaller(caller)
    /\ stage = "panic" => Duplicates
    /\ stage = "error" => next <= Len(queries) /\ ScanDuplicate(points, map, queries[next])
    /\ IF stage = "done" THEN next > Len(queries) /\ sets = GroupedSets ELSE sets = <<>>

\* What was scanned does not depend on later queries.
LEMMA ScannedSame ==
    ASSUME NEW a, NEW b, NEW n, NEW pts, NEW m, Scanned(a, n, pts, m),
           \A q \in 1 .. n : a[q] = b[q]
    PROVE  Scanned(b, n, pts, m)
<1>1. \A i \in DOMAIN m : EntryIs(b, n, pts, m[i])  BY DEF Scanned, EntryIs
<1>2. \A q \in 1 .. n : \E i \in DOMAIN m : Numbered(pts, m[i], b[q])  BY DEF Scanned
<1>3. QED  BY <1>1, <1>2 DEF Scanned

\* A query is a commitment and a point.
LEMMA QueriesAre == Queries = [com : Commitments, point : Points]
BY DEF Queries, Commitments

\* The grouping depends on the scanned queries alone.
LEMMA GroupedSame == UNCHANGED <<queries, points, map>> => GroupedSets' = GroupedSets
BY DEF GroupedSets, Members

\* The invariant holds at the start.
LEMMA MultiOpenInit == Init => MultiOpenInv
<1> SUFFICES ASSUME Init PROVE MultiOpenInv
  OBVIOUS
<1>1. queries \in Seq(Queries) /\ Len(queries) = 0 /\ DOMAIN queries = {}  BY DEF Init
<1>2. Scanned(queries, next - 1, points, map)
  <2>1. next - 1 = 0 /\ 1 .. 0 = {} /\ points = <<>> /\ map = <<>>  BY DEF Init
  <2>2. /\ points \in Seq(Points) /\ map \in Seq(Entries)
        /\ DOMAIN points = {} /\ DOMAIN map = {}
    BY <2>1
  <2>3. QED  BY <2>1, <2>2 DEF Scanned, Distinct
<1>3. Collecting  BY <1>1 DEF Init, Collecting, FixedAtX
<1>4. QED  BY <1>1, <1>2, <1>3 DEF Init, MultiOpenInv

\* Asking for an opening keeps the invariant.
LEMMA AddQueryKeeps == ASSUME MultiOpenInv, AddQuery PROVE MultiOpenInv'
<1>1. /\ stage = "collect" /\ UNCHANGED <<enabled, asked, next, points, map, sets, stage>>
      /\ next = 1 /\ asked = 0 /\ FixedAtX(queries)
      /\ Scanned(queries, next - 1, points, map)
  BY DEF AddQuery, MultiOpenInv, Collecting
<1>2. PICK q \in Queries : /\ q.com \in FixedKeys => q.point = X
                          /\ queries' = Append(queries, q)
  BY DEF AddQuery
<1>3. PICK n \in Nat : Len(queries) = n /\ DOMAIN queries = 1 .. n /\ queries \in Seq(Queries)
  BY DEF MultiOpenInv
<1>4. /\ queries' \in Seq(Queries) /\ DOMAIN queries' = 1 .. n + 1 /\ Len(queries') = n + 1
      /\ queries'[n + 1] = q /\ \A i \in 1 .. n : queries'[i] = queries[i]
  BY <1>2, <1>3
<1>5. FixedAtX(queries')
  <2>1. \A i \in 1 .. n + 1 : i \in 1 .. n \/ i = n + 1  OBVIOUS
  <2>2. QED  BY <1>1, <1>2, <1>3, <1>4, <2>1 DEF FixedAtX
<1>6. Scanned(queries', next' - 1, points', map')
  <2>1. next - 1 = 0 /\ 1 .. 0 = {} /\ next' = next /\ points' = points /\ map' = map
    BY <1>1
  <2>2. Scanned(queries, 0, points, map)  BY <1>1, <2>1
  <2>3. Scanned(queries', 0, points, map)  BY <2>1, <2>2, ScannedSame
  <2>4. QED  BY <2>1, <2>3
<1>7. Collecting'  BY <1>1, <1>5 DEF Collecting
<1>8. next' \in 1 .. Len(queries') + 1  BY <1>1, <1>4
<1>9. enabled' \in BOOLEAN /\ sets' = <<>> /\ stage' = "collect"
  BY <1>1 DEF MultiOpenInv
<1>10. QED  BY <1>4, <1>6, <1>7, <1>8, <1>9 DEF MultiOpenInv

\* Padding with dummy queries keeps the invariant.
LEMMA PadKeeps == ASSUME MultiOpenInv, Pad PROVE MultiOpenInv'
<1>1. /\ stage = "collect" /\ stage' = "scan" /\ asked' = Len(queries)
      /\ UNCHANGED <<enabled, next, points, map, sets>>
      /\ next = 1 /\ FixedAtX(queries) /\ queries # <<>>
      /\ Scanned(queries, next - 1, points, map)
      /\ queries' = IF enabled THEN queries \o DummyQueries(queries) ELSE queries
      /\ enabled => ~Duplicates
  BY DEF Pad, MultiOpenInv, Collecting
<1>2. queries \in Seq(Queries) /\ enabled \in BOOLEAN /\ sets = <<>>
  BY <1>1 DEF MultiOpenInv
<1>3. queries' \in Seq(Queries) /\ Len(queries') \in Nat
  <2>1. queries \o DummyQueries(queries) \in Seq(Queries)
    <3>1. queries \in Seq([com : Commitments, point : Points])  BY <1>2, QueriesAre
    <3>2. QED  BY <3>1, QueriesAre, PaddedExact
  <2>2. queries' \in Seq(Queries)  BY <1>1, <1>2, <2>1
  <2>3. QED  BY <2>2
<1>4. Scanned(queries', next' - 1, points', map')
  <2>1. next - 1 = 0 /\ 1 .. 0 = {} /\ next' = next /\ points' = points /\ map' = map
    BY <1>1
  <2>2. Scanned(queries, 0, points, map)  BY <1>1, <2>1
  <2>3. Scanned(queries', 0, points, map)  BY <2>1, <2>2, ScannedSame
  <2>4. QED  BY <2>1, <2>3
<1>5. PICK caller \in Seq(Queries) : caller = queries  BY <1>2
<1>6. enabled => Distinct(caller)  BY <1>1, <1>5 DEF Duplicates, Distinct
<1>7. asked' # 0  BY <1>1, <1>2
<1>8. IsCaller(caller)'
  BY <1>1, <1>5, <1>6, <1>7 DEF IsCaller
<1>9. next' \in 1 .. Len(queries') + 1  BY <1>1, <1>3
<1>10. QED  BY <1>1, <1>2, <1>3, <1>4, <1>8, <1>9 DEF MultiOpenInv

\* Scanning a query keeps the invariant.
LEMMA ScanStepKeeps == ASSUME MultiOpenInv, Scan PROVE MultiOpenInv'
<1>1. /\ stage = "scan" /\ UNCHANGED <<enabled, queries, asked, sets, stage>>
      /\ next' = next + 1 /\ points' = ScanPoint(points, queries[next].point)
      /\ map' = ScanCommitment(points, map, queries[next])
      /\ next <= Len(queries)
  BY DEF Scan
<1>2. /\ queries \in Seq(Queries) /\ next \in 1 .. Len(queries) + 1
      /\ Scanned(queries, next - 1, points, map) /\ sets = <<>> /\ enabled \in BOOLEAN
  BY <1>1 DEF MultiOpenInv
<1>3. PICK query : query = queries[next]  OBVIOUS
<1>4. query \in Queries  BY <1>1, <1>2, <1>3
<1>5. PICK n \in Nat : next = n + 1
  <2>1. next - 1 \in Nat /\ next = (next - 1) + 1  BY <1>2
  <2>2. QED  BY <2>1
<1>6. Scanned(queries, n + 1, points', map')
  <2>1. n + 1 - 1 = n  OBVIOUS
  <2>2. Scanned(queries, n, points, map) /\ queries[n + 1] = query  BY <1>2, <1>3, <1>5, <2>1
  <2>3. QED  BY <1>1, <1>3, <1>4, <2>2, ScanKeeps
<1>7. next' - 1 = n + 1 /\ queries' = queries  BY <1>1, <1>5
<1>8. Scanned(queries', next' - 1, points', map')  BY <1>6, <1>7
<1>9. next' \in 1 .. Len(queries') + 1  BY <1>1, <1>2
<1>10. \E caller : IsCaller(caller)'
  <2>1. PICK caller : IsCaller(caller)  BY <1>1 DEF MultiOpenInv
  <2>2. IsCaller(caller)'  BY <1>1, <2>1 DEF IsCaller
  <2>3. QED  BY <2>2
<1>11. QED  BY <1>1, <1>2, <1>7, <1>8, <1>9, <1>10 DEF MultiOpenInv

\* The remaining steps keep the invariant.
LEMMA OtherStepsKeep ==
    ASSUME MultiOpenInv, PadPanics \/ ScanFails \/ Group \/ UNCHANGED vars
    PROVE  MultiOpenInv'
<1>1. UNCHANGED <<enabled, queries, asked, next, points, map>>
  BY DEF PadPanics, ScanFails, Group, vars
<1>2. GroupedSets' = GroupedSets  BY <1>1, GroupedSame
<1>3. /\ enabled' \in BOOLEAN /\ queries' \in Seq(Queries) /\ next' \in 1 .. Len(queries') + 1
      /\ Scanned(queries', next' - 1, points', map')
  BY <1>1 DEF MultiOpenInv
<1>4. Collecting => Collecting'  BY <1>1 DEF Collecting
<1>5. ASSUME NEW caller, IsCaller(caller)
      PROVE  IsCaller(caller)'
  BY <1>1, <1>5 DEF IsCaller
<1>6. Duplicates => Duplicates'  BY <1>1 DEF Duplicates
<1>7. CASE PadPanics
  <2>1. stage = "collect" /\ stage' = "panic" /\ sets' = sets /\ Duplicates
    BY <1>7 DEF PadPanics
  <2>2. Collecting /\ sets = <<>>  BY <2>1 DEF MultiOpenInv
  <2>3. QED  BY <1>3, <1>4, <1>6, <2>1, <2>2 DEF MultiOpenInv
<1>8. CASE ScanFails
  <2>1. stage = "scan" /\ stage' = "error" /\ sets' = sets
        /\ next <= Len(queries) /\ ScanDuplicate(points, map, queries[next])
    BY <1>8 DEF ScanFails
  <2>2. sets = <<>> /\ \E caller : IsCaller(caller)  BY <2>1 DEF MultiOpenInv
  <2>3. \E caller : IsCaller(caller)'  BY <1>5, <2>2
  <2>4. next' <= Len(queries') /\ ScanDuplicate(points', map', queries'[next'])
    BY <1>1, <2>1
  <2>5. QED  BY <1>3, <2>1, <2>2, <2>3, <2>4 DEF MultiOpenInv
<1>9. CASE Group
  <2>1. stage = "scan" /\ stage' = "done" /\ next > Len(queries) /\ sets' = GroupedSets
    BY <1>9 DEF Group
  <2>2. \E caller : IsCaller(caller)  BY <2>1 DEF MultiOpenInv
  <2>3. \E caller : IsCaller(caller)'  BY <1>5, <2>2
  <2>4. next' > Len(queries') /\ sets' = GroupedSets'  BY <1>1, <1>2, <2>1
  <2>5. QED  BY <1>3, <2>1, <2>3, <2>4 DEF MultiOpenInv
<1>10. CASE UNCHANGED vars
  <2>1. stage' = stage /\ sets' = sets  BY <1>10 DEF vars
  <2>2. stage \in {"scan", "done", "error"} => \E caller : IsCaller(caller)'
    BY <1>5 DEF MultiOpenInv
  <2>3. stage = "error" => next' <= Len(queries') /\ ScanDuplicate(points', map', queries'[next'])
    BY <1>1 DEF MultiOpenInv
  <2>4. IF stage' = "done" THEN next' > Len(queries') /\ sets' = GroupedSets' ELSE sets' = <<>>
    BY <1>1, <1>2, <2>1 DEF MultiOpenInv
  <2>5. QED  BY <1>3, <1>4, <1>6, <2>1, <2>2, <2>3, <2>4 DEF MultiOpenInv
<1>11. QED  BY <1>7, <1>8, <1>9, <1>10

\* The invariant holds of every run of construct_intermediate_sets.
THEOREM MultiOpenInvariant == Spec => []MultiOpenInv
<1>1. MultiOpenInv /\ [Next]_vars => MultiOpenInv'
  BY AddQueryKeeps, PadKeeps, ScanStepKeeps, OtherStepsKeep DEF Next
<1>2. QED  BY MultiOpenInit, <1>1, PTL DEF Spec

\* While the first loop runs, the numbers of the points are distinct and every
\* commitment's entry lists exactly the points it was opened at so far, for any
\* queries: ScanExact, the invariant of construct_intermediate_sets' first loop.
THEOREM ScanExactTheorem == Spec => []ScanExact
<1>1. ASSUME MultiOpenInv PROVE ScanExact
  <2>1. Scanned(queries, next - 1, points, map)  BY <1>1 DEF MultiOpenInv
  <2>2. \A i, j \in DOMAIN points : points[i] = points[j] => i = j
    BY <2>1 DEF Scanned, Distinct
  <2>3. \A i, j \in DOMAIN map : map[i].com = map[j].com => i = j
    BY <2>1 DEF Scanned
  <2>4. \A i \in DOMAIN map : \A n \in ToSet(map[i].point_indices) :
           /\ n \in DOMAIN points
           /\ \E q \in 1 .. next - 1 :
                 queries[q] = [com |-> map[i].com, point |-> points[n]]
    BY <2>1 DEF Scanned, EntryIs
  <2>5. \A q \in 1 .. next - 1 : \E i \in DOMAIN map :
           /\ map[i].com = queries[q].com
           /\ \E n \in ToSet(map[i].point_indices) : points[n] = queries[q].point
    BY <2>1 DEF Scanned, Numbered
  <2>6. QED  BY <2>2, <2>3, <2>4, <2>5 DEF ScanExact
<1>2. QED  BY <1>1, MultiOpenInvariant, PTL

-----------------------------------------------------------------------------
(* The point sets and their members.                                       *)

Indices(entry) == ToSet(entry.point_indices)

PointsOfSet(pts, I) ==
    LET order == Ascending(pts, I) IN [j \in DOMAIN order |-> pts[order[j]]]

IndexSets(sets_of, m) ==
    /\ Distinct(sets_of)
    /\ \A I : I \in ToSet(sets_of) <=> \E i \in DOMAIN m : I = Indices(m[i])
    /\ \A i \in DOMAIN m : /\ SetIndex(m, i) \in DOMAIN sets_of
                          /\ sets_of[SetIndex(m, i)] = Indices(m[i])

\* Every set of indices of a commitment is found, once.
LEMMA PointIdxSetsExact ==
    ASSUME NEW D, NEW m \in Seq(Entries), \A i \in DOMAIN m : Indices(m[i]) \subseteq D
    PROVE  PointIdxSets(m) \in Seq(SUBSET D) /\ IndexSets(PointIdxSets(m), m)
<1>1. PICK k \in Nat : Len(m) = k /\ DOMAIN m = 1 .. k  OBVIOUS
<1>2. PICK all : all = [i \in 1 .. k |-> Indices(m[i])]  OBVIOUS
<1>3. all \in Seq(SUBSET D) /\ DOMAIN all = 1 .. k
  <2>1. all \in [1 .. k -> SUBSET D]  BY <1>1, <1>2
  <2>2. QED  BY <2>1
<1>4. PICK found : found = FirstOccurrences(all)  OBVIOUS
<1>5. found \in Seq(SUBSET D) /\ ToSet(found) = ToSet(all) /\ Distinct(found)
  BY <1>3, <1>4, FirstOccurrencesExact
<1>6. PointIdxSets(m) = found  BY <1>1, <1>2, <1>4 DEF PointIdxSets, Indices
<1>7. \A I : I \in ToSet(all) <=> \E i \in 1 .. k : I = Indices(m[i])
  BY <1>2, <1>3 DEF ToSet
<1>8. ASSUME NEW i \in 1 .. k
      PROVE  SetIndex(m, i) \in DOMAIN found /\ found[SetIndex(m, i)] = Indices(m[i])
  <2>1. Indices(m[i]) \in ToSet(found)  BY <1>5, <1>7
  <2>2. SetIndex(m, i) = Position(found, Indices(m[i]))  BY <1>6 DEF SetIndex, Indices
  <2>3. QED  BY <1>5, <2>1, <2>2, PositionExact
<1>9. QED  BY <1>1, <1>5, <1>6, <1>7, <1>8 DEF IndexSets

\* The points of a set of indices, each once.
LEMMA PointsOfSetExact ==
    ASSUME NEW pts \in Seq(Points), Distinct(pts), NEW I \in SUBSET DOMAIN pts
    PROVE  /\ PointsOfSet(pts, I) \in Seq(Points) /\ Distinct(PointsOfSet(pts, I))
           /\ \A p : p \in ToSet(PointsOfSet(pts, I)) <=> \E x \in I : p = pts[x]
<1>1. PICK order : order = Ascending(pts, I)  OBVIOUS
<1>2. order \in Seq(I) /\ ToSet(order) = I /\ Distinct(order)  BY <1>1, AscendingExact
<1>3. PICK n \in Nat : Len(order) = n /\ DOMAIN order = 1 .. n  BY <1>2
<1>4. \A j \in 1 .. n : order[j] \in I  BY <1>2, <1>3
<1>5. PICK list : list = [j \in 1 .. n |-> pts[order[j]]]  OBVIOUS
<1>6. PointsOfSet(pts, I) = list  BY <1>1, <1>3, <1>5 DEF PointsOfSet
<1>7. \A x \in I : pts[x] \in Points  OBVIOUS
<1>8. list \in Seq(Points)
  <2>1. list \in [1 .. n -> Points]  BY <1>4, <1>5, <1>7
  <2>2. QED  BY <2>1
<1>9. Distinct(list)  BY <1>2, <1>3, <1>4, <1>5 DEF Distinct
<1>10. \A p : p \in ToSet(list) <=> \E j \in 1 .. n : p = pts[order[j]]
  BY <1>5 DEF ToSet
<1>11. \A x : x \in I <=> \E j \in 1 .. n : x = order[j]  BY <1>2, <1>3 DEF ToSet
<1>12. QED  BY <1>6, <1>8, <1>9, <1>10, <1>11

\* The evaluations of a commitment stand in the order of its set's points.
LEMMA EvalsExact ==
    ASSUME NEW qs \in Seq(Queries), NEW pts, NEW m, NEW n, Len(qs) = n,
           Scanned(qs, n, pts, m), NEW i \in DOMAIN m,
           NEW list, list = PointsOfSet(pts, Indices(m[i]))
    PROVE  Evals(qs, pts, m, i) =
               [j \in DOMAIN list |-> [com |-> m[i].com, point |-> list[j]]]
<1>1. /\ pts \in Seq(Points) /\ Indices(m[i]) \in SUBSET DOMAIN pts
      /\ \A x \in Indices(m[i]) :
            \E q \in 1 .. n : qs[q] = [com |-> m[i].com, point |-> pts[x]]
  BY DEF Scanned, EntryIs, Indices
<1>2. n \in Nat /\ DOMAIN qs = 1 .. n  OBVIOUS
<1>3. PICK order : order = Ascending(pts, Indices(m[i]))  OBVIOUS
<1>4. order \in Seq(Indices(m[i]))  BY <1>1, <1>3, AscendingExact
<1>5. list = [j \in DOMAIN order |-> pts[order[j]]]  BY <1>3 DEF PointsOfSet
<1>6. DOMAIN list = DOMAIN order /\ \A j \in DOMAIN order : list[j] = pts[order[j]]
  BY <1>5
<1>7. ASSUME NEW j \in DOMAIN order
      PROVE  qs[SelectInSeq(qs, LAMBDA q : /\ q.com = m[i].com
                                           /\ q.point = pts[order[j]])]
               = [com |-> m[i].com, point |-> list[j]]
  <2>1. PICK p : p = pts[order[j]]  OBVIOUS
  <2>2. PICK I : I = {q \in 1 .. n : qs[q].com = m[i].com /\ qs[q].point = p}  OBVIOUS
  <2>3. order[j] \in Indices(m[i])  BY <1>4
  <2>4. PICK q \in 1 .. n : qs[q] = [com |-> m[i].com, point |-> p]  BY <1>1, <2>1, <2>3
  <2>5. I # {} /\ I \subseteq Nat  BY <2>2, <2>4
  <2>6. Min(I) \in I  BY <2>5, LeastOf
  <2>7. SelectInSeq(qs, LAMBDA x : x.com = m[i].com /\ x.point = pts[order[j]]) = Min(I)
    BY <1>2, <2>1, <2>2, <2>5 DEF SelectInSeq
  <2>8. /\ Min(I) \in 1 .. n /\ qs[Min(I)].com = m[i].com /\ qs[Min(I)].point = p
    BY <2>2, <2>6
  <2>9. qs[Min(I)] \in Queries  BY <1>2, <2>8
  <2>10. qs[Min(I)] = [com |-> m[i].com, point |-> p]  BY <2>8, <2>9 DEF Queries
  <2>11. QED  BY <1>6, <2>1, <2>7, <2>10
<1>8. Evals(qs, pts, m, i) =
        [j \in DOMAIN order |->
            qs[SelectInSeq(qs, LAMBDA q : /\ q.com = m[i].com
                                          /\ q.point = pts[order[j]])]]
  BY <1>3 DEF Evals, Indices
<1>9. QED  BY <1>6, <1>7, <1>8

\* A finished set: its points are those with the numbers I, its members the
\* commitments opened at exactly these, each with its evaluations in the order of
\* the points.
MembersAre(members, mine, list, m) ==
    /\ DOMAIN members = DOMAIN mine
    /\ \A j \in DOMAIN mine :
          /\ members[j].com = m[mine[j]].com
          /\ members[j].evals = [x \in DOMAIN list |->
                                    [com |-> m[mine[j]].com, point |-> list[x]]]

SetIs(set, I, pts, m) ==
    /\ set.points = PointsOfSet(pts, I)
    /\ \E mine : /\ Distinct(mine)
                 /\ \A i : i \in ToSet(mine) <=> i \in DOMAIN m /\ Indices(m[i]) = I
                 /\ MembersAre(set.members, mine, set.points, m)

Grouping(grouped, n, S, pts, m) ==
    /\ DOMAIN grouped = 1 .. n /\ Len(grouped) = n
    /\ S \in [1 .. n -> SUBSET DOMAIN pts]
    /\ \A s, t \in 1 .. n : S[s] = S[t] => s = t
    /\ \A i \in DOMAIN m : \E s \in 1 .. n : S[s] = Indices(m[i])
    /\ \A s \in 1 .. n : \E i \in DOMAIN m : S[s] = Indices(m[i])
    /\ \A s \in 1 .. n : SetIs(grouped[s], S[s], pts, m)
    /\ \A s, t \in 1 .. n : s < t => Len(grouped[s].points) <= Len(grouped[t].points)

\* A set holds the commitments that are opened at its points.
LEMMA MembersExact ==
    ASSUME queries \in Seq(Queries), NEW n, Len(queries) = n, Scanned(queries, n, points, map),
           NEW s, NEW found, found = PointIdxSets(map), s \in DOMAIN found,
           IndexSets(found, map),
           NEW set, set = [points |-> PointsOfSet(points, found[s]), members |-> Members(s)]
    PROVE  SetIs(set, found[s], points, map)
<1>1. map \in Seq(Entries)  BY DEF Scanned
<1>2. PICK S : S = {i \in DOMAIN map : SetIndex(map, i) = s}  OBVIOUS
<1>3. PICK mine : mine = Ascending(map, S)  OBVIOUS
<1>4. mine \in Seq(S) /\ ToSet(mine) = S /\ Distinct(mine)
  <2>1. S \in SUBSET DOMAIN map  BY <1>2
  <2>2. QED  BY <1>1, <1>3, <2>1, AscendingExact
<1>5. \A i \in DOMAIN map : SetIndex(map, i) = s <=> Indices(map[i]) = found[s]
  BY DEF IndexSets, Distinct
<1>6. \A i : i \in ToSet(mine) <=> i \in DOMAIN map /\ Indices(map[i]) = found[s]
  BY <1>2, <1>4, <1>5
<1>7. PICK list : list = PointsOfSet(points, found[s])  OBVIOUS
<1>8. MembersAre(Members(s), mine, list, map)
  <2>1. Members(s) =
          [j \in DOMAIN mine |-> [com   |-> map[mine[j]].com,
                                 evals |-> Evals(queries, points, map, mine[j])]]
    BY <1>2, <1>3 DEF Members
  <2>2. ASSUME NEW j \in DOMAIN mine
        PROVE  Evals(queries, points, map, mine[j]) =
                 [x \in DOMAIN list |-> [com |-> map[mine[j]].com, point |-> list[x]]]
    <3>1. PICK i : i = mine[j]  OBVIOUS
    <3>2. i \in DOMAIN map /\ Indices(map[i]) = found[s]
      <4>1. i \in ToSet(mine)  BY <3>1 DEF ToSet
      <4>2. QED  BY <1>6, <4>1
    <3>3. list = PointsOfSet(points, Indices(map[i]))  BY <1>7, <3>2
    <3>4. Evals(queries, points, map, i) =
            [x \in DOMAIN list |-> [com |-> map[i].com, point |-> list[x]]]
      BY <3>2, <3>3, EvalsExact
    <3>5. QED  BY <3>1, <3>4
  <2>3. QED  BY <2>1, <2>2 DEF MembersAre
<1>9. QED  BY <1>4, <1>6, <1>7, <1>8 DEF SetIs

\* The sets are a partition of the commitments by their points.
LEMMA GroupedExact ==
    ASSUME queries \in Seq(Queries), NEW n, Len(queries) = n, Scanned(queries, n, points, map)
    PROVE  \E k \in Nat : \E S : Grouping(GroupedSets, k, S, points, map)
<1>1. /\ map \in Seq(Entries) /\ points \in Seq(Points) /\ Distinct(points)
      /\ \A i \in DOMAIN map : Indices(map[i]) \subseteq DOMAIN points
  BY DEF Scanned, EntryIs, Indices
<1>2. PICK found : found = PointIdxSets(map)  OBVIOUS
<1>3. PICK D : D = DOMAIN points  OBVIOUS
<1>4. found \in Seq(SUBSET D) /\ IndexSets(found, map)
  BY <1>1, <1>2, <1>3, PointIdxSetsExact
<1>5. PICK k \in Nat : Len(found) = k /\ DOMAIN found = 1 .. k /\ found \in [1 .. k -> SUBSET D]
  BY <1>4
<1>6. PICK lists : lists = [s \in 1 .. k |-> PointsOfSet(points, found[s])]  OBVIOUS
<1>7. lists = SetPoints(points, map)
  BY <1>2, <1>5, <1>6 DEF SetPoints, PointsOfSet
<1>8. lists \in [1 .. k -> Seq(Points)]
  <2>1. \A s \in 1 .. k : PointsOfSet(points, found[s]) \in Seq(Points)
    BY <1>1, <1>3, <1>5, PointsOfSetExact
  <2>2. QED  BY <1>6, <2>1
<1>9. PICK order : order = CardinalityOrder(lists)  OBVIOUS
<1>10. /\ order \in [1 .. k -> 1 .. k]
       /\ \A s, t \in 1 .. k : s < t => Precedes(lists, order[s], order[t])
       /\ \A c \in 1 .. k : \E s \in 1 .. k : order[s] = c
       /\ \A s, t \in 1 .. k : order[s] = order[t] => s = t
  <2>1. /\ Sorts(order, k, lists)
        /\ \A c \in 1 .. k : \E s \in 1 .. k : order[s] = c
        /\ \A s, t \in 1 .. k : order[s] = order[t] => s = t
    <3>1. /\ Sorts(CardinalityOrder(lists), k, lists)
          /\ \A c \in 1 .. k : \E s \in 1 .. k : CardinalityOrder(lists)[s] = c
          /\ \A s, t \in 1 .. k :
                CardinalityOrder(lists)[s] = CardinalityOrder(lists)[t] => s = t
      BY <1>8, OrderExact, Zenon
    <3>2. QED  BY <1>9, <3>1, Zenon
  <2>2. QED  BY <2>1 DEF Sorts
<1>11. PICK grouped : grouped = [s \in 1 .. k |->
                         [points |-> lists[order[s]], members |-> Members(order[s])]]
  OBVIOUS
<1>12. grouped = GroupedSets
  <2>1. DOMAIN order = 1 .. k  BY <1>10
  <2>2. QED  BY <1>7, <1>9, <1>11, <2>1 DEF GroupedSets
<1>13. PICK S : S = [s \in 1 .. k |-> found[order[s]]]  OBVIOUS
<1>14. DOMAIN grouped = 1 .. k /\ Len(grouped) = k  BY <1>11
<1>15. S \in [1 .. k -> SUBSET D] /\ \A s \in 1 .. k : S[s] = found[order[s]]
  BY <1>5, <1>10, <1>13
<1>16. \A s, t \in 1 .. k : found[s] = found[t] => s = t
  BY <1>4, <1>5 DEF IndexSets, Distinct
<1>17. ASSUME NEW s \in 1 .. k, NEW t \in 1 .. k, S[s] = S[t]
       PROVE  s = t
  <2>1. order[s] \in 1 .. k /\ order[t] \in 1 .. k  BY <1>10
  <2>2. found[order[s]] = found[order[t]]  BY <1>15, <1>17
  <2>3. order[s] = order[t]  BY <1>16, <2>1, <2>2
  <2>4. QED  BY <1>10, <2>3
<1>18. ASSUME NEW i \in DOMAIN map
       PROVE  \E s \in 1 .. k : S[s] = Indices(map[i])
  <2>1. PICK c \in 1 .. k : found[c] = Indices(map[i])  BY <1>4, <1>5 DEF IndexSets
  <2>2. PICK s \in 1 .. k : order[s] = c  BY <1>10
  <2>3. QED  BY <1>15, <2>1, <2>2
<1>19. ASSUME NEW s \in 1 .. k
       PROVE  \E i \in DOMAIN map : S[s] = Indices(map[i])
  <2>1. found[order[s]] \in ToSet(found)  BY <1>5, <1>10 DEF ToSet
  <2>2. QED  BY <1>4, <1>15, <2>1 DEF IndexSets
<1>20. ASSUME NEW s \in 1 .. k
       PROVE  SetIs(grouped[s], S[s], points, map)
  <2>1. PICK c \in 1 .. k : c = order[s]  BY <1>10
  <2>2. grouped[s] = [points |-> PointsOfSet(points, found[c]), members |-> Members(c)]
    BY <1>6, <1>11, <2>1
  <2>3. SetIs(grouped[s], found[c], points, map)
    BY <1>2, <1>4, <1>5, <2>2, MembersExact
  <2>4. QED  BY <1>15, <2>1, <2>3
<1>21. ASSUME NEW s \in 1 .. k, NEW t \in 1 .. k, s < t
       PROVE  Len(grouped[s].points) <= Len(grouped[t].points)
  <2>1. PICK a : a = lists[order[s]]  OBVIOUS
  <2>2. PICK b : b = lists[order[t]]  OBVIOUS
  <2>3. a \in Seq(Points) /\ b \in Seq(Points)  BY <1>8, <1>10, <2>1, <2>2
  <2>4. Len(a) < Len(b) \/ Len(a) = Len(b)  BY <1>10, <1>21, <2>1, <2>2 DEF Precedes
  <2>5. grouped[s].points = a /\ grouped[t].points = b  BY <1>11, <2>1, <2>2
  <2>6. Len(a) \in Nat /\ Len(b) \in Nat  BY <2>3
  <2>7. QED  BY <2>4, <2>5, <2>6
<1>22. Grouping(grouped, k, S, points, map)
  BY <1>3, <1>14, <1>15, <1>17, <1>18, <1>19, <1>20, <1>21 DEF Grouping
<1>23. QED  BY <1>12, <1>22

\* The grouping at the end of a run.
LEMMA Finished ==
    ASSUME MultiOpenInv, stage = "done"
    PROVE  /\ queries \in Seq(Queries) /\ Len(queries) \in Nat
           /\ Scanned(queries, Len(queries), points, map)
           /\ \E k \in Nat : \E S : Grouping(sets, k, S, points, map)
<1>1. /\ queries \in Seq(Queries) /\ next \in 1 .. Len(queries) + 1
      /\ Scanned(queries, next - 1, points, map)
      /\ next > Len(queries) /\ sets = GroupedSets
  BY DEF MultiOpenInv
<1>2. Len(queries) \in Nat  BY <1>1
<1>3. next - 1 = Len(queries)  BY <1>1, <1>2
<1>4. Scanned(queries, Len(queries), points, map)  BY <1>1, <1>3
<1>5. \E k \in Nat : \E S : Grouping(GroupedSets, k, S, points, map)
  BY <1>1, <1>4, GroupedExact
<1>6. QED  BY <1>1, <1>2, <1>4, <1>5

\* Sets of numbers of distinct points are known by their points.
LEMMA SameNumbers ==
    ASSUME NEW pts \in Seq(Points), Distinct(pts),
           NEW I \in SUBSET DOMAIN pts, NEW J \in SUBSET DOMAIN pts,
           ToSet(PointsOfSet(pts, I)) \subseteq ToSet(PointsOfSet(pts, J))
    PROVE  I \subseteq J
<1>1. ASSUME NEW x \in I PROVE x \in J
  <2>1. pts[x] \in ToSet(PointsOfSet(pts, I))  BY PointsOfSetExact
  <2>2. PICK y \in J : pts[x] = pts[y]  BY <2>1, PointsOfSetExact
  <2>3. x \in DOMAIN pts /\ y \in DOMAIN pts  OBVIOUS
  <2>4. QED  BY <2>2, <2>3 DEF Distinct
<1>2. QED  BY <1>1

\* The invariant implies SetsExact.
LEMMA SetsAreExact == ASSUME MultiOpenInv, stage = "done" PROVE SetsExact
<1>1. /\ queries \in Seq(Queries) /\ Len(queries) \in Nat
      /\ Scanned(queries, Len(queries), points, map)
  BY Finished
<1>2. PICK k \in Nat : \E S : Grouping(sets, k, S, points, map)  BY Finished
<1>3. PICK S : Grouping(sets, k, S, points, map)  BY <1>2
<1>4. /\ points \in Seq(Points) /\ Distinct(points)
      /\ \A i, j \in DOMAIN map : map[i].com = map[j].com => i = j
  BY <1>1 DEF Scanned
<1>5. DOMAIN sets = 1 .. k /\ S \in [1 .. k -> SUBSET DOMAIN points]
  BY <1>3 DEF Grouping
<1>6. \A s, t \in 1 .. k : S[s] = S[t] => s = t  BY <1>3 DEF Grouping
<1>7. \A s \in 1 .. k : SetIs(sets[s], S[s], points, map)  BY <1>3 DEF Grouping
<1>8. \A s \in 1 .. k : S[s] \in SUBSET DOMAIN points
                        /\ sets[s].points = PointsOfSet(points, S[s])
  BY <1>5, <1>7 DEF SetIs
<1>9. ASSUME NEW q \in ToSet(queries)
      PROVE  \E s \in DOMAIN sets :
                /\ q.point \in ToSet(sets[s].points)
                /\ \E m \in DOMAIN sets[s].members : sets[s].members[m].com = q.com
  <2>1. PICK x \in 1 .. Len(queries) : queries[x] = q  BY <1>1 DEF ToSet
  <2>2. PICK i \in DOMAIN map : Numbered(points, map[i], q)  BY <1>1, <2>1 DEF Scanned
  <2>3. PICK s \in 1 .. k : S[s] = Indices(map[i])  BY <1>3 DEF Grouping
  <2>4. PICK y \in Indices(map[i]) : points[y] = q.point
    BY <2>2 DEF Numbered, Indices
  <2>5. q.point \in ToSet(sets[s].points)
    <3>1. q.point \in ToSet(PointsOfSet(points, S[s]))
      BY <1>4, <1>8, <2>3, <2>4, PointsOfSetExact
    <3>2. QED  BY <1>8, <3>1
  <2>6. PICK mine : /\ \A j : j \in ToSet(mine) <=> j \in DOMAIN map /\ Indices(map[j]) = S[s]
                    /\ MembersAre(sets[s].members, mine, sets[s].points, map)
    BY <1>7 DEF SetIs
  <2>7. i \in ToSet(mine)  BY <2>3, <2>6
  <2>8. PICK m \in DOMAIN mine : mine[m] = i  BY <2>7 DEF ToSet
  <2>9. m \in DOMAIN sets[s].members /\ sets[s].members[m].com = q.com
    BY <2>2, <2>6, <2>8 DEF MembersAre, Numbered
  <2>10. QED  BY <1>5, <2>5, <2>9
<1>10. ASSUME NEW s \in 1 .. k, NEW m \in DOMAIN sets[s].members,
              NEW p \in ToSet(sets[s].points)
       PROVE  [com |-> sets[s].members[m].com, point |-> p] \in ToSet(queries)
  <2>1. PICK mine : /\ \A j : j \in ToSet(mine) <=> j \in DOMAIN map /\ Indices(map[j]) = S[s]
                    /\ MembersAre(sets[s].members, mine, sets[s].points, map)
    BY <1>7 DEF SetIs
  <2>2. m \in DOMAIN mine /\ sets[s].members[m].com = map[mine[m]].com
    BY <2>1 DEF MembersAre
  <2>3. mine[m] \in ToSet(mine)  BY <2>2 DEF ToSet
  <2>4. mine[m] \in DOMAIN map /\ Indices(map[mine[m]]) = S[s]  BY <2>1, <2>3
  <2>5. p \in ToSet(PointsOfSet(points, S[s]))  BY <1>8
  <2>6. PICK x \in S[s] : p = points[x]  BY <1>4, <1>8, <2>5, PointsOfSetExact
  <2>7. EntryIs(queries, Len(queries), points, map[mine[m]])  BY <1>1, <2>4 DEF Scanned
  <2>8. PICK q \in 1 .. Len(queries) :
           queries[q] = [com |-> map[mine[m]].com, point |-> points[x]]
    BY <2>4, <2>6, <2>7 DEF EntryIs, Indices
  <2>9. queries[q] \in ToSet(queries)  BY <1>1 DEF ToSet
  <2>10. QED  BY <2>2, <2>6, <2>8, <2>9
<1>11. ASSUME NEW s \in 1 .. k, NEW t \in 1 .. k,
              ToSet(sets[s].points) = ToSet(sets[t].points)
       PROVE  s = t
  <2>1. S[s] \subseteq S[t] /\ S[t] \subseteq S[s]
    BY <1>4, <1>8, <1>11, SameNumbers
  <2>2. QED  BY <1>6, <2>1
<1>12. ASSUME NEW s \in 1 .. k, NEW t \in 1 .. k,
              NEW m \in DOMAIN sets[s].members, NEW n \in DOMAIN sets[t].members,
              sets[s].members[m].com = sets[t].members[n].com
       PROVE  s = t /\ m = n
  <2> DEFINE Listed(u, mine) ==
               /\ Distinct(mine)
               /\ \A j : j \in ToSet(mine) <=> j \in DOMAIN map /\ Indices(map[j]) = S[u]
               /\ MembersAre(sets[u].members, mine, sets[u].points, map)
  <2>1. PICK a : Listed(s, a)  BY <1>7 DEF SetIs
  <2>2. PICK b : Listed(t, b)  BY <1>7 DEF SetIs
  <2>3. m \in DOMAIN a /\ sets[s].members[m].com = map[a[m]].com  BY <2>1 DEF MembersAre
  <2>4. n \in DOMAIN b /\ sets[t].members[n].com = map[b[n]].com  BY <2>2 DEF MembersAre
  <2>5. a[m] \in ToSet(a) /\ b[n] \in ToSet(b)  BY <2>3, <2>4 DEF ToSet
  <2>6. a[m] \in DOMAIN map /\ Indices(map[a[m]]) = S[s]  BY <2>1, <2>5
  <2>7. b[n] \in DOMAIN map /\ Indices(map[b[n]]) = S[t]  BY <2>2, <2>5
  <2>8. a[m] = b[n]  BY <1>4, <1>12, <2>3, <2>4, <2>6, <2>7
  <2>9. s = t  BY <1>6, <2>6, <2>7, <2>8
  <2>10. n \in DOMAIN a /\ sets[s].members[n].com = map[a[n]].com
    BY <2>1, <2>9 DEF MembersAre
  <2>11. a[n] \in DOMAIN map
    <3>1. a[n] \in ToSet(a)  BY <2>10 DEF ToSet
    <3>2. QED  BY <2>1, <3>1
  <2>12. a[m] = a[n]  BY <1>4, <1>12, <2>3, <2>6, <2>9, <2>10, <2>11
  <2>13. m = n  BY <2>1, <2>3, <2>10, <2>12 DEF Distinct
  <2>14. QED  BY <2>9, <2>13
<1>13. QED  BY <1>5, <1>9, <1>10, <1>11, <1>12 DEF SetsExact

\* The invariant implies EvalsAligned.
LEMMA EvalsAreAligned == ASSUME MultiOpenInv PROVE EvalsAligned
<1>1. CASE stage # "done"
  <2>1. sets = <<>>  BY <1>1 DEF MultiOpenInv
  <2>2. DOMAIN sets = {}  BY <2>1
  <2>3. QED  BY <2>2 DEF EvalsAligned
<1>2. CASE stage = "done"
  <2>1. PICK k \in Nat : \E S : Grouping(sets, k, S, points, map)  BY <1>2, Finished
  <2>2. PICK S : Grouping(sets, k, S, points, map)  BY <2>1
  <2>3. DOMAIN sets = 1 .. k /\ \A s \in 1 .. k : SetIs(sets[s], S[s], points, map)
    BY <2>2 DEF Grouping
  <2>4. ASSUME NEW s \in 1 .. k, NEW m \in DOMAIN sets[s].members
        PROVE  sets[s].members[m].evals =
                 [j \in DOMAIN sets[s].points |->
                     [com |-> sets[s].members[m].com, point |-> sets[s].points[j]]]
    <3>1. PICK mine : MembersAre(sets[s].members, mine, sets[s].points, map)
      BY <2>3 DEF SetIs
    <3>2. QED  BY <3>1 DEF MembersAre
  <2>5. QED  BY <2>3, <2>4 DEF EvalsAligned
<1>3. QED  BY <1>1, <1>2

\* What construct_intermediate_sets returns, for any queries: every commitment is
\* in exactly one set, the one of all its points and no other, no two sets have
\* the same points, and every evaluation stands at the position of its point.
THEOREM GroupingExactTheorem == Spec => []GroupingExact
<1>1. ASSUME MultiOpenInv PROVE GroupingExact
  <2>1. stage # "done" => SetsExact  BY DEF SetsExact
  <2>2. QED  BY <1>1, <2>1, SetsAreExact, EvalsAreAligned DEF GroupingExact
<1>2. QED  BY <1>1, MultiOpenInvariant, PTL

-----------------------------------------------------------------------------
(* The padding.                                                            *)

\* What is known of the padded list, for the caller's list and the union of the
\* points of the commitments opened at several.
PaddedIs(caller, padded, union) ==
    /\ Distinct(caller) => Distinct(padded)
    /\ Coms(padded) = Coms(caller)
    /\ \A com \in Coms(caller) : PointsAt(padded, com) = PointsAt(caller, com) \cup union

\* What the caller asked for, and what was added to it.
LEMMA CallerIs ==
    ASSUME NEW caller, IsCaller(caller), queries \in Seq(Queries)
    PROVE  /\ caller \in Seq([com : Commitments, point : Points])
           /\ SubSeq(queries, 1, asked) = caller
           /\ enabled => PaddedIs(caller, queries, ToSet(UnionPoints(caller)))
<1>1. caller \in Seq([com : Commitments, point : Points])  BY QueriesAre DEF IsCaller
<1>2. DummyQueries(caller) \in Seq([com : Commitments, point : Points])
  BY <1>1, DummiesExact
<1>3. PICK more \in Seq([com : Commitments, point : Points]) : more = DummyQueries(caller)
  BY <1>2
<1>4. SubSeq(queries, 1, asked) = caller
  <2>1. SubSeq(caller \o more, 1, Len(caller)) = caller  BY <1>1, <1>3
  <2>2. SubSeq(caller, 1, Len(caller)) = caller  BY <1>1
  <2>3. QED  BY <1>3, <2>1, <2>2 DEF IsCaller
<1>5. ASSUME enabled
      PROVE  PaddedIs(caller, queries, ToSet(UnionPoints(caller)))
  <2>1. queries = caller \o DummyQueries(caller)  BY <1>5 DEF IsCaller
  <2>2. /\ Distinct(caller) => Distinct(caller \o DummyQueries(caller))
        /\ Coms(caller \o DummyQueries(caller)) = Coms(caller)
        /\ \A com \in Coms(caller) :
              PointsAt(caller \o DummyQueries(caller), com)
                  = PointsAt(caller, com) \cup ToSet(UnionPoints(caller))
    BY <1>1, PaddedExact, Zenon
  <2>3. QED  BY <2>1, <2>2 DEF PaddedIs
<1>6. QED  BY <1>1, <1>4, <1>5

\* A position within the list is the element's.
LEMMA PositionFound ==
    ASSUME NEW T, NEW s \in Seq(T), NEW e, Position(s, e) \in DOMAIN s
    PROVE  s[Position(s, e)] = e
<1>1. CASE e \in ToSet(s)  BY <1>1, PositionExact
<1>2. CASE e \notin ToSet(s)
  <2>1. PICK n \in Nat : Len(s) = n /\ DOMAIN s = 1 .. n  OBVIOUS
  <2>2. {i \in 1 .. n : s[i] = e} = {}  BY <1>2, <2>1 DEF ToSet
  <2>3. PICK I : I = {i \in 1 .. n : s[i] = e}  OBVIOUS
  <2>4. Position(s, e) = IF I # {} THEN Min(I) ELSE 0
    BY <2>1, <2>3 DEF Position, SelectInSeq
  <2>5. Position(s, e) = 0  BY <2>2, <2>3, <2>4
  <2>6. QED  BY <2>1, <2>5
<1>3. QED  BY <1>1, <1>2

\* The invariant implies NoSpuriousDuplicate.
LEMMA RefusalsAreReal == ASSUME MultiOpenInv PROVE NoSpuriousDuplicate
<1>1. queries \in Seq(Queries)  BY DEF MultiOpenInv
<1>2. PICK n \in Nat : Len(queries) = n /\ DOMAIN queries = 1 .. n  BY <1>1
<1>3. CASE stage = "panic"
  <2>1. asked = 0 /\ Duplicates  BY <1>3 DEF MultiOpenInv, Collecting
  <2>2. SubSeq(queries, 1, Len(queries)) = queries  BY <1>1
  <2>3. QED  BY <2>1, <2>2 DEF NoSpuriousDuplicate, Duplicates
<1>4. CASE stage = "error"
  <2>1. PICK caller : IsCaller(caller)  BY <1>4 DEF MultiOpenInv
  <2>2. /\ Scanned(queries, next - 1, points, map) /\ next \in 1 .. n + 1 /\ next <= n
        /\ ScanDuplicate(points, map, queries[next])
    BY <1>2, <1>4 DEF MultiOpenInv
  <2>3. PICK query \in Queries : query = queries[next]
    <3>1. next \in 1 .. n  BY <2>2
    <3>2. queries[next] \in Queries  BY <1>1, <1>2, <3>1
    <3>3. QED  BY <3>2
  <2>4. PICK i \in DOMAIN map : /\ map[i].com = query.com
                               /\ Contains(map[i].point_indices, Position(points, query.point))
    BY <2>2, <2>3 DEF ScanDuplicate
  <2>5. PICK x : x = Position(points, query.point)  OBVIOUS
  <2>6. points \in Seq(Points) /\ map[i] \in Entries
        /\ EntryIs(queries, next - 1, points, map[i])
    BY <2>2, <2>4 DEF Scanned
  <2>7. x \in ToSet(map[i].point_indices)
    <3>1. map[i].point_indices \in Seq(Nat)  BY <2>6 DEF Entries
    <3>2. Contains(map[i].point_indices, x)  BY <2>4, <2>5
    <3>3. QED  BY <3>1, <3>2, PositionExact
  <2>8. x \in DOMAIN points  BY <2>6, <2>7 DEF EntryIs
  <2>9. points[x] = query.point  BY <2>5, <2>6, <2>8, PositionFound
  <2>10. PICK q \in 1 .. next - 1 : queries[q] = [com |-> map[i].com, point |-> points[x]]
    BY <2>6, <2>7 DEF EntryIs
  <2>11. queries[q] = queries[next]  BY <2>3, <2>4, <2>9, <2>10 DEF Queries
  <2>12. q \in 1 .. n /\ next \in 1 .. n /\ q # next  BY <2>2, <2>10
  <2>13. ~Distinct(queries)  BY <1>2, <2>11, <2>12 DEF Distinct
  <2>14. ~enabled
    <3>1. enabled => Distinct(queries)  BY <1>1, <2>1, CallerIs DEF IsCaller, PaddedIs
    <3>2. QED  BY <2>13, <3>1
  <2>15. caller = queries /\ SubSeq(queries, 1, asked) = caller /\ asked # 0
    BY <1>1, <2>1, <2>14, CallerIs DEF IsCaller
  <2>16. \E a, b \in DOMAIN queries : a # b /\ queries[a] = queries[b]
    BY <1>2, <2>11, <2>12
  <2>17. QED  BY <2>15, <2>16 DEF NoSpuriousDuplicate
<1>5. QED  BY <1>3, <1>4 DEF NoSpuriousDuplicate

\* The points of a finished set are those of one of its commitments.
LEMMA SetsOfCommitments ==
    ASSUME MultiOpenInv, stage = "done", NEW s \in DOMAIN sets
    PROVE  /\ \E com \in Coms(queries) : ToSet(sets[s].points) = PointsAt(queries, com)
           /\ \A m \in DOMAIN sets[s].members :
                 /\ sets[s].members[m].com \in Coms(queries)
                 /\ ToSet(sets[s].points) = PointsAt(queries, sets[s].members[m].com)
<1>1. PICK k \in Nat : \E S : Grouping(sets, k, S, points, map)  BY Finished
<1>2. PICK S : Grouping(sets, k, S, points, map)  BY <1>1
<1>3. /\ queries \in Seq(Queries) /\ Len(queries) \in Nat
      /\ Scanned(queries, Len(queries), points, map)
  BY Finished
<1>4. /\ points \in Seq(Points) /\ Distinct(points)
      /\ \A i, j \in DOMAIN map : map[i].com = map[j].com => i = j
  BY <1>3 DEF Scanned
<1>5. /\ s \in 1 .. k /\ S[s] \in SUBSET DOMAIN points
      /\ SetIs(sets[s], S[s], points, map)
      /\ \E i \in DOMAIN map : S[s] = Indices(map[i])
  BY <1>2 DEF Grouping
<1>6. \A p : p \in ToSet(sets[s].points) <=> \E x \in S[s] : p = points[x]
  BY <1>4, <1>5, PointsOfSetExact DEF SetIs
<1>7. ASSUME NEW i \in DOMAIN map, S[s] = Indices(map[i])
      PROVE  map[i].com \in Coms(queries) /\ ToSet(sets[s].points) = PointsAt(queries, map[i].com)
  <2>1. PICK com : com = map[i].com  OBVIOUS
  <2>2. /\ S[s] # {} /\ S[s] \subseteq DOMAIN points
        /\ \A x \in S[s] : \E q \in 1 .. Len(queries) :
               queries[q] = [com |-> com, point |-> points[x]]
    BY <1>3, <1>7, <2>1 DEF Scanned, EntryIs, Indices
  <2>3. DOMAIN queries = 1 .. Len(queries)  BY <1>3
  <2>4. \A q \in 1 .. Len(queries) : queries[q] \in ToSet(queries)  BY <2>3 DEF ToSet
  <2>5. \A x \in S[s] : [com |-> com, point |-> points[x]] \in ToSet(queries)
    BY <2>2, <2>4
  <2>6. com \in Coms(queries)
    <3>1. PICK x \in S[s] : TRUE  BY <2>2
    <3>2. [com |-> com, point |-> points[x]].com = com  OBVIOUS
    <3>3. QED  BY <2>5, <3>2 DEF Coms
  <2>7. ASSUME NEW p \in ToSet(sets[s].points)
        PROVE  p \in PointsAt(queries, com)
    <3>1. PICK x \in S[s] : p = points[x]  BY <1>6
    <3>2. PICK q : q = [com |-> com, point |-> p]  OBVIOUS
    <3>3. q \in ToSet(queries) /\ q.com = com /\ q.point = p  BY <2>5, <3>1, <3>2
    <3>4. QED  BY <3>3 DEF PointsAt
  <2>8. ASSUME NEW p \in PointsAt(queries, com)
        PROVE  p \in ToSet(sets[s].points)
    <3>1. PICK q \in ToSet(queries) : q.com = com /\ q.point = p  BY DEF PointsAt
    <3>2. PICK n \in 1 .. Len(queries) : queries[n] = q  BY <2>3 DEF ToSet
    <3>3. PICK j \in DOMAIN map : Numbered(points, map[j], q)  BY <1>3, <3>2 DEF Scanned
    <3>4. j = i  BY <1>4, <2>1, <3>1, <3>3 DEF Numbered
    <3>5. PICK x \in S[s] : points[x] = p
      BY <1>7, <3>1, <3>3, <3>4 DEF Numbered, Indices
    <3>6. QED  BY <1>6, <3>5
  <2>9. QED  BY <2>1, <2>6, <2>7, <2>8
<1>8. \E com \in Coms(queries) : ToSet(sets[s].points) = PointsAt(queries, com)
  BY <1>5, <1>7
<1>9. ASSUME NEW m \in DOMAIN sets[s].members
      PROVE  /\ sets[s].members[m].com \in Coms(queries)
             /\ ToSet(sets[s].points) = PointsAt(queries, sets[s].members[m].com)
  <2>1. PICK mine : /\ \A j : j \in ToSet(mine) <=> j \in DOMAIN map /\ Indices(map[j]) = S[s]
                    /\ MembersAre(sets[s].members, mine, sets[s].points, map)
    BY <1>5 DEF SetIs
  <2>2. m \in DOMAIN mine /\ sets[s].members[m].com = map[mine[m]].com
    BY <2>1 DEF MembersAre
  <2>3. mine[m] \in ToSet(mine)  BY <2>2 DEF ToSet
  <2>4. mine[m] \in DOMAIN map /\ S[s] = Indices(map[mine[m]])  BY <2>1, <2>3
  <2>5. QED  BY <1>7, <2>2, <2>4
<1>10. QED  BY <1>8, <1>9

\* SetCount counts the sets of points of the commitments of a list.
LEMMA SetCountExact ==
    ASSUME NEW C, NEW P, NEW qs \in Seq([com : C, point : P])
    PROVE  \E found \in Seq(SUBSET P) :
               /\ Len(found) = SetCount(qs) /\ Distinct(found)
               /\ \A com \in Coms(qs) : PointsAt(qs, com) \in ToSet(found)
<1>1. PICK Q : Q = [com : C, point : P]  OBVIOUS
<1>2. qs \in Seq(Q)  BY <1>1
<1>3. PICK keys : keys = KeysOf(qs)  OBVIOUS
<1>4. keys \in Seq(ComsOf(Q)) /\ ToSet(keys) = Coms(qs)
  BY <1>2, <1>3, KeysOfType, KeysOfExact
<1>5. PICK n \in Nat : Len(keys) = n /\ DOMAIN keys = 1 .. n  BY <1>4
<1>6. PICK all : all = [i \in 1 .. n |-> PointsAt(qs, keys[i])]  OBVIOUS
<1>7. all \in Seq(SUBSET P) /\ DOMAIN all = 1 .. n
  <2>1. ASSUME NEW com PROVE PointsAt(qs, com) \in SUBSET P
    <3>1. PointsOf(qs, com) \in Seq(P) /\ ToSet(PointsOf(qs, com)) = PointsAt(qs, com)
      BY PointsOfExact
    <3>2. QED  BY <3>1 DEF ToSet
  <2>2. all \in [1 .. n -> SUBSET P]  BY <1>6, <2>1
  <2>3. QED  BY <2>2
<1>8. PICK found : found = FirstOccurrences(all)  OBVIOUS
<1>9. found \in Seq(SUBSET P) /\ ToSet(found) = ToSet(all) /\ Distinct(found)
  BY <1>7, <1>8, FirstOccurrencesExact
<1>10. Len(found) = SetCount(qs)
  <2>1. \A com : ToSet(PointsOf(qs, com)) = PointsAt(qs, com)  BY PointsOfExact
  <2>2. all = [i \in DOMAIN keys |-> ToSet(PointsOf(qs, keys[i]))]  BY <1>5, <1>6, <2>1
  <2>3. QED  BY <1>3, <1>8, <2>2 DEF SetCount, PointSetsOf
<1>11. ASSUME NEW com \in Coms(qs)
       PROVE  PointsAt(qs, com) \in ToSet(found)
  <2>1. PICK i \in 1 .. n : keys[i] = com  BY <1>4, <1>5 DEF ToSet
  <2>2. all[i] = PointsAt(qs, com)  BY <1>6, <2>1
  <2>3. all[i] \in ToSet(all)  BY <1>7 DEF ToSet
  <2>4. QED  BY <1>9, <2>2, <2>3
<1>12. QED  BY <1>9, <1>10, <1>11

\* As many places as there are values, if no two share one.
LEMMA FewerPlaces ==
    ASSUME NEW n \in Nat, NEW r \in Nat, NEW place \in [1 .. n -> 1 .. r],
           \A s, t \in 1 .. n : place[s] = place[t] => s = t
    PROVE  n <= r
<1>1. place \in Injection(1 .. n, 1 .. r)  BY DEF Injection, IsInjective
<1>2. IsFiniteSet(1 .. r) /\ Cardinality(1 .. r) = r  BY FS_Interval
<1>3. Cardinality(1 .. n) = n  BY FS_Interval
<1>4. Cardinality(1 .. n) <= Cardinality(1 .. r)  BY <1>1, <1>2, FS_Injection
<1>5. QED  BY <1>2, <1>3, <1>4

\* The invariant implies PaddingMerges.
LEMMA PaddingDoesMerge == ASSUME MultiOpenInv PROVE PaddingMerges
<1> SUFFICES ASSUME stage = "done", enabled
             PROVE  PaddingMerges
  BY DEF PaddingMerges
<1>1. queries \in Seq(Queries)  BY DEF MultiOpenInv
<1>2. PICK caller : IsCaller(caller)  BY DEF MultiOpenInv
<1>3. PICK union : union = ToSet(UnionPoints(caller))  OBVIOUS
<1>4. /\ caller \in Seq([com : Commitments, point : Points])
      /\ SubSeq(queries, 1, asked) = caller
      /\ PaddedIs(caller, queries, union)
  BY <1>1, <1>2, <1>3, CallerIs
<1>5. Coms(queries) = Coms(caller)  BY <1>4 DEF PaddedIs
<1>6. \A com \in Coms(caller) : PointsAt(queries, com) = PointsAt(caller, com) \cup union
  BY <1>4 DEF PaddedIs
<1>7. Len(sets) <= SetCount(caller)
  <2>1. PICK found \in Seq(SUBSET Points) :
            /\ Len(found) = SetCount(caller) /\ Distinct(found)
            /\ \A com \in Coms(caller) : PointsAt(caller, com) \in ToSet(found)
    BY <1>4, SetCountExact
  <2>2. PICK r \in Nat : Len(found) = r /\ DOMAIN found = 1 .. r  OBVIOUS
  <2>3. PICK k \in Nat : \E S : Grouping(sets, k, S, points, map)  BY Finished
  <2>4. DOMAIN sets = 1 .. k /\ Len(sets) = k  BY <2>3 DEF Grouping
  <2> DEFINE At(s, x) == ToSet(sets[s].points) = found[x] \cup union
  <2>5. ASSUME NEW s \in 1 .. k
        PROVE  \E x \in 1 .. r : At(s, x)
    <3>1. PICK com \in Coms(queries) : ToSet(sets[s].points) = PointsAt(queries, com)
      BY <2>4, SetsOfCommitments
    <3>2. ToSet(sets[s].points) = PointsAt(caller, com) \cup union  BY <1>5, <1>6, <3>1
    <3>3. PICK x \in 1 .. r : found[x] = PointsAt(caller, com)
      BY <1>5, <2>1, <2>2 DEF ToSet
    <3>4. QED  BY <3>2, <3>3
  <2>6. PICK place : place = [s \in 1 .. k |-> CHOOSE x \in 1 .. r : At(s, x)]  OBVIOUS
  <2>7. place \in [1 .. k -> 1 .. r] /\ \A s \in 1 .. k : At(s, place[s])
    BY <2>5, <2>6
  <2>8. ASSUME NEW s \in 1 .. k, NEW t \in 1 .. k, place[s] = place[t]
        PROVE  s = t
    <3>1. ToSet(sets[s].points) = ToSet(sets[t].points)  BY <2>7, <2>8
    <3>2. SetsExact  BY SetsAreExact
    <3>3. QED  BY <2>4, <3>1, <3>2 DEF SetsExact
  <2>9. k <= r  BY <2>7, <2>8, FewerPlaces
  <2>10. QED  BY <2>1, <2>2, <2>4, <2>9
<1>8. ASSUME NEW key \in ToSet(KeysOf(caller)), Len(PointsOf(caller, key)) > 1
      PROVE  ToSet(PointsOf(queries, key)) = union
  <2>1. key \in Coms(caller)  BY <1>4, KeysOfExact
  <2>2. Len(PointsOf(caller, key)) # 1
    <3>1. PointsOf(caller, key) \in Seq(Points)  BY <1>4, PointsOfExact
    <3>2. Len(PointsOf(caller, key)) \in Nat  BY <3>1
    <3>3. QED  BY <1>8, <3>2
  <2>3. PointsAt(caller, key) \subseteq union
    BY <1>3, <1>4, <2>1, <2>2, UnionPointsExact
  <2>4. PointsAt(queries, key) = union  BY <1>6, <2>1, <2>3
  <2>5. queries \in Seq([com : Commitments, point : Points])  BY <1>1, QueriesAre
  <2>6. QED  BY <2>4, <2>5, PointsOfExact
<1>9. QED  BY <1>4, <1>7, <1>8 DEF PaddingMerges

\* The invariant implies FirstSetHoldsFixedWhenPadded.
LEMMA FixedComeFirst == ASSUME MultiOpenInv PROVE FirstSetHoldsFixedWhenPadded
<1>1. queries \in Seq(Queries)  BY DEF MultiOpenInv
<1>2. CASE stage # "done"
  <2>1. sets = <<>>  BY <1>2 DEF MultiOpenInv
  <2>2. DOMAIN sets = {}  BY <2>1
  <2>3. QED  BY <2>2 DEF FirstSetHoldsFixedWhenPadded, FixedSets
<1>3. CASE stage = "done"
  <2>1. PICK caller : IsCaller(caller)  BY <1>3 DEF MultiOpenInv
  <2>2. PICK union : union = ToSet(UnionPoints(caller))  OBVIOUS
  <2>3. /\ caller \in Seq([com : Commitments, point : Points])
        /\ SubSeq(queries, 1, asked) = caller
        /\ FixedAtX(caller)
    BY <1>1, <2>1, CallerIs DEF IsCaller
  <2>4. SUFFICES ASSUME enabled, Contains(UnionPoints(caller), X), NEW s \in FixedSets, s # 1
                 PROVE  FALSE
    BY <2>3 DEF FirstSetHoldsFixedWhenPadded
  <2>5. /\ Coms(queries) = Coms(caller)
        /\ \A com \in Coms(caller) : PointsAt(queries, com) = PointsAt(caller, com) \cup union
    BY <1>1, <2>1, <2>2, <2>4, CallerIs DEF PaddedIs
  <2>6. X \in union
    <3>1. UnionPoints(caller) \in Seq(Points)  BY <2>3, UnionPointsExact
    <3>2. QED  BY <2>2, <2>4, <3>1, PositionExact
  <2>7. PICK k \in Nat : \E S : Grouping(sets, k, S, points, map)  BY <1>3, Finished
  <2>8. PICK S : Grouping(sets, k, S, points, map)  BY <2>7
  <2>9. /\ DOMAIN sets = 1 .. k
        /\ \A i, j \in 1 .. k : i < j => Len(sets[i].points) <= Len(sets[j].points)
    BY <2>8 DEF Grouping
  <2>10. s \in 1 .. k /\ 1 \in 1 .. k /\ 1 < s  BY <2>4, <2>9 DEF FixedSets
  <2>11. PICK m \in DOMAIN sets[s].members : sets[s].members[m].com \in FixedKeys
    BY <2>4 DEF FixedSets
  <2>12. PICK com \in FixedKeys : com = sets[s].members[m].com  BY <2>11
  <2>13. com \in Coms(caller) /\ ToSet(sets[s].points) = PointsAt(queries, com)
    BY <1>3, <2>5, <2>9, <2>10, <2>12, SetsOfCommitments
  <2>14. PointsAt(caller, com) \subseteq {X}
    <3>1. ASSUME NEW p \in PointsAt(caller, com) PROVE p = X
      <4>1. PICK q \in ToSet(caller) : q.com = com /\ q.point = p  BY DEF PointsAt
      <4>2. PICK i \in DOMAIN caller : caller[i] = q  BY <4>1 DEF ToSet
      <4>3. QED  BY <2>3, <4>1, <4>2 DEF FixedAtX
    <3>2. QED  BY <3>1
  <2>15. ToSet(sets[s].points) = union  BY <2>5, <2>6, <2>13, <2>14
  <2>16. PICK first \in Coms(queries) : ToSet(sets[1].points) = PointsAt(queries, first)
    BY <1>3, <2>9, <2>10, SetsOfCommitments
  <2>17. union \subseteq ToSet(sets[1].points)  BY <2>5, <2>16
  <2>18. ToSet(sets[s].points) # ToSet(sets[1].points)
    <3>1. SetsExact  BY <1>3, SetsAreExact
    <3>2. QED  BY <1>3, <2>4, <2>9, <2>10, <3>1 DEF SetsExact
  <2>19. ASSUME NEW t \in 1 .. k
         PROVE  sets[t].points \in Seq(Points) /\ Distinct(sets[t].points)
    <3>1. /\ S[t] \in SUBSET DOMAIN points
          /\ sets[t].points = PointsOfSet(points, S[t])
      BY <2>8 DEF Grouping, SetIs
    <3>2. points \in Seq(Points) /\ Distinct(points)  BY <1>3, Finished DEF Scanned
    <3>3. QED  BY <3>1, <3>2, PointsOfSetExact
  <2>20. PICK a \in Seq(Points) : a = sets[s].points /\ Distinct(a)  BY <2>10, <2>19
  <2>21. PICK b \in Seq(Points) : b = sets[1].points /\ Distinct(b)  BY <2>10, <2>19
  <2>22. Len(a) < Len(b)
    BY <2>15, <2>17, <2>18, <2>20, <2>21, LongerList
  <2>23. Len(b) <= Len(a)  BY <2>9, <2>10, <2>20, <2>21
  <2>24. Len(a) \in Nat /\ Len(b) \in Nat  BY <2>20, <2>21
  <2>25. QED  BY <2>22, <2>23, <2>24
<1>4. QED  BY <1>2, <1>3

\* What the dummy queries are for, for any queries: a list without repetitions is
\* never refused, padding never adds a point set and brings the commitments opened
\* at several points into one, and the set of the fixed columns is the first.
THEOREM PaddingSafeTheorem == Spec => []PaddingSafe
<1>1. ASSUME MultiOpenInv PROVE PaddingSafe
  BY <1>1, RefusalsAreReal, PaddingDoesMerge, FixedComeFirst DEF PaddingSafe
<1>2. QED  BY <1>1, MultiOpenInvariant, PTL
=============================================================================
