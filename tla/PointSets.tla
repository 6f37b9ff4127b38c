----------------------------- MODULE PointSets -----------------------------
(***************************************************************************)
(* How KZG's multi-open groups its queries: compute_dummy_queries and      *)
(* construct_intermediate_sets (proofs/src/poly/kzg/utils.rs), called by   *)
(* multi_open and multi_prepare.                                           *)
(*                                                                         *)
(* A query is [com, point].  `com` stands for the identity of the          *)
(* polynomial or commitment (both sides compare pointers), `point` for the *)
(* field element it is opened at, and the query itself for the evaluation  *)
(* it carries.  Indices count from 1.                                      *)
(***************************************************************************)
EXTENDS Integers, Sequences, SequencesExt

\* The distinct elements of s, each where it occurs first.
FirstOccurrences(s) ==
    LET seen[n \in 0 .. Len(s)] ==
            IF n = 0 THEN <<>>
            ELSE LET before == seen[n - 1]
                 IN  IF Contains(before, s[n]) THEN before ELSE Append(before, s[n])
    IN  seen[Len(s)]

\* The elements of s that are in S, in their order.
Chosen(s, S) ==
    LET chosen[n \in 0 .. Len(s)] ==
            IF n = 0 THEN <<>>
            ELSE LET before == chosen[n - 1]
                 IN  IF s[n] \in S THEN Append(before, s[n]) ELSE before
    IN  chosen[Len(s)]

Position(s, e) == SelectInSeq(s, LAMBDA x : x = e)

-----------------------------------------------------------------------------
(* compute_dummy_queries                                                   *)

KeysOf(qs) == FirstOccurrences([i \in DOMAIN qs |-> qs[i].com])

PointsOf(qs, com) ==
    LET mine == Chosen(qs, {q \in ToSet(qs) : q.com = com})
    IN  [i \in DOMAIN mine |-> mine[i].point]

\* The points of the keys opened more than once.
UnlessOne(points) == IF Len(points) = 1 THEN <<>> ELSE points

UnionOfPoints(qs, keys) ==
    FirstOccurrences(FlattenSeq([i \in DOMAIN keys |-> UnlessOne(PointsOf(qs, keys[i]))]))

UnionPoints(qs) == UnionOfPoints(qs, KeysOf(qs))

\* A query of com at every point it is not opened at.
PadKey(com, missing) == [i \in DOMAIN missing |-> [com |-> com, point |-> missing[i]]]

PadKeys(qs, keys, union) ==
    FlattenSeq([i \in DOMAIN keys |->
        PadKey(keys[i], Chosen(union, ToSet(union) \ ToSet(PointsOf(qs, keys[i]))))])

\* Bug: only the keys opened more than once are padded.
DummyQueriesOfMultiples(qs) ==
    PadKeys(qs, SelectSeq(KeysOf(qs), LAMBDA com : Len(PointsOf(qs, com)) > 1),
        UnionPoints(qs))

DummyQueries(qs) == PadKeys(qs, KeysOf(qs), UnionPoints(qs))

\* The number of point sets a list of queries leads to.
PointSetsOf(qs, keys) == FirstOccurrences([i \in DOMAIN keys |-> ToSet(PointsOf(qs, keys[i]))])

SetCount(qs) == Len(PointSetsOf(qs, KeysOf(qs)))

-----------------------------------------------------------------------------
(* construct_intermediate_sets                                             *)

\* Bug: every query numbers its point anew.
ScanPointAlways(points, p) == Append(points, p)

\* The body of the first loop: the point gets a number if it is new, and the
\* commitment an entry.  `map` holds [com, point_indices].
ScanPoint(points, p) == IF Contains(points, p) THEN points ELSE Append(points, p)

ScanDuplicate(points, map, q) ==
    \E i \in DOMAIN map :
        /\ map[i].com = q.com
        /\ Contains(map[i].point_indices, Position(points, q.point))

ScanCommitment(points, map, q) ==
    LET pos == SelectInSeq(map, LAMBDA m : m.com = q.com)
        idx == Position(ScanPoint(points, q.point), q.point)
    IN  IF pos = 0
        THEN Append(map, [com |-> q.com, point_indices |-> <<idx>>])
        ELSE [map EXCEPT ![pos] =
                 [com |-> q.com, point_indices |-> Append(@.point_indices, idx)]]

\* The distinct sets of point indices, in order of first occurrence.
PointIdxSets(map) == FirstOccurrences([i \in DOMAIN map |-> ToSet(map[i].point_indices)])

SetIndex(map, i) == Position(PointIdxSets(map), ToSet(map[i].point_indices))

\* A set of positions in a list, smallest first.
Ascending(list, S) == Chosen([n \in DOMAIN list |-> n], S)

\* Bug: evaluations follow the order of the queries.
EvalsInQueryOrder(qs, points, map, i) ==
    LET mine == SelectSeq(qs, LAMBDA q : q.com = map[i].com) IN mine

\* One evaluation per point index of the commitment, in ascending order.
Evals(qs, points, map, i) ==
    LET order == Ascending(points, ToSet(map[i].point_indices))
    IN  [j \in DOMAIN order |->
            qs[SelectInSeq(qs, LAMBDA q : /\ q.com = map[i].com
                                          /\ q.point = points[order[j]])]]

\* The points of every set, in ascending index order.
SetPoints(points, map) ==
    LET sets == PointIdxSets(map)
    IN  [s \in DOMAIN sets |->
            LET order == Ascending(points, sets[s]) IN [j \in DOMAIN order |-> points[order[j]]]]

\* The order in which multi_open and multi_prepare visit the sets: smallest
\* first, equal ones by index.
Precedes(pointSets, i, j) ==
    \/ Len(pointSets[i]) < Len(pointSets[j])
    \/ Len(pointSets[i]) = Len(pointSets[j]) /\ i < j

CardinalityOrder(pointSets) ==
    CHOOSE order \in [DOMAIN pointSets -> DOMAIN pointSets] :
        \A i, j \in DOMAIN pointSets : i < j => Precedes(pointSets, order[i], order[j])
=============================================================================
