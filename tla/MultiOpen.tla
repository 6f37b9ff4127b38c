----------------------------- MODULE MultiOpen -----------------------------
(***************************************************************************)
(* One multi-open, from the list of queries its caller collects to the     *)
(* point sets the opening argument works with (proofs/src/poly/kzg/mod.rs: *)
(* multi_open and multi_prepare share these steps).                        *)
(*                                                                         *)
(*   enabled   what fewer_point_sets_enabled() returns                     *)
(*   queries   the queries, padded with dummies when the runtime flag of   *)
(*             fewer-point-sets is on                                      *)
(*   next      the query the first loop of construct_intermediate_sets     *)
(*             looks at                                                    *)
(*   points    the points numbered so far                                  *)
(*   map       the commitments met so far, with their point indices        *)
(*   sets      the result: the sorted sets, each with its points and its   *)
(*             members                                                     *)
(*   stage     "collect", "scan", "done", "error" (DuplicatedQuery) or     *)
(*             "panic" (compute_dummy_queries refuses duplicates)          *)
(***************************************************************************)
EXTENDS PointSets

CONSTANTS
    Keys,          \* commitments opened at any point
    FixedKeys,     \* fixed columns, opened at X only
    Points, X,     \* opening points, and the evaluation point itself
    MaxQueries     \* bound on the caller's list

ASSUME KeysAssumption == Keys \cap FixedKeys = {}
ASSUME PointsAssumption == X \in Points
ASSUME MaxQueriesAssumption == MaxQueries \in Nat

VARIABLES enabled, queries, asked, next, points, map, sets, stage

vars == <<enabled, queries, asked, next, points, map, sets, stage>>

Queries == [com : Keys \cup FixedKeys, point : Points]

Init ==
    /\ enabled \in BOOLEAN
    /\ queries = <<>> /\ asked = 0
    /\ next = 1 /\ points = <<>> /\ map = <<>> /\ sets = <<>>
    /\ stage = "collect"

\* The caller appends a query.  The fixed columns come after everything that
\* is opened at several points, as compute_queries lists them.
AddQuery ==
    \E q \in Queries :
        /\ stage = "collect" /\ Len(queries) < MaxQueries
        /\ q.com \in FixedKeys => q.point = X
        /\ q.com \in Keys => \A i \in DOMAIN queries : queries[i].com \in Keys
        /\ queries' = Append(queries, q)
        /\ UNCHANGED <<enabled, asked, next, points, map, sets, stage>>

Duplicates == \E i, j \in DOMAIN queries : i # j /\ queries[i] = queries[j]

\* multi_open starts: the dummies are appended.
Pad ==
    /\ stage = "collect" /\ queries # <<>>
    /\ enabled => ~Duplicates
    /\ queries' = IF enabled THEN queries \o DummyQueries(queries) ELSE queries
    /\ asked' = Len(queries)
    /\ stage' = "scan"
    /\ UNCHANGED <<enabled, next, points, map, sets>>

PadPanics ==
    /\ stage = "collect"
    /\ enabled /\ Duplicates
    /\ stage' = "panic"
    /\ UNCHANGED <<enabled, queries, asked, next, points, map, sets>>

\* One query of the first loop of construct_intermediate_sets.
Scan ==
    /\ stage = "scan" /\ next <= Len(queries)
    /\ ~ScanDuplicate(points, map, queries[next])
    /\ points' = ScanPoint(points, queries[next].point)
    /\ map' = ScanCommitment(points, map, queries[next])
    /\ next' = next + 1
    /\ UNCHANGED <<enabled, queries, asked, sets, stage>>

ScanFails ==
    /\ stage = "scan" /\ next <= Len(queries)
    /\ ScanDuplicate(points, map, queries[next])
    /\ stage' = "error"
    /\ UNCHANGED <<enabled, queries, asked, next, points, map, sets>>

\* The rest of construct_intermediate_sets, the distribution of the
\* commitments over the sets, and the sort.
Members(s) ==
    LET mine == Ascending(map, {i \in DOMAIN map : SetIndex(map, i) = s})
    IN  [j \in DOMAIN mine |-> [com   |-> map[mine[j]].com,
                                evals |-> Evals(queries, points, map, mine[j])]]

GroupedSets ==
    LET pointSets == SetPoints(points, map)
        order     == CardinalityOrder(pointSets)
    IN  [s \in DOMAIN order |->
            [points |-> pointSets[order[s]], members |-> Members(order[s])]]

Group ==
    /\ stage = "scan" /\ next > Len(queries)
    /\ sets' = GroupedSets
    /\ stage' = "done"
    /\ UNCHANGED <<enabled, queries, asked, next, points, map>>

Next == AddQuery \/ Pad \/ PadPanics \/ Scan \/ ScanFails \/ Group

Spec == Init /\ [][Next]_vars

-----------------------------------------------------------------------------
(* Properties                                                              *)

\* While the loop runs, the numbering of the points is injective and every
\* commitment's entry lists exactly the points it was opened at so far.
ScanExact ==
    /\ \A i, j \in DOMAIN points : points[i] = points[j] => i = j
    /\ \A i, j \in DOMAIN map : map[i].com = map[j].com => i = j
    /\ \A i \in DOMAIN map : \A n \in ToSet(map[i].point_indices) :
          /\ n \in DOMAIN points
          /\ \E q \in 1 .. next - 1 :
                queries[q] = [com |-> map[i].com, point |-> points[n]]
    /\ \A q \in 1 .. next - 1 : \E i \in DOMAIN map :
          /\ map[i].com = queries[q].com
          /\ \E n \in ToSet(map[i].point_indices) : points[n] = queries[q].point

\* The sets partition the commitments, a commitment belongs to the set of
\* exactly the points it was opened at, and two sets never have the same
\* points: the verifier interpolates the evaluations of a set over its points.
SetsExact ==
    stage = "done" =>
        /\ \A q \in ToSet(queries) :
              \E s \in DOMAIN sets :
                  /\ q.point \in ToSet(sets[s].points)
                  /\ \E m \in DOMAIN sets[s].members : sets[s].members[m].com = q.com
        /\ \A s \in DOMAIN sets : \A m \in DOMAIN sets[s].members :
              \A p \in ToSet(sets[s].points) :
                  [com |-> sets[s].members[m].com, point |-> p] \in ToSet(queries)
        /\ \A s, t \in DOMAIN sets :
              /\ ToSet(sets[s].points) = ToSet(sets[t].points) => s = t
              /\ \A m \in DOMAIN sets[s].members, n \in DOMAIN sets[t].members :
                    sets[s].members[m].com = sets[t].members[n].com => s = t /\ m = n

\* Every evaluation of every member stands at the position of the point it was
\* evaluated at: f_eval combines evals[j] with points[j] by position only.
EvalsAligned ==
    \A s \in DOMAIN sets : \A m \in DOMAIN sets[s].members :
        sets[s].members[m].evals =
            [j \in DOMAIN sets[s].points |->
                [com |-> sets[s].members[m].com, point |-> sets[s].points[j]]]

\* What multi_open and multi_prepare rely on when they combine by position: the
\* commitments are grouped by exactly their points, and evaluations stand at theirs.
GroupingExact == SetsExact /\ EvalsAligned

\* A list without repetitions is never refused: the dummies do not repeat a
\* query of the caller, nor each other.
NoSpuriousDuplicate ==
    stage \in {"error", "panic"} =>
        LET caller == SubSeq(queries, 1, IF asked = 0 THEN Len(queries) ELSE asked)
        IN  \E i, j \in DOMAIN caller : i # j /\ caller[i] = caller[j]

\* What the padding is for: commitments opened at several points all end up in
\* one set, and the padding never increases the number of sets.
PaddingMerges ==
    stage = "done" /\ enabled =>
        LET caller == SubSeq(queries, 1, asked)
        IN  /\ Len(sets) <= SetCount(caller)
            /\ \A k, l \in ToSet(KeysOf(caller)) :
                  (Len(PointsOf(caller, k)) > 1 /\ Len(PointsOf(caller, l)) > 1) =>
                      ToSet(PointsOf(queries, k)) = ToSet(PointsOf(queries, l))

FixedSets == {s \in DOMAIN sets : \E m \in DOMAIN sets[s].members :
                                      sets[s].members[m].com \in FixedKeys}

\* The comment on the sort in kzg/mod.rs: "ensure the first set is the one
\* that contains fixed commitments (which are evaluated at x only)".  The sort
\* does so when the dummies are on and some commitment is opened at x and at a
\* second point, as a permutation product always is.
FirstSetHoldsFixedWhenPadded ==
    enabled /\ Contains(UnionPoints(SubSeq(queries, 1, asked)), X)
        => FixedSets \subseteq {1}

\* The dummy queries do what they are for, and no harm.
PaddingSafe == NoSpuriousDuplicate /\ PaddingMerges /\ FirstSetHoldsFixedWhenPadded
=============================================================================
