-------------------------- MODULE ContractProtocol --------------------------
(***************************************************************************)
(* The generated Solidity verifier as a fourth program over the transcript *)
(* (proofs/solidity-verifier).  The generator makes its own plan of what a *)
(* proof holds, places what it reads by position, refers to it by pointer, *)
(* and has its own port of the grouping of openings; the contract takes a  *)
(* repacked proof of exactly the planned length.  The committed instance   *)
(* is the identity, the only one the contract knows.                       *)
(***************************************************************************)
EXTENDS VerifierGadget

\* The check of the plan that a circuit can fail: a column that is not opened.
PlanInvalid(k) ==
    \E c \in 1 .. NumAdvice(k) : \A q \in ToSet(k.cs.queries["advice"]) : q[1] # c

\* try_new.
GeneratorRefuses(k) ==
    \/ NumAdvice(k) = 0
    \/ k.committed # 1 \/ k.cs.num_instance_columns # 2
    \/ \E q \in ToSet(k.cs.queries["instance"]) : q[2] # 0
    \/ PlanInvalid(k)

-----------------------------------------------------------------------------
(* The plan                                                                *)

\* Bug: columns keep the places of their declaration.
PhasePackedAsDeclared(phases) == [i \in DOMAIN phases |-> i]

\* The place of every column or challenge when they are sorted by phase.
PhasePacked(phases) ==
    [i \in DOMAIN phases |->
        Cardinality({j \in DOMAIN phases :
            phases[j] < phases[i] \/ (phases[j] = phases[i] /\ j <= i)})]

NonSimpleFixed(k) ==
    SelectSeq(k.cs.queries["fixed"], LAMBDA q : ~HasSimpleSelectorCol(k.cs, q[1]))
CommittedQueries(k) == SelectSeq(k.cs.queries["instance"], LAMBDA q : q[1] <= k.committed)

Opening(com, rot) == [com |-> com, rot |-> rot]
Openings(kind, queries) ==
    [i \in DOMAIN queries |-> Opening(<<kind, queries[i][1]>>, queries[i][2])]

PermutationOpenings(k) ==
    LET sets == NumPermutationSets(k)
    IN  Each(sets, LAMBDA i :
            <<Opening(<<"z", i>>, 0), Opening(<<"z", i>>, 1)>>
            \o (IF i # sets THEN <<Opening(<<"z", i>>, LastRotation(k))>> ELSE <<>>))
LookupOpenings(k) ==
    Each(Len(k.cs.lookups), LAMBDA l :
        <<Opening(<<"m", l>>, 0)>> \o [j \in 1 .. k.chunks[l] |-> Opening(<<"h", l, j>>, 0)]
        \o <<Opening(<<"acc", l>>, 0), Opening(<<"acc", l>>, 1)>>)
TrashOpenings(k) == [t \in DOMAIN k.cs.trashcans |-> Opening(<<"trash", t>>, 0)]
SigmaOpenings(k) == [i \in DOMAIN k.cs.permutation |-> Opening(<<"sigma", i>>, 0)]

\* The evaluations in the order of the proof, one for every query of a fixed
\* column that is no simple selector.
EvalReads(k) ==
    Openings("instance", CommittedQueries(k)) \o Openings("advice", k.cs.queries["advice"])
    \o Openings("fixed", NonSimpleFixed(k)) \o SigmaOpenings(k) \o PermutationOpenings(k)
    \o LookupOpenings(k) \o TrashOpenings(k)

\* The openings in the order of the multi-open.
PcsQueries(k) ==
    Openings("advice", k.cs.queries["advice"]) \o Openings("instance", CommittedQueries(k))
    \o PermutationOpenings(k) \o LookupOpenings(k) \o TrashOpenings(k)
    \o Openings("fixed", NonSimpleFixed(k)) \o SigmaOpenings(k) \o <<Opening(<<"lin">>, 0)>>

-----------------------------------------------------------------------------
(* Pointers: where the contract finds a commitment or an evaluation.       *)

CommitmentPointer(k, com) ==
    CASE com[1] = "advice"   -> <<"advice", PhasePacked(k.cs.advice_column_phase)[com[2]]>>
      [] com[1] = "instance" -> <<"identity">>
      [] OTHER               -> com

\* The word of an evaluation; that of the linearization is computed.
EvalPointer(k, opening) ==
    IF opening.com = <<"lin">> THEN <<"lin">> ELSE <<"word", Position(EvalReads(k), opening)>>

RawQuery(k, opening) ==
    [com |-> CommitmentPointer(k, opening.com), point |-> opening.rot,
     eval |-> EvalPointer(k, opening)]

RawQueriesOf(k, plan) == [i \in DOMAIN plan |-> RawQuery(k, plan[i])]
RawQueries(k) == RawQueriesOf(k, PcsQueries(k))

GroupPoints(qs, com) == FirstOccurrences(PointsOf(qs, com))

\* compute_dummy_queries of the generator; a repeated query is skipped.
AtMostOne(points) == Len(points) <= 1
GroupUnion(qs, groups) ==
    FirstOccurrences(FlattenSeq([i \in DOMAIN groups |->
        IF AtMostOne(GroupPoints(qs, groups[i])) THEN <<>> ELSE GroupPoints(qs, groups[i])]))

QueriesAt(com, points) == [j \in DOMAIN points |-> Query(com, points[j])]

DummiesOf(qs, groups, union) ==
    FlattenSeq([i \in DOMAIN groups |->
        QueriesAt(groups[i],
                  SelectSeq(union, LAMBDA p : ~Contains(GroupPoints(qs, groups[i]), p)))])

PlannedDummies(qs) == DummiesOf(qs, KeysOf(qs), GroupUnion(qs, KeysOf(qs)))

\* The words of the dummies follow those of the plan.
WithWords(k, dummies) ==
    [i \in DOMAIN dummies |->
        [com |-> dummies[i].com, point |-> dummies[i].point,
         eval |-> <<"word", Len(EvalReads(k)) + i>>]]

Augmented(k, raw, fewer) == raw \o (IF fewer THEN WithWords(k, PlannedDummies(raw)) ELSE <<>>)

AugmentedQueries(k, fewer) == Augmented(k, RawQueries(k), fewer)

-----------------------------------------------------------------------------
(* The generator's construct_intermediate_sets and sort_sets               *)

\* Smallest first, equal ones by index.
SortSets(sets) ==
    SetToSortSeq(DOMAIN sets, LAMBDA i, j :
        Cardinality(sets[i]) < Cardinality(sets[j])
        \/ (Cardinality(sets[i]) = Cardinality(sets[j]) /\ i < j))

\* Per set, the commitments in order with the evaluation at each point.
EvalAt(qs, com, p) == qs[SelectInSeq(qs, LAMBDA q : q.com = com /\ q.point = p)].eval

PlannedSet(qs, set, mine) ==
    [i \in DOMAIN mine |-> [com |-> mine[i], evals |-> [p \in set |-> EvalAt(qs, mine[i], p)]]]

InOrder(qs, coms, sets, order) ==
    [s \in DOMAIN order |->
        PlannedSet(qs, sets[order[s]],
                   SelectSeq(coms, LAMBDA com : ToSet(GroupPoints(qs, com)) = sets[order[s]]))]

Sorted(qs, coms, sets) == InOrder(qs, coms, sets, SortSets(sets))

Grouped(qs, coms) ==
    Sorted(qs, coms, FirstOccurrences([i \in DOMAIN coms |-> ToSet(GroupPoints(qs, coms[i]))]))

PlannedSets(qs) == Grouped(qs, KeysOf(qs))

-----------------------------------------------------------------------------
(* The contract                                                            *)

\* One phase: its advices in walk order, then its challenges.
ContractPhase(k, phase) ==
    LET challenges == PhasePacked(k.cs.challenge_phase)
        inPhase(phases) == {i \in DOMAIN phases : phases[i] = phase}
        before(phases)  == Cardinality({i \in DOMAIN phases : phases[i] < phase})
    IN  [i \in 1 .. Cardinality(inPhase(k.cs.advice_column_phase)) |->
            Read(<<"advice", before(k.cs.advice_column_phase) + i>>)]
        \o [i \in 1 .. Cardinality(inPhase(k.cs.challenge_phase)) |->
            Squeeze(<<"user", Position(challenges, before(k.cs.challenge_phase) + i)>>)]

\* The proof parser.  A read is named by the place it is copied to.
ContractParser(k, queries, words) ==
    <<Common(<<"vk">>), Common(Instance(1, 1)), Common(<<"len", 1, 2>>)>>
    \o [r \in 1 .. k.len |-> Common(<<"value", 1, 2, r>>)]
    \o Each(Max(Phases(k.cs)) + 1, LAMBDA i : ContractPhase(k, i - 1))
    \o <<Squeeze(<<"theta">>)>> \o [l \in DOMAIN k.cs.lookups |-> Read(<<"m", l>>)]
    \o <<Squeeze(<<"beta">>), Squeeze(<<"gamma">>)>>
    \o [i \in 1 .. NumPermutationSets(k) |-> Read(<<"z", i>>)]
    \o Each(Len(k.cs.lookups), LAMBDA l :
          [j \in 1 .. k.chunks[l] |-> Read(<<"h", l, j>>)] \o <<Read(<<"acc", l>>)>>)
    \o <<Squeeze(<<"trash_challenge">>)>>
    \o [t \in DOMAIN k.cs.trashcans |-> Read(<<"trash", t>>)]
    \o <<Squeeze(<<"y">>)>> \o [i \in 1 .. QuotientPolyDegree(k) |-> Read(<<"limb", i>>)]
    \o <<Squeeze(<<"x">>)>>
    \o [i \in 1 .. words |-> Read(<<"word", i>>)]
    \o <<Squeeze(<<"x1">>), Squeeze(<<"x2">>), Read(<<"f">>), Squeeze(<<"x3">>)>>
    \o [s \in DOMAIN PlannedSets(queries) |-> Read(<<"qeval", s>>)]
    \o <<Squeeze(<<"x4">>), Read(<<"pi">>)>>

ContractProgram(k, queries) ==
    ContractParser(k, queries, Len(EvalReads(k)) + Len(queries) - Len(PcsQueries(k)))

\* repack_proof: the proof has the planned length, and a point wherever one is
\* expected.
Repacks(places) ==
    /\ Len(delivered) = Len(places)
    /\ \A i \in DOMAIN places : IsScalar(delivered[i]) = (places[i][1] \in {"word", "qeval"})

\* What a pointer leads to once the proof has been parsed.
Deref(k, places, pointer) ==
    CASE pointer = <<"identity">>          -> Instance(1, 1)
      [] pointer[1] \in {"fixed", "sigma"} -> pointer
      [] pointer = <<"lin">>               -> pointer
      [] OTHER                             -> delivered[Position(places, pointer)]

\* The sets with the values in place of the pointers.
ResolvedSets(k, places, sets) ==
    [s \in DOMAIN sets |-> [i \in DOMAIN sets[s] |->
        [com   |-> Deref(k, places, sets[s][i].com),
         evals |-> [p \in DOMAIN sets[s][i].evals |->
                      IF sets[s][i].evals[p] = <<"lin">> THEN Eval(<<"lin">>, 0)
                      ELSE Deref(k, places, sets[s][i].evals[p])]]]]

\* The sets of the prover's multi_open, in the order it visits them.
ProverScan(qs) ==
    LET points == FirstOccurrences([i \in DOMAIN qs |-> qs[i].point])
        coms == KeysOf(qs)
        indices(mine) == [j \in DOMAIN mine |-> Position(points, mine[j])]
    IN  [points |-> points,
         map |-> [i \in DOMAIN coms |->
                     [com |-> coms[i], point_indices |-> indices(PointsOf(qs, coms[i]))]]]

ProverSet(map, mine, points) ==
    [i \in DOMAIN mine |->
        [com |-> map[mine[i]].com, evals |-> [p \in points |-> Eval(map[mine[i]].com, p)]]]

ProverSetsInOrder(map, sets, order) ==
    [s \in DOMAIN order |->
        ProverSet(map, SelectSeq([i \in DOMAIN map |-> i],
                                 LAMBDA i : SetIndex(map, i) = order[s]),
                  ToSet(sets[order[s]]))]

ProverSetsFrom(map, sets) == ProverSetsInOrder(map, sets, CardinalityOrder(sets))
ProverSetsOf(scan) == ProverSetsFrom(scan.map, SetPoints(scan.points, scan.map))
ProverQueries(qs, fewer) == qs \o (IF fewer THEN DummyQueries(qs) ELSE <<>>)

ProverSets(k, fewer) == ProverSetsOf(ProverScan(ProverQueries(ComputeQueries(k), fewer)))

\* The parser's transcript and the pairing check, idealised as the verifier's.
Follows(k, queries, ops, places) ==
    /\ Repacks(places)
    /\ History(Absorbed(ops, delivered)) = phist
    /\ ResolvedSets(k, places, PlannedSets(queries)) = ProverSets(k, flags[1])

\* validate_absorbed_g1_precompile_coverage: the points nothing checks.
UncheckedPoints(places, opened) ==
    {point \in ToSet(places) \ opened :
        /\ point[1] \notin {"word", "qeval", "f", "pi"}
        /\ ~(point[1] = "limb" /\ <<"lin">> \in opened)}

Accepts(k, queries, ops) == Follows(k, queries, ops, Items(ops, "read"))
Unchecked(queries, ops) == UncheckedPoints(Items(ops, "read"), ToSet(KeysOf(queries)))

ContractAgrees(k, queries, ops) ==
    /\ Unchecked(queries, ops) = {}
    /\ Accepts(k, queries, ops) <=> verdict = "accept"
ContractHolds(k, queries) == ContractAgrees(k, queries, ContractProgram(k, queries))

-----------------------------------------------------------------------------
(* Properties                                                              *)

\* Four programs, one transcript: for every circuit the generator takes, the
\* contract accepts exactly the deliveries the verifier accepts.  Its plan of
\* the proof, its pointers and its own grouping of the openings lead to the
\* prover's sets in the prover's order, and its check that every point of the
\* proof reaches a validating precompile passes.
ContractFollowsVerifier ==
    (/\ sent /\ verdict \in {"accept", "reject", "error"}
     /\ key.proofs = 1 /\ ~GeneratorRefuses(key)) =>
        ContractHolds(key, AugmentedQueries(key, flags[2]))
=============================================================================
