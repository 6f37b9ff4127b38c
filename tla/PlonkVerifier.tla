--------------------------- MODULE PlonkVerifier ---------------------------
(***************************************************************************)
(* What prepare does to its transcript, section by section in program      *)
(* order (proofs/src/plonk/verifier.rs with the verifier halves of the     *)
(* permutation, logup and trash arguments and of the KZG multi-open).  A   *)
(* "read" names the value the verifier takes the next one to be.           *)
(***************************************************************************)
EXTENDS PlonkItems

\* The checks of parse_trace.
VerifierRefuses(k) ==
    \/ k.proofs = 0
    \/ k.committed + k.plain # k.cs.num_instance_columns

\* All committed instances come first, then all plain ones.
AbsorbInstances(k) ==
    Each(k.proofs, LAMBDA p : [c \in 1 .. k.committed |-> Common(Instance(p, c))])
    \o Each(k.proofs, LAMBDA p : Each(k.plain, LAMBDA c :
        <<Common(<<"len", p, k.committed + c>>)>>
        \o [r \in 1 .. k.len |-> Common(<<"value", p, k.committed + c, r>>)]))

ReadAdvices(k, phase) ==
    Each(k.proofs, LAMBDA p : Each(NumAdvice(k), LAMBDA c :
        IF k.cs.advice_column_phase[c] = phase THEN <<Read(Column(p, c))>> ELSE <<>>))
    \o Each(Len(k.cs.challenge_phase), LAMBDA i :
        IF k.cs.challenge_phase[i] = phase THEN <<Squeeze(<<"user", i>>)>> ELSE <<>>)

ReadMultiplicities(k) ==
    <<Squeeze(<<"theta">>)>>
    \o Each(k.proofs, LAMBDA p :
          [l \in DOMAIN k.cs.lookups |-> Read(<<"m", p, l>>)])

ReadProductCommitments(k) ==
    <<Squeeze(<<"beta">>), Squeeze(<<"gamma">>)>>
    \o Each(k.proofs, LAMBDA p :
          [i \in 1 .. NumPermutationSets(k) |-> Read(<<"z", p, i>>)])

ReadLookupCommitments(k) ==
    Each(k.proofs, LAMBDA p : Each(Len(k.cs.lookups), LAMBDA l :
        [j \in 1 .. k.chunks[l] |-> Read(<<"h", p, l, j>>)]
        \o <<Read(<<"acc", p, l>>)>>))

ReadTrash(k) ==
    <<Squeeze(<<"trash_challenge">>)>>
    \o Each(k.proofs, LAMBDA p :
          [t \in DOMAIN k.cs.trashcans |-> Read(<<"trash", p, t>>)])
    \o <<Squeeze(<<"y">>)>>

ReadQuotient(k) ==
    [i \in 1 .. QuotientPolyDegree(k) |-> Read(<<"limb", i>>)] \o <<Squeeze(<<"x">>)>>

\* Evaluations of committed instances and of advice columns; those of plain
\* instances are computed from the values.
ReadInstanceEvals(k) ==
    Each(k.proofs, LAMBDA p : Each(Len(k.cs.queries["instance"]), LAMBDA i :
        LET q == k.cs.queries["instance"][i]
        IN  IF q[1] <= k.committed THEN <<Read(Eval(Instance(p, q[1]), q[2]))>> ELSE <<>>))

ReadAdviceEvals(k) ==
    Each(k.proofs, LAMBDA p : [i \in DOMAIN k.cs.queries["advice"] |->
        LET q == k.cs.queries["advice"][i] IN Read(Eval(Column(p, q[1]), q[2]))])

FixedSlots(k) == k.cs.num_fixed_columns - NumSimpleSelectors(k.cs)

\* One evaluation per fixed column that is no simple selector, into slots.
ReadFixedEvals(k) ==
    [i \in 1 .. FixedSlots(k) |-> Read(<<"slot", i>>)]

\* Bug: the last product is read at the last row too.
ReadPermutationEvalsAll(k) ==
    [i \in DOMAIN k.cs.permutation |-> Read(Eval(<<"sigma", i>>, 0))]
    \o Each(k.proofs, LAMBDA p : Each(NumPermutationSets(k), LAMBDA i :
        <<Read(Eval(<<"z", p, i>>, 0)), Read(Eval(<<"z", p, i>>, 1)),
          Read(Eval(<<"z", p, i>>, LastRotation(k)))>>))

ReadPermutationEvals(k) ==
    [i \in DOMAIN k.cs.permutation |-> Read(Eval(<<"sigma", i>>, 0))]
    \o Each(k.proofs, LAMBDA p : Each(NumPermutationSets(k), LAMBDA i :
        <<Read(Eval(<<"z", p, i>>, 0)), Read(Eval(<<"z", p, i>>, 1))>>
        \o (IF NumPermutationSets(k) - i > 0
            THEN <<Read(Eval(<<"z", p, i>>, LastRotation(k)))>> ELSE <<>>)))

ReadLookupEvals(k) ==
    Each(k.proofs, LAMBDA p : Each(Len(k.cs.lookups), LAMBDA l :
        <<Read(Eval(<<"m", p, l>>, 0))>>
        \o [j \in 1 .. k.chunks[l] |-> Read(Eval(<<"h", p, l, j>>, 0))]
        \o <<Read(Eval(<<"acc", p, l>>, 0)), Read(Eval(<<"acc", p, l>>, 1))>>))

ReadTrashEvals(k) ==
    Each(k.proofs, LAMBDA p :
        [t \in DOMAIN k.cs.trashcans |-> Read(Eval(<<"trash", p, t>>, 0))])

-----------------------------------------------------------------------------
(* The queries the verifier checks.  `got` maps the name of every value    *)
(* read so far to the value that was there.                                *)

\* Bug: the ones are put at the end, not where their queries are.
FixedEvalsAppended(k, got) ==
    LET read == [i \in 1 .. FixedSlots(k) |->
                    got[<<"slot", i>>]]
        ones == SelectSeq(k.cs.queries["fixed"],
                          LAMBDA q : HasSimpleSelectorCol(k.cs, q[1]))
    IN  read \o [i \in DOMAIN ones |-> <<"one">>]

\* The slots, with a one inserted at the position of every query of a simple
\* selector.
FixedEvals(k, got) ==
    LET fixed == k.cs.queries["fixed"]
        evals[n \in 0 .. Len(fixed)] ==
            IF n = 0 THEN [i \in 1 .. FixedSlots(k) |-> got[<<"slot", i>>]]
            ELSE LET before == evals[n - 1]
                 IN  IF HasSimpleSelectorCol(k.cs, fixed[n][1])
                     THEN InsertAt(before, n, <<"one">>) ELSE before
    IN  evals[Len(fixed)]

SimpleUpTo(k, i) ==
    Len(SelectSeq(SubSeq(k.cs.queries["fixed"], 1, i),
                  LAMBDA q : HasSimpleSelectorCol(k.cs, q[1])))

\* Vec::insert panics beyond the end of the vector.
InsertPanics(k) ==
    \E i \in DOMAIN k.cs.queries["fixed"] :
        /\ HasSimpleSelectorCol(k.cs, k.cs.queries["fixed"][i][1])
        /\ i > FixedSlots(k) + SimpleUpTo(k, i)

\* The identities and the queries index an evaluation that is not there.
IndexPanics(k) ==
    LET n == Len(k.cs.queries["fixed"]) IN n > FixedSlots(k) + SimpleUpTo(k, n)

\* The openings the verifier checks, in the order it collects them.
VerifierQueries(k) ==
    LET sets == NumPermutationSets(k)
        advice(p) == [i \in DOMAIN k.cs.queries["advice"] |->
            LET q == k.cs.queries["advice"][i] IN Query(Column(p, q[1]), q[2])]
        instance(p) == Each(Len(k.cs.queries["instance"]), LAMBDA i :
            LET q == k.cs.queries["instance"][i]
            IN  IF q[1] <= k.committed THEN <<Query(Instance(p, q[1]), q[2])>> ELSE <<>>)
        permutation(p) ==
            Each(sets, LAMBDA i : <<Query(<<"z", p, i>>, 0), Query(<<"z", p, i>>, 1)>>)
            \o SubSeq(Reverse([i \in 1 .. sets |-> Query(<<"z", p, i>>, LastRotation(k))]),
                      2, sets)
        lookups(p) == Each(Len(k.cs.lookups), LAMBDA l :
            <<Query(<<"m", p, l>>, 0)>>
            \o [j \in 1 .. k.chunks[l] |-> Query(<<"h", p, l, j>>, 0)]
            \o <<Query(<<"acc", p, l>>, 0), Query(<<"acc", p, l>>, 1)>>)
        trash(p) == [t \in DOMAIN k.cs.trashcans |-> Query(<<"trash", p, t>>, 0)]
        fixed == Each(Len(k.cs.queries["fixed"]), LAMBDA i :
            LET q == k.cs.queries["fixed"][i]
            IN  IF HasSimpleSelectorCol(k.cs, q[1]) THEN <<>>
                ELSE <<Query(<<"fixed", q[1]>>, q[2])>>)
    IN  Each(k.proofs, LAMBDA p :
            advice(p) \o instance(p) \o permutation(p) \o lookups(p) \o trash(p))
        \o fixed
        \o [i \in DOMAIN k.cs.permutation |-> Query(<<"sigma", i>>, 0)]
        \o <<Query(<<"lin">>, 0)>>

\* The evaluation the verifier attaches to a query.
ClaimedEval(k, got, q) ==
    CASE q.com[1] = "lin"   -> Eval(q.com, q.point)
      [] q.com[1] = "fixed" ->
            FixedEvals(k, got)[Position(k.cs.queries["fixed"], <<q.com[2], q.point>>)]
      [] OTHER              -> got[Eval(q.com, q.point)]

\* KZG's multi_prepare.
ReadOpenings(qs, dummies) ==
    [i \in DOMAIN dummies |-> Read(Eval(dummies[i].com, dummies[i].point))]
    \o <<Squeeze(<<"x1">>), Squeeze(<<"x2">>), Read(<<"f">>), Squeeze(<<"x3">>)>>
    \o [s \in 1 .. SetCount(qs \o dummies) |-> Read(<<"qeval", s>>)]
    \o <<Squeeze(<<"x4">>), Read(<<"pi">>)>>

MultiPrepare(qs, flag) == ReadOpenings(qs, IF flag THEN DummyQueries(qs) ELSE <<>>)

MultiPrepareOps(k, flag) == MultiPrepare(VerifierQueries(k), flag)

VerifierProgram(k, flag) ==
    << <<Common(<<"vk">>)>>, AbsorbInstances(k) >>
    \o [i \in 1 .. Max(Phases(k.cs)) + 1 |-> ReadAdvices(k, i - 1)]
    \o << ReadMultiplicities(k), ReadProductCommitments(k), ReadLookupCommitments(k),
          ReadTrash(k), ReadQuotient(k), ReadInstanceEvals(k), ReadAdviceEvals(k),
          ReadFixedEvals(k), ReadPermutationEvals(k), ReadLookupEvals(k),
          ReadTrashEvals(k), MultiPrepareOps(k, flag) >>
=============================================================================
