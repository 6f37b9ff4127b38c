---------------------------- MODULE PlonkProver ----------------------------
(***************************************************************************)
(* What create_proof does to its transcript, section by section in program *)
(* order (proofs/src/plonk/prover.rs with the prover halves of the         *)
(* permutation, logup and trash arguments and of the KZG multi-open).      *)
(***************************************************************************)
EXTENDS PlonkItems

\* The checks at the top of compute_trace and in compute_instances.
ProverRefuses(k) ==
    \/ k.supplied # k.cs.num_instance_columns
    \/ k.supplied < k.committed
    \/ k.supplied > 0 /\ k.len > k.n - (k.blinding + 1)

InstanceItems(k, p, c) ==
    <<Common(<<"len", p, c>>)>> \o [r \in 1 .. k.len |-> Common(<<"value", p, c, r>>)]

ComputeInstances(k) ==
    LET column(p, c) == IF c <= k.committed THEN <<Common(Instance(p, c))>>
                        ELSE InstanceItems(k, p, c)
    IN  Each(k.proofs, LAMBDA p : Each(k.cs.num_instance_columns,
                                       LAMBDA c : column(p, c)))

PhaseChallenges(k, phase) ==
    Each(Len(k.cs.challenge_phase), LAMBDA i :
        IF k.cs.challenge_phase[i] = phase THEN <<Squeeze(<<"user", i>>)>> ELSE <<>>)

\* Bug: the challenge is drawn before the columns of its phase are committed.
ParseAdvicesLate(k, phase) ==
    PhaseChallenges(k, phase)
    \o Each(k.proofs, LAMBDA p : Each(NumAdvice(k), LAMBDA c :
        IF k.cs.advice_column_phase[c] = phase THEN <<Write(Column(p, c))>> ELSE <<>>))

ParseAdvices(k, phase) ==
    Each(k.proofs, LAMBDA p : Each(NumAdvice(k), LAMBDA c :
        IF k.cs.advice_column_phase[c] = phase THEN <<Write(Column(p, c))>> ELSE <<>>))
    \o PhaseChallenges(k, phase)

CommitMultiplicities(k) ==
    <<Squeeze(<<"theta">>)>>
    \o Each(k.proofs, LAMBDA p :
          Each(Len(k.cs.lookups), LAMBDA l : <<Write(<<"m", p, l>>)>>))

CommitPermutation(k) ==
    <<Squeeze(<<"beta">>), Squeeze(<<"gamma">>)>>
    \o Each(k.proofs, LAMBDA p :
          [i \in 1 .. NumPermutationSets(k) |-> Write(<<"z", p, i>>)])

CommitLogderivative(k) ==
    Each(k.proofs, LAMBDA p : Each(Len(k.cs.lookups), LAMBDA l :
        [j \in 1 .. k.chunks[l] |-> Write(<<"h", p, l, j>>)]
        \o <<Write(<<"acc", p, l>>)>>))

CommitTrash(k) ==
    <<Squeeze(<<"trash_challenge">>)>>
    \o Each(k.proofs, LAMBDA p :
          [t \in DOMAIN k.cs.trashcans |-> Write(<<"trash", p, t>>)])
    \o <<Squeeze(<<"y">>)>>

ComputeHPoly(k) ==
    [i \in 1 .. QuotientPolyDegree(k) |-> Write(<<"limb", i>>)] \o <<Squeeze(<<"x">>)>>

\* write_evals_to_transcript
WriteEvals(k) ==
    Each(k.proofs, LAMBDA p : Each(Len(k.cs.queries["instance"]), LAMBDA i :
        LET q == k.cs.queries["instance"][i]
        IN  IF q[1] <= k.committed THEN <<Write(Eval(Instance(p, q[1]), q[2]))>> ELSE <<>>))
    \o Each(k.proofs, LAMBDA p : Each(Len(k.cs.queries["advice"]), LAMBDA i :
        LET q == k.cs.queries["advice"][i] IN <<Write(Eval(Column(p, q[1]), q[2]))>>))
    \o Each(Len(k.cs.queries["fixed"]), LAMBDA i :
        LET q == k.cs.queries["fixed"][i]
        IN  IF HasSimpleSelectorCol(k.cs, q[1]) THEN <<>>
            ELSE <<Write(Eval(<<"fixed", q[1]>>, q[2]))>>)

\* The sigma polynomials, then the products of every proof.  The value at the
\* last usable row is sent for all but the last set.
EvaluatePermutation(k) ==
    [i \in DOMAIN k.cs.permutation |-> Write(Eval(<<"sigma", i>>, 0))]
    \o Each(k.proofs, LAMBDA p : Each(NumPermutationSets(k), LAMBDA i :
        <<Write(Eval(<<"z", p, i>>, 0)), Write(Eval(<<"z", p, i>>, 1))>>
        \o (IF i < NumPermutationSets(k)
            THEN <<Write(Eval(<<"z", p, i>>, LastRotation(k)))>> ELSE <<>>)))

EvaluateLookups(k) ==
    Each(k.proofs, LAMBDA p : Each(Len(k.cs.lookups), LAMBDA l :
        <<Write(Eval(<<"m", p, l>>, 0))>>
        \o [j \in 1 .. k.chunks[l] |-> Write(Eval(<<"h", p, l, j>>, 0))]
        \o <<Write(Eval(<<"acc", p, l>>, 0)), Write(Eval(<<"acc", p, l>>, 1))>>))

EvaluateTrash(k) ==
    Each(k.proofs, LAMBDA p :
        [t \in DOMAIN k.cs.trashcans |-> Write(Eval(<<"trash", p, t>>, 0))])

\* The openings the prover claims, in the order of compute_queries.
ComputeQueries(k) ==
    LET sets == NumPermutationSets(k)
        advice(p) == [i \in DOMAIN k.cs.queries["advice"] |->
            LET q == k.cs.queries["advice"][i] IN Query(Column(p, q[1]), q[2])]
        instance(p) == Each(Len(k.cs.queries["instance"]), LAMBDA i :
            LET q == k.cs.queries["instance"][i]
            IN  IF q[1] <= k.committed THEN <<Query(Instance(p, q[1]), q[2])>> ELSE <<>>)
        permutation(p) ==
            Each(sets, LAMBDA i : <<Query(<<"z", p, i>>, 0), Query(<<"z", p, i>>, 1)>>)
            \o SubSeq(Reverse([i \in 1 .. sets |-> Query(<<"z", p, i>>, LastRotation(k))]),
                      2, sets)
        lookups(p) == Each(Len(k.cs.lookups), LAMBDA l :
            <<Query(<<"m", p, l>>, 0)>>
            \o [j \in 1 .. k.chunks[l] |-> Query(<<"h", p, l, j>>, 0)]
            \o <<Query(<<"acc", p, l>>, 0), Query(<<"acc", p, l>>, 1)>>)
        trash(p) == [t \in DOMAIN k.cs.trashcans |-> Query(<<"trash", p, t>>, 0)]
        fixed == Chosen(k.cs.queries["fixed"],
                        {q \in ToSet(k.cs.queries["fixed"]) :
                            ~HasSimpleSelectorCol(k.cs, q[1])})
    IN  Each(k.proofs, LAMBDA p :
            advice(p) \o instance(p) \o permutation(p) \o lookups(p) \o trash(p))
        \o [i \in DOMAIN fixed |-> Query(<<"fixed", fixed[i][1]>>, fixed[i][2])]
        \o [i \in DOMAIN k.cs.permutation |-> Query(<<"sigma", i>>, 0)]
        \o <<Query(<<"lin">>, 0)>>

\* KZG's multi_open: dummy evaluations when the flag is on, then the opening.
WriteOpenings(qs, dummies) ==
    [i \in DOMAIN dummies |-> Write(Eval(dummies[i].com, dummies[i].point))]
    \o <<Squeeze(<<"x1">>), Squeeze(<<"x2">>), Write(<<"f">>), Squeeze(<<"x3">>)>>
    \o [s \in 1 .. SetCount(qs \o dummies) |-> Write(<<"qeval", s>>)]
    \o <<Squeeze(<<"x4">>), Write(<<"pi">>)>>

WriteMultiOpen(qs, flag) == WriteOpenings(qs, IF flag THEN DummyQueries(qs) ELSE <<>>)

MultiOpenOps(k, flag) == WriteMultiOpen(ComputeQueries(k), flag)

ProverProgram(k, flag) ==
    << <<Common(<<"vk">>)>>, ComputeInstances(k) >>
    \o [i \in 1 .. Max(Phases(k.cs)) + 1 |-> ParseAdvices(k, i - 1)]
    \o << CommitMultiplicities(k), CommitPermutation(k), CommitLogderivative(k),
          CommitTrash(k), ComputeHPoly(k), WriteEvals(k), EvaluatePermutation(k),
          EvaluateLookups(k), EvaluateTrash(k), MultiOpenOps(k, flag) >>
=============================================================================
