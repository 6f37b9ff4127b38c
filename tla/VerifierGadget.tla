--------------------------- MODULE VerifierGadget ---------------------------
(***************************************************************************)
(* The verifier as a circuit (circuits/src/verifier): a third program over *)
(* the transcript, for one proof of a circuit with one phase.  It reads    *)
(* the proof as a witness: a value that is missing or of another encoding  *)
(* is replaced by a default, data after the last value is left unread, and *)
(* what comes out is an accumulator that holds or not.                     *)
(***************************************************************************)
EXTENDS PlonkProof

QueriedColumns(k) ==
    ToSet(k.cs.queries["advice"])
    \cup {q \in ToSet(k.cs.queries["instance"]) : q[1] <= k.committed}
    \cup {q \in ToSet(k.cs.queries["fixed"]) : ~HasSimpleSelectorCol(k.cs, q[1])}

\* The circuits whose synthesis panics: the assertions of parse_trace, min()
\* of no instance query, get_point, and the missing fixed evaluations.
GadgetPanics(k) ==
    \/ k.committed + k.plain # k.cs.num_instance_columns
    \/ Phases(k.cs) # {0}
    \/ k.cs.queries["instance"] = <<>>
    \/ \E q \in QueriedColumns(k) : q[2] \notin -1 .. 1
    \/ InsertPanics(k) \/ IndexPanics(k)

-----------------------------------------------------------------------------
(* The program                                                             *)

GadgetLookupCommitments(k, l) ==
    [j \in 1 .. k.chunks[l] |-> Read(<<"h", 1, l, j>>)] \o <<Read(<<"acc", 1, l>>)>>

\* Bug: the trash commitments are read before their challenge is drawn.
GadgetTraceTrashFirst(k) ==
    <<Common(<<"vk">>)>>
    \o [c \in 1 .. k.committed |-> Common(Instance(1, c))]
    \o Each(k.plain, LAMBDA c :
          <<Common(<<"len", 1, k.committed + c>>)>>
          \o [r \in 1 .. k.len |-> Common(<<"value", 1, k.committed + c, r>>)])
    \o [c \in 1 .. NumAdvice(k) |-> Read(Column(1, c))]
    \o <<Squeeze(<<"theta">>)>>
    \o [l \in DOMAIN k.cs.lookups |-> Read(<<"m", 1, l>>)]
    \o <<Squeeze(<<"beta">>), Squeeze(<<"gamma">>)>>
    \o [i \in 1 .. NumPermutationSets(k) |-> Read(<<"z", 1, i>>)]
    \o Each(Len(k.cs.lookups), LAMBDA l : GadgetLookupCommitments(k, l))
    \o [t \in DOMAIN k.cs.trashcans |-> Read(<<"trash", 1, t>>)]
    \o <<Squeeze(<<"trash_challenge">>)>>
    \o <<Squeeze(<<"y">>)>>

\* parse_trace.
GadgetTrace(k) ==
    <<Common(<<"vk">>)>>
    \o [c \in 1 .. k.committed |-> Common(Instance(1, c))]
    \o Each(k.plain, LAMBDA c :
          <<Common(<<"len", 1, k.committed + c>>)>>
          \o [r \in 1 .. k.len |-> Common(<<"value", 1, k.committed + c, r>>)])
    \o [c \in 1 .. NumAdvice(k) |-> Read(Column(1, c))]
    \o <<Squeeze(<<"theta">>)>>
    \o [l \in DOMAIN k.cs.lookups |-> Read(<<"m", 1, l>>)]
    \o <<Squeeze(<<"beta">>), Squeeze(<<"gamma">>)>>
    \o [i \in 1 .. NumPermutationSets(k) |-> Read(<<"z", 1, i>>)]
    \o Each(Len(k.cs.lookups), LAMBDA l : GadgetLookupCommitments(k, l))
    \o <<Squeeze(<<"trash_challenge">>)>>
    \o [t \in DOMAIN k.cs.trashcans |-> Read(<<"trash", 1, t>>)]
    \o <<Squeeze(<<"y">>)>>

GadgetPermutationEvals(k) ==
    LET sets == NumPermutationSets(k)
        eval(i, rot) == Read(Eval(<<"z", 1, i>>, rot))
    IN  [i \in DOMAIN k.cs.permutation |-> Read(Eval(<<"sigma", i>>, 0))]
        \o Each(sets, LAMBDA i : <<eval(i, 0), eval(i, 1)>>
                  \o (IF i < sets THEN <<eval(i, LastRotation(k))>> ELSE <<>>))

GadgetLookupEvals(k) ==
    Each(Len(k.cs.lookups), LAMBDA l :
        <<Read(Eval(<<"m", 1, l>>, 0))>>
        \o [j \in 1 .. k.chunks[l] |-> Read(Eval(<<"h", 1, l, j>>, 0))]
        \o <<Read(Eval(<<"acc", 1, l>>, 0)), Read(Eval(<<"acc", 1, l>>, 1))>>)

\* The reads of verify_algebraic_constraints.
GadgetEvaluations(k) ==
    LET instances == k.cs.queries["instance"]
        advices == k.cs.queries["advice"]
    IN  [i \in 1 .. QuotientPolyDegree(k) |-> Read(<<"limb", i>>)]
        \o <<Squeeze(<<"x">>)>>
        \o Each(Len(instances), LAMBDA i :
              IF instances[i][1] <= k.committed
              THEN <<Read(Eval(Instance(1, instances[i][1]), instances[i][2]))>> ELSE <<>>)
        \o [i \in DOMAIN advices |-> Read(Eval(Column(1, advices[i][1]), advices[i][2]))]
        \o [i \in 1 .. FixedSlots(k) |-> Read(<<"slot", i>>)]
        \o GadgetPermutationEvals(k) \o GadgetLookupEvals(k)
        \o [t \in DOMAIN k.cs.trashcans |-> Read(Eval(<<"trash", 1, t>>, 0))]

\* The openings handed to multi_prepare, each with the value it claims.
GadgetOpenings(k, values) ==
    LET sets == NumPermutationSets(k)
        advices == k.cs.queries["advice"]
        instances == k.cs.queries["instance"]
        fixed == k.cs.queries["fixed"]
        evals == FixedEvals(k, values)
        opening(com, rot) == [com |-> com, point |-> rot, eval |-> values[Eval(com, rot)]]
        z(i, rot) == opening(<<"z", 1, i>>, rot)
    IN  [i \in DOMAIN advices |-> opening(Column(1, advices[i][1]), advices[i][2])]
        \o Each(Len(instances), LAMBDA i :
              IF instances[i][1] <= k.committed
              THEN <<opening(Instance(1, instances[i][1]), instances[i][2])>> ELSE <<>>)
        \o Each(sets, LAMBDA i : <<z(i, 0), z(i, 1)>>)
        \o (IF sets = 0 THEN <<>>
            ELSE [i \in 1 .. sets - 1 |-> z(sets - i, LastRotation(k))])
        \o Each(Len(k.cs.lookups), LAMBDA l :
              <<opening(<<"m", 1, l>>, 0)>>
              \o [j \in 1 .. k.chunks[l] |-> opening(<<"h", 1, l, j>>, 0)]
              \o <<opening(<<"acc", 1, l>>, 0), opening(<<"acc", 1, l>>, 1)>>)
        \o [t \in DOMAIN k.cs.trashcans |-> opening(<<"trash", 1, t>>, 0)]
        \o Each(Len(fixed), LAMBDA i :
              IF HasSimpleSelectorCol(k.cs, fixed[i][1]) THEN <<>>
              ELSE <<[com |-> <<"fixed", fixed[i][1]>>, point |-> fixed[i][2], eval |-> evals[i]]>>)
        \o [i \in DOMAIN k.cs.permutation |-> opening(<<"sigma", i>>, 0)]
        \o <<[com |-> <<"lin">>, point |-> 0, eval |-> Eval(<<"lin">>, 0)]>>

\* multi_prepare; the feature that adds dummy queries is fixed at compile time.
GadgetReadOpenings(queries, dummies) ==
    [i \in DOMAIN dummies |-> Read(Eval(dummies[i].com, dummies[i].point))]
    \o <<Squeeze(<<"x1">>), Squeeze(<<"x2">>), Read(<<"f">>), Squeeze(<<"x3">>)>>
    \o [s \in 1 .. SetCount(queries \o dummies) |-> Read(<<"qeval", s>>)]
    \o <<Squeeze(<<"x4">>), Read(<<"pi">>)>>

GadgetPrepare(queries, fewer) ==
    GadgetReadOpenings(queries, IF fewer THEN DummyQueries(queries) ELSE <<>>)

GadgetMultiPrepare(openings, fewer) ==
    GadgetPrepare([i \in DOMAIN openings |-> Query(openings[i].com, openings[i].point)], fewer)

-----------------------------------------------------------------------------
(* The transcript                                                          *)

\* The values of a series of reads: the bytes are out of step from the first one
\* that is missing or of another encoding.
ReadOrDefault(names, bytes) ==
    LET inStep(i) == i <= Len(bytes) => IsScalar(bytes[i]) = IsScalar(names[i])
    IN  [i \in DOMAIN names |->
            IF i <= Len(bytes) /\ \A j \in 1 .. i : inStep(j) THEN bytes[i] ELSE <<"default">>]

ValuesOf(names, values) == [n \in ToSet(names) |-> values[Position(names, n)]]

\* The operations with the values that are read, in the order of the reads.
Absorbed(ops, values) ==
    [i \in DOMAIN ops |->
        IF ops[i][1] = "read" THEN Read(values[Count(ops, "read", i)]) ELSE ops[i]]

TranscriptHolds(ops) ==
    History(Absorbed(ops, ReadOrDefault(Items(ops, "read"), delivered))) = phist

OpeningsHold(early, openings, fewer) ==
    /\ TranscriptHolds(early \o GadgetMultiPrepare(openings, fewer))
    /\ \A i \in DOMAIN openings : openings[i].eval = Eval(openings[i].com, openings[i].point)

HoldsAfter(k, fewer, early, names) ==
    OpeningsHold(early, GadgetOpenings(k, ValuesOf(names, ReadOrDefault(names, delivered))), fewer)

HoldsFrom(k, fewer, early) == HoldsAfter(k, fewer, early, Items(early, "read"))

\* Whether the accumulator of the delivered proof holds.
GadgetHolds(k, fewer) == HoldsFrom(k, fewer, GadgetTrace(k) \o GadgetEvaluations(k))

-----------------------------------------------------------------------------
(* Properties                                                              *)

\* Three programs, one transcript: a proof the verifier accepts is one whose
\* accumulator the circuit shows to hold, so that a chain of proofs can go on,
\* and the circuit shows it only for the prover's whole proof, whatever the
\* defaults and the unread rest.  A challenge of the only phase is left out:
\* the circuit neither draws it nor refuses it unless a gate uses it.
GadgetFollowsVerifier ==
    (sent /\ verdict # "none" /\ key.proofs = 1 /\ ~GadgetPanics(key) /\ key.cs.challenge_phase = <<>>) =>
        /\ verdict = "accept" => GadgetHolds(key, flags[2])
        /\ GadgetHolds(key, flags[2]) => IsPrefix(proof, delivered)
=============================================================================
