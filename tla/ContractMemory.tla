--------------------------- MODULE ContractMemory ---------------------------
(***************************************************************************)
(* The memory of the generated Solidity verifier.  The generator places    *)
(* everything at absolute addresses: VerifierMemoryLayout::new plans the   *)
(* regions, with a lifetime each, validate refuses a plan in which live    *)
(* regions overlap, and the contract's assembly writes where it was told   *)
(* to.  Not everything it writes is registered, and what it needs is       *)
(* computed a second time in the templates: the model runs the assembly    *)
(* of an accepted plan and keeps track of what is still there.             *)
(*                                                                         *)
(* The unit is the EVM word; every address and length is a multiple of it. *)
(***************************************************************************)
EXTENDS Integers, Sequences, FiniteSetsExt, SequencesExt

CONSTANT ContractShapes    \* the circuits, proofs and render options

VARIABLES
    shape,      \* what the contract is generated for
    planned,    \* "no", "rejected" or "accepted"
    layout,     \* the addresses and sizes planned
    executed,   \* how many steps of the assembly have run
    intact,     \* the values that are in memory and have not been written over
    misread     \* history: the values a block has read although they were not

contractVars == <<shape, planned, layout, executed, intact, misread>>

G1Words == 4
MsmPairWords == 5
ModexpFrameWords == 6
LowMemory == 4              \* the words below are Solidity's

Total(seq) == FoldLeft(LAMBDA n, m : n + m, 0, seq)
Longest(seq) == FoldLeft(LAMBDA n, m : IF n > m THEN n ELSE m, 0, seq)

-----------------------------------------------------------------------------
(* The sizes the generator computes.                                       *)

LookupCount(s) == Len(s.chunks)
CommitmentCount(s) ==
    Total(s.advices) + 2 * LookupCount(s) + s.permutations + Total(s.chunks) + s.trashcans
    + s.quotients

\* Bug: commitments are absorbed compressed, in two words each.
CompressedTranscriptWords(s) ==
    Longest(<<6 + s.instances + 2 * Head(s.advices) + 32,
            2 * s.quotients + s.evals + Len(s.sets) + 32,
            1 + 2 * (CommitmentCount(s) + 2) + s.evals + Len(s.sets) + 64>>)

\* The longest run of the transcript buffer between two challenges, by the
\* generator's estimate: instances and first advices, evaluations, everything.
TranscriptWords(s) ==
    Longest(<<6 + s.instances + G1Words * Head(s.advices) + 32,
            G1Words * s.quotients + s.evals + Len(s.sets) + 32,
            1 + G1Words * (CommitmentCount(s) + 2) + s.evals + Len(s.sets) + 64>>)

\* The transcript buffer, the pairing frames and the return frames end below
\* the verifying key.
VkStart(s) ==
    Longest(<<LowMemory + TranscriptWords(s), LowMemory + 32, 24 + 25, LowMemory + 1,
            LowMemory + 2 + s.selectors>>)

LinearizationTerms(s) == s.quotients + s.selectors
SetTerms(s, set) ==
    set.commitments - set.identities + IF set.linearization THEN LinearizationTerms(s) - 1 ELSE 0
FinalMsmWords(s) ==
    MsmPairWords * (Total([i \in DOMAIN s.sets |-> SetTerms(s, s.sets[i])]) + 1)
QComTraceWords(s) == MsmPairWords * Longest([i \in DOMAIN s.sets |-> SetTerms(s, s.sets[i])])
LinTraceWords(s) == MsmPairWords * LinearizationTerms(s)
AccMsmWords(s) == MsmPairWords * s.accumulatorTerms

\* The table of addresses of a fold that is emitted as a loop.
SourceTable(set) == IF set.commitments >= 4 THEN set.commitments * set.points ELSE 0
SourceTableWords(s) == Longest([i \in DOMAIN s.sets |-> SourceTable(s.sets[i])])

X1Powers(s) == Longest([i \in DOMAIN s.sets |-> s.sets[i].commitments])
QEvalWords(s) == Total([i \in DOMAIN s.sets |-> s.sets[i].points])

\* What batch_invert is called on: a denominator for each instance and each
\* negative row, and x^n - 1; without instances still one for L_0.
LagrangeInputs(s) == Longest(<<s.instances, 1>>) + s.negLagranges + 1
BatchInvertWords(s) == ModexpFrameWords + LagrangeInputs(s) - 2

-----------------------------------------------------------------------------
(* The addresses, each computed from the one before it.                    *)

\* Behind every other region.
TraceWord(s, m) ==
    Longest(<<m.quotient + s.vmState + m.stackWords, m.selectors + m.batchInvertWords,
              m.quotient + m.sourceTableWords, m.quotient + m.qComTraceWords,
              m.quotient + m.finalMsmWords, m.selectors + m.smokeWords, m.accMsm + m.accMsmWords,
              24 + 25>>)

VerifierMemoryLayout(s) ==
    LET vk          == VkStart(s)
        challenges  == vk + s.vk
        theta       == challenges + Total(s.squeezes)
        evals       == theta + 220
        commitments == evals + s.evals
        selectors   == commitments + G1Words * CommitmentCount(s)
        m == [vk |-> vk, challenges |-> challenges, theta |-> theta, evals |-> evals,
              commitments |-> commitments, selectors |-> selectors,
              quotient |-> selectors + s.selectors,
              accMsm |-> Longest(<<selectors, 896>>), scalarInv |-> vk - 8,
              stackWords |-> Longest(<<s.vmStack, ModexpFrameWords>>),
              batchInvertWords |-> BatchInvertWords(s), sourceTableWords |-> SourceTableWords(s),
              qComTraceWords |-> QComTraceWords(s), finalMsmWords |-> FinalMsmWords(s),
              accMsmWords |-> AccMsmWords(s), linTraceWords |-> LinTraceWords(s),
              smokeWords |-> Longest(<<MsmPairWords, QComTraceWords(s), FinalMsmWords(s),
                                       AccMsmWords(s), LinTraceWords(s)>>)]
    IN  m @@ [trace |-> TraceWord(s, m)]

Region(name, start, size, life) == [name |-> name, start |-> start, len |-> size, life |-> life]

\* The regions registered, in words; "permanent" is live in every phase.
MemoryMap(s, m) ==
    {Region("constructor_smoke_scratch", LowMemory, 24, "ConstructorSmoke"),
     Region("transcript_buffer", LowMemory, TranscriptWords(s), "Transcript"),
     Region("pcs_pairing_static_working", LowMemory, 32, "PcsPairing"),
     Region("verifier_return", LowMemory, 1, "VerifierReturn"),
     Region("quotient_return", LowMemory, 2 + s.selectors, "QuotientReturn"),
     Region("final_pairing_scratch", 24, 25, "FinalPairing"),
     Region("accumulator_pairing_batch", 8, 17, "AccumulatorPairingBatch"),
     Region("vk_payload", m.vk, s.vk, "permanent"),
     Region("scalar_inv_scratch", m.scalarInv, ModexpFrameWords, "ScalarInv"),
     Region("challenge_slots", m.challenges, Total(s.squeezes), "permanent"),
     Region("theta_scalar_and_g1_slots", m.theta, 52, "permanent"),
     Region("rot_points", m.theta + 52, s.rotations, "PcsFixed"),
     Region("x1_powers", m.theta + 80, X1Powers(s), "PcsFixed"),
     Region("q_eval_set", m.theta + 145, QEvalWords(s), "PcsFixed"),
     Region("q_eval_cptr_slot", m.theta + 201, 1, "permanent"),
     Region("g1_identity", m.theta + 209, G1Words, "permanent"),
     Region("decoded_evals", m.evals, s.evals, "permanent"),
     Region("decompressed_commitments", m.commitments, G1Words * CommitmentCount(s), "permanent"),
     Region("constructor_g1msm_smoke_scratch", m.selectors, m.smokeWords, "ConstructorSmoke"),
     Region("selector_accumulators", m.selectors, s.selectors, "PcsFinalMsm"),
     Region("batch_invert_scratch", m.selectors, m.batchInvertWords, "LagrangeBatchInvert"),
     Region("quotient_state", m.quotient, s.vmState, "QuotientVm"),
     Region("quotient_stack", m.quotient + s.vmState, m.stackWords, "QuotientVm"),
     Region("pcs_q_eval_source_table", m.quotient, m.sourceTableWords, "PcsQEvalSourceTable"),
     Region("pcs_q_com_trace_msm", m.quotient, m.qComTraceWords, "PcsQComTrace"),
     Region("pcs_final_msm", m.quotient, m.finalMsmWords, "PcsFinalMsm"),
     Region("accumulator_msm", m.accMsm, m.accMsmWords, "AccumulatorMsm"),
     Region("trace_u256_log_word", m.trace, 1, "permanent")}

Overlaps(left, right) ==
    /\ left.len # 0 /\ right.len # 0
    /\ left.start < right.start + right.len /\ right.start < left.start + left.len
Intersects(left, right) == "permanent" \in {left.life, right.life} \/ left.life = right.life

FitsWindows(s) == s.rotations <= 28 /\ X1Powers(s) <= 65 /\ QEvalWords(s) <= 56

NoLiveOverlap(regions) ==
    /\ \A region \in regions : region.len # 0 => region.start >= LowMemory
    /\ \A left, right \in regions :
            left.name # right.name => ~(Overlaps(left, right) /\ Intersects(left, right))

Validates(s, m) == FitsWindows(s) /\ NoLiveOverlap(MemoryMap(s, m))

-----------------------------------------------------------------------------
(* The values the assembly keeps in memory, and where.                     *)

Span(start, size) == [start |-> start, len |-> size]

ValueSpans(s, m) ==
    [vk |-> Span(m.vk, s.vk), challenges |-> Span(m.challenges, Total(s.squeezes)),
     squeezed |-> Span(m.theta, 10), fCom |-> Span(m.theta + 10, G1Words),
     pi |-> Span(m.theta + 14, G1Words), accLhs |-> Span(m.theta + 18, G1Words),
     accRhs |-> Span(m.theta + 22, G1Words), inverses |-> Span(m.theta + 26, LagrangeInputs(s)),
     lagrange |-> Span(m.theta + 26, 6), quotientEval |-> Span(m.theta + 32, 1),
     split |-> Span(m.theta + 33, 2), fEval |-> Span(m.theta + 38, 1), v |-> Span(m.theta + 39, 1),
     finalCom |-> Span(m.theta + 40, G1Words), pairingLhs |-> Span(m.theta + 44, G1Words),
     pairingRhs |-> Span(m.theta + 48, G1Words), rotPoints |-> Span(m.theta + 52, s.rotations),
     x1Powers |-> Span(m.theta + 80, X1Powers(s)), qEvalSet |-> Span(m.theta + 145, QEvalWords(s)),
     qEvalCptr |-> Span(m.theta + 201, 1), identity |-> Span(m.theta + 209, G1Words),
     evals |-> Span(m.evals, s.evals),
     commitments |-> Span(m.commitments, G1Words * CommitmentCount(s)),
     selectors |-> Span(m.selectors, s.selectors)]

-----------------------------------------------------------------------------
(* The assembly: what each block reads of earlier blocks, the words it     *)
(* uses and leaves behind, and what it writes for later blocks.            *)

Block(reads, scratch, writes) == [reads |-> reads, scratch |-> scratch, writes |-> writes]
When(condition, blocks) == IF condition THEN blocks ELSE <<>>
TraceScratch(s, m) == IF s.trace THEN {Span(m.trace, 1)} ELSE {}

\* How many words the buffer holds when each challenge of the phases is drawn:
\* the advices of a phase without a challenge stay for the next one's.
PhaseRuns(s) ==
    FoldLeft(LAMBDA run, i :
                LET held == run.held + G1Words * s.advices[i]
                IN  [longest |-> Longest(<<run.longest, held>>),
                     held    |-> IF s.squeezes[i] = 0 THEN held ELSE 1],
             [longest |-> 0, held |-> 6 + s.instances], [i \in DOMAIN s.advices |-> i]).longest

LongestRun(s) ==
    Longest(<<PhaseRuns(s), 1 + G1Words * LookupCount(s),
            1 + G1Words * (s.permutations + Total(s.chunks) + LookupCount(s)),
            1 + G1Words * s.trashcans, 1 + G1Words * s.quotients, 1 + s.evals, 1 + G1Words,
            1 + Len(s.sets)>>)

LoadVk(s, m) == <<Block({}, {}, {"vk"})>>
ValidateAccumulator(s, m) ==
    When(s.accumulatorTerms > 0,
         <<Block({"vk"}, {Span(m.accMsm, m.accMsmWords)}, {"accLhs", "accRhs"})>>)
ParseProof(s, m) ==
    <<Block({"vk"}, {Span(LowMemory, LongestRun(s))} \cup TraceScratch(s, m),
            {"challenges", "squeezed", "evals", "commitments", "fCom", "pi", "qEvalCptr"})>>

\* Denominators are inverted in place from X_N_MPTR on; the six slots there
\* are written once the inverses have been used.
Lagrange(s, m) ==
    <<Block({"vk", "squeezed"}, {Span(m.selectors, m.batchInvertWords)}, {"inverses"}),
      Block({"vk", "inverses"}, {}, {"lagrange"})>>

QuotientNumerator(s, m) ==
    LET inputs == {"vk", "challenges", "squeezed", "lagrange", "evals"}
    IN  IF s.external
        THEN <<Block(inputs, {Span(LowMemory, 2 + s.selectors)}, {"quotientEval", "selectors"})>>
        ELSE <<Block({"squeezed"}, {Span(m.quotient, s.vmState)}, {"selectors"}),
               Block(inputs \cup {"selectors"},
                     {Span(m.quotient, s.vmState + m.stackWords)} \cup TraceScratch(s, m),
                     {"quotientEval"})>>
Linearization(s, m) ==
    <<Block({"squeezed"}, {}, {"split"})>>
    \o When(s.trace, <<Block({"split", "commitments", "vk", "selectors"},
                             {Span(m.quotient, m.linTraceWords)}, {})>>)

FoldEvaluations(s, m) ==
    <<Block({"squeezed", "vk"},
            IF s.trace THEN {Span(m.theta + 145,
                                  Longest([i \in DOMAIN s.sets |-> s.sets[i].points]))} ELSE {},
            {"rotPoints"}),
      Block({"squeezed"}, {}, {"x1Powers"}),
      Block({"evals", "x1Powers", "quotientEval"}, {Span(m.quotient, m.sourceTableWords)},
            {"qEvalSet"})>>
TraceQCom(s, m) ==
    LET empty == \E i \in DOMAIN s.sets : SetTerms(s, s.sets[i]) = 0
    IN  When(s.trace, <<Block({"x1Powers", "split", "commitments", "vk", "selectors"}
                                  \cup IF empty THEN {"identity"} ELSE {},
                              {Span(m.quotient, Longest(<<m.qComTraceWords, G1Words>>))},
                              {})>>)
FinalCommitment(s, m) ==
    <<Block({"squeezed", "qEvalCptr", "rotPoints", "qEvalSet"},
            {Span(m.scalarInv, ModexpFrameWords)}, {"fEval"}),
      Block({"squeezed", "split", "qEvalCptr", "fEval", "x1Powers", "commitments", "vk",
             "selectors", "fCom"}, {Span(m.quotient, m.finalMsmWords)}, {"finalCom", "v"}),
      Block({"pi", "vk", "v", "finalCom", "squeezed"}, {Span(LowMemory, 9)},
            {"pairingLhs", "pairingRhs"})>>
    \o When(s.trace, <<Block({"pairingLhs", "pairingRhs", "selectors"}, TraceScratch(s, m), {})>>)

FinalPairing(s, m) ==
    When(s.accumulatorTerms > 0,
         <<Block({"pairingLhs", "pairingRhs", "accLhs", "accRhs"}, {Span(8, 17)},
                 {"pairingLhs", "pairingRhs"})>>)
    \o <<Block({"pairingLhs", "pairingRhs", "vk"}, {Span(24, 24)}, {})>>
TraceReturn(s, m) ==
    When(s.trace,
         <<Block({"vk", "challenges", "squeezed", "lagrange", "quotientEval", "split", "fCom", "pi",
                  "fEval", "v", "finalCom"}
                     \cup IF s.accumulatorTerms > 0 THEN {"accLhs", "accRhs"} ELSE {},
                 TraceScratch(s, m) \cup {Span(m.theta + 35, 2)}, {})>>)
    \o <<Block({}, {Span(LowMemory, 1)}, {})>>

Assembly(s, m) ==
    LoadVk(s, m) \o ValidateAccumulator(s, m) \o ParseProof(s, m) \o Lagrange(s, m)
    \o QuotientNumerator(s, m) \o Linearization(s, m) \o FoldEvaluations(s, m)
    \o TraceQCom(s, m) \o FinalCommitment(s, m) \o FinalPairing(s, m) \o TraceReturn(s, m)

\* What is in memory after a block: its scratch spoils what it overlaps, and so
\* does each value it writes.
After(spans, before, block) ==
    LET hit(name, used) == \E span \in used : Overlaps(spans[name], span)
        written(names)  == {spans[name] : name \in names}
    IN  {name \in before \ block.writes : ~hit(name, block.scratch \cup written(block.writes))}
        \cup {name \in block.writes :
                ~hit(name, block.scratch \cup written(block.writes \ {name}))}

\* What a block reads that is not there, or not until it has been read: its own
\* scratch may lie on it.
Misreads(spans, before, block) ==
    {name \in block.reads :
        name \notin before \/ \E span \in block.scratch : Overlaps(spans[name], span)}

-----------------------------------------------------------------------------
\* Fresh memory is zero, which is the encoding of the identity.
ContractInit ==
    /\ shape \in ContractShapes
    /\ planned = "no" /\ layout = <<>> /\ executed = 0 /\ intact = {"identity"}
    /\ misread = {}

PlanMemory ==
    /\ planned = "no"
    /\ layout' = VerifierMemoryLayout(shape)
    /\ planned' = IF Validates(shape, layout') THEN "accepted" ELSE "rejected"
    /\ UNCHANGED <<shape, executed, intact, misread>>

ExecuteBlock ==
    /\ planned = "accepted"
    /\ LET assembly == Assembly(shape, layout)
           spans    == ValueSpans(shape, layout)
       IN  /\ executed < Len(assembly)
           /\ intact' = After(spans, intact, assembly[executed + 1])
           /\ misread' = misread \cup Misreads(spans, intact, assembly[executed + 1])
    /\ executed' = executed + 1
    /\ UNCHANGED <<shape, planned, layout>>

ContractNext == PlanMemory \/ ExecuteBlock

ContractSpec == ContractInit /\ [][ContractNext]_contractVars

-----------------------------------------------------------------------------
\* What an accepted plan may overwrite: two things memory.rs does not register.

\* The denominators, inverted in place from X_N_MPTR on, reach the slot of the
\* evaluations' address.
DenominatorsSpill(s) == 26 + LagrangeInputs(s) > 201
\* The transcript buffer runs into the verifying key.
TranscriptSpills(s) == LowMemory + LongestRun(s) > VkStart(s)

(***************************************************************************)
(* The two ways above are the only ones in which the verifier generated    *)
(* from an accepted plan reads a word that the scratch space or the        *)
(* results of some block, its own included, have overwritten; and in both  *)
(* of them it does.  So the lifetimes the planner checks its regions with  *)
(* are those the assembly has, but "rejects accidental overlap"            *)
(* (memory.rs:12) holds for the regions it registers only.                 *)
(***************************************************************************)
ReadsIntact ==
    planned = "accepted" =>
        LET spills == DenominatorsSpill(shape) \/ TranscriptSpills(shape)
        IN  /\ misread # {} => spills
            /\ executed = Len(Assembly(shape, layout)) /\ spills => misread # {}

(***************************************************************************)
(* The buffer is planned long enough for the longest run of the transcript *)
(* if every phase but the last draws a challenge; a phase that draws none  *)
(* leaves its advices to the next one's run, which the estimate ignores.   *)
(***************************************************************************)
EstimateSuffices ==
    planned = "accepted" /\ (\A i \in 1 .. Len(shape.squeezes) - 1 : shape.squeezes[i] > 0) =>
        ~TranscriptSpills(shape)

(***************************************************************************)
(* validate refuses only shapes that exceed the fixed windows: the planner *)
(* never places two regions on one another by itself.                      *)
(***************************************************************************)
PlansAccepted == planned = "rejected" => ~FitsWindows(shape)

\* The planner accepts what fits.  What it accepts reads memory that is not its own
\* exactly if the denominators reach an address still needed, or the transcript the
\* verifying key, which takes a phase without a challenge before another.
MemorySafe == ReadsIntact /\ EstimateSuffices /\ PlansAccepted
=============================================================================
