-------------------------------- MODULE LogUp --------------------------------
(***************************************************************************)
(* The LogUp lookup argument (proofs/src/plonk/logup): the prover counts   *)
(* how often each table entry is looked up and commits to the running sum  *)
(* of s*h - m/(t+beta); the verifier's identities hold the sum to zero at  *)
(* both ends of the usable rows.  A value stands for a tuple compressed    *)
(* with theta, and for beta drawn after the columns the fractions          *)
(* 1/(v+beta) of different values are independent: a field element of the  *)
(* sum is the function from each value to the coefficient of its fraction. *)
(***************************************************************************)
EXTENDS Integers, FiniteSetsExt

CONSTANTS
    FieldSize,        \* the prime order of the field
    UsableRows,       \* usable_rows = n - blinding_factors - 1
    BlindingRows,     \* blinding_factors
    ParallelLookups,  \* the inputs looked up in each row
    PerChunk,         \* nb_parallel_lookups_per_chunk
    LookupValues      \* the values of inputs and table

ASSUME LookupAssumption ==
    /\ UsableRows \in Nat \ {0} /\ BlindingRows \in Nat
    /\ ParallelLookups \in Nat \ {0} /\ PerChunk \in Nat \ {0}
    /\ 0 \in LookupValues
    \* No count reaches the characteristic.
    /\ FieldSize > UsableRows * ParallelLookups

Active == 0 .. UsableRows - 1
LastRow == UsableRows
LookupRows == 0 .. UsableRows + BlindingRows
Lookups == 1 .. ParallelLookups
NbChunks == (ParallelLookups + PerChunk - 1) \div PerChunk

VARIABLES
    columns,         \* the table, the selector and the inputs
    multiplicities,  \* the committed multiplicities, by usable row
    accumulator,     \* aggregator_poly up to the last row; later rows are blinding
    lookupPhase      \* how far the prover is

lookupVars == <<columns, multiplicities, accumulator, lookupPhase>>

ZeroSum == [v \in LookupValues |-> 0]
FieldInverse(n) == CHOOSE i \in 0 .. FieldSize - 1 : (n * i) % FieldSize = 1

-----------------------------------------------------------------------------
(* The columns                                                             *)

\* Fixed columns are zero outside the usable rows; without a selector the
\* argument holds the constant one; inputs are advice and blinded.
LookupInit ==
    /\ \E table \in [Active -> LookupValues],
          selector \in [Active -> {0, 1}] \cup {[r \in LookupRows |-> 1]},
          inputs \in [Lookups \X LookupRows -> LookupValues] :
            columns = [table |-> [r \in LookupRows |-> IF r \in Active THEN table[r] ELSE 0],
                       selector |-> [r \in LookupRows |->
                                        IF r \in DOMAIN selector THEN selector[r] ELSE 0],
                       inputs |-> inputs]
    /\ multiplicities = <<>> /\ accumulator = <<>>
    /\ lookupPhase = "columns"

-----------------------------------------------------------------------------
(* The prover                                                              *)

TableCounts(v) == Quantify(Active, LAMBDA r : columns.table[r] = v)

Selected == {lr \in Lookups \X Active : columns.selector[lr[2]] # 0}

InputCounts(v) == Quantify(Selected, LAMBDA lr : columns.inputs[lr] = v)

Missing == \E lr \in Selected : TableCounts(columns.inputs[lr]) = 0

\* Bug: every copy of a table entry gets the whole count.
MultiplicityWhole(r) == InputCounts(columns.table[r]) % FieldSize

Multiplicity(r) ==
    LET v == columns.table[r] IN (InputCounts(v) * FieldInverse(TableCounts(v))) % FieldSize

CommitMultiplicities ==
    /\ lookupPhase = "columns"
    /\ IF Missing
       THEN lookupPhase' = "panicked" /\ UNCHANGED multiplicities
       ELSE /\ lookupPhase' = "multiplicities"
            /\ multiplicities' = [r \in Active |-> Multiplicity(r)]
    /\ UNCHANGED <<columns, accumulator>>

\* The helper polynomial of a chunk, before the selector.
Helper(chunk, r) ==
    [v \in LookupValues |->
        Quantify({l \in Lookups : (l - 1) \div PerChunk = chunk}, LAMBDA l : columns.inputs[<<l, r>>] = v)]

SumHelpers(r) ==
    [v \in LookupValues |-> MapThenSumSet(LAMBDA k : Helper(k, r)[v], 0 .. NbChunks - 1)]

\* What a row adds to the running sum under multiplicities m.
LogDerivative(m, r) ==
    [v \in LookupValues |->
        (columns.selector[r] * SumHelpers(r)[v]
           + (IF columns.table[r] = v THEN FieldSize - m[r] ELSE 0)) % FieldSize]

\* The one accumulator that starts at zero and follows the rows.
RunningSum(m) ==
    LET sum[r \in 0 .. LastRow] ==
            IF r = 0 THEN ZeroSum
            ELSE [v \in LookupValues |-> (sum[r - 1][v] + LogDerivative(m, r - 1)[v]) % FieldSize]
    IN  sum

CommitLogDerivative ==
    /\ lookupPhase = "multiplicities"
    /\ accumulator' = RunningSum(multiplicities)
    /\ lookupPhase' = "accumulated"
    /\ UNCHANGED <<columns, multiplicities>>

LookupNext == CommitMultiplicities \/ CommitLogDerivative

LookupSpec == LookupInit /\ [][LookupNext]_lookupVars

-----------------------------------------------------------------------------
(* The verifier's identities                                               *)

\* The helper constraints leave a prover no choice for the helpers, and the
\* accumulator constraint on the active rows, with the boundary at row 0, none
\* for the accumulator: it answers the boundary at the last row.
Boundary(z) == z[0] = ZeroSum /\ z[LastRow] = ZeroSum

-----------------------------------------------------------------------------
(* Properties                                                              *)

InTable(v) == \E r \in Active : columns.table[r] = v

\* Soundness of the identities: with whatever multiplicities a prover commits to,
\* the verifier's identities hold only if every selected input of the usable rows is
\* in the usable part of the table.
LookupSound ==
    lookupPhase = "columns" =>
        \A m \in [Active -> 0 .. FieldSize - 1] :
            Boundary(RunningSum(m)) => \A lr \in Selected : InTable(columns.inputs[lr])

\* Completeness of compute_multiplicities and commit_logderivative: the prover
\* panics only if a selected input is missing, and otherwise its running sum
\* satisfies the verifier's boundary, however often table entries are repeated.
LookupComplete ==
    /\ lookupPhase = "panicked" => \E lr \in Selected : ~InTable(columns.inputs[lr])
    /\ lookupPhase = "accumulated" => Boundary(accumulator)

\* The lookup argument accepts exactly the inputs that are in the table.
LookupExact == LookupSound /\ LookupComplete
=============================================================================
