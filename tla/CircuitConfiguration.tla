------------------------ MODULE CircuitConfiguration ------------------------
(***************************************************************************)
(* A circuit's `configure` calls in any order, then keygen_vk: the life of *)
(* a ConstraintSystem up to the verifying key (proofs/src/plonk/keygen.rs  *)
(* and circuit.rs).                                                        *)
(*                                                                         *)
(*   cs     the constraint system                                          *)
(*   fixed_columns  the columns committed to in the verifying key, each    *)
(*          named by where its values come from                            *)
(*   stage  "configure", then "vk", or "panic" when an assertion of the    *)
(*          code stops the program                                         *)
(***************************************************************************)
EXTENDS ConstraintSystem

CONSTANTS
    MaxFixed, MaxAdvice, MaxInstance,   \* bounds on the columns
    MaxSelectors, MaxChallenges,        \* bounds on selectors and challenges
    MaxGates, MaxLookups,               \* bounds on gates and lookups
    MaxPolys,                           \* constraints in a gate, inputs of a lookup
    PhaseSet, Rotations, Degrees,       \* phases, rotations and powers in use
    MinimumDegrees                      \* arguments of set_minimum_degree

ASSUME ConfigurationAssumption ==
    /\ PhaseSet \subseteq Nat /\ Rotations \subseteq Int
    /\ Degrees \subseteq Nat \ {0} /\ MinimumDegrees \subseteq Nat
    /\ MaxPolys \in Nat

VARIABLES cs, fixed_columns, stage

configVars == <<cs, fixed_columns, stage>>

ColumnCount(kind) ==
    CASE kind = "advice"   -> Len(cs.advice_column_phase)
      [] kind = "fixed"    -> cs.num_fixed_columns
      [] kind = "instance" -> cs.num_instance_columns

Columns == UNION {{kind} \X (1 .. ColumnCount(kind)) : kind \in Kinds}

Cells == {Cell(col[1], col[2], rot) : col \in Columns, rot \in Rotations}

\* The expressions a circuit may write now.
Inputs ==
    BoundedSeq([cell : Cells, indexed : BOOLEAN, q : 0 .. cs.num_selectors,
                d : Degrees], MaxPolys) \ {<<>>}

-----------------------------------------------------------------------------
ConfigInit ==
    /\ cs = Default
    /\ fixed_columns = <<>>
    /\ stage = "configure"

Configures(next) ==
    /\ stage = "configure"
    /\ cs' = next
    /\ UNCHANGED <<fixed_columns, stage>>

AddFixedColumn ==
    /\ cs.num_fixed_columns < MaxFixed
    /\ Configures(FixedColumn(cs))

AddInstanceColumn ==
    /\ cs.num_instance_columns < MaxInstance
    /\ Configures(InstanceColumn(cs))

\* Bug: a column may be asked for in a phase whose predecessor is empty.
AddAdviceColumnSkippingPhases ==
    \E phase \in PhaseSet :
        /\ Len(cs.advice_column_phase) < MaxAdvice
        /\ Configures(AdviceColumnIn(cs, phase))

AddAdviceColumn ==
    \E phase \in PhaseSet :
        /\ Len(cs.advice_column_phase) < MaxAdvice
        /\ phase > 0 => PhaseExists(cs, phase - 1)
        /\ Configures(AdviceColumnIn(cs, phase))

AddSelector ==
    \E simple \in BOOLEAN :
        /\ cs.num_selectors < MaxSelectors
        /\ Configures(NewSelector(cs, simple))

AddChallenge ==
    \E phase \in PhaseSet :
        /\ Len(cs.challenge_phase) < MaxChallenges
        /\ PhaseExists(cs, phase)
        /\ Configures(ChallengeUsableAfter(cs, phase))

AddEquality ==
    \E col \in Columns : Configures(EnableEquality(cs, col[1], col[2]))

AddConstant ==
    \E col \in 1 .. cs.num_fixed_columns : Configures(EnableConstant(cs, col))

AddGate ==
    \E s \in 0 .. cs.num_selectors, inputs \in Inputs :
        /\ Len(cs.gates) < MaxGates
        /\ GateAllowed(cs, IF s = 0 THEN "none" ELSE "multiplicative", s, inputs)
        /\ Configures(CreateGate(cs, s, inputs))

AddAdditiveGate ==
    \E s \in 1 .. cs.num_selectors, inputs \in Inputs :
        /\ Len(cs.gates) < MaxGates
        /\ Configures(CreateAdditiveGate(cs, s, inputs))

AddLookup ==
    \E s \in 0 .. cs.num_selectors, inputs \in Inputs,
       table \in 1 .. cs.num_fixed_columns :
        /\ Len(cs.lookups) < MaxLookups
        /\ \A p \in ToSet(inputs) : ~IsSimple(cs, p.q)
        /\ Configures(BatchedLookup(cs, s, inputs, table))

RaiseDegree ==
    \E d \in MinimumDegrees : Configures(SetMinimumDegree(cs, d))

\* keygen_vk: the selectors become fixed columns, and their values follow the
\* circuit's own fixed values in the list that is committed to.
KeygenVk ==
    /\ stage = "configure"
    /\ Chunkable(cs) /\ Convertible(cs)
    /\ cs' = ConvertSelectors(cs)
    /\ fixed_columns' = [i \in 1 .. cs.num_fixed_columns |-> <<"fixed", i>>]
                \o [i \in 1 .. cs.num_selectors |-> <<"selector", i>>]
    /\ stage' = "vk"

KeygenPanics ==
    /\ stage = "configure"
    /\ ~(Chunkable(cs) /\ Convertible(cs))
    /\ stage' = "panic"
    /\ UNCHANGED <<cs, fixed_columns>>

ConfigNext ==
    \/ AddFixedColumn \/ AddInstanceColumn \/ AddAdviceColumn
    \/ AddSelector \/ AddChallenge \/ AddEquality \/ AddConstant
    \/ AddGate \/ AddAdditiveGate \/ AddLookup \/ RaiseDegree
    \/ KeygenVk \/ KeygenPanics

ConfigSpec == ConfigInit /\ [][ConfigNext]_configVars

-----------------------------------------------------------------------------
(* Properties                                                              *)

\* No cell is queried twice.  A repeated entry would make the prover's and
\* the verifier's multi-open fail with DuplicatedQuery (poly/kzg/utils.rs).
QueriesDistinct ==
    \A kind \in Kinds : \A i, j \in DOMAIN cs.queries[kind] :
        cs.queries[kind][i] = cs.queries[kind][j] => i = j

\* num_advice_queries, from which the number of blinding rows is derived,
\* counts exactly the queries in the list of each advice column.
AdviceCountsExact ==
    \A col \in DOMAIN cs.num_advice_queries :
        cs.num_advice_queries[col] =
            Cardinality({i \in DOMAIN cs.queries["advice"] : cs.queries["advice"][i][1] = col})

Resolves(c, read) ==
    /\ read.index \in DOMAIN c.queries[read.cell.kind]
    /\ c.queries[read.cell.kind][read.index] = <<read.cell.col, read.cell.rot>>

\* Every cell that e reads is where its stored index says.
ReadsResolve(c, e) == \A read \in ToSet(e.cells) : Resolves(c, read)

\* Of a trash argument only the indices that are stored are right.  create_gate
\* fills the missing ones in the polynomials apply_selector_to_constraints
\* returns, which are none for an additive selector: a cell its constraints read
\* through Column::cur keeps None, and trash.rs unwraps it when it evaluates them.
StoredReadsResolve(c, e) ==
    \A read \in ToSet(e.cells) : read.index # 0 => Resolves(c, read)

\* The index stored in an expression when its gate, lookup or trash argument was
\* created still names the expression's own cell however many calls came later,
\* and after the selectors were replaced; and only a trash argument has
\* expressions without an index.
IndicesResolve ==
    /\ \A g \in ToSet(cs.gates) : \A e \in ToSet(g.polys) : ReadsResolve(cs, e)
    /\ \A l \in ToSet(cs.lookups) :
          /\ Resolves(cs, l.table)
          /\ ReadsResolve(cs, l.sel)
          /\ \A e \in ToSet(l.inputs) : ReadsResolve(cs, e)
    /\ \A t \in ToSet(cs.trashcans) :
          /\ ReadsResolve(cs, t.sel)
          /\ \A e \in ToSet(t.exprs) : StoredReadsResolve(cs, e)

\* The phases that carry advice columns are 0 .. max without a gap, and every
\* challenge belongs to one of them: the loop over phases() of the prover and
\* of the verifier squeezes each challenge exactly once, and an earlier phase
\* is never left without a commitment.
PhasesContiguous ==
    /\ cs.advice_column_phase # <<>> =>
          \A phase \in Phases(cs) : PhaseExists(cs, phase)
    /\ \A phase \in ToSet(cs.challenge_phase) : PhaseExists(cs, phase)

\* Every column of the permutation argument has a query at the current row:
\* get_any_query_index, called for each of them when the permutation
\* identities are evaluated, panics otherwise.
EqualityColumnsQueried ==
    \A col \in ToSet(cs.permutation) :
        Contains(cs.queries[col[1]], <<col[2], 0>>)

\* The lists of queries, their counts and the indices into them agree after any
\* calls of configure, and after key generation.
QueriesResolve ==
    /\ QueriesDistinct
    /\ AdviceCountsExact
    /\ IndicesResolve
    /\ EqualityColumnsQueried

\* In the verifying key every simple selector's flag, and every selector a
\* gate lists, point at the committed column that holds that selector's
\* values, and no other column passes for a simple selector.
SelectorColumnsAligned ==
    stage = "vk" =>
        /\ Len(fixed_columns) = cs.num_fixed_columns
        /\ \A i \in DOMAIN cs.selector_flags : cs.selector_flags[i].simple =>
              fixed_columns[cs.selector_flags[i].col] = <<"selector", i>>
        /\ \A g \in ToSet(cs.gates) : \A s \in ToSet(g.selectors) :
              /\ s.index \in DOMAIN fixed_columns
              /\ \E i \in DOMAIN cs.selector_flags :
                    /\ fixed_columns[s.index] = <<"selector", i>>
                    /\ cs.selector_flags[i].simple = s.simple
        /\ \A col \in DOMAIN fixed_columns : HasSimpleSelectorCol(cs, col) =>
              \E i \in DOMAIN cs.selector_flags :
                  fixed_columns[col] = <<"selector", i>> /\ cs.selector_flags[i].simple

\* Once a key exists, degree() bounds the degree of every constraint the
\* prover evaluates: gates, trash arguments, the LogUp accumulators and the
\* helper identity of every chunk.
DegreeBoundsKey ==
    stage = "vk" =>
        /\ \A g \in ToSet(cs.gates) : MaxDegree(g.polys) <= Degree(cs)
        /\ \A t \in ToSet(cs.trashcans) : TrashDegree(t) <= Degree(cs)
        /\ \A l \in ToSet(cs.lookups) :
              /\ AccumulatorDegree(l) <= Degree(cs)
              /\ HelperDegree(l, Degree(cs)) <= Degree(cs)

\* The verifying key has the columns and the degree the circuit needs.
KeyCoversCircuit == SelectorColumnsAligned /\ DegreeBoundsKey

\* plonk/mod.rs, of the column partially_evaluate_identities gives with an
\* identity: "the fixed column index of a simple, multiplicative selector, if
\* this evaluation point is multiplied by such a selector, `None` otherwise".
LinearizationFactorIsOwn ==
    stage = "vk" =>
        \A g \in ToSet(cs.gates) : \A e \in ToSet(g.polys) :
            LET own == {read.cell.col : read \in
                          {r \in ToSet(e.cells) :
                              /\ r.cell.kind = "fixed"
                              /\ HasSimpleSelectorCol(cs, r.cell.col)}}
            IN  LinearizationColumn(g) \in (IF own = {} THEN {0} ELSE own)
=============================================================================
