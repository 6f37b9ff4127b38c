----------------------------- MODULE MCCircuit -----------------------------
(***************************************************************************)
(* What happens to a circuit before there is a proof: `configure` and the  *)
(* key (CircuitConfiguration), and synthesis with one of the two floor     *)
(* planners, SimpleFloorPlanner (SinglePassLayouter) or V1 (V1Planner).  A *)
(* behaviour looks at one of the three; the state of the others stays as   *)
(* it was.                                                                 *)
(***************************************************************************)
EXTENDS SinglePassLayouter, CircuitConfiguration

CONSTANT MaxCalls                 \* configure calls explored
CONSTANTS a1, a2, g, s1, x, y     \* columns and values of the circuits V1 plans

VARIABLES part, circuit, shapes, queue, starts, allocations, index, requests, positions,
          cells, links, owners, phase

v1state == <<circuit, shapes, queue, starts, allocations, index, requests, positions, cells,
             links, owners, phase>>

V1Op(kind, col, off, val) == [kind |-> kind, col |-> col, off |-> off, val |-> val]

V1ColumnOrder == <<a1, a2, g, s1>>

\* One closure for every kind of operation and shape that matters: none, one
\* and two columns, gaps of one and two rows, regions that use the constants
\* column, and constants.
V1Closures ==
    {<<>>,
     <<V1Op("advice", a1, 0, Zero)>>,
     <<V1Op("advice", a2, 2, Zero)>>,
     <<V1Op("advice", a1, 1, Zero), V1Op("selector", s1, 0, Zero)>>,
     <<V1Op("advice", a2, 0, Zero), V1Op("advice", a1, 1, Zero)>>,
     <<V1Op("advice", a1, 0, Zero), V1Op("advice", a2, 0, Zero)>>,
     <<V1Op("constant", a1, 0, x)>>,
     <<V1Op("constant", a2, 1, y), V1Op("constant", a2, 0, x)>>,
     <<V1Op("fixed", g, 0, y)>>,
     <<V1Op("fixed", g, 1, x), V1Op("advice", a2, 0, Zero)>>}

V1 == INSTANCE V1Planner WITH
        ColumnOrder <- V1ColumnOrder, Advice <- {a1, a2}, Fixed <- {g},
        ConstantsColumns <- <<g>>, Closures <- V1Closures, UsableRows <- UsableRows + 1,
        MaxRegions <- MaxRegions + 2

CircuitInit ==
    /\ part \in {"configure", "simple", "v1"} /\ ConfigInit /\ Init /\ V1!V1Init
    /\ part # "simple" => constants = {}

ConfigureStep == part = "configure" /\ ConfigNext /\ UNCHANGED <<part, vars, v1state>>
SimpleStep == part = "simple" /\ Next /\ UNCHANGED <<part, configVars, v1state>>
V1Step == part = "v1" /\ V1!V1Next /\ UNCHANGED <<part, configVars, vars>>

CircuitNext == ConfigureStep \/ SimpleStep \/ V1Step

CircuitSpec == CircuitInit /\ [][CircuitNext]_<<part, configVars, vars, v1state>>

Calls ==
    cs.num_fixed_columns + cs.num_instance_columns + Len(cs.advice_column_phase)
    + cs.num_selectors + Len(cs.challenge_phase) + Len(cs.permutation)
    + Len(cs.constants) + Len(cs.gates) + Len(cs.lookups)

CallBound == stage = "configure" => Calls <= MaxCalls

\* Values and table columns are only compared with each other.
Symmetry == Permutations(Values) \cup Permutations(TableColumns)

\* Tables and regions have no column in common: tables are only tried before
\* the first region.
TablesFirst == pc = "table" => regions = <<>>

\* The assertions and the expect of V1's strategy never fail.
NeverPanics == V1!NeverPanics

\* V1 gives no cell to two regions, or to a region and a constant, and a
\* synthesis that ends well has every constant in place and copied.
V1Sound == V1!CellsDisjoint /\ V1!V1ConstantsHold

\* V1 places every region at the earliest row where its columns are free.
EarliestFit == V1!EarliestFit
=============================================================================
