-------------------------- MODULE ConstraintSystem --------------------------
(***************************************************************************)
(* The value a circuit's `configure` builds: ConstraintSystem of           *)
(* proofs/src/plonk/circuit.rs, with the degree arithmetic of the LogUp    *)
(* and trash arguments.  Every `&mut self` method is an operator from a    *)
(* constraint system to the next one; CircuitConfiguration gives them      *)
(* their order.                                                            *)
(*                                                                         *)
(* Columns and selectors are numbered from 1.  A cell is a column read at  *)
(* a rotation.  An expression is reduced to what the prover and the        *)
(* verifier do with it: the cells it reads, each with the query index      *)
(* stored in it (0 is Rust's None), the virtual selectors it multiplies    *)
(* by, and its degree.                                                     *)
(***************************************************************************)
EXTENDS Integers, Sequences, SequencesExt

Kinds == {"advice", "fixed", "instance"}

Cell(kind, col, rot) == [kind |-> kind, col |-> col, rot |-> rot]

Default ==
    [ num_fixed_columns    |-> 0,
      num_instance_columns |-> 0,
      advice_column_phase  |-> <<>>,
      num_advice_queries   |-> <<>>,
      num_selectors        |-> 0,
      selector_flags       |-> <<>>,
      challenge_phase      |-> <<>>,
      queries              |-> [k \in Kinds |-> <<>>],
      permutation          |-> <<>>,
      constants            |-> <<>>,
      gates                |-> <<>>,
      lookups              |-> <<>>,
      trashcans            |-> <<>>,
      minimum_degree       |-> 0 ]

-----------------------------------------------------------------------------
(* Columns, selectors and challenges.                                      *)

FixedColumn(c) == [c EXCEPT !.num_fixed_columns = @ + 1]

InstanceColumn(c) == [c EXCEPT !.num_instance_columns = @ + 1]

AdviceColumnIn(c, phase) ==
    [c EXCEPT !.advice_column_phase = Append(@, phase),
              !.num_advice_queries  = Append(@, 0)]

\* Some advice column lives in the phase: what assert_phase_exists asks for.
PhaseExists(c, phase) == Contains(c.advice_column_phase, phase)

NewSelector(c, simple) ==
    [c EXCEPT !.num_selectors  = @ + 1,
              !.selector_flags = Append(@, [simple |-> simple, col |-> 0])]

ChallengeUsableAfter(c, phase) ==
    [c EXCEPT !.challenge_phase = Append(@, phase)]

Phases(c) == 0 .. Max({0} \cup ToSet(c.advice_column_phase))

HasSimpleSelectorCol(c, col) ==
    \E f \in ToSet(c.selector_flags) : f.simple /\ f.col = col

NumSimpleSelectors(c) ==
    Len(SelectSeq(c.selector_flags, LAMBDA f : f.simple))

IsSimple(c, s) == s # 0 /\ c.selector_flags[s].simple

-----------------------------------------------------------------------------
(* Queries: a list per kind of column, in the order of the first request.  *)

\* Bug: a new query is numbered before the list grows.
QueryIndexOfPrevious(c, cell) ==
    LET known == SelectInSeq(c.queries[cell.kind],
                             LAMBDA q : q = <<cell.col, cell.rot>>)
    IN  IF known # 0 THEN known ELSE Len(c.queries[cell.kind])

QueryIndex(c, cell) ==
    LET known == SelectInSeq(c.queries[cell.kind],
                             LAMBDA q : q = <<cell.col, cell.rot>>)
    IN  IF known # 0 THEN known ELSE Len(c.queries[cell.kind]) + 1

AppendQuery(queries, cell) ==
    [queries EXCEPT ![cell.kind] = Append(@, <<cell.col, cell.rot>>)]

CountQuery(counts, cell) ==
    IF cell.kind = "advice" THEN [counts EXCEPT ![cell.col] = @ + 1] ELSE counts

PushQuery(c, cell) ==
    [c EXCEPT !.queries            = AppendQuery(@, cell),
              !.num_advice_queries = CountQuery(@, cell)]

QueryAny(c, cell) ==
    IF Contains(c.queries[cell.kind], <<cell.col, cell.rot>>) THEN c
    ELSE PushQuery(c, cell)

EnableEquality(c, kind, col) ==
    [QueryAny(c, Cell(kind, col, 0)) EXCEPT !.permutation =
        IF Contains(@, <<kind, col>>) THEN @ ELSE Append(@, <<kind, col>>)]

EnableConstant(c, col) ==
    IF Contains(c.constants, col) THEN c
    ELSE EnableEquality([c EXCEPT !.constants = Append(@, col)], "fixed", col)

-----------------------------------------------------------------------------
(* Gates, lookups and trash arguments.  An input expression is written by  *)
(* the circuit as [cell, indexed, q, d]: cell^d times the selector q (0 if *)
(* none); `indexed` tells a cell read through VirtualCells::query_*, which *)
(* stores the index at once, from one read through Column::cur and its     *)
(* kin, which leaves None for query_cells to fill.                         *)

\* query_any over the inputs at the positions `chosen`, in their order.
QueryEach(c, inputs, chosen) ==
    LET after[n \in 0 .. Len(inputs)] ==
            IF n = 0 THEN c
            ELSE IF n \in chosen THEN QueryAny(after[n - 1], inputs[n].cell)
            ELSE after[n - 1]
    IN  after[Len(inputs)]

QueryAll(c, inputs) == QueryEach(c, inputs, DOMAIN inputs)

QueryIndexed(c, inputs) ==
    QueryEach(c, inputs, {n \in DOMAIN inputs : inputs[n].indexed})

SelectorsOf(inputs) ==
    LET upto[n \in 0 .. Len(inputs)] ==
            IF n = 0 THEN <<>>
            ELSE IF inputs[n].q = 0 THEN upto[n - 1]
            ELSE Append(upto[n - 1], inputs[n].q)
    IN  upto[Len(inputs)]

\* The stored form of p once the cells marked `resolved` have an index.
Stored(c, p, resolved) ==
    [ cells |-> << [cell  |-> p.cell,
                    index |-> IF resolved THEN QueryIndex(c, p.cell) ELSE 0] >>,
      sels  |-> IF p.q = 0 THEN <<>> ELSE << p.q >>,
      deg   |-> p.d + (IF p.q = 0 THEN 0 ELSE 1) ]

\* A selector as an expression; the absent selector is the constant one.
SelectorExpr(s) ==
    [ cells |-> <<>>, sels |-> IF s = 0 THEN <<>> ELSE <<s>>,
      deg   |-> IF s = 0 THEN 0 ELSE 1 ]

Tagged(c, sels) ==
    [i \in DOMAIN sels |-> [index |-> sels[i], simple |-> IsSimple(c, sels[i])]]

\* Multiplication of two expressions with simple selectors panics.
GateAllowed(c, type, s, inputs) ==
    type = "multiplicative" /\ IsSimple(c, s) =>
        \A p \in ToSet(inputs) : ~IsSimple(c, p.q)

\* with_additive_selector: the constraints leave for a trash argument before
\* query_cells runs over the gate, whose own list of polynomials is empty.
CreateAdditiveGate(c, s, inputs) ==
    LET c1 == QueryIndexed(c, inputs)
    IN  [c1 EXCEPT
           !.trashcans = Append(@, [sel   |-> SelectorExpr(s),
                                    exprs |-> [i \in DOMAIN inputs |->
                                        Stored(c1, inputs[i], inputs[i].indexed)]]),
           !.gates = Append(@, [selectors |-> Tagged(c, Append(SelectorsOf(inputs), s)),
                                polys     |-> <<>>])]

\* with_selector (s # 0) and without_selector (s = 0).
CreateGate(c, s, inputs) ==
    LET c1    == QueryAll(QueryIndexed(c, inputs), inputs)
        inner == SelectorsOf(inputs)
        sels  == IF s = 0 THEN inner ELSE Append(inner, s)
        poly(p) == LET e == Stored(c1, p, TRUE) IN
                   IF s = 0 THEN e
                   ELSE [e EXCEPT !.sels = <<s>> \o @, !.deg = @ + 1]
    IN  [c1 EXCEPT !.gates =
           Append(@, [selectors |-> Tagged(c, sels),
                      polys     |-> [i \in DOMAIN inputs |-> poly(inputs[i])]])]

\* A lookup of parallel inputs in one table column.
BatchedLookup(c, s, inputs, table) ==
    LET c1 == QueryAny(QueryIndexed(c, inputs), Cell("fixed", table, 0))
        c2 == QueryAll(c1, inputs)
        t  == Cell("fixed", table, 0)
    IN  [c2 EXCEPT !.lookups =
           Append(@, [sel    |-> SelectorExpr(s),
                      inputs |-> [i \in DOMAIN inputs |-> Stored(c2, inputs[i], TRUE)],
                      table  |-> [cell |-> t, index |-> QueryIndex(c2, t)]])]

SetMinimumDegree(c, d) == [c EXCEPT !.minimum_degree = d]

-----------------------------------------------------------------------------
(* Degrees, chunks and blinding rows.                                      *)

NextPowerOfTwo(n) == Min({p \in {2^i : i \in 0 .. n} : p >= n})

MaxDegree(exprs) == Max({0} \cup {e.deg : e \in ToSet(exprs)})

\* LogUp's lookup_degree.
LookupDegree(l) ==
    IF l.inputs = <<>> THEN 1 ELSE MaxDegree(l.inputs)

NbParallelLookupsPerChunk(l, d) == NextPowerOfTwo(d - 1) \div LookupDegree(l)

HelperDegree(l, d) == 1 + NbParallelLookupsPerChunk(l, d) * LookupDegree(l)

AccumulatorDegree(l) == 2 + l.sel.deg + 1

DegreeBatchedArgument(l, d) ==
    NextPowerOfTwo(Max({HelperDegree(l, d), AccumulatorDegree(l)}) - 1) + 1

TrashDegree(t) == Max({2, MaxDegree(t.exprs)})

DegreeWithoutLookup(c) ==
    Max({3, c.minimum_degree}
        \cup {TrashDegree(t) : t \in ToSet(c.trashcans)}
        \cup {MaxDegree(g.polys) : g \in ToSet(c.gates)})

Degree(c) ==
    LET d == DegreeWithoutLookup(c)
    IN  Max({d} \cup {DegreeBatchedArgument(l, d) : l \in ToSet(c.lookups)})

\* slice::chunks panics on a chunk size of zero.
Chunkable(c) ==
    \A l \in ToSet(c.lookups) : NbParallelLookupsPerChunk(l, Degree(c)) > 0

NumChunks(c, l) ==
    LET nb == NbParallelLookupsPerChunk(l, Degree(c))
    IN  (Len(l.inputs) + nb - 1) \div nb

BlindingFactors(c) ==
      Max({3} \cup ToSet(c.num_advice_queries))
    + Len(c.trashcans)
    + FoldLeft(LAMBDA n, l : n + NumChunks(c, l), 0, c.lookups)
    + 3

-----------------------------------------------------------------------------
(* directly_convert_selectors_to_fixed.                                    *)

PointFlag(flags, i, col) == [flags EXCEPT ![i] = [simple |-> TRUE, col |-> col]]

\* One selector gets its fixed column, queried at the current row.
ConvertSelector(a, i) ==
    LET c1 == FixedColumn(a.cs)
        c2 == IF c1.selector_flags[i].simple
              THEN [c1 EXCEPT !.selector_flags = PointFlag(@, i, c1.num_fixed_columns)]
              ELSE c1
        cell == Cell("fixed", c1.num_fixed_columns, 0)
    IN  [ cs   |-> QueryAny(c2, cell),
          repl |-> Append(a.repl, [cell |-> cell, index |-> QueryIndex(c2, cell)]) ]

ConvertEach(c) ==
    LET upto[n \in 0 .. c.num_selectors] ==
            IF n = 0 THEN [cs |-> c, repl |-> <<>>]
            ELSE ConvertSelector(upto[n - 1], n)
    IN  upto[c.num_selectors]

ReplaceSelectors(e, repl) ==
    [e EXCEPT !.cells = @ \o [i \in DOMAIN e.sels |-> repl[e.sels[i]]],
              !.sels  = <<>>]

ReplaceAllSelectors(es, repl) ==
    [i \in DOMAIN es |-> ReplaceSelectors(es[i], repl)]

ShiftSelectors(sels, by) ==
    [i \in DOMAIN sels |-> [index |-> sels[i].index + by, simple |-> sels[i].simple]]

ConvertGate(g, repl, by) ==
    [selectors |-> ShiftSelectors(g.selectors, by),
     polys     |-> ReplaceAllSelectors(g.polys, repl)]

ConvertLookup(l, repl) ==
    [sel    |-> ReplaceSelectors(l.sel, repl),
     inputs |-> ReplaceAllSelectors(l.inputs, repl),
     table  |-> l.table]

ConvertTrash(t, repl) ==
    [sel   |-> ReplaceSelectors(t.sel, repl),
     exprs |-> ReplaceAllSelectors(t.exprs, repl)]

ConvertArguments(n, repl, by) ==
    [n EXCEPT !.num_selectors = 0,
              !.gates     = [i \in DOMAIN n.gates |-> ConvertGate(n.gates[i], repl, by)],
              !.lookups   = [i \in DOMAIN n.lookups |-> ConvertLookup(n.lookups[i], repl)],
              !.trashcans = [i \in DOMAIN n.trashcans |->
                                ConvertTrash(n.trashcans[i], repl)]]

\* Bug: the shift is read after the new columns were counted.
ConvertSelectorsShiftedTwice(c) ==
    LET done == ConvertEach(c)
    IN  ConvertArguments(done.cs, done.repl, done.cs.num_fixed_columns)

ConvertSelectors(c) ==
    LET done == ConvertEach(c)
    IN  ConvertArguments(done.cs, done.repl, c.num_fixed_columns)

\* replace_selectors asserts that lookups and trash arguments, their selector
\* included, mention no simple selector.
NonSimple(c, e) == \A s \in ToSet(e.sels) : ~IsSimple(c, s)

Convertible(c) ==
    /\ \A l \in ToSet(c.lookups) :
          NonSimple(c, l.sel) /\ \A e \in ToSet(l.inputs) : NonSimple(c, e)
    /\ \A t \in ToSet(c.trashcans) :
          NonSimple(c, t.sel) /\ \A e \in ToSet(t.exprs) : NonSimple(c, e)

\* The column a gate identity is multiplied by in the linearization
\* polynomial: the gate's first simple selector (0 if it has none).
LinearizationColumn(g) ==
    LET simple == SelectSeq(g.selectors, LAMBDA s : s.simple)
    IN  IF simple = <<>> THEN 0 ELSE simple[1].index
=============================================================================
