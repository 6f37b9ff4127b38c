------------------------ MODULE ConfigurationProofs ------------------------
(***************************************************************************)
(* What holds of a circuit's configuration and of its verifying key,       *)
(* whatever the circuit asks for.                                          *)
(***************************************************************************)
EXTENDS CircuitConfiguration, PointSetsLemmas

-----------------------------------------------------------------------------
(* The constraint system's bookkeeping, for any calls of configure.        *)

CellSet == [kind : Kinds, col : Nat, rot : Int]

Reads == [cell : CellSet, index : Nat]

Exprs == [cells : Seq(Reads), sels : Seq(Nat \ {0}), deg : Nat]

Selectors == [index : Nat \ {0}, simple : BOOLEAN]

Gates == [selectors : Seq(Selectors), polys : Seq(Exprs)]

Lookups == [sel : Exprs, inputs : Seq(Exprs), table : Reads]

Trashcans == [sel : Exprs, exprs : Seq(Exprs)]

Flags == [simple : BOOLEAN, col : Nat]

Systems ==
    [ num_fixed_columns    : Nat,
      num_instance_columns : Nat,
      advice_column_phase  : Seq(Nat),
      num_advice_queries   : Seq(Nat),
      num_selectors        : Nat,
      selector_flags       : Seq(Flags),
      challenge_phase      : Seq(Nat),
      queries              : [Kinds -> Seq(Nat \X Int)],
      permutation          : Seq(Kinds \X Nat),
      constants            : Seq(Nat),
      gates                : Seq(Gates),
      lookups              : Seq(Lookups),
      trashcans            : Seq(Trashcans),
      minimum_degree       : Nat ]

-----------------------------------------------------------------------------
(* Lists of queries.                                                       *)

AskedOnce(queries) ==
    \A kind \in Kinds : \A i, j \in DOMAIN queries[kind] :
        queries[kind][i] = queries[kind][j] => i = j

Positions(list, col) == {i \in DOMAIN list : list[i][1] = col}

CountsExact(queries, counts) ==
    \A col \in DOMAIN counts : counts[col] = Cardinality(Positions(queries["advice"], col))

\* Only advice columns that exist are queried.
Known(queries, counts) ==
    \A i \in DOMAIN queries["advice"] : queries["advice"][i][1] \in DOMAIN counts

\* The cells of the columns of c.
CellsOf(c) ==
    {cell \in CellSet : cell.kind = "advice" => cell.col \in DOMAIN c.num_advice_queries}

\* The lists of `before` are the beginnings of those of `after`.
Extends(before, after) ==
    \A kind \in Kinds :
        /\ Len(before[kind]) <= Len(after[kind])
        /\ \A i \in DOMAIN before[kind] : after[kind][i] = before[kind][i]

Listed(queries, cell) == Contains(queries[cell.kind], <<cell.col, cell.rot>>)

\* Appending to a list of queries adds one position to those of its column
\* and none to those of the others.
LEMMA PositionsAppend ==
    ASSUME NEW list \in Seq(Nat \X Int), NEW q \in Nat \X Int, NEW col
    PROVE  /\ IsFiniteSet(Positions(list, col))
           /\ q[1] = col =>
                Cardinality(Positions(Append(list, q), col))
                    = Cardinality(Positions(list, col)) + 1
           /\ q[1] # col => Positions(Append(list, q), col) = Positions(list, col)
<1>1. IsFiniteSet(Positions(list, col))
  <2>1. DOMAIN list = 1 .. Len(list) /\ Len(list) \in Nat  OBVIOUS
  <2>2. IsFiniteSet(1 .. Len(list))  BY <2>1, FS_Interval
  <2>3. Positions(list, col) \subseteq 1 .. Len(list)  BY <2>1 DEF Positions
  <2>4. QED  BY <2>2, <2>3, FS_Subset
<1>a. PICK n \in Nat : Len(list) = n /\ DOMAIN list = 1 .. n  OBVIOUS
<1>b. PICK longer : longer = Append(list, q)  OBVIOUS
<1>c. /\ DOMAIN longer = 1 .. n + 1 /\ longer[n + 1] = q
      /\ \A i \in 1 .. n : longer[i] = list[i]
  BY <1>a, <1>b
<1>2. CASE q[1] = col
  <2>1. Positions(Append(list, q), col) = Positions(list, col) \cup {Len(list) + 1}
    BY <1>a, <1>b, <1>c, <1>2 DEF Positions
  <2>2. Len(list) + 1 \notin Positions(list, col)  BY DEF Positions
  <2>3. PICK S, more : S = Positions(list, col) /\ more = Len(list) + 1  OBVIOUS
  <2>4. Cardinality(S \cup {more}) = Cardinality(S) + 1
    BY <1>1, <2>2, <2>3, FS_AddElement
  <2>5. QED  BY <1>1, <1>2, <2>1, <2>3, <2>4
<1>3. CASE q[1] # col
  <2>1. Positions(Append(list, q), col) = Positions(list, col)
    BY <1>a, <1>b, <1>c, <1>3 DEF Positions
  <2>2. QED  BY <1>1, <1>3, <2>1
<1>4. QED  BY <1>2, <1>3

\* A list that already holds a query keeps holding it.
LEMMA ListedKept ==
    ASSUME NEW before \in [Kinds -> Seq(Nat \X Int)], NEW after \in [Kinds -> Seq(Nat \X Int)],
           Extends(before, after), NEW cell \in CellSet, Listed(before, cell)
    PROVE  Listed(after, cell)
<1> DEFINE old == before[cell.kind]
           new == after[cell.kind]
<1>1. cell.kind \in Kinds /\ old \in Seq(Nat \X Int) /\ new \in Seq(Nat \X Int)
  BY DEF CellSet
<1>2. PICK i \in 1 .. Len(old) : old[i] = <<cell.col, cell.rot>>
  BY DEF Listed, Contains
<1>3. Len(old) <= Len(new) /\ (i \in DOMAIN old => new[i] = old[i])
  BY <1>1 DEF Extends
<1> HIDE DEF old, new
<1>4. Len(old) \in Nat /\ Len(new) \in Nat /\ DOMAIN old = 1 .. Len(old)
  BY <1>1
<1>5. i \in 1 .. Len(new) /\ new[i] = <<cell.col, cell.rot>>
  BY <1>2, <1>3, <1>4
<1>6. QED  BY <1>5 DEF new, Listed, Contains

\* Lists that grow twice have grown.
LEMMA ExtendsTransitive ==
    ASSUME NEW p \in [Kinds -> Seq(Nat \X Int)], NEW q \in [Kinds -> Seq(Nat \X Int)],
           NEW r \in [Kinds -> Seq(Nat \X Int)], Extends(p, q), Extends(q, r)
    PROVE  Extends(p, r)
<1> SUFFICES ASSUME NEW kind \in Kinds
             PROVE  /\ Len(p[kind]) <= Len(r[kind])
                    /\ \A i \in DOMAIN p[kind] : r[kind][i] = p[kind][i]
  BY DEF Extends
<1>1. PICK u \in Seq(Nat \X Int), v \in Seq(Nat \X Int), w \in Seq(Nat \X Int) :
         u = p[kind] /\ v = q[kind] /\ w = r[kind]
  OBVIOUS
<1>2. /\ Len(u) <= Len(v) /\ \A i \in DOMAIN u : v[i] = u[i]
      /\ Len(v) <= Len(w) /\ \A i \in DOMAIN v : w[i] = v[i]
  BY <1>1 DEF Extends
<1>3. /\ Len(u) \in Nat /\ Len(v) \in Nat /\ Len(w) \in Nat
      /\ DOMAIN u = 1 .. Len(u) /\ DOMAIN v = 1 .. Len(v)
  OBVIOUS
<1>4. DOMAIN u \subseteq DOMAIN v
  BY <1>2, <1>3
<1>5. Len(u) <= Len(w)
  BY <1>2, <1>3
<1>6. ASSUME NEW i \in DOMAIN u
      PROVE  w[i] = u[i]
  BY <1>2, <1>4, Zenon
<1>7. QED  BY <1>1, <1>5, <1>6, Zenon

\* Lists that stay the same extend themselves.
LEMMA ExtendsReflexive ==
    ASSUME NEW p \in [Kinds -> Seq(Nat \X Int)]
    PROVE  Extends(p, p)
BY DEF Extends

-----------------------------------------------------------------------------
(* query_any.                                                              *)

SameButQueries(c, d) ==
    /\ d.num_fixed_columns = c.num_fixed_columns
    /\ d.num_instance_columns = c.num_instance_columns
    /\ d.advice_column_phase = c.advice_column_phase
    /\ d.num_selectors = c.num_selectors
    /\ d.selector_flags = c.selector_flags
    /\ d.challenge_phase = c.challenge_phase
    /\ d.permutation = c.permutation
    /\ d.constants = c.constants
    /\ d.gates = c.gates
    /\ d.lookups = c.lookups
    /\ d.trashcans = c.trashcans
    /\ d.minimum_degree = c.minimum_degree

\* Systems that differ from c by queries made since.
Querying(c) ==
    {d \in Systems :
        /\ SameButQueries(c, d)
        /\ DOMAIN d.num_advice_queries = DOMAIN c.num_advice_queries
        /\ AskedOnce(d.queries)
        /\ CountsExact(d.queries, d.num_advice_queries)
        /\ Known(d.queries, d.num_advice_queries)
        /\ Extends(c.queries, d.queries)}

\* Counting a query leaves as many counts, whatever column it names.
LEMMA CountQueryType ==
    ASSUME NEW n \in Nat, NEW counts \in [1 .. n -> Nat], NEW cell
    PROVE  CountQuery(counts, cell) \in [1 .. n -> Nat]
<1>1. PICK col : col = cell.col  OBVIOUS
<1>2. [counts EXCEPT ![col] = @ + 1] \in [1 .. n -> Nat]
  <2>1. CASE col \in 1 .. n  BY <2>1
  <2>2. CASE col \notin 1 .. n
    <3>1. [counts EXCEPT ![col] = @ + 1] = counts  BY <2>2
    <3>2. QED  BY <3>1
  <2>3. QED  BY <2>1, <2>2
<1>3. QED  BY <1>1, <1>2 DEF CountQuery

\* What pushing a query does to the lists.
LEMMA PushQueryFields ==
    ASSUME NEW d \in Systems, NEW cell \in CellSet
    PROVE  /\ PushQuery(d, cell) \in Systems
           /\ SameButQueries(d, PushQuery(d, cell))
           /\ PushQuery(d, cell).queries = AppendQuery(d.queries, cell)
           /\ PushQuery(d, cell).num_advice_queries = CountQuery(d.num_advice_queries, cell)
<1>1. AppendQuery(d.queries, cell) \in [Kinds -> Seq(Nat \X Int)]
  <2>1. cell.kind \in Kinds /\ <<cell.col, cell.rot>> \in Nat \X Int  BY DEF CellSet
  <2>2. d.queries \in [Kinds -> Seq(Nat \X Int)]  BY DEF Systems
  <2>3. QED  BY <2>1, <2>2 DEF AppendQuery
<1>2. CountQuery(d.num_advice_queries, cell) \in Seq(Nat)
  <2>1. PICK counts \in Seq(Nat) : counts = d.num_advice_queries  BY DEF Systems
  <2>2. counts \in [1 .. Len(counts) -> Nat] /\ Len(counts) \in Nat  OBVIOUS
  <2>3. cell.col \in Nat  BY DEF CellSet
  <2>4. PICK n \in Nat : n = Len(counts)  BY <2>2
  <2>5. CountQuery(counts, cell) \in [1 .. n -> Nat]
    BY <2>2, <2>4, CountQueryType
  <2>6. QED  BY <2>1, <2>5
<1>3. QED  BY <1>1, <1>2 DEF PushQuery, Systems, SameButQueries

\* query_any keeps the lists free of repetitions and the counts exact, appends
\* only, and leaves the cell in its list.
LEMMA QueryAnyKeeps ==
    ASSUME NEW c \in Systems, NEW d \in Querying(c), NEW cell \in CellsOf(c)
    PROVE  /\ QueryAny(d, cell) \in Querying(c)
           /\ Extends(d.queries, QueryAny(d, cell).queries)
           /\ Listed(QueryAny(d, cell).queries, cell)
<1>0. d \in Systems /\ d.queries \in [Kinds -> Seq(Nat \X Int)]
      /\ c.queries \in [Kinds -> Seq(Nat \X Int)]
      /\ d.num_advice_queries \in Seq(Nat)
  BY DEF Querying, Systems
<1>c. /\ cell \in CellSet /\ cell.kind \in Kinds /\ cell.col \in Nat /\ cell.rot \in Int
      /\ cell.kind = "advice" => cell.col \in DOMAIN d.num_advice_queries
  BY DEF CellSet, CellsOf, Querying
<1>1. CASE Listed(d.queries, cell)
  <2>1. QueryAny(d, cell) = d  BY <1>1 DEF QueryAny, Listed
  <2>2. QED  BY <1>0, <1>1, <2>1, ExtendsReflexive
<1>2. CASE ~Listed(d.queries, cell)
  <2>1. QueryAny(d, cell) = PushQuery(d, cell)  BY <1>2 DEF QueryAny, Listed
  <2>2. PICK e : e = PushQuery(d, cell)  OBVIOUS
  <2> DEFINE new == <<cell.col, cell.rot>>
  <2>3. /\ e \in Systems
        /\ SameButQueries(d, e)
        /\ e.queries = [d.queries EXCEPT ![cell.kind] = Append(@, new)]
        /\ e.num_advice_queries = CountQuery(d.num_advice_queries, cell)
    BY <1>0, <1>c, <2>2, PushQueryFields DEF AppendQuery
  <2> DEFINE list == d.queries[cell.kind]
  <2>l. list \in Seq(Nat \X Int) /\ new \in Nat \X Int  BY <1>0, <1>c
  <2>k. /\ e.queries[cell.kind] = Append(list, new)
        /\ \A kind \in Kinds \ {cell.kind} : e.queries[kind] = d.queries[kind]
    BY <1>0, <1>c, <2>3
  <2>n. /\ Len(Append(list, new)) = Len(list) + 1
        /\ DOMAIN Append(list, new) = 1 .. Len(list) + 1
        /\ \A i \in 1 .. Len(list) : Append(list, new)[i] = list[i]
        /\ Append(list, new)[Len(list) + 1] = new
        /\ DOMAIN list = 1 .. Len(list) /\ Len(list) \in Nat
    BY <2>l
  <2>4. e.queries \in [Kinds -> Seq(Nat \X Int)]  BY <2>3 DEF Systems
  <2>5. SameButQueries(c, e)
    <3>1. SameButQueries(c, d)  BY DEF Querying
    <3>2. QED  BY <2>3, <3>1 DEF SameButQueries
  <2>6. DOMAIN e.num_advice_queries = DOMAIN c.num_advice_queries
    BY <1>0, <1>c, <2>3 DEF Querying, CountQuery
  <2>7. Extends(d.queries, e.queries)
    <3> SUFFICES ASSUME NEW kind \in Kinds
                 PROVE  /\ Len(d.queries[kind]) <= Len(e.queries[kind])
                        /\ \A i \in DOMAIN d.queries[kind] : e.queries[kind][i] = d.queries[kind][i]
      BY DEF Extends
    <3>1. CASE kind = cell.kind
      <4>1. d.queries[kind] = list /\ e.queries[kind] = Append(list, new)  BY <2>k, <3>1
      <4> HIDE DEF list, new
      <4>2. QED  BY <2>n, <4>1
    <3>2. CASE kind # cell.kind
      <4>1. PICK same \in Seq(Nat \X Int) : same = d.queries[kind]  BY <1>0
      <4>2. e.queries[kind] = same  BY <2>k, <3>2, <4>1
      <4>3. QED  BY <4>1, <4>2
    <3>3. QED  BY <3>1, <3>2
  <2>8. Extends(c.queries, e.queries)
    <3>1. Extends(c.queries, d.queries)  BY DEF Querying
    <3>2. QED  BY <1>0, <2>4, <2>7, <3>1, ExtendsTransitive
  <2>9. AskedOnce(e.queries)
    <3>1. AskedOnce(d.queries)  BY DEF Querying
    <3>2. \A i \in DOMAIN list : list[i] # new
      BY <1>2, <2>n DEF Listed, Contains
    <3> SUFFICES ASSUME NEW kind \in Kinds, NEW i \in DOMAIN e.queries[kind],
                        NEW j \in DOMAIN e.queries[kind],
                        e.queries[kind][i] = e.queries[kind][j]
                 PROVE  i = j
      BY DEF AskedOnce
    <3>3. CASE kind = cell.kind
      <4>1. \A m, n \in DOMAIN list : list[m] = list[n] => m = n
        BY <1>c, <3>1 DEF AskedOnce
      <4> HIDE DEF list, new
      <4>2. QED  BY <2>k, <2>n, <3>2, <3>3, <4>1
    <3>4. CASE kind # cell.kind
      BY <2>k, <3>1, <3>4 DEF AskedOnce
    <3>5. QED  BY <3>3, <3>4
  <2>10. CountsExact(e.queries, e.num_advice_queries)
    <3>1. CountsExact(d.queries, d.num_advice_queries)  BY DEF Querying
    <3>2. CASE cell.kind # "advice"
      <4>1. e.queries["advice"] = d.queries["advice"]  BY <1>0, <2>3, <3>2 DEF Kinds
      <4>2. QED  BY <2>3, <3>1, <3>2, <4>1 DEF CountsExact, CountQuery
    <3>3. CASE cell.kind = "advice"
      <4>1. list = d.queries["advice"]  BY <3>3
      <4>2. e.queries["advice"] = Append(list, new)  BY <2>k, <3>3
      <4>3. new \in Nat \X Int /\ new[1] = cell.col  BY <1>c
      <4>4. SUFFICES ASSUME NEW col \in DOMAIN e.num_advice_queries
                     PROVE  e.num_advice_queries[col]
                              = Cardinality(Positions(Append(list, new), col))
        BY <4>2 DEF CountsExact
      <4>5. col \in DOMAIN d.num_advice_queries
        BY <1>0, <2>3, <3>3 DEF CountQuery
      <4>6. d.num_advice_queries[col] = Cardinality(Positions(list, col))
        BY <3>1, <4>1, <4>5 DEF CountsExact
      <4>7. e.num_advice_queries[col] = d.num_advice_queries[col]
              + (IF col = cell.col THEN 1 ELSE 0)
        BY <1>0, <1>c, <2>3, <3>3, <4>5 DEF CountQuery
      <4>8. IsFiniteSet(Positions(list, col))
        BY <2>l, PositionsAppend
      <4> HIDE DEF new, list
      <4>9. Cardinality(Positions(list, col)) \in Nat
        BY <4>8, FS_CardinalityType
      <4>10. CASE col = cell.col
        <5>1. Cardinality(Positions(Append(list, new), col)) = Cardinality(Positions(list, col)) + 1
          BY <2>l, <4>3, <4>10, PositionsAppend
        <5>2. QED  BY <4>6, <4>7, <4>10, <5>1
      <4>11. CASE col # cell.col
        <5>1. Positions(Append(list, new), col) = Positions(list, col)
          BY <2>l, <4>3, <4>11, PositionsAppend
        <5>2. QED  BY <4>6, <4>7, <4>9, <4>11, <5>1
      <4>12. QED  BY <4>10, <4>11
    <3>4. QED  BY <3>2, <3>3
  <2>11. Listed(e.queries, cell)
    <3>1. e.queries[cell.kind] = Append(list, new)  BY <2>k
    <3>2. Len(list) + 1 \in 1 .. Len(Append(list, new)) /\ Append(list, new)[Len(list) + 1] = new
      <4> HIDE DEF list, new
      <4>1. QED  BY <2>n
    <3>3. QED  BY <3>1, <3>2 DEF Listed, Contains
  <2>12. Known(e.queries, e.num_advice_queries)
    <3>1. /\ Known(d.queries, d.num_advice_queries)
          /\ DOMAIN e.num_advice_queries = DOMAIN d.num_advice_queries
      BY <2>6 DEF Querying
    <3>2. CASE cell.kind = "advice"
      <4>1. list = d.queries["advice"] /\ e.queries["advice"] = Append(list, new)
        BY <2>k, <3>2
      <4>2. new[1] \in DOMAIN e.num_advice_queries  BY <1>c, <3>1, <3>2
      <4>3. \A i \in DOMAIN list : list[i][1] \in DOMAIN e.num_advice_queries
        BY <3>1, <4>1 DEF Known
      <4> HIDE DEF list, new
      <4>4. \A i \in DOMAIN Append(list, new) :
               Append(list, new)[i][1] \in DOMAIN e.num_advice_queries
        BY <2>n, <4>2, <4>3
      <4>5. QED  BY <4>1, <4>4 DEF Known
    <3>3. CASE cell.kind # "advice"
      <4>1. e.queries["advice"] = d.queries["advice"]  BY <2>k, <3>3 DEF Kinds
      <4>2. QED  BY <3>1, <4>1 DEF Known
    <3>4. QED  BY <3>2, <3>3
  <2>13. QED
    BY <2>1, <2>2, <2>3, <2>5, <2>6, <2>7, <2>8, <2>9, <2>10, <2>11, <2>12 DEF Querying
<1>3. QED  BY <1>1, <1>2

-----------------------------------------------------------------------------
(* query_any over a list of cells.                                         *)

\* The lists have no repetitions and the counts are exact.
Counted(c) ==
    /\ AskedOnce(c.queries)
    /\ CountsExact(c.queries, c.num_advice_queries)
    /\ Known(c.queries, c.num_advice_queries)

\* A system differs from itself by no query.
LEMMA QueryingReflexive ==
    ASSUME NEW c \in Systems, Counted(c)
    PROVE  c \in Querying(c)
<1>1. Extends(c.queries, c.queries)
  BY ExtendsReflexive DEF Systems
<1>2. SameButQueries(c, c)
  BY DEF SameButQueries
<1>3. QED  BY <1>1, <1>2 DEF Querying, Counted

\* Queries made after queries are queries made since the first system.
LEMMA QueryingTransitive ==
    ASSUME NEW c \in Systems, NEW d \in Querying(c), NEW e \in Querying(d)
    PROVE  e \in Querying(c)
<1>1. /\ d \in Systems /\ SameButQueries(c, d) /\ Extends(c.queries, d.queries)
      /\ DOMAIN d.num_advice_queries = DOMAIN c.num_advice_queries
  BY DEF Querying
<1>2. /\ e \in Systems /\ SameButQueries(d, e) /\ Extends(d.queries, e.queries)
      /\ DOMAIN e.num_advice_queries = DOMAIN d.num_advice_queries
      /\ AskedOnce(e.queries) /\ CountsExact(e.queries, e.num_advice_queries)
      /\ Known(e.queries, e.num_advice_queries)
  BY DEF Querying
<1>3. /\ c.queries \in [Kinds -> Seq(Nat \X Int)] /\ d.queries \in [Kinds -> Seq(Nat \X Int)]
      /\ e.queries \in [Kinds -> Seq(Nat \X Int)]
  BY <1>1, <1>2 DEF Systems
<1>4. Extends(c.queries, e.queries)
  BY <1>1, <1>2, <1>3, ExtendsTransitive
<1>5. SameButQueries(c, e)
  BY <1>1, <1>2 DEF SameButQueries
<1>6. QED  BY <1>1, <1>2, <1>4, <1>5 DEF Querying

QueryRun(c, inputs, chosen, after) ==
    after = [n \in 0 .. Len(inputs) |->
                IF n = 0 THEN c
                ELSE IF n \in chosen THEN QueryAny(after[n - 1], inputs[n].cell)
                ELSE after[n - 1]]

\* Gates and lookups only add queries, and every cell they ask for is listed.
LEMMA QueryEachKeeps ==
    ASSUME NEW c \in Systems, Counted(c),
           NEW inputs, Len(inputs) \in Nat, NEW chosen,
           \A n \in 1 .. Len(inputs) : inputs[n].cell \in CellsOf(c)
    PROVE  /\ QueryEach(c, inputs, chosen) \in Querying(c)
           /\ \A n \in chosen \cap 1 .. Len(inputs) :
                Listed(QueryEach(c, inputs, chosen).queries, inputs[n].cell)
<1>1. PICK N \in Nat : N = Len(inputs)  OBVIOUS
<1> DEFINE S == Querying(c)
           step == [z \in S \X (1 .. N) |->
                      IF z[2] \in chosen THEN QueryAny(z[1], inputs[z[2]].cell) ELSE z[1]]
           f == CHOOSE f : QueryRun(c, inputs, chosen, f)
<1>2. c \in S  BY QueryingReflexive
<1>3. \A d \in S, n \in 1 .. N :
          (IF n \in chosen THEN QueryAny(d, inputs[n].cell) ELSE d) \in S
  BY <1>1, QueryAnyKeeps
<1>4. IsStep(step, N, S)
  BY <1>3 DEF IsStep
<1>5. PICK g : IsRun(g, N, S, c, step)
  <2> HIDE DEF S, step
  <2>1. QED  BY <1>2, <1>4, RecursiveFunction
<1>6. QueryRun(c, inputs, chosen, g)
  <2>1. \A n \in 0 .. N : g[n] = IF n = 0 THEN c
                                 ELSE IF n \in chosen THEN QueryAny(g[n - 1], inputs[n].cell)
                                 ELSE g[n - 1]
    <3> SUFFICES ASSUME NEW n \in 0 .. N
                 PROVE  g[n] = IF n = 0 THEN c
                               ELSE IF n \in chosen THEN QueryAny(g[n - 1], inputs[n].cell)
                               ELSE g[n - 1]
      OBVIOUS
    <3>1. g \in [0 .. N -> S] /\ g[0] = c
      BY <1>5 DEF IsRun
    <3>2. CASE n = 0  BY <3>1, <3>2
    <3>3. CASE n # 0
      <4>1. n \in 1 .. N /\ n - 1 \in 0 .. N  BY <3>3
      <4>2. g[n - 1] \in S /\ g[n] = step[<<g[n - 1], n>>]
        <5> HIDE DEF S, step
        <5>1. QED  BY <1>5, <4>1 DEF IsRun
      <4>3. <<g[n - 1], n>> \in S \X (1 .. N)  BY <4>1, <4>2
      <4>4. step[<<g[n - 1], n>>]
              = IF n \in chosen THEN QueryAny(g[n - 1], inputs[n].cell) ELSE g[n - 1]
        <5> HIDE DEF S
        <5>1. QED  BY <4>3
      <4>5. QED  BY <3>3, <4>2, <4>4
    <3>4. QED  BY <3>2, <3>3
  <2>2. g = [n \in 0 .. N |-> g[n]]
    <3> HIDE DEF S
    <3>1. QED  BY <1>5 DEF IsRun
  <2>3. QED  BY <1>1, <2>1, <2>2 DEF QueryRun
<1>7. QueryRun(c, inputs, chosen, f)
  BY <1>6
<1>8. QueryEach(c, inputs, chosen) = f[N]
  BY <1>1 DEF QueryEach, QueryRun
<1> HIDE DEF f
<1>9. \A n \in 0 .. N : f[n] = IF n = 0 THEN c
                               ELSE IF n \in chosen THEN QueryAny(f[n - 1], inputs[n].cell)
                               ELSE f[n - 1]
  BY <1>1, <1>7 DEF QueryRun
<1> DEFINE Good == {n \in Nat : n <= N =>
                      /\ f[n] \in S
                      /\ \A m \in chosen \cap 1 .. n : Listed(f[n].queries, inputs[m].cell)}
<1>10. 0 \in Good
  BY <1>2, <1>9
<1>11. ASSUME NEW n \in Nat, n \in Good
       PROVE  n + 1 \in Good
  <2> SUFFICES ASSUME n + 1 <= N
               PROVE  /\ f[n + 1] \in S
                      /\ \A m \in chosen \cap 1 .. n + 1 :
                            Listed(f[n + 1].queries, inputs[m].cell)
    OBVIOUS
  <2>1. f[n] \in S /\ \A m \in chosen \cap 1 .. n : Listed(f[n].queries, inputs[m].cell)
    BY <1>11
  <2>2. f[n + 1] = IF n + 1 \in chosen THEN QueryAny(f[n], inputs[n + 1].cell) ELSE f[n]
    BY <1>9
  <2>3. /\ inputs[n + 1].cell \in CellsOf(c)
        /\ \A m \in 1 .. n : inputs[m].cell \in CellSet
    BY <1>1 DEF CellsOf
  <2>4. CASE n + 1 \in chosen
    <3>1. f[n + 1] = QueryAny(f[n], inputs[n + 1].cell)  BY <2>2, <2>4
    <3>2. /\ f[n + 1] \in S /\ Extends(f[n].queries, f[n + 1].queries)
          /\ Listed(f[n + 1].queries, inputs[n + 1].cell)
      BY <2>1, <2>3, <3>1, QueryAnyKeeps
    <3>3. /\ f[n].queries \in [Kinds -> Seq(Nat \X Int)]
          /\ f[n + 1].queries \in [Kinds -> Seq(Nat \X Int)]
      BY <2>1, <3>2 DEF Querying, Systems
    <3>4. \A m \in chosen \cap 1 .. n : Listed(f[n + 1].queries, inputs[m].cell)
      <4> SUFFICES ASSUME NEW m \in chosen \cap 1 .. n
                   PROVE  Listed(f[n + 1].queries, inputs[m].cell)
        OBVIOUS
      <4>1. Listed(f[n].queries, inputs[m].cell) /\ inputs[m].cell \in CellSet
        BY <2>1, <2>3
      <4>2. PICK before, after, cell :
               before = f[n].queries /\ after = f[n + 1].queries /\ cell = inputs[m].cell
        OBVIOUS
      <4>3. Listed(after, cell)
        <5>1. /\ before \in [Kinds -> Seq(Nat \X Int)] /\ after \in [Kinds -> Seq(Nat \X Int)]
              /\ Extends(before, after) /\ cell \in CellSet /\ Listed(before, cell)
          BY <3>2, <3>3, <4>1, <4>2
        <5>2. QED  BY <5>1, ListedKept
      <4>4. QED  BY <4>2, <4>3
    <3>5. \A m \in chosen \cap 1 .. n + 1 : m \in chosen \cap 1 .. n \/ m = n + 1
      OBVIOUS
    <3> HIDE DEF S
    <3>6. QED  BY <3>2, <3>4, <3>5
  <2>5. CASE n + 1 \notin chosen
    <3>1. chosen \cap 1 .. n + 1 = chosen \cap 1 .. n  BY <2>5
    <3>2. QED  BY <2>1, <2>2, <2>5, <3>1
  <2>6. QED  BY <2>4, <2>5
<1>12. N \in Good
  <2> HIDE DEF Good
  <2>1. QED  BY <1>10, <1>11, SetInduction
<1>13. QED  BY <1>1, <1>8, <1>12

-----------------------------------------------------------------------------
(* Query indices.                                                          *)

\* A listed cell has an index, and the entry there is its own.
LEMMA QueryIndexFound ==
    ASSUME NEW c, c.queries \in [Kinds -> Seq(Nat \X Int)],
           NEW cell \in CellSet, Listed(c.queries, cell)
    PROVE  /\ QueryIndex(c, cell) \in DOMAIN c.queries[cell.kind]
           /\ c.queries[cell.kind][QueryIndex(c, cell)] = <<cell.col, cell.rot>>
<1> DEFINE list == c.queries[cell.kind]
           T == {i \in 1 .. Len(list) : list[i] = <<cell.col, cell.rot>>}
<1>1. cell.kind \in Kinds  BY DEF CellSet
<1>2. list \in Seq(Nat \X Int)  BY <1>1
<1>3. T # {}  BY DEF Listed, Contains
<1>4. Len(list) \in Nat /\ DOMAIN list = 1 .. Len(list)  BY <1>2
<1>5. T \subseteq Nat  BY <1>4
<1>6. \E m \in T : \A n \in T : m <= n
  <2> HIDE DEF T
  <2>1. QED  BY <1>3, <1>5, LeastElement
<1>7. QueryIndex(c, cell) = CHOOSE m \in T : \A n \in T : m <= n
  <2>1. SelectInSeq(list, LAMBDA q : q = <<cell.col, cell.rot>>)
          = CHOOSE m \in T : \A n \in T : m <= n
    BY <1>3 DEF SelectInSeq, Min
  <2>2. (CHOOSE m \in T : \A n \in T : m <= n) # 0
    <3>1. 0 \notin T  BY <1>4
    <3> HIDE DEF T
    <3>2. QED  BY <1>6, <3>1
  <2>3. QED  BY <2>1, <2>2 DEF QueryIndex
<1>8. QueryIndex(c, cell) \in T
  <2> HIDE DEF T
  <2>1. QED  BY <1>6, <1>7
<1>9. QED  BY <1>4, <1>8

\* An index that names a cell names it in longer lists, too.
LEMMA ResolvesKept ==
    ASSUME NEW c, c.queries \in [Kinds -> Seq(Nat \X Int)],
           NEW d, d.queries \in [Kinds -> Seq(Nat \X Int)], Extends(c.queries, d.queries),
           NEW read \in Reads, Resolves(c, read)
    PROVE  Resolves(d, read)
<1>1. PICK kind \in Kinds : kind = read.cell.kind  BY DEF Reads, CellSet
<1>2. PICK u \in Seq(Nat \X Int), v \in Seq(Nat \X Int) :
         u = c.queries[kind] /\ v = d.queries[kind]
  BY <1>1
<1>3. Len(u) <= Len(v) /\ \A i \in DOMAIN u : v[i] = u[i]
  BY <1>2 DEF Extends
<1>4. read.index \in DOMAIN u /\ u[read.index] = <<read.cell.col, read.cell.rot>>
  BY <1>1, <1>2 DEF Resolves
<1>5. read.index \in DOMAIN v
  BY <1>3, <1>4
<1>6. QED  BY <1>1, <1>2, <1>3, <1>4, <1>5 DEF Resolves

\* An index keeps naming its cell while the lists grow.
LEMMA ReadsResolveKept ==
    ASSUME NEW c, c.queries \in [Kinds -> Seq(Nat \X Int)],
           NEW d, d.queries \in [Kinds -> Seq(Nat \X Int)], Extends(c.queries, d.queries),
           NEW e \in Exprs, ReadsResolve(c, e)
    PROVE  ReadsResolve(d, e)
<1>1. \A read \in ToSet(e.cells) : read \in Reads
  BY DEF Exprs, ToSet
<1>2. QED  BY <1>1, ResolvesKept DEF ReadsResolve

\* So does an index that may be missing.
LEMMA StoredReadsResolveKept ==
    ASSUME NEW c, c.queries \in [Kinds -> Seq(Nat \X Int)],
           NEW d, d.queries \in [Kinds -> Seq(Nat \X Int)], Extends(c.queries, d.queries),
           NEW e \in Exprs, StoredReadsResolve(c, e)
    PROVE  StoredReadsResolve(d, e)
<1>1. \A read \in ToSet(e.cells) : read \in Reads
  BY DEF Exprs, ToSet
<1>2. QED  BY <1>1, ResolvesKept DEF StoredReadsResolve

\* The queries that gates, lookups and trash arguments rely on, and those that
\* the permutation does.
ArgumentsResolve(c) ==
    /\ \A g \in ToSet(c.gates) : \A e \in ToSet(g.polys) : ReadsResolve(c, e)
    /\ \A l \in ToSet(c.lookups) :
          /\ Resolves(c, l.table)
          /\ ReadsResolve(c, l.sel)
          /\ \A e \in ToSet(l.inputs) : ReadsResolve(c, e)
    /\ \A t \in ToSet(c.trashcans) :
          /\ ReadsResolve(c, t.sel)
          /\ \A e \in ToSet(t.exprs) : StoredReadsResolve(c, e)

PermutationQueried(c) ==
    \A col \in ToSet(c.permutation) : Contains(c.queries[col[1]], <<col[2], 0>>)

\* They are still answered when the lists grow.
LEMMA ArgumentsKept ==
    ASSUME NEW c \in Systems, NEW d \in Systems, Extends(c.queries, d.queries),
           d.gates = c.gates, d.lookups = c.lookups, d.trashcans = c.trashcans,
           ArgumentsResolve(c)
    PROVE  ArgumentsResolve(d)
<1>1. /\ c.queries \in [Kinds -> Seq(Nat \X Int)] /\ d.queries \in [Kinds -> Seq(Nat \X Int)]
      /\ c.gates \in Seq(Gates) /\ c.lookups \in Seq(Lookups)
      /\ c.trashcans \in Seq(Trashcans)
  BY DEF Systems
<1>2. ASSUME NEW g \in ToSet(c.gates), NEW e \in ToSet(g.polys)
      PROVE  ReadsResolve(d, e)
  <2>1. g \in Gates  BY <1>1 DEF ToSet
  <2>2. e \in Exprs  BY <2>1 DEF Gates, ToSet
  <2>3. ReadsResolve(c, e)  BY DEF ArgumentsResolve
  <2>4. QED  BY <1>1, <2>2, <2>3, ReadsResolveKept
<1>3. ASSUME NEW l \in ToSet(c.lookups)
      PROVE  /\ Resolves(d, l.table)
             /\ ReadsResolve(d, l.sel)
             /\ \A e \in ToSet(l.inputs) : ReadsResolve(d, e)
  <2>1. l \in Lookups  BY <1>1 DEF ToSet
  <2>2. /\ l.table \in Reads /\ l.sel \in Exprs
        /\ \A e \in ToSet(l.inputs) : e \in Exprs
    BY <2>1 DEF Lookups, ToSet
  <2>3. /\ Resolves(c, l.table) /\ ReadsResolve(c, l.sel)
        /\ \A e \in ToSet(l.inputs) : ReadsResolve(c, e)
    BY DEF ArgumentsResolve
  <2>4. QED  BY <1>1, <2>2, <2>3, ResolvesKept, ReadsResolveKept
<1>4. ASSUME NEW t \in ToSet(c.trashcans)
      PROVE  /\ ReadsResolve(d, t.sel)
             /\ \A e \in ToSet(t.exprs) : StoredReadsResolve(d, e)
  <2>1. t \in Trashcans  BY <1>1 DEF ToSet
  <2>2. t.sel \in Exprs /\ \A e \in ToSet(t.exprs) : e \in Exprs
    BY <2>1 DEF Trashcans, ToSet
  <2>3. /\ ReadsResolve(c, t.sel)
        /\ \A e \in ToSet(t.exprs) : StoredReadsResolve(c, e)
    BY DEF ArgumentsResolve
  <2>4. QED  BY <1>1, <2>2, <2>3, ReadsResolveKept, StoredReadsResolveKept
<1>5. QED  BY <1>2, <1>3, <1>4 DEF ArgumentsResolve

\* The columns of the permutation stay queried while the lists grow.
LEMMA PermutationKept ==
    ASSUME NEW c \in Systems, NEW d \in Systems, Extends(c.queries, d.queries),
           d.permutation = c.permutation, PermutationQueried(c)
    PROVE  PermutationQueried(d)
<1> SUFFICES ASSUME NEW col \in ToSet(c.permutation)
             PROVE  Contains(d.queries[col[1]], <<col[2], 0>>)
  BY DEF PermutationQueried
<1>1. c.permutation \in Seq(Kinds \X Nat)  BY DEF Systems
<1>2. col \in Kinds \X Nat  BY <1>1 DEF ToSet
<1>3. Cell(col[1], col[2], 0) \in CellSet  BY <1>2 DEF Cell, CellSet
<1>4. Listed(c.queries, Cell(col[1], col[2], 0))
  <2>1. Contains(c.queries[col[1]], <<col[2], 0>>)  BY DEF PermutationQueried
  <2>2. QED  BY <2>1 DEF Listed, Cell
<1>5. Listed(d.queries, Cell(col[1], col[2], 0))
  <2>1. /\ c.queries \in [Kinds -> Seq(Nat \X Int)] /\ d.queries \in [Kinds -> Seq(Nat \X Int)]
    BY DEF Systems
  <2>2. PICK before, after, cell :
           /\ before = c.queries /\ after = d.queries
           /\ cell = Cell(col[1], col[2], 0)
    OBVIOUS
  <2>3. /\ before \in [Kinds -> Seq(Nat \X Int)] /\ after \in [Kinds -> Seq(Nat \X Int)]
        /\ Extends(before, after) /\ cell \in CellSet /\ Listed(before, cell)
    BY <1>3, <1>4, <2>1, <2>2
  <2>4. Listed(after, cell)  BY <2>3, ListedKept
  <2>5. QED  BY <2>2, <2>4
<1>6. PICK cell : cell = Cell(col[1], col[2], 0)  OBVIOUS
<1>7. cell.kind = col[1] /\ cell.col = col[2] /\ cell.rot = 0  BY <1>6 DEF Cell
<1>8. QED  BY <1>5, <1>6, <1>7 DEF Listed

-----------------------------------------------------------------------------
(* Expressions and selectors as gates and lookups store them.              *)

\* The expressions a circuit can write once it has these columns and selectors.
Input(c) ==
    [cell : CellsOf(c), indexed : BOOLEAN, q : 0 .. c.num_selectors, d : Nat \ {0}]

\* A stored expression reads the cell where the index says, and multiplies by
\* selectors that exist.
LEMMA StoredResolves ==
    ASSUME NEW c \in Systems, NEW d \in Querying(c), NEW p \in Input(c), NEW resolved \in BOOLEAN,
           resolved => Listed(d.queries, p.cell)
    PROVE  /\ Stored(d, p, resolved) \in Exprs
           /\ resolved => ReadsResolve(d, Stored(d, p, resolved))
           /\ StoredReadsResolve(d, Stored(d, p, resolved))
           /\ Stored(d, p, resolved).sels \in Seq(1 .. c.num_selectors)
           /\ Stored(d, p, resolved).deg > 0
<1> DEFINE read == [cell |-> p.cell, index |-> IF resolved THEN QueryIndex(d, p.cell) ELSE 0]
           sels == IF p.q = 0 THEN <<>> ELSE <<p.q>>
           deg == p.d + (IF p.q = 0 THEN 0 ELSE 1)
<1>1. /\ p.cell \in CellSet /\ p.q \in 0 .. c.num_selectors /\ p.d \in Nat \ {0}
      /\ c.num_selectors \in Nat
  BY DEF Input, CellsOf, Systems
<1>2. d.queries \in [Kinds -> Seq(Nat \X Int)]  BY DEF Querying, Systems
<1>3. Stored(d, p, resolved) = [cells |-> <<read>>, sels |-> sels, deg |-> deg]
  BY DEF Stored
<1>4. resolved => /\ QueryIndex(d, p.cell) \in DOMAIN d.queries[p.cell.kind]
                  /\ d.queries[p.cell.kind][QueryIndex(d, p.cell)] = <<p.cell.col, p.cell.rot>>
  BY <1>1, <1>2, QueryIndexFound
<1>5. resolved => QueryIndex(d, p.cell) \in Nat
  <2>1. p.cell.kind \in Kinds  BY <1>1 DEF CellSet
  <2>2. PICK list \in Seq(Nat \X Int) : list = d.queries[p.cell.kind]  BY <1>2, <2>1
  <2>3. DOMAIN list = 1 .. Len(list) /\ Len(list) \in Nat  OBVIOUS
  <2>4. QED  BY <1>4, <2>2, <2>3
<1>6. read \in Reads
  BY <1>1, <1>5 DEF Reads
<1>7. /\ sels \in Seq(1 .. c.num_selectors) /\ sels \in Seq(Nat \ {0})
      /\ deg \in Nat /\ deg > 0
  <2>1. CASE p.q = 0  BY <1>1, <2>1
  <2>2. CASE p.q # 0
    <3>1. p.q \in 1 .. c.num_selectors /\ p.q \in Nat \ {0}  BY <1>1, <2>2
    <3>2. QED  BY <1>1, <2>2, <3>1
  <2>3. QED  BY <2>1, <2>2
<1> HIDE DEF sels, deg
<1>8. Stored(d, p, resolved) \in Exprs
  <2>1. <<read>> \in Seq(Reads)
    <3> HIDE DEF read
    <3>1. QED  BY <1>6
  <2> HIDE DEF read
  <2>2. QED  BY <1>3, <1>7, <2>1 DEF Exprs
<1>9. ASSUME resolved
      PROVE  ReadsResolve(d, Stored(d, p, resolved))
  <2>1. Resolves(d, read)
    BY <1>4, <1>9 DEF Resolves
  <2> HIDE DEF read
  <2>2. ToSet(<<read>>) = {read}  BY DEF ToSet
  <2>3. QED  BY <1>3, <2>1, <2>2 DEF ReadsResolve
<1>10. StoredReadsResolve(d, Stored(d, p, resolved))
  <2>1. read.index # 0 => Resolves(d, read)
    BY <1>4 DEF Resolves
  <2> HIDE DEF read
  <2>2. ToSet(<<read>>) = {read}  BY DEF ToSet
  <2>3. QED  BY <1>3, <2>1, <2>2 DEF StoredReadsResolve
<1>11. QED  BY <1>3, <1>7, <1>8, <1>9, <1>10

\* A selector as an expression reads no cell.
LEMMA SelectorExprType ==
    ASSUME NEW n \in Nat, NEW s \in 0 .. n, NEW c
    PROVE  /\ SelectorExpr(s) \in Exprs
           /\ ReadsResolve(c, SelectorExpr(s))
           /\ SelectorExpr(s).sels \in Seq(1 .. n)
<1> DEFINE sels == IF s = 0 THEN <<>> ELSE <<s>>
           deg == IF s = 0 THEN 0 ELSE 1
<1>1. SelectorExpr(s) = [cells |-> <<>>, sels |-> sels, deg |-> deg]
  BY DEF SelectorExpr
<1>2. sels \in Seq(1 .. n) /\ sels \in Seq(Nat \ {0}) /\ deg \in Nat
  <2>1. CASE s = 0  BY <2>1
  <2>2. CASE s # 0
    <3>1. s \in 1 .. n /\ s \in Nat \ {0}  BY <2>2
    <3>2. QED  BY <2>2, <3>1
  <2>3. QED  BY <2>1, <2>2
<1> HIDE DEF sels, deg
<1>3. <<>> \in Seq(Reads) /\ ToSet(<<>>) = {}
  BY DEF ToSet
<1>4. QED  BY <1>1, <1>2, <1>3 DEF Exprs, ReadsResolve

SelectorRun(inputs, upto) ==
    upto = [n \in 0 .. Len(inputs) |->
               IF n = 0 THEN <<>>
               ELSE IF inputs[n].q = 0 THEN upto[n - 1]
               ELSE Append(upto[n - 1], inputs[n].q)]

\* The selectors of a gate's constraints are selectors of the circuit.
LEMMA SelectorsOfType ==
    ASSUME NEW count \in Nat, NEW inputs, Len(inputs) \in Nat,
           \A n \in 1 .. Len(inputs) : inputs[n].q \in 0 .. count
    PROVE  SelectorsOf(inputs) \in Seq(1 .. count)
<1>1. PICK N \in Nat : N = Len(inputs)  OBVIOUS
<1> DEFINE S == Seq(1 .. count)
           step == [z \in S \X (1 .. N) |->
                      IF inputs[z[2]].q = 0 THEN z[1] ELSE Append(z[1], inputs[z[2]].q)]
           f == CHOOSE f : SelectorRun(inputs, f)
<1>2. <<>> \in S  OBVIOUS
<1>3. \A sels \in S, n \in 1 .. N :
          (IF inputs[n].q = 0 THEN sels ELSE Append(sels, inputs[n].q)) \in S
  <2> SUFFICES ASSUME NEW sels \in S, NEW n \in 1 .. N, inputs[n].q # 0
               PROVE  Append(sels, inputs[n].q) \in S
    OBVIOUS
  <2>1. inputs[n].q \in 1 .. count  BY <1>1
  <2>2. QED  BY <2>1
<1>4. IsStep(step, N, S)
  <2> HIDE DEF S
  <2>1. QED  BY <1>3 DEF IsStep
<1>5. PICK g : IsRun(g, N, S, <<>>, step)
  <2> HIDE DEF S, step
  <2>1. QED  BY <1>2, <1>4, RecursiveFunction
<1>6. SelectorRun(inputs, g)
  <2> HIDE DEF S
  <2>1. \A n \in 0 .. N : g[n] = IF n = 0 THEN <<>>
                                 ELSE IF inputs[n].q = 0 THEN g[n - 1]
                                 ELSE Append(g[n - 1], inputs[n].q)
    <3> SUFFICES ASSUME NEW n \in 0 .. N
                 PROVE  g[n] = IF n = 0 THEN <<>>
                               ELSE IF inputs[n].q = 0 THEN g[n - 1]
                               ELSE Append(g[n - 1], inputs[n].q)
      OBVIOUS
    <3>1. CASE n = 0  BY <1>5, <3>1 DEF IsRun
    <3>2. CASE n # 0
      <4>1. n \in 1 .. N /\ n - 1 \in 0 .. N  BY <3>2
      <4>2. g[n - 1] \in S /\ g[n] = step[<<g[n - 1], n>>]
        <5> HIDE DEF step
        <5>1. QED  BY <1>5, <4>1 DEF IsRun
      <4>3. <<g[n - 1], n>> \in S \X (1 .. N)  BY <4>1, <4>2
      <4>4. step[<<g[n - 1], n>>]
              = IF inputs[n].q = 0 THEN g[n - 1] ELSE Append(g[n - 1], inputs[n].q)
        BY <4>3
      <4>5. QED  BY <3>2, <4>2, <4>4
    <3>3. QED  BY <3>1, <3>2
  <2>2. g = [n \in 0 .. N |-> g[n]]
    <3> HIDE DEF step
    <3>1. QED  BY <1>5 DEF IsRun
  <2>3. QED  BY <1>1, <2>1, <2>2 DEF SelectorRun
<1>7. SelectorRun(inputs, f)
  BY <1>6
<1>8. SelectorsOf(inputs) = f[N]
  BY <1>1 DEF SelectorsOf, SelectorRun
<1> HIDE DEF f
<1>9. \A n \in 0 .. N : f[n] = IF n = 0 THEN <<>>
                               ELSE IF inputs[n].q = 0 THEN f[n - 1]
                               ELSE Append(f[n - 1], inputs[n].q)
  BY <1>1, <1>7 DEF SelectorRun
<1> HIDE DEF S
<1> DEFINE Good == {n \in Nat : n <= N => f[n] \in S}
<1>10. 0 \in Good  BY <1>2, <1>9
<1>11. ASSUME NEW n \in Nat, n \in Good
       PROVE  n + 1 \in Good
  <2> SUFFICES ASSUME n + 1 <= N
               PROVE  f[n + 1] \in S
    OBVIOUS
  <2>1. f[n] \in S  BY <1>11
  <2>2. f[n + 1] = IF inputs[n + 1].q = 0 THEN f[n] ELSE Append(f[n], inputs[n + 1].q)
    BY <1>9
  <2>3. QED  BY <1>3, <2>1, <2>2
<1>12. N \in Good
  <2> HIDE DEF Good
  <2>1. QED  BY <1>10, <1>11, SetInduction
<1>13. QED  BY <1>8, <1>12 DEF S

\* A gate remembers for each of its selectors whether it is simple.
LEMMA TaggedType ==
    ASSUME NEW c \in Systems, Len(c.selector_flags) = c.num_selectors,
           NEW sels \in Seq(1 .. c.num_selectors)
    PROVE  /\ Tagged(c, sels) \in Seq(Selectors)
           /\ \A s \in ToSet(Tagged(c, sels)) :
                s.index \in 1 .. c.num_selectors /\ s.simple = c.selector_flags[s.index].simple
<1>1. PICK n \in Nat : n = c.num_selectors  BY DEF Systems
<1>2. PICK flags \in Seq(Flags) : flags = c.selector_flags
  BY DEF Systems
<1>3. flags \in [1 .. n -> Flags]  BY <1>1, <1>2
<1>4. ASSUME NEW s \in 1 .. n
      PROVE  IsSimple(c, s) = flags[s].simple /\ flags[s].simple \in BOOLEAN
  <2>1. flags[s] \in Flags  BY <1>3
  <2>2. flags[s].simple \in BOOLEAN /\ s # 0  BY <2>1 DEF Flags
  <2>3. QED  BY <1>2, <2>2, Zenon DEF IsSimple
<1>5. PICK m \in Nat : DOMAIN sels = 1 .. m /\ \A i \in 1 .. m : sels[i] \in 1 .. n
  BY <1>1
<1>6. Tagged(c, sels) = [i \in 1 .. m |-> [index |-> sels[i], simple |-> flags[sels[i]].simple]]
  BY <1>4, <1>5 DEF Tagged
<1>7. \A i \in 1 .. m : [index |-> sels[i], simple |-> flags[sels[i]].simple] \in Selectors
  BY <1>4, <1>5 DEF Selectors
<1>8. Tagged(c, sels) \in Seq(Selectors)
  BY <1>6, <1>7
<1>9. \A s \in ToSet(Tagged(c, sels)) : s.index \in 1 .. n /\ s.simple = flags[s.index].simple
  BY <1>5, <1>6 DEF ToSet
<1>10. QED  BY <1>1, <1>2, <1>8, <1>9

\* What Append adds to the set of a list's entries.
LEMMA AppendToSet ==
    ASSUME NEW S, NEW s \in Seq(S), NEW e \in S
    PROVE  Append(s, e) \in Seq(S) /\ ToSet(Append(s, e)) = ToSet(s) \cup {e}
<1>1. PICK n \in Nat : n = Len(s) /\ DOMAIN s = 1 .. n  OBVIOUS
<1>2. /\ Append(s, e) \in Seq(S) /\ DOMAIN Append(s, e) = 1 .. n + 1
      /\ \A i \in 1 .. n : Append(s, e)[i] = s[i]
      /\ Append(s, e)[n + 1] = e
  BY <1>1
<1>3. QED  BY <1>1, <1>2 DEF ToSet

-----------------------------------------------------------------------------
(* What holds of a constraint system while it is configured.               *)

\* Gates, lookups and trash arguments multiply by selectors that exist, and gates know which of
\* theirs are simple; what a lookup looks up is not a constant.
SelectorsUsed(c) ==
    /\ \A g \in ToSet(c.gates) :
          /\ \A e \in ToSet(g.polys) : e.sels \in Seq(1 .. c.num_selectors)
          /\ \A s \in ToSet(g.selectors) :
               s.index \in 1 .. c.num_selectors /\ s.simple = c.selector_flags[s.index].simple
    /\ \A l \in ToSet(c.lookups) :
          /\ l.sel.sels \in Seq(1 .. c.num_selectors)
          /\ \A e \in ToSet(l.inputs) : e.sels \in Seq(1 .. c.num_selectors) /\ e.deg > 0
    /\ \A t \in ToSet(c.trashcans) :
          /\ t.sel.sels \in Seq(1 .. c.num_selectors)
          /\ \A e \in ToSet(t.exprs) : e.sels \in Seq(1 .. c.num_selectors)

\* No selector has its fixed column yet.
FlagsUnset(c) == \A i \in DOMAIN c.selector_flags : c.selector_flags[i].col = 0

\* Every phase but the first follows one that has a column, and a challenge
\* belongs to a phase that has one.
Contiguous(c) ==
    /\ \A p \in ToSet(c.advice_column_phase) : p > 0 => PhaseExists(c, p - 1)
    /\ \A p \in ToSet(c.challenge_phase) : PhaseExists(c, p)

\* The phases depend on two lists only.
LEMMA ContiguousKept ==
    ASSUME NEW c, Contiguous(c), NEW d,
           d.advice_column_phase = c.advice_column_phase, d.challenge_phase = c.challenge_phase
    PROVE  Contiguous(d)
BY DEF Contiguous, PhaseExists

Sound(c) ==
    /\ c \in Systems
    /\ Counted(c)
    /\ Len(c.num_advice_queries) = Len(c.advice_column_phase)
    /\ Len(c.selector_flags) = c.num_selectors
    /\ ArgumentsResolve(c)
    /\ PermutationQueried(c)
    /\ SelectorsUsed(c)
    /\ FlagsUnset(c)
    /\ Contiguous(c)

\* Queries leave a sound system sound.
LEMMA QueryingSound ==
    ASSUME NEW c, Sound(c), NEW d \in Querying(c)
    PROVE  Sound(d)
<1>1. /\ c \in Systems /\ d \in Systems /\ SameButQueries(c, d) /\ Extends(c.queries, d.queries)
      /\ DOMAIN d.num_advice_queries = DOMAIN c.num_advice_queries
  BY DEF Sound, Querying
<1>2. Counted(d)
  BY DEF Querying, Counted
<1>3. Len(d.num_advice_queries) = Len(d.advice_column_phase)
  <2>1. PICK u \in Seq(Nat), v \in Seq(Nat) :
           u = c.num_advice_queries /\ v = d.num_advice_queries
    BY <1>1 DEF Systems
  <2>2. DOMAIN u = 1 .. Len(u) /\ DOMAIN v = 1 .. Len(v) /\ Len(u) \in Nat /\ Len(v) \in Nat
    OBVIOUS
  <2>3. Len(u) = Len(v)  BY <1>1, <2>1, <2>2
  <2>4. QED  BY <1>1, <2>1, <2>3 DEF Sound, SameButQueries
<1>4. ArgumentsResolve(d)
  BY <1>1, ArgumentsKept DEF Sound, SameButQueries
<1>5. PermutationQueried(d)
  BY <1>1, PermutationKept DEF Sound, SameButQueries
<1>6. /\ d.gates = c.gates /\ d.lookups = c.lookups /\ d.trashcans = c.trashcans
      /\ d.num_selectors = c.num_selectors /\ d.selector_flags = c.selector_flags
  BY <1>1 DEF SameButQueries
<1>7. SelectorsUsed(d) /\ FlagsUnset(d) /\ Len(d.selector_flags) = d.num_selectors
  BY <1>6 DEF Sound, SelectorsUsed, FlagsUnset
<1>8. Contiguous(d)
  <2>1. d.advice_column_phase = c.advice_column_phase /\ d.challenge_phase = c.challenge_phase
    BY <1>1 DEF SameButQueries
  <2>2. QED  BY <2>1, ContiguousKept DEF Sound
<1>9. QED  BY <1>1, <1>2, <1>3, <1>4, <1>5, <1>7, <1>8 DEF Sound

\* What neither the queries nor the arguments depend on may change.
LEMMA OtherwiseSound ==
    ASSUME NEW c, Sound(c), NEW d \in Systems,
           d.queries = c.queries, d.num_advice_queries = c.num_advice_queries,
           d.advice_column_phase = c.advice_column_phase, d.challenge_phase = c.challenge_phase,
           d.num_selectors = c.num_selectors, d.selector_flags = c.selector_flags,
           d.permutation = c.permutation, d.gates = c.gates, d.lookups = c.lookups,
           d.trashcans = c.trashcans
    PROVE  Sound(d)
<1>1. Counted(d)  BY DEF Sound, Counted
<1>2. Extends(c.queries, d.queries)
  BY ExtendsReflexive DEF Sound, Systems
<1>3. ArgumentsResolve(d)  BY <1>2, ArgumentsKept DEF Sound
<1>4. PermutationQueried(d)  BY <1>2, PermutationKept DEF Sound
<1>5. SelectorsUsed(d) /\ FlagsUnset(d)  BY DEF Sound, SelectorsUsed, FlagsUnset
<1>6. Contiguous(d)  BY ContiguousKept DEF Sound
<1>7. QED  BY <1>1, <1>3, <1>4, <1>5, <1>6 DEF Sound

\* A gate whose cells are queried leaves the system sound.
LEMMA GateAdded ==
    ASSUME NEW c, Sound(c), NEW g \in Gates,
           \A e \in ToSet(g.polys) : ReadsResolve(c, e) /\ e.sels \in Seq(1 .. c.num_selectors),
           \A s \in ToSet(g.selectors) :
               s.index \in 1 .. c.num_selectors /\ s.simple = c.selector_flags[s.index].simple
    PROVE  Sound([c EXCEPT !.gates = Append(@, g)])
<1>1. c \in Systems /\ c.gates \in Seq(Gates)  BY DEF Sound, Systems
<1>2. PICK gates \in Seq(Gates) : gates = Append(c.gates, g) /\ ToSet(gates) = ToSet(c.gates) \cup {g}
  <2>1. /\ Append(c.gates, g) \in Seq(Gates)
        /\ ToSet(Append(c.gates, g)) = ToSet(c.gates) \cup {g}
    BY <1>1, AppendToSet
  <2>2. QED  BY <2>1
<1>3. PICK d : d = [c EXCEPT !.gates = gates]  OBVIOUS
<1>4. d \in Systems /\ d.gates = gates
  BY <1>1, <1>3 DEF Systems
<1>5. /\ d.queries = c.queries /\ d.num_advice_queries = c.num_advice_queries
      /\ d.advice_column_phase = c.advice_column_phase
      /\ d.challenge_phase = c.challenge_phase /\ d.num_selectors = c.num_selectors
      /\ d.selector_flags = c.selector_flags /\ d.permutation = c.permutation
      /\ d.lookups = c.lookups /\ d.trashcans = c.trashcans
  BY <1>1, <1>3 DEF Systems
<1>6. Counted(d)  BY <1>5 DEF Sound, Counted
<1>7. /\ \A e : ReadsResolve(c, e) => ReadsResolve(d, e)
      /\ \A e : StoredReadsResolve(c, e) => StoredReadsResolve(d, e)
      /\ \A read : Resolves(c, read) => Resolves(d, read)
  BY <1>5 DEF ReadsResolve, StoredReadsResolve, Resolves
<1>8. ArgumentsResolve(d)
  BY <1>2, <1>4, <1>5, <1>7 DEF Sound, ArgumentsResolve
<1>9. PermutationQueried(d)
  BY <1>5 DEF Sound, PermutationQueried
<1>10. SelectorsUsed(d) /\ FlagsUnset(d)
  BY <1>2, <1>4, <1>5 DEF Sound, SelectorsUsed, FlagsUnset
<1>c. Contiguous(d)
  BY <1>5, ContiguousKept DEF Sound
<1>11. Sound(d)
  BY <1>4, <1>5, <1>6, <1>8, <1>9, <1>10, <1>c DEF Sound
<1>12. QED  BY <1>2, <1>3, <1>11

\* A lookup whose cells are queried leaves the system sound.
LEMMA LookupAdded ==
    ASSUME NEW c, Sound(c), NEW l \in Lookups,
           Resolves(c, l.table), ReadsResolve(c, l.sel), l.sel.sels \in Seq(1 .. c.num_selectors),
           \A e \in ToSet(l.inputs) :
               ReadsResolve(c, e) /\ e.sels \in Seq(1 .. c.num_selectors) /\ e.deg > 0
    PROVE  Sound([c EXCEPT !.lookups = Append(@, l)])
<1>1. c \in Systems /\ c.lookups \in Seq(Lookups)  BY DEF Sound, Systems
<1>2. PICK lookups \in Seq(Lookups) :
         lookups = Append(c.lookups, l) /\ ToSet(lookups) = ToSet(c.lookups) \cup {l}
  <2>1. /\ Append(c.lookups, l) \in Seq(Lookups)
        /\ ToSet(Append(c.lookups, l)) = ToSet(c.lookups) \cup {l}
    BY <1>1, AppendToSet
  <2>2. QED  BY <2>1
<1>3. PICK d : d = [c EXCEPT !.lookups = lookups]  OBVIOUS
<1>4. d \in Systems /\ d.lookups = lookups
  BY <1>1, <1>3 DEF Systems
<1>5. /\ d.queries = c.queries /\ d.num_advice_queries = c.num_advice_queries
      /\ d.advice_column_phase = c.advice_column_phase
      /\ d.challenge_phase = c.challenge_phase /\ d.num_selectors = c.num_selectors
      /\ d.selector_flags = c.selector_flags /\ d.permutation = c.permutation
      /\ d.gates = c.gates /\ d.trashcans = c.trashcans
  BY <1>1, <1>3 DEF Systems
<1>6. Counted(d)  BY <1>5 DEF Sound, Counted
<1>7. /\ \A e : ReadsResolve(c, e) => ReadsResolve(d, e)
      /\ \A e : StoredReadsResolve(c, e) => StoredReadsResolve(d, e)
      /\ \A read : Resolves(c, read) => Resolves(d, read)
  BY <1>5 DEF ReadsResolve, StoredReadsResolve, Resolves
<1>8. ArgumentsResolve(d)
  BY <1>2, <1>4, <1>5, <1>7 DEF Sound, ArgumentsResolve
<1>9. PermutationQueried(d)
  BY <1>5 DEF Sound, PermutationQueried
<1>10. SelectorsUsed(d) /\ FlagsUnset(d)
  BY <1>2, <1>4, <1>5 DEF Sound, SelectorsUsed, FlagsUnset
<1>c. Contiguous(d)
  BY <1>5, ContiguousKept DEF Sound
<1>11. Sound(d)
  BY <1>4, <1>5, <1>6, <1>8, <1>9, <1>10, <1>c DEF Sound
<1>12. QED  BY <1>2, <1>3, <1>11

\* So does a trash argument, whose cells may have no index.
LEMMA TrashAdded ==
    ASSUME NEW c, Sound(c), NEW t \in Trashcans,
           ReadsResolve(c, t.sel), t.sel.sels \in Seq(1 .. c.num_selectors),
           \A e \in ToSet(t.exprs) :
               StoredReadsResolve(c, e) /\ e.sels \in Seq(1 .. c.num_selectors)
    PROVE  Sound([c EXCEPT !.trashcans = Append(@, t)])
<1>1. c \in Systems /\ c.trashcans \in Seq(Trashcans)  BY DEF Sound, Systems
<1>2. PICK trashcans \in Seq(Trashcans) :
         trashcans = Append(c.trashcans, t) /\ ToSet(trashcans) = ToSet(c.trashcans) \cup {t}
  <2>1. /\ Append(c.trashcans, t) \in Seq(Trashcans)
        /\ ToSet(Append(c.trashcans, t)) = ToSet(c.trashcans) \cup {t}
    BY <1>1, AppendToSet
  <2>2. QED  BY <2>1
<1>3. PICK d : d = [c EXCEPT !.trashcans = trashcans]  OBVIOUS
<1>4. d \in Systems /\ d.trashcans = trashcans
  BY <1>1, <1>3 DEF Systems
<1>5. /\ d.queries = c.queries /\ d.num_advice_queries = c.num_advice_queries
      /\ d.advice_column_phase = c.advice_column_phase
      /\ d.challenge_phase = c.challenge_phase /\ d.num_selectors = c.num_selectors
      /\ d.selector_flags = c.selector_flags /\ d.permutation = c.permutation
      /\ d.gates = c.gates /\ d.lookups = c.lookups
  BY <1>1, <1>3 DEF Systems
<1>6. Counted(d)  BY <1>5 DEF Sound, Counted
<1>7. /\ \A e : ReadsResolve(c, e) => ReadsResolve(d, e)
      /\ \A e : StoredReadsResolve(c, e) => StoredReadsResolve(d, e)
      /\ \A read : Resolves(c, read) => Resolves(d, read)
  BY <1>5 DEF ReadsResolve, StoredReadsResolve, Resolves
<1>8. ArgumentsResolve(d)
  BY <1>2, <1>4, <1>5, <1>7 DEF Sound, ArgumentsResolve
<1>9. PermutationQueried(d)
  BY <1>5 DEF Sound, PermutationQueried
<1>10. SelectorsUsed(d) /\ FlagsUnset(d)
  BY <1>2, <1>4, <1>5 DEF Sound, SelectorsUsed, FlagsUnset
<1>c. Contiguous(d)
  BY <1>5, ContiguousKept DEF Sound
<1>11. Sound(d)
  BY <1>4, <1>5, <1>6, <1>8, <1>9, <1>10, <1>c DEF Sound
<1>12. QED  BY <1>2, <1>3, <1>11

-----------------------------------------------------------------------------
(* The calls of configure, one by one.                                     *)

\* query_any leaves a sound system sound.
LEMMA QueryAnySound ==
    ASSUME NEW c, Sound(c), NEW cell \in CellsOf(c)
    PROVE  /\ QueryAny(c, cell) \in Querying(c)
           /\ Sound(QueryAny(c, cell))
           /\ Listed(QueryAny(c, cell).queries, cell)
<1>1. c \in Systems /\ c \in Querying(c)  BY QueryingReflexive DEF Sound
<1>2. QueryAny(c, cell) \in Querying(c) /\ Listed(QueryAny(c, cell).queries, cell)
  BY <1>1, QueryAnyKeeps
<1>3. QED  BY <1>2, QueryingSound

\* enable_equality queries the column it adds to the permutation.
LEMMA EqualityEnabled ==
    ASSUME NEW c, Sound(c), NEW kind \in Kinds, NEW col \in Nat,
           kind = "advice" => col \in DOMAIN c.num_advice_queries
    PROVE  Sound(EnableEquality(c, kind, col))
<1>1. Cell(kind, col, 0) \in CellsOf(c)
  BY DEF Cell, CellsOf, CellSet
<1>2. PICK d : d = QueryAny(c, Cell(kind, col, 0)) /\ Sound(d)
               /\ Contains(d.queries[kind], <<col, 0>>)
  BY <1>1, QueryAnySound DEF Listed, Cell
<1>3. d \in Systems /\ d.permutation \in Seq(Kinds \X Nat)  BY <1>2 DEF Sound, Systems
<1>4. PICK permutation : permutation = IF Contains(d.permutation, <<kind, col>>) THEN d.permutation
                                       ELSE Append(d.permutation, <<kind, col>>)
  OBVIOUS
<1>5. permutation \in Seq(Kinds \X Nat) /\ ToSet(permutation) \subseteq ToSet(d.permutation) \cup {<<kind, col>>}
  <2>1. <<kind, col>> \in Kinds \X Nat  OBVIOUS
  <2>2. QED  BY <1>3, <1>4, <2>1, AppendToSet
<1>6. PICK e : e = [d EXCEPT !.permutation = permutation]  OBVIOUS
<1>7. e \in Systems /\ e.permutation = permutation
  BY <1>3, <1>5, <1>6 DEF Systems
<1>8. /\ e.queries = d.queries /\ e.num_advice_queries = d.num_advice_queries
      /\ e.advice_column_phase = d.advice_column_phase
      /\ e.challenge_phase = d.challenge_phase /\ e.num_selectors = d.num_selectors
      /\ e.selector_flags = d.selector_flags /\ e.gates = d.gates /\ e.lookups = d.lookups
      /\ e.trashcans = d.trashcans
  BY <1>3, <1>6 DEF Systems
<1>9. Counted(e)  BY <1>2, <1>8 DEF Sound, Counted
<1>10. Extends(d.queries, e.queries)
  BY <1>3, <1>8, ExtendsReflexive DEF Systems
<1>11. ArgumentsResolve(e)  BY <1>2, <1>3, <1>7, <1>8, <1>10, ArgumentsKept DEF Sound
<1>12. PermutationQueried(e)
  <2> SUFFICES ASSUME NEW q \in ToSet(permutation)
               PROVE  Contains(d.queries[q[1]], <<q[2], 0>>)
    BY <1>7, <1>8 DEF PermutationQueried
  <2>1. CASE q \in ToSet(d.permutation)  BY <1>2, <2>1 DEF Sound, PermutationQueried
  <2>2. CASE q = <<kind, col>>  BY <1>2, <2>2
  <2>3. QED  BY <1>5, <2>1, <2>2
<1>13. SelectorsUsed(e) /\ FlagsUnset(e)
  BY <1>2, <1>8 DEF Sound, SelectorsUsed, FlagsUnset
<1>c. Contiguous(e)
  BY <1>2, <1>8, ContiguousKept DEF Sound
<1>14. Sound(e)
  BY <1>2, <1>7, <1>8, <1>9, <1>11, <1>12, <1>13, <1>c DEF Sound
<1>15. EnableEquality(c, kind, col) = e
  BY <1>2, <1>4, <1>6 DEF EnableEquality
<1>16. QED  BY <1>14, <1>15

\* enable_constant does so for its fixed column.
LEMMA ConstantEnabled ==
    ASSUME NEW c, Sound(c), NEW col \in Nat
    PROVE  Sound(EnableConstant(c, col))
<1>1. CASE Contains(c.constants, col)
  BY <1>1 DEF EnableConstant
<1>2. CASE ~Contains(c.constants, col)
  <2>1. c \in Systems /\ c.constants \in Seq(Nat)  BY DEF Sound, Systems
  <2>2. PICK constants \in Seq(Nat) : constants = Append(c.constants, col)
    BY <2>1, AppendToSet
  <2>3. PICK d : d = [c EXCEPT !.constants = constants]  OBVIOUS
  <2>4. d \in Systems  BY <2>1, <2>3 DEF Systems
  <2>5. /\ d.queries = c.queries /\ d.num_advice_queries = c.num_advice_queries
        /\ d.advice_column_phase = c.advice_column_phase
        /\ d.challenge_phase = c.challenge_phase /\ d.num_selectors = c.num_selectors
        /\ d.selector_flags = c.selector_flags /\ d.permutation = c.permutation
        /\ d.gates = c.gates /\ d.lookups = c.lookups /\ d.trashcans = c.trashcans
    BY <2>1, <2>3 DEF Systems
  <2>6. Sound(d)  BY <2>4, <2>5, OtherwiseSound
  <2>7. Sound(EnableEquality(d, "fixed", col))
    BY <2>6, EqualityEnabled DEF Kinds
  <2>8. EnableConstant(c, col) = EnableEquality(d, "fixed", col)
    BY <1>2, <2>2, <2>3 DEF EnableConstant
  <2>9. QED  BY <2>7, <2>8
<1>3. QED  BY <1>1, <1>2

\* The phases once one more advice column is asked for.
LEMMA PhaseAppended ==
    ASSUME NEW phases \in Seq(Nat), NEW phase \in Nat
    PROVE  ToSet(Append(phases, phase)) = ToSet(phases) \cup {phase}
<1>1. PICK n \in Nat : n = Len(phases) /\ DOMAIN phases = 1 .. n  OBVIOUS
<1>2. /\ DOMAIN Append(phases, phase) = 1 .. n + 1
      /\ \A i \in 1 .. n : Append(phases, phase)[i] = phases[i]
      /\ Append(phases, phase)[n + 1] = phase
  BY <1>1
<1>3. QED  BY <1>1, <1>2 DEF ToSet

\* A new advice column has no query.
LEMMA AdviceColumnAdded ==
    ASSUME NEW c, Sound(c), NEW phase \in Nat, phase > 0 => PhaseExists(c, phase - 1)
    PROVE  Sound(AdviceColumnIn(c, phase))
<1>1. c \in Systems  BY DEF Sound
<1>2. PICK counts \in Seq(Nat), phases \in Seq(Nat), n \in Nat :
         /\ counts = c.num_advice_queries /\ phases = c.advice_column_phase
         /\ Len(counts) = n /\ Len(phases) = n
  BY <1>1 DEF Sound, Systems
<1>3. PICK list \in Seq(Nat \X Int) : list = c.queries["advice"]
  BY <1>1 DEF Systems, Kinds
<1>4. PICK d : d = AdviceColumnIn(c, phase)  OBVIOUS
<1>a. PICK counts1 \in Seq(Nat), phases1 \in Seq(Nat) :
         counts1 = Append(counts, 0) /\ phases1 = Append(phases, phase)
  BY <1>2, AppendToSet
<1>b. d = [c EXCEPT !.advice_column_phase = phases1, !.num_advice_queries = counts1]
  BY <1>2, <1>4, <1>a DEF AdviceColumnIn
<1>5. /\ d \in Systems
      /\ d.num_advice_queries = counts1 /\ d.advice_column_phase = phases1
      /\ d.challenge_phase = c.challenge_phase
      /\ d.queries = c.queries /\ d.permutation = c.permutation
      /\ d.num_selectors = c.num_selectors /\ d.selector_flags = c.selector_flags
      /\ d.gates = c.gates /\ d.lookups = c.lookups /\ d.trashcans = c.trashcans
  BY <1>1, <1>b DEF Systems
<1>6. /\ DOMAIN counts = 1 .. n
      /\ DOMAIN counts1 = 1 .. n + 1
      /\ \A i \in 1 .. n : counts1[i] = counts[i]
      /\ counts1[n + 1] = 0
      /\ Len(counts1) = n + 1
      /\ Len(phases1) = n + 1
  <2>1. DOMAIN counts = 1 .. n
    BY <1>2
  <2>2. /\ Len(Append(counts, 0)) = n + 1
        /\ DOMAIN Append(counts, 0) = 1 .. n + 1
        /\ \A i \in 1 .. n : Append(counts, 0)[i] = counts[i]
        /\ Append(counts, 0)[n + 1] = 0
    <3>1. Len(Append(counts, 0)) = n + 1  BY <1>2
    <3>2. DOMAIN Append(counts, 0) = 1 .. n + 1  BY <1>2
    <3>3. \A i \in 1 .. n : Append(counts, 0)[i] = counts[i]  BY <1>2
    <3>4. Append(counts, 0)[n + 1] = 0
      <4>1. Append(counts, 0)[Len(counts) + 1] = 0  OBVIOUS
      <4>2. QED  BY <1>2, <4>1, Zenon
    <3>5. QED  BY <3>1, <3>2, <3>3, <3>4
  <2>3. Len(Append(phases, phase)) = n + 1
    BY <1>2
  <2>4. QED  BY <1>a, <2>1, <2>2, <2>3, Zenon
<1>7. Known(c.queries, counts) /\ CountsExact(c.queries, counts)
  BY <1>2 DEF Sound, Counted
<1>8. Positions(list, n + 1) = {}
  <2>1. \A i \in DOMAIN list : list[i][1] \in 1 .. n
    BY <1>3, <1>6, <1>7 DEF Known
  <2>2. n + 1 \notin 1 .. n  OBVIOUS
  <2>3. QED  BY <2>1, <2>2, Zenon DEF Positions
<1>9. CountsExact(c.queries, counts1)
  <2> SUFFICES ASSUME NEW col \in 1 .. n + 1
               PROVE  counts1[col] = Cardinality(Positions(list, col))
    BY <1>3, <1>6 DEF CountsExact
  <2>1. CASE col \in 1 .. n  BY <1>3, <1>6, <1>7, <2>1 DEF CountsExact
  <2>2. CASE col = n + 1  BY <1>6, <1>8, <2>2, FS_EmptySet
  <2>3. QED  BY <2>1, <2>2
<1>10. Known(c.queries, counts1)
  BY <1>6, <1>7 DEF Known
<1>11. Counted(d)
  BY <1>5, <1>9, <1>10 DEF Sound, Counted
<1>12. Extends(c.queries, d.queries)
  BY <1>1, <1>5, ExtendsReflexive DEF Systems
<1>13. ArgumentsResolve(d)  BY <1>1, <1>5, <1>12, ArgumentsKept DEF Sound
<1>14. PermutationQueried(d)  BY <1>1, <1>5, <1>12, PermutationKept DEF Sound
<1>15. SelectorsUsed(d) /\ FlagsUnset(d)  BY <1>5 DEF Sound, SelectorsUsed, FlagsUnset
<1>16. Contiguous(d)
  <2>1. ToSet(phases1) = ToSet(phases) \cup {phase}
    BY <1>a, PhaseAppended
  <2>2. \A p : PhaseExists(c, p) <=> p \in ToSet(phases)
    BY <1>2 DEF PhaseExists, Contains, ToSet
  <2>3. \A p : PhaseExists(d, p) <=> p \in ToSet(phases1)
    <3>1. d.advice_column_phase = phases1  BY <1>5
    <3>2. QED  BY <3>1 DEF PhaseExists, Contains, ToSet
  <2>4. \A p \in ToSet(phases) : p > 0 => PhaseExists(c, p - 1)
    BY <1>2 DEF Sound, Contiguous
  <2>5. \A p \in ToSet(c.challenge_phase) : PhaseExists(c, p)
    BY DEF Sound, Contiguous
  <2>6. QED  BY <1>5, <2>1, <2>2, <2>3, <2>4, <2>5 DEF Contiguous
<1>17. QED  BY <1>4, <1>5, <1>6, <1>11, <1>13, <1>14, <1>15, <1>16 DEF Sound

\* A new selector has no fixed column yet.
LEMMA SelectorAdded ==
    ASSUME NEW c, Sound(c), NEW simple \in BOOLEAN
    PROVE  Sound(NewSelector(c, simple))
<1>1. c \in Systems  BY DEF Sound
<1>2. PICK flags \in Seq(Flags), n \in Nat :
         flags = c.selector_flags /\ n = c.num_selectors /\ n = Len(flags)
  BY <1>1 DEF Sound, Systems
<1>3. PICK flag \in Flags : flag = [simple |-> simple, col |-> 0]
  BY DEF Flags
<1>4. PICK d : d = NewSelector(c, simple)  OBVIOUS
<1>5. PICK flags1 \in Seq(Flags) : flags1 = Append(flags, flag)
  BY AppendToSet
<1>n. PICK n1 \in Nat : n1 = n + 1  OBVIOUS
<1>6. d = [c EXCEPT !.num_selectors = n1, !.selector_flags = flags1]
  BY <1>2, <1>3, <1>4, <1>5, <1>n DEF NewSelector
<1>7. /\ d \in Systems
      /\ d.num_selectors = n1 /\ d.selector_flags = flags1
      /\ d.num_advice_queries = c.num_advice_queries
      /\ d.advice_column_phase = c.advice_column_phase
      /\ d.challenge_phase = c.challenge_phase
      /\ d.queries = c.queries /\ d.permutation = c.permutation
      /\ d.gates = c.gates /\ d.lookups = c.lookups /\ d.trashcans = c.trashcans
  BY <1>1, <1>6 DEF Systems
<1>8. /\ DOMAIN flags = 1 .. n
      /\ DOMAIN flags1 = 1 .. n + 1
      /\ Len(flags1) = n + 1
      /\ \A i \in 1 .. n : flags1[i] = flags[i]
      /\ flags1[n + 1] = flag
  BY <1>2, <1>5
<1>9. Counted(d)  BY <1>7 DEF Sound, Counted
<1>10. Extends(c.queries, d.queries)
  BY <1>1, <1>7, ExtendsReflexive DEF Systems
<1>11. ArgumentsResolve(d)  BY <1>1, <1>7, <1>10, ArgumentsKept DEF Sound
<1>12. PermutationQueried(d)  BY <1>1, <1>7, <1>10, PermutationKept DEF Sound
<1>13. \A sels \in Seq(1 .. n) : sels \in Seq(1 .. n + 1)
  <2>1. 1 .. n \subseteq 1 .. n + 1  OBVIOUS
  <2> SUFFICES ASSUME NEW sels \in Seq(1 .. n)
               PROVE  sels \in Seq(1 .. n + 1)
    OBVIOUS
  <2>2. PICK m \in Nat : m = Len(sels)  OBVIOUS
  <2>3. sels \in [1 .. m -> 1 .. n]  BY <2>2
  <2>4. sels \in [1 .. m -> 1 .. n + 1]  BY <2>1, <2>3
  <2>5. QED  BY <2>4
<1>14. SelectorsUsed(d)
  <2>1. ASSUME NEW g \in ToSet(c.gates)
        PROVE  /\ \A e \in ToSet(g.polys) : e.sels \in Seq(1 .. n + 1)
               /\ \A s \in ToSet(g.selectors) :
                    s.index \in 1 .. n + 1 /\ s.simple = flags1[s.index].simple
    <3>1. /\ \A e \in ToSet(g.polys) : e.sels \in Seq(1 .. n)
          /\ \A s \in ToSet(g.selectors) :
               s.index \in 1 .. n /\ s.simple = flags[s.index].simple
      BY <1>2 DEF Sound, SelectorsUsed
    <3>2. 1 .. n \subseteq 1 .. n + 1  OBVIOUS
    <3>3. QED  BY <1>8, <1>13, <3>1, <3>2
  <2>2. ASSUME NEW l \in ToSet(c.lookups)
        PROVE  /\ l.sel.sels \in Seq(1 .. n + 1)
               /\ \A e \in ToSet(l.inputs) : e.sels \in Seq(1 .. n + 1) /\ e.deg > 0
    BY <1>2, <1>13 DEF Sound, SelectorsUsed
  <2>3. ASSUME NEW t \in ToSet(c.trashcans)
        PROVE  /\ t.sel.sels \in Seq(1 .. n + 1)
               /\ \A e \in ToSet(t.exprs) : e.sels \in Seq(1 .. n + 1)
    BY <1>2, <1>13 DEF Sound, SelectorsUsed
  <2>4. QED  BY <1>n, <1>7, <2>1, <2>2, <2>3 DEF SelectorsUsed
<1>15. FlagsUnset(d)
  <2>1. \A i \in 1 .. n : flags[i].col = 0
    BY <1>2, <1>8 DEF Sound, FlagsUnset
  <2>2. \A i \in 1 .. n + 1 : flags1[i].col = 0
    BY <1>3, <1>8, <2>1
  <2>3. QED  BY <1>n, <1>7, <1>8, <2>2 DEF FlagsUnset
<1>16. Contiguous(d)  BY <1>7, ContiguousKept DEF Sound
<1>17. QED  BY <1>4, <1>n, <1>7, <1>8, <1>9, <1>11, <1>12, <1>14, <1>15, <1>16 DEF Sound

\* A challenge belongs to a phase that has an advice column.
LEMMA ChallengeAdded ==
    ASSUME NEW c, Sound(c), NEW phase \in Nat, PhaseExists(c, phase)
    PROVE  Sound(ChallengeUsableAfter(c, phase))
<1>1. c \in Systems /\ c.challenge_phase \in Seq(Nat)  BY DEF Sound, Systems
<1>2. PICK challenges \in Seq(Nat) :
         /\ challenges = Append(c.challenge_phase, phase)
         /\ ToSet(challenges) = ToSet(c.challenge_phase) \cup {phase}
  <2>1. /\ Append(c.challenge_phase, phase) \in Seq(Nat)
        /\ ToSet(Append(c.challenge_phase, phase)) = ToSet(c.challenge_phase) \cup {phase}
    BY <1>1, AppendToSet
  <2>2. QED  BY <2>1
<1>3. PICK d : d = [c EXCEPT !.challenge_phase = challenges]  OBVIOUS
<1>4. d \in Systems /\ d.challenge_phase = challenges
  BY <1>1, <1>3 DEF Systems
<1>5. /\ d.queries = c.queries /\ d.num_advice_queries = c.num_advice_queries
      /\ d.advice_column_phase = c.advice_column_phase /\ d.num_selectors = c.num_selectors
      /\ d.selector_flags = c.selector_flags /\ d.permutation = c.permutation
      /\ d.gates = c.gates /\ d.lookups = c.lookups /\ d.trashcans = c.trashcans
  BY <1>1, <1>3 DEF Systems
<1>6. Counted(d)  BY <1>5 DEF Sound, Counted
<1>7. Extends(c.queries, d.queries)
  BY <1>1, <1>5, ExtendsReflexive DEF Systems
<1>8. ArgumentsResolve(d)  BY <1>1, <1>4, <1>5, <1>7, ArgumentsKept DEF Sound
<1>9. PermutationQueried(d)  BY <1>1, <1>4, <1>5, <1>7, PermutationKept DEF Sound
<1>10. SelectorsUsed(d) /\ FlagsUnset(d)  BY <1>5 DEF Sound, SelectorsUsed, FlagsUnset
<1>11. Contiguous(d)
  BY <1>2, <1>4, <1>5 DEF Sound, Contiguous, PhaseExists
<1>12. Sound(d)
  BY <1>4, <1>5, <1>6, <1>8, <1>9, <1>10, <1>11 DEF Sound
<1>13. QED  BY <1>2, <1>3, <1>12 DEF ChallengeUsableAfter

\* New fixed and instance columns and set_minimum_degree disturb nothing.
LEMMA ColumnOrDegreeSet ==
    ASSUME NEW c, Sound(c), NEW n \in Nat
    PROVE  /\ Sound(FixedColumn(c))
           /\ Sound(InstanceColumn(c))
           /\ Sound(SetMinimumDegree(c, n))
<1>1. c \in Systems  BY DEF Sound
<1>2. PICK k \in Nat : k = c.num_fixed_columns + 1  BY <1>1 DEF Systems
<1>3. PICK m \in Nat : m = c.num_instance_columns + 1  BY <1>1 DEF Systems
<1>4. Sound([c EXCEPT !.num_fixed_columns = k])
  <2>1. PICK d : d = [c EXCEPT !.num_fixed_columns = k]  OBVIOUS
  <2>2. d \in Systems  BY <1>1, <2>1 DEF Systems
  <2>3. /\ d.queries = c.queries /\ d.num_advice_queries = c.num_advice_queries
        /\ d.advice_column_phase = c.advice_column_phase
        /\ d.challenge_phase = c.challenge_phase /\ d.num_selectors = c.num_selectors
        /\ d.selector_flags = c.selector_flags /\ d.permutation = c.permutation
        /\ d.gates = c.gates /\ d.lookups = c.lookups /\ d.trashcans = c.trashcans
    BY <1>1, <2>1 DEF Systems
  <2>4. QED  BY <2>1, <2>2, <2>3, OtherwiseSound
<1>5. Sound([c EXCEPT !.num_instance_columns = m])
  <2>1. PICK d : d = [c EXCEPT !.num_instance_columns = m]  OBVIOUS
  <2>2. d \in Systems  BY <1>1, <2>1 DEF Systems
  <2>3. /\ d.queries = c.queries /\ d.num_advice_queries = c.num_advice_queries
        /\ d.advice_column_phase = c.advice_column_phase
        /\ d.challenge_phase = c.challenge_phase /\ d.num_selectors = c.num_selectors
        /\ d.selector_flags = c.selector_flags /\ d.permutation = c.permutation
        /\ d.gates = c.gates /\ d.lookups = c.lookups /\ d.trashcans = c.trashcans
    BY <1>1, <2>1 DEF Systems
  <2>4. QED  BY <2>1, <2>2, <2>3, OtherwiseSound
<1>6. Sound([c EXCEPT !.minimum_degree = n])
  <2>1. PICK d : d = [c EXCEPT !.minimum_degree = n]  OBVIOUS
  <2>2. d \in Systems  BY <1>1, <2>1 DEF Systems
  <2>3. /\ d.queries = c.queries /\ d.num_advice_queries = c.num_advice_queries
        /\ d.advice_column_phase = c.advice_column_phase
        /\ d.challenge_phase = c.challenge_phase /\ d.num_selectors = c.num_selectors
        /\ d.selector_flags = c.selector_flags /\ d.permutation = c.permutation
        /\ d.gates = c.gates /\ d.lookups = c.lookups /\ d.trashcans = c.trashcans
    BY <1>1, <2>1 DEF Systems
  <2>4. QED  BY <2>1, <2>2, <2>3, OtherwiseSound
<1>7. /\ FixedColumn(c) = [c EXCEPT !.num_fixed_columns = k]
      /\ InstanceColumn(c) = [c EXCEPT !.num_instance_columns = m]
      /\ SetMinimumDegree(c, n) = [c EXCEPT !.minimum_degree = n]
  BY <1>2, <1>3 DEF FixedColumn, InstanceColumn, SetMinimumDegree
<1>8. QED  BY <1>4, <1>5, <1>6, <1>7

-----------------------------------------------------------------------------
(* Largest elements and powers of two.                                     *)

\* The values of a finite function into the naturals are bounded.
LEMMA ValuesBounded ==
    ASSUME NEW N \in Nat, NEW f, \A i \in 1 .. N : f[i] \in Nat
    PROVE  \E b \in Nat : \A i \in 1 .. N : f[i] <= b
<1> DEFINE Good == {k \in Nat : k <= N => \E b \in Nat : \A i \in 1 .. k : f[i] <= b}
<1>1. 0 \in Good  OBVIOUS
<1>2. ASSUME NEW k \in Nat, k \in Good
      PROVE  k + 1 \in Good
  <2> SUFFICES ASSUME k + 1 <= N
               PROVE  \E b \in Nat : \A i \in 1 .. k + 1 : f[i] <= b
    OBVIOUS
  <2>1. PICK b \in Nat : \A i \in 1 .. k : f[i] <= b  BY <1>2
  <2>2. f[k + 1] \in Nat /\ \A i \in 1 .. k : f[i] \in Nat  OBVIOUS
  <2>3. PICK t \in Nat : t = b + f[k + 1]  BY <2>2
  <2>4. \A i \in 1 .. k + 1 : f[i] <= t  BY <2>1, <2>2, <2>3
  <2>5. QED  BY <2>4
<1>3. N \in Good
  <2> HIDE DEF Good
  <2>1. QED  BY <1>1, <1>2, SetInduction
<1>4. QED  BY <1>3

\* A bounded set of naturals has the largest element that Max names.
LEMMA MaxOfBounded ==
    ASSUME NEW S, S \subseteq Nat, S # {}, NEW b \in Nat, \A n \in S : n <= b
    PROVE  /\ Max(S) \in S /\ Max(S) \in Nat
           /\ \A n \in S : n <= Max(S)
<1> DEFINE T == {b - n : n \in S}
<1>1. T \subseteq Nat /\ T # {}  OBVIOUS
<1>2. PICK t \in T : \A u \in T : t <= u
  <2> HIDE DEF T
  <2>1. QED  BY <1>1, LeastElement
<1>3. PICK m \in S : t = b - m  OBVIOUS
<1>4. ASSUME NEW n \in S
      PROVE  m >= n
  <2>1. b - n \in T  OBVIOUS
  <2>2. t <= b - n  BY <1>2, <2>1
  <2>3. n \in Nat /\ m \in Nat  OBVIOUS
  <2>4. QED  BY <1>3, <2>2, <2>3
<1>5. PICK x : x = CHOOSE z \in S : \A y \in S : z >= y  OBVIOUS
<1>6. x \in S /\ \A y \in S : x >= y  BY <1>4, <1>5
<1>7. x \in Nat /\ \A y \in S : y <= x
  <2>1. x \in Nat /\ S \subseteq Nat  BY <1>6
  <2>2. ASSUME NEW y \in S
        PROVE  y <= x
    <3>1. y \in Nat /\ x >= y  BY <1>6
    <3>2. QED  BY <2>1, <3>1
  <2>3. QED  BY <2>1, <2>2
<1>8. QED  BY <1>5, <1>6, <1>7 DEF Max

\* The list, a function of it and the set of its values.
LEMMA MaxOfList ==
    ASSUME NEW N \in Nat, NEW f, \A i \in 1 .. N : f[i] \in Nat,
           NEW S, S # {}, NEW a \in Nat,
           \A n \in S : n \in Nat /\ (n <= a \/ \E i \in 1 .. N : n = f[i])
    PROVE  /\ Max(S) \in S /\ Max(S) \in Nat
           /\ \A n \in S : n <= Max(S)
<1>1. PICK b \in Nat : \A i \in 1 .. N : f[i] <= b  BY ValuesBounded
<1>2. PICK t \in Nat : t = a + b  OBVIOUS
<1>3. S \subseteq Nat  OBVIOUS
<1>4. ASSUME NEW n \in S
      PROVE  n <= t
  <2>1. n \in Nat  OBVIOUS
  <2>2. CASE n <= a  BY <1>2, <2>1, <2>2
  <2>3. CASE \E i \in 1 .. N : n = f[i]
    <3>1. n <= b  BY <1>1, <2>3
    <3>2. QED  BY <1>2, <2>1, <3>1
  <2>4. QED  BY <2>2, <2>3
<1>5. QED  BY <1>3, <1>4, MaxOfBounded

\* A power of two is a natural number above its exponent: it counts the subsets
\* of a set, which has as many singletons as elements.
LEMMA PowerAboveExponent ==
    ASSUME NEW n \in Nat
    PROVE  2^n \in Nat /\ n <= 2^n
<1>1. PICK S : S = 1 .. n  OBVIOUS
<1>2. IsFiniteSet(S) /\ Cardinality(S) = n
  BY <1>1, FS_Interval
<1>3. IsFiniteSet(SUBSET S) /\ Cardinality(SUBSET S) = 2^n
  BY <1>2, FS_SUBSET
<1>4. Cardinality(SUBSET S) \in Nat
  BY <1>3, FS_CardinalityType
<1>5. PICK f : f = [i \in S |-> {i}]  OBVIOUS
<1>6. f \in [S -> SUBSET S] /\ \A i, j \in S : f[i] = f[j] => i = j
  BY <1>5
<1>7. f \in Injection(S, SUBSET S)
  BY <1>6 DEF Injection, IsInjective
<1>8. Cardinality(S) <= Cardinality(SUBSET S)
  BY <1>3, <1>7, FS_Injection
<1>9. QED  BY <1>2, <1>3, <1>4, <1>8

\* next_power_of_two is a power of two that is not below its argument, and
\* leaves powers of two alone.
LEMMA NextPowerOfTwoIs ==
    ASSUME NEW n \in Nat
    PROVE  /\ NextPowerOfTwo(n) \in Nat /\ n <= NextPowerOfTwo(n)
           /\ \E i \in Nat : NextPowerOfTwo(n) = 2^i
<1> DEFINE T == {p \in {2^i : i \in 0 .. n} : p >= n}
<1>1. T \subseteq Nat  BY PowerAboveExponent
<1>2. 2^n \in T  BY PowerAboveExponent
<1>3. PICK m \in T : \A q \in T : m <= q
  <2> HIDE DEF T
  <2>1. QED  BY <1>1, <1>2, LeastElement
<1>4. PICK x : x = CHOOSE z \in T : \A y \in T : z <= y  OBVIOUS
<1>5. x \in T
  <2> HIDE DEF T
  <2>1. QED  BY <1>3, <1>4
<1>6. NextPowerOfTwo(n) = x  BY <1>4 DEF NextPowerOfTwo, Min
<1>7. QED  BY <1>1, <1>5, <1>6

\* A power of two is its own next power of two.
LEMMA NextPowerOfTwoFixed ==
    ASSUME NEW n \in Nat, NEW i \in Nat, n = 2^i
    PROVE  NextPowerOfTwo(n) = n
<1> DEFINE T == {p \in {2^k : k \in 0 .. n} : p >= n}
<1>1. i \in 0 .. n  BY PowerAboveExponent
<1>2. n \in T  BY <1>1
<1>3. \A p \in T : p \in Nat /\ n <= p  BY PowerAboveExponent
<1>4. PICK x : x = CHOOSE z \in T : \A y \in T : z <= y  OBVIOUS
<1>5. x \in T /\ \A y \in T : x <= y
  <2> HIDE DEF T
  <2>1. QED  BY <1>2, <1>3, <1>4
<1>6. x <= n /\ n <= x /\ x \in Nat
  <2> HIDE DEF T
  <2>1. QED  BY <1>2, <1>3, <1>5
<1>7. QED  BY <1>4, <1>6 DEF NextPowerOfTwo, Min

-----------------------------------------------------------------------------
(* The degree arithmetic.                                                  *)

\* A list of expressions with a degree.
Measured(es) == \E S : es \in Seq(S) /\ \A e \in S : e.deg \in Nat

MeasuredLookup(l) ==
    Measured(l.inputs) /\ l.sel.deg \in Nat /\ \A e \in ToSet(l.inputs) : e.deg > 0

\* A system whose degree can be computed.
Measurable(d) ==
    /\ d.minimum_degree \in Nat
    /\ \E S : d.gates \in Seq(S) /\ \A g \in S : Measured(g.polys)
    /\ \E S : d.trashcans \in Seq(S) /\ \A t \in S : Measured(t.exprs)
    /\ \E S : d.lookups \in Seq(S) /\ \A l \in S : Measured(l.inputs)
    /\ \A l \in ToSet(d.lookups) : MeasuredLookup(l)

\* The larger of two numbers.
LEMMA MaxOfPair ==
    ASSUME NEW a \in Nat, NEW b \in Nat
    PROVE  /\ Max({a, b}) \in Nat /\ a <= Max({a, b}) /\ b <= Max({a, b})
           /\ Max({a, b}) \in {a, b}
<1>1. PICK S : S = {a, b}  OBVIOUS
<1>2. PICK t \in Nat : t = a + b  OBVIOUS
<1>3. S \subseteq Nat /\ S # {} /\ \A n \in S : n <= t  BY <1>1, <1>2
<1>4. Max(S) \in S /\ Max(S) \in Nat /\ \A n \in S : n <= Max(S)
  BY <1>3, MaxOfBounded
<1>5. QED  BY <1>1, <1>4

\* The values an operator takes on a list, as a function, are bounded.
LEMMA ListBounded ==
    ASSUME NEW S, NEW list \in Seq(S), NEW f, \A e \in S : f[e] \in Nat
    PROVE  \E b \in Nat : \A e \in ToSet(list) : f[e] <= b
<1>1. PICK N \in Nat : N = Len(list)  OBVIOUS
<1>2. DOMAIN list = 1 .. N /\ \A i \in 1 .. N : list[i] \in S  BY <1>1
<1>3. PICK h : h = [i \in 1 .. N |-> f[list[i]]]  OBVIOUS
<1>4. \A i \in 1 .. N : h[i] \in Nat  BY <1>2, <1>3
<1>5. PICK b \in Nat : \A i \in 1 .. N : h[i] <= b  BY <1>4, ValuesBounded
<1>6. QED  BY <1>2, <1>3, <1>5 DEF ToSet

\* An expression list's degree is the largest of its expressions'.
LEMMA MaxDegreeIs ==
    ASSUME NEW es, Measured(es)
    PROVE  /\ MaxDegree(es) \in Nat
           /\ \A e \in ToSet(es) : e.deg \in Nat /\ e.deg <= MaxDegree(es)
<1>1. PICK S : es \in Seq(S) /\ \A e \in S : e.deg \in Nat  BY DEF Measured
<1>2. PICK f : f = [e \in S |-> e.deg]  OBVIOUS
<1>3. PICK b \in Nat : \A e \in ToSet(es) : f[e] <= b
  BY <1>1, <1>2, ListBounded
<1>4. PICK T : T = {0} \cup {e.deg : e \in ToSet(es)}  OBVIOUS
<1>5. ToSet(es) \subseteq S  BY <1>1 DEF ToSet
<1>6. \A e \in ToSet(es) : e.deg \in Nat /\ e.deg <= b
  BY <1>1, <1>2, <1>3, <1>5
<1>7. T \subseteq Nat /\ T # {} /\ \A n \in T : n <= b  BY <1>4, <1>6
<1>8. Max(T) \in Nat /\ \A n \in T : n <= Max(T)  BY <1>7, MaxOfBounded
<1>9. QED  BY <1>4, <1>6, <1>8 DEF MaxDegree

\* Every lookup has a positive degree: the number of lookups in a chunk is a
\* quotient by it.
LEMMA LookupDegreePositive ==
    ASSUME NEW l, MeasuredLookup(l)
    PROVE  LookupDegree(l) \in Nat /\ LookupDegree(l) > 0
<1>1. PICK es : es = l.inputs  OBVIOUS
<1>2. Measured(es) /\ \A e \in ToSet(es) : e.deg > 0  BY <1>1 DEF MeasuredLookup
<1>3. MaxDegree(es) \in Nat /\ \A e \in ToSet(es) : e.deg \in Nat /\ e.deg <= MaxDegree(es)
  BY <1>2, MaxDegreeIs
<1>4. CASE es = <<>>  BY <1>1, <1>4 DEF LookupDegree
<1>5. CASE es # <<>>
  <2>1. PICK S : es \in Seq(S)  BY <1>2 DEF Measured
  <2>2. es[1] \in ToSet(es)  BY <1>5, <2>1 DEF ToSet
  <2>3. MaxDegree(es) > 0
    <3>1. PICK m \in Nat : m = es[1].deg  BY <1>3, <2>2
    <3>2. m > 0 /\ m <= MaxDegree(es)  BY <1>2, <1>3, <2>2, <3>1
    <3>3. QED  BY <1>3, <3>2
  <2>4. QED  BY <1>1, <1>3, <1>5, <2>3 DEF LookupDegree
<1>6. QED  BY <1>4, <1>5

\* The degree a lookup asks for covers its accumulator and its helper identity,
\* and lies one above a power of two; at such a degree the helper fits.
LEMMA BatchedDegree ==
    ASSUME NEW l, MeasuredLookup(l), NEW d \in Nat, d > 0
    PROVE  /\ HelperDegree(l, d) \in Nat /\ AccumulatorDegree(l) \in Nat
           /\ DegreeBatchedArgument(l, d) \in Nat /\ DegreeBatchedArgument(l, d) > 0
           /\ HelperDegree(l, d) <= DegreeBatchedArgument(l, d)
           /\ AccumulatorDegree(l) <= DegreeBatchedArgument(l, d)
           /\ \E i \in Nat : DegreeBatchedArgument(l, d) - 1 = 2^i
           /\ (\E i \in Nat : d - 1 = 2^i) => HelperDegree(l, d) <= d
<1>1. PICK b \in Nat : b = LookupDegree(l) /\ b > 0  BY LookupDegreePositive
<1>2. d - 1 \in Nat  OBVIOUS
<1>3. PICK a \in Nat : a = NextPowerOfTwo(d - 1)  BY <1>2, NextPowerOfTwoIs
<1>4. PICK q \in Nat : q = a \div b  BY <1>1
<1>5. q * b \in Nat /\ q * b <= a
  <2>1. (a \div b) * b <= a  BY <1>1
  <2>2. q * b \in Nat  OBVIOUS
  <2>3. QED  BY <1>4, <2>1, <2>2
<1>6. PICK h \in Nat : h = HelperDegree(l, d) /\ h = 1 + q * b
  BY <1>1, <1>3, <1>4, <1>5 DEF HelperDegree, NbParallelLookupsPerChunk
<1>7. PICK s \in Nat : s = AccumulatorDegree(l) /\ s >= 3
  BY DEF AccumulatorDegree, MeasuredLookup
<1>8. PICK m \in Nat : m = Max({h, s}) /\ h <= m /\ s <= m  BY MaxOfPair
<1>9. m - 1 \in Nat  BY <1>7, <1>8
<1>10. PICK p \in Nat : p = NextPowerOfTwo(m - 1) /\ m - 1 <= p /\ \E i \in Nat : p = 2^i
  BY <1>9, NextPowerOfTwoIs
<1>11. DegreeBatchedArgument(l, d) = p + 1
  BY <1>6, <1>7, <1>8, <1>10 DEF DegreeBatchedArgument
<1>12. ASSUME \E i \in Nat : d - 1 = 2^i
       PROVE  h <= d
  <2>1. a = d - 1  BY <1>2, <1>3, <1>12, NextPowerOfTwoFixed
  <2>2. QED  BY <1>5, <1>6, <2>1
<1>13. h <= p + 1 /\ s <= p + 1 /\ p + 1 > 0 /\ (p + 1) - 1 = p  BY <1>8, <1>10
<1>14. QED  BY <1>6, <1>7, <1>10, <1>11, <1>12, <1>13

\* Before the lookups are counted, the degree covers the gates and the trash
\* arguments.
LEMMA WithoutLookup ==
    ASSUME NEW d, Measurable(d)
    PROVE  /\ DegreeWithoutLookup(d) \in Nat /\ DegreeWithoutLookup(d) > 0
           /\ \A g \in ToSet(d.gates) : /\ MaxDegree(g.polys) \in Nat
                                        /\ MaxDegree(g.polys) <= DegreeWithoutLookup(d)
           /\ \A t \in ToSet(d.trashcans) : /\ TrashDegree(t) \in Nat
                                            /\ TrashDegree(t) <= DegreeWithoutLookup(d)
<1>1. PICK G : d.gates \in Seq(G) /\ \A g \in G : Measured(g.polys)  BY DEF Measurable
<1>2. PICK T : d.trashcans \in Seq(T) /\ \A t \in T : Measured(t.exprs)  BY DEF Measurable
<1>3. PICK u \in Nat : u = d.minimum_degree  BY DEF Measurable
<1>4. \A g \in G : MaxDegree(g.polys) \in Nat  BY <1>1, MaxDegreeIs
<1>5. \A t \in T : TrashDegree(t) \in Nat
  <2> TAKE t \in T
  <2>1. PICK m \in Nat : m = MaxDegree(t.exprs)  BY <1>2, MaxDegreeIs
  <2>2. Max({2, m}) \in Nat  BY MaxOfPair
  <2>3. QED  BY <2>1, <2>2 DEF TrashDegree
<1>6. PICK b1 \in Nat : \A g \in ToSet(d.gates) : MaxDegree(g.polys) <= b1
  <2>1. PICK f : f = [g \in G |-> MaxDegree(g.polys)]  OBVIOUS
  <2>2. \A g \in G : f[g] = MaxDegree(g.polys) /\ f[g] \in Nat  BY <1>4, <2>1
  <2>3. ToSet(d.gates) \subseteq G  BY <1>1 DEF ToSet
  <2>4. \E b \in Nat : \A g \in ToSet(d.gates) : f[g] <= b  BY <1>1, <2>2, ListBounded
  <2>5. QED  BY <2>2, <2>3, <2>4
<1>7. PICK b2 \in Nat : \A t \in ToSet(d.trashcans) : TrashDegree(t) <= b2
  <2>1. PICK f : f = [t \in T |-> TrashDegree(t)]  OBVIOUS
  <2>2. \A t \in T : f[t] = TrashDegree(t) /\ f[t] \in Nat  BY <1>5, <2>1
  <2>3. ToSet(d.trashcans) \subseteq T  BY <1>2 DEF ToSet
  <2>4. \E b \in Nat : \A t \in ToSet(d.trashcans) : f[t] <= b  BY <1>2, <2>2, ListBounded
  <2>5. QED  BY <2>2, <2>3, <2>4
<1>8. /\ \A g \in ToSet(d.gates) : MaxDegree(g.polys) \in Nat
      /\ \A t \in ToSet(d.trashcans) : TrashDegree(t) \in Nat
  BY <1>1, <1>2, <1>4, <1>5 DEF ToSet
<1>9. PICK S : S = {3, u} \cup {TrashDegree(t) : t \in ToSet(d.trashcans)}
                          \cup {MaxDegree(g.polys) : g \in ToSet(d.gates)}
  OBVIOUS
<1>10. PICK b \in Nat : b = 3 + u + b1 + b2  OBVIOUS
<1>11. \A n \in S : n \in Nat /\ n <= b
  <2> SUFFICES ASSUME NEW n \in S
               PROVE  n \in Nat /\ n <= b
    OBVIOUS
  <2>1. CASE n \in {3, u}  BY <1>10, <2>1
  <2>2. CASE \E t \in ToSet(d.trashcans) : n = TrashDegree(t)
    <3>1. n \in Nat /\ n <= b2  BY <1>7, <1>8, <2>2
    <3>2. QED  BY <1>10, <3>1
  <2>3. CASE \E g \in ToSet(d.gates) : n = MaxDegree(g.polys)
    <3>1. n \in Nat /\ n <= b1  BY <1>6, <1>8, <2>3
    <3>2. QED  BY <1>10, <3>1
  <2>4. QED  BY <1>9, <2>1, <2>2, <2>3
<1>12. Max(S) \in Nat /\ \A n \in S : n <= Max(S)
  <2>1. S \subseteq Nat /\ S # {}  BY <1>9, <1>11
  <2>2. QED  BY <1>11, <2>1, MaxOfBounded
<1>13. DegreeWithoutLookup(d) = Max(S)  BY <1>3, <1>9 DEF DegreeWithoutLookup
<1>14. Max(S) > 0  BY <1>9, <1>12
<1>15. QED  BY <1>8, <1>9, <1>12, <1>13, <1>14

\* degree(): the one before the lookups, or what some lookup asks for then.
LEMMA DegreeIs ==
    ASSUME NEW d, Measurable(d)
    PROVE  /\ Degree(d) \in Nat /\ DegreeWithoutLookup(d) <= Degree(d)
           /\ \A l \in ToSet(d.lookups) :
                DegreeBatchedArgument(l, DegreeWithoutLookup(d)) <= Degree(d)
           /\ \/ Degree(d) = DegreeWithoutLookup(d)
              \/ \E l \in ToSet(d.lookups) :
                    Degree(d) = DegreeBatchedArgument(l, DegreeWithoutLookup(d))
<1>1. PICK d0 \in Nat : d0 = DegreeWithoutLookup(d) /\ d0 > 0  BY WithoutLookup
<1>2. PICK S : d.lookups \in Seq(S)  BY DEF Measurable
<1>3. PICK list : list = d.lookups  OBVIOUS
<1>4. \A l \in ToSet(list) : MeasuredLookup(l)  BY <1>3 DEF Measurable
<1>5. \A l \in ToSet(list) : DegreeBatchedArgument(l, d0) \in Nat  BY <1>1, <1>4, BatchedDegree
<1>6. PICK f : f = [l \in ToSet(list) |-> DegreeBatchedArgument(l, d0)]  OBVIOUS
<1>7. list \in Seq(ToSet(list))
  <2>1. list \in Seq(S)  BY <1>2, <1>3
  <2>2. QED  BY <2>1 DEF ToSet
<1>8. PICK b \in Nat : \A l \in ToSet(list) : f[l] <= b
  BY <1>5, <1>6, <1>7, ListBounded
<1>9. PICK T : T = {d0} \cup {DegreeBatchedArgument(l, d0) : l \in ToSet(list)}  OBVIOUS
<1>10. PICK t \in Nat : t = d0 + b  OBVIOUS
<1>11. \A n \in T : n \in Nat /\ n <= t
  <2> SUFFICES ASSUME NEW n \in T
               PROVE  n \in Nat /\ n <= t
    OBVIOUS
  <2>1. CASE n = d0  BY <1>10, <2>1
  <2>2. CASE \E l \in ToSet(list) : n = DegreeBatchedArgument(l, d0)
    <3>1. n \in Nat /\ n <= b  BY <1>5, <1>6, <1>8, <2>2
    <3>2. QED  BY <1>10, <3>1
  <2>3. QED  BY <1>9, <2>1, <2>2
<1>12. Max(T) \in T /\ Max(T) \in Nat /\ \A n \in T : n <= Max(T)
  <2>1. T \subseteq Nat /\ T # {}  BY <1>9, <1>11
  <2>2. QED  BY <1>11, <2>1, MaxOfBounded
<1>13. Degree(d) = Max(T)  BY <1>1, <1>3, <1>9 DEF Degree
<1>14. QED  BY <1>1, <1>3, <1>9, <1>12, <1>13

\* degree() covers every constraint.
LEMMA DegreeCovers ==
    ASSUME NEW d, Measurable(d)
    PROVE  /\ \A g \in ToSet(d.gates) : MaxDegree(g.polys) <= Degree(d)
           /\ \A t \in ToSet(d.trashcans) : TrashDegree(t) <= Degree(d)
           /\ \A l \in ToSet(d.lookups) :
                 /\ AccumulatorDegree(l) <= Degree(d)
                 /\ HelperDegree(l, Degree(d)) <= Degree(d)
<1>1. PICK d0 \in Nat : d0 = DegreeWithoutLookup(d) /\ d0 > 0  BY WithoutLookup
<1>2. PICK m \in Nat : m = Degree(d)  BY DegreeIs
<1>3. /\ d0 <= m
      /\ \A l \in ToSet(d.lookups) : DegreeBatchedArgument(l, d0) <= m
      /\ m = d0 \/ \E l \in ToSet(d.lookups) : m = DegreeBatchedArgument(l, d0)
  BY <1>1, <1>2, DegreeIs
<1>4. /\ \A g \in ToSet(d.gates) : MaxDegree(g.polys) \in Nat /\ MaxDegree(g.polys) <= d0
      /\ \A t \in ToSet(d.trashcans) : TrashDegree(t) \in Nat /\ TrashDegree(t) <= d0
  BY <1>1, WithoutLookup
<1>5. \A n \in Nat : n <= d0 => n <= m  BY <1>3
<1>6. \A l \in ToSet(d.lookups) : MeasuredLookup(l)  BY DEF Measurable
<1>7. ASSUME NEW l \in ToSet(d.lookups)
      PROVE  AccumulatorDegree(l) <= m /\ HelperDegree(l, m) <= m
  <2>1. PICK b \in Nat : b = DegreeBatchedArgument(l, d0)  BY <1>1, <1>6, BatchedDegree
  <2>2. PICK s \in Nat : s = AccumulatorDegree(l) /\ s <= b
    BY <1>1, <1>6, <2>1, BatchedDegree
  <2>3. b <= m  BY <1>3, <2>1
  <2>4. s <= m  BY <2>2, <2>3
  <2>5. HelperDegree(l, m) <= m
    <3>1. CASE m = d0
      <4>1. PICK h \in Nat : h = HelperDegree(l, d0) /\ h <= b
        BY <1>1, <1>6, <2>1, BatchedDegree
      <4>2. h <= m  BY <2>3, <4>1
      <4>3. QED  BY <3>1, <4>1, <4>2
    <3>2. CASE \E k \in ToSet(d.lookups) : m = DegreeBatchedArgument(k, d0)
      <4>1. PICK k \in ToSet(d.lookups) : m = DegreeBatchedArgument(k, d0)  BY <3>2
      <4>2. m > 0 /\ \E i \in Nat : m - 1 = 2^i
        BY <1>1, <1>6, <4>1, BatchedDegree
      <4>3. QED  BY <1>6, <4>2, BatchedDegree
    <3>3. QED  BY <1>3, <3>1, <3>2
  <2>6. QED  BY <2>2, <2>4, <2>5
<1>8. QED  BY <1>2, <1>4, <1>5, <1>7


-----------------------------------------------------------------------------
(* Gates and lookups.                                                      *)

\* After both passes of queries every cell of the inputs is listed.
LEMMA InputsQueried ==
    ASSUME NEW c, Sound(c), NEW inputs \in Seq(Input(c))
    PROVE  /\ QueryIndexed(c, inputs) \in Querying(c)
           /\ Sound(QueryIndexed(c, inputs))
           /\ \A n \in DOMAIN inputs : inputs[n].indexed =>
                Listed(QueryIndexed(c, inputs).queries, inputs[n].cell)
           /\ \A d \in Querying(c) :
                /\ QueryAll(d, inputs) \in Querying(c)
                /\ Sound(QueryAll(d, inputs))
                /\ Extends(d.queries, QueryAll(d, inputs).queries)
                /\ \A n \in DOMAIN inputs : Listed(QueryAll(d, inputs).queries, inputs[n].cell)
<1>1. Len(inputs) \in Nat /\ DOMAIN inputs = 1 .. Len(inputs)
  OBVIOUS
<1>2. c \in Systems /\ Counted(c)
  BY DEF Sound
<1>3. \A n \in 1 .. Len(inputs) : inputs[n].cell \in CellsOf(c)
  <2>1. \A n \in 1 .. Len(inputs) : inputs[n] \in Input(c)
    BY <1>1
  <2>2. QED  BY <2>1 DEF Input
<1>4. /\ QueryIndexed(c, inputs) \in Querying(c)
      /\ \A n \in {m \in DOMAIN inputs : inputs[m].indexed} \cap 1 .. Len(inputs) :
            Listed(QueryIndexed(c, inputs).queries, inputs[n].cell)
  BY <1>1, <1>2, <1>3, QueryEachKeeps DEF QueryIndexed
<1>5. ASSUME NEW d \in Querying(c)
      PROVE  /\ QueryAll(d, inputs) \in Querying(c)
             /\ Sound(QueryAll(d, inputs))
             /\ Extends(d.queries, QueryAll(d, inputs).queries)
             /\ \A n \in DOMAIN inputs : Listed(QueryAll(d, inputs).queries, inputs[n].cell)
  <2>1. d \in Systems /\ Counted(d)
    BY DEF Querying, Counted
  <2>2. CellsOf(d) = CellsOf(c)
    BY DEF CellsOf, Querying
  <2>3. /\ QueryAll(d, inputs) \in Querying(d)
        /\ \A n \in DOMAIN inputs \cap 1 .. Len(inputs) :
              Listed(QueryAll(d, inputs).queries, inputs[n].cell)
    BY <1>1, <1>3, <2>1, <2>2, QueryEachKeeps DEF QueryAll
  <2>4. QueryAll(d, inputs) \in Querying(c)
    BY <1>2, <2>3, QueryingTransitive
  <2>5. Extends(d.queries, QueryAll(d, inputs).queries)
    BY <2>3 DEF Querying
  <2>6. QED  BY <1>1, <2>3, <2>4, <2>5, QueryingSound
<1>6. Sound(QueryIndexed(c, inputs))
  BY <1>4, QueryingSound
<1>7. QED  BY <1>1, <1>4, <1>5, <1>6

\* Multiplying a stored expression by a selector.
LEMMA MultipliedBySelector ==
    ASSUME NEW d, NEW e \in Exprs, ReadsResolve(d, e),
           NEW n \in Nat, e.sels \in Seq(1 .. n), NEW s \in 1 .. n,
           NEW p, p = [e EXCEPT !.sels = <<s>> \o @, !.deg = @ + 1]
    PROVE  p \in Exprs /\ ReadsResolve(d, p) /\ p.sels \in Seq(1 .. n)
<1>1. e.sels \in Seq(Nat \ {0}) /\ e.deg \in Nat /\ e.cells \in Seq(Reads)
  BY DEF Exprs
<1>2. PICK sels : sels = <<s>> \o e.sels  OBVIOUS
<1>3. sels \in Seq(1 .. n)
  <2>1. <<s>> \in Seq(1 .. n)  OBVIOUS
  <2>2. QED  BY <1>2, <2>1
<1>4. sels \in Seq(Nat \ {0})
  <2>1. s \in Nat \ {0}  OBVIOUS
  <2>2. <<s>> \in Seq(Nat \ {0})  BY <2>1
  <2>3. QED  BY <1>1, <1>2, <2>2
<1>5. PICK deg \in Nat : deg = e.deg + 1  BY <1>1
<1>6. p = [e EXCEPT !.sels = sels, !.deg = deg]
  BY <1>2, <1>5
<1>7. p \in Exprs /\ p.sels = sels /\ p.cells = e.cells
  BY <1>1, <1>4, <1>6 DEF Exprs
<1>8. QED  BY <1>3, <1>7 DEF ReadsResolve

\* The constraints of a gate, as they are stored.
LEMMA SelectorListType ==
    ASSUME NEW c, Sound(c), NEW inputs \in Seq(Input(c)), NEW s \in 0 .. c.num_selectors
    PROVE  (IF s = 0 THEN SelectorsOf(inputs) ELSE Append(SelectorsOf(inputs), s))
                \in Seq(1 .. c.num_selectors)
<1>1. PICK n \in Nat : n = c.num_selectors  BY DEF Sound, Systems
<1>2. Len(inputs) \in Nat /\ \A m \in 1 .. Len(inputs) : inputs[m] \in Input(c)
  OBVIOUS
<1>3. \A m \in 1 .. Len(inputs) : inputs[m].q \in 0 .. n
  BY <1>1, <1>2 DEF Input
<1>4. PICK inner \in Seq(1 .. n) : inner = SelectorsOf(inputs)
  BY <1>2, <1>3, SelectorsOfType
<1>5. ASSUME s # 0
      PROVE  Append(inner, s) \in Seq(1 .. n)
  <2>1. s \in 1 .. n  BY <1>1, <1>5
  <2>2. QED  BY <1>4, <2>1
<1>6. QED  BY <1>1, <1>4, <1>5

\* create_gate leaves the system sound.
LEMMA GateCreated ==
    ASSUME NEW c, Sound(c), NEW inputs \in Seq(Input(c)), NEW s \in 0 .. c.num_selectors
    PROVE  Sound(CreateGate(c, s, inputs))
<1>1. PICK d : d = QueryAll(QueryIndexed(c, inputs), inputs)  OBVIOUS
<1>2. /\ d \in Querying(c) /\ Sound(d)
      /\ \A i \in DOMAIN inputs : Listed(d.queries, inputs[i].cell)
  BY <1>1, InputsQueried
<1>3. /\ c \in Systems /\ d.num_selectors = c.num_selectors
      /\ d.selector_flags = c.selector_flags /\ Len(c.selector_flags) = c.num_selectors
  BY <1>2 DEF Sound, Querying, SameButQueries
<1>4. PICK n \in Nat : n = c.num_selectors  BY <1>3 DEF Systems
<1>5. PICK sels \in Seq(1 .. n) :
         sels = IF s = 0 THEN SelectorsOf(inputs) ELSE Append(SelectorsOf(inputs), s)
  BY <1>4, SelectorListType
<1> DEFINE poly(p) == LET e == Stored(d, p, TRUE) IN
                      IF s = 0 THEN e ELSE [e EXCEPT !.sels = <<s>> \o @, !.deg = @ + 1]
<1>6. ASSUME NEW i \in DOMAIN inputs
      PROVE  /\ poly(inputs[i]) \in Exprs
             /\ ReadsResolve(d, poly(inputs[i]))
             /\ poly(inputs[i]).sels \in Seq(1 .. n)
  <2>1. inputs[i] \in Input(c)  OBVIOUS
  <2>2. PICK e : e = Stored(d, inputs[i], TRUE)  OBVIOUS
  <2>3. e \in Exprs /\ ReadsResolve(d, e) /\ e.sels \in Seq(1 .. n)
    BY <1>2, <1>3, <1>4, <2>1, <2>2, StoredResolves
  <2>4. CASE s = 0  BY <2>2, <2>3, <2>4
  <2>5. CASE s # 0
    <3>1. s \in 1 .. n  BY <1>4, <2>5
    <3>2. poly(inputs[i]) = [e EXCEPT !.sels = <<s>> \o @, !.deg = @ + 1]
      BY <2>2, <2>5
    <3> HIDE DEF poly
    <3>3. QED  BY <2>3, <3>1, <3>2, MultipliedBySelector
  <2>6. QED  BY <2>4, <2>5
<1>7. PICK polys : polys = [i \in DOMAIN inputs |-> poly(inputs[i])]  OBVIOUS
<1>8. CreateGate(c, s, inputs)
        = [d EXCEPT !.gates = Append(@, [selectors |-> Tagged(c, sels), polys |-> polys])]
  BY <1>1, <1>5, <1>7 DEF CreateGate
<1> HIDE DEF poly
<1>9. polys \in Seq(Exprs) /\ \A e \in ToSet(polys) : ReadsResolve(d, e) /\ e.sels \in Seq(1 .. n)
  <2>1. PICK m \in Nat : DOMAIN inputs = 1 .. m  OBVIOUS
  <2>2. polys \in [1 .. m -> Exprs]  BY <1>6, <1>7, <2>1
  <2>3. polys \in Seq(Exprs)  BY <2>2
  <2>4. \A e \in ToSet(polys) : \E i \in DOMAIN inputs : e = poly(inputs[i])
    BY <1>7 DEF ToSet
  <2>5. QED  BY <1>6, <2>3, <2>4
<1>10. PICK tagged : tagged = Tagged(c, sels)  OBVIOUS
<1>11. /\ tagged \in Seq(Selectors)
       /\ \A t \in ToSet(tagged) :
            t.index \in 1 .. n /\ t.simple = c.selector_flags[t.index].simple
  BY <1>3, <1>4, <1>10, TaggedType
<1>12. PICK g : g = [selectors |-> tagged, polys |-> polys]  OBVIOUS
<1>13. g \in Gates /\ g.selectors = tagged /\ g.polys = polys
  BY <1>9, <1>11, <1>12 DEF Gates
<1>14. Sound([d EXCEPT !.gates = Append(@, g)])
  BY <1>2, <1>3, <1>4, <1>9, <1>11, <1>13, GateAdded
<1>15. QED  BY <1>8, <1>10, <1>12, <1>14

\* The constraints with an additive selector leave an argument of their own and
\* a gate without constraints.
LEMMA AdditiveGateCreated ==
    ASSUME NEW c, Sound(c), NEW inputs \in Seq(Input(c)), NEW s \in 1 .. c.num_selectors
    PROVE  Sound(CreateAdditiveGate(c, s, inputs))
<1>1. PICK d : d = QueryIndexed(c, inputs)  OBVIOUS
<1>2. /\ d \in Querying(c) /\ Sound(d)
      /\ \A i \in DOMAIN inputs : inputs[i].indexed => Listed(d.queries, inputs[i].cell)
  BY <1>1, InputsQueried
<1>3. /\ c \in Systems /\ d \in Systems /\ d.num_selectors = c.num_selectors
      /\ d.selector_flags = c.selector_flags /\ Len(c.selector_flags) = c.num_selectors
  BY <1>2 DEF Sound, Querying, SameButQueries
<1>4. PICK n \in Nat : n = c.num_selectors  BY <1>3 DEF Systems
<1>5. PICK sels \in Seq(1 .. n) : sels = Append(SelectorsOf(inputs), s)
  <2>1. s \in 0 .. c.num_selectors /\ s # 0  BY <1>4
  <2>2. QED  BY <1>4, <2>1, SelectorListType
<1>6. PICK exprs : exprs = [i \in DOMAIN inputs |-> Stored(d, inputs[i], inputs[i].indexed)]
  OBVIOUS
<1>7. /\ exprs \in Seq(Exprs)
      /\ \A e \in ToSet(exprs) : StoredReadsResolve(d, e) /\ e.sels \in Seq(1 .. n)
  <2>1. PICK m \in Nat : DOMAIN inputs = 1 .. m  OBVIOUS
  <2>2. ASSUME NEW i \in 1 .. m
        PROVE  /\ Stored(d, inputs[i], inputs[i].indexed) \in Exprs
               /\ StoredReadsResolve(d, Stored(d, inputs[i], inputs[i].indexed))
               /\ Stored(d, inputs[i], inputs[i].indexed).sels \in Seq(1 .. n)
    <3>1. inputs[i] \in Input(c)  BY <2>1
    <3>2. inputs[i].indexed \in BOOLEAN  BY <3>1 DEF Input
    <3>3. QED  BY <1>2, <1>3, <1>4, <2>1, <3>1, <3>2, StoredResolves
  <2>3. exprs \in [1 .. m -> Exprs]  BY <1>6, <2>1, <2>2
  <2>4. exprs \in Seq(Exprs)  BY <2>3
  <2>5. \A e \in ToSet(exprs) :
           \E i \in 1 .. m : e = Stored(d, inputs[i], inputs[i].indexed)
    BY <1>6, <2>1 DEF ToSet
  <2>6. QED  BY <2>2, <2>4, <2>5
<1>8. PICK trash : trash = [sel |-> SelectorExpr(s), exprs |-> exprs]  OBVIOUS
<1>9. /\ trash \in Trashcans /\ trash.exprs = exprs
      /\ ReadsResolve(d, trash.sel) /\ trash.sel.sels \in Seq(1 .. n)
  <2>1. PICK sel : sel = SelectorExpr(s)  OBVIOUS
  <2>2. s \in 0 .. n  BY <1>4
  <2>3. sel \in Exprs /\ ReadsResolve(d, sel) /\ sel.sels \in Seq(1 .. n)
    BY <2>1, <2>2, SelectorExprType
  <2>4. trash.sel = sel /\ trash.exprs = exprs  BY <1>8, <2>1
  <2>5. trash \in Trashcans  BY <1>7, <1>8, <2>1, <2>3 DEF Trashcans
  <2>6. QED  BY <2>3, <2>4, <2>5
<1>10. PICK trashcans : trashcans = Append(d.trashcans, trash)
  OBVIOUS
<1>11. PICK e : e = [d EXCEPT !.trashcans = trashcans]  OBVIOUS
<1>12. Sound(e) /\ e.gates = d.gates
  <2>1. Sound([d EXCEPT !.trashcans = Append(@, trash)])
    BY <1>2, <1>3, <1>4, <1>7, <1>9, TrashAdded
  <2>2. Sound(e)  BY <1>10, <1>11, <2>1
  <2>3. e.gates = d.gates  BY <1>3, <1>11 DEF Systems
  <2>4. QED  BY <2>2, <2>3
<1>13. /\ e.queries = d.queries /\ e.num_advice_queries = d.num_advice_queries
       /\ e.advice_column_phase = d.advice_column_phase
       /\ e.challenge_phase = d.challenge_phase /\ e.num_selectors = d.num_selectors
       /\ e.selector_flags = d.selector_flags /\ e.permutation = d.permutation
       /\ e.lookups = d.lookups
  BY <1>3, <1>11 DEF Systems
<1>15. PICK tagged : tagged = Tagged(c, sels)  OBVIOUS
<1>16. /\ tagged \in Seq(Selectors)
       /\ \A t \in ToSet(tagged) :
            t.index \in 1 .. n /\ t.simple = c.selector_flags[t.index].simple
  BY <1>3, <1>4, <1>15, TaggedType
<1>17. PICK g : g = [selectors |-> tagged, polys |-> <<>>]  OBVIOUS
<1>18. g \in Gates /\ g.selectors = tagged /\ g.polys = <<>> /\ ToSet(g.polys) = {}
  BY <1>16, <1>17 DEF Gates, ToSet
<1>19. Sound([e EXCEPT !.gates = Append(@, g)])
  BY <1>3, <1>4, <1>12, <1>13, <1>16, <1>18, GateAdded
<1>20. CreateAdditiveGate(c, s, inputs)
         = [d EXCEPT !.trashcans = trashcans, !.gates = Append(d.gates, g)]
  BY <1>1, <1>5, <1>6, <1>8, <1>10, <1>15, <1>17 DEF CreateAdditiveGate
<1>21. PICK gates : gates = Append(d.gates, g)  OBVIOUS
<1>22. [e EXCEPT !.gates = gates] = [d EXCEPT !.trashcans = trashcans, !.gates = gates]
  BY <1>3, <1>11 DEF Systems
<1>23. [e EXCEPT !.gates = Append(@, g)] = [e EXCEPT !.gates = gates]
  BY <1>12, <1>21
<1>24. QED  BY <1>19, <1>20, <1>21, <1>22, <1>23, Zenon

\* So does a lookup of parallel inputs.
LEMMA LookupCreated ==
    ASSUME NEW c, Sound(c), NEW inputs \in Seq(Input(c)), NEW s \in 0 .. c.num_selectors,
           NEW column \in Nat
    PROVE  Sound(BatchedLookup(c, s, inputs, column))
<1>1. PICK t : t = Cell("fixed", column, 0)  OBVIOUS
<1>2. t \in CellsOf(c) /\ t \in CellSet
  BY <1>1 DEF Cell, CellsOf, CellSet, Kinds
<1>3. PICK c1 : c1 = QueryAny(QueryIndexed(c, inputs), t)  OBVIOUS
<1>4. c1 \in Querying(c) /\ Listed(c1.queries, t)
  <2>1. QueryIndexed(c, inputs) \in Querying(c) /\ c \in Systems
    BY InputsQueried DEF Sound
  <2>2. QED  BY <1>2, <1>3, <2>1, QueryAnyKeeps
<1>5. PICK d : d = QueryAll(c1, inputs)  OBVIOUS
<1>6. /\ d \in Querying(c) /\ Sound(d) /\ Extends(c1.queries, d.queries)
      /\ \A i \in DOMAIN inputs : Listed(d.queries, inputs[i].cell)
  BY <1>4, <1>5, InputsQueried
<1>7. /\ c \in Systems /\ d \in Systems /\ d.num_selectors = c.num_selectors
  BY <1>6 DEF Sound, Querying, SameButQueries
<1>8. PICK n \in Nat : n = c.num_selectors  BY <1>7 DEF Systems
<1>9. d.queries \in [Kinds -> Seq(Nat \X Int)] /\ c1.queries \in [Kinds -> Seq(Nat \X Int)]
  BY <1>4, <1>7 DEF Querying, Systems
<1>10. Listed(d.queries, t)
  BY <1>2, <1>4, <1>6, <1>9, ListedKept
<1>11. /\ QueryIndex(d, t) \in DOMAIN d.queries[t.kind]
       /\ d.queries[t.kind][QueryIndex(d, t)] = <<t.col, t.rot>>
  BY <1>2, <1>9, <1>10, QueryIndexFound
<1>12. PICK table : table = [cell |-> t, index |-> QueryIndex(d, t)]  OBVIOUS
<1>13. table \in Reads /\ Resolves(d, table)
  <2>1. t.kind \in Kinds  BY <1>2 DEF CellSet
  <2>2. PICK list \in Seq(Nat \X Int) : list = d.queries[t.kind]  BY <1>9, <2>1
  <2>3. DOMAIN list = 1 .. Len(list) /\ Len(list) \in Nat  OBVIOUS
  <2>4. QueryIndex(d, t) \in Nat  BY <1>11, <2>2, <2>3
  <2>5. QED  BY <1>2, <1>11, <1>12, <2>4 DEF Reads, Resolves
<1>14. PICK exprs : exprs = [i \in DOMAIN inputs |-> Stored(d, inputs[i], TRUE)]
  OBVIOUS
<1>15. ASSUME NEW i \in DOMAIN inputs
       PROVE  /\ Stored(d, inputs[i], TRUE) \in Exprs
              /\ ReadsResolve(d, Stored(d, inputs[i], TRUE))
              /\ Stored(d, inputs[i], TRUE).sels \in Seq(1 .. n)
              /\ Stored(d, inputs[i], TRUE).deg > 0
  <2>1. inputs[i] \in Input(c)  OBVIOUS
  <2>2. QED  BY <1>6, <1>7, <1>8, <2>1, StoredResolves
<1>16. /\ exprs \in Seq(Exprs)
       /\ \A e \in ToSet(exprs) : ReadsResolve(d, e) /\ e.sels \in Seq(1 .. n) /\ e.deg > 0
  <2>1. PICK m \in Nat : DOMAIN inputs = 1 .. m  OBVIOUS
  <2>2. exprs \in [1 .. m -> Exprs]  BY <1>14, <1>15, <2>1
  <2>3. exprs \in Seq(Exprs)  BY <2>2
  <2>4. \A e \in ToSet(exprs) : \E i \in DOMAIN inputs : e = Stored(d, inputs[i], TRUE)
    BY <1>14 DEF ToSet
  <2>5. QED  BY <1>15, <2>3, <2>4
<1>17. PICK sel : sel = SelectorExpr(s)  OBVIOUS
<1>18. sel \in Exprs /\ ReadsResolve(d, sel) /\ sel.sels \in Seq(1 .. n)
  BY <1>8, <1>17, SelectorExprType
<1>19. PICK l : l = [sel |-> sel, inputs |-> exprs, table |-> table]  OBVIOUS
<1>20. l \in Lookups /\ l.sel = sel /\ l.inputs = exprs /\ l.table = table
  BY <1>13, <1>16, <1>18, <1>19 DEF Lookups
<1>21. Sound([d EXCEPT !.lookups = Append(@, l)])
  BY <1>6, <1>7, <1>8, <1>13, <1>16, <1>18, <1>20, LookupAdded
<1>22. BatchedLookup(c, s, inputs, column) = [d EXCEPT !.lookups = Append(@, l)]
  BY <1>1, <1>3, <1>5, <1>12, <1>14, <1>17, <1>19 DEF BatchedLookup
<1>23. QED  BY <1>21, <1>22

-----------------------------------------------------------------------------
(* The conversion of the selectors.                                        *)

\* The index a query is given is the one it is found at.
LEMMA QueryAnyIndex ==
    ASSUME NEW d \in Systems, NEW cell \in CellSet
    PROVE  /\ QueryAny(d, cell) \in Systems
           /\ [cell |-> cell, index |-> QueryIndex(d, cell)] \in Reads
           /\ Resolves(QueryAny(d, cell), [cell |-> cell, index |-> QueryIndex(d, cell)])
<1>1. d.queries \in [Kinds -> Seq(Nat \X Int)]  BY DEF Systems
<1>2. PICK kind \in Kinds : kind = cell.kind  BY DEF CellSet
<1>3. PICK list \in Seq(Nat \X Int) : list = d.queries[kind]  BY <1>1
<1>4. PICK q \in Nat \X Int : q = <<cell.col, cell.rot>>  BY DEF CellSet
<1>5. PICK e : e = QueryAny(d, cell)  OBVIOUS
<1>6. PICK index : index = QueryIndex(d, cell)  OBVIOUS
<1>7. e \in Systems /\ index \in Nat /\ index \in DOMAIN e.queries[kind]
      /\ e.queries[kind][index] = q
  <2>1. CASE Listed(d.queries, cell)
    <3>1. e = d  BY <1>5, <2>1 DEF QueryAny, Listed
    <3>2. index \in DOMAIN list /\ list[index] = q
      BY <1>1, <1>2, <1>3, <1>4, <1>6, <2>1, QueryIndexFound
    <3>3. DOMAIN list = 1 .. Len(list) /\ Len(list) \in Nat  OBVIOUS
    <3>4. QED  BY <1>3, <3>1, <3>2, <3>3
  <2>2. CASE ~Listed(d.queries, cell)
    <3>1. e = PushQuery(d, cell)  BY <1>5, <2>2 DEF QueryAny, Listed
    <3>2. e \in Systems /\ e.queries = AppendQuery(d.queries, cell)
      BY <3>1, PushQueryFields
    <3>3. e.queries[kind] = Append(list, q)
      BY <1>1, <1>2, <1>3, <1>4, <3>2 DEF AppendQuery
    <3>4. PICK n \in Nat : n = Len(list)  OBVIOUS
    <3>5. DOMAIN list = 1 .. n  BY <3>4
    <3>6. \A i \in 1 .. n : list[i] # q
      BY <1>2, <1>3, <1>4, <2>2, <3>4 DEF Listed, Contains
    <3>7. index = n + 1
      <4>1. {i \in 1 .. Len(list) : list[i] = <<cell.col, cell.rot>>} = {}
        BY <1>4, <3>4, <3>6
      <4>2. SelectInSeq(list, LAMBDA z : z = <<cell.col, cell.rot>>) = 0
        BY <4>1 DEF SelectInSeq
      <4>3. QED  BY <1>2, <1>3, <1>6, <3>4, <4>2 DEF QueryIndex
    <3>8. DOMAIN Append(list, q) = 1 .. n + 1  BY <3>4
    <3>9. Append(list, q)[n + 1] = q  BY <3>4
    <3>10. QED  BY <3>2, <3>3, <3>7, <3>8, <3>9
  <2>3. QED  BY <2>1, <2>2
<1>8. QED  BY <1>2, <1>4, <1>5, <1>6, <1>7 DEF Resolves, Reads

\* What a conversion has after n selectors: n more fixed columns, each of them
\* queried, and the flag of every simple selector pointing at its own.
Conversions == [cs : Systems, repl : Seq(Reads)]

PointedUpTo(n, base, old, new) ==
    /\ DOMAIN new = DOMAIN old
    /\ \A i \in DOMAIN old :
          /\ new[i].simple = old[i].simple
          /\ new[i].col = IF old[i].simple /\ i <= n THEN base + i ELSE 0

Converted(c, n, a) ==
    /\ a \in Conversions
    /\ Len(a.repl) = n
    /\ a.cs.num_fixed_columns = c.num_fixed_columns + n
    /\ a.cs.gates = c.gates /\ a.cs.lookups = c.lookups /\ a.cs.trashcans = c.trashcans
    /\ a.cs.permutation = c.permutation
    /\ a.cs.advice_column_phase = c.advice_column_phase
    /\ a.cs.challenge_phase = c.challenge_phase
    /\ a.cs.num_selectors = c.num_selectors
    /\ Counted(a.cs) /\ Extends(c.queries, a.cs.queries)
    /\ \A k \in 1 .. n : Resolves(a.cs, a.repl[k])
    /\ PointedUpTo(n, c.num_fixed_columns, c.selector_flags, a.cs.selector_flags)

\* Pointing a flag at its column leaves a list of flags.
LEMMA PointFlagType ==
    ASSUME NEW flags \in Seq(Flags), NEW i, NEW col \in Nat
    PROVE  PointFlag(flags, i, col) \in Seq(Flags)
<1>1. PICK n \in Nat : DOMAIN flags = 1 .. n /\ flags \in [1 .. n -> Flags]  OBVIOUS
<1>2. PICK flag \in Flags : flag = [simple |-> TRUE, col |-> col]  BY DEF Flags
<1>3. [flags EXCEPT ![i] = flag] \in [1 .. n -> Flags]
  <2>1. CASE i \in 1 .. n  BY <1>1, <2>1
  <2>2. CASE i \notin 1 .. n
    <3>1. [flags EXCEPT ![i] = flag] = flags  BY <1>1, <2>2
    <3>2. QED  BY <1>1, <3>1
  <2>3. QED  BY <2>1, <2>2
<1>4. QED  BY <1>2, <1>3 DEF PointFlag

\* What the conversion of one selector does, in named parts: d has the new
\* column, whose cell is queried next.
SelectorConverts(a, i, d, col, cell) ==
    /\ col = a.cs.num_fixed_columns + 1
    /\ cell = Cell("fixed", col, 0)
    /\ d.num_fixed_columns = col
    /\ d.selector_flags = IF a.cs.selector_flags[i].simple
                          THEN PointFlag(a.cs.selector_flags, i, col)
                          ELSE a.cs.selector_flags
    /\ d.queries = a.cs.queries /\ d.num_advice_queries = a.cs.num_advice_queries
    /\ d.gates = a.cs.gates /\ d.lookups = a.cs.lookups
    /\ d.trashcans = a.cs.trashcans
    /\ d.permutation = a.cs.permutation
    /\ d.advice_column_phase = a.cs.advice_column_phase
    /\ d.challenge_phase = a.cs.challenge_phase
    /\ d.num_selectors = a.cs.num_selectors
    /\ ConvertSelector(a, i)
         = [cs   |-> QueryAny(d, cell),
            repl |-> Append(a.repl, [cell |-> cell, index |-> QueryIndex(d, cell)])]

\* One conversion, taken apart.
LEMMA ConvertSelectorParts ==
    ASSUME NEW a \in Conversions, NEW i
    PROVE  \E d \in Systems, col \in Nat, cell \in CellSet : SelectorConverts(a, i, d, col, cell)
<1>1. PICK c \in Systems : c = a.cs  BY DEF Conversions
<1>2. PICK col \in Nat : col = c.num_fixed_columns + 1  BY DEF Systems
<1>3. PICK c1 : c1 = [c EXCEPT !.num_fixed_columns = col]  OBVIOUS
<1>4. c1 \in Systems /\ c1.num_fixed_columns = col /\ c1.selector_flags = c.selector_flags
  BY <1>3 DEF Systems
<1>5. /\ c1.queries = c.queries /\ c1.num_advice_queries = c.num_advice_queries
      /\ c1.gates = c.gates /\ c1.lookups = c.lookups
      /\ c1.trashcans = c.trashcans /\ c1.permutation = c.permutation
      /\ c1.advice_column_phase = c.advice_column_phase
      /\ c1.challenge_phase = c.challenge_phase /\ c1.num_selectors = c.num_selectors
  BY <1>3 DEF Systems
<1>6. PICK flags : flags = PointFlag(c.selector_flags, i, col)  OBVIOUS
<1>7. flags \in Seq(Flags)
  <2>1. c.selector_flags \in Seq(Flags)  BY DEF Systems
  <2>2. QED  BY <1>6, <2>1, PointFlagType
<1>8. PICK c2 : c2 = [c1 EXCEPT !.selector_flags = flags]  OBVIOUS
<1>9. c2 \in Systems /\ c2.num_fixed_columns = col /\ c2.selector_flags = flags
  BY <1>4, <1>7, <1>8 DEF Systems
<1>10. /\ c2.queries = c.queries /\ c2.num_advice_queries = c.num_advice_queries
       /\ c2.gates = c.gates /\ c2.lookups = c.lookups
       /\ c2.trashcans = c.trashcans /\ c2.permutation = c.permutation
       /\ c2.advice_column_phase = c.advice_column_phase
       /\ c2.challenge_phase = c.challenge_phase /\ c2.num_selectors = c.num_selectors
  BY <1>4, <1>5, <1>8 DEF Systems
<1>11. PICK d : d = IF c.selector_flags[i].simple THEN c2 ELSE c1  OBVIOUS
<1>12. PICK cell \in CellSet : cell = Cell("fixed", col, 0)
  <2>1. Cell("fixed", col, 0) \in CellSet  BY DEF Cell, CellSet, Kinds
  <2>2. QED  BY <2>1
<1>13. ConvertSelector(a, i)
         = [cs   |-> QueryAny(d, cell),
            repl |-> Append(a.repl, [cell |-> cell, index |-> QueryIndex(d, cell)])]
  <2>1. FixedColumn(a.cs) = c1  BY <1>1, <1>2, <1>3 DEF FixedColumn
  <2>2. [c1 EXCEPT !.selector_flags = PointFlag(@, i, c1.num_fixed_columns)] = c2
    BY <1>4, <1>6, <1>8
  <2>3. QED  BY <1>4, <1>11, <1>12, <2>1, <2>2 DEF ConvertSelector
<1>14. d \in Systems /\ d.num_fixed_columns = col
       /\ d.selector_flags = IF c.selector_flags[i].simple THEN flags ELSE c.selector_flags
  BY <1>4, <1>9, <1>11
<1>15. /\ d.queries = c.queries /\ d.num_advice_queries = c.num_advice_queries
       /\ d.gates = c.gates /\ d.lookups = c.lookups
       /\ d.trashcans = c.trashcans /\ d.permutation = c.permutation
       /\ d.advice_column_phase = c.advice_column_phase
       /\ d.challenge_phase = c.challenge_phase /\ d.num_selectors = c.num_selectors
  BY <1>5, <1>10, <1>11
<1>16. SelectorConverts(a, i, d, col, cell)
  BY <1>1, <1>2, <1>6, <1>12, <1>13, <1>14, <1>15 DEF SelectorConverts
<1>17. QED  BY <1>14, <1>16

\* A conversion gives a conversion, whatever it starts from.
LEMMA ConvertSelectorType ==
    ASSUME NEW a \in Conversions, NEW i
    PROVE  ConvertSelector(a, i) \in Conversions
<1>1. PICK d \in Systems, col \in Nat, cell \in CellSet : SelectorConverts(a, i, d, col, cell)
  BY ConvertSelectorParts
<1>2. QueryAny(d, cell) \in Systems /\ [cell |-> cell, index |-> QueryIndex(d, cell)] \in Reads
  BY QueryAnyIndex
<1>3. Append(a.repl, [cell |-> cell, index |-> QueryIndex(d, cell)]) \in Seq(Reads)
  <2>1. a.repl \in Seq(Reads)  BY DEF Conversions
  <2>2. QED  BY <1>2, <2>1, AppendToSet
<1>4. QED  BY <1>1, <1>2, <1>3 DEF SelectorConverts, Conversions

\* One more selector is converted.
LEMMA ConvertedStep ==
    ASSUME NEW c, Sound(c), NEW n \in Nat, n + 1 <= c.num_selectors,
           NEW a, Converted(c, n, a)
    PROVE  Converted(c, n + 1, ConvertSelector(a, n + 1))
<1>1. a \in Conversions /\ a.cs \in Systems /\ a.repl \in Seq(Reads) /\ Len(a.repl) = n
  BY DEF Converted, Conversions
<1>p. PICK d \in Systems, col \in Nat, cell \in CellSet :
         SelectorConverts(a, n + 1, d, col, cell)
  BY <1>1, ConvertSelectorParts
<1>2. /\ col = a.cs.num_fixed_columns + 1
      /\ cell = Cell("fixed", col, 0)
      /\ d.num_fixed_columns = col
      /\ d.selector_flags = IF a.cs.selector_flags[n + 1].simple
                            THEN PointFlag(a.cs.selector_flags, n + 1, col)
                            ELSE a.cs.selector_flags
      /\ d.queries = a.cs.queries /\ d.num_advice_queries = a.cs.num_advice_queries
      /\ d.gates = a.cs.gates /\ d.lookups = a.cs.lookups
      /\ d.trashcans = a.cs.trashcans
      /\ d.permutation = a.cs.permutation
      /\ d.advice_column_phase = a.cs.advice_column_phase
      /\ d.challenge_phase = a.cs.challenge_phase
      /\ d.num_selectors = a.cs.num_selectors
      /\ ConvertSelector(a, n + 1)
           = [cs   |-> QueryAny(d, cell),
              repl |-> Append(a.repl, [cell |-> cell, index |-> QueryIndex(d, cell)])]
  BY <1>p DEF SelectorConverts
<1>3. PICK b : b = ConvertSelector(a, n + 1)  OBVIOUS
<1>4. PICK e, read : e = QueryAny(d, cell) /\ read = [cell |-> cell, index |-> QueryIndex(d, cell)]
  OBVIOUS
<1>5. b.cs = e /\ b.repl = Append(a.repl, read)
  BY <1>2, <1>3, <1>4
<1>6. b \in Conversions
  BY <1>1, <1>3, ConvertSelectorType
<1>7. Counted(d)
  BY <1>2 DEF Converted, Counted
<1>8. cell \in CellsOf(d)
  BY <1>2 DEF CellsOf, Cell
<1>9. e \in Querying(d) /\ Extends(d.queries, e.queries)
  BY <1>4, <1>7, <1>8, QueryingReflexive, QueryAnyKeeps
<1>10. e \in Systems /\ SameButQueries(d, e) /\ Counted(e)
  BY <1>9 DEF Querying, Counted
<1>11. c.queries \in [Kinds -> Seq(Nat \X Int)] /\ d.queries \in [Kinds -> Seq(Nat \X Int)]
       /\ e.queries \in [Kinds -> Seq(Nat \X Int)]
  BY <1>10 DEF Systems, Sound
<1>12. Extends(c.queries, e.queries)
  <2>1. Extends(c.queries, d.queries)  BY <1>2 DEF Converted
  <2>2. QED  BY <1>9, <1>11, <2>1, ExtendsTransitive
<1>13. read \in Reads /\ Resolves(e, read)
  BY <1>4, QueryAnyIndex
<1>14. PICK repl \in Seq(Reads) : repl = a.repl  BY <1>1
<1>15. Len(b.repl) = n + 1 /\ \A k \in 1 .. n + 1 : Resolves(e, b.repl[k])
  <2>1. Len(repl) = n  BY <1>1, <1>14
  <2>2. Len(Append(repl, read)) = n + 1  BY <1>13, <2>1
  <2>3. \A k \in 1 .. n : Append(repl, read)[k] = repl[k] /\ repl[k] \in Reads
    BY <1>13, <2>1
  <2>4. Append(repl, read)[n + 1] = read  BY <1>13, <2>1
  <2>5. ASSUME NEW k \in 1 .. n
        PROVE  Resolves(e, repl[k])
    <3>1. Resolves(a.cs, repl[k])  BY <1>14 DEF Converted
    <3>2. Resolves(d, repl[k])  BY <1>2, <3>1 DEF Resolves
    <3>3. QED  BY <1>9, <1>11, <2>3, <3>2, ResolvesKept
  <2>6. QED  BY <1>5, <1>13, <1>14, <2>2, <2>3, <2>4, <2>5
<1>16. /\ c.num_fixed_columns \in Nat
       /\ a.cs.num_fixed_columns = c.num_fixed_columns + n
  BY DEF Sound, Systems, Converted
<1>17. e.num_fixed_columns = c.num_fixed_columns + (n + 1) /\ col = c.num_fixed_columns + (n + 1)
  <2>1. PICK base \in Nat : base = c.num_fixed_columns  BY <1>16
  <2>2. col = base + n + 1  BY <1>2, <1>16, <2>1
  <2>3. e.num_fixed_columns = col  BY <1>2, <1>10 DEF SameButQueries
  <2>4. QED  BY <2>1, <2>2, <2>3
<1>18. PointedUpTo(n + 1, c.num_fixed_columns, c.selector_flags, e.selector_flags)
  <2>1. PICK old \in Seq(Flags) : old = c.selector_flags  BY DEF Sound, Systems
  <2>2. PICK mid \in Seq(Flags) : mid = a.cs.selector_flags  BY <1>1 DEF Systems
  <2>3. PICK base \in Nat : base = c.num_fixed_columns  BY <1>16
  <2>4. /\ DOMAIN mid = DOMAIN old
        /\ \A i \in DOMAIN old :
              /\ mid[i].simple = old[i].simple
              /\ mid[i].col = IF old[i].simple /\ i <= n THEN base + i ELSE 0
    BY <2>1, <2>2, <2>3 DEF Converted, PointedUpTo
  <2>5. DOMAIN old \subseteq Nat /\ n + 1 \in DOMAIN old
    <3>1. Len(old) = c.num_selectors /\ c.num_selectors \in Nat
      BY <2>1 DEF Sound, Systems
    <3>2. QED  BY <3>1
  <2>6. \A i \in DOMAIN old : i <= n + 1 <=> i <= n \/ i = n + 1
    BY <2>5
  <2>7. e.selector_flags = IF mid[n + 1].simple THEN PointFlag(mid, n + 1, col) ELSE mid
    BY <1>2, <1>10, <2>2 DEF SameButQueries
  <2>8. CASE mid[n + 1].simple
    <3>1. PICK new : new = PointFlag(mid, n + 1, col)  OBVIOUS
    <3>2. /\ DOMAIN new = DOMAIN old
          /\ \A i \in DOMAIN old \ {n + 1} : new[i] = mid[i]
          /\ new[n + 1].simple = TRUE /\ new[n + 1].col = col
      BY <2>4, <2>5, <3>1 DEF PointFlag
    <3>3. old[n + 1].simple
      BY <2>4, <2>5, <2>8
    <3>4. ASSUME NEW i \in DOMAIN old
          PROVE  new[i].simple = old[i].simple
      <4>1. CASE i = n + 1
        <5>1. old[n + 1] \in Flags  BY <2>5
        <5>2. old[n + 1].simple \in BOOLEAN  BY <5>1 DEF Flags
        <5>3. QED  BY <3>2, <3>3, <4>1, <5>2, Zenon
      <4>2. CASE i # n + 1  BY <2>4, <3>2, <4>2
      <4>3. QED  BY <4>1, <4>2
    <3>5. ASSUME NEW i \in DOMAIN old
          PROVE  new[i].col = IF old[i].simple /\ i <= n + 1 THEN base + i ELSE 0
      <4>1. CASE i = n + 1  BY <1>17, <2>3, <2>6, <3>2, <3>3, <4>1
      <4>2. CASE i # n + 1  BY <2>4, <2>6, <3>2, <4>2
      <4>3. QED  BY <4>1, <4>2
    <3>6. e.selector_flags = new  BY <2>7, <2>8, <3>1
    <3>7. QED  BY <2>1, <2>3, <3>2, <3>4, <3>5, <3>6 DEF PointedUpTo
  <2>9. CASE ~mid[n + 1].simple
    <3>1. ~old[n + 1].simple  BY <2>4, <2>5, <2>9
    <3>2. \A i \in DOMAIN old : mid[i].col = IF old[i].simple /\ i <= n + 1 THEN base + i ELSE 0
      BY <2>4, <2>6, <3>1
    <3>3. e.selector_flags = mid  BY <2>7, <2>9
    <3>4. QED  BY <2>1, <2>3, <2>4, <3>2, <3>3 DEF PointedUpTo
  <2>10. QED  BY <2>8, <2>9
<1>19. /\ e.gates = c.gates /\ e.lookups = c.lookups
       /\ e.trashcans = c.trashcans /\ e.permutation = c.permutation
       /\ e.advice_column_phase = c.advice_column_phase
       /\ e.challenge_phase = c.challenge_phase /\ e.num_selectors = c.num_selectors
  BY <1>2, <1>10 DEF SameButQueries, Converted
<1>20. Converted(c, n + 1, b)
  BY <1>5, <1>6, <1>10, <1>12, <1>15, <1>17, <1>18, <1>19 DEF Converted
<1>21. QED  BY <1>3, <1>20

ConversionRun(c, upto) ==
    upto = [n \in 0 .. c.num_selectors |->
               IF n = 0 THEN [cs |-> c, repl |-> <<>>] ELSE ConvertSelector(upto[n - 1], n)]

\* Before the first selector nothing is converted.
LEMMA NothingConverted ==
    ASSUME NEW c, Sound(c)
    PROVE  Converted(c, 0, [cs |-> c, repl |-> <<>>])
<1>1. PICK a : a = [cs |-> c, repl |-> <<>>]  OBVIOUS
<1>2. a.cs = c /\ a.repl = <<>> /\ c \in Systems /\ a \in Conversions /\ Len(a.repl) = 0
  BY <1>1 DEF Conversions, Sound
<1>3. c.num_fixed_columns = c.num_fixed_columns + 0  BY <1>2 DEF Systems
<1>4. Counted(c) /\ Extends(c.queries, c.queries)
  BY <1>2, ExtendsReflexive DEF Sound, Systems
<1>5. PointedUpTo(0, c.num_fixed_columns, c.selector_flags, c.selector_flags)
  <2>1. PICK flags \in Seq(Flags) : flags = c.selector_flags  BY <1>2 DEF Systems
  <2>2. DOMAIN flags = 1 .. Len(flags) /\ Len(flags) \in Nat  OBVIOUS
  <2>3. \A i \in DOMAIN flags : ~(i <= 0)  BY <2>2
  <2>4. \A i \in DOMAIN flags : flags[i].col = 0  BY <2>1 DEF Sound, FlagsUnset
  <2>5. QED  BY <2>1, <2>3, <2>4 DEF PointedUpTo
<1>6. QED  BY <1>1, <1>2, <1>3, <1>4, <1>5 DEF Converted

\* Every selector is converted.
LEMMA EachConverted ==
    ASSUME NEW c, Sound(c)
    PROVE  Converted(c, c.num_selectors, ConvertEach(c))
<1>1. PICK N \in Nat : N = c.num_selectors  BY DEF Sound, Systems
<1>2. PICK base : base = [cs |-> c, repl |-> <<>>]  OBVIOUS
<1>3. Converted(c, 0, base) /\ base \in Conversions
  BY <1>2, NothingConverted DEF Converted
<1> DEFINE S == Conversions
           step == [z \in S \X (1 .. N) |-> ConvertSelector(z[1], z[2])]
           f == CHOOSE f : ConversionRun(c, f)
<1>4. IsStep(step, N, S)
  BY ConvertSelectorType DEF IsStep
<1>5. PICK g : IsRun(g, N, S, base, step)
  <2> HIDE DEF S, step
  <2>1. base \in S  BY <1>3 DEF S
  <2>2. QED  BY <1>4, <2>1, RecursiveFunction
<1>6. ConversionRun(c, g)
  <2> HIDE DEF S
  <2>1. \A n \in 0 .. N : g[n] = IF n = 0 THEN base ELSE ConvertSelector(g[n - 1], n)
    <3> SUFFICES ASSUME NEW n \in 0 .. N
                 PROVE  g[n] = IF n = 0 THEN base ELSE ConvertSelector(g[n - 1], n)
      OBVIOUS
    <3>1. CASE n = 0  BY <1>5, <3>1 DEF IsRun
    <3>2. CASE n # 0
      <4>1. n \in 1 .. N /\ n - 1 \in 0 .. N  BY <3>2
      <4>2. g[n - 1] \in S /\ g[n] = step[<<g[n - 1], n>>]
        <5> HIDE DEF step
        <5>1. QED  BY <1>5, <4>1 DEF IsRun
      <4>3. <<g[n - 1], n>> \in S \X (1 .. N)  BY <4>1, <4>2
      <4>4. step[<<g[n - 1], n>>] = ConvertSelector(g[n - 1], n)
        BY <4>3
      <4>5. QED  BY <3>2, <4>2, <4>4
    <3>3. QED  BY <3>1, <3>2
  <2>2. g = [n \in 0 .. N |-> g[n]]
    <3> HIDE DEF step
    <3>1. QED  BY <1>5 DEF IsRun
  <2>3. QED  BY <1>1, <1>2, <2>1, <2>2 DEF ConversionRun
<1>7. ConversionRun(c, f)
  BY <1>6
<1>8. ConvertEach(c) = f[N]
  BY <1>1 DEF ConvertEach, ConversionRun
<1> HIDE DEF f
<1>9. \A n \in 0 .. N : f[n] = IF n = 0 THEN base ELSE ConvertSelector(f[n - 1], n)
  BY <1>1, <1>2, <1>7 DEF ConversionRun
<1> DEFINE Good == {n \in Nat : n <= N => Converted(c, n, f[n])}
<1>10. 0 \in Good  BY <1>3, <1>9
<1>11. ASSUME NEW n \in Nat, n \in Good
       PROVE  n + 1 \in Good
  <2> SUFFICES ASSUME n + 1 <= N
               PROVE  Converted(c, n + 1, f[n + 1])
    OBVIOUS
  <2>1. Converted(c, n, f[n])  BY <1>11
  <2>2. f[n + 1] = ConvertSelector(f[n], n + 1)  BY <1>9
  <2>3. QED  BY <1>1, <2>1, <2>2, ConvertedStep
<1>12. N \in Good
  <2> HIDE DEF Good
  <2>1. QED  BY <1>10, <1>11, SetInduction
<1>13. QED  BY <1>1, <1>8, <1>12

\* An expression whose selectors are replaced still finds all its cells.
LEMMA ReplacedResolves ==
    ASSUME NEW d, NEW e \in Exprs, ReadsResolve(d, e),
           NEW n \in Nat, e.sels \in Seq(1 .. n),
           NEW repl \in Seq(Reads), Len(repl) = n, \A k \in 1 .. n : Resolves(d, repl[k])
    PROVE  ReadsResolve(d, ReplaceSelectors(e, repl))
<1>1. PICK cells \in Seq(Reads) : cells = e.cells  BY DEF Exprs
<1>2. PICK sels \in Seq(1 .. n) : sels = e.sels  OBVIOUS
<1>3. PICK own : own = [i \in DOMAIN sels |-> repl[sels[i]]]  OBVIOUS
<1>4. PICK p : p = ReplaceSelectors(e, repl)  OBVIOUS
<1>5. p.cells = cells \o own
  BY <1>1, <1>2, <1>3, <1>4 DEF ReplaceSelectors, Exprs
<1>6. PICK m \in Nat, k \in Nat : DOMAIN cells = 1 .. m /\ DOMAIN sels = 1 .. k
  OBVIOUS
<1>7. \A i \in 1 .. k : Resolves(d, own[i])
  <2>1. \A i \in 1 .. k : sels[i] \in 1 .. n  BY <1>6
  <2>2. QED  BY <1>3, <1>6, <2>1
<1>8. \A i \in 1 .. m : Resolves(d, cells[i])
  BY <1>1, <1>6 DEF ReadsResolve, ToSet
<1>9. /\ DOMAIN (cells \o own) = 1 .. m + k
      /\ \A i \in 1 .. m + k : (cells \o own)[i] = IF i <= m THEN cells[i] ELSE own[i - m]
  <2>1. \A i \in 1 .. k : repl[sels[i]] \in Reads
    <3>1. \A i \in 1 .. k : sels[i] \in 1 .. n  BY <1>6
    <3>2. QED  BY <3>1
  <2>2. own \in [1 .. k -> Reads]  BY <1>3, <1>6, <2>1
  <2>3. own \in Seq(Reads) /\ Len(own) = k  BY <2>2
  <2>4. Len(cells) = m  BY <1>6
  <2>5. /\ DOMAIN (cells \o own) = 1 .. Len(cells) + Len(own)
        /\ \A i \in 1 .. Len(cells) + Len(own) :
              (cells \o own)[i] = IF i <= Len(cells) THEN cells[i] ELSE own[i - Len(cells)]
    <3>1. own \in Seq(Reads)  BY <2>3
    <3>2. QED  BY <3>1
  <2>6. QED  BY <2>3, <2>4, <2>5, Zenon
<1>10. ASSUME NEW i \in 1 .. m + k
       PROVE  Resolves(d, (cells \o own)[i])
  <2>1. CASE i <= m  BY <1>8, <1>9, <2>1
  <2>2. CASE ~(i <= m)
    <3>1. i - m \in 1 .. k  BY <2>2
    <3>2. QED  BY <1>7, <1>9, <2>2, <3>1
  <2>3. QED  BY <2>1, <2>2
<1>11. QED  BY <1>4, <1>5, <1>9, <1>10 DEF ReadsResolve, ToSet

\* So does an expression that has some of its indices only.
LEMMA ReplacedStoredResolves ==
    ASSUME NEW d, NEW e \in Exprs, StoredReadsResolve(d, e),
           NEW n \in Nat, e.sels \in Seq(1 .. n),
           NEW repl \in Seq(Reads), Len(repl) = n, \A k \in 1 .. n : Resolves(d, repl[k])
    PROVE  StoredReadsResolve(d, ReplaceSelectors(e, repl))
<1>1. PICK cells \in Seq(Reads) : cells = e.cells  BY DEF Exprs
<1>2. PICK sels \in Seq(1 .. n) : sels = e.sels  OBVIOUS
<1>3. PICK own : own = [i \in DOMAIN sels |-> repl[sels[i]]]  OBVIOUS
<1>4. PICK k \in Nat : DOMAIN sels = 1 .. k /\ \A i \in 1 .. k : sels[i] \in 1 .. n
  <2>1. DOMAIN sels = 1 .. Len(sels) /\ Len(sels) \in Nat  OBVIOUS
  <2>2. \A i \in 1 .. Len(sels) : sels[i] \in 1 .. n  OBVIOUS
  <2>3. QED  BY <2>1, <2>2
<1>5. own \in [1 .. k -> Reads]  BY <1>3, <1>4
<1>6. own \in Seq(Reads)  BY <1>5
<1>7. \A read \in ToSet(own) : Resolves(d, read)
  BY <1>3, <1>4 DEF ToSet
<1>8. PICK p : p = ReplaceSelectors(e, repl)  OBVIOUS
<1>9. p.cells = cells \o own
  BY <1>1, <1>2, <1>3, <1>8 DEF ReplaceSelectors, Exprs
<1>10. ToSet(cells \o own) \subseteq ToSet(cells) \cup ToSet(own)
  <2> SUFFICES ASSUME NEW i \in DOMAIN (cells \o own)
               PROVE  (cells \o own)[i] \in ToSet(cells) \cup ToSet(own)
    BY DEF ToSet
  <2>1. PICK a \in Nat, b \in Nat : a = Len(cells) /\ b = Len(own)  BY <1>6
  <2>2. i \in 1 .. a + b /\ (cells \o own)[i] = IF i <= a THEN cells[i] ELSE own[i - a]
    BY <1>6, <2>1
  <2>3. CASE i <= a
    <3>1. i \in DOMAIN cells  BY <2>1, <2>2, <2>3
    <3>2. QED  BY <2>2, <2>3, <3>1 DEF ToSet
  <2>4. CASE ~(i <= a)
    <3>1. i - a \in 1 .. b  BY <2>2, <2>4
    <3>2. i - a \in DOMAIN own  BY <1>6, <2>1, <3>1
    <3>3. QED  BY <2>2, <2>4, <3>2 DEF ToSet
  <2>5. QED  BY <2>3, <2>4
<1>11. \A read \in ToSet(cells) : read.index # 0 => Resolves(d, read)
  BY <1>1 DEF StoredReadsResolve
<1>12. QED  BY <1>7, <1>8, <1>9, <1>10, <1>11 DEF StoredReadsResolve

\* The entries of a converted list are the conversions of its entries.
LEMMA ReplacedEntries ==
    ASSUME NEW es, NEW repl, NEW e \in ToSet(ReplaceAllSelectors(es, repl))
    PROVE  \E e0 \in ToSet(es) : e = ReplaceSelectors(e0, repl)
BY DEF ToSet, ReplaceAllSelectors

\* A gate lists each of its selectors by the fixed column the selector got.
SelectorsShifted(c, base, gates) ==
    \A g \in ToSet(gates) : \A s \in ToSet(g.selectors) :
        \E i \in 1 .. c.num_selectors :
            s.index = base + i /\ s.simple = c.selector_flags[i].simple

\* Replacing its selectors leaves an expression's degree.
LEMMA ReplacedMeasured ==
    ASSUME NEW es \in Seq(Exprs), NEW repl
    PROVE  /\ Measured(ReplaceAllSelectors(es, repl))
           /\ \A e \in ToSet(ReplaceAllSelectors(es, repl)) :
                \E e0 \in ToSet(es) : e.deg = e0.deg
<1>1. ASSUME NEW e \in Exprs
      PROVE  ReplaceSelectors(e, repl).deg = e.deg /\ e.deg \in Nat
  BY DEF ReplaceSelectors, Exprs
<1>2. PICK S : S = {ReplaceSelectors(e, repl) : e \in Exprs}  OBVIOUS
<1>3. PICK new : new = ReplaceAllSelectors(es, repl)  OBVIOUS
<1>4. PICK n \in Nat : DOMAIN es = 1 .. n /\ \A i \in 1 .. n : es[i] \in Exprs  OBVIOUS
<1>5. new = [i \in 1 .. n |-> ReplaceSelectors(es[i], repl)]
  BY <1>3, <1>4 DEF ReplaceAllSelectors
<1>6. new \in [1 .. n -> S]  BY <1>2, <1>4, <1>5
<1>7. new \in Seq(S)  BY <1>6
<1>8. \A e \in S : e.deg \in Nat  BY <1>1, <1>2
<1>9. ToSet(es) \subseteq Exprs  BY <1>4 DEF ToSet
<1>10. \A e \in ToSet(new) : \E e0 \in ToSet(es) : e = ReplaceSelectors(e0, repl)
  BY <1>3, ReplacedEntries
<1>11. \A e \in ToSet(new) : \E e0 \in ToSet(es) : e.deg = e0.deg
  BY <1>1, <1>9, <1>10
<1>12. QED  BY <1>3, <1>7, <1>8, <1>11 DEF Measured

\* The conversion leaves a system whose degree can be computed.
LEMMA ConvertedMeasurable ==
    ASSUME NEW c, Sound(c), NEW e \in Systems, e.lookups = c.lookups, NEW repl, NEW base,
           NEW d, d = ConvertArguments(e, repl, base)
    PROVE  Measurable(d)
<1>1. PICK G, L, T :
         /\ G = [i \in DOMAIN e.gates |-> ConvertGate(e.gates[i], repl, base)]
         /\ L = [i \in DOMAIN e.lookups |-> ConvertLookup(e.lookups[i], repl)]
         /\ T = [i \in DOMAIN e.trashcans |-> ConvertTrash(e.trashcans[i], repl)]
  OBVIOUS
<1>2. d = [e EXCEPT !.num_selectors = 0, !.gates = G, !.lookups = L, !.trashcans = T]
  BY <1>1 DEF ConvertArguments
<1>3. /\ d.gates = G /\ d.lookups = L /\ d.trashcans = T
      /\ d.minimum_degree = e.minimum_degree /\ e.minimum_degree \in Nat
  BY <1>2 DEF Systems
<1>4. PICK gates \in Seq(Gates), lookups \in Seq(Lookups), trashcans \in Seq(Trashcans) :
         gates = e.gates /\ lookups = e.lookups /\ trashcans = e.trashcans
  BY DEF Systems
<1>5. \E S : G \in Seq(S) /\ \A g \in S : Measured(g.polys)
  <2>1. PICK S : S = {ConvertGate(g, repl, base) : g \in Gates}  OBVIOUS
  <2>2. PICK n \in Nat : DOMAIN gates = 1 .. n /\ \A i \in 1 .. n : gates[i] \in Gates
    OBVIOUS
  <2>3. G \in [1 .. n -> S]  BY <1>1, <1>4, <2>1, <2>2
  <2>4. G \in Seq(S)  BY <2>3
  <2>5. ASSUME NEW g \in Gates
        PROVE  Measured(ConvertGate(g, repl, base).polys)
    <3>1. ConvertGate(g, repl, base).polys = ReplaceAllSelectors(g.polys, repl)
      BY DEF ConvertGate
    <3>2. g.polys \in Seq(Exprs)  BY DEF Gates
    <3>3. QED  BY <3>1, <3>2, ReplacedMeasured
  <2>6. \A g \in S : Measured(g.polys)  BY <2>1, <2>5
  <2>7. QED  BY <2>4, <2>6
<1>6. \E S : T \in Seq(S) /\ \A t \in S : Measured(t.exprs)
  <2>1. PICK S : S = {ConvertTrash(t, repl) : t \in Trashcans}  OBVIOUS
  <2>2. PICK n \in Nat : /\ DOMAIN trashcans = 1 .. n
                         /\ \A i \in 1 .. n : trashcans[i] \in Trashcans
    OBVIOUS
  <2>3. T \in [1 .. n -> S]  BY <1>1, <1>4, <2>1, <2>2
  <2>4. T \in Seq(S)  BY <2>3
  <2>5. ASSUME NEW t \in Trashcans
        PROVE  Measured(ConvertTrash(t, repl).exprs)
    <3>1. ConvertTrash(t, repl).exprs = ReplaceAllSelectors(t.exprs, repl)
      BY DEF ConvertTrash
    <3>2. t.exprs \in Seq(Exprs)  BY DEF Trashcans
    <3>3. QED  BY <3>1, <3>2, ReplacedMeasured
  <2>6. \A t \in S : Measured(t.exprs)  BY <2>1, <2>5
  <2>7. QED  BY <2>4, <2>6
<1>7. ASSUME NEW l \in Lookups
      PROVE  /\ Measured(ConvertLookup(l, repl).inputs)
             /\ ConvertLookup(l, repl).sel.deg \in Nat
             /\ \A x \in ToSet(ConvertLookup(l, repl).inputs) :
                    \E x0 \in ToSet(l.inputs) : x.deg = x0.deg
  <2>1. /\ ConvertLookup(l, repl).inputs = ReplaceAllSelectors(l.inputs, repl)
        /\ ConvertLookup(l, repl).sel = ReplaceSelectors(l.sel, repl)
    BY DEF ConvertLookup
  <2>2. l.inputs \in Seq(Exprs) /\ l.sel \in Exprs  BY DEF Lookups
  <2>3. ReplaceSelectors(l.sel, repl).deg \in Nat  BY <2>2 DEF ReplaceSelectors, Exprs
  <2>4. QED  BY <2>1, <2>2, <2>3, ReplacedMeasured
<1>8. PICK n \in Nat : DOMAIN lookups = 1 .. n /\ \A i \in 1 .. n : lookups[i] \in Lookups
  OBVIOUS
<1>9. \E S : L \in Seq(S) /\ \A l \in S : Measured(l.inputs)
  <2>1. PICK S : S = {ConvertLookup(l, repl) : l \in Lookups}  OBVIOUS
  <2>2. L \in [1 .. n -> S]  BY <1>1, <1>4, <1>8, <2>1
  <2>3. L \in Seq(S)  BY <2>2
  <2>4. \A l \in S : Measured(l.inputs)  BY <1>7, <2>1
  <2>5. QED  BY <2>3, <2>4
<1>10. ASSUME NEW l \in ToSet(L)
       PROVE  MeasuredLookup(l)
  <2>1. PICK i \in 1 .. n : l = ConvertLookup(lookups[i], repl)
    BY <1>1, <1>4, <1>8, <1>10 DEF ToSet
  <2>2. lookups[i] \in Lookups /\ lookups[i] \in ToSet(c.lookups)
    BY <1>4, <1>8 DEF ToSet
  <2>3. \A x \in ToSet(lookups[i].inputs) : x.deg > 0
    BY <2>2 DEF Sound, SelectorsUsed
  <2>4. \A x \in ToSet(l.inputs) : x.deg > 0
    <3> SUFFICES ASSUME NEW x \in ToSet(l.inputs)
                 PROVE  x.deg > 0
      OBVIOUS
    <3>1. PICK x0 \in ToSet(lookups[i].inputs) : x.deg = x0.deg  BY <1>7, <2>1, <2>2
    <3>2. QED  BY <2>3, <3>1
  <2>5. QED  BY <1>7, <2>1, <2>2, <2>4 DEF MeasuredLookup
<1>11. QED  BY <1>3, <1>5, <1>6, <1>9, <1>10 DEF Measurable

\* What is left of a sound system once its selectors are fixed columns.
Keyed(c, d) ==
    /\ Measurable(d)
    /\ AskedOnce(d.queries)
    /\ CountsExact(d.queries, d.num_advice_queries)
    /\ ArgumentsResolve(d)
    /\ PermutationQueried(d)
    /\ d.num_fixed_columns = c.num_fixed_columns + c.num_selectors
    /\ d.advice_column_phase = c.advice_column_phase
    /\ d.challenge_phase = c.challenge_phase
    /\ PointedUpTo(c.num_selectors, c.num_fixed_columns, c.selector_flags, d.selector_flags)
    /\ SelectorsShifted(c, c.num_fixed_columns, d.gates)

\* key generation leaves what Keyed says.
LEMMA SelectorsConverted ==
    ASSUME NEW c, Sound(c)
    PROVE  Keyed(c, ConvertSelectors(c))
<1>1. PICK a : a = ConvertEach(c) /\ Converted(c, c.num_selectors, a)
  BY EachConverted
<1>2. PICK n \in Nat : n = c.num_selectors  BY DEF Sound, Systems
<1>3. PICK base \in Nat : base = c.num_fixed_columns  BY DEF Sound, Systems
<1>4. PICK e \in Systems, repl \in Seq(Reads) : e = a.cs /\ repl = a.repl /\ Len(repl) = n
  BY <1>1, <1>2 DEF Converted, Conversions
<1>5. PICK G, L, T :
         /\ G = [i \in DOMAIN e.gates |-> ConvertGate(e.gates[i], repl, base)]
         /\ L = [i \in DOMAIN e.lookups |-> ConvertLookup(e.lookups[i], repl)]
         /\ T = [i \in DOMAIN e.trashcans |-> ConvertTrash(e.trashcans[i], repl)]
  OBVIOUS
<1>6. PICK d : d = [e EXCEPT !.num_selectors = 0, !.gates = G, !.lookups = L, !.trashcans = T]
  OBVIOUS
<1>7. ConvertSelectors(c) = d
  BY <1>1, <1>3, <1>4, <1>5, <1>6 DEF ConvertSelectors, ConvertArguments
<1>8. /\ d.gates = G /\ d.lookups = L /\ d.trashcans = T
      /\ d.queries = e.queries /\ d.num_advice_queries = e.num_advice_queries
      /\ d.permutation = e.permutation /\ d.num_fixed_columns = e.num_fixed_columns
      /\ d.advice_column_phase = e.advice_column_phase
      /\ d.challenge_phase = e.challenge_phase /\ d.selector_flags = e.selector_flags
  BY <1>6 DEF Systems
<1>9. /\ c \in Systems /\ ArgumentsResolve(c) /\ PermutationQueried(c) /\ SelectorsUsed(c)
      /\ Extends(c.queries, e.queries) /\ Counted(e)
      /\ e.gates = c.gates /\ e.lookups = c.lookups
      /\ e.trashcans = c.trashcans /\ e.permutation = c.permutation
      /\ e.num_fixed_columns = base + n
      /\ \A k \in 1 .. n : Resolves(e, repl[k])
  BY <1>1, <1>2, <1>3, <1>4 DEF Sound, Converted
<1>10. ArgumentsResolve(e) /\ PermutationQueried(e)
  BY <1>9, ArgumentsKept, PermutationKept
<1>11. /\ \A x : ReadsResolve(e, x) => ReadsResolve(d, x)
       /\ \A read : Resolves(e, read) => Resolves(d, read)
  BY <1>8 DEF ReadsResolve, Resolves
<1>12. c.gates \in Seq(Gates) /\ c.lookups \in Seq(Lookups)
  BY <1>9 DEF Systems
<1>13. ASSUME NEW x \in Exprs, ReadsResolve(e, x), x.sels \in Seq(1 .. n)
       PROVE  ReadsResolve(d, ReplaceSelectors(x, repl))
  BY <1>4, <1>9, <1>11, <1>13, ReplacedResolves
<1>14. ASSUME NEW g \in ToSet(G)
       PROVE  \E g0 \in ToSet(c.gates) : g = ConvertGate(g0, repl, base)
  BY <1>5, <1>9 DEF ToSet
<1>15. ASSUME NEW l \in ToSet(L)
       PROVE  \E l0 \in ToSet(c.lookups) : l = ConvertLookup(l0, repl)
  BY <1>5, <1>9 DEF ToSet
<1>16. ASSUME NEW g \in ToSet(G), NEW x \in ToSet(g.polys)
       PROVE  ReadsResolve(d, x)
  <2>1. PICK g0 \in ToSet(c.gates) : g = ConvertGate(g0, repl, base)  BY <1>14
  <2>2. x \in ToSet(ReplaceAllSelectors(g0.polys, repl))  BY <2>1 DEF ConvertGate
  <2>3. PICK x0 \in ToSet(g0.polys) : x = ReplaceSelectors(x0, repl)  BY <2>2, ReplacedEntries
  <2>4. g0 \in Gates  BY <1>12 DEF ToSet
  <2>5. x0 \in Exprs  BY <2>4 DEF Gates, ToSet
  <2>6. x0.sels \in Seq(1 .. n)  BY <1>2, <1>9 DEF SelectorsUsed
  <2>7. ReadsResolve(e, x0)  BY <1>9, <1>10 DEF ArgumentsResolve
  <2>8. QED  BY <1>13, <2>3, <2>5, <2>6, <2>7
<1>17. ASSUME NEW l \in ToSet(L)
       PROVE  /\ Resolves(d, l.table)
              /\ ReadsResolve(d, l.sel)
              /\ \A x \in ToSet(l.inputs) : ReadsResolve(d, x)
  <2>1. PICK l0 \in ToSet(c.lookups) : l = ConvertLookup(l0, repl)  BY <1>15
  <2>2. /\ l.table = l0.table /\ l.sel = ReplaceSelectors(l0.sel, repl)
        /\ l.inputs = ReplaceAllSelectors(l0.inputs, repl)
    BY <2>1 DEF ConvertLookup
  <2>3. l0 \in Lookups  BY <1>12 DEF ToSet
  <2>4. l0.sel \in Exprs /\ \A x \in ToSet(l0.inputs) : x \in Exprs
    BY <2>3 DEF Lookups, ToSet
  <2>5. /\ l0.sel.sels \in Seq(1 .. n)
        /\ \A x \in ToSet(l0.inputs) : x.sels \in Seq(1 .. n)
    BY <1>2, <1>9 DEF SelectorsUsed
  <2>6. /\ Resolves(e, l0.table) /\ ReadsResolve(e, l0.sel)
        /\ \A x \in ToSet(l0.inputs) : ReadsResolve(e, x)
    BY <1>9, <1>10 DEF ArgumentsResolve
  <2>7. Resolves(d, l.table) /\ ReadsResolve(d, l.sel)
    BY <1>11, <1>13, <2>2, <2>4, <2>5, <2>6
  <2>8. ASSUME NEW x \in ToSet(l.inputs)
        PROVE  ReadsResolve(d, x)
    <3>1. PICK x0 \in ToSet(l0.inputs) : x = ReplaceSelectors(x0, repl)
      BY <2>2, ReplacedEntries
    <3>2. QED  BY <1>13, <2>4, <2>5, <2>6, <3>1
  <2>9. QED  BY <2>7, <2>8
<1>t. ASSUME NEW t \in ToSet(T)
      PROVE  /\ ReadsResolve(d, t.sel)
             /\ \A x \in ToSet(t.exprs) : StoredReadsResolve(d, x)
  <2>1. PICK t0 \in ToSet(c.trashcans) : t = ConvertTrash(t0, repl)
    BY <1>5, <1>9 DEF ToSet
  <2>2. /\ t.sel = ReplaceSelectors(t0.sel, repl)
        /\ t.exprs = ReplaceAllSelectors(t0.exprs, repl)
    BY <2>1 DEF ConvertTrash
  <2>3. t0 \in Trashcans
    <3>1. c.trashcans \in Seq(Trashcans)  BY <1>9 DEF Systems
    <3>2. QED  BY <3>1 DEF ToSet
  <2>4. t0.sel \in Exprs /\ \A x \in ToSet(t0.exprs) : x \in Exprs
    BY <2>3 DEF Trashcans, ToSet
  <2>5. /\ t0.sel.sels \in Seq(1 .. n)
        /\ \A x \in ToSet(t0.exprs) : x.sels \in Seq(1 .. n)
    BY <1>2, <1>9 DEF SelectorsUsed
  <2>6. /\ ReadsResolve(e, t0.sel)
        /\ \A x \in ToSet(t0.exprs) : StoredReadsResolve(e, x)
    BY <1>9, <1>10 DEF ArgumentsResolve
  <2>7. ReadsResolve(d, t.sel)
    BY <1>13, <2>2, <2>4, <2>5, <2>6
  <2>8. ASSUME NEW x \in ToSet(t.exprs)
        PROVE  StoredReadsResolve(d, x)
    <3>1. PICK x0 \in ToSet(t0.exprs) : x = ReplaceSelectors(x0, repl)
      BY <2>2, ReplacedEntries
    <3>2. x0 \in Exprs /\ x0.sels \in Seq(1 .. n) /\ StoredReadsResolve(e, x0)
      BY <2>4, <2>5, <2>6
    <3>3. StoredReadsResolve(e, x)
      BY <1>4, <1>9, <3>1, <3>2, ReplacedStoredResolves
    <3>4. QED  BY <1>11, <3>3 DEF StoredReadsResolve
  <2>9. QED  BY <2>7, <2>8
<1>18. ArgumentsResolve(d)
  BY <1>8, <1>16, <1>17, <1>t DEF ArgumentsResolve
<1>19. PermutationQueried(d)
  BY <1>8, <1>10 DEF PermutationQueried
<1>20. SelectorsShifted(c, base, G)
  <2> SUFFICES ASSUME NEW g \in ToSet(G), NEW s \in ToSet(g.selectors)
               PROVE  \E i \in 1 .. n : s.index = base + i /\ s.simple = c.selector_flags[i].simple
    BY <1>2 DEF SelectorsShifted
  <2>1. PICK g0 \in ToSet(c.gates) : g = ConvertGate(g0, repl, base)  BY <1>14
  <2>2. s \in ToSet(ShiftSelectors(g0.selectors, base))  BY <2>1 DEF ConvertGate
  <2>3. PICK s0 \in ToSet(g0.selectors) : s.index = s0.index + base /\ s.simple = s0.simple
    <3>1. PICK list : list = g0.selectors  OBVIOUS
    <3>2. PICK i \in DOMAIN list : s = [index |-> list[i].index + base, simple |-> list[i].simple]
      BY <2>2, <3>1 DEF ToSet, ShiftSelectors
    <3>3. list[i] \in ToSet(list)  BY DEF ToSet
    <3>4. QED  BY <3>1, <3>2, <3>3, Zenon
  <2>4. s0.index \in 1 .. n /\ s0.simple = c.selector_flags[s0.index].simple
    BY <1>2, <1>9 DEF SelectorsUsed
  <2>5. QED  BY <2>3, <2>4
<1>21. /\ d.advice_column_phase = c.advice_column_phase /\ d.challenge_phase = c.challenge_phase
       /\ PointedUpTo(n, base, c.selector_flags, d.selector_flags)
  BY <1>1, <1>2, <1>3, <1>4, <1>8 DEF Converted
<1>m. Measurable(d)
  BY <1>1, <1>3, <1>4, <1>7, <1>9, ConvertedMeasurable DEF ConvertSelectors
<1>22. Keyed(c, d)
  BY <1>m, <1>2, <1>3, <1>8, <1>9, <1>18, <1>19, <1>20, <1>21 DEF Keyed, Counted
<1>23. QED  BY <1>7, <1>22

-----------------------------------------------------------------------------
(* The phases.                                                             *)

\* Below a phase that has a column every phase has one.
LEMMA NoGap ==
    ASSUME NEW c, c.advice_column_phase \in Seq(Nat), Contiguous(c), c.advice_column_phase # <<>>
    PROVE  \A phase \in Phases(c) : PhaseExists(c, phase)
<1>1. PICK s \in Seq(Nat) : s = c.advice_column_phase  OBVIOUS
<1>2. PICK S : S = {0} \cup ToSet(s)  OBVIOUS
<1>3. PICK m : m = CHOOSE x \in S : \A y \in S : x >= y  OBVIOUS
<1>4. m \in S /\ \A y \in S : m >= y
  BY <1>2, <1>3, LargestEntry
<1>5. Phases(c) = 0 .. m
  BY <1>1, <1>2, <1>3 DEF Phases, Max
<1>6. s[1] \in ToSet(s) /\ s[1] \in Nat /\ ToSet(s) \subseteq Nat
  BY <1>1 DEF ToSet
<1>7. m \in ToSet(s) /\ m \in Nat
  BY <1>2, <1>4, <1>6
<1>8. \A p : PhaseExists(c, p) <=> p \in ToSet(s)
  BY <1>1 DEF PhaseExists, Contains, ToSet
<1> DEFINE Good == {j \in Nat : j <= m => m - j \in ToSet(s)}
<1>9. 0 \in Good  BY <1>7
<1>10. ASSUME NEW j \in Nat, j \in Good
       PROVE  j + 1 \in Good
  <2> SUFFICES ASSUME j + 1 <= m
               PROVE  m - (j + 1) \in ToSet(s)
    OBVIOUS
  <2>1. m - j \in ToSet(s) /\ m - j > 0  BY <1>7, <1>10
  <2>2. (m - j) - 1 \in ToSet(s)
    BY <1>1, <1>8, <2>1 DEF Contiguous
  <2>3. (m - j) - 1 = m - (j + 1)  BY <1>7
  <2>4. QED  BY <2>2, <2>3
<1>11. Nat \subseteq Good
  <2> HIDE DEF Good
  <2>1. QED  BY <1>9, <1>10, SetInduction
<1>12. ASSUME NEW phase \in 0 .. m
       PROVE  phase \in ToSet(s)
  <2>1. PICK j \in Nat : j = m - phase  BY <1>7
  <2>2. j \in Good  BY <1>11
  <2>3. m - j = phase /\ j <= m  BY <1>7, <2>1
  <2>4. QED  BY <2>2, <2>3
<1>13. QED  BY <1>5, <1>8, <1>12

-----------------------------------------------------------------------------
(* The invariant of a configuration.                                       *)

\* The columns committed to in the verifying key of c.
FixedColumnsOf(c) ==
    [i \in 1 .. c.num_fixed_columns |-> <<"fixed", i>>]
        \o [i \in 1 .. c.num_selectors |-> <<"selector", i>>]

\* The system is sound until it is replaced by its verifying key's.
ConfigInv ==
    /\ stage # "vk" => Sound(cs)
    /\ stage = "vk" => \E c : /\ Sound(c)
                              /\ Keyed(c, cs)
                              /\ fixed_columns = FixedColumnsOf(c)

\* The empty system is sound.
LEMMA DefaultSound == Sound(Default)
<1>1. PICK c : c = Default  OBVIOUS
<1>2. PICK queries : queries = [k \in Kinds |-> <<>>]  OBVIOUS
<1>3. queries \in [Kinds -> Seq(Nat \X Int)] /\ \A k \in Kinds : queries[k] = <<>>
  BY <1>2
<1>4. /\ c.num_fixed_columns = 0 /\ c.num_instance_columns = 0
      /\ c.advice_column_phase = <<>> /\ c.num_advice_queries = <<>>
      /\ c.num_selectors = 0 /\ c.selector_flags = <<>> /\ c.challenge_phase = <<>>
      /\ c.queries = queries /\ c.permutation = <<>> /\ c.constants = <<>>
      /\ c.gates = <<>> /\ c.lookups = <<>> /\ c.trashcans = <<>> /\ c.minimum_degree = 0
  BY <1>1, <1>2 DEF Default
<1>5. c \in Systems
  <2>1. \A S : <<>> \in Seq(S)  OBVIOUS
  <2>2. c = [ num_fixed_columns    |-> 0,
              num_instance_columns |-> 0,
              advice_column_phase  |-> <<>>,
              num_advice_queries   |-> <<>>,
              num_selectors        |-> 0,
              selector_flags       |-> <<>>,
              challenge_phase      |-> <<>>,
              queries              |-> queries,
              permutation          |-> <<>>,
              constants            |-> <<>>,
              gates                |-> <<>>,
              lookups              |-> <<>>,
              trashcans            |-> <<>>,
              minimum_degree       |-> 0 ]
    BY <1>1, <1>2 DEF Default
  <2>3. QED  BY <1>3, <2>1, <2>2 DEF Systems
<1>6. ToSet(<<>>) = {} /\ DOMAIN <<>> = {} /\ Len(<<>>) = 0
  BY DEF ToSet
<1>7. Counted(c)
  BY <1>3, <1>4, <1>6 DEF Counted, AskedOnce, CountsExact, Known, Kinds
<1>8. ArgumentsResolve(c) /\ PermutationQueried(c) /\ SelectorsUsed(c) /\ FlagsUnset(c)
  BY <1>4, <1>6 DEF ArgumentsResolve, PermutationQueried, SelectorsUsed, FlagsUnset
<1>9. Contiguous(c)
  BY <1>4, <1>6 DEF Contiguous
<1>10. QED  BY <1>1, <1>4, <1>5, <1>6, <1>7, <1>8, <1>9 DEF Sound

\* The columns and expressions a circuit may name are those of its system.
LEMMA ColumnsNamed ==
    ASSUME Sound(cs), NEW col \in Columns
    PROVE  /\ col[1] \in Kinds /\ col[2] \in Nat
           /\ col[1] = "advice" => col[2] \in DOMAIN cs.num_advice_queries
<1>0. PICK kind \in Kinds : col \in {kind} \X (1 .. ColumnCount(kind))
  BY DEF Columns
<1>1. PICK i \in 1 .. ColumnCount(kind) : col = <<kind, i>>
  BY <1>0
<1>2. cs.num_fixed_columns \in Nat /\ cs.num_instance_columns \in Nat
      /\ cs.advice_column_phase \in Seq(Nat) /\ cs.num_advice_queries \in Seq(Nat)
      /\ Len(cs.num_advice_queries) = Len(cs.advice_column_phase)
  BY DEF Sound, Systems
<1>3. PICK counts \in Seq(Nat) : counts = cs.num_advice_queries  BY <1>2
<1>4. DOMAIN counts = 1 .. Len(counts) /\ Len(counts) \in Nat  OBVIOUS
<1>5. ColumnCount(kind) \in Nat
  BY <1>2, <1>3, <1>4 DEF ColumnCount, Kinds
<1>6. i \in Nat  BY <1>5
<1>7. kind = "advice" => i \in DOMAIN counts
  BY <1>2, <1>3, <1>4 DEF ColumnCount
<1>8. QED  BY <1>1, <1>3, <1>6, <1>7

\* The expressions a circuit may write now are those of its system.
LEMMA InputsNamed ==
    ASSUME Sound(cs), NEW inputs \in Inputs
    PROVE  inputs \in Seq(Input(cs))
<1> DEFINE R == [cell : Cells, indexed : BOOLEAN, q : 0 .. cs.num_selectors, d : Degrees]
<1>1. ASSUME NEW cell \in Cells
      PROVE  cell \in CellsOf(cs)
  <2>1. PICK col \in Columns, rot \in Rotations : cell = Cell(col[1], col[2], rot)
    BY DEF Cells
  <2>2. rot \in Int  BY ConfigurationAssumption DEF ConfigurationAssumption
  <2>3. /\ col[1] \in Kinds /\ col[2] \in Nat
        /\ col[1] = "advice" => col[2] \in DOMAIN cs.num_advice_queries
    BY ColumnsNamed
  <2>4. QED  BY <2>1, <2>2, <2>3 DEF Cell, CellsOf, CellSet
<1>2. \A r \in R : r \in Input(cs)
  BY <1>1, ConfigurationAssumption DEF ConfigurationAssumption, Input
<1>3. PICK m \in 0 .. MaxPolys : inputs \in [1 .. m -> R]
  BY DEF Inputs, BoundedSeq, SeqOf
<1>4. m \in Nat  BY ConfigurationAssumption DEF ConfigurationAssumption
<1> HIDE DEF R
<1>5. inputs \in [1 .. m -> Input(cs)]  BY <1>2, <1>3
<1>6. QED  BY <1>4, <1>5

-----------------------------------------------------------------------------
(* What the invariant says of the queries, the phases and the key.         *)

\* The invariant covers the queries,
LEMMA QueriesOfInv ==
    ASSUME ConfigInv
    PROVE  QueriesResolve
<1>1. /\ AskedOnce(cs.queries) /\ CountsExact(cs.queries, cs.num_advice_queries)
      /\ ArgumentsResolve(cs) /\ PermutationQueried(cs)
  <2>1. CASE stage # "vk"
    BY <2>1 DEF ConfigInv, Sound, Counted
  <2>2. CASE stage = "vk"
    <3>1. PICK c : Keyed(c, cs)  BY <2>2 DEF ConfigInv
    <3>2. QED  BY <3>1 DEF Keyed
  <2>3. QED  BY <2>1, <2>2
<1>2. QueriesDistinct
  BY <1>1 DEF QueriesDistinct, AskedOnce
<1>3. AdviceCountsExact
  BY <1>1 DEF AdviceCountsExact, CountsExact, Positions
<1>4. IndicesResolve
  BY <1>1 DEF IndicesResolve, ArgumentsResolve
<1>5. EqualityColumnsQueried
  BY <1>1 DEF EqualityColumnsQueried, PermutationQueried
<1>6. QED  BY <1>2, <1>3, <1>4, <1>5 DEF QueriesResolve

\* the phases,
LEMMA PhasesOfInv ==
    ASSUME ConfigInv
    PROVE  PhasesContiguous
<1>1. cs.advice_column_phase \in Seq(Nat) /\ Contiguous(cs)
  <2>1. CASE stage # "vk"
    BY <2>1 DEF ConfigInv, Sound, Systems
  <2>2. CASE stage = "vk"
    <3>1. PICK c : Sound(c) /\ Keyed(c, cs)  BY <2>2 DEF ConfigInv
    <3>2. /\ cs.advice_column_phase = c.advice_column_phase
          /\ cs.challenge_phase = c.challenge_phase
      BY <3>1 DEF Keyed
    <3>3. c.advice_column_phase \in Seq(Nat) /\ Contiguous(c)
      BY <3>1 DEF Sound, Systems
    <3>4. QED  BY <3>2, <3>3, ContiguousKept
  <2>3. QED  BY <2>1, <2>2
<1>2. QED  BY <1>1, NoGap DEF PhasesContiguous, Contiguous

\* the columns of the key
LEMMA AlignedOfInv ==
    ASSUME ConfigInv
    PROVE  SelectorColumnsAligned
<1> SUFFICES ASSUME stage = "vk"
             PROVE  SelectorColumnsAligned
  BY DEF SelectorColumnsAligned
<1>1. PICK c : Sound(c) /\ Keyed(c, cs) /\ fixed_columns = FixedColumnsOf(c)
  BY DEF ConfigInv
<1>2. PICK n \in Nat, base \in Nat : n = c.num_selectors /\ base = c.num_fixed_columns
  BY <1>1 DEF Sound, Systems
<1>3. PICK old \in Seq(Flags) : old = c.selector_flags /\ DOMAIN old = 1 .. n
  <2>1. c.selector_flags \in Seq(Flags) /\ Len(c.selector_flags) = n
    BY <1>1, <1>2 DEF Sound, Systems
  <2>2. QED  BY <2>1
<1>4. PICK new : new = cs.selector_flags  OBVIOUS
<1>5. /\ DOMAIN new = 1 .. n
      /\ \A i \in 1 .. n :
            new[i].simple = old[i].simple /\ (new[i].simple => new[i].col = base + i)
  <2>1. PointedUpTo(n, base, old, new)
    BY <1>1, <1>2, <1>3, <1>4 DEF Keyed
  <2>2. \A i \in 1 .. n : i <= n  OBVIOUS
  <2>3. QED  BY <1>3, <2>1, <2>2 DEF PointedUpTo
<1>6. PICK columns : columns = fixed_columns  OBVIOUS
<1>7. /\ DOMAIN columns = 1 .. base + n /\ Len(columns) = base + n
      /\ \A i \in 1 .. n : columns[base + i] = <<"selector", i>>
  <2>1. PICK left : left = [i \in 1 .. base |-> <<"fixed", i>>]  OBVIOUS
  <2>2. PICK right : right = [i \in 1 .. n |-> <<"selector", i>>]  OBVIOUS
  <2>3. columns = left \o right
    BY <1>1, <1>2, <1>6, <2>1, <2>2 DEF FixedColumnsOf
  <2>4. PICK S : S = {"fixed", "selector"} \X Nat  OBVIOUS
  <2>5. left \in [1 .. base -> S] /\ right \in [1 .. n -> S]
    BY <2>1, <2>2, <2>4
  <2>6. left \in Seq(S) /\ right \in Seq(S) /\ Len(left) = base /\ Len(right) = n
    BY <2>5
  <2>7. /\ Len(left \o right) = Len(left) + Len(right)
        /\ DOMAIN (left \o right) = 1 .. Len(left) + Len(right)
        /\ \A i \in 1 .. Len(left) + Len(right) :
              (left \o right)[i] = IF i <= Len(left) THEN left[i] ELSE right[i - Len(left)]
    <3>1. left \in Seq(S) /\ right \in Seq(S)  BY <2>6
    <3>2. QED  BY <3>1
  <2>8. ASSUME NEW i \in 1 .. n
        PROVE  (left \o right)[base + i] = <<"selector", i>>
    <3>1. base + i \in 1 .. base + n /\ ~(base + i <= base) /\ (base + i) - base = i
      OBVIOUS
    <3>2. (left \o right)[base + i] = right[i]
      BY <2>6, <2>7, <3>1, Zenon
    <3>3. QED  BY <2>2, <3>2
  <2>9. QED  BY <2>3, <2>6, <2>7, <2>8, Zenon
<1>8. Len(fixed_columns) = cs.num_fixed_columns
  BY <1>1, <1>2, <1>6, <1>7 DEF Keyed
<1>9. \A i \in DOMAIN cs.selector_flags : cs.selector_flags[i].simple =>
          fixed_columns[cs.selector_flags[i].col] = <<"selector", i>>
  BY <1>4, <1>5, <1>6, <1>7
<1>10. ASSUME NEW g \in ToSet(cs.gates), NEW s \in ToSet(g.selectors)
       PROVE  /\ s.index \in DOMAIN fixed_columns
              /\ \E i \in DOMAIN cs.selector_flags :
                    /\ fixed_columns[s.index] = <<"selector", i>>
                    /\ cs.selector_flags[i].simple = s.simple
  <2>1. SelectorsShifted(c, base, cs.gates)  BY <1>1, <1>2 DEF Keyed
  <2>2. PICK i \in 1 .. n : s.index = base + i /\ s.simple = old[i].simple
    BY <1>2, <1>3, <2>1 DEF SelectorsShifted
  <2>3. base + i \in 1 .. base + n  OBVIOUS
  <2>4. s.index \in DOMAIN columns /\ columns[s.index] = <<"selector", i>>
    BY <1>7, <2>2, <2>3
  <2>5. new[i].simple = s.simple  BY <1>5, <2>2, Zenon
  <2>6. QED  BY <1>4, <1>5, <1>6, <2>4, <2>5, Zenon
<1>11. ASSUME NEW col \in DOMAIN fixed_columns, HasSimpleSelectorCol(cs, col)
       PROVE  \E i \in DOMAIN cs.selector_flags :
                 fixed_columns[col] = <<"selector", i>> /\ cs.selector_flags[i].simple
  <2>1. PICK f \in ToSet(new) : f.simple /\ f.col = col
    BY <1>4, <1>11 DEF HasSimpleSelectorCol
  <2>2. PICK i \in 1 .. n : f = new[i]  BY <1>5, <2>1 DEF ToSet
  <2>3. col = base + i /\ new[i].simple  BY <1>5, <2>1, <2>2
  <2>4. columns[col] = <<"selector", i>>  BY <1>7, <2>3
  <2>5. QED  BY <1>4, <1>5, <1>6, <2>3, <2>4, Zenon
<1>12. QED  BY <1>8, <1>9, <1>10, <1>11 DEF SelectorColumnsAligned

\* and its degree, which covers every constraint.
LEMMA DegreeOfInv ==
    ASSUME ConfigInv
    PROVE  DegreeBoundsKey
<1> SUFFICES ASSUME stage = "vk"
             PROVE  DegreeBoundsKey
  BY DEF DegreeBoundsKey
<1>1. Measurable(cs)  BY DEF ConfigInv, Keyed
<1>2. QED  BY <1>1, DegreeCovers DEF DegreeBoundsKey

-----------------------------------------------------------------------------
(* The theorems.                                                           *)

\* Every call of configure leaves the system sound, and key generation replaces
\* it by that of its verifying key.
LEMMA ConfigInvInductive ==
    ASSUME ConfigInv, [ConfigNext]_configVars
    PROVE  ConfigInv'
<1>1. ASSUME NEW next, Sound(cs) => Sound(next), Configures(next)
      PROVE  ConfigInv'
  BY <1>1 DEF Configures, ConfigInv
<1>2. CASE AddFixedColumn
  BY <1>1, <1>2, ColumnOrDegreeSet DEF AddFixedColumn
<1>3. CASE AddInstanceColumn
  BY <1>1, <1>3, ColumnOrDegreeSet DEF AddInstanceColumn
<1>4. CASE AddAdviceColumn
  <2>1. PICK phase \in PhaseSet :
           (phase > 0 => PhaseExists(cs, phase - 1)) /\ Configures(AdviceColumnIn(cs, phase))
    BY <1>4 DEF AddAdviceColumn
  <2>2. phase \in Nat  BY ConfigurationAssumption DEF ConfigurationAssumption
  <2>3. QED  BY <1>1, <2>1, <2>2, AdviceColumnAdded
<1>5. CASE AddSelector
  BY <1>1, <1>5, SelectorAdded DEF AddSelector
<1>6. CASE AddChallenge
  <2>1. PICK phase \in PhaseSet :
           PhaseExists(cs, phase) /\ Configures(ChallengeUsableAfter(cs, phase))
    BY <1>6 DEF AddChallenge
  <2>2. phase \in Nat  BY ConfigurationAssumption DEF ConfigurationAssumption
  <2>3. QED  BY <1>1, <2>1, <2>2, ChallengeAdded
<1>7. CASE AddEquality
  <2>1. PICK col \in Columns : Configures(EnableEquality(cs, col[1], col[2]))
    BY <1>7 DEF AddEquality
  <2>2. Sound(cs) => Sound(EnableEquality(cs, col[1], col[2]))
    BY ColumnsNamed, EqualityEnabled
  <2>3. QED  BY <1>1, <2>1, <2>2
<1>8. CASE AddConstant
  <2>1. PICK col \in 1 .. cs.num_fixed_columns : Configures(EnableConstant(cs, col))
    BY <1>8 DEF AddConstant
  <2>2. ASSUME Sound(cs)
        PROVE  Sound(EnableConstant(cs, col))
    <3>1. cs.num_fixed_columns \in Nat  BY <2>2 DEF Sound, Systems
    <3>2. col \in Nat  BY <3>1
    <3>3. QED  BY <2>2, <3>2, ConstantEnabled
  <2>3. QED  BY <1>1, <2>1, <2>2
<1>9. CASE AddGate
  <2>1. PICK s \in 0 .. cs.num_selectors, inputs \in Inputs : Configures(CreateGate(cs, s, inputs))
    BY <1>9 DEF AddGate
  <2>2. QED  BY <1>1, <2>1, InputsNamed, GateCreated
<1>10. CASE AddAdditiveGate
  <2>1. PICK s \in 1 .. cs.num_selectors, inputs \in Inputs :
           Configures(CreateAdditiveGate(cs, s, inputs))
    BY <1>10 DEF AddAdditiveGate
  <2>2. QED  BY <1>1, <2>1, InputsNamed, AdditiveGateCreated
<1>11. CASE AddLookup
  <2>1. PICK s \in 0 .. cs.num_selectors, inputs \in Inputs, table \in 1 .. cs.num_fixed_columns :
           Configures(BatchedLookup(cs, s, inputs, table))
    BY <1>11 DEF AddLookup
  <2>2. ASSUME Sound(cs)
        PROVE  Sound(BatchedLookup(cs, s, inputs, table))
    <3>1. cs.num_fixed_columns \in Nat  BY <2>2 DEF Sound, Systems
    <3>2. table \in Nat  BY <3>1
    <3>3. QED  BY <2>2, <3>2, InputsNamed, LookupCreated
  <2>3. QED  BY <1>1, <2>1, <2>2
<1>12. CASE RaiseDegree
  <2>1. PICK d \in MinimumDegrees : Configures(SetMinimumDegree(cs, d))
    BY <1>12 DEF RaiseDegree
  <2>2. d \in Nat  BY ConfigurationAssumption DEF ConfigurationAssumption
  <2>3. QED  BY <1>1, <2>1, <2>2, ColumnOrDegreeSet
<1>13. CASE KeygenVk
  <2>1. Sound(cs)  BY <1>13 DEF KeygenVk, ConfigInv
  <2>2. Keyed(cs, cs')  BY <1>13, <2>1, SelectorsConverted DEF KeygenVk
  <2>3. fixed_columns' = FixedColumnsOf(cs)  BY <1>13 DEF KeygenVk, FixedColumnsOf
  <2>4. stage' = "vk"  BY <1>13 DEF KeygenVk
  <2>5. QED  BY <2>1, <2>2, <2>3, <2>4 DEF ConfigInv
<1>14. CASE KeygenPanics
  BY <1>14 DEF KeygenPanics, ConfigInv
<1>15. CASE UNCHANGED configVars
  BY <1>15 DEF configVars, ConfigInv
<1>16. QED
  BY <1>2, <1>3, <1>4, <1>5, <1>6, <1>7, <1>8, <1>9, <1>10, <1>11, <1>12, <1>13, <1>14, <1>15
     DEF ConfigNext

\* The invariant holds of every behaviour.
LEMMA ConfigInvHolds == ConfigSpec => []ConfigInv
<1>1. ConfigInit => ConfigInv
  BY DefaultSound DEF ConfigInit, ConfigInv
<1>2. ConfigInv /\ [ConfigNext]_configVars => ConfigInv'
  BY ConfigInvInductive
<1>3. QED  BY <1>1, <1>2, PTL DEF ConfigSpec

\* Whatever gates, lookups, equalities and selectors a circuit asks for and in
\* whatever order, no cell is queried twice, the number of queries of each
\* advice column is the one counted, and every read of a gate or a lookup and
\* every column of the permutation has an index that names its own cell - also
\* after keygen_vk has replaced the selectors by fixed columns.  So has every
\* read of a trash argument that has an index: one through Column::cur has none,
\* because create_gate fills no index in the constraints of an additive selector.
THEOREM QueriesResolveTheorem == ConfigSpec => []QueriesResolve
<1>1. ConfigInv => QueriesResolve
  BY QueriesOfInv
<1>2. QED  BY <1>1, ConfigInvHolds, PTL

\* The phases of the advice columns have no gap and every challenge belongs to
\* one of them: the prover's and the verifier's loop over the phases meets every
\* challenge.
THEOREM PhasesContiguousTheorem == ConfigSpec => []PhasesContiguous
<1>1. ConfigInv => PhasesContiguous
  BY PhasesOfInv
<1>2. QED  BY <1>1, ConfigInvHolds, PTL

\* In the verifying key each simple selector's flag, and each selector a gate
\* lists, points at the committed fixed column that holds its values; and its
\* degree covers every gate, trash argument, lookup accumulator and chunk of
\* lookups, although the chunks are as large as that degree allows.
THEOREM KeyCoversCircuitTheorem == ConfigSpec => []KeyCoversCircuit
<1>1. ConfigInv => KeyCoversCircuit
  BY AlignedOfInv, DegreeOfInv DEF KeyCoversCircuit
<1>2. QED  BY <1>1, ConfigInvHolds, PTL
=============================================================================
