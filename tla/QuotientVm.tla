----------------------------- MODULE QuotientVm -----------------------------
(***************************************************************************)
(* The Solidity verifier's quotient numerator                              *)
(* (proofs/solidity-verifier/src/lowering/quotient.rs and                  *)
(* quotient_numerator/vm/mod.rs): the identities of a circuit are lowered  *)
(* into inline code, bytecode for a small stack machine and native         *)
(* callbacks, and the generated contract runs them.  It must arrive at the *)
(* sums the Rust verifier batches by powers of y, one for the fully        *)
(* evaluated identities and one per simple selector.                       *)
(*                                                                         *)
(* An instruction is a tuple: its name and operands; widths and layout of  *)
(* operands are left out but for the one-byte constant slots.  A memory    *)
(* pointer counts words; "wide" ones do not fit 16 bits.  An optional      *)
(* value is a set of at most one element.                                  *)
(***************************************************************************)
EXTENDS Integers, Sequences, FiniteSets, SequencesExt

CONSTANTS
    VmField,            \* the modulus r
    VmLimbs,            \* QUOTIENT_VM_LIMBS
    U8Slots,            \* how many values a byte has
    RunMinLen,          \* QUOTIENT_VM_RUN_COMPACTION_MIN_LEN
    InlineGates,        \* DEFAULT_HYBRID_QUOTIENT_INLINE_IDENTITIES
    NativeGates,        \* DEFAULT_QUOTIENT_NATIVE_GATES
    Selectors,          \* how many simple selectors
    GateExprs,          \* the expressions gates are taken from
    ArgumentExpr,       \* the identity of an argument
    MaxWeight,          \* bound on the identities of a program
    Memories,           \* contents of the verifier's memory
    BatchChallenges     \* values of y

VARIABLES
    identities,         \* the stream [family, expr, target] in its order
    program             \* {} or the program it was lowered to

vmVars == <<identities, program>>

Main == 0               \* targets: Main, or a selector's bucket
Families == <<"gate", "permutation", "lookup", "trash">>
FamilyRank(family) == CHOOSE i \in DOMAIN Families : Families[i] = family

-----------------------------------------------------------------------------
(* Expressions over the field                                              *)

Const(v) == <<"const", v>>
Mem(p) == <<"mem", p>>
Wide(p) == <<"wide", p>>
Token(t) == <<"token", t>>
Plus(l, r) == <<"add", l, r>>
Times(l, r) == <<"mul", l, r>>
Minus(e) == <<"neg", e>>

The(option) == CHOOSE x \in option : TRUE
Mod(n) == n % VmField
FieldSum(values) == Mod(FoldLeft(LAMBDA s, v : s + v, 0, values))
ProductOf(values) == FoldLeft(LAMBDA s, v : Mod(s * v), 1, values)
Mapped(Op(_), s) == [i \in DOMAIN s |-> Op(s[i])]

\* Tuples of numbers in their order; the members of a set of indices.
Before(s, t) == s[1] < t[1] \/ (s[1] = t[1] /\ Len(s) = 2 /\ s[2] <= t[2])
Lowest(tuples) == CHOOSE s \in tuples : \A t \in tuples \ {s} : Before(s, t)
RECURSIVE Sorted(_)
Sorted(tuples) ==
    IF tuples = {} THEN <<>> ELSE LET s == Lowest(tuples) IN <<s>> \o Sorted(tuples \ {s})
InIndexOrder(indices) ==
    LET last == IF indices = {} THEN 0 ELSE Max(indices)
    IN  SelectSeq([i \in 1 .. last |-> i], LAMBDA i : i \in indices)

quotient_leaf(e) == e[1] \in {"const", "mem", "wide", "token"}

RECURSIVE Value(_, _)
Value(e, memory) ==
    CASE e[1] = "const" -> Mod(e[2])
      [] e[1] \in {"mem", "wide", "token"} -> memory[e[2]]
      [] e[1] = "add" -> Mod(Value(e[2], memory) + Value(e[3], memory))
      [] e[1] = "mul" -> Mod(Value(e[2], memory) * Value(e[3], memory))
      [] e[1] = "neg" -> Mod(VmField - Value(e[2], memory))

\* The leaves of a product, if it has nothing but leaves.
RECURSIVE collect_product_leaves(_)
collect_product_leaves(e) ==
    CASE quotient_leaf(e) -> {<<e>>}
      [] e[1] = "mul" -> {l \o r : l \in collect_product_leaves(e[2]),
                                   r \in collect_product_leaves(e[3])}
      [] OTHER -> {}

RECURSIVE collect_product_expr_factors(_)
collect_product_expr_factors(e) ==
    IF e[1] = "mul"
    THEN collect_product_expr_factors(e[2]) \o collect_product_expr_factors(e[3])
    ELSE <<e>>

OfKind(es, kind) == SelectSeq(es, LAMBDA e : e[1] = kind)
Operands(es) == Mapped(LAMBDA e : e[2], es)
Coefficient(es) == ProductOf(Operands(OfKind(es, "const")))

\* Coefficient and pointers of a product of constants and short loads.
quotient_product_mem_factors(e) ==
    {<<Coefficient(ls), Operands(OfKind(ls, "mem"))>> :
        ls \in {ls \in collect_product_leaves(e) :
                   \A i \in DOMAIN ls : ls[i][1] \in {"const", "mem"}}}
quotient_mem_term(e) == {t \in quotient_product_mem_factors(e) : Len(t[2]) = 1}
quotient_product_mem_pair(e) == {t \in quotient_product_mem_factors(e) : Len(t[2]) = 2}

\* The terms of a sum with their coefficients, and its constants.  A constant
\* is below the modulus.
JoinTerms(s, t) == [terms |-> s.terms \o t.terms, constants |-> s.constants \o t.constants]
RECURSIVE collect_quotient_affine_terms(_, _)
collect_quotient_affine_terms(e, coeff) ==
    CASE coeff = 0 -> [terms |-> <<>>, constants |-> <<>>]
      [] coeff # 0 /\ e[1] = "add" ->
            JoinTerms(collect_quotient_affine_terms(e[2], coeff),
                      collect_quotient_affine_terms(e[3], coeff))
      [] coeff # 0 /\ e[1] = "neg" -> collect_quotient_affine_terms(e[2], VmField - coeff)
      [] coeff # 0 /\ e[1] = "mul" /\ e[2][1] = "const" ->
            collect_quotient_affine_terms(e[3], Mod(coeff * e[2][2]))
      [] coeff # 0 /\ e[1] = "mul" /\ e[2][1] # "const" /\ e[3][1] = "const" ->
            collect_quotient_affine_terms(e[2], Mod(coeff * e[3][2]))
      [] coeff # 0 /\ e[1] = "const" -> [terms |-> <<>>, constants |-> <<Mod(coeff * e[2])>>]
      [] OTHER -> [terms |-> <<<<coeff, e>>>>, constants |-> <<>>]

\* The terms alone, if every constant of the sum is zero.
collect_quotient_sum_terms(e, coeff) ==
    LET s == collect_quotient_affine_terms(e, coeff)
    IN  IF ToSet(s.constants) \subseteq {0} THEN {s.terms} ELSE {}

-----------------------------------------------------------------------------
(* Shapes with an opcode of their own.  A shape is the list of its         *)
(* monomials <<coefficient, pointers>> in the order of its encoding.       *)

Pairs(terms) == {i \in DOMAIN terms : quotient_product_mem_pair(terms[i][2]) # {}}
Loads(terms) == {i \in DOMAIN terms : quotient_mem_term(terms[i][2]) # {}}

\* Term i as a monomial.
Monomial(terms, i) ==
    LET t == The(quotient_product_mem_factors(terms[i][2])) IN <<Mod(terms[i][1] * t[1]), t[2]>>

\* Monomials with the same pointers as one, those that cancel left out, in the
\* order of the pointers.
Grouped(monomials) ==
    LET coeff(ptrs) == FieldSum(Mapped(LAMBDA m : m[1],
                                       SelectSeq(monomials, LAMBDA m : m[2] = ptrs)))
        kept == {ptrs \in {m[2] : m \in ToSet(monomials)} : coeff(ptrs) # 0}
    IN  Mapped(LAMBDA ptrs : <<coeff(ptrs), ptrs>>, Sorted(kept))

AtIndices(terms, indices) == Mapped(LAMBDA i : Monomial(terms, i), InIndexOrder(indices))
Shape(monomials, used) == [monomials |-> monomials, used |-> used]

try_quotient_lin7_shape(terms) ==
    LET g == Grouped(AtIndices(terms, Loads(terms)))
    IN  IF Loads(terms) = DOMAIN terms /\ Len(g) = VmLimbs THEN {Shape(g, DOMAIN terms)} ELSE {}

limb7_base_candidates(ptrs) == {p \in ptrs : \A i \in 0 .. VmLimbs - 1 : p + i \in ptrs}
\* What was found for the lowest candidate, of pairs <<candidate, shape>>.
LowestOf(pairs) ==
    LET lowest == Lowest({p[1] : p \in pairs}) IN {p[2] : p \in {p \in pairs : p[1] = lowest}}

\* Consecutive loads inside a larger sum.
WindowOf(shapeTerms, used) ==
    {Shape(g, used) : g \in {g \in {Grouped(AtIndices(shapeTerms, used))} : Len(g) = VmLimbs}}
PointersOf(terms) == [i \in Loads(terms) |-> Monomial(terms, i)[2][1]]
LoadsWithin(at, base) == {i \in DOMAIN at : at[i] \in base .. base + VmLimbs - 1}
WindowsIn(terms, at) ==
    UNION {{<<<<base, 0>>, g>> : g \in WindowOf(terms, LoadsWithin(at, base))} :
              base \in limb7_base_candidates({at[i] : i \in DOMAIN at})}
try_quotient_lin7_subshape(terms) == LowestOf(WindowsIn(terms, PointersOf(terms)))

\* The products with one factor in common, that factor first.
Other(ptrs, common) == IF ptrs[1] = common THEN ptrs[2] ELSE ptrs[1]
RowOf(terms, used, common) ==
    {Shape(Mapped(LAMBDA m : <<m[1], <<common>> \o m[2]>>, g), used) :
        g \in {g \in {Grouped(Mapped(LAMBDA m : <<m[1], <<Other(m[2], common)>>>>,
                                     AtIndices(terms, used)))} : Len(g) = VmLimbs}}
Sharing(terms, common) == {i \in Pairs(terms) : common \in ToSet(Monomial(terms, i)[2])}

\* The first pointer of the first product is tried first.
try_quotient_bilin7_row_shape(terms) ==
    IF Pairs(terms) # DOMAIN terms \/ Len(terms) # VmLimbs THEN {}
    ELSE LowestOf(UNION {{<<<<k, 0>>, row>> : row \in RowOf(terms, DOMAIN terms, common)} :
             <<k, common>> \in {q \in {<<k, Monomial(terms, 1)[2][k]>> : k \in 1 .. 2} :
                                   Sharing(terms, q[2]) = DOMAIN terms}})

PairPointers(terms) == UNION {ToSet(Monomial(terms, i)[2]) : i \in Pairs(terms)}
try_quotient_bilin7_row_subshape(terms) ==
    LowestOf(UNION {{<<<<p, 0>>, row>> : row \in RowOf(terms, Sharing(terms, p), p)} :
                       p \in PairPointers(terms)})

\* The cell (i, j) of the grid of two vectors that a product falls in.
limb7_index(base, ptr) == IF ptr - base \in 0 .. VmLimbs - 1 THEN {ptr - base} ELSE {}
OrElse(option, other) == IF option # {} THEN option ELSE other
CellAt(lhs, rhs, p, q) == limb7_index(lhs, p) \X limb7_index(rhs, q)
CellOf(ptrs, lhs, rhs) ==
    OrElse(CellAt(lhs, rhs, ptrs[1], ptrs[2]), CellAt(lhs, rhs, ptrs[2], ptrs[1]))

\* Both vectors' limbs, by their sum.
Limbs == 0 .. VmLimbs - 1
GridOrder ==
    Mapped(LAMBDA s : <<s[2], s[1] - s[2]>>,
           Sorted({<<ij[1] + ij[2], ij[1]>> : ij \in Limbs \X Limbs}))

\* All products of two vectors, with coefficients that depend on i + j alone;
\* cells are the cells that terms fall in.
CellSum(terms, cells, ij) ==
    FieldSum(Mapped(LAMBDA m : m[1], AtIndices(terms, {i \in DOMAIN cells : cells[i] = {ij}})))
GridShape(coeffs, used, lhs, rhs) ==
    IF \A s, t \in Limbs \X Limbs : s[1] + s[2] = t[1] + t[2] => coeffs[s] = coeffs[t]
    THEN {Shape(Mapped(LAMBDA ij : <<coeffs[ij], <<lhs + ij[1], rhs + ij[2]>>>>, GridOrder), used)}
    ELSE {}
GridOfCells(terms, cells, lhs, rhs) ==
    IF UNION {cells[i] : i \in DOMAIN cells} = Limbs \X Limbs
    THEN GridShape([ij \in Limbs \X Limbs |-> CellSum(terms, cells, ij)],
                   {i \in DOMAIN cells : cells[i] # {}}, lhs, rhs)
    ELSE {}
PairwiseGrid(terms, lhs, rhs) ==
    GridOfCells(terms, [i \in Pairs(terms) |-> CellOf(Monomial(terms, i)[2], lhs, rhs)], lhs, rhs)

GridsFrom(terms, bases) ==
    UNION {{<<b, s>> : s \in PairwiseGrid(terms, b[1], b[2])} : b \in bases \X bases}
try_quotient_bilin7_pairwise_subshape(terms) ==
    LowestOf(GridsFrom(terms, limb7_base_candidates(PairPointers(terms))))
try_quotient_bilin7_pairwise_shape(terms) ==
    IF Pairs(terms) # DOMAIN terms \/ Len(terms) # VmLimbs * VmLimbs THEN {}
    ELSE LowestOf({g \in GridsFrom(terms, limb7_base_candidates(PairPointers(terms))) :
                      g[2].used = DOMAIN terms})

quotient_limb_shape(e) ==
    UNION {OrElse(try_quotient_bilin7_pairwise_shape(terms),
                  OrElse(try_quotient_bilin7_row_shape(terms), try_quotient_lin7_shape(terms))) :
             terms \in collect_quotient_sum_terms(e, 1)}

-----------------------------------------------------------------------------
(* Part of a sum with an opcode, and the sum that is left                  *)

quotient_scaled_term_expr(coeff, e) == IF coeff = 1 THEN e ELSE Times(Const(coeff), e)
Unused(terms, used) ==
    Mapped(LAMBDA i : terms[i], InIndexOrder(DOMAIN terms \ used))

Residue(terms, constant, used) ==
    FoldLeft(LAMBDA r, t : Plus(r, quotient_scaled_term_expr(t[1], t[2])),
             Const(constant), Unused(terms, used))
SubshapeOf(terms, constant) ==
    IF Len(terms) <= VmLimbs /\ constant = 0 THEN {}
    ELSE {[shape |-> f, residue |-> Residue(terms, constant, f.used)] :
            f \in {f \in OrElse(try_quotient_bilin7_pairwise_subshape(terms),
                                OrElse(try_quotient_bilin7_row_subshape(terms),
                                       try_quotient_lin7_subshape(terms))) :
                      f.used # DOMAIN terms \/ constant # 0}}
quotient_limb_subshape(e) ==
    UNION {SubshapeOf(s.terms, FieldSum(s.constants)) : s \in {collect_quotient_affine_terms(e, 1)}}

\* A load times a sum: coefficient, pointer and sum.
MemTimesSum(coeff, e) ==
    LET factors == collect_product_expr_factors(e)
        loads == OfKind(factors, "mem")
        sums == SelectSeq(factors, LAMBDA g : g[1] \in {"add", "neg"})
    IN  IF /\ Len(factors) >= 2 /\ Len(loads) = 1 /\ Len(sums) = 1
           /\ \A i \in DOMAIN factors : factors[i][1] \notin {"wide", "token"}
        THEN {<<Mod(coeff * Coefficient(factors)), loads[1][2], sums[1]>>} ELSE {}

quotient_factored_bilin7_row_shape(coeff, e) ==
    UNION {UNION {{Mapped(LAMBDA m : <<m[1], <<s[2]>> \o m[2]>>, limb.monomials) :
                      limb \in try_quotient_lin7_shape(terms)} :
                  terms \in collect_quotient_sum_terms(s[3], s[1])} : s \in MemTimesSum(coeff, e)}
try_quotient_factored_bilin7_row_subshape(terms) ==
    LowestOf(UNION {{<<<<i, 0>>, Shape(monomials, {i})>> :
                        monomials \in quotient_factored_bilin7_row_shape(terms[i][1], terms[i][2])} :
                       i \in DOMAIN terms})

\* A remaining term as monomials of one or two loads; ordered has the factors
\* in the order of their pointers.
Ordered(p, q) == IF p <= q THEN <<p, q>> ELSE <<q, p>>
FactoredProducts(s, constant, loads) ==
    (IF constant = 0 THEN <<>> ELSE <<<<Mod(s[1] * constant), <<s[2]>>>>>>)
    \o Mapped(LAMBDA m : <<Mod(s[1] * m[1]), Ordered(s[2], m[2][1])>>, loads)
add_factored_affine_product_terms(coeff, e) ==
    {FactoredProducts(q[1], FieldSum(q[2].constants), AtIndices(q[2].terms, DOMAIN q[2].terms)) :
        q \in {q \in {<<s, collect_quotient_affine_terms(s[3], 1)>> : s \in MemTimesSum(coeff, e)} :
                  Loads(q[2].terms) = DOMAIN q[2].terms}}
Sparse(terms, i) ==
    CASE i \in Loads(terms) -> {<<Monomial(terms, i)>>}
      [] i \in Pairs(terms) ->
            {<<<<m[1], Ordered(m[2][1], m[2][2])>>>> : m \in {Monomial(terms, i)}}
      [] OTHER -> add_factored_affine_product_terms(terms[i][1], terms[i][2])

\* Blocks are taken out of a sum as long as there is one: by kind, in the order
\* in which each kind is found.
FirstBlock(pairwise, row, lin) ==
    CASE pairwise # {} -> {<<"pairwise", The(pairwise)>>}
      [] pairwise = {} /\ row # {} -> {<<"rows", The(row)>>}
      [] OTHER -> {<<"lin", s>> : s \in lin}
BlockIn(terms) ==
    FirstBlock(try_quotient_bilin7_pairwise_subshape(terms),
               OrElse(try_quotient_factored_bilin7_row_subshape(terms),
                      try_quotient_bilin7_row_subshape(terms)),
               try_quotient_lin7_subshape(terms))
RECURSIVE ExtractBlocks(_, _), TakeBlock(_, _, _)
ExtractBlocks(terms, blocks) == TakeBlock(terms, blocks, BlockIn(terms))
TakeBlock(terms, blocks, block) ==
    IF block = {} THEN [blocks |-> blocks, rest |-> terms]
    ELSE ExtractBlocks(Unused(terms, The(block)[2].used),
                       [blocks EXCEPT ![The(block)[1]] = Append(@, The(block)[2].monomials)])

NoBlocks == [pairwise |-> <<>>, rows |-> <<>>, lin |-> <<>>]

\* A whole identity as cond * (constant + blocks + loads + products).
Modarith7Shape(cond, constant, blocks, loads, products) ==
    LET limbs == Len(blocks.lin) + Len(blocks.rows) + Len(blocks.pairwise)
        count == limbs + Len(loads) + Len(products) + (IF constant # 0 THEN 1 ELSE 0)
    IN  IF /\ \A n \in {Len(blocks.lin), Len(blocks.rows), Len(blocks.pairwise),
                       Len(loads), Len(products)} : n < U8Slots
           /\ limbs > 0 \/ (cond # {} /\ products # <<>> /\ count >= 2)
           /\ cond # {} \/ count >= 2
        THEN {[cond |-> cond,
               monomials |-> (IF constant # 0 THEN <<<<constant, <<>>>>>> ELSE <<>>)
                   \o FlattenSeq(blocks.lin \o blocks.rows \o blocks.pairwise)
                   \o loads \o products]}
        ELSE {}
OfLength(monomials, n) == SelectSeq(monomials, LAMBDA m : Len(m[2]) = n)
ShapeWithRest(cond, constant, blocks, sparse) ==
    UNION {Modarith7Shape(cond, constant, blocks,
                          Grouped(OfLength(monomials, 1)), Grouped(OfLength(monomials, 2))) :
             monomials \in IF \A i \in DOMAIN sparse : sparse[i] # {}
                           THEN {FlattenSeq(Mapped(The, sparse))} ELSE {}}
SparseOf(terms) == [i \in DOMAIN terms |-> Sparse(terms, i)]
quotient_modarith7_affine_shape(cond, e) ==
    UNION {UNION {ShapeWithRest(cond, FieldSum(sum.constants), x.blocks, SparseOf(x.rest)) :
                     x \in {ExtractBlocks(sum.terms, NoBlocks)}} :
             sum \in {collect_quotient_affine_terms(e, 1)}}

\* The load that multiplies the rest of an identity, with the rest.
quotient_condition_factor(e) ==
    LET split(l, r) ==
            {<<t[2][1], quotient_scaled_term_expr(t[1], r)>> : t \in quotient_mem_term(l)}
    IN  IF e[1] # "mul" THEN {} ELSE OrElse(split(e[2], e[3]), split(e[3], e[2]))

quotient_modarith7_shape(e) ==
    LowestOf(UNION {{<<<<q[1], 0>>, shape>> : shape \in quotient_modarith7_affine_shape(q[2], q[3])} :
        q \in {<<1, {s[1]}, s[2]>> : s \in quotient_condition_factor(e)} \cup {<<2, {}, e>>}})

\* Sums and products are compared up to the order of their operands.
RECURSIVE quotient_expr_key(_)
quotient_expr_key(e) ==
    CASE quotient_leaf(e) -> e
      [] e[1] = "neg" -> <<"neg", quotient_expr_key(e[2])>>
      [] OTHER -> <<e[1], {quotient_expr_key(e[2]), quotient_expr_key(e[3])}>>

quotient_pow5_base(e) ==
    LET factors == collect_product_expr_factors(e)
    IN  IF Len(factors) = 5 /\ Cardinality({quotient_expr_key(g) : g \in ToSet(factors)}) = 1
        THEN {factors[1]} ELSE {}

-----------------------------------------------------------------------------
(* The builder of the bytecode and its table of constants                  *)

NewBuilder == [ops |-> <<>>, consts |-> <<>>, depth |-> 0, max_stack |-> 0, panicked |-> FALSE]

Asserting(b, condition) == [b EXCEPT !.panicked = @ \/ ~condition]
Emit(b, op) == [b EXCEPT !.ops = Append(@, op)]
push_stack(b) ==
    [b EXCEPT !.depth = @ + 1, !.max_stack = IF @ > b.depth THEN @ ELSE b.depth + 1]
pop_stack(b) == [Asserting(b, b.depth > 0) EXCEPT !.depth = @ - 1]

const_slot(b, v) == IF v \in ToSet(b.consts) THEN b ELSE [b EXCEPT !.consts = Append(@, v)]
ConstSlots(b, values) == FoldLeft(const_slot, b, values)
SlotOf(b, v) == (CHOOSE i \in DOMAIN b.consts : b.consts[i] = v) - 1
peek_u8_const_slots(b, values) ==
    LET inserted == ConstSlots(b, values)
    IN  \A i \in DOMAIN values : SlotOf(inserted, values[i]) < U8Slots
const_fits_u8_slot(b, v) == peek_u8_const_slots(b, <<v>>)

Coeffs(monomials) == Mapped(LAMBDA m : m[1], monomials)
HasSlots(b, monomials) == peek_u8_const_slots(b, Coeffs(monomials))

\* LIN7, BILIN7_ROW, BILIN7_PAIRWISE and MODARITH7 push a condition times a sum
\* of constants times loads; a constant is a one-byte slot.
emit_limb_shape_unpushed(b, cond, monomials) ==     \* Bug: the value is not counted on the stack
    LET inserted == ConstSlots(b, Coeffs(monomials))
        encoded == Mapped(LAMBDA m : <<SlotOf(inserted, m[1]), m[2]>>, monomials)
    IN  Emit(Asserting(inserted, peek_u8_const_slots(b, Coeffs(monomials))),
             <<"push_sum", cond, encoded>>)
emit_limb_shape(b, cond, monomials) ==
    LET inserted == ConstSlots(b, Coeffs(monomials))
        encoded == Mapped(LAMBDA m : <<SlotOf(inserted, m[1]), m[2]>>, monomials)
    IN  push_stack(Emit(Asserting(inserted, peek_u8_const_slots(b, Coeffs(monomials))),
                        <<"push_sum", cond, encoded>>))

\* One or two short loads times one constant, or two loads: the constants and
\* the pointers.
product_add_macro(b, e) ==
    {<<consts, ptrs>> \in
        {<<Operands(OfKind(ls, "const")), Operands(OfKind(ls, "mem"))>> :
            ls \in {ls \in collect_product_leaves(e) :
                       \A i \in DOMAIN ls : ls[i][1] \in {"const", "mem"}}} :
        /\ \A i \in DOMAIN consts : const_fits_u8_slot(b, consts[i])
        /\ <<Len(ptrs), Len(consts)>> \in {<<2, 1>>, <<1, 1>>, <<2, 0>>}}
emit_product_add(b, consts, ptrs) ==
    IF consts = <<>> THEN Emit(b, <<"add_mem_mem", ptrs>>)
    ELSE LET inserted == const_slot(b, consts[1])
             slot == SlotOf(inserted, consts[1])
         IN  Emit(Asserting(inserted, slot < U8Slots), <<"add_mul", <<slot, ptrs>>>>)

\* A constant or short load is applied to the top of the stack.
Applies(leaf) == leaf[1] \in {"const", "mem"}
emit_acc_leaf(b, op, leaf) ==
    IF leaf[1] = "mem" THEN Emit(b, <<op, "mem", leaf[2]>>)
    ELSE LET inserted == const_slot(b, leaf[2])
         IN  Emit(inserted, <<op, "const", SlotOf(inserted, leaf[2])>>)

emit_leaf(b, leaf) ==
    IF leaf[1] # "const" THEN push_stack(Emit(b, <<"push_mem", leaf[2]>>))
    ELSE LET inserted == const_slot(b, leaf[2])
         IN  push_stack(Emit(inserted, <<"push_const", SlotOf(inserted, leaf[2])>>))

op_binary(b, op) == pop_stack(Emit(b, <<op>>))

WithSlots(b, shapes) == {s \in shapes : HasSlots(b, s.monomials)}

RECURSIVE emit_expr(_, _), try_emit_limb_ops(_, _), emit_first_shape(_, _, _, _, _), emit_arithmetic(_, _)
emit_expr(b, e) ==
    IF quotient_pow5_base(e) # {}
    THEN Emit(emit_expr(b, The(quotient_pow5_base(e))), <<"pow5">>)
    ELSE try_emit_limb_ops(b, e)

try_emit_limb_ops(b, e) ==
    emit_first_shape(b, e, WithSlots(b, quotient_modarith7_shape(e)),
                     WithSlots(b, quotient_limb_shape(e)),
                     {d \in quotient_limb_subshape(e) : HasSlots(b, d.shape.monomials)})

emit_first_shape(b, e, modarith, limb, part) ==
    CASE modarith # {} -> emit_limb_shape(b, The(modarith).cond, The(modarith).monomials)
      [] modarith = {} /\ limb # {} -> emit_limb_shape(b, {}, The(limb).monomials)
      [] modarith = {} /\ limb = {} /\ part # {} ->
            op_binary(emit_limb_shape(emit_expr(b, The(part).residue), {},
                                      The(part).shape.monomials), "add")
      [] OTHER -> emit_arithmetic(b, e)

emit_arithmetic(b, e) ==
    LET fused(base, product) ==
            {emit_product_add(emit_expr(b, base), m[1], m[2]) : m \in product_add_macro(b, product)}
        product == IF e[1] = "add" THEN OrElse(fused(e[2], e[3]), fused(e[3], e[2])) ELSE {}
        withLeaf(other, leaf) ==
            IF Applies(leaf) THEN emit_acc_leaf(emit_expr(b, other), e[1], leaf)
            ELSE op_binary(emit_expr(emit_expr(b, other), leaf), e[1])
    IN  CASE quotient_leaf(e) -> emit_leaf(b, e)
          [] e[1] = "neg" -> Emit(emit_expr(b, e[2]), <<"neg">>)
          [] e[1] \in {"add", "mul"} ->
                IF product # {} THEN The(product)
                ELSE IF quotient_leaf(e[3]) THEN withLeaf(e[2], e[3])
                ELSE IF quotient_leaf(e[2]) THEN withLeaf(e[3], e[2])
                ELSE op_binary(emit_expr(emit_expr(b, e[2]), e[3]), e[1])

fold_identity(b, target, gap) ==
    IF target = Main THEN pop_stack(Emit(b, <<"fold_main">>))
    ELSE pop_stack(Emit(Asserting(b, target - 1 < U8Slots), <<"fold_selector", target, gap>>))

WithEmptyStack(b) == Asserting(b, b.depth = 0)
identity_expr(b, e, target, gap) ==
    WithEmptyStack(fold_identity(emit_expr([b EXCEPT !.depth = 0], e), target, gap))

\* Adjacent fused additions become one instruction, its linear terms first.
RECURSIVE compact_quotient_runs(_)
compact_quotient_runs(ops) ==
    LET others == {i \in DOMAIN ops : ops[i][1] # "add_mul"}
        length == IF others = {} THEN Len(ops) ELSE Min(others) - 1
        terms == Mapped(LAMBDA op : op[2], SubSeq(ops, 1, length))
        linear == SelectSeq(terms, LAMBDA t : Len(t[2]) = 1)
        products == SelectSeq(terms, LAMBDA t : Len(t[2]) = 2)
    IN  IF ops = <<>> THEN <<>>
        ELSE IF length = 0 THEN <<Head(ops)>> \o compact_quotient_runs(Tail(ops))
        ELSE (IF length >= RunMinLen
              THEN <<<<"add_sum", linear \o products>>>> ELSE SubSeq(ops, 1, length))
             \o compact_quotient_runs(SubSeq(ops, length + 1, Len(ops)))

\* Depth of the operand stack along a program, and its highest.
apply_quotient_stack_effect(s, op) ==
    CASE op[1] \in {"push_const", "push_mem", "push_sum"} ->
            [s EXCEPT !.depth = @ + 1, !.highest = IF @ > s.depth THEN @ ELSE s.depth + 1]
      [] op[1] \in {"add", "mul"} /\ Len(op) = 1 ->
            [s EXCEPT !.valid = @ /\ s.depth >= 2, !.depth = @ - 1]
      [] op[1] \in {"fold_main", "fold_selector"} ->
            [s EXCEPT !.valid = @ /\ s.depth = 1, !.depth = 0]
      [] op[1] \in {"native_permutation", "native_lookup", "native_identity"} ->
            [s EXCEPT !.valid = @ /\ s.depth = 0]
      [] OTHER -> [s EXCEPT !.valid = @ /\ s.depth >= 1]
validate_quotient_program(ops) ==
    LET s == FoldLeft(apply_quotient_stack_effect,
                      [depth |-> 0, highest |-> 0, valid |-> TRUE], ops)
    IN  [s EXCEPT !.valid = @ /\ s.depth = 0]

finish(b) ==
    LET ops == compact_quotient_runs(b.ops)
        s == validate_quotient_program(ops)
    IN  [Asserting(b, s.valid /\ s.highest = b.max_stack) EXCEPT !.ops = ops]

-----------------------------------------------------------------------------
(* The plan: which identity is executed in which form                      *)

Indices(family) == {i \in DOMAIN identities : identities[i].family = family}
Earlier(i) == {j \in 1 .. i - 1 : identities[j].target = identities[i].target}

\* selector_fold_plan: the distance from the identity before in the same bucket,
\* and from the last one to the end of the stream.
SelectorGapOfAnyBucket(i) ==     \* Bug: the identity before in any bucket
    LET before == {j \in 1 .. i - 1 : identities[j].target # Main}
    IN  IF identities[i].target = Main \/ before = {} THEN 0 ELSE i - Max(before)
SelectorGap(i) ==
    IF identities[i].target = Main \/ Earlier(i) = {} THEN 0 ELSE i - Max(Earlier(i))
SelectorTail(selector) ==
    LET positions == {i \in DOMAIN identities : identities[i].target = selector}
    IN  IF positions = {} THEN 0 ELSE Len(identities) - Max(positions)

inline_identities == {i \in Indices("gate") : i <= InlineGates}
remaining_gates == Indices("gate") \ inline_identities

lower_gate(b, i, natives) ==
    IF i \in natives
    THEN Emit(WithEmptyStack(b), <<"native_identity", Cardinality({j \in natives : j <= i})>>)
    ELSE identity_expr(b, identities[i].expr, identities[i].target, SelectorGap(i))
Marked(b, family, op) == IF Indices(family) = {} THEN b ELSE Emit(WithEmptyStack(b), <<op>>)

build_quotient_program_items(natives) ==
    finish(Marked(Marked(FoldLeft(LAMBDA b, i : lower_gate(b, i, natives), NewBuilder,
                                  InIndexOrder(remaining_gates)),
                         "permutation", "native_permutation"),
                  "lookup", "native_lookup"))

-----------------------------------------------------------------------------
(* The generated contract                                                  *)

Fold(m, target, gap, value, y) ==
    LET advanced == Mod(m.main * y)
    IN  IF target = Main THEN [m EXCEPT !.main = Mod(advanced + value)]
        ELSE [m EXCEPT !.main = advanced,
                       !.buckets[target] = Mod((IF gap = 0 THEN @ ELSE @ * y^gap) + value)]

\* Inline code, callbacks and the structured tail evaluate an identity and fold it.
DirectBlocks(m, indices, memory, y) ==
    FoldLeft(LAMBDA n, i : Fold(n, identities[i].target, SelectorGap(i),
                                Value(identities[i].expr, memory), y),
             m, InIndexOrder(indices))

Interpret(p, m, op, memory, y) ==
    LET top == Last(m.stack)
        below == Front(m.stack)
        const(slot) == p.consts[slot + 1]
        term(t) == Mod(const(t[1]) * ProductOf(Mapped(LAMBDA q : memory[q], t[2])))
        terms(ts) == FieldSum(Mapped(term, ts))
        operand == IF op[2] = "const" THEN const(op[3]) ELSE memory[op[3]]
        pushed(v) == [m EXCEPT !.stack = Append(@, v)]
        replaced(v) == [m EXCEPT !.stack = Append(below, v)]
        popped(v) == [m EXCEPT !.stack = Append(Front(below), v)]
        consumed == [m EXCEPT !.stack = below]
        name == op[1]
    IN  CASE name = "push_const" -> pushed(const(op[2]))
          [] name = "push_mem" -> pushed(memory[op[2]])
          [] name = "push_sum" ->
                pushed(Mod(terms(op[3]) * (IF op[2] = {} THEN 1 ELSE memory[The(op[2])])))
          [] name = "add" /\ Len(op) = 1 -> popped(Mod(Last(below) + top))
          [] name = "mul" /\ Len(op) = 1 -> popped(Mod(Last(below) * top))
          [] name = "add" /\ Len(op) = 3 -> replaced(Mod(top + operand))
          [] name = "mul" /\ Len(op) = 3 -> replaced(Mod(top * operand))
          [] name = "neg" -> replaced(Mod(VmField - top))
          [] name = "pow5" -> replaced(ProductOf(<<top, top, top, top, top>>))
          [] name = "add_mem_mem" -> replaced(Mod(top + memory[op[2][1]] * memory[op[2][2]]))
          [] name = "add_mul" -> replaced(Mod(top + term(op[2])))
          [] name = "add_sum" -> replaced(Mod(top + terms(op[2])))
          [] name = "fold_main" -> Fold(consumed, Main, 0, top, y)
          [] name = "fold_selector" -> Fold(consumed, op[2], op[3], top, y)
          [] name = "native_permutation" -> DirectBlocks(m, Indices("permutation"), memory, y)
          [] name = "native_lookup" -> DirectBlocks(m, Indices("lookup"), memory, y)
          [] name = "native_identity" ->
                DirectBlocks(m, {InIndexOrder(p.natives)[op[2]]}, memory, y)

\* The tail advances a bucket to the end of the stream; the numerator is
\* returned negated.
RunProgram(p, memory, y) ==
    LET idle == [stack |-> <<>>, main |-> 0, buckets |-> [s \in 1 .. Selectors |-> 0]]
        inlined == DirectBlocks(idle, inline_identities, memory, y)
        ran == FoldLeft(LAMBDA m, op : Interpret(p, m, op, memory, y), inlined, p.ops)
        done == DirectBlocks(ran, Indices("trash"), memory, y)
        tail(s) == IF SelectorTail(s) = 0 THEN 1 ELSE y^SelectorTail(s)
    IN  [expected_eval |-> Mod(VmField - done.main),
         buckets |-> [s \in 1 .. Selectors |-> Mod(done.buckets[s] * tail(s))]]

-----------------------------------------------------------------------------
VmInit == identities = <<>> /\ program = {}

Weight(e) == IF quotient_leaf(e) THEN 1 ELSE MaxWeight - 1
TotalWeight == FoldLeft(LAMBDA s, i : s + Weight(i.expr), 0, identities)

\* quotient_identity_parts lists gates, permutation, lookup and trash in turn.
AddIdentity(family, e, target) ==
    /\ program = {}
    /\ identities # <<>> => FamilyRank(Last(identities).family) <= FamilyRank(family)
    /\ TotalWeight + Weight(e) <= MaxWeight
    /\ identities' = Append(identities, [family |-> family, expr |-> e, target |-> target])
    /\ UNCHANGED program

AddGate == \E e \in GateExprs, target \in Main .. Selectors :
    /\ ~quotient_leaf(e) => target = Main /\ Len(identities) >= InlineGates
    /\ AddIdentity("gate", e, target)
AddArgument == \E family \in {"permutation", "lookup", "trash"} :
    AddIdentity(family, ArgumentExpr, Main)

\* Which gates become callbacks is decided by estimates of gas and size.
quotient_program_plan == \E natives \in SUBSET remaining_gates :
    /\ program = {} /\ identities # <<>> /\ Cardinality(natives) <= NativeGates
    /\ program' = {[ops |-> b.ops, consts |-> b.consts, panicked |-> b.panicked,
                    natives |-> natives] : b \in {build_quotient_program_items(natives)}}
    /\ UNCHANGED identities

VmNext == AddGate \/ AddArgument \/ quotient_program_plan

VmSpec == VmInit /\ [][VmNext]_vmVars

-----------------------------------------------------------------------------
(* Properties                                                              *)

\* The Rust verifier's sums: identity i of n is weighted by y^(n - i).
Batched(target, memory, y) ==
    FieldSum([i \in DOMAIN identities |->
             IF identities[i].target = target
             THEN Mod(Value(identities[i].expr, memory)
                      * (IF i = Len(identities) THEN 1 ELSE y^(Len(identities) - i)))
             ELSE 0])

\* Whatever mix of inline code, fused instructions and callbacks an identity
\* stream is lowered to, the contract returns the negated sum of the fully
\* evaluated identities and the sum of each selector's, as the Rust verifier
\* batches them.
NumeratorExact ==
    \A p \in program : ~p.panicked => \A memory \in Memories, y \in BatchChallenges :
        RunProgram(p, memory, y) =
            [expected_eval |-> Mod(VmField - Batched(Main, memory, y)),
             buckets |-> [s \in 1 .. Selectors |-> Batched(s, memory, y)]]

\* Lowering meets no failed assertion - a leaking or underflowing stack, a
\* stack that grows past what is reserved - as long as the constants of the
\* program fit one-byte slots.
LoweringSucceedsInSlots ==
    \A p \in program : p.panicked => Len(p.consts) > U8Slots

\* The lowering succeeds, and what it emits computes the numerator.
NumeratorLowered == NumeratorExact /\ LoweringSucceedsInSlots
=============================================================================
