-------------------------- MODULE DecompositionChip --------------------------
(***************************************************************************)
(* Range checks and decompositions by lookups                              *)
(* (circuits/src/field/decomposition/chip.rs, cpu_utils.rs, pow2range.rs). *)
(*                                                                         *)
(* A row holds up to LookupCols limbs, all checked with the one tag of the *)
(* row: less than 2^tag.  As in NativeChip, an operator is the set of what *)
(* the prover can assign.                                                  *)
(***************************************************************************)
EXTENDS NativeChip

CONSTANTS
    LookupCols,    \* values looked up in parallel in a row
    MaxBitLen      \* the largest tag of the table

NumBits == CHOOSE n \in 0 .. P : 2^n > P /\ 2^(n-1) <= P

SumOf(sizes) == FoldLeft(+, 0, sizes)

\* compute_optimal_limb_sizes: the rows of limbs of one size each with as few
\* rows as possible; among equals the first found, with few limbs of many bits.
OptLimbs[bound \in Nat] ==
    IF bound = 0 THEN <<>>
    ELSE LET pairs == {pl \in (1 .. LookupCols) \X (1 .. MaxBitLen) : pl[1] * pl[2] <= bound}
             before(p, q) ==
                LET rows(r) == Len(OptLimbs[bound - r[1] * r[2]])
                IN \/ rows(p) < rows(q)
                   \/ rows(p) = rows(q) /\ (p[1] < q[1] \/ (p[1] = q[1] /\ p[2] >= q[2]))
             best == CHOOSE p \in pairs : \A q \in pairs : before(p, q)
         IN Append(OptLimbs[bound - best[1] * best[2]], [i \in 1 .. best[1] |-> best[2]])

\* process_limb_sizes: zeros fill the last row.
ProcessLimbSizes(sizes) ==
    sizes \o [i \in 1 .. (LookupCols - (Len(sizes) % LookupCols)) % LookupCols |-> 0]

\* variable_limbsize_coefficients
LimbCoefficients(sizes) ==
    [i \in DOMAIN sizes |->
        IF sizes[i] = 0 THEN 0 ELSE Fe(2^SumOf(SubSeq(sizes, 1, i - 1)))]

\* The tag of the row a limb is in.
TagOf(sizes, i) == sizes[((i - 1) \div LookupCols) * LookupCols + 1]

\* The assignments of the limbs that the rows' lookups accept.
LookedUp(sizes) ==
    {limbs \in [DOMAIN sizes -> 0 .. 2^MaxBitLen - 1] :
        \A i \in DOMAIN sizes : limbs[i] < 2^TagOf(sizes, i)}

\* decompose_core: the result with its limbs of a size other than zero.
DecomposeCore(sizes) ==
    UNION {{<<y, [k \in 1 .. Len(SelectSeq(sizes, LAMBDA s : s > 0)) |->
                    limbs[CHOOSE i \in DOMAIN sizes :
                            /\ sizes[i] > 0
                            /\ Len(SelectSeq(SubSeq(sizes, 1, i), LAMBDA s : s > 0)) = k]]>>
            : y \in AssignLinearCombinationAux(LimbCoefficients(sizes), limbs, 0, LookupCols)}
           : limbs \in LookedUp(sizes)}

\* assign_less_than_pow2, which asserts that the bits are fewer than the field's:
\* the elements with the numbers of bits they pass for.
AssignLessThanPow2 ==
    UNION {LET rows == OptLimbs[n]
           IN {<<yl[1], n>> : yl \in
                 DecomposeCore(FlattenSeq([r \in DOMAIN rows |-> ProcessLimbSizes(rows[r])]))}
           : n \in 0 .. NumBits - 1}

LessThanPow2(x, n) == <<x, n>> \in AssignLessThanPow2

\* Limbs of one size and a smaller last one, decomposed at once while the table
\* has their size, and otherwise range-checked one by one.
FixedLimbSizes(bits, size) ==
    [i \in 1 .. bits \div size |-> size] \o (IF bits % size = 0 THEN <<>> ELSE <<bits % size>>)

\* The decompositions by the table: the result and its limbs.
TableLimbs ==
    [bs \in (0 .. NumBits) \X (1 .. MaxBitLen) |->
        LET full == ProcessLimbSizes([i \in 1 .. bs[1] \div bs[2] |-> bs[2]])
            last == bs[1] % bs[2]
        IN DecomposeCore(IF last = 0 THEN full ELSE ProcessLimbSizes(Append(full, last)))]

DecomposeFixedLimbSize(x, bits, size) ==
    IF size <= MaxBitLen
    THEN {yl[2] : yl \in {zl \in TableLimbs[<<bits, size>>] : zl[1] = x}}
    ELSE LET sizes == FixedLimbSizes(bits, size)
         IN {limbs \in [DOMAIN sizes -> F] :
                /\ \A i \in DOMAIN sizes : LessThanPow2(limbs[i], sizes[i])
                /\ x \in AssignLinearCombinationAux(LimbCoefficients(sizes), limbs, 0, LookupCols)}
=============================================================================
