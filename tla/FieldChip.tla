----------------------------- MODULE FieldChip -----------------------------
(***************************************************************************)
(* Emulated fields (circuits/src/field/foreign): an element of the         *)
(* integers modulo m is a vector of native limbs that stands for           *)
(* 1 + sum base^i x_i, every limb with bounds that are tracked and may     *)
(* leave the well-formed range, even below zero.  An equation modulo m is  *)
(* checked modulo the native prime and modulo auxiliary moduli, with       *)
(* quotients u and v_j whose ranges configure derives.                     *)
(*                                                                         *)
(*   ffChip   the parameters in use, an index of FfParams                  *)
(*   ffConfig the quotients' ranges that configure derived from them       *)
(*   ffs      the AssignedFields so far                                    *)
(*   ffWants  the field element each of them stands for, as documented     *)
(*   ffCall   the last operation and what came of it                       *)
(*                                                                         *)
(* Native instructions return what they document (NativeInstructions); an  *)
(* operation is the set of elements its constraints let the prover return, *)
(* or a panic.                                                             *)
(***************************************************************************)
EXTENDS Integers, Sequences, SequencesExt, FiniteSetsExt

CONSTANTS
    FfParams,                    \* FieldEmulationParams: a sequence of records
    RcColumns, RcBits,           \* parallel range checks of a row, and their largest size
    RcSearch,                    \* the larger powers of two tried for a range, 128 in the code
    LimitDivisor,                \* of normalize_if_approaching_limit, 10 in the code
    ConstantDivisor,             \* of mul_by_constant, 1000 in the code
    FfLoads, FfConstants,        \* limbs assigned at first, constants used as operands
    FfDigits, FfByteBits,        \* integers composed of digits, bits of a byte
    MaxFields                    \* bound on the elements

ASSUME FfAssumption ==
    /\ \A n \in DOMAIN FfParams :
        /\ FfParams[n].native \in Nat /\ FfParams[n].m \in Nat /\ FfParams[n].m > 1
        /\ FfParams[n].log2_base \in Nat \ {0} /\ FfParams[n].limbs \in Nat \ {0}
        /\ (2^FfParams[n].log2_base)^FfParams[n].limbs >= FfParams[n].m
    /\ LimitDivisor > 2 /\ ConstantDivisor > 0

VARIABLES ffChip, ffConfig, ffs, ffWants, ffCall

ffVars == <<ffChip, ffConfig, ffs, ffWants, ffCall>>

FfLimbIndices(p) == 1 .. p.limbs
FfBase(p) == 2^p.log2_base
Weighted(coeffs, limbs) ==
    LET sum[i \in 0 .. Len(limbs)] == IF i = 0 THEN 0 ELSE sum[i-1] + coeffs[i] * limbs[i]
    IN  sum[Len(limbs)]
CeilDiv(n, d) == -((-n) \div d)
FfBits(n) == CHOOSE k \in 0 .. n : n < 2^k /\ (k = 0 \/ 2^(k-1) <= n)

\* base_powers and double_base_powers, with the coefficients reduced modulo mod;
\* modulo m they are as they are.
BasePowers(p, mod) == [i \in FfLimbIndices(p) |-> ((FfBase(p)^(i-1)) % p.m) % mod]
CrossedBy(p, mod, ys) ==
    [i \in FfLimbIndices(p) |->
        Weighted([j \in DOMAIN ys |-> ((FfBase(p)^(i+j-2)) % p.m) % mod], ys)]
Crossed(p, mod, xs, ys) == Weighted(CrossedBy(p, mod, ys), xs)

-----------------------------------------------------------------------------
(* Ranges of the quotients                                                 *)

\* Rows that range checks of 0, 1, 2, ... bits take (compute_optimal_limb_sizes).
RangeRows ==
    FoldLeft(LAMBDA rows, n :
                Append(rows, 1 + Min({rows[n - k * l + 1] :
                    <<k, l>> \in {q \in (1 .. RcColumns) \X (1 .. RcBits) : q[1] * q[2] <= n}})),
             <<0>>, [n \in 1 .. 16 + RcSearch |-> n])

CeilLog2(n) == FfBits(n - 1)

\* The first of the cheapest powers of two from n on.
NextCheapestPowerOfTwo(n) ==
    LET log == CeilLog2(n)
        least == Min({RangeRows[log + i + 1] : i \in 0 .. RcSearch})
    IN  2^(log + Min({i \in 0 .. RcSearch : RangeRows[log + i + 1] = least}))

Shifts(p) == [i \in FfLimbIndices(p) |-> p.max_limb_bound]

\* The least and the largest value of an identity's expression with coefficients
\* modulo mod: products and sums of limbs of up to base - 1, or limbs of up to
\* max_limb_bound that are shifted by it.
ExprBounds(gate, p, mod) ==
    LET top == [i \in FfLimbIndices(p) |-> FfBase(p) - 1]
        sum == Weighted(BasePowers(p, mod), top)
        shifted == Weighted(BasePowers(p, mod), Shifts(p))
        shift == Weighted(BasePowers(p, p.m), Shifts(p))
        back == IF mod = p.m THEN shift ELSE shift % mod
    IN  IF gate = "mul" THEN <<-sum, Crossed(p, mod, top, top) + 2 * sum>>
        ELSE <<-sum - back, 2 * shifted - back>>

Gcd(n, d) == Max({k \in 1 .. d : n % k = 0 /\ d % k = 0})
Lcm(n, d) == (n * d) \div Gcd(n, d)

\* Bug: only the upper bound is compared with the least common multiple.
LcmReachedAbove(lcm, lower, upper) == lcm > upper

LcmReached(lcm, lower, upper) == lcm > -lower /\ lcm > upper

\* The moduli, in order, until the least common multiple exceeds the bounds.
NecessaryModuli(p, lower, upper) ==
    FoldLeft(LAMBDA acc, mj :
                IF LcmReached(acc.lcm, lower, upper) THEN acc
                ELSE [lcm |-> Lcm(acc.lcm, mj), moduli |-> Append(acc.moduli, mj)],
             [lcm |-> p.native, moduli |-> <<>>], p.moduli)

RangeSize(least, largest) == NextCheapestPowerOfTwo(largest - least + 1)

\* The multiples (vj + lj_min) * mj in the native field with vj in its range, and
\* whether the equation can wrap around the native modulus.
ModulusRange(gate, p, k_min, u_max, mj) ==
    LET b == ExprBounds(gate, p, mj)
        known == (k_min * p.m) % mj
        l_min == CeilDiv(b[1] - u_max * (p.m % mj) - known, mj)
        v_max == RangeSize(l_min, (b[2] - known) \div mj)
    IN  [modulus |-> mj, known |-> known,
         reached |-> {((v + l_min) * mj) % p.native : v \in 0 .. v_max - 1},
         wraps |-> \/ p.native <= -(b[1] - u_max * (p.m % mj) - known - (v_max + l_min) * mj)
                   \/ p.native <= b[2] - known - l_min * mj]

\* get_identity_auxiliary_bounds: for every native element the u in its range with
\* which it is (u + k_min) * m.
AuxiliaryBounds(gate, p) ==
    LET b == ExprBounds(gate, p, p.m)
        k_min == CeilDiv(b[1], p.m)
        u_max == RangeSize(k_min, b[2] \div p.m)
        lower == b[1] - (u_max + k_min) * p.m
        upper == b[2] - k_min * p.m
        taken == NecessaryModuli(p, lower, upper)
        ranges == [j \in DOMAIN taken.moduli |->
                     ModulusRange(gate, p, k_min, u_max, taken.moduli[j])]
    IN  [ranges |-> ranges,
         us |-> [r \in 0 .. p.native - 1 |->
                    {u \in 0 .. u_max - 1 : ((u + k_min) * p.m) % p.native = r}],
         panics |-> \/ ~LcmReached(taken.lcm, lower, upper)
                    \/ \E j \in DOMAIN ranges : ranges[j].wraps]

\* configure, for every set of parameters
Configured ==
    [n \in DOMAIN FfParams |->
        [mul |-> AuxiliaryBounds("mul", FfParams[n]),
         norm |-> AuxiliaryBounds("norm", FfParams[n])]]

\* well_formed_log2_bounds: the most significant limb has the bits that are left,
\* so that zero has one representation.
FfSizes ==
    [n \in DOMAIN FfParams |->
        LET p == FfParams[n]
        IN  [i \in FfLimbIndices(p) |->
                IF i = p.limbs THEN FfBits(p.m) - (p.limbs - 1) * p.log2_base ELSE p.log2_base]]

\* The limbs that pass their range checks, and their weights modulo every modulus.
FfRanges ==
    [n \in DOMAIN FfParams |->
        {limbs \in [DOMAIN FfSizes[n] -> 0 .. FfBase(FfParams[n]) - 1] :
            \A i \in DOMAIN limbs : limbs[i] < 2^FfSizes[n][i]}]
FfCandidates ==
    [n \in DOMAIN FfParams |->
        {[limbs |-> limbs,
          weights |-> [mod \in {FfParams[n].m} \cup Range(FfParams[n].moduli) |->
                        Weighted(BasePowers(FfParams[n], mod), limbs)]] :
            limbs \in FfRanges[n]}]

Prm == FfParams[ffChip]

WellFormedLog2Bounds == FfSizes[ffChip]
WellFormedBounds == [i \in FfLimbIndices(Prm) |-> <<0, 2^WellFormedLog2Bounds[i] - 1>>]
WellFormedLimbs == FfRanges[ffChip]

\* Some u and v_j in their ranges satisfy the identities, whose expression with
\* coefficients modulo mod is left[mod] - right[mod]; cells hold native field elements.
IdentitiesHold(config, left, right) ==
    \E u \in config.us[(left[Prm.m] - right[Prm.m]) % Prm.native] :
        \A j \in DOMAIN config.ranges :
            LET r == config.ranges[j]
                value == left[r.modulus] - right[r.modulus]
            IN  (value - u * (Prm.m % r.modulus) - r.known) % Prm.native \in r.reached

Moduli == {Prm.m} \cup Range(Prm.moduli)
LimbWeight(mod, limbs) == Weighted(BasePowers(Prm, mod), limbs)
Candidates == FfCandidates[ffChip]
LimbsOf(candidates) == {z.limbs : z \in candidates}

\* The well-formed limbs zs for which xs * ys + xs + ys = zs modulo every modulus.
MulSolutions(xs, ys) ==
    LET left == [mod \in Moduli |->
                   Crossed(Prm, mod, xs, ys) + LimbWeight(mod, xs) + LimbWeight(mod, ys)]
    IN  LimbsOf({z \in Candidates : IdentitiesHold(ffConfig.mul, left, z.weights)})

\* Those for which zs * ys + zs + ys = xs.
DivSolutions(xs, ys) ==
    LET left == [mod \in Moduli |-> LimbWeight(mod, ys) - LimbWeight(mod, xs)]
        factors == [mod \in Moduli |-> CrossedBy(Prm, mod, ys)]
    IN  LimbsOf({z \in Candidates :
            IdentitiesHold(ffConfig.mul, left,
                [mod \in Moduli |-> -Weighted(factors[mod], z.limbs) - z.weights[mod]])})

\* The shift modulo every modulus; modulo m it is as it is.
ShiftWeight(mod, shift) == IF mod = Prm.m THEN shift ELSE shift % mod

\* Those for which the shifted xs less the shift = zs.
NormSolutions(xs) ==
    LET shift == Weighted(BasePowers(Prm, Prm.m), Shifts(Prm))
        left == [mod \in Moduli |->
                   Weighted(BasePowers(Prm, mod), [i \in DOMAIN xs |-> xs[i] + Shifts(Prm)[i]])
                   - ShiftWeight(mod, shift)]
    IN  LimbsOf({z \in Candidates : IdentitiesHold(ffConfig.norm, left, z.weights)})

-----------------------------------------------------------------------------
(* AssignedField                                                           *)

FfPanic == [panics |-> TRUE, results |-> {}]
FfReturns(S) == [panics |-> FALSE, results |-> S]

\* A call on every result of another, which may have panicked itself.
FfThen(r, all) ==
    [panics |-> r.panics \/ \E s \in all : s.panics, results |-> UNION {s.results : s \in all}]

FfFe(n) == n % Prm.native

IsWellFormed(x) ==
    \A i \in DOMAIN x.bounds :
        x.bounds[i][1] >= 0 /\ FfBits(x.bounds[i][2]) <= WellFormedLog2Bounds[i]

\* Constants with the same value have the same cell.
WellFormedField(limbs, fixed) == [limbs |-> limbs, bounds |-> WellFormedBounds, fixed |-> fixed]

\* bi_to_limbs of an element, one less for the unique zero
FfLimbs(v) ==
    [i \in FfLimbIndices(Prm) |-> (((v - 1) % Prm.m) \div FfBase(Prm)^(i-1)) % FfBase(Prm)]

AssignFixedField(v) == WellFormedField(FfLimbs(v % Prm.m), TRUE)

\* x == the constant v: the same cells
IsFixedField(x, v) == x.fixed /\ x.limbs = FfLimbs(v)

\* bigint_limbs: a limb that may be negative is shifted by its lower bound.
FfInteger(x, i) ==
    LET shift == IF x.bounds[i][1] < 0 THEN -x.bounds[i][1] ELSE x.bounds[i][1]
    IN  FfFe(x.limbs[i] + shift) - shift

\* value
FfValue(x) ==
    (1 + Weighted([i \in FfLimbIndices(Prm) |-> FfBase(Prm)^(i-1)],
                  [i \in FfLimbIndices(Prm) |-> FfInteger(x, i)])) % Prm.m

\* make_canonical
MakeCanonical(x) ==
    IF \E i \in DOMAIN x.bounds :
            x.bounds[i][1] < -Prm.max_limb_bound \/ x.bounds[i][2] > Prm.max_limb_bound
    THEN FfPanic
    ELSE FfReturns({WellFormedField(zs, FALSE) : zs \in NormSolutions(x.limbs)})

FfNormalize(x) == IF IsWellFormed(x) THEN FfReturns({x}) ELSE MakeCanonical(x)

NormalizeIfApproachingLimit(x) ==
    LET threshold == Prm.max_limb_bound \div LimitDivisor
    IN  IF \E i \in DOMAIN x.bounds : x.bounds[i][1] < -threshold \/ x.bounds[i][2] > threshold
        THEN MakeCanonical(x) ELSE FfReturns({x})

-----------------------------------------------------------------------------
(* Arithmetic                                                              *)

\* A constant is added to the least significant limb for the implicit ones.
FirstLimb(n) == [i \in FfLimbIndices(Prm) |-> IF i = 1 THEN n ELSE 0]

\* Limbs and bounds of a new element, limb by limb.
LimbWise(values, bounds) ==
    NormalizeIfApproachingLimit(
        [limbs |-> [i \in DOMAIN values |-> FfFe(values[i])], bounds |-> bounds, fixed |-> FALSE])

FfAdd(x, y) ==
    IF IsFixedField(x, 0) THEN FfReturns({y})
    ELSE IF IsFixedField(y, 0) THEN FfReturns({x})
    ELSE LimbWise([i \in DOMAIN x.limbs |-> x.limbs[i] + y.limbs[i] + FirstLimb(1)[i]],
                  [i \in DOMAIN x.limbs |->
                     <<x.bounds[i][1] + y.bounds[i][1] + FirstLimb(1)[i],
                       x.bounds[i][2] + y.bounds[i][2] + FirstLimb(1)[i]>>])

FfSub(x, y) ==
    IF IsFixedField(y, 0) THEN FfReturns({x})
    ELSE LimbWise([i \in DOMAIN x.limbs |-> x.limbs[i] - y.limbs[i] + FirstLimb(-1)[i]],
                  [i \in DOMAIN x.limbs |->
                     <<x.bounds[i][1] - y.bounds[i][2] + FirstLimb(-1)[i],
                       x.bounds[i][2] - y.bounds[i][1] + FirstLimb(-1)[i]>>])

FfNeg(x) ==
    IF IsFixedField(x, 0) THEN FfReturns({x})
    ELSE LimbWise([i \in DOMAIN x.limbs |-> FirstLimb(-2)[i] - x.limbs[i]],
                  [i \in DOMAIN x.limbs |->
                     <<FirstLimb(-2)[i] - x.bounds[i][2], FirstLimb(-2)[i] - x.bounds[i][1]>>])

\* The limbs of the constant itself are added.
FfAddConstant(x, k) ==
    IF k = 0 THEN FfReturns({x})
    ELSE LimbWise([i \in DOMAIN x.limbs |-> x.limbs[i] + FfLimbs(k + 1)[i]],
                  [i \in DOMAIN x.limbs |-> <<x.bounds[i][1] + FfLimbs(k + 1)[i],
                                              x.bounds[i][2] + FfLimbs(k + 1)[i]>>])

\* assign_mul: any well-formed z with x * y = z, or z * y = x for a division.
MulOf(nx, ny, division) ==
    [panics |-> nx.panics \/ ny.panics,
     results |-> {WellFormedField(zs, FALSE) :
                    zs \in UNION {IF division THEN DivSolutions(a.limbs, b.limbs)
                                  ELSE MulSolutions(a.limbs, b.limbs) :
                                     a \in nx.results, b \in ny.results}}]

AssignMul(x, y, division) == MulOf(FfNormalize(x), FfNormalize(y), division)

FfMulByConstant(x, k) ==
    IF k = 0 THEN FfReturns({AssignFixedField(0)})
    ELSE IF k = 1 THEN FfReturns({x})
    ELSE IF k > Prm.max_limb_bound \div (ConstantDivisor * FfBase(Prm))
    THEN AssignMul(x, AssignFixedField(k), FALSE)
    ELSE LimbWise([i \in DOMAIN x.limbs |-> k * x.limbs[i] + FirstLimb(k - 1)[i]],
                  [i \in DOMAIN x.limbs |-> <<k * x.bounds[i][1] + FirstLimb(k - 1)[i],
                                              k * x.bounds[i][2] + FirstLimb(k - 1)[i]>>])

\* The early returns come before the multiplying constant.
MulByEach(x, ky) == FfThen(ky, {AssignMul(x, y, FALSE) : y \in ky.results})

FfMul(x, y, k) ==
    IF IsFixedField(x, 0) \/ IsFixedField(y, 0) THEN FfReturns({AssignFixedField(0)})
    ELSE IF IsFixedField(x, 1) THEN FfReturns({y})
    ELSE IF IsFixedField(y, 1) THEN FfReturns({x})
    ELSE MulByEach(x, FfMulByConstant(y, k))

\* and of is_equal_to_fixed for every limb: zero has one representation.
HaveLimbs(r, limbs) == [r EXCEPT !.results = {nx.limbs = limbs : nx \in @}]
FfIsZero(x) == HaveLimbs(FfNormalize(x), FfLimbs(0))
AreZero(r) == FfThen(r, {FfIsZero(x) : x \in r.results})

\* With the divisor asserted not to be zero.
DivByEach(x, r) ==
    FfThen(r, {AssignMul(x, ny, TRUE) : ny \in {ny \in r.results : FALSE \in FfIsZero(ny).results}})

FfDiv(x, y) == IF IsFixedField(y, 1) THEN FfReturns({x}) ELSE DivByEach(x, FfNormalize(y))

FfInv(x) ==
    IF IsFixedField(x, 1) THEN FfReturns({x}) ELSE AssignMul(AssignFixedField(1), x, TRUE)

FfSelect(bit, x, y) ==
    [limbs |-> IF bit THEN x.limbs ELSE y.limbs,
     bounds |-> [i \in FfLimbIndices(Prm) |->
                    <<Min({x.bounds[i][1], y.bounds[i][1]}),
                      Max({x.bounds[i][2], y.bounds[i][2]})>>],
     fixed |-> FALSE]

SelectEach(zero, x, r) == [r EXCEPT !.results = {FfSelect(zero, x, y) : y \in @}]
Inv0Each(x, zeros) ==
    FfThen(zeros,
        {SelectEach(zero, AssignFixedField(0),
                    AssignMul(AssignFixedField(1), FfSelect(zero, AssignFixedField(1), x), TRUE)) :
            zero \in zeros.results})

FfInv0(x) == Inv0Each(x, FfIsZero(x))

\* linear_combination: a fold of mul_by_constant and add over <<constant, element>>.
AddEach(sums, prods) ==
    FfThen([sums EXCEPT !.panics = @ \/ prods.panics],
           {FfAdd(sum, prod) : sum \in sums.results, prod \in prods.results})

Combined(terms, constant) ==
    LET sums[n \in 0 .. Len(terms)] ==
            IF n = 0 THEN FfReturns({AssignFixedField(constant)})
            ELSE AddEach(sums[n-1], FfMulByConstant(terms[n][2], terms[n][1]))
    IN  sums[Len(terms)]

NormalizeEachIfApproachingLimit(r) ==
    FfThen(r, {NormalizeIfApproachingLimit(x) : x \in r.results})

FfLinearCombination(terms, constant) ==
    NormalizeEachIfApproachingLimit(Combined(terms, constant))

-----------------------------------------------------------------------------
(* Decomposition, conversion and public inputs                             *)

DigitsOf(n, count, size) == [i \in 1 .. count |-> (n \div 2^(size * (i - 1))) % 2^size]
IntegerOf(digits, size) == Weighted([i \in DOMAIN digits |-> 2^(size * (i - 1))], digits)

\* assigned_to_le_bits: of one more, so that the limbs stand for the value; the
\* bits of a limb that exceeds its size cannot be assigned.
Sizeable(limbs) == \A i \in DOMAIN limbs : limbs[i] < 2^WellFormedLog2Bounds[i]
BitsOfLimbs(limbs) ==
    FlattenSeq([i \in DOMAIN limbs |-> DigitsOf(limbs[i], WellFormedLog2Bounds[i], 1)])

BitsOfEach(r, canonical) ==
    [r EXCEPT !.results =
        {bits \in {BitsOfLimbs(y.limbs) : y \in {y \in @ : Sizeable(y.limbs)}} :
            canonical => IntegerOf(bits, 1) < Prm.m}]

CanonicalEach(r) == FfThen(r, {MakeCanonical(next) : next \in r.results})
NormalizeEach(r) == FfThen(r, {FfNormalize(next) : next \in r.results})

FfToBits(x, canonical) ==
    BitsOfEach(IF canonical THEN CanonicalEach(FfAddConstant(x, 1)) ELSE FfAddConstant(x, 1),
               canonical)

\* assigned_to_le_chunks of a size that divides the base
ChunksOfLimbs(limbs, size) ==
    FlattenSeq([i \in DOMAIN limbs |-> DigitsOf(limbs[i], Prm.log2_base \div size, size)])
ChunksOfEach(r, size) == [r EXCEPT !.results = {ChunksOfLimbs(y.limbs, size) : y \in @}]

FfToChunks(x, size) == ChunksOfEach(NormalizeEach(FfAddConstant(x, 1)), size)

\* assigned_field_from_limb: one less, for the implicit one.
FfFromLimb(limb) ==
    [limbs |-> [i \in FfLimbIndices(Prm) |-> FfFe(FirstLimb(limb - 1)[i])],
     bounds |-> [WellFormedBounds EXCEPT ![1] = <<@[1] - 1, @[2] - 1>>], fixed |-> FALSE]

\* assigned_from_le_bits and assigned_from_le_bytes
FfFromDigits(digits, size) ==
    LET count == Prm.log2_base \div size
        chunks == (Len(digits) + count - 1) \div count
        chunk(c) == SubSeq(digits, (c - 1) * count + 1, Min({c * count, Len(digits)}))
    IN  NormalizeEach(FfLinearCombination(
            [c \in 1 .. chunks |-> <<(2^(size * count * (c - 1))) % Prm.m,
                                     FfFromLimb(IntegerOf(chunk(c), size))>>], 0))

\* as_public_input of limbs: as many of them in a native element as fit.
PublicInput(limbs) ==
    LET batch == (FfBits(Prm.native) - 1) \div Prm.log2_base
    IN  [c \in 1 .. CeilDiv(Len(limbs), batch) |->
            IntegerOf(SubSeq(limbs, (c - 1) * batch + 1, Min({c * batch, Len(limbs)})),
                      Prm.log2_base)]

PublicInputs(r) == [r EXCEPT !.results = {PublicInput(y.limbs) : y \in @}]

\* assert_equal, limb by limb
SameEach(nx, ny) ==
    [panics |-> nx.panics \/ ny.panics,
     results |-> {x.limbs = y.limbs : x \in nx.results, y \in ny.results}]

-----------------------------------------------------------------------------
(* Calls                                                                   *)

NoFieldCall == [op |-> "none", args |-> <<>>, panics |-> FALSE, honest |-> TRUE, answers |-> {}]

FieldInit ==
    /\ ffChip \in DOMAIN FfParams /\ ffConfig = Configured[ffChip]
    /\ ~ffConfig.mul.panics /\ ~ffConfig.norm.panics
    /\ ffs = <<>> /\ ffWants = <<>> /\ ffCall = NoFieldCall

Running == ffCall.answers = {} /\ ~ffCall.panics

Keeps(x, want) ==
    /\ ffs' = Append(ffs, x) /\ ffWants' = Append(ffWants, want)
    /\ UNCHANGED <<ffChip, ffConfig>>

\* assign, with limbs that pass the range checks, or assign_fixed
LoadField ==
    /\ Running /\ Len(ffs) < 2
    /\ \/ \E limbs \in FfLoads \cap WellFormedLimbs :
            LET x == WellFormedField(limbs, FALSE) IN Keeps(x, FfValue(x))
       \/ ffs # <<>> /\ \E v \in FfConstants : Keeps(AssignFixedField(v), v % Prm.m)
    /\ UNCHANGED ffCall

Undefined == -1    \* the quotient by zero

\* An operation that returns an element for which want is documented; the honest
\* prover's is the canonical one.
Gains(op, r, want) ==
    LET known == {x.limbs : x \in Range(ffs)} \cup {FfLimbs(want)}
    IN  /\ ffCall' = [op |-> op, args |-> <<>>, panics |-> r.panics, answers |-> {},
                      honest |-> want = Undefined
                                 \/ \E e \in r.results : IsWellFormed(e) => e.limbs \in known]
        /\ \/ \E e \in r.results : Keeps(e, want)
           \/ r.results = {} /\ UNCHANGED <<ffChip, ffConfig, ffs, ffWants>>

\* An operation that returns something else.
Answers(op, args, r, honest) ==
    /\ ffCall' = [op |-> op, args |-> args, panics |-> r.panics,
                  honest |-> honest \in r.results, answers |-> r.results]
    /\ UNCHANGED <<ffChip, ffConfig, ffs, ffWants>>

IsCanonical(x) == IsWellFormed(x) => x.limbs = FfLimbs(FfValue(x))

InverseOf(v) == IF v = 0 THEN Undefined ELSE CHOOSE w \in 1 .. Prm.m - 1 : (v * w) % Prm.m = 1
Quotient(v, w) == IF w = 0 THEN Undefined ELSE (v * InverseOf(w)) % Prm.m

\* One of the elements is the latest; well-formed ones are no different from
\* those that were loaded.
Continues ==
    /\ Running /\ Len(ffs) \in 2 .. MaxFields - 1
    /\ Len(ffs) > 2 => ~IsWellFormed(Last(ffs))

UnaryOperation ==
    /\ Continues
    /\ \E i \in DOMAIN ffs :
        LET x == ffs[i]
            v == ffWants[i]
        IN  /\ Len(ffs) > 2 => i = Len(ffs)
            /\ \/ Gains("neg", FfNeg(x), (-v) % Prm.m)
               \/ Gains("inv", FfInv(x), InverseOf(v))
               \/ Gains("inv0", FfInv0(x), IF v = 0 THEN 0 ELSE InverseOf(v))
               \/ \E k \in FfConstants :
                    \/ Gains("add_constant", FfAddConstant(x, k), (v + k) % Prm.m)
                    \/ Gains("mul_by_constant", FfMulByConstant(x, k), (v * k) % Prm.m)

BinaryOperation ==
    /\ Continues
    /\ \E i, j \in DOMAIN ffs :
        LET x == ffs[i]
            y == ffs[j]
            v == ffWants[i]
            w == ffWants[j]
        IN  /\ Len(ffs) > 2 => Len(ffs) \in {i, j}
            /\ \/ Gains("add", FfAdd(x, y), (v + w) % Prm.m)
               \/ Gains("sub", FfSub(x, y), (v - w) % Prm.m)
               \/ Gains("div", FfDiv(x, y), Quotient(v, w))
               \/ Gains("select", FfReturns({FfSelect(TRUE, x, y)}), v)
               \/ \E k \in FfConstants :
                    \* not by a constant where a factor is the constant one: see FfMul
                    /\ k # 1 => ~IsFixedField(x, 1) /\ ~IsFixedField(y, 1)
                    /\ Gains("mul", FfMul(x, y, k), (v * w * k) % Prm.m)
               \/ \E k \in FfConstants :
                    Gains("linear_combination", FfLinearCombination(<<<<k, x>>, <<1, y>>>>, k),
                          (k * v + w + k) % Prm.m)

\* assigned_from_le_bits, assigned_from_le_bytes and convert
FromDigits ==
    /\ Running /\ Len(ffs) = 2
    /\ \E n \in FfDigits :
        LET bits == DigitsOf(n, FfBits(Prm.m) + 1, 1)
            bytes == DigitsOf(n, 3, FfByteBits)
        IN  \/ Gains("from_le_bits", FfFromDigits(bits, 1), IntegerOf(bits, 1) % Prm.m)
            \/ Gains("from_le_bytes", FfFromDigits(bytes, FfByteBits),
                     IntegerOf(bytes, FfByteBits) % Prm.m)
            \/ n < 2^FfByteBits /\ Gains("convert", FfReturns({FfFromLimb(n)}), n % Prm.m)

Comparison ==
    /\ Continues
    /\ \E i, j \in DOMAIN ffs :
        LET x == ffs[i]
            y == ffs[j]
            v == ffWants[i]
            w == ffWants[j]
        IN  /\ Len(ffs) > 2 => Len(ffs) \in {i, j}
            /\ \/ Answers("is_equal", <<v, w>>, AreZero(FfSub(x, y)), v = w)
               \/ /\ IsCanonical(x) /\ IsCanonical(y)
                  /\ Answers("assert_equal", <<v, w>>,
                              SameEach(FfNormalize(x), FfNormalize(y)), v = w)
               \/ /\ IsCanonical(x)
                  /\ Answers("assert_equal", <<v, w>>,
                              HaveLimbs(FfNormalize(x), FfLimbs(w)), v = w)
               \/ Answers("is_equal", <<v, w>>,
                          AreZero(FfAddConstant(x, (-w) % Prm.m)), v = w)

Decomposition ==
    /\ Continues
    /\ \E i \in DOMAIN ffs :
        LET x == ffs[i]
            v == ffWants[i]
        IN  /\ Len(ffs) > 2 => i = Len(ffs)
            /\ \/ Answers("to_le_bits", <<v>>, FfToBits(x, TRUE), DigitsOf(v, FfBits(Prm.m), 1))
               \/ Answers("to_le_chunks", <<v>>, FfToChunks(x, 1),
                          DigitsOf(v, Prm.limbs * Prm.log2_base, 1))
               \/ Answers("as_public_input", <<v>>,
                          PublicInputs(FfNormalize(x)),
                          IF IsCanonical(x) THEN PublicInput(FfLimbs(v)) ELSE PublicInput(x.limbs))

FieldNext ==
    LoadField \/ UnaryOperation \/ BinaryOperation \/ FromDigits \/ Comparison \/ Decomposition

-----------------------------------------------------------------------------
(* Properties                                                              *)

\* Whatever the prover assigns, the limbs of an element stand for the element
\* that the operations document, and lie within the bounds tracked for them: no
\* equation that configure accepts wraps around, and no bound is too tight.
FieldElementsExact ==
    \A i \in DOMAIN ffs :
        /\ FfValue(ffs[i]) = ffWants[i]
        /\ \A l \in DOMAIN ffs[i].limbs :
             FfInteger(ffs[i], l) \in ffs[i].bounds[l][1] .. ffs[i].bounds[l][2]

\* Comparisons and decompositions have no answer but the right one: zero has one
\* representation, the bits are canonical, chunks stand for the element, and a
\* public input is that of no other element.
FieldAnswersExact ==
    \A answer \in ffCall.answers :
        CASE ffCall.op = "is_equal" -> answer = (ffCall.args[1] = ffCall.args[2])
          [] ffCall.op = "assert_equal" -> answer => ffCall.args[1] = ffCall.args[2]
          [] ffCall.op = "to_le_bits" -> IntegerOf(answer, 1) = ffCall.args[1]
          [] ffCall.op = "to_le_chunks" -> IntegerOf(answer, 1) % Prm.m = ffCall.args[1]
          [] ffCall.op = "as_public_input" ->
                \A v \in 0 .. Prm.m - 1 : PublicInput(FfLimbs(v)) = answer => v = ffCall.args[1]

\* The honest prover's canonical limbs, quotients and answers pass, and bounds
\* that are normalised in time never exceed what normalisation takes, but for a
\* multiplication by a constant, of which the code says so.
HonestFieldProver ==
    /\ ffCall.panics => ffCall.op \in {"mul_by_constant", "mul", "linear_combination"}
    /\ ~ffCall.panics => ffCall.honest

\* Emulated elements, comparisons and decompositions are right for any prover, and
\* an honest one succeeds.
FieldSound == FieldElementsExact /\ FieldAnswersExact /\ HonestFieldProver
=============================================================================
