------------------------- MODULE NativeInstructions -------------------------
(***************************************************************************)
(* Instructions on native field elements whose constraints depend on       *)
(* nothing but their arguments (circuits/src/field/native/native_chip.rs,  *)
(* native_gadget.rs, circuits/src/instructions): every one is called with  *)
(* all values of the field, and what the prover can make it return is      *)
(* compared with what it documents.                                        *)
(***************************************************************************)
EXTENDS DecompositionChip

CONSTANT ByteBits    \* the bits of a byte

ASSUME NativeAssumption ==
    /\ P \in Nat /\ P > 2 /\ \A d \in 2 .. P - 1 : P % d # 0
    /\ LookupCols \in Nat \ {0} /\ MaxBitLen \in Nat \ {0} /\ ByteBits \in Nat \ {0}

VARIABLE call        \* the instruction, its arguments and the results it allows

NoCall == [op |-> "none", args |-> <<>>, results |-> {}]

Byte == 2^ByteBits
NumBytes == (NumBits + ByteBits - 1) \div ByteBits
MaxBound == NumBits - 2

\* Results are sequences of cells; an assertion returns none.
One(S) == {<<x>> : x \in S}
If(holds) == IF holds THEN {<<>>} ELSE {}

-----------------------------------------------------------------------------
(* Range checks and comparisons                                            *)

\* Largest k with 2^k <= bound.
Log(bound) == CHOOSE k \in 0 .. bound : 2^k <= bound /\ bound < 2^(k+1)

\* x < bound: directly for a power of two, else x or x - (bound - 2^k) is less
\* than 2^k, as a bit of the prover's says.
LowerThanConstraint(x, bound) ==
    LET k == Log(bound)
    IN IF bound = 2^k THEN LessThanPow2(x, k)
       ELSE \E b \in AssignBit :
              \E shifted \in AssignLinearCombinationAux(<<1>>, <<x>>, -(bound - 2^k), 4) :
                 \E y \in Select(b, x, shifted) : LessThanPow2(y, k)

AssignLowerThanFixed(bound) == {x \in F : LowerThanConstraint(x, bound)}

\* b with z = x - y or, if b is set, z = y - 1 - x, and z in range.
LowerThanBits(x, y, bits) ==
    {b \in AssignBit :
        \E bx \in Mul(x, b, 1), by \in Mul(y, b, 1) :
           \E z \in AssignLinearCombinationAux(<<2, -1, 1, -2, -1>>, <<by, b, x, bx, y>>, 0, 4) :
              LessThanPow2(z, bits)}

LowerThanFixedBits(x, y, bits) ==
    {b \in AssignBit :
        \E bx \in Mul(x, b, 1) :
           \E z \in AssignLinearCombinationAux(<<2 * y - 1, 1, -2>>, <<b, x, bx>>, -y, 4) :
              LessThanPow2(z, bits)}

Leq(x, y, bits) == UNION {Or2(lt, eq) : lt \in LowerThanBits(x, y, bits), eq \in IsEqual(x, y)}

Geq(x, y, bits) == UNION {Not(lt) : lt \in LowerThanBits(x, y, bits)}

\* div_rem by a constant, of a dividend that is at most the bound: quotient and
\* remainder are range-checked, their recombination is a field element.
DivRem(x, d, bound) ==
    IF d = 1 THEN {<<x, 0>>}
    ELSE {qr \in AssignLowerThanFixed((bound \div d) + 1) \X AssignLowerThanFixed(d) :
            x \in AssignLinearCombinationAux(<<d, 1>>, qr, 0, 4)}

-----------------------------------------------------------------------------
(* Sign and decomposition                                                  *)

\* x = 2w + e with w at most (P-1)/2; zero has two such forms.
Sgn0(x) ==
    UNION {UNION {UNION {And2(nz, ew[1]) : nz \in Not(z)} : z \in IsEqualToFixed(x, 0)}
           : ew \in {q \in AssignBit \X AssignLowerThanFixed((P + 1) \div 2) :
                        x \in AssignLinearCombinationAux(<<1, 2>>, q, 0, 4)}}

\* Bug: the least significant bit is not compared with the sign.
LeBitsUnchecked(x, n, canonical) == DecomposeFixedLimbSize(x, n, 1)

LeBits(x, n, canonical) ==
    {bits \in DecomposeFixedLimbSize(x, n, 1) :
        canonical /\ n = NumBits => bits[1] \in Sgn0(x)}

\* As many bytes as the field has are composed of canonical bits.
LeBytes(x, n) ==
    IF n = NumBytes
    THEN {[k \in 1 .. n |->
             CHOOSE byte \in F :
                LET chunk == SubSeq(bits, (k - 1) * ByteBits + 1,
                                    IF k * ByteBits <= NumBits THEN k * ByteBits ELSE NumBits)
                IN byte \in AssignLinearCombinationAux([i \in DOMAIN chunk |-> 2^(i-1)], chunk, 0, 4)]
          : bits \in LeBits(x, NumBits, TRUE)}
    ELSE DecomposeFixedLimbSize(x, ByteBits * n, ByteBits)

\* assigned_from_le_bits and assigned_from_le_bytes
FromLe(parts, base) ==
    AssignLinearCombinationAux([i \in DOMAIN parts |-> Fe(base^(i-1))], parts, 0, 4)

-----------------------------------------------------------------------------
(* Calls                                                                   *)

CallInit == call = NoCall

Calls(op, args, results) ==
    call = NoCall /\ call' = [op |-> op, args |-> args, results |-> results]

\* One or two field elements, or one and a constant.
ArithmeticCall(x, y) ==
    \/ Calls("is_equal", <<x, y>>, One(IsEqual(x, y)))
    \/ Calls("is_equal", <<x, y>>, One(IsEqualToFixed(x, y)))
    \/ Calls("is_not_equal", <<x, y>>, One(IsNotEqual(x, y)))
    \/ Calls("is_not_equal", <<x, y>>, One(IsNotEqualToFixed(x, y)))
    \/ Calls("assert_not_equal", <<x, y>>, If(AssertNotEqual(x, y)))
    \/ Calls("assert_not_equal", <<x, y>>, If(AssertNotEqualToFixed(x, y)))
    \/ Calls("div", <<x, y>>, One(Div(x, y)))
    \/ y = 0 /\ Calls("inv0", <<x>>, One(Inv0(x)))
    \/ y = 0 /\ Calls("sgn0", <<x>>, One(Sgn0(x)))
    \/ y > 0 /\ Calls("assert_lower_than", <<x, y>>, If(LowerThanConstraint(x, y)))

\* Bits, and values steered by one.
LogicCall(b, x, y) ==
    \/ Calls("select", <<b, x, y>>, One(Select(b, x, y)))
    \/ Calls("cond_swap", <<b, x, y>>, CondSwap(b, x, y))
    \/ x \in Bits /\ y \in Bits /\ \/ Calls("and", <<b, x, y>>, One(FoldBits(And2, <<b, x, y>>)))
                                   \/ Calls("or", <<b, x, y>>, One(FoldBits(Or2, <<b, x, y>>)))
                                   \/ Calls("xor", <<b, x, y>>, One(FoldBits(Xor2, <<b, x, y>>)))
    \/ x \in Bits /\ y = 0 /\ Calls("is_equal", <<b, x>>, One(BitsEqual(b, x)))

\* Bounded elements of n bits, which are less than 2^n, with n at most MaxBound.
CompareCall(x, y, n) ==
    \/ Calls("lower_than", <<x, y>>, One(LowerThanBits(x, y, n)))
    \/ Calls("lower_than", <<x, y>>, One(LowerThanFixedBits(x, y, n)))
    \/ Calls("leq", <<x, y>>, One(Leq(x, y, n)))
    \/ Calls("geq", <<x, y>>, One(Geq(x, y, n)))

DecomposeCall(x, n) ==
    \/ n <= NumBits /\ Calls("le_bits", <<x, n>>, LeBits(x, n, TRUE))
    \/ n <= NumBytes /\ Calls("le_bytes", <<x, n>>, LeBytes(x, n))
    \/ n = 0 /\ Calls("le_chunks", <<x>>, DecomposeFixedLimbSize(x, NumBits, MaxBitLen + 1))
    \/ Calls("geq", <<x, n>>, One(UNION {LeBitsGeqThan(bits, n) : bits \in LeBits(x, NumBits, TRUE)}))
    \/ Calls("lower_than", <<x, n>>, One(UNION {LeBitsLowerThan(bits, n) : bits \in LeBits(x, NumBits, TRUE)}))

\* The dividend is at most the bound, the divisor at most the bound.
DivRemCall(x, d, bound) == Calls("div_rem", <<x, d>>, DivRem(x, d, bound))

CallNext ==
    \/ \E x, y \in F : ArithmeticCall(x, y)
    \/ \E b \in Bits, x, y \in F : LogicCall(b, x, y)
    \/ \E n \in 1 .. MaxBound : \E x, y \in 0 .. 2^n - 1 : CompareCall(x, y, n)
    \/ \E x \in F, n \in 0 .. P : DecomposeCall(x, n)
    \/ \E bound \in F, d \in F \ {0} : \E x \in 0 .. bound :
          d <= bound /\ d * (bound \div d) + d <= P /\ DivRemCall(x, d, bound)
    \/ \E bits \in [1 .. NumBits -> Bits] : Calls("from_le", <<bits, 2>>, One(FromLe(bits, 2)))
    \/ \E bytes \in [1 .. NumBytes -> 0 .. Byte - 1] : Calls("from_le", <<bytes, Byte>>, One(FromLe(bytes, Byte)))

\* Calls of div_rem without a bound on the dividend.
DivRemNext == \E x \in F, d \in 1 .. P - 1 : DivRemCall(x, d, P - 1)

DivRemSpec == CallInit /\ [][DivRemNext]_call

-----------------------------------------------------------------------------
(* Properties                                                              *)

ValueOf(digits, base) == FoldLeft(+, 0, [i \in DOMAIN digits |-> digits[i] * base^(i-1)])
Truth(b) == {<<IF b THEN 1 ELSE 0>>}

\* What an instruction documents for its arguments.
Documents(op, a) ==
    CASE op = "assert_lower_than" -> If(a[1] < a[2])
      [] op = "assert_not_equal" -> If(a[1] # a[2])
      [] op = "is_equal" -> Truth(a[1] = a[2])
      [] op = "is_not_equal" -> Truth(a[1] # a[2])
      [] op = "lower_than" -> Truth(a[1] < a[2])
      [] op = "leq" -> Truth(a[1] <= a[2])
      [] op = "geq" -> Truth(a[1] >= a[2])
      [] op = "and" -> Truth(\A i \in 1 .. 3 : a[i] = 1)
      [] op = "or" -> Truth(\E i \in 1 .. 3 : a[i] = 1)
      [] op = "xor" -> Truth((a[1] + a[2] + a[3]) % 2 = 1)
      [] op = "select" -> {<<IF a[1] = 1 THEN a[2] ELSE a[3]>>}
      [] op = "cond_swap" -> {IF a[1] = 1 THEN <<a[3], a[2]>> ELSE <<a[2], a[3]>>}
      [] op = "div" -> {<<q>> : q \in {v \in F : a[2] # 0 /\ Fe(v * a[2]) = a[1]}}
      [] op = "inv0" -> {<<v>> : v \in {u \in F : IF a[1] = 0 THEN u = 0 ELSE Fe(u * a[1]) = 1}}
      [] op = "sgn0" -> Truth(a[1] % 2 = 1)
      [] op = "le_bits" -> {bits \in [1 .. a[2] -> Bits] : ValueOf(bits, 2) = a[1]}
      [] op = "le_bytes" -> {bytes \in [1 .. a[2] -> 0 .. Byte - 1] : ValueOf(bytes, Byte) = a[1]}
      [] op = "le_chunks" -> {chunks \in [1 .. 2 -> F] :
                                 /\ chunks[1] < 2^(MaxBitLen + 1) /\ chunks[2] < 2^(NumBits - MaxBitLen - 1)
                                 /\ Fe(ValueOf(chunks, 2^(MaxBitLen + 1))) = a[1]}
      [] op = "from_le" -> {<<Fe(ValueOf(a[1], a[2]))>>}
      [] op = "div_rem" -> {<<a[1] \div a[2], a[1] % a[2]>>}

\* Whatever the prover puts into the auxiliary cells, an instruction returns
\* what it documents and is unsatisfiable where it says so, and the documented
\* result can always be reached: also where a difference wraps around the field
\* or an element has two decompositions.
CallsExact == call # NoCall => call.results = Documents(call.op, call.args)

\* Division without a bound on the dividend returns its quotient and remainder
\* as integers, and nothing else; the test of div_rem has the result that wraps
\* around the field among those that must fail.
DivRemExact == call.op = "div_rem" => call.results = Documents(call.op, call.args)
=============================================================================
