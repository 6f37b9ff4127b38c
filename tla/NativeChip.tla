----------------------------- MODULE NativeChip -----------------------------
(***************************************************************************)
(* Native field arithmetic in a circuit                                    *)
(* (circuits/src/field/native/native_chip.rs).                             *)
(*                                                                         *)
(* An instruction lays out rows of advice cells under the arithmetic gate  *)
(* and copies its arguments into them; the other cells are the prover's.   *)
(* Here an instruction is the SET of results for which the prover can fill *)
(* those cells: no result means that the circuit is unsatisfiable, more    *)
(* than one that the result is not determined.  Arguments are the values   *)
(* of cells; that an instruction treats some cells differently (the cached *)
(* constants) is left to the machine that uses it.                         *)
(***************************************************************************)
EXTENDS Integers, SequencesExt

CONSTANT P     \* the order of the field, a prime

F == 0 .. P - 1
Fe(n) == n % P
Bits == {0, 1}

\* The arithmetic gate on a row: its five value columns with their
\* coefficients, the first value of the row below, the products of the first
\* value with the second and with the third, and the constant.
ArithGate(v, c, qbelow, below, mulab, mulac, constant) ==
    Fe(constant + c[1] * v[1] + c[2] * v[2] + c[3] * v[3] + c[4] * v[4] + c[5] * v[5]
       + qbelow * below + mulab * v[1] * v[2] + mulac * v[1] * v[3]) = 0

Gate(values, coeffs, muls, constant) ==
    ArithGate(values, coeffs, 0, 0, muls[1], muls[2], constant)

\* The gate of the conditional swap.
Gate12Minus34(values) == Fe(values[2] + values[3] - values[4] - values[5]) = 0

-----------------------------------------------------------------------------
(* Arithmetic                                                              *)

\* ax + by + cz + k + m1 xy + m2 xz
AddAndDoubleMul(a, x, b, y, c, z, k, m1, m2) ==
    {res \in F : Gate(<<x, y, z, 0, res>>, <<a, b, c, 0, -1>>, <<m1, m2>>, k)}

AddAndMul(a, x, b, y, c, z, k, m) == AddAndDoubleMul(a, x, b, y, c, z, k, m, 0)

\* The cells x and r, with (x - shift) r = 1.
AssignWithShiftedInverse(shift) ==
    {xr \in F \X F : Gate(<<xr[1], xr[2], 0, 0, 0>>, <<0, -shift, 0, 0, 0>>, <<1, 0>>, -1)}

\* The rows of a linear combination with at most cols terms each.
LcChunks(n, cols) ==
    IF n = 0 THEN <<<<>>>>
    ELSE [r \in 1 .. (n + cols - 1) \div cols |->
            [j \in 1 .. (IF r * cols <= n THEN cols ELSE n - (r - 1) * cols) |-> (r - 1) * cols + j]]

\* The terms of a row in the columns after the first.
LcColumns(row, values) == [j \in 1 .. 4 |-> IF j <= Len(row) THEN values[row[j]] ELSE 0]

\* assign_linear_combination_aux: a row holds the result, its terms and, in the
\* row below, the result of the remaining terms; the constant is in the first.
AssignLinearCombinationAux(coeffs, terms, constant, cols) ==
    LET rows == LcChunks(Len(terms), cols)
        above(r, belows) ==
            LET values == LcColumns(rows[r], terms)
                factors == <<-1>> \o LcColumns(rows[r], coeffs)
            IN {res \in F : \E below \in belows :
                    ArithGate(<<res>> \o values, factors, IF r = Len(rows) THEN 0 ELSE 1, below,
                              0, 0, IF r = 1 THEN constant ELSE 0)}
        results[r \in 1 .. Len(rows) + 1] ==
            IF r > Len(rows) THEN {0} ELSE above(r, results[r + 1])
    IN results[1]

AssignBit == {b \in F : Gate(<<b, b, 0, 0, 0>>, <<-1, 0, 0, 0, 0>>, <<1, 0>>, 0)}

Mul(x, y, m) == AddAndMul(0, x, 0, y, 0, x, 0, m)

Inv(x) == {xr[2] : xr \in {yr \in AssignWithShiftedInverse(0) : yr[1] = x}}

Div(x, y) == UNION {Mul(x, inv, 1) : inv \in Inv(y)}

AssertNotEqual(x, y) ==
    \E r \in F : Gate(<<r, x, y, 0, 0>>, <<0, 0, 0, 0, 0>>, <<1, -1>>, -1)

AssertNotEqualToFixed(x, c) == \E yr \in AssignWithShiftedInverse(c) : yr[1] = x

-----------------------------------------------------------------------------
(* Bits, equality and control flow                                         *)

And2(a, b) == Mul(a, b, 1)
Or2(a, b) == AddAndMul(1, a, 1, b, 0, a, 0, -1)
Xor2(a, b) == AddAndMul(1, a, 1, b, 0, a, 0, -2)
Not(b) == AssignLinearCombinationAux(<<-1>>, <<b>>, 1, 4)

\* One bit after the other is folded into the accumulator.
FoldBits(op(_, _), bits) ==
    FoldLeft(LAMBDA accs, b : UNION {op(acc, b) : acc \in accs}, {bits[1]}, Tail(bits))

\* aux (x - y) = 1 - res and res (x - y) = 0
IsEqual(x, y) ==
    {res \in F : /\ \E aux \in F : Gate(<<aux, x, y, 0, res>>, <<0, 0, 0, 0, 1>>, <<1, -1>>, -1)
                 /\ 0 \in AddAndDoubleMul(0, res, 0, x, 0, y, 0, 1, -1)}

IsNotEqual(x, y) ==
    {res \in F : /\ \E aux \in F : Gate(<<aux, x, y, 0, res>>, <<0, 0, 0, 0, -1>>, <<1, -1>>, 0)
                 /\ 0 \in AddAndDoubleMul(0, res, 1, x, -1, y, 0, -1, 1)}

IsEqualToFixed(x, c) ==
    {res \in F : /\ \E aux \in F : Gate(<<aux, x, 0, 0, res>>, <<-c, 0, 0, 0, 1>>, <<1, 0>>, -1)
                 /\ 0 \in AddAndMul(-c, res, 0, x, 0, x, 0, 1)}

IsNotEqualToFixed(x, c) ==
    {res \in F : /\ \E aux \in F : Gate(<<aux, x, 0, 0, res>>, <<-c, 0, 0, 0, -1>>, <<1, 0>>, 0)
                 /\ 0 \in AddAndMul(c, res, 1, x, 0, x, -c, -1)}

BitsEqual(a, b) == AddAndMul(-1, a, -1, b, 0, a, 1, 2)

Select(cond, x, y) == AddAndDoubleMul(0, cond, 0, x, 1, y, 0, 1, -1)

CondSwap(cond, x, y) ==
    {fs \in F \X F : LET row == <<cond, x, y, fs[1], fs[2]>>
                     IN Gate(row, <<0, 0, 1, 0, -1>>, <<1, -1>>, 0) /\ Gate12Minus34(row)}

Inv0(x) ==
    UNION {UNION {Select(z, 0, inv) : inv \in UNION {Inv(i) : i \in Select(z, 1, x)}}
           : z \in IsEqualToFixed(x, 0)}

\* le_bits_geq_than: from the least significant bit on, the bits read so far
\* against the same bits of the bound.
LeBitsGeqThan(bits, bound) ==
    LET n == Len(bits)
        step(accs, i) ==
            LET rest == bound % 2^i
            IN UNION {IF rest = 0 THEN {1}
                      ELSE IF i = 1 THEN {bits[1]}
                      ELSE IF (rest \div 2^(i-1)) % 2 = 1
                      THEN And2(bits[i], acc) ELSE Or2(bits[i], acc) : acc \in accs}
    IN IF bound = 0 THEN {1}
       ELSE IF bound >= 2^n THEN {0}
       ELSE FoldLeft(step, {1}, [i \in 1 .. n |-> i])

LeBitsLowerThan(bits, bound) == UNION {Not(geq) : geq \in LeBitsGeqThan(bits, bound)}
=============================================================================
