--------------------------- MODULE BigUintGadget ---------------------------
(***************************************************************************)
(* Big unsigned integers in a circuit (circuits/src/biguint): limbs in     *)
(* base 2^Log2Base, each with a bound that is tracked and never checked    *)
(* again, over native instructions that return what they document          *)
(* (NativeInstructions).  An operation is the set of numbers its           *)
(* constraints let the prover return, or a panic.                          *)
(*                                                                         *)
(*   bigs     the AssignedBigUints so far; a limb is <<cell, value>>, a    *)
(*            cell the path of the calls that assigned it                  *)
(*   ints     the integer each of them stands for, as documented           *)
(*   outcome  what the last operation returned and should have returned    *)
(***************************************************************************)
EXTENDS Integers, Sequences, FiniteSets, SequencesExt

CONSTANTS
    Log2Base, BigP,             \* bits of a limb, the native modulus
    BigLoads, BigConstants,     \* <<nb_bits, value>> assigned, and the constants
    Exponents,                  \* of modular exponentiations
    MaxBigInputs, MaxBigs,      \* bounds on numbers brought in, and on all numbers
    MaxSearchBits               \* bound on the bits of a quotient and a remainder tried

ASSUME BigAssumption ==
    /\ Log2Base \in Nat \ {0} /\ BigP \in Nat /\ BigP > 2^Log2Base
    /\ \A l \in BigLoads : l[1] \in Nat /\ l[2] \in Nat /\ l[2] < 2^l[1]
    /\ BigConstants \subseteq Nat /\ Exponents \subseteq Nat

VARIABLES bigs, ints, outcome

bigVars == <<bigs, ints, outcome>>

Base == 2^Log2Base
BitLength(n) == CHOOSE k \in 0 .. n : n < 2^k /\ (k = 0 \/ 2^(k-1) <= n)
BigNumBits == BitLength(BigP)
LimbsFor(nb_bits) == (nb_bits + Log2Base - 1) \div Log2Base
MaxOf(i, j) == IF i > j THEN i ELSE j

BigValue(x) == FoldRight(LAMBDA limb, acc : limb[2] + Base * acc, x.limbs, 0)
NbBits(x) == BitLength(FoldRight(LAMBDA bound, acc : 2^bound - 1 + Base * acc, x.bounds, 0))
IsNormalized(x) == \A i \in DOMAIN x.bounds : x.bounds[i] <= Log2Base

BoundOfAddition(b1, b2) == IF b1 = 0 THEN b2 ELSE IF b2 = 0 THEN b1 ELSE 1 + MaxOf(b1, b2)

\* big_to_limbs, for a value that fits.
LimbValues(n, value) == [i \in 1 .. n |-> (value \div Base^(i-1)) % Base]

-----------------------------------------------------------------------------
(* Results                                                                 *)

Panic == [panics |-> TRUE, results |-> {}]
Returns(S) == [panics |-> FALSE, results |-> S]

\* The call f on every result of another.
Then(r, f(_)) ==
    LET all == {f(x) : x \in r.results}
    IN  [panics |-> r.panics \/ \E s \in all : s.panics, results |-> UNION {s.results : s \in all}]

Unless(panics, r) == IF panics THEN Panic ELSE r

-----------------------------------------------------------------------------
(* Auxiliary functions                                                     *)

\* All limbs have Log2Base bits, the most significant one what is left.
TopBound(nb_bits) == ((nb_bits - 1) % Log2Base) + 1

NumberOf(value, nb_bits, cell(_, _)) ==
    LET n == LimbsFor(nb_bits)
        values == LimbValues(n, value)
    IN  [limbs |-> [i \in 1 .. n |-> <<cell(i, values[i]), values[i]>>],
         bounds |-> [i \in 1 .. n |-> IF i = n THEN TopBound(nb_bits) ELSE Log2Base]]

ConstantCell(i, value) == <<0, value>>    \* one cell for every constant

\* assign_bounded: nb_bits - 1 overflows for a number of no bits.
AssignBounded(nb_bits, tag) ==
    Unless(nb_bits = 0,
           Returns({NumberOf(v, nb_bits, LAMBDA i, value : Append(tag, i)) : v \in 0 .. 2^nb_bits - 1}))

AssignFixedBig(c) == NumberOf(c, MaxOf(BitLength(c), 1), ConstantCell)

BigResize(n, x) ==
    [limbs |-> [i \in 1 .. n |-> IF i \in DOMAIN x.limbs THEN x.limbs[i] ELSE <<ConstantCell(i, 0), 0>>],
     bounds |-> [i \in 1 .. n |-> IF i \in DOMAIN x.bounds THEN x.bounds[i] ELSE 0]]

\* div_rem_native_by_base: every pair of a quotient and a remainder in range
\* that recombine to x in the field, as the integer they make.
DivRemByBase(x, bound) ==
    LET top == Base * 2^(MaxOf(bound, Log2Base) - Log2Base)
    IN  {n \in {x + k * BigP : k \in 0 .. top \div BigP} : n < top}

\* Bug: a payload with as many bits as the modulus passes.
OverflowsPastModulus(bound) == bound > BigNumBits

Overflows(bound) == bound >= BigNumBits

\* A limb with its carry is divided; what the bounds say of the state goes along.
Carried(state, limb, bound) ==
    [bound |-> MaxOf(bound, Log2Base) - Log2Base,
     overflow |-> state.overflow \/ Overflows(bound),
     paths |-> UNION {{[carry |-> m \div Base, values |-> Append(p.values, m % Base)] :
                          m \in DivRemByBase((p.carry + limb) % BigP, bound)} : p \in state.paths}]

CarriedThrough(wide) ==
    FoldLeft(LAMBDA state, i :
                Carried(state, wide.limbs[i][2], BoundOfAddition(state.bound, wide.bounds[i])),
             [bound |-> 0, overflow |-> FALSE, paths |-> {[carry |-> 0, values |-> <<>>]}],
             [i \in DOMAIN wide.limbs |-> i])

Normalized(end, n, tag) ==
    Unless(end.overflow,
        Returns({[limbs |-> [i \in 1 .. n |-> <<Append(tag, i), p.values[i]>>],
                  bounds |-> [i \in 1 .. n |-> Log2Base]] :
                    p \in {q \in end.paths : q.carry = 0}}))

NormalizeTo(n, x, tag) ==
    Unless(Len(x.limbs) > n, Normalized(CarriedThrough(BigResize(n, x)), n, tag))

Normalize(x, tag) ==
    IF IsNormalized(x) THEN Returns({x}) ELSE NormalizeTo(LimbsFor(NbBits(x)), x, tag)

LongerOf(x, y) == MaxOf(Len(x.limbs), Len(y.limbs))

LimbAt(x, i) == IF i \in DOMAIN x.limbs THEN x.limbs[i][2] ELSE 0     \* as resized

SameLimbs(x, y) == \A i \in 1 .. LongerOf(x, y) : LimbAt(x, i) = LimbAt(y, i)

\* From the least significant limb: greater here, or equal and so far.
BigGeq(x, y) ==
    FoldLeft(LAMBDA acc, i : LimbAt(x, i) > LimbAt(y, i) \/ (LimbAt(x, i) = LimbAt(y, i) /\ acc),
             TRUE, [i \in 1 .. LongerOf(x, y) |-> i])

\* PartialEq: the cells both have.
SameCells(x, y) ==
    \A i \in DOMAIN x.limbs \cap DOMAIN y.limbs : x.limbs[i][1] = y.limbs[i][1]

-----------------------------------------------------------------------------
(* Arithmetic                                                              *)

BigAdd(x, y, tag) ==
    LET n == LongerOf(x, y)
        both == DOMAIN x.limbs \cap DOMAIN y.limbs
        longer == IF Len(x.limbs) > Len(y.limbs) THEN x ELSE y
    IN  Normalize([limbs |-> [i \in 1 .. n |->
                       IF i \in both THEN <<Append(tag, i), (x.limbs[i][2] + y.limbs[i][2]) % BigP>>
                       ELSE longer.limbs[i]],
                   bounds |-> [i \in 1 .. n |->
                       IF i \in both THEN BoundOfAddition(x.bounds[i], y.bounds[i]) ELSE longer.bounds[i]]],
                  tag)

\* The sum of the terms at every position, with its bound.
Collect(n, positions(_), term(_, _), bound(_, _), tag) ==
    Normalize([limbs |-> [k \in 1 .. n |-> <<Append(tag, k),
                   FoldLeft(LAMBDA acc, i : (acc + term(i, k)) % BigP, 0, positions(k))>>],
               bounds |-> [k \in 1 .. n |->
                   FoldLeft(LAMBDA acc, i : BoundOfAddition(acc, bound(i, k)), 0, positions(k))]], tag)

Square(x, tag) ==
    LET n == Len(x.limbs)
        j(i, k) == k - i + 1
        half(k) == SelectSeq([i \in 1 .. n |-> i], LAMBDA i : j(i, k) >= i /\ j(i, k) <= n)
        twice(i, k) == IF i = j(i, k) THEN 1 ELSE 2
    IN  Unless(n = 0,
           Then(Normalize(x, tag), LAMBDA nx :
              Collect(2 * n - 1, half, LAMBDA i, k : twice(i, k) * nx.limbs[i][2] * nx.limbs[j(i, k)][2],
                      LAMBDA i, k : twice(i, k) - 1 + nx.bounds[i] + nx.bounds[j(i, k)], tag)))

BigMul(x, y, tag) ==
    LET nx == Len(x.limbs)
        ny == Len(y.limbs)
        terms(k) == SelectSeq([i \in 1 .. nx |-> i], LAMBDA i : k - i + 1 \in 1 .. ny)
    IN  IF SameCells(x, y) THEN Square(x, tag)
        ELSE Then(Normalize(x, Append(tag, 1)), LAMBDA a : Then(Normalize(y, Append(tag, 2)), LAMBDA b :
                Collect(nx + ny - 1, terms, LAMBDA i, k : a.limbs[i][2] * b.limbs[k - i + 1][2],
                        LAMBDA i, k : a.bounds[i] + b.bounds[k - i + 1], tag)))

\* res with res + y = x.
BigSub(x, y, tag) ==
    Then(AssignBounded(NbBits(x), tag), LAMBDA res :
        Then(BigAdd(res, y, Append(tag, 1)), LAMBDA z :
            Returns(IF SameLimbs(x, z) THEN {res} ELSE {})))

\* Pairs of a quotient and a remainder; the witness is computed with a division
\* that panics for a divisor of zero.
BigDivRem(x, y, tag) ==
    Unless(BigValue(y) = 0,
        Then(AssignBounded(NbBits(x), Append(tag, 2)), LAMBDA q :
            Then(BigMul(q, y, Append(tag, 3)), LAMBDA qy :
                Then(AssignBounded(NbBits(y), Append(tag, 4)), LAMBDA r :
                    IF BigGeq(r, y) THEN Returns({})
                    ELSE Then(BigAdd(qy, r, Append(tag, 1)), LAMBDA z :
                            Returns(IF SameLimbs(x, z) THEN {<<q, r>>} ELSE {}))))))

Remainder(x, m, tag) == Then(BigDivRem(x, m, tag), LAMBDA qr : Returns({qr[2]}))

\* Square and multiply; the last power is not squared any more.
Multiplied(p, m, tag) ==
    IF p.res = <<>> THEN Returns({[p EXCEPT !.res = <<p.tmp>>]})
    ELSE Then(BigMul(p.res[1], p.tmp, Append(tag, 1)), LAMBDA prod :
            Then(Remainder(prod, m, Append(tag, 2)), LAMBDA r :
                Returns({[p EXCEPT !.res = <<r>>]})))

Squared(p, m, tag) ==
    Then(Square(p.tmp, Append(tag, 3)), LAMBDA sq :
        Then(Remainder(sq, m, Append(tag, 4)), LAMBDA r : Returns({[p EXCEPT !.tmp = r]})))

ExpStep(state, bit, last, m, tag) ==
    Then(Then(state, LAMBDA p : IF bit = 1 THEN Multiplied(p, m, tag) ELSE Returns({p})),
         LAMBDA p : IF last THEN Returns({p}) ELSE Squared(p, m, tag))

ModExp(x, n, m, tag) ==
    IF n = 0 THEN Returns({AssignFixedBig(1)})
    ELSE Then(FoldLeft(LAMBDA state, i :
                          ExpStep(state, (n \div 2^(i-1)) % 2, i = BitLength(n), m, Append(tag, i)),
                       Returns({[tmp |-> x, res |-> <<>>]}), [i \in 1 .. BitLength(n) |-> i]),
              LAMBDA p : Returns({p.res[1]}))

\* to_le_bits and from_le_bits of the first n.
BigFromBits(x, n, tag) ==
    LET value == BigValue(x) % 2^n
        chunks == LimbsFor(n)
        bits(i) == IF i * Log2Base <= n THEN Log2Base ELSE n % Log2Base
    IN  [limbs |-> [i \in 1 .. chunks |-> <<Append(tag, i), LimbValues(chunks, value)[i]>>],
         bounds |-> [i \in 1 .. chunks |-> bits(i)]]

BigSelect(cond, x, y, tag) ==
    LET n == LongerOf(x, y)
        a == BigResize(n, x)
        b == BigResize(n, y)
    IN  [limbs |-> [i \in 1 .. n |-> <<Append(tag, i), (IF cond THEN a ELSE b).limbs[i][2]>>],
         bounds |-> [i \in 1 .. n |-> MaxOf(a.bounds[i], b.bounds[i])]]

-----------------------------------------------------------------------------
(* The operations                                                          *)

Done == [op |-> "none", args |-> <<>>, ended |-> "ok", wanted |-> {}]

BigInit == bigs = <<>> /\ ints = <<>> /\ outcome = Done

\* Two numbers of different lengths that the code takes for one: the cells of
\* the shorter are the first of the longer (constants share theirs), or it has
\* none.
Confused(i, j) == SameCells(bigs[i], bigs[j]) /\ Len(bigs[i].limbs) # Len(bigs[j].limbs)

Undocumented ==
    \/ outcome.op = "mul" /\ Confused(outcome.args[1], outcome.args[2])
    \/ outcome.op = "mod_exp" /\ outcome.args[3] < 2

Tag == <<Len(bigs) + 1>>
Numbers == DOMAIN bigs
\* A series ends with a number that may not be the documented one.
Going == outcome.ended = "ok" /\ ~Undocumented /\ Len(bigs) < MaxBigs

\* The prover returns one of the results; wanted is the documented one, if any.
Performs(op, args, r, wanted) ==
    /\ Going
    /\ \/ /\ \E x \in r.results : bigs' = Append(bigs, x) /\ ints' = Append(ints, wanted)
          /\ ~r.panics /\ outcome' = [op |-> op, args |-> args, ended |-> "ok", wanted |-> wanted]
       \/ /\ r.panics \/ r.results = {}
          /\ outcome' = [op |-> op, args |-> args, wanted |-> wanted,
                         ended |-> IF r.panics THEN "panic" ELSE "unsatisfied"]
          /\ UNCHANGED <<bigs, ints>>

ValueAt(i) == CHOOSE v \in ints[i] : TRUE

Brings == Len(bigs) < MaxBigInputs
AssignBiguint == Brings /\ \E l \in BigLoads :
    Performs("assign", <<>>, Returns({NumberOf(l[2], l[1], LAMBDA i, value : Append(Tag, i))}), {l[2]})
AssignFixedBiguint == Brings /\ \E c \in BigConstants :
    Performs("fixed", <<>>, Returns({AssignFixedBig(c)}), {c})

Adds == \E i, j \in Numbers :
    Performs("add", <<i, j>>, BigAdd(bigs[i], bigs[j], Tag), {ValueAt(i) + ValueAt(j)})
Subs == \E i, j \in Numbers :
    Performs("sub", <<i, j>>, BigSub(bigs[i], bigs[j], Tag),
             IF ValueAt(i) >= ValueAt(j) THEN {ValueAt(i) - ValueAt(j)} ELSE {})
Muls == \E i, j \in Numbers :
    Performs("mul", <<i, j>>, BigMul(bigs[i], bigs[j], Tag), {ValueAt(i) * ValueAt(j)})
Divides == \E i, j \in Numbers, result \in 1 .. 2 :
    LET y == ValueAt(j)
    IN  /\ NbBits(bigs[i]) + NbBits(bigs[j]) <= MaxSearchBits
        /\ Performs("div_rem", <<i, j>>,
                Then(BigDivRem(bigs[i], bigs[j], Tag), LAMBDA qr : Returns({qr[result]})),
                IF y = 0 THEN {} ELSE {IF result = 1 THEN ValueAt(i) \div y ELSE ValueAt(i) % y})
Powers == \E i, j \in Numbers, n \in Exponents :
    /\ 3 * MaxOf(NbBits(bigs[i]), NbBits(bigs[j])) <= MaxSearchBits
    /\ Performs("mod_exp", <<i, j, n>>, ModExp(bigs[i], n, bigs[j], Tag),
             IF ValueAt(j) = 0 THEN {} ELSE {(IF n = 0 THEN 1 ELSE ValueAt(i)^n) % ValueAt(j)})
FromLeBits == \E i \in Numbers : \E n \in 0 .. Log2Base * Len(bigs[i].limbs) :
    Performs("from_le_bits", <<i>>, Returns({BigFromBits(bigs[i], n, Tag)}), {ValueAt(i) % 2^n})
Selects == \E i, j \in Numbers, cond \in BOOLEAN :
    Performs("select", <<i, j>>, Returns({BigSelect(cond, bigs[i], bigs[j], Tag)}),
             {IF cond THEN ValueAt(i) ELSE ValueAt(j)})

BigNext ==
    \/ AssignBiguint \/ AssignFixedBiguint \/ Adds \/ Subs \/ Muls \/ Divides \/ Powers
    \/ FromLeBits \/ Selects

BigSpec == BigInit /\ [][BigNext]_bigVars

-----------------------------------------------------------------------------
(* Properties                                                              *)

\* Whatever the prover fills in, a number is the integer its operation documents,
\* normalized, as comparisons assert, and its limbs are below the bounds that
\* later operations rely on.
NumbersExact ==
    \A i \in Numbers :
        /\ ints[i] = {BigValue(bigs[i])} /\ IsNormalized(bigs[i])
        /\ \A k \in DOMAIN bigs[i].limbs : bigs[i].limbs[k][2] < 2^(bigs[i].bounds[k])

\* NumbersExact, but for products of numbers the code confuses and powers that
\* are not reduced.
BigUintsExact == Undocumented \/ NumbersExact

\* A sum of as many products as the shorter number has limbs, and a carry.
FitsField(i, j) ==
    LET lengths == {Len(bigs[i].limbs), Len(bigs[j].limbs)}
    IN  Min(lengths) > 0 /\ 2 * Log2Base + Min(lengths) < BigNumBits

\* An operation with a documented result neither panics nor leaves the honest
\* prover without a witness, as long as a sum of products stays in the field.
BigCallsSucceed ==
    outcome.ended # "ok" =>
        outcome.wanted = {} \/ ~FitsField(outcome.args[1], outcome.args[2])

\* Comparisons answer for the integers, on numbers of any two lengths.
ComparisonsExact ==
    ~Undocumented => \A i, j \in Numbers :
        /\ SameLimbs(bigs[i], bigs[j]) = (ValueAt(i) = ValueAt(j))
        /\ BigGeq(bigs[i], bigs[j]) = (ValueAt(i) >= ValueAt(j))

\* The limbs the circuit publishes are the ones the verifier formats, in number
\* and in value: as_public_input has only the value and nb_bits.
PublishedLimbsAgree ==
    \A i \in Numbers :
        LET limbs == [k \in DOMAIN bigs[i].limbs |-> bigs[i].limbs[k][2]]
        IN  limbs = LimbValues(LimbsFor(NbBits(bigs[i])), BigValue(bigs[i]))

\* Big integers compute, compare and publish what is documented, for any prover,
\* and an honest one succeeds.
BigUintsSound == BigUintsExact /\ BigCallsSucceed /\ ComparisonsExact /\ PublishedLimbsAgree
=============================================================================
