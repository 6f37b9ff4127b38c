----------------------------- MODULE EdwardsEcc -----------------------------
(***************************************************************************)
(* Points of -x^2 + y^2 = 1 + d x^2 y^2 over the native field in a circuit *)
(* (circuits/src/ecc/native/edwards_chip.rs), a curve with a cofactor.  A  *)
(* point carries a flag that says that it is known to be in the subgroup   *)
(* of prime order: no constraint keeps it, only the code's bookkeeping.    *)
(* An operation is the set of points its gates let the prover return.      *)
(***************************************************************************)
EXTENDS Integers, Sequences, FiniteSets, SequencesExt

CONSTANTS
    EdField, EdD,            \* the curve
    EdOrder, EdCofactor,     \* the order of the subgroup, a prime, and its cofactor
    EdScalars,               \* assigned scalars: bits, least significant first, not reduced
    EdConstants,             \* constants points are multiplied by
    MaxEdLoads, MaxEdPoints  \* bounds on points brought in, and on all points

ASSUME EdAssumption ==
    /\ EdField \in Nat /\ EdOrder \in Nat /\ EdCofactor \in 2 .. EdOrder - 1
    /\ EdConstants \subseteq 0 .. EdOrder - 1

VARIABLE edPoints      \* [pt, in_subgroup, means: the point as documented]

EdFe == 0 .. EdField - 1
Ed(n) == n % EdField
EdId == <<0, 1>>

\* The gate q_mem.
EdMember(c) == Ed(c[2] * c[2] - c[1] * c[1] - 1 - EdD * c[1] * c[1] * c[2] * c[2]) = 0
EdCurve == {c \in EdFe \X EdFe : EdMember(c)}

\* The gate q_cond_add: r = q + b * s.
CondAddGate(q, s, b) ==
    LET e == Ed(b * EdD * Ed(q[1] * s[1]) * Ed(q[2] * s[2]))
    IN  {x \in EdFe : Ed(x * (1 + e)) = Ed(q[1] + b * (q[1] * s[2] + s[1] * q[2] - q[1]))}
        \X {y \in EdFe : Ed(y * (1 - e)) = Ed(q[2] + b * (q[2] * s[2] + q[1] * s[1] - q[2]))}

\* The gate q_double: q = 2 * p.
DoubleGate(p) ==
    LET e == Ed(EdD * Ed(p[1] * p[1]) * Ed(p[2] * p[2]))
    IN  {x \in EdFe : Ed(x * (1 + e)) = Ed(2 * p[1] * p[2])}
        \X {y \in EdFe : Ed(y * (1 - e)) = Ed(p[2] * p[2] + p[1] * p[1])}

CondAdds == [w \in EdCurve \X EdCurve \X {0, 1} |-> CondAddGate(w[1], w[2], w[3])]
Doubles == [p \in EdCurve |-> DoubleGate(p)]

\* Bug: the last bit is followed by a doubling, too.
DoubleAndAddAllRows(bits, base) ==
    LET AddThenDouble(b, accs) ==
            UNION {UNION {Doubles[s] : s \in CondAdds[acc, base, b]} : acc \in accs}
    IN  FoldRight(AddThenDouble, bits, {EdId})

\* add_then_double for all bits from the most significant one on, but the last.
DoubleAndAdd(bits, base) ==
    LET AddThenDouble(accs, b) ==
            UNION {UNION {Doubles[s] : s \in CondAdds[acc, base, b]} : acc \in accs}
        be == Reverse(bits)
    IN  IF bits = <<>> THEN {EdId}
        ELSE UNION {CondAdds[acc, base, Last(be)] :
                    acc \in FoldLeft(AddThenDouble, {EdId}, Front(be))}

\* to_bits_le without a length: at least one bit.
BitsLe(n) ==
    LET size == CHOOSE k \in 1 .. n + 1 : n < 2^k /\ (k = 1 \/ 2^(k-1) <= n)
    IN  [k \in 1 .. size |-> (n \div 2^(k-1)) % 2]

EdMulByConstant(n, base) ==
    IF n = 0 THEN {EdId} ELSE IF n = 1 THEN {base} ELSE DoubleAndAdd(BitsLe(n), base)

-----------------------------------------------------------------------------
(* The group, by the textbook                                              *)

EdInverse(n) == CHOOSE m \in EdFe : Ed(n * m) = 1
EdSum(p, q) ==
    LET e == Ed(EdD * Ed(p[1] * q[1]) * Ed(p[2] * q[2]))
    IN  <<Ed((p[1] * q[2] + q[1] * p[2]) * EdInverse(Ed(1 + e))),
          Ed((p[2] * q[2] + p[1] * q[1]) * EdInverse(Ed(1 - e)))>>
EdTimes(n, p) == FoldLeft(LAMBDA acc, k : EdSum(acc, p), EdId, [k \in 1 .. n |-> k])
EdSubgroup == {p \in EdCurve : EdTimes(EdOrder, p) = EdId}

BitsValue(bits) == FoldRight(LAMBDA b, acc : b + 2 * acc, bits, 0)

-----------------------------------------------------------------------------
(* Calls                                                                   *)

EdInit == edPoints = <<>>

NewEdPoint(p, in_subgroup, means) ==
    edPoints' = Append(edPoints, [pt |-> p, in_subgroup |-> in_subgroup, means |-> means])

\* assign, of any root the prover finds on the curve; assign_fixed and
\* assign_as_public_input, of values that are in the subgroup outside the
\* circuit; point_from_coordinates_unsafe, of any point of the curve.
EdAssign ==
    /\ Len(edPoints) < MaxEdLoads
    /\ \/ \E cf_root \in EdCurve : \E p \in EdMulByConstant(EdCofactor, cf_root) :
              NewEdPoint(p, TRUE, p)
       \/ \E p \in EdSubgroup : NewEdPoint(p, TRUE, p)
       \/ \E p \in EdCurve : NewEdPoint(p, FALSE, p)

ClearCofactor ==
    \E i \in DOMAIN edPoints :
        /\ ~edPoints[i].in_subgroup
        /\ \E p \in EdMulByConstant(EdCofactor, edPoints[i].pt) :
              NewEdPoint(p, TRUE, EdTimes(EdCofactor, edPoints[i].means))

BothInSubgroup(p, q) == p.in_subgroup /\ q.in_subgroup

EdArithmetic ==
    \E i, j \in DOMAIN edPoints :
        LET p == edPoints[i]
            q == edPoints[j]
        IN  \/ \E r \in CondAdds[p.pt, q.pt, 1] :
                  NewEdPoint(r, BothInSubgroup(p, q), EdSum(p.means, q.means))
            \/ i = j /\ NewEdPoint(<<Ed(-p.pt[1]), p.pt[2]>>, p.in_subgroup,
                                   <<Ed(-p.means[1]), p.means[2]>>)
            \/ \E cond \in BOOLEAN :
                  NewEdPoint(IF cond THEN p.pt ELSE q.pt, BothInSubgroup(p, q),
                             IF cond THEN p.means ELSE q.means)

EdMultiplyByConstant ==
    \E i \in DOMAIN edPoints, n \in EdConstants :
        \E r \in EdMulByConstant(n, edPoints[i].pt) :
            NewEdPoint(r, edPoints[i].in_subgroup \/ n = 0, EdTimes(n, edPoints[i].means))

\* msm of one and of two points of the subgroup: mul for each, then add.
EdMsm ==
    \E i, j \in DOMAIN edPoints, s, t \in EdScalars :
        LET p == edPoints[i]
            q == edPoints[j]
            Term(u, e) == EdTimes(BitsValue(u) % EdOrder, e.means)
        IN  /\ p.in_subgroup /\ q.in_subgroup
            /\ \E u \in DoubleAndAdd(s, p.pt) :
                 \/ i = j /\ s = t /\ NewEdPoint(u, TRUE, Term(s, p))
                 \/ \E v \in DoubleAndAdd(t, q.pt) : \E r \in CondAdds[u, v, 1] :
                       NewEdPoint(r, TRUE, EdSum(Term(s, p), Term(t, q)))

EdNext ==
    /\ Len(edPoints) < MaxEdPoints
    /\ EdAssign \/ ClearCofactor \/ EdArithmetic \/ EdMultiplyByConstant \/ EdMsm

-----------------------------------------------------------------------------
(* Properties                                                              *)

\* Every point the gates let a prover return is the one its call is documented
\* to return, for points outside the subgroup and scalars that exceed its
\* order, too: the denominators of the addition law never vanish and the rows
\* of a multiplication chain.
EdwardsExact == \A i \in DOMAIN edPoints : edPoints[i].pt = edPoints[i].means

\* A point that is flagged as in the subgroup is in it, in every assignment
\* that satisfies the constraints: assignment clears the cofactor, and no
\* series of calls makes a flag out of points that lack it.
SubgroupFlagsHold ==
    \A i \in DOMAIN edPoints : edPoints[i].in_subgroup => edPoints[i].pt \in EdSubgroup

\* Points of the native curve are what their calls document, and their flags true.
EdwardsSound == EdwardsExact /\ SubgroupFlagsHold
=============================================================================
