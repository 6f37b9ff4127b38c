----------------------------- MODULE ForeignEcc -----------------------------
(***************************************************************************)
(* Points of y^2 = x^3 + b over a foreign field in a circuit               *)
(* (circuits/src/ecc/foreign/ecc_chip.rs): complete and incomplete         *)
(* addition, constants, multi-scalar multiplication by windows with a      *)
(* point the prover picks, selection from tables by lookup.  An operation  *)
(* is the set of points its constraints let the prover return.             *)
(*                                                                         *)
(* A point is [id, x, y]; the coordinates of an identity are whatever the  *)
(* prover likes.  The base field and the scalar field behave as fields.    *)
(***************************************************************************)
EXTENDS Integers, Sequences, FiniteSets, SequencesExt

CONSTANTS
    EccField, EccB,            \* the curve
    EccOrder, EccGenerator,    \* its order, a prime, and a generator <<x, y>>
    ZetaBase, ZetaScalar,      \* the endomorphism (x, y) -> (ZetaBase * x, y) is ZetaScalar * P
    EccWindow,                 \* WS, the bits of a window
    DigitBits,                 \* the bits of a digit of a constant scalar (64)
    EccNative,                 \* the modulus of the native field
    IdCoordinates,             \* coordinates that provers give identities
    EccLoads,                  \* multiples of the generator that are assigned
    EccScalars,                \* scalars in cells: name -> value; "one" is the constant 1
    ConstantScalars,           \* the constants points are multiplied by
    MsmCalls,                  \* sequences of [base, scalar, bound]: indices, names, bits
    MaxEccLoads, MaxEccPoints  \* bounds on points brought in, and on all points

EccFe == 0 .. EccField - 1
Fq(n) == n % EccField
Fr(n) == n % EccOrder
EccNumBits(n) == CHOOSE k \in 0 .. n : n < 2^k /\ (k = 0 \/ 2^(k-1) <= n)
EccCeil(n, d) == (n + d - 1) \div d
ScalarBits == EccNumBits(EccOrder)
MaxDigits == 2

ASSUME EccAssumption ==
    /\ EccField \in Nat /\ EccOrder \in Nat /\ EccNative \in Nat
    /\ MaxDigits * DigitBits + 1 < ScalarBits
    /\ <<0, 0>> \in IdCoordinates /\ EccScalars["one"] = 1

VARIABLES
    eccPoints,      \* the AssignedForeignPoints: [key: their cells, pt, means: the multiple of
                    \* the generator they stand for, as documented]
    randomness,     \* msm_randomness: {} or {r} once a multi-scalar multiplication was made
    tag_cnt,        \* the tag of the next table
    tableRows,      \* the rows <<tag, index, x, y>> of all tables
    lastSelection   \* the indices selected by the last k_out_of_n_points

eccVars == <<eccPoints, randomness, tag_cnt, tableRows, lastSelection>>

-----------------------------------------------------------------------------
(* The curve, by the textbook                                              *)

Aff(x, y) == [id |-> FALSE, x |-> x, y |-> y]
Ids == UNION {{[id |-> TRUE, x |-> c[1], y |-> c[2]], [id |-> TRUE, x |-> c[1], y |-> Fq(-c[2])]} :
              c \in IdCoordinates}
OnCurve(x, y) == Fq(y * y - x * x * x - EccB) = 0
CurvePoints == Ids \cup {Aff(x, y) : <<x, y>> \in {c \in EccFe \X EccFe : OnCurve(c[1], c[2])}}

Inverted(n) == CHOOSE m \in EccFe : Fq(n * m) = 1
Chord(p, q) ==
    LET l == IF p = q THEN Fq(3 * p[1] * p[1] * Inverted(Fq(2 * p[2])))
                      ELSE Fq((q[2] - p[2]) * Inverted(Fq(q[1] - p[1])))
        x == Fq(l * l - p[1] - q[1])
    IN  <<x, Fq(l * (p[1] - x) - p[2])>>
Multiple[n \in 1 .. EccOrder - 1] ==
    IF n = 1 THEN EccGenerator ELSE Chord(Multiple[n-1], EccGenerator)
Multiples == [n \in 1 .. EccOrder - 1 |-> Multiple[n]]
Logs == [c \in Range(Multiples) |-> CHOOSE n \in 1 .. EccOrder - 1 : Multiples[n] = c]

\* assign_fixed: the identity has the coordinates 0, 0.
FixedPoint(n) ==
    IF Fr(n) = 0 THEN [id |-> TRUE, x |-> 0, y |-> 0]
    ELSE Aff(Multiples[Fr(n)][1], Multiples[Fr(n)][2])

EccValue(p) ==
    CASE p.id -> 0
      [] ~p.id /\ <<p.x, p.y>> \in DOMAIN Logs -> Logs[<<p.x, p.y>>]
      [] OTHER -> -1

-----------------------------------------------------------------------------
(* The gates                                                               *)

\* lambda is the slope between p and q, or -q.
AssertSlope(p, q, negate_q, lambda) ==
    Fq(lambda * (q.x - p.x)) = Fq((IF negate_q THEN -q.y ELSE q.y) - p.y)
AssertTangent(p, lambda) == Fq(2 * p.y * lambda) = Fq(3 * p.x * p.x)
AssertLambdaSquared(px, qx, rx, lambda) == Fq(lambda * lambda) = Fq(px + qx + rx)

\* The points r with r.x right for the slope, and -r on the line through p.
ThirdPoints(p, q, lambda) ==
    UNION {{Aff(x, y) : y \in {y \in EccFe : AssertSlope(p, Aff(x, y), TRUE, lambda)}} :
           x \in {x \in EccFe : AssertLambdaSquared(p.x, q.x, x, lambda)}}

AssertDouble(p) == UNION {ThirdPoints(p, p, l) : l \in {l \in EccFe : AssertTangent(p, l)}}
AssertAdd(p, q) == UNION {ThirdPoints(p, q, l) : l \in {l \in EccFe : AssertSlope(p, q, FALSE, l)}}

-----------------------------------------------------------------------------
(* Addition                                                                *)

Opposite(p, q) == p.x = q.x /\ Fq(p.y + q.y) = 0

\* Doubling where the points are equal, the chord where their x-coordinates
\* differ; an identity exactly for opposite coordinates.
Add(p, q) ==
    LET unconstrained == {Aff(x, y) : x, y \in EccFe}
        affine == IF p.x # q.x THEN AssertAdd(p, q)
                  ELSE IF p.y = q.y THEN AssertDouble(p) ELSE unconstrained
    IN  {r \in Ids \cup (IF p.id \/ q.id THEN {p, q} ELSE affine) :
            (p.id => r = q) /\ (q.id => r = p) /\ (r.id <=> Opposite(p, q))}

\* There are no points of order 2.
Double(p) == IF p.id THEN Ids ELSE AssertDouble(p)

Negate(p) == [p EXCEPT !.y = Fq(-@)]

\* For p and q that are not identities and differ.
IncompleteAdd(p, q) == {[r EXCEPT !.id = p.id] : r \in AssertAdd(p, q)}

\* The same, computed once for all points.
AddTable == [pq \in CurvePoints \X CurvePoints |-> Add(pq[1], pq[2])]
DoubleTable == [p \in CurvePoints |-> Double(p)]
IncompleteAddTable == [pq \in CurvePoints \X CurvePoints |-> IncompleteAdd(pq[1], pq[2])]

\* An operation on every point of a set.
Each(S, f(_)) == UNION {f(p) : p \in S}
FoldTo(k, base, f(_, _)) == FoldLeft(f, base, [n \in 1 .. k |-> n])

EccSelect(cond, p, q) == IF cond THEN p ELSE q
EccIsEqual(p, q) == (p.id = q.id) /\ ((p.x = q.x /\ p.y = q.y) \/ (p.id /\ q.id))

EccIsEqualToFixed(p, n) ==
    IF Fr(n) = 0 THEN p.id ELSE p.x = FixedPoint(n).x /\ p.y = FixedPoint(n).y /\ ~p.id
EccAssertEqual(p, q) == p = q

-----------------------------------------------------------------------------
(* Multiplication by a constant                                            *)

Bit(n, k) == (n \div 2^k) % 2

\* Double and add from the least significant bit; p is not an identity.  After
\* k bits: the pairs of the sum, {} if no bit was set, and of 2^k * p.
MulByU128(n, p) ==
    LET AddBit(k, res, tmp) ==
            IF Bit(n, k) = 0 THEN {res}
            ELSE IF res = {} THEN {{tmp}}
            ELSE {{s} : s \in Each(res, LAMBDA acc : IncompleteAddTable[acc, tmp])}
        Steps(states, k) ==
            UNION {UNION {{<<res, tmp>> : res \in AddBit(k, st[1], tmp)} :
                          tmp \in DoubleTable[st[2]]} : st \in states}
        start == {<<IF Bit(n, 0) = 1 THEN {p} ELSE {}, p>>}
    IN  IF n = 0 THEN {FixedPoint(0)}
        ELSE UNION {st[1] : st \in FoldTo(EccNumBits(n) - 1, start, Steps)}

\* A bug of the code, left as it is: the digits of a scalar of two digits are
\* added up, without shifting the second.
SmallScalar(scalar) == (scalar % 2^DigitBits) + (scalar \div 2^DigitBits)

-----------------------------------------------------------------------------
(* Tables and lookups                                                      *)

TableRows(tag, points_of) ==
    {<<tag, n - 1, points_of[n].x, points_of[n].y>> : n \in DOMAIN points_of}

\* A row of the table with this tag and index, whichever call loaded it.
MultiSelect(loaded, tag, selector) ==
    {Aff(row[3], row[4]) : row \in {row \in loaded : row[1] = tag /\ row[2] = selector}}

\* [-alpha, p - alpha, 2p - alpha, ...].
WindowTables(neg_alpha, p) ==
    FoldTo(2^EccWindow - 1, {<<neg_alpha>>},
           LAMBDA seqs, k :
               UNION {{Append(s, acc) : acc \in IncompleteAddTable[Last(s), p]} : s \in seqs})

NegAlphas(r) == {Negate(alpha) : alpha \in MulByU128(2^EccWindow - 1, r)}

-----------------------------------------------------------------------------
(* Multi-scalar multiplication: a term is [pt, scalar, bound]              *)

\* All choices of one table for every term, if no base is an identity and none
\* has the x-coordinate of alpha.
TableChoices(terms, neg_alpha) ==
    IF \A t \in Range(terms) : ~t.pt.id /\ t.pt.x # neg_alpha.x
    THEN FoldLeft(LAMBDA acc, t : {Append(ts, w) : ts \in acc, w \in WindowTables(neg_alpha, t.pt)},
                  {<<>>}, terms)
    ELSE {}

ChunkCount(t) == EccCeil(t.bound, EccWindow)
FitsChunks(t) == t.scalar < 2^(EccWindow * ChunkCount(t))
Window(t, k) == (t.scalar \div 2^(EccWindow * k)) % 2^EccWindow

\* The windows from the most significant one on: acc starts at l * r, which
\* every iteration keeps, and which is taken off at the end.
WindowedMsm(terms, r, tag, loaded) ==
    LET l == Len(terms)
        max_len == Max({ChunkCount(t) : t \in Range(terms)})
        Doubled(accs) == FoldTo(EccWindow, accs, LAMBDA S, n : Each(S, LAMBDA p : DoubleTable[p]))
        Added(accs, j, k) ==
            UNION {Each({acc \in accs : acc.x # addend.x},
                        LAMBDA acc : IncompleteAddTable[acc, addend]) :
                   addend \in MultiSelect(loaded, tag + j - 1, Window(terms[j], k))}
        Iteration(accs, i) ==
            FoldTo(l, Doubled(accs), LAMBDA S, j : Added(S, j, max_len - i))
    IN  IF ~ \A t \in Range(terms) : FitsChunks(t) THEN {}
        ELSE UNION {Each(FoldTo(max_len, {l_times_r}, Iteration),
                         LAMBDA acc : AddTable[acc, Negate(l_times_r)]) :
                    l_times_r \in MulByU128(l, r)}

\* Terms with one base are one term with the sum of their scalars, which needs
\* another bit.  Bases and scalars are compared by their cells.
MergeBases(terms) ==
    LET Merged(t, u) ==
            [t EXCEPT !.scalar = [key |-> <<t.scalar.key, u.scalar.key>>,
                                  value |-> Fr(t.scalar.value + u.scalar.value)],
                      !.bound = 1 + Max({t.bound, u.bound})]
        Known(acc, t) == {n \in DOMAIN acc : acc[n].base.key = t.base.key}
        Step(acc, t) ==
            IF Known(acc, t) = {} THEN Append(acc, t)
            ELSE [n \in DOMAIN acc |-> IF n \in Known(acc, t) THEN Merged(acc[n], t) ELSE acc[n]]
    IN  FoldLeft(Step, <<>>, terms)

\* Terms with one scalar and bound are one term with the sum of their bases.
MergeScalars(terms) ==
    LET Known(acc, t) == {n \in DOMAIN acc : acc[n].scalar = t.scalar /\ acc[n].bound = t.bound}
        Merged(acc, t, n) ==
            {[acc EXCEPT ![n].base.pt = sum] : sum \in AddTable[acc[n].base.pt, t.base.pt]}
        Step(accs, t) ==
            UNION {IF Known(acc, t) = {} THEN {Append(acc, t)}
                   ELSE UNION {Merged(acc, t, n) : n \in Known(acc, t)} : acc \in accs}
    IN  FoldLeft(Step, {<<>>}, terms)

\* A base that is an identity is replaced by the generator, its scalar by 0.
WithoutIdentity(t) ==
    [pt |-> EccSelect(t.base.pt.id, FixedPoint(1), t.base.pt),
     scalar |-> IF t.base.pt.id THEN 0 ELSE t.scalar.value, bound |-> t.bound]

GlvBits == EccCeil(ScalarBits, 2)
NeedsGlv(t) == t.bound > GlvBits + EccWindow

\* scalar * P = x1 * P1 + x2 * P2 for any scalars and signs the prover likes; the
\* decomposition into chunks later bounds them.
GlvSplit(t) ==
    LET halves == 0 .. 2^(EccWindow * EccCeil(GlvBits, EccWindow)) - 1
        zeta_p == [t.pt EXCEPT !.x = Fq(ZetaBase * @)]
        Signed(s, n) == IF s THEN n ELSE -n
    IN  {<<[pt |-> EccSelect(w[1], t.pt, Negate(t.pt)), scalar |-> w[2], bound |-> GlvBits],
           [pt |-> EccSelect(w[3], zeta_p, Negate(zeta_p)), scalar |-> w[4], bound |-> GlvBits]>> :
         w \in {w \in BOOLEAN \X halves \X BOOLEAN \X halves :
                   Fr(Signed(w[1], w[2]) + ZetaScalar * Signed(w[3], w[4])) = t.scalar}}

\* The terms windowed_msm may be called with.
PreparedTerms(terms) ==
    LET Ready(merged) ==
            LET ts == [n \in DOMAIN merged |-> WithoutIdentity(merged[n])]
                halves == FoldLeft(LAMBDA acc, t : {u \o split : u \in acc, split \in GlvSplit(t)},
                                   {<<>>}, SelectSeq(ts, NeedsGlv))
            IN  {u \o SelectSeq(ts, LAMBDA t : ~NeedsGlv(t)) : u \in halves}
    IN  UNION {Ready(merged) : merged \in MergeScalars(MergeBases(terms))}

IsBit(t) == t.scalar.key = "one" \/ t.bound = 1

\* The terms with scalars 0 and 1 are added at the end.
AddBits(results, terms) ==
    FoldLeft(LAMBDA accs, t :
                Each(accs, LAMBDA acc :
                    AddTable[acc, EccSelect(t.scalar.key # "one" /\ t.scalar.value = 0,
                                            FixedPoint(0), t.base.pt)]),
             results, terms)

-----------------------------------------------------------------------------
(* Calls                                                                   *)

EccInit ==
    /\ eccPoints = <<>> /\ randomness = {} /\ tag_cnt = 1 /\ tableRows = {} /\ lastSelection = <<>>

FixedKey(n) == <<"fixed", Fr(n)>>
NewPoint(p, means) ==
    LET new == [key |-> <<"cell", Len(eccPoints)>>, pt |-> p, means |-> Fr(means)]
    IN  eccPoints' = Append(eccPoints, new)

\* assign and assign_fixed: points of the curve, or identities.
EccAssign ==
    /\ Len(eccPoints) < MaxEccLoads
    /\ \E p \in CurvePoints : EccValue(p) \in EccLoads /\ NewPoint(p, EccValue(p))
    /\ UNCHANGED <<randomness, tag_cnt, tableRows, lastSelection>>

EccAssignFixed ==
    /\ Len(eccPoints) < MaxEccLoads
    /\ \E n \in EccLoads :
          eccPoints' = Append(eccPoints, [key |-> FixedKey(n), pt |-> FixedPoint(n), means |-> n])
    /\ UNCHANGED <<randomness, tag_cnt, tableRows, lastSelection>>

EccArithmetic ==
    /\ \E i, j \in DOMAIN eccPoints :
          LET p == eccPoints[i]
              q == eccPoints[j]
          IN  \/ \E r \in AddTable[p.pt, q.pt] : NewPoint(r, p.means + q.means)
              \/ i = j /\ \E r \in DoubleTable[p.pt] : NewPoint(r, 2 * p.means)
              \/ i = j /\ NewPoint(Negate(p.pt), -p.means)
              \/ \E cond \in BOOLEAN :
                    NewPoint(EccSelect(cond, p.pt, q.pt), IF cond THEN p.means ELSE q.means)
    /\ UNCHANGED <<randomness, tag_cnt, tableRows, lastSelection>>

\* Bug: the tag counter moves on by one, whatever the number of tables.
TagsAfterOne(tag, tables) == tag + 1

TagsAfter(tag, tables) == tag + Len(tables)

\* windowed_msm and what is made of its result: the point r is chosen by the
\* prover, once for all calls.
Windowed(terms, Finish(_), means) ==
    IF terms = <<>> THEN
        /\ \E r \in Finish({FixedPoint(0)}) : NewPoint(r, means)
        /\ UNCHANGED <<randomness, tag_cnt, tableRows, lastSelection>>
    ELSE
        \E r \in (IF randomness = {} THEN CurvePoints \ Ids ELSE randomness) :
        \E neg_alpha \in NegAlphas(r) :
        \E tables \in TableChoices(terms, neg_alpha) :
          LET new == UNION {TableRows(tag_cnt + j - 1, tables[j]) : j \in DOMAIN tables}
              loaded == tableRows \cup new
          IN  /\ \E s \in Finish(WindowedMsm(terms, r, tag_cnt, loaded)) : NewPoint(s, means)
              /\ randomness' = {r} /\ tableRows' = loaded /\ tag_cnt' = TagsAfter(tag_cnt, tables)
              /\ UNCHANGED lastSelection

\* Scalars of at most two digits by mul_by_u128, others bit by bit.
EccMulByConstant ==
    \E i \in DOMAIN eccPoints, n \in ConstantScalars :
        LET p == eccPoints[i]
            base == EccSelect(p.pt.id, FixedPoint(1), p.pt)
        IN  IF EccNumBits(n) <= MaxDigits * DigitBits
            THEN /\ \E r \in MulByU128(SmallScalar(n), base) :
                        NewPoint(EccSelect(p.pt.id, FixedPoint(0), r), n * p.means)
                 /\ UNCHANGED <<randomness, tag_cnt, tableRows, lastSelection>>
            ELSE Windowed(<<[pt |-> p.pt, scalar |-> n, bound |-> EccNumBits(n)]>>, LAMBDA S : S,
                          n * p.means)

EccMsm ==
    \E call_terms \in MsmCalls :
        LET term(t) == [base |-> eccPoints[t.base],
                        scalar |-> [key |-> t.scalar, value |-> EccScalars[t.scalar]],
                        bound |-> t.bound]
            terms == SelectSeq([n \in DOMAIN call_terms |-> term(call_terms[n])],
                               LAMBDA t : t.base.key # FixedKey(0))
            means == FoldLeft(LAMBDA acc, t : acc + eccPoints[t.base].means * EccScalars[t.scalar],
                              0, call_terms)
        IN  /\ \A n \in DOMAIN call_terms : call_terms[n].base \in DOMAIN eccPoints
            /\ \E prepared \in PreparedTerms(SelectSeq(terms, LAMBDA t : ~IsBit(t))) :
                  Windowed(prepared, LAMBDA S : AddBits(S, SelectSeq(terms, IsBit)), means)

\* A range check on the difference, in the native field.
Increases(idx, next_idx, n) == (next_idx - idx - 1) % EccNative < 2^EccNumBits(n)

\* k of the points so far, which are the table; selected by their indices, and
\* found by lookup.
KOutOfN ==
    LET n == Len(eccPoints)
        loaded == tableRows \cup TableRows(tag_cnt, [i \in 1 .. n |-> eccPoints[i].pt])
    IN  /\ n > 1 /\ \A i \in 1 .. n : ~eccPoints[i].pt.id
        /\ \E idx \in 0 .. n - 1, next_idx \in 0 .. n - 1 :
              /\ Increases(idx, next_idx, n)
              /\ lastSelection' = <<idx, next_idx>>
              /\ \E p \in MultiSelect(loaded, tag_cnt, next_idx) :
                    NewPoint(p, eccPoints[next_idx + 1].means)
        /\ tableRows' = loaded /\ tag_cnt' = tag_cnt + 1
        /\ UNCHANGED randomness

EccNext ==
    /\ Len(eccPoints) < MaxEccPoints
    /\ EccAssign \/ EccAssignFixed \/ EccArithmetic \/ EccMulByConstant \/ EccMsm \/ KOutOfN

-----------------------------------------------------------------------------
(* Properties                                                              *)

\* Every point the constraints let a prover assign is the one its call is
\* documented to return, through any series of calls, whatever coordinates are
\* given to identities, whatever r and halves of scalars are chosen and
\* whichever rows the lookups find.
EccExact == \A i \in DOMAIN eccPoints : EccValue(eccPoints[i].pt) = eccPoints[i].means

\* No two tables of a circuit, of whichever calls, have a tag in common: a
\* lookup is answered by one point only.
LookupsDetermined ==
    \A row, other \in tableRows : row[1] = other[1] /\ row[2] = other[2] => row = other

\* k_out_of_n_points selects different entries of its table.
SelectionsDistinct == lastSelection # <<>> => lastSelection[1] # lastSelection[2]

\* Comparisons answer as the points are, with identities whose coordinates are
\* those of other points, and an equality that holds is one of points.
EccComparisonsExact ==
    \A i, j \in DOMAIN eccPoints :
        LET p == eccPoints[i].pt
            q == eccPoints[j].pt
        IN  /\ EccIsEqual(p, q) <=> EccValue(p) = EccValue(q)
            /\ EccAssertEqual(p, q) => EccValue(p) = EccValue(q)
            /\ \A n \in EccLoads : EccIsEqualToFixed(p, n) <=> EccValue(p) = n

\* An honest prover, whose identities have the coordinates 0, 0, can add and
\* double any points.
AdditionComplete ==
    \A i, j \in DOMAIN eccPoints :
        LET p == eccPoints[i].pt
            q == eccPoints[j].pt
            honest == \A s \in {p, q} : s.id => s = FixedPoint(0)
        IN  honest => /\ FixedPoint(EccValue(p) + EccValue(q)) \in AddTable[p, q]
                      /\ FixedPoint(2 * EccValue(p)) \in DoubleTable[p]

\* Points, lookups, selections and comparisons of the foreign curve are right for
\* any prover, and complete for an honest one.
EccSound ==
    /\ EccExact
    /\ LookupsDetermined
    /\ SelectionsDistinct
    /\ EccComparisonsExact
    /\ AdditionComplete
=============================================================================
