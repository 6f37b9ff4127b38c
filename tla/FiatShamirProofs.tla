-------------------------- MODULE FiatShamirProofs --------------------------
(***************************************************************************)
(* The order in which a proof commits and draws, for every circuit: no     *)
(* challenge is drawn before what it randomises; and the programs of the   *)
(* prover and of the verifier, paired operation by operation.              *)
(***************************************************************************)
EXTENDS PlonkProof, PointSetsLemmas

-----------------------------------------------------------------------------
(* The level of an operation.                                              *)

\* The last phase, and a number above the levels of the phases.
LastPhase(k) == Max(Phases(k.cs))
Top(k) == 2 * LastPhase(k) + 3

\* The ranks of the levels.
ItemRank(k, level) == Top(k) + 2 * level - 3
ChallengeRank(k, level) == Top(k) + 2 * level - 2

Commitments ==
    ({"advice", "instance", "m", "z", "acc", "trash"} \X Nat \X Nat)
        \cup ({"h"} \X Nat \X Nat \X Nat)
        \cup ({"fixed", "sigma"} \X Nat) \cup {<<"lin">>}

Inputs ==
    {<<"vk">>} \cup ({"instance", "len"} \X Nat \X Nat)
        \cup ({"value"} \X Nat \X Nat \X Nat)

\* What is committed after the phases, by level.
ItemsOf(level) ==
    CASE level = 2 -> {"m"} \X Nat \X Nat
      [] level = 3 -> ({"z", "acc"} \X Nat \X Nat) \cup ({"h"} \X Nat \X Nat \X Nat)
      [] level = 4 -> {"trash"} \X Nat \X Nat
      [] level = 5 -> {"limb"} \X Nat
      [] level = 6 -> {"eval"} \X Commitments \X Int
      [] level = 7 -> {<<"f">>}
      [] level = 8 -> {"qeval"} \X Nat
      [] level = 9 -> {<<"pi">>}

ChallengesOf(level) ==
    CASE level = 1 -> {<<"theta">>}
      [] level = 2 -> {<<"beta">>, <<"gamma">>}
      [] level = 3 -> {<<"trash_challenge">>}
      [] level = 4 -> {<<"y">>}
      [] level = 5 -> {<<"x">>}
      [] level = 6 -> {<<"x1">>, <<"x2">>}
      [] level = 7 -> {<<"x3">>}
      [] level = 8 -> {<<"x4">>}

Absorbing(S) == {"common", "write", "absorb"} \X S
Drawing(S) == {"squeeze"} \X S

\* The operations of a rank: first the inputs, then the phases in turn, the
\* columns of each before its challenges, then the items and the challenges of
\* every level in turn.
InputsAt(r) == {op \in Absorbing(Inputs) : r = 0}

ColumnsAt(k, r) ==
    {op \in Absorbing({"advice"} \X Nat \X DOMAIN k.cs.advice_column_phase) :
        r = 2 * k.cs.advice_column_phase[op[2][3]] + 1}

PhaseChallengesAt(k, r) ==
    {op \in Drawing({"user"} \X DOMAIN k.cs.challenge_phase) :
        /\ r = 2 * k.cs.challenge_phase[op[2][2]] + 2
        /\ k.cs.challenge_phase[op[2][2]] <= LastPhase(k)}

ItemsAt(k, r) ==
    UNION {{op \in Absorbing(ItemsOf(l)) : r = ItemRank(k, l)} : l \in 2 .. 9}

ChallengesAt(k, r) ==
    UNION {{op \in Drawing(ChallengesOf(l)) : r = ChallengeRank(k, l)} : l \in 1 .. 8}

Ranked(k, r) ==
    InputsAt(r) \cup ColumnsAt(k, r) \cup PhaseChallengesAt(k, r) \cup ItemsAt(k, r)
        \cup ChallengesAt(k, r)

\* The operations of any rank.
Operations(k) == UNION {Ranked(k, r) : r \in Int}

\* The ranks of a list do not fall, and stay between lo and hi.
HasRanks(k, ops, ranks, lo, hi) ==
    /\ Len(ranks) = Len(ops)
    /\ \A i \in DOMAIN ops : ops[i] \in Ranked(k, ranks[i]) /\ lo <= ranks[i] /\ ranks[i] <= hi
    /\ \A i, j \in DOMAIN ops : i < j => ranks[i] <= ranks[j]

Rises(k, ops, lo, hi) ==
    ops \in Seq(Operations(k)) /\ \E ranks \in Seq(Int) : HasRanks(k, ops, ranks, lo, hi)

\* Where the operations of a rank come from.
LEMMA RankedCases ==
    ASSUME NEW k, NEW r, NEW op \in Ranked(k, r)
    PROVE  \/ op \in Absorbing(Inputs) /\ r = 0
           \/ /\ op \in Absorbing({"advice"} \X Nat \X DOMAIN k.cs.advice_column_phase)
              /\ r = 2 * k.cs.advice_column_phase[op[2][3]] + 1
           \/ /\ op \in Drawing({"user"} \X DOMAIN k.cs.challenge_phase)
              /\ r = 2 * k.cs.challenge_phase[op[2][2]] + 2
              /\ k.cs.challenge_phase[op[2][2]] <= LastPhase(k)
           \/ \E l \in 2 .. 9 : op \in Absorbing(ItemsOf(l)) /\ r = ItemRank(k, l)
           \/ \E l \in 1 .. 8 : op \in Drawing(ChallengesOf(l)) /\ r = ChallengeRank(k, l)
<1>1. CASE op \in InputsAt(r)  BY <1>1 DEF InputsAt
<1>2. CASE op \in ColumnsAt(k, r)  BY <1>2 DEF ColumnsAt
<1>3. CASE op \in PhaseChallengesAt(k, r)  BY <1>3 DEF PhaseChallengesAt
<1>4. CASE op \in ItemsAt(k, r)  BY <1>4 DEF ItemsAt
<1>5. CASE op \in ChallengesAt(k, r)  BY <1>5 DEF ChallengesAt
<1>6. QED  BY <1>1, <1>2, <1>3, <1>4, <1>5 DEF Ranked

\* What the protocol absorbs on a level has the rank of the level.
LEMMA LevelOfItem ==
    ASSUME NEW k, NEW l \in 2 .. 9, NEW op \in Absorbing(ItemsOf(l))
    PROVE  op \in Ranked(k, ItemRank(k, l))
<1>1. op \in ItemsAt(k, ItemRank(k, l))  BY DEF ItemsAt
<1>2. QED  BY <1>1 DEF Ranked

\* A challenge of a level has the rank of the level.
LEMMA LevelOfChallenge ==
    ASSUME NEW k, NEW l \in 1 .. 8, NEW op \in Drawing(ChallengesOf(l))
    PROVE  op \in Ranked(k, ChallengeRank(k, l))
<1>1. op \in ChallengesAt(k, ChallengeRank(k, l))  BY DEF ChallengesAt
<1>2. QED  BY <1>1 DEF Ranked

\* A list of one level.
LEMMA LevelRises ==
    ASSUME NEW k, NEW r \in Int, NEW ops \in Seq(Ranked(k, r))
    PROVE  Rises(k, ops, r, r)
<1>1. PICK n \in Nat : Len(ops) = n /\ ops \in [1 .. n -> Ranked(k, r)]  OBVIOUS
<1>2. Ranked(k, r) \subseteq Operations(k)  BY DEF Operations
<1>3. ops \in Seq(Operations(k))  BY <1>1, <1>2
<1>4. PICK ranks : ranks = [i \in 1 .. n |-> r]  OBVIOUS
<1>5. ranks \in Seq(Int) /\ Len(ranks) = n  BY <1>4
<1>6. HasRanks(k, ops, ranks, r, r)
  BY <1>1, <1>4, <1>5 DEF HasRanks
<1>7. QED  BY <1>3, <1>5, <1>6 DEF Rises

\* Wider bounds on a rising list.
LEMMA Widened ==
    ASSUME NEW k, NEW ops, NEW l \in Int, NEW u \in Int, NEW lo \in Int, NEW hi \in Int,
           lo <= l, u <= hi, Rises(k, ops, l, u)
    PROVE  Rises(k, ops, lo, hi)
<1>1. PICK ranks \in Seq(Int) : HasRanks(k, ops, ranks, l, u)  BY DEF Rises
<1>2. PICK n \in Nat : DOMAIN ops = 1 .. n /\ Len(ranks) = n  BY <1>1 DEF Rises, HasRanks
<1>3. \A i \in DOMAIN ops : ranks[i] \in Int  BY <1>2
<1>4. HasRanks(k, ops, ranks, lo, hi)  BY <1>1, <1>3 DEF HasRanks
<1>5. QED  BY <1>4 DEF Rises

\* The entries of a concatenation.
LEMMA Concatenated ==
    ASSUME NEW S, NEW a \in Seq(S), NEW b \in Seq(S)
    PROVE  /\ a \o b \in Seq(S) /\ Len(a \o b) = Len(a) + Len(b)
           /\ \A i \in 1 .. Len(a) : (a \o b)[i] = a[i]
           /\ \A i \in Len(a) + 1 .. Len(a) + Len(b) : (a \o b)[i] = b[i - Len(a)]
OBVIOUS

\* Rising lists that meet join to a rising list.
LEMMA Joined ==
    ASSUME NEW k, NEW a, NEW b, NEW l \in Int, NEW m \in Int, NEW u \in Int,
           l <= m, m <= u, Rises(k, a, l, m), Rises(k, b, m, u)
    PROVE  Rises(k, a \o b, l, u)
<1>1. PICK ra \in Seq(Int) : HasRanks(k, a, ra, l, m)  BY DEF Rises
<1>2. PICK rb \in Seq(Int) : HasRanks(k, b, rb, m, u)  BY DEF Rises
<1>3. PICK n \in Nat : Len(a) = n /\ Len(ra) = n /\ DOMAIN a = 1 .. n /\ DOMAIN ra = 1 .. n
  BY <1>1 DEF Rises, HasRanks
<1>4. PICK t \in Nat : Len(b) = t /\ Len(rb) = t /\ DOMAIN b = 1 .. t /\ DOMAIN rb = 1 .. t
  BY <1>2 DEF Rises, HasRanks
<1>5. PICK c : c = a \o b  OBVIOUS
<1>6. PICK rc : rc = ra \o rb  OBVIOUS
<1>7. c \in Seq(Operations(k)) /\ Len(c) = n + t /\ DOMAIN c = 1 .. n + t
      /\ (\A i \in 1 .. n : c[i] = a[i]) /\ \A i \in n + 1 .. n + t : c[i] = b[i - n]
  <2>1. a \in Seq(Operations(k)) /\ b \in Seq(Operations(k))  BY DEF Rises
  <2>2. /\ c \in Seq(Operations(k)) /\ Len(c) = Len(a) + Len(b)
        /\ \A i \in 1 .. Len(a) : c[i] = a[i]
        /\ \A i \in Len(a) + 1 .. Len(a) + Len(b) : c[i] = b[i - Len(a)]
    BY <1>5, <2>1, Concatenated
  <2>3. Len(a) = n /\ Len(b) = t  BY <1>3, <1>4
  <2>4. QED  BY <2>2, <2>3
<1>8. rc \in Seq(Int) /\ Len(rc) = n + t
      /\ (\A i \in 1 .. n : rc[i] = ra[i]) /\ \A i \in n + 1 .. n + t : rc[i] = rb[i - n]
  <2>1. /\ rc \in Seq(Int) /\ Len(rc) = Len(ra) + Len(rb)
        /\ \A i \in 1 .. Len(ra) : rc[i] = ra[i]
        /\ \A i \in Len(ra) + 1 .. Len(ra) + Len(rb) : rc[i] = rb[i - Len(ra)]
    BY <1>6, Concatenated
  <2>2. Len(ra) = n /\ Len(rb) = t  BY <1>3, <1>4
  <2>3. QED  BY <2>1, <2>2
<1>9. /\ \A i \in 1 .. n : c[i] = a[i] /\ rc[i] = ra[i]
      /\ \A i \in n + 1 .. n + t : c[i] = b[i - n] /\ rc[i] = rb[i - n]
  BY <1>7, <1>8
<1>10. /\ \A i \in 1 .. n : ra[i] \in Int /\ a[i] \in Ranked(k, ra[i]) /\ l <= ra[i] /\ ra[i] <= m
       /\ \A i \in 1 .. t : rb[i] \in Int /\ b[i] \in Ranked(k, rb[i]) /\ m <= rb[i] /\ rb[i] <= u
  <2>1. \A i \in 1 .. n : ra[i] \in Int  BY <1>3
  <2>2. \A i \in 1 .. t : rb[i] \in Int  BY <1>4
  <2>3. \A i \in 1 .. n : a[i] \in Ranked(k, ra[i]) /\ l <= ra[i] /\ ra[i] <= m
    BY <1>1, <1>3 DEF HasRanks
  <2>4. \A i \in 1 .. t : b[i] \in Ranked(k, rb[i]) /\ m <= rb[i] /\ rb[i] <= u
    BY <1>2, <1>4 DEF HasRanks
  <2>5. QED  BY <2>1, <2>2, <2>3, <2>4
<1>11. ASSUME NEW i \in 1 .. n + t
       PROVE  c[i] \in Ranked(k, rc[i]) /\ l <= rc[i] /\ rc[i] <= u
  <2>1. CASE i \in 1 .. n
    <3>1. ra[i] \in Int /\ a[i] \in Ranked(k, ra[i]) /\ l <= ra[i] /\ ra[i] <= m  BY <1>10, <2>1
    <3>2. c[i] = a[i] /\ rc[i] = ra[i]  BY <1>9, <2>1
    <3>3. QED  BY <3>1, <3>2
  <2>2. CASE i \in n + 1 .. n + t
    <3>1. i - n \in 1 .. t  BY <2>2
    <3>2. PICK j \in 1 .. t : j = i - n  BY <3>1
    <3>3. rb[j] \in Int /\ b[j] \in Ranked(k, rb[j]) /\ m <= rb[j] /\ rb[j] <= u  BY <1>10
    <3>4. c[i] = b[j] /\ rc[i] = rb[j]  BY <1>9, <2>2, <3>2
    <3>5. QED  BY <3>3, <3>4
  <2>3. QED  BY <2>1, <2>2
<1>12. ASSUME NEW i \in 1 .. n + t, NEW j \in 1 .. n + t, i < j
       PROVE  rc[i] <= rc[j]
  <2>1. CASE j \in 1 .. n
    <3>1. i \in 1 .. n  BY <1>12, <2>1
    <3>2. ra[i] <= ra[j]  BY <1>1, <1>3, <1>12, <2>1, <3>1 DEF HasRanks
    <3>3. QED  BY <1>9, <2>1, <3>1, <3>2
  <2>2. CASE i \in 1 .. n /\ j \in n + 1 .. n + t
    <3>1. PICK q \in 1 .. t : q = j - n  BY <2>2
    <3>2. ra[i] \in Int /\ ra[i] <= m /\ rb[q] \in Int /\ m <= rb[q]  BY <1>10, <2>2
    <3>3. rc[i] = ra[i] /\ rc[j] = rb[q]  BY <1>9, <2>2, <3>1
    <3>4. QED  BY <3>2, <3>3
  <2>3. CASE i \in n + 1 .. n + t /\ j \in n + 1 .. n + t
    <3>1. PICK p \in 1 .. t : p = i - n  BY <2>3
    <3>2. PICK q \in 1 .. t : q = j - n  BY <2>3
    <3>3. p < q  BY <1>12, <3>1, <3>2
    <3>4. rb[p] <= rb[q]  BY <1>2, <1>4, <3>3 DEF HasRanks
    <3>5. rc[i] = rb[p] /\ rc[j] = rb[q]  BY <1>9, <2>3, <3>1, <3>2
    <3>6. QED  BY <3>4, <3>5
  <2>4. QED  BY <1>12, <2>1, <2>2, <2>3
<1>13. HasRanks(k, c, rc, l, u)
  BY <1>7, <1>8, <1>11, <1>12 DEF HasRanks
<1>14. QED  BY <1>5, <1>7, <1>8, <1>13 DEF Rises

\* Rising lists with a gap between them join to a rising list.
LEMMA Followed ==
    ASSUME NEW k, NEW a, NEW b, NEW l \in Int, NEW m \in Int, NEW n \in Int, NEW u \in Int,
           l <= m, m <= n, n <= u, Rises(k, a, l, m), Rises(k, b, n, u)
    PROVE  Rises(k, a \o b, l, u)
<1>1. Rises(k, b, m, u)  BY Widened
<1>2. m <= u  OBVIOUS
<1>3. QED  BY <1>1, <1>2, Joined

\* The hash state keeps the rank of every operation.
LEMMA HistoryRises ==
    ASSUME NEW k, NEW ops, NEW lo, NEW hi, Rises(k, ops, lo, hi)
    PROVE  Rises(k, History(ops), lo, hi)
<1>1. PICK ranks \in Seq(Int) : HasRanks(k, ops, ranks, lo, hi)  BY DEF Rises
<1>2. PICK n \in Nat : Len(ops) = n /\ Len(ranks) = n /\ DOMAIN ops = 1 .. n /\ DOMAIN ranks = 1 .. n
  BY <1>1 DEF Rises, HasRanks
<1>3. ASSUME NEW r \in Int, NEW op \in Ranked(k, r)
      PROVE  Absorb(op) \in Ranked(k, r)
  <2>1. CASE op \in Absorbing(Inputs) /\ r = 0
    <3>1. Absorb(op) \in Absorbing(Inputs)  BY <2>1 DEF Absorb, Absorbing
    <3>2. QED  BY <2>1, <3>1 DEF Ranked, InputsAt
  <2>2. CASE /\ op \in Absorbing({"advice"} \X Nat \X DOMAIN k.cs.advice_column_phase)
             /\ r = 2 * k.cs.advice_column_phase[op[2][3]] + 1
    <3>1. /\ Absorb(op) \in Absorbing({"advice"} \X Nat \X DOMAIN k.cs.advice_column_phase)
          /\ Absorb(op)[2] = op[2]
      BY <2>2 DEF Absorb, Absorbing
    <3>2. QED  BY <2>2, <3>1 DEF Ranked, ColumnsAt
  <2>3. CASE op[1] = "squeeze"
    BY <2>3 DEF Absorb
  <2>4. CASE \E l \in 2 .. 9 : op \in Absorbing(ItemsOf(l)) /\ r = ItemRank(k, l)
    <3>1. PICK l \in 2 .. 9 : op \in Absorbing(ItemsOf(l)) /\ r = ItemRank(k, l)  BY <2>4
    <3>2. Absorb(op) \in Absorbing(ItemsOf(l))  BY <3>1 DEF Absorb, Absorbing
    <3>3. QED  BY <3>1, <3>2, LevelOfItem
  <2>5. CASE op \in Drawing({"user"} \X DOMAIN k.cs.challenge_phase)
    BY <2>3, <2>5 DEF Drawing
  <2>6. CASE \E l \in 1 .. 8 : op \in Drawing(ChallengesOf(l)) /\ r = ChallengeRank(k, l)
    BY <2>3, <2>6 DEF Drawing
  <2>7. QED  BY <2>1, <2>2, <2>4, <2>5, <2>6, RankedCases
<1>4. PICK h : h = History(ops)  OBVIOUS
<1>5. h = [i \in 1 .. n |-> Absorb(ops[i])]  BY <1>2, <1>4 DEF History
<1>6. ASSUME NEW i \in 1 .. n
      PROVE  h[i] \in Ranked(k, ranks[i]) /\ ranks[i] \in Int
  BY <1>1, <1>2, <1>3, <1>5 DEF HasRanks
<1>7. h \in Seq(Operations(k)) /\ Len(h) = n /\ DOMAIN h = 1 .. n
  <2>1. \A i \in 1 .. n : h[i] \in Operations(k)  BY <1>6 DEF Operations
  <2>2. QED  BY <1>5, <2>1
<1>8. HasRanks(k, h, ranks, lo, hi)
  BY <1>1, <1>2, <1>6, <1>7 DEF HasRanks
<1>9. QED  BY <1>4, <1>7, <1>8 DEF Rises

-----------------------------------------------------------------------------
(* The sizes of a key.                                                     *)

\* The phase of every column is a number, and the last phase is the greatest.
LEMMA LastPhaseBounds ==
    ASSUME NEW k \in Keys
    PROVE  /\ LastPhase(k) \in Nat
           /\ \A i \in DOMAIN k.cs.advice_column_phase :
                 /\ k.cs.advice_column_phase[i] \in Nat
                 /\ k.cs.advice_column_phase[i] <= LastPhase(k)
           /\ \A i \in DOMAIN k.cs.challenge_phase : k.cs.challenge_phase[i] \in Nat
<1>1. PICK s \in Seq(Nat) : s = k.cs.advice_column_phase  BY KeysAssumption
<1>2. PICK S : S = {0} \cup ToSet(s)  OBVIOUS
<1>3. PICK m : m = CHOOSE x \in S : \A y \in S : x >= y  OBVIOUS
<1>4. m \in S /\ \A y \in S : m >= y
  BY <1>2, <1>3, LargestEntry
<1>5. Phases(k.cs) = 0 .. m
  BY <1>1, <1>2, <1>3 DEF Phases, Max
<1>6. S \subseteq Nat  BY <1>1, <1>2 DEF ToSet
<1>7. m \in Nat  BY <1>4, <1>6
<1>8. LastPhase(k) = CHOOSE x \in 0 .. m : \A y \in 0 .. m : x >= y
  BY <1>5 DEF LastPhase, Max
<1>9. LastPhase(k) = m
  <2>1. m \in 0 .. m /\ \A y \in 0 .. m : m >= y  BY <1>7
  <2>2. PICK top : top = CHOOSE x \in 0 .. m : \A y \in 0 .. m : x >= y  OBVIOUS
  <2>3. top \in 0 .. m /\ \A y \in 0 .. m : top >= y  BY <2>1, <2>2
  <2>4. top = m  BY <1>7, <2>1, <2>3
  <2>5. QED  BY <1>8, <2>2, <2>4
<1>10. \A i \in DOMAIN s : s[i] \in S  BY <1>1, <1>2 DEF ToSet
<1>11. \A i \in DOMAIN s : s[i] \in Nat /\ s[i] <= m  BY <1>4, <1>6, <1>7, <1>10
<1>12. \A i \in DOMAIN k.cs.challenge_phase : k.cs.challenge_phase[i] \in Nat
  BY KeysAssumption
<1>13. QED  BY <1>1, <1>7, <1>9, <1>11, <1>12

\* The sizes of a key are numbers.
LEMMA KeySizes ==
    ASSUME NEW k \in Keys
    PROVE  /\ k.proofs \in Nat /\ k.len \in Nat /\ k.committed \in Nat
           /\ k.cs.num_instance_columns \in Nat
           /\ NumPermutationSets(k) \in Nat /\ QuotientPolyDegree(k) \in Nat
           /\ LastRotation(k) \in Int
<1>1. /\ k.proofs \in Nat /\ k.len \in Nat /\ k.committed \in Nat
      /\ k.cs.num_instance_columns \in Nat /\ k.blinding \in Nat /\ k.degree \in Nat
      /\ k.degree > 2
  BY KeysAssumption
<1>2. k.cs.permutation \in Seq(ToSet(k.cs.permutation))  BY KeysAssumption
<1>3. QuotientPolyDegree(k) \in Nat  BY <1>1 DEF QuotientPolyDegree
<1>4. LastRotation(k) \in Int  BY <1>1 DEF LastRotation
<1>5. NumPermutationSets(k) \in Nat
  <2>1. PICK n \in Nat : n = Len(k.cs.permutation)  BY <1>2
  <2>2. PICK d \in Nat : d = ChunkLen(k) /\ d > 0  BY <1>1 DEF ChunkLen
  <2>3. (n + d - 1) \div d \in Nat  BY <2>2
  <2>4. QED  BY <2>1, <2>2, <2>3 DEF NumPermutationSets
<1>6. QED  BY <1>1, <1>3, <1>4, <1>5

\* The lists of a key are numbered from 1.
LEMMA KeyLists ==
    ASSUME NEW k \in Keys
    PROVE  /\ NumAdvice(k) \in Nat /\ DOMAIN k.cs.advice_column_phase = 1 .. NumAdvice(k)
           /\ Len(k.cs.challenge_phase) \in Nat
           /\ DOMAIN k.cs.challenge_phase = 1 .. Len(k.cs.challenge_phase)
           /\ Len(k.cs.lookups) \in Nat /\ \A l \in 1 .. Len(k.cs.lookups) : k.chunks[l] \in Nat
           /\ Len(k.cs.permutation) \in Nat
           /\ DOMAIN k.cs.permutation = 1 .. Len(k.cs.permutation)
           /\ Len(k.cs.trashcans) \in Nat
           /\ DOMAIN k.cs.trashcans = 1 .. Len(k.cs.trashcans)
<1>1. k.cs.advice_column_phase \in Seq(Nat) /\ k.cs.challenge_phase \in Seq(Nat)
  BY KeysAssumption
<1>2. k.cs.lookups \in Seq(ToSet(k.cs.lookups)) /\ k.chunks \in [DOMAIN k.cs.lookups -> Nat]
  BY KeysAssumption
<1>3. k.cs.permutation \in Seq(ToSet(k.cs.permutation))  BY KeysAssumption
<1>4. k.cs.trashcans \in Seq(ToSet(k.cs.trashcans))  BY KeysAssumption
<1>5. Len(k.cs.lookups) \in Nat /\ \A l \in 1 .. Len(k.cs.lookups) : k.chunks[l] \in Nat
  BY <1>2
<1>6. /\ Len(k.cs.permutation) \in Nat
      /\ DOMAIN k.cs.permutation = 1 .. Len(k.cs.permutation)
  BY <1>3
<1>7. Len(k.cs.trashcans) \in Nat /\ DOMAIN k.cs.trashcans = 1 .. Len(k.cs.trashcans)
  BY <1>4
<1>8. NumAdvice(k) \in Nat /\ DOMAIN k.cs.advice_column_phase = 1 .. NumAdvice(k)
  BY <1>1 DEF NumAdvice
<1>9. /\ Len(k.cs.challenge_phase) \in Nat
      /\ DOMAIN k.cs.challenge_phase = 1 .. Len(k.cs.challenge_phase)
  BY <1>1
<1>10. QED  BY <1>5, <1>6, <1>7, <1>8, <1>9, Zenon

\* The ranks are integers above those of the phases.
LEMMA RanksTyped ==
    ASSUME NEW k \in Keys
    PROVE  /\ Top(k) \in Nat /\ Top(k) = 2 * LastPhase(k) + 3
           /\ \A l \in Nat : ItemRank(k, l) = Top(k) + 2 * l - 3 /\ ItemRank(k, l) \in Int
           /\ \A l \in Nat : ChallengeRank(k, l) = Top(k) + 2 * l - 2 /\ ChallengeRank(k, l) \in Int
BY LastPhaseBounds DEF Top, ItemRank, ChallengeRank

\* The sequences over the operations of a level.
LEMMA OneItem ==
    ASSUME NEW k, NEW l \in 2 .. 9, NEW item \in ItemsOf(l)
    PROVE  Write(item) \in Ranked(k, ItemRank(k, l))
<1>1. Write(item) \in Absorbing(ItemsOf(l))  BY DEF Absorbing, Write
<1>2. QED  BY <1>1, LevelOfItem

\* Drawing a challenge has the challenge's rank.
LEMMA OneChallenge ==
    ASSUME NEW k, NEW l \in 1 .. 8, NEW name \in ChallengesOf(l)
    PROVE  Squeeze(name) \in Ranked(k, ChallengeRank(k, l))
<1>1. Squeeze(name) \in Drawing(ChallengesOf(l))  BY DEF Drawing, Squeeze
<1>2. QED  BY <1>1, LevelOfChallenge

\* A challenge alone rises.
LEMMA DrawRises ==
    ASSUME NEW k \in Keys, NEW l \in 1 .. 8, NEW name \in ChallengesOf(l)
    PROVE  Rises(k, <<Squeeze(name)>>, ChallengeRank(k, l), ChallengeRank(k, l))
<1>1. PICK S : S = Ranked(k, ChallengeRank(k, l))  OBVIOUS
<1>2. PICK op \in S : op = Squeeze(name)  BY <1>1, OneChallenge
<1>3. <<op>> \in Seq(S)  OBVIOUS
<1>4. ChallengeRank(k, l) \in Int  BY RanksTyped
<1>5. QED  BY <1>1, <1>2, <1>3, <1>4, LevelRises

\* What is flattened twice: the list of every proof's list.
LEMMA FlattenNested ==
    ASSUME NEW S, NEW n \in Nat, NEW t \in Nat, NEW parts,
           \A p \in 1 .. n : parts[p] \in [1 .. t -> Seq(S)]
    PROVE  FlattenSeq([p \in 1 .. n |-> FlattenSeq(parts[p])]) \in Seq(S)
<1>1. \A p \in 1 .. n : FlattenSeq(parts[p]) \in Seq(S)  BY FlattenType
<1>2. [p \in 1 .. n |-> FlattenSeq(parts[p])] \in [1 .. n -> Seq(S)]  BY <1>1
<1>3. QED  BY <1>2, FlattenType

-----------------------------------------------------------------------------
(* The sections of the prover.                                             *)

\* The multiplicities are committed to after the challenge they wait for.
LEMMA CommitMultiplicitiesRises ==
    ASSUME NEW k \in Keys
    PROVE  Rises(k, CommitMultiplicities(k), ChallengeRank(k, 1), ItemRank(k, 2))
<1>1. PICK S : S = Ranked(k, ItemRank(k, 2))  OBVIOUS
<1>2. ASSUME NEW p \in Nat, NEW l \in Nat
      PROVE  <<Write(<<"m", p, l>>)>> \in Seq(S)
  <2>1. <<"m", p, l>> \in ItemsOf(2)  BY DEF ItemsOf
  <2>2. Write(<<"m", p, l>>) \in S  BY <1>1, <2>1, OneItem
  <2>3. QED  BY <2>2
<1>3. PICK n \in Nat : n = k.proofs  BY KeySizes
<1>4. PICK t \in Nat : t = Len(k.cs.lookups)  BY KeyLists
<1> DEFINE parts == [p \in 1 .. n |-> [l \in 1 .. t |-> <<Write(<<"m", p, l>>)>>]]
           tail == FlattenSeq([p \in 1 .. n |-> FlattenSeq(parts[p])])
<1>5. \A p \in 1 .. n : parts[p] \in [1 .. t -> Seq(S)]  BY <1>2
<1>6. tail = FlattenSeq([p \in 1 .. n |-> FlattenSeq([l \in 1 .. t |-> <<Write(<<"m", p, l>>)>>])])
  OBVIOUS
<1>7. CommitMultiplicities(k) = <<Squeeze(<<"theta">>)>> \o tail
  BY <1>3, <1>4, <1>6 DEF CommitMultiplicities, Each
<1>8. tail \in Seq(S)
  <2> HIDE DEF parts
  <2>1. QED  BY <1>5, FlattenNested
<1> HIDE DEF tail
<1>9. Rises(k, tail, ItemRank(k, 2), ItemRank(k, 2))  BY <1>1, <1>8, RanksTyped, LevelRises
<1>10. Rises(k, <<Squeeze(<<"theta">>)>>, ChallengeRank(k, 1), ChallengeRank(k, 1))
  <2>1. <<"theta">> \in ChallengesOf(1)  BY DEF ChallengesOf
  <2>2. QED  BY <2>1, DrawRises
<1>11. /\ ChallengeRank(k, 1) \in Int /\ ItemRank(k, 2) \in Int
       /\ ChallengeRank(k, 1) <= ItemRank(k, 2)
  BY RanksTyped
<1>12. QED  BY <1>7, <1>9, <1>10, <1>11, Followed

\* The section of the permutation argument rises.
LEMMA CommitPermutationRises ==
    ASSUME NEW k \in Keys
    PROVE  Rises(k, CommitPermutation(k), ChallengeRank(k, 2), ItemRank(k, 3))
<1>1. PICK S : S = Ranked(k, ItemRank(k, 3))  OBVIOUS
<1>2. ASSUME NEW p \in Nat, NEW i \in Nat
      PROVE  Write(<<"z", p, i>>) \in S
  <2>1. <<"z", p, i>> \in ItemsOf(3)  BY DEF ItemsOf
  <2>2. QED  BY <1>1, <2>1, OneItem
<1>3. PICK n \in Nat : n = k.proofs  BY KeySizes
<1>4. PICK t \in Nat : t = NumPermutationSets(k)  BY KeySizes
<1> DEFINE tail == FlattenSeq([p \in 1 .. n |-> [i \in 1 .. t |-> Write(<<"z", p, i>>)]])
           head == <<Squeeze(<<"beta">>), Squeeze(<<"gamma">>)>>
<1>5. CommitPermutation(k) = head \o tail
  BY <1>3, <1>4 DEF CommitPermutation, Each
<1>6. tail \in Seq(S)
  <2>1. \A p \in 1 .. n : [i \in 1 .. t |-> Write(<<"z", p, i>>)] \in Seq(S)  BY <1>2
  <2>2. [p \in 1 .. n |-> [i \in 1 .. t |-> Write(<<"z", p, i>>)]] \in [1 .. n -> Seq(S)]
    BY <2>1
  <2>3. QED  BY <2>2, FlattenType
<1>7. head \in Seq(Ranked(k, ChallengeRank(k, 2)))
  <2>1. <<"beta">> \in ChallengesOf(2) /\ <<"gamma">> \in ChallengesOf(2)  BY DEF ChallengesOf
  <2>2. /\ Squeeze(<<"beta">>) \in Ranked(k, ChallengeRank(k, 2))
        /\ Squeeze(<<"gamma">>) \in Ranked(k, ChallengeRank(k, 2))
    BY <2>1, OneChallenge
  <2>3. QED  BY <2>2
<1> HIDE DEF tail, head
<1>8. Rises(k, tail, ItemRank(k, 3), ItemRank(k, 3))  BY <1>1, <1>6, RanksTyped, LevelRises
<1>9. Rises(k, head, ChallengeRank(k, 2), ChallengeRank(k, 2))
  BY <1>7, RanksTyped, LevelRises
<1>10. /\ ChallengeRank(k, 2) \in Int /\ ItemRank(k, 3) \in Int
       /\ ChallengeRank(k, 2) <= ItemRank(k, 3)
  BY RanksTyped
<1>11. QED  BY <1>5, <1>8, <1>9, <1>10, Followed

\* The section of the lookups rises.
LEMMA CommitLogderivativeRises ==
    ASSUME NEW k \in Keys
    PROVE  Rises(k, CommitLogderivative(k), ItemRank(k, 3), ItemRank(k, 3))
<1>1. PICK S : S = Ranked(k, ItemRank(k, 3))  OBVIOUS
<1>2. PICK n \in Nat : n = k.proofs  BY KeySizes
<1>3. PICK t \in Nat : t = Len(k.cs.lookups)  BY KeyLists
<1> DEFINE argument(p, l) == [j \in 1 .. k.chunks[l] |-> Write(<<"h", p, l, j>>)]
                             \o <<Write(<<"acc", p, l>>)>>
           parts == [p \in 1 .. n |-> [l \in 1 .. t |-> argument(p, l)]]
<1>4. ASSUME NEW p \in 1 .. n, NEW l \in 1 .. t
      PROVE  argument(p, l) \in Seq(S)
  <2>1. PICK c \in Nat : c = k.chunks[l]  BY <1>3, KeyLists
  <2>2. ASSUME NEW j \in 1 .. c
        PROVE  Write(<<"h", p, l, j>>) \in S
    <3>1. <<"h", p, l, j>> \in ItemsOf(3)  BY DEF ItemsOf
    <3>2. QED  BY <1>1, <3>1, OneItem
  <2>3. Write(<<"acc", p, l>>) \in S
    <3>1. <<"acc", p, l>> \in ItemsOf(3)  BY DEF ItemsOf
    <3>2. QED  BY <1>1, <3>1, OneItem
  <2>4. [j \in 1 .. c |-> Write(<<"h", p, l, j>>)] \in Seq(S)  BY <2>2
  <2>5. <<Write(<<"acc", p, l>>)>> \in Seq(S)  BY <2>3
  <2>6. QED  BY <2>1, <2>4, <2>5
<1>5. CommitLogderivative(k) = FlattenSeq([p \in 1 .. n |-> FlattenSeq(parts[p])])
  <2>1. CommitLogderivative(k)
            = FlattenSeq([p \in 1 .. n |-> FlattenSeq([l \in 1 .. t |-> argument(p, l)])])
    BY <1>2, <1>3 DEF CommitLogderivative, Each
  <2> HIDE DEF argument
  <2>2. QED  BY <2>1
<1> HIDE DEF argument
<1>6. \A p \in 1 .. n : parts[p] \in [1 .. t -> Seq(S)]  BY <1>4
<1>7. CommitLogderivative(k) \in Seq(S)
  <2> HIDE DEF parts
  <2>1. QED  BY <1>5, <1>6, FlattenNested
<1>8. QED  BY <1>1, <1>7, RanksTyped, LevelRises

\* The section of the trash arguments rises.
LEMMA CommitTrashRises ==
    ASSUME NEW k \in Keys
    PROVE  Rises(k, CommitTrash(k), ChallengeRank(k, 3), ChallengeRank(k, 4))
<1>1. PICK S : S = Ranked(k, ItemRank(k, 4))  OBVIOUS
<1>2. ASSUME NEW p \in Nat, NEW i \in Nat
      PROVE  Write(<<"trash", p, i>>) \in S
  <2>1. <<"trash", p, i>> \in ItemsOf(4)  BY DEF ItemsOf
  <2>2. QED  BY <1>1, <2>1, OneItem
<1>3. PICK n \in Nat : n = k.proofs  BY KeySizes
<1>4. PICK t \in Nat : DOMAIN k.cs.trashcans = 1 .. t  BY KeyLists
<1> DEFINE middle == FlattenSeq([p \in 1 .. n |-> [i \in 1 .. t |-> Write(<<"trash", p, i>>)]])
<1>5. CommitTrash(k) = <<Squeeze(<<"trash_challenge">>)>> \o middle \o <<Squeeze(<<"y">>)>>
  BY <1>3, <1>4 DEF CommitTrash, Each
<1>6. middle \in Seq(S)
  <2>1. \A p \in 1 .. n : [i \in 1 .. t |-> Write(<<"trash", p, i>>)] \in Seq(S)  BY <1>2
  <2>2. [p \in 1 .. n |-> [i \in 1 .. t |-> Write(<<"trash", p, i>>)]] \in [1 .. n -> Seq(S)]
    BY <2>1
  <2>3. QED  BY <2>2, FlattenType
<1> HIDE DEF middle
<1>7. Rises(k, middle, ItemRank(k, 4), ItemRank(k, 4))  BY <1>1, <1>6, RanksTyped, LevelRises
<1>8. /\ <<"trash_challenge">> \in ChallengesOf(3)
      /\ <<"y">> \in ChallengesOf(4)
  BY DEF ChallengesOf
<1>9. Rises(k, <<Squeeze(<<"trash_challenge">>)>>, ChallengeRank(k, 3), ChallengeRank(k, 3))
  BY <1>8, DrawRises
<1>10. Rises(k, <<Squeeze(<<"y">>)>>, ChallengeRank(k, 4), ChallengeRank(k, 4))
  BY <1>8, DrawRises
<1>11. /\ ChallengeRank(k, 3) \in Int /\ ItemRank(k, 4) \in Int /\ ChallengeRank(k, 4) \in Int
       /\ ChallengeRank(k, 3) <= ItemRank(k, 4) /\ ItemRank(k, 4) <= ChallengeRank(k, 4)
  BY RanksTyped
<1>12. Rises(k, <<Squeeze(<<"trash_challenge">>)>> \o middle, ChallengeRank(k, 3), ItemRank(k, 4))
  BY <1>7, <1>9, <1>11, Followed
<1>13. QED  BY <1>5, <1>10, <1>11, <1>12, Followed

\* The section of the quotient rises.
LEMMA ComputeHPolyRises ==
    ASSUME NEW k \in Keys
    PROVE  Rises(k, ComputeHPoly(k), ItemRank(k, 5), ChallengeRank(k, 5))
<1>1. PICK S : S = Ranked(k, ItemRank(k, 5))  OBVIOUS
<1>2. PICK d \in Nat : d = QuotientPolyDegree(k)  BY KeySizes
<1> DEFINE limbs == [i \in 1 .. d |-> Write(<<"limb", i>>)]
<1>3. limbs \in Seq(S)
  <2>1. ASSUME NEW i \in 1 .. d
        PROVE  Write(<<"limb", i>>) \in S
    <3>1. <<"limb", i>> \in ItemsOf(5)  BY DEF ItemsOf
    <3>2. QED  BY <1>1, <3>1, OneItem
  <2>2. QED  BY <2>1
<1>4. ComputeHPoly(k) = limbs \o <<Squeeze(<<"x">>)>>  BY <1>2 DEF ComputeHPoly
<1> HIDE DEF limbs
<1>5. Rises(k, limbs, ItemRank(k, 5), ItemRank(k, 5))  BY <1>1, <1>3, RanksTyped, LevelRises
<1>6. Rises(k, <<Squeeze(<<"x">>)>>, ChallengeRank(k, 5), ChallengeRank(k, 5))
  <2>1. <<"x">> \in ChallengesOf(5)  BY DEF ChallengesOf
  <2>2. QED  BY <2>1, DrawRises
<1>7. /\ ItemRank(k, 5) \in Int /\ ChallengeRank(k, 5) \in Int
      /\ ItemRank(k, 5) <= ChallengeRank(k, 5)
  BY RanksTyped
<1>8. QED  BY <1>4, <1>5, <1>6, <1>7, Followed

\* Evaluations of commitments.
Evaluations(k) == Ranked(k, ItemRank(k, 6))

\* Writing an evaluation is of one rank.
LEMMA OneEvaluation ==
    ASSUME NEW k, NEW com \in Commitments, NEW rot \in Int
    PROVE  Write(Eval(com, rot)) \in Evaluations(k)
<1>1. Eval(com, rot) \in ItemsOf(6)  BY DEF ItemsOf, Eval
<1>2. QED  BY <1>1, OneItem DEF Evaluations

\* Evaluations alone rise.
LEMMA EvaluationsRise ==
    ASSUME NEW k \in Keys, NEW ops \in Seq(Evaluations(k))
    PROVE  Rises(k, ops, ItemRank(k, 6), ItemRank(k, 6))
<1>1. ops \in Seq(Ranked(k, ItemRank(k, 6)))  BY DEF Evaluations
<1>2. QED  BY <1>1, RanksTyped, LevelRises

\* The commitments of one proof.
LEMMA OfOneProof ==
    ASSUME NEW p \in Nat, NEW i \in Nat
    PROVE  /\ Column(p, i) \in Commitments /\ Instance(p, i) \in Commitments
           /\ <<"m", p, i>> \in Commitments /\ <<"z", p, i>> \in Commitments
           /\ <<"acc", p, i>> \in Commitments /\ <<"trash", p, i>> \in Commitments
           /\ \A j \in Nat : <<"h", p, i, j>> \in Commitments
BY DEF Commitments, Column, Instance

\* The commitments of the key.
LEMMA OfTheKey ==
    /\ \A i \in Nat : <<"fixed", i>> \in Commitments /\ <<"sigma", i>> \in Commitments
    /\ <<"lin">> \in Commitments
BY DEF Commitments

\* The queries of a key are pairs of a column and a rotation.
LEMMA KeyQueries ==
    ASSUME NEW k \in Keys, NEW kind \in Kinds
    PROVE  /\ k.cs.queries[kind] \in Seq(Nat \X Int)
           /\ Len(k.cs.queries[kind]) \in Nat
           /\ \A i \in 1 .. Len(k.cs.queries[kind]) :
                 k.cs.queries[kind][i][1] \in Nat /\ k.cs.queries[kind][i][2] \in Int
           /\ DOMAIN k.cs.queries[kind] = 1 .. Len(k.cs.queries[kind])
<1>1. k.cs.queries \in [Kinds -> Seq(Nat \X Int)]  BY KeysAssumption
<1>2. PICK qs \in Seq(Nat \X Int) : qs = k.cs.queries[kind]  BY <1>1
<1>3. /\ Len(qs) \in Nat /\ DOMAIN qs = 1 .. Len(qs)
      /\ \A i \in 1 .. Len(qs) : qs[i][1] \in Nat /\ qs[i][2] \in Int
  <2>1. Len(qs) \in Nat /\ DOMAIN qs = 1 .. Len(qs)  OBVIOUS
  <2>2. ASSUME NEW i \in 1 .. Len(qs)
        PROVE  qs[i][1] \in Nat /\ qs[i][2] \in Int
    <3>1. qs[i] \in Nat \X Int  OBVIOUS
    <3>2. QED  BY <3>1
  <2>3. QED  BY <2>1, <2>2
<1>4. QED  BY <1>2, <1>3

\* The kinds of columns that are queried.
LEMMA KindsAre == "instance" \in Kinds /\ "advice" \in Kinds /\ "fixed" \in Kinds
BY DEF Kinds

\* The evaluations of the columns rise.
LEMMA WriteEvalsRises ==
    ASSUME NEW k \in Keys
    PROVE  Rises(k, WriteEvals(k), ItemRank(k, 6), ItemRank(k, 6))
<1>1. PICK S : S = Evaluations(k)  OBVIOUS
<1>2. PICK n \in Nat : n = k.proofs  BY KeySizes
<1> DEFINE qi == k.cs.queries["instance"]
           qa == k.cs.queries["advice"]
           qf == k.cs.queries["fixed"]
<1>3. PICK ni \in Nat : ni = Len(qi) /\ \A i \in 1 .. ni : qi[i][1] \in Nat /\ qi[i][2] \in Int
  BY KeyQueries, KindsAre
<1>4. PICK na \in Nat : na = Len(qa) /\ \A i \in 1 .. na : qa[i][1] \in Nat /\ qa[i][2] \in Int
  BY KeyQueries, KindsAre
<1>5. PICK nf \in Nat : nf = Len(qf) /\ \A i \in 1 .. nf : qf[i][1] \in Nat /\ qf[i][2] \in Int
  BY KeyQueries, KindsAre
<1> DEFINE ofInstance(p, i) == IF qi[i][1] <= k.committed
                               THEN <<Write(Eval(Instance(p, qi[i][1]), qi[i][2]))>> ELSE <<>>
           ofAdvice(p, i) == <<Write(Eval(Column(p, qa[i][1]), qa[i][2]))>>
           ofFixed(i) == IF HasSimpleSelectorCol(k.cs, qf[i][1]) THEN <<>>
                         ELSE <<Write(Eval(<<"fixed", qf[i][1]>>, qf[i][2]))>>
           instances == [p \in 1 .. n |-> [i \in 1 .. ni |-> ofInstance(p, i)]]
           advices == [p \in 1 .. n |-> [i \in 1 .. na |-> ofAdvice(p, i)]]
<1>6. ASSUME NEW p \in 1 .. n, NEW i \in 1 .. ni
      PROVE  ofInstance(p, i) \in Seq(S)
  <2>1. PICK c \in Nat : c = qi[i][1]  BY <1>3
  <2>2. PICK r \in Int : r = qi[i][2]  BY <1>3
  <2>3. Instance(p, c) \in Commitments
    <3>1. p \in Nat /\ c \in Nat  BY <1>2, <2>1
    <3>2. QED  BY <3>1, OfOneProof, Zenon
  <2>4. Write(Eval(Instance(p, c), r)) \in S  BY <1>1, <2>3, OneEvaluation
  <2>5. QED  BY <2>1, <2>2, <2>4
<1>7. ASSUME NEW p \in 1 .. n, NEW i \in 1 .. na
      PROVE  ofAdvice(p, i) \in Seq(S)
  <2>1. PICK c \in Nat : c = qa[i][1]  BY <1>4
  <2>2. PICK r \in Int : r = qa[i][2]  BY <1>4
  <2>3. Column(p, c) \in Commitments
    <3>1. p \in Nat /\ c \in Nat  BY <1>2, <2>1
    <3>2. QED  BY <3>1, OfOneProof, Zenon
  <2>4. Write(Eval(Column(p, c), r)) \in S  BY <1>1, <2>3, OneEvaluation
  <2>5. QED  BY <2>1, <2>2, <2>4
<1>8. ASSUME NEW i \in 1 .. nf
      PROVE  ofFixed(i) \in Seq(S)
  <2>1. PICK c \in Nat : c = qf[i][1]  BY <1>5
  <2>2. PICK r \in Int : r = qf[i][2]  BY <1>5
  <2>3. <<"fixed", c>> \in Commitments  BY OfTheKey
  <2>4. Write(Eval(<<"fixed", c>>, r)) \in S  BY <1>1, <2>3, OneEvaluation
  <2>5. QED  BY <2>1, <2>2, <2>4
<1>9. WriteEvals(k) = FlattenSeq([p \in 1 .. n |-> FlattenSeq([i \in 1 .. ni |-> ofInstance(p, i)])])
                      \o FlattenSeq([p \in 1 .. n |-> FlattenSeq([i \in 1 .. na |-> ofAdvice(p, i)])])
                      \o FlattenSeq([i \in 1 .. nf |-> ofFixed(i)])
  BY <1>2, <1>3, <1>4, <1>5 DEF WriteEvals, Each
<1> HIDE DEF ofInstance, ofAdvice, ofFixed
<1>10. FlattenSeq([p \in 1 .. n |-> FlattenSeq([i \in 1 .. ni |-> ofInstance(p, i)])]) \in Seq(S)
  <2>1. \A p \in 1 .. n : instances[p] \in [1 .. ni -> Seq(S)]  BY <1>6
  <2>2. [p \in 1 .. n |-> FlattenSeq([i \in 1 .. ni |-> ofInstance(p, i)])]
            = [p \in 1 .. n |-> FlattenSeq(instances[p])]
    OBVIOUS
  <2>3. FlattenSeq([p \in 1 .. n |-> FlattenSeq(instances[p])]) \in Seq(S)
    <3> HIDE DEF instances
    <3>1. QED  BY <2>1, FlattenNested
  <2> HIDE DEF instances
  <2>4. QED  BY <2>2, <2>3, Zenon
<1>11. FlattenSeq([p \in 1 .. n |-> FlattenSeq([i \in 1 .. na |-> ofAdvice(p, i)])]) \in Seq(S)
  <2>1. \A p \in 1 .. n : advices[p] \in [1 .. na -> Seq(S)]  BY <1>7
  <2>2. [p \in 1 .. n |-> FlattenSeq([i \in 1 .. na |-> ofAdvice(p, i)])]
            = [p \in 1 .. n |-> FlattenSeq(advices[p])]
    OBVIOUS
  <2>3. FlattenSeq([p \in 1 .. n |-> FlattenSeq(advices[p])]) \in Seq(S)
    <3> HIDE DEF advices
    <3>1. QED  BY <2>1, FlattenNested
  <2> HIDE DEF advices
  <2>4. QED  BY <2>2, <2>3, Zenon
<1>12. FlattenSeq([i \in 1 .. nf |-> ofFixed(i)]) \in Seq(S)
  <2>1. [i \in 1 .. nf |-> ofFixed(i)] \in [1 .. nf -> Seq(S)]  BY <1>8
  <2>2. QED  BY <2>1, FlattenType
<1>13. \A a, b, c \in Seq(S) : a \o b \o c \in Seq(S)  OBVIOUS
<1>14. WriteEvals(k) \in Seq(S)  BY <1>9, <1>10, <1>11, <1>12, <1>13
<1>15. QED  BY <1>1, <1>14, EvaluationsRise

\* The evaluations of the permutation argument rise.
LEMMA EvaluatePermutationRises ==
    ASSUME NEW k \in Keys
    PROVE  Rises(k, EvaluatePermutation(k), ItemRank(k, 6), ItemRank(k, 6))
<1>1. PICK S : S = Evaluations(k)  OBVIOUS
<1>2. PICK n \in Nat : n = k.proofs  BY KeySizes
<1>3. PICK t \in Nat : t = NumPermutationSets(k)  BY KeySizes
<1>4. PICK r \in Int : r = LastRotation(k)  BY KeySizes
<1>5. PICK c \in Nat : DOMAIN k.cs.permutation = 1 .. c  BY KeyLists
<1> DEFINE product(p, i) ==
               <<Write(Eval(<<"z", p, i>>, 0)), Write(Eval(<<"z", p, i>>, 1))>>
               \o (IF i < t THEN <<Write(Eval(<<"z", p, i>>, r))>> ELSE <<>>)
           products == [p \in 1 .. n |-> [i \in 1 .. t |-> product(p, i)]]
<1>6. ASSUME NEW p \in 1 .. n, NEW i \in 1 .. t
      PROVE  product(p, i) \in Seq(S)
  <2>1. <<"z", p, i>> \in Commitments
    <3>1. p \in Nat /\ i \in Nat  BY <1>2, <1>3
    <3>2. QED  BY <3>1, OfOneProof, Zenon
  <2>2. PICK z : z = <<"z", p, i>>  OBVIOUS
  <2>3. \A rot \in Int : Write(Eval(z, rot)) \in S  BY <1>1, <2>1, <2>2, OneEvaluation
  <2>4. <<Write(Eval(z, 0)), Write(Eval(z, 1))>> \in Seq(S)  BY <2>3
  <2>5. <<Write(Eval(z, r))>> \in Seq(S)  BY <2>3
  <2>6. <<Write(Eval(z, 0)), Write(Eval(z, 1))>>
            \o (IF i < t THEN <<Write(Eval(z, r))>> ELSE <<>>) \in Seq(S)
    BY <2>4, <2>5
  <2>7. QED  BY <2>2, <2>6
<1>7. [i \in 1 .. c |-> Write(Eval(<<"sigma", i>>, 0))] \in Seq(S)
  <2>1. ASSUME NEW i \in 1 .. c
        PROVE  Write(Eval(<<"sigma", i>>, 0)) \in S
    <3>1. <<"sigma", i>> \in Commitments
      <4>1. i \in Nat  BY <1>5
      <4>2. QED  BY <4>1, OfTheKey, Zenon
    <3>2. QED  BY <1>1, <3>1, OneEvaluation
  <2>2. QED  BY <2>1
<1>8. EvaluatePermutation(k)
          = [i \in 1 .. c |-> Write(Eval(<<"sigma", i>>, 0))]
            \o FlattenSeq([p \in 1 .. n |-> FlattenSeq([i \in 1 .. t |-> product(p, i)])])
  BY <1>2, <1>3, <1>4, <1>5 DEF EvaluatePermutation, Each
<1> HIDE DEF product
<1>9. FlattenSeq([p \in 1 .. n |-> FlattenSeq([i \in 1 .. t |-> product(p, i)])]) \in Seq(S)
  <2>1. \A p \in 1 .. n : products[p] \in [1 .. t -> Seq(S)]  BY <1>6
  <2>2. [p \in 1 .. n |-> FlattenSeq([i \in 1 .. t |-> product(p, i)])]
            = [p \in 1 .. n |-> FlattenSeq(products[p])]
    OBVIOUS
  <2>3. FlattenSeq([p \in 1 .. n |-> FlattenSeq(products[p])]) \in Seq(S)
    <3> HIDE DEF products
    <3>1. QED  BY <2>1, FlattenNested
  <2> HIDE DEF products
  <2>4. QED  BY <2>2, <2>3, Zenon
<1>10. \A a, b \in Seq(S) : a \o b \in Seq(S)  OBVIOUS
<1>11. EvaluatePermutation(k) \in Seq(S)  BY <1>7, <1>8, <1>9, <1>10
<1>12. QED  BY <1>1, <1>11, EvaluationsRise

\* The evaluations of the lookups rise.
LEMMA EvaluateLookupsRises ==
    ASSUME NEW k \in Keys
    PROVE  Rises(k, EvaluateLookups(k), ItemRank(k, 6), ItemRank(k, 6))
<1>1. PICK S : S = Evaluations(k)  OBVIOUS
<1>2. PICK n \in Nat : n = k.proofs  BY KeySizes
<1>3. PICK t \in Nat : t = Len(k.cs.lookups)  BY KeyLists
<1> DEFINE argument(p, l) ==
               <<Write(Eval(<<"m", p, l>>, 0))>>
               \o [j \in 1 .. k.chunks[l] |-> Write(Eval(<<"h", p, l, j>>, 0))]
               \o <<Write(Eval(<<"acc", p, l>>, 0)), Write(Eval(<<"acc", p, l>>, 1))>>
           parts == [p \in 1 .. n |-> [l \in 1 .. t |-> argument(p, l)]]
<1>4. ASSUME NEW p \in 1 .. n, NEW l \in 1 .. t
      PROVE  argument(p, l) \in Seq(S)
  <2>1. PICK c \in Nat : c = k.chunks[l]  BY <1>3, KeyLists
  <2>2. Write(Eval(<<"m", p, l>>, 0)) \in S
    <3>1. <<"m", p, l>> \in Commitments
      <4>1. p \in Nat /\ l \in Nat  BY <1>2, <1>3
      <4>2. QED  BY <4>1, OfOneProof, Zenon
    <3>2. QED  BY <1>1, <3>1, OneEvaluation
  <2>3. Write(Eval(<<"acc", p, l>>, 0)) \in S /\ Write(Eval(<<"acc", p, l>>, 1)) \in S
    <3>1. <<"acc", p, l>> \in Commitments
      <4>1. p \in Nat /\ l \in Nat  BY <1>2, <1>3
      <4>2. QED  BY <4>1, OfOneProof, Zenon
    <3>2. QED  BY <1>1, <3>1, OneEvaluation
  <2>4. ASSUME NEW j \in 1 .. c
        PROVE  Write(Eval(<<"h", p, l, j>>, 0)) \in S
    <3>1. <<"h", p, l, j>> \in Commitments
      <4>1. p \in Nat /\ l \in Nat /\ j \in Nat  BY <1>2, <1>3, <2>1
      <4>2. QED  BY <4>1, OfOneProof, Zenon
    <3>2. QED  BY <1>1, <3>1, OneEvaluation
  <2>5. <<Write(Eval(<<"m", p, l>>, 0))>> \in Seq(S)  BY <2>2
  <2>6. [j \in 1 .. c |-> Write(Eval(<<"h", p, l, j>>, 0))] \in Seq(S)  BY <2>4
  <2>7. <<Write(Eval(<<"acc", p, l>>, 0)), Write(Eval(<<"acc", p, l>>, 1))>> \in Seq(S)
    BY <2>3
  <2>8. \A a, b, d \in Seq(S) : a \o b \o d \in Seq(S)  OBVIOUS
  <2>9. QED  BY <2>1, <2>5, <2>6, <2>7, <2>8
<1>5. EvaluateLookups(k)
          = FlattenSeq([p \in 1 .. n |-> FlattenSeq([l \in 1 .. t |-> argument(p, l)])])
  BY <1>2, <1>3 DEF EvaluateLookups, Each
<1> HIDE DEF argument
<1>6. EvaluateLookups(k) \in Seq(S)
  <2>1. \A p \in 1 .. n : parts[p] \in [1 .. t -> Seq(S)]  BY <1>4
  <2>2. [p \in 1 .. n |-> FlattenSeq([l \in 1 .. t |-> argument(p, l)])]
            = [p \in 1 .. n |-> FlattenSeq(parts[p])]
    OBVIOUS
  <2>3. FlattenSeq([p \in 1 .. n |-> FlattenSeq(parts[p])]) \in Seq(S)
    <3> HIDE DEF parts
    <3>1. QED  BY <2>1, FlattenNested
  <2> HIDE DEF parts
  <2>4. QED  BY <1>5, <2>2, <2>3, Zenon
<1>7. QED  BY <1>1, <1>6, EvaluationsRise

\* The evaluations of the trash arguments rise.
LEMMA EvaluateTrashRises ==
    ASSUME NEW k \in Keys
    PROVE  Rises(k, EvaluateTrash(k), ItemRank(k, 6), ItemRank(k, 6))
<1>1. PICK S : S = Evaluations(k)  OBVIOUS
<1>2. PICK n \in Nat : n = k.proofs  BY KeySizes
<1>3. PICK t \in Nat : DOMAIN k.cs.trashcans = 1 .. t  BY KeyLists
<1>4. ASSUME NEW p \in 1 .. n, NEW i \in 1 .. t
      PROVE  Write(Eval(<<"trash", p, i>>, 0)) \in S
  <2>1. <<"trash", p, i>> \in Commitments
    <3>1. p \in Nat /\ i \in Nat  BY <1>2, <1>3
    <3>2. QED  BY <3>1, OfOneProof, Zenon
  <2>2. QED  BY <1>1, <2>1, OneEvaluation
<1>5. \A p \in 1 .. n : [i \in 1 .. t |-> Write(Eval(<<"trash", p, i>>, 0))] \in Seq(S)
  BY <1>4
<1>6. [p \in 1 .. n |-> [i \in 1 .. t |-> Write(Eval(<<"trash", p, i>>, 0))]]
          \in [1 .. n -> Seq(S)]
  BY <1>5
<1>7. EvaluateTrash(k)
          = FlattenSeq([p \in 1 .. n |-> [i \in 1 .. t |-> Write(Eval(<<"trash", p, i>>, 0))]])
  BY <1>2, <1>3 DEF EvaluateTrash, Each
<1>8. EvaluateTrash(k) \in Seq(S)  BY <1>6, <1>7, FlattenType
<1>9. QED  BY <1>1, <1>8, EvaluationsRise

-----------------------------------------------------------------------------
(* The openings.                                                           *)

Openings == {Query(com, rot) : com \in Commitments, rot \in Int}

\* The prover's queries are openings.
LEMMA ComputeQueriesType ==
    ASSUME NEW k \in Keys
    PROVE  ComputeQueries(k) \in Seq(Openings)
<1>1. PICK n \in Nat : n = k.proofs  BY KeySizes
<1>2. PICK t \in Nat : t = NumPermutationSets(k)  BY KeySizes
<1>3. PICK r \in Int : r = LastRotation(k)  BY KeySizes
<1>4. PICK lk \in Nat : lk = Len(k.cs.lookups)  BY KeyLists
<1>5. PICK tr \in Nat : DOMAIN k.cs.trashcans = 1 .. tr  BY KeyLists
<1>6. PICK sg \in Nat : DOMAIN k.cs.permutation = 1 .. sg  BY KeyLists
<1> DEFINE qi == k.cs.queries["instance"]
           qa == k.cs.queries["advice"]
           fixed == Chosen(k.cs.queries["fixed"],
                           {q \in ToSet(k.cs.queries["fixed"]) :
                               ~HasSimpleSelectorCol(k.cs, q[1])})
<1>7. PICK ni \in Nat : ni = Len(qi) /\ \A i \in 1 .. ni : qi[i][1] \in Nat /\ qi[i][2] \in Int
  BY KeyQueries, KindsAre
<1>8. PICK na \in Nat : /\ DOMAIN qa = 1 .. na
                        /\ \A i \in 1 .. na : qa[i][1] \in Nat /\ qa[i][2] \in Int
  BY KeyQueries, KindsAre
<1>9. fixed \in Seq(Nat \X Int)  BY KeyQueries, KindsAre, ChosenExact
<1> HIDE DEF fixed
<1>10. PICK nf \in Nat : /\ DOMAIN fixed = 1 .. nf
                         /\ \A i \in 1 .. nf : fixed[i][1] \in Nat /\ fixed[i][2] \in Int
  <2>1. PICK nf \in Nat : DOMAIN fixed = 1 .. nf  BY <1>9
  <2>2. \A i \in 1 .. nf : fixed[i] \in Nat \X Int  BY <1>9, <2>1
  <2>3. \A i \in 1 .. nf : fixed[i][1] \in Nat /\ fixed[i][2] \in Int  BY <2>2
  <2>4. QED  BY <2>1, <2>3
<1>11. ASSUME NEW com \in Commitments, NEW rot \in Int
       PROVE  Query(com, rot) \in Openings
  BY DEF Openings
<1> DEFINE S == Seq(Openings)
           advice(p) == [i \in 1 .. na |-> Query(Column(p, qa[i][1]), qa[i][2])]
           instance(p, i) == IF qi[i][1] <= k.committed
                             THEN <<Query(Instance(p, qi[i][1]), qi[i][2])>> ELSE <<>>
           instances(p) == FlattenSeq([i \in 1 .. ni |-> instance(p, i)])
           product(p, i) == <<Query(<<"z", p, i>>, 0), Query(<<"z", p, i>>, 1)>>
           products(p) == FlattenSeq([i \in 1 .. t |-> product(p, i)])
           lasts(p) == SubSeq(Reverse([i \in 1 .. t |-> Query(<<"z", p, i>>, r)]), 2, t)
           lookup(p, l) == <<Query(<<"m", p, l>>, 0)>>
                           \o [j \in 1 .. k.chunks[l] |-> Query(<<"h", p, l, j>>, 0)]
                           \o <<Query(<<"acc", p, l>>, 0), Query(<<"acc", p, l>>, 1)>>
           lookups(p) == FlattenSeq([l \in 1 .. lk |-> lookup(p, l)])
           trash(p) == [i \in 1 .. tr |-> Query(<<"trash", p, i>>, 0)]
           ofProof(p) == advice(p) \o instances(p) \o (products(p) \o lasts(p))
                         \o lookups(p) \o trash(p)
           fixeds == [i \in 1 .. nf |-> Query(<<"fixed", fixed[i][1]>>, fixed[i][2])]
           sigmas == [i \in 1 .. sg |-> Query(<<"sigma", i>>, 0)]
<1>12. ComputeQueries(k) = FlattenSeq([p \in 1 .. n |-> ofProof(p)]) \o fixeds \o sigmas
                           \o <<Query(<<"lin">>, 0)>>
  BY <1>1, <1>2, <1>3, <1>4, <1>5, <1>6, <1>7, <1>8, <1>10 DEF ComputeQueries, Each, fixed
<1>13. ASSUME NEW p \in 1 .. n
       PROVE  advice(p) \in S
  <2>1. ASSUME NEW i \in 1 .. na
        PROVE  Query(Column(p, qa[i][1]), qa[i][2]) \in Openings
    <3>1. PICK c \in Nat : c = qa[i][1]  BY <1>8
    <3>2. PICK rot \in Int : rot = qa[i][2]  BY <1>8
    <3>3. p \in Nat  BY <1>1
    <3>4. Column(p, c) \in Commitments  BY <3>1, <3>3, OfOneProof, Zenon
    <3>5. Query(Column(p, c), rot) \in Openings  BY <1>11, <3>4
    <3>6. QED  BY <3>1, <3>2, <3>5
  <2>2. QED  BY <2>1
<1>14. ASSUME NEW p \in 1 .. n
       PROVE  instances(p) \in S
  <2>1. ASSUME NEW i \in 1 .. ni
        PROVE  instance(p, i) \in S
    <3>1. PICK c \in Nat : c = qi[i][1]  BY <1>7
    <3>2. PICK rot \in Int : rot = qi[i][2]  BY <1>7
    <3>3. p \in Nat  BY <1>1
    <3>4. Instance(p, c) \in Commitments  BY <3>1, <3>3, OfOneProof, Zenon
    <3>5. Query(Instance(p, c), rot) \in Openings  BY <1>11, <3>4
    <3>6. <<Query(Instance(p, c), rot)>> \in Seq(Openings)  BY <3>5
    <3>7. QED  BY <3>1, <3>2, <3>6
  <2> HIDE DEF instance
  <2>2. [i \in 1 .. ni |-> instance(p, i)] \in [1 .. ni -> Seq(Openings)]  BY <2>1
  <2>3. QED  BY <2>2, FlattenType
<1>15. ASSUME NEW p \in 1 .. n, NEW i \in 1 .. t, NEW rot \in Int
       PROVE  Query(<<"z", p, i>>, rot) \in Openings
  <2>1. p \in Nat /\ i \in Nat  BY <1>1, <1>2
  <2>2. <<"z", p, i>> \in Commitments  BY <2>1, OfOneProof, Zenon
  <2>3. QED  BY <1>11, <2>2
<1>16. ASSUME NEW p \in 1 .. n
       PROVE  products(p) \in S /\ lasts(p) \in S
  <2>1. ASSUME NEW i \in 1 .. t
        PROVE  product(p, i) \in S
    <3>1. Query(<<"z", p, i>>, 0) \in Openings /\ Query(<<"z", p, i>>, 1) \in Openings
      BY <1>15
    <3>2. QED  BY <3>1
  <2>2. lasts(p) \in S
    <3>1. PICK s : s = [i \in 1 .. t |-> Query(<<"z", p, i>>, r)]  OBVIOUS
    <3>2. s \in Seq(Openings)  BY <1>15, <3>1
    <3>3. Reverse(s) \in Seq(Openings)  BY <3>2 DEF Reverse
    <3>4. PICK b \in Seq(Openings) : b = Reverse(s)  BY <3>3
    <3>5. Len(b) = t
      <4>1. Len(s) = t  BY <3>1
      <4>2. QED  BY <3>4, <4>1 DEF Reverse
    <3>6. SubSeq(b, 2, t) \in Seq(Openings)  BY <3>5
    <3>7. QED  BY <3>1, <3>4, <3>6
  <2> HIDE DEF product
  <2>3. [i \in 1 .. t |-> product(p, i)] \in [1 .. t -> Seq(Openings)]  BY <2>1
  <2>4. QED  BY <2>2, <2>3, FlattenType
<1>17. ASSUME NEW p \in 1 .. n
       PROVE  lookups(p) \in S
  <2>1. ASSUME NEW l \in 1 .. lk
        PROVE  lookup(p, l) \in S
    <3>1. PICK c \in Nat : c = k.chunks[l]  BY <1>4, KeyLists
    <3>2. p \in Nat /\ l \in Nat  BY <1>1, <1>4
    <3>3. /\ <<"m", p, l>> \in Commitments /\ <<"acc", p, l>> \in Commitments
          /\ \A j \in Nat : <<"h", p, l, j>> \in Commitments
      BY <3>2, OfOneProof, Zenon
    <3>4. /\ Query(<<"m", p, l>>, 0) \in Openings
          /\ Query(<<"acc", p, l>>, 0) \in Openings /\ Query(<<"acc", p, l>>, 1) \in Openings
          /\ \A j \in 1 .. c : Query(<<"h", p, l, j>>, 0) \in Openings
      BY <1>11, <3>3
    <3>5. <<Query(<<"m", p, l>>, 0)>> \in Seq(Openings)  BY <3>4
    <3>6. [j \in 1 .. c |-> Query(<<"h", p, l, j>>, 0)] \in Seq(Openings)  BY <3>4
    <3>7. <<Query(<<"acc", p, l>>, 0), Query(<<"acc", p, l>>, 1)>> \in Seq(Openings)  BY <3>4
    <3>8. \A a, b, d \in Seq(Openings) : a \o b \o d \in Seq(Openings)  OBVIOUS
    <3>9. QED  BY <3>1, <3>5, <3>6, <3>7, <3>8
  <2> HIDE DEF lookup
  <2>2. [l \in 1 .. lk |-> lookup(p, l)] \in [1 .. lk -> Seq(Openings)]  BY <2>1
  <2>3. QED  BY <2>2, FlattenType
<1>18. ASSUME NEW p \in 1 .. n
       PROVE  trash(p) \in S
  <2>1. ASSUME NEW i \in 1 .. tr
        PROVE  Query(<<"trash", p, i>>, 0) \in Openings
    <3>1. p \in Nat /\ i \in Nat  BY <1>1, <1>5
    <3>2. <<"trash", p, i>> \in Commitments  BY <3>1, OfOneProof, Zenon
    <3>3. QED  BY <1>11, <3>2
  <2>2. QED  BY <2>1
<1>19. fixeds \in S
  <2>1. ASSUME NEW i \in 1 .. nf
        PROVE  Query(<<"fixed", fixed[i][1]>>, fixed[i][2]) \in Openings
    <3>1. PICK c \in Nat : c = fixed[i][1]  BY <1>10
    <3>2. PICK rot \in Int : rot = fixed[i][2]  BY <1>10
    <3>3. <<"fixed", c>> \in Commitments  BY OfTheKey, Zenon
    <3>4. QED  BY <1>11, <3>1, <3>2, <3>3
  <2>2. QED  BY <2>1
<1>20. sigmas \in S
  <2>1. ASSUME NEW i \in 1 .. sg
        PROVE  Query(<<"sigma", i>>, 0) \in Openings
    <3>1. i \in Nat  BY <1>6
    <3>2. <<"sigma", i>> \in Commitments  BY <3>1, OfTheKey, Zenon
    <3>3. QED  BY <1>11, <3>2
  <2>2. QED  BY <2>1
<1>21. <<Query(<<"lin">>, 0)>> \in S
  <2>1. Query(<<"lin">>, 0) \in Openings  BY <1>11, OfTheKey
  <2>2. QED  BY <2>1
<1> HIDE DEF advice, instances, products, lasts, lookups, trash, fixeds, sigmas
<1>22. \A a, b \in S : a \o b \in S  OBVIOUS
<1> HIDE DEF S
<1>23. ASSUME NEW p \in 1 .. n
       PROVE  ofProof(p) \in S
  BY <1>13, <1>14, <1>16, <1>17, <1>18, <1>22
<1> HIDE DEF ofProof
<1>24. FlattenSeq([p \in 1 .. n |-> ofProof(p)]) \in S
  <2>1. [p \in 1 .. n |-> ofProof(p)] \in [1 .. n -> Seq(Openings)]  BY <1>23 DEF S
  <2>2. QED  BY <2>1, FlattenType DEF S
<1>25. ComputeQueries(k) \in S
  BY <1>12, <1>19, <1>20, <1>21, <1>22, <1>24
<1>26. QED  BY <1>25 DEF S

\* The multi-opening rises, with or without dummy queries.
LEMMA MultiOpenRises ==
    ASSUME NEW k \in Keys, NEW flag \in BOOLEAN
    PROVE  Rises(k, MultiOpenOps(k, flag), ItemRank(k, 6), ItemRank(k, 9))
<1>1. PICK qs \in Seq(Openings) : qs = ComputeQueries(k)  BY ComputeQueriesType
<1> DEFINE D == [com : ComsOf(Openings), point : PointsIn(Openings)]
<1>2. D \subseteq Openings /\ \A d \in D : d.com \in Commitments /\ d.point \in Int
  BY DEF Openings, ComsOf, PointsIn, Query
<1>3. PICK dummies : dummies = IF flag THEN DummyQueries(qs) ELSE <<>>  OBVIOUS
<1>4. dummies \in Seq(D)
  <2>1. DummyQueries(qs) \in Seq(D)  BY DummyQueriesType
  <2> HIDE DEF D
  <2>2. QED  BY <1>3, <2>1
<1> HIDE DEF D
<1>5. PICK t \in Nat : t = SetCount(qs \o dummies)
  <2>1. dummies \in Seq(Openings)  BY <1>2, <1>4
  <2>2. qs \o dummies \in Seq(Openings)  BY <2>1
  <2>3. QED  BY <2>2, SetCountType
<1>6. PICK n \in Nat : DOMAIN dummies = 1 .. n  BY <1>4
<1> DEFINE padded == [i \in 1 .. n |-> Write(Eval(dummies[i].com, dummies[i].point))]
           draw1 == <<Squeeze(<<"x1">>), Squeeze(<<"x2">>)>>
           send1 == <<Write(<<"f">>)>>
           draw2 == <<Squeeze(<<"x3">>)>>
           sends == [s \in 1 .. t |-> Write(<<"qeval", s>>)]
           draw3 == <<Squeeze(<<"x4">>)>>
           send3 == <<Write(<<"pi">>)>>
<1>7. MultiOpenOps(k, flag)
          = padded \o <<Squeeze(<<"x1">>), Squeeze(<<"x2">>), Write(<<"f">>), Squeeze(<<"x3">>)>>
            \o sends \o <<Squeeze(<<"x4">>), Write(<<"pi">>)>>
  BY <1>1, <1>3, <1>5, <1>6 DEF MultiOpenOps, WriteMultiOpen, WriteOpenings
<1>8. /\ <<Squeeze(<<"x1">>), Squeeze(<<"x2">>), Write(<<"f">>), Squeeze(<<"x3">>)>>
            = (draw1 \o send1) \o draw2
      /\ <<Squeeze(<<"x4">>), Write(<<"pi">>)>> = draw3 \o send3
  OBVIOUS
<1>9. Rises(k, padded, ItemRank(k, 6), ItemRank(k, 6))
  <2>1. ASSUME NEW i \in 1 .. n
        PROVE  Write(Eval(dummies[i].com, dummies[i].point)) \in Evaluations(k)
    <3>1. dummies[i] \in D  BY <1>4, <1>6
    <3>2. PICK com \in Commitments : com = dummies[i].com  BY <1>2, <3>1
    <3>3. PICK point \in Int : point = dummies[i].point  BY <1>2, <3>1
    <3>4. QED  BY <3>2, <3>3, OneEvaluation
  <2>2. padded \in Seq(Evaluations(k))  BY <2>1
  <2> HIDE DEF padded
  <2>3. QED  BY <2>2, EvaluationsRise
<1>10. Rises(k, draw1, ChallengeRank(k, 6), ChallengeRank(k, 6))
  <2>1. <<"x1">> \in ChallengesOf(6) /\ <<"x2">> \in ChallengesOf(6)  BY DEF ChallengesOf
  <2>2. /\ Squeeze(<<"x1">>) \in Ranked(k, ChallengeRank(k, 6))
        /\ Squeeze(<<"x2">>) \in Ranked(k, ChallengeRank(k, 6))
    BY <2>1, OneChallenge
  <2>3. draw1 \in Seq(Ranked(k, ChallengeRank(k, 6)))  BY <2>2
  <2> HIDE DEF draw1
  <2>4. QED  BY <2>3, RanksTyped, LevelRises
<1>11. Rises(k, send1, ItemRank(k, 7), ItemRank(k, 7))
  <2>1. <<"f">> \in ItemsOf(7)  BY DEF ItemsOf
  <2>2. Write(<<"f">>) \in Ranked(k, ItemRank(k, 7))  BY <2>1, OneItem
  <2>3. send1 \in Seq(Ranked(k, ItemRank(k, 7)))  BY <2>2
  <2> HIDE DEF send1
  <2>4. QED  BY <2>3, RanksTyped, LevelRises
<1>12. Rises(k, draw2, ChallengeRank(k, 7), ChallengeRank(k, 7))
  <2>1. <<"x3">> \in ChallengesOf(7)  BY DEF ChallengesOf
  <2>2. QED  BY <2>1, DrawRises
<1>13. Rises(k, sends, ItemRank(k, 8), ItemRank(k, 8))
  <2>1. ASSUME NEW s \in 1 .. t
        PROVE  Write(<<"qeval", s>>) \in Ranked(k, ItemRank(k, 8))
    <3>1. <<"qeval", s>> \in ItemsOf(8)  BY <1>5 DEF ItemsOf
    <3>2. QED  BY <3>1, OneItem
  <2>2. sends \in Seq(Ranked(k, ItemRank(k, 8)))  BY <2>1
  <2> HIDE DEF sends
  <2>3. QED  BY <2>2, RanksTyped, LevelRises
<1>14. Rises(k, draw3, ChallengeRank(k, 8), ChallengeRank(k, 8))
  <2>1. <<"x4">> \in ChallengesOf(8)  BY DEF ChallengesOf
  <2>2. QED  BY <2>1, DrawRises
<1>15. Rises(k, send3, ItemRank(k, 9), ItemRank(k, 9))
  <2>1. <<"pi">> \in ItemsOf(9)  BY DEF ItemsOf
  <2>2. Write(<<"pi">>) \in Ranked(k, ItemRank(k, 9))  BY <2>1, OneItem
  <2>3. send3 \in Seq(Ranked(k, ItemRank(k, 9)))  BY <2>2
  <2> HIDE DEF send3
  <2>4. QED  BY <2>3, RanksTyped, LevelRises
<1> HIDE DEF padded, draw1, send1, draw2, sends, draw3, send3
<1>16. PICK r \in Int : r = ItemRank(k, 6)  BY RanksTyped
<1>17. /\ ChallengeRank(k, 6) = r + 1 /\ ItemRank(k, 7) = r + 2 /\ ChallengeRank(k, 7) = r + 3
       /\ ItemRank(k, 8) = r + 4 /\ ChallengeRank(k, 8) = r + 5 /\ ItemRank(k, 9) = r + 6
  <2>1. PICK v \in Nat : v = Top(k)  BY RanksTyped
  <2>2. r = v + 9  BY <1>16, <2>1 DEF ItemRank
  <2>3. /\ ItemRank(k, 7) = v + 11 /\ ItemRank(k, 8) = v + 13 /\ ItemRank(k, 9) = v + 15
    BY <2>1 DEF ItemRank
  <2>4. /\ ChallengeRank(k, 6) = v + 10 /\ ChallengeRank(k, 7) = v + 12
        /\ ChallengeRank(k, 8) = v + 14
    BY <2>1 DEF ChallengeRank
  <2>5. QED  BY <2>2, <2>3, <2>4
<1>18. PICK start : start = draw1 \o send1 /\ Rises(k, start, r + 1, r + 2)
  <2>1. Rises(k, draw1, r + 1, r + 1) /\ Rises(k, send1, r + 2, r + 2)
    BY <1>10, <1>11, <1>17
  <2>2. Rises(k, draw1 \o send1, r + 1, r + 2)  BY <2>1, Followed
  <2>3. QED  BY <2>2
<1>19. Rises(k, start \o draw2, r + 1, r + 3)
  <2>1. Rises(k, draw2, r + 3, r + 3)  BY <1>12, <1>17
  <2>2. QED  BY <1>18, <2>1, Followed
<1>20. Rises(k, draw3 \o send3, r + 5, r + 6)
  <2>1. Rises(k, draw3, r + 5, r + 5) /\ Rises(k, send3, r + 6, r + 6)
    BY <1>14, <1>15, <1>17
  <2>2. QED  BY <2>1, Followed
<1>21. PICK middle : middle = start \o draw2  OBVIOUS
<1>22. PICK end : end = draw3 \o send3  OBVIOUS
<1>23. Rises(k, padded \o middle, r, r + 3)
  BY <1>9, <1>16, <1>19, <1>21, Followed
<1>24. Rises(k, (padded \o middle) \o sends, r, r + 4)
  BY <1>13, <1>17, <1>23, Followed
<1>25. Rises(k, ((padded \o middle) \o sends) \o end, r, r + 6)
  BY <1>20, <1>22, <1>24, Followed
<1>26. MultiOpenOps(k, flag) = ((padded \o middle) \o sends) \o end
  BY <1>7, <1>8, <1>18, <1>21, <1>22, Zenon
<1>27. QED  BY <1>16, <1>17, <1>25, <1>26

-----------------------------------------------------------------------------
(* The inputs and the phases.                                              *)

\* An input is absorbed before any challenge is drawn.
LEMMA OneInput ==
    ASSUME NEW k, NEW item \in Inputs
    PROVE  Common(item) \in Ranked(k, 0)
BY DEF Ranked, InputsAt, Absorbing, Common

\* What is absorbed of an instance column is an input.
LEMMA SomeInputs ==
    ASSUME NEW p \in Nat, NEW c \in Nat
    PROVE  /\ Instance(p, c) \in Inputs /\ <<"len", p, c>> \in Inputs
           /\ \A r \in Nat : <<"value", p, c, r>> \in Inputs
BY DEF Inputs, Instance

\* The key comes before everything else.
LEMMA KeyRises ==
    ASSUME NEW k
    PROVE  Rises(k, << Common(<<"vk">>) >>, 0, 0)
<1>1. <<"vk">> \in Inputs  BY DEF Inputs
<1>2. Common(<<"vk">>) \in Ranked(k, 0)  BY <1>1, OneInput
<1>3. PICK S : S = Ranked(k, 0)  OBVIOUS
<1>4. PICK ops : ops = << Common(<<"vk">>) >>  OBVIOUS
<1>5. ops \in Seq(S)  BY <1>2, <1>3, <1>4
<1>6. Rises(k, ops, 0, 0)  BY <1>3, <1>5, LevelRises
<1>7. QED  BY <1>4, <1>6

\* The instances come before the first commitment.
LEMMA ComputeInstancesRises ==
    ASSUME NEW k \in Keys
    PROVE  Rises(k, ComputeInstances(k), 0, 0)
<1>1. PICK S : S = Ranked(k, 0)  OBVIOUS
<1>2. PICK n \in Nat : n = k.proofs  BY KeySizes
<1>3. PICK t \in Nat : t = k.cs.num_instance_columns  BY KeySizes
<1>4. PICK rows \in Nat : rows = k.len  BY KeySizes
<1> DEFINE values(p, c) == <<Common(<<"len", p, c>>)>>
                           \o [r \in 1 .. rows |-> Common(<<"value", p, c, r>>)]
           column(p, c) == IF c <= k.committed THEN <<Common(Instance(p, c))>> ELSE values(p, c)
           parts == [p \in 1 .. n |-> [c \in 1 .. t |-> column(p, c)]]
<1>5. ASSUME NEW p \in 1 .. n, NEW c \in 1 .. t
      PROVE  column(p, c) \in Seq(S)
  <2>1. p \in Nat /\ c \in Nat  BY <1>2, <1>3
  <2>2. /\ Instance(p, c) \in Inputs /\ <<"len", p, c>> \in Inputs
        /\ \A r \in Nat : <<"value", p, c, r>> \in Inputs
    BY <2>1, SomeInputs, Zenon
  <2>3. Common(Instance(p, c)) \in S /\ Common(<<"len", p, c>>) \in S
    BY <1>1, <2>2, OneInput
  <2>4. ASSUME NEW r \in 1 .. rows
        PROVE  Common(<<"value", p, c, r>>) \in S
    <3>1. r \in Nat  BY <1>4
    <3>2. <<"value", p, c, r>> \in Inputs  BY <2>2, <3>1
    <3>3. QED  BY <1>1, <3>2, OneInput
  <2>5. <<Common(Instance(p, c))>> \in Seq(S) /\ <<Common(<<"len", p, c>>)>> \in Seq(S)
    BY <2>3
  <2>6. [r \in 1 .. rows |-> Common(<<"value", p, c, r>>)] \in Seq(S)
    <3>1. rows \in Nat  BY <1>4
    <3>2. [r \in 1 .. rows |-> Common(<<"value", p, c, r>>)] \in [1 .. rows -> S]  BY <2>4
    <3>3. QED  BY <3>1, <3>2
  <2>7. values(p, c) \in Seq(S)  BY <2>5, <2>6
  <2>8. QED  BY <2>5, <2>7
<1>6. ComputeInstances(k)
          = FlattenSeq([p \in 1 .. n |-> FlattenSeq([c \in 1 .. t |-> column(p, c)])])
  BY <1>2, <1>3, <1>4 DEF ComputeInstances, InstanceItems, Each
<1> HIDE DEF column
<1>7. ComputeInstances(k) \in Seq(S)
  <2>1. \A p \in 1 .. n : parts[p] \in [1 .. t -> Seq(S)]  BY <1>5
  <2>2. [p \in 1 .. n |-> FlattenSeq([c \in 1 .. t |-> column(p, c)])]
            = [p \in 1 .. n |-> FlattenSeq(parts[p])]
    OBVIOUS
  <2>3. FlattenSeq([p \in 1 .. n |-> FlattenSeq(parts[p])]) \in Seq(S)
    <3> HIDE DEF parts
    <3>1. QED  BY <2>1, FlattenNested
  <2> HIDE DEF parts
  <2>4. QED  BY <1>6, <2>2, <2>3, Zenon
<1>8. QED  BY <1>1, <1>7, LevelRises

\* The columns of a phase come before the challenges of that phase.
LEMMA ParseAdvicesRises ==
    ASSUME NEW k \in Keys, NEW phase \in 0 .. LastPhase(k)
    PROVE  Rises(k, ParseAdvices(k, phase), 2 * phase + 1, 2 * phase + 2)
<1>0. phase \in Nat /\ phase <= LastPhase(k)  BY LastPhaseBounds
<1>1. PICK lo \in Nat : lo = 2 * phase + 1  BY <1>0
<1>2. PICK hi \in Nat : hi = 2 * phase + 2  BY <1>0
<1>3. PICK n \in Nat : n = k.proofs  BY KeySizes
<1>4. PICK t \in Nat : t = NumAdvice(k) /\ DOMAIN k.cs.advice_column_phase = 1 .. t
  BY KeyLists
<1>5. PICK u \in Nat : u = Len(k.cs.challenge_phase) /\ DOMAIN k.cs.challenge_phase = 1 .. u
  BY KeyLists
<1> DEFINE column(p, c) == IF k.cs.advice_column_phase[c] = phase
                           THEN <<Write(Column(p, c))>> ELSE <<>>
           challenge(i) == IF k.cs.challenge_phase[i] = phase
                           THEN <<Squeeze(<<"user", i>>)>> ELSE <<>>
           parts == [p \in 1 .. n |-> [c \in 1 .. t |-> column(p, c)]]
           columns == FlattenSeq([p \in 1 .. n |-> FlattenSeq(parts[p])])
           challenges == FlattenSeq([i \in 1 .. u |-> challenge(i)])
<1>6. ASSUME NEW p \in 1 .. n, NEW c \in 1 .. t
      PROVE  column(p, c) \in Seq(Ranked(k, lo))
  <2>1. CASE k.cs.advice_column_phase[c] = phase
    <3>1. p \in Nat  BY <1>3
    <3>2. Column(p, c) \in {"advice"} \X Nat \X DOMAIN k.cs.advice_column_phase
      BY <1>4, <3>1 DEF Column
    <3>3. Column(p, c)[3] = c  BY DEF Column
    <3>4. /\ Write(Column(p, c)) \in
                Absorbing({"advice"} \X Nat \X DOMAIN k.cs.advice_column_phase)
          /\ Write(Column(p, c))[2] = Column(p, c)
      BY <3>2 DEF Absorbing, Write
    <3>5. Write(Column(p, c)) \in ColumnsAt(k, lo)
      BY <1>1, <2>1, <3>3, <3>4 DEF ColumnsAt
    <3>6. Write(Column(p, c)) \in Ranked(k, lo)  BY <3>5 DEF Ranked
    <3>7. QED  BY <2>1, <3>6
  <2>2. CASE k.cs.advice_column_phase[c] # phase  BY <2>2
  <2>3. QED  BY <2>1, <2>2
<1>7. ASSUME NEW i \in 1 .. u
      PROVE  challenge(i) \in Seq(Ranked(k, hi))
  <2>1. CASE k.cs.challenge_phase[i] = phase
    <3>1. /\ Squeeze(<<"user", i>>) \in Drawing({"user"} \X DOMAIN k.cs.challenge_phase)
          /\ Squeeze(<<"user", i>>)[2][2] = i
      BY <1>5 DEF Drawing, Squeeze
    <3>2. Squeeze(<<"user", i>>) \in PhaseChallengesAt(k, hi)
      BY <1>0, <1>2, <2>1, <3>1 DEF PhaseChallengesAt
    <3>3. Squeeze(<<"user", i>>) \in Ranked(k, hi)  BY <3>2 DEF Ranked
    <3>4. QED  BY <2>1, <3>3
  <2>2. CASE k.cs.challenge_phase[i] # phase  BY <2>2
  <2>3. QED  BY <2>1, <2>2
<1>8. ParseAdvices(k, phase)
          = FlattenSeq([p \in 1 .. n |-> FlattenSeq([c \in 1 .. t |-> column(p, c)])]) \o challenges
  BY <1>3, <1>4, <1>5 DEF ParseAdvices, PhaseChallenges, Each
<1> HIDE DEF column, challenge
<1>9. columns \in Seq(Ranked(k, lo))
  <2>1. \A p \in 1 .. n : parts[p] \in [1 .. t -> Seq(Ranked(k, lo))]  BY <1>6
  <2> HIDE DEF parts
  <2>2. QED  BY <2>1, FlattenNested
<1>10. FlattenSeq([p \in 1 .. n |-> FlattenSeq([c \in 1 .. t |-> column(p, c)])]) = columns
  OBVIOUS
<1>11. challenges \in Seq(Ranked(k, hi))
  <2>1. [i \in 1 .. u |-> challenge(i)] \in [1 .. u -> Seq(Ranked(k, hi))]  BY <1>7
  <2>2. QED  BY <2>1, FlattenType
<1> HIDE DEF columns, challenges
<1>12. Rises(k, columns, lo, lo)  BY <1>9, LevelRises
<1>13. Rises(k, challenges, hi, hi)  BY <1>11, LevelRises
<1>14. lo <= hi  BY <1>0, <1>1, <1>2
<1>15. Rises(k, columns \o challenges, lo, hi)  BY <1>12, <1>13, <1>14, Followed
<1>16. ParseAdvices(k, phase) = columns \o challenges  BY <1>8, <1>10, Zenon
<1>17. QED  BY <1>1, <1>2, <1>15, <1>16

-----------------------------------------------------------------------------
(* The program, section by section.                                        *)

SectionCount(k) == LastPhase(k) + 13

\* The rank the sections up to the n-th do not exceed.
Bound(k, n) ==
    IF n <= 2 THEN 0
    ELSE IF n <= LastPhase(k) + 3 THEN 2 * (n - 2)
    ELSE CASE n = LastPhase(k) + 4 -> ItemRank(k, 2)
           [] n \in {LastPhase(k) + 5, LastPhase(k) + 6} -> ItemRank(k, 3)
           [] n = LastPhase(k) + 7 -> ChallengeRank(k, 4)
           [] n = LastPhase(k) + 8 -> ChallengeRank(k, 5)
           [] n \in LastPhase(k) + 9 .. LastPhase(k) + 12 -> ItemRank(k, 6)
           [] OTHER -> ItemRank(k, 9)

\* The bounds between the sections, written out.
LEMMA BoundValues ==
    ASSUME NEW k \in Keys, NEW m \in Nat, m = LastPhase(k)
    PROVE  /\ Bound(k, 0) = 0 /\ Bound(k, 1) = 0 /\ Bound(k, 2) = 0
           /\ \A i \in 1 .. m + 1 : Bound(k, i + 2) = 2 * i
           /\ Bound(k, m + 4) = 2 * m + 4 /\ Bound(k, m + 5) = 2 * m + 6
           /\ Bound(k, m + 6) = 2 * m + 6 /\ Bound(k, m + 7) = 2 * m + 9
           /\ Bound(k, m + 8) = 2 * m + 11 /\ Bound(k, m + 9) = 2 * m + 12
           /\ Bound(k, m + 10) = 2 * m + 12 /\ Bound(k, m + 11) = 2 * m + 12
           /\ Bound(k, m + 12) = 2 * m + 12 /\ Bound(k, m + 13) = 2 * m + 18
<1>1. Bound(k, 0) = 0 /\ Bound(k, 1) = 0 /\ Bound(k, 2) = 0  BY DEF Bound
<1>2. \A i \in 1 .. m + 1 : Bound(k, i + 2) = 2 * i  BY DEF Bound
<1>3. /\ Bound(k, m + 4) = ItemRank(k, 2)
      /\ Bound(k, m + 5) = ItemRank(k, 3) /\ Bound(k, m + 6) = ItemRank(k, 3)
      /\ Bound(k, m + 7) = ChallengeRank(k, 4) /\ Bound(k, m + 8) = ChallengeRank(k, 5)
  BY DEF Bound
<1>4. /\ Bound(k, m + 9) = ItemRank(k, 6) /\ Bound(k, m + 10) = ItemRank(k, 6)
      /\ Bound(k, m + 11) = ItemRank(k, 6) /\ Bound(k, m + 12) = ItemRank(k, 6)
      /\ Bound(k, m + 13) = ItemRank(k, 9)
  BY DEF Bound
<1>5. /\ ItemRank(k, 2) = 2 * m + 4 /\ ItemRank(k, 3) = 2 * m + 6
      /\ ChallengeRank(k, 4) = 2 * m + 9 /\ ChallengeRank(k, 5) = 2 * m + 11
      /\ ItemRank(k, 6) = 2 * m + 12 /\ ItemRank(k, 9) = 2 * m + 18
  BY DEF ItemRank, ChallengeRank, Top
<1>6. QED  BY <1>1, <1>2, <1>3, <1>4, <1>5

\* The parts of the program.
ProgramIs(k, flag, m, P) ==
    /\ DOMAIN P = 1 .. m + 13 /\ P = [n \in 1 .. m + 13 |-> P[n]]
    /\ P[1] = << Common(<<"vk">>) >> /\ P[2] = ComputeInstances(k)
    /\ \A i \in 1 .. m + 1 : P[i + 2] = ParseAdvices(k, i - 1)
    /\ P[m + 4] = CommitMultiplicities(k) /\ P[m + 5] = CommitPermutation(k)
    /\ P[m + 6] = CommitLogderivative(k) /\ P[m + 7] = CommitTrash(k)
    /\ P[m + 8] = ComputeHPoly(k) /\ P[m + 9] = WriteEvals(k)
    /\ P[m + 10] = EvaluatePermutation(k) /\ P[m + 11] = EvaluateLookups(k)
    /\ P[m + 12] = EvaluateTrash(k) /\ P[m + 13] = MultiOpenOps(k, flag)

\* The prover's program, section by section.
LEMMA ProgramEntries ==
    ASSUME NEW k \in Keys, NEW flag \in BOOLEAN, NEW m \in Nat, m = LastPhase(k),
           NEW P, P = ProverProgram(k, flag)
    PROVE  ProgramIs(k, flag, m, P)
<1> DEFINE A == << << Common(<<"vk">>) >>, ComputeInstances(k) >>
           B == [i \in 1 .. m + 1 |-> ParseAdvices(k, i - 1)]
           C == << CommitMultiplicities(k), CommitPermutation(k), CommitLogderivative(k),
                   CommitTrash(k), ComputeHPoly(k), WriteEvals(k), EvaluatePermutation(k),
                   EvaluateLookups(k), EvaluateTrash(k), MultiOpenOps(k, flag) >>
           U == {A[i] : i \in 1 .. 2} \cup {B[i] : i \in 1 .. m + 1} \cup {C[i] : i \in 1 .. 10}
<1>1. P = (A \o B) \o C  BY DEF ProverProgram, LastPhase
<1>2. PICK a : a = A  OBVIOUS
<1>3. PICK b : b = B  OBVIOUS
<1>4. PICK c : c = C  OBVIOUS
<1>5. a \in Seq(U) /\ Len(a) = 2  BY <1>2
<1>6. b \in Seq(U) /\ Len(b) = m + 1
  <2>1. b \in [1 .. m + 1 -> {B[i] : i \in 1 .. m + 1}]  BY <1>3
  <2>2. b \in [1 .. m + 1 -> U]  BY <2>1
  <2> HIDE DEF U, B
  <2>3. QED  BY <2>2
<1>7. c \in Seq(U) /\ Len(c) = 10
  <2>1. /\ DOMAIN C = 1 .. 10 /\ Len(C) = 10
        /\ \A i \in 1 .. 10 : C[i] \in U
    OBVIOUS
  <2>2. C \in Seq({C[i] : i \in 1 .. 10})  OBVIOUS
  <2>3. QED  BY <1>4, <2>1, <2>2
<1> HIDE DEF U
<1>8. PICK d : d = a \o b  OBVIOUS
<1>9. /\ d \in Seq(U) /\ Len(d) = m + 3
      /\ \A i \in 1 .. 2 : d[i] = a[i]
      /\ \A i \in 3 .. m + 3 : d[i] = b[i - 2]
  <2>1. /\ d \in Seq(U) /\ Len(d) = Len(a) + Len(b)
        /\ \A i \in 1 .. Len(a) : d[i] = a[i]
        /\ \A i \in Len(a) + 1 .. Len(a) + Len(b) : d[i] = b[i - Len(a)]
    BY <1>5, <1>6, <1>8, Concatenated
  <2>2. Len(a) = 2 /\ Len(b) = m + 1  BY <1>5, <1>6
  <2>3. QED  BY <2>1, <2>2
<1>10. P = d \o c  BY <1>1, <1>2, <1>3, <1>4, <1>8
<1>11. /\ P \in Seq(U) /\ Len(P) = m + 13
       /\ \A i \in 1 .. m + 3 : P[i] = d[i]
       /\ \A i \in m + 4 .. m + 13 : P[i] = c[i - (m + 3)]
  <2>1. PICK e : e = d \o c  OBVIOUS
  <2>2. d \in Seq(U) /\ c \in Seq(U)  BY <1>7, <1>9
  <2>3. /\ e \in Seq(U) /\ Len(e) = Len(d) + Len(c)
        /\ \A i \in 1 .. Len(d) : e[i] = d[i]
        /\ \A i \in Len(d) + 1 .. Len(d) + Len(c) : e[i] = c[i - Len(d)]
    BY <2>1, <2>2, Concatenated
  <2>4. Len(d) = m + 3 /\ Len(c) = 10  BY <1>7, <1>9
  <2>5. /\ e \in Seq(U) /\ Len(e) = m + 13
        /\ \A i \in 1 .. m + 3 : e[i] = d[i]
        /\ \A i \in m + 4 .. m + 13 : e[i] = c[i - (m + 3)]
    BY <2>3, <2>4
  <2>6. P = e  BY <1>10, <2>1
  <2>7. QED  BY <2>5, <2>6
<1>12. DOMAIN P = 1 .. m + 13 /\ P = [n \in 1 .. m + 13 |-> P[n]]  BY <1>11
<1>13. P[1] = a[1] /\ P[2] = a[2]  BY <1>9, <1>11
<1>14. ASSUME NEW i \in 1 .. m + 1
       PROVE  P[i + 2] = b[i]
  <2>1. i + 2 \in 3 .. m + 3 /\ i + 2 \in 1 .. m + 3 /\ (i + 2) - 2 = i  OBVIOUS
  <2>2. QED  BY <1>9, <1>11, <2>1
<1>15. ASSUME NEW j \in 1 .. 10
       PROVE  P[m + 3 + j] = c[j]
  <2>1. m + 3 + j \in m + 4 .. m + 13 /\ (m + 3 + j) - (m + 3) = j  OBVIOUS
  <2>2. QED  BY <1>11, <2>1
<1>16. /\ P[m + 4] = c[1] /\ P[m + 5] = c[2] /\ P[m + 6] = c[3] /\ P[m + 7] = c[4]
       /\ P[m + 8] = c[5] /\ P[m + 9] = c[6] /\ P[m + 10] = c[7] /\ P[m + 11] = c[8]
       /\ P[m + 12] = c[9] /\ P[m + 13] = c[10]
  <2>1. /\ m + 3 + 1 = m + 4 /\ m + 3 + 2 = m + 5 /\ m + 3 + 3 = m + 6 /\ m + 3 + 4 = m + 7
        /\ m + 3 + 5 = m + 8 /\ m + 3 + 6 = m + 9 /\ m + 3 + 7 = m + 10 /\ m + 3 + 8 = m + 11
        /\ m + 3 + 9 = m + 12 /\ m + 3 + 10 = m + 13
    OBVIOUS
  <2>2. QED  BY <1>15, <2>1
<1>17. a[1] = << Common(<<"vk">>) >> /\ a[2] = ComputeInstances(k)  BY <1>2
<1>18. \A i \in 1 .. m + 1 : b[i] = ParseAdvices(k, i - 1)  BY <1>3
<1>19. /\ c[1] = CommitMultiplicities(k) /\ c[2] = CommitPermutation(k)
       /\ c[3] = CommitLogderivative(k) /\ c[4] = CommitTrash(k)
       /\ c[5] = ComputeHPoly(k) /\ c[6] = WriteEvals(k)
       /\ c[7] = EvaluatePermutation(k) /\ c[8] = EvaluateLookups(k)
       /\ c[9] = EvaluateTrash(k) /\ c[10] = MultiOpenOps(k, flag)
  BY <1>4
<1>20. QED  BY <1>12, <1>13, <1>14, <1>16, <1>17, <1>18, <1>19 DEF ProgramIs

\* A section starts where the last one may have ended.
SectionRises(k, P, n) ==
    /\ Bound(k, n - 1) \in Int /\ Bound(k, n) \in Int
    /\ 0 <= Bound(k, n - 1) /\ Bound(k, n - 1) <= Bound(k, n)
    /\ Rises(k, P[n], Bound(k, n - 1), Bound(k, n))

\* Every section stays within its bounds.
LEMMA EverySectionRises ==
    ASSUME NEW k \in Keys, NEW flag \in BOOLEAN, NEW P, P = ProverProgram(k, flag),
           NEW n \in 1 .. SectionCount(k)
    PROVE  SectionRises(k, P, n)
<1>1. PICK m \in Nat : m = LastPhase(k)  BY LastPhaseBounds
<1>2. n \in 1 .. m + 13  BY <1>1 DEF SectionCount
<1>3. /\ P[1] = << Common(<<"vk">>) >> /\ P[2] = ComputeInstances(k)
      /\ \A i \in 1 .. m + 1 : P[i + 2] = ParseAdvices(k, i - 1)
      /\ P[m + 4] = CommitMultiplicities(k) /\ P[m + 5] = CommitPermutation(k)
      /\ P[m + 6] = CommitLogderivative(k) /\ P[m + 7] = CommitTrash(k)
      /\ P[m + 8] = ComputeHPoly(k) /\ P[m + 9] = WriteEvals(k)
      /\ P[m + 10] = EvaluatePermutation(k) /\ P[m + 11] = EvaluateLookups(k)
      /\ P[m + 12] = EvaluateTrash(k) /\ P[m + 13] = MultiOpenOps(k, flag)
  <2>1. ProgramIs(k, flag, m, P)  BY <1>1, ProgramEntries
  <2>2. QED  BY <2>1 DEF ProgramIs
<1>4. /\ Bound(k, 0) = 0 /\ Bound(k, 1) = 0 /\ Bound(k, 2) = 0
      /\ \A i \in 1 .. m + 1 : Bound(k, i + 2) = 2 * i
      /\ Bound(k, m + 4) = 2 * m + 4 /\ Bound(k, m + 5) = 2 * m + 6
      /\ Bound(k, m + 6) = 2 * m + 6 /\ Bound(k, m + 7) = 2 * m + 9
      /\ Bound(k, m + 8) = 2 * m + 11 /\ Bound(k, m + 9) = 2 * m + 12
      /\ Bound(k, m + 10) = 2 * m + 12 /\ Bound(k, m + 11) = 2 * m + 12
      /\ Bound(k, m + 12) = 2 * m + 12 /\ Bound(k, m + 13) = 2 * m + 18
  BY <1>1, BoundValues
<1>5. Top(k) = 2 * m + 3  BY <1>1 DEF Top
<1>6. ASSUME NEW j \in 1 .. m + 13, NEW before \in Nat, NEW after \in Nat,
             NEW lo \in Int, NEW hi \in Int,
             Bound(k, j - 1) = before, Bound(k, j) = after,
             before <= lo, lo <= hi, hi <= after, Rises(k, P[j], lo, hi)
      PROVE  SectionRises(k, P, j)
  <2>1. PICK ops : ops = P[j]  OBVIOUS
  <2>2. Rises(k, ops, before, after)  BY <1>6, <2>1, Widened
  <2>3. before <= after /\ before \in Int /\ after \in Int /\ 0 <= before  BY <1>6
  <2>4. QED  BY <1>6, <2>1, <2>2, <2>3 DEF SectionRises
<1>7. CASE n = 1
  <2>1. Rises(k, P[n], 0, 0)  BY <1>3, <1>7, KeyRises
  <2>2. Bound(k, n - 1) = 0 /\ Bound(k, n) = 0  BY <1>4, <1>7
  <2>3. QED  BY <1>2, <1>6, <2>1, <2>2
<1>8. CASE n = 2
  <2>1. Rises(k, P[n], 0, 0)  BY <1>3, <1>8, ComputeInstancesRises
  <2>2. Bound(k, n - 1) = 0 /\ Bound(k, n) = 0  BY <1>4, <1>8
  <2>3. QED  BY <1>2, <1>6, <2>1, <2>2
<1>9. CASE n \in 3 .. m + 3
  <2>1. PICK i \in 1 .. m + 1 : n = i + 2
    <3>1. n - 2 \in 1 .. m + 1 /\ n = (n - 2) + 2  BY <1>9
    <3>2. QED  BY <3>1
  <2>2. PICK phase \in Nat : phase = i - 1 /\ phase <= m  OBVIOUS
  <2>3. phase \in 0 .. LastPhase(k)  BY <1>1, <2>2
  <2>4. Rises(k, ParseAdvices(k, phase), 2 * phase + 1, 2 * phase + 2)
    BY <2>3, ParseAdvicesRises
  <2>5. P[n] = ParseAdvices(k, phase)  BY <1>3, <2>1, <2>2
  <2>6. Bound(k, n) = 2 * phase + 2  BY <1>4, <2>1, <2>2
  <2>7. Bound(k, n - 1) = 2 * phase
    <3>1. CASE i = 1
      <4>1. n - 1 = 2 /\ phase = 0  BY <2>1, <2>2, <3>1
      <4>2. QED  BY <1>4, <4>1
    <3>2. CASE i # 1
      <4>1. i - 1 \in 1 .. m + 1 /\ n - 1 = (i - 1) + 2  BY <2>1, <3>2
      <4>2. Bound(k, n - 1) = 2 * (i - 1)  BY <1>4, <4>1
      <4>3. QED  BY <2>2, <4>2
    <3>3. QED  BY <3>1, <3>2
  <2>8. PICK b \in Nat : b = 2 * phase  OBVIOUS
  <2>9. Rises(k, P[n], b + 1, b + 2)  BY <2>4, <2>5, <2>8
  <2>10. Bound(k, n - 1) = b /\ Bound(k, n) = b + 2  BY <2>6, <2>7, <2>8
  <2>11. QED  BY <1>2, <1>6, <2>9, <2>10
<1>10. CASE n \in m + 4 .. m + 13
  <2>1. /\ ChallengeRank(k, 1) = 2 * m + 3 /\ ItemRank(k, 2) = 2 * m + 4
        /\ ChallengeRank(k, 2) = 2 * m + 5 /\ ItemRank(k, 3) = 2 * m + 6
        /\ ChallengeRank(k, 3) = 2 * m + 7 /\ ChallengeRank(k, 4) = 2 * m + 9
        /\ ItemRank(k, 5) = 2 * m + 10 /\ ChallengeRank(k, 5) = 2 * m + 11
        /\ ItemRank(k, 6) = 2 * m + 12 /\ ItemRank(k, 9) = 2 * m + 18
    BY <1>5 DEF ItemRank, ChallengeRank
  <2>2. CASE n = m + 4
    <3>1. Bound(k, n - 1) = 2 * m + 2
      <4>1. m + 1 \in 1 .. m + 1 /\ n - 1 = (m + 1) + 2  BY <2>2
      <4>2. Bound(k, n - 1) = 2 * (m + 1)  BY <1>4, <4>1
      <4>3. QED  BY <4>2
    <3>2. Rises(k, P[n], 2 * m + 3, 2 * m + 4)
      BY <1>3, <2>1, <2>2, CommitMultiplicitiesRises
    <3>3. Bound(k, n) = 2 * m + 4  BY <1>4, <2>2
    <3>4. QED  BY <1>2, <1>6, <3>1, <3>2, <3>3
  <2>3. CASE n = m + 5
    <3>1. Bound(k, n - 1) = 2 * m + 4  BY <1>4, <2>3
    <3>2. Rises(k, P[n], 2 * m + 5, 2 * m + 6)
      BY <1>3, <2>1, <2>3, CommitPermutationRises
    <3>3. Bound(k, n) = 2 * m + 6  BY <1>4, <2>3
    <3>4. QED  BY <1>2, <1>6, <3>1, <3>2, <3>3
  <2>4. CASE n = m + 6
    <3>1. Bound(k, n - 1) = 2 * m + 6  BY <1>4, <2>4
    <3>2. Rises(k, P[n], 2 * m + 6, 2 * m + 6)
      BY <1>3, <2>1, <2>4, CommitLogderivativeRises
    <3>3. Bound(k, n) = 2 * m + 6  BY <1>4, <2>4
    <3>4. QED  BY <1>2, <1>6, <3>1, <3>2, <3>3
  <2>5. CASE n = m + 7
    <3>1. Bound(k, n - 1) = 2 * m + 6  BY <1>4, <2>5
    <3>2. Rises(k, P[n], 2 * m + 7, 2 * m + 9)
      BY <1>3, <2>1, <2>5, CommitTrashRises
    <3>3. Bound(k, n) = 2 * m + 9  BY <1>4, <2>5
    <3>4. QED  BY <1>2, <1>6, <3>1, <3>2, <3>3
  <2>6. CASE n = m + 8
    <3>1. Bound(k, n - 1) = 2 * m + 9  BY <1>4, <2>6
    <3>2. Rises(k, P[n], 2 * m + 10, 2 * m + 11)
      BY <1>3, <2>1, <2>6, ComputeHPolyRises
    <3>3. Bound(k, n) = 2 * m + 11  BY <1>4, <2>6
    <3>4. QED  BY <1>2, <1>6, <3>1, <3>2, <3>3
  <2>7. CASE n = m + 9
    <3>1. Bound(k, n - 1) = 2 * m + 11  BY <1>4, <2>7
    <3>2. Rises(k, P[n], 2 * m + 12, 2 * m + 12)
      BY <1>3, <2>1, <2>7, WriteEvalsRises
    <3>3. Bound(k, n) = 2 * m + 12  BY <1>4, <2>7
    <3>4. QED  BY <1>2, <1>6, <3>1, <3>2, <3>3
  <2>8. CASE n \in m + 10 .. m + 12
    <3>1. Bound(k, n - 1) = 2 * m + 12 /\ Bound(k, n) = 2 * m + 12  BY <1>4, <2>8
    <3>2. \/ P[n] = EvaluatePermutation(k) \/ P[n] = EvaluateLookups(k)
          \/ P[n] = EvaluateTrash(k)
      BY <1>3, <2>8
    <3>3. Rises(k, P[n], 2 * m + 12, 2 * m + 12)
      BY <2>1, <3>2, EvaluatePermutationRises, EvaluateLookupsRises, EvaluateTrashRises
    <3>4. QED  BY <1>2, <1>6, <3>1, <3>3
  <2>9. CASE n = m + 13
    <3>1. Bound(k, n - 1) = 2 * m + 12  BY <1>4, <2>9
    <3>2. Rises(k, P[n], 2 * m + 12, 2 * m + 18)
      BY <1>3, <2>1, <2>9, MultiOpenRises
    <3>3. Bound(k, n) = 2 * m + 18  BY <1>4, <2>9
    <3>4. QED  BY <1>2, <1>6, <3>1, <3>2, <3>3
  <2>10. QED  BY <1>10, <2>2, <2>3, <2>4, <2>5, <2>6, <2>7, <2>8, <2>9
<1>11. QED  BY <1>2, <1>7, <1>8, <1>9, <1>10

-----------------------------------------------------------------------------
(* The invariant of the prover.                                            *)

\* The prover has run n sections of its program.
HasRun(k, flag, n, sections, history) ==
    /\ n \in 0 .. SectionCount(k)
    /\ sections = [i \in 1 .. SectionCount(k) - n |-> ProverProgram(k, flag)[n + i]]
    /\ Rises(k, history, 0, Bound(k, n))

ProverInv ==
    /\ key \in Keys /\ flags \in BOOLEAN \X BOOLEAN
    /\ \E n : HasRun(key, flags[1], n, todo, phist)

\* The prover that has not begun.
LEMMA NothingRises ==
    ASSUME NEW k
    PROVE  Rises(k, <<>>, 0, 0)
<1>1. PICK s : s = <<>>  OBVIOUS
<1>2. PICK S : S = Ranked(k, 0)  OBVIOUS
<1>3. s \in Seq(S)  BY <1>1
<1>4. Rises(k, s, 0, 0)  BY <1>2, <1>3, LevelRises
<1>5. QED  BY <1>1, <1>4

\* The invariant holds at the start.
LEMMA ProverStarts == Init => ProverInv
<1> SUFFICES ASSUME Init
             PROVE  ProverInv
  OBVIOUS
<1>1. key \in Keys /\ flags \in BOOLEAN \X BOOLEAN  BY FlagPairsAssumption DEF Init
<1>2. PICK k \in Keys : k = key  BY <1>1
<1>3. PICK flag \in BOOLEAN : flag = flags[1]  BY <1>1
<1>4. PICK m \in Nat : m = LastPhase(k)  BY LastPhaseBounds
<1>5. PICK P : P = ProverProgram(k, flag)  OBVIOUS
<1>6. P = [i \in 1 .. m + 13 |-> P[i]]
  <2>1. ProgramIs(k, flag, m, P)  BY <1>4, <1>5, ProgramEntries
  <2>2. QED  BY <2>1 DEF ProgramIs
<1>7. todo = P /\ phist = <<>>  BY <1>2, <1>3, <1>5 DEF Init
<1>8. SectionCount(k) = m + 13  BY <1>4 DEF SectionCount
<1>9. P = [i \in 1 .. (m + 13) - 0 |-> P[0 + i]]  BY <1>6
<1>10. Rises(k, phist, 0, Bound(k, 0))  BY <1>7, NothingRises DEF Bound
<1>11. HasRun(k, flag, 0, todo, phist)
  BY <1>4, <1>5, <1>7, <1>8, <1>9, <1>10 DEF HasRun
<1>12. QED  BY <1>1, <1>2, <1>3, <1>11 DEF ProverInv

\* A section more of the program.
LEMMA SectionRuns ==
    ASSUME NEW k \in Keys, NEW flag \in BOOLEAN, NEW n, NEW sections, NEW history,
           HasRun(k, flag, n, sections, history), sections # <<>>
    PROVE  HasRun(k, flag, n + 1, Tail(sections), history \o History(Head(sections)))
<1>1. PICK m \in Nat : m = SectionCount(k)
  BY LastPhaseBounds DEF SectionCount
<1>2. PICK P : P = ProverProgram(k, flag)  OBVIOUS
<1>3. n \in 0 .. m /\ sections = [i \in 1 .. m - n |-> P[n + i]]  BY <1>1, <1>2 DEF HasRun
<1>4. n # m  BY <1>1, <1>3
<1>5. n + 1 \in 1 .. m  BY <1>1, <1>3, <1>4
<1>6. Head(sections) = P[n + 1]  BY <1>1, <1>3, <1>5
<1>7. Tail(sections) = [i \in 1 .. m - (n + 1) |-> P[(n + 1) + i]]
  <2>1. Len(sections) = m - n /\ Len(sections) \in Nat  BY <1>1, <1>3
  <2>2. Tail(sections) = [i \in 1 .. (m - n) - 1 |-> sections[i + 1]]  BY <1>1, <1>3, <1>5, <2>1
  <2>3. (m - n) - 1 = m - (n + 1)  BY <1>1, <1>3
  <2>4. \A i \in 1 .. m - (n + 1) : sections[i + 1] = P[(n + 1) + i]
    BY <1>1, <1>3
  <2>5. QED  BY <2>2, <2>3, <2>4
<1>8. PICK r \in 1 .. m : r = n + 1  BY <1>5
<1>9. SectionRises(k, P, r)  BY <1>1, <1>2, EverySectionRises
<1>10. PICK before \in Int : before = Bound(k, n) /\ 0 <= before
  <2>1. r - 1 = n  BY <1>1, <1>3, <1>8
  <2>2. QED  BY <1>9, <2>1 DEF SectionRises
<1>11. PICK after \in Int : after = Bound(k, r) /\ before <= after
  <2>1. r - 1 = n  BY <1>1, <1>3, <1>8
  <2>2. QED  BY <1>9, <1>10, <2>1 DEF SectionRises
<1>12. PICK ops : ops = P[r]  OBVIOUS
<1>13. Rises(k, ops, before, after)
  <2>1. r - 1 = n  BY <1>1, <1>3, <1>8
  <2>2. QED  BY <1>9, <1>10, <1>11, <1>12, <2>1 DEF SectionRises
<1>14. Rises(k, History(ops), before, after)  BY <1>13, HistoryRises
<1>15. Rises(k, history, 0, before)  BY <1>10 DEF HasRun
<1>16. Rises(k, history \o History(ops), 0, after)
  BY <1>10, <1>11, <1>14, <1>15, Joined
<1>17. QED
  <2>1. n + 1 \in 0 .. m  BY <1>1, <1>5
  <2>2. Rises(k, history \o History(Head(sections)), 0, Bound(k, n + 1))
    BY <1>6, <1>8, <1>11, <1>12, <1>16
  <2>3. QED  BY <1>1, <1>2, <1>7, <2>1, <2>2 DEF HasRun

\* Every step keeps the invariant.
LEMMA ProverGoesOn == ProverInv /\ [Next]_vars => ProverInv'
<1> SUFFICES ASSUME ProverInv, [Next]_vars
             PROVE  ProverInv'
  OBVIOUS
<1>1. CASE ProverStep
  <2>1. PICK n : HasRun(key, flags[1], n, todo, phist)  BY DEF ProverInv
  <2>2. key \in Keys /\ flags[1] \in BOOLEAN  BY DEF ProverInv
  <2>3. PICK k \in Keys : k = key  BY <2>2
  <2>4. PICK flag \in BOOLEAN : flag = flags[1]  BY <2>2
  <2>5. HasRun(k, flag, n + 1, Tail(todo), phist \o History(Head(todo)))
    BY <1>1, <2>1, <2>3, <2>4, SectionRuns DEF ProverStep
  <2>6. todo' = Tail(todo) /\ phist' = phist \o History(Head(todo)) /\ key' = key /\ flags' = flags
    BY <1>1 DEF ProverStep
  <2>7. HasRun(key, flags[1], n + 1, todo', phist')  BY <2>3, <2>4, <2>5, <2>6
  <2>8. QED  BY <2>6, <2>7 DEF ProverInv
<1>2. CASE UNCHANGED <<key, flags, todo, phist>>
  BY <1>2 DEF ProverInv
<1>3. CASE ProverStops \/ VerifierStops \/ VerifierStepFails \/ VerifierPanics \/ TrailingBytes
           \/ GuardVerify
  BY <1>2, <1>3 DEF ProverStops, VerifierStops, VerifierStepFails, VerifierPanics,
                    TrailingBytes, GuardVerify, Ends
<1>4. CASE Deliver  BY <1>2, <1>4 DEF Deliver
<1>5. CASE VerifierStep  BY <1>2, <1>5 DEF VerifierStep
<1>6. CASE UNCHANGED vars  BY <1>2, <1>6 DEF vars
<1>7. QED  BY <1>1, <1>3, <1>4, <1>5, <1>6 DEF Next

-----------------------------------------------------------------------------
(* What the ranks say of the hash state.                                   *)

\* The levels of the kinds of items and of challenges, spelled out.
LEMMA LevelOf ==
    /\ \A l \in 2 .. 9 : \A item \in ItemsOf(l) : ItemLevel[item[1]] = l
    /\ \A l \in 1 .. 8 : \A name \in ChallengesOf(l) :
          name[1] # "user" /\ ChallengeLevel[name[1]] = l
<1>1. ASSUME NEW l \in 2 .. 9, NEW item \in ItemsOf(l)
      PROVE  ItemLevel[item[1]] = l
  <2>1. CASE l = 2  BY <1>1, <2>1 DEF ItemsOf, ItemLevel
  <2>2. CASE l = 3  BY <1>1, <2>2 DEF ItemsOf, ItemLevel
  <2>3. CASE l = 4  BY <1>1, <2>3 DEF ItemsOf, ItemLevel
  <2>4. CASE l = 5  BY <1>1, <2>4 DEF ItemsOf, ItemLevel
  <2>5. CASE l = 6  BY <1>1, <2>5 DEF ItemsOf, ItemLevel
  <2>6. CASE l = 7  BY <1>1, <2>6 DEF ItemsOf, ItemLevel
  <2>7. CASE l = 8  BY <1>1, <2>7 DEF ItemsOf, ItemLevel
  <2>8. CASE l = 9  BY <1>1, <2>8 DEF ItemsOf, ItemLevel
  <2>9. QED  BY <2>1, <2>2, <2>3, <2>4, <2>5, <2>6, <2>7, <2>8
<1>2. ASSUME NEW l \in 1 .. 8, NEW name \in ChallengesOf(l)
      PROVE  name[1] # "user" /\ ChallengeLevel[name[1]] = l
  <2>1. CASE l = 1  BY <1>2, <2>1 DEF ChallengesOf, ChallengeLevel
  <2>2. CASE l = 2  BY <1>2, <2>2 DEF ChallengesOf, ChallengeLevel
  <2>3. CASE l = 3  BY <1>2, <2>3 DEF ChallengesOf, ChallengeLevel
  <2>4. CASE l = 4  BY <1>2, <2>4 DEF ChallengesOf, ChallengeLevel
  <2>5. CASE l = 5  BY <1>2, <2>5 DEF ChallengesOf, ChallengeLevel
  <2>6. CASE l = 6  BY <1>2, <2>6 DEF ChallengesOf, ChallengeLevel
  <2>7. CASE l = 7  BY <1>2, <2>7 DEF ChallengesOf, ChallengeLevel
  <2>8. CASE l = 8  BY <1>2, <2>8 DEF ChallengesOf, ChallengeLevel
  <2>9. QED  BY <2>1, <2>2, <2>3, <2>4, <2>5, <2>6, <2>7, <2>8
<1>3. QED  BY <1>1, <1>2

\* What a challenge randomises has a lower rank.
LEMMA RandomisedBefore ==
    ASSUME key \in Keys, NEW r \in Int, NEW s \in Int, NEW c \in Ranked(key, r),
           NEW e \in Ranked(key, s), c[1] = "squeeze", e[1] = "absorb", Randomises(c[2], e[2])
    PROVE  s < r
<1>1. PICK k \in Keys : k = key  OBVIOUS
<1>2. PICK m \in Nat : m = LastPhase(k)  BY LastPhaseBounds
<1>3. Top(k) = 2 * m + 3  BY <1>2 DEF Top
<1> DEFINE phases == k.cs.challenge_phase
           columns == k.cs.advice_column_phase
<1>4. \/ /\ c \in Drawing({"user"} \X DOMAIN phases)
         /\ r = 2 * phases[c[2][2]] + 2
      \/ \E l \in 1 .. 8 : c \in Drawing(ChallengesOf(l)) /\ r = ChallengeRank(k, l)
  BY <1>1, RankedCases DEF Absorbing
<1>5. \/ e \in Absorbing(Inputs) /\ s = 0
      \/ /\ e \in Absorbing({"advice"} \X Nat \X DOMAIN columns)
         /\ s = 2 * columns[e[2][3]] + 1
      \/ \E l \in 2 .. 9 : e \in Absorbing(ItemsOf(l)) /\ s = ItemRank(k, l)
  <2>1. \A S : e \notin Drawing(S)
    <3> SUFFICES ASSUME NEW S, e \in Drawing(S)
                 PROVE  FALSE
      OBVIOUS
    <3>1. e[1] = "squeeze"  BY DEF Drawing
    <3>2. QED  BY <3>1
  <2>2. e \in Ranked(k, s)  BY <1>1
  <2>3. QED  BY <2>1, <2>2, RankedCases
<1>6. CASE c \in Drawing({"user"} \X DOMAIN phases) /\ r = 2 * phases[c[2][2]] + 2
  <2>1. c[2][1] = "user" /\ c[2][2] \in DOMAIN phases  BY <1>6 DEF Drawing
  <2>2. PICK p \in Nat : p = phases[c[2][2]]  BY <2>1, LastPhaseBounds
  <2>3. \/ e[2][1] \in {"vk", "instance", "len", "value"}
        \/ e[2][1] = "advice" /\ columns[e[2][3]] <= p
    BY <1>1, <2>1, <2>2 DEF Randomises
  <2>4. CASE e \in Absorbing(Inputs) /\ s = 0  BY <1>6, <2>2, <2>4
  <2>5. CASE e \in Absorbing({"advice"} \X Nat \X DOMAIN columns)
             /\ s = 2 * columns[e[2][3]] + 1
    <3>1. e[2][1] = "advice" /\ e[2][3] \in DOMAIN columns  BY <2>5 DEF Absorbing
    <3>2. PICK a \in Nat : a = columns[e[2][3]]  BY <3>1, LastPhaseBounds
    <3>3. a <= p  BY <2>3, <3>1, <3>2
    <3>4. QED  BY <1>6, <2>2, <2>5, <3>2, <3>3
  <2>6. CASE \E l \in 2 .. 9 : e \in Absorbing(ItemsOf(l)) /\ s = ItemRank(k, l)
    <3>1. PICK l \in 2 .. 9 : e \in Absorbing(ItemsOf(l))  BY <2>6
    <3>2. e[2] \in ItemsOf(l)  BY <3>1 DEF Absorbing
    <3>3. ItemLevel[e[2][1]] = l  BY <3>2, LevelOf
    <3>4. /\ ItemLevel["vk"] = 1 /\ ItemLevel["instance"] = 1 /\ ItemLevel["len"] = 1
          /\ ItemLevel["value"] = 1 /\ ItemLevel["advice"] = 1
      BY DEF ItemLevel
    <3>5. QED  BY <2>3, <3>3, <3>4
  <2>7. QED  BY <1>5, <2>4, <2>5, <2>6
<1>7. CASE \E l \in 1 .. 8 : c \in Drawing(ChallengesOf(l)) /\ r = ChallengeRank(k, l)
  <2>1. PICK l \in 1 .. 8 : c \in Drawing(ChallengesOf(l)) /\ r = ChallengeRank(k, l)
    BY <1>7
  <2>2. c[2] \in ChallengesOf(l)  BY <2>1 DEF Drawing
  <2>3. c[2][1] # "user" /\ ChallengeLevel[c[2][1]] = l  BY <2>2, LevelOf
  <2>4. ItemLevel[e[2][1]] <= l  BY <2>3 DEF Randomises
  <2>5. r = 2 * m + 3 + 2 * l - 2  BY <1>3, <2>1 DEF ChallengeRank
  <2>6. CASE e \in Absorbing(Inputs) /\ s = 0  BY <2>5, <2>6
  <2>7. CASE e \in Absorbing({"advice"} \X Nat \X DOMAIN columns)
             /\ s = 2 * columns[e[2][3]] + 1
    <3>1. e[2][3] \in DOMAIN columns  BY <2>7 DEF Absorbing
    <3>2. PICK a \in Nat : a = columns[e[2][3]] /\ a <= m  BY <1>2, <3>1, LastPhaseBounds
    <3>3. QED  BY <2>5, <2>7, <3>2
  <2>8. CASE \E h \in 2 .. 9 : e \in Absorbing(ItemsOf(h)) /\ s = ItemRank(k, h)
    <3>1. PICK h \in 2 .. 9 : e \in Absorbing(ItemsOf(h)) /\ s = ItemRank(k, h)  BY <2>8
    <3>2. e[2] \in ItemsOf(h)  BY <3>1 DEF Absorbing
    <3>3. ItemLevel[e[2][1]] = h  BY <3>2, LevelOf
    <3>4. h <= l  BY <2>4, <3>3
    <3>5. s = 2 * m + 3 + 2 * h - 3  BY <1>3, <3>1 DEF ItemRank
    <3>6. QED  BY <2>5, <3>4, <3>5
  <2>9. QED  BY <1>5, <2>6, <2>7, <2>8
<1>8. QED  BY <1>4, <1>6, <1>7

\* The invariant implies the property.
LEMMA ProverBinds == ProverInv => ChallengesBind
<1> SUFFICES ASSUME ProverInv,
                    NEW i \in {j \in DOMAIN phist : phist[j][1] = "squeeze"},
                    NEW j \in i + 1 .. Len(phist), phist[j][1] = "absorb",
                    Randomises(phist[i][2], phist[j][2])
             PROVE  FALSE
  BY DEF ChallengesBind
<1>1. PICK n : HasRun(key, flags[1], n, todo, phist)  BY DEF ProverInv
<1>2. key \in Keys  BY DEF ProverInv
<1>3. PICK hi : Rises(key, phist, 0, hi)  BY <1>1 DEF HasRun
<1>4. PICK ranks \in Seq(Int) : HasRanks(key, phist, ranks, 0, hi)  BY <1>3 DEF Rises
<1>5. PICK t \in Nat : Len(phist) = t /\ DOMAIN phist = 1 .. t /\ DOMAIN ranks = 1 .. t
  BY <1>3, <1>4 DEF Rises, HasRanks
<1>6. i \in 1 .. t /\ j \in 1 .. t /\ i < j  BY <1>5
<1>7. PICK r \in Int : r = ranks[i]  BY <1>5, <1>6
<1>8. PICK s \in Int : s = ranks[j]  BY <1>5, <1>6
<1>9. phist[i] \in Ranked(key, r) /\ phist[j] \in Ranked(key, s) /\ r <= s
  BY <1>4, <1>5, <1>6, <1>7, <1>8 DEF HasRanks
<1>10. phist[i][1] = "squeeze"  OBVIOUS
<1>11. s < r  BY <1>2, <1>9, <1>10, RandomisedBefore
<1>12. QED  BY <1>9, <1>11

\* Whatever the circuit, the call and its instances: when create_proof is done,
\* every challenge was drawn after everything it randomises went into the hash
\* state.
THEOREM ChallengesBindTheorem == Spec => []ChallengesBind
<1>1. Init => ProverInv  BY ProverStarts
<1>2. ProverInv /\ [Next]_vars => ProverInv'  BY ProverGoesOn
<1>3. ProverInv => ChallengesBind  BY ProverBinds
<1>4. QED  BY <1>1, <1>2, <1>3, PTL DEF Spec

-----------------------------------------------------------------------------
(* Lists related one by one.                                               *)

\* Elements of a list over X and those of one over Y are related one by one.
Matched(R, X, Y, a, b) ==
    /\ a \in Seq(X) /\ b \in Seq(Y) /\ Len(a) = Len(b)
    /\ \A i \in 1 .. Len(a) : <<a[i], b[i]>> \in R

\* Empty lists match.
LEMMA MatchedNone ==
    ASSUME NEW X, NEW Y, NEW R
    PROVE  Matched(R, X, Y, <<>>, <<>>)
BY DEF Matched

\* Related elements make matching lists.
LEMMA MatchedOne ==
    ASSUME NEW X, NEW Y, NEW R \in SUBSET (X \X Y), NEW x, NEW y, <<x, y>> \in R
    PROVE  Matched(R, X, Y, <<x>>, <<y>>)
<1>1. x \in X /\ y \in Y  OBVIOUS
<1>2. PICK a : a = <<x>>  OBVIOUS
<1>3. PICK b : b = <<y>>  OBVIOUS
<1>4. a \in Seq(X) /\ Len(a) = 1 /\ a[1] = x  BY <1>1, <1>2
<1>5. b \in Seq(Y) /\ Len(b) = 1 /\ b[1] = y  BY <1>1, <1>3
<1>6. QED  BY <1>2, <1>3, <1>4, <1>5 DEF Matched

\* Two elements related to two.
LEMMA MatchedTwo ==
    ASSUME NEW X, NEW Y, NEW R \in SUBSET (X \X Y), NEW x, NEW y, NEW z, NEW w,
           <<x, y>> \in R, <<z, w>> \in R
    PROVE  Matched(R, X, Y, <<x, z>>, <<y, w>>)
<1>1. x \in X /\ y \in Y /\ z \in X /\ w \in Y  OBVIOUS
<1>2. PICK a : a = <<x, z>>  OBVIOUS
<1>3. PICK b : b = <<y, w>>  OBVIOUS
<1>4. a \in Seq(X) /\ Len(a) = 2 /\ a[1] = x /\ a[2] = z  BY <1>1, <1>2
<1>5. b \in Seq(Y) /\ Len(b) = 2 /\ b[1] = y /\ b[2] = w  BY <1>1, <1>3
<1>6. \A i \in 1 .. 2 : <<a[i], b[i]>> \in R
  <2>1. <<a[1], b[1]>> \in R /\ <<a[2], b[2]>> \in R  BY <1>4, <1>5
  <2>2. \A i \in 1 .. 2 : i = 1 \/ i = 2  OBVIOUS
  <2>3. QED  BY <2>1, <2>2
<1>7. QED  BY <1>2, <1>3, <1>4, <1>5, <1>6 DEF Matched

\* Lists related place by place.
LEMMA MatchedList ==
    ASSUME NEW X, NEW Y, NEW R \in SUBSET (X \X Y), NEW n \in Nat, NEW a, NEW b,
           a = [i \in 1 .. n |-> a[i]], b = [i \in 1 .. n |-> b[i]],
           \A i \in 1 .. n : <<a[i], b[i]>> \in R
    PROVE  Matched(R, X, Y, a, b)
<1>1. \A i \in 1 .. n : a[i] \in X /\ b[i] \in Y  OBVIOUS
<1>2. a \in Seq(X) /\ Len(a) = n  BY <1>1
<1>3. b \in Seq(Y) /\ Len(b) = n  BY <1>1
<1>4. QED  BY <1>2, <1>3 DEF Matched

\* Matching lists join to matching lists.
LEMMA MatchedJoined ==
    ASSUME NEW X, NEW Y, NEW R, NEW a, NEW b, NEW c, NEW d,
           Matched(R, X, Y, a, b), Matched(R, X, Y, c, d)
    PROVE  Matched(R, X, Y, a \o c, b \o d)
<1>1. PICK n \in Nat : n = Len(a)  BY DEF Matched
<1>2. PICK m \in Nat : m = Len(c)  BY DEF Matched
<1>3. PICK e : e = a \o c  OBVIOUS
<1>4. PICK f : f = b \o d  OBVIOUS
<1>5. /\ e \in Seq(X) /\ Len(e) = n + m
      /\ \A i \in 1 .. n : e[i] = a[i]
      /\ \A i \in n + 1 .. n + m : e[i] = c[i - n]
  <2>1. a \in Seq(X) /\ c \in Seq(X)  BY DEF Matched
  <2>2. /\ e \in Seq(X) /\ Len(e) = Len(a) + Len(c)
        /\ \A i \in 1 .. Len(a) : e[i] = a[i]
        /\ \A i \in Len(a) + 1 .. Len(a) + Len(c) : e[i] = c[i - Len(a)]
    BY <1>3, <2>1, Concatenated
  <2>3. QED  BY <1>1, <1>2, <2>2
<1>6. /\ f \in Seq(Y) /\ Len(f) = n + m
      /\ \A i \in 1 .. n : f[i] = b[i]
      /\ \A i \in n + 1 .. n + m : f[i] = d[i - n]
  <2>1. b \in Seq(Y) /\ d \in Seq(Y)  BY DEF Matched
  <2>2. /\ f \in Seq(Y) /\ Len(f) = Len(b) + Len(d)
        /\ \A i \in 1 .. Len(b) : f[i] = b[i]
        /\ \A i \in Len(b) + 1 .. Len(b) + Len(d) : f[i] = d[i - Len(b)]
    BY <1>4, <2>1, Concatenated
  <2>3. Len(b) = n /\ Len(d) = m  BY <1>1, <1>2 DEF Matched
  <2>4. QED  BY <2>2, <2>3
<1>7. /\ \A i \in 1 .. n : <<a[i], b[i]>> \in R
      /\ \A i \in 1 .. m : <<c[i], d[i]>> \in R
  BY <1>1, <1>2 DEF Matched
<1>8. ASSUME NEW i \in 1 .. n + m
      PROVE  <<e[i], f[i]>> \in R
  <2>1. CASE i \in 1 .. n
    <3>1. e[i] = a[i] /\ f[i] = b[i]  BY <1>5, <1>6, <2>1
    <3>2. QED  BY <1>7, <2>1, <3>1
  <2>2. CASE i \in n + 1 .. n + m
    <3>1. e[i] = c[i - n] /\ f[i] = d[i - n]  BY <1>5, <1>6, <2>2
    <3>2. i - n \in 1 .. m  BY <2>2
    <3>3. QED  BY <1>7, <3>1, <3>2
  <2>3. QED  BY <2>1, <2>2
<1>9. Matched(R, X, Y, e, f)  BY <1>5, <1>6, <1>8 DEF Matched
<1>10. QED  BY <1>3, <1>4, <1>9

\* Concatenations of matching lists.
LEMMA MatchedFlatten ==
    ASSUME NEW X, NEW Y, NEW R, NEW n \in Nat, NEW a, NEW b,
           a = [i \in 1 .. n |-> a[i]], b = [i \in 1 .. n |-> b[i]],
           \A i \in 1 .. n : Matched(R, X, Y, a[i], b[i])
    PROVE  Matched(R, X, Y, FlattenSeq(a), FlattenSeq(b))
<1>1. a \in [1 .. n -> Seq(X)] /\ b \in [1 .. n -> Seq(Y)]
  <2>1. \A i \in 1 .. n : a[i] \in Seq(X) /\ b[i] \in Seq(Y)  BY DEF Matched
  <2>2. QED  BY <2>1
<1>2. PICK f : FlattenValues(f, X, n, a)  BY <1>1, FlattenEquation
<1>3. PICK g : FlattenValues(g, Y, n, b)  BY <1>1, FlattenEquation
<1>4. /\ f[0] = <<>> /\ f[n] = FlattenSeq(a) /\ \A i \in 1 .. n : f[i] = f[i - 1] \o a[i]
      /\ g[0] = <<>> /\ g[n] = FlattenSeq(b) /\ \A i \in 1 .. n : g[i] = g[i - 1] \o b[i]
  BY <1>2, <1>3 DEF FlattenValues
<1> DEFINE Good == {m \in Nat : m <= n => Matched(R, X, Y, f[m], g[m])}
<1>5. 0 \in Good
  <2>1. Matched(R, X, Y, f[0], g[0])  BY <1>4, MatchedNone
  <2>2. QED  BY <2>1
<1>6. ASSUME NEW m \in Nat, m \in Good
      PROVE  m + 1 \in Good
  <2> SUFFICES ASSUME m + 1 <= n
               PROVE  Matched(R, X, Y, f[m + 1], g[m + 1])
    OBVIOUS
  <2>1. Matched(R, X, Y, f[m], g[m])  BY <1>6
  <2>2. m + 1 \in 1 .. n /\ (m + 1) - 1 = m  OBVIOUS
  <2>3. f[m + 1] = f[m] \o a[m + 1] /\ g[m + 1] = g[m] \o b[m + 1]  BY <1>4, <2>2
  <2>4. Matched(R, X, Y, a[m + 1], b[m + 1])  BY <2>2
  <2>5. QED  BY <2>1, <2>3, <2>4, MatchedJoined
<1>7. n \in Good
  <2> HIDE DEF Good
  <2>1. QED  BY <1>5, <1>6, SetInduction
<1>8. QED  BY <1>4, <1>7

-----------------------------------------------------------------------------
(* Operations and their twins.                                             *)

\* What travels in the proof.
Values ==
    Commitments \cup ({"limb", "qeval"} \X Nat) \cup ({"eval"} \X Commitments \X Int)
        \cup {<<"f">>, <<"pi">>}

Slots == {"slot"} \X Nat

Names ==
    ({"user"} \X Nat)
        \cup {<<"theta">>, <<"beta">>, <<"gamma">>, <<"trash_challenge">>, <<"y">>, <<"x">>,
              <<"x1">>, <<"x2">>, <<"x3">>, <<"x4">>}

Moves == {"common", "write", "read", "squeeze"} \X (Inputs \cup Values \cup Slots \cup Names)

\* The queries of the fixed columns that are no simple selectors.
OpenFixed(k) ==
    Chosen(k.cs.queries["fixed"],
           {q \in ToSet(k.cs.queries["fixed"]) : ~HasSimpleSelectorCol(k.cs, q[1])})

\* What the verifier takes the value of a name to be: a slot holds the
\* evaluation of the query in its place.
Means(k, name) ==
    IF name[1] = "slot"
    THEN Eval(<<"fixed", OpenFixed(k)[name[2]][1]>>, OpenFixed(k)[name[2]][2])
    ELSE name

\* An operation of the prover and one of the verifier of the same kind.
Alike ==
    {pair \in Moves \X Moves :
        \/ pair[1][1] = "common" /\ pair[2][1] = "common"
        \/ pair[1][1] = "squeeze" /\ pair[2][1] = "squeeze"
        \/ pair[1][1] = "write" /\ pair[2][1] = "read"}

\* The verifier's counterpart of an operation of the prover.
Twins(k) ==
    {pair \in Alike :
        IF pair[2][1] = "read" THEN pair[1][2] = Means(k, pair[2][2]) ELSE pair[1] = pair[2]}

\* Two lists of operations are related one by one.
Pairs(R, a, b) ==
    /\ a \in Seq(Moves) /\ b \in Seq(Moves) /\ Len(a) = Len(b)
    /\ \A i \in 1 .. Len(a) : <<a[i], b[i]>> \in R

\* Empty lists are related.
LEMMA PairsNone ==
    ASSUME NEW R
    PROVE  Pairs(R, <<>>, <<>>)
BY DEF Pairs

\* Related operations make related lists.
LEMMA PairsOne ==
    ASSUME NEW R \in SUBSET (Moves \X Moves), NEW x, NEW y, <<x, y>> \in R
    PROVE  Pairs(R, <<x>>, <<y>>)
<1>1. Matched(R, Moves, Moves, <<x>>, <<y>>)  BY MatchedOne
<1>2. QED  BY <1>1 DEF Pairs, Matched

\* Lists related place by place.
LEMMA PairsList ==
    ASSUME NEW R \in SUBSET (Moves \X Moves), NEW n \in Nat, NEW a, NEW b,
           a = [i \in 1 .. n |-> a[i]], b = [i \in 1 .. n |-> b[i]],
           \A i \in 1 .. n : <<a[i], b[i]>> \in R
    PROVE  Pairs(R, a, b)
<1>1. Matched(R, Moves, Moves, a, b)  BY MatchedList
<1>2. QED  BY <1>1 DEF Pairs, Matched

\* A wider relation relates what a narrower one does.
LEMMA PairsWider ==
    ASSUME NEW R, NEW Q, R \subseteq Q, NEW a, NEW b, Pairs(R, a, b)
    PROVE  Pairs(Q, a, b)
BY DEF Pairs

\* Related lists join to related lists.
LEMMA PairsJoined ==
    ASSUME NEW R, NEW a, NEW b, NEW c, NEW d, Pairs(R, a, b), Pairs(R, c, d)
    PROVE  Pairs(R, a \o c, b \o d)
<1>1. Matched(R, Moves, Moves, a, b) /\ Matched(R, Moves, Moves, c, d)  BY DEF Pairs, Matched
<1>2. Matched(R, Moves, Moves, a \o c, b \o d)  BY <1>1, MatchedJoined
<1>3. QED  BY <1>2 DEF Pairs, Matched

\* Concatenations of related lists.
LEMMA PairsFlatten ==
    ASSUME NEW R, NEW n \in Nat, NEW a, NEW b,
           a = [i \in 1 .. n |-> a[i]], b = [i \in 1 .. n |-> b[i]],
           \A i \in 1 .. n : Pairs(R, a[i], b[i])
    PROVE  Pairs(R, FlattenSeq(a), FlattenSeq(b))
<1>1. \A i \in 1 .. n : Matched(R, Moves, Moves, a[i], b[i])  BY DEF Pairs, Matched
<1>2. Matched(R, Moves, Moves, FlattenSeq(a), FlattenSeq(b))  BY <1>1, MatchedFlatten
<1>3. QED  BY <1>2 DEF Pairs, Matched

\* Twins are of one kind, and both relations are on operations.
LEMMA TwinsAlike ==
    ASSUME NEW k
    PROVE  Twins(k) \subseteq Alike /\ Alike \in SUBSET (Moves \X Moves)
           /\ Twins(k) \in SUBSET (Moves \X Moves)
BY DEF Twins, Alike

\* A value goes through the proof under its own name.
LEMMA ValueTwins ==
    ASSUME NEW k, NEW v \in Values
    PROVE  <<Write(v), Read(v)>> \in Twins(k)
<1>1. v[1] # "slot"  BY DEF Values, Commitments
<1>2. Write(v) \in Moves /\ Read(v) \in Moves  BY DEF Moves, Write, Read
<1>3. /\ Write(v)[1] = "write" /\ Write(v)[2] = v
      /\ Read(v)[1] = "read" /\ Read(v)[2] = v
  BY DEF Write, Read
<1>4. <<Write(v), Read(v)>> \in Alike  BY <1>2, <1>3 DEF Alike
<1>5. QED  BY <1>1, <1>3, <1>4 DEF Twins, Means

\* Both sides draw a challenge in the same way.
LEMMA NameTwins ==
    ASSUME NEW k, NEW c \in Names
    PROVE  <<Squeeze(c), Squeeze(c)>> \in Twins(k)
<1>1. Squeeze(c) \in Moves /\ Squeeze(c)[1] = "squeeze"  BY DEF Moves, Squeeze
<1>2. <<Squeeze(c), Squeeze(c)>> \in Alike  BY <1>1 DEF Alike
<1>3. QED  BY <1>1, <1>2 DEF Twins

\* Both sides absorb an input in the same way.
LEMMA InputTwins ==
    ASSUME NEW k, NEW v \in Inputs
    PROVE  <<Common(v), Common(v)>> \in Twins(k)
<1>1. Common(v) \in Moves /\ Common(v)[1] = "common"  BY DEF Moves, Common
<1>2. <<Common(v), Common(v)>> \in Alike  BY <1>1 DEF Alike
<1>3. QED  BY <1>1, <1>2 DEF Twins

-----------------------------------------------------------------------------
(* Lists of lists.                                                         *)

\* A list of operations for every c of every p.
IsTable(a, n, t) == \A p \in 1 .. n : a[p] = [c \in 1 .. t |-> a[p][c]]
PairsTable(R, a, b, n, t) == \A p \in 1 .. n : \A c \in 1 .. t : Pairs(R, a[p][c], b[p][c])
FlatTable(a, n) == FlattenSeq([p \in 1 .. n |-> FlattenSeq(a[p])])

\* Tables related entry by entry stay related when they are flattened.
LEMMA PairsNested ==
    ASSUME NEW R, NEW n \in Nat, NEW t \in Nat, NEW a, NEW b,
           IsTable(a, n, t), IsTable(b, n, t), PairsTable(R, a, b, n, t)
    PROVE  Pairs(R, FlatTable(a, n), FlatTable(b, n))
<1>1. ASSUME NEW p \in 1 .. n
      PROVE  Pairs(R, FlattenSeq(a[p]), FlattenSeq(b[p]))
  <2>1. PICK u : u = a[p]  OBVIOUS
  <2>2. PICK v : v = b[p]  OBVIOUS
  <2>3. u = [c \in 1 .. t |-> u[c]] /\ v = [c \in 1 .. t |-> v[c]]  BY <2>1, <2>2 DEF IsTable
  <2>4. \A c \in 1 .. t : Pairs(R, u[c], v[c])  BY <2>1, <2>2 DEF PairsTable
  <2>5. Pairs(R, FlattenSeq(u), FlattenSeq(v))  BY <2>3, <2>4, PairsFlatten
  <2>6. QED  BY <2>1, <2>2, <2>5
<1>2. PICK x : x = [p \in 1 .. n |-> FlattenSeq(a[p])]  OBVIOUS
<1>3. PICK y : y = [p \in 1 .. n |-> FlattenSeq(b[p])]  OBVIOUS
<1>4. x = [p \in 1 .. n |-> x[p]] /\ y = [p \in 1 .. n |-> y[p]]  BY <1>2, <1>3
<1>5. \A p \in 1 .. n : Pairs(R, x[p], y[p])  BY <1>1, <1>2, <1>3
<1>6. QED  BY <1>2, <1>3, <1>4, <1>5, PairsFlatten DEF FlatTable

\* A list of values is written and read in the same order.
LEMMA ManyValues ==
    ASSUME NEW k, NEW n \in Nat, NEW v, \A i \in 1 .. n : v[i] \in Values
    PROVE  Pairs(Twins(k), [i \in 1 .. n |-> Write(v[i])], [i \in 1 .. n |-> Read(v[i])])
<1>1. PICK a : a = [i \in 1 .. n |-> Write(v[i])]  OBVIOUS
<1>2. PICK b : b = [i \in 1 .. n |-> Read(v[i])]  OBVIOUS
<1>3. PICK R \in SUBSET (Moves \X Moves) : R = Twins(k)  BY TwinsAlike
<1>4. \A i \in 1 .. n : <<a[i], b[i]>> \in R  BY <1>1, <1>2, <1>3, ValueTwins
<1>5. a = [i \in 1 .. n |-> a[i]] /\ b = [i \in 1 .. n |-> b[i]]  BY <1>1, <1>2
<1>6. Pairs(R, a, b)  BY <1>4, <1>5, PairsList
<1>7. QED  BY <1>1, <1>2, <1>3, <1>6

\* What is written for each of the proofs pairs with what is read for each.
LEMMA ManyOfEvery ==
    ASSUME NEW k, NEW n \in Nat, NEW t \in Nat, NEW v, NEW a, NEW b,
           a = [p \in 1 .. n |-> [i \in 1 .. t |-> Write(v[p][i])]],
           b = [p \in 1 .. n |-> [i \in 1 .. t |-> Read(v[p][i])]],
           \A p \in 1 .. n : \A i \in 1 .. t : v[p][i] \in Values
    PROVE  Pairs(Twins(k), FlattenSeq(a), FlattenSeq(b))
<1>1. ASSUME NEW p \in 1 .. n
      PROVE  Pairs(Twins(k), a[p], b[p])
  <2>1. PICK w : w = v[p]  OBVIOUS
  <2>2. \A i \in 1 .. t : w[i] \in Values  BY <2>1
  <2>3. Pairs(Twins(k), [i \in 1 .. t |-> Write(w[i])], [i \in 1 .. t |-> Read(w[i])])
    BY <2>2, ManyValues
  <2>4. QED  BY <2>1, <2>3
<1>2. a = [p \in 1 .. n |-> a[p]] /\ b = [p \in 1 .. n |-> b[p]]  OBVIOUS
<1>3. QED  BY <1>1, <1>2, PairsFlatten

\* A value that is written and read.
LEMMA OneValue ==
    ASSUME NEW k, NEW v \in Values
    PROVE  Pairs(Twins(k), <<Write(v)>>, <<Read(v)>>)
BY ValueTwins, TwinsAlike, PairsOne

\* A challenge that both sides draw.
LEMMA OneName ==
    ASSUME NEW k, NEW c \in Names
    PROVE  Pairs(Twins(k), <<Squeeze(c)>>, <<Squeeze(c)>>)
BY NameTwins, TwinsAlike, PairsOne

\* Two operations related to two.
LEMMA PairsTwo ==
    ASSUME NEW R \in SUBSET (Moves \X Moves), NEW x, NEW y, NEW z, NEW w,
           <<x, y>> \in R, <<z, w>> \in R
    PROVE  Pairs(R, <<x, z>>, <<y, w>>)
<1>1. x \in Moves /\ y \in Moves /\ z \in Moves /\ w \in Moves  OBVIOUS
<1>2. PICK a : a = <<x, z>>  OBVIOUS
<1>3. PICK b : b = <<y, w>>  OBVIOUS
<1>4. a \in Seq(Moves) /\ Len(a) = 2 /\ a[1] = x /\ a[2] = z  BY <1>1, <1>2
<1>5. b \in Seq(Moves) /\ Len(b) = 2 /\ b[1] = y /\ b[2] = w  BY <1>1, <1>3
<1>6. \A i \in 1 .. 2 : <<a[i], b[i]>> \in R
  <2>1. <<a[1], b[1]>> \in R /\ <<a[2], b[2]>> \in R  BY <1>4, <1>5
  <2>2. \A i \in 1 .. 2 : i = 1 \/ i = 2  OBVIOUS
  <2>3. QED  BY <2>1, <2>2
<1>7. QED  BY <1>2, <1>3, <1>4, <1>5, <1>6 DEF Pairs

\* Two values that are written and read.
LEMMA TwoValues ==
    ASSUME NEW k, NEW v \in Values, NEW w \in Values
    PROVE  Pairs(Twins(k), <<Write(v), Write(w)>>, <<Read(v), Read(w)>>)
BY ValueTwins, TwinsAlike, PairsTwo

\* Two challenges that both sides draw.
LEMMA TwoNames ==
    ASSUME NEW k, NEW c \in Names, NEW d \in Names
    PROVE  Pairs(Twins(k), <<Squeeze(c), Squeeze(d)>>, <<Squeeze(c), Squeeze(d)>>)
BY NameTwins, TwinsAlike, PairsTwo

\* The challenges of the protocol are names.
LEMMA TheNames ==
    /\ <<"theta">> \in Names /\ <<"beta">> \in Names /\ <<"gamma">> \in Names
    /\ <<"trash_challenge">> \in Names /\ <<"y">> \in Names /\ <<"x">> \in Names
    /\ <<"x1">> \in Names /\ <<"x2">> \in Names /\ <<"x3">> \in Names /\ <<"x4">> \in Names
    /\ \A i \in Nat : <<"user", i>> \in Names
BY DEF Names

\* The commitments of one proof are values.
LEMMA SomeValues ==
    ASSUME NEW p \in Nat, NEW i \in Nat
    PROVE  /\ Column(p, i) \in Values /\ <<"m", p, i>> \in Values /\ <<"z", p, i>> \in Values
           /\ <<"acc", p, i>> \in Values /\ <<"trash", p, i>> \in Values
           /\ \A j \in Nat : <<"h", p, i, j>> \in Values
BY OfOneProof DEF Values

\* The limbs and the evaluations at x3 are values.
LEMMA NumberedValues ==
    ASSUME NEW i \in Nat
    PROVE  <<"limb", i>> \in Values /\ <<"qeval", i>> \in Values
BY DEF Values

\* The two commitments of the multi-opening are values.
LEMMA TheValues == <<"f">> \in Values /\ <<"pi">> \in Values
BY DEF Values

\* An evaluation is a value.
LEMMA EvalValues ==
    ASSUME NEW com \in Commitments, NEW rot \in Int
    PROVE  Eval(com, rot) \in Values
BY DEF Eval, Values

\* The lookups are numbered from 1.
LEMMA LookupDomain ==
    ASSUME NEW k \in Keys
    PROVE  DOMAIN k.cs.lookups = 1 .. Len(k.cs.lookups)
<1>1. k.cs.lookups \in Seq(ToSet(k.cs.lookups))  BY KeysAssumption
<1>2. QED  BY <1>1

-----------------------------------------------------------------------------
(* The sections of both sides.                                             *)

\* One-element lists are concatenated to the list of their elements.
LEMMA FlattenSingles ==
    ASSUME NEW S, NEW n \in Nat, NEW f \in [1 .. n -> S]
    PROVE  FlattenSeq([i \in 1 .. n |-> <<f[i]>>]) = f
<1>1. PICK parts : parts = [i \in 1 .. n |-> <<f[i]>>]  OBVIOUS
<1>2. parts \in [1 .. n -> Seq(S)]
  <2>1. \A i \in 1 .. n : <<f[i]>> \in Seq(S)  OBVIOUS
  <2>2. QED  BY <1>1, <2>1
<1>3. PICK g : FlattenValues(g, S, n, parts)  BY <1>2, FlattenEquation
<1>4. /\ g \in [0 .. n -> Seq(S)] /\ g[0] = <<>> /\ g[n] = FlattenSeq(parts)
      /\ \A i \in 1 .. n : g[i] = g[i - 1] \o parts[i]
  BY <1>3 DEF FlattenValues
<1> DEFINE Kept(m) == Len(g[m]) = m /\ \A i \in 1 .. m : g[m][i] = f[i]
           Good == {m \in Nat : m <= n => Kept(m)}
<1>5. 0 \in Good
  <2>1. Kept(0)  BY <1>4
  <2>2. QED  BY <2>1
<1>6. ASSUME NEW m \in Nat, m \in Good
      PROVE  m + 1 \in Good
  <2> HIDE DEF Kept
  <2> SUFFICES ASSUME m + 1 <= n
               PROVE  Kept(m + 1)
    OBVIOUS
  <2> USE DEF Kept
  <2>1. m \in 0 .. n /\ m + 1 \in 1 .. n /\ (m + 1) - 1 = m  OBVIOUS
  <2>2. PICK t \in Seq(S) : t = g[m]  BY <1>4, <2>1
  <2>3. Kept(m)  BY <1>6
  <2>4. Len(t) = m /\ \A i \in 1 .. m : t[i] = f[i]  BY <2>2, <2>3
  <2>5. PICK e \in S : e = f[m + 1]  BY <2>1
  <2>6. g[m + 1] = t \o <<e>>  BY <1>1, <1>4, <2>1, <2>2, <2>5
  <2>7. PICK u : u = t \o <<e>>  OBVIOUS
  <2>8. Len(u) = m + 1 /\ u[m + 1] = e /\ \A i \in 1 .. m : u[i] = t[i]  BY <2>4, <2>7
  <2>9. \A i \in 1 .. m + 1 : u[i] = f[i]  BY <2>4, <2>5, <2>8
  <2>10. g[m + 1] = u  BY <2>6, <2>7
  <2>11. Len(g[m + 1]) = m + 1 /\ \A i \in 1 .. m + 1 : g[m + 1][i] = f[i]
    BY <2>8, <2>9, <2>10
  <2>12. QED  BY <2>11
<1>7. Kept(n)
  <2> HIDE DEF Good
  <2>1. n \in Good  BY <1>5, <1>6, SetInduction
  <2>2. QED  BY <2>1 DEF Good
<1>8. PICK h \in Seq(S) : h = g[n]  BY <1>4
<1>9. Len(h) = n /\ \A i \in 1 .. n : h[i] = f[i]  BY <1>7, <1>8
<1>10. h = f  BY <1>9
<1>11. QED  BY <1>1, <1>4, <1>8, <1>10

\* Both sides absorb the key first.
LEMMA KeyPairs ==
    ASSUME NEW k
    PROVE  Pairs(Twins(k), << Common(<<"vk">>) >>, << Common(<<"vk">>) >>)
<1>1. <<"vk">> \in Inputs  BY DEF Inputs
<1>2. QED  BY <1>1, InputTwins, TwinsAlike, PairsOne

\* The advice columns of a phase, and the challenges after them.
LEMMA AdvicesPair ==
    ASSUME NEW k \in Keys, NEW phase
    PROVE  Pairs(Twins(k), ParseAdvices(k, phase), ReadAdvices(k, phase))
<1>1. PICK n \in Nat : n = k.proofs  BY KeySizes
<1>2. PICK t \in Nat : t = NumAdvice(k)  BY KeyLists
<1>3. PICK u \in Nat : u = Len(k.cs.challenge_phase)  BY KeyLists
<1>4. PICK R \in SUBSET (Moves \X Moves) : R = Twins(k)  BY TwinsAlike
<1> DEFINE w(p, c) == IF k.cs.advice_column_phase[c] = phase THEN <<Write(Column(p, c))>> ELSE <<>>
           r(p, c) == IF k.cs.advice_column_phase[c] = phase THEN <<Read(Column(p, c))>> ELSE <<>>
           d(i) == IF k.cs.challenge_phase[i] = phase THEN <<Squeeze(<<"user", i>>)>> ELSE <<>>
           ws == [p \in 1 .. n |-> FlattenSeq([c \in 1 .. t |-> w(p, c)])]
           rs == [p \in 1 .. n |-> FlattenSeq([c \in 1 .. t |-> r(p, c)])]
           ds == [i \in 1 .. u |-> d(i)]
<1>5. ParseAdvices(k, phase) = FlattenSeq(ws) \o FlattenSeq(ds)
  BY <1>1, <1>2, <1>3 DEF ParseAdvices, PhaseChallenges, Each
<1>6. ReadAdvices(k, phase) = FlattenSeq(rs) \o FlattenSeq(ds)
  BY <1>1, <1>2, <1>3 DEF ReadAdvices, Each
<1>7. ASSUME NEW p \in 1 .. n, NEW c \in 1 .. t
      PROVE  Pairs(R, w(p, c), r(p, c))
  <2>1. Column(p, c) \in Values
    <3>1. p \in Nat /\ c \in Nat  OBVIOUS
    <3>2. Column(p, c) \in Commitments  BY <3>1, OfOneProof
    <3>3. QED  BY <3>2 DEF Values
  <2>2. Pairs(R, <<Write(Column(p, c))>>, <<Read(Column(p, c))>>)
    BY <1>4, <2>1, ValueTwins, PairsOne
  <2>3. Pairs(R, <<>>, <<>>)  BY PairsNone
  <2>4. QED  BY <2>2, <2>3
<1>8. ASSUME NEW i \in 1 .. u
      PROVE  Pairs(R, d(i), d(i))
  <2>1. <<"user", i>> \in Names  BY DEF Names
  <2>2. Pairs(R, <<Squeeze(<<"user", i>>)>>, <<Squeeze(<<"user", i>>)>>)
    BY <1>4, <2>1, NameTwins, PairsOne
  <2>3. Pairs(R, <<>>, <<>>)  BY PairsNone
  <2>4. QED  BY <2>2, <2>3
<1> HIDE DEF w, r, d
<1>9. ASSUME NEW p \in 1 .. n
      PROVE  Pairs(R, FlattenSeq([c \in 1 .. t |-> w(p, c)]), FlattenSeq([c \in 1 .. t |-> r(p, c)]))
  <2>1. PICK a : a = [c \in 1 .. t |-> w(p, c)]  OBVIOUS
  <2>2. PICK b : b = [c \in 1 .. t |-> r(p, c)]  OBVIOUS
  <2>3. \A c \in 1 .. t : Pairs(R, a[c], b[c])  BY <1>7, <2>1, <2>2
  <2>4. a = [c \in 1 .. t |-> a[c]] /\ b = [c \in 1 .. t |-> b[c]]  BY <2>1, <2>2
  <2>5. Pairs(R, FlattenSeq(a), FlattenSeq(b))  BY <2>3, <2>4, PairsFlatten
  <2>6. QED  BY <2>1, <2>2, <2>5
<1>10. Pairs(R, FlattenSeq(ws), FlattenSeq(rs))
  <2>1. \A p \in 1 .. n : Pairs(R, ws[p], rs[p])  BY <1>9
  <2>2. ws = [p \in 1 .. n |-> ws[p]] /\ rs = [p \in 1 .. n |-> rs[p]]  OBVIOUS
  <2> HIDE DEF ws, rs
  <2>3. QED  BY <2>1, <2>2, PairsFlatten
<1>11. Pairs(R, FlattenSeq(ds), FlattenSeq(ds))
  <2>1. \A i \in 1 .. u : Pairs(R, ds[i], ds[i])  BY <1>8
  <2>2. ds = [i \in 1 .. u |-> ds[i]]  OBVIOUS
  <2> HIDE DEF ds
  <2>3. QED  BY <2>1, <2>2, PairsFlatten
<1> HIDE DEF ws, rs, ds
<1>12. QED  BY <1>4, <1>5, <1>6, <1>10, <1>11, PairsJoined

\* The multiplicities of the lookups.
LEMMA MultiplicitiesPair ==
    ASSUME NEW k \in Keys
    PROVE  Pairs(Twins(k), CommitMultiplicities(k), ReadMultiplicities(k))
<1>1. PICK n \in Nat : n = k.proofs  BY KeySizes
<1>2. PICK t \in Nat : t = Len(k.cs.lookups)  BY KeyLists
<1> DEFINE m(p, l) == <<"m", p, l>>
           singles(p) == FlattenSeq([l \in 1 .. t |-> <<Write(m(p, l))>>])
           list(p) == [l \in 1 .. t |-> Write(m(p, l))]
           reads(p) == [l \in 1 .. t |-> Read(m(p, l))]
           v == [p \in 1 .. n |-> [l \in 1 .. t |-> m(p, l)]]
<1>3. CommitMultiplicities(k) = <<Squeeze(<<"theta">>)>> \o FlattenSeq([p \in 1 .. n |-> singles(p)])
  BY <1>1, <1>2 DEF CommitMultiplicities, Each
<1>4. ReadMultiplicities(k) = <<Squeeze(<<"theta">>)>> \o FlattenSeq([p \in 1 .. n |-> reads(p)])
  BY <1>1, <1>2, LookupDomain DEF ReadMultiplicities, Each
<1>5. ASSUME NEW p \in 1 .. n, NEW l \in 1 .. t
      PROVE  m(p, l) \in Values
  <2>1. p \in Nat /\ l \in Nat  OBVIOUS
  <2>2. QED  BY <2>1, SomeValues
<1>6. ASSUME NEW p \in 1 .. n
      PROVE  singles(p) = list(p)
  <2>1. PICK f : f = list(p)  OBVIOUS
  <2>2. PICK S : S = {f[l] : l \in 1 .. t}  OBVIOUS
  <2>3. f \in [1 .. t -> S]  BY <2>1, <2>2
  <2>4. FlattenSeq([l \in 1 .. t |-> <<f[l]>>]) = f  BY <2>3, FlattenSingles
  <2>5. [l \in 1 .. t |-> <<f[l]>>] = [l \in 1 .. t |-> <<Write(m(p, l))>>]  BY <2>1
  <2>6. QED  BY <2>1, <2>4, <2>5
<1>7. [p \in 1 .. n |-> singles(p)] = [p \in 1 .. n |-> list(p)]
  <2> HIDE DEF singles, list
  <2>1. QED  BY <1>6
<1>8. \A p \in 1 .. n : \A i \in 1 .. t : v[p][i] \in Values  BY <1>5
<1>9. PICK a : a = [p \in 1 .. n |-> list(p)]  OBVIOUS
<1>10. PICK b : b = [p \in 1 .. n |-> reads(p)]  OBVIOUS
<1>11. /\ a = [p \in 1 .. n |-> [i \in 1 .. t |-> Write(v[p][i])]]
       /\ b = [p \in 1 .. n |-> [i \in 1 .. t |-> Read(v[p][i])]]
  BY <1>9, <1>10
<1>12. Pairs(Twins(k), <<Squeeze(<<"theta">>)>>, <<Squeeze(<<"theta">>)>>)  BY TheNames, OneName
<1> HIDE DEF singles, list, reads, v
<1>13. Pairs(Twins(k), FlattenSeq(a), FlattenSeq(b))  BY <1>8, <1>11, ManyOfEvery
<1>14. QED  BY <1>3, <1>4, <1>7, <1>9, <1>10, <1>12, <1>13, PairsJoined

\* The products of the permutation argument.
LEMMA PermutationPair ==
    ASSUME NEW k \in Keys
    PROVE  Pairs(Twins(k), CommitPermutation(k), ReadProductCommitments(k))
<1>1. PICK n \in Nat : n = k.proofs  BY KeySizes
<1>2. PICK t \in Nat : t = NumPermutationSets(k)  BY KeySizes
<1> DEFINE writes == [p \in 1 .. n |-> [i \in 1 .. t |-> Write(<<"z", p, i>>)]]
           reads == [p \in 1 .. n |-> [i \in 1 .. t |-> Read(<<"z", p, i>>)]]
           v == [p \in 1 .. n |-> [i \in 1 .. t |-> <<"z", p, i>>]]
           head == <<Squeeze(<<"beta">>), Squeeze(<<"gamma">>)>>
<1>3. CommitPermutation(k) = head \o FlattenSeq(writes)
  BY <1>1, <1>2 DEF CommitPermutation, Each
<1>4. ReadProductCommitments(k) = head \o FlattenSeq(reads)
  BY <1>1, <1>2 DEF ReadProductCommitments, Each
<1>5. ASSUME NEW p \in 1 .. n, NEW i \in 1 .. t
      PROVE  v[p][i] \in Values
  <2>1. p \in Nat /\ i \in Nat  OBVIOUS
  <2>2. QED  BY <2>1, SomeValues
<1>6. /\ writes = [p \in 1 .. n |-> [i \in 1 .. t |-> Write(v[p][i])]]
      /\ reads = [p \in 1 .. n |-> [i \in 1 .. t |-> Read(v[p][i])]]
  OBVIOUS
<1>7. Pairs(Twins(k), head, head)  BY TheNames, TwoNames
<1> HIDE DEF v, writes, reads, head
<1>8. Pairs(Twins(k), FlattenSeq(writes), FlattenSeq(reads))  BY <1>5, <1>6, ManyOfEvery
<1>9. QED  BY <1>3, <1>4, <1>7, <1>8, PairsJoined

\* The helpers and the accumulators of the lookups.
LEMMA LogderivativePair ==
    ASSUME NEW k \in Keys
    PROVE  Pairs(Twins(k), CommitLogderivative(k), ReadLookupCommitments(k))
<1>1. PICK n \in Nat : n = k.proofs  BY KeySizes
<1>2. PICK t \in Nat : t = Len(k.cs.lookups)  BY KeyLists
<1> DEFINE w(p, l) == [j \in 1 .. k.chunks[l] |-> Write(<<"h", p, l, j>>)] \o <<Write(<<"acc", p, l>>)>>
           r(p, l) == [j \in 1 .. k.chunks[l] |-> Read(<<"h", p, l, j>>)] \o <<Read(<<"acc", p, l>>)>>
           writes == [p \in 1 .. n |-> [l \in 1 .. t |-> w(p, l)]]
           reads == [p \in 1 .. n |-> [l \in 1 .. t |-> r(p, l)]]
<1>3. CommitLogderivative(k) = FlatTable(writes, n)
  BY <1>1, <1>2 DEF CommitLogderivative, Each, FlatTable
<1>4. ReadLookupCommitments(k) = FlatTable(reads, n)
  BY <1>1, <1>2 DEF ReadLookupCommitments, Each, FlatTable
<1>5. ASSUME NEW p \in 1 .. n, NEW l \in 1 .. t
      PROVE  Pairs(Twins(k), w(p, l), r(p, l))
  <2>1. PICK c \in Nat : c = k.chunks[l]  BY <1>2, KeyLists
  <2> DEFINE v == [j \in 1 .. c |-> <<"h", p, l, j>>]
             a == [j \in 1 .. c |-> Write(<<"h", p, l, j>>)]
             b == [j \in 1 .. c |-> Read(<<"h", p, l, j>>)]
  <2>9. p \in Nat /\ l \in Nat  OBVIOUS
  <2>2. \A j \in 1 .. c : v[j] \in Values
    <3>1. \A j \in Nat : <<"h", p, l, j>> \in Values  BY <2>9, SomeValues
    <3>2. QED  BY <3>1
  <2>3. [j \in 1 .. c |-> Write(v[j])] = a /\ [j \in 1 .. c |-> Read(v[j])] = b  OBVIOUS
  <2>4. <<"acc", p, l>> \in Values  BY <2>9, SomeValues
  <2>5. w(p, l) = a \o <<Write(<<"acc", p, l>>)>> /\ r(p, l) = b \o <<Read(<<"acc", p, l>>)>>
    BY <2>1
  <2> HIDE DEF v, a, b, w, r
  <2>6. Pairs(Twins(k), a, b)  BY <2>2, <2>3, ManyValues
  <2>7. Pairs(Twins(k), <<Write(<<"acc", p, l>>)>>, <<Read(<<"acc", p, l>>)>>)  BY <2>4, OneValue
  <2>8. QED  BY <2>5, <2>6, <2>7, PairsJoined
<1>6. IsTable(writes, n, t) /\ IsTable(reads, n, t)  BY DEF IsTable
<1>7. PairsTable(Twins(k), writes, reads, n, t)
  <2>1. ASSUME NEW p \in 1 .. n, NEW l \in 1 .. t
        PROVE  Pairs(Twins(k), writes[p][l], reads[p][l])
    <3> HIDE DEF w, r
    <3>1. QED  BY <1>5
  <2> HIDE DEF writes, reads
  <2>2. QED  BY <2>1 DEF PairsTable
<1> HIDE DEF writes, reads
<1>8. QED  BY <1>3, <1>4, <1>6, <1>7, PairsNested

\* The trash commitments, after their challenge.
LEMMA TrashPair ==
    ASSUME NEW k \in Keys
    PROVE  Pairs(Twins(k), CommitTrash(k), ReadTrash(k))
<1>1. PICK n \in Nat : n = k.proofs  BY KeySizes
<1>2. PICK t \in Nat : t = Len(k.cs.trashcans) /\ DOMAIN k.cs.trashcans = 1 .. t  BY KeyLists
<1> DEFINE writes == [p \in 1 .. n |-> [i \in 1 .. t |-> Write(<<"trash", p, i>>)]]
           reads == [p \in 1 .. n |-> [i \in 1 .. t |-> Read(<<"trash", p, i>>)]]
           v == [p \in 1 .. n |-> [i \in 1 .. t |-> <<"trash", p, i>>]]
           head == <<Squeeze(<<"trash_challenge">>)>>
           tail == <<Squeeze(<<"y">>)>>
<1>3. CommitTrash(k) = head \o FlattenSeq(writes) \o tail
  BY <1>1, <1>2 DEF CommitTrash, Each
<1>4. ReadTrash(k) = head \o FlattenSeq(reads) \o tail
  BY <1>1, <1>2 DEF ReadTrash, Each
<1>5. ASSUME NEW p \in 1 .. n, NEW i \in 1 .. t
      PROVE  v[p][i] \in Values
  <2>1. p \in Nat /\ i \in Nat  OBVIOUS
  <2>2. QED  BY <2>1, SomeValues
<1>6. /\ writes = [p \in 1 .. n |-> [i \in 1 .. t |-> Write(v[p][i])]]
      /\ reads = [p \in 1 .. n |-> [i \in 1 .. t |-> Read(v[p][i])]]
  OBVIOUS
<1>7. Pairs(Twins(k), head, head) /\ Pairs(Twins(k), tail, tail)  BY TheNames, OneName
<1> HIDE DEF v, writes, reads, head, tail
<1>8. Pairs(Twins(k), FlattenSeq(writes), FlattenSeq(reads))  BY <1>5, <1>6, ManyOfEvery
<1>9. Pairs(Twins(k), head \o FlattenSeq(writes), head \o FlattenSeq(reads))
  BY <1>7, <1>8, PairsJoined
<1>10. QED  BY <1>3, <1>4, <1>7, <1>9, PairsJoined

\* The limbs of the quotient polynomial.
LEMMA QuotientPair ==
    ASSUME NEW k \in Keys
    PROVE  Pairs(Twins(k), ComputeHPoly(k), ReadQuotient(k))
<1>1. PICK n \in Nat : n = QuotientPolyDegree(k)  BY KeySizes
<1> DEFINE v == [i \in 1 .. n |-> <<"limb", i>>]
           a == [i \in 1 .. n |-> Write(<<"limb", i>>)]
           b == [i \in 1 .. n |-> Read(<<"limb", i>>)]
           tail == <<Squeeze(<<"x">>)>>
<1>2. ASSUME NEW i \in 1 .. n
      PROVE  v[i] \in Values
  <2>1. i \in Nat  OBVIOUS
  <2>2. QED  BY <2>1, NumberedValues
<1>3. [i \in 1 .. n |-> Write(v[i])] = a /\ [i \in 1 .. n |-> Read(v[i])] = b  OBVIOUS
<1>4. ComputeHPoly(k) = a \o tail /\ ReadQuotient(k) = b \o tail
  BY <1>1 DEF ComputeHPoly, ReadQuotient
<1>5. Pairs(Twins(k), tail, tail)  BY TheNames, OneName
<1> HIDE DEF v, a, b, tail
<1>6. Pairs(Twins(k), a, b)  BY <1>2, <1>3, ManyValues
<1>7. QED  BY <1>4, <1>5, <1>6, PairsJoined

\* The elements of a list that are in S, each turned into another.
Turned(list, F) == [j \in 1 .. Len(list) |-> F[list[j]]]
TurnedParts(s, S, F) == [i \in 1 .. Len(s) |-> IF s[i] \in S THEN <<F[s[i]]>> ELSE <<>>]

\* Flattening one operation or none for each element keeps the chosen ones.
LEMMA FlattenChosen ==
    ASSUME NEW T, NEW s \in Seq(T), NEW S, NEW F
    PROVE  FlattenSeq(TurnedParts(s, S, F)) = Turned(Chosen(s, S), F)
<1>20. PICK U : U = {F[e] : e \in T}  OBVIOUS
<1>1. PICK n \in Nat : n = Len(s)  OBVIOUS
<1>0. PICK parts : parts = TurnedParts(s, S, F)  OBVIOUS
<1>2. parts = [i \in 1 .. n |-> IF s[i] \in S THEN <<F[s[i]]>> ELSE <<>>]
  BY <1>0, <1>1 DEF TurnedParts
<1>3. parts \in [1 .. n -> Seq(U)]
  <2>1. ASSUME NEW i \in 1 .. n
        PROVE  parts[i] \in Seq(U)
    <3>1. F[s[i]] \in U  BY <1>1, <1>20
    <3>2. <<F[s[i]]>> \in Seq(U) /\ <<>> \in Seq(U)  BY <3>1
    <3>3. QED  BY <1>2, <3>2
  <2>2. QED  BY <1>2, <2>1
<1>4. PICK f : ChosenValues(f, T, s, S)  BY ChosenEquation
<1>5. PICK g : FlattenValues(g, U, n, parts)  BY <1>3, FlattenEquation
<1>6. /\ f \in [0 .. n -> Seq(T)] /\ f[0] = <<>> /\ f[n] = Chosen(s, S)
      /\ \A i \in 1 .. n : f[i] = IF s[i] \in S THEN Append(f[i - 1], s[i]) ELSE f[i - 1]
  BY <1>1, <1>4 DEF ChosenValues
<1>7. /\ g \in [0 .. n -> Seq(U)] /\ g[0] = <<>> /\ g[n] = FlattenSeq(parts)
      /\ \A i \in 1 .. n : g[i] = g[i - 1] \o parts[i]
  BY <1>5 DEF FlattenValues
<1> DEFINE Kept(m) == Len(g[m]) = Len(f[m]) /\ \A j \in 1 .. Len(f[m]) : g[m][j] = F[f[m][j]]
           Good == {m \in Nat : m <= n => Kept(m)}
<1>8. 0 \in Good
  <2>1. Kept(0)  BY <1>6, <1>7
  <2>2. QED  BY <2>1
<1>9. ASSUME NEW m \in Nat, m \in Good
      PROVE  m + 1 \in Good
  <2> HIDE DEF Kept
  <2> SUFFICES ASSUME m + 1 <= n
               PROVE  Kept(m + 1)
    OBVIOUS
  <2>1. m \in 0 .. n /\ m + 1 \in 1 .. n /\ (m + 1) - 1 = m  OBVIOUS
  <2>2. PICK t \in Seq(T) : t = f[m]  BY <1>6, <2>1
  <2>3. PICK u \in Seq(U) : u = g[m]  BY <1>7, <2>1
  <2>4. Kept(m)  BY <1>9
  <2>5. Len(u) = Len(t) /\ \A j \in 1 .. Len(t) : u[j] = F[t[j]]  BY <2>2, <2>3, <2>4 DEF Kept
  <2>6. PICK e \in T : e = s[m + 1]  BY <1>1, <2>1
  <2>7. f[m + 1] = (IF e \in S THEN Append(t, e) ELSE t)  BY <1>6, <2>1, <2>2, <2>6
  <2>8. g[m + 1] = u \o (IF e \in S THEN <<F[e]>> ELSE <<>>)
    BY <1>2, <1>7, <2>1, <2>3, <2>6
  <2>9. CASE e \in S
    <3>1. PICK d \in U : d = F[e]  BY <1>20
    <3>2. PICK v : v = Append(t, e)  OBVIOUS
    <3>3. PICK w : w = u \o <<d>>  OBVIOUS
    <3>4. /\ v \in Seq(T) /\ Len(v) = Len(t) + 1 /\ v[Len(t) + 1] = e
          /\ \A j \in 1 .. Len(t) : v[j] = t[j]
      BY <3>2
    <3>5. /\ Len(w) = Len(u) + 1 /\ w[Len(u) + 1] = d
          /\ \A j \in 1 .. Len(u) : w[j] = u[j]
      BY <3>3
    <3>6. \A j \in 1 .. Len(v) : w[j] = F[v[j]]  BY <2>5, <3>1, <3>4, <3>5
    <3>7. f[m + 1] = v /\ g[m + 1] = w  BY <2>7, <2>8, <2>9, <3>1, <3>2, <3>3
    <3>8. Len(w) = Len(v)  BY <2>5, <3>4, <3>5
    <3>9. QED  BY <3>6, <3>7, <3>8 DEF Kept
  <2>10. CASE e \notin S
    <3>1. f[m + 1] = t /\ g[m + 1] = u  BY <2>7, <2>8, <2>10
    <3>2. QED  BY <2>5, <3>1 DEF Kept
  <2>11. QED  BY <2>9, <2>10
<1>10. Kept(n)
  <2> HIDE DEF Good
  <2>1. n \in Good  BY <1>8, <1>9, SetInduction
  <2>2. QED  BY <2>1 DEF Good
<1>17. n \in 0 .. n /\ g \in [0 .. n -> Seq(U)]  BY <1>7
<1>11. PICK h \in Seq(U) : h = g[n]  BY <1>17
<1>12. PICK c \in Seq(T) : c = f[n]  BY <1>6
<1>13. Len(h) = Len(c) /\ \A j \in 1 .. Len(c) : h[j] = F[c[j]]  BY <1>10, <1>11, <1>12
<1>14. h = [j \in 1 .. Len(c) |-> F[c[j]]]  BY <1>13
<1>15. c = Chosen(s, S)  BY <1>6, <1>12
<1>16. h = Turned(c, F)  BY <1>14 DEF Turned
<1>18. QED  BY <1>0, <1>7, <1>11, <1>15, <1>16

\* One value after the other, and all of them at once.
LEMMA SinglesOfEvery ==
    ASSUME NEW k, NEW n \in Nat, NEW t \in Nat, NEW v, NEW a, NEW b,
           a = [p \in 1 .. n |-> FlattenSeq([i \in 1 .. t |-> <<Write(v[p][i])>>])],
           b = [p \in 1 .. n |-> [i \in 1 .. t |-> Read(v[p][i])]],
           \A p \in 1 .. n : \A i \in 1 .. t : v[p][i] \in Values
    PROVE  Pairs(Twins(k), FlattenSeq(a), FlattenSeq(b))
<1>1. ASSUME NEW p \in 1 .. n
      PROVE  a[p] = [i \in 1 .. t |-> Write(v[p][i])]
  <2>1. PICK f : f = [i \in 1 .. t |-> Write(v[p][i])]  OBVIOUS
  <2>2. PICK S : S = {f[i] : i \in 1 .. t}  OBVIOUS
  <2>3. f \in [1 .. t -> S]  BY <2>1, <2>2
  <2>4. FlattenSeq([i \in 1 .. t |-> <<f[i]>>]) = f  BY <2>3, FlattenSingles
  <2>5. [i \in 1 .. t |-> <<f[i]>>] = [i \in 1 .. t |-> <<Write(v[p][i])>>]  BY <2>1
  <2>6. QED  BY <2>1, <2>4, <2>5
<1>2. a = [p \in 1 .. n |-> [i \in 1 .. t |-> Write(v[p][i])]]  BY <1>1
<1>3. QED  BY <1>2, ManyOfEvery

-----------------------------------------------------------------------------
(* The evaluations.                                                        *)

\* The verifier reads a value for every fixed column that is no simple selector,
\* the prover writes one for every query of such a column: the two numbers differ
\* for the circuits of the finding on the fixed evaluations, and only for them.
SlotsMatch(k) == FixedSlots(k) = Len(OpenFixed(k))

\* The open queries of the fixed columns are queries.
LEMMA OpenFixedType ==
    ASSUME NEW k \in Keys
    PROVE  /\ OpenFixed(k) \in Seq(Nat \X Int)
           /\ \A i \in 1 .. Len(OpenFixed(k)) :
                 OpenFixed(k)[i][1] \in Nat /\ OpenFixed(k)[i][2] \in Int
<1>1. k.cs.queries["fixed"] \in Seq(Nat \X Int)  BY KeyQueries, KindsAre
<1>2. PICK open : open = OpenFixed(k)  OBVIOUS
<1>3. open \in Seq(Nat \X Int)  BY <1>1, <1>2, ChosenExact DEF OpenFixed
<1>4. ASSUME NEW i \in 1 .. Len(open)
      PROVE  open[i][1] \in Nat /\ open[i][2] \in Int
  <2>1. open[i] \in Nat \X Int  BY <1>3
  <2>2. QED  BY <2>1
<1>5. QED  BY <1>2, <1>3, <1>4

\* An evaluation of a fixed column and the slot it goes to.
LEMMA SlotTwins ==
    ASSUME NEW k \in Keys, NEW i \in 1 .. Len(OpenFixed(k)), NEW v,
           v = Eval(<<"fixed", OpenFixed(k)[i][1]>>, OpenFixed(k)[i][2])
    PROVE  <<Write(v), Read(<<"slot", i>>)>> \in Twins(k)
<1>1. OpenFixed(k)[i][1] \in Nat /\ OpenFixed(k)[i][2] \in Int  BY OpenFixedType
<1>2. v \in Values
  <2>1. PICK x \in Nat : x = OpenFixed(k)[i][1]  BY <1>1
  <2>2. PICK y \in Int : y = OpenFixed(k)[i][2]  BY <1>1
  <2>3. <<"fixed", x>> \in Commitments  BY OfTheKey
  <2>4. Eval(<<"fixed", x>>, y) \in Values  BY <2>3, EvalValues
  <2>5. QED  BY <2>1, <2>2, <2>4
<1>3. <<"slot", i>> \in Slots
  <2>1. i \in Nat  BY OpenFixedType
  <2>2. QED  BY <2>1 DEF Slots
<1>4. Write(v) \in Moves /\ Read(<<"slot", i>>) \in Moves
  BY <1>2, <1>3 DEF Moves, Write, Read
<1>5. Means(k, <<"slot", i>>) = v  BY DEF Means
<1>6. /\ Write(v)[1] = "write" /\ Write(v)[2] = v
      /\ Read(<<"slot", i>>)[1] = "read" /\ Read(<<"slot", i>>)[2] = <<"slot", i>>
  BY DEF Write, Read
<1>7. <<Write(v), Read(<<"slot", i>>)>> \in Alike  BY <1>4, <1>6 DEF Alike
<1>8. QED  BY <1>5, <1>6, <1>7 DEF Twins

\* The prover's evaluations of fixed columns.
FixedWrites(k) ==
    Each(Len(k.cs.queries["fixed"]), LAMBDA i :
        LET q == k.cs.queries["fixed"][i]
        IN  IF HasSimpleSelectorCol(k.cs, q[1]) THEN <<>>
            ELSE <<Write(Eval(<<"fixed", q[1]>>, q[2]))>>)

\* The prover writes one evaluation for each open query of a fixed column.
LEMMA FixedWritesAre ==
    ASSUME NEW k \in Keys
    PROVE  FixedWrites(k) = [i \in 1 .. Len(OpenFixed(k)) |->
                Write(Eval(<<"fixed", OpenFixed(k)[i][1]>>, OpenFixed(k)[i][2]))]
<1>1. PICK s \in Seq(Nat \X Int) : s = k.cs.queries["fixed"]  BY KeyQueries, KindsAre
<1>2. PICK S : S = {q \in ToSet(s) : ~HasSimpleSelectorCol(k.cs, q[1])}  OBVIOUS
<1>3. PICK F : F = [q \in Nat \X Int |-> Write(Eval(<<"fixed", q[1]>>, q[2]))]  OBVIOUS
<1>6. OpenFixed(k) = Chosen(s, S)  BY <1>1, <1>2 DEF OpenFixed
<1>7. ASSUME NEW i \in 1 .. Len(s)
      PROVE  (IF s[i] \in S THEN <<F[s[i]]>> ELSE <<>>)
                 = (IF HasSimpleSelectorCol(k.cs, s[i][1]) THEN <<>>
                    ELSE <<Write(Eval(<<"fixed", s[i][1]>>, s[i][2]))>>)
  <2>1. s[i] \in ToSet(s)  BY DEF ToSet
  <2>2. s[i] \in S <=> ~HasSimpleSelectorCol(k.cs, s[i][1])  BY <1>2, <2>1
  <2>3. s[i] \in Nat \X Int  OBVIOUS
  <2>4. F[s[i]] = Write(Eval(<<"fixed", s[i][1]>>, s[i][2]))  BY <1>3, <2>3
  <2>5. QED  BY <2>2, <2>4
<1>8. FixedWrites(k) = FlattenSeq([i \in 1 .. Len(s) |-> IF s[i] \in S THEN <<F[s[i]]>> ELSE <<>>])
  <2>1. FixedWrites(k) = FlattenSeq([i \in 1 .. Len(s) |->
                IF HasSimpleSelectorCol(k.cs, s[i][1]) THEN <<>>
                ELSE <<Write(Eval(<<"fixed", s[i][1]>>, s[i][2]))>>])
    BY <1>1 DEF FixedWrites, Each
  <2>2. [i \in 1 .. Len(s) |-> IF s[i] \in S THEN <<F[s[i]]>> ELSE <<>>]
            = [i \in 1 .. Len(s) |->
                IF HasSimpleSelectorCol(k.cs, s[i][1]) THEN <<>>
                ELSE <<Write(Eval(<<"fixed", s[i][1]>>, s[i][2]))>>]
    BY <1>7
  <2>3. QED  BY <2>1, <2>2
<1>10. PICK open \in Seq(Nat \X Int) : open = OpenFixed(k)  BY OpenFixedType
<1>15. open = Chosen(s, S)  BY <1>6, <1>10
<1>16. FlattenSeq(TurnedParts(s, S, F)) = Turned(open, F)
  <2>1. FlattenSeq(TurnedParts(s, S, F)) = Turned(Chosen(s, S), F)  BY FlattenChosen
  <2>2. QED  BY <1>15, <2>1
<1>9. FixedWrites(k) = FlattenSeq(TurnedParts(s, S, F))  BY <1>8 DEF TurnedParts
<1>11. FixedWrites(k) = [j \in 1 .. Len(open) |-> F[open[j]]]  BY <1>9, <1>16 DEF Turned
<1>12. ASSUME NEW j \in 1 .. Len(open)
       PROVE  F[open[j]] = Write(Eval(<<"fixed", open[j][1]>>, open[j][2]))
  <2>1. open[j] \in Nat \X Int  OBVIOUS
  <2>2. QED  BY <1>3, <2>1
<1>13. FixedWrites(k) = [j \in 1 .. Len(open) |-> Write(Eval(<<"fixed", open[j][1]>>, open[j][2]))]
  BY <1>11, <1>12
<1>14. QED  BY <1>10, <1>13

\* The evaluations of the fixed columns and the slots they are read into.
LEMMA FixedPair ==
    ASSUME NEW k \in Keys, SlotsMatch(k)
    PROVE  Pairs(Twins(k), FixedWrites(k), ReadFixedEvals(k))
<1>1. PICK n \in Nat : n = Len(OpenFixed(k))  BY OpenFixedType
<1>2. PICK a : a = FixedWrites(k)  OBVIOUS
<1>3. PICK b : b = ReadFixedEvals(k)  OBVIOUS
<1>4. a = [i \in 1 .. n |-> Write(Eval(<<"fixed", OpenFixed(k)[i][1]>>, OpenFixed(k)[i][2]))]
  BY <1>1, <1>2, FixedWritesAre
<1>5. b = [i \in 1 .. n |-> Read(<<"slot", i>>)]  BY <1>1, <1>3 DEF ReadFixedEvals, SlotsMatch
<1>6. PICK R \in SUBSET (Moves \X Moves) : R = Twins(k)  BY TwinsAlike
<1>7. ASSUME NEW i \in 1 .. n
      PROVE  <<a[i], b[i]>> \in R
  <2>1. PICK v : v = Eval(<<"fixed", OpenFixed(k)[i][1]>>, OpenFixed(k)[i][2])  OBVIOUS
  <2>2. <<Write(v), Read(<<"slot", i>>)>> \in Twins(k)  BY <1>1, <2>1, SlotTwins
  <2>3. QED  BY <1>4, <1>5, <1>6, <2>1, <2>2
<1>8. a = [i \in 1 .. n |-> a[i]] /\ b = [i \in 1 .. n |-> b[i]]  BY <1>4, <1>5
<1>9. Pairs(R, a, b)  BY <1>7, <1>8, PairsList
<1>10. QED  BY <1>2, <1>3, <1>6, <1>9

\* The three sections that read what write_evals_to_transcript writes.
ReadEvals(k) == ReadInstanceEvals(k) \o ReadAdviceEvals(k) \o ReadFixedEvals(k)

\* The evaluations of the instance, advice and fixed columns.
LEMMA EvaluationsPair ==
    ASSUME NEW k \in Keys, SlotsMatch(k)
    PROVE  /\ Pairs(Twins(k), WriteEvals(k), ReadEvals(k))
           /\ ReadInstanceEvals(k) \in Seq(Moves) /\ ReadAdviceEvals(k) \in Seq(Moves)
           /\ ReadFixedEvals(k) \in Seq(Moves)
<1>1. PICK n \in Nat : n = k.proofs  BY KeySizes
<1>2. PICK qi : qi = k.cs.queries["instance"]  OBVIOUS
<1>3. PICK qa : qa = k.cs.queries["advice"]  OBVIOUS
<1>4. PICK ti \in Nat : ti = Len(qi)  BY <1>2, KeyQueries, KindsAre
<1>5. PICK ta \in Nat : ta = Len(qa)  BY <1>3, KeyQueries, KindsAre
<1>6. /\ \A i \in 1 .. ti : qi[i][1] \in Nat /\ qi[i][2] \in Int
      /\ \A i \in 1 .. ta : qa[i][1] \in Nat /\ qa[i][2] \in Int
      /\ DOMAIN qa = 1 .. ta
  BY <1>2, <1>3, <1>4, <1>5, KeyQueries, KindsAre
<1> DEFINE vi(p, i) == Eval(Instance(p, qi[i][1]), qi[i][2])
           va(p, i) == Eval(Column(p, qa[i][1]), qa[i][2])
           wi(p, i) == IF qi[i][1] <= k.committed THEN <<Write(vi(p, i))>> ELSE <<>>
           ri(p, i) == IF qi[i][1] <= k.committed THEN <<Read(vi(p, i))>> ELSE <<>>
           instanceWrites == [p \in 1 .. n |-> [i \in 1 .. ti |-> wi(p, i)]]
           instanceReads == [p \in 1 .. n |-> [i \in 1 .. ti |-> ri(p, i)]]
           adviceWrites == [p \in 1 .. n |-> FlattenSeq([i \in 1 .. ta |-> <<Write(va(p, i))>>])]
           adviceReads == [p \in 1 .. n |-> [i \in 1 .. ta |-> Read(va(p, i))]]
<1>7. WriteEvals(k) = FlatTable(instanceWrites, n) \o FlattenSeq(adviceWrites) \o FixedWrites(k)
  BY <1>1, <1>2, <1>3, <1>4, <1>5 DEF WriteEvals, Each, FlatTable, FixedWrites
<1>8. /\ ReadInstanceEvals(k) = FlatTable(instanceReads, n)
      /\ ReadAdviceEvals(k) = FlattenSeq(adviceReads)
  BY <1>1, <1>2, <1>3, <1>4, <1>5, <1>6
     DEF ReadInstanceEvals, ReadAdviceEvals, Each, FlatTable
<1>9. ASSUME NEW p \in 1 .. n, NEW i \in 1 .. ti
      PROVE  Pairs(Twins(k), wi(p, i), ri(p, i))
  <2>1. PICK c \in Nat : c = qi[i][1]  BY <1>6
  <2>2. PICK r \in Int : r = qi[i][2]  BY <1>6
  <2>3. p \in Nat  OBVIOUS
  <2>4. Instance(p, c) \in Commitments  BY <2>3, OfOneProof
  <2>5. Eval(Instance(p, c), r) \in Values  BY <2>4, EvalValues
  <2>6. vi(p, i) \in Values  BY <2>1, <2>2, <2>5
  <2> HIDE DEF vi
  <2>7. Pairs(Twins(k), <<Write(vi(p, i))>>, <<Read(vi(p, i))>>)  BY <2>6, OneValue
  <2>8. Pairs(Twins(k), <<>>, <<>>)  BY PairsNone
  <2>9. QED  BY <2>7, <2>8
<1>10. ASSUME NEW p \in 1 .. n, NEW i \in 1 .. ta
       PROVE  va(p, i) \in Values
  <2>1. PICK c \in Nat : c = qa[i][1]  BY <1>6
  <2>2. PICK r \in Int : r = qa[i][2]  BY <1>6
  <2>3. p \in Nat  OBVIOUS
  <2>4. Column(p, c) \in Commitments  BY <2>3, OfOneProof
  <2>5. Eval(Column(p, c), r) \in Values  BY <2>4, EvalValues
  <2>6. QED  BY <2>1, <2>2, <2>5
<1>11. Pairs(Twins(k), FlatTable(instanceWrites, n), FlatTable(instanceReads, n))
  <2> HIDE DEF wi, ri
  <2>1. IsTable(instanceWrites, n, ti) /\ IsTable(instanceReads, n, ti)  BY DEF IsTable
  <2>2. PairsTable(Twins(k), instanceWrites, instanceReads, n, ti)
    <3>1. ASSUME NEW p \in 1 .. n, NEW i \in 1 .. ti
          PROVE  Pairs(Twins(k), instanceWrites[p][i], instanceReads[p][i])
      BY <1>9
    <3> HIDE DEF instanceWrites, instanceReads
    <3>2. QED  BY <3>1 DEF PairsTable
  <2> HIDE DEF instanceWrites, instanceReads
  <2>3. QED  BY <2>1, <2>2, PairsNested
<1>12. Pairs(Twins(k), FlattenSeq(adviceWrites), FlattenSeq(adviceReads))
  <2> HIDE DEF va
  <2>1. PICK v : v = [p \in 1 .. n |-> [i \in 1 .. ta |-> va(p, i)]]  OBVIOUS
  <2>2. \A p \in 1 .. n : \A i \in 1 .. ta : v[p][i] \in Values  BY <1>10, <2>1
  <2>3. adviceWrites = [p \in 1 .. n |-> FlattenSeq([i \in 1 .. ta |-> <<Write(v[p][i])>>])]
    <3>1. ASSUME NEW p \in 1 .. n
          PROVE  [i \in 1 .. ta |-> <<Write(v[p][i])>>] = [i \in 1 .. ta |-> <<Write(va(p, i))>>]
      BY <2>1
    <3>2. QED  BY <3>1
  <2>4. adviceReads = [p \in 1 .. n |-> [i \in 1 .. ta |-> Read(v[p][i])]]  BY <2>1
  <2> HIDE DEF adviceWrites, adviceReads
  <2>5. QED  BY <2>2, <2>3, <2>4, SinglesOfEvery
<1>13. Pairs(Twins(k), FixedWrites(k), ReadFixedEvals(k))  BY FixedPair
<1> HIDE DEF instanceWrites, instanceReads, adviceWrites, adviceReads
<1>14. Pairs(Twins(k), FlatTable(instanceWrites, n) \o FlattenSeq(adviceWrites),
                       FlatTable(instanceReads, n) \o FlattenSeq(adviceReads))
  BY <1>11, <1>12, PairsJoined
<1>16. ReadEvals(k) = FlatTable(instanceReads, n) \o FlattenSeq(adviceReads) \o ReadFixedEvals(k)
  BY <1>8 DEF ReadEvals
<1>17. /\ ReadInstanceEvals(k) \in Seq(Moves) /\ ReadAdviceEvals(k) \in Seq(Moves)
       /\ ReadFixedEvals(k) \in Seq(Moves)
  BY <1>8, <1>11, <1>12, <1>13 DEF Pairs
<1>15. QED  BY <1>7, <1>16, <1>13, <1>14, <1>17, PairsJoined

\* The evaluations of the sigma polynomials.
LEMMA SigmaPair ==
    ASSUME NEW k \in Keys
    PROVE  Pairs(Twins(k), [i \in DOMAIN k.cs.permutation |-> Write(Eval(<<"sigma", i>>, 0))],
                           [i \in DOMAIN k.cs.permutation |-> Read(Eval(<<"sigma", i>>, 0))])
<1>1. PICK t \in Nat : DOMAIN k.cs.permutation = 1 .. t  BY KeyLists
<1> DEFINE v == [i \in 1 .. t |-> Eval(<<"sigma", i>>, 0)]
           a == [i \in 1 .. t |-> Write(Eval(<<"sigma", i>>, 0))]
           b == [i \in 1 .. t |-> Read(Eval(<<"sigma", i>>, 0))]
<1>2. ASSUME NEW i \in 1 .. t
      PROVE  v[i] \in Values
  <2>3. i \in Nat  OBVIOUS
  <2>1. <<"sigma", i>> \in Commitments  BY <2>3, OfTheKey
  <2>2. QED  BY <2>1, EvalValues
<1>3. [i \in 1 .. t |-> Write(v[i])] = a /\ [i \in 1 .. t |-> Read(v[i])] = b  OBVIOUS
<1> HIDE DEF v
<1>4. Pairs(Twins(k), a, b)
  <2> HIDE DEF a, b
  <2>1. QED  BY <1>2, <1>3, ManyValues
<1>5. QED  BY <1>1, <1>4

\* The evaluations of the permutation argument.
LEMMA EvaluatePermutationPair ==
    ASSUME NEW k \in Keys
    PROVE  Pairs(Twins(k), EvaluatePermutation(k), ReadPermutationEvals(k))
<1>1. PICK n \in Nat : n = k.proofs  BY KeySizes
<1>2. PICK t \in Nat : t = NumPermutationSets(k)  BY KeySizes
<1>3. PICK r \in Int : r = LastRotation(k)  BY KeySizes
<1> DEFINE z(p, i) == <<"z", p, i>>
           w(p, i) == <<Write(Eval(z(p, i), 0)), Write(Eval(z(p, i), 1))>>
                      \o (IF i < t THEN <<Write(Eval(z(p, i), r))>> ELSE <<>>)
           d(p, i) == <<Read(Eval(z(p, i), 0)), Read(Eval(z(p, i), 1))>>
                      \o (IF t - i > 0 THEN <<Read(Eval(z(p, i), r))>> ELSE <<>>)
           writes == [p \in 1 .. n |-> [i \in 1 .. t |-> w(p, i)]]
           reads == [p \in 1 .. n |-> [i \in 1 .. t |-> d(p, i)]]
           a == [i \in DOMAIN k.cs.permutation |-> Write(Eval(<<"sigma", i>>, 0))]
           b == [i \in DOMAIN k.cs.permutation |-> Read(Eval(<<"sigma", i>>, 0))]
<1>4. EvaluatePermutation(k) = a \o FlatTable(writes, n)
  BY <1>1, <1>2, <1>3 DEF EvaluatePermutation, Each, FlatTable
<1>5. ReadPermutationEvals(k) = b \o FlatTable(reads, n)
  BY <1>1, <1>2, <1>3 DEF ReadPermutationEvals, Each, FlatTable
<1>6. ASSUME NEW p \in 1 .. n, NEW i \in 1 .. t
      PROVE  Pairs(Twins(k), w(p, i), d(p, i))
  <2>1. p \in Nat /\ i \in Nat  OBVIOUS
  <2>2. z(p, i) \in Commitments  BY <2>1, OfOneProof
  <2> HIDE DEF z
  <2>3. /\ Eval(z(p, i), 0) \in Values /\ Eval(z(p, i), 1) \in Values
        /\ Eval(z(p, i), r) \in Values
    BY <2>2, EvalValues
  <2>4. Pairs(Twins(k), <<Write(Eval(z(p, i), 0)), Write(Eval(z(p, i), 1))>>,
                        <<Read(Eval(z(p, i), 0)), Read(Eval(z(p, i), 1))>>)
    BY <2>3, TwoValues
  <2>5. Pairs(Twins(k), IF i < t THEN <<Write(Eval(z(p, i), r))>> ELSE <<>>,
                        IF t - i > 0 THEN <<Read(Eval(z(p, i), r))>> ELSE <<>>)
    <3>1. Pairs(Twins(k), <<Write(Eval(z(p, i), r))>>, <<Read(Eval(z(p, i), r))>>)
      BY <2>3, OneValue
    <3>2. Pairs(Twins(k), <<>>, <<>>)  BY PairsNone
    <3>3. i < t <=> t - i > 0  BY <2>1
    <3>4. QED  BY <3>1, <3>2, <3>3
  <2>6. QED  BY <2>4, <2>5, PairsJoined
<1>7. Pairs(Twins(k), FlatTable(writes, n), FlatTable(reads, n))
  <2> HIDE DEF w, d
  <2>1. IsTable(writes, n, t) /\ IsTable(reads, n, t)  BY DEF IsTable
  <2>2. PairsTable(Twins(k), writes, reads, n, t)
    <3>1. ASSUME NEW p \in 1 .. n, NEW i \in 1 .. t
          PROVE  Pairs(Twins(k), writes[p][i], reads[p][i])
      BY <1>6
    <3> HIDE DEF writes, reads
    <3>2. QED  BY <3>1 DEF PairsTable
  <2> HIDE DEF writes, reads
  <2>3. QED  BY <2>1, <2>2, PairsNested
<1>8. Pairs(Twins(k), a, b)  BY SigmaPair
<1> HIDE DEF a, b, writes, reads
<1>9. QED  BY <1>4, <1>5, <1>7, <1>8, PairsJoined

\* The evaluations of the lookups.
LEMMA EvaluateLookupsPair ==
    ASSUME NEW k \in Keys
    PROVE  Pairs(Twins(k), EvaluateLookups(k), ReadLookupEvals(k))
<1>1. PICK n \in Nat : n = k.proofs  BY KeySizes
<1>2. PICK t \in Nat : t = Len(k.cs.lookups)  BY KeyLists
<1> DEFINE w(p, l) == <<Write(Eval(<<"m", p, l>>, 0))>>
                      \o [j \in 1 .. k.chunks[l] |-> Write(Eval(<<"h", p, l, j>>, 0))]
                      \o <<Write(Eval(<<"acc", p, l>>, 0)), Write(Eval(<<"acc", p, l>>, 1))>>
           r(p, l) == <<Read(Eval(<<"m", p, l>>, 0))>>
                      \o [j \in 1 .. k.chunks[l] |-> Read(Eval(<<"h", p, l, j>>, 0))]
                      \o <<Read(Eval(<<"acc", p, l>>, 0)), Read(Eval(<<"acc", p, l>>, 1))>>
           writes == [p \in 1 .. n |-> [l \in 1 .. t |-> w(p, l)]]
           reads == [p \in 1 .. n |-> [l \in 1 .. t |-> r(p, l)]]
<1>3. EvaluateLookups(k) = FlatTable(writes, n)
  BY <1>1, <1>2 DEF EvaluateLookups, Each, FlatTable
<1>4. ReadLookupEvals(k) = FlatTable(reads, n)
  BY <1>1, <1>2 DEF ReadLookupEvals, Each, FlatTable
<1>5. ASSUME NEW p \in 1 .. n, NEW l \in 1 .. t
      PROVE  Pairs(Twins(k), w(p, l), r(p, l))
  <2>1. PICK c \in Nat : c = k.chunks[l]  BY <1>2, KeyLists
  <2>2. p \in Nat /\ l \in Nat  OBVIOUS
  <2>3. PICK m : m = <<"m", p, l>>  OBVIOUS
  <2>4. PICK acc : acc = <<"acc", p, l>>  OBVIOUS
  <2>5. m \in Commitments /\ acc \in Commitments  BY <2>2, <2>3, <2>4, OfOneProof
  <2>6. \A j \in Nat : <<"h", p, l, j>> \in Commitments  BY <2>2, OfOneProof
  <2> DEFINE v == [j \in 1 .. c |-> Eval(<<"h", p, l, j>>, 0)]
             a == [j \in 1 .. c |-> Write(Eval(<<"h", p, l, j>>, 0))]
             b == [j \in 1 .. c |-> Read(Eval(<<"h", p, l, j>>, 0))]
  <2>7. w(p, l) = <<Write(Eval(m, 0))>> \o a \o <<Write(Eval(acc, 0)), Write(Eval(acc, 1))>>
    BY <2>1, <2>3, <2>4
  <2>8. r(p, l) = <<Read(Eval(m, 0))>> \o b \o <<Read(Eval(acc, 0)), Read(Eval(acc, 1))>>
    BY <2>1, <2>3, <2>4
  <2>9. ASSUME NEW j \in 1 .. c
        PROVE  v[j] \in Values
    <3>1. <<"h", p, l, j>> \in Commitments  BY <2>6
    <3>2. QED  BY <3>1, EvalValues
  <2>10. [j \in 1 .. c |-> Write(v[j])] = a /\ [j \in 1 .. c |-> Read(v[j])] = b  OBVIOUS
  <2>11. Eval(m, 0) \in Values /\ Eval(acc, 0) \in Values /\ Eval(acc, 1) \in Values
    BY <2>5, EvalValues
  <2> HIDE DEF v, a, b, w, r
  <2>12. Pairs(Twins(k), a, b)  BY <2>9, <2>10, ManyValues
  <2>13. Pairs(Twins(k), <<Write(Eval(m, 0))>>, <<Read(Eval(m, 0))>>)  BY <2>11, OneValue
  <2>14. Pairs(Twins(k), <<Write(Eval(acc, 0)), Write(Eval(acc, 1))>>,
                         <<Read(Eval(acc, 0)), Read(Eval(acc, 1))>>)
    BY <2>11, TwoValues
  <2>15. Pairs(Twins(k), <<Write(Eval(m, 0))>> \o a, <<Read(Eval(m, 0))>> \o b)
    BY <2>12, <2>13, PairsJoined
  <2>16. QED  BY <2>7, <2>8, <2>14, <2>15, PairsJoined
<1>6. IsTable(writes, n, t) /\ IsTable(reads, n, t)
  <2> HIDE DEF w, r
  <2>1. QED  BY DEF IsTable
<1>7. PairsTable(Twins(k), writes, reads, n, t)
  <2>1. ASSUME NEW p \in 1 .. n, NEW l \in 1 .. t
        PROVE  Pairs(Twins(k), writes[p][l], reads[p][l])
    <3> HIDE DEF w, r
    <3>1. QED  BY <1>5
  <2> HIDE DEF writes, reads
  <2>2. QED  BY <2>1 DEF PairsTable
<1> HIDE DEF writes, reads
<1>8. QED  BY <1>3, <1>4, <1>6, <1>7, PairsNested

\* The evaluations of the trash arguments.
LEMMA EvaluateTrashPair ==
    ASSUME NEW k \in Keys
    PROVE  Pairs(Twins(k), EvaluateTrash(k), ReadTrashEvals(k))
<1>1. PICK n \in Nat : n = k.proofs  BY KeySizes
<1>2. PICK t \in Nat : t = Len(k.cs.trashcans) /\ DOMAIN k.cs.trashcans = 1 .. t  BY KeyLists
<1> DEFINE writes == [p \in 1 .. n |-> [i \in 1 .. t |-> Write(Eval(<<"trash", p, i>>, 0))]]
           reads == [p \in 1 .. n |-> [i \in 1 .. t |-> Read(Eval(<<"trash", p, i>>, 0))]]
           v == [p \in 1 .. n |-> [i \in 1 .. t |-> Eval(<<"trash", p, i>>, 0)]]
<1>3. EvaluateTrash(k) = FlattenSeq(writes)  BY <1>1, <1>2 DEF EvaluateTrash, Each
<1>4. ReadTrashEvals(k) = FlattenSeq(reads)  BY <1>1, <1>2 DEF ReadTrashEvals, Each
<1>5. ASSUME NEW p \in 1 .. n, NEW i \in 1 .. t
      PROVE  v[p][i] \in Values
  <2>1. p \in Nat /\ i \in Nat  OBVIOUS
  <2>2. <<"trash", p, i>> \in Commitments  BY <2>1, OfOneProof
  <2>3. Eval(<<"trash", p, i>>, 0) \in Values  BY <2>2, EvalValues
  <2>4. QED  BY <2>3
<1>6. /\ writes = [p \in 1 .. n |-> [i \in 1 .. t |-> Write(v[p][i])]]
      /\ reads = [p \in 1 .. n |-> [i \in 1 .. t |-> Read(v[p][i])]]
  OBVIOUS
<1> HIDE DEF v, writes, reads
<1>7. Pairs(Twins(k), FlattenSeq(writes), FlattenSeq(reads))  BY <1>5, <1>6, ManyOfEvery
<1>8. QED  BY <1>3, <1>4, <1>7

-----------------------------------------------------------------------------
(* The openings.                                                           *)

\* Prover and verifier open the same columns in the same order.
LEMMA QueriesAgree ==
    ASSUME NEW k \in Keys
    PROVE  VerifierQueries(k) = ComputeQueries(k)
<1> DEFINE sets == NumPermutationSets(k)
           advice(p) == [i \in DOMAIN k.cs.queries["advice"] |->
               LET q == k.cs.queries["advice"][i] IN Query(Column(p, q[1]), q[2])]
           instance(p) == Each(Len(k.cs.queries["instance"]), LAMBDA i :
               LET q == k.cs.queries["instance"][i]
               IN  IF q[1] <= k.committed THEN <<Query(Instance(p, q[1]), q[2])>> ELSE <<>>)
           permutation(p) ==
               Each(sets, LAMBDA i : <<Query(<<"z", p, i>>, 0), Query(<<"z", p, i>>, 1)>>)
               \o SubSeq(Reverse([i \in 1 .. sets |-> Query(<<"z", p, i>>, LastRotation(k))]),
                         2, sets)
           lookups(p) == Each(Len(k.cs.lookups), LAMBDA l :
               <<Query(<<"m", p, l>>, 0)>>
               \o [j \in 1 .. k.chunks[l] |-> Query(<<"h", p, l, j>>, 0)]
               \o <<Query(<<"acc", p, l>>, 0), Query(<<"acc", p, l>>, 1)>>)
           trash(p) == [t \in DOMAIN k.cs.trashcans |-> Query(<<"trash", p, t>>, 0)]
           all(fixed) == Each(k.proofs, LAMBDA p :
                             advice(p) \o instance(p) \o permutation(p) \o lookups(p) \o trash(p))
                         \o fixed
                         \o [i \in DOMAIN k.cs.permutation |-> Query(<<"sigma", i>>, 0)]
                         \o <<Query(<<"lin">>, 0)>>
           chosen == Chosen(k.cs.queries["fixed"],
                            {q \in ToSet(k.cs.queries["fixed"]) :
                                ~HasSimpleSelectorCol(k.cs, q[1])})
           fixedP == [i \in DOMAIN chosen |-> Query(<<"fixed", chosen[i][1]>>, chosen[i][2])]
           fixedV == FlattenSeq([i \in 1 .. Len(k.cs.queries["fixed"]) |->
                        IF HasSimpleSelectorCol(k.cs, k.cs.queries["fixed"][i][1]) THEN <<>>
                        ELSE <<Query(<<"fixed", k.cs.queries["fixed"][i][1]>>,
                                     k.cs.queries["fixed"][i][2])>>])
<1>1. ComputeQueries(k) = all(fixedP)  BY DEF ComputeQueries
<1>2. VerifierQueries(k) = all(fixedV)  BY DEF VerifierQueries, Each
<1>3. fixedV = fixedP
  <2> HIDE DEF advice, instance, permutation, lookups, trash, all
  <2>1. PICK s \in Seq(Nat \X Int) : s = k.cs.queries["fixed"]  BY KeyQueries, KindsAre
  <2>2. PICK S : S = {q \in ToSet(s) : ~HasSimpleSelectorCol(k.cs, q[1])}  OBVIOUS
  <2>3. PICK F : F = [q \in Nat \X Int |-> Query(<<"fixed", q[1]>>, q[2])]  OBVIOUS
  <2>4. ASSUME NEW i \in 1 .. Len(s)
        PROVE  (IF s[i] \in S THEN <<F[s[i]]>> ELSE <<>>)
                   = (IF HasSimpleSelectorCol(k.cs, s[i][1]) THEN <<>>
                      ELSE <<Query(<<"fixed", s[i][1]>>, s[i][2])>>)
    <3>1. s[i] \in ToSet(s)  BY DEF ToSet
    <3>2. s[i] \in S <=> ~HasSimpleSelectorCol(k.cs, s[i][1])  BY <2>2, <3>1
    <3>3. s[i] \in Nat \X Int  OBVIOUS
    <3>4. F[s[i]] = Query(<<"fixed", s[i][1]>>, s[i][2])  BY <2>3, <3>3
    <3>5. QED  BY <3>2, <3>4
  <2>5. fixedV = FlattenSeq(TurnedParts(s, S, F))
    <3>1. TurnedParts(s, S, F) = [i \in 1 .. Len(s) |->
                IF HasSimpleSelectorCol(k.cs, s[i][1]) THEN <<>>
                ELSE <<Query(<<"fixed", s[i][1]>>, s[i][2])>>]
      BY <2>4 DEF TurnedParts
    <3>2. QED  BY <2>1, <3>1
  <2>6. PICK open \in Seq(Nat \X Int) : open = chosen
    BY <2>1, ChosenExact
  <2>7. open = Chosen(s, S)  BY <2>1, <2>2, <2>6
  <2>8. fixedV = Turned(open, F)
    <3>1. FlattenSeq(TurnedParts(s, S, F)) = Turned(Chosen(s, S), F)  BY FlattenChosen
    <3>2. QED  BY <2>5, <2>7, <3>1
  <2>9. fixedP = [i \in DOMAIN open |-> Query(<<"fixed", open[i][1]>>, open[i][2])]  BY <2>6
  <2> HIDE DEF fixedP, fixedV, chosen
  <2>10. ASSUME NEW j \in 1 .. Len(open)
         PROVE  F[open[j]] = Query(<<"fixed", open[j][1]>>, open[j][2])
    <3>1. open[j] \in Nat \X Int  OBVIOUS
    <3>2. QED  BY <2>3, <3>1
  <2>11. DOMAIN open = 1 .. Len(open)  OBVIOUS
  <2>12. QED  BY <2>8, <2>9, <2>10, <2>11 DEF Turned
<1> HIDE DEF all, fixedP, fixedV
<1>4. QED  BY <1>1, <1>2, <1>3

\* The dummy queries are openings, and the sets can be counted.
LEMMA DummiesTyped ==
    ASSUME NEW k \in Keys, NEW qs, qs = ComputeQueries(k), NEW dummies,
           dummies \in {<<>>, DummyQueries(qs)}
    PROVE  /\ dummies \in Seq(Openings)
           /\ SetCount(qs \o dummies) \in Nat
<1>1. qs \in Seq(Openings)  BY ComputeQueriesType
<1> DEFINE D == [com : ComsOf(Openings), point : PointsIn(Openings)]
<1>2. D \subseteq Openings  BY DEF Openings, ComsOf, PointsIn, Query
<1>3. DummyQueries(qs) \in Seq(D)  BY <1>1, DummyQueriesType
<1> HIDE DEF D
<1>4. dummies \in Seq(Openings)
  <2>1. DummyQueries(qs) \in Seq(Openings)  BY <1>2, <1>3
  <2>2. <<>> \in Seq(Openings)  OBVIOUS
  <2>3. QED  BY <2>1, <2>2
<1>5. qs \o dummies \in Seq(Openings)  BY <1>1, <1>4
<1>6. QED  BY <1>4, <1>5, SetCountType

\* The evaluations of the dummy queries, and what follows them.
DummyWrites(dummies) == [i \in DOMAIN dummies |-> Write(Eval(dummies[i].com, dummies[i].point))]
DummyReads(dummies) == [i \in DOMAIN dummies |-> Read(Eval(dummies[i].com, dummies[i].point))]

SetWrites(n) ==
    <<Squeeze(<<"x1">>), Squeeze(<<"x2">>), Write(<<"f">>), Squeeze(<<"x3">>)>>
    \o [s \in 1 .. n |-> Write(<<"qeval", s>>)]
    \o <<Squeeze(<<"x4">>), Write(<<"pi">>)>>

SetReads(n) ==
    <<Squeeze(<<"x1">>), Squeeze(<<"x2">>), Read(<<"f">>), Squeeze(<<"x3">>)>>
    \o [s \in 1 .. n |-> Read(<<"qeval", s>>)]
    \o <<Squeeze(<<"x4">>), Read(<<"pi">>)>>

\* The evaluations of the dummy queries.
LEMMA DummiesPair ==
    ASSUME NEW k, NEW dummies \in Seq(Openings)
    PROVE  Pairs(Twins(k), DummyWrites(dummies), DummyReads(dummies))
<1>1. PICK n \in Nat : DOMAIN dummies = 1 .. n  OBVIOUS
<1> DEFINE v == [i \in 1 .. n |-> Eval(dummies[i].com, dummies[i].point)]
           a == [i \in 1 .. n |-> Write(Eval(dummies[i].com, dummies[i].point))]
           b == [i \in 1 .. n |-> Read(Eval(dummies[i].com, dummies[i].point))]
<1>2. ASSUME NEW i \in 1 .. n
      PROVE  v[i] \in Values
  <2>1. dummies[i] \in Openings  BY <1>1
  <2>2. PICK com \in Commitments, rot \in Int : dummies[i] = Query(com, rot)
    BY <2>1 DEF Openings
  <2>3. v[i] = Eval(com, rot)  BY <2>2 DEF Query
  <2>4. QED  BY <2>3, EvalValues
<1>3. [i \in 1 .. n |-> Write(v[i])] = a /\ [i \in 1 .. n |-> Read(v[i])] = b  OBVIOUS
<1>4. DummyWrites(dummies) = a /\ DummyReads(dummies) = b  BY <1>1 DEF DummyWrites, DummyReads
<1> HIDE DEF v, a, b
<1>5. Pairs(Twins(k), a, b)  BY <1>2, <1>3, ManyValues
<1>6. QED  BY <1>4, <1>5

\* The evaluations of the sets at x3.
LEMMA SetsPair ==
    ASSUME NEW k, NEW n \in Nat
    PROVE  Pairs(Twins(k), SetWrites(n), SetReads(n))
<1> DEFINE v == [s \in 1 .. n |-> <<"qeval", s>>]
           a == [s \in 1 .. n |-> Write(<<"qeval", s>>)]
           b == [s \in 1 .. n |-> Read(<<"qeval", s>>)]
<1>1. ASSUME NEW s \in 1 .. n
      PROVE  v[s] \in Values
  <2>1. s \in Nat  OBVIOUS
  <2>2. QED  BY <2>1, NumberedValues
<1>2. [s \in 1 .. n |-> Write(v[s])] = a /\ [s \in 1 .. n |-> Read(v[s])] = b  OBVIOUS
<1> HIDE DEF v, a, b
<1>3. Pairs(Twins(k), a, b)  BY <1>1, <1>2, ManyValues
<1>4. PICK w : w = <<Squeeze(<<"x1">>), Squeeze(<<"x2">>), Write(<<"f">>), Squeeze(<<"x3">>)>>
  OBVIOUS
<1>5. PICK r : r = <<Squeeze(<<"x1">>), Squeeze(<<"x2">>), Read(<<"f">>), Squeeze(<<"x3">>)>>
  OBVIOUS
<1>6. Pairs(Twins(k), w, r)
  <2>1. PICK R \in SUBSET (Moves \X Moves) : R = Twins(k)  BY TwinsAlike
  <2>2. /\ <<Squeeze(<<"x1">>), Squeeze(<<"x1">>)>> \in R
        /\ <<Squeeze(<<"x2">>), Squeeze(<<"x2">>)>> \in R
        /\ <<Squeeze(<<"x3">>), Squeeze(<<"x3">>)>> \in R
    BY <2>1, TheNames, NameTwins
  <2>3. <<Write(<<"f">>), Read(<<"f">>)>> \in R  BY <2>1, TheValues, ValueTwins
  <2>4. /\ w[1] = Squeeze(<<"x1">>) /\ w[2] = Squeeze(<<"x2">>) /\ w[3] = Write(<<"f">>)
        /\ w[4] = Squeeze(<<"x3">>)
        /\ r[1] = Squeeze(<<"x1">>) /\ r[2] = Squeeze(<<"x2">>) /\ r[3] = Read(<<"f">>)
        /\ r[4] = Squeeze(<<"x3">>)
    BY <1>4, <1>5
  <2>5. <<w[1], r[1]>> \in R /\ <<w[2], r[2]>> \in R /\ <<w[3], r[3]>> \in R /\ <<w[4], r[4]>> \in R
    BY <2>2, <2>3, <2>4
  <2>6. \A i \in 1 .. 4 : i = 1 \/ i = 2 \/ i = 3 \/ i = 4  OBVIOUS
  <2>7. \A i \in 1 .. 4 : <<w[i], r[i]>> \in R  BY <2>5, <2>6
  <2>8. w = [i \in 1 .. 4 |-> w[i]] /\ r = [i \in 1 .. 4 |-> r[i]]  BY <1>4, <1>5
  <2>9. Pairs(R, w, r)  BY <2>7, <2>8, PairsList
  <2>10. QED  BY <2>1, <2>9
<1>7. Pairs(Twins(k), <<Squeeze(<<"x4">>), Write(<<"pi">>)>>, <<Squeeze(<<"x4">>), Read(<<"pi">>)>>)
  <2>1. <<Squeeze(<<"x4">>), Squeeze(<<"x4">>)>> \in Twins(k)  BY TheNames, NameTwins
  <2>2. <<Write(<<"pi">>), Read(<<"pi">>)>> \in Twins(k)  BY TheValues, ValueTwins
  <2>3. QED  BY <2>1, <2>2, TwinsAlike, PairsTwo
<1>8. PICK x : x = <<Squeeze(<<"x4">>), Write(<<"pi">>)>>  OBVIOUS
<1>9. PICK y : y = <<Squeeze(<<"x4">>), Read(<<"pi">>)>>  OBVIOUS
<1>10. Pairs(Twins(k), w \o a, r \o b)  BY <1>3, <1>6, PairsJoined
<1>11. Pairs(Twins(k), (w \o a) \o x, (r \o b) \o y)  BY <1>7, <1>8, <1>9, <1>10, PairsJoined
<1>12. SetWrites(n) = (w \o a) \o x /\ SetReads(n) = (r \o b) \o y
  BY <1>4, <1>5, <1>8, <1>9 DEF SetWrites, SetReads, a, b
<1>13. QED  BY <1>11, <1>12

\* Both sides of an opening are the dummies, then the point sets.
LEMMA OpeningsAre ==
    ASSUME NEW k, NEW dummies \in Seq(Openings), NEW qs, NEW n \in Nat, n = SetCount(qs \o dummies)
    PROVE  /\ WriteOpenings(qs, dummies) = DummyWrites(dummies) \o SetWrites(n)
           /\ ReadOpenings(qs, dummies) = DummyReads(dummies) \o SetReads(n)
<1>1. PICK w : w = <<Squeeze(<<"x1">>), Squeeze(<<"x2">>), Write(<<"f">>), Squeeze(<<"x3">>)>>
  OBVIOUS
<1>2. PICK r : r = <<Squeeze(<<"x1">>), Squeeze(<<"x2">>), Read(<<"f">>), Squeeze(<<"x3">>)>>
  OBVIOUS
<1>3. PICK x : x = <<Squeeze(<<"x4">>), Write(<<"pi">>)>>  OBVIOUS
<1>4. PICK y : y = <<Squeeze(<<"x4">>), Read(<<"pi">>)>>  OBVIOUS
<1>5. PICK a : a = [s \in 1 .. n |-> Write(<<"qeval", s>>)]  OBVIOUS
<1>6. PICK b : b = [s \in 1 .. n |-> Read(<<"qeval", s>>)]  OBVIOUS
<1>7. PICK d : d = DummyWrites(dummies)  OBVIOUS
<1>8. PICK e : e = DummyReads(dummies)  OBVIOUS
<1>9. WriteOpenings(qs, dummies) = ((d \o w) \o a) \o x /\ SetWrites(n) = (w \o a) \o x
  BY <1>1, <1>3, <1>5, <1>7 DEF WriteOpenings, SetWrites, DummyWrites
<1>10. ReadOpenings(qs, dummies) = ((e \o r) \o b) \o y /\ SetReads(n) = (r \o b) \o y
  BY <1>2, <1>4, <1>6, <1>8 DEF ReadOpenings, SetReads, DummyReads
<1>18. PICK S : S = Moves  OBVIOUS
<1>11. d \in Seq(S) /\ e \in Seq(S)  BY <1>7, <1>8, <1>18, DummiesPair DEF Pairs
<1>12. a \in Seq(S) /\ b \in Seq(S)
  <2>1. \A s \in 1 .. n : a[s] \in S /\ b[s] \in S
    <3>1. ASSUME NEW s \in 1 .. n
          PROVE  <<"qeval", s>> \in Values
      <4>1. s \in Nat  OBVIOUS
      <4>2. QED  BY <4>1, NumberedValues
    <3>2. QED  BY <1>5, <1>6, <1>18, <3>1 DEF Moves, Write, Read
  <2>2. a = [s \in 1 .. n |-> a[s]] /\ b = [s \in 1 .. n |-> b[s]]  BY <1>5, <1>6
  <2>3. \A i \in 1 .. n : a[i] \in S  BY <2>1
  <2>4. \A i \in 1 .. n : b[i] \in S  BY <2>1
  <2>5. a \in Seq(S)  BY <2>2, <2>3
  <2>6. b \in Seq(S)  BY <2>2, <2>4
  <2>7. QED  BY <2>5, <2>6
<1>13. w \in Seq(S) /\ r \in Seq(S) /\ x \in Seq(S) /\ y \in Seq(S)
  <2>1. /\ Squeeze(<<"x1">>) \in S /\ Squeeze(<<"x2">>) \in S /\ Squeeze(<<"x3">>) \in S
        /\ Squeeze(<<"x4">>) \in S
    BY <1>18, TheNames DEF Moves, Squeeze
  <2>2. /\ Write(<<"f">>) \in S /\ Read(<<"f">>) \in S
        /\ Write(<<"pi">>) \in S /\ Read(<<"pi">>) \in S
    BY <1>18, TheValues DEF Moves, Write, Read
  <2>3. QED  BY <1>1, <1>2, <1>3, <1>4, <2>1, <2>2
<1>14. w \o a \in Seq(S) /\ r \o b \in Seq(S)  BY <1>12, <1>13
<1>19. \A u, v, z \in Seq(S) : (u \o v) \o z = u \o (v \o z)  OBVIOUS
<1>15. ((d \o w) \o a) \o x = d \o ((w \o a) \o x)
  <2>0. d \in Seq(S) /\ w \in Seq(S) /\ a \in Seq(S) /\ x \in Seq(S) /\ w \o a \in Seq(S)
    BY <1>11, <1>12, <1>13, <1>14
  <2>1. (d \o w) \o a = d \o (w \o a)  BY <2>0, <1>19
  <2>2. (d \o (w \o a)) \o x = d \o ((w \o a) \o x)  BY <2>0, <1>19
  <2>3. QED  BY <2>1, <2>2
<1>16. ((e \o r) \o b) \o y = e \o ((r \o b) \o y)
  <2>1. (e \o r) \o b = e \o (r \o b)  BY <1>11, <1>12, <1>13, <1>19
  <2>2. (e \o (r \o b)) \o y = e \o ((r \o b) \o y)  BY <1>11, <1>13, <1>14, <1>19
  <2>3. QED  BY <2>1, <2>2
<1>17. QED  BY <1>7, <1>8, <1>9, <1>10, <1>15, <1>16

\* The dummy queries a side adds.
Dummies(k, flag) == IF flag THEN DummyQueries(ComputeQueries(k)) ELSE <<>>

\* Both programs end with an opening of n point sets, after the dummies d.
Opened(k, flag, d, n) ==
    /\ MultiOpenOps(k, flag) = DummyWrites(d) \o SetWrites(n)
    /\ MultiPrepareOps(k, flag) = DummyReads(d) \o SetReads(n)
    /\ Pairs(Twins(k), DummyWrites(d), DummyReads(d))
    /\ Pairs(Twins(k), SetWrites(n), SetReads(n))

\* The multi-opening written as the lists the lemmas speak of.
LEMMA MultiOpenAre ==
    ASSUME NEW k \in Keys, NEW flag, NEW d, d = Dummies(k, flag)
    PROVE  /\ SetCount(ComputeQueries(k) \o d) \in Nat
           /\ Opened(k, flag, d, SetCount(ComputeQueries(k) \o d))
<1>1. PICK qs : qs = ComputeQueries(k)  OBVIOUS
<1>2. d \in {<<>>, DummyQueries(qs)}  BY <1>1 DEF Dummies
<1>3. d \in Seq(Openings) /\ SetCount(qs \o d) \in Nat  BY <1>1, <1>2, DummiesTyped
<1>4. PICK n \in Nat : n = SetCount(qs \o d)  BY <1>3
<1>5. MultiOpenOps(k, flag) = WriteOpenings(qs, d)
  BY <1>1 DEF MultiOpenOps, WriteMultiOpen, Dummies
<1>6. MultiPrepareOps(k, flag) = ReadOpenings(qs, d)
  BY <1>1, QueriesAgree DEF MultiPrepareOps, MultiPrepare, Dummies
<1>7. /\ WriteOpenings(qs, d) = DummyWrites(d) \o SetWrites(n)
      /\ ReadOpenings(qs, d) = DummyReads(d) \o SetReads(n)
  BY <1>3, <1>4, OpeningsAre
<1>8. Pairs(Twins(k), DummyWrites(d), DummyReads(d))  BY <1>3, DummiesPair
<1>9. Pairs(Twins(k), SetWrites(n), SetReads(n))  BY SetsPair
<1>10. Opened(k, flag, d, n)  BY <1>5, <1>6, <1>7, <1>8, <1>9 DEF Opened
<1>11. QED  BY <1>1, <1>4, <1>10

\* The multi-openings pair when the two builds ask the same dummy queries.
LEMMA MultiOpenPair ==
    ASSUME NEW k \in Keys, NEW flag, NEW other, Dummies(k, flag) = Dummies(k, other)
    PROVE  Pairs(Twins(k), MultiOpenOps(k, flag), MultiPrepareOps(k, other))
<1>1. PICK d : d = Dummies(k, flag) /\ d = Dummies(k, other)  OBVIOUS
<1>2. PICK n : n = SetCount(ComputeQueries(k) \o d)  OBVIOUS
<1>3. Opened(k, flag, d, n) /\ Opened(k, other, d, n)  BY <1>1, <1>2, MultiOpenAre
<1>4. Pairs(Twins(k), DummyWrites(d) \o SetWrites(n), DummyReads(d) \o SetReads(n))
  BY <1>3, PairsJoined DEF Opened
<1>5. QED  BY <1>3, <1>4 DEF Opened

-----------------------------------------------------------------------------
(* The instances.                                                          *)

\* The parts of two lists, concatenated, are those of the lists in turn.
PartsOf(S, n, x) == x \in [1 .. n -> Seq(S)]
Spliced(x, a, y, b) == [i \in 1 .. a + b |-> IF i <= a THEN x[i] ELSE y[i - a]]

Splits(x, a, y, b) == FlattenSeq(Spliced(x, a, y, b)) = FlattenSeq(x) \o FlattenSeq(y)

\* Flattening a list of lists that was cut in two.
LEMMA FlattenSplit ==
    ASSUME NEW S, NEW a \in Nat, NEW b \in Nat, NEW x, NEW y,
           PartsOf(S, a, x), PartsOf(S, b, y)
    PROVE  Splits(x, a, y, b)
<1>13. PICK z : z = Spliced(x, a, y, b)  OBVIOUS
<1>14. z = [i \in 1 .. a + b |-> IF i <= a THEN x[i] ELSE y[i - a]]  BY <1>13 DEF Spliced
<1>15. x \in [1 .. a -> Seq(S)] /\ y \in [1 .. b -> Seq(S)]  BY DEF PartsOf
<1>1. PICK n \in Nat : n = a + b  OBVIOUS
<1>2. z \in [1 .. n -> Seq(S)]
  <2>1. ASSUME NEW i \in 1 .. n
        PROVE  z[i] \in Seq(S)
    <3>1. CASE i <= a
      <4>1. i \in 1 .. a  BY <3>1
      <4>2. QED  BY <1>1, <1>14, <1>15, <3>1, <4>1
    <3>2. CASE i > a
      <4>1. i - a \in 1 .. b  BY <1>1, <3>2
      <4>2. z[i] = y[i - a]  BY <1>1, <1>14, <3>2
      <4>3. QED  BY <1>15, <4>1, <4>2
    <3>3. QED  BY <3>1, <3>2
  <2>2. z = [i \in 1 .. n |-> z[i]]  BY <1>1, <1>14
  <2>3. QED  BY <2>1, <2>2
<1>3. PICK f : FlattenValues(f, S, a, x)  BY <1>15, FlattenEquation
<1>4. PICK g : FlattenValues(g, S, b, y)  BY <1>15, FlattenEquation
<1>5. PICK h : FlattenValues(h, S, n, z)  BY <1>2, FlattenEquation
<1>6. /\ f \in [0 .. a -> Seq(S)] /\ f[0] = <<>> /\ f[a] = FlattenSeq(x)
      /\ \A i \in 1 .. a : f[i] = f[i - 1] \o x[i]
  BY <1>3 DEF FlattenValues
<1>7. /\ g \in [0 .. b -> Seq(S)] /\ g[0] = <<>> /\ g[b] = FlattenSeq(y)
      /\ \A i \in 1 .. b : g[i] = g[i - 1] \o y[i]
  BY <1>4 DEF FlattenValues
<1>8. /\ h \in [0 .. n -> Seq(S)] /\ h[0] = <<>> /\ h[n] = FlattenSeq(z)
      /\ \A i \in 1 .. n : h[i] = h[i - 1] \o z[i]
  BY <1>5 DEF FlattenValues
<1>9. h[a] = f[a]
  <2> DEFINE Good == {m \in Nat : m <= a => h[m] = f[m]}
  <2>1. 0 \in Good  BY <1>6, <1>8
  <2>2. ASSUME NEW m \in Nat, m \in Good
        PROVE  m + 1 \in Good
    <3> SUFFICES ASSUME m + 1 <= a
                 PROVE  h[m + 1] = f[m + 1]
      OBVIOUS
    <3>1. m + 1 \in 1 .. a /\ m + 1 \in 1 .. n /\ (m + 1) - 1 = m  BY <1>1
    <3>2. h[m] = f[m]  BY <2>2
    <3>3. z[m + 1] = x[m + 1]  BY <1>1, <1>14, <3>1
    <3>4. h[m + 1] = h[m] \o z[m + 1]  BY <1>8, <3>1
    <3>5. f[m + 1] = f[m] \o x[m + 1]  BY <1>6, <3>1
    <3>6. QED  BY <3>2, <3>3, <3>4, <3>5
  <2>3. a \in Good
    <3> HIDE DEF Good
    <3>1. QED  BY <2>1, <2>2, SetInduction
  <2>4. QED  BY <2>3
<1>10. PICK first \in Seq(S) : first = f[a]
  <2>1. a \in 0 .. a  OBVIOUS
  <2>2. QED  BY <1>6, <2>1
<1>11. h[a + b] = first \o g[b]
  <2> DEFINE Good == {m \in Nat : m <= b => h[a + m] = first \o g[m]}
  <2>1. 0 \in Good
    <3>1. first \o <<>> = first  OBVIOUS
    <3>2. h[a + 0] = first \o g[0]  BY <1>7, <1>9, <1>10, <3>1
    <3>3. QED  BY <3>2
  <2>2. ASSUME NEW m \in Nat, m \in Good
        PROVE  m + 1 \in Good
    <3> SUFFICES ASSUME m + 1 <= b
                 PROVE  h[a + (m + 1)] = first \o g[m + 1]
      OBVIOUS
    <3>1. m + 1 \in 1 .. b /\ (m + 1) - 1 = m /\ m \in 0 .. b  OBVIOUS
    <3>2. PICK c \in 1 .. n : c = a + (m + 1)  BY <1>1
    <3>3. c - 1 = a + m /\ ~(c <= a) /\ c - a = m + 1  BY <3>2
    <3>4. h[a + m] = first \o g[m]  BY <2>2
    <3>5. z[c] = y[m + 1]  BY <1>1, <1>14, <3>3
    <3>6. h[c] = h[a + m] \o z[c]  BY <1>8, <3>3
    <3>7. g[m + 1] = g[m] \o y[m + 1]  BY <1>7, <3>1
    <3>8. PICK u \in Seq(S) : u = g[m]  BY <1>7, <3>1
    <3>9. PICK v \in Seq(S) : v = y[m + 1]  BY <1>15, <3>1
    <3>10. (first \o u) \o v = first \o (u \o v)  OBVIOUS
    <3>11. QED  BY <3>2, <3>4, <3>5, <3>6, <3>7, <3>8, <3>9, <3>10
  <2>3. b \in Good
    <3> HIDE DEF Good
    <3>1. QED  BY <2>1, <2>2, SetInduction
  <2>4. QED  BY <2>3
<1>12. FlattenSeq(z) = FlattenSeq(x) \o FlattenSeq(y)
  BY <1>1, <1>6, <1>7, <1>8, <1>10, <1>11
<1>16. QED  BY <1>12, <1>13 DEF Splits

\* Parts with nothing in them.
LEMMA FlattenEmpties ==
    ASSUME NEW n \in Nat, NEW x, x = [i \in 1 .. n |-> <<>>]
    PROVE  FlattenSeq(x) = <<>>
<1>1. PICK S : S = {1}  OBVIOUS
<1>2. x \in [1 .. n -> Seq(S)]
  <2>1. <<>> \in Seq(S)  OBVIOUS
  <2>2. QED  BY <2>1
<1>3. PICK f : FlattenValues(f, S, n, x)  BY <1>2, FlattenEquation
<1>4. /\ f[0] = <<>> /\ f[n] = FlattenSeq(x)
      /\ \A i \in 1 .. n : f[i] = f[i - 1] \o x[i]
  BY <1>3 DEF FlattenValues
<1> DEFINE Good == {m \in Nat : m <= n => f[m] = <<>>}
<1>5. 0 \in Good  BY <1>4
<1>6. ASSUME NEW m \in Nat, m \in Good
      PROVE  m + 1 \in Good
  <2> SUFFICES ASSUME m + 1 <= n
               PROVE  f[m + 1] = <<>>
    OBVIOUS
  <2>1. m + 1 \in 1 .. n /\ (m + 1) - 1 = m  OBVIOUS
  <2>2. f[m] = <<>> /\ x[m + 1] = <<>>  BY <1>6, <2>1
  <2>3. f[m + 1] = <<>> \o <<>>  BY <1>4, <2>1, <2>2
  <2>4. <<>> \o <<>> = <<>>  OBVIOUS
  <2>5. QED  BY <2>3, <2>4
<1>7. n \in Good
  <2> HIDE DEF Good
  <2>1. QED  BY <1>5, <1>6, SetInduction
<1>8. QED  BY <1>4, <1>7

\* A single part.
LEMMA FlattenOne ==
    ASSUME NEW S, NEW x \in [1 .. 1 -> Seq(S)]
    PROVE  FlattenSeq(x) = x[1]
<1>1. PICK n \in Nat : n = 1  OBVIOUS
<1>2. x \in [1 .. n -> Seq(S)]  BY <1>1
<1>3. PICK f : FlattenValues(f, S, n, x)  BY <1>2, FlattenEquation
<1>7. 1 \in 1 .. n /\ 1 - 1 = 0  BY <1>1
<1>4. f[0] = <<>> /\ f[1] = f[0] \o x[1] /\ f[1] = FlattenSeq(x)
  <2>1. f[n] = FlattenSeq(x) /\ f[0] = <<>>  BY <1>3 DEF FlattenValues
  <2>2. f[1] = f[1 - 1] \o x[1]  BY <1>3, <1>7 DEF FlattenValues
  <2>3. QED  BY <1>1, <1>7, <2>1, <2>2
<1>5. PICK t \in Seq(S) : t = x[1]  OBVIOUS
<1>6. <<>> \o t = t  OBVIOUS
<1>8. QED  BY <1>4, <1>5, <1>6

\* The pairs of two lists, joined one by one or list by list, are as many.
JoinedParts(x, y, n) == [p \in 1 .. n |-> x[p] \o y[p]]

\* Taking lists in another order changes no length.
LEMMA FlattenLengths ==
    ASSUME NEW S, NEW n \in Nat, NEW x, NEW y, PartsOf(S, n, x), PartsOf(S, n, y)
    PROVE  /\ FlattenSeq(JoinedParts(x, y, n)) \in Seq(S)
           /\ FlattenSeq(x) \o FlattenSeq(y) \in Seq(S)
           /\ Len(FlattenSeq(JoinedParts(x, y, n))) = Len(FlattenSeq(x) \o FlattenSeq(y))
<1>20. x \in [1 .. n -> Seq(S)] /\ y \in [1 .. n -> Seq(S)]  BY DEF PartsOf
<1>21. PICK z : z = JoinedParts(x, y, n)  OBVIOUS
<1>22. z = [p \in 1 .. n |-> x[p] \o y[p]]  BY <1>21 DEF JoinedParts
<1>1. z \in [1 .. n -> Seq(S)]
  <2>1. \A p \in 1 .. n : x[p] \o y[p] \in Seq(S)  BY <1>20
  <2>2. QED  BY <1>22, <2>1
<1>2. PICK f : FlattenValues(f, S, n, x)  BY <1>20, FlattenEquation
<1>3. PICK g : FlattenValues(g, S, n, y)  BY <1>20, FlattenEquation
<1>4. PICK h : FlattenValues(h, S, n, z)  BY <1>1, FlattenEquation
<1>5. /\ f \in [0 .. n -> Seq(S)] /\ f[0] = <<>> /\ f[n] = FlattenSeq(x)
      /\ \A i \in 1 .. n : f[i] = f[i - 1] \o x[i]
  BY <1>2 DEF FlattenValues
<1>6. /\ g \in [0 .. n -> Seq(S)] /\ g[0] = <<>> /\ g[n] = FlattenSeq(y)
      /\ \A i \in 1 .. n : g[i] = g[i - 1] \o y[i]
  BY <1>3 DEF FlattenValues
<1>7. /\ h \in [0 .. n -> Seq(S)] /\ h[0] = <<>> /\ h[n] = FlattenSeq(z)
      /\ \A i \in 1 .. n : h[i] = h[i - 1] \o z[i]
  BY <1>4 DEF FlattenValues
<1> DEFINE Kept(m) == Len(h[m]) = Len(f[m]) + Len(g[m])
           Good == {m \in Nat : m <= n => Kept(m)}
<1>8. 0 \in Good
  <2>1. Len(h[0]) = 0 /\ Len(f[0]) = 0 /\ Len(g[0]) = 0  BY <1>5, <1>6, <1>7
  <2>2. Kept(0)  BY <2>1
  <2> HIDE DEF Kept
  <2>3. QED  BY <2>2
<1>9. ASSUME NEW m \in Nat, m \in Good
      PROVE  m + 1 \in Good
  <2> HIDE DEF Kept
  <2> SUFFICES ASSUME m + 1 <= n
               PROVE  Kept(m + 1)
    OBVIOUS
  <2>11. Kept(m)  BY <1>9
  <2> USE DEF Kept
  <2>1. m \in 0 .. n /\ m + 1 \in 1 .. n /\ (m + 1) - 1 = m  OBVIOUS
  <2>2. PICK u \in Seq(S) : u = f[m]  BY <1>5, <2>1
  <2>3. PICK v \in Seq(S) : v = g[m]  BY <1>6, <2>1
  <2>4. PICK w \in Seq(S) : w = h[m]  BY <1>7, <2>1
  <2>5. PICK a \in Seq(S) : a = x[m + 1]  BY <1>20, <2>1
  <2>6. PICK b \in Seq(S) : b = y[m + 1]  BY <1>20, <2>1
  <2>7. Len(w) = Len(u) + Len(v)  BY <2>11, <2>2, <2>3, <2>4
  <2>12. f[m + 1] = u \o a  BY <1>5, <2>1, <2>2, <2>5
  <2>13. g[m + 1] = v \o b  BY <1>6, <2>1, <2>3, <2>6
  <2>14. z[m + 1] = a \o b  BY <1>22, <2>1, <2>5, <2>6
  <2>15. h[m + 1] = w \o (a \o b)  BY <1>7, <2>1, <2>4, <2>14
  <2>8. f[m + 1] = u \o a /\ g[m + 1] = v \o b /\ h[m + 1] = w \o (a \o b)
    BY <2>12, <2>13, <2>15
  <2>9. /\ Len(u \o a) = Len(u) + Len(a) /\ Len(v \o b) = Len(v) + Len(b)
        /\ Len(w \o (a \o b)) = Len(w) + (Len(a) + Len(b))
    OBVIOUS
  <2>10. QED  BY <2>7, <2>8, <2>9
<1>10. Kept(n)
  <2> HIDE DEF Kept, Good
  <2>1. n \in Good  BY <1>8, <1>9, SetInduction
  <2>2. QED  BY <2>1 DEF Good
<1>11. n \in 0 .. n  OBVIOUS
<1>12. PICK u \in Seq(S) : u = f[n]  BY <1>5, <1>11
<1>13. PICK v \in Seq(S) : v = g[n]  BY <1>6, <1>11
<1>14. PICK w \in Seq(S) : w = h[n]  BY <1>7, <1>11
<1>15. Len(w) = Len(u) + Len(v)  BY <1>10, <1>12, <1>13, <1>14
<1>16. u \o v \in Seq(S) /\ Len(u \o v) = Len(u) + Len(v)  OBVIOUS
<1>17. QED  BY <1>21, <1>5, <1>6, <1>7, <1>12, <1>13, <1>14, <1>15, <1>16

\* What both sides do for the instances of one proof: the committed ones, then
\* the values of the plain ones.
CommittedItems(k, p) == [c \in 1 .. k.committed |-> Common(Instance(p, c))]
PlainItems(k, p) == Each(k.plain, LAMBDA c : InstanceItems(k, p, k.committed + c))

Absorptions == {"common"} \X Inputs

\* Marks inputs are of one kind, and twins when they are the same.
LEMMA AbsorptionsPair ==
    ASSUME NEW k, NEW a \in Seq(Absorptions), NEW b \in Seq(Absorptions)
    PROVE  /\ Len(a) = Len(b) => Pairs(Alike, a, b)
           /\ a = b => Pairs(Twins(k), a, b)
<1>1. Absorptions \subseteq Moves  BY DEF Absorptions, Moves
<1>2. a \in Seq(Moves) /\ b \in Seq(Moves)  BY <1>1
<1>3. \A x, y \in Absorptions : <<x, y>> \in Alike  BY <1>1 DEF Alike, Absorptions
<1>4. \A x \in Absorptions : <<x, x>> \in Twins(k)
  <2>1. ASSUME NEW x \in Absorptions
        PROVE  <<x, x>> \in Twins(k)
    <3>1. x[1] = "common"  BY DEF Absorptions
    <3>2. <<x, x>> \in Alike  BY <1>3
    <3>3. QED  BY <3>1, <3>2 DEF Twins
  <2>2. QED  BY <2>1
<1>5. ASSUME Len(a) = Len(b)
      PROVE  Pairs(Alike, a, b)
  <2>1. \A i \in 1 .. Len(a) : a[i] \in Absorptions /\ b[i] \in Absorptions  BY <1>5
  <2>2. \A i \in 1 .. Len(a) : <<a[i], b[i]>> \in Alike  BY <1>3, <2>1
  <2>3. QED  BY <1>2, <1>5, <2>2 DEF Pairs
<1>6. ASSUME a = b
      PROVE  Pairs(Twins(k), a, b)
  <2>1. \A i \in 1 .. Len(a) : a[i] \in Absorptions  OBVIOUS
  <2>2. \A i \in 1 .. Len(a) : <<a[i], b[i]>> \in Twins(k)  BY <1>4, <1>6, <2>1
  <2>3. QED  BY <1>2, <1>6, <2>2 DEF Pairs
<1>7. QED  BY <1>5, <1>6

\* What is absorbed of an instance column.
LEMMA InstanceItemsType ==
    ASSUME NEW k \in Keys, NEW p \in Nat, NEW c \in Nat
    PROVE  /\ Common(Instance(p, c)) \in Absorptions
           /\ InstanceItems(k, p, c) \in Seq(Absorptions)
<1>1. /\ Instance(p, c) \in Inputs /\ <<"len", p, c>> \in Inputs
      /\ \A r \in Nat : <<"value", p, c, r>> \in Inputs
  BY SomeInputs
<1>2. PICK rows \in Nat : rows = k.len  BY KeySizes
<1>3. Common(Instance(p, c)) \in Absorptions /\ Common(<<"len", p, c>>) \in Absorptions
  BY <1>1 DEF Common, Absorptions
<1>4. ASSUME NEW r \in 1 .. rows
      PROVE  Common(<<"value", p, c, r>>) \in Absorptions
  <2>1. <<"value", p, c, r>> \in Inputs  BY <1>1
  <2>2. QED  BY <2>1 DEF Common, Absorptions
<1>5. <<Common(<<"len", p, c>>)>> \in Seq(Absorptions)  BY <1>3
<1>6. [r \in 1 .. rows |-> Common(<<"value", p, c, r>>)] \in Seq(Absorptions)  BY <1>4
<1>7. \A a, b \in Seq(Absorptions) : a \o b \in Seq(Absorptions)  OBVIOUS
<1>8. InstanceItems(k, p, c)
          = <<Common(<<"len", p, c>>)>> \o [r \in 1 .. rows |-> Common(<<"value", p, c, r>>)]
  BY <1>2 DEF InstanceItems
<1>9. QED  BY <1>3, <1>5, <1>6, <1>7, <1>8

\* What is absorbed of the instances of one proof.
LEMMA OfOneProofType ==
    ASSUME NEW k \in Keys, NEW plain \in Nat, plain = k.plain, NEW p \in Nat
    PROVE  /\ CommittedItems(k, p) \in Seq(Absorptions)
           /\ PlainItems(k, p) \in Seq(Absorptions)
<1>1. PICK t \in Nat : t = k.committed  BY KeySizes
<1>2. CommittedItems(k, p) \in Seq(Absorptions)
  <2>1. ASSUME NEW c \in 1 .. t
        PROVE  Common(Instance(p, c)) \in Absorptions
    <3>1. c \in Nat  OBVIOUS
    <3>2. QED  BY <3>1, InstanceItemsType
  <2>2. CommittedItems(k, p) = [c \in 1 .. t |-> Common(Instance(p, c))]
    BY <1>1 DEF CommittedItems
  <2>3. QED  BY <2>1, <2>2
<1>3. PICK S : S = Absorptions  OBVIOUS
<1>4. PICK parts : parts = [c \in 1 .. plain |-> InstanceItems(k, p, t + c)]  OBVIOUS
<1>5. ASSUME NEW c \in 1 .. plain
      PROVE  parts[c] \in Seq(S)
  <2>1. PICK d \in Nat : d = t + c  OBVIOUS
  <2>2. InstanceItems(k, p, d) \in Seq(Absorptions)  BY InstanceItemsType
  <2>3. QED  BY <1>3, <1>4, <2>1, <2>2
<1>6. parts \in [1 .. plain -> Seq(S)]  BY <1>4, <1>5
<1>7. FlattenSeq(parts) \in Seq(S)  BY <1>6, FlattenType
<1>8. PlainItems(k, p) = FlattenSeq(parts)  BY <1>1, <1>4 DEF PlainItems, Each
<1>9. QED  BY <1>2, <1>3, <1>7, <1>8

\* What the prover does for every instance column of a proof.
ColumnsOf(k, p, t, plain) ==
    [c \in 1 .. t + plain |->
        IF c <= t THEN <<Common(Instance(p, c))>> ELSE InstanceItems(k, p, c)]

\* The prover goes through the instances of a proof in the order of the columns.
LEMMA OfOneProofAre ==
    ASSUME NEW k \in Keys, NEW t \in Nat, t = k.committed, NEW plain \in Nat, plain = k.plain,
           NEW p \in Nat
    PROVE  FlattenSeq(ColumnsOf(k, p, t, plain)) = CommittedItems(k, p) \o PlainItems(k, p)
<1>20. PICK z : z = ColumnsOf(k, p, t, plain)  OBVIOUS
<1>21. z = [c \in 1 .. t + plain |->
               IF c <= t THEN <<Common(Instance(p, c))>> ELSE InstanceItems(k, p, c)]
  BY <1>20 DEF ColumnsOf
<1>1. PICK S : S = Absorptions  OBVIOUS
<1>2. PICK f : f = [c \in 1 .. t |-> Common(Instance(p, c))]  OBVIOUS
<1>3. PICK x : x = [c \in 1 .. t |-> <<f[c]>>]  OBVIOUS
<1>4. PICK y : y = [c \in 1 .. plain |-> InstanceItems(k, p, t + c)]  OBVIOUS
<1>5. ASSUME NEW c \in 1 .. t
      PROVE  f[c] \in S
  <2>1. c \in Nat  OBVIOUS
  <2>2. Common(Instance(p, c)) \in Absorptions  BY <2>1, InstanceItemsType
  <2>3. QED  BY <1>1, <1>2, <2>2
<1>6. f \in [1 .. t -> S]  BY <1>2, <1>5
<1>7. FlattenSeq(x) = f  BY <1>3, <1>6, FlattenSingles
<1>8. x \in [1 .. t -> Seq(S)]
  <2>1. \A c \in 1 .. t : <<f[c]>> \in Seq(S)  BY <1>5
  <2>2. QED  BY <1>3, <2>1
<1>9. y \in [1 .. plain -> Seq(S)]
  <2>1. ASSUME NEW c \in 1 .. plain
        PROVE  y[c] \in Seq(S)
    <3>1. PICK d \in Nat : d = t + c  OBVIOUS
    <3>2. InstanceItems(k, p, d) \in Seq(Absorptions)  BY InstanceItemsType
    <3>3. QED  BY <1>1, <1>4, <3>1, <3>2
  <2>2. QED  BY <1>4, <2>1
<1>10. z = [i \in 1 .. t + plain |-> IF i <= t THEN x[i] ELSE y[i - t]]
  <2>1. PICK n \in Nat : n = t + plain  OBVIOUS
  <2>2. ASSUME NEW i \in 1 .. n
        PROVE  z[i] = (IF i <= t THEN x[i] ELSE y[i - t])
    <3>1. CASE i <= t
      <4>1. i \in 1 .. t  BY <3>1
      <4>2. x[i] = <<Common(Instance(p, i))>>  BY <1>2, <1>3, <4>1
      <4>3. z[i] = <<Common(Instance(p, i))>>  BY <1>21, <2>1, <3>1
      <4>4. QED  BY <3>1, <4>2, <4>3
    <3>2. CASE i > t
      <4>1. i - t \in 1 .. plain /\ t + (i - t) = i /\ ~(i <= t)  BY <2>1, <3>2
      <4>2. y[i - t] = InstanceItems(k, p, i)  BY <1>4, <4>1
      <4>3. z[i] = InstanceItems(k, p, i)  BY <1>21, <2>1, <4>1
      <4>4. QED  BY <4>1, <4>2, <4>3
    <3>3. QED  BY <3>1, <3>2
  <2>3. z = [i \in 1 .. n |-> z[i]]  BY <1>21, <2>1
  <2>4. QED  BY <2>1, <2>2, <2>3
<1>11. FlattenSeq(z) = FlattenSeq(x) \o FlattenSeq(y)
  <2>1. z = Spliced(x, t, y, plain)  BY <1>10 DEF Spliced
  <2>2. PartsOf(S, t, x) /\ PartsOf(S, plain, y)  BY <1>8, <1>9 DEF PartsOf
  <2>3. Splits(x, t, y, plain)  BY <2>2, FlattenSplit
  <2>5. FlattenSeq(Spliced(x, t, y, plain)) = FlattenSeq(x) \o FlattenSeq(y)
    BY <2>3 DEF Splits
  <2>4. QED  BY <2>1, <2>5
<1>12. CommittedItems(k, p) = f  BY <1>2 DEF CommittedItems
<1>13. PlainItems(k, p) = FlattenSeq(y)  BY <1>4 DEF PlainItems, Each
<1>14. QED  BY <1>7, <1>11, <1>12, <1>13, <1>20

\* Both sides go through the instances in one order: one proof is in the
\* transcript, or no instance is committed, or every instance is.  What is left
\* out are the circuits of the finding on the order of the instances.
OneOrder(k) == k.proofs <= 1 \/ k.committed = 0 \/ k.plain = 0

\* The instances: always as many on both sides, the same under OneOrder.
LEMMA InstancesPair ==
    ASSUME NEW k \in Keys, ~VerifierRefuses(k)
    PROVE  /\ Pairs(Alike, ComputeInstances(k), AbsorbInstances(k))
           /\ OneOrder(k) => Pairs(Twins(k), ComputeInstances(k), AbsorbInstances(k))
<1>1. PICK n \in Nat : n = k.proofs  BY KeySizes
<1>2. PICK t \in Nat : t = k.committed  BY KeySizes
<1>3. PICK plain \in Nat : plain = k.plain  BY KeysAssumption
<1>4. n # 0 /\ k.cs.num_instance_columns = t + plain
  BY <1>1, <1>2, <1>3 DEF VerifierRefuses
<1>5. PICK S : S = Absorptions  OBVIOUS
<1>6. PICK x : x = [p \in 1 .. n |-> CommittedItems(k, p)]  OBVIOUS
<1>7. PICK y : y = [p \in 1 .. n |-> PlainItems(k, p)]  OBVIOUS
<1>8. PICK z : z = [p \in 1 .. n |-> x[p] \o y[p]]  OBVIOUS
<1>9. ComputeInstances(k) = FlattenSeq(z)
  <2>1. ComputeInstances(k)
            = FlattenSeq([p \in 1 .. n |-> FlattenSeq(ColumnsOf(k, p, t, plain))])
    BY <1>1, <1>2, <1>4 DEF ComputeInstances, Each, ColumnsOf
  <2>2. ASSUME NEW p \in 1 .. n
        PROVE  FlattenSeq(ColumnsOf(k, p, t, plain)) = x[p] \o y[p]
    <3>1. p \in Nat  OBVIOUS
    <3>3. FlattenSeq(ColumnsOf(k, p, t, plain)) = CommittedItems(k, p) \o PlainItems(k, p)
      BY <1>2, <1>3, <3>1, OfOneProofAre
    <3>4. QED  BY <1>6, <1>7, <3>3
  <2>3. QED  BY <1>8, <2>1, <2>2
<1>10. AbsorbInstances(k) = FlattenSeq(x) \o FlattenSeq(y)
  <2>1. /\ x = [p \in 1 .. n |-> [c \in 1 .. k.committed |-> Common(Instance(p, c))]]
        /\ y = [p \in 1 .. n |-> FlattenSeq([c \in 1 .. k.plain |->
                   <<Common(<<"len", p, k.committed + c>>)>>
                   \o [r \in 1 .. k.len |-> Common(<<"value", p, k.committed + c, r>>)]])]
    BY <1>6, <1>7 DEF CommittedItems, PlainItems, Each, InstanceItems
  <2>2. QED  BY <1>1, <2>1 DEF AbsorbInstances, Each
<1>11. x \in [1 .. n -> Seq(S)] /\ y \in [1 .. n -> Seq(S)]
  <2>1. ASSUME NEW p \in 1 .. n
        PROVE  CommittedItems(k, p) \in Seq(S) /\ PlainItems(k, p) \in Seq(S)
    <3>1. p \in Nat  OBVIOUS
    <3>2. QED  BY <1>3, <1>5, <3>1, OfOneProofType
  <2>2. QED  BY <1>6, <1>7, <2>1
<1>12. PICK a : a = FlattenSeq(z)  OBVIOUS
<1>13. PICK b : b = FlattenSeq(x) \o FlattenSeq(y)  OBVIOUS
<1>14. a \in Seq(S) /\ b \in Seq(S) /\ Len(a) = Len(b)
  <2>1. PartsOf(S, n, x) /\ PartsOf(S, n, y)  BY <1>11 DEF PartsOf
  <2>2. z = JoinedParts(x, y, n)  BY <1>8 DEF JoinedParts
  <2>3. /\ FlattenSeq(JoinedParts(x, y, n)) \in Seq(S)
        /\ FlattenSeq(x) \o FlattenSeq(y) \in Seq(S)
        /\ Len(FlattenSeq(JoinedParts(x, y, n))) = Len(FlattenSeq(x) \o FlattenSeq(y))
    BY <2>1, FlattenLengths
  <2>4. QED  BY <1>12, <1>13, <2>2, <2>3
<1>15. Pairs(Alike, a, b) /\ (a = b => Pairs(Twins(k), a, b))
  BY <1>5, <1>14, AbsorptionsPair
<1>16. ASSUME OneOrder(k)
       PROVE  a = b
  <2>1. CASE n <= 1
    <3>1. n = 1  BY <1>4, <2>1
    <3>2. FlattenSeq(x) = x[1] /\ FlattenSeq(y) = y[1]
      BY <1>11, <3>1, FlattenOne
    <3>3. z \in [1 .. 1 -> Seq(S)]
      <4>1. x[1] \in Seq(S) /\ y[1] \in Seq(S)  BY <1>11, <3>1
      <4>2. x[1] \o y[1] \in Seq(S)  BY <4>1
      <4>3. z = [p \in 1 .. 1 |-> x[p] \o y[p]]  BY <1>8, <3>1
      <4>4. \A p \in 1 .. 1 : p = 1  OBVIOUS
      <4>5. QED  BY <4>2, <4>3, <4>4
    <3>4. FlattenSeq(z) = z[1]  BY <3>3, FlattenOne
    <3>5. z[1] = x[1] \o y[1]
      <4>1. 1 \in 1 .. n  BY <3>1
      <4>2. QED  BY <1>8, <4>1
    <3>6. QED  BY <1>12, <1>13, <3>2, <3>4, <3>5
  <2>2. CASE t = 0
    <3>1. ASSUME NEW p \in 1 .. n
          PROVE  x[p] = <<>>
      BY <1>2, <1>6, <2>2 DEF CommittedItems
    <3>2. x = [p \in 1 .. n |-> <<>>]  BY <1>6, <3>1
    <3>3. FlattenSeq(x) = <<>>  BY <3>2, FlattenEmpties
    <3>4. ASSUME NEW p \in 1 .. n
          PROVE  x[p] \o y[p] = y[p]
      <4>1. PICK u \in Seq(S) : u = y[p]  BY <1>11
      <4>2. <<>> \o u = u  OBVIOUS
      <4>3. QED  BY <3>1, <4>1, <4>2
    <3>5. z = y  BY <1>7, <1>8, <3>4
    <3>6. PICK u \in Seq(S) : u = FlattenSeq(y)  BY <1>11, FlattenType
    <3>7. <<>> \o u = u  OBVIOUS
    <3>8. QED  BY <1>12, <1>13, <3>3, <3>5, <3>6, <3>7
  <2>3. CASE plain = 0
    <3>1. ASSUME NEW p \in 1 .. n
          PROVE  y[p] = <<>>
      <4>1. PICK parts : parts = [c \in 1 .. plain |-> InstanceItems(k, p, k.committed + c)]
        OBVIOUS
      <4>2. parts = [c \in 1 .. plain |-> <<>>]  BY <2>3, <4>1
      <4>3. FlattenSeq(parts) = <<>>  BY <4>2, FlattenEmpties
      <4>4. y[p] = FlattenSeq(parts)  BY <1>3, <1>7, <4>1 DEF PlainItems, Each
      <4>5. QED  BY <4>3, <4>4
    <3>2. y = [p \in 1 .. n |-> <<>>]  BY <1>7, <3>1
    <3>3. FlattenSeq(y) = <<>>  BY <3>2, FlattenEmpties
    <3>4. ASSUME NEW p \in 1 .. n
          PROVE  x[p] \o y[p] = x[p]
      <4>1. PICK u \in Seq(S) : u = x[p]  BY <1>11
      <4>2. u \o <<>> = u  OBVIOUS
      <4>3. QED  BY <3>1, <4>1, <4>2
    <3>5. z = x  BY <1>6, <1>8, <3>4
    <3>6. PICK u \in Seq(S) : u = FlattenSeq(x)  BY <1>11, FlattenType
    <3>7. u \o <<>> = u  OBVIOUS
    <3>8. QED  BY <1>12, <1>13, <3>3, <3>5, <3>6, <3>7
  <2>4. QED  BY <1>1, <1>2, <1>3, <1>16, <2>1, <2>2, <2>3 DEF OneOrder
<1>17. QED  BY <1>9, <1>10, <1>12, <1>13, <1>15, <1>16

-----------------------------------------------------------------------------
(* What a list of operations carries, and in which order.                  *)

Carried == Inputs \cup Values \cup Slots \cup Names

\* The operations of a kind, counted one operation further.
LEMMA CountStep ==
    ASSUME NEW ops, NEW kind, NEW i \in Nat
    PROVE  /\ Count(ops, kind, 0) = 0 /\ Count(ops, kind, i) \in 0 .. i
           /\ Count(ops, kind, i + 1)
                  = IF ops[i + 1][1] = kind THEN Count(ops, kind, i) + 1 ELSE Count(ops, kind, i)
<1>1. PICK S : S = {j \in 1 .. i : ops[j][1] = kind}  OBVIOUS
<1>2. IsFiniteSet(1 .. i) /\ Cardinality(1 .. i) = i
  <2>1. 1 \in Int /\ i \in Int  OBVIOUS
  <2>2. IsFiniteSet(1 .. i) /\ Cardinality(1 .. i) = IF 1 > i THEN 0 ELSE i - 1 + 1
    BY <2>1, FS_Interval
  <2>3. QED  BY <2>2
<1>3. S \in SUBSET (1 .. i)  BY <1>1
<1>4. IsFiniteSet(S) /\ Cardinality(S) <= i  BY <1>2, <1>3, FS_Subset
<1>5. Cardinality(S) \in Nat  BY <1>4, FS_CardinalityType
<1>6. Count(ops, kind, i) = Cardinality(S)  BY <1>1 DEF Count
<1>7. Count(ops, kind, 0) = 0
  <2>1. {j \in 1 .. 0 : ops[j][1] = kind} = {}  OBVIOUS
  <2>2. QED  BY <2>1, FS_EmptySet DEF Count
<1>8. PICK T : T = {j \in 1 .. i + 1 : ops[j][1] = kind}  OBVIOUS
<1>9. Count(ops, kind, i + 1) = Cardinality(T)  BY <1>8 DEF Count
<1>10. CASE ops[i + 1][1] = kind
  <2>1. T = S \cup {i + 1} /\ i + 1 \notin S  BY <1>1, <1>8, <1>10
  <2>2. Cardinality(S \cup {i + 1}) = IF i + 1 \in S THEN Cardinality(S) ELSE Cardinality(S) + 1
    BY <1>4, FS_AddElement
  <2>3. QED  BY <1>4, <1>5, <1>6, <1>7, <1>9, <1>10, <2>1, <2>2
<1>11. CASE ops[i + 1][1] # kind
  <2>1. T = S  BY <1>1, <1>8, <1>11
  <2>2. QED  BY <1>4, <1>5, <1>6, <1>7, <1>9, <1>11, <2>1
<1>12. QED  BY <1>10, <1>11

CountsOn(ops, kind, i, j) ==
    Count(ops, kind, j)
        = IF ops[j][1] = kind THEN Count(ops, kind, i) + 1 ELSE Count(ops, kind, i)

\* The same, under the name the later lemmas use.
LEMMA CountNext ==
    ASSUME NEW ops, NEW kind, NEW i \in Nat
    PROVE  CountsOn(ops, kind, i, i + 1)
BY CountStep DEF CountsOn

ItemValues(g, ops, kind) ==
    /\ g \in [0 .. Len(ops) -> Seq(Carried)] /\ g[0] = <<>>
    /\ g[Len(ops)] = Items(ops, kind)
    /\ \A i \in 1 .. Len(ops) :
          g[i] = IF ops[i][1] = kind THEN Append(g[i - 1], ops[i][2]) ELSE g[i - 1]

\* An operation is a kind and what it carries.
LEMMA MovesType ==
    ASSUME NEW op \in Moves
    PROVE  /\ op[1] \in {"common", "write", "read", "squeeze"} /\ op[2] \in Carried
           /\ op = <<op[1], op[2]>>
BY DEF Moves, Carried

\* The values of the operations of a kind, as a recursion over the operations.
LEMMA ItemsEquation ==
    ASSUME NEW ops \in Seq(Moves), NEW kind
    PROVE  \E g : ItemValues(g, ops, kind)
<1>1. PICK n \in Nat : n = Len(ops)  OBVIOUS
<1>2. PICK parts : parts = [i \in 1 .. n |-> IF ops[i][1] = kind THEN <<ops[i][2]>> ELSE <<>>]
  OBVIOUS
<1>3. PICK S : S = Carried  OBVIOUS
<1>4. ASSUME NEW i \in 1 .. n
      PROVE  ops[i][2] \in S
  <2>1. ops[i] \in Moves  BY <1>1
  <2>2. QED  BY <1>3, <2>1, MovesType
<1>5. parts \in [1 .. n -> Seq(S)]
  <2>1. ASSUME NEW i \in 1 .. n
        PROVE  parts[i] \in Seq(S)
    <3>1. <<ops[i][2]>> \in Seq(S)  BY <1>4
    <3>2. <<>> \in Seq(S)  OBVIOUS
    <3>3. QED  BY <1>2, <3>1, <3>2
  <2>2. QED  BY <1>2, <2>1
<1>6. PICK g : FlattenValues(g, S, n, parts)  BY <1>5, FlattenEquation
<1>7. /\ g \in [0 .. n -> Seq(S)] /\ g[0] = <<>> /\ g[n] = FlattenSeq(parts)
      /\ \A i \in 1 .. n : g[i] = g[i - 1] \o parts[i]
  BY <1>6 DEF FlattenValues
<1>8. Items(ops, kind) = FlattenSeq(parts)  BY <1>1, <1>2 DEF Items, Each
<1>9. ASSUME NEW i \in 1 .. n
      PROVE  g[i] = IF ops[i][1] = kind THEN Append(g[i - 1], ops[i][2]) ELSE g[i - 1]
  <2>1. i - 1 \in 0 .. n  OBVIOUS
  <2>2. PICK u \in Seq(S) : u = g[i - 1]  BY <1>7, <2>1
  <2>3. PICK x \in S : x = ops[i][2]  BY <1>4
  <2>4. Append(u, x) = u \o <<x>> /\ u \o <<>> = u  OBVIOUS
  <2>5. g[i] = u \o parts[i]  BY <1>7, <2>2
  <2>6. parts[i] = IF ops[i][1] = kind THEN <<x>> ELSE <<>>  BY <1>2, <2>3
  <2>7. QED  BY <2>2, <2>3, <2>4, <2>5, <2>6
<1>10. QED  BY <1>1, <1>3, <1>7, <1>8, <1>9 DEF ItemValues

\* The items of a kind, numbered by the count of the operations of the kind.
ItemsAre(ops, kind) ==
    /\ Items(ops, kind) \in Seq(Carried)
    /\ Len(Items(ops, kind)) = Count(ops, kind, Len(ops))
    /\ \A i \in 1 .. Len(ops) : ops[i][1] = kind =>
          /\ Count(ops, kind, i) \in 1 .. Len(Items(ops, kind))
          /\ Items(ops, kind)[Count(ops, kind, i)] = ops[i][2]
    /\ \A j \in 1 .. Len(Items(ops, kind)) : \E i \in 1 .. Len(ops) :
          ops[i][1] = kind /\ Count(ops, kind, i) = j /\ ops[i][2] = Items(ops, kind)[j]

\* The value of an operation of a kind is found at the place it was counted to.
LEMMA ItemsExact ==
    ASSUME NEW ops \in Seq(Moves), NEW kind
    PROVE  ItemsAre(ops, kind)
<1>1. PICK n \in Nat : n = Len(ops)  OBVIOUS
<1>2. PICK g : ItemValues(g, ops, kind)  BY ItemsEquation
<1>3. /\ g \in [0 .. n -> Seq(Carried)] /\ g[0] = <<>> /\ g[n] = Items(ops, kind)
      /\ \A i \in 1 .. n :
            g[i] = IF ops[i][1] = kind THEN Append(g[i - 1], ops[i][2]) ELSE g[i - 1]
  BY <1>1, <1>2 DEF ItemValues
<1>4. ASSUME NEW i \in 1 .. n
      PROVE  ops[i][2] \in Carried
  <2>1. ops[i] \in Moves  BY <1>1
  <2>2. QED  BY <2>1, MovesType
<1> DEFINE At(m) == \A i \in 1 .. m : ops[i][1] = kind =>
                        Count(ops, kind, i) \in 1 .. Len(g[m])
                        /\ g[m][Count(ops, kind, i)] = ops[i][2]
           From(m) == \A j \in 1 .. Len(g[m]) : \E i \in 1 .. m :
                        ops[i][1] = kind /\ Count(ops, kind, i) = j /\ ops[i][2] = g[m][j]
           Kept(m) == Len(g[m]) = Count(ops, kind, m) /\ At(m) /\ From(m)
           Good == {m \in Nat : m <= n => Kept(m)}
<1>5. 0 \in Good
  <2>1. Count(ops, kind, 0) = 0  BY CountStep
  <2>2. Len(g[0]) = 0  BY <1>3
  <2>3. At(0) /\ From(0)  BY <2>2
  <2>4. Kept(0)  BY <2>1, <2>2, <2>3
  <2> HIDE DEF Kept
  <2>5. QED  BY <2>4
<1>6. ASSUME NEW m \in Nat, m \in Good
      PROVE  m + 1 \in Good
  <2> HIDE DEF Kept
  <2> SUFFICES ASSUME m + 1 <= n
               PROVE  Kept(m + 1)
    OBVIOUS
  <2>1. Kept(m)  BY <1>6
  <2> USE DEF Kept
  <2>2. m \in 0 .. n /\ m + 1 \in 1 .. n /\ (m + 1) - 1 = m  OBVIOUS
  <2>3. PICK u \in Seq(Carried) : u = g[m]  BY <1>3, <2>2
  <2>4. PICK v : v = g[m + 1]  OBVIOUS
  <2>5. PICK M \in Nat : M = m + 1  OBVIOUS
  <2>6. PICK c \in Nat : c = Count(ops, kind, m)  BY CountStep
  <2>7. Len(u) = c  BY <2>1, <2>3, <2>6
  <2>8. \A i \in 1 .. m : ops[i][1] = kind =>
            Count(ops, kind, i) \in 1 .. c /\ u[Count(ops, kind, i)] = ops[i][2]
    BY <2>1, <2>3, <2>7
  <2>9. \A j \in 1 .. c : \E i \in 1 .. m :
            ops[i][1] = kind /\ Count(ops, kind, i) = j /\ ops[i][2] = u[j]
    BY <2>1, <2>3, <2>7
  <2>10. \A i \in 1 .. M : i \in 1 .. m \/ i = M  BY <2>5
  <2>11. CASE ops[M][1] = kind
    <3>1. PICK x \in Carried : x = ops[M][2]  BY <1>4, <2>2, <2>5
    <3>2. v = Append(u, x)  BY <1>3, <2>2, <2>3, <2>4, <2>5, <2>11, <3>1
    <3>3. Len(v) = c + 1 /\ v[c + 1] = x /\ \A j \in 1 .. c : v[j] = u[j]
      BY <2>7, <3>2
    <3>4. Count(ops, kind, M) = c + 1  BY <2>5, <2>6, <2>11, CountStep
    <3>5. ASSUME NEW i \in 1 .. M, ops[i][1] = kind
          PROVE  Count(ops, kind, i) \in 1 .. Len(v) /\ v[Count(ops, kind, i)] = ops[i][2]
      <4>1. CASE i = M  BY <3>1, <3>3, <3>4, <4>1
      <4>2. CASE i \in 1 .. m
        <5>1. Count(ops, kind, i) \in 1 .. c /\ u[Count(ops, kind, i)] = ops[i][2]
          BY <2>8, <3>5, <4>2
        <5>2. QED  BY <3>3, <5>1
      <4>3. QED  BY <2>10, <4>1, <4>2
    <3>6. ASSUME NEW j \in 1 .. Len(v)
          PROVE  \E i \in 1 .. M :
                    ops[i][1] = kind /\ Count(ops, kind, i) = j /\ ops[i][2] = v[j]
      <4>1. CASE j = c + 1  BY <2>5, <2>11, <3>1, <3>3, <3>4, <4>1
      <4>2. CASE j \in 1 .. c
        <5>1. PICK i \in 1 .. m : ops[i][1] = kind /\ Count(ops, kind, i) = j /\ ops[i][2] = u[j]
          BY <2>9, <4>2
        <5>2. i \in 1 .. M /\ v[j] = u[j]  BY <2>5, <3>3, <4>2
        <5>3. QED  BY <5>1, <5>2
      <4>3. QED  BY <3>3, <4>1, <4>2
    <3>7. QED  BY <2>4, <2>5, <3>3, <3>4, <3>5, <3>6
  <2>12. CASE ops[M][1] # kind
    <3>1. v = u  BY <1>3, <2>2, <2>3, <2>4, <2>5, <2>12
    <3>2. Count(ops, kind, M) = c
      <4>1. Count(ops, kind, m + 1) = IF ops[m + 1][1] = kind THEN Count(ops, kind, m) + 1
                                      ELSE Count(ops, kind, m)
        <5>1. CountsOn(ops, kind, m, m + 1)  BY CountNext
        <5>2. QED  BY <5>1 DEF CountsOn
      <4>2. ops[m + 1][1] # kind  BY <2>5, <2>12
      <4>3. QED  BY <2>5, <2>6, <4>1, <4>2
    <3>3. ASSUME NEW i \in 1 .. M, ops[i][1] = kind
          PROVE  Count(ops, kind, i) \in 1 .. Len(v) /\ v[Count(ops, kind, i)] = ops[i][2]
      <4>1. i \in 1 .. m  BY <2>10, <2>12, <3>3
      <4>2. QED  BY <2>7, <2>8, <3>1, <3>3, <4>1
    <3>4. ASSUME NEW j \in 1 .. Len(v)
          PROVE  \E i \in 1 .. M :
                    ops[i][1] = kind /\ Count(ops, kind, i) = j /\ ops[i][2] = v[j]
      <4>1. PICK i \in 1 .. m : ops[i][1] = kind /\ Count(ops, kind, i) = j /\ ops[i][2] = u[j]
        BY <2>7, <2>9, <3>1
      <4>2. i \in 1 .. M  BY <2>5
      <4>3. QED  BY <3>1, <4>1, <4>2
    <3>5. QED  BY <2>4, <2>5, <2>7, <3>1, <3>2, <3>3, <3>4
  <2>13. QED  BY <2>11, <2>12
<1>7. Kept(n)
  <2> HIDE DEF Kept, Good
  <2>1. n \in Good  BY <1>5, <1>6, SetInduction
  <2>2. QED  BY <2>1 DEF Good
<1>8. g[n] \in Seq(Carried)
  <2>1. n \in 0 .. n  OBVIOUS
  <2>2. QED  BY <1>3, <2>1
<1>9. PICK items : items = Items(ops, kind)  OBVIOUS
<1>10. items = g[n]  BY <1>3, <1>9
<1>11. /\ items \in Seq(Carried) /\ Len(items) = Count(ops, kind, n)
       /\ \A i \in 1 .. n : ops[i][1] = kind =>
             Count(ops, kind, i) \in 1 .. Len(items) /\ items[Count(ops, kind, i)] = ops[i][2]
       /\ \A j \in 1 .. Len(items) : \E i \in 1 .. n :
             ops[i][1] = kind /\ Count(ops, kind, i) = j /\ ops[i][2] = items[j]
  BY <1>7, <1>8, <1>10
<1>12. QED  BY <1>1, <1>9, <1>11 DEF ItemsAre

\* The verifier has read as many values as the prover has written.
LEMMA CountAlike ==
    ASSUME NEW a, NEW b, Pairs(Alike, a, b), NEW i \in 0 .. Len(a)
    PROVE  Count(a, "write", i) = Count(b, "read", i)
<1>1. i \in Nat /\ Len(a) \in Nat  BY DEF Pairs
<1>2. ASSUME NEW j \in 1 .. i
      PROVE  a[j][1] = "write" <=> b[j][1] = "read"
  <2>1. j \in 1 .. Len(a)  BY <1>1
  <2>2. <<a[j], b[j]>> \in Alike  BY <2>1 DEF Pairs
  <2>3. QED  BY <2>2 DEF Alike
<1>3. {j \in 1 .. i : a[j][1] = "write"} = {j \in 1 .. i : b[j][1] = "read"}  BY <1>2
<1>4. QED  BY <1>3 DEF Count

\* Counting over a joined list.
LEMMA CountJoined ==
    ASSUME NEW a \in Seq(Moves), NEW b \in Seq(Moves), NEW kind
    PROVE  /\ \A i \in 0 .. Len(a) : Count(a \o b, kind, i) = Count(a, kind, i)
           /\ \A i \in 0 .. Len(b) :
                 Count(a \o b, kind, Len(a) + i) = Count(a, kind, Len(a)) + Count(b, kind, i)
<1>1. PICK n \in Nat : n = Len(a)  OBVIOUS
<1>2. PICK m \in Nat : m = Len(b)  OBVIOUS
<1>3. PICK e : e = a \o b  OBVIOUS
<1>4. /\ \A i \in 1 .. n : e[i] = a[i]
      /\ \A i \in n + 1 .. n + m : e[i] = b[i - n]
  BY <1>1, <1>2, <1>3, Concatenated
<1>5. ASSUME NEW i \in 0 .. n
      PROVE  Count(e, kind, i) = Count(a, kind, i)
  <2>1. \A j \in 1 .. i : e[j] = a[j]  BY <1>4
  <2>2. {j \in 1 .. i : e[j][1] = kind} = {j \in 1 .. i : a[j][1] = kind}  BY <2>1
  <2>3. QED  BY <2>2 DEF Count
<1>6. PICK c \in Nat : c = Count(a, kind, n)  BY CountStep
<1> DEFINE Good == {i \in Nat : i <= m => Count(e, kind, n + i) = c + Count(b, kind, i)}
<1>7. 0 \in Good
  <2>1. Count(e, kind, n) = c /\ Count(b, kind, 0) = 0  BY <1>5, <1>6, CountStep
  <2>2. n + 0 = n /\ c + 0 = c  OBVIOUS
  <2>3. QED  BY <2>1, <2>2
<1>8. ASSUME NEW i \in Nat, i \in Good
      PROVE  i + 1 \in Good
  <2> SUFFICES ASSUME i + 1 <= m
               PROVE  Count(e, kind, n + (i + 1)) = c + Count(b, kind, i + 1)
    OBVIOUS
  <2>1. Count(e, kind, n + i) = c + Count(b, kind, i)  BY <1>8
  <2>2. PICK h \in Nat : h = n + i  OBVIOUS
  <2>3. h + 1 \in n + 1 .. n + m /\ (h + 1) - n = i + 1 /\ n + (i + 1) = h + 1  BY <2>2
  <2>4. e[h + 1] = b[i + 1]  BY <1>4, <2>3
  <2>5. Count(e, kind, h + 1) = IF e[h + 1][1] = kind THEN Count(e, kind, h) + 1
                                ELSE Count(e, kind, h)
    <3>1. CountsOn(e, kind, h, h + 1)  BY CountNext
    <3>2. QED  BY <3>1 DEF CountsOn
  <2>6. Count(b, kind, i + 1) = IF b[i + 1][1] = kind THEN Count(b, kind, i) + 1
                                ELSE Count(b, kind, i)
    <3>1. CountsOn(b, kind, i, i + 1)  BY CountNext
    <3>2. QED  BY <3>1 DEF CountsOn
  <2>7. PICK d \in Nat : d = Count(b, kind, i)  BY CountStep
  <2>8. QED  BY <2>1, <2>2, <2>3, <2>4, <2>5, <2>6, <2>7
<1>9. \A i \in Nat : i \in Good
  <2> HIDE DEF Good
  <2>1. QED  BY <1>7, <1>8, SetInduction
<1>10. ASSUME NEW i \in 0 .. m
       PROVE  Count(e, kind, n + i) = c + Count(b, kind, i)
  BY <1>9
<1>11. QED  BY <1>1, <1>2, <1>3, <1>5, <1>6, <1>10

Marks == {"squeeze", "absorb"} \X Carried

\* The history of a list of operations, entry by entry.
LEMMA HistoryIs ==
    ASSUME NEW ops \in Seq(Moves)
    PROVE  /\ History(ops) \in Seq(Marks) /\ Len(History(ops)) = Len(ops)
           /\ \A i \in 1 .. Len(ops) : History(ops)[i] = Absorb(ops[i])
<1>1. PICK n \in Nat : n = Len(ops) /\ DOMAIN ops = 1 .. n  OBVIOUS
<1>2. ASSUME NEW i \in 1 .. n
      PROVE  Absorb(ops[i]) \in Marks
  <2>1. PICK op \in Moves : op = ops[i]  BY <1>1
  <2>2. op[2] \in Carried /\ op = <<op[1], op[2]>>  BY MovesType
  <2>3. CASE op[1] = "squeeze"
    <3>1. <<"squeeze", op[2]>> \in Marks  BY <2>2 DEF Marks
    <3>2. Absorb(op) = <<"squeeze", op[2]>>  BY <2>2, <2>3 DEF Absorb
    <3>3. QED  BY <2>1, <3>1, <3>2
  <2>4. CASE op[1] # "squeeze"
    <3>1. <<"absorb", op[2]>> \in Marks  BY <2>2 DEF Marks
    <3>2. Absorb(op) = <<"absorb", op[2]>>  BY <2>4 DEF Absorb
    <3>3. QED  BY <2>1, <3>1, <3>2
  <2>5. QED  BY <2>3, <2>4
<1>3. History(ops) = [i \in 1 .. n |-> Absorb(ops[i])]  BY <1>1 DEF History
<1>4. PICK h : h = [i \in 1 .. n |-> Absorb(ops[i])]  OBVIOUS
<1>5. h \in Seq(Marks) /\ Len(h) = n  BY <1>2, <1>4
<1>6. \A i \in 1 .. n : h[i] = Absorb(ops[i])  BY <1>4
<1>7. QED  BY <1>1, <1>3, <1>4, <1>5, <1>6

\* Lists of one length with the same entries are the same list.
LEMMA SameLists ==
    ASSUME NEW S, NEW u \in Seq(S), NEW v \in Seq(S), NEW n \in Nat,
           Len(u) = n, Len(v) = n, \A i \in 1 .. n : u[i] = v[i]
    PROVE  u = v
<1>1. u = [i \in 1 .. n |-> u[i]]  OBVIOUS
<1>2. v = [i \in 1 .. n |-> v[i]]  OBVIOUS
<1>3. [i \in 1 .. n |-> u[i]] = [i \in 1 .. n |-> v[i]]  OBVIOUS
<1>4. QED  BY <1>1, <1>2, <1>3

\* The history of a joined list.
LEMMA HistoryJoined ==
    ASSUME NEW a \in Seq(Moves), NEW b \in Seq(Moves)
    PROVE  History(a \o b) = History(a) \o History(b)
<1>1. PICK n \in Nat : n = Len(a)  OBVIOUS
<1>2. PICK m \in Nat : m = Len(b)  OBVIOUS
<1>3. PICK e : e = a \o b  OBVIOUS
<1>4. /\ e \in Seq(Moves) /\ Len(e) = n + m
      /\ \A i \in 1 .. n : e[i] = a[i]
      /\ \A i \in n + 1 .. n + m : e[i] = b[i - n]
  BY <1>1, <1>2, <1>3, Concatenated
<1>5. PICK x \in Seq(Marks) : x = History(a)  BY HistoryIs
<1>6. PICK y \in Seq(Marks) : y = History(b)  BY HistoryIs
<1>7. PICK z \in Seq(Marks) : z = History(e)  BY <1>4, HistoryIs
<1>8. Len(x) = n /\ \A i \in 1 .. n : x[i] = Absorb(a[i])  BY <1>1, <1>5, HistoryIs
<1>9. Len(y) = m /\ \A i \in 1 .. m : y[i] = Absorb(b[i])  BY <1>2, <1>6, HistoryIs
<1>10. Len(z) = n + m /\ \A i \in 1 .. n + m : z[i] = Absorb(e[i])  BY <1>4, <1>7, HistoryIs
<1>11. PICK w : w = x \o y  OBVIOUS
<1>12. /\ w \in Seq(Marks) /\ Len(w) = n + m
       /\ \A i \in 1 .. n : w[i] = x[i]
       /\ \A i \in n + 1 .. n + m : w[i] = y[i - n]
  BY <1>8, <1>9, <1>11, Concatenated
<1>13. ASSUME NEW i \in 1 .. n + m
       PROVE  z[i] = w[i]
  <2>1. CASE i \in 1 .. n
    <3>1. e[i] = a[i] /\ w[i] = x[i] /\ x[i] = Absorb(a[i]) /\ z[i] = Absorb(e[i])
      BY <1>4, <1>8, <1>10, <1>12, <2>1
    <3>2. QED  BY <3>1
  <2>2. CASE i \in n + 1 .. n + m
    <3>1. i - n \in 1 .. m  BY <2>2
    <3>2. /\ e[i] = b[i - n] /\ w[i] = y[i - n] /\ y[i - n] = Absorb(b[i - n])
          /\ z[i] = Absorb(e[i])
      BY <1>4, <1>9, <1>10, <1>12, <2>2, <3>1
    <3>3. QED  BY <3>2
  <2>3. QED  BY <2>1, <2>2
<1>14. z = w
  <2>1. PICK N \in Nat : N = n + m  OBVIOUS
  <2>2. Len(z) = N /\ Len(w) = N /\ \A i \in 1 .. N : z[i] = w[i]  BY <1>10, <1>12, <1>13, <2>1
  <2>3. w \in Seq(Marks)  BY <1>12
  <2>4. QED  BY <2>2, <2>3, SameLists
<1>15. QED  BY <1>3, <1>5, <1>6, <1>7, <1>11, <1>14

ItemParts(ops, kind) ==
    [i \in 1 .. Len(ops) |-> IF ops[i][1] = kind THEN <<ops[i][2]>> ELSE <<>>]

\* The values of a kind, one list for each operation.
LEMMA ItemPartsType ==
    ASSUME NEW ops \in Seq(Moves), NEW kind
    PROVE  PartsOf(Carried, Len(ops), ItemParts(ops, kind))
<1>1. ASSUME NEW i \in 1 .. Len(ops)
      PROVE  (IF ops[i][1] = kind THEN <<ops[i][2]>> ELSE <<>>) \in Seq(Carried)
  <2>1. ops[i] \in Moves  OBVIOUS
  <2>2. ops[i][2] \in Carried  BY <2>1, MovesType
  <2>3. <<ops[i][2]>> \in Seq(Carried) /\ <<>> \in Seq(Carried)  BY <2>2
  <2>4. QED  BY <2>3
<1>2. QED  BY <1>1 DEF PartsOf, ItemParts

\* The values of a joined list.
LEMMA ItemsJoined ==
    ASSUME NEW a \in Seq(Moves), NEW b \in Seq(Moves), NEW kind
    PROVE  Items(a \o b, kind) = Items(a, kind) \o Items(b, kind)
<1>1. PICK n \in Nat : n = Len(a)  OBVIOUS
<1>2. PICK m \in Nat : m = Len(b)  OBVIOUS
<1>3. PICK e : e = a \o b  OBVIOUS
<1>4. /\ e \in Seq(Moves) /\ Len(e) = n + m
      /\ \A i \in 1 .. n : e[i] = a[i]
      /\ \A i \in n + 1 .. n + m : e[i] = b[i - n]
  BY <1>1, <1>2, <1>3, Concatenated
<1>5. PICK x : x = ItemParts(a, kind)  OBVIOUS
<1>6. PICK y : y = ItemParts(b, kind)  OBVIOUS
<1>7. PICK z : z = ItemParts(e, kind)  OBVIOUS
<1>8. /\ x = [i \in 1 .. n |-> IF a[i][1] = kind THEN <<a[i][2]>> ELSE <<>>]
      /\ y = [i \in 1 .. m |-> IF b[i][1] = kind THEN <<b[i][2]>> ELSE <<>>]
      /\ z = [i \in 1 .. n + m |-> IF e[i][1] = kind THEN <<e[i][2]>> ELSE <<>>]
  BY <1>1, <1>2, <1>4, <1>5, <1>6, <1>7 DEF ItemParts
<1>9. ASSUME NEW i \in 1 .. n + m
      PROVE  z[i] = IF i <= n THEN x[i] ELSE y[i - n]
  <2>1. CASE i <= n
    <3>1. i \in 1 .. n  BY <2>1
    <3>2. QED  BY <1>4, <1>8, <2>1, <3>1
  <2>2. CASE ~(i <= n)
    <3>1. i - n \in 1 .. m /\ i \in n + 1 .. n + m  BY <2>2
    <3>2. e[i] = b[i - n]  BY <1>4, <3>1
    <3>3. z[i] = IF e[i][1] = kind THEN <<e[i][2]>> ELSE <<>>  BY <1>8
    <3>4. y[i - n] = IF b[i - n][1] = kind THEN <<b[i - n][2]>> ELSE <<>>  BY <1>8, <3>1
    <3>5. QED  BY <2>2, <3>2, <3>3, <3>4
  <2>3. QED  BY <2>1, <2>2
<1>10. z = Spliced(x, n, y, m)
  <2>1. z = [i \in 1 .. n + m |-> z[i]]  BY <1>8
  <2>2. z = [i \in 1 .. n + m |-> IF i <= n THEN x[i] ELSE y[i - n]]  BY <1>9, <2>1
  <2>3. QED  BY <2>2 DEF Spliced
<1>11. PartsOf(Carried, n, x) /\ PartsOf(Carried, m, y)
  BY <1>1, <1>2, <1>5, <1>6, ItemPartsType
<1>12. Splits(x, n, y, m)  BY <1>11, FlattenSplit
<1>13. FlattenSeq(z) = FlattenSeq(x) \o FlattenSeq(y)  BY <1>10, <1>12 DEF Splits
<1>14. /\ Items(a, kind) = FlattenSeq(x) /\ Items(b, kind) = FlattenSeq(y)
       /\ Items(e, kind) = FlattenSeq(z)
  BY <1>5, <1>6, <1>7 DEF Items, Each, ItemParts
<1>15. QED  BY <1>3, <1>13, <1>14

\* The first of several lists, then the others.
LEMMA FlattenHead ==
    ASSUME NEW S, NEW s \in Seq(Seq(S)), s # <<>>
    PROVE  /\ Head(s) \in Seq(S) /\ Tail(s) \in Seq(Seq(S))
           /\ FlattenSeq(Tail(s)) \in Seq(S)
           /\ FlattenSeq(s) = Head(s) \o FlattenSeq(Tail(s))
<1>1. PICK m \in Nat : Len(s) = 1 + m
  <2>1. Len(s) \in Nat /\ Len(s) # 0  OBVIOUS
  <2>2. Len(s) - 1 \in Nat /\ Len(s) = 1 + (Len(s) - 1)  BY <2>1
  <2>3. QED  BY <2>2
<1>2. PICK y : y = Tail(s)  OBVIOUS
<1>3. PICK x : x = [i \in 1 .. 1 |-> Head(s)]  OBVIOUS
<1>4. /\ y \in Seq(Seq(S)) /\ Len(y) = m /\ \A i \in 1 .. m : y[i] = s[i + 1]
  BY <1>1, <1>2
<1>5. Head(s) \in Seq(S) /\ Head(s) = s[1]  OBVIOUS
<1>6. x \in [1 .. 1 -> Seq(S)] /\ x[1] = s[1]  BY <1>3, <1>5
<1>7. y \in [1 .. m -> Seq(S)]  BY <1>4
<1>8. ASSUME NEW i \in 1 .. 1 + m
      PROVE  s[i] = IF i <= 1 THEN x[i] ELSE y[i - 1]
  <2>1. CASE i = 1  BY <1>6, <2>1
  <2>2. CASE i # 1
    <3>1. i - 1 \in 1 .. m /\ ~(i <= 1) /\ (i - 1) + 1 = i  BY <2>2
    <3>2. y[i - 1] = s[i]  BY <1>4, <3>1
    <3>3. QED  BY <3>1, <3>2
  <2>3. QED  BY <2>1, <2>2
<1>9. s = Spliced(x, 1, y, m)
  <2>1. s = [i \in 1 .. 1 + m |-> s[i]]  BY <1>1
  <2>2. s = [i \in 1 .. 1 + m |-> IF i <= 1 THEN x[i] ELSE y[i - 1]]  BY <1>8, <2>1
  <2>3. QED  BY <2>2 DEF Spliced
<1>10. Splits(x, 1, y, m)
  <2>1. PICK one \in Nat : one = 1  OBVIOUS
  <2>2. PartsOf(S, one, x) /\ PartsOf(S, m, y)  BY <1>6, <1>7, <2>1 DEF PartsOf
  <2>3. Splits(x, one, y, m)  BY <2>2, FlattenSplit
  <2>4. QED  BY <2>1, <2>3
<1>11. FlattenSeq(s) = FlattenSeq(x) \o FlattenSeq(y)  BY <1>9, <1>10 DEF Splits
<1>12. FlattenSeq(x) = x[1]  BY <1>6, FlattenOne
<1>13. FlattenSeq(y) \in Seq(S)  BY <1>7, FlattenType
<1>14. QED  BY <1>2, <1>4, <1>5, <1>6, <1>11, <1>12, <1>13

-----------------------------------------------------------------------------
(* The programs.                                                           *)

\* The sections of the verifier, by their numbers.
VerifierIs(k, flag, m, P) ==
    /\ DOMAIN P = 1 .. m + 15 /\ P = [n \in 1 .. m + 15 |-> P[n]]
    /\ P[1] = << Common(<<"vk">>) >> /\ P[2] = AbsorbInstances(k)
    /\ \A i \in 1 .. m + 1 : P[i + 2] = ReadAdvices(k, i - 1)
    /\ P[m + 4] = ReadMultiplicities(k) /\ P[m + 5] = ReadProductCommitments(k)
    /\ P[m + 6] = ReadLookupCommitments(k) /\ P[m + 7] = ReadTrash(k)
    /\ P[m + 8] = ReadQuotient(k) /\ P[m + 9] = ReadInstanceEvals(k)
    /\ P[m + 10] = ReadAdviceEvals(k) /\ P[m + 11] = ReadFixedEvals(k)
    /\ P[m + 12] = ReadPermutationEvals(k) /\ P[m + 13] = ReadLookupEvals(k)
    /\ P[m + 14] = ReadTrashEvals(k) /\ P[m + 15] = MultiPrepareOps(k, flag)

\* The verifier's program, section by section.
LEMMA VerifierEntries ==
    ASSUME NEW k \in Keys, NEW flag \in BOOLEAN, NEW m \in Nat, m = LastPhase(k),
           NEW P, P = VerifierProgram(k, flag)
    PROVE  VerifierIs(k, flag, m, P)
<1> DEFINE A == << << Common(<<"vk">>) >>, AbsorbInstances(k) >>
           B == [i \in 1 .. m + 1 |-> ReadAdvices(k, i - 1)]
           C == << ReadMultiplicities(k), ReadProductCommitments(k), ReadLookupCommitments(k),
                   ReadTrash(k), ReadQuotient(k), ReadInstanceEvals(k), ReadAdviceEvals(k),
                   ReadFixedEvals(k), ReadPermutationEvals(k), ReadLookupEvals(k),
                   ReadTrashEvals(k), MultiPrepareOps(k, flag) >>
           U == {A[i] : i \in 1 .. 2} \cup {B[i] : i \in 1 .. m + 1} \cup {C[i] : i \in 1 .. 12}
<1>1. P = (A \o B) \o C  BY DEF VerifierProgram, LastPhase
<1>2. PICK a : a = A  OBVIOUS
<1>3. PICK b : b = B  OBVIOUS
<1>4. PICK c : c = C  OBVIOUS
<1>5. a \in Seq(U) /\ Len(a) = 2  BY <1>2
<1>6. b \in Seq(U) /\ Len(b) = m + 1
  <2>1. b \in [1 .. m + 1 -> {B[i] : i \in 1 .. m + 1}]  BY <1>3
  <2>2. b \in [1 .. m + 1 -> U]  BY <2>1
  <2> HIDE DEF U, B
  <2>3. QED  BY <2>2
<1>7. c \in Seq(U) /\ Len(c) = 12
  <2>1. /\ DOMAIN C = 1 .. 12 /\ Len(C) = 12
        /\ \A i \in 1 .. 12 : C[i] \in U
    OBVIOUS
  <2>2. C \in Seq({C[i] : i \in 1 .. 12})  OBVIOUS
  <2>3. QED  BY <1>4, <2>1, <2>2
<1> HIDE DEF U
<1>8. PICK d : d = a \o b  OBVIOUS
<1>9. /\ d \in Seq(U) /\ Len(d) = m + 3
      /\ \A i \in 1 .. 2 : d[i] = a[i]
      /\ \A i \in 3 .. m + 3 : d[i] = b[i - 2]
  <2>1. /\ d \in Seq(U) /\ Len(d) = Len(a) + Len(b)
        /\ \A i \in 1 .. Len(a) : d[i] = a[i]
        /\ \A i \in Len(a) + 1 .. Len(a) + Len(b) : d[i] = b[i - Len(a)]
    BY <1>5, <1>6, <1>8, Concatenated
  <2>2. Len(a) = 2 /\ Len(b) = m + 1  BY <1>5, <1>6
  <2>3. QED  BY <2>1, <2>2
<1>10. P = d \o c  BY <1>1, <1>2, <1>3, <1>4, <1>8
<1>11. /\ P \in Seq(U) /\ Len(P) = m + 15
       /\ \A i \in 1 .. m + 3 : P[i] = d[i]
       /\ \A i \in m + 4 .. m + 15 : P[i] = c[i - (m + 3)]
  <2>1. PICK e : e = d \o c  OBVIOUS
  <2>2. d \in Seq(U) /\ c \in Seq(U)  BY <1>7, <1>9
  <2>3. /\ e \in Seq(U) /\ Len(e) = Len(d) + Len(c)
        /\ \A i \in 1 .. Len(d) : e[i] = d[i]
        /\ \A i \in Len(d) + 1 .. Len(d) + Len(c) : e[i] = c[i - Len(d)]
    BY <2>1, <2>2, Concatenated
  <2>4. Len(d) = m + 3 /\ Len(c) = 12  BY <1>7, <1>9
  <2>5. /\ e \in Seq(U) /\ Len(e) = m + 15
        /\ \A i \in 1 .. m + 3 : e[i] = d[i]
        /\ \A i \in m + 4 .. m + 15 : e[i] = c[i - (m + 3)]
    BY <2>3, <2>4
  <2>6. P = e  BY <1>10, <2>1
  <2>7. QED  BY <2>5, <2>6
<1>12. DOMAIN P = 1 .. m + 15 /\ P = [n \in 1 .. m + 15 |-> P[n]]  BY <1>11
<1>13. P[1] = a[1] /\ P[2] = a[2]  BY <1>9, <1>11
<1>14. ASSUME NEW i \in 1 .. m + 1
       PROVE  P[i + 2] = b[i]
  <2>1. i + 2 \in 3 .. m + 3 /\ i + 2 \in 1 .. m + 3 /\ (i + 2) - 2 = i  OBVIOUS
  <2>2. QED  BY <1>9, <1>11, <2>1
<1>15. ASSUME NEW j \in 1 .. 12
       PROVE  P[m + 3 + j] = c[j]
  <2>1. m + 3 + j \in m + 4 .. m + 15 /\ (m + 3 + j) - (m + 3) = j  OBVIOUS
  <2>2. QED  BY <1>11, <2>1
<1>16. /\ P[m + 4] = c[1] /\ P[m + 5] = c[2] /\ P[m + 6] = c[3] /\ P[m + 7] = c[4]
       /\ P[m + 8] = c[5] /\ P[m + 9] = c[6] /\ P[m + 10] = c[7] /\ P[m + 11] = c[8]
       /\ P[m + 12] = c[9] /\ P[m + 13] = c[10] /\ P[m + 14] = c[11] /\ P[m + 15] = c[12]
  <2>1. /\ m + 3 + 1 = m + 4 /\ m + 3 + 2 = m + 5 /\ m + 3 + 3 = m + 6 /\ m + 3 + 4 = m + 7
        /\ m + 3 + 5 = m + 8 /\ m + 3 + 6 = m + 9 /\ m + 3 + 7 = m + 10 /\ m + 3 + 8 = m + 11
        /\ m + 3 + 9 = m + 12 /\ m + 3 + 10 = m + 13 /\ m + 3 + 11 = m + 14
        /\ m + 3 + 12 = m + 15
    OBVIOUS
  <2>2. QED  BY <1>15, <2>1
<1>17. a[1] = << Common(<<"vk">>) >> /\ a[2] = AbsorbInstances(k)  BY <1>2
<1>18. \A i \in 1 .. m + 1 : b[i] = ReadAdvices(k, i - 1)  BY <1>3
<1>19. /\ c[1] = ReadMultiplicities(k) /\ c[2] = ReadProductCommitments(k)
       /\ c[3] = ReadLookupCommitments(k) /\ c[4] = ReadTrash(k)
       /\ c[5] = ReadQuotient(k) /\ c[6] = ReadInstanceEvals(k)
       /\ c[7] = ReadAdviceEvals(k) /\ c[8] = ReadFixedEvals(k)
       /\ c[9] = ReadPermutationEvals(k) /\ c[10] = ReadLookupEvals(k)
       /\ c[11] = ReadTrashEvals(k) /\ c[12] = MultiPrepareOps(k, flag)
  BY <1>4
<1>20. QED  BY <1>12, <1>13, <1>14, <1>16, <1>17, <1>18, <1>19 DEF VerifierIs

\* Both sides go through lists of operations, whatever the key.
LEMMA InstancesTyped ==
    ASSUME NEW k \in Keys
    PROVE  ComputeInstances(k) \in Seq(Moves) /\ AbsorbInstances(k) \in Seq(Moves)
<1>1. PICK n \in Nat : n = k.proofs  BY KeySizes
<1>2. PICK t \in Nat : t = k.committed  BY KeySizes
<1>3. PICK plain \in Nat : plain = k.plain  BY KeysAssumption
<1>4. PICK all \in Nat : all = k.cs.num_instance_columns  BY KeysAssumption
<1>5. PICK S : S = Absorptions  OBVIOUS
<1>6. S \subseteq Moves  BY <1>5 DEF Absorptions, Moves
<1>7. \A s \in Seq(S) : s \in Seq(Moves)  BY <1>6
<1>8. ComputeInstances(k) \in Seq(S)
  <2> DEFINE part(p, c) == IF c <= t THEN <<Common(Instance(p, c))>> ELSE InstanceItems(k, p, c)
             parts(p) == [c \in 1 .. all |-> part(p, c)]
  <2>1. ASSUME NEW p \in 1 .. n
        PROVE  FlattenSeq(parts(p)) \in Seq(S)
    <3>1. p \in Nat  OBVIOUS
    <3>2. ASSUME NEW c \in 1 .. all
          PROVE  part(p, c) \in Seq(S)
      <4>1. c \in Nat  OBVIOUS
      <4>2. Common(Instance(p, c)) \in S /\ InstanceItems(k, p, c) \in Seq(S)
        BY <1>5, <3>1, <4>1, InstanceItemsType
      <4>3. <<Common(Instance(p, c))>> \in Seq(S)  BY <4>2
      <4>4. QED  BY <4>2, <4>3
    <3> HIDE DEF part
    <3>3. parts(p) \in [1 .. all -> Seq(S)]  BY <3>2
    <3> HIDE DEF parts
    <3>4. QED  BY <3>3, FlattenType
  <2>2. PICK list : list = [p \in 1 .. n |-> FlattenSeq(parts(p))]  OBVIOUS
  <2>3. list \in [1 .. n -> Seq(S)]
    <3> HIDE DEF parts
    <3>1. QED  BY <2>1, <2>2
  <2>4. FlattenSeq(list) \in Seq(S)  BY <2>3, FlattenType
  <2>5. ComputeInstances(k) = FlattenSeq(list)
    BY <1>1, <1>2, <1>4, <2>2 DEF ComputeInstances, Each
  <2>6. QED  BY <2>4, <2>5
<1>9. AbsorbInstances(k) \in Seq(S)
  <2>1. PICK x : x = [p \in 1 .. n |-> CommittedItems(k, p)]  OBVIOUS
  <2>2. PICK y : y = [p \in 1 .. n |-> PlainItems(k, p)]  OBVIOUS
  <2>3. ASSUME NEW p \in 1 .. n
        PROVE  CommittedItems(k, p) \in Seq(S) /\ PlainItems(k, p) \in Seq(S)
    <3>1. p \in Nat  OBVIOUS
    <3>2. QED  BY <1>3, <1>5, <3>1, OfOneProofType
  <2>4. x \in [1 .. n -> Seq(S)] /\ y \in [1 .. n -> Seq(S)]  BY <2>1, <2>2, <2>3
  <2>5. FlattenSeq(x) \in Seq(S) /\ FlattenSeq(y) \in Seq(S)  BY <2>4, FlattenType
  <2>6. \A u, v \in Seq(S) : u \o v \in Seq(S)  OBVIOUS
  <2>7. /\ x = [p \in 1 .. n |-> [c \in 1 .. k.committed |-> Common(Instance(p, c))]]
        /\ y = [p \in 1 .. n |-> FlattenSeq([c \in 1 .. k.plain |->
                   <<Common(<<"len", p, k.committed + c>>)>>
                   \o [r \in 1 .. k.len |-> Common(<<"value", p, k.committed + c, r>>)]])]
    BY <2>1, <2>2 DEF CommittedItems, PlainItems, Each, InstanceItems
  <2>8. AbsorbInstances(k) = FlattenSeq(x) \o FlattenSeq(y)
    BY <1>1, <2>7 DEF AbsorbInstances, Each
  <2>9. QED  BY <2>5, <2>6, <2>8
<1>10. QED  BY <1>7, <1>8, <1>9

\* The sections of the prover and those of the verifier, the ones of the
\* instances and of the openings apart.
SectionsAre(k, m, P, V) ==
    /\ Pairs(Twins(k), P[1], V[1])
    /\ \A i \in 3 .. m + 8 : Pairs(Twins(k), P[i], V[i])
    /\ Pairs(Twins(k), P[m + 9], ReadEvals(k))
    /\ V[m + 9] \in Seq(Moves) /\ V[m + 10] \in Seq(Moves) /\ V[m + 11] \in Seq(Moves)
    /\ ReadEvals(k) = V[m + 9] \o V[m + 10] \o V[m + 11]
    /\ Pairs(Twins(k), P[m + 10], V[m + 12])
    /\ Pairs(Twins(k), P[m + 11], V[m + 13])
    /\ Pairs(Twins(k), P[m + 12], V[m + 14])

\* The two programs have the same sections.
LEMMA SectionsMatch ==
    ASSUME NEW k \in Keys, SlotsMatch(k), NEW m \in Nat, m = LastPhase(k),
           NEW f \in BOOLEAN, NEW g \in BOOLEAN, NEW P, ProgramIs(k, f, m, P),
           NEW V, VerifierIs(k, g, m, V)
    PROVE  SectionsAre(k, m, P, V)
<1>1. /\ P[1] = << Common(<<"vk">>) >> /\ P[2] = ComputeInstances(k)
      /\ \A i \in 1 .. m + 1 : P[i + 2] = ParseAdvices(k, i - 1)
      /\ P[m + 4] = CommitMultiplicities(k) /\ P[m + 5] = CommitPermutation(k)
      /\ P[m + 6] = CommitLogderivative(k) /\ P[m + 7] = CommitTrash(k)
      /\ P[m + 8] = ComputeHPoly(k) /\ P[m + 9] = WriteEvals(k)
      /\ P[m + 10] = EvaluatePermutation(k) /\ P[m + 11] = EvaluateLookups(k)
      /\ P[m + 12] = EvaluateTrash(k)
  BY DEF ProgramIs
<1>2. /\ V[1] = << Common(<<"vk">>) >> /\ V[2] = AbsorbInstances(k)
      /\ \A i \in 1 .. m + 1 : V[i + 2] = ReadAdvices(k, i - 1)
      /\ V[m + 4] = ReadMultiplicities(k) /\ V[m + 5] = ReadProductCommitments(k)
      /\ V[m + 6] = ReadLookupCommitments(k) /\ V[m + 7] = ReadTrash(k)
      /\ V[m + 8] = ReadQuotient(k) /\ V[m + 9] = ReadInstanceEvals(k)
      /\ V[m + 10] = ReadAdviceEvals(k) /\ V[m + 11] = ReadFixedEvals(k)
      /\ V[m + 12] = ReadPermutationEvals(k) /\ V[m + 13] = ReadLookupEvals(k)
      /\ V[m + 14] = ReadTrashEvals(k)
  BY DEF VerifierIs
<1>3. Pairs(Twins(k), P[1], V[1])  BY <1>1, <1>2, KeyPairs
<1>4. ASSUME NEW i \in 3 .. m + 8
      PROVE  Pairs(Twins(k), P[i], V[i])
  <2>1. CASE i \in 3 .. m + 3
    <3>1. PICK j \in 1 .. m + 1 : i = j + 2
      <4>1. i - 2 \in 1 .. m + 1 /\ i = (i - 2) + 2  BY <2>1
      <4>2. QED  BY <4>1
    <3>2. P[j + 2] = ParseAdvices(k, j - 1) /\ V[j + 2] = ReadAdvices(k, j - 1)
      BY <1>1, <1>2
    <3>3. QED  BY <3>1, <3>2, AdvicesPair
  <2>2. CASE i = m + 4  BY <1>1, <1>2, <2>2, MultiplicitiesPair
  <2>3. CASE i = m + 5  BY <1>1, <1>2, <2>3, PermutationPair
  <2>4. CASE i = m + 6  BY <1>1, <1>2, <2>4, LogderivativePair
  <2>5. CASE i = m + 7  BY <1>1, <1>2, <2>5, TrashPair
  <2>6. CASE i = m + 8  BY <1>1, <1>2, <2>6, QuotientPair
  <2>7. QED  BY <2>1, <2>2, <2>3, <2>4, <2>5, <2>6
<1>5. /\ Pairs(Twins(k), P[m + 9], ReadEvals(k))
      /\ V[m + 9] \in Seq(Moves) /\ V[m + 10] \in Seq(Moves) /\ V[m + 11] \in Seq(Moves)
  BY <1>1, <1>2, EvaluationsPair
<1>6. ReadEvals(k) = V[m + 9] \o V[m + 10] \o V[m + 11]  BY <1>2 DEF ReadEvals
<1>7. Pairs(Twins(k), P[m + 10], V[m + 12])  BY <1>1, <1>2, EvaluatePermutationPair
<1>8. Pairs(Twins(k), P[m + 11], V[m + 13])  BY <1>1, <1>2, EvaluateLookupsPair
<1>9. Pairs(Twins(k), P[m + 12], V[m + 14])  BY <1>1, <1>2, EvaluateTrashPair
<1>10. QED  BY <1>3, <1>4, <1>5, <1>6, <1>7, <1>8, <1>9 DEF SectionsAre

\* The multi-openings are lists of operations.
LEMMA OpeningsTyped ==
    ASSUME NEW k \in Keys, NEW f
    PROVE  MultiOpenOps(k, f) \in Seq(Moves) /\ MultiPrepareOps(k, f) \in Seq(Moves)
<1>1. Pairs(Twins(k), MultiOpenOps(k, f), MultiPrepareOps(k, f))  BY MultiOpenPair
<1>2. QED  BY <1>1 DEF Pairs

\* Both programs are lists of sections of operations.
LEMMA ProgramsTyped ==
    ASSUME NEW k \in Keys, SlotsMatch(k), NEW f \in BOOLEAN
    PROVE  /\ ProverProgram(k, f) \in Seq(Seq(Moves))
           /\ VerifierProgram(k, f) \in Seq(Seq(Moves))
<1>1. PICK m \in Nat : m = LastPhase(k)  BY LastPhaseBounds
<1>2. PICK P : P = ProverProgram(k, f)  OBVIOUS
<1>3. PICK V : V = VerifierProgram(k, f)  OBVIOUS
<1>4. ProgramIs(k, f, m, P)  BY <1>1, <1>2, ProgramEntries
<1>5. VerifierIs(k, f, m, V)  BY <1>1, <1>3, VerifierEntries
<1>6. SectionsAre(k, m, P, V)  BY <1>1, <1>4, <1>5, SectionsMatch
<1>7. /\ P[1] \in Seq(Moves) /\ V[1] \in Seq(Moves)
      /\ \A i \in 3 .. m + 8 : P[i] \in Seq(Moves) /\ V[i] \in Seq(Moves)
      /\ P[m + 9] \in Seq(Moves) /\ P[m + 10] \in Seq(Moves) /\ P[m + 11] \in Seq(Moves)
      /\ P[m + 12] \in Seq(Moves)
      /\ V[m + 9] \in Seq(Moves) /\ V[m + 10] \in Seq(Moves) /\ V[m + 11] \in Seq(Moves)
      /\ V[m + 12] \in Seq(Moves) /\ V[m + 13] \in Seq(Moves) /\ V[m + 14] \in Seq(Moves)
  BY <1>6 DEF SectionsAre, Pairs
<1>8. P[2] \in Seq(Moves) /\ V[2] \in Seq(Moves)
  BY <1>4, <1>5, InstancesTyped DEF ProgramIs, VerifierIs
<1>9. P[m + 13] \in Seq(Moves) /\ V[m + 15] \in Seq(Moves)
  BY <1>4, <1>5, OpeningsTyped DEF ProgramIs, VerifierIs
<1>10. PICK S : S = Seq(Moves)  OBVIOUS
<1>11. \A i \in 1 .. m + 13 : P[i] \in S
  <2>1. \A i \in 1 .. m + 13 : \/ i = 1 \/ i = 2 \/ i \in 3 .. m + 8 \/ i = m + 9
                               \/ i = m + 10 \/ i = m + 11 \/ i = m + 12 \/ i = m + 13
    OBVIOUS
  <2>2. QED  BY <1>7, <1>8, <1>9, <1>10, <2>1
<1>12. \A i \in 1 .. m + 15 : V[i] \in S
  <2>1. \A i \in 1 .. m + 15 : \/ i = 1 \/ i = 2 \/ i \in 3 .. m + 8 \/ i = m + 9
                               \/ i = m + 10 \/ i = m + 11 \/ i = m + 12 \/ i = m + 13
                               \/ i = m + 14 \/ i = m + 15
    OBVIOUS
  <2>2. QED  BY <1>7, <1>8, <1>9, <1>10, <2>1
<1>13. P \in Seq(S)
  <2>1. PICK n \in Nat : n = m + 13  OBVIOUS
  <2>2. P = [i \in 1 .. n |-> P[i]]  BY <1>4, <2>1 DEF ProgramIs
  <2>3. \A i \in 1 .. n : P[i] \in S  BY <1>11, <2>1
  <2>4. QED  BY <2>2, <2>3
<1>14. V \in Seq(S)
  <2>1. PICK n \in Nat : n = m + 15  OBVIOUS
  <2>2. V = [i \in 1 .. n |-> V[i]]  BY <1>5, <2>1 DEF VerifierIs
  <2>3. \A i \in 1 .. n : V[i] \in S  BY <1>12, <2>1
  <2>4. QED  BY <2>2, <2>3
<1>15. QED  BY <1>2, <1>3, <1>10, <1>13, <1>14

\* Two lists of related lists are concatenated to related lists as far as they
\* go together.
LEMMA PairsSoFar ==
    ASSUME NEW R, NEW n \in Nat, NEW x \in Nat, NEW y \in Nat, n <= x, n <= y,
           NEW P, NEW V, \A i \in 1 .. n : Pairs(R, P[i], V[i]),
           NEW a, FlattenValues(a, Moves, x, P), NEW b, FlattenValues(b, Moves, y, V)
    PROVE  Pairs(R, a[n], b[n])
<1>1. /\ a[0] = <<>> /\ \A i \in 1 .. x : a[i] = a[i - 1] \o P[i]
      /\ b[0] = <<>> /\ \A i \in 1 .. y : b[i] = b[i - 1] \o V[i]
  BY DEF FlattenValues
<1> DEFINE Good == {i \in Nat : i <= n => Pairs(R, a[i], b[i])}
<1>2. 0 \in Good
  <2>1. Pairs(R, a[0], b[0])  BY <1>1, PairsNone
  <2>2. QED  BY <2>1
<1>3. ASSUME NEW i \in Nat, i \in Good
      PROVE  i + 1 \in Good
  <2> SUFFICES ASSUME i + 1 <= n
               PROVE  Pairs(R, a[i + 1], b[i + 1])
    OBVIOUS
  <2>1. Pairs(R, a[i], b[i])  BY <1>3
  <2>2. i + 1 \in 1 .. n /\ i + 1 \in 1 .. x /\ i + 1 \in 1 .. y /\ (i + 1) - 1 = i  OBVIOUS
  <2>3. a[i + 1] = a[i] \o P[i + 1] /\ b[i + 1] = b[i] \o V[i + 1]  BY <1>1, <2>2
  <2>4. Pairs(R, P[i + 1], V[i + 1])  BY <2>2
  <2>5. QED  BY <2>1, <2>3, <2>4, PairsJoined
<1>4. n \in Good
  <2> HIDE DEF Good
  <2>1. QED  BY <1>2, <1>3, SetInduction
<1>5. QED  BY <1>4

\* All that the prover does, and all that the verifier does.
Written(k, f) == FlattenSeq(ProverProgram(k, f))
Checked(k, f) == FlattenSeq(VerifierProgram(k, f))

\* Both do related operations up to their openings.
GoTogether(R, k, f, g) ==
    \E x, y : /\ Pairs(R, x, y)
              /\ Written(k, f) = x \o MultiOpenOps(k, f)
              /\ Checked(k, g) = y \o MultiPrepareOps(k, g)

\* The two programs, from the first operation to the last, pair.
LEMMA ProgramsPair ==
    ASSUME NEW k \in Keys, SlotsMatch(k), NEW f \in BOOLEAN, NEW g \in BOOLEAN,
           NEW R, Twins(k) \subseteq R, Pairs(R, ComputeInstances(k), AbsorbInstances(k))
    PROVE  GoTogether(R, k, f, g)
<1>1. PICK m \in Nat : m = LastPhase(k)  BY LastPhaseBounds
<1>2. PICK P : P = ProverProgram(k, f)  OBVIOUS
<1>3. PICK V : V = VerifierProgram(k, g)  OBVIOUS
<1>4. ProgramIs(k, f, m, P)  BY <1>1, <1>2, ProgramEntries
<1>5. VerifierIs(k, g, m, V)  BY <1>1, <1>3, VerifierEntries
<1>6. SectionsAre(k, m, P, V)  BY <1>1, <1>4, <1>5, SectionsMatch
<1>7. PICK x \in Nat : x = m + 13  OBVIOUS
<1>8. PICK y \in Nat : y = m + 15  OBVIOUS
<1>9. PICK a : FlattenValues(a, Moves, x, P)
  <2>1. P \in Seq(Seq(Moves)) /\ DOMAIN P = 1 .. x
    BY <1>2, <1>4, <1>7, ProgramsTyped DEF ProgramIs
  <2>2. P \in [1 .. x -> Seq(Moves)]  BY <2>1
  <2>3. QED  BY <2>2, FlattenEquation
<1>10. PICK b : FlattenValues(b, Moves, y, V)
  <2>1. V \in Seq(Seq(Moves)) /\ DOMAIN V = 1 .. y
    BY <1>3, <1>5, <1>8, ProgramsTyped DEF VerifierIs
  <2>2. V \in [1 .. y -> Seq(Moves)]  BY <2>1
  <2>3. QED  BY <2>2, FlattenEquation
<1>11. /\ a[x] = Written(k, f) /\ b[y] = Checked(k, g)
       /\ \A i \in 1 .. x : a[i] = a[i - 1] \o P[i]
       /\ \A i \in 1 .. y : b[i] = b[i - 1] \o V[i]
       /\ b \in [0 .. y -> Seq(Moves)]
  BY <1>2, <1>3, <1>9, <1>10 DEF FlattenValues, Written, Checked
<1>12. /\ \A i \in 1 .. m + 8 : Pairs(R, P[i], V[i])
       /\ Pairs(R, P[m + 9], ReadEvals(k)) /\ Pairs(R, P[m + 10], V[m + 12])
       /\ Pairs(R, P[m + 11], V[m + 13]) /\ Pairs(R, P[m + 12], V[m + 14])
  <2>1. Pairs(R, P[2], V[2])  BY <1>4, <1>5 DEF ProgramIs, VerifierIs
  <2>2. Pairs(R, P[1], V[1])  BY <1>6, PairsWider DEF SectionsAre
  <2>3. \A i \in 3 .. m + 8 : Pairs(R, P[i], V[i])  BY <1>6, PairsWider DEF SectionsAre
  <2>4. /\ Pairs(R, P[m + 9], ReadEvals(k)) /\ Pairs(R, P[m + 10], V[m + 12])
        /\ Pairs(R, P[m + 11], V[m + 13]) /\ Pairs(R, P[m + 12], V[m + 14])
    BY <1>6, PairsWider DEF SectionsAre
  <2>5. \A i \in 1 .. m + 8 : i = 1 \/ i = 2 \/ i \in 3 .. m + 8  OBVIOUS
  <2>6. QED  BY <2>1, <2>2, <2>3, <2>4, <2>5
<1>13. Pairs(R, a[m + 8], b[m + 8])
  <2>1. PICK n \in Nat : n = m + 8  OBVIOUS
  <2>2. n <= x /\ n <= y /\ \A i \in 1 .. n : Pairs(R, P[i], V[i])
    BY <1>7, <1>8, <1>12, <2>1
  <2>3. Pairs(R, a[n], b[n])  BY <1>9, <1>10, <2>2, PairsSoFar
  <2>4. QED  BY <2>1, <2>3
<1>14. /\ a[m + 9] = a[m + 8] \o P[m + 9] /\ a[m + 10] = a[m + 9] \o P[m + 10]
       /\ a[m + 11] = a[m + 10] \o P[m + 11] /\ a[m + 12] = a[m + 11] \o P[m + 12]
       /\ a[m + 13] = a[m + 12] \o P[m + 13]
  <2>1. ASSUME NEW i \in {9, 10, 11, 12, 13}
        PROVE  a[m + i] = a[(m + i) - 1] \o P[m + i]
    <3>1. m + i \in 1 .. x  BY <1>7
    <3>2. QED  BY <1>11, <3>1
  <2>2. /\ (m + 9) - 1 = m + 8 /\ (m + 10) - 1 = m + 9 /\ (m + 11) - 1 = m + 10
        /\ (m + 12) - 1 = m + 11 /\ (m + 13) - 1 = m + 12
    OBVIOUS
  <2>3. QED  BY <2>1, <2>2
<1>15. /\ b[m + 9] = b[m + 8] \o V[m + 9] /\ b[m + 10] = b[m + 9] \o V[m + 10]
       /\ b[m + 11] = b[m + 10] \o V[m + 11] /\ b[m + 12] = b[m + 11] \o V[m + 12]
       /\ b[m + 13] = b[m + 12] \o V[m + 13] /\ b[m + 14] = b[m + 13] \o V[m + 14]
       /\ b[m + 15] = b[m + 14] \o V[m + 15]
  <2>1. ASSUME NEW i \in {9, 10, 11, 12, 13, 14, 15}
        PROVE  b[m + i] = b[(m + i) - 1] \o V[m + i]
    <3>1. m + i \in 1 .. y  BY <1>8
    <3>2. QED  BY <1>11, <3>1
  <2>2. /\ (m + 9) - 1 = m + 8 /\ (m + 10) - 1 = m + 9 /\ (m + 11) - 1 = m + 10
        /\ (m + 12) - 1 = m + 11 /\ (m + 13) - 1 = m + 12 /\ (m + 14) - 1 = m + 13
        /\ (m + 15) - 1 = m + 14
    OBVIOUS
  <2>3. QED  BY <2>1, <2>2
<1>16. b[m + 11] = b[m + 8] \o ReadEvals(k)
  <2>1. m + 8 \in 0 .. y  BY <1>8
  <2>2. PICK s \in Seq(Moves) : s = b[m + 8]  BY <1>11, <2>1
  <2>3. PICK u \in Seq(Moves) : u = V[m + 9]  BY <1>6 DEF SectionsAre
  <2>4. PICK v \in Seq(Moves) : v = V[m + 10]  BY <1>6 DEF SectionsAre
  <2>5. PICK w \in Seq(Moves) : w = V[m + 11]  BY <1>6 DEF SectionsAre
  <2>6. b[m + 11] = ((s \o u) \o v) \o w  BY <1>15, <2>2, <2>3, <2>4, <2>5
  <2>7. ReadEvals(k) = (u \o v) \o w  BY <1>6, <2>3, <2>4, <2>5 DEF SectionsAre
  <2>8. ((s \o u) \o v) \o w = s \o ((u \o v) \o w)  OBVIOUS
  <2>9. QED  BY <2>2, <2>6, <2>7, <2>8
<1>17. Pairs(R, a[m + 9], b[m + 11])  BY <1>12, <1>13, <1>14, <1>16, PairsJoined
<1>18. Pairs(R, a[m + 10], b[m + 12])  BY <1>12, <1>14, <1>15, <1>17, PairsJoined
<1>19. Pairs(R, a[m + 11], b[m + 13])  BY <1>12, <1>14, <1>15, <1>18, PairsJoined
<1>20. Pairs(R, a[m + 12], b[m + 14])  BY <1>12, <1>14, <1>15, <1>19, PairsJoined
<1>21. Written(k, f) = a[m + 12] \o MultiOpenOps(k, f)
  BY <1>4, <1>7, <1>11, <1>14 DEF ProgramIs
<1>22. Checked(k, g) = b[m + 14] \o MultiPrepareOps(k, g)
  BY <1>5, <1>8, <1>11, <1>15 DEF VerifierIs
<1>23. QED  BY <1>20, <1>21, <1>22 DEF GoTogether

\* With the same dummies, everything goes together.
LEMMA AllPair ==
    ASSUME NEW k \in Keys, NEW f \in BOOLEAN, NEW g \in BOOLEAN,
           NEW R, Twins(k) \subseteq R, GoTogether(R, k, f, g),
           Dummies(k, f) = Dummies(k, g)
    PROVE  Pairs(R, Written(k, f), Checked(k, g))
<1>1. PICK x, y : /\ Pairs(R, x, y)
                  /\ Written(k, f) = x \o MultiOpenOps(k, f)
                  /\ Checked(k, g) = y \o MultiPrepareOps(k, g)
  BY DEF GoTogether
<1>2. Pairs(R, MultiOpenOps(k, f), MultiPrepareOps(k, g))  BY MultiOpenPair, PairsWider
<1>3. QED  BY <1>1, <1>2, PairsJoined

\* The instances go together whenever the verifier does not refuse them.
LEMMA ProtocolPairs ==
    ASSUME NEW k \in Keys, SlotsMatch(k), ~VerifierRefuses(k), NEW f \in BOOLEAN,
           NEW g \in BOOLEAN
    PROVE  /\ GoTogether(Alike, k, f, g)
           /\ OneOrder(k) => GoTogether(Twins(k), k, f, g)
<1>1. Pairs(Alike, ComputeInstances(k), AbsorbInstances(k))  BY InstancesPair
<1>2. Twins(k) \subseteq Alike /\ Twins(k) \subseteq Twins(k)  BY TwinsAlike
<1>3. GoTogether(Alike, k, f, g)  BY <1>1, <1>2, ProgramsPair
<1>4. ASSUME OneOrder(k)
      PROVE  GoTogether(Twins(k), k, f, g)
  <2>1. Pairs(Twins(k), ComputeInstances(k), AbsorbInstances(k))  BY <1>4, InstancesPair
  <2>2. QED  BY <1>2, <2>1, ProgramsPair
<1>5. QED  BY <1>3, <1>4
=============================================================================
