-------------------------- MODULE PointSetsLemmas --------------------------
(***************************************************************************)
(* Induction on the natural numbers, facts about lists, and what the       *)
(* operators of PointSets compute, for lists of every length.              *)
(***************************************************************************)
EXTENDS PointSets, FiniteSetTheorems, WellFoundedInduction, TLAPS

-----------------------------------------------------------------------------
(* Induction on the natural numbers.                                       *)

\* Every set of natural numbers has a least element.
LEMMA LeastElement ==
    ASSUME NEW T, T \subseteq Nat, T # {}
    PROVE  \E m \in T : \A n \in T : m <= n
<1>1. PICK R : R = OpToRel(<, Nat)
  OBVIOUS
<1>2. IsWellFoundedOn(R, Nat)
  BY <1>1, NatLessThanWellFounded
<1>3. \E m \in T : \A n \in T : ~(<<n, m>> \in R)
  BY <1>2, WFMin
<1>4. \A m, n \in T : n < m => <<n, m>> \in R
  BY <1>1 DEF OpToRel
<1>5. PICK m \in T : \A n \in T : ~(n < m)
  BY <1>3, <1>4
<1>6. QED  BY <1>5, SMT

\* Induction on the natural numbers, for a set instead of a predicate.
LEMMA SetInduction ==
    ASSUME NEW S, 0 \in S, \A n \in Nat : n \in S => n + 1 \in S
    PROVE  Nat \subseteq S
<1> SUFFICES ASSUME Nat \ S # {}
             PROVE  FALSE
  OBVIOUS
<1>1. PICK m \in Nat \ S : \A n \in Nat \ S : m <= n
  BY LeastElement
<1>2. m # 0 /\ m - 1 \in Nat
  OBVIOUS
<1>3. m - 1 \in S
  BY <1>1, <1>2
<1>4. QED  BY <1>1, <1>2, <1>3

\* A step gives the next value from the last one and its number; a run starts
\* from a base and makes N steps.
IsStep(step, N, S) == step \in [S \X (1 .. N) -> S]

IsRun(f, N, S, base, step) ==
    f \in [0 .. N -> S] /\ f[0] = base /\ \A n \in 1 .. N : f[n] = step[<<f[n - 1], n>>]

\* A function can be defined by recursion from 0 to N, and its values stay in a
\* set that the steps do not leave.
LEMMA RecursiveFunction ==
    ASSUME NEW N \in Nat, NEW S, NEW base \in S, NEW step, IsStep(step, N, S)
    PROVE  \E f : IsRun(f, N, S, base, step)
<1> DEFINE Good == {k \in Nat : k <= N => \E f : IsRun(f, k, S, base, step)}
<1>1. 0 \in Good
  <2> DEFINE f == [n \in 0 .. 0 |-> base]
  <2>1. f \in [0 .. 0 -> S] /\ f[0] = base  OBVIOUS
  <2>2. IsRun(f, 0, S, base, step)  BY <2>1 DEF IsRun
  <2>3. QED  BY <2>2
<1>2. ASSUME NEW k \in Nat, k \in Good
      PROVE  k + 1 \in Good
  <2> SUFFICES ASSUME k + 1 <= N
               PROVE  \E f : IsRun(f, k + 1, S, base, step)
    OBVIOUS
  <2>1. PICK f : IsRun(f, k, S, base, step)
    BY <1>2
  <2> DEFINE g == [n \in 0 .. k + 1 |-> IF n = k + 1 THEN step[<<f[k], k + 1>>] ELSE f[n]]
  <2>2. f \in [0 .. k -> S] /\ f[0] = base /\ \A n \in 1 .. k : f[n] = step[<<f[n - 1], n>>]
    BY <2>1 DEF IsRun
  <2>3. f[k] \in S /\ k + 1 \in 1 .. N
    BY <2>2
  <2>4. g \in [0 .. k + 1 -> S]
    BY <2>2, <2>3 DEF IsStep
  <2>5. g[0] = base
    BY <2>2
  <2>6. ASSUME NEW n \in 1 .. k + 1
        PROVE  g[n] = step[<<g[n - 1], n>>]
    <3>1. g[n - 1] = f[n - 1]
      <4>1. n - 1 \in 0 .. k + 1 /\ n - 1 # k + 1  OBVIOUS
      <4>2. QED  BY <4>1
    <3>2. CASE n = k + 1
      <4>1. n - 1 = k  BY <3>2
      <4>2. g[n - 1] = f[k]  BY <3>1, <4>1
      <4>3. g[n] = step[<<f[k], n>>]  BY <3>2
      <4>4. QED  BY <4>2, <4>3
    <3>3. CASE n # k + 1
      <4>1. n \in 1 .. k /\ g[n] = f[n]  BY <3>3
      <4>2. QED  BY <2>2, <3>1, <4>1
    <3>4. QED  BY <3>2, <3>3
  <2> HIDE DEF g
  <2>7. QED  BY <2>4, <2>5, <2>6 DEF IsRun
<1>3. Nat \subseteq Good
  <2> HIDE DEF Good
  <2>1. QED  BY <1>1, <1>2, SetInduction
<1>4. QED  BY <1>3

\* A list of natural numbers, with 0, has a largest entry.
LEMMA LargestEntry ==
    ASSUME NEW s \in Seq(Nat)
    PROVE  \E m \in {0} \cup ToSet(s) : \A n \in {0} \cup ToSet(s) : m >= n
<1>1. PICK N \in Nat : DOMAIN s = 1 .. N  OBVIOUS
<1> DEFINE Good == {k \in Nat : k <= N => \E b \in Nat : \A i \in 1 .. k : s[i] <= b}
<1>2. 0 \in Good  OBVIOUS
<1>3. ASSUME NEW k \in Nat, k \in Good
      PROVE  k + 1 \in Good
  <2> SUFFICES ASSUME k + 1 <= N
               PROVE  \E b \in Nat : \A i \in 1 .. k + 1 : s[i] <= b
    OBVIOUS
  <2>1. PICK b \in Nat : \A i \in 1 .. k : s[i] <= b  BY <1>3
  <2>2. s[k + 1] \in Nat /\ \A i \in 1 .. k : s[i] \in Nat  BY <1>1
  <2>3. PICK t \in Nat : t = b + s[k + 1]  BY <2>2
  <2>4. \A i \in 1 .. k + 1 : s[i] <= t
    <3> SUFFICES ASSUME NEW i \in 1 .. k + 1
                 PROVE  s[i] <= t
      OBVIOUS
    <3>1. CASE i = k + 1  BY <2>2, <2>3, <3>1
    <3>2. CASE i \in 1 .. k
      <4>1. s[i] \in Nat /\ s[i] <= b  BY <2>1, <2>2, <3>2
      <4>2. QED  BY <2>2, <2>3, <4>1
    <3>3. QED  BY <3>1, <3>2
  <2>5. QED  BY <2>4
<1>4. N \in Good
  <2> HIDE DEF Good
  <2>1. QED  BY <1>2, <1>3, SetInduction
<1>5. PICK b \in Nat : \A i \in 1 .. N : s[i] <= b  BY <1>4
<1>6. \A n \in {0} \cup ToSet(s) : n \in Nat /\ n <= b
  BY <1>1, <1>5 DEF ToSet
<1>7. PICK S : S = {0} \cup ToSet(s)  OBVIOUS
<1> DEFINE T == {b - n : n \in S}
<1>8. T \subseteq Nat /\ T # {}  BY <1>6, <1>7
<1>9. PICK t \in T : \A u \in T : t <= u
  <2> HIDE DEF T
  <2>1. QED  BY <1>8, LeastElement
<1>10. PICK m \in S : t = b - m  OBVIOUS
<1>11. \A n \in S : m >= n
  <2> SUFFICES ASSUME NEW n \in S
               PROVE  m >= n
    OBVIOUS
  <2>1. b - n \in T  OBVIOUS
  <2>2. t <= b - n  BY <1>9, <2>1
  <2>3. n \in Nat /\ m \in Nat  BY <1>6, <1>7
  <2>4. QED  BY <1>10, <2>2, <2>3
<1>12. QED  BY <1>7, <1>11

-----------------------------------------------------------------------------
(* Lists, their elements and their order.                                  *)

Distinct(s) == \A i, j \in DOMAIN s : s[i] = s[j] => i = j

\* Every element and every later one are related.
Ordered(s, R) == \A i, j \in DOMAIN s : i < j => <<s[i], s[j]>> \in R

Different(T) == {p \in T \X T : p[1] # p[2]}

\* A list without repetitions is one ordered by inequality.
LEMMA DistinctOrdered ==
    ASSUME NEW T, NEW s \in Seq(T)
    PROVE  Distinct(s) <=> Ordered(s, Different(T))
<1>1. PICK n \in Nat : DOMAIN s = 1 .. n  OBVIOUS
<1>2. \A i \in 1 .. n : s[i] \in T  BY <1>1
<1>3. ASSUME Distinct(s) PROVE Ordered(s, Different(T))
  BY <1>1, <1>2, <1>3 DEF Distinct, Ordered, Different
<1>4. ASSUME Ordered(s, Different(T)), NEW i \in 1 .. n, NEW j \in 1 .. n, s[i] = s[j]
      PROVE  i = j
  <2>1. ~ i < j  BY <1>1, <1>4 DEF Ordered, Different
  <2>2. ~ j < i  BY <1>1, <1>4 DEF Ordered, Different
  <2>3. QED  BY <2>1, <2>2
<1>5. QED  BY <1>1, <1>3, <1>4 DEF Distinct

\* The elements of a list with one more.
LEMMA Appended ==
    ASSUME NEW T, NEW s \in Seq(T), NEW e \in T
    PROVE  /\ Append(s, e) \in Seq(T)
           /\ ToSet(Append(s, e)) = ToSet(s) \cup {e}
<1>1. PICK n \in Nat : Len(s) = n /\ DOMAIN s = 1 .. n  OBVIOUS
<1>2. PICK t : t = Append(s, e)  OBVIOUS
<1>3. DOMAIN t = 1 .. n + 1 /\ t[n + 1] = e /\ \A i \in 1 .. n : t[i] = s[i]
  BY <1>1, <1>2
<1>4. ToSet(t) = ToSet(s) \cup {e}
  <2>1. \A i \in 1 .. n + 1 : i = n + 1 \/ i \in 1 .. n  OBVIOUS
  <2>2. n + 1 \in 1 .. n + 1 /\ \A i \in 1 .. n : i \in 1 .. n + 1  OBVIOUS
  <2>3. QED  BY <1>1, <1>3, <2>1, <2>2 DEF ToSet
<1>5. Append(s, e) \in Seq(T)  OBVIOUS
<1>6. QED  BY <1>2, <1>4, <1>5

\* An element that may follow all others keeps the order.
LEMMA AppendedOrdered ==
    ASSUME NEW T, NEW s \in Seq(T), NEW e \in T, NEW R,
           Ordered(s, R), \A x \in ToSet(s) : <<x, e>> \in R
    PROVE  Ordered(Append(s, e), R)
<1>1. PICK n \in Nat : Len(s) = n /\ DOMAIN s = 1 .. n  OBVIOUS
<1>2. PICK t : t = Append(s, e)  OBVIOUS
<1>3. DOMAIN t = 1 .. n + 1 /\ t[n + 1] = e /\ \A i \in 1 .. n : t[i] = s[i]
  BY <1>1, <1>2
<1>4. ASSUME NEW i \in 1 .. n + 1, NEW j \in 1 .. n + 1, i < j
      PROVE  <<t[i], t[j]>> \in R
  <2>1. i \in 1 .. n /\ t[i] = s[i]  BY <1>3, <1>4
  <2>2. CASE j = n + 1  BY <1>1, <1>3, <2>1, <2>2 DEF ToSet
  <2>3. CASE j \in 1 .. n  BY <1>1, <1>3, <1>4, <2>1, <2>3 DEF Ordered
  <2>4. QED  BY <2>2, <2>3
<1>5. QED  BY <1>2, <1>3, <1>4 DEF Ordered

\* The elements of a joined list.
LEMMA Joined2 ==
    ASSUME NEW T, NEW a \in Seq(T), NEW b \in Seq(T)
    PROVE  /\ a \o b \in Seq(T)
           /\ ToSet(a \o b) = ToSet(a) \cup ToSet(b)
<1>1. PICK n \in Nat : Len(a) = n /\ DOMAIN a = 1 .. n  OBVIOUS
<1>2. PICK m \in Nat : Len(b) = m /\ DOMAIN b = 1 .. m  OBVIOUS
<1>3. PICK t : t = a \o b  OBVIOUS
<1>4. DOMAIN t = 1 .. n + m /\ \A i \in 1 .. n + m : t[i] = IF i <= n THEN a[i] ELSE b[i - n]
  <2>1. /\ DOMAIN (a \o b) = 1 .. Len(a) + Len(b)
        /\ \A i \in 1 .. Len(a) + Len(b) :
              (a \o b)[i] = IF i <= Len(a) THEN a[i] ELSE b[i - Len(a)]
    OBVIOUS
  <2>2. QED  BY <1>1, <1>2, <1>3, <2>1
<1>5. \A i \in 1 .. n : i \in 1 .. n + m /\ t[i] = a[i]  BY <1>4
<1>6. \A i \in 1 .. m : i + n \in 1 .. n + m /\ t[i + n] = b[i]
  <2>1. \A i \in 1 .. m : i + n \in 1 .. n + m /\ ~ i + n <= n /\ (i + n) - n = i  OBVIOUS
  <2>2. QED  BY <1>4, <2>1
<1>7. \A i \in 1 .. n + m : i \in 1 .. n \/ i - n \in 1 .. m  OBVIOUS
<1>8. \A i \in 1 .. n + m : i \in 1 .. n \/ (i - n \in 1 .. m /\ t[i] = b[i - n])
  <2>1. ASSUME NEW i \in 1 .. n + m, i \notin 1 .. n
        PROVE  i - n \in 1 .. m /\ t[i] = b[i - n]
    BY <1>4, <2>1
  <2>2. QED  BY <2>1
<1>9. ToSet(t) = {t[i] : i \in 1 .. n + m}  BY <1>4 DEF ToSet
<1>10. ToSet(a) = {a[i] : i \in 1 .. n} /\ ToSet(b) = {b[i] : i \in 1 .. m}
  BY <1>1, <1>2 DEF ToSet
<1>11. ToSet(t) = ToSet(a) \cup ToSet(b)  BY <1>5, <1>6, <1>8, <1>9, <1>10
<1>12. a \o b \in Seq(T)  OBVIOUS
<1>13. QED  BY <1>3, <1>11, <1>12

\* Ordered lists whose elements may follow each other join in order.
LEMMA JoinedOrdered ==
    ASSUME NEW T, NEW a \in Seq(T), NEW b \in Seq(T), NEW R,
           Ordered(a, R), Ordered(b, R),
           \A x \in ToSet(a), y \in ToSet(b) : <<x, y>> \in R
    PROVE  Ordered(a \o b, R)
<1>1. PICK n \in Nat : Len(a) = n /\ DOMAIN a = 1 .. n  OBVIOUS
<1>2. PICK m \in Nat : Len(b) = m /\ DOMAIN b = 1 .. m  OBVIOUS
<1>3. PICK t : t = a \o b  OBVIOUS
<1>4. DOMAIN t = 1 .. n + m /\ \A i \in 1 .. n + m : t[i] = IF i <= n THEN a[i] ELSE b[i - n]
  <2>1. /\ DOMAIN (a \o b) = 1 .. Len(a) + Len(b)
        /\ \A i \in 1 .. Len(a) + Len(b) :
              (a \o b)[i] = IF i <= Len(a) THEN a[i] ELSE b[i - Len(a)]
    OBVIOUS
  <2>2. QED  BY <1>1, <1>2, <1>3, <2>1
<1>5. ASSUME NEW i \in 1 .. n + m, NEW j \in 1 .. n + m, i < j
      PROVE  <<t[i], t[j]>> \in R
  <2>1. CASE j <= n
    <3>1. i \in 1 .. n /\ j \in 1 .. n /\ t[i] = a[i] /\ t[j] = a[j]  BY <1>4, <1>5, <2>1
    <3>2. QED  BY <1>1, <1>5, <3>1 DEF Ordered
  <2>2. CASE i <= n /\ ~ j <= n
    <3>1. i \in 1 .. n /\ t[i] = a[i]  BY <1>4, <2>2
    <3>2. j - n \in 1 .. m /\ t[j] = b[j - n]  BY <1>4, <2>2
    <3>3. QED  BY <1>1, <1>2, <3>1, <3>2 DEF ToSet
  <2>3. CASE ~ i <= n
    <3>1. i - n \in 1 .. m /\ t[i] = b[i - n]  BY <1>4, <2>3
    <3>2. j - n \in 1 .. m /\ t[j] = b[j - n]  BY <1>4, <1>5, <2>3
    <3>3. i - n < j - n  BY <1>5
    <3>4. QED  BY <1>2, <3>1, <3>2, <3>3 DEF Ordered
  <2>4. QED  BY <1>5, <2>1, <2>2, <2>3
<1>6. QED  BY <1>3, <1>4, <1>5 DEF Ordered

\* Values of a function defined by recursion.
LEMMA ValuesTyped ==
    ASSUME NEW N \in Nat, NEW T, NEW f, f[0] \in T,
           \A n \in 1 .. N : f[n - 1] \in T => f[n] \in T
    PROVE  \A n \in 0 .. N : f[n] \in T
<1> DEFINE Good == {n \in Nat : n <= N => f[n] \in T}
<1>1. 0 \in Good  OBVIOUS
<1>2. ASSUME NEW n \in Nat, n \in Good
      PROVE  n + 1 \in Good
  <2> SUFFICES ASSUME n + 1 <= N
               PROVE  f[n + 1] \in T
    OBVIOUS
  <2>1. f[n] \in T  BY <1>2
  <2>2. n + 1 \in 1 .. N /\ (n + 1) - 1 = n  OBVIOUS
  <2>3. f[n] \in T => f[n + 1] \in T  BY <2>2
  <2>4. QED  BY <2>1, <2>3
<1> HIDE DEF Good
<1>3. Nat \subseteq Good  BY <1>1, <1>2, SetInduction
<1>4. QED  BY <1>3 DEF Good

ChosenRun(f, s, S) ==
    f = [n \in 0 .. Len(s) |->
            IF n = 0 THEN <<>>
            ELSE LET before == f[n - 1]
                 IN  IF s[n] \in S THEN Append(before, s[n]) ELSE before]

\* The values of the recursive function behind Chosen.
ChosenValues(f, T, s, S) ==
    /\ f \in [0 .. Len(s) -> Seq(T)] /\ f[0] = <<>>
    /\ \A n \in 1 .. Len(s) : f[n] = IF s[n] \in S THEN Append(f[n - 1], s[n]) ELSE f[n - 1]
    /\ f[Len(s)] = Chosen(s, S)

\* The chosen elements, as a recursion over the list.
LEMMA ChosenEquation ==
    ASSUME NEW T, NEW s \in Seq(T), NEW S
    PROVE  \E f : ChosenValues(f, T, s, S)
<1>1. PICK N \in Nat : Len(s) = N /\ s \in [1 .. N -> T]  OBVIOUS
<1> DEFINE L == Seq(T)
           next(z, n) == IF s[n] \in S THEN Append(z, s[n]) ELSE z
           step == [z \in L \X (1 .. N) |-> next(z[1], z[2])]
           f == CHOOSE f : ChosenRun(f, s, S)
<1>2. \A z \in L, n \in 1 .. N : next(z, n) \in L
  BY <1>1
<1>3. <<>> \in L  OBVIOUS
<1> HIDE DEF L, next
<1>4. IsStep(step, N, L)  BY <1>2 DEF IsStep
<1>5. PICK g : IsRun(g, N, L, <<>>, step)
  <2> HIDE DEF step
  <2>1. QED  BY <1>3, <1>4, RecursiveFunction
<1>6. g \in [0 .. N -> L] /\ g[0] = <<>> /\ \A n \in 1 .. N : g[n] = next(g[n - 1], n)
  <2>1. g \in [0 .. N -> L] /\ g[0] = <<>> /\ \A n \in 1 .. N : g[n] = step[<<g[n - 1], n>>]
    <3> HIDE DEF step
    <3>1. QED  BY <1>5 DEF IsRun
  <2>2. ASSUME NEW n \in 1 .. N
        PROVE  step[<<g[n - 1], n>>] = next(g[n - 1], n)
    <3>1. n - 1 \in 0 .. N  OBVIOUS
    <3>2. g[n - 1] \in L  BY <2>1, <3>1
    <3>3. QED  BY <3>2
  <2>3. QED  BY <2>1, <2>2
<1>7. ChosenRun(g, s, S)
  <2>1. g = [n \in 0 .. N |-> IF n = 0 THEN <<>> ELSE next(g[n - 1], n)]
    BY <1>6
  <2>2. QED  BY <1>1, <2>1 DEF ChosenRun, next
<1>8. ChosenRun(f, s, S)  BY <1>7
<1>9. Chosen(s, S) = f[N]  BY <1>1 DEF Chosen, ChosenRun
<1> HIDE DEF f
<1>10. f[0] = <<>> /\ \A n \in 1 .. N : f[n] = next(f[n - 1], n)
  <2>1. f = [n \in 0 .. N |-> IF n = 0 THEN <<>> ELSE next(f[n - 1], n)]
    BY <1>1, <1>8 DEF ChosenRun, next
  <2>2. QED  BY <2>1
<1>11. \A n \in 1 .. N : f[n - 1] \in L => f[n] \in L
  BY <1>2, <1>10
<1>12. f[0] \in L  BY <1>3, <1>10
<1>13. \A n \in 0 .. N : f[n] \in L  BY <1>11, <1>12, ValuesTyped
<1>14. DOMAIN f = 0 .. N /\ f = [n \in 0 .. N |-> f[n]]
  <2>1. f = [n \in 0 .. N |-> IF n = 0 THEN <<>> ELSE next(f[n - 1], n)]
    BY <1>1, <1>8 DEF ChosenRun, next
  <2>2. QED  BY <2>1
<1>15. f \in [0 .. N -> L]  BY <1>13, <1>14
<1>16. ChosenValues(f, T, s, S)  BY <1>1, <1>9, <1>10, <1>15 DEF ChosenValues, L, next
<1>17. QED  BY <1>16

\* The elements of s that are in S.
LEMMA ChosenExact ==
    ASSUME NEW T, NEW s \in Seq(T), NEW S
    PROVE  Chosen(s, S) \in Seq(T) /\ ToSet(Chosen(s, S)) = ToSet(s) \cap S
<1>1. PICK f : ChosenValues(f, T, s, S)  BY ChosenEquation
<1>2. PICK N \in Nat : Len(s) = N /\ s \in [1 .. N -> T] /\ DOMAIN s = 1 .. N  OBVIOUS
<1>3. /\ f \in [0 .. N -> Seq(T)] /\ f[0] = <<>> /\ f[N] = Chosen(s, S)
      /\ \A n \in 1 .. N : f[n] = IF s[n] \in S THEN Append(f[n - 1], s[n]) ELSE f[n - 1]
  BY <1>1, <1>2 DEF ChosenValues
<1> DEFINE Good == {n \in Nat : n <= N => ToSet(f[n]) = {s[i] : i \in 1 .. n} \cap S}
<1>4. 0 \in Good
  <2>1. ToSet(f[0]) = {}  BY <1>3 DEF ToSet
  <2>2. QED  BY <2>1
<1>5. ASSUME NEW n \in Nat, n \in Good
      PROVE  n + 1 \in Good
  <2> SUFFICES ASSUME n + 1 <= N
               PROVE  ToSet(f[n + 1]) = {s[i] : i \in 1 .. n + 1} \cap S
    OBVIOUS
  <2>1. ToSet(f[n]) = {s[i] : i \in 1 .. n} \cap S  BY <1>5
  <2>2. n \in 0 .. N /\ n + 1 \in 1 .. N /\ (n + 1) - 1 = n  OBVIOUS
  <2>3. f[n] \in Seq(T) /\ s[n + 1] \in T  BY <1>2, <1>3, <2>2
  <2>4. f[n + 1] = IF s[n + 1] \in S THEN Append(f[n], s[n + 1]) ELSE f[n]  BY <1>3, <2>2
  <2>5. {s[i] : i \in 1 .. n + 1} = {s[i] : i \in 1 .. n} \cup {s[n + 1]}
    <3>1. \A i \in 1 .. n + 1 : i \in 1 .. n \/ i = n + 1  OBVIOUS
    <3>2. n + 1 \in 1 .. n + 1 /\ \A i \in 1 .. n : i \in 1 .. n + 1  OBVIOUS
    <3>3. QED  BY <3>1, <3>2
  <2>6. CASE s[n + 1] \in S
    <3>1. ToSet(f[n + 1]) = ToSet(f[n]) \cup {s[n + 1]}  BY <2>3, <2>4, <2>6, Appended
    <3>2. QED  BY <2>1, <2>5, <2>6, <3>1
  <2>7. CASE s[n + 1] \notin S
    BY <2>1, <2>4, <2>5, <2>7
  <2>8. QED  BY <2>6, <2>7
<1>6. N \in Good
  <2> HIDE DEF Good
  <2>1. QED  BY <1>4, <1>5, SetInduction
<1>7. ToSet(s) = {s[i] : i \in 1 .. N}  BY <1>2 DEF ToSet
<1>8. f[N] \in Seq(T)  BY <1>3
<1>9. QED  BY <1>3, <1>6, <1>7, <1>8

\* A selection keeps the order.
LEMMA ChosenOrdered ==
    ASSUME NEW T, NEW s \in Seq(T), NEW S, NEW R, Ordered(s, R)
    PROVE  Ordered(Chosen(s, S), R)
<1>1. PICK f : ChosenValues(f, T, s, S)  BY ChosenEquation
<1>2. PICK N \in Nat : Len(s) = N /\ s \in [1 .. N -> T] /\ DOMAIN s = 1 .. N  OBVIOUS
<1>3. /\ f \in [0 .. N -> Seq(T)] /\ f[0] = <<>> /\ f[N] = Chosen(s, S)
      /\ \A n \in 1 .. N : f[n] = IF s[n] \in S THEN Append(f[n - 1], s[n]) ELSE f[n - 1]
  BY <1>1, <1>2 DEF ChosenValues
<1> DEFINE Kept(n) == ToSet(f[n]) \subseteq {s[i] : i \in 1 .. n} /\ Ordered(f[n], R)
           Good == {n \in Nat : n <= N => Kept(n)}
<1>4. 0 \in Good
  <2>1. ToSet(f[0]) = {} /\ Ordered(f[0], R)  BY <1>3 DEF ToSet, Ordered
  <2>2. QED  BY <2>1
<1>5. ASSUME NEW n \in Nat, n \in Good
      PROVE  n + 1 \in Good
  <2> SUFFICES ASSUME n + 1 <= N
               PROVE  Kept(n + 1)
    OBVIOUS
  <2>1. Kept(n)  BY <1>5
  <2>2. n \in 0 .. N /\ n + 1 \in 1 .. N /\ (n + 1) - 1 = n  OBVIOUS
  <2>3. f[n] \in Seq(T) /\ s[n + 1] \in T  BY <1>2, <1>3, <2>2
  <2>4. f[n + 1] = IF s[n + 1] \in S THEN Append(f[n], s[n + 1]) ELSE f[n]  BY <1>3, <2>2
  <2>5. n + 1 \in 1 .. n + 1 /\ \A i \in 1 .. n : i \in 1 .. n + 1 /\ i < n + 1 /\ i \in 1 .. N
    OBVIOUS
  <2>6. \A x \in ToSet(f[n]) : <<x, s[n + 1]>> \in R
    BY <1>2, <2>1, <2>2, <2>5 DEF Ordered
  <2>7. CASE s[n + 1] \in S
    <3>1. ToSet(f[n + 1]) = ToSet(f[n]) \cup {s[n + 1]}  BY <2>3, <2>4, <2>7, Appended
    <3>2. Ordered(f[n + 1], R)  BY <2>1, <2>3, <2>4, <2>6, <2>7, AppendedOrdered
    <3>3. QED  BY <2>1, <2>5, <3>1, <3>2
  <2>8. CASE s[n + 1] \notin S
    BY <2>1, <2>4, <2>5, <2>8
  <2>9. QED  BY <2>7, <2>8
<1>6. N \in Good
  <2> HIDE DEF Good
  <2>1. QED  BY <1>4, <1>5, SetInduction
<1>7. QED  BY <1>3, <1>6

SeenRun(f, s) ==
    f = [n \in 0 .. Len(s) |->
            IF n = 0 THEN <<>>
            ELSE LET before == f[n - 1]
                 IN  IF Contains(before, s[n]) THEN before ELSE Append(before, s[n])]

\* The values of the recursive function behind FirstOccurrences.
SeenValues(f, T, s) ==
    /\ f \in [0 .. Len(s) -> Seq(T)] /\ f[0] = <<>>
    /\ \A n \in 1 .. Len(s) :
          f[n] = IF Contains(f[n - 1], s[n]) THEN f[n - 1] ELSE Append(f[n - 1], s[n])
    /\ f[Len(s)] = FirstOccurrences(s)

\* The first occurrences, as a recursion over the list.
LEMMA FirstOccurrencesEquation ==
    ASSUME NEW T, NEW s \in Seq(T)
    PROVE  \E f : SeenValues(f, T, s)
<1>1. PICK N \in Nat : Len(s) = N /\ s \in [1 .. N -> T]  OBVIOUS
<1> DEFINE L == Seq(T)
           next(z, n) == IF Contains(z, s[n]) THEN z ELSE Append(z, s[n])
           step == [z \in L \X (1 .. N) |-> next(z[1], z[2])]
           f == CHOOSE f : SeenRun(f, s)
<1>2. \A z \in L, n \in 1 .. N : next(z, n) \in L
  BY <1>1
<1>3. <<>> \in L  OBVIOUS
<1> HIDE DEF L, next
<1>4. IsStep(step, N, L)  BY <1>2 DEF IsStep
<1>5. PICK g : IsRun(g, N, L, <<>>, step)
  <2> HIDE DEF step
  <2>1. QED  BY <1>3, <1>4, RecursiveFunction
<1>6. g \in [0 .. N -> L] /\ g[0] = <<>> /\ \A n \in 1 .. N : g[n] = next(g[n - 1], n)
  <2>1. g \in [0 .. N -> L] /\ g[0] = <<>> /\ \A n \in 1 .. N : g[n] = step[<<g[n - 1], n>>]
    <3> HIDE DEF step
    <3>1. QED  BY <1>5 DEF IsRun
  <2>2. ASSUME NEW n \in 1 .. N
        PROVE  step[<<g[n - 1], n>>] = next(g[n - 1], n)
    <3>1. n - 1 \in 0 .. N  OBVIOUS
    <3>2. g[n - 1] \in L  BY <2>1, <3>1
    <3>3. QED  BY <3>2
  <2>3. QED  BY <2>1, <2>2
<1>7. SeenRun(g, s)
  <2>1. g = [n \in 0 .. N |-> IF n = 0 THEN <<>> ELSE next(g[n - 1], n)]
    BY <1>6
  <2>2. QED  BY <1>1, <2>1 DEF SeenRun, next
<1>8. SeenRun(f, s)  BY <1>7
<1>9. FirstOccurrences(s) = f[N]  BY <1>1 DEF FirstOccurrences, SeenRun
<1> HIDE DEF f
<1>10. f[0] = <<>> /\ \A n \in 1 .. N : f[n] = next(f[n - 1], n)
  <2>1. f = [n \in 0 .. N |-> IF n = 0 THEN <<>> ELSE next(f[n - 1], n)]
    BY <1>1, <1>8 DEF SeenRun, next
  <2>2. QED  BY <2>1
<1>11. \A n \in 1 .. N : f[n - 1] \in L => f[n] \in L
  BY <1>2, <1>10
<1>12. f[0] \in L  BY <1>3, <1>10
<1>13. \A n \in 0 .. N : f[n] \in L  BY <1>11, <1>12, ValuesTyped
<1>14. DOMAIN f = 0 .. N /\ f = [n \in 0 .. N |-> f[n]]
  <2>1. f = [n \in 0 .. N |-> IF n = 0 THEN <<>> ELSE next(f[n - 1], n)]
    BY <1>1, <1>8 DEF SeenRun, next
  <2>2. QED  BY <2>1
<1>15. f \in [0 .. N -> L]  BY <1>13, <1>14
<1>16. SeenValues(f, T, s)  BY <1>1, <1>9, <1>10, <1>15 DEF SeenValues, L, next
<1>17. QED  BY <1>16

\* The elements of s, each once.
LEMMA FirstOccurrencesExact ==
    ASSUME NEW T, NEW s \in Seq(T)
    PROVE  /\ FirstOccurrences(s) \in Seq(T)
           /\ ToSet(FirstOccurrences(s)) = ToSet(s)
           /\ Distinct(FirstOccurrences(s))
<1>1. PICK f : SeenValues(f, T, s)  BY FirstOccurrencesEquation
<1>2. PICK N \in Nat : Len(s) = N /\ s \in [1 .. N -> T] /\ DOMAIN s = 1 .. N  OBVIOUS
<1>3. /\ f \in [0 .. N -> Seq(T)] /\ f[0] = <<>> /\ f[N] = FirstOccurrences(s)
      /\ \A n \in 1 .. N :
            f[n] = IF Contains(f[n - 1], s[n]) THEN f[n - 1] ELSE Append(f[n - 1], s[n])
  BY <1>1, <1>2 DEF SeenValues
<1> DEFINE Kept(n) == ToSet(f[n]) = {s[i] : i \in 1 .. n} /\ Ordered(f[n], Different(T))
           Good == {n \in Nat : n <= N => Kept(n)}
<1>4. 0 \in Good
  <2>1. ToSet(f[0]) = {} /\ Ordered(f[0], Different(T))  BY <1>3 DEF ToSet, Ordered
  <2>2. QED  BY <2>1
<1>5. ASSUME NEW n \in Nat, n \in Good
      PROVE  n + 1 \in Good
  <2> SUFFICES ASSUME n + 1 <= N
               PROVE  Kept(n + 1)
    OBVIOUS
  <2>1. Kept(n)  BY <1>5
  <2>2. n \in 0 .. N /\ n + 1 \in 1 .. N /\ (n + 1) - 1 = n  OBVIOUS
  <2>3. f[n] \in Seq(T) /\ s[n + 1] \in T  BY <1>2, <1>3, <2>2
  <2>4. f[n + 1] = IF Contains(f[n], s[n + 1]) THEN f[n] ELSE Append(f[n], s[n + 1])
    BY <1>3, <2>2
  <2>5. {s[i] : i \in 1 .. n + 1} = {s[i] : i \in 1 .. n} \cup {s[n + 1]}
    <3>1. \A i \in 1 .. n + 1 : i \in 1 .. n \/ i = n + 1  OBVIOUS
    <3>2. n + 1 \in 1 .. n + 1 /\ \A i \in 1 .. n : i \in 1 .. n + 1  OBVIOUS
    <3>3. QED  BY <3>1, <3>2
  <2>6. Contains(f[n], s[n + 1]) <=> s[n + 1] \in ToSet(f[n])
    <3>1. PICK g \in Seq(T) : g = f[n]  BY <2>3
    <3>2. DOMAIN g = 1 .. Len(g)  BY <3>1
    <3>3. \A e : Contains(g, e) <=> e \in ToSet(g)  BY <3>2 DEF Contains, ToSet
    <3>4. QED  BY <3>1, <3>3
  <2>7. CASE s[n + 1] \notin ToSet(f[n])
    <3>1. f[n + 1] = Append(f[n], s[n + 1])  BY <2>4, <2>6, <2>7
    <3>2. ToSet(f[n + 1]) = ToSet(f[n]) \cup {s[n + 1]}  BY <2>3, <3>1, Appended
    <3>3. ToSet(f[n]) \subseteq T  BY <2>3 DEF ToSet
    <3>4. \A x \in ToSet(f[n]) : <<x, s[n + 1]>> \in Different(T)
      BY <2>3, <2>7, <3>3 DEF Different
    <3>5. Ordered(f[n + 1], Different(T))  BY <2>1, <2>3, <3>1, <3>4, AppendedOrdered
    <3>6. QED  BY <2>1, <2>5, <3>2, <3>5
  <2>8. CASE s[n + 1] \in ToSet(f[n])
    <3>1. f[n + 1] = f[n]  BY <2>4, <2>6, <2>8
    <3>2. QED  BY <2>1, <2>5, <2>8, <3>1
  <2>9. QED  BY <2>7, <2>8
<1>6. N \in Good
  <2> HIDE DEF Good
  <2>1. QED  BY <1>4, <1>5, SetInduction
<1>7. ToSet(s) = {s[i] : i \in 1 .. N}  BY <1>2 DEF ToSet
<1>8. f[N] \in Seq(T)  BY <1>3
<1>9. Kept(N)  BY <1>6
<1>10. Distinct(f[N])  BY <1>8, <1>9, DistinctOrdered
<1>11. QED  BY <1>3, <1>7, <1>8, <1>9, <1>10

\* The sequences FlattenSeq goes through.
FlattenRun(f, n, parts) ==
    f = [i \in 1 .. n |-> IF i = 1 THEN parts[i] ELSE f[i - 1] \o parts[i]]

\* What is concatenated after each part.
FlattenValues(g, S, n, parts) ==
    /\ g \in [0 .. n -> Seq(S)] /\ g[0] = <<>>
    /\ \A i \in 1 .. n : g[i] = g[i - 1] \o parts[i]
    /\ g[n] = FlattenSeq(parts)

\* The flattened list, as a recursion over the parts.
LEMMA FlattenEquation ==
    ASSUME NEW S, NEW n \in Nat, NEW parts \in [1 .. n -> Seq(S)]
    PROVE  \E g : FlattenValues(g, S, n, parts)
<1>1. parts \in Seq(Seq(S)) /\ Len(parts) = n  OBVIOUS
<1>2. CASE n = 0
  <2>1. FlattenSeq(parts) = parts  BY <1>1, <1>2 DEF FlattenSeq
  <2>2. parts = <<>>  BY <1>1, <1>2
  <2>3. PICK g : g = [i \in 0 .. n |-> <<>>]  OBVIOUS
  <2>4. FlattenValues(g, S, n, parts)  BY <1>2, <2>1, <2>2, <2>3 DEF FlattenValues
  <2>5. QED  BY <2>4
<1>3. CASE n # 0
  <2> DEFINE T == Seq(S)
             step == [z \in T \X (1 .. n) |-> IF z[2] = 1 THEN parts[1] ELSE z[1] \o parts[z[2]]]
             f == CHOOSE f : FlattenRun(f, n, parts)
  <2>1. \A z \in T, i \in 1 .. n : (IF i = 1 THEN parts[1] ELSE z \o parts[i]) \in T
    BY <1>3
  <2>2. IsStep(step, n, T)  BY <2>1 DEF IsStep
  <2>3. <<>> \in T  OBVIOUS
  <2>4. PICK g : IsRun(g, n, T, <<>>, step)
    <3> HIDE DEF T, step
    <3>1. QED  BY <2>2, <2>3, RecursiveFunction
  <2>5. g \in [0 .. n -> T] /\ \A i \in 1 .. n : g[i] = step[<<g[i - 1], i>>]
    <3> HIDE DEF T, step
    <3>1. QED  BY <2>4 DEF IsRun
  <2>6. \A i \in 1 .. n : g[i] = IF i = 1 THEN parts[i] ELSE g[i - 1] \o parts[i]
    <3> SUFFICES ASSUME NEW i \in 1 .. n
                 PROVE  g[i] = IF i = 1 THEN parts[i] ELSE g[i - 1] \o parts[i]
      OBVIOUS
    <3>1. i - 1 \in 0 .. n /\ g[i - 1] \in T
      <4> HIDE DEF T
      <4>1. i - 1 \in 0 .. n  OBVIOUS
      <4>2. QED  BY <2>5, <4>1
    <3>2. <<g[i - 1], i>> \in T \X (1 .. n)  BY <3>1
    <3>3. step[<<g[i - 1], i>>] = IF i = 1 THEN parts[1] ELSE g[i - 1] \o parts[i]
      <4> HIDE DEF T
      <4>1. QED  BY <3>2
    <3> HIDE DEF step, T
    <3>4. QED  BY <2>5, <3>3
  <2>7. PICK h : h = [i \in 1 .. n |-> g[i]]  OBVIOUS
  <2>8. FlattenRun(h, n, parts)
    <3>1. \A i \in 1 .. n : i # 1 => h[i - 1] = g[i - 1]  BY <2>7
    <3>2. h = [i \in 1 .. n |-> IF i = 1 THEN parts[i] ELSE h[i - 1] \o parts[i]]
      BY <2>6, <2>7, <3>1
    <3>3. QED  BY <3>2 DEF FlattenRun
  <2>9. FlattenRun(f, n, parts)  BY <2>8
  <2>10. FlattenSeq(parts) = f[n]
    BY <1>1, <1>3 DEF FlattenSeq, FlattenRun
  <2> HIDE DEF f
  <2> HIDE DEF f
  <2>11. f[1] = parts[1] /\ \A i \in 1 .. n : i # 1 => f[i] = f[i - 1] \o parts[i]
    <3>1. f[1] = parts[1]  BY <1>3, <2>9 DEF FlattenRun
    <3>2. ASSUME NEW i \in 1 .. n, i # 1
          PROVE  f[i] = f[i - 1] \o parts[i]
      BY <2>9, <3>2 DEF FlattenRun
    <3>3. QED  BY <3>1, <3>2
  <2>12. PICK r : r = [i \in 0 .. n |-> IF i = 0 THEN <<>> ELSE f[i]]  OBVIOUS
  <2>13. \A i \in 1 .. n : r[i] = r[i - 1] \o parts[i]
    <3>1. r[0] = <<>> /\ \A i \in 1 .. n : r[i] = f[i]  BY <2>12
    <3>2. ASSUME NEW i \in 1 .. n
          PROVE  r[i] = r[i - 1] \o parts[i]
      <4>1. CASE i = 1
        <5>1. i - 1 = 0 /\ <<>> \o parts[1] = parts[1]  BY <4>1
        <5>2. QED  BY <2>11, <3>1, <4>1, <5>1
      <4>2. CASE i # 1
        <5>1. i - 1 \in 1 .. n  BY <4>2
        <5>2. QED  BY <2>11, <3>1, <4>2, <5>1
      <4>3. QED  BY <4>1, <4>2
    <3>3. QED  BY <3>2
  <2>14. \A i \in 1 .. n : r[i - 1] \in T => r[i] \in T
    <3>1. \A z \in T, i \in 1 .. n : z \o parts[i] \in T  OBVIOUS
    <3> HIDE DEF T
    <3>2. QED  BY <2>13, <3>1
  <2>15. r[0] = <<>> /\ r[0] \in T  BY <2>12
  <2>16. \A i \in 0 .. n : r[i] \in T
    <3> HIDE DEF T
    <3>1. QED  BY <2>14, <2>15, ValuesTyped
  <2>17. r \in [0 .. n -> T]  BY <2>12, <2>16
  <2>18. r[n] = f[n]  BY <1>3, <2>12
  <2>19. FlattenValues(r, S, n, parts)
    BY <2>10, <2>13, <2>15, <2>17, <2>18 DEF FlattenValues
  <2>20. QED  BY <2>19
<1>4. QED  BY <1>2, <1>3

\* The concatenation of sequences over a set is one, of all their elements.
LEMMA FlattenType ==
    ASSUME NEW S, NEW n \in Nat, NEW parts \in [1 .. n -> Seq(S)]
    PROVE  FlattenSeq(parts) \in Seq(S)
<1>1. PICK g : FlattenValues(g, S, n, parts)  BY FlattenEquation
<1>2. g \in [0 .. n -> Seq(S)] /\ g[n] = FlattenSeq(parts)  BY <1>1 DEF FlattenValues
<1>3. g[n] \in Seq(S)  BY <1>2
<1>4. QED  BY <1>2, <1>3

\* The elements of the parts are those of the flattened list.
LEMMA FlattenExact ==
    ASSUME NEW S, NEW n \in Nat, NEW parts \in [1 .. n -> Seq(S)]
    PROVE  \A x : x \in ToSet(FlattenSeq(parts)) <=> \E i \in 1 .. n : x \in ToSet(parts[i])
<1>1. PICK g : FlattenValues(g, S, n, parts)  BY FlattenEquation
<1>2. /\ g \in [0 .. n -> Seq(S)] /\ g[0] = <<>> /\ g[n] = FlattenSeq(parts)
      /\ \A i \in 1 .. n : g[i] = g[i - 1] \o parts[i]
  BY <1>1 DEF FlattenValues
<1> DEFINE Exact(m) == \A x : x \in ToSet(g[m]) <=> \E i \in 1 .. m : x \in ToSet(parts[i])
           Good == {m \in Nat : m <= n => Exact(m)}
<1>3. 0 \in Good
  <2>1. ToSet(g[0]) = {}  BY <1>2 DEF ToSet
  <2>2. QED  BY <2>1
<1>4. ASSUME NEW m \in Nat, m \in Good
      PROVE  m + 1 \in Good
  <2> SUFFICES ASSUME m + 1 <= n
               PROVE  Exact(m + 1)
    OBVIOUS
  <2>1. m \in 0 .. n /\ m + 1 \in 1 .. n /\ (m + 1) - 1 = m  OBVIOUS
  <2>2. g[m] \in Seq(S) /\ parts[m + 1] \in Seq(S)  BY <1>2, <2>1
  <2>3. g[m + 1] = g[m] \o parts[m + 1]  BY <1>2, <2>1
  <2>4. ToSet(g[m + 1]) = ToSet(g[m]) \cup ToSet(parts[m + 1])  BY <2>2, <2>3, Joined2
  <2>5. \A i \in 1 .. m + 1 : i \in 1 .. m \/ i = m + 1  OBVIOUS
  <2>6. m + 1 \in 1 .. m + 1 /\ \A i \in 1 .. m : i \in 1 .. m + 1  OBVIOUS
  <2>7. Exact(m)  BY <1>4
  <2>8. QED  BY <2>4, <2>5, <2>6, <2>7
<1>5. n \in Good
  <2> HIDE DEF Good
  <2>1. QED  BY <1>3, <1>4, SetInduction
<1>6. Exact(n)  BY <1>5
<1>7. QED  BY <1>2, <1>6

\* Ordered parts whose elements may follow each other flatten in order.
LEMMA FlattenOrdered ==
    ASSUME NEW S, NEW n \in Nat, NEW parts \in [1 .. n -> Seq(S)], NEW R,
           \A i \in 1 .. n : Ordered(parts[i], R),
           \A i, j \in 1 .. n : i < j =>
               \A x \in ToSet(parts[i]), y \in ToSet(parts[j]) : <<x, y>> \in R
    PROVE  Ordered(FlattenSeq(parts), R)
<1>1. PICK g : FlattenValues(g, S, n, parts)  BY FlattenEquation
<1>2. /\ g \in [0 .. n -> Seq(S)] /\ g[0] = <<>> /\ g[n] = FlattenSeq(parts)
      /\ \A i \in 1 .. n : g[i] = g[i - 1] \o parts[i]
  BY <1>1 DEF FlattenValues
<1> DEFINE Kept(m) == /\ Ordered(g[m], R)
                      /\ \A x \in ToSet(g[m]) : \E i \in 1 .. m : x \in ToSet(parts[i])
           Good == {m \in Nat : m <= n => Kept(m)}
<1>3. 0 \in Good
  <2>1. ToSet(g[0]) = {} /\ Ordered(g[0], R)  BY <1>2 DEF ToSet, Ordered
  <2>2. QED  BY <2>1
<1>4. ASSUME NEW m \in Nat, m \in Good
      PROVE  m + 1 \in Good
  <2> SUFFICES ASSUME m + 1 <= n
               PROVE  Kept(m + 1)
    OBVIOUS
  <2>1. m \in 0 .. n /\ m + 1 \in 1 .. n /\ (m + 1) - 1 = m  OBVIOUS
  <2>2. g[m] \in Seq(S) /\ parts[m + 1] \in Seq(S)  BY <1>2, <2>1
  <2>3. g[m + 1] = g[m] \o parts[m + 1]  BY <1>2, <2>1
  <2>4. ToSet(g[m + 1]) = ToSet(g[m]) \cup ToSet(parts[m + 1])  BY <2>2, <2>3, Joined2
  <2>5. Kept(m)  BY <1>4
  <2>6. m + 1 \in 1 .. m + 1 /\ \A i \in 1 .. m : i \in 1 .. m + 1 /\ i \in 1 .. n /\ i < m + 1
    OBVIOUS
  <2>7. \A x \in ToSet(g[m]), y \in ToSet(parts[m + 1]) : <<x, y>> \in R
    BY <2>1, <2>5, <2>6
  <2>8. Ordered(parts[m + 1], R)  BY <2>1
  <2>9. Ordered(g[m + 1], R)  BY <2>2, <2>3, <2>5, <2>7, <2>8, JoinedOrdered
  <2>10. QED  BY <2>4, <2>5, <2>6, <2>9
<1>5. n \in Good
  <2> HIDE DEF Good
  <2>1. QED  BY <1>3, <1>4, SetInduction
<1>6. QED  BY <1>2, <1>5

-----------------------------------------------------------------------------
(* The points of a list of queries.                                        *)

\* What a list of queries over Q is made of.
ComsOf(Q) == {q.com : q \in Q}
PointsIn(Q) == {q.point : q \in Q}

\* The commitments of the queries are a list.
LEMMA KeysOfType ==
    ASSUME NEW Q, NEW qs \in Seq(Q)
    PROVE  KeysOf(qs) \in Seq(ComsOf(Q))
<1>1. [i \in DOMAIN qs |-> qs[i].com] \in Seq(ComsOf(Q))  BY DEF ComsOf
<1>2. QED  BY <1>1, FirstOccurrencesExact DEF KeysOf

\* The points of a commitment are a list.
LEMMA PointsOfType ==
    ASSUME NEW Q, NEW qs \in Seq(Q), NEW com
    PROVE  PointsOf(qs, com) \in Seq(PointsIn(Q))
<1>1. PICK mine : mine = Chosen(qs, {q \in ToSet(qs) : q.com = com})  OBVIOUS
<1>2. mine \in Seq(Q)  BY <1>1, ChosenExact
<1>3. [i \in DOMAIN mine |-> mine[i].point] \in Seq(PointsIn(Q))
  BY <1>2 DEF PointsIn
<1>4. QED  BY <1>1, <1>3 DEF PointsOf

\* The points of the commitments opened at several are a list.
LEMMA UnionPointsType ==
    ASSUME NEW Q, NEW qs \in Seq(Q)
    PROVE  UnionPoints(qs) \in Seq(PointsIn(Q))
<1>1. PICK keys : keys = KeysOf(qs)  OBVIOUS
<1>2. PICK n \in Nat : Len(keys) = n /\ DOMAIN keys = 1 .. n
  BY <1>1, KeysOfType
<1>3. PICK parts : parts = [i \in DOMAIN keys |-> UnlessOne(PointsOf(qs, keys[i]))]
  OBVIOUS
<1>4. parts \in [1 .. n -> Seq(PointsIn(Q))]
  <2>1. ASSUME NEW i \in 1 .. n
        PROVE  UnlessOne(PointsOf(qs, keys[i])) \in Seq(PointsIn(Q))
    BY PointsOfType DEF UnlessOne
  <2>2. QED  BY <1>2, <1>3, <2>1
<1>5. FlattenSeq(parts) \in Seq(PointsIn(Q))
  BY <1>4, FlattenType
<1>6. FirstOccurrences(FlattenSeq(parts)) \in Seq(PointsIn(Q))
  BY <1>5, FirstOccurrencesExact
<1>7. QED  BY <1>1, <1>3, <1>6 DEF UnionPoints, UnionOfPoints

\* The dummy queries pair the commitments with the points of the list.
LEMMA DummyQueriesType ==
    ASSUME NEW Q, NEW qs \in Seq(Q)
    PROVE  DummyQueries(qs) \in Seq([com : ComsOf(Q), point : PointsIn(Q)])
<1> DEFINE D == [com : ComsOf(Q), point : PointsIn(Q)]
<1>1. PICK keys \in Seq(ComsOf(Q)) : keys = KeysOf(qs)  BY KeysOfType
<1>2. PICK n \in Nat : Len(keys) = n /\ DOMAIN keys = 1 .. n  OBVIOUS
<1>3. PICK union \in Seq(PointsIn(Q)) : union = UnionPoints(qs)  BY UnionPointsType
<1>4. PICK parts : parts = [i \in DOMAIN keys |->
            PadKey(keys[i], Chosen(union, ToSet(union) \ ToSet(PointsOf(qs, keys[i]))))]
  OBVIOUS
<1>5. ASSUME NEW com \in ComsOf(Q), NEW missing \in Seq(PointsIn(Q))
      PROVE  PadKey(com, missing) \in Seq(D)
  <2>1. PICK t \in Nat : DOMAIN missing = 1 .. t  OBVIOUS
  <2>2. ASSUME NEW i \in 1 .. t
        PROVE  [com |-> com, point |-> missing[i]] \in D
    BY <2>1
  <2> HIDE DEF D
  <2>3. PadKey(com, missing) \in [1 .. t -> D]  BY <2>1, <2>2 DEF PadKey
  <2>4. QED  BY <2>3
<1>6. parts \in [1 .. n -> Seq(D)]
  <2> HIDE DEF D
  <2>1. ASSUME NEW i \in 1 .. n
        PROVE  PadKey(keys[i], Chosen(union, ToSet(union) \ ToSet(PointsOf(qs, keys[i]))))
                   \in Seq(D)
    <3>1. PICK missing : missing = Chosen(union, ToSet(union) \ ToSet(PointsOf(qs, keys[i])))
      OBVIOUS
    <3>2. missing \in Seq(PointsIn(Q))  BY <3>1, ChosenExact
    <3>3. keys[i] \in ComsOf(Q)  BY <1>2
    <3>4. QED  BY <1>5, <3>1, <3>2, <3>3
  <2>2. QED  BY <1>2, <1>4, <2>1
<1>7. FlattenSeq(parts) \in Seq(D)
  <2> HIDE DEF D
  <2>1. QED  BY <1>6, FlattenType
<1>8. QED  BY <1>1, <1>3, <1>4, <1>7 DEF DummyQueries, PadKeys

\* The sets of points can be counted.
LEMMA SetCountType ==
    ASSUME NEW Q, NEW qs \in Seq(Q)
    PROVE  SetCount(qs) \in Nat
<1>1. PICK keys \in Seq(ComsOf(Q)) : keys = KeysOf(qs)  BY KeysOfType
<1>2. PICK sets : sets = [i \in DOMAIN keys |-> ToSet(PointsOf(qs, keys[i]))]  OBVIOUS
<1>3. sets \in Seq(SUBSET PointsIn(Q))
  <2>1. PICK n \in Nat : Len(keys) = n /\ DOMAIN keys = 1 .. n  OBVIOUS
  <2>2. ASSUME NEW i \in 1 .. n
        PROVE  ToSet(PointsOf(qs, keys[i])) \in SUBSET PointsIn(Q)
    <3>1. PICK points \in Seq(PointsIn(Q)) : points = PointsOf(qs, keys[i])
      BY PointsOfType
    <3>2. QED  BY <3>1 DEF ToSet
  <2>3. sets \in [1 .. n -> SUBSET PointsIn(Q)]  BY <1>2, <2>1, <2>2
  <2>4. QED  BY <2>3
<1>4. FirstOccurrences(sets) \in Seq(SUBSET PointsIn(Q))
  BY <1>3, FirstOccurrencesExact
<1>5. QED  BY <1>1, <1>2, <1>4 DEF SetCount, PointSetsOf

-----------------------------------------------------------------------------
(* Which points a commitment is opened at, before and after the padding.   *)

Coms(qs) == {q.com : q \in ToSet(qs)}
PointsAt(qs, com) == {q.point : q \in {r \in ToSet(qs) : r.com = com}}

\* Every commitment that is queried is listed once.
LEMMA KeysOfExact ==
    ASSUME NEW Q, NEW qs \in Seq(Q)
    PROVE  ToSet(KeysOf(qs)) = Coms(qs) /\ Distinct(KeysOf(qs))
<1>1. PICK coms : coms = [i \in DOMAIN qs |-> qs[i].com]  OBVIOUS
<1>2. coms \in Seq(ComsOf(Q))  BY <1>1 DEF ComsOf
<1>3. ToSet(coms) = Coms(qs)
  <2>1. PICK n \in Nat : DOMAIN qs = 1 .. n  OBVIOUS
  <2>2. DOMAIN coms = 1 .. n  BY <1>1, <2>1
  <2>3. QED  BY <1>1, <2>1, <2>2 DEF ToSet, Coms
<1>4. KeysOf(qs) = FirstOccurrences(coms)  BY <1>1 DEF KeysOf
<1>5. QED  BY <1>2, <1>3, <1>4, FirstOccurrencesExact

\* Every point of a commitment is listed, once if no query is repeated.
LEMMA PointsOfExact ==
    ASSUME NEW C, NEW P, NEW qs \in Seq([com : C, point : P]), NEW com
    PROVE  /\ PointsOf(qs, com) \in Seq(P)
           /\ ToSet(PointsOf(qs, com)) = PointsAt(qs, com)
           /\ Distinct(qs) => Distinct(PointsOf(qs, com))
<1> DEFINE Q == [com : C, point : P]
           S == {q \in ToSet(qs) : q.com = com}
<1>1. PICK mine : mine = Chosen(qs, S)  OBVIOUS
<1>2. mine \in Seq(Q) /\ ToSet(mine) = ToSet(qs) \cap S
  <2> HIDE DEF Q, S
  <2>1. qs \in Seq(Q)  BY DEF Q
  <2>2. QED  BY <1>1, <2>1, ChosenExact
<1>3. PICK points : points = [i \in DOMAIN mine |-> mine[i].point]  OBVIOUS
<1>4. PointsOf(qs, com) = points  BY <1>1, <1>3 DEF PointsOf
<1>5. PICK n \in Nat : DOMAIN mine = 1 .. n  BY <1>2
<1>6. \A i \in 1 .. n : mine[i] \in Q /\ mine[i] \in S
  <2>1. \A i \in 1 .. n : mine[i] \in Q
    <3> HIDE DEF Q
    <3>1. QED  BY <1>2, <1>5
  <2>2. \A i \in 1 .. n : mine[i] \in ToSet(mine)  BY <1>5 DEF ToSet
  <2>3. QED  BY <1>2, <2>1, <2>2
<1>7. DOMAIN points = 1 .. n /\ \A i \in 1 .. n : points[i] = mine[i].point  BY <1>3, <1>5
<1>8. points \in Seq(P)
  <2>1. points \in [1 .. n -> P]  BY <1>3, <1>5, <1>6
  <2>2. QED  BY <2>1
<1>9. ToSet(points) = PointsAt(qs, com)
  <2>1. ToSet(points) = {mine[i].point : i \in 1 .. n}  BY <1>7 DEF ToSet
  <2>2. S = {mine[i] : i \in 1 .. n}
    <3>1. ToSet(mine) = {mine[i] : i \in 1 .. n}  BY <1>5 DEF ToSet
    <3>2. ToSet(mine) = S  BY <1>2
    <3>3. QED  BY <3>1, <3>2
  <2>3. PointsAt(qs, com) = {q.point : q \in S}  BY DEF PointsAt
  <2> HIDE DEF S
  <2>4. QED  BY <2>1, <2>2, <2>3
<1>10. ASSUME Distinct(qs)
       PROVE  Distinct(points)
  <2>1. Ordered(qs, Different(Q))
    <3> HIDE DEF Q
    <3>1. qs \in Seq(Q)  BY DEF Q
    <3>2. QED  BY <1>10, <3>1, DistinctOrdered
  <2>2. Distinct(mine)
    <3> HIDE DEF Q, S
    <3>1. qs \in Seq(Q)  BY DEF Q
    <3>2. Ordered(mine, Different(Q))  BY <1>1, <2>1, <3>1, ChosenOrdered
    <3>3. QED  BY <1>2, <3>2, DistinctOrdered
  <2>3. ASSUME NEW i \in 1 .. n, NEW j \in 1 .. n, points[i] = points[j]
        PROVE  i = j
    <3>1. mine[i].com = mine[j].com /\ mine[i].point = mine[j].point  BY <1>6, <1>7, <2>3
    <3>2. mine[i] = mine[j]  BY <1>6, <3>1
    <3>3. QED  BY <1>5, <2>2, <3>2 DEF Distinct
  <2>4. QED  BY <1>7, <2>3 DEF Distinct
<1>11. QED  BY <1>4, <1>8, <1>9, <1>10

\* Every point of a commitment opened at several is in the union, once.
LEMMA UnionPointsExact ==
    ASSUME NEW C, NEW P, NEW qs \in Seq([com : C, point : P])
    PROVE  /\ UnionPoints(qs) \in Seq(P) /\ Distinct(UnionPoints(qs))
           /\ \A com \in Coms(qs) :
                 Len(PointsOf(qs, com)) # 1 => PointsAt(qs, com) \subseteq ToSet(UnionPoints(qs))
<1> DEFINE Q == [com : C, point : P]
<1>1. PICK keys \in Seq(ComsOf(Q)) : keys = KeysOf(qs)
  <2> HIDE DEF Q
  <2>1. qs \in Seq(Q)  BY DEF Q
  <2>2. QED  BY <2>1, KeysOfType
<1>2. ToSet(keys) = Coms(qs)
  <2> HIDE DEF Q
  <2>1. qs \in Seq(Q)  BY DEF Q
  <2>2. QED  BY <1>1, <2>1, KeysOfExact
<1>3. PICK n \in Nat : DOMAIN keys = 1 .. n  OBVIOUS
<1>4. PICK parts : parts = [i \in DOMAIN keys |-> UnlessOne(PointsOf(qs, keys[i]))]
  OBVIOUS
<1>5. parts \in [1 .. n -> Seq(P)]
  <2>1. ASSUME NEW i \in 1 .. n
        PROVE  UnlessOne(PointsOf(qs, keys[i])) \in Seq(P)
    <3>1. PointsOf(qs, keys[i]) \in Seq(P)  BY PointsOfExact
    <3>2. QED  BY <3>1 DEF UnlessOne
  <2>2. QED  BY <1>3, <1>4, <2>1
<1>6. PICK all : all = FlattenSeq(parts)  OBVIOUS
<1>7. all \in Seq(P) /\ \A x : x \in ToSet(all) <=> \E i \in 1 .. n : x \in ToSet(parts[i])
  BY <1>5, <1>6, FlattenType, FlattenExact
<1>8. UnionPoints(qs) = FirstOccurrences(all)
  BY <1>1, <1>4, <1>6 DEF UnionPoints, UnionOfPoints
<1>9. /\ UnionPoints(qs) \in Seq(P) /\ Distinct(UnionPoints(qs))
      /\ ToSet(UnionPoints(qs)) = ToSet(all)
  BY <1>7, <1>8, FirstOccurrencesExact
<1>10. ASSUME NEW com \in Coms(qs), Len(PointsOf(qs, com)) # 1
       PROVE  PointsAt(qs, com) \subseteq ToSet(all)
  <2>1. PICK i \in 1 .. n : keys[i] = com  BY <1>2, <1>3 DEF ToSet
  <2>2. parts[i] = PointsOf(qs, com)  BY <1>3, <1>4, <1>10, <2>1 DEF UnlessOne
  <2>3. ToSet(parts[i]) = PointsAt(qs, com)  BY <2>2, PointsOfExact
  <2>4. QED  BY <1>7, <2>3
<1>11. QED  BY <1>9, <1>10

\* What is missing to open every commitment at every point of the union.
Missing(qs) ==
    {q \in [com : Coms(qs), point : ToSet(UnionPoints(qs))] : q.point \notin PointsAt(qs, q.com)}

\* A list opens com at each of the points once.
Opens(list, Q, com, points) ==
    /\ list \in Seq(Q) /\ Ordered(list, Different(Q))
    /\ ToSet(list) = {[com |-> com, point |-> p] : p \in points}

\* The queries the padding adds for one commitment.
LEMMA PadKeyExact ==
    ASSUME NEW C, NEW P, NEW com \in C, NEW union \in Seq(P), Distinct(union), NEW S
    PROVE  Opens(PadKey(com, Chosen(union, S)), [com : C, point : P], com, ToSet(union) \cap S)
<1> DEFINE Q == [com : C, point : P]
<1>1. PICK list : list = Chosen(union, S)  OBVIOUS
<1>2. list \in Seq(P) /\ ToSet(list) = ToSet(union) \cap S /\ Distinct(list)
  <2>1. list \in Seq(P) /\ ToSet(list) = ToSet(union) \cap S  BY <1>1, ChosenExact
  <2>2. Ordered(union, Different(P))  BY DistinctOrdered
  <2>3. Ordered(list, Different(P))  BY <1>1, <2>2, ChosenOrdered
  <2>4. QED  BY <2>1, <2>3, DistinctOrdered
<1>3. PICK n \in Nat : DOMAIN list = 1 .. n /\ list \in [1 .. n -> P]  BY <1>2
<1>4. PICK pad : pad = PadKey(com, list)  OBVIOUS
<1>5. DOMAIN pad = 1 .. n /\ \A i \in 1 .. n : pad[i] = [com |-> com, point |-> list[i]]
  BY <1>3, <1>4 DEF PadKey
<1>6. pad \in [1 .. n -> Q]
  <2>1. \A i \in 1 .. n : [com |-> com, point |-> list[i]] \in Q  BY <1>3
  <2>2. pad = [i \in 1 .. n |-> [com |-> com, point |-> list[i]]]
    BY <1>3, <1>4 DEF PadKey
  <2> HIDE DEF Q
  <2>3. QED  BY <2>1, <2>2
<1>7. pad \in Seq(Q)
  <2> HIDE DEF Q
  <2>1. QED  BY <1>6
<1>8. ToSet(pad) = {[com |-> com, point |-> p] : p \in ToSet(list)}
  <2>1. ToSet(list) = {list[i] : i \in 1 .. n}  BY <1>3 DEF ToSet
  <2>2. ToSet(pad) = {[com |-> com, point |-> list[i]] : i \in 1 .. n}  BY <1>5 DEF ToSet
  <2>3. QED  BY <2>1, <2>2
<1>9. Distinct(pad)
  <2>1. ASSUME NEW i \in 1 .. n, NEW j \in 1 .. n, pad[i] = pad[j]
        PROVE  i = j
    <3>1. pad[i].point = list[i] /\ pad[j].point = list[j]  BY <1>5
    <3>2. list[i] = list[j]  BY <2>1, <3>1
    <3>3. QED  BY <1>2, <1>3, <3>2 DEF Distinct
  <2>2. QED  BY <1>5, <2>1 DEF Distinct
<1>10. Ordered(pad, Different(Q))
  <2> HIDE DEF Q
  <2>1. QED  BY <1>7, <1>9, DistinctOrdered
<1>11. QED  BY <1>1, <1>2, <1>4, <1>7, <1>8, <1>10 DEF Opens

\* The dummy queries are the missing ones, each once.
LEMMA DummiesExact ==
    ASSUME NEW C, NEW P, NEW qs \in Seq([com : C, point : P])
    PROVE  /\ DummyQueries(qs) \in Seq([com : C, point : P])
           /\ ToSet(DummyQueries(qs)) = Missing(qs)
           /\ Distinct(DummyQueries(qs))
<1> DEFINE Q == [com : C, point : P]
           R == Different(Q)
<1>0. \A com : ToSet(PointsOf(qs, com)) = PointsAt(qs, com)  BY PointsOfExact
<1>1. PICK keys : keys = KeysOf(qs)  OBVIOUS
<1>2. keys \in Seq(C) /\ ToSet(keys) = Coms(qs) /\ Distinct(keys)
  <2>1. keys \in Seq(ComsOf(Q)) /\ ToSet(keys) = Coms(qs) /\ Distinct(keys)
    <3> HIDE DEF Q
    <3>1. qs \in Seq(Q)  BY DEF Q
    <3>2. QED  BY <1>1, <3>1, KeysOfType, KeysOfExact
  <2>2. ComsOf(Q) \subseteq C  BY DEF ComsOf
  <2>3. keys \in Seq(C)
    <3>1. PICK D : D = ComsOf(Q)  OBVIOUS
    <3>2. keys \in Seq(D) /\ D \subseteq C  BY <2>1, <2>2, <3>1
    <3>3. QED  BY <3>2
  <2>4. QED  BY <2>1, <2>3
<1>3. PICK n \in Nat : DOMAIN keys = 1 .. n /\ keys \in [1 .. n -> C]  BY <1>2
<1>4. PICK union : union = UnionPoints(qs)  OBVIOUS
<1>5. union \in Seq(P) /\ Distinct(union)  BY <1>4, UnionPointsExact
<1> DEFINE Rest(i) == ToSet(union) \ ToSet(PointsOf(qs, keys[i]))
<1>6. PICK parts : parts = [i \in DOMAIN keys |-> PadKey(keys[i], Chosen(union, Rest(i)))]
  OBVIOUS
<1>7. \A i \in 1 .. n : parts[i] = PadKey(keys[i], Chosen(union, Rest(i)))
  BY <1>3, <1>6
<1>8. ASSUME NEW i \in 1 .. n
      PROVE  /\ parts[i] \in Seq(Q) /\ Ordered(parts[i], R)
             /\ ToSet(parts[i]) = {[com |-> keys[i], point |-> p] : p \in Rest(i)}
  <2>1. keys[i] \in C  BY <1>3
  <2>2. PICK S : S = Rest(i)  OBVIOUS
  <2>3. PICK com \in C : com = keys[i]  BY <2>1
  <2>4. parts[i] = PadKey(com, Chosen(union, S))  BY <1>7, <2>2, <2>3
  <2>5. /\ parts[i] \in Seq(Q) /\ Ordered(parts[i], R)
        /\ ToSet(parts[i]) = {[com |-> com, point |-> p] : p \in ToSet(union) \cap S}
    <3>1. Opens(parts[i], [com : C, point : P], com, ToSet(union) \cap S)
      BY <1>5, <2>3, <2>4, PadKeyExact
    <3>2. QED  BY <3>1 DEF Opens
  <2>6. ToSet(union) \cap S = Rest(i)  BY <2>2
  <2> HIDE DEF Rest, Q, R
  <2>7. QED  BY <2>3, <2>5, <2>6
<1>9. parts \in [1 .. n -> Seq(Q)]
  <2> HIDE DEF Q, R, Rest
  <2>1. QED  BY <1>3, <1>6, <1>8
<1>10. DummyQueries(qs) = FlattenSeq(parts)
  BY <1>1, <1>4, <1>6 DEF DummyQueries, PadKeys
<1>11. \A i, j \in 1 .. n : i < j =>
          \A x \in ToSet(parts[i]), y \in ToSet(parts[j]) : <<x, y>> \in R
  <2> SUFFICES ASSUME NEW i \in 1 .. n, NEW j \in 1 .. n, i < j,
                      NEW x \in ToSet(parts[i]), NEW y \in ToSet(parts[j])
               PROVE  <<x, y>> \in R
    OBVIOUS
  <2>1. x.com = keys[i] /\ y.com = keys[j]
    <3> HIDE DEF Q, R, Rest
    <3>1. QED  BY <1>8
  <2>2. keys[i] # keys[j]  BY <1>2, <1>3 DEF Distinct
  <2>3. ToSet(parts[i]) \subseteq Q /\ ToSet(parts[j]) \subseteq Q
    <3> HIDE DEF Q, R, Rest
    <3>1. parts[i] \in Seq(Q) /\ parts[j] \in Seq(Q)  BY <1>9
    <3>2. QED  BY <3>1 DEF ToSet
  <2>4. x # y  BY <2>1, <2>2
  <2> HIDE DEF Q
  <2>5. QED  BY <2>3, <2>4 DEF Different
<1>12. FlattenSeq(parts) \in Seq(Q) /\ Ordered(FlattenSeq(parts), R)
  <2> HIDE DEF Q, R, Rest
  <2>1. FlattenSeq(parts) \in Seq(Q)  BY <1>9, FlattenType
  <2>2. \A i \in 1 .. n : Ordered(parts[i], R)  BY <1>8
  <2>3. QED  BY <1>9, <1>11, <2>1, <2>2, FlattenOrdered
<1>13. \A x : x \in ToSet(FlattenSeq(parts)) <=> \E i \in 1 .. n : x \in ToSet(parts[i])
  <2> HIDE DEF Q, R, Rest
  <2>1. QED  BY <1>9, FlattenExact
<1>14. ToSet(FlattenSeq(parts)) = Missing(qs)
  <2>1. ASSUME NEW q \in Missing(qs)
        PROVE  \E i \in 1 .. n : q \in ToSet(parts[i])
    <3>1. q.com \in Coms(qs) /\ q.point \in ToSet(union) \ PointsAt(qs, q.com)
          /\ q = [com |-> q.com, point |-> q.point]
      BY <1>4 DEF Missing
    <3>2. PICK i \in 1 .. n : keys[i] = q.com  BY <1>2, <1>3, <3>1 DEF ToSet
    <3>3. ToSet(PointsOf(qs, keys[i])) = PointsAt(qs, q.com)  BY <1>0, <3>2
    <3>4. q.point \in Rest(i)  BY <3>1, <3>3
    <3> HIDE DEF Rest
    <3>5. QED  BY <1>8, <3>1, <3>2, <3>4
  <2>2. ASSUME NEW i \in 1 .. n, NEW q \in ToSet(parts[i])
        PROVE  q \in Missing(qs)
    <3>1. PICK p \in Rest(i) : q = [com |-> keys[i], point |-> p]
      <4> HIDE DEF Rest
      <4>1. QED  BY <1>8
    <3>2. ToSet(PointsOf(qs, keys[i])) = PointsAt(qs, keys[i])  BY <1>0
    <3>3. keys[i] \in Coms(qs)  BY <1>2, <1>3 DEF ToSet
    <3>4. q.com = keys[i] /\ q.point = p  BY <3>1
    <3>5. q \in [com : Coms(qs), point : ToSet(UnionPoints(qs))]  BY <1>4, <3>1, <3>3
    <3>6. q.point \notin PointsAt(qs, q.com)  BY <3>1, <3>2, <3>4
    <3>7. QED  BY <3>5, <3>6 DEF Missing
  <2>3. QED  BY <1>13, <2>1, <2>2
<1>15. Distinct(FlattenSeq(parts))
  <2> HIDE DEF Q
  <2>1. QED  BY <1>12, DistinctOrdered DEF R
<1>16. QED  BY <1>10, <1>12, <1>14, <1>15

\* The padding repeats no query, and brings every commitment to the union of the
\* points of those that are opened at several.
LEMMA PaddedExact ==
    ASSUME NEW C, NEW P, NEW qs \in Seq([com : C, point : P])
    PROVE  LET padded == qs \o DummyQueries(qs)
           IN  /\ padded \in Seq([com : C, point : P])
               /\ Distinct(qs) => Distinct(padded)
               /\ Coms(padded) = Coms(qs)
               /\ \A com \in Coms(qs) :
                     PointsAt(padded, com) = PointsAt(qs, com) \cup ToSet(UnionPoints(qs))
<1> DEFINE Q == [com : C, point : P]
<1>1. PICK dummies : dummies = DummyQueries(qs)  OBVIOUS
<1>2. dummies \in Seq(Q) /\ ToSet(dummies) = Missing(qs) /\ Distinct(dummies)
  BY <1>1, DummiesExact
<1>3. PICK padded : padded = qs \o dummies  OBVIOUS
<1>4. padded \in Seq(Q) /\ ToSet(padded) = ToSet(qs) \cup Missing(qs)
  <2> HIDE DEF Q
  <2>1. qs \in Seq(Q)  BY DEF Q
  <2>2. QED  BY <1>2, <1>3, <2>1, Joined2
<1>5. ASSUME Distinct(qs)
      PROVE  Distinct(padded)
  <2> HIDE DEF Q
  <2>1. qs \in Seq(Q)  BY DEF Q
  <2>2. Ordered(qs, Different(Q)) /\ Ordered(dummies, Different(Q))
    BY <1>2, <1>5, <2>1, DistinctOrdered
  <2>3. ToSet(qs) \subseteq Q /\ ToSet(dummies) \subseteq Q  BY <1>2, <2>1 DEF ToSet
  <2>4. \A x \in ToSet(qs) : x \notin Missing(qs)  BY DEF Missing, PointsAt
  <2>5. \A x \in ToSet(qs), y \in ToSet(dummies) : <<x, y>> \in Different(Q)
    BY <1>2, <2>3, <2>4 DEF Different
  <2>6. Ordered(padded, Different(Q))  BY <1>2, <1>3, <2>1, <2>2, <2>5, JoinedOrdered
  <2>7. QED  BY <1>4, <2>6, DistinctOrdered
<1>6. Coms(padded) = Coms(qs)
  <2>1. \A q \in Missing(qs) : q.com \in Coms(qs)  BY DEF Missing
  <2>2. QED  BY <1>4, <2>1 DEF Coms
<1>7. ASSUME NEW com \in Coms(qs)
      PROVE  PointsAt(padded, com) = PointsAt(qs, com) \cup ToSet(UnionPoints(qs))
  <2>1. ASSUME NEW p \in ToSet(UnionPoints(qs)), p \notin PointsAt(qs, com)
        PROVE  p \in PointsAt(padded, com)
    <3>1. PICK q : q = [com |-> com, point |-> p]  OBVIOUS
    <3>2. q \in Missing(qs)  BY <2>1, <3>1 DEF Missing
    <3>3. q.com = com /\ q.point = p  BY <3>1
    <3>4. QED  BY <1>4, <3>2, <3>3 DEF PointsAt
  <2>2. \A q \in Missing(qs) : q.point \in ToSet(UnionPoints(qs))  BY DEF Missing
  <2>3. PointsAt(qs, com) \subseteq PointsAt(padded, com)  BY <1>4 DEF PointsAt
  <2>4. PointsAt(padded, com) \subseteq PointsAt(qs, com) \cup ToSet(UnionPoints(qs))
    BY <1>4, <2>2 DEF PointsAt
  <2>5. QED  BY <2>1, <2>3, <2>4
<1>8. QED  BY <1>1, <1>3, <1>4, <1>5, <1>6, <1>7

-----------------------------------------------------------------------------
(* Positions, and the lists of sets.                                       *)

\* The least of some numbers is one of them.
LEMMA LeastOf ==
    ASSUME NEW I, I \subseteq Nat, I # {}
    PROVE  Min(I) \in I
<1>1. \E m \in I : \A n \in I : m =< n  BY LeastElement
<1>2. QED  BY <1>1 DEF Min

\* The position of an element is where it is.
LEMMA PositionExact ==
    ASSUME NEW T, NEW s \in Seq(T), NEW e
    PROVE  /\ e \in ToSet(s) => Position(s, e) \in DOMAIN s /\ s[Position(s, e)] = e
           /\ Contains(s, e) <=> e \in ToSet(s)
<1>1. PICK n \in Nat : Len(s) = n /\ DOMAIN s = 1 .. n  OBVIOUS
<1>2. PICK I : I = {i \in 1 .. n : s[i] = e}  OBVIOUS
<1>3. Position(s, e) = IF I # {} THEN Min(I) ELSE 0
  BY <1>1, <1>2 DEF Position, SelectInSeq
<1>4. I \subseteq Nat  BY <1>2
<1>5. ASSUME e \in ToSet(s)
      PROVE  Position(s, e) \in DOMAIN s /\ s[Position(s, e)] = e
  <2>1. I # {}  BY <1>1, <1>2, <1>5 DEF ToSet
  <2>2. Position(s, e) \in I  BY <1>3, <1>4, <2>1, LeastOf
  <2>3. QED  BY <1>1, <1>2, <2>2
<1>6. Contains(s, e) <=> e \in ToSet(s)  BY <1>1 DEF Contains, ToSet
<1>7. QED  BY <1>5, <1>6

\* The indices of a set in ascending order are those of the set, each once.
LEMMA AscendingExact ==
    ASSUME NEW P, NEW points \in Seq(P), NEW S \in SUBSET DOMAIN points
    PROVE  /\ Ascending(points, S) \in Seq(S)
           /\ ToSet(Ascending(points, S)) = S
           /\ Distinct(Ascending(points, S))
<1>1. PICK n \in Nat : DOMAIN points = 1 .. n  OBVIOUS
<1>2. PICK all : all = [i \in 1 .. n |-> i]  OBVIOUS
<1>3. all \in Seq(1 .. n) /\ ToSet(all) = 1 .. n /\ Distinct(all)
  <2>1. all \in [1 .. n -> 1 .. n]  BY <1>2
  <2>2. all \in Seq(1 .. n)  BY <2>1
  <2>3. DOMAIN all = 1 .. n /\ \A i \in 1 .. n : all[i] = i  BY <1>2
  <2>4. QED  BY <2>2, <2>3 DEF ToSet, Distinct
<1>4. PICK list : list = Ascending(points, S)  OBVIOUS
<1>5. list = Chosen(all, S)  BY <1>1, <1>2, <1>4 DEF Ascending
<1>6. list \in Seq(1 .. n) /\ ToSet(list) = S
  <2>1. list \in Seq(1 .. n) /\ ToSet(list) = ToSet(all) \cap S  BY <1>3, <1>5, ChosenExact
  <2>2. S \subseteq 1 .. n  BY <1>1
  <2>3. QED  BY <1>3, <2>1, <2>2
<1>7. Distinct(list)
  <2>1. Ordered(all, Different(1 .. n))  BY <1>3, DistinctOrdered
  <2>2. Ordered(list, Different(1 .. n))  BY <1>3, <1>5, <2>1, ChosenOrdered
  <2>3. QED  BY <1>6, <2>2, DistinctOrdered
<1>8. list \in Seq(S)
  <2>1. PICK k \in Nat : DOMAIN list = 1 .. k  BY <1>6
  <2>2. list = [i \in 1 .. k |-> list[i]]  BY <1>6, <2>1
  <2>3. \A i \in 1 .. k : list[i] \in S  BY <1>6, <2>1 DEF ToSet
  <2>4. list \in [1 .. k -> S]  BY <2>2, <2>3
  <2>5. QED  BY <2>4
<1>9. QED  BY <1>4, <1>6, <1>7, <1>8

\* A list without repetitions is as long as its set is large.
LEMMA DistinctLength ==
    ASSUME NEW T, NEW s \in Seq(T), Distinct(s)
    PROVE  IsFiniteSet(ToSet(s)) /\ Cardinality(ToSet(s)) = Len(s)
<1>1. PICK n \in Nat : Len(s) = n /\ DOMAIN s = 1 .. n  OBVIOUS
<1>2. PICK S : S = ToSet(s)  OBVIOUS
<1>3. s = [i \in 1 .. n |-> s[i]] /\ \A i \in 1 .. n : s[i] \in S
  BY <1>1, <1>2 DEF ToSet
<1>4. s \in [1 .. n -> S]  BY <1>3
<1>5. s \in Bijection(1 .. n, S)
  <2>1. s \in Injection(1 .. n, S)
    BY <1>1, <1>4 DEF Injection, IsInjective, Distinct
  <2>2. s \in Surjection(1 .. n, S)
    BY <1>1, <1>2, <1>4 DEF Surjection, ToSet
  <2>3. QED  BY <2>1, <2>2 DEF Bijection
<1>6. ExistsBijection(1 .. n, S)  BY <1>5 DEF ExistsBijection
<1>7. IsFiniteSet(S) /\ Cardinality(S) = n  BY <1>6, FS_NatBijection, FS_CountingElements
<1>8. QED  BY <1>1, <1>2, <1>7

\* A larger set takes a longer list.
LEMMA LongerList ==
    ASSUME NEW T, NEW a \in Seq(T), NEW b \in Seq(T), Distinct(a), Distinct(b),
           ToSet(a) \subseteq ToSet(b), ToSet(a) # ToSet(b)
    PROVE  Len(a) < Len(b)
<1>1. PICK A : A = ToSet(a)  OBVIOUS
<1>2. PICK B : B = ToSet(b)  OBVIOUS
<1>3. IsFiniteSet(A) /\ Cardinality(A) = Len(a)  BY <1>1, DistinctLength
<1>4. IsFiniteSet(B) /\ Cardinality(B) = Len(b)  BY <1>2, DistinctLength
<1>5. A \in SUBSET B /\ A # B  BY <1>1, <1>2
<1>6. Cardinality(A) <= Cardinality(B) /\ Cardinality(A) # Cardinality(B)
  BY <1>4, <1>5, FS_Subset
<1>7. Len(a) \in Nat /\ Len(b) \in Nat  OBVIOUS
<1>8. QED  BY <1>3, <1>4, <1>6, <1>7

\* A sorted list of the sets.
Sorts(order, n, lists) ==
    /\ order \in [1 .. n -> 1 .. n]
    /\ \A i, j \in 1 .. n : i < j => Precedes(lists, order[i], order[j])

\* The sets can be sorted: those of every length in turn.
LEMMA SortedExists ==
    ASSUME NEW P, NEW n \in Nat, NEW lists \in [1 .. n -> Seq(P)]
    PROVE  \E order : Sorts(order, n, lists)
<1>1. PICK lens : lens = [i \in 1 .. n |-> Len(lists[i])]  OBVIOUS
<1>2. lens \in Seq(Nat) /\ lens \in [1 .. n -> Nat]
  <2>1. \A i \in 1 .. n : Len(lists[i]) \in Nat  OBVIOUS
  <2>2. lens \in [1 .. n -> Nat]  BY <1>1, <2>1
  <2>3. QED  BY <2>2
<1>3. PICK M \in Nat : \A i \in 1 .. n : lens[i] \in Nat /\ lens[i] + 1 <= M
  <2>1. PICK m \in {0} \cup ToSet(lens) : \A k \in {0} \cup ToSet(lens) : m >= k
    BY <1>2, LargestEntry
  <2>2. \A i \in 1 .. n : lens[i] \in Nat /\ lens[i] \in ToSet(lens)
    <3>1. DOMAIN lens = 1 .. n  BY <1>2
    <3>2. QED  BY <1>2, <3>1 DEF ToSet
  <2>3. ToSet(lens) \subseteq Nat  BY <1>2 DEF ToSet
  <2>4. m \in Nat  BY <2>1, <2>3
  <2>5. \A i \in 1 .. n : lens[i] <= m  BY <2>1, <2>2, <2>4
  <2>6. PICK M \in Nat : M = m + 1  BY <2>4
  <2>7. \A i \in 1 .. n : lens[i] + 1 <= M  BY <2>2, <2>4, <2>5, <2>6
  <2>8. QED  BY <2>2, <2>7
<1>4. PICK all : all = [i \in 1 .. n |-> i]  OBVIOUS
<1> DEFINE Least == {p \in (1 .. n) \X (1 .. n) : p[1] < p[2]}
           OfLength(l) == {i \in 1 .. n : lens[i] = l - 1}
           Before == {p \in (1 .. n) \X (1 .. n) : Precedes(lists, p[1], p[2])}
<1>5. all \in Seq(1 .. n) /\ ToSet(all) = 1 .. n /\ Ordered(all, Least)
  <2>1. all \in [1 .. n -> 1 .. n]  BY <1>4
  <2>2. all \in Seq(1 .. n)  BY <2>1
  <2>3. DOMAIN all = 1 .. n /\ \A i \in 1 .. n : all[i] = i  BY <1>4
  <2>4. QED  BY <2>2, <2>3 DEF ToSet, Ordered
<1>6. PICK parts : parts = [l \in 1 .. M |-> Chosen(all, OfLength(l))]  OBVIOUS
<1>7. ASSUME NEW l \in 1 .. M
      PROVE  /\ parts[l] \in Seq(1 .. n) /\ Ordered(parts[l], Least)
             /\ ToSet(parts[l]) = OfLength(l)
  <2>1. PICK S : S = OfLength(l)  OBVIOUS
  <2>2. parts[l] = Chosen(all, S)  BY <1>6, <2>1
  <2>3. parts[l] \in Seq(1 .. n) /\ ToSet(parts[l]) = ToSet(all) \cap S
    BY <1>5, <2>2, ChosenExact
  <2>4. Ordered(parts[l], Least)
    <3> HIDE DEF Least
    <3>1. QED  BY <1>5, <2>2, ChosenOrdered
  <2>5. ToSet(all) \cap S = OfLength(l)  BY <1>5, <2>1
  <2> HIDE DEF Least, OfLength
  <2>6. QED  BY <2>3, <2>4, <2>5
<1>8. parts \in [1 .. M -> Seq(1 .. n)]
  <2> HIDE DEF OfLength, Least
  <2>1. QED  BY <1>6, <1>7
<1>9. PICK order : order = FlattenSeq(parts)  OBVIOUS
<1>10. /\ order \in Seq(1 .. n)
       /\ \A x : x \in ToSet(order) <=> \E l \in 1 .. M : x \in ToSet(parts[l])
  <2>1. PICK D : D = 1 .. n  OBVIOUS
  <2>2. parts \in [1 .. M -> Seq(D)]  BY <1>8, <2>1
  <2>3. order \in Seq(D)  BY <1>9, <2>2, FlattenType
  <2>4. \A x : x \in ToSet(order) <=> \E l \in 1 .. M : x \in ToSet(parts[l])
    BY <1>3, <1>9, <2>2, FlattenExact
  <2>5. QED  BY <2>1, <2>3, <2>4
<1>11. ToSet(order) = 1 .. n
  <2>1. ASSUME NEW i \in 1 .. n
        PROVE  i \in ToSet(order)
    <3>1. PICK l \in 1 .. M : l = lens[i] + 1  BY <1>3
    <3>2. lens[i] = l - 1  BY <1>3, <3>1
    <3>3. i \in OfLength(l)  BY <3>2
    <3> HIDE DEF OfLength, Least
    <3>4. QED  BY <1>7, <1>10, <3>3
  <2>2. ToSet(order) \subseteq 1 .. n  BY <1>10 DEF ToSet
  <2>3. QED  BY <2>1, <2>2
<1>12. \A i \in 1 .. n : Len(lists[i]) = lens[i]  BY <1>1
<1>13. ASSUME NEW l \in 1 .. M
       PROVE  Ordered(parts[l], Before)
  <2>0. PICK part \in Seq(1 .. n) : part = parts[l]  BY <1>7
  <2>1. PICK k \in Nat : DOMAIN parts[l] = 1 .. k  BY <2>0
  <2>2. ASSUME NEW i \in 1 .. k, NEW j \in 1 .. k, i < j
        PROVE  <<parts[l][i], parts[l][j]>> \in Before
    <3>1. PICK x : x = parts[l][i]  OBVIOUS
    <3>2. PICK y : y = parts[l][j]  OBVIOUS
    <3>3. <<x, y>> \in Least  BY <1>7, <2>1, <2>2, <3>1, <3>2 DEF Ordered
    <3>4. x \in OfLength(l) /\ y \in OfLength(l)
      <4> HIDE DEF OfLength, Least
      <4>1. x \in ToSet(parts[l]) /\ y \in ToSet(parts[l])
        BY <2>1, <2>2, <3>1, <3>2 DEF ToSet
      <4>2. QED  BY <1>7, <4>1
    <3>5. x \in 1 .. n /\ y \in 1 .. n /\ x < y /\ Len(lists[x]) = Len(lists[y])
      BY <1>12, <3>3, <3>4
    <3>6. QED  BY <3>1, <3>2, <3>5 DEF Precedes
  <2> HIDE DEF Before
  <2>3. QED  BY <2>1, <2>2 DEF Ordered
<1>14. ASSUME NEW k \in 1 .. M, NEW l \in 1 .. M, k < l,
              NEW x \in ToSet(parts[k]), NEW y \in ToSet(parts[l])
       PROVE  <<x, y>> \in Before
  <2>1. x \in OfLength(k) /\ y \in OfLength(l)
    <3> HIDE DEF OfLength, Least
    <3>1. QED  BY <1>7
  <2>2. x \in 1 .. n /\ y \in 1 .. n /\ lens[x] = k - 1 /\ lens[y] = l - 1  BY <2>1
  <2>3. lens[x] < lens[y]  BY <1>14, <2>2
  <2>4. Len(lists[x]) < Len(lists[y])  BY <1>12, <2>2, <2>3
  <2>5. QED  BY <2>2, <2>4 DEF Precedes
<1>15. Ordered(order, Before)
  <2> HIDE DEF Before
  <2>1. QED  BY <1>8, <1>9, <1>13, <1>14, FlattenOrdered
<1>16. Len(order) = n
  <2>1. PICK k \in Nat : Len(order) = k /\ DOMAIN order = 1 .. k  BY <1>10
  <2>2. \A i \in 1 .. n : Len(lists[i]) \in Nat  OBVIOUS
  <2>3. \A p \in Before : p[1] # p[2]  BY <2>2 DEF Precedes
  <2>4. Ordered(order, Different(1 .. n))
    <3>1. Before \subseteq Different(1 .. n)  BY <2>3 DEF Different
    <3> HIDE DEF Before
    <3>2. QED  BY <1>15, <3>1 DEF Ordered
  <2>5. Distinct(order)  BY <1>10, <2>4, DistinctOrdered
  <2>6. Cardinality(1 .. n) = Len(order)  BY <1>10, <1>11, <2>5, DistinctLength
  <2>7. Cardinality(1 .. n) = n
    <3>1. n \in Int /\ 1 \in Int  OBVIOUS
    <3>2. Cardinality(1 .. n) = IF 1 > n THEN 0 ELSE n - 1 + 1  BY <3>1, FS_Interval
    <3>3. QED  BY <3>2
  <2>8. QED  BY <2>6, <2>7
<1>17. order \in [1 .. n -> 1 .. n] /\ DOMAIN order = 1 .. n  BY <1>10, <1>16
<1>18. ASSUME NEW i \in 1 .. n, NEW j \in 1 .. n, i < j
       PROVE  Precedes(lists, order[i], order[j])
  <2>1. <<order[i], order[j]>> \in Before
    <3> HIDE DEF Before
    <3>1. QED  BY <1>15, <1>17, <1>18 DEF Ordered
  <2>2. QED  BY <2>1
<1>19. Sorts(order, n, lists)  BY <1>17, <1>18 DEF Sorts
<1>20. QED  BY <1>19

\* The order by cardinality sorts, and is a permutation.
LEMMA OrderExact ==
    ASSUME NEW P, NEW n \in Nat, NEW lists \in [1 .. n -> Seq(P)]
    PROVE  /\ Sorts(CardinalityOrder(lists), n, lists)
           /\ \A k \in 1 .. n : \E i \in 1 .. n : CardinalityOrder(lists)[i] = k
           /\ \A i, j \in 1 .. n : CardinalityOrder(lists)[i] = CardinalityOrder(lists)[j] => i = j
<1>1. PICK good : Sorts(good, n, lists)  BY SortedExists
<1>2. PICK order : order = CardinalityOrder(lists)  OBVIOUS
<1>3. order = CHOOSE o \in [1 .. n -> 1 .. n] :
                  \A i, j \in 1 .. n : i < j => Precedes(lists, o[i], o[j])
  BY <1>2 DEF CardinalityOrder
<1>4. Sorts(order, n, lists)  BY <1>1, <1>3 DEF Sorts
<1>5. \A i \in 1 .. n : order[i] \in 1 .. n /\ Len(lists[order[i]]) \in Nat  BY <1>4 DEF Sorts
<1>6. ASSUME NEW i \in 1 .. n, NEW j \in 1 .. n, i < j
      PROVE  order[i] # order[j]
  <2>1. Precedes(lists, order[i], order[j])  BY <1>4, <1>6 DEF Sorts
  <2>2. QED  BY <1>5, <2>1 DEF Precedes
<1>7. ASSUME NEW i \in 1 .. n, NEW j \in 1 .. n, order[i] = order[j]
      PROVE  i = j
  <2>1. ~ i < j /\ ~ j < i  BY <1>6, <1>7
  <2>2. QED  BY <2>1
<1>8. PICK D : D = 1 .. n  OBVIOUS
<1>9. IsFiniteSet(D)  BY <1>8, FS_Interval
<1>10. order \in Injection(D, D)  BY <1>4, <1>7, <1>8 DEF Sorts, Injection, IsInjective
<1>11. order \in Surjection(D, D)  BY <1>9, <1>10, FS_Injection
<1>12. QED  BY <1>2, <1>4, <1>7, <1>8, <1>11 DEF Surjection
=============================================================================
