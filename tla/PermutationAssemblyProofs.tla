--------------------- MODULE PermutationAssemblyProofs ---------------------
(***************************************************************************)
(* Proofs about PermutationAssembly, for every set of columns, number of   *)
(* rows and set of values.                                                 *)
(***************************************************************************)
EXTENDS PermutationAssembly, FiniteSetTheorems, TLAPS

-----------------------------------------------------------------------------
(* Orbits of a successor function. *)

\* An orbit is closed, holds its starting cell and is the least such set.
LEMMA OrbitClosed ==
  ASSUME NEW m \in [Cells -> Cells], NEW c \in Cells
  PROVE  /\ Orbit(m, c) \in SUBSET Cells
         /\ c \in Orbit(m, c)
         /\ ClosedUnder(m, Orbit(m, c))
<1>1. \A d \in Orbit(m, c) : m[d] \in Orbit(m, c)
  <2> SUFFICES ASSUME NEW d \in Orbit(m, c),
                      NEW S \in SUBSET Cells, c \in S, ClosedUnder(m, S)
               PROVE  m[d] \in S
    BY DEF Orbit
  <2>1. d \in S
    BY DEF Orbit
  <2> QED
    BY <2>1 DEF ClosedUnder
<1> QED
  BY <1>1 DEF Orbit, ClosedUnder

\* An orbit lies inside every closed set that holds its starting cell.
LEMMA OrbitLeast ==
  ASSUME NEW m \in [Cells -> Cells], NEW c \in Cells,
         NEW S \in SUBSET Cells, c \in S, ClosedUnder(m, S)
  PROVE  Orbit(m, c) \subseteq S
BY DEF Orbit

\* A value assignment that is invariant under m is constant on each orbit.
LEMMA OrbitConstant ==
  ASSUME NEW m \in [Cells -> Cells], NEW c \in Cells, NEW d \in Orbit(m, c),
         NEW v, \A x \in Cells : v[m[x]] = v[x]
  PROVE  v[d] = v[c]
<1> DEFINE S == {x \in Cells : v[x] = v[c]}
<1>1. S \in SUBSET Cells /\ c \in S /\ ClosedUnder(m, S)
  BY DEF ClosedUnder
<1> HIDE DEF S
<1>2. d \in S
  BY <1>1, OrbitLeast
<1> QED
  BY <1>2 DEF S

-----------------------------------------------------------------------------
(* Exchanging the successors of two cells on different cycles. *)

\* m2 is m with the successors of l and r exchanged.
Exchanged(m, m2, l, r) == m2 = [m EXCEPT ![l] = m[r], ![r] = m[l]]

\* lab labels the cycles of m.
Labels(m, lab) == \A c, d \in Cells : lab[c] = lab[d] <=> d \in Orbit(m, c)

\* m2 is m, but for the successors of a and b.
AgreeOff(m, m2, a, b) ==
  \A x \in Cells : x # a /\ x # b => m2[x] = m[x]

\* A set closed under m2 that meets the cycle of a, as lab labels them, holds a.
Meets(m2, lab, a) ==
  \A S \in SUBSET Cells, c \in Cells :
    ClosedUnder(m2, S) /\ c \in S /\ lab[c] = lab[a] => a \in S

\* The exchange does not let a closed set stop short of a on a's cycle.
LEMMA ExchangeMeets ==
  ASSUME NEW m \in [Cells -> Cells], NEW lab, Labels(m, lab),
         NEW a \in Cells, NEW b \in Cells, lab[a] # lab[b],
         NEW m2 \in [Cells -> Cells],
         AgreeOff(m, m2, a, b)
  PROVE  Meets(m2, lab, a)
<1> SUFFICES ASSUME NEW S \in SUBSET Cells, NEW c \in Cells,
                    ClosedUnder(m2, S), c \in S, lab[c] = lab[a],
                    a \notin S
             PROVE  FALSE
  BY DEF Meets
<1> DEFINE T == S \cap Orbit(m, a)
<1>1. c \in T /\ T \in SUBSET Cells
  BY OrbitClosed DEF Labels
<1>2. ClosedUnder(m, T)
  <2> SUFFICES ASSUME NEW x \in T PROVE m[x] \in T
    BY DEF ClosedUnder
  <2>1. x # a /\ x # b
    BY DEF Labels
  <2>2. m[x] \in S
    BY <2>1 DEF ClosedUnder, AgreeOff
  <2>3. m[x] \in Orbit(m, a)
    BY OrbitClosed DEF ClosedUnder
  <2> QED
    BY <2>2, <2>3
<1>3. Orbit(m, c) \subseteq T
  <2> HIDE DEF T
  <2> QED BY <1>1, <1>2, OrbitLeast
<1>4. a \in Orbit(m, c)
  BY DEF Labels
<1> QED
  BY <1>3, <1>4

\* After the exchange the two cycles are one and every other one is unchanged.
LEMMA ExchangeJoins ==
  ASSUME NEW m \in [Cells -> Cells], NEW lab, Labels(m, lab),
         NEW l \in Cells, NEW r \in Cells, lab[l] # lab[r],
         NEW m2, Exchanged(m, m2, l, r),
         NEW c \in Cells
  PROVE  Orbit(m2, c) = IF c \in Orbit(m, l) \cup Orbit(m, r)
                          THEN Orbit(m, l) \cup Orbit(m, r)
                          ELSE Orbit(m, c)
<1> DEFINE A == Orbit(m, l)
           B == Orbit(m, r)
<1>0. /\ m2 \in [Cells -> Cells]
      /\ l # r
      /\ m2[l] = m[r] /\ m2[r] = m[l]
      /\ \A x \in Cells : x # l /\ x # r => m2[x] = m[x]
  BY DEF Exchanged
<1>1. /\ A \in SUBSET Cells /\ l \in A /\ ClosedUnder(m, A)
      /\ B \in SUBSET Cells /\ r \in B /\ ClosedUnder(m, B)
  BY OrbitClosed
<1>2. \A x \in Cells : /\ x \in A <=> lab[x] = lab[l]
                       /\ x \in B <=> lab[x] = lab[r]
  BY DEF Labels
<1> HIDE DEF A, B
<1>5. Meets(m2, lab, l) /\ Meets(m2, lab, r)
  <2>1. AgreeOff(m, m2, l, r) /\ AgreeOff(m, m2, r, l)
    BY <1>0 DEF AgreeOff
  <2>2. lab[r] # lab[l]
    OBVIOUS
  <2> QED
    BY <1>0, <2>1, <2>2, ExchangeMeets
<1>3. CASE c \in A \cup B
  <2>1. ClosedUnder(m2, A \cup B)
    BY <1>0, <1>1 DEF ClosedUnder
  <2>2. Orbit(m2, c) \subseteq A \cup B
    BY <1>0, <1>1, <1>3, <2>1, OrbitLeast
  <2>3. ASSUME NEW S \in SUBSET Cells, c \in S, ClosedUnder(m2, S)
        PROVE  A \cup B \subseteq S
    <3>1. l \in S \/ r \in S
      BY <1>2, <1>3, <1>5, <2>3 DEF Meets
    <3>2. m[r] \in B /\ m[l] \in A /\ m[r] \in Cells /\ m[l] \in Cells
      BY <1>1 DEF ClosedUnder
    <3>3. l \in S => r \in S
      <4> SUFFICES ASSUME l \in S PROVE r \in S
        OBVIOUS
      <4>1. m[r] \in S
        BY <1>0, <2>3 DEF ClosedUnder
      <4>2. lab[m[r]] = lab[r]
        BY <1>2, <3>2
      <4> QED
        BY <4>1, <4>2, <3>2, <1>5, <2>3 DEF Meets
    <3>4. r \in S => l \in S
      <4> SUFFICES ASSUME r \in S PROVE l \in S
        OBVIOUS
      <4>1. m[l] \in S
        BY <1>0, <2>3 DEF ClosedUnder
      <4>2. lab[m[l]] = lab[l]
        BY <1>2, <3>2
      <4> QED
        BY <4>1, <4>2, <3>2, <1>5, <2>3 DEF Meets
    <3>5. l \in S /\ r \in S
      BY <3>1, <3>3, <3>4
    <3>6. ClosedUnder(m, S)
      BY <1>0, <2>3, <3>5 DEF ClosedUnder
    <3> QED
      BY <3>5, <3>6, OrbitLeast DEF A, B
  <2>4. A \cup B \subseteq Orbit(m2, c)
    BY <2>3, <1>0, OrbitClosed
  <2> QED
    BY <1>3, <2>2, <2>4 DEF A, B
<1>4. CASE c \notin A \cup B
  <2> DEFINE C == Orbit(m, c)
             T == Orbit(m2, c)
  <2>1. C \in SUBSET Cells /\ c \in C /\ ClosedUnder(m, C)
    BY OrbitClosed
  <2>2. l \notin C /\ r \notin C
    BY <1>2, <1>4 DEF Labels
  <2>3. T \in SUBSET Cells /\ c \in T /\ ClosedUnder(m2, T)
    BY <1>0, OrbitClosed
  <2> HIDE DEF C, T
  <2>4. ClosedUnder(m2, C)
    BY <1>0, <2>1, <2>2 DEF ClosedUnder
  <2>5. T \subseteq C
    BY <1>0, <2>1, <2>4, OrbitLeast DEF T
  <2>6. ClosedUnder(m, T)
    BY <1>0, <2>2, <2>3, <2>5 DEF ClosedUnder
  <2>7. C \subseteq T
    BY <2>3, <2>6, OrbitLeast DEF C
  <2> QED
    BY <1>4, <2>5, <2>7 DEF A, B, C, T
<1> QED
  BY <1>3, <1>4

-----------------------------------------------------------------------------
(* The inductive invariant. *)

\* The labelling as it was before the current call started to relabel.
OldLabel ==
  [c \in Cells |-> IF c \in Orbit(mapping, right_cycle)
                     THEN right_cycle ELSE aux[c]]

\* Distinguished elements label themselves.
SelfLabelled(lab) == \A c \in Cells : lab[lab[c]] = lab[c]

\* A call in progress: its two cells are on the cycles of left_cycle and
\* right_cycle, which were different when it started.
CallInv ==
  /\ Labels(mapping, OldLabel)
  /\ SelfLabelled(OldLabel)
  /\ left_cycle # right_cycle
  /\ OldLabel[left_cycle] = left_cycle
  /\ \/ OldLabel[left] = left_cycle /\ OldLabel[right] = right_cycle
     \/ OldLabel[left] = right_cycle /\ OldLabel[right] = left_cycle

\* The part of the right cycle that carries the new label already.
Walked == {c \in Orbit(mapping, right_cycle) : aux[c] = left_cycle}

\* The relabelled part is a run of the cycle that starts at right_cycle and
\* ends just before the cursor.
WalkInv ==
  /\ here \in Orbit(mapping, right_cycle)
  /\ right_cycle \in Walked \/ here = right_cycle
  /\ \A c \in Walked : mapping[c] \in Walked \cup {here}

LabelInv ==
  /\ pc = "idle" => Labels(mapping, aux) /\ SelfLabelled(aux)
  /\ pc # "idle" => CallInv
  /\ pc = "walk" => WalkInv
  /\ pc = "join" => Walked = Orbit(mapping, right_cycle)

RequestedInv == \A p \in requested : p[2] \in Orbit(mapping, p[1])

IInv == TypeOK /\ LabelInv /\ RequestedInv /\ CopiesEnforced

-----------------------------------------------------------------------------
\* Assembly::new starts with every cell on a cycle of its own.
LEMMA IdentityOrbit ==
  ASSUME NEW c \in Cells
  PROVE  Orbit([x \in Cells |-> x], c) = {c}
<1> DEFINE m == [x \in Cells |-> x]
<1>1. m \in [Cells -> Cells] /\ {c} \in SUBSET Cells /\ ClosedUnder(m, {c})
  BY DEF ClosedUnder
<1> HIDE DEF m
<1>2. Orbit(m, c) \subseteq {c} /\ c \in Orbit(m, c)
  BY <1>1, OrbitLeast, OrbitClosed
<1> QED
  BY <1>2 DEF m

\* The fresh accumulator satisfies the invariant.
LEMMA InitIInv == AssemblyInit => IInv
<1> SUFFICES ASSUME AssemblyInit PROVE IInv
  OBVIOUS
<1>1. TypeOK
  BY NAssumption DEF AssemblyInit, TypeOK
<1>2. Labels(mapping, aux) /\ SelfLabelled(aux)
  BY IdentityOrbit DEF AssemblyInit, Labels, SelfLabelled
<1>3. LabelInv
  BY <1>2 DEF LabelInv, AssemblyInit
<1>4. RequestedInv /\ CopiesEnforced
  BY DEF RequestedInv, CopiesEnforced, AssemblyInit
<1> QED
  BY <1>1, <1>3, <1>4 DEF IInv

\* The type invariant is inductive by itself.
LEMMA TypeStep == TypeOK /\ [AssemblyNext]_assemblyVars => TypeOK'
<1> SUFFICES ASSUME TypeOK, [AssemblyNext]_assemblyVars PROVE TypeOK'
  OBVIOUS
<1>1. ASSUME NEW l \in CallCells, NEW r \in CallCells, Copy(l, r)
      PROVE  TypeOK'
  <2>1. CASE CopyUnknownColumn(l, r)
    BY <2>1 DEF CopyUnknownColumn, TypeOK, locals
  <2>2. CASE CopyOutOfBounds(l, r)
    BY <2>2 DEF CopyOutOfBounds, TypeOK, locals
  <2>3. CASE CopySameCycle(l, r)
    BY <2>3 DEF CopySameCycle, TypeOK, locals
  <2>4. CASE CopyBegin(l, r)
    BY <2>4 DEF CopyBegin, Relabel, TypeOK
  <2> QED
    BY <1>1, <2>1, <2>2, <2>3, <2>4 DEF Copy
<1>2. CASE Walk
  BY <1>2 DEF Walk, TypeOK
<1>3. CASE Join
  BY <1>3 DEF Join, TypeOK
<1>4. CASE UNCHANGED assemblyVars
  BY <1>4 DEF assemblyVars, TypeOK
<1> QED
  BY <1>1, <1>2, <1>3, <1>4 DEF AssemblyNext

\* The state stays well typed: cells map to cells of the argument whatever
\* columns and rows callers name.
THEOREM TypeCorrect == AssemblySpec => []TypeOK
<1>1. AssemblyInit => TypeOK
  BY InitIInv DEF IInv
<1> QED
  BY <1>1, TypeStep, PTL DEF AssemblySpec

-----------------------------------------------------------------------------
(* The steps of copy() preserve the labelling. *)

\* Starting to relabel: before the first iteration the old labelling is aux.
LEMMA BeginLabels ==
  ASSUME IInv, TypeOK', NEW l, NEW r, CopyBegin(l, r)
  PROVE  LabelInv'
<1>1. /\ l \in Cells /\ r \in Cells /\ aux[l] # aux[r]
      /\ mapping' = mapping /\ aux' = aux /\ pc' = "walk"
      /\ left' = l /\ right' = r /\ here' = right_cycle'
      /\ \/ left_cycle' = aux[l] /\ right_cycle' = aux[r]
         \/ left_cycle' = aux[r] /\ right_cycle' = aux[l]
  BY DEF CopyBegin, Relabel
<1>2. /\ mapping \in [Cells -> Cells] /\ aux \in [Cells -> Cells]
      /\ Labels(mapping, aux) /\ SelfLabelled(aux)
  BY DEF IInv, LabelInv, TypeOK, CopyBegin, Relabel
<1>3. right_cycle' \in Cells /\ left_cycle' \in Cells
  BY <1>1, <1>2
<1>4. /\ aux[right_cycle'] = right_cycle' /\ aux[left_cycle'] = left_cycle'
      /\ left_cycle' # right_cycle'
  BY <1>1, <1>2 DEF SelfLabelled
<1>5. \A c \in Cells : c \in Orbit(mapping, right_cycle') <=> aux[c] = right_cycle'
  BY <1>2, <1>3, <1>4 DEF Labels
<1>6. OldLabel' = aux
  BY <1>1, <1>2, <1>5 DEF OldLabel
<1>7. Walked' = {}
  BY <1>1, <1>4, <1>5, <1>2, <1>3, OrbitClosed DEF Walked
<1>8. CallInv'
  BY <1>1, <1>2, <1>4, <1>6 DEF CallInv
<1>9. WalkInv'
  BY <1>1, <1>2, <1>3, <1>7, OrbitClosed DEF WalkInv
<1> QED
  BY <1>1, <1>8, <1>9 DEF LabelInv

\* One iteration relabels one cell of the right cycle; when the cursor is back
\* at its start the whole cycle carries the new label.
LEMMA WalkLabels ==
  ASSUME IInv, TypeOK', Walk
  PROVE  LabelInv'
<1> DEFINE R == Orbit(mapping, right_cycle)
<1>1. /\ mapping' = mapping /\ left' = left /\ right' = right
      /\ left_cycle' = left_cycle /\ right_cycle' = right_cycle
      /\ aux' = [aux EXCEPT ![here] = left_cycle] /\ here' = mapping[here]
      /\ pc' = IF mapping[here] = right_cycle THEN "join" ELSE "walk"
  BY DEF Walk
<1>2. /\ mapping \in [Cells -> Cells] /\ aux \in [Cells -> Cells]
      /\ here \in Cells /\ right_cycle \in Cells /\ left_cycle \in Cells
      /\ CallInv /\ WalkInv
  BY DEF IInv, LabelInv, TypeOK, Walk
<1>3. R \in SUBSET Cells /\ right_cycle \in R /\ ClosedUnder(mapping, R)
  BY <1>2, OrbitClosed
<1>4. here \in R /\ mapping[here] \in R
  BY <1>2, <1>3 DEF WalkInv, ClosedUnder
<1>5. OldLabel' = OldLabel
  BY <1>1, <1>2, <1>4 DEF OldLabel
<1>6. CallInv'
  BY <1>1, <1>2, <1>5 DEF CallInv
<1>7. Walked' = Walked \cup {here}
  BY <1>1, <1>2, <1>3, <1>4 DEF Walked
<1>8. WalkInv'
  BY <1>1, <1>2, <1>4, <1>7 DEF WalkInv
<1>9. ASSUME pc' = "join" PROVE Walked' = R
  <2>1. mapping[here] = right_cycle
    BY <1>1, <1>9
  <2>2. Walked' \in SUBSET Cells /\ Walked' \subseteq R
    BY <1>3, <1>4, <1>7 DEF Walked
  <2>3. right_cycle \in Walked'
    BY <1>2, <1>7 DEF WalkInv
  <2>4. ClosedUnder(mapping, Walked')
    <3> SUFFICES ASSUME NEW c \in Walked' PROVE mapping[c] \in Walked'
      BY DEF ClosedUnder
    <3>1. CASE c = here
      BY <3>1, <2>1, <2>3
    <3>2. CASE c \in Walked
      BY <3>2, <1>2, <1>7 DEF WalkInv
    <3> QED
      BY <3>1, <3>2, <1>7
  <2>5. R \subseteq Walked'
    <3> DEFINE W == Walked'
    <3>1. W \in SUBSET Cells /\ right_cycle \in W /\ ClosedUnder(mapping, W)
      BY <2>2, <2>3, <2>4
    <3> HIDE DEF W
    <3>2. Orbit(mapping, right_cycle) \subseteq W
      BY <3>1, <1>2, OrbitLeast
    <3> QED
      BY <3>2 DEF W
  <2> QED
    BY <2>2, <2>5
<1> QED
  BY <1>1, <1>6, <1>8, <1>9 DEF LabelInv

\* The successors are exchanged only when both cycles carry one label.
LEMMA JoinFacts ==
  ASSUME IInv, Join
  PROVE  /\ mapping \in [Cells -> Cells] /\ aux \in [Cells -> Cells]
         /\ left \in Cells /\ right \in Cells
         /\ OldLabel \in [Cells -> Cells]
         /\ Labels(mapping, OldLabel)
         /\ OldLabel[left] # OldLabel[right]
         /\ mapping' = [mapping EXCEPT ![left] = mapping[right],
                                       ![right] = mapping[left]]
         /\ mapping' \in [Cells -> Cells]
         /\ aux' = aux
         /\ \A c \in Cells :
              /\ c \in Orbit(mapping, left) \cup Orbit(mapping, right)
                   <=> aux[c] = left_cycle
              /\ aux[c] # left_cycle => aux[c] = OldLabel[c]
<1>1. /\ mapping \in [Cells -> Cells] /\ aux \in [Cells -> Cells]
      /\ left \in Cells /\ right \in Cells
      /\ left_cycle \in Cells /\ right_cycle \in Cells
      /\ CallInv /\ Walked = Orbit(mapping, right_cycle)
  BY DEF IInv, LabelInv, TypeOK, Join
<1>2. /\ mapping' = [mapping EXCEPT ![left] = mapping[right],
                                    ![right] = mapping[left]]
      /\ aux' = aux
  BY DEF Join
<1>3. OldLabel \in [Cells -> Cells]
  BY <1>1 DEF OldLabel
<1>4. OldLabel[left] # OldLabel[right]
  BY <1>1 DEF CallInv
<1>5. ASSUME NEW c \in Cells
      PROVE  /\ c \in Orbit(mapping, right_cycle) <=> OldLabel[c] = right_cycle
             /\ c \in Orbit(mapping, right_cycle) => aux[c] = left_cycle
             /\ c \notin Orbit(mapping, right_cycle) => aux[c] = OldLabel[c]
  <2>1. right_cycle \in Orbit(mapping, right_cycle)
    BY <1>1, OrbitClosed
  <2>2. OldLabel[right_cycle] = right_cycle
    BY <1>1, <2>1 DEF OldLabel
  <2>3. c \in Orbit(mapping, right_cycle) <=> OldLabel[c] = right_cycle
    BY <1>1, <2>2 DEF CallInv, Labels
  <2>4. c \in Orbit(mapping, right_cycle) => aux[c] = left_cycle
    BY <1>1 DEF Walked
  <2>5. c \notin Orbit(mapping, right_cycle) => aux[c] = OldLabel[c]
    BY <1>1 DEF OldLabel
  <2> QED
    BY <2>3, <2>4, <2>5
<1>6. ASSUME NEW c \in Cells
      PROVE  c \in Orbit(mapping, left) \cup Orbit(mapping, right)
               <=> OldLabel[c] \in {left_cycle, right_cycle}
  BY <1>1 DEF CallInv, Labels
<1>7. ASSUME NEW c \in Cells
      PROVE  /\ c \in Orbit(mapping, left) \cup Orbit(mapping, right)
                  <=> aux[c] = left_cycle
             /\ aux[c] # left_cycle => aux[c] = OldLabel[c]
  BY <1>5, <1>6
<1>8. mapping' \in [Cells -> Cells]
  BY <1>1, <1>2
<1> QED
  BY <1>1, <1>2, <1>3, <1>4, <1>7, <1>8 DEF CallInv

\* What the exchange does to every cycle.
LEMMA JoinOrbits ==
  ASSUME IInv, Join, NEW c \in Cells
  PROVE  Orbit(mapping', c) =
           IF c \in Orbit(mapping, left) \cup Orbit(mapping, right)
             THEN Orbit(mapping, left) \cup Orbit(mapping, right)
             ELSE Orbit(mapping, c)
<1> DEFINE lab == OldLabel
           m2 == mapping'
<1>1. /\ mapping \in [Cells -> Cells] /\ left \in Cells /\ right \in Cells
      /\ Labels(mapping, lab) /\ lab[left] # lab[right]
      /\ Exchanged(mapping, m2, left, right)
  BY JoinFacts DEF Exchanged
<1> HIDE DEF lab, m2
<1>2. Orbit(m2, c) =
        IF c \in Orbit(mapping, left) \cup Orbit(mapping, right)
          THEN Orbit(mapping, left) \cup Orbit(mapping, right)
          ELSE Orbit(mapping, c)
  BY <1>1, ExchangeJoins
<1> QED
  BY <1>2 DEF m2

\* After the exchange the labels are the cycles again.
LEMMA JoinLabels ==
  ASSUME IInv, Join
  PROVE  LabelInv'
<1> DEFINE AB == Orbit(mapping, left) \cup Orbit(mapping, right)
<1>1. ASSUME NEW c \in Cells, NEW d \in Cells
      PROVE  aux[c] = aux[d] <=> d \in Orbit(mapping', c)
  <2>1. CASE c \in AB
    BY <2>1, JoinOrbits, JoinFacts
  <2>2. CASE c \notin AB
    <3>1. Orbit(mapping', c) = Orbit(mapping, c)
      BY <2>2, JoinOrbits
    <3>2. aux[c] # left_cycle /\ aux[c] = OldLabel[c]
      BY <2>2, JoinFacts
    <3>3. d \in Orbit(mapping, c) <=> OldLabel[d] = OldLabel[c]
      BY JoinFacts DEF Labels
    <3>4. CASE d \in AB
      <4>1. aux[d] = left_cycle
        BY <3>4, JoinFacts
      <4>2. OldLabel[d] \in {OldLabel[left], OldLabel[right]}
        BY <3>4, JoinFacts DEF Labels
      <4>3. OldLabel[c] \notin {OldLabel[left], OldLabel[right]}
        BY <2>2, JoinFacts DEF Labels
      <4> QED
        BY <3>1, <3>2, <3>3, <4>1, <4>2, <4>3
    <3>5. CASE d \notin AB
      <4>1. aux[d] = OldLabel[d]
        BY <3>5, JoinFacts
      <4> QED
        BY <3>1, <3>2, <3>3, <4>1
    <3> QED
      BY <3>4, <3>5
  <2> QED
    BY <2>1, <2>2
<1>2. Labels(mapping', aux')
  BY <1>1, JoinFacts DEF Labels
<1>3. SelfLabelled(aux')
  <2> SUFFICES ASSUME NEW c \in Cells PROVE aux[aux[c]] = aux[c]
    BY JoinFacts DEF SelfLabelled
  <2>1. aux[c] \in Cells
    BY JoinFacts
  <2>2. CASE aux[c] = left_cycle
    <3>1. OldLabel[left_cycle] = left_cycle /\ left_cycle \in Cells
      BY <2>1, <2>2 DEF IInv, LabelInv, CallInv, Join
    <3>2. \/ aux[left_cycle] = left_cycle
          \/ aux[left_cycle] = OldLabel[left_cycle]
      BY <3>1, JoinFacts
    <3> QED
      BY <2>2, <3>1, <3>2
  <2>3. CASE aux[c] # left_cycle
    <3>1. aux[c] = OldLabel[c]
      BY <2>3, JoinFacts
    <3>2. OldLabel[OldLabel[c]] = OldLabel[c]
      BY DEF IInv, LabelInv, CallInv, SelfLabelled, Join
    <3>3. \/ aux[aux[c]] = left_cycle
          \/ aux[aux[c]] = OldLabel[aux[c]]
      BY <2>1, JoinFacts
    <3>4. aux[aux[c]] # left_cycle
      <4> SUFFICES ASSUME aux[aux[c]] = left_cycle PROVE FALSE
        OBVIOUS
      <4>1. aux[c] \in AB
        BY <2>1, JoinFacts
      <4>2. OldLabel[aux[c]] \in {OldLabel[left], OldLabel[right]}
        BY <4>1, <2>1, JoinFacts DEF Labels
      <4>3. OldLabel[c] \in {OldLabel[left], OldLabel[right]}
        BY <4>2, <3>1, <3>2
      <4>4. c \in AB
        BY <4>3, JoinFacts DEF Labels
      <4> QED
        BY <4>4, <2>3, JoinFacts
    <3> QED
      BY <3>1, <3>2, <3>3, <3>4
  <2> QED
    BY <2>2, <2>3
<1>4. pc' = "idle"
  BY DEF Join
<1> QED
  BY <1>2, <1>3, <1>4 DEF LabelInv

-----------------------------------------------------------------------------
(* The steps preserve what was requested. *)

\* An early return adds a copy that the cycles already enforce.
LEMMA SameCycleRequested ==
  ASSUME IInv, NEW l, NEW r, CopySameCycle(l, r)
  PROVE  RequestedInv' /\ CopiesEnforced'
<1>1. /\ l \in Cells /\ r \in Cells /\ aux[l] = aux[r]
      /\ mapping' = mapping /\ requested' = requested \cup {<<l, r>>}
      /\ mapping \in [Cells -> Cells]
      /\ Labels(mapping, aux) /\ RequestedInv /\ CopiesEnforced
  BY DEF CopySameCycle, IInv, LabelInv, TypeOK
<1>2. r \in Orbit(mapping, l)
  BY <1>1 DEF Labels
<1>3. RequestedInv'
  BY <1>1, <1>2 DEF RequestedInv
<1>4. ASSUME NEW v \in [Cells -> Values], \A c \in Cells : v[mapping[c]] = v[c]
      PROVE  v[l] = v[r]
  BY <1>1, <1>2, <1>4, OrbitConstant
<1>5. CopiesEnforced'
  <2> SUFFICES ASSUME NEW v \in [Cells -> Values]
               PROVE  (\A c \in Cells : v[mapping[c]] = v[c])
                        <=> (\A p \in requested' : v[p[1]] = v[p[2]])
    BY <1>1 DEF CopiesEnforced
  <2>1. (\A c \in Cells : v[mapping[c]] = v[c])
          <=> (\A p \in requested : v[p[1]] = v[p[2]])
    BY <1>1 DEF CopiesEnforced
  <2>2. (\A p \in requested' : v[p[1]] = v[p[2]])
          <=> (\A p \in requested : v[p[1]] = v[p[2]]) /\ v[l] = v[r]
    <3>1. <<l, r>> \in requested' /\ <<l, r>>[1] = l /\ <<l, r>>[2] = r
      BY <1>1
    <3> QED
      BY <1>1, <3>1
  <2> QED
    BY <2>1, <2>2, <1>4
<1> QED
  BY <1>3, <1>5

\* The exchange enforces the copy of the call and loses none of the others.
LEMMA JoinRequested ==
  ASSUME IInv, Join
  PROVE  RequestedInv' /\ CopiesEnforced'
<1>1. /\ mapping \in [Cells -> Cells] /\ left \in Cells /\ right \in Cells
      /\ requested \in SUBSET (Cells \X Cells)
      /\ requested' = requested \cup {<<left, right>>}
      /\ RequestedInv /\ CopiesEnforced
  BY JoinFacts DEF IInv, TypeOK, Join
<1>2. /\ mapping' \in [Cells -> Cells]
      /\ mapping' = [mapping EXCEPT ![left] = mapping[right],
                                    ![right] = mapping[left]]
  BY JoinFacts
<1>3. ASSUME NEW c \in Cells PROVE Orbit(mapping, c) \subseteq Orbit(mapping', c)
  <2>1. CASE c \in Orbit(mapping, left) \cup Orbit(mapping, right)
    <3>1. Orbit(mapping, c) \subseteq Orbit(mapping, left) \cup Orbit(mapping, right)
      BY <2>1, JoinFacts, OrbitClosed, OrbitLeast
    <3> QED
      BY <3>1, <2>1, JoinOrbits
  <2>2. CASE c \notin Orbit(mapping, left) \cup Orbit(mapping, right)
    BY <2>2, JoinOrbits
  <2> QED
    BY <2>1, <2>2
<1>4. left \in Orbit(mapping, left) /\ right \in Orbit(mapping, right)
  BY <1>1, OrbitClosed
<1>5. right \in Orbit(mapping', left)
  BY <1>1, <1>4, JoinOrbits
<1>6. RequestedInv'
  <2> SUFFICES ASSUME NEW p \in requested' PROVE p[2] \in Orbit(mapping', p[1])
    BY DEF RequestedInv
  <2>1. CASE p = <<left, right>>
    BY <2>1, <1>5
  <2>2. CASE p \in requested
    BY <2>2, <1>1, <1>3 DEF RequestedInv
  <2> QED
    BY <2>1, <2>2, <1>1
<1>7. ASSUME NEW v \in [Cells -> Values]
      PROVE  (\A c \in Cells : v[mapping'[c]] = v[c])
               <=> (\A p \in requested' : v[p[1]] = v[p[2]])
  <2>1. ASSUME \A c \in Cells : v[mapping'[c]] = v[c],
               NEW p \in requested'
        PROVE  v[p[1]] = v[p[2]]
    <3> DEFINE m2 == mapping'
    <3>1. p[1] \in Cells /\ p[2] \in Orbit(m2, p[1])
      BY <1>1, <1>6 DEF RequestedInv
    <3>2. m2 \in [Cells -> Cells] /\ \A c \in Cells : v[m2[c]] = v[c]
      BY <1>2, <2>1
    <3> HIDE DEF m2
    <3> QED
      BY <3>1, <3>2, OrbitConstant
  <2>2. ASSUME \A p \in requested' : v[p[1]] = v[p[2]],
               NEW c \in Cells
        PROVE  v[mapping'[c]] = v[c]
    <3>1. v[left] = v[right] /\ \A p \in requested : v[p[1]] = v[p[2]]
      <4>1. <<left, right>> \in requested'
        BY <1>1
      <4> QED
        BY <1>1, <2>2, <4>1
    <3>2. \A x \in Cells : v[mapping[x]] = v[x]
      BY <3>1, <1>1 DEF CopiesEnforced
    <3> QED
      BY <3>1, <3>2, <1>1, <1>2
  <2> QED
    BY <2>1, <2>2
<1>8. CopiesEnforced'
  BY <1>7 DEF CopiesEnforced
<1> QED
  BY <1>6, <1>8

-----------------------------------------------------------------------------
\* Every step of copy keeps the inductive invariant.
LEMMA StepIInv == IInv /\ [AssemblyNext]_assemblyVars => IInv'
<1> SUFFICES ASSUME IInv, [AssemblyNext]_assemblyVars PROVE IInv'
  OBVIOUS
<1>0. TypeOK'
  BY TypeStep DEF IInv
<1>1. ASSUME NEW l \in CallCells, NEW r \in CallCells, Copy(l, r)
      PROVE  LabelInv' /\ RequestedInv' /\ CopiesEnforced'
  <2>1. CASE CopyUnknownColumn(l, r)
    BY <2>1 DEF CopyUnknownColumn, IInv, LabelInv, CallInv, WalkInv, Walked,
                OldLabel, RequestedInv, CopiesEnforced, locals
  <2>2. CASE CopyOutOfBounds(l, r)
    BY <2>2 DEF CopyOutOfBounds, IInv, LabelInv, CallInv, WalkInv, Walked,
                OldLabel, RequestedInv, CopiesEnforced, locals
  <2>3. CASE CopySameCycle(l, r)
    <3>1. LabelInv'
      BY <2>3 DEF CopySameCycle, IInv, LabelInv, CallInv, WalkInv, Walked,
                  OldLabel, locals
    <3> QED
      BY <2>3, <3>1, SameCycleRequested
  <2>4. CASE CopyBegin(l, r)
    <3>1. LabelInv'
      BY <2>4, <1>0, BeginLabels
    <3>2. RequestedInv' /\ CopiesEnforced'
      BY <2>4 DEF CopyBegin, Relabel, IInv, RequestedInv, CopiesEnforced
    <3> QED
      BY <3>1, <3>2
  <2> QED
    BY <1>1, <2>1, <2>2, <2>3, <2>4 DEF Copy
<1>2. CASE Walk
  <2>1. LabelInv'
    BY <1>2, <1>0, WalkLabels
  <2>2. RequestedInv' /\ CopiesEnforced'
    BY <1>2 DEF Walk, IInv, RequestedInv, CopiesEnforced
  <2> QED
    BY <1>0, <2>1, <2>2 DEF IInv
<1>3. CASE Join
  BY <1>0, <1>3, JoinLabels, JoinRequested DEF IInv
<1>4. CASE UNCHANGED assemblyVars
  BY <1>4 DEF assemblyVars, IInv, TypeOK, LabelInv, CallInv, WalkInv, Walked, OldLabel,
              RequestedInv, CopiesEnforced
<1> QED
  BY <1>0, <1>1, <1>2, <1>3, <1>4 DEF AssemblyNext, IInv

\* The inductive invariant holds throughout.
LEMMA Invariance == AssemblySpec => []IInv
BY InitIInv, StepIInv, PTL DEF AssemblySpec

\* The permutation enforces exactly the accepted copies, for every circuit.
THEOREM CopiesEnforcedTheorem == AssemblySpec => []CopiesEnforced
<1>1. IInv => CopiesEnforced
  BY DEF IInv
<1> QED
  BY <1>1, Invariance, PTL

\* Between calls the labels that decide the early return are the cycles.
THEOREM LabelsAreCyclesTheorem == AssemblySpec => []LabelsAreCycles
<1>1. IInv => LabelsAreCycles
  BY DEF IInv, LabelInv, Labels, LabelsAreCycles
<1> QED
  BY <1>1, Invariance, PTL

\* The accumulator implements the partition of CopyConstraints.
THEOREM ImplementsClassesTheorem == AssemblySpec => ImplementsClasses
<1>1. AssemblyInit => Classes!Init
  BY IdentityOrbit DEF AssemblyInit, Classes!Init
<1>2. IInv /\ [AssemblyNext]_assemblyVars => [Classes!Next]_([c \in Cells |-> Orbit(mapping, c)])
  <2> SUFFICES ASSUME IInv, [AssemblyNext]_assemblyVars
               PROVE  \/ Classes!Next
                      \/ UNCHANGED [c \in Cells |-> Orbit(mapping, c)]
    OBVIOUS
  <2>1. CASE Join
    <3>1. left \in Cells /\ right \in Cells
      BY <2>1, JoinFacts
    <3>2. Classes!Copy(left, right)
      BY <2>1, <3>1, JoinOrbits DEF Classes!Copy
    <3> QED
      BY <3>1, <3>2 DEF Classes!Next
  <2>2. CASE mapping' = mapping
    BY <2>2
  <2>3. Join \/ mapping' = mapping
    BY DEF AssemblyNext, Copy, CopyUnknownColumn, CopyOutOfBounds, CopySameCycle,
           CopyBegin, Relabel, Walk, assemblyVars
  <2> QED
    BY <2>1, <2>2, <2>3
<1> QED
  BY <1>1, <1>2, Invariance, PTL DEF AssemblySpec, ImplementsClasses, Classes!Spec

-----------------------------------------------------------------------------
(* The sizes of the cycles. *)

\* During a call the size of the cycle that keeps its label counts both cycles
\* already, and the size of the other one is not looked at again.
SizesInv ==
  /\ SizesExact
  /\ pc # "idle" =>
       /\ sizes[left_cycle] = Cardinality(Orbit(mapping, left_cycle))
                              + Cardinality(Orbit(mapping, right_cycle))
       /\ \A c \in Cells : OldLabel[c] \notin {left_cycle, right_cycle} =>
            sizes[OldLabel[c]] = Cardinality(Orbit(mapping, c))

\* A cycle has finitely many cells.
LEMMA OrbitFinite ==
  ASSUME NEW m, NEW c
  PROVE  IsFiniteSet(Orbit(m, c)) /\ Cardinality(Orbit(m, c)) \in Nat
<1>1. IsFiniteSet(Cells)
  <2>1. N - 1 \in Int /\ IsFiniteSet(0 .. N - 1)
    BY NAssumption, FS_Interval
  <2> QED
    BY <2>1, FiniteAssumption, FS_Product DEF Cells
<1>2. Orbit(m, c) \in SUBSET Cells
  BY DEF Orbit
<1> QED
  BY <1>1, <1>2, FS_Subset, FS_CardinalityType

\* Every cycle has one cell at the start.
LEMMA SizesStart == AssemblyInit => SizesInv
<1> SUFFICES ASSUME AssemblyInit PROVE SizesInv
  OBVIOUS
<1>1. ASSUME NEW c \in Cells
      PROVE  sizes[aux[c]] = Cardinality(Orbit(mapping, c))
  <2>1. Orbit(mapping, c) = {c}
    BY IdentityOrbit DEF AssemblyInit
  <2>2. sizes[aux[c]] = 1
    BY DEF AssemblyInit
  <2> QED
    BY <2>1, <2>2, FS_Singleton
<1> QED
  BY <1>1 DEF SizesInv, SizesExact, AssemblyInit

\* A call that merges adds the size of the dropped cycle to that of the kept one.
LEMMA SizesBegin ==
  ASSUME IInv, SizesInv, TypeOK', NEW l, NEW r, CopyBegin(l, r)
  PROVE  SizesInv'
<1>1. /\ l \in Cells /\ r \in Cells /\ aux[l] # aux[r]
      /\ mapping' = mapping /\ aux' = aux /\ pc' = "walk"
      /\ sizes' = [sizes EXCEPT ![left_cycle'] = @ + sizes[right_cycle']]
      /\ \/ left_cycle' = aux[l] /\ right_cycle' = aux[r]
         \/ left_cycle' = aux[r] /\ right_cycle' = aux[l]
  BY DEF CopyBegin, Relabel
<1>2. /\ mapping \in [Cells -> Cells] /\ aux \in [Cells -> Cells] /\ sizes \in [Cells -> Nat]
      /\ Labels(mapping, aux) /\ SelfLabelled(aux)
      /\ \A c \in Cells : sizes[aux[c]] = Cardinality(Orbit(mapping, c))
  BY DEF IInv, LabelInv, TypeOK, CopyBegin, Relabel, SizesInv, SizesExact
<1>3. right_cycle' \in Cells /\ left_cycle' \in Cells
  BY <1>1, <1>2
<1>4. aux[right_cycle'] = right_cycle' /\ aux[left_cycle'] = left_cycle'
  BY <1>1, <1>2 DEF SelfLabelled
<1>5. OldLabel' = aux
  <2>1. \A c \in Cells : c \in Orbit(mapping, right_cycle') <=> aux[c] = right_cycle'
    BY <1>2, <1>3, <1>4 DEF Labels
  <2> QED
    BY <1>1, <1>2, <2>1 DEF OldLabel
<1>6. sizes'[left_cycle'] = Cardinality(Orbit(mapping, left_cycle'))
                            + Cardinality(Orbit(mapping, right_cycle'))
  <2>1. /\ sizes[left_cycle'] = Cardinality(Orbit(mapping, left_cycle'))
        /\ sizes[right_cycle'] = Cardinality(Orbit(mapping, right_cycle'))
    BY <1>2, <1>3, <1>4
  <2> QED
    BY <1>1, <1>2, <1>3, <2>1
<1>7. ASSUME NEW c \in Cells, aux[c] \notin {left_cycle', right_cycle'}
      PROVE  sizes'[aux[c]] = Cardinality(Orbit(mapping, c))
  BY <1>1, <1>2, <1>7
<1> QED
  BY <1>1, <1>5, <1>6, <1>7 DEF SizesInv, SizesExact

\* The cycle that the exchange makes has the cells of both.
LEMMA SizesJoin ==
  ASSUME IInv, SizesInv, Join
  PROVE  SizesInv'
<1> DEFINE A == Orbit(mapping, left)
           B == Orbit(mapping, right)
<1>1. /\ left \in Cells /\ right \in Cells /\ left_cycle \in Cells /\ right_cycle \in Cells
      /\ mapping \in [Cells -> Cells] /\ CallInv
      /\ pc' = "idle" /\ sizes' = sizes /\ aux' = aux
  BY DEF IInv, LabelInv, TypeOK, Join
<1>2. OldLabel[right_cycle] = right_cycle
  <2>1. right_cycle \in Orbit(mapping, right_cycle)
    BY <1>1, OrbitClosed
  <2> QED
    BY <1>1, <2>1 DEF OldLabel
<1>3. \A c, d \in Cells : OldLabel[c] = OldLabel[d] <=> d \in Orbit(mapping, c)
  BY <1>1 DEF CallInv, Labels
<1>4. \A c, d \in Cells : OldLabel[c] = OldLabel[d] => Orbit(mapping, c) = Orbit(mapping, d)
  <2>1. \A c : Orbit(mapping, c) \subseteq Cells
    BY DEF Orbit
  <2> QED
    BY <1>3, <2>1
<1>5. \/ A = Orbit(mapping, left_cycle) /\ B = Orbit(mapping, right_cycle)
      \/ B = Orbit(mapping, left_cycle) /\ A = Orbit(mapping, right_cycle)
  BY <1>1, <1>2, <1>4 DEF CallInv
<1>6. A \cap B = {}
  <2>1. ASSUME NEW d \in A, d \in B
        PROVE  FALSE
    <3>1. d \in Cells
      BY DEF Orbit
    <3>2. OldLabel[left] = OldLabel[d] /\ OldLabel[right] = OldLabel[d]
      BY <1>1, <1>3, <2>1, <3>1
    <3> QED
      BY <3>2, JoinFacts
  <2> QED
    BY <2>1
<1>7. Cardinality(A \cup B) = Cardinality(A) + Cardinality(B)
  <2>1. IsFiniteSet(A) /\ IsFiniteSet(B) /\ Cardinality(A) \in Nat /\ Cardinality(B) \in Nat
    BY OrbitFinite
  <2> HIDE DEF A, B
  <2>2. Cardinality(A \cap B) = 0
    BY <1>6, FS_EmptySet
  <2>3. Cardinality(A \cup B) = Cardinality(A) + Cardinality(B) - Cardinality(A \cap B)
    BY <2>1, FS_Union
  <2> QED
    BY <2>1, <2>2, <2>3
<1>8. sizes[left_cycle] = Cardinality(A \cup B)
  <2>1. sizes[left_cycle] = Cardinality(Orbit(mapping, left_cycle))
                            + Cardinality(Orbit(mapping, right_cycle))
    BY DEF SizesInv, Join
  <2>2. Cardinality(A) \in Nat /\ Cardinality(B) \in Nat
    BY OrbitFinite
  <2> HIDE DEF A, B
  <2> QED
    BY <1>5, <1>7, <2>1, <2>2
<1>9. ASSUME NEW c \in Cells
      PROVE  sizes[aux[c]] = Cardinality(Orbit(mapping', c))
  <2>1. CASE c \in A \cup B
    <3>1. Orbit(mapping', c) = A \cup B
      BY <2>1, JoinOrbits
    <3>2. aux[c] = left_cycle
      BY <2>1, JoinFacts
    <3> QED
      BY <1>8, <3>1, <3>2
  <2>2. CASE c \notin A \cup B
    <3>1. Orbit(mapping', c) = Orbit(mapping, c)
      BY <2>2, JoinOrbits
    <3>2. aux[c] # left_cycle /\ aux[c] = OldLabel[c]
      BY <2>2, JoinFacts
    <3>3. OldLabel[c] # right_cycle
      <4>1. ASSUME OldLabel[c] = right_cycle
            PROVE  FALSE
        <5>1. c \in Orbit(mapping, right_cycle)
          BY <1>1, <1>2, <1>3, <4>1
        <5> QED
          BY <1>5, <2>2, <5>1
      <4> QED
        BY <4>1
    <3>4. sizes[OldLabel[c]] = Cardinality(Orbit(mapping, c))
      BY <3>2, <3>3 DEF SizesInv, Join
    <3> QED
      BY <3>1, <3>2, <3>4
  <2> QED
    BY <2>1, <2>2
<1> QED
  BY <1>1, <1>9 DEF SizesInv, SizesExact

\* Every step of copy keeps the sizes.
LEMMA SizesStep == IInv /\ SizesInv /\ [AssemblyNext]_assemblyVars => SizesInv'
<1> SUFFICES ASSUME IInv, SizesInv, [AssemblyNext]_assemblyVars PROVE SizesInv'
  OBVIOUS
<1>1. TypeOK'
  BY TypeStep DEF IInv
<1>2. ASSUME NEW l \in CallCells, NEW r \in CallCells, Copy(l, r)
      PROVE  SizesInv'
  <2>1. CASE CopyUnknownColumn(l, r)
    BY <2>1 DEF CopyUnknownColumn, SizesInv, SizesExact, OldLabel, locals
  <2>2. CASE CopyOutOfBounds(l, r)
    BY <2>2 DEF CopyOutOfBounds, SizesInv, SizesExact, OldLabel, locals
  <2>3. CASE CopySameCycle(l, r)
    BY <2>3 DEF CopySameCycle, SizesInv, SizesExact, OldLabel, locals
  <2>4. CASE CopyBegin(l, r)
    BY <1>1, <2>4, SizesBegin
  <2> QED
    BY <1>2, <2>1, <2>2, <2>3, <2>4 DEF Copy
<1>3. CASE Walk
  <2>1. /\ mapping' = mapping /\ left_cycle' = left_cycle /\ right_cycle' = right_cycle
        /\ sizes' = sizes /\ pc' # "idle" /\ pc # "idle"
        /\ aux' = [aux EXCEPT ![here] = left_cycle]
    BY <1>3 DEF Walk
  <2>2. OldLabel' = OldLabel
    <3>1. here \in Orbit(mapping, right_cycle) /\ aux \in [Cells -> Cells]
      BY <1>3 DEF IInv, LabelInv, TypeOK, WalkInv, Walk
    <3> QED
      BY <2>1, <3>1 DEF OldLabel
  <2> QED
    BY <2>1, <2>2 DEF SizesInv, SizesExact
<1>4. CASE Join
  BY <1>4, SizesJoin
<1>5. CASE UNCHANGED assemblyVars
  BY <1>5 DEF assemblyVars, SizesInv, SizesExact, OldLabel
<1> QED
  BY <1>2, <1>3, <1>4, <1>5 DEF AssemblyNext

\* Between calls the size kept at a distinguished element is the length of its
\* cycle, so the cycle that is relabelled is the shorter one.
THEOREM SizesExactTheorem == AssemblySpec => []SizesExact
<1>1. SizesInv => SizesExact
  BY DEF SizesInv
<1>2. AssemblySpec => []SizesInv
  BY SizesStart, SizesStep, Invariance, PTL DEF AssemblySpec
<1> QED
  BY <1>1, <1>2, PTL
=============================================================================
