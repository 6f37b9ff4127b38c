------------------------ MODULE PermutationAssembly ------------------------
(***************************************************************************)
(* The copy-constraint accumulator of key generation                       *)
(* (proofs/src/plonk/permutation/keygen.rs).  The cells of the columns in  *)
(* the permutation argument form cycles under `mapping`; copy() joins two  *)
(* cycles by exchanging the successors of the two cells.  `aux` names the  *)
(* distinguished element of each cell's cycle and `sizes` its length, so   *)
(* that the shorter cycle is the one relabelled.                           *)
(*                                                                         *)
(* One copy() is several steps: the checks and the choice of the cycle to  *)
(* relabel (Copy), one iteration of the relabelling loop per cell (Walk),  *)
(* and the exchange of the successors (Join).                              *)
(***************************************************************************)
EXTENDS Naturals, FiniteSets

CONSTANTS
  PermColumns,    \* columns with equality enabled
  OtherColumns,   \* columns a caller may name that are not in the argument
  N,              \* rows of every column
  RowLimit,       \* rows a caller may name are 0..RowLimit-1
  Values          \* values a cell can hold

ASSUME NAssumption == N \in Nat
ASSUME ColumnsAssumption == PermColumns \cap OtherColumns = {}
ASSUME FiniteAssumption == IsFiniteSet(PermColumns)

VARIABLES
  mapping,        \* successor of every cell in its cycle
  aux,            \* distinguished element of every cell's cycle
  sizes,          \* length of the cycle, kept at its distinguished element
  pc,             \* where the current call is
  left, right,    \* the cells of the current call
  left_cycle,     \* the cycle that keeps its label
  right_cycle,    \* the cycle that is relabelled
  here,           \* the loop cursor i
  result,         \* what the last call returned
  requested       \* history: the copies that returned Ok

assemblyVars == <<mapping, aux, sizes, pc, left, right, left_cycle, right_cycle, here,
                 result, requested>>
locals == <<left, right, left_cycle, right_cycle, here>>

Cells == PermColumns \X (0..N-1)
NoCell == <<>>
CallCells == (PermColumns \cup OtherColumns) \X (0..RowLimit-1)

-----------------------------------------------------------------------------
AssemblyInit ==
  /\ mapping = [c \in Cells |-> c]
  /\ aux = [c \in Cells |-> c]
  /\ sizes = [c \in Cells |-> 1]
  /\ pc = "idle"
  /\ left = NoCell /\ right = NoCell
  /\ left_cycle = NoCell /\ right_cycle = NoCell /\ here = NoCell
  /\ result = "none"
  /\ requested = {}

\* A column that is not in the argument is refused before any row is looked at.
CopyUnknownColumn(l, r) ==
  /\ pc = "idle"
  /\ l[1] \notin PermColumns \/ r[1] \notin PermColumns
  /\ result' = "ColumnNotInPermutation"
  /\ UNCHANGED <<mapping, aux, sizes, pc, locals, requested>>

CopyOutOfBounds(l, r) ==
  /\ pc = "idle"
  /\ l[1] \in PermColumns /\ r[1] \in PermColumns
  /\ l[2] >= N \/ r[2] >= N
  /\ result' = "BoundsFailure"
  /\ UNCHANGED <<mapping, aux, sizes, pc, locals, requested>>

\* Both cells are already in one cycle: nothing to do.
CopySameCycle(l, r) ==
  /\ pc = "idle"
  /\ l \in Cells /\ r \in Cells
  /\ aux[l] = aux[r]
  /\ result' = "Ok"
  /\ requested' = requested \cup {<<l, r>>}
  /\ UNCHANGED <<mapping, aux, sizes, pc, locals>>

\* The bookkeeping of a merge that keeps the label `keep` and drops `drop`.
Relabel(l, r, keep, drop) ==
  /\ left_cycle' = keep
  /\ right_cycle' = drop
  /\ here' = drop
  /\ sizes' = [sizes EXCEPT ![keep] = @ + sizes[drop]]
  /\ left' = l /\ right' = r
  /\ pc' = "walk"
  /\ UNCHANGED <<mapping, aux, result, requested>>

\* Bug: the early return for cells of one cycle is missing.
CopyBeginUnguarded(l, r) ==
  /\ pc = "idle"
  /\ l \in Cells /\ r \in Cells
  /\ Relabel(l, r, aux[l], aux[r])

\* Bug: a merge counts one cell, not the cycle it absorbs.
CopyBeginCountsOne(l, r) ==
  /\ pc = "idle"
  /\ l \in Cells /\ r \in Cells
  /\ aux[l] # aux[r]
  /\ left_cycle' = aux[l] /\ right_cycle' = aux[r] /\ here' = aux[r]
  /\ sizes' = [sizes EXCEPT ![aux[l]] = @ + 1]
  /\ left' = l /\ right' = r
  /\ pc' = "walk"
  /\ UNCHANGED <<mapping, aux, result, requested>>

\* The cycles (not the cells) are exchanged when the left one is shorter.
CopyBegin(l, r) ==
  /\ pc = "idle"
  /\ l \in Cells /\ r \in Cells
  /\ aux[l] # aux[r]
  /\ IF sizes[aux[l]] < sizes[aux[r]]
       THEN Relabel(l, r, aux[r], aux[l])
       ELSE Relabel(l, r, aux[l], aux[r])

\* Bug: the loop leaves before it has relabelled the last cell.
WalkStopsEarly ==
  /\ pc = "walk"
  /\ aux' = [aux EXCEPT ![here] = left_cycle]
  /\ here' = mapping[here]
  /\ pc' = IF right_cycle \in {mapping[here], mapping[mapping[here]]}
             THEN "join" ELSE "walk"
  /\ UNCHANGED <<mapping, sizes, left, right, left_cycle, right_cycle, result,
                 requested>>

\* Bug: the loop waits for the wrong cycle's distinguished element.
WalkForever ==
  /\ pc = "walk"
  /\ aux' = [aux EXCEPT ![here] = left_cycle]
  /\ here' = mapping[here]
  /\ pc' = IF mapping[here] = left_cycle THEN "join" ELSE "walk"
  /\ UNCHANGED <<mapping, sizes, left, right, left_cycle, right_cycle, result,
                 requested>>

\* One iteration of the loop that relabels the right cycle.
Walk ==
  /\ pc = "walk"
  /\ aux' = [aux EXCEPT ![here] = left_cycle]
  /\ here' = mapping[here]
  /\ pc' = IF mapping[here] = right_cycle THEN "join" ELSE "walk"
  /\ UNCHANGED <<mapping, sizes, left, right, left_cycle, right_cycle, result,
                 requested>>

\* Bug: the second successor is read after the first one was overwritten.
JoinLosesSuccessor ==
  /\ pc = "join"
  /\ mapping' = [mapping EXCEPT ![left] = mapping[right]]
  /\ pc' = "idle"
  /\ result' = "Ok"
  /\ requested' = requested \cup {<<left, right>>}
  /\ left' = NoCell /\ right' = NoCell
  /\ left_cycle' = NoCell /\ right_cycle' = NoCell /\ here' = NoCell
  /\ UNCHANGED <<aux, sizes>>

\* The successors of the two cells of the call are exchanged: one cycle.
Join ==
  /\ pc = "join"
  /\ mapping' = [mapping EXCEPT ![left] = mapping[right],
                                ![right] = mapping[left]]
  /\ pc' = "idle"
  /\ result' = "Ok"
  /\ requested' = requested \cup {<<left, right>>}
  /\ left' = NoCell /\ right' = NoCell
  /\ left_cycle' = NoCell /\ right_cycle' = NoCell /\ here' = NoCell
  /\ UNCHANGED <<aux, sizes>>

Copy(l, r) ==
  \/ CopyUnknownColumn(l, r)
  \/ CopyOutOfBounds(l, r)
  \/ CopySameCycle(l, r)
  \/ CopyBegin(l, r)

AssemblyNext ==
  \/ \E l, r \in CallCells : Copy(l, r)
  \/ Walk
  \/ Join

\* A call, once started, runs to its return: the loop is sequential code.
AssemblySpec == AssemblyInit /\ [][AssemblyNext]_assemblyVars /\ WF_assemblyVars(Walk \/ Join)

-----------------------------------------------------------------------------
\* The cells reached from c by following m: the least set that holds c and is
\* closed under m.
ClosedUnder(m, S) == \A x \in S : m[x] \in S
Orbit(m, c) ==
  {d \in Cells : \A S \in SUBSET Cells : c \in S /\ ClosedUnder(m, S) => d \in S}

TypeOK ==
  /\ mapping \in [Cells -> Cells]
  /\ aux \in [Cells -> Cells]
  /\ sizes \in [Cells -> Nat]
  /\ pc \in {"idle", "walk", "join"}
  /\ result \in {"none", "Ok", "ColumnNotInPermutation", "BoundsFailure"}
  /\ requested \in SUBSET (Cells \X Cells)
  /\ IF pc = "idle"
       THEN left = NoCell /\ right = NoCell /\ left_cycle = NoCell
            /\ right_cycle = NoCell /\ here = NoCell
       ELSE left \in Cells /\ right \in Cells /\ left_cycle \in Cells
            /\ right_cycle \in Cells /\ here \in Cells

\* The permutation the prover argues about says exactly what the circuit asked
\* for: an assignment of values is invariant under `mapping` if and only if
\* it satisfies every copy that copy() accepted.  A missing direction is a
\* dropped constraint; an extra one rejects honest witnesses.
CopiesEnforced ==
  \A v \in [Cells -> Values] :
    (\A c \in Cells : v[mapping[c]] = v[c])
      <=> (\A p \in requested : v[p[1]] = v[p[2]])

\* Between calls, two cells carry the same distinguished element exactly when
\* they are on one cycle, so the early return of copy() never skips a copy that
\* still had to be made and the loop never meets two labels on one cycle.
LabelsAreCycles ==
  pc = "idle" =>
    \A c, d \in Cells : aux[c] = aux[d] <=> d \in Orbit(mapping, c)

\* Between calls, the size kept at a distinguished element is the length of its
\* cycle, which is what makes "relabel the shorter cycle" mean what it says.
SizesExact ==
  pc = "idle" =>
    \A c \in Cells : sizes[aux[c]] = Cardinality(Orbit(mapping, c))

\* Every copy() returns: the relabelling loop, whose only exit is meeting the
\* cell it started from, meets it.
CopyReturns == pc # "idle" ~> pc = "idle"

\* The accumulator implements the partition of CopyConstraints, with the cycles
\* of `mapping` as the classes.
Classes == INSTANCE CopyConstraints
             WITH class <- [c \in Cells |-> Orbit(mapping, c)]
ImplementsClasses == Classes!Spec
=============================================================================
