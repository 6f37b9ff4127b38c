----------------------------- MODULE V1Planner -----------------------------
(***************************************************************************)
(* Key generation's synthesis with the V1 floor planner                    *)
(* (proofs/src/circuit/floor_planner/v1.rs and v1/strategy.rs) writing     *)
(* into the Assembly of plonk/keygen.rs.                                   *)
(*                                                                         *)
(* The circuit is synthesised twice.  The first pass measures every region *)
(* (MeasureRegion); the regions are then sorted by advice area and slotted *)
(* one by one into the gaps the earlier ones left (Plan, SlotIn); the      *)
(* second pass makes the assignments (AssignRegion), and the constants go  *)
(* last, to what is free of the constants columns (AssignConstant).        *)
(*                                                                         *)
(* A closure is the sequence of operations a region makes in both passes;  *)
(* an operation is the record of SinglePassLayouter.  Tables are assigned  *)
(* by the code that module models, in columns no region uses.              *)
(***************************************************************************)
EXTENDS Integers, Sequences, SequencesExt

CONSTANTS
    ColumnOrder,          \* the columns and selectors, in the order of their Ord
    Advice, Fixed,        \* which of them are advice and fixed columns
    ConstantsColumns,     \* the fixed columns enabled for constants, a sequence
    Closures,             \* what the closure of a region may do
    Zero,                 \* the value a fixed cell starts with
    UsableRows,           \* rows that are not blinding rows
    MaxRegions            \* bound on the regions of a circuit

VARIABLES
    circuit,      \* the closures of the regions so far
    shapes,       \* the RegionShapes of the measurement pass
    queue,        \* the regions still to be placed, in the sorted order
    starts,       \* region -> its start row, for the regions placed
    allocations,  \* column -> the AllocatedRegions in it
    index,        \* how many regions the assignment pass has made
    requests,     \* the constants still to be assigned
    positions,    \* the cells left for them
    cells,        \* the values of the fixed columns
    links,        \* copies handed to the permutation
    owners,       \* history: every cell with the region and offset it is for
    phase         \* where synthesis is

v1vars == <<circuit, shapes, queue, starts, allocations, index, requests, positions, cells,
            links, owners, phase>>

RegionColumns == ToSet(ColumnOrder)
Rows == 0 .. UsableRows - 1

V1Init ==
    /\ circuit = <<>> /\ shapes = <<>> /\ queue = <<>>
    /\ starts = [r \in {} |-> 0]
    /\ allocations = [c \in RegionColumns |-> {}]
    /\ index = 0 /\ requests = <<>> /\ positions = <<>>
    /\ cells = [cell \in Fixed \X Rows |-> Zero]
    /\ links = {} /\ owners = {}
    /\ phase = "measure"

-----------------------------------------------------------------------------
(* The measurement pass                                                    *)

\* The RegionShape after every operation of the closure.
ShapeOf(ops) ==
    [columns   |-> {ops[i].col : i \in DOMAIN ops},
     row_count |-> Max({0} \cup {ops[i].off + 1 : i \in DOMAIN ops})]

MeasureRegion(ops) ==
    /\ phase = "measure" /\ Len(circuit) < MaxRegions
    /\ circuit' = Append(circuit, ops)
    /\ shapes' = Append(shapes, ShapeOf(ops))
    /\ UNCHANGED <<queue, starts, allocations, index, requests, positions, cells, links,
                   owners, phase>>

-----------------------------------------------------------------------------
(* The strategy                                                            *)

AdviceArea(shape) == Cardinality(shape.columns \cap Advice) * shape.row_count

\* A stable sort by advice area, reversed: of two regions of the same area the
\* later one comes first.
SortedRegions ==
    SetToSortSeq(DOMAIN shapes,
                 LAMBDA r, q : \/ AdviceArea(shapes[r]) > AdviceArea(shapes[q])
                               \/ AdviceArea(shapes[r]) = AdviceArea(shapes[q]) /\ r > q)

Plan ==
    /\ phase = "measure"
    /\ queue' = SortedRegions
    /\ phase' = "slot"
    /\ UNCHANGED <<circuit, shapes, starts, allocations, index, requests, positions, cells,
                   links, owners>>

\* None, as an end row or a slack.
Unbounded == -1

\* The end of an unbounded interval, or the start of the last one.
UnboundedIntervalStart(allocs) == Max({0} \cup {a.start + a.length : a \in allocs})

\* Bug: gaps between allocated regions are not offered.
FreeIntervalsTail(allocs, start, end) ==
    LET row == Max({start, UnboundedIntervalStart(allocs)})
    IN IF end = Unbounded \/ row < end THEN <<[start |-> row, end |-> end]>> ELSE <<>>

\* The unallocated, nonempty intervals of a column that meet [start, end), in
\* ascending order.  Allocated regions are scanned by their start; those from
\* the end on are skipped.
FreeIntervals(allocs, start, end) ==
    LET scan(acc, a) ==
          IF end # Unbounded /\ a.start >= end THEN acc
          ELSE [row   |-> Max({acc.row, a.start + a.length}),
                found |-> IF acc.row < a.start
                          THEN Append(acc.found, [start |-> acc.row, end |-> a.start])
                          ELSE acc.found]
        all == FoldLeft(scan, [row |-> start, found |-> <<>>],
                        SetToSortSeq(allocs, LAMBDA a, b : a.start < b.start))
    IN IF end = Unbounded \/ all.row < end
       THEN Append(all.found, [start |-> all.row, end |-> end])
       ELSE all.found

\* Outcomes of a search other than a row: no space worked, an assertion failed.
NoFit == -1
Panic == -2

\* Bug: the search keeps the start row of the outer column.
FirstFitShallow(length) ==
    LET fit[cols \in Seq(RegionColumns), start \in Nat, slack \in Int] ==
          IF cols = <<>> THEN start
          ELSE LET end == IF slack = Unbounded THEN Unbounded ELSE start + length + slack
                   spaces == FreeIntervals(allocations[Head(cols)], start, end)
                   i == SelectInSeq(spaces, LAMBDA s : s.end = Unbounded
                                                       \/ s.end - s.start >= length)
               IN IF i = 0 THEN NoFit
                  ELSE fit[Tail(cols), spaces[i].start,
                           IF spaces[i].end = Unbounded THEN Unbounded
                           ELSE spaces[i].end - spaces[i].start - length]
    IN fit

\* first_fit_region: the rows a region of this length can start at, looked for
\* in one column after the other; within a free interval of the first column
\* the others may move the start down by the slack the interval leaves.
FirstFit(length) ==
    LET fit[cols \in Seq(RegionColumns), start \in Nat, slack \in Int] ==
          LET end == IF slack = Unbounded THEN Unbounded ELSE start + length + slack
              spaces == FreeIntervals(allocations[Head(cols)], start, end)
              s_slack(s) == s.end - s.start - length
              try(s) ==
                IF s.end # Unbounded /\ slack # Unbounded /\ s_slack(s) > slack THEN Panic
                ELSE IF s.end # Unbounded /\ s_slack(s) < 0 THEN NoFit
                ELSE LET row == fit[Tail(cols), s.start,
                                    IF s.end = Unbounded THEN Unbounded ELSE s_slack(s)]
                     IN IF row >= 0 /\ end # Unbounded /\ row + length > end THEN Panic
                        ELSE row
              worked == {i \in DOMAIN spaces : try(spaces[i]) # NoFit}
          IN IF cols = <<>> THEN start
             ELSE IF worked = {} THEN NoFit
             ELSE try(spaces[Min(worked)])
    IN fit

\* Bug: the region is recorded in its first column only.
SlotInFirstColumn ==
    /\ phase = "slot" /\ queue # <<>>
    /\ LET r == Head(queue)
           cols == SelectSeq(ColumnOrder, LAMBDA c : c \in shapes[r].columns)
           row == FirstFit(shapes[r].row_count)[cols, 0, Unbounded]
       IN /\ row >= 0
          /\ starts' = [q \in DOMAIN starts \cup {r} |-> IF q = r THEN row ELSE starts[q]]
          /\ allocations' = [c \in RegionColumns |->
                IF cols # <<>> /\ c = Head(cols)
                THEN allocations[c] \cup {[start |-> row, length |-> shapes[r].row_count]}
                ELSE allocations[c]]
    /\ queue' = Tail(queue)
    /\ UNCHANGED <<circuit, shapes, index, requests, positions, cells, links, owners, phase>>

\* One region of slot_in: its columns in their order, then an AllocatedRegion
\* in every one of them.
SlotIn ==
    /\ phase = "slot" /\ queue # <<>>
    /\ LET r == Head(queue)
           cols == SelectSeq(ColumnOrder, LAMBDA c : c \in shapes[r].columns)
           row == FirstFit(shapes[r].row_count)[cols, 0, Unbounded]
       IN IF row < 0 THEN phase' = "panic" /\ UNCHANGED <<starts, allocations, queue>>
          ELSE /\ starts' = [q \in DOMAIN starts \cup {r} |->
                                IF q = r THEN row ELSE starts[q]]
               /\ allocations' = [c \in RegionColumns |->
                     IF c \in shapes[r].columns
                     THEN allocations[c] \cup {[start |-> row, length |-> shapes[r].row_count]}
                     ELSE allocations[c]]
               /\ queue' = Tail(queue)
               /\ UNCHANGED phase
    /\ UNCHANGED <<circuit, shapes, index, requests, positions, cells, links, owners>>

\* The rows the planned circuit takes up.
FirstUnassignedRow ==
    Max({0} \cup {UnboundedIntervalStart(allocations[c]) : c \in RegionColumns})

\* constant_positions: what is free of every constants column in those rows.
ConstantPositions ==
    LET rows(s) == [i \in 1 .. s.end - s.start |-> s.start + i - 1]
        of(c) == LET spaces == FreeIntervals(allocations[c], 0, FirstUnassignedRow)
                     free == FlattenSeq([i \in DOMAIN spaces |-> rows(spaces[i])])
                 IN [i \in DOMAIN free |-> [col |-> c, row |-> free[i]]]
    IN FlattenSeq([i \in DOMAIN ConstantsColumns |-> of(ConstantsColumns[i])])

Planned ==
    /\ phase = "slot" /\ queue = <<>>
    /\ positions' = ConstantPositions
    /\ phase' = "assign"
    /\ UNCHANGED <<circuit, shapes, queue, starts, allocations, index, requests, cells, links,
                   owners>>

-----------------------------------------------------------------------------
(* The assignment pass                                                     *)

\* The Assembly refuses fixed cells and selectors beyond the usable rows and
\* ignores advice.
RegionFits(r) ==
    \A i \in DOMAIN circuit[r] :
        circuit[r][i].kind \in {"fixed", "selector"}
            => starts[r] + circuit[r][i].off < UsableRows

AssignRegion ==
    /\ phase = "assign" /\ index < Len(circuit) /\ RegionFits(index + 1)
    /\ LET r == index + 1
           ops == circuit[r]
           write(f, op) == IF op.kind # "fixed" THEN f
                           ELSE [f EXCEPT ![<<op.col, starts[r] + op.off>>] = op.val]
           asks == SelectSeq(ops, LAMBDA op : op.kind = "constant")
       IN /\ cells' = FoldLeft(write, cells, ops)
          /\ requests' = requests \o
                [i \in DOMAIN asks |-> [region |-> r, col |-> asks[i].col,
                                        off |-> asks[i].off, val |-> asks[i].val]]
          /\ owners' = owners \cup
                {[col |-> ops[i].col, row |-> starts[r] + ops[i].off,
                  region |-> r, off |-> ops[i].off] : i \in DOMAIN ops}
    /\ index' = index + 1
    /\ UNCHANGED <<circuit, shapes, queue, starts, allocations, positions, links, phase>>

V1Fails ==
    /\ phase' = "error"
    /\ UNCHANGED <<circuit, shapes, queue, starts, allocations, index, requests, positions,
                   cells, links, owners>>

AssignRegionFails ==
    /\ phase = "assign" /\ index < Len(circuit) /\ ~RegionFits(index + 1)
    /\ V1Fails

EnoughPositions == Len(positions) >= Len(requests)

RegionsAssigned ==
    /\ phase = "assign" /\ index = Len(circuit) /\ EnoughPositions
    /\ phase' = IF requests = <<>> \/ positions = <<>> THEN "done" ELSE "constants"
    /\ UNCHANGED <<circuit, shapes, queue, starts, allocations, index, requests, positions,
                   cells, links, owners>>

NotEnoughColumnsForConstants ==
    /\ phase = "assign" /\ index = Len(circuit) /\ ~EnoughPositions
    /\ V1Fails

\* Both the cell of the constant and the one it is copied to must be usable.
ConstantUsable ==
    /\ Head(positions).row < UsableRows
    /\ starts[Head(requests).region] + Head(requests).off < UsableRows

AssignConstant ==
    /\ phase = "constants" /\ ConstantUsable
    /\ LET p == Head(positions)
           k == Head(requests)
       IN /\ cells' = [cells EXCEPT ![<<p.col, p.row>>] = k.val]
          /\ links' = links \cup {[col |-> p.col, row |-> p.row,
                                   to |-> k.col, at |-> starts[k.region] + k.off]}
          /\ owners' = owners \cup
                {[col |-> p.col, row |-> p.row, region |-> 0, off |-> p.row]}
    /\ positions' = Tail(positions) /\ requests' = Tail(requests)
    /\ phase' = IF Len(requests) = 1 \/ Len(positions) = 1 THEN "done" ELSE phase
    /\ UNCHANGED <<circuit, shapes, queue, starts, allocations, index>>

AssignConstantFails ==
    /\ phase = "constants" /\ ~ConstantUsable
    /\ V1Fails

-----------------------------------------------------------------------------
V1Next ==
    \/ \E ops \in Closures : MeasureRegion(ops)
    \/ Plan \/ SlotIn \/ Planned
    \/ AssignRegion \/ AssignRegionFails
    \/ RegionsAssigned \/ NotEnoughColumnsForConstants
    \/ AssignConstant \/ AssignConstantFails

V1Spec == V1Init /\ [][V1Next]_v1vars

-----------------------------------------------------------------------------
(* Properties                                                              *)

\* The assertions of first_fit_region and the expect of slot_in never fail.
NeverPanics == phase # "panic"

\* No two regions, and no region and constant, share a cell, although regions
\* are placed in gaps of earlier ones and out of the order they are assigned in.
CellsDisjoint ==
    \A p, q \in owners : p.col = q.col /\ p.row = q.row => p = q

\* Rows of a column that are taken.
Taken(c) == UNION {a.start .. a.start + a.length - 1 : a \in allocations[c]}

\* "Positions the regions starting at the earliest row for which none of the
\* columns are in use": the backtracking search over free intervals with its
\* slack finds the same row as a search row by row.
EarliestFit ==
    [][\A r \in DOMAIN starts' \ DOMAIN starts :
          /\ \A c \in shapes[r].columns :
                starts'[r] .. starts'[r] + shapes[r].row_count - 1 \cap Taken(c) = {}
          /\ \A row \in 0 .. starts'[r] - 1 : \E c \in shapes[r].columns :
                row .. row + shapes[r].row_count - 1 \cap Taken(c) # {}]_v1vars

\* A synthesis that ends well has every constant a region asked for in a cell
\* of a constants column that is copied to the cell that asked.
V1ConstantsHold ==
    phase = "done" =>
        \A r \in DOMAIN circuit : \A i \in DOMAIN circuit[r] :
            circuit[r][i].kind = "constant" =>
                \E l \in links :
                    /\ l.to = circuit[r][i].col /\ l.at = starts[r] + circuit[r][i].off
                    /\ cells[<<l.col, l.row>>] = circuit[r][i].val
                    /\ l.col \in ToSet(ConstantsColumns)
=============================================================================
