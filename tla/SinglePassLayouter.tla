------------------------- MODULE SinglePassLayouter -------------------------
(***************************************************************************)
(* Key generation's synthesis pass: the SimpleFloorPlanner's layouter      *)
(* (proofs/src/circuit/floor_planner/single_pass.rs) writing into the      *)
(* Assembly of plonk/keygen.rs.                                            *)
(*                                                                         *)
(* The closure of a region runs twice.  The first run only measures its    *)
(* shape, one operation at a time (Measure); the region is then placed at  *)
(* the first row that is free in all its columns (Place, Reserve), and the *)
(* second run makes the assignments (Assign).  The constants it asked for  *)
(* follow in the constants column (AssignConstant).  A table is assigned   *)
(* cell by cell from row 0 and then filled up (AssignCell, FinishTable).   *)
(*                                                                         *)
(* An operation is [kind, col, off, val]; its val is what an assign_fixed  *)
(* writes or what an assign_advice_from_constant asks for.                 *)
(***************************************************************************)
EXTENDS Integers, Sequences, FiniteSets

CONSTANTS
    Advice, Fixed, Selectors,   \* columns a region can use
    TableColumns,               \* fixed columns reserved for tables
    ConstantsColumns,           \* fixed columns enabled for constants
    Values, Zero,               \* values of a cell, and the one it starts with
    UsableRows,                 \* rows that are not blinding rows
    MaxRegions, MaxOps,         \* bounds on regions, and operations of a region
    MaxOffset, MaxTableRow,     \* bounds on offsets in regions and in tables
    MaxTables                   \* bound on finished table columns

ASSUME UsableRowsAssumption == UsableRows \in Nat
ASSUME OffsetAssumption == MaxOffset \in Nat
ASSUME ConstantsAssumption == ConstantsColumns \subseteq Fixed
ASSUME ColumnsAssumption ==
    /\ Advice \cap Fixed = {} /\ Advice \cap Selectors = {}
    /\ Fixed \cap Selectors = {} /\ TableColumns \cap Fixed = {}

VARIABLES
    constants,    \* the constants column, if the circuit has one
    columns,      \* first free row of every region column
    regions,      \* start row of every region
    ops,          \* the operations of the current region
    shape,        \* its RegionShape
    todo, start,  \* the columns still to look at, the start row so far
    pos,          \* how many operations the second run has made
    pending,      \* the constants still to be assigned
    fixed,        \* the values of the fixed columns
    copies,       \* <<constants row, column, row>> handed to the permutation
    used,         \* table columns of finished tables
    table,        \* the current table: column -> [default, assigned]
    placed,       \* history: every cell with the region and offset it is for
    asked,        \* history: the constants finished regions asked for
    entries,      \* history: the values assigned to a table column
    pc            \* where synthesis is

vars == <<constants, columns, regions, ops, shape, todo, start, pos, pending, fixed, copies,
          used, table, placed, asked, entries, pc>>

RegionColumns == Advice \cup Fixed \cup Selectors
Rows == 0 .. UsableRows - 1

\* What a closure may do.  A constant can only be asked for in an advice cell.
Operations ==
    [kind : {"advice"}, col : Advice, off : 0 .. MaxOffset, val : {Zero}]
    \cup [kind : {"constant"}, col : Advice, off : 0 .. MaxOffset, val : Values]
    \cup [kind : {"fixed"}, col : Fixed, off : 0 .. MaxOffset, val : Values]
    \cup [kind : {"selector"}, col : Selectors, off : 0 .. MaxOffset, val : {Zero}]

EmptyShape == [columns |-> {}, row_count |-> 0]
NoTable == [t \in {} |-> t]

Init ==
    /\ constants \in {{}} \cup {{cc} : cc \in ConstantsColumns}
    /\ columns = [c \in RegionColumns |-> 0]
    /\ regions = <<>>
    /\ ops = <<>> /\ shape = EmptyShape
    /\ todo = {} /\ start = 0 /\ pos = 0 /\ pending = <<>>
    /\ fixed = [cell \in (Fixed \cup TableColumns) \X Rows |-> Zero]
    /\ copies = {}
    /\ used = {} /\ table = NoTable
    /\ placed = {} /\ asked = {} /\ entries = [t \in TableColumns |-> {}]
    /\ pc = "idle"

\* Synthesis ends with an error.  What a failing call wrote before it returned
\* (the cell of a second assignment at row 0, for example) is dropped with the
\* Assembly.
Fails ==
    /\ pc' = "error"
    /\ UNCHANGED <<constants, columns, regions, ops, shape, todo, start, pos, pending, fixed,
                   copies, used, table, placed, asked, entries>>

-----------------------------------------------------------------------------
(* assign_region                                                           *)

EnterRegion ==
    /\ pc = "idle" /\ Len(regions) < MaxRegions
    /\ pc' = "shape"
    /\ UNCHANGED <<constants, columns, regions, ops, shape, todo, start, pos, pending, fixed,
                   copies, used, table, placed, asked, entries>>

\* One operation of the first run, on the RegionShape.
Measure(op) ==
    /\ pc = "shape" /\ Len(ops) < MaxOps
    /\ ops' = Append(ops, op)
    /\ shape' = [columns   |-> shape.columns \cup {op.col},
                 row_count |-> IF shape.row_count > op.off + 1
                               THEN shape.row_count ELSE op.off + 1]
    /\ UNCHANGED <<constants, columns, regions, todo, start, pos, pending, fixed, copies, used,
                   table, placed, asked, entries, pc>>

Measured ==
    /\ pc = "shape"
    /\ todo' = shape.columns /\ start' = 0
    /\ pc' = "place"
    /\ UNCHANGED <<constants, columns, regions, ops, shape, pos, pending, fixed, copies, used,
                   table, placed, asked, entries>>

\* The loop over the shape's columns, a hash set, in any order.
Place(c) ==
    /\ pc = "place" /\ c \in todo
    /\ start' = IF start > columns[c] THEN start ELSE columns[c]
    /\ todo' = todo \ {c}
    /\ UNCHANGED <<constants, columns, regions, ops, shape, pos, pending, fixed, copies, used,
                   table, placed, asked, entries, pc>>

\* Bug: a column keeps its own first free row, not the region's.
ReserveOwn ==
    /\ pc = "place" /\ todo = {}
    /\ regions' = Append(regions, start)
    /\ columns' = [c \in RegionColumns |->
                      IF c \in shape.columns THEN columns[c] + shape.row_count
                      ELSE columns[c]]
    /\ pos' = 0 /\ pending' = <<>> /\ pc' = "assign"
    /\ UNCHANGED <<constants, ops, shape, todo, start, fixed, copies, used, table, placed,
                   asked, entries>>

Reserve ==
    /\ pc = "place" /\ todo = {}
    /\ regions' = Append(regions, start)
    /\ columns' = [c \in RegionColumns |->
                      IF c \in shape.columns THEN start + shape.row_count
                      ELSE columns[c]]
    /\ pos' = 0 /\ pending' = <<>> /\ pc' = "assign"
    /\ UNCHANGED <<constants, ops, shape, todo, start, fixed, copies, used, table, placed,
                   asked, entries>>

\* The next operation of the second run, and its row.
Op == ops[pos + 1]
OpRow == regions[Len(regions)] + Op.off
Assigning == pc = "assign" /\ pos < Len(ops)

\* The Assembly stores fixed values and selectors and ignores advice, whose
\* rows only the prover checks.
Assign ==
    /\ Assigning
    /\ Op.kind \in {"fixed", "selector"} => OpRow < UsableRows
    /\ fixed' = IF Op.kind = "fixed" THEN [fixed EXCEPT ![<<Op.col, OpRow>>] = Op.val]
                ELSE fixed
    /\ pending' = IF Op.kind = "constant" THEN Append(pending, Op) ELSE pending
    /\ placed' = placed \cup
                    {[col |-> Op.col, row |-> OpRow, region |-> Len(regions), off |-> Op.off]}
    /\ pos' = pos + 1
    /\ UNCHANGED <<constants, columns, regions, ops, shape, todo, start, copies, used, table,
                   asked, entries, pc>>

AssignFails ==
    /\ Assigning /\ Op.kind \in {"fixed", "selector"} /\ OpRow >= UsableRows
    /\ Fails

ExitRegion ==
    /\ pc = "assign" /\ pos = Len(ops)
    /\ constants = {} => pending = <<>>
    /\ pc' = "constants"
    /\ UNCHANGED <<constants, columns, regions, ops, shape, todo, start, pos, pending, fixed,
                   copies, used, table, placed, asked, entries>>

\* NotEnoughColumnsForConstants
NoConstantsColumn ==
    /\ pc = "assign" /\ pos = Len(ops)
    /\ constants = {} /\ pending # <<>>
    /\ Fails

\* Bug: only the row the constant is written to is checked.
ConstantFitsUncopied(cc) == columns[cc] < UsableRows

\* The constant goes to the first free row of the constants column and is
\* copied to the cell that asked for it.  Both rows have to be usable.
ConstantFits(cc) ==
    /\ columns[cc] < UsableRows
    /\ regions[Len(regions)] + Head(pending).off < UsableRows

\* Bug: the next free row is not advanced.
AssignConstantInPlace(cc) ==
    /\ pc = "constants" /\ pending # <<>> /\ ConstantFits(cc)
    /\ fixed' = [fixed EXCEPT ![<<cc, columns[cc]>>] = Head(pending).val]
    /\ copies' = copies \cup {<<columns[cc], Head(pending).col,
                                regions[Len(regions)] + Head(pending).off>>}
    /\ placed' = placed \cup
                    {[col |-> cc, row |-> columns[cc], region |-> 0, off |-> columns[cc]]}
    /\ asked' = asked \cup {[region |-> Len(regions), col |-> Head(pending).col,
                             off |-> Head(pending).off, val |-> Head(pending).val]}
    /\ pending' = Tail(pending)
    /\ UNCHANGED <<constants, columns, regions, ops, shape, todo, start, pos, used, table, entries, pc>>

AssignConstant(cc) ==
    /\ pc = "constants" /\ pending # <<>> /\ ConstantFits(cc)
    /\ fixed' = [fixed EXCEPT ![<<cc, columns[cc]>>] = Head(pending).val]
    /\ copies' = copies \cup {<<columns[cc], Head(pending).col,
                                regions[Len(regions)] + Head(pending).off>>}
    /\ columns' = [columns EXCEPT ![cc] = @ + 1]
    /\ placed' = placed \cup
                    {[col |-> cc, row |-> columns[cc], region |-> 0, off |-> columns[cc]]}
    /\ asked' = asked \cup {[region |-> Len(regions), col |-> Head(pending).col,
                             off |-> Head(pending).off, val |-> Head(pending).val]}
    /\ pending' = Tail(pending)
    /\ UNCHANGED <<constants, regions, ops, shape, todo, start, pos, used, table, entries, pc>>

AssignConstantFails(cc) ==
    /\ pc = "constants" /\ pending # <<>> /\ ~ConstantFits(cc)
    /\ Fails

RegionDone ==
    /\ pc = "constants" /\ pending = <<>>
    /\ ops' = <<>> /\ shape' = EmptyShape /\ start' = 0 /\ pos' = 0
    /\ pc' = "idle"
    /\ UNCHANGED <<constants, columns, regions, todo, pending, fixed, copies, used, table,
                   placed, asked, entries>>

-----------------------------------------------------------------------------
(* assign_table                                                            *)

EnterTable ==
    /\ pc = "idle" /\ Cardinality(used) < MaxTables
    /\ pc' = "table"
    /\ UNCHANGED <<constants, columns, regions, ops, shape, todo, start, pos, pending, fixed,
                   copies, used, table, placed, asked, entries>>

\* The value a table column is filled up with, once row 0 was assigned.
Entry(t) == IF t \in DOMAIN table THEN table[t] ELSE [default |-> {}, assigned |-> {}]

\* The column is not reserved by an earlier table, the row can be used, and
\* row 0 is not assigned twice.
CellFits(t, off) ==
    /\ t \notin used /\ off < UsableRows
    /\ off = 0 => Entry(t).default = {}

AssignCell(t, off, v) ==
    /\ pc = "table" /\ CellFits(t, off)
    /\ fixed' = [fixed EXCEPT ![<<t, off>>] = v]
    /\ table' = [c \in DOMAIN table \cup {t} |->
                    IF c # t THEN table[c]
                    ELSE [default  |-> IF off = 0 THEN {v} ELSE Entry(t).default,
                          assigned |-> Entry(t).assigned \cup {off}]]
    /\ entries' = [entries EXCEPT ![t] = @ \cup {v}]
    /\ UNCHANGED <<constants, columns, regions, ops, shape, todo, start, pos, pending, copies,
                   used, placed, asked, pc>>

AssignCellFails(t, off) ==
    /\ pc = "table" /\ ~CellFits(t, off)
    /\ Fails

\* compute_table_lengths: every column starts at row 0, has no gap, and is as
\* long as the others.
Lengths == {Cardinality(table[t].assigned) : t \in DOMAIN table}

TableComplete ==
    /\ \A t \in DOMAIN table :
          /\ table[t].default # {}
          /\ table[t].assigned = 0 .. Cardinality(table[t].assigned) - 1
    /\ Cardinality(Lengths) <= 1

\* fill_from_row refuses a first row beyond the usable ones, so a table that
\* takes up every usable row is refused too.
TableFits == \A n \in Lengths : n < UsableRows

\* The value of row 0.
Filler(t) == CHOOSE v \in table[t].default : TRUE

\* Bug: a table is left as long as it was assigned.
FinishTableUnfilled ==
    /\ pc = "table" /\ TableComplete /\ TableFits
    /\ used' = used \cup DOMAIN table
    /\ table' = NoTable /\ pc' = "idle"
    /\ UNCHANGED <<constants, columns, regions, ops, shape, todo, start, pos, pending, fixed, copies,
                   placed, asked, entries>>

FinishTable ==
    /\ pc = "table" /\ TableComplete /\ TableFits
    /\ used' = used \cup DOMAIN table
    /\ fixed' = [cell \in DOMAIN fixed |->
                    IF /\ cell[1] \in DOMAIN table
                       /\ cell[2] >= Cardinality(table[cell[1]].assigned)
                    THEN Filler(cell[1])
                    ELSE fixed[cell]]
    /\ table' = NoTable /\ pc' = "idle"
    /\ UNCHANGED <<constants, columns, regions, ops, shape, todo, start, pos, pending, copies,
                   placed, asked, entries>>

FinishTableFails ==
    /\ pc = "table" /\ ~(TableComplete /\ TableFits)
    /\ Fails

-----------------------------------------------------------------------------
RegionStep ==
    \/ EnterRegion \/ Measured \/ Reserve \/ Assign \/ AssignFails
    \/ ExitRegion \/ NoConstantsColumn \/ RegionDone
    \/ \E op \in Operations : Measure(op)
    \/ \E c \in RegionColumns : Place(c)
    \/ \E cc \in constants : AssignConstant(cc) \/ AssignConstantFails(cc)

TableStep ==
    \/ EnterTable \/ FinishTable \/ FinishTableFails
    \/ \E t \in TableColumns, off \in 0 .. MaxTableRow :
          AssignCellFails(t, off) \/ \E v \in Values : AssignCell(t, off, v)

Next == RegionStep \/ TableStep

Spec == Init /\ [][Next]_vars

-----------------------------------------------------------------------------
(* Properties                                                              *)

TypeOK ==
    /\ constants \in SUBSET ConstantsColumns
    /\ columns \in [RegionColumns -> Nat]
    /\ regions \in Seq(Nat)
    /\ ops \in Seq(Operations)
    /\ shape \in [columns : SUBSET RegionColumns, row_count : Nat]
    /\ todo \in SUBSET RegionColumns
    /\ start \in Nat /\ pos \in Nat
    /\ pending \in Seq({op \in Operations : op.kind = "constant"})
    /\ fixed \in [(Fixed \cup TableColumns) \X Rows -> Values \cup {Zero}]
    /\ copies \in SUBSET (Rows \X Advice \X Rows)
    /\ used \in SUBSET TableColumns
    /\ DOMAIN table \in SUBSET TableColumns
    /\ \A t \in DOMAIN table :
          /\ table[t].default \in SUBSET Values
          /\ table[t].assigned \in SUBSET Rows
    /\ placed \in SUBSET [col : RegionColumns, row : Nat, region : Nat, off : Nat]
    /\ asked \in SUBSET [region : Nat, col : Advice, off : Nat, val : Values]
    /\ entries \in [TableColumns -> SUBSET Values]
    /\ pc \in {"idle", "shape", "place", "assign", "constants", "table", "error"}

\* No two regions, and no region and constant, ever share a cell: whatever the
\* shapes and the columns they use, a cell belongs to one offset of one region.
NoCellShared ==
    \A p, q \in placed : p.col = q.col /\ p.row = q.row => p = q

\* Every constant a finished region asked for is still in a cell of the
\* constants column that is copied to the cell that asked, however many regions
\* that use the same fixed column came later.
ConstantsHold ==
    \A k \in asked : \E cc \in constants, row \in Rows :
        /\ fixed[<<cc, row>>] = k.val
        /\ <<row, k.col, regions[k.region] + k.off>> \in copies

\* A finished table holds in every usable row a value its circuit assigned to
\* the column: no row keeps the value an unassigned cell starts with, which
\* would be one more entry of the table.
TablesFilled ==
    \A t \in used : \A row \in Rows : fixed[<<t, row>>] \in entries[t]
=============================================================================
