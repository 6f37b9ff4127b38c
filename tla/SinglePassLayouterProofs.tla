---------------------- MODULE SinglePassLayouterProofs ----------------------
(***************************************************************************)
(* The properties of the layouter, for every circuit.                      *)
(*                                                                         *)
(* Types come first (TypeInv).  That no two regions share a cell follows   *)
(* from IInv: `columns` bounds every cell placed so far (BelowFree);       *)
(* a region is placed at or above that bound in each of its columns        *)
(* (PlaceInv) and reserves its rows before it assigns any (AssignInv); its *)
(* operations stay inside the measured shape (ShapeInv); and constants     *)
(* always take the first free row.  Constants (HeldInv) and tables         *)
(* (TableInv) rest on these two.                                           *)
(***************************************************************************)
EXTENDS SinglePassLayouter, FiniteSetTheorems, TLAPS

\* The fields of an operation, whatever its kind.
LEMMA OperationFields ==
    ASSUME NEW op \in Operations
    PROVE  op.col \in RegionColumns /\ op.off \in Nat
<1>1. 0 .. MaxOffset \subseteq Nat  BY OffsetAssumption
<1>. QED  BY <1>1 DEF Operations, RegionColumns

-----------------------------------------------------------------------------
(* Types.  TypeOK needs to know that a region is open while it is assigned: *)
(* its start row is the last element of `regions`.                         *)

RegionOpen == pc \in {"assign", "constants"} => Len(regions) > 0

TypeInv == TypeOK /\ RegionOpen

\* A fresh layouter is well typed.
LEMMA InitTypeInv == Init => TypeInv
<1>. SUFFICES ASSUME Init PROVE TypeInv  OBVIOUS
<1>1. constants \in SUBSET ConstantsColumns  BY DEF Init
<1>2. fixed \in [(Fixed \cup TableColumns) \X Rows -> Values \cup {Zero}]  BY DEF Init
<1>3. DOMAIN table = {}  BY DEF Init, NoTable
<1>. QED  BY <1>1, <1>2, <1>3 DEF Init, TypeInv, TypeOK, RegionOpen, EmptyShape

\* Steps that only move on, and failures.
LEMMA MovesTypeInv ==
    ASSUME TypeInv,
           EnterRegion \/ Measured \/ ExitRegion \/ RegionDone \/ EnterTable
             \/ (\E c \in RegionColumns : Place(c)) \/ Fails
    PROVE  TypeInv'
<1>. USE DEF TypeInv, TypeOK, RegionOpen
<1>1. CASE EnterRegion  BY <1>1 DEF EnterRegion
<1>2. CASE Measured  BY <1>2 DEF Measured
<1>3. CASE ExitRegion  BY <1>3 DEF ExitRegion
<1>4. CASE RegionDone  BY <1>4 DEF RegionDone, EmptyShape
<1>5. CASE EnterTable  BY <1>5 DEF EnterTable
<1>6. CASE \E c \in RegionColumns : Place(c)
  <2>1. PICK c \in RegionColumns : Place(c)  BY <1>6
  <2>2. QED  BY <2>1 DEF Place
<1>7. CASE Fails  BY <1>7 DEF Fails
<1>. QED  BY <1>1, <1>2, <1>3, <1>4, <1>5, <1>6, <1>7

\* The first run: the shape only names region columns.
LEMMA MeasureTypeInv ==
    ASSUME TypeInv, NEW op \in Operations, Measure(op)
    PROVE  TypeInv'
<1>1. op.col \in RegionColumns /\ op.off \in Nat  BY OperationFields
<1>. QED  BY <1>1 DEF TypeInv, TypeOK, RegionOpen, Measure

\* The region gets a start row and its columns move on.
LEMMA ReserveTypeInv ==
    ASSUME TypeInv, Reserve
    PROVE  TypeInv'
<1>1. columns' \in [RegionColumns -> Nat]
  BY DEF TypeInv, TypeOK, Reserve
<1>2. regions' \in Seq(Nat) /\ Len(regions') > 0
  BY DEF TypeInv, TypeOK, Reserve
<1>. QED  BY <1>1, <1>2 DEF TypeInv, TypeOK, RegionOpen, Reserve

\* The second run: a fixed value goes to a usable row of a fixed column.
LEMMA AssignTypeInv ==
    ASSUME TypeInv, Assign
    PROVE  TypeInv'
<1>. DEFINE op  == ops[pos + 1]
            row == regions[Len(regions)] + op.off
<1>1. pos + 1 \in 1 .. Len(ops) /\ pc = "assign" /\ Len(regions) > 0
  BY DEF TypeInv, TypeOK, RegionOpen, Assign, Assigning
<1>2. op \in Operations  BY <1>1 DEF TypeInv, TypeOK
<1>3. op.col \in RegionColumns /\ op.off \in Nat  BY <1>2, OperationFields
<1>4. row \in Nat  BY <1>1, <1>3 DEF TypeInv, TypeOK
<1>5. fixed' = (IF op.kind = "fixed" THEN [fixed EXCEPT ![<<op.col, row>>] = op.val] ELSE fixed)
  BY DEF Assign, Op, OpRow
<1>6. op.kind = "fixed" => op.val \in Values
  BY <1>2 DEF Operations
<1>7. pending' = (IF op.kind = "constant" THEN Append(pending, op) ELSE pending)
  BY DEF Assign, Op
<1>8. placed' = placed \cup {[col |-> op.col, row |-> row, region |-> Len(regions),
                              off |-> op.off]}
  BY DEF Assign, Op, OpRow
<1>. HIDE DEF op, row
<1>9. fixed' \in [(Fixed \cup TableColumns) \X Rows -> Values \cup {Zero}]
  BY <1>5, <1>6 DEF TypeInv, TypeOK
<1>10. pending' \in Seq({o \in Operations : o.kind = "constant"})
  BY <1>2, <1>7 DEF TypeInv, TypeOK
<1>11. placed' \in SUBSET [col : RegionColumns, row : Nat, region : Nat, off : Nat]
  <2>1. Len(regions) \in Nat  BY DEF TypeInv, TypeOK
  <2>. QED  BY <2>1, <1>3, <1>4, <1>8 DEF TypeInv, TypeOK
<1>. QED
  BY <1>9, <1>10, <1>11 DEF TypeInv, TypeOK, RegionOpen, Assign

\* The first constant still to be assigned, and the row of the cell it is for.
LEMMA PendingHead ==
    ASSUME TypeInv, pc = "constants", pending # <<>>
    PROVE  /\ Head(pending).col \in Advice /\ Head(pending).off \in Nat
           /\ Head(pending).val \in Values
           /\ regions[Len(regions)] + Head(pending).off \in Nat
           /\ Tail(pending) \in Seq({op \in Operations : op.kind = "constant"})
<1>1. pending \in Seq({op \in Operations : op.kind = "constant"})  BY DEF TypeInv, TypeOK
<1>2. Head(pending) \in {op \in Operations : op.kind = "constant"}
      /\ Tail(pending) \in Seq({op \in Operations : op.kind = "constant"})
  BY <1>1
<1>3. Head(pending).col \in Advice /\ Head(pending).val \in Values
  BY <1>2 DEF Operations
<1>4. Head(pending).off \in Nat  BY <1>2, OperationFields
<1>5. regions[Len(regions)] \in Nat  BY DEF TypeInv, TypeOK, RegionOpen
<1>. QED  BY <1>2, <1>3, <1>4, <1>5

\* A constant and its copy name usable rows.
LEMMA ConstantTypeInv ==
    ASSUME TypeInv, NEW cc \in constants, AssignConstant(cc)
    PROVE  TypeInv'
<1>. DEFINE op  == Head(pending)
            row == regions[Len(regions)] + op.off
<1>1. /\ op.col \in Advice /\ op.off \in Nat /\ op.val \in Values /\ row \in Nat
      /\ Tail(pending) \in Seq({o \in Operations : o.kind = "constant"})
  BY PendingHead DEF AssignConstant
<1>2. cc \in Fixed /\ cc \in RegionColumns /\ columns[cc] \in Nat
  BY ConstantsAssumption DEF TypeInv, TypeOK, RegionColumns
<1>3. columns[cc] \in Rows /\ row \in Rows
  BY <1>1, <1>2, UsableRowsAssumption DEF AssignConstant, ConstantFits, Rows
<1>4. /\ fixed' = [fixed EXCEPT ![<<cc, columns[cc]>>] = op.val]
      /\ copies' = copies \cup {<<columns[cc], op.col, row>>}
      /\ columns' = [columns EXCEPT ![cc] = @ + 1]
      /\ placed' = placed \cup {[col |-> cc, row |-> columns[cc], region |-> 0,
                                  off |-> columns[cc]]}
      /\ asked' = asked \cup {[region |-> Len(regions), col |-> op.col, off |-> op.off,
                                val |-> op.val]}
      /\ pending' = Tail(pending)
  BY DEF AssignConstant
<1>. HIDE DEF op, row
<1>5. fixed' \in [(Fixed \cup TableColumns) \X Rows -> Values \cup {Zero}]
  BY <1>1, <1>4 DEF TypeInv, TypeOK
<1>6. columns' \in [RegionColumns -> Nat]
  BY <1>2, <1>4 DEF TypeInv, TypeOK
<1>7. copies' \in SUBSET (Rows \X Advice \X Rows)
  BY <1>1, <1>3, <1>4 DEF TypeInv, TypeOK
<1>8. /\ placed' \in SUBSET [col : RegionColumns, row : Nat, region : Nat, off : Nat]
      /\ asked' \in SUBSET [region : Nat, col : Advice, off : Nat, val : Values]
  <2>1. Len(regions) \in Nat  BY DEF TypeInv, TypeOK
  <2>. QED  BY <2>1, <1>1, <1>2, <1>4 DEF TypeInv, TypeOK
<1>. QED
  BY <1>1, <1>4, <1>5, <1>6, <1>7, <1>8 DEF TypeInv, TypeOK, RegionOpen, AssignConstant

\* A cell of a table.
LEMMA CellTypeInv ==
    ASSUME TypeInv, NEW t \in TableColumns, NEW off \in 0 .. MaxTableRow, NEW v \in Values,
           AssignCell(t, off, v)
    PROVE  TypeInv'
<1>1. off \in Rows
  BY UsableRowsAssumption DEF AssignCell, CellFits, Rows
<1>2. fixed' \in [(Fixed \cup TableColumns) \X Rows -> Values \cup {Zero}]
  BY DEF AssignCell, TypeInv, TypeOK
<1>3. entries' \in [TableColumns -> SUBSET Values]
  BY DEF AssignCell, TypeInv, TypeOK
<1>4. Entry(t).default \in SUBSET Values /\ Entry(t).assigned \in SUBSET Rows
  BY DEF Entry, TypeInv, TypeOK
<1>5. DOMAIN table' = DOMAIN table \cup {t}
  BY DEF AssignCell
<1>6. ASSUME NEW c \in DOMAIN table'
      PROVE  table'[c].default \in SUBSET Values /\ table'[c].assigned \in SUBSET Rows
  <2>1. CASE c = t
    <3>1. table'[c] = [default  |-> IF off = 0 THEN {v} ELSE Entry(t).default,
                       assigned |-> Entry(t).assigned \cup {off}]
      BY <1>5, <1>6, <2>1 DEF AssignCell
    <3>. QED  BY <3>1, <1>1, <1>4
  <2>2. CASE c # t
    <3>1. c \in DOMAIN table /\ table'[c] = table[c]  BY <1>5, <1>6, <2>2 DEF AssignCell
    <3>. QED  BY <3>1 DEF TypeInv, TypeOK
  <2>. QED  BY <2>1, <2>2
<1>. QED
  BY <1>2, <1>3, <1>5, <1>6 DEF AssignCell, TypeInv, TypeOK, RegionOpen

\* A table's filler is a value of the table.
LEMMA FinishTypeInv ==
    ASSUME TypeInv, FinishTable
    PROVE  TypeInv'
<1>1. \A t \in DOMAIN table :
         /\ table[t].default # {} /\ table[t].default \in SUBSET Values
  BY DEF FinishTable, TableComplete, TypeInv, TypeOK
<1>2. \A t \in DOMAIN table : Filler(t) \in Values
  BY <1>1 DEF Filler
<1>3. fixed' \in [(Fixed \cup TableColumns) \X Rows -> Values \cup {Zero}]
  <2>1. DOMAIN fixed = (Fixed \cup TableColumns) \X Rows  BY DEF TypeInv, TypeOK
  <2>2. fixed' = [cell \in DOMAIN fixed |->
                    IF /\ cell[1] \in DOMAIN table
                       /\ cell[2] >= Cardinality(table[cell[1]].assigned)
                    THEN Filler(cell[1])
                    ELSE fixed[cell]]
    BY DEF FinishTable
  <2>3. \A cell \in DOMAIN fixed : fixed[cell] \in Values \cup {Zero}
    BY DEF TypeInv, TypeOK
  <2>. QED  BY <2>1, <2>2, <2>3, <1>2
<1>4. DOMAIN table' = {}  BY DEF FinishTable, NoTable
<1>. QED
  BY <1>3, <1>4 DEF FinishTable, TypeInv, TypeOK, RegionOpen

\* Every step keeps the types.
LEMMA NextTypeInv == TypeInv /\ [Next]_vars => TypeInv'
<1>. SUFFICES ASSUME TypeInv, [Next]_vars PROVE TypeInv'  OBVIOUS
<1>1. CASE UNCHANGED vars  BY <1>1 DEF vars, TypeInv, TypeOK, RegionOpen
<1>2. CASE RegionStep
  <2>1. CASE EnterRegion \/ Measured \/ ExitRegion \/ RegionDone
             \/ \E c \in RegionColumns : Place(c)
    BY <2>1, MovesTypeInv
  <2>2. CASE AssignFails \/ NoConstantsColumn \/ \E cc \in constants : AssignConstantFails(cc)
    BY <2>2, MovesTypeInv DEF AssignFails, NoConstantsColumn, AssignConstantFails
  <2>3. CASE Reserve  BY <2>3, ReserveTypeInv
  <2>4. CASE Assign  BY <2>4, AssignTypeInv
  <2>5. CASE \E op \in Operations : Measure(op)  BY <2>5, MeasureTypeInv
  <2>6. CASE \E cc \in constants : AssignConstant(cc)  BY <2>6, ConstantTypeInv
  <2>. QED  BY <1>2, <2>1, <2>2, <2>3, <2>4, <2>5, <2>6 DEF RegionStep
<1>3. CASE TableStep
  <2>1. CASE EnterTable  BY <2>1, MovesTypeInv
  <2>2. CASE FinishTable  BY <2>2, FinishTypeInv
  <2>3. CASE FinishTableFails  BY <2>3, MovesTypeInv DEF FinishTableFails
  <2>4. ASSUME NEW t \in TableColumns, NEW off \in 0 .. MaxTableRow,
               AssignCellFails(t, off) \/ \E v \in Values : AssignCell(t, off, v)
        PROVE  TypeInv'
    <3>1. CASE AssignCellFails(t, off)  BY <3>1, MovesTypeInv DEF AssignCellFails
    <3>2. CASE \E v \in Values : AssignCell(t, off, v)  BY <3>2, CellTypeInv
    <3>. QED  BY <2>4, <3>1, <3>2
  <2>. QED  BY <1>3, <2>1, <2>2, <2>3, <2>4 DEF TableStep
<1>. QED  BY <1>1, <1>2, <1>3 DEF Next

\* Whatever a circuit does, the layouter only hands usable rows of the right
\* columns to the Assembly and to the permutation.
THEOREM TypeCorrect == Spec => []TypeOK
<1>1. TypeInv => TypeOK  BY DEF TypeInv
<1>. QED  BY <1>1, InitTypeInv, NextTypeInv, PTL DEF Spec

-----------------------------------------------------------------------------
(* Cells.                                                                  *)

PlacedCells == [col : RegionColumns, row : Nat, region : Nat, off : Nat]

\* Every operation lies inside the measured shape.
ShapeInv ==
    \A k \in 1 .. Len(ops) : ops[k].col \in shape.columns /\ ops[k].off < shape.row_count

\* While the start row is computed, it is free in the columns looked at.
PlaceInv ==
    pc = "place" => \A c \in shape.columns \ todo : columns[c] <= start

\* During the second run the region's rows are reserved, and in its columns
\* every cell is either below its start or its own.
AssignInv ==
    pc = "assign" =>
        /\ Len(regions) > 0 /\ regions[Len(regions)] = start
        /\ \A c \in shape.columns : columns[c] = start + shape.row_count
        /\ \A p \in placed : p.col \in shape.columns =>
              \/ p.row < start
              \/ p.region = Len(regions) /\ p.row = start + p.off

RegionBound == \A p \in placed : p.region <= Len(regions)

BelowFree == \A p \in placed : p.row < columns[p.col]

IInv ==
    /\ ShapeInv /\ PlaceInv /\ AssignInv
    /\ RegionBound /\ BelowFree /\ NoCellShared

\* Synthesis starts with nothing placed.
LEMMA InitIInv == Init => IInv
BY DEF Init, IInv, ShapeInv, PlaceInv, AssignInv, RegionBound, BelowFree, NoCellShared

\* A step that leaves the layout alone and enters neither the placement nor the
\* second run keeps the invariant.
LEMMA LayoutUntouched ==
    ASSUME IInv,
           UNCHANGED <<columns, regions, ops, shape, todo, start, pos, placed>>,
           pc' \notin {"place", "assign"}
    PROVE  IInv'
BY DEF IInv, ShapeInv, PlaceInv, AssignInv, RegionBound, BelowFree, NoCellShared

\* The first run: the measured shape covers the new operation.
LEMMA MeasureIInv ==
    ASSUME TypeInv, IInv, NEW op \in Operations, Measure(op)
    PROVE  IInv'
<1>. USE DEF IInv, TypeInv
<1>1. op.col \in RegionColumns /\ op.off \in Nat  BY OperationFields
<1>3. ShapeInv'
  <2>. SUFFICES ASSUME NEW k \in 1 .. Len(ops')
                PROVE  ops'[k].col \in shape'.columns /\ ops'[k].off < shape'.row_count
    BY DEF ShapeInv
  <2>1. ops \in Seq(Operations) /\ ops' = Append(ops, op)  BY DEF Measure, TypeOK
  <2>2. Len(ops') = Len(ops) + 1  BY <2>1
  <2>3. shape' = [columns   |-> shape.columns \cup {op.col},
                  row_count |-> IF shape.row_count > op.off + 1
                                THEN shape.row_count ELSE op.off + 1]
    BY DEF Measure
  <2>4. shape.row_count \in Nat  BY DEF TypeOK
  <2>5. CASE k = Len(ops) + 1
    <3>1. ops'[k] = op  BY <2>1, <2>5
    <3>. QED  BY <3>1, <2>3, <2>4, <1>1
  <2>6. CASE k \in 1 .. Len(ops)
    <3>1. ops'[k] = ops[k] /\ ops[k] \in Operations  BY <2>1, <2>6
    <3>2. ops[k].off \in Nat  BY <3>1, OperationFields
    <3>3. ops[k].col \in shape.columns /\ ops[k].off < shape.row_count
      BY <2>6 DEF ShapeInv
    <3>. QED  BY <3>1, <3>2, <3>3, <2>3, <2>4, <1>1
  <2>. QED  BY <2>1, <2>2, <2>5, <2>6
<1>. QED
  BY <1>3 DEF Measure, PlaceInv, AssignInv, RegionBound, BelowFree, NoCellShared

\* The search for the start row.
LEMMA PlaceIInv ==
    ASSUME TypeInv, IInv, Measured \/ \E c \in RegionColumns : Place(c)
    PROVE  IInv'
<1>. USE DEF IInv, TypeInv
<1>1. CASE Measured
  BY <1>1 DEF Measured, TypeOK, ShapeInv, PlaceInv, AssignInv, RegionBound,
              BelowFree, NoCellShared
<1>2. ASSUME NEW c \in RegionColumns, Place(c) PROVE IInv'
  <2>2. PlaceInv'
    <3>. SUFFICES ASSUME NEW d \in shape.columns, d \notin todo \ {c}
                  PROVE  columns[d] <= start'
      BY <1>2 DEF Place, PlaceInv
    <3>1. columns[d] \in Nat /\ columns[c] \in Nat /\ start \in Nat
      BY <1>2 DEF TypeOK
    <3>2. start' = IF start > columns[c] THEN start ELSE columns[c]  BY <1>2 DEF Place
    <3>3. CASE d = c  BY <3>1, <3>2, <3>3
    <3>4. CASE d # c
      <4>1. columns[d] <= start  BY <1>2, <3>4 DEF Place, PlaceInv
      <4>. QED  BY <4>1, <3>1, <3>2
    <3>. QED  BY <3>3, <3>4
  <2>. QED
    BY <1>2, <2>2 DEF Place, ShapeInv, AssignInv, RegionBound, BelowFree, NoCellShared
<1>. QED  BY <1>1, <1>2

\* The region's rows are reserved in all its columns at once.
LEMMA ReserveIInv ==
    ASSUME TypeInv, IInv, Reserve
    PROVE  IInv'
<1>. USE DEF IInv, TypeInv
<1>1. /\ regions' = Append(regions, start) /\ regions \in Seq(Nat) /\ start \in Nat
      /\ columns' = [c \in RegionColumns |->
                        IF c \in shape.columns THEN start + shape.row_count
                        ELSE columns[c]]
      /\ columns \in [RegionColumns -> Nat] /\ shape.row_count \in Nat
      /\ shape.columns \subseteq RegionColumns
      /\ placed' = placed /\ shape' = shape /\ start' = start /\ pc' = "assign" /\ ops' = ops
  BY DEF Reserve, TypeOK
<1>2. Len(regions') = Len(regions) + 1 /\ regions'[Len(regions')] = start
  BY <1>1
<1>4. \A c \in shape.columns : columns[c] <= start
  BY DEF Reserve, PlaceInv
<1>5. \A p \in placed : p.col \in shape.columns => p.row < start
  <2>. SUFFICES ASSUME NEW p \in placed, p.col \in shape.columns PROVE p.row < start
    OBVIOUS
  <2>1. p.row \in Nat /\ p.col \in RegionColumns  BY DEF TypeOK, PlacedCells
  <2>2. columns[p.col] \in Nat  BY <2>1, <1>1
  <2>3. p.row < columns[p.col] /\ columns[p.col] <= start  BY <1>4 DEF BelowFree
  <2>. QED  BY <2>1, <2>2, <2>3, <1>1
<1>6. AssignInv'
  <2>1. \A c \in shape.columns : columns'[c] = start + shape.row_count  BY <1>1
  <2>. QED  BY <1>1, <1>2, <1>5, <2>1 DEF AssignInv
<1>7. RegionBound'
  <2>. SUFFICES ASSUME NEW p \in placed PROVE p.region <= Len(regions')
    BY <1>1 DEF RegionBound
  <2>1. p.region \in Nat /\ Len(regions) \in Nat /\ p.region <= Len(regions)
    BY <1>1 DEF RegionBound, TypeOK, PlacedCells
  <2>. QED  BY <2>1, <1>2
<1>8. BelowFree'
  <2>. SUFFICES ASSUME NEW p \in placed PROVE p.row < columns'[p.col]
    BY <1>1 DEF BelowFree
  <2>1. p.row \in Nat /\ p.col \in RegionColumns  BY DEF TypeOK, PlacedCells
  <2>2. CASE p.col \in shape.columns
    <3>1. p.row < start  BY <1>5, <2>2
    <3>2. columns'[p.col] = start + shape.row_count  BY <1>1, <2>1, <2>2
    <3>. QED  BY <3>1, <3>2, <2>1, <1>1
  <2>3. CASE p.col \notin shape.columns
    BY <1>1, <2>1, <2>3 DEF BelowFree
  <2>. QED  BY <2>2, <2>3
<1>. QED
  BY <1>1, <1>6, <1>7, <1>8 DEF Reserve, ShapeInv, PlaceInv, NoCellShared

\* The second run puts a cell into a row the region reserved.
LEMMA AssignIInv ==
    ASSUME TypeInv, IInv, Assign
    PROVE  IInv'
<1>. USE DEF IInv, TypeInv
<1>. DEFINE op  == ops[pos + 1]
            new == [col |-> op.col, row |-> start + op.off,
                    region |-> Len(regions), off |-> op.off]
<1>1. /\ pos + 1 \in 1 .. Len(ops) /\ pc = "assign"
  BY DEF Assign, Assigning, TypeOK
<1>2. op \in Operations
  BY <1>1 DEF TypeOK
<1>3. op.col \in RegionColumns /\ op.off \in Nat  BY <1>2, OperationFields
<1>4. op.col \in shape.columns /\ op.off < shape.row_count
  BY <1>1 DEF ShapeInv
<1>5. /\ Len(regions) > 0 /\ regions[Len(regions)] = start
      /\ columns[op.col] = start + shape.row_count
      /\ start \in Nat /\ shape.row_count \in Nat /\ Len(regions) \in Nat
  BY <1>1, <1>4 DEF AssignInv, TypeOK
<1>6. placed' = placed \cup {new}
  BY <1>5 DEF Assign, Op, OpRow
<1>7. /\ columns' = columns /\ regions' = regions /\ shape' = shape /\ start' = start
      /\ ops' = ops /\ pc' = pc /\ todo' = todo /\ pos' = pos + 1 /\ constants' = constants
  BY DEF Assign
<1>8. new \in PlacedCells  BY <1>3, <1>5 DEF PlacedCells
<1>9. new.col = op.col /\ new.row = start + op.off /\ new.region = Len(regions) /\ new.off = op.off
  OBVIOUS
<1>. HIDE DEF op, new
<1>11. RegionBound'  BY <1>5, <1>6, <1>7, <1>9 DEF RegionBound
<1>12. BelowFree'
  <2>1. new.row < columns[new.col]  BY <1>3, <1>4, <1>5, <1>9
  <2>. QED  BY <2>1, <1>6, <1>7 DEF BelowFree
<1>13. AssignInv'
  BY <1>1, <1>6, <1>7, <1>9 DEF AssignInv
<1>14. ASSUME NEW q \in placed, q.col = new.col, q.row = new.row PROVE q = new
  <2>1. q \in PlacedCells /\ q.row \in Nat /\ q.off \in Nat  BY DEF TypeOK, PlacedCells
  <2>2. q.region = Len(regions) /\ q.row = start + q.off
    <3>1. q.row < start \/ (q.region = Len(regions) /\ q.row = start + q.off)
      BY <1>1, <1>4, <1>9, <1>14 DEF AssignInv
    <3>. QED  BY <3>1, <1>3, <1>5, <1>9, <1>14, <2>1
  <2>3. q.off = new.off  BY <2>1, <2>2, <1>3, <1>5, <1>9, <1>14
  <2>. QED  BY <2>1, <2>2, <2>3, <1>8, <1>9, <1>14 DEF PlacedCells
<1>15. NoCellShared'
  BY <1>6, <1>14 DEF NoCellShared
<1>. QED
  BY <1>7, <1>11, <1>12, <1>13, <1>15 DEF ShapeInv, PlaceInv

\* A constant takes the first free row of its column.
LEMMA ConstantIInv ==
    ASSUME TypeInv, IInv, NEW cc \in constants, AssignConstant(cc)
    PROVE  IInv'
<1>. USE DEF IInv, TypeInv
<1>. DEFINE new == [col |-> cc, row |-> columns[cc], region |-> 0, off |-> columns[cc]]
<1>1. /\ placed' = placed \cup {new}
      /\ columns' = [columns EXCEPT ![cc] = @ + 1]
      /\ regions' = regions /\ shape' = shape /\ start' = start /\ ops' = ops
      /\ pc = "constants" /\ pc' = pc /\ todo' = todo /\ pos' = pos /\ constants' = constants
  BY DEF AssignConstant
<1>2. cc \in RegionColumns /\ columns \in [RegionColumns -> Nat] /\ columns[cc] \in Nat
  BY ConstantsAssumption DEF TypeOK, RegionColumns
<1>3. new \in PlacedCells  BY <1>2 DEF PlacedCells
<1>4. new.col = cc /\ new.row = columns[cc] /\ new.region = 0  OBVIOUS
<1>. HIDE DEF new
<1>5. columns' \in [RegionColumns -> Nat] /\ columns'[cc] = columns[cc] + 1
  BY <1>1, <1>2
<1>6. \A c \in RegionColumns : columns[c] <= columns'[c]
  BY <1>1, <1>2
<1>8. Len(regions) \in Nat  BY DEF TypeOK
<1>9. RegionBound'  BY <1>1, <1>4, <1>8 DEF RegionBound
<1>10. BelowFree'
  <2>1. new.row < columns'[new.col]  BY <1>2, <1>4, <1>5
  <2>2. ASSUME NEW p \in placed PROVE p.row < columns'[p.col]
    <3>1. p.row \in Nat /\ p.col \in RegionColumns  BY DEF TypeOK, PlacedCells
    <3>2. p.row < columns[p.col] /\ columns[p.col] \in Nat /\ columns'[p.col] \in Nat
      BY <3>1, <1>2, <1>5 DEF BelowFree
    <3>. QED  BY <3>1, <3>2, <1>6
  <2>. QED  BY <2>1, <2>2, <1>1 DEF BelowFree
<1>11. ASSUME NEW q \in placed, q.col = new.col PROVE q.row # new.row
  <2>1. q.row \in Nat /\ q.row < columns[cc]
    BY <1>4, <1>11 DEF BelowFree, TypeOK, PlacedCells
  <2>. QED  BY <2>1, <1>2, <1>4
<1>12. NoCellShared'  BY <1>1, <1>11 DEF NoCellShared
<1>. QED
  BY <1>1, <1>9, <1>10, <1>12 DEF ShapeInv, PlaceInv, AssignInv

\* Leaving a region forgets its operations and its shape.
LEMMA RegionDoneIInv ==
    ASSUME TypeInv, IInv, RegionDone
    PROVE  IInv'
BY DEF IInv, RegionDone, EmptyShape, TypeOK, ShapeInv, PlaceInv, AssignInv,
       RegionBound, BelowFree, NoCellShared

\* Every operation of the layouter keeps the invariant.
LEMMA NextIInv == TypeInv /\ IInv /\ [Next]_vars => IInv'
<1>. SUFFICES ASSUME TypeInv, IInv, [Next]_vars PROVE IInv'  OBVIOUS
<1>1. CASE UNCHANGED vars
  BY <1>1 DEF vars, IInv, TypeOK, ShapeInv, PlaceInv, AssignInv, RegionBound,
              BelowFree, NoCellShared
<1>2. CASE RegionStep
  <2>1. CASE EnterRegion \/ ExitRegion \/ AssignFails \/ NoConstantsColumn
             \/ \E cc \in constants : AssignConstantFails(cc)
    BY <2>1, LayoutUntouched DEF EnterRegion, ExitRegion, AssignFails, NoConstantsColumn,
                                 AssignConstantFails, Fails
  <2>2. CASE Measured \/ \E c \in RegionColumns : Place(c)  BY <2>2, PlaceIInv
  <2>3. CASE Reserve  BY <2>3, ReserveIInv
  <2>4. CASE Assign  BY <2>4, AssignIInv
  <2>5. CASE RegionDone  BY <2>5, RegionDoneIInv
  <2>6. CASE \E op \in Operations : Measure(op)  BY <2>6, MeasureIInv
  <2>7. CASE \E cc \in constants : AssignConstant(cc)  BY <2>7, ConstantIInv
  <2>. QED  BY <1>2, <2>1, <2>2, <2>3, <2>4, <2>5, <2>6, <2>7 DEF RegionStep
<1>3. CASE TableStep
  BY <1>3, LayoutUntouched DEF TableStep, EnterTable, FinishTable, FinishTableFails,
                               AssignCellFails, AssignCell, Fails
<1>. QED  BY <1>1, <1>2, <1>3 DEF Next

\* For every set of columns and every sequence of regions, constants and tables
\* the layouter accepts, no cell is given to two of them.
THEOREM NoCellSharedTheorem == Spec => []NoCellShared
<1>1. IInv => NoCellShared  BY DEF IInv
<1>. QED  BY <1>1, InitTypeInv, NextTypeInv, InitIInv, NextIInv, PTL DEF Spec
-----------------------------------------------------------------------------
(* Constants.  The cell that holds a constant is one of the cells placed   *)
(* for region 0, so that neither a later region nor a later constant can   *)
(* be given it, and tables have columns of their own.                      *)

Held(k, cc, row) ==
    /\ fixed[<<cc, row>>] = k.val
    /\ <<row, k.col, regions[k.region] + k.off>> \in copies
    /\ [col |-> cc, row |-> row, region |-> 0, off |-> row] \in placed

HeldInv ==
    \A k \in asked :
        /\ k.region \in 1 .. Len(regions)
        /\ \E cc \in constants, row \in Rows : Held(k, cc, row)

\* A step keeps the constants if it keeps the regions, and every cell that was
\* placed for a constant keeps its value.
LEMMA HeldKept ==
    ASSUME TypeInv, HeldInv, asked' = asked, constants' = constants,
           placed \subseteq placed', copies \subseteq copies',
           Len(regions) <= Len(regions'), Len(regions') \in Nat,
           \A n \in 1 .. Len(regions) : regions'[n] = regions[n],
           \A cc \in constants, row \in Rows :
              [col |-> cc, row |-> row, region |-> 0, off |-> row] \in placed
                  => fixed'[<<cc, row>>] = fixed[<<cc, row>>]
    PROVE  HeldInv'
<1>. SUFFICES ASSUME NEW k \in asked
              PROVE  /\ k.region \in 1 .. Len(regions')
                     /\ \E cc \in constants, row \in Rows : Held(k, cc, row)'
  BY DEF HeldInv, Rows
<1>1. k.region \in 1 .. Len(regions)  BY DEF HeldInv
<1>2. PICK cc \in constants, row \in Rows : Held(k, cc, row)  BY DEF HeldInv
<1>3. Len(regions) \in Nat  BY DEF TypeInv, TypeOK
<1>4. Held(k, cc, row)'  BY <1>1, <1>2 DEF Held
<1>. QED  BY <1>1, <1>2, <1>3, <1>4

\* The second run of a region does not write over a constant.
LEMMA AssignHeld ==
    ASSUME TypeInv, IInv, HeldInv, Assign
    PROVE  HeldInv'
<1>. DEFINE op  == ops[pos + 1]
            row == start + op.off
<1>1. pos + 1 \in 1 .. Len(ops) /\ pc = "assign"
  BY DEF TypeInv, TypeOK, Assign, Assigning
<1>2. op \in Operations  BY <1>1 DEF TypeInv, TypeOK
<1>3. op.off \in Nat  BY <1>2, OperationFields
<1>4. op.col \in shape.columns  BY <1>1 DEF IInv, ShapeInv
<1>5. /\ Len(regions) > 0 /\ regions[Len(regions)] = start /\ start \in Nat
      /\ Len(regions) \in Nat
  BY <1>1 DEF IInv, AssignInv, TypeInv, TypeOK
<1>6. fixed' = (IF op.kind = "fixed" THEN [fixed EXCEPT ![<<op.col, row>>] = op.val] ELSE fixed)
  BY <1>5 DEF Assign, Op, OpRow
<1>7. /\ asked' = asked /\ constants' = constants /\ copies' = copies /\ regions' = regions
      /\ placed \subseteq placed'
  BY DEF Assign
<1>. HIDE DEF op
<1>8. ASSUME NEW cc \in constants, NEW r \in Rows,
             [col |-> cc, row |-> r, region |-> 0, off |-> r] \in placed
      PROVE  fixed'[<<cc, r>>] = fixed[<<cc, r>>]
  <2>1. <<cc, r>> # <<op.col, row>>
    <3>1. CASE cc = op.col
      <4>. DEFINE p == [col |-> cc, row |-> r, region |-> 0, off |-> r]
      <4>1. p.row < start \/ p.region = Len(regions)
        BY <1>1, <1>4, <1>8, <3>1 DEF IInv, AssignInv
      <4>2. r \in Nat /\ r < start  BY <4>1, <1>5, UsableRowsAssumption DEF Rows
      <4>. QED  BY <4>2, <1>3, <1>5
    <3>. QED  BY <3>1
  <2>. QED  BY <2>1, <1>6
<1>9. \A cc \in constants, r \in Rows :
        [col |-> cc, row |-> r, region |-> 0, off |-> r] \in placed
            => fixed'[<<cc, r>>] = fixed[<<cc, r>>]
  BY <1>8
<1>. QED  BY <1>5, <1>7, <1>9, HeldKept

\* A new constant goes above the ones before it.
LEMMA ConstantHeld ==
    ASSUME TypeInv, IInv, HeldInv, NEW cc \in constants, AssignConstant(cc)
    PROVE  HeldInv'
<1>. DEFINE op  == Head(pending)
            new == [region |-> Len(regions), col |-> op.col, off |-> op.off, val |-> op.val]
            top == columns[cc]
<1>1. /\ fixed' = [fixed EXCEPT ![<<cc, top>>] = op.val]
      /\ copies' = copies \cup {<<top, op.col, regions[Len(regions)] + op.off>>}
      /\ placed' = placed \cup {[col |-> cc, row |-> top, region |-> 0, off |-> top]}
      /\ asked' = asked \cup {new}
      /\ constants' = constants /\ regions' = regions
      /\ pc = "constants"
  BY DEF AssignConstant
<1>2. cc \in Fixed /\ cc \in RegionColumns /\ top \in Nat
  BY ConstantsAssumption DEF TypeInv, TypeOK, RegionColumns
<1>3. top \in Rows
  BY <1>2, UsableRowsAssumption DEF AssignConstant, ConstantFits, Rows
<1>4. Len(regions) \in Nat /\ Len(regions) > 0
  BY <1>1 DEF TypeInv, TypeOK, RegionOpen
<1>5. new.region = Len(regions) /\ new.col = op.col /\ new.off = op.off /\ new.val = op.val
  OBVIOUS
<1>. HIDE DEF op, new, top
<1>6. fixed'[<<cc, top>>] = op.val
  <2>1. <<cc, top>> \in DOMAIN fixed  BY <1>2, <1>3 DEF TypeInv, TypeOK
  <2>. QED  BY <2>1, <1>1
<1>7. /\ fixed'[<<cc, top>>] = new.val
      /\ <<top, new.col, regions'[new.region] + new.off>> \in copies'
      /\ [col |-> cc, row |-> top, region |-> 0, off |-> top] \in placed'
  BY <1>1, <1>5, <1>6
<1>8. ASSUME NEW k \in asked, NEW d \in constants, NEW r \in Rows, Held(k, d, r),
             k.region \in 1 .. Len(regions)
      PROVE  Held(k, d, r)'
  <2>1. <<d, r>> # <<cc, top>>
    <3>1. CASE d = cc
      <4>. DEFINE p == [col |-> d, row |-> r, region |-> 0, off |-> r]
      <4>1. p \in placed  BY <1>8 DEF Held
      <4>2. p.row < columns[p.col]  BY <4>1 DEF IInv, BelowFree
      <4>3. r \in Nat  BY UsableRowsAssumption DEF Rows
      <4>. QED  BY <4>2, <4>3, <3>1, <1>2 DEF top
    <3>. QED  BY <3>1
  <2>2. fixed'[<<d, r>>] = fixed[<<d, r>>]  BY <2>1, <1>1
  <2>. QED  BY <2>2, <1>1, <1>8 DEF Held
<1>9. ASSUME NEW k \in asked'
      PROVE  /\ k.region \in 1 .. Len(regions')
             /\ \E d \in constants', r \in Rows : Held(k, d, r)'
  <2>1. CASE k = new
    <3>1. PICK r \in Rows : r = top  BY <1>3
    <3>2. Held(k, cc, r)'  BY <2>1, <3>1, <1>7 DEF Held
    <3>. QED  BY <2>1, <3>2, <1>1, <1>4, <1>5
  <2>2. CASE k \in asked
    <3>1. k.region \in 1 .. Len(regions)  BY <2>2 DEF HeldInv
    <3>2. PICK d \in constants, r \in Rows : Held(k, d, r)  BY <2>2 DEF HeldInv
    <3>. QED  BY <3>1, <3>2, <2>2, <1>1, <1>8
  <2>. QED  BY <1>9, <2>1, <2>2, <1>1
<1>. QED  BY <1>9 DEF HeldInv, Rows

\* Tables have columns of their own.
LEMMA TableHeld ==
    ASSUME TypeInv, HeldInv, FinishTable \/ (\E t \in TableColumns, off \in 0 .. MaxTableRow :
                                              \E v \in Values : AssignCell(t, off, v))
    PROVE  HeldInv'
<1>1. /\ asked' = asked /\ constants' = constants /\ copies' = copies
      /\ regions' = regions /\ placed' = placed
  BY DEF FinishTable, AssignCell
<1>2. Len(regions) \in Nat  BY DEF TypeInv, TypeOK
<1>3. ASSUME NEW cc \in constants, NEW row \in Rows
      PROVE  fixed'[<<cc, row>>] = fixed[<<cc, row>>]
  <2>1. cc \in Fixed /\ cc \notin TableColumns
    BY ConstantsAssumption, ColumnsAssumption DEF TypeInv, TypeOK
  <2>2. <<cc, row>> \in DOMAIN fixed  BY <2>1 DEF TypeInv, TypeOK
  <2>3. CASE FinishTable
    <3>1. cc \notin DOMAIN table  BY <2>1 DEF TypeInv, TypeOK
    <3>. QED  BY <2>2, <2>3, <3>1 DEF FinishTable
  <2>4. CASE \E t \in TableColumns, off \in 0 .. MaxTableRow :
                \E v \in Values : AssignCell(t, off, v)
    BY <2>1, <2>4 DEF AssignCell
  <2>. QED  BY <2>3, <2>4
<1>. QED  BY <1>1, <1>2, <1>3, HeldKept

\* Every other step leaves the fixed cells alone.
LEMMA NextHeld == TypeInv /\ IInv /\ HeldInv /\ [Next]_vars => HeldInv'
<1>. SUFFICES ASSUME TypeInv, IInv, HeldInv, [Next]_vars PROVE HeldInv'  OBVIOUS
<1>1. Len(regions) \in Nat  BY DEF TypeInv, TypeOK
<1>2. CASE UNCHANGED <<constants, regions, fixed, copies, placed, asked>>
  BY <1>1, <1>2, HeldKept
<1>3. CASE Reserve
  <2>1. /\ Len(regions') = Len(regions) + 1
        /\ \A n \in 1 .. Len(regions) : regions'[n] = regions[n]
    BY <1>3 DEF Reserve, TypeInv, TypeOK
  <2>2. /\ asked' = asked /\ constants' = constants /\ copies' = copies
        /\ placed' = placed /\ fixed' = fixed
    BY <1>3 DEF Reserve
  <2>. QED  BY <2>1, <2>2, <1>1, HeldKept
<1>4. CASE Assign  BY <1>4, AssignHeld
<1>5. CASE \E cc \in constants : AssignConstant(cc)  BY <1>5, ConstantHeld
<1>6. CASE FinishTable \/ (\E t \in TableColumns, off \in 0 .. MaxTableRow :
                              \E v \in Values : AssignCell(t, off, v))
  BY <1>6, TableHeld
<1>7. CASE \/ EnterRegion \/ Measured \/ AssignFails \/ ExitRegion \/ NoConstantsColumn
           \/ RegionDone \/ EnterTable \/ FinishTableFails
           \/ \E op \in Operations : Measure(op)
           \/ \E c \in RegionColumns : Place(c)
           \/ \E cc \in constants : AssignConstantFails(cc)
           \/ \E t \in TableColumns, off \in 0 .. MaxTableRow : AssignCellFails(t, off)
  BY <1>2, <1>7 DEF EnterRegion, Measured, AssignFails, ExitRegion, NoConstantsColumn,
        RegionDone, EnterTable, FinishTableFails, Measure, Place, AssignConstantFails,
        AssignCellFails, Fails
<1>8. CASE UNCHANGED vars  BY <1>2, <1>8 DEF vars
<1>. QED
  BY <1>3, <1>4, <1>5, <1>6, <1>7, <1>8 DEF Next, RegionStep, TableStep

\* Every constant a finished region asked for stays in the constants column,
\* tied to the cell that asked, for every circuit the layouter accepts.
THEOREM ConstantsHoldTheorem == Spec => []ConstantsHold
<1>1. Init => HeldInv  BY DEF Init, HeldInv
<1>2. HeldInv => ConstantsHold  BY DEF HeldInv, Held, ConstantsHold
<1>. QED
  BY <1>1, <1>2, InitTypeInv, NextTypeInv, InitIInv, NextIInv, NextHeld, PTL DEF Spec
-----------------------------------------------------------------------------
(* Tables.  What the current table has assigned is an entry of its column, *)
(* its filler too, and the columns of finished tables are not reopened.    *)

TableInv ==
    /\ \A t \in DOMAIN table :
          /\ t \notin used
          /\ table[t].default \subseteq entries[t]
          /\ \A row \in table[t].assigned : fixed[<<t, row>>] \in entries[t]
    /\ TablesFilled

\* Regions and constants write to columns no table has.
LEMMA TableUntouched ==
    ASSUME TypeInv, TableInv, table' = table, used' = used, entries' = entries,
           \A t \in TableColumns, row \in Rows : fixed'[<<t, row>>] = fixed[<<t, row>>]
    PROVE  TableInv'
BY DEF TypeInv, TypeOK, TableInv, TablesFilled, Rows

\* A cell of a table that is not finished.
LEMMA CellTableInv ==
    ASSUME TypeInv, TableInv, NEW t \in TableColumns, NEW off \in 0 .. MaxTableRow,
           NEW v \in Values, AssignCell(t, off, v)
    PROVE  TableInv'
<1>1. off \in Rows /\ t \notin used /\ used' = used
  BY UsableRowsAssumption DEF AssignCell, CellFits, Rows
<1>2. /\ fixed'[<<t, off>>] = v
      /\ \A c \in TableColumns, row \in Rows :
            <<c, row>> # <<t, off>> => fixed'[<<c, row>>] = fixed[<<c, row>>]
  <2>1. <<t, off>> \in DOMAIN fixed  BY <1>1 DEF TypeInv, TypeOK
  <2>. QED  BY <2>1 DEF AssignCell
<1>3. v \in entries'[t] /\ \A c \in TableColumns : entries[c] \subseteq entries'[c]
  BY DEF AssignCell, TypeInv, TypeOK
<1>4. DOMAIN table' = DOMAIN table \cup {t}  BY DEF AssignCell
<1>5. /\ Entry(t).default \subseteq entries[t]
      /\ Entry(t).assigned \subseteq Rows
      /\ \A row \in Entry(t).assigned : fixed[<<t, row>>] \in entries[t]
  BY DEF Entry, TableInv, TypeInv, TypeOK
<1>6. ASSUME NEW c \in DOMAIN table'
      PROVE  /\ c \notin used
             /\ table'[c].default \subseteq entries'[c]
             /\ \A row \in table'[c].assigned : fixed'[<<c, row>>] \in entries'[c]
  <2>1. CASE c = t
    <3>1. table'[c] = [default  |-> IF off = 0 THEN {v} ELSE Entry(t).default,
                       assigned |-> Entry(t).assigned \cup {off}]
      BY <1>4, <1>6, <2>1 DEF AssignCell
    <3>2. table'[c].default \subseteq entries'[c]  BY <3>1, <2>1, <1>3, <1>5
    <3>3. ASSUME NEW row \in Entry(t).assigned \cup {off}
          PROVE  fixed'[<<t, row>>] \in entries'[t]
      <4>1. CASE row = off  BY <4>1, <1>2, <1>3
      <4>2. CASE row # off  BY <3>3, <4>2, <1>2, <1>3, <1>5
      <4>. QED  BY <4>1, <4>2
    <3>. QED  BY <3>1, <3>2, <3>3, <2>1, <1>1
  <2>2. CASE c # t
    <3>1. c \in DOMAIN table /\ c \in TableColumns /\ table'[c] = table[c]
      BY <1>4, <1>6, <2>2 DEF AssignCell, TypeInv, TypeOK
    <3>2. table[c].assigned \subseteq Rows  BY <3>1 DEF TypeInv, TypeOK
    <3>. QED  BY <3>1, <3>2, <2>2, <1>2, <1>3 DEF TableInv
  <2>. QED  BY <2>1, <2>2
<1>7. TablesFilled'
  <2>. SUFFICES ASSUME NEW c \in used, NEW row \in Rows
                PROVE  fixed'[<<c, row>>] \in entries'[c]
    BY <1>1 DEF TablesFilled, Rows
  <2>1. c \in TableColumns /\ c # t  BY <1>1 DEF TypeInv, TypeOK
  <2>2. fixed[<<c, row>>] \in entries[c]  BY DEF TableInv, TablesFilled
  <2>. QED  BY <2>1, <2>2, <1>2, <1>3
<1>. QED  BY <1>1, <1>6, <1>7 DEF TableInv

\* The filler goes to exactly the rows that were not assigned.
LEMMA FinishTableInv ==
    ASSUME TypeInv, TableInv, FinishTable
    PROVE  TableInv'
<1>1. DOMAIN table' = {} /\ used' = used \cup DOMAIN table /\ entries' = entries
  BY DEF FinishTable, NoTable
<1>2. ASSUME NEW c \in used', NEW row \in Rows
      PROVE  fixed'[<<c, row>>] \in entries[c]
  <2>0. c \in TableColumns /\ <<c, row>> \in DOMAIN fixed
    BY <1>1, <1>2 DEF TypeInv, TypeOK
  <2>1. CASE c \notin DOMAIN table
    <3>1. fixed'[<<c, row>>] = fixed[<<c, row>>]  BY <2>0, <2>1 DEF FinishTable
    <3>. QED  BY <3>1, <2>1, <1>1, <1>2 DEF TableInv, TablesFilled
  <2>2. CASE c \in DOMAIN table
    <3>. DEFINE n == Cardinality(table[c].assigned)
    <3>1. fixed'[<<c, row>>] = IF row >= n THEN Filler(c) ELSE fixed[<<c, row>>]
      BY <2>0, <2>2 DEF FinishTable
    <3>2. /\ table[c].default # {} /\ table[c].default \subseteq entries[c]
          /\ table[c].assigned = 0 .. n - 1
      BY <2>2 DEF FinishTable, TableComplete, TableInv
    <3>3. n \in Nat
      <4>1. IsFiniteSet(Rows)  BY FS_Interval, UsableRowsAssumption DEF Rows
      <4>2. table[c].assigned \subseteq Rows  BY <2>2 DEF TypeInv, TypeOK
      <4>3. IsFiniteSet(table[c].assigned)  BY <4>1, <4>2, FS_Subset
      <4>. QED  BY <4>3, FS_CardinalityType
    <3>. HIDE DEF n
    <3>4. CASE row >= n
      <4>1. Filler(c) \in table[c].default  BY <3>2 DEF Filler
      <4>. QED  BY <4>1, <3>1, <3>2, <3>4
    <3>5. CASE ~(row >= n)
      <4>1. row \in table[c].assigned  BY <3>2, <3>3, <3>5, UsableRowsAssumption DEF Rows
      <4>. QED  BY <4>1, <2>2, <3>1, <3>5 DEF TableInv
    <3>. QED  BY <3>4, <3>5
  <2>. QED  BY <2>1, <2>2
<1>. QED  BY <1>1, <1>2 DEF TableInv, TablesFilled, Rows

\* Every step keeps the table invariant.
LEMMA NextTableInv == TypeInv /\ TableInv /\ [Next]_vars => TableInv'
<1>. SUFFICES ASSUME TypeInv, TableInv, [Next]_vars PROVE TableInv'  OBVIOUS
<1>1. CASE UNCHANGED <<fixed, table, used, entries>>  BY <1>1, TableUntouched
<1>2. CASE Assign
  <2>1. pos + 1 \in 1 .. Len(ops) /\ ops[pos + 1] \in Operations
    BY <1>2 DEF Assign, Assigning, TypeInv, TypeOK
  <2>2. ops[pos + 1].kind = "fixed" => ops[pos + 1].col \notin TableColumns
    BY <2>1, ColumnsAssumption DEF Operations
  <2>3. ASSUME NEW t \in TableColumns, NEW row \in Rows
        PROVE  fixed'[<<t, row>>] = fixed[<<t, row>>]
    <3>1. <<t, row>> \in DOMAIN fixed  BY DEF TypeInv, TypeOK
    <3>. QED  BY <1>2, <2>2, <3>1 DEF Assign, Op, OpRow
  <2>. QED  BY <1>2, <2>3, TableUntouched DEF Assign
<1>3. CASE \E cc \in constants : AssignConstant(cc)
  <2>1. PICK cc \in constants : AssignConstant(cc)  BY <1>3
  <2>2. cc \notin TableColumns
    BY ConstantsAssumption, ColumnsAssumption DEF TypeInv, TypeOK
  <2>3. ASSUME NEW t \in TableColumns, NEW row \in Rows
        PROVE  fixed'[<<t, row>>] = fixed[<<t, row>>]
    <3>1. <<t, row>> \in DOMAIN fixed  BY DEF TypeInv, TypeOK
    <3>. QED  BY <2>1, <2>2, <3>1 DEF AssignConstant
  <2>. QED  BY <2>1, <2>3, TableUntouched DEF AssignConstant
<1>4. CASE FinishTable  BY <1>4, FinishTableInv
<1>5. CASE \E t \in TableColumns, off \in 0 .. MaxTableRow :
              \E v \in Values : AssignCell(t, off, v)
  BY <1>5, CellTableInv
<1>6. CASE \/ EnterRegion \/ Measured \/ Reserve \/ AssignFails \/ ExitRegion
           \/ NoConstantsColumn \/ RegionDone \/ EnterTable \/ FinishTableFails
           \/ \E op \in Operations : Measure(op)
           \/ \E c \in RegionColumns : Place(c)
           \/ \E cc \in constants : AssignConstantFails(cc)
           \/ \E t \in TableColumns, off \in 0 .. MaxTableRow : AssignCellFails(t, off)
  BY <1>1, <1>6 DEF EnterRegion, Measured, Reserve, AssignFails, ExitRegion,
        NoConstantsColumn, RegionDone, EnterTable, FinishTableFails, Measure, Place,
        AssignConstantFails, AssignCellFails, Fails
<1>7. CASE UNCHANGED vars  BY <1>1, <1>7 DEF vars
<1>. QED
  BY <1>2, <1>3, <1>4, <1>5, <1>6, <1>7 DEF Next, RegionStep, TableStep

\* A table assign_table accepted holds only assigned values, in every usable
\* row, and nothing that follows changes it.
THEOREM TablesFilledTheorem == Spec => []TablesFilled
<1>1. Init => TableInv  BY DEF Init, NoTable, TableInv, TablesFilled
<1>2. TableInv => TablesFilled  BY DEF TableInv
<1>. QED  BY <1>1, <1>2, InitTypeInv, NextTypeInv, NextTableInv, PTL DEF Spec
=============================================================================
