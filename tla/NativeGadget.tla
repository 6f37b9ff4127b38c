---------------------------- MODULE NativeGadget ----------------------------
(***************************************************************************)
(* The caches of the native gadget (circuits/src/field/native/             *)
(* native_gadget.rs and native_chip.rs).                                   *)
(*                                                                         *)
(* The state is a circuit under construction with one assignment of its    *)
(* cells that satisfies all constraints so far; a call adds constraints,   *)
(* and the assignment goes on only if it satisfies them.  Two caches save  *)
(* constraints: the cells of the constants, and the bound every cell is    *)
(* known to be constrained to.  They are right only if no satisfying       *)
(* assignment contradicts them.                                            *)
(***************************************************************************)
EXTENDS NativeInstructions

CONSTANTS
    Inputs,        \* the values that are assigned
    FixedBounds,   \* the bounds and constants of the calls, without zero
    MaxCells       \* bound on the cells that are kept

VARIABLES
    cells,         \* the values of the cells that were handed out
    fixed,         \* cached_fixed: the cell of a constant
    bounds,        \* constrained_cells: the strict bound of a cell
    wires,         \* typed handles on cells: <<type, cell, bits>>
    verdict        \* what the last comparison or product was asked and returned

gadgetVars == <<cells, fixed, bounds, wires, verdict>>

NoVerdict == [op |-> "none", args |-> <<>>, value |-> 0]

GadgetInit ==
    /\ cells = <<>> /\ fixed = [c \in {} |-> 0] /\ bounds = [c \in {} |-> 0]
    /\ wires = {} /\ verdict = NoVerdict

-----------------------------------------------------------------------------
Cell == DOMAIN cells
OfType(type) == {w \in wires : w[1] = type}
Fresh == Len(cells) + 1
Room == Len(cells) < MaxCells
Handle(type, cell, bits) == wires' = wires \cup {<<type, cell, bits>>}
Put(f, key, value) == [k \in DOMAIN f \cup {key} |-> IF k = key THEN value ELSE f[k]]

UpdateBound(map, x, bound) ==
    Put(map, x, IF x \in DOMAIN map /\ map[x] < bound THEN map[x] ELSE bound)

Bounded(x, bound) == x \in DOMAIN bounds /\ bounds[x] <= bound

-----------------------------------------------------------------------------
(* Assignments                                                             *)

Assign(v) ==
    /\ Room /\ cells' = Append(cells, v)
    /\ UNCHANGED <<fixed, bounds, wires, verdict>>

\* A second call with the constant returns the first one's cell.
AssignFixed(c) ==
    /\ Room /\ c \notin DOMAIN fixed
    /\ cells' = Append(cells, c) /\ fixed' = Put(fixed, c, Fresh)
    /\ UNCHANGED <<bounds, wires, verdict>>

AssignByte(v) ==
    /\ Room /\ LessThanPow2(v, ByteBits)
    /\ cells' = Append(cells, v) /\ Handle("byte", Fresh, 0)
    /\ UNCHANGED <<fixed, bounds, verdict>>

\* A power of two is checked without an entry in the cache.
AssignLowerThan(v, bound) ==
    /\ Room /\ v \in AssignLowerThanFixed(bound)
    /\ cells' = Append(cells, v)
    /\ bounds' = IF bound = 2^Log(bound) THEN bounds ELSE UpdateBound(bounds, Fresh, bound)
    /\ UNCHANGED <<fixed, wires, verdict>>

-----------------------------------------------------------------------------
(* Assertions and conversions                                              *)

AssertLowerThanFixed(x, bound) ==
    LET known == Bounded(x, bound)
    IN /\ known \/ LowerThanConstraint(cells[x], bound)
       /\ bounds' = IF known THEN bounds ELSE UpdateBound(bounds, x, bound)

AssertLowerThan(x, bound) ==
    AssertLowerThanFixed(x, bound) /\ UNCHANGED <<cells, fixed, wires, verdict>>

\* assert_equal gives each cell the other's bound before it copies.
ExchangeBounds(map, x, y) ==
    LET toY == IF x \in DOMAIN map THEN UpdateBound(map, y, map[x]) ELSE map
    IN IF y \in DOMAIN toY THEN UpdateBound(toY, x, toY[y]) ELSE toY

AssertEqual(x, y) ==
    /\ cells[x] = cells[y]
    /\ bounds' = ExchangeBounds(bounds, x, y)
    /\ UNCHANGED <<cells, fixed, wires, verdict>>

\* A native becomes a byte as it is if its bound suffices; else its bound is
\* recorded and a new range-checked cell is tied to it.
ConvertToByteKnown(x) ==
    /\ Bounded(x, Byte)
    /\ Handle("byte", x, 0)
    /\ UNCHANGED <<cells, fixed, bounds, verdict>>

ConvertToByte(x) ==
    /\ ~Bounded(x, Byte) /\ Room
    /\ LessThanPow2(cells[x], ByteBits)
    /\ cells' = Append(cells, cells[x]) /\ Handle("byte", Fresh, 0)
    /\ bounds' = ExchangeBounds(UpdateBound(bounds, x, Byte), x, Fresh)
    /\ UNCHANGED <<fixed, verdict>>

ConvertFromByte(w) ==
    /\ bounds' = UpdateBound(bounds, w[2], Byte)
    /\ UNCHANGED <<cells, fixed, wires, verdict>>

ConvertToBit(x) ==
    /\ Room /\ cells[x] \in AssignBit
    /\ cells' = Append(cells, cells[x]) /\ Handle("bit", Fresh, 0)
    /\ bounds' = ExchangeBounds(bounds, x, Fresh)
    /\ UNCHANGED <<fixed, verdict>>

-----------------------------------------------------------------------------
(* Comparisons of bounded elements, and instructions on cached cells       *)

BoundedOfElement(n, x) ==
    /\ AssertLowerThanFixed(x, 2^n)
    /\ Handle("bounded", x, n)
    /\ UNCHANGED <<cells, fixed, verdict>>

\* An instruction whose result is looked at and not used further.
Answer(op, args, results) ==
    /\ \E value \in results : verdict' = [op |-> op, args |-> args, value |-> value]
    /\ UNCHANGED <<cells, fixed, bounds, wires>>

\* Bug: the largest value of the range is taken for one beyond it.
LowerThanFixedOff(w, y) ==
    Answer("lower_than", <<cells[w[2]], y>>,
           IF Bounded(w[2], y) \/ y + 1 >= 2^w[3] THEN {1}
           ELSE LowerThanFixedBits(cells[w[2]], y, w[3]))

\* A bound that is known, or the element's range, can settle the comparison.
LowerThanFixed(w, y) ==
    Answer("lower_than", <<cells[w[2]], y>>,
           IF Bounded(w[2], y) \/ y >= 2^w[3] THEN {1}
           ELSE LowerThanFixedBits(cells[w[2]], y, w[3]))

MaxBits(v, w) == IF v[3] >= w[3] THEN v[3] ELSE w[3]

LowerThan(v, w) ==
    Answer("lower_than", <<cells[v[2]], cells[w[2]]>>,
           LowerThanBits(cells[v[2]], cells[w[2]], MaxBits(v, w)))

IsFixed(x, c) == c \in DOMAIN fixed /\ fixed[c] = x

\* Terms on the cell of the constant zero are left out of a linear combination;
\* a product with the cell of the constant one is the other factor.
LinearCombination(x, y) ==
    LET terms == SelectSeq(<<<<2, x>>, <<1, y>>>>, LAMBDA t : ~IsFixed(t[2], 0))
    IN Answer("linear", <<cells[x], cells[y]>>,
              IF terms = <<>> THEN {0}
              ELSE IF Len(terms) = 1 /\ terms[1][1] = 1 THEN {cells[terms[1][2]]}
              ELSE AssignLinearCombinationAux([i \in DOMAIN terms |-> terms[i][1]],
                                              [i \in DOMAIN terms |-> cells[terms[i][2]]], 0, 4))

MulCells(x, y) ==
    Answer("mul", <<cells[x], cells[y]>>,
           IF IsFixed(x, 1) THEN {cells[y]} ELSE IF IsFixed(y, 1) THEN {cells[x]}
           ELSE Mul(cells[x], cells[y], 1))

GadgetNext ==
    /\ verdict = NoVerdict
    /\ \/ \E v \in Inputs : Assign(v) \/ AssignByte(v)
       \/ \E v \in Inputs, c \in FixedBounds : AssignLowerThan(v, c)
       \/ \E c \in {0, 1} : AssignFixed(c)
       \/ \E x \in Cell, c \in FixedBounds : AssertLowerThan(x, c)
       \/ \E x, y \in Cell : AssertEqual(x, y) \/ LinearCombination(x, y) \/ MulCells(x, y)
       \/ \E x \in Cell : ConvertToByteKnown(x) \/ ConvertToByte(x) \/ ConvertToBit(x)
       \/ \E w \in OfType("byte") : ConvertFromByte(w)
       \/ \E n \in 1 .. MaxBound, x \in Cell : BoundedOfElement(n, x)
       \/ \E w \in OfType("bounded"), y \in 0 .. 2^MaxBound - 1 : LowerThanFixed(w, y)
       \/ \E v, w \in OfType("bounded") : LowerThan(v, w)

-----------------------------------------------------------------------------
(* Properties                                                              *)

\* A bound in the cache holds in every satisfying assignment, however it got
\* there: by a check, by an equality with a cell that was checked before or is
\* checked later, or by a conversion.
BoundsHold == \A x \in DOMAIN bounds : x \in Cell /\ cells[x] < bounds[x]

\* A typed handle is only on cells whose value is in the range of the type,
\* whatever the conversion that made it relied on.
TypesHold ==
    \A w \in wires : cells[w[2]] < CASE w[1] = "bit" -> 2 [] w[1] = "byte" -> Byte [] OTHER -> 2^w[3]

\* A comparison, product or linear combination that a cache cuts short has the
\* result it would have had, and no other.
ShortcutsExact ==
    LET a == verdict.args
        v == verdict.value
    IN CASE verdict.op = "lower_than" -> v = (IF a[1] < a[2] THEN 1 ELSE 0)
         [] verdict.op = "linear" -> v = Fe(2 * a[1] + a[2])
         [] verdict.op = "mul" -> v = Fe(a[1] * a[2])
         [] OTHER -> TRUE

\* The caches of the gadget never make a circuit accept what it would refuse
\* without them.
GadgetSound == BoundsHold /\ TypesHold /\ ShortcutsExact
=============================================================================
