-------------------------- MODULE CopyConstraints --------------------------
(***************************************************************************)
(* What the permutation argument promises its callers: the cells of the    *)
(* circuit are partitioned into classes of cells that must hold the same   *)
(* value, and every accepted copy(l, r) merges the classes of l and r and  *)
(* does nothing else.                                                      *)
(***************************************************************************)
CONSTANT Cells

VARIABLE class      \* class[c]: the cells tied to c, c included

\* Every cell starts in a class of its own (Assembly::new).
Init == class = [c \in Cells |-> {c}]

Copy(l, r) ==
  class' = [c \in Cells |-> IF c \in class[l] \cup class[r]
                              THEN class[l] \cup class[r]
                              ELSE class[c]]

Next == \E l, r \in Cells : Copy(l, r)

Spec == Init /\ [][Next]_class
=============================================================================
