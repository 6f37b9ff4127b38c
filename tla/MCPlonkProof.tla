---------------------------- MODULE MCPlonkProof ----------------------------
(***************************************************************************)
(* Small circuits, built with the constraint system's own operations.      *)
(***************************************************************************)
EXTENDS ContractProtocol

Input(kind, col, rot, q) == [cell |-> Cell(kind, col, rot), indexed |-> TRUE, q |-> q, d |-> 1]

If(condition, then, else) == IF condition THEN then ELSE else

\* Three advice columns (the second in the last phase), a fixed column that is
\* also the lookup table, `inst` instance columns, a selector for the gate and
\* a complex one for the trash argument; challenges after the second phase and
\* the first, declared in this order.
Base(f) ==
    LET c0 == AdviceColumnIn(AdviceColumnIn(FixedColumn(Default), 0), f.phases - 1)
        c1 == AdviceColumnIn(c0, 0)
        c2 == If(f.inst > 0, InstanceColumn(c1), c1)
        c3 == If(f.inst > 1, InstanceColumn(c2), c2)
        c4 == NewSelector(NewSelector(c3, f.simple), FALSE)
        c5 == If(f.phases > 1, ChallengeUsableAfter(ChallengeUsableAfter(c4, 1), 0), c4)
    IN  c5

\* rots: the rotations at which the fixed column is read.
Circuit(f, rots) ==
    LET fixed == [i \in DOMAIN rots |-> Input("fixed", 1, rots[i], 0)]
        inst  == [i \in 1 .. f.inst |-> Input("instance", i, 0, 0)]
        c1 == CreateGate(Base(f), 1, <<Input("advice", 1, 0, 0), Input("advice", 2, 1, 0),
                                       Input("advice", 3, 0, 0)>>
                                     \o fixed \o inst)
        c2 == If(f.lookup, BatchedLookup(c1, 0, <<Input("advice", 1, 0, 0), Input("advice", 2, 0, 0),
                                                  Input("advice", 1, 1, 0)>>, 1), c1)
        c3 == If(f.trash, CreateAdditiveGate(c2, 2, <<Input("advice", 2, -1, 0)>>), c2)
        c4 == If(f.copies, EnableEquality(EnableEquality(EnableConstant(c3, 1), "advice", 1),
                                          "advice", 2), c3)
    IN  ConvertSelectors(c4)

Run(f, rots, proofs, committed, supplied, plain) ==
    RunOf(VerifyingKey(Circuit(f, rots), 32), proofs, committed, supplied, plain, 2)

Features(insts) ==
    [inst : insts, phases : {1, 2}, simple : BOOLEAN, lookup : BOOLEAN,
     trash : BOOLEAN, copies : BOOLEAN]

\* Circuits without instances, with plain or committed ones, for one and two
\* proofs; one proof may have both kinds.
MCKeys ==
    {Run(f, <<0>>, 1, 0, 0, 0) : f \in Features({0})}
    \cup {Run(f, <<0>>, 2, committed, 1, 1 - committed) :
              f \in {g \in Features({1}) : g.lookup = g.trash}, committed \in {0, 1}}
    \cup {Run(f, <<0>>, 1, 1, 2, 1) : f \in {g \in Features({2}) : g.lookup # g.trash}}
    \cup {Run(f, <<0>>, 1, 1, 1, 0) :
              f \in {g \in Features({1}) : g.lookup = g.trash /\ g.phases = 1}}

\* Calls that are refused: too long an instance, a missing column.
MCRefusedKeys ==
    LET f == [inst |-> 1, phases |-> 1, simple |-> TRUE, lookup |-> FALSE,
              trash |-> FALSE, copies |-> TRUE]
    IN  {[Run(f, <<0>>, 1, 0, 1, 1) EXCEPT !.len = 30],
         Run(f, <<0>>, 1, 0, 0, 1), Run(f, <<0>>, 1, 0, 1, 0)}

MCAllKeys == MCKeys \cup MCRefusedKeys

\* Two proofs, each with a committed and a plain instance column.
MixedInstances == {Run(f, <<0>>, 2, 1, 2, 1) : f \in Features({2})}

\* The fixed column read in two rows.
FixedReadTwice == {Run(f, <<0, -1>>, 1, 0, 0, 0) : f \in Features({0})}

AllFlags == BOOLEAN \X BOOLEAN
EqualFlags == {<<b, b>> : b \in BOOLEAN}
=============================================================================
