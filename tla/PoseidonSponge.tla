--------------------------- MODULE PoseidonSponge ---------------------------
(***************************************************************************)
(* The Poseidon sponge, as the transcript uses it outside the circuit      *)
(* (poseidon_cpu.rs) and in it (poseidon_chip.rs), where the code is the   *)
(* same but for assigned cells.  The permutation is free of collisions: a  *)
(* register is the list of blocks added to it before each permutation.     *)
(***************************************************************************)
EXTENDS Integers, Sequences

CONSTANTS
    Rate,           \* RATE
    SpongeItems,    \* the field elements absorbed; lengths are elements as well
    InputLens,      \* the values of input_len: {} for None, {n} for Some(n)
    MaxAbsorbed,    \* bound on the elements absorbed
    MaxSqueezes     \* bound on the calls of squeeze

ASSUME SpongeAssumption ==
    Rate \in Nat \ {0} /\ SpongeItems \subseteq Nat /\ InputLens \subseteq SUBSET Nat

Sides == {"cpu", "chip"}

VARIABLES
    sponges,    \* PoseidonState and AssignedPoseidonState
    squeezed,   \* what each side squeezed last
    streams     \* what each side absorbed, cut where the sponge was squeezed anew

spongeVars == <<sponges, squeezed, streams>>

Nothing == <<>>

-----------------------------------------------------------------------------
(* One sponge                                                              *)

\* The capacity of the register holds the length, 1 << 64 for None.
NewSponge(inputLen) ==
    [capacity |-> inputLen, blocks |-> <<>>, queue |-> <<>>, position |-> 0, input_len |-> inputLen]

AbsorbInto(s, inputs) == [s EXCEPT !.queue = @ \o inputs, !.position = 0]

\* Adding a short chunk leaves the rest of the register as it is.
Chunks(q) ==
    [k \in 1 .. (Len(q) + Rate - 1) \div Rate |->
        [j \in 1 .. Rate |-> LET at == (k - 1) * Rate + j IN IF at <= Len(q) THEN q[at] ELSE 0]]

\* Bug: the queue is not padded with its length.
PaddedQueueAsIs(s) == s.queue

PaddedQueue(s) == IF s.input_len = {} THEN Append(s.queue, Len(s.queue)) ELSE s.queue

\* A further squeeze of the same register.
Again(s) == s.position > 0

SqueezePanics(s) ==
    IF Again(s) THEN s.input_len # {} ELSE s.input_len \notin {{}, {Len(s.queue)}}

SqueezeOf(s) ==
    IF Again(s) THEN [s EXCEPT !.position = (@ + 1) % Rate]
    ELSE [s EXCEPT !.blocks = @ \o Chunks(PaddedQueue(s)), !.queue = <<>>, !.position = 1 % Rate]

\* The entry of the register that is returned.
Output(s) ==
    [capacity |-> s.capacity, blocks |-> SqueezeOf(s).blocks,
     entry |-> IF Again(s) THEN s.position % Rate ELSE 0]

-----------------------------------------------------------------------------
(* The two sides                                                           *)

SpongeInit ==
    /\ \E lens \in [Sides -> InputLens] : sponges = [side \in Sides |-> NewSponge(lens[side])]
    /\ squeezed = [side \in Sides |-> Nothing]
    /\ streams = [side \in Sides |-> [segments |-> <<>>, open |-> <<>>, squeezes |-> 0, total |-> 0]]

Absorb(side, inputs) ==
    /\ streams[side].total + Len(inputs) <= MaxAbsorbed
    /\ streams[side].squeezes < MaxSqueezes
    /\ sponges' = [sponges EXCEPT ![side] = AbsorbInto(@, inputs)]
    /\ streams' = [streams EXCEPT ![side].open = @ \o inputs, ![side].total = @ + Len(inputs)]
    /\ UNCHANGED squeezed

Squeeze(side) ==
    /\ streams[side].squeezes < MaxSqueezes
    /\ ~SqueezePanics(sponges[side])
    /\ sponges' = [sponges EXCEPT ![side] = SqueezeOf(@)]
    /\ squeezed' = [squeezed EXCEPT ![side] = Output(sponges[side])]
    /\ streams' =
         [streams EXCEPT
             ![side].segments = IF Again(sponges[side]) THEN @ ELSE Append(@, streams[side].open),
             ![side].open = <<>>, ![side].squeezes = @ + 1]

SpongeNext ==
    \E side \in Sides :
        \/ \E inputs \in {<<>>} \cup [1 .. 1 -> SpongeItems] : Absorb(side, inputs)
        \/ Squeeze(side)

SpongeSpec == SpongeInit /\ [][SpongeNext]_spongeVars

-----------------------------------------------------------------------------
(* Properties                                                              *)

\* The prover's challenges and those of the circuit are equal exactly when both
\* absorbed the same elements between the same squeezes, in a sponge of the same
\* kind: a length, a padding or an empty call never stands for something else.
SpongeBinds ==
    squeezed["cpu"] # Nothing /\ squeezed["chip"] # Nothing =>
        (squeezed["cpu"] = squeezed["chip"] <=>
            /\ sponges["cpu"].input_len = sponges["chip"].input_len
            /\ streams["cpu"].segments = streams["chip"].segments
            /\ squeezed["cpu"].entry = squeezed["chip"].entry)
=============================================================================
