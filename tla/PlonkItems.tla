----------------------------- MODULE PlonkItems -----------------------------
(***************************************************************************)
(* The vocabulary of a proof transcript (proofs/src/transcript/mod.rs) and *)
(* the quantities both sides derive from the verifying key.                *)
(*                                                                         *)
(* A section of a program is a sequence of operations <<op, item>>:        *)
(* "common" absorbs a value both sides know, "write" and "read" also move  *)
(* it through the proof, "squeeze" draws a challenge.  Fields, curves and  *)
(* hashing are idealised: a value is named by what it is and the hash      *)
(* state is the history itself, so that two challenges are equal exactly   *)
(* when their histories are.                                               *)
(***************************************************************************)
EXTENDS ConstraintSystem, PointSets

Common(item)  == <<"common", item>>
Write(item)   == <<"write", item>>
Read(item)    == <<"read", item>>
Squeeze(name) == <<"squeeze", name>>

\* Concatenation of F(1), ..., F(n).
Each(n, F(_)) == FlattenSeq([i \in 1 .. n |-> F(i)])

Column(p, c) == <<"advice", p, c>>
Instance(p, c) == <<"instance", p, c>>
Eval(com, rot) == <<"eval", com, rot>>
Query(com, point) == [com |-> com, point |-> point]

\* Curve points and scalars have encodings of different lengths.
IsScalar(item) == item[1] \in {"eval", "qeval", "slot", "extra"}

-----------------------------------------------------------------------------
(* A run is about a record k: the constraint system of the key with the    *)
(* numbers derived from it, the rows of its domain, the proofs in one      *)
(* transcript, the committed instance columns, the instance columns the    *)
(* prover's caller supplies, the plain ones the verifier's caller does,    *)
(* and the length of an instance column.                                   *)

VerifyingKey(c, n) ==
    [ cs       |-> c,
      n        |-> n,
      degree   |-> Degree(c),
      blinding |-> BlindingFactors(c),
      chunks   |-> [l \in DOMAIN c.lookups |-> NumChunks(c, c.lookups[l])] ]

RunOf(vk, proofs, committed, supplied, plain, len) ==
    [ cs |-> vk.cs, n |-> vk.n, degree |-> vk.degree, blinding |-> vk.blinding,
      chunks |-> vk.chunks, proofs |-> proofs, committed |-> committed,
      supplied |-> supplied, plain |-> plain, len |-> len ]

NumAdvice(k) == Len(k.cs.advice_column_phase)
LastRotation(k) == -(k.blinding + 1)
ChunkLen(k) == k.degree - 2
NumPermutationSets(k) == (Len(k.cs.permutation) + ChunkLen(k) - 1) \div ChunkLen(k)
QuotientPolyDegree(k) == k.degree - 1
=============================================================================
