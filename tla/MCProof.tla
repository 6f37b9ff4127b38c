------------------------------ MODULE MCProof ------------------------------
(***************************************************************************)
(* The two stages whose code has to come to an end, side by side: the      *)
(* copies of a circuit are collected when its keys are made; a proof is    *)
(* made and verified with finished keys.  No state is shared, so that a    *)
(* behaviour is of one stage.                                              *)
(***************************************************************************)
EXTENDS MCPlonkProof, PermutationAssembly

CONSTANT MaxCopies      \* accepted copies after which one more is explored

VARIABLE collecting     \* the stage: copies are collected, or a proof is made

proofVars == <<collecting, vars, assemblyVars>>

CopyBound == Cardinality(requested) <= MaxCopies

\* No keys yet, and no proof.
NoProof ==
    /\ key = <<>> /\ flags = <<FALSE, FALSE>> /\ todo = <<>> /\ phist = <<>> /\ proof = <<>>
    /\ sent = FALSE /\ delivered = <<>> /\ vtodo = <<>> /\ vhist = <<>> /\ cursor = 0
    /\ got = <<>> /\ verdict = "none"

ProofInit ==
    /\ collecting \in BOOLEAN
    /\ IF collecting THEN NoProof ELSE Init
    /\ AssemblyInit

CollectCopies == collecting /\ AssemblyNext /\ UNCHANGED <<collecting, vars>>
RunProof == ~collecting /\ Next /\ UNCHANGED <<collecting, assemblyVars>>

ProofNext == CollectCopies \/ RunProof

\* A call of copy is a loop of a sequential program, as are prover and verifier.
ProofSpec ==
    /\ ProofInit /\ [][ProofNext]_proofVars
    /\ WF_proofVars(RunProof)
    /\ WF_proofVars(collecting /\ (Walk \/ Join) /\ UNCHANGED <<collecting, vars>>)
=============================================================================
