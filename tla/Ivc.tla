--------------------------------- MODULE Ivc ---------------------------------
(***************************************************************************)
(* Incrementally verifiable computation (aggregation/src/ivc): the prover  *)
(* that carries a state, a proof and an accumulator from step to step, the *)
(* circuit that verifies the previous proof, the verifier, and provers who *)
(* fill in the circuit's witness as they like.  A proof is valid exactly   *)
(* for the instance its circuit was satisfied by; an accumulation holds    *)
(* exactly when all its parts do.                                          *)
(***************************************************************************)
EXTENDS Integers, Sequences, FiniteSets

CONSTANTS
    IvcStates,     \* T::State
    Genesis,       \* T::genesis
    Transitions,   \* T::transition, for every state and witness
    Decided,       \* the states T::decider accepts
    MaxProofs      \* bound on the proofs made

Witnesses == {sw[2] : sw \in DOMAIN Transitions}

NextState(state, witness) == Transitions[<<state, witness>>]

ASSUME IvcAssumption ==
    /\ Genesis \in IvcStates /\ Decided \subseteq IvcStates
    /\ Transitions \in [IvcStates \X Witnesses -> IvcStates]
    /\ MaxProofs \in Nat

VARIABLES
    made,      \* the proofs made so far, by whomever: their bytes are their index
    prover     \* IvcProver: state, proof (0 is the empty one), acc

ivcVars == <<made, prover>>

-----------------------------------------------------------------------------
(* Accumulators                                                            *)

\* Accumulator::trivial; what scale_by_bit leaves of one it multiplies by 0; one
\* that fails the pairing check, whichever.  ProofAcc is that of a valid proof.
TrivialAcc == <<0>>
ScaledByZero == <<1>>
Failing == <<2>>
ProofAcc(n) == <<3, n>>

Holds(acc) == acc # Failing
IsIdentity(acc) == acc \in {TrivialAcc, ScaledByZero}

\* Accumulated with a challenge drawn from all the parts: the same parts in
\* another form give another sum, unless all are the identity.
Accumulate(first, second) ==
    IF IsIdentity(first) /\ IsIdentity(second) THEN TrivialAcc
    ELSE IF Holds(first) /\ Holds(second) THEN <<4, first, second>>
    ELSE Failing

\* prepare: whether bytes n are a valid proof of an instance shows in the
\* accumulator only.  The transcript of the recursion is Poseidon's.
Prepare(n, hash, state, acc) ==
    IF n # 0 /\ made[n] = [hash |-> hash, state |-> state, acc |-> acc, valid |-> TRUE]
    THEN ProofAcc(n) ELSE Failing

-----------------------------------------------------------------------------
(* The circuit                                                             *)

IsGenesis(state) == state = Genesis

\* The accumulator the circuit makes its public input.
CircuitAcc(prevState, prevAcc, prevProof) ==
    Accumulate(IF IsGenesis(prevState) THEN ScaledByZero
               ELSE Prepare(prevProof, "Poseidon", prevState, prevAcc), prevAcc)

Proof(hash, state, acc, valid) == [hash |-> hash, state |-> state, acc |-> acc, valid |-> valid]

-----------------------------------------------------------------------------
(* The prover                                                              *)

IvcInit == made = <<>> /\ prover = [state |-> Genesis, proof |-> 0, acc |-> TrivialAcc]

\* Bug: the accumulator of the previous proof is not accumulated.
NextAccAlone(p) == IF p.proof = 0 THEN TrivialAcc ELSE ProofAcc(p.proof)

\* next_acc, outside the circuit: genesis is where there is no proof.
NextAcc(p) == Accumulate(IF p.proof = 0 THEN TrivialAcc ELSE ProofAcc(p.proof), p.acc)

\* The previous proof is refused: prepare's error or InvalidProof.
PreviousRefused(p) == p.proof # 0 /\ Prepare(p.proof, "Poseidon", p.state, p.acc) = Failing

\* prove_step and prove_final_step, which differ in the hash of the new proof;
\* both make a proof whether or not the circuit is satisfied.
ProveStep(witness, hash) ==
    LET next == NextState(prover.state, witness)
        acc == NextAcc(prover)
    IN /\ Len(made) < MaxProofs
       /\ ~PreviousRefused(prover)
       /\ made' = Append(made, Proof(hash, next, acc,
                             CircuitAcc(prover.state, prover.acc, prover.proof) = acc))
       /\ prover' = [state |-> next, proof |-> Len(made'), acc |-> acc]

KnownAccs == {TrivialAcc, Failing} \cup {made[n].acc : n \in DOMAIN made}

\* resume_from takes whatever was saved, and anything else.
ResumeFrom(state, n, acc) ==
    /\ Len(made) < MaxProofs
    /\ prover' = [state |-> state, proof |-> n, acc |-> acc]
    /\ UNCHANGED made

\* Someone else proves a step with a witness of his own.
ProveElsewhere(prevState, prevAcc, prevProof, witness) ==
    /\ Len(made) < MaxProofs
    /\ made' = Append(made, Proof("Poseidon", NextState(prevState, witness),
                                  CircuitAcc(prevState, prevAcc, prevProof), TRUE))
    /\ UNCHANGED prover

IvcNext ==
    \/ \E witness \in Witnesses, hash \in {"Poseidon", "Keccak"} : ProveStep(witness, hash)
    \/ \E state \in IvcStates, n \in 0 .. Len(made), acc \in KnownAccs : ResumeFrom(state, n, acc)
    \/ \E state \in IvcStates, acc \in KnownAccs, n \in 0 .. Len(made), witness \in Witnesses :
          ProveElsewhere(state, acc, n, witness)

IvcSpec == IvcInit /\ [][IvcNext]_ivcVars

-----------------------------------------------------------------------------
(* The verifier                                                            *)

\* Bug: the instance's accumulator is not checked.
VerifyProofOnly(n, hash, state, acc) ==
    /\ state \in Decided
    /\ Holds(Prepare(n, hash, state, acc))

\* verify and verify_final, which differ in the hash.
Verify(n, hash, state, acc) ==
    /\ state \in Decided
    /\ Holds(Accumulate(Prepare(n, hash, state, acc), acc))

-----------------------------------------------------------------------------
(* Properties                                                              *)

ClosedUnderSteps(states) ==
    /\ \A w \in Witnesses : NextState(Genesis, w) \in states
    /\ \A st \in states, w \in Witnesses : NextState(st, w) \in states

\* The states of all chains of transitions from genesis: those that no set of
\* states with the successors of genesis and of its members leaves out.
Reached ==
    {st \in IvcStates : \A states \in SUBSET IvcStates : ClosedUnderSteps(states) => st \in states}

\* What an accepted instance stands for: a chain of transitions from genesis
\* to its state, whoever made the proofs it rests on.
AcceptedIsReached ==
    \A n \in DOMAIN made : Verify(n, made[n].hash, made[n].state, made[n].acc) =>
        made[n].state \in Reached

Accepted(p) ==
    /\ p.proof # 0
    /\ Holds(Accumulate(Prepare(p.proof, made[p.proof].hash, p.state, p.acc), p.acc))
AtGenesis(p) == p.proof = 0 /\ p.state = Genesis /\ p.acc = TrivialAcc

\* A prover at genesis, or with a proof a verifier accepts, gets a proof that is
\* accepted from each step that succeeds.  A chain that comes back to genesis
\* is the exception: there the circuit and the prover disagree on whether there
\* is a previous proof.
StepsStayAccepted ==
    [][(/\ AtGenesis(prover) \/ Accepted(prover)
        /\ Len(made') > Len(made) /\ prover'.proof = Len(made')
        /\ (prover.state = Genesis => prover.proof = 0)) => Accepted(prover)']_ivcVars
=============================================================================
