----------------------------- MODULE PlonkProof -----------------------------
(***************************************************************************)
(* One proof from create_proof to the verdict of the caller of prepare.    *)
(* The prover and the verifier run their programs a section at a time;     *)
(* between them the proof may lose its tail or gain trailing data, and     *)
(* each side reads its own thread's fewer-point-sets flag.                 *)
(***************************************************************************)
EXTENDS PlonkProver, PlonkVerifier

CONSTANTS
    Keys,                 \* the circuits, calls and instances to run
    FlagPairs,            \* <<prover's flag, verifier's flag>>
    CallerAssertsEmpty    \* the caller of prepare calls assert_empty

\* What a circuit, a call and their instances look like.
ASSUME KeysAssumption ==
    \A k \in Keys :
        /\ {k.proofs, k.committed, k.plain, k.len, k.blinding, k.degree,
             k.cs.num_instance_columns} \subseteq Nat
        /\ k.degree > 2
        /\ k.cs.advice_column_phase \in Seq(Nat) /\ k.cs.challenge_phase \in Seq(Nat)
        /\ k.cs.queries \in [Kinds -> Seq(Nat \X Int)]
        /\ \A list \in {k.cs.permutation, k.cs.lookups, k.cs.trashcans} :
              list \in Seq(ToSet(list))
        /\ k.chunks \in [DOMAIN k.cs.lookups -> Nat]
ASSUME FlagPairsAssumption == FlagPairs \subseteq BOOLEAN \X BOOLEAN
ASSUME CallerAssertsEmptyAssumption == CallerAssertsEmpty \in BOOLEAN

VARIABLES
    key, flags,
    todo, phist, proof,   \* prover: sections to run, hash history, proof so far
    sent, delivered,      \* whether the proof is on its way, and what arrives
    vtodo, vhist, cursor, \* verifier: sections to run, hash history, values read
    got,                  \* the value behind every name read
    verdict               \* "none", or how the attempt ended

vars == <<key, flags, todo, phist, proof, sent, delivered, vtodo, vhist, cursor,
          got, verdict>>

\* What an operation leaves in the hash state.
Absorb(op) == IF op[1] = "squeeze" THEN op ELSE <<"absorb", op[2]>>
History(ops) == [i \in DOMAIN ops |-> Absorb(ops[i])]

Items(ops, kind) ==
    Each(Len(ops), LAMBDA i : IF ops[i][1] = kind THEN <<ops[i][2]>> ELSE <<>>)

Init ==
    /\ key \in Keys /\ flags \in FlagPairs
    /\ todo = ProverProgram(key, flags[1]) /\ phist = <<>> /\ proof = <<>>
    /\ sent = FALSE /\ delivered = <<>>
    /\ vtodo = VerifierProgram(key, flags[2]) /\ vhist = <<>> /\ cursor = 0
    /\ got = [n \in {} |-> n]
    /\ verdict = "none"

Ends(how) ==
    /\ verdict' = how
    /\ UNCHANGED <<key, flags, todo, phist, proof, sent, delivered, vtodo, vhist,
                   cursor, got>>

ProverStops ==
    /\ verdict = "none" /\ phist = <<>> /\ ProverRefuses(key)
    /\ Ends("refused")

ProverStep ==
    /\ verdict = "none" /\ todo # <<>>
    /\ phist = <<>> => ~ProverRefuses(key)
    /\ phist' = phist \o History(Head(todo))
    /\ proof' = proof \o Items(Head(todo), "write")
    /\ todo' = Tail(todo)
    /\ UNCHANGED <<key, flags, sent, delivered, vtodo, vhist, cursor, got, verdict>>

\* The proof travels: intact, cut short, or with something after its end.
Deliver ==
    /\ todo = <<>> /\ ~sent
    /\ \/ delivered' = proof
       \/ delivered' = Front(proof)
       \/ delivered' = Append(proof, <<"extra">>)
    /\ sent' = TRUE
    /\ UNCHANGED <<key, flags, todo, phist, proof, vtodo, vhist, cursor, got, verdict>>

Delivered == verdict = "none" /\ sent

\* A value is missing, or has the wrong encoding.
ReadFails(ops) ==
    LET reads == Items(ops, "read")
    IN  \E i \in DOMAIN reads :
            cursor + i <= Len(delivered) =>
                IsScalar(delivered[cursor + i]) # IsScalar(reads[i])

\* How many of the operations up to the i-th are of the kind.
Count(ops, kind, i) == Cardinality({j \in 1 .. i : ops[j][1] = kind})

\* The operations with every value that is read in place of its name.
Substitute(ops) ==
    [i \in DOMAIN ops |->
        IF ops[i][1] = "read"
        THEN Read(delivered[cursor + Count(ops, "read", i)])
        ELSE ops[i]]

Perform(ops) ==
    \E reads \in {Items(ops, "read")} :
        /\ ~ReadFails(ops)
        /\ vhist' = vhist \o History(Substitute(ops))
        /\ got' = [n \in DOMAIN got \cup ToSet(reads) |->
                      IF n \in ToSet(reads) THEN delivered[cursor + Position(reads, n)]
                      ELSE got[n]]
        /\ cursor' = cursor + Len(reads)

VerifierStops ==
    /\ Delivered /\ vhist = <<>> /\ VerifierRefuses(key)
    /\ Ends("refused")

\* The ones are inserted after the section of the fixed evaluations; the
\* identities and the queries index the result before multi_prepare, the last
\* section.
Panics ==
    \/ Len(vtodo) = 4 /\ InsertPanics(key)
    \/ Len(vtodo) = 1 /\ IndexPanics(key)

VerifierStep ==
    /\ Delivered /\ vtodo # <<>>
    /\ vhist = <<>> => ~VerifierRefuses(key)
    /\ ~Panics
    /\ Perform(Head(vtodo))
    /\ vtodo' = Tail(vtodo)
    /\ UNCHANGED <<key, flags, todo, phist, proof, sent, delivered, verdict>>

VerifierStepFails ==
    /\ Delivered /\ vtodo # <<>>
    /\ vhist = <<>> => ~VerifierRefuses(key)
    /\ ~Panics
    /\ ReadFails(Head(vtodo))
    /\ Ends("error")

VerifierPanics == Delivered /\ Panics /\ Ends("panic")

Prepared == Delivered /\ vtodo = <<>>

TrailingBytes ==
    /\ Prepared /\ CallerAssertsEmpty /\ cursor < Len(delivered)
    /\ Ends("error")

\* The pairing check, idealised: it holds exactly when both sides drew the
\* same challenges and every claimed evaluation is the prover's.
PairingHolds ==
    /\ vhist = phist
    /\ \A q \in ToSet(VerifierQueries(key)) :
          ClaimedEval(key, got, q) = Eval(q.com, q.point)

\* Bug: the caller does not look at what is left in the transcript.
GuardVerifyUnchecked ==
    /\ Prepared
    /\ Ends(IF PairingHolds THEN "accept" ELSE "reject")

GuardVerify ==
    /\ Prepared /\ (CallerAssertsEmpty => cursor = Len(delivered))
    /\ Ends(IF PairingHolds THEN "accept" ELSE "reject")

Next ==
    \/ ProverStops \/ ProverStep \/ Deliver
    \/ VerifierStops \/ VerifierStep \/ VerifierStepFails
    \/ VerifierPanics \/ TrailingBytes \/ GuardVerify

\* Both programs are sequential code that runs to its end.
Spec == Init /\ [][Next]_vars /\ WF_vars(Next)

-----------------------------------------------------------------------------
(* Properties                                                              *)

SameFlags == flags[1] = flags[2]

\* As long as both threads have the same flag, the verifier's hash history is
\* at every section a prefix of the prover's: every challenge it draws is the
\* one the prover drew, under the same name.
ChallengesAgree == SameFlags => IsPrefix(vhist, phist)

\* Every value is read as what it was written as, and the list of openings the
\* verifier checks is the prover's, with the evaluation of each opening at the
\* right query, the ones of simple selectors skipped on both sides.
ReadsMatchWrites ==
    SameFlags =>
        /\ \A n \in DOMAIN got : n[1] # "slot" => got[n] = n
        /\ Prepared =>
              /\ VerifierQueries(key) = ComputeQueries(key)
              /\ \A q \in ToSet(VerifierQueries(key)) :
                    ClaimedEval(key, got, q) = Eval(q.com, q.point)

\* Prover and verifier run one protocol: the same challenges, and every value and
\* opening in its place.
TranscriptsAgree == ChallengesAgree /\ ReadsMatchWrites

\* Levels of the protocol: a challenge randomises everything of its level and
\* below.
ItemLevel ==
    [vk |-> 1, instance |-> 1, len |-> 1, value |-> 1, advice |-> 1, m |-> 2,
     z |-> 3, h |-> 3, acc |-> 3, trash |-> 4, limb |-> 5, eval |-> 6, f |-> 7,
     qeval |-> 8, pi |-> 9]

ChallengeLevel ==
    [theta |-> 1, beta |-> 2, gamma |-> 2, trash_challenge |-> 3, y |-> 4,
     x |-> 5, x1 |-> 6, x2 |-> 6, x3 |-> 7, x4 |-> 8]

Randomises(challenge, item) ==
    IF challenge[1] = "user"
    THEN \/ item[1] \in {"vk", "instance", "len", "value"}
         \/ /\ item[1] = "advice"
            /\ key.cs.advice_column_phase[item[3]] <= key.cs.challenge_phase[challenge[2]]
    ELSE ItemLevel[item[1]] <= ChallengeLevel[challenge[1]]

\* The Fiat-Shamir order: when a challenge is drawn, everything it randomises
\* is already in the hash state.
ChallengesBind ==
    (todo = <<>> /\ ~sent) =>
        \A i \in {j \in DOMAIN phist : phist[j][1] = "squeeze"} :
            \A j \in i + 1 .. Len(phist) :
                phist[j][1] = "absorb" => ~Randomises(phist[i][2], phist[j][2])

\* Nothing but the prover's whole proof is accepted: a proof cut short, a proof
\* with trailing data, and a proof made under another flag that adds dummy
\* evaluations are refused.
OnlyWholeProofAccepted ==
    verdict = "accept" =>
        /\ delivered = proof
        /\ flags[1] # flags[2] => DummyQueries(ComputeQueries(key)) = <<>>

\* An honest proof that arrives intact is accepted.
HonestProofAccepted ==
    (Delivered /\ delivered = proof /\ SameFlags /\ ~VerifierRefuses(key))
        ~> (verdict = "accept")
=============================================================================
