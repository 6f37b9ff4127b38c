# A TLA+ verification of midfall's proof system

midfall is a PLONK-style zero-knowledge proof system in Rust, derived from halo2: the proof system itself (`proofs/`), a library of circuit gadgets (`circuits/`), a standard library and proving API on top of them (`zk_stdlib/`), recursive aggregation (`aggregation/`), an instruction set (`zkir/`), a generator of Solidity verifiers (`proofs/solidity-verifier/`) and the curves (`curves/`).

This directory models what carries a circuit from its description to a verdict: how a circuit is *configured*, how its cells are *laid out*, how its equality constraints are *accumulated*, how prover, verifier, in-circuit verifier and Solidity contract *talk* through the Fiat–Shamir transcript, and what the *gadgets* a circuit is built from let a prover get away with. An error in these parts drops a constraint, shifts an index, or makes two sides draw different challenges, and a test that proves and verifies one circuit hardly ever sees it. Field and curve arithmetic is idealised, or done in fields small enough to try every value.

Paths are relative to the repository; `proofs/` stands for `proofs/src/`, `circuits/` for `circuits/src/`.

## 1. Inventory

```
 configure ──▶ ConstraintSystem ──▶ keygen_vk ──▶ VerifyingKey ──▶ prover ──┐ bytes
   (gadgets of circuits/)                 ▲            │  │  └──▶ verifier ◀─┤
 synthesize ──▶ floor planner ──▶ Assembly ──▶ perm.   │  └▶ verifier gadget ┤──▶ IVC
                (regions, tables)   (fixed, selectors) └──▶ Solidity contract ┘
```

Calls are synchronous and single-threaded; the only threads are rayon's inside arithmetic, and prover and verifier are two processes joined by a proof. Two things are shared behind the callers' backs: the transcript, whose state all sides have to rebuild, and the thread-local `fewer-point-sets` flag of the opening.

| Component | State | What is hard | What makes it correct |
|---|---|---|---|
| Permutation assembly, `plonk/permutation/keygen.rs` | `mapping`, `aux`, `sizes` | labels are rewritten cell by cell while the cycles are still the old ones; an exchange inside one cycle would *split* it | the cycles are exactly the classes of the accepted copies |
| Constraint system and key generation, `plonk/circuit.rs`, `keygen.rs`, `logup.rs`, `trash.rs` | columns, phases, selectors, query lists, gates, lookups, permutation | indices are stored in expressions while the lists they index grow; two numberings of selectors become one of fixed columns; the chunks of a lookup depend on the degree that depends on the chunks | indices resolve, phases have no gap, selectors point at their column, the degree covers every identity |
| Floor planners, `circuit/floor_planner/`, `table_layouter.rs` | first free rows; allocations and gaps | a region's closure runs twice; constants share a column with regions; first fit through gaps of several columns at once | no cell is given twice, constants hold, tables are filled |
| KZG multi-open, `poly/kzg/` | openings, points, point sets | three renumberings that have to stay aligned by position | nothing lost, mixed or repeated; padding merges |
| Transcript, prover, verifier, `plonk/prover.rs`, `verifier.rs`, `transcript/` | hash state, byte cursor | the same nested loops written twice, and nothing in the transcript compares them | same challenges, same openings, only a whole proof is accepted |
| Verifier gadget, `circuits/verifier/` | the same, in a circuit | a third copy; unreadable values become defaults | follows the verifier |
| Solidity contract, `proofs/solidity-verifier/` | program, memory regions, proof plan | a fourth copy, compiled: constant slots, peepholes, memory reused by lifetimes | computes the numerator, reads nothing overwritten (two exceptions, section 5), follows the verifier |
| LogUp, `plonk/logup/` | multiplicities, accumulator | repeated table entries, inactive rows, blinding rows | accepts exactly the inputs in the table |
| Native field chip, gadget, decomposition, `circuits/field/native/`, `field/decomposition/` | cells, caches of constants and bounds | cached bounds outlive the call that proved them; wrap-around | instructions return what they document, for any prover |
| Foreign fields, big integers, `field/foreign/`, `biguint/` | limbs with bounds | an identity over the integers checked modulo a few moduli | as above, and an honest prover succeeds |
| Elliptic curves, `circuits/ecc/` | points with identity and subgroup flags | incomplete formulas, tables, windows, fixed tags | as above |
| Scanner, `circuits/parsing/scanner/` | automata, markers | a dozen constructions on automata, one table for several of them | exactly the words of an expression are parsed |
| Vectors, map, sponge, variable-length hashes | buffers, tree, queue | padding that must not be taken for payload | a payload means the same wherever it lies |
| IVC, `aggregation/src/ivc/` | state, proof, accumulator | a proof is checked only up to its accumulator | an accepted state is reached from genesis |

`PROJECT.json` lists every component with its status, and the hazards of the modelled ones at the lines where they bite. Section 6 says what is not modelled.

## 2. Modules

| Module | Models | Composes |
|---|---|---|
| `CopyConstraints` | abstract: a partition of the cells, merged by each copy | |
| `PermutationAssembly` | the accumulator behind it, loop iteration by loop iteration | refines `CopyConstraints` |
| `ConstraintSystem` | the methods of `ConstraintSystem` as operators from a value to the next | |
| `CircuitConfiguration` | `configure` calls in any order, then `keygen_vk` | `ConstraintSystem` |
| `SinglePassLayouter`, `V1Planner` | synthesis during key generation under either planner | |
| `PointSets`, `MultiOpen` | the grouping of openings, and one multi-open query by query | `PointSets` |
| `PlonkItems` | the vocabulary of a transcript and the numbers derived from a key | `ConstraintSystem`, `PointSets` |
| `PlonkProver`, `PlonkVerifier` | the two programs, as sequences of transcript operations | `PlonkItems` |
| `PlonkProof` | a proof from `create_proof` to the caller's verdict | both programs |
| `VerifierGadget`, `ContractProtocol` | the third and the fourth program, on the same delivery | `PlonkProof` |
| `LogUp` | multiplicities, accumulator and their identities | |
| `NativeChip`, `DecompositionChip`, `NativeInstructions`, `NativeGadget` | gate, decompositions, instructions on them, and the caches over series of calls | each the one before |
| `Automata`, `ScannerRegex`, `ScannerChip`, `ScannerLibrary` | automata, their expressions, the scanner in a circuit, and json_string | each the one before |
| `VectorGadget`, `MapGadget`, `PoseidonSponge` | variable-length vectors and hashes, the sparse Merkle map, the sponge | |
| `BigUintGadget`, `FieldChip`, `ForeignEcc`, `EdwardsEcc` | big integers, emulated fields, curves over them and over the native field | |
| `Ivc` | prover, circuit and verifier of an incremental proof | |
| `QuotientVm`, `ContractMemory` | the lowering to a bytecode and its interpreter; memory plan and memory traffic of the contract | |
| `PointSetsLemmas` | lemmas: induction and recursion over the naturals for sets, recursive functions over lists, what the operators of `PointSets` compute | `PointSets` |
| `ConfigurationProofs`, `MultiOpenProofs` | theorems about `CircuitConfiguration` and `MultiOpen` | `PointSetsLemmas` |
| `FiatShamirProofs` | theorem about the order of `PlonkProof`'s prover, and the pairing of the prover's and the verifier's programs | `PointSetsLemmas` |
| `TranscriptProofs` | theorems about prover and verifier together, and about the verifier as a circuit | `FiatShamirProofs`, `VerifierGadget` |
| `RecursionProofs` | theorems about `PoseidonSponge` and `Ivc` | `PointSetsLemmas` |
| `PermutationAssemblyProofs`, `SinglePassLayouterProofs` | theorems about the modules they are named for | |
| `MCCircuit`, `MCProof`, `MCComponents`, `MCPlonkProof`, `MCForeignEcc` | instances for TLC | |

Operators whose comment begins with "Bug:" are deliberately wrong variants: putting one in the place of its original has to break a property, which shows that the property watches that piece of code. No specification uses them.

**Copy constraints.** `Assembly::copy` is one call of several steps. `CopyUnknownColumn`, `CopyOutOfBounds` and `CopySameCycle` are its early returns in their order; `CopyBegin` chooses which cycle is relabelled; every `Walk` is an iteration of the loop; `Join` is the final exchange of successors. `requested`, a history, holds the copies that returned `Ok`. The refinement maps a cell's class to its orbit under `mapping`; all steps but `Join` stutter.

**Configuration.** A `ConstraintSystem` is a record; a circuit makes any calls whose preconditions (the code's assertions) hold, then `keygen_vk` succeeds or panics. An expression is reduced to the cells it reads, each with the query index stored in it, the virtual selectors it multiplies by, and its degree: all the modelled code looks at. `indexed` tells the two ways of reading a cell apart: `VirtualCells::query_*`, which stores the index at once, and `Column::cur`, which leaves it to `query_cells`. Numbers count from 1.

**Layout.** `SinglePassLayouter` has the `Assembly` of key generation behind it. `Measure` is one operation of the first run of a region's closure, `Place` one column of the loop that finds the start row (a hash set: any order), `Reserve` the new first free rows, `Assign` one operation of the second run, `AssignConstant` one constant; `AssignCell` and `FinishTable` are the table half. Every early return with an error is an action that ends synthesis. `V1Planner` measures all regions first, sorts them, and searches the free intervals of all their columns (`FirstFit`, with the code's slack) before it assigns; its two assertions and its `expect` lead to the phase "panic".

**Multi-open.** `MultiOpen` collects openings in the order `compute_queries` can produce, pads them when the flag is on, runs the first loop of `construct_intermediate_sets` a query at a time and then groups. An opening is its own evaluation, so that "the evaluation at position j belongs to point j" can be stated.

**Protocol.** Each program is, for a key and call, a sequence of sections of `common`, `write`/`read` and `squeeze` operations on named items. `PlonkProof` runs prover and verifier, lets the proof arrive intact, cut by an element or with one behind its end, and gives each side its own dummy-query flag; the gadget's and the contract's programs are evaluated on the delivery. Idealised: challenges are equal exactly when the absorbed histories are; points and scalars have encodings of different lengths; the pairing check holds exactly when both sides drew the same challenges and every opening claimed has the value the prover gave it.

**Gadgets.** A constraint is the set of values it admits, so a call of a chip is the set of results *some* prover can reach, computed by trying every value of every cell the code leaves to the prover, in a small field. A property compares it with what the instruction documents. State carries from call to call where it does in the code: caches, bounds, flags, markers, assigned cells. Hashes are collision-free.

**IVC.** A proof is valid exactly for the instance it was made for, an accumulator holds exactly when all its parts do; the prover fills in the circuit's witness as it likes, and the verifier sees the last proof only.

**Contract.** `QuotientVm` lowers expressions over named memory words to items of the bytecode with the generator's peepholes, constant slots and native gates, and runs the interpreter on them over a field of seven elements. `ContractMemory` follows which words each block of the assembly reads, uses and writes, in the layout the planner chose.

## 3. Runs

State counts are distinct states.

| Run | States | What it asks | Answer |
|---|---|---|---|
| `circuit` | 650,164 | any order of configure calls and then keygen; any two regions and a table; any four regions of V1 | all properties hold |
| `components` | 261,236 | the components without shared state, one of them moving in a behaviour | all hold |
| `proof_roundtrip` | 32,973 | the copies of a circuit and a proof: 91 circuits and calls, four programs, damaged proofs, different flags | all hold |
| `linearization_factor` | – | is the linearization factor of an identity the selector that multiplies it? | **violated** |
| `instance_order` | – | do both sides absorb several proofs' mixed instances in one order? | **violated** |
| `fixed_evals` | – | is an honest proof accepted when a fixed column is read at two rotations? | **violated** |
| `div_rem` | – | does a division without a bound determine its result? | **violated** |
| `json_string` | – | does json_string accept what it documents? | **violated** |
| `vector_padding` | – | do the padding flags tell padding from payload? | **violated** |
| `varlen_hash` | – | does the digest depend on the payload only? | **violated** |
| `biguint_mul` | – | is a product the product of its operands? | **violated** |
| `ecc_constant` | – | is multiplication by a constant the multiple? | **violated** |

### Properties

`circuit`:

* **QueriesResolve**: no cell is queried twice, the counts the blinding factors come from are exact, and after any calls and after the selectors were replaced every cell in a gate, a lookup or the permutation, and the selector of a trash argument, has an index that names it. In the expressions of a trash argument each index that *is stored* names its own cell; a cell read through `Column::cur` has none there (section 5). **PhasesContiguous**: no phase is skipped. **KeyCoversCircuit**: selectors point at the column of their values, and the degree covers all identities, each chunk of a lookup included.
* **NoCellShared**, **ConstantsHold**, **TablesFilled**, and **TypeOK** of the layouter: no cell is given to two regions or to a region and a constant; a constant stays where its copy points; a finished table has no row with a value that was not assigned to it. **V1Sound** is the same for V1, **NeverPanics** its assertions, **EarliestFit** (an action property) its documentation: the search with intervals and slack finds the row that a search row by row finds.

`proof_roundtrip`:

* **CopiesEnforced**: an assignment is invariant under `mapping` iff it satisfies every accepted copy: one direction is soundness, the other completeness. **LabelsAreCycles**, **SizesExact**: between calls, `aux` and `sizes` describe the cycles; the early return and the choice of the side to relabel rely on them. **CopyReturns** (liveness), **ImplementsClasses** (refinement).
* **TranscriptsAgree**: the verifier's history is always a prefix of the prover's, and what is read is what was written. **ChallengesBind**: no challenge is drawn before what it randomises. **OnlyWholeProofAccepted**, **HonestProofAccepted** (liveness). **GadgetFollowsVerifier**: an accepted proof's accumulator is shown to hold in the circuit, and only the prover's whole proof is. **ContractFollowsVerifier**: for every circuit the generator takes, the contract accepts exactly what the verifier accepts.

`components`:

* **ScanExact**, **GroupingExact**, **PaddingSafe**: the grouping of openings loses, mixes and repeats nothing, only real repetitions are refused, and the padding does what it is for.
* **LookupExact**: the lookup argument accepts exactly the inputs in the table.
* **CallsExact**, **GadgetSound**: instructions return what they document whatever the prover fills in; no cache makes a circuit accept what it would refuse without it.
* **RegexExact**, **ScannerExact**: automata stand for their expressions, and exactly their words are parsed.
* **VectorsExact**, **MapExact**, **SpongeBinds**: a vector is its payload; the map in the circuit is the map; two sponges agree exactly when they absorbed the same between the same squeezes.
* **BigUintsSound**, **FieldSound**, **EccSound**, **EdwardsSound**: numbers, elements and points are what their calls document for any prover, flags are true, and an honest prover succeeds.
* **AcceptedIsReached**, **StepsStayAccepted** (an action property): an accepted state lies on a chain from genesis; a prover with an accepted proof gets an accepted one from each step, unless the chain comes back to genesis.
* **NumeratorLowered**, **MemorySafe**: the bytecode computes the numerator and the lowering does not fail while the constants fit their slots; the planner refuses nothing that fits, and the contract of a plan it accepts reads a word that something else has overwritten in exactly two cases: the denominators of the batched inversion, 176 or more, reach the slot of the evaluations' address (`DenominatorsSpill`), or a run of the transcript is longer than its buffer (`TranscriptSpills`), which takes a phase without a challenge before another one (`EstimateSuffices`). `misread` is a history variable: the values blocks have read although they were overwritten. Both cases contradict what `memory.rs` says of itself (section 5).

### Bounds and why they are enough

* `circuit`, configuration: 1 fixed, 2 advice and 1 instance column, 2 selectors, 1 challenge, 1 gate, 1 lookup, rotations 0 and 1, 2 phases, degrees 1 and 3, five calls (`CallBound`): enough for a column, a selector, an equality, and a gate and a lookup over one column in either order; degree 3 makes a lookup that does not fit its chunk, keygen's panic. The theorems remove these bounds.
* `circuit`, layout: one column of each kind, the fixed one also for constants, two regions of two operations at offsets 0 and 1, two usable rows, a table of two columns tried before the first region (`TablesFirst`: tables share no column with regions). Two regions can use different columns, overlap in one, and run out of rows. The theorems remove the bounds. V1: up to four of ten shapes, so that a region falls into a gap between others in one column and behind them in another.
* `proof_roundtrip`, copies: 2 × 2 cells, a foreign column, a row too many, three accepted copies: cycles of every length, both outcomes of the size comparison. The theorems remove the bound. Circuits: with or without a second phase with a challenge, a lookup with several chunks, a trash argument, copies (several permutation sets), a simple or complex selector, and no, plain, committed or mixed instances, one and two proofs: each loop of each program runs zero, one and several times in some instance. Keys of which a violation run shows that the sides disagree are left to that run.
* `components`: multi-open with three commitments, three points, five openings. Lookups over every table and input of two rows and two values. Native instructions over the field of 11 elements with limbs of two bits: every wrap-around happens. Automata over two letters, expressions of two operations over six leaves, words of three letters. Vectors of up to six cells in chunks of three, every content and filler. Trees of three levels, three keys. Sponges of rate two with three squeezes. Big integers of up to three two-bit limbs over the field of 67. Emulated fields of 13 and 7 elements in two limbs, with one, two and no auxiliary moduli. A curve of 13 points over the field of 7, scalars of two windows; an Edwards curve of 20 points over the field of 13. IVC: three states, one of them unreachable, a cycle through genesis, three proofs. Programs of expressions of up to weight three (`MaxWeight`) with every peephole reached. 864 contracts with one and two phases, few instances and so many that they reach behind the Lagrange slots: of the 576 plans that are accepted, 192 have denominators on the evaluations' address, 64 a transcript that is too long for its buffer, 48 of them both.

### Fairness

`PermutationAssembly` assumes weak fairness of `Walk \/ Join`: a call that has begun is sequential code that runs on. `PlonkProof` assumes weak fairness of its next step: both programs run to their end and the proof arrives, in whatever shape. `HonestProofAccepted` only speaks of proofs that arrived intact. The other specifications claim no liveness.

No run checks for deadlock: each of these systems ends (synthesis and keygen stop, a verification has a result, series of calls are bounded).

## 4. Theorems

Each theorem holds for every value of the constants, under the assumptions its module names. They are as weak as the code justifies: rows are natural numbers, kinds of columns are disjoint, constants go to fixed columns; for a configuration, the degrees a circuit gives its inputs are positive, because an input reads at least one cell; for the permutation, the argument has finitely many columns (`FiniteAssumption`); for IVC, genesis is a state and transitions lead to states. Some theorems have a hypothesis more, each the exact edge of a finding or of the code's contract:

* `SlotsMatch(k)`, in the theorems of `TranscriptProofs`: the verifier has as many slots for fixed columns as the prover has queries of them, that is, every fixed column that is no simple selector is queried once. Without it, finding 2.
* `OneOrder(k)`, in `TranscriptsTheorem` only: one proof, or no committed instances, or no plain ones. Without it, finding 1.
* `LengthsAssumed`, in `SpongeTheorem`: a length declared for a sponge is positive. With a length of zero the code leaves the padding and the block out, so that absorbing nothing and squeezing could be repeated without a trace.

Every one of the 91 circuits and calls of `proof_roundtrip` satisfies the first two, so the hypotheses leave nothing out that the run checks; the instances of `fixed_evals` and `instance_order` each violate one of them.

| Module | Theorem | States |
|---|---|---|
| `PermutationAssemblyProofs` | `CopiesEnforcedTheorem` | the cycles are the classes of the accepted copies |
| | `LabelsAreCyclesTheorem` | between calls one label is one cycle |
| | `ImplementsClassesTheorem` | the loop implements the abstract merge of two classes |
| | `SizesExactTheorem` | between calls the sizes are the lengths of the cycles |
| | `TypeCorrect` | cells stay cells of the argument |
| `SinglePassLayouterProofs` | `NoCellSharedTheorem` | no cell is given twice |
| | `ConstantsHoldTheorem` | constants keep their value, and the copy that ties them |
| | `TablesFilledTheorem` | finished tables hold only what was assigned to them |
| | `TypeCorrect` | every write is inside the usable rows of a column that exists |
| `ConfigurationProofs` | `QueriesResolveTheorem` | query lists, counts and stored indices agree, before and after keygen; only in trash arguments a cell may have no index |
| | `PhasesContiguousTheorem` | no phase is skipped |
| | `KeyCoversCircuitTheorem` | selectors point at their columns, the degree covers every identity |
| `RecursionProofs` | `SpongeTheorem` | two sponges give one challenge exactly when they absorbed the same |
| | `AcceptedIsReachedTheorem` | an accepted state is reached from genesis |
| | `StepsStayAcceptedTheorem` | a step from an accepted proof gives an accepted proof |
| `MultiOpenProofs` | `ScanExactTheorem` | points and commitments are numbered once, entries list exactly the points met |
| | `GroupingExactTheorem` | commitments are grouped by exactly their points, evaluations stand at theirs |
| | `PaddingSafeTheorem` | only repetitions are refused, padding merges, the fixed columns' set is first |
| `FiatShamirProofs` | `ChallengesBindTheorem` | no challenge is drawn before what it randomises, whatever the circuit |
| `TranscriptProofs` | `RunsInStep` | the inductive invariant of a run: prover and verifier are each at one place of their programs |
| | `TranscriptsTheorem` | same challenges, every value and every opening in its place |
| | `WholeProofTheorem` | only the prover's whole proof is accepted |
| | `GadgetTheorem` | the verifier as a circuit shows to hold what the verifier accepts, and the whole proof only |

**Copy constraints.** `CopiesEnforced` is not inductive: while the loop runs, `aux` is half old and half new. The invariant `IInv` keeps the *old* labelling (`OldLabel`: a relabelled cell still counts as its old cycle) throughout the call, says that the relabelled cells (`Walked`) form the path of `mapping` from `right_cycle` to the cursor, so that the loop's exit condition means that the whole cycle is done, and that every accepted pair lies on one cycle. The heart is `ExchangeJoins`: exchanging the successors of two cells on different cycles makes one cycle of the two and leaves the others alone. There is no induction over the length of a path here: an orbit is the least closed set, and paths are argued with closed sets (`OrbitLeast`, `ExchangeMeets`). For the sizes, the cycle of a cell is a finite set because the argument's columns and rows are; `SizesInv` counts, in the middle of a call, the cells of the *old* labelling, so that the sum written at `CopyBegin` is right once `Join` has made one cycle of the two. In the refinement `Join` is the abstract `Copy`; an accepted copy inside a cycle and every other step stutters.

**Layout.** `TypeInv` adds to the types that a region being assigned has a start row. `IInv` adds what `NoCellShared` needs: every placed cell is below its column's first free row; while a region is placed, its start is at or above the free rows of the columns already looked at; while it is assigned, its rows are reserved and no other region is in them, and its operations stay inside the measured shape. `HeldInv` says which cell holds a constant, and that it is a placed cell, so that `NoCellShared` protects it; `TableInv` says the same of what the current table has assigned.

**Configuration.** The three properties are read off two predicates. `Sound(c)` is what every configure call keeps, whatever its arguments: the query lists have no repetition, the counts per advice column are the numbers of its queries, every cell in a gate, a lookup or the permutation has an index that names it, every index stored in a trash argument names its cell (`StoredReadsResolve`), and the selectors in expressions exist; each method of `ConstraintSystem` has a lemma that it leads from a sound system to a sound one (`GateAdded`, `LookupAdded`, `EqualityEnabled`, `AdviceColumnAdded`, …). `Keyed(c, k)` relates the system `c` the circuit configured to the system `k` of the key, after the selectors were replaced by queries of new fixed columns. The invariant `ConfigInv` says `Sound(cs)` before keygen, and afterwards that *some* sound system was converted to `cs`: the verifying key has forgotten which. Replacing selectors only appends fixed queries (`Extends`), so the indices stored before still name their cells. In `KeyCoversCircuit` the circle between a lookup's chunks and the degree they fit is cut by keygen's own check (`DegreeCovers`): with the key's degree D, either D is the batched degree d0 already, or D − 1 is a power of two above it, and in both cases a chunk of as many inputs as fit gives a helper identity of degree at most D. `PowerAboveExponent` (2^n > n) makes `next_power_of_two` exist at all.

Loops over lists are recursive functions in these modules, and what they compute for every list is proved by induction. The library's induction theorems take an operator as parameter, which the installed provers cannot instantiate; `PointSetsLemmas` states them for *sets* instead: a set of naturals that holds 0 and each successor holds all (`SetInduction`, from `LeastElement`), and a function defined by recursion satisfies its equation (`RecursiveFunction`). A proof by induction names the set of the lengths for which the claim holds. `LargestEntry` gives a list of numbers its largest one.

**Sponge.** `SpongeBinds` compares two sponges, and is read off an invariant of one: the blocks a sponge has permuted are those of its segments (what was absorbed between squeezes), cut at some positions (`CutAt`), and each segment's last block is told from its other ones, by the padding or by the declared length (`SideIs`). Blocks are then read back from the last segment on (`BlocksReadBack`), each segment as far as the block before it that ends one (`LastChunk`, `SameEnd`), so that one list of blocks has one list of segments; the other direction is `SegmentsDetermineBlocks`.

**IVC.** `IvcInv` says of every proof ever made, by the honest prover or by anyone, that if its accumulator is valid then its state is reached (`ChainsKept`): validity of an accumulator means validity of the proof inside, whose circuit accumulated an earlier proof, or genesis. `Reached` is the least set that holds genesis and is closed under transitions; `AcceptedIsReached` follows because the verifier checks the last accumulator. That the chain must not come back to genesis for `StepsStayAccepted` is the circuit's: it tells its first step by the state alone.

**Fiat–Shamir.** `ChallengesBind` speaks of a complete transcript; its proof gives every operation a *rank* on one scale: the key and the instances 0, the columns of phase p 2p + 1, the challenges of phase p 2p + 2, and behind the last phase an item of level l of the protocol and a challenge of level l alternate (`ItemsAt`, `ChallengesAt`). `ProverInv` says that the prover has run some number n of its sections, and that the ranks of the operations behind it do not fall and stay below `Bound(key, n)`; what is left to run is the rest of the program. Each section of the program has a lemma that its ranks lie between the bounds of its predecessor and its own (`CommitPermutationRises`, `WriteEvalsRises`, …), through however many proofs, columns, chunks and queries the circuit has; `SectionRuns` puts one behind the others. A challenge randomises nothing of a rank above its own (`RandomisedBefore`), which is the property. `KeysAssumption` is all it takes of a circuit: counts are naturals, queries are pairs of a column and a rotation, phases are naturals, and the degree is above two, because `ConstraintSystem::degree` starts from the permutation's three.

**Prover and verifier.** `TranscriptsAgree` is not inductive, and cannot be made so locally: that the next section of the verifier reads what the prover wrote there is a fact about two whole programs. The proof therefore has two halves. The first, at the end of `FiatShamirProofs`, compares the programs: `Twins(k)` holds of two operations that are the same or write and read one value, with a slot standing for the evaluation of the query in its place; `Pairs(Twins(k), …)` holds of two lists when they do place by place. Each pair of sections has a lemma (`AdvicesPair`, `LookupPair`, `FixedPair`, `MultiOpenPair`, …) through however many proofs, phases, columns and queries, and `ProtocolPairs` joins them. Only the instances need `OneOrder`; `Alike`, which asks for the kinds of the operations alone, holds without it and is enough for `OnlyWholeProofAccepted`. The second half, in `TranscriptProofs`, is the invariant `RunInv`: the prover's history and proof are those of the part of its program that is behind it (`ProverRan`), the verifier has run a first part of its own on the values delivered (`VerifierRan`), its cursor is the number of its reads, and every name stands for the value counted to it. Twin lists have equally many reads and writes at every place (`CountAlike`), so the value the cursor points at is the one the prover wrote for the name. The ones inserted for simple selectors shift the fixed evaluations by the number of simple selectors before a column on the reading side and again on the asking side; `OnesInserted` shows that each column gets its own evaluation back. For `OnlyWholeProofAccepted`, equal histories have equally many operations, hence equally many reads, and with `assert_empty` what was delivered is what was written; under different flags one side has the dummy evaluations in its history and the other has not.

**The verifier as a circuit.** `GadgetTheorem` is about a third program and adds no invariant: `RunInv` says what the verifier has done, and `GadgetFollowsVerifier` compares the circuit to it in one state. For one proof of a circuit of one phase on which its synthesis does not panic, the sections of the circuit up to the multi-opening are the verifier's first fourteen (`GadgetProgram`): what the circuit does not do, such as writing the lookups of every proof before the next kind or drawing the challenges of later phases, is nothing for such a call. Its list of openings is the verifier's queries, in the verifier's order (`OpensWhatVerifierOpens`, with `Matched`, the relation of two lists place by place of which `Pairs` is a case), so the intermediate sets and the last five sections are the same. Values are looked up by name on one side and counted on the other; `ValuesExact` says that both give one value when nothing is missing. So an accepted proof, whose history is the prover's, holds in the circuit (`AcceptedHolds`). The other way, the circuit fills in a default for whatever is missing: `HoldsWhole` takes only that its history is the prover's, counts the reads of both programs, and finds that what was delivered begins with the whole proof. There is no `assert_empty` in the circuit, which is why it only begins with it.

**Multi-open.** `Scanned(qs, n, pts, m)` is what the first loop knows after n queries: the points numbered so far are distinct, there is one entry per commitment, the entry's numbers are those of exactly the points it was queried at, and none is empty. `ScanKeeps` is one iteration, for a new point or an old one, a new commitment or an old one. `MultiOpenInv` adds to it that the queries are the caller's list, padded or not (`IsCaller`), that the fixed columns are opened at X only, and what each stage has found. `ScanExact` is the first part of it. For the grouping, `Grouping` says what the result is a renumbering of: a list of distinct sets of numbers, each the numbers of some entry, in an order of growing length. That order is a `CHOOSE`, so its existence is part of the proof (`SortedExists` sorts by going through the lengths) and every claim about it holds for whichever one is chosen (`OrderExact`); `sort_by_key` is stable, which `Precedes` states. `EvalsExact` shows that the search for a commitment's evaluation by its point finds it, so positions of evaluations and of points are the same list. For the padding, `PaddedExact` gives the padded list: without repetitions if the caller's is, with the same commitments, each at its own points and the union. Two sets of the result then differ only if their commitments differed before (an injection into the list `SetCount` counts), and the set of the fixed columns, which is the union itself, is a proper subset of every other, hence the shortest (`LongerList`).

**Only model-checked.** Liveness (`CopyReturns`, `HonestProofAccepted`) is beyond the prover. The gadgets' properties and most others of `components` quantify over what a prover can fill into finite fields and are evaluated, not argued: for other fields, limbs and automata they are not proved. That the contract follows the verifier (`ContractFollowsVerifier`), and `V1Sound`, `NeverPanics` and `EarliestFit`, are stated for every circuit but checked on the instances of section 3 only.

## 5. Findings

Nine runs end in a violation. Each is a statement of the repository about the program that the code contradicts.

1. **Instance order** (`instance_order`). With two or more proofs in one call and both committed and plain instance columns, `compute_instances` absorbs proof by proof; `parse_trace` absorbs all proofs' commitments and then all plain instances. All challenges differ and an honest proof is rejected.
2. **Fixed evaluations** (`fixed_evals`). The prover writes an evaluation per fixed *query*, the verifier reads one per fixed *column*. A fixed column read at two rotations, or at none, makes an honest proof fail.
3. **Linearization factor** (`linearization_factor`). `partially_evaluate_identities` takes the first simple selector the *gate* queried as the factor of each of its identities, also of those it does not multiply; its documentation says `None` for those.
4. **Division** (`div_rem`). Without a bound on the dividend, quotient and remainder of dividend + p satisfy the same constraints.
5. **JSON strings** (`json_string`). The intersection with single bytes leaves one-byte code points only: a string with any other character is rejected.
6. **Padding flags** (`vector_padding`). The start of the payload is looked for in all chunks but the last. A payload of at most one chunk lies in the last one, so its start is never met: the flags before that chunk are right, those of the chunk are inverted. Six cells in chunks of three with one element give 1,1,1,1,0,0 instead of 1,1,1,0,1,1.
7. **Variable-length hash** (`varlen_hash`). The branch that constrains the filler of the last chunk is never taken; the digest depends on the filler.
8. **Big-integer product** (`biguint_mul`). Equality of two big integers compares as many limbs as the shorter one has; `mul` then squares its first operand where the second is a longer number with the same low limbs.
9. **Multiplication by a constant** (`ecc_constant`). The 64-bit digits of a constant are added without shifting the second.

Met while modelling, without a run of their own:

* The documentation of `prepare` and `multi_prepare` promises an error for trailing bytes; only callers of `assert_empty` get one. The model gives both kinds of callers (`CallerAssertsEmpty`).
* `memory.rs:10` says the memory manifest "gives each range a name and lifetime, and rejects accidental overlap when two live ranges can coexist". It rejects overlap of the ranges it is told of, and two are missing. `batch_invert` works in place from `X_N_MPTR` on, but only its scratch is registered (line 1041): with 176 denominators or more (the instances, the negative rows and one) an accepted plan overwrites the address of the evaluations. And the transcript buffer is sized for the advices of the first phase alone, while the parser keeps those of a phase without a challenge in it (`abi/proof.rs:315`): an accepted plan may overwrite the start of the verifying key. `MemorySafe` does not assume these cases away but states them: `components` has accepted plans of both kinds, and on all of them, and on no others, an overwritten word is read.
* `create_gate` fills in the missing query indices of the polynomials `apply_selector_to_constraints` returns (`circuit.rs:2141`), which for an additive selector are none: the expressions have already gone to the trash argument (line 2694). A cell read through `Column::cur` keeps no index there, it is not queried either, and `trash.rs:71`–73 unwraps the index. `QueriesResolve` therefore claims of trash arguments only that the indices they store are right. The repository's own additive gates (`poseidon_chip.rs:254`, `two-chip.rs:286`) read their cells through `meta.query_*`, which stores the index.
* The lowering of the quotient numerator panics when a circuit has more distinct constants than slots; `LoweringSucceedsInSlots`, a part of `NumeratorLowered`, claims success for those that fit.
* `circuits/field/foreign/field_chip.rs`: `mul` (860–886) ignores `multiplying_constant` when a factor is the constant one; `assigned_to_le_bits` (1127–1131) without `enforce_canonical` decomposes `x + 1` before it is normalised; `assigned_to_le_bytes` (1162) panics when the number of bits is no multiple of eight. The actions leave these calls out, and `FieldSound` claims nothing of them.

## 6. Not modelled, and why

* Arithmetic of fields, curves, polynomials and MSMs, FFTs, hash functions and encodings: no control to model, and values out of reach of enumeration. They appear as the idealisations of section 2.
* Build features that change the protocol: `single-h-commitment`, `truncated-challenges`, the Solidity trace and the benchmarking prover. The default build is modelled.
* `constrain_equal`, `constrain_instance` and `assign_advice_from_instance` of the layouters only compute a row and forward to `copy`. Unblinded advice columns, names and annotations have no effect on the modelled state. Region closures are taken to do the same in both runs.
* Instance lists of different lengths, and the life of the flag's guard (nested guards, threads): its outcomes are covered by letting the two sides' values differ.
* Gadgets that are round functions or fixed layouts of constraints: the hashes SHA-256, SHA-512, Keccak, BLAKE2b and RIPEMD-160, base64, dates. The light aggregator is one fixed circuit.
* zkir, MockProver, the cost model, the contract's rendering and API, the bindings, the vendored BLAKE2b circuit.

## 7. Plan

What could be proved next, in order: `ContractFollowsVerifier`, whose program would be compared to the verifier's section by section as the circuit's is, so that only the packing of its memory and its refusals are new; `V1Sound` and `NeverPanics` of the second planner, for which `FirstFit` has to be related to the free rows; `LookupExact`, from sums over rows. What could be modelled next are the layouts the components are told apart from so far: the light aggregator, the parsing gadgets, and the operations of zkir.
