---------------------------- MODULE MCComponents ----------------------------
(***************************************************************************)
(* The components that are checked by themselves: the multi-open and the   *)
(* lookup argument of the proof system, the gadgets of the circuits and    *)
(* the aggregation built on them.  A behaviour uses one of them, part; the *)
(* state of the others stays as it was.                                    *)
(***************************************************************************)
EXTENDS MultiOpen, LogUp, ScannerChip, NativeGadget, VectorGadget, MapGadget, PoseidonSponge, Ivc,
    BigUintGadget, QuotientVm, ContractMemory, MCForeignEcc, EdwardsEcc, FieldChip

CONSTANTS
    key1, key2, key3, fixed1, point1, point2, point3    \* the commitments and points of the multi-open

VARIABLE part

componentVars ==
    <<part, vars, lookupVars, call, gadgetVars, regexVars, scanVars, vecVars, mapVars,
      spongeVars, ivcVars, bigVars, vmVars, contractVars, eccVars, edPoints, ffVars>>

MCKeys == {key1, key2, key3}
MCFixedKeys == {fixed1}
MCPoints == {point1, point2, point3}
Symmetry == Permutations({key1, key2, key3}) \cup Permutations({point2, point3})

MCLeaves == {EpsilonRegex, ByteFrom({0}), ByteFrom({1}), ByteFrom({0, 1}), Single({<<0, 1>>}),
             AnyWord}

\* Two expressions with one final state and several, and with markers; one
\* that accepts the empty word.
MCLibrary == <<Cat(ByteFrom({1}), ByteFrom({0})),
               Cat(NonEmptyList(Single({<<0, 1>>})), ByteFrom({1})),
               And(List(ByteFrom({0, 1})), Complement(ByteFrom({0})))>>

\* Two keys under one subtree, one in another.
MCKeyPositions == ("a" :> 1) @@ ("b" :> 4) @@ ("c" :> 5)

\* State 1 is reached from genesis and leads back to it; 9 is not reached.
MCTransitions ==
    [sw \in {0, 1, 9} \X {"a", "b"} |->
        CASE sw[2] = "a" /\ sw[1] = 9 -> 9
          [] sw[2] = "a" /\ sw[1] # 9 -> 1 - sw[1]
          [] sw[2] = "b" /\ sw[1] = 9 -> 1
          [] sw[2] = "b" /\ sw[1] # 9 -> sw[1]]

\* Big integers of one limb, full and not, of two and of three.
MCBigLoads == {<<1, 1>>, <<2, 3>>, <<3, 5>>, <<5, 18>>}

\* Sums of two and three terms that limbs are made of and a conditional one;
\* products of two vectors; fifth powers; loads without a short pointer.
MCTerms ==
    {Mem(1), Times(Const(2), Mem(2)), Times(Mem(1), Mem(3)), Times(Times(Mem(2), Mem(3)), Const(3)),
     Const(4), Times(Mem(2), Plus(Mem(3), Minus(Mem(4))))}
MCPairs == {Plus(s, t) : s, t \in MCTerms}
MCGrid ==
    Plus(Plus(Plus(Times(Mem(1), Mem(3)), Times(Const(2), Times(Mem(4), Mem(1)))),
              Times(Times(Mem(2), Mem(3)), Const(2))), Times(Mem(2), Mem(4)))
MCPower ==
    LET base == Plus(Mem(1), Const(1))
    IN  Times(Times(base, Plus(Const(1), Mem(1))), Times(base, Times(base, base)))
MCGateExprs ==
    {Mem(1), Const(3)} \cup MCPairs \cup {Plus(s, t) : s \in MCPairs, t \in {Mem(1), Const(4), Times(Mem(1), Mem(3))}}
    \cup {Times(Mem(1), s) : s \in MCPairs} \cup {Plus(MCGrid, t) : t \in MCTerms}
    \cup {MCGrid, Minus(MCGrid), Times(Mem(4), MCGrid), MCPower, Plus(MCPower, Token(8)),
           Times(Wide(9), Minus(Token(8)))}
MCArgumentExpr == Mem(3)
MCMemories ==
    {(1 :> 1) @@ (2 :> 2) @@ (3 :> 3) @@ (4 :> 4) @@ (8 :> 3) @@ (9 :> 2),
     (1 :> 4) @@ (2 :> 3) @@ (3 :> 1) @@ (4 :> 2) @@ (8 :> 2) @@ (9 :> 1)}

MCEdScalars == {<<>>, <<1, 0, 1>>, <<0, 1, 1>>}

\* Contracts: one advice phase and two, the second with and without a challenge
\* before it; with and without lookups, trash and permutation; sets of points
\* that are folded by a loop, that hold identities only, and that exceed their
\* window; few instances, as many as reach behind the Lagrange slots, and as
\* many as overwrite the address of the evaluations.
MCShape(phases, arguments, instances, selectors, opened, terms, external, trace) ==
    [advices |-> phases[1], squeezes |-> phases[2], chunks |-> arguments[1],
     permutations |-> arguments[2], trashcans |-> arguments[3], quotients |-> 3,
     evals |-> opened[1], instances |-> instances, negLagranges |-> 6, selectors |-> selectors,
     sets |-> opened[2], rotations |-> opened[3], vk |-> 40, vmState |-> 2, vmStack |-> 9,
     accumulatorTerms |-> terms, external |-> external, trace |-> trace]
MCPointSet(count, openings, infinities, linearized) ==
    [points |-> count, commitments |-> openings, identities |-> infinities,
     linearization |-> linearized]
MCOpened ==
    {<<5, <<MCPointSet(1, 3, 1, TRUE)>>, 1>>,
     <<90, <<MCPointSet(1, 30, 0, TRUE), MCPointSet(2, 5, 0, FALSE), MCPointSet(1, 1, 1, FALSE)>>,
       3>>,
     <<90, <<MCPointSet(1, 66, 0, TRUE), MCPointSet(3, 2, 0, FALSE)>>, 3>>}
MCContractShapes ==
    {MCShape(phases, arguments, instances, selectors, opened, terms, external, trace) :
        phases \in {<<<<2>>, <<0>>>>, <<<<70, 2>>, <<1, 2>>>>, <<<<1, 30>>, <<0, 1>>>>},
        arguments \in {<<<<>>, 0, 0>>, <<<<2, 1>>, 2, 1>>},
        instances \in {3, 100, 180}, selectors \in {0, 3}, opened \in MCOpened,
        terms \in {0, 60}, external \in BOOLEAN, trace \in BOOLEAN}

\* Emulated fields of 13 and 7 elements: one auxiliary modulus for both gates,
\* for normalisation only, two for multiplication; the last two are refused,
\* without a modulus that is needed and with a native field that is too small.
MCEmulation(native, m, moduli, bound) ==
    [native |-> native, m |-> m, log2_base |-> 2, limbs |-> 2, moduli |-> moduli,
     max_limb_bound |-> bound]
MCFfParams ==
    <<MCEmulation(181, 13, <<4>>, 16), MCEmulation(263, 13, <<4>>, 64),
      MCEmulation(97, 7, <<2, 3>>, 8), MCEmulation(127, 13, <<>>, 16),
      MCEmulation(53, 13, <<4>>, 16)>>
MCFfLoads == {<<3, 1>>, <<0, 3>>}

-----------------------------------------------------------------------------
NoField == ffChip = 1 /\ ffConfig = <<>> /\ ffs = <<>> /\ ffWants = <<>> /\ ffCall = NoFieldCall
NoContract ==
    shape = <<>> /\ planned = "no" /\ layout = <<>> /\ executed = 0 /\ intact = {}
    /\ misread = {}
NoLookup == columns = <<>> /\ multiplicities = <<>> /\ accumulator = <<>> /\ lookupPhase = "idle"

ComponentsInit ==
    /\ part \in {"multi-open", "lookup", "instructions", "native", "regex", "scanner", "vector",
                 "map", "sponge", "ivc", "biguint", "quotient", "contract", "ecc", "edwards",
                 "foreign-field"}
    /\ IF part = "lookup" THEN LookupInit ELSE NoLookup
    /\ IF part = "foreign-field" THEN FieldInit ELSE NoField
    /\ IF part = "contract" THEN ContractInit ELSE NoContract
    /\ Init /\ CallInit /\ GadgetInit /\ RegexInit /\ ScanIdle /\ VectorInit /\ MapInit
    /\ SpongeInit /\ IvcInit /\ BigInit /\ VmInit /\ EccInit /\ EdInit
    /\ part # "multi-open" => enabled
    /\ part # "regex" => regex = AnyWord
    /\ part # "sponge" => \A side \in Sides : sponges[side] = NewSponge({})

MultiOpenStep ==
    /\ part = "multi-open" /\ Next
    /\ UNCHANGED <<part, lookupVars, call, gadgetVars, regexVars, scanVars, vecVars, mapVars,
                   spongeVars, ivcVars, bigVars, vmVars, contractVars, eccVars, edPoints, ffVars>>
LookupStep ==
    /\ part = "lookup" /\ LookupNext
    /\ UNCHANGED <<part, vars, call, gadgetVars, regexVars, scanVars, vecVars, mapVars, spongeVars,
                   ivcVars, bigVars, vmVars, contractVars, eccVars, edPoints, ffVars>>
InstructionStep ==
    /\ part = "instructions" /\ CallNext
    /\ UNCHANGED <<part, vars, lookupVars, gadgetVars, regexVars, scanVars, vecVars, mapVars,
                   spongeVars, ivcVars, bigVars, vmVars, contractVars, eccVars, edPoints, ffVars>>
NativeStep ==
    /\ part = "native" /\ GadgetNext
    /\ UNCHANGED <<part, vars, lookupVars, call, regexVars, scanVars, vecVars, mapVars, spongeVars,
                   ivcVars, bigVars, vmVars, contractVars, eccVars, edPoints, ffVars>>
RegexStep ==
    /\ part = "regex" /\ RegexNext
    /\ UNCHANGED <<part, vars, lookupVars, call, gadgetVars, scanVars, vecVars, mapVars,
                   spongeVars, ivcVars, bigVars, vmVars, contractVars, eccVars, edPoints, ffVars>>
ScannerStep ==
    /\ part = "scanner" /\ ScanNext
    /\ UNCHANGED <<part, vars, lookupVars, call, gadgetVars, regexVars, vecVars, mapVars,
                   spongeVars, ivcVars, bigVars, vmVars, contractVars, eccVars, edPoints, ffVars>>
VectorStep ==
    /\ part = "vector" /\ VectorNext
    /\ UNCHANGED <<part, vars, lookupVars, call, gadgetVars, regexVars, scanVars, mapVars,
                   spongeVars, ivcVars, bigVars, vmVars, contractVars, eccVars, edPoints, ffVars>>
MapStep ==
    /\ part = "map" /\ MapNext
    /\ UNCHANGED <<part, vars, lookupVars, call, gadgetVars, regexVars, scanVars, vecVars,
                   spongeVars, ivcVars, bigVars, vmVars, contractVars, eccVars, edPoints, ffVars>>
SpongeStep ==
    /\ part = "sponge" /\ SpongeNext
    /\ UNCHANGED <<part, vars, lookupVars, call, gadgetVars, regexVars, scanVars, vecVars, mapVars,
                   ivcVars, bigVars, vmVars, contractVars, eccVars, edPoints, ffVars>>
IvcStep ==
    /\ part = "ivc" /\ IvcNext
    /\ UNCHANGED <<part, vars, lookupVars, call, gadgetVars, regexVars, scanVars, vecVars, mapVars,
                   spongeVars, bigVars, vmVars, contractVars, eccVars, edPoints, ffVars>>
BigUintStep ==
    /\ part = "biguint" /\ BigNext
    /\ UNCHANGED <<part, vars, lookupVars, call, gadgetVars, regexVars, scanVars, vecVars, mapVars,
                   spongeVars, ivcVars, vmVars, contractVars, eccVars, edPoints, ffVars>>
QuotientStep ==
    /\ part = "quotient" /\ VmNext
    /\ UNCHANGED <<part, vars, lookupVars, call, gadgetVars, regexVars, scanVars, vecVars, mapVars,
                   spongeVars, ivcVars, bigVars, contractVars, eccVars, edPoints, ffVars>>
ContractStep ==
    /\ part = "contract" /\ ContractNext
    /\ UNCHANGED <<part, vars, lookupVars, call, gadgetVars, regexVars, scanVars, vecVars, mapVars,
                   spongeVars, ivcVars, bigVars, vmVars, eccVars, edPoints, ffVars>>
ForeignEccStep ==
    /\ part = "ecc" /\ EccNext
    /\ UNCHANGED <<part, vars, lookupVars, call, gadgetVars, regexVars, scanVars, vecVars, mapVars,
                   spongeVars, ivcVars, bigVars, vmVars, contractVars, edPoints, ffVars>>
EdwardsStep ==
    /\ part = "edwards" /\ EdNext
    /\ UNCHANGED <<part, vars, lookupVars, call, gadgetVars, regexVars, scanVars, vecVars, mapVars,
                   spongeVars, ivcVars, bigVars, vmVars, contractVars, eccVars, ffVars>>
FieldStep ==
    /\ part = "foreign-field" /\ FieldNext
    /\ UNCHANGED <<part, vars, lookupVars, call, gadgetVars, regexVars, scanVars, vecVars, mapVars,
                   spongeVars, ivcVars, bigVars, vmVars, contractVars, eccVars, edPoints>>

ComponentsNext ==
    \/ MultiOpenStep \/ LookupStep \/ InstructionStep \/ NativeStep \/ RegexStep
    \/ ScannerStep \/ VectorStep \/ MapStep \/ SpongeStep \/ IvcStep
    \/ BigUintStep \/ QuotientStep \/ ContractStep \/ ForeignEccStep \/ EdwardsStep
    \/ FieldStep

ComponentsSpec == ComponentsInit /\ [][ComponentsNext]_componentVars
=============================================================================
