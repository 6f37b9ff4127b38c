------------------------------ MODULE Automata ------------------------------
(***************************************************************************)
(* Finite automata over marked letters                                     *)
(* (circuits/src/parsing/scanner/automaton.rs).  A letter is               *)
(* <<char, marker>>.  States are numbered from 1; the table of transitions *)
(* has one list of <<letter, target>> per state, in which the same pair    *)
(* may occur twice.  Hash-ordered renamings keep the states in order.      *)
(***************************************************************************)
EXTENDS Integers, Sequences, FiniteSets, SequencesExt

\* The members of a set in some order.
RECURSIVE ListOf(_)
ListOf(S) ==
    IF S = {} THEN <<>> ELSE LET x == CHOOSE y \in S : TRUE IN <<x>> \o ListOf(S \ {x})

Raw(deterministic, complete, initial, final, trans, markers) ==
    [deterministic |-> deterministic, complete |-> complete, initial |-> initial,
     final |-> final, trans |-> trans, markers |-> markers, broken |-> FALSE]

Empty == Raw(TRUE, FALSE, 1, {}, <<<<>>>>, {})
Epsilon == Raw(TRUE, FALSE, 1, {1}, <<<<>>>>, {})

\* The code went on to an index that is not in a table, or a failed unwrap.
Broken == [Empty EXCEPT !.broken = TRUE]

Chars(alphabet) == 0 .. alphabet - 1

\* One letter of each range in turn; letters beyond the alphabet are dropped.
ByteConcat(word, alphabet) ==
    LET kept(i) == {l \in word[i] : l[1] \in Chars(alphabet)}
        edges(i) == LET ls == ListOf(kept(i)) IN [j \in DOMAIN ls |-> <<ls[j], i + 1>>]
    IN Raw(TRUE, FALSE, 1, {Len(word) + 1},
           Append([i \in DOMAIN word |-> edges(i)], <<>>),
           UNION {{l[2] : l \in kept(i)} : i \in DOMAIN word})

\* Its set of markers is empty although its letters are marked 0.
Universal(alphabet) ==
    Raw(TRUE, TRUE, 1, {1}, <<[i \in 1 .. alphabet |-> <<<<i - 1, 0>>, 1>>]>>, {})

-----------------------------------------------------------------------------
(* Graph analysis                                                          *)

States(A) == DOMAIN A.trans
Edges(A, s) == ToSet(A.trans[s])
Targets(A, S) == UNION {{e[2] : e \in Edges(A, s)} : s \in S}
Sources(A, S) == {s \in States(A) : Targets(A, {s}) \cap S # {}}

RECURSIVE Reach(_, _), CoReach(_, _)
Reach(A, S) == LET T == S \cup Targets(A, S) IN IF T = S THEN S ELSE Reach(A, T)
CoReach(A, S) == LET T == S \cup Sources(A, S) IN IF T = S THEN S ELSE CoReach(A, T)

LiveStates(A) ==
    LET reachable == Reach(A, {A.initial})
    IN reachable \cap CoReach(A, A.final \cap reachable)

LoopOnInitial(A) == A.initial \in Targets(A, States(A))
NothingAfterFinal(A) == \A s \in A.final : A.trans[s] = <<>>

\* No letter twice in a list: a repeated pair counts as nondeterminism too.
Deterministic(trans) ==
    \A s \in DOMAIN trans : \A i, j \in DOMAIN trans[s] :
        trans[s][i][1] = trans[s][j][1] => i = j

CheckDeterminism(A) == [A EXCEPT !.deterministic = @ \/ Deterministic(A.trans)]

-----------------------------------------------------------------------------
(* Renaming                                                                *)

\* Keeps the states of a set, in their order.
Rank(keep, s) == Cardinality({t \in keep : t <= s})

FilterMapTransitions(trans, keep) ==
    LET olds == [i \in 1 .. Cardinality(keep) |-> CHOOSE s \in keep : Rank(keep, s) = i]
        kept(s) == SelectSeq(trans[s], LAMBDA e : e[2] \in keep)
    IN [i \in DOMAIN olds |-> [j \in DOMAIN kept(olds[i]) |->
            <<kept(olds[i])[j][1], Rank(keep, kept(olds[i])[j][2])>>]]

MarkersOf(trans) == UNION {{e[1][2] : e \in ToSet(trans[s])} : s \in DOMAIN trans}

Keep(A, keep, complete) ==
    LET trans == FilterMapTransitions(A.trans, keep)
    IN Raw(A.deterministic, complete, Rank(keep, A.initial),
           {Rank(keep, s) : s \in A.final \cap keep}, trans, MarkersOf(trans))

KeepLive(A, live) == IF live = {} THEN Empty ELSE Keep(A, live, FALSE)
RemoveDeadStates(A) == KeepLive(A, LiveStates(A))

\* Every target moved up by n states.
Shift(trans, n) ==
    [s \in DOMAIN trans |-> [i \in DOMAIN trans[s] |->
        <<trans[s][i][1], trans[s][i][2] + n>>]]

\* Bug: the initial state becomes final even if words come back to it.
MakeOptionalInPlace(A) == [A EXCEPT !.final = @ \cup {A.initial}]

MakeOptional(A) ==
    IF A.broken \/ A.initial \in A.final THEN A
    ELSE IF LoopOnInitial(A)
    THEN LET fresh == Len(A.trans) + 1
         IN [A EXCEPT !.initial = fresh, !.final = @ \cup {fresh},
                      !.trans = Append(@, A.trans[A.initial])]
    ELSE [A EXCEPT !.final = @ \cup {A.initial}]

-----------------------------------------------------------------------------
(* Determinisation                                                         *)

Letters(alphabet, markers) == Chars(alphabet) \X markers

\* The unwrap in Letter::encode succeeds on every letter.
Encodable(A) == MarkersOf(A.trans) \subseteq A.markers

Step(A, P, l) == UNION {{e[2] : e \in {d \in Edges(A, s) : d[1] = l}} : s \in P}

\* Completion adds a successor for every letter with a marker in use, so that
\* what is missing goes to the empty set of states.
OutLetters(A, P, completion, alphabet) ==
    UNION {{e[1] : e \in Edges(A, s)} : s \in P}
    \cup (IF completion THEN Letters(alphabet, A.markers) ELSE {})

RECURSIVE PowerStates(_, _, _, _)
PowerStates(A, seen, completion, alphabet) ==
    LET next == seen \cup UNION {{Step(A, P, l) : l \in OutLetters(A, P, completion, alphabet)}
                                    : P \in seen}
    IN IF next = seen THEN seen ELSE PowerStates(A, next, completion, alphabet)

IndexIn(order, x) == CHOOSE i \in DOMAIN order : order[i] = x
PowerEdges(A, order, P, ls) ==
    [i \in DOMAIN ls |-> <<ls[i], IndexIn(order, Step(A, P, ls[i]))>>]

PowersetOn(A, order, completion, alphabet) ==
    Raw(TRUE, A.complete \/ completion, 1,
        {i \in DOMAIN order : order[i] \cap A.final # {}},
        [i \in DOMAIN order |->
            PowerEdges(A, order, order[i],
                       ListOf(OutLetters(A, order[i], completion, alphabet)))],
        A.markers)

PowersetConstruction(A, initials, completion, alphabet) ==
    IF A.broken \/ ~Encodable(A) THEN Broken
    ELSE PowersetOn(A, <<initials>> \o
                       ListOf(PowerStates(A, {initials}, completion, alphabet) \ {initials}),
                    completion, alphabet)

Determinise(A, completion, alphabet) ==
    IF A.deterministic /\ (completion => A.complete) THEN A
    ELSE PowersetConstruction(A, {A.initial}, completion, alphabet)

-----------------------------------------------------------------------------
(* Combination                                                             *)

AnyBroken(As) == \E i \in DOMAIN As : As[i].broken

\* The automata side by side behind the state of the empty automaton, then
\* determinised from all their initial states.
PutBeside(acc, A) ==
    LET n == Len(acc.all.trans)
    IN [all   |-> [acc.all EXCEPT !.trans = @ \o Shift(A.trans, n),
                                  !.final = @ \cup {s + n : s \in A.final},
                                  !.markers = @ \cup MarkersOf(A.trans)],
        start |-> acc.start \cup {A.initial + n}]

Together(side, alphabet) == PowersetConstruction(side.all, side.start, FALSE, alphabet)

UnionOf(As, alphabet) ==
    IF Len(As) = 1 THEN As[1]
    ELSE IF AnyBroken(As) THEN Broken
    ELSE Together(FoldLeft(PutBeside, [all |-> Empty, start |-> {}], As), alphabet)

\* One automaton put in front of what is concatenated so far.  If nothing
\* leaves its final states they are merged into the initial state behind them;
\* otherwise they get a copy of its transitions, and it goes unless something
\* comes back to it.
ConcatStep(acc, A) ==
    LET n == Len(acc.trans)
        shifted == Shift(A.trans, n)
        ends == {s + n : s \in A.final}
        redirected == [s \in DOMAIN shifted |-> [i \in DOMAIN shifted[s] |->
                         IF shifted[s][i][2] \in ends THEN <<shifted[s][i][1], acc.initial>>
                         ELSE shifted[s][i]]]
        outgoing == acc.trans[acc.initial]
        grown == [s \in DOMAIN shifted |->
                    IF s \in A.final THEN shifted[s] \o outgoing ELSE shifted[s]]
        entered == {t \in Targets(A, States(A)) : t \in A.final}
    IN [initial |-> A.initial + n, loop |-> LoopOnInitial(A)] @@
       (IF NothingAfterFinal(A)
        THEN [trans   |-> acc.trans \o redirected,
              final   |-> acc.final,
              garbage |-> acc.garbage \cup {t + n : t \in entered}]
        ELSE [trans   |-> acc.trans \o grown,
              final   |-> acc.final \cup (IF acc.initial \in acc.final THEN ends ELSE {}),
              garbage |-> acc.garbage \cup (IF acc.loop THEN {} ELSE {acc.initial})])

Collected(all, complete) ==
    IF all.initial \in all.garbage THEN Broken
    ELSE CheckDeterminism(Keep(Raw(FALSE, FALSE, all.initial, all.final, all.trans, {}),
                               DOMAIN all.trans \ all.garbage, complete))

ConcatOf(As) ==
    IF AnyBroken(As) THEN Broken
    ELSE Collected(FoldLeft(ConcatStep,
                            [trans |-> Epsilon.trans, final |-> {1}, garbage |-> {},
                             loop |-> FALSE, initial |-> 1], Reverse(As)),
                   \A i \in DOMAIN As : As[i].complete)

\* Letters that meet in a product: the same character, and the same marker
\* unless one of them is 0.
Joins(l, k) == l[1] = k[1] /\ (l[2] = k[2] \/ l[2] = 0 \/ k[2] = 0)
Join(l, k) == <<l[1], IF l[2] > k[2] THEN l[2] ELSE k[2]>>

RECURSIVE PairsFrom(_, _, _)
PairsFrom(A, B, seen) ==
    LET next == seen \cup
          UNION {{<<e[2], d[2]>> : <<e, d>> \in
                    {x \in Edges(A, p[1]) \X Edges(B, p[2]) : Joins(x[1][1], x[2][1])}} : p \in seen}
    IN IF next = seen THEN seen ELSE PairsFrom(A, B, next)

\* A product of deterministic automata stays deterministic, and of complete ones
\* complete, unless two letters with different markers were joined.
MixedAt(A, B, p) ==
    \E e \in Edges(A, p[1]), d \in Edges(B, p[2]) : Joins(e[1], d[1]) /\ e[1][2] # d[1][2]
EdgesWith(order, e, ds) ==
    [j \in DOMAIN ds |-> <<Join(e[1], ds[j][1]), IndexIn(order, <<e[2], ds[j][2]>>)>>]
Joined(order, es, fs) ==
    FlattenSeq([i \in DOMAIN es |->
        EdgesWith(order, es[i], SelectSeq(fs, LAMBDA d : Joins(es[i][1], d[1])))])

ProductWith(A, B, order, plain, trans) ==
    Raw(A.deterministic /\ B.deterministic /\ plain, A.complete /\ B.complete /\ plain, 1,
        {i \in DOMAIN order : order[i][1] \in A.final /\ order[i][2] \in B.final},
        trans, MarkersOf(trans))

ProductOn(A, B, order) ==
    ProductWith(A, B, order, \A i \in DOMAIN order : ~MixedAt(A, B, order[i]),
                [i \in DOMAIN order |->
                    Joined(order, A.trans[order[i][1]], B.trans[order[i][2]])])

ProductFrom(A, B, start) ==
    ProductOn(A, B, <<start>> \o ListOf(PairsFrom(A, B, {start}) \ {start}))

InterOf(A, B) ==
    IF A.broken \/ B.broken THEN Broken
    ELSE CheckDeterminism(RemoveDeadStates(ProductFrom(A, B, <<A.initial, B.initial>>)))

-----------------------------------------------------------------------------
(* Complement and iteration                                                *)

\* Asserts that its argument is deterministic and complete.
ComplementOf(A) ==
    IF A.broken \/ ~(A.deterministic /\ A.complete) THEN Broken
    ELSE RemoveDeadStates([A EXCEPT !.final = States(A) \ A.final])

StrictRepeat(A) ==
    IF A.broken THEN Broken
    ELSE CheckDeterminism([A EXCEPT
            !.deterministic = FALSE,
            !.trans = [s \in DOMAIN @ |->
                IF s \in A.final THEN ListOf(Edges(A, s) \cup Edges(A, A.initial))
                ELSE @[s]]])

\* The new table has a row for every state that is not final, which leaves out
\* the initial state if it is final itself.
RedirectFinalToInitial(A) ==
    LET redirected == [s \in DOMAIN A.trans |-> [i \in DOMAIN A.trans[s] |->
                         IF A.trans[s][i][2] \in A.final THEN <<A.trans[s][i][1], A.initial>>
                         ELSE A.trans[s][i]]]
        keep == (States(A) \ A.final) \cup {A.initial}
    IN IF A.initial \in A.final THEN Broken
       ELSE [Keep([A EXCEPT !.trans = redirected], keep, A.complete)
                EXCEPT !.final = {Rank(keep, A.initial)}]

WeakRepeat(A) ==
    IF A.broken THEN Broken
    ELSE IF NothingAfterFinal(A) /\ (~LoopOnInitial(A) \/ A.initial \in A.final)
    THEN RedirectFinalToInitial(A)
    ELSE MakeOptional(StrictRepeat(A))

-----------------------------------------------------------------------------
(* Minimisation                                                            *)

\* Splits every class by a set of predecessors.  Both halves of a class that
\* was a distinguisher replace it; of another class the smaller half becomes one.
RefineBy(partition, distinguishers, pred) ==
    LET split == {c \in partition : c \cap pred # {} /\ c \ pred # {}}
        smaller(c) == IF Cardinality(c \cap pred) <= Cardinality(c \ pred)
                      THEN c \cap pred ELSE c \ pred
        halves(S) == {c \cap pred : c \in S} \cup {c \ pred : c \in S}
    IN [partition      |-> (partition \ split) \cup halves(split),
        distinguishers |-> (distinguishers \ split) \cup halves(split \cap distinguishers)
                           \cup {smaller(c) : c \in split \ distinguishers}]

\* Hopcroft's refinement; the distinguisher taken next is any of them.
RECURSIVE NerodeCongruence(_, _, _, _)
NerodeCongruence(A, alphabet, partition, distinguishers) ==
    IF distinguishers = {} THEN partition
    ELSE LET dist == CHOOSE d \in distinguishers : TRUE
             pred(l) == {s \in States(A) : \E e \in Edges(A, s) : e[1] = l /\ e[2] \in dist}
             preds == {pred(l) : l \in Letters(alphabet, A.markers)}
             out == FoldSet(LAMBDA p, acc : RefineBy(acc.partition, acc.distinguishers, p),
                            [partition |-> partition,
                             distinguishers |-> distinguishers \ {dist}], preds)
         IN NerodeCongruence(A, alphabet, out.partition, out.distinguishers)

ClassOf(classes, s) == CHOOSE i \in DOMAIN classes : s \in classes[i]
MemberOf(class) == CHOOSE s \in class : TRUE

OnClasses(A, classes) ==
    [A EXCEPT !.initial = ClassOf(classes, A.initial),
              !.final = {i \in DOMAIN classes : MemberOf(classes[i]) \in A.final},
              !.trans = [i \in DOMAIN classes |->
                            [j \in DOMAIN @[MemberOf(classes[i])] |->
                                <<@[MemberOf(classes[i])][j][1],
                                  ClassOf(classes, @[MemberOf(classes[i])][j][2])>>]]]

Congruence(A, alphabet, coarse) == NerodeCongruence(A, alphabet, coarse, coarse)

Minimise(A, alphabet) ==
    IF A.broken \/ ~A.deterministic \/ ~Encodable(A) THEN Broken
    ELSE OnClasses(A, ListOf(Congruence(A, alphabet, {A.final, States(A) \ A.final} \ {{}})))

\* Both transitions of a character left in one state: the language is not
\* output-deterministic, and normalise panics with that message.
Ambiguous(A) ==
    \E s \in States(A) : \E i, j \in DOMAIN A.trans[s] :
        i # j /\ A.trans[s][i][1][1] = A.trans[s][j][1][1]

NormaliseWith(A, alphabet) == Minimise(Determinise(A, FALSE, alphabet), alphabet)

Normalise(A) ==
    NormaliseWith(A, Max({0} \cup UNION {{e[1][1] + 1 : e \in Edges(A, s)} : s \in States(A)}))

\* Automaton::run: the states' path through a word of characters, with the
\* markers it is given; <<FALSE>> if it gets stuck or ends in another state.
RunOn(A, word) ==
    LET step(acc, c) ==
          LET next == {e \in Edges(A, acc.state) : e[1][1] = c}
          IN IF acc.stuck \/ next = {} THEN [acc EXCEPT !.stuck = TRUE]
             ELSE LET e == CHOOSE d \in next : TRUE
                  IN [state |-> e[2], out |-> Append(acc.out, e[1]), stuck |-> FALSE]
    IN FoldLeft(step, [state |-> A.initial, out |-> <<>>, stuck |-> FALSE], word)
=============================================================================
