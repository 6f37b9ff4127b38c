---------------------------- MODULE ScannerRegex ----------------------------
(***************************************************************************)
(* Regular expressions and their automata                                  *)
(* (circuits/src/parsing/scanner/regex.rs).  An expression is built call   *)
(* by call; in every state it is translated and compared with the language *)
(* it denotes, on all words up to a length.                                *)
(***************************************************************************)
EXTENDS Automata

CONSTANTS
    Alphabet,      \* number of characters
    RegexLeaves,   \* the expressions a call starts from
    MaxCalls,      \* bound on the calls that build the expression
    MaxWord        \* length of the words that are compared

VARIABLES regex, calls

regexVars == <<regex, calls>>

Single(letters) == [op |-> "single", letters |-> letters]
Concat(args) == [op |-> "concat", args |-> args]
Union(args) == [op |-> "union", args |-> args]
Inter(args) == [op |-> "inter", args |-> args]
Star(strict, arg) == [op |-> "star", strict |-> strict, arg |-> arg]
Complement(arg) == [op |-> "complement", arg |-> arg]

EpsilonRegex == Concat(<<>>)
ByteFrom(chars) == Single(chars \X {0})
AnyWord == Inter(<<>>)
Cat(r, q) == Concat(<<r, q>>)
Or(r, q) == Union(<<r, q>>)
And(r, q) == Inter(<<r, q>>)
NonEmptyList(r) == Star(TRUE, r)
List(r) == Or(NonEmptyList(r), EpsilonRegex)

RECURSIVE ContainsMarkers(_)
ContainsMarkers(r) ==
    CASE r.op = "single" -> \E l \in r.letters : l[2] # 0
      [] r.op \in {"star", "complement"} -> ContainsMarkers(r.arg)
      [] OTHER -> \E i \in DOMAIN r.args : ContainsMarkers(r.args[i])

-----------------------------------------------------------------------------
(* Translation                                                             *)

\* The members of nested unions, with the concatenations of nothing left in.
RECURSIVE FlatUnion(_)
FlatUnion(args) ==
    FlattenSeq([i \in DOMAIN args |->
        IF args[i].op = "union" THEN FlatUnion(args[i].args) ELSE <<args[i]>>])

RECURSIVE FlatConcat(_)
FlatConcat(args) ==
    FlattenSeq([i \in DOMAIN args |->
        IF args[i].op = "concat" THEN FlatConcat(args[i].args) ELSE <<args[i]>>])

\* An iteration in a union with the empty word need not be strict; it then
\* accounts for the empty word.
WithEpsilon(members) ==
    [i \in DOMAIN members |->
        IF members[i].op = "star" THEN Star(FALSE, members[i].arg) ELSE members[i]]

\* Members of a union: all single letters as one range, after the others.
AsRange(letters) == IF letters = {} THEN <<>> ELSE <<Single(letters)>>

UnionOperands(flat) ==
    Reverse(SelectSeq(flat, LAMBDA r : r.op # "single" /\ r # EpsilonRegex))
    \o AsRange(UNION {flat[i].letters : i \in {j \in DOMAIN flat : flat[j].op = "single"}})

Absorbing(all, epsilon) ==
    [members  |-> IF epsilon THEN WithEpsilon(all) ELSE all,
     epsilon  |-> epsilon /\ \A i \in DOMAIN all : all[i].op # "star"]

FlatMembers(flat) == Absorbing(UnionOperands(flat), EpsilonRegex \in ToSet(flat))

UnionMembers(args) == FlatMembers(FlatUnion(args))

\* Runs of adjacent ranges in a concatenation become one automaton.
RECURSIVE Groups(_, _)
Groups(flat, singles) ==
    LET done == IF singles = <<>> THEN <<>> ELSE <<[op |-> "word", ranges |-> singles]>>
    IN IF flat = <<>> THEN done
       ELSE IF Head(flat).op = "single"
       THEN Groups(Tail(flat), Append(singles, Head(flat).letters))
       ELSE done \o <<Head(flat)>> \o Groups(Tail(flat), <<>>)

WithOptional(raws) ==
    IF raws = <<>> THEN <<Epsilon>> ELSE Append(Front(raws), MakeOptional(Last(raws)))

RECURSIVE ToRawAutomaton(_), RawAutomata(_), RawUnion(_)
RawAutomata(args) == [i \in DOMAIN args |-> ToRawAutomaton(args[i])]

RawUnion(u) ==
    UnionOf(IF u.epsilon THEN WithOptional(RawAutomata(u.members)) ELSE RawAutomata(u.members),
            Alphabet)

ToRawAutomaton(r) ==
    CASE r.op = "word" -> ByteConcat(r.ranges, Alphabet)
      [] r.op = "single" -> ByteConcat(<<r.letters>>, Alphabet)
      [] r.op = "concat" -> ConcatOf(RawAutomata(Groups(FlatConcat(r.args), <<>>)))
      [] r.op = "union" -> RawUnion(UnionMembers(r.args))
      [] r.op = "inter" -> FoldLeft(InterOf, Universal(Alphabet), RawAutomata(r.args))
      [] r.op = "star" ->
            IF r.strict THEN StrictRepeat(ToRawAutomaton(r.arg))
            ELSE WeakRepeat(ToRawAutomaton(r.arg))
      [] r.op = "complement" ->
            IF r.arg.op = "complement" THEN ToRawAutomaton(r.arg.arg)
            ELSE ComplementOf(Determinise(ToRawAutomaton(r.arg), TRUE, Alphabet))

ToAutomaton(r) == Normalise(ToRawAutomaton(r))

-----------------------------------------------------------------------------
(* The language an expression denotes: words of marked letters             *)

WordsTo(n) == UNION {[1 .. k -> Chars(Alphabet)] : k \in 0 .. n}
Unmarked(w) == [i \in DOMAIN w |-> <<w[i], 0>>]
CharsOf(w) == [i \in DOMAIN w |-> w[i][1]]
Short(S) == {w \in S : Len(w) <= MaxWord}
Product(S, T) == Short({u \o v : u \in S, v \in T})

RECURSIVE Iterate(_, _)
Iterate(S, T) == LET U == T \cup Product(S, T) IN IF U = T THEN T ELSE Iterate(S, U)

Merged(u, v) == [i \in DOMAIN u |-> Join(u[i], v[i])]
Mergeable(u, v) == Len(u) = Len(v) /\ \A i \in DOMAIN u : Joins(u[i], v[i])

RECURSIVE Language(_)
Language(r) ==
    CASE r.op = "single" -> {<<l>> : l \in {k \in r.letters : k[1] \in Chars(Alphabet)}}
      [] r.op = "concat" ->
            FoldLeft(LAMBDA S, q : Product(S, Language(q)), {<<>>}, r.args)
      [] r.op = "union" -> UNION {Language(r.args[i]) : i \in DOMAIN r.args}
      [] r.op = "inter" ->
            FoldLeft(LAMBDA S, q : {Merged(p[1], p[2]) : p \in
                                       {x \in S \X Language(q) : Mergeable(x[1], x[2])}},
                     {Unmarked(w) : w \in WordsTo(MaxWord)}, r.args)
      [] r.op = "star" ->
            LET L == Language(r.arg)
            IN Iterate(L, IF r.strict THEN L ELSE L \cup {<<>>})
      [] r.op = "complement" -> {Unmarked(w) : w \in WordsTo(MaxWord)} \ Language(r.arg)

-----------------------------------------------------------------------------
(* Calls                                                                   *)

RegexInit == regex \in RegexLeaves /\ calls = 0

Becomes(r) == calls < MaxCalls /\ regex' = r /\ calls' = calls + 1

\* neg asserts that its argument has no markers.
Neg == ~ContainsMarkers(regex) /\ Becomes(Complement(regex))

RegexNext ==
    \/ Neg \/ Becomes(NonEmptyList(regex)) \/ Becomes(List(regex))
    \/ \E q \in RegexLeaves :
          \/ Becomes(Cat(regex, q)) \/ Becomes(Cat(q, regex))
          \/ Becomes(Or(regex, q)) \/ Becomes(And(regex, q))

RegexSpec == RegexInit /\ [][RegexNext]_regexVars

-----------------------------------------------------------------------------
(* Properties                                                              *)

\* A sub-expression the translation does not support: one that is iterated,
\* concatenated or complemented although it has no word but the empty one, and
\* the expression of all words itself, with its empty set of markers.
Trivial(r) == Language(r) \subseteq {<<>>}

RECURSIVE Unsupported(_)
Unsupported(r) ==
    CASE r.op = "single" -> FALSE
      [] r.op = "star" -> Trivial(r.arg) \/ r.arg = AnyWord \/ Unsupported(r.arg)
      [] r.op = "complement" -> Trivial(r.arg) \/ r.arg = AnyWord \/ Unsupported(r.arg)
      [] r.op = "concat" ->
            \E i \in DOMAIN r.args : \/ Trivial(r.args[i]) /\ r.args[i] # EpsilonRegex
                                     \/ Unsupported(r.args[i])
      [] r.op = "union" ->
            \E i \in DOMAIN r.args : r.args[i] = AnyWord \/ Unsupported(r.args[i])
      [] OTHER -> \E i \in DOMAIN r.args : Unsupported(r.args[i])

Supported == regex # AnyWord /\ ~Unsupported(regex)

\* The automaton of an expression accepts the words of its language and gives
\* every one its marking, whatever unions, iterations, products and complements
\* it is built from, and however flags, dead states and merged states were
\* carried along.
Accepts(A, L) ==
    /\ ~A.broken
    /\ ~Ambiguous(A) =>
          \A w \in WordsTo(MaxWord) : \A run \in {RunOn(A, w)} :
             {v \in L : CharsOf(v) = w}
                = IF ~run.stuck /\ run.state \in A.final THEN {run.out} ELSE {}

LanguageExact == Supported => Accepts(ToAutomaton(regex), Language(regex))

\* An expression with two words that mark a character differently after the
\* same marked prefix is refused as not output-deterministic, so that no
\* automaton is built that would have to choose between them.
PartAt(k, u, v) ==
    /\ k <= Len(u) /\ k <= Len(v) /\ SubSeq(u, 1, k - 1) = SubSeq(v, 1, k - 1)
    /\ u[k][1] = v[k][1] /\ u[k][2] # v[k][2]
MarkedTwice(L) == \E u, v \in L : \E k \in 1 .. MaxWord : PartAt(k, u, v)

AmbiguityRefused ==
    Supported /\ MarkedTwice(Language(regex)) => Ambiguous(ToAutomaton(regex))

\* The states of a translated expression are all on a path to acceptance, as
\* to_raw_automaton promises, so that a missing transition rejects the word.
AllLive(A) == LiveStates(A) = States(A)
NoDeadStates == Supported /\ ~Trivial(regex) => AllLive(ToRawAutomaton(regex))

\* The automaton stands for its expression.
RegexExact == LanguageExact /\ AmbiguityRefused /\ NoDeadStates
=============================================================================
