---------------------------- MODULE ScannerChip ----------------------------
(***************************************************************************)
(* Parsing with a fixed library of automata in a circuit                   *)
(* (circuits/src/parsing/scanner/mod.rs and automaton_chip.rs).            *)
(*                                                                         *)
(* All automata of the library share one lookup table of rows              *)
(* <<source, letter, target, output>>; configure moves the states of every *)
(* automaton apart and away from 0, which the rows of the fillers use.     *)
(* parse lays out one row of the run per letter, each looked up in the     *)
(* table, and a last one with the letter that is no byte.  The witness is  *)
(* the prover's: Transition takes any row of the table that fits.          *)
(***************************************************************************)
EXTENDS ScannerRegex

CONSTANTS
    Library,       \* the regular expressions of the library, a sequence
    MaxInput       \* bound on the letters that are parsed

VARIABLES
    natives,       \* the automata of the configuration, with their states moved
    table,         \* the rows of the lookup table
    automaton,     \* which automaton of the library parses
    state,         \* the cell of the state column at the current offset
    input,         \* the letters copied so far
    markers,       \* the outputs assigned so far
    scanning       \* "idle", "configured", "loaded", "parsing" or "final"

scanVars == <<natives, table, automaton, state, input, markers, scanning>>

ScanIdle ==
    /\ natives = <<>> /\ table = {} /\ automaton = 0 /\ state = 0
    /\ input = <<>> /\ markers = <<>> /\ scanning = "idle"

-----------------------------------------------------------------------------
(* Configuration                                                           *)

\* The code numbers states from 0, Automata from 1.
OffsetStates(A, offset) ==
    [initial |-> A.initial - 1 + offset,
     final   |-> {q - 1 + offset : q \in A.final},
     trans   |-> UNION {{<<q - 1 + offset, e[1], e[2] - 1 + offset>> : e \in Edges(A, q)}
                        : q \in States(A)}]

\* Bug: the states of the first automaton are not moved, so that it uses 0.
FromCollectionAtZero(automata) ==
    LET put(acc, A) == [all    |-> Append(acc.all, OffsetStates(A, acc.offset)),
                        offset |-> acc.offset + Len(A.trans)]
    IN FoldLeft(put, [all |-> <<>>, offset |-> 0], automata).all

\* The automata one after the other, from state 1.
FromCollection(automata) ==
    LET put(acc, A) == [all    |-> Append(acc.all, OffsetStates(A, acc.offset)),
                        offset |-> acc.offset + Len(A.trans)]
    IN FoldLeft(put, [all |-> <<>>, offset |-> 1], automata).all

Configure ==
    /\ scanning = "idle"
    /\ natives' = FromCollection([i \in DOMAIN Library |-> ToAutomaton(Library[i])])
    /\ scanning' = "configured"
    /\ UNCHANGED <<table, automaton, state, input, markers>>

\* The number that is no byte.
InvalidLetter == Alphabet

\* The filler of the empty rows, the transitions of every automaton, and a
\* dummy transition for every final state.
Load ==
    /\ scanning = "configured"
    /\ table' = {<<0, 0, 0, 0>>} \cup
          UNION {{<<t[1], t[2][1], t[3], t[2][2]>> : t \in natives[i].trans} \cup
                 {<<q, InvalidLetter, 0, 0>> : q \in natives[i].final} : i \in DOMAIN natives}
    /\ scanning' = "loaded"
    /\ UNCHANGED <<natives, automaton, state, input, markers>>

-----------------------------------------------------------------------------
(* Parsing                                                                 *)

Parse(i) ==
    /\ scanning = "loaded"
    /\ automaton' = i /\ state' = natives[i].initial
    /\ scanning' = "parsing"
    /\ UNCHANGED <<natives, table, input, markers>>

\* apply_one_transition: the letter is a byte, the next state and the output
\* are whatever the lookup lets the prover assign.
Transition(letter) ==
    /\ scanning = "parsing" /\ Len(input) < MaxInput
    /\ \E row \in table :
          /\ row[1] = state /\ row[2] = letter
          /\ state' = row[3] /\ markers' = Append(markers, row[4])
    /\ input' = Append(input, letter)
    /\ UNCHANGED <<natives, table, automaton, scanning>>

\* assert_final_state
AssertFinalState ==
    /\ scanning = "parsing"
    /\ <<state, InvalidLetter, 0, 0>> \in table
    /\ state' = 0 /\ scanning' = "final"
    /\ UNCHANGED <<natives, table, automaton, input, markers>>

ScanNext ==
    \/ Configure \/ Load
    \/ \E i \in DOMAIN Library : Parse(i)
    \/ \E letter \in Chars(Alphabet) : Transition(letter)
    \/ AssertFinalState

-----------------------------------------------------------------------------
Marking(letters, marks) == [k \in DOMAIN letters |-> <<letters[k], marks[k]>>]

\* Whatever rows of the shared table the prover puts together, what is parsed
\* to the end is a word of the expression that was asked for, with its markers:
\* neither the filler nor the rows of another automaton open a way in.
ParsedIsInLanguage ==
    scanning = "final" => Marking(input, markers) \in Language(Library[automaton])

\* A word of the expression can be parsed to the end: the row of every letter
\* is in the table and found by the honest prover under the automaton it names,
\* and its last state has the dummy transition.
LanguageIsParsed ==
    scanning = "parsing" =>
        LET done == Marking(input, markers)
        IN \A w \in Language(Library[automaton]) :
              IsPrefix(done, w) =>
                 IF w = done THEN <<state, InvalidLetter, 0, 0>> \in table
                 ELSE LET next == w[Len(done) + 1]
                      IN \E t \in natives[automaton].trans :
                            /\ t[1] = state /\ t[2] = next
                            /\ <<t[1], next[1], t[3], next[2]>> \in table

\* Exactly the words of an expression are parsed under its index.
ScannerExact == ParsedIsInLanguage /\ LanguageIsParsed
=============================================================================
