--------------------------- MODULE ScannerLibrary ---------------------------
(***************************************************************************)
(* Regular expressions of the library (circuits/src/parsing/scanner/       *)
(* regex.rs): UTF-8 code points and JSON strings.  A character stands for  *)
(* a class of bytes that none of the expressions tells apart; a text is    *)
(* given byte by byte and compared with the grammar json_string documents. *)
(***************************************************************************)
EXTENDS ScannerRegex

CONSTANT MaxText     \* bound on the bytes of a text

VARIABLES
    accepts,         \* the automaton of json_string
    text             \* the bytes so far

\* The classes: control characters, the quote, the backslash, the letters of
\* simple escapes that are no hexadecimal digits and those that are, u, other
\* hexadecimal digits, the rest of ASCII; continuation bytes 80-8F, 90-9F and
\* A0-BF; lead bytes C2-DF, E0, E1-EC and EE-EF, ED, F0, F1-F3, F4; and the
\* bytes UTF-8 never uses.
Byte == [control |-> 0, quote |-> 1, backslash |-> 2, escape |-> 3, escapeHex |-> 4, u |-> 5,
         hex |-> 6, plain |-> 7, t8 |-> 8, t9 |-> 9, tA |-> 10, c2 |-> 11, e0 |-> 12,
         e1 |-> 13, ed |-> 14, f0 |-> 15, f1 |-> 16, f4 |-> 17, none |-> 18]

AllBytes == Chars(Alphabet)
Ascii == 0 .. 7
Tails == {Byte.t8, Byte.t9, Byte.tA}

-----------------------------------------------------------------------------
(* Combinators                                                             *)

ByteNotFrom(chars) == ByteFrom(AllBytes \ chars)
Word(w) == Concat([i \in DOMAIN w |-> ByteFrom({w[i]})])
Repeat(r, n) == Concat([i \in 1 .. n |-> r])
Delimited(r, opening, closing) == Concat(<<opening, r, closing>>)

RECURSIVE Mark(_, _)
Mark(r, m) ==
    CASE r.op = "single" -> Single({<<l[1], m>> : l \in r.letters})
      [] r.op = "star" -> Star(r.strict, Mark(r.arg, m))
      [] r.op = "complement" -> Complement(Mark(r.arg, m))
      [] OTHER -> [r EXCEPT !.args = [i \in DOMAIN r.args |-> Mark(r.args[i], m)]]

-----------------------------------------------------------------------------
(* The expressions                                                         *)

Ranges(word) == Concat([i \in DOMAIN word |-> ByteFrom(word[i])])

\* Well-formed sequences of bytes, by their ranges.
Utf8Forms ==
    {<<Ascii>>,
     <<{Byte.c2}, Tails>>,
     <<{Byte.e0}, {Byte.tA}, Tails>>,
     <<{Byte.e1}, Tails, Tails>>,
     <<{Byte.ed}, {Byte.t8, Byte.t9}, Tails>>,
     <<{Byte.f0}, {Byte.t9, Byte.tA}, Tails, Tails>>,
     <<{Byte.f1}, Tails, Tails, Tails>>,
     <<{Byte.f4}, {Byte.t8}, Tails, Tails>>}

Utf8Cps == LET forms == ListOf(Utf8Forms)
           IN Union([i \in DOMAIN forms |-> Ranges(forms[i])])

Escapes == {Byte.quote, Byte.backslash, Byte.escape, Byte.escapeHex}
HexDigits == {Byte.hex, Byte.escapeHex}
Forbidden == {Byte.control, Byte.quote, Byte.backslash}

JsonString ==
    LET unescaped == And(Utf8Cps, ByteNotFrom(Forbidden))
        simple_escape == Cat(Word(<<Byte.backslash>>), ByteFrom(Escapes))
        unicode_escape == Cat(Word(<<Byte.backslash, Byte.u>>), Repeat(ByteFrom(HexDigits), 4))
        content == List(Union(<<unescaped, simple_escape, unicode_escape>>))
    IN Delimited(Mark(content, 1), Word(<<Byte.quote>>), Word(<<Byte.quote>>))

-----------------------------------------------------------------------------
LibraryInit == regex = JsonString /\ calls = 0 /\ accepts = ToAutomaton(regex) /\ text = <<>>

Read(c) ==
    /\ Len(text) < MaxText
    /\ text' = Append(text, c)
    /\ UNCHANGED <<regexVars, accepts>>

LibraryNext == \E c \in AllBytes : Read(c)

LibrarySpec == LibraryInit /\ [][LibraryNext]_<<regexVars, accepts, text>>

-----------------------------------------------------------------------------
(* The documented grammar: between quotes, well-formed code points other   *)
(* than the forbidden ones, and escapes.                                   *)

Spells(w, form) == Len(w) = Len(form) /\ \A i \in DOMAIN w : w[i] \in form[i]

JsonItems ==
    (Utf8Forms \ {<<Ascii>>})
    \cup {<<Ascii \ Forbidden>>, <<{Byte.backslash}, Escapes>>,
          <<{Byte.backslash}, {Byte.u}, HexDigits, HexDigits, HexDigits, HexDigits>>}

RECURSIVE JsonContent(_)
JsonContent(w) ==
    \/ w = <<>>
    \/ \E k \in 1 .. Len(w) : /\ \E form \in JsonItems : Spells(SubSeq(w, 1, k), form)
                              /\ JsonContent(SubSeq(w, k + 1, Len(w)))

Documented(w) ==
    /\ Len(w) >= 2 /\ w[1] = Byte.quote /\ w[Len(w)] = Byte.quote
    /\ JsonContent(SubSeq(w, 2, Len(w) - 1))

Accepted(w) == LET run == RunOn(accepts, w) IN ~run.stuck /\ run.state \in accepts.final

\* json_string accepts "any JSON string", by the grammar in its documentation
\* with [0x5D-0x10FFFF] among the characters of a string.
JsonStringsAccepted == Documented(text) => Accepted(text)
=============================================================================
