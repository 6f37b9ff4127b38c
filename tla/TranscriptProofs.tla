-------------------------- MODULE TranscriptProofs --------------------------
(***************************************************************************)
(* Prover and verifier run one protocol, for every circuit whose findings  *)
(* do not apply: the verifier draws the prover's challenges, reads every   *)
(* value as what it was written as, and accepts the whole proof only; and  *)
(* the verifier written as a circuit reads, draws and opens what it does.  *)
(***************************************************************************)
EXTENDS FiatShamirProofs, VerifierGadget

-----------------------------------------------------------------------------
(* What the verifier has done.                                             *)

Arriving == Carried \cup {<<"extra">>}
Hashed == {"squeeze", "absorb"} \X Arriving

\* What an operation leaves in the verifier's hash state, the value read being
\* the c-th of the delivered ones.
Outcome(op, c, values) == IF op[1] = "read" THEN <<"absorb", values[c]>> ELSE Absorb(op)

\* After the operations done the history is hist, c values are read, and g maps
\* their names to them.
Ran(done, values, hist, c, g) ==
    /\ done \in Seq(Moves) /\ hist \in Seq(Hashed) /\ Len(hist) = Len(done)
    /\ \A i \in 1 .. Len(done) : hist[i] = Outcome(done[i], Count(done, "read", i), values)
    /\ c = Count(done, "read", Len(done)) /\ c <= Len(values)
    /\ \A i \in 1 .. Len(done) : done[i][1] = "read" => done[i][2] \in DOMAIN g
    /\ \A n \in DOMAIN g : \E i \in 1 .. Len(done) :
          done[i] = Read(n) /\ g[n] = values[Count(done, "read", i)]

\* The operations with the values that follow the first c in place of names.
Substituted(ops, values, c) ==
    [i \in DOMAIN ops |->
        IF ops[i][1] = "read" THEN Read(values[c + Count(ops, "read", i)]) ELSE ops[i]]

\* The run that has not begun.
LEMMA NothingRan ==
    ASSUME NEW values, values \in Seq(Arriving), NEW g, DOMAIN g = {}
    PROVE  Ran(<<>>, values, <<>>, 0, g)
<1>1. Count(<<>>, "read", 0) = 0  BY CountStep
<1>2. Len(<<>>) = 0 /\ 0 <= Len(values)  OBVIOUS
<1>3. <<>> \in Seq(Moves) /\ <<>> \in Seq(Hashed)  OBVIOUS
<1>4. QED  BY <1>1, <1>2, <1>3 DEF Ran

\* The history of the substituted operations.
LEMMA SubstitutedHistory ==
    ASSUME NEW ops \in Seq(Moves), NEW values \in Seq(Arriving), NEW c \in Nat,
           c + Len(Items(ops, "read")) <= Len(values)
    PROVE  /\ History(Substituted(ops, values, c)) \in Seq(Hashed)
           /\ Len(History(Substituted(ops, values, c))) = Len(ops)
           /\ \A i \in 1 .. Len(ops) :
                 History(Substituted(ops, values, c))[i]
                     = Outcome(ops[i], c + Count(ops, "read", i), values)
<1>1. PICK n \in Nat : n = Len(ops) /\ DOMAIN ops = 1 .. n  OBVIOUS
<1>2. PICK h : h = History(Substituted(ops, values, c))  OBVIOUS
<1>3. PICK reads \in Seq(Carried) : reads = Items(ops, "read")  BY ItemsExact DEF ItemsAre
<1>4. \A i \in 1 .. n : ops[i][1] = "read" => Count(ops, "read", i) \in 1 .. Len(reads)
  BY <1>1, <1>3, ItemsExact DEF ItemsAre
<1>5. ASSUME NEW i \in 1 .. n
      PROVE  Absorb(IF ops[i][1] = "read" THEN Read(values[c + Count(ops, "read", i)])
                    ELSE ops[i]) = Outcome(ops[i], c + Count(ops, "read", i), values)
  <2>1. CASE ops[i][1] = "read"
    <3>1. PICK v : v = values[c + Count(ops, "read", i)]  OBVIOUS
    <3>2. Absorb(Read(v)) = <<"absorb", v>>  BY DEF Absorb, Read
    <3>3. QED  BY <2>1, <3>1, <3>2 DEF Outcome
  <2>2. CASE ops[i][1] # "read"  BY <2>2 DEF Outcome
  <2>3. QED  BY <2>1, <2>2
<1>6. h = [i \in 1 .. n |-> Outcome(ops[i], c + Count(ops, "read", i), values)]
  BY <1>1, <1>2, <1>5 DEF History, Substituted
<1>7. ASSUME NEW i \in 1 .. n
      PROVE  Outcome(ops[i], c + Count(ops, "read", i), values) \in Hashed
  <2>1. CASE ops[i][1] = "read"
    <3>1. Count(ops, "read", i) \in 1 .. Len(reads)  BY <1>4, <2>1
    <3>2. c + Count(ops, "read", i) \in 1 .. Len(values)  BY <1>3, <3>1
    <3>3. PICK v \in Arriving : v = values[c + Count(ops, "read", i)]  BY <3>2
    <3>4. <<"absorb", v>> \in Hashed  BY DEF Hashed
    <3>5. QED  BY <2>1, <3>3, <3>4 DEF Outcome
  <2>2. CASE ops[i][1] # "read"
    <3>1. PICK op \in Moves : op = ops[i]  BY <1>1
    <3>2. op[2] \in Arriving /\ op = <<op[1], op[2]>>  BY MovesType DEF Arriving
    <3>3. Absorb(op) \in Hashed
      <4>1. CASE op[1] = "squeeze"
        <5>1. <<"squeeze", op[2]>> \in Hashed  BY <3>2 DEF Hashed
        <5>2. Absorb(op) = <<"squeeze", op[2]>>  BY <3>2, <4>1 DEF Absorb
        <5>3. QED  BY <5>1, <5>2
      <4>2. CASE op[1] # "squeeze"
        <5>1. <<"absorb", op[2]>> \in Hashed  BY <3>2 DEF Hashed
        <5>2. QED  BY <4>2, <5>1 DEF Absorb
      <4>3. QED  BY <4>1, <4>2
    <3>4. QED  BY <2>2, <3>1, <3>3 DEF Outcome
  <2>3. QED  BY <2>1, <2>2
<1>8. h \in Seq(Hashed) /\ Len(h) = n  BY <1>6, <1>7
<1>9. \A i \in 1 .. n : h[i] = Outcome(ops[i], c + Count(ops, "read", i), values)  BY <1>6
<1>10. QED  BY <1>1, <1>2, <1>8, <1>9

\* The names read before and those of the list, with the values that follow the
\* first c.
Known(g, reads, values, c) ==
    [n \in DOMAIN g \cup ToSet(reads) |->
        IF n \in ToSet(reads) THEN values[c + Position(reads, n)] ELSE g[n]]

\* A section more of a run.
LEMMA RanOn ==
    ASSUME NEW done, NEW values \in Seq(Arriving), NEW hist, NEW c, NEW g,
           Ran(done, values, hist, c, g), NEW ops \in Seq(Moves),
           \A i \in DOMAIN Items(ops, "read") : c + i <= Len(values)
    PROVE  Ran(done \o ops, values, hist \o History(Substituted(ops, values, c)),
               c + Len(Items(ops, "read")), Known(g, Items(ops, "read"), values, c))
<1>1. PICK n \in Nat : n = Len(done)  BY DEF Ran
<1>2. PICK m \in Nat : m = Len(ops)  OBVIOUS
<1>3. PICK reads \in Seq(Carried) : reads = Items(ops, "read")  BY ItemsExact DEF ItemsAre
<1>4. PICK l \in Nat : l = Len(reads) /\ DOMAIN reads = 1 .. l  OBVIOUS
<1>5. done \in Seq(Moves) /\ hist \in Seq(Hashed) /\ Len(hist) = n
  BY <1>1 DEF Ran
<1>6. c \in Nat /\ c = Count(done, "read", n) /\ c <= Len(values)
  <2>1. Count(done, "read", n) \in Nat  BY CountStep
  <2>2. QED  BY <1>1, <2>1 DEF Ran
<1>7. PICK all : all = done \o ops  OBVIOUS
<1>8. /\ all \in Seq(Moves) /\ Len(all) = n + m
      /\ \A i \in 1 .. n : all[i] = done[i]
      /\ \A i \in n + 1 .. n + m : all[i] = ops[i - n]
  BY <1>1, <1>2, <1>5, <1>7, Concatenated
<1>9. /\ \A i \in 0 .. n : Count(all, "read", i) = Count(done, "read", i)
      /\ \A i \in 0 .. m : Count(all, "read", n + i) = c + Count(ops, "read", i)
  BY <1>1, <1>2, <1>5, <1>6, <1>7, CountJoined
<1>10. /\ l = Count(ops, "read", m)
       /\ \A i \in 1 .. m : ops[i][1] = "read" =>
             Count(ops, "read", i) \in 1 .. l /\ reads[Count(ops, "read", i)] = ops[i][2]
       /\ \A j \in 1 .. l : \E i \in 1 .. m :
             ops[i][1] = "read" /\ Count(ops, "read", i) = j /\ ops[i][2] = reads[j]
  BY <1>2, <1>3, <1>4, ItemsExact DEF ItemsAre
<1>11. c + l <= Len(values)
  <2>1. CASE l = 0  BY <1>6, <2>1
  <2>2. CASE l # 0
    <3>1. l \in DOMAIN Items(ops, "read")  BY <1>3, <1>4, <2>2
    <3>2. QED  BY <3>1
  <2>3. QED  BY <2>1, <2>2
<1>12. PICK more : more = History(Substituted(ops, values, c))  OBVIOUS
<1>13. /\ more \in Seq(Hashed) /\ Len(more) = m
       /\ \A i \in 1 .. m : more[i] = Outcome(ops[i], c + Count(ops, "read", i), values)
  BY <1>2, <1>3, <1>4, <1>6, <1>11, <1>12, SubstitutedHistory
<1>14. PICK h : h = hist \o more  OBVIOUS
<1>15. /\ h \in Seq(Hashed) /\ Len(h) = n + m
       /\ \A i \in 1 .. n : h[i] = hist[i]
       /\ \A i \in n + 1 .. n + m : h[i] = more[i - n]
  BY <1>5, <1>13, <1>14, Concatenated
<1>16. ASSUME NEW i \in 1 .. n + m
       PROVE  h[i] = Outcome(all[i], Count(all, "read", i), values)
  <2>1. CASE i \in 1 .. n
    <3>1. hist[i] = Outcome(done[i], Count(done, "read", i), values)  BY <1>1, <2>1 DEF Ran
    <3>2. h[i] = hist[i] /\ all[i] = done[i] /\ Count(all, "read", i) = Count(done, "read", i)
      BY <1>8, <1>9, <1>15, <2>1
    <3>3. QED  BY <3>1, <3>2
  <2>2. CASE i \in n + 1 .. n + m
    <3>1. PICK j \in 1 .. m : j = i - n
      <4>1. i - n \in 1 .. m  BY <2>2
      <4>2. QED  BY <4>1
    <3>2. i = n + j  BY <3>1
    <3>3. Count(all, "read", i) = c + Count(ops, "read", j)  BY <1>9, <3>2
    <3>4. h[i] = more[j] /\ all[i] = ops[j]  BY <1>8, <1>15, <2>2, <3>1
    <3>5. QED  BY <1>13, <3>3, <3>4
  <2>3. QED  BY <2>1, <2>2
<1>17. c + l = Count(all, "read", n + m)
  <2>1. m \in 0 .. m  OBVIOUS
  <2>2. QED  BY <1>9, <1>10, <2>1
<1>18. PICK known : known = Known(g, reads, values, c)  OBVIOUS
<1>19. DOMAIN known = DOMAIN g \cup ToSet(reads)  BY <1>18 DEF Known
<1>20. ASSUME NEW i \in 1 .. n + m, all[i][1] = "read"
       PROVE  all[i][2] \in DOMAIN known
  <2>1. CASE i \in 1 .. n
    <3>1. all[i] = done[i]  BY <1>8, <2>1
    <3>2. done[i][2] \in DOMAIN g  BY <1>1, <1>20, <2>1, <3>1 DEF Ran
    <3>3. QED  BY <1>19, <3>1, <3>2
  <2>2. CASE i \in n + 1 .. n + m
    <3>1. PICK j \in 1 .. m : j = i - n
      <4>1. i - n \in 1 .. m  BY <2>2
      <4>2. QED  BY <4>1
    <3>2. all[i] = ops[j]  BY <1>8, <2>2, <3>1
    <3>3. Count(ops, "read", j) \in 1 .. l /\ reads[Count(ops, "read", j)] = ops[j][2]
      BY <1>10, <1>20, <3>2
    <3>4. ops[j][2] \in ToSet(reads)  BY <1>4, <3>3 DEF ToSet
    <3>5. QED  BY <1>19, <3>2, <3>4
  <2>3. QED  BY <2>1, <2>2
<1>21. ASSUME NEW x \in DOMAIN known
       PROVE  \E i \in 1 .. n + m :
                 all[i] = Read(x) /\ known[x] = values[Count(all, "read", i)]
  <2>1. CASE x \in ToSet(reads)
    <3>1. PICK p \in 1 .. l : p = Position(reads, x) /\ reads[p] = x
      BY <1>4, <2>1, PositionExact
    <3>2. PICK j \in 1 .. m : ops[j][1] = "read" /\ Count(ops, "read", j) = p /\ ops[j][2] = reads[p]
      BY <1>10
    <3>3. known[x] = values[c + p]  BY <1>18, <1>19, <2>1, <3>1 DEF Known
    <3>4. n + j \in n + 1 .. n + m /\ n + j \in 1 .. n + m /\ (n + j) - n = j  OBVIOUS
    <3>5. all[n + j] = ops[j]  BY <1>8, <3>4
    <3>6. ops[j] = Read(x)
      <4>1. ops[j] \in Moves  BY <1>2
      <4>2. QED  BY <3>1, <3>2, <4>1, MovesType DEF Read
    <3>7. Count(all, "read", n + j) = c + p  BY <1>9, <3>2
    <3>8. QED  BY <3>3, <3>4, <3>5, <3>6, <3>7
  <2>2. CASE x \notin ToSet(reads)
    <3>1. x \in DOMAIN g /\ known[x] = g[x]  BY <1>18, <1>19, <2>2 DEF Known
    <3>2. PICK i \in 1 .. n : done[i] = Read(x) /\ g[x] = values[Count(done, "read", i)]
      BY <1>1, <3>1 DEF Ran
    <3>3. i \in 1 .. n + m /\ all[i] = done[i] /\ Count(all, "read", i) = Count(done, "read", i)
      BY <1>8, <1>9
    <3>4. QED  BY <3>1, <3>2, <3>3
  <2>3. QED  BY <2>1, <2>2
<1>22. Ran(all, values, h, c + l, known)
  BY <1>8, <1>11, <1>15, <1>16, <1>17, <1>20, <1>21 DEF Ran
<1>23. QED  BY <1>3, <1>4, <1>7, <1>12, <1>14, <1>18, <1>22

-----------------------------------------------------------------------------
(* What prover and verifier have done.                                     *)

\* The rest of the prover's program is what its history and its proof lack.
ProverRan ==
    /\ todo \in Seq(Seq(Moves)) /\ phist \in Seq(Marks) /\ proof \in Seq(Carried)
    /\ phist \o History(FlattenSeq(todo)) = History(Written(key, flags[1]))
    /\ proof \o Items(FlattenSeq(todo), "write") = Items(Written(key, flags[1]), "write")
    /\ sent => /\ todo = <<>>
               /\ delivered \in {proof, Front(proof), Append(proof, <<"extra">>)}

\* The verifier has run the first part of its program on what was delivered.
VerifierRan ==
    /\ vtodo \in Seq(Seq(Moves)) /\ delivered \in Seq(Arriving)
    /\ \E done :
          /\ Ran(done, delivered, vhist, cursor, got)
          /\ done \o FlattenSeq(vtodo) = Checked(key, flags[2])
          /\ done # <<>> => sent /\ ~VerifierRefuses(key)

\* The verifier accepts at the end of its program, with the prover's history.
AcceptedWhole ==
    verdict = "accept" =>
        /\ sent /\ vtodo = <<>> /\ vhist = phist
        /\ CallerAssertsEmpty => cursor = Len(delivered)

\* The inductive invariant of a run of both sides.
RunInv ==
    /\ key \in Keys /\ flags[1] \in BOOLEAN /\ flags[2] \in BOOLEAN
    /\ ProverRan /\ VerifierRan /\ AcceptedWhole

\* The invariant holds at the start.
LEMMA RunStarts ==
    ASSUME \A k \in Keys : SlotsMatch(k), Init
    PROVE  RunInv
<1>1. key \in Keys /\ flags \in FlagPairs  BY DEF Init
<1>2. flags[1] \in BOOLEAN /\ flags[2] \in BOOLEAN  BY <1>1, FlagPairsAssumption
<1>3. todo \in Seq(Seq(Moves)) /\ vtodo \in Seq(Seq(Moves))
  BY <1>1, <1>2, ProgramsTyped DEF Init
<1>4. FlattenSeq(todo) = Written(key, flags[1]) /\ FlattenSeq(vtodo) = Checked(key, flags[2])
  BY DEF Init, Written, Checked
<1>5. \A s \in Seq(Seq(Moves)) : FlattenSeq(s) \in Seq(Moves)
  <2>1. ASSUME NEW s \in Seq(Seq(Moves))
        PROVE  FlattenSeq(s) \in Seq(Moves)
    <3>1. PICK n \in Nat : n = Len(s)  OBVIOUS
    <3>2. s \in [1 .. n -> Seq(Moves)]  BY <3>1
    <3>3. QED  BY <3>2, FlattenType
  <2>2. QED  BY <2>1
<1>6. PICK x \in Seq(Moves) : x = Written(key, flags[1])  BY <1>3, <1>4, <1>5
<1>7. PICK y \in Seq(Moves) : y = Checked(key, flags[2])  BY <1>3, <1>4, <1>5
<1>8. ProverRan
  <2>1. phist = <<>> /\ proof = <<>> /\ sent = FALSE  BY DEF Init
  <2>2. PICK h \in Seq(Marks) : h = History(x)  BY HistoryIs
  <2>3. PICK p \in Seq(Carried) : p = Items(x, "write")  BY ItemsExact DEF ItemsAre
  <2>4. <<>> \o h = h /\ <<>> \o p = p  OBVIOUS
  <2>5. <<>> \in Seq(Marks) /\ <<>> \in Seq(Carried)  OBVIOUS
  <2>6. QED  BY <1>3, <1>4, <1>6, <2>1, <2>2, <2>3, <2>4, <2>5 DEF ProverRan
<1>9. VerifierRan
  <2>1. vhist = <<>> /\ cursor = 0 /\ got = [n \in {} |-> n] /\ delivered = <<>>  BY DEF Init
  <2>2. DOMAIN got = {} /\ delivered \in Seq(Arriving)  BY <2>1
  <2>3. Ran(<<>>, delivered, vhist, cursor, got)  BY <2>1, <2>2, NothingRan
  <2>4. <<>> \o y = y  OBVIOUS
  <2>5. QED  BY <1>3, <1>4, <1>7, <2>2, <2>3, <2>4 DEF VerifierRan
<1>10. AcceptedWhole  BY DEF Init, AcceptedWhole
<1>11. QED  BY <1>1, <1>2, <1>8, <1>9, <1>10 DEF RunInv

Joins(a, b, c) == (a \o b) \o c = a \o (b \o c)

\* Joining lists is associative.
LEMMA JoinTwice ==
    ASSUME NEW S, NEW a \in Seq(S), NEW b \in Seq(S), NEW c \in Seq(S)
    PROVE  Joins(a, b, c)
BY DEF Joins

\* A section moves from the rest of the prover's program to its history.
LEMMA ProverMoves ==
    ASSUME NEW s \in Seq(Seq(Moves)), s # <<>>, NEW h \in Seq(Marks),
           NEW p \in Seq(Carried)
    PROVE  /\ Tail(s) \in Seq(Seq(Moves))
           /\ h \o History(Head(s)) \in Seq(Marks)
           /\ p \o Items(Head(s), "write") \in Seq(Carried)
           /\ (h \o History(Head(s))) \o History(FlattenSeq(Tail(s)))
                  = h \o History(FlattenSeq(s))
           /\ (p \o Items(Head(s), "write")) \o Items(FlattenSeq(Tail(s)), "write")
                  = p \o Items(FlattenSeq(s), "write")
<1>1. /\ Head(s) \in Seq(Moves) /\ Tail(s) \in Seq(Seq(Moves))
      /\ FlattenSeq(Tail(s)) \in Seq(Moves)
      /\ FlattenSeq(s) = Head(s) \o FlattenSeq(Tail(s))
  BY FlattenHead
<1>2. PICK a \in Seq(Moves) : a = Head(s)  BY <1>1
<1>3. PICK b \in Seq(Moves) : b = FlattenSeq(Tail(s))  BY <1>1
<1>4. History(FlattenSeq(s)) = History(a) \o History(b)  BY <1>1, <1>2, <1>3, HistoryJoined
<1>5. Items(FlattenSeq(s), "write") = Items(a, "write") \o Items(b, "write")
  <2>1. PICK kind : kind = "write"  OBVIOUS
  <2>2. Items(a \o b, kind) = Items(a, kind) \o Items(b, kind)  BY ItemsJoined
  <2>3. QED  BY <1>1, <1>2, <1>3, <2>1, <2>2
<1>6. PICK u \in Seq(Marks) : u = History(a)  BY HistoryIs
<1>7. PICK v \in Seq(Marks) : v = History(b)  BY HistoryIs
<1>8. PICK x \in Seq(Carried) : x = Items(a, "write")  BY ItemsExact DEF ItemsAre
<1>9. PICK y \in Seq(Carried) : y = Items(b, "write")  BY ItemsExact DEF ItemsAre
<1>10. h \o u \in Seq(Marks) /\ (h \o u) \o v = h \o (u \o v)  
  <2>1. h \o u \in Seq(Marks)  BY <1>6
  <2>2. (h \o u) \o v = h \o (u \o v)
    <3>1. Joins(h, u, v)  BY <1>6, <1>7, JoinTwice
    <3>2. QED  BY <3>1 DEF Joins
  <2>3. QED  BY <2>1, <2>2
<1>11. p \o x \in Seq(Carried) /\ (p \o x) \o y = p \o (x \o y)  
  <2>1. p \o x \in Seq(Carried)  BY <1>8
  <2>2. (p \o x) \o y = p \o (x \o y)
    <3>1. Joins(p, x, y)  BY <1>8, <1>9, JoinTwice
    <3>2. QED  BY <3>1 DEF Joins
  <2>3. QED  BY <2>1, <2>2
<1>12. QED
  BY <1>1, <1>2, <1>3, <1>4, <1>5, <1>6, <1>7, <1>8, <1>9, <1>10, <1>11

\* What arrives is a list of values.
LEMMA DeliveredTyped ==
    ASSUME NEW p \in Seq(Carried)
    PROVE  /\ p \in Seq(Arriving) /\ Append(p, <<"extra">>) \in Seq(Arriving)
           /\ Front(p) \in Seq(Arriving)
<1>1. p \in Seq(Arriving)
  <2>1. Carried \subseteq Arriving  BY DEF Arriving
  <2>2. QED  BY <2>1
<1>2. Append(p, <<"extra">>) \in Seq(Arriving)
  <2>1. <<"extra">> \in Arriving  BY DEF Arriving
  <2>2. QED  BY <1>1, <2>1
<1>3. Front(p) \in Seq(Arriving)
  <2>1. PICK n \in Nat : n = Len(p)  OBVIOUS
  <2>2. Front(p) = SubSeq(p, 1, n - 1)  BY <2>1 DEF Front
  <2>3. \A i \in 1 .. n - 1 : p[i] \in Arriving  BY <1>1, <2>1
  <2>4. QED  BY <1>1, <2>1, <2>2, <2>3
<1>4. QED  BY <1>1, <1>2, <1>3

\* A step that runs no section and delivers nothing leaves all but the verdict.
Stays ==
    /\ UNCHANGED <<key, flags, todo, phist, proof, sent, delivered, vtodo, vhist, cursor, got>>
    /\ verdict' = "accept" =>
          \/ verdict = "accept"
          \/ Prepared /\ PairingHolds /\ (CallerAssertsEmpty => cursor = Len(delivered))

\* A step is the prover's, the verifier's, the delivery, or changes none of their state.
LEMMA StepKinds ==
    ASSUME [Next]_vars
    PROVE  ProverStep \/ Deliver \/ VerifierStep \/ Stays
<1>1. ASSUME \/ ProverStops \/ VerifierStops \/ VerifierStepFails \/ VerifierPanics
             \/ TrailingBytes
      PROVE  Stays
  BY <1>1 DEF ProverStops, VerifierStops, VerifierStepFails, VerifierPanics, TrailingBytes,
              Ends, Stays
<1>2. ASSUME GuardVerify
      PROVE  Stays
  BY <1>2 DEF GuardVerify, Ends, Stays
<1>3. ASSUME UNCHANGED vars
      PROVE  Stays
  BY <1>3 DEF vars, Stays
<1>4. QED  BY <1>1, <1>2, <1>3 DEF Next

\* The prover's steps keep the invariant.
LEMMA ProverStepRuns ==
    ASSUME RunInv, ProverStep
    PROVE  RunInv'
<1>1. /\ todo # <<>> /\ verdict = "none" /\ todo' = Tail(todo)
      /\ phist' = phist \o History(Head(todo))
      /\ proof' = proof \o Items(Head(todo), "write")
      /\ key' = key /\ flags' = flags /\ sent' = sent /\ delivered' = delivered
      /\ vtodo' = vtodo /\ vhist' = vhist /\ cursor' = cursor /\ got' = got
      /\ verdict' = verdict
  BY DEF ProverStep
<1>2. ProverRan /\ VerifierRan  BY DEF RunInv
<1>3. ~sent  BY <1>1, <1>2 DEF ProverRan
<1>4. ProverRan'
  <2>1. todo \in Seq(Seq(Moves)) /\ phist \in Seq(Marks) /\ proof \in Seq(Carried)
    BY <1>2 DEF ProverRan
  <2>2. /\ todo' \in Seq(Seq(Moves)) /\ phist' \in Seq(Marks) /\ proof' \in Seq(Carried)
        /\ phist' \o History(FlattenSeq(todo')) = phist \o History(FlattenSeq(todo))
        /\ proof' \o Items(FlattenSeq(todo'), "write")
               = proof \o Items(FlattenSeq(todo), "write")
    BY <1>1, <2>1, ProverMoves
  <2>3. /\ phist' \o History(FlattenSeq(todo')) = History(Written(key', flags'[1]))
        /\ proof' \o Items(FlattenSeq(todo'), "write")
               = Items(Written(key', flags'[1]), "write")
    BY <1>1, <1>2, <2>2 DEF ProverRan
  <2>4. QED  BY <1>1, <1>3, <2>2, <2>3 DEF ProverRan
<1>5. VerifierRan'  BY <1>1, <1>2 DEF VerifierRan
<1>6. AcceptedWhole'  BY <1>1 DEF AcceptedWhole
<1>7. QED  BY <1>1, <1>4, <1>5, <1>6 DEF RunInv

\* The delivery keeps the invariant.
LEMMA DeliverRuns ==
    ASSUME RunInv, Deliver
    PROVE  RunInv'
<1>1. /\ todo = <<>> /\ ~sent /\ sent' = TRUE
      /\ delivered' \in {proof, Front(proof), Append(proof, <<"extra">>)}
      /\ key' = key /\ flags' = flags /\ todo' = todo /\ phist' = phist /\ proof' = proof
      /\ vtodo' = vtodo /\ vhist' = vhist /\ cursor' = cursor /\ got' = got
      /\ verdict' = verdict
  BY DEF Deliver
<1>2. ProverRan /\ VerifierRan /\ AcceptedWhole  BY DEF RunInv
<1>3. ProverRan'  BY <1>1, <1>2 DEF ProverRan
<1>4. VerifierRan'
  <2>1. PICK done : /\ Ran(done, delivered, vhist, cursor, got)
                    /\ done \o FlattenSeq(vtodo) = Checked(key, flags[2])
                    /\ done # <<>> => sent /\ ~VerifierRefuses(key)
    BY <1>2 DEF VerifierRan
  <2>2. done = <<>>  BY <1>1, <2>1
  <2>3. Ran(<<>>, delivered, vhist, cursor, got)  BY <2>1, <2>2
  <2>4. vhist = <<>> /\ cursor = 0 /\ DOMAIN got = {}
    <3>1. Len(<<>>) = 0 /\ Count(<<>>, "read", 0) = 0  BY CountStep
    <3>2. vhist \in Seq(Hashed) /\ Len(vhist) = 0  BY <2>3, <3>1 DEF Ran
    <3>3. cursor = 0  BY <2>3, <3>1 DEF Ran
    <3>4. \A n \in DOMAIN got : FALSE
      <4>1. \A n \in DOMAIN got : \E i \in 1 .. Len(<<>>) : TRUE  BY <2>3 DEF Ran
      <4>2. 1 .. Len(<<>>) = {}  OBVIOUS
      <4>3. QED  BY <4>1, <4>2
    <3>5. QED  BY <3>2, <3>3, <3>4
  <2>5. delivered' \in Seq(Arriving)
    <3>1. proof \in Seq(Carried)  BY <1>2 DEF ProverRan
    <3>2. QED  BY <1>1, <3>1, DeliveredTyped
  <2>6. Ran(done, delivered', vhist', cursor', got')  BY <1>1, <2>2, <2>4, <2>5, NothingRan
  <2>7. done \o FlattenSeq(vtodo') = Checked(key', flags'[2])  BY <1>1, <2>1
  <2>8. vtodo' \in Seq(Seq(Moves))  BY <1>1, <1>2 DEF VerifierRan
  <2>9. QED  BY <2>2, <2>5, <2>6, <2>7, <2>8 DEF VerifierRan
<1>5. AcceptedWhole'  BY <1>1, <1>2 DEF AcceptedWhole
<1>6. key' \in Keys /\ flags'[1] \in BOOLEAN /\ flags'[2] \in BOOLEAN  BY <1>1 DEF RunInv
<1>7. QED  BY <1>3, <1>4, <1>5, <1>6 DEF RunInv

\* The verifier's steps keep the invariant.
LEMMA VerifierStepRuns ==
    ASSUME RunInv, VerifierStep
    PROVE  RunInv'
<1>1. PICK ops : ops = Head(vtodo)  OBVIOUS
<1>2. PICK reads : reads = Items(ops, "read")  OBVIOUS
<1>3. /\ verdict = "none" /\ sent /\ vtodo # <<>>
      /\ vhist = <<>> => ~VerifierRefuses(key)
      /\ vtodo' = Tail(vtodo)
      /\ key' = key /\ flags' = flags /\ todo' = todo /\ phist' = phist /\ proof' = proof
      /\ sent' = sent /\ delivered' = delivered /\ verdict' = verdict
  BY DEF VerifierStep, Delivered
<1>4. /\ ~ReadFails(ops)
      /\ vhist' = vhist \o History(Substitute(ops))
      /\ got' = [n \in DOMAIN got \cup ToSet(reads) |->
                    IF n \in ToSet(reads) THEN delivered[cursor + Position(reads, n)]
                    ELSE got[n]]
      /\ cursor' = cursor + Len(reads)
  BY <1>1, <1>2 DEF VerifierStep, Perform
<1>5. ProverRan /\ VerifierRan  BY DEF RunInv
<1>6. ProverRan'  BY <1>3, <1>5 DEF ProverRan
<1>7. AcceptedWhole'  BY <1>3 DEF AcceptedWhole
<1>8. VerifierRan'
  <2>1. PICK done : /\ Ran(done, delivered, vhist, cursor, got)
                    /\ done \o FlattenSeq(vtodo) = Checked(key, flags[2])
                    /\ done # <<>> => sent /\ ~VerifierRefuses(key)
    BY <1>5 DEF VerifierRan
  <2>2. vtodo \in Seq(Seq(Moves)) /\ delivered \in Seq(Arriving)  BY <1>5 DEF VerifierRan
  <2>3. /\ ops \in Seq(Moves) /\ vtodo' \in Seq(Seq(Moves))
        /\ FlattenSeq(vtodo') \in Seq(Moves)
        /\ FlattenSeq(vtodo) = ops \o FlattenSeq(vtodo')
    BY <1>1, <1>3, <2>2, FlattenHead
  <2>4. \A i \in DOMAIN reads : cursor + i <= Len(delivered)  BY <1>2, <1>4 DEF ReadFails
  <2>5. Substitute(ops) = Substituted(ops, delivered, cursor)
    BY DEF Substitute, Substituted
  <2>6. got' = Known(got, reads, delivered, cursor)  BY <1>4 DEF Known
  <2>7. Ran(done \o ops, delivered, vhist \o History(Substituted(ops, delivered, cursor)),
            cursor + Len(Items(ops, "read")), Known(got, Items(ops, "read"), delivered, cursor))
    BY <1>2, <2>1, <2>2, <2>3, <2>4, RanOn
  <2>8. Ran(done \o ops, delivered', vhist', cursor', got')
    BY <1>2, <1>3, <1>4, <2>5, <2>6, <2>7
  <2>9. (done \o ops) \o FlattenSeq(vtodo') = Checked(key', flags'[2])
    <3>1. done \in Seq(Moves)  BY <2>1 DEF Ran
    <3>2. Joins(done, ops, FlattenSeq(vtodo'))  BY <2>3, <3>1, JoinTwice
    <3>3. (done \o ops) \o FlattenSeq(vtodo') = done \o (ops \o FlattenSeq(vtodo'))
      BY <3>2 DEF Joins
    <3>4. QED  BY <1>3, <2>1, <2>3, <3>3
  <2>10. ~VerifierRefuses(key)
    <3>1. CASE done = <<>>
      <4>1. vhist \in Seq(Hashed) /\ Len(vhist) = 0  BY <2>1, <3>1 DEF Ran
      <4>2. vhist = <<>>  BY <4>1
      <4>3. QED  BY <1>3, <4>2
    <3>2. CASE done # <<>>  BY <2>1, <3>2
    <3>3. QED  BY <3>1, <3>2
  <2>11. delivered' \in Seq(Arriving)  BY <1>3, <2>2
  <2>12. sent' /\ ~VerifierRefuses(key')  BY <1>3, <2>10
  <2>13. QED  BY <2>3, <2>8, <2>9, <2>11, <2>12 DEF VerifierRan
<1>9. key' \in Keys /\ flags'[1] \in BOOLEAN /\ flags'[2] \in BOOLEAN  BY <1>3 DEF RunInv
<1>10. QED  BY <1>6, <1>7, <1>8, <1>9 DEF RunInv

\* The remaining steps keep the invariant.
LEMMA StaysRuns ==
    ASSUME RunInv, Stays
    PROVE  RunInv'
<1>1. /\ key' = key /\ flags' = flags /\ todo' = todo /\ phist' = phist /\ proof' = proof
      /\ sent' = sent /\ delivered' = delivered /\ vtodo' = vtodo /\ vhist' = vhist
      /\ cursor' = cursor /\ got' = got
      /\ verdict' = "accept" =>
          \/ verdict = "accept"
          \/ Prepared /\ PairingHolds /\ (CallerAssertsEmpty => cursor = Len(delivered))
  BY DEF Stays
<1>2. ProverRan /\ VerifierRan /\ AcceptedWhole  BY DEF RunInv
<1>3. ProverRan'  BY <1>1, <1>2 DEF ProverRan
<1>4. VerifierRan'  BY <1>1, <1>2 DEF VerifierRan
<1>5. AcceptedWhole'
  <2>1. CASE verdict = "accept"  BY <1>1, <1>2, <2>1 DEF AcceptedWhole
  <2>2. CASE /\ Prepared /\ PairingHolds
             /\ CallerAssertsEmpty => cursor = Len(delivered)
    BY <1>1, <2>2 DEF AcceptedWhole, Prepared, Delivered, PairingHolds
  <2>3. CASE verdict' # "accept"  BY <2>3 DEF AcceptedWhole
  <2>4. QED  BY <1>1, <2>1, <2>2, <2>3
<1>6. key' \in Keys /\ flags'[1] \in BOOLEAN /\ flags'[2] \in BOOLEAN  BY <1>1 DEF RunInv
<1>7. QED  BY <1>3, <1>4, <1>5, <1>6 DEF RunInv

\* Every step keeps the invariant.
LEMMA RunGoesOn ==
    ASSUME RunInv, [Next]_vars
    PROVE  RunInv'
BY StepKinds, ProverStepRuns, DeliverRuns, VerifierStepRuns, StaysRuns

-----------------------------------------------------------------------------
(* Only the whole proof is accepted.                                       *)

\* The operation an opening begins with.
Begins(ops, kind) == ops \in Seq(Moves) /\ Len(ops) >= 1 /\ ops[1][1] = kind

\* The first operation of a kind in a joined list.
LEMMA BeginsJoined ==
    ASSUME NEW a \in Seq(Moves), NEW b \in Seq(Moves), NEW kind,
           a = <<>> => Begins(b, kind), a # <<>> => a[1][1] = kind
    PROVE  Begins(a \o b, kind)
<1>1. PICK n \in Nat : n = Len(a)  OBVIOUS
<1>2. PICK m \in Nat : m = Len(b)  OBVIOUS
<1>3. PICK e : e = a \o b  OBVIOUS
<1>4. /\ e \in Seq(Moves) /\ Len(e) = n + m
      /\ \A i \in 1 .. n : e[i] = a[i]
      /\ \A i \in n + 1 .. n + m : e[i] = b[i - n]
  BY <1>1, <1>2, <1>3, Concatenated
<1>5. CASE n = 0
  <2>1. a = <<>>
    <3>1. Len(a) = 0  BY <1>1, <1>5
    <3>2. QED  BY <3>1
  <2>2. m >= 1 /\ b[1][1] = kind  BY <1>2, <2>1 DEF Begins
  <2>3. 1 \in n + 1 .. n + m /\ 1 - n = 1  BY <1>5, <2>2
  <2>4. e[1] = b[1]  BY <1>4, <2>3
  <2>5. QED  BY <1>3, <1>4, <1>5, <2>2, <2>4 DEF Begins
<1>6. CASE n # 0
  <2>1. a # <<>>  BY <1>1, <1>6
  <2>2. 1 \in 1 .. n  BY <1>6
  <2>3. e[1] = a[1]  BY <1>4, <2>2
  <2>4. n + m >= 1  BY <1>6
  <2>5. QED  BY <1>3, <1>4, <2>1, <2>3, <2>4 DEF Begins
<1>7. QED  BY <1>5, <1>6

\* The sets at x3 come after a challenge.
LEMMA SetsBegin ==
    ASSUME NEW k, NEW n \in Nat
    PROVE  Begins(SetWrites(n), "squeeze") /\ Begins(SetReads(n), "squeeze")
<1>1. PICK w : w = SetWrites(n)  OBVIOUS
<1>2. PICK r : r = SetReads(n)  OBVIOUS
<1>3. w \in Seq(Moves) /\ r \in Seq(Moves) /\ Len(w) = Len(r)
  <2>1. Pairs(Twins(k), w, r)  BY <1>1, <1>2, SetsPair
  <2>2. QED  BY <2>1 DEF Pairs
<1>4. PICK a : a = [s \in 1 .. n |-> Write(<<"qeval", s>>)]  OBVIOUS
<1>5. PICK b : b = [s \in 1 .. n |-> Read(<<"qeval", s>>)]  OBVIOUS
<1>6. PICK S : S = Moves  OBVIOUS
<1>7. a \in Seq(S) /\ b \in Seq(S)
  <2>1. ASSUME NEW s \in 1 .. n
        PROVE  a[s] \in S /\ b[s] \in S
    <3>1. <<"qeval", s>> \in Values
      <4>1. s \in Nat  OBVIOUS
      <4>2. QED  BY <4>1, NumberedValues
    <3>2. Write(<<"qeval", s>>) \in S /\ Read(<<"qeval", s>>) \in S
      BY <1>6, <3>1 DEF Moves, Write, Read
    <3>3. QED  BY <1>4, <1>5, <3>2
  <2>2. a = [s \in 1 .. n |-> a[s]] /\ b = [s \in 1 .. n |-> b[s]]  BY <1>4, <1>5
  <2>3. \A i \in 1 .. n : a[i] \in S  BY <2>1
  <2>4. \A i \in 1 .. n : b[i] \in S  BY <2>1
  <2>5. a \in Seq(S)  BY <2>2, <2>3
  <2>6. b \in Seq(S)  BY <2>2, <2>4
  <2>7. QED  BY <2>5, <2>6
<1>8. PICK u : u = <<Squeeze(<<"x1">>), Squeeze(<<"x2">>), Write(<<"f">>), Squeeze(<<"x3">>)>>
  OBVIOUS
<1>9. PICK v : v = <<Squeeze(<<"x1">>), Squeeze(<<"x2">>), Read(<<"f">>), Squeeze(<<"x3">>)>>
  OBVIOUS
<1>10. PICK x : x = <<Squeeze(<<"x4">>), Write(<<"pi">>)>>  OBVIOUS
<1>11. PICK y : y = <<Squeeze(<<"x4">>), Read(<<"pi">>)>>  OBVIOUS
<1>12. /\ Squeeze(<<"x1">>) \in S /\ Squeeze(<<"x2">>) \in S /\ Squeeze(<<"x3">>) \in S
       /\ Squeeze(<<"x4">>) \in S /\ Write(<<"f">>) \in S /\ Read(<<"f">>) \in S
       /\ Write(<<"pi">>) \in S /\ Read(<<"pi">>) \in S
  BY <1>6, TheNames, TheValues DEF Moves, Squeeze, Write, Read
<1>13. u \in Seq(S) /\ v \in Seq(S) /\ x \in Seq(S) /\ y \in Seq(S)
  BY <1>8, <1>9, <1>10, <1>11, <1>12
<1>14. u # <<>> /\ v # <<>> /\ u[1] = Squeeze(<<"x1">>) /\ v[1] = Squeeze(<<"x1">>)
  BY <1>8, <1>9
<1>15. Squeeze(<<"x1">>)[1] = "squeeze"  BY DEF Squeeze
<1>16. u \in Seq(Moves) /\ v \in Seq(Moves) /\ a \in Seq(Moves) /\ b \in Seq(Moves)
       /\ x \in Seq(Moves) /\ y \in Seq(Moves)
  BY <1>6, <1>7, <1>13
<1>17. Begins(u \o a, "squeeze") /\ Begins(v \o b, "squeeze")
  <2>1. PICK kind : kind = "squeeze"  OBVIOUS
  <2>2. u[1][1] = kind /\ v[1][1] = kind  BY <1>14, <1>15, <2>1
  <2>3. Begins(u \o a, kind)  BY <1>14, <1>16, <2>2, BeginsJoined
  <2>4. Begins(v \o b, kind)  BY <1>14, <1>16, <2>2, BeginsJoined
  <2>5. QED  BY <2>1, <2>3, <2>4
<1>18. Begins((u \o a) \o x, "squeeze") /\ Begins((v \o b) \o y, "squeeze")
  <2>1. PICK kind : kind = "squeeze"  OBVIOUS
  <2>2. PICK s : s = u \o a  OBVIOUS
  <2>3. PICK t : t = v \o b  OBVIOUS
  <2>4. s \in Seq(Moves) /\ t \in Seq(Moves) /\ Len(s) >= 1 /\ Len(t) >= 1
        /\ s[1][1] = kind /\ t[1][1] = kind
    BY <1>17, <2>1, <2>2, <2>3 DEF Begins
  <2>5. s # <<>> /\ t # <<>>  BY <2>4
  <2>6. Begins(s \o x, kind)  BY <1>16, <2>4, <2>5, BeginsJoined
  <2>7. Begins(t \o y, kind)  BY <1>16, <2>4, <2>5, BeginsJoined
  <2>8. QED  BY <2>1, <2>2, <2>3, <2>6, <2>7
<1>19. SetWrites(n) = (u \o a) \o x /\ SetReads(n) = (v \o b) \o y
  BY <1>4, <1>5, <1>8, <1>9, <1>10, <1>11 DEF SetWrites, SetReads
<1>20. QED  BY <1>18, <1>19

\* An opening begins with the evaluation of a dummy query, or with a challenge.
LEMMA OpeningsBegin ==
    ASSUME NEW k \in Keys, NEW flag
    PROVE  /\ Begins(MultiOpenOps(k, flag), IF Dummies(k, flag) = <<>> THEN "squeeze" ELSE "write")
           /\ Begins(MultiPrepareOps(k, flag), IF Dummies(k, flag) = <<>> THEN "squeeze" ELSE "read")
<1>1. PICK d : d = Dummies(k, flag)  OBVIOUS
<1>2. PICK n \in Nat : Opened(k, flag, d, n)  BY <1>1, MultiOpenAre
<1>3. d \in Seq(Openings)
  <2>1. PICK qs : qs = ComputeQueries(k)  OBVIOUS
  <2>2. d \in {<<>>, DummyQueries(qs)}  BY <1>1, <2>1 DEF Dummies
  <2>3. QED  BY <2>1, <2>2, DummiesTyped
<1>4. PICK a : a = DummyWrites(d)  OBVIOUS
<1>5. PICK b : b = DummyReads(d)  OBVIOUS
<1>6. a \in Seq(Moves) /\ b \in Seq(Moves)  BY <1>2, <1>4, <1>5 DEF Opened, Pairs
<1>7. PICK s : s = SetWrites(n)  OBVIOUS
<1>8. PICK t : t = SetReads(n)  OBVIOUS
<1>9. Begins(s, "squeeze") /\ Begins(t, "squeeze")  BY <1>7, <1>8, SetsBegin
<1>10. s \in Seq(Moves) /\ t \in Seq(Moves)  BY <1>9 DEF Begins
<1>11. MultiOpenOps(k, flag) = a \o s /\ MultiPrepareOps(k, flag) = b \o t
  BY <1>2, <1>4, <1>5, <1>7, <1>8 DEF Opened
<1>12. CASE d = <<>>
  <2>1. a = <<>> /\ b = <<>>
    <3>1. DOMAIN a = {} /\ DOMAIN b = {}  BY <1>4, <1>5, <1>12 DEF DummyWrites, DummyReads
    <3>2. QED  BY <1>6, <3>1
  <2>2. a \o s = s /\ b \o t = t  BY <1>10, <2>1
  <2>3. QED  BY <1>1, <1>9, <1>11, <1>12, <2>2
<1>13. CASE d # <<>>
  <2>1. 1 \in DOMAIN d  BY <1>3, <1>13
  <2>2. PICK v : v = Eval(d[1].com, d[1].point)  OBVIOUS
  <2>3. a[1] = Write(v) /\ b[1] = Read(v)  BY <1>4, <1>5, <2>1, <2>2 DEF DummyWrites, DummyReads
  <2>4. a[1][1] = "write" /\ b[1][1] = "read"  BY <2>3 DEF Write, Read
  <2>5. a # <<>> /\ b # <<>>
    <3>1. DOMAIN a = DOMAIN d /\ DOMAIN b = DOMAIN d  BY <1>4, <1>5 DEF DummyWrites, DummyReads
    <3>2. DOMAIN <<>> = {}  OBVIOUS
    <3>3. QED  BY <2>1, <3>1, <3>2
  <2>6. Begins(a \o s, "write")
    <3>1. PICK kind : kind = "write"  OBVIOUS
    <3>2. a[1][1] = kind  BY <2>4, <3>1
    <3>3. Begins(a \o s, kind)  BY <1>6, <1>10, <2>5, <3>2, BeginsJoined
    <3>4. QED  BY <3>1, <3>3
  <2>7. Begins(b \o t, "read")
    <3>1. PICK kind : kind = "read"  OBVIOUS
    <3>2. b[1][1] = kind  BY <2>4, <3>1
    <3>3. Begins(b \o t, kind)  BY <1>6, <1>10, <2>5, <3>2, BeginsJoined
    <3>4. QED  BY <3>1, <3>3
  <2>8. QED  BY <1>1, <1>11, <1>13, <2>6, <2>7
<1>14. QED  BY <1>12, <1>13

\* What the whole programs are.
LEMMA ProgramMoves ==
    ASSUME NEW k \in Keys, SlotsMatch(k), NEW f \in BOOLEAN
    PROVE  Written(k, f) \in Seq(Moves) /\ Checked(k, f) \in Seq(Moves)
<1>1. ASSUME NEW s \in Seq(Seq(Moves))
      PROVE  FlattenSeq(s) \in Seq(Moves)
  <2>1. PICK n \in Nat : n = Len(s)  OBVIOUS
  <2>2. s \in [1 .. n -> Seq(Moves)]  BY <2>1
  <2>3. QED  BY <2>2, FlattenType
<1>2. QED  BY <1>1, ProgramsTyped DEF Written, Checked

\* Flattening nothing.
LEMMA FlattenNothing == FlattenSeq(<<>>) = <<>>
<1>1. PICK n \in Nat : n = 0  OBVIOUS
<1>2. PICK s : s = [i \in 1 .. n |-> <<>>]  OBVIOUS
<1>3. FlattenSeq([i \in 1 .. n |-> <<>>]) = <<>>  BY FlattenEmpties
<1>4. s = <<>>  BY <1>1, <1>2
<1>5. QED  BY <1>2, <1>3, <1>4

\* Once the proof is sent the prover has run all of its program.
LEMMA SentWhole ==
    ASSUME RunInv, sent, SlotsMatch(key)
    PROVE  /\ phist = History(Written(key, flags[1]))
           /\ proof = Items(Written(key, flags[1]), "write")
           /\ proof \in Seq(Carried)
           /\ delivered \in {proof, Front(proof), Append(proof, <<"extra">>)}
<1>1. ProverRan  BY DEF RunInv
<1>2. /\ phist \in Seq(Marks) /\ proof \in Seq(Carried) /\ todo = <<>>
      /\ phist \o History(FlattenSeq(todo)) = History(Written(key, flags[1]))
      /\ proof \o Items(FlattenSeq(todo), "write") = Items(Written(key, flags[1]), "write")
      /\ delivered \in {proof, Front(proof), Append(proof, <<"extra">>)}
  BY <1>1 DEF ProverRan
<1>3. PICK none \in Seq(Moves) : none = <<>>
  <2>1. <<>> \in Seq(Moves)  OBVIOUS
  <2>2. QED  BY <2>1
<1>4. FlattenSeq(todo) = none /\ Len(none) = 0  BY <1>2, <1>3, FlattenNothing
<1>5. History(none) = <<>>
  <2>1. PICK h \in Seq(Marks) : h = History(none)  BY HistoryIs
  <2>2. Len(h) = 0  BY <1>4, <2>1, HistoryIs
  <2>3. QED  BY <2>1, <2>2
<1>6. Items(none, "write") = <<>>
  <2>1. PICK kind : kind = "write"  OBVIOUS
  <2>2. PICK v \in Seq(Carried) : v = Items(none, kind)  BY ItemsExact DEF ItemsAre
  <2>3. Len(v) = Count(none, kind, 0)  BY <1>4, <2>2, ItemsExact DEF ItemsAre
  <2>4. Len(v) = 0  BY <2>3, CountStep
  <2>5. QED  BY <2>1, <2>2, <2>4
<1>7. phist \o <<>> = phist /\ proof \o <<>> = proof  BY <1>2
<1>8. QED  BY <1>2, <1>4, <1>5, <1>6, <1>7

\* What the verifier has done once it has run all of its program.
LEMMA PreparedWhole ==
    ASSUME RunInv, vtodo = <<>>, SlotsMatch(key)
    PROVE  Ran(Checked(key, flags[2]), delivered, vhist, cursor, got)
<1>1. PICK done : /\ Ran(done, delivered, vhist, cursor, got)
                  /\ done \o FlattenSeq(vtodo) = Checked(key, flags[2])
  BY DEF RunInv, VerifierRan
<1>2. done \in Seq(Moves)  BY <1>1 DEF Ran
<1>3. done \o <<>> = done  BY <1>2
<1>4. done = Checked(key, flags[2])  BY <1>1, <1>3, FlattenNothing
<1>5. QED  BY <1>1, <1>4

\* The verifier runs its program on keys whose call it does not refuse.
LEMMA PreparedMeans ==
    ASSUME RunInv, vtodo = <<>>, SlotsMatch(key)
    PROVE  sent /\ ~VerifierRefuses(key)
<1>1. PICK done : /\ Ran(done, delivered, vhist, cursor, got)
                  /\ done \o FlattenSeq(vtodo) = Checked(key, flags[2])
                  /\ done # <<>> => sent /\ ~VerifierRefuses(key)
  BY DEF RunInv, VerifierRan
<1>2. done \in Seq(Moves)  BY <1>1 DEF Ran
<1>3. done \o <<>> = done  BY <1>2
<1>4. done = Checked(key, flags[2])  BY <1>1, <1>3, FlattenNothing
<1>5. Checked(key, flags[2]) # <<>>
  <2>1. key \in Keys /\ flags[2] \in BOOLEAN  BY DEF RunInv
  <2>2. PICK P : P = VerifierProgram(key, flags[2])  OBVIOUS
  <2>3. P \in Seq(Seq(Moves))  BY <2>1, <2>2, ProgramsTyped
  <2>4. PICK m \in Nat : m = LastPhase(key)  BY <2>1, LastPhaseBounds
  <2>5. VerifierIs(key, flags[2], m, P)  BY <2>1, <2>2, <2>4, VerifierEntries
  <2>6. P[1] = << Common(<<"vk">>) >> /\ P # <<>>
    <3>1. P[1] = << Common(<<"vk">>) >> /\ DOMAIN P = 1 .. m + 15  BY <2>5 DEF VerifierIs
    <3>2. 1 \in DOMAIN P  BY <3>1
    <3>3. DOMAIN <<>> = {}  OBVIOUS
    <3>4. QED  BY <3>1, <3>2, <3>3
  <2>7. Head(P) = << Common(<<"vk">>) >>  BY <2>3, <2>6
  <2>8. PICK t \in Seq(Moves) : t = FlattenSeq(Tail(P))  BY <2>3, <2>6, FlattenHead
  <2>9. FlattenSeq(P) = Head(P) \o t  BY <2>3, <2>6, <2>8, FlattenHead
  <2>10. Head(P) \in Seq(Moves)  BY <2>3, <2>6
  <2>11. PICK h \in Seq(Moves) : h = Head(P) /\ Len(h) = 1  BY <2>7, <2>10
  <2>12. h \o t # <<>>
    <3>1. PICK e : e = h \o t  OBVIOUS
    <3>2. PICK n \in Nat : n = Len(t)  OBVIOUS
    <3>7. Len(h \o t) = Len(h) + Len(t)  BY <2>8, <2>11, Concatenated
    <3>3. Len(e) = 1 + n  BY <2>11, <3>1, <3>2, <3>7
    <3>4. Len(<<>>) = 0  OBVIOUS
    <3>5. e # <<>>  BY <3>3, <3>4
    <3>6. QED  BY <3>1, <3>5
  <2>13. QED  BY <2>2, <2>9, <2>11, <2>12 DEF Checked
<1>6. QED  BY <1>1, <1>4, <1>5

\* Openings of which only one has dummy queries cannot go through one hash state.
LEMMA OpeningsDiffer ==
    ASSUME NEW k \in Keys, SlotsMatch(k), NEW f \in BOOLEAN, NEW g \in BOOLEAN,
           GoTogether(Alike, k, f, g), Dummies(k, f) # Dummies(k, g)
    PROVE  \E i \in 1 .. Len(Checked(k, g)) :
              /\ i \in 1 .. Len(Written(k, f))
              /\ \/ Written(k, f)[i][1] = "write" /\ Checked(k, g)[i][1] = "squeeze"
                 \/ Written(k, f)[i][1] = "squeeze" /\ Checked(k, g)[i][1] = "read"
<1>1. PICK x, y : /\ Pairs(Alike, x, y)
                  /\ Written(k, f) = x \o MultiOpenOps(k, f)
                  /\ Checked(k, g) = y \o MultiPrepareOps(k, g)
  BY DEF GoTogether
<1>2. PICK w : w = MultiOpenOps(k, f)  OBVIOUS
<1>3. PICK r : r = MultiPrepareOps(k, g)  OBVIOUS
<1>4. /\ Begins(w, IF Dummies(k, f) = <<>> THEN "squeeze" ELSE "write")
      /\ Begins(r, IF Dummies(k, g) = <<>> THEN "squeeze" ELSE "read")
  BY <1>2, <1>3, OpeningsBegin
<1>5. /\ x \in Seq(Moves) /\ y \in Seq(Moves) /\ Len(x) = Len(y)
      /\ w \in Seq(Moves) /\ r \in Seq(Moves) /\ Len(w) >= 1 /\ Len(r) >= 1
  BY <1>1, <1>4 DEF Pairs, Begins
<1>6. PICK n \in Nat : n = Len(x) /\ n = Len(y)  BY <1>5
<1>7. PICK a : a = x \o w  OBVIOUS
<1>8. PICK b : b = y \o r  OBVIOUS
<1>9. Len(a) = n + Len(w) /\ a[n + 1] = w[1]
  <2>1. PICK m \in Nat : m = Len(w)  BY <1>5
  <2>2. /\ Len(a) = Len(x) + Len(w)
        /\ \A i \in Len(x) + 1 .. Len(x) + Len(w) : a[i] = w[i - Len(x)]
    BY <1>5, <1>7, Concatenated
  <2>3. n + 1 \in n + 1 .. n + m /\ (n + 1) - n = 1  BY <1>5, <2>1
  <2>4. \A i \in n + 1 .. n + m : a[i] = w[i - n]  BY <1>6, <2>1, <2>2
  <2>5. QED  BY <1>6, <2>2, <2>3, <2>4
<1>10. Len(b) = n + Len(r) /\ b[n + 1] = r[1]
  <2>1. PICK m \in Nat : m = Len(r)  BY <1>5
  <2>2. /\ Len(b) = Len(y) + Len(r)
        /\ \A i \in Len(y) + 1 .. Len(y) + Len(r) : b[i] = r[i - Len(y)]
    BY <1>5, <1>8, Concatenated
  <2>3. n + 1 \in n + 1 .. n + m /\ (n + 1) - n = 1  BY <1>5, <2>1
  <2>4. \A i \in n + 1 .. n + m : b[i] = r[i - n]  BY <1>6, <2>1, <2>2
  <2>5. QED  BY <1>6, <2>2, <2>3, <2>4
<1>11. n + 1 \in 1 .. Len(a) /\ n + 1 \in 1 .. Len(b)
  <2>1. Len(w) \in Nat /\ Len(r) \in Nat  BY <1>5
  <2>2. QED  BY <1>5, <1>9, <1>10, <2>1
<1>12. \/ w[1][1] = "write" /\ r[1][1] = "squeeze"
       \/ w[1][1] = "squeeze" /\ r[1][1] = "read"
  <2>1. CASE Dummies(k, f) = <<>>
    <3>1. Dummies(k, g) # <<>>  BY <2>1
    <3>2. w[1][1] = "squeeze" /\ r[1][1] = "read"  BY <1>4, <2>1, <3>1 DEF Begins
    <3>3. QED  BY <3>2
  <2>2. CASE Dummies(k, f) # <<>>
    <3>1. Dummies(k, g) = <<>>  BY <2>2 DEF Dummies
    <3>2. w[1][1] = "write" /\ r[1][1] = "squeeze"  BY <1>4, <2>2, <3>1 DEF Begins
    <3>3. QED  BY <3>2
  <2>3. QED  BY <2>1, <2>2
<1>13. QED  BY <1>1, <1>2, <1>3, <1>7, <1>8, <1>9, <1>10, <1>11, <1>12

\* A run that accepts has read the whole proof and nothing else.
LEMMA WholeAccepted ==
    ASSUME RunInv, SlotsMatch(key), CallerAssertsEmpty
    PROVE  OnlyWholeProofAccepted
<1> SUFFICES ASSUME verdict = "accept"
             PROVE  /\ delivered = proof
                    /\ flags[1] # flags[2] => DummyQueries(ComputeQueries(key)) = <<>>
  BY DEF OnlyWholeProofAccepted
<1>1. sent /\ vtodo = <<>> /\ vhist = phist /\ cursor = Len(delivered)
  BY DEF RunInv, AcceptedWhole
<1>2. key \in Keys /\ flags[1] \in BOOLEAN /\ flags[2] \in BOOLEAN  BY DEF RunInv
<1>3. PICK f \in BOOLEAN : f = flags[1]  BY <1>2
<1>4. PICK g \in BOOLEAN : g = flags[2]  BY <1>2
<1>5. ~VerifierRefuses(key)  BY <1>1, PreparedMeans
<1>6. GoTogether(Alike, key, f, g)  BY <1>2, <1>5, ProtocolPairs
<1>7. PICK a \in Seq(Moves) : a = Written(key, f)  BY <1>2, ProgramMoves
<1>8. PICK b \in Seq(Moves) : b = Checked(key, g)  BY <1>2, ProgramMoves
<1>9. Ran(b, delivered, vhist, cursor, got)  BY <1>1, <1>4, <1>8, PreparedWhole
<1>10. /\ phist = History(a) /\ proof = Items(a, "write") /\ proof \in Seq(Carried)
       /\ delivered \in {proof, Front(proof), Append(proof, <<"extra">>)}
  BY <1>1, <1>3, <1>7, SentWhole
<1>11. Dummies(key, f) = Dummies(key, g)
  <2> SUFFICES ASSUME Dummies(key, f) # Dummies(key, g)
               PROVE  FALSE
    OBVIOUS
  <2>1. PICK i \in 1 .. Len(b) :
           /\ i \in 1 .. Len(a)
           /\ \/ a[i][1] = "write" /\ b[i][1] = "squeeze"
              \/ a[i][1] = "squeeze" /\ b[i][1] = "read"
    BY <1>2, <1>6, <1>7, <1>8, OpeningsDiffer
  <2>2. phist[i] = Absorb(a[i])  BY <1>7, <1>10, <2>1, HistoryIs
  <2>3. vhist[i] = Outcome(b[i], Count(b, "read", i), delivered)  BY <1>9, <2>1 DEF Ran
  <2>4. CASE a[i][1] = "write" /\ b[i][1] = "squeeze"
    <3>1. phist[i][1] = "absorb"  BY <2>2, <2>4 DEF Absorb
    <3>2. vhist[i] = b[i]  BY <2>3, <2>4 DEF Outcome, Absorb
    <3>3. QED  BY <1>1, <2>4, <3>1, <3>2
  <2>5. CASE a[i][1] = "squeeze" /\ b[i][1] = "read"
    <3>1. phist[i] = a[i]  BY <2>2, <2>5 DEF Absorb
    <3>2. vhist[i][1] = "absorb"  BY <2>3, <2>5 DEF Outcome
    <3>3. QED  BY <1>1, <2>5, <3>1, <3>2
  <2>6. QED  BY <2>1, <2>4, <2>5
<1>12. Pairs(Alike, a, b)
  <2>1. Twins(key) \subseteq Alike  BY TwinsAlike
  <2>2. QED  BY <1>2, <1>6, <1>7, <1>8, <1>11, <2>1, AllPair
<1>13. Len(delivered) = Len(proof)
  <2>1. PICK n \in Nat : n = Len(a) /\ n = Len(b)  BY <1>12 DEF Pairs
  <2>2. n \in 0 .. Len(a)  BY <2>1
  <2>3. Count(a, "write", n) = Count(b, "read", n)  BY <1>12, <2>2, CountAlike
  <2>4. Len(proof) = Count(a, "write", n)
    <3>1. PICK kind : kind = "write"  OBVIOUS
    <3>2. Len(Items(a, kind)) = Count(a, kind, n)  BY <2>1, ItemsExact DEF ItemsAre
    <3>3. QED  BY <1>10, <3>1, <3>2
  <2>5. cursor = Count(b, "read", n)  BY <1>9, <2>1 DEF Ran
  <2>6. QED  BY <1>1, <2>3, <2>4, <2>5
<1>14. delivered = proof
  <2>1. PICK n \in Nat : n = Len(proof)  BY <1>10
  <2>2. CASE delivered = Front(proof)
    <3>1. Front(proof) = SubSeq(proof, 1, n - 1)  BY <2>1 DEF Front
    <3>2. CASE n = 0
      <4>1. Len(delivered) = 0  BY <1>13, <2>1, <3>2
      <4>2. delivered \in Seq(Carried)  BY <1>10, <2>2, <3>1, <2>1, <3>2
      <4>3. QED  BY <1>10, <2>1, <3>2, <4>1, <4>2
    <3>3. CASE n # 0
      <4>3. n - 1 \in 0 .. n  BY <2>1, <3>3
      <4>4. PICK p \in Seq(Carried) : p = proof  BY <1>10
      <4>5. PICK m \in 0 .. n : m = n - 1  BY <4>3
      <4>6. Len(SubSeq(p, 1, m)) = m  BY <2>1, <4>4
      <4>1. Len(SubSeq(proof, 1, n - 1)) = n - 1  BY <4>4, <4>5, <4>6
      <4>2. QED  BY <1>13, <2>1, <2>2, <3>1, <4>1
    <3>4. QED  BY <3>2, <3>3
  <2>3. CASE delivered = Append(proof, <<"extra">>)
    <3>1. Len(Append(proof, <<"extra">>)) = n + 1
      <4>1. proof \in Seq(Arriving) /\ <<"extra">> \in Arriving
        BY <1>10, DeliveredTyped DEF Arriving
      <4>2. QED  BY <2>1, <4>1
    <3>2. QED  BY <1>13, <2>1, <2>3, <3>1
  <2>4. QED  BY <1>10, <2>2, <2>3
<1>15. ASSUME flags[1] # flags[2]
       PROVE  DummyQueries(ComputeQueries(key)) = <<>>
  <2>1. f # g  BY <1>3, <1>4, <1>15
  <2>2. (f = TRUE /\ g = FALSE) \/ (f = FALSE /\ g = TRUE)  BY <2>1
  <2>3. QED  BY <1>11, <2>2 DEF Dummies
<1>16. QED  BY <1>14, <1>15

\* At every step of every run, whatever was delivered: the prover's history and
\* proof are those of the part of its program behind it; the verifier has run the
\* first part of parse_trace and verify_algebraic_constraints on the delivered
\* values, each read into the name it was counted to; and it has accepted only at
\* the end, with the prover's history.  The keys are those whose fixed columns
\* the verifier reads as the prover writes them.
THEOREM RunsInStep ==
    ASSUME \A k \in Keys : SlotsMatch(k)
    PROVE  Spec => []RunInv
<1>1. Init => RunInv  BY RunStarts
<1>2. RunInv /\ [Next]_vars => RunInv'  BY RunGoesOn
<1>3. QED  BY <1>1, <1>2, PTL DEF Spec

\* A proof that was cut short or lengthened is refused by the callers of prepare
\* that assert an empty transcript, for any circuit the verifier reads in step.
THEOREM WholeProofTheorem ==
    ASSUME \A k \in Keys : SlotsMatch(k), CallerAssertsEmpty
    PROVE  Spec => []OnlyWholeProofAccepted
<1>1. RunInv => OnlyWholeProofAccepted
  <2>1. RunInv => key \in Keys  BY DEF RunInv
  <2>2. QED  BY <2>1, WholeAccepted
<1>2. Spec => []RunInv  BY RunsInStep
<1>3. QED  BY <1>1, <1>2, PTL

-----------------------------------------------------------------------------
(* Every value is read as what it was written as.                          *)

\* What a shortened, whole or lengthened proof delivers within the proof is what
\* was written there.
LEMMA ArrivesAsWritten ==
    ASSUME NEW p \in Seq(Carried), NEW d, d \in {p, Front(p), Append(p, <<"extra">>)},
           NEW c \in 1 .. Len(p), c <= Len(d)
    PROVE  d[c] = p[c]
<1>1. PICK n \in Nat : n = Len(p)  OBVIOUS
<1>2. CASE d = Front(p)
  <2>1. n # 0  BY <1>1
  <2>2. PICK m \in 0 .. n : m = n - 1
    <3>1. n - 1 \in 0 .. n  BY <1>1, <2>1
    <3>2. QED  BY <3>1
  <2>3. d = SubSeq(p, 1, m)  BY <1>1, <1>2, <2>2 DEF Front
  <2>4. Len(SubSeq(p, 1, m)) = m /\ \A i \in 1 .. m : SubSeq(p, 1, m)[i] = p[i]  BY <1>1, <2>2
  <2>5. c \in 1 .. m  BY <1>1, <2>3, <2>4
  <2>6. QED  BY <2>3, <2>4, <2>5
<1>3. CASE d = Append(p, <<"extra">>)
  <2>1. p \in Seq(Arriving) /\ <<"extra">> \in Arriving  BY DeliveredTyped DEF Arriving
  <2>2. QED  BY <1>3, <2>1
<1>4. QED  BY <1>2, <1>3

\* An operation of the verifier leaves in its hash state what its twin leaves in
\* the prover's, and the value it reads is what its name stands for.
Faithful(k, done, hist, sentHist, g) ==
    /\ \A i \in 1 .. Len(done) : hist[i] = sentHist[i]
    /\ \A n \in DOMAIN g : g[n] = Means(k, n)

\* A run over paired programs has the prover's history and values so far.
LEMMA RunFaithful ==
    ASSUME NEW k, NEW a, NEW b, Pairs(Twins(k), a, b), NEW p, p = Items(a, "write"),
           NEW d, d \in {p, Front(p), Append(p, <<"extra">>)},
           NEW done, NEW rest \in Seq(Moves), b = done \o rest,
           NEW hist, NEW c, NEW g, Ran(done, d, hist, c, g)
    PROVE  Faithful(k, done, hist, History(a), g) /\ Len(done) <= Len(History(a))
<1>1. done \in Seq(Moves) /\ a \in Seq(Moves) /\ b \in Seq(Moves)  BY DEF Ran, Pairs
<1>2. PICK n \in Nat : n = Len(done)  BY <1>1
<1>3. PICK m \in Nat : m = Len(rest)  OBVIOUS
<1>4. Len(b) = n + m /\ \A i \in 1 .. n : b[i] = done[i]
  <2>1. /\ Len(done \o rest) = Len(done) + Len(rest)
        /\ \A i \in 1 .. Len(done) : (done \o rest)[i] = done[i]
    BY <1>1, Concatenated
  <2>2. QED  BY <1>2, <1>3, <2>1
<1>5. Len(a) = n + m  BY <1>4 DEF Pairs
<1>6. PICK h \in Seq(Marks) : h = History(a)  BY <1>1, HistoryIs
<1>7. Len(h) = n + m /\ \A i \in 1 .. n + m : h[i] = Absorb(a[i])
  BY <1>1, <1>5, <1>6, HistoryIs
<1>8. Pairs(Alike, a, b)  BY TwinsAlike, PairsWider
<1>9. PICK kind : kind = "write"  OBVIOUS
<1>10. ItemsAre(a, kind)  BY <1>1, ItemsExact
<1>11. p \in Seq(Carried)  BY <1>9, <1>10 DEF ItemsAre
<1>12. ASSUME NEW i \in 1 .. n
       PROVE  Count(done, "read", i) = Count(b, "read", i)
  <2>1. \A j \in 1 .. i : j \in 1 .. n  OBVIOUS
  <2>2. \A j \in 1 .. i : done[j] = b[j]  BY <1>4, <2>1
  <2>3. {j \in 1 .. i : done[j][1] = "read"} = {j \in 1 .. i : b[j][1] = "read"}  BY <2>2
  <2>4. QED  BY <2>3 DEF Count
<1>13. ASSUME NEW i \in 1 .. n, done[i][1] = "read"
       PROVE  /\ d[Count(done, "read", i)] = Means(k, done[i][2])
              /\ a[i] = Write(Means(k, done[i][2]))
  <2>1. i \in 1 .. Len(a) /\ i \in 0 .. Len(a) /\ i \in 1 .. n + m  BY <1>5
  <2>2. <<a[i], b[i]>> \in Twins(k)  BY <2>1 DEF Pairs
  <2>3. b[i] = done[i]  BY <1>4
  <2>4. a[i][1] = "write" /\ a[i][2] = Means(k, done[i][2])
    BY <1>13, <2>2, <2>3 DEF Twins, Alike
  <2>5. a[i] = Write(Means(k, done[i][2]))
    <3>1. a[i] \in Moves  BY <1>1, <2>1
    <3>2. QED  BY <2>4, <3>1, MovesType DEF Write
  <2>6. Count(a, "write", i) = Count(b, "read", i)  BY <1>8, <2>1, CountAlike
  <2>7. PICK j : j = Count(a, kind, i)  OBVIOUS
  <2>8. j \in 1 .. Len(p) /\ p[j] = Means(k, done[i][2])
    BY <1>9, <1>10, <2>1, <2>4, <2>7 DEF ItemsAre
  <2>9. j = Count(done, "read", i)  BY <1>9, <1>12, <2>6, <2>7
  <2>10. j <= Len(d)
    <3>1. PICK one : one = "read"  OBVIOUS
    <3>2. ItemsAre(done, one)  BY <1>1, ItemsExact
    <3>3. PICK r \in Seq(Carried) : r = Items(done, one)  BY <3>2 DEF ItemsAre
    <3>4. Count(done, one, i) \in 1 .. Len(r) /\ Len(r) = Count(done, one, n)
      BY <1>2, <1>13, <3>1, <3>2, <3>3 DEF ItemsAre
    <3>5. Count(done, one, n) = c /\ c <= Len(d)  BY <1>2, <3>1 DEF Ran
    <3>6. j <= Len(r) /\ Len(r) <= Len(d)  BY <2>9, <3>1, <3>4, <3>5
    <3>7. d \in Seq(Arriving)  BY <1>11, DeliveredTyped
    <3>8. Len(r) \in Nat /\ Len(d) \in Nat /\ j \in Nat  BY <2>8, <3>3, <3>7
    <3>9. QED  BY <3>6, <3>8
  <2>11. d[j] = p[j]  BY <1>11, <2>8, <2>10, ArrivesAsWritten
  <2>12. QED  BY <2>5, <2>8, <2>9, <2>11
<1>14. ASSUME NEW i \in 1 .. n
       PROVE  hist[i] = h[i]
  <2>1. i \in 1 .. Len(a) /\ i \in 1 .. n + m  BY <1>5
  <2>2. hist[i] = Outcome(done[i], Count(done, "read", i), d)  BY <1>2 DEF Ran
  <2>3. CASE done[i][1] = "read"
    <3>1. hist[i] = <<"absorb", Means(k, done[i][2])>>  BY <1>13, <2>2, <2>3 DEF Outcome
    <3>2. PICK v : v = Means(k, done[i][2])  OBVIOUS
    <3>3. h[i] = Absorb(Write(v))  BY <1>7, <1>13, <2>1, <2>3, <3>2
    <3>4. Absorb(Write(v)) = <<"absorb", v>>  BY DEF Absorb, Write
    <3>5. QED  BY <3>1, <3>2, <3>3, <3>4
  <2>4. CASE done[i][1] # "read"
    <3>1. <<a[i], b[i]>> \in Twins(k)  BY <2>1 DEF Pairs
    <3>2. b[i] = done[i]  BY <1>4
    <3>3. a[i] = done[i]  BY <2>4, <3>1, <3>2 DEF Twins
    <3>4. QED  BY <1>7, <2>1, <2>2, <2>4, <3>3 DEF Outcome
  <2>5. QED  BY <2>3, <2>4
<1>15. ASSUME NEW x \in DOMAIN g
       PROVE  g[x] = Means(k, x)
  <2>1. PICK i \in 1 .. n : done[i] = Read(x) /\ g[x] = d[Count(done, "read", i)]
    BY <1>2 DEF Ran
  <2>2. done[i][1] = "read" /\ done[i][2] = x  BY <2>1 DEF Read
  <2>3. QED  BY <1>13, <2>1, <2>2
<1>16. n <= n + m  OBVIOUS
<1>17. QED  BY <1>2, <1>6, <1>7, <1>14, <1>15, <1>16 DEF Faithful

-----------------------------------------------------------------------------
(* Every opening has its evaluation in the proof.                          *)

\* All the openings of a run are in S.
OpeningsWithin(k, S) ==
    /\ \A p \in 1 .. k.proofs :
          /\ \A i \in DOMAIN k.cs.queries["advice"] :
                Query(Column(p, k.cs.queries["advice"][i][1]), k.cs.queries["advice"][i][2]) \in S
          /\ \A i \in 1 .. Len(k.cs.queries["instance"]) :
                k.cs.queries["instance"][i][1] <= k.committed =>
                    Query(Instance(p, k.cs.queries["instance"][i][1]),
                          k.cs.queries["instance"][i][2]) \in S
          /\ \A i \in 1 .. NumPermutationSets(k) :
                /\ Query(<<"z", p, i>>, 0) \in S /\ Query(<<"z", p, i>>, 1) \in S
                /\ i < NumPermutationSets(k) => Query(<<"z", p, i>>, LastRotation(k)) \in S
          /\ \A l \in 1 .. Len(k.cs.lookups) :
                /\ Query(<<"m", p, l>>, 0) \in S
                /\ \A j \in 1 .. k.chunks[l] : Query(<<"h", p, l, j>>, 0) \in S
                /\ Query(<<"acc", p, l>>, 0) \in S /\ Query(<<"acc", p, l>>, 1) \in S
          /\ \A i \in DOMAIN k.cs.trashcans : Query(<<"trash", p, i>>, 0) \in S
    /\ \A i \in DOMAIN OpenFixed(k) :
          Query(<<"fixed", OpenFixed(k)[i][1]>>, OpenFixed(k)[i][2]) \in S
    /\ \A i \in DOMAIN k.cs.permutation : Query(<<"sigma", i>>, 0) \in S
    /\ Query(<<"lin">>, 0) \in S

\* The part of a list after its first element, the list reversed.
LEMMA LastsWithin ==
    ASSUME NEW t \in Nat, NEW s, s = [i \in 1 .. t |-> s[i]], NEW T,
           \A i \in 1 .. t : i < t => s[i] \in T
    PROVE  SubSeq(Reverse(s), 2, t) \in Seq(T)
<1>1. PICK A : A = {s[i] : i \in 1 .. t}  OBVIOUS
<1>2. s \in Seq(A) /\ Len(s) = t
  <2>1. \A i \in 1 .. t : s[i] \in A  BY <1>1
  <2>2. QED  BY <2>1
<1>3. PICK b \in Seq(A) : b = Reverse(s)
  <2>1. PICK u \in Seq(A) : u = s  BY <1>2
  <2>2. Reverse(u) \in Seq(A)  BY DEF Reverse
  <2>3. QED  BY <2>1, <2>2
<1>4. Len(b) = t /\ \A i \in 1 .. t : b[i] = s[(t - i) + 1]  BY <1>2, <1>3 DEF Reverse
<1>5. ASSUME NEW i \in 2 .. t
      PROVE  b[i] \in T
  <2>1. i \in 1 .. t /\ (t - i) + 1 \in 1 .. t /\ (t - i) + 1 < t  OBVIOUS
  <2>2. QED  BY <1>4, <2>1
<1>6. CASE t < 2
  <2>1. SubSeq(b, 2, t) = <<>>  BY <1>4, <1>6
  <2>2. <<>> \in Seq(T)  OBVIOUS
  <2>3. QED  BY <1>3, <2>1, <2>2
<1>7. CASE ~(t < 2)
  <2>1. PICK m \in Nat : m = t - 1
    <3>1. t - 1 \in Nat  BY <1>7
    <3>2. QED  BY <3>1
  <2>2. PICK d \in Seq(A) : d = SubSeq(b, 2, t)
    <3>1. SubSeq(b, 2, t) \in Seq(A)  BY <1>4
    <3>2. QED  BY <3>1
  <2>3. Len(d) = m /\ \A i \in 1 .. m : d[i] = b[i + 1]  BY <1>4, <1>7, <2>1, <2>2
  <2>4. \A i \in 1 .. m : i + 1 \in 2 .. t  BY <1>7, <2>1
  <2>5. \A i \in 1 .. m : d[i] \in T  BY <1>5, <2>3, <2>4
  <2>6. d \in Seq(T)  BY <2>3, <2>5
  <2>7. QED  BY <1>3, <2>2, <2>6
<1>8. QED  BY <1>6, <1>7

\* The queries are among the openings of the columns.
LEMMA QueriesWithin ==
    ASSUME NEW k \in Keys, NEW T, OpeningsWithin(k, T)
    PROVE  ComputeQueries(k) \in Seq(T)
<1>1. PICK n \in Nat : n = k.proofs  BY KeySizes
<1>2. PICK t \in Nat : t = NumPermutationSets(k)  BY KeySizes
<1>3. PICK r \in Int : r = LastRotation(k)  BY KeySizes
<1>4. PICK lk \in Nat : lk = Len(k.cs.lookups)  BY KeyLists
<1>5. PICK tr \in Nat : DOMAIN k.cs.trashcans = 1 .. tr  BY KeyLists
<1>6. PICK sg \in Nat : DOMAIN k.cs.permutation = 1 .. sg  BY KeyLists
<1> DEFINE qi == k.cs.queries["instance"]
           qa == k.cs.queries["advice"]
           fixed == Chosen(k.cs.queries["fixed"],
                           {q \in ToSet(k.cs.queries["fixed"]) :
                               ~HasSimpleSelectorCol(k.cs, q[1])})
<1>7. PICK ni \in Nat : ni = Len(qi)  BY KeyQueries, KindsAre
<1>8. PICK na \in Nat : DOMAIN qa = 1 .. na  BY KeyQueries, KindsAre
<1>9. fixed = OpenFixed(k)  BY DEF OpenFixed
<1> HIDE DEF fixed
<1>10. PICK nf \in Nat : DOMAIN fixed = 1 .. nf
  <2>1. fixed \in Seq(Nat \X Int)  BY <1>9, OpenFixedType
  <2>2. QED  BY <2>1
<1> DEFINE S == Seq(T)
           advice(p) == [i \in 1 .. na |-> Query(Column(p, qa[i][1]), qa[i][2])]
           instance(p, i) == IF qi[i][1] <= k.committed
                             THEN <<Query(Instance(p, qi[i][1]), qi[i][2])>> ELSE <<>>
           instances(p) == FlattenSeq([i \in 1 .. ni |-> instance(p, i)])
           product(p, i) == <<Query(<<"z", p, i>>, 0), Query(<<"z", p, i>>, 1)>>
           products(p) == FlattenSeq([i \in 1 .. t |-> product(p, i)])
           lasts(p) == SubSeq(Reverse([i \in 1 .. t |-> Query(<<"z", p, i>>, r)]), 2, t)
           lookup(p, l) == <<Query(<<"m", p, l>>, 0)>>
                           \o [j \in 1 .. k.chunks[l] |-> Query(<<"h", p, l, j>>, 0)]
                           \o <<Query(<<"acc", p, l>>, 0), Query(<<"acc", p, l>>, 1)>>
           lookups(p) == FlattenSeq([l \in 1 .. lk |-> lookup(p, l)])
           trash(p) == [i \in 1 .. tr |-> Query(<<"trash", p, i>>, 0)]
           ofProof(p) == advice(p) \o instances(p) \o (products(p) \o lasts(p))
                         \o lookups(p) \o trash(p)
           fixeds == [i \in 1 .. nf |-> Query(<<"fixed", fixed[i][1]>>, fixed[i][2])]
           sigmas == [i \in 1 .. sg |-> Query(<<"sigma", i>>, 0)]
<1>12. ComputeQueries(k) = FlattenSeq([p \in 1 .. n |-> ofProof(p)]) \o fixeds \o sigmas
                           \o <<Query(<<"lin">>, 0)>>
  BY <1>1, <1>2, <1>3, <1>4, <1>5, <1>6, <1>7, <1>8, <1>10 DEF ComputeQueries, Each, fixed
<1>13. ASSUME NEW p \in 1 .. n
       PROVE  advice(p) \in S
  BY <1>1, <1>8 DEF OpeningsWithin
<1>14. ASSUME NEW p \in 1 .. n
       PROVE  instances(p) \in S
  <2>1. ASSUME NEW i \in 1 .. ni
        PROVE  instance(p, i) \in S
    <3>1. CASE qi[i][1] <= k.committed
      <4>1. Query(Instance(p, qi[i][1]), qi[i][2]) \in T
        BY <1>1, <1>7, <3>1 DEF OpeningsWithin
      <4>2. PICK q \in T : q = Query(Instance(p, qi[i][1]), qi[i][2])  BY <4>1
      <4>3. instance(p, i) = <<q>>  BY <3>1, <4>2
      <4>4. QED  BY <4>3
    <3>2. CASE ~(qi[i][1] <= k.committed)
      <4>1. instance(p, i) = <<>>  BY <3>2
      <4>2. QED  BY <4>1
    <3>3. QED  BY <3>1, <3>2
  <2> HIDE DEF instance
  <2>2. [i \in 1 .. ni |-> instance(p, i)] \in [1 .. ni -> Seq(T)]  BY <2>1
  <2>3. QED  BY <2>2, FlattenType
<1>16. ASSUME NEW p \in 1 .. n
       PROVE  products(p) \in S /\ lasts(p) \in S
  <2>1. ASSUME NEW i \in 1 .. t
        PROVE  product(p, i) \in S
    <3>1. Query(<<"z", p, i>>, 0) \in T /\ Query(<<"z", p, i>>, 1) \in T
      BY <1>1, <1>2 DEF OpeningsWithin
    <3>2. QED  BY <3>1
  <2>2. lasts(p) \in S
    <3>1. PICK s : s = [i \in 1 .. t |-> Query(<<"z", p, i>>, r)]  OBVIOUS
    <3>2. s = [i \in 1 .. t |-> s[i]]  BY <3>1
    <3>3. \A i \in 1 .. t : i < t => s[i] \in T  BY <1>1, <1>2, <1>3, <3>1 DEF OpeningsWithin
    <3>4. SubSeq(Reverse(s), 2, t) \in Seq(T)  BY <3>2, <3>3, LastsWithin
    <3>5. QED  BY <3>1, <3>4
  <2> HIDE DEF product
  <2>3. [i \in 1 .. t |-> product(p, i)] \in [1 .. t -> Seq(T)]  BY <2>1
  <2>4. QED  BY <2>2, <2>3, FlattenType
<1>17. ASSUME NEW p \in 1 .. n
       PROVE  lookups(p) \in S
  <2>1. ASSUME NEW l \in 1 .. lk
        PROVE  lookup(p, l) \in S
    <3>1. PICK c \in Nat : c = k.chunks[l]  BY <1>4, KeyLists
    <3>2. PICK P : P = 1 .. n  OBVIOUS
    <3>3. p \in P /\ \A q \in P :
              /\ Query(<<"m", q, l>>, 0) \in T
              /\ Query(<<"acc", q, l>>, 0) \in T /\ Query(<<"acc", q, l>>, 1) \in T
              /\ \A j \in 1 .. c : Query(<<"h", q, l, j>>, 0) \in T
      BY <1>1, <1>4, <3>1, <3>2 DEF OpeningsWithin
    <3>4. /\ Query(<<"m", p, l>>, 0) \in T
          /\ Query(<<"acc", p, l>>, 0) \in T /\ Query(<<"acc", p, l>>, 1) \in T
          /\ \A j \in 1 .. c : Query(<<"h", p, l, j>>, 0) \in T
      BY <3>3
    <3>5. <<Query(<<"m", p, l>>, 0)>> \in Seq(T)  BY <3>4
    <3>6. [j \in 1 .. c |-> Query(<<"h", p, l, j>>, 0)] \in Seq(T)  BY <3>4
    <3>7. <<Query(<<"acc", p, l>>, 0), Query(<<"acc", p, l>>, 1)>> \in Seq(T)  BY <3>4
    <3>8. \A a, b, d \in Seq(T) : a \o b \o d \in Seq(T)  OBVIOUS
    <3>9. QED  BY <3>1, <3>5, <3>6, <3>7, <3>8
  <2> HIDE DEF lookup
  <2>2. [l \in 1 .. lk |-> lookup(p, l)] \in [1 .. lk -> Seq(T)]  BY <2>1
  <2>3. QED  BY <2>2, FlattenType
<1>18. ASSUME NEW p \in 1 .. n
       PROVE  trash(p) \in S
  BY <1>1, <1>5 DEF OpeningsWithin
<1>19. fixeds \in S
  <2>1. \A i \in 1 .. nf : Query(<<"fixed", fixed[i][1]>>, fixed[i][2]) \in T
    BY <1>9, <1>10 DEF OpeningsWithin
  <2>2. QED  BY <2>1
<1>20. sigmas \in S
  BY <1>6 DEF OpeningsWithin
<1>21. <<Query(<<"lin">>, 0)>> \in S
  <2>1. Query(<<"lin">>, 0) \in T  BY DEF OpeningsWithin
  <2>2. QED  BY <2>1
<1> HIDE DEF advice, instances, products, lasts, lookups, trash, fixeds, sigmas
<1>22. \A a, b \in S : a \o b \in S  OBVIOUS
<1> HIDE DEF S
<1>23. ASSUME NEW p \in 1 .. n
       PROVE  ofProof(p) \in S
  BY <1>13, <1>14, <1>16, <1>17, <1>18, <1>22
<1> HIDE DEF ofProof
<1>24. FlattenSeq([p \in 1 .. n |-> ofProof(p)]) \in S
  <2>1. [p \in 1 .. n |-> ofProof(p)] \in [1 .. n -> Seq(T)]  BY <1>23 DEF S
  <2>2. QED  BY <2>1, FlattenType DEF S
<1>25. ComputeQueries(k) \in S
  BY <1>12, <1>19, <1>20, <1>21, <1>22, <1>24
<1>26. QED  BY <1>25 DEF S

\* What is in a part is in the flattened list.
LEMMA EachHolds ==
    ASSUME NEW S, NEW n \in Nat, NEW parts, parts \in [1 .. n -> Seq(S)], NEW p \in 1 .. n,
           NEW x, x \in ToSet(parts[p])
    PROVE  x \in ToSet(FlattenSeq(parts))
<1>1. \A y : y \in ToSet(FlattenSeq(parts)) <=> \E i \in 1 .. n : y \in ToSet(parts[i])
  BY FlattenExact
<1>2. QED  BY <1>1

\* What is in an entry of a table is in the flattened table.
LEMMA NestedHolds ==
    ASSUME NEW S, NEW n \in Nat, NEW t \in Nat, NEW parts,
           \A p \in 1 .. n : parts[p] \in [1 .. t -> Seq(S)],
           NEW p \in 1 .. n, NEW i \in 1 .. t, NEW x, x \in ToSet(parts[p][i])
    PROVE  x \in ToSet(FlatTable(parts, n))
<1>1. PICK flat : flat = [q \in 1 .. n |-> FlattenSeq(parts[q])]  OBVIOUS
<1>2. flat \in [1 .. n -> Seq(S)]
  <2>1. \A q \in 1 .. n : FlattenSeq(parts[q]) \in Seq(S)  BY FlattenType
  <2>2. QED  BY <1>1, <2>1
<1>3. x \in ToSet(FlattenSeq(parts[p]))
  <2>1. PICK a : a = parts[p]  OBVIOUS
  <2>2. a \in [1 .. t -> Seq(S)] /\ x \in ToSet(a[i])  BY <2>1
  <2>3. x \in ToSet(FlattenSeq(a))  BY <2>2, EachHolds
  <2>4. QED  BY <2>1, <2>3
<1>4. x \in ToSet(flat[p])  BY <1>1, <1>3
<1>5. x \in ToSet(FlattenSeq(flat))  BY <1>2, <1>4, EachHolds
<1>6. QED  BY <1>1, <1>5 DEF FlatTable

\* What is in one of two lists is in the joined list.
LEMMA JoinedHolds ==
    ASSUME NEW S, NEW a \in Seq(S), NEW b \in Seq(S), NEW x, x \in ToSet(a) \/ x \in ToSet(b)
    PROVE  x \in ToSet(a \o b)
<1>1. PICK n \in Nat : n = Len(a)  OBVIOUS
<1>2. PICK m \in Nat : m = Len(b)  OBVIOUS
<1>3. PICK e : e = a \o b  OBVIOUS
<1>4. /\ e \in Seq(S) /\ Len(e) = n + m
      /\ \A i \in 1 .. n : e[i] = a[i]
      /\ \A i \in n + 1 .. n + m : e[i] = b[i - n]
  BY <1>1, <1>2, <1>3, Concatenated
<1>5. CASE x \in ToSet(a)
  <2>1. PICK i \in 1 .. n : x = a[i]  BY <1>1, <1>5 DEF ToSet
  <2>2. i \in DOMAIN e /\ e[i] = x
    <3>1. i \in 1 .. n + m  OBVIOUS
    <3>2. QED  BY <1>4, <2>1, <3>1
  <2>3. QED  BY <1>3, <2>2 DEF ToSet
<1>6. CASE x \in ToSet(b)
  <2>1. PICK i \in 1 .. m : x = b[i]  BY <1>2, <1>6 DEF ToSet
  <2>2. i + n \in n + 1 .. n + m /\ i + n \in 1 .. n + m /\ (i + n) - n = i  OBVIOUS
  <2>3. i + n \in DOMAIN e /\ e[i + n] = x  BY <1>4, <2>1, <2>2
  <2>4. QED  BY <1>3, <2>3 DEF ToSet
<1>7. QED  BY <1>5, <1>6

\* Reading a value is an operation.
LEMMA ValueMoves ==
    ASSUME NEW v \in Values
    PROVE  Read(v) \in Moves
BY DEF Moves, Read

\* The verifier reads the evaluation of every advice query.
LEMMA AdviceReads ==
    ASSUME NEW k \in Keys, NEW p \in 1 .. k.proofs, NEW i \in DOMAIN k.cs.queries["advice"]
    PROVE  Read(Eval(Column(p, k.cs.queries["advice"][i][1]), k.cs.queries["advice"][i][2]))
               \in ToSet(ReadAdviceEvals(k))
<1>1. PICK n \in Nat : n = k.proofs  BY KeySizes
<1>2. PICK qa : qa = k.cs.queries["advice"]  OBVIOUS
<1>3. PICK na \in Nat : /\ DOMAIN qa = 1 .. na
                        /\ \A j \in 1 .. na : qa[j][1] \in Nat /\ qa[j][2] \in Int
  BY <1>2, KeyQueries, KindsAre
<1> DEFINE parts == [q \in 1 .. n |->
               [j \in 1 .. na |-> Read(Eval(Column(q, qa[j][1]), qa[j][2]))]]
<1>4. ASSUME NEW q \in 1 .. n, NEW j \in 1 .. na
      PROVE  Read(Eval(Column(q, qa[j][1]), qa[j][2])) \in Moves
  <2>1. PICK c \in Nat : c = qa[j][1]  BY <1>3
  <2>2. PICK rot \in Int : rot = qa[j][2]  BY <1>3
  <2>3. q \in Nat  BY <1>1
  <2>4. Column(q, c) \in Commitments  BY <2>1, <2>3, OfOneProof, Zenon
  <2>5. Eval(Column(q, c), rot) \in Values  BY <2>4, EvalValues
  <2>6. QED  BY <2>1, <2>2, <2>5, ValueMoves
<1>5. parts \in [1 .. n -> Seq(Moves)]
  <2>1. \A q \in 1 .. n : [j \in 1 .. na |-> Read(Eval(Column(q, qa[j][1]), qa[j][2]))]
                              \in Seq(Moves)
    BY <1>4
  <2>2. QED  BY <2>1
<1>6. ReadAdviceEvals(k) = FlattenSeq(parts)  BY <1>1, <1>2, <1>3 DEF ReadAdviceEvals, Each
<1>7. PICK x : x = Read(Eval(Column(p, qa[i][1]), qa[i][2]))  OBVIOUS
<1>8. x \in ToSet(parts[p])
  <2>1. DOMAIN parts[p] = 1 .. na /\ i \in 1 .. na /\ parts[p][i] = x  BY <1>1, <1>2, <1>3, <1>7
  <2> HIDE DEF parts
  <2>2. parts[p] \in Seq(Moves)  BY <1>1, <1>5
  <2>3. i \in DOMAIN parts[p] /\ parts[p][i] = x  BY <2>1
  <2>4. QED  BY <2>2, <2>3 DEF ToSet
<1> HIDE DEF parts
<1>9. x \in ToSet(FlattenSeq(parts))  BY <1>1, <1>5, <1>8, EachHolds
<1>10. QED  BY <1>2, <1>6, <1>7, <1>9

\* The verifier reads the evaluation of every query of a committed instance.
LEMMA InstanceReads ==
    ASSUME NEW k \in Keys, NEW p \in 1 .. k.proofs, NEW i \in 1 .. Len(k.cs.queries["instance"]),
           k.cs.queries["instance"][i][1] <= k.committed
    PROVE  Read(Eval(Instance(p, k.cs.queries["instance"][i][1]),
                     k.cs.queries["instance"][i][2])) \in ToSet(ReadInstanceEvals(k))
<1>1. PICK n \in Nat : n = k.proofs  BY KeySizes
<1>2. PICK qi : qi = k.cs.queries["instance"]  OBVIOUS
<1>3. PICK ni \in Nat : /\ ni = Len(qi)
                        /\ \A j \in 1 .. ni : qi[j][1] \in Nat /\ qi[j][2] \in Int
  BY <1>2, KeyQueries, KindsAre
<1> DEFINE item(q, j) == IF qi[j][1] <= k.committed
                         THEN <<Read(Eval(Instance(q, qi[j][1]), qi[j][2]))>> ELSE <<>>
           parts == [q \in 1 .. n |-> [j \in 1 .. ni |-> item(q, j)]]
<1>4. ASSUME NEW q \in 1 .. n, NEW j \in 1 .. ni
      PROVE  item(q, j) \in Seq(Moves)
  <2>1. PICK c \in Nat : c = qi[j][1]  BY <1>3
  <2>2. PICK rot \in Int : rot = qi[j][2]  BY <1>3
  <2>3. q \in Nat  BY <1>1
  <2>4. Instance(q, c) \in Commitments  BY <2>1, <2>3, OfOneProof, Zenon
  <2>5. Eval(Instance(q, c), rot) \in Values  BY <2>4, EvalValues
  <2>6. Read(Eval(Instance(q, c), rot)) \in Moves  BY <2>5, ValueMoves
  <2>7. <<Read(Eval(Instance(q, c), rot))>> \in Seq(Moves) /\ <<>> \in Seq(Moves)  BY <2>6
  <2>8. QED  BY <2>1, <2>2, <2>7
<1>5. ReadInstanceEvals(k)
          = FlattenSeq([q \in 1 .. n |-> FlattenSeq([j \in 1 .. ni |-> item(q, j)])])
  BY <1>1, <1>2, <1>3 DEF ReadInstanceEvals, Each
<1>6. PICK x : x = Read(Eval(Instance(p, qi[i][1]), qi[i][2]))  OBVIOUS
<1>7. i \in 1 .. ni /\ p \in 1 .. n /\ item(p, i) = <<x>>  BY <1>1, <1>2, <1>3, <1>6
<1>8. x \in ToSet(item(p, i))
  <2>1. x \in ToSet(<<x>>)  BY DEF ToSet
  <2>2. QED  BY <1>7, <2>1
<1> HIDE DEF item
<1>9. \A q \in 1 .. n : parts[q] \in [1 .. ni -> Seq(Moves)]  BY <1>4
<1>10. parts[p][i] = item(p, i)  BY <1>7
<1>11. [q \in 1 .. n |-> FlattenSeq([j \in 1 .. ni |-> item(q, j)])]
           = [q \in 1 .. n |-> FlattenSeq(parts[q])]
  OBVIOUS
<1> HIDE DEF parts
<1>12. x \in ToSet(parts[p][i])  BY <1>8, <1>10
<1>13. x \in ToSet(FlatTable(parts, n))  BY <1>7, <1>9, <1>12, NestedHolds
<1>14. ReadInstanceEvals(k) = FlatTable(parts, n)  BY <1>5, <1>11 DEF FlatTable
<1>15. QED  BY <1>2, <1>6, <1>13, <1>14

\* The verifier reads the evaluation of every trash argument.
LEMMA TrashReads ==
    ASSUME NEW k \in Keys, NEW p \in 1 .. k.proofs, NEW i \in DOMAIN k.cs.trashcans
    PROVE  Read(Eval(<<"trash", p, i>>, 0)) \in ToSet(ReadTrashEvals(k))
<1>1. PICK n \in Nat : n = k.proofs  BY KeySizes
<1>2. PICK t \in Nat : DOMAIN k.cs.trashcans = 1 .. t  BY KeyLists
<1> DEFINE parts == [q \in 1 .. n |-> [j \in 1 .. t |-> Read(Eval(<<"trash", q, j>>, 0))]]
<1>3. ASSUME NEW q \in 1 .. n, NEW j \in 1 .. t
      PROVE  Read(Eval(<<"trash", q, j>>, 0)) \in Moves
  <2>1. q \in Nat /\ j \in Nat  BY <1>1, <1>2
  <2>2. <<"trash", q, j>> \in Commitments  BY <2>1, OfOneProof, Zenon
  <2>3. QED  BY <2>2, EvalValues, ValueMoves
<1>4. parts \in [1 .. n -> Seq(Moves)]
  <2>1. \A q \in 1 .. n : [j \in 1 .. t |-> Read(Eval(<<"trash", q, j>>, 0))] \in Seq(Moves)
    BY <1>3
  <2>2. QED  BY <2>1
<1>5. ReadTrashEvals(k) = FlattenSeq(parts)  BY <1>1, <1>2 DEF ReadTrashEvals, Each
<1>6. PICK x : x = Read(Eval(<<"trash", p, i>>, 0))  OBVIOUS
<1>7. x \in ToSet(parts[p])
  <2>1. DOMAIN parts[p] = 1 .. t /\ i \in 1 .. t /\ parts[p][i] = x  BY <1>1, <1>2, <1>6
  <2> HIDE DEF parts
  <2>2. i \in DOMAIN parts[p] /\ parts[p][i] = x  BY <2>1
  <2>3. QED  BY <2>2 DEF ToSet
<1> HIDE DEF parts
<1>8. x \in ToSet(FlattenSeq(parts))  BY <1>1, <1>4, <1>7, EachHolds
<1>9. QED  BY <1>5, <1>6, <1>8

\* The verifier reads every evaluation of the permutation argument.
LEMMA PermutationReads ==
    ASSUME NEW k \in Keys
    PROVE  /\ ReadPermutationEvals(k) \in Seq(Moves)
           /\ \A i \in DOMAIN k.cs.permutation :
                 Read(Eval(<<"sigma", i>>, 0)) \in ToSet(ReadPermutationEvals(k))
           /\ \A p \in 1 .. k.proofs, i \in 1 .. NumPermutationSets(k) :
                 /\ Read(Eval(<<"z", p, i>>, 0)) \in ToSet(ReadPermutationEvals(k))
                 /\ Read(Eval(<<"z", p, i>>, 1)) \in ToSet(ReadPermutationEvals(k))
                 /\ i < NumPermutationSets(k) =>
                       Read(Eval(<<"z", p, i>>, LastRotation(k)))
                           \in ToSet(ReadPermutationEvals(k))
<1>1. PICK n \in Nat : n = k.proofs  BY KeySizes
<1>2. PICK t \in Nat : t = NumPermutationSets(k)  BY KeySizes
<1>3. PICK r \in Int : r = LastRotation(k)  BY KeySizes
<1>4. PICK sg \in Nat : DOMAIN k.cs.permutation = 1 .. sg  BY KeyLists
<1> DEFINE two(q, i) == <<Read(Eval(<<"z", q, i>>, 0)), Read(Eval(<<"z", q, i>>, 1))>>
           last(q, i) == IF t - i > 0 THEN <<Read(Eval(<<"z", q, i>>, r))>> ELSE <<>>
           item(q, i) == two(q, i) \o last(q, i)
           parts == [q \in 1 .. n |-> [i \in 1 .. t |-> item(q, i)]]
           sigmas == [i \in 1 .. sg |-> Read(Eval(<<"sigma", i>>, 0))]
<1>5. ReadPermutationEvals(k)
          = sigmas \o FlattenSeq([q \in 1 .. n |-> FlattenSeq([i \in 1 .. t |-> item(q, i)])])
  BY <1>1, <1>2, <1>3, <1>4 DEF ReadPermutationEvals, Each
<1>6. ASSUME NEW q \in 1 .. n, NEW i \in 1 .. t, NEW rot \in Int
      PROVE  Read(Eval(<<"z", q, i>>, rot)) \in Moves
  <2>1. q \in Nat /\ i \in Nat  BY <1>1, <1>2
  <2>2. <<"z", q, i>> \in Commitments  BY <2>1, OfOneProof, Zenon
  <2>3. QED  BY <2>2, EvalValues, ValueMoves
<1>7. sigmas \in Seq(Moves)
  <2>1. ASSUME NEW i \in 1 .. sg
        PROVE  Read(Eval(<<"sigma", i>>, 0)) \in Moves
    <3>1. i \in Nat  BY <1>4
    <3>2. <<"sigma", i>> \in Commitments  BY <3>1, OfTheKey, Zenon
    <3>3. QED  BY <3>2, EvalValues, ValueMoves
  <2>2. QED  BY <2>1
<1>8. ASSUME NEW q \in 1 .. n, NEW i \in 1 .. t
      PROVE  /\ item(q, i) \in Seq(Moves)
             /\ Read(Eval(<<"z", q, i>>, 0)) \in ToSet(item(q, i))
             /\ Read(Eval(<<"z", q, i>>, 1)) \in ToSet(item(q, i))
             /\ i < t => Read(Eval(<<"z", q, i>>, r)) \in ToSet(item(q, i))
  <2>1. PICK x \in Moves : x = Read(Eval(<<"z", q, i>>, 0))  BY <1>6
  <2>2. PICK y \in Moves : y = Read(Eval(<<"z", q, i>>, 1))  BY <1>6
  <2>3. PICK z \in Moves : z = Read(Eval(<<"z", q, i>>, r))  BY <1>6
  <2>4. PICK a \in Seq(Moves) : a = two(q, i)
    <3>1. two(q, i) = <<x, y>>  BY <2>1, <2>2
    <3>2. <<x, y>> \in Seq(Moves)  OBVIOUS
    <3>3. QED  BY <3>1, <3>2
  <2>5. PICK b \in Seq(Moves) : b = last(q, i)
    <3>1. <<z>> \in Seq(Moves) /\ <<>> \in Seq(Moves)  OBVIOUS
    <3>2. last(q, i) = <<z>> \/ last(q, i) = <<>>  BY <2>3
    <3>3. QED  BY <3>1, <3>2
  <2>6. x \in ToSet(a) /\ y \in ToSet(a)
    <3>1. a = <<x, y>>  BY <2>1, <2>2, <2>4
    <3>2. QED  BY <3>1 DEF ToSet
  <2>7. i < t => z \in ToSet(b)
    <3>1. ASSUME i < t
          PROVE  z \in ToSet(b)
      <4>1. t - i > 0  BY <1>2, <3>1
      <4>2. b = <<z>>  BY <2>3, <2>5, <4>1
      <4>3. QED  BY <4>2 DEF ToSet
    <3>2. QED  BY <3>1
  <2>8. a \o b \in Seq(Moves)  OBVIOUS
  <2>9. x \in ToSet(a \o b) /\ y \in ToSet(a \o b)  BY <2>6, JoinedHolds
  <2>10. i < t => z \in ToSet(a \o b)  BY <2>7, JoinedHolds
  <2>11. item(q, i) = a \o b  BY <2>4, <2>5
  <2> HIDE DEF item
  <2>12. QED  BY <2>1, <2>2, <2>3, <2>8, <2>9, <2>10, <2>11
<1> HIDE DEF item
<1>9. \A q \in 1 .. n : parts[q] \in [1 .. t -> Seq(Moves)]  BY <1>8
<1>10. \A q \in 1 .. n, i \in 1 .. t : parts[q][i] = item(q, i)  OBVIOUS
<1>11. FlatTable(parts, n)
           = FlattenSeq([q \in 1 .. n |-> FlattenSeq([i \in 1 .. t |-> item(q, i)])])
  BY DEF FlatTable
<1> HIDE DEF parts, sigmas
<1>12. PICK flat \in Seq(Moves) : flat = FlatTable(parts, n)
  <2>1. FlatTable(parts, n) \in Seq(Moves)  BY <1>9, FlattenNested DEF FlatTable
  <2>2. QED  BY <2>1
<1>13. PICK s \in Seq(Moves) : s = sigmas  BY <1>7
<1>14. PICK all : all = s \o flat  OBVIOUS
<1>15. ReadPermutationEvals(k) = all  BY <1>5, <1>11, <1>12, <1>13, <1>14
<1>16. all \in Seq(Moves)  BY <1>14
<1>17. \A x \in ToSet(flat) : x \in ToSet(all)  BY <1>14, JoinedHolds
<1>18. \A x \in ToSet(s) : x \in ToSet(all)  BY <1>14, JoinedHolds
<1>19. ASSUME NEW i \in DOMAIN k.cs.permutation
       PROVE  Read(Eval(<<"sigma", i>>, 0)) \in ToSet(all)
  <2>1. i \in DOMAIN s /\ s[i] = Read(Eval(<<"sigma", i>>, 0))
    BY <1>4, <1>13 DEF sigmas
  <2>2. QED  BY <1>18, <2>1 DEF ToSet
<1>20. ASSUME NEW q \in 1 .. n, NEW i \in 1 .. t
       PROVE  /\ Read(Eval(<<"z", q, i>>, 0)) \in ToSet(all)
              /\ Read(Eval(<<"z", q, i>>, 1)) \in ToSet(all)
              /\ i < t => Read(Eval(<<"z", q, i>>, r)) \in ToSet(all)
  <2>1. ASSUME NEW x, x \in ToSet(item(q, i))
        PROVE  x \in ToSet(all)
    <3>1. x \in ToSet(parts[q][i])  BY <1>10, <2>1
    <3>2. x \in ToSet(FlatTable(parts, n))  BY <1>9, <3>1, NestedHolds
    <3>3. QED  BY <1>12, <1>17, <3>2
  <2>2. QED  BY <1>8, <2>1
<1>21. QED  BY <1>1, <1>2, <1>3, <1>15, <1>16, <1>19, <1>20

\* The verifier reads every evaluation of the lookups.
LEMMA LookupReads ==
    ASSUME NEW k \in Keys
    PROVE  \A p \in 1 .. k.proofs, l \in 1 .. Len(k.cs.lookups) :
              /\ Read(Eval(<<"m", p, l>>, 0)) \in ToSet(ReadLookupEvals(k))
              /\ \A j \in 1 .. k.chunks[l] :
                    Read(Eval(<<"h", p, l, j>>, 0)) \in ToSet(ReadLookupEvals(k))
              /\ Read(Eval(<<"acc", p, l>>, 0)) \in ToSet(ReadLookupEvals(k))
              /\ Read(Eval(<<"acc", p, l>>, 1)) \in ToSet(ReadLookupEvals(k))
<1>1. PICK n \in Nat : n = k.proofs  BY KeySizes
<1>2. PICK t \in Nat : t = Len(k.cs.lookups)  BY KeyLists
<1> DEFINE first(q, l) == <<Read(Eval(<<"m", q, l>>, 0))>>
           chunks(q, l) == [j \in 1 .. k.chunks[l] |-> Read(Eval(<<"h", q, l, j>>, 0))]
           sums(q, l) == <<Read(Eval(<<"acc", q, l>>, 0)), Read(Eval(<<"acc", q, l>>, 1))>>
           item(q, l) == (first(q, l) \o chunks(q, l)) \o sums(q, l)
           parts == [q \in 1 .. n |-> [l \in 1 .. t |-> item(q, l)]]
<1>3. ReadLookupEvals(k)
          = FlattenSeq([q \in 1 .. n |-> FlattenSeq([l \in 1 .. t |-> item(q, l)])])
  BY <1>1, <1>2 DEF ReadLookupEvals, Each
<1>4. ASSUME NEW q \in 1 .. n, NEW l \in 1 .. t
      PROVE  /\ item(q, l) \in Seq(Moves)
             /\ Read(Eval(<<"m", q, l>>, 0)) \in ToSet(item(q, l))
             /\ \A j \in 1 .. k.chunks[l] :
                   Read(Eval(<<"h", q, l, j>>, 0)) \in ToSet(item(q, l))
             /\ Read(Eval(<<"acc", q, l>>, 0)) \in ToSet(item(q, l))
             /\ Read(Eval(<<"acc", q, l>>, 1)) \in ToSet(item(q, l))
  <2>1. PICK c \in Nat : c = k.chunks[l]  BY <1>2, KeyLists
  <2>2. q \in Nat /\ l \in Nat  BY <1>1, <1>2
  <2>3. /\ <<"m", q, l>> \in Commitments /\ <<"acc", q, l>> \in Commitments
        /\ \A j \in Nat : <<"h", q, l, j>> \in Commitments
    BY <2>2, OfOneProof, Zenon
  <2>4. PICK m \in Moves : m = Read(Eval(<<"m", q, l>>, 0))  BY <2>3, EvalValues, ValueMoves
  <2>5. PICK x \in Moves : x = Read(Eval(<<"acc", q, l>>, 0))  BY <2>3, EvalValues, ValueMoves
  <2>6. PICK y \in Moves : y = Read(Eval(<<"acc", q, l>>, 1))  BY <2>3, EvalValues, ValueMoves
  <2>7. ASSUME NEW j \in 1 .. c
        PROVE  Read(Eval(<<"h", q, l, j>>, 0)) \in Moves
    <3>1. j \in Nat  BY <2>1
    <3>2. QED  BY <2>3, <3>1, EvalValues, ValueMoves
  <2>8. PICK h \in Seq(Moves) : h = chunks(q, l)
    <3>1. [j \in 1 .. c |-> Read(Eval(<<"h", q, l, j>>, 0))] \in Seq(Moves)  BY <2>7
    <3>2. QED  BY <2>1, <3>1
  <2>9. PICK a \in Seq(Moves) : a = <<m>>
    <3>1. <<m>> \in Seq(Moves)  OBVIOUS
    <3>2. QED  BY <3>1
  <2>10. PICK b \in Seq(Moves) : b = <<x, y>>
    <3>1. <<x, y>> \in Seq(Moves)  OBVIOUS
    <3>2. QED  BY <3>1
  <2>11. item(q, l) = (a \o h) \o b  BY <2>4, <2>5, <2>6, <2>8, <2>9, <2>10
  <2>12. a \o h \in Seq(Moves) /\ (a \o h) \o b \in Seq(Moves)  OBVIOUS
  <2>13. m \in ToSet(a)  BY <2>9 DEF ToSet
  <2>14. x \in ToSet(b) /\ y \in ToSet(b)  BY <2>10 DEF ToSet
  <2>15. \A j \in 1 .. c : Read(Eval(<<"h", q, l, j>>, 0)) \in ToSet(h)
    BY <2>1, <2>8 DEF ToSet
  <2>16. \A u : u \in ToSet(a) \/ u \in ToSet(h) => u \in ToSet(a \o h)  BY JoinedHolds
  <2>17. \A u : u \in ToSet(a \o h) \/ u \in ToSet(b) => u \in ToSet((a \o h) \o b)
    BY <2>12, JoinedHolds
  <2> HIDE DEF item
  <2>18. QED
    BY <2>1, <2>4, <2>5, <2>6, <2>11, <2>12, <2>13, <2>14, <2>15, <2>16, <2>17
<1> HIDE DEF item
<1>5. \A q \in 1 .. n : parts[q] \in [1 .. t -> Seq(Moves)]  BY <1>4
<1>6. \A q \in 1 .. n, l \in 1 .. t : parts[q][l] = item(q, l)  OBVIOUS
<1>7. FlatTable(parts, n)
          = FlattenSeq([q \in 1 .. n |-> FlattenSeq([l \in 1 .. t |-> item(q, l)])])
  BY DEF FlatTable
<1> HIDE DEF parts
<1>8. ASSUME NEW q \in 1 .. n, NEW l \in 1 .. t, NEW x, x \in ToSet(item(q, l))
      PROVE  x \in ToSet(ReadLookupEvals(k))
  <2>1. x \in ToSet(parts[q][l])  BY <1>6, <1>8
  <2>2. x \in ToSet(FlatTable(parts, n))  BY <1>5, <2>1, NestedHolds
  <2>3. QED  BY <1>3, <1>7, <2>2
<1>9. QED  BY <1>1, <1>2, <1>4, <1>8

\* The openings of the columns of a key are openings.
LEMMA OpeningsOf ==
    ASSUME NEW k \in Keys
    PROVE  OpeningsWithin(k, Openings)
<1>1. PICK n \in Nat : n = k.proofs  BY KeySizes
<1>2. PICK t \in Nat : t = NumPermutationSets(k)  BY KeySizes
<1>3. PICK r \in Int : r = LastRotation(k)  BY KeySizes
<1>4. PICK lk \in Nat : lk = Len(k.cs.lookups)  BY KeyLists
<1>5. PICK tr \in Nat : DOMAIN k.cs.trashcans = 1 .. tr  BY KeyLists
<1>6. PICK sg \in Nat : DOMAIN k.cs.permutation = 1 .. sg  BY KeyLists
<1> DEFINE qi == k.cs.queries["instance"]
           qa == k.cs.queries["advice"]
<1>7. PICK ni \in Nat : ni = Len(qi) /\ \A i \in 1 .. ni : qi[i][1] \in Nat /\ qi[i][2] \in Int
  BY KeyQueries, KindsAre
<1>8. PICK na \in Nat : /\ DOMAIN qa = 1 .. na
                        /\ \A i \in 1 .. na : qa[i][1] \in Nat /\ qa[i][2] \in Int
  BY KeyQueries, KindsAre
<1>9. ASSUME NEW com \in Commitments, NEW rot \in Int
      PROVE  Query(com, rot) \in Openings
  BY DEF Openings
<1>10. ASSUME NEW p \in 1 .. n, NEW i \in 1 .. na
       PROVE  Query(Column(p, qa[i][1]), qa[i][2]) \in Openings
  <2>1. PICK c \in Nat : c = qa[i][1]  BY <1>8
  <2>2. PICK rot \in Int : rot = qa[i][2]  BY <1>8
  <2>3. p \in Nat  BY <1>1
  <2>4. Column(p, c) \in Commitments  BY <2>1, <2>3, OfOneProof, Zenon
  <2>5. Query(Column(p, c), rot) \in Openings  BY <1>9, <2>4
  <2>6. QED  BY <2>1, <2>2, <2>5
<1>11. ASSUME NEW p \in 1 .. n, NEW i \in 1 .. ni
       PROVE  Query(Instance(p, qi[i][1]), qi[i][2]) \in Openings
  <2>1. PICK c \in Nat : c = qi[i][1]  BY <1>7
  <2>2. PICK rot \in Int : rot = qi[i][2]  BY <1>7
  <2>3. p \in Nat  BY <1>1
  <2>4. Instance(p, c) \in Commitments  BY <2>1, <2>3, OfOneProof, Zenon
  <2>5. Query(Instance(p, c), rot) \in Openings  BY <1>9, <2>4
  <2>6. QED  BY <2>1, <2>2, <2>5
<1>12. ASSUME NEW p \in 1 .. n, NEW i \in 1 .. t, NEW rot \in Int
       PROVE  Query(<<"z", p, i>>, rot) \in Openings
  <2>1. p \in Nat /\ i \in Nat  BY <1>1, <1>2
  <2>2. <<"z", p, i>> \in Commitments  BY <2>1, OfOneProof, Zenon
  <2>3. QED  BY <1>9, <2>2
<1>13. ASSUME NEW p \in 1 .. n, NEW l \in 1 .. lk
       PROVE  /\ Query(<<"m", p, l>>, 0) \in Openings
              /\ \A j \in 1 .. k.chunks[l] : Query(<<"h", p, l, j>>, 0) \in Openings
              /\ Query(<<"acc", p, l>>, 0) \in Openings /\ Query(<<"acc", p, l>>, 1) \in Openings
  <2>1. PICK c \in Nat : c = k.chunks[l]  BY <1>4, KeyLists
  <2>2. p \in Nat /\ l \in Nat  BY <1>1, <1>4
  <2>3. /\ <<"m", p, l>> \in Commitments /\ <<"acc", p, l>> \in Commitments
        /\ \A j \in Nat : <<"h", p, l, j>> \in Commitments
    BY <2>2, OfOneProof, Zenon
  <2>4. QED  BY <1>9, <2>1, <2>3
<1>14. ASSUME NEW p \in 1 .. n, NEW i \in 1 .. tr
       PROVE  Query(<<"trash", p, i>>, 0) \in Openings
  <2>1. p \in Nat /\ i \in Nat  BY <1>1, <1>5
  <2>2. <<"trash", p, i>> \in Commitments  BY <2>1, OfOneProof, Zenon
  <2>3. QED  BY <1>9, <2>2
<1>15. ASSUME NEW i \in DOMAIN OpenFixed(k)
       PROVE  Query(<<"fixed", OpenFixed(k)[i][1]>>, OpenFixed(k)[i][2]) \in Openings
  <2>1. i \in 1 .. Len(OpenFixed(k))  BY OpenFixedType
  <2>2. PICK c \in Nat : c = OpenFixed(k)[i][1]  BY <2>1, OpenFixedType
  <2>3. PICK rot \in Int : rot = OpenFixed(k)[i][2]  BY <2>1, OpenFixedType
  <2>4. <<"fixed", c>> \in Commitments  BY OfTheKey, Zenon
  <2>5. QED  BY <1>9, <2>2, <2>3, <2>4
<1>16. ASSUME NEW i \in 1 .. sg
       PROVE  Query(<<"sigma", i>>, 0) \in Openings
  <2>1. i \in Nat  BY <1>6
  <2>2. <<"sigma", i>> \in Commitments  BY <2>1, OfTheKey, Zenon
  <2>3. QED  BY <1>9, <2>2
<1>17. Query(<<"lin">>, 0) \in Openings  BY <1>9, OfTheKey
<1>18. ASSUME NEW p \in 1 .. n, NEW i \in 1 .. t
       PROVE  /\ Query(<<"z", p, i>>, 0) \in Openings /\ Query(<<"z", p, i>>, 1) \in Openings
              /\ Query(<<"z", p, i>>, r) \in Openings
  BY <1>12
<1>19. QED
  BY <1>1, <1>2, <1>3, <1>4, <1>5, <1>6, <1>7, <1>8, <1>10, <1>11, <1>13, <1>14, <1>15,
     <1>16, <1>17, <1>18 DEF OpeningsWithin

\* What the verifier reads in a section it reads in its program.
LEMMA SectionsChecked ==
    ASSUME NEW k \in Keys, SlotsMatch(k), NEW f \in BOOLEAN, NEW m \in Nat, m = LastPhase(k),
           NEW i \in 1 .. m + 15, NEW x, x \in ToSet(VerifierProgram(k, f)[i])
    PROVE  x \in ToSet(Checked(k, f))
<1>1. PICK P : P = VerifierProgram(k, f)  OBVIOUS
<1>2. VerifierIs(k, f, m, P)  BY <1>1, VerifierEntries
<1>3. P \in Seq(Seq(Moves)) /\ DOMAIN P = 1 .. m + 15
  BY <1>1, <1>2, ProgramsTyped DEF VerifierIs
<1>4. PICK n \in Nat : n = m + 15  OBVIOUS
<1>5. P \in [1 .. n -> Seq(Moves)] /\ i \in 1 .. n  BY <1>3, <1>4
<1>6. x \in ToSet(P[i])  BY <1>1
<1>7. x \in ToSet(FlattenSeq(P))  BY <1>5, <1>6, EachHolds
<1>8. QED  BY <1>1, <1>7 DEF Checked

\* An opening whose evaluation is computed or is in a slot, or is read by its name.
Answered(k, f) ==
    {q \in Openings :
        \/ q = Query(<<"lin">>, 0)
        \/ \E i \in DOMAIN OpenFixed(k) :
              q = Query(<<"fixed", OpenFixed(k)[i][1]>>, OpenFixed(k)[i][2])
        \/ q.com[1] \notin {"lin", "fixed"} /\ Read(Eval(q.com, q.point)) \in ToSet(Checked(k, f))}

\* The verifier has an evaluation for every query it claims.
LEMMA AllAnswered ==
    ASSUME NEW k \in Keys, SlotsMatch(k), NEW f \in BOOLEAN
    PROVE  ComputeQueries(k) \in Seq(Answered(k, f))
<1>1. PICK A : A = Answered(k, f)  OBVIOUS
<1>2. PICK m \in Nat : m = LastPhase(k)  BY LastPhaseBounds
<1>3. PICK P : P = VerifierProgram(k, f)  OBVIOUS
<1>4. VerifierIs(k, f, m, P)  BY <1>2, <1>3, VerifierEntries
<1>5. /\ P[m + 9] = ReadInstanceEvals(k) /\ P[m + 10] = ReadAdviceEvals(k)
      /\ P[m + 12] = ReadPermutationEvals(k) /\ P[m + 13] = ReadLookupEvals(k)
      /\ P[m + 14] = ReadTrashEvals(k)
  BY <1>4 DEF VerifierIs
<1>6. /\ m + 9 \in 1 .. m + 15 /\ m + 10 \in 1 .. m + 15 /\ m + 12 \in 1 .. m + 15
      /\ m + 13 \in 1 .. m + 15 /\ m + 14 \in 1 .. m + 15
  OBVIOUS
<1>7. PICK all : all = ToSet(Checked(k, f))  OBVIOUS
<1>8. \A i \in 1 .. m + 15 : \A x \in ToSet(P[i]) : x \in all
  BY <1>2, <1>3, <1>7, SectionsChecked
<1>9. /\ \A x \in ToSet(ReadInstanceEvals(k)) : x \in all
      /\ \A x \in ToSet(ReadAdviceEvals(k)) : x \in all
      /\ \A x \in ToSet(ReadPermutationEvals(k)) : x \in all
      /\ \A x \in ToSet(ReadLookupEvals(k)) : x \in all
      /\ \A x \in ToSet(ReadTrashEvals(k)) : x \in all
  BY <1>5, <1>6, <1>8
<1>10. ASSUME NEW com, NEW rot, Query(com, rot) \in Openings, com[1] \notin {"lin", "fixed"},
              Read(Eval(com, rot)) \in all
       PROVE  Query(com, rot) \in A
  <2>1. PICK q : q = Query(com, rot)  OBVIOUS
  <2>2. q.com = com /\ q.point = rot  BY <2>1 DEF Query
  <2>3. q \in Openings /\ q.com[1] \notin {"lin", "fixed"} /\ Read(Eval(q.com, q.point)) \in all
    BY <1>10, <2>1, <2>2
  <2>4. q \in A  BY <1>1, <1>7, <2>3 DEF Answered
  <2>5. QED  BY <2>1, <2>4
<1>11. OpeningsWithin(k, Openings)  BY OpeningsOf
<1> DEFINE qi == k.cs.queries["instance"]
           qa == k.cs.queries["advice"]
<1>12. ASSUME NEW p \in 1 .. k.proofs
       PROVE  /\ \A i \in DOMAIN qa : Query(Column(p, qa[i][1]), qa[i][2]) \in A
              /\ \A i \in 1 .. Len(qi) : qi[i][1] <= k.committed =>
                    Query(Instance(p, qi[i][1]), qi[i][2]) \in A
  <2>1. ASSUME NEW i \in DOMAIN qa
        PROVE  Query(Column(p, qa[i][1]), qa[i][2]) \in A
    <3>1. Query(Column(p, qa[i][1]), qa[i][2]) \in Openings  BY <1>11 DEF OpeningsWithin
    <3>2. Read(Eval(Column(p, qa[i][1]), qa[i][2])) \in all  BY <1>9, AdviceReads
    <3>3. Column(p, qa[i][1])[1] = "advice"  BY DEF Column
    <3>4. QED  BY <1>10, <3>1, <3>2, <3>3
  <2>2. ASSUME NEW i \in 1 .. Len(qi), qi[i][1] <= k.committed
        PROVE  Query(Instance(p, qi[i][1]), qi[i][2]) \in A
    <3>1. Query(Instance(p, qi[i][1]), qi[i][2]) \in Openings
      BY <1>11, <2>2 DEF OpeningsWithin
    <3>2. Read(Eval(Instance(p, qi[i][1]), qi[i][2])) \in all  BY <1>9, <2>2, InstanceReads
    <3>3. Instance(p, qi[i][1])[1] = "instance"  BY DEF Instance
    <3>4. QED  BY <1>10, <3>1, <3>2, <3>3
  <2>3. QED  BY <2>1, <2>2
<1>13. ASSUME NEW p \in 1 .. k.proofs, NEW i \in 1 .. NumPermutationSets(k)
       PROVE  /\ Query(<<"z", p, i>>, 0) \in A /\ Query(<<"z", p, i>>, 1) \in A
              /\ i < NumPermutationSets(k) => Query(<<"z", p, i>>, LastRotation(k)) \in A
  <2>1. PICK z : z = <<"z", p, i>>  OBVIOUS
  <2>2. z[1] \notin {"lin", "fixed"}  BY <2>1
  <2>3. /\ Query(z, 0) \in Openings /\ Query(z, 1) \in Openings
        /\ i < NumPermutationSets(k) => Query(z, LastRotation(k)) \in Openings
    BY <1>11, <2>1 DEF OpeningsWithin
  <2>4. /\ Read(Eval(z, 0)) \in all /\ Read(Eval(z, 1)) \in all
        /\ i < NumPermutationSets(k) => Read(Eval(z, LastRotation(k))) \in all
    BY <1>9, <2>1, PermutationReads
  <2>5. Query(z, 0) \in A /\ Query(z, 1) \in A  BY <1>10, <2>2, <2>3, <2>4
  <2>6. i < NumPermutationSets(k) => Query(z, LastRotation(k)) \in A
    BY <1>10, <2>2, <2>3, <2>4
  <2>7. QED  BY <2>1, <2>5, <2>6
<1>14. ASSUME NEW p \in 1 .. k.proofs, NEW l \in 1 .. Len(k.cs.lookups)
       PROVE  /\ Query(<<"m", p, l>>, 0) \in A
              /\ \A j \in 1 .. k.chunks[l] : Query(<<"h", p, l, j>>, 0) \in A
              /\ Query(<<"acc", p, l>>, 0) \in A /\ Query(<<"acc", p, l>>, 1) \in A
  <2>1. PICK a : a = <<"acc", p, l>>  OBVIOUS
  <2>2. PICK u : u = <<"m", p, l>>  OBVIOUS
  <2>3. a[1] \notin {"lin", "fixed"} /\ u[1] \notin {"lin", "fixed"}  BY <2>1, <2>2
  <2>4. Query(a, 0) \in Openings /\ Query(a, 1) \in Openings /\ Query(u, 0) \in Openings
    BY <1>11, <2>1, <2>2 DEF OpeningsWithin
  <2>5. Read(Eval(a, 0)) \in all /\ Read(Eval(a, 1)) \in all /\ Read(Eval(u, 0)) \in all
    BY <1>9, <2>1, <2>2, LookupReads
  <2>6. Query(a, 0) \in A /\ Query(a, 1) \in A /\ Query(u, 0) \in A
    BY <1>10, <2>3, <2>4, <2>5
  <2>7. ASSUME NEW j \in 1 .. k.chunks[l]
        PROVE  Query(<<"h", p, l, j>>, 0) \in A
    <3>1. PICK h : h = <<"h", p, l, j>>  OBVIOUS
    <3>2. h[1] \notin {"lin", "fixed"}  BY <3>1
    <3>3. Query(h, 0) \in Openings  BY <1>11, <3>1 DEF OpeningsWithin
    <3>4. Read(Eval(h, 0)) \in all  BY <1>9, <3>1, LookupReads
    <3>5. Query(h, 0) \in A  BY <1>10, <3>2, <3>3, <3>4
    <3>6. QED  BY <3>1, <3>5
  <2>8. QED  BY <2>1, <2>2, <2>6, <2>7
<1>15. ASSUME NEW p \in 1 .. k.proofs, NEW i \in DOMAIN k.cs.trashcans
       PROVE  Query(<<"trash", p, i>>, 0) \in A
  <2>1. PICK z : z = <<"trash", p, i>>  OBVIOUS
  <2>2. z[1] \notin {"lin", "fixed"}  BY <2>1
  <2>3. Query(z, 0) \in Openings  BY <1>11, <2>1 DEF OpeningsWithin
  <2>4. Read(Eval(z, 0)) \in all  BY <1>9, <2>1, TrashReads
  <2>5. Query(z, 0) \in A  BY <1>10, <2>2, <2>3, <2>4
  <2>6. QED  BY <2>1, <2>5
<1>16. ASSUME NEW i \in DOMAIN OpenFixed(k)
       PROVE  Query(<<"fixed", OpenFixed(k)[i][1]>>, OpenFixed(k)[i][2]) \in A
  <2>1. Query(<<"fixed", OpenFixed(k)[i][1]>>, OpenFixed(k)[i][2]) \in Openings
    BY <1>11 DEF OpeningsWithin
  <2>2. QED  BY <1>1, <2>1 DEF Answered
<1>17. ASSUME NEW i \in DOMAIN k.cs.permutation
       PROVE  Query(<<"sigma", i>>, 0) \in A
  <2>1. PICK z : z = <<"sigma", i>>  OBVIOUS
  <2>2. z[1] \notin {"lin", "fixed"}  BY <2>1
  <2>3. Query(z, 0) \in Openings  BY <1>11, <2>1 DEF OpeningsWithin
  <2>4. Read(Eval(z, 0)) \in all  BY <1>9, <2>1, PermutationReads
  <2>5. Query(z, 0) \in A  BY <1>10, <2>2, <2>3, <2>4
  <2>6. QED  BY <2>1, <2>5
<1>18. Query(<<"lin">>, 0) \in A
  <2>1. Query(<<"lin">>, 0) \in Openings  BY <1>11 DEF OpeningsWithin
  <2>2. QED  BY <1>1, <2>1 DEF Answered
<1>19. OpeningsWithin(k, A)
  BY <1>12, <1>13, <1>14, <1>15, <1>16, <1>17, <1>18 DEF OpeningsWithin
<1>20. QED  BY <1>1, <1>19, QueriesWithin

-----------------------------------------------------------------------------
(* The fixed evaluations, with ones inserted for simple selectors.         *)

\* x is z with e inserted at n.
IsInserted(x, z, V, l, n, e) ==
    /\ x \in Seq(V) /\ Len(x) = l + 1
    /\ \A i \in 1 .. n - 1 : x[i] = z[i]
    /\ x[n] = e
    /\ \A i \in n + 1 .. l + 1 : x[i] = z[i - 1]

\* A list with one element put in.
LEMMA Inserted ==
    ASSUME NEW V, NEW z \in Seq(V), NEW e \in V, NEW l \in Nat, l = Len(z), NEW n \in 1 .. l + 1
    PROVE  IsInserted(InsertAt(z, n, e), z, V, l, n, e)
<1>1. PICK b \in Nat : b = n - 1  OBVIOUS
<1>2. PICK c \in Nat : c = (l - n) + 1
  <2>1. (l - n) + 1 \in Nat  OBVIOUS
  <2>2. QED  BY <2>1
<1>3. PICK u \in Seq(V) : u = SubSeq(z, 1, n - 1)
  <2>1. SubSeq(z, 1, n - 1) \in Seq(V)
    <3>1. \A i \in 1 .. n - 1 : z[i] \in V  OBVIOUS
    <3>2. QED  BY <3>1
  <2>2. QED  BY <2>1
<1>4. Len(u) = b /\ \A i \in 1 .. b : u[i] = z[i]  BY <1>1, <1>3
<1>5. PICK v \in Seq(V) : v = SubSeq(z, n, Len(z))
  <2>1. SubSeq(z, n, Len(z)) \in Seq(V)
    <3>1. \A i \in n .. l : z[i] \in V  OBVIOUS
    <3>2. QED  BY <3>1
  <2>2. QED  BY <2>1
<1>6. Len(v) = c /\ \A i \in 1 .. c : v[i] = z[(i + n) - 1]  BY <1>2, <1>5
<1>7. PICK o \in Seq(V) : o = <<e>> /\ Len(o) = 1 /\ o[1] = e
  <2>1. <<e>> \in Seq(V) /\ Len(<<e>>) = 1 /\ <<e>>[1] = e  OBVIOUS
  <2>2. QED  BY <2>1
<1>8. PICK x : x = u \o o  OBVIOUS
<1>9. /\ x \in Seq(V) /\ Len(x) = b + 1
      /\ \A i \in 1 .. b : x[i] = u[i]
      /\ \A i \in b + 1 .. b + 1 : x[i] = o[i - b]
  <2>1. PICK U \in Seq(V) : U = u  BY <1>4
  <2>2. /\ U \o o \in Seq(V) /\ Len(U \o o) = Len(U) + Len(o)
        /\ \A i \in 1 .. Len(U) : (U \o o)[i] = U[i]
        /\ \A i \in Len(U) + 1 .. Len(U) + Len(o) : (U \o o)[i] = o[i - Len(U)]
    BY <1>7, Concatenated
  <2>3. x = U \o o /\ Len(U) = b /\ Len(o) = 1  BY <1>4, <1>7, <1>8, <2>1
  <2>4. x \in Seq(V) /\ Len(x) = b + 1  BY <2>2, <2>3
  <2>5. \A i \in 1 .. b : x[i] = u[i]  BY <2>1, <2>2, <2>3
  <2>6. \A i \in b + 1 .. b + 1 : x[i] = o[i - b]
    <3>1. \A i \in b + 1 .. b + 1 : i \in Len(U) + 1 .. Len(U) + Len(o)  BY <2>3
    <3>2. QED  BY <2>2, <2>3, <3>1
  <2>7. QED  BY <2>4, <2>5, <2>6
<1>10. PICK y : y = x \o v  OBVIOUS
<1>11. /\ y \in Seq(V) /\ Len(y) = (b + 1) + c
       /\ \A i \in 1 .. b + 1 : y[i] = x[i]
       /\ \A i \in (b + 1) + 1 .. (b + 1) + c : y[i] = v[i - (b + 1)]
  <2>1. PICK d \in Nat : d = b + 1  OBVIOUS
  <2>2. Len(x) = d /\ x \in Seq(V)  BY <1>9, <2>1
  <2>3. /\ y \in Seq(V) /\ Len(y) = d + c
        /\ \A i \in 1 .. d : y[i] = x[i]
        /\ \A i \in d + 1 .. d + c : y[i] = v[i - d]
    <3>1. PICK X \in Seq(V) : X = x  BY <2>2
    <3>2. /\ X \o v \in Seq(V) /\ Len(X \o v) = Len(X) + Len(v)
          /\ \A i \in 1 .. Len(X) : (X \o v)[i] = X[i]
          /\ \A i \in Len(X) + 1 .. Len(X) + Len(v) : (X \o v)[i] = v[i - Len(X)]
      BY Concatenated
    <3>3. y = X \o v /\ Len(X) = d /\ Len(v) = c  BY <1>6, <1>10, <2>2, <3>1
    <3>4. QED  BY <3>1, <3>2, <3>3
  <2>4. QED  BY <2>1, <2>3
<1>12. y = InsertAt(z, n, e)  BY <1>3, <1>5, <1>7, <1>8, <1>10 DEF InsertAt
<1>13. Len(y) = l + 1  BY <1>1, <1>2, <1>11
<1>14. ASSUME NEW i \in 1 .. n - 1
       PROVE  y[i] = z[i]
  <2>1. i \in 1 .. b /\ i \in 1 .. b + 1  BY <1>1
  <2>2. QED  BY <1>4, <1>9, <1>11, <2>1
<1>15. y[n] = e
  <2>1. n \in b + 1 .. b + 1 /\ n \in 1 .. b + 1 /\ n - b = 1  BY <1>1
  <2>2. QED  BY <1>7, <1>9, <1>11, <2>1
<1>16. ASSUME NEW i \in n + 1 .. l + 1
       PROVE  y[i] = z[i - 1]
  <2>1. i \in (b + 1) + 1 .. (b + 1) + c  BY <1>1, <1>2
  <2>2. PICK j \in 1 .. c : j = i - (b + 1)
    <3>1. i - (b + 1) \in 1 .. c  BY <1>1, <1>2
    <3>2. QED  BY <3>1
  <2>3. (j + n) - 1 = i - 1  BY <1>1, <2>2
  <2>4. QED  BY <1>6, <1>11, <2>1, <2>2, <2>3
<1>17. QED  BY <1>11, <1>12, <1>13, <1>14, <1>15, <1>16 DEF IsInserted

\* The chosen of the first elements are the first of the chosen.
LEMMA ChosenPrefix ==
    ASSUME NEW T, NEW s \in Seq(T), NEW S, NEW f, ChosenValues(f, T, s, S),
           NEW N \in Nat, N = Len(s), NEW n \in 0 .. N
    PROVE  /\ Len(f[n]) <= Len(f[N])
           /\ \A j \in 1 .. Len(f[n]) : f[N][j] = f[n][j]
<1>1. /\ f \in [0 .. N -> Seq(T)]
      /\ \A i \in 1 .. N : f[i] = IF s[i] \in S THEN Append(f[i - 1], s[i]) ELSE f[i - 1]
  BY DEF ChosenValues
<1>2. PICK a \in Seq(T) : a = f[n]  BY <1>1
<1> DEFINE Kept(m) == Len(a) <= Len(f[m]) /\ \A j \in 1 .. Len(a) : f[m][j] = a[j]
           Good == {m \in Nat : n + m <= N => Kept(n + m)}
<1>3. 0 \in Good  BY <1>2
<1>4. ASSUME NEW m \in Nat, m \in Good
      PROVE  m + 1 \in Good
  <2> SUFFICES ASSUME n + (m + 1) <= N
               PROVE  Kept(n + (m + 1))
    OBVIOUS
  <2>1. PICK q \in 0 .. N : q = n + m  
    <3>1. n + m \in 0 .. N  OBVIOUS
    <3>2. QED  BY <3>1
  <2>2. PICK r \in 1 .. N : r = q + 1 /\ r - 1 = q /\ r = n + (m + 1)
    <3>1. q + 1 \in 1 .. N /\ (q + 1) - 1 = q /\ q + 1 = n + (m + 1)  BY <2>1
    <3>2. QED  BY <3>1
  <2>3. Kept(q)  BY <1>4, <2>1
  <2>4. PICK u \in Seq(T) : u = f[q]  BY <1>1
  <2>5. PICK v \in Seq(T) : v = f[r]
    <3>1. r \in 0 .. N  OBVIOUS
    <3>2. QED  BY <1>1, <3>1
  <2>6. Len(a) <= Len(u) /\ \A j \in 1 .. Len(a) : u[j] = a[j]  BY <2>3, <2>4
  <2>7. Len(a) \in Nat /\ Len(u) \in Nat  OBVIOUS
  <2>8. Len(a) <= Len(v) /\ \A j \in 1 .. Len(a) : v[j] = a[j]
    <3>1. CASE s[r] \in S
      <4>1. v = Append(u, s[r])  BY <1>1, <2>2, <2>4, <2>5, <3>1
      <4>2. s[r] \in T  OBVIOUS
      <4>3. Len(v) = Len(u) + 1 /\ \A j \in 1 .. Len(u) : v[j] = u[j]  BY <4>1, <4>2
      <4>4. \A j \in 1 .. Len(a) : j \in 1 .. Len(u)  BY <2>6, <2>7
      <4>5. QED  BY <2>6, <2>7, <4>3, <4>4
    <3>2. CASE s[r] \notin S
      <4>1. v = u  BY <1>1, <2>2, <2>4, <2>5, <3>2
      <4>2. QED  BY <2>6, <4>1
    <3>3. QED  BY <3>1, <3>2
  <2>9. QED  BY <2>2, <2>5, <2>8
<1>5. \A m \in Nat : m \in Good
  <2> HIDE DEF Good
  <2>1. QED  BY <1>3, <1>4, SetInduction
<1>6. PICK m \in Nat : n + m = N
  <2>1. N - n \in Nat /\ n + (N - n) = N  OBVIOUS
  <2>2. QED  BY <2>1
<1>7. Kept(N)
  <2>1. m \in Good  BY <1>5
  <2>2. n + m <= N  BY <1>6
  <2>3. Kept(n + m)  BY <2>1, <2>2
  <2>4. QED  BY <1>6, <2>3
<1>8. QED  BY <1>2, <1>7

\* How many of the first elements are chosen, and which element each one is.
CountsChosen(c, N, F, s, S, open) ==
    /\ c \in [0 .. N -> 0 .. F] /\ c[0] = 0
    /\ \A n \in 1 .. N : IF s[n] \in S THEN c[n] = c[n - 1] + 1 /\ open[c[n]] = s[n]
                                       ELSE c[n] = c[n - 1]

\* The chosen elements, counted along the list.
LEMMA ChosenCounts ==
    ASSUME NEW T, NEW s \in Seq(T), NEW S, NEW f, ChosenValues(f, T, s, S),
           NEW N \in Nat, N = Len(s), NEW F \in Nat, F = Len(f[N])
    PROVE  \E c : CountsChosen(c, N, F, s, S, f[N])
<1>1. /\ f \in [0 .. N -> Seq(T)] /\ f[0] = <<>>
      /\ \A i \in 1 .. N : f[i] = IF s[i] \in S THEN Append(f[i - 1], s[i]) ELSE f[i - 1]
  BY DEF ChosenValues
<1>2. ASSUME NEW n \in 0 .. N
      PROVE  /\ Len(f[n]) \in 0 .. F
             /\ \A j \in 1 .. Len(f[n]) : f[N][j] = f[n][j]
  <2>1. f[n] \in Seq(T)  BY <1>1
  <2>2. Len(f[n]) \in Nat  BY <2>1
  <2>3. Len(f[n]) <= F /\ \A j \in 1 .. Len(f[n]) : f[N][j] = f[n][j]  BY ChosenPrefix
  <2>4. QED  BY <2>2, <2>3
<1>3. PICK c : c = [n \in 0 .. N |-> Len(f[n])]  OBVIOUS
<1>4. c \in [0 .. N -> 0 .. F]  BY <1>2, <1>3
<1>5. c[0] = 0
  <2>1. 0 \in 0 .. N /\ Len(f[0]) = 0  BY <1>1
  <2>2. QED  BY <1>3, <2>1
<1>6. ASSUME NEW n \in 1 .. N
      PROVE  IF s[n] \in S THEN c[n] = c[n - 1] + 1 /\ f[N][c[n]] = s[n]
                           ELSE c[n] = c[n - 1]
  <2>1. n \in 0 .. N /\ n - 1 \in 0 .. N  OBVIOUS
  <2>2. PICK u \in Seq(T) : u = f[n - 1]  BY <1>1, <2>1
  <2>3. PICK v \in Seq(T) : v = f[n]  BY <1>1, <2>1
  <2>4. c[n] = Len(v) /\ c[n - 1] = Len(u)  BY <1>3, <2>1, <2>2, <2>3
  <2>5. CASE s[n] \in S
    <3>1. v = Append(u, s[n])  BY <1>1, <2>2, <2>3, <2>5
    <3>2. PICK e \in T : e = s[n]  OBVIOUS
    <3>3. Len(v) = Len(u) + 1 /\ v[Len(u) + 1] = e  BY <3>1, <3>2
    <3>4. PICK l \in Nat : l = Len(v)  OBVIOUS
    <3>5. l \in 1 .. Len(v) /\ v[l] = e  BY <3>3, <3>4
    <3>6. f[N][l] = e  BY <1>2, <2>1, <2>3, <3>5
    <3>7. QED  BY <2>4, <2>5, <3>2, <3>3, <3>4, <3>6
  <2>6. CASE s[n] \notin S
    <3>1. v = u  BY <1>1, <2>2, <2>3, <2>6
    <3>2. QED  BY <2>4, <2>6, <3>1
  <2>7. QED  BY <2>5, <2>6
<1>7. CountsChosen(c, N, F, s, S, f[N])  BY <1>4, <1>5, <1>6 DEF CountsChosen
<1>8. QED  BY <1>7

\* The values after n queries: the n first in their places, the others as read.
Placed(c, N, F, s, S, W, E, one, n) ==
    [i \in 1 .. (F + n) - c[n] |->
        IF i <= n THEN IF s[i] \in S THEN E[s[i]] ELSE one ELSE W[(i - n) + c[n]]]

IsPlaced(z, c, N, F, s, S, V, W, E, one, n) ==
    /\ z \in Seq(V) /\ Len(z) = (F + n) - c[n]
    /\ \A i \in 1 .. (F + n) - c[n] :
          z[i] = IF i <= n THEN IF s[i] \in S THEN E[s[i]] ELSE one ELSE W[(i - n) + c[n]]

\* The evaluations with the ones put in so far are a list.
LEMMA PlacedType ==
    ASSUME NEW T, NEW V, NEW N \in Nat, NEW F \in Nat, NEW s \in [1 .. N -> T], NEW S, NEW open,
           NEW c, CountsChosen(c, N, F, s, S, open), NEW W \in [1 .. F -> V],
           NEW E \in [T -> V], NEW one \in V, NEW n \in 0 .. N
    PROVE  IsPlaced(Placed(c, N, F, s, S, W, E, one, n), c, N, F, s, S, V, W, E, one, n)
<1>1. c[n] \in 0 .. F  BY DEF CountsChosen
<1>2. PICK d \in 0 .. F : d = c[n]  BY <1>1
<1>3. PICK l \in Nat : l = (F + n) - d
  <2>1. (F + n) - d \in Nat  OBVIOUS
  <2>2. QED  BY <2>1
<1> DEFINE at(i) == IF i <= n THEN IF s[i] \in S THEN E[s[i]] ELSE one ELSE W[(i - n) + d]
<1>4. ASSUME NEW i \in 1 .. l
      PROVE  at(i) \in V
  <2>1. CASE i <= n
    <3>1. i \in 1 .. N  BY <2>1
    <3>2. s[i] \in T  BY <3>1
    <3>3. QED  BY <2>1, <3>2
  <2>2. CASE ~(i <= n)
    <3>1. (i - n) + d \in 1 .. F  BY <1>3, <2>2
    <3>2. W[(i - n) + d] \in V  BY <3>1
    <3>3. QED  BY <2>2, <3>2
  <2>3. QED  BY <2>1, <2>2
<1>5. PICK z : z = Placed(c, N, F, s, S, W, E, one, n)  OBVIOUS
<1>6. z = [i \in 1 .. l |-> at(i)]  BY <1>2, <1>3, <1>5 DEF Placed
<1> HIDE DEF at
<1>7. z \in Seq(V) /\ Len(z) = l /\ \A i \in 1 .. l : z[i] = at(i)  BY <1>4, <1>6
<1>8. QED  BY <1>2, <1>3, <1>5, <1>7 DEF at, IsPlaced

\* The values read are the evaluations of the chosen.
AsChosen(W, E, F, open) == \A j \in 1 .. F : W[j] = E[open[j]]

\* z is what y becomes at query n.
ComesNext(z, y, s, S, n, one) == z = IF s[n] \in S THEN y ELSE InsertAt(y, n, one)

\* Putting in a one at its place.
LEMMA PlacedFollows ==
    ASSUME NEW T, NEW V, NEW N \in Nat, NEW F \in Nat, NEW s \in [1 .. N -> T], NEW S, NEW open,
           NEW c, CountsChosen(c, N, F, s, S, open), NEW W \in [1 .. F -> V],
           NEW E \in [T -> V], NEW one \in V, NEW n \in 1 .. N,
           AsChosen(W, E, F, open)
    PROVE  ComesNext(Placed(c, N, F, s, S, W, E, one, n),
                     Placed(c, N, F, s, S, W, E, one, n - 1), s, S, n, one)
<1>1. PICK b \in 0 .. N : b = n - 1
  <2>1. n - 1 \in 0 .. N  OBVIOUS
  <2>2. QED  BY <2>1
<1>2. n \in 0 .. N  OBVIOUS
<1>3. c \in [0 .. N -> 0 .. F]  BY DEF CountsChosen
<1>4. PICK d \in 0 .. F : d = c[n]  BY <1>2, <1>3
<1>5. PICK e \in 0 .. F : e = c[b]  BY <1>3
<1>6. PICK z : z = Placed(c, N, F, s, S, W, E, one, n)  OBVIOUS
<1>7. PICK y : y = Placed(c, N, F, s, S, W, E, one, b)  OBVIOUS
<1> DEFINE at(i) == IF s[i] \in S THEN E[s[i]] ELSE one
<1>8. PICK l \in Nat : l = (F + n) - d
  <2>1. (F + n) - d \in Nat  OBVIOUS
  <2>2. QED  BY <2>1
<1>9. PICK k \in Nat : k = (F + b) - e
  <2>1. (F + b) - e \in Nat  OBVIOUS
  <2>2. QED  BY <2>1
<1>10. z \in Seq(V) /\ Len(z) = l
       /\ \A i \in 1 .. l : z[i] = IF i <= n THEN at(i) ELSE W[(i - n) + d]
  <2>1. IsPlaced(z, c, N, F, s, S, V, W, E, one, n)  BY <1>2, <1>6, PlacedType
  <2>2. QED  BY <1>4, <1>8, <2>1 DEF IsPlaced
<1>11. y \in Seq(V) /\ Len(y) = k
       /\ \A i \in 1 .. k : y[i] = IF i <= b THEN at(i) ELSE W[(i - b) + e]
  <2>1. IsPlaced(y, c, N, F, s, S, V, W, E, one, b)  BY <1>7, PlacedType
  <2>2. QED  BY <1>5, <1>9, <2>1 DEF IsPlaced
<1>12. CASE s[n] \in S
  <2>1. d = e + 1 /\ open[d] = s[n]
    BY <1>1, <1>4, <1>5, <1>12 DEF CountsChosen
  <2>2. k = l  BY <1>1, <1>8, <1>9, <2>1
  <2>3. ASSUME NEW i \in 1 .. l
        PROVE  z[i] = y[i]
    <3>1. CASE i <= b
      <4>1. i <= n /\ i \in 1 .. k  BY <1>1, <2>2, <3>1
      <4>2. z[i] = at(i) /\ y[i] = at(i)  BY <1>10, <1>11, <3>1, <4>1
      <4>3. QED  BY <4>2
    <3>2. CASE i = n
      <4>1. ~(i <= b) /\ i <= n /\ (i - b) + e = d /\ i \in 1 .. k  BY <1>1, <2>1, <2>2, <3>2
      <4>2. z[i] = at(i) /\ y[i] = W[d]  BY <1>10, <1>11, <4>1
      <4>3. d \in 1 .. F  BY <2>1
      <4>4. W[d] = E[s[n]]  BY <2>1, <4>3 DEF AsChosen
      <4>5. at(i) = E[s[n]]  BY <1>12, <3>2
      <4>6. QED  BY <4>2, <4>4, <4>5
    <3>3. CASE ~(i <= n)
      <4>1. ~(i <= b) /\ (i - b) + e = (i - n) + d /\ i \in 1 .. k  BY <1>1, <2>1, <2>2, <3>3
      <4>2. z[i] = W[(i - n) + d] /\ y[i] = W[(i - b) + e]  BY <1>10, <1>11, <3>3, <4>1
      <4>3. QED  BY <4>1, <4>2
    <3>4. i <= b \/ i = n \/ ~(i <= n)  BY <1>1
    <3>5. QED  BY <3>1, <3>2, <3>3, <3>4
  <2>4. z = y
    <3> HIDE DEF at
    <3>1. QED  BY <1>10, <1>11, <2>2, <2>3, SameLists
  <2>5. QED  BY <1>1, <1>6, <1>7, <1>12, <2>4 DEF ComesNext
<1>13. CASE s[n] \notin S
  <2>1. d = e
    BY <1>1, <1>4, <1>5, <1>13 DEF CountsChosen
  <2>2. l = k + 1  BY <1>1, <1>8, <1>9, <2>1
  <2>3. n \in 1 .. k + 1  BY <1>1, <1>9
  <2>4. PICK x : x = InsertAt(y, n, one)  OBVIOUS
  <2>5. x \in Seq(V) /\ Len(x) = k + 1
        /\ (\A i \in 1 .. n - 1 : x[i] = y[i])
        /\ x[n] = one
        /\ (\A i \in n + 1 .. k + 1 : x[i] = y[i - 1])
    <3>1. y \in Seq(V) /\ k = Len(y)  BY <1>11
    <3>2. IsInserted(x, y, V, k, n, one)  BY <2>3, <2>4, <3>1, Inserted
    <3>3. QED  BY <3>2 DEF IsInserted
  <2>6. ASSUME NEW i \in 1 .. l
        PROVE  z[i] = x[i]
    <3>1. CASE i <= b
      <4>1. i <= n /\ i \in 1 .. k /\ i \in 1 .. n - 1  BY <1>1, <1>9, <3>1
      <4>2. z[i] = at(i) /\ y[i] = at(i)  BY <1>10, <1>11, <3>1, <4>1
      <4>3. x[i] = y[i]  BY <2>5, <4>1
      <4>4. QED  BY <4>2, <4>3
    <3>2. CASE i = n
      <4>1. z[i] = at(i)  BY <1>10, <3>2
      <4>2. at(i) = one  BY <1>13, <3>2
      <4>3. QED  BY <2>5, <3>2, <4>1, <4>2
    <3>3. CASE ~(i <= n)
      <4>1. PICK j \in 1 .. k : j = i - 1
        <5>1. i - 1 \in 1 .. k  BY <2>2, <3>3
        <5>2. QED  BY <5>1
      <4>2. ~(j <= b) /\ (j - b) + e = (i - n) + d  BY <1>1, <2>1, <3>3, <4>1
      <4>3. z[i] = W[(i - n) + d] /\ y[j] = W[(j - b) + e]  BY <1>10, <1>11, <3>3, <4>2
      <4>4. i \in n + 1 .. k + 1  BY <2>2, <3>3
      <4>5. x[i] = y[j]  BY <2>5, <4>1, <4>4
      <4>6. QED  BY <4>2, <4>3, <4>5
    <3>4. i <= b \/ i = n \/ ~(i <= n)  BY <1>1
    <3>5. QED  BY <3>1, <3>2, <3>3, <3>4
  <2>7. z = x
    <3> HIDE DEF at
    <3>1. QED  BY <1>10, <2>2, <2>5, <2>6, SameLists
  <2>8. QED  BY <1>1, <1>6, <1>7, <1>13, <2>4, <2>7 DEF ComesNext
<1>14. QED  BY <1>12, <1>13

\* The equation of the recursive function behind FixedEvals.
FixedRun(evals, k, held) ==
    LET fixed == k.cs.queries["fixed"]
    IN  evals = [n \in 0 .. Len(fixed) |->
            IF n = 0 THEN [i \in 1 .. FixedSlots(k) |-> held[<<"slot", i>>]]
            ELSE LET before == evals[n - 1]
                 IN  IF HasSimpleSelectorCol(k.cs, fixed[n][1])
                     THEN InsertAt(before, n, <<"one">>) ELSE before]

\* The values of the slots, with ones in the places of the queries that are not in S.
OnesRun(e, N, s, S, W, one) ==
    e = [n \in 0 .. N |->
            IF n = 0 THEN W
            ELSE IF s[n] \in S THEN e[n - 1] ELSE InsertAt(e[n - 1], n, one)]

PlacesOnes(g, c, N, F, s, S, W, E, one) ==
    /\ OnesRun(g, N, s, S, W, one)
    /\ \A n \in 0 .. N : g[n] = Placed(c, N, F, s, S, W, E, one, n)

\* The evaluations of all fixed queries: what was read, and a one for each simple selector.
LEMMA OnesInserted ==
    ASSUME NEW T, NEW V, NEW N \in Nat, NEW F \in Nat, NEW s \in [1 .. N -> T], NEW S, NEW open,
           NEW c, CountsChosen(c, N, F, s, S, open), NEW W \in Seq(V), Len(W) = F,
           NEW E \in [T -> V], NEW one \in V, AsChosen(W, E, F, open)
    PROVE  \E g : PlacesOnes(g, c, N, F, s, S, W, E, one)
<1>1. W \in [1 .. F -> V]  OBVIOUS
<1>2. PICK g : g = [n \in 0 .. N |-> Placed(c, N, F, s, S, W, E, one, n)]  OBVIOUS
<1>3. Placed(c, N, F, s, S, W, E, one, 0) = W
  <2>1. PICK z : z = Placed(c, N, F, s, S, W, E, one, 0)  OBVIOUS
  <2>2. 0 \in 0 .. N  OBVIOUS
  <2>3. IsPlaced(z, c, N, F, s, S, V, W, E, one, 0)  BY <1>1, <2>1, <2>2, PlacedType
  <2>4. c[0] = 0  BY DEF CountsChosen
  <2>5. z \in Seq(V) /\ Len(z) = F /\ \A i \in 1 .. F : z[i] = W[i]
    BY <2>3, <2>4 DEF IsPlaced
  <2>6. z = W  BY <2>5, SameLists
  <2>7. QED  BY <2>1, <2>6
<1>4. ASSUME NEW n \in 1 .. N
      PROVE  g[n] = IF s[n] \in S THEN g[n - 1] ELSE InsertAt(g[n - 1], n, one)
  <2>1. n \in 0 .. N /\ n - 1 \in 0 .. N  OBVIOUS
  <2>2. PICK y : y = Placed(c, N, F, s, S, W, E, one, n - 1)  OBVIOUS
  <2>3. PICK z : z = Placed(c, N, F, s, S, W, E, one, n)  OBVIOUS
  <2>4. ComesNext(z, y, s, S, n, one)  BY <1>1, <2>2, <2>3, PlacedFollows
  <2>5. g[n] = z /\ g[n - 1] = y  BY <1>2, <2>1, <2>2, <2>3
  <2>6. QED  BY <2>4, <2>5 DEF ComesNext
<1>5. g[0] = W
  <2>1. 0 \in 0 .. N  OBVIOUS
  <2>2. QED  BY <1>2, <1>3, <2>1
<1>6. OnesRun(g, N, s, S, W, one)
  <2>1. g = [n \in 0 .. N |-> g[n]]  BY <1>2
  <2>2. ASSUME NEW n \in 0 .. N
        PROVE  g[n] = IF n = 0 THEN W
                      ELSE IF s[n] \in S THEN g[n - 1] ELSE InsertAt(g[n - 1], n, one)
    <3>1. CASE n = 0  BY <1>5, <3>1
    <3>2. CASE n # 0
      <4>1. n \in 1 .. N  BY <3>2
      <4>2. QED  BY <1>4, <3>2, <4>1
    <3>3. QED  BY <3>1, <3>2
  <2>3. QED  BY <2>1, <2>2 DEF OnesRun
<1>7. PlacesOnes(g, c, N, F, s, S, W, E, one)  BY <1>2, <1>6 DEF PlacesOnes
<1>8. QED  BY <1>7

\* Two runs are the same.
LEMMA OneOnesRun ==
    ASSUME NEW N \in Nat, NEW s, NEW S, NEW W, NEW one, NEW g, OnesRun(g, N, s, S, W, one),
           NEW h, OnesRun(h, N, s, S, W, one)
    PROVE  h[N] = g[N]
<1>1. /\ g[0] = W
      /\ \A n \in 1 .. N : g[n] = IF s[n] \in S THEN g[n - 1] ELSE InsertAt(g[n - 1], n, one)
  <2>1. g = [n \in 0 .. N |-> IF n = 0 THEN W
                ELSE IF s[n] \in S THEN g[n - 1] ELSE InsertAt(g[n - 1], n, one)]
    BY DEF OnesRun
  <2>2. QED  BY <2>1
<1>2. /\ h[0] = W
      /\ \A n \in 1 .. N : h[n] = IF s[n] \in S THEN h[n - 1] ELSE InsertAt(h[n - 1], n, one)
  <2>1. h = [n \in 0 .. N |-> IF n = 0 THEN W
                ELSE IF s[n] \in S THEN h[n - 1] ELSE InsertAt(h[n - 1], n, one)]
    BY DEF OnesRun
  <2>2. QED  BY <2>1
<1> DEFINE Good == {n \in Nat : n <= N => h[n] = g[n]}
<1>3. 0 \in Good  BY <1>1, <1>2
<1>4. ASSUME NEW n \in Nat, n \in Good
      PROVE  n + 1 \in Good
  <2> SUFFICES ASSUME n + 1 <= N
               PROVE  h[n + 1] = g[n + 1]
    OBVIOUS
  <2>1. PICK m \in 1 .. N : m = n + 1 /\ m - 1 = n
    <3>1. n + 1 \in 1 .. N /\ (n + 1) - 1 = n  OBVIOUS
    <3>2. QED  BY <3>1
  <2>2. h[m - 1] = g[m - 1]  BY <1>4, <2>1
  <2>3. h[m] = g[m]  BY <1>1, <1>2, <2>2
  <2>4. QED  BY <2>1, <2>3
<1> HIDE DEF Good
<1>5. Nat \subseteq Good  BY <1>3, <1>4, SetInduction
<1>6. QED  BY <1>5 DEF Good

\* The evaluations of the fixed queries are those of the prover, in the places of
\* their queries, when every slot holds what the prover wrote into it.
LEMMA FixedEvalsExact ==
    ASSUME NEW k \in Keys, SlotsMatch(k), NEW held,
           \A i \in 1 .. FixedSlots(k) : held[<<"slot", i>>] = Means(k, <<"slot", i>>),
           NEW i \in DOMAIN k.cs.queries["fixed"],
           ~HasSimpleSelectorCol(k.cs, k.cs.queries["fixed"][i][1])
    PROVE  FixedEvals(k, held)[i] = Eval(<<"fixed", k.cs.queries["fixed"][i][1]>>,
                                        k.cs.queries["fixed"][i][2])
<1>1. PICK T : T = Nat \X Int  OBVIOUS
<1>2. PICK s \in Seq(T) : s = k.cs.queries["fixed"]  BY <1>1, KeyQueries, KindsAre
<1>3. PICK N \in Nat : N = Len(s) /\ s \in [1 .. N -> T] /\ DOMAIN s = 1 .. N  OBVIOUS
<1>4. PICK S : S = {q \in ToSet(s) : ~HasSimpleSelectorCol(k.cs, q[1])}  OBVIOUS
<1>5. PICK open \in Seq(T) : open = Chosen(s, S)  BY ChosenExact
<1>6. open = OpenFixed(k)  BY <1>2, <1>4, <1>5 DEF OpenFixed
<1>7. PICK F \in Nat : F = Len(open)  OBVIOUS
<1>30. F = FixedSlots(k)  BY <1>6, <1>7 DEF SlotsMatch
<1>8. PICK f : ChosenValues(f, T, s, S)  BY ChosenEquation
<1>9. f[N] = open  BY <1>3, <1>5, <1>8 DEF ChosenValues
<1>10. PICK c : CountsChosen(c, N, F, s, S, open)
  <2>1. F = Len(f[N])  BY <1>7, <1>9
  <2>2. \E c : CountsChosen(c, N, F, s, S, f[N])  BY <1>3, <1>8, <2>1, ChosenCounts
  <2>3. QED  BY <1>9, <2>2
<1>11. PICK one : one = <<"one">>  OBVIOUS
<1>12. PICK E : E = [q \in T |-> Eval(<<"fixed", q[1]>>, q[2])]  OBVIOUS
<1>13. PICK V : V = {one} \cup {E[q] : q \in T}  OBVIOUS
<1>14. one \in V /\ E \in [T -> V]  BY <1>12, <1>13
<1>15. PICK W : W = [j \in 1 .. F |-> held[<<"slot", j>>]]  OBVIOUS
<1>16. ASSUME NEW j \in 1 .. F
       PROVE  W[j] = E[open[j]] /\ W[j] \in V
  <2>1. open[j] \in T  BY <1>5, <1>7
  <2>2. W[j] = Means(k, <<"slot", j>>)  BY <1>30, <1>15
  <2>3. Means(k, <<"slot", j>>) = Eval(<<"fixed", open[j][1]>>, open[j][2])
    BY <1>6 DEF Means
  <2>4. W[j] = E[open[j]]  BY <1>12, <2>1, <2>2, <2>3
  <2>5. QED  BY <1>14, <2>1, <2>4
<1>17. W \in Seq(V) /\ Len(W) = F
  <2>1. W = [j \in 1 .. F |-> W[j]]  BY <1>15
  <2>2. QED  BY <1>16, <2>1
<1>18. PICK g : PlacesOnes(g, c, N, F, s, S, W, E, one)
  <2>1. AsChosen(W, E, F, open)  BY <1>16 DEF AsChosen
  <2>2. QED  BY <1>3, <1>10, <1>14, <1>17, <2>1, OnesInserted
<1>29. /\ OnesRun(g, N, s, S, W, one)
       /\ \A n \in 0 .. N : g[n] = Placed(c, N, F, s, S, W, E, one, n)
  BY <1>18 DEF PlacesOnes
<1>19. ASSUME NEW e
       PROVE  OnesRun(e, N, s, S, W, one) <=> FixedRun(e, k, held)
  <2> DEFINE simple(n) == HasSimpleSelectorCol(k.cs, s[n][1])
             one1 == [n \in 0 .. N |-> IF n = 0 THEN W
                         ELSE IF s[n] \in S THEN e[n - 1] ELSE InsertAt(e[n - 1], n, one)]
             two == [n \in 0 .. N |-> IF n = 0 THEN W
                         ELSE IF simple(n) THEN InsertAt(e[n - 1], n, one) ELSE e[n - 1]]
  <2>1. ASSUME NEW n \in 1 .. N
        PROVE  s[n] \in S <=> ~simple(n)
    <3>1. s[n] \in ToSet(s)  BY <1>3 DEF ToSet
    <3>2. QED  BY <1>4, <3>1
  <2>2. ASSUME NEW n \in 0 .. N, n # 0
        PROVE  (IF s[n] \in S THEN e[n - 1] ELSE InsertAt(e[n - 1], n, one))
               = (IF simple(n) THEN InsertAt(e[n - 1], n, one) ELSE e[n - 1])
    <3>1. n \in 1 .. N  BY <2>2
    <3> HIDE DEF simple
    <3>2. QED  BY <2>1, <3>1
  <2>3. one1 = two
    <3> HIDE DEF simple
    <3>1. QED  BY <2>2
  <2>4. FixedRun(e, k, held) <=> e = two
    BY <1>2, <1>3, <1>30, <1>11, <1>15 DEF FixedRun
  <2>5. OnesRun(e, N, s, S, W, one) <=> e = one1  BY DEF OnesRun
  <2> HIDE DEF one1, two
  <2>6. QED  BY <2>3, <2>4, <2>5
<1>20. PICK h : h = CHOOSE e : FixedRun(e, k, held)  OBVIOUS
<1>21. FixedRun(h, k, held)
  <2>1. FixedRun(g, k, held)  BY <1>19, <1>29
  <2>2. QED  BY <1>20, <2>1
<1>22. FixedEvals(k, held) = h[N]  BY <1>2, <1>3, <1>20 DEF FixedEvals, FixedRun
<1>23. h[N] = g[N]
  <2>1. OnesRun(h, N, s, S, W, one) /\ OnesRun(g, N, s, S, W, one)  BY <1>19, <1>21, <1>29
  <2>2. QED  BY <2>1, OneOnesRun
<1>24. i \in 1 .. N  BY <1>2, <1>3
<1>25. PICK q \in T : q = s[i]  BY <1>3, <1>24
<1>26. q \in S
  <2>1. q \in ToSet(s)  BY <1>3, <1>24, <1>25 DEF ToSet
  <2>2. QED  BY <1>2, <1>4, <1>25, <2>1
<1>27. g[N][i] = E[q]
  <2>1. W \in [1 .. F -> V]  BY <1>17
  <2>2. N \in 0 .. N  OBVIOUS
  <2>7. PICK z : z = Placed(c, N, F, s, S, W, E, one, N)  OBVIOUS
  <2>8. IsPlaced(z, c, N, F, s, S, V, W, E, one, N)
    BY <1>3, <1>10, <1>14, <2>1, <2>2, <2>7, PlacedType
  <2>9. g[N] = z  BY <1>29, <2>2, <2>7
  <2>3. IsPlaced(g[N], c, N, F, s, S, V, W, E, one, N)  BY <2>8, <2>9
  <2>4. c[N] \in 0 .. F  BY <1>10, <2>2 DEF CountsChosen
  <2>5. i \in 1 .. (F + N) - c[N] /\ i <= N  BY <1>24, <2>4
  <2>6. g[N][i] = IF s[i] \in S THEN E[s[i]] ELSE one  BY <2>3, <2>5 DEF IsPlaced
  <2>10. QED  BY <1>25, <1>26, <2>6
<1>28. QED  BY <1>2, <1>12, <1>22, <1>23, <1>25, <1>27

-----------------------------------------------------------------------------
(* Prover and verifier agree.                                              *)

\* The values of the slots are read.
LEMMA SlotsRead ==
    ASSUME NEW k \in Keys, SlotsMatch(k), NEW f \in BOOLEAN, NEW i \in 1 .. FixedSlots(k)
    PROVE  Read(<<"slot", i>>) \in ToSet(Checked(k, f))
<1>1. PICK m \in Nat : m = LastPhase(k)  BY LastPhaseBounds
<1>2. PICK P : P = VerifierProgram(k, f)  OBVIOUS
<1>3. VerifierIs(k, f, m, P)  BY <1>1, <1>2, VerifierEntries
<1>4. P[m + 11] = ReadFixedEvals(k)  BY <1>3 DEF VerifierIs
<1>5. m + 11 \in 1 .. m + 15  OBVIOUS
<1>6. PICK x : x = Read(<<"slot", i>>)  OBVIOUS
<1>7. x \in ToSet(ReadFixedEvals(k))
  <2>1. ReadFixedEvals(k)[i] = x /\ i \in DOMAIN ReadFixedEvals(k)
    BY <1>6 DEF ReadFixedEvals
  <2>2. QED  BY <2>1 DEF ToSet
<1>8. x \in ToSet(VerifierProgram(k, f)[m + 11])  BY <1>2, <1>4, <1>7
<1>9. x \in ToSet(Checked(k, f))  BY <1>1, <1>5, <1>8, SectionsChecked
<1>10. QED  BY <1>6, <1>9

\* Every value read is there, under its name, as what its name stands for.
Complete(k, f, held) ==
    /\ \A x : Read(x) \in ToSet(Checked(k, f)) => x \in DOMAIN held
    /\ \A x \in DOMAIN held : held[x] = Means(k, x)

\* The verifier takes the evaluation of every opening to be what the prover
\* evaluated there.
LEMMA ClaimedExact ==
    ASSUME NEW k \in Keys, SlotsMatch(k), NEW f \in BOOLEAN, NEW held, Complete(k, f, held),
           NEW q \in ToSet(ComputeQueries(k))
    PROVE  ClaimedEval(k, held, q) = Eval(q.com, q.point)
<1>1. PICK A : A = Answered(k, f)  OBVIOUS
<1>2. PICK qs \in Seq(A) : qs = ComputeQueries(k)  BY <1>1, AllAnswered
<1>3. q \in A
  <2>1. q \in ToSet(qs)  BY <1>2
  <2>2. PICK j \in DOMAIN qs : q = qs[j]  BY <2>1 DEF ToSet
  <2>3. QED  BY <2>2
<1>4. CASE q = Query(<<"lin">>, 0)
  <2>1. q.com[1] = "lin"  BY <1>4 DEF Query
  <2>2. QED  BY <2>1 DEF ClaimedEval
<1>5. ASSUME NEW i \in DOMAIN OpenFixed(k),
             q = Query(<<"fixed", OpenFixed(k)[i][1]>>, OpenFixed(k)[i][2])
      PROVE  ClaimedEval(k, held, q) = Eval(q.com, q.point)
  <2>1. PICK T : T = Nat \X Int  OBVIOUS
  <2>2. PICK s \in Seq(T) : s = k.cs.queries["fixed"]  BY <2>1, KeyQueries, KindsAre
  <2>3. PICK S : S = {e \in ToSet(s) : ~HasSimpleSelectorCol(k.cs, e[1])}  OBVIOUS
  <2>4. PICK open \in Seq(T) : open = Chosen(s, S) /\ ToSet(open) = ToSet(s) \cap S
    <3>1. Chosen(s, S) \in Seq(T) /\ ToSet(Chosen(s, S)) = ToSet(s) \cap S  BY ChosenExact
    <3>2. QED  BY <3>1
  <2>5. open = OpenFixed(k)  BY <2>2, <2>3, <2>4 DEF OpenFixed
  <2>6. PICK e \in T : e = open[i]
    <3>1. open[i] \in T  BY <2>4, <2>5
    <3>2. QED  BY <3>1
  <2>7. e \in S /\ e \in ToSet(s)
    <3>1. e \in ToSet(open)  BY <2>5, <2>6 DEF ToSet
    <3>2. QED  BY <2>4, <3>1
  <2>19. e[1] \in Nat /\ e[2] \in Int /\ e = <<e[1], e[2]>>  BY <2>1, <2>6
  <2>20. PICK c \in Nat : c = e[1]  BY <2>19
  <2>21. PICK r \in Int : r = e[2]  BY <2>19
  <2>8. e = <<c, r>> /\ e[1] = c /\ e[2] = r  BY <2>19, <2>20, <2>21
  <2>9. q = Query(<<"fixed", c>>, r)  BY <1>5, <2>5, <2>6, <2>8
  <2>10. q.com = <<"fixed", c>> /\ q.point = r  BY <2>9 DEF Query
  <2>11. PICK j : j = Position(s, e)  OBVIOUS
  <2>12. j \in DOMAIN s /\ s[j] = e  BY <2>7, <2>11, PositionExact
  <2>13. ClaimedEval(k, held, q) = FixedEvals(k, held)[j]
    <3>1. q.com[1] = "fixed" /\ q.com[2] = c  BY <2>10
    <3>2. ClaimedEval(k, held, q)
          = FixedEvals(k, held)[Position(k.cs.queries["fixed"], <<q.com[2], q.point>>)]
      BY <3>1 DEF ClaimedEval
    <3>3. Position(k.cs.queries["fixed"], <<q.com[2], q.point>>) = j
      BY <2>2, <2>8, <2>10, <2>11, <3>1
    <3>4. QED  BY <3>2, <3>3
  <2>14. ASSUME NEW l \in 1 .. FixedSlots(k)
         PROVE  held[<<"slot", l>>] = Means(k, <<"slot", l>>)
    <3>1. Read(<<"slot", l>>) \in ToSet(Checked(k, f))  BY SlotsRead
    <3>2. <<"slot", l>> \in DOMAIN held  BY <3>1 DEF Complete
    <3>3. QED  BY <3>2 DEF Complete
  <2>15. ~HasSimpleSelectorCol(k.cs, k.cs.queries["fixed"][j][1])
    BY <2>2, <2>3, <2>7, <2>12
  <2>16. j \in DOMAIN k.cs.queries["fixed"]  BY <2>2, <2>12
  <2>17. FixedEvals(k, held)[j] = Eval(<<"fixed", k.cs.queries["fixed"][j][1]>>,
                                       k.cs.queries["fixed"][j][2])
    BY <2>14, <2>15, <2>16, FixedEvalsExact
  <2>18. QED  BY <2>2, <2>8, <2>10, <2>12, <2>13, <2>17
<1>6. CASE q.com[1] \notin {"lin", "fixed"} /\ Read(Eval(q.com, q.point)) \in ToSet(Checked(k, f))
  <2>1. PICK v : v = Eval(q.com, q.point)  OBVIOUS
  <2>2. v \in DOMAIN held  BY <1>6, <2>1 DEF Complete
  <2>3. held[v] = Means(k, v)  BY <2>2 DEF Complete
  <2>4. v[1] = "eval"  BY <2>1 DEF Eval
  <2>5. held[v] = v  BY <2>3, <2>4 DEF Means
  <2>6. ClaimedEval(k, held, q) = held[v]  BY <1>6, <2>1 DEF ClaimedEval
  <2>7. QED  BY <2>1, <2>5, <2>6
<1>7. QED  BY <1>1, <1>3, <1>4, <1>5, <1>6 DEF Answered

\* With one flag, what the verifier has run is the twin of what the prover wrote.
LEMMA RunsAgree ==
    ASSUME RunInv, SlotsMatch(key), OneOrder(key), SameFlags
    PROVE  TranscriptsAgree
<1>1. key \in Keys /\ flags[1] \in BOOLEAN /\ flags[2] = flags[1]
  BY DEF RunInv, SameFlags
<1>2. PICK f \in BOOLEAN : f = flags[1] /\ f = flags[2]  BY <1>1
<1>3. PICK a \in Seq(Moves) : a = Written(key, f)  BY <1>1, ProgramMoves
<1>4. PICK b \in Seq(Moves) : b = Checked(key, f)  BY <1>1, ProgramMoves
<1>5. ASSUME ~VerifierRefuses(key)
      PROVE  Pairs(Twins(key), a, b)
  <2>1. GoTogether(Twins(key), key, f, f)  BY <1>1, <1>5, ProtocolPairs
  <2>2. Dummies(key, f) = Dummies(key, f)  OBVIOUS
  <2>3. QED  BY <1>1, <1>3, <1>4, <2>1, <2>2, AllPair
<1>6. PICK done : /\ Ran(done, delivered, vhist, cursor, got)
                  /\ done \o FlattenSeq(vtodo) = Checked(key, flags[2])
                  /\ done # <<>> => sent /\ ~VerifierRefuses(key)
  BY DEF RunInv, VerifierRan
<1>7. done \in Seq(Moves) /\ vhist \in Seq(Hashed) /\ Len(vhist) = Len(done)  BY <1>6 DEF Ran
<1>8. phist \in Seq(Marks)  BY DEF RunInv, ProverRan
<1>9. vtodo \in Seq(Seq(Moves))  BY DEF RunInv, VerifierRan
<1>10. PICK rest \in Seq(Moves) : rest = FlattenSeq(vtodo)
  <2>1. PICK n \in Nat : n = Len(vtodo)  BY <1>9
  <2>2. vtodo \in [1 .. n -> Seq(Moves)]  BY <1>9, <2>1
  <2>3. FlattenSeq(vtodo) \in Seq(Moves)  BY <2>2, FlattenType
  <2>4. QED  BY <2>3
<1>11. b = done \o rest  BY <1>2, <1>4, <1>6, <1>10
<1>12. ASSUME done # <<>>
       PROVE  /\ sent /\ phist = History(a)
              /\ Faithful(key, done, vhist, phist, got) /\ Len(done) <= Len(phist)
  <2>1. sent /\ ~VerifierRefuses(key)  BY <1>6, <1>12
  <2>2. Pairs(Twins(key), a, b)  BY <1>5, <2>1
  <2>3. /\ phist = History(a) /\ proof = Items(a, "write")
        /\ delivered \in {proof, Front(proof), Append(proof, <<"extra">>)}
    BY <1>2, <1>3, <2>1, SentWhole
  <2>4. Faithful(key, done, vhist, History(a), got) /\ Len(done) <= Len(History(a))
    BY <1>6, <1>11, <2>2, <2>3, RunFaithful
  <2>5. QED  BY <2>1, <2>3, <2>4
<1>13. \A n \in DOMAIN got : got[n] = Means(key, n)
  <2>1. CASE done # <<>>  BY <1>12, <2>1 DEF Faithful
  <2>2. CASE done = <<>>
    <3>1. \A i \in 1 .. Len(done) : FALSE  BY <2>2
    <3>2. QED  BY <1>6, <3>1 DEF Ran
  <2>3. QED  BY <2>1, <2>2
<1>14. ChallengesAgree
  <2>1. Len(vhist) <= Len(phist) /\ \A i \in 1 .. Len(vhist) : vhist[i] = phist[i]
    <3>1. CASE done # <<>>  BY <1>7, <1>12, <3>1 DEF Faithful
    <3>2. CASE done = <<>>
      <4>1. Len(vhist) = 0  BY <1>7, <3>2
      <4>2. Len(phist) \in Nat  BY <1>8
      <4>3. QED  BY <4>1, <4>2
    <3>3. QED  BY <3>1, <3>2
  <2>2. PICK n \in Nat : n = Len(vhist)  BY <1>7
  <2>3. PICK u \in Seq(Marks) : u = phist  BY <1>8
  <2>4. SubSeq(u, 1, n) = [i \in 1 .. n |-> u[i]]  BY <2>1, <2>2, <2>3
  <2>5. vhist = [i \in 1 .. n |-> vhist[i]]  BY <1>7, <2>2
  <2>6. [i \in 1 .. n |-> u[i]] = [i \in 1 .. n |-> vhist[i]]  BY <2>1, <2>2, <2>3
  <2>9. vhist = SubSeq(u, 1, n)  BY <2>4, <2>5, <2>6
  <2>10. SubSeq(vhist, 1, n) = vhist
    <3>1. PICK v \in Seq(Hashed) : v = vhist  BY <1>7
    <3>2. Len(v) = n  BY <2>2, <3>1
    <3>3. SubSeq(v, 1, n) = [i \in 1 .. n |-> v[i]]  BY <3>1, <3>2
    <3>4. v = [i \in 1 .. n |-> v[i]]  BY <3>1, <3>2
    <3>5. QED  BY <3>1, <3>3, <3>4
  <2>7. IsPrefix(vhist, phist)  BY <2>1, <2>2, <2>3, <2>9, <2>10 DEF IsPrefix
  <2>8. QED  BY <2>7 DEF ChallengesAgree
<1>15. ASSUME NEW n \in DOMAIN got, n[1] # "slot"
       PROVE  got[n] = n
  BY <1>13, <1>15 DEF Means
<1>16. ASSUME Prepared
       PROVE  /\ VerifierQueries(key) = ComputeQueries(key)
              /\ \A q \in ToSet(VerifierQueries(key)) :
                    ClaimedEval(key, got, q) = Eval(q.com, q.point)
  <2>1. vtodo = <<>>  BY <1>16 DEF Prepared
  <2>2. Ran(b, delivered, vhist, cursor, got)  BY <1>2, <1>4, <2>1, PreparedWhole
  <2>3. Complete(key, f, got)
    <3>1. ASSUME NEW x, Read(x) \in ToSet(b)
          PROVE  x \in DOMAIN got
      <4>1. PICK i \in 1 .. Len(b) : b[i] = Read(x)  BY <3>1 DEF ToSet
      <4>2. b[i][1] = "read" /\ b[i][2] = x  BY <4>1 DEF Read
      <4>3. QED  BY <2>2, <4>2 DEF Ran
    <3>2. QED  BY <1>4, <1>13, <3>1 DEF Complete
  <2>4. VerifierQueries(key) = ComputeQueries(key)  BY <1>1, QueriesAgree
  <2>5. ASSUME NEW q \in ToSet(ComputeQueries(key))
        PROVE  ClaimedEval(key, got, q) = Eval(q.com, q.point)
    BY <1>1, <2>3, ClaimedExact
  <2>6. QED  BY <2>4, <2>5
<1>17. ReadsMatchWrites  BY <1>15, <1>16 DEF ReadsMatchWrites
<1>18. QED  BY <1>14, <1>17 DEF TranscriptsAgree

\* Prover and verifier run one protocol: the verifier draws the challenges the
\* prover drew, every value it reads is the one written under that name, and every
\* evaluation it claims in verify_algebraic_constraints is that of the query it
\* claims it for, the slots and ones of the fixed columns included.  For any
\* circuit with any number of phases, columns, lookups and proofs, but for the
\* two findings: each is a key without SlotsMatch or without OneOrder.
THEOREM TranscriptsTheorem ==
    ASSUME \A k \in Keys : SlotsMatch(k) /\ OneOrder(k)
    PROVE  Spec => []TranscriptsAgree
<1>1. RunInv => TranscriptsAgree
  <2> SUFFICES ASSUME RunInv
               PROVE  TranscriptsAgree
    OBVIOUS
  <2>1. key \in Keys  BY DEF RunInv
  <2>2. SlotsMatch(key) /\ OneOrder(key)  BY <2>1
  <2>3. CASE SameFlags  BY <2>2, <2>3, RunsAgree
  <2>4. CASE ~SameFlags
    BY <2>4 DEF TranscriptsAgree, ChallengesAgree, ReadsMatchWrites
  <2>5. QED  BY <2>3, <2>4
<1>2. Spec => []RunInv
  <2>1. \A k \in Keys : SlotsMatch(k)  OBVIOUS
  <2>2. QED  BY <2>1, RunsInStep
<1>3. QED  BY <1>1, <1>2, PTL

-----------------------------------------------------------------------------
(* The verifier as a circuit: its program is the verifier's for one proof. *)

\* A list for each of one proof.
LEMMA OfOnlyProof ==
    ASSUME NEW S, NEW x, x = [p \in 1 .. 1 |-> x[p]], x[1] \in Seq(S)
    PROVE  FlattenSeq(x) = x[1]
<1>1. \A p \in 1 .. 1 : p = 1  OBVIOUS
<1>2. x \in [1 .. 1 -> Seq(S)]  BY <1>1
<1>3. QED  BY <1>2, FlattenOne

\* A list of one element.
LEMMA OneTyped ==
    ASSUME NEW S, NEW x \in S
    PROVE  <<x>> \in Seq(S)
OBVIOUS

\* A list of two elements.
LEMMA TwoTyped ==
    ASSUME NEW S, NEW x \in S, NEW y \in S
    PROVE  <<x, y>> \in Seq(S)
OBVIOUS

\* A joined list.
LEMMA JoinTyped ==
    ASSUME NEW S, NEW a \in Seq(S), NEW b \in Seq(S)
    PROVE  a \o b \in Seq(S)
OBVIOUS

\* A list of reads.
LEMMA ReadsTyped ==
    ASSUME NEW n \in Nat, NEW v, \A i \in 1 .. n : v[i] \in Values
    PROVE  [i \in 1 .. n |-> Read(v[i])] \in Seq(Moves)
<1>1. \A i \in 1 .. n : Read(v[i]) \in Moves  BY ValueMoves
<1>2. QED  BY <1>1

\* A list of reads for each of one proof.
LEMMA OnlyReads ==
    ASSUME NEW n \in Nat, NEW t, t = [p \in 1 .. 1 |-> t[p]], NEW v,
           t[1] = [i \in 1 .. n |-> Read(v[i])], \A i \in 1 .. n : v[i] \in Values
    PROVE  FlattenSeq(t) = t[1] /\ t[1] \in Seq(Moves)
<1>1. t[1] \in Seq(Moves)  BY ReadsTyped
<1>2. QED  BY <1>1, OfOnlyProof

\* What the verifier reads for its only proof, list by list.
OneColumns(k) == [c \in 1 .. NumAdvice(k) |-> Read(Column(1, c))]
OneMultiplicities(k) == [l \in DOMAIN k.cs.lookups |-> Read(<<"m", 1, l>>)]
OneProducts(k) == [i \in 1 .. NumPermutationSets(k) |-> Read(<<"z", 1, i>>)]
OneLookups(k) == Each(Len(k.cs.lookups), LAMBDA l : GadgetLookupCommitments(k, l))
OneTrash(k) == [t \in DOMAIN k.cs.trashcans |-> Read(<<"trash", 1, t>>)]
OneInstanceEvals(k) ==
    LET instances == k.cs.queries["instance"]
    IN  Each(Len(instances), LAMBDA i :
              IF instances[i][1] <= k.committed
              THEN <<Read(Eval(Instance(1, instances[i][1]), instances[i][2]))>> ELSE <<>>)
OneAdviceEvals(k) ==
    LET advices == k.cs.queries["advice"]
    IN  [i \in DOMAIN advices |-> Read(Eval(Column(1, advices[i][1]), advices[i][2]))]
OneTrashEvals(k) == [t \in DOMAIN k.cs.trashcans |-> Read(Eval(<<"trash", 1, t>>, 0))]

\* The multiplicities.
LEMMA OnlyMultiplicities ==
    ASSUME NEW k \in Keys, k.proofs = 1
    PROVE  /\ ReadMultiplicities(k) = <<Squeeze(<<"theta">>)>> \o OneMultiplicities(k)
           /\ OneMultiplicities(k) \in Seq(Moves)
<1>1. PICK n \in Nat : n = Len(k.cs.lookups) /\ DOMAIN k.cs.lookups = 1 .. n
  BY KeyLists, LookupDomain
<1>2. PICK t : t = [p \in 1 .. 1 |-> [l \in 1 .. n |-> Read(<<"m", p, l>>)]]  OBVIOUS
<1>3. PICK v : v = [l \in 1 .. n |-> <<"m", 1, l>>]  OBVIOUS
<1>4. ASSUME NEW i \in 1 .. n
      PROVE  v[i] \in Values
  <2>1. 1 \in Nat /\ i \in Nat  OBVIOUS
  <2>2. <<"m", 1, i>> \in Values  BY <2>1, SomeValues
  <2>3. QED  BY <1>3, <2>2
<1>5. t[1] = [i \in 1 .. n |-> Read(v[i])]  BY <1>2, <1>3
<1>6. FlattenSeq(t) = t[1] /\ t[1] \in Seq(Moves)  BY <1>2, <1>4, <1>5, OnlyReads
<1>7. ReadMultiplicities(k) = <<Squeeze(<<"theta">>)>> \o FlattenSeq(t)
  BY <1>1, <1>2 DEF ReadMultiplicities, Each
<1>8. OneMultiplicities(k) = t[1]  BY <1>1, <1>2 DEF OneMultiplicities
<1>9. QED  BY <1>6, <1>7, <1>8

\* The products of the permutation argument.
LEMMA OnlyProducts ==
    ASSUME NEW k \in Keys, k.proofs = 1
    PROVE  /\ ReadProductCommitments(k)
                  = <<Squeeze(<<"beta">>), Squeeze(<<"gamma">>)>> \o OneProducts(k)
           /\ OneProducts(k) \in Seq(Moves)
<1>1. PICK n \in Nat : n = NumPermutationSets(k)  BY KeySizes
<1>2. PICK t : t = [p \in 1 .. 1 |-> [l \in 1 .. n |-> Read(<<"z", p, l>>)]]  OBVIOUS
<1>3. PICK v : v = [l \in 1 .. n |-> <<"z", 1, l>>]  OBVIOUS
<1>4. ASSUME NEW i \in 1 .. n
      PROVE  v[i] \in Values
  <2>1. 1 \in Nat /\ i \in Nat  OBVIOUS
  <2>2. <<"z", 1, i>> \in Values  BY <2>1, SomeValues
  <2>3. QED  BY <1>3, <2>2
<1>5. t[1] = [i \in 1 .. n |-> Read(v[i])]  BY <1>2, <1>3
<1>6. FlattenSeq(t) = t[1] /\ t[1] \in Seq(Moves)  BY <1>2, <1>4, <1>5, OnlyReads
<1>7. ReadProductCommitments(k)
          = <<Squeeze(<<"beta">>), Squeeze(<<"gamma">>)>> \o FlattenSeq(t)
  BY <1>1, <1>2 DEF ReadProductCommitments, Each
<1>8. OneProducts(k) = t[1]  BY <1>1, <1>2 DEF OneProducts
<1>9. QED  BY <1>6, <1>7, <1>8

\* The trash commitments.
LEMMA OnlyTrash ==
    ASSUME NEW k \in Keys, k.proofs = 1
    PROVE  /\ ReadTrash(k) = <<Squeeze(<<"trash_challenge">>)>> \o OneTrash(k) \o <<Squeeze(<<"y">>)>>
           /\ OneTrash(k) \in Seq(Moves)
           /\ ReadTrashEvals(k) = OneTrashEvals(k) /\ OneTrashEvals(k) \in Seq(Moves)
<1>1. PICK n \in Nat : n = Len(k.cs.trashcans) /\ DOMAIN k.cs.trashcans = 1 .. n  BY KeyLists
<1>2. PICK t : t = [p \in 1 .. 1 |-> [l \in 1 .. n |-> Read(<<"trash", p, l>>)]]  OBVIOUS
<1>3. PICK v : v = [l \in 1 .. n |-> <<"trash", 1, l>>]  OBVIOUS
<1>4. ASSUME NEW i \in 1 .. n
      PROVE  v[i] \in Values
  <2>1. 1 \in Nat /\ i \in Nat  OBVIOUS
  <2>2. <<"trash", 1, i>> \in Values  BY <2>1, SomeValues
  <2>3. QED  BY <1>3, <2>2
<1>5. t[1] = [i \in 1 .. n |-> Read(v[i])]  BY <1>2, <1>3
<1>6. FlattenSeq(t) = t[1] /\ t[1] \in Seq(Moves)  BY <1>2, <1>4, <1>5, OnlyReads
<1>7. ReadTrash(k) = <<Squeeze(<<"trash_challenge">>)>> \o FlattenSeq(t) \o <<Squeeze(<<"y">>)>>
  BY <1>1, <1>2 DEF ReadTrash, Each
<1>8. OneTrash(k) = t[1]  BY <1>1, <1>2 DEF OneTrash
<1>9. PICK u : u = [p \in 1 .. 1 |-> [l \in 1 .. n |-> Read(Eval(<<"trash", p, l>>, 0))]]  OBVIOUS
<1>10. PICK w : w = [l \in 1 .. n |-> Eval(<<"trash", 1, l>>, 0)]  OBVIOUS
<1>11. ASSUME NEW i \in 1 .. n
       PROVE  w[i] \in Values
  <2>1. 1 \in Nat /\ i \in Nat  OBVIOUS
  <2>2. <<"trash", 1, i>> \in Commitments  BY <2>1, OfOneProof
  <2>3. Eval(<<"trash", 1, i>>, 0) \in Values  BY <2>2, EvalValues
  <2>4. QED  BY <1>10, <2>3
<1>12. u[1] = [i \in 1 .. n |-> Read(w[i])]  BY <1>9, <1>10
<1>13. FlattenSeq(u) = u[1] /\ u[1] \in Seq(Moves)  BY <1>9, <1>11, <1>12, OnlyReads
<1>14. ReadTrashEvals(k) = FlattenSeq(u)  BY <1>1, <1>9 DEF ReadTrashEvals, Each
<1>15. OneTrashEvals(k) = u[1]  BY <1>1, <1>9 DEF OneTrashEvals
<1>16. QED  BY <1>6, <1>7, <1>8, <1>13, <1>14, <1>15

\* The helpers and the accumulators of the lookups.
LEMMA OnlyLookups ==
    ASSUME NEW k \in Keys, k.proofs = 1
    PROVE  ReadLookupCommitments(k) = OneLookups(k) /\ OneLookups(k) \in Seq(Moves)
<1>1. PICK n \in Nat : n = Len(k.cs.lookups)  BY KeyLists
<1> DEFINE d(p, l) == [j \in 1 .. k.chunks[l] |-> Read(<<"h", p, l, j>>)] \o <<Read(<<"acc", p, l>>)>>
           row(p) == [l \in 1 .. n |-> d(p, l)]
<1>2. PICK t : t = [p \in 1 .. 1 |-> FlattenSeq(row(p))]  OBVIOUS
<1>3. ReadLookupCommitments(k) = FlattenSeq(t)  BY <1>1, <1>2 DEF ReadLookupCommitments, Each
<1>4. OneLookups(k) = FlattenSeq(row(1))
  BY <1>1 DEF OneLookups, GadgetLookupCommitments, Each
<1>5. ASSUME NEW l \in 1 .. n
      PROVE  d(1, l) \in Seq(Moves)
  <2>1. PICK c \in Nat : c = k.chunks[l]  BY <1>1, KeyLists
  <2>2. PICK v : v = [j \in 1 .. c |-> <<"h", 1, l, j>>]  OBVIOUS
  <2>3. 1 \in Nat /\ l \in Nat  OBVIOUS
  <2>4. /\ \A j \in Nat : <<"h", 1, l, j>> \in Values
        /\ <<"acc", 1, l>> \in Values
    BY <2>3, SomeValues
  <2>5. \A j \in 1 .. c : v[j] \in Values  BY <2>2, <2>4
  <2>6. [j \in 1 .. c |-> Read(v[j])] \in Seq(Moves)  BY <2>5, ReadsTyped
  <2>7. Read(<<"acc", 1, l>>) \in Moves  BY <2>4, ValueMoves
  <2>8. d(1, l) = [j \in 1 .. c |-> Read(v[j])] \o <<Read(<<"acc", 1, l>>)>>  BY <2>1, <2>2
  <2>9. <<Read(<<"acc", 1, l>>)>> \in Seq(Moves)  BY <2>7, OneTyped
  <2> HIDE DEF d
  <2>10. QED  BY <2>6, <2>8, <2>9, JoinTyped
<1>6. FlattenSeq(row(1)) \in Seq(Moves)
  <2> HIDE DEF d
  <2>1. row(1) \in [1 .. n -> Seq(Moves)]  BY <1>5
  <2> HIDE DEF row
  <2>2. QED  BY <2>1, FlattenType
<1> HIDE DEF d, row
<1>7. t[1] = FlattenSeq(row(1))  BY <1>2
<1>8. FlattenSeq(t) = t[1]
  <2>1. t = [p \in 1 .. 1 |-> t[p]]  BY <1>2
  <2>2. QED  BY <1>6, <1>7, <2>1, OfOnlyProof
<1>9. QED  BY <1>3, <1>4, <1>6, <1>7, <1>8

\* The evaluations of the lookups.
LEMMA OnlyLookupEvals ==
    ASSUME NEW k \in Keys, k.proofs = 1
    PROVE  ReadLookupEvals(k) = GadgetLookupEvals(k) /\ GadgetLookupEvals(k) \in Seq(Moves)
<1>1. PICK n \in Nat : n = Len(k.cs.lookups)  BY KeyLists
<1> DEFINE d(p, l) == <<Read(Eval(<<"m", p, l>>, 0))>>
                      \o [j \in 1 .. k.chunks[l] |-> Read(Eval(<<"h", p, l, j>>, 0))]
                      \o <<Read(Eval(<<"acc", p, l>>, 0)), Read(Eval(<<"acc", p, l>>, 1))>>
           row(p) == [l \in 1 .. n |-> d(p, l)]
<1>2. PICK t : t = [p \in 1 .. 1 |-> FlattenSeq(row(p))]  OBVIOUS
<1>3. ReadLookupEvals(k) = FlattenSeq(t)  BY <1>1, <1>2 DEF ReadLookupEvals, Each
<1>4. GadgetLookupEvals(k) = FlattenSeq(row(1))  BY <1>1 DEF GadgetLookupEvals, Each
<1>5. ASSUME NEW l \in 1 .. n
      PROVE  d(1, l) \in Seq(Moves)
  <2>1. PICK c \in Nat : c = k.chunks[l]  BY <1>1, KeyLists
  <2>2. PICK v : v = [j \in 1 .. c |-> Eval(<<"h", 1, l, j>>, 0)]  OBVIOUS
  <2>3. 1 \in Nat /\ l \in Nat  OBVIOUS
  <2>4. /\ \A j \in Nat : <<"h", 1, l, j>> \in Commitments
        /\ <<"acc", 1, l>> \in Commitments /\ <<"m", 1, l>> \in Commitments
    BY <2>3, OfOneProof
  <2>5. ASSUME NEW j \in 1 .. c
        PROVE  v[j] \in Values
    <3>1. <<"h", 1, l, j>> \in Commitments  BY <2>4
    <3>2. QED  BY <2>2, <3>1, EvalValues
  <2>6. [j \in 1 .. c |-> Read(v[j])] \in Seq(Moves)  BY <2>5, ReadsTyped
  <2>7. /\ Read(Eval(<<"m", 1, l>>, 0)) \in Moves
        /\ Read(Eval(<<"acc", 1, l>>, 0)) \in Moves /\ Read(Eval(<<"acc", 1, l>>, 1)) \in Moves
    <3>1. /\ Eval(<<"m", 1, l>>, 0) \in Values
          /\ Eval(<<"acc", 1, l>>, 0) \in Values /\ Eval(<<"acc", 1, l>>, 1) \in Values
      BY <2>4, EvalValues
    <3>2. QED  BY <3>1, ValueMoves
  <2>8. [j \in 1 .. k.chunks[l] |-> Read(Eval(<<"h", 1, l, j>>, 0))] = [j \in 1 .. c |-> Read(v[j])]
    BY <2>1, <2>2
  <2>9. PICK b \in Seq(Moves) : b = [j \in 1 .. c |-> Read(v[j])]  BY <2>6
  <2>10. PICK a \in Seq(Moves) : a = <<Read(Eval(<<"m", 1, l>>, 0))>>
    BY <2>7, OneTyped
  <2>11. PICK e \in Seq(Moves) :
             e = <<Read(Eval(<<"acc", 1, l>>, 0)), Read(Eval(<<"acc", 1, l>>, 1))>>
    BY <2>7, TwoTyped
  <2>12. d(1, l) = a \o b \o e  BY <2>8, <2>9, <2>10, <2>11
  <2> HIDE DEF d
  <2>13. QED  BY <2>12, JoinTyped
<1>6. FlattenSeq(row(1)) \in Seq(Moves)
  <2> HIDE DEF d
  <2>1. row(1) \in [1 .. n -> Seq(Moves)]  BY <1>5
  <2> HIDE DEF row
  <2>2. QED  BY <2>1, FlattenType
<1> HIDE DEF d, row
<1>7. t[1] = FlattenSeq(row(1))  BY <1>2
<1>8. FlattenSeq(t) = t[1]
  <2>1. t = [p \in 1 .. 1 |-> t[p]]  BY <1>2
  <2>2. QED  BY <1>6, <1>7, <2>1, OfOnlyProof
<1>9. QED  BY <1>3, <1>4, <1>6, <1>7, <1>8

\* The evaluations of the permutation argument.
LEMMA OnlyPermutationEvals ==
    ASSUME NEW k \in Keys, k.proofs = 1
    PROVE  /\ ReadPermutationEvals(k) = GadgetPermutationEvals(k)
           /\ GadgetPermutationEvals(k) \in Seq(Moves)
<1>1. PICK n \in Nat : n = NumPermutationSets(k)  BY KeySizes
<1>2. PICK r \in Int : r = LastRotation(k)  BY KeySizes
<1> DEFINE d(p, i) == <<Read(Eval(<<"z", p, i>>, 0)), Read(Eval(<<"z", p, i>>, 1))>>
                      \o (IF n - i > 0 THEN <<Read(Eval(<<"z", p, i>>, r))>> ELSE <<>>)
           e(i) == <<Read(Eval(<<"z", 1, i>>, 0)), Read(Eval(<<"z", 1, i>>, 1))>>
                   \o (IF i < n THEN <<Read(Eval(<<"z", 1, i>>, r))>> ELSE <<>>)
           row(p) == [i \in 1 .. n |-> d(p, i)]
           own == [i \in 1 .. n |-> e(i)]
           sigma == [i \in DOMAIN k.cs.permutation |-> Read(Eval(<<"sigma", i>>, 0))]
<1>3. PICK t : t = [p \in 1 .. 1 |-> FlattenSeq(row(p))]  OBVIOUS
<1>4. ReadPermutationEvals(k) = sigma \o FlattenSeq(t)
  BY <1>1, <1>2, <1>3 DEF ReadPermutationEvals, Each
<1>5. GadgetPermutationEvals(k) = sigma \o FlattenSeq(own)
  BY <1>1, <1>2 DEF GadgetPermutationEvals, Each
<1>6. ASSUME NEW i \in 1 .. n
      PROVE  d(1, i) = e(i) /\ d(1, i) \in Seq(Moves)
  <2>1. i \in Nat /\ 1 \in Nat  OBVIOUS
  <2>2. n - i > 0 <=> i < n  BY <2>1
  <2>3. d(1, i) = e(i)  BY <2>2
  <2>4. <<"z", 1, i>> \in Commitments  BY <2>1, OfOneProof
  <2>5. /\ Eval(<<"z", 1, i>>, 0) \in Values /\ Eval(<<"z", 1, i>>, 1) \in Values
        /\ Eval(<<"z", 1, i>>, r) \in Values
    BY <2>4, EvalValues
  <2>6. PICK a \in Moves : a = Read(Eval(<<"z", 1, i>>, 0))  BY <2>5, ValueMoves
  <2>7. PICK b \in Moves : b = Read(Eval(<<"z", 1, i>>, 1))  BY <2>5, ValueMoves
  <2>8. PICK c \in Moves : c = Read(Eval(<<"z", 1, i>>, r))  BY <2>5, ValueMoves
  <2>9. PICK u \in Seq(Moves) : u = IF i < n THEN <<c>> ELSE <<>>
    <3>1. <<c>> \in Seq(Moves) /\ <<>> \in Seq(Moves)  BY OneTyped
    <3>2. QED  BY <3>1
  <2>10. PICK w \in Seq(Moves) : w = <<a, b>>  BY TwoTyped
  <2>11. e(i) = w \o u  BY <2>6, <2>7, <2>8, <2>9, <2>10
  <2>12. w \o u \in Seq(Moves)  OBVIOUS
  <2> HIDE DEF d, e
  <2>13. QED  BY <2>3, <2>11, <2>12
<1>7. row(1) = own
  <2> HIDE DEF d, e
  <2>1. QED  BY <1>6
<1>8. FlattenSeq(row(1)) \in Seq(Moves)
  <2> HIDE DEF d
  <2>1. row(1) \in [1 .. n -> Seq(Moves)]  BY <1>6
  <2> HIDE DEF row
  <2>2. QED  BY <2>1, FlattenType
<1>9. sigma \in Seq(Moves)  BY SigmaPair DEF Pairs
<1> HIDE DEF d, e, row, own, sigma
<1>10. t[1] = FlattenSeq(row(1))  BY <1>3
<1>11. FlattenSeq(t) = t[1]
  <2>1. t = [p \in 1 .. 1 |-> t[p]]  BY <1>3
  <2>2. QED  BY <1>8, <1>10, <2>1, OfOnlyProof
<1>12. PICK u \in Seq(Moves) : u = sigma  BY <1>9
<1>13. PICK w \in Seq(Moves) : w = FlattenSeq(own)  BY <1>7, <1>8
<1>14. u \o w \in Seq(Moves)  OBVIOUS
<1>15. QED  BY <1>4, <1>5, <1>7, <1>10, <1>11, <1>12, <1>13, <1>14

\* The evaluations of the instance and advice columns.
LEMMA OnlyColumnEvals ==
    ASSUME NEW k \in Keys, k.proofs = 1
    PROVE  /\ ReadInstanceEvals(k) = OneInstanceEvals(k) /\ OneInstanceEvals(k) \in Seq(Moves)
           /\ ReadAdviceEvals(k) = OneAdviceEvals(k) /\ OneAdviceEvals(k) \in Seq(Moves)
<1>1. PICK qi : qi = k.cs.queries["instance"]  OBVIOUS
<1>2. PICK qa : qa = k.cs.queries["advice"]  OBVIOUS
<1>3. PICK ti \in Nat : ti = Len(qi)  BY <1>1, KeyQueries, KindsAre
<1>4. PICK ta \in Nat : ta = Len(qa)  BY <1>2, KeyQueries, KindsAre
<1>5. /\ \A i \in 1 .. ti : qi[i][1] \in Nat /\ qi[i][2] \in Int
      /\ \A i \in 1 .. ta : qa[i][1] \in Nat /\ qa[i][2] \in Int
      /\ DOMAIN qa = 1 .. ta
  BY <1>1, <1>2, <1>3, <1>4, KeyQueries, KindsAre
<1> DEFINE d(p, i) == IF qi[i][1] <= k.committed
                      THEN <<Read(Eval(Instance(p, qi[i][1]), qi[i][2]))>> ELSE <<>>
           row(p) == [i \in 1 .. ti |-> d(p, i)]
<1>6. PICK t : t = [p \in 1 .. 1 |-> FlattenSeq(row(p))]  OBVIOUS
<1>7. PICK u : u = [p \in 1 .. 1 |->
                [i \in 1 .. ta |-> Read(Eval(Column(p, qa[i][1]), qa[i][2]))]]
  OBVIOUS
<1>8. ReadInstanceEvals(k) = FlattenSeq(t)  BY <1>1, <1>3, <1>6 DEF ReadInstanceEvals, Each
<1>9. ReadAdviceEvals(k) = FlattenSeq(u)  BY <1>2, <1>5, <1>7 DEF ReadAdviceEvals, Each
<1>10. OneInstanceEvals(k) = FlattenSeq(row(1))  BY <1>1, <1>3 DEF OneInstanceEvals, Each
<1>11. OneAdviceEvals(k) = u[1]  BY <1>2, <1>5, <1>7 DEF OneAdviceEvals
<1>12. ASSUME NEW i \in 1 .. ti
       PROVE  d(1, i) \in Seq(Moves)
  <2>1. PICK c \in Nat : c = qi[i][1]  BY <1>5
  <2>2. PICK r \in Int : r = qi[i][2]  BY <1>5
  <2>3. 1 \in Nat  OBVIOUS
  <2>4. Instance(1, c) \in Commitments  BY <2>3, OfOneProof
  <2>5. Eval(Instance(1, c), r) \in Values  BY <2>4, EvalValues
  <2>6. Read(Eval(Instance(1, c), r)) \in Moves  BY <2>5, ValueMoves
  <2>7. <<Read(Eval(Instance(1, c), r))>> \in Seq(Moves) /\ <<>> \in Seq(Moves)  BY <2>6
  <2>8. QED  BY <2>1, <2>2, <2>7
<1>13. PICK v : v = [i \in 1 .. ta |-> Eval(Column(1, qa[i][1]), qa[i][2])]  OBVIOUS
<1>14. ASSUME NEW i \in 1 .. ta
       PROVE  v[i] \in Values
  <2>1. PICK c \in Nat : c = qa[i][1]  BY <1>5
  <2>2. PICK r \in Int : r = qa[i][2]  BY <1>5
  <2>3. 1 \in Nat  OBVIOUS
  <2>4. Column(1, c) \in Commitments  BY <2>3, OfOneProof
  <2>5. Eval(Column(1, c), r) \in Values  BY <2>4, EvalValues
  <2>6. QED  BY <1>13, <2>1, <2>2, <2>5
<1>15. FlattenSeq(u) = u[1] /\ u[1] \in Seq(Moves)
  <2>1. u[1] = [i \in 1 .. ta |-> Read(v[i])]  BY <1>7, <1>13
  <2>2. u = [p \in 1 .. 1 |-> u[p]]  BY <1>7
  <2>3. QED  BY <1>14, <2>1, <2>2, OnlyReads
<1>16. FlattenSeq(row(1)) \in Seq(Moves)
  <2> HIDE DEF d
  <2>1. row(1) \in [1 .. ti -> Seq(Moves)]  BY <1>12
  <2> HIDE DEF row
  <2>2. QED  BY <2>1, FlattenType
<1> HIDE DEF d, row
<1>17. t[1] = FlattenSeq(row(1))  BY <1>6
<1>18. FlattenSeq(t) = t[1]
  <2>1. t = [p \in 1 .. 1 |-> t[p]]  BY <1>6
  <2>2. QED  BY <1>16, <1>17, <2>1, OfOnlyProof
<1>19. QED  BY <1>8, <1>9, <1>10, <1>11, <1>15, <1>16, <1>17, <1>18

\* The calls the circuit is for.
Suits(k) == k.proofs = 1 /\ ~GadgetPanics(k) /\ k.cs.challenge_phase = <<>>

\* They are calls of one phase that the verifier does not refuse.
LEMMA SuitingCalls ==
    ASSUME NEW k \in Keys, Suits(k)
    PROVE  ~VerifierRefuses(k) /\ OneOrder(k) /\ LastPhase(k) = 0
<1>1. k.committed + k.plain = k.cs.num_instance_columns /\ Phases(k.cs) = {0}
  BY DEF Suits, GadgetPanics
<1>2. ~VerifierRefuses(k) /\ OneOrder(k)  BY <1>1 DEF Suits, VerifierRefuses, OneOrder
<1>3. LastPhase(k) = 0
  <2>1. PICK S : S = {0}  OBVIOUS
  <2>2. \A x \in S : x = 0  BY <2>1
  <2>3. 0 \in S /\ \A y \in S : 0 >= y  BY <2>1
  <2>4. Max(S) = 0  BY <2>2, <2>3 DEF Max
  <2>5. QED  BY <1>1, <2>1, <2>4 DEF LastPhase
<1>4. QED  BY <1>2, <1>3

\* The advice columns.
LEMMA OnlyColumns ==
    ASSUME NEW k \in Keys, Suits(k)
    PROVE  ReadAdvices(k, 0) = OneColumns(k) /\ OneColumns(k) \in Seq(Moves)
<1>1. PICK n \in Nat : n = NumAdvice(k) /\ DOMAIN k.cs.advice_column_phase = 1 .. n  BY KeyLists
<1>2. \A c \in 1 .. n : k.cs.advice_column_phase[c] = 0
  <2>1. LastPhase(k) = 0  BY SuitingCalls
  <2>2. ASSUME NEW c \in 1 .. n
        PROVE  k.cs.advice_column_phase[c] = 0
    <3>1. k.cs.advice_column_phase[c] \in Nat /\ k.cs.advice_column_phase[c] <= 0
      BY <1>1, <2>1, LastPhaseBounds
    <3>2. QED  BY <3>1
  <2>3. QED  BY <2>2
<1> DEFINE d(p, c) == IF k.cs.advice_column_phase[c] = 0 THEN <<Read(Column(p, c))>> ELSE <<>>
           row(p) == [c \in 1 .. n |-> d(p, c)]
           e(i) == IF k.cs.challenge_phase[i] = 0 THEN <<Squeeze(<<"user", i>>)>> ELSE <<>>
<1>3. PICK t : t = [p \in 1 .. 1 |-> FlattenSeq(row(p))]  OBVIOUS
<1>4. PICK u : u = [i \in 1 .. 0 |-> <<>>]  OBVIOUS
<1>5. ReadAdvices(k, 0) = FlattenSeq(t) \o FlattenSeq(u)
  <2>1. Len(k.cs.challenge_phase) = 0 /\ k.proofs = 1  BY DEF Suits
  <2>2. u = [i \in 1 .. 0 |-> e(i)]  BY <1>4
  <2>3. ReadAdvices(k, 0) = FlattenSeq(t) \o FlattenSeq([i \in 1 .. 0 |-> e(i)])
    BY <1>1, <1>3, <2>1 DEF ReadAdvices, Each
  <2> HIDE DEF e
  <2>4. QED  BY <2>2, <2>3
<1>6. PICK f : f = OneColumns(k)  OBVIOUS
<1>7. f \in Seq(Moves) /\ f \in [1 .. n -> Moves]
  <2>1. PICK v : v = [c \in 1 .. n |-> Column(1, c)]  OBVIOUS
  <2>2. ASSUME NEW c \in 1 .. n
        PROVE  v[c] \in Values
    <3>1. 1 \in Nat /\ c \in Nat  OBVIOUS
    <3>2. Column(1, c) \in Values  BY <3>1, SomeValues
    <3>3. QED  BY <2>1, <3>2
  <2>3. f = [c \in 1 .. n |-> Read(v[c])]  BY <1>1, <1>6, <2>1 DEF OneColumns
  <2>4. f \in Seq(Moves)  BY <2>2, <2>3, ReadsTyped
  <2>5. \A c \in 1 .. n : Read(v[c]) \in Moves  BY <2>2, ValueMoves
  <2>6. QED  BY <2>3, <2>4, <2>5
<1>8. row(1) = [c \in 1 .. n |-> <<f[c]>>]
  <2>1. \A c \in 1 .. n : d(1, c) = <<f[c]>>  BY <1>1, <1>2, <1>6 DEF OneColumns
  <2> HIDE DEF d
  <2>2. QED  BY <2>1
<1> HIDE DEF d, row
<1>9. FlattenSeq(row(1)) = f  BY <1>7, <1>8, FlattenSingles
<1>10. t[1] = f  BY <1>3, <1>9
<1>11. FlattenSeq(t) = f
  <2>1. t = [p \in 1 .. 1 |-> t[p]]  BY <1>3
  <2>2. QED  BY <1>7, <1>10, <2>1, OfOnlyProof
<1>12. FlattenSeq(u) = <<>>  BY <1>4, FlattenEmpties
<1>13. f \o <<>> = f  BY <1>7
<1>14. QED  BY <1>5, <1>6, <1>7, <1>11, <1>12, <1>13

\* The instances.
LEMMA OnlyInstances ==
    ASSUME NEW k \in Keys, k.proofs = 1
    PROVE  /\ AbsorbInstances(k) = CommittedItems(k, 1) \o PlainItems(k, 1)
           /\ CommittedItems(k, 1) \in Seq(Moves) /\ PlainItems(k, 1) \in Seq(Moves)
<1>1. PICK x : x = [p \in 1 .. 1 |-> CommittedItems(k, p)]  OBVIOUS
<1>2. PICK y : y = [p \in 1 .. 1 |-> PlainItems(k, p)]  OBVIOUS
<1>3. AbsorbInstances(k) = FlattenSeq(x) \o FlattenSeq(y)
  <2>1. /\ x = [p \in 1 .. 1 |-> [c \in 1 .. k.committed |-> Common(Instance(p, c))]]
        /\ y = [p \in 1 .. 1 |-> FlattenSeq([c \in 1 .. k.plain |->
                   <<Common(<<"len", p, k.committed + c>>)>>
                   \o [r \in 1 .. k.len |-> Common(<<"value", p, k.committed + c, r>>)]])]
    BY <1>1, <1>2 DEF CommittedItems, PlainItems, Each, InstanceItems
  <2>2. QED  BY <2>1 DEF AbsorbInstances, Each
<1>4. CommittedItems(k, 1) \in Seq(Moves) /\ PlainItems(k, 1) \in Seq(Moves)
  <2>1. PICK plain \in Nat : plain = k.plain  BY KeysAssumption
  <2>2. 1 \in Nat  OBVIOUS
  <2>3. CommittedItems(k, 1) \in Seq(Absorptions) /\ PlainItems(k, 1) \in Seq(Absorptions)
    BY <2>1, <2>2, OfOneProofType
  <2>4. Absorptions \subseteq Moves  BY DEF Absorptions, Moves
  <2>5. Seq(Absorptions) \subseteq Seq(Moves)  BY <2>4
  <2>6. QED  BY <2>3, <2>5
<1>5. FlattenSeq(x) = x[1] /\ FlattenSeq(y) = y[1]
  <2>1. x = [p \in 1 .. 1 |-> x[p]] /\ x[1] = CommittedItems(k, 1)  BY <1>1
  <2>2. y = [p \in 1 .. 1 |-> y[p]] /\ y[1] = PlainItems(k, 1)  BY <1>2
  <2>3. QED  BY <1>4, <2>1, <2>2, OfOnlyProof
<1>6. x[1] = CommittedItems(k, 1) /\ y[1] = PlainItems(k, 1)  BY <1>1, <1>2
<1>7. QED  BY <1>3, <1>4, <1>5, <1>6

\* The quotient's limbs.
LEMMA OnlyLimbs ==
    ASSUME NEW k \in Keys
    PROVE  /\ [i \in 1 .. QuotientPolyDegree(k) |-> Read(<<"limb", i>>)] \in Seq(Moves)
<1>1. PICK n \in Nat : n = QuotientPolyDegree(k)  BY KeySizes
<1>2. PICK v : v = [i \in 1 .. n |-> <<"limb", i>>]  OBVIOUS
<1>3. ASSUME NEW i \in 1 .. n
      PROVE  v[i] \in Values
  <2>1. i \in Nat  OBVIOUS
  <2>2. <<"limb", i>> \in Values  BY <2>1, NumberedValues
  <2>3. QED  BY <1>2, <2>2
<1>4. [i \in 1 .. n |-> Read(v[i])] \in Seq(Moves)  BY <1>3, ReadsTyped
<1>5. QED  BY <1>1, <1>2, <1>4

\* What is in a part is in every list flattened beyond it.
LEMMA FlattenHolds ==
    ASSUME NEW S, NEW n \in Nat, NEW parts \in [1 .. n -> Seq(S)], NEW f,
           FlattenValues(f, S, n, parts), NEW m \in 0 .. n, NEW i \in 1 .. m,
           NEW x, x \in ToSet(parts[i])
    PROVE  x \in ToSet(f[m])
<1>1. /\ f \in [0 .. n -> Seq(S)]
      /\ \A j \in 1 .. n : f[j] = f[j - 1] \o parts[j]
  BY DEF FlattenValues
<1>2. i \in 1 .. n  OBVIOUS
<1> DEFINE Good == {j \in Nat : i <= j /\ j <= n => x \in ToSet(f[j])}
<1>3. 0 \in Good  OBVIOUS
<1>4. ASSUME NEW j \in Nat, j \in Good
      PROVE  j + 1 \in Good
  <2> SUFFICES ASSUME i <= j + 1, j + 1 <= n
               PROVE  x \in ToSet(f[j + 1])
    OBVIOUS
  <2>1. j + 1 \in 1 .. n /\ (j + 1) - 1 = j /\ j \in 0 .. n  OBVIOUS
  <2>2. f[j + 1] = f[j] \o parts[j + 1]  BY <1>1, <2>1
  <2>3. f[j] \in Seq(S) /\ parts[j + 1] \in Seq(S)  BY <1>1, <2>1
  <2>4. x \in ToSet(f[j]) \/ x \in ToSet(parts[j + 1])
    <3>1. CASE i <= j
      BY <1>4, <2>1, <3>1
    <3>2. CASE i = j + 1
      BY <3>2
    <3>3. QED  BY <3>1, <3>2
  <2>5. QED  BY <2>2, <2>3, <2>4, JoinedHolds
<1>5. m \in Good
  <2> HIDE DEF Good
  <2>1. QED  BY <1>3, <1>4, SetInduction
<1>6. QED  BY <1>5

\* The circuit's program before multi_prepare.
Early(k) == GadgetTrace(k) \o GadgetEvaluations(k)

\* The lists of the circuit's program, twenty in all.
TraceIs(trace, a) ==
    trace = a[1] \o a[2] \o a[3] \o a[4] \o a[5] \o a[6] \o a[7] \o a[8] \o a[9] \o a[10]
                \o a[11] \o a[12]
EvaluationsAre(evals, a) ==
    evals = a[13] \o a[14] \o a[15] \o a[16] \o a[17] \o a[18] \o a[19] \o a[20]

\* The same lists in the sections of the verifier.
SectionLists(V, a) ==
    /\ V[1] = a[1] /\ V[2] = a[2] \o a[3] /\ V[3] = a[4] /\ V[4] = a[5] \o a[6]
    /\ V[5] = a[7] \o a[8] /\ V[6] = a[9] /\ V[7] = a[10] \o a[11] \o a[12]
    /\ V[8] = a[13] \o a[14] /\ V[9] = a[15] /\ V[10] = a[16] /\ V[11] = a[17]
    /\ V[12] = a[18] /\ V[13] = a[19] /\ V[14] = a[20]

\* The lists of the circuit are those of the verifier.
LEMMA GadgetLists ==
    ASSUME NEW k \in Keys, SlotsMatch(k), Suits(k), NEW g \in BOOLEAN,
           NEW V, VerifierIs(k, g, 0, V)
    PROVE  \E a : /\ \A i \in 1 .. 20 : a[i] \in Seq(Moves)
                  /\ TraceIs(GadgetTrace(k), a) /\ EvaluationsAre(GadgetEvaluations(k), a)
                  /\ SectionLists(V, a)
<1>0. k.proofs = 1  BY DEF Suits
<1> DEFINE limbs == [i \in 1 .. QuotientPolyDegree(k) |-> Read(<<"limb", i>>)]
           slots == [i \in 1 .. FixedSlots(k) |-> Read(<<"slot", i>>)]
<1>1. PICK a : a = << << Common(<<"vk">>) >>, CommittedItems(k, 1), PlainItems(k, 1),
          OneColumns(k), << Squeeze(<<"theta">>) >>, OneMultiplicities(k),
          << Squeeze(<<"beta">>), Squeeze(<<"gamma">>) >>, OneProducts(k), OneLookups(k),
          << Squeeze(<<"trash_challenge">>) >>, OneTrash(k), << Squeeze(<<"y">>) >>,
          limbs, << Squeeze(<<"x">>) >>, OneInstanceEvals(k), OneAdviceEvals(k), slots,
          GadgetPermutationEvals(k), GadgetLookupEvals(k), OneTrashEvals(k) >>
  OBVIOUS
<1>2. TraceIs(GadgetTrace(k), a)
  <2>1. GadgetTrace(k) = << Common(<<"vk">>) >> \o CommittedItems(k, 1) \o PlainItems(k, 1)
          \o OneColumns(k) \o << Squeeze(<<"theta">>) >> \o OneMultiplicities(k)
          \o << Squeeze(<<"beta">>), Squeeze(<<"gamma">>) >> \o OneProducts(k) \o OneLookups(k)
          \o << Squeeze(<<"trash_challenge">>) >> \o OneTrash(k) \o << Squeeze(<<"y">>) >>
    BY DEF GadgetTrace, CommittedItems, PlainItems, InstanceItems, Each, OneColumns,
           OneMultiplicities, OneProducts, OneLookups, OneTrash
  <2>2. QED  BY <1>1, <2>1 DEF TraceIs
<1>3. EvaluationsAre(GadgetEvaluations(k), a)
  <2>1. GadgetEvaluations(k) = limbs \o << Squeeze(<<"x">>) >> \o OneInstanceEvals(k)
          \o OneAdviceEvals(k) \o slots \o GadgetPermutationEvals(k) \o GadgetLookupEvals(k)
          \o OneTrashEvals(k)
    BY DEF GadgetEvaluations, OneInstanceEvals, OneAdviceEvals, OneTrashEvals
  <2>2. QED  BY <1>1, <2>1 DEF EvaluationsAre
<1>4. SectionLists(V, a)
  <2>1. V[1] = a[1]  BY <1>1 DEF VerifierIs
  <2>2. V[2] = a[2] \o a[3]  BY <1>0, <1>1, OnlyInstances DEF VerifierIs
  <2>3. V[3] = a[4]
    <3>1. V[3] = ReadAdvices(k, 0)
      <4>1. 1 \in 1 .. 0 + 1 /\ 1 + 2 = 3 /\ 1 - 1 = 0  OBVIOUS
      <4>2. \A i \in 1 .. 0 + 1 : V[i + 2] = ReadAdvices(k, i - 1)  BY DEF VerifierIs
      <4>3. V[1 + 2] = ReadAdvices(k, 1 - 1)  BY <4>1, <4>2
      <4>4. QED  BY <4>1, <4>3
    <3>2. QED  BY <1>1, <3>1, OnlyColumns
  <2>11. /\ V[4] = ReadMultiplicities(k) /\ V[5] = ReadProductCommitments(k)
         /\ V[6] = ReadLookupCommitments(k) /\ V[7] = ReadTrash(k) /\ V[8] = ReadQuotient(k)
    BY DEF VerifierIs
  <2>12. /\ a[5] = << Squeeze(<<"theta">>) >> /\ a[6] = OneMultiplicities(k)
         /\ a[7] = << Squeeze(<<"beta">>), Squeeze(<<"gamma">>) >> /\ a[8] = OneProducts(k)
         /\ a[9] = OneLookups(k) /\ a[10] = << Squeeze(<<"trash_challenge">>) >>
    BY <1>1
  <2>13. /\ a[11] = OneTrash(k) /\ a[12] = << Squeeze(<<"y">>) >>
         /\ a[13] = limbs /\ a[14] = << Squeeze(<<"x">>) >>
    BY <1>1
  <2>4. V[4] = a[5] \o a[6] /\ V[5] = a[7] \o a[8]
    BY <1>0, <2>11, <2>12, OnlyMultiplicities, OnlyProducts
  <2>5. V[6] = a[9] /\ V[7] = a[10] \o a[11] \o a[12]
    BY <1>0, <2>11, <2>12, <2>13, OnlyLookups, OnlyTrash
  <2>6. V[8] = a[13] \o a[14]  BY <2>11, <2>13 DEF ReadQuotient
  <2>7. V[9] = a[15] /\ V[10] = a[16]  BY <1>0, <1>1, OnlyColumnEvals DEF VerifierIs
  <2>8. V[11] = a[17]  BY <1>1 DEF VerifierIs, ReadFixedEvals
  <2>9. V[12] = a[18] /\ V[13] = a[19] /\ V[14] = a[20]
    BY <1>0, <1>1, OnlyPermutationEvals, OnlyLookupEvals, OnlyTrash DEF VerifierIs
  <2>10. QED  BY <2>1, <2>2, <2>3, <2>4, <2>5, <2>6, <2>7, <2>8, <2>9 DEF SectionLists
<1>5. /\ a[1] \in Seq(Moves) /\ a[5] \in Seq(Moves) /\ a[7] \in Seq(Moves)
      /\ a[10] \in Seq(Moves) /\ a[12] \in Seq(Moves) /\ a[14] \in Seq(Moves)
  <2>1. a[1] \in Seq(Moves)  BY <1>1, KeyPairs DEF Pairs
  <2>2. a[7] \in Seq(Moves)  BY <1>1, TheNames, TwoNames DEF Pairs
  <2>3. a[5] \in Seq(Moves)  BY <1>1, TheNames, OneName DEF Pairs
  <2>4. a[10] \in Seq(Moves)  BY <1>1, TheNames, OneName DEF Pairs
  <2>5. a[12] \in Seq(Moves)  BY <1>1, TheNames, OneName DEF Pairs
  <2>6. a[14] \in Seq(Moves)  BY <1>1, TheNames, OneName DEF Pairs
  <2>7. QED  BY <2>1, <2>2, <2>3, <2>4, <2>5, <2>6
<1>6. /\ a[2] \in Seq(Moves) /\ a[3] \in Seq(Moves) /\ a[4] \in Seq(Moves)
      /\ a[6] \in Seq(Moves) /\ a[8] \in Seq(Moves) /\ a[9] \in Seq(Moves)
      /\ a[11] \in Seq(Moves) /\ a[13] \in Seq(Moves)
  BY <1>0, <1>1, OnlyInstances, OnlyColumns, OnlyMultiplicities, OnlyProducts, OnlyLookups,
     OnlyTrash, OnlyLimbs
<1>7. /\ a[15] \in Seq(Moves) /\ a[16] \in Seq(Moves) /\ a[17] \in Seq(Moves)
      /\ a[18] \in Seq(Moves) /\ a[19] \in Seq(Moves) /\ a[20] \in Seq(Moves)
  <2>1. ReadFixedEvals(k) \in Seq(Moves) /\ ReadFixedEvals(k) = slots
    BY EvaluationsPair DEF ReadFixedEvals
  <2>2. QED  BY <1>0, <1>1, <2>1, OnlyColumnEvals, OnlyPermutationEvals, OnlyLookupEvals, OnlyTrash
<1>8. \A i \in 1 .. 20 : a[i] \in Seq(Moves)
  <2>1. \A i \in 1 .. 20 :
            \/ i = 1 \/ i = 2 \/ i = 3 \/ i = 4 \/ i = 5 \/ i = 6 \/ i = 7 \/ i = 8
            \/ i = 9 \/ i = 10 \/ i = 11 \/ i = 12 \/ i = 13 \/ i = 14 \/ i = 15
            \/ i = 16 \/ i = 17 \/ i = 18 \/ i = 19 \/ i = 20
    OBVIOUS
  <2>2. PICK S : S = Seq(Moves)  OBVIOUS
  <2>3. QED  BY <1>5, <1>6, <1>7, <2>1, <2>2
<1>9. QED  BY <1>2, <1>3, <1>4, <1>8

\* The circuit is in step with the verifier up to the multi-opening.
GadgetInStep(k, g) ==
    /\ Early(k) \in Seq(Moves)
    /\ Checked(k, g) = Early(k) \o MultiPrepareOps(k, g)
    /\ \A i \in 1 .. 14 : \A x \in ToSet(VerifierProgram(k, g)[i]) : x \in ToSet(Early(k))

\* It goes through the first 14 sections of the verifier's program.
LEMMA GadgetProgram ==
    ASSUME NEW k \in Keys, SlotsMatch(k), Suits(k), NEW g \in BOOLEAN
    PROVE  GadgetInStep(k, g)
<1>1. PICK V : V = VerifierProgram(k, g)  OBVIOUS
<1>2. VerifierIs(k, g, 0, V)
  <2>1. 0 \in Nat /\ LastPhase(k) = 0  BY SuitingCalls
  <2>2. QED  BY <1>1, <2>1, VerifierEntries
<1>3. V \in [1 .. 15 -> Seq(Moves)]
  <2>1. V \in Seq(Seq(Moves))  BY <1>1, ProgramsTyped
  <2>2. PICK n \in Nat : n = 15  OBVIOUS
  <2>3. DOMAIN V = 1 .. n
    <3>1. 0 + 15 = n  BY <2>2
    <3>2. DOMAIN V = 1 .. 0 + 15  BY <1>2 DEF VerifierIs
    <3>3. QED  BY <3>1, <3>2
  <2>4. \A i \in 1 .. n : V[i] \in Seq(Moves)  BY <2>1, <2>3
  <2>5. V \in [1 .. n -> Seq(Moves)]  BY <2>1, <2>3, <2>4
  <2>6. QED  BY <2>2, <2>5
<1>4. PICK b : FlattenValues(b, Moves, 15, V)  BY <1>3, FlattenEquation
<1>5. /\ b \in [0 .. 15 -> Seq(Moves)] /\ b[0] = <<>> /\ b[15] = FlattenSeq(V)
      /\ \A i \in 1 .. 15 : b[i] = b[i - 1] \o V[i]
  BY <1>4 DEF FlattenValues
<1>6. /\ b[1] = b[0] \o V[1] /\ b[2] = b[1] \o V[2] /\ b[3] = b[2] \o V[3]
      /\ b[4] = b[3] \o V[4] /\ b[5] = b[4] \o V[5] /\ b[6] = b[5] \o V[6]
      /\ b[7] = b[6] \o V[7] /\ b[8] = b[7] \o V[8] /\ b[9] = b[8] \o V[9]
      /\ b[10] = b[9] \o V[10] /\ b[11] = b[10] \o V[11] /\ b[12] = b[11] \o V[12]
      /\ b[13] = b[12] \o V[13] /\ b[14] = b[13] \o V[14] /\ b[15] = b[14] \o V[15]
  <2>1. ASSUME NEW i \in {1, 2, 3, 4, 5, 6, 7, 8, 9, 10, 11, 12, 13, 14, 15}
        PROVE  b[i] = b[i - 1] \o V[i]
    <3>1. i \in 1 .. 15  OBVIOUS
    <3>2. QED  BY <1>5, <3>1
  <2>2. /\ 1 - 1 = 0 /\ 2 - 1 = 1 /\ 3 - 1 = 2 /\ 4 - 1 = 3 /\ 5 - 1 = 4 /\ 6 - 1 = 5
        /\ 7 - 1 = 6 /\ 8 - 1 = 7 /\ 9 - 1 = 8 /\ 10 - 1 = 9 /\ 11 - 1 = 10 /\ 12 - 1 = 11
        /\ 13 - 1 = 12 /\ 14 - 1 = 13 /\ 15 - 1 = 14
    OBVIOUS
  <2>3. QED  BY <2>1, <2>2
<1>7. PICK a : /\ \A i \in 1 .. 20 : a[i] \in Seq(Moves)
               /\ TraceIs(GadgetTrace(k), a) /\ EvaluationsAre(GadgetEvaluations(k), a)
               /\ SectionLists(V, a)
  BY <1>2, GadgetLists
<1>8. GadgetTrace(k) = b[7]
  <2>1. b[1] = a[1]
    <3>1. a[1] \in Seq(Moves)  BY <1>7
    <3>2. <<>> \o a[1] = a[1]  BY <3>1
    <3>3. QED  BY <1>5, <1>6, <1>7, <3>2 DEF SectionLists
  <2>2. b[2] = a[1] \o a[2] \o a[3]
    <3>1. a[1] \in Seq(Moves) /\ a[2] \in Seq(Moves) /\ a[3] \in Seq(Moves)  BY <1>7
    <3>2. (a[1] \o a[2]) \o a[3] = a[1] \o (a[2] \o a[3])
      <4>1. Joins(a[1], a[2], a[3])  BY <3>1, JoinTwice
      <4>2. QED  BY <4>1 DEF Joins
    <3>3. QED  BY <1>6, <1>7, <2>1, <3>2 DEF SectionLists
  <2>3. b[3] = b[2] \o a[4]  BY <1>6, <1>7 DEF SectionLists
  <2>4. b[4] = b[3] \o a[5] \o a[6]
    <3>1. b[3] \in Seq(Moves) /\ a[5] \in Seq(Moves) /\ a[6] \in Seq(Moves)  BY <1>5, <1>7
    <3>2. (b[3] \o a[5]) \o a[6] = b[3] \o (a[5] \o a[6])
      <4>1. Joins(b[3], a[5], a[6])  BY <3>1, JoinTwice
      <4>2. QED  BY <4>1 DEF Joins
    <3>3. QED  BY <1>6, <1>7, <3>2 DEF SectionLists
  <2>5. b[5] = b[4] \o a[7] \o a[8]
    <3>1. b[4] \in Seq(Moves) /\ a[7] \in Seq(Moves) /\ a[8] \in Seq(Moves)  BY <1>5, <1>7
    <3>2. (b[4] \o a[7]) \o a[8] = b[4] \o (a[7] \o a[8])
      <4>1. Joins(b[4], a[7], a[8])  BY <3>1, JoinTwice
      <4>2. QED  BY <4>1 DEF Joins
    <3>3. QED  BY <1>6, <1>7, <3>2 DEF SectionLists
  <2>6. b[6] = b[5] \o a[9]  BY <1>6, <1>7 DEF SectionLists
  <2>7. b[7] = b[6] \o a[10] \o a[11] \o a[12]
    <3>8. a[10] \in Seq(Moves) /\ a[11] \in Seq(Moves) /\ a[12] \in Seq(Moves)  BY <1>7
    <3>1. PICK s \in Seq(Moves) : s = b[6]  BY <1>5
    <3>2. PICK u \in Seq(Moves) : u = a[10]  BY <3>8
    <3>3. PICK v \in Seq(Moves) : v = a[11]  BY <3>8
    <3>4. PICK w \in Seq(Moves) : w = a[12]  BY <3>8
    <3>5. ((s \o u) \o v) \o w = s \o ((u \o v) \o w)  OBVIOUS
    <3>6. V[7] = (a[10] \o a[11]) \o a[12]  BY <1>7 DEF SectionLists
    <3>7. QED  BY <1>6, <3>1, <3>2, <3>3, <3>4, <3>5, <3>6
  <2>8. GadgetTrace(k) = a[1] \o a[2] \o a[3] \o a[4] \o a[5] \o a[6] \o a[7] \o a[8] \o a[9]
                             \o a[10] \o a[11] \o a[12]
    BY <1>7 DEF TraceIs
  <2>9. QED  BY <2>2, <2>3, <2>4, <2>5, <2>6, <2>7, <2>8
<1>9. GadgetEvaluations(k) = V[8] \o V[9] \o V[10] \o V[11] \o V[12] \o V[13] \o V[14]
  BY <1>7 DEF EvaluationsAre, SectionLists
<1>10. Early(k) = b[14]
  <2> DEFINE q9 == V[8] \o V[9]
             q10 == q9 \o V[10]
             q11 == q10 \o V[11]
             q12 == q11 \o V[12]
             q13 == q12 \o V[13]
  <2>1. /\ V[8] \in Seq(Moves) /\ V[9] \in Seq(Moves) /\ V[10] \in Seq(Moves)
        /\ V[11] \in Seq(Moves) /\ V[12] \in Seq(Moves) /\ V[13] \in Seq(Moves)
        /\ V[14] \in Seq(Moves) /\ b[7] \in Seq(Moves)
    BY <1>3, <1>5
  <2>2. q9 \in Seq(Moves)  BY <2>1, JoinTyped
  <2>3. q10 \in Seq(Moves)
    <3> HIDE DEF q9
    <3>1. QED  BY <2>1, <2>2, JoinTyped
  <2>4. q11 \in Seq(Moves)
    <3> HIDE DEF q10
    <3>1. QED  BY <2>1, <2>3, JoinTyped
  <2>5. q12 \in Seq(Moves)
    <3> HIDE DEF q11
    <3>1. QED  BY <2>1, <2>4, JoinTyped
  <2>6. q13 \in Seq(Moves)
    <3> HIDE DEF q12
    <3>1. QED  BY <2>1, <2>5, JoinTyped
  <2>7. b[9] = b[7] \o q9
    <3>1. (b[7] \o V[8]) \o V[9] = b[7] \o (V[8] \o V[9])
      <4>1. Joins(b[7], V[8], V[9])  BY <2>1, JoinTwice
      <4>2. QED  BY <4>1 DEF Joins
    <3>2. QED  BY <1>6, <3>1
  <2>8. b[10] = b[7] \o q10
    <3> HIDE DEF q9
    <3>1. (b[7] \o q9) \o V[10] = b[7] \o (q9 \o V[10])
      <4>1. Joins(b[7], q9, V[10])  BY <2>1, <2>2, JoinTwice
      <4>2. QED  BY <4>1 DEF Joins
    <3>2. QED  BY <1>6, <2>7, <3>1
  <2>9. b[11] = b[7] \o q11
    <3> HIDE DEF q10
    <3>1. (b[7] \o q10) \o V[11] = b[7] \o (q10 \o V[11])
      <4>1. Joins(b[7], q10, V[11])  BY <2>1, <2>3, JoinTwice
      <4>2. QED  BY <4>1 DEF Joins
    <3>2. QED  BY <1>6, <2>8, <3>1
  <2>10. b[12] = b[7] \o q12
    <3> HIDE DEF q11
    <3>1. (b[7] \o q11) \o V[12] = b[7] \o (q11 \o V[12])
      <4>1. Joins(b[7], q11, V[12])  BY <2>1, <2>4, JoinTwice
      <4>2. QED  BY <4>1 DEF Joins
    <3>2. QED  BY <1>6, <2>9, <3>1
  <2>11. b[13] = b[7] \o q13
    <3> HIDE DEF q12
    <3>1. (b[7] \o q12) \o V[13] = b[7] \o (q12 \o V[13])
      <4>1. Joins(b[7], q12, V[13])  BY <2>1, <2>5, JoinTwice
      <4>2. QED  BY <4>1 DEF Joins
    <3>2. QED  BY <1>6, <2>10, <3>1
  <2>12. b[14] = b[7] \o (q13 \o V[14])
    <3> HIDE DEF q13
    <3>1. (b[7] \o q13) \o V[14] = b[7] \o (q13 \o V[14])
      <4>1. Joins(b[7], q13, V[14])  BY <2>1, <2>6, JoinTwice
      <4>2. QED  BY <4>1 DEF Joins
    <3>2. QED  BY <1>6, <2>11, <3>1
  <2>13. GadgetEvaluations(k) = q13 \o V[14]  BY <1>9
  <2> HIDE DEF q13
  <2>14. QED  BY <1>8, <2>12, <2>13 DEF Early
<1>11. Early(k) \in Seq(Moves)  BY <1>5, <1>10
<1>12. Checked(k, g) = Early(k) \o MultiPrepareOps(k, g)
  <2>1. V[15] = MultiPrepareOps(k, g)  BY <1>2 DEF VerifierIs
  <2>2. QED  BY <1>1, <1>5, <1>6, <1>10, <2>1 DEF Checked
<1>13. ASSUME NEW i \in 1 .. 14, NEW x \in ToSet(V[i])
       PROVE  x \in ToSet(Early(k))
  <2>1. PICK n \in Nat : n = 15  OBVIOUS
  <2>2. PICK m \in 0 .. n : m = 14  BY <2>1
  <2>3. i \in 1 .. m /\ V \in [1 .. n -> Seq(Moves)] /\ FlattenValues(b, Moves, n, V)
    BY <1>3, <1>4, <2>1, <2>2
  <2>4. x \in ToSet(b[m])  BY <2>3, FlattenHolds
  <2>5. QED  BY <1>10, <2>2, <2>4
<1>14. QED  BY <1>1, <1>11, <1>12, <1>13 DEF GadgetInStep
-----------------------------------------------------------------------------
(* The circuit opens what the verifier opens.                              *)

\* The circuit's openings and the verifier's queries, list by list.
OpeningAt(values, com, rot) == [com |-> com, point |-> rot, eval |-> values[Eval(com, rot)]]

AdviceOpenings(k, values) ==
    LET advices == k.cs.queries["advice"]
    IN  [i \in DOMAIN advices |-> OpeningAt(values, Column(1, advices[i][1]), advices[i][2])]
AdviceQueries(k) ==
    LET advices == k.cs.queries["advice"]
    IN  [i \in DOMAIN advices |-> Query(Column(1, advices[i][1]), advices[i][2])]

InstanceOpenings(k, values) ==
    LET instances == k.cs.queries["instance"]
    IN  Each(Len(instances), LAMBDA i :
              IF instances[i][1] <= k.committed
              THEN <<OpeningAt(values, Instance(1, instances[i][1]), instances[i][2])>> ELSE <<>>)
InstanceQueries(k) ==
    LET instances == k.cs.queries["instance"]
    IN  Each(Len(instances), LAMBDA i :
              IF instances[i][1] <= k.committed
              THEN <<Query(Instance(1, instances[i][1]), instances[i][2])>> ELSE <<>>)

ProductOpenings(k, values) ==
    Each(NumPermutationSets(k), LAMBDA i :
        <<OpeningAt(values, <<"z", 1, i>>, 0), OpeningAt(values, <<"z", 1, i>>, 1)>>)
ProductQueries(k) ==
    Each(NumPermutationSets(k), LAMBDA i : <<Query(<<"z", 1, i>>, 0), Query(<<"z", 1, i>>, 1)>>)

LastOpenings(k, values) ==
    LET sets == NumPermutationSets(k)
    IN  IF sets = 0 THEN <<>>
        ELSE [i \in 1 .. sets - 1 |-> OpeningAt(values, <<"z", 1, sets - i>>, LastRotation(k))]
LastQueries(k) ==
    LET sets == NumPermutationSets(k)
    IN  SubSeq(Reverse([i \in 1 .. sets |-> Query(<<"z", 1, i>>, LastRotation(k))]), 2, sets)

LookupOpenings(k, values) ==
    Each(Len(k.cs.lookups), LAMBDA l :
        <<OpeningAt(values, <<"m", 1, l>>, 0)>>
        \o [j \in 1 .. k.chunks[l] |-> OpeningAt(values, <<"h", 1, l, j>>, 0)]
        \o <<OpeningAt(values, <<"acc", 1, l>>, 0), OpeningAt(values, <<"acc", 1, l>>, 1)>>)
LookupQueries(k) ==
    Each(Len(k.cs.lookups), LAMBDA l :
        <<Query(<<"m", 1, l>>, 0)>>
        \o [j \in 1 .. k.chunks[l] |-> Query(<<"h", 1, l, j>>, 0)]
        \o <<Query(<<"acc", 1, l>>, 0), Query(<<"acc", 1, l>>, 1)>>)

TrashOpenings(k, values) ==
    [t \in DOMAIN k.cs.trashcans |-> OpeningAt(values, <<"trash", 1, t>>, 0)]
TrashQueries(k) == [t \in DOMAIN k.cs.trashcans |-> Query(<<"trash", 1, t>>, 0)]

FixedOpenings(k, values) ==
    LET fixed == k.cs.queries["fixed"]
    IN  Each(Len(fixed), LAMBDA i :
              IF HasSimpleSelectorCol(k.cs, fixed[i][1]) THEN <<>>
              ELSE <<[com |-> <<"fixed", fixed[i][1]>>, point |-> fixed[i][2],
                      eval |-> FixedEvals(k, values)[i]]>>)
FixedQueries(k) ==
    LET fixed == k.cs.queries["fixed"]
    IN  Each(Len(fixed), LAMBDA i :
              IF HasSimpleSelectorCol(k.cs, fixed[i][1]) THEN <<>>
              ELSE <<Query(<<"fixed", fixed[i][1]>>, fixed[i][2])>>)

SigmaOpenings(k, values) ==
    [i \in DOMAIN k.cs.permutation |-> OpeningAt(values, <<"sigma", i>>, 0)]
SigmaQueries(k) == [i \in DOMAIN k.cs.permutation |-> Query(<<"sigma", i>>, 0)]

LinOpening == [com |-> <<"lin">>, point |-> 0, eval |-> Eval(<<"lin">>, 0)]

\* The openings of the circuit, in these lists.
LEMMA GadgetOpeningsAre ==
    ASSUME NEW k, NEW values
    PROVE  GadgetOpenings(k, values)
             = AdviceOpenings(k, values) \o InstanceOpenings(k, values)
               \o ProductOpenings(k, values) \o LastOpenings(k, values)
               \o LookupOpenings(k, values) \o TrashOpenings(k, values)
               \o FixedOpenings(k, values) \o SigmaOpenings(k, values) \o <<LinOpening>>
BY DEF GadgetOpenings, AdviceOpenings, InstanceOpenings, ProductOpenings, LastOpenings,
       LookupOpenings, TrashOpenings, FixedOpenings, SigmaOpenings, LinOpening, OpeningAt

\* The queries for one proof that the verifier makes of its columns.
QueriesOf(k) ==
    AdviceQueries(k) \o InstanceQueries(k) \o (ProductQueries(k) \o LastQueries(k))
        \o LookupQueries(k) \o TrashQueries(k)

\* The queries of the verifier, in these lists.
LEMMA VerifierQueriesAre ==
    ASSUME NEW k \in Keys, k.proofs = 1, QueriesOf(k) \in Seq(Openings)
    PROVE  VerifierQueries(k)
             = QueriesOf(k) \o FixedQueries(k) \o SigmaQueries(k) \o <<Query(<<"lin">>, 0)>>
<1> DEFINE advice(p) == [i \in DOMAIN k.cs.queries["advice"] |->
               Query(Column(p, k.cs.queries["advice"][i][1]), k.cs.queries["advice"][i][2])]
           instance(p) == Each(Len(k.cs.queries["instance"]), LAMBDA i :
               IF k.cs.queries["instance"][i][1] <= k.committed
               THEN <<Query(Instance(p, k.cs.queries["instance"][i][1]),
                            k.cs.queries["instance"][i][2])>> ELSE <<>>)
           permutation(p) ==
               Each(NumPermutationSets(k), LAMBDA i :
                   <<Query(<<"z", p, i>>, 0), Query(<<"z", p, i>>, 1)>>)
               \o SubSeq(Reverse([i \in 1 .. NumPermutationSets(k) |->
                             Query(<<"z", p, i>>, LastRotation(k))]), 2, NumPermutationSets(k))
           lookups(p) == Each(Len(k.cs.lookups), LAMBDA l :
               <<Query(<<"m", p, l>>, 0)>>
               \o [j \in 1 .. k.chunks[l] |-> Query(<<"h", p, l, j>>, 0)]
               \o <<Query(<<"acc", p, l>>, 0), Query(<<"acc", p, l>>, 1)>>)
           trash(p) == [t \in DOMAIN k.cs.trashcans |-> Query(<<"trash", p, t>>, 0)]
           all(p) == advice(p) \o instance(p) \o permutation(p) \o lookups(p) \o trash(p)
<1>1. PICK x : x = [p \in 1 .. 1 |-> all(p)]  OBVIOUS
<1>2. VerifierQueries(k) = FlattenSeq(x) \o FixedQueries(k) \o SigmaQueries(k)
                               \o <<Query(<<"lin">>, 0)>>
  BY <1>1 DEF VerifierQueries, FixedQueries, SigmaQueries, Each
<1>3. all(1) = QueriesOf(k)
  BY DEF QueriesOf, AdviceQueries, InstanceQueries, ProductQueries, LastQueries, LookupQueries,
         TrashQueries
<1> HIDE DEF all
<1>4. x = [p \in 1 .. 1 |-> x[p]] /\ x[1] = QueriesOf(k)  BY <1>1, <1>3
<1>5. FlattenSeq(x) = x[1]  BY <1>4, OfOnlyProof
<1>6. QED  BY <1>2, <1>4, <1>5

\* What the circuit reads in a section of evaluations it reads in its program.
LEMMA EarlyReads ==
    ASSUME NEW k \in Keys, SlotsMatch(k), Suits(k), NEW x,
           \/ x \in ToSet(ReadInstanceEvals(k)) \/ x \in ToSet(ReadAdviceEvals(k))
           \/ x \in ToSet(ReadFixedEvals(k)) \/ x \in ToSet(ReadPermutationEvals(k))
           \/ x \in ToSet(ReadLookupEvals(k)) \/ x \in ToSet(ReadTrashEvals(k))
    PROVE  x \in ToSet(Early(k))
<1>1. PICK g \in BOOLEAN : g = TRUE  OBVIOUS
<1>2. PICK V : V = VerifierProgram(k, g)  OBVIOUS
<1>3. VerifierIs(k, g, 0, V)
  <2>1. 0 \in Nat /\ LastPhase(k) = 0  BY SuitingCalls
  <2>2. QED  BY <1>2, <2>1, VerifierEntries
<1>4. \A i \in 1 .. 14 : \A y \in ToSet(V[i]) : y \in ToSet(Early(k))
  BY <1>2, GadgetProgram DEF GadgetInStep
<1>5. /\ V[9] = ReadInstanceEvals(k) /\ V[10] = ReadAdviceEvals(k) /\ V[11] = ReadFixedEvals(k)
      /\ V[12] = ReadPermutationEvals(k) /\ V[13] = ReadLookupEvals(k)
      /\ V[14] = ReadTrashEvals(k)
  BY <1>3 DEF VerifierIs
<1>6. \E i \in 1 .. 14 : x \in ToSet(V[i])  BY <1>5
<1>7. QED  BY <1>4, <1>6

\* The values of the reads, when each is what its name stands for.
AllExact(k, values) == \A x : Read(x) \in ToSet(Early(k)) => values[x] = Means(k, x)

\* The claims of openings about queries; when exact holds they are true.
ClaimedValues(k, values) ==
    {values[Eval(com, rot)] : com \in Commitments, rot \in Int}
        \cup {FixedEvals(k, values)[i] : i \in Nat} \cup {Eval(<<"lin">>, 0)}
ClaimRecords(k, values) == [com : Commitments, point : Int, eval : ClaimedValues(k, values)]
Claims(k, values, exact) ==
    {pair \in ClaimRecords(k, values) \X Openings :
        /\ pair[1].com = pair[2].com /\ pair[1].point = pair[2].point
        /\ exact => pair[1].eval = Eval(pair[2].com, pair[2].point)}
OpensAs(k, values, exact, a, b) ==
    Matched(Claims(k, values, exact), ClaimRecords(k, values), Openings, a, b)

\* The openings have claims for their evaluations.
LEMMA ClaimMatches ==
    ASSUME NEW k, NEW values, NEW exact, NEW com \in Commitments, NEW rot \in Int,
           NEW e \in ClaimedValues(k, values), exact => e = Eval(com, rot)
    PROVE  <<[com |-> com, point |-> rot, eval |-> e], Query(com, rot)>>
               \in Claims(k, values, exact)
<1>1. PICK o : o = [com |-> com, point |-> rot, eval |-> e]  OBVIOUS
<1>2. PICK q : q = Query(com, rot)  OBVIOUS
<1>3. o \in ClaimRecords(k, values) /\ o.com = com /\ o.point = rot /\ o.eval = e
  BY <1>1 DEF ClaimRecords
<1>4. q \in Openings /\ q.com = com /\ q.point = rot  BY <1>2 DEF Openings, Query
<1>5. <<o, q>> \in Claims(k, values, exact)  BY <1>3, <1>4 DEF Claims
<1>6. QED  BY <1>1, <1>2, <1>5

\* An opening whose evaluation is read matches its query.
LEMMA ReadMatches ==
    ASSUME NEW k, NEW values, NEW exact, exact => AllExact(k, values),
           NEW com \in Commitments, NEW rot \in Int, Read(Eval(com, rot)) \in ToSet(Early(k))
    PROVE  <<OpeningAt(values, com, rot), Query(com, rot)>> \in Claims(k, values, exact)
<1>1. PICK v : v = Eval(com, rot)  OBVIOUS
<1>2. values[v] \in ClaimedValues(k, values)  BY <1>1 DEF ClaimedValues
<1>3. exact => values[v] = v
  <2>1. v[1] = "eval"  BY <1>1 DEF Eval
  <2>2. Means(k, v) = v  BY <2>1 DEF Means
  <2>3. Read(v) \in ToSet(Early(k))  BY <1>1
  <2>4. QED  BY <2>2, <2>3 DEF AllExact
<1>4. <<[com |-> com, point |-> rot, eval |-> values[v]], Query(com, rot)>>
          \in Claims(k, values, exact)
  BY <1>1, <1>2, <1>3, ClaimMatches
<1>5. QED  BY <1>1, <1>4 DEF OpeningAt

\* Claims are pairs of an opening and a query.
LEMMA ClaimsTyped ==
    ASSUME NEW k, NEW values, NEW exact
    PROVE  Claims(k, values, exact) \in SUBSET (ClaimRecords(k, values) \X Openings)
BY DEF Claims

\* The advice columns and the committed instances.
LEMMA ColumnsOpened ==
    ASSUME NEW k \in Keys, SlotsMatch(k), Suits(k), NEW values, NEW exact,
           exact => AllExact(k, values)
    PROVE  /\ OpensAs(k, values, exact, AdviceOpenings(k, values), AdviceQueries(k))
           /\ OpensAs(k, values, exact, InstanceOpenings(k, values), InstanceQueries(k))
<1>0. k.proofs = 1  BY DEF Suits
<1>1. PICK qi : qi = k.cs.queries["instance"]  OBVIOUS
<1>2. PICK qa : qa = k.cs.queries["advice"]  OBVIOUS
<1>3. PICK ti \in Nat : ti = Len(qi)  BY <1>1, KeyQueries, KindsAre
<1>4. PICK ta \in Nat : ta = Len(qa)  BY <1>2, KeyQueries, KindsAre
<1>5. /\ \A i \in 1 .. ti : qi[i][1] \in Nat /\ qi[i][2] \in Int
      /\ \A i \in 1 .. ta : qa[i][1] \in Nat /\ qa[i][2] \in Int
      /\ DOMAIN qa = 1 .. ta
  BY <1>1, <1>2, <1>3, <1>4, KeyQueries, KindsAre
<1>6. PICK X : X = ClaimRecords(k, values)  OBVIOUS
<1>7. PICK R \in SUBSET (X \X Openings) : R = Claims(k, values, exact)  BY <1>6, ClaimsTyped
<1>8. PICK p \in 1 .. k.proofs : p = 1  BY <1>0
<1>9. Matched(R, X, Openings, AdviceOpenings(k, values), AdviceQueries(k))
  <2>1. PICK a : a = [i \in 1 .. ta |-> OpeningAt(values, Column(1, qa[i][1]), qa[i][2])]  OBVIOUS
  <2>2. PICK b : b = [i \in 1 .. ta |-> Query(Column(1, qa[i][1]), qa[i][2])]  OBVIOUS
  <2>3. ASSUME NEW i \in 1 .. ta
        PROVE  <<a[i], b[i]>> \in R
    <3>1. PICK c \in Nat : c = qa[i][1]  BY <1>5
    <3>2. PICK r \in Int : r = qa[i][2]  BY <1>5
    <3>3. 1 \in Nat  OBVIOUS
    <3>4. Column(1, c) \in Commitments  BY <3>3, OfOneProof
    <3>5. i \in DOMAIN k.cs.queries["advice"]  BY <1>2, <1>5
    <3>6. Read(Eval(Column(p, k.cs.queries["advice"][i][1]), k.cs.queries["advice"][i][2]))
              \in ToSet(ReadAdviceEvals(k))
      BY <3>5, AdviceReads
    <3>7. Read(Eval(Column(1, c), r)) \in ToSet(ReadAdviceEvals(k))
      BY <1>2, <1>8, <3>1, <3>2, <3>6
    <3>8. Read(Eval(Column(1, c), r)) \in ToSet(Early(k))  BY <3>7, EarlyReads
    <3>9. <<OpeningAt(values, Column(1, c), r), Query(Column(1, c), r)>> \in R
      BY <1>7, <3>4, <3>8, ReadMatches
    <3>10. QED  BY <2>1, <2>2, <3>1, <3>2, <3>9
  <2>4. a = [i \in 1 .. ta |-> a[i]] /\ b = [i \in 1 .. ta |-> b[i]]  BY <2>1, <2>2
  <2>5. Matched(R, X, Openings, a, b)  BY <2>3, <2>4, MatchedList
  <2>6. a = AdviceOpenings(k, values) /\ b = AdviceQueries(k)
    BY <1>2, <1>5, <2>1, <2>2 DEF AdviceOpenings, AdviceQueries
  <2>7. QED  BY <2>5, <2>6
<1>10. Matched(R, X, Openings, InstanceOpenings(k, values), InstanceQueries(k))
  <2> DEFINE d(i) == IF qi[i][1] <= k.committed
                     THEN <<OpeningAt(values, Instance(1, qi[i][1]), qi[i][2])>> ELSE <<>>
             e(i) == IF qi[i][1] <= k.committed
                     THEN <<Query(Instance(1, qi[i][1]), qi[i][2])>> ELSE <<>>
  <2>1. PICK a : a = [i \in 1 .. ti |-> d(i)]  OBVIOUS
  <2>2. PICK b : b = [i \in 1 .. ti |-> e(i)]  OBVIOUS
  <2>3. ASSUME NEW i \in 1 .. ti
        PROVE  Matched(R, X, Openings, d(i), e(i))
    <3>1. CASE qi[i][1] <= k.committed
      <4>1. PICK c \in Nat : c = qi[i][1]  BY <1>5
      <4>2. PICK r \in Int : r = qi[i][2]  BY <1>5
      <4>3. 1 \in Nat  OBVIOUS
      <4>4. Instance(1, c) \in Commitments  BY <4>3, OfOneProof
      <4>5. i \in 1 .. Len(k.cs.queries["instance"])
            /\ k.cs.queries["instance"][i][1] <= k.committed
        BY <1>1, <1>3, <3>1
      <4>6. Read(Eval(Instance(p, k.cs.queries["instance"][i][1]), k.cs.queries["instance"][i][2]))
                \in ToSet(ReadInstanceEvals(k))
        BY <4>5, InstanceReads
      <4>7. Read(Eval(Instance(1, c), r)) \in ToSet(ReadInstanceEvals(k))
        BY <1>1, <1>8, <4>1, <4>2, <4>6
      <4>8. Read(Eval(Instance(1, c), r)) \in ToSet(Early(k))  BY <4>7, EarlyReads
      <4>9. <<OpeningAt(values, Instance(1, c), r), Query(Instance(1, c), r)>> \in R
        BY <1>7, <4>4, <4>8, ReadMatches
      <4>10. Matched(R, X, Openings, <<OpeningAt(values, Instance(1, c), r)>>,
                                     <<Query(Instance(1, c), r)>>)
        BY <4>9, MatchedOne
      <4>11. QED  BY <3>1, <4>1, <4>2, <4>10
    <3>2. CASE ~(qi[i][1] <= k.committed)
      BY <3>2, MatchedNone
    <3>3. QED  BY <3>1, <3>2
  <2> HIDE DEF d, e
  <2>4. a = [i \in 1 .. ti |-> a[i]] /\ b = [i \in 1 .. ti |-> b[i]]  BY <2>1, <2>2
  <2>5. \A i \in 1 .. ti : Matched(R, X, Openings, a[i], b[i])  BY <2>1, <2>2, <2>3
  <2>6. Matched(R, X, Openings, FlattenSeq(a), FlattenSeq(b))  BY <2>4, <2>5, MatchedFlatten
  <2>7. FlattenSeq(a) = InstanceOpenings(k, values) /\ FlattenSeq(b) = InstanceQueries(k)
    BY <1>1, <1>3, <2>1, <2>2 DEF InstanceOpenings, InstanceQueries, Each, d, e
  <2>8. QED  BY <2>6, <2>7
<1>11. QED  BY <1>6, <1>7, <1>9, <1>10 DEF OpensAs

\* A list reversed, without its last element.
LastsOf(s, t) == IF t = 0 THEN <<>> ELSE [i \in 1 .. t - 1 |-> s[t - i]]

\* The part after the first element of a reversed list.
LEMMA LastsAre ==
    ASSUME NEW t \in Nat, NEW s, s = [i \in 1 .. t |-> s[i]]
    PROVE  SubSeq(Reverse(s), 2, t) = LastsOf(s, t)
<1>1. PICK A : A = {s[i] : i \in 1 .. t}  OBVIOUS
<1>2. s \in Seq(A) /\ Len(s) = t
  <2>1. \A i \in 1 .. t : s[i] \in A  BY <1>1
  <2>2. QED  BY <2>1
<1>3. PICK b \in Seq(A) : b = Reverse(s)
  <2>1. PICK u \in Seq(A) : u = s  BY <1>2
  <2>2. Reverse(u) \in Seq(A)  BY DEF Reverse
  <2>3. QED  BY <2>1, <2>2
<1>4. Len(b) = t /\ \A i \in 1 .. t : b[i] = s[(t - i) + 1]  BY <1>2, <1>3 DEF Reverse
<1>5. CASE t = 0
  <2>1. SubSeq(b, 2, t) = <<>>  BY <1>4, <1>5
  <2>2. LastsOf(s, t) = <<>>  BY <1>5 DEF LastsOf
  <2>3. QED  BY <1>3, <2>1, <2>2
<1>6. CASE t # 0
  <2>1. PICK m \in Nat : m = t - 1
    <3>1. t - 1 \in Nat  BY <1>6
    <3>2. QED  BY <3>1
  <2>2. PICK d \in Seq(A) : d = SubSeq(b, 2, t)
    <3>1. SubSeq(b, 2, t) \in Seq(A)  BY <1>4
    <3>2. QED  BY <3>1
  <2>3. Len(d) = m /\ \A i \in 1 .. m : d[i] = b[i + 1]  BY <1>4, <1>6, <2>1, <2>2
  <2>4. ASSUME NEW i \in 1 .. m
        PROVE  d[i] = s[t - i]
    <3>1. i + 1 \in 1 .. t /\ (t - (i + 1)) + 1 = t - i  BY <2>1
    <3>2. b[i + 1] = s[(t - (i + 1)) + 1]  BY <1>4, <3>1
    <3>3. QED  BY <2>3, <3>1, <3>2
  <2>5. d = [i \in 1 .. m |-> d[i]]  BY <2>3
  <2>6. [i \in 1 .. m |-> d[i]] = [i \in 1 .. m |-> s[t - i]]  BY <2>4
  <2>7. LastsOf(s, t) = [i \in 1 .. m |-> s[t - i]]  BY <1>6, <2>1 DEF LastsOf
  <2>8. QED  BY <1>3, <2>2, <2>5, <2>6, <2>7
<1>7. QED  BY <1>5, <1>6

\* The permutation products.
LEMMA ProductsOpened ==
    ASSUME NEW k \in Keys, SlotsMatch(k), Suits(k), NEW values, NEW exact,
           exact => AllExact(k, values)
    PROVE  /\ OpensAs(k, values, exact, ProductOpenings(k, values), ProductQueries(k))
           /\ OpensAs(k, values, exact, LastOpenings(k, values), LastQueries(k))
<1>0. k.proofs = 1  BY DEF Suits
<1>1. PICK t \in Nat : t = NumPermutationSets(k)  BY KeySizes
<1>2. PICK r \in Int : r = LastRotation(k)  BY KeySizes
<1>3. PICK X : X = ClaimRecords(k, values)  OBVIOUS
<1>4. PICK R \in SUBSET (X \X Openings) : R = Claims(k, values, exact)  BY <1>3, ClaimsTyped
<1>5. PICK p \in 1 .. k.proofs : p = 1  BY <1>0
<1>6. ASSUME NEW i \in 1 .. t
      PROVE  /\ Read(Eval(<<"z", 1, i>>, 0)) \in ToSet(Early(k))
             /\ Read(Eval(<<"z", 1, i>>, 1)) \in ToSet(Early(k))
             /\ i < t => Read(Eval(<<"z", 1, i>>, r)) \in ToSet(Early(k))
             /\ <<"z", 1, i>> \in Commitments
  <2>1. /\ Read(Eval(<<"z", p, i>>, 0)) \in ToSet(ReadPermutationEvals(k))
        /\ Read(Eval(<<"z", p, i>>, 1)) \in ToSet(ReadPermutationEvals(k))
        /\ i < t => Read(Eval(<<"z", p, i>>, r)) \in ToSet(ReadPermutationEvals(k))
    BY <1>1, <1>2, PermutationReads
  <2>2. i \in Nat /\ 1 \in Nat  OBVIOUS
  <2>3. <<"z", 1, i>> \in Commitments  BY <2>2, OfOneProof
  <2>4. QED  BY <1>5, <2>1, <2>3, EarlyReads
<1>7. Matched(R, X, Openings, ProductOpenings(k, values), ProductQueries(k))
  <2> DEFINE d(i) == <<OpeningAt(values, <<"z", 1, i>>, 0), OpeningAt(values, <<"z", 1, i>>, 1)>>
             e(i) == <<Query(<<"z", 1, i>>, 0), Query(<<"z", 1, i>>, 1)>>
  <2>1. PICK a : a = [i \in 1 .. t |-> d(i)]  OBVIOUS
  <2>2. PICK b : b = [i \in 1 .. t |-> e(i)]  OBVIOUS
  <2>3. ASSUME NEW i \in 1 .. t
        PROVE  Matched(R, X, Openings, d(i), e(i))
    <3>1. PICK c \in Commitments : c = <<"z", 1, i>>  BY <1>6
    <3>2. Read(Eval(c, 0)) \in ToSet(Early(k)) /\ Read(Eval(c, 1)) \in ToSet(Early(k))
      BY <1>6, <3>1
    <3>3. 0 \in Int /\ 1 \in Int  OBVIOUS
    <3>4. <<OpeningAt(values, c, 0), Query(c, 0)>> \in R  BY <1>4, <3>2, <3>3, ReadMatches
    <3>5. <<OpeningAt(values, c, 1), Query(c, 1)>> \in R  BY <1>4, <3>2, <3>3, ReadMatches
    <3>6. Matched(R, X, Openings, <<OpeningAt(values, c, 0), OpeningAt(values, c, 1)>>,
                                  <<Query(c, 0), Query(c, 1)>>)
      BY <3>4, <3>5, MatchedTwo
    <3>7. QED  BY <3>1, <3>6
  <2> HIDE DEF d, e
  <2>4. a = [i \in 1 .. t |-> a[i]] /\ b = [i \in 1 .. t |-> b[i]]  BY <2>1, <2>2
  <2>5. \A i \in 1 .. t : Matched(R, X, Openings, a[i], b[i])  BY <2>1, <2>2, <2>3
  <2>6. Matched(R, X, Openings, FlattenSeq(a), FlattenSeq(b))  BY <2>4, <2>5, MatchedFlatten
  <2>7. FlattenSeq(a) = ProductOpenings(k, values) /\ FlattenSeq(b) = ProductQueries(k)
    BY <1>1, <2>1, <2>2 DEF ProductOpenings, ProductQueries, Each, d, e
  <2>8. QED  BY <2>6, <2>7
<1>8. Matched(R, X, Openings, LastOpenings(k, values), LastQueries(k))
  <2>1. PICK s : s = [i \in 1 .. t |-> Query(<<"z", 1, i>>, r)]  OBVIOUS
  <2>2. s = [i \in 1 .. t |-> s[i]]  BY <2>1
  <2>3. LastQueries(k) = LastsOf(s, t)  BY <1>1, <1>2, <2>1, <2>2, LastsAre DEF LastQueries
  <2>4. CASE t = 0
    <3>1. LastOpenings(k, values) = <<>>  BY <1>1, <2>4 DEF LastOpenings
    <3>2. LastsOf(s, t) = <<>>  BY <2>4 DEF LastsOf
    <3>3. QED  BY <2>3, <3>1, <3>2, MatchedNone
  <2>5. CASE t # 0
    <3>1. PICK m \in Nat : m = t - 1
      <4>1. t - 1 \in Nat  BY <2>5
      <4>2. QED  BY <4>1
    <3>2. PICK a : a = [i \in 1 .. m |-> OpeningAt(values, <<"z", 1, t - i>>, r)]  OBVIOUS
    <3>3. PICK b : b = [i \in 1 .. m |-> s[t - i]]  OBVIOUS
    <3>4. ASSUME NEW i \in 1 .. m
          PROVE  <<a[i], b[i]>> \in R
      <4>1. PICK j \in 1 .. t : j = t - i /\ j < t
        <5>1. t - i \in 1 .. t /\ t - i < t  BY <3>1
        <5>2. QED  BY <5>1
      <4>2. PICK c \in Commitments : c = <<"z", 1, j>>  BY <1>6
      <4>3. Read(Eval(c, r)) \in ToSet(Early(k))  BY <1>6, <4>1, <4>2
      <4>4. <<OpeningAt(values, c, r), Query(c, r)>> \in R  BY <1>4, <4>3, ReadMatches
      <4>5. s[j] = Query(c, r)  BY <2>1, <4>2
      <4>6. a[i] = OpeningAt(values, c, r)  BY <3>2, <4>1, <4>2
      <4>7. b[i] = s[j]  BY <3>3, <4>1
      <4>8. QED  BY <4>4, <4>5, <4>6, <4>7
    <3>5. a = [i \in 1 .. m |-> a[i]] /\ b = [i \in 1 .. m |-> b[i]]  BY <3>2, <3>3
    <3>6. Matched(R, X, Openings, a, b)  BY <3>4, <3>5, MatchedList
    <3>7. LastOpenings(k, values) = a  BY <1>1, <1>2, <2>5, <3>1, <3>2 DEF LastOpenings
    <3>8. LastsOf(s, t) = b  BY <2>5, <3>1, <3>3 DEF LastsOf
    <3>9. QED  BY <2>3, <3>6, <3>7, <3>8
  <2>6. QED  BY <2>4, <2>5
<1>9. QED  BY <1>3, <1>4, <1>7, <1>8 DEF OpensAs

\* The lookup arguments.
LEMMA LookupsOpened ==
    ASSUME NEW k \in Keys, SlotsMatch(k), Suits(k), NEW values, NEW exact,
           exact => AllExact(k, values)
    PROVE  OpensAs(k, values, exact, LookupOpenings(k, values), LookupQueries(k))
<1>0. k.proofs = 1  BY DEF Suits
<1>1. PICK t \in Nat : t = Len(k.cs.lookups)  BY KeyLists
<1>2. \A l \in 1 .. t : k.chunks[l] \in Nat  BY <1>1, KeyLists
<1>3. PICK X : X = ClaimRecords(k, values)  OBVIOUS
<1>4. PICK R \in SUBSET (X \X Openings) : R = Claims(k, values, exact)  BY <1>3, ClaimsTyped
<1>5. PICK p \in 1 .. k.proofs : p = 1  BY <1>0
<1> DEFINE first(l) == <<OpeningAt(values, <<"m", 1, l>>, 0)>>
           chunks(l) == [j \in 1 .. k.chunks[l] |-> OpeningAt(values, <<"h", 1, l, j>>, 0)]
           sums(l) == <<OpeningAt(values, <<"acc", 1, l>>, 0), OpeningAt(values, <<"acc", 1, l>>, 1)>>
           firstQuery(l) == <<Query(<<"m", 1, l>>, 0)>>
           chunkQueries(l) == [j \in 1 .. k.chunks[l] |-> Query(<<"h", 1, l, j>>, 0)]
           sumQueries(l) == <<Query(<<"acc", 1, l>>, 0), Query(<<"acc", 1, l>>, 1)>>
           d(l) == (first(l) \o chunks(l)) \o sums(l)
           e(l) == (firstQuery(l) \o chunkQueries(l)) \o sumQueries(l)
<1>6. ASSUME NEW l \in 1 .. t
      PROVE  /\ Read(Eval(<<"m", 1, l>>, 0)) \in ToSet(Early(k))
             /\ \A j \in 1 .. k.chunks[l] : Read(Eval(<<"h", 1, l, j>>, 0)) \in ToSet(Early(k))
             /\ Read(Eval(<<"acc", 1, l>>, 0)) \in ToSet(Early(k))
             /\ Read(Eval(<<"acc", 1, l>>, 1)) \in ToSet(Early(k))
  <2>1. /\ Read(Eval(<<"m", p, l>>, 0)) \in ToSet(ReadLookupEvals(k))
        /\ \A j \in 1 .. k.chunks[l] : Read(Eval(<<"h", p, l, j>>, 0)) \in ToSet(ReadLookupEvals(k))
        /\ Read(Eval(<<"acc", p, l>>, 0)) \in ToSet(ReadLookupEvals(k))
        /\ Read(Eval(<<"acc", p, l>>, 1)) \in ToSet(ReadLookupEvals(k))
    BY <1>1, LookupReads
  <2>2. QED  BY <1>5, <2>1, EarlyReads
<1>7. 0 \in Int /\ 1 \in Int /\ 1 \in Nat  OBVIOUS
<1>8. ASSUME NEW l \in 1 .. t
      PROVE  Matched(R, X, Openings, first(l), firstQuery(l))
  <2>1. PICK c \in Commitments : c = <<"m", 1, l>>
    <3>1. l \in Nat  OBVIOUS
    <3>2. <<"m", 1, l>> \in Commitments  BY <1>7, <3>1, OfOneProof
    <3>3. QED  BY <3>2
  <2>2. Read(Eval(c, 0)) \in ToSet(Early(k))  BY <1>6, <2>1
  <2>3. <<OpeningAt(values, c, 0), Query(c, 0)>> \in R  BY <1>4, <1>7, <2>2, ReadMatches
  <2>4. Matched(R, X, Openings, <<OpeningAt(values, c, 0)>>, <<Query(c, 0)>>)
    BY <2>3, MatchedOne
  <2>5. QED  BY <2>1, <2>4
<1>9. ASSUME NEW l \in 1 .. t
      PROVE  Matched(R, X, Openings, sums(l), sumQueries(l))
  <2>1. PICK c \in Commitments : c = <<"acc", 1, l>>
    <3>1. l \in Nat  OBVIOUS
    <3>2. <<"acc", 1, l>> \in Commitments  BY <1>7, <3>1, OfOneProof
    <3>3. QED  BY <3>2
  <2>2. Read(Eval(c, 0)) \in ToSet(Early(k)) /\ Read(Eval(c, 1)) \in ToSet(Early(k))
    BY <1>6, <2>1
  <2>3. <<OpeningAt(values, c, 0), Query(c, 0)>> \in R  BY <1>4, <1>7, <2>2, ReadMatches
  <2>4. <<OpeningAt(values, c, 1), Query(c, 1)>> \in R  BY <1>4, <1>7, <2>2, ReadMatches
  <2>5. Matched(R, X, Openings, <<OpeningAt(values, c, 0), OpeningAt(values, c, 1)>>,
                                <<Query(c, 0), Query(c, 1)>>)
    BY <2>3, <2>4, MatchedTwo
  <2>6. QED  BY <2>1, <2>5
<1>10. ASSUME NEW l \in 1 .. t
       PROVE  Matched(R, X, Openings, chunks(l), chunkQueries(l))
  <2>1. PICK n \in Nat : n = k.chunks[l]  BY <1>2
  <2>2. PICK a : a = [j \in 1 .. n |-> OpeningAt(values, <<"h", 1, l, j>>, 0)]  OBVIOUS
  <2>3. PICK b : b = [j \in 1 .. n |-> Query(<<"h", 1, l, j>>, 0)]  OBVIOUS
  <2>4. ASSUME NEW j \in 1 .. n
        PROVE  <<a[j], b[j]>> \in R
    <3>1. PICK c \in Commitments : c = <<"h", 1, l, j>>
      <4>1. l \in Nat /\ j \in Nat  OBVIOUS
      <4>2. <<"h", 1, l, j>> \in Commitments  BY <1>7, <4>1, OfOneProof
      <4>3. QED  BY <4>2
    <3>2. Read(Eval(c, 0)) \in ToSet(Early(k))  BY <1>6, <2>1, <3>1
    <3>3. <<OpeningAt(values, c, 0), Query(c, 0)>> \in R  BY <1>4, <1>7, <3>2, ReadMatches
    <3>4. QED  BY <2>2, <2>3, <3>1, <3>3
  <2>5. a = [j \in 1 .. n |-> a[j]] /\ b = [j \in 1 .. n |-> b[j]]  BY <2>2, <2>3
  <2>6. Matched(R, X, Openings, a, b)  BY <2>4, <2>5, MatchedList
  <2>7. QED  BY <2>1, <2>2, <2>3, <2>6
<1>11. PICK a : a = [l \in 1 .. t |-> d(l)]  OBVIOUS
<1>12. PICK b : b = [l \in 1 .. t |-> e(l)]  OBVIOUS
<1>13. LookupOpenings(k, values) = FlattenSeq(a) /\ LookupQueries(k) = FlattenSeq(b)
  BY <1>1, <1>11, <1>12 DEF LookupOpenings, LookupQueries, Each
<1> HIDE DEF first, chunks, sums, firstQuery, chunkQueries, sumQueries
<1>14. ASSUME NEW l \in 1 .. t
       PROVE  Matched(R, X, Openings, d(l), e(l))
  <2>1. Matched(R, X, Openings, first(l) \o chunks(l), firstQuery(l) \o chunkQueries(l))
    BY <1>8, <1>10, MatchedJoined
  <2>2. QED  BY <1>9, <2>1, MatchedJoined
<1> HIDE DEF d, e
<1>15. a = [l \in 1 .. t |-> a[l]] /\ b = [l \in 1 .. t |-> b[l]]  BY <1>11, <1>12
<1>16. \A l \in 1 .. t : Matched(R, X, Openings, a[l], b[l])  BY <1>11, <1>12, <1>14
<1>17. Matched(R, X, Openings, FlattenSeq(a), FlattenSeq(b))  BY <1>15, <1>16, MatchedFlatten
<1>18. QED  BY <1>3, <1>4, <1>13, <1>17 DEF OpensAs

\* The trash, the fixed columns, the permutation and the linearization.
LEMMA KeyOpened ==
    ASSUME NEW k \in Keys, SlotsMatch(k), Suits(k), NEW values, NEW exact,
           exact => AllExact(k, values)
    PROVE  /\ OpensAs(k, values, exact, TrashOpenings(k, values), TrashQueries(k))
           /\ OpensAs(k, values, exact, FixedOpenings(k, values), FixedQueries(k))
           /\ OpensAs(k, values, exact, SigmaOpenings(k, values), SigmaQueries(k))
           /\ OpensAs(k, values, exact, <<LinOpening>>, <<Query(<<"lin">>, 0)>>)
<1>0. k.proofs = 1  BY DEF Suits
<1>1. PICK tr \in Nat : DOMAIN k.cs.trashcans = 1 .. tr  BY KeyLists
<1>2. PICK sg \in Nat : DOMAIN k.cs.permutation = 1 .. sg  BY KeyLists
<1>3. PICK X : X = ClaimRecords(k, values)  OBVIOUS
<1>4. PICK R \in SUBSET (X \X Openings) : R = Claims(k, values, exact)  BY <1>3, ClaimsTyped
<1>5. PICK p \in 1 .. k.proofs : p = 1  BY <1>0
<1>6. 0 \in Int /\ 1 \in Nat  OBVIOUS
<1>7. Matched(R, X, Openings, TrashOpenings(k, values), TrashQueries(k))
  <2>1. PICK a : a = [i \in 1 .. tr |-> OpeningAt(values, <<"trash", 1, i>>, 0)]  OBVIOUS
  <2>2. PICK b : b = [i \in 1 .. tr |-> Query(<<"trash", 1, i>>, 0)]  OBVIOUS
  <2>3. ASSUME NEW i \in 1 .. tr
        PROVE  <<a[i], b[i]>> \in R
    <3>1. PICK c \in Commitments : c = <<"trash", 1, i>>
      <4>1. i \in Nat  OBVIOUS
      <4>2. <<"trash", 1, i>> \in Commitments  BY <1>6, <4>1, OfOneProof
      <4>3. QED  BY <4>2
    <3>2. Read(Eval(<<"trash", p, i>>, 0)) \in ToSet(ReadTrashEvals(k))  BY <1>1, TrashReads
    <3>3. Read(Eval(c, 0)) \in ToSet(Early(k))  BY <1>5, <3>1, <3>2, EarlyReads
    <3>4. <<OpeningAt(values, c, 0), Query(c, 0)>> \in R  BY <1>4, <1>6, <3>3, ReadMatches
    <3>5. QED  BY <2>1, <2>2, <3>1, <3>4
  <2>4. a = [i \in 1 .. tr |-> a[i]] /\ b = [i \in 1 .. tr |-> b[i]]  BY <2>1, <2>2
  <2>5. Matched(R, X, Openings, a, b)  BY <2>3, <2>4, MatchedList
  <2>6. QED  BY <1>1, <2>1, <2>2, <2>5 DEF TrashOpenings, TrashQueries
<1>8. Matched(R, X, Openings, SigmaOpenings(k, values), SigmaQueries(k))
  <2>1. PICK a : a = [i \in 1 .. sg |-> OpeningAt(values, <<"sigma", i>>, 0)]  OBVIOUS
  <2>2. PICK b : b = [i \in 1 .. sg |-> Query(<<"sigma", i>>, 0)]  OBVIOUS
  <2>3. ASSUME NEW i \in 1 .. sg
        PROVE  <<a[i], b[i]>> \in R
    <3>1. PICK c \in Commitments : c = <<"sigma", i>>
      <4>1. i \in Nat  OBVIOUS
      <4>2. <<"sigma", i>> \in Commitments  BY <4>1, OfTheKey
      <4>3. QED  BY <4>2
    <3>2. Read(Eval(<<"sigma", i>>, 0)) \in ToSet(ReadPermutationEvals(k))
      BY <1>2, PermutationReads
    <3>3. Read(Eval(c, 0)) \in ToSet(Early(k))  BY <3>1, <3>2, EarlyReads
    <3>4. <<OpeningAt(values, c, 0), Query(c, 0)>> \in R  BY <1>4, <1>6, <3>3, ReadMatches
    <3>5. QED  BY <2>1, <2>2, <3>1, <3>4
  <2>4. a = [i \in 1 .. sg |-> a[i]] /\ b = [i \in 1 .. sg |-> b[i]]  BY <2>1, <2>2
  <2>5. Matched(R, X, Openings, a, b)  BY <2>3, <2>4, MatchedList
  <2>6. QED  BY <1>2, <2>1, <2>2, <2>5 DEF SigmaOpenings, SigmaQueries
<1>9. Matched(R, X, Openings, <<LinOpening>>, <<Query(<<"lin">>, 0)>>)
  <2>1. PICK c \in Commitments : c = <<"lin">>  BY OfTheKey
  <2>2. PICK v : v = Eval(c, 0)  OBVIOUS
  <2>3. v \in ClaimedValues(k, values)  BY <2>1, <2>2 DEF ClaimedValues
  <2>4. <<[com |-> c, point |-> 0, eval |-> v], Query(c, 0)>> \in R
    BY <1>4, <1>6, <2>2, <2>3, ClaimMatches
  <2>5. LinOpening = [com |-> c, point |-> 0, eval |-> v]  BY <2>1, <2>2 DEF LinOpening
  <2>6. QED  BY <2>1, <2>4, <2>5, MatchedOne
<1>10. Matched(R, X, Openings, FixedOpenings(k, values), FixedQueries(k))
  <2>1. PICK qf : qf = k.cs.queries["fixed"]  OBVIOUS
  <2>2. PICK tf \in Nat : tf = Len(qf)  BY <2>1, KeyQueries, KindsAre
  <2>3. DOMAIN qf = 1 .. tf /\ \A i \in 1 .. tf : qf[i][1] \in Nat /\ qf[i][2] \in Int
    BY <2>1, <2>2, KeyQueries, KindsAre
  <2>4. exact => \A i \in 1 .. FixedSlots(k) : values[<<"slot", i>>] = Means(k, <<"slot", i>>)
    <3>1. ASSUME exact, NEW i \in 1 .. FixedSlots(k)
          PROVE  values[<<"slot", i>>] = Means(k, <<"slot", i>>)
      <4>1. PICK x : x = <<"slot", i>>  OBVIOUS
      <4>2. Read(x) \in ToSet(ReadFixedEvals(k))  BY <4>1 DEF ReadFixedEvals, ToSet
      <4>3. Read(x) \in ToSet(Early(k))  BY <4>2, EarlyReads
      <4>4. AllExact(k, values)  BY <3>1
      <4>5. values[x] = Means(k, x)  BY <4>3, <4>4 DEF AllExact
      <4>6. QED  BY <4>1, <4>5
    <3>2. QED  BY <3>1
  <2>5. PICK evals : evals = FixedEvals(k, values)  OBVIOUS
  <2> DEFINE d(i) == IF HasSimpleSelectorCol(k.cs, qf[i][1]) THEN <<>>
                     ELSE <<[com |-> <<"fixed", qf[i][1]>>, point |-> qf[i][2],
                             eval |-> evals[i]]>>
             e(i) == IF HasSimpleSelectorCol(k.cs, qf[i][1]) THEN <<>>
                     ELSE <<Query(<<"fixed", qf[i][1]>>, qf[i][2])>>
  <2>6. PICK a : a = [i \in 1 .. tf |-> d(i)]  OBVIOUS
  <2>7. PICK b : b = [i \in 1 .. tf |-> e(i)]  OBVIOUS
  <2>8. ASSUME NEW i \in 1 .. tf
        PROVE  Matched(R, X, Openings, d(i), e(i))
    <3>1. CASE HasSimpleSelectorCol(k.cs, qf[i][1])
      BY <3>1, MatchedNone
    <3>2. CASE ~HasSimpleSelectorCol(k.cs, qf[i][1])
      <4>1. PICK c \in Commitments : c = <<"fixed", qf[i][1]>>  BY <2>3, OfTheKey
      <4>2. PICK r \in Int : r = qf[i][2]  BY <2>3
      <4>3. PICK v : v = evals[i]  OBVIOUS
      <4>4. i \in Nat  OBVIOUS
      <4>5. v \in ClaimedValues(k, values)  BY <2>5, <4>3, <4>4 DEF ClaimedValues
      <4>6. exact => v = Eval(c, r)
        <5>1. ASSUME exact
              PROVE  v = Eval(c, r)
          <6>1. i \in DOMAIN k.cs.queries["fixed"]
                /\ ~HasSimpleSelectorCol(k.cs, k.cs.queries["fixed"][i][1])
            BY <2>1, <2>3, <3>2
          <6>2. \A j \in 1 .. FixedSlots(k) : values[<<"slot", j>>] = Means(k, <<"slot", j>>)
            BY <2>4, <5>1
          <6>3. FixedEvals(k, values)[i] = Eval(<<"fixed", k.cs.queries["fixed"][i][1]>>,
                                                k.cs.queries["fixed"][i][2])
            BY <6>1, <6>2, FixedEvalsExact
          <6>4. QED  BY <2>1, <2>5, <4>1, <4>2, <4>3, <6>3
        <5>2. QED  BY <5>1
      <4>7. <<[com |-> c, point |-> r, eval |-> v], Query(c, r)>> \in R
        BY <1>4, <4>5, <4>6, ClaimMatches
      <4>8. Matched(R, X, Openings, <<[com |-> c, point |-> r, eval |-> v]>>, <<Query(c, r)>>)
        BY <4>7, MatchedOne
      <4>9. QED  BY <3>2, <4>1, <4>2, <4>3, <4>8
    <3>3. QED  BY <3>1, <3>2
  <2> HIDE DEF d, e
  <2>9. a = [i \in 1 .. tf |-> a[i]] /\ b = [i \in 1 .. tf |-> b[i]]  BY <2>6, <2>7
  <2>10. \A i \in 1 .. tf : Matched(R, X, Openings, a[i], b[i])  BY <2>6, <2>7, <2>8
  <2>11. Matched(R, X, Openings, FlattenSeq(a), FlattenSeq(b))  BY <2>9, <2>10, MatchedFlatten
  <2>12. FlattenSeq(a) = FixedOpenings(k, values) /\ FlattenSeq(b) = FixedQueries(k)
    BY <2>1, <2>2, <2>5, <2>6, <2>7 DEF FixedOpenings, FixedQueries, Each, d, e
  <2>13. QED  BY <2>11, <2>12
<1>11. QED  BY <1>3, <1>4, <1>7, <1>8, <1>9, <1>10 DEF OpensAs

\* The circuit opens what the verifier opens, in the same order.
LEMMA OpensWhatVerifierOpens ==
    ASSUME NEW k \in Keys, SlotsMatch(k), Suits(k), NEW values, NEW exact,
           exact => AllExact(k, values)
    PROVE  OpensAs(k, values, exact, GadgetOpenings(k, values), VerifierQueries(k))
<1>1. PICK X : X = ClaimRecords(k, values)  OBVIOUS
<1>2. PICK R : R = Claims(k, values, exact)  OBVIOUS
<1> DEFINE ad == AdviceOpenings(k, values)
           ins == InstanceOpenings(k, values)
           pr == ProductOpenings(k, values)
           la == LastOpenings(k, values)
           lk == LookupOpenings(k, values)
           tr == TrashOpenings(k, values)
           fi == FixedOpenings(k, values)
           si == SigmaOpenings(k, values)
           M(a, b) == Matched(R, X, Openings, a, b)
<1>3. /\ M(ad, AdviceQueries(k)) /\ M(ins, InstanceQueries(k))
      /\ M(pr, ProductQueries(k)) /\ M(la, LastQueries(k))
      /\ M(lk, LookupQueries(k)) /\ M(tr, TrashQueries(k))
      /\ M(fi, FixedQueries(k)) /\ M(si, SigmaQueries(k))
      /\ M(<<LinOpening>>, <<Query(<<"lin">>, 0)>>)
  BY <1>1, <1>2, ColumnsOpened, ProductsOpened, LookupsOpened, KeyOpened DEF OpensAs
<1> HIDE DEF ad, ins, pr, la, lk, tr, fi, si
<1>4. \A a, b, c, d : M(a, b) /\ M(c, d) => M(a \o c, b \o d)  BY MatchedJoined
<1> HIDE DEF M
<1>5. M(ad \o ins, AdviceQueries(k) \o InstanceQueries(k))  BY <1>3, <1>4
<1>6. M(pr \o la, ProductQueries(k) \o LastQueries(k))  BY <1>3, <1>4
<1>7. M((ad \o ins) \o (pr \o la),
        (AdviceQueries(k) \o InstanceQueries(k)) \o (ProductQueries(k) \o LastQueries(k)))
  BY <1>4, <1>5, <1>6
<1>8. M(((ad \o ins) \o (pr \o la)) \o lk,
        ((AdviceQueries(k) \o InstanceQueries(k)) \o (ProductQueries(k) \o LastQueries(k)))
            \o LookupQueries(k))
  BY <1>3, <1>4, <1>7
<1>9. M((((ad \o ins) \o (pr \o la)) \o lk) \o tr, QueriesOf(k))
  BY <1>3, <1>4, <1>8 DEF QueriesOf
<1>10. M(((((ad \o ins) \o (pr \o la)) \o lk) \o tr) \o fi, QueriesOf(k) \o FixedQueries(k))
  BY <1>3, <1>4, <1>9
<1>11. M((((((ad \o ins) \o (pr \o la)) \o lk) \o tr) \o fi) \o si,
         (QueriesOf(k) \o FixedQueries(k)) \o SigmaQueries(k))
  BY <1>3, <1>4, <1>10
<1>12. M(((((((ad \o ins) \o (pr \o la)) \o lk) \o tr) \o fi) \o si) \o <<LinOpening>>,
         ((QueriesOf(k) \o FixedQueries(k)) \o SigmaQueries(k)) \o <<Query(<<"lin">>, 0)>>)
  BY <1>3, <1>4, <1>11
<1>13. (ad \o ins) \o (pr \o la) = ((ad \o ins) \o pr) \o la
  <2>1. ad \o ins \in Seq(X) /\ pr \in Seq(X) /\ la \in Seq(X)
    BY <1>3, <1>5 DEF M, Matched
  <2>2. Joins(ad \o ins, pr, la)  BY <2>1, JoinTwice
  <2>3. QED  BY <2>2 DEF Joins
<1>14. GadgetOpenings(k, values)
          = ((((((ad \o ins) \o (pr \o la)) \o lk) \o tr) \o fi) \o si) \o <<LinOpening>>
  BY <1>13, GadgetOpeningsAre DEF ad, ins, pr, la, lk, tr, fi, si
<1>15. k.proofs = 1 /\ QueriesOf(k) \in Seq(Openings)
  BY <1>9 DEF M, Matched, Suits
<1>16. VerifierQueries(k)
          = ((QueriesOf(k) \o FixedQueries(k)) \o SigmaQueries(k)) \o <<Query(<<"lin">>, 0)>>
  BY <1>15, VerifierQueriesAre
<1>17. M(GadgetOpenings(k, values), VerifierQueries(k))  BY <1>12, <1>14, <1>16
<1>18. QED  BY <1>1, <1>2, <1>17 DEF M, OpensAs

\* Whatever the circuit reads it goes through the verifier's program; when it reads
\* what was written, its claims are true.
LEMMA GadgetChecks ==
    ASSUME NEW k \in Keys, SlotsMatch(k), Suits(k), NEW g \in BOOLEAN, NEW values, NEW exact,
           exact => AllExact(k, values), NEW o, o = GadgetOpenings(k, values)
    PROVE  /\ Early(k) \o GadgetMultiPrepare(o, g) = Checked(k, g)
           /\ exact => \A i \in DOMAIN o : o[i].eval = Eval(o[i].com, o[i].point)
<1>1. PICK X : X = ClaimRecords(k, values)  OBVIOUS
<1>2. PICK R : R = Claims(k, values, exact)  OBVIOUS
<1>3. PICK q : q = VerifierQueries(k)  OBVIOUS
<1>4. Matched(R, X, Openings, o, q)
  BY <1>1, <1>2, <1>3, OpensWhatVerifierOpens DEF OpensAs
<1>5. o \in Seq(X) /\ q \in Seq(Openings) /\ Len(o) = Len(q)  BY <1>4 DEF Matched
<1>6. PICK n \in Nat : n = Len(o) /\ DOMAIN o = 1 .. n  BY <1>5
<1>7. Len(q) = n /\ q = [i \in 1 .. n |-> q[i]] /\ \A i \in 1 .. n : q[i] \in Openings
  BY <1>5, <1>6
<1>8. ASSUME NEW i \in 1 .. n
      PROVE  /\ Query(o[i].com, o[i].point) = q[i]
             /\ exact => o[i].eval = Eval(o[i].com, o[i].point)
  <2>1. <<o[i], q[i]>> \in R  BY <1>4, <1>6 DEF Matched
  <2>2. /\ o[i].com = q[i].com /\ o[i].point = q[i].point
        /\ exact => o[i].eval = Eval(q[i].com, q[i].point)
    BY <1>2, <2>1 DEF Claims
  <2>3. PICK com \in Commitments, rot \in Int : q[i] = Query(com, rot)  BY <1>7 DEF Openings
  <2>4. q[i] = Query(q[i].com, q[i].point)  BY <2>3 DEF Query
  <2>5. QED  BY <2>2, <2>4
<1>9. [i \in DOMAIN o |-> Query(o[i].com, o[i].point)] = q
  <2>1. [i \in 1 .. n |-> Query(o[i].com, o[i].point)] = [i \in 1 .. n |-> q[i]]  BY <1>8
  <2>2. QED  BY <1>6, <1>7, <2>1
<1>10. GadgetMultiPrepare(o, g) = GadgetPrepare(q, g)  BY <1>9 DEF GadgetMultiPrepare
<1>11. GadgetPrepare(q, g) = MultiPrepareOps(k, g)
  BY <1>3 DEF GadgetPrepare, GadgetReadOpenings, MultiPrepareOps, MultiPrepare, ReadOpenings
<1>12. Early(k) \o MultiPrepareOps(k, g) = Checked(k, g)  BY GadgetProgram DEF GadgetInStep
<1>13. QED  BY <1>6, <1>8, <1>10, <1>11, <1>12

-----------------------------------------------------------------------------
(* What the circuit reads.                                                 *)

\* The proof is read under other names that mean what was written.
LEMMA ReadAsWritten ==
    ASSUME NEW k, NEW a, NEW b, Pairs(Twins(k), a, b), NEW p, p = Items(a, "write"),
           NEW names, names = Items(b, "read")
    PROVE  /\ p \in Seq(Carried) /\ names \in Seq(Carried) /\ Len(p) = Len(names)
           /\ \A j \in 1 .. Len(names) : p[j] = Means(k, names[j])
<1>1. a \in Seq(Moves) /\ b \in Seq(Moves)  BY DEF Pairs
<1>2. Pairs(Alike, a, b)  BY TwinsAlike, PairsWider
<1>3. PICK wr : wr = "write"  OBVIOUS
<1>4. PICK rd : rd = "read"  OBVIOUS
<1>5. ItemsAre(a, wr) /\ ItemsAre(b, rd)  BY <1>1, ItemsExact
<1>6. p \in Seq(Carried) /\ names \in Seq(Carried)  BY <1>3, <1>4, <1>5 DEF ItemsAre
<1>7. PICK n \in Nat : n = Len(a)  BY <1>1
<1>8. n = Len(b)  BY <1>7 DEF Pairs
<1>9. Len(p) = Count(a, wr, n)  BY <1>3, <1>5, <1>7 DEF ItemsAre
<1>10. Len(names) = Count(b, rd, n)  BY <1>4, <1>5, <1>8 DEF ItemsAre
<1>11. \A i \in 0 .. n : Count(a, wr, i) = Count(b, rd, i)
  BY <1>2, <1>3, <1>4, <1>7, CountAlike
<1>12. Len(p) = Len(names)  BY <1>9, <1>10, <1>11
<1>13. ASSUME NEW j \in 1 .. Len(names)
       PROVE  p[j] = Means(k, names[j])
  <2>1. PICK i \in 1 .. n : b[i][1] = rd /\ Count(b, rd, i) = j /\ b[i][2] = names[j]
    BY <1>4, <1>5, <1>8 DEF ItemsAre
  <2>2. <<a[i], b[i]>> \in Twins(k)  BY <1>7, <2>1 DEF Pairs
  <2>3. a[i][1] = wr /\ a[i][2] = Means(k, b[i][2])
    BY <1>3, <1>4, <2>1, <2>2 DEF Twins, Alike
  <2>4. Count(a, wr, i) = j  BY <1>11, <2>1
  <2>5. p[j] = a[i][2]  BY <1>3, <1>5, <1>7, <2>1, <2>3, <2>4 DEF ItemsAre
  <2>6. QED  BY <2>1, <2>3, <2>5
<1>14. QED  BY <1>6, <1>12, <1>13

\* A value of the encoding its name has is read in step.
LEMMA SameEncoding ==
    ASSUME NEW k, NEW x
    PROVE  IsScalar(Means(k, x)) = IsScalar(x)
<1>1. CASE x[1] = "slot"
  <2>1. Means(k, x)[1] = "eval"  BY <1>1 DEF Means, Eval
  <2>2. IsScalar(Means(k, x)) /\ IsScalar(x)  BY <1>1, <2>1 DEF IsScalar
  <2>3. QED  BY <2>2 DEF IsScalar
<1>2. CASE x[1] # "slot"
  <2>1. Means(k, x) = x  BY <1>2 DEF Means
  <2>2. QED  BY <2>1
<1>3. QED  BY <1>1, <1>2

\* The values of the names are what the names mean.
Meant(k, names, values) == \A j \in 1 .. Len(names) : values[j] = Means(k, names[j])

\* Values that are all there, as their names mean, are read.
LEMMA ReadExact ==
    ASSUME NEW k, NEW names \in Seq(Carried), NEW d, Len(d) \in Nat, Len(names) <= Len(d),
           Meant(k, names, d)
    PROVE  Meant(k, names, ReadOrDefault(names, d))
<1>1. PICK n \in Nat : n = Len(names) /\ DOMAIN names = 1 .. n  OBVIOUS
<1>2. PICK m \in Nat : m = Len(d)  OBVIOUS
<1>3. ASSUME NEW j \in 1 .. n
      PROVE  IsScalar(d[j]) = IsScalar(names[j])
  <2>1. d[j] = Means(k, names[j])  BY <1>1 DEF Meant
  <2>2. QED  BY <2>1, SameEncoding
<1>4. ASSUME NEW j \in 1 .. n
      PROVE  ReadOrDefault(names, d)[j] = d[j]
  <2>1. j <= m  BY <1>1, <1>2
  <2>2. \A i \in 1 .. j : i \in 1 .. n  OBVIOUS
  <2>3. \A i \in 1 .. j : i <= Len(d) => IsScalar(d[i]) = IsScalar(names[i])  BY <1>3, <2>2
  <2>4. QED  BY <1>1, <1>2, <2>1, <2>3 DEF ReadOrDefault
<1>5. QED  BY <1>1, <1>4 DEF Meant

\* The values by name of what is read in ops are what the names mean.
ExactFor(k, ops, values) == \A x : Read(x) \in ToSet(ops) => values[x] = Means(k, x)

\* They are, when each value read is what its name means.
LEMMA ValuesExact ==
    ASSUME NEW k, NEW ops \in Seq(Moves), NEW names, names = Items(ops, "read"),
           NEW values, Meant(k, names, values)
    PROVE  ExactFor(k, ops, ValuesOf(names, values))
<1>1. PICK rd : rd = "read"  OBVIOUS
<1>2. ItemsAre(ops, rd)  BY ItemsExact
<1>3. names \in Seq(Carried)  BY <1>1, <1>2 DEF ItemsAre
<1>4. ASSUME NEW x, Read(x) \in ToSet(ops)
      PROVE  ValuesOf(names, values)[x] = Means(k, x)
  <2>1. PICK i \in 1 .. Len(ops) : ops[i] = Read(x)  BY <1>4 DEF ToSet
  <2>2. ops[i][1] = rd /\ ops[i][2] = x  BY <1>1, <2>1 DEF Read
  <2>3. Count(ops, rd, i) \in 1 .. Len(names) /\ names[Count(ops, rd, i)] = x
    BY <1>1, <1>2, <2>2 DEF ItemsAre
  <2>4. x \in ToSet(names)  BY <1>3, <2>3 DEF ToSet
  <2>5. PICK j : j = Position(names, x)  OBVIOUS
  <2>6. j \in 1 .. Len(names) /\ names[j] = x  BY <1>3, <2>4, <2>5, PositionExact
  <2>7. values[j] = Means(k, x)  BY <2>6 DEF Meant
  <2>8. QED  BY <2>4, <2>5, <2>7 DEF ValuesOf
<1>5. QED  BY <1>4 DEF ExactFor

\* The history of a program with the values it reads, entry by entry.
LEMMA AbsorbedHistory ==
    ASSUME NEW b \in Seq(Moves), NEW values
    PROVE  /\ DOMAIN History(Absorbed(b, values)) = 1 .. Len(b)
           /\ History(Absorbed(b, values)) = [i \in 1 .. Len(b) |-> History(Absorbed(b, values))[i]]
           /\ \A i \in 1 .. Len(b) :
                 /\ b[i][1] = "read" =>
                       History(Absorbed(b, values))[i] = <<"absorb", values[Count(b, "read", i)]>>
                 /\ b[i][1] # "read" => History(Absorbed(b, values))[i] = Absorb(b[i])
<1>1. PICK n \in Nat : n = Len(b) /\ DOMAIN b = 1 .. n  OBVIOUS
<1>2. PICK e : e = Absorbed(b, values)  OBVIOUS
<1>3. e = [i \in 1 .. n |-> IF b[i][1] = "read" THEN Read(values[Count(b, "read", i)]) ELSE b[i]]
  BY <1>1, <1>2 DEF Absorbed
<1>4. DOMAIN e = 1 .. n  BY <1>3
<1>5. History(e) = [i \in 1 .. n |-> Absorb(e[i])]  BY <1>4 DEF History
<1>6. ASSUME NEW i \in 1 .. n
      PROVE  /\ b[i][1] = "read" => History(e)[i] = <<"absorb", values[Count(b, "read", i)]>>
             /\ b[i][1] # "read" => History(e)[i] = Absorb(b[i])
  <2>1. History(e)[i] = Absorb(e[i])  BY <1>5
  <2>2. CASE b[i][1] = "read"
    <3>1. PICK v : v = values[Count(b, "read", i)]  OBVIOUS
    <3>2. e[i] = Read(v)  BY <1>3, <2>2, <3>1
    <3>3. Absorb(Read(v)) = <<"absorb", v>>  BY DEF Absorb, Read
    <3>4. QED  BY <2>1, <2>2, <3>1, <3>2, <3>3
  <2>3. CASE b[i][1] # "read"
    <3>1. e[i] = b[i]  BY <1>3, <2>3
    <3>2. QED  BY <2>1, <2>3, <3>1
  <2>4. QED  BY <2>2, <2>3
<1>7. QED  BY <1>1, <1>2, <1>5, <1>6

\* With the values meant, the history is the prover's.
LEMMA HistoryMeant ==
    ASSUME NEW k, NEW a, NEW b, Pairs(Twins(k), a, b), NEW names, names = Items(b, "read"),
           NEW values, Meant(k, names, values)
    PROVE  History(Absorbed(b, values)) = History(a)
<1>1. a \in Seq(Moves) /\ b \in Seq(Moves)  BY DEF Pairs
<1>2. PICK n \in Nat : n = Len(b)  BY <1>1
<1>3. Len(a) = n  BY <1>2 DEF Pairs
<1>4. PICK h : h = History(Absorbed(b, values))  OBVIOUS
<1>5. PICK g \in Seq(Marks) : g = History(a)  BY <1>1, HistoryIs
<1>6. g = [i \in 1 .. n |-> g[i]] /\ \A i \in 1 .. n : g[i] = Absorb(a[i])
  BY <1>1, <1>3, <1>5, HistoryIs
<1>7. /\ h = [i \in 1 .. n |-> h[i]]
      /\ \A i \in 1 .. n :
            /\ b[i][1] = "read" => h[i] = <<"absorb", values[Count(b, "read", i)]>>
            /\ b[i][1] # "read" => h[i] = Absorb(b[i])
  BY <1>1, <1>2, <1>4, AbsorbedHistory
<1>8. PICK rd : rd = "read"  OBVIOUS
<1>9. ItemsAre(b, rd)  BY <1>1, ItemsExact
<1>10. ASSUME NEW i \in 1 .. n
       PROVE  h[i] = g[i]
  <2>1. <<a[i], b[i]>> \in Twins(k)  BY <1>3 DEF Pairs
  <2>2. CASE b[i][1] = "read"
    <3>1. Count(b, rd, i) \in 1 .. Len(names) /\ names[Count(b, rd, i)] = b[i][2]
      BY <1>2, <1>8, <1>9, <2>2 DEF ItemsAre
    <3>2. h[i] = <<"absorb", Means(k, b[i][2])>>  BY <1>7, <1>8, <2>2, <3>1 DEF Meant
    <3>3. a[i][1] = "write" /\ a[i][2] = Means(k, b[i][2])  BY <2>1, <2>2 DEF Twins, Alike
    <3>4. Absorb(a[i]) = <<"absorb", a[i][2]>>  BY <3>3 DEF Absorb
    <3>5. QED  BY <1>6, <3>2, <3>3, <3>4
  <2>3. CASE b[i][1] # "read"
    <3>1. a[i] = b[i]  BY <2>1, <2>3 DEF Twins
    <3>2. QED  BY <1>6, <1>7, <2>3, <3>1
  <2>4. QED  BY <2>2, <2>3
<1>11. [i \in 1 .. n |-> h[i]] = [i \in 1 .. n |-> g[i]]  BY <1>10
<1>12. QED  BY <1>4, <1>5, <1>6, <1>7, <1>11

\* A history of the prover's is one of programs with the same dummies.
LEMMA SameDummies ==
    ASSUME NEW k \in Keys, SlotsMatch(k), ~VerifierRefuses(k), NEW f \in BOOLEAN,
           NEW g \in BOOLEAN, NEW values,
           History(Absorbed(Checked(k, g), values)) = History(Written(k, f))
    PROVE  Dummies(k, f) = Dummies(k, g)
<1> SUFFICES ASSUME Dummies(k, f) # Dummies(k, g)
             PROVE  FALSE
  OBVIOUS
<1>1. GoTogether(Alike, k, f, g)  BY ProtocolPairs
<1>2. PICK a \in Seq(Moves) : a = Written(k, f)  BY ProgramMoves
<1>3. PICK b \in Seq(Moves) : b = Checked(k, g)  BY ProgramMoves
<1>4. PICK i \in 1 .. Len(b) :
         /\ i \in 1 .. Len(a)
         /\ \/ a[i][1] = "write" /\ b[i][1] = "squeeze"
            \/ a[i][1] = "squeeze" /\ b[i][1] = "read"
  BY <1>1, <1>2, <1>3, OpeningsDiffer
<1>5. PICK h : h = History(a)  OBVIOUS
<1>6. h[i] = Absorb(a[i])  BY <1>2, <1>4, <1>5, HistoryIs
<1>7. /\ b[i][1] = "read" => h[i] = <<"absorb", values[Count(b, "read", i)]>>
      /\ b[i][1] # "read" => h[i] = Absorb(b[i])
  BY <1>2, <1>3, <1>4, <1>5, AbsorbedHistory
<1>8. CASE a[i][1] = "write" /\ b[i][1] = "squeeze"
  <2>1. h[i][1] = "absorb"  BY <1>6, <1>8 DEF Absorb
  <2>2. h[i] = b[i]  BY <1>7, <1>8 DEF Absorb
  <2>3. QED  BY <1>8, <2>1, <2>2
<1>9. CASE a[i][1] = "squeeze" /\ b[i][1] = "read"
  <2>1. h[i] = a[i]  BY <1>6, <1>9 DEF Absorb
  <2>2. h[i][1] = "absorb"  BY <1>7, <1>9
  <2>3. QED  BY <1>9, <2>1, <2>2
<1>10. QED  BY <1>4, <1>8, <1>9

\* A proof that gives the prover's history begins with the prover's proof.
LEMMA WholeRead ==
    ASSUME NEW a, NEW b, Pairs(Alike, a, b), NEW p, p = Items(a, "write"), NEW d \in Seq(Arriving),
           NEW names, names = Items(b, "read"),
           History(Absorbed(b, ReadOrDefault(names, d))) = History(a)
    PROVE  IsPrefix(p, d)
<1>1. a \in Seq(Moves) /\ b \in Seq(Moves)  BY DEF Pairs
<1>2. PICK n \in Nat : n = Len(a)  BY <1>1
<1>3. n = Len(b)  BY <1>2 DEF Pairs
<1>4. PICK wr : wr = "write"  OBVIOUS
<1>5. PICK rd : rd = "read"  OBVIOUS
<1>6. ItemsAre(a, wr) /\ ItemsAre(b, rd)  BY <1>1, ItemsExact
<1>7. p \in Seq(Carried) /\ names \in Seq(Carried)  BY <1>4, <1>5, <1>6 DEF ItemsAre
<1>8. PICK m \in Nat : m = Len(p)  BY <1>7
<1>9. PICK c \in Nat : c = Len(d)  OBVIOUS
<1>10. PICK v : v = ReadOrDefault(names, d)  OBVIOUS
<1>11. PICK h : h = History(a)  OBVIOUS
<1>12. \A i \in 1 .. n : h[i] = Absorb(a[i])  BY <1>1, <1>2, <1>11, HistoryIs
<1>13. \A i \in 1 .. n : b[i][1] = rd => h[i] = <<"absorb", v[Count(b, rd, i)]>>
  BY <1>1, <1>3, <1>5, <1>10, <1>11, AbsorbedHistory
<1>14. ASSUME NEW j \in 1 .. m
       PROVE  j <= c /\ d[j] = p[j]
  <2>1. PICK i \in 1 .. n : a[i][1] = wr /\ Count(a, wr, i) = j /\ a[i][2] = p[j]
    BY <1>2, <1>4, <1>6, <1>8 DEF ItemsAre
  <2>2. <<a[i], b[i]>> \in Alike  BY <1>2 DEF Pairs
  <2>3. b[i][1] = rd  BY <1>4, <1>5, <2>1, <2>2 DEF Alike
  <2>4. i \in 0 .. Len(a)  BY <1>2
  <2>5. Count(b, rd, i) = j  BY <1>4, <1>5, <2>1, <2>4, CountAlike
  <2>6. h[i] = <<"absorb", v[j]>>  BY <1>13, <2>3, <2>5
  <2>7. h[i] = <<"absorb", p[j]>>
    <3>1. Absorb(a[i]) = <<"absorb", a[i][2]>>  BY <1>4, <2>1 DEF Absorb
    <3>2. QED  BY <1>12, <2>1, <3>1
  <2>8. v[j] = p[j]
    <3>1. PICK x : x = v[j]  OBVIOUS
    <3>2. PICK y : y = p[j]  OBVIOUS
    <3>3. <<"absorb", x>> = <<"absorb", y>>  BY <2>6, <2>7, <3>1, <3>2
    <3>4. QED  BY <3>1, <3>2, <3>3
  <2>9. p[j] # <<"default">>
    <3>1. p[j] \in Carried  BY <1>7, <1>8
    <3>2. <<"default">> \notin Carried
      BY DEF Carried, Inputs, Values, Slots, Names, Commitments
    <3>3. QED  BY <3>1, <3>2
  <2>10. j \in DOMAIN names
    <3>1. Count(b, rd, i) \in 1 .. Len(names)  BY <1>3, <1>5, <1>6, <2>3 DEF ItemsAre
    <3>2. QED  BY <1>7, <2>5, <3>1
  <2>11. v[j] = <<"default">> \/ (j <= Len(d) /\ v[j] = d[j])
    BY <1>10, <2>10 DEF ReadOrDefault
  <2>12. QED  BY <1>9, <2>8, <2>9, <2>11
<1>15. m <= c
  <2>1. CASE m = 0  BY <2>1
  <2>2. CASE m # 0
    <3>1. m \in 1 .. m  BY <2>2
    <3>2. QED  BY <1>14, <3>1
  <2>3. QED  BY <2>1, <2>2
<1>16. SubSeq(p, 1, m) = SubSeq(d, 1, m)
  <2>1. SubSeq(p, 1, m) = [j \in 1 .. m |-> p[j]]  BY <1>7, <1>8
  <2>2. SubSeq(d, 1, m) = [j \in 1 .. m |-> d[j]]  BY <1>9, <1>15
  <2>3. [j \in 1 .. m |-> p[j]] = [j \in 1 .. m |-> d[j]]  BY <1>14
  <2>4. QED  BY <2>1, <2>2, <2>3
<1>17. QED  BY <1>8, <1>9, <1>15, <1>16 DEF IsPrefix

\* What the verifier accepts the circuit shows to hold.
LEMMA AcceptedHolds ==
    ASSUME RunInv, SlotsMatch(key), Suits(key), verdict = "accept"
    PROVE  GadgetHolds(key, flags[2])
<1>1. sent /\ vtodo = <<>> /\ vhist = phist  BY DEF RunInv, AcceptedWhole
<1>2. key \in Keys /\ flags[1] \in BOOLEAN /\ flags[2] \in BOOLEAN  BY DEF RunInv
<1>3. PICK f \in BOOLEAN : f = flags[1]  BY <1>2
<1>4. PICK g \in BOOLEAN : g = flags[2]  BY <1>2
<1>5. ~VerifierRefuses(key) /\ OneOrder(key)  BY <1>2, SuitingCalls
<1>6. GoTogether(Alike, key, f, g) /\ GoTogether(Twins(key), key, f, g)
  BY <1>2, <1>5, ProtocolPairs
<1>7. PICK a \in Seq(Moves) : a = Written(key, f)  BY <1>2, ProgramMoves
<1>8. PICK b \in Seq(Moves) : b = Checked(key, g)  BY <1>2, ProgramMoves
<1>9. Ran(b, delivered, vhist, cursor, got)  BY <1>1, <1>4, <1>8, PreparedWhole
<1>10. /\ phist = History(a) /\ proof = Items(a, "write")
       /\ delivered \in {proof, Front(proof), Append(proof, <<"extra">>)}
  BY <1>1, <1>3, <1>7, SentWhole
<1>11. Dummies(key, f) = Dummies(key, g)
  <2> SUFFICES ASSUME Dummies(key, f) # Dummies(key, g)
               PROVE  FALSE
    OBVIOUS
  <2>1. PICK i \in 1 .. Len(b) :
           /\ i \in 1 .. Len(a)
           /\ \/ a[i][1] = "write" /\ b[i][1] = "squeeze"
              \/ a[i][1] = "squeeze" /\ b[i][1] = "read"
    BY <1>2, <1>6, <1>7, <1>8, OpeningsDiffer
  <2>2. phist[i] = Absorb(a[i])  BY <1>7, <1>10, <2>1, HistoryIs
  <2>3. vhist[i] = Outcome(b[i], Count(b, "read", i), delivered)  BY <1>9, <2>1 DEF Ran
  <2>4. CASE a[i][1] = "write" /\ b[i][1] = "squeeze"
    <3>1. phist[i][1] = "absorb"  BY <2>2, <2>4 DEF Absorb
    <3>2. vhist[i] = b[i]  BY <2>3, <2>4 DEF Outcome, Absorb
    <3>3. QED  BY <1>1, <2>4, <3>1, <3>2
  <2>5. CASE a[i][1] = "squeeze" /\ b[i][1] = "read"
    <3>1. phist[i] = a[i]  BY <2>2, <2>5 DEF Absorb
    <3>2. vhist[i][1] = "absorb"  BY <2>3, <2>5 DEF Outcome
    <3>3. QED  BY <1>1, <2>5, <3>1, <3>2
  <2>6. QED  BY <2>1, <2>4, <2>5
<1>12. Pairs(Twins(key), a, b)
  <2>1. Twins(key) \subseteq Twins(key)  OBVIOUS
  <2>2. QED  BY <1>2, <1>6, <1>7, <1>8, <1>11, <2>1, AllPair
<1>13. PICK p \in Seq(Carried) : p = proof  BY <1>10, <1>12, ReadAsWritten
<1>14. PICK names \in Seq(Carried) : names = Items(b, "read")  BY <1>12, ReadAsWritten
<1>15. Len(p) = Len(names) /\ \A j \in 1 .. Len(names) : p[j] = Means(key, names[j])
  BY <1>10, <1>12, <1>13, <1>14, ReadAsWritten
<1>16. delivered \in Seq(Arriving)  BY <1>10, <1>13, DeliveredTyped
<1>17. PICK m \in Nat : m = Len(delivered)  BY <1>16
<1>18. PICK n \in Nat : n = Len(names)  OBVIOUS
<1>19. n <= m
  <2>1. PICK rd : rd = "read"  OBVIOUS
  <2>2. n = Count(b, rd, Len(b))  BY <1>14, <1>18, <2>1, ItemsExact DEF ItemsAre
  <2>3. cursor = Count(b, rd, Len(b)) /\ cursor <= m  BY <1>9, <1>17, <2>1 DEF Ran
  <2>4. QED  BY <2>2, <2>3
<1>20. ASSUME NEW j \in 1 .. n
       PROVE  delivered[j] = Means(key, names[j])
  <2>1. j \in 1 .. Len(p) /\ j <= Len(delivered)  BY <1>15, <1>17, <1>18, <1>19
  <2>2. delivered[j] = p[j]  BY <1>10, <1>13, <2>1, ArrivesAsWritten
  <2>3. QED  BY <1>15, <1>18, <2>2
<1>21. GadgetInStep(key, g)  BY <1>2, GadgetProgram
<1>22. PICK e \in Seq(Moves) : e = Early(key)  BY <1>21 DEF GadgetInStep
<1>23. PICK early \in Seq(Carried) : early = Items(e, "read")  BY ItemsExact DEF ItemsAre
<1>24. PICK l \in Nat : l = Len(early)  OBVIOUS
<1>25. l <= n /\ \A j \in 1 .. l : names[j] = early[j]
  <2>1. b = e \o MultiPrepareOps(key, g)  BY <1>8, <1>21, <1>22 DEF GadgetInStep
  <2>2. PICK r \in Seq(Moves) : r = MultiPrepareOps(key, g)  BY <1>2, MultiOpenPair DEF Pairs
  <2>3. PICK rest \in Seq(Carried) : rest = Items(r, "read")  BY ItemsExact DEF ItemsAre
  <2>4. PICK rd : rd = "read"  OBVIOUS
  <2>5. Items(e \o r, rd) = Items(e, rd) \o Items(r, rd)  BY ItemsJoined
  <2>6. names = early \o rest  BY <1>14, <1>23, <2>1, <2>2, <2>3, <2>4, <2>5
  <2>7. PICK q \in Nat : q = Len(rest)  OBVIOUS
  <2>8. /\ Len(early \o rest) = Len(early) + Len(rest)
        /\ \A j \in 1 .. Len(early) : (early \o rest)[j] = early[j]
    BY Concatenated
  <2>9. n = l + q /\ \A j \in 1 .. l : names[j] = early[j]
    BY <1>18, <1>24, <2>6, <2>7, <2>8
  <2>10. QED  BY <2>9
<1>26. Meant(key, early, ReadOrDefault(early, delivered))
  <2>1. ASSUME NEW j \in 1 .. l
        PROVE  delivered[j] = Means(key, early[j])
    <3>1. j \in 1 .. n  BY <1>25
    <3>2. delivered[j] = Means(key, names[j])  BY <1>20, <3>1
    <3>3. QED  BY <1>25, <3>2
  <2>2. l <= m /\ Len(early) <= Len(delivered) /\ Len(delivered) \in Nat
    BY <1>17, <1>19, <1>24, <1>25
  <2>3. Meant(key, early, delivered)  BY <1>24, <2>1 DEF Meant
  <2>4. QED  BY <2>2, <2>3, ReadExact
<1>27. PICK values : values = ValuesOf(early, ReadOrDefault(early, delivered))  OBVIOUS
<1>28. AllExact(key, values)
  <2>1. PICK v : v = ReadOrDefault(early, delivered)  OBVIOUS
  <2>2. Meant(key, early, v)  BY <1>26, <2>1
  <2>3. e \in Seq(Moves) /\ early = Items(e, "read")  BY <1>22, <1>23
  <2>4. ExactFor(key, e, ValuesOf(early, v))  BY <2>2, <2>3, ValuesExact
  <2>5. QED  BY <1>22, <1>27, <2>1, <2>4 DEF AllExact, ExactFor
<1>29. PICK o : o = GadgetOpenings(key, values)  OBVIOUS
<1>30. PICK exact : exact = TRUE  OBVIOUS
<1>31. /\ Early(key) \o GadgetMultiPrepare(o, g) = Checked(key, g)
       /\ \A i \in DOMAIN o : o[i].eval = Eval(o[i].com, o[i].point)
  <2>1. exact => AllExact(key, values)  BY <1>28
  <2>2. exact => \A i \in DOMAIN o : o[i].eval = Eval(o[i].com, o[i].point)
    BY <1>2, <1>29, <2>1, GadgetChecks
  <2>3. Early(key) \o GadgetMultiPrepare(o, g) = Checked(key, g)
    BY <1>2, <1>29, <2>1, GadgetChecks
  <2>4. QED  BY <1>30, <2>2, <2>3
<1>32. TranscriptHolds(b)
  <2>1. PICK v : v = ReadOrDefault(names, delivered)  OBVIOUS
  <2>2. Meant(key, names, v)
    <3>1. Meant(key, names, delivered)  BY <1>18, <1>20 DEF Meant
    <3>2. Len(names) <= Len(delivered) /\ Len(delivered) \in Nat  BY <1>17, <1>18, <1>19
    <3>3. QED  BY <2>1, <3>1, <3>2, ReadExact
  <2>3. History(Absorbed(b, v)) = History(a)  BY <1>12, <1>14, <2>2, HistoryMeant
  <2>4. QED  BY <1>10, <1>14, <2>1, <2>3 DEF TranscriptHolds
<1>33. OpeningsHold(Early(key), o, g)  BY <1>8, <1>31, <1>32 DEF OpeningsHold
<1>34. HoldsAfter(key, g, Early(key), early)  BY <1>27, <1>29, <1>33 DEF HoldsAfter
<1>35. HoldsFrom(key, g, Early(key))  BY <1>22, <1>23, <1>34 DEF HoldsFrom
<1>36. QED  BY <1>4, <1>35 DEF GadgetHolds, Early

\* The circuit shows an accumulator to hold only for the whole proof.
LEMMA HoldsWhole ==
    ASSUME RunInv, SlotsMatch(key), Suits(key), sent, GadgetHolds(key, flags[2])
    PROVE  IsPrefix(proof, delivered)
<1>1. key \in Keys /\ flags[1] \in BOOLEAN /\ flags[2] \in BOOLEAN  BY DEF RunInv
<1>2. PICK f \in BOOLEAN : f = flags[1]  BY <1>1
<1>3. PICK g \in BOOLEAN : g = flags[2]  BY <1>1
<1>4. ~VerifierRefuses(key)  BY <1>1, SuitingCalls
<1>5. PICK a \in Seq(Moves) : a = Written(key, f)  BY <1>1, ProgramMoves
<1>6. PICK b \in Seq(Moves) : b = Checked(key, g)  BY <1>1, ProgramMoves
<1>7. /\ phist = History(a) /\ proof = Items(a, "write") /\ proof \in Seq(Carried)
      /\ delivered \in {proof, Front(proof), Append(proof, <<"extra">>)}
  BY <1>2, <1>5, SentWhole
<1>8. delivered \in Seq(Arriving)  BY <1>7, DeliveredTyped
<1>9. PICK names : names = Items(b, "read")  OBVIOUS
<1>10. History(Absorbed(b, ReadOrDefault(names, delivered))) = History(a)
  <2>1. PICK early : early = Items(Early(key), "read")  OBVIOUS
  <2>2. PICK values : values = ValuesOf(early, ReadOrDefault(early, delivered))  OBVIOUS
  <2>3. PICK o : o = GadgetOpenings(key, values)  OBVIOUS
  <2>4. HoldsFrom(key, g, Early(key))  BY <1>3 DEF GadgetHolds, Early
  <2>5. HoldsAfter(key, g, Early(key), early)  BY <2>1, <2>4 DEF HoldsFrom
  <2>6. OpeningsHold(Early(key), o, g)  BY <2>2, <2>3, <2>5 DEF HoldsAfter
  <2>7. TranscriptHolds(Early(key) \o GadgetMultiPrepare(o, g))  BY <2>6 DEF OpeningsHold
  <2>8. PICK exact : exact = FALSE  OBVIOUS
  <2>9. exact => AllExact(key, values)  BY <2>8
  <2>10. Early(key) \o GadgetMultiPrepare(o, g) = b  BY <1>1, <1>6, <2>3, <2>9, GadgetChecks
  <2>11. QED  BY <1>7, <1>9, <2>7, <2>10 DEF TranscriptHolds
<1>11. Dummies(key, f) = Dummies(key, g)
  <2>1. PICK v : v = ReadOrDefault(names, delivered)  OBVIOUS
  <2>2. History(Absorbed(Checked(key, g), v)) = History(Written(key, f))
    BY <1>5, <1>6, <1>10, <2>1
  <2>3. QED  BY <1>1, <1>4, <2>2, SameDummies
<1>12. Pairs(Alike, a, b)
  <2>1. Twins(key) \subseteq Alike  BY TwinsAlike
  <2>2. GoTogether(Alike, key, f, g)  BY <1>1, <1>4, ProtocolPairs
  <2>3. QED  BY <1>1, <1>5, <1>6, <1>11, <2>1, <2>2, AllPair
<1>13. QED  BY <1>7, <1>8, <1>9, <1>10, <1>12, WholeRead

\* The verifier as a circuit follows the verifier: for one proof of a circuit of one
\* phase on which its synthesis does not panic, a proof the verifier accepts is one
\* whose accumulator the circuit shows to hold, and it shows that only when what
\* arrives begins with the prover's whole proof.
THEOREM GadgetTheorem ==
    ASSUME \A k \in Keys : SlotsMatch(k)
    PROVE  Spec => []GadgetFollowsVerifier
<1>1. RunInv => GadgetFollowsVerifier
  <2> SUFFICES ASSUME RunInv, sent, key.proofs = 1, ~GadgetPanics(key),
                      key.cs.challenge_phase = <<>>
               PROVE  /\ verdict = "accept" => GadgetHolds(key, flags[2])
                      /\ GadgetHolds(key, flags[2]) => IsPrefix(proof, delivered)
    BY DEF GadgetFollowsVerifier
  <2>1. key \in Keys  BY DEF RunInv
  <2>2. SlotsMatch(key)  BY <2>1
  <2>3. Suits(key)  BY DEF Suits
  <2>4. QED  BY <2>2, <2>3, AcceptedHolds, HoldsWhole
<1>2. Spec => []RunInv  BY RunsInStep
<1>3. QED  BY <1>1, <1>2, PTL
=============================================================================
