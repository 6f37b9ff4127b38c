--------------------------- MODULE RecursionProofs ---------------------------
(***************************************************************************)
(* What recursion rests on.  First the sponge a proof's transcript is      *)
(* hashed with, inside and outside a circuit: what it squeezes stands for  *)
(* what was absorbed, for every rate, every list of absorbed elements and  *)
(* every number of squeezes.  Then the chain: what a verifier may conclude *)
(* from an accepted proof of the recursion, and what a prover may expect   *)
(* of a step, for any machine, any decider and any number of proofs by     *)
(* anyone.                                                                 *)
(***************************************************************************)
EXTENDS Ivc, PoseidonSponge, PointSetsLemmas

-----------------------------------------------------------------------------
(* Division                                                                *)

\* A quotient is the number of times a divisor fits.
LEMMA Division ==
    ASSUME NEW a \in Nat, NEW r \in Nat \ {0}
    PROVE  /\ a \div r \in Nat
           /\ r * (a \div r) <= a /\ a < r * (a \div r) + r
OBVIOUS

\* The next multiple.
LEMMA NextMultiple ==
    ASSUME NEW r \in Nat, NEW a \in Nat
    PROVE  r * a \in Nat /\ r * (a + 1) = r * a + r /\ (a + 1) * r = r * a + r /\ a * r = r * a
OBVIOUS

\* Smaller multiples are a divisor away.
LEMMA SmallerMultiple ==
    ASSUME NEW r \in Nat, NEW a \in Nat, NEW b \in Nat, a < b
    PROVE  r * a + r <= r * b
OBVIOUS

-----------------------------------------------------------------------------
(* Chunks                                                                  *)

Block == [1 .. Rate -> Nat]

\* Chunk k of a queue starts after k - 1 chunks.
ChunkedAs(c, n, q) ==
    /\ c \in [1 .. n -> Block]
    /\ n # 0 => Rate * (n - 1) < Len(q)
    /\ Len(q) <= Rate * n
    /\ \A k \in 1 .. n, j \in 1 .. Rate :
          c[k][j] = IF Rate * (k - 1) + j <= Len(q) THEN q[Rate * (k - 1) + j] ELSE 0

\* The chunks of a queue cover it, and the last one holds some of it.
LEMMA ChunksExact ==
    ASSUME NEW q \in Seq(Nat)
    PROVE  \E n \in Nat :
              /\ n = (Len(q) + Rate - 1) \div Rate /\ Len(Chunks(q)) = n
              /\ ChunkedAs(Chunks(q), n, q)
<1>1. PICK r \in Nat \ {0} : r = Rate  BY SpongeAssumption
<1>2. PICK l \in Nat : l = Len(q)  OBVIOUS
<1>3. PICK n : n = (l + r - 1) \div r  OBVIOUS
<1>4. n \in Nat /\ r * n <= l + r - 1 /\ l + r - 1 < r * n + r
  <2>1. l + r - 1 \in Nat  OBVIOUS
  <2>2. PICK a \in Nat : a = l + r - 1  BY <2>1
  <2>3. a \div r \in Nat /\ r * (a \div r) <= a /\ a < r * (a \div r) + r
    BY <2>2, Division
  <2>4. QED  BY <1>3, <2>2, <2>3
<1>5. l <= r * n
  BY <1>4, NextMultiple
<1>6. n # 0 => r * (n - 1) < l
  <2>1. ASSUME n # 0
        PROVE  r * (n - 1) < l
    <3>1. PICK m \in Nat : m = n - 1  BY <1>4, <2>1
    <3>2. r * (m + 1) = r * m + r /\ r * m \in Nat  BY NextMultiple
    <3>3. n = m + 1  BY <1>4, <3>1
    <3>4. QED  BY <1>4, <3>1, <3>2, <3>3
  <2>2. QED  BY <2>1
<1> DEFINE c == [k \in 1 .. n |->
        [j \in 1 .. r |-> LET at == (k - 1) * r + j IN IF at <= l THEN q[at] ELSE 0]]
<1>7. Chunks(q) = c  BY <1>1, <1>2, <1>3 DEF Chunks
<1>8. ASSUME NEW k \in 1 .. n, NEW j \in 1 .. r
      PROVE  /\ c[k][j] \in Nat
             /\ c[k][j] = IF r * (k - 1) + j <= l THEN q[r * (k - 1) + j] ELSE 0
  <2>1. k - 1 \in Nat  OBVIOUS
  <2>2. (k - 1) * r = r * (k - 1) /\ r * (k - 1) \in Nat  BY <2>1, NextMultiple
  <2>3. PICK at : at = r * (k - 1) + j  OBVIOUS
  <2>4. at \in Nat \ {0}  BY <2>2, <2>3
  <2>5. c[k][j] = IF at <= l THEN q[at] ELSE 0  BY <2>2, <2>3
  <2>6. at <= l => q[at] \in Nat  BY <1>2, <2>4
  <2>7. QED  BY <2>3, <2>5, <2>6
<1>9. c \in [1 .. n -> [1 .. r -> Nat]]
  <2>1. ASSUME NEW k \in 1 .. n
        PROVE  c[k] \in [1 .. r -> Nat]
    <3>1. \A j \in 1 .. r : c[k][j] \in Nat  BY <1>8
    <3>2. QED  BY <3>1
  <2>2. QED  BY <2>1
<1>10. Len(c) = n  BY <1>4
<1>11. PICK d : d = Chunks(q)  OBVIOUS
<1>12. /\ d \in [1 .. n -> [1 .. r -> Nat]] /\ Len(d) = n
       /\ \A k \in 1 .. n, j \in 1 .. r :
             d[k][j] = IF r * (k - 1) + j <= l THEN q[r * (k - 1) + j] ELSE 0
  BY <1>7, <1>8, <1>9, <1>10, <1>11
<1>13. ChunkedAs(d, n, q)  BY <1>1, <1>2, <1>5, <1>6, <1>12 DEF ChunkedAs, Block
<1>14. QED  BY <1>1, <1>2, <1>3, <1>4, <1>11, <1>12, <1>13

\* Equal chunks of equally long queues hold equal queues.
LEMMA ChunksDetermine ==
    ASSUME NEW p \in Seq(Nat), NEW q \in Seq(Nat), NEW n \in Nat, NEW c, NEW d,
           ChunkedAs(c, n, p), ChunkedAs(d, n, q), c = d, Len(p) = Len(q)
    PROVE  p = q
<1>1. PICK r \in Nat \ {0} : r = Rate  BY SpongeAssumption
<1>2. PICK l \in Nat : l = Len(p)  OBVIOUS
<1>3. ASSUME NEW at \in 1 .. l
      PROVE  p[at] = q[at]
  <2>1. PICK b \in Nat : b = at - 1  OBVIOUS
  <2>2. PICK k : k = b \div r  OBVIOUS
  <2>3. k \in Nat /\ r * k <= b /\ b < r * k + r  BY <2>1, <2>2, Division
  <2>4. r * k \in Nat  BY <2>3, NextMultiple
  <2>5. k < n
    <3>1. SUFFICES ASSUME ~(k < n)
                   PROVE  FALSE
      OBVIOUS
    <3>2. r * n <= r * k
      <4>1. CASE n = k  BY <4>1
      <4>2. CASE n < k
        <5>1. r * n + r <= r * k  BY <2>3, <4>2, SmallerMultiple
        <5>2. r * n \in Nat  BY NextMultiple
        <5>3. QED  BY <2>4, <5>1, <5>2
      <4>3. QED  BY <2>3, <3>1, <4>1, <4>2
    <3>3. l <= r * n  BY <1>1, <1>2 DEF ChunkedAs
    <3>4. r * n \in Nat  BY NextMultiple
    <3>5. QED  BY <2>1, <2>3, <2>4, <3>2, <3>3, <3>4
  <2>6. PICK j \in 1 .. r : j = at - r * k  BY <2>1, <2>3, <2>4
  <2>7. PICK i \in 1 .. n : i = k + 1  BY <2>3, <2>5
  <2>8. k = i - 1  BY <2>3, <2>7
  <2>9. r * (i - 1) + j = at  BY <2>4, <2>6, <2>8
  <2>10. c[i][j] = p[at]
    <3>1. at <= Len(p)  BY <1>2
    <3>2. QED  BY <1>1, <2>9, <3>1 DEF ChunkedAs
  <2>11. d[i][j] = q[at]
    <3>1. at <= Len(q)  BY <1>2
    <3>2. QED  BY <1>1, <2>9, <3>1 DEF ChunkedAs
  <2>12. QED  BY <2>10, <2>11
<1>4. Len(q) = l  BY <1>2
<1>5. DOMAIN p = 1 .. l /\ DOMAIN q = 1 .. l  BY <1>2, <1>4
<1>6. QED  BY <1>3, <1>5
-----------------------------------------------------------------------------
(* Padding                                                                 *)

\* A queue of any length, with its length, and one of a given length, as it is.
Padded(len, q) == IF len = {} THEN Append(q, Len(q)) ELSE q

\* The lengths a sponge is made for: any, or one that is not zero.
SomeLength(len) == len = {} \/ \E n \in Nat \ {0} : len = {n}

\* A queue that a sponge is squeezed with.
Fits(len, q) == len = {} \/ len = {Len(q)}

\* A padded queue is a list that is not empty.
LEMMA PaddedType ==
    ASSUME NEW len, NEW q \in Seq(Nat), SomeLength(len), Fits(len, q)
    PROVE  /\ Padded(len, q) \in Seq(Nat) /\ Len(Padded(len, q)) # 0
           /\ len = {} => Len(Padded(len, q)) = Len(q) + 1
           /\ len # {} => Padded(len, q) = q
<1>1. PICK l \in Nat : l = Len(q)  OBVIOUS
<1>2. CASE len = {}
  <2>1. PICK p : p = Append(q, l)  OBVIOUS
  <2>2. p \in Seq(Nat) /\ Len(p) = l + 1  BY <1>1, <2>1
  <2>3. Padded(len, q) = p  BY <1>1, <1>2, <2>1 DEF Padded
  <2>4. QED  BY <1>1, <1>2, <2>2, <2>3
<1>3. CASE len # {}
  <2>1. Padded(len, q) = q  BY <1>3 DEF Padded
  <2>2. PICK n \in Nat \ {0} : len = {n}  BY <1>3 DEF SomeLength
  <2>3. l = n  BY <1>1, <1>3, <2>2 DEF Fits
  <2>4. QED  BY <1>1, <1>3, <2>1, <2>3
<1>4. QED  BY <1>2, <1>3

\* A number, and nothing but zeros after it.
EndsIn(block, l) ==
    \E j \in 1 .. Rate :
        /\ block[j] = l /\ (l = 0 => j = 1)
        /\ \A i \in 1 .. Rate : i > j => block[i] = 0

\* A block does not end in two numbers.
LEMMA EndsOnce ==
    ASSUME NEW block, NEW l \in Nat, NEW m \in Nat, EndsIn(block, l), EndsIn(block, m)
    PROVE  l = m
<1>1. PICK r \in Nat : r = Rate  BY SpongeAssumption
<1>2. PICK i \in 1 .. r : block[i] = l /\ (l = 0 => i = 1)
                          /\ \A x \in 1 .. r : x > i => block[x] = 0
  BY <1>1 DEF EndsIn
<1>3. PICK j \in 1 .. r : block[j] = m /\ (m = 0 => j = 1)
                          /\ \A x \in 1 .. r : x > j => block[x] = 0
  BY <1>1 DEF EndsIn
<1>4. CASE i = j  BY <1>2, <1>3, <1>4
<1>5. CASE i < j  BY <1>1, <1>2, <1>3, <1>5
<1>6. CASE j < i  BY <1>1, <1>2, <1>3, <1>6
<1>7. QED  BY <1>4, <1>5, <1>6

\* The last chunk of a padded queue ends in the length of the queue.
LEMMA LastChunk ==
    ASSUME NEW q \in Seq(Nat), NEW n \in Nat, NEW c, ChunkedAs(c, n, Append(q, Len(q)))
    PROVE  n # 0 /\ EndsIn(c[n], Len(q))
<1>1. PICK r \in Nat \ {0} : r = Rate  BY SpongeAssumption
<1>2. PICK l \in Nat : l = Len(q)  OBVIOUS
<1>3. PICK p : p = Append(q, l)  OBVIOUS
<1>4. p \in Seq(Nat) /\ Len(p) = l + 1 /\ p[l + 1] = l  BY <1>2, <1>3
<1>5. /\ n # 0 => r * (n - 1) < l + 1
      /\ l + 1 <= r * n
      /\ \A k \in 1 .. n, j \in 1 .. r :
            c[k][j] = IF r * (k - 1) + j <= l + 1 THEN p[r * (k - 1) + j] ELSE 0
  <2>1. ChunkedAs(c, n, p)  BY <1>2, <1>3
  <2>2. QED  BY <1>1, <1>4, <2>1 DEF ChunkedAs
<1>6. n # 0
  <2>1. r * 0 = 0  OBVIOUS
  <2>2. QED  BY <1>5, <2>1
<1>7. PICK m \in Nat : m = n - 1  BY <1>6
<1>8. r * m \in Nat /\ r * (m + 1) = r * m + r  BY NextMultiple
<1>9. m + 1 = n  BY <1>7
<1>10. r * m < l + 1 /\ l + 1 <= r * m + r  BY <1>5, <1>6, <1>7, <1>8, <1>9
<1>11. PICK j \in 1 .. r : j = l + 1 - r * m  BY <1>8, <1>10
<1>12. \A i \in 1 .. r : c[n][i] = IF r * m + i <= l + 1 THEN p[r * m + i] ELSE 0
  <2>1. n \in 1 .. n  BY <1>6
  <2>2. QED  BY <1>5, <1>7, <2>1
<1>13. c[n][j] = l
  <2>1. r * m + j = l + 1  BY <1>8, <1>11
  <2>2. QED  BY <1>4, <1>12, <2>1
<1>14. l = 0 => j = 1
  <2>1. ASSUME l = 0
        PROVE  j = 1
    <3>1. r * m = 0  BY <1>8, <1>10, <2>1
    <3>2. QED  BY <1>11, <2>1, <3>1
  <2>2. QED  BY <2>1
<1>15. ASSUME NEW i \in 1 .. r, i > j
       PROVE  c[n][i] = 0
  <2>1. ~(r * m + i <= l + 1)  BY <1>8, <1>11, <1>15
  <2>2. QED  BY <1>12, <2>1
<1>16. QED  BY <1>1, <1>2, <1>6, <1>13, <1>14, <1>15 DEF EndsIn
-----------------------------------------------------------------------------
(* Segments                                                                *)

\* The blocks after a, up to b, are the chunks of q.
PieceOf(blocks, a, b) == [k \in 1 .. b - a |-> blocks[a + k]]

Piece(blocks, a, b, q) ==
    /\ a <= b /\ b - a = (Len(q) + Rate - 1) \div Rate
    /\ ChunkedAs(PieceOf(blocks, a, b), b - a, q)

\* The last blocks determine the queue and how many blocks it takes.
LEMMA SameEnd ==
    ASSUME NEW len, SomeLength(len), NEW p \in Seq(Nat), NEW q \in Seq(Nat),
           Fits(len, p), Fits(len, q), NEW blocks, NEW a \in Nat, NEW d \in Nat, NEW b \in Nat,
           Piece(blocks, a, b, Padded(len, p)), Piece(blocks, d, b, Padded(len, q))
    PROVE  a < b /\ a = d /\ p = q
<1>1. PICK x \in Seq(Nat) : x = Padded(len, p)  BY PaddedType
<1>2. PICK y \in Seq(Nat) : y = Padded(len, q)  BY PaddedType
<1>3. PICK n \in Nat : n = b - a  BY DEF Piece
<1>4. PICK m \in Nat : m = b - d  BY DEF Piece
<1>5. PICK c : c = PieceOf(blocks, a, b)  OBVIOUS
<1>6. PICK e : e = PieceOf(blocks, d, b)  OBVIOUS
<1>7. /\ n = (Len(x) + Rate - 1) \div Rate /\ ChunkedAs(c, n, x)
      /\ m = (Len(y) + Rate - 1) \div Rate /\ ChunkedAs(e, m, y)
  BY <1>1, <1>2, <1>3, <1>4, <1>5, <1>6 DEF Piece
<1>8. Len(x) # 0 /\ Len(y) # 0  BY <1>1, <1>2, PaddedType
<1>9. n # 0
  <2>1. PICK r \in Nat : r = Rate  BY SpongeAssumption
  <2>2. r * 0 = 0  OBVIOUS
  <2>3. Len(x) <= r * n  BY <1>7, <2>1 DEF ChunkedAs
  <2>4. Len(x) \in Nat  OBVIOUS
  <2>5. QED  BY <1>8, <2>2, <2>3, <2>4
<1>10. m # 0
  <2>1. PICK r \in Nat : r = Rate  BY SpongeAssumption
  <2>2. r * 0 = 0  OBVIOUS
  <2>3. Len(y) <= r * m  BY <1>7, <2>1 DEF ChunkedAs
  <2>4. Len(y) \in Nat  OBVIOUS
  <2>5. QED  BY <1>8, <2>2, <2>3, <2>4
<1>11. c[n] = blocks[b]
  <2>1. n \in 1 .. b - a /\ a + n = b  BY <1>3, <1>9
  <2>2. QED  BY <1>5, <2>1 DEF PieceOf
<1>12. e[m] = blocks[b]
  <2>1. m \in 1 .. b - d /\ d + m = b  BY <1>4, <1>10
  <2>2. QED  BY <1>6, <2>1 DEF PieceOf
<1>13. Len(p) = Len(q)
  <2>1. CASE len = {}
    <3>1. x = Append(p, Len(p)) /\ y = Append(q, Len(q))  BY <1>1, <1>2, <2>1 DEF Padded
    <3>2. EndsIn(c[n], Len(p))  BY <1>7, <3>1, LastChunk
    <3>3. EndsIn(e[m], Len(q))  BY <1>7, <3>1, LastChunk
    <3>4. Len(p) \in Nat /\ Len(q) \in Nat  OBVIOUS
    <3>5. QED  BY <1>11, <1>12, <3>2, <3>3, <3>4, EndsOnce
  <2>2. CASE len # {}  BY <2>2 DEF Fits
  <2>3. QED  BY <2>1, <2>2
<1>14. Len(x) = Len(y)
  <2>1. CASE len = {}
    <3>1. Len(x) = Len(p) + 1  BY <1>1, <2>1, PaddedType
    <3>2. Len(y) = Len(q) + 1  BY <1>2, <2>1, PaddedType
    <3>3. QED  BY <1>13, <3>1, <3>2
  <2>2. CASE len # {}
    <3>1. x = p  BY <1>1, <2>2, PaddedType
    <3>2. y = q  BY <1>2, <2>2, PaddedType
    <3>3. QED  BY <1>13, <3>1, <3>2
  <2>3. QED  BY <2>1, <2>2
<1>15. n = m  BY <1>7, <1>14
<1>16. a < b /\ a = d  BY <1>3, <1>4, <1>9, <1>15
<1>17. c = e  BY <1>5, <1>6, <1>16
<1>18. x = y  BY <1>7, <1>14, <1>15, <1>17, ChunksDetermine
<1>19. p = q
  <2>1. CASE len # {}
    <3>1. x = p /\ y = q  BY <1>1, <1>2, <2>1 DEF Padded
    <3>2. QED  BY <1>18, <3>1
  <2>2. CASE len = {}
    <3>1. PICK l \in Nat : l = Len(p)  OBVIOUS
    <3>2. Len(q) = l  BY <1>13, <3>1
    <3>3. x = Append(p, l) /\ y = Append(q, l)
      BY <1>1, <1>2, <2>2, <3>1, <3>2 DEF Padded
    <3>4. ASSUME NEW i \in 1 .. l
          PROVE  p[i] = q[i]
      <4>1. x[i] = p[i]  BY <3>1, <3>3
      <4>2. y[i] = q[i]  BY <3>2, <3>3
      <4>3. QED  BY <1>18, <4>1, <4>2
    <3>5. DOMAIN p = 1 .. l  BY <3>1
    <3>6. DOMAIN q = 1 .. l  BY <3>2
    <3>7. QED  BY <3>4, <3>5, <3>6
  <2>3. QED  BY <2>1, <2>2
<1>20. QED  BY <1>16, <1>19

\* A queue determines its blocks.
LEMMA SameStart ==
    ASSUME NEW q, NEW x \in Seq(Block), NEW y \in Seq(Block), NEW a \in Nat,
           NEW b \in Nat, NEW d \in Nat,
           Piece(x, a, b, q), Piece(y, a, d, q)
    PROVE  a <= b /\ b = d /\ \A k \in a + 1 .. b : x[k] = y[k]
<1>1. a <= b /\ b = d  BY DEF Piece
<1>2. PICK n \in Nat : n = b - a  BY <1>1
<1>3. PICK c : c = PieceOf(x, a, b)  OBVIOUS
<1>4. PICK e : e = PieceOf(y, a, d)  OBVIOUS
<1>5. ChunkedAs(c, n, q) /\ ChunkedAs(e, n, q)  BY <1>1, <1>2, <1>3, <1>4 DEF Piece
<1>6. ASSUME NEW k \in 1 .. n
      PROVE  c[k] = e[k]
  <2>1. PICK u \in Block : u = c[k]  BY <1>5 DEF ChunkedAs
  <2>2. PICK v \in Block : v = e[k]  BY <1>5 DEF ChunkedAs
  <2>3. ASSUME NEW j \in 1 .. Rate
        PROVE  u[j] = v[j]
    <3>1. PICK w : w = IF Rate * (k - 1) + j <= Len(q) THEN q[Rate * (k - 1) + j] ELSE 0
      OBVIOUS
    <3>2. u[j] = w  BY <1>5, <2>1, <3>1 DEF ChunkedAs
    <3>3. v[j] = w  BY <1>5, <2>2, <3>1 DEF ChunkedAs
    <3>4. QED  BY <3>2, <3>3
  <2>4. u = [j \in 1 .. Rate |-> u[j]] /\ v = [j \in 1 .. Rate |-> v[j]]
    BY <2>1, <2>2 DEF Block
  <2>5. [j \in 1 .. Rate |-> u[j]] = [j \in 1 .. Rate |-> v[j]]  BY <2>3
  <2>6. QED  BY <2>1, <2>2, <2>4, <2>5
<1>7. ASSUME NEW k \in a + 1 .. b
      PROVE  x[k] = y[k]
  <2>1. PICK i \in 1 .. n : i = k - a  BY <1>2
  <2>2. i \in 1 .. b - a /\ a + i = k  BY <1>1, <1>2, <2>1
  <2>3. c[i] = x[k] /\ e[i] = y[k]  BY <1>1, <1>3, <1>4, <2>2 DEF PieceOf
  <2>4. QED  BY <1>6, <2>3
<1>8. QED  BY <1>1, <1>7

\* The blocks are the chunks of the padded segments, one segment after the other.
CutAt(cuts, blocks, len, segments) ==
    /\ cuts \in [0 .. Len(segments) -> Nat]
    /\ cuts[0] = 0 /\ cuts[Len(segments)] = Len(blocks)
    /\ \A i \in 1 .. Len(segments) :
          Piece(blocks, cuts[i - 1], cuts[i], Padded(len, segments[i]))

\* Segments a sponge was squeezed after.
Segments(len, segments) ==
    /\ segments \in Seq(Seq(Nat))
    /\ \A i \in 1 .. Len(segments) : Fits(len, segments[i])

\* Read from the last segment on, blocks have one reading.
ReadsBack(s, t, m, n) == m <= n /\ \A d \in 0 .. m - 1 : s[m - d] = t[n - d]

\* The same blocks, cut for two lists of segments, give the same segments from
\* the last one on.
LEMMA BlocksReadBack ==
    ASSUME NEW len, SomeLength(len), NEW s, NEW t, Segments(len, s), Segments(len, t),
           NEW blocks \in Seq(Block), NEW f, NEW g,
           CutAt(f, blocks, len, s), CutAt(g, blocks, len, t)
    PROVE  ReadsBack(s, t, Len(s), Len(t))
<1>1. s \in Seq(Seq(Nat)) /\ t \in Seq(Seq(Nat))  BY DEF Segments
<1>2. PICK m \in Nat : m = Len(s)  BY <1>1
<1>3. PICK n \in Nat : n = Len(t)  BY <1>1
<1>4. PICK l \in Nat : l = Len(blocks)  OBVIOUS
<1>5. /\ f \in [0 .. m -> Nat] /\ f[0] = 0 /\ f[m] = l
      /\ \A i \in 1 .. m : Piece(blocks, f[i - 1], f[i], Padded(len, s[i])) /\ Fits(len, s[i])
      /\ \A i \in 1 .. m : s[i] \in Seq(Nat)
  BY <1>1, <1>2, <1>4 DEF CutAt, Segments
<1>6. /\ g \in [0 .. n -> Nat] /\ g[0] = 0 /\ g[n] = l
      /\ \A i \in 1 .. n : Piece(blocks, g[i - 1], g[i], Padded(len, t[i])) /\ Fits(len, t[i])
      /\ \A i \in 1 .. n : t[i] \in Seq(Nat)
  BY <1>1, <1>3, <1>4 DEF CutAt, Segments
<1> DEFINE Good == {d \in Nat : d <= m => d <= n /\ f[m - d] = g[n - d]
                                           /\ \A e \in 0 .. d - 1 : s[m - e] = t[n - e]}
<1>7. 0 \in Good  BY <1>5, <1>6
<1>8. ASSUME NEW d \in Nat, d \in Good
      PROVE  d + 1 \in Good
  <2>1. SUFFICES ASSUME d + 1 <= m
                 PROVE  d + 1 <= n /\ f[m - (d + 1)] = g[n - (d + 1)]
                        /\ \A e \in 0 .. d : s[m - e] = t[n - e]
    OBVIOUS
  <2>2. d <= n /\ f[m - d] = g[n - d] /\ \A e \in 0 .. d - 1 : s[m - e] = t[n - e]
    BY <1>8, <2>1
  <2>3. PICK i \in 1 .. m : i = m - d  BY <2>1
  <2>4. PICK p \in Seq(Nat) : p = s[i]  BY <1>5
  <2>5. PICK a \in Nat : a = f[i - 1]  BY <1>5
  <2>6. PICK b \in Nat : b = f[i]  BY <1>5
  <2>7. Piece(blocks, a, b, Padded(len, p)) /\ Fits(len, p)  BY <1>5, <2>4, <2>5, <2>6
  <2>8. a < b  BY <2>7, SameEnd
  <2>9. d + 1 <= n
    <3>1. ASSUME d = n
          PROVE  FALSE
      <4>1. n - d = 0  BY <3>1
      <4>2. b = 0  BY <1>6, <2>2, <2>3, <2>6, <4>1
      <4>3. QED  BY <2>8, <4>2
    <3>2. QED  BY <2>2, <3>1
  <2>10. PICK j \in 1 .. n : j = n - d  BY <2>9
  <2>11. PICK q \in Seq(Nat) : q = t[j]  BY <1>6
  <2>12. PICK c \in Nat : c = g[j - 1]  BY <1>6
  <2>13. b = g[j]  BY <2>2, <2>3, <2>6, <2>10
  <2>14. Piece(blocks, c, b, Padded(len, q)) /\ Fits(len, q)  BY <1>6, <2>11, <2>12, <2>13
  <2>15. a = c /\ p = q  BY <2>7, <2>14, SameEnd
  <2>16. m - (d + 1) = i - 1 /\ n - (d + 1) = j - 1  BY <2>3, <2>10
  <2>17. f[m - (d + 1)] = g[n - (d + 1)]  BY <2>5, <2>12, <2>15, <2>16
  <2>18. s[m - d] = t[n - d]  BY <2>3, <2>4, <2>10, <2>11, <2>15
  <2>19. ASSUME NEW e \in 0 .. d
         PROVE  s[m - e] = t[n - e]
    <3>1. CASE e = d  BY <2>18, <3>1
    <3>2. CASE e # d
      <4>1. e \in 0 .. d - 1  BY <3>2
      <4>2. QED  BY <2>2, <4>1
    <3>3. QED  BY <3>1, <3>2
  <2>20. QED  BY <2>9, <2>17, <2>19
<1> HIDE DEF Good
<1>9. Nat \subseteq Good  BY <1>7, <1>8, SetInduction
<1>10. m \in Good  BY <1>9
<1>11. m <= n /\ \A e \in 0 .. m - 1 : s[m - e] = t[n - e]  BY <1>10 DEF Good
<1>12. QED  BY <1>2, <1>3, <1>11 DEF ReadsBack

\* Equal blocks are those of the same segments.
LEMMA BlocksDetermineSegments ==
    ASSUME NEW len, SomeLength(len), NEW s, NEW t, Segments(len, s), Segments(len, t),
           NEW blocks \in Seq(Block), NEW f, NEW g,
           CutAt(f, blocks, len, s), CutAt(g, blocks, len, t)
    PROVE  s = t
<1>1. s \in Seq(Seq(Nat)) /\ t \in Seq(Seq(Nat))  BY DEF Segments
<1>2. PICK m \in Nat : m = Len(s)  BY <1>1
<1>3. PICK n \in Nat : n = Len(t)  BY <1>1
<1>4. ReadsBack(s, t, m, n)  BY <1>2, <1>3, BlocksReadBack
<1>5. ReadsBack(t, s, n, m)  BY <1>2, <1>3, BlocksReadBack
<1>6. m = n  BY <1>4, <1>5 DEF ReadsBack
<1>7. ASSUME NEW i \in 1 .. m
      PROVE  s[i] = t[i]
  <2>1. PICK d \in 0 .. m - 1 : d = m - i  OBVIOUS
  <2>2. m - d = i  BY <2>1
  <2>3. QED  BY <1>4, <1>6, <2>2 DEF ReadsBack
<1>8. DOMAIN s = 1 .. m  BY <1>1, <1>2
<1>9. DOMAIN t = 1 .. m  BY <1>1, <1>3, <1>6
<1>10. QED  BY <1>1, <1>7, <1>8, <1>9

\* The same segments give equal blocks.
LEMMA SegmentsDetermineBlocks ==
    ASSUME NEW len, NEW s, s \in Seq(Seq(Nat)),
           NEW x \in Seq(Block), NEW y \in Seq(Block), NEW f, NEW g,
           CutAt(f, x, len, s), CutAt(g, y, len, s)
    PROVE  x = y
<1>1. PICK m \in Nat : m = Len(s)  OBVIOUS
<1>2. PICK l \in Nat : l = Len(x)  OBVIOUS
<1>3. PICK n \in Nat : n = Len(y)  OBVIOUS
<1>4. /\ f \in [0 .. m -> Nat] /\ f[0] = 0 /\ f[m] = l
      /\ \A i \in 1 .. m : Piece(x, f[i - 1], f[i], Padded(len, s[i]))
  BY <1>1, <1>2 DEF CutAt
<1>5. /\ g \in [0 .. m -> Nat] /\ g[0] = 0 /\ g[m] = n
      /\ \A i \in 1 .. m : Piece(y, g[i - 1], g[i], Padded(len, s[i]))
  BY <1>1, <1>3 DEF CutAt
<1> DEFINE Good == {i \in Nat : i <= m => f[i] = g[i] /\ \A k \in 1 .. f[i] : x[k] = y[k]}
<1>6. 0 \in Good  BY <1>4, <1>5
<1>7. ASSUME NEW h \in Nat, h \in Good
      PROVE  h + 1 \in Good
  <2>1. SUFFICES ASSUME h + 1 <= m
                 PROVE  f[h + 1] = g[h + 1] /\ \A k \in 1 .. f[h + 1] : x[k] = y[k]
    OBVIOUS
  <2>2. f[h] = g[h] /\ \A k \in 1 .. f[h] : x[k] = y[k]  BY <1>7, <2>1
  <2>3. PICK i \in 1 .. m : i = h + 1  BY <2>1
  <2>4. PICK a \in Nat : a = f[h]  BY <1>4, <2>1
  <2>5. PICK b \in Nat : b = f[i]  BY <1>4
  <2>6. PICK d \in Nat : d = g[i]  BY <1>5
  <2>7. i - 1 = h  BY <2>3
  <2>8. PICK q : q = Padded(len, s[i])  OBVIOUS
  <2>9. Piece(x, a, b, q) /\ Piece(y, a, d, q)
    BY <1>4, <1>5, <2>2, <2>4, <2>5, <2>6, <2>7, <2>8
  <2>10. a <= b /\ b = d /\ \A k \in a + 1 .. b : x[k] = y[k]
    BY <2>4, <2>5, <2>6, <2>9, SameStart
  <2>11. ASSUME NEW k \in 1 .. b
         PROVE  x[k] = y[k]
    <3>1. k \in 1 .. a \/ k \in a + 1 .. b  OBVIOUS
    <3>2. QED  BY <2>2, <2>4, <2>10, <3>1
  <2>12. QED  BY <2>3, <2>5, <2>6, <2>10, <2>11
<1> HIDE DEF Good
<1>8. Nat \subseteq Good  BY <1>6, <1>7, SetInduction
<1>9. m \in Good  BY <1>8
<1>10. l = n /\ \A k \in 1 .. l : x[k] = y[k]  BY <1>4, <1>5, <1>9 DEF Good
<1>11. DOMAIN x = 1 .. l /\ DOMAIN y = 1 .. n  BY <1>2, <1>3
<1>12. QED  BY <1>10, <1>11
\* A segment more.
LEMMA CutFurther ==
    ASSUME NEW len, SomeLength(len), NEW s, Segments(len, s), NEW blocks \in Seq(Block),
           NEW f, CutAt(f, blocks, len, s), NEW q \in Seq(Nat), Fits(len, q)
    PROVE  /\ Segments(len, Append(s, q)) /\ blocks \o Chunks(Padded(len, q)) \in Seq(Block)
           /\ \E g : CutAt(g, blocks \o Chunks(Padded(len, q)), len, Append(s, q))
<1>1. PICK m \in Nat : m = Len(s)  BY DEF Segments
<1>2. PICK l \in Nat : l = Len(blocks)  OBVIOUS
<1>3. PICK p \in Seq(Nat) : p = Padded(len, q)  BY PaddedType
<1>4. PICK c : c = Chunks(p)  OBVIOUS
<1>5. PICK n \in Nat : n = (Len(p) + Rate - 1) \div Rate /\ Len(c) = n /\ ChunkedAs(c, n, p)
  BY <1>4, ChunksExact
<1>6. c \in [1 .. n -> Block]  BY <1>5 DEF ChunkedAs
<1>7. c \in Seq(Block)  BY <1>6
<1>8. PICK t : t = Append(s, q)  OBVIOUS
<1>9. /\ t \in Seq(Seq(Nat)) /\ Len(t) = m + 1 /\ t[m + 1] = q
      /\ \A i \in 1 .. m : t[i] = s[i]
  <2>1. s \in Seq(Seq(Nat))  BY DEF Segments
  <2>2. QED  BY <1>1, <1>8, <2>1
<1>10. PICK b : b = blocks \o c  OBVIOUS
<1>11. /\ b \in Seq(Block) /\ Len(b) = l + n
       /\ \A k \in 1 .. l : b[k] = blocks[k]
       /\ \A k \in l + 1 .. l + n : b[k] = c[k - l]
  <2>1. /\ b \in Seq(Block) /\ Len(b) = Len(blocks) + Len(c)
        /\ \A k \in 1 .. Len(blocks) : b[k] = blocks[k]
        /\ \A k \in Len(blocks) + 1 .. Len(blocks) + Len(c) : b[k] = c[k - Len(blocks)]
    BY <1>7, <1>10
  <2>2. QED  BY <1>2, <1>5, <2>1
<1>12. Segments(len, t)
  <2>1. ASSUME NEW i \in 1 .. m + 1
        PROVE  Fits(len, t[i])
    <3>1. CASE i = m + 1  BY <1>9, <3>1
    <3>2. CASE i # m + 1
      <4>1. i \in 1 .. m  BY <3>2
      <4>2. QED  BY <1>1, <1>9, <4>1 DEF Segments
    <3>3. QED  BY <3>1, <3>2
  <2>2. QED  BY <1>9, <2>1 DEF Segments
<1>13. /\ f \in [0 .. m -> Nat] /\ f[0] = 0 /\ f[m] = l
       /\ \A i \in 1 .. m : Piece(blocks, f[i - 1], f[i], Padded(len, s[i]))
  BY <1>1, <1>2 DEF CutAt
<1>14. \A i \in 0 .. m : f[i] <= l
  <2> DEFINE Good == {d \in Nat : d <= m => f[m - d] <= l}
  <2>1. 0 \in Good  BY <1>13
  <2>2. ASSUME NEW d \in Nat, d \in Good
        PROVE  d + 1 \in Good
    <3>1. SUFFICES ASSUME d + 1 <= m
                   PROVE  f[m - (d + 1)] <= l
      OBVIOUS
    <3>2. PICK i \in 1 .. m : i = m - d  BY <3>1
    <3>3. f[i] <= l  BY <2>2, <3>1, <3>2
    <3>4. f[i - 1] <= f[i]  BY <1>13 DEF Piece
    <3>5. f[i - 1] \in Nat /\ f[i] \in Nat  BY <1>13
    <3>6. m - (d + 1) = i - 1  BY <3>2
    <3>7. QED  BY <3>3, <3>4, <3>5, <3>6
  <2> HIDE DEF Good
  <2>3. Nat \subseteq Good  BY <2>1, <2>2, SetInduction
  <2>4. ASSUME NEW i \in 0 .. m
        PROVE  f[i] <= l
    <3>1. m - i \in Good /\ m - i <= m /\ m - (m - i) = i  BY <2>3
    <3>2. QED  BY <3>1 DEF Good
  <2>5. QED  BY <2>4
<1>15. PICK g : g = [i \in 0 .. m + 1 |-> IF i = m + 1 THEN l + n ELSE f[i]]  OBVIOUS
<1>16. g \in [0 .. m + 1 -> Nat] /\ g[m + 1] = l + n /\ \A i \in 0 .. m : g[i] = f[i]
  BY <1>13, <1>15
<1>17. ASSUME NEW i \in 1 .. m
       PROVE  Piece(b, g[i - 1], g[i], Padded(len, t[i]))
  <2>1. PICK x \in Nat : x = f[i - 1]  BY <1>13
  <2>2. PICK y \in Nat : y = f[i]  BY <1>13
  <2>3. Piece(blocks, x, y, Padded(len, s[i]))  BY <1>13, <2>1, <2>2
  <2>4. x <= y /\ y <= l  BY <1>14, <2>2, <2>3 DEF Piece
  <2>5. PieceOf(b, x, y) = PieceOf(blocks, x, y)
    <3>1. \A k \in 1 .. y - x : b[x + k] = blocks[x + k]  BY <1>11, <2>4
    <3>2. QED  BY <3>1 DEF PieceOf
  <2>6. Piece(b, x, y, Padded(len, s[i]))  BY <2>3, <2>5 DEF Piece
  <2>7. g[i - 1] = x /\ g[i] = y  BY <1>16, <2>1, <2>2
  <2>8. QED  BY <1>9, <2>6, <2>7
<1>18. Piece(b, g[m], g[m + 1], Padded(len, t[m + 1]))
  <2>1. PICK z \in Nat : z = l + n  OBVIOUS
  <2>2. z - l = n /\ l <= z  BY <2>1
  <2>3. PieceOf(b, l, z) = c
    <3>1. \A k \in 1 .. n : b[l + k] = c[k]  BY <1>11
    <3>2. PieceOf(b, l, z) = [k \in 1 .. n |-> b[l + k]]  BY <2>2 DEF PieceOf
    <3>3. QED  BY <1>6, <3>1, <3>2
  <2>4. Piece(b, l, z, p)  BY <1>5, <2>2, <2>3 DEF Piece
  <2>5. g[m] = l /\ g[m + 1] = z  BY <1>13, <1>16, <2>1
  <2>6. QED  BY <1>3, <1>9, <2>4, <2>5
<1>19. ASSUME NEW i \in 1 .. m + 1
       PROVE  Piece(b, g[i - 1], g[i], Padded(len, t[i]))
  <2>1. CASE i = m + 1
    <3>1. i - 1 = m  BY <2>1
    <3>2. QED  BY <1>18, <2>1, <3>1
  <2>2. CASE i # m + 1
    <3>1. i \in 1 .. m  BY <2>2
    <3>2. QED  BY <1>17, <3>1
  <2>3. QED  BY <2>1, <2>2
<1>20. CutAt(g, b, len, t)
  <2>1. g[0] = 0  BY <1>13, <1>16
  <2>2. QED  BY <1>9, <1>11, <1>16, <1>19, <2>1 DEF CutAt
<1>21. QED  BY <1>3, <1>4, <1>8, <1>10, <1>11, <1>12, <1>20

-----------------------------------------------------------------------------
(* The two sponges                                                         *)

Sponges ==
    [capacity : InputLens, blocks : Seq(Block), queue : Seq(Nat), position : Nat,
     input_len : InputLens]

Streams == [segments : Seq(Seq(Nat)), open : Seq(Nat), squeezes : Nat, total : Nat]

Outputs == [capacity : InputLens, blocks : Seq(Block), entry : Nat]

\* One side: its blocks are those of what it absorbed before it was squeezed, what
\* it absorbed since is its queue, and what it squeezed last is of its blocks.
SideIs(s, t, out) ==
    /\ s \in Sponges /\ t \in Streams
    /\ s.capacity = s.input_len /\ t.open = s.queue
    /\ s.position > 0 => s.queue = <<>>
    /\ Segments(s.input_len, t.segments)
    /\ \E cuts : CutAt(cuts, s.blocks, s.input_len, t.segments)
    /\ out # Nothing =>
          out \in Outputs /\ out.capacity = s.capacity /\ out.blocks = s.blocks

\* The inductive invariant of the two sponges.
SpongeInv ==
    /\ sponges \in [Sides -> Sponges] /\ streams \in [Sides -> Streams]
    /\ squeezed \in [Sides -> {Nothing} \cup Outputs]
    /\ \A side \in Sides : SideIs(sponges[side], streams[side], squeezed[side])

\* Nothing absorbed, nothing squeezed.
LEMMA SideStarts ==
    ASSUME NEW len \in InputLens
    PROVE  SideIs(NewSponge(len), [segments |-> <<>>, open |-> <<>>, squeezes |-> 0, total |-> 0],
                  Nothing)
<1>1. PICK s : s = NewSponge(len)  OBVIOUS
<1>2. s = [capacity |-> len, blocks |-> <<>>, queue |-> <<>>, position |-> 0, input_len |-> len]
  BY <1>1 DEF NewSponge
<1>3. s \in Sponges  BY <1>2 DEF Sponges
<1>4. PICK t : t = [segments |-> <<>>, open |-> <<>>, squeezes |-> 0, total |-> 0]  OBVIOUS
<1>5. t \in Streams  BY <1>4 DEF Streams
<1>6. Segments(len, <<>>)  BY DEF Segments
<1>7. CutAt([i \in 0 .. 0 |-> 0], <<>>, len, <<>>)  BY DEF CutAt
<1>8. QED  BY <1>1, <1>2, <1>3, <1>4, <1>5, <1>6, <1>7 DEF SideIs

\* Absorbing changes the queue alone.
LEMMA SideAbsorbs ==
    ASSUME NEW s, NEW t, NEW out, SideIs(s, t, out), NEW inputs \in Seq(Nat), NEW u,
           u = [t EXCEPT !.open = @ \o inputs, !.total = @ + Len(inputs)]
    PROVE  SideIs(AbsorbInto(s, inputs), u, out)
<1>1. s \in Sponges /\ t \in Streams  BY DEF SideIs
<1>2. PICK v : v = AbsorbInto(s, inputs)  OBVIOUS
<1>9. s.queue \in Seq(Nat) /\ t.open \in Seq(Nat)  BY <1>1 DEF Sponges, Streams
<1>13. \A a \in Seq(Nat) : a \o inputs \in Seq(Nat)  OBVIOUS
<1>10. PICK q \in Seq(Nat) : q = s.queue \o inputs  BY <1>9, <1>13, Zenon
<1>11. PICK open \in Seq(Nat) : open = t.open \o inputs  BY <1>9, <1>13, Zenon
<1>12. PICK total \in Nat : total = t.total + Len(inputs)  BY <1>1 DEF Streams
<1>3. v = [s EXCEPT !.queue = q, !.position = 0]  BY <1>2, <1>10 DEF AbsorbInto
<1>4. /\ v \in Sponges /\ v.capacity = s.capacity /\ v.blocks = s.blocks
      /\ v.input_len = s.input_len /\ v.queue = q /\ v.position = 0
  BY <1>1, <1>3, <1>10 DEF Sponges
<1>5. u = [t EXCEPT !.open = open, !.total = total]  BY <1>11, <1>12
<1>6. u \in Streams /\ u.segments = t.segments /\ u.open = open
  BY <1>1, <1>5, <1>11, <1>12 DEF Streams
<1>7. open = q  BY <1>10, <1>11 DEF SideIs
<1>8. QED  BY <1>2, <1>4, <1>6, <1>7 DEF SideIs

\* Squeezing closes a segment, or gives the next entry of the same register.
LEMMA SideSqueezes ==
    ASSUME NEW s, NEW t, NEW out, SideIs(s, t, out), SomeLength(s.input_len), ~SqueezePanics(s),
           NEW u, u = [t EXCEPT !.segments = IF Again(s) THEN @ ELSE Append(@, t.open),
                                !.open = <<>>, !.squeezes = @ + 1]
    PROVE  SideIs(SqueezeOf(s), u, Output(s)) /\ Output(s) \in Outputs
<1>1. s \in Sponges /\ t \in Streams  BY DEF SideIs
<1>2. PICK v : v = SqueezeOf(s)  OBVIOUS
<1>3. PICK len \in InputLens : len = s.input_len  BY <1>1 DEF Sponges
<1>4. PICK r \in Nat \ {0} : r = Rate  BY SpongeAssumption
<1>5. s.position \in Nat /\ s.queue \in Seq(Nat) /\ s.blocks \in Seq(Block)  BY <1>1 DEF Sponges
<1>6. PICK o : o = Output(s)  OBVIOUS
<1>7. o = [capacity |-> s.capacity, blocks |-> v.blocks,
           entry |-> IF Again(s) THEN s.position % r ELSE 0]
  BY <1>2, <1>4, <1>6 DEF Output
<1>8. CASE Again(s)
  <2>1. v = [s EXCEPT !.position = (@ + 1) % r]  BY <1>2, <1>4, <1>8 DEF SqueezeOf
  <2>2. s.position > 0  BY <1>8 DEF Again
  <2>3. s.queue = <<>>  BY <2>2 DEF SideIs
  <2>4. (s.position + 1) % r \in Nat /\ s.position % r \in Nat  BY <1>4, <1>5
  <2>5. /\ v \in Sponges /\ v.capacity = s.capacity /\ v.blocks = s.blocks
        /\ v.input_len = s.input_len /\ v.queue = s.queue
    BY <1>1, <2>1, <2>4 DEF Sponges
  <2>10. PICK count \in Nat : count = t.squeezes + 1  BY <1>1 DEF Streams
  <2>11. u = [t EXCEPT !.open = <<>>, !.squeezes = count]  BY <1>1, <1>8, <2>10 DEF Streams
  <2>12. <<>> \in Seq(Nat)  OBVIOUS
  <2>6. u \in Streams /\ u.segments = t.segments /\ u.open = <<>>
    BY <1>1, <2>10, <2>11, <2>12 DEF Streams
  <2>7. o \in Outputs /\ o.capacity = v.capacity /\ o.blocks = v.blocks
    BY <1>1, <1>7, <1>8, <2>4, <2>5 DEF Outputs, Sponges
  <2>8. SideIs(v, u, o)  BY <2>3, <2>5, <2>6, <2>7 DEF SideIs
  <2>9. QED  BY <1>2, <1>6, <2>7, <2>8
<1>9. CASE ~Again(s)
  <2>1. PICK q \in Seq(Nat) : q = s.queue  BY <1>5
  <2>2. Fits(len, q)  BY <1>3, <1>9, <2>1 DEF SqueezePanics, Fits
  <2>3. PaddedQueue(s) = Padded(len, q)  BY <1>3, <2>1 DEF PaddedQueue, Padded
  <2>4. PICK b : b = s.blocks \o Chunks(Padded(len, q))  OBVIOUS
  <2>5. v = [s EXCEPT !.blocks = b, !.queue = <<>>, !.position = 1 % r]
    BY <1>2, <1>4, <1>9, <2>3, <2>4 DEF SqueezeOf
  <2>6. PICK segments : segments = t.segments  OBVIOUS
  <2>7. Segments(len, segments) /\ \E cuts : CutAt(cuts, s.blocks, len, segments)
    BY <1>3, <2>6 DEF SideIs
  <2>8. PICK f : CutAt(f, s.blocks, len, segments)  BY <2>7
  <2>9. /\ Segments(len, Append(segments, q)) /\ b \in Seq(Block)
        /\ \E g : CutAt(g, b, len, Append(segments, q))
    BY <1>3, <1>5, <2>2, <2>4, <2>7, <2>8, CutFurther
  <2>10. 1 % r \in Nat  BY <1>4
  <2>19. PICK next \in Nat : next = 1 % r  BY <2>10
  <2>20. v = [s EXCEPT !.blocks = b, !.queue = <<>>, !.position = next]  BY <2>5, <2>19
  <2>21. b \in Seq(Block) /\ <<>> \in Seq(Nat)  BY <2>9
  <2>11. /\ v \in Sponges /\ v.capacity = s.capacity /\ v.blocks = b
         /\ v.input_len = len /\ v.queue = <<>>
    BY <1>1, <1>3, <2>19, <2>20, <2>21 DEF Sponges
  <2>12. t.open = q  BY <2>1 DEF SideIs
  <2>13. Append(segments, q) \in Seq(Seq(Nat))  BY <2>9 DEF Segments
  <2>22. PICK count \in Nat : count = t.squeezes + 1  BY <1>1 DEF Streams
  <2>23. PICK longer \in Seq(Seq(Nat)) : longer = Append(segments, q)  BY <2>13
  <2>24. u = [t EXCEPT !.segments = longer, !.open = <<>>, !.squeezes = count]
    BY <1>9, <2>6, <2>12, <2>22, <2>23
  <2>14. u \in Streams /\ u.segments = Append(segments, q) /\ u.open = <<>>
    BY <1>1, <2>21, <2>22, <2>23, <2>24 DEF Streams
  <2>15. s.capacity = len /\ s.capacity \in InputLens  BY <1>3 DEF SideIs
  <2>16. o \in Outputs /\ o.capacity = v.capacity /\ o.blocks = v.blocks
    BY <1>7, <1>9, <2>9, <2>11, <2>15 DEF Outputs
  <2>17. SideIs(v, u, o)  BY <2>9, <2>11, <2>14, <2>15, <2>16 DEF SideIs
  <2>18. QED  BY <1>2, <1>6, <2>16, <2>17
<1>10. QED  BY <1>8, <1>9
-----------------------------------------------------------------------------
(* Every run                                                               *)

\* The lengths a sponge may be made for.
LengthsAssumed == \A len \in InputLens : SomeLength(len)

\* The invariant holds at the start.
LEMMA SpongeStarts == SpongeInit => SpongeInv
<1> SUFFICES ASSUME SpongeInit
             PROVE  SpongeInv
  OBVIOUS
<1>1. PICK lens : lens \in [Sides -> InputLens]
                  /\ sponges = [side \in Sides |-> NewSponge(lens[side])]
  BY DEF SpongeInit
<1>2. PICK start : start = [segments |-> <<>>, open |-> <<>>, squeezes |-> 0, total |-> 0]
  OBVIOUS
<1>3. /\ squeezed = [side \in Sides |-> Nothing]
      /\ streams = [side \in Sides |-> start]
  BY <1>2 DEF SpongeInit
<1>4. ASSUME NEW side \in Sides
      PROVE  SideIs(sponges[side], streams[side], squeezed[side])
  <2>1. lens[side] \in InputLens  BY <1>1
  <2>2. SideIs(NewSponge(lens[side]), start, Nothing)  BY <1>2, <2>1, SideStarts
  <2>3. QED  BY <1>1, <1>3, <2>2
<1>5. sponges \in [Sides -> Sponges] /\ streams \in [Sides -> Streams]
  <2>1. \A side \in Sides : sponges[side] \in Sponges /\ streams[side] \in Streams
    BY <1>4 DEF SideIs
  <2>2. QED  BY <1>1, <1>3, <2>1
<1>6. squeezed \in [Sides -> {Nothing} \cup Outputs]  BY <1>3
<1>7. QED  BY <1>4, <1>5, <1>6 DEF SpongeInv

\* One side takes a step, the other stays.
LEMMA OneSide ==
    ASSUME SpongeInv, NEW side \in Sides, NEW s, NEW t, NEW out, SideIs(s, t, out),
           out \in {Nothing} \cup Outputs,
           sponges' = [sponges EXCEPT ![side] = s], streams' = [streams EXCEPT ![side] = t],
           squeezed' = [squeezed EXCEPT ![side] = out]
    PROVE  SpongeInv'
<1>1. s \in Sponges /\ t \in Streams  BY DEF SideIs
<1>2. /\ sponges' \in [Sides -> Sponges] /\ streams' \in [Sides -> Streams]
      /\ squeezed' \in [Sides -> {Nothing} \cup Outputs]
  BY <1>1 DEF SpongeInv
<1>3. ASSUME NEW other \in Sides
      PROVE  SideIs(sponges'[other], streams'[other], squeezed'[other])
  <2>1. CASE other = side
    <3>1. sponges'[other] = s /\ streams'[other] = t /\ squeezed'[other] = out
      BY <2>1 DEF SpongeInv
    <3>2. QED  BY <3>1
  <2>2. CASE other # side
    <3>1. /\ sponges'[other] = sponges[other] /\ streams'[other] = streams[other]
          /\ squeezed'[other] = squeezed[other]
      BY <2>2 DEF SpongeInv
    <3>2. QED  BY <3>1 DEF SpongeInv
  <2>3. QED  BY <2>1, <2>2
<1>4. QED  BY <1>2, <1>3 DEF SpongeInv

\* Every step keeps the invariant.
LEMMA SpongeGoesOn ==
    ASSUME LengthsAssumed, SpongeInv, [SpongeNext]_spongeVars
    PROVE  SpongeInv'
<1>1. ASSUME NEW side \in Sides, NEW inputs \in {<<>>} \cup [1 .. 1 -> SpongeItems],
             Absorb(side, inputs)
      PROVE  SpongeInv'
  <2>1. inputs \in Seq(Nat)
    <3>1. CASE inputs = <<>>  BY <3>1
    <3>2. CASE inputs \in [1 .. 1 -> SpongeItems]
      <4>1. inputs \in [1 .. 1 -> Nat]  BY <3>2, SpongeAssumption
      <4>2. \A n \in Nat : \A x \in [1 .. n -> Nat] : x \in Seq(Nat)  OBVIOUS
      <4>3. 1 \in Nat  OBVIOUS
      <4>4. QED  BY <4>1, <4>2, <4>3, Zenon
    <3>3. QED  BY <3>1, <3>2
  <2>2. PICK s : s = sponges[side]  OBVIOUS
  <2>3. PICK t : t = streams[side]  OBVIOUS
  <2>4. PICK u : u = [t EXCEPT !.open = @ \o inputs, !.total = @ + Len(inputs)]  OBVIOUS
  <2>5. SideIs(s, t, squeezed[side])  BY <2>2, <2>3 DEF SpongeInv
  <2>6. SideIs(AbsorbInto(s, inputs), u, squeezed[side])  BY <2>1, <2>4, <2>5, SideAbsorbs
  <2>7. sponges' = [sponges EXCEPT ![side] = AbsorbInto(s, inputs)]
    BY <1>1, <2>2 DEF Absorb
  <2>8. streams' = [streams EXCEPT ![side] = u]  BY <1>1, <2>3, <2>4 DEF Absorb, SpongeInv
  <2>9. squeezed' = [squeezed EXCEPT ![side] = squeezed[side]]
        /\ squeezed[side] \in {Nothing} \cup Outputs
    BY <1>1 DEF Absorb, SpongeInv
  <2>10. QED  BY <2>6, <2>7, <2>8, <2>9, OneSide
<1>2. ASSUME NEW side \in Sides, Squeeze(side)
      PROVE  SpongeInv'
  <2>1. PICK s : s = sponges[side]  OBVIOUS
  <2>2. PICK t : t = streams[side]  OBVIOUS
  <2>3. PICK u : u = [t EXCEPT !.segments = IF Again(s) THEN @ ELSE Append(@, t.open),
                               !.open = <<>>, !.squeezes = @ + 1]
    OBVIOUS
  <2>4. SideIs(s, t, squeezed[side])  BY <2>1, <2>2 DEF SpongeInv
  <2>5. SomeLength(s.input_len)
    <3>1. s \in Sponges  BY <2>4 DEF SideIs
    <3>2. QED  BY <3>1 DEF Sponges, LengthsAssumed
  <2>6. ~SqueezePanics(s)  BY <1>2, <2>1 DEF Squeeze
  <2>7. SideIs(SqueezeOf(s), u, Output(s)) /\ Output(s) \in Outputs
    BY <2>3, <2>4, <2>5, <2>6, SideSqueezes
  <2>8. sponges' = [sponges EXCEPT ![side] = SqueezeOf(s)]
        /\ squeezed' = [squeezed EXCEPT ![side] = Output(s)]
    BY <1>2, <2>1 DEF Squeeze
  <2>9. streams' = [streams EXCEPT ![side] = u]
    <3>1. streams \in [Sides -> Streams]  BY DEF SpongeInv
    <3>2. PICK x : x = IF Again(s) THEN t.segments ELSE Append(t.segments, t.open)  OBVIOUS
    <3>3. u = [t EXCEPT !.segments = x, !.open = <<>>, !.squeezes = @ + 1]  BY <2>3, <3>2
    <3>4. streams' =
            [streams EXCEPT ![side].segments = x, ![side].open = <<>>, ![side].squeezes = @ + 1]
      BY <1>2, <2>1, <2>2, <3>2 DEF Squeeze
    <3>5. QED  BY <2>2, <3>1, <3>3, <3>4 DEF Streams
  <2>10. QED  BY <2>7, <2>8, <2>9, OneSide
<1>3. ASSUME UNCHANGED spongeVars
      PROVE  SpongeInv'
  BY <1>3 DEF spongeVars, SpongeInv
<1>4. QED  BY <1>1, <1>2, <1>3 DEF SpongeNext

\* The invariant implies the property.
LEMMA InvBinds ==
    ASSUME LengthsAssumed, SpongeInv
    PROVE  SpongeBinds
<1> SUFFICES ASSUME squeezed["cpu"] # Nothing, squeezed["chip"] # Nothing
             PROVE  squeezed["cpu"] = squeezed["chip"] <=>
                        /\ sponges["cpu"].input_len = sponges["chip"].input_len
                        /\ streams["cpu"].segments = streams["chip"].segments
                        /\ squeezed["cpu"].entry = squeezed["chip"].entry
  BY DEF SpongeBinds
<1>1. "cpu" \in Sides /\ "chip" \in Sides  BY DEF Sides
<1>2. PICK x : x = squeezed["cpu"]  OBVIOUS
<1>3. PICK y : y = squeezed["chip"]  OBVIOUS
<1>4. PICK s : s = sponges["cpu"]  OBVIOUS
<1>5. PICK t : t = sponges["chip"]  OBVIOUS
<1>6. PICK a : a = streams["cpu"].segments  OBVIOUS
<1>7. PICK b : b = streams["chip"].segments  OBVIOUS
<1>8. /\ s \in Sponges /\ x \in Outputs /\ x.capacity = s.input_len /\ x.blocks = s.blocks
      /\ Segments(s.input_len, a) /\ \E cuts : CutAt(cuts, s.blocks, s.input_len, a)
  BY <1>1, <1>2, <1>4, <1>6 DEF SpongeInv, SideIs
<1>9. /\ t \in Sponges /\ y \in Outputs /\ y.capacity = t.input_len /\ y.blocks = t.blocks
      /\ Segments(t.input_len, b) /\ \E cuts : CutAt(cuts, t.blocks, t.input_len, b)
  BY <1>1, <1>3, <1>5, <1>7 DEF SpongeInv, SideIs
<1>10. PICK f : CutAt(f, s.blocks, s.input_len, a)  BY <1>8
<1>11. PICK g : CutAt(g, t.blocks, t.input_len, b)  BY <1>9
<1>12. s.blocks \in Seq(Block) /\ t.blocks \in Seq(Block)  BY <1>8, <1>9 DEF Sponges
<1>13. SomeLength(s.input_len)  BY <1>8 DEF Sponges, LengthsAssumed
<1>14. a \in Seq(Seq(Nat))  BY <1>8 DEF Segments
<1>15. ASSUME x = y
       PROVE  s.input_len = t.input_len /\ a = b /\ x.entry = y.entry
  <2>1. s.input_len = t.input_len /\ s.blocks = t.blocks  BY <1>8, <1>9, <1>15
  <2>2. CutAt(g, s.blocks, s.input_len, b) /\ Segments(s.input_len, b)  BY <1>9, <1>11, <2>1
  <2>3. a = b  BY <1>8, <1>10, <1>12, <1>13, <2>2, BlocksDetermineSegments
  <2>4. QED  BY <1>15, <2>1, <2>3
<1>16. ASSUME s.input_len = t.input_len, a = b, x.entry = y.entry
       PROVE  x = y
  <2>1. CutAt(g, t.blocks, s.input_len, a)  BY <1>11, <1>16
  <2>2. s.blocks = t.blocks  BY <1>10, <1>12, <1>14, <2>1, SegmentsDetermineBlocks
  <2>3. x.capacity = y.capacity /\ x.blocks = y.blocks  BY <1>8, <1>9, <1>16, <2>2
  <2>4. QED  BY <1>8, <1>9, <1>16, <2>3 DEF Outputs
<1>17. QED  BY <1>2, <1>3, <1>4, <1>5, <1>6, <1>7, <1>15, <1>16

\* A challenge stands for one list of segments: two sponges of any rate, after any
\* number of calls of absorb and squeeze, give the same entry of the same register
\* exactly when they were made for the same length and absorbed the same elements
\* between the same squeezes.  Without a length the padding is what tells the
\* segments apart; with a length of zero it would be missing altogether, so the
\* lengths are assumed to be positive.
THEOREM SpongeTheorem ==
    ASSUME LengthsAssumed
    PROVE  SpongeSpec => []SpongeBinds
<1>1. SpongeInv /\ [SpongeNext]_spongeVars => SpongeInv'  BY SpongeGoesOn
<1>2. SpongeInv => SpongeBinds  BY InvBinds
<1>3. QED  BY SpongeStarts, <1>1, <1>2, PTL DEF SpongeSpec

-----------------------------------------------------------------------------
(* Accumulators and reachable states                                       *)

\* An accumulation holds exactly when both of its parts do.
LEMMA AccumulateHolds ==
    ASSUME NEW first, NEW second
    PROVE  Holds(Accumulate(first, second)) <=> Holds(first) /\ Holds(second)
<1>1. CASE IsIdentity(first) /\ IsIdentity(second)
  BY <1>1 DEF Accumulate, Holds, IsIdentity, TrivialAcc, ScaledByZero, Failing
<1>2. CASE ~(IsIdentity(first) /\ IsIdentity(second)) /\ Holds(first) /\ Holds(second)
  BY <1>2 DEF Accumulate, Holds, Failing
<1>3. CASE ~(IsIdentity(first) /\ IsIdentity(second)) /\ ~(Holds(first) /\ Holds(second))
  BY <1>3 DEF Accumulate, Holds, Failing
<1>4. QED  BY <1>1, <1>2, <1>3

\* What prepare gives for a proof holds exactly when the proof is valid for the
\* instance, and is not the identity.
LEMMA PrepareHolds ==
    ASSUME NEW n \in Nat, NEW hash, NEW state, NEW acc, Holds(Prepare(n, hash, state, acc))
    PROVE  /\ n # 0
           /\ made[n] = [hash |-> hash, state |-> state, acc |-> acc, valid |-> TRUE]
           /\ Prepare(n, hash, state, acc) = ProofAcc(n)
BY DEF Prepare, Holds

\* What a proof that was made is accumulated to.
LEMMA ProofAccHolds ==
    ASSUME NEW n \in Nat
    PROVE  Holds(ProofAcc(n)) /\ ~IsIdentity(ProofAcc(n))
BY DEF ProofAcc, Holds, Failing, IsIdentity, TrivialAcc, ScaledByZero

\* A transition leads from a state to a state.
LEMMA TransitionType ==
    ASSUME NEW st \in IvcStates, NEW w \in Witnesses
    PROVE  NextState(st, w) \in IvcStates
BY IvcAssumption DEF NextState

\* The successors of genesis and of reached states are reached.
LEMMA ReachedClosed == ClosedUnderSteps(Reached)
<1>1. ASSUME NEW w \in Witnesses
      PROVE  NextState(Genesis, w) \in Reached
  BY TransitionType, IvcAssumption DEF Reached, ClosedUnderSteps
<1>2. ASSUME NEW st \in Reached, NEW w \in Witnesses
      PROVE  NextState(st, w) \in Reached
  <2>1. st \in IvcStates  BY DEF Reached
  <2>2. NextState(st, w) \in IvcStates  BY <2>1, TransitionType
  <2>3. ASSUME NEW states \in SUBSET IvcStates, ClosedUnderSteps(states)
        PROVE  NextState(st, w) \in states
    <3>1. st \in states  BY <2>3 DEF Reached
    <3>2. QED  BY <2>3, <3>1 DEF ClosedUnderSteps
  <2>4. QED  BY <2>2, <2>3 DEF Reached
<1>3. QED  BY <1>1, <1>2 DEF ClosedUnderSteps

-----------------------------------------------------------------------------
(* The invariant                                                           *)

\* The prover's state is one of the machine's, and his proof has been made or
\* is the empty one.
ProverTyped == prover.state \in IvcStates /\ prover.proof \in 0 .. Len(made)

MadeTyped == made \in Seq({made[n] : n \in DOMAIN made})

\* A valid proof whose accumulator holds stands for a chain from genesis.
ChainsHold ==
    \A n \in DOMAIN made : made[n].valid /\ Holds(made[n].acc) => made[n].state \in Reached

IvcInv == ProverTyped /\ MadeTyped /\ ChainsHold

\* A circuit whose accumulator holds is one whose previous state is genesis, or
\* was reached: its successors are.
LEMMA CircuitSound ==
    ASSUME IvcInv, NEW state \in IvcStates, NEW acc, NEW n \in 0 .. Len(made),
           NEW w \in Witnesses, Holds(CircuitAcc(state, acc, n))
    PROVE  NextState(state, w) \in Reached
<1>1. CASE state = Genesis
  BY <1>1, ReachedClosed DEF ClosedUnderSteps
<1>2. CASE state # Genesis
  <2>1. Holds(Prepare(n, "Poseidon", state, acc)) /\ Holds(acc)
    BY <1>2, AccumulateHolds DEF CircuitAcc, IsGenesis
  <2>2. n # 0 /\ made[n] = [hash |-> "Poseidon", state |-> state, acc |-> acc, valid |-> TRUE]
    BY <2>1, PrepareHolds
  <2>3. n \in DOMAIN made
    BY <2>2 DEF IvcInv, MadeTyped
  <2>4. state \in Reached
    BY <2>1, <2>2, <2>3 DEF IvcInv, ChainsHold
  <2>5. QED  BY <2>4, ReachedClosed DEF ClosedUnderSteps
<1>3. QED  BY <1>1, <1>2

\* Another proof in the list leaves the earlier ones where they are.
LEMMA AppendMade ==
    ASSUME MadeTyped, NEW p, made' = Append(made, p)
    PROVE  /\ Len(made') = Len(made) + 1
           /\ DOMAIN made' = 1 .. Len(made) + 1
           /\ \A n \in 1 .. Len(made) : made'[n] = made[n]
           /\ made'[Len(made) + 1] = p
           /\ MadeTyped'
<1> DEFINE S == {made[n] : n \in DOMAIN made}
<1>1. made \in Seq(S \cup {p})
  BY DEF MadeTyped
<1>2. /\ Len(made') = Len(made) + 1
      /\ DOMAIN made' = 1 .. Len(made) + 1
      /\ \A n \in 1 .. Len(made) : made'[n] = made[n]
      /\ made'[Len(made) + 1] = p
      /\ made' \in Seq(S \cup {p})
  BY <1>1
<1>3. made' \in Seq({made'[n] : n \in DOMAIN made'})
  BY <1>2
<1>4. QED  BY <1>2, <1>3 DEF MadeTyped

\* A proof that is valid only for what its circuit computes keeps the chains.
LEMMA ChainsKept ==
    ASSUME IvcInv, NEW hash, NEW state \in IvcStates, NEW acc, NEW n \in 0 .. Len(made),
           NEW w \in Witnesses, NEW public, NEW valid,
           valid => public = CircuitAcc(state, acc, n),
           made' = Append(made, Proof(hash, NextState(state, w), public, valid))
    PROVE  MadeTyped' /\ ChainsHold' /\ Len(made') = Len(made) + 1
<1> DEFINE new == Proof(hash, NextState(state, w), public, valid)
<1>1. /\ Len(made') = Len(made) + 1
      /\ DOMAIN made' = 1 .. Len(made) + 1
      /\ \A k \in 1 .. Len(made) : made'[k] = made[k]
      /\ made'[Len(made) + 1] = new
      /\ MadeTyped'
  BY AppendMade DEF IvcInv
<1>2. DOMAIN made = 1 .. Len(made) /\ Len(made) \in Nat
  BY DEF IvcInv, MadeTyped
<1>3. new.valid = valid /\ new.acc = public /\ new.state = NextState(state, w)
  BY DEF Proof
<1>4. valid /\ Holds(public) => NextState(state, w) \in Reached
  BY CircuitSound
<1>5. ASSUME NEW k \in DOMAIN made', made'[k].valid, Holds(made'[k].acc)
      PROVE  made'[k].state \in Reached
  <2>1. CASE k = Len(made) + 1
    BY <1>1, <1>3, <1>4, <1>5, <2>1
  <2>2. CASE k \in 1 .. Len(made)
    BY <1>1, <1>2, <1>5, <2>2 DEF IvcInv, ChainsHold
  <2>3. QED  BY <1>1, <1>2, <2>1, <2>2
<1>6. ChainsHold'
  BY <1>5 DEF ChainsHold, Holds, Failing, Reached
<1>7. QED  BY <1>1, <1>6

\* The invariant holds at the start.
LEMMA IvcInvInit == IvcInit => IvcInv
BY IvcAssumption DEF IvcInit, IvcInv, ProverTyped, MadeTyped, ChainsHold

\* Every step keeps the invariant.
LEMMA IvcInvStep == IvcInv /\ [IvcNext]_ivcVars => IvcInv'
<1> SUFFICES ASSUME IvcInv, [IvcNext]_ivcVars
             PROVE  IvcInv'
  OBVIOUS
<1>0. Len(made) \in Nat /\ prover.state \in IvcStates /\ prover.proof \in 0 .. Len(made)
  BY DEF IvcInv, MadeTyped, ProverTyped
<1>1. ASSUME NEW w \in Witnesses, NEW hash \in {"Poseidon", "Keccak"}, ProveStep(w, hash)
      PROVE  IvcInv'
  <2> DEFINE acc == NextAcc(prover)
             valid == CircuitAcc(prover.state, prover.acc, prover.proof) = acc
  <2>1. made' = Append(made, Proof(hash, NextState(prover.state, w), acc, valid))
    BY <1>1 DEF ProveStep
  <2>2. MadeTyped' /\ ChainsHold' /\ Len(made') = Len(made) + 1
    <3> HIDE DEF acc
    <3>1. valid => acc = CircuitAcc(prover.state, prover.acc, prover.proof)  OBVIOUS
    <3> HIDE DEF valid
    <3>2. QED  BY <1>0, <2>1, <3>1, ChainsKept
  <2>3. prover'.state = NextState(prover.state, w) /\ prover'.proof = Len(made')
    BY <1>1 DEF ProveStep
  <2>4. ProverTyped'
    BY <1>0, <2>2, <2>3, TransitionType DEF ProverTyped
  <2>5. QED  BY <2>2, <2>4 DEF IvcInv
<1>2. ASSUME NEW state \in IvcStates, NEW n \in 0 .. Len(made), NEW acc \in KnownAccs,
             ResumeFrom(state, n, acc)
      PROVE  IvcInv'
  BY <1>2 DEF ResumeFrom, IvcInv, ProverTyped, MadeTyped, ChainsHold
<1>3. ASSUME NEW state \in IvcStates, NEW acc \in KnownAccs, NEW n \in 0 .. Len(made),
             NEW w \in Witnesses, ProveElsewhere(state, acc, n, w)
      PROVE  IvcInv'
  <2>1. made' = Append(made, Proof("Poseidon", NextState(state, w), CircuitAcc(state, acc, n),
                                   TRUE))
    BY <1>3 DEF ProveElsewhere
  <2>2. MadeTyped' /\ ChainsHold' /\ Len(made') = Len(made) + 1
    BY <2>1, ChainsKept
  <2>3. ProverTyped'
    BY <1>0, <1>3, <2>2 DEF ProveElsewhere, ProverTyped
  <2>4. QED  BY <2>2, <2>3 DEF IvcInv
<1>4. CASE UNCHANGED ivcVars
  BY <1>4 DEF ivcVars, IvcInv, ProverTyped, MadeTyped, ChainsHold
<1>5. QED  BY <1>1, <1>2, <1>3, <1>4 DEF IvcNext

\* In every behaviour the proofs that hold stand for chains from genesis.
LEMMA IvcInvariance == IvcSpec => []IvcInv
BY IvcInvInit, IvcInvStep, PTL DEF IvcSpec

-----------------------------------------------------------------------------
(* Theorems                                                                *)

\* An instance that verify or verify_final accepts is the end of a chain of
\* transitions from genesis, whoever made the proofs, whatever was resumed
\* from and however the chain goes back to genesis.
THEOREM AcceptedIsReachedTheorem == IvcSpec => []AcceptedIsReached
<1>1. IvcInv => AcceptedIsReached
  <2> SUFFICES ASSUME IvcInv, NEW n \in DOMAIN made,
                      Verify(n, made[n].hash, made[n].state, made[n].acc)
               PROVE  made[n].state \in Reached
    BY DEF AcceptedIsReached
  <2>1. n \in Nat
    BY DEF IvcInv, MadeTyped
  <2>2. Holds(Prepare(n, made[n].hash, made[n].state, made[n].acc)) /\ Holds(made[n].acc)
    BY AccumulateHolds DEF Verify
  <2>3. made[n].valid
    <3>1. PICK hash, state, acc :
             hash = made[n].hash /\ state = made[n].state /\ acc = made[n].acc
      OBVIOUS
    <3>2. Holds(Prepare(n, hash, state, acc))
      BY <2>2, <3>1
    <3>3. made[n] = [hash |-> hash, state |-> state, acc |-> acc, valid |-> TRUE]
      BY <2>1, <3>2, PrepareHolds
    <3>4. QED  BY <3>3
  <2>4. QED  BY <2>2, <2>3 DEF IvcInv, ChainsHold
<1>2. QED  BY <1>1, IvcInvariance, PTL

\* A step that a prover at genesis, or with a proof a verifier accepts, takes
\* without an error gives a proof that verifiers accept again, unless the chain
\* has come back to genesis.
THEOREM StepsStayAcceptedTheorem == IvcSpec => StepsStayAccepted
<1> DEFINE Promised ==
      (/\ AtGenesis(prover) \/ Accepted(prover)
       /\ Len(made') > Len(made) /\ prover'.proof = Len(made')
       /\ (prover.state = Genesis => prover.proof = 0)) => Accepted(prover)'
<1>1. IvcInv /\ [IvcNext]_ivcVars => Promised
  <2> SUFFICES ASSUME IvcInv, [IvcNext]_ivcVars,
                      AtGenesis(prover) \/ Accepted(prover),
                      Len(made') > Len(made), prover'.proof = Len(made'),
                      prover.state = Genesis => prover.proof = 0
               PROVE  Accepted(prover)'
    OBVIOUS
  <2>0. Len(made) \in Nat /\ prover.proof \in 0 .. Len(made)
    BY DEF IvcInv, MadeTyped, ProverTyped
  <2>1. ASSUME NEW w \in Witnesses, NEW hash \in {"Poseidon", "Keccak"}, ProveStep(w, hash)
        PROVE  Accepted(prover)'
    <3> DEFINE acc == NextAcc(prover)
    <3>0. PICK n \in Nat : n = Len(made) + 1
      BY <2>0
    <3>1. CircuitAcc(prover.state, prover.acc, prover.proof) = acc /\ Holds(acc)
      <4>1. CASE prover.proof = 0
        <5>1. AtGenesis(prover)
          BY <4>1 DEF Accepted
        <5>2. acc = TrivialAcc
          BY <5>1 DEF AtGenesis, NextAcc, Accumulate, IsIdentity
        <5>3. CircuitAcc(prover.state, prover.acc, prover.proof) = TrivialAcc
          BY <5>1 DEF AtGenesis, CircuitAcc, IsGenesis, Accumulate, IsIdentity
        <5>4. QED  BY <5>2, <5>3 DEF Holds, TrivialAcc, Failing
      <4>2. CASE prover.proof # 0
        <5>1. Prepare(prover.proof, "Poseidon", prover.state, prover.acc) = ProofAcc(prover.proof)
          BY <2>1, <4>2 DEF ProveStep, PreviousRefused, Prepare
        <5>2. prover.state # Genesis
          BY <4>2
        <5>3. acc = Accumulate(ProofAcc(prover.proof), prover.acc)
          BY <4>2 DEF NextAcc
        <5>4. CircuitAcc(prover.state, prover.acc, prover.proof) = acc
          BY <5>1, <5>2, <5>3 DEF CircuitAcc, IsGenesis
        <5>5. Holds(prover.acc)
          <6>1. Accepted(prover)
            BY <4>2 DEF AtGenesis
          <6>2. QED  BY <6>1, AccumulateHolds DEF Accepted
        <5>6. Holds(acc)
          BY <2>0, <4>2, <5>3, <5>5, AccumulateHolds, ProofAccHolds
        <5>7. QED  BY <5>4, <5>6
      <4>3. QED  BY <4>1, <4>2
    <3>2. made' = Append(made, Proof(hash, NextState(prover.state, w), acc, TRUE))
      BY <2>1, <3>1 DEF ProveStep
    <3>3. made'[n] = Proof(hash, NextState(prover.state, w), acc, TRUE) /\ Len(made') = n
      BY <3>0, <3>2, AppendMade DEF IvcInv
    <3>4. prover' = [state |-> NextState(prover.state, w), proof |-> n, acc |-> acc]
      BY <2>1, <3>3 DEF ProveStep
    <3> HIDE DEF acc
    <3>5. prover'.state = NextState(prover.state, w) /\ prover'.proof = n /\ prover'.acc = acc
      BY <3>4
    <3>6. made'[n] = [hash |-> hash, state |-> prover'.state, acc |-> prover'.acc, valid |-> TRUE]
      BY <3>3, <3>5 DEF Proof
    <3>7. n # 0
      BY <2>0, <3>0
    <3>8. made'[n].hash = hash
      BY <3>6
    <3>9. Prepare(n, made[n].hash, prover.state, prover.acc)' = ProofAcc(n)
      BY <3>6, <3>7, <3>8 DEF Prepare
    <3>10. Holds(Accumulate(ProofAcc(n), prover'.acc))
      BY <3>1, <3>5, <3>7, AccumulateHolds, ProofAccHolds
    <3>11. QED  BY <3>5, <3>7, <3>9, <3>10 DEF Accepted, Prepare
  <2>2. ASSUME NEW state \in IvcStates, NEW n \in 0 .. Len(made), NEW acc \in KnownAccs,
               ResumeFrom(state, n, acc)
        PROVE  FALSE
    BY <2>0, <2>2 DEF ResumeFrom
  <2>3. ASSUME NEW state \in IvcStates, NEW acc \in KnownAccs, NEW n \in 0 .. Len(made),
               NEW w \in Witnesses, ProveElsewhere(state, acc, n, w)
        PROVE  FALSE
    BY <2>0, <2>3 DEF ProveElsewhere
  <2>4. CASE UNCHANGED ivcVars
    BY <2>0, <2>4 DEF ivcVars
  <2>5. QED  BY <2>1, <2>2, <2>3, <2>4 DEF IvcNext
<1>2. QED  BY <1>1, IvcInvariance, PTL DEF IvcSpec, StepsStayAccepted

==============================================================================
