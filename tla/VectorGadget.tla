---------------------------- MODULE VectorGadget ----------------------------
(***************************************************************************)
(* Vectors of variable length (circuits/src/vec).  The payload lies in a   *)
(* buffer of fixed size, starts at a multiple of the chunk size and ends   *)
(* in the last chunk; the rest of the buffer is the prover's choice.  The  *)
(* native instructions are the exact ones of NativeInstructions.           *)
(***************************************************************************)
EXTENDS Integers, Sequences, FiniteSets

CONSTANTS
    VecMax,        \* M, the size of the buffer
    VecResized,    \* L, the size it is changed to
    VecChunk,      \* A, the size of a chunk
    LenCells,      \* the cells of SHA-256's length, 8 bytes in the code
    Items          \* the elements; the filler is among them

ASSUME VectorAssumption ==
    /\ VecChunk \in Nat \ {0} /\ VecMax % VecChunk = 0 /\ VecResized % VecChunk = 0
    /\ LenCells \in 1 .. VecChunk - 1
    /\ VecMax > 0 /\ VecResized > VecMax /\ 0 \in Items

VARIABLES
    buffer,        \* the cells of the buffer
    len,           \* the cell of the length
    content        \* the elements the caller has left

vecVars == <<buffer, len, content>>

Filler == 0

\* The 0x80 behind the data of SHA-256, and the length in the last cells.
Marker == 128
LengthCells(n) == [j \in 1 .. LenCells |-> IF j = LenCells THEN 1000 + n ELSE 0]

-----------------------------------------------------------------------------
(* The payload                                                             *)

EndPad(n) == (VecChunk - (n % VecChunk)) % VecChunk

\* get_lims and InnerValue::value, with positions from 1.
Payload(cells, n) ==
    SubSeq(cells, Len(cells) - n - EndPad(n) + 1, Len(cells) - EndPad(n))

\* get_limits: the first position of the payload and the first one after it,
\* from 0.
GetLimits(cells, n) ==
    LET offset == n % VecChunk
        end == offset + Len(cells) - VecChunk + (IF offset = 0 THEN VecChunk ELSE 0)
    IN <<end - n, end>>

\* padding_flag: a flag that is flipped where the payload starts, if that is
\* before the last chunk, and where it ends, if that is within it.
PaddingFlag(cells, n) ==
    LET lims == GetLimits(cells, n)
        flips(i) == IF i < Len(cells) - VecChunk THEN i = lims[1] ELSE i = lims[2]
    IN [k \in DOMAIN cells |-> Cardinality({i \in 0 .. k - 1 : flips(i)}) % 2 = 0]

-----------------------------------------------------------------------------
(* Operations                                                              *)

VectorInit == buffer = <<>> /\ len = 0 /\ content = <<>>

Assigned == buffer # <<>>

\* assign_with_filler constrains nothing but the length.
AssignVector(cells, n) ==
    /\ ~Assigned
    /\ buffer' = cells /\ len' = n
    /\ content' = Payload(cells, n)

\* resize: more filler in front, assigned like any other cells.
Resize(extra) ==
    /\ Assigned /\ Len(buffer) = VecMax
    /\ buffer' = extra \o buffer
    /\ UNCHANGED <<len, content>>

\* The buffer of trim_beginning: whole chunks are left where they are, the rest
\* moves the buffer to the left, and back by a chunk if the payload would end
\* before the last chunk.
Trimmed(cells, n, count) ==
    LET last == count % VecChunk
        lastLen == n % VecChunk
        needsAdjust == (lastLen = 0) # (lastLen <= last)
        moved == [i \in 1 .. VecChunk |-> Filler] \o SubSeq(cells, last + 1, Len(cells))
                 \o [i \in 1 .. last |-> Filler]
    IN [i \in DOMAIN cells |-> IF needsAdjust THEN moved[i] ELSE moved[VecChunk + i]]

\* Unsatisfiable for a vector with fewer elements.
TrimBeginning(count) ==
    /\ Assigned /\ len >= count
    /\ buffer' = Trimmed(buffer, len, count) /\ len' = len - count
    /\ content' = SubSeq(content, count + 1, Len(content))

Words(n) == [1 .. n -> Items]

VectorNext ==
    \/ \E cells \in [1 .. VecMax -> Items], n \in 0 .. VecMax : AssignVector(cells, n)
    \/ \E extra \in [1 .. VecResized - VecMax -> Items] : Resize(extra)
    \/ \E count \in 0 .. VecMax : TrimBeginning(count)

VectorSpec == VectorInit /\ [][VectorNext]_vecVars

-----------------------------------------------------------------------------
(* Equality                                                                *)

\* is_equal with a vector of the same size.
IsEqualVector(x, xlen, y, ylen) ==
    /\ xlen = ylen
    /\ LET padding == PaddingFlag(x, xlen) IN \A k \in DOMAIN x : padding[k] \/ x[k] = y[k]

\* is_equal_to_fixed: the cells where the constant would lie, and the length.
IsEqualToFixedVector(x, xlen, c) == Payload(x, Len(c)) = c /\ xlen = Len(c)

-----------------------------------------------------------------------------
(* Hashes.  A digest is the list of blocks that are permuted or compressed. *)

\* constrain_last_chunk: zero from the offset on; offset 0 is a full chunk.
ConstrainLastChunk(chunk, offset) ==
    [j \in DOMAIN chunk |-> IF offset # 0 /\ j > offset THEN 0 ELSE chunk[j]]

\* The blocks poseidon_varlen permutes, in a register that starts with the
\* length: chunks are skipped until the rounded length is what is left.  The
\* last chunk is to be constrained at an index the loop does not reach.
VarHash(cells, n) ==
    LET offset == n % VecChunk
        rounded == n + EndPad(n)
        chunk(k) == SubSeq(cells, k * VecChunk + 1, (k + 1) * VecChunk)
        first == (Len(cells) - rounded) \div VecChunk
    IN [capacity |-> n,
        blocks |-> [b \in 1 .. rounded \div VecChunk |->
            LET k == first + b - 1
            IN IF k = Len(cells) \div VecChunk THEN ConstrainLastChunk(chunk(k), offset) ELSE chunk(k)]]

\* The blocks of the sponge with a fixed input length, outside the circuit.
HashCPU(w) ==
    [capacity |-> Len(w),
     blocks |-> [b \in 1 .. (Len(w) + EndPad(Len(w))) \div VecChunk |->
         [j \in 1 .. VecChunk |->
             LET at == (b - 1) * VecChunk + j IN IF at <= Len(w) THEN w[at] ELSE 0]]]

\* final_block_len: between 1 and a block, 0 for no data at all.
FinalBlockLen(n) == IF n % VecChunk = 0 /\ n # 0 THEN VecChunk ELSE n % VecChunk

ExtraBlock(n) == FinalBlockLen(n) >= VecChunk - LenCells

MergeChunks(chunk1, chunk2, k) == [j \in DOMAIN chunk1 |-> IF j <= k THEN chunk1[j] ELSE chunk2[j]]

Zeros(n) == [j \in 1 .. n |-> 0]

\* Bug: the marker is placed in the extra block whenever there is one.
MarkerAtInExtra(n) == FinalBlockLen(n) + (IF ExtraBlock(n) THEN 0 ELSE VecChunk) - (IF FinalBlockLen(n) = VecChunk THEN 1 ELSE 0)

\* Where in the last two blocks the 0x80 goes, from 0.
MarkerAt(n) == FinalBlockLen(n) + (IF ExtraBlock(n) THEN 0 ELSE VecChunk)

\* compute_padding: the last two blocks, of which the first counts only when the
\* length does not fit behind the data.
ComputePadding(n, finalChunk) ==
    LET data == VecChunk - LenCells
        block1 == MergeChunks(finalChunk, Zeros(VecChunk), FinalBlockLen(n))
        block2 == MergeChunks(SubSeq(finalChunk, 1, data), Zeros(data),
                              IF ExtraBlock(n) THEN 0 ELSE FinalBlockLen(n))
        blocks == block1 \o block2 \o LengthCells(n)
    IN [blocks EXCEPT ![MarkerAt(n) + 1] =
           IF MarkerAt(n) \in data .. data + VecChunk - 1 THEN Marker ELSE @]

\* sha256_varlen.
VarSha(cells, n) ==
    LET rounded == IF FinalBlockLen(n) = 0 THEN n ELSE n - FinalBlockLen(n) + VecChunk
        all == Len(cells) \div VecChunk
        chunk(k) == SubSeq(cells, k * VecChunk + 1, (k + 1) * VecChunk)
        last == ComputePadding(n, chunk(all - 1))
    IN [b \in 1 .. (IF rounded = 0 THEN 0 ELSE (rounded \div VecChunk) - 1) |-> chunk(all - (rounded \div VecChunk) + b - 1)]
       \o (IF ExtraBlock(n) THEN <<SubSeq(last, 1, VecChunk)>> ELSE <<>>)
       \o <<SubSeq(last, VecChunk + 1, 2 * VecChunk)>>

\* Sha256Chip::pad on the data itself.
Sha(w) ==
    LET gap == (VecChunk - ((Len(w) + 1 + LenCells) % VecChunk)) % VecChunk
        padded == w \o <<Marker>> \o Zeros(gap) \o LengthCells(Len(w))
    IN [b \in 1 .. Len(padded) \div VecChunk |-> SubSeq(padded, (b - 1) * VecChunk + 1, b * VecChunk)]

-----------------------------------------------------------------------------
(* Properties                                                              *)

\* Trimming and resizing, in any order and whatever the filler, leave exactly
\* the elements that were not trimmed between the limits the length implies.
ContentKept == Assigned => len = Len(content) /\ Payload(buffer, len) = content

\* A vector of the buffer's size with the filler around the payload.
Padded(w) == Zeros(Len(buffer) - Len(w) - EndPad(Len(w))) \o w \o Zeros(EndPad(Len(w)))

\* Whatever is left in the rest of the buffer, and for every length, also of the
\* empty vector and the full one: the limits enclose the payload; it equals a
\* constant exactly when all elements do; it equals another vector likewise,
\* unless both lie in the last chunk alone (see PaddingFlagged).
AnswersExact ==
    Assigned =>
        /\ LET lims == GetLimits(buffer, len) IN SubSeq(buffer, lims[1] + 1, lims[2]) = content
        /\ \A n \in {len - 1, len, len + 1} \cap (0 .. VecMax) : \A w \in Words(n) :
              /\ IsEqualToFixedVector(buffer, len, w) <=> content = w
              /\ (n = len => len \notin 1 .. VecChunk) =>
                    (IsEqualVector(buffer, len, Padded(w), n) <=> content = w)

\* SHA-256 of a vector is that of its payload: the data, the marker and the
\* length fall into the same blocks, at the lengths where the length just fits
\* behind the data, just does not, and where the last block is full or empty.
VarShaExact == Assigned => VarSha(buffer, len) = Sha(content)

\* A vector in its buffer is, to every operation, its payload.
VectorsExact == ContentKept /\ AnswersExact /\ VarShaExact

\* The flags of padding_flag tell the padding from the payload.
PaddingFlagged ==
    Assigned =>
        PaddingFlag(buffer, len) =
            [k \in DOMAIN buffer |->
                LET lims == GetLimits(buffer, len) IN k - 1 \notin lims[1] .. lims[2] - 1]

\* Poseidon of a vector is that of its payload.
VarHashExact == Assigned => VarHash(buffer, len) = HashCPU(content)
=============================================================================
