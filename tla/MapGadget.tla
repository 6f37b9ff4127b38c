------------------------------ MODULE MapGadget ------------------------------
(***************************************************************************)
(* The key-value map over a Merkle tree (circuits/src/map): MapMt keeps    *)
(* the nodes that differ from the default ones, MapGadget proves get and   *)
(* insert against the root alone.  A hash is the pair of its inputs, that  *)
(* is, free of collisions; the prover picks the values, the paths and the  *)
(* new root of a call as it likes, within the constraints.                 *)
(***************************************************************************)
EXTENDS Integers, Sequences, TLC

CONSTANTS
    IndexBytes,     \* NODE_INDEX_BYTES
    IndexByteBits,  \* the bits of one of them
    KeyPositions,   \* for every key, the leaf its hash selects
    MapValues       \* the values; 0 is the default

TreeHeight == IndexBytes * IndexByteBits - 1
Positions == 0 .. 2 ^ TreeHeight - 1
MapKeys == DOMAIN KeyPositions

ASSUME MapAssumption ==
    /\ IndexBytes \in Nat \ {0} /\ IndexByteBits \in Nat \ {0}
    /\ KeyPositions \in [MapKeys -> Positions]
    /\ \A j, k \in MapKeys : KeyPositions[j] = KeyPositions[k] => j = k
    /\ 0 \in MapValues

VARIABLES
    cpu,        \* MapMt: root, nodes, map
    repr,       \* the cell of the root once the gadget is initialised
    entries,    \* the map the calls of the gadget have made of the first one
    answer      \* the last get: the key and the value proved for it

mapVars == <<cpu, repr, entries, answer>>

NoCell == <<>>
NoAnswer == [key |-> {}, value |-> 0]

Hash(l, r) == <<l, r>>
ConditionalSwap(swap, l, r) == IF swap THEN Hash(r, l) ELSE Hash(l, r)

-----------------------------------------------------------------------------
(* Positions in the tree, as little-endian bytes                           *)

ComputeNodeIndex(key) ==
    [i \in 1 .. IndexBytes |->
        (KeyPositions[key] \div 2 ^ ((i - 1) * IndexByteBits)) % 2 ^ IndexByteBits]

IsRight(index) == index[1] % 2 = 1

Sibling(index) == [index EXCEPT ![1] = IF IsRight(index) THEN @ - 1 ELSE @ + 1]

MoveToParent(index) ==
    [i \in 1 .. IndexBytes |->
        (index[i] \div 2)
        + (IF i < IndexBytes THEN (index[i + 1] % 2) * 2 ^ (IndexByteBits - 1) ELSE 0)]

\* The position of a key's ancestor at a height.
IndexAt(key, height) ==
    LET up[h \in 0 .. height] == IF h = 0 THEN ComputeNodeIndex(key) ELSE MoveToParent(up[h - 1])
    IN up[height]

-----------------------------------------------------------------------------
(* MapMt                                                                   *)

DefaultNode(height) ==
    LET up[h \in 0 .. height] == IF h = 0 THEN 0 ELSE Hash(up[h - 1], up[h - 1])
    IN up[height]

NewMapMt == [root |-> DefaultNode(TreeHeight), nodes |-> <<>>, map |-> <<>>]

NodeAt(mt, height, index) ==
    IF <<height, index>> \in DOMAIN mt.nodes THEN mt.nodes[<<height, index>>]
    ELSE DefaultNode(height)

GetSibling(mt, height, index) == NodeAt(mt, height, Sibling(index))

GetPath(mt, key) == [h \in 0 .. TreeHeight - 1 |-> GetSibling(mt, h, IndexAt(key, h))]

\* The nodes from a leaf to the root, given the siblings on the way.
Climb(value, siblings, right(_)) ==
    [h \in 0 .. TreeHeight |->
        LET up[k \in 0 .. h] ==
                IF k = 0 THEN value ELSE ConditionalSwap(right(k - 1), up[k - 1], siblings[k - 1])
        IN up[h]]

MapMtInsert(mt, key, value) ==
    LET child == Climb(value, GetPath(mt, key), LAMBDA h : IsRight(IndexAt(key, h)))
        path == [h \in 0 .. TreeHeight - 1 |-> <<h, IndexAt(key, h)>>]
    IN [root |-> child[TreeHeight],
        nodes |-> [n \in {path[h] : h \in DOMAIN path} |-> child[n[1]]] @@ mt.nodes,
        map |-> (key :> value) @@ mt.map]

MapMtGet(mt, key) == IF key \in DOMAIN mt.map THEN mt.map[key] ELSE 0

-----------------------------------------------------------------------------
(* MapGadget                                                               *)

\* What verify_path constrains the root to be: the bits are those of the key's
\* hash, the siblings the prover's.
PathRoot(key, value, path) ==
    Climb(value, path, LAMBDA h : (KeyPositions[key] \div 2 ^ h) % 2 = 1)[TreeHeight]

MapInit ==
    /\ cpu = NewMapMt /\ repr = NoCell
    /\ entries = [k \in MapKeys |-> 0] /\ answer = NoAnswer

Initialised == repr # NoCell

\* Insertions before the map is handed to the circuit.
InsertOffCircuit(key, value) ==
    /\ ~Initialised
    /\ cpu' = MapMtInsert(cpu, key, value)
    /\ UNCHANGED <<repr, entries, answer>>

\* init: whether the root is the right one is for the caller to constrain.
InitGadget ==
    /\ ~Initialised
    /\ repr' = cpu.root
    /\ entries' = [k \in MapKeys |-> MapMtGet(cpu, k)]
    /\ UNCHANGED <<cpu, answer>>

\* Bug: the path is only verified with the new value.
InsertUnverified(key, value, current, path) ==
    /\ Initialised
    /\ cpu' = MapMtInsert(cpu, key, value)
    /\ repr' = PathRoot(key, value, path)
    /\ entries' = [entries EXCEPT ![key] = value] /\ answer' = NoAnswer

\* insert, for a prover who fills in current and path; update_state assigns a
\* new root, which the second verify_path fixes.
Insert(key, value, current, path) ==
    /\ Initialised
    /\ PathRoot(key, current, path) = repr
    /\ cpu' = MapMtInsert(cpu, key, value)
    /\ repr' = PathRoot(key, value, path)
    /\ entries' = [entries EXCEPT ![key] = value] /\ answer' = NoAnswer

Get(key, current, path) ==
    /\ Initialised
    /\ PathRoot(key, current, path) = repr
    /\ answer' = [key |-> {key}, value |-> current]
    /\ UNCHANGED <<cpu, repr, entries>>

\* Any node of any tree, by height.
SubTrees(height) ==
    LET up[h \in 0 .. height] == IF h = 0 THEN MapValues ELSE {Hash(l, r) : l, r \in up[h - 1]}
    IN up[height]

Paths ==
    LET up[h \in 0 .. TreeHeight] ==
            IF h = 0 THEN {<<>>} ELSE {p @@ (h - 1 :> t) : p \in up[h - 1], t \in SubTrees(h - 1)}
    IN up[TreeHeight]

MapNext ==
    \/ \E key \in MapKeys, value \in MapValues : InsertOffCircuit(key, value)
    \/ InitGadget
    \/ \E key \in MapKeys, current \in MapValues, path \in Paths :
          \/ Get(key, current, path)
          \/ \E value \in MapValues : Insert(key, value, current, path)

MapSpec == MapInit /\ [][MapNext]_mapVars

-----------------------------------------------------------------------------
(* Properties                                                              *)

\* The tree with the map's values at its leaves.
TreeOf(map) ==
    LET leaf(p) == IF \E k \in MapKeys : KeyPositions[k] = p
                   THEN map[CHOOSE k \in MapKeys : KeyPositions[k] = p] ELSE 0
        level[h \in 0 .. TreeHeight] ==
            IF h = 0 THEN [p \in Positions |-> leaf(p)]
            ELSE [p \in 0 .. 2 ^ (TreeHeight - h) - 1 |-> Hash(level[h - 1][2 * p], level[h - 1][2 * p + 1])]
    IN level[TreeHeight][0]

\* The root MapMt keeps, and builds from the nodes it happens to store, is that
\* of the whole tree, whatever was inserted, and inserted again, in which order.
MapRootExact == cpu.root = TreeOf([k \in MapKeys |-> MapMtGet(cpu, k)])

\* What the circuit believes: after any calls its constraints admit, whatever
\* values, paths and roots the prover filled in, the root's cell is the root of
\* the map those calls make, and a value that was got is the map's.
CircuitMapExact ==
    /\ Initialised => repr = TreeOf(entries)
    /\ \A k \in answer.key : answer.value = entries[k]

\* A prover who follows the code always satisfies the constraints: the value
\* and the path MapMt gives for a key lead to the cell of the root.
HonestPathsVerify ==
    Initialised => \A k \in MapKeys : PathRoot(k, MapMtGet(cpu, k), GetPath(cpu, k)) = repr

\* The map outside the circuit, the one the circuit believes in and the whole
\* tree agree.
MapExact == MapRootExact /\ CircuitMapExact /\ HonestPathsVerify
=============================================================================
