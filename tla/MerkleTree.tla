----------------------------- MODULE MerkleTree -----------------------------
(***************************************************************************)
(* The incremental Merkle tree of the privacy pool (PrivacyPool in        *)
(* state/privacy_pool.rs, updated by instructions/private_deposit.rs and  *)
(* instructions/private_withdraw.rs).                                      *)
(*                                                                         *)
(* A 32-byte node value is abstracted to a term: a leaf holding the        *)
(* commitment c is <<c>>, and the Poseidon hash of two nodes is the pair   *)
(* <<l, r>>.  Pairing is injective, which is the collision resistance the  *)
(* tree relies on.  Commitment 0 is the all-zero value [0u8; 32].          *)
(***************************************************************************)
EXTENDS Naturals

CONSTANT DEPTH      \* MERKLE_DEPTH (20 in tools/compute_zero_hashes.rs)

ASSUME DEPTH \in Nat \ {0}

\* Number of leaves the tree can hold: MAX_LEAVES = 2^MERKLE_DEPTH.
Capacity == 2 ^ DEPTH

\* The value of a leaf holding commitment c.
Leaf(c) == <<c>>

\* [0u8; 32]: the empty leaf, and the value of an empty root_history slot.
ZeroValue == Leaf(0)

\* merkle_hash_2: Poseidon(left, right), abstracted to an injective pair.
MerkleHash2(l, r) == <<l, r>>

\* zeros[i]: the root of an empty subtree of height i,
\* h[0] = 0 and h[i] = Poseidon(h[i-1], h[i-1]).
ZeroHashes[i \in 0..DEPTH] ==
    IF i = 0 THEN ZeroValue
             ELSE MerkleHash2(ZeroHashes[i-1], ZeroHashes[i-1])

\* filled_subtrees as set by init_filled_subtrees_with_zeros.
InitFilledSubtrees == [i \in 0..DEPTH-1 |-> ZeroHashes[i]]

\* A plausible slip in the loop: the right-child branch hashes the pair in
\* the wrong order.
InsertFromSwapped(i, index, hash, filled) ==
    LET RECURSIVE Go(_, _, _, _)
        Go(j, ix, h, f) ==
            IF j = DEPTH THEN [root |-> h, filled |-> f]
            ELSE IF ix % 2 = 0
                 THEN Go(j + 1, ix \div 2, MerkleHash2(h, ZeroHashes[j]),
                         [f EXCEPT ![j] = h])
                 ELSE Go(j + 1, ix \div 2, MerkleHash2(h, f[j]), f)
    IN  Go(i, index, hash, filled)

(***************************************************************************)
(* compute_new_root_zc: the loop over the levels 0..MERKLE_DEPTH-1, one    *)
(* recursive call per iteration.  Level i carries current_index and        *)
(* current_hash; a left child is stored in filled_subtrees[i] and hashed   *)
(* with the empty sibling, a right child is hashed with the stored left    *)
(* sibling.  The result is the new root and the updated filled_subtrees.   *)
(***************************************************************************)
RECURSIVE InsertFrom(_, _, _, _)
InsertFrom(i, index, hash, filled) ==
    IF i = DEPTH
    THEN [root |-> hash, filled |-> filled]
    ELSE IF index % 2 = 0
         THEN InsertFrom(i + 1, index \div 2,
                         MerkleHash2(hash, ZeroHashes[i]),
                         [filled EXCEPT ![i] = hash])
         ELSE InsertFrom(i + 1, index \div 2,
                         MerkleHash2(filled[i], hash), filled)

\* compute_new_root_zc(pool, commitment, leaf_index).  The index is a u64
\* and is not checked against Capacity: past it only its low DEPTH bits
\* steer the loop.
ComputeNewRoot(filled, commitment, leafIndex) ==
    InsertFrom(0, leafIndex, Leaf(commitment), filled)

(***************************************************************************)
(* Reference definition: the root of the full binary tree of height DEPTH *)
(* over the leaf values leaves[0 .. Capacity-1].                          *)
(***************************************************************************)
RECURSIVE SubtreeRoot(_, _, _)
SubtreeRoot(leaves, height, pos) ==
    IF height = 0
    THEN leaves[pos]
    ELSE MerkleHash2(SubtreeRoot(leaves, height - 1, 2 * pos),
                     SubtreeRoot(leaves, height - 1, 2 * pos + 1))

\* The root over leaf slots slot[0 .. Capacity-1], where slot 0 holds no
\* commitment (the empty leaf).
TreeRoot(slot) ==
    SubtreeRoot([i \in 0..Capacity-1 |-> Leaf(slot[i])], DEPTH, 0)

\* All node values of a subtree of the given height whose leaves hold
\* commitments from vals: the type of root, filled_subtrees and history.
RECURSIVE NodesOfHeight(_, _)
NodesOfHeight(vals, height) ==
    IF height = 0
    THEN {Leaf(c) : c \in vals}
    ELSE NodesOfHeight(vals, height - 1) \X NodesOfHeight(vals, height - 1)

\* The commitments under a root: what a membership proof against that root
\* can open (the Groth16 circuit proves a Merkle path to a leaf).
RECURSIVE LeavesUnder(_)
LeavesUnder(node) ==
    IF DOMAIN node = {1}
    THEN {node[1]} \ {0}
    ELSE LeavesUnder(node[1]) \cup LeavesUnder(node[2])
=============================================================================
