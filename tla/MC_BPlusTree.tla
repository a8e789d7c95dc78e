---------------------------- MODULE MC_BPlusTree ----------------------------
(***************************************************************************)
(* The B+ tree with LEAF_MAX_KEYS = 3 and INTERNAL_MAX_KEYS = 2: the same *)
(* parities as the code's 35 and 100, so a split and the minimum          *)
(* occupancy follow the same arithmetic (a full leaf splits into two      *)
(* minimum leaves; a full internal node splits into a minimum left and a  *)
(* one-larger right node).  Eight keys are the fewest that give a tree of *)
(* three levels, where FixInternalChild runs.                             *)
(***************************************************************************)
EXTENDS BPlusTree

CONSTANTS v1, v2

KeysDeep == 1..10      \* three levels, internal borrows
KeysSmall == 1..6      \* two levels, for the refinement check
KeysFlush == 1..4      \* write-back interleavings
ValsOne == {v1}
ValsTwo == {v1, v2}

\* The position of leaf page p in the leaf order, or p itself.
LeafRank(p) == IF \E i \in 1..Len(Leaves) : Leaves[i] = p
               THEN CHOOSE i \in 1..Len(Leaves) : Leaves[i] = p ELSE p

\* The tree below page off with page numbers left out: keys, payloads,
\* and next_leaf as a leaf rank.  A page outside the tree keeps its number.
RECURSIVE Shape(_, _)
Shape(off, fuel) ==
    LET node == View(Store, off) IN
    IF fuel = 0 \/ off \notin Pages \/ IsFree(node) THEN <<off>>
    ELSE IF node.isLeaf THEN <<node.keys, node.vals, LeafRank(node.next)>>
    ELSE <<node.keys, [i \in DOMAIN node.children |-> Shape(node.children[i], fuel - 1)]>>

\* Two states whose trees have the same shape, whose free lists have the
\* same length and whose counters agree differ only by a renaming of page
\* numbers (and, under TreeSpec, by which frames are dirty, which no read
\* through View can see): they have the same futures up to that renaming,
\* and every property checked here is invariant under it.
ShapeView ==
    <<IF root = INVALID_PAGE_ID THEN <<>> ELSE Shape(root, metaNext),
      Len(FreeList), metaNext, fileSize, metaRoot = root, nextOff,
      Pages \ (Reachable \cup ToSet(FreeList))>>
=============================================================================
