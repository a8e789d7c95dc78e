------------------------------ MODULE BPlusTree ------------------------------
(***************************************************************************)
(* The B+ tree of src/unnamed/part_002 (bplus_tree.cpp) over the storage  *)
(* it really runs on.  A page is read through the buffer pool: the pool's *)
(* dirty frame if there is one, else the mmap'd file.  The variables keep *)
(* the two apart, because they are written by different code:             *)
(*   cache  - dirty frames of the BufferPool (written by the tree through *)
(*            PinPage/UnpinPage(dirty=true), dropped by DeletePage);      *)
(*   disk   - the mmap'd data file, page 1 .. metaNext-1 (written by      *)
(*            AllocatePage's memset, FreePage's link and by write-back).  *)
(* Page 0 (metadata) is held in metaRoot, metaNext and freeHead.  Which   *)
(* frames are resident but clean, and the LRU order, are left to module   *)
(* BufferPool: here any dirty frame may be written back between two       *)
(* public operations (WriteBack), which covers every pool size and every  *)
(* eviction order.  Each public operation is one atomic step: the tree is *)
(* single-threaded and never yields.                                      *)
(* Pages are numbered: page p lives at byte offset p * PAGE_SIZE.         *)
(***************************************************************************)
EXTENDS Integers, Sequences, SequencesExt

CONSTANTS
    Keys,               \* the int32 keys a client may use
    Vals,               \* payloads: byte strings of < DATA_SIZE bytes, no NUL
    LEAF_MAX_KEYS,      \* config.h: 35 in the code
    INTERNAL_MAX_KEYS,  \* config.h: 100 in the code
    MIN_FILE_PAGES,     \* EnsureCapacity: growth is at least 1 MiB = 256 pages
    NoVal               \* Search result "NotFound"

ASSUME /\ Keys \subseteq Int /\ Keys # {}
       /\ LEAF_MAX_KEYS \in Nat /\ LEAF_MAX_KEYS >= 3
       /\ INTERNAL_MAX_KEYS \in Nat /\ INTERNAL_MAX_KEYS >= 2
       /\ MIN_FILE_PAGES \in Nat \ {0}
       /\ NoVal \notin Vals

INVALID_PAGE_ID == -1
\* config.h: ceil(order/2), computed with C++ integer division
LEAF_MIN_KEYS == (LEAF_MAX_KEYS + 1) \div 2
INTERNAL_MIN_KEYS == (INTERNAL_MAX_KEYS + 1) \div 2

VARIABLES
    cache,      \* page -> content of the pool's dirty frames
    disk,       \* page -> content of the mapped file, pages 1..metaNext-1
    metaRoot,   \* page 0 bytes [0..7]: root_offset
    metaNext,   \* page 0 bytes [8..15]: next_page_offset
    freeHead,   \* page 0 bytes [16..23]: free_list_head
    fileSize,   \* DiskManager::file_size_, in pages
    root,       \* BPlusTree::root_offset_
    nextOff     \* BPlusTree::next_page_offset_

vars == <<cache, disk, metaRoot, metaNext, freeHead, fileSize, root, nextOff>>

-----------------------------------------------------------------------------
(* Page contents.  A page is decoded by its is_leaf word (page.h).        *)

LeafNode(ks, vs, nxt) == [isLeaf |-> TRUE, keys |-> ks, vals |-> vs, next |-> nxt]
InternalNode(ks, cs) == [isLeaf |-> FALSE, keys |-> ks, children |-> cs]
\* An all-zero page, as AllocatePage leaves it: num_keys = 0, is_leaf = 0,
\* child[0] = offset 0 (the metadata page).
ZeroPage == InternalNode(<<>>, <<0>>)
\* A page on the free list: FreePage overwrote its first 8 bytes (num_keys
\* and is_leaf) with the next free offset; the tree cannot decode it.
FreeRec(nxt) == [isLeaf |-> FALSE, free |-> nxt]
IsFree(c) == "free" \in DOMAIN c

-----------------------------------------------------------------------------
(* The storage as one value, so that the recursive tree operations can   *)
(* thread it through their calls.                                         *)

Store == [cache |-> cache, disk |-> disk, metaNext |-> metaNext,
          freeHead |-> freeHead, fileSize |-> fileSize, nextOff |-> nextOff]

\* What PinPage returns: the resident frame, else the mapped page.
View(S, p) ==
    IF p \in DOMAIN S.cache THEN S.cache[p]
    ELSE IF p \in DOMAIN S.disk THEN S.disk[p]
    ELSE ZeroPage   \* past the frontier the file is zero-filled; page 0 is
                    \* metadata, reached only from a zeroed node, where
                    \* crash_reopen stops

\* A write through a pinned frame followed by UnpinPage(p, true).
Write(S, p, c) == [S EXCEPT !.cache = (p :> c) @@ S.cache]

\* DiskManager::EnsureCapacity: grow to at least double, at least 1 MiB.
GrowTo(required, cur) ==
    IF required <= cur THEN cur
    ELSE Max({required, 2 * cur, MIN_FILE_PAGES})

\* Seeded fault: AllocPage without refreshing next_page_offset_.
AllocPageStaleNext(S) ==
    IF S.freeHead # INVALID_PAGE_ID
    THEN LET id == S.freeHead IN
         [id |-> id,
          st |-> [S EXCEPT !.freeHead = S.disk[id].free,
                           !.disk = [@ EXCEPT ![id] = ZeroPage],
                           !.cache = (id :> ZeroPage) @@ S.cache]]
    ELSE LET id == S.metaNext IN
         [id |-> id,
          st |-> [S EXCEPT !.fileSize = GrowTo(id + 1, S.fileSize),
                           !.disk = (id :> ZeroPage) @@ S.disk,
                           !.metaNext = id + 1,
                           !.cache = (id :> ZeroPage) @@ S.cache]]

\* DiskManager::AllocatePage (with ReclaimPage), BufferPool::NewPage (a
\* zeroed dirty frame) and BPlusTree::AllocPage (refresh nextOff).
AllocPage(S) ==
    IF S.freeHead # INVALID_PAGE_ID
    THEN LET id == S.freeHead IN
         [id |-> id,
          st |-> [S EXCEPT !.freeHead = S.disk[id].free,
                           !.disk = [@ EXCEPT ![id] = ZeroPage],
                           !.nextOff = S.metaNext,
                           !.cache = (id :> ZeroPage) @@ S.cache]]
    ELSE LET id == S.metaNext IN
         [id |-> id,
          st |-> [S EXCEPT !.fileSize = GrowTo(id + 1, S.fileSize),
                           !.disk = (id :> ZeroPage) @@ S.disk,
                           !.metaNext = id + 1,
                           !.nextOff = id + 1,
                           !.cache = (id :> ZeroPage) @@ S.cache]]

\* Seeded fault: the page is freed but its frame is not dropped.
DeallocPageKeepFrame(S, p) ==
    [S EXCEPT !.disk = [@ EXCEPT ![p] = FreeRec(S.freeHead)],
              !.freeHead = p]

\* BPlusTree::DeallocPage: BufferPool::DeletePage drops the frame without
\* flushing it, then DiskManager::FreePage pushes the page on the free list.
DeallocPage(S, p) ==
    [S EXCEPT !.cache = [q \in DOMAIN S.cache \ {p} |-> S.cache[q]],
              !.disk = [@ EXCEPT ![p] = FreeRec(S.freeHead)],
              !.freeHead = p]

-----------------------------------------------------------------------------
(* Search                                                                 *)

\* Seeded fault: equal keys go left.
ChildIndexEqualLeft(ks, k) ==
    Min({i \in 0..Len(ks) : i = Len(ks) \/ k <= ks[i + 1]})

\* The descent loop `while (i < n && key >= KeyAt(i)) ++i`: the 0-based
\* index of the child to follow.  Equal keys go right.
ChildIndex(ks, k) ==
    Min({i \in 0..Len(ks) : i = Len(ks) \/ k < ks[i + 1]})

\* The 1-based index of the first record holding k, or 0.
FindKey(ks, k) ==
    IF \E i \in 1..Len(ks) : ks[i] = k
    THEN Min({i \in 1..Len(ks) : ks[i] = k}) ELSE 0

\* BPlusTree::SearchLeaf: the leaf that would hold k, or INVALID_PAGE_ID.
\* An offset below PAGE_SIZE ends the descent; one past the file makes
\* PageData throw, and a page on the free list decodes as garbage (its
\* first word is a file offset): in neither case is a record returned.
\* `fuel` bounds the descent: a longer one can only be a cycle.  The page
\* offset is bound to a value once per level ({.. : off \in {off0}}): TLC
\* re-evaluates an operator argument at every use inside an action
\* formula, which would make the refinement check exponential in depth.
RECURSIVE Descend(_, _, _, _)
Descend(S, off0, k, fuel) ==
    CHOOSE res \in
      {LET node == View(S, off) IN
       CASE off < 1 \/ off >= S.fileSize \/ fuel = 0 \/ IsFree(node) -> INVALID_PAGE_ID
         [] node.isLeaf -> off
         [] OTHER -> Descend(S, node.children[ChildIndex(node.keys, k) + 1], k, fuel - 1)
       : off \in {off0}} : TRUE

SearchLeaf(S, r, k) ==
    IF r = INVALID_PAGE_ID THEN INVALID_PAGE_ID
    ELSE Descend(S, r, k, S.metaNext)

\* BPlusTree::Search: the payload stored under k, or NoVal (NotFound).
Search(S, r, k) ==
    LET leafOff == SearchLeaf(S, r, k) IN
    IF leafOff = INVALID_PAGE_ID THEN NoVal
    ELSE LET leaf == View(S, leafOff)
             i == FindKey(leaf.keys, k)
         IN IF i = 0 THEN NoVal ELSE leaf.vals[i]

\* Seeded fault: the walk stops at the first key >= upper.
RECURSIVE WalkExclusive(_, _, _, _, _)
WalkExclusive(S, off, lower, upper, fuel) ==
    IF off = INVALID_PAGE_ID \/ off < 1 \/ off >= S.fileSize \/ fuel = 0
       \/ IsFree(View(S, off)) \/ ~View(S, off).isLeaf
    THEN <<>>
    ELSE LET leaf == View(S, off)
             n == Len(leaf.keys)
             stop == {i \in 1..n : leaf.keys[i] >= upper}
             last == IF stop = {} THEN n ELSE Min(stop) - 1
             out == SelectSeq([i \in 1..last |-> <<leaf.keys[i], leaf.vals[i]>>],
                              LAMBDA r : r[1] >= lower)
         IN IF stop # {} THEN out
            ELSE out \o WalkExclusive(S, leaf.next, lower, upper, fuel - 1)

\* BPlusTree::RangeQuery: the records with lower <= key <= upper, found by
\* descending to lower and walking the leaf chain until a key > upper.
RECURSIVE Walk(_, _, _, _, _)
Walk(S, off, lower, upper, fuel) ==
    IF off = INVALID_PAGE_ID \/ off < 1 \/ off >= S.fileSize \/ fuel = 0
       \/ IsFree(View(S, off)) \/ ~View(S, off).isLeaf
    THEN <<>>
    ELSE LET leaf == View(S, off)
             n == Len(leaf.keys)
             stop == {i \in 1..n : leaf.keys[i] > upper}
             last == IF stop = {} THEN n ELSE Min(stop) - 1
             out == SelectSeq([i \in 1..last |-> <<leaf.keys[i], leaf.vals[i]>>],
                              LAMBDA r : r[1] >= lower)
         IN IF stop # {} THEN out
            ELSE out \o Walk(S, leaf.next, lower, upper, fuel - 1)

RangeQuery(S, r, lower, upper) ==
    IF lower > upper \/ r = INVALID_PAGE_ID THEN <<>>
    ELSE Walk(S, SearchLeaf(S, r, lower), lower, upper, S.metaNext)

-----------------------------------------------------------------------------
(* Insert (upsert).  The recursive helpers return the store after the     *)
(* call and the split they report to the caller.                          *)

NoSplit(S) == [st |-> S, split |-> FALSE, key |-> 0, newOff |-> INVALID_PAGE_ID]

\* BPlusTree::InsertIntoLeaf
InsertIntoLeaf(S, off, k, v) ==
    LET leaf == View(S, off)
        n == Len(leaf.keys)
        found == FindKey(leaf.keys, k)
    IN
    IF found # 0
    THEN \* existing key: overwrite the payload
         NoSplit(Write(S, off, [leaf EXCEPT !.vals[found] = v]))
    ELSE IF n < LEAF_MAX_KEYS
    THEN \* room: shift larger records right, place the new one
         LET pos == Max({j \in 0..n : j = 0 \/ leaf.keys[j] <= k}) + 1 IN
         NoSplit(Write(S, off, [leaf EXCEPT !.keys = InsertAt(@, pos, k),
                                            !.vals = InsertAt(@, pos, v)]))
    ELSE \* full: split n+1 records, the first (n+2)/2 stay on the left
         LET pos == Min({j \in 0..n : j = n \/ ~(leaf.keys[j + 1] < k)}) + 1
             ks == InsertAt(leaf.keys, pos, k)
             vs == InsertAt(leaf.vals, pos, v)
             mid == (n + 2) \div 2
             a == AllocPage(S)
             right == LeafNode(SubSeq(ks, mid + 1, n + 1), SubSeq(vs, mid + 1, n + 1),
                               leaf.next)
             left == LeafNode(SubSeq(ks, 1, mid), SubSeq(vs, 1, mid), a.id)
         IN [st |-> Write(Write(a.st, a.id, right), off, left),
             split |-> TRUE, key |-> ks[mid + 1], newOff |-> a.id]

\* BPlusTree::InsertIntoInternal: absorb (key, child) or split, promoting
\* the middle key.
InsertIntoInternal(S, off, key, child) ==
    LET node == View(S, off)
        n == Len(node.keys)
    IN
    IF n < INTERNAL_MAX_KEYS
    THEN LET pos == Max({j \in 0..n : j = 0 \/ node.keys[j] <= key}) + 1 IN
         NoSplit(Write(S, off, [node EXCEPT !.keys = InsertAt(@, pos, key),
                                            !.children = InsertAt(@, pos + 1, child)]))
    ELSE LET pos == Min({j \in 0..n : j = n \/ ~(node.keys[j + 1] < key)}) + 1
             ks == InsertAt(node.keys, pos, key)
             cs == InsertAt(node.children, pos + 1, child)
             mid == (n + 1) \div 2          \* 0-based index of the promoted key
             a == AllocPage(S)
             right == InternalNode(SubSeq(ks, mid + 2, n + 1), SubSeq(cs, mid + 2, n + 2))
             left == InternalNode(SubSeq(ks, 1, mid), SubSeq(cs, 1, mid + 1))
         IN [st |-> Write(Write(a.st, a.id, right), off, left),
             split |-> TRUE, key |-> ks[mid + 1], newOff |-> a.id]

\* BPlusTree::InsertRecursive
RECURSIVE InsertRecursive(_, _, _, _)
InsertRecursive(S, off, k, v) ==
    LET node == View(S, off) IN
    IF node.isLeaf THEN InsertIntoLeaf(S, off, k, v)
    ELSE LET r == InsertRecursive(S, node.children[ChildIndex(node.keys, k) + 1], k, v)
         IN IF ~r.split THEN r
            ELSE InsertIntoInternal(r.st, off, r.key, r.newOff)

\* Commit a store and a root; WriteMetadata when `meta` (it writes the
\* tree's root_offset_ and next_page_offset_ to page 0 and msyncs it).
Commit(S, r, meta) ==
    /\ cache' = S.cache
    /\ disk' = S.disk
    /\ freeHead' = S.freeHead
    /\ fileSize' = S.fileSize
    /\ nextOff' = S.nextOff
    /\ root' = r
    /\ metaRoot' = IF meta THEN r ELSE metaRoot
    /\ metaNext' = IF meta THEN S.nextOff ELSE S.metaNext

\* BPlusTree::Insert
Insert(k, v) ==
    IF root = INVALID_PAGE_ID
    THEN LET a == AllocPage(Store) IN
         Commit(Write(a.st, a.id, LeafNode(<<k>>, <<v>>, INVALID_PAGE_ID)), a.id, TRUE)
    ELSE LET r == InsertRecursive(Store, root, k, v) IN
         IF ~r.split THEN Commit(r.st, root, FALSE)
         ELSE LET a == AllocPage(r.st) IN
              Commit(Write(a.st, a.id, InternalNode(<<r.key>>, <<root, r.newOff>>)),
                     a.id, TRUE)

-----------------------------------------------------------------------------
(* Delete with rebalancing.  Child indices are 0-based as in the code;   *)
(* sequences are 1-based, so child i is children[i + 1].                  *)

\* Pages around child ci of parent page par.
ChildOff(S, par, ci) == View(S, par).children[ci + 1]
LeftOff(S, par, ci) == View(S, par).children[ci]        \* when ci > 0
RightOff(S, par, ci) == View(S, par).children[ci + 2]   \* when ci < num_keys
\* Remove separator mk (0-based) and the child to its right from the parent.
DropSeparator(S, par, mk) ==
    Write(S, par, [View(S, par) EXCEPT !.keys = RemoveAt(@, mk + 1),
                                       !.children = RemoveAt(@, mk + 2)])

\* FixLeafChild, borrow from the left: its last record moves to the front
\* of the child and becomes the separator.
LeafBorrowLeft(S, par, ci) ==
    LET L == View(S, LeftOff(S, par, ci))
        C == View(S, ChildOff(S, par, ci))
        ln == Len(L.keys)
        S1 == Write(S, LeftOff(S, par, ci), [L EXCEPT !.keys = SubSeq(@, 1, ln - 1),
                                                      !.vals = SubSeq(@, 1, ln - 1)])
        S2 == Write(S1, ChildOff(S, par, ci), [C EXCEPT !.keys = <<L.keys[ln]>> \o @,
                                                        !.vals = <<L.vals[ln]>> \o @])
    IN Write(S2, par, [View(S, par) EXCEPT !.keys[ci] = L.keys[ln]])

\* FixLeafChild, borrow from the right: its first record is appended to
\* the child; the right sibling's new first key becomes the separator.
LeafBorrowRight(S, par, ci) ==
    LET R == View(S, RightOff(S, par, ci))
        C == View(S, ChildOff(S, par, ci))
        S1 == Write(S, RightOff(S, par, ci), [R EXCEPT !.keys = Tail(@), !.vals = Tail(@)])
        S2 == Write(S1, ChildOff(S, par, ci), [C EXCEPT !.keys = Append(@, R.keys[1]),
                                                        !.vals = Append(@, R.vals[1])])
    IN Write(S2, par, [View(S, par) EXCEPT !.keys[ci + 1] = R.keys[2]])

\* The two leaves a merge joins: the child into its left sibling, or (for
\* child 0) the right sibling into the child; mk is the separator between.
MergePair(S, par, ci) ==
    IF ci > 0 THEN [l |-> LeftOff(S, par, ci), r |-> ChildOff(S, par, ci), mk |-> ci - 1]
    ELSE [l |-> ChildOff(S, par, ci), r |-> RightOff(S, par, ci), mk |-> ci]

\* Seeded faults in the merge: the right leaf is not given back to the
\* free list; the merged leaf keeps its own next_leaf.
MergeLeavesNoFree(S, par, ci) ==
    LET m == MergePair(S, par, ci)
        L == View(S, m.l)
        R == View(S, m.r)
    IN DropSeparator(Write(S, m.l, LeafNode(L.keys \o R.keys, L.vals \o R.vals, R.next)),
                     par, m.mk)
MergeLeavesKeepNext(S, par, ci) ==
    LET m == MergePair(S, par, ci)
        L == View(S, m.l)
        R == View(S, m.r)
    IN DropSeparator(DeallocPage(Write(S, m.l, LeafNode(L.keys \o R.keys, L.vals \o R.vals,
                                                        L.next)), m.r), par, m.mk)

\* FixLeafChild, merge: the right leaf's records are appended to the left
\* one, which takes over its next_leaf; the right page is freed and the
\* separator between them removed from the parent.
MergeLeaves(S, par, ci) ==
    LET m == MergePair(S, par, ci)
        L == View(S, m.l)
        R == View(S, m.r)
    IN DropSeparator(DeallocPage(Write(S, m.l, LeafNode(L.keys \o R.keys, L.vals \o R.vals,
                                                        R.next)), m.r), par, m.mk)

\* Seeded fault: borrow from a left sibling that has just the minimum.
FixLeafChildBorrowAtMin(S, par, ci) ==
    CASE ci > 0 /\ Len(View(S, LeftOff(S, par, ci)).keys) >= LEAF_MIN_KEYS
            -> LeafBorrowLeft(S, par, ci)
      [] ci < Len(View(S, par).keys) /\ Len(View(S, RightOff(S, par, ci)).keys) > LEAF_MIN_KEYS
            -> LeafBorrowRight(S, par, ci)
      [] OTHER -> MergeLeaves(S, par, ci)

\* BPlusTree::FixLeafChild: borrow from the left sibling if it has more
\* than the minimum, else from the right sibling, else merge.
FixLeafChild(S, par, ci) ==
    CASE ci > 0 /\ Len(View(S, LeftOff(S, par, ci)).keys) > LEAF_MIN_KEYS
            -> LeafBorrowLeft(S, par, ci)
      [] ci < Len(View(S, par).keys) /\ Len(View(S, RightOff(S, par, ci)).keys) > LEAF_MIN_KEYS
            -> LeafBorrowRight(S, par, ci)
      [] OTHER -> MergeLeaves(S, par, ci)

\* FixInternalChild, borrow from the left: the separator comes down to the
\* front of the child with the left sibling's last child; the left's last
\* key goes up.
InternalBorrowLeft(S, par, ci) ==
    LET P == View(S, par)
        L == View(S, LeftOff(S, par, ci))
        C == View(S, ChildOff(S, par, ci))
        ln == Len(L.keys)
        S1 == Write(S, LeftOff(S, par, ci), [L EXCEPT !.keys = SubSeq(@, 1, ln - 1),
                                                      !.children = SubSeq(@, 1, ln)])
        S2 == Write(S1, ChildOff(S, par, ci),
                    [C EXCEPT !.keys = <<P.keys[ci]>> \o @,
                              !.children = <<L.children[ln + 1]>> \o @])
    IN Write(S2, par, [P EXCEPT !.keys[ci] = L.keys[ln]])

\* FixInternalChild, borrow from the right: the mirror image.
InternalBorrowRight(S, par, ci) ==
    LET P == View(S, par)
        R == View(S, RightOff(S, par, ci))
        C == View(S, ChildOff(S, par, ci))
        S1 == Write(S, RightOff(S, par, ci), [R EXCEPT !.keys = Tail(@), !.children = Tail(@)])
        S2 == Write(S1, ChildOff(S, par, ci),
                    [C EXCEPT !.keys = Append(@, P.keys[ci + 1]),
                              !.children = Append(@, R.children[1])])
    IN Write(S2, par, [P EXCEPT !.keys[ci + 1] = R.keys[1]])

\* FixInternalChild, merge: left keys, the separator, right keys.
MergeInternal(S, par, ci) ==
    LET m == MergePair(S, par, ci)
        L == View(S, m.l)
        R == View(S, m.r)
        sep == View(S, par).keys[m.mk + 1]
    IN DropSeparator(DeallocPage(Write(S, m.l, InternalNode(L.keys \o <<sep>> \o R.keys,
                                                            L.children \o R.children)),
                                 m.r), par, m.mk)

\* BPlusTree::FixInternalChild: the same three cases as FixLeafChild.
FixInternalChild(S, par, ci) ==
    CASE ci > 0 /\ Len(View(S, LeftOff(S, par, ci)).keys) > INTERNAL_MIN_KEYS
            -> InternalBorrowLeft(S, par, ci)
      [] ci < Len(View(S, par).keys) /\ Len(View(S, RightOff(S, par, ci)).keys) > INTERNAL_MIN_KEYS
            -> InternalBorrowRight(S, par, ci)
      [] OTHER -> MergeInternal(S, par, ci)

\* BPlusTree::FixChild
FixChild(S, par, ci) ==
    IF View(S, View(S, par).children[ci + 1]).isLeaf
    THEN FixLeafChild(S, par, ci)
    ELSE FixInternalChild(S, par, ci)

\* BPlusTree::DeleteFromLeaf: close the gap; report underflow (the root
\* leaf only when it becomes empty).
DeleteFromLeaf(S, off, k, r) ==
    LET leaf == View(S, off)
        n == Len(leaf.keys)
        found == FindKey(leaf.keys, k)
    IN
    IF found = 0 THEN [st |-> S, underful |-> FALSE]
    ELSE [st |-> Write(S, off, [leaf EXCEPT !.keys = RemoveAt(@, found),
                                            !.vals = RemoveAt(@, found)]),
          underful |-> IF off = r THEN n - 1 = 0 ELSE n - 1 < LEAF_MIN_KEYS]

\* BPlusTree::DeleteRecursive (r is root_offset_, which it compares with)
RECURSIVE DeleteRecursive(_, _, _, _)
DeleteRecursive(S, off, k, r) ==
    LET node == View(S, off) IN
    IF node.isLeaf THEN DeleteFromLeaf(S, off, k, r)
    ELSE LET i == ChildIndex(node.keys, k)
             d == DeleteRecursive(S, node.children[i + 1], k, r)
         IN IF ~d.underful THEN d
            ELSE LET S2 == FixChild(d.st, off, i)
                     nk == Len(View(S2, off).keys)
                 IN [st |-> S2,
                     underful |-> IF off = r THEN nk = 0 ELSE nk < INTERNAL_MIN_KEYS]

\* BPlusTree::Delete of a key Search finds (otherwise it returns NotFound
\* and changes nothing).  An empty root is then removed: an internal root
\* hands over to its only child, an empty leaf root empties the tree.
Delete(k) ==
    /\ Search(Store, root, k) # NoVal
    /\ LET d == DeleteRecursive(Store, root, k, root)
           R == View(d.st, root)
       IN IF d.underful /\ Len(R.keys) = 0
          THEN Commit(DeallocPage(d.st, root),
                      IF R.isLeaf THEN INVALID_PAGE_ID ELSE R.children[1], TRUE)
          ELSE Commit(d.st, root, FALSE)

-----------------------------------------------------------------------------
(* Flushing, restart and the specification                                *)

\* BufferPool::EvictFrame of a dirty frame (or FlushPage): copy it into
\* the mapped page.  Which frame the LRU picks depends on the pool size
\* and the access pattern; any dirty frame can be the one.
WriteBack(p) ==
    /\ p \in DOMAIN cache
    /\ disk' = [disk EXCEPT ![p] = cache[p]]
    /\ cache' = [q \in DOMAIN cache \ {p} |-> cache[q]]
    /\ UNCHANGED <<metaRoot, metaNext, freeHead, fileSize, root, nextOff>>

\* BPlusTree::Sync = BufferPool::FlushAllPages: every dirty frame is
\* copied back, then DiskManager::Sync.
Sync ==
    /\ cache # <<>>
    /\ disk' = [p \in DOMAIN disk |-> View(Store, p)]
    /\ cache' = <<>>
    /\ UNCHANGED <<metaRoot, metaNext, freeHead, fileSize, root, nextOff>>

\* BPlusTree::ReadMetadata with its sanity clamps.
ReadMetadata(mRoot, mNext, fSize) ==
    LET badRoot == mRoot # INVALID_PAGE_ID /\ (mRoot < 1 \/ mRoot >= fSize) IN
    [root |-> IF badRoot THEN INVALID_PAGE_ID ELSE mRoot,
     next |-> IF badRoot \/ mNext < 1 THEN 1 ELSE mNext]

\* ~BPlusTree (WriteMetadata, FlushAllPages, checkpoint) followed by the
\* constructor on the same file (WAL recovery finds no page images, see
\* README; ReadMetadata).
Restart ==
    LET m == ReadMetadata(root, nextOff, fileSize) IN
    /\ disk' = [p \in DOMAIN disk |-> View(Store, p)]
    /\ cache' = <<>>
    /\ metaRoot' = root
    /\ metaNext' = nextOff
    /\ root' = m.root
    /\ nextOff' = m.next
    /\ UNCHANGED <<freeHead, fileSize>>

\* A fresh index file: DiskManager writes the metadata defaults.
Init ==
    /\ cache = <<>>
    /\ disk = <<>>
    /\ metaRoot = INVALID_PAGE_ID
    /\ metaNext = 1
    /\ freeHead = INVALID_PAGE_ID
    /\ fileSize = 1
    /\ root = INVALID_PAGE_ID
    /\ nextOff = 1

\* The public operations of the index.
TreeNext ==
    \/ \E k \in Keys, v \in Vals : Insert(k, v)
    \/ \E k \in Keys : Delete(k)
    \/ Restart

Next ==
    \/ TreeNext
    \/ \E p \in DOMAIN cache : WriteBack(p)
    \/ Sync

Spec == Init /\ [][Next]_vars

\* The operations without write-back.  WriteBack and Sync move a frame
\* into the mapped file and leave View (what every later PinPage reads)
\* unchanged, so every state of TreeSpec has the same View as the states
\* of Spec that differ from it only in which frames were written back.
TreeSpec == Init /\ [][TreeNext]_vars

-----------------------------------------------------------------------------
(* Properties                                                             *)

Pages == 1..(metaNext - 1)
\* A decodable page content: a leaf, an internal node or a free-list link.
IsContent(c) ==
    \/ IsFree(c) /\ c.free \in Pages \cup {INVALID_PAGE_ID}
    \/ /\ ~IsFree(c) /\ c.isLeaf
       /\ c.keys \in Seq(Keys) /\ c.vals \in Seq(Vals) /\ Len(c.keys) = Len(c.vals)
       /\ c.next \in Pages \cup {INVALID_PAGE_ID}
    \/ /\ ~IsFree(c) /\ ~c.isLeaf
       /\ c.keys \in Seq(Keys) /\ c.children \in Seq(0..(metaNext - 1))
       /\ Len(c.children) = Len(c.keys) + 1

TypeOK ==
    /\ DOMAIN disk = Pages
    /\ DOMAIN cache \subseteq Pages
    /\ \A p \in DOMAIN disk : IsContent(disk[p])
    /\ \A p \in DOMAIN cache : IsContent(cache[p])
    /\ root \in Pages \cup {INVALID_PAGE_ID}
    /\ metaRoot \in Pages \cup {INVALID_PAGE_ID}
    /\ freeHead \in Pages \cup {INVALID_PAGE_ID}
    /\ metaNext <= fileSize /\ nextOff = metaNext

\* Bounds that stand for minus and plus infinity on keys.
KeyLo == Min(Keys)
KeyHi == Max(Keys) + 1

\* The depth of the leftmost leaf below page off (fuel guards cycles).
RECURSIVE LeftDepth(_, _)
LeftDepth(off, fuel) ==
    LET node == View(Store, off) IN
    IF fuel = 0 \/ off \notin Pages \/ IsFree(node) \/ node.isLeaf \/ node.children = <<>>
    THEN 0 ELSE 1 + LeftDepth(node.children[1], fuel - 1)

Height == LeftDepth(root, metaNext)

\* Page off roots a subtree at depth d whose keys lie in [lo, hi): keys
\* strictly ascending (I2), occupancy within bounds for a non-root node and
\* at least one key for the root (I1, I6), every leaf at depth Height (I3).
RECURSIVE NodeOK(_, _, _, _)
NodeOK(off, lo, hi, d) ==
    LET node == View(Store, off)
        n == Len(node.keys)
    IN
    /\ off \in Pages
    /\ ~IsFree(node)
    /\ IsSorted(node.keys, <)
    /\ \A i \in 1..n : lo <= node.keys[i] /\ node.keys[i] < hi
    /\ IF node.isLeaf
       THEN /\ d = Height
            /\ Len(node.vals) = n
            /\ IF off = root THEN n \in 1..LEAF_MAX_KEYS
               ELSE n \in LEAF_MIN_KEYS..LEAF_MAX_KEYS
       ELSE /\ d < Height
            /\ Len(node.children) = n + 1
            /\ IF off = root THEN n \in 1..INTERNAL_MAX_KEYS
               ELSE n \in INTERNAL_MIN_KEYS..INTERNAL_MAX_KEYS
            /\ \A i \in 1..(n + 1) :
                  NodeOK(node.children[i],
                         IF i = 1 THEN lo ELSE node.keys[i - 1],
                         IF i = n + 1 THEN hi ELSE node.keys[i], d + 1)

\* The leaves from left to right, and every page of the tree.
RECURSIVE LeavesFrom(_, _)
LeavesFrom(off, fuel) ==
    LET node == View(Store, off) IN
    IF fuel = 0 \/ off \notin Pages \/ IsFree(node) THEN <<>>
    ELSE IF node.isLeaf THEN <<off>>
    ELSE FoldLeft(LAMBDA acc, c : acc \o LeavesFrom(c, fuel - 1), <<>>, node.children)

RECURSIVE TreePages(_, _)
TreePages(off, fuel) ==
    LET node == View(Store, off) IN
    IF fuel = 0 \/ off \notin Pages \/ IsFree(node) THEN {}
    ELSE IF node.isLeaf THEN {off}
    ELSE {off} \cup UNION {TreePages(c, fuel - 1) : c \in ToSet(node.children)}

Leaves == IF root = INVALID_PAGE_ID THEN <<>> ELSE LeavesFrom(root, metaNext)
Reachable == IF root = INVALID_PAGE_ID THEN {} ELSE TreePages(root, metaNext)

\* The pages on the free list, in order, following the links FreePage wrote.
RECURSIVE FreeChain(_, _)
FreeChain(p, fuel) ==
    IF p = INVALID_PAGE_ID \/ fuel = 0 \/ p \notin Pages \/ ~IsFree(disk[p])
    THEN <<>> ELSE <<p>> \o FreeChain(disk[p].free, fuel - 1)
FreeList == FreeChain(freeHead, metaNext)

\* Every record stored in a leaf of the tree.
Records == UNION {{<<View(Store, l).keys[i], View(Store, l).vals[i]>> :
                     i \in 1..Len(View(Store, l).keys)} : l \in ToSet(Leaves)}

(* WellFormed: the tree the operations leave behind is a B+ tree: I1-I3,  *)
(* I5, I6.  Broken by a split, borrow or merge that moves the wrong       *)
(* record, key or child, or leaves a node outside its occupancy bounds.   *)
WellFormed == root = INVALID_PAGE_ID \/ NodeOK(root, KeyLo, KeyHi, 0)

(* LeafChainOK (I4, P6): following next_leaf from the leftmost leaf       *)
(* visits exactly the tree's leaves, left to right, and ends at -1.  Leaf *)
(* splits and merges rewire next_leaf in InsertIntoLeaf / FixLeafChild.   *)
LeafChainOK ==
    /\ \A i \in 1..(Len(Leaves) - 1) : View(Store, Leaves[i]).next = Leaves[i + 1]
    /\ Leaves # <<>> => View(Store, Leaves[Len(Leaves)]).next = INVALID_PAGE_ID

(* PageAccounting (I7, I8, P9): every page below the frontier is exactly  *)
(* one of: a page of the tree, or on the free list; the free list ends at *)
(* -1 without a cycle.  Broken by a merge or root shrink that forgets     *)
(* DeallocPage (a leaked page) or frees a page the tree still uses.       *)
PageAccounting ==
    /\ Len(FreeList) = Cardinality(ToSet(FreeList))
    /\ Len(FreeList) > 0 => disk[FreeList[Len(FreeList)]].free = INVALID_PAGE_ID
    /\ ToSet(FreeList) \cap Reachable = {}
    /\ ToSet(FreeList) \cup Reachable = Pages

(* RangeQueryOK (P3): range_query(lo, hi) returns, in ascending key order, *)
(* exactly the stored records with lo <= key <= hi: the descent to lo and *)
(* the walk along next_leaf agree with the leaves' contents.              *)
RangeQueryOK ==
    \A lo, hi \in (KeyLo - 1)..KeyHi :
        LET out == RangeQuery(Store, root, lo, hi) IN
        /\ IsSorted([i \in 1..Len(out) |-> out[i][1]], <)
        /\ ToSet(out) = {r \in Records : lo <= r[1] /\ r[1] <= hi}

\* spec.md I1 and P5 give the minima as ceilings: leaf 18 = ceil(36/2),
\* internal 51 = ceil(101/2), i.e. ceil((max + 1) / 2).
SPEC_LEAF_MIN_KEYS == (LEAF_MAX_KEYS + 2) \div 2
SPEC_INTERNAL_MIN_KEYS == (INTERNAL_MAX_KEYS + 2) \div 2

(* BalanceAsSpecified (spec.md P5): every non-root leaf has at least      *)
(* SPEC_LEAF_MIN_KEYS records and every non-root internal node at least   *)
(* SPEC_INTERNAL_MIN_KEYS keys, after any sequence of inserts and deletes *)
(* (InsertIntoInternal's split, FixInternalChild's underflow threshold).  *)
BalanceAsSpecified ==
    \A p \in Reachable \ {root} :
        Len(View(Store, p).keys)
          >= IF View(Store, p).isLeaf THEN SPEC_LEAF_MIN_KEYS ELSE SPEC_INTERNAL_MIN_KEYS

(* The tree implements the map of KVStore: the map it stands for is what  *)
(* Search (the code's descent and leaf scan) returns for each key.  P1,    *)
(* P2 and P4: every insert is an upsert seen by later searches, a delete   *)
(* removes exactly its key, and no other step changes what is found.       *)
\* (Store is bound to its value once, for the reason given at Descend.)
AbsStore == CHOOSE m \in {[k \in Keys |-> Search(S, root, k)] : S \in {Store}} : TRUE

KV == INSTANCE KVStore WITH store <- AbsStore
KVSpec == KV!Spec

=============================================================================
