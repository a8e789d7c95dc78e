------------------------------ MODULE TreePins ------------------------------
(***************************************************************************)
(* The B+ tree of src/unnamed/part_002 as a client of the BufferPool: the  *)
(* order in which each helper of the tree pins, allocates, unpins and      *)
(* frees pages.  Every helper starts and returns with no page pinned, so   *)
(* a public operation is a sequence of helper scripts and the tree's use   *)
(* of the pool is any sequence of them.  A script names pages by role;     *)
(* the pages fetched are bound, when the script starts, to distinct pages  *)
(* of the index, and a page allocated is bound when NewPage hands it out.  *)
(* Which page plays which role in the real tree is abstracted: the pool    *)
(* behaves the same for any assignment.                                    *)
(*                                                                         *)
(* The tree never checks what PinPage and AllocPage return (part_002:131,  *)
(* 302, 343, 406, 578, 684-688); a nullptr is dereferenced on the next     *)
(* line.  `segv` records that, and ends the behaviour.                     *)
(*                                                                         *)
(* The page ids NewPage allocates come from DiskManager::AllocatePage, and *)
(* DeallocPage's FreePage pushes on its free list.  A failed file growth   *)
(* throws out of AllocPage with the helper's pins still held; the process  *)
(* dies, and ProcessRestart is the next process opening the file.         *)
(***************************************************************************)
EXTENDS BufferPool, DiskManager

VARIABLES
    script,     \* the calls of the running helper not made yet
    bound,      \* role -> page for the running helper
    segv        \* the tree dereferenced a nullptr from the pool

tvars == <<vars, dmVars, script, bound, segv>>

F(r) == [op |-> "fetch", role |-> r, dirty |-> FALSE]     \* PinPage
U(r, d) == [op |-> "unpin", role |-> r, dirty |-> d]      \* UnpinPage
N(r) == [op |-> "new", role |-> r, dirty |-> FALSE]       \* AllocPage
D(r) == [op |-> "dealloc", role |-> r, dirty |-> FALSE]   \* DeallocPage

(***************************************************************************)
(* The helpers' call sequences.                                            *)
(***************************************************************************)
\* One level of SearchLeaf's loop, InsertRecursive, DeleteRecursive, FixChild,
\* Delete's root check; the leaf read of Search and RangeQuery.
VisitScript == <<F("a"), U("a", FALSE)>>
\* InsertIntoLeaf (upsert, room) and InsertIntoInternal (room), DeleteFromLeaf.
WriteScript == <<F("a"), U("a", TRUE)>>
\* Insert into an empty tree, and Insert's new root after a root split.
NewRootScript == <<N("a"), U("a", TRUE)>>
\* InsertIntoLeaf's split: the leaf stays pinned while AllocPage runs.
LeafSplitScript ==
    <<F("a"), N("b"), U("b", TRUE), U("a", TRUE), F("b"), U("b", FALSE)>>
\* InsertIntoInternal's split: the node is unpinned before AllocPage.
InternalSplitScript ==
    <<F("a"), U("a", FALSE), N("b"), U("b", TRUE), F("a"), U("a", TRUE)>>
\* FixLeafChild / FixInternalChild borrowing from a sibling "s".
BorrowScript ==
    <<F("p"), U("p", FALSE), F("s"), U("s", TRUE), F("c"), U("c", TRUE),
      F("p"), U("p", TRUE)>>
\* Seeded fault: the parent's separator removed before the halves are unpinned.
MergeScriptParentFirst ==
    <<F("p"), U("p", FALSE), F("l"), F("r"), F("p"), U("p", TRUE),
      U("l", TRUE), U("r", FALSE), D("r")>>
\* FixLeafChild / FixInternalChild merging right into left: both pinned.
MergeScript ==
    <<F("p"), U("p", FALSE), F("l"), F("r"), U("l", TRUE), U("r", FALSE),
      D("r"), F("p"), U("p", TRUE)>>
\* Delete's root shrink: the old root is unpinned, then freed.
RootShrinkScript == <<F("a"), U("a", FALSE), D("a")>>

Scripts == {VisitScript, WriteScript, NewRootScript, LeafSplitScript,
            InternalSplitScript, BorrowScript, MergeScript, RootShrinkScript}

RolesOf(s, op) == {s[i].role : i \in {j \in DOMAIN s : s[j].op = op}}
FetchRoles(s) == RolesOf(s, "fetch") \ RolesOf(s, "new")

TInit ==
    /\ Init
    /\ DMInit
    /\ script = <<>>
    /\ bound = <<>>
    /\ segv = FALSE

\* Page ids AllocatePage can still hand out within the bound Pages.
FreeIds == Len(dmFree) + Cardinality({q \in Pages : q >= dmNext})

\* A helper starts on pages of the index; it needs a page id per AllocPage
\* it makes.
Begin ==
    /\ script = <<>>
    /\ ~segv /\ dmMapped
    /\ \E s \in Scripts :
          /\ Cardinality(RolesOf(s, "new")) <= FreeIds
          /\ \E b \in [FetchRoles(s) -> allocated] :
                /\ IsInjective(b)
                /\ script' = s
                /\ bound' = b
    /\ UNCHANGED <<vars, dmVars, segv>>

\* PinPage(page) = FetchPage: nullptr when the page is not resident and
\* every frame is pinned.
CallFetch ==
    /\ script # <<>> /\ Head(script).op = "fetch"
    /\ LET p == bound[Head(script).role]
           null == p \notin DOMAIN pageTable /\ ObtainFrame = NoFrame
       IN  /\ FetchPage(p)
           /\ segv' = null
           /\ script' = IF null THEN <<>> ELSE Tail(script)
    /\ UNCHANGED <<bound, dmVars>>

\* AllocPage = NewPage (DiskManager::AllocatePage first), then the tree
\* reads next_page_offset_.  A failed growth throws out of the helper.
CallNew ==
    /\ script # <<>> /\ Head(script).op = "new"
    /\ \/ \E p \in Pages :
             LET null == ObtainFrame = NoFrame IN
             /\ ReclaimPage(p) \/ AllocateFrontier(p)
             /\ NewPage(p)
             /\ bound' = (Head(script).role :> p) @@ bound
             /\ segv' = null
             /\ script' = IF null THEN <<>> ELSE Tail(script)
       \/ /\ dmNext \in Pages
          /\ AllocateGrowthFails
          /\ script' = <<>>
          /\ UNCHANGED <<vars, bound, segv>>

CallUnpin ==
    /\ script # <<>> /\ Head(script).op = "unpin"
    /\ LET c == Head(script)
       IN  UnpinPage(CHOOSE i \in DOMAIN held : held[i].page = bound[c.role], c.dirty)
    /\ script' = Tail(script)
    /\ UNCHANGED <<bound, segv, dmVars>>

\* DeallocPage = DeletePage, then DiskManager::FreePage.
CallDealloc ==
    /\ script # <<>> /\ Head(script).op = "dealloc"
    /\ DeallocPage(bound[Head(script).role])
    /\ FreePage(bound[Head(script).role])
    /\ script' = Tail(script)
    /\ UNCHANGED <<bound, segv>>

\* BPlusTree::Sync and Checkpoint: FlushAllPages between operations.
CallSync ==
    /\ script = <<>> /\ ~segv /\ dmMapped
    /\ FlushAllPages
    /\ UNCHANGED <<script, bound, segv, dmVars>>

\* ~BPlusTree then BPlusTree on the same file: ~BufferPool flushes every
\* frame, the new pool starts with every frame free.
Reopen ==
    /\ script = <<>> /\ ~segv /\ dmMapped
    /\ frames' = [f \in Frames |-> EmptyFrame]
    /\ pageTable' = <<>>
    /\ lru' = <<>>
    /\ freeList' = SetToSortSeq(Frames, >)
    /\ disk' = Mem
    /\ DMReopen
    /\ UNCHANGED <<allocated, held, script, bound, segv>>

\* The process died on the null mapping a failed growth left; the next one
\* opens the file: the dirty frames are lost with the pool, and the pins the
\* aborted helper held with it.
ProcessRestart ==
    /\ ~dmMapped
    /\ frames' = [f \in Frames |-> EmptyFrame]
    /\ pageTable' = <<>>
    /\ lru' = <<>>
    /\ freeList' = SetToSortSeq(Frames, >)
    /\ held' = <<>>
    /\ DMReopen
    /\ UNCHANGED <<disk, allocated, script, bound, segv>>

TNext ==
    \/ Begin
    \/ CallFetch
    \/ CallNew
    \/ CallUnpin
    \/ CallDealloc
    \/ CallSync
    \/ Reopen
    \/ ProcessRestart

TSpec == TInit /\ [][TNext]_tvars

-----------------------------------------------------------------------------

(* spec.md section 6: an insert that meets an all-pinned pool gets Full,  *)
(* and the tree stays consistent.  The tree never checks PinPage's and    *)
(* AllocPage's result, so this needs every pin and allocation of every    *)
(* helper to get a frame: the helpers hold at most two pins at once (a    *)
(* leaf and its new sibling in a split, two siblings in a merge), and the *)
(* pool must always have a frame for them.                                 *)
TreeGetsFrames == ~segv

(* The allocator's accounts stay exact across allocations, frees, nullptr *)
(* returns and failed growths: every page below the frontier is either    *)
(* handed out or on the free list, never both, and the list has no page   *)
(* twice.  At risk from AllocatePage's order: page 0's next_page_offset   *)
(* must move only after EnsureCapacity succeeded, or a failed growth      *)
(* leaks a page id that the next process never hands out.                 *)
AllocatorAccounts ==
    /\ IsInjective(dmFree)
    /\ allocated \cap ToSet(dmFree) = {}
    /\ allocated \cup ToSet(dmFree) = 1..(dmNext - 1)

(* Every page the pool holds, and every page the allocator has handed out *)
(* or can hand out again, lies inside the mapped file, so PageData's      *)
(* bounds check never throws for a read of FetchPage or a write-back of   *)
(* EvictFrame.  At risk from the capacity AllocatePage asks for and from  *)
(* the file size a restart after a failed growth maps.                   *)
PagesWithinFile ==
    dmMapped =>
        \A p \in allocated \cup ToSet(dmFree) \cup DOMAIN pageTable : InFile(p)
=============================================================================
