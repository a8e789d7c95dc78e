----------------------------- MODULE BufferPool ------------------------------
(***************************************************************************)
(* The LRU buffer pool of src/src/buffer_pool.cpp under the tree's pin     *)
(* discipline: the tree pins pages with FetchPage and NewPage, writes      *)
(* through the frame pointer it got, unpins with a dirty flag, frees a     *)
(* page it no longer pins with DeallocPage (DeletePage, then FreePage),    *)
(* and flushes with FlushPage and FlushAllPages. The caller checks for the *)
(* nullptr FetchPage and NewPage return when every frame is pinned (the    *)
(* contract buffer_pool.h states) and holds at most MaxPins pins at once;  *)
(* the tree holds two: siblings during rebalancing (spec.md section 5), or *)
(* a leaf and the page NewPage gives it during a split.                    *)
(*                                                                         *)
(* A page's bytes are a member of Data, Zero (what AllocatePage leaves) or *)
(* FreeLink (the next-pointer FreePage writes into a freed page). Which     *)
(* page AllocatePage returns (free list or frontier) is the disk manager's *)
(* business, modelled in BPlusTree; here it is any page not allocated.     *)
(***************************************************************************)
EXTENDS Integers, Sequences, SequencesExt, Functions

CONSTANTS
    Frames,     \* frame indices 0..pool_size-1
    Pages,      \* page ids of the data file
    Data,       \* page contents the tree writes
    Zero,       \* a zeroed page
    FreeLink,   \* a freed page: the free-list link in its first 8 bytes
    MaxPins     \* bound: pins the tree holds at once

INVALID_PAGE_ID == -1
NoFrame == -1    \* FindVictim's "no frame"

Content == Data \cup {Zero, FreeLink}

VARIABLES
    frames,     \* frames_: [page, pin, dirty, data] per frame
    pageTable,  \* page_table_: resident page -> frame
    lru,        \* lru_list_: unpinned frames, front = least recently used
    freeList,   \* free_list_: frames holding no page; back = Last
    disk,       \* the mapped pages
    allocated,  \* pages AllocatePage handed out and FreePage has not taken back
    held        \* the caller's pins: [page, frame pointer, written through]

vars == <<frames, pageTable, lru, freeList, disk, allocated, held>>

EmptyFrame == [page |-> INVALID_PAGE_ID, pin |-> 0, dirty |-> FALSE, data |-> Zero]

\* lru_list_.erase(lru_map_[f]) when f has an entry: its latest push.
LruErase(l, f) ==
    IF \E i \in DOMAIN l : l[i] = f
    THEN RemoveAt(l, CHOOSE i \in DOMAIN l : l[i] = f /\ \A j \in DOMAIN l : l[j] = f => j <= i)
    ELSE l

\* page_table_.erase(k)
Erase(t, k) == Restrict(t, DOMAIN t \ {k})

Init ==
    \* The constructor pushes frames pool_size-1 .. 0, so frame 0 is Last.
    /\ frames = [f \in Frames |-> EmptyFrame]
    /\ pageTable = <<>>
    /\ lru = <<>>
    /\ freeList = SetToSortSeq(Frames, >)
    /\ disk = [p \in Pages |-> Zero]
    /\ allocated = {}
    /\ held = <<>>

(***************************************************************************)
(* Getting a frame for a page that is not resident (FetchPage and NewPage  *)
(* share it): the back of free_list_, else FindVictim's LRU front, whose    *)
(* page EvictFrame writes back if dirty and drops from the page table.     *)
(***************************************************************************)
FindVictim == IF lru = <<>> THEN NoFrame ELSE Head(lru)

ObtainFrame == IF freeList # <<>> THEN Last(freeList) ELSE FindVictim

EvictFrameNoFlush(f) == disk

EvictFrame(f) ==
    IF frames[f].dirty /\ frames[f].page # INVALID_PAGE_ID
    THEN [disk EXCEPT ![frames[f].page] = frames[f].data]
    ELSE disk

\* The frame state after installing page p in the obtained frame; diskAfter
\* is the disk after the eviction (and, for NewPage, after AllocatePage).
InstallFrame(p, dirty, content, diskAfter) ==
    LET f == ObtainFrame
    IN  /\ frames' = [frames EXCEPT ![f] = [page |-> p, pin |-> 1, dirty |-> dirty,
                                             data |-> content]]
        /\ IF freeList # <<>>
           THEN /\ freeList' = Front(freeList)
                /\ pageTable' = (p :> f) @@ pageTable
                /\ lru' = lru
           ELSE /\ freeList' = freeList
                /\ pageTable' = (p :> f) @@ Erase(pageTable, frames[f].page)
                /\ lru' = LruErase(lru, f)
        /\ disk' = diskAfter
        /\ held' = Append(held, [page |-> p, frame |-> f, wrote |-> FALSE])

(***************************************************************************)
(* FetchPage(p): a hit pins the frame and takes it off the LRU list; a     *)
(* miss reads the page into an obtained frame; with every frame pinned it  *)
(* returns nullptr and changes nothing.                                    *)
(***************************************************************************)
FetchHitKeepLru(p) ==
    LET f == pageTable[p]
    IN  /\ frames' = [frames EXCEPT ![f].pin = @ + 1]
        /\ held' = Append(held, [page |-> p, frame |-> f, wrote |-> FALSE])
        /\ UNCHANGED <<pageTable, lru, freeList, disk, allocated>>

FetchHit(p) ==
    LET f == pageTable[p]
    IN  /\ frames' = [frames EXCEPT ![f].pin = @ + 1]
        /\ lru' = LruErase(lru, f)
        /\ held' = Append(held, [page |-> p, frame |-> f, wrote |-> FALSE])
        /\ UNCHANGED <<pageTable, freeList, disk, allocated>>

FetchPage(p) ==
    /\ p \in allocated
    /\ Len(held) < MaxPins
    /\ \/ /\ p \in DOMAIN pageTable
          /\ FetchHit(p)
       \/ /\ p \notin DOMAIN pageTable
          /\ ObtainFrame # NoFrame
          /\ LET d == IF freeList # <<>> THEN disk ELSE EvictFrame(ObtainFrame)
             IN  InstallFrame(p, FALSE, d[p], d)
          /\ UNCHANGED <<allocated>>
       \/ /\ p \notin DOMAIN pageTable
          /\ ObtainFrame = NoFrame
          /\ UNCHANGED vars

(***************************************************************************)
(* NewPage: DiskManager::AllocatePage first (a zeroed page), then a frame  *)
(* born dirty. With every frame pinned it returns nullptr after the page   *)
(* was allocated.                                                          *)
(***************************************************************************)
NewPage(p) ==
    /\ p \notin allocated
    /\ Len(held) < MaxPins
    /\ allocated' = allocated \cup {p}
    /\ \/ /\ ObtainFrame # NoFrame
          /\ LET d == IF freeList # <<>> THEN disk ELSE EvictFrame(ObtainFrame)
             IN  InstallFrame(p, TRUE, Zero, [d EXCEPT ![p] = Zero])
       \/ /\ ObtainFrame = NoFrame
          /\ disk' = [disk EXCEPT ![p] = Zero]
          /\ UNCHANGED <<frames, pageTable, lru, freeList, held>>

\* The tree writes the page through the pointer it holds.
WriteThrough(i, d) ==
    /\ frames' = [frames EXCEPT ![held[i].frame].data = d]
    /\ held' = [held EXCEPT ![i].wrote = TRUE]
    /\ UNCHANGED <<pageTable, lru, freeList, disk, allocated>>

UnpinPageNoLru(i, dirty) ==
    /\ dirty \in {TRUE, held[i].wrote}
    /\ held' = RemoveAt(held, i)
    /\ LET f == pageTable[held[i].page]
       IN  frames' = [frames EXCEPT ![f].dirty = @ \/ dirty, ![f].pin = @ - 1]
    /\ UNCHANGED <<pageTable, lru, freeList, disk, allocated>>

(***************************************************************************)
(* UnpinPage(page, dirty): looked up by page id; at pin count 0 the frame  *)
(* goes to the back of the LRU list. The tree passes dirty = true for a    *)
(* page it wrote, and sometimes for one it did not.                        *)
(***************************************************************************)
UnpinPage(i, dirty) ==
    /\ dirty \in {TRUE, held[i].wrote}
    /\ held' = RemoveAt(held, i)
    /\ LET p == held[i].page
       IN  IF p \in DOMAIN pageTable /\ frames[pageTable[p]].pin > 0
           THEN LET f == pageTable[p]
                    pin == frames[f].pin - 1
                IN  /\ frames' = [frames EXCEPT ![f].dirty = @ \/ dirty, ![f].pin = pin]
                    /\ lru' = IF pin = 0 THEN Append(lru, f) ELSE lru
           ELSE UNCHANGED <<frames, lru>>
    /\ UNCHANGED <<pageTable, freeList, disk, allocated>>

DeallocPageKeepEntry(p) ==
    /\ p \in allocated
    /\ p \notin {held[i].page : i \in DOMAIN held}
    /\ IF p \in DOMAIN pageTable /\ frames[pageTable[p]].pin = 0
       THEN LET f == pageTable[p]
            IN  /\ frames' = [frames EXCEPT ![f] = EmptyFrame]
                /\ lru' = LruErase(lru, f)
                /\ freeList' = Append(freeList, f)
       ELSE UNCHANGED <<frames, lru, freeList>>
    /\ disk' = [disk EXCEPT ![p] = FreeLink]
    /\ allocated' = allocated \ {p}
    /\ UNCHANGED <<held, pageTable>>

(***************************************************************************)
(* BPlusTree::DeallocPage(p) of a page it no longer pins: DeletePage drops *)
(* the frame without flushing it, FreePage writes the free-list link.      *)
(***************************************************************************)
DeallocPage(p) ==
    /\ p \in allocated
    /\ p \notin {held[i].page : i \in DOMAIN held}
    /\ IF p \in DOMAIN pageTable /\ frames[pageTable[p]].pin = 0
       THEN LET f == pageTable[p]
            IN  /\ frames' = [frames EXCEPT ![f] = EmptyFrame]
                /\ lru' = LruErase(lru, f)
                /\ pageTable' = Erase(pageTable, p)
                /\ freeList' = Append(freeList, f)
       ELSE UNCHANGED <<frames, lru, pageTable, freeList>>
    /\ disk' = [disk EXCEPT ![p] = FreeLink]
    /\ allocated' = allocated \ {p}
    /\ UNCHANGED held

FlushPage(p) ==
    /\ p \in DOMAIN pageTable
    /\ frames[pageTable[p]].dirty
    /\ disk' = [disk EXCEPT ![p] = frames[pageTable[p]].data]
    /\ frames' = [frames EXCEPT ![pageTable[p]].dirty = FALSE]
    /\ UNCHANGED <<pageTable, lru, freeList, allocated, held>>

\* FlushAllPages, then disk.Sync() (no effect on what a process sees).
FlushAllPages ==
    /\ disk' = [p \in Pages |-> IF p \in DOMAIN pageTable /\ frames[pageTable[p]].dirty
                                THEN frames[pageTable[p]].data ELSE disk[p]]
    /\ frames' = [f \in Frames |-> [frames[f] EXCEPT !.dirty = FALSE]]
    /\ UNCHANGED <<pageTable, lru, freeList, allocated, held>>

Next ==
    \/ \E p \in Pages : FetchPage(p) \/ NewPage(p) \/ DeallocPage(p) \/ FlushPage(p)
    \/ \E i \in DOMAIN held : \E d \in Data : WriteThrough(i, d)
    \/ \E i \in DOMAIN held : \E dirty \in BOOLEAN : UnpinPage(i, dirty)
    \/ FlushAllPages

Spec == Init /\ [][Next]_vars

-----------------------------------------------------------------------------

TypeOK ==
    /\ frames \in [Frames -> [page : Pages \cup {INVALID_PAGE_ID}, pin : Nat,
                              dirty : BOOLEAN, data : Content]]
    /\ IsInjective(pageTable) /\ DOMAIN pageTable \subseteq Pages
    /\ Range(pageTable) \subseteq Frames
    /\ lru \in Seq(Frames) /\ freeList \in Seq(Frames)
    /\ disk \in [Pages -> Content]
    /\ allocated \subseteq Pages
    /\ held \in Seq([page : Pages, frame : Frames, wrote : BOOLEAN])

\* The pool's bookkeeping agrees with itself and with the tree's pins: every
\* frame is on exactly one of free_list_ (no page), the LRU list (resident,
\* unpinned) or neither (resident, pinned); page_table_ maps each resident
\* page to its frame; a pin count is the number of pins the tree holds.
PoolConsistent ==
    \A f \in Frames :
        LET resident == frames[f].page # INVALID_PAGE_ID
            pins == Len(SelectSeq(held, LAMBDA h : h.frame = f))
        IN  /\ resident <=> f \notin ToSet(freeList)
            /\ resident => pageTable[frames[f].page] = f
            /\ frames[f].pin = pins
            /\ Len(SelectSeq(lru, LAMBDA g : g = f)) = IF resident /\ pins = 0 THEN 1 ELSE 0
            /\ Len(SelectSeq(freeList, LAMBDA g : g = f)) <= 1

\* A frame the tree holds a pointer to keeps the page it was pinned for until
\* the tree unpins it: FetchPage's hit takes the frame off the LRU list and
\* FindVictim takes only from that list, so no eviction reuses a pinned frame.
PinnedFramesStay ==
    \A i \in DOMAIN held : frames[held[i].frame].page = held[i].page

\* A caller holding fewer pins than the pool has frames always obtains a
\* frame: FetchPage and NewPage return nullptr only when every frame is
\* pinned (buffer_pool.h, spec.md 4.2). It needs the free list and the LRU
\* list, kept by UnpinPage, DeletePage and EvictFrame, to hold every frame
\* that is not pinned.
FrameAvailable == Len(held) < Cardinality(Frames) => ObtainFrame # NoFrame

(***************************************************************************)
(* The refinement: what the tree can read of page p is the frame's bytes   *)
(* if p is resident, else the mapped page.                                 *)
(***************************************************************************)
Mem == [p \in Pages |-> IF p \in DOMAIN pageTable THEN frames[pageTable[p]].data ELSE disk[p]]

PS == INSTANCE PageStore WITH mem <- Mem, pinned <- [i \in DOMAIN held |-> held[i].page]

\* Caching is invisible: the pool implements PageStore.
PageStoreSpec == PS!Spec

=============================================================================
