----------------------------- MODULE DiskManager -----------------------------
(***************************************************************************)
(* The page allocator of src/src/disk_manager.cpp: the allocation frontier *)
(* (next_page_offset in page 0), the free list threaded through freed      *)
(* pages (its head in page 0), and the mapped file that EnsureCapacity     *)
(* grows.  Page p stands for byte offset p * PAGE_SIZE; page 0 is the      *)
(* metadata page.  The free list is the sequence of pages its links       *)
(* visit from the head; the link bytes are the page contents BufferPool    *)
(* calls FreeLink, which PageStoreSpec shows are never overwritten while   *)
(* the page is free.                                                       *)
(*                                                                         *)
(* Growing the file unmaps it first (205-207).  When ftruncate or mmap     *)
(* then fails, EnsureCapacity throws with mapped_ = nullptr and file_size_ *)
(* unchanged; the file has grown if only mmap failed.  Nothing catches the *)
(* exception, and every later PageData, metadata access and the           *)
(* destructor's WriteMetadata dereference the null mapping: the process    *)
(* dies, and the next one opens the file as the failure left it.           *)
(***************************************************************************)
EXTENDS Integers, Sequences, FiniteSetsExt

CONSTANTS
    MIN_FILE_PAGES   \* EnsureCapacity's 1 MiB floor, in pages

VARIABLES
    dmNext,      \* NextPageOffset(): the allocation frontier
    dmFree,      \* the free list from FreeListHead(), head first
    dmFileSize,  \* file_size_: the size mapped, in pages
    fileLen,     \* the file's length on disk, in pages
    dmMapped     \* mapped_ # nullptr

dmVars == <<dmNext, dmFree, dmFileSize, fileLen, dmMapped>>

\* The constructor on a new file: one page, metadata defaults msynced.
DMInit ==
    /\ dmNext = 1
    /\ dmFree = <<>>
    /\ dmFileSize = 1
    /\ fileLen = 1
    /\ dmMapped = TRUE

\* PageData's bounds check: it throws out_of_range past file_size_.
InFile(p) == p >= 0 /\ p < dmFileSize

\* EnsureCapacity's new size for `required` pages: unchanged when the file
\* is large enough, else at least double and at least the floor.
EnsureCapacity(required) ==
    IF required <= dmFileSize THEN dmFileSize
    ELSE Max({required, 2 * dmFileSize, MIN_FILE_PAGES})

\* AllocatePage through ReclaimPage: pop the head of the free list.
ReclaimPage(id) ==
    /\ dmMapped
    /\ dmFree # <<>>
    /\ id = Head(dmFree)
    /\ dmFree' = Tail(dmFree)
    /\ UNCHANGED <<dmNext, dmFileSize, fileLen, dmMapped>>

\* Seeded fault: EnsureCapacity(next) instead of EnsureCapacity(new_next).
AllocateFrontierShort(id) ==
    /\ dmMapped
    /\ dmFree = <<>>
    /\ id = dmNext
    /\ dmFileSize' = EnsureCapacity(dmNext)
    /\ fileLen' = EnsureCapacity(dmNext)
    /\ dmNext' = dmNext + 1
    /\ UNCHANGED <<dmFree, dmMapped>>

\* AllocatePage with an empty free list: grow the file to cover the page,
\* then advance the frontier past it.
AllocateFrontier(id) ==
    /\ dmMapped
    /\ dmFree = <<>>
    /\ id = dmNext
    /\ dmFileSize' = EnsureCapacity(dmNext + 1)
    /\ fileLen' = EnsureCapacity(dmNext + 1)
    /\ dmNext' = dmNext + 1
    /\ UNCHANGED <<dmFree, dmMapped>>

\* Seeded fault: SetNextPageOffset(new_next) before EnsureCapacity.
AllocateGrowthFailsAdvanced ==
    /\ dmMapped
    /\ dmFree = <<>>
    /\ dmNext + 1 > dmFileSize
    /\ dmMapped' = FALSE
    /\ fileLen' \in {fileLen, EnsureCapacity(dmNext + 1)}
    /\ dmNext' = dmNext + 1
    /\ UNCHANGED <<dmFree, dmFileSize>>

\* AllocatePage when EnsureCapacity must grow and ftruncate or mmap fails
\* after the munmap: the mapping is gone, file_size_ and page 0 keep their
\* values, and the file has the new length if only mmap failed.
AllocateGrowthFails ==
    /\ dmMapped
    /\ dmFree = <<>>
    /\ dmNext + 1 > dmFileSize
    /\ dmMapped' = FALSE
    /\ fileLen' \in {fileLen, EnsureCapacity(dmNext + 1)}
    /\ UNCHANGED <<dmNext, dmFree, dmFileSize>>

\* FreePage: push the page on the free list (the metadata page is refused).
FreePage(p) ==
    /\ dmMapped
    /\ dmFree' = IF p < 1 THEN dmFree ELSE <<p>> \o dmFree
    /\ UNCHANGED <<dmNext, dmFileSize, fileLen, dmMapped>>

\* ~DiskManager (msync, munmap) and the constructor on the existing file:
\* file_size_ is the file's length, page 0 is read as it was left.
DMReopen ==
    /\ dmFileSize' = fileLen
    /\ dmMapped' = TRUE
    /\ UNCHANGED <<dmNext, dmFree, fileLen>>

=============================================================================
