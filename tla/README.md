# TLA+ models of bptree-db

These modules model the storage core of bptree-db with TLC. That core is a
single-process B+ tree index over a buffer pool, a memory-mapped page file
with a free list, and a redo-only write-ahead log. Every definition is
translated from the C++ under `src/`. `PROJECT.json` maps each definition
to the lines it models.

## The system

| Part | Source | State | Operations |
|---|---|---|---|
| B+ tree | `src/unnamed/part_002` (bplus_tree.cpp) | `root_offset_`, `next_page_offset_`, the node pages | Search, RangeQuery, Insert (upsert, leaf and internal splits, new root), Delete (borrow left, borrow right, merge, root shrink), Sync, Checkpoint, constructor and destructor |
| Buffer pool | `src/src/buffer_pool.cpp` | frames (page id, pin count, dirty bit), page table, LRU list, free frames | FetchPage, UnpinPage, NewPage, DeletePage, FlushPage, FlushAllPages, EvictFrame |
| Disk manager | `src/src/disk_manager.cpp` | mapped file, file size, page 0 (root offset, next page offset, free list head) | AllocatePage (ReclaimPage, else extend through EnsureCapacity), FreePage, metadata accessors, Sync |
| Write-ahead log | `src/src/wal.cpp`, `src/unnamed/part_006` (wal.h) | log file, header checkpoint LSN, `next_lsn_` | AppendRecord, LogPageWrite, Begin/EndCheckpoint, Recover, Truncate |
| Page layout, constants | `src/unnamed/part_007` (config.h, page.h) | leaf: keys, payloads, next leaf; internal: keys, children | |

**How the parts interact.**
- The tree reads and writes pages only through the pool: PinPage, then UnpinPage with a dirty flag.
- The pool copies a dirty frame into the mapped page when the frame is evicted or flushed.
- The disk manager hands out zeroed pages. It threads freed pages into a list through their first 8 bytes.
- Page 0 holds the root offset, the next page offset and the free-list head. The tree writes it with WriteMetadata, which does memcpy into the map and then msync.
- The WAL is created by the tree's constructor, which runs Recover and hands the log to the pool with SetWAL. The pool never calls it: FlushPage, FlushAllPages and EvictFrame copy frames without logging them. This contradicts spec.md section 4.2 and the comment in wal.h.

**Hard behaviours.**
- Splits and merges that rewire separators, children and `next_leaf` across three or more pages.
- The free list, where pages freed by merges are reused by splits.
- Write-back in any order, done by whatever pages the LRU picks.
- A process kill between a write to page 0 and the write-back of the pages it refers to.
- Recovery that depends on LSNs surviving truncation, and on a log with a torn tail.
- A pool whose frames are all pinned, so NewPage fails after it has already allocated a disk page.

## Modules

**`KVStore`** is the abstract specification: the map from keys to payloads that spec.md P1-P4 promise. insert is an upsert, delete removes a present key, and nothing else changes the map.

**`BPlusTree`** is the tree over its storage. Its variables:
- `cache`: the pool's dirty frames.
- `disk`: the mapped pages 1..metaNext-1.
- `metaRoot`, `metaNext`, `freeHead`: page 0.
- `fileSize`: in pages.
- `root`, `nextOff`: the tree's copies.

A page is a record. Page p stands for byte offset p*4096, and INVALID_PAGE_ID is -1.
- `View` is what PinPage returns: the frame if one exists, else the mapped page.
- `Write` is a write followed by UnpinPage(dirty).
- `AllocPage` is DiskManager::AllocatePage plus BufferPool::NewPage: a zeroed page on disk and in a frame.
- `DeallocPage` is DeletePage (drop the frame) followed by FreePage (push the page on the list).

Each public operation is one action, because the tree is single-threaded and never yields:
- `Insert(k, v)` covers InsertRecursive, InsertIntoLeaf, InsertIntoInternal and the new-root path. WriteMetadata is the `meta` flag of `Commit`.
- `Delete(k)` covers DeleteRecursive, DeleteFromLeaf, FixChild, the three cases each of FixLeafChild and FixInternalChild, and the root shrink. Deleting an absent key returns NotFound and is a stutter step.
- `Restart` is the destructor (WriteMetadata, FlushAllPages, EndCheckpoint) followed by the constructor (ReadMetadata with its clamps). Recovery applies nothing, because the log holds no page records.
- `WriteBack(p)` is the copy EvictFrame and FlushPage make of one dirty frame. Which frame the LRU picks depends on the pool size and the access pattern, so any dirty frame may be written between operations. This covers every pool size of at least one frame per page an operation pins.
- `Sync` is FlushAllPages. Checkpoint has the same effect on pages.

Search and RangeQuery are operators (they change nothing). Data is abstracted: a payload is a model value, standing for a string of at most 99 bytes with no NUL, which the padding and strnlen of the code keep intact.

`Spec` contains all the actions. `TreeSpec` leaves out WriteBack and Sync, which move a frame to the file without changing `View`; see the bounds section for why this is enough for the tree's properties.

**`BPlusTreeCrash`** composes the tree with a process kill:
- The pool is lost. The mapped file and page 0 survive, because the operating system still holds them.
- The index is re-opened through ReadMetadata.
- The ghost variables `flushed` and `touched` record what the last Sync or clean close acknowledged, and which keys changed since.

**`WriteAheadLog`** is the log of `wal.cpp` together with its owner. Its variables:
- `log`: the records after the file header, each `[lsn, type, page, img, whole]`. `whole` is FALSE for a torn record.
- `hdrCkpt`: the header's checkpoint LSN.
- `data`: the data-file pages.
- `nextLsn`, `ckptLsn`: the in-memory fields.
- `applied`: Recover's `pages_recovered`.
- `pc`: where the owning process is.
- `pending`: a page the client logged and has not copied yet.
- Two ghosts: `maxAcked`, the highest LSN whose append returned, and `recovered`, set when the last log step was a completed Recover.

The actions and what they stand for:
- `Open` is the constructor's header read and scan for the highest LSN.
- `RecoverApply` and `RecoverFinish` split Recover at `disk.Sync()`, so that a kill can fall between the redo and the truncate.
- `LogPageWrite` and `WritePayload` are AppendRecord's two writes.
- `CopyPage` is the client's write-back under the protocol of wal.h.
- `BeginCheckpoint` is BeginCheckpoint.
- `EndCheckpointAppend` and `EndCheckpointFinish` are EndCheckpoint: marker and fsync, then header and truncate. They run from Checkpoint, or from the destructor for a clean close.
- `Crash` is a process kill. The files stay; the fields and the pending page are lost.

`ReadAllRecords` stops at the first torn record. The model cannot tell a torn payload that ends at EOF from one that swallows the next record and fails the checksum, and it needs not: both end the scan there.

**`Crc32`** translates `WriteAheadLog::CRC32` and `kCRC32Table`, with each 32-bit word as a pair of 16-bit halves so that TLC can hold it. `RefCRC32` is the bitwise ISO 3309 definition, used as the reference.

**`BufferPool`** is `buffer_pool.cpp`. Its variables:
- `frames`: page id, pin count, dirty bit and content of each frame.
- `pageTable`: a function from page to frame.
- `lru` and `freeList`: sequences of frame indices, as in the code.
- `disk`: the mapped pages.
- `allocated`: the disk manager's allocated pages.
- `held`: the caller's pins, with the frame each pointer refers to.

The actions and what they stand for:
- `FetchPage` is one action with three cases: a hit, a miss, and nullptr.
- `NewPage` calls AllocatePage first, then obtains a frame. Its nullptr case still allocates the page.
- `UnpinPage` looks the frame up by page id.
- `DeallocPage` is the tree's DeletePage followed by FreePage.
- `FlushPage` and `FlushAllPages` are those calls.
- `WriteThrough` is a write through a pinned pointer.
- Obtaining a frame is shared by FetchPage and NewPage: the back of `freeList`, else `FindVictim` (the front of `lru`), which `EvictFrame` writes back.

The caller holds at most MaxPins pins and checks for nullptr, as buffer_pool.h documents.

**`PageStore`** is what the pool promises: pages with one content each, born zeroed, changed only while pinned, and overwritten with a free-list link when freed. BufferPool implements it under the mapping "a page's content is its frame's if resident, else the mapped page's". This is the dirty-frame abstraction the tree model is built on.

**`TreePins`** composes the tree with the bounded pool. It extends BufferPool and adds the tree as the pool's client, keeping only the order of the tree's calls. Every tree helper starts and returns with no page pinned, so a public operation is a sequence of helper scripts:
- `VisitScript`: one level of SearchLeaf, InsertRecursive, DeleteRecursive or FixChild (PinPage, UnpinPage clean).
- `WriteScript`: an in-place leaf or internal update (PinPage, UnpinPage dirty).
- `NewRootScript`: the first insert and a new root (AllocPage, UnpinPage dirty).
- `LeafSplitScript`: the leaf stays pinned while AllocPage runs (part_002:302-364).
- `InternalSplitScript`: the node is unpinned before AllocPage (369-428).
- `BorrowScript`: parent, sibling, child, parent, one at a time.
- `MergeScript`: both siblings pinned together, the right one freed, then the parent.
- `RootShrinkScript`: the old root is unpinned, then freed.

`Begin` starts a script, with its pages bound to distinct allocated pages. `CallFetch`, `CallNew`, `CallUnpin` and `CallDealloc` make one call each. `CallSync` is Sync and Checkpoint. `Reopen` is the destructor's FlushAllPages followed by a fresh pool. The tree never checks what PinPage or AllocPage return, so a nullptr sets `segv` and ends the behaviour.

**`DiskManager`** is the page allocator on its own. Its variables:
- `dmNext`: the frontier in page 0.
- `dmFree`: the free list, head first.
- `dmFileSize`: `file_size_`.
- `fileLen`: the file's length on disk.
- `dmMapped`: `mapped_ # nullptr`.

Its actions:
- `ReclaimPage` pops the free list.
- `AllocateFrontier` grows the file with `EnsureCapacity(next + 1)`, then advances the frontier.
- `AllocateGrowthFails` is EnsureCapacity's munmap followed by a failed ftruncate or mmap. It leaves the mapping null and the frontier where it was. The file has grown if only mmap failed.
- `FreePage` pushes a page on the free list.
- `DMReopen` is the destructor followed by the constructor on the existing file.
- `InFile` is PageData's bounds check.

TreePins composes DiskManager with the pool. NewPage's page id comes from ReclaimPage or AllocateFrontier, and DeallocPage ends with FreePage. A failed growth throws out of the running helper with its pins held. Nothing catches the exception, and every later disk access dereferences the null mapping, the destructor's included. So the process ends there, and `ProcessRestart` is the next process opening the file. That process has a fresh pool, and the dirty frames are lost.

**`MC_BPlusTree`**, **`MC_BPlusTreeCrash`**, **`MC_WriteAheadLog`**, **`MC_Crc32`**, **`MC_BufferPool`** and **`MC_TreePins`** instantiate the constants for TLC:
- LEAF_MAX_KEYS = 3 and INTERNAL_MAX_KEYS = 2 keep the parities of the code's 35 and 100. A full leaf splits into two minimum leaves. A full internal node splits into halves of (max+1)/2 and max/2 keys with the middle key promoted. An odd internal maximum would make the right half too small, which the code's 100 never does.
- MIN_FILE_PAGES = 4 stands for EnsureCapacity's 1 MiB floor, so the file grows both by the floor and by doubling.

## Properties and runs

| Run | Spec, bounds | Properties | Shows |
|---|---|---|---|
| `tree_deep` | TreeSpec, keys 1..10, one payload | TypeOK, WellFormed, LeafChainOK, PageAccounting, RangeQueryOK | every sequence of inserts, deletes and restarts keeps a B+ tree (I1-I3, I5, I6), a leaf chain that visits exactly the leaves in order (I4, P6), pages that are exactly tree or free list (I7, I8), and exact range scans (P3) |
| `tree_refines_kv` | TreeSpec, keys 1..6, two payloads | KVSpec | what Search returns implements KVStore at every step (P1, P2, P4) |
| `writeback` | Spec, keys 1..4, two payloads | PageAccounting | write-back in any order, Sync and restart never overwrite a free-list link with a stale frame |
| `crash_p7` (violation) | CrashSpec, keys 1..4 | SyncedRecordsSurviveCrash | P7 fails: a crash after a root split loses acknowledged records |
| `spec_balance` (violation) | TreeSpec, keys 1..10 | BalanceAsSpecified | the spec's internal minimum ceil(101/2) = 51 is not what the code keeps |
| `crash_reopen` (violation) | CrashSpec, keys 1..4 | ReopenedTreeWellFormed | P7's "structurally valid" fails: a kill after the first insert re-opens on a zeroed root |
| `tree_pins` | TSpec, 2 frames, 4 pages, floor 4 pages | TreeGetsFrames, AllocatorAccounts, PagesWithinFile | every pin and allocation of every helper gets a frame from a two-frame pool; across failed growths and restarts, the allocator neither leaks nor duplicates a page, and the file covers every page in use |
| `wal` | Spec, pages {1,2}, two images, LSN <= 4, at most 3 records | TypeOK, LsnIncreasingInFile, RecoverIdempotent | logging, checkpoints, clean closes, kills (between a record's two writes too) and recoveries keep file LSNs increasing; a second Recover applies nothing (P8) |
| `wal_lsn_reset` (violation) | one page | LsnStrictlyMonotone | after a clean close, the next life of the log restarts LSNs at 1, below the header's checkpoint LSN |
| `wal_torn_tail` (violation) | one page | AppendedRecordsReadable | a torn record survives a Recover that applies nothing, and hides every record appended after it |
| `crc_table` (violation) | all one-byte messages | CrcIsIso3309 | kCRC32Table is not the ISO 3309 table its comment names |
| `pool` | 2 frames, 3 pages, up to 3 pins | TypeOK, PoolConsistent, PinnedFramesStay, FrameAvailable, PageStoreSpec | the pool's lists agree with the pins, a pinned frame is never evicted, nullptr only when every frame is pinned, and the pool implements PageStore |

**The properties:**
- `WellFormed` walks the tree from the root. It checks strictly ascending keys within the separator bounds, the occupancy bounds for every non-root node, at least one key in the root, and every leaf at the depth of the leftmost one.
- `LeafChainOK` compares the `next_leaf` chain with the leaves of the tree, left to right.
- `PageAccounting` says the free list is acyclic and ends at -1, and that it partitions 1..metaNext-1 with the pages of the tree. A leaked page, a double free and a freed page still in use all break it.
- `RangeQueryOK` compares RangeQuery, which descends to `lower` and walks the chain, with the records of the leaves. It does so for every pair of bounds, including bounds outside the key range.
- `KVSpec` is `KVStore!Spec` under the mapping "key -> what Search returns".
- `LsnIncreasingInFile`: the records ReadAllRecords returns have strictly increasing LSNs. Recover's backward scan for the last CHECKPOINT_END and its `back().lsn + 1` rely on it.
- `RecoverIdempotent` (P8): a Recover that directly follows a completed Recover applies no page. This includes a kill between Recover's redo and its truncate.
- `PoolConsistent`: every frame is on exactly one of the free list (no page), the LRU list (resident, unpinned) or neither (pinned); the page table inverts the frames; each pin count equals the caller's pins on that frame.
- `PinnedFramesStay`: a frame the caller holds keeps its page until unpinned.
- `FrameAvailable`: a caller with fewer pins than frames always obtains a frame.
- `ReopenedTreeWellFormed`: after a kill and re-open, the tree is WellFormed (spec.md P7, last clause).
- `TreeGetsFrames`: no PinPage or AllocPage of the tree returns nullptr. Holding it needs both the helpers' pin order and the pool's free and LRU lists.
- `AllocatorAccounts`: the pages below the frontier are exactly the pages handed out and the free list, with no overlap and no duplicate. A failed growth must leave the frontier where it was.
- `PagesWithinFile`: every page the pool holds, handed out or free, passes PageData's bounds check.
- `PageStoreSpec` is `PageStore!Spec` under the content mapping: eviction, write-back and DeletePage are invisible to the caller.

**Findings.**
1. `crash_p7`, a code bug. TLC needs six steps: insert 1, Sync, insert 2, 3 and 4 (a root split), then a kill.
   - Insert sets `root_offset_` to the new root and calls WriteMetadata, which writes page 0 in the map and msyncs it (part_002:268).
   - In TLC's trace the split leaves leaf 1 = {1, 2} (its next is leaf 2), leaf 2 = {3, 4} and root 3 = [3; 1, 2], all as dirty frames. Only leaf 1 = {1}, written by Sync, is in the file; pages 2 and 3 hold AllocatePage's zeroed page.
   - After the kill, the re-opened tree descends from a page with no keys whose child is offset 0. Key 1, acknowledged by Sync, is not found.
   - The WAL cannot repair this, because the pool never logs a page.
2. `spec_balance`, a divergence between spec and code. config.h:60 computes INTERNAL_MIN_KEYS as (100+1)/2 = 50. spec.md I1 and P5 require 51 = ceil(101/2). A split of a full internal node (101 keys, one promoted) leaves 50 keys on each side, so the spec's bound cannot hold. The model has the same parity: the spec gives ceil(3/2) = 2, the code 1.
3. `wal_lsn_reset`, a code bug. The sequence is open, log a page, clean close, re-open, log a page.
   - The clean close is EndCheckpoint: it truncates the log and writes checkpoint_lsn = 2 into the header.
   - The constructor finds no records and sets `next_lsn_ = 1` (wal.cpp:158).
   - The new record gets LSN 1. A Recover after a kill takes redo_after_lsn = 2 from the header and skips it.
   - spec.md 4.3 says LSNs are strictly monotone.
4. `wal_torn_tail`, a gap in the spec. The sequence is a kill between a record's header write and its payload write, then a re-open.
   - Recover applies nothing, so it does not truncate (wal.cpp:355, as spec.md 4.3 step 5 says).
   - The next record is appended behind the torn one, where ReadAllRecords never reaches.
   - Neither the spec nor wal.h ("4. Truncate the log") accounts for it.
5. `crc_table`, a divergence from the code's own comment. 20 of the 256 entries of kCRC32Table are not the ISO 3309 table named at wal.cpp:19. Entry 10 is 0xE0D5E91B; ISO 3309 gives 0xE0D5E91E. Writer and reader share the table, so logs still verify.
6. `crash_reopen`, a code bug, in three steps: insert into an empty tree, then a kill.
   - The root leaf exists only as a dirty frame when WriteMetadata msyncs its offset into page 0 (part_002:247).
   - The re-opened root is AllocatePage's zeroed page. It decodes as an internal node with no keys and child offset 0, which is not a tree.
   - SearchLeaf returns NotFound for a child below PAGE_SIZE, but InsertRecursive has no such guard.
7. The tree over a one-frame pool, a code bug that `tree_pins` bounds. The constructor accepts any pool_size. With `Frames <- FramesOne` in MC_tree_pins.cfg, TLC fails TreeGetsFrames after a first insert and a leaf split:
   - InsertIntoLeaf keeps the leaf pinned and calls AllocPage (part_002:343).
   - NewPage has already allocated the page when it finds no frame, and returns nullptr. LeafPage is then built on the nullptr.
   - spec.md section 6 says an all-pinned pool surfaces Full and leaves the tree consistent. With two frames no call fails, because no helper holds more than two pins.

**Mutants.** Each property of a passing run has a seeded fault in the operator it guards, defined just before that operator in `BPlusTree`. TLC finds each one:
- next_page_offset_ not refreshed: TypeOK;
- borrowing from a left sibling that has only the minimum: WellFormed;
- a merged leaf that keeps its own next: LeafChainOK;
- a merge that does not free the right page: PageAccounting;
- a walk that stops at the first key >= upper: RangeQueryOK;
- equal keys descending left: KVSpec;
- DeletePage not dropping the frame: PageAccounting under write-back;
- the new-file constructor starting next_lsn_ at 0: TypeOK (wal);
- AppendRecord not incrementing next_lsn_: LsnIncreasingInFile;
- Recover never truncating: RecoverIdempotent;
- DeletePage keeping its page-table entry: TypeOK (pool);
- a FetchPage hit that leaves the frame on the LRU list: PoolConsistent and PinnedFramesStay;
- UnpinPage not pushing a frame that reaches pin 0 onto the LRU list: FrameAvailable;
- EvictFrame not writing back a dirty victim: PageStoreSpec;
- a merge that pins the parent before unpinning the two siblings (in `TreePins`): TreeGetsFrames;
- AllocatePage advancing the frontier before EnsureCapacity, so a failed growth leaks the page id (in `DiskManager`): AllocatorAccounts;
- AllocatePage asking for `EnsureCapacity(next)` instead of `new_next` (in `DiskManager`): PagesWithinFile.

## Bounds and reductions

- **Ten keys** are the fewest with which FixInternalChild borrows: a parent needs a child with two keys (three leaves) beside one with one key (two leaves). Eight keys give three levels, which internal merges need. `tree_deep` reaches every case of both Fix operators, which `tlc -coverage` confirms.
- **Six keys and two payloads** give two-level trees, every leaf case, and upserts that change a payload. The refinement check evaluates Search on every transition and is the costly run.
- **`VIEW ShapeView`** in the TreeSpec runs identifies two states whose trees have the same shape, with page numbers left out (`next_leaf` as a leaf rank), whose free lists have the same length, and whose counters agree. Such states differ only by a renaming of pages: every read goes through View, and AllocPage takes whatever page heads the list. Every property checked is invariant under renaming.
- **TreeSpec instead of Spec** for the tree's properties: WriteBack and Sync leave View unchanged, and View is all the tree reads. The `writeback` run checks the one interaction that is not about View: a freed page must lose its frame, or a write-back would overwrite its free-list link.
- **WAL: two pages, two images, LSN <= 4, at most 3 records.** That is enough for a page write, a checkpoint's two markers and a truncate within one life, and for every kill point. LSN 4 lets a second life of the log reach past the first one's checkpoint. A fifth LSN multiplies the states by 17.
- **Pool: two frames, three pages, up to three pins.** Three pages over two frames force eviction. Three pins over two frames reach both nullptr cases, and two pins of one page reach pin counts above 1. `tlc -coverage` shows every case of FetchPage and NewPage firing.
- **Tree pins: two frames, four pages, up to three pins.** With four pages over two frames, a helper's pages are evicted between its calls. Two frames are the fewest the helpers need. Four pages and a floor of four pages grow the file twice: to the floor at the first page, and by doubling at the fourth. A third pin would be needed only by an order the code does not use, and the cap of three lets such an order be checked.
- **WAL and pool: no fairness.** The WAL and pool properties are safety and action properties. Nothing in the code runs by itself: every step is a call made by the owner.
- **No fairness.** The runs check safety only. The tree makes no promise that something eventually happens: every operation is a call that returns.

## What is not modelled

Not modelled:
- the tree after a failed file growth. The process keeps running until it touches the null mapping, and the model ends it at the throw. The code never returns the IOError spec.md section 6 describes; this is read from the code, not found by a run;
- the byte arithmetic of EnsureCapacity (rounding to PAGE_SIZE, lines 199 and 201). In pages, the sizes are always whole pages;
- operations after a crashed re-open. The zeroed root gives InsertRecursive a child offset of 0, and what the code then does is undefined; `crash_reopen` stops at the invalid tree;
- what the tree does after a nullptr from the pool. The write through nullptr crashes the process, and `segv` ends the behaviour there;
- the WAL protocol inside the pool: SetWAL only stores the pointer, and no flush logs a page. WriteAheadLog models the protocol with the client wal.h describes;
- Recover's AllocatePage loop that grows the data file (wal.cpp:331). No record in the composed system ever needs it, and the WAL model's data file holds every page;
- FullWrite and FullRead's retry on short writes and EINTR, the magic number check, and statistics counters (hits, misses, bytes written);
- TouchFrame, which nothing calls;
- the legacy mmap tree (`part_001`) and the older disk manager without a free list (`part_003`), which the current tree does not use. `part_005` is the current `disk_manager.h`, the header of the DiskManager component;
- the shell, the benchmark and the visualizer, which are front ends over the public API;
- Status, a result type with no state;
- mmap, ftruncate and open errors, and the byte encoding of pages and log records (offsets inside a page).
