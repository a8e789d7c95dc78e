---------------------------- MODULE WriteAheadLog ----------------------------
(***************************************************************************)
(* The redo-only write-ahead log of src/src/wal.cpp, with its owner: the   *)
(* tree's constructor (construct, then Recover), its Checkpoint and its    *)
(* destructor (EndCheckpoint), and a client that follows the WAL protocol  *)
(* of wal.h (LogPageWrite, Flush, then copy the page into the data file).  *)
(*                                                                         *)
(* The fault is a process kill: everything written to the log file and to  *)
(* the mapped data file survives, the in-memory fields do not. A kill      *)
(* between AppendRecord's header write and its payload write leaves a torn *)
(* record: a header whose payload is missing.                              *)
(*                                                                         *)
(* A record is [lsn, type, page, img, whole]; `whole` is FALSE for a torn  *)
(* record. Byte layout and CRC values are abstracted: ReadAllRecords stops *)
(* at a torn record because its payload read (FullRead of data_len bytes)  *)
(* either hits EOF or swallows the next record and fails the checksum.     *)
(***************************************************************************)
EXTENDS Integers, Sequences, SequencesExt

CONSTANTS
    Pages,      \* data-file pages the client logs
    Images,     \* page after-images
    Zero,       \* the zeroed page AllocatePage hands out
    MaxLsn,     \* bound: no record is appended with an LSN above it
    MaxLogLen   \* bound: no record is appended to a log this long

ASSUME Zero \notin Images /\ MaxLsn \in Nat /\ MaxLogLen \in Nat

INVALID_PAGE_ID == -1

\* LogRecordType (wal.h)
PAGE_WRITE == 1
CHECKPOINT_BEGIN == 2
CHECKPOINT_END == 3

NoPending == [page |-> INVALID_PAGE_ID, img |-> Zero]

VARIABLES
    log,        \* the records after the file header, in file order
    hdrCkpt,    \* checkpoint_lsn in the file header
    data,       \* the data-file pages, as DiskManager::PageData exposes them
    nextLsn,    \* next_lsn_
    ckptLsn,    \* checkpoint_lsn_
    applied,    \* pages_recovered of the Recover in progress
    pc,         \* where the owning process is
    pending,    \* a page the client logged and has not copied yet
    maxAcked,   \* ghost: the highest LSN of a record whose append returned
    recovered   \* ghost: the last log step was a completed Recover

vars == <<log, hdrCkpt, data, nextLsn, ckptLsn, applied, pc, pending,
          maxAcked, recovered>>

Record == [lsn : Nat \ {0}, type : {PAGE_WRITE, CHECKPOINT_BEGIN, CHECKPOINT_END},
           page : Pages \cup {INVALID_PAGE_ID}, img : Images \cup {Zero},
           whole : BOOLEAN]

(***************************************************************************)
(* ReadAllRecords: the records before the first malformed one.             *)
(***************************************************************************)
ValidCount(l) ==
    IF \A i \in DOMAIN l : l[i].whole THEN Len(l)
    ELSE (CHOOSE i \in DOMAIN l : ~l[i].whole /\ \A j \in 1..i-1 : l[j].whole) - 1

ReadAllRecords(l) == SubSeq(l, 1, ValidCount(l))

\* The LSN of the last CHECKPOINT_END among recs, else the header's.
RedoAfter(recs, ckpt) ==
    LET ends == {i \in DOMAIN recs : recs[i].type = CHECKPOINT_END}
    IN  IF ends = {} THEN ckpt ELSE recs[Max(ends)].lsn

\* The PAGE_WRITE records Recover applies, in file order.
RedoRecords(recs, ckpt) ==
    SelectSeq(recs, LAMBDA r : r.lsn > RedoAfter(recs, ckpt)
                               /\ r.type = PAGE_WRITE
                               /\ r.page # INVALID_PAGE_ID)

ApplyImages(d, recs) == FoldLeft(LAMBDA m, r : [m EXCEPT ![r.page] = r.img], d, recs)

(***************************************************************************)
(* AppendRecord writes the header, then the payload, with no fsync. An    *)
(* append is guarded by the model's bounds.                                *)
(***************************************************************************)
CanAppend == nextLsn <= MaxLsn /\ Len(log) < MaxLogLen

AppendMarker(type) ==
    /\ CanAppend
    /\ log' = Append(log, [lsn |-> nextLsn, type |-> type, page |-> INVALID_PAGE_ID,
                           img |-> Zero, whole |-> TRUE])
    /\ nextLsn' = nextLsn + 1
    /\ maxAcked' = nextLsn
    /\ recovered' = FALSE

Truncate ==
    /\ log' = <<>>
    /\ hdrCkpt' = ckptLsn

Init ==
    \* A new WAL file: the constructor wrote a header with checkpoint_lsn 0.
    /\ log = <<>>
    /\ hdrCkpt = 0
    /\ data = [p \in Pages |-> Zero]
    /\ nextLsn = 0
    /\ ckptLsn = 0
    /\ applied = 0
    /\ pc = "closed"
    /\ pending = NoPending
    /\ maxAcked = 0
    /\ recovered = FALSE

(***************************************************************************)
(* The constructor: read checkpoint_lsn from the header, scan for the     *)
(* highest LSN. Its new-file branch (next 1, checkpoint 0) is this branch  *)
(* on the empty log of Init.                                               *)
(***************************************************************************)
OpenScanZero(recs) == IF recs = <<>> THEN 0 ELSE Last(recs).lsn + 1

OpenScan(recs) == IF recs = <<>> THEN 1 ELSE Last(recs).lsn + 1

Open ==
    /\ pc = "closed"
    /\ ckptLsn' = hdrCkpt
    /\ nextLsn' = OpenScan(ReadAllRecords(log))
    /\ pc' = "recover"
    /\ UNCHANGED <<log, hdrCkpt, data, applied, pending, maxAcked, recovered>>

(***************************************************************************)
(* Recover, up to and including disk.Sync(): every PAGE_WRITE after the    *)
(* last completed checkpoint is copied into the data file.                 *)
(***************************************************************************)
RecoverApply ==
    /\ pc = "recover"
    /\ LET recs == ReadAllRecords(log)
           redo == RedoRecords(recs, ckptLsn)
       IN  /\ data' = ApplyImages(data, redo)
           /\ applied' = Len(redo)
    /\ pc' = "redone"
    /\ UNCHANGED <<log, hdrCkpt, nextLsn, ckptLsn, pending, maxAcked, recovered>>

\* The rest of Recover: next_lsn_, then truncate if anything was applied.
RecoverFinishNoTruncate ==
    /\ pc = "redone"
    /\ LET recs == ReadAllRecords(log)
       IN  nextLsn' = IF recs = <<>> THEN nextLsn ELSE Last(recs).lsn + 1
    /\ UNCHANGED <<log, hdrCkpt>>
    /\ applied' = 0
    /\ pc' = "open"
    /\ recovered' = TRUE
    /\ UNCHANGED <<data, ckptLsn, pending, maxAcked>>

RecoverFinish ==
    /\ pc = "redone"
    /\ LET recs == ReadAllRecords(log)
       IN  nextLsn' = IF recs = <<>> THEN nextLsn ELSE Last(recs).lsn + 1
    /\ IF applied > 0 THEN Truncate ELSE UNCHANGED <<log, hdrCkpt>>
    /\ applied' = 0
    /\ pc' = "open"
    /\ recovered' = TRUE
    /\ UNCHANGED <<data, ckptLsn, pending, maxAcked>>

(***************************************************************************)
(* LogPageWrite(p, img) = AppendRecord(PAGE_WRITE, ...): the header write  *)
(* assigns next_lsn_++, the payload write completes the record.            *)
(***************************************************************************)
LogPageWriteNoIncrement(p, img) ==
    /\ pc = "open"
    /\ pending = NoPending
    /\ CanAppend
    /\ log' = Append(log, [lsn |-> nextLsn, type |-> PAGE_WRITE, page |-> p,
                           img |-> img, whole |-> FALSE])
    /\ pc' = "payload"
    /\ recovered' = FALSE
    /\ UNCHANGED <<hdrCkpt, data, nextLsn, ckptLsn, applied, pending, maxAcked>>

LogPageWrite(p, img) ==
    /\ pc = "open"
    /\ pending = NoPending
    /\ CanAppend
    /\ log' = Append(log, [lsn |-> nextLsn, type |-> PAGE_WRITE, page |-> p,
                           img |-> img, whole |-> FALSE])
    /\ nextLsn' = nextLsn + 1
    /\ pc' = "payload"
    /\ recovered' = FALSE
    /\ UNCHANGED <<hdrCkpt, data, ckptLsn, applied, pending, maxAcked>>

\* The payload write; LogPageWrite returns and the client holds the page
\* to copy (wal.h: "LogPageWrite(page_id, data); Flush();" then write back).
WritePayload ==
    /\ pc = "payload"
    /\ log' = [log EXCEPT ![Len(log)].whole = TRUE]
    /\ pending' = [page |-> Last(log).page, img |-> Last(log).img]
    /\ maxAcked' = Last(log).lsn
    /\ pc' = "open"
    /\ UNCHANGED <<hdrCkpt, data, nextLsn, ckptLsn, applied, recovered>>

\* The client's write-back of the page it logged (BufferPool::FlushPage's
\* memcpy into the map under the WAL protocol).
CopyPage ==
    /\ pc = "open"
    /\ pending # NoPending
    /\ data' = [data EXCEPT ![pending.page] = pending.img]
    /\ pending' = NoPending
    /\ UNCHANGED <<log, hdrCkpt, nextLsn, ckptLsn, applied, pc, maxAcked, recovered>>

(***************************************************************************)
(* BPlusTree::Checkpoint: BeginCheckpoint, FlushAllPages, EndCheckpoint.   *)
(* The destructor runs EndCheckpoint alone. EndCheckpoint appends its      *)
(* marker and fsyncs; then writes the header and truncates.                *)
(***************************************************************************)
BeginCheckpoint ==
    /\ pc = "open"
    /\ pending = NoPending
    /\ AppendMarker(CHECKPOINT_BEGIN)
    /\ UNCHANGED <<hdrCkpt, data, ckptLsn, applied, pc, pending>>

EndCheckpointAppend(next) ==
    /\ pc = "open"
    /\ pending = NoPending
    /\ AppendMarker(CHECKPOINT_END)
    /\ pc' = next
    /\ UNCHANGED <<hdrCkpt, data, ckptLsn, applied, pending>>

EndCheckpointFinish ==
    /\ pc \in {"ckpt", "close"}
    /\ ckptLsn' = Last(log).lsn
    /\ log' = <<>>
    /\ hdrCkpt' = Last(log).lsn
    /\ pc' = IF pc = "close" THEN "closed" ELSE "open"
    /\ UNCHANGED <<data, nextLsn, applied, pending, maxAcked, recovered>>

\* A process kill: the log file and the data file stay as they are.
Crash ==
    /\ pc # "closed"
    /\ pc' = "closed"
    /\ pending' = NoPending
    /\ nextLsn' = 0
    /\ ckptLsn' = 0
    /\ applied' = 0
    /\ UNCHANGED <<log, hdrCkpt, data, maxAcked, recovered>>

Next ==
    \/ Open
    \/ RecoverApply
    \/ RecoverFinish
    \/ \E p \in Pages, img \in Images : LogPageWrite(p, img)
    \/ WritePayload
    \/ CopyPage
    \/ BeginCheckpoint
    \/ EndCheckpointAppend("ckpt")
    \/ EndCheckpointAppend("close")
    \/ EndCheckpointFinish
    \/ Crash

Spec == Init /\ [][Next]_vars

-----------------------------------------------------------------------------

TypeOK ==
    /\ log \in Seq(Record)
    /\ hdrCkpt \in Nat /\ nextLsn \in Nat /\ ckptLsn \in Nat /\ applied \in Nat
    /\ data \in [Pages -> Images \cup {Zero}]
    /\ pc \in {"closed", "recover", "redone", "open", "payload", "ckpt", "close"}
    /\ pending \in [page : Pages, img : Images] \cup {NoPending}
    /\ maxAcked \in Nat /\ recovered \in BOOLEAN

\* P8 (spec.md): Recover run again right after a completed Recover, with
\* nothing appended in between, applies no page (wal.cpp Recover and the
\* Truncate it does only when pages_recovered > 0).
RecoverIdempotent ==
    [][pc = "recover" /\ recovered => applied' = 0]_vars

\* The records ReadAllRecords returns have strictly increasing LSNs, across
\* crashes and re-opens: Recover's `records.back().lsn + 1` and its backward
\* scan for the last CHECKPOINT_END rely on it (AppendRecord's next_lsn_++,
\* the constructor's scan, Recover's update of next_lsn_).
LsnIncreasingInFile ==
    LET recs == ReadAllRecords(log)
    IN  \A i, j \in DOMAIN recs : i < j => recs[i].lsn < recs[j].lsn

\* spec.md "LSN discipline": an append gets an LSN above that of every
\* record appended before it, in this or an earlier life of the log. The
\* constructor's next_lsn_ = 1 on a truncated log (wal.cpp:158) breaks it.
LsnStrictlyMonotone ==
    [][Len(log') = Len(log) + 1 => Last(log').lsn > maxAcked]_vars

\* wal.h: recovery reads all records and the protocol "guarantees that on
\* crash we can always redo any page write": every record whose append
\* returned is among those ReadAllRecords returns. Recover leaves a torn
\* tail in place when it applies nothing (wal.cpp:355), and later records
\* are appended after it.
AppendedRecordsReadable ==
    \A i \in DOMAIN log : log[i].whole => i <= ValidCount(log)

=============================================================================
