--------------------------- MODULE BPlusTreeCrash ---------------------------
(***************************************************************************)
(* The tree of module BPlusTree with a process crash (spec.md P7, S6).    *)
(* Killing the process loses the buffer pool; what was copied into the    *)
(* mapped file (write-back, Sync, AllocatePage's memset, FreePage's link) *)
(* and the metadata page survive, since the operating system still holds *)
(* the file's pages.  Re-opening runs DiskManager's constructor, WAL       *)
(* recovery and BPlusTree::ReadMetadata; the buffer pool never logs a     *)
(* page to the WAL (see README), so recovery finds nothing to apply.      *)
(* A crash ends the behaviour: the properties judge the re-opened tree.   *)
(*   flushed - what a search returned for each key when Sync (or a clean  *)
(*             close, Restart) last acknowledged everything;              *)
(*   touched - the keys an insert or delete has changed since then.       *)
(***************************************************************************)
EXTENDS BPlusTree

VARIABLES crashed, flushed, touched

cvars == <<vars, crashed, flushed, touched>>

\* What a search returns for every key, evaluated once per state.
Contents == CHOOSE m \in {[k \in Keys |-> Search(S, root, k)] : S \in {Store}} : TRUE

CrashInit ==
    /\ Init
    /\ crashed = FALSE
    /\ flushed = [k \in Keys |-> NoVal]
    /\ touched = {}

\* The process is killed between two operations; the index is re-opened
\* on the same file: the pool starts empty, the root and next-page offset
\* are read back from page 0.
Crash ==
    LET m == ReadMetadata(metaRoot, metaNext, fileSize) IN
    /\ ~crashed
    /\ crashed' = TRUE
    /\ cache' = <<>>
    /\ root' = m.root
    /\ nextOff' = m.next
    /\ UNCHANGED <<disk, metaRoot, metaNext, freeHead, fileSize, flushed, touched>>

\* Sync and a clean close acknowledge every record; an insert or a delete
\* makes its key's durability open until the next one.
Acknowledge ==
    /\ Sync \/ Restart
    /\ flushed' = Contents
    /\ touched' = {}

Modify ==
    /\ \/ \E k \in Keys, v \in Vals : Insert(k, v) /\ touched' = touched \cup {k}
       \/ \E k \in Keys : Delete(k) /\ touched' = touched \cup {k}
    /\ UNCHANGED flushed

CrashNext ==
    \/ /\ ~crashed
       /\ \/ Acknowledge
          \/ Modify
          \/ \E p \in DOMAIN cache : WriteBack(p) /\ UNCHANGED <<flushed, touched>>
       /\ UNCHANGED crashed
    \/ Crash

CrashSpec == CrashInit /\ [][CrashNext]_cvars

(* P7: a record that a Sync acknowledged, and that no later insert or     *)
(* delete touched, is found by search after a crash and re-open.  At risk *)
(* from WriteMetadata, which msyncs a new root offset in page 0 while the *)
(* new root page is still a dirty frame of the pool.                      *)
SyncedRecordsSurviveCrash ==
    crashed =>
        \A k \in Keys \ touched :
            flushed[k] # NoVal => Search(Store, root, k) = flushed[k]

(* P7, last clause: whatever was lost, the re-opened tree is structurally *)
(* valid (WellFormed).  At risk from the first Insert into an empty tree, *)
(* which WriteMetadata's msync makes the root while the root leaf is only *)
(* a dirty frame: the file holds AllocatePage's zeroed page there, which  *)
(* decodes as an internal node with no keys and child offset 0.           *)
ReopenedTreeWellFormed == crashed => WellFormed
=============================================================================
