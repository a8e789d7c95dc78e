------------------------------ MODULE PageStore ------------------------------
(***************************************************************************)
(* What the buffer pool promises the tree (buffer_pool.h, spec.md 4.2 and   *)
(* the page lifecycle of section 3): a store of pages, each with one        *)
(* content. A page is born zeroed, is changed only while the tree has it    *)
(* pinned, and on being freed holds a free-list link. Caching, eviction     *)
(* and write-back are invisible.                                            *)
(***************************************************************************)
EXTENDS Sequences, SequencesExt

CONSTANTS Pages, Data, Zero, FreeLink

VARIABLES
    mem,        \* the content of every page
    allocated,  \* the pages handed out and not freed
    pinned      \* the pages the tree has pinned, one entry per pin

Init ==
    /\ mem = [p \in Pages |-> Zero]
    /\ allocated = {}
    /\ pinned = <<>>

Pin(p) ==
    /\ p \in allocated
    /\ pinned' = Append(pinned, p)
    /\ UNCHANGED <<mem, allocated>>

Unpin(i) ==
    /\ pinned' = RemoveAt(pinned, i)
    /\ UNCHANGED <<mem, allocated>>

Write(p, d) ==
    /\ p \in ToSet(pinned)
    /\ mem' = [mem EXCEPT ![p] = d]
    /\ UNCHANGED <<allocated, pinned>>

\* A new page: zeroed and, when a frame is free for it, pinned. Without a
\* frame the id is still handed out, with no pin.
Alloc(p) ==
    /\ p \notin allocated
    /\ mem' = [mem EXCEPT ![p] = Zero]
    /\ allocated' = allocated \cup {p}
    /\ \/ pinned' = Append(pinned, p)
       \/ UNCHANGED pinned

Free(p) ==
    /\ p \in allocated \ ToSet(pinned)
    /\ mem' = [mem EXCEPT ![p] = FreeLink]
    /\ allocated' = allocated \ {p}
    /\ UNCHANGED pinned

Next ==
    \/ \E p \in Pages : Pin(p) \/ Alloc(p) \/ Free(p)
    \/ \E i \in DOMAIN pinned : Unpin(i)
    \/ \E p \in Pages, d \in Data : Write(p, d)

Spec == Init /\ [][Next]_<<mem, allocated, pinned>>

=============================================================================
