------------------------------- MODULE KVStore -------------------------------
(***************************************************************************)
(* What the index promises its callers (spec.md section 6, P1-P4): a map  *)
(* from keys to payloads.  insert is an upsert; delete of a present key   *)
(* removes it, delete of an absent key returns NotFound and changes       *)
(* nothing; search and range_query only read.                             *)
(***************************************************************************)
CONSTANTS Keys, Vals, NoVal

VARIABLE store      \* key -> payload, NoVal when absent

Init == store = [k \in Keys |-> NoVal]

\* One step changes at most the entry of one key k: Put(k, v) stores a
\* payload under k (present or not), Remove(k) clears a present entry.
Step(before, after) ==
    \E k \in Keys :
        /\ \A j \in Keys \ {k} : after[j] = before[j]
        /\ \/ after[k] \in Vals                                  \* Put(k, v)
           \/ before[k] # NoVal /\ after[k] = NoVal              \* Remove(k)

\* store and store' are each bound once: in a refinement check they stand
\* for a mapping of the implementation's state that is costly to evaluate.
Next == \E before \in {store}, after \in {store'} : Step(before, after)

Spec == Init /\ [][Next]_store
=============================================================================
