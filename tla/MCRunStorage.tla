------------------------------ MODULE MCRunStorage ------------------------------
(***************************************************************************)
(* RunStorage for TLC. The processes are model values. The claims below    *)
(* are those of the repository without the condition that no race of the   *)
(* lock has happened; TLC refutes each.                                    *)
(***************************************************************************)
EXTENDS RunStorage

\* The update of an index by several processes loses no entry
\* (tools/verify-m9-storage.mjs:86).
RetainsAllAlways == \A p \in Updaters : At(p, "returned") => Served(p)

\* A lock has one owner (run-storage, _acquireLock).
OneHolderAlways == \A l \in Locks : Cardinality({p \in Procs : Holds(p, l)}) <= 1
================================================================================
