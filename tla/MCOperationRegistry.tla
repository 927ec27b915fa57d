--------------------------- MODULE MCOperationRegistry --------------------------
(***************************************************************************)
(* OperationRegistry for TLC, and the claims about it that the documents   *)
(* of the repository make and the code does not keep.                      *)
(***************************************************************************)
EXTENDS OperationRegistry, TLC

\* Calls, parameters and ids are interchangeable.
Symmetry == Permutations(Calls) \cup Permutations(Params) \cup Permutations(Ids)

\* An accepted handle survives a restart of the server: its operation ends, or
\* the process dies once more.
HandleSurvives ==
  \A k \in Keys, i \in Ids :
    up /\ handle[k].id = i /\ record[i].status = "ACCEPTED"
      ~> (record[i].status # "ACCEPTED" \/ ~up)

\* The record of an operation is kept as long as its Run can be queried: a
\* repetition of the call does not create a second Run beside it.
RecordOutlivesRun == runs \subseteq known

\* High watermark: quota pressure surfaces as a refusal.
BoundedRegistry == Cardinality(known) <= HighWatermark

\* The same parameters get the same result: the handle of a key changes only
\* when its operation was swept.
SameHandle ==
  [][\A k \in Keys :
       handle[k] # Nothing /\ handle[k].id \notin tombs => handle'[k] = handle[k]]_vars

\* What get_operation_status answers about an id.
Status(i) == IF i \in known THEN record[i].status ELSE "OPERATION_NOT_FOUND"

\* A swept operation is reported as expired, not as unknown.
ExpiredIsSaid == up => \A i \in tombs : Status(i) # "OPERATION_NOT_FOUND"
================================================================================
