--------------------------- MODULE IdempotentRequests ---------------------------
(***************************************************************************)
(* What client_request_id promises: while a request is remembered, whoever *)
(* repeats it gets the handle of the first one, and nobody gets a handle   *)
(* for other parameters. Retention may forget a request, as a whole.       *)
(* OperationRegistry is checked, and proved, to implement this.            *)
(***************************************************************************)
CONSTANTS
  Keys,     \* workspace, tool and client_request_id
  Params,   \* the other arguments
  Ids,      \* operation ids
  None

VARIABLES
  table,    \* [Keys -> the remembered operation and its parameters, or Nothing]
  handle    \* [Keys -> the last answer "accepted" a client got, or Nothing]

vars == <<table, handle>>

Nothing == [id |-> None, params |-> None]

Init ==
  /\ table = [k \in Keys |-> Nothing]
  /\ handle = [k \in Keys |-> Nothing]

\* A new request is remembered; ids are never used twice at a time.
Accept(k, p, i) ==
  /\ table[k] = Nothing
  /\ \A other \in Keys : table[other].id # i
  /\ table' = [table EXCEPT ![k] = [id |-> i, params |-> p]]
  /\ UNCHANGED handle

\* A client that asks for what is remembered gets its handle.
Answer(k) ==
  /\ table[k] # Nothing
  /\ handle' = [handle EXCEPT ![k] = table[k]]
  /\ UNCHANGED table

\* Retention forgets a request.
Forget(k) ==
  /\ table[k] # Nothing
  /\ table' = [table EXCEPT ![k] = Nothing]
  /\ UNCHANGED handle

Next ==
  \E k \in Keys :
    \/ \E p \in Params, i \in Ids : Accept(k, p, i)
    \/ Answer(k)
    \/ Forget(k)

Spec == Init /\ [][Next]_vars
================================================================================
