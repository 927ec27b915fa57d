------------------------------ MODULE RunContract ------------------------------
(***************************************************************************)
(* What a Run promises to its clients, whatever worker, queue, lease or    *)
(* storage is behind it: the phase moves only along the frozen transition  *)
(* table, the outcome is decided once, not before the Run is GATED (or has *)
(* failed), and nothing about a decided Run changes any more.              *)
(* RunLifecycle is checked against this specification.                     *)
(***************************************************************************)
EXTENDS RunPhases

CONSTANTS
  Runs,      \* identities of Runs
  Outcomes   \* the gates a Run may be decided with

VARIABLES
  phase,     \* [Runs -> Phases, or "NONE" before the Run is accepted]
  outcome    \* [Runs -> "open", "failed" or one of Outcomes]

vars == <<phase, outcome>>

Init ==
  /\ phase = [r \in Runs |-> "NONE"]
  /\ outcome = [r \in Runs |-> "open"]

\* A request for an audit is accepted: the Run exists from now on.
Create(r) ==
  /\ phase[r] = "NONE"
  /\ phase' = [phase EXCEPT ![r] = "CREATED"]
  /\ UNCHANGED outcome

\* One transition of the table. A Run that is terminalized gets its outcome
\* with the last transition.
Advance(r) ==
  /\ outcome[r] = "open"
  /\ \E p \in Phases :
       /\ <<phase[r], p>> \in Transitions
       /\ phase' = [phase EXCEPT ![r] = p]
       /\ \/ UNCHANGED outcome
          \/ /\ p = "GATED"
             /\ \E g \in Outcomes : outcome' = [outcome EXCEPT ![r] = g]

\* A Run that executed to the end publishes its verdict after it was GATED.
Publish(r) ==
  /\ phase[r] = "GATED"
  /\ outcome[r] = "open"
  /\ \E g \in Outcomes : outcome' = [outcome EXCEPT ![r] = g]
  /\ UNCHANGED phase

\* A fatal error ends the Run in the phase it is in.
Fail(r) ==
  /\ phase[r] # "NONE"
  /\ outcome[r] = "open"
  /\ outcome' = [outcome EXCEPT ![r] = "failed"]
  /\ UNCHANGED phase

Next == \E r \in Runs : Create(r) \/ Advance(r) \/ Publish(r) \/ Fail(r)

Spec == Init /\ [][Next]_vars
================================================================================
