------------------------------- MODULE RunQueries -------------------------------
(***************************************************************************)
(* What a client is told about an operation and its Run: the five query    *)
(* tools of the control plane, as answers computed from the records of     *)
(* RunLifecycle between two segments of the event loop, and what "handle"  *)
(* makes of an answer that is not in the result union of its tool.         *)
(* "mine" says that the request names the workspace of the record.         *)
(***************************************************************************)
EXTENDS RunLifecycle

Error(code) == [kind |-> "error", code |-> code]

\* The result unions of the tool contracts, by the fields that may be missing.
Errors == [kind : {"error"}, code : STRING]

OperationStatusUnion == [kind : {"ok"}, status : Statuses \ {"NONE"}] \cup Errors

OperationResultUnion == [kind : {"ok", "not_ready"}] \cup Errors

RunStatusUnion ==
  [ kind : {"ok"}, phase : Phases, status : {"ACTIVE", "COMPLETED", "FAILED"},
    gate : Gates \cup {"absent"}, poll : BOOLEAN ] \cup Errors

RunResultUnion ==
  [kind : {"ok"}, gate : Gates] \cup [kind : {"not_ready", "failed"}] \cup Errors

ExplanationUnion == [kind : {"ok"}, gate : Gates \cup {"absent"}] \cup Errors

\* handle: an answer outside the union is replaced by an error.
Handled(answer, union) ==
  IF answer \in union THEN answer ELSE Error("INTERNAL_CONTRACT_VIOLATION")

\* The Runs this process has in memory: created here and bound, or loaded at start.
Known(r) == ops[r].bound

\* A field that is null is left out of the answers that do not require it.
Shown(gate) == IF gate = "null" THEN "absent" ELSE gate

TerminalRun(r) == run[r].phase = "GATED" \/ run[r].status \in Terminal

--------------------------------------------------------------------------------
OperationStatusAnswer(o, mine) ==
  Handled(IF ops[o].status = "NONE" THEN Error("OPERATION_NOT_FOUND")
          ELSE IF ~mine THEN Error("OPERATION_FORBIDDEN")
          ELSE [kind |-> "ok", status |-> ops[o].status], OperationStatusUnion)

OperationResultAnswer(o, mine) ==
  Handled(IF ops[o].status = "NONE" THEN Error("OPERATION_NOT_FOUND")
          ELSE IF ~mine THEN Error("OPERATION_FORBIDDEN")
          ELSE [kind |-> IF ops[o].status = "COMPLETED" THEN "ok" ELSE "not_ready"],
          OperationResultUnion)

RunStatusAnswer(r, mine) ==
  Handled(IF ~Known(r) \/ ~mine THEN Error("RUN_FORBIDDEN")
          ELSE [ kind |-> "ok", phase |-> run[r].phase, status |-> run[r].status,
                 gate |-> Shown(run[r].gate), poll |-> ~TerminalRun(r) ], RunStatusUnion)

\* Mutant: the phase alone decides which answer is given.
RunResultByPhase(r, mine) ==
  Handled(IF ~Known(r) \/ ~mine THEN Error("RUN_FORBIDDEN")
          ELSE IF run[r].phase # "GATED" THEN [kind |-> "not_ready"]
          ELSE [kind |-> "ok", gate |-> run[r].gate], RunResultUnion)

RunResultAnswer(r, mine) ==
  Handled(IF ~Known(r) \/ ~mine THEN Error("RUN_FORBIDDEN")
          ELSE IF run[r].status = "FAILED" THEN [kind |-> "failed"]
          ELSE IF run[r].phase # "GATED" THEN [kind |-> "not_ready"]
          ELSE [kind |-> "ok", gate |-> run[r].gate], RunResultUnion)

ExplainAnswer(r, mine) ==
  Handled(IF ~Known(r) \/ ~mine THEN Error("RUN_FORBIDDEN")
          ELSE [kind |-> "ok", gate |-> Shown(run[r].gate)], ExplanationUnion)

--------------------------------------------------------------------------------
\* The tools never contradict each other between two segments, whichever of the
\* two records each of them reads: an operation is FAILED exactly when its Run's
\* result is a failure, and COMPLETED as soon as it is a gate, which
\* get_run_status and explain_run then show too; a client that is told to stop
\* polling the Run is not sent back by get_operation_result, and one that is
\* told to go on polling has no result yet. (Of a Run that was taken over this is
\* not so: two handlers may then save it.)
AnswersAgree ==
  \A r \in Runs :
    Free /\ Known(r) /\ run[r].attempts = 0 =>
      LET operation == OperationStatusAnswer(r, TRUE)
          status    == RunStatusAnswer(r, TRUE)
          result    == RunResultAnswer(r, TRUE)
          explained == ExplainAnswer(r, TRUE)
      IN  /\ (result.kind = "failed") <=> (operation.status = "FAILED")
          /\ result.kind = "ok" =>
               /\ operation.status = "COMPLETED"
               /\ status.gate = result.gate /\ explained.gate = result.gate
          /\ ~status.poll =>
               \/ OperationResultAnswer(r, TRUE).kind = "ok"
               \/ operation.status = "FAILED"
          /\ status.poll => result = [kind |-> "not_ready"]

\* A client that asks for the result of an accepted Run again and again gets it:
\* the answers not_ready, and INTERNAL_CONTRACT_VIOLATION while the gate of a
\* GATED Run is not published yet, give way to a gate or a failure.
ResultsAreServed ==
  \A r \in Runs :
    run[r].phase # "NONE" ~> RunResultAnswer(r, TRUE).kind \in {"ok", "failed"}

================================================================================
