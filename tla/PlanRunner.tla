------------------------------- MODULE PlanRunner -------------------------------
(***************************************************************************)
(* PlaywrightPlanRunner.run and the verdict that AuditVerticalSlice draws  *)
(* from it. The batches of the matrix run one after the other, in each the *)
(* selected cases; a case is retried until an attempt passes or its        *)
(* retries are used up. An attempt opens a browser context, runs the setup *)
(* and the test steps up to the first failure, then every cleanup step,    *)
(* collects its evidence and closes the context. What breaks outside of a  *)
(* step (the launch, the context, a file write) blocks the cases of the    *)
(* batch that have no result yet, or ends the run with an exception.       *)
(* The operators of a plan and of its results are those of Verdict.        *)
(***************************************************************************)
EXTENDS Verdict

CONSTANTS
  Plans,    \* valid plans the run may be given
  Errors,   \* errors a step may raise, each the set of its signals
  Faults    \* what may break outside of the steps

FaultKinds == {"launch", "context", "screenshot", "console", "trace", "close",
               "case file", "checkpoint", "manifest"}

ASSUME RunnerAssumption ==
  /\ Errors \subseteq SUBSET Signals
  /\ Faults \subseteq FaultKinds

VARIABLES
  plan,
  batch,    \* index of the current batch
  next,     \* index of the current case among the selected ones
  pc,       \* what the runner does next
  tries,    \* statuses of the concluded attempts of the current case
  attempt,  \* the attempt in progress
  results,  \* of ExecutionResult, in the order of production
  gate,     \* evaluateGate's, "none" before it
  history   \* every attempt that was begun, as it really went (a ghost)

vars == <<plan, batch, next, pc, tries, attempt, results, gate, history>>

-------------------------------------------------------------------------------
TierRank == [smoke |-> 1, fast |-> 2, full |-> 3]
Selected(p) ==
  IF p.origin = "migrated" THEN p.cases
  ELSE SelectSeq(p.cases, LAMBDA c : TierRank[c.tier] <= TierRank[p.tier])

Instances(p) ==
  [i \in 1..(Len(p.batches) * Len(Selected(p))) |->
     ExecutionId(Selected(p)[((i - 1) % Len(Selected(p))) + 1],
                 p.batches[((i - 1) \div Len(Selected(p))) + 1])]

\* Of a valid plan (validator.ts): cases, batches and steps are lists, and so are
\* the selected cases; the risk of a case is one of three.
ASSUME PlansAssumption ==
  \A p \in Plans :
    /\ p.cases \in Seq(ToSet(p.cases)) /\ Selected(p) \in Seq(ToSet(p.cases))
    /\ p.batches \in Seq(ToSet(p.batches))
    /\ \A c \in ToSet(p.cases) :
         /\ c.setup \in Seq(ToSet(c.setup)) /\ c.steps \in Seq(ToSet(c.steps))
         /\ c.risk \in {"read_only", "mutating", "destructive"}

Mutating == {"click", "send"}
ApiCalls == {"get", "send"}
CaseHasMutatingStep(c) ==
  \E i \in DOMAIN (c.setup \o c.steps \o c.cleanup) :
    (c.setup \o c.steps \o c.cleanup)[i] \in Mutating
Forbidden(p, c) ==
  p.production /\ (~c.allowed \/ c.risk # "read_only" \/ CaseHasMutatingStep(c))

Current == Selected(plan)[next]
Generated ==
  \/ Current.origin = "generated"
  \/ Current.origin = "undefined" /\ plan.origin = "generated"
Graphic(c) == c.kind \in {"ui", "hybrid"}
Script(c) == c.setup \o c.steps
PhaseAt(c, i) == IF i <= Len(c.setup) THEN "setup" ELSE "test"

\* A step whose action is expect_* always counts as an assertion, an API call
\* does when its status is not acceptable.
Raises(action) ==
  {e \in Errors : /\ action = "expect" => "assertion" \in e
                  /\ action \in {"goto", "click"} => "assertion" \notin e}

NoFailure == [kind |-> "none", phase |-> "none", class |-> "none"]
NewAttempt == [step |-> 1, failure |-> NoFailure, cleanup |-> "SKIPPED",
               evidence |-> {}, redacted |-> TRUE, navigated |-> FALSE]
FirstFailure(first, second) == IF first # NoFailure THEN first ELSE second

Result(c, status, evidence) ==
  [exec |-> ExecutionId(c, plan.batches[batch]), status |-> status,
   flaky |-> FALSE, kind |-> "none", phase |-> "none", class |-> "none",
   evidence |-> evidence, cleanup |-> "none", redacted |-> TRUE, attempts |-> 0]
BlockedResult(c, status) == [Result(c, status, {}) EXCEPT !.class = "INFRA_DEFECT"]

\* The ghost: what the attempt in progress raised and changed in the target.
Attempt == [exec |-> ExecutionId(Current, plan.batches[batch]), try |-> Len(tries) + 1]
Note(raised, mutates, cleaned) ==
  history' = {IF h.exec = Attempt.exec /\ h.try = Attempt.try
              THEN [h EXCEPT !.raised = @ \cup raised, !.mutated = @ \/ mutates,
                             !.cleaned = cleaned] ELSE h : h \in history}

Init ==
  /\ plan \in Plans
  /\ batch = 1 /\ next = 1 /\ pc = "launch"
  /\ tries = <<>> /\ attempt = NewAttempt
  /\ results = <<>> /\ gate = "none" /\ history = {}

\* A batch starts with its browser; without it every case of it is blocked.
Launch ==
  /\ pc = "launch" /\ batch <= Len(plan.batches)
  /\ \/ pc' = "case"
     \/ "launch" \in Faults /\ pc' = "caught"
  /\ next' = 1 /\ tries' = <<>>
  /\ UNCHANGED <<plan, batch, attempt, results, gate, history>>

\* Mutant: the case counts as completed once its checkpoint is written.
PersistLate ==
  /\ tries' = <<>> /\ attempt' = NewAttempt
  /\ \/ pc' = "case" /\ next' = next + 1
     \/ "checkpoint" \in Faults /\ pc' = "caught" /\ next' = next

\* The result is pushed and counted as completed before its checkpoint is
\* written; whether or not that write fails, the case is not run again.
Persist ==
  /\ \/ pc' = "case"
     \/ "checkpoint" \in Faults /\ pc' = "caught"
  /\ next' = next + 1 /\ tries' = <<>> /\ attempt' = NewAttempt

SkipBlocked ==
  /\ pc = "case" /\ next <= Len(Selected(plan))
  /\ Current.id \in plan.blocked
  /\ results' = Append(results, BlockedResult(Current, "BLOCKED_RESUME"))
  /\ Persist
  /\ UNCHANGED <<plan, batch, gate, history>>

\* Production forbids the case: the attempt fails before a context is opened.
Refuse ==
  /\ pc = "case" /\ next <= Len(Selected(plan))
  /\ Current.id \notin plan.blocked /\ Forbidden(plan, Current)
  /\ attempt' = [NewAttempt EXCEPT !.failure = [NoFailure EXCEPT !.class = "TEST_DEFECT"]]
  /\ pc' = "conclude"
  /\ UNCHANGED <<plan, batch, next, tries, results, gate, history>>

OpenContext ==
  /\ pc = "case" /\ next <= Len(Selected(plan))
  /\ Current.id \notin plan.blocked /\ ~Forbidden(plan, Current)
  /\ attempt' = NewAttempt
  /\ \/ /\ pc' = "steps"
        /\ history' = history \cup {[exec |-> Attempt.exec, try |-> Attempt.try,
             raised |-> {}, mutated |-> FALSE, cleaned |-> FALSE]}
     \/ /\ "context" \in Faults /\ pc' = "caught"
        /\ UNCHANGED history
  /\ UNCHANGED <<plan, batch, next, tries, results, gate>>

\* runStep in setup and test: the first failure ends them. A step that fails
\* may have changed the target all the same.
TakeStep ==
  /\ pc = "steps"
  /\ LET i      == attempt.step
         action == Script(Current)[i]
     IN \/ /\ attempt' = [attempt EXCEPT !.step = i + 1,
                !.navigated = @ \/ action = "goto",
                !.evidence = IF action \in ApiCalls THEN @ \cup {"api-response"} ELSE @]
           /\ pc' = IF i = Len(Script(Current)) THEN "cleanup" ELSE "steps"
           /\ Note({}, action \in Mutating, FALSE)
        \/ \E e \in Raises(action) :
             /\ attempt' = [attempt EXCEPT !.step = Len(Script(Current)) + 1,
                  !.failure = ClassifyFailure(e, PhaseAt(Current, i), Generated)]
             /\ pc' = "cleanup"
             /\ Note({[error |-> e, phase |-> PhaseAt(Current, i)]}, action \in Mutating, FALSE)
  /\ UNCHANGED <<plan, batch, next, tries, results, gate>>

\* runCleanup: every step is tried, the first failure is the one reported, and
\* only if the test itself did not fail.
CleanUp ==
  /\ pc = "cleanup"
  /\ \/ /\ ~Current.cleans
        /\ attempt' = attempt /\ UNCHANGED history
     \/ /\ Current.cleans
        /\ \E failing \in SUBSET DOMAIN Current.cleanup, e \in Errors \cup {{}} :
             /\ failing # {} =>
                  LET first == CHOOSE i \in failing : \A j \in failing : i <= j
                  IN  e \in Raises(Current.cleanup[first])
             /\ attempt' = [attempt EXCEPT
                  !.cleanup  = IF failing = {} THEN "PASSED" ELSE "FAILED",
                  !.failure  = IF failing = {} THEN @ ELSE
                     FirstFailure(@, ClassifyFailure(e, "cleanup", Generated)),
                  !.evidence = IF \E i \in DOMAIN Current.cleanup \ failing :
                                    Current.cleanup[i] \in ApiCalls
                               THEN @ \cup {"api-response"} ELSE @,
                  !.navigated = @ \/ \E i \in DOMAIN Current.cleanup \ failing :
                                        Current.cleanup[i] = "goto"]
             /\ Note(IF failing = {} THEN {} ELSE {[error |-> e, phase |-> "cleanup"]},
                     FALSE, failing = {})
  /\ pc' = "evidence"
  /\ UNCHANGED <<plan, batch, next, tries, results, gate>>

\* A page that never left about:blank, the screenshot and the console errors
\* of a graphic case. If the latter cannot be written, the attempt throws.
CollectEvidence ==
  /\ pc = "evidence"
  /\ IF ~Graphic(Current) THEN attempt' = attempt /\ pc' = "close"
     ELSE /\ \E shot \in {TRUE} \cup {"screenshot" \notin Faults} :
               attempt' = [attempt EXCEPT
                 !.failure  = IF attempt.navigated THEN @
                              ELSE FirstFailure(@, ClassifyFailure({}, "test", Generated)),
                 !.evidence = @ \cup {"console.json"} \cup IF shot THEN {"screenshot"} ELSE {},
                 !.redacted = shot]
          /\ \/ pc' = "close"
             \/ "console" \in Faults /\ pc' = "caught"
  /\ UNCHANGED <<plan, batch, next, tries, results, gate, history>>

\* The trace of a graphic case (the demo runs without), then the context.
CloseContext ==
  /\ pc = "close"
  /\ \E traced \in {TRUE} \cup {"trace" \notin Faults},
        closed \in {TRUE} \cup {"close" \notin Faults},
        e \in {{}, {"network"}} :
       LET due == Graphic(Current) /\ plan.engine = "declarative"
       IN attempt' = [attempt EXCEPT
            !.evidence = IF due /\ traced THEN @ \cup {"playwright-trace"} ELSE @,
            !.redacted = @ /\ (due => traced),
            !.failure  = IF closed THEN @
                         ELSE FirstFailure(@, ClassifyFailure(e, "unknown", Generated))]
  /\ pc' = "conclude"
  /\ UNCHANGED <<plan, batch, next, tries, results, gate, history>>

Passed(a) == a.failure = NoFailure /\ a.cleanup # "FAILED"

\* Mutant: the attempts are not counted.
RetryUncounted ==
  /\ pc = "conclude" /\ ~Passed(attempt) /\ Len(tries) < Current.retries
  /\ pc' = "case"
  /\ UNCHANGED <<plan, batch, next, tries, attempt, results, gate, history>>

Retry ==
  /\ pc = "conclude"
  /\ ~Passed(attempt) /\ Len(tries) < Current.retries
  /\ tries' = Append(tries, "FAILED")
  /\ pc' = "case"
  /\ UNCHANGED <<plan, batch, next, attempt, results, gate, history>>

\* A pass after a failure is flaky. The files of the case are written before
\* its result exists.
RecordResult ==
  /\ pc = "conclude"
  /\ Passed(attempt) \/ Len(tries) = Current.retries
  /\ LET result == [Result(Current, IF Passed(attempt) THEN "PASSED" ELSE "FAILED", attempt.evidence)
                    EXCEPT !.flaky = Passed(attempt) /\ tries # <<>>,
                           !.kind = attempt.failure.kind, !.phase = attempt.failure.phase,
                           !.class = attempt.failure.class, !.cleanup = attempt.cleanup,
                           !.redacted = attempt.redacted, !.attempts = Len(tries) + 1]
     IN \/ results' = Append(results, result) /\ Persist
        \/ /\ "case file" \in Faults /\ pc' = "caught"
           /\ UNCHANGED <<results, next, tries, attempt>>
  /\ UNCHANGED <<plan, batch, gate, history>>

EndBatch ==
  /\ pc = "case" /\ next > Len(Selected(plan))
  /\ pc' = "launch" /\ batch' = batch + 1
  /\ UNCHANGED <<plan, next, tries, attempt, results, gate, history>>

\* The cases of the batch that are not completed are blocked, each with its
\* checkpoint; the exception of a failing one leaves run().
BlockRest ==
  /\ pc = "caught"
  /\ \/ /\ results' = results \o
             [i \in 1..(Len(Selected(plan)) - next + 1) |->
                BlockedResult(Selected(plan)[next + i - 1], "INFRA_BLOCKED")]
        /\ pc' = "launch" /\ batch' = batch + 1
     \/ /\ "checkpoint" \in Faults /\ next <= Len(Selected(plan))
        /\ pc' = "thrown" /\ UNCHANGED <<results, batch>>
  /\ UNCHANGED <<plan, next, tries, attempt, gate, history>>

\* The manifests are written and the slice audits and judges the run.
Judge ==
  /\ pc = "launch" /\ batch > Len(plan.batches)
  /\ \/ pc' = "done" /\ gate' = Gate(plan, results, Instances(plan))
     \/ "manifest" \in Faults /\ pc' = "thrown" /\ UNCHANGED gate
  /\ UNCHANGED <<plan, batch, next, tries, attempt, results, history>>

Next ==
  \/ Launch \/ SkipBlocked \/ Refuse \/ OpenContext \/ TakeStep \/ CleanUp
  \/ CollectEvidence \/ CloseContext \/ Retry \/ RecordResult \/ EndBatch
  \/ BlockRest \/ Judge

Spec == Init /\ [][Next]_vars

\* Every await of the runner has a deadline or ends with its browser.
FairSpec == Spec /\ WF_vars(Next)

-------------------------------------------------------------------------------
\* What really happened in the attempts of an execution.
AttemptsOf(exec)   == {h \in history : h.exec = exec}
LastAttempt(exec)  ==
  CHOOSE h \in AttemptsOf(exec) : \A g \in AttemptsOf(exec) : g.try <= h.try
Executions         == ToSet(Instances(plan))

\* Whatever fails, a run that returns has exactly one result for every instance
\* of its manifest, in the order of the manifest: a checkpoint that cannot be
\* written neither repeats nor loses a case (run, results and completed).
EveryInstanceOnce ==
  pc = "done" => [i \in DOMAIN results |-> results[i].exec] = Instances(plan)

\* "all required cases passed with complete evidence and cleanup": the gate is
\* pass only if every case of the plan was run in every batch and its last
\* attempt raised nothing, and every requirement of the tier has such a case
\* bound to its oracle (evaluateGate, last line).
PassIsEarned ==
  gate = "pass" =>
    /\ Executions = {ExecutionId(c, b) : c \in ToSet(plan.cases), b \in ToSet(plan.batches)}
    /\ \A x \in Executions :
         AttemptsOf(x) # {} /\ LastAttempt(x).raised = {}
    /\ plan.engine = "declarative" =>
         \A q \in Required(plan) : \E c \in ToSet(plan.cases) : q.id \in ToSet(c.bound)

\* Exit code 1 for a defect blames the product only on the word of an assertion
\* about it: in every failed execution the attempt that counts raised one in a
\* test step, and nothing that says network or contract (docs/troubleshooting.md:9:
\* INCOMPLETE and INFRA_BLOCKED are no claims about the product).
BlameIsBacked ==
  gate = "fail" =>
    /\ \E r \in ToSet(results) : r.status = "FAILED"
    /\ \A r \in ToSet(results) :
         /\ r.status \in {"PASSED", "FAILED"}
         /\ r.status = "FAILED" =>
              \E f \in LastAttempt(r.exec).raised :
                /\ f.phase = "test" /\ "assertion" \in f.error
                /\ f.error \cap {"network", "contract"} = {}

\* Without tolerance for flaky cases a pass leaves nothing behind: every attempt
\* of a case that mutates the target, retried ones too, was cleaned up.
PassLeavesClean ==
  gate = "pass" /\ plan.max_flaky = 0 /\ plan.engine = "declarative" =>
    \A c \in ToSet(plan.cases), h \in history :
      h.exec[1] = c.id /\ c.risk # "read_only" /\ h.mutated => h.cleaned

\* Retries, blocked batches and failing writes all lead to an end.
EveryRunEnds == <>(pc \in {"done", "thrown"})
================================================================================
