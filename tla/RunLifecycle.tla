----------------------------- MODULE RunLifecycle ------------------------------
(***************************************************************************)
(* The life of a Run inside one MCP server process: the control plane that *)
(* accepts run_audit, resume_run and cancel_run, the worker that queues    *)
(* and executes them, the vertical slice whose phases a run_audit commits, *)
(* the lease, and the two durable records of every Run (run_state.json and *)
(* operations/<id>.json), which survive a crash of the process.            *)
(*                                                                         *)
(* The process is one JavaScript event loop. What the code does between    *)
(* two awaits is a segment: it writes several files one after the other,   *)
(* and nothing else of this process runs meanwhile. "thread" is the rest   *)
(* of the segment in progress; each of its file writes is a step, so that  *)
(* a crash can fall between any two of them. The other actions wait for    *)
(* the event loop to be free. Memory and disk agree whenever it is, so a   *)
(* Run has one record here: the one in run_state.json. (They would not if  *)
(* the write of run_state.json itself failed without a crash: that failure *)
(* is left out.)                                                           *)
(***************************************************************************)
EXTENDS RunPhases, Naturals, Sequences, FiniteSets, SequencesExt

CONSTANTS
  Runs,               \* Run ids; the run_audit operation of r is called r too
  Resumes,            \* operation ids of resume_run calls
  Cancels,            \* operation ids of cancel_run calls
  Verdicts,           \* gates that evaluateGate may return
  Failures,           \* what the slice may throw, by how _run treats it
  Faults,             \* what the environment may do to the process
  MaxResumeAttempts,  \* 3 in _prepareResume
  Confirmations,      \* takeover_confirmation_count of the lease policy
  PerRunBudget,       \* budgets.workspacePerRun
  SlotBudget          \* the smallest of the other three budgets

FailureKinds == {"PLAN_DEFECT", "INFRASTRUCTURE", "STATE_CORRUPTED"}
FaultKinds   == {"crash", "restart", "storage", "close"}
Gates        == {"pass", "fail", "unstable", "infra", "incomplete"}

Ops == Runs \cup Resumes \cup Cancels

ASSUME OpsAssumption ==
  /\ Runs # {}
  /\ IsFiniteSet(Runs) /\ IsFiniteSet(Resumes) /\ IsFiniteSet(Cancels)
  /\ Runs \cap Resumes = {} /\ Runs \cap Cancels = {}
  /\ Resumes \cap Cancels = {}

ASSUME ParameterAssumption ==
  /\ Verdicts \subseteq Gates
  /\ Failures \subseteq FailureKinds
  /\ Faults \subseteq FaultKinds
  /\ MaxResumeAttempts \in Nat
  /\ Confirmations \in Nat \ {0, 1}   \* validateLeasePolicy refuses fewer than 2
  /\ PerRunBudget \in Nat \ {0} /\ SlotBudget \in Nat \ {0}

VARIABLES
  up,       \* "up", "stopped" (after stop()) or "down" (no process)
  thread,   \* the segment in progress
  ops,      \* operations/<id>.json
  run,      \* run_state.json
  results,  \* the gate in artifacts/results.json, "null" while there is none
  queue,    \* worker.queue
  task      \* where the handler of each operation is suspended

vars == <<up, thread, ops, run, results, queue, task>>

--------------------------------------------------------------------------------
\* The lease owner is told apart only as far as the code compares it: "self"
\* (this worker), "gone" (a worker of a process that no longer exists, never in
\* this process's ACTIVE_WORKER_IDS) or "none" (released). "aged" says that now
\* is at or past heartbeat + ttl + grace + skew.
NoRun ==
  [ phase |-> "NONE", status |-> "NONE", gate |-> "null", cancel |-> FALSE,
    attempts |-> 0, owner |-> "none", aged |-> FALSE, stale |-> 0 ]

NewRun ==
  [NoRun EXCEPT !.phase = "CREATED", !.status = "ACTIVE", !.owner = "self"]

Parked == [pc |-> "none", arg |-> "none"]

Idle ==
  [ job |-> "idle", op |-> CHOOSE o \in Runs : TRUE, phase |-> "NONE",
    gate |-> "null", reply |-> "none", torn |-> FALSE ]

Segment(job, o, p, g, reply) ==
  [job |-> job, op |-> o, phase |-> p, gate |-> g, reply |-> reply, torn |-> FALSE]

RunOf(o) == IF o \in Runs THEN o ELSE ops[o].target

Free == thread.job = "idle"

\* Suspend the handler of o at an await, or end it.
Park(o, pc, arg) ==
  /\ task' = [task EXCEPT ![o] = [pc |-> pc, arg |-> arg]]
  /\ thread' = Idle

EndTask(o) == Park(o, "none", "none")

\* A handler that is suspended or executing counts against the budgets.
Running == { o \in Ops : task[o].pc # "none" }

Queued == { queue[i] : i \in 1..Len(queue) }

--------------------------------------------------------------------------------
\* _persistRun: a save with operation status RUNNING by the lease owner is a
\* heartbeat; a save with COMPLETED or FAILED releases the lease.
Saved(rec, status) ==
  IF status = "RUNNING"
    THEN IF rec.owner = "self" THEN [rec EXCEPT !.aged = FALSE, !.stale = 0] ELSE rec
    ELSE [rec EXCEPT !.owner = "none", !.stale = 0]

PersistJobs == {"walk", "loop", "finalize", "publish", "fail", "revive"}

\* What the segment in progress makes of the record before it saves it.
NextRecord(rec) ==
  CASE thread.job \in {"walk", "loop"} -> [rec EXCEPT !.phase = thread.phase]
    [] thread.job = "finalize" /\ thread.phase # "GATED" ->
         [rec EXCEPT !.phase = thread.phase,
                     !.cancel = rec.cancel \/ (thread.phase = "TERMINALIZING"
                                               /\ thread.op \in Cancels)]
    [] thread.job = "fail" -> [rec EXCEPT !.status = "FAILED"]
    [] thread.job = "revive" ->
         [rec EXCEPT !.status = "ACTIVE", !.attempts = rec.attempts + 1]
    [] OTHER -> [rec EXCEPT !.phase = "GATED", !.status = "COMPLETED",
                            !.gate = thread.gate]

\* Mutant: a fatal failure is saved like any other phase.
OperationStatusNotFailed ==
  IF thread.job # "revive" /\ thread.phase = "GATED" THEN "COMPLETED" ELSE "RUNNING"

\* The status the save gives to the run_audit operation.
OperationStatus ==
  CASE thread.job = "fail" -> "FAILED"
    [] thread.job \notin {"fail", "revive"} /\ thread.phase = "GATED" -> "COMPLETED"
    [] OTHER -> "RUNNING"

\* First half of _persistRun: run_state.json.
WriteRunState ==
  /\ thread.job \in PersistJobs /\ ~thread.torn
  /\ LET r == RunOf(thread.op)
     IN  run' = [run EXCEPT ![r] = Saved(NextRecord(run[r]), OperationStatus)]
  /\ thread' = [thread EXCEPT !.torn = TRUE]
  /\ UNCHANGED <<up, ops, results, queue, task>>

--------------------------------------------------------------------------------
\* The segments of execute(), each from its first phase to the await it ends in.
AwaitAfter(p) ==
  CASE p = "TARGET_READY"     -> "open"
    [] p = "DISCOVERED"       -> "coverage"
    [] p = "COVERAGE_DERIVED" -> "planner"
    [] p = "RUNNING"          -> "runner"
    [] p = "GATED"            -> "close"
    [] OTHER                  -> "none"

SegmentEnd(p) ==
  CASE p = "TARGET_READY"     -> "open"
    [] p = "SEED_RESOLVED"    -> "coverage"
    [] p = "COVERAGE_DERIVED" -> "planner"
    [] p = "PLAN_FILLED"      -> "runner"
    [] OTHER                  -> "close"

\* Mutant: results.json is written once, like most artifacts.
WriteResultsOnce(r, g) ==
  results' = IF results[r] = "null" THEN [results EXCEPT ![r] = g] ELSE results

\* results.json is an ordinary file: a Run that executes again replaces it.
WriteResults(r, g) == results' = [results EXCEPT ![r] = g]

\* Mutant: onPhase does not look at the cancellation.
WalkOn(r, p, g) == thread' = Segment("walk", r, p, g, "none") /\ UNCHANGED <<task, results>>

\* Commit the phases of the segment of r that begins with p, whose execution
\* was judged g. onPhase ignores every one of them once cancellation was
\* requested; the artifacts are written all the same.
Walk(r, p, g) ==
  IF run[r].cancel
    THEN /\ Park(r, SegmentEnd(p), g)
         /\ IF SegmentEnd(p) = "close" THEN WriteResults(r, g) ELSE UNCHANGED results
    ELSE /\ thread' = Segment("walk", r, p, g, "none")
         /\ UNCHANGED <<task, results>>

\* The finalization helpers: TERMINALIZING first, unless the Run is there
\* already or GATED, then the four closing phases.
Finalize(o, g, reply) ==
  LET from == IF run[RunOf(o)].phase \in {"TERMINALIZING", "GATED"}
                THEN "RUNTIME_FINALIZED" ELSE "TERMINALIZING"
  IN  thread' = Segment("finalize", o, from, g, reply)

\* One turn of the loop at the end of _run, which only a resume_run that took
\* the Run over reaches: p is the phase the loop is at.
Loop(o, p) ==
  LET next == IF p \in {"TERMINALIZING", "GATED"} THEN "CREATED" ELSE Following(p)
      cancelled == run[RunOf(o)].cancel
  IN  \/ /\ cancelled
         /\ thread' = Segment("finalize", o, "RUNTIME_FINALIZED", "incomplete", "none")
      \/ /\ ~cancelled /\ next = "GATED"
         /\ thread' = Segment("publish", o, "GATED", "pass", "none")
      \/ /\ ~cancelled /\ next # "GATED"
         /\ thread' = Segment("loop", o, next, "null", "none")

\* Second half of _persistRun, the operation record, and on to the next save of
\* the segment, to its await, or to its end.
WriteOperation ==
  /\ thread.torn
  /\ ops' = [ops EXCEPT ![RunOf(thread.op)].status = OperationStatus]
  /\ UNCHANGED <<up, run, queue>>
  /\ LET o    == thread.op
         next == [thread EXCEPT !.phase = Following(thread.phase), !.torn = FALSE]
     IN \/ /\ thread.job = "walk" /\ AwaitAfter(thread.phase) = "none"
           /\ thread' = next
           /\ IF thread.phase = "AUDITED" THEN WriteResults(o, thread.gate)
                                          ELSE UNCHANGED results
           /\ UNCHANGED task
        \/ /\ thread.job = "walk" /\ AwaitAfter(thread.phase) # "none"
           /\ Park(o, AwaitAfter(thread.phase), thread.gate)
           /\ UNCHANGED results
        \/ /\ thread.job = "loop"
           /\ Park(o, "sleep", thread.phase)
           /\ UNCHANGED results
        \/ /\ thread.job = "finalize" /\ thread.phase # "GATED"
           /\ thread' = next
           /\ UNCHANGED <<task, results>>
        \/ /\ thread.job = "finalize" /\ thread.phase = "GATED" /\ thread.reply # "none"
           /\ thread' = [thread EXCEPT !.job = "reply", !.torn = FALSE]
           /\ UNCHANGED <<task, results>>
        \/ /\ \/ thread.job \in {"publish", "fail"}
              \/ thread.job = "finalize" /\ thread.phase = "GATED" /\ thread.reply = "none"
           /\ EndTask(o)
           /\ UNCHANGED results
        \/ /\ thread.job = "revive" /\ o \in Runs
           /\ Walk(o, "TARGET_READY", "null")
        \/ /\ thread.job = "revive" /\ o \in Resumes
           /\ Loop(o, run[RunOf(o)].phase)
           /\ UNCHANGED <<task, results>>

\* A target operation records its own end.
Reply ==
  /\ thread.job = "reply"
  /\ ops' = [ops EXCEPT ![thread.op].status = thread.reply]
  /\ EndTask(thread.op)
  /\ UNCHANGED <<up, run, results, queue>>

--------------------------------------------------------------------------------
\* The control plane. A worker that is stopped does not queue anything.
Enqueue(o) == queue' = IF up = "stopped" THEN queue ELSE Append(queue, o)

\* run_audit accepted: the operation record is written first...
AcceptAudit(r) ==
  /\ up # "down" /\ Free
  /\ ops[r].status = "NONE"
  /\ ops' = [ops EXCEPT ![r].status = "ACCEPTED"]
  /\ thread' = Segment("create", r, "CREATED", "null", "none")
  /\ UNCHANGED <<up, run, results, queue, task>>

\* ...then the Run (createFixtureRun)...
CreateRun ==
  /\ thread.job = "create"
  /\ run' = [run EXCEPT ![thread.op] = NewRun]
  /\ thread' = [thread EXCEPT !.job = "bind"]
  /\ UNCHANGED <<up, ops, results, queue, task>>

\* ...then the operation is bound to its Run and queued. A target operation
\* comes here directly and stays ACCEPTED.
Bind ==
  /\ thread.job = "bind"
  /\ LET o == thread.op
     IN  /\ ops' = [ops EXCEPT ![o].bound = TRUE,
                               ![o].status = IF o \in Runs THEN "RUNNING" ELSE "ACCEPTED"]
         /\ Enqueue(o)
  /\ thread' = Idle
  /\ UNCHANGED <<up, run, results, task>>

\* resume_run or cancel_run accepted for a Run this process knows. A Run whose
\* operation was never bound is not loaded after a crash.
AcceptTarget(o, r) ==
  /\ up # "down" /\ Free
  /\ ops[o].status = "NONE" /\ ops[r].bound
  /\ o \in Resumes => run[r].phase # "GATED"
  /\ ops' = [ops EXCEPT ![o] = [status |-> "ACCEPTED", target |-> r, bound |-> FALSE]]
  /\ thread' = Segment("bind", o, "NONE", "null", "none")
  /\ UNCHANGED <<up, run, results, queue, task>>

--------------------------------------------------------------------------------
\* Mutant: _prepareResume without its limit of attempts.
PrepareResumeForever(o) ==
  /\ run' = [run EXCEPT ![RunOf(o)].stale = 0]
  /\ thread' = IF run[RunOf(o)].aged THEN Segment("takeover", o, "NONE", "null", "none")
                                     ELSE Segment("reply", o, "NONE", "null", "COMPLETED")

\* _prepareResume. No other owner is alive in this process, so the probe never
\* answers true here. Exhausted attempts terminalize the Run; otherwise the
\* observation is committed, and the Confirmations-th one in a row of an aged
\* heartbeat goes on to the takeover. Short of that a resume_run is answered,
\* and a run_audit just returns. (The count saturates at Confirmations: a crash
\* before the takeover lets the code count on, but it only compares.)
PrepareResume(o) ==
  LET r == RunOf(o)
      seen == IF ~run[r].aged THEN 0
              ELSE IF run[r].stale < Confirmations THEN run[r].stale + 1
              ELSE Confirmations
      reply == IF o \in Resumes THEN "COMPLETED" ELSE "none"
  IN \/ /\ run[r].attempts >= MaxResumeAttempts
        /\ Finalize(o, "incomplete", reply)
        /\ UNCHANGED run
     \/ /\ run[r].attempts < MaxResumeAttempts
        /\ run' = [run EXCEPT ![r].stale = seen]
        /\ \/ /\ seen >= Confirmations
              /\ thread' = Segment("takeover", o, "NONE", "null", "none")
           \/ /\ seen < Confirmations /\ o \in Resumes
              /\ thread' = Segment("reply", o, "NONE", "null", reply)
           \/ /\ seen < Confirmations /\ o \notin Resumes
              /\ thread' = Idle

\* _commitTakeover: the lease is ours on disk before the attempt is counted.
TakeOver ==
  /\ thread.job = "takeover"
  /\ run' = [run EXCEPT ![RunOf(thread.op)].owner = "self",
                        ![RunOf(thread.op)].aged = FALSE,
                        ![RunOf(thread.op)].stale = 0]
  /\ thread' = [thread EXCEPT !.job = "revive"]
  /\ UNCHANGED <<up, ops, results, queue, task>>

\* _run, by tool, up to its first save or await.
StartAudit(o) ==
  \/ /\ run[o].owner = "self"
     /\ Walk(o, "TARGET_READY", "null")
     /\ UNCHANGED run
  \/ /\ run[o].owner # "self"
     /\ PrepareResume(o)
     /\ UNCHANGED <<task, results>>

\* Mutant: a resume_run takes the Run over without a look at its lease.
StartResumeAtOnce(o) ==
  /\ thread' = Segment("takeover", o, "NONE", "null", "none")
  /\ UNCHANGED <<run, task, results>>

StartResume(o) ==
  LET rec == run[RunOf(o)]
      done == \/ rec.status \in {"COMPLETED", "FAILED"}
              \/ rec.status = "ACTIVE" /\ rec.owner = "self"
      reply == IF rec.status = "FAILED" THEN "FAILED" ELSE "COMPLETED"
  IN /\ UNCHANGED <<task, results>>
     /\ \/ /\ done
           /\ thread' = Segment("reply", o, "NONE", "null", reply)
           /\ UNCHANGED run
        \/ /\ ~done
           /\ PrepareResume(o)

\* Mutant: a refused cancel_run returns before it records its end.
StartCancelSilent(o) ==
  /\ thread' = IF run[RunOf(o)].phase = "GATED" \/ run[RunOf(o)].status # "ACTIVE" THEN Idle
               ELSE Segment("finalize", o, "TERMINALIZING", "incomplete", "COMPLETED")
  /\ UNCHANGED <<run, task, results>>

\* requestCancel; the slice is configured, so the Run is finalized at once.
StartCancel(o) ==
  LET rec == run[RunOf(o)]
      refused == rec.phase = "GATED" \/ rec.status \in {"COMPLETED", "FAILED"}
  IN /\ UNCHANGED <<run, task, results>>
     /\ thread' = IF refused
                    THEN Segment("reply", o, "NONE", "null", "COMPLETED")
                    ELSE Segment("finalize", o, "TERMINALIZING", "incomplete", "COMPLETED")

\* _tick: the head of the queue starts, unless a budget is used up; a head that
\* has to wait stays in front of everything behind it.
Tick ==
  /\ up = "up" /\ Free /\ queue # <<>>
  /\ LET o == Head(queue)
     IN  /\ Cardinality(Running) < SlotBudget
         /\ Cardinality({ b \in Running : RunOf(b) = RunOf(o) }) < PerRunBudget
         /\ queue' = Tail(queue)
         /\ \/ o \in Runs /\ StartAudit(o)
            \/ o \in Resumes /\ StartResume(o)
            \/ o \in Cancels /\ StartCancel(o)
  /\ UNCHANGED <<up, ops>>

--------------------------------------------------------------------------------
\* The awaits of execute() come back with a result...
Opened(r) ==
  /\ Free /\ task[r].pc = "open"
  /\ Walk(r, "SEED_RESOLVED", "null")
  /\ UNCHANGED <<up, ops, run, queue>>

Derived(r) ==
  /\ Free /\ task[r].pc = "coverage"
  /\ Walk(r, "COVERAGE_DERIVED", "null")
  /\ UNCHANGED <<up, ops, run, queue>>

Filled(r) ==
  /\ Free /\ task[r].pc = "planner"
  /\ Walk(r, "PLAN_FILLED", "null")
  /\ UNCHANGED <<up, ops, run, queue>>

Executed(r, g) ==
  /\ Free /\ task[r].pc = "runner"
  /\ Walk(r, "EXECUTION_FINISHED", g)
  /\ UNCHANGED <<up, ops, run, queue>>

\* Mutant: the infrastructure failure of a GATED Run is finalized, too.
CatchGated(r, e) ==
  /\ thread' = IF e = "STATE_CORRUPTED"
                 THEN Segment("fail", r, "NONE", "null", "none")
                 ELSE Segment("finalize", r, "RUNTIME_FINALIZED", "infra", "none")
  /\ UNCHANGED task

\* The catch block of _run. Only a GATED Run is left alone, and only by an
\* infrastructure failure.
Catch(r, e) ==
  CASE e = "PLAN_DEFECT" -> Finalize(r, "incomplete", "none") /\ UNCHANGED task
    [] e = "INFRASTRUCTURE" /\ run[r].phase = "GATED" -> EndTask(r)
    [] e = "INFRASTRUCTURE" /\ run[r].phase # "GATED" ->
         Finalize(r, "infra", "none") /\ UNCHANGED task
    [] OTHER -> thread' = Segment("fail", r, "NONE", "null", "none") /\ UNCHANGED task

\* ...or throw. Once the target is open it is closed first ("finally"). Only
\* the planner reports plan defects. The two target providers of this
\* repository never fail to close; one the embedder passes in may.
AwaitFails(r, e) ==
  /\ Free /\ e \in Failures
  /\ e = "PLAN_DEFECT" => task[r].pc = "planner"
  /\ \/ task[r].pc \in {"coverage", "planner", "runner"} /\ Park(r, "close", e)
     \/ task[r].pc = "open" /\ Catch(r, e)
     \/ "close" \in Faults /\ task[r].pc = "close" /\ Catch(r, e)
  /\ UNCHANGED <<up, ops, run, results, queue>>

\* Mutants: the end of execute() is not told from a cancellation, or by the phase.
ClosedUnasked(r) ==
  /\ Free /\ task[r].pc = "close" /\ task[r].arg \in Gates
  /\ thread' = Segment("publish", r, "GATED", task[r].arg, "none")
  /\ UNCHANGED <<up, ops, run, results, queue, task>>

ClosedByPhase(r) ==
  /\ Free /\ task[r].pc = "close"
  /\ IF run[r].phase = "GATED" THEN EndTask(r)
     ELSE thread' = Segment("publish", r, "GATED", "infra", "none") /\ UNCHANGED task
  /\ UNCHANGED <<up, ops, run, results, queue>>

\* The target is closed: execute() returns its verdict or rethrows its error.
\* The verdict of a cancelled Run is dropped.
Closed(r) ==
  /\ Free /\ task[r].pc = "close"
  /\ LET arg == task[r].arg
     IN \/ arg \in FailureKinds /\ Catch(r, arg)
        \/ arg \in Gates /\ run[r].cancel /\ EndTask(r)
        \/ /\ arg \in Gates /\ ~run[r].cancel
           /\ thread' = Segment("publish", r, "GATED", arg, "none")
           /\ UNCHANGED task
  /\ UNCHANGED <<up, ops, run, results, queue>>

\* A file write inside a segment of execute() throws: that of an artifact or of
\* the event log before the next phase is saved, or (torn) that of the operation
\* record after run_state.json was.
StorageFails(e) ==
  /\ "storage" \in Faults /\ thread.job = "walk"
  /\ e \in Failures \ {"PLAN_DEFECT"}
  /\ IF thread.phase = "TARGET_READY" THEN Catch(thread.op, e)
                                      ELSE Park(thread.op, "close", e)
  /\ UNCHANGED <<up, ops, run, results, queue>>

\* The sleep of the resume loop is over.
Woken(o) ==
  /\ Free /\ task[o].pc = "sleep"
  /\ Loop(o, task[o].arg)
  /\ UNCHANGED <<up, ops, run, results, queue, task>>

--------------------------------------------------------------------------------
\* _resyncFromRegistry puts back every bound operation that is not finished and
\* whose Run is ACTIVE. The order is the directory's: any.
Recoverable ==
  { o \in Ops : /\ ops[o].bound
                /\ ops[o].status \in {"ACCEPTED", "RUNNING"}
                /\ run[RunOf(o)].status = "ACTIVE" }

\* A new process over the data root of the old one, or start()/restart() of the
\* server in the same process.
Start ==
  /\ Free /\ (up = "down" \/ "restart" \in Faults)
  /\ up' = "up"
  /\ \E s \in SetToSeqs(Recoverable \ (Queued \cup Running)) : queue' = queue \o s
  /\ UNCHANGED <<thread, ops, run, results, task>>

\* stop(): what is suspended goes on, nothing new starts.
Stop ==
  /\ "restart" \in Faults /\ Free /\ up = "up"
  /\ up' = "stopped"
  /\ queue' = <<>>
  /\ UNCHANGED <<thread, ops, run, results, task>>

\* The process dies between any two writes. Its leases stay behind.
Crash ==
  /\ "crash" \in Faults /\ up # "down"
  /\ up' = "down"
  /\ thread' = Idle
  /\ queue' = <<>>
  /\ task' = [o \in Ops |-> Parked]
  /\ run' = [r \in Runs |-> IF run[r].owner = "self"
                              THEN [run[r] EXCEPT !.owner = "gone"] ELSE run[r]]
  /\ UNCHANGED <<ops, results>>

\* Time passes the staleness threshold of a lease.
Age(r) ==
  /\ Free /\ run[r].phase # "NONE" /\ ~run[r].aged
  /\ run' = [run EXCEPT ![r].aged = TRUE]
  /\ UNCHANGED <<up, thread, ops, results, queue, task>>

--------------------------------------------------------------------------------
Init ==
  /\ up = "up"
  /\ thread = Idle
  /\ ops = [o \in Ops |-> [ status |-> "NONE", bound |-> FALSE,
                            target |-> IF o \in Runs THEN o ELSE CHOOSE r \in Runs : TRUE ]]
  /\ run = [r \in Runs |-> NoRun]
  /\ results = [r \in Runs |-> "null"]
  /\ queue = <<>>
  /\ task = [o \in Ops |-> Parked]

\* The rest of a segment, which nothing but a crash interrupts.
Proceed == WriteRunState \/ WriteOperation \/ CreateRun \/ Bind \/ TakeOver \/ Reply

\* The awaits of the handler of a run_audit settle.
Settle(r) ==
  \/ Opened(r) \/ Derived(r) \/ Filled(r) \/ Closed(r)
  \/ \E g \in Verdicts : Executed(r, g)
  \/ \E e \in Failures : AwaitFails(r, e)

Next ==
  \/ Proceed
  \/ Tick
  \/ \E r \in Runs : AcceptAudit(r) \/ Settle(r) \/ Age(r)
  \/ \E o \in Resumes \cup Cancels, r \in Runs : AcceptTarget(o, r)
  \/ \E o \in Resumes : Woken(o)
  \/ \E e \in Failures : StorageFails(e)
  \/ Start \/ Stop \/ Crash

Spec == Init /\ [][Next]_vars

\* The event loop runs what is ready, and every await of the slice settles:
\* discovery, planner and runner are under timeouts, target adapters answer.
Fairness ==
  /\ WF_vars(Proceed) /\ WF_vars(Tick)
  /\ \A r \in Runs : WF_vars(Settle(r))
  /\ \A o \in Resumes : WF_vars(Woken(o))

FairSpec == Spec /\ Fairness

--------------------------------------------------------------------------------
Jobs == PersistJobs \cup {"idle", "create", "bind", "takeover", "reply"}
Statuses == {"NONE", "ACCEPTED", "RUNNING", "COMPLETED", "FAILED"}
Terminal == {"COMPLETED", "FAILED"}

ThreadType ==
  [ job : Jobs, op : Ops, phase : Phases \cup {"NONE"}, gate : Gates \cup {"null"},
    reply : Terminal \cup {"none"}, torn : BOOLEAN ]

RunType ==
  [ phase : Phases \cup {"NONE"}, status : {"NONE", "ACTIVE", "COMPLETED", "FAILED"},
    gate : Gates \cup {"null"}, cancel : BOOLEAN, attempts : 0..MaxResumeAttempts,
    owner : {"self", "gone", "none"}, aged : BOOLEAN, stale : 0..Confirmations ]

TaskType ==
  [ pc : {"none", "open", "coverage", "planner", "runner", "close", "sleep"},
    arg : Phases \cup Gates \cup FailureKinds \cup {"NONE", "none", "null"} ]

\* The type invariant.
TypeOK ==
  /\ up \in {"up", "stopped", "down"}
  /\ thread \in ThreadType
  /\ ops \in [Ops -> [status : Statuses, target : Runs, bound : BOOLEAN]]
  /\ run \in [Runs -> RunType]
  /\ results \in [Runs -> Gates \cup {"null"}]
  /\ queue \in Seq(Ops)
  /\ task \in [Ops -> TaskType]

Judged == {"pass", "fail", "unstable"}
ResumeAsked(r) == \E o \in Resumes : ops[o].status # "NONE" /\ ops[o].target = r

\* A verdict that speaks about the product (pass, fail, unstable) is the one
\* results.json holds, through crashes, restarts, re-executions, cancellation
\* and storage failures, as long as nobody asked to resume the Run: run_state
\* and results.json are written by different segments, of handlers that a
\* restart may have started twice.
VerdictBacked ==
  \A r \in Runs :
    run[r].gate \in Judged /\ ~ResumeAsked(r) => run[r].gate = results[r]

\* A Run whose cancellation was recorded never ends with a verdict about the
\* product, whatever the handlers suspended at that moment, or started again
\* after a crash, still do: onPhase, the tail of _run and the resume loop each
\* have to look at cancel_requested after their await.
CancelSticks ==
  \A r \in Runs :
    run[r].cancel /\ run[r].phase = "GATED" => run[r].gate \in {"incomplete", "infra"}

\* A published gate is never replaced: not by the handler that was executing
\* when cancel_run finalized the Run, not by an execution after a takeover. Only
\* a resume_run may publish another one.
GateDecidedOnce ==
  [][\A r \in Runs :
       run[r].gate # "null" /\ ~ResumeAsked(r) => run'[r].gate = run[r].gate]_vars

\* The handlers suspended on a Run, without one that only closes its target: the
\* save of GATED has released its lease, and a resume_run may take the Run over.
Writers(r) == { o \in Running : RunOf(o) = r /\ task[o].pc # "close" }

\* The lease lets one handler at a time work on a Run, however many resume_run and
\* cancel_run are asked for: not while it executes, not when one of them has taken
\* it over, and not when it is cancelled while it waits in the queue.
OneWriter == \A r \in Runs : Cardinality(Writers(r)) <= 1

TakesOver(o) == o \in Resumes /\ thread.op = o /\ thread.job = "revive"

\* Every accepted operation ends: a client that polls get_operation_status is
\* not left polling by a failure, by a cancellation that overtakes the
\* execution, or by an operation that waits in the queue. Only a resume_run that
\* takes its Run over never ends: the loop saves the operation of the Run.
OperationsEnd ==
  \A o \in Ops :
    \/ <>TakesOver(o)
    \/ ops[o].status = "ACCEPTED" ~> ops[o].status \in Terminal

\* The Run as its clients see it is the one RunContract promises: the phases
\* follow the frozen table and the outcome is decided once.
Contract ==
  INSTANCE RunContract WITH
    Outcomes <- Gates,
    phase    <- [r \in Runs |-> run[r].phase],
    outcome  <- [r \in Runs |-> IF run[r].status = "FAILED" THEN "failed"
                                ELSE IF run[r].gate = "null" THEN "open"
                                ELSE run[r].gate]

\* Every behaviour is one of RunContract, seen through that mapping.
ContractSpec == Contract!Spec
================================================================================
