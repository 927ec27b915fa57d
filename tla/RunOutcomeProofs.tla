---------------------------- MODULE RunOutcomeProofs ----------------------------
(***************************************************************************)
(* More theorems about RunLifecycle, on top of its invariant: a published  *)
(* gate is final, through all faults; one handler works at a time; the     *)
(* query tools of RunQueries agree; and a Run that nobody takes over is    *)
(* one of RunContract.                                                     *)
(***************************************************************************)
EXTENDS RunLifecycleProofs, RunQueries

--------------------------------------------------------------------------------
(***************************************************************************)
(* A published gate is final: the invariant.                               *)
(***************************************************************************)

\* A cancel_run that finalizes its Run has recorded the cancellation with its first
\* save, so that no handler it finds suspended publishes anything any more.
CancelRecorded ==
  thread.op \in Cancels /\ thread.job = "finalize" =>
    /\ thread.gate = "incomplete"
    /\ \/ thread.phase = "TERMINALIZING" /\ ~thread.torn
       \/ run[RunOf(thread.op)].cancel

\* The verdict of an execution is saved with the last phase.
PublishesGated == thread.job = "publish" => thread.phase = "GATED"

\* What is bound was accepted, and what somebody wants resumed or cancelled was bound.
TargetsAccepted ==
  /\ \A o \in Ops : ops[o].bound => ops[o].status # "NONE"
  /\ \A o \in Resumes \cup Cancels : ops[o].status # "NONE" => ops[ops[o].target].bound

\* The handler of the Run is about to end, and saves no other gate on the way.
Ending(r) ==
  /\ thread.op = r
  /\ \/ thread.job = "publish" /\ thread.torn
     \/ thread.job = "finalize" /\ thread.gate = run[r].gate
     \/ thread.job \in {"fail", "reply"}

\* A handler that outlives the cancellation of its Run finds it cancelled and GATED.
Overtaken(r) == run[r].cancel /\ run[r].phase = "GATED" /\ run[r].gate = "incomplete"

\* A cancel_run that is being queued or refused, or that has just finalized the Run.
Harmless ==
  /\ thread.op \in Cancels
  /\ \/ thread.job \in {"bind", "reply"}
     \/ thread.job = "finalize" /\ thread.phase = "GATED" /\ thread.torn

\* A Run with a gate. Its own handler may still be suspended, or wait in the queue; it
\* then has no lease, and the count of confirmations begins anew.
Settled(r) ==
  /\ run[r].status \in Terminal
  /\ run[r].owner # "self"
  /\ ops[r].status # "NONE"
  /\ r \in Queued => run[r].stale = 0 /\ run[r].gate = "incomplete"
  /\ task[r].pc # "none" => Ending(r) \/ Overtaken(r)
  /\ Free \/ RunOf(thread.op) # r \/ Ending(r) \/ Harmless

DecidedIsSettled ==
  \A r \in Runs : run[r].gate # "null" /\ ~ResumeAsked(r) => Settled(r)

OutcomeInv ==
  /\ Inv
  /\ CancelRecorded
  /\ PublishesGated
  /\ TargetsAccepted
  /\ DecidedIsSettled

--------------------------------------------------------------------------------
(***************************************************************************)
(* Acceptance and cancellation.                                            *)
(***************************************************************************)

LEMMA TargetsStep ==
  ASSUME TypeOK, JobsFit, Accepted, TargetsAccepted, [Next]_vars
  PROVE  TargetsAccepted'
  <1>0. /\ ops \in [Ops -> [status : Statuses, target : Runs, bound : BOOLEAN]]
        /\ thread \in ThreadType /\ thread.op \in Ops /\ RunOf(thread.op) \in Runs
        /\ Runs \subseteq Ops /\ Resumes \cup Cancels \subseteq Ops
    BY RunOfType DEF TypeOK, ThreadType, Ops
  <1>1. ASSUME \A o \in Ops : /\ ops'[o].target = ops[o].target
                              /\ ops'[o].status = "NONE" <=> ops[o].status = "NONE"
                              /\ ops[o].bound => ops'[o].bound,
               \A o \in Ops : ops'[o].bound => ops[o].bound \/ ops'[o].status # "NONE"
        PROVE  TargetsAccepted'
    <2>1. \A o \in Ops : ops'[o].bound => ops'[o].status # "NONE"
      BY <1>1 DEF TargetsAccepted
    <2>2. \A o \in Resumes \cup Cancels : o \in Ops /\ ops[o].target \in Ops
      BY <1>0
    <2>. QED
      BY <1>1, <2>1, <2>2 DEF TargetsAccepted
  <1>2. CASE WriteOperation
    <2>1. OperationStatus # "NONE"
      BY DEF OperationStatus
    <2>2. ops' = [ops EXCEPT ![RunOf(thread.op)].status = OperationStatus]
      BY <1>2 DEF WriteOperation
    <2>3. ~Free
      BY <1>2 DEF WriteOperation, Free
    <2>4. Busy(thread.op)
      BY <2>3 DEF Busy
    <2>5. ops[thread.op].status # "NONE"
      BY <1>0, <2>4 DEF Accepted
    <2>6. ops[RunOf(thread.op)].status # "NONE"
      BY <1>0, <2>5 DEF RunOf, TargetsAccepted, Ops
    <2>. QED
      BY <1>0, <1>1, <2>1, <2>2, <2>6
  <1>3. CASE Bind \/ Reply
    <2>1. ~Free
      BY <1>3 DEF Bind, Reply, Free
    <2>2. ops[thread.op].status # "NONE"
      BY <1>0, <2>1 DEF Accepted, Busy
    <2>3. thread.job = "reply" => thread.reply \in Terminal
      BY <1>0 DEF JobsFit, ThreadType
    <2>. DEFINE status == IF thread.op \in Runs THEN "RUNNING" ELSE "ACCEPTED"
    <2>4. CASE Bind
      <3>1. ops' = [ops EXCEPT ![thread.op].bound = TRUE, ![thread.op].status = status]
        BY <2>4 DEF Bind
      <3>2. status # "NONE"
        OBVIOUS
      <3>. HIDE DEF status
      <3>. QED
        BY <1>0, <1>1, <2>2, <3>1, <3>2
    <2>5. CASE Reply
      <3>1. ops' = [ops EXCEPT ![thread.op].status = thread.reply] /\ thread.reply # "NONE"
        BY <2>3, <2>5 DEF Reply, Terminal
      <3>. QED
        BY <1>0, <1>1, <2>2, <3>1
    <2>. QED
      BY <1>3, <2>4, <2>5
  <1>4. ASSUME NEW r \in Runs, AcceptAudit(r)
        PROVE  TargetsAccepted'
    <2>1. ops' = [ops EXCEPT ![r].status = "ACCEPTED"]
      BY <1>4 DEF AcceptAudit
    <2>2. \A o \in Ops : /\ ops'[o].target = ops[o].target
                         /\ ops'[o].bound = ops[o].bound
                         /\ o # r => ops'[o].status = ops[o].status
      BY <1>0, <2>1
    <2>3. ops'[r].status # "NONE"
      BY <1>0, <2>1
    <2>4. \A o \in Ops : ops[o].status # "NONE" => ops'[o].status # "NONE"
      BY <2>2, <2>3
    <2>5. \A o \in Resumes \cup Cancels : /\ o \in Ops /\ ops[o].target \in Ops
                                          /\ ops'[o].status = ops[o].status
      BY <1>0, <2>2, OpsAssumption
    <2>. QED
      BY <2>2, <2>4, <2>5 DEF TargetsAccepted
  <1>5. ASSUME NEW o \in Resumes \cup Cancels, NEW r \in Runs, AcceptTarget(o, r)
        PROVE  TargetsAccepted'
    <2>1. /\ ops[r].bound /\ o \in Ops /\ o \notin Runs
          /\ ops' = [ops EXCEPT ![o] = [status |-> "ACCEPTED", target |-> r, bound |-> FALSE]]
      BY <1>0, <1>5, OpsAssumption DEF AcceptTarget
    <2>2. /\ \A x \in Ops : x # o => ops'[x] = ops[x]
          /\ \A x \in Runs : ops'[x] = ops[x]
          /\ ~ops'[o].bound /\ ops'[o].target = r
      BY <1>0, <2>1
    <2>3. \A x \in Ops : ops'[x].bound => ops'[x].status # "NONE"
      BY <2>2 DEF TargetsAccepted
    <2>4. \A x \in Resumes \cup Cancels : x \in Ops /\ ops[x].target \in Runs
      BY <1>0
    <2>. QED
      BY <2>1, <2>2, <2>3, <2>4 DEF TargetsAccepted
  <1>6. ASSUME UNCHANGED ops
        PROVE  TargetsAccepted'
    BY <1>6 DEF TargetsAccepted
  <1>7. ASSUME \/ WriteRunState \/ CreateRun \/ TakeOver \/ Tick
               \/ \E o \in Resumes : Woken(o)
               \/ \E e \in Failures : StorageFails(e)
               \/ Start \/ Stop \/ Crash \/ UNCHANGED vars
        PROVE  UNCHANGED ops
    BY <1>7 DEF WriteRunState, CreateRun, TakeOver, Tick, Woken, StorageFails, Start, Stop,
                Crash, vars
  <1>8. ASSUME NEW r \in Runs, OfRun(r), ~AcceptAudit(r)
        PROVE  UNCHANGED ops
    BY <1>0, <1>8, SettleTouches DEF Age
  <1>. QED
    BY <1>2, <1>3, <1>4, <1>5, <1>6, <1>7, <1>8, NextCases, Zenon

\* What a save does to the lease.
LEMMA SavedOwner ==
  ASSUME TypeOK, AttemptsLeft, PublishesGated, WriteRunState
  PROVE  LET old == run[RunOf(thread.op)]
             new == run'[RunOf(thread.op)]
         IN  /\ new.owner = old.owner \/ new.owner = "none"
             /\ OperationStatus = "RUNNING" => new.owner = old.owner
             /\ new.stale = old.stale \/ new.stale = 0
             /\ \/ thread.job = "publish"
                \/ thread.job = "finalize" /\ thread.phase = "GATED"
                => new.owner = "none" /\ new.stale = 0
             /\ thread.job = "finalize" /\ thread.phase # "GATED" =>
                  new.cancel = (old.cancel \/ (thread.phase = "TERMINALIZING"
                                               /\ thread.op \in Cancels))
  <1>. DEFINE r   == RunOf(thread.op)
              N   == NextRecord(run[r])
              new == run'[r]
              c   == run[r].cancel \/ (thread.phase = "TERMINALIZING" /\ thread.op \in Cancels)
  <1>0. r \in Runs /\ run[r] \in RunType
    BY RunOfType DEF TypeOK, ThreadType
  <1>j. thread.job \in PersistJobs /\ ~thread.torn
    BY DEF WriteRunState
  <1>1. new = Saved(N, OperationStatus)
    BY <1>0 DEF WriteRunState, TypeOK
  <1>2. N \in RunType
    BY <1>0, <1>j, NextRecordType DEF AttemptsLeft
  <1>3. /\ N.owner = run[r].owner /\ N.stale = run[r].stale
        /\ thread.job = "finalize" /\ thread.phase # "GATED" => N.cancel = c
    <2>1. CASE thread.job = "finalize" /\ thread.phase # "GATED"
      <3>1. N = [run[r] EXCEPT !.phase = thread.phase, !.cancel = c]
        BY <2>1 DEF NextRecord
      <3>. HIDE DEF c, N
      <3>. QED
        BY <1>0, <2>1, <3>1 DEF RunType
    <2>2. CASE ~(thread.job = "finalize" /\ thread.phase # "GATED")
      <3>1. \/ N = [run[r] EXCEPT !.phase = thread.phase]
            \/ N = [run[r] EXCEPT !.status = "FAILED"]
            \/ N = [run[r] EXCEPT !.status = "ACTIVE", !.attempts = run[r].attempts + 1]
            \/ N = [run[r] EXCEPT !.phase = "GATED", !.status = "COMPLETED", !.gate = thread.gate]
        BY <2>2, Zenon DEF NextRecord
      <3>. HIDE DEF N
      <3>. QED
        BY <1>0, <2>2, <3>1 DEF RunType
    <2>. QED
      BY <2>1, <2>2
  <1>4. \/ thread.job = "publish"
        \/ thread.job = "finalize" /\ thread.phase = "GATED"
        => OperationStatus # "RUNNING"
    BY DEF OperationStatus, PublishesGated
  <1>. HIDE DEF N, new, c
  <1>5. /\ new.owner = N.owner \/ new.owner = "none"
        /\ OperationStatus = "RUNNING" => new.owner = N.owner
        /\ new.stale = N.stale \/ new.stale = 0
        /\ new.cancel = N.cancel
        /\ OperationStatus # "RUNNING" => new.owner = "none" /\ new.stale = 0
    BY <1>1, <1>2 DEF Saved, RunType
  <1>. QED
    BY <1>3, <1>4, <1>5 DEF new, c

\* How a segment begins: in every step but a save and what follows it.
LEMMA SegmentBegins ==
  ASSUME TypeOK, JobsFit, Next, ~WriteRunState, ~WriteOperation
  PROVE  /\ thread'.job = "publish" => thread'.phase = "GATED"
         /\ thread'.job = "loop" => thread'.phase # "GATED"
         /\ thread'.job = "revive" => TakeOver
         /\ thread'.job = "bind" => CreateRun \/ thread'.op \notin Runs
         /\ thread'.job = "finalize" =>
              \/ thread'.op \in Runs \cup Resumes
              \/ /\ thread'.op \in Cancels /\ thread'.gate = "incomplete"
                 /\ thread'.phase = "TERMINALIZING" /\ ~thread'.torn
  <1>. DEFINE Fine == /\ thread'.job = "publish" => thread'.phase = "GATED"
                      /\ thread'.job = "loop" => thread'.phase # "GATED"
                      /\ thread'.job = "revive" => TakeOver
                      /\ thread'.job = "bind" => CreateRun \/ thread'.op \notin Runs
                      /\ thread'.job = "finalize" =>
                           \/ thread'.op \in Runs \cup Resumes
                           \/ /\ thread'.op \in Cancels /\ thread'.gate = "incomplete"
                              /\ thread'.phase = "TERMINALIZING" /\ ~thread'.torn
  <1>0. thread \in ThreadType
    BY DEF TypeOK
  <1>w. ASSUME NEW r, NEW p, NEW g, Walk(r, p, g)
        PROVE  Fine
    BY <1>w, WalkCases DEF Segment, Idle
  <1>c. ASSUME NEW r \in Runs, NEW e, Catch(r, e)
        PROVE  Fine
    BY <1>c, CatchCases DEF Segment, Idle
  <1>l. ASSUME NEW o \in Resumes, NEW p, Loop(o, p)
        PROVE  Fine
    BY <1>l, LoopCases DEF Segment
  <1>i. ASSUME thread' = Idle
        PROVE  Fine
    BY <1>i DEF Idle
  <1>1. CASE CreateRun \/ Bind \/ TakeOver \/ Reply \/ Crash
    BY <1>0, <1>1 DEF CreateRun, Bind, TakeOver, Reply, EndTask, Park, Crash, Idle, ThreadType
  <1>2. CASE Tick
    <2>. DEFINE o == Head(queue)
    <2>0. o \in Ops
      BY <1>2, TickTouches
    <2>. HIDE DEF o
    <2>1. ASSUME o \in Runs \cup Resumes, PrepareResume(o)
          PROVE  Fine
      BY <2>0, <2>1, PrepareResumeCases DEF Segment, Idle
    <2>2. ASSUME NEW reply, thread' = Segment("reply", o, "NONE", "null", reply)
          PROVE  Fine
      BY <2>2 DEF Segment
    <2>3. ASSUME o \in Cancels,
                 thread' = Segment("finalize", o, "TERMINALIZING", "incomplete", "COMPLETED")
          PROVE  Fine
      BY <2>3 DEF Segment
    <2>. QED
      BY <1>2, <1>w, <2>1, <2>2, <2>3, TickCases, Zenon DEF o
  <1>3. ASSUME NEW r \in Runs, OfRun(r)
        PROVE  Fine
    <2>1. CASE AcceptAudit(r)
      BY <2>1 DEF AcceptAudit, Segment
    <2>2. CASE Age(r)
      BY <2>2 DEF Age, Free
    <2>3. ASSUME Opened(r) \/ Derived(r) \/ Filled(r) \/ \E g \in Verdicts : Executed(r, g)
          PROVE  \E p, g : Walk(r, p, g)
      BY <2>3, Zenon DEF Opened, Derived, Filled, Executed
    <2>4. ASSUME Closed(r)
          PROVE  \/ \E e : Catch(r, e)
                 \/ thread' = Idle
                 \/ \E g : thread' = Segment("publish", r, "GATED", g, "none")
      BY <2>4, Zenon DEF Closed, EndTask, Park
    <2>5. ASSUME NEW g, thread' = Segment("publish", r, "GATED", g, "none")
          PROVE  Fine
      BY <2>5 DEF Segment
    <2>6. ASSUME \E e \in Failures : AwaitFails(r, e)
          PROVE  (\E e : Catch(r, e)) \/ thread' = Idle
      BY <2>6, Zenon DEF AwaitFails, Park
    <2>. QED
      BY <1>3, <1>w, <1>c, <1>i, <2>1, <2>2, <2>3, <2>4, <2>5, <2>6, Zenon DEF OfRun
  <1>4. ASSUME NEW o \in Resumes \cup Cancels, NEW r \in Runs, AcceptTarget(o, r)
        PROVE  Fine
    BY <1>4, OpsAssumption DEF AcceptTarget, Segment
  <1>5. ASSUME NEW o \in Resumes, Woken(o)
        PROVE  Fine
    BY <1>5, <1>l DEF Woken
  <1>6. ASSUME NEW e \in Failures, StorageFails(e)
        PROVE  Fine
    <2>1. thread.op \in Runs /\ (Catch(thread.op, e) \/ thread' = Idle)
      BY <1>6 DEF StorageFails, Park, JobsFit
    <2>. QED
      BY <2>1, <1>c, <1>i
  <1>7. CASE Start \/ Stop
    BY <1>7 DEF Start, Stop, Free
  <1>. QED
    BY <1>1, <1>2, <1>3, <1>4, <1>5, <1>6, <1>7, NextCases, Zenon
\* With its first save a cancel_run records the cancellation, and it is not forgotten.
LEMMA RecordedStep ==
  ASSUME TypeOK, JobsFit, AttemptsLeft, CancelRecorded, PublishesGated, [Next]_vars
  PROVE  CancelRecorded' /\ PublishesGated'
  <1>0. thread \in ThreadType /\ RunOf(thread.op) \in Runs
    BY RunOfType DEF TypeOK, ThreadType
  <1>1. CASE WriteRunState
    <2>. DEFINE old == run[RunOf(thread.op)]
                new == run'[RunOf(thread.op)]
    <2>1. thread' = [thread EXCEPT !.torn = TRUE] /\ UNCHANGED ops /\ ~thread.torn
      BY <1>1 DEF WriteRunState
    <2>2. /\ thread'.job = thread.job /\ thread'.phase = thread.phase
          /\ thread'.op = thread.op /\ thread'.gate = thread.gate
          /\ RunOf(thread.op)' = RunOf(thread.op)
      BY <1>0, <2>1 DEF ThreadType, RunOf
    <2>3. thread.job = "finalize" /\ thread.phase # "GATED" =>
            new.cancel = (old.cancel \/ (thread.phase = "TERMINALIZING" /\ thread.op \in Cancels))
      BY <1>1, SavedOwner, Zenon
    <2>4. thread.job = "finalize" /\ thread.phase = "GATED" => new.cancel = old.cancel
      BY <1>1, SaveCases
    <2>. HIDE DEF old, new
    <2>5. thread.op \in Cancels /\ thread.job = "finalize" => new.cancel
      <3>1. thread.op \in Cancels /\ thread.job = "finalize" =>
              thread.phase = "TERMINALIZING" \/ old.cancel
        BY DEF CancelRecorded, old
      <3>2. thread.phase = "GATED" => thread.phase # "TERMINALIZING"
        OBVIOUS
      <3>. QED
        BY <2>3, <2>4, <3>1, <3>2, Zenon
    <2>6. CancelRecorded'
      BY <2>2, <2>5, Zenon DEF CancelRecorded, new
    <2>. QED
      BY <2>2, <2>6 DEF PublishesGated
  <1>2. CASE WriteOperation
    <2>1. thread.torn /\ UNCHANGED run
      BY <1>2 DEF WriteOperation
    <2>2. thread'.op = thread.op => RunOf(thread.op)' = RunOf(thread.op)
      <3>1. thread.op \in Ops /\ \A x \in Ops : ops'[x].target = ops[x].target
        BY <1>0, <1>2, SegmentTouches DEF Touches, ThreadType
      <3>. QED
        BY <3>1 DEF RunOf
    <2>3. ASSUME thread.job = "finalize",
                 thread' = [thread EXCEPT !.phase = Following(thread.phase), !.torn = FALSE]
          PROVE  CancelRecorded' /\ PublishesGated'
      <3>1. thread'.job = "finalize" /\ thread'.op = thread.op /\ thread'.gate = thread.gate
        BY <1>0, <2>3 DEF ThreadType
      <3>2. thread.op \in Cancels => thread.gate = "incomplete" /\ run[RunOf(thread.op)].cancel
        BY <2>1, <2>3 DEF CancelRecorded
      <3>3. RunOf(thread.op)' = RunOf(thread.op)
        BY <2>2, <3>1
      <3>. QED
        BY <2>1, <3>1, <3>2, <3>3 DEF CancelRecorded, PublishesGated
    <2>4. ASSUME \/ thread'.job \in {"walk", "reply", "loop", "idle"}
                 \/ thread'.job = "finalize" /\ thread'.op \in Resumes
                 \/ thread'.job = "publish" /\ thread'.phase = "GATED"
          PROVE  CancelRecorded' /\ PublishesGated'
      BY <2>4, OpsAssumption DEF CancelRecorded, PublishesGated
    <2>5. ASSUME thread.job = "revive" /\ thread.op \in Resumes,
                 Loop(thread.op, run[RunOf(thread.op)].phase)
          PROVE  \/ thread'.job \in {"walk", "reply", "loop", "idle"}
                 \/ thread'.job = "finalize" /\ thread'.op \in Resumes
                 \/ thread'.job = "publish" /\ thread'.phase = "GATED"
      BY <2>5, LoopCases DEF Segment
    <2>6. ASSUME Walk(thread.op, "TARGET_READY", "null")
          PROVE  thread'.job \in {"walk", "reply", "loop", "idle"}
      BY <2>6, WalkCases DEF Segment, Idle
    <2>7. ASSUME \/ /\ thread.job = "walk"
                    /\ thread' = [thread EXCEPT !.phase = Following(thread.phase), !.torn = FALSE]
                 \/ thread' = Idle
                 \/ thread' = [thread EXCEPT !.job = "reply", !.torn = FALSE]
          PROVE  thread'.job \in {"walk", "reply", "loop", "idle"}
      <3>1. CASE thread' = Idle
        BY <3>1 DEF Idle
      <3>2. CASE thread' = [thread EXCEPT !.job = "reply", !.torn = FALSE]
        BY <1>0, <3>2 DEF ThreadType
      <3>3. CASE /\ thread.job = "walk"
                 /\ thread' = [thread EXCEPT !.phase = Following(thread.phase), !.torn = FALSE]
        BY <1>0, <3>3 DEF ThreadType
      <3>. QED
        BY <2>7, <3>1, <3>2, <3>3
    <2>. QED
      BY <1>2, <2>3, <2>4, <2>5, <2>6, <2>7, WriteOperationCases, Zenon
  <1>3. CASE Next /\ ~WriteRunState /\ ~WriteOperation
    <2>1. /\ thread'.job = "publish" => thread'.phase = "GATED"
          /\ thread'.job = "finalize" =>
               \/ thread'.op \in Runs \cup Resumes
               \/ /\ thread'.op \in Cancels /\ thread'.gate = "incomplete"
                  /\ thread'.phase = "TERMINALIZING" /\ ~thread'.torn
      BY <1>3, SegmentBegins
    <2>. QED
      BY <2>1, OpsAssumption DEF CancelRecorded, PublishesGated
  <1>4. CASE UNCHANGED vars
    BY <1>4 DEF vars, CancelRecorded, PublishesGated, RunOf
  <1>. QED
    BY <1>1, <1>2, <1>3, <1>4, Zenon

--------------------------------------------------------------------------------
(***************************************************************************)
(* A Run with a gate stays settled.                                        *)
(***************************************************************************)

\* A step on behalf of another Run does not disturb a settled one.
LEMMA OthersSettled ==
  ASSUME TypeOK, NEW r \in Runs, NEW o \in Ops, Settled(r), Touches(o), RunOf(o) # r,
         Queued' \subseteq Queued \cup {o}, Free \/ thread.op = o
  PROVE  Settled(r)' /\ run'[r].gate = run[r].gate
  <1>0. r \in Ops /\ RunOf(r) = r /\ r # o
    BY DEF Ops, RunOf
  <1>1. run'[r] = run[r] /\ task'[r] = task[r]
    BY <1>0 DEF Touches
  <1>2. ops'[r].status # "NONE" /\ (r \in Queued' => r \in Queued)
    BY <1>0 DEF Touches, Settled
  <1>3. ~Ending(r)
    BY <1>0 DEF Ending, Free
  <1>4. thread'.job = "idle" \/ (thread'.op = o /\ RunOf(o)' = RunOf(o))
    BY DEF Touches, Idle, RunOf
  <1>5. thread'.job = "idle" \/ RunOf(thread.op)' # r
    BY <1>4 DEF RunOf
  <1>6. Overtaken(r) => Overtaken(r)'
    BY <1>1 DEF Overtaken
  <1>. QED
    BY <1>1, <1>2, <1>3, <1>5, <1>6 DEF Settled, Free
\* The end of its own handler, which was at the last save or has to give up.
LEMMA EndingStep ==
  ASSUME TypeOK, JobsFit, AttemptsLeft, PublishesGated, QueuedOnce,
         NEW r \in Runs, Settled(r), Ending(r),
         \/ WriteRunState \/ WriteOperation \/ CreateRun \/ Bind \/ TakeOver \/ Reply
         \/ \E e \in Failures : StorageFails(e)
  PROVE  Settled(r)' /\ run'[r].gate = run[r].gate
  <1>0. /\ thread \in ThreadType /\ r \in Ops /\ RunOf(r) = r /\ thread.op = r
        /\ task \in [Ops -> TaskType]
    BY DEF TypeOK, Ops, RunOf, Ending
  <1>1. /\ thread.job \in {"publish", "finalize", "fail", "reply"}
        /\ thread.job = "publish" => thread.torn
        /\ thread.job = "finalize" => thread.gate = run[r].gate
    BY DEF Ending
  <1>2. r \notin Queued
    BY <1>0, <1>1 DEF QueuedOnce, Free
  <1>3. ops'[r].status # "NONE"
    BY <1>0, SegmentTouches DEF Touches, Settled
  <1>4. CASE WriteRunState
    <2>1. /\ thread.job \in {"finalize", "fail"}
          /\ thread' = [thread EXCEPT !.torn = TRUE] /\ UNCHANGED <<queue, task>>
      BY <1>1, <1>4 DEF WriteRunState, PersistJobs
    <2>2. /\ thread'.op = r /\ thread'.job = thread.job /\ thread'.gate = thread.gate
      BY <1>0, <2>1 DEF ThreadType
    <2>3. run'[r].status \in Terminal /\ run'[r].gate = run[r].gate
      BY <1>0, <1>1, <1>4, <2>1, SaveCases DEF Terminal, Settled
    <2>4. run'[r].owner # "self"
      <3>1. run'[r].owner = run[r].owner \/ run'[r].owner = "none"
        BY <1>0, <1>4, SavedOwner, Zenon
      <3>. QED
        BY <3>1 DEF Settled
    <2>5. Ending(r)' /\ r \notin Queued'
      BY <1>1, <1>2, <2>1, <2>2, <2>3 DEF Ending, Queued
    <2>. QED
      BY <1>3, <2>3, <2>4, <2>5 DEF Settled
  <1>5. CASE WriteOperation
    <2>0. UNCHANGED <<run, queue>> /\ r \notin Queued'
      BY <1>2, <1>5 DEF WriteOperation, Queued
    <2>1. ASSUME thread' = Idle, task' = [task EXCEPT ![r] = Parked]
          PROVE  Settled(r)'
      <3>1. Free' /\ task'[r].pc = "none"
        BY <1>0, <2>1 DEF Free, Idle, Parked
      <3>. QED
        BY <1>3, <2>0, <3>1 DEF Settled
    <2>2. ASSUME Ending(r)'
          PROVE  Settled(r)'
      BY <1>3, <2>0, <2>2 DEF Settled
    <2>3. ASSUME thread.job = "finalize",
                 thread' = [thread EXCEPT !.phase = Following(thread.phase), !.torn = FALSE]
          PROVE  Ending(r)'
      BY <1>0, <1>1, <2>0, <2>3 DEF Ending, ThreadType
    <2>4. ASSUME thread' = [thread EXCEPT !.job = "reply", !.torn = FALSE]
          PROVE  Ending(r)'
      BY <1>0, <2>4 DEF Ending, ThreadType
    <2>5. Settled(r)'
      BY <1>0, <1>1, <1>5, <2>1, <2>2, <2>3, <2>4, WriteOperationCases, Zenon
    <2>. QED
      BY <2>0, <2>5
  <1>6. CASE Reply
    <2>1. /\ UNCHANGED <<run, queue>> /\ thread' = Idle
          /\ task' = [task EXCEPT ![r] = Parked]
      BY <1>0, <1>6 DEF Reply, EndTask, Park, Parked
    <2>2. Free' /\ task'[r].pc = "none" /\ r \notin Queued'
      BY <1>0, <1>2, <2>1 DEF Free, Idle, Parked, Queued
    <2>. QED
      BY <1>3, <2>1, <2>2 DEF Settled
  <1>. QED
    BY <1>1, <1>4, <1>5, <1>6 DEF CreateRun, Bind, TakeOver, StorageFails

\* A cancel_run is queued or refused, or ends.
LEMMA HarmlessStep ==
  ASSUME TypeOK, JobsFit, NEW r \in Runs, Settled(r), Harmless, RunOf(thread.op) = r,
         \/ WriteRunState \/ WriteOperation \/ CreateRun \/ Bind \/ TakeOver \/ Reply
         \/ \E e \in Failures : StorageFails(e)
  PROVE  Settled(r)' /\ run'[r].gate = run[r].gate
  <1>. DEFINE o == thread.op
  <1>0. /\ thread \in ThreadType /\ o \in Ops /\ r \in Ops /\ o \in Cancels
        /\ task \in [Ops -> TaskType] /\ queue \in Seq(Ops)
    BY DEF TypeOK, ThreadType, Ops, Harmless
  <1>1. o # r /\ ~Ending(r)
    BY <1>0, OpsAssumption DEF Ending
  <1>2. ops'[r].status # "NONE"
    BY <1>0, SegmentTouches DEF Touches, Settled
  <1>3. \/ Bind \/ Reply
        \/ WriteOperation /\ thread.job = "finalize" /\ thread.phase = "GATED"
    BY DEF Harmless, WriteRunState, PersistJobs, WriteOperation, CreateRun, Bind, TakeOver,
           Reply, StorageFails
  <1>4. UNCHANGED run /\ task'[r] = task[r]
    BY <1>0, <1>1, <1>3, SegmentTouches DEF Bind, Reply, WriteOperation, Touches
  <1>5. r \in Queued' => r \in Queued
    <2>1. CASE queue' = queue
      BY <2>1 DEF Queued
    <2>2. CASE queue' = Append(queue, o)
      BY <1>0, <1>1, <2>2 DEF Queued
    <2>. QED
      BY <1>3, <2>1, <2>2, QueueCases DEF Reply, WriteOperation
  <1>6. Free' \/ Harmless'
    <2>1. CASE Bind \/ Reply
      BY <2>1 DEF Bind, Reply, EndTask, Park, Free, Idle
    <2>2. CASE WriteOperation /\ thread.job = "finalize" /\ thread.phase = "GATED"
      <3>1. thread' = [thread EXCEPT !.job = "reply", !.torn = FALSE] \/ thread' = Idle
        BY <2>2, Zenon DEF WriteOperation, EndTask, Park
      <3>2. CASE thread' = [thread EXCEPT !.job = "reply", !.torn = FALSE]
        BY <1>0, <3>2 DEF ThreadType, Harmless
      <3>3. CASE thread' = Idle
        BY <3>3 DEF Free, Idle
      <3>. QED
        BY <3>1, <3>2, <3>3
    <2>. QED
      BY <1>3, <2>1, <2>2
  <1>7. Overtaken(r) => Overtaken(r)'
    BY <1>4 DEF Overtaken
  <1>. QED
    BY <1>1, <1>2, <1>4, <1>5, <1>6, <1>7 DEF Settled
\* With no observation counted yet, a single one does not confirm a takeover.
LEMMA PrepareResumeFresh ==
  ASSUME TypeOK, NEW r \in Runs, run[r].stale = 0, PrepareResume(r)
  PROVE  \/ /\ UNCHANGED run
            /\ \E p : thread' = Segment("finalize", r, p, "incomplete", "none")
         \/ (\E n : run' = [run EXCEPT ![r].stale = n]) /\ thread' = Idle
  <1>. DEFINE seen == IF ~run[r].aged THEN 0
                      ELSE IF run[r].stale < Confirmations THEN run[r].stale + 1
                      ELSE Confirmations
  <1>0. RunOf(r) = r /\ r \notin Resumes /\ run[r] \in RunType
    BY OpsAssumption DEF RunOf, TypeOK
  <1>1. CASE run[r].attempts >= MaxResumeAttempts
    <2>1. ~(run[r].attempts < MaxResumeAttempts)
      BY <1>0, <1>1, ParameterAssumption DEF RunType
    <2>2. Finalize(r, "incomplete", "none") /\ UNCHANGED run
      BY <1>0, <2>1, Zenon DEF PrepareResume
    <2>. QED
      BY <2>2, Zenon DEF Finalize
  <1>2. CASE ~(run[r].attempts >= MaxResumeAttempts)
    <2>1. seen < Confirmations /\ ~(seen >= Confirmations)
      BY <1>0, ParameterAssumption
    <2>. HIDE DEF seen
    <2>2. run' = [run EXCEPT ![r].stale = seen] /\ thread' = Idle
      BY <1>0, <1>2, <2>1, Zenon DEF PrepareResume, seen
    <2>. QED
      BY <2>2
  <1>. QED
    BY <1>1, <1>2

\* The start of a handler. That of a cancel_run finds the Run finished; that of the
\* Run itself, which waited in the queue, finds that it has lost its lease.
LEMMA TickKeepsSettled ==
  ASSUME TypeOK, Accepted, QueuedOnce, NEW r \in Runs, Settled(r), ~ResumeAsked(r), Tick
  PROVE  Settled(r)' /\ run'[r].gate = run[r].gate
  <1>. DEFINE o == Head(queue)
  <1>0. o \in Ops /\ o \in Queued /\ Free /\ Touches(o) /\ ops[o].status # "NONE"
    BY TickTouches DEF Accepted, Busy
  <1>1. queue \in Seq(Ops) /\ queue # <<>> /\ queue' = Tail(queue) /\ UNCHANGED ops
    BY TickCases DEF TypeOK
  <1>2. Queued' \subseteq Queued
    BY <1>1 DEF Queued
  <1>3. ops'[r].status # "NONE" /\ ~Ending(r)
    BY <1>0, <1>1 DEF Settled, Ending, Free
  <1>4. CASE RunOf(o) # r
    BY <1>0, <1>2, <1>4, OthersSettled
  <1>5. CASE RunOf(o) = r /\ o # r
    <2>1. o \notin Runs /\ o \notin Resumes
      BY <1>0, <1>5 DEF RunOf, ResumeAsked
    <2>2. o \in Cancels /\ run[RunOf(o)].status \in Terminal
      BY <1>0, <1>5, <2>1 DEF Ops, Settled
    <2>3. /\ UNCHANGED <<run, task>>
          /\ \E reply : thread' = Segment("reply", o, "NONE", "null", reply)
      BY <2>1, <2>2, TickCases, Zenon
    <2>4. Harmless'
      BY <2>2, <2>3 DEF Segment, Harmless
    <2>5. Overtaken(r) => Overtaken(r)'
      BY <2>3 DEF Overtaken
    <2>. QED
      BY <1>2, <1>3, <2>3, <2>4, <2>5 DEF Settled
  <1>6. CASE o = r
    <2>0. run[r].stale = 0 /\ run[r].gate = "incomplete" /\ run[r].owner # "self"
      BY <1>0, <1>6 DEF Settled
    <2>1. r \notin Resumes \cup Cancels
      BY OpsAssumption
    <2>2. PrepareResume(r) /\ UNCHANGED task
      BY <1>6, <2>0, <2>1, TickCases, Zenon
    <2>3. task'[r].pc = "none"
      BY <1>0, <1>6, <2>2 DEF QueuedOnce
    <2>4. r \notin Queued'
      <3>1. \A i, j \in 1..Len(queue) : queue[i] = queue[j] => i = j
        BY DEF QueuedOnce
      <3>2. \A i \in 1..Len(Tail(queue)) : Tail(queue)[i] # r
        BY <1>1, <1>6, <3>1, TailOnce
      <3>. QED
        BY <1>1, <3>2 DEF Queued
    <2>5. ASSUME NEW p, UNCHANGED run, thread' = Segment("finalize", r, p, "incomplete", "none")
          PROVE  Settled(r)' /\ run'[r].gate = run[r].gate
      <3>1. Ending(r)'
        BY <2>0, <2>5 DEF Segment, Ending
      <3>. QED
        BY <1>3, <2>3, <2>4, <2>5, <3>1 DEF Settled
    <2>6. ASSUME NEW n, run' = [run EXCEPT ![r].stale = n], thread' = Idle
          PROVE  Settled(r)' /\ run'[r].gate = run[r].gate
      <3>1. /\ run'[r].gate = run[r].gate /\ run'[r].status = run[r].status
            /\ run'[r].owner = run[r].owner
        BY <2>6 DEF TypeOK, RunType
      <3>2. Free'
        BY <2>6 DEF Free, Idle
      <3>. QED
        BY <1>3, <2>3, <2>4, <3>1, <3>2 DEF Settled
    <2>. QED
      BY <2>0, <2>2, <2>5, <2>6, PrepareResumeFresh, Zenon
  <1>. QED
    BY <1>4, <1>5, <1>6

\* Its own handler, suspended while a cancel_run finalized the Run, finds that out.
LEMMA SettleKeepsSettled ==
  ASSUME TypeOK, QueuedOnce, NEW r \in Runs, Settled(r), OfRun(r), ~AcceptAudit(r), ~Age(r)
  PROVE  Settled(r)' /\ run'[r].gate = run[r].gate
  <1>0. /\ Free /\ task[r].pc # "none" /\ Touches(r) /\ UNCHANGED <<ops, run, queue>>
        /\ r \in Ops /\ task \in [Ops -> TaskType]
    BY SettleTouches DEF Ops, TypeOK
  <1>1. /\ run[r].cancel /\ run[r].phase = "GATED" /\ run[r].gate = "incomplete"
        /\ Overtaken(r)'
    BY <1>0 DEF Settled, Ending, Free, Overtaken
  <1>2. r \notin Queued'
    BY <1>0 DEF QueuedOnce, Queued
  <1>3. ASSUME Free' \/ Ending(r)'
        PROVE  Settled(r)' /\ run'[r].gate = run[r].gate
    BY <1>0, <1>1, <1>2, <1>3 DEF Settled
  <1>4. ASSUME NEW p, NEW g, Walk(r, p, g)
        PROVE  Free'
    BY <1>1, <1>4, WalkCases DEF Free, Idle
  <1>5. ASSUME NEW e, Catch(r, e)
        PROVE  Free' \/ Ending(r)'
    <2>1. \/ Finalize(r, "incomplete", "none")
          \/ EndTask(r)
          \/ thread' = Segment("fail", r, "NONE", "null", "none")
      BY <1>1, <1>5, Zenon DEF Catch
    <2>2. ASSUME Finalize(r, "incomplete", "none")
          PROVE  Ending(r)'
      BY <1>0, <1>1, <2>2 DEF Finalize, Segment, Ending
    <2>. QED
      BY <2>1, <2>2 DEF EndTask, Park, Free, Idle, Segment, Ending
  <1>6. ASSUME Closed(r)
        PROVE  Free' \/ Ending(r)'
    <2>1. EndTask(r) \/ Catch(r, task[r].arg)
      BY <1>1, <1>6, Zenon DEF Closed
    <2>. QED
      BY <1>5, <2>1 DEF EndTask, Park, Free, Idle
  <1>7. ASSUME NEW e \in Failures, AwaitFails(r, e)
        PROVE  Free' \/ Ending(r)'
    <2>1. Park(r, "close", e) \/ Catch(r, e)
      BY <1>7, Zenon DEF AwaitFails
    <2>. QED
      BY <1>5, <2>1 DEF Park, Free, Idle
  <1>8. ASSUME Opened(r) \/ Derived(r) \/ Filled(r) \/ \E g \in Verdicts : Executed(r, g)
        PROVE  \E p, g : Walk(r, p, g)
    BY <1>8, Zenon DEF Opened, Derived, Filled, Executed
  <1>. QED
    BY <1>3, <1>4, <1>6, <1>7, <1>8, Zenon DEF OfRun
\* A Run with a gate stays settled, and keeps the gate, unless somebody asks to resume it.
LEMMA SettledStep ==
  ASSUME TypeOK, JobsFit, AttemptsLeft, Accepted, QueuedOnce, PublishesGated, [Next]_vars,
         NEW r \in Runs, Settled(r), ~ResumeAsked(r), ~ResumeAsked(r)'
  PROVE  Settled(r)' /\ run'[r].gate = run[r].gate
  <1>. DEFINE Kept == Settled(r)' /\ run'[r].gate = run[r].gate
  <1>0. r \in Ops /\ RunOf(r) = r /\ run[r] \in RunType
    BY DEF Ops, RunOf, TypeOK
  <1>1. ASSUME \/ WriteRunState \/ WriteOperation \/ CreateRun \/ Bind \/ TakeOver \/ Reply
               \/ \E e \in Failures : StorageFails(e)
        PROVE  Kept
    <2>1. ~Free
      BY <1>1 DEF Free, WriteRunState, WriteOperation, PersistJobs, CreateRun, Bind, TakeOver,
                  Reply, StorageFails
    <2>2. CASE RunOf(thread.op) # r
      <3>1. thread.op \in Ops /\ queue \in Seq(Ops)
        BY DEF TypeOK, ThreadType
      <3>2. Queued' \subseteq Queued \cup {thread.op}
        <4>1. CASE queue' = queue
          BY <4>1 DEF Queued
        <4>2. CASE queue' = Append(queue, thread.op)
          BY <3>1, <4>2 DEF Queued
        <4>. QED
          BY <1>1, <4>1, <4>2, QueueCases
             DEF WriteRunState, WriteOperation, CreateRun, TakeOver, Reply, StorageFails
      <3>. QED
        BY <1>1, <2>2, <3>1, <3>2, SegmentTouches, OthersSettled
    <2>3. CASE Ending(r)
      BY <1>1, <2>3, EndingStep
    <2>4. CASE RunOf(thread.op) = r /\ Harmless
      BY <1>1, <2>4, HarmlessStep
    <2>. QED
      BY <2>1, <2>2, <2>3, <2>4 DEF Settled
  <1>2. CASE Tick
    BY <1>2, TickKeepsSettled
  <1>3. ASSUME NEW o \in Resumes, Woken(o)
        PROVE  Kept
    <2>1. o \in Ops /\ Free /\ task[o].pc # "none" /\ Touches(o) /\ Queued' = Queued
      BY <1>3, SettleTouches DEF Ops, Queued
    <2>2. RunOf(o) # r
      BY <1>3, <2>1, OpsAssumption DEF Accepted, Busy, ResumeAsked, RunOf
    <2>. QED
      BY <2>1, <2>2, OthersSettled
  <1>4. ASSUME NEW o \in Ops, NEW x \in Runs, Accepts(o, x)
        PROVE  Kept
    <2>1. o # r /\ Free
      BY <1>4 DEF Accepts, Settled
    <2>2. ops'[r].status # "NONE" /\ Queued' = Queued /\ UNCHANGED <<run, task>> /\ ~Ending(r)
      BY <1>0, <1>4, <2>1 DEF Accepts, Settled, Queued, Ending, Free
    <2>3. thread'.op = o /\ (o \notin Runs => thread'.job = "bind")
      BY <1>4 DEF Accepts, Segment
    <2>4. RunOf(thread.op)' # r \/ Harmless'
      <3>1. o \in Runs => RunOf(thread.op)' # r
        BY <2>1, <2>3 DEF RunOf
      <3>2. o \in Resumes /\ o \notin Runs => ops'[o].status # "NONE" /\ RunOf(thread.op)' = ops'[o].target
        BY <1>4, <2>3 DEF Accepts, RunOf
      <3>3. o \in Cancels /\ o \notin Runs => Harmless'
        BY <2>3 DEF Harmless
      <3>. QED
        BY <3>1, <3>2, <3>3 DEF ResumeAsked, Ops
    <2>5. Overtaken(r) => Overtaken(r)'
      BY <2>2 DEF Overtaken
    <2>. QED
      BY <2>2, <2>4, <2>5 DEF Settled
  <1>5. ASSUME NEW x \in Runs, Age(x)
        PROVE  Kept
    <2>1. /\ run' = [run EXCEPT ![x] = [run[x] EXCEPT !.aged = TRUE]]
          /\ UNCHANGED <<thread, ops, queue, task>> /\ Free
      BY <1>5 DEF Age
    <2>2. /\ run'[r].status = run[r].status /\ run'[r].owner = run[r].owner
          /\ run'[r].stale = run[r].stale /\ run'[r].gate = run[r].gate
          /\ run'[r].cancel = run[r].cancel /\ run'[r].phase = run[r].phase
      BY <1>0, <2>1 DEF TypeOK, RunType
    <2>3. ~Ending(r) /\ Free' /\ Queued' = Queued
      BY <2>1 DEF Ending, Free, Queued
    <2>. QED
      BY <2>1, <2>2, <2>3 DEF Settled, Overtaken
  <1>6. CASE Start
    <2>1. PICK s \in Seq(Ops) : /\ queue' = queue \o s
                                /\ \A i \in 1..Len(s) : s[i] \in Recoverable
      BY <1>6, StartCases
    <2>2. \A x \in Queued' : x \in Queued \/ x \in Recoverable
      BY <2>1 DEF Queued, TypeOK
    <2>3. r \notin Recoverable
      BY <1>0 DEF Recoverable, Settled, Terminal
    <2>4. /\ UNCHANGED <<thread, ops, run, task>> /\ Free' /\ ~Ending(r)
      BY <1>6 DEF Start, Free, Ending
    <2>. QED
      BY <2>2, <2>3, <2>4 DEF Settled, Overtaken
  <1>7. CASE Stop
    <2>1. UNCHANGED <<thread, ops, run, task>> /\ Free' /\ ~Ending(r) /\ r \notin Queued'
      BY <1>7 DEF Stop, Free, Ending, Queued
    <2>. QED
      BY <2>1 DEF Settled, Overtaken
  <1>8. CASE Crash
    <2>1. run'[r] = run[r] /\ UNCHANGED ops
      BY <1>8 DEF Crash, Settled
    <2>2. task'[r].pc = "none" /\ Free' /\ r \notin Queued'
      BY <1>0, <1>8 DEF Crash, Parked, Idle, Free, Queued
    <2>. QED
      BY <2>1, <2>2 DEF Settled
  <1>9. CASE UNCHANGED vars
    <2>1. UNCHANGED <<thread, ops, run, queue, task>>
      BY <1>9 DEF vars
    <2>. QED
      BY <2>1 DEF Settled, Ending, Overtaken, Harmless, Free, Queued, RunOf
  <1>a. ASSUME NEW x \in Runs, OfRun(x)
        PROVE  Kept
    <2>1. CASE AcceptAudit(x)
      BY <1>4, <2>1, AcceptsCases DEF Ops
    <2>2. CASE ~AcceptAudit(x) /\ ~Age(x) /\ x = r
      BY <1>a, <2>2, SettleKeepsSettled
    <2>3. CASE ~AcceptAudit(x) /\ ~Age(x) /\ x # r
      <3>1. x \in Ops /\ RunOf(x) # r /\ Free /\ Touches(x) /\ Queued' = Queued
        BY <1>a, <2>3, SettleTouches DEF Ops, RunOf, Queued
      <3>. QED
        BY <3>1, OthersSettled
    <2>. QED
      BY <1>5, <2>1, <2>2, <2>3
  <1>b. ASSUME NEW o \in Resumes \cup Cancels, NEW x \in Runs, AcceptTarget(o, x)
        PROVE  Kept
    BY <1>4, <1>b, AcceptsCases DEF Ops
  <1>. QED
    BY <1>1, <1>2, <1>3, <1>6, <1>7, <1>8, <1>9, <1>a, <1>b, NextCases, Zenon

\* A step changes the records of Runs or those of operations, never both.
LEMMA OneRecord ==
  ASSUME TypeOK, JobsFit, [Next]_vars
  PROVE  UNCHANGED run \/ UNCHANGED ops
  <1>1. ASSUME WriteRunState \/ CreateRun \/ TakeOver \/ Tick \/ Crash
        PROVE  UNCHANGED ops
    BY <1>1 DEF WriteRunState, CreateRun, TakeOver, Tick, Crash
  <1>2. ASSUME \/ WriteOperation \/ Bind \/ Reply
               \/ \E o \in Resumes \cup Cancels, x \in Runs : AcceptTarget(o, x)
               \/ \E o \in Resumes : Woken(o)
               \/ \E e \in Failures : StorageFails(e)
               \/ Start \/ Stop \/ UNCHANGED vars
        PROVE  UNCHANGED run
    BY <1>2 DEF WriteOperation, Bind, Reply, AcceptTarget, Woken, StorageFails, Start, Stop, vars
  <1>3. ASSUME NEW x \in Runs, OfRun(x)
        PROVE  UNCHANGED run \/ UNCHANGED ops
    <2>1. CASE Age(x)
      BY <2>1 DEF Age
    <2>2. CASE AcceptAudit(x)
      BY <2>2 DEF AcceptAudit
    <2>. QED
      BY <1>3, <2>1, <2>2, SettleTouches DEF Ops
  <1>. QED
    BY <1>1, <1>2, <1>3, NextCases, Zenon
\* The step that decides: the save of the Run's own handler, or that of a cancel_run
\* which has recorded the cancellation before.
LEMMA Decides ==
  ASSUME TypeOK, JobsFit, AttemptsLeft, Accepted, QueuedOnce, CancelRecorded, PublishesGated,
         TargetsAccepted, [Next]_vars,
         NEW r \in Runs, run[r].gate = "null", run'[r].gate # "null", ~ResumeAsked(r)
  PROVE  Settled(r)'
  <1>. DEFINE o == thread.op
  <1>0. /\ thread \in ThreadType /\ o \in Ops /\ RunOf(o) \in Runs
        /\ r \in Ops /\ RunOf(r) = r
    BY RunOfType DEF TypeOK, ThreadType, Ops, RunOf
  <1>1. WriteRunState
    <2>1. ~SameRecord(run[r], run'[r]) /\ run'[r] # NewRun
      BY DEF SameRecord, NewRun, NoRun
    <2>. QED
      BY <2>1, RecordKept
  <1>2. RunOf(o) = r
    BY <1>0, <1>1 DEF WriteRunState, TypeOK
  <1>3. /\ thread.job = "publish" \/ (thread.job = "finalize" /\ thread.phase = "GATED")
        /\ run'[r].phase = "GATED" /\ run'[r].status = "COMPLETED"
        /\ run'[r].gate = thread.gate /\ run'[r].cancel = run[r].cancel
    BY <1>1, <1>2, SaveCases
  <1>4. run'[r].owner = "none" /\ run'[r].stale = 0
    BY <1>1, <1>2, <1>3, SavedOwner, Zenon
  <1>5. /\ thread' = [thread EXCEPT !.torn = TRUE] /\ UNCHANGED <<ops, queue, task>>
        /\ thread'.op = o /\ thread'.job = thread.job /\ thread'.phase = thread.phase
        /\ thread'.gate = thread.gate /\ thread'.torn
    BY <1>0, <1>1 DEF WriteRunState, ThreadType
  <1>6. ops[o].status # "NONE"
    BY <1>0, <1>3 DEF Accepted, Busy, Free
  <1>7. o \notin Resumes
    BY <1>0, <1>2, <1>6, OpsAssumption DEF ResumeAsked, RunOf
  <1>8. CASE o = r
    <2>1. Ending(r)' /\ r \notin Queued'
      BY <1>0, <1>3, <1>5, <1>8 DEF Ending, QueuedOnce, Free, Queued
    <2>. QED
      BY <1>3, <1>4, <1>5, <1>6, <1>8, <2>1 DEF Settled, Terminal
  <1>9. CASE o # r
    <2>1. o \in Cancels /\ ops[o].target = r /\ thread.job = "finalize"
      BY <1>0, <1>2, <1>3, <1>7, <1>9, OpsAssumption DEF Ops, RunOf, JobsFit
    <2>2. ops'[r].status # "NONE"
      BY <1>0, <1>5, <1>6, <2>1 DEF TargetsAccepted
    <2>3. thread.gate = "incomplete" /\ run[r].cancel
      BY <1>2, <1>3, <2>1 DEF CancelRecorded
    <2>4. Overtaken(r)' /\ Harmless'
      BY <1>3, <1>5, <2>1, <2>3 DEF Overtaken, Harmless
    <2>. QED
      BY <1>3, <1>4, <2>2, <2>3, <2>4 DEF Settled, Terminal, Overtaken
  <1>. QED
    BY <1>8, <1>9

LEMMA InitOutcome == Init => OutcomeInv
  <1>. SUFFICES ASSUME Init
                PROVE  OutcomeInv
    OBVIOUS
  <1>1. thread.job = "idle" /\ \A o \in Ops : ops[o].status = "NONE" /\ ~ops[o].bound
    BY DEF Init, Idle
  <1>2. CancelRecorded /\ PublishesGated /\ TargetsAccepted
    BY <1>1 DEF CancelRecorded, PublishesGated, TargetsAccepted, Ops
  <1>3. DecidedIsSettled
    BY DEF Init, NoRun, DecidedIsSettled
  <1>. QED
    BY <1>2, <1>3, InitInv DEF OutcomeInv

\* A step keeps every gate, unless a resume_run is asked for.
LEMMA NextOutcome ==
  ASSUME OutcomeInv, [Next]_vars
  PROVE  /\ OutcomeInv'
         /\ \A r \in Runs :
              run[r].gate # "null" /\ ~ResumeAsked(r) => run'[r].gate = run[r].gate
  <1>. USE DEF OutcomeInv
  <1>0. /\ TypeOK /\ JobsFit /\ AttemptsLeft /\ Accepted /\ QueuedOnce
    BY DEF Inv
  <1>1. Inv'
    BY NextInv
  <1>2. CancelRecorded' /\ PublishesGated' /\ TargetsAccepted'
    BY <1>0, RecordedStep, TargetsStep
  <1>3. ASSUME NEW r \in Runs, run[r].gate # "null", ~ResumeAsked(r)
        PROVE  /\ run'[r].gate = run[r].gate
               /\ ~ResumeAsked(r)' => Settled(r)'
    <2>1. CASE ResumeAsked(r)'
      <3>1. UNCHANGED run
        BY <1>0, <1>3, <2>1, OneRecord DEF ResumeAsked
      <3>. QED
        BY <2>1, <3>1
    <2>2. CASE ~ResumeAsked(r)'
      BY <1>0, <1>3, <2>2, SettledStep DEF DecidedIsSettled
    <2>. QED
      BY <2>1, <2>2
  <1>4. ASSUME NEW r \in Runs, run[r].gate = "null", run'[r].gate # "null", ~ResumeAsked(r)'
        PROVE  Settled(r)'
    <2>1. ~ResumeAsked(r)
      BY <1>0, <1>4, TargetsKept DEF ResumeAsked, Ops
    <2>. QED
      BY <1>0, <1>4, <2>1, Decides
  <1>5. ASSUME NEW r \in Runs, ~ResumeAsked(r)'
        PROVE  ~ResumeAsked(r)
    BY <1>0, <1>5, TargetsKept DEF ResumeAsked, Ops
  <1>6. DecidedIsSettled'
    BY <1>3, <1>4, <1>5, Zenon DEF DecidedIsSettled
  <1>. QED
    BY <1>1, <1>2, <1>3, <1>6

\* A published gate is never replaced, through crashes, restarts, storage failures and
\* cancellations in any order, as long as nobody asks to resume the Run. That a single
\* observation of an aged heartbeat never confirms a takeover is what it takes.
THEOREM GateIsFinal == Spec => GateDecidedOnce
  <1>. DEFINE Keep == \A r \in Runs :
                        run[r].gate # "null" /\ ~ResumeAsked(r) => run'[r].gate = run[r].gate
  <1>1. OutcomeInv /\ [Next]_vars => OutcomeInv' /\ [Keep]_vars
    BY NextOutcome
  <1>. QED
    BY <1>1, InitOutcome, PTL DEF Spec, GateDecidedOnce
--------------------------------------------------------------------------------
(***************************************************************************)
(* One handler works on a Run, in a process that neither dies nor restarts *)
(* its server: the invariant.                                              *)
(***************************************************************************)

\* A handler is at work on its Run until it finalizes the Run or closes the target.
\* That of a run_audit counts from its acceptance on, also while it is queued.
Working(o) ==
  \/ o \in Runs /\ o \in Queued
  \/ task[o].pc \notin {"none", "close"}
  \/ thread.op = o /\ thread.job \in {"create", "walk", "loop", "takeover", "revive"}
  \/ o \in Runs /\ thread.op = o /\ thread.job = "bind"

OneAtWork ==
  \A o, x \in Ops : Working(o) /\ Working(x) /\ RunOf(o) = RunOf(x) => o = x

\* No resume_run takes over a Run that is finished or has its lease here.
Held(r) == run[r].status \in Terminal \/ run[r].owner = "self"

\* The save of GATED has released the lease, and the handler goes on to close.
Releasing(r) == thread.op = r /\ thread.job = "walk" /\ thread.phase = "GATED" /\ thread.torn

\* Who is at work holds the lease, or is about to have it.
WorkIsHeld ==
  \A o \in Ops :
    Working(o) => \/ Held(RunOf(o)) \/ Releasing(RunOf(o))
                  \/ thread.op = o /\ thread.job \in {"create", "takeover"}

\* A takeover is counted under the new lease, and the resume loop keeps it up to the end.
LeaseOfSegment ==
  /\ thread.job = "revive" => run[RunOf(thread.op)].owner = "self"
  /\ thread.job = "loop" => thread.phase # "GATED"

\* An operation is bound to a Run that exists.
BoundExists ==
  \A r \in Runs : ops[r].bound \/ (thread.op = r /\ thread.job = "bind") =>
                    run[r].status # "NONE"

WriterInv ==
  /\ OutcomeInv
  /\ up # "down"
  /\ OneAtWork
  /\ WorkIsHeld
  /\ LeaseOfSegment
  /\ BoundExists
--------------------------------------------------------------------------------
(***************************************************************************)
(* The lease from step to step.                                            *)
(***************************************************************************)

\* The owner changes to nobody in a save only, and to "gone" in a crash only.
LEMMA OwnerKept ==
  ASSUME TypeOK, JobsFit, [Next]_vars, ~WriteRunState, ~Crash, NEW r \in Runs
  PROVE  run'[r].owner \in {run[r].owner, "self"}
  <1>0. run \in [Runs -> RunType] /\ thread.op \in Ops /\ RunOf(thread.op) \in Runs
    BY RunOfType DEF TypeOK, ThreadType
  <1>1. CASE UNCHANGED run
    BY <1>1
  <1>2. CASE CreateRun
    BY <1>0, <1>2 DEF CreateRun, NewRun, NoRun
  <1>3. CASE TakeOver
    BY <1>0, <1>3 DEF TakeOver, RunType
  <1>4. ASSUME NEW x \in Runs, Age(x)
        PROVE  run'[r].owner = run[r].owner
    BY <1>0, <1>4 DEF Age, RunType
  <1>5. CASE Tick
    <2>. DEFINE o == Head(queue)
    <2>0. o \in Ops /\ RunOf(o) \in Runs
      BY <1>5, TickTouches, RunOfType
    <2>1. CASE PrepareResume(o)
      <3>1. ASSUME NEW n, run' = [run EXCEPT ![RunOf(o)].stale = n]
            PROVE  run'[r].owner = run[r].owner
        BY <1>0, <2>0, <3>1 DEF RunType
      <3>. QED
        BY <2>0, <2>1, <3>1, PrepareResumeCases, Zenon
    <2>. QED
      BY <1>1, <1>5, <2>1, TickCases, Zenon
  <1>6. ASSUME NEW x \in Runs, OfRun(x), ~Age(x)
        PROVE  UNCHANGED run
    BY <1>6, SettleTouches DEF Ops, AcceptAudit
  <1>7. ASSUME \/ WriteOperation \/ Bind \/ Reply
               \/ \E o \in Resumes \cup Cancels, x \in Runs : AcceptTarget(o, x)
               \/ \E o \in Resumes : Woken(o)
               \/ \E e \in Failures : StorageFails(e)
               \/ Start \/ Stop \/ UNCHANGED vars
        PROVE  UNCHANGED run
    BY <1>7 DEF WriteOperation, Bind, Reply, AcceptTarget, Woken, StorageFails, Start, Stop, vars
  <1>. QED
    BY <1>1, <1>2, <1>3, <1>4, <1>5, <1>6, <1>7, NextCases

\* Only the save of GATED by the Run's own handler gives the lease of an ACTIVE Run up.
LEMMA HeldStep ==
  ASSUME TypeOK, JobsFit, AttemptsLeft, PublishesGated, LeaseOfSegment, [Next]_vars, ~Crash,
         NEW r \in Runs, Held(r)
  PROVE  Held(r)' \/ Releasing(r)'
  <1>0. thread \in ThreadType /\ RunOf(thread.op) \in Runs
    BY RunOfType DEF TypeOK, ThreadType
  <1>1. CASE WriteRunState /\ RunOf(thread.op) = r
    <2>1. OperationStatus = "RUNNING" => run'[r].owner = run[r].owner
      BY <1>1, SavedOwner, Zenon
    <2>2. CASE thread.job \in {"walk", "loop", "finalize"} /\ thread.phase # "GATED"
      <3>1. OperationStatus = "RUNNING"
        BY <2>2 DEF OperationStatus
      <3>2. run'[r].status = run[r].status
        BY <1>1, <2>2, SaveCases
      <3>. QED
        BY <2>1, <3>1, <3>2 DEF Held
    <2>3. CASE thread.job \in {"walk", "loop"} /\ thread.phase = "GATED"
      <3>1. thread.job = "walk" /\ thread.op = r
        BY <1>1, <2>3 DEF LeaseOfSegment, JobsFit, RunOf
      <3>. QED
        BY <1>0, <1>1, <2>3, <3>1 DEF WriteRunState, ThreadType, Releasing
    <2>4. CASE thread.job = "revive"
      <3>1. OperationStatus = "RUNNING" /\ run[r].owner = "self"
        BY <1>1, <2>4 DEF OperationStatus, LeaseOfSegment
      <3>. QED
        BY <2>1, <3>1 DEF Held
    <2>5. CASE thread.job \in {"publish", "fail"} \/ (thread.job = "finalize" /\ thread.phase = "GATED")
      BY <1>1, <2>5, SaveCases DEF Held, Terminal
    <2>. QED
      BY <1>1, <2>2, <2>3, <2>4, <2>5 DEF WriteRunState, PersistJobs
  <1>2. CASE WriteRunState /\ RunOf(thread.op) # r
    BY <1>0, <1>2 DEF WriteRunState, TypeOK, Held
  <1>3. CASE ~WriteRunState
    <2>1. run'[r].owner \in {run[r].owner, "self"}
      BY <1>3, OwnerKept
    <2>2. run'[r].status = run[r].status \/ run'[r] = NewRun
      BY <1>3, RecordKept DEF SameRecord
    <2>. QED
      BY <2>1, <2>2 DEF Held, NewRun, NoRun
  <1>. QED
    BY <1>1, <1>2, <1>3

LEMMA LeaseSegmentStep ==
  ASSUME TypeOK, JobsFit, AttemptsLeft, PublishesGated, LeaseOfSegment, [Next]_vars
  PROVE  LeaseOfSegment'
  <1>0. thread \in ThreadType /\ RunOf(thread.op) \in Runs
    BY RunOfType DEF TypeOK, ThreadType
  <1>1. CASE WriteRunState
    <2>1. thread' = [thread EXCEPT !.torn = TRUE] /\ UNCHANGED ops
      BY <1>1 DEF WriteRunState
    <2>2. /\ thread'.job = thread.job /\ thread'.phase = thread.phase
          /\ RunOf(thread.op)' = RunOf(thread.op)
      BY <1>0, <2>1 DEF ThreadType, RunOf
    <2>3. thread.job = "revive" => run'[RunOf(thread.op)].owner = run[RunOf(thread.op)].owner
      <3>1. thread.job = "revive" => OperationStatus = "RUNNING"
        BY DEF OperationStatus
      <3>. QED
        BY <1>1, <3>1, SavedOwner, Zenon
    <2>4. RunOf(thread.op)' = RunOf(thread.op) /\ thread'.job = "revive" =>
            run'[RunOf(thread.op)'].owner = "self"
      BY <2>2, <2>3 DEF LeaseOfSegment
    <2>. QED
      BY <2>2, <2>4 DEF LeaseOfSegment
  <1>2. CASE WriteOperation
    <2>1. ASSUME thread'.job \notin {"revive", "loop"}
          PROVE  LeaseOfSegment'
      BY <2>1 DEF LeaseOfSegment
    <2>2. ASSUME Loop(thread.op, run[RunOf(thread.op)].phase)
          PROVE  LeaseOfSegment'
      BY <2>2, LoopCases DEF Segment, LeaseOfSegment
    <2>3. ASSUME Walk(thread.op, "TARGET_READY", "null")
          PROVE  thread'.job \notin {"revive", "loop"}
      BY <2>3, WalkCases DEF Segment, Idle
    <2>4. ASSUME thread.job \in {"walk", "finalize"},
                 thread' = [thread EXCEPT !.phase = Following(thread.phase), !.torn = FALSE]
          PROVE  thread'.job \notin {"revive", "loop"}
      BY <1>0, <2>4 DEF ThreadType
    <2>5. ASSUME thread' = [thread EXCEPT !.job = "reply", !.torn = FALSE]
          PROVE  thread'.job \notin {"revive", "loop"}
      BY <1>0, <2>5 DEF ThreadType
    <2>6. ASSUME thread' = Idle
          PROVE  thread'.job \notin {"revive", "loop"}
      BY <2>6 DEF Idle
    <2>. QED
      BY <1>2, <2>1, <2>2, <2>3, <2>4, <2>5, <2>6, WriteOperationCases
  <1>3. CASE Next /\ ~WriteRunState /\ ~WriteOperation
    <2>1. /\ thread'.job = "loop" => thread'.phase # "GATED"
          /\ thread'.job = "revive" => TakeOver
      BY <1>3, SegmentBegins
    <2>2. ASSUME TakeOver
          PROVE  run'[RunOf(thread.op)'].owner = "self"
      <3>1. RunOf(thread.op)' = RunOf(thread.op)
        BY <1>0, <2>2 DEF TakeOver, ThreadType, RunOf
      <3>. QED
        BY <1>0, <2>2, <3>1 DEF TakeOver, TypeOK, RunType
    <2>. QED
      BY <2>1, <2>2 DEF LeaseOfSegment
  <1>4. CASE UNCHANGED vars
    BY <1>4 DEF vars, LeaseOfSegment, RunOf
  <1>. QED
    BY <1>1, <1>2, <1>3, <1>4

\* A Run, once created, never is none again.
LEMMA ExistsStep ==
  ASSUME TypeOK, JobsFit, AttemptsLeft, [Next]_vars, NEW r \in Runs, run[r].status # "NONE"
  PROVE  run'[r].status # "NONE"
  <1>1. CASE WriteRunState
    <2>1. CASE RunOf(thread.op) = r
      BY <1>1, <2>1, SaveCases
    <2>2. CASE RunOf(thread.op) # r
      BY <1>1, <2>2 DEF WriteRunState, TypeOK
    <2>. QED
      BY <2>1, <2>2
  <1>2. CASE ~WriteRunState
    BY <1>2, RecordKept DEF SameRecord, NewRun, NoRun
  <1>. QED
    BY <1>1, <1>2

\* Only Bind binds the operation of a Run.
LEMMA BoundStep ==
  ASSUME TypeOK, JobsFit, [Next]_vars, NEW r \in Runs, ops'[r].bound
  PROVE  ops[r].bound \/ (thread.op = r /\ thread.job = "bind")
  <1>0. /\ ops \in [Ops -> [status : Statuses, target : Runs, bound : BOOLEAN]]
        /\ thread.op \in Ops /\ RunOf(thread.op) \in Runs /\ r \in Ops /\ Runs \subseteq Ops
    BY RunOfType DEF TypeOK, ThreadType, Ops
  <1>1. CASE UNCHANGED ops
    BY <1>1
  <1>2. CASE WriteOperation
    BY <1>0, <1>2 DEF WriteOperation
  <1>3. CASE Bind
    <2>1. \E s : ops' = [ops EXCEPT ![thread.op].bound = TRUE, ![thread.op].status = s]
      BY <1>3 DEF Bind
    <2>2. thread.op # r => ops'[r] = ops[r]
      BY <1>0, <2>1
    <2>. QED
      BY <1>3, <2>2 DEF Bind
  <1>4. CASE Reply
    BY <1>0, <1>4 DEF Reply
  <1>5. ASSUME NEW x \in Runs, AcceptAudit(x)
        PROVE  ops[r].bound
    BY <1>0, <1>5 DEF AcceptAudit
  <1>6. ASSUME NEW o \in Resumes \cup Cancels, NEW x \in Runs, AcceptTarget(o, x)
        PROVE  ops[r].bound
    BY <1>0, <1>6, OpsAssumption DEF AcceptTarget
  <1>7. ASSUME NEW x \in Runs, OfRun(x), ~AcceptAudit(x)
        PROVE  UNCHANGED ops
    BY <1>0, <1>7, SettleTouches DEF Age
  <1>8. ASSUME \/ WriteRunState \/ CreateRun \/ TakeOver \/ Tick
               \/ \E o \in Resumes : Woken(o)
               \/ \E e \in Failures : StorageFails(e)
               \/ Start \/ Stop \/ Crash \/ UNCHANGED vars
        PROVE  UNCHANGED ops
    BY <1>8 DEF WriteRunState, CreateRun, TakeOver, Tick, Woken, StorageFails, Start, Stop,
                Crash, vars
  <1>. QED
    BY <1>1, <1>2, <1>3, <1>4, <1>5, <1>6, <1>7, <1>8, NextCases, Zenon

LEMMA BoundExistsStep ==
  ASSUME TypeOK, JobsFit, AttemptsLeft, BoundExists, [Next]_vars
  PROVE  BoundExists'
  <1>. SUFFICES ASSUME NEW r \in Runs,
                       ops'[r].bound \/ (thread'.op = r /\ thread'.job = "bind")
                PROVE  run'[r].status # "NONE"
    BY DEF BoundExists
  <1>0. thread \in ThreadType
    BY DEF TypeOK
  <1>1. CASE ops[r].bound \/ (thread.op = r /\ thread.job = "bind")
    BY <1>1, ExistsStep DEF BoundExists
  <1>2. CASE ~(ops[r].bound \/ (thread.op = r /\ thread.job = "bind"))
    <2>1. thread'.op = r /\ thread'.job = "bind"
      BY <1>2, BoundStep
    <2>2. ~WriteRunState
      BY <1>0, <1>2, <2>1 DEF WriteRunState, ThreadType
    <2>3. ~WriteOperation
      <3>1. ASSUME Loop(thread.op, run[RunOf(thread.op)].phase)
            PROVE  FALSE
        BY <2>1, <3>1, LoopCases DEF Segment
      <3>2. ASSUME Walk(thread.op, "TARGET_READY", "null")
            PROVE  FALSE
        BY <2>1, <3>2, WalkCases DEF Segment, Idle
      <3>3. ASSUME thread.job \in {"walk", "finalize"},
                   thread' = [thread EXCEPT !.phase = Following(thread.phase), !.torn = FALSE]
            PROVE  FALSE
        BY <1>0, <2>1, <3>3 DEF ThreadType
      <3>4. [thread EXCEPT !.job = "reply", !.torn = FALSE].job = "reply" /\ Idle.job = "idle"
        BY <1>0 DEF ThreadType, Idle
      <3>. QED
        BY <2>1, <3>1, <3>2, <3>3, <3>4, WriteOperationCases
    <2>4. ~(UNCHANGED vars)
      BY <1>2, <2>1 DEF vars
    <2>5. CreateRun
      BY <2>1, <2>2, <2>3, <2>4, SegmentBegins
    <2>6. thread.op = r
      BY <1>0, <2>1, <2>5 DEF CreateRun, ThreadType
    <2>. QED
      BY <2>5, <2>6 DEF CreateRun, NewRun, NoRun, TypeOK
  <1>. QED
    BY <1>1, <1>2
--------------------------------------------------------------------------------
(***************************************************************************)
(* Who is at work from step to step.                                       *)
(***************************************************************************)

\* A resume_run begins to take its Run over, which is neither finished nor held here.
Begins(o) ==
  /\ Tick /\ o = Head(queue) /\ o \in Resumes
  /\ thread' = Segment("takeover", o, "NONE", "null", "none")
  /\ run[RunOf(o)].status \notin Terminal
  /\ run[RunOf(o)].status = "ACTIVE" => run[RunOf(o)].owner # "self"

\* A step on behalf of one operation puts no other to work.
LEMMA OthersAtWork ==
  ASSUME TypeOK, NEW o \in Ops, NEW x \in Ops, x # o, Touches(o),
         Queued' \subseteq Queued \cup {o}, Working(x)'
  PROVE  Working(x)
  <1>1. task'[x] = task[x] /\ (x \in Queued' => x \in Queued)
    BY DEF Touches
  <1>2. thread'.op # x \/ thread'.job = "idle"
    BY DEF Touches, Idle
  <1>. QED
    BY <1>1, <1>2 DEF Working

\* The segment in progress: what it does for its own operation.
LEMMA SegmentAtWork ==
  ASSUME TypeOK, JobsFit, NEW o \in Ops, o = thread.op,
         \/ WriteRunState \/ WriteOperation \/ CreateRun \/ Bind \/ TakeOver \/ Reply
         \/ \E e \in Failures : StorageFails(e),
         Working(o)'
  PROVE  Working(o)
  <1>0. thread \in ThreadType /\ task \in [Ops -> TaskType]
    BY DEF TypeOK
  <1>1. ASSUME UNCHANGED <<queue, task>>, thread'.job = thread.job
        PROVE  Working(o)
    BY <1>1 DEF Working, Queued
  <1>2. ASSUME UNCHANGED queue, UNCHANGED task \/ task' = [task EXCEPT ![o] = Parked],
               thread'.job \in {"idle", "finalize", "reply"}
        PROVE  Working(o)
    BY <1>0, <1>2 DEF Working, Queued, Parked
  <1>3. CASE thread.job \in {"create", "walk", "loop", "takeover", "revive"}
    BY <1>3 DEF Working
  <1>4. CASE WriteRunState
    <2>1. UNCHANGED <<queue, task>> /\ thread'.job = thread.job
      BY <1>0, <1>4 DEF WriteRunState, ThreadType
    <2>. QED
      BY <1>1, <2>1
  <1>5. CASE WriteOperation /\ thread.job \in {"finalize", "publish", "fail"}
    <2>1. UNCHANGED queue
      BY <1>5 DEF WriteOperation
    <2>2. UNCHANGED task \/ task' = [task EXCEPT ![o] = Parked]
      BY <1>5, WriteOperationCases
    <2>3. \/ thread' = Idle
          \/ thread' = [thread EXCEPT !.job = "reply", !.torn = FALSE]
          \/ /\ thread.job = "finalize"
             /\ thread' = [thread EXCEPT !.phase = Following(thread.phase), !.torn = FALSE]
      BY <1>5, WriteOperationCases
    <2>4. thread'.job \in {"idle", "finalize", "reply"}
      <3>1. /\ [thread EXCEPT !.job = "reply", !.torn = FALSE].job = "reply"
            /\ [thread EXCEPT !.phase = Following(thread.phase), !.torn = FALSE].job = thread.job
            /\ Idle.job = "idle"
        BY <1>0 DEF ThreadType, Idle
      <3>. QED
        BY <2>3, <3>1
    <2>. QED
      BY <1>2, <2>1, <2>2, <2>4
  <1>6. CASE Bind
    <2>1. CASE o \in Runs
      BY <1>6, <2>1 DEF Bind, Working
    <2>2. CASE o \notin Runs
      <3>1. thread'.job = "idle" /\ UNCHANGED task
        BY <1>6 DEF Bind, Idle
      <3>. QED
        BY <2>2, <3>1 DEF Working
    <2>. QED
      BY <2>1, <2>2
  <1>7. CASE Reply
    <2>1. UNCHANGED queue /\ task' = [task EXCEPT ![o] = Parked] /\ thread'.job = "idle"
      BY <1>7 DEF Reply, EndTask, Park, Parked, Idle
    <2>. QED
      BY <1>2, <2>1
  <1>8. WriteOperation => thread.job \in {"walk", "loop", "revive", "finalize", "publish", "fail"}
    BY WriteOperationCases
  <1>. QED
    BY <1>3, <1>4, <1>5, <1>6, <1>7, <1>8 DEF CreateRun, TakeOver, StorageFails

\* The handler of a run_audit goes on: if it only closed its target, it is at its end.
LEMMA SettleAtWork ==
  ASSUME TypeOK, NEW r \in Runs, OfRun(r), ~AcceptAudit(r), ~Age(r), Working(r)'
  PROVE  Working(r)
  <1>0. /\ Free /\ task[r].pc # "none" /\ UNCHANGED queue
        /\ r \in Ops /\ task \in [Ops -> TaskType]
    BY SettleTouches DEF Ops, TypeOK
  <1>1. CASE task[r].pc # "close"
    BY <1>0, <1>1 DEF Working
  <1>2. CASE task[r].pc = "close"
    <2>1. ASSUME UNCHANGED task \/ task' = [task EXCEPT ![r] = Parked],
                 thread'.job \in {"idle", "finalize", "fail", "publish"}
          PROVE  Working(r)
      BY <1>0, <1>2, <2>1 DEF Working, Queued, Parked
    <2>2. ASSUME NEW e, Catch(r, e)
          PROVE  Working(r)
      <3>1. /\ UNCHANGED task \/ task' = [task EXCEPT ![r] = Parked]
            /\ thread'.job \in {"idle", "finalize", "fail"}
        BY <2>2, CatchCases DEF Segment, Idle
      <3>. QED
        BY <2>1, <3>1
    <2>3. CASE Closed(r)
      <3>1. \/ Catch(r, task[r].arg) \/ EndTask(r)
            \/ UNCHANGED task /\ thread' = Segment("publish", r, "GATED", task[r].arg, "none")
        BY <2>3, Zenon DEF Closed
      <3>2. CASE EndTask(r)
        BY <2>1, <3>2 DEF EndTask, Park, Parked, Idle
      <3>3. CASE UNCHANGED task /\ thread' = Segment("publish", r, "GATED", task[r].arg, "none")
        BY <2>1, <3>3 DEF Segment
      <3>. QED
        BY <2>2, <3>1, <3>2, <3>3
    <2>4. ASSUME NEW e \in Failures, AwaitFails(r, e)
          PROVE  Working(r)
      BY <1>2, <2>2, <2>4 DEF AwaitFails
    <2>5. ~Opened(r) /\ ~Derived(r) /\ ~Filled(r) /\ \A g \in Verdicts : ~Executed(r, g)
      BY <1>2 DEF Opened, Derived, Filled, Executed
    <2>. QED
      BY <2>3, <2>4, <2>5 DEF OfRun
  <1>. QED
    BY <1>1, <1>2

\* The head of the queue starts: only a resume_run was not at work before.
LEMMA TickAtWork ==
  ASSUME TypeOK, NEW o \in Ops, o = Head(queue), Tick, Working(o)'
  PROVE  Working(o) \/ Begins(o)
  <1>0. o \in Queued
    BY TickTouches
  <1>1. CASE o \in Runs
    BY <1>0, <1>1 DEF Working
  <1>2. CASE o \notin Runs
    <2>1. UNCHANGED task
      BY <1>2, TickCases
    <2>2. CASE thread'.job \in {"idle", "reply", "finalize"}
      BY <1>2, <2>1, <2>2 DEF Working
    <2>3. CASE PrepareResume(o) /\ o \in Resumes
      <3>1. \/ thread' = Segment("takeover", o, "NONE", "null", "none")
            \/ thread'.job \in {"idle", "reply", "finalize"}
        BY <1>0, <2>3, PrepareResumeCases DEF Segment, Idle
      <3>2. CASE thread' = Segment("takeover", o, "NONE", "null", "none")
        <4>1. /\ run[RunOf(o)].status \notin Terminal
              /\ run[RunOf(o)].status = "ACTIVE" => run[RunOf(o)].owner # "self"
          <5>1. thread'.job = "takeover"
            BY <3>2 DEF Segment
          <5>2. \A j, p, g, y : Segment(j, o, p, g, y).job = j
            BY DEF Segment
          <5>. QED
            BY <1>2, <5>1, <5>2, TickCases
        <4>. QED
          BY <2>3, <3>2, <4>1 DEF Begins
      <3>. QED
        BY <2>2, <3>1, <3>2
    <2>4. CASE ~(PrepareResume(o) /\ o \in Resumes)
      <3>1. \/ \E reply : thread' = Segment("reply", o, "NONE", "null", reply)
            \/ thread' = Segment("finalize", o, "TERMINALIZING", "incomplete", "COMPLETED")
        BY <1>2, <2>4, TickCases, Zenon
      <3>. QED
        BY <2>2, <3>1 DEF Segment
    <2>. QED
      BY <2>3, <2>4
  <1>. QED
    BY <1>1, <1>2
\* Who is at work was so before, or was just accepted, or begins a takeover.
LEMMA WorkKept ==
  ASSUME TypeOK, JobsFit, [Next]_vars, ~Start, ~Stop, ~Crash, NEW x \in Ops, Working(x)'
  PROVE  Working(x) \/ (x \in Runs /\ AcceptAudit(x)) \/ Begins(x)
  <1>0. thread \in ThreadType /\ thread.op \in Ops /\ queue \in Seq(Ops)
    BY DEF TypeOK, ThreadType
  <1>1. ASSUME \/ WriteRunState \/ WriteOperation \/ CreateRun \/ Bind \/ TakeOver \/ Reply
               \/ \E e \in Failures : StorageFails(e)
        PROVE  Working(x)
    <2>1. Queued' \subseteq Queued \cup {thread.op}
      <3>1. CASE queue' = queue
        BY <3>1 DEF Queued
      <3>2. CASE queue' = Append(queue, thread.op)
        BY <1>0, <3>2 DEF Queued
      <3>. QED
        BY <1>1, <3>1, <3>2, QueueCases
           DEF WriteRunState, WriteOperation, CreateRun, TakeOver, Reply, StorageFails
    <2>2. CASE x = thread.op
      BY <1>1, <2>2, SegmentAtWork
    <2>3. CASE x # thread.op
      BY <1>0, <1>1, <2>1, <2>3, SegmentTouches, OthersAtWork
    <2>. QED
      BY <2>2, <2>3
  <1>2. CASE Tick
    <2>1. Queued' \subseteq Queued /\ Head(queue) \in Ops /\ Touches(Head(queue))
      <3>1. queue # <<>> /\ queue' = Tail(queue)
        BY <1>2, TickCases
      <3>2. Queued' \subseteq Queued
        BY <1>0, <3>1 DEF Queued
      <3>. QED
        BY <1>2, <3>2, TickTouches
    <2>2. CASE x = Head(queue)
      BY <1>2, <2>2, TickAtWork
    <2>3. CASE x # Head(queue)
      BY <2>1, <2>3, OthersAtWork
    <2>. QED
      BY <2>2, <2>3
  <1>3. ASSUME NEW o \in Ops, Touches(o), Queued' = Queued, x # o
        PROVE  Working(x)
    BY <1>3, OthersAtWork
  <1>4. ASSUME NEW r \in Runs, OfRun(r), ~AcceptAudit(r), ~Age(r)
        PROVE  Working(x)
    <2>1. r \in Ops /\ Touches(r) /\ Queued' = Queued
      BY <1>4, SettleTouches DEF Ops, Queued
    <2>. QED
      BY <1>3, <1>4, <2>1, SettleAtWork
  <1>5. ASSUME NEW o \in Resumes, Woken(o)
        PROVE  Working(x)
    <2>1. o \in Ops /\ Touches(o) /\ Queued' = Queued
      BY <1>5, SettleTouches DEF Ops, Queued
    <2>2. Working(o)
      BY <1>5 DEF Woken, Working
    <2>. QED
      BY <1>3, <2>1, <2>2
  <1>6. ASSUME NEW r \in Runs, AcceptAudit(r)
        PROVE  Working(x) \/ x = r
    <2>1. UNCHANGED <<queue, task>> /\ thread'.op = r
      BY <1>6 DEF AcceptAudit, Segment
    <2>. QED
      BY <2>1 DEF Working, Queued
  <1>7. ASSUME NEW o \in Resumes \cup Cancels, NEW r \in Runs, AcceptTarget(o, r)
        PROVE  Working(x)
    <2>1. UNCHANGED <<queue, task>> /\ thread'.op \notin Runs /\ thread'.job = "bind"
      BY <1>7, OpsAssumption DEF AcceptTarget, Segment
    <2>. QED
      BY <2>1 DEF Working, Queued
  <1>8. ASSUME (\E r \in Runs : Age(r)) \/ UNCHANGED vars
        PROVE  Working(x)
    <2>1. UNCHANGED <<queue, task, thread>>
      BY <1>8 DEF Age, vars
    <2>. QED
      BY <2>1 DEF Working, Queued
  <1>. QED
    BY <1>1, <1>2, <1>4, <1>5, <1>6, <1>7, <1>8, NextCases, Zenon

LEMMA WorkingIsAccepted ==
  ASSUME Accepted, NEW o \in Ops, Working(o)
  PROVE  ops[o].status # "NONE"
  BY DEF Working, Accepted, Busy, Free

LEMMA OneAtWorkStep ==
  ASSUME TypeOK, JobsFit, Accepted, TargetsAccepted, WorkIsHeld, OneAtWork, BoundExists,
         [Next]_vars, ~Start, ~Stop, ~Crash
  PROVE  OneAtWork'
  <1>. DEFINE Same(o, x) == RunOf(o)' = RunOf(x)'
  <1>1. ASSUME NEW o \in Ops, NEW x \in Ops, Working(o), Working(x), Same(o, x)
        PROVE  o = x
    <2>1. ops[o].status # "NONE" /\ ops[x].status # "NONE"
      BY <1>1, WorkingIsAccepted
    <2>2. RunOf(o) = RunOf(x)
      BY <1>1, <2>1, TargetsKept
    <2>. QED
      BY <1>1, <2>2 DEF OneAtWork
  <1>2. ASSUME NEW o \in Runs, NEW x \in Ops, AcceptAudit(o), Working(x), Same(o, x)
        PROVE  o = x
    <2>1. ops[o].status = "NONE" /\ ops[x].status # "NONE"
      BY <1>2, WorkingIsAccepted DEF AcceptAudit
    <2>2. RunOf(x) = o
      <3>1. RunOf(x)' = RunOf(x) /\ RunOf(o)' = o
        BY <2>1, TargetsKept DEF RunOf
      <3>. QED
        BY <1>2, <3>1
    <2>3. x \notin Runs => ops[o].status # "NONE"
      BY <1>2, <2>1, <2>2 DEF Ops, RunOf, TargetsAccepted
    <2>. QED
      BY <2>1, <2>2, <2>3 DEF RunOf
  <1>3. ASSUME NEW o \in Ops, NEW x \in Ops, Begins(o), Working(x), Same(o, x)
        PROVE  FALSE
    <2>0. o \in Resumes /\ o \notin Runs /\ Free /\ o \in Queued
      BY <1>3, OpsAssumption, TickTouches DEF Begins
    <2>1. ops[o].status # "NONE" /\ ops[x].status # "NONE"
      BY <1>3, <2>0, WorkingIsAccepted DEF Accepted, Busy
    <2>2. RunOf(x) = RunOf(o) /\ RunOf(o) \in Runs
      BY <1>3, <2>1, TargetsKept, RunOfType
    <2>3. run[RunOf(o)].status # "NONE"
      BY <2>0, <2>1, <2>2 DEF TargetsAccepted, BoundExists, RunOf
    <2>4. Held(RunOf(o))
      BY <1>3, <2>0, <2>2 DEF WorkIsHeld, Releasing, Free
    <2>5. run[RunOf(o)] \in RunType
      BY <2>2 DEF TypeOK
    <2>. QED
      BY <1>3, <2>3, <2>4, <2>5 DEF Begins, Held, RunType, Terminal
  <1>4. ASSUME NEW o \in Ops, NEW x \in Ops,
               (o \in Runs /\ AcceptAudit(o)) \/ Begins(o),
               (x \in Runs /\ AcceptAudit(x)) \/ Begins(x)
        PROVE  o = x
    <2>1. \A y \in Ops : y \in Runs /\ AcceptAudit(y) => thread'.op = y /\ thread'.job = "create"
      BY DEF AcceptAudit, Segment
    <2>2. \A y \in Ops : Begins(y) => thread'.op = y /\ thread'.job = "takeover"
      BY DEF Begins, Segment
    <2>. QED
      BY <1>4, <2>1, <2>2
  <1>5. ASSUME NEW o \in Ops, NEW x \in Ops, Working(o)', Working(x)', Same(o, x)
        PROVE  o = x
    <2>1. Working(o) \/ (o \in Runs /\ AcceptAudit(o)) \/ Begins(o)
      BY <1>5, WorkKept
    <2>2. Working(x) \/ (x \in Runs /\ AcceptAudit(x)) \/ Begins(x)
      BY <1>5, WorkKept
    <2>. QED
      BY <1>1, <1>2, <1>3, <1>4, <1>5, <2>1, <2>2
  <1>. QED
    BY <1>5 DEF OneAtWork

\* While a segment is in progress, only its own steps happen, or it dies.
LEMMA SegmentOnly ==
  ASSUME TypeOK, JobsFit, [Next]_vars, ~Crash, ~Free
  PROVE  \/ WriteRunState \/ WriteOperation \/ CreateRun \/ Bind \/ TakeOver \/ Reply
         \/ \E e \in Failures : StorageFails(e)
         \/ UNCHANGED vars
  <1>1. \A r \in Runs : ~OfRun(r)
    BY SettleTouches DEF AcceptAudit, Age, Ops
  <1>2. \A o \in Resumes : ~Woken(o)
    BY DEF Woken
  <1>3. ~Tick /\ ~Start /\ ~Stop
    BY DEF Tick, Start, Stop
  <1>4. \A o \in Resumes \cup Cancels, r \in Runs : ~AcceptTarget(o, r)
    BY DEF AcceptTarget
  <1>. QED
    BY <1>1, <1>2, <1>3, <1>4, NextCases, Zenon

LEMMA WorkIsHeldStep ==
  ASSUME TypeOK, JobsFit, AttemptsLeft, Accepted, QueuedOnce, PublishesGated, LeaseOfSegment,
         WorkIsHeld, OneAtWork, [Next]_vars, ~Start, ~Stop, ~Crash
  PROVE  WorkIsHeld'
  <1>. DEFINE Covered(o) == \/ Held(RunOf(o)) \/ Releasing(RunOf(o))
                            \/ thread.op = o /\ thread.job \in {"create", "takeover"}
  <1>. SUFFICES ASSUME NEW x \in Ops, Working(x)'
                PROVE  Covered(x)'
    BY DEF WorkIsHeld
  <1>1. ASSUME (x \in Runs /\ AcceptAudit(x)) \/ Begins(x)
        PROVE  Covered(x)'
    BY <1>1 DEF AcceptAudit, Begins, Segment
  <1>2. CASE Working(x)
    <2>r. PICK r \in Runs : r = RunOf(x)
      BY RunOfType
    <2>1. RunOf(x)' = r
      BY <1>2, <2>r, WorkingIsAccepted, TargetsKept
    <2>2. CASE Held(r)
      <3>1. Held(r)' \/ Releasing(r)'
        BY <2>2, HeldStep
      <3>. QED
        BY <2>1, <3>1
    <2>3. CASE UNCHANGED vars
      <3>1. Working(x) /\ UNCHANGED <<thread, run, ops>>
        BY <1>2, <2>3 DEF vars
      <3>2. Covered(x)
        BY <1>2 DEF WorkIsHeld
      <3>. QED
        BY <3>1, <3>2 DEF Held, Releasing, RunOf
    <2>4. CASE Releasing(r) /\ ~UNCHANGED vars
      <3>1. /\ r \in Ops /\ RunOf(r) = r /\ thread.op = r /\ Working(r) /\ ~Free
            /\ thread.job = "walk" /\ thread.phase = "GATED" /\ thread.torn
        BY <2>4 DEF Releasing, Working, Ops, RunOf, Free
      <3>2. x = r
        BY <1>2, <2>r, <3>1 DEF OneAtWork
      <3>3. WriteOperation \/ \E e \in Failures : StorageFails(e)
        BY <2>4, <3>1, SegmentOnly DEF WriteRunState, CreateRun, Bind, TakeOver, Reply
      <3>4. /\ thread' = Idle /\ UNCHANGED queue
            /\ \E g : task' = [task EXCEPT ![r] = [pc |-> "close", arg |-> g]]
        <4>1. CASE WriteOperation
          <5>1. AwaitAfter("GATED") = "close"
            BY DEF AwaitAfter
          <5>2. UNCHANGED queue
            BY <4>1 DEF WriteOperation
          <5>. QED
            BY <3>1, <4>1, <5>1, <5>2, WriteOperationCases
        <4>2. ASSUME NEW e \in Failures, StorageFails(e)
              PROVE  /\ thread' = Idle /\ UNCHANGED queue
                     /\ \E g : task' = [task EXCEPT ![r] = [pc |-> "close", arg |-> g]]
          BY <3>1, <4>2 DEF StorageFails, Park
        <4>. QED
          BY <3>3, <4>1, <4>2
      <3>5. task'[r].pc = "close" /\ thread'.job = "idle" /\ r \notin Queued'
        BY <3>1, <3>4 DEF TypeOK, Idle, QueuedOnce, Queued
      <3>. QED
        BY <3>2, <3>5 DEF Working
    <2>5. CASE thread.op = x /\ thread.job \in {"create", "takeover"} /\ ~UNCHANGED vars
      <3>1. CreateRun \/ TakeOver
        <4>1. ~WriteOperation
          BY <2>5, WriteOperationCases
        <4>2. ~Free
          BY <2>5 DEF Free
        <4>. QED
          BY <2>5, <4>1, <4>2, SegmentOnly
             DEF WriteRunState, PersistJobs, Bind, Reply, StorageFails
      <3>2. run'[r].owner = "self"
        <4>1. CASE CreateRun
          BY <2>r, <2>5, <4>1 DEF CreateRun, JobsFit, NewRun, NoRun, RunOf, TypeOK
        <4>2. CASE TakeOver
          BY <2>r, <2>5, <4>2 DEF TakeOver, TypeOK, RunType
        <4>. QED
          BY <3>1, <4>1, <4>2
      <3>. QED
        BY <2>1, <3>2 DEF Held
    <2>. QED
      BY <1>2, <2>r, <2>2, <2>3, <2>4, <2>5 DEF WorkIsHeld
  <1>. QED
    BY <1>1, <1>2, WorkKept
--------------------------------------------------------------------------------
(***************************************************************************)
(* The theorem.                                                            *)
(***************************************************************************)

\* The process neither dies nor restarts its server; a Run that was put back into the
\* queue while its first handler still closes the target may have two otherwise.
Undisturbed == Faults \cap {"crash", "restart"} = {}

LEMMA InitWriter == Init => WriterInv
  <1>. SUFFICES ASSUME Init
                PROVE  WriterInv
    OBVIOUS
  <1>1. /\ thread.job = "idle" /\ Queued = {} /\ up = "up"
        /\ \A o \in Ops : task[o].pc = "none" /\ ~ops[o].bound
    BY DEF Init, Idle, Queued, Parked
  <1>2. \A o \in Ops : ~Working(o)
    BY <1>1 DEF Working
  <1>3. OneAtWork /\ WorkIsHeld /\ LeaseOfSegment /\ BoundExists
    BY <1>1, <1>2 DEF OneAtWork, WorkIsHeld, LeaseOfSegment, BoundExists, Ops
  <1>. QED
    BY <1>1, <1>3, InitOutcome DEF WriterInv

LEMMA NextWriter ==
  ASSUME Undisturbed, WriterInv, [Next]_vars
  PROVE  WriterInv'
  <1>. USE DEF WriterInv
  <1>0. /\ TypeOK /\ JobsFit /\ AttemptsLeft /\ Accepted /\ QueuedOnce
        /\ PublishesGated /\ TargetsAccepted
    BY DEF OutcomeInv, Inv
  <1>1. ~Start /\ ~Stop /\ ~Crash
    BY DEF Undisturbed, Start, Stop, Crash
  <1>2. OutcomeInv'
    BY NextOutcome
  <1>3. UNCHANGED up
    <2>1. ASSUME NEW r \in Runs, OfRun(r)
          PROVE  UNCHANGED up
      BY <1>0, <2>1, SettleTouches DEF AcceptAudit, Age, Ops
    <2>2. ASSUME \/ WriteRunState \/ WriteOperation \/ CreateRun \/ Bind \/ TakeOver \/ Reply
                 \/ Tick
                 \/ \E o \in Resumes \cup Cancels, r \in Runs : AcceptTarget(o, r)
                 \/ \E o \in Resumes : Woken(o)
                 \/ \E e \in Failures : StorageFails(e)
                 \/ UNCHANGED vars
          PROVE  UNCHANGED up
      BY <2>2 DEF WriteRunState, WriteOperation, CreateRun, Bind, TakeOver, Reply, Tick,
                  AcceptTarget, Woken, StorageFails, vars
    <2>. QED
      BY <1>1, <2>1, <2>2, NextCases, Zenon
  <1>4. OneAtWork' /\ WorkIsHeld'
    BY <1>0, <1>1, OneAtWorkStep, WorkIsHeldStep
  <1>5. LeaseOfSegment' /\ BoundExists'
    BY <1>0, LeaseSegmentStep, BoundExistsStep
  <1>. QED
    BY <1>2, <1>3, <1>4, <1>5

\* One handler at a time works on a Run: the lease keeps every resume_run away from the
\* handler of the run_audit and from one another, also when writes and closes fail.
THEOREM OneWriterAtATime == ASSUME Undisturbed PROVE Spec => []OneWriter
  <1>1. WriterInv => OneWriter
    <2>. SUFFICES ASSUME WriterInv, NEW r \in Runs
                  PROVE  Cardinality(Writers(r)) <= 1
      BY DEF OneWriter
    <2>1. \A o, x \in Writers(r) : o = x
      BY DEF WriterInv, OneAtWork, Working, Writers, Running
    <2>2. CASE Writers(r) = {}
      BY <2>2, FS_EmptySet
    <2>3. CASE Writers(r) # {}
      <3>1. PICK o : o \in Writers(r)
        BY <2>3
      <3>2. Writers(r) = {o}
        BY <2>1, <3>1
      <3>3. Cardinality({o}) = 1
        BY FS_Singleton
      <3>. QED
        BY <3>2, <3>3
    <2>. QED
      BY <2>2, <2>3
  <1>2. WriterInv /\ [Next]_vars => WriterInv'
    BY NextWriter
  <1>. QED
    BY <1>1, <1>2, InitWriter, PTL DEF Spec
--------------------------------------------------------------------------------
(***************************************************************************)
(* The answers of the query tools agree, when writes succeed as well: the  *)
(* invariant. It is about Runs that were not taken over.                   *)
(***************************************************************************)

\* The rest of a segment: what is torn is a save, the handler of a run_audit has nobody
\* to answer, and what is saved has a phase.
SegmentShape ==
  /\ thread.torn => thread.job \in PersistJobs
  /\ thread.job = "reply" => thread.op \notin Runs
  /\ thread.job = "finalize" /\ thread.op \in Runs => thread.reply = "none"
  /\ thread.job \in {"walk", "loop", "finalize"} => thread.phase # "NONE"

\* A Run is bound after it is created, and nothing happens to it before.
CreatedThenBound ==
  /\ thread.job = "create" => ~ops[thread.op].bound
  /\ thread.job = "bind" /\ thread.op \in Runs =>
       run[thread.op].status = "ACTIVE" /\ run[thread.op].phase # "GATED"
  /\ \A r \in Runs : Busy(r) => ops[r].bound \/ (thread.op = r /\ thread.job \in {"create", "bind"})

\* The resume loop runs on an attempt that was counted.
LoopIsCounted ==
  /\ \/ thread.job = "loop"
     \/ thread.job = "revive" /\ thread.torn
     \/ thread.job = "publish" /\ thread.op \in Resumes
     => run[RunOf(thread.op)].attempts > 0
  /\ \A o \in Ops : task[o].pc = "sleep" => run[RunOf(o)].attempts > 0

\* Every Run has a phase.
PhasesKnown == \A r \in Runs : run[r].status # "NONE" => run[r].phase # "NONE"

\* What the first half of a save has written when the second half follows.
HalfSaved ==
  LET rec == run[RunOf(thread.op)]
  IN  thread.torn =>
        /\ thread.job = "walk" => rec.phase = thread.phase
        /\ thread.job = "fail" => rec.status = "FAILED"
        /\ thread.job = "publish" \/ (thread.job = "finalize" /\ thread.phase = "GATED") =>
             rec.phase = "GATED" /\ rec.status = "COMPLETED"

\* A resume_run that has no attempt left finalizes no Run whose handler is at work.
GivesUpIdle ==
  thread.job = "finalize" /\ thread.op \in Resumes =>
    run[RunOf(thread.op)].attempts > 0 \/ ~Working(RunOf(thread.op))

\* While its first handler is at work a Run is ACTIVE, unless it was cancelled: nobody
\* else finishes it.
Ends(r) == thread.op = r /\ thread.job \in {"finalize", "fail", "publish", "create"}

ActiveAtWork ==
  \A r \in Runs :
    Working(r) /\ ~Ends(r) /\ ~run[r].cancel /\ run[r].attempts = 0 => run[r].status = "ACTIVE"

\* The two records of a Run agree, but while it is being finalized or half saved.
Agreed(r) ==
  /\ ops[r].status = "FAILED" <=> run[r].status = "FAILED"
  /\ run[r].phase = "GATED" \/ run[r].status = "COMPLETED" =>
       ops[r].status = "COMPLETED" \/ run[r].status = "FAILED"

Saving(r) ==
  /\ RunOf(thread.op) = r
  /\ thread.job = "finalize" \/ (thread.torn /\ thread.job \in PersistJobs)

RecordsAgree ==
  \A r \in Runs : ops[r].bound /\ run[r].attempts = 0 => Agreed(r) \/ Saving(r)

AnswerInv ==
  /\ WriterInv
  /\ SegmentShape
  /\ CreatedThenBound
  /\ LoopIsCounted
  /\ PhasesKnown
  /\ HalfSaved
  /\ GivesUpIdle
  /\ ActiveAtWork
  /\ RecordsAgree

\* Nothing strikes but closes that fail.
Unhurt == ~Start /\ ~Stop /\ ~Crash /\ \A e \in Failures : ~StorageFails(e)

--------------------------------------------------------------------------------
(***************************************************************************)
(* How a segment begins and goes on.                                       *)
(***************************************************************************)

\* The second half of a save: which job comes next, and for what.
LEMMA GoesOn ==
  ASSUME TypeOK, JobsFit, SegmentShape, WriteOperation
  PROVE  /\ ~thread'.torn
         /\ thread'.op = thread.op \/ thread' = Idle
         /\ thread'.job \in {"idle", "walk", "loop", "publish", "finalize", "reply"}
         /\ thread'.job \in {"walk", "loop", "finalize"} => thread'.phase # "NONE"
         /\ thread'.job \in {"loop", "publish"} => thread.job = "revive" /\ thread.op \in Resumes
         /\ thread'.job = "finalize" =>
              \/ thread.job = "finalize" /\ thread'.reply = thread.reply
              \/ thread.job = "revive" /\ thread.op \in Resumes
         /\ thread'.job = "reply" => thread.job = "finalize" /\ thread.reply # "none"
  <1>. DEFINE Fine ==
         /\ ~thread'.torn
         /\ thread'.op = thread.op \/ thread' = Idle
         /\ thread'.job \in {"idle", "walk", "loop", "publish", "finalize", "reply"}
         /\ thread'.job \in {"walk", "loop", "finalize"} => thread'.phase # "NONE"
         /\ thread'.job \in {"loop", "publish"} => thread.job = "revive" /\ thread.op \in Resumes
         /\ thread'.job = "finalize" =>
              \/ thread.job = "finalize" /\ thread'.reply = thread.reply
              \/ thread.job = "revive" /\ thread.op \in Resumes
         /\ thread'.job = "reply" => thread.job = "finalize" /\ thread.reply # "none"
  <1>0. thread \in ThreadType
    BY DEF TypeOK
  <1>1. ASSUME thread' = Idle
        PROVE  Fine
    BY <1>1 DEF Idle
  <1>2. ASSUME thread.job \in {"walk", "finalize"},
               thread' = [thread EXCEPT !.phase = Following(thread.phase), !.torn = FALSE]
        PROVE  Fine
    <2>1. Following(thread.phase) # "NONE"
      BY FollowingType DEF Phases, BranchAfter, Closing
    <2>. QED
      BY <1>0, <1>2, <2>1 DEF ThreadType
  <1>3. ASSUME thread.job = "finalize", thread.reply # "none",
               thread' = [thread EXCEPT !.job = "reply", !.torn = FALSE]
        PROVE  Fine
    BY <1>0, <1>3 DEF ThreadType
  <1>4. ASSUME Walk(thread.op, "TARGET_READY", "null")
        PROVE  Fine
    BY <1>4, WalkCases DEF Segment, Idle
  <1>5. ASSUME thread.job = "revive", thread.op \in Resumes,
               Loop(thread.op, run[RunOf(thread.op)].phase)
        PROVE  Fine
    <2>1. \A q \in Phases : q # "NONE"
      BY DEF Phases, BranchAfter, Closing
    <2>. QED
      BY <1>5, <2>1, LoopCases DEF Segment
  <1>. QED
    BY <1>1, <1>2, <1>3, <1>4, <1>5, WriteOperationCases, Zenon

\* How any other step begins a segment.
LEMMA Opens ==
  ASSUME TypeOK, JobsFit, Next, ~WriteRunState, ~WriteOperation, Unhurt
  PROVE  /\ thread'.torn => thread.torn
         /\ thread'.job = "create" => AcceptAudit(thread'.op) /\ thread'.op \in Runs
         /\ thread'.job = "reply" => thread'.op \notin Runs
         /\ thread'.job = "finalize" /\ thread'.op \in Runs => thread'.reply = "none"
         /\ thread'.job \in {"walk", "loop", "finalize"} => thread'.phase # "NONE"
         /\ thread'.job = "loop" \/ (thread'.job \in {"publish", "finalize"} /\ thread'.op \in Resumes)
            => \/ thread'.op \in Resumes /\ Woken(thread'.op)
               \/ /\ thread'.job = "finalize"
                  /\ Tick /\ thread'.op = Head(queue) /\ run[RunOf(thread'.op)].status \notin Terminal
                  /\ run[RunOf(thread'.op)].status = "ACTIVE" => run[RunOf(thread'.op)].owner # "self"
  <1>. DEFINE Plain ==
         /\ thread'.torn => thread.torn
         /\ thread'.job = "reply" => thread'.op \notin Runs
         /\ thread'.job = "finalize" /\ thread'.op \in Runs => thread'.reply = "none"
         /\ thread'.job \in {"walk", "finalize"} => thread'.phase # "NONE"
         /\ thread'.job \notin {"create", "loop"}
         /\ thread'.job \in {"publish", "finalize"} => thread'.op \notin Resumes
  <1>0. thread \in ThreadType
    BY DEF TypeOK
  <1>w. ASSUME NEW r, NEW p, NEW g, Walk(r, p, g), p # "NONE"
        PROVE  Plain
    BY <1>w, WalkCases DEF Segment, Idle
  <1>c. ASSUME NEW r \in Runs, NEW e, Catch(r, e)
        PROVE  Plain
    BY <1>c, CatchCases, OpsAssumption DEF Segment, Idle
  <1>1. ASSUME CreateRun \/ Bind \/ TakeOver \/ Reply
        PROVE  Plain
    BY <1>0, <1>1 DEF CreateRun, Bind, TakeOver, Reply, EndTask, Park, Idle, ThreadType
  <1>2. CASE Tick
    <2>. DEFINE o == Head(queue)
    <2>0. o \in Ops
      BY <1>2, TickTouches
    <2>. HIDE DEF o
    <2>1. ASSUME o \in Runs, PrepareResume(o)
          PROVE  Plain
      BY <2>0, <2>1, PrepareResumeCases, OpsAssumption DEF Segment, Idle
    <2>2. ASSUME NEW reply, o \notin Runs, thread' = Segment("reply", o, "NONE", "null", reply)
          PROVE  Plain
      BY <2>2 DEF Segment
    <2>3. ASSUME o \in Cancels,
                 thread' = Segment("finalize", o, "TERMINALIZING", "incomplete", "COMPLETED")
          PROVE  Plain
      BY <2>3, OpsAssumption DEF Segment
    <2>4. ASSUME o \in Resumes, PrepareResume(o)
          PROVE  /\ ~thread'.torn /\ thread'.job \in {"finalize", "takeover", "reply", "idle"}
                 /\ thread'.job \in {"finalize", "reply"} => thread'.op = o
                 /\ thread'.job = "finalize" => thread'.phase # "NONE"
      BY <2>0, <2>4, PrepareResumeCases DEF Segment, Idle
    <2>5. CASE o \in Resumes /\ PrepareResume(o)
      <3>1. CASE Plain
        BY <3>1
      <3>2. CASE /\ run[RunOf(o)].status \notin Terminal
                 /\ run[RunOf(o)].status = "ACTIVE" => run[RunOf(o)].owner # "self"
        BY <1>2, <2>4, <2>5, <3>2, OpsAssumption DEF o
      <3>3. Plain \/ (/\ run[RunOf(o)].status \notin Terminal
                      /\ run[RunOf(o)].status = "ACTIVE" => run[RunOf(o)].owner # "self")
        <4>1. o \notin Runs /\ o \notin Cancels
          BY <2>5, OpsAssumption
        <4>. HIDE DEF Plain
        <4>. QED
          BY <1>2, <2>2, <4>1, TickCases, Zenon DEF o
      <3>. QED
        BY <3>1, <3>2, <3>3
    <2>6. CASE ~(o \in Resumes /\ PrepareResume(o))
      <3>1. o \in Resumes \cup Cancels => o \notin Runs
        BY OpsAssumption
      <3>2. Plain
        <4>. HIDE DEF Plain
        <4>. QED
          BY <1>2, <1>w, <2>1, <2>2, <2>3, <2>6, <3>1, TickCases, Zenon DEF o
      <3>. QED
        BY <3>2
    <2>. QED
      BY <2>5, <2>6
  <1>3. ASSUME NEW r \in Runs, OfRun(r), ~AcceptAudit(r)
        PROVE  Plain
    <2>. HIDE DEF Plain
    <2>1. ASSUME thread' = Idle \/ (UNCHANGED thread /\ Free)
          PROVE  Plain
      BY <2>1 DEF Plain, Idle, Free
    <2>2. ASSUME Age(r)
          PROVE  UNCHANGED thread /\ Free
      BY <2>2 DEF Age
    <2>3. ASSUME Opened(r) \/ Derived(r) \/ Filled(r) \/ \E g \in Verdicts : Executed(r, g)
          PROVE  \E p, g : Walk(r, p, g) /\ p # "NONE"
      BY <2>3 DEF Opened, Derived, Filled, Executed
    <2>4. ASSUME Closed(r)
          PROVE  \/ \E e : Catch(r, e)
                 \/ thread' = Idle
                 \/ \E g : thread' = Segment("publish", r, "GATED", g, "none")
      BY <2>4, Zenon DEF Closed, EndTask, Park
    <2>5. ASSUME NEW g, thread' = Segment("publish", r, "GATED", g, "none")
          PROVE  Plain
      BY <2>5, OpsAssumption DEF Plain, Segment
    <2>6. ASSUME \E e \in Failures : AwaitFails(r, e)
          PROVE  (\E e : Catch(r, e)) \/ thread' = Idle
      BY <2>6, Zenon DEF AwaitFails, Park
    <2>. QED
      BY <1>3, <1>w, <1>c, <2>1, <2>2, <2>3, <2>4, <2>5, <2>6, Zenon DEF OfRun
  <1>4. ASSUME NEW r \in Runs, AcceptAudit(r)
        PROVE  thread'.op = r /\ thread'.job = "create" /\ ~thread'.torn
    BY <1>4 DEF AcceptAudit, Segment
  <1>5. ASSUME NEW o \in Resumes \cup Cancels, NEW r \in Runs, AcceptTarget(o, r)
        PROVE  Plain
    BY <1>5 DEF AcceptTarget, Segment
  <1>6. ASSUME NEW o \in Resumes, Woken(o)
        PROVE  /\ thread'.op = o /\ ~thread'.torn
               /\ thread'.job \in {"finalize", "publish", "loop"} /\ thread'.phase # "NONE"
    <2>1. \A q \in Phases : q # "NONE"
      BY DEF Phases, BranchAfter, Closing
    <2>. QED
      BY <1>6, <2>1, LoopCases DEF Woken, Segment
  <1>7. CASE Plain
    BY <1>7
  <1>8. ASSUME NEW r \in Runs, AcceptAudit(r)
        PROVE  /\ thread'.job = "create" /\ AcceptAudit(thread'.op) /\ thread'.op \in Runs
               /\ ~thread'.torn
    BY <1>4, <1>8
  <1>9. ASSUME NEW o \in Resumes, Woken(o)
        PROVE  /\ Woken(thread'.op) /\ thread'.op \in Resumes /\ thread'.op \notin Runs
               /\ thread'.job \in {"finalize", "publish", "loop"} /\ thread'.phase # "NONE"
               /\ ~thread'.torn
    BY <1>6, <1>9, OpsAssumption
  <1>10. \/ Plain \/ Tick
         \/ \E r \in Runs : AcceptAudit(r)
         \/ \E o \in Resumes : Woken(o)
    <2>. HIDE DEF Plain
    <2>. QED
      BY <1>1, <1>3, <1>5, NextCases, Zenon DEF Unhurt
  <1>. QED
    BY <1>2, <1>7, <1>8, <1>9, <1>10

LEMMA ShapeStep ==
  ASSUME TypeOK, JobsFit, SegmentShape, [Next]_vars, Unhurt
  PROVE  SegmentShape'
  <1>0. thread \in ThreadType
    BY DEF TypeOK
  <1>1. CASE WriteRunState
    <2>1. /\ thread'.job = thread.job /\ thread'.op = thread.op /\ thread'.reply = thread.reply
          /\ thread'.phase = thread.phase /\ thread.job \in PersistJobs
      BY <1>0, <1>1 DEF WriteRunState, ThreadType
    <2>. QED
      BY <2>1 DEF SegmentShape
  <1>2. CASE WriteOperation
    BY <1>2, GoesOn, OpsAssumption DEF SegmentShape, Idle
  <1>3. CASE Next /\ ~WriteRunState /\ ~WriteOperation /\ ~UNCHANGED vars
    <2>1. ~thread'.torn
      <3>1. CASE thread.torn
        <4>1. thread.job \in PersistJobs /\ ~Free
          BY <3>1 DEF SegmentShape, PersistJobs, Free
        <4>. QED
          BY <1>3, <4>1, SegmentOnly DEF Unhurt, CreateRun, Bind, TakeOver, Reply, PersistJobs
      <3>. QED
        BY <1>3, <3>1, Opens
    <2>. QED
      BY <1>3, <2>1, Opens DEF SegmentShape
  <1>4. CASE UNCHANGED vars
    BY <1>4 DEF vars, SegmentShape
  <1>. QED
    BY <1>1, <1>2, <1>3, <1>4

--------------------------------------------------------------------------------
(***************************************************************************)
(* Attempts, and the two records of a Run, from step to step.              *)
(***************************************************************************)

\* Attempts are counted by the save of a takeover, and by nothing else.
LEMMA Counted ==
  ASSUME TypeOK, JobsFit, AttemptsLeft, [Next]_vars, NEW r \in Runs,
         ~(CreateRun /\ thread.op = r)
  PROVE  /\ run[r].attempts > 0 => run'[r].attempts > 0
         /\ run'[r].attempts = 0 => run[r].attempts = 0
         /\ WriteRunState /\ RunOf(thread.op) = r /\ thread.job = "revive" => run'[r].attempts > 0
  <1>0. run[r].attempts \in Nat
    BY ParameterAssumption DEF TypeOK, RunType
  <1>1. CASE WriteRunState /\ RunOf(thread.op) = r
    <2>1. \/ run'[r].attempts = run[r].attempts /\ thread.job # "revive"
          \/ run'[r].attempts = run[r].attempts + 1
      BY <1>1, SaveCases
    <2>. QED
      BY <1>0, <2>1
  <1>2. CASE WriteRunState /\ RunOf(thread.op) # r
    BY <1>0, <1>2 DEF WriteRunState, TypeOK
  <1>3. CASE ~WriteRunState
    BY <1>0, <1>3, RecordKept DEF SameRecord
  <1>. QED
    BY <1>1, <1>2, <1>3

\* Who writes the operation record of a Run, and what.
LEMMA OperationKept ==
  ASSUME TypeOK, JobsFit, SegmentShape, [Next]_vars, NEW r \in Runs
  PROVE  \/ ops'[r] = ops[r]
         \/ AcceptAudit(r) /\ ops'[r].bound = ops[r].bound
         \/ /\ WriteOperation /\ RunOf(thread.op) = r
            /\ ops'[r].bound = ops[r].bound /\ ops'[r].status = OperationStatus
         \/ /\ Bind /\ thread.op = r
            /\ ops'[r].bound /\ ops'[r].status = "RUNNING"
  <1>0. /\ ops \in [Ops -> [status : Statuses, target : Runs, bound : BOOLEAN]]
        /\ thread.op \in Ops /\ RunOf(thread.op) \in Runs /\ r \in Ops /\ Runs \subseteq Ops
    BY RunOfType DEF TypeOK, ThreadType, Ops
  <1>1. CASE WriteOperation
    <2>. DEFINE status == OperationStatus
    <2>1. ops' = [ops EXCEPT ![RunOf(thread.op)].status = status]
      BY <1>1 DEF WriteOperation
    <2>. HIDE DEF status
    <2>2. CASE RunOf(thread.op) = r
      <3>1. ops'[r].bound = ops[r].bound /\ ops'[r].status = status
        BY <1>0, <2>1, <2>2
      <3>. QED
        BY <1>1, <2>2, <3>1 DEF status
    <2>3. CASE RunOf(thread.op) # r
      BY <1>0, <2>1, <2>3
    <2>. QED
      BY <2>2, <2>3
  <1>2. CASE Bind
    <2>. DEFINE status == IF thread.op \in Runs THEN "RUNNING" ELSE "ACCEPTED"
    <2>1. ops' = [ops EXCEPT ![thread.op].bound = TRUE, ![thread.op].status = status]
      BY <1>2 DEF Bind
    <2>2. thread.op = r => status = "RUNNING"
      OBVIOUS
    <2>. HIDE DEF status
    <2>3. CASE thread.op = r
      BY <1>0, <1>2, <2>1, <2>2, <2>3
    <2>4. CASE thread.op # r
      BY <1>0, <2>1, <2>4
    <2>. QED
      BY <2>3, <2>4
  <1>3. CASE Reply
    BY <1>0, <1>3 DEF Reply, SegmentShape
  <1>4. ASSUME NEW x \in Runs, AcceptAudit(x)
        PROVE  ops'[r] = ops[r] \/ (AcceptAudit(r) /\ ops'[r].bound = ops[r].bound)
    BY <1>0, <1>4 DEF AcceptAudit
  <1>5. ASSUME NEW o \in Resumes \cup Cancels, NEW x \in Runs, AcceptTarget(o, x)
        PROVE  ops'[r] = ops[r]
    BY <1>0, <1>5, OpsAssumption DEF AcceptTarget
  <1>6. ASSUME NEW x \in Runs, OfRun(x), ~AcceptAudit(x)
        PROVE  UNCHANGED ops
    BY <1>0, <1>6, SettleTouches DEF Age
  <1>7. ASSUME \/ WriteRunState \/ CreateRun \/ TakeOver \/ Tick
               \/ \E o \in Resumes : Woken(o)
               \/ \E e \in Failures : StorageFails(e)
               \/ Start \/ Stop \/ Crash \/ UNCHANGED vars
        PROVE  UNCHANGED ops
    BY <1>7 DEF WriteRunState, CreateRun, TakeOver, Tick, Woken, StorageFails, Start, Stop,
                Crash, vars
  <1>. QED
    BY <1>1, <1>2, <1>3, <1>4, <1>5, <1>6, <1>7, NextCases, Zenon

\* Only a turn of the resume loop ends in its sleep.
LEMMA SleepBegins ==
  ASSUME TypeOK, JobsFit, [Next]_vars, Unhurt, NEW o \in Ops, task'[o].pc = "sleep"
  PROVE  task[o].pc = "sleep" \/ (WriteOperation /\ thread.job = "loop" /\ thread.op = o)
  <1>. DEFINE Awake == \/ UNCHANGED task
                       \/ \E x, t : task' = [task EXCEPT ![x] = t] /\ t.pc # "sleep"
  <1>0. task \in [Ops -> TaskType]
    BY DEF TypeOK
  <1>a. ASSUME Awake
        PROVE  task[o].pc = "sleep"
    BY <1>0, <1>a
  <1>b. ASSUME NEW x, NEW t, task' = [task EXCEPT ![x] = t], t.pc # "sleep"
        PROVE  Awake
    BY <1>b, Zenon
  <1>p. ASSUME NEW x, NEW pc, NEW arg, Park(x, pc, arg), pc # "sleep"
        PROVE  Awake
    <2>1. [pc |-> pc, arg |-> arg].pc # "sleep" /\ task' = [task EXCEPT ![x] = [pc |-> pc, arg |-> arg]]
      BY <1>p DEF Park
    <2>. QED
      BY <2>1, <1>b, Zenon
  <1>w. ASSUME NEW x, NEW p, NEW g, Walk(x, p, g)
        PROVE  Awake
    <2>1. SegmentEnd(p) # "sleep"
      BY DEF SegmentEnd
    <2>. DEFINE t == [pc |-> SegmentEnd(p), arg |-> g]
    <2>2. t.pc # "sleep"
      BY <2>1
    <2>3. UNCHANGED task \/ task' = [task EXCEPT ![x] = t]
      BY <1>w, WalkCases
    <2>. HIDE DEF t
    <2>. QED
      BY <1>b, <2>2, <2>3
  <1>c. ASSUME NEW x, NEW e, Catch(x, e)
        PROVE  Awake
    <2>1. Parked.pc # "sleep"
      BY DEF Parked
    <2>. QED
      BY <1>c, <1>b, <2>1, CatchCases, Zenon
  <1>1. CASE WriteOperation
    <2>1. AwaitAfter(thread.phase) # "sleep" /\ Parked.pc # "sleep"
      BY DEF AwaitAfter, Parked
    <2>2. Awake \/ thread.job = "loop"
      BY <1>1, <1>w, <2>1, WriteOperationCases
    <2>3. CASE thread.job = "loop" /\ thread.op # o
      <3>1. task'[o] = task[o]
        BY <1>0, <1>1, <2>3, WriteOperationCases
      <3>. QED
        BY <3>1
    <2>. QED
      BY <1>a, <1>1, <2>2, <2>3
  <1>2. CASE WriteRunState \/ CreateRun \/ Bind \/ TakeOver
    BY <1>a, <1>2 DEF WriteRunState, CreateRun, Bind, TakeOver
  <1>3. CASE Reply
    BY <1>a, <1>p, <1>3 DEF Reply, EndTask
  <1>4. CASE Tick
    BY <1>a, <1>w, <1>4, TickCases, Zenon
  <1>5. ASSUME NEW r \in Runs, OfRun(r)
        PROVE  task[o].pc = "sleep"
    <2>1. CASE AcceptAudit(r) \/ Age(r)
      BY <1>a, <2>1 DEF AcceptAudit, Age
    <2>2. ASSUME Opened(r) \/ Derived(r) \/ Filled(r) \/ \E g \in Verdicts : Executed(r, g)
          PROVE  \E p, g : Walk(r, p, g)
      BY <2>2, Zenon DEF Opened, Derived, Filled, Executed
    <2>3. ASSUME Closed(r)
          PROVE  (\E e : Catch(r, e)) \/ Park(r, "none", "none") \/ UNCHANGED task
      BY <2>3, Zenon DEF Closed, EndTask
    <2>4. ASSUME \E e \in Failures : AwaitFails(r, e)
          PROVE  \E e : Catch(r, e) \/ Park(r, "close", e)
      BY <2>4, Zenon DEF AwaitFails
    <2>. QED
      BY <1>5, <1>a, <1>p, <1>w, <1>c, <2>1, <2>2, <2>3, <2>4 DEF OfRun
  <1>6. ASSUME \/ \E x \in Resumes \cup Cancels, r \in Runs : AcceptTarget(x, r)
               \/ \E x \in Resumes : Woken(x)
               \/ UNCHANGED vars
        PROVE  UNCHANGED task
    BY <1>6 DEF AcceptTarget, Woken, vars
  <1>. QED
    BY <1>a, <1>1, <1>2, <1>3, <1>4, <1>5, <1>6, NextCases, Zenon DEF Unhurt

\* A Run that is being created has no other operation yet.
LEMMA CreatedAlone ==
  ASSUME TypeOK, Accepted, TargetsAccepted, CreatedThenBound, JobsFit, CreateRun,
         NEW o \in Ops, Busy(o), RunOf(o) = thread.op
  PROVE  o = thread.op
  <1>1. CASE o \in Runs
    BY <1>1 DEF RunOf
  <1>2. CASE o \notin Runs
    <2>1. o \in Resumes \cup Cancels /\ ops[o].status # "NONE" /\ ops[o].target = thread.op
      BY <1>2 DEF Ops, Accepted, RunOf
    <2>. QED
      BY <2>1 DEF TargetsAccepted, CreatedThenBound, CreateRun
  <1>. QED
    BY <1>1, <1>2

LEMMA CreatedStep ==
  ASSUME TypeOK, JobsFit, AttemptsLeft, Accepted, TargetsAccepted, SegmentShape,
         CreatedThenBound, [Next]_vars, Unhurt
  PROVE  CreatedThenBound'
  <1>0. thread \in ThreadType /\ Runs \subseteq Ops
    BY DEF TypeOK, Ops
  <1>1. WriteRunState \/ WriteOperation => thread'.job \notin {"create", "bind"}
    <2>1. CASE WriteRunState
      BY <1>0, <2>1 DEF WriteRunState, PersistJobs, ThreadType
    <2>. QED
      BY <2>1, GoesOn
  <1>2. ASSUME thread'.job = "create"
        PROVE  ~ops'[thread'.op].bound
    <2>1. CASE UNCHANGED vars
      BY <1>2, <2>1 DEF vars, CreatedThenBound
    <2>2. CASE ~UNCHANGED vars
      <3>. DEFINE r == thread'.op
      <3>1. AcceptAudit(r) /\ r \in Runs
        BY <1>1, <1>2, <2>2, Opens
      <3>. HIDE DEF r
      <3>2. ops[r].status = "NONE" /\ ops'[r].bound = ops[r].bound
        BY <1>0, <3>1 DEF AcceptAudit, TypeOK
      <3>3. ~ops[r].bound
        BY <1>0, <3>1, <3>2 DEF TargetsAccepted
      <3>. QED
        BY <3>2, <3>3 DEF r
    <2>. QED
      BY <2>1, <2>2
  <1>3. ASSUME thread'.job = "bind", thread'.op \in Runs
        PROVE  run'[thread'.op].status = "ACTIVE" /\ run'[thread'.op].phase # "GATED"
    <2>1. CASE UNCHANGED vars
      BY <1>3, <2>1 DEF vars, CreatedThenBound
    <2>2. CASE ~UNCHANGED vars
      <3>1. CreateRun
        BY <1>1, <1>3, <2>2, SegmentBegins
      <3>2. thread'.op = thread.op
        BY <1>0, <3>1 DEF CreateRun, ThreadType
      <3>. QED
        BY <1>3, <3>1, <3>2 DEF CreateRun, NewRun, NoRun, TypeOK
    <2>. QED
      BY <2>1, <2>2
  <1>4. ASSUME NEW r \in Runs, Busy(r)'
        PROVE  ops'[r].bound \/ (thread'.op = r /\ thread'.job \in {"create", "bind"})
    <2>1. CASE UNCHANGED vars
      BY <1>4, <2>1 DEF vars, CreatedThenBound, Busy, Queued, Free
    <2>2. CASE \E x \in Runs : Accepts(r, x)
      BY <2>2 DEF Accepts, Segment
    <2>3. CASE ops[r].bound
      BY <2>3, OperationKept
    <2>4. CASE thread.op = r /\ thread.job \in {"create", "bind"} /\ ~UNCHANGED vars
      <3>1. ~Free /\ thread.job \notin PersistJobs
        BY <2>4 DEF Free, PersistJobs
      <3>2. CreateRun \/ Bind
        BY <2>4, <3>1, SegmentOnly
           DEF Unhurt, WriteRunState, WriteOperation, SegmentShape, TakeOver, Reply
      <3>3. CASE CreateRun
        BY <1>0, <2>4, <3>3 DEF CreateRun, ThreadType
      <3>4. CASE Bind
        <4>1. \E st : ops' = [ops EXCEPT ![r].bound = TRUE, ![r].status = st]
          BY <2>4, <3>4 DEF Bind
        <4>. QED
          BY <1>0, <4>1 DEF TypeOK
      <3>. QED
        BY <3>2, <3>3, <3>4
    <2>5. Busy(r) \/ \E x \in Runs : Accepts(r, x)
      BY <1>0, <1>4, BusyKept DEF Unhurt
    <2>. QED
      BY <2>1, <2>2, <2>3, <2>4, <2>5 DEF CreatedThenBound
  <1>. QED
    BY <1>2, <1>3, <1>4 DEF CreatedThenBound

\* The attempts of a takeover are counted before its loop begins, and stay counted.
LEMMA CountedStep ==
  ASSUME TypeOK, JobsFit, AttemptsLeft, Accepted, TargetsAccepted, SegmentShape,
         CreatedThenBound, LoopIsCounted, [Next]_vars, Unhurt
  PROVE  LoopIsCounted'
  <1>0. thread \in ThreadType /\ thread.op \in Ops /\ RunOf(thread.op) \in Runs
        /\ Resumes \subseteq Ops
    BY RunOfType DEF TypeOK, ThreadType, Ops
  <1>1. ASSUME NEW o \in Ops, Busy(o), run[RunOf(o)].attempts > 0,
               ~(CreateRun /\ o = thread.op)
        PROVE  run'[RunOf(o)'].attempts > 0
    <2>1. RunOf(o)' = RunOf(o) /\ RunOf(o) \in Runs
      BY <1>1, TargetsKept, RunOfType DEF Accepted
    <2>2. ~(CreateRun /\ thread.op = RunOf(o))
      BY <1>1, CreatedAlone
    <2>. QED
      BY <1>1, <2>1, <2>2, Counted
  <1>2. ASSUME NEW o \in Ops, task'[o].pc = "sleep"
        PROVE  run'[RunOf(o)'].attempts > 0
    <2>1. task[o].pc = "sleep" \/ (WriteOperation /\ thread.job = "loop" /\ thread.op = o)
      BY <1>2, SleepBegins
    <2>2. Busy(o) /\ run[RunOf(o)].attempts > 0
      BY <2>1 DEF Busy, Free, LoopIsCounted
    <2>3. ~(CreateRun /\ o = thread.op)
      BY <2>1 DEF CreateRun, JobsFit
    <2>. QED
      BY <1>1, <2>2, <2>3
  <1>3. ASSUME \/ thread'.job = "loop"
               \/ thread'.job = "revive" /\ thread'.torn
               \/ thread'.job = "publish" /\ thread'.op \in Resumes
        PROVE  run'[RunOf(thread.op)'].attempts > 0
    <2>1. CASE UNCHANGED vars
      <3>1. run'[RunOf(thread.op)'].attempts = run[RunOf(thread.op)].attempts
        BY <2>1 DEF vars, RunOf
      <3>. QED
        BY <1>3, <2>1, <3>1 DEF vars, LoopIsCounted
    <2>2. CASE WriteRunState
      <3>1. /\ thread'.op = thread.op /\ thread'.job = thread.job /\ UNCHANGED ops
            /\ RunOf(thread.op)' = RunOf(thread.op) /\ ~CreateRun
        BY <1>0, <2>2 DEF WriteRunState, ThreadType, RunOf, CreateRun, PersistJobs
      <3>2. thread.job = "revive" \/ run[RunOf(thread.op)].attempts > 0
        BY <1>3, <3>1 DEF LoopIsCounted
      <3>. QED
        BY <1>0, <2>2, <3>1, <3>2, Counted
    <2>3. CASE WriteOperation
      <3>1. /\ thread'.job \in {"loop", "publish"} /\ thread.job = "revive" /\ thread.torn
            /\ thread'.op = thread.op
        BY <1>3, <2>3, GoesOn DEF WriteOperation, Idle
      <3>2. Busy(thread.op) /\ run[RunOf(thread.op)].attempts > 0 /\ ~CreateRun
        BY <3>1 DEF Busy, Free, LoopIsCounted, CreateRun
      <3>. QED
        BY <1>0, <1>1, <3>1, <3>2 DEF RunOf
    <2>4. CASE ~WriteRunState /\ ~WriteOperation /\ ~UNCHANGED vars
      <3>1. thread'.job # "revive" \/ ~thread'.torn
        <4>1. thread'.job = "revive" => TakeOver
          BY <2>4, SegmentBegins
        <4>2. thread'.torn => thread.torn
          BY <2>4, Opens
        <4>. QED
          BY <4>1, <4>2 DEF TakeOver, SegmentShape, PersistJobs
      <3>2. PICK o \in Resumes : o = thread'.op /\ Woken(o)
        BY <1>3, <2>4, <3>1, Opens
      <3>3. Busy(o) /\ run[RunOf(o)].attempts > 0 /\ ~CreateRun
        BY <1>0, <3>2 DEF Woken, Busy, Free, LoopIsCounted, CreateRun
      <3>4. run'[RunOf(o)'].attempts > 0
        BY <1>0, <1>1, <3>2, <3>3
      <3>. QED
        BY <3>2, <3>4 DEF RunOf
    <2>. QED
      BY <2>1, <2>2, <2>3, <2>4
  <1>. QED
    BY <1>2, <1>3 DEF LoopIsCounted

\* A Run that is being worked on, by whatever operation, exists.
LEMMA BusyExists ==
  ASSUME TypeOK, Accepted, TargetsAccepted, BoundExists, CreatedThenBound, NEW o \in Ops, Busy(o),
         ~(thread.job = "create" /\ thread.op = o)
  PROVE  run[RunOf(o)].status # "NONE"
  <1>1. CASE o \in Runs
    BY <1>1 DEF RunOf, CreatedThenBound, BoundExists
  <1>2. CASE o \notin Runs
    <2>1. o \in Resumes \cup Cancels /\ ops[o].status # "NONE" /\ RunOf(o) = ops[o].target
      BY <1>2 DEF Ops, Accepted, RunOf
    <2>2. ops[RunOf(o)].bound /\ RunOf(o) \in Runs
      BY <2>1, RunOfType DEF TargetsAccepted
    <2>. QED
      BY <2>2 DEF BoundExists
  <1>. QED
    BY <1>1, <1>2

\* The phase a save gives to a Run is one.
LEMMA PhasesStep ==
  ASSUME TypeOK, JobsFit, AttemptsLeft, Accepted, TargetsAccepted, BoundExists, SegmentShape,
         CreatedThenBound, PhasesKnown, [Next]_vars
  PROVE  PhasesKnown'
  <1>. SUFFICES ASSUME NEW r \in Runs, run'[r].status # "NONE"
                PROVE  run'[r].phase # "NONE"
    BY DEF PhasesKnown
  <1>1. CASE WriteRunState /\ RunOf(thread.op) = r
    <2>1. CASE thread.job \in {"walk", "loop", "finalize", "publish"}
      <3>1. \/ run'[r].phase = "GATED"
            \/ thread.job \in {"walk", "loop", "finalize"} /\ run'[r].phase = thread.phase
        BY <1>1, <2>1, SaveCases
      <3>. QED
        BY <3>1 DEF SegmentShape
    <2>2. CASE thread.job \in {"fail", "revive"}
      <3>1. thread.op \in Ops /\ Busy(thread.op) /\ thread.job # "create"
        BY <2>2 DEF TypeOK, ThreadType, Busy, Free
      <3>2. run[r].status # "NONE"
        BY <1>1, <3>1, BusyExists
      <3>3. run'[r].phase = run[r].phase
        BY <1>1, <2>2, SaveCases
      <3>. QED
        BY <3>2, <3>3 DEF PhasesKnown
    <2>. QED
      BY <1>1, <2>1, <2>2 DEF WriteRunState, PersistJobs
  <1>2. CASE WriteRunState /\ RunOf(thread.op) # r
    BY <1>2 DEF WriteRunState, TypeOK, PhasesKnown
  <1>3. CASE ~WriteRunState
    BY <1>3, RecordKept DEF SameRecord, PhasesKnown, NewRun, NoRun
  <1>. QED
    BY <1>1, <1>2, <1>3

\* Between the halves of a save nothing happens to the Run.
LEMMA HalfSavedStep ==
  ASSUME TypeOK, JobsFit, AttemptsLeft, SegmentShape, HalfSaved, [Next]_vars, Unhurt
  PROVE  HalfSaved'
  <1>0. thread \in ThreadType
    BY DEF TypeOK
  <1>1. CASE WriteRunState
    <2>. DEFINE r == RunOf(thread.op)
    <2>1. /\ thread'.job = thread.job /\ thread'.phase = thread.phase
          /\ RunOf(thread.op)' = r
      BY <1>0, <1>1 DEF WriteRunState, ThreadType, RunOf
    <2>2. /\ thread.job = "walk" => run'[r].phase = thread.phase
          /\ thread.job = "fail" => run'[r].status = "FAILED"
          /\ thread.job = "publish" \/ (thread.job = "finalize" /\ thread.phase = "GATED") =>
               run'[r].phase = "GATED" /\ run'[r].status = "COMPLETED"
      BY <1>1, SaveCases
    <2>. QED
      BY <2>1, <2>2 DEF HalfSaved
  <1>2. CASE UNCHANGED vars
    BY <1>2 DEF vars, HalfSaved, RunOf
  <1>3. CASE ~WriteRunState /\ ~UNCHANGED vars
    <2>1. ~thread'.torn
      <3>1. CASE WriteOperation
        BY <3>1, GoesOn
      <3>2. CASE ~WriteOperation
        <4>1. CASE thread.torn
          <5>1. thread.job \in PersistJobs /\ ~Free
            BY <4>1 DEF SegmentShape, PersistJobs, Free
          <5>. QED
            BY <1>3, <3>2, <5>1, SegmentOnly
               DEF Unhurt, CreateRun, Bind, TakeOver, Reply, PersistJobs
        <4>2. CASE ~thread.torn
          BY <1>3, <3>2, <4>2, Opens
        <4>. QED
          BY <4>1, <4>2
      <3>. QED
        BY <3>1, <3>2
    <2>. QED
      BY <2>1 DEF HalfSaved
  <1>. QED
    BY <1>1, <1>2, <1>3

\* A resume_run finalizes a Run it did not take over only when the lease has lapsed, and
\* whoever is at work on a Run holds its lease.
LEMMA GivesUpStep ==
  ASSUME TypeOK, JobsFit, AttemptsLeft, Accepted, QueuedOnce, TargetsAccepted, WorkIsHeld,
         BoundExists, SegmentShape, CreatedThenBound, LoopIsCounted, GivesUpIdle,
         [Next]_vars, Unhurt
  PROVE  GivesUpIdle'
  <1>0. thread \in ThreadType /\ thread.op \in Ops /\ Runs \subseteq Ops /\ Resumes \subseteq Ops
    BY DEF TypeOK, ThreadType, Ops
  <1>. SUFFICES ASSUME NEW o \in Resumes, o = thread'.op, thread'.job = "finalize"
                PROVE  run'[RunOf(o)'].attempts > 0 \/ ~Working(RunOf(o))'
    BY DEF GivesUpIdle, RunOf, Working
  <1>1. CASE UNCHANGED vars
    <2>1. RunOf(o)' = RunOf(o) /\ run' = run /\ thread' = thread
      BY <1>1 DEF vars, RunOf
    <2>2. run[RunOf(o)].attempts > 0 \/ ~Working(RunOf(o))
      BY <2>1 DEF GivesUpIdle
    <2>3. Working(RunOf(o))' <=> Working(RunOf(o))
      BY <1>1 DEF vars, RunOf, Working, Queued
    <2>. QED
      BY <2>1, <2>2, <2>3
  <1>2. CASE ~UNCHANGED vars
    <2>1. Busy(o)
      <3>1. CASE WriteRunState \/ WriteOperation
        <4>1. thread'.op = thread.op /\ ~Free
          <5>1. CASE WriteRunState
            BY <1>0, <5>1 DEF WriteRunState, ThreadType, Free, PersistJobs
          <5>2. CASE WriteOperation
            BY <5>2, GoesOn DEF WriteOperation, SegmentShape, PersistJobs, Free, Idle
          <5>. QED
            BY <3>1, <5>1, <5>2
        <4>. QED
          BY <4>1 DEF Busy
      <3>2. CASE ~WriteRunState /\ ~WriteOperation
        <4>1. Woken(o) \/ (Tick /\ o = Head(queue))
          BY <1>2, <3>2, Opens
        <4>. QED
          BY <4>1, TickTouches DEF Woken, Busy
      <3>. QED
        BY <3>1, <3>2
    <2>r. PICK r \in Runs : r = RunOf(o)
      BY <1>0, RunOfType
    <2>2. RunOf(o)' = r /\ run[r].status # "NONE"
      <3>1. ~(thread.job = "create" /\ thread.op = o)
        BY OpsAssumption DEF JobsFit
      <3>. QED
        BY <1>0, <2>1, <2>r, <3>1, TargetsKept, BusyExists DEF Accepted
    <2>3. ~AcceptAudit(r)
      BY <1>0, OpsAssumption DEF AcceptAudit, Segment
    <2>4. ~(CreateRun /\ thread.op = r)
      <3>1. CASE CreateRun
        BY <1>0, <3>1 DEF CreateRun, ThreadType
      <3>. QED
        BY <3>1
    <2>5. ~Working(r) => ~Working(r)'
      BY <1>0, <2>3, WorkKept, OpsAssumption DEF Unhurt, Begins
    <2>6. run[r].attempts > 0 => run'[r].attempts > 0
      BY <2>4, Counted
    <2>7. run[r].attempts > 0 \/ ~Working(r)
      <3>1. CASE WriteRunState
        <4>1. thread.op = o /\ thread.job = "finalize"
          BY <1>0, <3>1 DEF WriteRunState, ThreadType
        <4>. QED
          BY <2>r, <4>1 DEF GivesUpIdle
      <3>2. CASE WriteOperation
        <4>1. /\ thread.op = o /\ thread.torn
              /\ thread.job = "finalize" \/ thread.job = "revive"
          BY <3>2, GoesOn DEF WriteOperation, Idle
        <4>. QED
          BY <2>r, <4>1 DEF GivesUpIdle, LoopIsCounted
      <3>3. CASE ~WriteRunState /\ ~WriteOperation
        <4>1. CASE Woken(o)
          BY <1>0, <2>r, <4>1 DEF Woken, LoopIsCounted
        <4>2. CASE ~Woken(o)
          <5>1. /\ Tick /\ run[r].status \notin Terminal
                /\ run[r].status = "ACTIVE" => run[r].owner # "self"
            BY <1>2, <2>r, <3>3, <4>2, Opens
          <5>2. run[r].status = "ACTIVE"
            BY <2>2, <5>1 DEF TypeOK, RunType, Terminal
          <5>3. thread.job = "idle" /\ RunOf(r) = r
            BY <5>1 DEF Tick, Free, RunOf
          <5>4. ~Held(r) /\ ~Releasing(r)
            BY <5>1, <5>2, <5>3 DEF Held, Releasing, Terminal
          <5>. QED
            BY <1>0, <5>3, <5>4 DEF WorkIsHeld
        <4>. QED
          BY <4>1, <4>2
      <3>. QED
        BY <3>1, <3>2, <3>3
    <2>8. run'[r].attempts > 0 \/ ~Working(r)'
      BY <2>5, <2>6, <2>7
    <2>9. Working(RunOf(o))' <=> Working(r)'
      BY <2>2 DEF Working
    <2>. QED
      BY <2>2, <2>8, <2>9
  <1>. QED
    BY <1>1, <1>2

\* Who finishes an ACTIVE Run is its own handler, one that takes it over, or a
\* cancel_run, which records the cancellation.
LEMMA ActiveStep ==
  ASSUME TypeOK, JobsFit, AttemptsLeft, QueuedOnce, CancelRecorded, PublishesGated, SegmentShape,
         LoopIsCounted, GivesUpIdle, ActiveAtWork, [Next]_vars, Unhurt
  PROVE  ActiveAtWork'
  <1>0. thread \in ThreadType /\ thread.op \in Ops /\ Runs \subseteq Ops
    BY DEF TypeOK, ThreadType, Ops
  <1>. SUFFICES ASSUME NEW r \in Runs, Working(r)', ~Ends(r)', ~run'[r].cancel,
                       run'[r].attempts = 0
                PROVE  run'[r].status = "ACTIVE"
    BY DEF ActiveAtWork
  <1>1. Working(r) /\ RunOf(r) = r
    <2>1. ~AcceptAudit(r)
      BY DEF AcceptAudit, Segment, Ends
    <2>2. ~Begins(r)
      BY OpsAssumption DEF Begins
    <2>. QED
      BY <1>0, <2>1, <2>2, WorkKept DEF Unhurt, RunOf
  <1>2. CASE WriteRunState /\ RunOf(thread.op) = r
    <2>1. /\ thread'.job = thread.job /\ thread'.op = thread.op /\ thread'.torn
          /\ thread'.phase = thread.phase /\ thread.job \in PersistJobs /\ UNCHANGED ops
      BY <1>0, <1>2 DEF WriteRunState, ThreadType
    <2>2. run[r].attempts = 0 /\ thread.job # "revive"
      <3>1. ~CreateRun
        BY <2>1 DEF CreateRun, PersistJobs
      <3>. QED
        BY <1>2, <3>1, Counted
    <2>3. ~(thread.op = r /\ thread.job \in {"finalize", "fail", "publish"})
      BY <2>1 DEF Ends
    <2>4. thread.job # "finalize"
      <3>1. ASSUME thread.job = "finalize", thread.op \in Cancels
            PROVE  FALSE
        <4>1. CancelRecorded'
          BY RecordedStep
        <4>2. RunOf(thread.op)' = r
          BY <1>2, <2>1 DEF RunOf
        <4>. QED
          BY <2>1, <3>1, <4>1, <4>2 DEF CancelRecorded
      <3>2. ASSUME thread.job = "finalize", thread.op \in Resumes
            PROVE  FALSE
        BY <1>1, <1>2, <2>2, <3>2 DEF GivesUpIdle
      <3>3. ASSUME thread.job = "finalize", thread.op \in Runs
            PROVE  FALSE
        BY <1>2, <2>3, <3>3 DEF RunOf
      <3>. QED
        BY <1>0, <3>1, <3>2, <3>3 DEF Ops
    <2>5. thread.job \notin {"loop", "fail", "publish"}
      BY <1>2, <2>2, <2>3 DEF LoopIsCounted, JobsFit, RunOf
    <2>6. thread.job = "walk" /\ thread.op = r
      BY <1>2, <2>1, <2>2, <2>4, <2>5 DEF PersistJobs, JobsFit, RunOf
    <2>7. run'[r].status = run[r].status /\ run'[r].cancel = run[r].cancel
      BY <1>2, <2>6, SaveCases
    <2>8. ~Ends(r)
      BY <2>6 DEF Ends
    <2>. QED
      BY <1>1, <2>2, <2>7, <2>8 DEF ActiveAtWork
  <1>3. CASE CreateRun /\ thread.op = r
    BY <1>3 DEF CreateRun, NewRun, NoRun, TypeOK
  <1>4. CASE ~(WriteRunState /\ RunOf(thread.op) = r) /\ ~(CreateRun /\ thread.op = r)
    <2>1. /\ run'[r].status = run[r].status /\ run'[r].cancel = run[r].cancel
          /\ run[r].attempts = 0
      <3>1. CASE WriteRunState
        BY <1>4, <3>1 DEF WriteRunState, TypeOK
      <3>2. CASE ~WriteRunState
        BY <1>4, <3>2, RecordKept DEF SameRecord
      <3>. QED
        BY <3>1, <3>2
    <2>2. ~Ends(r)
      <3>. SUFFICES ASSUME Ends(r)
                    PROVE  FALSE
        OBVIOUS
      <3>1. ~Free /\ thread.op = r
        BY DEF Ends, Free
      <3>2. ~UNCHANGED vars
        BY DEF vars, Ends
      <3>3. WriteOperation /\ thread.job \in {"finalize", "fail", "publish"}
        <4>1. ~WriteRunState /\ ~CreateRun
          BY <1>1, <1>4, <3>1
        <4>2. WriteOperation
          BY <3>1, <3>2, <4>1, SegmentOnly DEF Unhurt, Bind, TakeOver, Reply, Ends
        <4>. QED
          BY <4>2 DEF WriteOperation, Ends, SegmentShape, PersistJobs
      <3>4. UNCHANGED queue
        BY <3>3 DEF WriteOperation
      <3>5. \/ thread.job = "finalize" /\ thread' = [thread EXCEPT !.phase = Following(thread.phase), !.torn = FALSE]
            \/ thread' = Idle /\ task' = [task EXCEPT ![r] = Parked]
        BY <3>1, <3>3, WriteOperationCases DEF SegmentShape
      <3>6. CASE thread' = [thread EXCEPT !.phase = Following(thread.phase), !.torn = FALSE]
        <4>1. thread'.job = thread.job /\ thread'.op = r
          BY <1>0, <3>1, <3>6 DEF ThreadType
        <4>. QED
          BY <3>3, <4>1 DEF Ends
      <3>7. CASE thread' = Idle /\ task' = [task EXCEPT ![r] = Parked]
        <4>1. thread'.job = "idle" /\ task'[r].pc = "none"
          BY <1>0, <3>7 DEF TypeOK, Idle, Parked
        <4>2. r \notin Queued'
          BY <3>1, <3>4 DEF QueuedOnce, Queued
        <4>. QED
          BY <4>1, <4>2 DEF Working
      <3>. QED
        BY <3>5, <3>6, <3>7
    <2>. QED
      BY <1>1, <2>1, <2>2 DEF ActiveAtWork
  <1>. QED
    BY <1>2, <1>3, <1>4

\* The second half of a save brings the operation up to its Run.
LEMMA SavedTwice ==
  ASSUME TypeOK, JobsFit, SegmentUncancelled, PublishesGated, SegmentShape, LoopIsCounted,
         HalfSaved, ActiveAtWork, WriteOperation, NEW r \in Runs, RunOf(thread.op) = r,
         run[r].attempts = 0, ops'[r].status = OperationStatus
  PROVE  Agreed(r)' \/ Saving(r)'
  <1>0. thread \in ThreadType /\ UNCHANGED run /\ thread.torn
    BY DEF TypeOK, WriteOperation
  <1>1. thread.job \in PersistJobs \ {"loop", "revive"}
    BY <1>0 DEF SegmentShape, LoopIsCounted
  <1>2. CASE thread.job = "walk"
    <2>1. thread.op = r /\ ~run[r].cancel /\ run[r].phase = thread.phase
      BY <1>0, <1>2 DEF JobsFit, RunOf, SegmentUncancelled, HalfSaved
    <2>2. Working(r) /\ ~Ends(r)
      BY <1>2, <2>1 DEF Working, Ends
    <2>3. run[r].status = "ACTIVE"
      BY <2>1, <2>2 DEF ActiveAtWork
    <2>4. OperationStatus = IF thread.phase = "GATED" THEN "COMPLETED" ELSE "RUNNING"
      BY <1>2 DEF OperationStatus
    <2>. QED
      BY <1>0, <2>1, <2>3, <2>4 DEF Agreed
  <1>3. CASE thread.job = "fail"
    <2>1. run[r].status = "FAILED"
      BY <1>0, <1>3 DEF HalfSaved
    <2>2. OperationStatus = "FAILED"
      BY <1>3 DEF OperationStatus
    <2>. QED
      BY <1>0, <2>1, <2>2 DEF Agreed
  <1>4. CASE thread.job = "publish" \/ (thread.job = "finalize" /\ thread.phase = "GATED")
    <2>1. run[r].status = "COMPLETED"
      BY <1>0, <1>4 DEF HalfSaved
    <2>2. OperationStatus = "COMPLETED"
      BY <1>4 DEF OperationStatus, PublishesGated
    <2>. QED
      BY <1>0, <2>1, <2>2 DEF Agreed
  <1>5. CASE thread.job = "finalize" /\ thread.phase # "GATED"
    <2>1. thread' = [thread EXCEPT !.phase = Following(thread.phase), !.torn = FALSE]
      BY <1>5, WriteOperationCases
    <2>2. thread'.job = "finalize" /\ thread'.op = thread.op
      BY <1>0, <1>5, <2>1 DEF ThreadType
    <2>3. RunOf(thread.op)' = r
      <3>1. \A o \in Ops : ops'[o].target = ops[o].target
        BY SegmentTouches DEF Touches
      <3>. QED
        BY <1>0, <2>2, <3>1 DEF RunOf, ThreadType
    <2>. QED
      BY <2>2, <2>3 DEF Saving
  <1>. QED
    BY <1>1, <1>2, <1>3, <1>4, <1>5 DEF PersistJobs

LEMMA AgreeStep ==
  ASSUME TypeOK, JobsFit, AttemptsLeft, SegmentUncancelled, PublishesGated, TargetsAccepted,
         SegmentShape, CreatedThenBound, LoopIsCounted, HalfSaved, ActiveAtWork, RecordsAgree,
         [Next]_vars, Unhurt
  PROVE  RecordsAgree'
  <1>0. thread \in ThreadType /\ thread.op \in Ops /\ Runs \subseteq Ops
    BY DEF TypeOK, ThreadType, Ops
  <1>. SUFFICES ASSUME NEW r \in Runs, ops'[r].bound, run'[r].attempts = 0
                PROVE  Agreed(r)' \/ Saving(r)'
    BY DEF RecordsAgree
  <1>1. ~(CreateRun /\ thread.op = r)
    <2>1. ASSUME CreateRun, thread.op = r
          PROVE  ~ops'[r].bound
      BY <2>1 DEF CreateRun, CreatedThenBound
    <2>. QED
      BY <2>1
  <1>2. run[r].attempts = 0
    BY <1>1, Counted
  <1>3. CASE WriteRunState /\ RunOf(thread.op) = r
    <2>1. /\ thread'.job = thread.job /\ thread'.op = thread.op /\ thread'.torn
          /\ thread.job \in PersistJobs /\ RunOf(thread.op)' = r
      BY <1>0, <1>3 DEF WriteRunState, ThreadType, RunOf
    <2>. QED
      BY <2>1 DEF Saving
  <1>4. CASE WriteOperation /\ RunOf(thread.op) = r
    <2>1. ops'[r].status = OperationStatus
      <3>. DEFINE status == OperationStatus
      <3>1. ops' = [ops EXCEPT ![RunOf(thread.op)].status = status]
        BY <1>4 DEF WriteOperation
      <3>. HIDE DEF status
      <3>2. ops'[r].status = status
        BY <1>0, <1>4, <3>1 DEF TypeOK
      <3>. QED
        BY <3>2 DEF status
    <2>. QED
      BY <1>2, <1>4, <2>1, SavedTwice
  <1>5. CASE ~((WriteRunState \/ WriteOperation) /\ RunOf(thread.op) = r)
    <2>1. run'[r].phase = run[r].phase /\ run'[r].status = run[r].status
      <3>1. CASE WriteRunState
        BY <1>5, <3>1 DEF WriteRunState, TypeOK
      <3>2. CASE ~WriteRunState
        BY <1>1, <3>2, RecordKept DEF SameRecord
      <3>. QED
        BY <3>1, <3>2
    <2>2. CASE ops'[r] = ops[r]
      <3>1. CASE Agreed(r)
        BY <2>1, <2>2, <3>1 DEF Agreed
      <3>2. CASE Saving(r)
        <4>1. ~Free /\ thread.job \in PersistJobs
          BY <3>2 DEF Saving, Free, PersistJobs
        <4>2. UNCHANGED vars
          BY <1>5, <3>2, <4>1, SegmentOnly
             DEF Unhurt, CreateRun, Bind, TakeOver, Reply, PersistJobs, Saving
        <4>. QED
          BY <3>2, <4>2 DEF vars, Saving, RunOf
      <3>. QED
        BY <1>2, <2>2, <3>1, <3>2 DEF RecordsAgree
    <2>3. CASE AcceptAudit(r) /\ ops'[r].bound = ops[r].bound
      BY <1>0, <2>3 DEF AcceptAudit, TargetsAccepted
    <2>4. CASE Bind /\ thread.op = r /\ ops'[r].bound /\ ops'[r].status = "RUNNING"
      BY <2>1, <2>4 DEF Bind, CreatedThenBound, Agreed
    <2>. QED
      BY <1>5, <2>2, <2>3, <2>4, OperationKept
  <1>. QED
    BY <1>3, <1>4, <1>5

--------------------------------------------------------------------------------
(***************************************************************************)
(* The answers.                                                            *)
(***************************************************************************)

\* The process neither dies nor restarts its server, and what it writes is written.
Reliable == Faults \subseteq {"close"}

LEMMA InitAnswer == Init => AnswerInv
  <1>. SUFFICES ASSUME Init
                PROVE  AnswerInv
    OBVIOUS
  <1>1. /\ thread.job = "idle" /\ ~thread.torn /\ Queued = {}
        /\ \A o \in Ops : task[o].pc = "none" /\ ~ops[o].bound
        /\ \A r \in Runs : run[r].status = "NONE"
    BY DEF Init, Idle, Queued, Parked, NoRun
  <1>2. \A r \in Runs : r \in Ops /\ ~Busy(r) /\ ~Working(r)
    BY <1>1 DEF Busy, Working, Free, Ops
  <1>3. SegmentShape /\ HalfSaved /\ GivesUpIdle
    BY <1>1 DEF SegmentShape, HalfSaved, GivesUpIdle
  <1>4. CreatedThenBound /\ LoopIsCounted
    BY <1>1, <1>2 DEF CreatedThenBound, LoopIsCounted
  <1>5. PhasesKnown /\ ActiveAtWork /\ RecordsAgree
    BY <1>1, <1>2 DEF PhasesKnown, ActiveAtWork, RecordsAgree
  <1>. QED
    BY <1>3, <1>4, <1>5, InitWriter DEF AnswerInv

LEMMA NextAnswer ==
  ASSUME Reliable, AnswerInv, [Next]_vars
  PROVE  AnswerInv'
  <1>. USE DEF AnswerInv
  <1>0. /\ TypeOK /\ JobsFit /\ AttemptsLeft /\ Accepted /\ QueuedOnce /\ SegmentUncancelled
        /\ CancelRecorded /\ PublishesGated /\ TargetsAccepted
        /\ up # "down" /\ WorkIsHeld /\ BoundExists
    BY DEF WriterInv, OutcomeInv, Inv
  <1>1. Unhurt
    BY <1>0 DEF Reliable, Unhurt, Start, Stop, Crash, StorageFails
  <1>2. WriterInv'
    BY NextWriter DEF Reliable, Undisturbed
  <1>3. SegmentShape' /\ CreatedThenBound' /\ LoopIsCounted'
    BY <1>0, <1>1, ShapeStep, CreatedStep, CountedStep
  <1>4. PhasesKnown' /\ HalfSaved'
    BY <1>0, <1>1, PhasesStep, HalfSavedStep
  <1>5. GivesUpIdle' /\ ActiveAtWork'
    BY <1>0, <1>1, GivesUpStep, ActiveStep
  <1>6. RecordsAgree'
    BY <1>0, <1>1, AgreeStep
  <1>. QED
    BY <1>2, <1>3, <1>4, <1>5, <1>6

\* What the tools say about a Run that is bound, in terms of its two records.
LEMMA AnswersFollow == AnswerInv => AnswersAgree
  <1>. SUFFICES ASSUME AnswerInv, NEW r \in Runs, Free, Known(r), run[r].attempts = 0
                PROVE  LET operation == OperationStatusAnswer(r, TRUE)
                           status    == RunStatusAnswer(r, TRUE)
                           result    == RunResultAnswer(r, TRUE)
                           explained == ExplainAnswer(r, TRUE)
                       IN  /\ (result.kind = "failed") <=> (operation.status = "FAILED")
                           /\ result.kind = "ok" =>
                                /\ operation.status = "COMPLETED"
                                /\ status.gate = result.gate /\ explained.gate = result.gate
                           /\ ~status.poll =>
                                \/ OperationResultAnswer(r, TRUE).kind = "ok"
                                \/ operation.status = "FAILED"
                           /\ status.poll => result = [kind |-> "not_ready"]
    BY DEF AnswersAgree
  <1>. DEFINE rec       == run[r]
              op        == ops[r].status
              over      == TerminalRun(r)
              operation == OperationStatusAnswer(r, TRUE)
              outcome   == OperationResultAnswer(r, TRUE)
              status    == RunStatusAnswer(r, TRUE)
              result    == RunResultAnswer(r, TRUE)
              explained == ExplainAnswer(r, TRUE)
  <1>. SUFFICES /\ (result.kind = "failed") <=> (operation.status = "FAILED")
                /\ result.kind = "ok" =>
                     /\ operation.status = "COMPLETED"
                     /\ status.gate = result.gate /\ explained.gate = result.gate
                /\ ~status.poll => outcome.kind = "ok" \/ operation.status = "FAILED"
                /\ status.poll => result = [kind |-> "not_ready"]
    OBVIOUS
  <1>1. /\ rec.phase \in Phases /\ rec.status \in {"ACTIVE", "COMPLETED", "FAILED"}
        /\ rec.gate \in Gates \cup {"null"} /\ op \in Statuses \ {"NONE"}
    <2>1. /\ rec.phase \in Phases \cup {"NONE"} /\ (rec.status # "NONE" => rec.phase # "NONE")
          /\ rec.status \in {"NONE", "ACTIVE", "COMPLETED", "FAILED"}
          /\ rec.gate \in Gates \cup {"null"} /\ op \in Statuses
      BY DEF AnswerInv, WriterInv, OutcomeInv, Inv, TypeOK, RunType, PhasesKnown, Ops
    <2>2. rec.status # "NONE" /\ op # "NONE"
      BY DEF AnswerInv, WriterInv, OutcomeInv, BoundExists, TargetsAccepted, Known, Ops
    <2>. QED
      BY <2>1, <2>2
  <1>2. Agreed(r)
    BY DEF AnswerInv, RecordsAgree, Known, Saving, Free, PersistJobs
  <1>3. /\ over \in BOOLEAN
        /\ over <=> (rec.phase = "GATED" \/ rec.status \in {"COMPLETED", "FAILED"})
    BY DEF TerminalRun, Terminal
  <1>4. /\ op = "FAILED" <=> rec.status = "FAILED"
        /\ over => op = "COMPLETED" \/ rec.status = "FAILED"
    BY <1>2, <1>3 DEF Agreed
  <1>5. /\ Shown(rec.gate) \in Gates \cup {"absent"}
        /\ rec.gate # "null" => Shown(rec.gate) = rec.gate /\ rec.gate \in Gates
    BY <1>1 DEF Shown
  <1>6. operation = [kind |-> "ok", status |-> op]
    BY <1>1 DEF OperationStatusAnswer, Handled, OperationStatusUnion
  <1>7. op = "COMPLETED" => outcome = [kind |-> "ok"]
    BY DEF OperationResultAnswer, Handled, OperationResultUnion
  <1>8. status = [ kind |-> "ok", phase |-> rec.phase, status |-> rec.status,
                   gate |-> Shown(rec.gate), poll |-> ~over ]
    BY <1>1, <1>3, <1>5 DEF RunStatusAnswer, Handled, RunStatusUnion
  <1>9. explained = [kind |-> "ok", gate |-> Shown(rec.gate)]
    BY <1>5 DEF ExplainAnswer, Handled, ExplanationUnion
  <1>10. /\ rec.status = "FAILED" => result = [kind |-> "failed"]
         /\ rec.status # "FAILED" /\ rec.phase # "GATED" => result = [kind |-> "not_ready"]
         /\ rec.status # "FAILED" /\ rec.phase = "GATED" /\ rec.gate # "null" =>
              result = [kind |-> "ok", gate |-> rec.gate]
    BY <1>5 DEF RunResultAnswer, Handled, RunResultUnion
  <1>11. rec.status # "FAILED" /\ rec.phase = "GATED" /\ rec.gate = "null" =>
           result = [kind |-> "error", code |-> "INTERNAL_CONTRACT_VIOLATION"]
    <2>1. [kind |-> "ok", gate |-> "null"] \notin RunResultUnion
      BY DEF RunResultUnion, Errors, Gates
    <2>. QED
      BY <2>1 DEF RunResultAnswer, Handled, Error
  <1>. HIDE DEF rec, op, over, operation, outcome, status, result, explained
  <1>12. operation.status = op /\ (op = "COMPLETED" => outcome.kind = "ok")
    BY <1>6, <1>7
  <1>13. status.gate = Shown(rec.gate) /\ explained.gate = Shown(rec.gate)
    BY <1>8, <1>9
  <1>14. status.poll = ~over
    BY <1>8
  <1>15. CASE rec.status = "FAILED"
    <2>1. over /\ result.kind = "failed"
      BY <1>3, <1>10, <1>15
    <2>. QED
      BY <1>4, <1>12, <1>14, <1>15, <2>1
  <1>16. CASE rec.status # "FAILED" /\ rec.phase # "GATED"
    <2>1. result = [kind |-> "not_ready"] /\ result.kind = "not_ready"
      BY <1>10, <1>16
    <2>2. over => outcome.kind = "ok"
      BY <1>4, <1>12, <1>16
    <2>. QED
      BY <1>4, <1>12, <1>14, <1>16, <2>1, <2>2
  <1>17. CASE rec.status # "FAILED" /\ rec.phase = "GATED"
    <2>1. over /\ op = "COMPLETED" /\ outcome.kind = "ok" /\ status.poll = FALSE
      BY <1>3, <1>4, <1>12, <1>14, <1>17
    <2>2. result.kind \in {"ok", "error"}
      BY <1>10, <1>11, <1>17
    <2>3. result.kind = "ok" => result.gate = rec.gate /\ rec.gate # "null"
      BY <1>10, <1>11, <1>17
    <2>. QED
      BY <1>5, <1>12, <1>13, <2>1, <2>2, <2>3
  <1>. QED
    BY <1>15, <1>16, <1>17

\* The query tools of the control plane never contradict each other about a Run that was
\* not taken over: between two segments the operation is FAILED exactly when the Run is,
\* and COMPLETED as soon as the Run is over, although each save writes two files, several
\* handlers save the same Run, and a cancellation overtakes the execution.
THEOREM ToolsAgree == ASSUME Reliable PROVE Spec => []AnswersAgree
  <1>1. AnswerInv /\ [Next]_vars => AnswerInv'
    BY NextAnswer
  <1>. QED
    BY <1>1, InitAnswer, AnswersFollow, PTL DEF Spec
--------------------------------------------------------------------------------
(***************************************************************************)
(* The contract of a Run that nobody takes over: the invariant.            *)
(***************************************************************************)

\* No resume_run, and no run_audit, has taken a Run over.
Untaken == \A r \in Runs : run[r].attempts = 0

\* The phases a Run rests in between two segments, until it is GATED.
Resting == {"CREATED", "TARGET_READY", "DISCOVERED", "COVERAGE_DERIVED", "RUNNING"}

\* A Run that is not accepted, or just about to be created, is none.
Uncreated ==
  \A r \in Runs :
    ops[r].status = "NONE" \/ (thread.op = r /\ thread.job = "create") =>
      run[r].phase = "NONE" /\ run[r].status = "NONE" /\ run[r].gate = "null"

\* A Run with a gate is over.
GateEnds == \A r \in Runs : run[r].gate # "null" => run[r].status \in Terminal

\* The await a handler is suspended at tells the phase of its Run.
AwaitFits(t, rec) ==
  /\ t.pc = "open" => rec.phase = "TARGET_READY"
  /\ t.pc = "coverage" => rec.phase = "DISCOVERED"
  /\ t.pc = "planner" => rec.phase = "COVERAGE_DERIVED"
  /\ t.pc = "runner" => rec.phase = "RUNNING"
  /\ t.pc = "close" => rec.status = "ACTIVE" /\ (rec.phase = "GATED" <=> t.arg \notin FailureKinds)

\* So it does for a Run that is not cancelled, and one that is queued is CREATED.
HandlerFits ==
  \A r \in Runs :
    ~run[r].cancel =>
      /\ r \in Queued \/ (thread.op = r /\ thread.job = "bind") => run[r].phase = "CREATED"
      /\ Free \/ thread.op # r => AwaitFits(task[r], run[r])

\* What a handler rethrows after the close is what the slice threw.
ThrownFits ==
  \A o \in Ops : task[o].pc = "close" /\ task[o].arg \in FailureKinds => task[o].arg \in Failures

\* Between two segments a Run rests.
Rests ==
  \A r \in Runs :
    run[r].status # "NONE" =>
      \/ run[r].phase \in Resting \cup {"GATED"}
      \/ RunOf(thread.op) = r /\ thread.job \in {"walk", "finalize"}

\* Each save of a segment is a transition of the table, on a Run that is not over.
SavesFit ==
  LET rec == run[RunOf(thread.op)]
  IN  /\ thread.job \in {"walk", "finalize"} /\ thread.torn => rec.phase = thread.phase
      /\ thread.job \in {"walk", "finalize"} /\ ~thread.torn =>
           <<rec.phase, thread.phase>> \in Transitions
      /\ thread.job = "finalize" /\ ~(thread.torn /\ thread.phase = "GATED") =>
           rec.status = "ACTIVE"
      /\ thread.job \in {"fail", "publish"} /\ ~thread.torn => rec.status = "ACTIVE"
      /\ thread.job = "publish" => rec.phase = "GATED" /\ thread.gate \in Gates

\* No resume_run finalizes a Run before it was taken over.
NoneGivesUp == thread.job = "finalize" => thread.op \notin Resumes

\* A cancelled Run is GATED, or becomes it in the segment in progress.
CancelGates ==
  \A r \in Runs :
    run[r].cancel =>
      /\ Cancels # {}
      /\ run[r].phase = "GATED" \/ (RunOf(thread.op) = r /\ thread.job = "finalize")

ContractInv ==
  /\ AnswerInv
  /\ Uncreated
  /\ GateEnds
  /\ HandlerFits
  /\ ThrownFits
  /\ Rests
  /\ SavesFit
  /\ NoneGivesUp
  /\ CancelGates

\* A cancelled Run is not ended once more by what its handler throws afterwards: an
\* infrastructure failure leaves a GATED Run alone, the other two do not.
EndsOnce == Failures \subseteq {"INFRASTRUCTURE"} \/ Cancels = {}

--------------------------------------------------------------------------------
(***************************************************************************)
(* The steps that save nothing, while nobody takes a Run over.             *)
(***************************************************************************)

\* The handler of r goes on with the segment that commits p.
GoesTo(r, p) ==
  \/ r \in Queued /\ p = "TARGET_READY"
  \/ task[r].pc = "open" /\ p = "SEED_RESOLVED"
  \/ task[r].pc = "coverage" /\ p = "COVERAGE_DERIVED"
  \/ task[r].pc = "planner" /\ p = "PLAN_FILLED"
  \/ task[r].pc = "runner" /\ p = "EXECUTION_FINISHED"

\* execute() throws e at the handler of r.
Raises(r, e) ==
  \/ e \in Failures \ {"PLAN_DEFECT"} /\ task[r].pc \in {"open", "close"}
  \/ e \in FailureKinds /\ task[r].pc = "close" /\ task[r].arg = e

\* One await of the handler of r settles, or its turn in the queue has come.
HandlerStep(r) ==
  /\ Free
  /\ \/ \E p \in Phases, g \in Gates \cup {"null"} : GoesTo(r, p) /\ Walk(r, p, g)
     \/ \E e : Raises(r, e) /\ Catch(r, e)
     \/ \E e \in Failures :
          /\ task[r].pc \in {"coverage", "planner", "runner"} /\ thread' = Idle
          /\ task' = [task EXCEPT ![r] = [pc |-> "close", arg |-> e]]
     \/ \E g \in Gates :
          /\ task[r].pc = "close" /\ task[r].arg = g /\ ~run[r].cancel
          /\ UNCHANGED task
          /\ thread' = Segment("publish", r, "GATED", g, "none")

\* A cancel_run that is not refused.
CancelBegins(o) ==
  /\ Free /\ o \in Queued /\ UNCHANGED task
  /\ run[RunOf(o)].phase # "GATED" /\ run[RunOf(o)].status \notin Terminal
  /\ thread' = Segment("finalize", o, "TERMINALIZING", "incomplete", "COMPLETED")

\* Nothing that any save depends on.
QuietStep ==
  /\ thread'.job \in {"idle", "create", "bind", "takeover", "revive", "reply"}
  /\ \A o \in Ops : task'[o] = task[o] \/ task'[o].pc = "none"

LEMMA PrepareUntaken ==
  ASSUME TypeOK, NEW o \in Ops, run[RunOf(o)].attempts = 0, MaxResumeAttempts > 0,
         PrepareResume(o)
  PROVE  thread'.job \in {"takeover", "reply", "idle"}
  <1>1. run[RunOf(o)].attempts < MaxResumeAttempts /\ ~(run[RunOf(o)].attempts >= MaxResumeAttempts)
    BY ParameterAssumption
  <1>. QED
    BY <1>1 DEF PrepareResume, Segment, Idle

\* Nobody sleeps in the resume loop, or is in it.
LEMMA UntakenJobs ==
  ASSUME TypeOK, JobsFit, SegmentShape, LoopIsCounted, Untaken
  PROVE  /\ thread.job # "loop" /\ ~(thread.job = "revive" /\ thread.torn)
         /\ thread.job = "publish" => thread.op \in Runs
         /\ \A o \in Ops : task[o].pc # "sleep"
  <1>1. \A o \in Ops : RunOf(o) \in Runs
    BY RunOfType
  <1>2. \A o \in Ops : ~(run[RunOf(o)].attempts > 0)
    BY <1>1 DEF Untaken
  <1>3. thread.op \in Ops
    BY DEF TypeOK, ThreadType
  <1>. QED
    BY <1>2, <1>3 DEF LoopIsCounted, JobsFit

LEMMA OtherSteps ==
  ASSUME TypeOK, JobsFit, SegmentShape, LoopIsCounted, Untaken, MaxResumeAttempts > 0,
         Unhurt, Next, ~WriteRunState, ~WriteOperation, ~CreateRun
  PROVE  \/ QuietStep
         \/ \E r \in Runs : HandlerStep(r)
         \/ \E o \in Cancels : CancelBegins(o)
  <1>0. /\ thread \in ThreadType /\ task \in [Ops -> TaskType] /\ Runs \subseteq Ops
        /\ Resumes \subseteq Ops
    BY DEF TypeOK, Ops
  <1>1. CASE Bind \/ TakeOver \/ Reply
    BY <1>0, <1>1 DEF Bind, TakeOver, Reply, EndTask, Park, Idle, ThreadType, QuietStep
  <1>2. CASE Tick
    <2>. DEFINE o == Head(queue)
    <2>0. o \in Ops /\ o \in Queued /\ Free
      BY <1>2, TickTouches
    <2>. HIDE DEF o
    <2>1. ASSUME PrepareResume(o), UNCHANGED task
          PROVE  QuietStep
      <3>1. run[RunOf(o)].attempts = 0
        BY <2>0, RunOfType DEF Untaken
      <3>. QED
        BY <2>0, <2>1, <3>1, PrepareUntaken DEF QuietStep
    <2>2. ASSUME NEW reply, thread' = Segment("reply", o, "NONE", "null", reply), UNCHANGED task
          PROVE  QuietStep
      BY <2>2 DEF Segment, QuietStep
    <2>3. ASSUME o \in Runs, Walk(o, "TARGET_READY", "null")
          PROVE  HandlerStep(o)
      BY <2>0, <2>3, Zenon DEF HandlerStep, GoesTo, Phases, BranchAfter
    <2>4. ASSUME o \in Cancels, UNCHANGED task,
                 run[RunOf(o)].phase # "GATED" /\ run[RunOf(o)].status \notin Terminal,
                 thread' = Segment("finalize", o, "TERMINALIZING", "incomplete", "COMPLETED")
          PROVE  CancelBegins(o)
      BY <2>0, <2>4 DEF CancelBegins
    <2>. QED
      BY <1>2, <2>1, <2>2, <2>3, <2>4, TickCases, Zenon DEF o
  <1>3. ASSUME NEW r \in Runs, OfRun(r)
        PROVE  QuietStep \/ HandlerStep(r)
    <2>1. CASE AcceptAudit(r) \/ Age(r)
      BY <2>1 DEF AcceptAudit, Age, Segment, Free, QuietStep
    <2>2. CASE Opened(r) \/ Derived(r) \/ Filled(r)
      BY <2>2, Zenon DEF Opened, Derived, Filled, HandlerStep, GoesTo, Phases, BranchAfter
    <2>3. ASSUME NEW g \in Verdicts, Executed(r, g)
          PROVE  HandlerStep(r)
      <3>1. g \in Gates \cup {"null"} /\ "EXECUTION_FINISHED" \in Phases
        BY ParameterAssumption DEF Phases, BranchAfter
      <3>. QED
        BY <2>3, <3>1, Zenon DEF Executed, HandlerStep, GoesTo
    <2>4. CASE Closed(r)
      <3>1. ASSUME EndTask(r)
            PROVE  QuietStep
        BY <1>0, <3>1 DEF EndTask, Park, Idle, QuietStep
      <3>2. ASSUME task[r].arg \in FailureKinds, Catch(r, task[r].arg)
            PROVE  HandlerStep(r)
        BY <2>4, <3>2, Zenon DEF Closed, HandlerStep, Raises
      <3>3. ASSUME task[r].arg \in Gates, ~run[r].cancel, UNCHANGED task,
                   thread' = Segment("publish", r, "GATED", task[r].arg, "none")
            PROVE  HandlerStep(r)
        BY <2>4, <3>3, Zenon DEF Closed, HandlerStep
      <3>. QED
        BY <2>4, <3>1, <3>2, <3>3, Zenon DEF Closed
    <2>5. ASSUME NEW e \in Failures, AwaitFails(r, e)
          PROVE  HandlerStep(r)
      <3>1. CASE task[r].pc \in {"coverage", "planner", "runner"} /\ Park(r, "close", e)
        BY <2>5, <3>1, Zenon DEF AwaitFails, Park, HandlerStep
      <3>2. CASE task[r].pc \in {"open", "close"} /\ Catch(r, e)
        <4>1. e \in Failures \ {"PLAN_DEFECT"}
          BY <2>5, <3>2 DEF AwaitFails
        <4>. QED
          BY <2>5, <3>2, <4>1, Zenon DEF AwaitFails, Raises, HandlerStep
      <3>. QED
        BY <2>5, <3>1, <3>2, Zenon DEF AwaitFails
    <2>. QED
      BY <1>3, <2>1, <2>2, <2>3, <2>4, <2>5, Zenon DEF OfRun
  <1>4. ASSUME NEW o \in Resumes \cup Cancels, NEW r \in Runs, AcceptTarget(o, r)
        PROVE  QuietStep
    BY <1>4 DEF AcceptTarget, Segment, QuietStep
  <1>5. ASSUME NEW o \in Resumes, Woken(o)
        PROVE  FALSE
    BY <1>0, <1>5, UntakenJobs DEF Woken
  <1>. QED
    BY <1>1, <1>2, <1>3, <1>4, <1>5, NextCases, Zenon DEF Unhurt

\* Which segments save, while nobody takes a Run over.
LEMMA UntakenSaves ==
  ASSUME TypeOK, JobsFit, AttemptsLeft, SegmentShape, LoopIsCounted, Untaken, Untaken'
  PROVE  WriteRunState \/ WriteOperation => thread.job \in {"walk", "finalize", "fail", "publish"}
  <1>0. thread.op \in Ops /\ RunOf(thread.op) \in Runs
    BY RunOfType DEF TypeOK, ThreadType
  <1>1. CASE WriteRunState
    <2>1. [Next]_vars /\ ~CreateRun
      BY <1>1 DEF Next, Proceed, WriteRunState, CreateRun, PersistJobs
    <2>2. run'[RunOf(thread.op)].attempts = 0
      BY <1>0 DEF Untaken
    <2>3. thread.job # "revive"
      BY <1>0, <1>1, <2>1, <2>2, Counted
    <2>. QED
      BY <1>1, <2>3, UntakenJobs DEF WriteRunState, PersistJobs
  <1>2. CASE WriteOperation
    BY <1>2, UntakenJobs DEF WriteOperation, SegmentShape, PersistJobs
  <1>. QED
    BY <1>1, <1>2

\* A save that leaves its Run uncancelled is one of its own handler.
LEMMA OwnSave ==
  ASSUME TypeOK, JobsFit, AttemptsLeft, SegmentShape, LoopIsCounted, NoneGivesUp,
         CancelRecorded', Untaken, Untaken', WriteRunState,
         NEW r \in Runs, RunOf(thread.op) = r, ~run'[r].cancel
  PROVE  thread.op = r
  <1>0. thread \in ThreadType /\ thread.op \in Ops
    BY DEF TypeOK, ThreadType
  <1>1. thread.job \in {"walk", "finalize", "fail", "publish"}
    BY UntakenSaves
  <1>2. CASE thread.op \in Runs
    BY <1>2 DEF RunOf
  <1>3. CASE thread.op \notin Runs
    <2>1. thread.job = "finalize" /\ thread.op \in Cancels
      BY <1>0, <1>1, <1>3, UntakenJobs DEF JobsFit, NoneGivesUp, Ops
    <2>2. /\ thread'.op = thread.op /\ thread'.job = "finalize" /\ thread'.torn
          /\ RunOf(thread.op)' = r
      BY <1>0, <2>1 DEF WriteRunState, ThreadType, RunOf
    <2>. QED
      BY <2>1, <2>2 DEF CancelRecorded
  <1>. QED
    BY <1>2, <1>3

LEMMA UncreatedStep ==
  ASSUME TypeOK, JobsFit, AttemptsLeft, SegmentShape, Accepted, TargetsAccepted, Uncreated,
         [Next]_vars, Unhurt
  PROVE  Uncreated'
  <1>0. /\ thread \in ThreadType /\ thread.op \in Ops /\ RunOf(thread.op) \in Runs
        /\ Runs \subseteq Ops
    BY RunOfType DEF TypeOK, ThreadType, Ops
  <1>. SUFFICES ASSUME NEW r \in Runs,
                       ops'[r].status = "NONE" \/ (thread'.op = r /\ thread'.job = "create")
                PROVE  run'[r].phase = "NONE" /\ run'[r].status = "NONE" /\ run'[r].gate = "null"
    BY DEF Uncreated
  <1>1. ops[r].status = "NONE" \/ (thread.op = r /\ thread.job = "create")
    <2>1. CASE ops'[r].status = "NONE"
      BY <1>0, <2>1, TargetsKept
    <2>2. CASE thread'.op = r /\ thread'.job = "create"
      <3>1. CASE WriteRunState
        BY <1>0, <2>2, <3>1 DEF WriteRunState, ThreadType, PersistJobs
      <3>2. CASE WriteOperation
        BY <2>2, <3>2, GoesOn
      <3>3. CASE Next /\ ~WriteRunState /\ ~WriteOperation
        BY <2>2, <3>3, Opens DEF AcceptAudit
      <3>4. CASE UNCHANGED vars
        BY <2>2, <3>4 DEF vars
      <3>. QED
        BY <3>1, <3>2, <3>3, <3>4
    <2>. QED
      BY <2>1, <2>2
  <1>2. ~Free => ops[RunOf(thread.op)].status # "NONE"
    <2>1. ~Free => ops[thread.op].status # "NONE"
      BY <1>0 DEF Accepted, Busy
    <2>. QED
      BY <1>0, <2>1 DEF RunOf, TargetsAccepted, Ops
  <1>3. CASE WriteRunState
    <2>1. RunOf(thread.op) # r
      BY <1>1, <1>2, <1>3 DEF WriteRunState, Free, PersistJobs
    <2>2. run'[r] = run[r]
      BY <1>3, <2>1 DEF WriteRunState, TypeOK
    <2>. QED
      BY <1>1, <2>2 DEF Uncreated
  <1>4. CASE CreateRun /\ thread.op = r
    <2>1. ops' = ops /\ thread'.job = "bind" /\ ops[r].status # "NONE"
      BY <1>0, <1>2, <1>4 DEF CreateRun, ThreadType, Free, RunOf
    <2>. QED
      BY <2>1
  <1>5. CASE ~WriteRunState /\ ~(CreateRun /\ thread.op = r)
    <2>1. SameRecord(run[r], run'[r])
      BY <1>5, RecordKept
    <2>. QED
      BY <1>1, <2>1 DEF Uncreated, SameRecord
  <1>. QED
    BY <1>3, <1>4, <1>5

LEMMA GateEndsStep ==
  ASSUME TypeOK, JobsFit, AttemptsLeft, SegmentShape, LoopIsCounted, GateEnds, [Next]_vars,
         Untaken, Untaken'
  PROVE  GateEnds'
  <1>. SUFFICES ASSUME NEW r \in Runs, run'[r].gate # "null"
                PROVE  run'[r].status \in Terminal
    BY DEF GateEnds
  <1>1. CASE WriteRunState /\ RunOf(thread.op) = r
    <2>1. thread.job # "revive"
      BY <1>1, UntakenSaves
    <2>. QED
      BY <1>1, <2>1, SaveCases DEF GateEnds, Terminal
  <1>2. CASE WriteRunState /\ RunOf(thread.op) # r
    BY <1>2 DEF WriteRunState, TypeOK, GateEnds
  <1>3. CASE ~WriteRunState
    BY <1>3, RecordKept DEF SameRecord, NewRun, NoRun, GateEnds
  <1>. QED
    BY <1>1, <1>2, <1>3

\* How the rest of a segment, or its end, follows a save.
LEMMA SegmentGoesOn ==
  ASSUME TypeOK, JobsFit, AttemptsLeft, SegmentShape, LoopIsCounted, Untaken, Untaken',
         WriteOperation
  PROVE  LET o == thread.op
         IN \/ /\ thread.job \in {"walk", "finalize"} /\ thread.phase # "GATED" /\ UNCHANGED task
               /\ thread' = [thread EXCEPT !.phase = Following(thread.phase), !.torn = FALSE]
            \/ /\ thread.job = "walk" /\ AwaitAfter(thread.phase) # "none" /\ thread' = Idle
               /\ task' = [task EXCEPT ![o] = [pc |-> AwaitAfter(thread.phase), arg |-> thread.gate]]
            \/ /\ thread.job = "finalize" /\ thread.phase = "GATED"
               /\ \/ thread'.job = "reply" /\ thread.reply # "none" /\ UNCHANGED task
                  \/ thread' = Idle /\ task' = [task EXCEPT ![o] = Parked]
            \/ /\ thread.job \in {"publish", "fail"} /\ thread' = Idle
               /\ task' = [task EXCEPT ![o] = Parked]
  <1>0. thread \in ThreadType /\ Idle.job = "idle"
    BY DEF TypeOK, Idle
  <1>1. thread.job \in {"walk", "finalize", "fail", "publish"}
    BY UntakenSaves
  <1>2. AwaitAfter("GATED") = "close"
    BY DEF AwaitAfter
  <1>3. thread' = [thread EXCEPT !.job = "reply", !.torn = FALSE] => thread'.job = "reply"
    BY <1>0 DEF ThreadType
  <1>. QED
    BY <1>0, <1>1, <1>2, <1>3, WriteOperationCases

LEMMA NoneGivesUpStep ==
  ASSUME TypeOK, JobsFit, AttemptsLeft, SegmentShape, LoopIsCounted, NoneGivesUp,
         Untaken, Untaken', MaxResumeAttempts > 0, [Next]_vars, Unhurt
  PROVE  NoneGivesUp'
  <1>0. thread \in ThreadType
    BY DEF TypeOK
  <1>1. CASE WriteRunState
    BY <1>0, <1>1 DEF WriteRunState, ThreadType, NoneGivesUp
  <1>2. CASE WriteOperation
    <2>1. thread.job # "revive"
      BY <1>2, UntakenSaves
    <2>2. thread'.op = thread.op \/ thread'.job = "idle"
      BY <1>2, GoesOn DEF Idle
    <2>. QED
      BY <1>2, <2>1, <2>2, GoesOn DEF NoneGivesUp
  <1>3. CASE CreateRun
    BY <1>0, <1>3 DEF CreateRun, ThreadType, NoneGivesUp
  <1>4. CASE UNCHANGED vars
    BY <1>4 DEF vars, NoneGivesUp
  <1>5. CASE QuietStep
    BY <1>5 DEF QuietStep, NoneGivesUp
  <1>6. ASSUME NEW r \in Runs, HandlerStep(r)
        PROVE  NoneGivesUp'
    <2>1. r \notin Resumes
      BY OpsAssumption
    <2>2. ASSUME NEW p, NEW g, Walk(r, p, g)
          PROVE  NoneGivesUp'
      BY <2>2, WalkCases DEF Segment, Idle, NoneGivesUp
    <2>3. ASSUME NEW e, Catch(r, e)
          PROVE  NoneGivesUp'
      BY <2>1, <2>3, CatchCases DEF Segment, Idle, NoneGivesUp
    <2>4. ASSUME NEW g, thread' = Idle \/ thread' = Segment("publish", r, "GATED", g, "none")
          PROVE  NoneGivesUp'
      BY <2>4 DEF Segment, Idle, NoneGivesUp
    <2>. QED
      BY <1>6, <2>2, <2>3, <2>4, Zenon DEF HandlerStep
  <1>7. ASSUME NEW o \in Cancels, CancelBegins(o)
        PROVE  NoneGivesUp'
    BY <1>7, OpsAssumption DEF CancelBegins, Segment, NoneGivesUp
  <1>. QED
    BY <1>1, <1>2, <1>3, <1>4, <1>5, <1>6, <1>7, OtherSteps, Zenon

--------------------------------------------------------------------------------
(***************************************************************************)
(* The invariant of the contract, part by part.                            *)
(***************************************************************************)

\* A segment stays with its Run.
LEMMA SameRun ==
  ASSUME TypeOK, JobsFit, WriteRunState \/ WriteOperation, thread'.op = thread.op
  PROVE  RunOf(thread.op)' = RunOf(thread.op)
  <1>1. thread.op \in Ops /\ \A o \in Ops : ops'[o].target = ops[o].target
    BY SegmentTouches DEF Touches, TypeOK, ThreadType
  <1>. QED
    BY <1>1 DEF RunOf

\* Only a bound operation joins the queue.
LEMMA QueuedKept ==
  ASSUME TypeOK, JobsFit, [Next]_vars, Unhurt, NEW o \in Ops, o \in Queued'
  PROVE  o \in Queued \/ (Bind /\ thread.op = o)
  <1>0. thread.op \in Ops /\ queue \in Seq(Ops)
    BY DEF TypeOK, ThreadType
  <1>1. CASE queue' = queue
    BY <1>1 DEF Queued
  <1>2. CASE Bind
    <2>1. queue' = queue \/ queue' = Append(queue, thread.op)
      BY <1>2, QueueCases
    <2>2. CASE queue' = Append(queue, thread.op)
      BY <1>0, <1>2, <2>2 DEF Queued
    <2>. QED
      BY <1>1, <2>1, <2>2
  <1>3. CASE Tick
    <2>1. queue # <<>> /\ queue' = Tail(queue)
      BY <1>3, TickCases
    <2>. QED
      BY <1>0, <2>1 DEF Queued
  <1>4. ASSUME NEW x \in Ops, NEW r \in Runs, Accepts(x, r)
        PROVE  queue' = queue
    BY <1>4 DEF Accepts
  <1>5. ASSUME (\E r \in Runs : Age(r)) \/ UNCHANGED vars
        PROVE  queue' = queue
    BY <1>5 DEF Age, vars
  <1>. QED
    BY <1>1, <1>2, <1>3, <1>4, <1>5, Footprint, Zenon DEF Unhurt

\* A handler touches no other task.
LEMMA HandlerTouches ==
  ASSUME TypeOK, NEW r \in Runs, HandlerStep(r), NEW o \in Ops, o # r
  PROVE  task'[o] = task[o]
  <1>0. task \in [Ops -> TaskType]
    BY DEF TypeOK
  <1>1. ASSUME NEW t, task' = [task EXCEPT ![r] = t]
        PROVE  task'[o] = task[o]
    BY <1>0, <1>1
  <1>2. ASSUME NEW p, NEW g, Walk(r, p, g)
        PROVE  task'[o] = task[o]
    BY <1>1, <1>2, WalkCases, Zenon
  <1>3. ASSUME NEW e, Catch(r, e)
        PROVE  task'[o] = task[o]
    BY <1>1, <1>3, CatchCases, Zenon
  <1>. QED
    BY <1>1, <1>2, <1>3, Zenon DEF HandlerStep

LEMMA ThrownStep ==
  ASSUME TypeOK, JobsFit, AttemptsLeft, SegmentShape, LoopIsCounted, ThrownFits,
         Untaken, Untaken', MaxResumeAttempts > 0, [Next]_vars, Unhurt
  PROVE  ThrownFits'
  <1>0. /\ thread \in ThreadType /\ task \in [Ops -> TaskType] /\ Runs \subseteq Ops
        /\ Parked.pc = "none"
    BY DEF TypeOK, Ops, Parked
  <1>g. \A g \in Gates \cup {"null"} : g \notin FailureKinds
    BY DEF Gates, FailureKinds
  <1>1. ASSUME \A o \in Ops : task'[o] = task[o] \/ task'[o].pc = "none"
        PROVE  ThrownFits'
    BY <1>1 DEF ThrownFits
  <1>2. ASSUME NEW o \in Ops, NEW pc, NEW arg, arg \in Failures \/ arg \notin FailureKinds,
               task' = [task EXCEPT ![o] = [pc |-> pc, arg |-> arg]]
        PROVE  ThrownFits'
    <2>1. task'[o].arg = arg /\ \A x \in Ops \ {o} : task'[x] = task[x]
      BY <1>0, <1>2
    <2>. QED
      BY <1>2, <2>1 DEF ThrownFits
  <1>3. ASSUME NEW o \in Ops, task' = [task EXCEPT ![o] = Parked]
        PROVE  ThrownFits'
    BY <1>0, <1>1, <1>3
  <1>4. CASE WriteOperation
    <2>1. thread.op \in Ops /\ thread.gate \in Gates \cup {"null"}
      BY <1>0 DEF ThreadType
    <2>2. UNCHANGED task => ThrownFits'
      BY <1>1
    <2>. QED
      BY <1>g, <1>2, <1>3, <1>4, <2>1, <2>2, SegmentGoesOn, Zenon
  <1>5. CASE WriteRunState \/ CreateRun \/ UNCHANGED vars \/ \E o \in Cancels : CancelBegins(o)
    BY <1>1, <1>5 DEF WriteRunState, CreateRun, vars, CancelBegins
  <1>6. CASE QuietStep
    BY <1>1, <1>6 DEF QuietStep
  <1>7. ASSUME NEW r \in Runs, HandlerStep(r)
        PROVE  ThrownFits'
    <2>0. r \in Ops /\ (UNCHANGED task => ThrownFits')
      BY <1>0, <1>1
    <2>1. ASSUME NEW p, NEW g \in Gates \cup {"null"}, Walk(r, p, g)
          PROVE  ThrownFits'
      <3>1. UNCHANGED task \/ task' = [task EXCEPT ![r] = [pc |-> SegmentEnd(p), arg |-> g]]
        BY <2>1, WalkCases
      <3>. QED
        BY <1>g, <1>2, <2>0, <2>1, <3>1, Zenon
    <2>2. ASSUME NEW e, Catch(r, e)
          PROVE  ThrownFits'
      BY <1>3, <2>0, <2>2, CatchCases, Zenon
    <2>. QED
      BY <1>2, <1>7, <2>0, <2>1, <2>2, Zenon DEF HandlerStep
  <1>. QED
    BY <1>4, <1>5, <1>6, <1>7, OtherSteps, Zenon

LEMMA CancelGatesStep ==
  ASSUME TypeOK, JobsFit, AttemptsLeft, PublishesGated, SegmentUncancelled, SegmentShape,
         LoopIsCounted, HalfSaved, CancelGates, Untaken, Untaken', [Next]_vars, Unhurt
  PROVE  CancelGates'
  <1>0. thread \in ThreadType
    BY DEF TypeOK
  <1>. SUFFICES ASSUME NEW r \in Runs, run'[r].cancel
                PROVE  /\ Cancels # {}
                       /\ \/ run'[r].phase = "GATED"
                          \/ RunOf(thread.op)' = r /\ thread'.job = "finalize"
    BY DEF CancelGates
  <1>1. CASE WriteRunState /\ RunOf(thread.op) = r
    <2>1. thread.job \in {"walk", "finalize", "fail", "publish"}
      BY <1>1, UntakenSaves
    <2>2. thread'.job = thread.job /\ thread'.op = thread.op /\ RunOf(thread.op)' = r
      <3>1. thread'.job = thread.job /\ thread'.op = thread.op
        BY <1>0, <1>1 DEF WriteRunState, ThreadType
      <3>. QED
        BY <1>1, <3>1, SameRun
    <2>3. CASE run[r].cancel
      <3>1. thread.job \in {"finalize", "fail"} /\ Cancels # {}
        BY <1>1, <2>1, <2>3 DEF SegmentUncancelled, CancelGates
      <3>2. thread.job = "fail" => run'[r].phase = run[r].phase
        BY <1>1, SaveCases
      <3>. QED
        BY <2>2, <2>3, <3>1, <3>2 DEF CancelGates
    <2>4. CASE ~run[r].cancel
      <3>1. thread.job = "finalize" /\ thread.phase # "GATED"
        BY <1>1, <2>1, <2>4, SaveCases
      <3>2. thread.op \in Cancels
        BY <1>1, <2>4, <3>1, SavedOwner
      <3>. QED
        BY <2>2, <3>1, <3>2
    <2>. QED
      BY <2>3, <2>4
  <1>2. CASE ~(WriteRunState /\ RunOf(thread.op) = r)
    <2>1. run[r].cancel /\ run'[r].phase = run[r].phase
      <3>1. CASE WriteRunState
        BY <1>2, <3>1 DEF WriteRunState, TypeOK
      <3>2. CASE ~WriteRunState
        BY <3>2, RecordKept DEF SameRecord, NewRun, NoRun
      <3>. QED
        BY <3>1, <3>2
    <2>2. CASE run[r].phase = "GATED"
      BY <2>1, <2>2 DEF CancelGates
    <2>3. CASE RunOf(thread.op) = r /\ thread.job = "finalize" /\ run[r].phase # "GATED"
      <3>1. WriteOperation \/ UNCHANGED vars
        BY <1>2, <2>3, SegmentOnly DEF Unhurt, Free, CreateRun, Bind, TakeOver, Reply
      <3>2. CASE WriteOperation
        <4>1. thread.phase # "GATED"
          BY <2>3, <3>2 DEF HalfSaved, WriteOperation
        <4>2. thread' = [thread EXCEPT !.phase = Following(thread.phase), !.torn = FALSE]
          BY <2>3, <3>2, <4>1, SegmentGoesOn
        <4>3. thread'.job = "finalize" /\ thread'.op = thread.op
          BY <1>0, <2>3, <4>2 DEF ThreadType
        <4>. QED
          BY <2>1, <2>3, <3>2, <4>3, SameRun DEF CancelGates
      <3>3. CASE UNCHANGED vars
        BY <2>1, <2>3, <3>3 DEF vars, RunOf, CancelGates
      <3>. QED
        BY <3>1, <3>2, <3>3
    <2>. QED
      BY <2>1, <2>2, <2>3 DEF CancelGates
  <1>. QED
    BY <1>1, <1>2

LEMMA RestsStep ==
  ASSUME TypeOK, JobsFit, AttemptsLeft, SegmentShape, LoopIsCounted, HalfSaved, SavesFit, Rests,
         Untaken, Untaken', [Next]_vars, Unhurt
  PROVE  Rests'
  <1>0. thread \in ThreadType
    BY DEF TypeOK
  <1>. SUFFICES ASSUME NEW r \in Runs, run'[r].status # "NONE"
                PROVE  \/ run'[r].phase \in Resting \cup {"GATED"}
                       \/ RunOf(thread.op)' = r /\ thread'.job \in {"walk", "finalize"}
    BY DEF Rests
  <1>1. CASE WriteRunState /\ RunOf(thread.op) = r
    <2>1. thread.job \in {"walk", "finalize", "fail", "publish"}
      BY <1>1, UntakenSaves
    <2>2. CASE thread.job \in {"walk", "finalize"}
      <3>1. thread'.job = thread.job /\ thread'.op = thread.op
        BY <1>0, <1>1 DEF WriteRunState, ThreadType
      <3>. QED
        BY <1>1, <2>2, <3>1, SameRun
    <2>3. CASE thread.job = "fail"
      <3>1. run[r].status = "ACTIVE" /\ run'[r].phase = run[r].phase
        BY <1>1, <2>3, SaveCases DEF SavesFit, WriteRunState
      <3>. QED
        BY <2>3, <3>1 DEF Rests
    <2>4. CASE thread.job = "publish"
      BY <1>1, <2>4, SaveCases
    <2>. QED
      BY <2>1, <2>2, <2>3, <2>4
  <1>2. CASE WriteRunState /\ RunOf(thread.op) # r
    BY <1>2 DEF WriteRunState, TypeOK, Rests
  <1>3. CASE CreateRun /\ run'[r] = NewRun
    BY <1>3 DEF NewRun, NoRun, Resting
  <1>4. CASE ~WriteRunState /\ SameRecord(run[r], run'[r])
    <2>1. run[r].status # "NONE" /\ run'[r].phase = run[r].phase
      BY <1>4 DEF SameRecord
    <2>2. CASE run[r].phase \in Resting \cup {"GATED"}
      BY <2>1, <2>2
    <2>3. CASE RunOf(thread.op) = r /\ thread.job \in {"walk", "finalize"}
      <3>1. WriteOperation \/ UNCHANGED vars
        BY <1>4, <2>3, SegmentOnly DEF Unhurt, Free, CreateRun, Bind, TakeOver, Reply
      <3>2. CASE WriteOperation
        <4>1. CASE thread' = [thread EXCEPT !.phase = Following(thread.phase), !.torn = FALSE]
          <5>1. thread'.job = thread.job /\ thread'.op = thread.op
            BY <1>0, <4>1 DEF ThreadType
          <5>. QED
            BY <2>3, <3>2, <5>1, SameRun
        <4>2. CASE thread.job = "walk" /\ AwaitAfter(thread.phase) # "none"
          <5>1. run[r].phase = thread.phase
            BY <2>3, <3>2, <4>2 DEF HalfSaved, WriteOperation
          <5>2. thread.phase \in Resting \cup {"GATED"}
            BY <4>2 DEF AwaitAfter, Resting
          <5>. QED
            BY <2>1, <5>1, <5>2
        <4>3. CASE thread.job = "finalize" /\ thread.phase = "GATED"
          BY <2>1, <2>3, <3>2, <4>3 DEF HalfSaved, WriteOperation
        <4>. QED
          BY <2>3, <3>2, <4>1, <4>2, <4>3, SegmentGoesOn
      <3>3. CASE UNCHANGED vars
        BY <2>3, <3>3 DEF vars, RunOf
      <3>. QED
        BY <3>1, <3>2, <3>3
    <2>. QED
      BY <2>1, <2>2, <2>3 DEF Rests
  <1>. QED
    BY <1>1, <1>2, <1>3, <1>4, RecordKept

\* What is queued, or about to be, was not begun yet.
LEMMA QueuedFitsStep ==
  ASSUME TypeOK, JobsFit, AttemptsLeft, QueuedOnce, SegmentShape, LoopIsCounted, NoneGivesUp,
         CancelRecorded', HandlerFits, Untaken, Untaken', [Next]_vars, Unhurt,
         NEW r \in Runs, ~run'[r].cancel,
         r \in Queued' \/ (thread'.op = r /\ thread'.job = "bind")
  PROVE  run'[r].phase = "CREATED"
  <1>0. thread \in ThreadType /\ r \in Ops
    BY DEF TypeOK, Ops
  <1>1. CASE CreateRun /\ thread.op = r
    BY <1>1 DEF CreateRun, TypeOK, NewRun, NoRun
  <1>2. CASE WriteRunState
    <2>1. r \in Queued
      BY <1>0, <1>2 DEF WriteRunState, ThreadType, PersistJobs, Queued
    <2>2. thread.op # r
      BY <1>0, <1>2, <2>1 DEF QueuedOnce, Free, WriteRunState, PersistJobs
    <2>3. RunOf(thread.op) # r
      BY <1>2, <2>2, OwnSave
    <2>. QED
      BY <1>2, <2>1, <2>3 DEF WriteRunState, TypeOK, HandlerFits
  <1>3. CASE ~WriteRunState /\ ~(CreateRun /\ thread.op = r)
    <2>1. SameRecord(run[r], run'[r])
      BY <1>3, RecordKept
    <2>2. CASE r \in Queued'
      <3>1. r \in Queued \/ (thread.op = r /\ thread.job = "bind")
        BY <1>0, <2>2, QueuedKept DEF Bind
      <3>. QED
        BY <2>1, <3>1 DEF SameRecord, HandlerFits
    <2>3. CASE thread'.op = r /\ thread'.job = "bind"
      <3>1. CASE UNCHANGED vars
        BY <2>1, <2>3, <3>1 DEF vars, SameRecord, HandlerFits
      <3>2. CASE WriteOperation
        BY <2>3, <3>2, GoesOn
      <3>3. CASE Next /\ ~WriteOperation
        <4>1. CreateRun
          BY <1>3, <2>3, <3>3, SegmentBegins
        <4>. QED
          BY <1>0, <1>3, <2>3, <4>1 DEF CreateRun, ThreadType
      <3>. QED
        BY <3>1, <3>2, <3>3
    <2>. QED
      BY <2>2, <2>3
  <1>. QED
    BY <1>1, <1>2, <1>3

\* A segment that ends parks its handler at the await its last phase leads to.
LEMMA ParkFits ==
  ASSUME TypeOK, JobsFit, AttemptsLeft, SegmentUncancelled, SegmentShape, LoopIsCounted,
         HalfSaved, ActiveAtWork, Untaken, Untaken', WriteOperation,
         NEW r \in Runs, thread.op = r, Free' \/ thread'.op # r
  PROVE  AwaitFits(task'[r], run[r])
  <1>0. /\ thread \in ThreadType /\ task \in [Ops -> TaskType] /\ r \in Ops /\ RunOf(r) = r
    BY DEF TypeOK, Ops, RunOf
  <1>1. CASE task' = [task EXCEPT ![r] = Parked]
    BY <1>0, <1>1 DEF Parked, AwaitFits
  <1>2. CASE /\ thread.job = "walk"
             /\ task' = [task EXCEPT ![r] = [pc |-> AwaitAfter(thread.phase), arg |-> thread.gate]]
    <2>. DEFINE pc == AwaitAfter(thread.phase)
    <2>1. task'[r].pc = pc /\ task'[r].arg = thread.gate
      <3>1. ASSUME NEW x, NEW g, task' = [task EXCEPT ![r] = [pc |-> x, arg |-> g]]
            PROVE  task'[r].pc = x /\ task'[r].arg = g
        BY <1>0, <3>1
      <3>. QED
        BY <1>2, <3>1, Zenon
    <2>2. ~run[r].cancel /\ run[r].phase = thread.phase
      BY <1>0, <1>2 DEF SegmentUncancelled, HalfSaved, WriteOperation
    <2>3. run[r].status = "ACTIVE"
      <3>1. Working(r) /\ ~Ends(r)
        BY <1>2 DEF Working, Ends
      <3>. QED
        BY <2>2, <3>1 DEF ActiveAtWork, Untaken
    <2>4. thread.gate \notin FailureKinds
      BY <1>0 DEF ThreadType, Gates, FailureKinds
    <2>5. /\ pc = "open" => thread.phase = "TARGET_READY"
          /\ pc = "coverage" => thread.phase = "DISCOVERED"
          /\ pc = "planner" => thread.phase = "COVERAGE_DERIVED"
          /\ pc = "runner" => thread.phase = "RUNNING"
          /\ pc = "close" => thread.phase = "GATED"
      BY DEF AwaitAfter
    <2>. HIDE DEF pc
    <2>. QED
      BY <2>1, <2>2, <2>3, <2>4, <2>5 DEF AwaitFits
  <1>3. CASE thread' = [thread EXCEPT !.phase = Following(thread.phase), !.torn = FALSE]
             /\ thread.job \in {"walk", "finalize"}
    BY <1>0, <1>3 DEF ThreadType, Free
  <1>4. CASE thread.job = "finalize" /\ thread.reply # "none"
    BY <1>4 DEF SegmentShape
  <1>. QED
    BY <1>1, <1>2, <1>3, <1>4, SegmentGoesOn

LEMMA AwaitFitsStep ==
  ASSUME TypeOK, JobsFit, AttemptsLeft, SegmentUncancelled, SegmentShape, LoopIsCounted,
         HalfSaved, ActiveAtWork, NoneGivesUp, CancelRecorded', HandlerFits,
         Untaken, Untaken', MaxResumeAttempts > 0, [Next]_vars, Unhurt,
         NEW r \in Runs, ~run'[r].cancel, Free' \/ thread'.op # r
  PROVE  AwaitFits(task'[r], run'[r])
  <1>0. /\ thread \in ThreadType /\ task \in [Ops -> TaskType] /\ r \in Ops /\ RunOf(r) = r
    BY DEF TypeOK, Ops, RunOf
  <1>1. CASE WriteRunState
    <2>1. task' = task /\ thread'.op = thread.op /\ ~Free'
      BY <1>0, <1>1 DEF WriteRunState, ThreadType, Free, PersistJobs
    <2>2. RunOf(thread.op) # r
      BY <1>1, <2>1, OwnSave
    <2>3. run'[r] = run[r]
      BY <1>1, <2>2 DEF WriteRunState, TypeOK
    <2>. QED
      BY <2>1, <2>3 DEF HandlerFits
  <1>2. CASE WriteOperation
    <2>1. run' = run
      BY <1>2 DEF WriteOperation
    <2>2. CASE thread.op = r
      BY <1>2, <2>1, <2>2, ParkFits
    <2>3. CASE thread.op # r
      <3>1. task'[r] = task[r]
        BY <1>0, <1>2, <2>3, SegmentTouches DEF Touches
      <3>. QED
        BY <2>1, <2>3, <3>1 DEF HandlerFits
    <2>. QED
      BY <2>2, <2>3
  <1>3. CASE CreateRun /\ thread.op = r
    BY <1>0, <1>3 DEF CreateRun, ThreadType, Free
  <1>4. CASE ~WriteRunState /\ ~WriteOperation /\ ~(CreateRun /\ thread.op = r)
    <2>1. SameRecord(run[r], run'[r])
      BY <1>4, RecordKept
    <2>2. ~run[r].cancel
      BY <2>1 DEF SameRecord
    <2>3. ASSUME Free \/ thread.op # r, task'[r] = task[r]
          PROVE  AwaitFits(task'[r], run'[r])
      <3>1. AwaitFits(task[r], run[r])
        BY <2>2, <2>3 DEF HandlerFits
      <3>. QED
        BY <2>1, <2>3, <3>1 DEF SameRecord, AwaitFits
    <2>4. ASSUME task'[r].pc = "none"
          PROVE  AwaitFits(task'[r], run'[r])
      BY <2>4 DEF AwaitFits
    <2>5. CASE ~Free /\ thread.op = r
      <3>1. CreateRun \/ Bind \/ TakeOver \/ Reply \/ UNCHANGED vars
        BY <1>4, <2>5, SegmentOnly DEF Unhurt
      <3>2. CASE Bind \/ TakeOver
        <4>1. task[r].pc = "none" /\ task' = task
          BY <2>5, <3>2 DEF Bind, TakeOver, JobsFit
        <4>. QED
          BY <2>4, <4>1
      <3>3. CASE Reply
        BY <2>5, <3>3 DEF Reply, SegmentShape
      <3>4. CASE UNCHANGED vars
        BY <2>5, <3>4 DEF vars, Free
      <3>. QED
        BY <1>4, <2>5, <3>1, <3>2, <3>3, <3>4
    <2>6. CASE Free \/ thread.op # r
      <3>1. CASE QuietStep
        BY <1>0, <2>3, <2>4, <2>6, <3>1 DEF QuietStep
      <3>2. CASE CreateRun \/ UNCHANGED vars \/ \E o \in Cancels : CancelBegins(o)
        BY <2>3, <2>6, <3>2 DEF CreateRun, vars, CancelBegins
      <3>3. ASSUME NEW x \in Runs, x # r, HandlerStep(x)
            PROVE  task'[r] = task[r]
        BY <1>0, <3>3, HandlerTouches
      <3>4. CASE HandlerStep(r)
        <4>1. ASSUME NEW p, NEW g, Walk(r, p, g)
              PROVE  task'[r] = task[r]
          BY <2>2, <4>1, WalkCases
        <4>2. ASSUME NEW e, Catch(r, e)
              PROVE  task'[r] = task[r] \/ task'[r].pc = "none"
          <5>1. UNCHANGED task \/ task' = [task EXCEPT ![r] = Parked]
            BY <4>2, CatchCases, Zenon
          <5>. QED
            BY <1>0, <5>1 DEF Parked
        <4>3. ASSUME NEW e \in Failures, task[r].pc \in {"coverage", "planner", "runner"},
                     task' = [task EXCEPT ![r] = [pc |-> "close", arg |-> e]]
              PROVE  AwaitFits(task'[r], run'[r])
          <5>1. task'[r].pc = "close" /\ task'[r].arg \in FailureKinds
            BY <1>0, <4>3, ParameterAssumption
          <5>2. Free /\ Working(r) /\ ~Ends(r)
            BY <3>4, <4>3 DEF HandlerStep, Free, Working, Ends
          <5>3. run[r].status = "ACTIVE"
            BY <2>2, <5>2 DEF ActiveAtWork, Untaken
          <5>4. run[r].phase # "GATED"
            BY <2>2, <4>3, <5>2 DEF HandlerFits, AwaitFits
          <5>. QED
            BY <2>1, <5>1, <5>3, <5>4 DEF SameRecord, AwaitFits
        <4>4. UNCHANGED task => task'[r] = task[r]
          OBVIOUS
        <4>. QED
          BY <2>3, <2>4, <2>6, <3>4, <4>1, <4>2, <4>3, <4>4, Zenon DEF HandlerStep
      <3>. QED
        BY <1>4, <2>3, <2>6, <3>1, <3>2, <3>3, <3>4, OtherSteps, Zenon
    <2>. QED
      BY <2>5, <2>6
  <1>. QED
    BY <1>1, <1>2, <1>3, <1>4

\* What a segment has to begin with.
LEMMA SegmentFits ==
  ASSUME NEW r \in Runs, SameRecord(run[r], run'[r]), RunOf(thread.op)' = r, ~thread'.torn,
         thread'.job \in {"finalize", "fail", "publish"} => run[r].status = "ACTIVE",
         thread'.job \in {"walk", "finalize"} =>
           <<run[r].phase, thread'.phase>> \in Transitions,
         thread'.job = "publish" => run[r].phase = "GATED" /\ thread'.gate \in Gates
  PROVE  SavesFit'
  <1>1. run'[r].phase = run[r].phase /\ run'[r].status = run[r].status
    BY DEF SameRecord
  <1>. QED
    BY <1>1 DEF SavesFit

LEMMA BranchIsTransition ==
  /\ \A p \in Resting : <<p, "TERMINALIZING">> \in Transitions /\ p \notin {"TERMINALIZING", "GATED"}
  /\ \A p \in Phases \ {"GATED"} : <<p, Following(p)>> \in Transitions
  <1>1. Resting \subseteq BranchAfter
    BY DEF Resting, BranchAfter
  <1>2. \A p \in Resting : p \notin {"TERMINALIZING", "GATED"}
    BY DEF Resting
  <1>. QED
    BY <1>1, <1>2 DEF Transitions

\* The handler of a Run that was not cancelled works on an ACTIVE one, which rests.
LEMMA HandlerActive ==
  ASSUME TypeOK, ActiveAtWork, HandlerFits, Rests, Untaken, Free, NEW r \in Runs, ~run[r].cancel,
         r \in Queued \/ task[r].pc # "none"
  PROVE  run[r].status = "ACTIVE" /\ run[r].phase \in Resting \cup {"GATED"}
  <1>1. CASE task[r].pc = "close"
    BY <1>1 DEF HandlerFits, AwaitFits, Rests, Free
  <1>2. CASE task[r].pc # "close"
    <2>1. Working(r) /\ ~Ends(r)
      BY <1>2 DEF Working, Ends, Free
    <2>. QED
      BY <2>1 DEF ActiveAtWork, Untaken, Rests, Free
  <1>. QED
    BY <1>1, <1>2

\* The catch block of _run ends only a Run that is not over.
LEMMA CatchFitsRun ==
  ASSUME TypeOK, ActiveAtWork, HandlerFits, ThrownFits, Rests, CancelGates, Untaken, EndsOnce,
         Free, NEW r \in Runs, SameRecord(run[r], run'[r]), NEW e, Raises(r, e), Catch(r, e)
  PROVE  SavesFit'
  <1>0. r \in Ops /\ RunOf(r) = r
    BY DEF Ops, RunOf
  <1>1. e \in Failures /\ e \in FailureKinds
    BY <1>0, ParameterAssumption DEF Raises, ThrownFits
  <1>2. ASSUME thread' = Idle
        PROVE  SavesFit'
    BY <1>2 DEF Idle, SavesFit
  <1>3. CASE run[r].cancel
    <2>1. run[r].phase = "GATED" /\ e = "INFRASTRUCTURE"
      BY <1>1, <1>3 DEF CancelGates, Free, EndsOnce
    <2>2. EndTask(r)
      BY <2>1 DEF Catch
    <2>. QED
      BY <1>2, <2>2 DEF EndTask, Park
  <1>4. CASE ~run[r].cancel
    <2>1. run[r].status = "ACTIVE" /\ run[r].phase \in Resting \cup {"GATED"}
      BY <1>4, HandlerActive DEF Raises
    <2>2. e = "PLAN_DEFECT" => run[r].phase # "GATED"
      BY <1>1, <1>4 DEF Raises, HandlerFits, AwaitFits
    <2>3. ASSUME run[r].phase # "GATED", NEW g, Finalize(r, g, "none")
          PROVE  SavesFit'
      <3>1. <<run[r].phase, "TERMINALIZING">> \in Transitions
            /\ run[r].phase \notin {"TERMINALIZING", "GATED"}
        BY <2>1, <2>3, BranchIsTransition
      <3>2. thread' = Segment("finalize", r, "TERMINALIZING", g, "none")
        BY <1>0, <2>3, <3>1 DEF Finalize
      <3>3. /\ thread'.op = r /\ thread'.job = "finalize" /\ thread'.phase = "TERMINALIZING"
            /\ ~thread'.torn
        BY <3>2 DEF Segment
      <3>4. RunOf(thread.op)' = r
        BY <3>3 DEF RunOf
      <3>. QED
        BY <2>1, <3>1, <3>3, <3>4, SegmentFits
    <2>4. CASE e = "PLAN_DEFECT"
      BY <2>2, <2>3, <2>4 DEF Catch
    <2>5. CASE e = "INFRASTRUCTURE" /\ run[r].phase # "GATED"
      BY <2>3, <2>5 DEF Catch
    <2>6. CASE e = "INFRASTRUCTURE" /\ run[r].phase = "GATED"
      <3>1. EndTask(r)
        BY <2>6 DEF Catch
      <3>. QED
        BY <1>2, <3>1 DEF EndTask, Park
    <2>7. CASE e = "STATE_CORRUPTED"
      <3>1. thread'.op = r /\ thread'.job = "fail" /\ ~thread'.torn
        BY <2>7 DEF Catch, Segment
      <3>2. RunOf(thread.op)' = r
        BY <3>1 DEF RunOf
      <3>. QED
        BY <2>1, <3>1, <3>2, SegmentFits
    <2>. QED
      BY <1>1, <2>4, <2>5, <2>6, <2>7 DEF FailureKinds
  <1>. QED
    BY <1>3, <1>4

LEMMA HandlerSavesFit ==
  ASSUME TypeOK, ActiveAtWork, HandlerFits, ThrownFits, Rests, CancelGates, Untaken, EndsOnce,
         NEW r \in Runs, SameRecord(run[r], run'[r]), HandlerStep(r)
  PROVE  SavesFit'
  <1>0. Free
    BY DEF HandlerStep
  <1>1. ASSUME thread' = Idle
        PROVE  SavesFit'
    BY <1>1 DEF Idle, SavesFit
  <1>2. ASSUME NEW p, NEW g, GoesTo(r, p), Walk(r, p, g)
        PROVE  SavesFit'
    <2>1. CASE run[r].cancel
      BY <1>1, <1>2, <2>1, WalkCases
    <2>2. CASE ~run[r].cancel
      <3>1. thread'.op = r /\ thread'.job = "walk" /\ thread'.phase = p /\ ~thread'.torn
        BY <1>2, <2>2, WalkCases DEF Segment
      <3>2. AwaitFits(task[r], run[r]) /\ (r \in Queued => run[r].phase = "CREATED")
        BY <1>0, <2>2 DEF HandlerFits
      <3>3. \/ run[r].phase = "CREATED" /\ p = "TARGET_READY"
            \/ run[r].phase = "TARGET_READY" /\ p = "SEED_RESOLVED"
            \/ run[r].phase = "DISCOVERED" /\ p = "COVERAGE_DERIVED"
            \/ run[r].phase = "COVERAGE_DERIVED" /\ p = "PLAN_FILLED"
            \/ run[r].phase = "RUNNING" /\ p = "EXECUTION_FINISHED"
        BY <1>2, <3>2 DEF GoesTo, AwaitFits
      <3>4. run[r].phase \in Phases \ {"GATED"} /\ p = Following(run[r].phase)
        BY <3>3 DEF Following, Phases, BranchAfter
      <3>5. RunOf(thread.op)' = r
        BY <3>1 DEF RunOf
      <3>. QED
        BY <3>1, <3>4, <3>5, SegmentFits, BranchIsTransition
    <2>. QED
      BY <2>1, <2>2
  <1>3. ASSUME NEW e, Raises(r, e), Catch(r, e)
        PROVE  SavesFit'
    BY <1>0, <1>3, CatchFitsRun
  <1>4. ASSUME NEW g \in Gates, task[r].pc = "close", task[r].arg = g, ~run[r].cancel,
               thread' = Segment("publish", r, "GATED", g, "none")
        PROVE  SavesFit'
    <2>1. thread'.op = r /\ thread'.job = "publish" /\ thread'.gate = g /\ ~thread'.torn
      BY <1>4 DEF Segment
    <2>2. g \notin FailureKinds
      BY DEF Gates, FailureKinds
    <2>3. run[r].status = "ACTIVE" /\ run[r].phase = "GATED"
      BY <1>0, <1>4, <2>2 DEF HandlerFits, AwaitFits
    <2>4. RunOf(thread.op)' = r
      BY <2>1 DEF RunOf
    <2>. QED
      BY <2>1, <2>3, <2>4, SegmentFits
  <1>. QED
    BY <1>1, <1>2, <1>3, <1>4, Zenon DEF HandlerStep

LEMMA SavesFitStep ==
  ASSUME TypeOK, JobsFit, AttemptsLeft, Accepted, TargetsAccepted, BoundExists, PublishesGated,
         SegmentShape, CreatedThenBound, LoopIsCounted, ActiveAtWork, HandlerFits, ThrownFits,
         Rests, SavesFit, CancelGates, Untaken, Untaken', EndsOnce, MaxResumeAttempts > 0,
         [Next]_vars, Unhurt
  PROVE  SavesFit'
  <1>0. thread \in ThreadType /\ thread.op \in Ops /\ RunOf(thread.op) \in Runs
    BY RunOfType DEF TypeOK, ThreadType
  <1>1. ASSUME thread'.job \notin {"walk", "finalize", "fail", "publish"}
        PROVE  SavesFit'
    BY <1>1 DEF SavesFit
  <1>2. CASE WriteRunState
    <2>. DEFINE r == RunOf(thread.op)
    <2>1. /\ thread'.job = thread.job /\ thread'.op = thread.op /\ thread'.phase = thread.phase
          /\ thread'.gate = thread.gate /\ thread'.torn /\ ~thread.torn
      BY <1>0, <1>2 DEF WriteRunState, ThreadType
    <2>2. RunOf(thread.op)' = r
      BY <1>2, <2>1, SameRun
    <2>3. /\ thread.job = "walk" => run'[r].phase = thread.phase
          /\ thread.job = "finalize" => run'[r].phase = thread.phase
          /\ thread.job = "finalize" /\ thread.phase # "GATED" => run'[r].status = run[r].status
          /\ thread.job = "publish" => run'[r].phase = "GATED"
      BY <1>2, SaveCases
    <2>4. /\ thread.job = "finalize" => run[r].status = "ACTIVE"
          /\ thread.job = "publish" => thread.gate \in Gates
      BY <2>1 DEF SavesFit
    <2>. HIDE DEF r
    <2>. QED
      BY <2>1, <2>2, <2>3, <2>4 DEF SavesFit
  <1>3. CASE WriteOperation
    <2>1. thread.torn /\ run' = run
      BY <1>3 DEF WriteOperation
    <2>2. CASE /\ thread.job \in {"walk", "finalize"} /\ thread.phase # "GATED"
               /\ thread' = [thread EXCEPT !.phase = Following(thread.phase), !.torn = FALSE]
      <3>. DEFINE r == RunOf(thread.op)
      <3>1. /\ thread'.job = thread.job /\ thread'.op = thread.op /\ ~thread'.torn
            /\ thread'.phase = Following(thread.phase)
        BY <1>0, <2>2 DEF ThreadType
      <3>2. RunOf(thread.op)' = r
        BY <1>3, <3>1, SameRun
      <3>3. thread.phase \in Phases \ {"GATED"}
        BY <1>0, <2>2 DEF ThreadType, SegmentShape
      <3>4. run[r].phase = thread.phase /\ (thread.job = "finalize" => run[r].status = "ACTIVE")
        BY <2>1, <2>2 DEF SavesFit
      <3>5. r \in Runs /\ SameRecord(run[r], run'[r])
        BY <1>0, <2>1 DEF SameRecord
      <3>. HIDE DEF r
      <3>. QED
        BY <2>2, <3>1, <3>2, <3>3, <3>4, <3>5, SegmentFits, BranchIsTransition
    <2>3. thread' = Idle => thread'.job = "idle"
      BY DEF Idle
    <2>. QED
      BY <1>1, <1>3, <2>2, <2>3, SegmentGoesOn
  <1>4. CASE CreateRun
    BY <1>0, <1>1, <1>4 DEF CreateRun, ThreadType
  <1>5. CASE UNCHANGED vars
    BY <1>5 DEF vars, SavesFit, RunOf
  <1>6. CASE QuietStep
    BY <1>1, <1>6 DEF QuietStep
  <1>7. ASSUME ~WriteRunState, ~CreateRun, NEW r \in Runs
        PROVE  SameRecord(run[r], run'[r])
    BY <1>7, RecordKept
  <1>8. ASSUME NEW r \in Runs, HandlerStep(r), ~WriteRunState, ~CreateRun
        PROVE  SavesFit'
    BY <1>7, <1>8, HandlerSavesFit
  <1>9. ASSUME NEW o \in Cancels, CancelBegins(o), ~WriteRunState, ~CreateRun
        PROVE  SavesFit'
    <2>1. /\ thread'.op = o /\ thread'.job = "finalize" /\ thread'.phase = "TERMINALIZING"
          /\ ~thread'.torn
      BY <1>9 DEF CancelBegins, Segment
    <2>2. o \in Ops /\ Busy(o) /\ Free
      BY <1>9 DEF CancelBegins, Busy, Ops
    <2>3. ops[o].status # "NONE" /\ RunOf(o) \in Runs
      BY <2>2, RunOfType DEF Accepted
    <2>. DEFINE r == RunOf(o)
    <2>4. RunOf(thread.op)' = r
      <3>1. ops'[o].target = ops[o].target
        BY <2>2, <2>3, TargetsKept
      <3>. QED
        BY <2>1, <3>1 DEF RunOf
    <2>5. run[r].status \in {"ACTIVE", "COMPLETED", "FAILED"}
      <3>1. run[r].status # "NONE"
        BY <2>2, BusyExists DEF Free
      <3>. QED
        BY <2>3, <3>1 DEF TypeOK, RunType
    <2>6. run[r].status = "ACTIVE" /\ run[r].phase \in Resting
      BY <1>9, <2>2, <2>3, <2>5 DEF CancelBegins, Terminal, Rests, Free
    <2>7. r \in Runs /\ SameRecord(run[r], run'[r])
      BY <1>7, <1>9, <2>3
    <2>. HIDE DEF r
    <2>. QED
      BY <2>1, <2>4, <2>6, <2>7, SegmentFits, BranchIsTransition
  <1>. QED
    BY <1>2, <1>3, <1>4, <1>5, <1>6, <1>8, <1>9, OtherSteps, Zenon

LEMMA InitContract == Init => ContractInv
  <1>. SUFFICES ASSUME Init
                PROVE  ContractInv
    OBVIOUS
  <1>1. /\ thread.job = "idle" /\ Free /\ Queued = {}
        /\ \A o \in Ops : task[o].pc = "none"
        /\ \A r \in Runs : /\ run[r].status = "NONE" /\ run[r].phase = "NONE"
                           /\ run[r].gate = "null" /\ ~run[r].cancel
    BY DEF Init, Idle, Free, Queued, Parked, NoRun
  <1>2. \A r \in Runs : r \in Ops
    BY DEF Ops
  <1>3. Uncreated /\ GateEnds /\ HandlerFits /\ ThrownFits
    BY <1>1, <1>2 DEF Uncreated, GateEnds, HandlerFits, AwaitFits, ThrownFits
  <1>4. Rests /\ SavesFit /\ NoneGivesUp /\ CancelGates
    BY <1>1 DEF Rests, SavesFit, NoneGivesUp, CancelGates
  <1>. QED
    BY <1>3, <1>4, InitAnswer DEF ContractInv

LEMMA NextContract ==
  ASSUME Reliable, EndsOnce, MaxResumeAttempts > 0, ContractInv, Untaken, Untaken', [Next]_vars
  PROVE  ContractInv'
  <1>. USE DEF ContractInv
  <1>0. /\ TypeOK /\ JobsFit /\ AttemptsLeft /\ Accepted /\ QueuedOnce /\ SegmentUncancelled
        /\ PublishesGated /\ TargetsAccepted /\ up # "down" /\ BoundExists
        /\ SegmentShape /\ CreatedThenBound /\ LoopIsCounted /\ HalfSaved /\ ActiveAtWork
    BY DEF AnswerInv, WriterInv, OutcomeInv, Inv
  <1>1. Unhurt
    BY <1>0 DEF Reliable, Unhurt, Start, Stop, Crash, StorageFails
  <1>2. AnswerInv' /\ CancelRecorded'
    BY NextAnswer DEF AnswerInv, WriterInv, OutcomeInv
  <1>3. Uncreated' /\ GateEnds' /\ ThrownFits' /\ NoneGivesUp'
    BY <1>0, <1>1, UncreatedStep, GateEndsStep, ThrownStep, NoneGivesUpStep
  <1>4. CancelGates' /\ Rests' /\ SavesFit'
    BY <1>0, <1>1, CancelGatesStep, RestsStep, SavesFitStep
  <1>5. HandlerFits'
    <2>1. ASSUME NEW r \in Runs, ~run'[r].cancel,
                 r \in Queued' \/ (thread'.op = r /\ thread'.job = "bind")
          PROVE  run'[r].phase = "CREATED"
      BY <1>0, <1>1, <1>2, <2>1, QueuedFitsStep
    <2>2. ASSUME NEW r \in Runs, ~run'[r].cancel, Free' \/ thread'.op # r
          PROVE  AwaitFits(task'[r], run'[r])
      BY <1>0, <1>1, <1>2, <2>2, AwaitFitsStep
    <2>. QED
      BY <2>1, <2>2 DEF HandlerFits
  <1>. QED
    BY <1>2, <1>3, <1>4, <1>5

--------------------------------------------------------------------------------
(***************************************************************************)
(* The contract, step by step.                                             *)
(***************************************************************************)

LEMMA SameTable == Contract!Transitions = Transitions /\ Contract!Phases = Phases
  BY DEF Transitions, Phases, Following, BranchAfter, Closing, Contract!Transitions,
         Contract!Phases, Contract!Following, Contract!BranchAfter, Contract!Closing

LEMMA ContractStep ==
  ASSUME ContractInv, Untaken, Untaken', [Next]_vars
  PROVE  [Contract!Next]_Contract!vars
  <1>. DEFINE F == [r \in Runs |-> run[r].phase]
              G == [r \in Runs |-> IF run[r].status = "FAILED" THEN "failed"
                                   ELSE IF run[r].gate = "null" THEN "open"
                                   ELSE run[r].gate]
  <1>0. /\ TypeOK /\ JobsFit /\ AttemptsLeft /\ Accepted /\ SegmentUncancelled /\ PublishesGated
        /\ TargetsAccepted /\ SegmentShape /\ LoopIsCounted /\ PhasesKnown /\ ActiveAtWork
        /\ Uncreated /\ GateEnds /\ SavesFit
    BY DEF ContractInv, AnswerInv, WriterInv, OutcomeInv, Inv
  <1>00. /\ thread \in ThreadType /\ thread.op \in Ops /\ RunOf(thread.op) \in Runs
         /\ run \in [Runs -> RunType]
    BY <1>0, RunOfType DEF TypeOK, ThreadType
  <1>c. ASSUME NEW r \in Runs, F[r] = "NONE", F' = [F EXCEPT ![r] = "CREATED"], UNCHANGED G
        PROVE  Contract!Next
    BY <1>c, Zenon DEF Contract!Next, Contract!Create
  <1>a. ASSUME NEW r \in Runs, NEW p \in Phases, G[r] = "open", <<F[r], p>> \in Transitions,
               F' = [F EXCEPT ![r] = p],
               \/ UNCHANGED G
               \/ p = "GATED" /\ \E g \in Gates : G' = [G EXCEPT ![r] = g]
        PROVE  Contract!Next
    BY <1>a, SameTable, Zenon DEF Contract!Next, Contract!Advance
  <1>p. ASSUME NEW r \in Runs, NEW g \in Gates, F[r] = "GATED", G[r] = "open",
               G' = [G EXCEPT ![r] = g], UNCHANGED F
        PROVE  Contract!Next
    BY <1>p, Zenon DEF Contract!Next, Contract!Publish
  <1>f. ASSUME NEW r \in Runs, F[r] # "NONE", G[r] = "open",
               G' = [G EXCEPT ![r] = "failed"], UNCHANGED F
        PROVE  Contract!Next
    BY <1>f, Zenon DEF Contract!Next, Contract!Fail
  <1>u. ASSUME UNCHANGED <<F, G>>
        PROVE  UNCHANGED Contract!vars
    BY <1>u, Zenon DEF Contract!vars
  <1>1. CASE WriteRunState
    <2>. DEFINE r   == RunOf(thread.op)
                old == run[r]
                new == run'[r]
    <2>1. thread.job \in {"walk", "finalize", "fail", "publish"} /\ ~thread.torn
      BY <1>0, <1>1, UntakenSaves DEF WriteRunState
    <2>2. \A x \in Runs \ {r} : run'[x] = run[x]
      BY <1>00, <1>1 DEF WriteRunState
    <2>3. old.status = "ACTIVE"
      <3>1. CASE thread.job = "walk"
        <4>1. thread.op = r /\ ~old.cancel
          BY <1>0, <3>1 DEF JobsFit, RunOf, SegmentUncancelled
        <4>2. Working(r) /\ ~Ends(r)
          BY <3>1, <4>1 DEF Working, Ends
        <4>. QED
          BY <1>0, <1>00, <4>1, <4>2 DEF ActiveAtWork, Untaken
      <3>2. CASE thread.job # "walk"
        BY <1>0, <2>1, <3>2 DEF SavesFit
      <3>. QED
        BY <3>1, <3>2
    <2>4. old.gate = "null"
      BY <1>0, <1>00, <2>3 DEF GateEnds, Terminal
    <2>5. r \in Runs /\ F[r] = old.phase /\ G[r] = "open"
      BY <1>00, <2>3, <2>4
    <2>6. CASE thread.job = "walk" \/ (thread.job = "finalize" /\ thread.phase # "GATED")
      <3>1. new.phase = thread.phase /\ new.status = old.status /\ new.gate = old.gate
        BY <1>0, <1>1, <2>6, SaveCases
      <3>2. <<old.phase, thread.phase>> \in Transitions
        BY <1>0, <2>1, <2>6 DEF SavesFit
      <3>3. thread.phase \in Phases
        BY <1>0, <1>00, <2>6 DEF ThreadType, SegmentShape
      <3>4. F' = [F EXCEPT ![r] = thread.phase] /\ UNCHANGED G
        <4>. HIDE DEF r
        <4>. QED
          BY <2>2, <2>5, <3>1
      <3>. HIDE DEF F, G, r, old, new
      <3>. QED
        BY <1>a, <2>5, <3>2, <3>3, <3>4
    <2>7. CASE thread.job = "finalize" /\ thread.phase = "GATED"
      <3>1. new.phase = "GATED" /\ new.status = "COMPLETED" /\ new.gate = thread.gate
        BY <1>0, <1>1, <2>7, SaveCases
      <3>2. <<old.phase, "GATED">> \in Transitions /\ "GATED" \in Phases
        BY <1>0, <2>1, <2>7 DEF SavesFit, Phases, Closing
      <3>3. thread.gate \in Gates /\ thread.gate # "null"
        BY <1>0, <2>7 DEF JobsFit, Gates
      <3>4. F' = [F EXCEPT ![r] = "GATED"] /\ G' = [G EXCEPT ![r] = thread.gate]
        <4>. HIDE DEF r
        <4>. QED
          BY <2>2, <2>5, <3>1, <3>3
      <3>. HIDE DEF F, G, r, old, new
      <3>. QED
        BY <1>a, <2>5, <3>2, <3>3, <3>4
    <2>8. CASE thread.job = "publish"
      <3>1. new.phase = "GATED" /\ new.status = "COMPLETED" /\ new.gate = thread.gate
        BY <1>0, <1>1, <2>8, SaveCases
      <3>2. old.phase = "GATED" /\ thread.gate \in Gates /\ thread.gate # "null"
        BY <1>0, <2>8 DEF SavesFit, Gates
      <3>3. UNCHANGED F /\ G' = [G EXCEPT ![r] = thread.gate]
        <4>. HIDE DEF r
        <4>. QED
          BY <2>2, <2>5, <3>1, <3>2
      <3>. HIDE DEF F, G, r, old, new
      <3>. QED
        BY <1>p, <2>5, <3>2, <3>3
    <2>9. CASE thread.job = "fail"
      <3>1. new.phase = old.phase /\ new.status = "FAILED"
        BY <1>0, <1>1, <2>9, SaveCases
      <3>2. old.phase # "NONE"
        BY <1>0, <1>00, <2>3 DEF PhasesKnown
      <3>3. UNCHANGED F /\ G' = [G EXCEPT ![r] = "failed"]
        <4>. HIDE DEF r
        <4>. QED
          BY <2>2, <2>5, <3>1
      <3>. HIDE DEF F, G, r, old, new
      <3>. QED
        BY <1>f, <2>5, <3>2, <3>3
    <2>. QED
      BY <2>1, <2>6, <2>7, <2>8, <2>9
  <1>2. CASE CreateRun
    <2>. DEFINE r == thread.op
    <2>1. r \in Runs /\ thread.job = "create"
      BY <1>0, <1>2 DEF CreateRun, JobsFit
    <2>2. run[r].phase = "NONE" /\ run[r].status = "NONE" /\ run[r].gate = "null"
      BY <1>0, <2>1 DEF Uncreated
    <2>3. /\ \A x \in Runs \ {r} : run'[x] = run[x]
          /\ run'[r].phase = "CREATED" /\ run'[r].status = "ACTIVE" /\ run'[r].gate = "null"
      BY <1>00, <1>2, <2>1 DEF CreateRun, NewRun, NoRun
    <2>4. F[r] = "NONE" /\ F' = [F EXCEPT ![r] = "CREATED"] /\ UNCHANGED G
      <3>. HIDE DEF r
      <3>. QED
        BY <2>1, <2>2, <2>3
    <2>. HIDE DEF F, G, r
    <2>. QED
      BY <1>c, <2>1, <2>4
  <1>3. CASE ~WriteRunState /\ ~CreateRun
    <2>1. \A r \in Runs : SameRecord(run[r], run'[r])
      BY <1>0, <1>3, RecordKept
    <2>2. UNCHANGED <<F, G>>
      BY <2>1 DEF SameRecord
    <2>. HIDE DEF F, G
    <2>. QED
      BY <1>u, <2>2
  <1>. QED
    BY <1>1, <1>2, <1>3

\* Seen by its clients a Run is the one RunContract promises, as long as nobody takes a
\* Run over: every save of a phase, by the handler that executes the Run, by one whose
\* execution failed or by the cancel_run that overtakes it at any of its awaits, is a
\* transition of the frozen table, and the outcome is decided once. (The write of every
\* record succeeds, and what is thrown after a cancellation is an infrastructure failure.)
THEOREM ContractKept ==
  ASSUME Reliable, EndsOnce, MaxResumeAttempts > 0
  PROVE  Spec /\ []Untaken => ContractSpec
  <1>1. ContractInv /\ Untaken /\ Untaken' /\ [Next]_vars => ContractInv'
    BY NextContract
  <1>2. ContractInv /\ Untaken /\ Untaken' /\ [Next]_vars => [Contract!Next]_Contract!vars
    BY ContractStep
  <1>3. Init => Contract!Init
    BY DEF Init, NoRun, Contract!Init
  <1>. QED
    BY <1>1, <1>2, <1>3, InitContract, PTL DEF Spec, ContractSpec, Contract!Spec
================================================================================
