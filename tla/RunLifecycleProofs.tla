--------------------------- MODULE RunLifecycleProofs ---------------------------
(***************************************************************************)
(* Theorems about RunLifecycle, for any number of Runs, resume_run and     *)
(* cancel_run operations, any limits and every combination of faults.      *)
(***************************************************************************)
EXTENDS RunLifecycle, FiniteSetTheorems, TLAPS

--------------------------------------------------------------------------------
(***************************************************************************)
(* The inductive invariant, part by part.                                  *)
(***************************************************************************)

\* The handlers agree on who does what: the job of a segment fits its operation.
JobsFit ==
  LET o == thread.op
  IN  /\ thread.job \in {"walk", "create", "fail"} => o \in Runs
      /\ thread.job = "loop" => o \in Resumes
      /\ thread.job \in {"takeover", "revive", "publish"} => o \in Runs \cup Resumes
      /\ thread.job = "finalize" => thread.gate \in {"incomplete", "infra"}
      /\ thread.job = "reply" => thread.reply # "none"
      /\ thread.job \in {"create", "bind", "takeover", "revive"} => task[o].pc = "none"
      /\ thread.job = "walk" => task[o].pc # "close"

\* A takeover is not begun without an attempt left to count.
AttemptsLeft ==
  thread.job \in {"takeover", "revive"} /\ ~thread.torn =>
    run[RunOf(thread.op)].attempts < MaxResumeAttempts

\* The handler of o is queued, suspended or executing.
Busy(o) == o \in Queued \/ task[o].pc # "none" \/ (thread.op = o /\ ~Free)

\* Whatever is queued, suspended or executing has been accepted before.
Accepted == \A o \in Ops : Busy(o) => ops[o].status # "NONE"

\* No operation is queued twice, or queued while its handler is at work.
QueuedOnce ==
  /\ \A i, j \in 1..Len(queue) : queue[i] = queue[j] => i = j
  /\ \A o \in Queued : /\ task[o].pc = "none"
                       /\ thread.op = o => Free

\* A segment that moves the Run on has seen that it is not cancelled.
SegmentUncancelled ==
  thread.job \in {"walk", "loop", "publish"} => ~run[RunOf(thread.op)].cancel

\* The verdict that a handler carries is the one it wrote to results.json: while it
\* closes its target, while it commits the last phases, and while it publishes.
TaskBacked ==
  \A r \in Runs : task[r].pc = "close" /\ task[r].arg \in Gates => results[r] = task[r].arg

WalkBacked ==
  thread.job = "walk" =>
    /\ thread.phase # "NONE"
    /\ thread.phase \in {"REPORTED", "GATED"} => results[thread.op] = thread.gate

PublishBacked ==
  thread.job = "publish" /\ thread.op \in Runs => results[thread.op] = thread.gate

CarriedBacked == TaskBacked /\ WalkBacked /\ PublishBacked

\* A Run with a verdict about the product, which nobody asked to resume, is over:
\* nothing that could write its records is queued, suspended or executing, except
\* for the second half of the save that published the verdict.
Publishing(r) == thread.job = "publish" /\ thread.op = r /\ thread.torn

Over(r) ==
  /\ run[r].gate = results[r]
  /\ run[r].status = "COMPLETED"
  /\ ops[r].status # "NONE"
  /\ r \notin Queued
  /\ task[r].pc = "none" \/ Publishing(r)
  /\ \/ Free
     \/ RunOf(thread.op) # r
     \/ thread.op \in Cancels /\ thread.job \in {"bind", "reply"}
     \/ Publishing(r)

JudgedIsOver == \A r \in Runs : run[r].gate \in Judged /\ ~ResumeAsked(r) => Over(r)

Inv ==
  /\ TypeOK
  /\ JobsFit
  /\ AttemptsLeft
  /\ Accepted
  /\ QueuedOnce
  /\ SegmentUncancelled
  /\ CarriedBacked
  /\ CancelSticks
  /\ JudgedIsOver

--------------------------------------------------------------------------------
(***************************************************************************)
(* Types of what the actions are put together from.                        *)
(***************************************************************************)

\* Every operation concerns one of the Runs.
LEMMA RunOfType == ASSUME TypeOK PROVE \A o \in Ops : RunOf(o) \in Runs
  BY DEF TypeOK, RunOf, Ops

\* The linear path never leaves the phases.
LEMMA FollowingType == \A p : Following(p) \in Phases
  BY SMT DEF Following, Phases, BranchAfter, Closing

\* Only AUDITED leads to REPORTED, and only REPORTED to GATED.
LEMMA FollowingBack ==
  \A p \in Phases :
    /\ Following(p) # "NONE"
    /\ Following(p) = "REPORTED" => p = "AUDITED"
    /\ Following(p) = "GATED" => p \in {"REPORTED", "GATED"}
  <1>1. \A p \in Phases : Following(p) # "NONE"
    BY DEF Following, Phases, BranchAfter, Closing
  <1>2. \A p \in Phases : Following(p) = "REPORTED" => p = "AUDITED"
    BY DEF Following, Phases, BranchAfter, Closing
  <1>3. \A p \in Phases \ {"GATED"} : Following(p) = "GATED" => p = "REPORTED"
    BY DEF Following, Phases, BranchAfter, Closing
  <1>. QED
    BY <1>1, <1>2, <1>3

\* A segment built from well-typed parts is well typed, and so is the idle one.
LEMMA SegmentType ==
  /\ Idle \in ThreadType
  /\ \A job \in Jobs, o \in Ops, p \in Phases \cup {"NONE"},
       g \in Gates \cup {"null"}, reply \in Terminal \cup {"none"} :
       Segment(job, o, p, g, reply) \in ThreadType
  BY OpsAssumption, SMT DEF Idle, Segment, ThreadType, Jobs, PersistJobs, Ops

\* Suspending or ending a handler keeps the types.
LEMMA ParkType ==
  ASSUME TypeOK, NEW o \in Ops, NEW t \in TaskType, Park(o, t.pc, t.arg)
  PROVE  task' \in [Ops -> TaskType] /\ thread' \in ThreadType
  <1>1. [pc |-> t.pc, arg |-> t.arg] \in TaskType
    BY DEF TaskType
  <1>. QED
    BY <1>1, SegmentType DEF Park, TypeOK

\* The segment keeps the type of the record, given that a revived Run has an
\* attempt left.
LEMMA NextRecordType ==
  ASSUME TypeOK, NEW rec \in RunType,
         thread.job = "revive" => rec.attempts < MaxResumeAttempts
  PROVE  NextRecord(rec) \in RunType
  <1>. DEFINE N == NextRecord(rec)
  <1>t. /\ thread.phase \in Phases \cup {"NONE"} /\ thread.gate \in Gates \cup {"null"}
        /\ rec.cancel \in BOOLEAN /\ "GATED" \in Phases
        /\ rec.attempts \in Nat /\ rec.attempts <= MaxResumeAttempts
    BY ParameterAssumption DEF TypeOK, ThreadType, RunType, Phases, Closing
  <1>1. CASE thread.job \in {"walk", "loop"}
    BY <1>t, <1>1 DEF NextRecord, RunType
  <1>2. CASE thread.job = "finalize" /\ thread.phase # "GATED"
    <2>. DEFINE c == rec.cancel \/ (thread.phase = "TERMINALIZING" /\ thread.op \in Cancels)
    <2>1. c \in BOOLEAN
      OBVIOUS
    <2>2. N = [rec EXCEPT !.phase = thread.phase, !.cancel = c]
      BY <1>2 DEF NextRecord
    <2>. HIDE DEF c
    <2>. QED
      BY <1>t, <2>1, <2>2 DEF RunType
  <1>3. CASE thread.job = "fail"
    BY <1>t, <1>3 DEF NextRecord, RunType
  <1>4. CASE thread.job = "revive"
    <2>1. rec.attempts + 1 \in 0..MaxResumeAttempts
      BY <1>t, <1>4, ParameterAssumption
    <2>. QED
      BY <2>1, <1>4 DEF NextRecord, RunType
  <1>5. CASE /\ thread.job \notin {"walk", "loop", "fail", "revive"}
             /\ ~(thread.job = "finalize" /\ thread.phase # "GATED")
    <2>1. N = [rec EXCEPT !.phase = "GATED", !.status = "COMPLETED", !.gate = thread.gate]
      BY <1>5, Zenon DEF NextRecord
    <2>. QED
      BY <1>t, <2>1 DEF RunType
  <1>. QED
    BY <1>1, <1>2, <1>3, <1>4, <1>5

\* Nothing of the record changes but its lease.
SameRecord(old, new) ==
  /\ new.phase = old.phase /\ new.status = old.status /\ new.gate = old.gate
  /\ new.cancel = old.cancel /\ new.attempts = old.attempts

\* The save itself only concerns the lease.
LEMMA SavedType ==
  ASSUME NEW rec \in RunType, NEW status
  PROVE  Saved(rec, status) \in RunType /\ SameRecord(rec, Saved(rec, status))
  <1>z. 0 \in 0..Confirmations
    BY ParameterAssumption
  <1>1. CASE status = "RUNNING" /\ rec.owner = "self"
    BY <1>z, <1>1 DEF Saved, RunType, SameRecord
  <1>2. CASE status = "RUNNING" /\ rec.owner # "self"
    BY <1>2 DEF Saved, SameRecord
  <1>3. CASE status # "RUNNING"
    BY <1>z, <1>3 DEF Saved, RunType, SameRecord
  <1>. QED
    BY <1>1, <1>2, <1>3

\* The continuations of an action keep the types of what they change.
LEMMA WalkType ==
  ASSUME TypeOK, NEW r \in Runs, NEW p \in Phases, NEW g \in Gates \cup {"null"},
         Walk(r, p, g)
  PROVE  /\ thread' \in ThreadType
         /\ task' \in [Ops -> TaskType]
         /\ results' \in [Runs -> Gates \cup {"null"}]
  <1>. DEFINE t == [pc |-> SegmentEnd(p), arg |-> g]
  <1>1. t \in TaskType /\ r \in Ops
    BY DEF TaskType, SegmentEnd, Ops
  <1>2. CASE run[r].cancel
    <2>1. Park(r, t.pc, t.arg)
      BY <1>2 DEF Walk
    <2>2. task' \in [Ops -> TaskType] /\ thread' \in ThreadType
      BY <1>1, <2>1, ParkType
    <2>3. results' \in [Runs -> Gates \cup {"null"}]
      BY <1>2 DEF Walk, WriteResults, TypeOK
    <2>. QED
      BY <2>2, <2>3
  <1>3. CASE ~run[r].cancel
    <2>1. thread' = Segment("walk", r, p, g, "none") /\ UNCHANGED <<task, results>>
      BY <1>3 DEF Walk
    <2>2. "walk" \in Jobs /\ "none" \in Terminal \cup {"none"} /\ p \in Phases \cup {"NONE"}
      BY DEF Jobs, PersistJobs
    <2>3. thread' \in ThreadType
      BY <1>1, <2>1, <2>2, SegmentType
    <2>. QED
      BY <2>1, <2>3 DEF TypeOK
  <1>. QED
    BY <1>2, <1>3

LEMMA FinalizeType ==
  ASSUME TypeOK, NEW o \in Ops, NEW g \in Gates, NEW reply \in Terminal \cup {"none"},
         Finalize(o, g, reply)
  PROVE  thread' \in ThreadType
  BY SegmentType DEF Finalize, Jobs, PersistJobs, Phases, Closing

\* What a turn of the resume loop does next.
LEMMA LoopCases ==
  ASSUME NEW o, NEW p, Loop(o, p)
  PROVE  \/ thread' = Segment("finalize", o, "RUNTIME_FINALIZED", "incomplete", "none")
         \/ /\ ~run[RunOf(o)].cancel
            /\ \/ thread' = Segment("publish", o, "GATED", "pass", "none")
               \/ \E q \in Phases \ {"GATED"} : thread' = Segment("loop", o, q, "null", "none")
  <1>. DEFINE next == IF p \in {"TERMINALIZING", "GATED"} THEN "CREATED" ELSE Following(p)
  <1>1. next \in Phases
    BY FollowingType DEF Phases, BranchAfter
  <1>. HIDE DEF next
  <1>2. \/ thread' = Segment("finalize", o, "RUNTIME_FINALIZED", "incomplete", "none")
        \/ /\ ~run[RunOf(o)].cancel
           /\ \/ thread' = Segment("publish", o, "GATED", "pass", "none")
              \/ next # "GATED" /\ thread' = Segment("loop", o, next, "null", "none")
    BY Zenon DEF Loop, next
  <1>. QED
    BY <1>1, <1>2, Zenon

LEMMA LoopType ==
  ASSUME TypeOK, NEW o \in Ops, NEW p, Loop(o, p)
  PROVE  thread' \in ThreadType
  BY LoopCases, SegmentType DEF Jobs, PersistJobs, Gates, Phases, Closing

\* What _prepareResume decides.
LEMMA PrepareResumeCases ==
  ASSUME TypeOK, NEW o \in Ops, PrepareResume(o)
  PROVE  LET r     == RunOf(o)
             reply == IF o \in Resumes THEN "COMPLETED" ELSE "none"
         IN \/ /\ UNCHANGED run
               /\ \/ thread' = Segment("finalize", o, "RUNTIME_FINALIZED", "incomplete", reply)
                  \/ thread' = Segment("finalize", o, "TERMINALIZING", "incomplete", reply)
            \/ /\ run[r].attempts < MaxResumeAttempts
               /\ \E n \in 0..Confirmations : run' = [run EXCEPT ![r].stale = n]
               /\ \/ thread' = Segment("takeover", o, "NONE", "null", "none")
                  \/ o \in Resumes /\ thread' = Segment("reply", o, "NONE", "null", reply)
                  \/ thread' = Idle
  <1>. DEFINE r == RunOf(o)
              seen == IF ~run[r].aged THEN 0
                      ELSE IF run[r].stale < Confirmations THEN run[r].stale + 1
                      ELSE Confirmations
              reply == IF o \in Resumes THEN "COMPLETED" ELSE "none"
  <1>1. r \in Runs /\ run[r] \in RunType
    BY RunOfType DEF TypeOK
  <1>2. seen \in 0..Confirmations
    BY <1>1, ParameterAssumption DEF RunType
  <1>3. CASE run[r].attempts >= MaxResumeAttempts
    <2>0. ~(run[r].attempts < MaxResumeAttempts)
      BY <1>1, <1>3, ParameterAssumption DEF RunType
    <2>1. Finalize(o, "incomplete", reply) /\ UNCHANGED run
      BY <1>3, <2>0, Zenon DEF PrepareResume
    <2>2. \/ thread' = Segment("finalize", o, "RUNTIME_FINALIZED", "incomplete", reply)
          \/ thread' = Segment("finalize", o, "TERMINALIZING", "incomplete", reply)
      BY <2>1, Zenon DEF Finalize
    <2>. QED
      BY <2>1, <2>2, Zenon
  <1>4. CASE ~(run[r].attempts >= MaxResumeAttempts)
    <2>1. run[r].attempts < MaxResumeAttempts
      BY <1>1, <1>4, ParameterAssumption DEF RunType
    <2>. HIDE DEF seen, reply
    <2>2. run' = [run EXCEPT ![r].stale = seen]
      BY <2>1, <1>4, Zenon DEF PrepareResume, seen
    <2>3. \/ thread' = Segment("takeover", o, "NONE", "null", "none")
          \/ o \in Resumes /\ thread' = Segment("reply", o, "NONE", "null", reply)
          \/ thread' = Idle
      BY <1>4, Zenon DEF PrepareResume, reply
    <2>4. \E n \in 0..Confirmations : run' = [run EXCEPT ![r].stale = n]
      BY <1>2, <2>2
    <2>. QED
      BY <2>1, <2>3, <2>4, Zenon DEF reply
  <1>. QED
    BY <1>3, <1>4

LEMMA PrepareResumeType ==
  ASSUME TypeOK, NEW o \in Ops, PrepareResume(o)
  PROVE  thread' \in ThreadType /\ run' \in [Runs -> RunType]
  <1>. DEFINE reply == IF o \in Resumes THEN "COMPLETED" ELSE "none"
              segments == { Segment("finalize", o, "RUNTIME_FINALIZED", "incomplete", reply),
                            Segment("finalize", o, "TERMINALIZING", "incomplete", reply),
                            Segment("takeover", o, "NONE", "null", "none"),
                            Segment("reply", o, "NONE", "null", reply), Idle }
  <1>1. reply \in Terminal \cup {"none"} /\ "none" \in Terminal \cup {"none"}
    BY DEF Terminal
  <1>. HIDE DEF reply
  <1>2. segments \subseteq ThreadType
    <2>1. /\ {"finalize", "takeover", "reply"} \subseteq Jobs
          /\ {"RUNTIME_FINALIZED", "TERMINALIZING", "NONE"} \subseteq Phases \cup {"NONE"}
          /\ {"null", "incomplete"} \subseteq Gates \cup {"null"}
      BY DEF Jobs, PersistJobs, Gates, Phases, Closing
    <2>2. /\ Segment("finalize", o, "RUNTIME_FINALIZED", "incomplete", reply) \in ThreadType
          /\ Segment("finalize", o, "TERMINALIZING", "incomplete", reply) \in ThreadType
      BY <1>1, <2>1, SegmentType
    <2>3. /\ Segment("takeover", o, "NONE", "null", "none") \in ThreadType
          /\ Segment("reply", o, "NONE", "null", reply) \in ThreadType
      BY <1>1, <2>1, SegmentType
    <2>4. Idle \in ThreadType
      BY SegmentType
    <2>. QED
      BY <2>2, <2>3, <2>4, Zenon
  <1>3. thread' \in segments
    BY PrepareResumeCases, Zenon DEF reply
  <1>4. run' \in [Runs -> RunType]
    <2>1. CASE UNCHANGED run
      BY <2>1 DEF TypeOK
    <2>2. ASSUME NEW n \in 0..Confirmations, run' = [run EXCEPT ![RunOf(o)].stale = n]
          PROVE  run' \in [Runs -> RunType]
      <3>1. ASSUME NEW rec \in RunType
            PROVE  [rec EXCEPT !.stale = n] \in RunType
        BY DEF RunType
      <3>2. run' = [run EXCEPT ![RunOf(o)] = [run[RunOf(o)] EXCEPT !.stale = n]]
        BY <2>2
      <3>. QED
        BY <3>1, <3>2, RunOfType DEF TypeOK
    <2>. QED
      BY <2>1, <2>2, PrepareResumeCases
  <1>. QED
    BY <1>2, <1>3, <1>4

\* What the catch block of _run does.
LEMMA CatchCases ==
  ASSUME NEW r, NEW e, Catch(r, e)
  PROVE  \/ thread' = Idle /\ task' = [task EXCEPT ![r] = Parked]
         \/ /\ UNCHANGED task
            /\ \/ \E p \in {"RUNTIME_FINALIZED", "TERMINALIZING"}, g \in {"incomplete", "infra"} :
                    thread' = Segment("finalize", r, p, g, "none")
               \/ thread' = Segment("fail", r, "NONE", "null", "none")
  <1>1. \/ Finalize(r, "incomplete", "none") /\ UNCHANGED task
        \/ Park(r, "none", "none")
        \/ Finalize(r, "infra", "none") /\ UNCHANGED task
        \/ thread' = Segment("fail", r, "NONE", "null", "none") /\ UNCHANGED task
    BY Zenon DEF Catch, EndTask
  <1>. QED
    BY <1>1 DEF Finalize, Park, Parked

LEMMA CatchType ==
  ASSUME TypeOK, NEW r \in Runs, NEW e, Catch(r, e)
  PROVE  thread' \in ThreadType /\ task' \in [Ops -> TaskType]
  <1>1. /\ "fail" \in Jobs /\ "finalize" \in Jobs /\ "none" \in Terminal \cup {"none"}
        /\ {"RUNTIME_FINALIZED", "TERMINALIZING", "NONE"} \subseteq Phases \cup {"NONE"}
        /\ {"null", "incomplete", "infra"} \subseteq Gates \cup {"null"}
        /\ r \in Ops /\ Parked \in TaskType
    BY DEF Jobs, PersistJobs, Gates, Phases, Closing, Ops, Parked, TaskType
  <1>2. CASE thread' = Idle /\ task' = [task EXCEPT ![r] = Parked]
    BY <1>1, <1>2, SegmentType DEF TypeOK
  <1>3. ASSUME NEW p \in {"RUNTIME_FINALIZED", "TERMINALIZING"}, NEW g \in {"incomplete", "infra"},
               UNCHANGED task, thread' = Segment("finalize", r, p, g, "none")
        PROVE  thread' \in ThreadType /\ task' \in [Ops -> TaskType]
    BY <1>1, <1>3, SegmentType DEF TypeOK
  <1>4. CASE UNCHANGED task /\ thread' = Segment("fail", r, "NONE", "null", "none")
    BY <1>1, <1>4, SegmentType DEF TypeOK
  <1>. QED
    BY <1>2, <1>3, <1>4, CatchCases

--------------------------------------------------------------------------------
(***************************************************************************)
(* Every step keeps the types.                                             *)
(***************************************************************************)

\* What a handler or the clock does about one Run, action by action.
OfRun(r) ==
  \/ AcceptAudit(r) \/ Age(r)
  \/ Opened(r) \/ Derived(r) \/ Filled(r) \/ Closed(r)
  \/ \E g \in Verdicts : Executed(r, g)
  \/ \E e \in Failures : AwaitFails(r, e)

\* A step of the next-state relation is a step of one of the actions.
LEMMA NextCases ==
  ASSUME Next
  PROVE  \/ WriteRunState \/ WriteOperation \/ CreateRun \/ Bind \/ TakeOver \/ Reply
         \/ Tick
         \/ \E r \in Runs : OfRun(r)
         \/ \E o \in Resumes \cup Cancels, r \in Runs : AcceptTarget(o, r)
         \/ \E o \in Resumes : Woken(o)
         \/ \E e \in Failures : StorageFails(e)
         \/ Start \/ Stop \/ Crash
  <1>1. ASSUME NEW r \in Runs, AcceptAudit(r) \/ Settle(r) \/ Age(r)
        PROVE  OfRun(r)
    BY <1>1, Zenon DEF Settle, OfRun
  <1>. QED
    BY <1>1, Zenon DEF Next, Proceed

LEMMA WriteRunStateType ==
  ASSUME TypeOK, AttemptsLeft, WriteRunState
  PROVE  TypeOK'
  <1>. DEFINE r == RunOf(thread.op)
  <1>1. thread.op \in Ops /\ r \in Runs /\ run[r] \in RunType
    BY RunOfType DEF TypeOK, ThreadType
  <1>2. thread.job = "revive" => run[r].attempts < MaxResumeAttempts
    BY DEF WriteRunState, AttemptsLeft
  <1>3. Saved(NextRecord(run[r]), OperationStatus) \in RunType
    BY <1>1, <1>2, NextRecordType, SavedType
  <1>4. run' = [run EXCEPT ![r] = Saved(NextRecord(run[r]), OperationStatus)]
    BY DEF WriteRunState
  <1>5. run' \in [Runs -> RunType]
    BY <1>1, <1>3, <1>4 DEF TypeOK
  <1>6. thread' \in ThreadType
    BY DEF WriteRunState, TypeOK, ThreadType
  <1>. QED
    BY <1>5, <1>6 DEF WriteRunState, TypeOK

LEMMA WriteOperationType ==
  ASSUME TypeOK, JobsFit, WriteOperation
  PROVE  TypeOK'
  <1>. DEFINE o == thread.op
  <1>1. /\ o \in Ops /\ RunOf(o) \in Runs /\ thread.gate \in Gates \cup {"null"}
        /\ thread.phase \in Phases \cup {"NONE"}
    BY RunOfType DEF TypeOK, ThreadType
  <1>2. ops' \in [Ops -> [status : Statuses, target : Runs, bound : BOOLEAN]]
    <2>1. OperationStatus \in Statuses
      BY DEF OperationStatus, Statuses
    <2>2. ops' = [ops EXCEPT ![RunOf(o)].status = OperationStatus]
      BY DEF WriteOperation
    <2>. QED
      BY <1>1, <2>1, <2>2 DEF TypeOK
  <1>3. UNCHANGED <<up, run, queue>>
    BY DEF WriteOperation
  <1>4. /\ thread' \in ThreadType
        /\ task' \in [Ops -> TaskType]
        /\ results' \in [Runs -> Gates \cup {"null"}]
    <2>0. /\ [thread EXCEPT !.phase = Following(thread.phase), !.torn = FALSE] \in ThreadType
          /\ [thread EXCEPT !.job = "reply", !.torn = FALSE] \in ThreadType
      BY FollowingType DEF TypeOK, ThreadType, Jobs
    <2>1. CASE thread.job = "walk" /\ AwaitAfter(thread.phase) = "none"
      <3>1. /\ thread' = [thread EXCEPT !.phase = Following(thread.phase), !.torn = FALSE]
            /\ UNCHANGED task
            /\ WriteResults(o, thread.gate) \/ UNCHANGED results
        BY <2>1, Zenon DEF WriteOperation
      <3>. QED
        BY <1>1, <2>0, <3>1 DEF WriteResults, TypeOK
    <2>2. CASE thread.job = "walk" /\ AwaitAfter(thread.phase) # "none"
      <3>. DEFINE t == [pc |-> AwaitAfter(thread.phase), arg |-> thread.gate]
      <3>1. t \in TaskType
        BY <1>1, <2>2 DEF TaskType, AwaitAfter
      <3>2. Park(o, t.pc, t.arg) /\ UNCHANGED results
        BY <2>2 DEF WriteOperation
      <3>. QED
        BY <1>1, <3>1, <3>2, ParkType DEF TypeOK
    <2>3. CASE thread.job = "loop"
      <3>. DEFINE t == [pc |-> "sleep", arg |-> thread.phase]
      <3>1. t \in TaskType
        BY <1>1 DEF TaskType
      <3>2. Park(o, t.pc, t.arg) /\ UNCHANGED results
        BY <2>3 DEF WriteOperation
      <3>. QED
        BY <1>1, <3>1, <3>2, ParkType DEF TypeOK
    <2>4. CASE thread.job \in {"publish", "fail"}
      <3>. DEFINE t == [pc |-> "none", arg |-> "none"]
      <3>1. t \in TaskType
        BY DEF TaskType
      <3>2. Park(o, t.pc, t.arg) /\ UNCHANGED results
        BY <2>4 DEF WriteOperation, EndTask
      <3>. QED
        BY <1>1, <3>1, <3>2, ParkType DEF TypeOK
    <2>5. CASE thread.job = "finalize"
      <3>. DEFINE t == [pc |-> "none", arg |-> "none"]
      <3>1. t \in TaskType
        BY DEF TaskType
      <3>2. /\ UNCHANGED results
            /\ \/ /\ \/ thread' = [thread EXCEPT !.phase = Following(thread.phase), !.torn = FALSE]
                     \/ thread' = [thread EXCEPT !.job = "reply", !.torn = FALSE]
                  /\ UNCHANGED task
               \/ Park(o, t.pc, t.arg)
        BY <2>5 DEF WriteOperation, EndTask
      <3>. QED
        BY <1>1, <2>0, <3>1, <3>2, ParkType DEF TypeOK
    <2>6. CASE thread.job = "revive" /\ o \in Runs
      <3>1. Walk(o, "TARGET_READY", "null")
        BY <2>6, OpsAssumption DEF WriteOperation
      <3>. QED
        BY <2>6, <3>1, WalkType DEF Phases, BranchAfter
    <2>7. CASE thread.job = "revive" /\ o \in Resumes
      <3>1. Loop(o, run[RunOf(o)].phase) /\ UNCHANGED <<task, results>>
        BY <2>7, OpsAssumption DEF WriteOperation
      <3>. QED
        BY <1>1, <3>1, LoopType DEF TypeOK
    <2>. QED
      BY <2>1, <2>2, <2>3, <2>4, <2>5, <2>6, <2>7 DEF WriteOperation
  <1>. QED
    BY <1>2, <1>3, <1>4 DEF TypeOK

\* The updates of a record outside a save keep its type.
LEMMA LeaseUpdateType ==
  ASSUME NEW rec \in RunType
  PROVE  /\ NewRun \in RunType
         /\ [rec EXCEPT !.aged = TRUE] \in RunType
         /\ [rec EXCEPT !.owner = "gone"] \in RunType
         /\ [rec EXCEPT !.owner = "self", !.aged = FALSE, !.stale = 0] \in RunType
  <1>1. 0 \in 0..MaxResumeAttempts /\ 0 \in 0..Confirmations /\ "CREATED" \in Phases
    BY ParameterAssumption DEF Phases, BranchAfter
  <1>2. NoRun \in RunType
    BY <1>1 DEF NoRun, RunType
  <1>3. NewRun \in RunType
    <2>1. ASSUME NEW s \in RunType
          PROVE  [s EXCEPT !.phase = "CREATED", !.status = "ACTIVE", !.owner = "self"] \in RunType
      BY <1>1 DEF RunType
    <2>. QED
      BY <1>2, <2>1 DEF NewRun
  <1>4. [rec EXCEPT !.aged = TRUE] \in RunType
    BY DEF RunType
  <1>5. [rec EXCEPT !.owner = "gone"] \in RunType
    BY DEF RunType
  <1>6. [rec EXCEPT !.owner = "self", !.aged = FALSE, !.stale = 0] \in RunType
    BY <1>1 DEF RunType
  <1>. QED
    BY <1>3, <1>4, <1>5, <1>6

\* A handler that is started, goes on or is suspended changes nothing else.
LEMMA OfRunType ==
  ASSUME TypeOK, NEW r \in Runs, OfRun(r)
  PROVE  TypeOK'
  <1>0. /\ r \in Ops /\ "null" \in Gates \cup {"null"} /\ Verdicts \subseteq Gates
        /\ {"SEED_RESOLVED", "COVERAGE_DERIVED", "PLAN_FILLED", "EXECUTION_FINISHED"} \subseteq Phases
    BY ParameterAssumption DEF Ops, Phases, BranchAfter
  <1>1. CASE AcceptAudit(r)
    <2>1. ops' \in [Ops -> [status : Statuses, target : Runs, bound : BOOLEAN]]
      BY <1>0, <1>1 DEF AcceptAudit, TypeOK, Statuses
    <2>2. thread' \in ThreadType
      BY <1>0, <1>1, SegmentType DEF AcceptAudit, Jobs, Phases, BranchAfter
    <2>. QED
      BY <1>1, <2>1, <2>2 DEF AcceptAudit, TypeOK
  <1>2. CASE Age(r)
    <2>1. run' = [run EXCEPT ![r] = [run[r] EXCEPT !.aged = TRUE]]
      BY <1>2 DEF Age
    <2>2. run' \in [Runs -> RunType]
      BY <2>1, LeaseUpdateType DEF TypeOK
    <2>. QED
      BY <1>2, <2>2 DEF Age, TypeOK
  <1>3. CASE Opened(r) \/ Derived(r) \/ Filled(r)
    <2>1. \E p \in {"SEED_RESOLVED", "COVERAGE_DERIVED", "PLAN_FILLED"} : Walk(r, p, "null")
      BY <1>3, Zenon DEF Opened, Derived, Filled
    <2>. QED
      BY <1>0, <1>3, <2>1, WalkType DEF Opened, Derived, Filled, TypeOK
  <1>4. CASE \E g \in Verdicts : Executed(r, g)
    <2>1. PICK g \in Verdicts : Executed(r, g)
      BY <1>4
    <2>2. Walk(r, "EXECUTION_FINISHED", g) /\ UNCHANGED <<up, ops, run, queue>>
      BY <2>1 DEF Executed
    <2>. QED
      BY <1>0, <2>2, WalkType DEF TypeOK
  <1>5. CASE Closed(r)
    <2>0. UNCHANGED <<up, ops, run, results, queue>>
      BY <1>5 DEF Closed
    <2>1. thread' \in ThreadType /\ task' \in [Ops -> TaskType]
      <3>1. CASE Catch(r, task[r].arg)
        BY <3>1, CatchType
      <3>2. CASE EndTask(r)
        <4>. DEFINE t == [pc |-> "none", arg |-> "none"]
        <4>1. t \in TaskType
          BY DEF TaskType
        <4>2. Park(r, t.pc, t.arg)
          BY <3>2 DEF EndTask
        <4>. QED
          BY <1>0, <4>1, <4>2, ParkType
      <3>3. CASE /\ task[r].arg \in Gates /\ UNCHANGED task
                 /\ thread' = Segment("publish", r, "GATED", task[r].arg, "none")
        <4>1. "publish" \in Jobs /\ "GATED" \in Phases \cup {"NONE"}
          BY DEF Jobs, PersistJobs, Phases, Closing
        <4>. QED
          BY <1>0, <3>3, <4>1, SegmentType DEF TypeOK
      <3>. QED
        BY <1>5, <3>1, <3>2, <3>3, Zenon DEF Closed
    <2>. QED
      BY <2>0, <2>1 DEF TypeOK
  <1>6. CASE \E e \in Failures : AwaitFails(r, e)
    <2>1. PICK e \in Failures : AwaitFails(r, e)
      BY <1>6
    <2>. DEFINE t == [pc |-> "close", arg |-> e]
    <2>2. t \in TaskType
      BY ParameterAssumption DEF TaskType
    <2>3. UNCHANGED <<up, ops, run, results, queue>> /\ (Catch(r, e) \/ Park(r, t.pc, t.arg))
      BY <2>1 DEF AwaitFails
    <2>4. thread' \in ThreadType /\ task' \in [Ops -> TaskType]
      BY <1>0, <2>2, <2>3, CatchType, ParkType
    <2>. QED
      BY <2>3, <2>4 DEF TypeOK
  <1>. QED
    BY <1>1, <1>2, <1>3, <1>4, <1>5, <1>6, Zenon DEF OfRun

LEMMA TickType ==
  ASSUME TypeOK, Tick
  PROVE  TypeOK'
  <1>. DEFINE o == Head(queue)
  <1>1. o \in Ops /\ queue' \in Seq(Ops) /\ UNCHANGED <<up, ops>>
    BY DEF Tick, TypeOK
  <1>2. CASE o \in Runs /\ StartAudit(o)
    <2>1. "TARGET_READY" \in Phases /\ "null" \in Gates \cup {"null"}
      BY DEF Phases, BranchAfter
    <2>2. CASE Walk(o, "TARGET_READY", "null") /\ UNCHANGED run
      BY <1>1, <1>2, <2>1, <2>2, WalkType DEF TypeOK
    <2>3. CASE PrepareResume(o) /\ UNCHANGED <<task, results>>
      BY <1>1, <2>3, PrepareResumeType DEF TypeOK
    <2>. QED
      BY <1>2, <2>2, <2>3 DEF StartAudit
  <1>3. CASE o \in Resumes /\ StartResume(o)
    <2>0. UNCHANGED <<task, results>>
      BY <1>3 DEF StartResume
    <2>1. CASE PrepareResume(o)
      BY <1>1, <2>0, <2>1, PrepareResumeType DEF TypeOK
    <2>2. CASE ~PrepareResume(o)
      <3>. DEFINE reply == IF run[RunOf(o)].status = "FAILED" THEN "FAILED" ELSE "COMPLETED"
      <3>1. UNCHANGED run /\ thread' = Segment("reply", o, "NONE", "null", reply)
        BY <1>3, <2>2 DEF StartResume
      <3>2. reply \in Terminal \cup {"none"} /\ "reply" \in Jobs
        BY DEF Terminal, Jobs
      <3>3. thread' \in ThreadType
        BY <1>1, <3>1, <3>2, SegmentType
      <3>. QED
        BY <1>1, <2>0, <3>1, <3>3 DEF TypeOK
    <2>. QED
      BY <2>1, <2>2
  <1>4. CASE o \in Cancels /\ StartCancel(o)
    <2>1. /\ UNCHANGED <<run, task, results>>
          /\ \/ thread' = Segment("reply", o, "NONE", "null", "COMPLETED")
             \/ thread' = Segment("finalize", o, "TERMINALIZING", "incomplete", "COMPLETED")
      BY <1>4, Zenon DEF StartCancel
    <2>2. /\ "reply" \in Jobs /\ "finalize" \in Jobs /\ "COMPLETED" \in Terminal \cup {"none"}
          /\ "incomplete" \in Gates \cup {"null"} /\ "TERMINALIZING" \in Phases \cup {"NONE"}
          /\ "null" \in Gates \cup {"null"} /\ "NONE" \in Phases \cup {"NONE"}
      BY DEF Jobs, PersistJobs, Terminal, Gates, Phases
    <2>a. Segment("reply", o, "NONE", "null", "COMPLETED") \in ThreadType
      BY <1>1, <2>2, SegmentType
    <2>b. Segment("finalize", o, "TERMINALIZING", "incomplete", "COMPLETED") \in ThreadType
      BY <1>1, <2>2, SegmentType
    <2>3. thread' \in ThreadType
      BY <2>1, <2>a, <2>b
    <2>. QED
      BY <1>1, <2>1, <2>3 DEF TypeOK
  <1>. QED
    BY <1>2, <1>3, <1>4 DEF Tick

\* What _resyncFromRegistry puts back is a sequence of operations.
LEMMA StartType ==
  ASSUME TypeOK, Start
  PROVE  TypeOK'
  <1>. DEFINE S == Recoverable \ (Queued \cup Running)
  <1>1. PICK s \in SetToSeqs(S) : queue' = queue \o s
    BY DEF Start
  <1>2. IsFiniteSet(Ops) /\ S \subseteq Ops
    BY OpsAssumption, FS_Union DEF Ops, Recoverable
  <1>3. Cardinality(S) \in Nat
    BY <1>2, FS_Subset, FS_CardinalityType
  <1>4. s \in [1..Cardinality(S) -> S]
    BY DEF SetToSeqs
  <1>. HIDE DEF S
  <1>5. s \in Seq(Ops)
    BY <1>2, <1>3, <1>4
  <1>. QED
    BY <1>1, <1>5 DEF Start, TypeOK

\* The type invariant is inductive together with the attempts left to a takeover
\* and the fit of jobs and operations.
LEMMA TypeStep ==
  ASSUME TypeOK, JobsFit, AttemptsLeft, [Next]_vars
  PROVE  TypeOK'
  <1>0. thread.op \in Ops /\ RunOf(thread.op) \in Runs /\ Parked \in TaskType
    BY RunOfType DEF TypeOK, ThreadType, Parked, TaskType
  <1>1. CASE WriteRunState
    BY <1>1, WriteRunStateType
  <1>2. CASE WriteOperation
    BY <1>2, WriteOperationType
  <1>3. CASE CreateRun
    <2>1. NewRun \in RunType
      BY <1>0, LeaseUpdateType DEF TypeOK
    <2>2. run' \in [Runs -> RunType] /\ thread' \in ThreadType
      BY <1>3, <2>1 DEF CreateRun, TypeOK, ThreadType, Jobs
    <2>. QED
      BY <1>3, <2>2 DEF CreateRun, TypeOK
  <1>4. CASE Bind
    <2>1. ops' \in [Ops -> [status : Statuses, target : Runs, bound : BOOLEAN]]
      <3>. DEFINE status == IF thread.op \in Runs THEN "RUNNING" ELSE "ACCEPTED"
      <3>1. status \in Statuses
        BY DEF Statuses
      <3>2. ops' = [ops EXCEPT ![thread.op].bound = TRUE, ![thread.op].status = status]
        BY <1>4 DEF Bind
      <3>. QED
        BY <1>0, <3>1, <3>2 DEF TypeOK
    <2>2. queue' \in Seq(Ops)
      BY <1>0, <1>4 DEF Bind, Enqueue, TypeOK
    <2>. QED
      BY <1>4, <2>1, <2>2, SegmentType DEF Bind, TypeOK
  <1>5. CASE TakeOver
    <2>. DEFINE r == RunOf(thread.op)
    <2>1. run' = [run EXCEPT ![r] =
                    [run[r] EXCEPT !.owner = "self", !.aged = FALSE, !.stale = 0]]
      BY <1>5 DEF TakeOver
    <2>2. run' \in [Runs -> RunType]
      BY <1>0, <2>1, LeaseUpdateType DEF TypeOK
    <2>3. thread' \in ThreadType
      BY <1>5 DEF TakeOver, TypeOK, ThreadType, Jobs, PersistJobs
    <2>. QED
      BY <1>5, <2>2, <2>3 DEF TakeOver, TypeOK
  <1>6. CASE Reply
    <2>1. ops' \in [Ops -> [status : Statuses, target : Runs, bound : BOOLEAN]]
      BY <1>0, <1>6 DEF Reply, TypeOK, JobsFit, ThreadType, Statuses, Terminal
    <2>2. task' \in [Ops -> TaskType] /\ thread' \in ThreadType
      BY <1>0, <1>6, SegmentType DEF Reply, EndTask, Park, TypeOK, Parked
    <2>. QED
      BY <1>6, <2>1, <2>2 DEF Reply, TypeOK
  <1>7. CASE Tick
    BY <1>7, TickType
  <1>8. ASSUME NEW r \in Runs, OfRun(r)
        PROVE  TypeOK'
    BY <1>8, OfRunType
  <1>9. ASSUME NEW o \in Resumes \cup Cancels, NEW r \in Runs, AcceptTarget(o, r)
        PROVE  TypeOK'
    <2>1. ops' \in [Ops -> [status : Statuses, target : Runs, bound : BOOLEAN]]
      BY <1>9 DEF AcceptTarget, TypeOK, Statuses
    <2>2. o \in Ops /\ "bind" \in Jobs
      BY DEF Ops, Jobs
    <2>3. thread' \in ThreadType
      BY <1>9, <2>2, SegmentType DEF AcceptTarget
    <2>. QED
      BY <1>9, <2>1, <2>3 DEF AcceptTarget, TypeOK
  <1>10. ASSUME NEW o \in Resumes, Woken(o)
         PROVE  TypeOK'
    <2>1. o \in Ops
      BY DEF Ops
    <2>2. thread' \in ThreadType
      BY <1>10, <2>1, LoopType DEF Woken
    <2>. QED
      BY <1>10, <2>2 DEF Woken, TypeOK
  <1>11. ASSUME NEW e \in Failures, StorageFails(e)
         PROVE  TypeOK'
    <2>. DEFINE t == [pc |-> "close", arg |-> e]
    <2>1. t \in TaskType /\ thread.op \in Runs
      BY <1>11, ParameterAssumption DEF TaskType, StorageFails, JobsFit
    <2>2. Catch(thread.op, e) \/ Park(thread.op, t.pc, t.arg)
      BY <1>11 DEF StorageFails
    <2>3. thread' \in ThreadType /\ task' \in [Ops -> TaskType]
      BY <1>0, <2>1, <2>2, CatchType, ParkType
    <2>. QED
      BY <1>11, <2>3 DEF StorageFails, TypeOK
  <1>12. CASE Start
    BY <1>12, StartType
  <1>13. CASE Stop
    BY <1>13 DEF Stop, TypeOK
  <1>14. CASE Crash
    <2>1. run' \in [Runs -> RunType]
      BY <1>14, LeaseUpdateType DEF Crash, TypeOK
    <2>. QED
      BY <1>0, <1>14, <2>1, SegmentType DEF Crash, TypeOK
  <1>15. CASE UNCHANGED vars
    BY <1>15 DEF vars, TypeOK
  <1>. QED
    BY <1>1, <1>2, <1>3, <1>4, <1>5, <1>6, <1>7, <1>8, <1>9, <1>10, <1>11, <1>12,
       <1>13, <1>14, <1>15, NextCases

--------------------------------------------------------------------------------
(***************************************************************************)
(* What the composite actions do, alternative by alternative.              *)
(***************************************************************************)

LEMMA TickCases ==
  ASSUME Tick
  PROVE  LET o == Head(queue)
         IN /\ Free /\ queue # <<>> /\ queue' = Tail(queue) /\ UNCHANGED <<up, ops>>
            /\ \/ /\ o \in Runs /\ run[o].owner = "self"
                  /\ Walk(o, "TARGET_READY", "null") /\ UNCHANGED run
               \/ /\ o \in Runs \cup Resumes /\ PrepareResume(o) /\ UNCHANGED <<task, results>>
                  /\ \/ o \in Runs /\ run[o].owner # "self"
                     \/ /\ o \in Resumes /\ run[RunOf(o)].status \notin Terminal
                        /\ run[RunOf(o)].status = "ACTIVE" => run[RunOf(o)].owner # "self"
               \/ /\ o \in Resumes \cup Cancels /\ UNCHANGED <<run, task, results>>
                  /\ \E reply \in Terminal : thread' = Segment("reply", o, "NONE", "null", reply)
               \/ /\ o \in Cancels /\ UNCHANGED <<run, task, results>>
                  /\ run[RunOf(o)].phase # "GATED" /\ run[RunOf(o)].status \notin Terminal
                  /\ thread' = Segment("finalize", o, "TERMINALIZING", "incomplete", "COMPLETED")
  <1>. DEFINE o == Head(queue)
  <1>1. CASE o \in Runs /\ StartAudit(o)
    BY <1>1, Zenon DEF Tick, StartAudit
  <1>2. CASE o \in Resumes /\ StartResume(o)
    <2>. DEFINE reply == IF run[RunOf(o)].status = "FAILED" THEN "FAILED" ELSE "COMPLETED"
                done == \/ run[RunOf(o)].status \in {"COMPLETED", "FAILED"}
                        \/ run[RunOf(o)].status = "ACTIVE" /\ run[RunOf(o)].owner = "self"
    <2>1. CASE PrepareResume(o) /\ ~done
      <3>1. UNCHANGED <<task, results>>
        BY <1>2, Zenon DEF StartResume
      <3>. QED
        BY <1>2, <2>1, <3>1, Zenon DEF Tick, Terminal
    <2>2. CASE ~(PrepareResume(o) /\ ~done)
      <3>1. UNCHANGED <<run, task, results>> /\ thread' = Segment("reply", o, "NONE", "null", reply)
        BY <1>2, <2>2, Zenon DEF StartResume
      <3>2. reply \in Terminal
        BY DEF Terminal
      <3>. QED
        BY <1>2, <3>1, <3>2, Zenon DEF Tick
    <2>. QED
      BY <2>1, <2>2
  <1>3. CASE o \in Cancels /\ StartCancel(o)
    <2>1. CASE run[RunOf(o)].phase = "GATED" \/ run[RunOf(o)].status \in {"COMPLETED", "FAILED"}
      <3>1. UNCHANGED <<run, task, results>> /\ thread' = Segment("reply", o, "NONE", "null", "COMPLETED")
        BY <1>3, <2>1, Zenon DEF StartCancel
      <3>2. "COMPLETED" \in Terminal
        BY DEF Terminal
      <3>. QED
        BY <1>3, <3>1, <3>2, Zenon DEF Tick
    <2>2. CASE ~(run[RunOf(o)].phase = "GATED" \/ run[RunOf(o)].status \in {"COMPLETED", "FAILED"})
      <3>1. /\ UNCHANGED <<run, task, results>>
            /\ thread' = Segment("finalize", o, "TERMINALIZING", "incomplete", "COMPLETED")
        BY <1>3, <2>2, Zenon DEF StartCancel
      <3>2. run[RunOf(o)].phase # "GATED" /\ run[RunOf(o)].status \notin Terminal
        BY <2>2 DEF Terminal
      <3>. QED
        BY <1>3, <3>1, <3>2, Zenon DEF Tick
    <2>. QED
      BY <2>1, <2>2
  <1>. QED
    BY <1>1, <1>2, <1>3, Zenon DEF Tick

LEMMA WalkCases ==
  ASSUME NEW r, NEW p, NEW g, Walk(r, p, g)
  PROVE  \/ /\ ~run[r].cancel
            /\ thread' = Segment("walk", r, p, g, "none") /\ UNCHANGED <<task, results>>
         \/ /\ run[r].cancel
            /\ thread' = Idle /\ task' = [task EXCEPT ![r] = [pc |-> SegmentEnd(p), arg |-> g]]
            /\ \/ SegmentEnd(p) = "close" /\ results' = [results EXCEPT ![r] = g]
               \/ SegmentEnd(p) # "close" /\ UNCHANGED results
  BY DEF Walk, Park, WriteResults

LEMMA WriteOperationCases ==
  ASSUME TypeOK, WriteOperation
  PROVE  LET o == thread.op
         IN \/ /\ thread.job = "walk" /\ AwaitAfter(thread.phase) = "none"
               /\ thread' = [thread EXCEPT !.phase = Following(thread.phase), !.torn = FALSE]
               /\ UNCHANGED task
               /\ \/ thread.phase = "AUDITED" /\ results' = [results EXCEPT ![o] = thread.gate]
                  \/ thread.phase # "AUDITED" /\ UNCHANGED results
            \/ /\ thread.job = "walk" /\ AwaitAfter(thread.phase) # "none"
               /\ thread' = Idle /\ UNCHANGED results
               /\ task' = [task EXCEPT ![o] = [pc |-> AwaitAfter(thread.phase), arg |-> thread.gate]]
            \/ /\ thread.job = "loop" /\ thread' = Idle /\ UNCHANGED results
               /\ task' = [task EXCEPT ![o] = [pc |-> "sleep", arg |-> thread.phase]]
            \/ /\ thread.job = "finalize" /\ UNCHANGED <<task, results>>
               /\ thread.phase # "GATED"
               /\ thread' = [thread EXCEPT !.phase = Following(thread.phase), !.torn = FALSE]
            \/ /\ thread.job = "finalize" /\ thread.reply # "none" /\ UNCHANGED <<task, results>>
               /\ thread.phase = "GATED"
               /\ thread' = [thread EXCEPT !.job = "reply", !.torn = FALSE]
            \/ /\ thread.job \in {"publish", "fail", "finalize"} /\ UNCHANGED results
               /\ thread.job = "finalize" => thread.phase = "GATED" /\ thread.reply = "none"
               /\ thread' = Idle /\ task' = [task EXCEPT ![o] = Parked]
            \/ thread.job = "revive" /\ o \in Runs /\ Walk(o, "TARGET_READY", "null")
            \/ /\ thread.job = "revive" /\ o \in Resumes /\ UNCHANGED <<task, results>>
               /\ Loop(o, run[RunOf(o)].phase)
  BY Zenon DEF WriteOperation, Park, EndTask, Parked, WriteResults

--------------------------------------------------------------------------------
(***************************************************************************)
(* Every step keeps the fit of jobs and operations and the attempts left.  *)
(***************************************************************************)

\* A thread that is idle fits anything.
LEMMA IdleFits ==
  ASSUME thread' = Idle
  PROVE  JobsFit' /\ AttemptsLeft'
  BY DEF Idle, JobsFit, AttemptsLeft

LEMMA LoopFits ==
  ASSUME TypeOK, NEW o \in Resumes, NEW p, Loop(o, p)
  PROVE  JobsFit' /\ AttemptsLeft'
  <1>1. o \in Ops
    BY DEF Ops
  <1>2. \E job \in {"finalize", "publish", "loop"} : \E q, g :
           /\ thread' = Segment(job, o, q, g, "none")
           /\ job = "finalize" => g = "incomplete"
    BY LoopCases
  <1>. QED
    BY <1>1, <1>2 DEF Segment, JobsFit, AttemptsLeft

LEMMA CatchFits ==
  ASSUME TypeOK, NEW r \in Runs, NEW e, Catch(r, e)
  PROVE  JobsFit' /\ AttemptsLeft'
  <1>1. CASE thread' = Idle
    BY <1>1, IdleFits
  <1>2. CASE \E p \in {"RUNTIME_FINALIZED", "TERMINALIZING"}, g \in {"incomplete", "infra"} :
               thread' = Segment("finalize", r, p, g, "none")
    BY <1>2 DEF Segment, JobsFit, AttemptsLeft
  <1>3. CASE thread' = Segment("fail", r, "NONE", "null", "none")
    BY <1>3 DEF Segment, JobsFit, AttemptsLeft
  <1>. QED
    BY <1>1, <1>2, <1>3, CatchCases

LEMMA WalkFits ==
  ASSUME TypeOK, NEW r \in Runs, NEW p, NEW g, task[r].pc # "close", Walk(r, p, g)
  PROVE  JobsFit' /\ AttemptsLeft'
  <1>1. CASE thread' = Idle
    BY <1>1, IdleFits
  <1>2. CASE thread' = Segment("walk", r, p, g, "none") /\ UNCHANGED task
    BY <1>2 DEF Segment, JobsFit, AttemptsLeft
  <1>. QED
    BY <1>1, <1>2, WalkCases

LEMMA PrepareResumeFits ==
  ASSUME TypeOK, NEW o \in Runs \cup Resumes, task[o].pc = "none", PrepareResume(o),
         UNCHANGED <<ops, task>>
  PROVE  JobsFit' /\ AttemptsLeft'
  <1>. DEFINE reply == IF o \in Resumes THEN "COMPLETED" ELSE "none"
  <1>0. o \in Ops /\ RunOf(o) \in Runs /\ run[RunOf(o)] \in RunType
    BY RunOfType DEF Ops, TypeOK
  <1>1. CASE thread' = Idle
    BY <1>1, IdleFits
  <1>2. CASE \E p \in {"RUNTIME_FINALIZED", "TERMINALIZING"} :
               thread' = Segment("finalize", o, p, "incomplete", reply)
    BY <1>2 DEF Segment, JobsFit, AttemptsLeft
  <1>3. CASE o \in Resumes /\ thread' = Segment("reply", o, "NONE", "null", reply)
    BY <1>3 DEF Segment, JobsFit, AttemptsLeft
  <1>4. CASE /\ thread' = Segment("takeover", o, "NONE", "null", "none")
             /\ run[RunOf(o)].attempts < MaxResumeAttempts
             /\ \E n \in 0..Confirmations : run' = [run EXCEPT ![RunOf(o)].stale = n]
    <2>1. JobsFit'
      BY <1>4 DEF Segment, JobsFit
    <2>2. run'[RunOf(o)].attempts = run[RunOf(o)].attempts
      BY <1>0, <1>4 DEF TypeOK, RunType
    <2>3. RunOf(o)' = RunOf(o)
      BY DEF RunOf
    <2>4. AttemptsLeft'
      BY <1>4, <2>2, <2>3 DEF Segment, AttemptsLeft
    <2>. QED
      BY <2>1, <2>4
  <1>. QED
    BY <1>0, <1>1, <1>2, <1>3, <1>4, PrepareResumeCases

LEMMA WriteOperationFits ==
  ASSUME TypeOK, JobsFit, WriteOperation
  PROVE  JobsFit' /\ AttemptsLeft'
  <1>. DEFINE o == thread.op
  <1>0. thread \in ThreadType
    BY DEF TypeOK
  <1>1. CASE thread' = Idle
    BY <1>1, IdleFits
  <1>2. CASE /\ thread.job \in {"walk", "finalize"} /\ UNCHANGED task
             /\ thread' = [thread EXCEPT !.phase = Following(thread.phase), !.torn = FALSE]
    BY <1>0, <1>2 DEF ThreadType, JobsFit, AttemptsLeft
  <1>3. CASE /\ thread.reply # "none"
             /\ thread' = [thread EXCEPT !.job = "reply", !.torn = FALSE]
    BY <1>0, <1>3 DEF ThreadType, JobsFit, AttemptsLeft
  <1>4. CASE thread.job = "revive" /\ o \in Runs /\ Walk(o, "TARGET_READY", "null")
    <2>1. task[o].pc # "close"
      BY <1>4 DEF JobsFit
    <2>. QED
      BY <1>4, <2>1, WalkFits
  <1>5. CASE o \in Resumes /\ Loop(o, run[RunOf(o)].phase)
    BY <1>5, LoopFits
  <1>. QED
    BY <1>1, <1>2, <1>3, <1>4, <1>5, WriteOperationCases, Zenon

LEMMA TickFits ==
  ASSUME TypeOK, QueuedOnce, Tick
  PROVE  JobsFit' /\ AttemptsLeft'
  <1>. DEFINE o == Head(queue)
  <1>1. queue # <<>> /\ UNCHANGED ops
    BY TickCases
  <1>2. o \in Queued
    BY <1>1 DEF TypeOK, Queued
  <1>3. task[o].pc = "none"
    BY <1>2 DEF QueuedOnce
  <1>4. CASE o \in Runs /\ Walk(o, "TARGET_READY", "null")
    BY <1>3, <1>4, WalkFits
  <1>5. CASE o \in Runs \cup Resumes /\ PrepareResume(o) /\ UNCHANGED <<task, results>>
    BY <1>1, <1>3, <1>5, PrepareResumeFits
  <1>6. CASE \E reply \in Terminal : thread' = Segment("reply", o, "NONE", "null", reply)
    BY <1>6 DEF Segment, Terminal, JobsFit, AttemptsLeft
  <1>7. CASE thread' = Segment("finalize", o, "TERMINALIZING", "incomplete", "COMPLETED")
    BY <1>7 DEF Segment, JobsFit, AttemptsLeft
  <1>. QED
    BY <1>4, <1>5, <1>6, <1>7, TickCases, Zenon

LEMMA OfRunFits ==
  ASSUME TypeOK, JobsFit, Accepted, NEW r \in Runs, OfRun(r)
  PROVE  JobsFit' /\ AttemptsLeft'
  <1>0. r \in Ops
    BY DEF Ops
  <1>1. CASE AcceptAudit(r)
    <2>1. task[r].pc = "none"
      BY <1>0, <1>1 DEF AcceptAudit, Accepted, Busy
    <2>. QED
      BY <1>1, <2>1 DEF AcceptAudit, Segment, JobsFit, AttemptsLeft
  <1>2. CASE Age(r)
    BY <1>2 DEF Age, Free, JobsFit, AttemptsLeft
  <1>3. CASE \E p, g : task[r].pc # "close" /\ Walk(r, p, g)
    BY <1>3, WalkFits
  <1>4. CASE \E e : Catch(r, e)
    BY <1>4, CatchFits
  <1>5. CASE thread' = Idle
    BY <1>5, IdleFits
  <1>6. CASE \E g : thread' = Segment("publish", r, "GATED", g, "none")
    BY <1>6 DEF Segment, JobsFit, AttemptsLeft
  <1>7. ASSUME Opened(r) \/ Derived(r) \/ Filled(r) \/ \E g \in Verdicts : Executed(r, g)
        PROVE  \E p, g : task[r].pc # "close" /\ Walk(r, p, g)
    BY <1>7 DEF Opened, Derived, Filled, Executed
  <1>8. ASSUME Closed(r)
        PROVE  \/ \E e : Catch(r, e)
               \/ thread' = Idle
               \/ \E g : thread' = Segment("publish", r, "GATED", g, "none")
    BY <1>8, Zenon DEF Closed, EndTask, Park
  <1>9. ASSUME \E e \in Failures : AwaitFails(r, e)
        PROVE  (\E e : Catch(r, e)) \/ thread' = Idle
    BY <1>9, Zenon DEF AwaitFails, Park
  <1>. QED
    BY <1>1, <1>2, <1>3, <1>4, <1>5, <1>6, <1>7, <1>8, <1>9, Zenon DEF OfRun

\* The fit is inductive, given that what is queued is not at work already and that
\* only an operation nobody has accepted is created.
LEMMA FitStep ==
  ASSUME TypeOK, JobsFit, AttemptsLeft, Accepted, QueuedOnce, [Next]_vars
  PROVE  JobsFit' /\ AttemptsLeft'
  <1>0. thread \in ThreadType /\ thread.op \in Ops /\ RunOf(thread.op) \in Runs
    BY RunOfType DEF TypeOK, ThreadType
  <1>1. CASE WriteRunState
    BY <1>0, <1>1 DEF WriteRunState, ThreadType, JobsFit, AttemptsLeft
  <1>2. CASE WriteOperation
    BY <1>2, WriteOperationFits
  <1>3. CASE CreateRun
    BY <1>0, <1>3 DEF CreateRun, ThreadType, JobsFit, AttemptsLeft
  <1>4. CASE Bind \/ Reply \/ Crash
    BY <1>4, IdleFits DEF Bind, Reply, EndTask, Park, Crash
  <1>5. CASE TakeOver
    <2>1. JobsFit'
      BY <1>0, <1>5 DEF TakeOver, ThreadType, JobsFit
    <2>2. RunOf(thread.op)' = RunOf(thread.op)
      BY <1>0, <1>5 DEF TakeOver, RunOf, ThreadType
    <2>3. run'[RunOf(thread.op)].attempts = run[RunOf(thread.op)].attempts
      BY <1>0, <1>5 DEF TakeOver, TypeOK, RunType
    <2>4. AttemptsLeft'
      BY <1>0, <1>5, <2>2, <2>3 DEF TakeOver, ThreadType, AttemptsLeft
    <2>. QED
      BY <2>1, <2>4
  <1>6. CASE Tick
    BY <1>6, TickFits
  <1>7. CASE \E r \in Runs : OfRun(r)
    BY <1>7, OfRunFits
  <1>8. ASSUME NEW o \in Resumes \cup Cancels, NEW r \in Runs, AcceptTarget(o, r)
        PROVE  JobsFit' /\ AttemptsLeft'
    <2>1. o \in Ops /\ task[o].pc = "none"
      BY <1>8 DEF Ops, AcceptTarget, Accepted, Busy
    <2>. QED
      BY <1>8, <2>1 DEF AcceptTarget, Segment, JobsFit, AttemptsLeft
  <1>9. CASE \E o \in Resumes : Woken(o)
    BY <1>9, LoopFits DEF Woken
  <1>10. CASE \E e \in Failures : StorageFails(e)
    BY <1>10, CatchFits, IdleFits DEF StorageFails, Park, JobsFit
  <1>11. CASE Start \/ Stop
    BY <1>11 DEF Start, Stop, Free, JobsFit, AttemptsLeft
  <1>12. CASE UNCHANGED vars
    BY <1>12 DEF vars, JobsFit, AttemptsLeft, RunOf
  <1>. QED
    BY <1>1, <1>2, <1>3, <1>4, <1>5, <1>6, <1>7, <1>8, <1>9, <1>10, <1>11, <1>12,
       NextCases, Zenon

--------------------------------------------------------------------------------
(***************************************************************************)
(* The footprint of a step: whose records it may change.                   *)
(***************************************************************************)

\* A step on behalf of o leaves the other handlers and the other Runs alone, never
\* redirects an operation or takes it back, and hands the event loop to no one else.
Touches(o) ==
  /\ \A x \in Ops \ {o} : task'[x] = task[x]
  /\ \A r \in Runs \ {RunOf(o)} : run'[r] = run[r] /\ results'[r] = results[r]
  /\ \A x \in Ops : /\ ops'[x].target = ops[x].target
                    /\ ops[x].status # "NONE" => ops'[x].status # "NONE"
  /\ thread' = Idle \/ thread'.op = o

\* o is accepted, on behalf of the Run r.
Accepts(o, r) ==
  /\ Free /\ ops[o].status = "NONE"
  /\ \A x \in Ops \ {o} : ops'[x] = ops[x]
  /\ ops'[o].status # "NONE"
  /\ o \in Runs => r = o
  /\ o \notin Runs => ops'[o].target = r
  /\ \E p, g : thread' = Segment(IF o \in Runs THEN "create" ELSE "bind", o, p, g, "none")
  /\ UNCHANGED <<run, results, queue, task>>

LEMMA WalkTouches ==
  ASSUME TypeOK, NEW r \in Runs, NEW p, NEW g, Walk(r, p, g),
         \A x \in Ops : /\ ops'[x].target = ops[x].target
                        /\ ops[x].status # "NONE" => ops'[x].status # "NONE",
         UNCHANGED run
  PROVE  Touches(r)
  <1>1. RunOf(r) = r
    BY DEF RunOf
  <1>2. \A x \in Ops \ {r} : task'[x] = task[x]
    BY WalkCases DEF TypeOK
  <1>3. \A x \in Runs \ {r} : results'[x] = results[x]
    BY WalkCases DEF TypeOK
  <1>4. thread' = Idle \/ thread'.op = r
    BY WalkCases DEF Segment
  <1>. QED
    BY <1>1, <1>2, <1>3, <1>4 DEF Touches

LEMMA CatchTouches ==
  ASSUME TypeOK, NEW r \in Runs, NEW e, Catch(r, e), UNCHANGED <<ops, run, results>>
  PROVE  Touches(r)
  <1>1. \A x \in Ops \ {r} : task'[x] = task[x]
    BY CatchCases DEF TypeOK
  <1>2. thread' = Idle \/ thread'.op = r
    BY CatchCases DEF Segment
  <1>. QED
    BY <1>1, <1>2 DEF Touches

LEMMA ParkTouches ==
  ASSUME TypeOK, NEW o \in Ops, NEW pc, NEW arg, Park(o, pc, arg), UNCHANGED <<ops, run, results>>
  PROVE  Touches(o)
  BY DEF Park, Touches, TypeOK

LEMMA PrepareResumeTouches ==
  ASSUME TypeOK, NEW o \in Ops, PrepareResume(o), UNCHANGED <<ops, task, results>>
  PROVE  Touches(o)
  <1>0. RunOf(o) \in Runs
    BY RunOfType
  <1>1. \A r \in Runs \ {RunOf(o)} : run'[r] = run[r]
    BY <1>0, PrepareResumeCases DEF TypeOK
  <1>2. thread' = Idle \/ thread'.op = o
    BY PrepareResumeCases DEF Segment
  <1>. QED
    BY <1>1, <1>2 DEF Touches

LEMMA LoopTouches ==
  ASSUME TypeOK, NEW o \in Ops, NEW p, Loop(o, p), UNCHANGED <<run, results, task>>,
         \A x \in Ops : /\ ops'[x].target = ops[x].target
                        /\ ops[x].status # "NONE" => ops'[x].status # "NONE"
  PROVE  Touches(o)
  <1>1. thread'.op = o
    BY LoopCases DEF Segment
  <1>. QED
    BY <1>1 DEF Touches

\* A step of the segment in progress.
LEMMA SegmentTouches ==
  ASSUME TypeOK, JobsFit,
         \/ WriteRunState \/ WriteOperation \/ CreateRun \/ Bind \/ TakeOver \/ Reply
         \/ \E e \in Failures : StorageFails(e)
  PROVE  Touches(thread.op)
  <1>. DEFINE o == thread.op
  <1>0. o \in Ops /\ RunOf(o) \in Runs /\ thread \in ThreadType
    BY RunOfType DEF TypeOK, ThreadType
  <1>1. CASE WriteRunState
    <2>1. thread'.op = o
      BY <1>0, <1>1 DEF WriteRunState, ThreadType
    <2>2. \A r \in Runs \ {RunOf(o)} : run'[r] = run[r]
      BY <1>0, <1>1 DEF WriteRunState, TypeOK
    <2>. QED
      BY <1>1, <2>1, <2>2 DEF WriteRunState, Touches
  <1>2. CASE WriteOperation
    <2>1. \A x \in Ops : /\ ops'[x].target = ops[x].target
                         /\ ops[x].status # "NONE" => ops'[x].status # "NONE"
      <3>1. OperationStatus # "NONE"
        BY DEF OperationStatus
      <3>2. ops' = [ops EXCEPT ![RunOf(o)].status = OperationStatus]
        BY <1>2 DEF WriteOperation
      <3>. QED
        BY <1>0, <3>1, <3>2 DEF TypeOK
    <2>2. UNCHANGED run
      BY <1>2 DEF WriteOperation
    <2>3. CASE o \in Runs /\ Walk(o, "TARGET_READY", "null")
      BY <2>1, <2>2, <2>3, WalkTouches
    <2>4. CASE Loop(o, run[RunOf(o)].phase) /\ UNCHANGED <<task, results>>
      BY <1>0, <2>1, <2>2, <2>4, LoopTouches
    <2>5. CASE /\ \/ thread' = Idle
                  \/ thread' = [thread EXCEPT !.phase = Following(thread.phase), !.torn = FALSE]
                  \/ thread' = [thread EXCEPT !.job = "reply", !.torn = FALSE]
               /\ \/ UNCHANGED task
                  \/ \E t : task' = [task EXCEPT ![o] = t]
               /\ \/ UNCHANGED results
                  \/ o \in Runs /\ \E g : results' = [results EXCEPT ![o] = g]
      <3>1. thread' = Idle \/ thread'.op = o
        BY <1>0, <2>5 DEF ThreadType
      <3>2. \A x \in Ops \ {o} : task'[x] = task[x]
        BY <2>5 DEF TypeOK
      <3>3. \A r \in Runs \ {RunOf(o)} : results'[r] = results[r]
        BY <2>5 DEF TypeOK, RunOf
      <3>. QED
        BY <2>1, <2>2, <3>1, <3>2, <3>3 DEF Touches
    <2>6. thread.job = "walk" => o \in Runs
      BY DEF JobsFit
    <2>. QED
      BY <1>2, <2>3, <2>4, <2>5, <2>6, WriteOperationCases, Zenon
  <1>3. CASE CreateRun
    <2>1. RunOf(o) = o /\ thread'.op = o
      BY <1>0, <1>3 DEF CreateRun, JobsFit, RunOf, ThreadType
    <2>. QED
      BY <1>0, <1>3, <2>1 DEF CreateRun, Touches, TypeOK
  <1>4. CASE Bind
    <2>. DEFINE status == IF o \in Runs THEN "RUNNING" ELSE "ACCEPTED"
    <2>1. ops' = [ops EXCEPT ![o].bound = TRUE, ![o].status = status]
      BY <1>4 DEF Bind
    <2>2. status # "NONE"
      OBVIOUS
    <2>. HIDE DEF status
    <2>3. \A x \in Ops : /\ ops'[x].target = ops[x].target
                         /\ ops[x].status # "NONE" => ops'[x].status # "NONE"
      BY <1>0, <2>1, <2>2 DEF TypeOK
    <2>. QED
      BY <1>4, <2>3 DEF Bind, Touches
  <1>5. CASE TakeOver
    <2>1. thread'.op = o
      BY <1>0, <1>5 DEF TakeOver, ThreadType
    <2>2. \A r \in Runs \ {RunOf(o)} : run'[r] = run[r]
      BY <1>0, <1>5 DEF TakeOver, TypeOK
    <2>. QED
      BY <1>5, <2>1, <2>2 DEF TakeOver, Touches
  <1>6. CASE Reply
    <2>1. thread.reply # "NONE"
      BY <1>0 DEF ThreadType, Terminal
    <2>2. \A x \in Ops : /\ ops'[x].target = ops[x].target
                         /\ ops[x].status # "NONE" => ops'[x].status # "NONE"
      BY <1>0, <1>6, <2>1 DEF Reply, TypeOK
    <2>. QED
      BY <1>0, <1>6, <2>2 DEF Reply, EndTask, Park, Touches, TypeOK
  <1>7. ASSUME NEW e \in Failures, StorageFails(e)
        PROVE  Touches(o)
    <2>1. /\ o \in Runs /\ UNCHANGED <<ops, run, results>>
          /\ Catch(o, e) \/ Park(o, "close", e)
      BY <1>7 DEF StorageFails, JobsFit
    <2>. QED
      BY <1>0, <2>1, CatchTouches, ParkTouches
  <1>. QED
    BY <1>1, <1>2, <1>3, <1>4, <1>5, <1>6, <1>7

\* A step of a suspended handler whose await has settled.
LEMMA SettleTouches ==
  ASSUME TypeOK, NEW o \in Ops,
         \/ o \in Runs /\ OfRun(o) /\ ~AcceptAudit(o) /\ ~Age(o)
         \/ o \in Resumes /\ Woken(o)
  PROVE  /\ Free /\ task[o].pc # "none" /\ Touches(o)
         /\ UNCHANGED <<up, ops, run, queue>>
  <1>1. ASSUME o \in Resumes, Woken(o)
        PROVE  /\ Free /\ task[o].pc # "none" /\ Touches(o)
               /\ UNCHANGED <<up, ops, run, queue>>
    BY <1>1, LoopTouches DEF Woken
  <1>2. ASSUME o \in Runs, NEW p, NEW g, Walk(o, p, g), Free, task[o].pc # "none",
               UNCHANGED <<up, ops, run, queue>>
        PROVE  Touches(o)
    BY <1>2, WalkTouches
  <1>3. ASSUME o \in Runs, Opened(o) \/ Derived(o) \/ Filled(o) \/ \E g \in Verdicts : Executed(o, g)
        PROVE  /\ Free /\ task[o].pc # "none" /\ Touches(o)
               /\ UNCHANGED <<up, ops, run, queue>>
    <2>1. /\ Free /\ task[o].pc # "none" /\ UNCHANGED <<up, ops, run, queue>>
          /\ \E p, g : Walk(o, p, g)
      BY <1>3 DEF Opened, Derived, Filled, Executed
    <2>. QED
      BY <1>2, <1>3, <2>1
  <1>4. ASSUME o \in Runs, Closed(o)
        PROVE  /\ Free /\ task[o].pc # "none" /\ Touches(o)
               /\ UNCHANGED <<up, ops, run, queue>>
    <2>1. /\ Free /\ task[o].pc # "none" /\ UNCHANGED <<up, ops, run, results, queue>>
          /\ \/ Catch(o, task[o].arg)
             \/ Park(o, "none", "none")
             \/ thread' = Segment("publish", o, "GATED", task[o].arg, "none") /\ UNCHANGED task
      BY <1>4 DEF Closed, EndTask
    <2>2. CASE thread' = Segment("publish", o, "GATED", task[o].arg, "none") /\ UNCHANGED task
      BY <2>1, <2>2 DEF Segment, Touches
    <2>. QED
      BY <1>4, <2>1, <2>2, CatchTouches, ParkTouches
  <1>5. ASSUME o \in Runs, NEW e \in Failures, AwaitFails(o, e)
        PROVE  /\ Free /\ task[o].pc # "none" /\ Touches(o)
               /\ UNCHANGED <<up, ops, run, queue>>
    <2>1. /\ Free /\ task[o].pc # "none" /\ UNCHANGED <<up, ops, run, results, queue>>
          /\ Catch(o, e) \/ Park(o, "close", e)
      BY <1>5 DEF AwaitFails
    <2>. QED
      BY <1>5, <2>1, CatchTouches, ParkTouches
  <1>. QED
    BY <1>1, <1>3, <1>4, <1>5, Zenon DEF OfRun

\* The start of the handler at the head of the queue.
LEMMA TickTouches ==
  ASSUME TypeOK, Tick
  PROVE  LET o == Head(queue)
         IN  o \in Ops /\ o \in Queued /\ Free /\ Touches(o)
  <1>. DEFINE o == Head(queue)
  <1>1. Free /\ queue # <<>> /\ UNCHANGED ops
    BY TickCases
  <1>2. o \in Ops /\ o \in Queued
    BY <1>1 DEF TypeOK, Queued
  <1>u. \A x \in Ops : /\ ops'[x].target = ops[x].target
                       /\ ops[x].status # "NONE" => ops'[x].status # "NONE"
    BY <1>1
  <1>. HIDE DEF o
  <1>3. ASSUME o \in Runs, Walk(o, "TARGET_READY", "null"), UNCHANGED run
        PROVE  Touches(o)
    BY <1>u, <1>3, WalkTouches
  <1>4. ASSUME PrepareResume(o), UNCHANGED <<task, results>>
        PROVE  Touches(o)
    BY <1>1, <1>2, <1>4, PrepareResumeTouches
  <1>5. ASSUME UNCHANGED <<run, task, results>>,
               \E job, p, g, reply : thread' = Segment(job, o, p, g, reply)
        PROVE  Touches(o)
    <2>1. thread'.op = o
      BY <1>5 DEF Segment
    <2>. QED
      BY <1>u, <1>5, <2>1 DEF Touches
  <1>6. Touches(o)
    BY <1>3, <1>4, <1>5, TickCases, Zenon DEF o
  <1>. QED
    BY <1>1, <1>2, <1>6 DEF o

LEMMA AcceptsCases ==
  ASSUME TypeOK, NEW o \in Ops, NEW r \in Runs,
         \/ o \in Runs /\ r = o /\ AcceptAudit(r)
         \/ o \in Resumes \cup Cancels /\ AcceptTarget(o, r)
  PROVE  Accepts(o, r)
  <1>1. CASE o \in Runs /\ r = o /\ AcceptAudit(r)
    BY <1>1 DEF AcceptAudit, Accepts, TypeOK
  <1>2. CASE o \in Resumes \cup Cancels /\ AcceptTarget(o, r)
    BY <1>2, OpsAssumption DEF AcceptTarget, Accepts, TypeOK
  <1>. QED
    BY <1>1, <1>2

\* Every step is one of these.
LEMMA Footprint ==
  ASSUME TypeOK, JobsFit, [Next]_vars
  PROVE  \/ /\ ~Free /\ Touches(thread.op)
            /\ queue' = queue \/ Bind
         \/ \E o \in Runs \cup Resumes : Free /\ task[o].pc # "none" /\ Touches(o) /\ UNCHANGED queue
         \/ Tick /\ Free /\ Head(queue) \in Ops \cap Queued /\ Touches(Head(queue))
         \/ \E o \in Ops, r \in Runs : Accepts(o, r)
         \/ \E r \in Runs : Age(r)
         \/ Start \/ Stop \/ Crash \/ UNCHANGED vars
  <1>1. ASSUME \/ WriteRunState \/ WriteOperation \/ CreateRun \/ Bind \/ TakeOver \/ Reply
               \/ \E e \in Failures : StorageFails(e)
        PROVE  /\ ~Free /\ Touches(thread.op)
               /\ queue' = queue \/ Bind
    <2>1. thread.job # "idle"
      BY <1>1 DEF WriteRunState, WriteOperation, PersistJobs, CreateRun, Bind, TakeOver, Reply, StorageFails
    <2>2. queue' = queue \/ Bind
      BY <1>1 DEF WriteRunState, WriteOperation, CreateRun, TakeOver, Reply, StorageFails
    <2>. QED
      BY <1>1, <2>1, <2>2, SegmentTouches DEF Free
  <1>2. ASSUME NEW r \in Runs, OfRun(r)
        PROVE  \/ Free /\ task[r].pc # "none" /\ Touches(r) /\ UNCHANGED queue
               \/ Accepts(r, r) \/ Age(r)
    BY <1>2, SettleTouches, AcceptsCases DEF Ops
  <1>3. ASSUME NEW o \in Resumes, Woken(o)
        PROVE  Free /\ task[o].pc # "none" /\ Touches(o) /\ UNCHANGED queue
    BY <1>3, SettleTouches DEF Ops
  <1>4. ASSUME NEW o \in Resumes \cup Cancels, NEW r \in Runs, AcceptTarget(o, r)
        PROVE  o \in Ops /\ Accepts(o, r)
    BY <1>4, AcceptsCases DEF Ops
  <1>5. Runs \subseteq Ops
    BY DEF Ops
  <1>. QED
    BY <1>1, <1>2, <1>3, <1>4, <1>5, NextCases, TickTouches, Zenon

--------------------------------------------------------------------------------
(***************************************************************************)
(* What is at work has been accepted, and is not queued as well.           *)
(***************************************************************************)

\* The effect of the queue operations on a sequence without repetitions.
LEMMA AppendOnce ==
  ASSUME NEW S, NEW q \in Seq(S), NEW e \in S,
         \A i, j \in 1..Len(q) : q[i] = q[j] => i = j,
         \A i \in 1..Len(q) : q[i] # e
  PROVE  LET p == Append(q, e)
         IN  /\ \A i, j \in 1..Len(p) : p[i] = p[j] => i = j
             /\ \A i \in 1..Len(p) : p[i] = e \/ \E j \in 1..Len(q) : p[i] = q[j]
  OBVIOUS

LEMMA TailOnce ==
  ASSUME NEW S, NEW q \in Seq(S), q # <<>>,
         \A i, j \in 1..Len(q) : q[i] = q[j] => i = j
  PROVE  LET p == Tail(q)
         IN  /\ \A i, j \in 1..Len(p) : p[i] = p[j] => i = j
             /\ \A i \in 1..Len(p) : p[i] # Head(q) /\ \E j \in 1..Len(q) : p[i] = q[j]
  OBVIOUS

\* The same for two sequences, one behind the other.
Distinct(q) == \A i, j \in 1..Len(q) : q[i] = q[j] => i = j

Disjoint(q, s) == \A i \in 1..Len(q), j \in 1..Len(s) : q[i] # s[j]

FromEither(p, q, s) ==
  \A i \in 1..Len(p) : \/ \E j \in 1..Len(q) : p[i] = q[j]
                       \/ \E j \in 1..Len(s) : p[i] = s[j]

LEMMA ConcatOnce ==
  ASSUME NEW S, NEW q \in Seq(S), NEW s \in Seq(S),
         Distinct(q), Distinct(s), Disjoint(q, s)
  PROVE  Distinct(q \o s) /\ FromEither(q \o s, q, s)
  <1>. USE DEF Distinct, Disjoint, FromEither
  <1>. DEFINE p == q \o s
  <1>1. /\ Len(q) \in Nat /\ Len(s) \in Nat /\ Len(p) = Len(q) + Len(s)
        /\ \A i \in 1..Len(q) : p[i] = q[i]
        /\ \A i \in 1..Len(p) : i \notin 1..Len(q) =>
             i - Len(q) \in 1..Len(s) /\ p[i] = s[i - Len(q)]
    OBVIOUS
  <1>. HIDE DEF p
  <1>2. \A i, j \in 1..Len(p) : p[i] = p[j] => i = j
    <2>. SUFFICES ASSUME NEW i \in 1..Len(p), NEW j \in 1..Len(p), p[i] = p[j]
                  PROVE  i = j
      OBVIOUS
    <2>1. CASE i \in 1..Len(q) /\ j \in 1..Len(q)
      BY <1>1, <2>1
    <2>2. CASE i \in 1..Len(q) /\ j \notin 1..Len(q)
      BY <1>1, <2>2
    <2>3. CASE i \notin 1..Len(q) /\ j \in 1..Len(q)
      BY <1>1, <2>3
    <2>4. CASE i \notin 1..Len(q) /\ j \notin 1..Len(q)
      BY <1>1, <2>4
    <2>. QED
      BY <2>1, <2>2, <2>3, <2>4
  <1>3. \A i \in 1..Len(p) : \/ \E j \in 1..Len(q) : p[i] = q[j]
                             \/ \E j \in 1..Len(s) : p[i] = s[j]
    BY <1>1
  <1>. QED
    BY <1>2, <1>3 DEF p

\* What a restart puts back into the queue.
LEMMA StartCases ==
  ASSUME TypeOK, Start
  PROVE  \E s \in Seq(Ops) :
           /\ queue' = queue \o s
           /\ \A i, j \in 1..Len(s) : s[i] = s[j] => i = j
           /\ \A i \in 1..Len(s) : s[i] \in Recoverable \ (Queued \cup Running)
  <1>. DEFINE S == Recoverable \ (Queued \cup Running)
  <1>1. PICK s \in SetToSeqs(S) : queue' = queue \o s
    BY DEF Start
  <1>2. IsFiniteSet(Ops) /\ S \subseteq Ops
    BY OpsAssumption, FS_Union DEF Ops, Recoverable
  <1>3. Cardinality(S) \in Nat
    BY <1>2, FS_Subset, FS_CardinalityType
  <1>. HIDE DEF S
  <1>4. /\ s \in [1..Cardinality(S) -> S]
        /\ \A i, j \in 1..Cardinality(S) : s[i] = s[j] => i = j
    BY Zenon DEF SetToSeqs
  <1>5. s \in Seq(Ops) /\ Len(s) = Cardinality(S)
    BY <1>2, <1>3, <1>4
  <1>. QED
    BY <1>1, <1>4, <1>5 DEF S

\* The queue grows by the operation just bound, or by what a restart recovers.
LEMMA QueueCases ==
  ASSUME TypeOK, Bind
  PROVE  /\ queue' = queue \/ queue' = Append(queue, thread.op)
         /\ thread' = Idle /\ UNCHANGED task
  BY DEF Bind, Enqueue

\* What is asked to be resumed stays so: operations are not redirected.
LEMMA TargetsKept ==
  ASSUME TypeOK, JobsFit, [Next]_vars, NEW o \in Ops, ops[o].status # "NONE"
  PROVE  ops'[o].status # "NONE" /\ ops'[o].target = ops[o].target /\ RunOf(o)' = RunOf(o)
  <1>1. ASSUME NEW x, Touches(x)
        PROVE  ops'[o].status # "NONE" /\ ops'[o].target = ops[o].target
    BY <1>1 DEF Touches
  <1>2. ASSUME NEW x \in Ops, NEW r \in Runs, Accepts(x, r)
        PROVE  ops'[o].status # "NONE" /\ ops'[o].target = ops[o].target
    BY <1>2 DEF Accepts
  <1>3. ASSUME UNCHANGED ops
        PROVE  ops'[o].status # "NONE" /\ ops'[o].target = ops[o].target
    BY <1>3
  <1>4. ASSUME (\E r \in Runs : Age(r)) \/ Start \/ Stop \/ Crash \/ UNCHANGED vars
        PROVE  UNCHANGED ops
    BY <1>4 DEF Age, Start, Stop, Crash, vars
  <1>5. ops'[o].status # "NONE" /\ ops'[o].target = ops[o].target
    BY <1>1, <1>2, <1>3, <1>4, Footprint, Zenon
  <1>. QED
    BY <1>5 DEF RunOf

\* Who has work had it before, or was just accepted, or is put back by a restart.
LEMMA BusyKept ==
  ASSUME TypeOK, JobsFit, [Next]_vars, ~Start, NEW x \in Ops, Busy(x)'
  PROVE  Busy(x) \/ \E r \in Runs : Accepts(x, r)
  <1>0. thread.op \in Ops
    BY DEF TypeOK, ThreadType
  <1>1. ASSUME NEW o \in Ops, Busy(o), Touches(o), Queued' \subseteq Queued \cup {o}
        PROVE  Busy(x)
    BY <1>1 DEF Busy, Touches, Free, Idle
  <1>2. CASE ~Free /\ Touches(thread.op) /\ (queue' = queue \/ Bind)
    <2>1. Queued' \subseteq Queued \cup {thread.op}
      <3>1. CASE queue' = queue
        BY <3>1 DEF Queued
      <3>2. CASE queue' = Append(queue, thread.op)
        BY <3>2, <1>0 DEF Queued, TypeOK
      <3>. QED
        BY <1>2, <3>1, <3>2, QueueCases
    <2>2. Busy(thread.op)
      BY <1>2 DEF Busy
    <2>. QED
      BY <1>0, <1>1, <1>2, <2>1, <2>2
  <1>3. ASSUME NEW o \in Runs \cup Resumes,
               task[o].pc # "none", Touches(o), UNCHANGED queue
        PROVE  Busy(x)
    <2>1. o \in Ops /\ Busy(o) /\ Queued' = Queued
      BY <1>3 DEF Ops, Busy, Queued
    <2>. QED
      BY <1>1, <1>3, <2>1
  <1>4. CASE Tick /\ Free /\ Head(queue) \in Ops \cap Queued /\ Touches(Head(queue))
    <2>0. queue \in Seq(Ops) /\ queue # <<>> /\ queue' = Tail(queue)
      BY <1>4, TickCases DEF TypeOK
    <2>1. Queued' \subseteq Queued
      BY <2>0 DEF Queued
    <2>. QED
      BY <1>1, <1>4, <2>1 DEF Busy
  <1>5. ASSUME NEW o \in Ops, NEW r \in Runs, Accepts(o, r)
        PROVE  Busy(x) \/ x = o
    <2>1. thread'.op = o /\ Queued' = Queued /\ UNCHANGED task
      BY <1>5 DEF Accepts, Segment, Queued
    <2>. QED
      BY <2>1 DEF Busy
  <1>6. ASSUME NEW r \in Runs, Age(r)
        PROVE  Busy(x)
    BY <1>6 DEF Age, Busy, Queued, Free
  <1>7. CASE Stop
    BY <1>7 DEF Stop, Busy, Queued, Free
  <1>8. CASE Crash
    BY <1>8 DEF Crash, Busy, Queued, Free, Idle, Parked
  <1>9. CASE UNCHANGED vars
    BY <1>9 DEF vars, Busy, Queued, Free
  <1>. QED
    BY <1>2, <1>3, <1>4, <1>5, <1>6, <1>7, <1>8, <1>9, Footprint, Zenon

LEMMA AcceptedStep ==
  ASSUME TypeOK, JobsFit, Accepted, [Next]_vars
  PROVE  Accepted'
  <1>. SUFFICES ASSUME NEW x \in Ops, Busy(x)'
                PROVE  ops'[x].status # "NONE"
    BY DEF Accepted
  <1>1. CASE Start
    <2>1. PICK s \in Seq(Ops) : /\ queue' = queue \o s
                                /\ \A i \in 1..Len(s) : s[i] \in Recoverable
      BY <1>1, StartCases
    <2>2. \A y \in Queued' : y \in Queued \/ y \in Recoverable
      BY <2>1 DEF Queued, TypeOK
    <2>3. x \in Recoverable => ops[x].status # "NONE"
      BY DEF Recoverable
    <2>. QED
      BY <1>1, <2>2, <2>3 DEF Start, Accepted, Busy, Free
  <1>2. CASE ~Start
    <2>1. Busy(x) \/ \E r \in Runs : Accepts(x, r)
      BY <1>2, BusyKept
    <2>. QED
      BY <2>1, TargetsKept DEF Accepted, Accepts
  <1>. QED
    BY <1>1, <1>2

LEMMA QueuedStep ==
  ASSUME TypeOK, JobsFit, Accepted, QueuedOnce, [Next]_vars
  PROVE  QueuedOnce'
  <1>0. thread.op \in Ops /\ queue \in Seq(Ops)
    BY DEF TypeOK, ThreadType
  <1>a. \A i, j \in 1..Len(queue) : queue[i] = queue[j] => i = j
    BY DEF QueuedOnce
  <1>1. ASSUME NEW o \in Ops, Touches(o), o \notin Queued, UNCHANGED queue
        PROVE  QueuedOnce'
    <2>1. \A x \in Queued : x \in Ops
      BY <1>0 DEF Queued
    <2>2. Queued' = Queued
      BY <1>1 DEF Queued
    <2>3. \A x \in Queued : task'[x].pc = "none" /\ (thread'.op = x => Free')
      BY <1>1, <2>1 DEF Touches, QueuedOnce, Free, Idle
    <2>. QED
      BY <1>1, <1>a, <2>2, <2>3 DEF QueuedOnce
  <1>2. CASE ~Free /\ Touches(thread.op) /\ queue' = queue
    BY <1>0, <1>1, <1>2 DEF QueuedOnce
  <1>3. CASE ~Free /\ Bind /\ queue' = Append(queue, thread.op)
    <2>1. thread.op \notin Queued /\ task[thread.op].pc = "none"
      BY <1>3 DEF QueuedOnce, Bind, JobsFit
    <2>2. /\ \A i, j \in 1..Len(queue') : queue'[i] = queue'[j] => i = j
          /\ \A i \in 1..Len(queue') :
               queue'[i] = thread.op \/ \E j \in 1..Len(queue) : queue'[i] = queue[j]
      BY <1>0, <1>3, <1>a, <2>1, AppendOnce DEF Queued
    <2>3. \A x \in Queued' : x \in Queued \/ x = thread.op
      BY <2>2 DEF Queued
    <2>. QED
      BY <1>3, <2>1, <2>2, <2>3, QueueCases DEF QueuedOnce, Free, Idle
  <1>4. ASSUME NEW o \in Runs \cup Resumes,
               task[o].pc # "none", Touches(o), UNCHANGED queue
        PROVE  QueuedOnce'
    BY <1>1, <1>4 DEF QueuedOnce, Ops
  <1>5. CASE Tick /\ Free /\ Head(queue) \in Ops \cap Queued /\ Touches(Head(queue))
    <2>1. queue # <<>> /\ queue' = Tail(queue)
      BY <1>5, TickCases
    <2>2. /\ \A i, j \in 1..Len(queue') : queue'[i] = queue'[j] => i = j
          /\ \A i \in 1..Len(queue') :
               queue'[i] # Head(queue) /\ \E j \in 1..Len(queue) : queue'[i] = queue[j]
      BY <1>0, <1>a, <2>1, TailOnce
    <2>3. \A x \in Queued' : x \in Queued /\ x # Head(queue) /\ x \in Ops
      BY <1>0, <2>2 DEF Queued
    <2>4. \A x \in Queued' : task'[x].pc = "none" /\ (thread'.op = x => Free')
      BY <1>5, <2>3 DEF Touches, QueuedOnce, Free, Idle
    <2>. QED
      BY <2>2, <2>4 DEF QueuedOnce
  <1>6. ASSUME NEW o \in Ops, NEW r \in Runs, Accepts(o, r)
        PROVE  QueuedOnce'
    <2>1. o \notin Queued
      BY <1>6 DEF Accepts, Accepted, Busy
    <2>2. thread'.op = o /\ Queued' = Queued /\ UNCHANGED <<queue, task>>
      BY <1>6 DEF Accepts, Segment, Queued
    <2>. QED
      BY <1>a, <2>1, <2>2 DEF QueuedOnce
  <1>7. ASSUME NEW r \in Runs, Age(r)
        PROVE  QueuedOnce'
    BY <1>7 DEF Age, QueuedOnce, Queued, Free
  <1>8. CASE Start
    <2>1. PICK s \in Seq(Ops) :
            /\ queue' = queue \o s
            /\ \A i, j \in 1..Len(s) : s[i] = s[j] => i = j
            /\ \A i \in 1..Len(s) : s[i] \in Recoverable \ (Queued \cup Running)
      BY <1>8, StartCases
    <2>2. Disjoint(queue, s)
      BY <2>1 DEF Queued, Disjoint
    <2>3. Distinct(queue) /\ Distinct(s)
      BY <1>a, <2>1, Zenon DEF Distinct
    <2>4. Distinct(queue') /\ FromEither(queue', queue, s)
      BY <1>0, <2>1, <2>2, <2>3, ConcatOnce
    <2>5. \A i \in 1..Len(s) : s[i] \in Ops \ Running
      BY <2>1, Zenon DEF Recoverable
    <2>6. \A x \in Queued' : x \in Queued \/ x \in Ops \ Running
      BY <2>4, <2>5 DEF Queued, FromEither
    <2>7. \A x \in Queued' : task[x].pc = "none"
      BY <2>6 DEF QueuedOnce, Running
    <2>. QED
      BY <1>8, <2>4, <2>7 DEF Start, QueuedOnce, Free, Distinct
  <1>9. CASE Stop \/ Crash
    BY <1>9 DEF Stop, Crash, QueuedOnce, Queued
  <1>10. CASE UNCHANGED vars
    BY <1>10 DEF vars, QueuedOnce, Queued, Free
  <1>. QED
    BY <1>2, <1>3, <1>4, <1>5, <1>6, <1>7, <1>8, <1>9, <1>10, Footprint, QueueCases, Zenon

--------------------------------------------------------------------------------
(***************************************************************************)
(* Cancellation sticks.                                                    *)
(***************************************************************************)

\* What a save makes of the record, job by job.
LEMMA SaveCases ==
  ASSUME TypeOK, AttemptsLeft, WriteRunState
  PROVE  LET old == run[RunOf(thread.op)]
             new == run'[RunOf(thread.op)]
         IN \/ /\ thread.job \in {"walk", "loop"} /\ new.phase = thread.phase
               /\ new.status = old.status /\ new.gate = old.gate /\ new.cancel = old.cancel
               /\ new.attempts = old.attempts
            \/ /\ thread.job = "finalize" /\ thread.phase # "GATED" /\ new.phase = thread.phase
               /\ new.status = old.status /\ new.gate = old.gate
               /\ new.attempts = old.attempts
            \/ /\ thread.job = "fail" /\ new.status = "FAILED" /\ new.phase = old.phase
               /\ new.gate = old.gate /\ new.cancel = old.cancel
               /\ new.attempts = old.attempts
            \/ /\ thread.job = "revive" /\ new.status = "ACTIVE" /\ new.phase = old.phase
               /\ new.gate = old.gate /\ new.cancel = old.cancel
               /\ new.attempts = old.attempts + 1
            \/ /\ thread.job = "publish" \/ (thread.job = "finalize" /\ thread.phase = "GATED")
               /\ new.phase = "GATED" /\ new.status = "COMPLETED"
               /\ new.gate = thread.gate /\ new.cancel = old.cancel
               /\ new.attempts = old.attempts
  <1>. DEFINE r   == RunOf(thread.op)
              N   == NextRecord(run[r])
              new == run'[r]
  <1>0. r \in Runs /\ run[r] \in RunType
    BY RunOfType DEF TypeOK, ThreadType
  <1>j. thread.job \in PersistJobs /\ ~thread.torn
    BY DEF WriteRunState
  <1>1. new = Saved(N, OperationStatus)
    BY <1>0 DEF WriteRunState, TypeOK
  <1>2. N \in RunType
    BY <1>0, <1>j, NextRecordType DEF AttemptsLeft
  <1>3. /\ new.phase = N.phase /\ new.status = N.status /\ new.gate = N.gate
        /\ new.cancel = N.cancel /\ new.attempts = N.attempts
    <2>. HIDE DEF N, new
    <2>. QED
      BY <1>1, <1>2, SavedType DEF SameRecord
  <1>. HIDE DEF new
  <1>4. CASE thread.job \in {"walk", "loop"}
    BY <1>0, <1>3, <1>4 DEF NextRecord, RunType, new
  <1>5. CASE thread.job = "finalize" /\ thread.phase # "GATED"
    <2>. DEFINE c == run[r].cancel \/ (thread.phase = "TERMINALIZING" /\ thread.op \in Cancels)
    <2>1. N = [run[r] EXCEPT !.phase = thread.phase, !.cancel = c]
      BY <1>5 DEF NextRecord
    <2>. HIDE DEF c
    <2>. QED
      BY <1>0, <1>3, <1>5, <2>1 DEF RunType, new
  <1>6. CASE thread.job = "fail"
    BY <1>0, <1>3, <1>6 DEF NextRecord, RunType, new
  <1>7. CASE thread.job = "revive"
    <2>1. N = [run[r] EXCEPT !.status = "ACTIVE", !.attempts = run[r].attempts + 1]
      BY <1>7, Zenon DEF NextRecord
    <2>. QED
      BY <1>0, <1>3, <1>7, <2>1 DEF RunType, new
  <1>8. CASE thread.job = "publish" \/ (thread.job = "finalize" /\ thread.phase = "GATED")
    <2>1. N = [run[r] EXCEPT !.phase = "GATED", !.status = "COMPLETED", !.gate = thread.gate]
      BY <1>8, Zenon DEF NextRecord
    <2>. QED
      BY <1>0, <1>3, <1>8, <2>1 DEF RunType, new
  <1>. QED
    BY <1>j, <1>4, <1>5, <1>6, <1>7, <1>8 DEF PersistJobs

\* All the other steps leave what clients see alone, but for the creation.
LEMMA RecordKept ==
  ASSUME TypeOK, JobsFit, [Next]_vars, ~WriteRunState, NEW r \in Runs
  PROVE  SameRecord(run[r], run'[r]) \/ (CreateRun /\ r = thread.op /\ run'[r] = NewRun)
  <1>0. run \in [Runs -> RunType] /\ thread.op \in Ops /\ RunOf(thread.op) \in Runs
    BY RunOfType DEF TypeOK, ThreadType
  <1>1. CASE UNCHANGED run
    BY <1>1 DEF SameRecord
  <1>2. CASE CreateRun
    BY <1>0, <1>2 DEF CreateRun, SameRecord
  <1>3. CASE TakeOver
    <2>1. /\ run' = [run EXCEPT ![RunOf(thread.op)] =
                       [run[RunOf(thread.op)] EXCEPT !.owner = "self", !.aged = FALSE, !.stale = 0]]
      BY <1>3 DEF TakeOver
    <2>2. ASSUME NEW rec \in RunType
          PROVE  SameRecord(rec, [rec EXCEPT !.owner = "self", !.aged = FALSE, !.stale = 0])
      BY DEF RunType, SameRecord
    <2>. QED
      BY <1>0, <2>1, <2>2 DEF SameRecord
  <1>4. ASSUME NEW x \in Runs, Age(x)
        PROVE  SameRecord(run[r], run'[r])
    <2>1. ASSUME NEW rec \in RunType
          PROVE  SameRecord(rec, [rec EXCEPT !.aged = TRUE])
      BY DEF RunType, SameRecord
    <2>2. run' = [run EXCEPT ![x] = [run[x] EXCEPT !.aged = TRUE]]
      BY <1>4 DEF Age
    <2>. QED
      BY <1>0, <2>1, <2>2 DEF SameRecord
  <1>5. CASE Crash
    <2>1. ASSUME NEW rec \in RunType
          PROVE  SameRecord(rec, [rec EXCEPT !.owner = "gone"])
      BY DEF RunType, SameRecord
    <2>2. run'[r] = run[r] \/ run'[r] = [run[r] EXCEPT !.owner = "gone"]
      BY <1>5 DEF Crash
    <2>. QED
      BY <1>0, <2>1, <2>2 DEF SameRecord
  <1>6. CASE Tick
    <2>. DEFINE o == Head(queue)
    <2>0. o \in Ops /\ RunOf(o) \in Runs
      BY <1>6, TickTouches, RunOfType
    <2>1. CASE PrepareResume(o)
      <3>1. ASSUME NEW n \in 0..Confirmations, run' = [run EXCEPT ![RunOf(o)].stale = n]
            PROVE  SameRecord(run[r], run'[r])
        <4>1. ASSUME NEW rec \in RunType
              PROVE  SameRecord(rec, [rec EXCEPT !.stale = n])
          BY DEF RunType, SameRecord
        <4>2. run' = [run EXCEPT ![RunOf(o)] = [run[RunOf(o)] EXCEPT !.stale = n]]
          BY <3>1
        <4>. QED
          BY <1>0, <2>0, <4>1, <4>2 DEF SameRecord
      <3>. QED
        BY <1>1, <2>0, <2>1, <3>1, PrepareResumeCases, Zenon
    <2>. QED
      BY <1>1, <1>6, <2>1, TickCases, Zenon
  <1>7. ASSUME NEW x \in Runs, OfRun(x), ~Age(x)
        PROVE  UNCHANGED run
    BY <1>7, SettleTouches DEF Ops, AcceptAudit
  <1>8. ASSUME \/ WriteOperation \/ Bind \/ Reply
               \/ \E o \in Resumes \cup Cancels, x \in Runs : AcceptTarget(o, x)
               \/ \E o \in Resumes : Woken(o)
               \/ \E e \in Failures : StorageFails(e)
               \/ Start \/ Stop \/ UNCHANGED vars
        PROVE  UNCHANGED run
    BY <1>8 DEF WriteOperation, Bind, Reply, AcceptTarget, Woken, StorageFails, Start, Stop, vars
  <1>. QED
    BY <1>1, <1>2, <1>3, <1>4, <1>5, <1>6, <1>7, <1>8, NextCases, Zenon

LEMMA UncancelledStep ==
  ASSUME TypeOK, JobsFit, AttemptsLeft, SegmentUncancelled, [Next]_vars
  PROVE  SegmentUncancelled'
  <1>. DEFINE Moves == thread.job \in {"walk", "loop", "publish"}
  <1>0. thread \in ThreadType /\ thread.op \in Ops /\ RunOf(thread.op) \in Runs
    BY RunOfType DEF TypeOK, ThreadType
  <1>1. ASSUME ~Moves'
        PROVE  SegmentUncancelled'
    BY <1>1 DEF SegmentUncancelled
  <1>2. ASSUME thread'.op \in Ops, RunOf(thread'.op) \in Runs, UNCHANGED run,
               \A x \in Ops : ops'[x].target = ops[x].target,
               Moves' => ~run[RunOf(thread'.op)].cancel
        PROVE  SegmentUncancelled'
    BY <1>2 DEF SegmentUncancelled, RunOf
  <1>3. CASE WriteRunState
    <2>1. thread'.job = thread.job /\ thread'.op = thread.op /\ UNCHANGED ops
      BY <1>0, <1>3 DEF WriteRunState, ThreadType
    <2>2. thread.job \in {"walk", "loop", "publish"} =>
            run'[RunOf(thread.op)].cancel = run[RunOf(thread.op)].cancel
      BY <1>3, SaveCases
    <2>. QED
      BY <2>1, <2>2 DEF SegmentUncancelled, RunOf
  <1>4. CASE WriteOperation
    <2>1. Touches(thread.op) /\ UNCHANGED run
      BY <1>4, SegmentTouches DEF WriteOperation
    <2>2. \/ ~Moves'
          \/ thread'.op = thread.op /\ (Moves' => ~run[RunOf(thread.op)].cancel)
      <3>1. CASE thread' = Idle
        BY <3>1 DEF Idle
      <3>a. CASE thread' = [thread EXCEPT !.job = "reply", !.torn = FALSE]
        <4>1. thread'.job = "reply"
          BY <1>0, <3>a DEF ThreadType
        <4>. QED
          BY <4>1
      <3>2. CASE thread' = [thread EXCEPT !.phase = Following(thread.phase), !.torn = FALSE]
        BY <1>0, <3>2 DEF ThreadType, SegmentUncancelled
      <3>3. CASE thread.op \in Runs /\ Walk(thread.op, "TARGET_READY", "null")
        BY <3>3, WalkCases DEF Idle, Segment, RunOf
      <3>4. CASE Loop(thread.op, run[RunOf(thread.op)].phase)
        BY <3>4, LoopCases DEF Segment
      <3>. QED
        BY <1>4, <3>1, <3>a, <3>2, <3>3, <3>4, WriteOperationCases, Zenon
    <2>. QED
      BY <1>0, <1>1, <1>2, <2>1, <2>2 DEF Touches
  <1>5. CASE CreateRun \/ Bind \/ TakeOver \/ Reply \/ Crash
    BY <1>0, <1>1, <1>5 DEF CreateRun, Bind, TakeOver, Reply, EndTask, Park, Crash, Idle, ThreadType
  <1>6. CASE Tick
    <2>. DEFINE o == Head(queue)
    <2>0. o \in Ops /\ RunOf(o) \in Runs /\ UNCHANGED ops
      BY <1>6, TickTouches, TickCases, RunOfType
    <2>. HIDE DEF o
    <2>1. ASSUME o \in Runs, Walk(o, "TARGET_READY", "null"), UNCHANGED run
          PROVE  SegmentUncancelled'
      BY <2>0, <2>1, WalkCases DEF Idle, Segment, RunOf, SegmentUncancelled
    <2>2. ASSUME PrepareResume(o)
          PROVE  SegmentUncancelled'
      BY <1>1, <2>0, <2>2, PrepareResumeCases DEF Idle, Segment
    <2>3. ASSUME \E reply \in Terminal : thread' = Segment("reply", o, "NONE", "null", reply)
          PROVE  SegmentUncancelled'
      BY <1>1, <2>3 DEF Segment
    <2>4. ASSUME thread' = Segment("finalize", o, "TERMINALIZING", "incomplete", "COMPLETED")
          PROVE  SegmentUncancelled'
      BY <1>1, <2>4 DEF Segment
    <2>. QED
      BY <1>6, <2>1, <2>2, <2>3, <2>4, TickCases, Zenon DEF o
  <1>7. ASSUME NEW r \in Runs, OfRun(r)
        PROVE  SegmentUncancelled'
    <2>0. r \in Ops /\ RunOf(r) = r
      BY DEF Ops, RunOf
    <2>1. CASE AcceptAudit(r)
      BY <1>1, <2>1 DEF AcceptAudit, Segment
    <2>2. CASE Age(r)
      BY <1>1, <2>2 DEF Age, Free
    <2>3. ASSUME \E p, g : Walk(r, p, g), UNCHANGED <<ops, run>>
          PROVE  SegmentUncancelled'
      BY <2>0, <2>3, WalkCases DEF Idle, Segment, RunOf, SegmentUncancelled
    <2>4. ASSUME \E e : Catch(r, e)
          PROVE  SegmentUncancelled'
      BY <1>1, <2>4, CatchCases DEF Idle, Segment
    <2>5. CASE thread' = Idle
      BY <1>1, <2>5 DEF Idle
    <2>6. ASSUME \E g : thread' = Segment("publish", r, "GATED", g, "none"),
                 ~run[r].cancel, UNCHANGED run
          PROVE  SegmentUncancelled'
      BY <2>0, <2>6 DEF Segment, RunOf, SegmentUncancelled
    <2>7. ASSUME Opened(r) \/ Derived(r) \/ Filled(r) \/ \E g \in Verdicts : Executed(r, g)
          PROVE  (\E p, g : Walk(r, p, g)) /\ UNCHANGED <<ops, run>>
      BY <2>7, Zenon DEF Opened, Derived, Filled, Executed
    <2>8. ASSUME Closed(r)
          PROVE  \/ \E e : Catch(r, e)
                 \/ thread' = Idle
                 \/ /\ \E g : thread' = Segment("publish", r, "GATED", g, "none")
                    /\ ~run[r].cancel /\ UNCHANGED run
      BY <2>8, Zenon DEF Closed, EndTask, Park
    <2>9. ASSUME \E e \in Failures : AwaitFails(r, e)
          PROVE  (\E e : Catch(r, e)) \/ thread' = Idle
      BY <2>9, Zenon DEF AwaitFails, Park
    <2>. QED
      BY <1>7, <2>1, <2>2, <2>3, <2>4, <2>5, <2>6, <2>7, <2>8, <2>9, Zenon DEF OfRun
  <1>8. ASSUME NEW o \in Resumes \cup Cancels, NEW r \in Runs, AcceptTarget(o, r)
        PROVE  SegmentUncancelled'
    BY <1>1, <1>8 DEF AcceptTarget, Segment
  <1>9. ASSUME NEW o \in Resumes, Woken(o)
        PROVE  SegmentUncancelled'
    <2>1. o \in Ops /\ UNCHANGED <<ops, run>> /\ Loop(o, task[o].arg)
      BY <1>9 DEF Woken, Ops
    <2>2. ~Moves' \/ (thread'.op = o /\ ~run[RunOf(o)].cancel)
      BY <2>1, LoopCases DEF Segment
    <2>. QED
      BY <1>1, <1>2, <2>1, <2>2, RunOfType
  <1>10. ASSUME NEW e \in Failures, StorageFails(e)
         PROVE  SegmentUncancelled'
    <2>1. Catch(thread.op, e) \/ thread' = Idle
      BY <1>10, Zenon DEF StorageFails, Park
    <2>. QED
      BY <1>1, <2>1, CatchCases DEF Idle, Segment
  <1>11. CASE Start \/ Stop
    BY <1>1, <1>11 DEF Start, Stop, Free
  <1>12. CASE UNCHANGED vars
    BY <1>12 DEF vars, SegmentUncancelled, RunOf
  <1>. QED
    BY <1>3, <1>4, <1>5, <1>6, <1>7, <1>8, <1>9, <1>10, <1>11, <1>12, NextCases, Zenon

LEMMA CancelStep ==
  ASSUME TypeOK, JobsFit, AttemptsLeft, SegmentUncancelled, CancelSticks, [Next]_vars
  PROVE  CancelSticks'
  <1>. SUFFICES ASSUME NEW r \in Runs, run'[r].cancel, run'[r].phase = "GATED"
                PROVE  run'[r].gate \in {"incomplete", "infra"}
    BY DEF CancelSticks
  <1>0. run \in [Runs -> RunType] /\ RunOf(thread.op) \in Runs
    BY RunOfType DEF TypeOK, ThreadType
  <1>1. CASE SameRecord(run[r], run'[r])
    BY <1>1 DEF SameRecord, CancelSticks
  <1>2. CASE run'[r] = NewRun
    BY <1>2 DEF NewRun, NoRun
  <1>3. CASE WriteRunState /\ r # RunOf(thread.op)
    <2>1. run'[r] = run[r]
      BY <1>0, <1>3 DEF WriteRunState
    <2>. QED
      BY <2>1 DEF CancelSticks
  <1>4. CASE WriteRunState /\ r = RunOf(thread.op)
    <2>1. CASE thread.job \in {"walk", "loop", "publish"}
      BY <1>4, <2>1, SaveCases DEF SegmentUncancelled
    <2>2. CASE thread.job \notin {"walk", "loop", "publish"}
      BY <1>4, <2>2, SaveCases DEF CancelSticks, JobsFit
    <2>. QED
      BY <2>1, <2>2
  <1>. QED
    BY <1>1, <1>2, <1>3, <1>4, RecordKept

--------------------------------------------------------------------------------
(***************************************************************************)
(* The verdict a handler carries is the one in results.json.               *)
(***************************************************************************)

\* A segment that is not about a verdict yet has nothing to back.
LEMMA SegmentBacked ==
  ASSUME NEW job, NEW o, NEW p, NEW g, NEW reply,
         thread' = Idle \/ thread' = Segment(job, o, p, g, reply),
         job = "walk" => p \notin {"NONE", "REPORTED", "GATED"},
         job = "publish" => o \notin Runs
  PROVE  WalkBacked' /\ PublishBacked'
  BY DEF Idle, Segment, WalkBacked, PublishBacked

LEMMA WalkIsBacked ==
  ASSUME TypeOK, TaskBacked, NEW r \in Runs, NEW p, NEW g, Walk(r, p, g),
         p \notin {"NONE", "REPORTED", "GATED"}
  PROVE  TaskBacked' /\ WalkBacked' /\ PublishBacked'
  <1>0. r \in Ops /\ results \in [Runs -> Gates \cup {"null"}] /\ task \in [Ops -> TaskType]
    BY DEF Ops, TypeOK
  <1>1. WalkBacked' /\ PublishBacked'
    <2>1. thread' = Idle \/ thread' = Segment("walk", r, p, g, "none")
      BY WalkCases
    <2>. QED
      BY <2>1, SegmentBacked
  <1>2. TaskBacked'
    <2>1. CASE UNCHANGED <<task, results>>
      BY <2>1 DEF TaskBacked
    <2>2. CASE /\ task' = [task EXCEPT ![r] = [pc |-> SegmentEnd(p), arg |-> g]]
               /\ \/ SegmentEnd(p) = "close" /\ results' = [results EXCEPT ![r] = g]
                  \/ SegmentEnd(p) # "close" /\ UNCHANGED results
      <3>1. ASSUME NEW x \in Runs, x # r
            PROVE  task'[x] = task[x] /\ results'[x] = results[x]
        BY <1>0, <2>2, <3>1 DEF Ops
      <3>2. task'[r].pc = SegmentEnd(p) /\ task'[r].arg = g
        BY <1>0, <2>2
      <3>3. SegmentEnd(p) = "close" => results'[r] = g
        BY <1>0, <2>2
      <3>. QED
        BY <3>1, <3>2, <3>3 DEF TaskBacked
    <2>. QED
      BY <2>1, <2>2, WalkCases
  <1>. QED
    BY <1>1, <1>2

LEMMA CatchIsBacked ==
  ASSUME TypeOK, TaskBacked, NEW r \in Runs, NEW e, Catch(r, e), UNCHANGED results
  PROVE  TaskBacked' /\ WalkBacked' /\ PublishBacked'
  <1>1. WalkBacked' /\ PublishBacked'
    <2>1. \/ thread' = Idle
          \/ \E job \in {"finalize", "fail"} : \E p, g : thread' = Segment(job, r, p, g, "none")
      BY CatchCases
    <2>. QED
      BY <2>1, SegmentBacked
  <1>2. task' = [task EXCEPT ![r] = Parked] \/ task' = task
    BY CatchCases
  <1>3. \A x \in Runs : task'[x] = task[x] \/ task'[x] = Parked
    BY <1>2 DEF TypeOK, Ops
  <1>4. TaskBacked'
    BY <1>3 DEF TaskBacked, Parked
  <1>. QED
    BY <1>1, <1>4

\* A handler suspended or ended with anything but a verdict carries none.
LEMMA ParkIsBacked ==
  ASSUME TypeOK, TaskBacked, NEW o \in Ops, NEW pc, NEW arg, Park(o, pc, arg),
         pc # "close" \/ o \notin Runs \/ arg \notin Gates \/ results[o] = arg,
         UNCHANGED results
  PROVE  TaskBacked' /\ WalkBacked' /\ PublishBacked'
  <1>1. WalkBacked' /\ PublishBacked'
    BY DEF Park, Idle, WalkBacked, PublishBacked
  <1>2. \A x \in Runs : x # o => task'[x] = task[x]
    BY DEF Park, TypeOK, Ops
  <1>3. task'[o].pc = pc /\ task'[o].arg = arg
    BY DEF Park, TypeOK
  <1>4. TaskBacked'
    BY <1>2, <1>3 DEF TaskBacked
  <1>. QED
    BY <1>1, <1>4

\* The kinds of failure are no verdicts.
LEMMA FailureIsNoGate == \A e \in Failures : e \notin Gates
  BY ParameterAssumption DEF FailureKinds, Gates

\* A commit: REPORTED follows the write of results.json, GATED follows REPORTED.
LEMMA WriteOperationBacked ==
  ASSUME TypeOK, JobsFit, TaskBacked, WalkBacked, WriteOperation
  PROVE  TaskBacked' /\ WalkBacked' /\ PublishBacked'
  <1>. DEFINE o == thread.op
  <1>0. /\ thread \in ThreadType /\ o \in Ops
        /\ results \in [Runs -> Gates \cup {"null"}] /\ task \in [Ops -> TaskType]
    BY DEF TypeOK, ThreadType
  <1>1. ASSUME thread.job = "walk", AwaitAfter(thread.phase) = "none",
               thread' = [thread EXCEPT !.phase = Following(thread.phase), !.torn = FALSE],
               UNCHANGED task,
               \/ thread.phase = "AUDITED" /\ results' = [results EXCEPT ![o] = thread.gate]
               \/ thread.phase # "AUDITED" /\ UNCHANGED results
        PROVE  TaskBacked' /\ WalkBacked' /\ PublishBacked'
    <2>0. o \in Runs /\ task[o].pc # "close" /\ thread.phase # "NONE"
      BY <1>1 DEF JobsFit, WalkBacked
    <2>1. TaskBacked'
      BY <1>0, <1>1, <2>0 DEF TaskBacked
    <2>2. thread'.job = "walk" /\ thread'.op = o /\ thread'.gate = thread.gate
          /\ thread'.phase = Following(thread.phase)
      BY <1>0, <1>1 DEF ThreadType
    <2>3. /\ Following(thread.phase) # "NONE"
          /\ Following(thread.phase) = "REPORTED" => thread.phase = "AUDITED"
          /\ Following(thread.phase) = "GATED" => thread.phase = "REPORTED"
      <3>1. thread.phase \in Phases
        BY <1>0, <2>0 DEF ThreadType
      <3>2. thread.phase # "GATED"
        BY <1>1 DEF AwaitAfter
      <3>. QED
        BY <3>1, <3>2, FollowingBack
    <2>4. WalkBacked'
      BY <1>0, <1>1, <2>0, <2>2, <2>3 DEF WalkBacked
    <2>. QED
      BY <2>1, <2>2, <2>4 DEF PublishBacked
  <1>2. ASSUME thread.job = "walk", UNCHANGED results, Park(o, AwaitAfter(thread.phase), thread.gate)
        PROVE  TaskBacked' /\ WalkBacked' /\ PublishBacked'
    <2>1. AwaitAfter(thread.phase) = "close" => thread.phase = "GATED"
      BY DEF AwaitAfter
    <2>. QED
      BY <1>0, <1>2, <2>1, ParkIsBacked DEF WalkBacked
  <1>3. ASSUME UNCHANGED results, \E pc, arg : pc # "close" /\ Park(o, pc, arg)
        PROVE  TaskBacked' /\ WalkBacked' /\ PublishBacked'
    BY <1>0, <1>3, ParkIsBacked
  <1>4. ASSUME thread.job = "finalize", UNCHANGED <<task, results>>,
               \/ thread' = [thread EXCEPT !.phase = Following(thread.phase), !.torn = FALSE]
               \/ thread' = [thread EXCEPT !.job = "reply", !.torn = FALSE]
        PROVE  TaskBacked' /\ WalkBacked' /\ PublishBacked'
    <2>1. thread'.job \in {"finalize", "reply"}
      BY <1>0, <1>4 DEF ThreadType
    <2>. QED
      BY <1>4, <2>1 DEF TaskBacked, WalkBacked, PublishBacked
  <1>5. ASSUME o \in Runs, Walk(o, "TARGET_READY", "null")
        PROVE  TaskBacked' /\ WalkBacked' /\ PublishBacked'
    BY <1>5, WalkIsBacked
  <1>6. ASSUME o \in Resumes, Loop(o, run[RunOf(o)].phase), UNCHANGED <<task, results>>
        PROVE  TaskBacked' /\ WalkBacked' /\ PublishBacked'
    <2>1. o \notin Runs
      BY <1>6, OpsAssumption
    <2>2. \E job \in {"finalize", "publish", "loop"} : \E p, g : thread' = Segment(job, o, p, g, "none")
      BY <1>6, LoopCases
    <2>. QED
      BY <1>6, <2>1, <2>2, SegmentBacked DEF TaskBacked
  <1>7. task' = [task EXCEPT ![o] = Parked] /\ thread' = Idle => Park(o, "none", "none")
    BY DEF Park, Parked
  <1>8. \A pc, arg : task' = [task EXCEPT ![o] = [pc |-> pc, arg |-> arg]] /\ thread' = Idle
                       => Park(o, pc, arg)
    BY DEF Park
  <1>. QED
    BY <1>1, <1>2, <1>3, <1>4, <1>5, <1>6, <1>7, <1>8, WriteOperationCases

LEMMA OfRunBacked ==
  ASSUME TypeOK, TaskBacked, NEW r \in Runs, OfRun(r)
  PROVE  TaskBacked' /\ WalkBacked' /\ PublishBacked'
  <1>0. r \in Ops
    BY DEF Ops
  <1>1. CASE AcceptAudit(r)
    <2>1. UNCHANGED <<task, results>> /\ thread' = Segment("create", r, "CREATED", "null", "none")
      BY <1>1 DEF AcceptAudit
    <2>. QED
      BY <2>1, SegmentBacked DEF TaskBacked
  <1>2. CASE Age(r)
    BY <1>2 DEF Age, Free, TaskBacked, WalkBacked, PublishBacked
  <1>3. ASSUME \E p, g : p \notin {"NONE", "REPORTED", "GATED"} /\ Walk(r, p, g)
        PROVE  TaskBacked' /\ WalkBacked' /\ PublishBacked'
    BY <1>3, WalkIsBacked
  <1>4. ASSUME Opened(r) \/ Derived(r) \/ Filled(r) \/ \E g \in Verdicts : Executed(r, g)
        PROVE  \E p, g : p \notin {"NONE", "REPORTED", "GATED"} /\ Walk(r, p, g)
    BY <1>4 DEF Opened, Derived, Filled, Executed
  <1>5. CASE Closed(r)
    <2>0. UNCHANGED results /\ task[r].pc = "close"
      BY <1>5 DEF Closed
    <2>1. ASSUME Catch(r, task[r].arg)
          PROVE  TaskBacked' /\ WalkBacked' /\ PublishBacked'
      BY <2>0, <2>1, CatchIsBacked
    <2>2. ASSUME EndTask(r)
          PROVE  TaskBacked' /\ WalkBacked' /\ PublishBacked'
      <3>1. Park(r, "none", "none")
        BY <2>2 DEF EndTask
      <3>. QED
        BY <1>0, <2>0, <3>1, ParkIsBacked
    <2>3. ASSUME UNCHANGED task, task[r].arg \in Gates,
                 thread' = Segment("publish", r, "GATED", task[r].arg, "none")
          PROVE  TaskBacked' /\ WalkBacked' /\ PublishBacked'
      BY <2>0, <2>3 DEF TaskBacked, WalkBacked, PublishBacked, Segment
    <2>. QED
      BY <1>5, <2>1, <2>2, <2>3, Zenon DEF Closed
  <1>6. ASSUME NEW e \in Failures, AwaitFails(r, e)
        PROVE  TaskBacked' /\ WalkBacked' /\ PublishBacked'
    <2>1. UNCHANGED results /\ (Catch(r, e) \/ Park(r, "close", e))
      BY <1>6 DEF AwaitFails
    <2>. QED
      BY <1>0, <2>1, CatchIsBacked, ParkIsBacked, FailureIsNoGate
  <1>. QED
    BY <1>1, <1>2, <1>3, <1>4, <1>5, <1>6, Zenon DEF OfRun

LEMMA TickBacked ==
  ASSUME TypeOK, TaskBacked, Tick
  PROVE  TaskBacked' /\ WalkBacked' /\ PublishBacked'
  <1>. DEFINE o == Head(queue)
  <1>0. o \in Ops
    BY TickTouches
  <1>. HIDE DEF o
  <1>1. ASSUME o \in Runs, Walk(o, "TARGET_READY", "null")
        PROVE  TaskBacked' /\ WalkBacked' /\ PublishBacked'
    BY <1>1, WalkIsBacked
  <1>2. ASSUME UNCHANGED <<task, results>>,
               \/ thread' = Idle
               \/ \E job \in {"finalize", "takeover", "reply"} :
                    \E p, g, reply : thread' = Segment(job, o, p, g, reply)
        PROVE  TaskBacked' /\ WalkBacked' /\ PublishBacked'
    BY <1>2, SegmentBacked DEF TaskBacked
  <1>3. ASSUME PrepareResume(o)
        PROVE  \/ thread' = Idle
               \/ \E job \in {"finalize", "takeover", "reply"} :
                    \E p, g, reply : thread' = Segment(job, o, p, g, reply)
    BY <1>0, <1>3, PrepareResumeCases
  <1>4. ASSUME \E reply : \/ thread' = Segment("reply", o, "NONE", "null", reply)
                          \/ thread' = Segment("finalize", o, "TERMINALIZING", "incomplete", reply)
        PROVE  \E job \in {"finalize", "takeover", "reply"} :
                 \E p, g, reply : thread' = Segment(job, o, p, g, reply)
    BY <1>4
  <1>. QED
    BY <1>1, <1>2, <1>3, <1>4, TickCases, Zenon DEF o

LEMMA CarriedStep ==
  ASSUME TypeOK, JobsFit, CarriedBacked, [Next]_vars
  PROVE  CarriedBacked'
  <1>0. /\ thread \in ThreadType /\ thread.op \in Ops /\ task \in [Ops -> TaskType]
        /\ TaskBacked /\ WalkBacked /\ PublishBacked
    BY DEF CarriedBacked, TypeOK, ThreadType
  <1>1. CASE WriteRunState
    <2>1. /\ thread'.job = thread.job /\ thread'.op = thread.op
          /\ thread'.phase = thread.phase /\ thread'.gate = thread.gate
          /\ UNCHANGED <<task, results>>
      BY <1>0, <1>1 DEF WriteRunState, ThreadType
    <2>. QED
      BY <2>1 DEF CarriedBacked, TaskBacked, WalkBacked, PublishBacked
  <1>2. CASE WriteOperation
    BY <1>0, <1>2, WriteOperationBacked DEF CarriedBacked, TaskBacked, WalkBacked, PublishBacked
  <1>3. CASE CreateRun \/ Bind \/ TakeOver
    <2>1. thread'.job \in {"bind", "idle", "revive"} /\ UNCHANGED <<task, results>>
      BY <1>0, <1>3 DEF CreateRun, Bind, TakeOver, ThreadType, Idle
    <2>. QED
      BY <2>1 DEF CarriedBacked, TaskBacked, WalkBacked, PublishBacked
  <1>4. CASE Reply
    <2>1. Park(thread.op, "none", "none") /\ UNCHANGED results
      BY <1>4 DEF Reply, EndTask
    <2>. QED
      BY <1>0, <2>1, ParkIsBacked DEF CarriedBacked, TaskBacked, WalkBacked, PublishBacked
  <1>5. CASE Tick
    BY <1>0, <1>5, TickBacked DEF CarriedBacked, TaskBacked, WalkBacked, PublishBacked
  <1>6. ASSUME NEW r \in Runs, OfRun(r)
        PROVE  CarriedBacked'
    BY <1>0, <1>6, OfRunBacked DEF CarriedBacked, TaskBacked, WalkBacked, PublishBacked
  <1>7. ASSUME NEW o \in Resumes \cup Cancels, NEW r \in Runs, AcceptTarget(o, r)
        PROVE  CarriedBacked'
    <2>1. thread'.job = "bind" /\ UNCHANGED <<task, results>>
      BY <1>7 DEF AcceptTarget, Segment
    <2>. QED
      BY <2>1 DEF CarriedBacked, TaskBacked, WalkBacked, PublishBacked
  <1>8. ASSUME NEW o \in Resumes, Woken(o)
        PROVE  CarriedBacked'
    <2>1. o \notin Runs /\ Loop(o, task[o].arg) /\ UNCHANGED <<task, results>>
      BY <1>8, OpsAssumption DEF Woken
    <2>2. \E job \in {"finalize", "publish", "loop"} : \E p, g : thread' = Segment(job, o, p, g, "none")
      BY <2>1, LoopCases
    <2>3. WalkBacked' /\ PublishBacked'
      BY <2>1, <2>2, SegmentBacked
    <2>. QED
      BY <1>0, <2>1, <2>3 DEF CarriedBacked, TaskBacked, WalkBacked, PublishBacked
  <1>9. ASSUME NEW e \in Failures, StorageFails(e)
        PROVE  CarriedBacked'
    <2>1. /\ thread.op \in Runs /\ UNCHANGED results
          /\ Catch(thread.op, e) \/ Park(thread.op, "close", e)
      BY <1>9 DEF StorageFails, JobsFit
    <2>2. TaskBacked' /\ WalkBacked' /\ PublishBacked'
      BY <1>0, <2>1, CatchIsBacked, ParkIsBacked, FailureIsNoGate
    <2>. QED
      BY <2>2 DEF CarriedBacked, TaskBacked, WalkBacked, PublishBacked
  <1>10. CASE Start \/ Stop
    BY <1>10 DEF Start, Stop, CarriedBacked, TaskBacked, WalkBacked, PublishBacked
  <1>11. CASE Crash
    <2>1. \A r \in Runs : task'[r].pc = "none"
      BY <1>11 DEF Crash, Parked, Ops
    <2>. QED
      BY <1>11, <2>1 DEF Crash, Idle, CarriedBacked, TaskBacked, WalkBacked, PublishBacked
  <1>12. CASE UNCHANGED vars
    BY <1>12 DEF vars, CarriedBacked, TaskBacked, WalkBacked, PublishBacked
  <1>. QED
    BY <1>1, <1>2, <1>3, <1>4, <1>5, <1>6, <1>7, <1>8, <1>9, <1>10, <1>11, <1>12, NextCases, Zenon

--------------------------------------------------------------------------------
(***************************************************************************)
(* A Run with a verdict about the product is over.                         *)
(***************************************************************************)

\* A step on behalf of another Run does not disturb one that is over.
LEMMA OthersTouch ==
  ASSUME TypeOK, NEW r \in Runs, NEW o \in Ops, Over(r), Touches(o), RunOf(o) # r,
         Queued' \subseteq Queued \cup {o}, Free \/ thread.op = o
  PROVE  Over(r)'
  <1>0. r \in Ops /\ RunOf(r) = r /\ r # o
    BY DEF Ops, RunOf
  <1>1. run'[r] = run[r] /\ results'[r] = results[r] /\ task'[r] = task[r]
    BY <1>0 DEF Touches
  <1>2. ops'[r].status # "NONE" /\ r \notin Queued'
    BY <1>0 DEF Touches, Over
  <1>3. ~Publishing(r)
    BY <1>0 DEF Publishing, Free
  <1>4. thread'.job = "idle" \/ (thread'.op = o /\ RunOf(o)' = RunOf(o))
    BY DEF Touches, Idle, RunOf
  <1>5. thread'.job = "idle" \/ RunOf(thread.op)' # r
    BY <1>4 DEF RunOf
  <1>. QED
    BY <1>1, <1>2, <1>3, <1>5 DEF Over, Free

\* The segment in progress: the second half of the save that published the verdict,
\* a cancel_run that is being queued or refused, or one of another Run.
LEMMA SegmentKeepsOver ==
  ASSUME TypeOK, JobsFit, QueuedOnce, NEW r \in Runs, Over(r), ~Free, Touches(thread.op),
         \/ WriteRunState \/ WriteOperation \/ CreateRun \/ Bind \/ TakeOver \/ Reply
         \/ \E e \in Failures : StorageFails(e)
  PROVE  Over(r)'
  <1>. DEFINE o == thread.op
  <1>0. /\ o \in Ops /\ RunOf(o) \in Runs /\ r \in Ops /\ RunOf(r) = r
        /\ queue \in Seq(Ops) /\ task \in [Ops -> TaskType] /\ ops \in [Ops -> [status : Statuses, target : Runs, bound : BOOLEAN]]
    BY RunOfType DEF TypeOK, ThreadType, Ops, RunOf
  <1>q. Queued' \subseteq Queued \cup {o}
    <2>1. CASE queue' = queue
      BY <2>1 DEF Queued
    <2>2. CASE queue' = Append(queue, o)
      BY <1>0, <2>2 DEF Queued
    <2>. QED
      BY <2>1, <2>2, QueueCases
         DEF WriteRunState, WriteOperation, CreateRun, TakeOver, Reply, StorageFails
  <1>1. CASE RunOf(o) # r
    BY <1>0, <1>1, <1>q, OthersTouch
  <1>2. CASE RunOf(o) = r /\ ~Publishing(r)
    <2>1. o \in Cancels /\ thread.job \in {"bind", "reply"} /\ task[r].pc = "none"
      BY <1>2 DEF Over, Free
    <2>2. o # r /\ o \notin Runs
      BY <2>1, OpsAssumption
    <2>3. Bind \/ Reply
      <3>1. ~WriteRunState /\ ~WriteOperation /\ ~CreateRun /\ ~TakeOver
        BY <2>1 DEF WriteRunState, WriteOperation, PersistJobs, CreateRun, TakeOver
      <3>2. \A e \in Failures : ~StorageFails(e)
        BY <2>1 DEF StorageFails
      <3>. QED
        BY <3>1, <3>2
    <2>4. thread' = Idle /\ UNCHANGED <<run, results>> /\ task'[r] = task[r]
      BY <1>0, <2>2, <2>3 DEF Bind, Reply, EndTask, Park
    <2>5. ops'[r].status # "NONE" /\ r \notin Queued'
      BY <1>0, <1>q, <2>2 DEF Touches, Over
    <2>. QED
      BY <2>1, <2>4, <2>5 DEF Over, Idle, Free
  <1>3. CASE Publishing(r)
    <2>1. WriteOperation
      BY <1>3 DEF Publishing, WriteRunState, CreateRun, Bind, TakeOver, Reply, StorageFails
    <2>2. thread.op = r /\ thread.job = "publish"
      BY <1>3 DEF Publishing
    <2>3. thread' = Idle /\ task' = [task EXCEPT ![r] = Parked] /\ UNCHANGED results
      BY <2>1, <2>2, WriteOperationCases
    <2>4. UNCHANGED <<run, queue>> /\ ops'[r].status # "NONE"
      BY <1>0, <2>1 DEF WriteOperation, Over, Touches
    <2>5. task'[r].pc = "none" /\ r \notin Queued'
      BY <1>0, <2>3, <2>4 DEF Parked, Queued, Over
    <2>. QED
      BY <2>3, <2>4, <2>5 DEF Over, Idle, Free
  <1>. QED
    BY <1>1, <1>2, <1>3

\* The start of a handler: that of a cancel_run finds the Run COMPLETED.
LEMMA TickKeepsOver ==
  ASSUME TypeOK, Accepted, NEW r \in Runs, Over(r), ~ResumeAsked(r), Tick
  PROVE  Over(r)'
  <1>. DEFINE o == Head(queue)
  <1>0. o \in Ops /\ o \in Queued /\ Free /\ Touches(o) /\ ops[o].status # "NONE"
    BY TickTouches DEF Accepted, Busy
  <1>1. queue \in Seq(Ops) /\ queue # <<>> /\ queue' = Tail(queue) /\ UNCHANGED ops
    BY TickCases DEF TypeOK
  <1>2. Queued' \subseteq Queued
    BY <1>1 DEF Queued
  <1>3. CASE RunOf(o) # r
    BY <1>0, <1>2, <1>3, OthersTouch
  <1>4. CASE RunOf(o) = r
    <2>1. o \notin Runs
      BY <1>0, <1>4 DEF RunOf, Over
    <2>2. o \notin Resumes
      BY <1>0, <1>4, <2>1 DEF RunOf, ResumeAsked
    <2>3. o \in Cancels /\ run[RunOf(o)].status = "COMPLETED"
      BY <1>0, <1>4, <2>1, <2>2 DEF Ops, Over
    <2>4. UNCHANGED <<run, task, results>>
      BY <2>1, <2>2, <2>3, TickCases, Zenon
    <2>5. \E reply : thread' = Segment("reply", o, "NONE", "null", reply)
      <3>1. run[RunOf(o)].status \in Terminal
        BY <2>3 DEF Terminal
      <3>. QED
        BY <2>1, <2>2, <3>1, TickCases, Zenon
    <2>6. thread'.op = o /\ thread'.job = "reply"
      BY <2>5 DEF Segment
    <2>7. task[r].pc = "none"
      BY <1>0 DEF Over, Publishing, Free
    <2>. QED
      BY <1>1, <1>2, <2>3, <2>4, <2>6, <2>7 DEF Over
  <1>. QED
    BY <1>3, <1>4

\* A Run that is over stays over, unless somebody asks to resume it.
LEMMA OverStep ==
  ASSUME TypeOK, JobsFit, Accepted, QueuedOnce, [Next]_vars,
         NEW r \in Runs, Over(r), ~ResumeAsked(r), ~ResumeAsked(r)'
  PROVE  Over(r)'
  <1>0. r \in Ops /\ RunOf(r) = r
    BY DEF Ops, RunOf
  <1>1. ASSUME \/ WriteRunState \/ WriteOperation \/ CreateRun \/ Bind \/ TakeOver \/ Reply
               \/ \E e \in Failures : StorageFails(e)
        PROVE  Over(r)'
    <2>1. ~Free
      BY <1>1 DEF Free, WriteRunState, WriteOperation, PersistJobs, CreateRun, Bind, TakeOver,
                  Reply, StorageFails
    <2>. QED
      BY <1>1, <2>1, SegmentTouches, SegmentKeepsOver
  <1>2. CASE Tick
    BY <1>2, TickKeepsOver
  <1>3. ASSUME NEW o \in Runs \cup Resumes, Free, task[o].pc # "none", Touches(o), UNCHANGED queue
        PROVE  Over(r)'
    <2>1. o \in Ops /\ ops[o].status # "NONE" /\ Queued' = Queued
      BY <1>3 DEF Ops, Accepted, Busy, Queued
    <2>2. RunOf(o) # r
      BY <1>3, <2>1 DEF RunOf, ResumeAsked, Over, Publishing, Free
    <2>. QED
      BY <1>3, <2>1, <2>2, OthersTouch
  <1>4. ASSUME NEW o \in Ops, NEW x \in Runs, Accepts(o, x)
        PROVE  Over(r)'
    <2>1. o # r /\ Free
      BY <1>4 DEF Accepts, Over
    <2>2. ops'[r].status # "NONE" /\ Queued' = Queued /\ task[r].pc = "none"
      BY <1>0, <1>4, <2>1 DEF Accepts, Over, Queued, Publishing, Free
    <2>3. thread'.op = o /\ (o \notin Runs => thread'.job = "bind")
      BY <1>4 DEF Accepts, Segment
    <2>4. RunOf(thread.op)' # r \/ o \in Cancels
      BY <1>4, <2>1, <2>3 DEF Accepts, RunOf, ResumeAsked, Ops
    <2>5. o \in Cancels => o \notin Runs
      BY OpsAssumption
    <2>. QED
      BY <1>4, <2>2, <2>3, <2>4, <2>5 DEF Accepts, Over
  <1>5. ASSUME NEW x \in Runs, Age(x)
        PROVE  Over(r)'
    <2>1. SameRecord(run[r], run'[r])
      BY <1>5, RecordKept DEF Age, Free, WriteRunState, PersistJobs, CreateRun
    <2>. QED
      BY <1>5, <2>1 DEF Age, SameRecord, Over, Queued, Publishing, Free
  <1>6. CASE Start
    <2>1. PICK s \in Seq(Ops) : /\ queue' = queue \o s
                                /\ \A i \in 1..Len(s) : s[i] \in Recoverable
      BY <1>6, StartCases
    <2>2. \A x \in Queued' : x \in Queued \/ x \in Recoverable
      BY <2>1 DEF Queued, TypeOK
    <2>3. r \notin Recoverable
      BY <1>0 DEF Recoverable, Over
    <2>. QED
      BY <1>6, <2>2, <2>3 DEF Start, Over, Publishing, Free
  <1>7. CASE Stop
    BY <1>7 DEF Stop, Over, Queued, Publishing, Free
  <1>8. CASE Crash
    <2>1. SameRecord(run[r], run'[r])
      BY <1>8, RecordKept DEF Crash, Idle, WriteRunState, CreateRun, PersistJobs
    <2>2. task'[r].pc = "none" /\ thread'.job = "idle" /\ r \notin Queued'
      BY <1>0, <1>8 DEF Crash, Parked, Idle, Queued
    <2>. QED
      BY <1>8, <2>1, <2>2 DEF Crash, SameRecord, Over, Free
  <1>9. CASE UNCHANGED vars
    BY <1>9 DEF vars, Over, Queued, Publishing, Free, RunOf
  <1>a. ASSUME NEW x \in Runs, OfRun(x)
        PROVE  \/ Free /\ task[x].pc # "none" /\ Touches(x) /\ UNCHANGED queue
               \/ x \in Ops /\ Accepts(x, x)
               \/ Age(x)
    BY <1>a, SettleTouches, AcceptsCases DEF Ops
  <1>b. ASSUME NEW o \in Resumes, Woken(o)
        PROVE  Free /\ task[o].pc # "none" /\ Touches(o) /\ UNCHANGED queue
    BY <1>b, SettleTouches DEF Ops
  <1>c. ASSUME NEW o \in Resumes \cup Cancels, NEW x \in Runs, AcceptTarget(o, x)
        PROVE  o \in Ops /\ Accepts(o, x)
    BY <1>c, AcceptsCases DEF Ops
  <1>. QED
    BY <1>1, <1>2, <1>3, <1>4, <1>5, <1>6, <1>7, <1>8, <1>9, <1>a, <1>b, <1>c, NextCases, Zenon

\* A verdict about the product is published by the handler that wrote results.json,
\* or by a resume_run, which somebody asked for.
LEMMA JudgedStep ==
  ASSUME TypeOK, JobsFit, AttemptsLeft, Accepted, QueuedOnce, CarriedBacked, JudgedIsOver,
         [Next]_vars
  PROVE  JudgedIsOver'
  <1>. SUFFICES ASSUME NEW r \in Runs, run'[r].gate \in Judged, ~ResumeAsked(r)'
                PROVE  Over(r)'
    BY DEF JudgedIsOver
  <1>0. /\ r \in Ops /\ RunOf(r) = r /\ thread.op \in Ops /\ RunOf(thread.op) \in Runs
        /\ thread \in ThreadType
    BY RunOfType DEF Ops, RunOf, TypeOK, ThreadType
  <1>1. ~ResumeAsked(r)
    BY TargetsKept DEF ResumeAsked, Ops
  <1>2. CASE run[r].gate \in Judged
    BY <1>1, <1>2, OverStep DEF JudgedIsOver
  <1>3. CASE run[r].gate \notin Judged
    <2>1. WriteRunState
      <3>1. ~SameRecord(run[r], run'[r])
        BY <1>3 DEF SameRecord
      <3>2. run'[r] # NewRun
        BY DEF NewRun, NoRun, Judged
      <3>. QED
        BY <3>1, <3>2, RecordKept
    <2>2. RunOf(thread.op) = r
      BY <1>0, <1>3, <2>1 DEF WriteRunState, TypeOK
    <2>3. /\ thread.job \in {"publish", "finalize"} /\ run'[r].gate = thread.gate
          /\ run'[r].status = "COMPLETED"
      BY <1>3, <2>1, <2>2, SaveCases
    <2>4. thread.job = "publish"
      BY <2>3 DEF JobsFit, Judged
    <2>5. thread.op \in Runs \cup Resumes /\ Busy(thread.op)
      BY <2>4 DEF JobsFit, Busy, Free
    <2>6. ops[thread.op].status # "NONE"
      BY <1>0, <2>5 DEF Accepted
    <2>7. thread.op = r
      BY <1>1, <2>2, <2>5, <2>6 DEF ResumeAsked, RunOf
    <2>8. results[r] = thread.gate /\ r \notin Queued
      BY <2>4, <2>5, <2>7 DEF CarriedBacked, PublishBacked, QueuedOnce, Free
    <2>9. Publishing(r)' /\ UNCHANGED <<ops, results, queue, task>>
      BY <1>0, <2>1, <2>4, <2>7 DEF WriteRunState, Publishing, ThreadType
    <2>. QED
      BY <2>3, <2>6, <2>7, <2>8, <2>9 DEF Over, Queued
  <1>. QED
    BY <1>2, <1>3

--------------------------------------------------------------------------------
(***************************************************************************)
(* The theorems.                                                           *)
(***************************************************************************)

\* The server starts in a state that satisfies the invariant.
LEMMA InitInv == Init => Inv
  <1>. SUFFICES ASSUME Init
                PROVE  Inv
    OBVIOUS
  <1>1. TypeOK
    <2>1. Idle \in ThreadType /\ Parked \in TaskType
      BY SegmentType DEF Parked, TaskType
    <2>2. NoRun \in RunType
      <3>1. 0 \in 0..MaxResumeAttempts /\ 0 \in 0..Confirmations
        BY ParameterAssumption
      <3>. QED
        BY <3>1 DEF NoRun, RunType
    <2>3. ops \in [Ops -> [status : Statuses, target : Runs, bound : BOOLEAN]]
      <3>1. (CHOOSE r \in Runs : TRUE) \in Runs
        BY OpsAssumption
      <3>. QED
        BY <3>1 DEF Init, Statuses
    <2>. QED
      BY <2>1, <2>2, <2>3 DEF Init, TypeOK
  <1>2. Free /\ Queued = {} /\ \A o \in Ops : task[o].pc = "none"
    BY DEF Init, Idle, Free, Queued, Parked
  <1>3. JobsFit /\ AttemptsLeft /\ SegmentUncancelled
    BY <1>2 DEF Free, JobsFit, AttemptsLeft, SegmentUncancelled
  <1>4. Accepted /\ QueuedOnce
    BY <1>2 DEF Init, Accepted, Busy, QueuedOnce
  <1>5. CarriedBacked
    BY <1>2 DEF Free, CarriedBacked, TaskBacked, WalkBacked, PublishBacked, Ops
  <1>6. CancelSticks /\ JudgedIsOver
    BY DEF Init, NoRun, CancelSticks, JudgedIsOver, Judged
  <1>. QED
    BY <1>1, <1>3, <1>4, <1>5, <1>6 DEF Inv

\* Every step keeps the invariant.
LEMMA NextInv == Inv /\ [Next]_vars => Inv'
  <1>. SUFFICES ASSUME Inv, [Next]_vars
                PROVE  Inv'
    OBVIOUS
  <1>. USE DEF Inv
  <1>1. TypeOK'
    BY TypeStep
  <1>2. JobsFit' /\ AttemptsLeft'
    BY FitStep
  <1>3. Accepted' /\ QueuedOnce'
    BY AcceptedStep, QueuedStep
  <1>4. SegmentUncancelled' /\ CancelSticks'
    BY UncancelledStep, CancelStep
  <1>5. CarriedBacked' /\ JudgedIsOver'
    BY CarriedStep, JudgedStep
  <1>. QED
    BY <1>1, <1>2, <1>3, <1>4, <1>5

\* The invariant holds in every state the server reaches.
THEOREM Invariant == Spec => []Inv
  BY InitInv, NextInv, PTL DEF Spec

\* Type correctness: in particular the queue only ever holds operations, and
\* _prepareResume never counts an attempt beyond its limit.
THEOREM TypeCorrect == Spec => []TypeOK
  BY Invariant, PTL DEF Inv

\* The verdict about the product that run_state.json holds is the one that
\* results.json holds, unless somebody asked to resume the Run.
THEOREM VerdictIsBacked == Spec => []VerdictBacked
  <1>1. Inv => VerdictBacked
    BY DEF Inv, JudgedIsOver, Over, VerdictBacked
  <1>. QED
    BY <1>1, Invariant, PTL

\* A Run whose cancellation was recorded never ends with such a verdict.
THEOREM CancellationSticks == Spec => []CancelSticks
  <1>1. Inv => CancelSticks
    BY DEF Inv
  <1>. QED
    BY <1>1, Invariant, PTL
================================================================================
