--------------------------- MODULE OperationRegistry ---------------------------
(***************************************************************************)
(* The durable operations of one MCP server: the control plane that admits *)
(* run_audit and derive_coverage calls, the registry with its files, its   *)
(* memory and its retention, and of the worker as much as reads or updates *)
(* the records. RunLifecycle has what happens to a Run afterwards.         *)
(*                                                                         *)
(* As there, "thread" is the rest of the synchronous code in progress, cut *)
(* at its file writes; only a crash can come between them.                 *)
(***************************************************************************)
EXTENDS Naturals, FiniteSets

CONSTANTS
  Keys,           \* workspace, tool and client_request_id of a call
  Audits,         \* the keys of run_audit; the others are of derive_coverage
  Params,         \* the other arguments of a call
  Ids,            \* operation ids; the model stops creating when all are used
  Calls,          \* calls that clients have open at a time
  Faults,         \* what the environment may do
  HighWatermark,  \* retention.high_watermark
  LowWatermark,   \* retention.low_watermark
  None

FaultKinds == {"crash", "restart", "expire", "unlink", "preview"}

ASSUME RegistryAssumption ==
  /\ None \notin Keys \cup Ids
  /\ Audits \subseteq Keys
  /\ Faults \subseteq FaultKinds
  /\ HighWatermark \in Nat /\ LowWatermark \in Nat

VARIABLES
  up,       \* there is a process
  record,   \* operations/<id>.json, Absent where there is no such file
  tombs,    \* ids with a <id>.tombstone.json
  known,    \* registry.byId: ids whose record is in memory (as it is on disk)
  index,    \* registry.index
  runs,     \* worker.runs: ids whose Run this process knows
  work,     \* the worker's side of an operation: none, queued, again (put back
            \* into the queue by a restart) or busy
  call,     \* calls in progress
  thread,   \* the segment in progress
  handle    \* what the clients keep: the last accepted answer to each key

vars == <<up, record, tombs, known, index, runs, work, call, thread, handle>>

Nothing == [id |-> None, params |-> None]

\* What is told apart of an OperationRecord, where there is none: bound says
\* whether run_id is set, expired whether expires_at has passed.
Absent ==
  [key |-> None, params |-> None, status |-> "NONE", bound |-> FALSE, expired |-> FALSE]

OnDisk == { i \in Ids : record[i].key # None }

\* crypto.randomBytes: an id that was never used.
Fresh == Ids \ (OnDisk \cup tombs)

Idle == [step |-> "free", call |-> None, id |-> None]

Free == thread.step = "free"

NoCall == [pc |-> "idle", key |-> None, params |-> None]

--------------------------------------------------------------------------------
\* _acceptedFor, for an operation that exists: a conflict unless the parameters are
\* the same; an audit without a run_id does not pass the contract of its tool.
Answer(c, k, p, i) ==
  \/ /\ record[i].params # p
     /\ call' = [call EXCEPT ![c] = NoCall]
     /\ UNCHANGED handle
  \/ /\ record[i].params = p /\ k \in Audits /\ ~record[i].bound
     /\ call' = [call EXCEPT ![c] = [NoCall EXCEPT !.pc = "broken"]]
     /\ UNCHANGED handle
  \/ /\ record[i].params = p /\ (k \in Audits => record[i].bound)
     /\ call' = [call EXCEPT ![c] = NoCall]
     /\ handle' = [handle EXCEPT ![k] = [id |-> i, params |-> p]]

\* _handle up to the await of the preflight.
Request(c, k, p) ==
  /\ up /\ Free /\ call[c].pc \in {"idle", "broken"}
  /\ \/ /\ index[k] # None
        /\ Answer(c, k, p, index[k])
     \/ /\ index[k] = None
        /\ call' = [call EXCEPT ![c] = [pc |-> "preflight", key |-> k, params |-> p]]
        /\ UNCHANGED handle
  /\ UNCHANGED <<up, record, tombs, known, index, runs, work, thread>>

\* An expired record that nobody swept keeps creation open.
Reclaimable == { i \in known : record[i].expired }
Full == Cardinality(known) >= HighWatermark /\ Reclaimable = {}

\* The preflight is back and says no, or the registry is full.
Refuse(c) ==
  /\ up /\ Free /\ call[c].pc = "preflight"
  /\ call' = [call EXCEPT ![c] = NoCall]
  /\ UNCHANGED <<up, record, tombs, known, index, runs, work, thread, handle>>

\* Mutant: the second look-up does not compare the parameters.
CreatedMeanwhileAny(c) ==
  /\ up /\ Free /\ call[c].pc = "preflight" /\ index[call[c].key] # None
  /\ call' = [call EXCEPT ![c] = NoCall]
  /\ handle' = [handle EXCEPT ![call[c].key] = [id |-> index[call[c].key], params |-> call[c].params]]
  /\ UNCHANGED <<up, record, tombs, known, index, runs, work, thread>>

\* create looks the key up once more: another call may have been faster while
\* this one awaited its preflight.
CreatedMeanwhile(c) ==
  /\ up /\ Free /\ call[c].pc = "preflight"
  /\ index[call[c].key] # None
  /\ Answer(c, call[c].key, call[c].params, index[call[c].key])
  /\ UNCHANGED <<up, record, tombs, known, index, runs, work, thread>>

\* Mutants: create trusts the look-up before the preflight; an audit is not bound.
CreateUnchecked(c, i) ==
  LET k == call[c].key
  IN  /\ up /\ Free /\ call[c].pc = "preflight"
      /\ ~Full /\ i \in Fresh
      /\ record' = [record EXCEPT ![i] =
                      [Absent EXCEPT !.key = k, !.params = call[c].params, !.status = "ACCEPTED"]]
      /\ known' = known \cup {i}
      /\ index' = [index EXCEPT ![k] = i]
      /\ thread' = [step |-> IF k \in Audits THEN "bind" ELSE "reply", call |-> c, id |-> i]
      /\ UNCHANGED <<up, tombs, runs, work, call, handle>>

CreateUnbound(c, i) ==
  LET k == call[c].key
  IN  /\ up /\ Free /\ call[c].pc = "preflight"
      /\ index[k] = None /\ ~Full /\ i \in Fresh
      /\ record' = [record EXCEPT ![i] =
                      [Absent EXCEPT !.key = k, !.params = call[c].params, !.status = "ACCEPTED"]]
      /\ known' = known \cup {i}
      /\ index' = [index EXCEPT ![k] = i]
      /\ thread' = [step |-> "reply", call |-> c, id |-> i]
      /\ UNCHANGED <<up, tombs, runs, work, call, handle>>

\* create writes the record, and enters it in the memory.
Create(c, i) ==
  LET k == call[c].key
  IN  /\ up /\ Free /\ call[c].pc = "preflight"
      /\ index[k] = None /\ ~Full
      /\ i \in Fresh
      /\ record' = [record EXCEPT ![i] =
                      [Absent EXCEPT !.key = k, !.params = call[c].params, !.status = "ACCEPTED"]]
      /\ known' = known \cup {i}
      /\ index' = [index EXCEPT ![k] = i]
      /\ thread' = [step |-> IF k \in Audits THEN "bind" ELSE "reply", call |-> c, id |-> i]
      /\ UNCHANGED <<up, tombs, runs, work, call, handle>>

\* createFixtureRun and updateRun: the record of an audit gets its Run.
Bind ==
  /\ thread.step = "bind"
  /\ record' = [record EXCEPT ![thread.id].bound = TRUE, ![thread.id].status = "RUNNING"]
  /\ runs' = runs \cup {thread.id}
  /\ thread' = [thread EXCEPT !.step = "reply"]
  /\ UNCHANGED <<up, tombs, known, index, work, call, handle>>

\* The operation is queued and the client gets its handle.
Reply ==
  LET c == thread.call
  IN  /\ thread.step = "reply"
      /\ work' = [work EXCEPT ![thread.id] = "queued"]
      /\ handle' = [handle EXCEPT ![call[c].key] = [id |-> thread.id, params |-> call[c].params]]
      /\ call' = [call EXCEPT ![c] = NoCall]
      /\ thread' = Idle
      /\ UNCHANGED <<up, record, tombs, known, index, runs>>

--------------------------------------------------------------------------------
\* _tick and the head of _run: an operation whose record was swept is skipped;
\* one that a restart put back is executed only if the lease of its Run allows.
Begin(i) ==
  /\ up /\ Free /\ work[i] \in {"queued", "again"}
  /\ \/ i \in known /\ work' = [work EXCEPT ![i] = "busy"]
     \/ (i \notin known \/ work[i] = "again") /\ work' = [work EXCEPT ![i] = "none"]
  /\ UNCHANGED <<up, record, tombs, known, index, runs, call, thread, handle>>

\* Nothing catches a rejection of _run: the process ends, and with it all that
\* is in memory only.
Dead ==
  /\ up' = FALSE
  /\ known' = {} /\ runs' = {}
  /\ index' = [k \in Keys |-> None]
  /\ work' = [i \in Ids |-> "none"]
  /\ call' = [c \in Calls |-> NoCall]
  /\ thread' = Idle
  /\ UNCHANGED <<record, tombs, handle>>

Done(i) ==
  /\ record' = [record EXCEPT ![i].status = "DONE"]
  /\ work' = [work EXCEPT ![i] = "none"]
  /\ UNCHANGED <<up, tombs, known, index, runs, call, thread, handle>>

Ended(i) ==
  /\ work' = [work EXCEPT ![i] = "none"]
  /\ UNCHANGED <<up, record, tombs, known, index, runs, call, thread, handle>>

\* Mutants: the result of a preview is written to a new record if the old one was
\* swept; or it is not written at all.
PreviewEndsAnyway(i) ==
  /\ up /\ Free /\ work[i] = "busy" /\ i \notin runs
  /\ record' = [record EXCEPT ![i].status = "DONE", ![i].key = CHOOSE k \in Keys \ Audits : TRUE]
  /\ work' = [work EXCEPT ![i] = "none"]
  /\ UNCHANGED <<up, tombs, known, index, runs, call, thread, handle>>

PreviewEndsSilently(i) ==
  /\ up /\ Free /\ work[i] = "busy" /\ i \notin runs
  /\ Ended(i)

\* A preview is done. The sweeper may have reclaimed its record.
PreviewEnds(i) ==
  /\ up /\ Free /\ work[i] = "busy" /\ i \notin runs
  /\ \/ i \in known /\ Done(i)
     \/ i \notin known /\ Ended(i)

\* A preview fails: no handler records that.
PreviewFails(i) ==
  /\ "preview" \in Faults
  /\ up /\ Free /\ work[i] = "busy" /\ i \notin runs
  /\ Dead

\* update reads the file if the record is not in the memory: a record that was
\* swept but not deleted comes back, without its entry in the index.
UpdateRun(i, final) ==
  /\ record' = [record EXCEPT ![i].status = IF final THEN "DONE" ELSE @]
  /\ known' = known \cup {i}
  /\ work' = [work EXCEPT ![i] = IF final THEN "none" ELSE @]
  /\ UNCHANGED <<up, tombs, index, runs, call, thread, handle>>

\* The handler of a Run saves a phase (final: the last one). updateRun throws if
\* there is no record; the catch block of _run then saves again, and throws
\* again, unless the Run is GATED already.
AuditSaves(i, final) ==
  /\ up /\ Free /\ work[i] = "busy" /\ i \in runs
  /\ \/ i \in OnDisk /\ UpdateRun(i, final)
     \/ i \notin OnDisk /\ final /\ Ended(i)
     \/ i \notin OnDisk /\ ~final /\ Dead

--------------------------------------------------------------------------------
\* The time to live of a record is over.
Expire(i) ==
  /\ "expire" \in Faults
  /\ Free /\ i \in OnDisk /\ ~record[i].expired
  /\ record' = [record EXCEPT ![i].expired = TRUE]
  /\ UNCHANGED <<up, tombs, known, index, runs, work, call, thread, handle>>

\* Mutant: sweep({ forceTombstone: false }).
BuryUnmarked(i) ==
  /\ up /\ thread.step \in {"free", "sweep"}
  /\ i \in Reclaimable
  /\ thread' = [Idle EXCEPT !.step = "unlink", !.id = i]
  /\ UNCHANGED <<up, record, tombs, known, index, runs, work, call, handle>>

\* sweep reclaims an expired record: first the tombstone...
Bury(i) ==
  /\ up /\ thread.step \in {"free", "sweep"}
  /\ i \in Reclaimable
  /\ tombs' = tombs \cup {i}
  /\ thread' = [Idle EXCEPT !.step = "unlink", !.id = i]
  /\ UNCHANGED <<up, record, known, index, runs, work, call, handle>>

\* ...then the file, which may fail, and the memory. sweep goes on until no
\* expired record is left, or the low watermark is reached.
Unlink ==
  LET i == thread.id
  IN  /\ thread.step = "unlink"
      /\ \/ record' = [record EXCEPT ![i] = Absent]
         \/ "unlink" \in Faults /\ UNCHANGED record
      /\ known' = known \ {i}
      /\ index' = [k \in Keys |-> IF index[k] = i THEN None ELSE index[k]]
      /\ thread' = IF Cardinality(known) - 1 > LowWatermark /\ Reclaimable \ {i} # {}
                     THEN [Idle EXCEPT !.step = "sweep"] ELSE Idle
      /\ UNCHANGED <<up, tombs, runs, work, call, handle>>

--------------------------------------------------------------------------------
\* _reindex: every record is read, expired or with a tombstone beside it. Where
\* two have the same key the one read last stays in the index. Then
\* _resyncFromRegistry: bound operations get their Runs back, unfinished ones
\* their place in the queue.
Load ==
  /\ known' = OnDisk
  /\ \E f \in [Keys -> OnDisk \cup {None}] :
       /\ \A k \in Keys :
            /\ f[k] # None => record[f[k]].key = k
            /\ (\E i \in OnDisk : record[i].key = k) => f[k] # None
       /\ index' = f
  /\ runs' = runs \cup { i \in OnDisk : record[i].bound }
  /\ work' = [i \in Ids |-> IF /\ i \in OnDisk /\ record[i].bound
                               /\ record[i].status # "DONE" /\ work[i] = "none"
                              THEN "again" ELSE work[i]]

\* A new process over the files of the old one.
Start ==
  /\ ~up
  /\ up' = TRUE
  /\ Load
  /\ UNCHANGED <<record, tombs, call, thread, handle>>

\* restart() of a server that runs.
Restart ==
  /\ "restart" \in Faults /\ up /\ Free
  /\ Load
  /\ UNCHANGED <<up, record, tombs, call, thread, handle>>

Crash == "crash" \in Faults /\ up /\ Dead

--------------------------------------------------------------------------------
Init ==
  /\ up = TRUE
  /\ record = [i \in Ids |-> Absent]
  /\ tombs = {} /\ known = {} /\ runs = {}
  /\ index = [k \in Keys |-> None]
  /\ work = [i \in Ids |-> "none"]
  /\ call = [c \in Calls |-> NoCall]
  /\ thread = Idle
  /\ handle = [k \in Keys |-> Nothing]

Proceed == Bind \/ Reply \/ Unlink \/ (thread.step = "sweep" /\ \E i \in Ids : Bury(i))

Works(i) == Begin(i) \/ PreviewEnds(i) \/ PreviewFails(i) \/ \E final \in BOOLEAN : AuditSaves(i, final)

Next ==
  \/ Proceed
  \/ \E c \in Calls :
       \/ \E k \in Keys, p \in Params : Request(c, k, p)
       \/ Refuse(c) \/ CreatedMeanwhile(c)
       \/ \E i \in Ids : Create(c, i)
  \/ \E i \in Ids : Works(i) \/ Expire(i) \/ Bury(i)
  \/ Start \/ Restart \/ Crash

Spec == Init /\ [][Next]_vars

\* The event loop runs what is ready, and what an operation awaits settles.
Fairness ==
  /\ WF_vars(Proceed) /\ WF_vars(Start)
  /\ \A i \in Ids : WF_vars(Works(i))

FairSpec == Spec /\ Fairness

--------------------------------------------------------------------------------
\* The requests that are remembered are those with a record on disk.
Table ==
  [k \in Keys |->
     IF \E i \in OnDisk : record[i].key = k
       THEN LET i == CHOOSE i \in OnDisk : record[i].key = k
            IN  [id |-> i, params |-> record[i].params]
       ELSE Nothing]

Promise == INSTANCE IdempotentRequests WITH table <- Table

\* Every answer "accepted" is the one operation of its key, with the parameters
\* that were asked for, through awaits of concurrent calls, crashes between any
\* two writes, restarts and retention.
OneAnswer == Promise!Spec

\* The memory is the disk's: create never finds an index entry without its record
\* (INDEX_DRIFT), nor a second record of a key.
MemoryAgrees ==
  up => /\ known = OnDisk
        /\ \A k \in Keys, i \in Ids : index[k] = i <=> i \in known /\ record[i].key = k

\* Who holds a handle finds its operation, or a tombstone, whatever a sweep was
\* doing when the process died.
HandlesKept ==
  up /\ Free =>
    \A k \in Keys : handle[k] # Nothing => handle[k].id \in known \cup tombs

\* A late result does not bring a swept record back.
SweptStaysSwept ==
  [][\A i \in tombs : record[i] = Absent => record'[i] = Absent]_vars

\* A repeated run_audit is not answered with an operation that has no Run.
RetriesServed == \A c \in Calls : call[c].pc # "broken"

\* Whatever is accepted ends, unless retention takes it away.
AcceptedEnds ==
  \A i \in Ids :
    (record[i].status \in {"ACCEPTED", "RUNNING"})
      ~> (record[i].status \notin {"ACCEPTED", "RUNNING"})
================================================================================
