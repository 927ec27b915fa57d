# A TLA+ model of AutoPW

AutoPW is an MCP server that audits web applications: a client calls `run_audit`
and gets handles, a worker discovers the target, derives coverage, lets a
planner fill a test plan, executes it with Playwright, and publishes a gate
(`pass`, `fail`, `unstable`, `infra`, `incomplete`). This directory holds TLA+
modules of the program, the TLC configurations that check them, and theorems
with TLAPS proofs.

## The system

| Component (packages/) | State it keeps | Operations | What is hard | What makes it correct |
|---|---|---|---|---|
| mcp-server | the parts, progress listeners | start, stop, restart, callTool, sweep | restart on a running server re-reads the disk while handlers are suspended | nothing is lost or done twice by a restart |
| control-plane | contracts, host contexts | handle: authorize, idempotency, preflight, accept, query | an await between the idempotency lookup and the creation; three writes that bind a Run to its operation; queries that read two records | one operation per client_request_id; what is accepted ends; the tools do not contradict each other |
| operation-registry | `operations/<id>.json`, index, tombstones | create, update, updateRun, sweep, reload | crash between two files; sweep of a record in use; watermarks | the record agrees with the Run; a handle never means something else |
| worker | queue, running sets, Runs in memory | enqueue, tick, run, cancel, resume, finalize, resync | everything is interleaved at awaits; cancellation; two handlers on one Run; takeover | the gate is decided once and is the real one |
| worker/lease | owner, heartbeat, version, confirmations | observe, isStale, takeover, release | clocks, other processes, confirmation counting | one owner at a time; a dead owner's Run is finished |
| core | cache of preflights | execute, preview, preflight, deriveCoverage, fillPlanner | five awaits, a `finally`, retries of the planner, failures anywhere | results.json holds the verdict that is published; no required cell gets lost |
| run-storage | files, locks, artifact index | compareAndSwapJson, writeFile, writeArtifact, appendEvent | directory locks with expiry, file replacement on Windows | writers exclude each other, a crash leaves the old or the new file |
| execution | the state of a batch | run, runCase | budgets, retries, tiers, cleanup, failing writes | every planned instance has exactly one result |
| audit, gate, triage | none | auditExecution, evaluateGate, triage | priorities and formulas | no incomplete audit becomes a pass; a fail is the product's |
| derivation, planner, compiler, test-plan, payload-synthesis | the cache of plan templates | derive, catalog, fill, compile, validate, merge, reconcile | requirements that cannot be tested, values threaded through steps, authority of manual plans | required cells are planned or reported; a case removes only its own |
| discovery | the facts found, the browser, its budgets and timer | discover: adapters, walk, live exploration | page requests during interactions, a timer that closes what is open, budgets that cut, with and without a word | attribution; what is called complete was read; links are followed |
| application-graph | none | buildApplicationGraph | grouping by an order nobody chose | operations of one resource stay together |
| codex-plugin-runtime | workspace trust registry file | trust, untrust, calls | - | - |
| security, reporting, schemas, mcp-contracts | none | checks, formatting, generated data | - | - |

The parts interact by calls inside one Node process and by files under a data
root. `ControlPlane.handle` accepts a call, writes `operations/<id>.json`,
creates the Run (`runs/<id>/run_state.json`), binds the two and enqueues the
operation. `FixtureWorker._tick` starts the head of the queue; `_run` executes
it. For `run_audit` it awaits `AuditVerticalSlice.execute`, which calls back
(`onPhase`) at each phase; every callback saves the Run, then its operation
record. `cancel_run` and `resume_run` are operations of their own that act on
the record of another one. A process that starts over an existing data root
re-reads all records and queues what is not finished.

## Modules

| Module | Models |
|---|---|
| `RunPhases` | the phases, their order, the frozen transition table (`schemas/src/state-machine.mjs`) |
| `RunContract` | abstract specification: what a Run promises to its clients |
| `RunLifecycle` | control plane, worker, slice, lease and durable records for the operations that concern a Run |
| `RunQueries` | the answers of the five query tools, over the records of `RunLifecycle` |
| `IdempotentRequests` | abstract specification: what `client_request_id` promises |
| `OperationRegistry` | acceptance and retention of operations: control plane, registry, and the worker as far as it uses the records |
| `Takeover` | several processes over one `run_state.json`: numeric lease, compare-and-swap, plain saves |
| `RunStorage` | directory locks, replaced files and their two clients, the artifact index and `compareAndSwapJson` |
| `Requirements`, `PlanCompiler` | pure: requirements of a target; catalog, cases, validation, merge |
| `PlanPipeline` | the planning half of a Run: preflight, derivation, planner and template cache, compilation, merge, admission |
| `Verdict` | pure: classification of failures, triage, audit, gate |
| `PlanRunner` | execution of a plan and the verdict drawn from it |
| `StaticAdapters` | pure: the facts of one file |
| `ApplicationGraph` | the graph over the facts; its one order-dependent loop is the action `Group` |
| `Discovery` | the static walk and the live exploration of a target, composed with the two above |
| `MC...` | instances for TLC: the symmetry, plans, targets, sites; and claims of the documents the code does not keep |
| `RunLifecycleProofs`, `RunOutcomeProofs`, `OperationRegistryProofs`, `TakeoverProofs`, `RunStorageProofs`, `PlanRunnerProofs`, `PlanPipelineProofs`, `DiscoveryProofs` | inductive invariants and their proofs |

How they fit: a Run is accepted in `OperationRegistry` and `RunLifecycle` (two
sides of one acceptance path: the first has several clients, retention and
previews, and of an execution only its saves; the second follows one request per
operation through execution). The awaits of `execute()` in `RunLifecycle` are
what the other modules open up: the await before `Derived` is `Discovery` and the
first half of `PlanPipeline`, that before `Filled` the planner's part of it, that before
`Executed` is `PlanRunner`, whose `gate` is the verdict that `RunLifecycle` chooses freely.
What it takes for one atomic write is `RunStorage`, and the lease that it has in
one process is `Takeover` in several.

### RunLifecycle

One action is one step of the event loop, or one file write of it.

| State | Code |
|---|---|
| `up` | a process exists; `stopped` is `worker.stopped` |
| `thread` | the synchronous code in progress: which helper, for which operation, which phase it saves next, what it carries; `torn` between the two writes of `_persistRun` |
| `ops` | `operations/<id>.json`: status, `run_id` of the target, whether it is bound to a Run |
| `run` | `run_state.json`: phase, run_status, gate, cancel_requested, resume_attempts, lease |
| `results` | the gate in `artifacts/results.json` |
| `queue`, `task` | `worker.queue`; the await each handler is suspended at and the local value it holds there |

| Action | Code |
|---|---|
| `AcceptAudit`, `CreateRun`, `Bind` | the three writes of an accepted `run_audit` (control-plane 147-162) |
| `AcceptTarget`, `Bind` | acceptance of `resume_run`, `cancel_run` (140-162) |
| `Tick` with `StartAudit`, `StartResume`, `StartCancel` | `_tick` and the head of `_run` (worker 204-329, 440-449) |
| `PrepareResume`, `TakeOver` | `_prepareResume`, `_commitTakeover` (365-394) |
| `WriteRunState`, `WriteOperation` | the halves of `_persistRun` (351-363) and what comes after it in its caller |
| `Opened`, `Derived`, `Filled`, `Executed`, `Closed` | `execute()` after each of its awaits, and `_run` after the last (core 77-164, worker 242-261) |
| `AwaitFails`, `StorageFails`, `Catch` | rejections and throws, the `finally`, the catch block of `_run` (262-273) and the finalization helpers (401-464) |
| `Woken`, `Loop` | the phase loop a resume falls into (331-348) |
| `Start`, `Stop`, `Crash`, `Age` | start/restart/new process, stop, death of the process, time |

What the abstraction rests on:

- One process: its synchronous segments are not interleaved, so whenever the
  loop is free memory and disk agree, and `run` is both. The compare-and-swap of
  the lease then always succeeds; lease versions are left out. Several processes
  over one data root are in `Takeover`.
- The lease owner is `self`, `gone` or `none`, the only distinction the code
  makes in one process; time is `aged` or not, and `stale` saturates at
  `Confirmations`.
- `Tick` may run whenever the head can start. The code schedules a tick at every
  enqueue and every end of a handler, so it is never later than that.
- All operations belong to one workspace; `SlotBudget` is the smallest of the
  installation (8), global (16) and workspace (4) budgets.
- A failing write is one inside a segment of `execute()`. Failing writes of
  `run_state.json` itself and inside the finalization helpers are left out, and so
  is `preview`, `cleanup_run`, and what only tests use (`simulateWorkerCrash`,
  `attemptTakeover`).
- An error is one of the three classes the catch block tells apart. Only
  `fillPlanner` throws `PLAN_DEFECT`.

`RunContract` is implemented under the mapping `Contract` at the end of
`RunLifecycle`: the phase is the phase; the outcome is `failed`, `open`, or the gate.

### OperationRegistry

| State | Code |
|---|---|
| `record`, `tombs` | `operations/<id>.json` and `<id>.tombstone.json`; of a record its key, parameters, status, whether a Run is bound to it, whether its time to live is over |
| `known`, `index` | `registry.byId`, `registry.index`. A record in memory is what was last written, so only the ids are kept |
| `runs`, `work` | ids whose Run is in `worker.runs`; the place of an operation in the worker (`again`: put back by a restart) |
| `call`, `thread` | the calls that await their preflight; the synchronous segment in progress |
| `handle` | the last `accepted` answer to each key: the client's memory, which survives the server |

| Action | Code |
|---|---|
| `Request` | `_handle` up to the await of the preflight (control-plane 109-125), or its answer for a known key |
| `Refuse`, `CreatedMeanwhile`, `Create` | after the preflight: over budget or rejected, `create` finds the key, or writes a record (control-plane 125-154, registry 165-197) |
| `Bind`, `Reply` | the Run and its binding; queue and answer (control-plane 155-170) |
| `Begin`, `PreviewEnds`, `PreviewFails`, `AuditSaves` | the worker (204-240, 276-290, 351-361) |
| `Expire`, `Bury`, `Unlink` | time to live; `sweep`, cut between tombstone and deletion (registry 252-278) |
| `Start`, `Restart`, `Crash` | `_reindex` and `_resyncFromRegistry` in a new process or a running one |

What the abstraction rests on:

- A key is workspace, tool and client_request_id together; `Audits` are the keys
  of `run_audit`, the others are of `derive_coverage`, the two tools with a
  preflight. The parameters are everything `canonicalJson` compares. Authorization
  comes before all of this and changes no state.
- `Answer` ends in `broken` where the result contract of `run_audit` rejects the
  answer: `run_handle` is required and not nullable.
- `index.json` is written and never read; it is left out.
- Time to live is a flag that gets set. Records expire at any time, also while
  their operation runs: the default is 7 or 30 days, the length of an execution
  is not bounded by it, and retention is configurable.
- `Begin` does not model the budgets, and leaves open what the lease check of a
  re-queued `run_audit` says; `RunLifecycle` has both. A save in `AuditSaves` is
  of any phase (`final`: of the last). If it throws because the record is gone,
  the catch block saves again and throws again, which nobody catches: the process
  ends. Only a GATED Run passes the catch block without another save.
- `_reindex` reads a directory in an order the model leaves open.

`IdempotentRequests` is implemented under `Table`: the remembered request of a
key is its record on disk.

### RunQueries

An answer is a record computed from `run` and `ops` at any moment; `Handled` is
what `ControlPlane.handle` does when an answer is not in the result union of its
tool's contract (`packages/mcp-contracts/src/tools.mjs`): it becomes
`INTERNAL_CONTRACT_VIOLATION`. The queries change nothing and are no actions:
`AnswersAgree` compares all of them between any two segments, `ResultsAreServed`
is what a polling client sees.

### Takeover

| State | Code |
|---|---|
| `beats`, `aged` | the heartbeats so far, numbered; those whose age exceeds `lease_ttl_ms + takeover_grace_ms + clock_skew_tolerance_ms` |
| `disk`, `memory` | `run_state.json`; the copy of it in `worker.runs` of each process |
| `job` | what the process does with the Run |

`SavePhase`, `Finish` and `Revive` are `_persistRun`, which does not look at the
file; `Observe` and `Take` go through `compareAndSwapJson` (one step here, its
locks are `RunStorage`). `_workerAlive` knows only the workers of its own process,
so it never says "alive" of another one, and the probe drops out. A process loads
its copies when it starts (`Load`) and never again. `MaxVersion` bounds the
observations that find a timely heartbeat. `Exclusive` says that a process
starts only while no other executes the Run: what the host that spawns one stdio
server does, and what the documents do not demand (see below).

### RunStorage

One action is one file system call that another process can observe: `mkdir` of
the lock, of the claim, an owner file, a directory listing, a rename, an unlink.

| State | Code |
|---|---|
| `dir`, `claim`, `owners`, `expired`, `order` | of `<file>.lock` and `<file>.write.lock`: the directory (or an orphaned file of an older version), the claim in it, the owner files, those past their lease, the tokens in the order of their time |
| `target`, `previous` | the file and `<file>.previous`; content is the set of updates it contains |
| `proc` | where each call of `updateArtifactIndex`, `compareAndSwapJson` or `readJsonFile` stands |

A process may be preempted between any two of these steps. Left out is a live process
that stalls for the 120 seconds of a lease.

Two steps of `_acquireLock` act on what another process may have changed since it was
looked at: who created the lock directory claims it and becomes an owner without
looking for one (105), and the removal of a claim found too old may remove one made
since (174). Either can make two owners. The history variable `raced`, which no step
reads, becomes true when one of them meets such a change; `OneHolder` and the
properties that rest on exclusion are stated as long as it is false (`Undisturbed`).
They say that nothing else breaks the lock: no other preemption, death, expiry or
refused rename. Without the condition TLC refutes them, see below.

### Requirements, PlanCompiler, PlanPipeline

A target is one resource: the operations the graph shows, the order in which
their facts were observed, what was proven of them, its field constraints, the
semantics of its page. `Derive` gives each requirement its scenario, priority,
status and the reasons it is blocked for; `Catalog`, `Fill` and `ValidOutput` are
the planner; `Case` compiles one requirement to setup, steps and cleanup, each
step with the names it saves, interpolates and reads. A payload's values, CSS
and wording are abstracted; which fields have one, which steps depend on which, are not.
Requirements, selections and plans are sets: the code sorts them by id where it needs
an order, and what it then does with them does not depend on it. Of all ids that
are cut to 90 characters the catalog has one entry, as the code does; which
requirement has it does not matter, since the compiler passes it over.

`PlanPipeline` is one process planning one Run after another (`NextRun`), so that
the template cache and the cache of preflights are used across Runs: `Preflight`,
`DeriveCoverage`, `LookUp`, `Attempt`, `Check`, `Compile`, `Freeze`, `Admit`;
`Corrupt` damages a cached template. `Attempt` may time out or answer; what arrives
after a timeout is dropped by `Promise.race`.

### Verdict, PlanRunner

`Verdict` is everything from a result to the gate as operators of the plan and the
sequence of results. `PlanRunner` produces these results: `Launch` of a batch,
`SkipBlocked`, `Refuse` (production policy), `OpenContext`, `TakeStep`, `CleanUp`,
`CollectEvidence`, `CloseContext`, `Retry`, `RecordResult` with `Persist` (case
file, then checkpoint), `EndBatch`, `BlockRest` (the catch block), `Judge` (core:
audit, triage, gate). An error is the set of signals its message, code and action
give to `classifyFailure`, which may overlap. `history` is a ghost: what every
attempt really raised, changed and cleaned, which the results report only in part.

### StaticAdapters, ApplicationGraph, Discovery

A file is what its parser sees of it: operations, schema fields, calls, mounts,
branches, decorators; an expression is a sequence of literal and named segments.
`StaticAdapters` computes the facts of a file, with the order-dependent passes of
the mount prefixes. `Discovery` is the walk (`Walk`, `ReadFile`, `EndRead`), the
explorer cut at its awaits (`Launch` to `Follow`, `Single`), the page that sends
and receives meanwhile (`Send`, `Answer`), and the timer (`Timeout`, `OverBudget`),
then `Correlate` and the graph. A site is a function from paths to pages; a page
has controls, requests it sends of its own accord, and a place it lands at.

What the adapters see of a project is `Project`: the files that are not below
max_depth (`Listed`), and of a file longer than 100,000 bytes what its beginning parses
to (`Seen`). A relative link leads to a place beside the page that the browser shows at
that moment (`Leads`), which is where the last click went. The budget of time is
looked at where the code does: at the head of the loop with a page left to visit, at
a page load, and by whatever awaits a browser that has been closed; a click catches
it (`ClickFails`), and what the code does without waiting goes on.

## Runs

Twelve runs, each within a few minutes with two workers. State counts are of
distinct states.

| Run | Instance | What it shows |
|---|---|---|
| `steady` | one Run, two resumes, cancel; every failure of the slice, no faults, fair | `AnswersAgree`, `OneWriter`, `OperationsEnd`, `ResultsAreServed` hold (12,515 states) |
| `faults` | one resume, with crash, restart, storage, close | `TypeOK`, `VerdictBacked`, `CancelSticks`, `GateDecidedOnce` hold (1.08 million states) |
| `contract` | one resume, no faults, infrastructure failures | implements `RunContract` |
| `registry_promise` | two clients; crash, restart, expire | `OneAnswer` (implements `IdempotentRequests`), `MemoryAgrees` hold (65,113 states) |
| `registry_retention` | one client; also unlink, preview | `HandlesKept`, `SweptStaysSwept` hold |
| `registry_served` | two clients; restart; fair | `RetriesServed`, `AcceptedEnds` hold |
| `takeover` | four processes, three mortal, one after the other; fair | `OneExecutor`, `RunRecovered` hold (100,077 states) |
| `storage` | two writers or two swaps, one reader; crash, busy, legacy; fair | `OneHolder`, `RetainsAll`, `NeverLost`, `ReaderFinds`, `NoLeftovers`, `EveryCallReturns` hold (202,282 states) |
| `planning` | two Runs over every pair of configurations that the settings join | `NothingUnaccounted`, `FailsForCause`, `SourcesAreSaved`, `RemovesOnlyOwn` hold (179,735 states) |
| `verdict` | the plans of `Suites`, every fault of the runner; fair | `EveryInstanceOnce`, `PassIsEarned`, `BlameIsBacked`, `PassLeavesClean`, `EveryRunEnds` hold |
| `discovery` | the settings of `MCSettings`; timer and budgets anywhere; fair | `TypeOK`, `RoutesAsServed`, `LinkedPagesAreSeen`, `ObservedWasRead`, `EvidenceKept`, `ResourcesAreWhole`, `AttributedWhileActive`, `DiscoveryEnds` hold (196,480 states) |
| `fabricated` | one Run, resume, crash | `GateFromResults` violated |

`fabricated` is a disagreement between the code and the specification: after a
crash, two observations of the aged lease let a `resume_run` take over. It walks
the remaining phases with sleeps and publishes `pass`; nothing was executed and no
results.json exists. PROJECT.json quotes both sides.

`CHECK_DEADLOCK FALSE` throughout: a system without further requests, a finished
Run, plan or discovery stops.

### Bounds

- `RunLifecycle`: one Run, since two share nothing but the slots; one
  `resume_run` and one `cancel_run` make three concurrent handlers, more than the
  code's two per Run, so `PerRunBudget = 2` bites. Without a crash it takes as many
  `resume_run`s as confirmations for one of them to take over, so `steady` has two; in
  `faults` the re-queued one observes again. `contract` has one, because a Run that
  was taken over does not keep the contract (see below). Two verdicts are enough to tell
  one execution's verdict from the next one's. Three attempts and two
  confirmations, as in the code, are reached by repeated crashes.
- `OperationRegistry`: two calls at a time are what the await of the preflight can
  interleave; two keys (one of each tool), two parameters and three ids let a key
  be accepted, swept and accepted again while another one is in use.
  `HighWatermark = 2` is reached with them, `LowWatermark = 0` makes a sweep go
  through everything that is expired. Symmetry only where no liveness is checked.
- `Takeover`: three processes that may die one after the other, and one that
  lives; two attempts instead of three, so that they are used up; one phase saved
  between takeover and end (another one is the same again).
- `RunStorage`: two updaters make every race of a lock with crashes, both of `raced`
  among them (each of the two refuted claims below needs two writers and no fault); a
  third would make `ReaderFinds` void. Writers and swappers run apart, since they
  are two files in the code.
- `PlanPipeline`: a target has every subset of operations that some function tells
  apart, not all subsets; two Runs suffice for a template to be reused. Budgets lie
  below, at and above the projection. The full page and the bare resource go
  through all tiers, diffs and manual plans. One target is misdirected, so that the
  condition of `RemovesOnlyOwn` is not idle.
- `PlanRunner`: at most two cases, two batches and one retry: a case before and
  after a failing write, a second batch after a failed first one, an attempt
  after a failed one. `Suites` has one plan for each distinction of audit and gate.
- `Discovery`: three files, depth 2, two controls a page, four observed
  requests; settings with a budget smaller than what is there and larger; a document
  and a program longer than what is read of them, and a file in a directory too deep.
  `LinkedSite` has two ways to one page, the longer one queued last; `RelativeSite`
  a relative link behind one that leads elsewhere. `Servers` is one program in all
  orders of its mounts.

### Fairness

- `RunLifecycle`, `OperationRegistry`: `Proceed` and `Tick` are weakly fair:
  synchronous code runs to its end and the loop runs what is queued. `Settle(r)`
  and `Woken(o)` are weakly fair: `open` of the shipped providers, discovery,
  planner and runner are bounded by timeouts, a sleep ends. In
  `OperationRegistry`, `Proceed`, `Start` and `Works(i)` are, for the same reasons
  and because a server that died is started again by its host. Nothing is assumed
  of requests, crashes, restarts or the age of a lease.
- `Takeover`: processes are started, time passes, handlers proceed, and a client
  asks a server that may go on with the Run again and again. Nothing of deaths.
- `RunStorage`: `Step(p) \/ Expire(p)` is strongly fair for each updater: threads are
  scheduled and time passes, and a contender polls (every 5 ms, 25,000 times), so that
  its steps are enabled again and again, not continuously. That 25,000 attempts are
  as many as it needs is assumed.
- `PlanRunner`: weakly fair as a whole: every await has a deadline or ends with
  the browser.
- `Discovery`: the synchronous code (walk, picking controls, following links,
  dequeuing, closing, correlating, grouping), the two timers, and after the live timer
  the end of a click. Until then the browser may keep the explorer waiting for ever.

### Further disagreements

Claims of the documents and tests that TLC refutes as well, with the claim in the
module named and the smallest constants that show it. They have no run of their own.

| Claim | Shown with | What happens |
|---|---|---|
| `PhasesInOrder` in MCRunLifecycle (packages/schemas/src/state-machine.mjs:49) | one Run, one cancel, `Failures = {"PLAN_DEFECT"}` | `cancel_run` finalizes a Run while the planner works; the planner then reports a plan defect, and `_finalizePlanDefect` (worker 422), unlike the helper for infrastructure failures, does not stop at a GATED Run: the phase goes back to RUNTIME_FINALIZED |
| `ResultsAreServed` with crashes (specification 871, docs/operations-guide.md:5) | one Run, `Faults = {"crash"}`, fair | the process dies while `target.close()` is awaited, after GATED was saved with status COMPLETED (worker 245): nobody resumes it, the gate stays null |
| `RetriesServed` with crashes (specification 648) | one audit key, `Faults = {"crash"}` | the record is durable before its Run (control-plane 149, 157); a crash in between leaves a key that can only be answered with INTERNAL_CONTRACT_VIOLATION |
| `FatalYieldsNoGate` (docs/adr/ADR-009.md:10) | one Run, one cancel, `Failures = {"STATE_CORRUPTED"}` | a fatal error surfaces after the cancellation finalized the Run: FAILED, with the gate `incomplete` (worker 269) |
| `OneWriter` (specification 252, single writer) | one Run, one resume, `Faults = {"crash"}` | after the takeover by a `resume_run` the re-queued `run_audit` finds the lease its worker's own and executes beside it (worker 240) |
| `LeaseExcludes` (specification 252, single writer) | `steady` | also without any fault: the save of GATED releases the lease (onPhase, worker 245) while its handler still awaits `target.close()` and status and result are not saved; the second observation of a `resume_run` takes the Run over, and both handlers finish it. This is why `AnswersAgree` and `OperationsEnd` leave out Runs that were taken over, and why `ContractSpec` fails with two resumes |
| `ResumeReported` (tools/verify-m1.mjs:125) | one Run, one resume, `Faults = {"crash"}`, fair | the loop saves only the record of the `run_audit`; the `resume_run` stays ACCEPTED (worker 348) |
| `HandleSurvives` (docs/operations-guide.md:5) | one preview key, `Faults = {"crash"}`, fair | only records with a Run are queued again after a crash (worker 101) |
| `AcceptedEnds` (docs/adr/ADR-003.md:10) | one preview key, `Faults = {"preview"}`, fair | a preview that rejects is an unhandled rejection; nobody writes FAILED (worker 278) |
| `RecordOutlivesRun` (specification 650) | one audit key, `Faults = {"expire"}` | the sweep frees the key of an operation whose Run is still known (registry 264) |
| `BoundedRegistry` (docs/adr/ADR-014.md:13) | three preview keys, `Faults = {"expire"}` | above the high watermark one expired record keeps creation open, and creation does not sweep (registry 180) |
| `SameHandle` (specification 648) | one preview key, `Faults = {"crash", "expire", "unlink"}` | `_reindex` ignores tombstones: a record whose deletion failed is back after a restart, beside the one created since (registry 144) |
| `ExpiredIsSaid` (docs/operations-guide.md:5) | one preview key, `Faults = {"expire"}` | no tool reads tombstones; a swept operation is unknown (control-plane 182) |
| `OneExecutor` (specification 252, 2841) | `takeover` with two workers, `Exclusive = FALSE` | an observation writes version v+1; the owner's next save, from its own copy of version v, writes v+1 too; the observer's next swap matches and takes the Run from a timely owner |
| `TimelyOwnerKept` in MCTakeover (docs/adr/ADR-012.md:10, specification 2843) | the same | the same; heartbeats are saved only with a phase, so a long await looks like a death, and two confirmations may come within milliseconds |
| `VersionsGrow` in MCTakeover (specification 2750-2770) | the same | a plain save repeats or lowers the version in the file |
| `RetainsAllAlways` in MCRunStorage (tools/verify-m9-storage.mjs:86) | two writers, no faults | `RetainsAll` without its condition: a contender with an older token claims the directory another one has just made and becomes its owner; the creator does not look again (run-storage 105), both read the empty index, one entry is overwritten |
| `OneHolderAlways` in MCRunStorage (the same) | the same | `OneHolder` without its condition: the two owners themselves |
| `MutatingIsProven` in PlanPipeline (docs/M11-generalized-evidence-and-triage-plan.md:92, 237) | `planning`, `Configs <- AllConfigs` | field and workflow requirements look at the payload only (requirements-v2 184): their cases POST although no operation removes what they create |
| `RemovesOnlyOwnAlways` in MCPlanPipeline (docs/M11-generalized-evidence-and-triage-plan.md:27) | `planning` | `RemovesOnlyOwn` without its exception: for a constraint of a resource that can be updated and not created, `selectEndpointFact` finds no POST and the first fact of the feature is taken (catalog-builder 24, 84): if that is a removal, the case of a read_only requirement sends a DELETE to an id that no step made, also where destructive cases are denied. `Misdirected` in PlanPipeline says for which targets |
| `AsksItsOwn` in PlanPipeline (requirements-v2.ts:102) | the same | the endpoint of a case is chosen by resource and method (catalog-builder 89), so a detail or export requirement may be tested with the request of the list |
| `CutsAreReported` in MCDiscovery (docs/M9.5-milestone-report.md:20) | `discovery` | without a blocker go: what follows the first 100,000 bytes of a file (discovery 300; a longer OpenAPI document does not parse and yields nothing), files below max_depth (283), and pages where the static pass has used up the routes, because the explorer ends with `break` (live-explorer 68) |
| `LinksAreFollowed` in MCDiscovery (no document promises it) | `discovery` | relative links are resolved against the page the browser shows after the last click (live-explorer 113), so behind a click into another directory they are looked for there, and the page they name is not visited |
| `NoPathLeftUnresolved` in MCDiscovery (adapters 335, as the other forms are used) | `discovery` | the options and route forms (adapters 95-111) add endpoints without `hasUnresolvedEndpointParameter`, so that a wrapper's `${path}` stands in a fact |
| `FieldsBindToTheirResource` in MCDiscovery (check m11-fields-bind-only-to-their-resource) | `discovery` | `collectionPath` (adapters 392) cuts the path of the request a schema belongs to, so a field of a nested resource is bound to its parent |

Other observations, made while modelling; the models have these behaviours, no
property speaks of them:

- Queries: between the commit of GATED and the publication `get_run_result`
  answers INTERNAL_CONTRACT_VIOLATION (docs/tool-reference.md:3). For a FAILED
  operation `get_operation_result` answers `not_ready` for ever.
- Takeover: a process that lost a race keeps an outdated copy and cannot take over
  until it is restarted (the second half of `RunRecovered`).
- Storage: after a crash between the two renames the file exists only as
  `.previous`; readers fall back, `compareAndSwapJson` looks at the file alone and
  refuses until another write recovers it. A swap refused while it holds the claim
  may leave an empty lock directory.
- Execution and gate: `max_flaky >= 1` lets a pass hide the failed cleanup of an
  earlier attempt (gate 23); the fixture engine passes with redaction INCOMPLETE;
  coverage of P0 below its threshold is `incomplete` (gate 22), where specification
  2925 says fail; a manual case of the full tier makes every fast Run incomplete.
- Planning: in mode overlay or auto a plan that contains a manual one is validated
  as manual throughout (merge 20-26), so that its generated locators make it
  PLAN_INVALID; ids longer than 90 characters are cut by the planner and not by
  the compiler; when every requirement is blocked the empty plan is PLAN_INVALID;
  a resource whose only DELETE is on its collection is cleaned up by clearing it;
  search, detail and field cases are called read_only although they POST and DELETE.
- Discovery: besides those of `CutsAreReported`, these budgets cut without a blocker:
  the depth of the live queue, controls and interactions per route, network
  observations, and the time if it ends in the last click with nothing left to visit
  (live-explorer 61, 104); a disabled control ends the loop over the controls (live-explorer 93);
  an exception in the live pass discards all it found; links enter the queue twice
  (docs/M11 plan 173) and are dropped when they leave it; what a page polls during
  a click is put to the account of the control; without interactions mutating
  requests are not blocked; a router mounted twice keeps its last prefix; a
  function that mentions its parameter in any HTTP call counts as a wrapper.
- Graph: read-only paths below each other are grouped by the order of their
  hashes; a POST on a prefix swallows the resources below it; the schema facts of
  two methods on one path overwrite each other.

## Proofs

`RunLifecycleProofs` proves for every set of Runs and operations, every failure
and fault, and every value of the bounds:

- `TypeCorrect`: `Spec => []TypeOK`, which includes that `resume_attempts` stays
  within its limit;
- `VerdictIsBacked`: `Spec => []VerdictBacked`;
- `CancellationSticks`: `Spec => []CancelSticks`.

They follow from `Invariant`: `Spec => []Inv`. Neither of the last two is inductive.

- `CancelSticks` fails in the induction step if a handler that already passed its
  check of `cancel_requested` saves a gate afterwards. `SegmentUncancelled` says
  that a segment which moves a Run on belongs to a Run that is not cancelled; it
  is kept because no other handler runs inside a segment.
- `VerdictBacked` needs that the verdict a handler carries (through the close of
  the target, the last phases and the publication) is the one in results.json
  (`CarriedBacked`), and that once a judged gate is saved nothing is at work on
  the Run which could write results.json again (`JudgedIsOver`). The latter needs
  that no operation is queued twice or queued while its handler is at work
  (`QueuedOnce`, where restarts on a running server matter), that jobs fit their
  operation (`JobsFit`), and that what is at work was accepted (`Accepted`).
- `AttemptsLeft` carries the check of the limit from `_prepareResume` to the save
  that counts the attempt.

Each conjunct has its own step lemma (`TypeStep`, `FitStep`, `AcceptedStep`,
`QueuedStep`, `UncancelledStep`, `CancelStep`, `CarriedStep`, `JudgedStep`), split
by the actions of `Next`; `Footprint` says once which Run and which operation an
action may touch. The assumptions are `OpsAssumption` (the three kinds of operation
ids are finite and disjoint) and `ParameterAssumption` (the types of the constants).

`RunOutcomeProofs` goes on from `Invariant`:

- `GateIsFinal`: `Spec => GateDecidedOnce`, through all faults. Its invariant
  `OutcomeInv` says that a Run with a published gate is settled (`DecidedIsSettled`):
  it is terminal and its lease released; its handler, if it still has one, is about
  to end with the same gate or will find the Run cancelled; if its `run_audit` still
  waits in the queue then it was cancelled there and not observed yet; and a
  `cancel_run` at work on it saves nothing. It rests on `CancelRecorded` (who
  finalizes a cancelled Run has recorded the cancellation first), `PublishesGated`
  (what is published was saved GATED) and `TargetsAccepted`. It needs `Confirmations`
  >= 2, which validateLeasePolicy (worker/lease 11) enforces: otherwise the
  `run_audit` that waited would take the cancelled Run over and execute it.
- `OneWriterAtATime`: `Spec => []OneWriter` under `Undisturbed`, no crash and no
  restart; TLC refutes it with either (see above). Writes, targets and the slice may
  fail in every way. `WriterInv` says that a Run
  somebody works on is terminal or has its lease here (`WorkIsHeld`), so that no
  `resume_run` gets past its check, and that therefore one operation works on it
  (`OneAtWork`; a `run_audit` in the queue counts, since it will). `LeaseOfSegment`
  and `BoundExists` carry this through a takeover and through acceptance. What `OneWriter` leaves
  out is the close of the target, where the lease is already released (`LeaseExcludes`).
- `ToolsAgree`: `Spec => []AnswersAgree` under `Reliable`, where in addition the file
  writes of the slice succeed; a write of the operation record that fails after
  run_state.json was saved leaves the two apart until the next save, if any. `AnswerInv` says
  that the two records of a Run agree but while the Run is being saved (`RecordsAgree`,
  not inductive): each save writes the status it finds in run_state.json's half
  (`HalfSaved`), and a handler that walks on finds its Run ACTIVE, unless cancelled
  (`ActiveAtWork`), because nobody else finishes it: a `cancel_run` records the
  cancellation, and a `resume_run` that gives up has found no handler at work
  (`GivesUpIdle`, by the lease). `SegmentShape`, `CreatedThenBound`, `LoopIsCounted` and
  `PhasesKnown` say how segments and Runs come about.
- `ContractKept`: `Spec /\ []Untaken => ContractSpec`, the refinement of `RunContract` as
  long as no Run is taken over, for any numbers of Runs, `resume_run` and `cancel_run`,
  under `Reliable` and `EndsOnce`. Without them TLC refutes it: what a handler throws after
  its Run was cancelled finalizes or fails it a second time, unless it is an infrastructure
  failure; a takeover starts the phases again; a write that fails in the closing phases, and
  a `cancel_run` that is queued again after a crash in the middle of them, send the Run from
  RUNTIME_FINALIZED back to TERMINALIZING (worker 402, 444), which the table does not allow.
  `ContractInv` says where a Run is while its
  handler is away: the await tells the phase (`HandlerFits`), a Run that no segment is
  saving rests in one of six phases (`Rests`), and a cancelled one is GATED or is just being
  finalized (`CancelGates`); hence every save in progress is a transition of the table on a
  Run that is not over (`SavesFit`). `OtherSteps` lists once what the steps that save nothing
  do to the handlers; `ContractStep` maps each save to `Advance`, `Publish` or `Fail`, the
  creation to `Create`, and everything else to a stutter.

`OperationRegistryProofs` proves, for any numbers of keys, parameters, ids and
concurrent calls and any watermarks:

- `HandlesAreKept` and `SweptRecordsStaySwept`, through all faults;
- `RetriesAreServed` (`RetriesServed`), through all faults except `"crash"`, with which
  TLC refutes it (see above); a rejection that ends the process does no harm, since it
  comes between two segments. `AuditsBound` says that the audit that waits for its Run is
  the one `thread` is about to bind;
- `MemoryIsExact` and the refinement `OneAnswerGiven` (`Spec => OneAnswer`), through
  all faults except a failing deletion, which really breaks both (`SameHandle` above).

`Inv` holds through all faults: types; a segment belongs to a process that is up,
and its record carries the request of its call (`ThreadFits`); the index leads to
records of the key it was asked for (`IndexFits`); the memory holds exactly the
records without tombstone, and possibly some with one (`KnownFits`); handles lead
to a record or a tombstone (`HandlesFit`). `HandlesKept` speaks of memory and of an
idle process only, and is not inductive: a sweep between its two writes, a crash
there and a restart need the disk's side. `Exact` adds that a key has one record
(`OneRecord`) and that the index finds it (`AllFound`); the second look-up of
`create` preserves the first because of the second. `RecordsStay` says once that
only `Create` and `Unlink` change which requests are remembered; the refinement
maps these to `Accept` and `Forget`, and every answer to `Answer`. The assumption
is `RegistryAssumption` (`None` is no key and no id, the watermarks are numbers).
The invariants were checked by TLC on the instances of `promise` and `retention`
before they were proved.

`TakeoverProofs` proves, for any number of processes of which any may die anywhere,
and any counts of saves, confirmations and attempts, under the hypothesis
`Exclusive` (a process starts only while no other one executes the Run; without it
TLC refutes all three, see above):

- `ExecutorsExclude`: `Spec => []OneExecutor`;
- `HeartbeatProtects` (`TimelyOwnerKept`) and `VersionsOnlyGrow` (`VersionsGrow`).

A version does not identify a record, since plain saves do not look at the file; but
a contender's copy with the file's version is the file (`CopiesAreVersions`), so a
swap that succeeds read what it replaces. `ExecutorOwns` adds that the others'
versions are lower while somebody executes. What makes it subtle is giving up, which
is not a swap: `ExhaustionIsLast` says that who knows the attempts are used up knows
a later version than who does not, and `GiveUpsAgree` that two that give up write
the same record.

`RunStorageProofs` proves, for any number of writers, swappers and readers, preempted
between any two calls, dying or refused a rename anywhere, `HoldersExclude`
(`OneHolder`), `FileNeverLost` (`NeverLost`), `UpdatesRetained` (`RetainsAll`),
`NothingLeftOver` (`NoLeftovers`) and `ReadersFind` (`ReaderFinds`), each without a
hypothesis. The condition `Undisturbed` is in the properties: the invariant is
`Undisturbed => Inv` (`raced` never becomes false again, so a step has something to keep
only if it is false afterwards). It says per process what it has of its lock at each
step (`StageFits`, `ClaimFits`, `OwnerFits`), also that who is about to make an owner
file meets no unexpired one, which is what a race breaks; that of the owner files
which have not expired there is one (`LockFits`); then what an update may rely on
until it has changed the file (`Uses`), that whatever is left behind is somebody's to
remove (`SomeoneTidies`), that an index and a swap do not meet on one file (`Apart`), and
how often a reader was foiled (`ReadersFoiled`, a count of the updates made).

`PlanRunnerProofs` proves, for every valid plan and everything that can fail,
`InstancesHaveOneResult` (`EveryInstanceOnce`), `FailBlamesFairly` (`BlameIsBacked`),
`PassMeansPassed` (`PassIsEarned`) and `PassMeansClean` (`PassLeavesClean`). `InOrder`
puts the results in the order of the manifest, by division of a position into batch
and case. `Told` relates results and `history`: a result that blames, or passes, is
what the last attempt of its execution really was. It holds only if no two entries
of the manifest have one name. The code does not demand that; but the audit counts
them (`InstanceReconciliation`, `CaseReconciliation`), so a run that is judged pass or
fail has distinct ones, and that is how the theorems need no hypothesis.
`PlansAssumption` states the types of a valid plan, including that the selected cases
are a list: SelectSeq is a recursive definition, of which the provers know nothing.
For the proofs `Verdict` has the results that failed, and those of a case, as sets of
indices, from which the last and the first are taken by their greatest and least.

`PlanPipelineProofs` proves, for all targets, settings, manual plans and budgets, and
any number of Runs over the same two caches:

- `PlansAccountForAll` (`NothingUnaccounted`), `PlanningFailsForCause` (`FailsForCause`)
  and `PlansReadWhatIsSaved` (`SourcesAreSaved`);
- `PlansRemoveOnlyOwn` (`RemovesOnlyOwn`), whose exception, `Misdirected`, are the targets
  of the table above, for which it is false. The proof showed that there are such.

The first half is about what is derived (`DraftsAre`, `DraftsDiffer`): an operation or a
field has a requirement of its own intents, and no two have one id, which is why
the catalog, the selections and the cases can be joined by id. The second is about
what is compiled. `Runs` says of a sequence of steps that each finds what it reads and
made what it removes; sequences that run one after the other run together
(`RunsJoin`), and each of the builders is `Sound` (`BuildSound`, by the six behaviours
of a page, the three of an entity's life, the detail, and five kinds of requests to
an endpoint). `EndpointAims` is where `Misdirected` comes from. The third is the
pipeline. `IInv` says that a template holds a valid and faithful output for the catalog
in its key (`TemplatesKept`), whatever Run wrote it and whatever was damaged since:
this is what the statuses in the key are for, and without it `Check` might fail and
`Compile` might make a case of what this Run skips; hence what is compiled is exactly
the cases of the requirements to be tested whose ids are not cut (`CompiledExpected`),
and the plan is merged of them (`PlanMerged`). The assumption is `ConfigsAssumption`:
the facts are those of the operations of the graph in some order, a field has one
constraint of a kind, a manual plan has no case of origin "generated".

`DiscoveryProofs` proves, for all projects, sites, policies and budgets:

- `RequestsAreAttributed` (`AttributedWhileActive`), from `ActiveFits`: at which
  awaits activeInteraction is set, and to what;
- `WhatIsObservedWasRead` (`ObservedWasRead`), from `FilesKept` (no fact leaves without
  another of its id) and `EntrySeen`, which follows the entry page from the queue over
  its first visit, the new state and the facts into the final ones;
- `GraphKeepsEvidence` (`EvidenceKept`), from `FactsFit`: an id begins with the type, so
  `Put` replaces facts by some of their own type, and a correlation names a control
  and an endpoint that are there; then every node and edge over any such facts;
- `OperationsStayTogether` (`ResourcesAreWhole`), from `GraphFits` (a collection that no
  parameter and no POST names contains no path that a named one contains, whatever
  the order of grouping) and `PathsFit` (paths are finite, so among the prefixes of one
  there is a longest);
- `DiscoveryTypeCorrect` (`TypeOK`): an id names one fact, and no budget is passed.
  `IdsFit` is why ids are unique: a fact says no more than its id and the setting
  determine, except `ui_mutation`, which also says where the interaction led. Its id is
  that of the interaction and of the new state, so none may be recorded twice: a page is left if its
  state is known (`PageFits`), and on a new one `control` only goes up (`Tried`).
  `RoutesFit` counts what the files and the browser open together (a file opens at most
  what is left, a page only if `NoRouteLeft` does not hold), `DepthsFit` is about every
  item that is queued and the one at hand, `CountsFit` about observations, interactions,
  blockers and open resources.

`FilesAssumption` and `PagesAssumption` say what the provers cannot compute or a file
cannot contain: that a file yields finitely many endpoints whose paths are lists of
segments (the text of an expression and the prefixes of the mounts are recursive), that
an OpenAPI document has an operation once (a key of an object; two templates that differ
in the names of their parameters only are one path), that the scripts of a file are
named after it and their positions, and that the browser shows a page at every address
the site names. TLC evaluates both for every setting of the run.

The parts of all these invariants were checked by TLC on the instances of the runs
before they were proved.

Only model-checked:

- liveness (`OperationsEnd`, `ResultsAreServed`, `AcceptedEnds`, `EveryRunEnds`,
  `EveryCallReturns`, `DiscoveryEnds`, `RunRecovered`): out of TLAPS's reach;
- `RoutesAsServed` of `Discovery`: an induction over the passes through the mounts of a
  program and over the parts of its expressions, and about the programs of `Servers`
  only, whose mounts form no circle and whose paths can be read off the text;
- `LinkedPagesAreSeen` of `Discovery`: an induction along the ways from link to link.

## Plan

Done: the modules above and their proofs. What has no theorem is listed under "Only
model-checked", with the reason.

## Not modelled

- Several workspaces over the installation's budgets, `cleanup_run`, what only
  tests use (`simulateWorkerCrash`, `attemptTakeover`), authorization.
- The event log of run-storage: its sequence numbers are counted from the file
  before the append (344), so two processes give the same one; no code of the packages
  compares them.
- security: checks of paths, origins and secrets over strings; the models take
  their answers as inputs. reporting, the wording of reports and payload values.
- codex-plugin-runtime: the trust file is edited by one user's command line, one
  read and one write with no lock (two at the same time lose one of the changes);
  the host forwards calls.
- maintenance-cli: a command line over the sweep, which `OperationRegistry` has.
- execution-fixture, apps, tools: targets, harnesses and checks of the repository.
- The rollout comparison of application-graph, confidences, hashes, YAML loading and the
  converter of old plans: data with no state behind it.
