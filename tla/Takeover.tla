-------------------------------- MODULE Takeover --------------------------------
(***************************************************************************)
(* The lease of one Run when several server processes use one data root,   *)
(* one after the other or at the same time. Every process has a copy of    *)
(* run_state.json in its memory, loaded when it started. The one that      *)
(* executes the Run saves its copy without looking at the file             *)
(* (_persistRun). Another one that is asked to go on with the Run, by      *)
(* resume_run or because it found the Run unfinished when it started,      *)
(* compares the version of its copy with the file's before it writes       *)
(* (compareAndSwapJson, which RunStorage models: one step here): an        *)
(* observation of the lease first, and once the heartbeat has been found   *)
(* too old often enough, the takeover. A process cannot tell whether the   *)
(* worker of another process is alive, so the probe of observeLease never  *)
(* answers true here: what is left is the clock. Time counts as far as it  *)
(* is compared: heartbeats are numbered, and those up to "aged" are at     *)
(* least lease_ttl_ms + takeover_grace_ms + clock_skew_tolerance_ms old.   *)
(***************************************************************************)
EXTENDS Naturals, FiniteSets

CONSTANTS
  Workers,        \* worker ids, one for each process
  First,          \* the worker that accepted the Run
  Mortal,         \* the workers whose process may die
  Exclusive,      \* a process starts only while no other executes the Run
  Saves,          \* phases an execution saves before the last one
  Confirmations,  \* takeover_confirmation_count
  MaxAttempts,    \* 3 in _prepareResume
  MaxVersion      \* bound of the observations that find nothing

\* validateLeasePolicy; the times it compares are one window here.
ValidPolicy == Confirmations >= 2

ASSUME TakeoverAssumption ==
  /\ First \in Workers /\ Mortal \subseteq Workers /\ Exclusive \in BOOLEAN
  /\ Saves \in Nat /\ MaxAttempts \in Nat
  /\ Confirmations \in Nat /\ ValidPolicy
  /\ MaxVersion \in Nat

VARIABLES
  beats,   \* heartbeats so far
  aged,    \* those that are older than the window of the policy
  disk,    \* run_state.json
  memory,  \* the copy of each process
  job      \* what the process does with the Run

vars == <<beats, aged, disk, memory, job>>

Nobody == "nobody"  \* owner of a lease that was released

\* newLease, or a save of the owner: a heartbeat.
NewLease(w, version) ==
  [owner |-> w, beat |-> beats + 1, version |-> version, stale |-> 0]

Beat == beats' = beats + 1 /\ UNCHANGED aged
NoBeat == UNCHANGED <<beats, aged>>

\* "new": not started yet. "idle": has no handler for the Run.
Alive(w)     == job[w].pc \notin {"new", "dead"}
Executing(w) == job[w].pc \in {"revive", "run"}
Executors    == {w \in Workers : Executing(w)}

Become(w, pc) == job' = [job EXCEPT ![w] = [pc |-> pc, saves |-> Saves]]

Init ==
  /\ beats = 1 /\ aged = 0
  /\ disk = [lease |-> [owner |-> First, beat |-> 1, version |-> 1, stale |-> 0], attempts |-> 0, done |-> FALSE]
  /\ memory = [w \in Workers |-> disk]
  /\ job = [w \in Workers |-> [pc |-> IF w = First THEN "run" ELSE "new", saves |-> Saves]]

--------------------------------------------------------------------------------
\* _resyncFromRegistry of a new process.
Load(w) ==
  /\ job[w].pc = "new"
  /\ Exclusive => Executors = {}
  /\ memory' = [memory EXCEPT ![w] = disk]
  /\ Become(w, "idle")
  /\ NoBeat /\ UNCHANGED disk

\* _persistRun: an owner's save is a heartbeat; the file is not compared.
Saved(record, w) ==
  IF record.lease.owner = w
    THEN [record EXCEPT !.lease = NewLease(w, record.lease.version + 1)]
    ELSE record

Persist(w, record) ==
  /\ disk' = record
  /\ memory' = [memory EXCEPT ![w] = record]

SavePhase(w) ==
  /\ job[w].pc = "run" /\ job[w].saves > 0
  /\ Persist(w, Saved(memory[w], w))
  /\ job' = [job EXCEPT ![w].saves = @ - 1]
  /\ Beat

\* releaseLease
Released(record) ==
  [record EXCEPT !.lease.owner = Nobody, !.lease.stale = 0, !.lease.version = @ + 1]

\* The last save of a Run, by the handler that executed it.
Finish(w) ==
  /\ job[w].pc = "run" /\ job[w].saves = 0
  /\ Persist(w, [Released(memory[w]) EXCEPT !.done = TRUE])
  /\ Become(w, "over")
  /\ NoBeat

--------------------------------------------------------------------------------
\* compareAndSwapJson: the lease is replaced in what the file holds now, if its
\* version is the one this process knows.
Current(w) == disk.lease.version = memory[w].lease.version

\* Mutant: the swap does not compare.
SwapBlind(w, lease) == Persist(w, [disk EXCEPT !.lease = lease])

Swap(w, lease) ==
  /\ Current(w)
  /\ Persist(w, [disk EXCEPT !.lease = lease])

\* observeLease, with the process's own copy of the lease.
TooOld(w) == memory[w].lease.beat <= aged

Observed(w) ==
  [memory[w].lease EXCEPT !.stale = IF TooOld(w) THEN @ + 1 ELSE 0, !.version = @ + 1]

\* isLeaseStale, with the observation adopted; takeoverLease.
Stale(w) == TooOld(w) /\ Observed(w).stale >= Confirmations
TakenOver(w) == NewLease(w, memory[w].lease.version + 1)

\* A process may go on with a Run it knows to be unfinished, and not to be its own.
\* (MaxVersion bounds the observations that find a heartbeat inside its window.)
MayResume(w) ==
  /\ job[w].pc = "idle"
  /\ ~memory[w].done /\ memory[w].lease.owner # w
  /\ TooOld(w) \/ disk.lease.version < MaxVersion

\* _prepareResume: the observation. A swap that fails is the end of it.
Observe(w) ==
  /\ MayResume(w) /\ memory[w].attempts < MaxAttempts
  /\ Swap(w, Observed(w))
  /\ Become(w, IF Stale(w) THEN "take" ELSE "idle")
  /\ NoBeat

\* Mutant: when the attempts are used up, _prepareResume just answers false.
GiveUpSilently(w) ==
  /\ MayResume(w) /\ memory[w].attempts >= MaxAttempts
  /\ Become(w, "over")
  /\ NoBeat /\ UNCHANGED <<disk, memory>>

\* The attempts are used up: the Run is terminalized with the copy in memory.
GiveUp(w) ==
  /\ MayResume(w) /\ memory[w].attempts >= MaxAttempts
  /\ Persist(w, [Released(memory[w]) EXCEPT !.done = TRUE])
  /\ Become(w, "over")
  /\ NoBeat

\* _commitTakeover. Between the two swaps another process may
\* have written.
Take(w) ==
  /\ job[w].pc = "take"
  /\ \/ /\ Swap(w, TakenOver(w))
        /\ Become(w, "revive")
        /\ Beat
     \/ /\ ~Current(w)
        /\ Become(w, "idle")
        /\ NoBeat /\ UNCHANGED <<disk, memory>>

\* The rest of _prepareResume: the attempt is counted, the Run executes again.
Revive(w) ==
  /\ job[w].pc = "revive"
  /\ Persist(w, Saved([memory[w] EXCEPT !.attempts = @ + 1], w))
  /\ Become(w, "run")
  /\ Beat

--------------------------------------------------------------------------------
Die(w) ==
  /\ w \in Mortal /\ Alive(w)
  /\ Become(w, "dead")
  /\ NoBeat /\ UNCHANGED <<disk, memory>>

\* The window of the oldest heartbeat that was inside it is over.
Age ==
  /\ aged < beats
  /\ aged' = aged + 1
  /\ UNCHANGED <<beats, disk, memory, job>>

Resume(w) == Observe(w) \/ GiveUp(w) \/ Take(w) \/ Revive(w)
Execute(w) == SavePhase(w) \/ Finish(w)

Next ==
  \/ Age
  \/ \E w \in Workers : Load(w) \/ Execute(w) \/ Resume(w) \/ Die(w)

Spec == Init /\ [][Next]_vars

\* Processes are started, time passes, handlers proceed, and a client asks a server
\* that may go on with the Run to do so, again and again.
FairSpec ==
  /\ Spec /\ WF_vars(Age)
  /\ \A w \in Workers : WF_vars(Load(w)) /\ WF_vars(Execute(w)) /\ WF_vars(Resume(w))

--------------------------------------------------------------------------------
\* However many processes find the Run of a dead one and go on with it at once,
\* between each other's observations and takeovers, one of them executes it; and
\* one that lost the race does not come back later, when the file's version has
\* moved on and the winner is slow, or dead in its turn.
OneExecutor == Cardinality(Executors) <= 1

\* A Run is not abandoned: whoever dies, and whichever of the contenders' swaps
\* fail, it is executed to its end or terminalized, unless every process that is
\* left has an outdated copy. (Nothing refreshes the copy of a process that lost
\* a race: it cannot take over from a winner that dies.)
RunRecovered == <>[](disk.done \/ \A w \in Workers : Alive(w) => ~Current(w))
================================================================================
