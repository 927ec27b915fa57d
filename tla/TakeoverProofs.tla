----------------------------- MODULE TakeoverProofs -----------------------------
(***************************************************************************)
(* Theorems about Takeover, for any number of processes of which any may   *)
(* die anywhere, and any counts of saves, confirmations and attempts, as   *)
(* long as a process starts only while no other one executes the Run       *)
(* (Exclusive). Without that hypothesis TLC refutes all of them.           *)
(***************************************************************************)
EXTENDS MCTakeover, FiniteSetTheorems, TLAPS

--------------------------------------------------------------------------------
(***************************************************************************)
(* The inductive invariant, part by part.                                  *)
(***************************************************************************)
Lease  == [owner : Workers \cup {Nobody}, beat : Nat, version : Nat, stale : Nat]
Record == [lease : Lease, attempts : Nat, done : BOOLEAN]
Job    == [pc : {"new", "idle", "take", "revive", "run", "over", "dead"}, saves : Nat]

TypeOK ==
  /\ beats \in Nat /\ aged \in Nat
  /\ disk \in Record
  /\ memory \in [Workers -> Record]
  /\ job \in [Workers -> Job]

\* The processes that know the Run and may go on with it.
Contends(w)  == job[w].pc \in {"idle", "take"}
Exhausted(w) == memory[w].attempts >= MaxAttempts
Version(w)   == memory[w].lease.version

\* The copy of a process that has attempts left is older than the file, or it is
\* the file: a swap that finds the version it expects finds the record it expects.
CopiesAreVersions ==
  \A w \in Workers : Contends(w) /\ ~Exhausted(w) =>
    /\ Version(w) <= disk.lease.version
    /\ Current(w) => memory[w] = disk

\* Who knows that the attempts are used up knows a later version than who does
\* not, and the file says so: it stays so if the former overwrites the file.
ExhaustionIsLast ==
  /\ \A v, w \in Workers :
       Contends(v) /\ Contends(w) /\ Exhausted(v) /\ ~Exhausted(w) => Version(w) <= Version(v)
  /\ \A w \in Workers : Contends(w) /\ Exhausted(w) => disk.attempts >= MaxAttempts

\* A takeover is only begun with an attempt left, from a heartbeat that is too old.
TakesInTime ==
  \A w \in Workers : job[w].pc = "take" => ~Exhausted(w) /\ TooOld(w)

\* While a process executes the Run it owns the file: the others have older
\* versions, so that no swap of theirs succeeds, and attempts left, so that none
\* gives the Run up.
ExecutorOwns ==
  \A x \in Workers : Executing(x) =>
    /\ memory[x] = disk /\ disk.lease.owner = x
    /\ \A w \in Workers \ {x} :
         /\ ~Executing(w)
         /\ Contends(w) => ~Exhausted(w) /\ Version(w) < disk.lease.version

\* Whoever gives the Run up writes the same record.
GivenUp(record) == [Released(record) EXCEPT !.done = TRUE]

GiveUpsAgree ==
  \A w \in Workers : Contends(w) /\ Exhausted(w) /\ ~memory[w].done =>
    disk = memory[w] \/ disk = GivenUp(memory[w])

Inv ==
  /\ TypeOK
  /\ CopiesAreVersions
  /\ ExhaustionIsLast
  /\ TakesInTime
  /\ ExecutorOwns
  /\ GiveUpsAgree

--------------------------------------------------------------------------------
(***************************************************************************)
(* What an action does, as far as the proofs look at it.                   *)
(***************************************************************************)

\* Nothing but the job of w changes, or the clock.
LEMMA BecomeType ==
  ASSUME TypeOK, NEW w \in Workers, NEW pc \in {"idle", "take", "revive", "run", "over", "dead"},
         Become(w, pc)
  PROVE  /\ job' \in [Workers -> Job]
         /\ job'[w].pc = pc
         /\ \A v \in Workers \ {w} : job'[v] = job[v]
  BY TakeoverAssumption DEF TypeOK, Job, Become

LEMMA PersistType ==
  ASSUME TypeOK, NEW w \in Workers, NEW record \in Record, Persist(w, record)
  PROVE  /\ disk' = record /\ memory'[w] = record
         /\ disk' \in Record /\ memory' \in [Workers -> Record]
         /\ \A v \in Workers \ {w} : memory'[v] = memory[v]
  BY DEF TypeOK, Persist

\* The records that are written.
LEMMA SavedType ==
  ASSUME TypeOK, NEW w \in Workers, NEW record \in Record
  PROVE  /\ Saved(record, w) \in Record
         /\ Saved(record, w).attempts = record.attempts
         /\ Saved(record, w).done = record.done
         /\ record.lease.owner = w =>
              /\ Saved(record, w).lease.owner = w
              /\ Saved(record, w).lease.version = record.lease.version + 1
  BY DEF TypeOK, Record, Lease, Saved, NewLease

LEMMA ReleasedType ==
  ASSUME NEW record \in Record
  PROVE  /\ GivenUp(record) \in Record
         /\ GivenUp(record).done = TRUE
         /\ GivenUp(record).attempts = record.attempts
         /\ GivenUp(record).lease.owner = Nobody
         /\ GivenUp(record).lease.version = record.lease.version + 1
  <1>. DEFINE A == [record EXCEPT !.lease.owner = Nobody]
              B == [A EXCEPT !.lease.stale = 0]
              C == [B EXCEPT !.lease.version = record.lease.version + 1]
  <1>1. A \in Record /\ A.lease.owner = Nobody /\ A.attempts = record.attempts
    BY DEF Record, Lease
  <1>2. B \in Record /\ B.lease.owner = Nobody /\ B.attempts = record.attempts
    <2>. HIDE DEF A
    <2>. QED BY <1>1 DEF Record, Lease
  <1>3. /\ C \in Record /\ C.lease.owner = Nobody /\ C.attempts = record.attempts
        /\ C.lease.version = record.lease.version + 1
    <2>. HIDE DEF B
    <2>. QED BY <1>2 DEF Record, Lease
  <1>4. GivenUp(record) = [C EXCEPT !.done = TRUE]
    BY Zenon DEF GivenUp, Released
  <1>. HIDE DEF C
  <1>. QED BY <1>3, <1>4 DEF Record

LEMMA SwapType ==
  ASSUME TypeOK, NEW w \in Workers, NEW lease \in Lease, Swap(w, lease)
  PROVE  /\ Current(w)
         /\ disk' = [disk EXCEPT !.lease = lease] /\ memory'[w] = disk'
         /\ disk'.lease = lease /\ disk'.attempts = disk.attempts /\ disk'.done = disk.done
         /\ disk' \in Record /\ memory' \in [Workers -> Record]
         /\ \A v \in Workers \ {w} : memory'[v] = memory[v]
  BY DEF TypeOK, Swap, Persist, Record

LEMMA LeaseTypes ==
  ASSUME TypeOK, NEW w \in Workers
  PROVE  /\ Observed(w) \in Lease /\ Observed(w).version = Version(w) + 1
         /\ Observed(w).owner = memory[w].lease.owner
         /\ Observed(w).beat = memory[w].lease.beat
         /\ TakenOver(w) \in Lease /\ TakenOver(w).version = Version(w) + 1
         /\ TakenOver(w).owner = w
  <1>. DEFINE L == memory[w].lease
  <1>1. L \in Lease /\ L = memory[w].lease /\ Version(w) = L.version /\ beats \in Nat
    BY DEF TypeOK, Record, Version
  <1>2. TakenOver(w) = [owner |-> w, beat |-> beats + 1, version |-> L.version + 1, stale |-> 0]
    BY DEF TakenOver, NewLease
  <1>3. PICK n \in Nat : Observed(w) = [L EXCEPT !.stale = n, !.version = L.version + 1]
    <2>. DEFINE n == IF TooOld(w) THEN L.stale + 1 ELSE 0
    <2>1. n \in Nat
      BY <1>1 DEF Lease
    <2>2. Observed(w) = [L EXCEPT !.stale = n, !.version = L.version + 1]
      BY Zenon DEF Observed
    <2>. QED BY <2>1, <2>2
  <1>. HIDE DEF L
  <1>4. Observed(w) \in Lease
    <2>. DEFINE D == [L EXCEPT !.stale = n]
    <2>1. D \in Lease
      BY <1>1 DEF Lease
    <2>. HIDE DEF D
    <2>2. [D EXCEPT !.version = L.version + 1] \in Lease
      BY <1>1, <2>1 DEF Lease
    <2>. QED BY <1>3, <2>2 DEF D
  <1>5. /\ Observed(w).version = L.version + 1
        /\ Observed(w).owner = L.owner /\ Observed(w).beat = L.beat
    BY <1>1, <1>3 DEF Lease
  <1>. QED BY <1>1, <1>2, <1>4, <1>5 DEF Lease

--------------------------------------------------------------------------------
(***************************************************************************)
(* Every action preserves the invariant.                                   *)
(***************************************************************************)
\* A process that starts has the file, and no other one executes the Run.
LEMMA LoadStep ==
  ASSUME Inv, Exclusive, NEW w \in Workers, Load(w)
  PROVE  Inv'
  <1>1. /\ \A v \in Workers : ~Executing(v)
        /\ disk' = disk /\ beats' = beats /\ aged' = aged
        /\ memory' \in [Workers -> Record] /\ memory'[w] = disk
        /\ job' \in [Workers -> Job] /\ job'[w].pc = "idle"
        /\ \A v \in Workers \ {w} : memory'[v] = memory[v] /\ job'[v] = job[v]
    BY BecomeType DEF Inv, TypeOK, Load, NoBeat, Executors
  <1>2. TypeOK'
    BY <1>1 DEF Inv, TypeOK
  <1>3. CopiesAreVersions'
    BY <1>1 DEF Inv, CopiesAreVersions, Contends, Exhausted, Version, Current, TypeOK, Record, Lease
  <1>4. ExhaustionIsLast'
    BY <1>1, TakeoverAssumption DEF Inv, CopiesAreVersions, ExhaustionIsLast, Contends, Exhausted, Version, TypeOK, Record, Lease
  <1>5. TakesInTime'
    BY <1>1 DEF Inv, TakesInTime, Exhausted, TooOld
  <1>6. ExecutorOwns'
    BY <1>1 DEF ExecutorOwns, Executing
  <1>7. GiveUpsAgree'
    BY <1>1 DEF Inv, GiveUpsAgree, Contends, Exhausted
  <1>. QED BY <1>2, <1>3, <1>4, <1>5, <1>6, <1>7 DEF Inv

\* The process that executes the Run saves its copy, as its owner or for good: only
\* the version matters to the others.
LEMMA ExecutorStep ==
  ASSUME Inv, NEW w \in Workers, Executing(w),
         NEW record \in Record, Persist(w, record),
         record.attempts >= disk.attempts, record.lease.version = disk.lease.version + 1,
         beats' \in Nat, aged' = aged,
         job' \in [Workers -> Job], \A v \in Workers \ {w} : job'[v] = job[v],
         \/ job'[w].pc = "run" /\ record.lease.owner = w
         \/ job'[w].pc = "over"
  PROVE  Inv'
  <1>1. /\ disk' = record /\ memory'[w] = record
        /\ memory' \in [Workers -> Record] /\ disk' \in Record
        /\ \A v \in Workers \ {w} : memory'[v] = memory[v]
    BY PersistType DEF Inv
  <1>2. \A v \in Workers \ {w} :
          ~Executing(v) /\ (Contends(v) => ~Exhausted(v) /\ Version(v) < disk.lease.version)
    BY DEF Inv, ExecutorOwns
  <1>3. \A v \in Workers : Contends(v)' => v # w /\ Contends(v)
    BY <1>1 DEF Contends
  <1>4. \A v \in Workers \ {w} :
          /\ Exhausted(v)' = Exhausted(v) /\ Version(v)' = Version(v)
          /\ Version(v) \in Nat /\ disk.lease.version \in Nat
    BY <1>1 DEF Exhausted, Version, Inv, TypeOK, Record, Lease
  <1>5. TypeOK'
    BY <1>1 DEF Inv, TypeOK
  <1>6. CopiesAreVersions'
    BY <1>1, <1>2, <1>3, <1>4 DEF CopiesAreVersions, Current, Version
  <1>7. ExhaustionIsLast' /\ GiveUpsAgree'
    BY <1>2, <1>3, <1>4 DEF ExhaustionIsLast, GiveUpsAgree
  <1>8. TakesInTime'
    BY <1>1, <1>4 DEF Inv, TakesInTime, TooOld, Exhausted
  <1>9. ExecutorOwns'
    BY <1>1, <1>2, <1>3, <1>4 DEF ExecutorOwns, Executing
  <1>. QED BY <1>5, <1>6, <1>7, <1>8, <1>9 DEF Inv

\* The copy of the executing process, and what it saves.
LEMMA ExecuteStep ==
  ASSUME Inv, NEW w \in Workers, Execute(w) \/ Revive(w)
  PROVE  Inv'
  <1>1. /\ Executing(w) /\ memory[w] = disk /\ disk.lease.owner = w
        /\ disk \in Record /\ TypeOK /\ beats \in Nat
    BY DEF Inv, TypeOK, ExecutorOwns, Executing, Execute, Revive, SavePhase, Finish
  <1>2. CASE SavePhase(w)
    <2>1. /\ job' \in [Workers -> Job] /\ job'[w].pc = "run"
          /\ \A v \in Workers \ {w} : job'[v] = job[v]
      BY <1>1, <1>2 DEF SavePhase, TypeOK, Job
    <2>2. Persist(w, Saved(disk, w)) /\ beats' = beats + 1 /\ aged' = aged
      BY <1>1, <1>2 DEF SavePhase, Beat
    <2>3. /\ Saved(disk, w) \in Record /\ Saved(disk, w).attempts >= disk.attempts
          /\ Saved(disk, w).lease.owner = w
          /\ Saved(disk, w).lease.version = disk.lease.version + 1
      BY <1>1, SavedType DEF Record
    <2>. QED BY <1>1, <2>1, <2>2, <2>3, ExecutorStep
  <1>3. CASE Finish(w)
    <2>1. /\ job' \in [Workers -> Job] /\ job'[w].pc = "over"
          /\ \A v \in Workers \ {w} : job'[v] = job[v]
      BY <1>1, <1>3, BecomeType DEF Finish
    <2>2. Persist(w, GivenUp(disk)) /\ beats' = beats /\ aged' = aged
      BY <1>1, <1>3 DEF Finish, NoBeat, GivenUp
    <2>3. /\ GivenUp(disk) \in Record /\ GivenUp(disk).attempts = disk.attempts
          /\ GivenUp(disk).lease.version = disk.lease.version + 1
      BY <1>1, ReleasedType
    <2>4. GivenUp(disk).attempts >= disk.attempts
      BY <1>1, <2>3 DEF Record
    <2>. QED BY <1>1, <2>1, <2>2, <2>3, <2>4, ExecutorStep
  <1>4. CASE Revive(w)
    <2>. DEFINE counted == [disk EXCEPT !.attempts = @ + 1]
    <2>1. /\ job' \in [Workers -> Job] /\ job'[w].pc = "run"
          /\ \A v \in Workers \ {w} : job'[v] = job[v]
      BY <1>1, <1>4, BecomeType DEF Revive
    <2>2. Persist(w, Saved(counted, w)) /\ beats' = beats + 1 /\ aged' = aged
      BY <1>1, <1>4 DEF Revive, Beat
    <2>3. /\ counted \in Record /\ counted.lease = disk.lease
          /\ counted.attempts >= disk.attempts
      BY <1>1 DEF Record
    <2>. HIDE DEF counted
    <2>. QED BY <1>1, <2>1, <2>2, <2>3, SavedType, ExecutorStep
  <1>. QED BY <1>2, <1>3, <1>4 DEF Execute

\* A swap that succeeds replaces the lease in the record the process knows. There
\* is then no executor, and nobody has exhausted attempts.
LEMMA SwapFacts ==
  ASSUME Inv, NEW w \in Workers, Contends(w), ~Exhausted(w), Current(w)
  PROVE  /\ memory[w] = disk
         /\ \A v \in Workers : ~Executing(v)
         /\ \A v \in Workers : Contends(v) => ~Exhausted(v)
         /\ \A v \in Workers : Contends(v) => Version(v) <= disk.lease.version
  <1>1. memory[w] = disk
    BY DEF Inv, CopiesAreVersions
  <1>2. \A v \in Workers : ~Executing(v)
    <2>. SUFFICES ASSUME NEW x \in Workers, Executing(x) PROVE FALSE
      OBVIOUS
    <2>1. x # w
      BY DEF Contends, Executing
    <2>2. Version(w) < disk.lease.version
      BY <2>1 DEF Inv, ExecutorOwns
    <2>. QED BY <2>2 DEF Current, Version, Inv, TypeOK, Record, Lease
  <1>3. \A v \in Workers : Contends(v) => ~Exhausted(v)
    BY <1>1, TakeoverAssumption DEF Inv, ExhaustionIsLast, Exhausted, TypeOK, Record
  <1>. QED BY <1>1, <1>2, <1>3 DEF Inv, CopiesAreVersions

LEMMA SwapStep ==
  ASSUME Inv, NEW w \in Workers, Contends(w), ~Exhausted(w),
         NEW lease \in Lease, Swap(w, lease), lease.version = Version(w) + 1,
         beats' \in Nat, aged' = aged,
         job' \in [Workers -> Job], \A v \in Workers \ {w} : job'[v] = job[v],
         \/ job'[w].pc = "idle"
         \/ job'[w].pc = "take" /\ lease.beat <= aged
         \/ job'[w].pc = "revive" /\ lease.owner = w
  PROVE  Inv'
  <1>1. /\ disk' \in Record /\ memory' \in [Workers -> Record]
        /\ disk'.lease = lease /\ disk'.attempts = disk.attempts /\ memory'[w] = disk'
        /\ \A v \in Workers \ {w} : memory'[v] = memory[v]
    BY SwapType DEF Inv
  <1>2. /\ memory[w] = disk
        /\ \A v \in Workers : ~Executing(v)
        /\ \A v \in Workers : Contends(v) => ~Exhausted(v)
        /\ \A v \in Workers : Contends(v) => Version(v) <= disk.lease.version
    BY SwapFacts DEF Swap
  <1>3. \A v \in Workers : Contends(v)' => Contends(v) \/ v = w
    BY DEF Contends
  <1>4. /\ disk.lease.version \in Nat /\ disk'.lease.version = disk.lease.version + 1
        /\ \A v \in Workers : Version(v) \in Nat
    BY <1>1, <1>2 DEF Inv, TypeOK, Record, Lease, Version
  <1>5. \A v \in Workers \ {w} : Contends(v)' => Version(v)' < disk'.lease.version
    BY <1>1, <1>2, <1>3, <1>4 DEF Version
  <1>6. \A v \in Workers : Contends(v)' => ~Exhausted(v)'
    BY <1>1, <1>2, <1>3 DEF Exhausted
  <1>7. TypeOK'
    BY <1>1 DEF Inv, TypeOK
  <1>8. CopiesAreVersions'
    BY <1>1, <1>4, <1>5 DEF CopiesAreVersions, Current, Version
  <1>9. ExhaustionIsLast' /\ GiveUpsAgree'
    BY <1>6 DEF ExhaustionIsLast, GiveUpsAgree
  <1>10. TakesInTime'
    BY <1>1, <1>6 DEF Inv, TakesInTime, TooOld, Contends
  <1>11. ExecutorOwns'
    BY <1>1, <1>2, <1>5, <1>6 DEF ExecutorOwns, Executing
  <1>. QED BY <1>7, <1>8, <1>9, <1>10, <1>11 DEF Inv

LEMMA ObserveStep ==
  ASSUME Inv, NEW w \in Workers, Observe(w)
  PROVE  Inv'
  <1>1. /\ Contends(w) /\ ~Exhausted(w) /\ Swap(w, Observed(w))
        /\ beats' = beats /\ aged' = aged /\ TypeOK
    BY TakeoverAssumption
       DEF Observe, MayResume, Contends, Exhausted, NoBeat, Inv, TypeOK, Record
  <1>2. /\ job' \in [Workers -> Job] /\ \A v \in Workers \ {w} : job'[v] = job[v]
        /\ job'[w].pc = IF Stale(w) THEN "take" ELSE "idle"
    BY <1>1, BecomeType DEF Observe
  <1>3. /\ Observed(w) \in Lease /\ Observed(w).version = Version(w) + 1
        /\ Stale(w) => Observed(w).beat <= aged
    BY <1>1, LeaseTypes DEF Stale, TooOld
  <1>. QED BY <1>1, <1>2, <1>3, SwapStep DEF Inv, TypeOK

LEMMA TakeStep ==
  ASSUME Inv, NEW w \in Workers, Take(w)
  PROVE  Inv'
  <1>1. Contends(w) /\ ~Exhausted(w) /\ TypeOK
    BY DEF Take, Contends, Inv, TakesInTime
  <1>2. CASE Swap(w, TakenOver(w)) /\ Become(w, "revive") /\ Beat
    BY <1>1, <1>2, LeaseTypes, BecomeType, SwapStep DEF Beat, TypeOK
  <1>3. CASE Become(w, "idle") /\ NoBeat /\ UNCHANGED <<disk, memory>>
    <2>1. /\ job' \in [Workers -> Job] /\ \A v \in Workers \ {w} : job'[v] = job[v]
          /\ job'[w].pc = "idle"
      BY <1>1, <1>3, BecomeType
    <2>2. /\ \A v \in Workers : Contends(v)' = Contends(v) /\ Executing(v)' = Executing(v)
          /\ disk' = disk /\ memory' = memory /\ aged' = aged /\ beats' = beats
      BY <1>1, <1>3, <2>1 DEF Contends, Executing, NoBeat, Take
    <2>3. TypeOK'
      BY <1>1, <2>1, <2>2 DEF TypeOK
    <2>4. CopiesAreVersions' /\ ExhaustionIsLast' /\ GiveUpsAgree'
      BY <2>2 DEF Inv, CopiesAreVersions, ExhaustionIsLast, GiveUpsAgree, Exhausted, Version, Current
    <2>5. TakesInTime'
      BY <2>1, <2>2 DEF Inv, TakesInTime, Exhausted, TooOld
    <2>6. ExecutorOwns'
      BY <2>2 DEF Inv, ExecutorOwns, Exhausted, Version
    <2>. QED BY <2>3, <2>4, <2>5, <2>6 DEF Inv
  <1>. QED BY <1>2, <1>3 DEF Take

\* Who gives up has the last version anybody with attempts left cannot reach.
LEMMA GiveUpStep ==
  ASSUME Inv, NEW w \in Workers, GiveUp(w)
  PROVE  Inv'
  <1>1. /\ Contends(w) /\ Exhausted(w) /\ ~memory[w].done
        /\ Persist(w, GivenUp(memory[w])) /\ beats' = beats /\ aged' = aged
        /\ TypeOK /\ memory[w] \in Record
    BY DEF GiveUp, MayResume, Contends, Exhausted, NoBeat, Inv, TypeOK, GivenUp
  <1>2. /\ job' \in [Workers -> Job] /\ \A v \in Workers \ {w} : job'[v] = job[v]
        /\ job'[w].pc = "over"
    BY <1>1, BecomeType DEF GiveUp
  <1>3. /\ GivenUp(memory[w]) \in Record
        /\ GivenUp(memory[w]).attempts = memory[w].attempts
        /\ GivenUp(memory[w]).lease.version = Version(w) + 1
    BY <1>1, ReleasedType DEF Version
  <1>4. /\ disk' = GivenUp(memory[w]) /\ disk' \in Record /\ memory' \in [Workers -> Record]
        /\ \A v \in Workers \ {w} : memory'[v] = memory[v]
    BY <1>1, <1>3, PersistType
  <1>5. \A v \in Workers : ~Executing(v)
    BY <1>1 DEF Inv, ExecutorOwns, Contends, Executing
  <1>6. \A v \in Workers :
          Contends(v)' => v # w /\ Contends(v) /\ Exhausted(v)' = Exhausted(v) /\ Version(v)' = Version(v)
    BY <1>2, <1>4 DEF Contends, Exhausted, Version
  <1>7. \A v \in Workers : Contends(v) /\ ~Exhausted(v) => Version(v) < disk'.lease.version
    <2>1. \A v \in Workers : Version(v) \in Nat
      BY DEF Inv, TypeOK, Record, Lease, Version
    <2>. QED BY <1>1, <1>3, <1>4, <2>1 DEF Inv, ExhaustionIsLast
  <1>8. TypeOK'
    BY <1>1, <1>2, <1>4 DEF TypeOK
  <1>9. CopiesAreVersions'
    BY <1>4, <1>6, <1>7, <1>8 DEF CopiesAreVersions, Current, Version, TypeOK, Record, Lease
  <1>10. ExhaustionIsLast'
    <2>1. disk'.attempts >= MaxAttempts
      BY <1>1, <1>3, <1>4 DEF Exhausted
    <2>. QED BY <1>6, <2>1 DEF Inv, ExhaustionIsLast
  <1>11. TakesInTime'
    BY <1>1, <1>2, <1>4 DEF Inv, TakesInTime, Exhausted, TooOld
  <1>12. ExecutorOwns'
    BY <1>2, <1>5 DEF ExecutorOwns, Executing
  <1>13. GiveUpsAgree'
    <2>. SUFFICES ASSUME NEW v \in Workers, Contends(v)', Exhausted(v)', ~memory'[v].done
                  PROVE  disk' = GivenUp(memory'[v])
      BY DEF GiveUpsAgree
    <2>1. v # w /\ Contends(v) /\ Exhausted(v) /\ memory'[v] = memory[v] /\ ~memory[v].done
      BY <1>4, <1>6
    <2>2. /\ disk = memory[v] \/ disk = GivenUp(memory[v])
          /\ disk = memory[w] \/ disk = GivenUp(memory[w])
      BY <1>1, <2>1 DEF Inv, GiveUpsAgree
    <2>3. GivenUp(memory[v]).done /\ GivenUp(memory[w]).done
      BY ReleasedType DEF Inv, TypeOK
    <2>. QED BY <1>1, <1>4, <2>1, <2>2, <2>3
  <1>. QED BY <1>8, <1>9, <1>10, <1>11, <1>12, <1>13 DEF Inv

LEMMA DieStep ==
  ASSUME Inv, NEW w \in Workers, Die(w)
  PROVE  Inv'
  <1>1. /\ job' \in [Workers -> Job] /\ \A v \in Workers \ {w} : job'[v] = job[v]
        /\ job'[w].pc = "dead"
        /\ disk' = disk /\ memory' = memory /\ beats' = beats /\ aged' = aged
    BY BecomeType DEF Inv, Die, NoBeat
  <1>2. /\ \A v \in Workers : Contends(v)' => Contends(v)
        /\ \A v \in Workers : Executing(v)' => Executing(v)
        /\ \A v \in Workers : Exhausted(v)' = Exhausted(v) /\ Version(v)' = Version(v)
    BY <1>1 DEF Contends, Executing, Exhausted, Version
  <1>3. TypeOK'
    BY <1>1 DEF Inv, TypeOK
  <1>4. CopiesAreVersions' /\ ExhaustionIsLast' /\ GiveUpsAgree'
    BY <1>1, <1>2 DEF Inv, CopiesAreVersions, ExhaustionIsLast, GiveUpsAgree, Current
  <1>5. TakesInTime'
    BY <1>1, <1>2 DEF Inv, TakesInTime, TooOld
  <1>6. ExecutorOwns'
    BY <1>1, <1>2 DEF Inv, ExecutorOwns
  <1>. QED BY <1>3, <1>4, <1>5, <1>6 DEF Inv

\* Time only ages heartbeats.
LEMMA TimeStep ==
  ASSUME Inv, Age \/ UNCHANGED vars
  PROVE  Inv'
  <1>1. /\ job' = job /\ disk' = disk /\ memory' = memory
        /\ beats' \in Nat /\ aged' \in Nat /\ aged <= aged'
    BY DEF Inv, TypeOK, Age, vars
  <1>2. TypeOK'
    BY <1>1 DEF Inv, TypeOK
  <1>3. CopiesAreVersions' /\ ExhaustionIsLast' /\ GiveUpsAgree' /\ ExecutorOwns'
    BY <1>1 DEF Inv, CopiesAreVersions, ExhaustionIsLast, GiveUpsAgree, ExecutorOwns,
                Current, Contends, Executing, Exhausted, Version
  <1>4. TakesInTime'
    <2>1. \A w \in Workers : TooOld(w) => TooOld(w)'
      BY <1>1 DEF TooOld, Inv, TypeOK, Record, Lease
    <2>. QED BY <1>1, <2>1 DEF Inv, TakesInTime, Exhausted
  <1>. QED BY <1>2, <1>3, <1>4 DEF Inv

LEMMA InitInv == Init => Inv
  <1>. SUFFICES ASSUME Init PROVE Inv
    OBVIOUS
  <1>1. \A w \in Workers : /\ memory[w] = disk /\ ~Contends(w)
                           /\ Executing(w) => w = First
    BY DEF Init, Contends, Executing
  <1>2. TypeOK
    <2>1. disk \in Record /\ disk.lease.owner = First
      BY TakeoverAssumption DEF Init, Record, Lease
    <2>2. memory \in [Workers -> Record]
      BY <2>1 DEF Init
    <2>3. job \in [Workers -> Job]
      BY TakeoverAssumption DEF Init, Job
    <2>. QED BY <2>1, <2>2, <2>3 DEF TypeOK, Init
  <1>3. CopiesAreVersions /\ ExhaustionIsLast /\ GiveUpsAgree
    BY <1>1 DEF CopiesAreVersions, ExhaustionIsLast, GiveUpsAgree
  <1>4. TakesInTime
    BY <1>1 DEF TakesInTime, Contends
  <1>5. ExecutorOwns
    <2>1. disk.lease.owner = First
      BY DEF Init
    <2>. QED BY <1>1, <2>1 DEF ExecutorOwns
  <1>. QED BY <1>2, <1>3, <1>4, <1>5 DEF Inv

LEMMA NextInv == ASSUME Exclusive, Inv, [Next]_vars PROVE Inv'
  <1>1. CASE Age \/ UNCHANGED vars
    BY <1>1, TimeStep
  <1>2. ASSUME NEW w \in Workers, Load(w) \/ Execute(w) \/ Resume(w) \/ Die(w)
        PROVE  Inv'
    <2>1. CASE Load(w)
      BY <2>1, LoadStep
    <2>2. CASE Execute(w) \/ Revive(w)
      BY <2>2, ExecuteStep
    <2>3. CASE Observe(w)
      BY <2>3, ObserveStep
    <2>4. CASE GiveUp(w)
      BY <2>4, GiveUpStep
    <2>5. CASE Take(w)
      BY <2>5, TakeStep
    <2>6. CASE Die(w)
      BY <2>6, DieStep
    <2>. QED BY <1>2, <2>1, <2>2, <2>3, <2>4, <2>5, <2>6 DEF Resume
  <1>. QED BY <1>1, <1>2 DEF Next

\* The inductive invariant: while nobody starts beside an executor, a swap that
\* finds its version finds its record, and the executor alone has the file's.
THEOREM Invariant == ASSUME Exclusive PROVE Spec => []Inv
  <1>1. Inv /\ [Next]_vars => Inv'
    BY NextInv
  <1>. QED BY InitInv, <1>1, PTL DEF Spec

--------------------------------------------------------------------------------
(***************************************************************************)
(* The theorems.                                                           *)
(***************************************************************************)

\* However many processes contend for the Run of a dead one, between each other's
\* observations and takeovers and with copies however old, at most one executes
\* it: _commitTakeover's comparison of versions is enough.
THEOREM ExecutorsExclude == ASSUME Exclusive PROVE Spec => []OneExecutor
  <1>1. Inv => OneExecutor
    <2>. SUFFICES ASSUME Inv PROVE Cardinality(Executors) <= 1
      BY DEF OneExecutor
    <2>1. CASE Executors = {}
      BY <2>1, FS_EmptySet
    <2>2. CASE Executors # {}
      <3>. PICK x \in Workers : Executing(x)
        BY <2>2 DEF Executors
      <3>1. Executors = {x}
        BY DEF Inv, ExecutorOwns, Executors
      <3>. QED BY <3>1, FS_Singleton
    <2>. QED BY <2>1, <2>2
  <1>. QED BY <1>1, Invariant, PTL

\* What the executor writes is the next version, and its own or nobody's.
LEMMA ExecutorWrites ==
  ASSUME Inv, NEW w \in Workers, Execute(w) \/ Revive(w)
  PROVE  /\ disk'.lease.version = disk.lease.version + 1
         /\ disk'.lease.owner \in {disk.lease.owner, Nobody}
  <1>1. /\ memory[w] = disk /\ disk.lease.owner = w /\ disk \in Record /\ TypeOK
    BY DEF Inv, TypeOK, ExecutorOwns, Executing, Execute, SavePhase, Finish, Revive
  <1>2. CASE SavePhase(w)
    BY <1>1, <1>2, SavedType DEF SavePhase, Persist
  <1>3. CASE Finish(w)
    BY <1>1, <1>3, ReleasedType DEF Finish, Persist, GivenUp
  <1>4. CASE Revive(w)
    <2>. DEFINE counted == [disk EXCEPT !.attempts = @ + 1]
    <2>1. counted \in Record /\ counted.lease = disk.lease
      BY <1>1 DEF Record
    <2>2. disk' = Saved(counted, w)
      BY <1>1, <1>4 DEF Revive, Persist
    <2>. HIDE DEF counted
    <2>. QED BY <1>1, <2>1, <2>2, SavedType
  <1>. QED BY <1>2, <1>3, <1>4 DEF Execute

\* A timely heartbeat protects its owner (ADR-012, INV-LEASE-02): only a lease whose
\* heartbeat is outside the window gets another owner; otherwise it is only released.
THEOREM HeartbeatProtects == ASSUME Exclusive PROVE Spec => TimelyOwnerKept
  <1>1. ASSUME Inv, [Next]_vars, disk.lease.beat > aged
        PROVE  disk'.lease.owner \in {disk.lease.owner, Nobody}
    <2>1. CASE disk' = disk
      BY <2>1
    <2>2. ASSUME NEW w \in Workers, Execute(w) \/ Revive(w)
          PROVE  disk'.lease.owner \in {disk.lease.owner, Nobody}
      BY <1>1, <2>2, ExecutorWrites
    <2>3. ASSUME NEW w \in Workers, GiveUp(w)
          PROVE  disk'.lease.owner \in {disk.lease.owner, Nobody}
      <3>1. memory[w] \in Record /\ disk' = GivenUp(memory[w])
        BY <1>1, <2>3 DEF Inv, TypeOK, GiveUp, Persist, GivenUp
      <3>. QED BY <3>1, ReleasedType
    <2>4. ASSUME NEW w \in Workers, Observe(w)
          PROVE  disk'.lease.owner \in {disk.lease.owner, Nobody}
      <3>1. Contends(w) /\ ~Exhausted(w) /\ Swap(w, Observed(w)) /\ TypeOK
        BY <1>1, <2>4, TakeoverAssumption
           DEF Observe, MayResume, Contends, Exhausted, Inv, TypeOK, Record
      <3>2. memory[w] = disk /\ disk'.lease = Observed(w)
        BY <1>1, <3>1, SwapFacts, SwapType, LeaseTypes DEF Swap
      <3>. QED BY <3>1, <3>2, LeaseTypes
    <2>5. ASSUME NEW w \in Workers, Take(w)
          PROVE  disk'.lease.owner \in {disk.lease.owner, Nobody}
      <3>1. CASE UNCHANGED <<disk, memory>>
        BY <3>1
      <3>2. CASE Swap(w, TakenOver(w))
        <4>1. Contends(w) /\ ~Exhausted(w) /\ Current(w) /\ memory[w].lease.beat <= aged
          BY <1>1, <2>5, <3>2 DEF Take, Contends, Inv, TakesInTime, TooOld, Swap
        <4>2. memory[w] = disk
          BY <1>1, <4>1, SwapFacts
        <4>3. disk.lease.beat \in Nat /\ aged \in Nat
          BY <1>1 DEF Inv, TypeOK, Record, Lease
        <4>. QED BY <1>1, <4>1, <4>2, <4>3
      <3>. QED BY <2>5, <3>1, <3>2 DEF Take
    <2>. QED BY <1>1, <2>1, <2>2, <2>3, <2>4, <2>5
             DEF Next, vars, Age, Load, Resume, Die, NoBeat
  <1>2. Inv /\ [Next]_vars =>
          [disk.lease.beat > aged => disk'.lease.owner \in {disk.lease.owner, Nobody}]_vars
    BY <1>1
  <1>. QED BY <1>2, Invariant, PTL DEF TimelyOwnerKept, Spec

\* The version in the file grows with every change of the record, although most of
\* them do not look at the file: the optimistic concurrency that compareAndSwapJson
\* relies on.
THEOREM VersionsOnlyGrow == ASSUME Exclusive PROVE Spec => VersionsGrow
  <1>1. ASSUME Inv, [Next]_vars, disk' # disk
        PROVE  disk'.lease.version > disk.lease.version
    <2>. USE <1>1
    <2>1. disk.lease.version \in Nat /\ disk \in Record /\ TypeOK
      BY DEF Inv, TypeOK, Record, Lease
    <2>. SUFFICES disk'.lease.version = disk.lease.version + 1
      BY <2>1
    <2>2. ASSUME NEW w \in Workers, Execute(w) \/ Revive(w)
          PROVE  disk'.lease.version = disk.lease.version + 1
      BY <2>2, ExecutorWrites
    <2>3. ASSUME NEW w \in Workers, GiveUp(w)
          PROVE  disk'.lease.version = disk.lease.version + 1
      <3>1. /\ memory[w] \in Record /\ disk' = GivenUp(memory[w])
            /\ Contends(w) /\ Exhausted(w) /\ ~memory[w].done
        BY <2>3 DEF Inv, TypeOK, GiveUp, MayResume, Contends, Exhausted, Persist, GivenUp
      <3>2. disk = memory[w]
        BY <3>1 DEF Inv, GiveUpsAgree
      <3>. QED BY <3>1, <3>2, ReleasedType
    <2>4. ASSUME NEW w \in Workers, NEW lease \in Lease, Swap(w, lease), lease.version = Version(w) + 1
          PROVE  disk'.lease.version = disk.lease.version + 1
      BY <2>1, <2>4, SwapType DEF Current, Version
    <2>5. ASSUME NEW w \in Workers, Observe(w) \/ Take(w)
          PROVE  disk'.lease.version = disk.lease.version + 1
      BY <2>1, <2>4, <2>5, LeaseTypes DEF Observe, Take
    <2>. QED BY <2>2, <2>3, <2>5
             DEF Next, vars, Age, Load, Resume, Die, NoBeat
  <1>2. Inv /\ [Next]_vars => [disk'.lease.version > disk.lease.version]_disk
    BY <1>1
  <1>. QED BY <1>2, Invariant, PTL DEF VersionsGrow, Spec
================================================================================
