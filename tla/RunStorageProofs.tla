---------------------------- MODULE RunStorageProofs ----------------------------
(***************************************************************************)
(* Theorems about RunStorage, for any number of writers, swappers and      *)
(* readers, every preemption and all faults, up to the first race of the   *)
(* lock: the properties say nothing of what comes after one.               *)
(***************************************************************************)
EXTENDS RunStorage, FiniteSetTheorems, TLAPS

--------------------------------------------------------------------------------
(***************************************************************************)
(* The inductive invariant, part by part. First the locks.                 *)
(***************************************************************************)
Acquiring == {"draw", "make", "look", "remake", "claim", "break", "check", "own",
              "verify", "unclaim"}
Claiming  == {"check", "own", "verify", "unclaim"}  \* between Claim and Unclaim
Replacing == {"recover", "rename", "move", "put", "tidy"}
Leaving   == {"release", "list", "remove", "left"}
Reading   == {"read", "fallback", "assert"}

Pcs   == {"start"} \cup Acquiring \cup Reading \cup Replacing \cup Leaving \cup Over
Files == {Absent} \cup {<<c>> : c \in Contents}

ProcType ==
  [pc : Pcs, lock : Locks, winner : BOOLEAN, got : BOOLEAN, seen : Files, tries : Nat,
   failed : BOOLEAN]

TypeOK ==
  /\ dir \in [Locks -> {"absent", "dir", "file"}]
  /\ claim \in [Locks -> Procs \cup {"none"}]
  /\ owners \in [Locks -> SUBSET Procs]
  /\ expired \in [Locks -> SUBSET Procs]
  /\ target \in Files /\ previous \in Files
  /\ proc \in [Procs -> ProcType]

\* Which lock a process is at, and what it has of it, by what it does next.
StageFits(p) ==
  /\ p \in Readers => /\ proc[p].pc \in {"start", "read", "fallback", "returned"}
                      /\ proc[p].lock = "lock" /\ ~proc[p].got
  /\ p \notin Readers /\ proc[p].pc \in Reading => proc[p].lock = "lock" /\ proc[p].got
  /\ proc[p].pc \in Replacing => proc[p].lock = "write.lock" /\ proc[p].got
  /\ proc[p].pc \in {"start"} \cup (Over \ {"dead"}) => proc[p].lock = "lock"
  /\ proc[p].pc \in Acquiring \ {"draw", "unclaim"} => ~proc[p].got

\* A claim belongs to the process that made it, until that dies.
ClaimFits(p) ==
  \A l \in Locks :
    /\ claim[l] = p => At(p, "dead") \/ (proc[p].lock = l /\ proc[p].pc \in Claiming)
    /\ proc[p].lock = l /\ proc[p].pc \in Claiming => claim[l] = p

\* A process that believes to own a lock has an owner file in it; an owner file is of
\* a process that owns the lock, is about to find out, or is giving it back, or has
\* died; only the last expire.
Owning(p, l) == Holds(p, l) \/ (proc[p].lock = l /\ proc[p].pc \in {"verify", "release"})

OwnerFits(p) ==
  \A l \in Locks :
    /\ Holds(p, l) => p \in owners[l]
    /\ p \in owners[l] => At(p, "dead") \/ Owning(p, l)
    /\ p \in expired[l] => At(p, "dead")
    /\ At(p, "own") /\ proc[p].lock = l => ~Owned(l)

Fits(p) == StageFits(p) /\ ClaimFits(p) /\ OwnerFits(p)

\* What is in a lock directory is there with it; of the owner files that have not
\* expired there is one at most.
LockFits(l) ==
  /\ claim[l] # "none" \/ owners[l] # {} => dir[l] = "dir"
  /\ expired[l] \subseteq owners[l]
  /\ \A p, q \in Live(l) : p = q

LocksInv == TypeOK /\ (\A l \in Locks : LockFits(l)) /\ (\A p \in Procs : Fits(p))

--------------------------------------------------------------------------------
(***************************************************************************)
(* Then the file.                                                          *)
(***************************************************************************)

\* An update is under way that has not changed the file yet.
Pending(p) ==
  /\ p \in Updaters
  /\ \/ At(p, "assert")
     \/ proc[p].lock = "write.lock" /\ proc[p].pc \in Acquiring \cup (Replacing \ {"tidy"})

\* The update has changed the file.
Made(p) ==
  /\ p \in Updaters
  /\ At(p, "tidy") \/ At(p, "returned") \/ (proc[p].pc \in Leaving /\ ~proc[p].failed)

Uses(p) ==
  /\ proc[p].pc \in {"put", "fallback"} => target = Absent
  /\ At(p, "fallback") => p \notin Swappers
  /\ At(p, "tidy") => target # Absent
  /\ Pending(p) => proc[p].seen = Visible
  /\ Pending(p) /\ p \in Swappers => proc[p].seen = <<{}>>
  /\ Made(p) => Served(p)

FileFits == Visible # Absent /\ \A p \in Updaters : Uses(p)

\* What is left behind is somebody's to remove, or a dead process left it.
Unfinished(p, l) ==
  /\ p \in Updaters /\ proc[p].pc \notin Over
  /\ proc[p].lock = l => ~At(p, "left")
  /\ l = "write.lock" => proc[p].lock = l

PreviousTidied == previous # Absent => \E q \in Updaters : proc[q].pc \in {"put", "tidy"}

DirsTidied ==
  (\A s \in Swappers : At(s, "idle")) =>
    \A l \in Locks : dir[l] = "dir" => \E q \in Procs : Unfinished(q, l)

SomeoneTidies == (\E p \in Procs : At(p, "dead")) \/ (PreviousTidied /\ DirsTidied)

\* The index and run_state.json are two files.
Apart == (\A p \in Writers : At(p, "idle")) \/ (\A p \in Swappers : At(p, "idle"))

\* Every attempt of a reader that found nothing was foiled by another replacement.
Past == {p \in Updaters : proc[p].pc \in {"put", "tidy", "dead"} \cup Leaving \cup (Over \ {"idle"})}
Foiled(r) ==
  /\ proc[r].pc \in {"start", "read"} =>
       proc[r].tries + (IF target = Absent THEN 1 ELSE 0) <= Cardinality(Past)
  /\ At(r, "fallback") => proc[r].tries + 1 <= Cardinality(Past)
  /\ At(r, "returned") => proc[r].seen # Absent \/ Fallbacks <= Cardinality(Past)
ReadersFoiled == \A r \in Readers : Foiled(r)

Inv == LocksInv /\ FileFits /\ SomeoneTidies /\ Apart /\ ReadersFoiled

--------------------------------------------------------------------------------
(***************************************************************************)
(* What a step does to the record of its process.                          *)
(***************************************************************************)
Others(p) == \A q \in Procs \ {p} : proc'[q] = proc[q]
Moved(p)  == proc' \in [Procs -> ProcType] /\ Others(p)

LEMMA MovedPc ==
  ASSUME TypeOK, NEW p \in Procs, NEW pc \in Pcs, Become(p, pc)
  PROVE  /\ Moved(p) /\ proc'[p].pc = pc
         /\ proc'[p].lock = proc[p].lock /\ proc'[p].winner = proc[p].winner
         /\ proc'[p].got = proc[p].got /\ proc'[p].seen = proc[p].seen
         /\ proc'[p].tries = proc[p].tries /\ proc'[p].failed = proc[p].failed
  BY DEF TypeOK, ProcType, Become, Moved, Others

LEMMA MovedWinner ==
  ASSUME TypeOK, NEW p \in Procs, NEW pc \in Pcs, NEW w \in BOOLEAN,
         proc' = [proc EXCEPT ![p].pc = pc, ![p].winner = w]
  PROVE  /\ Moved(p) /\ proc'[p].pc = pc /\ proc'[p].winner = w
         /\ proc'[p].lock = proc[p].lock
         /\ proc'[p].got = proc[p].got /\ proc'[p].seen = proc[p].seen
         /\ proc'[p].tries = proc[p].tries /\ proc'[p].failed = proc[p].failed
  BY DEF TypeOK, ProcType, Moved, Others

LEMMA MovedGot ==
  ASSUME TypeOK, NEW p \in Procs, NEW pc \in Pcs, NEW g \in BOOLEAN,
         proc' = [proc EXCEPT ![p].pc = pc, ![p].got = g, ![p].winner = FALSE]
  PROVE  /\ Moved(p) /\ proc'[p].pc = pc /\ proc'[p].got = g
         /\ proc'[p].lock = proc[p].lock
         /\ proc'[p].seen = proc[p].seen
         /\ proc'[p].tries = proc[p].tries /\ proc'[p].failed = proc[p].failed
  <1>. DEFINE r == [proc[p] EXCEPT !.pc = pc, !.got = g, !.winner = FALSE]
  <1>1. proc' = [proc EXCEPT ![p] = r]
    BY DEF TypeOK, ProcType
  <1>2. r \in ProcType
    BY DEF TypeOK, ProcType
  <1>3. Moved(p) /\ proc'[p] = r
    BY <1>1, <1>2 DEF TypeOK, Moved, Others
  <1>. QED BY <1>3 DEF TypeOK, ProcType

LEMMA MovedFailed ==
  ASSUME TypeOK, NEW p \in Procs, NEW pc \in Pcs, NEW f \in BOOLEAN,
         proc' = [proc EXCEPT ![p].pc = pc, ![p].failed = f]
  PROVE  /\ Moved(p) /\ proc'[p].pc = pc /\ proc'[p].failed = f
         /\ proc'[p].lock = proc[p].lock /\ proc'[p].winner = proc[p].winner
         /\ proc'[p].got = proc[p].got /\ proc'[p].seen = proc[p].seen
         /\ proc'[p].tries = proc[p].tries
  BY DEF TypeOK, ProcType, Moved, Others

LEMMA MovedGiven ==
  ASSUME TypeOK, NEW p \in Procs, NEW pc \in Pcs, NEW f \in BOOLEAN,
         proc' = [proc EXCEPT ![p].pc = pc, ![p].failed = f, ![p].winner = FALSE]
  PROVE  /\ Moved(p) /\ proc'[p].pc = pc /\ proc'[p].failed = f
         /\ proc'[p].lock = proc[p].lock
         /\ proc'[p].got = proc[p].got /\ proc'[p].seen = proc[p].seen
         /\ proc'[p].tries = proc[p].tries
  <1>. DEFINE r == [proc[p] EXCEPT !.pc = pc, !.failed = f, !.winner = FALSE]
  <1>1. proc' = [proc EXCEPT ![p] = r]
    BY DEF TypeOK, ProcType
  <1>2. r \in ProcType
    BY DEF TypeOK, ProcType
  <1>3. Moved(p) /\ proc'[p] = r
    BY <1>1, <1>2 DEF TypeOK, Moved, Others
  <1>. QED BY <1>3 DEF TypeOK, ProcType

LEMMA MovedLock ==
  ASSUME TypeOK, NEW p \in Procs, NEW pc \in Pcs, NEW l \in Locks,
         proc' = [proc EXCEPT ![p].pc = pc, ![p].lock = l]
  PROVE  /\ Moved(p) /\ proc'[p].pc = pc /\ proc'[p].lock = l
         /\ proc'[p].winner = proc[p].winner
         /\ proc'[p].got = proc[p].got /\ proc'[p].seen = proc[p].seen
         /\ proc'[p].tries = proc[p].tries /\ proc'[p].failed = proc[p].failed
  BY DEF TypeOK, ProcType, Moved, Others

LEMMA MovedSeen ==
  ASSUME TypeOK, NEW p \in Procs, NEW pc \in Pcs, NEW f \in Files,
         proc' = [proc EXCEPT ![p].seen = f, ![p].pc = pc]
  PROVE  /\ Moved(p) /\ proc'[p].pc = pc /\ proc'[p].seen = f
         /\ proc'[p].lock = proc[p].lock /\ proc'[p].winner = proc[p].winner
         /\ proc'[p].got = proc[p].got
         /\ proc'[p].tries = proc[p].tries /\ proc'[p].failed = proc[p].failed
  BY DEF TypeOK, ProcType, Moved, Others

LEMMA MovedTries ==
  ASSUME TypeOK, NEW p \in Procs, NEW pc \in Pcs,
         proc' = [proc EXCEPT ![p].tries = @ + 1, ![p].pc = pc]
  PROVE  /\ Moved(p) /\ proc'[p].pc = pc
         /\ proc'[p].tries = proc[p].tries + 1
         /\ proc'[p].lock = proc[p].lock /\ proc'[p].winner = proc[p].winner
         /\ proc'[p].got = proc[p].got /\ proc'[p].seen = proc[p].seen
         /\ proc'[p].failed = proc[p].failed
  <1>1. PICK n \in Nat : n = proc[p].tries + 1
    BY DEF TypeOK, ProcType
  <1>2. proc' = [proc EXCEPT ![p] = [proc[p] EXCEPT !.tries = n, !.pc = pc]]
    BY <1>1 DEF TypeOK, ProcType
  <1>. DEFINE r == [proc[p] EXCEPT !.tries = n, !.pc = pc]
  <1>3. r \in ProcType
    BY DEF TypeOK, ProcType
  <1>4. Moved(p) /\ proc'[p] = r
    BY <1>2, <1>3 DEF TypeOK, Moved, Others
  <1>. QED BY <1>1, <1>4 DEF TypeOK, ProcType

LEMMA MovedEnd ==
  ASSUME TypeOK, NEW p \in Procs, NEW pc \in Pcs, NEW f \in Files, End(p, pc, f)
  PROVE  /\ Moved(p) /\ proc'[p].pc = pc /\ proc'[p].seen = f
         /\ proc'[p].lock = "lock" /\ ~proc'[p].got
  <1>. DEFINE Ended == [Start EXCEPT !.pc = pc, !.seen = f]
  <1>1. /\ Ended \in ProcType /\ Ended.pc = pc /\ Ended.seen = f
        /\ Ended.lock = "lock" /\ ~Ended.got
    BY DEF Start, ProcType, Locks
  <1>2. proc' = [proc EXCEPT ![p] = Ended]
    BY DEF End
  <1>. HIDE DEF Ended
  <1>. QED BY <1>1, <1>2 DEF TypeOK, Moved, Others

LEMMA MovedDraw ==
  ASSUME TypeOK, NEW p \in Procs,
         proc' = [proc EXCEPT ![p].pc = "make", ![p].winner = FALSE, ![p].got = FALSE]
  PROVE  /\ Moved(p) /\ proc'[p].pc = "make" /\ ~proc'[p].winner /\ ~proc'[p].got
         /\ proc'[p].lock = proc[p].lock /\ proc'[p].seen = proc[p].seen
         /\ proc'[p].tries = proc[p].tries /\ proc'[p].failed = proc[p].failed
  <1>. DEFINE r == [proc[p] EXCEPT !.pc = "make", !.winner = FALSE, !.got = FALSE]
  <1>1. proc' = [proc EXCEPT ![p] = r]
    BY DEF TypeOK, ProcType
  <1>2. r \in ProcType
    BY DEF TypeOK, ProcType, Pcs, Acquiring
  <1>3. Moved(p) /\ proc'[p] = r
    BY <1>1, <1>2 DEF TypeOK, Moved, Others
  <1>. QED BY <1>3 DEF TypeOK, ProcType

--------------------------------------------------------------------------------
(***************************************************************************)
(* Every action preserves LocksInv. First those that leave the locks as    *)
(* they are: only what holds of their process has to be looked at.         *)
(***************************************************************************)
LEMMA LocalStep ==
  ASSUME LocksInv, NEW p \in Procs, Moved(p), ~At(p, "dead"),
         target' \in Files, previous' \in Files,
         UNCHANGED <<dir, claim, owners, expired>>, Fits(p)'
  PROVE  LocksInv'
  <1>1. TypeOK'
    BY DEF LocksInv, TypeOK, Moved
  <1>2. \A l \in Locks : LockFits(l)'
    BY DEF LocksInv, LockFits, Live
  <1>3. ASSUME NEW q \in Procs \ {p}
        PROVE  Fits(q)'
    <2>1. proc'[q] = proc[q] /\ Fits(q)
      BY <1>3 DEF Moved, Others, LocksInv
    <2>2. StageFits(q)'
      BY <2>1 DEF Fits, StageFits
    <2>4. ClaimFits(q)'
      BY <2>1 DEF Fits, ClaimFits, At
    <2>5. OwnerFits(q)'
      BY <2>1 DEF Fits, OwnerFits, Owning, Holds, Owned, Live, At
    <2>. QED BY <2>2, <2>4, <2>5 DEF Fits
  <1>. QED BY <1>1, <1>2, <1>3 DEF LocksInv

\* A call that fails leaves nothing of its own in the lock.
LEMMA FailMoves ==
  ASSUME LocksInv, NEW p \in Procs, proc[p].pc \in Acquiring, Fail(p)
  PROVE  /\ Moved(p) /\ p \notin Readers
         /\ proc'[p].lock = proc[p].lock
         /\ proc'[p].pc = "draw" \/ (proc'[p].pc = "refused" /\ proc[p].lock = "lock")
         /\ proc'[p].got = proc[p].got /\ proc'[p].seen = proc[p].seen
         /\ proc'[p].tries = proc[p].tries /\ ~proc'[p].failed
  <1>. DEFINE pc == IF Retrying(p) THEN "draw" ELSE "refused"
  <1>1. pc \in Pcs /\ (pc = "left") = FALSE
    BY DEF Pcs, Acquiring, Over
  <1>2. proc' = [proc EXCEPT ![p].pc = pc, ![p].failed = FALSE, ![p].winner = FALSE]
    BY <1>1 DEF Fail, Give
  <1>3. p \notin Readers
    BY DEF LocksInv, Fits, StageFits, Acquiring
  <1>4. proc[p].lock \in Locks
    BY DEF LocksInv, TypeOK, ProcType
  <1>5. pc = "draw" \/ (pc = "refused" /\ proc[p].lock = "lock")
    BY <1>4 DEF Retrying, Locks
  <1>. HIDE DEF pc
  <1>. QED BY <1>1, <1>2, <1>3, <1>5, MovedGiven DEF LocksInv

LEMMA FailFits ==
  ASSUME LocksInv, NEW p \in Procs, Fail(p),
         proc[p].pc \in {"make", "look", "remake", "claim"},
         UNCHANGED <<dir, claim, owners, expired>>
  PROVE  Moved(p) /\ Fits(p)'
  <1>1. /\ Moved(p) /\ p \notin Readers
        /\ proc'[p].lock = proc[p].lock
        /\ proc'[p].pc = "draw" \/ (proc'[p].pc = "refused" /\ proc[p].lock = "lock")
        /\ proc'[p].got = proc[p].got
    BY FailMoves DEF Acquiring
  <1>2. StageFits(p)'
    BY <1>1 DEF StageFits, Reading, Replacing, Acquiring, Over
  <1>3. ClaimFits(p)'
    BY <1>1 DEF LocksInv, Fits, ClaimFits, Claiming, At
  <1>4. OwnerFits(p)'
    BY <1>1 DEF LocksInv, Fits, OwnerFits, Owning, Holds, Updating, Over, At
  <1>. QED BY <1>1, <1>2, <1>3, <1>4 DEF Fits

LEMMA BeginLocks ==
  ASSUME LocksInv, NEW p \in Procs, Begin(p)
  PROVE  LocksInv'
  <1>1. Moved(p) /\ proc'[p].pc = "draw" /\ proc'[p].lock = proc[p].lock
    BY MovedPc DEF LocksInv, Begin, Pcs, Acquiring
  <1>2. /\ p \notin Readers /\ At(p, "start")
        /\ UNCHANGED <<dir, claim, owners, expired, target, previous>>
    BY DEF Begin, lockVars, fileVars
  <1>3. StageFits(p)'
    BY <1>1, <1>2 DEF StageFits, At, Reading, Replacing, Acquiring, Over
  <1>4. ClaimFits(p)'
    BY <1>1, <1>2 DEF LocksInv, Fits, ClaimFits, Claiming, At
  <1>5. OwnerFits(p)'
    BY <1>1, <1>2 DEF LocksInv, Fits, StageFits, OwnerFits, Owning, Holds, Updating, Over, At
  <1>. QED BY <1>1, <1>2, <1>3, <1>4, <1>5, LocalStep DEF Fits, LocksInv, TypeOK, At

LEMMA DrawLocks ==
  ASSUME LocksInv, NEW p \in Procs, DrawToken(p)
  PROVE  LocksInv'
  <1>1. /\ Moved(p) /\ proc'[p].pc = "make" /\ proc'[p].lock = proc[p].lock
        /\ ~proc'[p].got /\ ~proc'[p].winner
    BY MovedDraw DEF LocksInv, DrawToken
  <1>2. /\ At(p, "draw")
        /\ UNCHANGED <<dir, claim, owners, expired, target, previous>>
    BY DEF DrawToken, fileVars
  <1>3. StageFits(p)'
    BY <1>1, <1>2 DEF LocksInv, Fits, StageFits, At, Reading, Replacing, Acquiring, Over
  <1>4. ClaimFits(p)'
    BY <1>1, <1>2 DEF LocksInv, Fits, ClaimFits, Claiming, At
  <1>5. OwnerFits(p)'
    BY <1>1, <1>2 DEF LocksInv, Fits, OwnerFits, Owning, Holds, Updating, Over, At
  <1>. QED BY <1>1, <1>2, <1>3, <1>4, <1>5, LocalStep DEF Fits, LocksInv, TypeOK, At

\* Now the steps that change a lock: of every other process its claim and its owner
\* files have to be looked at.
LEMMA SharedStep ==
  ASSUME LocksInv, NEW p \in Procs, Moved(p), TypeOK',
         \A l \in Locks : LockFits(l)', Fits(p)',
         \A q \in Procs \ {p} : ClaimFits(q)' /\ OwnerFits(q)'
  PROVE  LocksInv'
  <1>1. ASSUME NEW q \in Procs \ {p}
        PROVE  StageFits(q)'
    BY DEF Moved, Others, LocksInv, Fits, StageFits
  <1>. QED BY <1>1 DEF LocksInv, Fits

\* The creation of the lock directory: nobody has anything in it.
LEMMA CreationLocks ==
  ASSUME LocksInv, NEW p \in Procs, Moved(p), proc[p].pc \in {"make", "remake"},
         proc'[p].pc = "claim", proc'[p].winner, proc'[p].lock = proc[p].lock,
         proc'[p].got = proc[p].got,
         dir[proc[p].lock] = "absent", dir' = [dir EXCEPT ![proc[p].lock] = "dir"],
         UNCHANGED <<claim, owners, expired, target, previous>>
  PROVE  LocksInv'
  <1>. DEFINE l == proc[p].lock
  <1>1. /\ l \in Locks /\ claim[l] = "none" /\ owners[l] = {}
        /\ dir' \in [Locks -> {"absent", "dir", "file"}] /\ dir'[l] = "dir"
        /\ \A k \in Locks \ {l} : dir'[k] = dir[k]
    BY DEF LocksInv, TypeOK, ProcType, LockFits
  <1>2. TypeOK'
    BY <1>1 DEF LocksInv, TypeOK, Moved
  <1>3. \A k \in Locks : LockFits(k)'
    BY <1>1 DEF LocksInv, LockFits, Live
  <1>4. StageFits(p)'
    BY <1>1 DEF LocksInv, Fits, StageFits, At, Reading, Replacing, Acquiring, Over,
       Moved, Others
  <1>5. ClaimFits(p)' /\ OwnerFits(p)'
    BY <1>1 DEF LocksInv, Fits, ClaimFits, OwnerFits, Owning, Holds, Updating, Over, Claiming, At
  <1>6. \A q \in Procs \ {p} : ClaimFits(q)' /\ OwnerFits(q)'
    BY <1>1 DEF LocksInv, Fits, ClaimFits, OwnerFits, Owning, Holds, Owned, Live, At, Moved, Others
  <1>. QED BY <1>2, <1>3, <1>4, <1>5, <1>6, SharedStep DEF Fits

LEMMA MakeLocks ==
  ASSUME LocksInv, NEW p \in Procs, MakeDirectory(p)
  PROVE  LocksInv'
  <1>1. /\ At(p, "make")
        /\ UNCHANGED <<claim, owners, expired, target, previous>>
    BY DEF MakeDirectory, fileVars
  <1>2. CASE dir[proc[p].lock] = "absent"
    <2>1. /\ Moved(p) /\ proc'[p].pc = "claim" /\ proc'[p].lock = proc[p].lock
          /\ proc'[p].winner /\ proc'[p].got = proc[p].got
          /\ dir' = [dir EXCEPT ![proc[p].lock] = "dir"]
      BY <1>2, MovedWinner DEF LocksInv, MakeDirectory, Pcs, Acquiring
    <2>. QED BY <1>1, <1>2, <2>1, CreationLocks DEF At
  <1>3. CASE dir[proc[p].lock] # "absent"
    <2>1. /\ Moved(p) /\ proc'[p].pc = "look" /\ proc'[p].lock = proc[p].lock
          /\ proc'[p].got = proc[p].got /\ proc'[p].winner = proc[p].winner /\ dir' = dir
      BY <1>3, MovedPc DEF LocksInv, MakeDirectory, Pcs, Acquiring
    <2>2. StageFits(p)'
      BY <1>1, <2>1 DEF LocksInv, Fits, StageFits, At, Reading, Replacing, Acquiring, Over
    <2>3. ClaimFits(p)' /\ OwnerFits(p)'
      BY <1>1, <2>1 DEF LocksInv, Fits, ClaimFits, OwnerFits, Owning, Holds, Updating, Over, Claiming, At
    <2>. QED BY <1>1, <2>1, <2>2, <2>3, LocalStep DEF Fits, LocksInv, TypeOK, At
  <1>. QED BY <1>2, <1>3

LEMMA LookLocks ==
  ASSUME LocksInv, NEW p \in Procs, Look(p)
  PROVE  LocksInv'
  <1>. DEFINE l == proc[p].lock
  <1>1. /\ At(p, "look") /\ l \in Locks
        /\ UNCHANGED <<claim, owners, expired, target, previous>>
    BY DEF Look, fileVars, LocksInv, TypeOK, ProcType
  <1>2. CASE /\ dir[l] = "file" /\ dir' = [dir EXCEPT ![l] = "absent"]
             /\ proc' = [proc EXCEPT ![p].pc = "remake"]
    <2>1. /\ Moved(p) /\ proc'[p].pc = "remake" /\ proc'[p].lock = l
          /\ proc'[p].got = proc[p].got /\ proc'[p].winner = proc[p].winner
      BY <1>2, MovedPc DEF LocksInv, Become, Pcs, Acquiring
    <2>2. /\ dir' \in [Locks -> {"absent", "dir", "file"}] /\ dir'[l] = "absent"
          /\ claim[l] = "none" /\ owners[l] = {}
          /\ \A k \in Locks \ {l} : dir'[k] = dir[k]
      BY <1>1, <1>2 DEF LocksInv, TypeOK, LockFits
    <2>3. TypeOK' /\ \A k \in Locks : LockFits(k)'
      BY <1>1, <2>1, <2>2 DEF LocksInv, TypeOK, Moved, LockFits, Live
    <2>4. StageFits(p)'
      BY <1>1, <2>1 DEF LocksInv, Fits, StageFits, At, Reading, Replacing, Acquiring, Over
    <2>5. ClaimFits(p)' /\ OwnerFits(p)'
      BY <1>1, <2>1 DEF LocksInv, Fits, ClaimFits, OwnerFits, Owning, Holds, Updating, Over, Claiming, At
    <2>6. \A q \in Procs \ {p} : ClaimFits(q)' /\ OwnerFits(q)'
      BY <1>1, <2>1 DEF LocksInv, Fits, ClaimFits, OwnerFits, Owning, Holds, Owned, Live, At, Moved, Others
    <2>. QED BY <2>1, <2>3, <2>4, <2>5, <2>6, SharedStep DEF Fits
  <1>3. CASE Become(p, "claim") /\ dir' = dir
    <2>1. /\ Moved(p) /\ proc'[p].pc = "claim" /\ proc'[p].lock = l
          /\ proc'[p].got = proc[p].got /\ proc'[p].winner = proc[p].winner
      BY <1>3, MovedPc DEF LocksInv, Pcs, Acquiring
    <2>2. StageFits(p)'
      BY <1>1, <2>1 DEF LocksInv, Fits, StageFits, At, Reading, Replacing, Acquiring, Over
    <2>3. ClaimFits(p)' /\ OwnerFits(p)'
      BY <1>1, <1>3, <2>1 DEF LocksInv, Fits, ClaimFits, OwnerFits, Owning, Holds, Updating, Over, Claiming, At
    <2>. QED BY <1>1, <1>3, <2>1, <2>2, <2>3, LocalStep DEF Fits, LocksInv, TypeOK, At
  <1>4. CASE Fail(p) /\ dir' = dir
    BY <1>1, <1>4, FailFits, LocalStep DEF LocksInv, TypeOK, At
  <1>. QED BY <1>2, <1>3, <1>4 DEF Look

LEMMA RemakeLocks ==
  ASSUME LocksInv, NEW p \in Procs, Remake(p)
  PROVE  LocksInv'
  <1>1. /\ At(p, "remake")
        /\ UNCHANGED <<claim, owners, expired, target, previous>>
    BY DEF Remake, fileVars
  <1>2. CASE dir[proc[p].lock] = "absent"
    <2>1. /\ Moved(p) /\ proc'[p].pc = "claim" /\ proc'[p].lock = proc[p].lock
          /\ proc'[p].winner /\ proc'[p].got = proc[p].got
          /\ dir' = [dir EXCEPT ![proc[p].lock] = "dir"]
      BY <1>2, MovedWinner DEF LocksInv, Remake, Pcs, Acquiring
    <2>. QED BY <1>1, <1>2, <2>1, CreationLocks DEF At
  <1>3. CASE dir[proc[p].lock] # "absent"
    <2>1. Fail(p) /\ dir' = dir
      BY <1>3 DEF Remake
    <2>. QED BY <1>1, <2>1, FailFits, LocalStep DEF LocksInv, TypeOK, At
  <1>. QED BY <1>2, <1>3

LEMMA ClaimLocks ==
  ASSUME LocksInv, NEW p \in Procs, Claim(p), ~raced'
  PROVE  LocksInv'
  <1>. DEFINE l == proc[p].lock
  <1>1. /\ At(p, "claim") /\ l \in Locks
        /\ UNCHANGED <<dir, owners, expired, target, previous>>
    BY DEF Claim, fileVars, LocksInv, TypeOK, ProcType
  <1>2. ASSUME dir[l] = "dir", claim[l] = "none", claim' = [claim EXCEPT ![l] = p],
               Become(p, IF proc[p].winner THEN "own" ELSE "check"),
               ~(proc[p].winner /\ Owned(l))
        PROVE  LocksInv'
    <2>1. PICK pc \in {"own", "check"} :
            Become(p, pc) /\ (pc = "own" => ~Owned(l))
      BY <1>2
    <2>2. /\ Moved(p) /\ proc'[p].pc = pc /\ proc'[p].lock = l
          /\ proc'[p].got = proc[p].got
      BY <2>1, MovedPc DEF LocksInv, Pcs, Acquiring
    <2>3. /\ claim' \in [Locks -> Procs \cup {"none"}] /\ claim'[l] = p
          /\ \A k \in Locks \ {l} : claim'[k] = claim[k]
      BY <1>1, <1>2 DEF LocksInv, TypeOK
    <2>4. TypeOK' /\ \A k \in Locks : LockFits(k)'
      BY <1>1, <1>2, <2>2, <2>3 DEF LocksInv, TypeOK, Moved, LockFits, Live
    <2>5. StageFits(p)'
      BY <1>1, <2>2 DEF LocksInv, Fits, StageFits, At, Reading, Replacing, Acquiring, Over
    <2>6. ClaimFits(p)'
      BY <1>1, <1>2, <2>2, <2>3 DEF LocksInv, Fits, ClaimFits, Claiming, At
    <2>7. OwnerFits(p)'
      BY <1>1, <2>1, <2>2 DEF LocksInv, Fits, OwnerFits, Owning, Holds, Updating, Over, Owned, Live, At
    <2>8. ASSUME NEW q \in Procs \ {p}
          PROVE  ClaimFits(q)' /\ OwnerFits(q)'
      <3>1. proc'[q] = proc[q] /\ Fits(q) /\ q # "none" /\ p # q
        BY <2>2, StorageAssumption DEF Moved, Others, LocksInv
      <3>2. ClaimFits(q)'
        BY <1>2, <2>3, <3>1 DEF Fits, ClaimFits, At
      <3>. QED BY <1>1, <3>1, <3>2 DEF Fits, OwnerFits, Owning, Holds, Owned, Live, At
    <2>. QED BY <2>2, <2>4, <2>5, <2>6, <2>7, <2>8, SharedStep DEF Fits
  <1>3. ASSUME Fail(p), claim' = claim
        PROVE  LocksInv'
    BY <1>1, <1>3, FailFits, LocalStep DEF LocksInv, TypeOK, At
  <1>4. ASSUME Become(p, "break"), claim' = claim
        PROVE  LocksInv'
    <2>1. /\ Moved(p) /\ proc'[p].pc = "break" /\ proc'[p].lock = l
          /\ proc'[p].got = proc[p].got /\ proc'[p].winner = proc[p].winner
      BY <1>4, MovedPc DEF LocksInv, Pcs, Acquiring
    <2>2. StageFits(p)'
      BY <1>1, <1>4, <2>1 DEF LocksInv, Fits, StageFits, At, Reading, Replacing, Acquiring, Over
    <2>3. ClaimFits(p)' /\ OwnerFits(p)'
      BY <1>1, <1>4, <2>1 DEF LocksInv, Fits, ClaimFits, OwnerFits, Owning, Holds, Updating, Over, Claiming, At
    <2>. QED BY <1>1, <1>4, <2>1, <2>2, <2>3, LocalStep DEF Fits, LocksInv, TypeOK, At
  <1>. QED BY <1>1, <1>2, <1>3, <1>4 DEF Claim

LEMMA GiveUpLocks ==
  ASSUME LocksInv, NEW p \in Procs, GiveUpClaim(p)
  PROVE  LocksInv'
  <1>1. /\ At(p, "claim") /\ Fail(p)
        /\ UNCHANGED <<dir, claim, owners, expired, target, previous>>
    BY DEF GiveUpClaim, fileVars
  <1>. QED BY <1>1, FailFits, LocalStep DEF LocksInv, TypeOK, At

LEMMA BreakLocks ==
  ASSUME LocksInv, NEW p \in Procs, BreakClaim(p), ~raced'
  PROVE  LocksInv'
  <1>. DEFINE l == proc[p].lock
  <1>1. /\ At(p, "break") /\ l \in Locks
        /\ UNCHANGED <<dir, owners, expired, target, previous>>
    BY DEF BreakClaim, fileVars, LocksInv, TypeOK, ProcType
  <1>2. /\ Moved(p) /\ proc'[p].pc = "claim" /\ proc'[p].lock = l
        /\ proc'[p].got = proc[p].got /\ proc'[p].winner = proc[p].winner
    BY MovedPc DEF BreakClaim, LocksInv, Pcs, Acquiring
  <1>3. /\ claim' \in [Locks -> Procs \cup {"none"}] /\ claim'[l] = "none"
        /\ \A k \in Locks \ {l} : claim'[k] = claim[k]
    BY <1>1 DEF BreakClaim, LocksInv, TypeOK
  <1>4. TypeOK' /\ \A k \in Locks : LockFits(k)'
    BY <1>1, <1>2, <1>3 DEF LocksInv, TypeOK, Moved, LockFits, Live
  <1>5. StageFits(p)'
    BY <1>1, <1>2 DEF LocksInv, Fits, StageFits, At, Reading, Replacing, Acquiring, Over
  <1>6. ClaimFits(p)' /\ OwnerFits(p)'
    BY <1>1, <1>2, <1>3, StorageAssumption DEF LocksInv, Fits, ClaimFits, OwnerFits, Owning, Holds, Updating, Over, Claiming, At
  <1>7. ASSUME NEW q \in Procs \ {p}
        PROVE  ClaimFits(q)' /\ OwnerFits(q)'
    <2>1. proc'[q] = proc[q] /\ Fits(q) /\ q # "none"
      BY <1>2, StorageAssumption DEF Moved, Others, LocksInv
    <2>2. claim[l] = q => At(q, "dead")
      BY StorageAssumption DEF BreakClaim
    <2>3. ClaimFits(q)'
      BY <1>1, <1>3, <2>1, <2>2 DEF Fits, ClaimFits, Claiming, At
    <2>. QED BY <1>1, <2>1, <2>3 DEF Fits, OwnerFits, Owning, Holds, Owned, Live, At
  <1>. QED BY <1>2, <1>4, <1>5, <1>6, <1>7, SharedStep DEF Fits

LEMMA CheckLocks ==
  ASSUME LocksInv, NEW p \in Procs, CheckOwner(p)
  PROVE  LocksInv'
  <1>1. /\ At(p, "check")
        /\ UNCHANGED <<dir, claim, owners, expired, target, previous>>
    BY DEF CheckOwner, lockVars, fileVars
  <1>2. PICK pc \in {"own", "unclaim"} :
          Become(p, pc) /\ (pc = "own" => ~Owned(proc[p].lock))
    BY DEF CheckOwner
  <1>3. /\ Moved(p) /\ proc'[p].pc = pc /\ proc'[p].lock = proc[p].lock
        /\ proc'[p].got = proc[p].got
    BY <1>2, MovedPc DEF LocksInv, Pcs, Acquiring
  <1>4. p \notin Readers /\ ~proc[p].got /\ \A l \in Locks : claim[l] = p => l = proc[p].lock
    BY <1>1 DEF LocksInv, Fits, StageFits, Acquiring, ClaimFits, At
  <1>5. StageFits(p)'
    BY <1>1, <1>3, <1>4 DEF StageFits, At, Reading, Replacing, Acquiring, Over
  <1>6. ClaimFits(p)'
    BY <1>1, <1>3 DEF LocksInv, Fits, ClaimFits, Claiming, At
  <1>7. \A l \in Locks : p \in owners[l] => l = "lock" /\ proc[p].lock = "write.lock"
    BY <1>1 DEF LocksInv, Fits, OwnerFits, Owning, Holds, Updating, Over, At
  <1>8. OwnerFits(p)'
    <2>1. ASSUME NEW l \in Locks
          PROVE  /\ Holds(p, l)' => p \in owners[l]
                 /\ p \in owners[l] => Owning(p, l)'
                 /\ p \notin expired[l]
                 /\ pc = "own" /\ proc[p].lock = l => ~Owned(l)
      <3>1. /\ p \notin expired[l]
            /\ pc = "own" /\ proc[p].lock = l => ~Owned(l)
        BY <1>1, <1>2 DEF LocksInv, Fits, OwnerFits, At
      <3>2. p \in owners[l] => Owning(p, l)'
        BY <1>3, <1>7 DEF Owning, Holds, Over
      <3>3. Holds(p, l)' => p \in owners[l]
        BY <1>1, <1>2, <1>3, <1>4 DEF LocksInv, Fits, OwnerFits, Holds, Updating, Over, At
      <3>. QED BY <3>1, <3>2, <3>3
    <2>. QED BY <1>1, <1>3, <2>1 DEF OwnerFits, Owned, Live, At
  <1>. QED BY <1>1, <1>3, <1>5, <1>6, <1>8, LocalStep DEF Fits, LocksInv, TypeOK, At

\* The directory of a claim stays, so that its maker never finds it gone.
LEMMA CreateLocks ==
  ASSUME LocksInv, NEW p \in Procs, CreateOwner(p)
  PROVE  LocksInv'
  <1>. DEFINE l == proc[p].lock
  <1>1. /\ At(p, "own") /\ l \in Locks
        /\ UNCHANGED <<dir, claim, expired, target, previous>>
    BY DEF CreateOwner, fileVars, LocksInv, TypeOK, ProcType
  <1>2. p # "none" /\ claim[l] = p /\ dir[l] = "dir" /\ Live(l) = {} /\ p \notin expired[l] /\ ~proc[p].got
    BY <1>1, StorageAssumption
    DEF LocksInv, LockFits, Fits, ClaimFits, OwnerFits, StageFits, Acquiring, Claiming, Owned, At
  <1>3. owners' = [owners EXCEPT ![l] = @ \cup {p}] /\ Become(p, "verify")
    BY <1>2 DEF CreateOwner
  <1>4. /\ Moved(p) /\ proc'[p].pc = "verify" /\ proc'[p].lock = l
        /\ proc'[p].got = proc[p].got
    BY <1>3, MovedPc DEF LocksInv, Pcs, Acquiring
  <1>5. /\ owners' \in [Locks -> SUBSET Procs] /\ owners'[l] = owners[l] \cup {p}
        /\ \A k \in Locks \ {l} : owners'[k] = owners[k]
    BY <1>1, <1>3 DEF LocksInv, TypeOK
  <1>6. TypeOK'
    BY <1>1, <1>4, <1>5 DEF LocksInv, TypeOK, Moved
  <1>7. \A k \in Locks : LockFits(k)'
    BY <1>1, <1>2, <1>5 DEF LocksInv, LockFits, Live
  <1>8. StageFits(p)'
    BY <1>1, <1>2, <1>4 DEF LocksInv, Fits, StageFits, At, Reading, Replacing,
       Acquiring, Over
  <1>9. ClaimFits(p)' /\ OwnerFits(p)'
    BY <1>1, <1>2, <1>4, <1>5 DEF LocksInv, Fits, ClaimFits, OwnerFits, Owning, Holds, Updating, Over,
       Claiming, At
  <1>10. ASSUME NEW q \in Procs \ {p}
         PROVE  ClaimFits(q)' /\ OwnerFits(q)'
    <2>1. proc'[q] = proc[q] /\ Fits(q)
      BY <1>4 DEF Moved, Others, LocksInv
    <2>2. ClaimFits(q)'
      BY <1>1, <2>1 DEF Fits, ClaimFits, At
    <2>3. At(q, "own") => proc[q].lock # l
      BY <1>1, <1>2, <2>1 DEF Fits, ClaimFits, Claiming, At
    <2>. QED BY <1>1, <1>5, <2>1, <2>2, <2>3 DEF Fits, OwnerFits, Owning, Holds, Owned, Live, At
  <1>. QED BY <1>4, <1>6, <1>7, <1>8, <1>9, <1>10, SharedStep DEF Fits

LEMMA VerifyLocks ==
  ASSUME LocksInv, NEW p \in Procs, Verify(p)
  PROVE  LocksInv'
  <1>. DEFINE l == proc[p].lock
  <1>1. /\ At(p, "verify") /\ l \in Locks
        /\ UNCHANGED <<dir, claim, target, previous>>
    BY DEF Verify, fileVars, LocksInv, TypeOK, ProcType
  <1>2. PICK g \in BOOLEAN :
          /\ g = Current(l, p)
          /\ proc' = [proc EXCEPT ![p].pc = "unclaim", ![p].got = g, ![p].winner = FALSE]
    BY DEF Verify, Current
  <1>3. /\ Moved(p) /\ proc'[p].pc = "unclaim" /\ proc'[p].lock = l
        /\ proc'[p].got = g
    BY <1>2, MovedGot DEF LocksInv, Pcs, Acquiring
  <1>4. /\ owners' \in [Locks -> SUBSET Procs] /\ expired' \in [Locks -> SUBSET Procs]
        /\ g => p \in owners[l] /\ owners'[l] = owners[l] /\ expired'[l] = expired[l]
        /\ ~g => owners'[l] = owners[l] \ ({p} \cup expired[l]) /\ expired'[l] = {}
        /\ \A k \in Locks \ {l} : owners'[k] = owners[k] /\ expired'[k] = expired[k]
    <2>1. CASE g
      BY <1>1, <1>2, <2>1 DEF LocksInv, TypeOK, Verify, Current, Live
    <2>2. CASE ~g
      BY <1>1, <1>2, <2>2 DEF LocksInv, TypeOK, Verify
    <2>. QED BY <2>1, <2>2
  <1>5. TypeOK'
    BY <1>1, <1>3, <1>4 DEF LocksInv, TypeOK, Moved
  <1>6. \A k \in Locks : LockFits(k)'
    BY <1>1, <1>4 DEF LocksInv, LockFits, Live
  <1>7. StageFits(p)'
    BY <1>1, <1>3 DEF LocksInv, Fits, StageFits, At, Reading, Replacing,
       Acquiring, Over
  <1>8. ClaimFits(p)'
    BY <1>1, <1>3 DEF LocksInv, Fits, ClaimFits, Claiming, At
  <1>9. OwnerFits(p)'
    BY <1>1, <1>3, <1>4 DEF LocksInv, Fits, OwnerFits, Owning, Holds, Updating, Over, At
  <1>10. ASSUME NEW q \in Procs \ {p}
         PROVE  ClaimFits(q)' /\ OwnerFits(q)'
    <2>1. proc'[q] = proc[q] /\ Fits(q)
      BY <1>3 DEF Moved, Others, LocksInv
    <2>2. ClaimFits(q)'
      BY <1>1, <2>1 DEF Fits, ClaimFits, At
    <2>3. \A k \in Locks :
            /\ owners'[k] \subseteq owners[k] /\ expired'[k] \subseteq expired[k]
            /\ Live(k)' \subseteq Live(k)
            /\ q \in owners[k] => q \in owners'[k] \/ At(q, "dead")
      BY <1>4, <2>1 DEF Fits, OwnerFits, Live, LocksInv
    <2>. QED BY <2>1, <2>2, <2>3 DEF Fits, OwnerFits, Owning, Holds, Updating, Over, Owned, At
  <1>. QED BY <1>3, <1>5, <1>6, <1>7, <1>8, <1>9, <1>10, SharedStep DEF Fits

LEMMA UnclaimLocks ==
  ASSUME LocksInv, NEW p \in Procs, Unclaim(p)
  PROVE  LocksInv'
  <1>. DEFINE l == proc[p].lock
  <1>1. /\ At(p, "unclaim") /\ l \in Locks /\ p \notin Readers
        /\ UNCHANGED <<dir, owners, expired, target, previous>>
    BY DEF Unclaim, fileVars, LocksInv, TypeOK, ProcType, Fits, StageFits, At
  <1>2. /\ Moved(p) /\ proc'[p].lock = l /\ proc'[p].got = proc[p].got
        /\ IF proc[p].got THEN proc'[p].pc = IF l = "lock" THEN "read" ELSE "recover"
           ELSE proc'[p].pc = "draw" \/ (proc'[p].pc = "refused" /\ l = "lock")
    <2>1. CASE proc[p].got
      <3>1. PICK pc \in Pcs : pc = (IF l = "lock" THEN "read" ELSE "recover") /\ Become(p, pc)
        BY <2>1 DEF Unclaim, Pcs, Reading, Replacing
      <3>. QED BY <2>1, <3>1, MovedPc DEF LocksInv
    <2>2. CASE ~proc[p].got
      BY <1>1, <2>2, FailMoves DEF Unclaim, Acquiring, At
    <2>. QED BY <2>1, <2>2
  <1>3. /\ claim' \in [Locks -> Procs \cup {"none"}] /\ claim'[l] = "none" /\ claim[l] = p
        /\ \A k \in Locks \ {l} : claim'[k] = claim[k]
    BY <1>1 DEF Unclaim, LocksInv, TypeOK, Fits, ClaimFits, Claiming, At
  <1>4. TypeOK' /\ \A k \in Locks : LockFits(k)'
    BY <1>1, <1>2, <1>3 DEF LocksInv, TypeOK, Moved, LockFits, Live
  <1>5. StageFits(p)'
    BY <1>1, <1>2 DEF Locks, StageFits, At, Reading, Replacing,
       Acquiring, Over
  <1>6. ClaimFits(p)'
    BY <1>1, <1>2, <1>3, StorageAssumption DEF LocksInv, Fits, ClaimFits, Claiming, At
  <1>7. OwnerFits(p)'
    <2>1. /\ \A k \in Locks : p \in owners[k] => Holds(p, k)
          /\ \A k \in Locks : Holds(p, k) => p \in owners[k]
          /\ \A k \in Locks : p \notin expired[k]
      BY <1>1 DEF LocksInv, Fits, OwnerFits, Owning, At
    <2>2. \A k \in Locks : Holds(p, k)' <=> Holds(p, k)
      BY <1>1, <1>2 DEF Holds, Updating, Over, Locks, At
    <2>. QED BY <1>1, <1>2, <2>1, <2>2 DEF OwnerFits, Owning, At
  <1>8. ASSUME NEW q \in Procs \ {p}
        PROVE  ClaimFits(q)' /\ OwnerFits(q)'
    <2>1. proc'[q] = proc[q] /\ Fits(q) /\ q # "none"
      BY <1>2, StorageAssumption DEF Moved, Others, LocksInv
    <2>2. ClaimFits(q)'
      BY <1>1, <1>3, <2>1 DEF Fits, ClaimFits, Claiming, At
    <2>. QED BY <1>1, <2>1, <2>2 DEF Fits, OwnerFits, Owning, Holds, Owned, Live, At
  <1>. QED BY <1>2, <1>4, <1>5, <1>6, <1>7, <1>8, SharedStep DEF Fits

\* While a process updates the file it keeps the locks it holds.
LEMMA UpdateLocks ==
  ASSUME LocksInv, NEW p \in Procs, Moved(p), p \notin Readers,
         \/ proc[p].pc \in Reading /\ proc'[p].pc \in Reading \cup {"release"}
         \/ proc[p].pc \in Replacing /\ proc'[p].pc \in Replacing \cup {"release"},
         proc'[p].lock = proc[p].lock, proc'[p].got = proc[p].got,
         target' \in Files, previous' \in Files,
         UNCHANGED <<dir, claim, owners, expired>>
  PROVE  LocksInv'
  <1>1. /\ proc[p].got /\ ~At(p, "dead")
        /\ proc[p].lock = IF proc[p].pc \in Reading THEN "lock" ELSE "write.lock"
    BY DEF LocksInv, Fits, StageFits, Reading, Replacing, At
  <1>2. StageFits(p)'
    BY <1>1 DEF StageFits, At, Reading, Replacing, Acquiring, Over
  <1>3. ClaimFits(p)'
    BY DEF LocksInv, Fits, ClaimFits, Claiming, Reading, Replacing, At
  <1>4. OwnerFits(p)'
    BY <1>1 DEF LocksInv, Fits, OwnerFits, Owning, Holds, Updating, Reading, Replacing, Over, At
  <1>. QED BY <1>1, <1>2, <1>3, <1>4, LocalStep DEF Fits

LEMMA ReadingLocks ==
  ASSUME LocksInv, NEW p \in Readers, Moved(p),
         proc'[p].pc \in {"start", "read", "fallback", "returned"},
         proc'[p].lock = proc[p].lock, proc'[p].got = proc[p].got,
         UNCHANGED <<dir, claim, owners, expired, target, previous>>
  PROVE  LocksInv'
  <1>1. /\ p \in Procs /\ ~proc[p].got /\ proc[p].lock = "lock"
        /\ proc[p].pc \in {"start", "read", "fallback", "returned"}
    BY DEF LocksInv, Fits, StageFits, Procs
  <1>2. StageFits(p)'
    BY <1>1 DEF StageFits, At, Reading, Replacing, Acquiring, Over
  <1>3. ClaimFits(p)' /\ OwnerFits(p)'
    BY <1>1 DEF LocksInv, Fits, ClaimFits, Claiming, OwnerFits, Owning, Holds, At
  <1>. QED BY <1>1, <1>2, <1>3, LocalStep DEF Fits, LocksInv, TypeOK, At

LEMMA ReadVersionMoves ==
  ASSUME LocksInv, NEW p \in Procs, ReadVersion(p)
  PROVE  /\ Moved(p) /\ p \in Swappers /\ At(p, "read")
         /\ proc'[p].lock = proc[p].lock /\ proc'[p].got = proc[p].got
         /\ \/ target = <<{}>> /\ proc'[p].pc = "assert" /\ proc'[p].seen = target
            \/ proc'[p].pc = "release" /\ proc'[p].failed
         /\ UNCHANGED <<dir, claim, owners, expired, target, previous>>
  <1>1. /\ p \in Swappers /\ At(p, "read") /\ target \in Files
        /\ UNCHANGED <<dir, claim, owners, expired, target, previous>>
    BY DEF ReadVersion, lockVars, fileVars, LocksInv, TypeOK
  <1>2. CASE target = <<{}>>
    <2>1. proc' = [proc EXCEPT ![p].seen = target, ![p].pc = "assert"]
      BY <1>2, Zenon DEF ReadVersion
    <2>. QED BY <1>1, <1>2, <2>1, MovedSeen DEF LocksInv, Pcs, Reading
  <1>3. CASE target # <<{}>>
    <2>1. proc' = [proc EXCEPT ![p].pc = "release", ![p].failed = TRUE]
      BY <1>3, Zenon DEF ReadVersion
    <2>. QED BY <1>1, <2>1, MovedFailed DEF LocksInv, Pcs, Leaving
  <1>. QED BY <1>2, <1>3

LEMMA FoundMoves ==
  ASSUME LocksInv, NEW p \in Procs, NEW f \in Files, Found(p, f)
  PROVE  /\ Moved(p)
         /\ p \in Readers => /\ proc'[p].pc = "returned" /\ proc'[p].lock = "lock"
                             /\ ~proc'[p].got /\ (proc'[p].seen = Absent => f = Absent)
         /\ p \notin Readers => /\ proc'[p].pc = "assert" /\ proc'[p].seen = f
                                /\ proc'[p].lock = proc[p].lock /\ proc'[p].got = proc[p].got
  <1>1. TypeOK
    BY DEF LocksInv
  <1>2. CASE p \in Readers
    <2>1. PICK g \in Files : End(p, "returned", g) /\ (g = Absent => f = Absent)
      BY <1>2 DEF Found, Files, Contents, Absent
    <2>. QED BY <1>1, <1>2, <2>1, MovedEnd DEF Pcs, Over
  <1>3. CASE p \notin Readers
    <2>1. proc' = [proc EXCEPT ![p].seen = f, ![p].pc = "assert"]
      BY <1>3 DEF Found
    <2>. QED BY <1>1, <1>3, <2>1, MovedSeen DEF Pcs, Reading
  <1>. QED BY <1>2, <1>3

LEMMA ReadTargetMoves ==
  ASSUME LocksInv, NEW p \in Procs, ReadTarget(p)
  PROVE  /\ Moved(p) /\ p \in Writers \cup Readers
         /\ At(p, "read") \/ (p \in Readers /\ At(p, "start"))
         /\ proc'[p].lock = proc[p].lock /\ proc'[p].got = proc[p].got
         /\ \/ target = Absent /\ proc'[p].pc = "fallback" /\ proc'[p].tries = proc[p].tries
            \/ target # Absent /\ p \in Readers /\ proc'[p].pc = "returned" /\ proc'[p].seen # Absent
            \/ target # Absent /\ p \notin Readers /\ proc'[p].pc = "assert" /\ proc'[p].seen = target
         /\ UNCHANGED <<dir, claim, owners, expired, target, previous>>
  <1>1. /\ p \in Writers \cup Readers /\ target \in Files /\ TypeOK
        /\ At(p, "read") \/ (p \in Readers /\ At(p, "start"))
        /\ UNCHANGED <<dir, claim, owners, expired, target, previous>>
    BY DEF ReadTarget, lockVars, fileVars, LocksInv, TypeOK
  <1>2. p \in Readers => proc[p].lock = "lock" /\ proc[p].got = FALSE
    BY DEF LocksInv, Fits, StageFits, TypeOK, ProcType
  <1>3. CASE target = Absent
    BY <1>1, <1>3, MovedPc DEF ReadTarget, Pcs, Reading
  <1>4. CASE target # Absent
    <2>1. Found(p, target)
      BY <1>4 DEF ReadTarget
    <2>2. Moved(p) => proc'[p].got \in BOOLEAN
      BY DEF Moved, ProcType
    <2>. QED BY <1>1, <1>2, <1>4, <2>1, <2>2, FoundMoves
  <1>. QED BY <1>3, <1>4

LEMMA ReadPreviousMoves ==
  ASSUME LocksInv, NEW p \in Procs, ReadPrevious(p)
  PROVE  /\ Moved(p) /\ At(p, "fallback")
         /\ proc'[p].lock = proc[p].lock /\ proc'[p].got = proc[p].got
         /\ \/ /\ previous = Absent /\ proc'[p].pc = "read"
               /\ proc'[p].tries = proc[p].tries + 1
            \/ /\ previous # Absent \/ Fallbacks <= proc[p].tries + 1
               /\ \/ p \in Readers /\ proc'[p].pc = "returned" /\ (proc'[p].seen = Absent => previous = Absent)
                  \/ p \notin Readers /\ proc'[p].pc = "assert" /\ proc'[p].seen = previous
         /\ UNCHANGED <<dir, claim, owners, expired, target, previous>>
  <1>1. /\ previous \in Files /\ TypeOK /\ proc[p].tries \in Nat
        /\ At(p, "fallback")
        /\ UNCHANGED <<dir, claim, owners, expired, target, previous>>
    BY DEF ReadPrevious, lockVars, fileVars, LocksInv, TypeOK, ProcType
  <1>2. p \in Readers => proc[p].lock = "lock" /\ proc[p].got = FALSE
    BY DEF LocksInv, Fits, StageFits, TypeOK, ProcType
  <1>3. CASE previous = Absent /\ proc[p].tries + 1 < Fallbacks
    <2>1. proc' = [proc EXCEPT ![p].tries = @ + 1, ![p].pc = "read"]
      BY <1>3, Zenon DEF ReadPrevious
    <2>. QED BY <1>1, <1>3, <2>1, MovedTries DEF Pcs, Reading
  <1>4. CASE ~(previous = Absent /\ proc[p].tries + 1 < Fallbacks)
    <2>1. Found(p, previous)
      BY <1>4, Zenon DEF ReadPrevious
    <2>2. Moved(p) => proc'[p].got \in BOOLEAN
      BY DEF Moved, ProcType
    <2>3. previous # Absent \/ Fallbacks <= proc[p].tries + 1
      BY <1>1, <1>4 DEF Fallbacks
    <2>. QED BY <1>1, <1>2, <2>1, <2>2, <2>3, FoundMoves
  <1>. QED BY <1>3, <1>4

LEMMA ReadLocks ==
  ASSUME LocksInv, NEW p \in Procs, ReadVersion(p) \/ ReadTarget(p) \/ ReadPrevious(p)
  PROVE  LocksInv'
  <1>1. target \in Files /\ previous \in Files /\ Readers \cap Swappers = {}
    BY StorageAssumption DEF LocksInv, TypeOK
  <1>2. CASE ReadVersion(p)
    BY <1>1, <1>2, ReadVersionMoves, UpdateLocks DEF Reading, At
  <1>3. CASE ReadTarget(p)
    <2>1. CASE p \in Readers
      BY <1>3, <2>1, ReadTargetMoves, ReadingLocks DEF At
    <2>2. CASE p \notin Readers
      BY <1>1, <1>3, <2>2, ReadTargetMoves, UpdateLocks DEF Reading, At
    <2>. QED BY <2>1, <2>2
  <1>4. CASE ReadPrevious(p)
    <2>1. CASE p \in Readers
      BY <1>4, <2>1, ReadPreviousMoves, ReadingLocks DEF At
    <2>2. CASE p \notin Readers
      BY <1>1, <1>4, <2>2, ReadPreviousMoves, UpdateLocks DEF Reading, At
    <2>. QED BY <2>1, <2>2
  <1>. QED BY <1>2, <1>3, <1>4

\* The inner lock is begun with under the outer one.
LEMMA AssertMoves ==
  ASSUME LocksInv, NEW p \in Procs, AssertOwner(p)
  PROVE  /\ Moved(p) /\ At(p, "assert") /\ p \notin Readers
         /\ proc'[p].got = proc[p].got /\ proc'[p].seen = proc[p].seen
         /\ \/ proc'[p].pc = "draw" /\ proc'[p].lock = "write.lock"
            \/ proc'[p].pc = "release" /\ proc'[p].lock = proc[p].lock /\ proc'[p].failed
         /\ UNCHANGED <<dir, claim, owners, expired, target, previous>>
  <1>1. /\ At(p, "assert") /\ p \notin Readers
        /\ UNCHANGED <<dir, claim, owners, expired, target, previous>>
    BY DEF AssertOwner, lockVars, fileVars, LocksInv, Fits, StageFits, At
  <1>2. CASE Current("lock", p)
    <2>1. proc' = [proc EXCEPT ![p].pc = "draw", ![p].lock = "write.lock"]
      BY <1>2, Zenon DEF AssertOwner, TakeInner
    <2>. QED BY <1>1, <2>1, MovedLock DEF LocksInv, Pcs, Acquiring, Locks
  <1>3. CASE ~Current("lock", p)
    <2>1. proc' = [proc EXCEPT ![p].pc = "release", ![p].failed = TRUE]
      BY <1>3, Zenon DEF AssertOwner
    <2>. QED BY <1>1, <2>1, MovedFailed DEF LocksInv, Pcs, Leaving
  <1>. QED BY <1>2, <1>3

LEMMA AssertLocks ==
  ASSUME LocksInv, NEW p \in Procs, AssertOwner(p)
  PROVE  LocksInv'
  <1>1. /\ At(p, "assert") /\ p \notin Readers /\ proc[p].got /\ proc[p].lock = "lock"
        /\ target \in Files /\ previous \in Files
    BY AssertMoves DEF LocksInv, TypeOK, Fits, StageFits, Reading, At
  <1>2. CASE proc'[p].pc = "release" /\ proc'[p].lock = proc[p].lock
    BY <1>1, <1>2, AssertMoves, UpdateLocks DEF Reading, At
  <1>3. CASE proc'[p].pc = "draw" /\ proc'[p].lock = "write.lock"
    <2>1. StageFits(p)'
      BY <1>1, <1>3 DEF StageFits, At, Reading, Replacing, Acquiring, Over
    <2>2. ClaimFits(p)'
      BY <1>1, <1>3, AssertMoves DEF LocksInv, Fits, ClaimFits, Claiming, At
    <2>3. OwnerFits(p)'
      BY <1>1, <1>3, AssertMoves DEF LocksInv, Fits, OwnerFits, Owning, Holds, Updating, Over, At
    <2>. QED BY <1>1, <2>1, <2>2, <2>3, AssertMoves, LocalStep DEF Fits, At
  <1>. QED BY <1>2, <1>3, AssertMoves

\* The replacement of the file.
LEMMA ContentType ==
  ASSUME LocksInv, NEW p \in Procs, p \notin Readers
  PROVE  /\ p \in Updaters /\ Content(p) \in Files /\ Content(p) # Absent
         /\ p \in Index(Content(p))
         /\ p \in Writers => Index(proc[p].seen) \subseteq Index(Content(p))
  <1>1. p \in Updaters
    BY DEF Procs, Updaters
  <1>2. Index(proc[p].seen) \in Contents
    BY DEF LocksInv, TypeOK, ProcType, Files, Contents, Index, Absent
  <1>3. Writers \cap Swappers = {}
    BY StorageAssumption
  <1>4. PICK c \in Contents : /\ Content(p) = <<c>> /\ p \in c
                              /\ p \in Writers => Index(proc[p].seen) \subseteq c
    BY <1>1, <1>2, <1>3 DEF Content, Contents, Updaters
  <1>. QED BY <1>1, <1>4 DEF Files, Index, Absent

LEMMA LostMoves ==
  ASSUME LocksInv, NEW p \in Procs, Lost(p)
  PROVE  /\ Moved(p) /\ proc'[p].pc = "release" /\ proc'[p].failed
         /\ proc'[p].lock = proc[p].lock /\ proc'[p].got = proc[p].got
         /\ proc'[p].seen = proc[p].seen
  BY MovedFailed DEF Lost, LocksInv, Pcs, Leaving

Replaces(p) ==
  \/ /\ At(p, "recover") /\ proc'[p].pc = "rename" /\ target' = Visible /\ previous' = Absent
  \/ /\ At(p, "rename") /\ proc'[p].pc = "release" /\ target' = Content(p) /\ previous' = previous
  \/ /\ At(p, "rename") /\ proc'[p].pc = "move"
     /\ target # Absent /\ target' = target /\ previous' = Absent
  \/ /\ At(p, "move") /\ proc'[p].pc = "put"
     /\ target # Absent /\ target' = Absent /\ previous' = target
  \/ /\ At(p, "put") /\ proc'[p].pc = "tidy" /\ target' = Content(p) /\ previous' = previous
  \/ /\ At(p, "put") /\ proc'[p].pc = "release" /\ proc'[p].failed
     /\ target' = Visible /\ previous' = IF target = Absent THEN Absent ELSE previous
  \/ /\ At(p, "tidy") /\ proc'[p].pc = "release" /\ target' = target /\ previous' = Absent
  \/ /\ proc[p].pc \in {"rename", "move"} /\ proc'[p].pc = "release" /\ proc'[p].failed
     /\ UNCHANGED <<target, previous>>

LEMMA ReplaceMoves ==
  ASSUME LocksInv, NEW p \in Procs,
         Recover(p) \/ Rename(p) \/ MoveAway(p) \/ PutNew(p) \/ Tidy(p)
  PROVE  /\ Moved(p) /\ p \notin Readers /\ proc[p].pc \in Replacing
         /\ proc'[p].lock = proc[p].lock /\ proc'[p].got = proc[p].got
         /\ proc'[p].seen = proc[p].seen
         /\ Replaces(p)
         /\ UNCHANGED <<dir, claim, owners, expired>>
  <1>1. /\ proc[p].pc \in Replacing /\ UNCHANGED <<dir, claim, owners, expired>>
    BY DEF Recover, Rename, MoveAway, PutNew, Tidy, At, Replacing, lockVars
  <1>2. p \notin Readers
    BY <1>1 DEF LocksInv, Fits, StageFits, Replacing
  <1>3. ASSUME NEW pc \in {"rename", "release", "move", "put", "tidy"}, Become(p, pc)
        PROVE  /\ Moved(p) /\ proc'[p].pc = pc
               /\ proc'[p].lock = proc[p].lock /\ proc'[p].got = proc[p].got
               /\ proc'[p].seen = proc[p].seen
    <2>1. pc \in Pcs
      BY DEF Pcs, Replacing, Leaving
    <2>. QED BY <1>3, <2>1, MovedPc DEF LocksInv
  <1>4. CASE Recover(p)
    BY <1>1, <1>2, <1>3, <1>4 DEF Recover, Replaces
  <1>5. CASE Rename(p)
    <2>1. CASE Lost(p) /\ UNCHANGED fileVars
      BY <1>1, <1>2, <1>5, <2>1, LostMoves DEF Replaces, Rename, fileVars, At
    <2>2. CASE target' = Content(p) /\ UNCHANGED previous /\ Become(p, "release")
      BY <1>1, <1>2, <1>3, <1>5, <2>2 DEF Rename, Replaces
    <2>3. CASE target # Absent /\ previous' = Absent /\ UNCHANGED target /\ Become(p, "move")
      BY <1>1, <1>2, <1>3, <1>5, <2>3 DEF Rename, Replaces
    <2>. QED BY <1>5, <2>1, <2>2, <2>3 DEF Rename
  <1>6. CASE MoveAway(p)
    <2>1. CASE Lost(p) /\ UNCHANGED fileVars
      BY <1>1, <1>2, <1>6, <2>1, LostMoves DEF Replaces, MoveAway, fileVars, At
    <2>2. CASE target # Absent /\ previous' = target /\ target' = Absent /\ Become(p, "put")
      BY <1>1, <1>2, <1>3, <1>6, <2>2 DEF MoveAway, Replaces
    <2>. QED BY <1>6, <2>1, <2>2 DEF MoveAway
  <1>7. CASE PutNew(p)
    <2>1. CASE target' = Content(p) /\ UNCHANGED previous /\ Become(p, "tidy")
      BY <1>1, <1>2, <1>3, <1>7, <2>1 DEF PutNew, Replaces
    <2>2. CASE /\ target' = IF target = Absent THEN previous ELSE target
               /\ previous' = IF target = Absent THEN Absent ELSE previous
               /\ Lost(p)
      BY <1>1, <1>2, <1>7, <2>2, LostMoves DEF PutNew, Replaces, Visible
    <2>. QED BY <1>7, <2>1, <2>2 DEF PutNew
  <1>8. CASE Tidy(p)
    BY <1>1, <1>2, <1>3, <1>8 DEF Tidy, Replaces
  <1>. QED BY <1>4, <1>5, <1>6, <1>7, <1>8

LEMMA ReplaceLocks ==
  ASSUME LocksInv, NEW p \in Procs,
         Recover(p) \/ Rename(p) \/ MoveAway(p) \/ PutNew(p) \/ Tidy(p)
  PROVE  LocksInv'
  <1>1. /\ Moved(p) /\ p \notin Readers /\ proc[p].pc \in Replacing
        /\ proc'[p].lock = proc[p].lock /\ proc'[p].got = proc[p].got
        /\ Replaces(p)
        /\ UNCHANGED <<dir, claim, owners, expired>>
    BY ReplaceMoves
  <1>2. target \in Files /\ previous \in Files /\ Absent \in Files /\ Content(p) \in Files
    BY <1>1, ContentType DEF LocksInv, TypeOK, Files
  <1>3. target' \in Files /\ previous' \in Files
    BY <1>1, <1>2 DEF Replaces, Visible
  <1>4. proc'[p].pc \in Replacing \cup {"release"}
    BY <1>1 DEF Replaces, Replacing
  <1>. QED BY <1>1, <1>3, <1>4, UpdateLocks

\* The release of a lock.
LEMMA ReleaseLocks ==
  ASSUME LocksInv, NEW p \in Procs, ReleaseOwner(p)
  PROVE  LocksInv'
  <1>. DEFINE l == proc[p].lock
  <1>1. /\ At(p, "release") /\ l \in Locks /\ p \notin Readers
        /\ UNCHANGED <<dir, claim, target, previous>>
    BY DEF ReleaseOwner, fileVars, LocksInv, TypeOK, ProcType, Fits, StageFits, At
  <1>2. /\ Moved(p) /\ proc'[p].pc = "list" /\ proc'[p].lock = l
        /\ proc'[p].got = proc[p].got
    BY MovedPc DEF ReleaseOwner, LocksInv, Pcs, Leaving
  <1>3. /\ owners' \in [Locks -> SUBSET Procs] /\ expired' \in [Locks -> SUBSET Procs]
        /\ owners'[l] = owners[l] \ ({p} \cup expired[l]) /\ expired'[l] = {}
        /\ \A k \in Locks \ {l} : owners'[k] = owners[k] /\ expired'[k] = expired[k]
    BY <1>1 DEF LocksInv, TypeOK, ReleaseOwner
  <1>4. TypeOK' /\ \A k \in Locks : LockFits(k)'
    BY <1>1, <1>2, <1>3 DEF LocksInv, TypeOK, Moved, LockFits, Live
  <1>5. StageFits(p)'
    BY <1>1, <1>2 DEF StageFits, At, Reading, Replacing, Acquiring, Over
  <1>6. ClaimFits(p)' /\ OwnerFits(p)'
    BY <1>1, <1>2, <1>3 DEF LocksInv, Fits, ClaimFits, Claiming, OwnerFits, Owning, Holds, Updating, Over, At
  <1>7. ASSUME NEW q \in Procs \ {p}
        PROVE  ClaimFits(q)' /\ OwnerFits(q)'
    <2>1. proc'[q] = proc[q] /\ Fits(q)
      BY <1>2 DEF Moved, Others, LocksInv
    <2>2. ClaimFits(q)'
      BY <1>1, <2>1 DEF Fits, ClaimFits, At
    <2>3. \A k \in Locks :
            /\ owners'[k] \subseteq owners[k] /\ expired'[k] \subseteq expired[k]
            /\ Live(k)' \subseteq Live(k)
            /\ q \in owners[k] => q \in owners'[k] \/ At(q, "dead")
      BY <1>3, <2>1 DEF Fits, OwnerFits, Live, LocksInv
    <2>. QED BY <2>1, <2>2, <2>3 DEF Fits, OwnerFits, Owning, Holds, Updating, Over, Owned, At
  <1>. QED BY <1>2, <1>4, <1>5, <1>6, <1>7, SharedStep DEF Fits

\* The pc moves among those of a process that has released its owner file.
LEMMA LeavingLocks ==
  ASSUME LocksInv, NEW p \in Procs, Moved(p), proc[p].pc \in {"list", "remove", "left"},
         \/ proc'[p].pc \in {"remove", "left"} /\ proc'[p].lock = proc[p].lock
         \/ proc[p].lock = "write.lock" /\ proc'[p].pc = "release" /\ proc'[p].lock = "lock"
         \/ /\ proc[p].lock = "lock" /\ proc'[p].pc \in {"returned", "refused", "thrown"}
            /\ proc'[p].lock = "lock",
         UNCHANGED <<claim, owners, expired>>
  PROVE  Fits(p)' /\ ~At(p, "dead")
  <1>1. p \notin Readers
    BY DEF LocksInv, Fits, StageFits
  <1>2. StageFits(p)'
    BY <1>1 DEF StageFits, At, Reading, Replacing, Acquiring, Over
  <1>3. ClaimFits(p)'
    BY DEF LocksInv, Fits, ClaimFits, Claiming, At
  <1>4. OwnerFits(p)'
    BY DEF LocksInv, Fits, OwnerFits, Owning, Holds, Updating, Over, At
  <1>. QED BY <1>2, <1>3, <1>4 DEF Fits, At

LEMMA ListMoves ==
  ASSUME LocksInv, NEW p \in Procs, ListLock(p)
  PROVE  /\ Moved(p) /\ At(p, "list") /\ p \notin Readers
         /\ proc'[p].lock = proc[p].lock /\ proc'[p].got = proc[p].got
         /\ proc'[p].seen = proc[p].seen /\ proc'[p].failed = proc[p].failed
         /\ \/ proc'[p].pc = "remove"
            \/ proc'[p].pc = "left" /\ (dir[proc[p].lock] # "dir" \/ ~Empty(proc[p].lock))
         /\ UNCHANGED <<dir, claim, owners, expired, target, previous>>
  <1>1. PICK pc \in Pcs :
          /\ pc = "remove" \/ (pc = "left" /\ (dir[proc[p].lock] # "dir" \/ ~Empty(proc[p].lock)))
          /\ Become(p, pc)
    BY DEF ListLock, Pcs, Leaving
  <1>2. /\ At(p, "list") /\ p \notin Readers
        /\ UNCHANGED <<dir, claim, owners, expired, target, previous>>
    BY DEF ListLock, lockVars, fileVars, LocksInv, Fits, StageFits, At
  <1>. QED BY <1>1, <1>2, MovedPc DEF LocksInv

LEMMA LeaveMoves ==
  ASSUME LocksInv, NEW p \in Procs, Leave(p)
  PROVE  /\ Moved(p) /\ At(p, "left") /\ p \notin Readers
         /\ \/ /\ proc[p].lock = "write.lock" /\ proc'[p].pc = "release" /\ proc'[p].lock = "lock"
               /\ proc'[p].seen = proc[p].seen /\ proc'[p].failed = proc[p].failed
            \/ /\ proc[p].lock = "lock" /\ proc'[p].lock = "lock"
               /\ \/ proc'[p].pc = "returned" /\ ~proc[p].failed
                  \/ proc'[p].pc \in {"refused", "thrown"}
         /\ UNCHANGED <<dir, claim, owners, expired, target, previous>>
  <1>1. /\ At(p, "left") /\ p \notin Readers
        /\ UNCHANGED <<dir, claim, owners, expired, target, previous>>
    BY DEF Leave, lockVars, fileVars, LocksInv, Fits, StageFits, At
  <1>2. CASE proc[p].lock = "write.lock"
    <2>1. proc' = [proc EXCEPT ![p].pc = "release", ![p].lock = "lock"]
      BY <1>2, Zenon DEF Leave
    <2>. QED BY <1>1, <1>2, <2>1, MovedLock DEF LocksInv, Pcs, Leaving, Locks
  <1>3. CASE proc[p].lock # "write.lock"
    <2>1. PICK pc \in {"returned", "refused", "thrown"} :
            End(p, pc, Absent) /\ (pc = "returned" => ~proc[p].failed)
      BY <1>3 DEF Leave
    <2>2. pc \in Pcs /\ Absent \in Files /\ proc[p].lock = "lock"
      BY <1>3 DEF Pcs, Over, Files, LocksInv, TypeOK, ProcType, Locks
    <2>. QED BY <1>1, <2>1, <2>2, MovedEnd DEF LocksInv
  <1>. QED BY <1>2, <1>3

LEMMA LeaveLocks ==
  ASSUME LocksInv, NEW p \in Procs, ListLock(p) \/ Leave(p)
  PROVE  LocksInv'
  <1>1. target \in Files /\ previous \in Files
    BY DEF LocksInv, TypeOK
  <1>2. CASE ListLock(p)
    BY <1>1, <1>2, ListMoves, LeavingLocks, LocalStep DEF At
  <1>3. CASE Leave(p)
    BY <1>1, <1>3, LeaveMoves, LeavingLocks, LocalStep DEF At
  <1>. QED BY <1>2, <1>3

\* The directory is only removed if it is empty: nobody relies on it.
LEMMA RemoveLocks ==
  ASSUME LocksInv, NEW p \in Procs, RemoveDirectory(p)
  PROVE  LocksInv'
  <1>. DEFINE l == proc[p].lock
  <1>1. /\ At(p, "remove") /\ l \in Locks
        /\ UNCHANGED <<claim, owners, expired, target, previous>>
    BY DEF RemoveDirectory, fileVars, LocksInv, TypeOK, ProcType
  <1>2. Moved(p) /\ proc'[p].pc = "left" /\ proc'[p].lock = l
    BY MovedPc DEF RemoveDirectory, LocksInv, Pcs, Leaving
  <1>3. /\ dir' \in [Locks -> {"absent", "dir", "file"}]
        /\ \A k \in Locks : dir'[k] = dir[k] \/ Empty(k)
    BY <1>1 DEF RemoveDirectory, LocksInv, TypeOK
  <1>4. TypeOK' /\ \A k \in Locks : LockFits(k)'
    BY <1>1, <1>2, <1>3 DEF LocksInv, TypeOK, Moved, LockFits, Live, Empty
  <1>5. Fits(p)'
    BY <1>1, <1>2, LeavingLocks DEF At
  <1>6. \A q \in Procs \ {p} : ClaimFits(q)' /\ OwnerFits(q)'
    BY <1>1, <1>2 DEF LocksInv, Fits, ClaimFits, OwnerFits, Owning, Holds, Owned, Live, At, Moved, Others
  <1>. QED BY <1>2, <1>4, <1>5, <1>6, SharedStep

\* The death of a process, and the end of its leases.
LEMMA CrashMoves ==
  ASSUME LocksInv, NEW p \in Procs, Crash(p)
  PROVE  /\ Moved(p) /\ proc'[p].pc = "dead" /\ p \notin Readers
         /\ proc[p].pc \notin Over \cup {"start"}
         /\ UNCHANGED <<dir, claim, owners, expired, target, previous>>
  BY MovedEnd DEF Crash, lockVars, fileVars, LocksInv, Pcs, Over, Files

LEMMA CrashLocks ==
  ASSUME LocksInv, NEW p \in Procs, Crash(p)
  PROVE  LocksInv'
  <1>1. /\ Moved(p) /\ proc'[p].pc = "dead" /\ p \notin Readers /\ proc[p].pc \notin Over
        /\ UNCHANGED <<dir, claim, owners, expired, target, previous>>
    BY CrashMoves
  <1>2. StageFits(p)'
    BY <1>1 DEF StageFits, At, Reading, Replacing, Acquiring, Over
  <1>3. ClaimFits(p)' /\ OwnerFits(p)'
    BY <1>1 DEF LocksInv, Fits, ClaimFits, Claiming, OwnerFits, Owning, Holds, Updating, Over, At
  <1>. QED BY <1>1, <1>2, <1>3, LocalStep DEF Fits, LocksInv, TypeOK, At, Over

LEMMA ExpireLocks ==
  ASSUME LocksInv, NEW p \in Procs, Expire(p)
  PROVE  LocksInv'
  <1>1. PICK l \in Locks : p \in Live(l) /\ expired' = [expired EXCEPT ![l] = @ \cup {p}]
    BY DEF Expire
  <1>2. At(p, "dead") /\ UNCHANGED <<dir, claim, owners, target, previous, proc>>
    BY DEF Expire, fileVars
  <1>3. /\ expired' \in [Locks -> SUBSET Procs] /\ expired'[l] = expired[l] \cup {p}
        /\ \A k \in Locks \ {l} : expired'[k] = expired[k]
    BY <1>1 DEF LocksInv, TypeOK
  <1>4. TypeOK' /\ \A k \in Locks : LockFits(k)'
    BY <1>1, <1>2, <1>3 DEF LocksInv, TypeOK, LockFits, Live
  <1>5. ASSUME NEW q \in Procs
        PROVE  Fits(q)'
    <2>1. StageFits(q)' /\ ClaimFits(q)'
      BY <1>2 DEF LocksInv, Fits, StageFits, ClaimFits, At
    <2>2. OwnerFits(q)'
      BY <1>2, <1>3 DEF LocksInv, Fits, OwnerFits, Owning, Holds, Owned, Live, At
    <2>. QED BY <2>1, <2>2 DEF Fits
  <1>. QED BY <1>4, <1>5 DEF LocksInv

LEMMA InitMoves ==
  ASSUME Init
  PROVE  /\ proc \in [Procs -> ProcType]
         /\ \A p \in Procs :
              /\ proc[p].pc \in {"start", "idle"} /\ proc[p].lock = "lock"
              /\ ~proc[p].got /\ ~proc[p].winner /\ proc[p].tries = 0
              /\ p \in Readers => proc[p].pc = "start"
         /\ Apart
  <1>. DEFINE Idle == [Start EXCEPT !.pc = "idle"]
  <1>1. /\ Start \in ProcType /\ Idle \in ProcType
        /\ Start.pc = "start" /\ Idle.pc = "idle"
        /\ Start.lock = "lock" /\ Idle.lock = "lock" /\ ~Start.got /\ ~Idle.got
        /\ ~Start.winner /\ ~Idle.winner /\ Start.tries = 0 /\ Idle.tries = 0
    BY DEF Start, ProcType, Pcs, Over, Locks, Files
  <1>. HIDE DEF Idle
  <1>2. PICK users \in {Writers, Swappers} :
          proc = [p \in Procs |-> IF p \in users \cup Readers THEN Start ELSE Idle]
    BY DEF Init, Idle
  <1>3. Apart
    <2>1. \A p \in Procs \ (users \cup Readers) : At(p, "idle")
      BY <1>1, <1>2 DEF At
    <2>2. Writers \cap (Swappers \cup Readers) = {} /\ Swappers \cap Readers = {}
      BY StorageAssumption
    <2>. QED BY <2>1, <2>2 DEF Apart, Procs
  <1>. QED BY <1>1, <1>2, <1>3 DEF Procs

LEMMA InitLocks ==
  ASSUME Init
  PROVE  LocksInv
  <1>1. /\ dir \in [Locks -> {"absent", "dir", "file"}]
        /\ claim = [l \in Locks |-> "none"]
        /\ owners = [l \in Locks |-> {}] /\ expired = [l \in Locks |-> {}]
        /\ target = <<{}>> /\ previous = Absent
    BY DEF Init
  <1>2. target \in Files /\ previous \in Files
    BY <1>1 DEF Files, Contents
  <1>3. TypeOK
    BY <1>1, <1>2, InitMoves DEF TypeOK
  <1>4. \A l \in Locks : LockFits(l)
    BY <1>1 DEF LockFits, Live
  <1>5. ASSUME NEW p \in Procs
        PROVE  Fits(p)
    <2>1. /\ proc[p].pc \in {"start", "idle"} /\ proc[p].lock = "lock"
          /\ ~proc[p].got /\ (p \in Readers => proc[p].pc = "start")
      BY InitMoves
    <2>2. \A l \in Locks : claim[l] # p /\ owners[l] = {} /\ expired[l] = {}
      BY <1>1, StorageAssumption
    <2>3. StageFits(p)
      BY <2>1 DEF StageFits, At, Reading, Replacing, Acquiring
    <2>4. ClaimFits(p) /\ OwnerFits(p)
      BY <2>1, <2>2 DEF ClaimFits, Claiming, OwnerFits, Owning, Holds, Updating, Owned, Live, Over, At
    <2>. QED BY <2>3, <2>4 DEF Fits
  <1>. QED BY <1>3, <1>4, <1>5 DEF LocksInv

LEMMA StepLocks ==
  ASSUME LocksInv, ~raced', NEW p \in Procs, Step(p)
  PROVE  LocksInv'
  <1>1. CASE \/ Begin(p) \/ DrawToken(p) \/ MakeDirectory(p) \/ Look(p) \/ Remake(p)
             \/ Claim(p) \/ GiveUpClaim(p) \/ BreakClaim(p)
    BY <1>1, BeginLocks, DrawLocks, MakeLocks, LookLocks, RemakeLocks, ClaimLocks,
       GiveUpLocks, BreakLocks
  <1>2. CASE CheckOwner(p) \/ CreateOwner(p) \/ Verify(p) \/ Unclaim(p)
    BY <1>2, CheckLocks, CreateLocks, VerifyLocks, UnclaimLocks
  <1>3. CASE ReadVersion(p) \/ ReadTarget(p) \/ ReadPrevious(p) \/ AssertOwner(p)
    BY <1>3, ReadLocks, AssertLocks
  <1>4. CASE Recover(p) \/ Rename(p) \/ MoveAway(p) \/ PutNew(p) \/ Tidy(p)
    BY <1>4, ReplaceLocks
  <1>5. CASE ReleaseOwner(p) \/ ListLock(p) \/ RemoveDirectory(p) \/ Leave(p)
    BY <1>5, ReleaseLocks, LeaveLocks, RemoveLocks
  <1>. QED BY <1>1, <1>2, <1>3, <1>4, <1>5 DEF Step

LEMMA NextLocks ==
  ASSUME LocksInv, ~raced', [Next]_vars
  PROVE  LocksInv'
  <1>1. ASSUME NEW p \in Procs, Step(p) \/ Crash(p) \/ Expire(p)
        PROVE  LocksInv'
    BY <1>1, StepLocks, CrashLocks, ExpireLocks
  <1>2. CASE UNCHANGED vars
    <2>1. UNCHANGED <<dir, claim, owners, expired, target, previous, proc>>
      BY <1>2 DEF vars, lockVars, fileVars
    <2>2. TypeOK' /\ (\A l \in Locks : LockFits(l)')
      BY <2>1 DEF LocksInv, TypeOK, LockFits, Live
    <2>3. ASSUME NEW p \in Procs
          PROVE  Fits(p)'
      BY <2>1 DEF LocksInv, Fits, StageFits, ClaimFits, OwnerFits, Owning, Holds, Owned,
         Live, At
    <2>. QED BY <2>2, <2>3 DEF LocksInv
  <1>. QED BY <1>1, <1>2 DEF Next

\* Two processes that believe to own a lock have unexpired owner files in it.
LEMMA HoldsAlone ==
  ASSUME LocksInv, NEW l \in Locks, NEW p \in Procs, NEW q \in Procs, Holds(p, l), Holds(q, l)
  PROVE  p = q
  BY DEF LocksInv, LockFits, Fits, OwnerFits, Holds, Live, Updating, Over, At

--------------------------------------------------------------------------------
(***************************************************************************)
(* The file. What the steps of an acquisition and of a release do:         *)
(***************************************************************************)
Acquires(p) ==
  \/ Begin(p) \/ DrawToken(p) \/ MakeDirectory(p) \/ Look(p) \/ Remake(p)
  \/ Claim(p) \/ GiveUpClaim(p) \/ BreakClaim(p) \/ CheckOwner(p) \/ CreateOwner(p)
  \/ Verify(p) \/ Unclaim(p)
Reads(p)    == ReadVersion(p) \/ ReadTarget(p) \/ ReadPrevious(p)
Renews(p)   == Recover(p) \/ Rename(p) \/ MoveAway(p) \/ PutNew(p) \/ Tidy(p)
Releases(p) == ReleaseOwner(p) \/ ListLock(p) \/ RemoveDirectory(p)

Acquired(p) ==
  /\ Moved(p) /\ p \notin Readers /\ proc[p].pc \in {"start"} \cup Acquiring
  /\ proc'[p].lock = proc[p].lock /\ proc'[p].seen = proc[p].seen
  /\ \/ proc'[p].pc \in Acquiring
     \/ proc'[p].pc = "refused" /\ p \notin Writers
     \/ proc'[p].pc = "read" /\ proc[p].lock = "lock"
     \/ proc'[p].pc = "recover" /\ proc[p].lock = "write.lock"
  /\ UNCHANGED <<target, previous>>

LEMMA FailAcquires ==
  ASSUME LocksInv, NEW p \in Procs, Fail(p), proc[p].pc \in Acquiring, UNCHANGED <<target, previous>>
  PROVE  Acquired(p)
  <1>. DEFINE pc == IF Retrying(p) THEN "draw" ELSE "refused"
  <1>1. /\ pc \in {"draw", "refused"} /\ (pc = "left") = FALSE
        /\ pc = "refused" => p \notin Writers
    BY DEF Retrying
  <1>2. proc' = [proc EXCEPT ![p].pc = pc, ![p].failed = FALSE, ![p].winner = FALSE]
    BY <1>1 DEF Fail, Give
  <1>. HIDE DEF pc
  <1>3. pc \in Pcs /\ (pc = "draw" => pc \in Acquiring)
    BY <1>1 DEF Pcs, Acquiring, Over
  <1>4. p \notin Readers
    BY DEF LocksInv, Fits, StageFits, Acquiring
  <1>. QED BY <1>1, <1>2, <1>3, <1>4, MovedGiven DEF LocksInv, Acquired

LEMMA AcquireMoves ==
  ASSUME LocksInv, NEW p \in Procs, Acquires(p)
  PROVE  Acquired(p)
  <1>1. /\ UNCHANGED <<target, previous>>
        /\ proc[p].pc \in {"start"} \cup Acquiring /\ proc[p].lock \in Locks
    BY DEF Acquires, Begin, DrawToken, MakeDirectory, Look, Remake, Claim, GiveUpClaim, BreakClaim,
       CheckOwner, CreateOwner, Verify, Unclaim, At, Acquiring, fileVars, LocksInv, TypeOK, ProcType
  <1>2. p \notin Readers
    BY <1>1 DEF LocksInv, Fits, StageFits, Acquiring, Acquires, Begin, DrawToken, MakeDirectory,
       Look, Remake, Claim, GiveUpClaim, BreakClaim, CheckOwner, CreateOwner, Verify, Unclaim, At
  <1>3. ASSUME Fail(p), ~Begin(p)
        PROVE  Acquired(p)
    BY <1>1, <1>3, FailAcquires
    DEF Acquires, DrawToken, MakeDirectory, Look, Remake, Claim, GiveUpClaim, BreakClaim,
       CheckOwner, CreateOwner, Verify, Unclaim, At, Acquiring
  <1>4. ASSUME NEW pc \in Acquiring, Become(p, pc)
        PROVE  Acquired(p)
    BY <1>1, <1>2, <1>4, MovedPc DEF LocksInv, Pcs, Acquired
  <1>5. ASSUME proc' = [proc EXCEPT ![p].pc = "claim", ![p].winner = TRUE]
        PROVE  Acquired(p)
    BY <1>1, <1>2, <1>5, MovedWinner DEF LocksInv, Pcs, Acquired, Acquiring
  <1>6. CASE Begin(p)
    BY <1>4, <1>6 DEF Begin, Acquiring
  <1>7. CASE DrawToken(p)
    BY <1>1, <1>2, <1>7, MovedDraw DEF DrawToken, LocksInv, Acquired, Acquiring
  <1>8. CASE MakeDirectory(p)
    BY <1>4, <1>5, <1>8 DEF MakeDirectory, Acquiring
  <1>9. CASE Look(p)
    BY <1>3, <1>4, <1>9 DEF Look, Become, Acquiring, Begin, At
  <1>10. CASE Remake(p)
    BY <1>3, <1>5, <1>10 DEF Remake, Begin, At
  <1>11. CASE Claim(p)
    BY <1>3, <1>4, <1>11 DEF Claim, Acquiring, Begin, At
  <1>12. CASE GiveUpClaim(p)
    BY <1>3, <1>12 DEF GiveUpClaim, Begin, At
  <1>13. CASE BreakClaim(p)
    BY <1>4, <1>13 DEF BreakClaim, Acquiring
  <1>14. CASE CheckOwner(p)
    BY <1>4, <1>14 DEF CheckOwner, Acquiring
  <1>15. CASE CreateOwner(p)
    <2>1. dir[proc[p].lock] = "dir"
      BY <1>1, <1>15, StorageAssumption
      DEF CreateOwner, LocksInv, LockFits, Fits, ClaimFits, Claiming, At
    <2>. QED BY <1>4, <1>15, <2>1 DEF CreateOwner, Acquiring
  <1>16. CASE Verify(p)
    <2>1. PICK g \in BOOLEAN : proc' = [proc EXCEPT ![p].pc = "unclaim", ![p].got = g, ![p].winner = FALSE]
      BY <1>16 DEF Verify, Current
    <2>. QED BY <1>1, <1>2, <2>1, MovedGot DEF LocksInv, Pcs, Acquired, Acquiring
  <1>17. CASE Unclaim(p)
    <2>1. CASE proc[p].got
      <3>1. PICK pc \in Pcs : pc = (IF proc[p].lock = "lock" THEN "read" ELSE "recover") /\ Become(p, pc)
        BY <1>17, <2>1 DEF Unclaim, Pcs, Reading, Replacing
      <3>. QED BY <1>1, <1>2, <3>1, MovedPc DEF LocksInv, Acquired, Locks
    <2>2. CASE ~proc[p].got
      BY <1>3, <1>17, <2>2 DEF Unclaim, Begin, At
    <2>. QED BY <2>1, <2>2
  <1>. QED BY <1>6, <1>7, <1>8, <1>9, <1>10, <1>11, <1>12, <1>13, <1>14, <1>15, <1>16, <1>17 DEF Acquires

LEMMA ReleaseMoves ==
  ASSUME LocksInv, NEW p \in Procs, Releases(p)
  PROVE  /\ Moved(p) /\ p \notin Readers
         /\ proc[p].pc \in {"release", "list", "remove"}
         /\ proc'[p].pc \in {"list", "remove", "left"}
         /\ proc'[p].lock = proc[p].lock /\ proc'[p].seen = proc[p].seen
         /\ proc'[p].failed = proc[p].failed
         /\ UNCHANGED <<target, previous>>
  <1>1. /\ proc[p].pc \in {"release", "list", "remove"}
        /\ UNCHANGED <<target, previous>>
    BY DEF Releases, ReleaseOwner, ListLock, RemoveDirectory, At, fileVars
  <1>2. p \notin Readers
    BY <1>1 DEF LocksInv, Fits, StageFits
  <1>3. PICK pc \in {"list", "remove", "left"} : Become(p, pc)
    BY DEF Releases, ReleaseOwner, ListLock, RemoveDirectory
  <1>4. pc \in Pcs
    BY DEF Pcs, Leaving
  <1>. QED BY <1>1, <1>2, <1>3, <1>4, MovedPc DEF LocksInv

LEMMA StepCases ==
  ASSUME NEW p \in Procs, Step(p)
  PROVE  Acquires(p) \/ Reads(p) \/ AssertOwner(p) \/ Renews(p) \/ Releases(p) \/ Leave(p)
  BY DEF Step, Acquires, Reads, Renews, Releases

\* Whoever deals with the file holds the outer lock: nobody else does.
LEMMA UsersHold ==
  ASSUME LocksInv, NEW p \in Updaters,
         Pending(p) \/ proc[p].pc \in {"fallback", "put", "tidy"} \cup Replacing
  PROVE  p \in Procs /\ Holds(p, "lock")
  <1>1. p \in Procs /\ p \notin Readers
    BY StorageAssumption DEF Updaters, Procs
  <1>2. StageFits(p)
    BY <1>1 DEF LocksInv, Fits
  <1>. QED BY <1>1, <1>2
       DEF StageFits, Pending, Holds, Acquiring, Reading, Replacing, Updating, Over, At

\* A step that leaves the file as it is has to be looked at for its process only.
LEMMA LocalFile ==
  ASSUME FileFits, NEW p \in Procs, Others(p), UNCHANGED <<target, previous>>,
         p \in Updaters => Uses(p)'
  PROVE  FileFits'
  <1>1. ASSUME NEW q \in Updaters, q # p
        PROVE  Uses(q)'
    <2>1. proc'[q] = proc[q] /\ Uses(q)
      BY <1>1 DEF Others, FileFits, Updaters, Procs
    <2>. QED BY <2>1 DEF Uses, Pending, Made, Served, Visible, At
  <1>. QED BY <1>1 DEF FileFits, Visible

\* A step that replaces the file has to keep its entries; nobody else reads it now.
LEMMA UserFile ==
  ASSUME LocksInv, FileFits, NEW p \in Procs, Others(p), Holds(p, "lock"),
         Visible' # Absent, Index(Visible) \subseteq Index(Visible'),
         p \in Updaters => Uses(p)'
  PROVE  FileFits'
  <1>1. ASSUME NEW q \in Updaters, q # p
        PROVE  Uses(q)'
    <2>1. q \in Procs /\ proc'[q] = proc[q] /\ Uses(q)
      BY <1>1 DEF Others, FileFits, Updaters, Procs
    <2>2. ~Pending(q) /\ proc[q].pc \notin {"fallback", "put", "tidy"}
      BY <1>1, <2>1, UsersHold, HoldsAlone DEF Locks
    <2>. QED BY <2>1, <2>2 DEF Uses, Pending, Made, Served, At
  <1>. QED BY <1>1 DEF FileFits

LEMMA AcquireFile ==
  ASSUME LocksInv, FileFits, NEW p \in Procs, Acquired(p)
  PROVE  FileFits'
  <1>1. ASSUME p \in Updaters
        PROVE  Uses(p)'
    <2>1. Uses(p) /\ (At(p, "start") => proc[p].lock = "lock")
      BY <1>1 DEF FileFits, LocksInv, Fits, StageFits, At
    <2>2. Pending(p)' => Pending(p)
      BY <2>1 DEF Acquired, Pending, Acquiring, Replacing, At
    <2>3. ~Made(p)' /\ proc'[p].pc \notin {"put", "fallback", "tidy"}
      BY DEF Acquired, Made, Acquiring, Leaving, At
    <2>. QED BY <2>1, <2>2, <2>3 DEF Acquired, Uses, Visible, At
  <1>. QED BY <1>1, LocalFile DEF Acquired, Moved

LEMMA ReadFile ==
  ASSUME LocksInv, FileFits, NEW p \in Procs, Reads(p)
  PROVE  FileFits'
  <1>1. ASSUME ReadVersion(p)
        PROVE  FileFits'
    <2>1. Uses(p)'
      BY <1>1, ReadVersionMoves
      DEF Uses, Pending, Made, Visible, Acquiring, Replacing, Leaving, At, Absent
    <2>. QED BY <1>1, <2>1, ReadVersionMoves, LocalFile DEF Moved
  <1>2. ASSUME ReadTarget(p)
        PROVE  FileFits'
    <2>1. ASSUME p \in Updaters
          PROVE  p \notin Readers /\ p \notin Swappers
      BY <1>2, <2>1, StorageAssumption, ReadTargetMoves DEF Updaters
    <2>2. ASSUME p \in Updaters
          PROVE  Uses(p)'
      BY <1>2, <2>1, <2>2, ReadTargetMoves
      DEF Uses, Pending, Made, Visible, Acquiring, Replacing, Leaving, At
    <2>. QED BY <1>2, <2>2, ReadTargetMoves, LocalFile DEF Moved
  <1>3. ASSUME ReadPrevious(p)
        PROVE  FileFits'
    <2>1. ASSUME p \in Updaters
          PROVE  /\ p \notin Readers /\ p \notin Swappers
                 /\ target = Absent /\ previous # Absent
      BY <1>3, <2>1, StorageAssumption, ReadPreviousMoves
      DEF Updaters, FileFits, Uses, Visible, At
    <2>2. ASSUME p \in Updaters
          PROVE  Uses(p)'
      BY <1>3, <2>1, <2>2, ReadPreviousMoves
      DEF Uses, Pending, Made, Visible, Acquiring, Replacing, Leaving, At
    <2>. QED BY <1>3, <2>2, ReadPreviousMoves, LocalFile DEF Moved
  <1>. QED BY <1>1, <1>2, <1>3 DEF Reads

LEMMA AssertFile ==
  ASSUME LocksInv, FileFits, NEW p \in Procs, AssertOwner(p)
  PROVE  FileFits'
  <1>1. ASSUME p \in Updaters
        PROVE  Uses(p)'
    BY <1>1, AssertMoves
    DEF FileFits, Uses, Pending, Made, Visible, Acquiring, Replacing, Leaving, At
  <1>. QED BY <1>1, AssertMoves, LocalFile DEF Moved

\* The file, or what it is being replaced from, is what it was or the new content.
LEMMA RenewFile ==
  ASSUME LocksInv, FileFits, NEW p \in Procs, Renews(p)
  PROVE  FileFits'
  <1>1. /\ Moved(p) /\ p \notin Readers /\ proc[p].pc \in Replacing
        /\ proc'[p].lock = proc[p].lock /\ proc'[p].seen = proc[p].seen
        /\ Replaces(p)
    BY ReplaceMoves DEF Renews
  <1>2. /\ p \in Updaters /\ Uses(p) /\ Holds(p, "lock") /\ Visible # Absent
        /\ proc[p].lock = "write.lock"
    BY <1>1, ContentType, UsersHold DEF FileFits, LocksInv, Fits, StageFits
  <1>3. /\ Content(p) # Absent /\ p \in Index(Content(p))
        /\ Pending(p) => Index(Visible) \subseteq Index(Content(p))
    <2>1. p \in Swappers /\ Pending(p) => Index(Visible) = {}
      BY <1>2 DEF Uses, Index, Absent
    <2>2. p \in Writers /\ Pending(p) => Index(Visible) \subseteq Index(Content(p))
      BY <1>1, <1>2, ContentType DEF Uses
    <2>3. Content(p) # Absent /\ p \in Index(Content(p))
      BY <1>1, ContentType
    <2>. QED BY <1>2, <2>1, <2>2, <2>3 DEF Updaters
  <1>4. /\ proc[p].pc # "tidy" => Pending(p)
        /\ At(p, "put") => target = Absent /\ previous # Absent
        /\ At(p, "tidy") => target # Absent /\ Served(p)
    BY <1>1, <1>2 DEF Pending, Replacing, Uses, Made, Visible, At
  <1>. DEFINE New == target' = Content(p) /\ proc[p].pc # "tidy" /\ proc'[p].pc \in {"release", "tidy"}
  <1>5. CASE New
    <2>1. Visible' = Content(p) /\ proc'[p].pc \in {"release", "tidy"} /\ Pending(p)
      BY <1>1, <1>3, <1>4, <1>5 DEF Replaces, Visible, At
    <2>2. Uses(p)'
      BY <1>3, <1>5, <2>1 DEF Uses, Pending, Made, Served, Acquiring, Replacing, Leaving, At
    <2>. QED BY <1>1, <1>2, <1>3, <2>1, <2>2, UserFile DEF Moved
  <1>6. CASE ~New
    <2>1. Visible' = Visible
      BY <1>1, <1>2, <1>4, <1>6 DEF Replaces, Visible, At
    <2>2. /\ proc'[p].pc = "put" => target' = Absent
          /\ proc'[p].pc \in {"rename", "move", "put", "release"}
          /\ proc'[p].pc = "release" => proc'[p].failed \/ Served(p)
          /\ proc'[p].pc # "release" => Pending(p)
      BY <1>1, <1>4, <1>6 DEF Replaces, At
    <2>3. Uses(p)'
      BY <1>1, <1>2, <2>1, <2>2 DEF Uses, Pending, Made, Served, Acquiring, Replacing, Leaving, At
    <2>. QED BY <1>1, <1>2, <2>1, <2>3, UserFile DEF Moved
  <1>. QED BY <1>5, <1>6

LEMMA ReleaseFile ==
  ASSUME LocksInv, FileFits, NEW p \in Procs, Releases(p) \/ Leave(p) \/ Crash(p)
  PROVE  FileFits'
  <1>1. CASE Releases(p)
    <2>1. ASSUME p \in Updaters
          PROVE  Uses(p)'
      BY <1>1, <2>1, ReleaseMoves
      DEF FileFits, Uses, Pending, Made, Served, Visible, Acquiring, Replacing, Leaving, At
    <2>. QED BY <1>1, <2>1, ReleaseMoves, LocalFile DEF Moved
  <1>2. CASE Leave(p)
    <2>1. ASSUME p \in Updaters
          PROVE  Uses(p)'
      BY <1>2, <2>1, LeaveMoves
      DEF FileFits, Uses, Pending, Made, Served, Visible, Acquiring, Replacing, Leaving, At
    <2>. QED BY <1>2, <2>1, LeaveMoves, LocalFile DEF Moved
  <1>3. CASE Crash(p)
    <2>1. Moved(p) /\ proc'[p].pc = "dead" /\ UNCHANGED <<target, previous>>
      BY <1>3, CrashMoves
    <2>2. Uses(p)'
      BY <2>1 DEF Uses, Pending, Made, Acquiring, Replacing, Leaving, At
    <2>. QED BY <2>1, <2>2, LocalFile DEF Moved
  <1>. QED BY <1>1, <1>2, <1>3

--------------------------------------------------------------------------------
(***************************************************************************)
(* What is left behind.                                                    *)
(***************************************************************************)

\* A step does not end at "idle", and does not wake the dead.
LEMMA StepEnds ==
  ASSUME LocksInv, NEW p \in Procs, Step(p) \/ Crash(p)
  PROVE  Moved(p) /\ proc[p].pc \notin {"idle", "dead"} /\ proc'[p].pc # "idle"
  <1>1. CASE Acquires(p)
    BY <1>1, AcquireMoves DEF Acquired, Acquiring
  <1>2. CASE Reads(p)
    BY <1>2, ReadVersionMoves, ReadTargetMoves, ReadPreviousMoves DEF Reads, At
  <1>3. CASE AssertOwner(p)
    BY <1>3, AssertMoves DEF At
  <1>4. CASE Renews(p)
    BY <1>4, ReplaceMoves DEF Renews, Replaces, Replacing
  <1>5. CASE Releases(p) \/ Leave(p)
    BY <1>5, ReleaseMoves, LeaveMoves DEF At
  <1>6. CASE Crash(p)
    BY <1>6, CrashMoves DEF Over
  <1>. QED BY <1>1, <1>2, <1>3, <1>4, <1>5, <1>6, StepCases

LEMMA ApartStep ==
  ASSUME LocksInv, Apart, NEW p \in Procs, Step(p) \/ Crash(p)
  PROVE  Apart'
  <1>1. \A q \in Procs : At(q, "idle") => At(q, "idle")'
    BY StepEnds DEF Moved, Others, At
  <1>. QED BY <1>1 DEF Apart, Procs

\* Only a process that replaces the file leaves <file>.previous, while it does.
LEMMA PreviousStep ==
  ASSUME LocksInv, FileFits, PreviousTidied, NEW p \in Procs, Step(p)
  PROVE  PreviousTidied'
  <1>1. CASE Renews(p)
    <2>1. /\ Moved(p) /\ p \notin Readers /\ proc[p].pc \in Replacing /\ Replaces(p)
      BY <1>1, ReplaceMoves DEF Renews
    <2>2. p \in Updaters /\ Holds(p, "lock")
      BY <2>1, ContentType, UsersHold
    <2>3. previous # Absent => proc[p].pc \in {"put", "tidy"}
      BY <2>2, UsersHold, HoldsAlone DEF PreviousTidied, Locks
    <2>4. At(p, "put") => target = Absent
      BY <2>2 DEF FileFits, Uses, At
    <2>5. previous' # Absent => proc'[p].pc \in {"put", "tidy"}
      BY <2>1, <2>3, <2>4 DEF Replaces, At
    <2>. QED BY <2>2, <2>5 DEF PreviousTidied
  <1>2. CASE ~Renews(p)
    <2>1. Moved(p) /\ proc[p].pc \notin {"put", "tidy"} /\ previous' = previous
      <3>1. CASE Acquires(p)
        BY <3>1, AcquireMoves DEF Acquired, Acquiring
      <3>2. CASE Reads(p)
        BY <3>2, ReadVersionMoves, ReadTargetMoves, ReadPreviousMoves DEF Reads, At
      <3>3. CASE AssertOwner(p)
        BY <3>3, AssertMoves DEF At
      <3>4. CASE Releases(p) \/ Leave(p)
        BY <3>4, ReleaseMoves, LeaveMoves DEF At
      <3>. QED BY <1>2, <3>1, <3>2, <3>3, <3>4, StepCases
    <2>2. \A q \in Updaters : proc[q].pc \in {"put", "tidy"} => proc'[q] = proc[q]
      BY <2>1 DEF Moved, Others, Updaters, Procs
    <2>. QED BY <2>1, <2>2 DEF PreviousTidied
  <1>. QED BY <1>1, <1>2

\* What is in a lock directory is of a process that will come back to it.
LEMMA InsideUnfinished ==
  ASSUME LocksInv, NEW l \in Locks, ~Empty(l), \A q \in Procs : ~At(q, "dead")
  PROVE  \E q \in Procs : /\ Unfinished(q, l)
                          /\ proc[q].lock = l => proc[q].pc \notin {"list", "remove", "left"}
  <1>1. PICK q \in Procs : claim[l] = q \/ q \in owners[l]
    BY DEF Empty, LocksInv, TypeOK
  <1>2. (proc[q].lock = l /\ proc[q].pc \in Claiming) \/ Owning(q, l)
    BY <1>1 DEF LocksInv, Fits, ClaimFits, OwnerFits
  <1>3. q \in Updaters
    BY <1>2 DEF LocksInv, Fits, StageFits, Owning, Holds, Claiming, Over, Updaters, Procs
  <1>. QED BY <1>2, <1>3 DEF Unfinished, Owning, Holds, Claiming, Updating, Over, Locks, At

LEMMA AcquireDir ==
  ASSUME LocksInv, NEW p \in Procs, Acquires(p), NEW l \in Locks, dir'[l] = "dir"
  PROVE  dir[l] = "dir" \/ proc[p].lock = l
  BY DEF Acquires, Begin, DrawToken, MakeDirectory, Look, Remake, Claim, GiveUpClaim, BreakClaim,
     CheckOwner, CreateOwner, Verify, Unclaim, lockVars, LocksInv, TypeOK, ProcType

LEMMA DirStep ==
  ASSUME LocksInv, DirsTidied, NEW p \in Procs, Step(p), \A q \in Procs : ~At(q, "dead")
  PROVE  DirsTidied'
  <1>. SUFFICES ASSUME \A s \in Swappers : At(s, "idle")',
                       NEW l \in Locks, dir'[l] = "dir"
                PROVE  \E q \in Procs : Unfinished(q, l)'
    BY DEF DirsTidied
  <1>1. Moved(p) /\ p \notin Swappers /\ \A s \in Swappers : At(s, "idle")
    BY StepEnds DEF Moved, Others, Procs, At
  <1>2. \A q \in Procs \ {p} : Unfinished(q, l) => Unfinished(q, l)'
    BY <1>1 DEF Moved, Others, Unfinished, At
  <1>3. dir[l] = "dir" => \E q \in Procs : Unfinished(q, l)
    BY <1>1 DEF DirsTidied
  <1>4. CASE Acquires(p)
    <2>1. /\ p \in Updaters /\ proc'[p].lock = proc[p].lock
          /\ proc'[p].pc \in Acquiring \cup {"read", "recover"}
      BY <1>1, <1>4, AcquireMoves DEF Acquired, Updaters, Procs
    <2>2. Unfinished(p, l) \/ proc[p].lock = l => Unfinished(p, l)'
      BY <2>1 DEF Unfinished, Acquiring, Over, At
    <2>. QED BY <1>2, <1>3, <1>4, <2>2, AcquireDir
  <1>5. CASE ~Acquires(p) /\ ~Releases(p)
    <2>1. Unfinished(p, l) => Unfinished(p, l)'
      <3>1. CASE Reads(p)
        BY <3>1, StorageAssumption, ReadVersionMoves, ReadTargetMoves, ReadPreviousMoves
        DEF Reads, Unfinished, Updaters, Over, At
      <3>2. CASE AssertOwner(p)
        BY <3>2, AssertMoves DEF Unfinished, Over, Locks, LocksInv, Fits, StageFits, Reading, At
      <3>3. CASE Renews(p)
        BY <3>3, ReplaceMoves DEF Renews, Replaces, Unfinished, Over, At
      <3>4. CASE Leave(p)
        BY <3>4, LeaveMoves DEF Unfinished, Over, Locks, At
      <3>. QED BY <1>5, <3>1, <3>2, <3>3, <3>4, StepCases
    <2>2. dir' = dir
      BY <1>5, StepCases, ReadVersionMoves, ReadTargetMoves, ReadPreviousMoves, AssertMoves,
         ReplaceMoves, LeaveMoves DEF Reads, Renews
    <2>. QED BY <1>2, <1>3, <2>1, <2>2
  <1>6. CASE Releases(p)
    <2>1. /\ p \in Updaters /\ proc'[p].lock = proc[p].lock /\ dir[l] = "dir"
          /\ proc'[p].pc \in {"list", "remove", "left"}
          /\ proc'[p].pc = "left" /\ proc[p].lock = l =>
               proc[p].pc \in {"list", "remove"} /\ ~Empty(l)
      <3>1. /\ p \in Updaters /\ proc'[p].lock = proc[p].lock
            /\ proc'[p].pc \in {"list", "remove", "left"}
        BY <1>6, ReleaseMoves DEF Updaters, Procs
      <3>2. CASE ReleaseOwner(p)
        BY <3>1, <3>2, MovedPc DEF ReleaseOwner, LocksInv, Pcs, Leaving
      <3>3. CASE ListLock(p)
        BY <3>1, <3>3, ListMoves DEF At
      <3>4. CASE RemoveDirectory(p)
        BY <3>1, <3>4 DEF RemoveDirectory, LocksInv, TypeOK, At
      <3>. QED BY <1>6, <3>1, <3>2, <3>3, <3>4 DEF Releases
    <2>2. CASE proc'[p].pc = "left" /\ proc[p].lock = l
      <3>1. PICK q \in Procs : /\ Unfinished(q, l)
                               /\ proc[q].lock = l => proc[q].pc \notin {"list", "remove", "left"}
        BY <2>1, <2>2, InsideUnfinished
      <3>2. q # p
        BY <2>1, <2>2, <3>1
      <3>. QED BY <1>2, <3>1, <3>2
    <2>3. CASE proc'[p].pc # "left" \/ proc[p].lock # l
      <3>1. Unfinished(p, l) => Unfinished(p, l)'
        BY <2>1, <2>3 DEF Unfinished, Over, At
      <3>. QED BY <1>2, <1>3, <2>1, <3>1
    <2>. QED BY <2>2, <2>3
  <1>. QED BY <1>4, <1>5, <1>6

--------------------------------------------------------------------------------
(***************************************************************************)
(* Readers: a replacement foils one attempt.                               *)
(***************************************************************************)
LEMMA PastFinite ==
  /\ IsFiniteSet(Past) /\ Cardinality(Past) \in Nat
  /\ IsFiniteSet(Writers) /\ Cardinality(Writers) \in Nat
  /\ IsFiniteSet(Swappers) /\ Cardinality(Swappers) \in Nat
  <1>1. /\ Past \in SUBSET Procs /\ Writers \in SUBSET Procs /\ Swappers \in SUBSET Procs
        /\ IsFiniteSet(Procs)
    BY StorageAssumption DEF Past, Updaters, Procs
  <1>2. IsFiniteSet(Past) /\ IsFiniteSet(Writers) /\ IsFiniteSet(Swappers)
    BY <1>1, FS_Subset
  <1>. QED BY <1>2, FS_CardinalityType

\* Who is past the replacement stays so.
LEMMA PastStep ==
  ASSUME LocksInv, NEW p \in Procs, Step(p) \/ Crash(p)
  PROVE  /\ Moved(p) /\ Past \subseteq Past'
         /\ target # Absent /\ target' = Absent => p \notin Past /\ p \in Past'
  <1>1. /\ Moved(p) /\ (p \in Past => p \in Past')
        /\ target # Absent /\ target' = Absent => p \notin Past /\ p \in Past'
    <2>1. CASE Acquires(p)
      BY <2>1, AcquireMoves DEF Acquired, Past, Acquiring, Leaving, Over
    <2>2. CASE Reads(p)
      BY <2>2, ReadVersionMoves, ReadTargetMoves, ReadPreviousMoves, StorageAssumption
      DEF Reads, Past, Leaving, Over, Updaters, At
    <2>3. CASE AssertOwner(p)
      BY <2>3, AssertMoves DEF Past, Leaving, Over, At
    <2>4. CASE Renews(p)
      <3>1. /\ Moved(p) /\ p \in Updaters /\ proc[p].pc \in Replacing /\ Replaces(p)
            /\ Content(p) # Absent
        BY <2>4, ReplaceMoves, ContentType DEF Renews
      <3>2. p \in Past => p \in Past'
        BY <3>1 DEF Replaces, Past, Replacing, Leaving, Over, At
      <3>3. target # Absent /\ target' = Absent => At(p, "move") /\ proc'[p].pc = "put"
        BY <3>1 DEF Replaces, Visible, At
      <3>. QED BY <3>1, <3>2, <3>3 DEF Past, Leaving, Over, At
    <2>5. CASE Releases(p)
      BY <2>5, ReleaseMoves DEF Past, Leaving
    <2>6. CASE Leave(p)
      BY <2>6, LeaveMoves DEF Past, Leaving, Over, At
    <2>7. CASE Crash(p)
      BY <2>7, CrashMoves DEF Past, Over
    <2>. QED BY <2>1, <2>2, <2>3, <2>4, <2>5, <2>6, <2>7, StepCases
  <1>2. \A q \in Procs \ {p} : q \in Past => q \in Past'
    BY <1>1 DEF Moved, Others, Past
  <1>3. Past \subseteq Procs
    BY DEF Past, Updaters, Procs
  <1>. QED BY <1>1, <1>2, <1>3

LEMMA PastGrows ==
  ASSUME LocksInv, NEW p \in Procs, Step(p) \/ Crash(p)
  PROVE  /\ Cardinality(Past) \in Nat /\ Cardinality(Past') \in Nat
         /\ Cardinality(Past) <= Cardinality(Past')
         /\ target # Absent /\ target' = Absent => Cardinality(Past) + 1 <= Cardinality(Past')
  <1>1. Past' \in SUBSET Procs
    BY DEF Past, Updaters, Procs
  <1>2. IsFiniteSet(Past') /\ Cardinality(Past') \in Nat
    BY <1>1, StorageAssumption, FS_Subset, FS_CardinalityType
  <1>3. Cardinality(Past) <= Cardinality(Past')
    BY <1>2, PastStep, FS_Subset
  <1>4. ASSUME target # Absent, target' = Absent
        PROVE  Cardinality(Past) + 1 <= Cardinality(Past')
    <2>1. p \notin Past /\ Past \cup {p} \in SUBSET Past'
      BY <1>4, PastStep
    <2>2. Cardinality(Past \cup {p}) = Cardinality(Past) + 1
      BY <2>1, PastFinite, FS_AddElement
    <2>3. Cardinality(Past \cup {p}) <= Cardinality(Past')
      BY <1>2, <2>1, FS_Subset
    <2>. QED BY <2>2, <2>3
  <1>. QED BY <1>2, <1>3, <1>4, PastFinite

LEMMA ReadersStep ==
  ASSUME LocksInv, FileFits, ReadersFoiled, NEW p \in Procs, Step(p) \/ Crash(p)
  PROVE  ReadersFoiled'
  <1>. DEFINE n == Cardinality(Past)
  <1>1. /\ n \in Nat /\ n' \in Nat /\ n <= n'
        /\ target # Absent /\ target' = Absent => n + 1 <= n'
    BY PastGrows
  <1>2. \A r \in Readers : r \in Procs /\ proc[r].tries \in Nat /\ Foiled(r)
    BY DEF LocksInv, TypeOK, ProcType, ReadersFoiled, Procs
  <1>. HIDE DEF n
  <1>3. ASSUME NEW r \in Readers, r # p
        PROVE  Foiled(r)'
    <2>1. proc'[r] = proc[r]
      BY <1>2, <1>3, PastStep DEF Moved, Others
    <2>2. ASSUME proc[r].pc \in {"start", "read"}
          PROVE  proc[r].tries + (IF target' = Absent THEN 1 ELSE 0) <= n'
      <3>1. proc[r].tries + (IF target = Absent THEN 1 ELSE 0) <= n
        BY <1>2, <2>2 DEF Foiled, n
      <3>. QED BY <1>1, <1>2, <3>1
    <2>3. proc[r].pc = "fallback" => proc[r].tries + 1 <= n'
      BY <1>1, <1>2 DEF Foiled, At, n
    <2>4. proc[r].pc = "returned" => proc[r].seen # Absent \/ Fallbacks <= n'
      BY <1>1, <1>2 DEF Foiled, At, Fallbacks, n
    <2>. QED BY <2>1, <2>2, <2>3, <2>4 DEF Foiled, At, n
  <1>4. ASSUME p \in Readers
        PROVE  Foiled(p)'
    <2>1. proc[p].pc \in {"start", "read", "fallback", "returned"}
      BY <1>4 DEF LocksInv, Fits, StageFits
    <2>2. p \notin Swappers
      BY <1>4, StorageAssumption
    <2>3. ReadTarget(p) \/ ReadPrevious(p)
      BY <1>4, <2>1, <2>2, StepCases, AcquireMoves, AssertMoves, ReplaceMoves, ReleaseMoves, LeaveMoves,
         ReadVersionMoves, CrashMoves DEF Reads, Renews, Acquired
    <2>4. CASE ReadTarget(p)
      <3>1. /\ proc[p].pc \in {"start", "read"}
            /\ \/ target = Absent /\ proc'[p].pc = "fallback" /\ proc'[p].tries = proc[p].tries
               \/ proc'[p].pc = "returned" /\ proc'[p].seen # Absent
        BY <1>4, <2>4, ReadTargetMoves DEF At
      <3>2. target = Absent => proc[p].tries + 1 <= n
        BY <1>2, <1>4, <3>1 DEF Foiled, n
      <3>3. proc'[p].pc = "fallback" => proc'[p].tries + 1 <= n'
        BY <1>1, <1>2, <1>4, <3>1, <3>2
      <3>. QED BY <3>1, <3>3 DEF Foiled, At, n
    <2>5. CASE ReadPrevious(p)
      <3>1. /\ At(p, "fallback") /\ target' = target
            /\ \/ previous = Absent /\ proc'[p].pc = "read" /\ proc'[p].tries = proc[p].tries + 1
               \/ /\ proc'[p].pc = "returned"
                  /\ proc'[p].seen # Absent \/ Fallbacks <= proc[p].tries + 1
        BY <1>4, <2>5, ReadPreviousMoves
      <3>2. proc[p].tries + 1 <= n'
        BY <1>1, <1>2, <1>4, <3>1 DEF Foiled, n
      <3>3. proc'[p].pc = "read" => proc'[p].tries + (IF target' = Absent THEN 1 ELSE 0) <= n'
        BY <1>2, <1>4, <3>1, <3>2 DEF FileFits, Visible
      <3>4. proc'[p].pc = "returned" => proc'[p].seen # Absent \/ Fallbacks <= n'
        BY <1>1, <1>2, <1>4, <3>1, <3>2 DEF Fallbacks
      <3>. QED BY <3>1, <3>3, <3>4 DEF Foiled, At, n
    <2>. QED BY <2>3, <2>4, <2>5
  <1>. QED BY <1>3, <1>4 DEF ReadersFoiled

--------------------------------------------------------------------------------
(***************************************************************************)
(* The theorems.                                                           *)
(***************************************************************************)
LEMMA InitInv ==
  ASSUME Init
  PROVE  Inv
  <1>1. LocksInv /\ Apart
    BY InitLocks, InitMoves
  <1>2. /\ target = <<{}>> /\ previous = Absent /\ \A l \in Locks : dir[l] # "dir"
    BY DEF Init
  <1>3. FileFits
    <2>1. Visible # Absent
      BY <1>2 DEF Visible, Absent
    <2>2. ASSUME NEW p \in Updaters
          PROVE  Uses(p)
      BY InitMoves DEF Updaters, Procs, Uses, Pending, Made, Acquiring, Replacing, Leaving, At
    <2>. QED BY <2>1, <2>2 DEF FileFits
  <1>4. SomeoneTidies
    BY <1>2 DEF SomeoneTidies, PreviousTidied, DirsTidied
  <1>5. ReadersFoiled
    <2>1. ASSUME NEW r \in Readers
          PROVE  Foiled(r)
      <3>1. target # Absent /\ proc[r].pc = "start" /\ proc[r].tries = 0
        BY <1>2, InitMoves DEF Procs, Absent
      <3>. QED BY <3>1, PastFinite DEF Foiled, At
    <2>. QED BY <2>1 DEF ReadersFoiled
  <1>. QED BY <1>1, <1>3, <1>4, <1>5 DEF Inv

LEMMA StepInv ==
  ASSUME Inv, ~raced', NEW p \in Procs, Step(p)
  PROVE  Inv'
  <1>1. LocksInv /\ LocksInv' /\ FileFits
    BY StepLocks DEF Inv
  <1>2. FileFits'
    BY <1>1, StepCases, AcquireMoves, AcquireFile, ReadFile, AssertFile, RenewFile, ReleaseFile
  <1>3. SomeoneTidies'
    <2>1. CASE \E q \in Procs : At(q, "dead")
      <3>1. PICK q \in Procs : At(q, "dead")
        BY <2>1
      <3>2. At(q, "dead")'
        BY <1>1, <3>1, StepEnds DEF Moved, Others, At
      <3>. QED BY <3>2 DEF SomeoneTidies
    <2>2. CASE \A q \in Procs : ~At(q, "dead")
      BY <1>1, <2>2, PreviousStep, DirStep DEF Inv, SomeoneTidies
    <2>. QED BY <2>1, <2>2
  <1>. QED BY <1>1, <1>2, <1>3, ApartStep, ReadersStep DEF Inv

LEMMA NextInv ==
  ASSUME Inv, ~raced', [Next]_vars
  PROVE  Inv'
  <1>1. ASSUME NEW p \in Procs, Crash(p)
        PROVE  Inv'
    <2>1. LocksInv /\ LocksInv' /\ FileFits
      BY <1>1, CrashLocks DEF Inv
    <2>2. FileFits' /\ Apart' /\ ReadersFoiled'
      BY <1>1, <2>1, ReleaseFile, ApartStep, ReadersStep DEF Inv
    <2>3. SomeoneTidies'
      BY <1>1, <2>1, CrashMoves DEF SomeoneTidies, At
    <2>. QED BY <2>1, <2>2, <2>3 DEF Inv
  <1>2. ASSUME UNCHANGED <<target, previous, proc>>, LocksInv',
               UNCHANGED dir
        PROVE  Inv'
    <2>1. FileFits'
      BY <1>2 DEF Inv, FileFits, Uses, Pending, Made, Served, Visible, At
    <2>2. SomeoneTidies' /\ Apart'
      BY <1>2 DEF Inv, SomeoneTidies, PreviousTidied, DirsTidied, Unfinished, Apart, At
    <2>3. ReadersFoiled'
      BY <1>2 DEF Inv, ReadersFoiled, Foiled, Past, At
    <2>. QED BY <1>2, <2>1, <2>2, <2>3 DEF Inv
  <1>3. ASSUME NEW p \in Procs, Expire(p)
        PROVE  Inv'
    BY <1>2, <1>3, ExpireLocks DEF Expire, fileVars, Inv
  <1>4. CASE UNCHANGED vars
    BY <1>2, <1>4, NextLocks DEF vars, lockVars, fileVars, Inv
  <1>. QED BY <1>1, <1>3, <1>4, StepInv DEF Next

\* A race that has happened has happened for good.
LEMMA RacedStays ==
  ASSUME [Next]_vars, ~raced'
  PROVE  ~raced
  <1>1. ASSUME NEW p \in Procs, Step(p)
        PROVE  ~raced
    BY <1>1 DEF Step, Begin, DrawToken, MakeDirectory, Look, Remake, Claim, GiveUpClaim, BreakClaim,
       CheckOwner, CreateOwner, Verify, Unclaim, ReadVersion, ReadTarget, ReadPrevious, AssertOwner,
       Recover, Rename, MoveAway, PutNew, Tidy, ReleaseOwner, ListLock, RemoveDirectory, Leave
  <1>2. ASSUME NEW p \in Procs, Crash(p) \/ Expire(p)
        PROVE  ~raced
    BY <1>2 DEF Crash, Expire
  <1>3. CASE UNCHANGED vars
    BY <1>3 DEF vars
  <1>. QED BY <1>1, <1>2, <1>3 DEF Next

\* The inductive invariant holds, however processes interleave or die, and whichever
\* renames are refused: as long as neither race of the lock has happened.
THEOREM Invariant == Spec => [](Undisturbed => Inv)
  <1>1. Init => (Undisturbed => Inv)
    BY InitInv
  <1>2. (Undisturbed => Inv) /\ [Next]_vars => (Undisturbed => Inv)'
    BY NextInv, RacedStays DEF Undisturbed
  <1>. QED BY <1>1, <1>2, PTL DEF Spec

\* At most one process believes to own a lock until one of the two races happens: of
\* _acquireLock, its claims, owner files and tokens, for all contenders, wherever they
\* are preempted, and all deaths among them.
THEOREM HoldersExclude == Spec => []OneHolder
  <1>1. (Undisturbed => Inv) => OneHolder
    <2>. SUFFICES ASSUME Inv, NEW l \in Locks
                  PROVE  Cardinality({p \in Procs : Holds(p, l)}) <= 1
      BY DEF OneHolder
    <2>. DEFINE Holders == {p \in Procs : Holds(p, l)}
    <2>1. CASE Holders = {}
      BY <2>1, FS_EmptySet
    <2>2. CASE Holders # {}
      <3>1. PICK p \in Procs : Holds(p, l)
        BY <2>2
      <3>2. Holders = {p}
        BY <3>1, HoldsAlone DEF Inv
      <3>. QED BY <3>2, FS_Singleton
    <2>. QED BY <2>1, <2>2
  <1>. QED BY <1>1, Invariant, PTL

\* Under every interruption of a replacement the file or its predecessor is there
\* (_replaceExistingFile, _recoverFileReplacement), until a race of the lock.
THEOREM FileNeverLost == Spec => []NeverLost
  <1>1. (Undisturbed => Inv) => NeverLost
    BY DEF Inv, FileFits, NeverLost
  <1>. QED BY <1>1, Invariant, PTL

\* No update that returned is lost but by a race of the lock: until one the index keeps
\* the artifact, and a swap that returned is the one that found the version it expected.
THEOREM UpdatesRetained == Spec => []RetainsAll
  <1>1. (Undisturbed => Inv) => RetainsAll
    BY DEF Inv, FileFits, Uses, Made, RetainsAll, Served
  <1>. QED BY <1>1, Invariant, PTL

\* When all calls are over, nobody died and no race happened, nothing of them is left in
\* the locks or beside the file (_releaseLock, _recoverFileReplacement).
THEOREM NothingLeftOver == Spec => []NoLeftovers
  <1>1. (Undisturbed => Inv) => NoLeftovers
    <2>. SUFFICES ASSUME Inv, \A p \in Updaters : proc[p].pc \in Over \ {"dead"}
                  PROVE  /\ previous = Absent
                         /\ \A l \in Locks : Empty(l)
                         /\ (\E p \in Writers : At(p, "returned")) => \A l \in Locks : dir[l] # "dir"
      BY DEF NoLeftovers
    <2>1. \A p \in Procs : ~At(p, "dead")
      BY DEF Inv, LocksInv, Fits, StageFits, Procs, Updaters, At
    <2>2. \A p \in Updaters : proc[p].pc \notin {"put", "tidy"}
      BY DEF Over
    <2>3. \A l \in Locks, p \in Procs : ~Unfinished(p, l)
      BY DEF Unfinished
    <2>4. PreviousTidied /\ DirsTidied
      BY <2>1 DEF Inv, SomeoneTidies
    <2>5. previous = Absent
      BY <2>2, <2>4 DEF PreviousTidied
    <2>6. \A l \in Locks : Empty(l)
      BY <2>1, <2>3, InsideUnfinished DEF Inv
    <2>7. ASSUME NEW w \in Writers, At(w, "returned")
          PROVE  \A l \in Locks : dir[l] # "dir"
      BY <2>3, <2>4, <2>7 DEF DirsTidied, Inv, Apart, At
    <2>. QED BY <2>5, <2>6, <2>7
  <1>. QED BY <1>1, Invariant, PTL

\* A reader finds the file in one of its three attempts if there are fewer than three
\* updates and no race: each foils one attempt at most (_readFileWithFallback).
THEOREM ReadersFind == Spec => []ReaderFinds
  <1>1. (Undisturbed => Inv) => ReaderFinds
    <2>. SUFFICES ASSUME Inv, Cardinality(Writers) < 3, Cardinality(Swappers) < 3,
                         NEW r \in Readers, At(r, "returned"), proc[r].seen = Absent
                  PROVE  FALSE
      BY DEF ReaderFinds
    <2>1. 3 <= Cardinality(Past)
      BY DEF Inv, ReadersFoiled, Foiled, Fallbacks
    <2>2. Past \in SUBSET Writers \/ Past \in SUBSET Swappers
      BY DEF Inv, Apart, Past, Updaters, Leaving, Over, At
    <2>3. Cardinality(Past) <= Cardinality(Writers) \/ Cardinality(Past) <= Cardinality(Swappers)
      BY <2>2, PastFinite, FS_Subset
    <2>. QED BY <2>1, <2>3, PastFinite
  <1>. QED BY <1>1, Invariant, PTL

================================================================================
