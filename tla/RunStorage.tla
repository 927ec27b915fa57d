------------------------------- MODULE RunStorage -------------------------------
(***************************************************************************)
(* One JSON file of a Run that several processes (or worker threads)       *)
(* update: the artifact index, to which writeCaseArtifact adds an entry,   *)
(* or run_state.json, which compareAndSwapJson replaces if its version is  *)
(* the expected one. An update holds two locks, "<file>.lock" around its   *)
(* read and write and "<file>.write.lock" around the replacement of the    *)
(* file. A lock is a directory that holds a claim directory, while a       *)
(* contender decides, and the owner files of its owners, the current one   *)
(* being the unexpired owner with the largest token. Tokens begin with the *)
(* time they were drawn at, so they are ordered as they were drawn.        *)
(*                                                                         *)
(* Every call of the file system that another process can observe is a     *)
(* step. A file is replaced by a rename; if that is refused (as Windows    *)
(* does while a reader has it open) by two, through "<file>.previous".     *)
(* A token is represented by its place in the sequence of live tokens, the *)
(* content of the file by the set of the updates it contains. A lease of   *)
(* 120 seconds expires only if its process has died; a live process that   *)
(* stalls for so long is left out. Otherwise a process may be preempted    *)
(* between any two of its calls, for as long as the others like.           *)
(*                                                                         *)
(* Two calls of _acquireLock act on what another process may have changed  *)
(* since it was looked at:                                                 *)
(*   - who has created the lock directory claims it and becomes an owner   *)
(*     without looking for one, although another contender may have        *)
(*     claimed the directory first, and own it by now;                     *)
(*   - the removal of a claim that was found too old may meet a claim that *)
(*     another contender has made since.                                   *)
(* "raced" records that one of them did; no step reads it.                 *)
(***************************************************************************)
EXTENDS Naturals, Sequences, FiniteSets, SequencesExt

CONSTANTS
  Writers,   \* each adds one artifact to the index
  Swappers,  \* each compares and swaps once, expecting the first version
  Readers,   \* each reads the file once, with the fallback
  Faults     \* what the environment may do

Procs == Writers \cup Swappers \cup Readers
Locks == {"lock", "write.lock"}
FaultKinds == {"crash",   \* a process dies between two of its calls
               "busy",    \* a rename over an existing file is refused
               "legacy"}  \* an orphaned lock file of an older version is there

ASSUME StorageAssumption ==
  /\ Faults \subseteq FaultKinds
  /\ IsFiniteSet(Procs)
  /\ Writers \cap (Swappers \cup Readers) = {} /\ Swappers \cap Readers = {}
  /\ "none" \notin Procs

Absent   == <<>>    \* of a file; a file that is there is <<content>>
Contents == SUBSET (Writers \cup Swappers)

VARIABLES
  dir,       \* of each lock: "absent", "dir" or "file"
  claim,     \* of each lock: who made the claim directory, "none" if there is none
  owners,    \* of each lock: the processes that have an owner file in it
  expired,   \* of each lock: the owner files that have expired
  order,     \* of each lock: processes in the order they drew their tokens
  target,    \* the file: Absent or <<content>>
  previous,  \* <file>.previous
  proc,      \* what each process is doing
  raced      \* history: one of the two races of the lock has happened (below)

lockVars == <<dir, claim, owners, expired, order>>
fileVars == <<target, previous>>
vars     == <<lockVars, fileVars, proc, raced>>

-------------------------------------------------------------------------------
\* pc of a process; lock: the one it is acquiring or releasing; winner: it
\* created the lock directory and is on its way to own it; got: it is its current
\* owner; seen: what it read; tries: readings that found nothing; failed: the call
\* is going to throw. A call that is over keeps no more than what it returns.
Start == [pc |-> "start", lock |-> "lock", winner |-> FALSE, got |-> FALSE,
          seen |-> Absent, tries |-> 0, failed |-> FALSE]
Over  == {"idle", "returned", "refused", "thrown", "dead"}

At(p, pc)     == proc[p].pc = pc
Become(p, pc) == proc' = [proc EXCEPT ![p].pc = pc]
End(p, pc, seen) ==
  proc' = [proc EXCEPT ![p] = [Start EXCEPT !.pc = pc, !.seen = seen]]

Live(l)     == {q \in owners[l] : q \notin expired[l]}
Owned(l)    == Live(l) # {}
Position(l, q) == CHOOSE i \in DOMAIN order[l] : order[l][i] = q
Current(l, p) ==
  p \in Live(l) /\ \A q \in Live(l) : Position(l, q) <= Position(l, p)
Empty(l)    == owners[l] = {} /\ claim[l] = "none"

Visible == IF target # Absent THEN target ELSE previous

Init ==
  /\ dir \in {[l \in Locks |-> IF l = "lock" THEN d ELSE "absent"] :
                d \in {"absent"} \cup IF "legacy" \in Faults THEN {"file"} ELSE {}}
  /\ claim = [l \in Locks |-> "none"]
  /\ owners = [l \in Locks |-> {}] /\ expired = [l \in Locks |-> {}]
  /\ order = [l \in Locks |-> <<>>]
  /\ target = <<{}>> /\ previous = Absent
  /\ raced = FALSE
  /\ \E users \in {Writers, Swappers} :
       proc = [p \in Procs |-> IF p \in users \cup Readers THEN Start
                               ELSE [Start EXCEPT !.pc = "idle"]]

\* updateArtifactIndex, once the artifact itself is stored under a name of its
\* own, or compareAndSwapJson.
Begin(p) ==
  /\ p \notin Readers /\ At(p, "start")
  /\ Become(p, "draw")
  /\ UNCHANGED <<lockVars, fileVars, raced>>

-------------------------------------------------------------------------------
(* _acquireLock: where a call fails it is repeated, except the one that    *)
(* compareAndSwapJson makes, which refuses.                                *)
DrawToken(p) ==
  /\ At(p, "draw")
  /\ order' = [order EXCEPT ![proc[p].lock] = Append(@, p)]
  /\ proc' = [proc EXCEPT ![p].pc = "make", ![p].winner = FALSE, ![p].got = FALSE]
  /\ UNCHANGED <<dir, claim, owners, expired, fileVars, raced>>

Retrying(p) == p \in Writers \/ proc[p].lock = "write.lock"

\* The token is given up; got is FALSE.
Give(p, pc) ==
  /\ order' = [order EXCEPT ![proc[p].lock] = SelectSeq(@, LAMBDA q : q # p)]
  /\ proc' = [proc EXCEPT ![p].pc = pc, ![p].failed = pc = "left", ![p].winner = FALSE]
Fail(p) == Give(p, IF Retrying(p) THEN "draw" ELSE "refused")

MakeDirectory(p) ==
  /\ At(p, "make")
  /\ LET l == proc[p].lock IN
     IF dir[l] = "absent"
     THEN /\ dir' = [dir EXCEPT ![l] = "dir"]
          /\ proc' = [proc EXCEPT ![p].pc = "claim", ![p].winner = TRUE]
     ELSE dir' = dir /\ Become(p, "look")
  /\ UNCHANGED <<claim, owners, expired, order, fileVars, raced>>

\* The lock exists: a legacy file whose lease is over is replaced, an owned
\* directory is respected.
Look(p) ==
  /\ At(p, "look")
  /\ LET l == proc[p].lock IN
     \/ /\ dir[l] = "file"
        /\ dir' = [dir EXCEPT ![l] = "absent"]
        /\ proc' = [proc EXCEPT ![p].pc = "remake"]
        /\ UNCHANGED order
     \/ /\ dir[l] = "dir" /\ ~Owned(l)
        /\ Become(p, "claim") /\ UNCHANGED <<dir, order>>
     \/ /\ dir[l] = "absent" \/ (dir[l] = "dir" /\ Owned(l))
        /\ Fail(p) /\ UNCHANGED dir
  /\ UNCHANGED <<claim, owners, expired, fileVars, raced>>

Remake(p) ==
  /\ At(p, "remake")
  /\ LET l == proc[p].lock IN
     IF dir[l] = "absent"
     THEN /\ dir' = [dir EXCEPT ![l] = "dir"]
          /\ proc' = [proc EXCEPT ![p].pc = "claim", ![p].winner = TRUE]
          /\ UNCHANGED order
     ELSE Fail(p) /\ UNCHANGED dir
  /\ UNCHANGED <<claim, owners, expired, fileVars, raced>>

\* Mutant: a claim whose maker died is waited for.
ClaimForever(p) ==
  /\ At(p, "claim")
  /\ LET l == proc[p].lock IN
     \/ /\ dir[l] = "dir" /\ claim[l] = "none"
        /\ claim' = [claim EXCEPT ![l] = p]
        /\ Become(p, IF proc[p].winner THEN "own" ELSE "check")
        /\ raced' = (raced \/ (proc[p].winner /\ Owned(l)))
        /\ UNCHANGED order
     \/ /\ dir[l] # "dir" /\ Fail(p) /\ UNCHANGED <<claim, raced>>
  /\ UNCHANGED <<dir, owners, expired, fileVars>>

\* _acquireClaim polls until the claim is free; it gives up after some seconds,
\* or if the directory is gone. A claim older than the lease, whose maker has
\* died, is removed.
Claim(p) ==
  /\ At(p, "claim")
  /\ LET l == proc[p].lock IN
     \/ /\ dir[l] = "dir" /\ claim[l] = "none"
        /\ claim' = [claim EXCEPT ![l] = p]
        \* Who created the directory does not look for an owner.
        /\ Become(p, IF proc[p].winner THEN "own" ELSE "check")
        /\ raced' = (raced \/ (proc[p].winner /\ Owned(l)))
        /\ UNCHANGED order
     \/ /\ dir[l] # "dir" /\ Fail(p) /\ UNCHANGED <<claim, raced>>
     \/ /\ dir[l] = "dir" /\ claim[l] # "none" /\ At(claim[l], "dead")
        /\ Become(p, "break") /\ UNCHANGED <<claim, order, raced>>
  /\ UNCHANGED <<dir, owners, expired, fileVars>>

GiveUpClaim(p) ==
  /\ At(p, "claim")
  /\ claim[proc[p].lock] # "none" /\ ~At(claim[proc[p].lock], "dead")
  /\ Fail(p)
  /\ UNCHANGED <<dir, claim, owners, expired, fileVars, raced>>

BreakClaim(p) ==
  /\ At(p, "break")
  /\ LET l == proc[p].lock IN
     raced' = (raced \/ (claim[l] # "none" /\ ~At(claim[l], "dead")))
  /\ claim' = [claim EXCEPT ![proc[p].lock] = "none"]
  /\ Become(p, "claim")
  /\ UNCHANGED <<dir, owners, expired, order, fileVars>>

\* Mutant: the owner is not looked for again under the claim.
CheckOwnerNot(p) ==
  /\ At(p, "check")
  /\ Become(p, "own")
  /\ UNCHANGED <<lockVars, fileVars, raced>>

CheckOwner(p) ==
  /\ At(p, "check")
  /\ Become(p, IF Owned(proc[p].lock) THEN "unclaim" ELSE "own")
  /\ UNCHANGED <<lockVars, fileVars, raced>>

\* If a stray removal took the directory, its creator throws.
CreateOwner(p) ==
  /\ At(p, "own")
  /\ LET l == proc[p].lock IN
     IF dir[l] = "dir"
     THEN /\ owners' = [owners EXCEPT ![l] = @ \cup {p}]
          /\ Become(p, "verify") /\ UNCHANGED order
     ELSE /\ IF proc[p].winner THEN Give(p, "left") ELSE Fail(p)
          /\ UNCHANGED owners
  /\ UNCHANGED <<dir, claim, expired, fileVars, raced>>

\* Whoever is not the current owner removes its owner file again.
Verify(p) ==
  /\ At(p, "verify")
  /\ LET l == proc[p].lock IN
     /\ proc' = [proc EXCEPT ![p].pc = "unclaim", ![p].got = Current(l, p), ![p].winner = FALSE]
     /\ IF Current(l, p) THEN UNCHANGED <<owners, expired>>
        ELSE /\ owners' = [owners EXCEPT ![l] = @ \ ({p} \cup expired[l])]
             /\ expired' = [expired EXCEPT ![l] = {}]
  /\ UNCHANGED <<dir, claim, order, fileVars, raced>>

\* _releaseClaim removes the claim, whoever made it.
Unclaim(p) ==
  /\ At(p, "unclaim")
  /\ claim' = [claim EXCEPT ![proc[p].lock] = "none"]
  /\ IF proc[p].got
     THEN /\ Become(p, IF proc[p].lock = "lock" THEN "read" ELSE "recover")
          /\ UNCHANGED order
     ELSE Fail(p)
  /\ UNCHANGED <<dir, owners, expired, fileVars, raced>>

-------------------------------------------------------------------------------
(* The update under its lock.                                              *)

\* Mutant: the version is not compared.
ReadVersionNot(p) ==
  /\ p \in Swappers /\ At(p, "read")
  /\ proc' = [proc EXCEPT ![p].seen = target, ![p].pc = "assert"]
  /\ UNCHANGED <<lockVars, fileVars, raced>>

\* compareAndSwapJson reads the file itself, and refuses if it is not there or
\* has another version.
ReadVersion(p) ==
  /\ p \in Swappers /\ At(p, "read")
  /\ IF target = <<{}>>
     THEN proc' = [proc EXCEPT ![p].seen = target, ![p].pc = "assert"]
     ELSE proc' = [proc EXCEPT ![p].failed = TRUE, ![p].pc = "release"]
  /\ UNCHANGED <<lockVars, fileVars, raced>>

\* Mutant: the reader tries once.
FallbacksOnce == 1

\* _readFileWithFallback: three times the file, then what it is being replaced
\* from; nothing found is an empty index.
Fallbacks == 3
\* For a reader it only matters that there was a file.
Found(p, file) ==
  IF p \in Readers THEN End(p, "returned", IF file = Absent THEN Absent ELSE <<{}>>)
  ELSE proc' = [proc EXCEPT ![p].seen = file, ![p].pc = "assert"]
ReadTarget(p) ==
  /\ p \in Writers \cup Readers
  /\ At(p, "read") \/ (p \in Readers /\ At(p, "start"))
  /\ IF target = Absent THEN Become(p, "fallback") ELSE Found(p, target)
  /\ UNCHANGED <<lockVars, fileVars, raced>>
ReadPrevious(p) ==
  /\ At(p, "fallback")
  /\ IF previous = Absent /\ proc[p].tries + 1 < Fallbacks
     THEN proc' = [proc EXCEPT ![p].tries = @ + 1, ![p].pc = "read"]
     ELSE Found(p, previous)
  /\ UNCHANGED <<lockVars, fileVars, raced>>

\* writeFile, which writeJson calls, begins with a lock of its own.
TakeInner(p) == [proc EXCEPT ![p].pc = "draw", ![p].lock = "write.lock"]

\* _assertLockOwner of the outer lock; then the file is written.
AssertOwner(p) ==
  /\ At(p, "assert")
  /\ proc' = IF Current("lock", p) THEN TakeInner(p)
             ELSE [proc EXCEPT ![p].pc = "release", ![p].failed = TRUE]
  /\ UNCHANGED <<lockVars, fileVars, raced>>

\* readArtifactIndex: the entries that were read; no file is an empty index.
Index(read) == IF read = Absent THEN {} ELSE read[1]

Content(p) == <<(IF p \in Swappers THEN {} ELSE Index(proc[p].seen)) \cup {p}>>

\* Mutant: what is left of an interrupted replacement is always removed.
RecoverNothing(p) ==
  /\ At(p, "recover")
  /\ previous' = Absent
  /\ Become(p, "rename")
  /\ UNCHANGED <<lockVars, target, raced>>

\* _recoverFileReplacement: an interrupted replacement is undone, a completed
\* one tidied.
Recover(p) ==
  /\ At(p, "recover")
  /\ target' = Visible /\ previous' = Absent
  /\ Become(p, "rename")
  /\ UNCHANGED <<lockVars, raced>>

Lost(p) == proc' = [proc EXCEPT ![p].pc = "release", ![p].failed = TRUE]

Rename(p) ==
  /\ At(p, "rename")
  /\ IF ~Current("write.lock", p) THEN Lost(p) /\ UNCHANGED fileVars
     ELSE \/ /\ target' = Content(p) /\ UNCHANGED previous
             /\ Become(p, "release")
          \* Twenty attempts were refused; an old <file>.previous goes first.
          \/ /\ "busy" \in Faults /\ target # Absent
             /\ previous' = Absent /\ UNCHANGED target
             /\ Become(p, "move")
  /\ UNCHANGED <<lockVars, raced>>

\* _replaceExistingFile.
MoveAway(p) ==
  /\ At(p, "move")
  /\ IF Current("write.lock", p) /\ target # Absent
     THEN /\ previous' = target /\ target' = Absent
          /\ Become(p, "put")
     ELSE Lost(p) /\ UNCHANGED fileVars
  /\ UNCHANGED <<lockVars, raced>>

PutNew(p) ==
  /\ At(p, "put")
  /\ \/ /\ Current("write.lock", p)
        /\ target' = Content(p) /\ UNCHANGED previous
        /\ Become(p, "tidy")
     \/ /\ target' = IF target = Absent THEN previous ELSE target
        /\ previous' = IF target = Absent THEN Absent ELSE previous
        /\ Lost(p)
  /\ UNCHANGED <<lockVars, raced>>

\* Mutant: the replaced file is left to the next access.
TidyLater(p) ==
  /\ At(p, "tidy")
  /\ Become(p, "release")
  /\ UNCHANGED <<lockVars, fileVars, raced>>

Tidy(p) ==
  /\ At(p, "tidy")
  /\ previous' = Absent
  /\ Become(p, "release")
  /\ UNCHANGED <<lockVars, target, raced>>

-------------------------------------------------------------------------------
(* _releaseLock: the own owner file, expired ones, then the directory if   *)
(* it was found empty.                                                     *)
ReleaseOwner(p) ==
  /\ At(p, "release")
  /\ LET l == proc[p].lock IN
     /\ owners' = [owners EXCEPT ![l] = @ \ ({p} \cup expired[l])]
     /\ expired' = [expired EXCEPT ![l] = {}]
     /\ order' = [order EXCEPT ![l] = SelectSeq(@, LAMBDA q : q # p)]
  /\ Become(p, "list")
  /\ UNCHANGED <<dir, claim, fileVars, raced>>

ListLock(p) ==
  /\ At(p, "list")
  /\ Become(p, IF dir[proc[p].lock] = "dir" /\ Empty(proc[p].lock) THEN "remove" ELSE "left")
  /\ UNCHANGED <<lockVars, fileVars, raced>>

\* The directory is removed only if it is still empty.
RemoveDirectory(p) ==
  /\ At(p, "remove")
  /\ LET l == proc[p].lock IN
     dir' = IF dir[l] = "dir" /\ Empty(l) THEN [dir EXCEPT ![l] = "absent"] ELSE dir
  /\ Become(p, "left")
  /\ UNCHANGED <<claim, owners, expired, order, fileVars, raced>>

\* The inner lock is released, then the outer one, then the call is over.
Leave(p) ==
  /\ At(p, "left")
  /\ IF proc[p].lock = "write.lock"
     THEN proc' = [proc EXCEPT ![p].pc = "release", ![p].lock = "lock"]
     ELSE End(p, IF ~proc[p].failed THEN "returned"
                 ELSE IF p \in Swappers /\ proc[p].seen = Absent THEN "refused"
                 ELSE "thrown", Absent)
  /\ UNCHANGED <<lockVars, fileVars, raced>>

-------------------------------------------------------------------------------
Crash(p) ==
  /\ "crash" \in Faults /\ p \notin Readers /\ proc[p].pc \notin Over \cup {"start"}
  /\ End(p, "dead", Absent)
  /\ UNCHANGED <<lockVars, fileVars, raced>>

Expire(p) ==
  /\ At(p, "dead")
  /\ \E l \in Locks : p \in Live(l) /\ expired' = [expired EXCEPT ![l] = @ \cup {p}]
  /\ UNCHANGED <<dir, claim, owners, order, fileVars, proc, raced>>

Step(p) ==
  \/ Begin(p) \/ DrawToken(p) \/ MakeDirectory(p) \/ Look(p) \/ Remake(p)
  \/ Claim(p) \/ GiveUpClaim(p) \/ BreakClaim(p) \/ CheckOwner(p) \/ CreateOwner(p)
  \/ Verify(p) \/ Unclaim(p)
  \/ ReadVersion(p) \/ ReadTarget(p) \/ ReadPrevious(p) \/ AssertOwner(p)
  \/ Recover(p) \/ Rename(p) \/ MoveAway(p) \/ PutNew(p) \/ Tidy(p)
  \/ ReleaseOwner(p) \/ ListLock(p) \/ RemoveDirectory(p) \/ Leave(p)

Next == \E p \in Procs : Step(p) \/ Crash(p) \/ Expire(p)

Spec == Init /\ [][Next]_vars

Updaters == Writers \cup Swappers

\* Threads are scheduled, time passes, and the 25000 attempts to take a lock are
\* taken for as many as it needs.
FairSpec == Spec /\ \A p \in Updaters : SF_vars(Step(p) \/ Expire(p))

-------------------------------------------------------------------------------
Updating == {"assert", "recover", "rename", "move", "put", "tidy"}

\* p believes that it owns l: from the owner file verified to its release.
Holds(p, l) ==
  \/ proc[p].lock = l /\ proc[p].got /\ proc[p].pc \in {"unclaim", "read", "fallback"} \cup Updating
  \/ l = "lock" /\ proc[p].lock = "write.lock" /\ proc[p].pc \notin Over

Undisturbed == ~raced

\* Of all the processes that contend for a lock at most one believes to own it
\* (_acquireLock: claim, owner files and tokens together), wherever they are
\* preempted and whoever of them dies, as long as neither of the two races has
\* happened: no other interleaving breaks the lock.
OneHolder ==
  Undisturbed => \A l \in Locks : Cardinality({p \in Procs : Holds(p, l)}) <= 1

\* readArtifactRef serves an artifact by its entry in the index.
Served(p) == p \in Index(Visible)

\* Only the two races can lose an update that returned: without them it is in the
\* file, whatever the others did or however they died. The index retains all
\* artifacts, and of several swaps that expect the same version one wins
\* (tools/verify-m9-storage.mjs:86 and 97, which say it unconditionally).
RetainsAll ==
  Undisturbed => \A p \in Updaters : At(p, "returned") => Served(p)

\* However the replacement is interrupted, the file or what it is being
\* replaced from is there (_replaceExistingFile, _recoverFileReplacement), unless
\* a race of the lock has let two processes replace it at once.
NeverLost == Undisturbed => Visible # Absent

\* A reader finds the file although it is being replaced: one replacement can
\* foil one of its three attempts only, so that fewer than three replacements
\* during one read, made one at a time, are harmless (_readFileWithFallback).
ReaderFinds ==
  Undisturbed /\ Cardinality(Writers) < 3 /\ Cardinality(Swappers) < 3 =>
    \A p \in Readers : At(p, "returned") => proc[p].seen # Absent

\* When every call has ended, no process has died and no race has happened, the
\* locks have no owner and no claim, the replaced file is gone, and after updates
\* of the index so are the lock directories (tools/verify-m9-storage.mjs:89). A swap
\* that is refused while it holds the claim leaves an empty directory, which the
\* next call takes over.
NoLeftovers ==
  Undisturbed /\ (\A p \in Updaters : proc[p].pc \in Over \ {"dead"}) =>
    /\ previous = Absent
    /\ \A l \in Locks : Empty(l)
    /\ (\E p \in Writers : At(p, "returned")) => \A l \in Locks : dir[l] # "dir"

\* A crash inside of the lock holds nobody up for ever, nor does a race.
EveryCallReturns == <>(\A p \in Updaters : proc[p].pc \in Over)
================================================================================
