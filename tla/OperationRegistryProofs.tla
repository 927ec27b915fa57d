------------------------ MODULE OperationRegistryProofs ------------------------
(***************************************************************************)
(* Theorems about OperationRegistry, for any numbers of keys, ids and      *)
(* concurrent calls, and any watermarks. The first part holds through all  *)
(* faults, the second without a crash between two writes of one call, the  *)
(* third wherever the sweeper can delete what it reclaims.                 *)
(***************************************************************************)
EXTENDS OperationRegistry, TLAPS

--------------------------------------------------------------------------------
(***************************************************************************)
(* The inductive invariant, part by part.                                  *)
(***************************************************************************)

RecordType ==
  [key : Keys \cup {None}, params : Params \cup {None},
   status : {"NONE", "ACCEPTED", "RUNNING", "DONE"}, bound : BOOLEAN, expired : BOOLEAN]

CallType ==
  [pc : {"idle", "broken"}, key : {None}, params : {None}]
    \cup [pc : {"preflight"}, key : Keys, params : Params]

ThreadType ==
  [step : {"free", "sweep"}, call : {None}, id : {None}]
    \cup [step : {"bind", "reply"}, call : Calls, id : Ids]
    \cup [step : {"unlink"}, call : {None}, id : Ids]

Types ==
  /\ up \in BOOLEAN
  /\ record \in [Ids -> RecordType]
  /\ tombs \subseteq Ids /\ known \subseteq Ids /\ runs \subseteq Ids
  /\ index \in [Keys -> Ids \cup {None}]
  /\ work \in [Ids -> {"none", "queued", "again", "busy"}]
  /\ call \in [Calls -> CallType]
  /\ thread \in ThreadType
  /\ handle \in [Keys -> [id : Ids, params : Params] \cup {Nothing}]

\* The segment in progress belongs to this process; a call that created a record
\* still waits for its answer; the record being swept has its tombstone.
ThreadFits ==
  /\ ~Free => up
  /\ thread.step \in {"bind", "reply"} =>
       /\ call[thread.call].pc = "preflight"
       /\ record[thread.id].key = call[thread.call].key
       /\ record[thread.id].params = call[thread.call].params
  /\ thread.step = "unlink" => thread.id \in tombs

\* The index leads to records of the key that was looked up.
IndexFits ==
  \A k \in Keys :
    index[k] # None => /\ up /\ index[k] \in known
                       /\ record[index[k]].key = k

\* The memory holds all records on disk that have no tombstone, and no other ones.
KnownFits == known \subseteq OnDisk /\ (up => OnDisk \ tombs \subseteq known)

\* What a client was told to use has a record or a tombstone.
HandlesFit == \A k \in Keys : handle[k] # Nothing => handle[k].id \in OnDisk \cup tombs

Inv == Types /\ ThreadFits /\ IndexFits /\ KnownFits /\ HandlesFit

\* Without failing deletions: one record for each key, and the memory finds it.
OneRecord == \A i, j \in OnDisk : record[i].key = record[j].key => i = j

AllFound == up => known = OnDisk /\ \A i \in OnDisk : index[record[i].key] = i

Exact == Inv /\ OneRecord /\ AllFound

--------------------------------------------------------------------------------
(***************************************************************************)
(* The steps, in the order of the proofs below.                            *)
(***************************************************************************)

\* Every step is one of the operations.
LEMMA StepCases ==
  ASSUME Next
  PROVE  \/ Bind \/ Reply \/ Unlink \/ Start \/ Restart \/ Crash
         \/ \E c \in Calls, k \in Keys, p \in Params : Request(c, k, p)
         \/ \E c \in Calls : Refuse(c) \/ CreatedMeanwhile(c)
         \/ \E c \in Calls, i \in Ids : Create(c, i)
         \/ \E i \in Ids : \/ Begin(i) \/ PreviewEnds(i) \/ PreviewFails(i)
                           \/ \E final \in BOOLEAN : AuditSaves(i, final)
                           \/ Expire(i) \/ Bury(i)
  BY DEF Next, Proceed, Works

\* Whoever awaits a preflight has a request.
LEMMA PreflightType ==
  ASSUME Types, NEW c \in Calls, call[c].pc = "preflight"
  PROVE  call[c].key \in Keys /\ call[c].params \in Params
  BY DEF Types, CallType

\* A step of the thread between bind and reply has a call with a request.
LEMMA ThreadCallType ==
  ASSUME Types, ThreadFits, thread.step \in {"bind", "reply"}
  PROVE  /\ thread.call \in Calls /\ thread.id \in Ids
         /\ call[thread.call].key \in Keys /\ call[thread.call].params \in Params
  <1>1. thread.call \in Calls /\ thread.id \in Ids
    BY DEF Types, ThreadType
  <1>. QED
    BY <1>1, PreflightType DEF ThreadFits

LEMMA OnDiskType == OnDisk \subseteq Ids
  BY DEF OnDisk

--------------------------------------------------------------------------------
(***************************************************************************)
(* Types.                                                                  *)
(***************************************************************************)

LEMMA TypeParts ==
  /\ Absent \in RecordType
  /\ NoCall \in CallType
  /\ [NoCall EXCEPT !.pc = "broken"] \in CallType
  /\ Idle \in ThreadType
  /\ [Idle EXCEPT !.step = "sweep"] \in ThreadType
  /\ \A i \in Ids : [Idle EXCEPT !.step = "unlink", !.id = i] \in ThreadType
  BY DEF Absent, RecordType, NoCall, CallType, Idle, ThreadType

LEMMA AnswerTypes ==
  ASSUME Types, NEW c \in Calls, NEW k \in Keys, NEW p \in Params, NEW i \in Ids,
         Answer(c, k, p, i)
  PROVE  /\ call' \in [Calls -> CallType]
         /\ handle' \in [Keys -> [id : Ids, params : Params] \cup {Nothing}]
  <1>1. [id |-> i, params |-> p] \in [id : Ids, params : Params]
    OBVIOUS
  <1>2. /\ call' \in [Calls -> CallType]
        /\ handle' = handle \/ handle' = [handle EXCEPT ![k] = [id |-> i, params |-> p]]
    BY TypeParts DEF Types, Answer
  <1>. QED
    BY <1>1, <1>2 DEF Types

LEMMA DeadTypes == ASSUME Types, Dead PROVE Types'
  BY TypeParts DEF Types, Dead

LEMMA LoadTypes ==
  ASSUME Types, Load
  PROVE  /\ known' \subseteq Ids /\ runs' \subseteq Ids
         /\ index' \in [Keys -> Ids \cup {None}]
         /\ work' \in [Ids -> {"none", "queued", "again", "busy"}]
  BY OnDiskType DEF Types, Load

LEMMA TypesStep ==
  ASSUME Types, ThreadFits, IndexFits, [Next]_vars
  PROVE  Types'
  <1>. USE TypeParts, OnDiskType
  <1>1. CASE Bind
    <2>1. thread.call \in Calls /\ thread.id \in Ids
      BY <1>1, ThreadCallType DEF Bind
    <2>2. thread' = [step |-> "reply", call |-> thread.call, id |-> thread.id]
      BY <1>1 DEF Bind, Types, ThreadType
    <2>3. thread' \in ThreadType
      BY <2>1, <2>2 DEF ThreadType
    <2>. DEFINE rec == record[thread.id]
                new == [[rec EXCEPT !.bound = TRUE] EXCEPT !.status = "RUNNING"]
    <2>4. new \in RecordType
      BY <2>1 DEF Types, RecordType
    <2>5. record' = [record EXCEPT ![thread.id] = new]
      BY <1>1, <2>1 DEF Bind, Types
    <2>6. record' \in [Ids -> RecordType]
      BY <2>1, <2>4, <2>5 DEF Types
    <2>. QED
      BY <1>1, <2>1, <2>3, <2>6 DEF Bind, Types
  <1>2. CASE Reply
    <2>1. [id |-> thread.id, params |-> call[thread.call].params] \in [id : Ids, params : Params]
      BY <1>2, ThreadCallType DEF Reply
    <2>. QED
      BY <1>2, <2>1, ThreadCallType DEF Reply, Types
  <1>3. CASE Unlink
    BY <1>3 DEF Unlink, Types
  <1>4. CASE Start \/ Restart
    BY <1>4, LoadTypes DEF Start, Restart, Types
  <1>5. CASE Crash
    BY <1>5, DeadTypes DEF Crash
  <1>6. ASSUME NEW c \in Calls, NEW k \in Keys, NEW p \in Params, Request(c, k, p)
        PROVE  Types'
    <2>1. CASE index[k] # None
      <3>1. index[k] \in Ids
        BY <2>1 DEF Types
      <3>. QED
        BY <1>6, <2>1, <3>1, AnswerTypes DEF Request, Types
    <2>2. CASE index[k] = None
      <3>1. [pc |-> "preflight", key |-> k, params |-> p] \in CallType
        BY DEF CallType
      <3>. QED
        BY <1>6, <2>2, <3>1 DEF Request, Types
    <2>. QED
      BY <2>1, <2>2
  <1>7. ASSUME NEW c \in Calls, Refuse(c)
        PROVE  Types'
    BY <1>7 DEF Refuse, Types
  <1>8. ASSUME NEW c \in Calls, CreatedMeanwhile(c)
        PROVE  Types'
    <2>1. call[c].key \in Keys /\ call[c].params \in Params
      BY <1>8, PreflightType DEF CreatedMeanwhile
    <2>2. index[call[c].key] \in Ids
      BY <1>8, <2>1 DEF CreatedMeanwhile, Types
    <2>. QED
      BY <1>8, <2>1, <2>2, AnswerTypes DEF CreatedMeanwhile, Types
  <1>9. ASSUME NEW c \in Calls, NEW i \in Ids, Create(c, i)
        PROVE  Types'
    <2>. DEFINE k == call[c].key
                new == [Absent EXCEPT !.key = k, !.params = call[c].params, !.status = "ACCEPTED"]
    <2>1. k \in Keys /\ call[c].params \in Params
      BY <1>9, PreflightType DEF Create
    <2>2. new \in RecordType
      BY <2>1 DEF RecordType, Absent
    <2>3. [step |-> IF k \in Audits THEN "bind" ELSE "reply", call |-> c, id |-> i] \in ThreadType
      BY DEF ThreadType
    <2>. QED
      BY <1>9, <2>1, <2>2, <2>3 DEF Create, Types
  <1>10. ASSUME NEW i \in Ids, Begin(i) \/ Expire(i) \/ Bury(i)
         PROVE  Types'
    <2>1. CASE Begin(i)
      BY <2>1 DEF Begin, Types
    <2>2. CASE Expire(i)
      BY <2>2 DEF Expire, Types, RecordType
    <2>3. CASE Bury(i)
      BY <2>3 DEF Bury, Types
    <2>. QED
      BY <1>10, <2>1, <2>2, <2>3
  <1>11. ASSUME NEW i \in Ids, PreviewEnds(i) \/ PreviewFails(i)
         PROVE  Types'
    <2>1. CASE Done(i)
      BY <2>1 DEF Done, Types, RecordType
    <2>2. CASE Ended(i)
      BY <2>2 DEF Ended, Types
    <2>. QED
      BY <1>11, <2>1, <2>2, DeadTypes DEF PreviewEnds, PreviewFails
  <1>12. ASSUME NEW i \in Ids, NEW final \in BOOLEAN, AuditSaves(i, final)
         PROVE  Types'
    <2>1. CASE UpdateRun(i, final)
      BY <2>1 DEF UpdateRun, Types, RecordType
    <2>2. CASE Ended(i)
      BY <2>2 DEF Ended, Types
    <2>. QED
      BY <1>12, <2>1, <2>2, DeadTypes DEF AuditSaves
  <1>13. CASE UNCHANGED vars
    BY <1>13 DEF vars, Types
  <1>. QED
    BY <1>1, <1>2, <1>3, <1>4, <1>5, <1>6, <1>7, <1>8, <1>9, <1>10, <1>11, <1>12, <1>13, StepCases

--------------------------------------------------------------------------------
(***************************************************************************)
(* What the steps do to the records.                                       *)
(***************************************************************************)

KeysStay ==
  \A i \in Ids : record'[i].key = record[i].key /\ record'[i].params = record[i].params

LEMMA StatusKeys ==
  ASSUME Types, NEW i \in Ids, Done(i) \/ Expire(i)
  PROVE  KeysStay
  <1>1. CASE Done(i)
    BY <1>1 DEF Done, KeysStay, Types, RecordType
  <1>2. CASE Expire(i)
    BY <1>2 DEF Expire, KeysStay, Types, RecordType
  <1>. QED
    BY <1>1, <1>2

\* Only create and the sweep change which records there are, for which requests.
LEMMA RecordsStay ==
  ASSUME Types, [Next]_vars, ~Unlink, \A c \in Calls, i \in Ids : ~Create(c, i)
  PROVE  KeysStay
  <1>1. CASE record' = record
    BY <1>1 DEF KeysStay
  <1>2. CASE Bind
    <2>. DEFINE rec == record[thread.id]
                new == [[rec EXCEPT !.bound = TRUE] EXCEPT !.status = "RUNNING"]
    <2>1. thread.id \in Ids
      BY <1>2 DEF Bind, Types, ThreadType
    <2>2. rec \in RecordType
      BY <2>1 DEF Types
    <2>3. new.key = rec.key /\ new.params = rec.params
      BY <2>2 DEF RecordType
    <2>4. record' = [record EXCEPT ![thread.id] = new]
      BY <1>2, <2>1 DEF Bind, Types
    <2>. HIDE DEF new
    <2>5. record'[thread.id] = new /\ \A i \in Ids \ {thread.id} : record'[i] = record[i]
      BY <2>1, <2>4 DEF Types
    <2>. QED
      BY <2>1, <2>3, <2>5 DEF KeysStay
  <1>3. ASSUME NEW i \in Ids, Done(i) \/ Expire(i)
        PROVE  KeysStay
    BY <1>3, StatusKeys
  <1>4. ASSUME NEW i \in Ids, NEW final \in BOOLEAN, UpdateRun(i, final)
        PROVE  KeysStay
    BY <1>4 DEF UpdateRun, KeysStay, Types, RecordType
  <1>5. \/ record' = record
        \/ Bind
        \/ \E i \in Ids : Done(i) \/ Expire(i)
        \/ \E i \in Ids, final \in BOOLEAN : UpdateRun(i, final)
    <2>1. CASE UNCHANGED vars
      BY <2>1 DEF vars
    <2>2. CASE Reply \/ Start \/ Restart \/ Crash
      BY <2>2 DEF Reply, Start, Restart, Crash, Dead
    <2>3. CASE \/ \E c \in Calls, k \in Keys, p \in Params : Request(c, k, p)
               \/ \E c \in Calls : Refuse(c) \/ CreatedMeanwhile(c)
      BY <2>3 DEF Request, Refuse, CreatedMeanwhile
    <2>4. CASE \E i \in Ids : Begin(i) \/ Bury(i) \/ PreviewEnds(i) \/ PreviewFails(i)
      BY <2>4 DEF Begin, Bury, PreviewEnds, PreviewFails, Ended, Dead
    <2>5. CASE \E i \in Ids, final \in BOOLEAN : AuditSaves(i, final)
      BY <2>5 DEF AuditSaves, Ended, Dead
    <2>. QED
      BY <2>1, <2>2, <2>3, <2>4, <2>5, StepCases
  <1>. QED
    BY <1>1, <1>2, <1>3, <1>4, <1>5

LEMMA SameDisk == ASSUME KeysStay PROVE OnDisk' = OnDisk
  BY DEF KeysStay, OnDisk

\* create uses an id that has neither record nor tombstone.
LEMMA CreateAdds ==
  ASSUME Types, NEW c \in Calls, NEW i \in Ids, Create(c, i)
  PROVE  /\ i \notin OnDisk /\ i \notin tombs /\ record[i].key = None
         /\ call[c].key \in Keys /\ call[c].params \in Params
         /\ record'[i].key = call[c].key /\ record'[i].params = call[c].params
         /\ \A j \in Ids \ {i} : record'[j] = record[j]
         /\ OnDisk' = OnDisk \cup {i}
  <1>1. call[c].key \in Keys /\ call[c].params \in Params
    BY PreflightType DEF Create
  <1>2. i \notin OnDisk /\ i \notin tombs /\ record[i].key = None
    BY DEF Create, Fresh, OnDisk
  <1>3. /\ record'[i].key = call[c].key /\ record'[i].params = call[c].params
        /\ \A j \in Ids \ {i} : record'[j] = record[j]
    BY DEF Create, Types, Absent
  <1>4. OnDisk' = OnDisk \cup {i}
    BY <1>1, <1>3, RegistryAssumption DEF OnDisk
  <1>. QED
    BY <1>1, <1>2, <1>3, <1>4

\* The sweeper deletes one record, or fails to.
LEMMA UnlinkRemoves ==
  ASSUME Types, Unlink
  PROVE  /\ thread.id \in Ids
         /\ \A j \in Ids \ {thread.id} : record'[j] = record[j]
         /\ \/ record' = record /\ OnDisk' = OnDisk
            \/ record'[thread.id] = Absent /\ OnDisk' = OnDisk \ {thread.id}
         /\ "unlink" \notin Faults => OnDisk' = OnDisk \ {thread.id}
  <1>1. thread.id \in Ids
    BY DEF Unlink, Types, ThreadType
  <1>2. ASSUME record' = [record EXCEPT ![thread.id] = Absent]
        PROVE  /\ record'[thread.id] = Absent
               /\ \A j \in Ids \ {thread.id} : record'[j] = record[j]
               /\ OnDisk' = OnDisk \ {thread.id}
    <2>1. /\ record'[thread.id] = Absent
          /\ \A j \in Ids \ {thread.id} : record'[j] = record[j]
      BY <1>1, <1>2 DEF Types
    <2>. QED
      BY <1>1, <2>1 DEF OnDisk, Absent
  <1>3. record' = record => OnDisk' = OnDisk
    BY DEF OnDisk
  <1>. QED
    BY <1>1, <1>2, <1>3 DEF Unlink

--------------------------------------------------------------------------------
(***************************************************************************)
(* The other parts of the invariant, whatever the faults.                  *)
(***************************************************************************)

LEMMA DeadFits ==
  ASSUME Types, Dead
  PROVE  ThreadFits' /\ IndexFits' /\ KnownFits'
  BY DEF Dead, Idle, Free, ThreadFits, IndexFits, KnownFits, OnDisk

\* The index that a restart builds leads to records, and finds every key.
LEMMA LoadFits ==
  ASSUME Types, Load, KeysStay
  PROVE  /\ known' = OnDisk'
         /\ \A k \in Keys : index'[k] # None => /\ index'[k] \in known'
                                                /\ record'[index'[k]].key = k
         /\ \A i \in OnDisk' : index'[record'[i].key] # None
  <1>1. PICK f \in [Keys -> OnDisk \cup {None}] :
          /\ \A k \in Keys : /\ f[k] # None => record[f[k]].key = k
                             /\ (\E i \in OnDisk : record[i].key = k) => f[k] # None
          /\ index' = f
    BY DEF Load
  <1>2. known' = OnDisk /\ OnDisk' = OnDisk
    BY SameDisk DEF Load
  <1>3. \A i \in OnDisk : i \in Ids /\ record[i].key \in Keys
    BY DEF OnDisk, Types, RecordType
  <1>4. \A k \in Keys : index'[k] # None => index'[k] \in OnDisk /\ record[index'[k]].key = k
    BY <1>1
  <1>5. \A i \in OnDisk : record'[i].key = record[i].key
    BY <1>3 DEF KeysStay
  <1>. QED
    BY <1>1, <1>2, <1>3, <1>4, <1>5

\* What a step that is in nobody's way leaves alone.
LEMMA QuietFits ==
  ASSUME Types, ThreadFits, IndexFits, KnownFits, HandlesFit, KeysStay,
         UNCHANGED <<up, index, thread>>, tombs \subseteq tombs',
         UNCHANGED call \/ Free,
         known \subseteq known', known' \subseteq OnDisk
  PROVE  ThreadFits' /\ IndexFits' /\ KnownFits'
  <1>1. ThreadFits'
    BY ThreadCallType DEF ThreadFits, Free, KeysStay
  <1>2. IndexFits'
    BY DEF IndexFits, KeysStay, Types
  <1>3. KnownFits'
    BY SameDisk DEF KnownFits
  <1>. QED
    BY <1>1, <1>2, <1>3

\* The records are there, and the call gets an answer that leads to one.
LEMMA AnswerFits ==
  ASSUME Types, HandlesFit, NEW c \in Calls, NEW k \in Keys, NEW p \in Params,
         NEW i \in OnDisk, Answer(c, k, p, i),
         UNCHANGED <<record, tombs>>
  PROVE  HandlesFit'
  <1>1. OnDisk' = OnDisk
    BY DEF OnDisk
  <1>2. handle' = handle \/ handle' = [handle EXCEPT ![k] = [id |-> i, params |-> p]]
    BY DEF Answer
  <1>. QED
    BY <1>1, <1>2 DEF HandlesFit, Types

\* Every step keeps these parts.
LEMMA FitsStep ==
  ASSUME Inv, [Next]_vars
  PROVE  ThreadFits' /\ IndexFits' /\ KnownFits'
  <1>. USE DEF Inv
  <1>. USE TypesStep
  <1>1. CASE Bind
    <2>1. KeysStay
      BY <1>1, RecordsStay DEF Bind, Unlink, Create, Free
    <2>. QED
      BY <1>1, <2>1, SameDisk, ThreadCallType
         DEF Bind, ThreadFits, IndexFits, KnownFits, Free, KeysStay, Types
  <1>2. CASE Reply
    BY <1>2 DEF Reply, Idle, ThreadFits, IndexFits, KnownFits, Free, OnDisk
  <1>3. CASE Unlink
    <2>. DEFINE i == thread.id
    <2>1. ThreadFits'
      BY <1>3 DEF Unlink, ThreadFits, Free, Idle
    <2>2. IndexFits'
      BY <1>3, UnlinkRemoves DEF Unlink, IndexFits, Types
    <2>3. i \in tombs
      BY <1>3 DEF Unlink, ThreadFits
    <2>4. KnownFits'
      BY <1>3, <2>3, UnlinkRemoves DEF Unlink, KnownFits
    <2>. QED
      BY <2>1, <2>2, <2>4
  <1>4. CASE Start \/ Restart
    <2>1. KeysStay /\ Load /\ up' /\ UNCHANGED <<tombs, call, thread>>
      BY <1>4 DEF Start, Restart, KeysStay
    <2>2. thread.step = "free"
      BY <1>4 DEF Start, Restart, ThreadFits, Free
    <2>. QED
      BY <2>1, <2>2, LoadFits DEF ThreadFits, IndexFits, KnownFits, Free
  <1>5. CASE Crash
    BY <1>5, DeadFits DEF Crash
  <1>6. ASSUME NEW c \in Calls, NEW k \in Keys, NEW p \in Params, Request(c, k, p)
        PROVE  ThreadFits' /\ IndexFits' /\ KnownFits'
    BY <1>6, QuietFits DEF Request, KeysStay, KnownFits
  <1>7. ASSUME NEW c \in Calls, Refuse(c) \/ CreatedMeanwhile(c)
        PROVE  ThreadFits' /\ IndexFits' /\ KnownFits'
    BY <1>7, QuietFits DEF Refuse, CreatedMeanwhile, KeysStay, KnownFits
  <1>8. ASSUME NEW c \in Calls, NEW i \in Ids, Create(c, i)
        PROVE  ThreadFits' /\ IndexFits' /\ KnownFits'
    <2>1. /\ up' = up /\ up /\ call' = call /\ tombs' = tombs
          /\ thread' = [step |-> IF call[c].key \in Audits THEN "bind" ELSE "reply",
                        call |-> c, id |-> i]
          /\ known' = known \cup {i} /\ index' = [index EXCEPT ![call[c].key] = i]
          /\ call[c].pc = "preflight"
      BY <1>8 DEF Create
    <2>2. ThreadFits'
      BY <1>8, <2>1, CreateAdds DEF ThreadFits, Free
    <2>3. IndexFits'
      <3>. SUFFICES ASSUME NEW k \in Keys, index'[k] # None
                    PROVE  index'[k] \in known' /\ record'[index'[k]].key = k
        BY <2>1 DEF IndexFits
      <3>1. CASE k = call[c].key
        BY <1>8, <2>1, <3>1, CreateAdds DEF Types
      <3>2. CASE k # call[c].key
        BY <1>8, <2>1, <3>2, CreateAdds DEF Types, IndexFits, KnownFits
      <3>. QED
        BY <3>1, <3>2
    <2>4. KnownFits'
      BY <1>8, <2>1, CreateAdds DEF KnownFits
    <2>. QED
      BY <2>2, <2>3, <2>4
  <1>9. ASSUME NEW i \in Ids, Begin(i) \/ Expire(i) \/ PreviewEnds(i) \/ PreviewFails(i)
        PROVE  ThreadFits' /\ IndexFits' /\ KnownFits'
    <2>1. CASE Dead
      BY <2>1, DeadFits
    <2>2. CASE Begin(i) \/ Expire(i) \/ PreviewEnds(i)
      <3>1. KeysStay
        BY <2>2, StatusKeys DEF Begin, PreviewEnds, Ended, KeysStay
      <3>. QED
        BY <2>2, <3>1, QuietFits DEF Begin, Expire, PreviewEnds, Done, Ended, KnownFits
    <2>. QED
      BY <1>9, <2>1, <2>2 DEF PreviewFails
  <1>10. ASSUME NEW i \in Ids, Bury(i)
         PROVE  ThreadFits' /\ IndexFits' /\ KnownFits'
    <2>1. ThreadFits'
      BY <1>10 DEF Bury, ThreadFits, Idle, Free
    <2>2. IndexFits' /\ KnownFits'
      BY <1>10 DEF Bury, IndexFits, KnownFits, OnDisk
    <2>. QED
      BY <2>1, <2>2
  <1>11. ASSUME NEW i \in Ids, NEW final \in BOOLEAN, AuditSaves(i, final)
         PROVE  ThreadFits' /\ IndexFits' /\ KnownFits'
    <2>1. CASE Dead
      BY <2>1, DeadFits
    <2>2. CASE Ended(i)
      BY <1>11, <2>2, QuietFits DEF Ended, KeysStay, KnownFits
    <2>3. CASE i \in OnDisk /\ UpdateRun(i, final)
      <3>1. KeysStay
        BY <2>3 DEF UpdateRun, KeysStay, Types, RecordType
      <3>. QED
        BY <2>3, <3>1, QuietFits DEF UpdateRun, KnownFits
    <2>. QED
      BY <1>11, <2>1, <2>2, <2>3 DEF AuditSaves
  <1>12. CASE UNCHANGED vars
    BY <1>12, QuietFits DEF vars, KeysStay, KnownFits
  <1>. QED
    BY <1>1, <1>2, <1>3, <1>4, <1>5, <1>6, <1>7, <1>8, <1>9, <1>10, <1>11, <1>12, StepCases

\* A handle is given out for a record on disk, and a record is deleted only after
\* its tombstone is written.
LEMMA HandlesStep ==
  ASSUME Inv, [Next]_vars
  PROVE  HandlesFit'
  <1>. USE DEF Inv
  <1>1. \A k \in Keys : index[k] # None => index[k] \in OnDisk
    BY DEF IndexFits, KnownFits
  <1>2. CASE /\ UNCHANGED handle /\ tombs \subseteq tombs'
             /\ OnDisk \subseteq OnDisk' \cup tombs
    BY <1>2 DEF HandlesFit
  <1>3. ASSUME NEW c \in Calls, NEW k \in Keys, NEW p \in Params, Request(c, k, p)
        PROVE  HandlesFit'
    <2>1. CASE UNCHANGED handle
      BY <1>2, <1>3, <2>1 DEF Request, OnDisk
    <2>2. CASE index[k] \in OnDisk /\ Answer(c, k, p, index[k])
      BY <1>3, <2>2, AnswerFits DEF Request
    <2>. QED
      BY <1>1, <1>3, <2>1, <2>2 DEF Request
  <1>4. ASSUME NEW c \in Calls, CreatedMeanwhile(c)
        PROVE  HandlesFit'
    <2>. DEFINE k == call[c].key
    <2>1. k \in Keys /\ call[c].params \in Params
      BY <1>4, PreflightType DEF CreatedMeanwhile
    <2>2. index[k] \in OnDisk
      BY <1>1, <1>4, <2>1 DEF CreatedMeanwhile
    <2>. QED
      BY <1>4, <2>1, <2>2, AnswerFits DEF CreatedMeanwhile
  <1>5. CASE Reply
    <2>. DEFINE k == call[thread.call].key
                new == [id |-> thread.id, params |-> call[thread.call].params]
    <2>1. k \in Keys /\ thread.id \in Ids /\ record[thread.id].key = k
      BY <1>5, ThreadCallType DEF Reply, ThreadFits
    <2>2. thread.id \in OnDisk /\ OnDisk' = OnDisk
      BY <1>5, <2>1, RegistryAssumption DEF OnDisk, Reply
    <2>3. handle' = [handle EXCEPT ![k] = new] /\ new.id = thread.id /\ tombs' = tombs
      BY <1>5 DEF Reply
    <2>. HIDE DEF new, k
    <2>. QED
      BY <2>1, <2>2, <2>3 DEF HandlesFit, Types
  <1>6. CASE Unlink
    <2>1. OnDisk \subseteq OnDisk' \cup tombs
      BY <1>6, UnlinkRemoves DEF Unlink, ThreadFits
    <2>. QED
      BY <1>2, <1>6, <2>1 DEF Unlink
  <1>7. ASSUME NEW c \in Calls, NEW i \in Ids, Create(c, i)
        PROVE  HandlesFit'
    BY <1>2, <1>7, CreateAdds DEF Create
  <1>8. CASE KeysStay /\ UNCHANGED handle /\ tombs \subseteq tombs'
    BY <1>2, <1>8, SameDisk
  <1>9. CASE Bind \/ Start \/ Restart \/ Crash \/ \E c \in Calls : Refuse(c)
    <2>1. CASE Bind
      BY <1>8, <2>1, RecordsStay DEF Bind, Unlink, Create, Free
    <2>2. CASE Start \/ Restart \/ Crash \/ \E c \in Calls : Refuse(c)
      BY <1>8, <2>2 DEF Start, Restart, Crash, Dead, Refuse, KeysStay
    <2>. QED
      BY <1>9, <2>1, <2>2
  <1>10. ASSUME NEW i \in Ids, Begin(i) \/ Expire(i) \/ Bury(i) \/ PreviewEnds(i) \/ PreviewFails(i)
         PROVE  HandlesFit'
    <2>1. KeysStay /\ UNCHANGED handle /\ tombs \subseteq tombs'
      BY <1>10, StatusKeys
         DEF Begin, Expire, Bury, PreviewEnds, PreviewFails, Done, Ended, Dead, KeysStay
    <2>. QED
      BY <1>8, <2>1
  <1>11. ASSUME NEW i \in Ids, NEW final \in BOOLEAN, AuditSaves(i, final)
         PROVE  HandlesFit'
    <2>1. CASE Dead \/ Ended(i)
      BY <1>8, <2>1 DEF Dead, Ended, KeysStay
    <2>2. CASE UpdateRun(i, final)
      BY <1>8, <2>2 DEF UpdateRun, KeysStay, Types, RecordType
    <2>. QED
      BY <1>11, <2>1, <2>2 DEF AuditSaves
  <1>12. CASE UNCHANGED vars
    BY <1>8, <1>12 DEF vars, KeysStay
  <1>. QED
    BY <1>3, <1>4, <1>5, <1>6, <1>7, <1>9, <1>10, <1>11, <1>12, StepCases

LEMMA InitInv == Init => Inv
  <1>. SUFFICES ASSUME Init PROVE Inv
    OBVIOUS
  <1>1. Types
    BY TypeParts DEF Init, Types
  <1>2. ThreadFits
    BY DEF Init, Idle, Free, ThreadFits
  <1>3. IndexFits /\ KnownFits /\ HandlesFit
    BY DEF Init, Absent, Nothing, IndexFits, KnownFits, HandlesFit, OnDisk
  <1>. QED
    BY <1>1, <1>2, <1>3 DEF Inv

LEMMA NextInv == Inv /\ [Next]_vars => Inv'
  BY TypesStep, FitsStep, HandlesStep DEF Inv

\* The invariant holds in every state the server reaches, whatever goes wrong.
THEOREM Invariant == Spec => []Inv
  BY InitInv, NextInv, PTL DEF Spec

\* A step that is neither create nor a deletion does not touch what is not there.
LEMMA NothingFromNothing ==
  ASSUME Inv, Next, NEW i \in Ids, i \in tombs, record[i] = Absent
  PROVE  record'[i] = Absent
  <1>1. Types /\ i \notin OnDisk /\ i \notin known
    BY DEF Inv, KnownFits, OnDisk, Absent
  <1>2. CASE Unlink \/ \E c \in Calls, j \in Ids : Create(c, j)
    BY <1>1, <1>2, UnlinkRemoves, CreateAdds
  <1>3. CASE Bind
    <2>1. thread.id \in Ids /\ record[thread.id].key \in Keys
      BY <1>1, <1>3, ThreadCallType DEF Bind, Inv, ThreadFits
    <2>2. thread.id # i
      BY <2>1, RegistryAssumption DEF Absent
    <2>. QED
      BY <1>1, <1>3, <2>2 DEF Bind, Types
  <1>4. ASSUME NEW j \in Ids, j \in OnDisk, Done(j) \/ Expire(j) \/ \E final \in BOOLEAN : UpdateRun(j, final)
        PROVE  record'[i] = Absent
    BY <1>1, <1>4 DEF Done, Expire, UpdateRun, Types
  <1>5. CASE record' = record
    BY <1>5
  <1>6. CASE Reply \/ Start \/ Restart \/ Crash
    BY <1>5, <1>6 DEF Reply, Start, Restart, Crash, Dead
  <1>7. CASE \/ \E c \in Calls, k \in Keys, p \in Params : Request(c, k, p)
             \/ \E c \in Calls : Refuse(c) \/ CreatedMeanwhile(c)
    BY <1>5, <1>7 DEF Request, Refuse, CreatedMeanwhile
  <1>8. ASSUME NEW j \in Ids, Begin(j) \/ Expire(j) \/ Bury(j) \/ PreviewEnds(j) \/ PreviewFails(j)
        PROVE  record'[i] = Absent
    <2>1. \/ record' = record
          \/ j \in known /\ Done(j)
          \/ Expire(j)
      BY <1>8 DEF Begin, Bury, PreviewEnds, PreviewFails, Ended, Dead
    <2>2. j \in known => j \in OnDisk
      BY DEF Inv, KnownFits
    <2>3. Expire(j) => j \in OnDisk
      BY DEF Expire
    <2>. QED
      BY <1>4, <1>5, <2>1, <2>2, <2>3
  <1>9. ASSUME NEW j \in Ids, NEW final \in BOOLEAN, AuditSaves(j, final)
        PROVE  record'[i] = Absent
    BY <1>4, <1>5, <1>9 DEF AuditSaves, Ended, Dead
  <1>. QED
    BY <1>2, <1>3, <1>6, <1>7, <1>8, <1>9, StepCases

\* A result that arrives after the sweep does not bring the record back.
THEOREM SweptRecordsStaySwept == Spec => SweptStaysSwept
  <1>1. Inv /\ [Next]_vars => [\A i \in tombs : record[i] = Absent => record'[i] = Absent]_vars
    BY NothingFromNothing DEF Inv, Types, vars
  <1>. QED
    BY <1>1, Invariant, PTL DEF Spec, SweptStaysSwept

\* Who holds a handle finds its operation or its tombstone.
THEOREM HandlesAreKept == Spec => []HandlesKept
  <1>1. Inv => HandlesKept
    BY DEF Inv, HandlesFit, KnownFits, HandlesKept, Nothing
  <1>. QED
    BY <1>1, Invariant, PTL

--------------------------------------------------------------------------------
(***************************************************************************)
(* Where the process does not die between two writes of one call, no audit *)
(* is left without its Run.                                                *)
(***************************************************************************)

\* The bind step of thread is the only one that an audit on disk can wait for.
AuditsBound ==
  \A i \in OnDisk :
    record[i].key \in Audits /\ ~record[i].bound => thread.step = "bind" /\ thread.id = i

\* A rejection that nothing catches ends the process between two segments.
LEMMA AuditsBoundDead ==
  ASSUME AuditsBound, Free, Dead
  PROVE  AuditsBound'
  BY DEF AuditsBound, Free, Dead, OnDisk

\* Bind finishes what Create began.
LEMMA AuditsBoundCreated ==
  ASSUME Inv, AuditsBound, Bind \/ \E c \in Calls, i \in Ids : Create(c, i)
  PROVE  AuditsBound'
  <1>. Types
    BY DEF Inv
  <1>1. CASE Bind
    <2>1. thread.id \in Ids
      BY <1>1, ThreadCallType DEF Inv, Bind
    <2>2. record[thread.id] \in RecordType
      BY <2>1 DEF Types
    <2>3. record'[thread.id].bound /\ \A j \in Ids \ {thread.id} : record'[j] = record[j]
      BY <1>1, <2>1, <2>2 DEF Bind, Types, RecordType
    <2>. QED
      BY <1>1, <2>1, <2>3 DEF AuditsBound, OnDisk
  <1>2. ASSUME NEW c \in Calls, NEW i \in Ids, Create(c, i)
        PROVE  AuditsBound'
    <2>1. /\ record'[i].key = call[c].key
          /\ \A j \in Ids \ {i} : record'[j] = record[j]
          /\ OnDisk' = OnDisk \cup {i}
      BY <1>2, CreateAdds
    <2>2. \A j \in OnDisk : record[j].key \in Audits => record[j].bound
      BY <1>2 DEF AuditsBound, Create, Free
    <2>3. call[c].key \in Audits => thread'.step = "bind" /\ thread'.id = i
      BY <1>2 DEF Create
    <2>. QED
      BY <2>1, <2>2, <2>3, OnDiskType DEF AuditsBound
  <1>. QED
    BY <1>1, <1>2

\* The other steps leave the requests and the Runs of the records alone, and begin
\* or end no bind step.
LEMMA AuditsBoundKept ==
  ASSUME AuditsBound, Types, thread.step # "bind",
         \A i \in Ids : \/ record'[i].key = None
                        \/ record'[i].key = record[i].key /\ record'[i].bound = record[i].bound
  PROVE  AuditsBound'
  <1>1. \A i \in OnDisk : record[i].key \in Audits => record[i].bound
    BY DEF AuditsBound
  <1>. QED
    BY <1>1 DEF AuditsBound, OnDisk

\* What update and Expire write has the Run that was there.
LEMMA StatusBound ==
  ASSUME Types, NEW i \in Ids,
         Done(i) \/ Expire(i) \/ \E final \in BOOLEAN : UpdateRun(i, final)
  PROVE  \A j \in Ids : record'[j].key = record[j].key /\ record'[j].bound = record[j].bound
  <1>1. CASE Done(i)
    BY <1>1 DEF Done, Types, RecordType
  <1>2. CASE Expire(i)
    BY <1>2 DEF Expire, Types, RecordType
  <1>3. CASE \E final \in BOOLEAN : UpdateRun(i, final)
    BY <1>3 DEF UpdateRun, Types, RecordType
  <1>. QED
    BY <1>1, <1>2, <1>3

LEMMA AuditsBoundStep ==
  ASSUME "crash" \notin Faults, Inv, AuditsBound, [Next]_vars
  PROVE  AuditsBound'
  <1>. Types
    BY DEF Inv
  <1>1. CASE UNCHANGED vars
    BY <1>1 DEF vars, AuditsBound, OnDisk
  <1>2. CASE Bind \/ \E c \in Calls, i \in Ids : Create(c, i)
    BY <1>2, AuditsBoundCreated
  <1>3. CASE UNCHANGED record /\ thread.step # "bind"
    BY <1>3, AuditsBoundKept
  <1>4. CASE UNCHANGED <<record, thread>>
    BY <1>4 DEF AuditsBound, OnDisk
  <1>5. CASE Unlink
    <2>1. \/ record' = record
          \/ record'[thread.id] = Absent /\ \A i \in Ids \ {thread.id} : record'[i] = record[i]
      BY <1>5, UnlinkRemoves
    <2>2. Absent.key = None
      BY DEF Absent
    <2>3. thread.step # "bind"
      BY <1>5 DEF Unlink
    <2>4. \A i \in Ids : \/ record'[i].key = None
                         \/ record'[i].key = record[i].key /\ record'[i].bound = record[i].bound
      BY <2>1, <2>2
    <2>. QED
      BY <2>3, <2>4, AuditsBoundKept
  <1>6. CASE Reply \/ Start \/ Restart
    BY <1>3, <1>4, <1>6 DEF Reply, Start, Restart
  <1>7. CASE \/ \E c \in Calls, k \in Keys, p \in Params : Request(c, k, p)
             \/ \E c \in Calls : Refuse(c) \/ CreatedMeanwhile(c)
    BY <1>4, <1>7 DEF Request, Refuse, CreatedMeanwhile
  <1>8. ASSUME NEW i \in Ids, Begin(i) \/ Bury(i)
        PROVE  AuditsBound'
    BY <1>3, <1>4, <1>8 DEF Begin, Bury
  <1>9. ASSUME NEW i \in Ids, Free,
               Done(i) \/ Expire(i) \/ \E final \in BOOLEAN : UpdateRun(i, final)
        PROVE  AuditsBound'
    BY <1>9, StatusBound, AuditsBoundKept DEF Free
  <1>10. ASSUME NEW i \in Ids, PreviewEnds(i) \/ PreviewFails(i) \/ Expire(i)
                                 \/ \E final \in BOOLEAN : AuditSaves(i, final)
         PROVE  AuditsBound'
    <2>1. Free
      BY <1>10 DEF PreviewEnds, PreviewFails, Expire, AuditSaves
    <2>2. \/ Dead \/ Ended(i)
          \/ Done(i) \/ Expire(i) \/ \E final \in BOOLEAN : UpdateRun(i, final)
      BY <1>10 DEF PreviewEnds, PreviewFails, AuditSaves
    <2>. QED
      BY <1>4, <1>9, <2>1, <2>2, AuditsBoundDead DEF Ended
  <1>11. CASE Crash
    BY <1>11 DEF Crash
  <1>. QED
    BY <1>1, <1>2, <1>5, <1>6, <1>7, <1>8, <1>10, <1>11, StepCases

\* The look-up leads to a record of the key, and between segments an audit is bound.
LEMMA ServedStep ==
  ASSUME Inv, AuditsBound, RetriesServed, [Next]_vars
  PROVE  RetriesServed'
  <1>. Types
    BY DEF Inv
  <1>1. ASSUME NEW c \in Calls, NEW k \in Keys, NEW p \in Params, Free,
               index[k] # None, Answer(c, k, p, index[k])
        PROVE  RetriesServed'
    <2>1. index[k] \in OnDisk /\ record[index[k]].key = k
      BY <1>1 DEF Inv, IndexFits, KnownFits
    <2>2. k \in Audits => record[index[k]].bound
      BY <1>1, <2>1 DEF AuditsBound, Free
    <2>3. call' = [call EXCEPT ![c] = NoCall]
      BY <1>1, <2>2 DEF Answer
    <2>. QED
      BY <2>3 DEF RetriesServed, Types, NoCall
  <1>2. CASE UNCHANGED call
    BY <1>2 DEF RetriesServed
  <1>3. ASSUME NEW c \in Calls, NEW k \in Keys, NEW p \in Params, Request(c, k, p)
        PROVE  RetriesServed'
    BY <1>1, <1>3 DEF Request, RetriesServed, Types
  <1>4. ASSUME NEW c \in Calls, CreatedMeanwhile(c)
        PROVE  RetriesServed'
    BY <1>1, <1>4, PreflightType DEF CreatedMeanwhile
  <1>5. ASSUME NEW c \in Calls, Refuse(c)
        PROVE  RetriesServed'
    BY <1>5 DEF Refuse, RetriesServed, Types, NoCall
  <1>6. CASE Reply
    BY <1>6 DEF Reply, RetriesServed, Types, NoCall
  <1>7. CASE Dead
    BY <1>7 DEF Dead, RetriesServed, NoCall
  <1>8. CASE \/ Bind \/ Unlink \/ Start \/ Restart \/ UNCHANGED vars
             \/ \E c \in Calls, i \in Ids : Create(c, i)
             \/ \E i \in Ids : Begin(i) \/ Expire(i) \/ Bury(i)
    BY <1>2, <1>8 DEF Bind, Unlink, Start, Restart, vars, Create, Begin, Expire, Bury
  <1>9. ASSUME NEW i \in Ids, PreviewEnds(i) \/ PreviewFails(i)
                                \/ \E final \in BOOLEAN : AuditSaves(i, final)
        PROVE  RetriesServed'
    BY <1>2, <1>7, <1>9 DEF PreviewEnds, PreviewFails, AuditSaves, Done, Ended, UpdateRun
  <1>10. CASE Crash
    BY <1>7, <1>10 DEF Crash
  <1>. QED
    BY <1>3, <1>4, <1>5, <1>6, <1>8, <1>9, <1>10, StepCases

\* Where only rejections end the process, a repeated run_audit is never answered with
\* an operation that has no Run: concurrent calls, restarts, retention and failing
\* deletions included.
THEOREM RetriesAreServed == ASSUME "crash" \notin Faults PROVE Spec => []RetriesServed
  <1>. DEFINE Served == Inv /\ AuditsBound /\ RetriesServed
  <1>1. Init => Served
    BY InitInv, SMT DEF Init, Absent, NoCall, OnDisk, AuditsBound, RetriesServed
  <1>2. Served /\ [Next]_vars => Served'
    BY NextInv, AuditsBoundStep, ServedStep
  <1>3. Served => RetriesServed
    OBVIOUS
  <1>. QED
    BY <1>1, <1>2, <1>3, PTL DEF Spec

--------------------------------------------------------------------------------
(***************************************************************************)
(* Where deletions succeed there is one record for each key at most.       *)
(***************************************************************************)

\* A step that changes neither the requests on disk nor the memory.
LEMMA StillExact ==
  ASSUME Exact, KeysStay, UNCHANGED index, known' = known \/ ~up',
         up' => up
  PROVE  OneRecord' /\ AllFound'
  <1>1. OnDisk' = OnDisk
    BY SameDisk
  <1>2. \A i \in OnDisk : record'[i].key = record[i].key
    BY OnDiskType DEF KeysStay
  <1>. QED
    BY <1>1, <1>2 DEF Exact, OneRecord, AllFound

LEMMA ExactStep ==
  ASSUME "unlink" \notin Faults, Exact, [Next]_vars
  PROVE  OneRecord' /\ AllFound'
  <1>. USE DEF Inv
  <1>t. Types /\ Inv
    BY DEF Exact
  <1>d. ASSUME Dead, record' = record
        PROVE  OneRecord' /\ AllFound'
    BY <1>d DEF Dead, OneRecord, AllFound, Exact, OnDisk
  <1>1. CASE Bind
    BY <1>t, <1>1, StillExact, RecordsStay DEF Bind, Unlink, Create, Free
  <1>2. CASE Unlink
    <2>1. OnDisk' = OnDisk \ {thread.id} /\ \A j \in OnDisk' : record'[j] = record[j]
      BY <1>t, <1>2, UnlinkRemoves, OnDiskType
    <2>2. OneRecord'
      BY <2>1 DEF OneRecord, Exact
    <2>3. \A j \in OnDisk : record[j].key \in Keys
      BY <1>t DEF OnDisk, Types, RecordType
    <2>4. AllFound'
      <3>. SUFFICES ASSUME up'
                    PROVE  known' = OnDisk' /\ \A j \in OnDisk' : index'[record'[j].key] = j
        BY DEF AllFound
      <3>1. up
        BY <1>2 DEF Unlink
      <3>2. \A j \in OnDisk : index[record[j].key] = j
        BY <3>1 DEF Exact, AllFound
      <3>3. \A j \in OnDisk' : index'[record[j].key] = j
        BY <1>2, <2>1, <2>3, <3>2 DEF Unlink
      <3>. QED
        BY <1>2, <2>1, <3>1, <3>3 DEF Unlink, Exact, AllFound
    <2>. QED
      BY <2>2, <2>4
  <1>3. CASE Start \/ Restart
    <2>1. KeysStay /\ Load
      BY <1>3 DEF Start, Restart, KeysStay
    <2>2. OneRecord'
      BY <2>1, SameDisk, OnDiskType DEF OneRecord, KeysStay, Exact
    <2>3. \A i \in OnDisk' : record'[i].key \in Keys /\ i \in Ids
      BY <1>t, TypesStep DEF OnDisk, Types, RecordType
    <2>4. AllFound'
      BY <1>t, <2>1, <2>2, <2>3, LoadFits DEF OneRecord, AllFound
    <2>. QED
      BY <2>2, <2>4
  <1>4. ASSUME NEW c \in Calls, NEW i \in Ids, Create(c, i)
        PROVE  OneRecord' /\ AllFound'
    <2>. DEFINE k == call[c].key
    <2>1. /\ k \in Keys /\ OnDisk' = OnDisk \cup {i} /\ i \notin OnDisk
          /\ record'[i].key = k /\ \A j \in OnDisk : record'[j] = record[j]
      BY <1>t, <1>4, CreateAdds, OnDiskType
    <2>2. /\ up /\ index[k] = None /\ up' = up
          /\ index' = [index EXCEPT ![k] = i] /\ known' = known \cup {i}
      BY <1>4 DEF Create
    <2>3. \A j \in OnDisk : j # None /\ record[j].key \in Keys /\ index[record[j].key] = j
      BY <1>t, <2>2, OnDiskType, RegistryAssumption DEF Exact, AllFound, OnDisk, Types, RecordType
    <2>4. \A j \in OnDisk : record[j].key # k
      BY <2>2, <2>3
    <2>5. OneRecord'
      BY <2>1, <2>4 DEF OneRecord, Exact
    <2>6. \A j \in OnDisk' : index'[record'[j].key] = j
      BY <1>t, <2>1, <2>2, <2>3, <2>4 DEF Types
    <2>7. AllFound'
      BY <2>1, <2>2, <2>6 DEF AllFound, Exact
    <2>. QED
      BY <2>5, <2>7
  <1>5. CASE Reply \/ Crash \/ UNCHANGED vars
    <2>1. CASE Crash
      BY <1>d, <2>1 DEF Crash, Dead
    <2>2. CASE Reply \/ UNCHANGED vars
      BY <2>2, StillExact DEF Reply, vars, KeysStay
    <2>. QED
      BY <1>5, <2>1, <2>2
  <1>6. CASE \/ \E c \in Calls, k \in Keys, p \in Params : Request(c, k, p)
             \/ \E c \in Calls : Refuse(c) \/ CreatedMeanwhile(c)
    BY <1>6, StillExact DEF Request, Refuse, CreatedMeanwhile, KeysStay
  <1>7. ASSUME NEW i \in Ids, Begin(i) \/ Expire(i) \/ Bury(i) \/ PreviewEnds(i) \/ PreviewFails(i)
        PROVE  OneRecord' /\ AllFound'
    <2>1. CASE PreviewFails(i)
      BY <1>d, <2>1 DEF PreviewFails, Dead
    <2>2. CASE Begin(i) \/ Expire(i) \/ Bury(i) \/ PreviewEnds(i)
      <3>1. KeysStay /\ UNCHANGED <<up, index, known>>
        BY <1>t, <2>2, StatusKeys
           DEF Begin, Expire, Bury, PreviewEnds, Done, Ended, KeysStay
      <3>. QED
        BY <3>1, StillExact
    <2>. QED
      BY <1>7, <2>1, <2>2
  <1>8. ASSUME NEW i \in Ids, NEW final \in BOOLEAN, AuditSaves(i, final)
        PROVE  OneRecord' /\ AllFound'
    <2>1. CASE Dead
      BY <1>d, <2>1 DEF Dead
    <2>2. CASE Ended(i)
      BY <2>2, StillExact DEF Ended, KeysStay
    <2>3. CASE i \in OnDisk /\ UpdateRun(i, final)
      <3>1. KeysStay
        BY <1>t, <2>3 DEF UpdateRun, KeysStay, Types, RecordType
      <3>2. known = OnDisk
        BY <1>8 DEF AuditSaves, Exact, AllFound
      <3>. QED
        BY <2>3, <3>1, <3>2, StillExact DEF UpdateRun
    <2>. QED
      BY <1>8, <2>1, <2>2, <2>3 DEF AuditSaves
  <1>. QED
    BY <1>1, <1>2, <1>3, <1>4, <1>5, <1>6, <1>7, <1>8, StepCases

LEMMA InitExact == Init => Exact
  BY InitInv, SMT DEF Init, Absent, Exact, OneRecord, AllFound, OnDisk

LEMMA NextExact == "unlink" \notin Faults => (Exact /\ [Next]_vars => Exact')
  BY ExactStep, NextInv DEF Exact

\* Where deletions succeed, the memory is the disk's and a key has one record.
THEOREM MemoryIsExact == ASSUME "unlink" \notin Faults PROVE Spec => []MemoryAgrees
  <1>1. Exact /\ [Next]_vars => Exact'
    BY NextExact
  <1>2. Exact => MemoryAgrees
    <2>. SUFFICES ASSUME Exact, up
                  PROVE  /\ known = OnDisk
                         /\ \A k \in Keys, i \in Ids :
                              index[k] = i <=> i \in known /\ record[i].key = k
      BY DEF MemoryAgrees
    <2>1. known = OnDisk /\ \A i \in OnDisk : index[record[i].key] = i
      BY DEF Exact, AllFound
    <2>2. \A k \in Keys, i \in Ids : index[k] = i => i \in known /\ record[i].key = k
      BY RegistryAssumption DEF Exact, Inv, IndexFits
    <2>. QED
      BY <2>1, <2>2
  <1>. QED
    BY <1>1, <1>2, InitExact, PTL DEF Spec

--------------------------------------------------------------------------------
(***************************************************************************)
(* What the records promise: the refinement.                               *)
(***************************************************************************)

LEMMA TableHas ==
  ASSUME OneRecord, NEW k \in Keys, NEW i \in Ids, record[i].key = k
  PROVE  Table[k] = [id |-> i, params |-> record[i].params]
  <1>1. i \in OnDisk
    BY RegistryAssumption DEF OnDisk
  <1>2. \A j \in OnDisk : record[j].key = k => j = i
    BY <1>1 DEF OneRecord
  <1>. DEFINE j == CHOOSE j \in OnDisk : record[j].key = k
  <1>3. j = i
    BY <1>1, <1>2
  <1>4. Table[k] = [id |-> j, params |-> record[j].params]
    BY <1>1 DEF Table
  <1>. QED
    BY <1>3, <1>4

LEMMA TableLacks ==
  ASSUME NEW k \in Keys, \A i \in Ids : record[i].key # k
  PROVE  Table[k] = Nothing
  BY OnDiskType DEF Table

\* The same, in the next state.
LEMMA TableThen ==
  ASSUME OneRecord', NEW k \in Keys
  PROVE  /\ \A i \in Ids : record'[i].key = k =>
              Table'[k] = [id |-> i, params |-> record'[i].params]
         /\ (\A i \in Ids : record'[i].key # k) => Table'[k] = Nothing
  <1>1. ASSUME NEW i \in Ids, record'[i].key = k
        PROVE  Table'[k] = [id |-> i, params |-> record'[i].params]
    <2>1. i \in OnDisk'
      BY <1>1, RegistryAssumption DEF OnDisk
    <2>2. \A j \in OnDisk' : record'[j].key = k => j = i
      BY <1>1, <2>1 DEF OneRecord
    <2>. DEFINE j == CHOOSE j \in OnDisk' : record'[j].key = k
    <2>3. j = i
      BY <1>1, <2>1, <2>2
    <2>4. Table'[k] = [id |-> j, params |-> record'[j].params]
      BY <1>1, <2>1 DEF Table
    <2>. QED
      BY <2>3, <2>4
  <1>2. (\A i \in Ids : record'[i].key # k) => Table'[k] = Nothing
    BY DEF Table, OnDisk, Nothing
  <1>. QED
    BY <1>1, <1>2

\* The table is a function on the keys.
LEMMA TableDomain ==
  /\ Table = [k \in Keys |-> Table[k]]
  /\ Table' = [k \in Keys |-> Table'[k]]
  BY DEF Table

LEMMA TableStays ==
  ASSUME OneRecord, OneRecord', KeysStay
  PROVE  Table' = Table
  <1>1. ASSUME NEW k \in Keys
        PROVE  Table'[k] = Table[k]
    <2>1. CASE \A i \in Ids : record[i].key # k
      <3>1. \A i \in Ids : record'[i].key # k
        BY <2>1 DEF KeysStay
      <3>. QED
        BY <2>1, <3>1, TableLacks, TableThen
    <2>2. ASSUME NEW i \in Ids, record[i].key = k
          PROVE  Table'[k] = Table[k]
      <3>1. record'[i].key = k /\ record'[i].params = record[i].params
        BY <2>2 DEF KeysStay
      <3>2. Table[k] = [id |-> i, params |-> record[i].params]
        BY <2>2, TableHas
      <3>3. Table'[k] = [id |-> i, params |-> record'[i].params]
        BY <3>1, TableThen
      <3>. QED
        BY <3>1, <3>2, <3>3
    <2>. QED
      BY <2>1, <2>2
  <1>. QED
    BY <1>1, TableDomain

\* A client that is answered gets what the table holds.
LEMMA AnswerKeeps ==
  ASSUME Exact, NEW c \in Calls, NEW k \in Keys, NEW p \in Params,
         index[k] # None, Answer(c, k, p, index[k])
  PROVE  handle' = handle \/ (Table[k] # Nothing /\ handle' = [handle EXCEPT ![k] = Table[k]])
  <1>. DEFINE i == index[k]
  <1>1. i \in Ids /\ record[i].key = k
    BY DEF Exact, Inv, Types, IndexFits
  <1>2. Table[k] = [id |-> i, params |-> record[i].params]
    BY <1>1, TableHas DEF Exact
  <1>3. Table[k] # Nothing
    BY <1>1, <1>2, RegistryAssumption DEF Nothing
  <1>. HIDE DEF i
  <1>4. handle' = handle \/ (record[i].params = p /\ handle' = [handle EXCEPT ![k] = [id |-> i, params |-> p]])
    BY DEF Answer, i
  <1>. QED
    BY <1>2, <1>3, <1>4

LEMMA CreateAccepts ==
  ASSUME "unlink" \notin Faults, Exact, NEW c \in Calls, NEW i \in Ids, Create(c, i), OneRecord'
  PROVE  Promise!Accept(call[c].key, call[c].params, i)
  <1>. DEFINE k == call[c].key
              p == call[c].params
  <1>1. Types
    BY DEF Exact, Inv
  <1>2. /\ k \in Keys /\ record[i].key = None
        /\ record'[i].key = k /\ record'[i].params = p
        /\ \A j \in Ids \ {i} : record'[j] = record[j]
    BY <1>1, CreateAdds
  <1>. HIDE DEF k, p
  <1>3. up /\ index[k] = None /\ handle' = handle
    BY DEF Create, k
  <1>4. \A j \in Ids : record[j].key # k
    <2>1. \A j \in OnDisk : index[record[j].key] = j /\ j # None
      BY <1>3, OnDiskType, RegistryAssumption DEF Exact, AllFound
    <2>2. \A j \in Ids : record[j].key = k => j \in OnDisk
      BY <1>2, RegistryAssumption DEF OnDisk
    <2>. QED
      BY <1>3, <2>1, <2>2
  <1>5. Table[k] = Nothing
    BY <1>2, <1>4, TableLacks
  <1>6. ASSUME NEW other \in Keys
        PROVE  /\ Table[other].id # i
               /\ Table'[other] = IF other = k THEN [id |-> i, params |-> p] ELSE Table[other]
    <2>1. CASE other = k
      BY <1>2, <1>5, <2>1, TableThen, RegistryAssumption DEF Nothing
    <2>2. CASE other # k /\ \A j \in Ids : record[j].key # other
      <3>1. \A j \in Ids : record'[j].key # other
        BY <1>2, <2>2
      <3>2. Table[other] = Nothing /\ Table'[other] = Nothing
        BY <2>2, <3>1, TableLacks, TableThen
      <3>. QED
        BY <2>2, <3>2, RegistryAssumption DEF Nothing
    <2>3. ASSUME other # k, NEW j \in Ids, record[j].key = other
          PROVE  Table[other].id # i /\ Table'[other] = Table[other]
      <3>1. j # i /\ record'[j] = record[j]
        BY <1>2, <2>3, RegistryAssumption
      <3>2. Table[other] = [id |-> j, params |-> record[j].params]
        BY <2>3, TableHas DEF Exact
      <3>3. Table'[other] = [id |-> j, params |-> record[j].params]
        BY <2>3, <3>1, TableThen
      <3>. QED
        BY <3>1, <3>2, <3>3
    <2>. QED
      BY <2>1, <2>2, <2>3
  <1>7. Table' = [Table EXCEPT ![k] = [id |-> i, params |-> p]]
    BY <1>2, <1>6, TableDomain
  <1>. QED
    BY <1>3, <1>5, <1>6, <1>7 DEF Promise!Accept, Promise!Nothing, Nothing, k, p

LEMMA UnlinkForgets ==
  ASSUME "unlink" \notin Faults, Exact, Unlink, OneRecord'
  PROVE  \/ UNCHANGED <<Table, handle>>
         \/ \E k \in Keys : Promise!Forget(k)
  <1>. DEFINE i == thread.id
              k == record[i].key
  <1>1. Types /\ OneRecord
    BY DEF Exact, Inv
  <1>2. /\ i \in Ids /\ handle' = handle /\ record'[i].key = None
        /\ \A j \in Ids \ {i} : record'[j] = record[j]
    BY <1>1, UnlinkRemoves DEF Unlink, Absent, OnDisk
  <1>. HIDE DEF i
  <1>3. CASE i \notin OnDisk
    <2>1. UNCHANGED Table
      <3>1. ASSUME NEW other \in Keys
            PROVE  Table'[other] = Table[other]
        <4>1. CASE \A j \in Ids : record[j].key # other
          <5>1. \A j \in Ids : record'[j].key # other
            BY <1>2, <4>1, RegistryAssumption
          <5>. QED
            BY <4>1, <5>1, TableLacks, TableThen
        <4>2. ASSUME NEW j \in Ids, record[j].key = other
              PROVE  Table'[other] = Table[other]
          <5>1. record'[j] = record[j]
            BY <1>2, <1>3, <4>2, RegistryAssumption DEF OnDisk
          <5>2. Table[other] = [id |-> j, params |-> record[j].params]
            BY <1>1, <4>2, TableHas
          <5>3. Table'[other] = [id |-> j, params |-> record[j].params]
            BY <4>2, <5>1, TableThen
          <5>. QED
            BY <5>2, <5>3
        <4>. QED
          BY <4>1, <4>2
      <3>. QED
        BY <3>1, TableDomain
    <2>. QED
      BY <1>2, <2>1
  <1>4. CASE i \in OnDisk
    <2>1. k \in Keys
      BY <1>1, <1>2, <1>4 DEF OnDisk, Types, RecordType
    <2>2. Table[k] = [id |-> i, params |-> record[i].params]
      BY <1>1, <1>2, <2>1, TableHas
    <2>3. Table[k] # Nothing
      BY <1>2, <2>2, RegistryAssumption DEF Nothing
    <2>4. ASSUME NEW other \in Keys
          PROVE  Table'[other] = IF other = k THEN Nothing ELSE Table[other]
      <3>1. CASE \A j \in Ids \ {i} : record[j].key # other
        <4>1. \A j \in Ids : record'[j].key # other
          BY <1>2, <3>1, RegistryAssumption
        <4>2. Table'[other] = Nothing
          BY <4>1, TableThen
        <4>3. other # k => Table[other] = Nothing
          BY <3>1, TableLacks
        <4>. QED
          BY <4>2, <4>3
      <3>2. ASSUME NEW j \in Ids \ {i}, record[j].key = other
            PROVE  Table'[other] = IF other = k THEN Nothing ELSE Table[other]
        <4>1. other # k
          BY <1>1, <1>4, <3>2, RegistryAssumption DEF OneRecord, OnDisk
        <4>2. record'[j] = record[j]
          BY <1>2, <3>2
        <4>3. Table'[other] = [id |-> j, params |-> record[j].params]
          BY <3>2, <4>2, TableThen
        <4>4. Table[other] = [id |-> j, params |-> record[j].params]
          BY <1>1, <3>2, TableHas
        <4>. QED
          BY <4>1, <4>3, <4>4
      <3>. QED
        BY <3>1, <3>2
    <2>. HIDE DEF k
    <2>5. Table' = [Table EXCEPT ![k] = Nothing]
      BY <2>1, <2>4, TableDomain
    <2>. QED
      BY <1>2, <2>1, <2>3, <2>5 DEF Promise!Forget, Promise!Nothing, Nothing
  <1>. QED
    BY <1>3, <1>4

\* Every step is one that the promise allows.
LEMMA PromiseStep ==
  ASSUME "unlink" \notin Faults, Exact, [Next]_vars
  PROVE  [Promise!Next]_Promise!vars
  <1>. USE DEF Promise!vars, Promise!Nothing
  <1>1. OneRecord /\ OneRecord' /\ Types
    BY ExactStep DEF Exact, Inv
  <1>a. ASSUME NEW k \in Keys, KeysStay,
               handle' = handle \/ (Table[k] # Nothing /\ handle' = [handle EXCEPT ![k] = Table[k]])
        PROVE  [Promise!Next]_Promise!vars
    <2>1. UNCHANGED Table
      BY <1>1, <1>a, TableStays
    <2>2. UNCHANGED <<Table, handle>> \/ Promise!Answer(k)
      BY <1>a, <2>1 DEF Promise!Answer, Nothing
    <2>. QED
      BY <2>2 DEF Promise!Next
  <1>2. CASE Unlink
    BY <1>1, <1>2, UnlinkForgets DEF Promise!Next
  <1>3. ASSUME NEW c \in Calls, NEW i \in Ids, Create(c, i)
        PROVE  [Promise!Next]_Promise!vars
    <2>1. call[c].key \in Keys /\ call[c].params \in Params
      BY <1>1, <1>3, CreateAdds
    <2>2. Promise!Accept(call[c].key, call[c].params, i)
      BY <1>1, <1>3, CreateAccepts
    <2>. QED
      BY <2>1, <2>2 DEF Promise!Next
  <1>4. ASSUME NEW c \in Calls, NEW k \in Keys, NEW p \in Params, Request(c, k, p)
        PROVE  [Promise!Next]_Promise!vars
    <2>1. KeysStay
      BY <1>4 DEF Request, KeysStay
    <2>2. handle' = handle \/ (Table[k] # Nothing /\ handle' = [handle EXCEPT ![k] = Table[k]])
      BY <1>4, AnswerKeeps DEF Request
    <2>. QED
      BY <1>a, <2>1, <2>2
  <1>5. ASSUME NEW c \in Calls, CreatedMeanwhile(c)
        PROVE  [Promise!Next]_Promise!vars
    <2>. DEFINE k == call[c].key
    <2>1. KeysStay /\ k \in Keys /\ call[c].params \in Params
      BY <1>1, <1>5, PreflightType DEF CreatedMeanwhile, KeysStay
    <2>2. handle' = handle \/ (Table[k] # Nothing /\ handle' = [handle EXCEPT ![k] = Table[k]])
      BY <1>5, <2>1, AnswerKeeps DEF CreatedMeanwhile
    <2>. HIDE DEF k
    <2>. QED
      BY <1>a, <2>1, <2>2
  <1>6. CASE Reply
    <2>. DEFINE k == call[thread.call].key
    <2>1. /\ thread.id \in Ids /\ k \in Keys
          /\ record[thread.id].key = k /\ record[thread.id].params = call[thread.call].params
      BY <1>1, <1>6, ThreadCallType DEF Reply, Exact, Inv, ThreadFits
    <2>2. Table[k] = [id |-> thread.id, params |-> call[thread.call].params]
      BY <1>1, <2>1, TableHas
    <2>3. Table[k] # Nothing
      BY <2>1, <2>2, RegistryAssumption DEF Nothing
    <2>4. KeysStay /\ handle' = [handle EXCEPT ![k] = Table[k]]
      BY <1>6, <2>2 DEF Reply, KeysStay
    <2>. HIDE DEF k
    <2>. QED
      BY <1>a, <2>1, <2>3, <2>4
  <1>7. CASE /\ ~Unlink /\ \A c \in Calls, i \in Ids : ~Create(c, i)
             /\ handle' = handle
    BY <1>1, <1>7, RecordsStay, TableStays
  <1>8. CASE \/ Bind \/ Start \/ Restart \/ Crash \/ UNCHANGED vars
             \/ \E c \in Calls : Refuse(c)
             \/ \E i \in Ids : \/ Begin(i) \/ PreviewEnds(i) \/ PreviewFails(i)
                               \/ \E final \in BOOLEAN : AuditSaves(i, final)
                               \/ Expire(i) \/ Bury(i)
    <2>1. handle' = handle
      BY <1>8
         DEF Bind, Start, Restart, Crash, Dead, vars, Refuse, Begin, PreviewEnds, PreviewFails,
             AuditSaves, Done, Ended, UpdateRun, Expire, Bury
    <2>. QED
      BY <1>2, <1>3, <1>7, <2>1
  <1>. QED
    BY <1>2, <1>3, <1>4, <1>5, <1>6, <1>8, StepCases

LEMMA PromiseInit == Init => Promise!Init
  <1>. SUFFICES ASSUME Init PROVE Promise!Init
    OBVIOUS
  <1>1. \A k \in Keys : Table[k] = Nothing
    <2>1. \A i \in Ids : record[i].key = None
      BY DEF Init, Absent
    <2>. QED
      BY <2>1, TableLacks, RegistryAssumption
  <1>2. Table = [k \in Keys |-> Nothing]
    BY <1>1, TableDomain
  <1>. QED
    BY <1>2 DEF Init, Promise!Init, Promise!Nothing, Nothing

\* The control plane and its registry keep the promise of client_request_id: one
\* operation for each request, one answer for each operation.
THEOREM OneAnswerGiven == ASSUME "unlink" \notin Faults PROVE Spec => OneAnswer
  <1>1. Exact /\ [Next]_vars => Exact'
    BY NextExact
  <1>2. Exact /\ [Next]_vars => [Promise!Next]_Promise!vars
    BY PromiseStep
  <1>. QED
    BY <1>1, <1>2, InitExact, PromiseInit, PTL DEF Spec, OneAnswer, Promise!Spec
================================================================================
