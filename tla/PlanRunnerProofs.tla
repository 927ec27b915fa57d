---------------------------- MODULE PlanRunnerProofs ----------------------------
(***************************************************************************)
(* Theorems about PlanRunner, for all plans, errors and faults: what the   *)
(* results of a run say of its manifest, and what the verdict says of the  *)
(* attempts that were really made.                                         *)
(***************************************************************************)
EXTENDS PlanRunner, FiniteSetTheorems, WellFoundedInduction, TLAPS

--------------------------------------------------------------------------------
(***************************************************************************)
(* The inductive invariant, part by part. First, where the run is.         *)
(***************************************************************************)
Phases   == {"none", "setup", "test", "cleanup", "unknown"}
Failure  == [kind : Signals \cup {"none", "unknown"}, phase : Phases, class : Classes \cup {"none"}]
Outcomes == {"none", "SKIPPED", "PASSED", "FAILED"}
Evidence == {"api-response", "console.json", "screenshot", "playwright-trace"}

AttemptType ==
  [step : Nat, failure : Failure, cleanup : Outcomes, evidence : SUBSET Evidence,
   redacted : BOOLEAN, navigated : BOOLEAN]
ResultType(execs) ==
  [exec : execs, status : {"PASSED", "FAILED"} \cup Unexecuted, flaky : BOOLEAN,
   kind : Signals \cup {"none", "unknown"}, phase : Phases, class : Classes \cup {"none"},
   evidence : SUBSET Evidence, cleanup : Outcomes, redacted : BOOLEAN, attempts : Nat]
EntryType(execs) ==
  [exec : execs, try : Nat \ {0}, raised : SUBSET [error : Errors \cup {{}}, phase : Phases],
   mutated : BOOLEAN, cleaned : BOOLEAN]

Width == Len(Selected(plan))
Under == {"steps", "cleanup", "evidence", "close"}   \* an attempt is under way

TypeOK ==
  /\ plan \in Plans
  /\ batch \in 1..(Len(plan.batches) + 1) /\ next \in 1..(Width + 1)
  /\ pc \in {"launch", "case", "conclude", "caught", "done", "thrown"} \cup Under
  /\ tries \in Seq({"FAILED"})
  /\ attempt \in AttemptType
  /\ results \in Seq(ResultType(Executions))
  /\ history \subseteq EntryType(Executions)
  /\ gate \in {"none", "incomplete", "infra", "fail", "unstable", "pass"}

\* The results so far are those of the manifest up to the current case.
Before == (batch - 1) * Width + (IF pc \in {"launch", "done"} THEN 0 ELSE next - 1)

InOrder ==
  pc # "thrown" =>
    /\ Len(results) = Before
    /\ \A i \in DOMAIN results : results[i].exec = Instances(plan)[i]
    /\ pc \notin {"launch", "done"} => batch <= Len(plan.batches)
    /\ pc \in Under \cup {"conclude"} => next <= Width
    /\ pc = "done" => batch > Len(plan.batches)

Judged == gate # "none" => pc = "done" /\ gate = Gate(plan, results, Instances(plan))

--------------------------------------------------------------------------------
(***************************************************************************)
(* Then, what the history has of each execution, if no two have one name.  *)
(***************************************************************************)
Distinct ==
  \A i, j \in DOMAIN Instances(plan) : Instances(plan)[i] = Instances(plan)[j] => i = j

CaseAt(i) == Selected(plan)[((i - 1) % Width) + 1]
Name      == ExecutionId(Current, plan.batches[batch])

\* Attempts were only made for executions that have a result, and for the current.
Begun == Len(tries) + (IF pc = "case" THEN 0 ELSE 1)
HistoryKnown ==
  \A h \in history :
    \/ \E i \in DOMAIN results : h.exec = results[i].exec
    \/ pc \notin {"launch", "done"} /\ next <= Width /\ h.exec = Name /\ h.try <= Begun
HistoryUnique ==
  \A g, h \in history : g.exec = h.exec /\ g.try = h.try => g = h

\* A failure that triage may take for a defect of the product has, among what was
\* raised, an assertion about it.
Blames(f) ==
  /\ f.class = "PRODUCT_DEFECT" \/ (f.kind = "assertion" /\ f.phase = "test")
  /\ f.kind \notin {"network", "contract"} /\ f.phase \notin {"setup", "cleanup"}
Proof(f) ==
  f.phase = "test" /\ "assertion" \in f.error /\ f.error \cap {"network", "contract"} = {}

\* What is said of an attempt is what the history has of it.
Tells(f, cleanup, c, h) ==
  /\ f = NoFailure => h.raised = {}
  /\ Blames(f) => \E x \in h.raised : Proof(x)
  /\ cleanup = IF ~c.cleans THEN "SKIPPED" ELSE IF h.cleaned THEN "PASSED" ELSE "FAILED"

AttemptTold ==
  /\ pc \in Under =>
       \E h \in history : /\ h.exec = Name /\ h.try = Begun
                          /\ attempt.failure = NoFailure => h.raised = {}
                          /\ Blames(attempt.failure) => \E x \in h.raised : Proof(x)
                          /\ pc \in {"steps", "cleanup"} => ~h.cleaned
                          /\ attempt.cleanup =
                               IF ~Current.cleans \/ pc \in {"steps", "cleanup"} THEN "SKIPPED"
                               ELSE IF h.cleaned THEN "PASSED" ELSE "FAILED"
  /\ pc = "conclude" =>
       \/ attempt.failure = [NoFailure EXCEPT !.class = "TEST_DEFECT"]
       \/ \E h \in history : /\ h.exec = Name /\ h.try = Begun
                             /\ Tells(attempt.failure, attempt.cleanup, Current, h)

ResultTold(i) ==
  LET r == results[i]
      f == [kind |-> r.kind, phase |-> r.phase, class |-> r.class]
  IN  /\ r.status = "PASSED" => f = NoFailure /\ r.cleanup # "FAILED"
      /\ r.status = "PASSED" \/ (r.status = "FAILED" /\ Blames(f)) =>
           \E h \in history :
             /\ h.exec = r.exec /\ h.try = r.attempts
             /\ \A g \in history : g.exec = r.exec => g.try <= r.attempts
             /\ Tells(f, r.cleanup, CaseAt(i), h)
      /\ r.status = "PASSED" /\ ~r.flaky => r.attempts = 1

AllTold == \A i \in DOMAIN results : ResultTold(i)

Told == Distinct /\ pc # "thrown" =>
  HistoryKnown /\ HistoryUnique /\ AttemptTold /\ AllTold

Inv == TypeOK /\ InOrder /\ Judged /\ Told
--------------------------------------------------------------------------------
(***************************************************************************)
(* The shape of plans, and where the manifest has the current case.        *)
(***************************************************************************)
LEMMA DivMod ==
  ASSUME NEW N \in Nat, N > 0, NEW q \in Nat, NEW r \in 0..(N - 1)
  PROVE  (q * N + r) \div N = q /\ (q * N + r) % N = r
  OBVIOUS

LEMMA Products ==
  ASSUME NEW N \in Nat, NEW a \in Nat, NEW b \in Nat, a <= b
  PROVE  a * N <= b * N /\ a * N \in Nat /\ (a + 1) * N = a * N + N
<1>1. b = a + (b - a) /\ b - a \in Nat OBVIOUS
<1>2. b * N = a * N + (b - a) * N BY <1>1
<1>3. (b - a) * N >= 0 BY <1>1
<1> QED BY <1>2, <1>3

LEMMA Concatenated ==
  ASSUME NEW S, NEW s \in Seq(S), NEW t \in Seq(S)
  PROVE  Len(s \o t) \in Nat /\ Len(s) \in Nat
  OBVIOUS

LEMMA Appended ==
  ASSUME NEW S, NEW s \in Seq(S), NEW r \in S
  PROVE  LET t == Append(s, r)
         IN  /\ t \in Seq(S) /\ Len(t) = Len(s) + 1
             /\ \A i \in DOMAIN t : t[i] = IF i = Len(s) + 1 THEN r ELSE s[i]
             /\ \A i \in DOMAIN t : i # Len(s) + 1 => i \in DOMAIN s
  OBVIOUS

LEMMA AppendedAny ==
  ASSUME NEW S, NEW s \in Seq(S), NEW r
  PROVE  /\ DOMAIN Append(s, r) = 1..(Len(s) + 1) /\ DOMAIN s = 1..Len(s) /\ Len(s) \in Nat
         /\ \A i \in DOMAIN s : Append(s, r)[i] = s[i]
         /\ Append(s, r)[Len(s) + 1] = r
<1>1. s \in Seq(S \cup {r}) /\ r \in S \cup {r} OBVIOUS
<1> QED BY <1>1

LEMMA Concatenation ==
  ASSUME NEW S, NEW s \in Seq(S), NEW t \in Seq(S)
  PROVE  /\ s \o t \in Seq(S) /\ Len(s \o t) = Len(s) + Len(t)
         /\ DOMAIN s \subseteq DOMAIN (s \o t)
         /\ \A i \in DOMAIN (s \o t) :
              \/ i \in DOMAIN s /\ (s \o t)[i] = s[i]
              \/ i \notin DOMAIN s /\ i - Len(s) \in 1..Len(t) /\ i = Len(s) + (i - Len(s))
                 /\ (s \o t)[i] = t[i - Len(s)]
<1>1. s \o t \in Seq(S) /\ Len(s \o t) = Len(s) + Len(t) /\ Len(s) \in Nat /\ Len(t) \in Nat
  OBVIOUS
<1>2. /\ DOMAIN s = 1..Len(s) /\ DOMAIN (s \o t) = 1..(Len(s) + Len(t)) OBVIOUS
<1>3. ASSUME NEW i \in 1..(Len(s) + Len(t))
      PROVE  (s \o t)[i] = IF i <= Len(s) THEN s[i] ELSE t[i - Len(s)]
  OBVIOUS
<1>4. ASSUME NEW i \in 1..(Len(s) + Len(t))
      PROVE  \/ i \in DOMAIN s /\ (s \o t)[i] = s[i]
             \/ i \notin DOMAIN s /\ i - Len(s) \in 1..Len(t) /\ i = Len(s) + (i - Len(s))
                /\ (s \o t)[i] = t[i - Len(s)]
  <2>1. CASE i <= Len(s) BY <1>1, <1>2, <1>3, <2>1
  <2>2. CASE i > Len(s) BY <1>1, <1>2, <1>3, <2>2
  <2> QED BY <1>1, <2>1, <2>2
<1> QED BY <1>1, <1>2, <1>4

LEMMA PlanShape ==
  ASSUME plan \in Plans
  PROVE  /\ Width \in Nat /\ Len(plan.batches) \in Nat
         /\ \A n \in 1..Width : Selected(plan)[n] \in ToSet(plan.cases)
         /\ \A n \in 1..Width :
              Len(Script(Selected(plan)[n])) \in Nat /\ Len(Selected(plan)[n].setup) \in Nat
<1>1. Selected(plan) \in Seq(ToSet(plan.cases)) /\ plan.batches \in Seq(ToSet(plan.batches))
      /\ \A c \in ToSet(plan.cases) :
           c.setup \in Seq(ToSet(c.setup)) /\ c.steps \in Seq(ToSet(c.steps))
  BY PlansAssumption
<1>2. \A n \in 1..Width : Selected(plan)[n] \in ToSet(plan.cases) BY <1>1 DEF Width
<1>3. ASSUME NEW n \in 1..Width
      PROVE  Len(Script(Selected(plan)[n])) \in Nat /\ Len(Selected(plan)[n].setup) \in Nat
  <2> DEFINE c == Selected(plan)[n]
  <2>1. c.setup \in Seq(ToSet(c.setup)) /\ c.steps \in Seq(ToSet(c.steps)) BY <1>1, <1>2
  <2>2. c.setup \in Seq(ToSet(c.setup) \cup ToSet(c.steps))
        /\ c.steps \in Seq(ToSet(c.setup) \cup ToSet(c.steps))
    BY <2>1
  <2>3. Len(c.setup \o c.steps) \in Nat /\ Len(c.setup) \in Nat BY <2>2, Concatenated
  <2> QED BY <2>3 DEF Script
<1> QED BY <1>1, <1>2, <1>3 DEF Width

LEMMA Position ==
  ASSUME plan \in Plans, NEW b \in 1..Len(plan.batches), NEW n \in 1..Width
  PROVE  LET k == (b - 1) * Width + n
         IN  /\ k \in DOMAIN Instances(plan)
             /\ Instances(plan)[k] = ExecutionId(Selected(plan)[n], plan.batches[b])
             /\ CaseAt(k) = Selected(plan)[n]
<1> DEFINE k == (b - 1) * Width + n
<1>1. Width \in Nat /\ Len(plan.batches) \in Nat /\ Width > 0 BY PlanShape
<1>2. (b - 1) * Width \in Nat /\ b * Width = (b - 1) * Width + Width
  BY <1>1, Products, b - 1 \in Nat
<1>3. b * Width <= Len(plan.batches) * Width BY <1>1, Products, b \in Nat, b <= Len(plan.batches)
<1>4. Len(plan.batches) * Width \in Nat BY <1>1
<1>5. k \in 1..(Len(plan.batches) * Width) BY <1>1, <1>2, <1>3, <1>4
<1>6. (k - 1) \div Width = b - 1 /\ (k - 1) % Width = n - 1
  <2>1. k - 1 = (b - 1) * Width + (n - 1) BY <1>1, <1>2
  <2> QED BY <1>1, <2>1, DivMod, b - 1 \in Nat, n - 1 \in 0..(Width - 1)
<1>7. ((k - 1) % Width) + 1 = n /\ ((k - 1) \div Width) + 1 = b BY <1>1, <1>6
<1> HIDE DEF k
<1> QED BY <1>5, <1>7 DEF Instances, CaseAt, Width, k

LEMMA Manifest ==
  ASSUME plan \in Plans
  PROVE  /\ Instances(plan) \in Seq(Executions)
         /\ Len(Instances(plan)) = Len(plan.batches) * Width
         /\ DOMAIN Instances(plan) = 1..(Len(plan.batches) * Width)
<1>1. Width \in Nat /\ Len(plan.batches) \in Nat BY PlanShape
<1>2. Len(plan.batches) * Width \in Nat BY <1>1
<1>3. DOMAIN Instances(plan) = 1..(Len(plan.batches) * Width) BY DEF Instances, Width
<1>4. \A i \in DOMAIN Instances(plan) : Instances(plan)[i] \in Executions
  BY DEF Executions, ToSet
<1>5. Instances(plan) = [i \in DOMAIN Instances(plan) |-> Instances(plan)[i]] BY DEF Instances
<1> QED BY <1>2, <1>3, <1>4, <1>5

LEMMA SamePlan ==
  ASSUME plan' = plan
  PROVE  /\ Width' = Width /\ Executions' = Executions
         /\ Instances(plan)' = Instances(plan) /\ Selected(plan)' = Selected(plan)
  BY DEF Width, Executions

\* What the current case and the current batch are to the manifest.
LEMMA Here ==
  ASSUME TypeOK, batch <= Len(plan.batches), next <= Width
  PROVE  /\ Current \in ToSet(plan.cases) /\ Name \in Executions
         /\ (batch - 1) * Width + next \in DOMAIN Instances(plan)
         /\ Instances(plan)[(batch - 1) * Width + next] = Name
         /\ CaseAt((batch - 1) * Width + next) = Current
         /\ Len(Script(Current)) \in Nat
<1>1. Width \in Nat /\ Len(plan.batches) \in Nat BY PlanShape DEF TypeOK
<1>2. batch \in 1..Len(plan.batches) /\ next \in 1..Width BY <1>1 DEF TypeOK
<1>3. plan \in Plans BY DEF TypeOK
<1>4. /\ (batch - 1) * Width + next \in DOMAIN Instances(plan)
      /\ Instances(plan)[(batch - 1) * Width + next] = Name
      /\ CaseAt((batch - 1) * Width + next) = Current
  BY <1>2, <1>3, Position DEF Name, Current
<1>5. Name \in Executions BY <1>4 DEF Executions, ToSet
<1>6. Current \in ToSet(plan.cases) /\ Len(Script(Current)) \in Nat
  BY <1>2, <1>3, PlanShape DEF Current
<1> QED BY <1>4, <1>5, <1>6

--------------------------------------------------------------------------------
(***************************************************************************)
(* Failures: their kind is the first of the signals, in the order of the   *)
(* code, and a failure that may be blamed on the product has an assertion. *)
(***************************************************************************)
LEMMA KindIs ==
  ASSUME NEW error \in SUBSET Signals
  PROVE  Kind(error) = IF error = {} THEN "unknown"
                       ELSE IF "network" \in error THEN "network"
                       ELSE IF "contract" \in error THEN "contract"
                       ELSE IF "assertion" \in error THEN "assertion"
                       ELSE IF "timeout" \in error THEN "timeout" ELSE "policy"
<1> DEFINE order == <<"network", "contract", "assertion", "timeout", "policy">>
           First(i) == i \in DOMAIN order /\ order[i] \in error
                       /\ \A j \in 1..(i - 1) : order[j] \notin error
<1>1. CASE error = {} BY <1>1 DEF Kind
<1>2. CASE error # {}
  <2>1. Kind(error) = order[CHOOSE i \in DOMAIN order :
             /\ order[i] \in error
             /\ \A j \in 1..(i-1) : order[j] \notin error]
    BY <1>2 DEF Kind
  <2>2. /\ DOMAIN order = 1..5
        /\ order[1] = "network" /\ order[2] = "contract" /\ order[3] = "assertion"
        /\ order[4] = "timeout" /\ order[5] = "policy"
    OBVIOUS
  <2>3. ASSUME NEW i \in 1..5, First(i)
        PROVE  Kind(error) = order[i]
    <3>1. \A k \in DOMAIN order : First(k) => k = i
      <4> SUFFICES ASSUME NEW k \in 1..5, First(k) PROVE k = i BY <2>2
      <4>1. CASE k < i BY <4>1, <2>3, k \in 1..(i - 1)
      <4>2. CASE i < k BY <4>2, <2>3, i \in 1..(k - 1)
      <4> QED BY <4>1, <4>2
    <3> HIDE DEF order
    <3> QED BY <2>1, <2>2, <2>3, <3>1
  <2>4. CASE "network" \in error
    <3>1. First(1) BY <2>2, <2>4
    <3> QED BY <3>1, <2>3, <2>2, <2>4, <1>2
  <2>5. CASE "network" \notin error /\ "contract" \in error
    <3>1. First(2) BY <2>2, <2>5
    <3> QED BY <3>1, <2>3, <2>2, <2>5, <1>2
  <2>6. CASE "network" \notin error /\ "contract" \notin error /\ "assertion" \in error
    <3>1. First(3) BY <2>2, <2>6
    <3> QED BY <3>1, <2>3, <2>2, <2>6, <1>2
  <2>7. CASE /\ "network" \notin error /\ "contract" \notin error
             /\ "assertion" \notin error /\ "timeout" \in error
    <3>1. First(4) BY <2>2, <2>7
    <3> QED BY <3>1, <2>3, <2>2, <2>7, <1>2
  <2>8. CASE /\ "network" \notin error /\ "contract" \notin error
             /\ "assertion" \notin error /\ "timeout" \notin error
    <3>1. "policy" \in error BY <1>2, <2>8 DEF Signals
    <3>2. First(5) BY <2>2, <2>8, <3>1
    <3> QED BY <3>2, <2>3, <2>2, <2>8, <1>2
  <2> QED BY <2>4, <2>5, <2>6, <2>7, <2>8
<1> QED BY <1>1, <1>2

LEMMA Classified ==
  ASSUME NEW error \in SUBSET Signals, NEW phase \in Phases, NEW generated
  PROVE  LET f == ClassifyFailure(error, phase, generated)
         IN  /\ f \in Failure /\ f # NoFailure
             /\ Blames(f) => phase = "test" /\ "assertion" \in error
                             /\ error \cap {"network", "contract"} = {}
<1> DEFINE f == ClassifyFailure(error, phase, generated)
<1> DEFINE class == IF "network" \in error THEN "INFRA_DEFECT"
                    ELSE IF "assertion" \in error /\ phase = "test"
                         THEN "PRODUCT_DEFECT" ELSE SelfBlame(generated)
<1>0. f = [kind |-> Kind(error), phase |-> phase, class |-> class] BY DEF ClassifyFailure
<1> HIDE DEF f
<1>1. f.kind = Kind(error) /\ f.phase = phase /\ f.class = class BY <1>0
<1>2. SelfBlame(generated) \in {"PLAN_DEFECT", "TEST_DEFECT"} BY DEF SelfBlame
<1>3. f.class \in Classes /\ f.class # "none"
  BY <1>1, <1>2 DEF Classes
<1>4. f.kind \in Signals \cup {"unknown"} /\ f.kind # "none"
  BY <1>1, KindIs DEF Signals
<1>5. f \in Failure BY <1>0, <1>1, <1>3, <1>4 DEF Failure
<1>6. f # NoFailure BY <1>1, <1>3 DEF NoFailure
<1>7. ASSUME Blames(f)
      PROVE  phase = "test" /\ "assertion" \in error /\ error \cap {"network", "contract"} = {}
  <2>1. /\ f.class = "PRODUCT_DEFECT" \/ (f.kind = "assertion" /\ f.phase = "test")
        /\ f.kind \notin {"network", "contract"}
    BY <1>7 DEF Blames
  <2>2. "network" \notin error /\ "contract" \notin error BY <1>1, <2>1, KindIs
  <2>3. CASE f.class = "PRODUCT_DEFECT" BY <2>3, <1>1, <1>2, <2>2
  <2>4. CASE f.kind = "assertion" /\ f.phase = "test" BY <2>4, <1>1, <2>2, KindIs
  <2> QED BY <2>1, <2>2, <2>3, <2>4
<1> QED BY <1>5, <1>6, <1>7 DEF f

LEMMA FirstOf ==
  ASSUME NEW f \in Failure, NEW g \in Failure
  PROVE  /\ FirstFailure(f, g) \in Failure
         /\ FirstFailure(f, g) = NoFailure <=> f = NoFailure /\ g = NoFailure
         /\ FirstFailure(f, g) \in {f, g}
  BY DEF FirstFailure

--------------------------------------------------------------------------------
(***************************************************************************)
(* What the actions write is of its type.                                  *)
(***************************************************************************)
LEMMA Signalled ==
  ASSUME NEW e \in Errors \cup {{}, {"network"}}
  PROVE  e \in SUBSET Signals
  BY RunnerAssumption DEF Signals

LEMMA NewAttemptType ==
  /\ NewAttempt \in AttemptType /\ NoFailure \in Failure
  /\ [NoFailure EXCEPT !.class = "TEST_DEFECT"] \in Failure
  BY DEF NewAttempt, AttemptType, NoFailure, Failure, Phases, Classes, Outcomes, Evidence

LEMMA BlockedType ==
  ASSUME NEW c, NEW status \in Unexecuted, NEW X, ExecutionId(c, plan.batches[batch]) \in X
  PROVE  /\ BlockedResult(c, status) \in ResultType(X)
         /\ BlockedResult(c, status).exec = ExecutionId(c, plan.batches[batch])
         /\ BlockedResult(c, status).status = status
  BY DEF BlockedResult, Result, ResultType, Phases, Classes, Outcomes, Evidence, Unexecuted

LEMMA NoteType ==
  ASSUME NEW X, history \subseteq EntryType(X),
         NEW raised \in SUBSET [error : Errors \cup {{}}, phase : Phases],
         NEW mutates, NEW cleaned \in BOOLEAN,
         Note(raised, mutates, cleaned)
  PROVE  history' \subseteq EntryType(X)
<1> SUFFICES ASSUME NEW g \in history' PROVE g \in EntryType(X) OBVIOUS
<1>1. PICK h \in history :
        g = IF h.exec = Attempt.exec /\ h.try = Attempt.try
            THEN [h EXCEPT !.raised = @ \cup raised, !.mutated = @ \/ mutates,
                           !.cleaned = cleaned] ELSE h
  BY DEF Note
<1>2. h \in EntryType(X) OBVIOUS
<1>3. CASE g = h BY <1>2, <1>3
<1>4. CASE g = [h EXCEPT !.raised = @ \cup raised, !.mutated = @ \/ mutates, !.cleaned = cleaned]
  BY <1>2, <1>4 DEF EntryType
<1> QED BY <1>1, <1>3, <1>4

LEMMA Spot ==
  ASSUME TypeOK
  PROVE  /\ plan \in Plans
         /\ Width \in Nat /\ Len(plan.batches) \in Nat
         /\ batch \in Nat /\ batch > 0 /\ next \in 1..(Width + 1)
         /\ (batch - 1) * Width \in Nat /\ batch * Width = (batch - 1) * Width + Width
<1>1. Width \in Nat /\ Len(plan.batches) \in Nat BY PlanShape DEF TypeOK
<1>2. batch \in Nat /\ batch > 0 BY <1>1 DEF TypeOK
<1>3. (batch - 1) * Width \in Nat /\ batch * Width = (batch - 1) * Width + Width
  BY <1>1, <1>2, Products, batch - 1 \in Nat
<1> QED BY <1>1, <1>2, <1>3 DEF TypeOK

\* A result of the current case that is pushed and persisted.
LEMMA Pushed ==
  ASSUME TypeOK, InOrder, pc \in {"case", "conclude"}, next <= Width,
         NEW r \in ResultType(Executions), r.exec = Name,
         results' = Append(results, r), Persist, UNCHANGED <<plan, batch, gate, history>>
  PROVE  TypeOK' /\ InOrder' /\ pc' \in {"case", "caught"} /\ next' = next + 1
<1>1. Width' = Width /\ Executions' = Executions /\ Instances(plan)' = Instances(plan)
  BY SamePlan
<1>2. batch <= Len(plan.batches) /\ Len(results) = (batch - 1) * Width + next - 1
      /\ \A i \in DOMAIN results : results[i].exec = Instances(plan)[i]
  BY Spot DEF InOrder, Before
<1>3. pc' \in {"case", "caught"} /\ next' = next + 1 /\ tries' = <<>> /\ attempt' = NewAttempt
  BY DEF Persist
<1>4. results \in Seq(ResultType(Executions)) BY DEF TypeOK
<1>5. /\ results' \in Seq(ResultType(Executions)) /\ Len(results') = Len(results) + 1
      /\ \A i \in DOMAIN results' : results'[i] = IF i = Len(results) + 1 THEN r ELSE results[i]
      /\ \A i \in DOMAIN results' : i # Len(results) + 1 => i \in DOMAIN results
  BY <1>4, Appended
<1>6. TypeOK'
  <2>1. next' \in 1..(Width' + 1) BY <1>1, <1>3, Spot
  <2>2. tries' \in Seq({"FAILED"}) /\ attempt' \in AttemptType BY <1>3, NewAttemptType
  <2> QED BY <1>1, <1>3, <1>5, <2>1, <2>2 DEF TypeOK
<1>7. InOrder'
  <2>1. Len(results') = Before'
    <3>1. batch' = batch /\ pc' \notin {"launch", "done"} BY <1>3
    <3> DEFINE K == (batch - 1) * Width
    <3>2. Before' = K + (next' - 1) BY <1>1, <3>1, Zenon DEF Before
    <3>3. K \in Nat /\ next \in Nat BY Spot
    <3>4. Len(results) = K + next - 1 BY <1>2
    <3> HIDE DEF K
    <3> QED BY <3>2, <3>3, <3>4, <1>3, <1>5
  <2>2. ASSUME NEW i \in DOMAIN results' PROVE results'[i].exec = Instances(plan)[i]
    <3>1. CASE i = Len(results) + 1
      <4>1. i = (batch - 1) * Width + next BY <3>1, <1>2, Spot
      <4> QED BY <4>1, <3>1, <1>2, <1>5, Here
    <3>2. CASE i # Len(results) + 1 BY <3>2, <1>2, <1>5
    <3> QED BY <3>1, <3>2
  <2> QED BY <1>1, <1>2, <1>3, <2>1, <2>2 DEF InOrder, Under
<1> QED BY <1>3, <1>6, <1>7

\* A step within the current case, which has produced no result yet.
LEMMA Within ==
  ASSUME TypeOK, InOrder, pc \in Under \cup {"case", "conclude"}, next <= Width,
         pc' \in Under \cup {"case", "conclude", "caught"},
         UNCHANGED <<plan, batch, next, results>>
  PROVE  InOrder'
<1>1. Width' = Width /\ Instances(plan)' = Instances(plan) BY SamePlan
<1>2. pc # "thrown" /\ pc \notin {"launch", "done"} /\ pc' \notin {"launch", "done", "thrown"}
  BY DEF Under
<1>3. Before' = Before BY <1>1, <1>2 DEF Before
<1> QED BY <1>1, <1>2, <1>3 DEF InOrder

--------------------------------------------------------------------------------
(***************************************************************************)
(* The results are those of the manifest, in its order: action by action.  *)
(***************************************************************************)
LEMMA OrderLaunch ==
  ASSUME TypeOK, InOrder, Launch
  PROVE  TypeOK' /\ InOrder'
<1>1. /\ pc = "launch" /\ batch <= Len(plan.batches) /\ pc' \in {"case", "caught"}
      /\ next' = 1 /\ tries' = <<>>
      /\ UNCHANGED <<plan, batch, attempt, results, gate, history>>
  BY DEF Launch
<1>2. Width' = Width /\ Executions' = Executions /\ Instances(plan)' = Instances(plan)
  BY <1>1, SamePlan
<1>3. TypeOK'
  <2>1. next' \in 1..(Width' + 1) /\ tries' \in Seq({"FAILED"}) BY <1>1, <1>2, Spot
  <2> QED BY <1>1, <1>2, <2>1 DEF TypeOK
<1>4. InOrder'
  <2> DEFINE K == (batch - 1) * Width
  <2>1. Before' = K + (1 - 1) BY <1>1, <1>2, Zenon DEF Before
  <2>2. Before = K + 0 BY <1>1, Zenon DEF Before
  <2>3. K \in Nat BY Spot
  <2>4. Before' = Before
    <3> HIDE DEF K
    <3> QED BY <2>1, <2>2, <2>3
  <2> QED BY <1>1, <1>2, <2>4 DEF InOrder, Under
<1> QED BY <1>3, <1>4

LEMMA OrderSkipBlocked ==
  ASSUME TypeOK, InOrder, SkipBlocked
  PROVE  TypeOK' /\ InOrder'
<1>1. /\ pc = "case" /\ next <= Width /\ Persist
      /\ results' = Append(results, BlockedResult(Current, "BLOCKED_RESUME"))
      /\ UNCHANGED <<plan, batch, gate, history>>
  BY DEF SkipBlocked, Width
<1>2. Name \in Executions BY <1>1, Here DEF InOrder
<1>3. /\ BlockedResult(Current, "BLOCKED_RESUME") \in ResultType(Executions)
      /\ BlockedResult(Current, "BLOCKED_RESUME").exec = Name
  BY <1>2, BlockedType, "BLOCKED_RESUME" \in Unexecuted DEF Name, Unexecuted
<1> QED BY <1>1, <1>3, Pushed

LEMMA OrderRefuse ==
  ASSUME TypeOK, InOrder, Refuse
  PROVE  TypeOK' /\ InOrder'
<1>1. /\ pc = "case" /\ next <= Width /\ pc' = "conclude"
      /\ attempt' = [NewAttempt EXCEPT !.failure = [NoFailure EXCEPT !.class = "TEST_DEFECT"]]
      /\ UNCHANGED <<plan, batch, next, tries, results, gate, history>>
  BY DEF Refuse, Width
<1>2. Width' = Width /\ Executions' = Executions BY <1>1, SamePlan
<1>3. attempt' \in AttemptType BY <1>1, NewAttemptType DEF AttemptType
<1>4. TypeOK' BY <1>1, <1>2, <1>3 DEF TypeOK
<1> QED BY <1>1, <1>4, Within DEF Under

LEMMA OrderOpenContext ==
  ASSUME TypeOK, InOrder, OpenContext
  PROVE  TypeOK' /\ InOrder'
<1>1. /\ pc = "case" /\ next <= Width /\ pc' \in {"steps", "caught"} /\ attempt' = NewAttempt
      /\ \/ history' = history
         \/ history' = history \cup {[exec |-> Attempt.exec, try |-> Attempt.try,
               raised |-> {}, mutated |-> FALSE, cleaned |-> FALSE]}
      /\ UNCHANGED <<plan, batch, next, tries, results, gate>>
  BY DEF OpenContext, Width
<1>2. Width' = Width /\ Executions' = Executions BY <1>1, SamePlan
<1>3. Attempt.exec \in Executions BY <1>1, Here DEF InOrder, Attempt, Name
<1>4. Attempt.try \in Nat \ {0} BY DEF Attempt, TypeOK
<1>5. [exec |-> Attempt.exec, try |-> Attempt.try,
       raised |-> {}, mutated |-> FALSE, cleaned |-> FALSE] \in EntryType(Executions)
  BY <1>3, <1>4 DEF EntryType
<1>6. history' \subseteq EntryType(Executions) BY <1>1, <1>5 DEF TypeOK
<1>7. TypeOK' BY <1>1, <1>2, <1>6, NewAttemptType DEF TypeOK, Under
<1> QED BY <1>1, <1>7, Within DEF Under

LEMMA OrderTakeStep ==
  ASSUME TypeOK, InOrder, TakeStep
  PROVE  TypeOK' /\ InOrder'
<1> DEFINE i == attempt.step
           action == Script(Current)[i]
<1>1. /\ pc = "steps" /\ UNCHANGED <<plan, batch, next, tries, results, gate>>
      /\ \/ /\ attempt' = [attempt EXCEPT !.step = i + 1,
                 !.navigated = @ \/ action = "goto",
                 !.evidence = IF action \in ApiCalls THEN @ \cup {"api-response"} ELSE @]
            /\ pc' \in {"steps", "cleanup"}
            /\ Note({}, action \in Mutating, FALSE)
         \/ \E e \in Raises(action) :
              /\ attempt' = [attempt EXCEPT !.step = Len(Script(Current)) + 1,
                   !.failure = ClassifyFailure(e, PhaseAt(Current, i), Generated)]
              /\ pc' = "cleanup"
              /\ Note({[error |-> e, phase |-> PhaseAt(Current, i)]}, action \in Mutating, FALSE)
  BY DEF TakeStep
<1> HIDE DEF action
<1>2. next <= Width /\ batch <= Len(plan.batches) BY <1>1 DEF InOrder, Under
<1>3. Width' = Width /\ Executions' = Executions BY <1>1, SamePlan
<1>4. attempt \in AttemptType /\ history \subseteq EntryType(Executions) BY DEF TypeOK
<1>5. PhaseAt(Current, i) \in Phases BY DEF PhaseAt, Phases
<1>6. attempt' \in AttemptType /\ history' \subseteq EntryType(Executions)
  <2>1. CASE /\ attempt' = [attempt EXCEPT !.step = i + 1,
                 !.navigated = @ \/ action = "goto",
                 !.evidence = IF action \in ApiCalls THEN @ \cup {"api-response"} ELSE @]
             /\ Note({}, action \in Mutating, FALSE)
    <3> DEFINE nav == attempt.navigated \/ action = "goto"
               ev  == IF action \in ApiCalls THEN attempt.evidence \cup {"api-response"}
                      ELSE attempt.evidence
               n   == i + 1
    <3>1. n \in Nat /\ nav \in BOOLEAN /\ ev \in SUBSET Evidence
      BY <1>4 DEF AttemptType, Evidence
    <3>2. attempt' = [attempt EXCEPT !.step = n, !.navigated = nav, !.evidence = ev]
      BY <2>1, Zenon
    <3> HIDE DEF n, nav, ev
    <3>3. attempt' \in AttemptType BY <1>4, <3>1, <3>2 DEF AttemptType
    <3>4. {} \in SUBSET [error : Errors \cup {{}}, phase : Phases] OBVIOUS
    <3>5. FALSE \in BOOLEAN OBVIOUS
    <3>6. Note({}, action \in Mutating, FALSE) BY <2>1, Zenon
    <3>7. history' \subseteq EntryType(Executions) BY <1>4, <3>4, <3>5, <3>6, NoteType, Zenon
    <3> QED BY <3>3, <3>7
  <2>2. ASSUME NEW e \in Raises(action),
               attempt' = [attempt EXCEPT !.step = Len(Script(Current)) + 1,
                   !.failure = ClassifyFailure(e, PhaseAt(Current, i), Generated)],
               Note({[error |-> e, phase |-> PhaseAt(Current, i)]}, action \in Mutating, FALSE)
        PROVE  attempt' \in AttemptType /\ history' \subseteq EntryType(Executions)
    <3>1. e \in Errors /\ e \in SUBSET Signals BY Signalled DEF Raises
    <3> DEFINE f == ClassifyFailure(e, PhaseAt(Current, i), Generated)
    <3>2. f \in Failure BY <3>1, <1>5, Classified, Zenon
    <3>3. attempt' = [attempt EXCEPT !.step = Len(Script(Current)) + 1, !.failure = f]
      BY <2>2, Zenon
    <3>4. Len(Script(Current)) + 1 \in Nat BY <1>2, Here
    <3> HIDE DEF f
    <3>5. attempt' \in AttemptType BY <1>4, <3>2, <3>3, <3>4 DEF AttemptType
    <3>6. {[error |-> e, phase |-> PhaseAt(Current, i)]}
            \in SUBSET [error : Errors \cup {{}}, phase : Phases]
      BY <3>1, <1>5
    <3>7. FALSE \in BOOLEAN OBVIOUS
    <3>8. history' \subseteq EntryType(Executions) BY <1>4, <2>2, <3>6, <3>7, NoteType, Zenon
    <3> QED BY <3>5, <3>8
  <2> QED BY <1>1, <2>1, <2>2
<1>7. pc' \in {"steps", "cleanup"} BY <1>1
<1>8. TypeOK' BY <1>1, <1>3, <1>6, <1>7 DEF TypeOK, Under
<1> QED BY <1>1, <1>2, <1>7, <1>8, Within DEF Under

\* One way to clean up: the steps that fail, and the error of the first of them.
Failing(failing, e) ==
  /\ Current.cleans
  /\ failing # {} =>
       LET first == CHOOSE i \in failing : \A j \in failing : i <= j
       IN  e \in Raises(Current.cleanup[first])
  /\ attempt' = [attempt EXCEPT
       !.cleanup  = IF failing = {} THEN "PASSED" ELSE "FAILED",
       !.failure  = IF failing = {} THEN @ ELSE
          FirstFailure(@, ClassifyFailure(e, "cleanup", Generated)),
       !.evidence = IF \E i \in DOMAIN Current.cleanup \ failing :
                         Current.cleanup[i] \in ApiCalls
                    THEN @ \cup {"api-response"} ELSE @,
       !.navigated = @ \/ \E i \in DOMAIN Current.cleanup \ failing :
                             Current.cleanup[i] = "goto"]
  /\ Note(IF failing = {} THEN {} ELSE {[error |-> e, phase |-> "cleanup"]},
          FALSE, failing = {})

LEMMA FailingIs ==
  ASSUME attempt \in AttemptType, NEW failing, NEW e \in Errors \cup {{}}, Failing(failing, e)
  PROVE  /\ attempt' \in AttemptType
         /\ attempt'.cleanup = IF failing = {} THEN "PASSED" ELSE "FAILED"
         /\ failing = {} => attempt'.failure = attempt.failure
         /\ failing # {} =>
              attempt'.failure = FirstFailure(attempt.failure, ClassifyFailure(e, "cleanup", Generated))
         /\ {[error |-> e, phase |-> "cleanup"]}
              \in SUBSET [error : Errors \cup {{}}, phase : Phases]
         /\ failing = {} => Note({}, FALSE, TRUE)
         /\ failing # {} => Note({[error |-> e, phase |-> "cleanup"]}, FALSE, FALSE)
<1> DEFINE f   == ClassifyFailure(e, "cleanup", Generated)
           f2  == IF failing = {} THEN attempt.failure ELSE FirstFailure(attempt.failure, f)
           c2  == IF failing = {} THEN "PASSED" ELSE "FAILED"
           api == \E i \in DOMAIN Current.cleanup \ failing : Current.cleanup[i] \in ApiCalls
           ev2 == IF api THEN attempt.evidence \cup {"api-response"} ELSE attempt.evidence
           nav == attempt.navigated \/ \E i \in DOMAIN Current.cleanup \ failing :
                                          Current.cleanup[i] = "goto"
<1>1. attempt' = [attempt EXCEPT !.cleanup = c2, !.failure = f2, !.evidence = ev2, !.navigated = nav]
  BY Zenon DEF Failing
<1>2. "cleanup" \in Phases /\ e \in SUBSET Signals BY Signalled DEF Phases
<1>3. f \in Failure BY <1>2, Classified, Zenon
<1>4. f2 = IF failing = {} THEN attempt.failure ELSE FirstFailure(attempt.failure, f) OBVIOUS
<1>5. nav \in BOOLEAN OBVIOUS
<1> HIDE DEF f, f2
<1>6. f2 \in Failure BY <1>3, <1>4, FirstOf DEF AttemptType
<1> HIDE DEF api
<1>7. ev2 \in SUBSET Evidence BY DEF AttemptType, Evidence
<1>8. c2 \in Outcomes BY DEF Outcomes
<1>9. c2 = IF failing = {} THEN "PASSED" ELSE "FAILED" OBVIOUS
<1> HIDE DEF ev2, nav, c2
<1>10. attempt' \in AttemptType BY <1>1, <1>5, <1>6, <1>7, <1>8 DEF AttemptType
<1>11. attempt'.cleanup = c2 /\ attempt'.failure = f2 BY <1>1 DEF AttemptType
<1>12. failing = {} => Note({}, FALSE, TRUE)
  <2>1. ASSUME failing = {} PROVE Note({}, FALSE, TRUE)
    <3>1. Note(IF failing = {} THEN {} ELSE {[error |-> e, phase |-> "cleanup"]},
               FALSE, failing = {})
      BY Zenon DEF Failing
    <3> QED BY <2>1, <3>1 DEF Note
  <2> QED BY <2>1
<1>13. failing # {} => Note({[error |-> e, phase |-> "cleanup"]}, FALSE, FALSE)
  <2>1. ASSUME failing # {} PROVE Note({[error |-> e, phase |-> "cleanup"]}, FALSE, FALSE)
    <3>1. Note(IF failing = {} THEN {} ELSE {[error |-> e, phase |-> "cleanup"]},
               FALSE, failing = {})
      BY Zenon DEF Failing
    <3> QED BY <2>1, <3>1 DEF Note
  <2> QED BY <2>1
<1>14. {[error |-> e, phase |-> "cleanup"]} \in SUBSET [error : Errors \cup {{}}, phase : Phases]
  BY <1>2
<1> QED BY <1>4, <1>9, <1>10, <1>11, <1>12, <1>13, <1>14 DEF f

LEMMA CleanUpIs ==
  ASSUME CleanUp
  PROVE  /\ pc = "cleanup" /\ pc' = "evidence" /\ UNCHANGED <<plan, batch, next, tries, results, gate>>
         /\ \/ ~Current.cleans /\ attempt' = attempt /\ history' = history
            \/ \E failing \in SUBSET DOMAIN Current.cleanup, e \in Errors \cup {{}} : Failing(failing, e)
  BY Zenon DEF CleanUp, Failing

LEMMA OrderCleanUp ==
  ASSUME TypeOK, InOrder, CleanUp
  PROVE  TypeOK' /\ InOrder'
<1>1. /\ pc = "cleanup" /\ pc' = "evidence" /\ UNCHANGED <<plan, batch, next, tries, results, gate>>
      /\ \/ attempt' = attempt /\ history' = history
         \/ \E failing \in SUBSET DOMAIN Current.cleanup, e \in Errors \cup {{}} : Failing(failing, e)
  BY CleanUpIs
<1>2. next <= Width BY <1>1 DEF InOrder, Under
<1>3. Width' = Width /\ Executions' = Executions BY <1>1, SamePlan
<1>4. attempt \in AttemptType /\ history \subseteq EntryType(Executions) BY DEF TypeOK
<1>5. attempt' \in AttemptType /\ history' \subseteq EntryType(Executions)
  <2>1. ASSUME NEW failing, NEW e \in Errors \cup {{}}, Failing(failing, e)
        PROVE  attempt' \in AttemptType /\ history' \subseteq EntryType(Executions)
    <3>1. {} \in SUBSET [error : Errors \cup {{}}, phase : Phases]
          /\ FALSE \in BOOLEAN /\ TRUE \in BOOLEAN
      OBVIOUS
    <3>2. /\ attempt' \in AttemptType
          /\ {[error |-> e, phase |-> "cleanup"]}
              \in SUBSET [error : Errors \cup {{}}, phase : Phases]
          /\ Note({}, FALSE, TRUE) \/ Note({[error |-> e, phase |-> "cleanup"]}, FALSE, FALSE)
      BY <1>4, <2>1, FailingIs
    <3>3. history' \subseteq EntryType(Executions) BY <1>4, <3>1, <3>2, NoteType, Zenon
    <3> QED BY <3>2, <3>3
  <2> QED BY <1>1, <1>4, <2>1
<1>6. TypeOK' BY <1>1, <1>3, <1>5 DEF TypeOK, Under
<1> QED BY <1>1, <1>2, <1>6, Within DEF Under

\* What evidence and closing do to an attempt that is told below: they add a
\* failure of their own if there is none yet.
LEMMA CollectEvidenceIs ==
  ASSUME attempt \in AttemptType, CollectEvidence
  PROVE  /\ pc = "evidence" /\ pc' \in {"close", "caught"}
         /\ UNCHANGED <<plan, batch, next, tries, results, gate, history>>
         /\ attempt' \in AttemptType /\ attempt'.cleanup = attempt.cleanup
         /\ \/ attempt'.failure = attempt.failure
            \/ attempt'.failure =
                 FirstFailure(attempt.failure, ClassifyFailure({}, "test", Generated))
<1>1. /\ pc = "evidence" /\ pc' \in {"close", "caught"}
      /\ UNCHANGED <<plan, batch, next, tries, results, gate, history>>
      /\ \/ attempt' = attempt
         \/ \E shot \in {TRUE} \cup {"screenshot" \notin Faults} :
              attempt' = [attempt EXCEPT
                 !.failure  = IF attempt.navigated THEN @
                              ELSE FirstFailure(@, ClassifyFailure({}, "test", Generated)),
                 !.evidence = @ \cup {"console.json"} \cup IF shot THEN {"screenshot"} ELSE {},
                 !.redacted = shot]
  BY DEF CollectEvidence
<1>2. ASSUME NEW shot \in BOOLEAN,
             attempt' = [attempt EXCEPT
                 !.failure  = IF attempt.navigated THEN @
                              ELSE FirstFailure(@, ClassifyFailure({}, "test", Generated)),
                 !.evidence = @ \cup {"console.json"} \cup IF shot THEN {"screenshot"} ELSE {},
                 !.redacted = shot]
      PROVE  /\ attempt' \in AttemptType /\ attempt'.cleanup = attempt.cleanup
             /\ \/ attempt'.failure = attempt.failure
                \/ attempt'.failure =
                    FirstFailure(attempt.failure, ClassifyFailure({}, "test", Generated))
  <2> DEFINE f  == ClassifyFailure({}, "test", Generated)
             f2 == IF attempt.navigated THEN attempt.failure ELSE FirstFailure(attempt.failure, f)
             ev == attempt.evidence \cup {"console.json"} \cup IF shot THEN {"screenshot"} ELSE {}
  <2>1. attempt' = [attempt EXCEPT !.failure = f2, !.evidence = ev, !.redacted = shot]
    BY <1>2, Zenon
  <2>2. {} \in SUBSET Signals /\ "test" \in Phases BY DEF Phases
  <2>3. f \in Failure BY <2>2, Classified, Zenon
  <2>4. f2 = attempt.failure \/ f2 = FirstFailure(attempt.failure, f) BY Zenon
  <2> HIDE DEF f, f2
  <2>5. f2 \in Failure BY <2>3, <2>4, FirstOf DEF AttemptType
  <2>6. ev \in SUBSET Evidence BY DEF AttemptType, Evidence
  <2> HIDE DEF ev
  <2>7. attempt' \in AttemptType /\ attempt'.cleanup = attempt.cleanup /\ attempt'.failure = f2
    BY <2>1, <2>5, <2>6 DEF AttemptType
  <2> QED BY <2>4, <2>7 DEF f
<1> QED BY <1>1, <1>2

LEMMA CloseContextIs ==
  ASSUME attempt \in AttemptType, CloseContext
  PROVE  /\ pc = "close" /\ pc' = "conclude"
         /\ UNCHANGED <<plan, batch, next, tries, results, gate, history>>
         /\ attempt' \in AttemptType /\ attempt'.cleanup = attempt.cleanup
         /\ \/ attempt'.failure = attempt.failure
            \/ \E e \in {{}, {"network"}} :
                 attempt'.failure =
                   FirstFailure(attempt.failure, ClassifyFailure(e, "unknown", Generated))
<1> DEFINE due == Graphic(Current) /\ plan.engine = "declarative"
<1>1. pc = "close" /\ pc' = "conclude"
      /\ UNCHANGED <<plan, batch, next, tries, results, gate, history>>
  BY DEF CloseContext
<1>2. PICK traced \in {TRUE} \cup {"trace" \notin Faults},
           closed \in {TRUE} \cup {"close" \notin Faults},
           e \in {{}, {"network"}} :
        attempt' = [attempt EXCEPT
            !.evidence = IF due /\ traced THEN @ \cup {"playwright-trace"} ELSE @,
            !.redacted = @ /\ (due => traced),
            !.failure  = IF closed THEN @
                         ELSE FirstFailure(@, ClassifyFailure(e, "unknown", Generated))]
  BY Zenon DEF CloseContext
<1> DEFINE f  == ClassifyFailure(e, "unknown", Generated)
           f2 == IF closed THEN attempt.failure ELSE FirstFailure(attempt.failure, f)
           ev == IF due /\ traced THEN attempt.evidence \cup {"playwright-trace"}
                 ELSE attempt.evidence
           rd == attempt.redacted /\ (due => traced)
<1>3. attempt' = [attempt EXCEPT !.evidence = ev, !.redacted = rd, !.failure = f2]
  BY <1>2, Zenon
<1>4. e \in SUBSET Signals /\ "unknown" \in Phases BY DEF Signals, Phases
<1>5. f \in Failure BY <1>4, Classified, Zenon
<1>6. f2 = attempt.failure \/ f2 = FirstFailure(attempt.failure, f) BY Zenon
<1>7. rd \in BOOLEAN BY Zenon
<1> HIDE DEF f, f2, due, rd
<1>8. f2 \in Failure BY <1>5, <1>6, FirstOf DEF AttemptType
<1>9. ev \in SUBSET Evidence BY DEF AttemptType, Evidence
<1> HIDE DEF ev
<1>10. attempt' \in AttemptType /\ attempt'.cleanup = attempt.cleanup /\ attempt'.failure = f2
  BY <1>3, <1>7, <1>8, <1>9 DEF AttemptType
<1> QED BY <1>1, <1>2, <1>6, <1>10, Zenon DEF f

LEMMA OrderEvidence ==
  ASSUME TypeOK, InOrder, CollectEvidence \/ CloseContext
  PROVE  TypeOK' /\ InOrder'
<1>1. attempt \in AttemptType BY DEF TypeOK
<1>2. /\ pc \in {"evidence", "close"} /\ pc' \in {"close", "caught", "conclude"}
      /\ UNCHANGED <<plan, batch, next, tries, results, gate, history>>
      /\ attempt' \in AttemptType
  BY <1>1, CollectEvidenceIs, CloseContextIs
<1>3. next <= Width BY <1>2 DEF InOrder, Under
<1>4. Width' = Width /\ Executions' = Executions BY <1>2, SamePlan
<1>5. TypeOK' BY <1>2, <1>4 DEF TypeOK, Under
<1> QED BY <1>2, <1>3, <1>5, Within DEF Under

LEMMA OrderRetry ==
  ASSUME TypeOK, InOrder, Retry
  PROVE  TypeOK' /\ InOrder'
<1>1. /\ pc = "conclude" /\ pc' = "case" /\ tries' = Append(tries, "FAILED")
      /\ UNCHANGED <<plan, batch, next, attempt, results, gate, history>>
  BY DEF Retry
<1>2. next <= Width BY <1>1 DEF InOrder, Under
<1>3. Width' = Width /\ Executions' = Executions BY <1>1, SamePlan
<1>4. tries' \in Seq({"FAILED"}) BY <1>1 DEF TypeOK
<1>5. TypeOK' BY <1>1, <1>3, <1>4 DEF TypeOK, Under
<1> QED BY <1>1, <1>2, <1>5, Within DEF Under

\* The result of the attempt that counts.
Concluded ==
  [Result(Current, IF Passed(attempt) THEN "PASSED" ELSE "FAILED", attempt.evidence)
     EXCEPT !.flaky = Passed(attempt) /\ tries # <<>>,
            !.kind = attempt.failure.kind, !.phase = attempt.failure.phase,
            !.class = attempt.failure.class, !.cleanup = attempt.cleanup,
            !.redacted = attempt.redacted, !.attempts = Len(tries) + 1]

LEMMA ConcludedIs ==
  ASSUME TypeOK, NEW X, Name \in X
  PROVE  /\ Concluded \in ResultType(X) /\ Concluded.exec = Name
         /\ Concluded.status = (IF Passed(attempt) THEN "PASSED" ELSE "FAILED")
         /\ Concluded.flaky = (Passed(attempt) /\ tries # <<>>)
         /\ Concluded.kind = attempt.failure.kind /\ Concluded.phase = attempt.failure.phase
         /\ Concluded.class = attempt.failure.class /\ Concluded.cleanup = attempt.cleanup
         /\ Concluded.attempts = Len(tries) + 1
<1> DEFINE st == IF Passed(attempt) THEN "PASSED" ELSE "FAILED"
           fl == Passed(attempt) /\ tries # <<>>
           n  == Len(tries) + 1
<1>1. Concluded =
        [Result(Current, st, attempt.evidence)
          EXCEPT !.flaky = fl, !.kind = attempt.failure.kind, !.phase = attempt.failure.phase,
                 !.class = attempt.failure.class, !.cleanup = attempt.cleanup,
                 !.redacted = attempt.redacted, !.attempts = n]
  BY Zenon DEF Concluded
<1>2. n \in Nat BY DEF TypeOK
<1>3. fl \in BOOLEAN BY Zenon
<1>4. st \in {"PASSED", "FAILED"} BY Zenon
<1> HIDE DEF st, fl, n
<1>5. Concluded =
        [exec |-> Name, status |-> st, flaky |-> fl, kind |-> attempt.failure.kind,
         phase |-> attempt.failure.phase, class |-> attempt.failure.class,
         evidence |-> attempt.evidence, cleanup |-> attempt.cleanup,
         redacted |-> attempt.redacted, attempts |-> n]
  BY <1>1 DEF Result, Name
<1>6. Concluded \in ResultType(X)
  BY <1>5, <1>2, <1>3, <1>4 DEF TypeOK, AttemptType, Failure, ResultType
<1>7. /\ Concluded.exec = Name /\ Concluded.status = st /\ Concluded.flaky = fl
      /\ Concluded.kind = attempt.failure.kind /\ Concluded.phase = attempt.failure.phase
      /\ Concluded.class = attempt.failure.class /\ Concluded.cleanup = attempt.cleanup
      /\ Concluded.attempts = n
  BY <1>5
<1> QED BY <1>6, <1>7, Zenon DEF st, fl, n

LEMMA RecordResultIs ==
  ASSUME RecordResult
  PROVE  /\ pc = "conclude" /\ UNCHANGED <<plan, batch, gate, history>>
         /\ \/ results' = Append(results, Concluded) /\ Persist
            \/ pc' = "caught" /\ UNCHANGED <<results, next, tries, attempt>>
  BY Zenon DEF RecordResult, Concluded

LEMMA OrderRecordResult ==
  ASSUME TypeOK, InOrder, RecordResult
  PROVE  TypeOK' /\ InOrder'
<1>1. pc = "conclude" /\ UNCHANGED <<plan, batch, gate, history>> BY RecordResultIs
<1>2. next <= Width /\ batch <= Len(plan.batches) BY <1>1 DEF InOrder
<1>3. CASE results' = Append(results, Concluded) /\ Persist
  <2>1. Name \in Executions BY <1>2, Here
  <2>2. Concluded \in ResultType(Executions) /\ Concluded.exec = Name BY <2>1, ConcludedIs
  <2> QED BY <1>1, <1>2, <1>3, <2>2, Pushed
<1>4. CASE pc' = "caught" /\ UNCHANGED <<results, next, tries, attempt>>
  <2>1. Width' = Width /\ Executions' = Executions BY <1>1, SamePlan
  <2>2. TypeOK' BY <1>1, <1>4, <2>1 DEF TypeOK
  <2> QED BY <1>1, <1>2, <1>4, <2>2, Within
<1> QED BY <1>3, <1>4, RecordResultIs

LEMMA OrderEndBatch ==
  ASSUME TypeOK, InOrder, EndBatch
  PROVE  TypeOK' /\ InOrder'
<1>1. /\ pc = "case" /\ next > Width /\ pc' = "launch" /\ batch' = batch + 1
      /\ UNCHANGED <<plan, next, tries, attempt, results, gate, history>>
  BY DEF EndBatch, Width
<1>2. Width' = Width /\ Executions' = Executions /\ Instances(plan)' = Instances(plan)
  BY <1>1, SamePlan
<1>3. batch <= Len(plan.batches) BY <1>1 DEF InOrder
<1>4. TypeOK'
  <2>1. batch' \in 1..(Len(plan.batches) + 1) BY <1>1, <1>3, Spot
  <2> QED BY <1>1, <1>2, <2>1 DEF TypeOK
<1>5. Before' = Before
  <2>1. Before' = batch * Width
    <3>1. Before' = (batch' - 1) * Width + 0 BY <1>1, <1>2, Zenon DEF Before
    <3>2. batch' - 1 = batch BY <1>1, Spot
    <3>3. Before' = batch * Width + 0 BY <3>1, <3>2, Zenon
    <3>4. batch * Width \in Nat BY Spot
    <3> QED BY <3>3, <3>4
  <2>2. Before = (batch - 1) * Width + (next - 1) BY <1>1, Zenon DEF Before
  <2>3. next - 1 = Width BY <1>1, Spot
  <2> QED BY <2>1, <2>2, <2>3, Spot, Zenon
<1> QED BY <1>1, <1>2, <1>4, <1>5 DEF InOrder, Under

\* The cases of the batch that have no result are blocked, and the batch is over.
Rest == [i \in 1..(Width - next + 1) |->
           BlockedResult(Selected(plan)[next + i - 1], "INFRA_BLOCKED")]

LEMMA BlockedRest ==
  ASSUME TypeOK, InOrder, pc = "caught", results' = results \o Rest
  PROVE  /\ results' \in Seq(ResultType(Executions)) /\ Len(results') = batch * Width
         /\ Len(results) = (batch - 1) * Width + next - 1 /\ DOMAIN results \subseteq DOMAIN results'
         /\ \A i \in DOMAIN results' :
              IF i \in DOMAIN results THEN results'[i] = results[i]
              ELSE results'[i].exec = Instances(plan)[i] /\ results'[i].status = "INFRA_BLOCKED"
<1> DEFINE n == Width - next + 1
           K == (batch - 1) * Width
<1>1. /\ batch \in 1..Len(plan.batches) /\ Width \in Nat /\ next \in 1..(Width + 1) /\ n \in Nat
      /\ plan \in Plans /\ K \in Nat /\ batch * Width = K + Width
  BY Spot DEF InOrder, Under
<1>2. Len(results) = K + next - 1
  <2>1. Len(results) = Before BY DEF InOrder
  <2>2. Before = K + (next - 1) BY Zenon DEF Before
  <2> HIDE DEF K
  <2> QED BY <1>1, <2>1, <2>2
<1>3. ASSUME NEW i \in 1..n
      PROVE  /\ Rest[i] \in ResultType(Executions) /\ Rest[i].status = "INFRA_BLOCKED"
             /\ Rest[i].exec = Instances(plan)[Len(results) + i]
  <2>1. next + i - 1 \in 1..Width BY <1>1
  <2>2. /\ K + (next + i - 1) \in DOMAIN Instances(plan)
        /\ Instances(plan)[K + (next + i - 1)]
             = ExecutionId(Selected(plan)[next + i - 1], plan.batches[batch])
    BY <1>1, <2>1, Position
  <2>3. ExecutionId(Selected(plan)[next + i - 1], plan.batches[batch]) \in Executions
    BY <2>2 DEF Executions, ToSet
  <2>4. K + (next + i - 1) = Len(results) + i
    <3> HIDE DEF K
    <3> QED BY <1>1, <1>2, i \in Nat
  <2>5. Rest[i] = BlockedResult(Selected(plan)[next + i - 1], "INFRA_BLOCKED") BY DEF Rest
  <2>6. "INFRA_BLOCKED" \in Unexecuted BY DEF Unexecuted
  <2> HIDE DEF K
  <2> QED BY <2>2, <2>3, <2>4, <2>5, <2>6, BlockedType
<1>4. results \in Seq(ResultType(Executions)) BY DEF TypeOK
<1>6. Rest \in Seq(ResultType(Executions)) /\ Len(Rest) = n
  <2>1. DOMAIN Rest = 1..n /\ Rest = [i \in 1..n |-> Rest[i]] BY DEF Rest
  <2>2. n \in Nat /\ \A i \in 1..n : Rest[i] \in ResultType(Executions) BY <1>1, <1>3
  <2> HIDE DEF n
  <2> QED BY <2>1, <2>2
<1>7. /\ results' \in Seq(ResultType(Executions)) /\ Len(results') = Len(results) + n
      /\ DOMAIN results \subseteq DOMAIN results'
      /\ \A i \in DOMAIN results' :
           \/ i \in DOMAIN results /\ results'[i] = results[i]
           \/ i \notin DOMAIN results /\ i - Len(results) \in 1..n /\ i = Len(results) + (i - Len(results))
              /\ results'[i] = Rest[i - Len(results)]
  <2>1. n \in Nat BY <1>1
  <2> HIDE DEF n, K
  <2> QED BY <1>4, <1>6, <2>1, Concatenation
<1>8. Len(results') = batch * Width
  <2>1. Len(results') = (K + next - 1) + (Width - next + 1) BY <1>2, <1>7
  <2>2. batch * Width = K + Width BY <1>1
  <2> HIDE DEF K
  <2>3. K \in Nat /\ next \in Nat /\ Width \in Nat BY <1>1
  <2> QED BY <2>1, <2>2, <2>3
<1>9. ASSUME NEW i \in DOMAIN results'
      PROVE  IF i \in DOMAIN results THEN results'[i] = results[i]
             ELSE results'[i].exec = Instances(plan)[i] /\ results'[i].status = "INFRA_BLOCKED"
  <2> HIDE DEF n
  <2> QED BY <1>3, <1>7
<1> QED BY <1>2, <1>7, <1>8, <1>9

LEMMA OrderBlockRest ==
  ASSUME TypeOK, InOrder, BlockRest
  PROVE  TypeOK' /\ InOrder'
<1>1. /\ pc = "caught" /\ UNCHANGED <<plan, next, tries, attempt, gate, history>>
      /\ \/ /\ results' = results \o Rest
            /\ pc' = "launch" /\ batch' = batch + 1
         \/ pc' = "thrown" /\ UNCHANGED <<results, batch>>
  BY Zenon DEF BlockRest, Width, Rest
<1>2. Width' = Width /\ Executions' = Executions /\ Instances(plan)' = Instances(plan)
  BY <1>1, SamePlan
<1>3. CASE pc' = "thrown" /\ UNCHANGED <<results, batch>>
  <2>1. TypeOK' BY <1>1, <1>2, <1>3 DEF TypeOK
  <2> QED BY <1>3, <2>1 DEF InOrder
<1>4. CASE /\ results' = results \o Rest
           /\ pc' = "launch" /\ batch' = batch + 1
  <2>1. /\ results' \in Seq(ResultType(Executions)) /\ Len(results') = batch * Width
        /\ \A i \in DOMAIN results' : results'[i].exec = Instances(plan)[i]
    BY <1>1, <1>4, BlockedRest DEF InOrder
  <2>2. batch' \in 1..(Len(plan.batches) + 1)
    <3>1. batch <= Len(plan.batches) BY <1>1 DEF InOrder
    <3> QED BY <1>4, <3>1, Spot
  <2>3. TypeOK' BY <1>1, <1>2, <1>4, <2>1, <2>2 DEF TypeOK
  <2>4. Before' = batch * Width
    <3>1. Before' = (batch' - 1) * Width + 0 BY <1>2, <1>4, Zenon DEF Before
    <3>2. batch' - 1 = batch BY <1>4, Spot
    <3>3. Before' = batch * Width + 0 BY <3>1, <3>2, Zenon
    <3>4. batch * Width \in Nat BY Spot
    <3> QED BY <3>3, <3>4
  <2> QED BY <1>1, <1>2, <1>4, <2>1, <2>3, <2>4 DEF InOrder, Under
<1> QED BY <1>1, <1>3, <1>4

LEMMA GateType ==
  ASSUME NEW p, NEW rs, NEW planned
  PROVE  Gate(p, rs, planned) \in {"incomplete", "infra", "fail", "unstable", "pass"}
  BY DEF Gate

LEMMA OrderJudge ==
  ASSUME TypeOK, InOrder, Judge
  PROVE  TypeOK' /\ InOrder'
<1>1. /\ pc = "launch" /\ batch > Len(plan.batches)
      /\ UNCHANGED <<plan, batch, next, tries, attempt, results, history>>
      /\ \/ pc' = "done" /\ gate' = Gate(plan, results, Instances(plan))
         \/ pc' = "thrown" /\ gate' = gate
  BY DEF Judge
<1>2. Width' = Width /\ Executions' = Executions /\ Instances(plan)' = Instances(plan)
  BY <1>1, SamePlan
<1>3. TypeOK' BY <1>1, <1>2, GateType DEF TypeOK
<1>4. CASE pc' = "done"
  <2>1. Before' = (batch - 1) * Width + 0 BY <1>1, <1>2, <1>4, Zenon DEF Before
  <2>2. Before = (batch - 1) * Width + 0 BY <1>1, Zenon DEF Before
  <2> QED BY <1>1, <1>2, <1>3, <1>4, <2>1, <2>2 DEF InOrder, Under
<1>5. CASE pc' = "thrown" BY <1>3, <1>5 DEF InOrder
<1> QED BY <1>1, <1>4, <1>5

LEMMA OrderKept ==
  ASSUME TypeOK, InOrder, [Next]_vars
  PROVE  TypeOK' /\ InOrder'
<1>1. CASE UNCHANGED vars
  <2>1. UNCHANGED <<plan, batch, next, pc, tries, attempt, results, gate, history>>
    BY <1>1 DEF vars
  <2>2. Width' = Width /\ Executions' = Executions /\ Instances(plan)' = Instances(plan)
    BY <2>1, SamePlan
  <2>3. Before' = Before BY <2>1, <2>2, Zenon DEF Before
  <2>4. TypeOK' BY <2>1, <2>2 DEF TypeOK
  <2> QED BY <2>1, <2>2, <2>3, <2>4 DEF InOrder
<1>2. CASE Next
  BY <1>2, OrderLaunch, OrderSkipBlocked, OrderRefuse, OrderOpenContext, OrderTakeStep,
     OrderCleanUp, OrderEvidence, OrderRetry, OrderRecordResult, OrderEndBatch,
     OrderBlockRest, OrderJudge
     DEF Next
<1> QED BY <1>1, <1>2

LEMMA OrderInitial ==
  ASSUME Init
  PROVE  TypeOK /\ InOrder
<1>1. /\ plan \in Plans /\ batch = 1 /\ next = 1 /\ pc = "launch" /\ tries = <<>>
      /\ attempt = NewAttempt /\ results = <<>> /\ gate = "none" /\ history = {}
  BY DEF Init
<1>2. Width \in Nat /\ Len(plan.batches) \in Nat BY <1>1, PlanShape
<1>3. TypeOK BY <1>1, <1>2, NewAttemptType DEF TypeOK
<1>4. Before = 0
  <2>1. Before = (1 - 1) * Width + 0 BY <1>1, Zenon DEF Before
  <2> QED BY <1>2, <2>1
<1>5. InOrder BY <1>1, <1>4 DEF InOrder, Under
<1> QED BY <1>3, <1>5

(***************************************************************************)
(* Types, and the results in the order of the manifest: whatever fails in  *)
(* the steps, the browser or a write, and for plans in which an execution  *)
(* is listed twice as well.                                                *)
(***************************************************************************)
THEOREM InvariantOrder == Spec => [](TypeOK /\ InOrder)
<1>1. Init => TypeOK /\ InOrder BY OrderInitial
<1>2. TypeOK /\ InOrder /\ [Next]_vars => (TypeOK /\ InOrder)' BY OrderKept
<1> QED BY <1>1, <1>2, PTL DEF Spec

LEMMA ManifestKept ==
  ASSUME TypeOK, InOrder
  PROVE  EveryInstanceOnce
<1> SUFFICES ASSUME pc = "done"
             PROVE  [i \in DOMAIN results |-> results[i].exec] = Instances(plan)
  BY DEF EveryInstanceOnce
<1>1. /\ Len(results) = Before /\ batch > Len(plan.batches)
      /\ \A i \in DOMAIN results : results[i].exec = Instances(plan)[i]
  BY DEF InOrder
<1>2. batch - 1 = Len(plan.batches) BY <1>1, Spot DEF TypeOK
<1>3. Before = Len(plan.batches) * Width
  <2>1. Before = (batch - 1) * Width + 0 BY Zenon DEF Before
  <2>2. (batch - 1) * Width \in Nat BY Spot
  <2>3. Before = (batch - 1) * Width BY <2>1, <2>2
  <2> QED BY <1>2, <2>3, Zenon
<1>4. DOMAIN results = 1..(Len(plan.batches) * Width)
  <2>1. DOMAIN results = 1..Len(results) BY DEF TypeOK
  <2> QED BY <1>1, <1>3, <2>1, Zenon
<1>5. /\ DOMAIN Instances(plan) = 1..(Len(plan.batches) * Width)
      /\ Instances(plan) = [i \in DOMAIN Instances(plan) |-> Instances(plan)[i]]
  BY Manifest, Spot DEF Instances
<1>6. DOMAIN results = DOMAIN Instances(plan) BY <1>4, <1>5
<1> QED BY <1>1, <1>5, <1>6

\* A run that returns has exactly one result for every instance of its manifest,
\* in the order of the manifest (run, results and completed).
THEOREM InstancesHaveOneResult == Spec => []EveryInstanceOnce
<1>1. TypeOK /\ InOrder => EveryInstanceOnce BY ManifestKept
<1> QED BY <1>1, InvariantOrder, PTL

--------------------------------------------------------------------------------
(***************************************************************************)
(* Results tell what happened in the attempts, action by action.           *)
(***************************************************************************)
Kept(x) == {h \in history' : h.exec = x} = {h \in history : h.exec = x}

\* An execution without a result is none of those that have one.
LEMMA NotYet ==
  ASSUME TypeOK, InOrder, Distinct, pc \notin {"launch", "done", "thrown"}, next <= Width
  PROVE  /\ \A i \in DOMAIN results : results[i].exec # Name
         /\ Len(results) + 1 \in DOMAIN Instances(plan)
         /\ Instances(plan)[Len(results) + 1] = Name /\ CaseAt(Len(results) + 1) = Current
<1> DEFINE K == (batch - 1) * Width
<1>1. /\ batch <= Len(plan.batches) /\ Len(results) = Before
      /\ \A i \in DOMAIN results : results[i].exec = Instances(plan)[i]
  BY DEF InOrder
<1>2. K + next \in DOMAIN Instances(plan) /\ Instances(plan)[K + next] = Name
      /\ CaseAt(K + next) = Current
  BY <1>1, Here
<1>3. K \in Nat /\ next \in Nat /\ next > 0 BY Spot
<1>4. Before = K + (next - 1) BY Zenon DEF Before
<1>5. Len(results) + 1 = K + next
  <2> HIDE DEF K
  <2> QED BY <1>1, <1>3, <1>4
<1>6. /\ Len(results) + 1 \in DOMAIN Instances(plan)
      /\ Instances(plan)[Len(results) + 1] = Name /\ CaseAt(Len(results) + 1) = Current
  BY <1>2, <1>5, Zenon
<1>7. ASSUME NEW i \in DOMAIN results, results[i].exec = Name PROVE FALSE
  <2>1. i \in 1..Len(results) BY DEF TypeOK
  <2>2. DOMAIN Instances(plan) = 1..(Len(plan.batches) * Width) BY Manifest, Spot
  <2>3. Len(plan.batches) * Width \in Nat BY Products, Spot
  <2>4. i \in DOMAIN Instances(plan) BY <1>6, <2>1, <2>2, <2>3
  <2>5. i = Len(results) + 1 BY <1>1, <1>6, <1>7, <2>4 DEF Distinct
  <2> QED BY <2>1, <2>5
<1> QED BY <1>6, <1>7

\* A result stays told while the attempts of its execution stay as they are.
LEMMA Held ==
  ASSUME plan' = plan, AllTold, DOMAIN results \subseteq DOMAIN results',
         \A i \in DOMAIN results : results'[i] = results[i] /\ Kept(results[i].exec)
  PROVE  \A i \in DOMAIN results : ResultTold(i)'
<1> SUFFICES ASSUME NEW i \in DOMAIN results PROVE ResultTold(i)' OBVIOUS
<1>1. ResultTold(i) /\ results'[i] = results[i] /\ Kept(results[i].exec) BY DEF AllTold
<1>2. CaseAt(i)' = CaseAt(i) BY SamePlan DEF CaseAt
<1>3. \A h : h.exec = results[i].exec => (h \in history' <=> h \in history) BY <1>1 DEF Kept
<1> QED BY <1>1, <1>2, <1>3 DEF ResultTold

LEMMA BlockedTold ==
  ASSUME NEW i, results[i].status \in Unexecuted
  PROVE  ResultTold(i)
  BY DEF ResultTold, Unexecuted

\* A step that touches neither the history nor the results of an untold plan.
LEMMA Silent ==
  ASSUME plan' = plan, history' = history, results' = results, AllTold, HistoryUnique
  PROVE  AllTold' /\ HistoryUnique' /\ Distinct' = Distinct
<1>1. \A i \in DOMAIN results : results'[i] = results[i] /\ Kept(results[i].exec) BY DEF Kept
<1>2. \A i \in DOMAIN results : ResultTold(i)' BY <1>1, Held
<1> QED BY <1>2, SamePlan DEF AllTold, HistoryUnique, Distinct

Parts == HistoryKnown /\ HistoryUnique /\ AttemptTold /\ AllTold

LEMMA ToldLaunch ==
  ASSUME Parts, Launch
  PROVE  Parts'
<1>1. /\ pc = "launch" /\ pc' \in {"case", "caught"}
      /\ UNCHANGED <<plan, batch, attempt, results, gate, history>>
  BY DEF Launch
<1>2. AllTold' /\ HistoryUnique' BY <1>1, Silent DEF Parts
<1>3. HistoryKnown' BY <1>1 DEF Parts, HistoryKnown
<1>4. AttemptTold' BY <1>1 DEF AttemptTold, Under
<1> QED BY <1>2, <1>3, <1>4 DEF Parts

\* A result of the current case is pushed: what it tells is given.
LEMMA ToldPushed ==
  ASSUME TypeOK, InOrder, Distinct, Parts, pc \in {"case", "conclude"}, next <= Width,
         NEW r, r.exec = Name,
         results' = Append(results, r), Persist, UNCHANGED <<plan, batch, gate, history>>,
         NEW n, n = Len(results) + 1, ResultTold(n)'
  PROVE  Parts'
<1>1. pc' \in {"case", "caught"} BY DEF Persist
<1>2. /\ DOMAIN results' = 1..(Len(results) + 1) /\ DOMAIN results = 1..Len(results)
      /\ Len(results) \in Nat
      /\ \A i \in DOMAIN results : results'[i] = results[i]
      /\ results'[Len(results) + 1] = r
  <2>1. results \in Seq(ResultType(Executions)) BY DEF TypeOK
  <2> QED BY <2>1, AppendedAny
<1>3. AllTold'
  <2>1. \A i \in DOMAIN results : results'[i] = results[i] /\ Kept(results[i].exec)
    BY <1>2 DEF Kept
  <2>2. DOMAIN results \subseteq DOMAIN results' BY <1>2
  <2>3. \A i \in DOMAIN results : ResultTold(i)' BY <2>1, <2>2, Held DEF Parts
  <2>4. ASSUME NEW i \in DOMAIN results' PROVE ResultTold(i)'
    <3>1. CASE i \in DOMAIN results BY <2>3, <3>1
    <3>2. CASE i = n BY <3>2
    <3> QED BY <1>2, <3>1, <3>2
  <2> QED BY <2>4 DEF AllTold
<1>4. HistoryUnique' BY DEF Parts, HistoryUnique
<1>5. HistoryKnown'
  <2> SUFFICES ASSUME NEW h \in history' PROVE \E i \in DOMAIN results' : h.exec = results'[i].exec
    BY DEF HistoryKnown
  <2>1. h \in history OBVIOUS
  <2>2. CASE h.exec = Name BY <2>2, <1>2
  <2>3. CASE h.exec # Name
    <3>1. PICK i \in DOMAIN results : h.exec = results[i].exec
      BY <2>1, <2>3 DEF Parts, HistoryKnown
    <3> QED BY <3>1, <1>2
  <2> QED BY <2>2, <2>3
<1>6. AttemptTold' BY <1>1 DEF AttemptTold, Under
<1> QED BY <1>3, <1>4, <1>5, <1>6 DEF Parts

LEMMA ToldSkipBlocked ==
  ASSUME TypeOK, InOrder, Distinct, Parts, SkipBlocked
  PROVE  Parts'
<1> DEFINE r == BlockedResult(Current, "BLOCKED_RESUME")
<1>1. /\ pc = "case" /\ next <= Width /\ Persist /\ results' = Append(results, r)
      /\ UNCHANGED <<plan, batch, gate, history>>
  BY DEF SkipBlocked, Width
<1>2. Name \in Executions BY <1>1, Here DEF InOrder
<1>3. r \in ResultType(Executions) /\ r.exec = Name /\ r.status = "BLOCKED_RESUME"
  BY <1>2, BlockedType, "BLOCKED_RESUME" \in Unexecuted DEF Name, Unexecuted
<1> HIDE DEF r
<1>4. results'[Len(results) + 1] = r
  <2>1. results \in Seq(ResultType(Executions)) BY DEF TypeOK
  <2> QED BY <1>1, <2>1, AppendedAny
<1>5. PICK n : n = Len(results) + 1 OBVIOUS
<1>6. results'[n] = r BY <1>4, <1>5
<1>7. ResultTold(n)' BY <1>3, <1>6 DEF ResultTold
<1> QED BY <1>1, <1>3, <1>5, <1>7, ToldPushed

LEMMA ToldRefuse ==
  ASSUME TypeOK, Parts, Refuse
  PROVE  Parts'
<1>1. /\ pc = "case" /\ pc' = "conclude"
      /\ attempt' = [NewAttempt EXCEPT !.failure = [NoFailure EXCEPT !.class = "TEST_DEFECT"]]
      /\ UNCHANGED <<plan, batch, next, tries, results, gate, history>>
  BY DEF Refuse
<1>2. AllTold' /\ HistoryUnique' BY <1>1, Silent DEF Parts
<1>3. HistoryKnown'
  <2>1. Width' = Width /\ Name' = Name BY <1>1, SamePlan DEF Name, Current
  <2>2. Begun = Len(tries) /\ Begun' = Len(tries) + 1 /\ Len(tries) \in Nat
    BY <1>1 DEF Begun, TypeOK
  <2> SUFFICES ASSUME NEW h \in history
               PROVE  \/ \E i \in DOMAIN results : h.exec = results[i].exec
                      \/ next <= Width /\ h.exec = Name /\ h.try <= Begun'
    BY <1>1, <2>1 DEF HistoryKnown
  <2>3. h.try \in Nat BY DEF TypeOK, EntryType
  <2> QED BY <1>1, <2>2, <2>3 DEF Parts, HistoryKnown
<1>4. AttemptTold'
  <2>1. attempt'.failure = [NoFailure EXCEPT !.class = "TEST_DEFECT"] BY <1>1 DEF NewAttempt
  <2> QED BY <1>1, <2>1 DEF AttemptTold, Under
<1> QED BY <1>2, <1>3, <1>4 DEF Parts

\* The attempt that is begun is new to the history.
LEMMA Fresh ==
  ASSUME TypeOK, InOrder, Distinct, HistoryKnown, pc = "case", next <= Width, NEW h \in history
  PROVE  ~(h.exec = Name /\ h.try = Len(tries) + 1)
<1>1. h.try \in Nat /\ Len(tries) \in Nat BY DEF TypeOK, EntryType
<1>2. Begun = Len(tries) BY <1>1 DEF Begun
<1>3. \A i \in DOMAIN results : results[i].exec # Name BY NotYet
<1> QED BY <1>1, <1>2, <1>3 DEF HistoryKnown

LEMMA ToldOpenContext ==
  ASSUME TypeOK, InOrder, Distinct, Parts, OpenContext
  PROVE  Parts'
<1> DEFINE new == [exec |-> Attempt.exec, try |-> Attempt.try,
                   raised |-> {}, mutated |-> FALSE, cleaned |-> FALSE]
<1>1. /\ pc = "case" /\ next <= Width /\ attempt' = NewAttempt
      /\ \/ pc' = "steps" /\ history' = history \cup {new}
         \/ pc' = "caught" /\ history' = history
      /\ UNCHANGED <<plan, batch, next, tries, results, gate>>
  BY DEF OpenContext, Width
<1>2. new.exec = Name /\ new.try = Len(tries) + 1 /\ new.raised = {} /\ new.cleaned = FALSE
  BY DEF Attempt, Name
<1> HIDE DEF new
<1>3. Width' = Width /\ Name' = Name /\ Current' = Current BY <1>1, SamePlan DEF Name, Current
<1>4. Begun = Len(tries) /\ Begun' = Len(tries) + 1 /\ Len(tries) \in Nat
  BY <1>1 DEF Begun, TypeOK
<1>5. HistoryKnown'
  <2> SUFFICES ASSUME NEW h \in history'
               PROVE  \/ \E i \in DOMAIN results : h.exec = results[i].exec
                      \/ next <= Width /\ h.exec = Name /\ h.try <= Begun'
    BY <1>1, <1>3 DEF HistoryKnown
  <2>1. CASE h \in history
    <3>1. h.try \in Nat BY <2>1 DEF TypeOK, EntryType
    <3> QED BY <1>1, <1>4, <2>1, <3>1 DEF Parts, HistoryKnown
  <2>2. CASE h = new BY <1>1, <1>2, <1>4, <2>2
  <2> QED BY <1>1, <2>1, <2>2
<1>6. HistoryUnique'
  <2>1. \A h \in history : ~(h.exec = Name /\ h.try = Len(tries) + 1)
    BY <1>1, Fresh DEF Parts
  <2> QED BY <1>1, <1>2, <2>1 DEF Parts, HistoryUnique
<1>7. AllTold'
  <2>1. \A i \in DOMAIN results : results[i].exec # Name BY <1>1, NotYet
  <2>2. \A i \in DOMAIN results : results'[i] = results[i] /\ Kept(results[i].exec)
    BY <1>1, <1>2, <2>1 DEF Kept
  <2>3. \A i \in DOMAIN results : ResultTold(i)' BY <1>1, <2>2, Held DEF Parts
  <2> QED BY <1>1, <2>3 DEF AllTold
<1>8. AttemptTold'
  <2>1. CASE pc' = "caught" BY <2>1 DEF AttemptTold, Under
  <2>2. CASE pc' = "steps" /\ history' = history \cup {new}
    <3>1. attempt'.failure = NoFailure /\ attempt'.cleanup = "SKIPPED" BY <1>1 DEF NewAttempt
    <3>2. ~Blames(NoFailure) BY DEF Blames, NoFailure
    <3>3. /\ new \in history' /\ new.exec = Name' /\ new.try = Begun'
          /\ attempt'.failure = NoFailure => new.raised = {}
          /\ Blames(attempt'.failure) => \E x \in new.raised : Proof(x)
          /\ pc' \in {"steps", "cleanup"} => ~new.cleaned
          /\ attempt'.cleanup =
               IF ~(Current').cleans \/ pc' \in {"steps", "cleanup"} THEN "SKIPPED"
               ELSE IF new.cleaned THEN "PASSED" ELSE "FAILED"
      BY <1>2, <1>3, <1>4, <2>2, <3>1, <3>2
    <3> QED BY <2>2, <3>3 DEF AttemptTold
  <2> QED BY <1>1, <2>1, <2>2
<1> QED BY <1>5, <1>6, <1>7, <1>8 DEF Parts

\* What is noted of the attempt under way changes its entry and no other.
LEMMA Noted ==
  ASSUME history \subseteq EntryType(Executions), HistoryUnique,
         NEW raised, NEW mutates, NEW cleaned, Note(raised, mutates, cleaned)
  PROVE  /\ \A g \in history' : \E h \in history :
              /\ g.exec = h.exec /\ g.try = h.try
              /\ h.exec # Name => g = h
         /\ \A h \in history : h.exec # Name => h \in history'
         /\ \A h \in history : h.exec = Name /\ h.try = Len(tries) + 1 =>
              \E g \in history' : /\ g.exec = h.exec /\ g.try = h.try
                                  /\ g.raised = h.raised \cup raised /\ g.cleaned = cleaned
         /\ HistoryUnique'
<1> DEFINE Mine(h) == h.exec = Name /\ h.try = Len(tries) + 1
           New(h)  == [h EXCEPT !.raised = @ \cup raised, !.mutated = @ \/ mutates,
                               !.cleaned = cleaned]
<1>1. history' = {IF Mine(h) THEN New(h) ELSE h : h \in history}
  BY DEF Note, Attempt, Name
<1>2. ASSUME NEW h \in history
      PROVE  /\ New(h).exec = h.exec /\ New(h).try = h.try
             /\ New(h).raised = h.raised \cup raised /\ New(h).cleaned = cleaned
  <2>1. h \in EntryType(Executions) OBVIOUS
  <2> QED BY <2>1 DEF EntryType
<1> HIDE DEF New
<1>3. \A g \in history' : \E h \in history :
        g.exec = h.exec /\ g.try = h.try /\ g = IF Mine(h) THEN New(h) ELSE h
  BY <1>1, <1>2
<1>4. \A h \in history : (IF Mine(h) THEN New(h) ELSE h) \in history' BY <1>1
<1>5. HistoryUnique'
  <2> SUFFICES ASSUME NEW g1 \in history', NEW g2 \in history',
                      g1.exec = g2.exec, g1.try = g2.try
               PROVE  g1 = g2
    BY DEF HistoryUnique
  <2>1. PICK h1 \in history :
          g1.exec = h1.exec /\ g1.try = h1.try /\ g1 = IF Mine(h1) THEN New(h1) ELSE h1
    BY <1>3
  <2>2. PICK h2 \in history :
          g2.exec = h2.exec /\ g2.try = h2.try /\ g2 = IF Mine(h2) THEN New(h2) ELSE h2
    BY <1>3
  <2>3. h1 = h2 BY <2>1, <2>2 DEF HistoryUnique
  <2> QED BY <2>1, <2>2, <2>3
<1>6. \A h \in history : Mine(h) =>
        \E g \in history' : /\ g.exec = h.exec /\ g.try = h.try
                            /\ g.raised = h.raised \cup raised /\ g.cleaned = cleaned
  BY <1>2, <1>4
<1> QED BY <1>3, <1>4, <1>5, <1>6

Amended(h, raised, cleaned) ==
  \E g \in history' : /\ g.exec = h.exec /\ g.try = h.try
                      /\ g.raised = h.raised \cup raised /\ g.cleaned = cleaned

LEMMA NotedMine ==
  ASSUME history \subseteq EntryType(Executions), HistoryUnique,
         NEW raised, NEW mutates, NEW cleaned, Note(raised, mutates, cleaned),
         NEW h \in history, h.exec = Name, h.try = Len(tries) + 1
  PROVE  Amended(h, raised, cleaned)
  BY Noted DEF Amended

LEMMA NotedParts ==
  ASSUME TypeOK, InOrder, Distinct, Parts, pc \in Under, pc' \in Under,
         NEW raised, NEW mutates, NEW cleaned, Note(raised, mutates, cleaned),
         UNCHANGED <<plan, batch, next, tries, results>>
  PROVE  /\ HistoryKnown' /\ HistoryUnique' /\ AllTold'
         /\ Name' = Name /\ Current' = Current /\ Begun' = Begun /\ Begun = Len(tries) + 1
<1>1. Width' = Width /\ Name' = Name /\ Current' = Current BY SamePlan DEF Name, Current
<1>2. Begun' = Begun /\ Begun = Len(tries) + 1 BY DEF Begun, Under
<1>3. next <= Width /\ pc \notin {"launch", "done", "thrown"} /\ pc' \notin {"launch", "done"}
  BY DEF InOrder, Under
<1>4. history \subseteq EntryType(Executions) /\ HistoryUnique BY DEF TypeOK, Parts
<1>5. /\ \A g \in history' : \E h \in history :
           /\ g.exec = h.exec /\ g.try = h.try
           /\ h.exec # Name => g = h
      /\ \A h \in history : h.exec # Name => h \in history'
      /\ HistoryUnique'
  BY <1>4, Noted
<1>6. HistoryKnown'
  <2> SUFFICES ASSUME NEW g \in history'
               PROVE  \/ \E i \in DOMAIN results : g.exec = results[i].exec
                      \/ next <= Width /\ g.exec = Name /\ g.try <= Begun
    BY <1>1, <1>2, <1>3 DEF HistoryKnown
  <2>1. PICK h \in history : g.exec = h.exec /\ g.try = h.try BY <1>5
  <2> QED BY <2>1 DEF Parts, HistoryKnown
<1>7. AllTold'
  <2>1. \A i \in DOMAIN results : results[i].exec # Name BY <1>3, NotYet
  <2>2. \A i \in DOMAIN results : results'[i] = results[i] /\ Kept(results[i].exec)
    BY <1>5, <2>1 DEF Kept
  <2>3. \A i \in DOMAIN results : ResultTold(i)' BY <2>2, Held DEF Parts
  <2> QED BY <2>3 DEF AllTold
<1> QED BY <1>1, <1>2, <1>5, <1>6, <1>7

\* What AttemptTold says of an entry of the history.
Said(h, f, cleanup, early) ==
  /\ h.exec = Name /\ h.try = Begun
  /\ f = NoFailure => h.raised = {}
  /\ Blames(f) => \E x \in h.raised : Proof(x)
  /\ early => ~h.cleaned
  /\ cleanup = IF ~Current.cleans \/ early THEN "SKIPPED"
               ELSE IF h.cleaned THEN "PASSED" ELSE "FAILED"

LEMMA SaidIs ==
  ASSUME pc \in Under
  PROVE  AttemptTold <=>
           \E h \in history :
             Said(h, attempt.failure, attempt.cleanup, pc \in {"steps", "cleanup"})
  BY Zenon DEF AttemptTold, Said, Under

LEMMA SaidNext ==
  ASSUME pc' \in Under, NEW h \in history', h.exec = Name', h.try = Begun',
         attempt'.failure = NoFailure => h.raised = {},
         Blames(attempt'.failure) => \E x \in h.raised : Proof(x),
         pc' \in {"steps", "cleanup"} => ~h.cleaned,
         attempt'.cleanup = IF ~(Current').cleans \/ pc' \in {"steps", "cleanup"} THEN "SKIPPED"
                            ELSE IF h.cleaned THEN "PASSED" ELSE "FAILED"
  PROVE  AttemptTold'
  BY DEF AttemptTold, Under

LEMMA ToldTakeStep ==
  ASSUME TypeOK, InOrder, Distinct, Parts, TakeStep
  PROVE  Parts'
<1> DEFINE i == attempt.step
           action == Script(Current)[i]
           phase  == PhaseAt(Current, i)
<1>1. pc = "steps" /\ pc' \in {"steps", "cleanup"} /\ UNCHANGED <<plan, batch, next, tries, results, gate>>
  BY DEF TakeStep
<1>2. \/ /\ attempt' = [attempt EXCEPT !.step = i + 1,
                 !.navigated = @ \/ action = "goto",
                 !.evidence = IF action \in ApiCalls THEN @ \cup {"api-response"} ELSE @]
         /\ Note({}, action \in Mutating, FALSE)
      \/ \E e \in Raises(action) :
              /\ attempt' = [attempt EXCEPT !.step = Len(Script(Current)) + 1,
                   !.failure = ClassifyFailure(e, phase, Generated)]
              /\ Note({[error |-> e, phase |-> phase]}, action \in Mutating, FALSE)
  BY Zenon DEF TakeStep
<1>3. attempt \in AttemptType /\ history \subseteq EntryType(Executions) /\ HistoryUnique
  BY DEF TypeOK, Parts
<1>4. PICK h \in history : Said(h, attempt.failure, attempt.cleanup, TRUE)
  <2>1. PICK h \in history :
          Said(h, attempt.failure, attempt.cleanup, pc \in {"steps", "cleanup"})
    BY <1>1, SaidIs DEF Parts, Under
  <2> QED BY <1>1, <2>1 DEF Said
<1>5. /\ h.exec = Name /\ h.try = Begun /\ attempt.cleanup = "SKIPPED"
      /\ attempt.failure = NoFailure => h.raised = {}
      /\ Blames(attempt.failure) => \E x \in h.raised : Proof(x)
  BY <1>4 DEF Said
<1> HIDE DEF action
<1>6. CASE /\ attempt' = [attempt EXCEPT !.step = i + 1,
                 !.navigated = @ \/ action = "goto",
                 !.evidence = IF action \in ApiCalls THEN @ \cup {"api-response"} ELSE @]
           /\ Note({}, action \in Mutating, FALSE)
  <2>1. Note({}, action \in Mutating, FALSE) BY <1>6, Zenon
  <2>2. /\ HistoryKnown' /\ HistoryUnique' /\ AllTold'
        /\ Name' = Name /\ Current' = Current /\ Begun' = Begun /\ Begun = Len(tries) + 1
    <3>1. pc \in Under /\ pc' \in Under BY <1>1 DEF Under
    <3> QED BY <1>1, <2>1, <3>1, NotedParts, Zenon
  <2>3. Amended(h, {}, FALSE)
    <3>1. h.exec = Name /\ h.try = Len(tries) + 1 BY <1>5, <2>2
    <3> QED BY <1>3, <3>1, <2>1, NotedMine, Zenon
  <2>4. PICK g \in history' : /\ g.exec = h.exec /\ g.try = h.try
                              /\ g.raised = h.raised \cup {} /\ g.cleaned = FALSE
    BY <2>3 DEF Amended
  <2>5. attempt'.failure = attempt.failure /\ attempt'.cleanup = attempt.cleanup
    BY <1>3, <1>6 DEF AttemptType
  <2>6. g.raised = h.raised BY <2>4
  <2>7. AttemptTold' BY <1>1, <1>5, <2>2, <2>4, <2>5, <2>6, SaidNext DEF Under
  <2> QED BY <2>2, <2>7 DEF Parts
<1>7. ASSUME NEW e \in Raises(action),
             attempt' = [attempt EXCEPT !.step = Len(Script(Current)) + 1,
                   !.failure = ClassifyFailure(e, phase, Generated)],
             Note({[error |-> e, phase |-> phase]}, action \in Mutating, FALSE)
      PROVE  Parts'
  <2> DEFINE f   == ClassifyFailure(e, phase, Generated)
             new == [error |-> e, phase |-> phase]
  <2>1. Note({new}, action \in Mutating, FALSE) BY <1>7, Zenon
  <2>2. /\ HistoryKnown' /\ HistoryUnique' /\ AllTold'
        /\ Name' = Name /\ Current' = Current /\ Begun' = Begun /\ Begun = Len(tries) + 1
    <3>1. pc \in Under /\ pc' \in Under BY <1>1 DEF Under
    <3> QED BY <1>1, <2>1, <3>1, NotedParts, Zenon
  <2>4. e \in SUBSET Signals BY Signalled DEF Raises
  <2>5. phase \in Phases BY DEF PhaseAt, Phases
  <2>6. f \in Failure /\ f # NoFailure
        /\ (Blames(f) => phase = "test" /\ "assertion" \in e /\ e \cap {"network", "contract"} = {})
    BY <2>4, <2>5, Classified, Zenon
  <2> HIDE DEF phase
  <2>7. Blames(f) => Proof(new) BY <2>6 DEF Proof
  <2>8. attempt' = [attempt EXCEPT !.step = Len(Script(Current)) + 1, !.failure = f]
    BY <1>7, Zenon
  <2> HIDE DEF f, new
  <2>9. attempt'.failure = f /\ attempt'.cleanup = attempt.cleanup
    BY <1>3, <2>8 DEF AttemptType
  <2>3. Amended(h, {new}, FALSE)
    <3>1. h.exec = Name /\ h.try = Len(tries) + 1 BY <1>5, <2>2
    <3> QED BY <1>3, <3>1, <2>1, NotedMine, Zenon
  <2>10. PICK g \in history' : /\ g.exec = h.exec /\ g.try = h.try
                              /\ g.raised = h.raised \cup {new} /\ g.cleaned = FALSE
    BY <2>3 DEF Amended
  <2>11. new \in g.raised BY <2>10
  <2>12. AttemptTold' BY <1>1, <1>5, <2>2, <2>6, <2>7, <2>9, <2>10, <2>11, SaidNext DEF Under
  <2> QED BY <2>2, <2>12 DEF Parts
<1> QED BY <1>2, <1>6, <1>7

LEMMA ToldCleanUp ==
  ASSUME TypeOK, InOrder, Distinct, Parts, CleanUp
  PROVE  Parts'
<1>1. /\ pc = "cleanup" /\ pc' = "evidence" /\ UNCHANGED <<plan, batch, next, tries, results, gate>>
      /\ pc \in Under /\ pc' \in Under
      /\ \/ ~Current.cleans /\ attempt' = attempt /\ history' = history
         \/ \E failing \in SUBSET DOMAIN Current.cleanup, e \in Errors \cup {{}} : Failing(failing, e)
  BY CleanUpIs DEF Under
<1>2. attempt \in AttemptType /\ history \subseteq EntryType(Executions) /\ HistoryUnique
  BY DEF TypeOK, Parts
<1>3. PICK h \in history : Said(h, attempt.failure, attempt.cleanup, TRUE)
  <2>1. PICK h \in history :
          Said(h, attempt.failure, attempt.cleanup, pc \in {"steps", "cleanup"})
    BY <1>1, SaidIs DEF Parts
  <2> QED BY <1>1, <2>1 DEF Said
<1>4. /\ h.exec = Name /\ h.try = Begun /\ attempt.cleanup = "SKIPPED"
      /\ attempt.failure = NoFailure => h.raised = {}
      /\ Blames(attempt.failure) => \E x \in h.raised : Proof(x)
  BY <1>3 DEF Said
<1>5. CASE ~Current.cleans /\ attempt' = attempt /\ history' = history
  <2>1. Width' = Width /\ Name' = Name /\ Current' = Current BY <1>1, SamePlan DEF Name, Current
  <2>2. Begun' = Begun BY <1>1 DEF Begun, Under
  <2>3. AllTold' /\ HistoryUnique' BY <1>1, <1>5, Silent DEF Parts
  <2>4. HistoryKnown' BY <1>1, <1>5, <2>1, <2>2 DEF Parts, HistoryKnown
  <2>5. AttemptTold' BY <1>1, <1>4, <1>5, <2>1, <2>2, SaidNext
  <2> QED BY <2>3, <2>4, <2>5 DEF Parts
<1>6. ASSUME NEW failing, NEW e \in Errors \cup {{}}, Failing(failing, e)
      PROVE  Parts'
  <2>1. Current.cleans BY <1>6 DEF Failing
  <2>2. CASE failing = {}
    <3>1. /\ attempt'.cleanup = "PASSED" /\ attempt'.failure = attempt.failure
          /\ Note({}, FALSE, TRUE)
      BY <1>2, <1>6, <2>2, FailingIs
    <3>2. /\ HistoryKnown' /\ HistoryUnique' /\ AllTold'
          /\ Name' = Name /\ Current' = Current /\ Begun' = Begun /\ Begun = Len(tries) + 1
      BY <1>1, <3>1, NotedParts, Zenon
    <3>3. Amended(h, {}, TRUE)
      <4>1. h.exec = Name /\ h.try = Len(tries) + 1 BY <1>4, <3>2
      <4> QED BY <1>2, <4>1, <3>1, NotedMine, Zenon
    <3>4. PICK g \in history' : /\ g.exec = h.exec /\ g.try = h.try
                                /\ g.raised = h.raised \cup {} /\ g.cleaned = TRUE
      BY <3>3 DEF Amended
    <3>5. g.raised = h.raised BY <3>4
    <3>6. AttemptTold' BY <1>1, <1>4, <2>1, <3>1, <3>2, <3>4, <3>5, SaidNext
    <3> QED BY <3>2, <3>6 DEF Parts
  <2>3. CASE failing # {}
    <3> DEFINE f   == ClassifyFailure(e, "cleanup", Generated)
               new == [error |-> e, phase |-> "cleanup"]
    <3>1. /\ attempt'.cleanup = "FAILED" /\ attempt'.failure = FirstFailure(attempt.failure, f)
          /\ Note({new}, FALSE, FALSE)
      BY <1>2, <1>6, <2>3, FailingIs
    <3>2. /\ HistoryKnown' /\ HistoryUnique' /\ AllTold'
          /\ Name' = Name /\ Current' = Current /\ Begun' = Begun /\ Begun = Len(tries) + 1
      BY <1>1, <3>1, NotedParts, Zenon
    <3>3. Amended(h, {new}, FALSE)
      <4>1. h.exec = Name /\ h.try = Len(tries) + 1 BY <1>4, <3>2
      <4> QED BY <1>2, <4>1, <3>1, NotedMine, Zenon
    <3>4. PICK g \in history' : /\ g.exec = h.exec /\ g.try = h.try
                                /\ g.raised = h.raised \cup {new} /\ g.cleaned = FALSE
      BY <3>3 DEF Amended
    <3>5. e \in SUBSET Signals /\ "cleanup" \in Phases BY Signalled DEF Phases
    <3>6. f \in Failure /\ f # NoFailure /\ (Blames(f) => "cleanup" = "test")
      BY <3>5, Classified, Zenon
    <3> HIDE DEF f
    <3>7. ~Blames(f) BY <3>6
    <3>8. attempt.failure \in Failure BY <1>2 DEF AttemptType
    <3>9. attempt'.failure # NoFailure /\ (Blames(attempt'.failure) => Blames(attempt.failure))
      BY <3>1, <3>6, <3>7, <3>8, FirstOf
    <3>10. h.raised \subseteq g.raised BY <3>4
    <3>11. AttemptTold' BY <1>1, <1>4, <2>1, <3>1, <3>2, <3>4, <3>9, <3>10, SaidNext
    <3> QED BY <3>2, <3>11 DEF Parts
  <2> QED BY <2>2, <2>3
<1> QED BY <1>1, <1>5, <1>6

\* A failure that evidence or closing adds blames nobody.
LEMMA ToldEvidence ==
  ASSUME TypeOK, InOrder, Distinct, Parts, CollectEvidence \/ CloseContext
  PROVE  Parts'
<1>1. attempt \in AttemptType /\ attempt.failure \in Failure BY DEF TypeOK, AttemptType
<1>2. /\ pc \in {"evidence", "close"} /\ pc' \in {"close", "caught", "conclude"}
      /\ UNCHANGED <<plan, batch, next, tries, results, gate, history>>
      /\ attempt'.cleanup = attempt.cleanup
  BY <1>1, CollectEvidenceIs, CloseContextIs
<1>3. \/ attempt'.failure = attempt.failure
      \/ \E e \in {{}, {"network"}}, phase \in {"test", "unknown"} :
           attempt'.failure = FirstFailure(attempt.failure, ClassifyFailure(e, phase, Generated))
  <2>1. CASE CollectEvidence
    <3>1. \/ attempt'.failure = attempt.failure
          \/ attempt'.failure = FirstFailure(attempt.failure, ClassifyFailure({}, "test", Generated))
      BY <1>1, <2>1, CollectEvidenceIs
    <3>2. {} \in {{}, {"network"}} /\ "test" \in {"test", "unknown"} OBVIOUS
    <3> QED BY <3>1, <3>2, Zenon
  <2>2. CASE CloseContext
    <3>1. \/ attempt'.failure = attempt.failure
          \/ \E e \in {{}, {"network"}} :
               attempt'.failure = FirstFailure(attempt.failure, ClassifyFailure(e, "unknown", Generated))
      BY <1>1, <2>2, CloseContextIs
    <3>2. "unknown" \in {"test", "unknown"} OBVIOUS
    <3> QED BY <3>1, <3>2, Zenon
  <2> QED BY <2>1, <2>2
<1>4. /\ attempt'.failure = NoFailure => attempt.failure = NoFailure
      /\ Blames(attempt'.failure) => Blames(attempt.failure)
  <2>1. ASSUME NEW e \in {{}, {"network"}}, NEW phase \in {"test", "unknown"},
               attempt'.failure = FirstFailure(attempt.failure, ClassifyFailure(e, phase, Generated))
        PROVE  /\ attempt'.failure # NoFailure
               /\ Blames(attempt'.failure) => Blames(attempt.failure)
    <3> DEFINE f == ClassifyFailure(e, phase, Generated)
    <3>1. e \in SUBSET Signals /\ phase \in Phases /\ "assertion" \notin e BY DEF Signals, Phases
    <3>2. f \in Failure /\ f # NoFailure /\ (Blames(f) => "assertion" \in e)
      BY <3>1, Classified, Zenon
    <3>3. attempt'.failure = FirstFailure(attempt.failure, f) BY <2>1, Zenon
    <3> HIDE DEF f
    <3> QED BY <1>1, <3>1, <3>2, <3>3, FirstOf
  <2> QED BY <1>3, <2>1
<1>5. Width' = Width /\ Name' = Name /\ Current' = Current BY <1>2, SamePlan DEF Name, Current
<1>6. Begun' = Begun BY <1>2 DEF Begun
<1>7. AllTold' /\ HistoryUnique' BY <1>2, Silent DEF Parts
<1>8. HistoryKnown' BY <1>2, <1>5, <1>6 DEF Parts, HistoryKnown
<1>9. pc \in Under /\ pc \notin {"steps", "cleanup"} BY <1>2 DEF Under
<1>10. PICK h \in history : Said(h, attempt.failure, attempt.cleanup, FALSE)
  <2>1. PICK h \in history :
          Said(h, attempt.failure, attempt.cleanup, pc \in {"steps", "cleanup"})
    BY <1>9, SaidIs DEF Parts
  <2> QED BY <1>9, <2>1 DEF Said
<1>11. /\ h.exec = Name /\ h.try = Begun
       /\ attempt.failure = NoFailure => h.raised = {}
       /\ Blames(attempt.failure) => \E x \in h.raised : Proof(x)
       /\ attempt.cleanup = IF ~Current.cleans THEN "SKIPPED"
                            ELSE IF h.cleaned THEN "PASSED" ELSE "FAILED"
  BY <1>10 DEF Said
<1>12. AttemptTold'
  <2>1. CASE pc' = "close"
    <3>1. pc' \in Under /\ pc' \notin {"steps", "cleanup"} BY <2>1 DEF Under
    <3> QED BY <1>2, <1>4, <1>5, <1>6, <1>11, <3>1, SaidNext
  <2>2. CASE pc' = "caught" BY <2>2 DEF AttemptTold, Under
  <2>3. CASE pc' = "conclude"
    <3>1. Tells(attempt'.failure, attempt'.cleanup, Current', h)
      BY <1>2, <1>4, <1>5, <1>11 DEF Tells
    <3> QED BY <1>2, <1>5, <1>6, <1>11, <2>3, <3>1 DEF AttemptTold, Under
  <2> QED BY <1>2, <2>1, <2>2, <2>3
<1> QED BY <1>7, <1>8, <1>12 DEF Parts

LEMMA ToldRetry ==
  ASSUME TypeOK, Parts, Retry
  PROVE  Parts'
<1>1. /\ pc = "conclude" /\ pc' = "case" /\ tries' = Append(tries, "FAILED")
      /\ UNCHANGED <<plan, batch, next, attempt, results, gate, history>>
  BY DEF Retry
<1>2. AllTold' /\ HistoryUnique' BY <1>1, Silent DEF Parts
<1>3. Width' = Width /\ Name' = Name BY <1>1, SamePlan DEF Name, Current
<1>4. Len(tries') = Len(tries) + 1 /\ Len(tries) \in Nat BY <1>1 DEF TypeOK
<1>5. Begun' = Len(tries') + 0 /\ Begun = Len(tries) + 1 BY <1>1 DEF Begun
<1>6. Begun' = Begun BY <1>4, <1>5
<1>7. HistoryKnown' BY <1>1, <1>3, <1>6 DEF Parts, HistoryKnown
<1>8. AttemptTold' BY <1>1 DEF AttemptTold, Under
<1> QED BY <1>2, <1>7, <1>8 DEF Parts

LEMMA ToldRecordResult ==
  ASSUME TypeOK, InOrder, Distinct, Parts, RecordResult
  PROVE  Parts'
<1>1. pc = "conclude" /\ UNCHANGED <<plan, batch, gate, history>> BY RecordResultIs
<1>2. next <= Width /\ batch <= Len(plan.batches) BY <1>1 DEF InOrder
<1>3. Begun = Len(tries) + 1 /\ Len(tries) \in Nat BY <1>1 DEF Begun, TypeOK
<1>4. CASE results' = Append(results, Concluded) /\ Persist
  <2> DEFINE r == Concluded
             f == attempt.failure
  <2>1. Name \in Executions BY <1>2, Here
  <2>2. /\ r.exec = Name /\ r.status = (IF Passed(attempt) THEN "PASSED" ELSE "FAILED")
        /\ r.flaky = (Passed(attempt) /\ tries # <<>>)
        /\ r.kind = f.kind /\ r.phase = f.phase /\ r.class = f.class
        /\ r.cleanup = attempt.cleanup /\ r.attempts = Len(tries) + 1
    BY <2>1, ConcludedIs
  <2>3. [kind |-> r.kind, phase |-> r.phase, class |-> r.class] = f
    BY <2>2 DEF TypeOK, AttemptType, Failure
  <2>4. PICK n : n = Len(results) + 1 OBVIOUS
  <2>5. results'[n] = r
    <3>1. results \in Seq(ResultType(Executions)) BY DEF TypeOK
    <3> QED BY <1>4, <2>4, <3>1, AppendedAny
  <2>6. CaseAt(n)' = Current
    <3>1. CaseAt(Len(results) + 1) = Current BY <1>1, <1>2, NotYet
    <3> QED BY <1>1, <2>4, <3>1, SamePlan DEF CaseAt
  <2>7. Passed(attempt) <=> f = NoFailure /\ attempt.cleanup # "FAILED" BY DEF Passed
  <2>8. (Passed(attempt) \/ Blames(f)) =>
          \E h \in history : /\ h.exec = Name /\ h.try = Begun
                             /\ Tells(f, attempt.cleanup, Current, h)
    <3>1. /\ [NoFailure EXCEPT !.class = "TEST_DEFECT"] # NoFailure
          /\ ~Blames([NoFailure EXCEPT !.class = "TEST_DEFECT"])
      BY DEF NoFailure, Blames
    <3> QED BY <1>1, <2>7, <3>1 DEF Parts, AttemptTold
  <2>9. \A g \in history : g.exec = Name => g.try <= Begun
    <3>1. \A i \in DOMAIN results : results[i].exec # Name BY <1>1, <1>2, NotYet
    <3> QED BY <3>1 DEF Parts, HistoryKnown
  <2>10. Passed(attempt) /\ ~r.flaky => r.attempts = 1
    <3>1. ASSUME Passed(attempt), ~r.flaky PROVE r.attempts = 1
      <4>1. tries = <<>> BY <2>2, <3>1, Zenon
      <4> HIDE DEF r
      <4> QED BY <2>2, <4>1
    <3> QED BY <3>1
  <2>11. r.status = "PASSED" <=> Passed(attempt)
    <3>1. CASE Passed(attempt) BY <2>2, <3>1
    <3>2. CASE ~Passed(attempt) BY <2>2, <3>2
    <3> QED BY <3>1, <3>2
  <2> HIDE DEF r, f
  <2>12. ResultTold(n)'
    <3>1. r.status = "PASSED" => f = NoFailure /\ r.cleanup # "FAILED" BY <2>2, <2>7, <2>11
    <3>2. r.status = "PASSED" \/ (r.status = "FAILED" /\ Blames(f)) =>
            \E h \in history :
              /\ h.exec = r.exec /\ h.try = r.attempts
              /\ \A g \in history : g.exec = r.exec => g.try <= r.attempts
              /\ Tells(f, r.cleanup, CaseAt(n)', h)
      BY <1>3, <2>2, <2>6, <2>8, <2>9, <2>11
    <3>3. r.status = "PASSED" /\ ~r.flaky => r.attempts = 1 BY <2>10, <2>11
    <3> QED BY <1>1, <2>3, <2>5, <3>1, <3>2, <3>3 DEF ResultTold
  <2>13. r.exec = Name /\ results' = Append(results, r) BY <1>4, <2>2 DEF r
  <2> QED BY <1>1, <1>2, <1>4, <2>4, <2>12, <2>13, ToldPushed
<1>5. CASE pc' = "caught" /\ UNCHANGED <<results, next, tries, attempt>>
  <2>1. Width' = Width /\ Name' = Name BY <1>1, <1>5, SamePlan DEF Name, Current
  <2>2. Begun' = Begun BY <1>1, <1>5 DEF Begun
  <2>3. AllTold' /\ HistoryUnique' BY <1>1, <1>5, Silent DEF Parts
  <2>4. HistoryKnown' BY <1>1, <1>5, <2>1, <2>2 DEF Parts, HistoryKnown
  <2>5. AttemptTold' BY <1>5 DEF AttemptTold, Under
  <2> QED BY <2>3, <2>4, <2>5 DEF Parts
<1> QED BY <1>4, <1>5, RecordResultIs

LEMMA ToldEndBatch ==
  ASSUME TypeOK, Parts, EndBatch
  PROVE  Parts'
<1>1. /\ pc = "case" /\ next > Width /\ pc' = "launch"
      /\ UNCHANGED <<plan, next, tries, attempt, results, gate, history>>
  BY DEF EndBatch, Width
<1>2. AllTold' /\ HistoryUnique' BY <1>1, Silent DEF Parts
<1>3. ~(next <= Width) BY <1>1, Spot
<1>4. HistoryKnown' BY <1>1, <1>3 DEF Parts, HistoryKnown
<1>5. AttemptTold' BY <1>1 DEF AttemptTold, Under
<1> QED BY <1>2, <1>4, <1>5 DEF Parts

LEMMA ToldBlockRest ==
  ASSUME TypeOK, InOrder, Distinct, Parts, BlockRest, pc' # "thrown"
  PROVE  Parts'
<1>1. /\ pc = "caught" /\ UNCHANGED <<plan, next, tries, attempt, gate, history>>
      /\ results' = results \o Rest /\ pc' = "launch"
  BY Zenon DEF BlockRest, Rest, Width
<1>2. /\ Len(results') = batch * Width
      /\ Len(results) = (batch - 1) * Width + next - 1 /\ DOMAIN results \subseteq DOMAIN results'
      /\ \A i \in DOMAIN results' :
           IF i \in DOMAIN results THEN results'[i] = results[i]
           ELSE results'[i].exec = Instances(plan)[i] /\ results'[i].status = "INFRA_BLOCKED"
      /\ results' \in Seq(ResultType(Executions))
  BY <1>1, BlockedRest
<1>3. AllTold'
  <2>1. \A i \in DOMAIN results : results'[i] = results[i] /\ Kept(results[i].exec)
    BY <1>1, <1>2 DEF Kept
  <2>2. \A i \in DOMAIN results : ResultTold(i)' BY <1>1, <1>2, <2>1, Held DEF Parts
  <2>3. ASSUME NEW i \in DOMAIN results', i \notin DOMAIN results PROVE ResultTold(i)'
    <3>1. results'[i].status = "INFRA_BLOCKED" BY <1>2, <2>3
    <3> QED BY <3>1 DEF ResultTold
  <2> QED BY <2>2, <2>3 DEF AllTold
<1>4. HistoryUnique' BY <1>1 DEF Parts, HistoryUnique
<1>5. HistoryKnown'
  <2> SUFFICES ASSUME NEW h \in history PROVE \E i \in DOMAIN results' : h.exec = results'[i].exec
    BY <1>1 DEF HistoryKnown
  <2>1. CASE \E i \in DOMAIN results : h.exec = results[i].exec BY <1>2, <2>1
  <2>2. CASE next <= Width /\ h.exec = Name
    <3>1. /\ Len(results) + 1 \in DOMAIN Instances(plan) /\ Instances(plan)[Len(results) + 1] = Name
      BY <1>1, <2>2, NotYet
    <3> DEFINE K == (batch - 1) * Width
    <3>2. Len(results) = K + next - 1 /\ Len(results') = K + Width /\ K \in Nat
          /\ next \in Nat /\ Width \in Nat /\ next > 0
      BY <1>2, Spot
    <3> HIDE DEF K
    <3>3. Len(results) + 1 \in 1..Len(results') BY <2>2, <3>2
    <3>4. DOMAIN results' = 1..Len(results') BY <1>2
    <3>5. Len(results) + 1 \notin DOMAIN results
      <4>1. DOMAIN results = 1..Len(results) /\ Len(results) \in Nat BY DEF TypeOK
      <4> QED BY <4>1
    <3> QED BY <1>2, <2>2, <3>1, <3>3, <3>4, <3>5
  <2> QED BY <2>1, <2>2 DEF Parts, HistoryKnown
<1>6. AttemptTold' BY <1>1 DEF AttemptTold, Under
<1> QED BY <1>3, <1>4, <1>5, <1>6 DEF Parts

LEMMA ToldJudge ==
  ASSUME Parts, Judge
  PROVE  Parts'
<1>1. pc = "launch" /\ pc' \in {"done", "thrown"}
      /\ UNCHANGED <<plan, batch, next, tries, attempt, results, history>>
  BY DEF Judge
<1>2. AllTold' /\ HistoryUnique' BY <1>1, Silent DEF Parts
<1>3. HistoryKnown' BY <1>1 DEF Parts, HistoryKnown
<1>4. AttemptTold' BY <1>1 DEF AttemptTold, Under
<1> QED BY <1>2, <1>3, <1>4 DEF Parts

LEMMA ToldKept ==
  ASSUME TypeOK, InOrder, Told, [Next]_vars
  PROVE  Told'
<1>1. CASE UNCHANGED vars BY <1>1 DEF vars, Told, Distinct, HistoryKnown, HistoryUnique,
  AttemptTold, AllTold, ResultTold, CaseAt, Width, Name, Current, Begun
<1>2. CASE Next
  <2> SUFFICES ASSUME Distinct', pc' # "thrown" PROVE Parts' BY DEF Told, Parts
  <2>1. plan' = plan /\ pc # "thrown"
    BY <1>2 DEF Next, Launch, SkipBlocked, Refuse, OpenContext, TakeStep, CleanUp,
       CollectEvidence, CloseContext, Retry, RecordResult, EndBatch, BlockRest, Judge
  <2>2. Distinct BY <2>1, SamePlan DEF Distinct
  <2>3. Parts BY <2>1, <2>2 DEF Told, Parts
  <2> QED BY <1>2, <2>2, <2>3, ToldLaunch, ToldSkipBlocked, ToldRefuse, ToldOpenContext,
             ToldTakeStep, ToldCleanUp, ToldEvidence, ToldRetry, ToldRecordResult,
             ToldEndBatch, ToldBlockRest, ToldJudge DEF Next
<1> QED BY <1>1, <1>2

LEMMA JudgedKept ==
  ASSUME Judged, [Next]_vars
  PROVE  Judged'
<1>1. CASE UNCHANGED vars BY <1>1 DEF vars, Judged
<1>2. CASE Judge
  <2>1. pc = "launch" /\ plan' = plan /\ results' = results
    BY <1>2 DEF Judge
  <2>2. CASE pc' = "done" /\ gate' = Gate(plan, results, Instances(plan))
    BY <2>1, <2>2, SamePlan DEF Judged
  <2>3. CASE gate' = gate BY <2>1, <2>3 DEF Judged
  <2> QED BY <1>2, <2>2, <2>3 DEF Judge
<1>3. CASE Next /\ ~Judge
  <2>1. pc # "done" /\ gate' = gate
    BY <1>3 DEF Next, Launch, SkipBlocked, Refuse, OpenContext, TakeStep, CleanUp,
       CollectEvidence, CloseContext, Retry, RecordResult, EndBatch, BlockRest
  <2> QED BY <2>1 DEF Judged
<1> QED BY <1>1, <1>2, <1>3

(***************************************************************************)
(* What the history says of an execution is what its result tells.         *)
(***************************************************************************)
THEOREM InvariantTold == Spec => []Inv
<1>1. Init => Told /\ Judged
  <2> SUFFICES ASSUME Init PROVE Told /\ Judged OBVIOUS
  <2>1. pc = "launch" /\ results = <<>> /\ gate = "none" /\ history = {} BY DEF Init
  <2>2. HistoryKnown /\ HistoryUnique BY <2>1 DEF HistoryKnown, HistoryUnique
  <2>3. AttemptTold BY <2>1 DEF AttemptTold, Under
  <2>4. AllTold BY <2>1 DEF AllTold
  <2> QED BY <2>1, <2>2, <2>3, <2>4 DEF Told, Judged
<1>2. TypeOK /\ InOrder /\ Told /\ Judged /\ [Next]_vars => Told' /\ Judged'
  BY ToldKept, JudgedKept
<1>3. TypeOK /\ InOrder /\ Judged /\ Told <=> Inv BY DEF Inv
<1> QED BY <1>1, <1>2, <1>3, InvariantOrder, PTL DEF Spec

--------------------------------------------------------------------------------
(***************************************************************************)
(* What the verdict needs: the audit shows that no two executions of the   *)
(* manifest have one name, triage blames the product only for a failure    *)
(* that may be blamed on it, and a gate of fail or pass has no other       *)
(* class of failure.                                                       *)
(***************************************************************************)
LEMMA Counted ==
  ASSUME NEW n \in Nat, NEW f, DOMAIN f = 1..n, Cardinality({f[i] : i \in 1..n}) = n
  PROVE  \A i, j \in 1..n : f[i] = f[j] => i = j
<1> DEFINE T == {f[i] : i \in 1..n}
           g == [i \in 1..n |-> f[i]]
<1>1. IsFiniteSet(1..n) /\ Cardinality(1..n) = n BY FS_Interval
<1>2. g \in Surjection(1..n, T) BY DEF Surjection
<1>3. g \in Injection(1..n, T) <=> Cardinality(T) = Cardinality(1..n)
  <2> HIDE DEF g, T
  <2> QED BY <1>1, <1>2, FS_Surjection
<1>4. g \in Injection(1..n, T) BY <1>1, <1>3
<1> QED BY <1>4 DEF Injection, IsInjective

LEMMA LeastExists ==
  ASSUME NEW T \in SUBSET Nat, T # {}
  PROVE  Min(T) \in T
<1>1. IsWellFoundedOn(OpToRel(<, Nat), Nat) BY NatLessThanWellFounded
<1>2. PICK x \in T : \A y \in T : ~(<<y, x>> \in OpToRel(<, Nat))
  <2> HIDE DEF IsWellFoundedOn
  <2> QED BY <1>1, WFMin
<1>3. ASSUME NEW n \in T PROVE x <= n
  <2>1. <<n, x>> \in Nat \X Nat OBVIOUS
  <2>2. n < x => <<n, x>> \in OpToRel(<, Nat) BY <2>1 DEF OpToRel
  <2>3. ~(n < x) BY <2>2, <1>2, Zenon
  <2> QED BY <2>3
<1> QED BY <1>3 DEF Min

LEMMA Triaged ==
  ASSUME NEW p, NEW r
  PROVE  /\ Triage(p, r) \in Classes
         /\ Triage(p, r) = "PRODUCT_DEFECT" =>
              Blames([kind |-> r.kind, phase |-> r.phase, class |-> r.class])
<1> DEFINE generated == p.engine = "declarative" /\ CaseOf(p, r.exec[1]).origin = "generated"
           self == SelfBlame(generated)
           f == [kind |-> r.kind, phase |-> r.phase, class |-> r.class]
<1>1. self \in {"PLAN_DEFECT", "TEST_DEFECT"} BY DEF SelfBlame
<1> HIDE DEF self
<1>2. \/ Triage(p, r) \in {"INFRA_DEFECT", self}
      \/ /\ Triage(p, r) = "PRODUCT_DEFECT"
         /\ r.kind \notin {"network", "contract"} /\ r.phase \notin {"setup", "cleanup"}
         /\ (r.kind = "assertion" /\ r.phase = "test") \/ r.class = "PRODUCT_DEFECT"
  BY Zenon DEF Triage, self
<1>3. f.kind = r.kind /\ f.phase = r.phase /\ f.class = r.class OBVIOUS
<1> HIDE DEF f
<1>4. Triage(p, r) = "PRODUCT_DEFECT" => Blames(f) BY <1>1, <1>2, <1>3 DEF Blames
<1>5. Triage(p, r) \in Classes BY <1>1, <1>2 DEF Classes
<1> QED BY <1>4, <1>5 DEF f

LEMMA GateSays ==
  ASSUME NEW p, NEW rs, NEW planned, NEW g, g = Gate(p, rs, planned), g \in {"fail", "pass"}
  PROVE  /\ AuditComplete(p, rs, planned)
         /\ \A x \in Issues(p, rs) :
              /\ x.class \notin {"PLAN_DEFECT", "TEST_DEFECT", "INFRA_DEFECT"}
              /\ g = "pass" => x.class # "PRODUCT_DEFECT"
         /\ g = "fail" => \E x \in Issues(p, rs) : x.class = "PRODUCT_DEFECT"
         /\ g = "pass" => ~(Flaky(rs) > p.max_flaky)
<1> DEFINE found == {x.class : x \in Issues(p, rs)}
<1>1. /\ AuditComplete(p, rs, planned)
      /\ found \cap {"PLAN_DEFECT", "TEST_DEFECT"} = {} /\ "INFRA_DEFECT" \notin found
      /\ g = "fail" => "PRODUCT_DEFECT" \in found
      /\ g = "pass" => "PRODUCT_DEFECT" \notin found /\ ~(Flaky(rs) > p.max_flaky)
  BY DEF Gate
<1>2. \A x \in Issues(p, rs) : x.class \in found OBVIOUS
<1>3. "PRODUCT_DEFECT" \in found => \E x \in Issues(p, rs) : x.class = "PRODUCT_DEFECT" OBVIOUS
<1> HIDE DEF found
<1> QED BY <1>1, <1>2, <1>3

LEMMA IssueOf ==
  ASSUME NEW p, NEW rs, NEW r \in ToSet(rs), r.status \in {"FAILED", "INFRA_BLOCKED"}
  PROVE  \E x \in Issues(p, rs) : x.class = Triage(p, r)
<1>1. r \in Failed(rs) BY DEF Failed
<1>2. [exec |-> r.exec, class |-> Triage(p, r)] \in Issues(p, rs) BY <1>1 DEF Issues
<1>3. [exec |-> r.exec, class |-> Triage(p, r)].class = Triage(p, r) OBVIOUS
<1> QED BY <1>2, <1>3

LEMMA OfIssue ==
  ASSUME NEW p, NEW rs, NEW x \in Issues(p, rs), x.class = "PRODUCT_DEFECT"
  PROVE  \E r \in ToSet(rs) : r.status \in {"FAILED", "INFRA_BLOCKED"}
<1>1. \/ \E r \in Failed(rs) : TRUE
      \/ x.class = "UNSTABLE"
  BY DEF Issues
<1> QED BY <1>1 DEF Failed

--------------------------------------------------------------------------------
(***************************************************************************)
(* The verdict of a run that was judged to fail or to pass.                *)
(***************************************************************************)
Verdicts == {"fail", "pass"}

LEMMA AtTheEnd ==
  ASSUME Inv, gate \in Verdicts
  PROVE  /\ pc = "done" /\ gate = Gate(plan, results, Instances(plan))
         /\ AuditComplete(plan, results, Instances(plan))
         /\ Distinct /\ Parts
         /\ DOMAIN results = DOMAIN Instances(plan)
         /\ \A i \in DOMAIN results : results[i].exec = Instances(plan)[i]
<1>1. pc = "done" /\ gate = Gate(plan, results, Instances(plan)) BY DEF Inv, Judged, Verdicts
<1>2. AuditComplete(plan, results, Instances(plan)) BY <1>1, GateSays DEF Verdicts
<1>3. \A i \in DOMAIN results : results[i].exec = Instances(plan)[i] BY <1>1 DEF Inv, InOrder
<1>4. DOMAIN results = DOMAIN Instances(plan)
  <2>1. [i \in DOMAIN results |-> results[i].exec] = Instances(plan)
    BY <1>1, ManifestKept DEF EveryInstanceOnce, Inv
  <2>2. DOMAIN [i \in DOMAIN results |-> results[i].exec] = DOMAIN results OBVIOUS
  <2> HIDE DEF Instances
  <2> QED BY <2>1, <2>2
<1>5. Distinct
  <2>1. results \in Seq(ResultType(Executions)) BY DEF Inv, TypeOK
  <2>2. DOMAIN results = 1..Len(results) /\ Len(results) \in Nat BY <2>1
  <2>3. Cardinality({r.exec : r \in ToSet(results)}) = Len(results)
    BY <1>2 DEF AuditComplete, InstanceReconciliation
  <2>4. {r.exec : r \in ToSet(results)} = {Instances(plan)[i] : i \in 1..Len(results)}
    BY <1>3, <2>2 DEF ToSet
  <2>5. \A i, j \in 1..Len(results) : Instances(plan)[i] = Instances(plan)[j] => i = j
    BY <1>4, <2>2, <2>3, <2>4, Counted
  <2> QED BY <1>4, <2>2, <2>5 DEF Distinct
<1>6. Parts BY <1>1, <1>5 DEF Inv, Told, Parts
<1> QED BY <1>1, <1>2, <1>3, <1>4, <1>5, <1>6

\* Every result is of a case that was run; none failed if the gate is pass, and
\* one that failed may be blamed on the product.
LEMMA ResultsRun ==
  ASSUME Inv, gate \in Verdicts, NEW i \in DOMAIN results
  PROVE  /\ results[i].status \in {"PASSED", "FAILED"}
         /\ gate = "pass" => results[i].status = "PASSED"
         /\ results[i].status = "FAILED" =>
              Blames([kind |-> results[i].kind, phase |-> results[i].phase,
                      class |-> results[i].class])
<1>1. results[i] \in ToSet(results) BY DEF ToSet
<1>2. results[i] \in ResultType(Executions) BY DEF Inv, TypeOK
<1>3. results[i].status \notin Unexecuted BY <1>1, AtTheEnd DEF AuditComplete
<1>4. results[i].status \in {"PASSED", "FAILED"} BY <1>2, <1>3 DEF ResultType
<1>5. ASSUME results[i].status = "FAILED"
      PROVE  /\ gate # "pass"
             /\ Triage(plan, results[i]) = "PRODUCT_DEFECT"
  <2>1. PICK x \in Issues(plan, results) : x.class = Triage(plan, results[i])
    BY <1>1, <1>5, IssueOf
  <2>2. gate = Gate(plan, results, Instances(plan)) BY AtTheEnd
  <2>3. /\ x.class \notin {"PLAN_DEFECT", "TEST_DEFECT", "INFRA_DEFECT"}
        /\ gate = "pass" => x.class # "PRODUCT_DEFECT"
    BY <2>2, GateSays DEF Verdicts
  <2>4. x.class \in Classes BY <2>1, Triaged
  <2> QED BY <2>1, <2>3, <2>4 DEF Classes
<1> QED BY <1>4, <1>5, Triaged

\* The attempt that counts is the last one, and there is no other like it.
LEMMA TheLast ==
  ASSUME Inv, gate \in Verdicts, NEW i \in DOMAIN results,
         NEW h \in history, h.exec = results[i].exec, h.try = results[i].attempts,
         \A g \in history : g.exec = results[i].exec => g.try <= results[i].attempts
  PROVE  LastAttempt(results[i].exec) = h
<1> DEFINE A == AttemptsOf(results[i].exec)
<1>1. h \in A /\ A \subseteq history /\ \A g \in A : g.exec = h.exec /\ g.try <= h.try
  BY DEF AttemptsOf
<1>2. \A g \in history : g.try \in Nat BY DEF Inv, TypeOK, EntryType
<1>3. HistoryUnique BY AtTheEnd DEF Parts
<1>4. ASSUME NEW k \in A, \A g \in A : g.try <= k.try PROVE k = h
  <2>1. h.try <= k.try /\ k.try <= h.try BY <1>1, <1>4
  <2>2. k.try = h.try BY <1>1, <1>2, <2>1
  <2> QED BY <1>1, <1>3, <2>2 DEF HistoryUnique
<1>5. \A g \in A : g.try <= h.try BY <1>1
<1> HIDE DEF A
<1>6. (CHOOSE k \in A : \A g \in A : g.try <= k.try) = h BY <1>1, <1>4, <1>5
<1> QED BY <1>6 DEF LastAttempt, A

\* "fail" blames the product on the word of an assertion about it.
LEMMA FailIsBacked ==
  ASSUME Inv
  PROVE  BlameIsBacked
<1> SUFFICES ASSUME gate = "fail"
             PROVE  /\ \E r \in ToSet(results) : r.status = "FAILED"
                    /\ \A r \in ToSet(results) :
                         /\ r.status \in {"PASSED", "FAILED"}
                         /\ r.status = "FAILED" =>
                              \E f \in LastAttempt(r.exec).raised : Proof(f)
  BY DEF BlameIsBacked, Proof
<1>1. gate \in Verdicts BY DEF Verdicts
<1>2. PICK x \in Issues(plan, results) : x.class = "PRODUCT_DEFECT"
  BY <1>1, AtTheEnd, GateSays DEF Verdicts
<1>3. PICK r \in ToSet(results) : r.status \in {"FAILED", "INFRA_BLOCKED"} BY <1>2, OfIssue
<1>4. PICK j \in DOMAIN results : r = results[j] BY <1>3 DEF ToSet
<1>5. r.status = "FAILED" BY <1>1, <1>3, <1>4, ResultsRun
<1>6. ASSUME NEW i \in DOMAIN results, results[i].status = "FAILED"
      PROVE  \E f \in LastAttempt(results[i].exec).raised : Proof(f)
  <2> DEFINE f == [kind |-> results[i].kind, phase |-> results[i].phase, class |-> results[i].class]
  <2>1. Blames(f) BY <1>1, <1>6, ResultsRun
  <2>2. ResultTold(i) BY <1>1, AtTheEnd DEF Parts, AllTold
  <2>3. PICK h \in history :
          /\ h.exec = results[i].exec /\ h.try = results[i].attempts
          /\ \A g \in history : g.exec = results[i].exec => g.try <= results[i].attempts
          /\ Tells(f, results[i].cleanup, CaseAt(i), h)
    BY <1>6, <2>1, <2>2 DEF ResultTold
  <2>4. \E x2 \in h.raised : Proof(x2) BY <2>1, <2>3 DEF Tells
  <2>5. LastAttempt(results[i].exec) = h BY <1>1, <2>3, TheLast
  <2> QED BY <2>4, <2>5
<1>7. ASSUME NEW s \in ToSet(results)
      PROVE  /\ s.status \in {"PASSED", "FAILED"}
             /\ s.status = "FAILED" => \E f \in LastAttempt(s.exec).raised : Proof(f)
  <2>1. PICK i \in DOMAIN results : s = results[i] BY DEF ToSet
  <2> QED BY <1>1, <1>6, <2>1, ResultsRun
<1> QED BY <1>3, <1>5, <1>7

\* An execution of the manifest is one of a selected case in a batch.
LEMMA Quotient ==
  ASSUME NEW N \in Nat, NEW B \in Nat, NEW k \in Nat, k < B * N
  PROVE  N > 0 /\ k \div N \in 0..(B - 1) /\ k % N \in 0..(N - 1)
<1>1. N > 0
  <2>1. CASE N = 0
    <3>1. B * 0 = 0 OBVIOUS
    <3> QED BY <2>1, <3>1
  <2> QED BY <2>1
<1>2. k % N \in 0..(N - 1) BY <1>1
<1>3. k \div N \in Int /\ k \div N >= 0 /\ k >= (k \div N) * N
  <2>1. k \div N \in Int BY <1>1
  <2>2. k \div N >= 0 BY <1>1
  <2>3. k >= (k \div N) * N BY <1>1
  <2> QED BY <2>1, <2>2, <2>3
<1>4. k \div N < B
  <2> DEFINE q == k \div N
  <2>1. q \in Nat /\ k >= q * N BY <1>3
  <2> HIDE DEF q
  <2>2. CASE q >= B
    <3>1. B * N <= q * N BY <2>1, <2>2, Products
    <3>2. q * N \in Nat /\ B * N \in Nat BY <2>1
    <3> QED BY <2>1, <3>1, <3>2
  <2> QED BY <2>1, <2>2 DEF q
<1> QED BY <1>1, <1>2, <1>3, <1>4

LEMMA Listed ==
  ASSUME plan \in Plans, NEW i \in DOMAIN Instances(plan)
  PROVE  /\ \E n \in 1..Width : CaseAt(i) = Selected(plan)[n]
         /\ CaseAt(i) \in ToSet(plan.cases)
         /\ \E b \in ToSet(plan.batches) : Instances(plan)[i] = ExecutionId(CaseAt(i), b)
         /\ Instances(plan)[i][1] = CaseAt(i).id
<1>1. /\ Width \in Nat /\ Len(plan.batches) \in Nat /\ i \in 1..(Len(plan.batches) * Width)
      /\ Len(plan.batches) * Width \in Nat
  BY PlanShape, Manifest, Products
<1> DEFINE n == ((i - 1) % Width) + 1
           m == ((i - 1) \div Width) + 1
<1>2. i - 1 \in Nat /\ i - 1 < Len(plan.batches) * Width BY <1>1
<1>3. n \in 1..Width /\ m \in 1..Len(plan.batches)
  <2>1. (i - 1) \div Width \in 0..(Len(plan.batches) - 1) /\ (i - 1) % Width \in 0..(Width - 1)
    BY <1>1, <1>2, Quotient
  <2> QED BY <1>1, <2>1
<1>4. CaseAt(i) = Selected(plan)[n] BY DEF CaseAt
<1>5. CaseAt(i) \in ToSet(plan.cases) BY <1>3, <1>4, PlanShape
<1>6. Instances(plan)[i] = ExecutionId(CaseAt(i), plan.batches[m])
  BY <1>4 DEF Instances, Width
<1>7. plan.batches[m] \in ToSet(plan.batches)
  <2>1. plan.batches \in Seq(ToSet(plan.batches)) BY PlansAssumption
  <2>2. m \in DOMAIN plan.batches BY <1>3, <2>1
  <2> QED BY <2>2 DEF ToSet
<1> HIDE DEF n, m
<1> QED BY <1>3, <1>4, <1>5, <1>6, <1>7 DEF ExecutionId

\* Of an audited plan, no two cases have one id.
LEMMA UniqueIds ==
  ASSUME plan \in Plans, AuditComplete(plan, results, Instances(plan)),
         NEW c \in ToSet(plan.cases), NEW d \in ToSet(plan.cases), c.id = d.id
  PROVE  c = d
<1> DEFINE f == [k \in DOMAIN plan.cases |-> plan.cases[k].id]
<1>1. plan.cases \in Seq(ToSet(plan.cases)) BY PlansAssumption
<1>2. Len(plan.cases) \in Nat /\ DOMAIN plan.cases = 1..Len(plan.cases) BY <1>1
<1>3. Cardinality({x.id : x \in ToSet(plan.cases)}) = Len(plan.cases)
  BY DEF AuditComplete, CaseReconciliation
<1>4. {x.id : x \in ToSet(plan.cases)} = {f[k] : k \in 1..Len(plan.cases)}
  BY <1>2 DEF ToSet
<1>5. \A j, k \in 1..Len(plan.cases) : f[j] = f[k] => j = k
  <2>1. DOMAIN f = 1..Len(plan.cases) BY <1>2
  <2> HIDE DEF f
  <2> QED BY <1>2, <1>3, <1>4, <2>1, Counted
<1>6. PICK j \in DOMAIN plan.cases : c = plan.cases[j] BY DEF ToSet
<1>7. PICK k \in DOMAIN plan.cases : d = plan.cases[k] BY DEF ToSet
<1>8. f[j] = f[k] BY <1>6, <1>7
<1> HIDE DEF f
<1> QED BY <1>2, <1>5, <1>6, <1>7, <1>8

\* What a passed run has of each execution: its last attempt raised nothing.
LEMMA PassedOnce ==
  ASSUME Inv, gate = "pass", NEW i \in DOMAIN results
  PROVE  /\ results[i].cleanup # "FAILED"
         /\ ~results[i].flaky => results[i].attempts = 1
         /\ \E h \in history :
              /\ h.exec = results[i].exec /\ h.try = results[i].attempts
              /\ \A g \in history : g.exec = results[i].exec => g.try <= results[i].attempts
              /\ h.raised = {} /\ LastAttempt(results[i].exec) = h
              /\ results[i].cleanup = IF ~CaseAt(i).cleans THEN "SKIPPED"
                                     ELSE IF h.cleaned THEN "PASSED" ELSE "FAILED"
<1> DEFINE f == [kind |-> results[i].kind, phase |-> results[i].phase, class |-> results[i].class]
<1>1. gate \in Verdicts BY DEF Verdicts
<1>2. results[i].status = "PASSED" BY <1>1, ResultsRun
<1>3. ResultTold(i) BY <1>1, AtTheEnd DEF Parts, AllTold
<1>4. f = NoFailure /\ results[i].cleanup # "FAILED" BY <1>2, <1>3 DEF ResultTold
<1>5. ~results[i].flaky => results[i].attempts = 1 BY <1>2, <1>3 DEF ResultTold
<1>6. PICK h \in history :
        /\ h.exec = results[i].exec /\ h.try = results[i].attempts
        /\ \A g \in history : g.exec = results[i].exec => g.try <= results[i].attempts
        /\ Tells(f, results[i].cleanup, CaseAt(i), h)
  BY <1>2, <1>3 DEF ResultTold
<1> HIDE DEF f
<1>7. /\ h.raised = {}
      /\ results[i].cleanup = IF ~CaseAt(i).cleans THEN "SKIPPED"
                             ELSE IF h.cleaned THEN "PASSED" ELSE "FAILED"
  BY <1>4, <1>6 DEF Tells
<1>8. LastAttempt(results[i].exec) = h BY <1>1, <1>6, TheLast
<1> QED BY <1>4, <1>5, <1>6, <1>7, <1>8

LEMMA PassCovers ==
  ASSUME Inv, gate = "pass"
  PROVE  Executions = {ExecutionId(c, b) : c \in ToSet(plan.cases), b \in ToSet(plan.batches)}
<1>1. gate \in Verdicts BY DEF Verdicts
<1>2. plan \in Plans BY DEF Inv, TypeOK
<1>3. /\ AuditComplete(plan, results, Instances(plan))
      /\ DOMAIN results = DOMAIN Instances(plan)
      /\ \A i \in DOMAIN results : results[i].exec = Instances(plan)[i]
  BY <1>1, AtTheEnd
<1>4. ASSUME NEW x \in Executions
      PROVE  \E c \in ToSet(plan.cases), b \in ToSet(plan.batches) : x = ExecutionId(c, b)
  <2>1. PICK i \in DOMAIN Instances(plan) : x = Instances(plan)[i] BY DEF Executions, ToSet
  <2> QED BY <1>2, <2>1, Listed
<1>5. ASSUME NEW c \in ToSet(plan.cases), NEW b \in ToSet(plan.batches)
      PROVE  ExecutionId(c, b) \in Executions
  <2>1. c.id \in {r.exec[1] : r \in ToSet(results)}
    BY <1>3 DEF AuditComplete, CaseReconciliation
  <2>2. PICK i \in DOMAIN results : results[i].exec[1] = c.id BY <2>1 DEF ToSet
  <2>3. CaseAt(i).id = c.id /\ CaseAt(i) \in ToSet(plan.cases) BY <1>2, <1>3, <2>2, Listed
  <2>4. CaseAt(i) = c BY <1>2, <1>3, <2>3, UniqueIds
  <2>5. PICK n \in 1..Width : c = Selected(plan)[n] BY <1>2, <1>3, <2>4, Listed
  <2>6. PICK m \in 1..Len(plan.batches) : b = plan.batches[m]
    <3>1. plan.batches \in Seq(ToSet(plan.batches)) BY <1>2, PlansAssumption
    <3>2. DOMAIN plan.batches = 1..Len(plan.batches) BY <3>1
    <3> QED BY <3>2 DEF ToSet
  <2>7. /\ (m - 1) * Width + n \in DOMAIN Instances(plan)
        /\ Instances(plan)[(m - 1) * Width + n] = ExecutionId(c, b)
    BY <1>2, <2>5, <2>6, Position
  <2> QED BY <2>7 DEF Executions, ToSet
<1> QED BY <1>4, <1>5

\* "pass" was earned by the last attempt of every execution of the plan.
LEMMA PassEarned ==
  ASSUME Inv
  PROVE  PassIsEarned
<1> SUFFICES ASSUME gate = "pass"
             PROVE  /\ Executions = {ExecutionId(c, b) : c \in ToSet(plan.cases), b \in ToSet(plan.batches)}
                    /\ \A x \in Executions :
                         AttemptsOf(x) # {} /\ LastAttempt(x).raised = {}
                    /\ plan.engine = "declarative" =>
                         \A q \in Required(plan) : \E c \in ToSet(plan.cases) : q.id \in ToSet(c.bound)
  BY DEF PassIsEarned
<1>1. gate \in Verdicts BY DEF Verdicts
<1>2. /\ AuditComplete(plan, results, Instances(plan))
      /\ DOMAIN results = DOMAIN Instances(plan)
      /\ \A i \in DOMAIN results : results[i].exec = Instances(plan)[i]
  BY <1>1, AtTheEnd
<1>3. ASSUME NEW x \in Executions PROVE AttemptsOf(x) # {} /\ LastAttempt(x).raised = {}
  <2>1. PICK i \in DOMAIN results : x = results[i].exec BY <1>2 DEF Executions, ToSet
  <2>2. PICK h \in history : h.exec = x /\ h.raised = {} /\ LastAttempt(x) = h
    BY <2>1, PassedOnce
  <2>3. h \in AttemptsOf(x) BY <2>2 DEF AttemptsOf
  <2> QED BY <2>2, <2>3
<1>4. ASSUME plan.engine = "declarative", NEW q \in Required(plan)
      PROVE  \E c \in ToSet(plan.cases) : q.id \in ToSet(c.bound)
  <2>1. q \in Audited(plan, Required(plan)) BY <1>4 DEF Audited
  <2>2. OracleMap(plan, q) # {} BY <1>2, <2>1 DEF AuditComplete, OracleReconciliation
  <2> QED BY <2>2 DEF OracleMap
<1> QED BY <1>3, <1>4, PassCovers

\* Without tolerance for flaky cases a pass is of first attempts only.
LEMMA NoneFlaky ==
  ASSUME Inv, gate = "pass", plan.max_flaky = 0, NEW i \in DOMAIN results
  PROVE  ~results[i].flaky
<1> DEFINE F == {r.exec : r \in {x \in ToSet(results) : x.flaky}}
<1>1. gate \in Verdicts /\ gate = Gate(plan, results, Instances(plan))
  BY AtTheEnd DEF Verdicts
<1>2. ~(Cardinality(F) > 0) BY <1>1, GateSays DEF Flaky, Verdicts
<1>3. IsFiniteSet(F)
  <2>1. DOMAIN results = 1..Len(results) /\ Len(results) \in Nat BY DEF Inv, TypeOK
  <2> DEFINE D == {k \in DOMAIN results : results[k].flaky}
             g == [k \in D |-> results[k].exec]
  <2>2. IsFiniteSet(D)
    <3>1. IsFiniteSet(DOMAIN results) BY <2>1, FS_Interval
    <3>2. D \subseteq DOMAIN results OBVIOUS
    <3> HIDE DEF D
    <3> QED BY <3>1, <3>2, FS_Subset
  <2>3. g \in Surjection(D, F) BY DEF Surjection, ToSet
  <2> HIDE DEF D, g, F
  <2> QED BY <2>2, <2>3, FS_Surjection
<1>4. Cardinality(F) = 0
  <2>1. Cardinality(F) \in Nat BY <1>3, FS_CardinalityType
  <2> HIDE DEF F
  <2> QED BY <1>2, <2>1
<1>5. F = {} BY <1>3, <1>4, FS_EmptySet
<1>6. results[i] \in ToSet(results) BY DEF ToSet
<1> QED BY <1>5, <1>6

LEMMA PassClean ==
  ASSUME Inv
  PROVE  PassLeavesClean
<1> SUFFICES ASSUME gate = "pass", plan.max_flaky = 0, plan.engine = "declarative",
                    NEW c \in ToSet(plan.cases), NEW h \in history,
                    h.exec[1] = c.id, c.risk # "read_only"
             PROVE  h.cleaned
  BY DEF PassLeavesClean
<1>1. gate \in Verdicts /\ plan \in Plans BY DEF Verdicts, Inv, TypeOK
<1>2. /\ pc = "done" /\ AuditComplete(plan, results, Instances(plan)) /\ Parts
      /\ DOMAIN results = DOMAIN Instances(plan)
      /\ \A i \in DOMAIN results : results[i].exec = Instances(plan)[i]
  BY <1>1, AtTheEnd
<1>3. PICK i \in DOMAIN results : h.exec = results[i].exec BY <1>2 DEF Parts, HistoryKnown
<1>4. FirstCleanup(results, c.id) = "PASSED"
  <2>1. c \in Audited(plan, ToSet(plan.cases)) BY DEF Audited
  <2>2. c.risk \in {"mutating", "destructive"} BY <1>1, PlansAssumption
  <2> QED BY <1>2, <2>1, <2>2 DEF AuditComplete, CleanupComplete
<1>5. ASSUME NEW j \in DOMAIN results, results[j].exec[1] = c.id PROVE CaseAt(j) = c
  <2>1. CaseAt(j).id = c.id /\ CaseAt(j) \in ToSet(plan.cases) BY <1>1, <1>2, <1>5, Listed
  <2> QED BY <1>1, <1>2, <2>1, UniqueIds
<1>6. c.cleans
  <2> DEFINE T == ResultsOf(results, c.id)
             m == Min(T)
  <2>1. T \in SUBSET Nat
    <3>1. DOMAIN results = 1..Len(results) BY DEF Inv, TypeOK
    <3> QED BY <3>1 DEF ResultsOf
  <2>2. i \in T BY <1>3 DEF ResultsOf
  <2>3. m \in T BY <2>1, <2>2, LeastExists
  <2>4. results[m].cleanup = "PASSED" BY <1>4, <2>2 DEF FirstCleanup
  <2>5. m \in DOMAIN results /\ results[m].exec[1] = c.id BY <2>3 DEF ResultsOf
  <2> HIDE DEF m
  <2>6. CaseAt(m) = c BY <1>5, <2>5
  <2> QED BY <2>4, <2>5, <2>6, PassedOnce
<1>7. CaseAt(i) = c BY <1>3, <1>5
<1>8. PICK g \in history :
        /\ g.exec = results[i].exec /\ g.try = results[i].attempts
        /\ \A k \in history : k.exec = results[i].exec => k.try <= results[i].attempts
        /\ results[i].cleanup = IF ~CaseAt(i).cleans THEN "SKIPPED"
                               ELSE IF g.cleaned THEN "PASSED" ELSE "FAILED"
  BY PassedOnce
<1>9. g.cleaned
  <2>1. results[i].cleanup # "FAILED" BY PassedOnce
  <2> QED BY <1>6, <1>7, <1>8, <2>1
<1>10. g.try = 1 BY <1>8, NoneFlaky, PassedOnce
<1>11. h.try = 1
  <2>1. h.try \in Nat \ {0} BY DEF Inv, TypeOK, EntryType
  <2>2. h.try <= 1 BY <1>3, <1>8, <1>10
  <2> QED BY <2>1, <2>2
<1>12. h = g BY <1>2, <1>3, <1>8, <1>10, <1>11 DEF Parts, HistoryUnique
<1> QED BY <1>9, <1>12

(***************************************************************************)
(* The verdict, for all plans, errors and faults.                          *)
(***************************************************************************)
\* A gate of fail blames the product only if, in every failed execution, the
\* attempt that counts raised an assertion in a test step and nothing that says
\* network or contract (classifyFailure, triageFailure, evaluateGate).
THEOREM FailBlamesFairly == Spec => []BlameIsBacked
<1>1. Inv => BlameIsBacked BY FailIsBacked
<1> QED BY <1>1, InvariantTold, PTL

\* A gate of pass means that every case ran in every batch, that the last attempt
\* of each raised nothing, and that every requirement of the tier has an oracle.
THEOREM PassMeansPassed == Spec => []PassIsEarned
<1>1. Inv => PassIsEarned BY PassEarned
<1> QED BY <1>1, InvariantTold, PTL

\* Without tolerance for flaky cases, a pass leaves no attempt that changed the
\* target without its cleanup (runCleanup, evaluateGate, cleanup reconciliation).
THEOREM PassMeansClean == Spec => []PassLeavesClean
<1>1. Inv => PassLeavesClean BY PassClean
<1> QED BY <1>1, InvariantTold, PTL
================================================================================
