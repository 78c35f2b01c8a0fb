-------------------------- MODULE TaskGraphProofs --------------------------
(***************************************************************************)
(* The inductive invariant of TaskGraph, and what follows from it, for     *)
(* every set of plans, operators and values and every number of faults.    *)
(***************************************************************************)
EXTENDS TaskGraph, TLAPS

-----------------------------------------------------------------------------
(* States, attempts and plans *)

\* What PlansAssumption says of one plan.
LEMMA PlanFacts ==
  ASSUME NEW p \in Plans
  PROVE  /\ ValidPlan(p) /\ p # NoPlan
         /\ p.revision \in Nat /\ p.revision # 0
         /\ p.tasks \in Seq(Node)
         /\ Tasks(p) \subseteq Node
         /\ \A n \in Tasks(p) : p.inputs[n] \subseteq Node
         /\ \A n \in Node : p.body[n] \in Body
<1>1. ValidPlan(p)
  BY PlansAssumption
<1>2. p # NoPlan
  BY <1>1 DEF ValidPlan, NoPlan
<1>3. Tasks(p) \subseteq Node
  BY <1>1 DEF ValidPlan, Tasks
<1> QED
  BY <1>1, <1>2, <1>3 DEF ValidPlan

\* A node without an attempt is in none of the phases.
LEMMA AbsentPhase ==
  /\ NoAttempt.phase = "absent" /\ "absent" \notin Phase
  /\ \A t : AttemptOK(t) => t # NoAttempt /\ t.phase \in Phase
<1>1. NoAttempt.phase = "absent"
  BY DEF NoAttempt
<1>2. "absent" \notin Phase
  BY DEF Phase, Terminal
<1>3. \A t : AttemptOK(t) => t.phase \in Phase
  BY DEF AttemptOK, Attempt
<1> QED
  BY <1>1, <1>2, <1>3

\* The state before the first `apply' is well formed.
LEMMA EmptyStateOK == StateOK(NoState) /\ NoState.plan = NoPlan
  BY DEF StateOK, NoState, State, NoAttempts

\* Replacing one attempt of a task of the plan keeps a state well formed.
LEMMA UpdatedStateOK ==
  ASSUME NEW s, StateOK(s), s.plan # NoPlan, NEW n \in Tasks(s.plan),
         NEW t, AttemptOK(t), t.name.revision <= s.plan.revision,
         t.phase # "succeeded" => t.name.revision = s.plan.revision,
         Fits(s, n, t.name), s.attempts[n].phase = "succeeded" => t = s.attempts[n]
  PROVE  LET u == [s EXCEPT !.attempts[n] = t] IN
         /\ StateOK(u) /\ u.plan = s.plan /\ u.paused = s.paused
         /\ u.previous = s.previous
         /\ u.attempts[n] = t
         /\ \A m \in Node : m # n => u.attempts[m] = s.attempts[m]
<1> DEFINE u == [s EXCEPT !.attempts[n] = t]
<1>1. s \in State /\ n \in Node /\ s.plan \in Plans
  BY PlanFacts DEF StateOK, State
<1>2. /\ u \in State /\ u.plan = s.plan /\ u.previous = s.previous
      /\ u.paused = s.paused
      /\ u.attempts[n] = t
      /\ \A m \in Node : m # n => u.attempts[m] = s.attempts[m]
  BY <1>1 DEF State, AttemptOK
<1>3. \A m \in Node : u.attempts[m] # NoAttempt => Fits(u, m, u.attempts[m].name)
  <2>1. ASSUME NEW m \in Node, NEW x, m \in Tasks(s.plan), Fits(s, m, x)
        PROVE  Fits(u, m, x)
    <3>1. \A d \in s.plan.inputs[m] : d \in Node /\ s.attempts[d].phase = "succeeded"
      BY <1>1, <2>1, PlanFacts DEF Fits, Ready
    <3>2. \A d \in s.plan.inputs[m] : u.attempts[d] = s.attempts[d]
      BY <1>2, <3>1
    <3>3. Ready(u, m) /\ Files(u, m) = Files(s, m)
      BY <1>2, <3>1, <3>2 DEF Ready, Files
    <3> QED
      BY <2>1, <3>3, <1>2 DEF Fits
  <2>2. \A m \in Node : m # n /\ s.attempts[m] # NoAttempt =>
          m \in Tasks(s.plan) /\ Fits(s, m, s.attempts[m].name)
    BY DEF StateOK
  <2> QED
    BY <1>1, <1>2, <2>1, <2>2
<1>4. StateOK(u)
  BY <1>1, <1>2, <1>3 DEF StateOK
<1> QED
  BY <1>2, <1>4

\* The inputs of a ready task are outputs of validated attempts.
LEMMA FilesType ==
  ASSUME NEW s, StateOK(s), s.plan # NoPlan, NEW n \in Tasks(s.plan), Ready(s, n)
  PROVE  Files(s, n) \in UNION {[D -> Value] : D \in SUBSET Node}
<1>1. s.plan \in Plans
  BY DEF StateOK, State
<1>2. s.plan.inputs[n] \subseteq Node
  BY <1>1, PlanFacts
<1>3. \A d \in s.plan.inputs[n] : s.attempts[d].outputs \in Value
  BY <1>2 DEF Ready, StateOK, AttemptOK, NoAttempt
<1>4. Files(s, n) \in [s.plan.inputs[n] -> Value]
  BY <1>3 DEF Files
<1> QED
  BY <1>2, <1>4

\* A fresh attempt is well formed and fits the plan.
LEMMA NewAttemptOK ==
  ASSUME NEW s, StateOK(s), s.plan # NoPlan, NEW n \in Tasks(s.plan), Ready(s, n)
  PROVE  LET t == NewAttempt(s.plan, n, Files(s, n)) IN
         AttemptOK(t) /\ t # NoAttempt /\ t.name.revision = s.plan.revision
                      /\ t.phase = "starting" /\ Fits(s, n, t.name)
<1> DEFINE t == NewAttempt(s.plan, n, Files(s, n))
<1>1. s.plan \in Plans
  BY DEF StateOK, State
<1>2. n \in Node /\ s.plan.body[n] \in Body /\ s.plan.revision \in Nat
  BY <1>1, PlanFacts
<1>3. t.name \in Name
  BY <1>2, FilesType DEF NewAttempt, Name
<1>4. t \in Attempt
  BY <1>3 DEF NewAttempt, Attempt, NoResult, Phase, Terminal, Name
<1> QED
  BY <1>4 DEF NewAttempt, AttemptOK, NoAttempt, NoResult, Fits

\* Marking a graph as paused touches nothing else.
LEMMA PausedOK ==
  ASSUME NEW s, StateOK(s)
  PROVE  LET u == [s EXCEPT !.paused = TRUE] IN
         StateOK(u) /\ u.plan = s.plan /\ u.attempts = s.attempts /\ u.paused
                    /\ u.previous = s.previous
<1> DEFINE u == [s EXCEPT !.paused = TRUE]
<1>1. /\ u \in State /\ u.plan = s.plan /\ u.attempts = s.attempts /\ u.paused
      /\ u.previous = s.previous
  BY DEF StateOK, State
<1> QED
  BY <1>1 DEF StateOK, Fits, Ready, Files

\* Apply keeps a state or starts the next revision without attempts.
LEMMA AppliedOK ==
  ASSUME NEW s, StateOK(s), NEW p \in Plans, Applicable(s, p)
  PROVE  LET u == Applied(s, p) IN
         /\ StateOK(u) /\ u.plan # NoPlan
         /\ \/ u = s
            \/ /\ Settled(s) /\ u.plan = p
               /\ s.plan = NoPlan \/ p.revision = s.plan.revision + 1
               /\ \A n \in Node : u.attempts[n] = NoAttempt
               /\ \A n \in Node : u.previous[n] # NoAttempt =>
                    u.previous[n] = s.attempts[n] /\ s.attempts[n] # NoAttempt
<1> DEFINE u == Applied(s, p)
           prev == [n \in Node |-> IF s.attempts[n].phase = "succeeded"
                                     THEN s.attempts[n] ELSE NoAttempt]
<1>0. s \in State /\ p # NoPlan /\ p.revision \in Nat
  BY PlanFacts DEF StateOK
<1>1. CASE s.plan = p
  BY <1>0, <1>1 DEF Applied
<1>2. CASE s.plan # p
  <2>1. s.plan = NoPlan \/ p.revision = s.plan.revision + 1
    BY <1>2 DEF Applicable
  <2>2. Settled(s)
    <3>1. CASE s.plan = NoPlan
      <4>1. \A n \in Node : s.attempts[n] = NoAttempt
        BY <3>1 DEF StateOK
      <4> QED
        BY <4>1, AbsentPhase DEF Settled
    <3>2. CASE s.plan # NoPlan
      BY <1>2, <3>2 DEF Applicable
    <3> QED
      BY <3>1, <3>2
  <2>3. prev \in [Node -> Attempt \cup {NoAttempt}]
    BY <1>0 DEF State
  <2>4. u = [plan |-> p, paused |-> FALSE, attempts |-> NoAttempts, previous |-> prev]
    BY <1>2 DEF Applied, NoState
  <2>5. u \in State
    BY <2>3, <2>4 DEF State, NoAttempts
  <2>6. \A n \in Node : prev[n] # NoAttempt =>
          /\ AttemptOK(prev[n]) /\ prev[n] = s.attempts[n] /\ s.attempts[n] # NoAttempt
          /\ prev[n].name.node = n /\ prev[n].phase = "succeeded"
    BY DEF StateOK, Fits
  <2>7. \A n \in Node : s.attempts[n] # NoAttempt => s.attempts[n].name.revision < p.revision
    <3> SUFFICES ASSUME NEW n \in Node, s.attempts[n] # NoAttempt
                 PROVE  s.attempts[n].name.revision < p.revision
      OBVIOUS
    <3>1. /\ s.plan # NoPlan /\ s.attempts[n].name.revision <= s.plan.revision
          /\ s.attempts[n].name.revision \in Nat
      BY DEF StateOK, AttemptOK, Attempt, Name
    <3>2. s.plan \in Plans
      BY <3>1, <1>0 DEF State
    <3>3. s.plan.revision \in Nat /\ p.revision = s.plan.revision + 1
      BY <3>1, <3>2, <2>1, PlanFacts
    <3> QED
      BY <3>1, <3>3
  <2>8. \A n \in Node : prev[n] # NoAttempt => prev[n].name.revision < p.revision
    BY <2>6, <2>7
  <2>9. StateOK(u)
    BY <2>4, <2>5, <2>6, <2>8 DEF StateOK, NoAttempts
  <2> QED
    BY <2>9, <2>1, <2>2, <2>4, <2>6, <1>0 DEF NoAttempts
<1> QED
  BY <1>1, <1>2

\* Resume changes phases of suspended attempts and nothing else.
LEMMA ResumedOK ==
  ASSUME NEW s, StateOK(s)
  PROVE  LET u == Resumed(s) IN
         /\ StateOK(u) /\ u.plan = s.plan
         /\ \A n \in Node : /\ u.attempts[n] = NoAttempt <=> s.attempts[n] = NoAttempt
                            /\ s.attempts[n] # NoAttempt =>
                                 /\ u.attempts[n].name = s.attempts[n].name
                                 /\ u.attempts[n].candidate = s.attempts[n].candidate
                                 /\ u.attempts[n].validation = s.attempts[n].validation
                                 /\ u.attempts[n].validatorNamed = s.attempts[n].validatorNamed
         /\ u.previous = s.previous
<1> DEFINE u == Resumed(s)
           resume(n) == [s.attempts[n] EXCEPT !.phase =
                          IF s.attempts[n].validatorNamed THEN "validating" ELSE "starting"]
           att == [n \in Node |-> IF s.attempts[n].phase # "suspended"
                                    THEN s.attempts[n] ELSE resume(n)]
<1>1. s \in State /\ u = [s EXCEPT !.paused = FALSE, !.attempts = att]
  BY DEF Resumed, StateOK
<1>2. \A n \in Node : s.attempts[n].phase = "suspended" =>
        /\ s.attempts[n] # NoAttempt
        /\ AttemptOK(resume(n)) /\ resume(n).name = s.attempts[n].name
        /\ resume(n).candidate = s.attempts[n].candidate
        /\ resume(n).validation = s.attempts[n].validation
        /\ resume(n).validatorNamed = s.attempts[n].validatorNamed
        /\ resume(n) # NoAttempt
        /\ resume(n).name.revision = s.plan.revision
  <2> SUFFICES ASSUME NEW n \in Node, s.attempts[n].phase = "suspended"
               PROVE  /\ s.attempts[n] # NoAttempt
                      /\ AttemptOK(resume(n)) /\ resume(n).name = s.attempts[n].name
                      /\ resume(n).candidate = s.attempts[n].candidate
                      /\ resume(n).validation = s.attempts[n].validation
                      /\ resume(n).validatorNamed = s.attempts[n].validatorNamed
                      /\ resume(n) # NoAttempt
                      /\ resume(n).name.revision = s.plan.revision
    OBVIOUS
  <2>1. s.attempts[n] # NoAttempt
    BY DEF NoAttempt
  <2>2. AttemptOK(s.attempts[n]) /\ s.attempts[n].name.revision = s.plan.revision
    BY <2>1 DEF StateOK
  <2>3. resume(n) \in Attempt /\ resume(n).name = s.attempts[n].name
        /\ resume(n).candidate = s.attempts[n].candidate
        /\ resume(n).validation = s.attempts[n].validation
        /\ resume(n).validatorNamed = s.attempts[n].validatorNamed
        /\ resume(n).phase = IF s.attempts[n].validatorNamed THEN "validating" ELSE "starting"
    BY <2>2 DEF AttemptOK, Attempt, Phase, Terminal
  <2>4. AttemptOK(resume(n)) /\ resume(n) # NoAttempt
    BY <2>2, <2>3 DEF AttemptOK, NoAttempt
  <2>5. resume(n).name.revision = s.plan.revision
    BY <2>2, <2>3
  <2> QED
    BY <2>1, <2>3, <2>4, <2>5, Zenon
<1>3. att \in [Node -> Attempt \cup {NoAttempt}]
  BY <1>1, <1>2 DEF AttemptOK, State
<1>4. /\ u \in State /\ u.plan = s.plan /\ u.previous = s.previous /\ u.attempts = att
  BY <1>1, <1>3 DEF State
<1>5. \A n \in Node :
        \/ att[n] = s.attempts[n]
        \/ /\ s.attempts[n] # NoAttempt /\ att[n] # NoAttempt
           /\ AttemptOK(att[n]) /\ att[n].name = s.attempts[n].name
           /\ att[n].candidate = s.attempts[n].candidate
           /\ att[n].validation = s.attempts[n].validation
           /\ att[n].validatorNamed = s.attempts[n].validatorNamed
           /\ att[n].name.revision = s.plan.revision
  BY <1>2
<1>6. \A n \in Node : att[n] # NoAttempt => Fits(u, n, att[n].name)
  <2> SUFFICES ASSUME NEW n \in Node, att[n] # NoAttempt
               PROVE  Fits(u, n, att[n].name)
    OBVIOUS
  <2>5. s.attempts[n] # NoAttempt /\ att[n].name = s.attempts[n].name
    BY <1>5, Zenon
  <2>6. /\ Fits(s, n, s.attempts[n].name)
        /\ s.plan # NoPlan /\ n \in Tasks(s.plan)
    BY <2>5 DEF StateOK
  <2>1. /\ s.attempts[n] # NoAttempt /\ att[n].name = s.attempts[n].name
        /\ Fits(s, n, s.attempts[n].name)
        /\ s.plan \in Plans /\ n \in Tasks(s.plan)
    BY <1>1, <2>5, <2>6 DEF State
  <2>2. \A d \in s.plan.inputs[n] : d \in Node /\ s.attempts[d].phase = "succeeded"
    BY <2>1, PlanFacts DEF Fits, Ready
  <2>3. \A d \in s.plan.inputs[n] : att[d] = s.attempts[d]
    BY <2>2
  <2>4. Ready(u, n) /\ Files(u, n) = Files(s, n)
    BY <1>4, <2>2, <2>3 DEF Ready, Files
  <2> QED
    BY <1>4, <2>1, <2>4 DEF Fits
<1>7. StateOK(u)
  BY <1>4, <1>5, <1>6 DEF StateOK
<1> QED
  BY <1>4, <1>5, <1>7

-----------------------------------------------------------------------------
(* Evidence: what an attempt says of receipts and Tasks *)

\* Receipts are never withdrawn, so evidence lasts as long as no Task is made.
LEMMA EvidenceStable ==
  ASSUME created' = created, receipt \subseteq receipt'
  PROVE  \A t : EvidenceOK(t) => EvidenceOK(t)'
  BY DEF EvidenceOK, Exec, Validator

\* Phases and outputs are no part of it, and a validator may be named.
LEMMA EvidenceKept ==
  ASSUME NEW t, NEW u, EvidenceOK(t), u.name = t.name,
         u.candidate = t.candidate, u.validation = t.validation,
         t.validatorNamed => u.validatorNamed
  PROVE  EvidenceOK(u)
  BY DEF EvidenceOK, Exec, Validator

\* Tasks and actors are as good as before when nothing happens to them.
LEMMA LaunchesUnchanged ==
  ASSUME IInv, UNCHANGED <<created, ordered, receipt>>,
         wanted' \subseteq wanted, running' \subseteq running
  PROVE  LaunchesOK'
<1>1. /\ \A l \in created : /\ l.body = l.actor.name.body /\ l.files = l.actor.name.files
                            /\ l.actor.role = "exec" => l.candidate = NoFiles
      /\ \A k \in wanted \cup ordered \cup running : \E l \in created : l.actor = k
      /\ \A q \in receipt : \E l \in created : l.actor = q.actor
  BY DEF IInv, LaunchesOK, Launched
<1> QED
  BY <1>1 DEF LaunchesOK, Launched

-----------------------------------------------------------------------------
(* What is common to all steps: only the owner of the lock has a copy *)

\* The first of the three facts: the initial state.
LEMMA InitInvariant == Init => IInv
<1> SUFFICES ASSUME Init PROVE IInv
  OBVIOUS
<1>1. StateOK(NoState) /\ NoState \in State
  BY EmptyStateOK DEF StateOK
<1>2. TypeOK
  BY <1>1, BoundAssumption DEF Init, TypeOK
<1>3. \A o \in Operator : CursorOK(o) /\ CopyOK(o)
  BY DEF Init, CursorOK, CopyOK, InSession, AtTask
<1>4. StoredEvidenceOK /\ LaunchesOK
  BY DEF Init, StoredEvidenceOK, LaunchesOK, NoState, NoAttempts
<1> QED
  BY <1>1, <1>2, <1>3, <1>4
  DEF Init, IInv, ReceiptsOK, LockCoversCopies, WantedIsOwned, IdentityStoredFirst

\* While one invocation is in session no other one is.
LEMMA OthersIdle ==
  ASSUME IInv, NEW o \in Operator, pc[o] # "idle" \/ lock = Nobody
  PROVE  \A q \in Operator : q # o => pc[q] = "idle"
  BY NobodyAssumption DEF IInv, LockCoversCopies

\* An idle invocation has no obligations, whatever happens to the rest.
LEMMA IdleOK ==
  ASSUME IInv, NEW q \in Operator, pc[q] = "idle", pc'[q] = pc[q], todo'[q] = todo[q]
  PROVE  CursorOK(q)' /\ CopyOK(q)'
<1>1. todo[q] = {}
  BY DEF IInv, CursorOK, InSession
<1> QED
  BY <1>1 DEF CursorOK, CopyOK, InSession, AtTask

\* So a step of one invocation has to re-establish its own part only.
LEMMA StepOfOne ==
  ASSUME IInv, NEW o \in Operator, pc[o] # "idle" \/ lock = Nobody,
         \A q \in Operator : q # o => pc'[q] = pc[q] /\ todo'[q] = todo[q],
         TypeOK', StateOK(db)', ReceiptsOK', WantedIsOwned', IdentityStoredFirst',
         StoredEvidenceOK', LaunchesOK',
         pc'[o] # "idle" => lock' = o,
         CursorOK(o)', CopyOK(o)'
  PROVE  IInv'
<1>1. \A q \in Operator : q # o => pc[q] = "idle"
  BY OthersIdle
<1>2. \A q \in Operator : CursorOK(q)' /\ CopyOK(q)'
  BY <1>1, IdleOK
<1>3. LockCoversCopies'
  BY <1>1 DEF LockCoversCopies
<1> QED
  BY <1>2, <1>3 DEF IInv

\* What the step leaves alone.
LEMMA SharedUnchanged ==
  ASSUME IInv, UNCHANGED <<db, created, wanted, ordered, stray, running, receipt>>
  PROVE  /\ StateOK(db)' /\ ReceiptsOK' /\ WantedIsOwned' /\ IdentityStoredFirst'
         /\ StoredEvidenceOK' /\ LaunchesOK'
<1>1. db' = db /\ created' = created /\ wanted' = wanted /\ receipt' = receipt
      /\ ordered' = ordered /\ running' = running
  OBVIOUS
<1>2. StateOK(db)'
  BY <1>1 DEF IInv
<1>3. ReceiptsOK'
  BY <1>1 DEF IInv, ReceiptsOK
<1>4. WantedIsOwned'
  BY <1>1 DEF IInv, WantedIsOwned, Target, Validator, Exec
<1>5. IdentityStoredFirst'
  BY <1>1 DEF IInv, IdentityStoredFirst, Present
<1>6. StoredEvidenceOK'
  BY <1>1, EvidenceStable DEF IInv, StoredEvidenceOK
<1>7. LaunchesOK'
  BY <1>1, LaunchesUnchanged
<1> QED
  BY <1>2, <1>3, <1>4, <1>5, <1>6, <1>7

\* A command that ends gives the lock back and drops its copy.
LEMMA ReturnOK ==
  ASSUME IInv, NEW o \in Operator, Return(o)
  PROVE  /\ pc' \in [Operator -> InSession \cup {"idle", "dead"}]
         /\ lock' \in Operator \cup {Nobody}
         /\ mem' \in [Operator -> State] /\ at' \in [Operator -> Nat]
         /\ todo' \in [Operator -> SUBSET Nat]
         /\ pc'[o] = "idle"
         /\ \A q \in Operator : q # o => pc'[q] = pc[q] /\ todo'[q] = todo[q]
         /\ CursorOK(o)' /\ CopyOK(o)'
<1>1. NoState \in State
  BY EmptyStateOK DEF StateOK
<1>2. /\ pc' \in [Operator -> InSession \cup {"idle", "dead"}]
      /\ lock' \in Operator \cup {Nobody}
      /\ mem' \in [Operator -> State] /\ at' \in [Operator -> Nat]
      /\ todo' \in [Operator -> SUBSET Nat]
      /\ pc'[o] = "idle" /\ todo'[o] = {}
      /\ \A q \in Operator : q # o => pc'[q] = pc[q] /\ todo'[q] = todo[q]
  BY <1>1 DEF Return, IInv, TypeOK
<1>3. CursorOK(o)' /\ CopyOK(o)'
  BY <1>2 DEF CursorOK, CopyOK, InSession, AtTask
<1> QED
  BY <1>2, <1>3

\* Ending a command without storing anything.
LEMMA QuietReturn ==
  ASSUME IInv, NEW o \in Operator, pc[o] # "idle", Return(o),
         UNCHANGED <<db, created, wanted, ordered, stray, running, receipt>>, faults' \in Nat
  PROVE  IInv'
<1>1. TypeOK'
  BY ReturnOK DEF IInv, TypeOK
<1> QED
  BY <1>1, ReturnOK, SharedUnchanged, StepOfOne

\* Moving on without touching the copy's relation to the stored state.
LEMMA QuietStep ==
  ASSUME IInv, NEW o \in Operator, pc[o] # "idle",
         UNCHANGED <<db, lock, created, wanted, ordered, stray, running, receipt, faults>>,
         NEW step \in InSession, Go(o, step), mem' \in [Operator -> State],
         at' \in [Operator -> Nat], todo' \in [Operator -> SUBSET Nat],
         \A q \in Operator : q # o => todo'[q] = todo[q],
         CursorOK(o)', CopyOK(o)'
  PROVE  IInv'
<1>1. /\ pc' \in [Operator -> InSession \cup {"idle", "dead"}]
      /\ \A q \in Operator : q # o => pc'[q] = pc[q]
  BY DEF Go, IInv, TypeOK
<1>2. TypeOK'
  BY <1>1 DEF IInv, TypeOK
<1>3. lock' = o
  BY DEF IInv, LockCoversCopies
<1> QED
  BY <1>1, <1>2, <1>3, SharedUnchanged, StepOfOne

-----------------------------------------------------------------------------
(* Commands *)

\* A command that begins, with the state it has prepared.
LEMMA EnterOK ==
  ASSUME IInv, NEW o \in Operator, NEW s, NEW step \in {"visit", "pauseSave", "commit"},
         Enter(o, s, step), StateOK(s), s.plan # NoPlan, at' \in [Operator -> Nat],
         step = "visit" => at'[o] # 0 /\ s = db,
         step = "pauseSave" => s = [db EXCEPT !.paused = TRUE],
         step = "commit" =>
           \/ s = db
           \/ Settled(db) /\ s = Resumed(db)
           \/ /\ Settled(db)
              /\ \E p \in Plans : /\ s = Applied(db, p)
                                  /\ db.plan \in {p, NoPlan} \/ p.revision = db.plan.revision + 1
  PROVE  IInv'
<1>a. s \in State /\ pc \in [Operator -> InSession \cup {"idle", "dead"}]
      /\ mem \in [Operator -> State] /\ step \in InSession
  BY DEF IInv, TypeOK, StateOK, InSession
<1>b. /\ pc[o] = "idle" /\ lock = Nobody /\ lock' = o /\ todo' = todo
      /\ mem' = [mem EXCEPT ![o] = s] /\ pc' = [pc EXCEPT ![o] = step]
  BY DEF Enter
<1>1. /\ pc'[o] = step /\ mem'[o] = s
      /\ pc' \in [Operator -> InSession \cup {"idle", "dead"}]
      /\ \A q \in Operator : q # o => pc'[q] = pc[q]
      /\ mem' \in [Operator -> State]
  BY <1>a, <1>b
<1>c. todo[o] = {}
  BY <1>b DEF IInv, CursorOK, InSession
<1>2. UNCHANGED <<db, created, wanted, ordered, stray, running, receipt, faults>>
  BY DEF Enter, backend, orders
<1>3. TypeOK'
  BY <1>1, <1>2, <1>b DEF IInv, TypeOK
<1>4. CursorOK(o)'
  BY <1>1, <1>b, <1>c DEF CursorOK, AtTask, InSession
<1>5. CopyOK(o)'
  <2>1. CASE step = "visit"
    BY <2>1, <1>1, <1>2 DEF CopyOK
  <2>2. CASE step = "pauseSave"
    BY <2>2, <1>1, <1>2 DEF CopyOK
  <2>3. CASE step = "commit"
    <3>1. mem'[o] = s /\ db' = db /\ pc'[o] = "commit"
      BY <1>1, <1>2, <2>3
    <3> QED
      BY <3>1, <2>3 DEF CopyOK
  <2> QED
    BY <2>1, <2>2, <2>3
<1> QED
  BY <1>1, <1>2, <1>3, <1>4, <1>5, <1>b, SharedUnchanged, StepOfOne

\* apply, resume, suspend and run begin.
LEMMA BeginInvariant ==
  ASSUME IInv, NEW o \in Operator, Begin(o)
  PROVE  IInv'
<1>0. /\ StateOK(db) /\ db \in State /\ at \in [Operator -> Nat]
  BY DEF IInv, TypeOK
<1>1. CASE BeginResume(o)
  <2>1. StateOK(Resumed(db)) /\ Resumed(db).plan # NoPlan
    BY <1>0, <1>1, ResumedOK DEF BeginResume
  <2> QED
    BY <1>0, <1>1, <2>1, EnterOK DEF BeginResume
<1>2. CASE BeginSuspend(o)
  <2> DEFINE s == [db EXCEPT !.paused = TRUE]
  <2>1. StateOK(s) /\ s.plan # NoPlan
    BY <1>0, <1>2, PausedOK DEF BeginSuspend
  <2>2. Enter(o, s, "pauseSave") /\ at' \in [Operator -> Nat]
    BY <1>0, <1>2 DEF BeginSuspend
  <2> QED
    BY <2>1, <2>2, EnterOK
<1>3. CASE BeginRun(o)
  <2>1. at' \in [Operator -> Nat] /\ at'[o] = 1
    BY <1>0, <1>3 DEF BeginRun
  <2>2. CASE db.paused
    <3>1. db = [db EXCEPT !.paused = TRUE]
      BY <2>2, <1>0 DEF State
    <3>2. Enter(o, db, "pauseSave") /\ db.plan # NoPlan
      BY <2>2, <1>3 DEF BeginRun
    <3> QED
      BY <3>1, <3>2, <2>1, <1>0, EnterOK
  <2>3. CASE ~ db.paused
    <3>1. Enter(o, db, "visit") /\ db.plan # NoPlan
      BY <2>3, <1>3 DEF BeginRun
    <3> QED
      BY <3>1, <2>1, <1>0, EnterOK
  <2> QED
    BY <2>2, <2>3
<1>4. ASSUME NEW p \in Plans, BeginApply(o, p)
      PROVE  IInv'
  <2>1. Applicable(db, p) /\ Enter(o, Applied(db, p), "commit") /\ at' \in [Operator -> Nat]
    BY <1>0, <1>4 DEF BeginApply
  <2>2. /\ StateOK(Applied(db, p)) /\ Applied(db, p).plan # NoPlan
        /\ \/ Applied(db, p) = db
           \/ Settled(db) /\ (db.plan = NoPlan \/ p.revision = db.plan.revision + 1)
    BY <1>0, <2>1, AppliedOK
  <2> QED
    BY <2>1, <2>2, EnterOK
<1> QED
  BY <1>1, <1>2, <1>3, <1>4 DEF Begin

\* Once every attempt is settled no actor has the order to run.
LEMMA SettledIsQuiet ==
  ASSUME IInv, Settled(db)
  PROVE  wanted = {}
<1> SUFFICES ASSUME NEW k \in wanted PROVE FALSE
  OBVIOUS
<1>1. PICK n \in Node : Present(db, n) /\ db.attempts[n].phase \notin Terminal
  BY DEF IInv, WantedIsOwned
<1>2. db.attempts[n].phase = "absent"
  BY <1>1 DEF Settled
<1>3. AttemptOK(db.attempts[n])
  BY <1>1 DEF IInv, StateOK, Present
<1> QED
  BY <1>2, <1>3, AbsentPhase

\* A later revision leaves every Task made so far behind it.
LEMMA NewRevisionCoversTasks ==
  ASSUME IInv, NEW p \in Plans, db.plan = NoPlan \/ p.revision = db.plan.revision + 1
  PROVE  \A l \in created : l.actor.name.revision < p.revision
<1> SUFFICES ASSUME NEW l \in created PROVE l.actor.name.revision < p.revision
  OBVIOUS
<1>1. l.actor.name.revision \in Nat
  BY DEF IInv, TypeOK, Launches, Actor, Name
<1>2. p.revision \in Nat /\ (db.plan \in Plans \/ db.plan = NoPlan)
  BY PlanFacts DEF IInv, TypeOK, State
<1>3. CASE db.plan = NoPlan
  <2>1. \A n \in Node : ~ Present(db, n)
    BY <1>3 DEF IInv, StateOK, Present
  <2>2. l.actor.name.revision < 0
    BY <1>3, <2>1 DEF IInv, IdentityStoredFirst, NoPlan
  <2> QED
    BY <2>2, <1>1
<1>4. CASE db.plan # NoPlan
  <2>1. db.plan.revision \in Nat /\ p.revision = db.plan.revision + 1
    BY <1>2, <1>4, PlanFacts
  <2>2. l.actor.name.revision <= db.plan.revision
    <3>1. CASE l.actor.name.revision < db.plan.revision
      BY <3>1, <2>1, <1>1
    <3>2. CASE \E n \in Node : Present(db, n) /\ db.attempts[n].name = l.actor.name
      BY <3>2 DEF IInv, StateOK, Present
    <3> QED
      BY <3>1, <3>2 DEF IInv, IdentityStoredFirst
  <2> QED
    BY <2>1, <2>2, <1>1
<1> QED
  BY <1>3, <1>4

\* apply and resume store what they have prepared.
LEMMA CommitInvariant ==
  ASSUME IInv, NEW o \in Operator, Commit(o)
  PROVE  IInv'
<1>1. /\ pc[o] = "commit" /\ db' = mem[o] /\ Return(o)
      /\ created' = created /\ wanted' = wanted /\ running' = running
      /\ ordered' = ordered /\ stray' = stray /\ receipt' = receipt /\ faults' = faults
  BY DEF Commit, backend, orders
<1>2. StateOK(mem[o]) /\ mem[o] \in State
  BY <1>1 DEF IInv, CursorOK, InSession, StateOK
<1>3. StateOK(db)' /\ TypeOK' /\ ReceiptsOK'
  BY <1>1, <1>2, ReturnOK DEF IInv, TypeOK, ReceiptsOK
<1>5. LaunchesOK' /\ \A t : EvidenceOK(t) => EvidenceOK(t)'
  BY <1>1, LaunchesUnchanged, EvidenceStable
<1>6. \A n \in Node : /\ db.attempts[n] # NoAttempt => EvidenceOK(db.attempts[n])
                      /\ db.previous[n] # NoAttempt => EvidenceOK(db.previous[n])
  BY DEF IInv, StoredEvidenceOK
<1>4. WantedIsOwned' /\ IdentityStoredFirst' /\ StoredEvidenceOK'
  <2>1. CASE mem[o] = db
    <3>1. UNCHANGED <<db, created, wanted, ordered, stray, running, receipt>>
      BY <2>1, <1>1
    <3> QED
      BY <3>1, SharedUnchanged
  <2>2. CASE Settled(db) /\ mem[o] = Resumed(db)
    <3>1. wanted' = {}
      BY <2>2, <1>1, SettledIsQuiet
    <3>2. /\ db'.plan = db.plan
          /\ \A n \in Node : Present(db, n) =>
               Present(db', n) /\ db'.attempts[n].name = db.attempts[n].name
      BY <2>2, <1>1, ResumedOK DEF IInv, Present
    <3>3. IdentityStoredFirst'
      BY <3>2, <1>1 DEF IInv, IdentityStoredFirst, Present
    <3>4. \A n \in Node :
            /\ db'.previous[n] = db.previous[n]
            /\ db'.attempts[n] # NoAttempt =>
                 /\ db.attempts[n] # NoAttempt
                 /\ db'.attempts[n].name = db.attempts[n].name
                 /\ db'.attempts[n].candidate = db.attempts[n].candidate
                 /\ db'.attempts[n].validation = db.attempts[n].validation
                 /\ db'.attempts[n].validatorNamed = db.attempts[n].validatorNamed
      BY <2>2, <1>1, ResumedOK DEF IInv
    <3>5. \A n \in Node : db'.attempts[n] # NoAttempt => EvidenceOK(mem[o].attempts[n])
      BY <3>4, <1>1, <1>6, EvidenceKept
    <3>6. StoredEvidenceOK'
      BY <3>4, <3>5, <1>1, <1>5, <1>6 DEF StoredEvidenceOK
    <3> QED
      BY <3>1, <3>3, <3>6 DEF WantedIsOwned
  <2>3. ASSUME mem[o] # db, Settled(db), NEW p \in Plans, mem[o] = Applied(db, p),
               db.plan \in {p, NoPlan} \/ p.revision = db.plan.revision + 1
        PROVE  WantedIsOwned' /\ IdentityStoredFirst' /\ StoredEvidenceOK'
    <3>1. wanted' = {}
      BY <2>3, <1>1, SettledIsQuiet
    <3>2. db.plan # p
      BY <2>3 DEF Applied
    <3>3. db'.plan = p
      BY <2>3, <3>2, <1>1 DEF Applied, NoState
    <3>4. \A l \in created : l.actor.name.revision < p.revision
      BY <2>3, <3>2, NewRevisionCoversTasks
    <3>5. IdentityStoredFirst'
      BY <3>3, <3>4, <1>1 DEF IdentityStoredFirst
    <3>6. \A n \in Node : /\ db'.attempts[n] = NoAttempt
                          /\ db'.previous[n] # NoAttempt =>
                               /\ db'.previous[n] = db.attempts[n]
                               /\ db.attempts[n] # NoAttempt
      BY <3>2, <2>3, <1>1 DEF Applied, NoState, NoAttempts
    <3>7. StoredEvidenceOK'
      BY <3>6, <1>5, <1>6 DEF StoredEvidenceOK
    <3> QED
      BY <3>1, <3>5, <3>7 DEF WantedIsOwned
  <2> QED
    BY <2>1, <2>2, <2>3, <1>1 DEF IInv, CopyOK
<1> QED
  BY <1>1, <1>3, <1>4, <1>5, ReturnOK, StepOfOne

-----------------------------------------------------------------------------
(* The task an invocation works on *)

\* What the invariant says of an invocation in session.
LEMMA CopyFacts ==
  ASSUME IInv, NEW o \in Operator, pc[o] \in InSession
  PROVE  /\ StateOK(mem[o]) /\ mem[o] \in State
         /\ mem[o].plan \in Plans /\ mem[o].plan # NoPlan
         /\ mem[o].plan.tasks \in Seq(Node)
         /\ at[o] \in Nat /\ pc[o] # "idle" /\ lock = o
         /\ \A i \in DOMAIN mem[o].plan.tasks :
              /\ mem[o].plan.tasks[i] \in Tasks(mem[o].plan)
              /\ mem[o].plan.tasks[i] \in Node
<1>1. StateOK(mem[o]) /\ mem[o] \in State /\ mem[o].plan # NoPlan
  BY DEF IInv, CursorOK, StateOK
<1>2. mem[o].plan \in Plans
  BY <1>1 DEF State
<1>3. \A i \in DOMAIN mem[o].plan.tasks : mem[o].plan.tasks[i] \in Tasks(mem[o].plan)
  BY DEF Tasks
<1>4. at[o] \in Nat /\ pc[o] # "idle" /\ lock = o
  BY DEF IInv, TypeOK, InSession, LockCoversCopies
<1> QED
  BY <1>1, <1>2, <1>3, <1>4, PlanFacts

\* What it says of the attempt the invocation works on.
LEMMA CurrentFacts ==
  ASSUME IInv, NEW o \in Operator, pc[o] \in AtTask
  PROVE  /\ pc[o] \in InSession
         /\ at[o] \in DOMAIN mem[o].plan.tasks
         /\ Cur(o) \in Tasks(mem[o].plan) /\ Cur(o) \in Node
         /\ CurAttempt(o) # NoAttempt /\ AttemptOK(CurAttempt(o))
         /\ CurAttempt(o).name.revision <= mem[o].plan.revision
         /\ Fits(mem[o], Cur(o), CurAttempt(o).name)
         /\ Target(CurAttempt(o)) \in Actor
         /\ EvidenceOK(CurAttempt(o))
         /\ CurAttempt(o).phase # "succeeded" =>
              CurAttempt(o).name.revision = mem[o].plan.revision
<1>1. pc[o] \in InSession
  BY DEF AtTask, InSession
<1>2. at[o] \in DOMAIN mem[o].plan.tasks /\ CurAttempt(o) # NoAttempt
  BY DEF IInv, CursorOK
<1>3. Cur(o) \in Tasks(mem[o].plan) /\ Cur(o) \in Node
  BY <1>1, <1>2, CopyFacts DEF Cur
<1>4. /\ AttemptOK(CurAttempt(o)) /\ CurAttempt(o).name.revision <= mem[o].plan.revision
      /\ Fits(mem[o], Cur(o), CurAttempt(o).name)
      /\ CurAttempt(o).phase # "succeeded" =>
           CurAttempt(o).name.revision = mem[o].plan.revision
  BY <1>1, <1>2, <1>3, CopyFacts DEF CurAttempt, StateOK
<1>5. CurAttempt(o).name \in Name
  BY <1>4 DEF AttemptOK, Attempt
<1>6. Target(CurAttempt(o)) \in Actor
  BY <1>5 DEF Target, Exec, Validator, Actor
<1>7. EvidenceOK(CurAttempt(o))
  <2>1. CASE pc[o] \in {"saveNew", "save"}
    BY <2>1 DEF IInv, CopyOK
  <2>2. CASE pc[o] \notin {"saveNew", "save"}
    <3>1. CurAttempt(o) = db.attempts[Cur(o)]
      BY <2>2 DEF IInv, CopyOK, CurAttempt, AtTask
    <3> QED
      BY <3>1, <1>2, <1>3 DEF IInv, StoredEvidenceOK
  <2> QED
    BY <2>1, <2>2
<1> QED
  BY <1>1, <1>2, <1>3, <1>4, <1>6, <1>7

\* A step that changes the copy of one attempt, to be stored next.
LEMMA UpdateStep ==
  ASSUME IInv, NEW o \in Operator, pc[o] \in InSession, mem[o] = db,
         at[o] \in DOMAIN mem[o].plan.tasks,
         NEW t, AttemptOK(t), t.name.revision <= mem[o].plan.revision,
         t.phase # "succeeded" => t.name.revision = mem[o].plan.revision,
         Fits(mem[o], Cur(o), t.name),
         EvidenceOK(t), created' = created, receipt' = receipt,
         mem' = WithAttempt(o, t), at' = at, todo' = todo, db' = db,
         NEW step \in {"save", "saveNew"}, Go(o, step),
         step = "saveNew" => t.phase = "starting",
         UpdateOK(db.attempts[Cur(o)], t, wanted')
  PROVE  /\ mem' \in [Operator -> State] /\ CursorOK(o)' /\ CopyOK(o)'
<1> DEFINE n == Cur(o)
           u == [mem[o] EXCEPT !.attempts[n] = t]
<1>1. /\ StateOK(mem[o]) /\ mem[o] \in State /\ mem[o].plan # NoPlan
      /\ n \in Tasks(mem[o].plan) /\ n \in Node
      /\ mem[o].attempts[n].phase = "succeeded" => t = mem[o].attempts[n]
  <2>1. StateOK(mem[o]) /\ mem[o] \in State /\ mem[o].plan # NoPlan
    BY CopyFacts
  <2>2. n \in Tasks(mem[o].plan) /\ n \in Node
    BY CopyFacts DEF Cur
  <2>3. ASSUME mem[o].attempts[n].phase = "succeeded"
        PROVE  t = mem[o].attempts[n]
    <3>1. NoAttempt.phase # "succeeded"
      BY DEF NoAttempt
    <3>2. mem[o].attempts[n] # NoAttempt
      BY <2>3, <3>1
    <3> QED
      BY <2>3, <3>2 DEF UpdateOK
  <2> QED
    BY <2>1, <2>2, <2>3
<1>2. /\ StateOK(u) /\ u.plan = mem[o].plan /\ u.attempts[n] = t
      /\ \A m \in Node : m # n => u.attempts[m] = mem[o].attempts[m]
  BY <1>1, UpdatedStateOK
<1>3. mem \in [Operator -> State] /\ pc \in [Operator -> InSession \cup {"idle", "dead"}]
  BY DEF IInv, TypeOK
<1>4. mem' = [mem EXCEPT ![o] = u]
  BY <1>3 DEF WithAttempt
<1>5. mem'[o] = u /\ mem' \in [Operator -> State] /\ pc'[o] = step
  BY <1>2, <1>3, <1>4 DEF StateOK, Go
<1>6. Cur(o)' = n /\ CurAttempt(o)' = t
  BY <1>2, <1>5 DEF Cur, CurAttempt
<1>7. t # NoAttempt
  BY AbsentPhase
<1>8. \A i \in todo'[o] : /\ i \in DOMAIN mem'[o].plan.tasks
                          /\ mem'[o].attempts[mem'[o].plan.tasks[i]] # NoAttempt
  <2> SUFFICES ASSUME NEW i \in todo[o]
               PROVE  /\ i \in DOMAIN u.plan.tasks
                      /\ u.attempts[u.plan.tasks[i]] # NoAttempt
    BY <1>5
  <2>1. i \in DOMAIN mem[o].plan.tasks /\ mem[o].attempts[mem[o].plan.tasks[i]] # NoAttempt
    BY DEF IInv, CursorOK
  <2>2. mem[o].plan.tasks[i] \in Node
    BY <2>1, CopyFacts
  <2> QED
    BY <2>1, <2>2, <1>2, <1>7
<1>9. CursorOK(o)'
  <2>1. at'[o] \in DOMAIN mem'[o].plan.tasks
    BY <1>2, <1>5
  <2> QED
    BY <1>1, <1>2, <1>5, <1>6, <1>7, <1>8, <2>1 DEF CursorOK, InSession
<1>10. CopyOK(o)'
  <2>1. mem'[o] = [db' EXCEPT !.attempts[Cur(o)'] = CurAttempt(o)']
    BY <1>5, <1>6
  <2>2. UpdateOK(db.attempts[Cur(o)], CurAttempt(o), wanted)'
    BY <1>6
  <2>3. EvidenceOK(CurAttempt(o))'
    BY <1>6, EvidenceStable DEF EvidenceOK, Exec, Validator
  <2> QED
    BY <2>1, <2>2, <2>3, <1>5 DEF CopyOK
<1> QED
  BY <1>5, <1>9, <1>10

\* A step to another task of the plan, or within the same one, that leaves
\* the copy equal to the stored state.
LEMMA SameCopyStep ==
  ASSUME IInv, NEW o \in Operator, pc[o] \in InSession, mem[o] = db,
         mem' = mem, db' = db, todo' = todo, at' \in [Operator -> Nat],
         NEW step \in {"visit", "ensure", "start", "read", "stop", "observe", "save", "pause"},
         Go(o, step),
         step = "visit" => at'[o] # 0,
         step \notin {"visit", "pause"} =>
           at' = at /\ at[o] \in DOMAIN mem[o].plan.tasks /\ CurAttempt(o) # NoAttempt,
         step \in {"ensure", "start"} => CurAttempt(o).phase \in {"starting", "validating"},
         step = "read" => CurAttempt(o).phase \in {"running", "validating"},
         step \in {"stop", "observe"} => CurAttempt(o).phase \notin Terminal,
         step = "observe" => Target(CurAttempt(o)) \notin wanted',
         step = "start" => \E l \in created' : l.actor = Target(CurAttempt(o)),
         step = "save" => created' = created /\ receipt' = receipt
  PROVE  CursorOK(o)' /\ CopyOK(o)'
<1>1. pc'[o] = step
  BY DEF Go, IInv, TypeOK
<1>2. /\ StateOK(mem[o]) /\ mem[o].plan # NoPlan
      /\ \A i \in todo[o] : /\ i \in DOMAIN mem[o].plan.tasks
                            /\ mem[o].attempts[mem[o].plan.tasks[i]] # NoAttempt
  BY CopyFacts DEF IInv, CursorOK
<1>3. step \notin {"visit", "pause"} => Cur(o)' = Cur(o) /\ CurAttempt(o)' = CurAttempt(o)
  BY DEF Cur, CurAttempt
<1>4. CursorOK(o)'
  BY <1>1, <1>2, <1>3 DEF CursorOK, InSession, AtTask
<1>5. CopyOK(o)'
  <2>1. CASE step = "save"
    <3>1. /\ Cur(o)' = Cur(o) /\ CurAttempt(o)' = db.attempts[Cur(o)]
          /\ Cur(o) \in Node /\ db \in State
      BY <2>1, <1>3, CopyFacts DEF Cur, CurAttempt
    <3>2. db = [db EXCEPT !.attempts[Cur(o)] = db.attempts[Cur(o)]]
      BY <3>1 DEF State
    <3>3. UpdateOK(db.attempts[Cur(o)], CurAttempt(o), wanted)'
      BY <3>1 DEF UpdateOK
    <3>4. EvidenceOK(db.attempts[Cur(o)])
      BY <2>1, <3>1 DEF IInv, StoredEvidenceOK, CurAttempt
    <3>5. EvidenceOK(CurAttempt(o))'
      BY <3>1, <3>4, <2>1 DEF EvidenceOK, Exec, Validator
    <3> QED
      BY <3>1, <3>2, <3>3, <3>5, <2>1, <1>1 DEF CopyOK
  <2>2. CASE step = "observe"
    <3>1. Target(CurAttempt(o))' = Target(CurAttempt(o))
      BY <2>2, <1>3 DEF Target, Exec, Validator
    <3> QED
      BY <2>2, <3>1, <1>1 DEF CopyOK
  <2>3. CASE step = "start"
    <3>1. Target(CurAttempt(o))' = Target(CurAttempt(o))
      BY <2>3, <1>3 DEF Target, Exec, Validator
    <3> QED
      BY <2>3, <3>1, <1>1 DEF CopyOK, Launched
  <2>4. CASE step \notin {"save", "observe", "start"}
    BY <2>4, <1>1 DEF CopyOK
  <2> QED
    BY <2>1, <2>2, <2>3, <2>4
<1> QED
  BY <1>4, <1>5

-----------------------------------------------------------------------------
(* The steps of Tick and Pause, one by one *)

\* The ways in which a command ends early or late.
LEMMA ReturningSteps ==
  ASSUME IInv, NEW o \in Operator,
         VisitLast(o) \/ Pending(o) \/ NoActor(o) \/ PauseEnd(o) \/ Fail(o)
  PROVE  IInv'
<1>1. /\ pc[o] \in InSession /\ Return(o)
      /\ UNCHANGED <<db, created, wanted, ordered, stray, running, receipt>>
      /\ faults' = faults \/ faults' = faults + 1
  BY DEF VisitLast, Pending, NoActor, PauseEnd, Fail, backend, orders, InSession
<1>2. faults' \in Nat
  BY <1>1 DEF IInv, TypeOK
<1> QED
  BY <1>1, <1>2, QuietReturn, CopyFacts

\* Where Tick stands when it looks at the next task.
LEMMA VisitFacts ==
  ASSUME IInv, NEW o \in Operator, pc[o] = "visit", at[o] <= Len(mem[o].plan.tasks)
  PROVE  /\ pc[o] \in InSession /\ mem[o] = db
         /\ at[o] \in DOMAIN mem[o].plan.tasks
         /\ Cur(o) \in Tasks(mem[o].plan) /\ Cur(o) \in Node
<1>1. pc[o] \in InSession /\ mem[o] = db /\ at[o] # 0
  BY DEF IInv, CursorOK, CopyOK, InSession
<1>2. at[o] \in Nat /\ mem[o].plan.tasks \in Seq(Node)
  BY <1>1, CopyFacts
<1>3. at[o] \in DOMAIN mem[o].plan.tasks
  BY <1>1, <1>2
<1> QED
  BY <1>1, <1>3, CopyFacts DEF Cur

\* A task whose inputs are missing is passed over: only the cursor moves.
LEMMA VisitWaitingStep ==
  ASSUME IInv, NEW o \in Operator, VisitWaiting(o)
  PROVE  IInv'
<1>1. /\ pc[o] \in InSession /\ mem[o] = db /\ at \in [Operator -> Nat]
      /\ pc[o] # "idle"
  BY VisitFacts, CopyFacts DEF VisitWaiting, IInv, TypeOK
<1>2. /\ Go(o, "visit") /\ at' = [at EXCEPT ![o] = at[o] + 1]
      /\ UNCHANGED <<db, lock, mem, todo, created, wanted, ordered, stray, running, receipt, faults>>
  BY DEF VisitWaiting, NextTask, backend, orders
<1>3. at' \in [Operator -> Nat] /\ at'[o] # 0
  BY <1>1, <1>2
<1>4. CursorOK(o)' /\ CopyOK(o)'
  BY <1>1, <1>2, <1>3, SameCopyStep
<1> QED
  BY <1>1, <1>2, <1>3, <1>4, QuietStep DEF InSession, IInv, TypeOK

\* An attempt is dispatched by its phase, which is what the next step expects.
LEMMA VisitAttemptStep ==
  ASSUME IInv, NEW o \in Operator, VisitAttempt(o)
  PROVE  IInv'
<1> DEFINE step == Step(CurAttempt(o).phase)
<1>1. /\ pc[o] \in InSession /\ mem[o] = db /\ at \in [Operator -> Nat]
      /\ pc[o] # "idle" /\ at[o] \in DOMAIN mem[o].plan.tasks
      /\ CurAttempt(o) # NoAttempt
  BY VisitFacts, CopyFacts DEF VisitAttempt, IInv, TypeOK
<1>2. /\ Go(o, step)
      /\ UNCHANGED <<db, lock, mem, at, todo, created, wanted, ordered, stray, running, receipt, faults>>
  BY DEF VisitAttempt, backend, orders
<1>3. /\ step \in {"ensure", "read", "stop", "save"}
      /\ step = "ensure" => CurAttempt(o).phase \in {"starting", "validating"}
      /\ step = "read" => CurAttempt(o).phase \in {"running", "validating"}
      /\ step = "stop" => CurAttempt(o).phase \notin Terminal
  BY DEF Step, Terminal
<1> HIDE DEF step
<1>4. CursorOK(o)' /\ CopyOK(o)'
  BY <1>1, <1>2, <1>3, SameCopyStep
<1> QED
  BY <1>1, <1>2, <1>3, <1>4, QuietStep DEF InSession, IInv, TypeOK

\* An actor without a receipt is left alone: only the cursor moves.
LEMMA ReadNothingStep ==
  ASSUME IInv, NEW o \in Operator, ReadNothing(o)
  PROVE  IInv'
<1>1. pc[o] = "read"
  BY DEF ReadNothing
<1>2. /\ pc[o] \in InSession /\ mem[o] = db /\ at \in [Operator -> Nat]
      /\ pc[o] # "idle"
  BY <1>1 DEF IInv, CopyOK, TypeOK, InSession
<1>3. /\ Go(o, "visit") /\ at' = [at EXCEPT ![o] = at[o] + 1]
      /\ UNCHANGED <<db, lock, mem, todo, created, wanted, ordered, stray, running, receipt, faults>>
  BY DEF ReadNothing, NextTask, backend, orders
<1>4. at' \in [Operator -> Nat] /\ at'[o] # 0
  BY <1>2, <1>3
<1>5. CursorOK(o)' /\ CopyOK(o)'
  BY <1>2, <1>3, <1>4, SameCopyStep
<1> QED
  BY <1>2, <1>3, <1>4, <1>5, QuietStep DEF InSession, IInv, TypeOK

\* A task becomes an attempt of the copy: a reused result of the predecessor
\* revision, with its evidence, or a fresh identity no Task exists under.
LEMMA VisitNewStep ==
  ASSUME IInv, NEW o \in Operator, VisitNew(o)
  PROVE  IInv'
<1> DEFINE n == Cur(o)
           copied == [mem[o].previous[n] EXCEPT !.reused = TRUE]
           fresh == NewAttempt(mem[o].plan, n, Files(mem[o], n))
<1>1. /\ pc[o] \in InSession /\ mem[o] = db /\ pc[o] # "idle"
      /\ at[o] \in DOMAIN mem[o].plan.tasks
      /\ n \in Tasks(mem[o].plan) /\ n \in Node
      /\ StateOK(mem[o]) /\ mem[o].plan # NoPlan
      /\ Ready(mem[o], n) /\ db.attempts[n] = NoAttempt
  BY VisitFacts, CopyFacts DEF VisitNew, CurAttempt
<1>2. UNCHANGED <<db, lock, at, todo, created, wanted, ordered, stray, running, receipt, faults>>
  BY DEF VisitNew, backend, orders
<1>3. \A t : UpdateOK(db.attempts[n], t, wanted')
  BY <1>1, <1>2 DEF UpdateOK
<1>4. CASE Reusable(mem[o], n)
  <2>1. mem' = WithAttempt(o, copied) /\ Go(o, "save")
    BY <1>4 DEF VisitNew
  <2>2. /\ mem[o].previous[n] # NoAttempt
        /\ AttemptOK(mem[o].previous[n])
        /\ mem[o].previous[n].name.revision \in Nat /\ mem[o].plan.revision \in Nat
        /\ mem[o].previous[n].name.revision < mem[o].plan.revision
        /\ Fits(mem[o], n, mem[o].previous[n].name)
    <3>1. mem[o].previous[n] # NoAttempt
      BY <1>1, <1>4 DEF Reusable, NoAttempt
    <3>2. /\ AttemptOK(mem[o].previous[n])
          /\ mem[o].previous[n].name.revision < mem[o].plan.revision
          /\ Fits(mem[o], n, mem[o].previous[n].name)
      BY <3>1, <1>1, <1>4 DEF Reusable, StateOK, Fits
    <3>3. mem[o].previous[n].name.revision \in Nat /\ mem[o].plan.revision \in Nat
      BY <3>2, <1>1, CopyFacts, PlanFacts DEF AttemptOK, Attempt, Name
    <3> QED
      BY <3>1, <3>2, <3>3
  <2>3. AttemptOK(copied) /\ copied.name = mem[o].previous[n].name
    BY <2>2 DEF AttemptOK, Attempt
  <2>4. copied.name.revision <= mem[o].plan.revision /\ Fits(mem[o], n, copied.name)
        /\ copied.phase = "succeeded" /\ EvidenceOK(copied)
    <3>1. EvidenceOK(mem[o].previous[n])
      BY <2>2, <1>1 DEF IInv, StoredEvidenceOK
    <3>2. /\ copied.candidate = mem[o].previous[n].candidate
          /\ copied.validation = mem[o].previous[n].validation
          /\ copied.validatorNamed = mem[o].previous[n].validatorNamed
          /\ copied.phase = "succeeded"
      BY <2>2, <1>4 DEF AttemptOK, Attempt, Reusable
    <3> HIDE DEF copied
    <3>3. EvidenceOK(copied)
      BY <2>3, <3>1, <3>2, EvidenceKept
    <3>4. copied.name.revision <= mem[o].plan.revision
      BY <2>2, <2>3
    <3> QED
      BY <2>2, <2>3, <3>2, <3>3, <3>4
  <2> HIDE DEF copied
  <2>5. mem' \in [Operator -> State] /\ CursorOK(o)' /\ CopyOK(o)'
    BY <1>1, <1>2, <1>3, <2>1, <2>3, <2>4, UpdateStep
  <2> QED
    BY <1>1, <1>2, <2>1, <2>5, QuietStep DEF InSession, IInv, TypeOK
<1>5. CASE ~ Reusable(mem[o], n)
  <2>1. mem' = WithAttempt(o, fresh) /\ Go(o, "saveNew")
    BY <1>5 DEF VisitNew
  <2>2. AttemptOK(fresh) /\ fresh.name.revision = mem[o].plan.revision
        /\ fresh.phase = "starting" /\ Fits(mem[o], n, fresh.name)
    BY <1>1, NewAttemptOK
  <2>3. fresh.name.revision <= mem[o].plan.revision
    BY <2>2, CopyFacts, <1>1, PlanFacts
  <2>5. EvidenceOK(fresh)
    <3>1. fresh.candidate = NoResult /\ fresh.validation = NoResult
      BY DEF NewAttempt
    <3>2. \A l \in created : l.actor # Validator(fresh)
      <4> SUFFICES ASSUME NEW l \in created, l.actor = Validator(fresh) PROVE FALSE
        OBVIOUS
      <4>1. l.actor.name = fresh.name
        BY DEF Validator
      <4>2. ~ l.actor.name.revision < db.plan.revision
        BY <4>1, <2>2, <1>1, CopyFacts, PlanFacts
      <4>3. PICK m \in Node : Present(db, m) /\ db.attempts[m].name = fresh.name
        BY <4>1, <4>2 DEF IInv, IdentityStoredFirst
      <4>4. db.attempts[m].name.node = m
        BY <4>3 DEF IInv, StateOK, Present, Fits
      <4> QED
        BY <4>3, <4>4, <2>2, <1>1 DEF Present, Fits
    <3> QED
      BY <3>1, <3>2 DEF EvidenceOK
  <2> HIDE DEF fresh
  <2>4. mem' \in [Operator -> State] /\ CursorOK(o)' /\ CopyOK(o)'
    BY <1>1, <1>2, <1>3, <2>1, <2>2, <2>3, <2>5, UpdateStep
  <2> QED
    BY <1>1, <1>2, <2>1, <2>4, QuietStep DEF InSession, IInv, TypeOK
<1> QED
  BY <1>4, <1>5

\* The receipt becomes the candidate or the verdict: it is evidence already.
LEMMA ReadStep ==
  ASSUME IInv, NEW o \in Operator, Read(o)
  PROVE  IInv'
<1> DEFINE t == CurAttempt(o)
<1>0. pc[o] = "read" /\ pc[o] \in AtTask
  BY DEF Read, AtTask
<1>1. /\ pc[o] \in InSession /\ mem[o] = db /\ pc[o] # "idle"
      /\ at[o] \in DOMAIN mem[o].plan.tasks
      /\ t # NoAttempt /\ AttemptOK(t) /\ t.name.revision <= mem[o].plan.revision
      /\ Fits(mem[o], Cur(o), t.name) /\ EvidenceOK(t)
      /\ t.phase # "succeeded" => t.name.revision = mem[o].plan.revision
      /\ t.phase \in {"running", "validating"} /\ t = db.attempts[Cur(o)]
  BY <1>0, CurrentFacts, CopyFacts DEF IInv, CopyOK, CursorOK, CurAttempt
<1>2. /\ UNCHANGED <<db, lock, at, todo, created, wanted, ordered, stray, running, receipt, faults>>
      /\ Go(o, "save")
  BY DEF Read, backend, orders
<1>3. PICK r \in receipt :
        /\ r.actor = Target(t)
        /\ mem' = WithAttempt(o, IF t.phase = "running"
                                   THEN [t EXCEPT !.candidate = r.result, !.phase = "stopping"]
                                   ELSE [t EXCEPT !.validation = r.result,
                                                  !.phase = "validation-stopping"])
  BY DEF Read
<1>4. /\ r.result \in Result /\ (r.actor.role = "exec" /\ r.result.ok => r.result.files \in Value)
      /\ [actor |-> Target(t), result |-> r.result] \in receipt
  BY <1>3 DEF IInv, TypeOK, ReceiptsOK
<1>5. ASSUME NEW u, mem' = WithAttempt(o, u), AttemptOK(u), u.name = t.name,
             u.phase \notin Terminal, u.validatorNamed = t.validatorNamed,
             EvidenceOK(u)
      PROVE  IInv'
  <2>1. UpdateOK(db.attempts[Cur(o)], u, wanted')
    BY <1>1, <1>5 DEF UpdateOK, Target, Exec, Validator
  <2>2. mem' \in [Operator -> State] /\ CursorOK(o)' /\ CopyOK(o)'
    BY <1>1, <1>2, <1>5, <2>1, UpdateStep DEF Terminal
  <2> QED
    BY <1>1, <1>2, <2>2, QuietStep DEF InSession, IInv, TypeOK
<1>6. CASE t.phase = "running"
  <2> DEFINE u == [t EXCEPT !.candidate = r.result, !.phase = "stopping"]
  <2>1. r.actor.role = "exec"
    BY <1>1, <1>3, <1>6 DEF AttemptOK, Target, Exec
  <2>2. /\ u \in Attempt /\ u.candidate = r.result /\ u.phase = "stopping"
        /\ u.validatorNamed = t.validatorNamed /\ u.name = t.name
    BY <1>1, <1>4 DEF AttemptOK, Attempt, Phase
  <2>3. AttemptOK(u) /\ u.phase \notin Terminal
    BY <2>1, <2>2, <1>1, <1>4, <1>6 DEF AttemptOK, Terminal
  <2>4. EvidenceOK(u)
    <3>1. /\ ~ t.validatorNamed /\ u.validation = t.validation
          /\ Exec(u) = Target(t) /\ Validator(u) = Validator(t)
      BY <1>1, <1>6, <2>2 DEF AttemptOK, Attempt, Target, Exec, Validator
    <3> QED
      BY <3>1, <2>2, <1>1, <1>4 DEF EvidenceOK
  <2> QED
    BY <1>3, <1>5, <1>6, <2>2, <2>3, <2>4
<1>7. CASE t.phase = "validating"
  <2> DEFINE u == [t EXCEPT !.validation = r.result, !.phase = "validation-stopping"]
  <2>1. /\ u \in Attempt /\ u.candidate = t.candidate /\ u.phase = "validation-stopping"
        /\ u.validatorNamed = t.validatorNamed /\ u.name = t.name
    BY <1>1, <1>4 DEF AttemptOK, Attempt, Phase
  <2>2. AttemptOK(u) /\ u.phase \notin Terminal
    BY <2>1, <1>1, <1>7 DEF AttemptOK, Terminal
  <2>3. EvidenceOK(u)
    <3>1. /\ u.validation = r.result
          /\ Exec(u) = Exec(t) /\ Validator(u) = Validator(t) /\ Target(t) = Validator(t)
      BY <1>1, <1>7, <2>1 DEF AttemptOK, Attempt, Target, Exec, Validator
    <3> QED
      BY <3>1, <2>1, <1>1, <1>4 DEF EvidenceOK
  <2> QED
    BY <1>3, <1>5, <1>7, <2>1, <2>2, <2>3
<1> QED
  BY <1>1, <1>6, <1>7

\* After a confirmed stop the attempt is suspended, validated, adopted or failed;
\* its actor no longer has the order to run.
LEMMA ObserveStep ==
  ASSUME IInv, NEW o \in Operator, Observe(o)
  PROVE  IInv'
<1> DEFINE t == CurAttempt(o)
<1>0. pc[o] = "observe" /\ pc[o] \in AtTask
  BY DEF Observe, AtTask
<1>1. /\ pc[o] \in InSession /\ mem[o] = db /\ pc[o] # "idle"
      /\ at[o] \in DOMAIN mem[o].plan.tasks /\ at \in [Operator -> Nat]
      /\ t # NoAttempt /\ AttemptOK(t) /\ t.name.revision <= mem[o].plan.revision
      /\ Fits(mem[o], Cur(o), t.name) /\ EvidenceOK(t)
      /\ t.phase # "succeeded" => t.name.revision = mem[o].plan.revision
      /\ t = db.attempts[Cur(o)] /\ Target(t) \notin wanted /\ t.phase \notin Terminal
  BY <1>0, CurrentFacts, CopyFacts DEF IInv, CopyOK, CursorOK, CurAttempt, TypeOK
<1>2. UNCHANGED <<db, lock, todo, created, wanted, ordered, stray, running, receipt, faults>>
  BY DEF Observe, backend, orders
<1>3. CASE Target(t) \notin running
  <2> DEFINE u == IF mem[o].paused THEN [t EXCEPT !.phase = "suspended"] ELSE Stopped(t)
  <2>1. mem' = WithAttempt(o, u) /\ Go(o, "save") /\ at' = at
    BY <1>3 DEF Observe
  <2>2. AttemptOK([t EXCEPT !.phase = "suspended"]) /\ [t EXCEPT !.phase = "suspended"].name = t.name
    BY <1>1 DEF AttemptOK, Attempt, Phase, Terminal
  <2>3. AttemptOK([t EXCEPT !.phase = "failed"]) /\ [t EXCEPT !.phase = "failed"].name = t.name
    BY <1>1 DEF AttemptOK, Attempt, Phase, Terminal
  <2>4. t.phase = "stopping" /\ t.candidate.ok =>
          LET w == [t EXCEPT !.validatorNamed = TRUE, !.phase = "validating"] IN
          AttemptOK(w) /\ w.name = t.name
    BY <1>1 DEF AttemptOK, Attempt, Phase, Terminal
  <2>5. t.phase = "validation-stopping" /\ t.validation.ok =>
          LET w == [t EXCEPT !.outputs = t.candidate.files, !.phase = "succeeded"] IN
          AttemptOK(w) /\ w.name = t.name
    BY <1>1 DEF AttemptOK, Attempt, Phase, Terminal
  <2>6. AttemptOK(u) /\ u.name = t.name
    BY <2>2, <2>3, <2>4, <2>5 DEF Stopped
  <2>11. /\ u.candidate = t.candidate /\ u.validation = t.validation
         /\ t.validatorNamed => u.validatorNamed
    BY <1>1 DEF Stopped, AttemptOK, Attempt
  <2> HIDE DEF u
  <2>7. UpdateOK(db.attempts[Cur(o)], u, wanted')
    BY <1>1, <1>2, <2>6 DEF UpdateOK, Terminal
  <2>8. u.name.revision <= mem[o].plan.revision /\ Fits(mem[o], Cur(o), u.name)
        /\ u.name.revision = mem[o].plan.revision
    BY <1>1, <2>6 DEF Terminal
  <2>10. EvidenceOK(u)
    BY <2>6, <2>11, <1>1, EvidenceKept
  <2>9. mem' \in [Operator -> State] /\ CursorOK(o)' /\ CopyOK(o)'
    BY <1>1, <1>2, <2>1, <2>6, <2>7, <2>8, <2>10, UpdateStep
  <2> QED
    BY <1>1, <1>2, <2>1, <2>9, QuietStep DEF InSession, IInv, TypeOK
<1>4. CASE Target(t) \in running /\ mem[o].paused
  <2>1. mem' = mem /\ Go(o, "save") /\ at' = at
    BY <1>4 DEF Observe
  <2>2. CursorOK(o)' /\ CopyOK(o)'
    BY <1>1, <1>2, <2>1, SameCopyStep
  <2> QED
    BY <1>1, <1>2, <2>1, <2>2, QuietStep DEF InSession, IInv, TypeOK
<1>5. CASE Target(t) \in running /\ ~ mem[o].paused
  <2>1. mem' = mem /\ Go(o, "visit") /\ at' = [at EXCEPT ![o] = at[o] + 1]
    BY <1>5 DEF Observe, NextTask
  <2>2. at' \in [Operator -> Nat] /\ at'[o] # 0
    BY <1>1, <2>1
  <2>3. CursorOK(o)' /\ CopyOK(o)'
    BY <1>1, <1>2, <2>1, <2>2, SameCopyStep
  <2> QED
    BY <1>1, <1>2, <2>1, <2>2, <2>3, QuietStep DEF InSession, IInv, TypeOK
<1> QED
  BY <1>3, <1>4, <1>5

\* The order to run is given to the actor of a stored, live attempt.
LEMMA StartStep ==
  ASSUME IInv, NEW o \in Operator, Start(o)
  PROVE  IInv'
<1> DEFINE t == CurAttempt(o)
           u == [t EXCEPT !.phase = "running"]
<1>0. pc[o] = "start" /\ pc[o] \in AtTask
  BY DEF Start, AtTask
<1>1. /\ pc[o] \in InSession /\ mem[o] = db /\ pc[o] # "idle" /\ lock = o
      /\ at[o] \in DOMAIN mem[o].plan.tasks /\ at \in [Operator -> Nat]
      /\ t # NoAttempt /\ AttemptOK(t) /\ t.name.revision <= mem[o].plan.revision
      /\ Fits(mem[o], Cur(o), t.name) /\ EvidenceOK(t)
      /\ t.phase # "succeeded" => t.name.revision = mem[o].plan.revision
      /\ t.phase \in {"starting", "validating"}
      /\ t = db.attempts[Cur(o)] /\ Cur(o) \in Node /\ Target(t) \in Actor
  BY <1>0, CurrentFacts, CopyFacts DEF IInv, CopyOK, CursorOK, CurAttempt, TypeOK
<1>2. /\ UNCHANGED <<db, lock, at, todo, created, running, receipt, faults>>
      /\ wanted \subseteq wanted' /\ wanted' \subseteq wanted \cup {Target(t)}
      /\ ordered' \subseteq ordered \cup {Target(t)} /\ stray' \subseteq stray
  BY DEF Start, orders
<1>3. WantedIsOwned'
  <2> SUFFICES ASSUME NEW k \in wanted'
               PROVE  \E n \in Node : /\ Present(db, n)
                                      /\ db.attempts[n].phase \notin Terminal
                                      /\ k = Target(db.attempts[n])
    BY <1>2 DEF WantedIsOwned, Present, Target, Exec, Validator
  <2>1. CASE k \in wanted
    BY <2>1 DEF IInv, WantedIsOwned
  <2>2. CASE k = Target(t)
    BY <2>2, <1>1 DEF Present, Terminal
  <2> QED
    BY <2>1, <2>2, <1>2
<1>4. /\ StateOK(db)' /\ ReceiptsOK' /\ IdentityStoredFirst'
      /\ StoredEvidenceOK' /\ LaunchesOK'
  <2>1. StateOK(db)' /\ ReceiptsOK' /\ IdentityStoredFirst'
    BY <1>2 DEF IInv, ReceiptsOK, IdentityStoredFirst, Present
  <2>2. StoredEvidenceOK'
    BY <1>2, EvidenceStable DEF IInv, StoredEvidenceOK
  <2>3. \E l \in created : l.actor = Target(t)
    BY <1>0 DEF IInv, CopyOK, Launched
  <2>4. LaunchesOK'
    BY <1>2, <2>3 DEF IInv, LaunchesOK, Launched
  <2> QED
    BY <2>1, <2>2, <2>4
<1>5. /\ mem' \in [Operator -> State] /\ CursorOK(o)' /\ CopyOK(o)'
      /\ \E step \in InSession : Go(o, step)
  <2>1. CASE t.phase = "starting"
    <3>1. mem' = WithAttempt(o, u) /\ Go(o, "save")
      BY <2>1 DEF Start
    <3>2. AttemptOK(u) /\ u.name = t.name /\ u.phase = "running"
          /\ u.validatorNamed = t.validatorNamed
          /\ u.candidate = t.candidate /\ u.validation = t.validation
      BY <1>1, <2>1 DEF AttemptOK, Attempt, Phase, Terminal
    <3>3. UpdateOK(db.attempts[Cur(o)], u, wanted')
      BY <1>1, <3>2 DEF UpdateOK, Target, Exec, Validator, Terminal
    <3>4. EvidenceOK(u)
      BY <1>1, <3>2, EvidenceKept
    <3>5. Fits(mem[o], Cur(o), u.name) /\ u.name.revision = mem[o].plan.revision
          /\ u.name.revision <= mem[o].plan.revision
      BY <1>1, <3>2
    <3> HIDE DEF u
    <3> QED
      BY <1>1, <1>2, <3>1, <3>2, <3>3, <3>4, <3>5, UpdateStep DEF InSession
  <2>2. CASE t.phase = "validating"
    <3>1. mem' = mem /\ Go(o, "read")
      BY <2>2 DEF Start
    <3> QED
      BY <1>1, <1>2, <2>2, <3>1, SameCopyStep DEF InSession, IInv, TypeOK
  <2> QED
    BY <1>1, <2>1, <2>2
<1>6. /\ pc' \in [Operator -> InSession \cup {"idle", "dead"}]
      /\ \A q \in Operator : q # o => pc'[q] = pc[q]
  BY <1>5 DEF Go, IInv, TypeOK
<1>7. TypeOK'
  BY <1>1, <1>2, <1>5, <1>6 DEF IInv, TypeOK
<1> QED
  BY <1>1, <1>2, <1>3, <1>4, <1>5, <1>6, <1>7, StepOfOne

\* The Task created is the one its stored name describes, so it stays idempotent.
LEMMA EnsureStep ==
  ASSUME IInv, NEW o \in Operator, Ensure(o)
  PROVE  IInv'
<1> DEFINE t == CurAttempt(o)
           launch == Launch(mem[o], Cur(o))
           step == IF mem[o].paused THEN "stop" ELSE "start"
<1>0. pc[o] = "ensure" /\ pc[o] \in AtTask
  BY DEF Ensure, AtTask
<1>1. /\ pc[o] \in InSession /\ mem[o] = db /\ pc[o] # "idle" /\ lock = o
      /\ at[o] \in DOMAIN mem[o].plan.tasks /\ at \in [Operator -> Nat]
      /\ t # NoAttempt /\ AttemptOK(t)
      /\ t.phase \in {"starting", "validating"}
      /\ t = db.attempts[Cur(o)] /\ Cur(o) \in Node /\ Target(t) \in Actor
      /\ Fits(mem[o], Cur(o), t.name) /\ Cur(o) \in Tasks(mem[o].plan)
      /\ StateOK(mem[o]) /\ mem[o].plan \in Plans /\ mem[o].plan # NoPlan
      /\ t = mem[o].attempts[Cur(o)]
      /\ t.name.revision = mem[o].plan.revision
  BY <1>0, CurrentFacts, CopyFacts DEF IInv, CopyOK, CursorOK, CurAttempt, TypeOK
<1>2. UNCHANGED <<db, wanted, ordered, stray, running, receipt, faults>>
  BY DEF Ensure, orders
<1>3. CASE Collides(launch)
  <2>1. Return(o) /\ created' = created
    BY <1>3 DEF Ensure
  <2> QED
    BY <1>1, <1>2, <2>1, QuietReturn DEF IInv, TypeOK
<1>4. CASE ~ Collides(launch)
  <2>1. /\ created' = created \cup {launch} /\ Go(o, step)
        /\ UNCHANGED <<lock, mem, at, todo>>
    BY <1>4 DEF Ensure
  <2>2. launch \in Launches /\ launch.actor = Target(t)
        /\ Target(t).name = t.name
    <3>1. /\ Files(mem[o], Cur(o)) \in UNION {[D -> Value] : D \in SUBSET Node}
          /\ mem[o].plan.body[Cur(o)] \in Body
      BY <1>1, FilesType, PlanFacts DEF Fits
    <3>2. t.validatorNamed => t.candidate.files \in Value
      BY <1>1 DEF AttemptOK
    <3>3. Target(t).name = t.name
      BY DEF Target, Exec, Validator
    <3> QED
      BY <1>1, <3>1, <3>2, <3>3 DEF Launch, Launches
  <2>3. IdentityStoredFirst'
    <3> SUFFICES ASSUME NEW l \in created'
                 PROVE  \/ l.actor.name.revision < db.plan.revision
                        \/ \E n \in Node : Present(db, n) /\ db.attempts[n].name = l.actor.name
      BY <1>2 DEF IdentityStoredFirst, Present
    <3>1. CASE l \in created
      BY <3>1 DEF IInv, IdentityStoredFirst
    <3>2. CASE l = launch
      BY <3>2, <2>2, <1>1 DEF Present
    <3> QED
      BY <3>1, <3>2, <2>1
  <2>4. StateOK(db)' /\ ReceiptsOK' /\ WantedIsOwned'
    BY <1>2 DEF IInv, ReceiptsOK, WantedIsOwned, Present, Target, Exec, Validator
  <2>5. CursorOK(o)' /\ CopyOK(o)'
    BY <1>1, <1>2, <2>1, <2>2, SameCopyStep DEF IInv, TypeOK, Terminal
  <2>8. LaunchesOK'
    <3>1. /\ launch.body = launch.actor.name.body /\ launch.files = launch.actor.name.files
          /\ launch.actor.role = "exec" => launch.candidate = NoFiles
      BY <1>1, <2>2 DEF Launch, Fits, Target, Exec, Validator, AttemptOK, Attempt
    <3> HIDE DEF launch
    <3> QED
      BY <1>2, <2>1, <3>1 DEF IInv, LaunchesOK, Launched
  <2>9. StoredEvidenceOK'
    <3>1. \A u : EvidenceOK(u) /\ (launch.actor = Validator(u) =>
                                     u.validatorNamed /\ launch.candidate = u.candidate.files)
                  => EvidenceOK(u)'
      BY <1>2, <2>1 DEF EvidenceOK, Exec, Validator
    <3>2. \A u : launch.actor = Validator(u) =>
            u.name = t.name /\ t.validatorNamed /\ launch.candidate = t.candidate.files
      BY <1>1, <2>2 DEF Launch, Target, Exec, Validator
    <3>3. \A m \in Node : Present(db, m) /\ db.attempts[m].name = t.name => db.attempts[m] = t
      BY <1>1 DEF IInv, StateOK, Present, Fits
    <3>4. \A m \in Node : db.previous[m] # NoAttempt => db.previous[m].name # t.name
      <4> SUFFICES ASSUME NEW m \in Node, db.previous[m] # NoAttempt,
                          db.previous[m].name = t.name
                   PROVE  FALSE
        OBVIOUS
      <4>1. t.name.revision < db.plan.revision
        BY DEF IInv, StateOK
      <4> QED
        BY <4>1, <1>1, PlanFacts
    <3> HIDE DEF launch
    <3>5. \A m \in Node : db.attempts[m] # NoAttempt => EvidenceOK(db.attempts[m])'
      BY <1>2, <3>1, <3>2, <3>3 DEF IInv, StoredEvidenceOK, Present
    <3>6. \A m \in Node : db.previous[m] # NoAttempt => EvidenceOK(db.previous[m])'
      BY <1>2, <3>1, <3>2, <3>4 DEF IInv, StoredEvidenceOK
    <3> QED
      BY <1>2, <3>5, <3>6 DEF StoredEvidenceOK
  <2>6. /\ pc' \in [Operator -> InSession \cup {"idle", "dead"}]
        /\ \A q \in Operator : q # o => pc'[q] = pc[q]
    BY <2>1 DEF Go, IInv, TypeOK, InSession
  <2>7. TypeOK'
    BY <1>2, <2>1, <2>2, <2>6 DEF IInv, TypeOK
  <2> QED
    BY <1>1, <1>2, <2>1, <2>3, <2>4, <2>5, <2>6, <2>7, <2>8, <2>9, StepOfOne
<1> QED
  BY <1>3, <1>4

\* The order to run is withdrawn before anyone looks at the actor.
LEMMA StopStep ==
  ASSUME IInv, NEW o \in Operator, Stop(o)
  PROVE  IInv'
<1> DEFINE t == CurAttempt(o)
<1>0. pc[o] = "stop" /\ pc[o] \in AtTask
  BY DEF Stop, AtTask
<1>1. /\ pc[o] \in InSession /\ mem[o] = db /\ pc[o] # "idle" /\ lock = o
      /\ at[o] \in DOMAIN mem[o].plan.tasks /\ at \in [Operator -> Nat]
      /\ t # NoAttempt /\ t.phase \notin Terminal
  BY <1>0, CurrentFacts, CopyFacts DEF IInv, CopyOK, CursorOK, TypeOK
<1>2. UNCHANGED <<db, created, ordered, running, receipt, faults>>
  BY DEF Stop
<1>3. CASE \E l \in created : l.actor = Target(t)
  <2>1. /\ wanted' = wanted \ {Target(t)} /\ stray' \subseteq stray /\ Go(o, "observe")
        /\ UNCHANGED <<lock, mem, at, todo>>
    BY <1>3 DEF Stop
  <2>2. /\ StateOK(db)' /\ ReceiptsOK' /\ IdentityStoredFirst'
        /\ StoredEvidenceOK' /\ LaunchesOK'
    <3>1. StateOK(db)' /\ ReceiptsOK' /\ IdentityStoredFirst'
      BY <1>2 DEF IInv, ReceiptsOK, IdentityStoredFirst, Present
    <3>2. StoredEvidenceOK'
      BY <1>2, EvidenceStable DEF IInv, StoredEvidenceOK
    <3> QED
      BY <3>1, <3>2, <1>2, <2>1, LaunchesUnchanged
  <2>3. WantedIsOwned'
    BY <1>2, <2>1 DEF IInv, WantedIsOwned, Present, Target, Exec, Validator
  <2>4. CursorOK(o)' /\ CopyOK(o)'
    BY <1>1, <1>2, <2>1, SameCopyStep DEF IInv, TypeOK
  <2>5. /\ pc' \in [Operator -> InSession \cup {"idle", "dead"}]
        /\ \A q \in Operator : q # o => pc'[q] = pc[q]
    BY <2>1 DEF Go, IInv, TypeOK, InSession
  <2>6. TypeOK'
    BY <1>2, <2>1, <2>5 DEF IInv, TypeOK
  <2> QED
    BY <1>1, <1>2, <2>1, <2>2, <2>3, <2>4, <2>5, <2>6, StepOfOne
<1>4. CASE ~ \E l \in created : l.actor = Target(t)
  <2>1. Return(o) /\ wanted' = wanted /\ stray' = stray
    BY <1>4 DEF Stop
  <2> QED
    BY <1>1, <1>2, <2>1, QuietReturn DEF IInv, TypeOK
<1> QED
  BY <1>3, <1>4

-----------------------------------------------------------------------------
(* Storing the copy *)

\* Storing a copy that differs in one attempt.
LEMMA StoringOK ==
  ASSUME IInv, NEW o \in Operator, pc[o] \in {"saveNew", "save"},
         db' = mem[o], UNCHANGED <<created, wanted, ordered, stray, running, receipt>>
  PROVE  /\ StateOK(db)' /\ ReceiptsOK' /\ WantedIsOwned' /\ IdentityStoredFirst'
         /\ StoredEvidenceOK' /\ LaunchesOK'
<1> DEFINE n == Cur(o)
           old == db.attempts[n]
           new == CurAttempt(o)
<1>0. pc[o] \in AtTask
  BY DEF AtTask
<1>1. /\ StateOK(mem[o]) /\ n \in Node /\ new # NoAttempt
      /\ mem[o] = [db EXCEPT !.attempts[n] = new] /\ db \in State
      /\ UpdateOK(old, new, wanted) /\ EvidenceOK(new)
  BY <1>0, CurrentFacts, CopyFacts DEF IInv, CopyOK, TypeOK
<1>2. /\ mem[o].plan = db.plan /\ mem[o].attempts[n] = new
      /\ mem[o].previous = db.previous
      /\ \A m \in Node : m # n => mem[o].attempts[m] = db.attempts[m]
  BY <1>1 DEF State
<1>3. StateOK(db)' /\ ReceiptsOK'
  BY <1>1 DEF IInv, ReceiptsOK
<1>4. WantedIsOwned'
  <2> SUFFICES ASSUME NEW k \in wanted
               PROVE  \E m \in Node : /\ Present(mem[o], m)
                                      /\ mem[o].attempts[m].phase \notin Terminal
                                      /\ k = Target(mem[o].attempts[m])
    BY DEF WantedIsOwned, Present, Target, Exec, Validator
  <2>1. PICK m \in Node : /\ Present(db, m)
                          /\ db.attempts[m].phase \notin Terminal
                          /\ k = Target(db.attempts[m])
    BY DEF IInv, WantedIsOwned
  <2>2. CASE m = n
    <3>1. new = old \/ (new.phase \notin Terminal /\ Target(new) = Target(old))
      BY <1>1, <2>1, <2>2 DEF UpdateOK, Present
    <3>2. new.phase \notin Terminal /\ k = Target(new)
      BY <3>1, <2>1, <2>2
    <3> QED
      BY <3>2, <1>1, <1>2 DEF Present
  <2>3. CASE m # n
    BY <2>1, <2>3, <1>2 DEF Present
  <2> QED
    BY <2>2, <2>3
<1>5. IdentityStoredFirst'
  <2> SUFFICES ASSUME NEW l \in created
               PROVE  \/ l.actor.name.revision < mem[o].plan.revision
                      \/ \E m \in Node : Present(mem[o], m) /\ mem[o].attempts[m].name = l.actor.name
    BY DEF IdentityStoredFirst, Present
  <2>1. CASE l.actor.name.revision < db.plan.revision
    BY <2>1, <1>2
  <2>2. ASSUME NEW m \in Node, Present(db, m), db.attempts[m].name = l.actor.name
        PROVE  \E i \in Node : Present(mem[o], i) /\ mem[o].attempts[i].name = l.actor.name
    BY <2>2, <1>1, <1>2 DEF Present, UpdateOK
  <2> QED
    BY <2>1, <2>2 DEF IInv, IdentityStoredFirst
<1>6. StoredEvidenceOK'
  <2>1. \A m \in Node : /\ mem[o].attempts[m] # NoAttempt => EvidenceOK(mem[o].attempts[m])
                        /\ mem[o].previous[m] # NoAttempt => EvidenceOK(mem[o].previous[m])
    BY <1>1, <1>2 DEF IInv, StoredEvidenceOK
  <2> QED
    BY <2>1, EvidenceStable DEF StoredEvidenceOK
<1>7. LaunchesOK'
  BY LaunchesUnchanged
<1> QED
  BY <1>3, <1>4, <1>5, <1>6, <1>7

\* The identity of a fresh attempt is stored; the session goes on with it.
LEMMA SaveNewStep ==
  ASSUME IInv, NEW o \in Operator, SaveNew(o)
  PROVE  IInv'
<1>1. /\ pc[o] = "saveNew" /\ db' = mem[o] /\ Go(o, "ensure")
      /\ UNCHANGED <<lock, mem, at, todo, created, wanted, ordered, stray, running, receipt, faults>>
  BY DEF SaveNew, backend, orders
<1>2. /\ pc[o] \in InSession /\ pc[o] \in AtTask
      /\ pc \in [Operator -> InSession \cup {"idle", "dead"}]
  BY <1>1 DEF InSession, AtTask, IInv, TypeOK
<1>3. /\ pc' \in [Operator -> InSession \cup {"idle", "dead"}] /\ pc'[o] = "ensure"
      /\ \A q \in Operator : q # o => pc'[q] = pc[q]
  BY <1>1, <1>2 DEF Go, InSession
<1>4. TypeOK'
  BY <1>1, <1>2, <1>3, CopyFacts DEF IInv, TypeOK
<1>5. Cur(o)' = Cur(o) /\ CurAttempt(o)' = CurAttempt(o)
  BY <1>1 DEF Cur, CurAttempt
<1>6. CursorOK(o)'
  BY <1>1, <1>2, <1>3, <1>5 DEF IInv, CursorOK, InSession, AtTask
<1>7. CopyOK(o)'
  BY <1>1, <1>3 DEF CopyOK
<1> QED
  BY <1>1, <1>2, <1>3, <1>4, <1>6, <1>7, CopyFacts, StoringOK, StepOfOne

\* A changed attempt is stored, then the next task or the rest of a suspension.
LEMMA SaveStep ==
  ASSUME IInv, NEW o \in Operator, Save(o)
  PROVE  IInv'
<1> DEFINE step == IF mem[o].paused THEN "pause" ELSE "visit"
<1>1. /\ pc[o] = "save" /\ db' = mem[o] /\ Go(o, step)
      /\ UNCHANGED <<lock, mem, created, wanted, ordered, stray, running, receipt, faults>>
  BY DEF Save, NextTask, backend, orders
<1>2. /\ pc[o] \in InSession
      /\ pc \in [Operator -> InSession \cup {"idle", "dead"}]
      /\ at \in [Operator -> Nat] /\ todo \in [Operator -> SUBSET Nat]
  BY <1>1 DEF InSession, IInv, TypeOK
<1>3. /\ at' \in [Operator -> Nat] /\ todo' \in [Operator -> SUBSET Nat]
      /\ step = "visit" => at'[o] # 0
      /\ todo'[o] \subseteq todo[o]
      /\ \A q \in Operator : q # o => todo'[q] = todo[q]
  <2>1. CASE mem[o].paused
    BY <2>1, <1>2 DEF Save
  <2>2. CASE ~ mem[o].paused
    BY <2>2, <1>2 DEF Save, NextTask
  <2> QED
    BY <2>1, <2>2
<1>4. /\ pc' \in [Operator -> InSession \cup {"idle", "dead"}] /\ pc'[o] = step
      /\ \A q \in Operator : q # o => pc'[q] = pc[q]
      /\ step \in {"pause", "visit"}
  BY <1>1, <1>2 DEF Go, InSession
<1>5. TypeOK'
  BY <1>1, <1>2, <1>3, <1>4, CopyFacts DEF IInv, TypeOK
<1>6. CursorOK(o)'
  BY <1>1, <1>2, <1>3, <1>4 DEF IInv, CursorOK, InSession, AtTask
<1>7. CopyOK(o)'
  BY <1>1, <1>4 DEF CopyOK
<1> QED
  BY <1>1, <1>2, <1>3, <1>4, <1>5, <1>6, <1>7, CopyFacts, StoringOK, StepOfOne

\* The wish to suspend is stored before the first actor is stopped.
LEMMA PauseSaveStep ==
  ASSUME IInv, NEW o \in Operator, PauseSave(o)
  PROVE  IInv'
<1>1. /\ pc[o] = "pauseSave" /\ db' = mem[o] /\ Go(o, "pause")
      /\ todo' = [todo EXCEPT ![o] = {i \in DOMAIN mem[o].plan.tasks :
                                        mem[o].attempts[mem[o].plan.tasks[i]] # NoAttempt}]
      /\ UNCHANGED <<lock, mem, at, created, wanted, ordered, stray, running, receipt, faults>>
  BY DEF PauseSave, backend, orders
<1>2. /\ pc[o] \in InSession
      /\ pc \in [Operator -> InSession \cup {"idle", "dead"}]
      /\ todo \in [Operator -> SUBSET Nat] /\ StateOK(db)
      /\ mem[o] = [db EXCEPT !.paused = TRUE]
      /\ DOMAIN mem[o].plan.tasks \subseteq Nat
  BY <1>1, CopyFacts DEF InSession, IInv, TypeOK, CopyOK
<1>3. /\ todo' \in [Operator -> SUBSET Nat]
      /\ \A i \in todo'[o] : /\ i \in DOMAIN mem[o].plan.tasks
                             /\ mem[o].attempts[mem[o].plan.tasks[i]] # NoAttempt
      /\ \A q \in Operator : q # o => todo'[q] = todo[q]
  BY <1>1, <1>2
<1>4. /\ pc' \in [Operator -> InSession \cup {"idle", "dead"}] /\ pc'[o] = "pause"
      /\ \A q \in Operator : q # o => pc'[q] = pc[q]
  BY <1>1, <1>2 DEF Go, InSession
<1>5. /\ StateOK(db)' /\ db'.plan = db.plan /\ db'.attempts = db.attempts
      /\ db'.previous = db.previous
  BY <1>1, <1>2, PausedOK
<1>6. ReceiptsOK' /\ WantedIsOwned' /\ IdentityStoredFirst'
  BY <1>1, <1>5 DEF IInv, ReceiptsOK, WantedIsOwned, IdentityStoredFirst, Present,
                    Target, Exec, Validator
<1>10. LaunchesOK' /\ StoredEvidenceOK'
  <2>1. StoredEvidenceOK'
    BY <1>1, <1>5, EvidenceStable DEF IInv, StoredEvidenceOK
  <2> QED
    BY <2>1, <1>1, LaunchesUnchanged
<1>7. TypeOK'
  BY <1>1, <1>2, <1>3, <1>4, CopyFacts DEF IInv, TypeOK
<1>8. CursorOK(o)'
  BY <1>1, <1>2, <1>3, <1>4, CopyFacts DEF CursorOK, InSession, AtTask
<1>9. CopyOK(o)'
  BY <1>1, <1>4 DEF CopyOK
<1> QED
  BY <1>1, <1>2, <1>3, <1>4, <1>5, <1>6, <1>7, <1>8, <1>9, <1>10, CopyFacts, StepOfOne

\* A suspension turns to one attempt that is left; the copy stays as stored.
LEMMA PauseTaskStep ==
  ASSUME IInv, NEW o \in Operator, PauseTask(o)
  PROVE  IInv'
<1>1. /\ pc[o] = "pause" /\ pc[o] \in InSession /\ mem[o] = db /\ lock = o /\ pc[o] # "idle"
      /\ UNCHANGED <<db, created, wanted, ordered, stray, running, receipt, faults>>
      /\ at \in [Operator -> Nat] /\ todo \in [Operator -> SUBSET Nat]
      /\ pc \in [Operator -> InSession \cup {"idle", "dead"}]
      /\ mem \in [Operator -> State]
  BY CopyFacts DEF PauseTask, backend, orders, IInv, TypeOK, CopyOK, InSession
<1>2. PICK i \in todo[o] :
        LET n == mem[o].plan.tasks[i]
            phase == mem[o].attempts[n].phase
        IN
        IF phase \in Terminal
          THEN todo' = [todo EXCEPT ![o] = todo[o] \ {i}] /\ UNCHANGED <<pc, lock, mem, at>>
        ELSE IF phase = "starting" /\ ~ Ready(mem[o], n) THEN Return(o)
        ELSE /\ at' = [at EXCEPT ![o] = i]
             /\ Go(o, IF phase = "starting" THEN "ensure" ELSE "stop")
             /\ UNCHANGED <<lock, mem, todo>>
  BY DEF PauseTask
<1>3. /\ i \in DOMAIN mem[o].plan.tasks /\ i \in Nat
      /\ mem[o].attempts[mem[o].plan.tasks[i]] # NoAttempt
  BY <1>1 DEF IInv, CursorOK
<1> DEFINE phase == mem[o].attempts[mem[o].plan.tasks[i]].phase
           step == IF phase = "starting" THEN "ensure" ELSE "stop"
<1>4. CASE phase \in Terminal
  <2>1. todo' = [todo EXCEPT ![o] = todo[o] \ {i}] /\ UNCHANGED <<pc, lock, mem, at>>
    BY <1>2, <1>4
  <2>2. Go(o, "pause") /\ todo' \in [Operator -> SUBSET Nat] /\ todo'[o] \subseteq todo[o]
        /\ \A q \in Operator : q # o => todo'[q] = todo[q]
    BY <1>1, <2>1 DEF Go
  <2>3. CursorOK(o)'
    BY <1>1, <2>1, <2>2 DEF IInv, CursorOK, AtTask, InSession
  <2>4. CopyOK(o)'
    BY <1>1, <2>1 DEF CopyOK
  <2> QED
    BY <1>1, <2>1, <2>2, <2>3, <2>4, QuietStep DEF InSession
<1>5. CASE Return(o)
  BY <1>1, <1>5, QuietReturn DEF IInv, TypeOK
<1>6. CASE phase \notin Terminal /\ ~ Return(o)
  <2>1. /\ at' = [at EXCEPT ![o] = i] /\ Go(o, step)
        /\ UNCHANGED <<lock, mem, todo>>
    BY <1>2, <1>6
  <2>2. /\ at' \in [Operator -> Nat] /\ at'[o] = i /\ pc'[o] = step
        /\ step \in {"ensure", "stop"} /\ mem'[o] = mem[o] /\ db' = db
    BY <1>1, <1>3, <2>1 DEF Go
  <2>3. CurAttempt(o)' = mem[o].attempts[mem[o].plan.tasks[i]]
    BY <1>1, <2>2 DEF CurAttempt, Cur
  <2>4. CursorOK(o)'
    BY <1>1, <1>3, <1>6, <2>1, <2>2, <2>3 DEF IInv, CursorOK, AtTask, InSession
  <2>5. CopyOK(o)'
    BY <1>1, <2>2 DEF CopyOK
  <2> QED
    BY <1>1, <2>1, <2>2, <2>4, <2>5, QuietStep DEF InSession
<1> QED
  BY <1>4, <1>5, <1>6

-----------------------------------------------------------------------------
(* Faults and the world outside *)

\* A dead invocation has lost its copy and keeps the lock.
LEMMA CrashStep ==
  ASSUME IInv, NEW o \in Operator, Crash(o)
  PROVE  IInv'
<1>1. /\ pc[o] \in InSession /\ faults' = faults + 1
      /\ pc' = [pc EXCEPT ![o] = "dead"] /\ mem' = [mem EXCEPT ![o] = NoState]
      /\ at' = [at EXCEPT ![o] = 0] /\ todo' = [todo EXCEPT ![o] = {}]
      /\ UNCHANGED <<db, lock, created, wanted, ordered, stray, running, receipt>>
  BY DEF Crash, backend, orders
<1>2. /\ TypeOK' /\ pc'[o] = "dead" /\ todo'[o] = {}
      /\ \A q \in Operator : q # o => pc'[q] = pc[q] /\ todo'[q] = todo[q]
  BY <1>1, EmptyStateOK DEF IInv, TypeOK, StateOK
<1>3. CursorOK(o)' /\ CopyOK(o)'
  BY <1>2 DEF CursorOK, CopyOK, InSession, AtTask
<1> QED
  BY <1>1, <1>2, <1>3, CopyFacts, SharedUnchanged, StepOfOne

\* Recovery frees the lock of a dead invocation, which has no copy.
LEMMA RecoverStep ==
  ASSUME IInv, NEW o \in Operator, Recover(o)
  PROVE  IInv'
<1>1. /\ pc[o] = "dead" /\ pc' = [pc EXCEPT ![o] = "idle"]
      /\ lock' = Nobody \/ lock' = lock
      /\ UNCHANGED <<db, mem, at, todo, created, wanted, ordered, stray, running, receipt, faults>>
  BY DEF Recover, Go, backend, orders
<1>2. /\ TypeOK' /\ pc'[o] = "idle" /\ todo'[o] = {}
      /\ \A q \in Operator : q # o => pc'[q] = pc[q] /\ todo'[q] = todo[q]
  BY <1>1 DEF IInv, TypeOK, CursorOK, InSession
<1>3. CursorOK(o)' /\ CopyOK(o)'
  BY <1>2 DEF CursorOK, CopyOK, InSession, AtTask
<1> QED
  BY <1>1, <1>2, <1>3, SharedUnchanged, StepOfOne

\* Steps in which no invocation takes part.
LEMMA SessionsUnchanged ==
  ASSUME IInv, UNCHANGED <<db, lock, session, created, wanted>>, receipt \subseteq receipt'
  PROVE  /\ StoredEvidenceOK'
         /\ \A o \in Operator : CursorOK(o)' /\ CopyOK(o)'
         /\ StateOK(db)' /\ LockCoversCopies' /\ WantedIsOwned' /\ IdentityStoredFirst'
<1>1. /\ db' = db /\ lock' = lock /\ pc' = pc /\ mem' = mem /\ at' = at /\ todo' = todo
      /\ created' = created /\ wanted' = wanted
  BY DEF session
<1>2. ASSUME NEW o \in Operator
      PROVE  CursorOK(o)' /\ CopyOK(o)'
  <2>1. Cur(o)' = Cur(o) /\ CurAttempt(o)' = CurAttempt(o)
    BY <1>1 DEF Cur, CurAttempt
  <2>2. CursorOK(o)'
    BY <1>1, <2>1 DEF IInv, CursorOK
  <2>3. Target(CurAttempt(o))' = Target(CurAttempt(o))
    BY <2>1 DEF Target, Exec, Validator
  <2>5. EvidenceOK(CurAttempt(o)) => EvidenceOK(CurAttempt(o))'
    BY <1>1, <2>1 DEF EvidenceOK, Exec, Validator
  <2>4. CopyOK(o)'
    BY <1>1, <2>1, <2>3, <2>5 DEF IInv, CopyOK, Launched
  <2> QED
    BY <2>2, <2>4
<1>3. StateOK(db)' /\ LockCoversCopies'
  BY <1>1 DEF IInv, LockCoversCopies
<1>4. WantedIsOwned' /\ IdentityStoredFirst'
  BY <1>1 DEF IInv, WantedIsOwned, IdentityStoredFirst, Present, Target, Exec, Validator
<1>5. StoredEvidenceOK'
  BY <1>1, EvidenceStable DEF IInv, StoredEvidenceOK
<1> QED
  BY <1>2, <1>3, <1>4, <1>5

\* What the record says is not among what the invariant speaks of.
LEMMA OverwriteStep ==
  ASSUME IInv, NEW k \in ordered, Overwrite(k)
  PROVE  IInv'
<1>1. /\ UNCHANGED <<db, lock, session, created, wanted, ordered, running, receipt>>
      /\ stray' \subseteq stray \cup {k} /\ faults' = faults + 1
  BY DEF Overwrite
<1>2. TypeOK' /\ ReceiptsOK'
  BY <1>1 DEF IInv, TypeOK, ReceiptsOK, session
<1>3. LaunchesOK'
  BY <1>1, LaunchesUnchanged
<1> QED
  BY <1>1, <1>2, <1>3, SessionsUnchanged DEF IInv

\* An actor that was ever ordered to run belongs to a Task that was created.
LEMMA ConvergeStep ==
  ASSUME IInv, NEW k \in ordered, Converge(k)
  PROVE  IInv'
<1>1. /\ UNCHANGED <<db, lock, session, created, wanted, ordered, stray, receipt, faults>>
      /\ running' \subseteq running \cup {k}
  BY DEF Converge, orders
<1>2. k \in Actor
  BY DEF IInv, TypeOK
<1>3. TypeOK' /\ ReceiptsOK'
  BY <1>1, <1>2 DEF IInv, TypeOK, ReceiptsOK, session
<1>4. LaunchesOK'
  BY <1>1 DEF IInv, LaunchesOK, Launched
<1> QED
  BY <1>1, <1>3, <1>4, SessionsUnchanged DEF IInv

\* A receipt is left by an actor with a Task, and no earlier one is replaced.
LEMMA FinishStep ==
  ASSUME IInv, NEW k \in running, NEW r \in Outcome(k), Finish(k, r)
  PROVE  IInv'
<1>1. /\ UNCHANGED <<db, lock, session, created, wanted, ordered, stray, running, faults>>
      /\ receipt' = receipt \cup {[actor |-> k, result |-> r]}
  BY DEF Finish, orders
<1>2. k \in Actor
  BY DEF IInv, TypeOK
<1>3. /\ r \in Result
      /\ r.ok => IF k.role = "exec" THEN r.files \in Value ELSE r.files = NoFiles
  <2>1. CASE r = [ok |-> FALSE, files |-> NoFiles]
    BY <2>1 DEF Result
  <2>2. CASE r \in [ok : {TRUE}, files : IF k.role = "exec" THEN Value ELSE {NoFiles}]
    BY <2>2 DEF Result
  <2> QED
    BY <2>1, <2>2 DEF Outcome
<1>4. TypeOK' /\ ReceiptsOK'
  BY <1>1, <1>2, <1>3 DEF IInv, TypeOK, ReceiptsOK, session
<1>5. LaunchesOK'
  BY <1>1 DEF IInv, LaunchesOK, Launched
<1> QED
  BY <1>1, <1>4, <1>5, SessionsUnchanged DEF IInv

\* The second fact: every step, by its actions.
LEMMA NextInvariant == IInv /\ [Next]_vars => IInv'
<1> SUFFICES ASSUME IInv, [Next]_vars PROVE IInv'
  OBVIOUS
<1>1. ASSUME NEW o \in Operator, Tick(o)
      PROVE  IInv'
  BY <1>1, ReturningSteps, VisitWaitingStep, VisitNewStep, VisitAttemptStep, SaveNewStep,
     EnsureStep, StartStep, ReadNothingStep, ReadStep, StopStep, ObserveStep, SaveStep
  DEF Tick
<1>2. ASSUME NEW o \in Operator, Pause(o)
      PROVE  IInv'
  BY <1>2, PauseSaveStep, PauseTaskStep, ReturningSteps DEF Pause
<1>3. CASE UNCHANGED vars
  <2>1. UNCHANGED <<db, lock, session, created, wanted, ordered, stray, running, receipt, faults>>
    BY <1>3 DEF vars, backend, orders
  <2>2. TypeOK' /\ ReceiptsOK'
    BY <2>1 DEF IInv, TypeOK, ReceiptsOK, session
  <2>3. LaunchesOK'
    BY <2>1, LaunchesUnchanged
  <2> QED
    BY <2>1, <2>2, <2>3, SessionsUnchanged DEF IInv
<1> QED
  BY <1>1, <1>2, <1>3, BeginInvariant, CommitInvariant, ReturningSteps, CrashStep,
     RecoverStep, OverwriteStep, ConvergeStep, FinishStep DEF Next

-----------------------------------------------------------------------------
(* Theorems *)

\* Whatever commands are issued, however often they fail or die, the
\* inductive invariant holds.
THEOREM Invariance == Spec => []IInv
<1> QED
  BY InitInvariant, NextInvariant, PTL DEF Spec

\* Every variable stays within its type: the stored state, all copies, the
\* Tasks created and the receipts.
THEOREM TypeCorrect == Spec => []TypeOK
<1>1. IInv => TypeOK
  BY DEF IInv
<1> QED
  BY <1>1, Invariance, PTL

\* Two invocations of the CLI never both hold a copy of a graph's state.
THEOREM LockProtects == Spec => []LockCoversCopies
<1>1. IInv => LockCoversCopies
  BY DEF IInv
<1> QED
  BY <1>1, Invariance, PTL

\* No acknowledged order is left to run an actor that no live attempt accounts
\* for: crashes between a call and the Save after it included.
THEOREM NoStrayActor == Spec => []WantedIsOwned
<1>1. IInv => WantedIsOwned
  BY DEF IInv
<1> QED
  BY <1>1, Invariance, PTL

\* No Task exists whose identity was not stored first.
THEOREM IdentityFirst == Spec => []IdentityStoredFirst
<1>1. IInv => IdentityStoredFirst
  BY DEF IInv
<1> QED
  BY <1>1, Invariance, PTL

\* Every stored attempt is for the task and the inputs of the plan in force.
THEOREM FittingAttempts == Spec => []AttemptsFitPlan
<1>1. IInv => AttemptsFitPlan
  BY DEF IInv, StateOK, AttemptsFitPlan, Present
<1> QED
  BY <1>1, Invariance, PTL

\* Every call of Ensure asks for the Task that is there, if one is there.
THEOREM EnsureIdempotent == Spec => []EnsureIsIdempotent
<1>1. ASSUME IInv PROVE EnsureIsIdempotent
  <2> SUFFICES ASSUME NEW o \in Operator, pc[o] = "ensure", NEW k \in created,
                      k.actor = Launch(mem[o], Cur(o)).actor
               PROVE  k = Launch(mem[o], Cur(o))
    BY DEF EnsureIsIdempotent, Collides
  <2> DEFINE t == CurAttempt(o)
             launch == Launch(mem[o], Cur(o))
  <2>1. t = mem[o].attempts[Cur(o)] /\ t.validatorNamed \in BOOLEAN
        /\ Fits(mem[o], Cur(o), t.name) /\ EvidenceOK(t)
    BY <1>1, CurrentFacts DEF CurAttempt, AtTask, AttemptOK, Attempt
  <2>2. k.actor = Target(t) /\ Target(t).name = t.name
    BY <2>1 DEF Launch, Target, Exec, Validator
  <2>6. /\ k.body = k.actor.name.body /\ k.files = k.actor.name.files
        /\ k.actor.role = "exec" => k.candidate = NoFiles
    BY <1>1 DEF IInv, LaunchesOK
  <2>3. k.body = launch.body /\ k.files = launch.files
    <3>1. launch.body = t.name.body /\ launch.files = t.name.files
      BY <2>1 DEF Fits, Launch
    <3> HIDE DEF launch
    <3> QED
      BY <2>2, <2>6, <3>1
  <2>4. k.candidate = launch.candidate
    <3>1. CASE t.validatorNamed
      <4>1. k.actor = Validator(t)
        BY <3>1, <2>2 DEF Target
      <4>2. k.candidate = t.candidate.files
        BY <4>1, <2>1 DEF EvidenceOK
      <4> QED
        BY <3>1, <4>2, <2>1 DEF Launch
    <3>2. CASE ~ t.validatorNamed
      <4>1. k.actor.role = "exec"
        BY <3>2, <2>2 DEF Target, Exec
      <4> QED
        BY <3>2, <4>1, <2>6, <2>1 DEF Launch
    <3> QED
      BY <3>1, <3>2
  <2>5. k \in Launches
    BY <1>1 DEF IInv, TypeOK
  <2> QED
    BY <2>2, <2>3, <2>4, <2>5, <2>1 DEF Launches, Launch
<1> QED
  BY <1>1, Invariance, PTL

\* No output is adopted that was not produced by the executor and approved by
\* a validator of exactly these bytes.
THEOREM AdoptionIsValidated == Spec => []AdoptedWasValidated
<1>1. ASSUME IInv PROVE AdoptedWasValidated
  <2> SUFFICES ASSUME NEW n \in Node, db.attempts[n].phase = "succeeded"
               PROVE  LET at_n == db.attempts[n] IN
                      /\ [actor |-> Exec(at_n), result |-> [ok |-> TRUE, files |-> at_n.outputs]] \in receipt
                      /\ [actor |-> Validator(at_n), result |-> [ok |-> TRUE, files |-> NoFiles]] \in receipt
                      /\ [actor |-> Validator(at_n), body |-> at_n.name.body, files |-> at_n.name.files,
                          candidate |-> at_n.outputs] \in created
    BY DEF AdoptedWasValidated
  <2> DEFINE t == db.attempts[n]
  <2>1. t # NoAttempt
    BY DEF NoAttempt
  <2>2. AttemptOK(t) /\ EvidenceOK(t)
    BY <1>1, <2>1 DEF IInv, StateOK, StoredEvidenceOK
  <2>3. /\ t.candidate.ok /\ t.candidate # NoResult /\ t.outputs = t.candidate.files
        /\ t.validation.ok /\ t.validation # NoResult
        /\ t.candidate \in Result /\ t.validation \in Result
    BY <2>2 DEF AttemptOK, Attempt, NoResult
  <2>4. t.candidate = [ok |-> TRUE, files |-> t.outputs]
    BY <2>3 DEF Result
  <2>5. /\ [actor |-> Exec(t), result |-> t.candidate] \in receipt
        /\ [actor |-> Validator(t), result |-> t.validation] \in receipt
    BY <2>2, <2>3 DEF EvidenceOK
  <2>6. t.validation = [ok |-> TRUE, files |-> NoFiles]
    <3>1. t.validation.files = NoFiles
      BY <1>1, <2>3, <2>5 DEF IInv, ReceiptsOK, Validator
    <3> QED
      BY <3>1, <2>3 DEF Result
  <2>7. PICK l \in created : l.actor = Validator(t)
    BY <1>1, <2>5 DEF IInv, LaunchesOK, Launched
  <2>8. /\ l.candidate = t.outputs /\ l.body = t.name.body /\ l.files = t.name.files
        /\ l \in Launches
    <3>1. l.candidate = t.candidate.files
      BY <2>2, <2>7 DEF EvidenceOK
    <3>2. /\ l.body = l.actor.name.body /\ l.files = l.actor.name.files
          /\ l \in Launches
      BY <1>1 DEF IInv, LaunchesOK, TypeOK
    <3>3. l.actor.name = t.name
      BY <2>7 DEF Validator
    <3> QED
      BY <2>3, <3>1, <3>2, <3>3
  <2>9. l = [actor |-> Validator(t), body |-> t.name.body, files |-> t.name.files,
             candidate |-> t.outputs]
    BY <2>7, <2>8 DEF Launches
  <2> QED
    BY <2>4, <2>5, <2>6, <2>9
<1> QED
  BY <1>1, Invariance, PTL

\* All a step can do to the stored state: start a next revision, or change
\* attempts within the present one, never an identity or a success.
LEMMA StoredStateSteps ==
  ASSUME IInv, [Next]_vars
  PROVE  \/ db' = db
         \/ /\ wanted = {} /\ Settled(db)
            /\ db'.plan # db.plan
            /\ db.plan = NoPlan \/ db'.plan.revision = db.plan.revision + 1
         \/ /\ db'.plan = db.plan
            /\ \A n \in Node : Present(db, n) =>
                 /\ Present(db', n) /\ db'.attempts[n].name = db.attempts[n].name
                 /\ db.attempts[n].phase = "succeeded" => db'.attempts[n] = db.attempts[n]
<1> DEFINE Kept(s) ==
             /\ s.plan = db.plan
             /\ \A n \in Node : Present(db, n) =>
                  /\ Present(s, n) /\ s.attempts[n].name = db.attempts[n].name
                  /\ db.attempts[n].phase = "succeeded" => s.attempts[n] = db.attempts[n]
<1>0. db \in State /\ StateOK(db)
  BY DEF IInv, TypeOK
<1>1. ASSUME NEW o \in Operator, pc[o] \in {"saveNew", "save"}, db' = mem[o]
      PROVE  Kept(db')
  <2> DEFINE n == Cur(o)
  <2>1. pc[o] \in AtTask
    BY <1>1 DEF AtTask
  <2>2. /\ n \in Node /\ CurAttempt(o) # NoAttempt
        /\ mem[o] = [db EXCEPT !.attempts[n] = CurAttempt(o)]
        /\ UpdateOK(db.attempts[n], CurAttempt(o), wanted)
    BY <2>1, <1>1, CurrentFacts DEF IInv, CopyOK
  <2>3. /\ mem[o].plan = db.plan /\ mem[o].attempts[n] = CurAttempt(o)
        /\ \A m \in Node : m # n => mem[o].attempts[m] = db.attempts[m]
    BY <2>2, <1>0 DEF State
  <2> QED
    BY <1>1, <2>2, <2>3 DEF UpdateOK, Present
<1>2. ASSUME NEW o \in Operator, PauseSave(o)
      PROVE  Kept(db')
  <2>1. db' = [db EXCEPT !.paused = TRUE]
    BY <1>2 DEF PauseSave, IInv, CopyOK
  <2>2. db'.plan = db.plan /\ db'.attempts = db.attempts
    BY <2>1, <1>0, PausedOK
  <2> QED
    BY <2>2 DEF Present
<1>3. ASSUME NEW o \in Operator, Commit(o)
      PROVE  \/ db' = db
             \/ /\ wanted = {} /\ Settled(db)
                /\ db'.plan # db.plan
                /\ db.plan = NoPlan \/ db'.plan.revision = db.plan.revision + 1
             \/ Kept(db')
  <2>1. pc[o] = "commit" /\ db' = mem[o]
    BY <1>3 DEF Commit
  <2>2. CASE mem[o] = db
    BY <2>1, <2>2
  <2>3. CASE Settled(db) /\ mem[o] = Resumed(db)
    <3>1. /\ Resumed(db).plan = db.plan
          /\ \A n \in Node : /\ Resumed(db).attempts[n] = NoAttempt <=> db.attempts[n] = NoAttempt
                             /\ db.attempts[n] # NoAttempt =>
                                  Resumed(db).attempts[n].name = db.attempts[n].name
      BY <1>0, ResumedOK
    <3>2. \A n \in Node : db.attempts[n].phase = "succeeded" =>
            Resumed(db).attempts[n] = db.attempts[n]
      BY <1>0 DEF Resumed, State
    <3> QED
      BY <2>1, <2>3, <3>1, <3>2 DEF Present
  <2>4. ASSUME Settled(db), NEW p \in Plans, mem[o] = Applied(db, p), mem[o] # db,
               db.plan \in {p, NoPlan} \/ p.revision = db.plan.revision + 1
        PROVE  /\ wanted = {} /\ Settled(db)
               /\ db'.plan # db.plan
               /\ db.plan = NoPlan \/ db'.plan.revision = db.plan.revision + 1
    <3>1. db.plan # p
      BY <2>4 DEF Applied
    <3>2. db'.plan = p
      BY <2>1, <2>4, <3>1 DEF Applied, NoState
    <3> QED
      BY <2>4, <3>1, <3>2, SettledIsQuiet
  <2> QED
    BY <2>1, <2>2, <2>3, <2>4 DEF IInv, CopyOK
<1>4. ASSUME NEW o \in Operator, Tick(o)
      PROVE  db' = db \/ Kept(db')
  <2>1. CASE SaveNew(o) \/ Save(o)
    BY <2>1, <1>1 DEF SaveNew, Save
  <2>2. CASE ~ (SaveNew(o) \/ Save(o))
    BY <1>4, <2>2 DEF Tick, VisitLast, VisitWaiting, VisitNew, VisitAttempt, Ensure, Start,
                      Pending, ReadNothing, Read, Stop, Observe, NoActor
  <2> QED
    BY <2>1, <2>2
<1>5. ASSUME NEW o \in Operator, Begin(o) \/ PauseTask(o) \/ PauseEnd(o)
                                 \/ Fail(o) \/ Crash(o) \/ Recover(o)
      PROVE  db' = db
  BY <1>5 DEF Begin, BeginApply, BeginResume, BeginSuspend, BeginRun, Enter,
              PauseTask, PauseEnd, Fail, Crash, Recover
<1>6. CASE UNCHANGED vars
  BY <1>6 DEF vars
<1> QED
  BY <1>2, <1>3, <1>4, <1>5, <1>6 DEF Next, Pause, Overwrite, Converge, Finish

\* A plan is only ever replaced by its next revision, and then no actor of
\* the old one has the order to run.
THEOREM QuietRevisions == Spec => RevisionStartsQuiet
<1>1. IInv /\ [Next]_vars =>
        [db.plan # NoPlan /\ db'.plan # db.plan =>
           db'.plan.revision = db.plan.revision + 1 /\ wanted = {}]_db
  BY StoredStateSteps
<1> QED
  BY <1>1, Invariance, PTL DEF Spec, RevisionStartsQuiet

\* Within a revision identities and adopted results are permanent, over
\* lost replies, crashes, suspensions and resumptions.
THEOREM PermanentAttempts == Spec => AttemptsArePermanent
<1>1. IInv /\ [Next]_vars =>
        [db'.plan = db.plan =>
           \A n \in Node : Present(db, n) =>
             /\ Present(db', n) /\ db'.attempts[n].name = db.attempts[n].name
             /\ db.attempts[n].phase = "succeeded" => db'.attempts[n] = db.attempts[n]]_db
  BY StoredStateSteps
<1> QED
  BY <1>1, Invariance, PTL DEF Spec, AttemptsArePermanent
=============================================================================
