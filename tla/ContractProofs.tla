--------------------------- MODULE ContractProofs ----------------------------
(***************************************************************************)
(* What becomes of a graph over its plans, for every set of plans,         *)
(* operators and values.  First, the results outside the impact of a new   *)
(* plan: Impact repeats one step as often as the plan has tasks, and ends  *)
(* in a set that is closed under "takes inputs from"; Heritage links the   *)
(* attempts of a revision to the results it started with.  Second, the     *)
(* contract: what an invocation is about to store (Moving) makes each step *)
(* of the engine one of GraphContract, or none.  Third, what the ends of   *)
(* runs rest on: each write is one phase on (Staged), and until a plan is  *)
(* at its end there is a task that can go on.                              *)
(***************************************************************************)
EXTENDS TaskGraphProofs, FiniteSetTheorems

-----------------------------------------------------------------------------
(* Natural numbers: induction over a set of them, so that no theorem with  *)
(* an operator for its parameter is needed                                 *)

\* A nonempty set of natural numbers has a least member.
LEMMA LeastMember ==
  ASSUME NEW S, S \subseteq Nat, S # {}
  PROVE  \E m \in S : \A k \in S : m <= k
<1>1. PICK m \in S : \A k \in S : ~ (<<k, m>> \in OpToRel(<, Nat))
  BY NatLessThanWellFounded, WFMin
<1>2. ASSUME NEW k \in S
      PROVE  m <= k
  <2>1. <<k, m>> \in Nat \X Nat
    OBVIOUS
  <2>2. ~ (k < m)
    BY <1>1, <2>1 DEF OpToRel
  <2> QED
    BY <2>2
<1> QED
  BY <1>2

\* A set that holds 0 and with every number the next one holds them all.
LEMMA SetInduction ==
  ASSUME NEW S, 0 \in S, \A n \in Nat : n \in S => n + 1 \in S
  PROVE  Nat \subseteq S
<1>1. SUFFICES ASSUME Nat \ S # {}
               PROVE  FALSE
  OBVIOUS
<1>2. PICK m \in Nat \ S : \A k \in Nat \ S : m <= k
  BY <1>1, LeastMember
<1>3. m # 0 /\ m - 1 \in Nat /\ m - 1 \in S
  BY <1>2
<1> QED
  BY <1>2, <1>3

-----------------------------------------------------------------------------
(* Impact: one step of it, its repetition, and where that ends *)

\* What is affected once the tasks in S are.
Spread(next, S) == S \cup {n \in Tasks(next) : next.inputs[n] \cap S # {}}

\* f is the chain of the first m repetitions.
Chained(f, old, next, m) ==
  f = [i \in 0 .. m |-> IF i = 0 THEN Changed(old, next) ELSE Spread(next, f[i - 1])]

\* There is a chain of any length.
LEMMA ChainExists ==
  ASSUME NEW old, NEW next
  PROVE  \A m \in Nat : \E f : Chained(f, old, next, m)
<1> DEFINE S == {m \in Nat : \E f : Chained(f, old, next, m)}
           base == [i \in 0 .. 0 |-> Changed(old, next)]
<1>1. 0 \in S
  <2>1. Chained(base, old, next, 0)
    BY DEF Chained
  <2> QED
    BY <2>1
<1>2. ASSUME NEW m \in Nat, m \in S
      PROVE  m + 1 \in S
  <2>1. PICK f : Chained(f, old, next, m)
    BY <1>2
  <2> DEFINE g == [i \in 0 .. (m + 1) |-> IF i = m + 1 THEN Spread(next, f[m]) ELSE f[i]]
  <2>2. f = [i \in 0 .. m |-> IF i = 0 THEN Changed(old, next) ELSE Spread(next, f[i - 1])]
    BY <2>1 DEF Chained
  <2>3. \A i \in 0 .. (m + 1) :
          g[i] = IF i = 0 THEN Changed(old, next) ELSE Spread(next, g[i - 1])
    <3> SUFFICES ASSUME NEW i \in 0 .. (m + 1)
                 PROVE  g[i] = IF i = 0 THEN Changed(old, next) ELSE Spread(next, g[i - 1])
      OBVIOUS
    <3>1. CASE i = m + 1
      <4>1. g[i] = Spread(next, f[m]) /\ i # 0 /\ i - 1 = m /\ m \in 0 .. (m + 1) /\ m # m + 1
        BY <3>1
      <4>2. g[m] = f[m]
        BY <4>1
      <4> QED
        BY <4>1, <4>2
    <3>2. CASE i # m + 1
      <4>1. i \in 0 .. m /\ g[i] = f[i]
        BY <3>2
      <4>2. i # 0 => i - 1 \in 0 .. (m + 1) /\ i - 1 # m + 1
        BY <3>2
      <4>3. i # 0 => g[i - 1] = f[i - 1]
        BY <4>2
      <4> HIDE DEF g
      <4> QED
        BY <4>1, <4>3, <2>2
    <3> QED
      BY <3>1, <3>2
  <2>4. Chained(g, old, next, m + 1)
    <3> DEFINE h == [i \in 0 .. (m + 1) |->
                       IF i = 0 THEN Changed(old, next) ELSE Spread(next, g[i - 1])]
    <3>1. g = [i \in 0 .. (m + 1) |-> g[i]]
      OBVIOUS
    <3> HIDE DEF g
    <3>2. g = h
      BY <3>1, <2>3
    <3> QED
      BY <3>2 DEF Chained
  <2> HIDE DEF g
  <2> QED
    BY <2>4
<1> HIDE DEF S
<1>3. Nat \subseteq S
  BY <1>1, <1>2, SetInduction
<1> QED
  BY <1>3 DEF S

\* Impact is the last member of the chain that is as long as the plan.
LEMMA ImpactIsChained ==
  ASSUME NEW old, NEW next, Len(next.tasks) \in Nat
  PROVE  \E f : Chained(f, old, next, Len(next.tasks))
                  /\ Impact(old, next) = f[Len(next.tasks)]
<1>1. \E f : Chained(f, old, next, Len(next.tasks))
  BY ChainExists
<1> QED
  BY <1>1 DEF Impact, Chained, Spread

\* The members of a chain: it starts with what is changed and only grows,
\* within the tasks of the plan.
LEMMA ChainSteps ==
  ASSUME NEW old, NEW next, NEW m \in Nat, NEW f, Chained(f, old, next, m)
  PROVE  /\ f[0] = Changed(old, next)
         /\ \A i \in Nat : i + 1 <= m => f[i + 1] = Spread(next, f[i])
<1>1. f = [i \in 0 .. m |-> IF i = 0 THEN Changed(old, next) ELSE Spread(next, f[i - 1])]
  BY DEF Chained
<1>2. f[0] = Changed(old, next)
  BY <1>1
<1>3. ASSUME NEW i \in Nat, i + 1 <= m
      PROVE  f[i + 1] = Spread(next, f[i])
  <2>1. i + 1 \in 0 .. m /\ i + 1 # 0 /\ (i + 1) - 1 = i
    BY <1>3
  <2> QED
    BY <2>1, <1>1
<1> QED
  BY <1>2, <1>3

\* A plan has no more tasks than places in its list.
LEMMA TasksCounted ==
  ASSUME NEW p \in Plans
  PROVE  /\ Len(p.tasks) \in Nat /\ IsFiniteSet(Tasks(p))
         /\ Cardinality(Tasks(p)) \in Nat /\ Cardinality(Tasks(p)) <= Len(p.tasks)
<1> DEFINE N == Len(p.tasks)
<1>1. p.tasks \in Seq(Node) /\ N \in Nat /\ DOMAIN p.tasks = 1 .. N
  BY PlanFacts
<1>2. p.tasks \in Surjection(1 .. N, Tasks(p))
  BY <1>1 DEF Surjection, Tasks
<1>3. IsFiniteSet(1 .. N) /\ Cardinality(1 .. N) = N
  BY <1>1, FS_Interval
<1>4. IsFiniteSet(Tasks(p)) /\ Cardinality(Tasks(p)) <= N
  BY <1>2, <1>3, FS_Surjection
<1> QED
  BY <1>1, <1>4, FS_CardinalityType

\* The impact of a plan holds what is changed, and a task that takes inputs
\* from the impact is in it.
LEMMA ImpactIsClosed ==
  ASSUME NEW old, NEW next \in Plans
  PROVE  /\ Changed(old, next) \subseteq Impact(old, next)
         /\ \A n \in Tasks(next) :
              n \notin Impact(old, next) => next.inputs[n] \cap Impact(old, next) = {}
<1> DEFINE N == Len(next.tasks)
           T == Tasks(next)
           Closed(S) == Spread(next, S) = S
<1>1. /\ N \in Nat /\ IsFiniteSet(T) /\ Cardinality(T) \in Nat /\ Cardinality(T) <= N
  BY TasksCounted
<1>2. PICK f : Chained(f, old, next, N) /\ Impact(old, next) = f[N]
  BY <1>1, ImpactIsChained
<1> HIDE DEF N
<1>3. /\ f[0] = Changed(old, next)
      /\ \A i \in Nat : i + 1 <= N => f[i + 1] = Spread(next, f[i])
  BY <1>1, <1>2, ChainSteps
<1> DEFINE S == {i \in Nat : i <= N =>
                   /\ Changed(old, next) \subseteq f[i] /\ f[i] \subseteq T
                   /\ Closed(f[i]) \/ Cardinality(f[i]) >= i}
<1>4. 0 \in S
  <2>1. f[0] \subseteq T
    BY <1>3 DEF Changed
  <2>2. Cardinality(f[0]) \in Nat
    BY <1>1, <2>1, FS_Subset, FS_CardinalityType
  <2> QED
    BY <2>1, <2>2, <1>3
<1>5. ASSUME NEW i \in Nat, i \in S
      PROVE  i + 1 \in S
  <2> SUFFICES ASSUME i + 1 <= N
               PROVE  /\ Changed(old, next) \subseteq f[i + 1] /\ f[i + 1] \subseteq T
                      /\ Closed(f[i + 1]) \/ Cardinality(f[i + 1]) >= i + 1
    OBVIOUS
  <2>1. /\ Changed(old, next) \subseteq f[i] /\ f[i] \subseteq T
        /\ Closed(f[i]) \/ Cardinality(f[i]) >= i
    BY <1>1, <1>5
  <2>2. f[i + 1] = Spread(next, f[i])
    BY <1>3
  <2>3. f[i] \subseteq f[i + 1] /\ f[i + 1] \subseteq T
    BY <2>1, <2>2 DEF Spread
  <2>4. CASE Closed(f[i])
    BY <2>1, <2>2, <2>3, <2>4
  <2>5. CASE ~ Closed(f[i])
    <3>1. f[i] # f[i + 1] /\ Cardinality(f[i]) >= i
      BY <2>1, <2>2, <2>5
    <3>2. IsFiniteSet(f[i]) /\ IsFiniteSet(f[i + 1])
      BY <1>1, <2>1, <2>3, FS_Subset
    <3>3. /\ Cardinality(f[i]) \in Nat /\ Cardinality(f[i + 1]) \in Nat
          /\ Cardinality(f[i]) <= Cardinality(f[i + 1])
          /\ Cardinality(f[i]) # Cardinality(f[i + 1])
      BY <2>3, <3>1, <3>2, FS_Subset, FS_CardinalityType
    <3>4. Cardinality(f[i + 1]) >= i + 1
      BY <3>1, <3>3
    <3> QED
      BY <2>1, <2>3, <3>4
  <2> QED
    BY <2>4, <2>5
<1>6. Nat \subseteq S
  <2> HIDE DEF S
  <2> QED
    BY <1>4, <1>5, SetInduction
<1>7. /\ Changed(old, next) \subseteq f[N] /\ f[N] \subseteq T
      /\ Closed(f[N]) \/ Cardinality(f[N]) >= N
  <2>1. N \in S /\ N <= N
    BY <1>1, <1>6
  <2> QED
    BY <2>1
<1>8. Closed(f[N])
  <2>1. CASE Cardinality(f[N]) >= N
    <3>1. Cardinality(f[N]) \in Nat /\ Cardinality(f[N]) <= Cardinality(T)
      BY <1>1, <1>7, FS_Subset, FS_CardinalityType
    <3>2. Cardinality(f[N]) = Cardinality(T)
      BY <1>1, <2>1, <3>1
    <3>3. f[N] = T
      BY <1>1, <1>7, <3>2, FS_Subset
    <3> QED
      BY <3>3 DEF Spread
  <2> QED
    BY <1>7, <2>1
<1> QED
  BY <1>2, <1>7, <1>8 DEF Spread

\* The code repeats passes over the plan until one adds nothing; whatever their
\* order, that leaves the least set with these properties, as Impact is.
THEOREM ImpactIsLeast ==
  ASSUME NEW old, NEW next \in Plans,
         NEW S, Changed(old, next) \subseteq S,
         \A n \in Tasks(next) : next.inputs[n] \cap S # {} => n \in S
  PROVE  Impact(old, next) \subseteq S
<1>1. Len(next.tasks) \in Nat
  BY TasksCounted
<1>2. PICK f : Chained(f, old, next, Len(next.tasks)) /\ Impact(old, next) = f[Len(next.tasks)]
  BY <1>1, ImpactIsChained
<1>3. /\ f[0] = Changed(old, next)
      /\ \A i \in Nat : i + 1 <= Len(next.tasks) => f[i + 1] = Spread(next, f[i])
  BY <1>1, <1>2, ChainSteps
<1> DEFINE Within == {i \in Nat : i <= Len(next.tasks) => f[i] \subseteq S}
<1>4. 0 \in Within
  BY <1>3
<1>5. ASSUME NEW i \in Nat, i \in Within
      PROVE  i + 1 \in Within
  <2> SUFFICES ASSUME i + 1 <= Len(next.tasks)
               PROVE  f[i + 1] \subseteq S
    OBVIOUS
  <2>1. f[i] \subseteq S
    BY <1>1, <1>5
  <2> QED
    BY <1>3, <2>1 DEF Spread
<1>6. Nat \subseteq Within
  <2> HIDE DEF Within
  <2> QED
    BY <1>4, <1>5, SetInduction
<1> QED
  BY <1>1, <1>2, <1>6

-----------------------------------------------------------------------------
(* Where a revision's results come from *)

\* The inputs of an earlier result are earlier results themselves, and what
\* could be reused when it was visited was reused.
InheritedInputs(s, n) ==
  \A d \in DOMAIN s.previous[n].name.files :
    s.previous[d] # NoAttempt /\ s.previous[n].name.files[d] = s.previous[d].outputs
Inherited(s, n) ==
  Reusable(s, n) => s.attempts[n] = [s.previous[n] EXCEPT !.reused = TRUE]
Heritage(s) ==
  /\ \A n \in Node : s.previous[n] # NoAttempt => InheritedInputs(s, n)
  /\ \A n \in Node : Present(s, n) => Inherited(s, n)

\* The strengthening: it holds of the stored state and of every copy.
HInv == Heritage(db) /\ \A o \in Operator : Heritage(mem[o])

LEMMA EmptyHeritage == Heritage(NoState)
  BY DEF Heritage, NoState, NoAttempts, Present

\* A new attempt is made for a ready task, as a copy of what is reusable, and
\* no success is undone: then a state passes its heritage on.
LEMMA HeritageKept ==
  ASSUME NEW s, NEW u, StateOK(s), Heritage(s), u.plan = s.plan, u.previous = s.previous,
         \A n \in Node : s.attempts[n].phase = "succeeded" => u.attempts[n] = s.attempts[n],
         \A n \in Node : Present(u, n) =>
           \/ Present(s, n)
           \/ n \in Tasks(s.plan) /\ s.plan # NoPlan /\ Ready(s, n) /\ Inherited(u, n)
  PROVE  Heritage(u)
<1>1. \A n \in Node : u.previous[n] # NoAttempt => InheritedInputs(u, n)
  BY DEF Heritage, InheritedInputs
<1>2. ASSUME NEW n \in Node, Present(u, n), Present(s, n)
      PROVE  Inherited(u, n)
  <2>1. s.plan \in Plans /\ n \in Tasks(s.plan) /\ Ready(s, n)
    BY <1>2 DEF StateOK, State, Present, Fits
  <2>2. \A d \in s.plan.inputs[n] : u.attempts[d] = s.attempts[d]
    BY <2>1, PlanFacts DEF Ready
  <2>3. Files(u, n) = Files(s, n)
    BY <2>2 DEF Files
  <2>4. SUFFICES ASSUME Reusable(u, n)
                 PROVE  u.attempts[n] = [u.previous[n] EXCEPT !.reused = TRUE]
    BY DEF Inherited
  <2>5. Reusable(s, n) /\ s.previous[n] # NoAttempt
    BY <2>3, <2>4 DEF Reusable, NoAttempt
  <2>6. s.attempts[n] = [s.previous[n] EXCEPT !.reused = TRUE]
    BY <1>2, <2>5 DEF Heritage, Inherited
  <2>7. s.previous[n] \in Attempt /\ s.previous[n].phase = "succeeded"
    BY <2>5 DEF StateOK, AttemptOK
  <2>8. s.attempts[n].phase = "succeeded"
    BY <2>6, <2>7 DEF Attempt
  <2> QED
    BY <2>6, <2>8
<1> QED
  BY <1>1, <1>2 DEF Heritage

\* Suspension and resumption pass it on.
LEMMA PausedHeritage ==
  ASSUME NEW s, StateOK(s), Heritage(s)
  PROVE  Heritage([s EXCEPT !.paused = TRUE])
<1> DEFINE u == [s EXCEPT !.paused = TRUE]
<1>1. u.plan = s.plan /\ u.previous = s.previous /\ u.attempts = s.attempts
  BY PausedOK
<1> HIDE DEF u
<1>2. Heritage(u)
  BY <1>1, HeritageKept DEF Present
<1> QED
  BY <1>2 DEF u

LEMMA ResumedHeritage ==
  ASSUME NEW s, StateOK(s), Heritage(s)
  PROVE  Heritage(Resumed(s))
<1>1. /\ Resumed(s).plan = s.plan /\ Resumed(s).previous = s.previous
      /\ \A n \in Node : Present(Resumed(s), n) => Present(s, n)
  BY ResumedOK DEF Present
<1>2. \A n \in Node : s.attempts[n].phase = "succeeded" =>
        Resumed(s).attempts[n] = s.attempts[n]
  BY DEF StateOK, State, Resumed
<1> QED
  BY <1>1, <1>2, HeritageKept

\* A new revision starts with the successes of its predecessor, whose inputs
\* were successes.
LEMMA AppliedHeritage ==
  ASSUME NEW s, StateOK(s), Heritage(s), NEW p \in Plans
  PROVE  Heritage(Applied(s, p))
<1>1. CASE s.plan = p
  BY <1>1 DEF Applied
<1>2. CASE s.plan # p
  <2> DEFINE u == Applied(s, p)
  <2>1. /\ \A n \in Node : u.attempts[n] = NoAttempt
        /\ \A n \in Node : u.previous[n] = IF s.attempts[n].phase = "succeeded"
                                             THEN s.attempts[n] ELSE NoAttempt
    BY <1>2 DEF Applied, NoState, NoAttempts
  <2> HIDE DEF u
  <2>2. ASSUME NEW n \in Node, u.previous[n] # NoAttempt
        PROVE  InheritedInputs(u, n)
    <3>1. u.previous[n] = s.attempts[n] /\ s.attempts[n] # NoAttempt
      BY <2>1, <2>2
    <3>2. /\ s.plan \in Plans /\ n \in Tasks(s.plan)
          /\ Ready(s, n) /\ s.attempts[n].name.files = Files(s, n)
      BY <3>1 DEF StateOK, State, Fits
    <3>3. \A d \in s.plan.inputs[n] : /\ d \in Node /\ s.attempts[d].phase = "succeeded"
                                      /\ u.previous[d] = s.attempts[d]
                                      /\ s.attempts[d] # NoAttempt
      BY <3>2, <2>1, PlanFacts DEF Ready, NoAttempt
    <3> QED
      BY <3>1, <3>2, <3>3 DEF InheritedInputs, Files
  <2>3. Heritage(u)
    BY <2>1, <2>2 DEF Heritage, Present
  <2> QED
    BY <2>3 DEF u
<1> QED
  BY <1>1, <1>2

\* So does an update of the attempt an invocation works on.
LEMMA UpdatedHeritage ==
  ASSUME IInv, HInv, NEW o \in Operator, pc[o] \in InSession, Cur(o) \in Node, NEW t,
         mem' = WithAttempt(o, t), CurAttempt(o).phase # "succeeded",
         \/ CurAttempt(o) # NoAttempt
         \/ /\ Cur(o) \in Tasks(mem[o].plan) /\ Ready(mem[o], Cur(o))
            /\ Reusable(mem[o], Cur(o)) =>
                 t = [mem[o].previous[Cur(o)] EXCEPT !.reused = TRUE]
  PROVE  \A q \in Operator : Heritage(mem'[q])
<1> DEFINE n == Cur(o)
           s == mem[o]
           u == [s EXCEPT !.attempts[n] = t]
<1>1. /\ StateOK(s) /\ s \in State /\ s.plan \in Plans /\ s.plan # NoPlan
      /\ mem \in [Operator -> State] /\ Heritage(s) /\ n \in Node
  BY CopyFacts DEF IInv, TypeOK, HInv
<1>2. mem'[o] = u /\ \A q \in Operator : q # o => mem'[q] = mem[q]
  BY <1>1 DEF WithAttempt
<1>3. /\ u.plan = s.plan /\ u.previous = s.previous /\ u.attempts[n] = t
      /\ \A m \in Node : m # n => u.attempts[m] = s.attempts[m]
  BY <1>1 DEF State
<1>4. s.attempts[n].phase # "succeeded"
  BY DEF CurAttempt
<1>5. \A m \in Node : Present(u, m) =>
        \/ Present(s, m)
        \/ m \in Tasks(s.plan) /\ s.plan # NoPlan /\ Ready(s, m) /\ Inherited(u, m)
  <2> SUFFICES ASSUME NEW m \in Node, Present(u, m), ~ Present(s, m)
               PROVE  m \in Tasks(s.plan) /\ s.plan # NoPlan /\ Ready(s, m) /\ Inherited(u, m)
    OBVIOUS
  <2>1. m = n /\ CurAttempt(o) = NoAttempt
    BY <1>3 DEF Present, CurAttempt
  <2>2. n \in Tasks(s.plan) /\ Ready(s, n)
    BY <2>1
  <2>3. \A d \in s.plan.inputs[n] : d \in Node /\ d # n
    BY <1>1, <1>4, <2>2, PlanFacts DEF Ready
  <2>4. \A d \in s.plan.inputs[n] : u.attempts[d] = s.attempts[d]
    BY <1>3, <2>3
  <2>5. Files(u, n) = Files(s, n)
    BY <1>3, <2>4 DEF Files
  <2>6. Reusable(u, n) => Reusable(s, n)
    BY <1>3, <2>5 DEF Reusable
  <2> HIDE DEF u, s, n
  <2>7. Inherited(u, n)
    BY <1>3, <2>1, <2>6 DEF Inherited, s, n
  <2> QED
    BY <1>1, <2>1, <2>2, <2>7
<1> HIDE DEF u
<1>6. Heritage(u)
  BY <1>1, <1>3, <1>4, <1>5, HeritageKept
<1> QED
  BY <1>2, <1>6 DEF HInv

\* A command begins with a state that has its heritage.
LEMMA BeginHeritage ==
  ASSUME IInv, HInv, NEW o \in Operator, Begin(o)
  PROVE  \A q \in Operator : Heritage(mem'[q])
<1>1. StateOK(db) /\ Heritage(db) /\ mem \in [Operator -> State]
  BY DEF IInv, TypeOK, HInv
<1>2. ASSUME NEW s, Heritage(s), mem' = [mem EXCEPT ![o] = s]
      PROVE  \A q \in Operator : Heritage(mem'[q])
  BY <1>1, <1>2 DEF HInv
<1>3. CASE BeginResume(o)
  BY <1>1, <1>2, <1>3, ResumedHeritage DEF BeginResume, Enter
<1>4. CASE BeginSuspend(o)
  BY <1>1, <1>2, <1>4, PausedHeritage DEF BeginSuspend, Enter
<1>5. CASE BeginRun(o)
  BY <1>1, <1>2, <1>5 DEF BeginRun, Enter
<1>6. ASSUME NEW p \in Plans, BeginApply(o, p)
      PROVE  \A q \in Operator : Heritage(mem'[q])
  BY <1>1, <1>2, <1>6, AppliedHeritage DEF BeginApply, Enter
<1> QED
  BY <1>3, <1>4, <1>5, <1>6 DEF Begin

\* A visited task without an attempt is given its predecessor's result if
\* that can be reused.
LEMMA VisitNewHeritage ==
  ASSUME IInv, HInv, NEW o \in Operator, VisitNew(o)
  PROVE  \A q \in Operator : Heritage(mem'[q])
<1> DEFINE n == Cur(o)
           t == IF Reusable(mem[o], n) THEN [mem[o].previous[n] EXCEPT !.reused = TRUE]
                ELSE NewAttempt(mem[o].plan, n, Files(mem[o], n))
<1>1. /\ pc[o] \in InSession /\ n \in Node /\ n \in Tasks(mem[o].plan)
      /\ Ready(mem[o], n) /\ CurAttempt(o) = NoAttempt
  BY VisitFacts DEF VisitNew
<1>2. mem' = WithAttempt(o, t)
  BY DEF VisitNew
<1>3. CurAttempt(o).phase # "succeeded"
  BY <1>1 DEF NoAttempt
<1>4. Reusable(mem[o], n) => t = [mem[o].previous[n] EXCEPT !.reused = TRUE]
  OBVIOUS
<1> HIDE DEF t
<1> QED
  BY <1>1, <1>2, <1>3, <1>4, UpdatedHeritage

\* The calls that move a live attempt on.
LEMMA AttemptHeritage ==
  ASSUME IInv, HInv, NEW o \in Operator, Start(o) \/ Read(o) \/ Observe(o), mem' # mem
  PROVE  \A q \in Operator : Heritage(mem'[q])
<1>1. pc[o] \in {"start", "read", "observe"} /\ pc[o] \in AtTask
  BY DEF Start, Read, Observe, AtTask
<1>2. /\ pc[o] \in InSession /\ Cur(o) \in Node /\ CurAttempt(o) # NoAttempt
      /\ CurAttempt(o).phase # "succeeded"
  BY <1>1, CurrentFacts DEF IInv, CursorOK, Terminal
<1>3. \E t : mem' = WithAttempt(o, t)
  BY DEF Start, Read, Observe
<1> QED
  BY <1>2, <1>3, UpdatedHeritage

\* The strengthening is inductive, given the invariant.
LEMMA HeritageNext == IInv /\ HInv /\ [Next]_vars => HInv'
<1> SUFFICES ASSUME IInv, HInv, [Next]_vars PROVE HInv'
  OBVIOUS
<1>0. mem \in [Operator -> State] /\ Heritage(NoState)
  BY EmptyHeritage DEF IInv, TypeOK
<1>1. Heritage(db')
  <2>1. ASSUME NEW o \in Operator, Commit(o) \/ Tick(o) \/ Pause(o)
        PROVE  db' = db \/ db' = mem[o]
    <3>1. CASE Commit(o) \/ SaveNew(o) \/ Save(o) \/ PauseSave(o)
      BY <3>1 DEF Commit, SaveNew, Save, PauseSave
    <3>2. CASE VisitLast(o) \/ VisitWaiting(o) \/ VisitNew(o) \/ VisitAttempt(o) \/ Ensure(o)
      BY <3>2 DEF VisitLast, VisitWaiting, VisitNew, VisitAttempt, Ensure
    <3>3. CASE Start(o) \/ Pending(o) \/ ReadNothing(o) \/ Read(o) \/ Stop(o)
      BY <3>3 DEF Start, Pending, ReadNothing, Read, Stop
    <3>4. CASE Observe(o) \/ NoActor(o) \/ PauseTask(o) \/ PauseEnd(o)
      BY <3>4 DEF Observe, NoActor, PauseTask, PauseEnd
    <3> QED
      BY <2>1, <3>1, <3>2, <3>3, <3>4 DEF Tick, Pause
  <2>2. ASSUME NEW o \in Operator, Begin(o) \/ Fail(o) \/ Crash(o) \/ Recover(o)
        PROVE  db' = db
    BY <2>2 DEF Begin, BeginApply, BeginResume, BeginSuspend, BeginRun, Enter,
                Fail, Crash, Recover
  <2>3. db' = db \/ \E o \in Operator : db' = mem[o]
    BY <2>1, <2>2 DEF Next, Overwrite, Converge, Finish, vars
  <2> QED
    BY <2>3 DEF HInv
<1>2. \A q \in Operator : Heritage(mem'[q])
  <2>1. ASSUME mem' = mem
        PROVE  \A q \in Operator : Heritage(mem'[q])
    BY <2>1 DEF HInv
  <2>2. ASSUME NEW o \in Operator, mem' = [mem EXCEPT ![o] = NoState]
        PROVE  \A q \in Operator : Heritage(mem'[q])
    BY <1>0, <2>2 DEF HInv
  <2>3. ASSUME NEW o \in Operator, Commit(o) \/ Fail(o) \/ Crash(o)
        PROVE  \A q \in Operator : Heritage(mem'[q])
    BY <2>2, <2>3 DEF Commit, Fail, Crash, Return
  <2>4. ASSUME NEW o \in Operator, Tick(o)
        PROVE  \A q \in Operator : Heritage(mem'[q])
    <3>1. CASE VisitNew(o)
      BY <3>1, VisitNewHeritage
    <3>2. CASE Start(o) \/ Read(o) \/ Observe(o)
      BY <3>2, <2>1, AttemptHeritage
    <3>3. CASE VisitLast(o) \/ Pending(o) \/ NoActor(o) \/ Ensure(o) \/ Stop(o)
      BY <3>3, <2>1, <2>2 DEF VisitLast, Pending, NoActor, Ensure, Stop, Return
    <3>4. CASE VisitWaiting(o) \/ VisitAttempt(o) \/ SaveNew(o) \/ ReadNothing(o) \/ Save(o)
      BY <3>4, <2>1 DEF VisitWaiting, VisitAttempt, SaveNew, ReadNothing, Save
    <3> QED
      BY <2>4, <3>1, <3>2, <3>3, <3>4 DEF Tick
  <2>5. ASSUME NEW o \in Operator, Pause(o)
        PROVE  \A q \in Operator : Heritage(mem'[q])
    <3>1. mem' = mem \/ mem' = [mem EXCEPT ![o] = NoState]
      BY <2>5 DEF Pause, PauseSave, PauseTask, PauseEnd, Return
    <3> QED
      BY <3>1, <2>1, <2>2
  <2>6. ASSUME NEW o \in Operator, Recover(o)
        PROVE  mem' = mem
    BY <2>6 DEF Recover
  <2>7. ASSUME NEW k, Overwrite(k) \/ Converge(k) \/ (\E r \in Outcome(k) : Finish(k, r))
        PROVE  mem' = mem
    BY <2>7 DEF Overwrite, Converge, Finish, session
  <2>8. UNCHANGED vars => mem' = mem
    BY DEF vars, session
  <2> QED
    BY <2>1, <2>3, <2>4, <2>5, <2>6, <2>7, <2>8, BeginHeritage DEF Next
<1> QED
  BY <1>1, <1>2 DEF HInv

LEMMA InitHeritage == Init => HInv
  BY EmptyHeritage DEF Init, HInv

\* Every state, stored or copied, links its attempts to the results of the
\* revision before it.
THEOREM ResultsAreInherited == Spec => [](IInv /\ HInv)
<1>1. Init => IInv /\ HInv
  BY InitInvariant, InitHeritage
<1>2. IInv /\ HInv /\ [Next]_vars => (IInv /\ HInv)'
  BY NextInvariant, HeritageNext
<1> QED
  BY <1>1, <1>2, PTL DEF Spec

-----------------------------------------------------------------------------
(* Theorems *)

\* Outside the impact of the plan in force on the plan the earlier results are
\* of, every task that had succeeded has kept its result.  By contradiction:
\* among the tasks that have not, one takes inputs from none of the others.
LEMMA UnaffectedIsReused ==
  ASSUME IInv, HInv, NEW p \in Plans, ResultsOf(p)
  PROVE  \A n \in Node :
           Present(db, n) /\ n \notin Impact(p, db.plan) /\ db.previous[n].phase = "succeeded"
             => db.attempts[n] = [db.previous[n] EXCEPT !.reused = TRUE]
<1> DEFINE q == db.plan
           Lost == {n \in Tasks(q) : /\ n \in Node /\ Present(db, n) /\ n \notin Impact(p, q)
                                     /\ db.previous[n].phase = "succeeded"
                                     /\ db.attempts[n] # [db.previous[n] EXCEPT !.reused = TRUE]}
<1>1. StateOK(db) /\ Heritage(db) /\ db \in State
  BY DEF IInv, HInv, TypeOK
<1>2. \A n \in Node : Present(db, n) =>
        /\ q \in Plans /\ n \in Tasks(q) /\ Ready(db, n)
        /\ \A d \in q.inputs[n] : d \in Node /\ d \in Tasks(q)
  BY <1>1, PlanFacts, PlansAssumption DEF StateOK, State, Present, Fits, ValidPlan
<1>3. ASSUME Lost # {}
      PROVE  FALSE
  <2>1. q \in Plans /\ ValidPlan(q)
    BY <1>2, <1>3, PlanFacts
  <2>2. PICK n \in Lost : q.inputs[n] \cap Lost = {}
    BY <1>3, <2>1 DEF ValidPlan
  <2>3. /\ n \in Node /\ Present(db, n) /\ n \in Tasks(q) /\ n \notin Impact(p, q)
        /\ db.previous[n].phase = "succeeded" /\ db.previous[n] # NoAttempt
    BY DEF NoAttempt
  <2>4. n \notin Changed(p, q) /\ q.inputs[n] \cap Impact(p, q) = {}
    BY <2>1, <2>3, ImpactIsClosed
  <2>5. /\ q.body[n] = p.body[n] /\ q.inputs[n] = p.inputs[n]
        /\ db.previous[n].name.body = p.body[n]
        /\ DOMAIN db.previous[n].name.files = p.inputs[n]
    BY <2>3, <2>4 DEF Changed, ResultsOf
  <2>6. ASSUME NEW d \in q.inputs[n]
        PROVE  db.attempts[d].outputs = db.previous[n].name.files[d]
    <3>1. /\ d \in Node /\ d \in Tasks(q) /\ d \notin Impact(p, q) /\ d \notin Lost
          /\ db.attempts[d].phase = "succeeded"
      BY <1>2, <2>2, <2>3, <2>4, <2>6 DEF Ready
    <3>2. db.previous[d] # NoAttempt /\ db.previous[n].name.files[d] = db.previous[d].outputs
      BY <1>1, <2>3, <2>5 DEF Heritage, InheritedInputs
    <3>3. Present(db, d) /\ db.previous[d].phase = "succeeded" /\ db.previous[d] \in Attempt
      BY <1>1, <3>1, <3>2 DEF Present, NoAttempt, StateOK, AttemptOK
    <3>4. db.attempts[d] = [db.previous[d] EXCEPT !.reused = TRUE]
      BY <3>1, <3>3
    <3>5. db.attempts[d].outputs = db.previous[d].outputs
      BY <3>3, <3>4 DEF Attempt
    <3> QED
      BY <3>2, <3>5
  <2>7. db.previous[n].name.files = Files(db, n)
    <3>1. db.previous[n].name \in Name
      BY <1>1, <2>3 DEF StateOK, AttemptOK, Attempt
    <3>2. db.previous[n].name.files =
            [d \in DOMAIN db.previous[n].name.files |-> db.previous[n].name.files[d]]
      BY <3>1 DEF Name
    <3> QED
      BY <3>2, <2>5, <2>6 DEF Files
  <2>8. Reusable(db, n)
    BY <2>3, <2>5, <2>7 DEF Reusable
  <2>9. db.attempts[n] = [db.previous[n] EXCEPT !.reused = TRUE]
    BY <1>1, <2>3, <2>8 DEF Heritage, Inherited
  <2> QED
    BY <2>9
<1> QED
  BY <1>2, <1>3

\* What `impact' does not list is not run again: under whatever commands,
\* failures and crashes, its result of the revision before stands.
THEOREM ImpactIsComplete == Spec => []ImpactCovers
<1>1. IInv /\ HInv => ImpactCovers
  <2> SUFFICES ASSUME IInv, HInv, NEW p \in Plans, NEW n \in Node, ResultsOf(p),
                      Present(db, n), n \notin Impact(p, db.plan),
                      db.previous[n].phase = "succeeded"
               PROVE  db.attempts[n].reused /\ db.attempts[n].name = db.previous[n].name
    BY DEF ImpactCovers
  <2>1. db.attempts[n] = [db.previous[n] EXCEPT !.reused = TRUE]
    BY UnaffectedIsReused
  <2>2. db.previous[n] \in Attempt
    BY DEF IInv, StateOK, AttemptOK, NoAttempt
  <2> QED
    BY <2>1, <2>2 DEF Attempt
<1> QED
  BY <1>1, ResultsAreInherited, PTL

\* The results a new revision starts with are those of the plan it follows, and
\* they stay as they are until the next one: the impact on that plan is one of
\* those ImpactCovers speaks of.
ResultsFollowPlan ==
  [][/\ db'.plan = db.plan => db'.previous = db.previous
     /\ \A p \in Plans : db.plan = p /\ db'.plan # p => ResultsOf(p)']_db

\* What the commands write: a commit starts a revision from the successes of
\* the plan in force, every other write keeps the earlier results.
LEMMA PreviousSteps ==
  ASSUME IInv, [Next]_vars
  PROVE  \/ db'.plan = db.plan /\ db'.previous = db.previous
         \/ \E q \in Plans : db.plan # q /\ db' = Applied(db, q)
<1>0. db \in State /\ StateOK(db)
  BY DEF IInv, TypeOK
<1>1. ASSUME NEW o \in Operator, Commit(o)
      PROVE  \/ db'.plan = db.plan /\ db'.previous = db.previous
             \/ \E q \in Plans : db.plan # q /\ db' = Applied(db, q)
  <2>1. pc[o] = "commit" /\ db' = mem[o]
    BY <1>1 DEF Commit
  <2>2. \/ mem[o] = db \/ mem[o] = Resumed(db)
        \/ \E q \in Plans : mem[o] = Applied(db, q)
    BY <2>1 DEF IInv, CopyOK
  <2>3. Resumed(db).plan = db.plan /\ Resumed(db).previous = db.previous
    BY <1>0, ResumedOK
  <2>4. ASSUME NEW q \in Plans, mem[o] = Applied(db, q), db.plan = q
        PROVE  db'.plan = db.plan /\ db'.previous = db.previous
    BY <2>1, <2>4 DEF Applied
  <2> QED
    BY <2>1, <2>2, <2>3, <2>4
<1>2. ASSUME NEW o \in Operator, SaveNew(o) \/ Save(o)
      PROVE  db'.plan = db.plan /\ db'.previous = db.previous
  <2>1. db' = [db EXCEPT !.attempts[Cur(o)] = CurAttempt(o)]
    BY <1>2 DEF SaveNew, Save, IInv, CopyOK
  <2> QED
    BY <2>1, <1>0 DEF State
<1>3. ASSUME NEW o \in Operator, PauseSave(o)
      PROVE  db'.plan = db.plan /\ db'.previous = db.previous
  <2>1. db' = [db EXCEPT !.paused = TRUE]
    BY <1>3 DEF PauseSave, IInv, CopyOK
  <2> QED
    BY <2>1, <1>0, PausedOK
<1>4. ASSUME NEW o \in Operator, Tick(o), ~ (SaveNew(o) \/ Save(o))
      PROVE  db' = db
  BY <1>4 DEF Tick, VisitLast, VisitWaiting, VisitNew, VisitAttempt, Ensure, Start,
              Pending, ReadNothing, Read, Stop, Observe, NoActor
<1>5. ASSUME NEW o \in Operator, Begin(o) \/ PauseTask(o) \/ PauseEnd(o)
                                 \/ Fail(o) \/ Crash(o) \/ Recover(o)
      PROVE  db' = db
  BY <1>5 DEF Begin, BeginApply, BeginResume, BeginSuspend, BeginRun, Enter,
              PauseTask, PauseEnd, Fail, Crash, Recover
<1>6. CASE UNCHANGED vars
  BY <1>6 DEF vars
<1> QED
  BY <1>1, <1>2, <1>3, <1>4, <1>5, <1>6 DEF Next, Pause, Overwrite, Converge, Finish

\* A revision inherits exactly the results of its predecessor, as that one's
\* plan defined them, and no write within the revision touches them.
THEOREM PredecessorsResults == Spec => ResultsFollowPlan
<1>1. ASSUME IInv, [Next]_vars, NEW p \in Plans, db.plan = p, db'.plan # p
      PROVE  ResultsOf(p)'
  <2>1. PICK q \in Plans : db.plan # q /\ db' = Applied(db, q)
    BY <1>1, PreviousSteps
  <2>2. \A n \in Node : db'.previous[n] = IF db.attempts[n].phase = "succeeded"
                                            THEN db.attempts[n] ELSE NoAttempt
    BY <2>1 DEF Applied, NoState
  <2>3. ASSUME NEW n \in Node, db'.previous[n].phase = "succeeded"
        PROVE  /\ n \in Tasks(p) /\ db'.previous[n].name.body = p.body[n]
               /\ DOMAIN db'.previous[n].name.files = p.inputs[n]
    <3>1. db'.previous[n] = db.attempts[n] /\ db.attempts[n] # NoAttempt
      BY <2>2, <2>3 DEF NoAttempt
    <3>2. n \in Tasks(p) /\ Fits(db, n, db.attempts[n].name)
      BY <1>1, <3>1 DEF IInv, StateOK
    <3> QED
      BY <1>1, <3>1, <3>2 DEF Fits, Files
  <2> QED
    BY <2>3 DEF ResultsOf
<1>2. ASSUME IInv, [Next]_vars, db'.plan = db.plan
      PROVE  db'.previous = db.previous
  <2>1. ASSUME NEW q \in Plans, db.plan # q, db' = Applied(db, q)
        PROVE  FALSE
    BY <1>2, <2>1 DEF Applied, NoState
  <2> QED
    BY <1>2, <2>1, PreviousSteps
<1>3. IInv /\ [Next]_vars =>
        [/\ db'.plan = db.plan => db'.previous = db.previous
         /\ \A p \in Plans : db.plan = p /\ db'.plan # p => ResultsOf(p)']_db
  BY <1>1, <1>2
<1> QED
  BY <1>3, Invariance, PTL DEF Spec, ResultsFollowPlan

-----------------------------------------------------------------------------
(* What is about to be stored, and what was created, more closely *)

Unsettled(t) == t # NoAttempt /\ t.phase \notin Terminal

\* The one attempt in which a copy that is about to be stored may differ: made
\* anew or reused, moved on, or settled in the way the graph's mark asks for.
Made(o) ==
  /\ ~ db.paused /\ db.attempts[Cur(o)] = NoAttempt /\ ~ Reusable(db, Cur(o))
  /\ Ready(db, Cur(o))
  /\ CurAttempt(o) = NewAttempt(db.plan, Cur(o), Files(db, Cur(o)))
Copied(o) ==
  /\ ~ db.paused /\ db.attempts[Cur(o)] = NoAttempt /\ Reusable(db, Cur(o))
  /\ Ready(db, Cur(o))
  /\ CurAttempt(o) = [db.previous[Cur(o)] EXCEPT !.reused = TRUE]
Settling(o) ==
  CurAttempt(o).phase \in IF db.paused THEN {"suspended"} ELSE {"succeeded", "failed"}
Moving(o) ==
  /\ pc[o] \in {"visit", "start", "read"} => ~ db.paused
  /\ pc[o] = "saveNew" => Made(o)
  /\ pc[o] = "save" =>
       \/ CurAttempt(o) = db.attempts[Cur(o)]
       \/ Copied(o)
       \/ Unsettled(db.attempts[Cur(o)]) /\ (Unsettled(CurAttempt(o)) \/ Settling(o))

\* One Task per name and role.
CreatedOnce == \A k, l \in created : k.actor = l.actor => k = l

MInv == CreatedOnce /\ \A o \in Operator : Moving(o)

LEMMA InitMoves == Init => MInv
  BY DEF Init, MInv, CreatedOnce, Moving

\* Only `Ensure' creates, and not what is there with other contents.
LEMMA CreatedOnceNext ==
  ASSUME IInv, MInv, [Next]_vars
  PROVE  CreatedOnce'
<1>1. ASSUME NEW o \in Operator, Ensure(o)
      PROVE  CreatedOnce'
  <2>1. PICK l : l = Launch(mem[o], Cur(o))
    OBVIOUS
  <2>2. \/ created' = created
        \/ ~ Collides(l) /\ created' = created \cup {l}
    BY <1>1, <2>1 DEF Ensure
  <2> QED
    BY <2>2 DEF MInv, CreatedOnce, Collides
<1>2. ASSUME NEW o \in Operator, Tick(o), ~ Ensure(o)
      PROVE  created' = created
  BY <1>2 DEF Tick, VisitLast, VisitWaiting, VisitNew, VisitAttempt, SaveNew, Start, Pending,
              ReadNothing, Read, Stop, Observe, NoActor, Save, backend, orders
<1>3. ASSUME NEW o \in Operator, Begin(o) \/ Commit(o) \/ Pause(o)
                                 \/ Fail(o) \/ Crash(o) \/ Recover(o)
      PROVE  created' = created
  BY <1>3 DEF Begin, BeginApply, BeginResume, BeginSuspend, BeginRun, Enter, Commit,
              Pause, PauseSave, PauseTask, PauseEnd, Fail, Crash, Recover, backend, orders
<1>4. ASSUME NEW k, Overwrite(k) \/ Converge(k) \/ (\E r \in Outcome(k) : Finish(k, r))
      PROVE  created' = created
  BY <1>4 DEF Overwrite, Converge, Finish
<1>5. UNCHANGED vars => created' = created
  BY DEF vars, backend, orders
<1>6. created' = created => CreatedOnce'
  BY DEF MInv, CreatedOnce
<1> QED
  BY <1>1, <1>2, <1>3, <1>4, <1>5, <1>6 DEF Next

\* A step has to re-establish what concerns its own invocation.
LEMMA MovesOfOne ==
  ASSUME IInv, NEW o \in Operator, pc[o] # "idle" \/ lock = Nobody,
         \A q \in Operator : q # o => pc'[q] = pc[q], Moving(o)'
  PROVE  \A q \in Operator : Moving(q)'
<1>1. \A q \in Operator : q # o => pc'[q] = "idle"
  BY OthersIdle
<1>2. \A q \in Operator : q # o => Moving(q)'
  BY <1>1 DEF Moving
<1> QED
  BY <1>2

\* It has nothing to re-establish when it is not about to visit or to store.
LEMMA MovesElsewhere ==
  ASSUME NEW o \in Operator,
         pc'[o] \notin {"visit", "start", "read", "saveNew", "save"}
                  \/ (pc'[o] \in {"visit", "start", "read"} /\ ~ db'.paused)
  PROVE  Moving(o)'
  BY DEF Moving

\* The ways in which a command begins, ends or is lost.
LEMMA OuterMoves ==
  ASSUME IInv, MInv, NEW o \in Operator,
         Begin(o) \/ Commit(o) \/ Fail(o) \/ Crash(o) \/ Recover(o)
         \/ VisitLast(o) \/ Pending(o) \/ NoActor(o) \/ PauseEnd(o)
  PROVE  \A q \in Operator : Moving(q)'
<1>0. pc \in [Operator -> InSession \cup {"idle", "dead"}]
  BY DEF IInv, TypeOK
<1>1. CASE BeginRun(o)
  <2>1. /\ pc[o] = "idle" /\ lock = Nobody /\ db' = db
        /\ pc' = [pc EXCEPT ![o] = IF db.paused THEN "pauseSave" ELSE "visit"]
    BY <1>1 DEF BeginRun, Enter
  <2>2. Moving(o)'
    BY <1>0, <2>1, MovesElsewhere
  <2> QED
    BY <1>0, <2>1, <2>2, MovesOfOne
<1>2. CASE BeginResume(o) \/ BeginSuspend(o) \/ (\E p \in Plans : BeginApply(o, p))
  <2>1. /\ pc[o] = "idle" /\ lock = Nobody
        /\ \E step \in {"pauseSave", "commit"} : pc' = [pc EXCEPT ![o] = step]
    BY <1>2 DEF BeginResume, BeginSuspend, BeginApply, Enter
  <2>2. Moving(o)'
    BY <1>0, <2>1, MovesElsewhere
  <2> QED
    BY <1>0, <2>1, <2>2, MovesOfOne
<1>3. CASE Commit(o) \/ Fail(o) \/ Crash(o) \/ Recover(o)
           \/ VisitLast(o) \/ Pending(o) \/ NoActor(o) \/ PauseEnd(o)
  <2>1. /\ pc[o] # "idle"
        /\ \E step \in {"idle", "dead"} : pc' = [pc EXCEPT ![o] = step]
    BY <1>3 DEF Commit, Fail, Crash, Recover, VisitLast, Pending, NoActor, PauseEnd,
                Return, Go, InSession
  <2>2. Moving(o)'
    BY <1>0, <2>1, MovesElsewhere
  <2> QED
    BY <1>0, <2>1, <2>2, MovesOfOne
<1> QED
  BY <1>1, <1>2, <1>3 DEF Begin

\* Steps on the way that store nothing next, or what is stored already.
LEMMA InnerMoves ==
  ASSUME IInv, MInv, NEW o \in Operator,
         VisitWaiting(o) \/ VisitAttempt(o) \/ SaveNew(o) \/ Ensure(o) \/ ReadNothing(o)
         \/ Stop(o) \/ Save(o) \/ PauseSave(o) \/ PauseTask(o)
  PROVE  \A q \in Operator : Moving(q)'
<1>0. pc \in [Operator -> InSession \cup {"idle", "dead"}] /\ db \in State
  BY DEF IInv, TypeOK
<1>1. CASE VisitWaiting(o) \/ ReadNothing(o)
  <2>1. /\ pc[o] # "idle" /\ db' = db /\ ~ db.paused
        /\ pc' = [pc EXCEPT ![o] = "visit"]
    BY <1>1 DEF VisitWaiting, ReadNothing, NextTask, Go, MInv, Moving
  <2>2. Moving(o)'
    BY <1>0, <2>1, MovesElsewhere
  <2> QED
    BY <1>0, <2>1, <2>2, MovesOfOne
<1>2. CASE VisitAttempt(o)
  <2>1. /\ pc[o] # "idle" /\ UNCHANGED <<db, mem, at>> /\ ~ db.paused /\ mem[o] = db
        /\ pc' = [pc EXCEPT ![o] = Step(CurAttempt(o).phase)]
    BY <1>2 DEF VisitAttempt, Go, MInv, Moving, IInv, CopyOK
  <2>2. pc'[o] \in {"ensure", "read", "stop", "save"}
    BY <1>0, <2>1 DEF Step
  <2>3. CASE pc'[o] = "save"
    <3>1. CurAttempt(o)' = db'.attempts[Cur(o)']
      BY <2>1 DEF CurAttempt, Cur
    <3>2. Moving(o)'
      BY <2>3, <3>1 DEF Moving
    <3> QED
      BY <1>0, <2>1, <3>2, MovesOfOne
  <2>4. CASE pc'[o] # "save"
    <3>1. Moving(o)'
      BY <2>1, <2>2, <2>4, MovesElsewhere
    <3> QED
      BY <1>0, <2>1, <3>1, MovesOfOne
  <2> QED
    BY <2>3, <2>4
<1>3. CASE SaveNew(o) \/ Stop(o) \/ PauseSave(o) \/ PauseTask(o)
  <2>1. /\ pc[o] # "idle"
        /\ \E step \in {"idle", "ensure", "stop", "observe", "pause"} :
             pc' = [pc EXCEPT ![o] = step]
    <3>1. CASE SaveNew(o) \/ Stop(o) \/ PauseSave(o)
      BY <3>1 DEF SaveNew, Stop, PauseSave, Return, Go
    <3>2. CASE PauseTask(o)
      <4>1. /\ pc[o] = "pause"
            /\ \E i \in todo[o] : \/ UNCHANGED pc \/ Return(o)
                                  \/ Go(o, "ensure") \/ Go(o, "stop")
        BY <3>2 DEF PauseTask
      <4> QED
        BY <1>0, <4>1 DEF Return, Go
    <3> QED
      BY <1>3, <3>1, <3>2
  <2>2. Moving(o)'
    BY <1>0, <2>1, MovesElsewhere
  <2> QED
    BY <1>0, <2>1, <2>2, MovesOfOne
<1>4. CASE Ensure(o)
  <2>1. /\ pc[o] # "idle" /\ db' = db /\ mem[o] = db
        /\ \E step \in {"idle", "stop", "start"} :
             pc' = [pc EXCEPT ![o] = step] /\ (step = "start" => ~ mem[o].paused)
    BY <1>4 DEF Ensure, Return, Go, IInv, CopyOK
  <2>2. Moving(o)'
    BY <1>0, <2>1, MovesElsewhere
  <2> QED
    BY <1>0, <2>1, <2>2, MovesOfOne
<1>5. CASE Save(o)
  <2>1. /\ pc[o] # "idle" /\ db' = mem[o]
        /\ pc' = [pc EXCEPT ![o] = IF mem[o].paused THEN "pause" ELSE "visit"]
    BY <1>5 DEF Save, NextTask, Go
  <2>2. Moving(o)'
    BY <1>0, <2>1, MovesElsewhere
  <2> QED
    BY <1>0, <2>1, <2>2, MovesOfOne
<1> QED
  BY <1>1, <1>2, <1>3, <1>4, <1>5

\* Steps that change the copy's attempt.
LEMMA UpdateMoves ==
  ASSUME IInv, MInv, NEW o \in Operator, VisitNew(o) \/ Start(o) \/ Read(o) \/ Observe(o)
  PROVE  \A q \in Operator : Moving(q)'
<1> DEFINE n == Cur(o)
           old == CurAttempt(o)
<1>0. /\ pc \in [Operator -> InSession \cup {"idle", "dead"}] /\ db \in State
      /\ mem \in [Operator -> State]
  BY DEF IInv, TypeOK
<1>1. /\ pc[o] \in InSession /\ pc[o] # "idle" /\ mem[o] = db /\ db' = db
      /\ pc[o] \in {"visit", "start", "read", "observe"}
  BY DEF VisitNew, Start, Read, Observe, InSession, IInv, CopyOK
<1>2. n \in Node /\ old = db.attempts[n]
  <2>1. CASE VisitNew(o)
    BY <1>1, <2>1, VisitFacts DEF VisitNew, CurAttempt
  <2>2. CASE ~ VisitNew(o)
    <3>1. pc[o] \in AtTask
      BY <2>2 DEF Start, Read, Observe, AtTask
    <3> QED
      BY <1>1, <3>1, CurrentFacts DEF CurAttempt
  <2> QED
    BY <2>1, <2>2
<1>3. ASSUME NEW t, mem' = WithAttempt(o, t), at' = at
      PROVE  Cur(o)' = n /\ CurAttempt(o)' = t
  <2>1. mem'[o] = [mem[o] EXCEPT !.attempts[n] = t]
    BY <1>0, <1>3 DEF WithAttempt
  <2>2. mem'[o].plan = mem[o].plan /\ mem'[o].attempts[n] = t
    BY <1>0, <1>1, <1>2, <2>1 DEF State
  <2>3. Cur(o)' = n
    BY <1>3, <2>2 DEF Cur
  <2> QED
    BY <2>2, <2>3 DEF CurAttempt
<1> HIDE DEF n, old
<1>4. CASE VisitNew(o)
  <2>1. /\ at' = at /\ ~ db.paused /\ old = NoAttempt /\ Ready(db, n)
    BY <1>1, <1>4 DEF VisitNew, MInv, Moving, old, n
  <2>2. CASE Reusable(db, n)
    <3>1. /\ mem' = WithAttempt(o, [db.previous[n] EXCEPT !.reused = TRUE])
          /\ pc' = [pc EXCEPT ![o] = "save"]
      BY <1>1, <1>4, <2>2 DEF VisitNew, Go, n
    <3>2. Cur(o)' = n /\ CurAttempt(o)' = [db.previous[n] EXCEPT !.reused = TRUE]
      BY <2>1, <3>1, <1>3
    <3>3. Moving(o)'
      BY <1>0, <1>1, <1>2, <2>1, <2>2, <3>1, <3>2 DEF Moving, Copied
    <3> QED
      BY <1>0, <1>1, <3>1, <3>3, MovesOfOne
  <2>3. CASE ~ Reusable(db, n)
    <3>1. /\ mem' = WithAttempt(o, NewAttempt(db.plan, n, Files(db, n)))
          /\ pc' = [pc EXCEPT ![o] = "saveNew"]
      BY <1>1, <1>4, <2>3 DEF VisitNew, Go, n
    <3>2. Cur(o)' = n /\ CurAttempt(o)' = NewAttempt(db.plan, n, Files(db, n))
      BY <2>1, <3>1, <1>3
    <3>3. Moving(o)'
      BY <1>0, <1>1, <1>2, <2>1, <2>3, <3>1, <3>2 DEF Moving, Made
    <3> QED
      BY <1>0, <1>1, <3>1, <3>3, MovesOfOne
  <2> QED
    BY <2>2, <2>3
<1>5. CASE Start(o) \/ Read(o) \/ Observe(o)
  <2>0. Unsettled(old) /\ AttemptOK(old)
    <3>1. pc[o] \in AtTask /\ pc[o] \in {"start", "read", "observe"}
      BY <1>5 DEF Start, Read, Observe, AtTask
    <3>2. old # NoAttempt /\ AttemptOK(old)
      BY <3>1, CurrentFacts DEF old
    <3>3. old.phase \notin Terminal
      BY <3>1 DEF IInv, CursorOK, Terminal, old
    <3> QED
      BY <3>2, <3>3 DEF Unsettled
  <2>1. ASSUME NEW t, mem' = WithAttempt(o, t), at' = at, pc' = [pc EXCEPT ![o] = "save"],
               Unsettled(t)
                 \/ t.phase \in IF db.paused THEN {"suspended"} ELSE {"succeeded", "failed"}
        PROVE  \A q \in Operator : Moving(q)'
    <3>1. Cur(o)' = n /\ CurAttempt(o)' = t
      BY <2>1, <1>3
    <3>2. Moving(o)'
      BY <1>0, <1>1, <1>2, <2>0, <2>1, <3>1 DEF Moving, Settling, Unsettled
    <3> QED
      BY <1>0, <1>1, <2>1, <3>2, MovesOfOne
  <2>2. CASE Start(o)
    <3>1. CASE old.phase = "starting"
      <4>1. Unsettled([old EXCEPT !.phase = "running"])
        BY <2>0 DEF Unsettled, AttemptOK, Attempt, NoAttempt, Terminal
      <4> QED
        BY <2>1, <2>2, <3>1, <4>1 DEF Start, Go, old
    <3>2. CASE old.phase # "starting"
      <4>1. ~ db.paused /\ pc' = [pc EXCEPT ![o] = "read"]
        BY <2>2, <3>2 DEF Start, Go, MInv, Moving, old
      <4>2. Moving(o)'
        BY <1>0, <1>1, <4>1, MovesElsewhere
      <4> QED
        BY <1>0, <1>1, <4>1, <4>2, MovesOfOne
    <3> QED
      BY <3>1, <3>2
  <2>3. CASE Read(o)
    <3>1. PICK r \in receipt :
            mem' = WithAttempt(o,
              IF old.phase = "running"
                THEN [old EXCEPT !.candidate = r.result, !.phase = "stopping"]
                ELSE [old EXCEPT !.validation = r.result, !.phase = "validation-stopping"])
      BY <2>3 DEF Read, old
    <3>2. /\ Unsettled([old EXCEPT !.candidate = r.result, !.phase = "stopping"])
          /\ Unsettled([old EXCEPT !.validation = r.result, !.phase = "validation-stopping"])
      BY <2>0 DEF Unsettled, AttemptOK, Attempt, NoAttempt, Terminal
    <3>3. at' = at /\ pc' = [pc EXCEPT ![o] = "save"]
      BY <2>3 DEF Read, Go
    <3> QED
      BY <2>1, <3>1, <3>2, <3>3
  <2>4. CASE Observe(o) /\ Target(old) \notin running
    <3> DEFINE t == IF db.paused THEN [old EXCEPT !.phase = "suspended"] ELSE Stopped(old)
    <3>1. mem' = WithAttempt(o, t) /\ at' = at /\ pc' = [pc EXCEPT ![o] = "save"]
      BY <1>1, <2>4 DEF Observe, Go, old
    <3>2. Unsettled(t) \/ t.phase \in IF db.paused THEN {"suspended"} ELSE {"succeeded", "failed"}
      BY <2>0 DEF Stopped, Unsettled, AttemptOK, Attempt, NoAttempt, Terminal
    <3> HIDE DEF t
    <3> QED
      BY <2>1, <3>1, <3>2
  <2>5. CASE Observe(o) /\ Target(old) \in running
    <3>1. /\ mem' = mem
          /\ \/ db.paused /\ pc' = [pc EXCEPT ![o] = "save"] /\ at' = at
             \/ ~ db.paused /\ pc' = [pc EXCEPT ![o] = "visit"]
      BY <1>1, <2>5 DEF Observe, Go, NextTask, old
    <3>2. CASE db.paused
      <4>1. CurAttempt(o)' = db'.attempts[Cur(o)']
        BY <1>1, <3>1, <3>2 DEF CurAttempt, Cur
      <4>2. Moving(o)'
        BY <1>0, <3>1, <3>2, <4>1 DEF Moving
      <4> QED
        BY <1>0, <1>1, <3>1, <3>2, <4>2, MovesOfOne
    <3>3. CASE ~ db.paused
      <4>1. Moving(o)'
        BY <1>0, <1>1, <3>1, <3>3, MovesElsewhere
      <4> QED
        BY <1>0, <1>1, <3>1, <3>3, <4>1, MovesOfOne
    <3> QED
      BY <3>2, <3>3
  <2> QED
    BY <1>5, <2>2, <2>3, <2>4, <2>5
<1> QED
  BY <1>4, <1>5

\* This too is inductive, given the invariant.
LEMMA MovesNext == IInv /\ MInv /\ [Next]_vars => MInv'
<1> SUFFICES ASSUME IInv, MInv, [Next]_vars PROVE MInv'
  OBVIOUS
<1>1. ASSUME UNCHANGED <<db, session>>
      PROVE  \A q \in Operator : Moving(q)'
  <2>1. UNCHANGED <<db, pc, mem, at>>
    BY <1>1 DEF session
  <2>2. \A q \in Operator : Cur(q)' = Cur(q) /\ CurAttempt(q)' = CurAttempt(q)
    BY <2>1 DEF Cur, CurAttempt
  <2> QED
    BY <2>1, <2>2 DEF MInv, Moving, Made, Copied, Settling
<1>2. ASSUME NEW k, Overwrite(k) \/ Converge(k) \/ (\E r \in Outcome(k) : Finish(k, r))
      PROVE  UNCHANGED <<db, session>>
  BY <1>2 DEF Overwrite, Converge, Finish
<1>3. UNCHANGED vars => UNCHANGED <<db, session>>
  BY DEF vars
<1>4. \A q \in Operator : Moving(q)'
  BY <1>1, <1>2, <1>3, OuterMoves, InnerMoves, UpdateMoves DEF Next, Tick, Pause
<1> QED
  BY <1>4, CreatedOnceNext DEF MInv

-----------------------------------------------------------------------------
(* The states of the contract *)

\* An attempt as a job.
LEMMA JobFacts ==
  /\ JobOf(NoAttempt) = [stage |-> "none"]
  /\ \A t : AttemptOK(t) =>
       /\ JobOf(t) = [stage |-> Stage(t), name |-> t.name,
                      result |-> IF t.phase = "succeeded" THEN t.outputs ELSE NoFiles]
       /\ Stage(t) \in {"live", "done", "failed", "suspended"}
       /\ Stage(t) = "live" <=> Unsettled(t)
       /\ Stage(t) = "done" <=> t.phase = "succeeded"
       /\ t.phase \in {"failed", "suspended"} => Stage(t) = t.phase
       /\ Stage(t) = "suspended" <=> t.phase = "suspended"
<1>1. \A t : AttemptOK(t) => t # NoAttempt /\ t.phase \in Phase /\ t.phase # "absent"
  BY AbsentPhase
<1>2. ASSUME NEW t, AttemptOK(t)
      PROVE  /\ Stage(t) \in {"live", "done", "failed", "suspended"}
             /\ Stage(t) = "live" <=> Unsettled(t)
             /\ Stage(t) = "done" <=> t.phase = "succeeded"
             /\ t.phase \in {"failed", "suspended"} => Stage(t) = t.phase
             /\ Stage(t) = "suspended" <=> t.phase = "suspended"
  BY <1>1, <1>2 DEF Stage, Unsettled, Terminal
<1> QED
  BY <1>1, <1>2 DEF JobOf

\* The same for what a task may have instead of an attempt.
LEMMA JobStages ==
  ASSUME NEW t, t # NoAttempt => AttemptOK(t)
  PROVE  /\ JobOf(t).stage = "done" <=> t.phase = "succeeded"
         /\ JobOf(t).stage = "live" <=> Unsettled(t)
         /\ JobOf(t).stage = "suspended" <=> t.phase = "suspended"
         /\ JobOf(t) = [stage |-> "none"] <=> t = NoAttempt
         /\ t.phase = "succeeded" => JobOf(t).result = t.outputs
         /\ t # NoAttempt => JobOf(t).name = t.name
<1>1. CASE t = NoAttempt
  <2>1. JobOf(t).stage = "none" /\ t.phase = "absent"
    BY <1>1, JobFacts DEF NoAttempt
  <2> QED
    BY <1>1, <2>1, JobFacts DEF Unsettled
<1>2. CASE t # NoAttempt
  <2>1. /\ JobOf(t).stage = Stage(t) /\ JobOf(t).name = t.name
        /\ JobOf(t).result = IF t.phase = "succeeded" THEN t.outputs ELSE NoFiles
        /\ Stage(t) # "none"
    BY <1>2, JobFacts
  <2> QED
    BY <1>2, <2>1, JobFacts
<1> QED
  BY <1>1, <1>2

\* What the contract reads off a state is what the engine reads off it.
LEMMA ContractReads ==
  ASSUME StateOK(db), NEW n \in Node
  PROVE  /\ Contract!Live(n) <=> Unsettled(db.attempts[n])
         /\ db.plan # NoPlan /\ n \in Tasks(db.plan) /\ Ready(db, n) =>
              /\ Contract!Inputs(n) = Files(db, n)
              /\ Contract!Stands(n) <=> Reusable(db, n)
              /\ db.attempts[n] = NoAttempt => Contract!Due(n)
<1>1. \A m \in Node : /\ db.attempts[m] # NoAttempt => AttemptOK(db.attempts[m])
                      /\ db.previous[m] # NoAttempt => AttemptOK(db.previous[m])
                      /\ db.previous[m] # NoAttempt => db.previous[m].phase = "succeeded"
  BY DEF StateOK
<1>2. Contract!Live(n) <=> Unsettled(db.attempts[n])
  BY <1>1, JobStages DEF Contract!Live
<1>3. ASSUME db.plan # NoPlan, n \in Tasks(db.plan), Ready(db, n)
      PROVE  /\ Contract!Inputs(n) = Files(db, n)
             /\ Contract!Stands(n) <=> Reusable(db, n)
             /\ db.attempts[n] = NoAttempt => Contract!Due(n)
  <2>1. \A d \in db.plan.inputs[n] : d \in Node /\ db.attempts[d].phase = "succeeded"
    BY <1>3, PlanFacts DEF StateOK, State, Ready
  <2>2. \A d \in db.plan.inputs[n] : /\ JobOf(db.attempts[d]).result = db.attempts[d].outputs
                                     /\ JobOf(db.attempts[d]).stage = "done"
    BY <1>1, <2>1, JobStages
  <2>3. Contract!Inputs(n) = Files(db, n)
    BY <2>1, <2>2 DEF Contract!Inputs, Files
  <2>4. Contract!Stands(n) <=> Reusable(db, n)
    <3>1. CASE db.previous[n] = NoAttempt
      <4>1. ~ Reusable(db, n)
        BY <3>1 DEF Reusable, NoAttempt
      <4>2. ~ Contract!Stands(n)
        BY <3>1, JobFacts DEF Contract!Stands, Contract!NoJob
      <4> QED
        BY <4>1, <4>2
    <3>2. CASE db.previous[n] # NoAttempt
      <4>1. /\ JobOf(db.previous[n]).name = db.previous[n].name
            /\ JobOf(db.previous[n]) # [stage |-> "none"]
            /\ db.previous[n].phase = "succeeded"
        BY <1>1, <3>2, JobStages
      <4> QED
        BY <4>1, <2>3 DEF Contract!Stands, Contract!NoJob, Reusable
    <3> QED
      BY <3>1, <3>2
  <2>5. ASSUME db.attempts[n] = NoAttempt
        PROVE  Contract!Due(n)
    BY <1>3, <2>1, <2>2, <2>5, JobFacts DEF Contract!Due, Contract!NoJob, Tasks
  <2> QED
    BY <2>3, <2>4, <2>5
<1> QED
  BY <1>2, <1>3

\* A graph is at rest when its attempts are settled, and nothing is active then.
LEMMA ContractRests ==
  ASSUME IInv, Settled(db)
  PROVE  Contract!Rests /\ Ordered = {} /\ wanted = {}
<1>1. wanted = {}
  BY SettledIsQuiet
<1>2. ASSUME NEW n \in Node
      PROVE  ~ Contract!Live(n)
  <2>1. ~ Unsettled(db.attempts[n])
    <3>1. CASE db.attempts[n] = NoAttempt
      BY <3>1 DEF Unsettled
    <3>2. CASE db.attempts[n] # NoAttempt
      <4>1. db.attempts[n].phase # "absent"
        BY <3>2, AbsentPhase DEF IInv, StateOK
      <4> QED
        BY <4>1 DEF Settled, Unsettled
    <3> QED
      BY <3>1, <3>2
  <2> QED
    BY <2>1, ContractReads DEF IInv
<1> QED
  BY <1>1, <1>2 DEF Contract!Rests, Ordered

\* An actor with the order to run is that of the attempt of its task.
LEMMA OrdersAreOfAttempts ==
  ASSUME IInv, NEW k \in wanted, NEW n \in Node, k.name.node = n
  PROVE  Present(db, n) /\ k = Target(db.attempts[n]) /\ Unsettled(db.attempts[n])
<1>1. PICK m \in Node : /\ Present(db, m) /\ db.attempts[m].phase \notin Terminal
                        /\ k = Target(db.attempts[m])
  BY DEF IInv, WantedIsOwned
<1>2. k.name = db.attempts[m].name
  BY <1>1 DEF Target, Exec, Validator
<1>3. db.attempts[m].name.node = m
  BY <1>1 DEF IInv, StateOK, Present, Fits
<1> QED
  BY <1>1, <1>2, <1>3 DEF Unsettled, Present

\* Verdicts do not change but with Tasks and receipts.
LEMMA SameApprovals ==
  ASSUME UNCHANGED <<created, receipt>>
  PROVE  Approvals' = Approvals
  BY DEF Approvals, Approving

\* Steps that touch neither the stored state nor orders, Tasks and receipts.
LEMMA ContractStutters ==
  ASSUME UNCHANGED <<db, wanted, created, receipt>>
  PROVE  UNCHANGED Contract!vars
<1>1. Ordered' = Ordered
  BY DEF Ordered, Present, Target, Exec, Validator
<1> QED
  BY <1>1, SameApprovals DEF Contract!vars, Contract!jobs

-----------------------------------------------------------------------------
(* The steps of the contract *)

\* Storing a copy changes one job, and not whether it is active.
LEMMA StoresOneJob ==
  ASSUME IInv, NEW o \in Operator, pc[o] \in {"saveNew", "save"}, db' = mem[o],
         UNCHANGED <<wanted, created, receipt>>
  PROVE  /\ Cur(o) \in Node /\ AttemptOK(CurAttempt(o)) /\ CurAttempt(o) # NoAttempt
         /\ Cur(o) \in Tasks(db.plan) /\ db.plan # NoPlan
         /\ Contract!Becomes(Cur(o), JobOf(CurAttempt(o)))
         /\ CurAttempt(o) = db.attempts[Cur(o)] => UNCHANGED Contract!vars
<1> DEFINE n == Cur(o)
           old == db.attempts[n]
           new == CurAttempt(o)
<1>1. pc[o] \in AtTask /\ pc[o] \in InSession
  BY DEF AtTask, InSession
<1>2. /\ n \in Node /\ AttemptOK(new) /\ new # NoAttempt
      /\ n \in Tasks(mem[o].plan) /\ mem[o].plan # NoPlan
      /\ Fits(mem[o], n, new.name) /\ StateOK(mem[o])
  BY <1>1, CurrentFacts, CopyFacts
<1>3. /\ db' = [db EXCEPT !.attempts[n] = new] /\ UpdateOK(old, new, wanted) /\ db \in State
  BY DEF IInv, CopyOK, TypeOK
<1> HIDE DEF new
<1>4. /\ db'.plan = db.plan /\ db'.paused = db.paused /\ db'.previous = db.previous
      /\ db'.attempts[n] = new
      /\ \A m \in Node : m # n => db'.attempts[m] = db.attempts[m]
  BY <1>2, <1>3 DEF State
<1>5. new.name.node = n
  BY <1>2 DEF Fits
<1>6. Target(new).name = new.name
  BY DEF Target, Exec, Validator
<1>7. Target(new) \in wanted => Present(db, n) /\ Target(new) = Target(old)
  BY <1>2, <1>5, <1>6, OrdersAreOfAttempts
<1>8. Present(db, n) /\ Target(old) \in wanted => Target(new) \in wanted
  BY <1>3 DEF UpdateOK, Present
<1>9. Ordered' = Ordered
  <2>1. \A m \in Node : Target(db.attempts[m])' = Target(db'.attempts[m])
    BY DEF Target, Exec, Validator
  <2>2. \A m \in Node : m # n => (m \in Ordered' <=> m \in Ordered)
    BY <1>4, <2>1 DEF Ordered, Present
  <2>3. n \in Ordered' <=> n \in Ordered
    BY <1>2, <1>4, <1>7, <1>8, <2>1 DEF Ordered, Present
  <2> QED
    BY <2>2, <2>3 DEF Ordered
<1>10. [m \in Node |-> JobOf(db.attempts[m])]' =
         [[m \in Node |-> JobOf(db.attempts[m])] EXCEPT ![n] = JobOf(new)]
  <2>1. \A m \in Node : JobOf(db.attempts[m])' = JobOf(db'.attempts[m])
    BY DEF JobOf, Stage
  <2> HIDE DEF n
  <2> QED
    BY <1>2, <1>4, <2>1
<1>11. [m \in Node |-> JobOf(db.previous[m])]' = [m \in Node |-> JobOf(db.previous[m])]
  BY <1>4 DEF JobOf, Stage
<1>12. Contract!Becomes(n, JobOf(new))
  BY <1>4, <1>9, <1>10, <1>11, SameApprovals DEF Contract!Becomes
<1>13. ASSUME new = old
       PROVE  UNCHANGED Contract!vars
  <2>1. db' = db
    BY <1>3, <1>13, <1>2 DEF State
  <2> QED
    BY <2>1, ContractStutters
<1> QED
  BY <1>2, <1>4, <1>12, <1>13 DEF new

\* A first store of an attempt begins the job of its task.
LEMMA SaveNewBegins ==
  ASSUME IInv, MInv, NEW o \in Operator, SaveNew(o)
  PROVE  Contract!Begin(Cur(o)) /\ Cur(o) \in Node
<1> DEFINE n == Cur(o)
           name == [node |-> n, revision |-> db.plan.revision, body |-> db.plan.body[n],
                    files |-> Files(db, n)]
<1>1. pc[o] = "saveNew" /\ db' = mem[o] /\ UNCHANGED <<wanted, created, receipt>>
  BY DEF SaveNew, backend, orders
<1>2. /\ n \in Node /\ n \in Tasks(db.plan) /\ db.plan # NoPlan
      /\ AttemptOK(CurAttempt(o)) /\ CurAttempt(o) # NoAttempt
      /\ Contract!Becomes(n, JobOf(CurAttempt(o)))
  BY <1>1, StoresOneJob
<1>3. /\ ~ db.paused /\ db.attempts[n] = NoAttempt /\ ~ Reusable(db, n) /\ Ready(db, n)
      /\ CurAttempt(o) = NewAttempt(db.plan, n, Files(db, n))
  BY <1>1 DEF MInv, Moving, Made
<1>4. /\ Contract!Inputs(n) = Files(db, n)
      /\ ~ Contract!Stands(n) /\ Contract!Due(n)
  BY <1>2, <1>3, ContractReads DEF IInv
<1>5. JobOf(CurAttempt(o)) = [stage |-> "live", name |-> name, result |-> NoFiles]
  <2>1. CurAttempt(o).phase = "starting" /\ CurAttempt(o).name = name
    BY <1>3 DEF NewAttempt
  <2> QED
    BY <1>2, <2>1, JobFacts DEF Unsettled, Terminal
<1> QED
  BY <1>2, <1>3, <1>4, <1>5 DEF Contract!Begin, Contract!Job

\* A verdict stands behind an attempt that succeeds.
LEMMA SuccessIsApproved ==
  ASSUME IInv, NEW t, AttemptOK(t), EvidenceOK(t), t.phase = "succeeded"
  PROVE  [name |-> t.name, files |-> t.outputs] \in Approvals
<1>1. /\ t.candidate.ok /\ t.outputs = t.candidate.files
      /\ t.validation.ok /\ t.validation # NoResult /\ t.validation \in Result
  BY DEF AttemptOK, Attempt, NoResult
<1>2. [actor |-> Validator(t), result |-> t.validation] \in receipt
  BY <1>1 DEF EvidenceOK
<1>3. t.validation = [ok |-> TRUE, files |-> NoFiles]
  <2>1. t.validation.files = NoFiles
    BY <1>1, <1>2 DEF IInv, ReceiptsOK, Validator
  <2> QED
    BY <1>1, <2>1 DEF Result
<1>4. PICK l \in created : l.actor = Validator(t)
  BY <1>2 DEF IInv, LaunchesOK, Launched
<1>5. l.candidate = t.outputs
  BY <1>1, <1>4 DEF EvidenceOK
<1>6. l.actor.name = t.name /\ l.actor.role = "validator"
  BY <1>4 DEF Validator
<1>7. l \in Approving
  BY <1>2, <1>3, <1>4, <1>6 DEF Approving
<1> QED
  BY <1>5, <1>6, <1>7 DEF Approvals

\* A later store reuses a result, decides the job, confirms its suspension, or
\* leaves it what it was.
LEMMA SaveMovesJob ==
  ASSUME IInv, MInv, NEW o \in Operator, Save(o)
  PROVE  \/ \E n \in Node : \/ Contract!Reuse(n) \/ Contract!Adopt(n)
                            \/ Contract!Fail(n) \/ Contract!Halt(n)
         \/ UNCHANGED Contract!vars
<1> DEFINE n == Cur(o)
           old == db.attempts[n]
           new == CurAttempt(o)
<1>1. pc[o] = "save" /\ db' = mem[o] /\ UNCHANGED <<wanted, created, receipt>>
  BY DEF Save, backend, orders
<1>2. /\ n \in Node /\ n \in Tasks(db.plan) /\ db.plan # NoPlan
      /\ AttemptOK(new) /\ new # NoAttempt
      /\ Contract!Becomes(n, JobOf(new))
      /\ new = old => UNCHANGED Contract!vars
  BY <1>1, StoresOneJob
<1>3. UpdateOK(old, new, wanted) /\ EvidenceOK(new)
  BY <1>1 DEF IInv, CopyOK
<1>4. JobOf(new) = [stage |-> Stage(new), name |-> new.name,
                    result |-> IF new.phase = "succeeded" THEN new.outputs ELSE NoFiles]
  BY <1>2, JobFacts
<1> HIDE DEF n, new
<1>5. CASE Copied(o)
  <2>1. /\ ~ db.paused /\ old = NoAttempt /\ Ready(db, n) /\ Reusable(db, n)
        /\ new = [db.previous[n] EXCEPT !.reused = TRUE]
    BY <1>5 DEF Copied, n, new
  <2>2. Contract!Due(n) /\ Contract!Stands(n)
    BY <1>2, <2>1, ContractReads DEF IInv
  <2>3. db.previous[n] # NoAttempt /\ db.previous[n].phase = "succeeded"
    BY <2>1 DEF Reusable, NoAttempt
  <2>4. AttemptOK(db.previous[n])
    BY <1>2, <2>3 DEF IInv, StateOK
  <2>5. /\ new.name = db.previous[n].name /\ new.outputs = db.previous[n].outputs
        /\ new.phase = "succeeded"
    BY <2>1, <2>3, <2>4 DEF AttemptOK, Attempt
  <2>6. JobOf(new) = JobOf(db.previous[n])
    <3>1. Stage(new) = "done" /\ Stage(db.previous[n]) = "done"
      BY <1>2, <2>3, <2>4, <2>5, JobFacts
    <3> QED
      BY <1>4, <2>3, <2>4, <2>5, <3>1, JobFacts
  <2>7. Contract!Reuse(n)
    BY <1>2, <2>1, <2>2, <2>6 DEF Contract!Reuse
  <2> QED
    BY <1>2, <2>7
<1>6. CASE new # old /\ Unsettled(old)
  <2>1. AttemptOK(old) /\ old # NoAttempt
    BY <1>2, <1>6 DEF IInv, StateOK, Unsettled
  <2>2. new.name = old.name
    BY <1>3, <2>1 DEF UpdateOK
  <2>3. JobOf(old) = [stage |-> "live", name |-> new.name, result |-> NoFiles]
    BY <1>6, <2>1, <2>2, JobFacts DEF Unsettled, Terminal
  <2>4. Contract!Live(n)
    BY <1>2, <1>6, ContractReads DEF IInv
  <2>5. CASE Unsettled(new)
    <3>1. JobOf(new) = JobOf(old)
      BY <1>2, <1>4, <2>3, <2>5, JobFacts DEF Unsettled, Terminal
    <3>2. Contract!Becomes(n, JobOf(old))
      BY <1>2, <3>1
    <3>3. UNCHANGED Contract!vars
      BY <1>2, <3>2 DEF Contract!Becomes, Contract!vars, Contract!jobs
    <3> QED
      BY <3>3
  <2>6. CASE Settling(o)
    <3>1. new.phase \in IF db.paused THEN {"suspended"} ELSE {"succeeded", "failed"}
      BY <2>6 DEF Settling, new
    <3>2. new.phase \in Terminal
      BY <3>1 DEF Terminal
    <3>3. n \notin Ordered
      BY <1>3, <1>6, <2>1, <3>2 DEF UpdateOK, Ordered
    <3>4. CASE new.phase = "suspended"
      <4>1. db.paused
        BY <3>1, <3>4
      <4>2. JobOf(new) = [JobOf(old) EXCEPT !.stage = "suspended"]
        BY <1>2, <1>4, <2>3, <3>4, JobFacts
      <4>3. Contract!Halt(n)
        BY <1>2, <2>4, <3>3, <4>1, <4>2 DEF Contract!Halt
      <4> QED
        BY <1>2, <4>3
    <3>5. CASE new.phase = "failed"
      <4>1. ~ db.paused
        BY <3>1, <3>5
      <4>2. JobOf(new) = [JobOf(old) EXCEPT !.stage = "failed"]
        BY <1>2, <1>4, <2>3, <3>5, JobFacts
      <4>3. Contract!Fail(n)
        BY <1>2, <2>4, <3>3, <4>1, <4>2 DEF Contract!Fail
      <4> QED
        BY <1>2, <4>3
    <3>6. CASE new.phase = "succeeded"
      <4>1. ~ db.paused
        BY <3>1, <3>6
      <4>2. PICK verdict \in Approvals : verdict = [name |-> new.name, files |-> new.outputs]
        BY <1>2, <1>3, <3>6, SuccessIsApproved
      <4>3. /\ verdict.name = new.name
            /\ JobOf(new) = [stage |-> "done", name |-> verdict.name, result |-> verdict.files]
        BY <1>2, <1>4, <3>6, <4>2, JobFacts
      <4>4. Contract!Job("done", verdict.name, verdict.files) = JobOf(new)
        BY <4>3 DEF Contract!Job
      <4>5. verdict.name = [m \in Node |-> JobOf(db.attempts[m])][n].name
        BY <1>2, <2>3, <4>3
      <4>6. Contract!Adopt(n)
        BY <1>2, <2>4, <3>3, <4>1, <4>4, <4>5 DEF Contract!Adopt
      <4> QED
        BY <1>2, <4>6
    <3> QED
      BY <3>1, <3>4, <3>5, <3>6
  <2>7. Unsettled(new) \/ Settling(o)
    <3>1. ~ Copied(o)
      BY <1>6 DEF Copied, Unsettled, n
    <3> QED
      BY <1>1, <1>6, <3>1 DEF MInv, Moving, n, new
  <2> QED
    BY <2>5, <2>6, <2>7
<1>7. new = old \/ Copied(o) \/ Unsettled(old)
  BY <1>1 DEF MInv, Moving, n, new
<1> QED
  BY <1>2, <1>5, <1>6, <1>7

\* Marking the graph is all that asking for a suspension does.
LEMMA PauseSaveSuspends ==
  ASSUME IInv, NEW o \in Operator, PauseSave(o)
  PROVE  Contract!Suspend
<1>1. /\ db' = [db EXCEPT !.paused = TRUE] /\ UNCHANGED <<wanted, created, receipt>>
      /\ db.plan # NoPlan
  <2>1. pc[o] = "pauseSave" /\ pc[o] \in InSession
    BY DEF PauseSave, InSession
  <2>2. mem[o] = [db EXCEPT !.paused = TRUE] /\ mem[o].plan # NoPlan
    BY <2>1, CopyFacts DEF IInv, CopyOK
  <2>3. mem[o].plan = db.plan
    BY <2>2, PausedOK DEF IInv
  <2> QED
    BY <2>2, <2>3 DEF PauseSave, backend, orders
<1>2. /\ db'.plan = db.plan /\ db'.attempts = db.attempts /\ db'.paused
      /\ db'.previous = db.previous /\ db'.paused = TRUE
  BY <1>1 DEF IInv, TypeOK, State
<1>3. Ordered' = Ordered
  BY <1>1, <1>2 DEF Ordered, Present, Target, Exec, Validator
<1>4. /\ [n \in Node |-> JobOf(db.attempts[n])]' = [n \in Node |-> JobOf(db.attempts[n])]
      /\ [n \in Node |-> JobOf(db.previous[n])]' = [n \in Node |-> JobOf(db.previous[n])]
  BY <1>2 DEF JobOf, Stage
<1> QED
  BY <1>1, <1>2, <1>3, <1>4, SameApprovals DEF Contract!Suspend

\* `apply' and `resume' store what they have prepared at rest.
LEMMA CommitFollows ==
  ASSUME IInv, NEW o \in Operator, Commit(o)
  PROVE  \/ \E p \in Plans : Contract!Follow(p)
         \/ Contract!Resume
         \/ UNCHANGED Contract!vars
<1>1. pc[o] = "commit" /\ db' = mem[o] /\ UNCHANGED <<wanted, created, receipt>>
  BY DEF Commit, backend, orders
<1>2. db \in State /\ StateOK(db)
  BY DEF IInv, TypeOK
<1>3. ASSUME wanted = {}
      PROVE  Ordered' = {}
  BY <1>1, <1>3 DEF Ordered
<1>4. CASE mem[o] = db
  BY <1>1, <1>4, ContractStutters
<1>5. CASE Settled(db) /\ mem[o] = Resumed(db)
  <2>1. /\ db'.plan = db.plan /\ db'.previous = db.previous /\ db'.paused = FALSE
        /\ \A n \in Node : db'.attempts[n] =
             IF db.attempts[n].phase # "suspended" THEN db.attempts[n]
             ELSE [db.attempts[n] EXCEPT !.phase =
                     IF db.attempts[n].validatorNamed THEN "validating" ELSE "starting"]
    BY <1>1, <1>2, <1>5 DEF Resumed, State
  <2>2. \A n \in Node : JobOf(db'.attempts[n]) =
          IF JobOf(db.attempts[n]).stage = "suspended"
            THEN [JobOf(db.attempts[n]) EXCEPT !.stage = "live"]
            ELSE JobOf(db.attempts[n])
    <3> SUFFICES ASSUME NEW n \in Node
                 PROVE  JobOf(db'.attempts[n]) =
                          IF JobOf(db.attempts[n]).stage = "suspended"
                            THEN [JobOf(db.attempts[n]) EXCEPT !.stage = "live"]
                            ELSE JobOf(db.attempts[n])
      OBVIOUS
    <3>1. PICK t : t = db.attempts[n]
      OBVIOUS
    <3>2. t # NoAttempt => AttemptOK(t)
      BY <1>2, <3>1 DEF StateOK
    <3>3. CASE t.phase # "suspended"
      BY <2>1, <3>1, <3>2, <3>3, JobStages
    <3>4. CASE t.phase = "suspended"
      <4>1. t # NoAttempt /\ AttemptOK(t)
        BY <3>2, <3>4 DEF NoAttempt
      <4>2. PICK u : u = [t EXCEPT !.phase = IF t.validatorNamed THEN "validating" ELSE "starting"]
        OBVIOUS
      <4>3. /\ u.phase \in {"validating", "starting"} /\ u.name = t.name
            /\ u # NoAttempt
        BY <4>1, <4>2 DEF AttemptOK, Attempt, NoAttempt
      <4>4. Stage(u) = "live"
        BY <4>3 DEF Stage
      <4>5. JobOf(u) = [stage |-> "live", name |-> t.name, result |-> NoFiles]
        BY <4>3, <4>4 DEF JobOf
      <4>6. JobOf(t) = [stage |-> "suspended", name |-> t.name, result |-> NoFiles]
        BY <3>4, <4>1, JobFacts
      <4> QED
        BY <2>1, <3>1, <3>4, <4>2, <4>5, <4>6
    <3> QED
      BY <3>3, <3>4
  <2>3. [n \in Node |-> JobOf(db.previous[n])]' = [n \in Node |-> JobOf(db.previous[n])]
    BY <2>1 DEF JobOf, Stage
  <2>4. Contract!Rests /\ Ordered = {} /\ Ordered' = {}
    BY <1>3, <1>5, ContractRests
  <2>5. \A n \in Node : JobOf(db.attempts[n])' = JobOf(db'.attempts[n])
    BY DEF JobOf, Stage
  <2> QED
    BY <1>1, <2>1, <2>2, <2>3, <2>4, <2>5, SameApprovals DEF Contract!Resume
<1>6. ASSUME Settled(db), NEW p \in Plans, mem[o] = Applied(db, p),
             db.plan \in {p, NoPlan} \/ p.revision = db.plan.revision + 1
      PROVE  Contract!Follow(p) \/ UNCHANGED Contract!vars
  <2>1. CASE db.plan = p
    <3>1. db' = db
      BY <1>1, <1>6, <2>1 DEF Applied
    <3> QED
      BY <1>1, <3>1, ContractStutters
  <2>2. CASE db.plan # p
    <3>1. /\ db'.plan = p /\ db'.paused = FALSE
          /\ \A n \in Node : db'.attempts[n] = NoAttempt
          /\ \A n \in Node : db'.previous[n] = IF db.attempts[n].phase = "succeeded"
                                                 THEN db.attempts[n] ELSE NoAttempt
      BY <1>1, <1>6, <2>2 DEF Applied, NoState, NoAttempts
    <3>2. \A n \in Node : JobOf(db'.attempts[n]) = [stage |-> "none"]
      BY <3>1, JobFacts
    <3>3. \A n \in Node : JobOf(db'.previous[n]) =
            IF JobOf(db.attempts[n]).stage = "done" THEN JobOf(db.attempts[n])
                                                    ELSE [stage |-> "none"]
      <4>1. \A n \in Node : JobOf(db.attempts[n]).stage = "done"
                              <=> db.attempts[n].phase = "succeeded"
        BY <1>2, JobStages DEF StateOK
      <4> QED
        BY <3>1, <4>1, JobFacts
    <3>4. Contract!Rests /\ Ordered = {} /\ Ordered' = {}
      BY <1>3, <1>6, ContractRests
    <3>5. \A n \in Node : /\ JobOf(db.attempts[n])' = JobOf(db'.attempts[n])
                          /\ JobOf(db.previous[n])' = JobOf(db'.previous[n])
      BY DEF JobOf, Stage
    <3> QED
      BY <1>1, <1>6, <2>2, <3>1, <3>2, <3>3, <3>4, <3>5, SameApprovals
      DEF Contract!Follow, Contract!NoJobs, Contract!NoJob
  <2> QED
    BY <2>1, <2>2
<1> QED
  BY <1>1, <1>4, <1>5, <1>6 DEF IInv, CopyOK

-----------------------------------------------------------------------------
(* Orders and verdicts *)

\* Attempts of two tasks have different actors.
LEMMA ActorsApart ==
  ASSUME IInv, NEW m \in Node, NEW n \in Node, Present(db, m), Present(db, n),
         Target(db.attempts[m]) = Target(db.attempts[n])
  PROVE  m = n
<1>1. db.attempts[m].name.node = m /\ db.attempts[n].name.node = n
  BY DEF IInv, StateOK, Present, Fits
<1>2. \A t : Target(t).name = t.name
  BY DEF Target, Exec, Validator
<1> QED
  BY <1>1, <1>2

\* `ResumeTask' orders a live job, at a time when no suspension is asked for.
LEMMA StartOrders ==
  ASSUME IInv, MInv, NEW o \in Operator, Start(o)
  PROVE  (\E n \in Node : Contract!Order(n)) \/ UNCHANGED Contract!vars
<1> DEFINE n == Cur(o)
<1>1. /\ pc[o] = "start" /\ db' = db /\ UNCHANGED <<created, receipt>> /\ ~ db.paused
      /\ pc[o] \in AtTask
  BY DEF Start, MInv, Moving, AtTask
<1>2. n \in Node /\ CurAttempt(o) = db.attempts[n] /\ Present(db, n)
  BY <1>1, CurrentFacts DEF CurAttempt, IInv, CopyOK, Present
<1>3. Unsettled(db.attempts[n])
  BY <1>1, <1>2 DEF IInv, CursorOK, Unsettled, Present, Terminal
<1>4. \A m \in Node : Target(db.attempts[m])' = Target(db'.attempts[m])
  BY DEF Target, Exec, Validator
<1>5. CASE wanted' = wanted
  BY <1>1, <1>5, ContractStutters
<1>6. CASE wanted' = wanted \cup {Target(db.attempts[n])}
  <2> HIDE DEF n
  <2>1. Ordered' = Ordered \cup {n}
    <3>1. \A m \in Node : Target(db.attempts[m]) = Target(db.attempts[n]) /\ Present(db, m)
                            => m = n
      BY <1>2, ActorsApart
    <3> QED
      BY <1>1, <1>2, <1>4, <1>6, <3>1 DEF Ordered, Present
  <2>2. Contract!Live(n)
    BY <1>2, <1>3, ContractReads DEF IInv
  <2>3. UNCHANGED Contract!jobs
    BY <1>1 DEF Contract!jobs, JobOf, Stage
  <2>4. Contract!Order(n)
    BY <1>1, <2>1, <2>2, <2>3, SameApprovals DEF Contract!Order
  <2> QED
    BY <1>2, <2>4
<1> QED
  BY <1>2, <1>5, <1>6 DEF Start, orders

\* `SuspendTask' withdraws it.
LEMMA StopWithdraws ==
  ASSUME IInv, NEW o \in Operator, Stop(o)
  PROVE  (\E n \in Node : Contract!Withdraw(n)) \/ UNCHANGED Contract!vars
<1> DEFINE n == Cur(o)
<1>1. /\ pc[o] = "stop" /\ db' = db /\ UNCHANGED <<created, receipt>>
      /\ pc[o] \in AtTask
  BY DEF Stop, AtTask
<1>2. n \in Node /\ CurAttempt(o) = db.attempts[n] /\ Present(db, n)
  BY <1>1, CurrentFacts DEF CurAttempt, IInv, CopyOK, Present
<1>4. \A m \in Node : Target(db.attempts[m])' = Target(db'.attempts[m])
  BY DEF Target, Exec, Validator
<1>5. CASE wanted' = wanted
  BY <1>1, <1>5, ContractStutters
<1>6. CASE wanted' = wanted \ {Target(db.attempts[n])}
  <2> HIDE DEF n
  <2>1. Ordered' = Ordered \ {n}
    <3>1. \A m \in Node : Target(db.attempts[m]) = Target(db.attempts[n]) /\ Present(db, m)
                            => m = n
      BY <1>2, ActorsApart
    <3> QED
      BY <1>1, <1>2, <1>4, <1>6, <3>1 DEF Ordered, Present
  <2>2. UNCHANGED Contract!jobs
    BY <1>1 DEF Contract!jobs, JobOf, Stage
  <2>3. Contract!Withdraw(n)
    BY <1>1, <2>1, <2>2, SameApprovals DEF Contract!Withdraw
  <2> QED
    BY <1>2, <2>3
<1> QED
  BY <1>2, <1>5, <1>6 DEF Stop

\* A Task that is created has no receipt yet.
LEMMA EnsureStutters ==
  ASSUME IInv, NEW o \in Operator, Ensure(o)
  PROVE  UNCHANGED Contract!vars
<1>1. UNCHANGED <<db, wanted, receipt>>
  BY DEF Ensure, orders
<1>2. PICK l : l = Launch(mem[o], Cur(o))
  OBVIOUS
<1>3. created' = created \/ (created' = created \cup {l} /\ ~ Collides(l))
  BY <1>2 DEF Ensure
<1>4. CASE created' = created
  BY <1>1, <1>4, ContractStutters
<1>5. CASE created' = created \cup {l} /\ ~ Collides(l) /\ l \notin created
  <2>1. \A k \in created : k.actor # l.actor
    BY <1>5 DEF Collides
  <2>2. \A r \in receipt : r.actor # l.actor
    BY <2>1 DEF IInv, LaunchesOK, Launched
  <2>3. Approving' = Approving
    BY <1>1, <1>5, <2>2 DEF Approving
  <2>4. Approvals' = Approvals
    BY <2>3 DEF Approvals
  <2>5. UNCHANGED <<Contract!jobs, Ordered>>
    BY <1>1 DEF Contract!jobs, JobOf, Stage, Ordered, Present, Target, Exec, Validator
  <2> QED
    BY <2>4, <2>5 DEF Contract!vars
<1>6. created' = created \cup {l} /\ l \in created => created' = created
  OBVIOUS
<1> QED
  BY <1>3, <1>4, <1>5, <1>6

\* A receipt of a validator is a verdict, the only one for that job.
LEMMA FinishApproves ==
  ASSUME IInv, MInv, NEW a \in running, NEW r \in Outcome(a), Finish(a, r)
  PROVE  Contract!Approve \/ UNCHANGED Contract!vars
<1>1. /\ UNCHANGED <<db, wanted, created>>
      /\ receipt' = receipt \cup {[actor |-> a, result |-> r]}
      /\ \A k \in receipt : k.actor # a
  BY DEF Finish, orders
<1>2. UNCHANGED <<Contract!jobs, Ordered>>
  BY <1>1 DEF Contract!jobs, JobOf, Stage, Ordered, Present, Target, Exec, Validator
<1>3. CASE a.role = "validator" /\ r = [ok |-> TRUE, files |-> NoFiles]
  <2>1. PICK l \in created : l.actor = a
    BY DEF IInv, LaunchesOK, Launched
  <2>2. Approving' = Approving \cup {l}
    <3>1. \A k \in created : k.actor = a <=> k = l
      BY <2>1 DEF MInv, CreatedOnce
    <3> QED
      BY <1>1, <1>3, <2>1, <3>1 DEF Approving
  <2>3. PICK verdict : verdict = [name |-> l.actor.name, files |-> l.candidate]
    OBVIOUS
  <2>4. Approvals' = Approvals \cup {verdict}
    BY <2>2, <2>3 DEF Approvals
  <2>5. ASSUME NEW other \in Approvals
        PROVE  other.name # verdict.name
    <3>1. PICK k \in Approving : other = [name |-> k.actor.name, files |-> k.candidate]
      BY DEF Approvals
    <3>2. /\ k \in created /\ k.actor.role = "validator"
          /\ [actor |-> k.actor, result |-> [ok |-> TRUE, files |-> NoFiles]] \in receipt
      BY DEF Approving
    <3>3. k.actor # a
      BY <1>1, <3>2
    <3>4. k.actor \in Actor /\ a \in Actor
      BY <3>2 DEF IInv, TypeOK, Launches
    <3>5. k.actor.name # a.name
      BY <1>3, <3>2, <3>3, <3>4 DEF Actor
    <3> QED
      BY <2>1, <2>3, <3>1, <3>5
  <2> QED
    BY <1>2, <2>4, <2>5 DEF Contract!Approve
<1>4. CASE ~ (a.role = "validator" /\ r = [ok |-> TRUE, files |-> NoFiles])
  <2>1. Approving' = Approving
    BY <1>1, <1>4 DEF Approving
  <2>2. Approvals' = Approvals
    BY <2>1 DEF Approvals
  <2> QED
    BY <1>2, <2>2 DEF Contract!vars
<1> QED
  BY <1>3, <1>4

-----------------------------------------------------------------------------
(* The theorem *)

\* Before the first `apply' there is nothing.
LEMMA InitContract == Init => Contract!Init
<1> SUFFICES ASSUME Init PROVE Contract!Init
  OBVIOUS
<1>1. /\ db.plan = NoPlan /\ db.paused = FALSE
      /\ \A n \in Node : db.attempts[n] = NoAttempt /\ db.previous[n] = NoAttempt
      /\ created = {} /\ wanted = {}
  BY DEF Init, NoState, NoAttempts
<1>2. Ordered = {} /\ Approvals = {}
  BY <1>1 DEF Ordered, Approvals, Approving
<1> QED
  BY <1>1, <1>2, JobFacts DEF Contract!Init, Contract!NoJobs, Contract!NoJob

\* Every step of the engine is one of the contract, or none.
LEMMA NextContract ==
  ASSUME IInv, MInv, [Next]_vars
  PROVE  Contract!Next \/ UNCHANGED Contract!vars
<1>1. ASSUME NEW o \in Operator, SaveNew(o) \/ Save(o) \/ Start(o) \/ Stop(o)
      PROVE  Contract!Next \/ UNCHANGED Contract!vars
  BY <1>1, SaveNewBegins, SaveMovesJob, StartOrders, StopWithdraws DEF Contract!Next
<1>2. ASSUME NEW o \in Operator, PauseSave(o) \/ Commit(o) \/ Ensure(o)
      PROVE  Contract!Next \/ UNCHANGED Contract!vars
  BY <1>2, PauseSaveSuspends, CommitFollows, EnsureStutters DEF Contract!Next
<1>3. ASSUME NEW o \in Operator,
             VisitLast(o) \/ VisitWaiting(o) \/ VisitNew(o) \/ VisitAttempt(o)
             \/ Pending(o) \/ ReadNothing(o) \/ Read(o) \/ Observe(o) \/ NoActor(o)
      PROVE  UNCHANGED Contract!vars
  BY <1>3, ContractStutters
  DEF VisitLast, VisitWaiting, VisitNew, VisitAttempt, Pending, ReadNothing, Read, Observe,
      NoActor, backend, orders
<1>4. ASSUME NEW o \in Operator, Begin(o) \/ PauseTask(o) \/ PauseEnd(o)
                                 \/ Fail(o) \/ Crash(o) \/ Recover(o)
      PROVE  UNCHANGED Contract!vars
  BY <1>4, ContractStutters
  DEF Begin, BeginApply, BeginResume, BeginSuspend, BeginRun, Enter, PauseTask, PauseEnd,
      Fail, Crash, Recover, backend, orders
<1>5. ASSUME NEW k \in running, NEW r \in Outcome(k), Finish(k, r)
      PROVE  Contract!Next \/ UNCHANGED Contract!vars
  BY <1>5, FinishApproves DEF Contract!Next
<1>6. ASSUME NEW k, Overwrite(k) \/ Converge(k)
      PROVE  UNCHANGED Contract!vars
  BY <1>6, ContractStutters DEF Overwrite, Converge, orders
<1>7. CASE UNCHANGED vars
  BY <1>7, ContractStutters DEF vars, backend, orders
<1> QED
  BY <1>1, <1>2, <1>3, <1>4, <1>5, <1>6, <1>7 DEF Next, Tick, Pause

\* README.md: every command, whatever call of it fails, whether it dies or is
\* issued again, and whatever AX does meanwhile, keeps to the contract.
THEOREM GraphKeepsContract == Spec => ImplementsContract
<1>1. IInv /\ MInv /\ [Next]_vars => [Contract!Next]_(Contract!vars)
  BY NextContract
<1>2. Spec => [](IInv /\ MInv)
  <2>1. Init => MInv
    BY InitMoves
  <2>2. IInv /\ MInv /\ [Next]_vars => MInv'
    BY MovesNext
  <2> QED
    BY <2>1, <2>2, Invariance, PTL DEF Spec
<1> QED
  BY <1>1, <1>2, InitContract, PTL DEF Spec, ImplementsContract, Contract!Spec
-----------------------------------------------------------------------------
(* Phases: which one an invocation is about to store *)

\* What is stopped outside a suspension has left its receipt, Pause only works
\* on a marked graph, and what is about to be saved is at most one phase on.
Staged(o) ==
  /\ pc[o] = "pause" => db.paused
  /\ pc[o] \in {"stop", "observe"} =>
       db.paused \/ CurAttempt(o).phase \in {"stopping", "validation-stopping"}
  /\ pc[o] = "save" =>
       \/ CurAttempt(o) = db.attempts[Cur(o)]
       \/ <<db.attempts[Cur(o)].phase, CurAttempt(o).phase>> \in Advances(db.paused)
SuspendedIsMarked == \A n \in Node : db.attempts[n].phase = "suspended" => db.paused
PInv == SuspendedIsMarked /\ \A o \in Operator : Staged(o)

LEMMA InitStages == Init => PInv
  BY DEF Init, PInv, SuspendedIsMarked, Staged, NoState, NoAttempts, NoAttempt

\* A step has to re-establish what concerns its own invocation.
LEMMA StagesOfOne ==
  ASSUME IInv, NEW o \in Operator, pc[o] # "idle" \/ lock = Nobody,
         \A q \in Operator : q # o => pc'[q] = pc[q], Staged(o)'
  PROVE  \A q \in Operator : Staged(q)'
<1>1. \A q \in Operator : q # o => pc'[q] = "idle"
  BY OthersIdle
<1>2. \A q \in Operator : q # o => Staged(q)'
  BY <1>1 DEF Staged
<1> QED
  BY <1>2

\* What a Save stores: an attempt that is at most one phase on.
LEMMA SaveAdvances ==
  ASSUME IInv, MInv, PInv, NEW o \in Operator, SaveNew(o) \/ Save(o)
  PROVE  \/ db' = db
         \/ \E n \in Node :
              /\ db' = [db EXCEPT !.attempts[n] = db'.attempts[n]]
              /\ <<db.attempts[n].phase, db'.attempts[n].phase>> \in Advances(db.paused)
              /\ db'.paused = db.paused
              /\ \A m \in Node \ {n} : db'.attempts[m] = db.attempts[m]
<1> DEFINE n == Cur(o)
           new == CurAttempt(o)
<1>0. db \in State
  BY DEF IInv, TypeOK
<1>1. pc[o] \in {"saveNew", "save"} /\ pc[o] \in AtTask /\ db' = mem[o]
  BY DEF SaveNew, Save, AtTask
<1>2. n \in Node /\ mem[o] = [db EXCEPT !.attempts[n] = new]
  BY <1>1, CurrentFacts DEF IInv, CopyOK
<1>3. /\ db'.attempts[n] = new /\ db'.paused = db.paused
      /\ \A m \in Node \ {n} : db'.attempts[m] = db.attempts[m]
  BY <1>0, <1>1, <1>2 DEF State
<1>4. CASE new = db.attempts[n]
  BY <1>0, <1>1, <1>2, <1>4 DEF State
<1>5. CASE <<db.attempts[n].phase, new.phase>> \in Advances(db.paused)
  BY <1>1, <1>2, <1>3, <1>5
<1>6. CASE SaveNew(o)
  <2>1. Made(o)
    BY <1>6 DEF SaveNew, MInv, Moving
  <2>2. ~ db.paused /\ db.attempts[n].phase = "absent" /\ new.phase = "starting"
    BY <2>1 DEF Made, NewAttempt, NoAttempt
  <2>3. <<db.attempts[n].phase, new.phase>> \in Advances(db.paused)
    BY <2>2 DEF Advances, Lifecycle
  <2> QED
    BY <1>5, <2>3
<1>7. CASE Save(o)
  BY <1>4, <1>5, <1>7 DEF Save, PInv, Staged
<1> QED
  BY <1>6, <1>7

\* All that a step can do to the stored state.
LEMMA WritesAdvance ==
  ASSUME IInv, MInv, PInv, [Next]_vars
  PROVE  \/ db' = db
         \/ \E n \in Node :
              /\ db' = [db EXCEPT !.attempts[n] = db'.attempts[n]]
              /\ <<db.attempts[n].phase, db'.attempts[n].phase>> \in Advances(db.paused)
              /\ db'.paused = db.paused
              /\ \A m \in Node \ {n} : db'.attempts[m] = db.attempts[m]
         \/ db' = [db EXCEPT !.paused = TRUE]
         \/ db.paused /\ Settled(db) /\ db' = Resumed(db)
         \/ \E p \in Plans : db.plan # p /\ db' = Applied(db, p)
<1>0. db \in State
  BY DEF IInv, TypeOK
<1>1. ASSUME NEW o \in Operator, Commit(o)
      PROVE  \/ db' = db
             \/ db.paused /\ Settled(db) /\ db' = Resumed(db)
             \/ \E p \in Plans : db.plan # p /\ db' = Applied(db, p)
  <2>1. pc[o] = "commit" /\ db' = mem[o]
    BY <1>1 DEF Commit
  <2>2. \/ db' = db
        \/ Settled(db) /\ db' = Resumed(db)
        \/ \E p \in Plans : db' = Applied(db, p)
    BY <2>1 DEF IInv, CopyOK
  <2>3. CASE ~ db.paused
    <3>1. \A n \in Node : db.attempts[n].phase # "suspended"
      BY <2>3 DEF PInv, SuspendedIsMarked
    <3>2. Resumed(db) = db
      BY <1>0, <2>3, <3>1 DEF Resumed, State
    <3> QED
      BY <2>2, <3>2 DEF Applied
  <2>4. CASE db.paused
    BY <2>2, <2>4 DEF Applied
  <2> QED
    BY <2>3, <2>4
<1>2. ASSUME NEW o \in Operator, PauseSave(o)
      PROVE  db' = [db EXCEPT !.paused = TRUE]
  BY <1>2 DEF PauseSave, IInv, CopyOK
<1>3. ASSUME NEW o \in Operator, Tick(o), ~ (SaveNew(o) \/ Save(o))
      PROVE  db' = db
  BY <1>3 DEF Tick, VisitLast, VisitWaiting, VisitNew, VisitAttempt, Ensure, Start,
              Pending, ReadNothing, Read, Stop, Observe, NoActor
<1>4. ASSUME NEW o \in Operator, Begin(o) \/ PauseTask(o) \/ PauseEnd(o)
                                 \/ Fail(o) \/ Crash(o) \/ Recover(o)
      PROVE  db' = db
  BY <1>4 DEF Begin, BeginApply, BeginResume, BeginSuspend, BeginRun, Enter,
              PauseTask, PauseEnd, Fail, Crash, Recover
<1>5. ASSUME NEW k, Overwrite(k) \/ Converge(k) \/ (\E r \in Outcome(k) : Finish(k, r))
      PROVE  db' = db
  BY <1>5 DEF Overwrite, Converge, Finish
<1>6. CASE UNCHANGED vars
  BY <1>6 DEF vars
<1> QED
  BY <1>1, <1>2, <1>3, <1>4, <1>5, <1>6, SaveAdvances DEF Next, Pause

\* Suspensions are stored on marked graphs, and the mark goes with them.
LEMMA MarkedNext ==
  ASSUME IInv, MInv, PInv, [Next]_vars
  PROVE  SuspendedIsMarked'
<1>0. db \in State
  BY DEF IInv, TypeOK
<1>1. CASE db' = db
  BY <1>1 DEF PInv, SuspendedIsMarked
<1>2. ASSUME NEW n \in Node,
             <<db.attempts[n].phase, db'.attempts[n].phase>> \in Advances(db.paused),
             db'.paused = db.paused,
             \A m \in Node \ {n} : db'.attempts[m] = db.attempts[m]
      PROVE  SuspendedIsMarked'
  <2>1. db'.attempts[n].phase = "suspended" => db.paused
    BY <1>2 DEF Advances, Lifecycle
  <2> QED
    BY <1>2, <2>1 DEF PInv, SuspendedIsMarked
<1>3. CASE db' = [db EXCEPT !.paused = TRUE]
  BY <1>0, <1>3 DEF State, SuspendedIsMarked
<1>4. CASE db' = Resumed(db)
  <2>1. ASSUME NEW n \in Node
        PROVE  db'.attempts[n].phase # "suspended"
    <3>1. db'.attempts[n] =
            IF db.attempts[n].phase # "suspended" THEN db.attempts[n]
            ELSE [db.attempts[n] EXCEPT !.phase =
                    IF db.attempts[n].validatorNamed THEN "validating" ELSE "starting"]
      BY <1>0, <1>4 DEF Resumed, State
    <3>2. db.attempts[n].phase = "suspended" => AttemptOK(db.attempts[n])
      BY DEF IInv, StateOK, NoAttempt
    <3> QED
      BY <3>1, <3>2 DEF AttemptOK, Attempt
  <2> QED
    BY <2>1 DEF SuspendedIsMarked
<1>5. ASSUME NEW p \in Plans, db.plan # p, db' = Applied(db, p)
      PROVE  SuspendedIsMarked'
  BY <1>5 DEF Applied, NoState, NoAttempts, NoAttempt, SuspendedIsMarked
<1> QED
  BY <1>1, <1>2, <1>3, <1>4, <1>5, WritesAdvance

\* Steps that leave the copies' attempts alone.
LEMMA OtherStages ==
  ASSUME IInv, MInv, PInv, NEW o \in Operator,
         Begin(o) \/ Commit(o) \/ Fail(o) \/ Crash(o) \/ Recover(o)
         \/ VisitLast(o) \/ VisitWaiting(o) \/ Pending(o) \/ ReadNothing(o) \/ NoActor(o)
         \/ SaveNew(o) \/ Save(o) \/ PauseSave(o) \/ PauseEnd(o)
  PROVE  \A q \in Operator : Staged(q)'
<1>0. pc \in [Operator -> InSession \cup {"idle", "dead"}] /\ db \in State
  BY DEF IInv, TypeOK
<1>1. /\ pc[o] # "idle" \/ lock = Nobody
      /\ \E step \in {"idle", "dead", "visit", "pauseSave", "commit", "ensure", "pause"} :
           pc' = [pc EXCEPT ![o] = step]
  <2>1. CASE Begin(o)
    BY <2>1 DEF Begin, BeginRun, BeginResume, BeginSuspend, BeginApply, Enter
  <2>2. CASE ~ Begin(o)
    BY <2>2 DEF Commit, Fail, Crash, Recover, VisitLast, VisitWaiting, Pending, ReadNothing,
                NoActor, SaveNew, Save, PauseSave, PauseEnd, Return, NextTask, Go, InSession
  <2> QED
    BY <2>1, <2>2
<1>2. pc'[o] = "pause" => db'.paused
  <2>1. CASE Save(o)
    BY <1>0, <2>1 DEF Save, NextTask, Go
  <2>2. CASE PauseSave(o)
    BY <1>0, <2>2 DEF PauseSave, State, IInv, CopyOK
  <2>3. CASE ~ (Save(o) \/ PauseSave(o))
    <3>1. pc'[o] # "pause"
      BY <1>0, <2>3 DEF Begin, BeginRun, BeginResume, BeginSuspend, BeginApply, Enter, Commit,
           Fail, Crash, Recover, VisitLast, VisitWaiting, Pending, ReadNothing, NoActor,
           SaveNew, PauseEnd, Return, NextTask, Go
    <3> QED
      BY <3>1
  <2> QED
    BY <2>1, <2>2, <2>3
<1>3. Staged(o)'
  BY <1>0, <1>1, <1>2 DEF Staged
<1> QED
  BY <1>0, <1>1, <1>3, StagesOfOne

\* Where a stop begins, and what is saved unchanged.
LEMMA StopStages ==
  ASSUME IInv, MInv, PInv, NEW o \in Operator,
         VisitAttempt(o) \/ Ensure(o) \/ Stop(o) \/ PauseTask(o)
  PROVE  \A q \in Operator : Staged(q)'
<1>0. pc \in [Operator -> InSession \cup {"idle", "dead"}] /\ db \in State
  BY DEF IInv, TypeOK
<1>1. pc[o] # "idle" /\ db' = db /\ mem[o] = db
  BY DEF VisitAttempt, Ensure, Stop, PauseTask, IInv, CopyOK
<1>2. CASE VisitAttempt(o)
  <2>1. UNCHANGED <<mem, at>> /\ pc' = [pc EXCEPT ![o] = Step(CurAttempt(o).phase)]
    BY <1>2 DEF VisitAttempt, Go
  <2>2. CurAttempt(o)' = CurAttempt(o) /\ Cur(o)' = Cur(o) /\ CurAttempt(o) = db.attempts[Cur(o)]
    BY <1>1, <2>1 DEF CurAttempt, Cur
  <2>3. pc'[o] = Step(CurAttempt(o).phase)
    BY <1>0, <2>1
  <2>4. /\ pc'[o] \notin {"pause", "observe"}
        /\ pc'[o] = "stop" => CurAttempt(o).phase \in {"stopping", "validation-stopping"}
    BY <2>3 DEF Step
  <2>5. Staged(o)'
    BY <1>1, <2>2, <2>4 DEF Staged
  <2> QED
    BY <1>0, <1>1, <2>1, <2>5, StagesOfOne
<1>3. CASE Ensure(o)
  <2>1. \E step \in {"idle", "stop", "start"} :
          pc' = [pc EXCEPT ![o] = step] /\ (step = "stop" => db.paused)
    BY <1>1, <1>3 DEF Ensure, Return, Go
  <2>2. Staged(o)'
    BY <1>0, <1>1, <2>1 DEF Staged
  <2> QED
    BY <1>0, <1>1, <2>1, <2>2, StagesOfOne
<1>4. CASE Stop(o)
  <2>1. \/ pc' = [pc EXCEPT ![o] = "idle"]
        \/ pc' = [pc EXCEPT ![o] = "observe"] /\ UNCHANGED <<mem, at>>
    BY <1>4 DEF Stop, Return, Go
  <2>2. CASE pc' = [pc EXCEPT ![o] = "idle"]
    <3>1. Staged(o)'
      BY <1>0, <2>2 DEF Staged
    <3> QED
      BY <1>0, <1>1, <2>2, <3>1, StagesOfOne
  <2>3. CASE pc' = [pc EXCEPT ![o] = "observe"] /\ UNCHANGED <<mem, at>>
    <3>1. CurAttempt(o)' = CurAttempt(o)
      BY <2>3 DEF CurAttempt, Cur
    <3>2. db.paused \/ CurAttempt(o).phase \in {"stopping", "validation-stopping"}
      BY <1>4 DEF Stop, PInv, Staged
    <3>3. Staged(o)'
      BY <1>0, <1>1, <2>3, <3>1, <3>2 DEF Staged
    <3> QED
      BY <1>0, <1>1, <2>3, <3>3, StagesOfOne
  <2> QED
    BY <2>1, <2>2, <2>3
<1>5. CASE PauseTask(o)
  <2>1. pc[o] = "pause" /\ db.paused
    BY <1>5 DEF PauseTask, PInv, Staged
  <2>2. \E step \in {"pause", "idle", "ensure", "stop"} : pc' = [pc EXCEPT ![o] = step]
    <3>1. \E i \in todo[o] : \/ UNCHANGED pc \/ Return(o)
                             \/ Go(o, "ensure") \/ Go(o, "stop")
      BY <1>5 DEF PauseTask
    <3> QED
      BY <1>0, <2>1, <3>1 DEF Return, Go
  <2>3. Staged(o)'
    BY <1>0, <1>1, <2>1, <2>2 DEF Staged
  <2> QED
    BY <1>0, <1>1, <2>2, <2>3, StagesOfOne
<1> QED
  BY <1>2, <1>3, <1>4, <1>5

\* Steps that change the copy's attempt: each by one phase.
LEMMA UpdateStages ==
  ASSUME IInv, MInv, PInv, NEW o \in Operator, VisitNew(o) \/ Start(o) \/ Read(o) \/ Observe(o)
  PROVE  \A q \in Operator : Staged(q)'
<1> DEFINE n == Cur(o)
           old == CurAttempt(o)
<1>0. /\ pc \in [Operator -> InSession \cup {"idle", "dead"}] /\ db \in State
      /\ mem \in [Operator -> State]
  BY DEF IInv, TypeOK
<1>1. /\ pc[o] \in InSession /\ pc[o] # "idle" /\ mem[o] = db /\ db' = db
      /\ pc[o] \in {"visit", "start", "read", "observe"}
  BY DEF VisitNew, Start, Read, Observe, InSession, IInv, CopyOK
<1>2. n \in Node /\ old = db.attempts[n]
  <2>1. CASE VisitNew(o)
    BY <1>1, <2>1, VisitFacts DEF VisitNew, CurAttempt
  <2>2. CASE ~ VisitNew(o)
    <3>1. pc[o] \in AtTask
      BY <2>2 DEF Start, Read, Observe, AtTask
    <3> QED
      BY <1>1, <3>1, CurrentFacts DEF CurAttempt
  <2> QED
    BY <2>1, <2>2
<1>3. ASSUME NEW t, mem' = WithAttempt(o, t), at' = at
      PROVE  Cur(o)' = n /\ CurAttempt(o)' = t
  <2>1. mem'[o] = [mem[o] EXCEPT !.attempts[n] = t]
    BY <1>0, <1>3 DEF WithAttempt
  <2>2. mem'[o].plan = mem[o].plan /\ mem'[o].attempts[n] = t
    BY <1>0, <1>1, <1>2, <2>1 DEF State
  <2>3. Cur(o)' = n
    BY <1>3, <2>2 DEF Cur
  <2> QED
    BY <2>2, <2>3 DEF CurAttempt
<1>4. ASSUME NEW t, mem' = WithAttempt(o, t), at' = at, pc' = [pc EXCEPT ![o] = "save"],
             <<old.phase, t.phase>> \in Advances(db.paused)
      PROVE  \A q \in Operator : Staged(q)'
  <2>1. Cur(o)' = n /\ CurAttempt(o)' = t
    BY <1>4, <1>3
  <2>2. Staged(o)'
    BY <1>0, <1>1, <1>2, <1>4, <2>1 DEF Staged
  <2> QED
    BY <1>0, <1>1, <1>4, <2>2, StagesOfOne
<1>5. ASSUME NEW step \in {"visit", "saveNew", "read"}, pc' = [pc EXCEPT ![o] = step]
      PROVE  \A q \in Operator : Staged(q)'
  <2>1. Staged(o)'
    BY <1>0, <1>5 DEF Staged
  <2> QED
    BY <1>0, <1>1, <1>5, <2>1, StagesOfOne
<1> HIDE DEF n
<1>6. CASE VisitNew(o)
  <2>1. at' = at /\ ~ db.paused /\ old = NoAttempt
    BY <1>1, <1>6 DEF VisitNew, MInv, Moving
  <2>2. CASE Reusable(db, n)
    <3> DEFINE t == [db.previous[n] EXCEPT !.reused = TRUE]
    <3>1. mem' = WithAttempt(o, t) /\ pc' = [pc EXCEPT ![o] = "save"]
      BY <1>1, <1>6, <2>2 DEF VisitNew, Go, n
    <3>2. t.phase = "succeeded"
      <4>1. db.previous[n].phase = "succeeded"
        BY <2>2 DEF Reusable
      <4>2. db.previous[n] \in Attempt
        BY <1>2, <4>1 DEF IInv, StateOK, AttemptOK, NoAttempt
      <4> QED
        BY <4>1, <4>2 DEF Attempt
    <3>3. <<old.phase, t.phase>> \in Advances(db.paused)
      BY <2>1, <3>2 DEF NoAttempt, Advances, Lifecycle
    <3> HIDE DEF t
    <3> QED
      BY <1>4, <2>1, <3>1, <3>3
  <2>3. CASE ~ Reusable(db, n)
    <3>1. pc' = [pc EXCEPT ![o] = "saveNew"]
      BY <1>1, <1>6, <2>3 DEF VisitNew, Go, n
    <3> QED
      BY <1>5, <3>1
  <2> QED
    BY <2>2, <2>3
<1>7. CASE ~ VisitNew(o)
  <2>1. AttemptOK(old) /\ old \in Attempt
    <3>1. pc[o] \in AtTask
      BY <1>7 DEF Start, Read, Observe, AtTask
    <3> QED
      BY <3>1, CurrentFacts DEF AttemptOK
  <2>2. CASE Start(o)
    <3>1. ~ db.paused
      BY <2>2 DEF Start, MInv, Moving
    <3>2. CASE old.phase = "starting"
      <4>1. /\ mem' = WithAttempt(o, [old EXCEPT !.phase = "running"]) /\ at' = at
            /\ pc' = [pc EXCEPT ![o] = "save"]
        BY <2>2, <3>2 DEF Start, Go
      <4>2. <<old.phase, [old EXCEPT !.phase = "running"].phase>> \in Advances(db.paused)
        BY <2>1, <3>1, <3>2 DEF Attempt, Advances, Lifecycle
      <4> QED
        BY <1>4, <4>1, <4>2
    <3>3. CASE old.phase # "starting"
      <4>1. pc' = [pc EXCEPT ![o] = "read"]
        BY <2>2, <3>3 DEF Start, Go
      <4> QED
        BY <1>5, <4>1
    <3> QED
      BY <3>2, <3>3
  <2>3. CASE Read(o)
    <3>1. ~ db.paused /\ old.phase \in {"running", "validating"}
      BY <2>3 DEF Read, MInv, Moving, IInv, CursorOK
    <3>2. PICK r \in receipt :
            mem' = WithAttempt(o,
              IF old.phase = "running"
                THEN [old EXCEPT !.candidate = r.result, !.phase = "stopping"]
                ELSE [old EXCEPT !.validation = r.result, !.phase = "validation-stopping"])
      BY <2>3 DEF Read
    <3> DEFINE t == IF old.phase = "running"
                      THEN [old EXCEPT !.candidate = r.result, !.phase = "stopping"]
                      ELSE [old EXCEPT !.validation = r.result, !.phase = "validation-stopping"]
    <3>3. at' = at /\ pc' = [pc EXCEPT ![o] = "save"]
      BY <2>3 DEF Read, Go
    <3>4. t.phase = IF old.phase = "running" THEN "stopping" ELSE "validation-stopping"
      BY <2>1 DEF Attempt
    <3>5. <<old.phase, t.phase>> \in Advances(db.paused)
      BY <3>1, <3>4 DEF Advances, Lifecycle
    <3>6. mem' = WithAttempt(o, t)
      BY <3>2
    <3> HIDE DEF t
    <3> QED
      BY <1>4, <3>3, <3>5, <3>6
  <2>4. CASE Observe(o) /\ Target(old) \notin running
    <3> DEFINE t == IF db.paused THEN [old EXCEPT !.phase = "suspended"] ELSE Stopped(old)
    <3>1. mem' = WithAttempt(o, t) /\ at' = at /\ pc' = [pc EXCEPT ![o] = "save"]
      BY <1>1, <2>4 DEF Observe, Go
    <3>2. old.phase \notin Terminal /\ old.phase \in Phase
      BY <2>1, <2>4 DEF Observe, IInv, CursorOK, Attempt
    <3>3. db.paused \/ old.phase \in {"stopping", "validation-stopping"}
      BY <2>4 DEF Observe, PInv, Staged
    <3>4. t.phase = IF db.paused THEN "suspended" ELSE Stopped(old).phase
      BY <2>1 DEF Attempt
    <3>5. ~ db.paused => <<old.phase, Stopped(old).phase>> \in Lifecycle
      <4>1. CASE old.phase = "stopping"
        BY <2>1, <4>1 DEF Stopped, Attempt, Lifecycle
      <4>2. CASE old.phase = "validation-stopping"
        BY <2>1, <4>2 DEF Stopped, Attempt, Lifecycle
      <4> QED
        BY <3>3, <4>1, <4>2
    <3>6. <<old.phase, t.phase>> \in Advances(db.paused)
      BY <3>2, <3>4, <3>5 DEF Advances
    <3> HIDE DEF t
    <3> QED
      BY <1>4, <3>1, <3>6
  <2>5. CASE Observe(o) /\ Target(old) \in running
    <3>1. /\ mem' = mem
          /\ \/ pc' = [pc EXCEPT ![o] = "save"] /\ at' = at
             \/ pc' = [pc EXCEPT ![o] = "visit"]
      BY <1>1, <2>5 DEF Observe, Go, NextTask
    <3>2. CASE pc' = [pc EXCEPT ![o] = "save"] /\ at' = at
      <4>1. CurAttempt(o)' = db'.attempts[Cur(o)']
        BY <1>1, <3>1, <3>2 DEF CurAttempt, Cur
      <4>2. Staged(o)'
        BY <1>0, <3>2, <4>1 DEF Staged
      <4> QED
        BY <1>0, <1>1, <3>2, <4>2, StagesOfOne
    <3> QED
      BY <1>5, <3>1, <3>2
  <2> QED
    BY <1>7, <2>2, <2>3, <2>4, <2>5
<1> QED
  BY <1>6, <1>7

LEMMA StagesNext == IInv /\ MInv /\ PInv /\ [Next]_vars => PInv'
<1> SUFFICES ASSUME IInv, MInv, PInv, [Next]_vars PROVE PInv'
  OBVIOUS
<1>1. ASSUME UNCHANGED <<db, session>>
      PROVE  \A q \in Operator : Staged(q)'
  <2>1. UNCHANGED <<db, pc, mem, at>>
    BY <1>1 DEF session
  <2>2. \A q \in Operator : Cur(q)' = Cur(q) /\ CurAttempt(q)' = CurAttempt(q)
    BY <2>1 DEF Cur, CurAttempt
  <2> QED
    BY <2>1, <2>2 DEF PInv, Staged
<1>2. ASSUME NEW k, Overwrite(k) \/ Converge(k) \/ (\E r \in Outcome(k) : Finish(k, r))
      PROVE  UNCHANGED <<db, session>>
  BY <1>2 DEF Overwrite, Converge, Finish
<1>3. UNCHANGED vars => UNCHANGED <<db, session>>
  BY DEF vars
<1>4. \A q \in Operator : Staged(q)'
  BY <1>1, <1>2, <1>3, OtherStages, StopStages, UpdateStages DEF Next, Tick, Pause
<1> QED
  BY <1>4, MarkedNext DEF PInv

LEMMA StagesAlways == Spec => [](IInv /\ MInv /\ PInv)
  BY InitMoves, MovesNext, InitStages, StagesNext, Invariance, PTL DEF Spec

\* No attempt comes back to a phase it has left: there is a rank that grows.
Rank(phase) ==
  CASE phase = "absent" -> 0
    [] phase = "starting" -> 1
    [] phase = "running" -> 2
    [] phase = "stopping" -> 3
    [] phase = "validating" -> 4
    [] phase = "validation-stopping" -> 5
    [] OTHER -> 6
LEMMA AdvancesClimb ==
  ASSUME NEW marked \in BOOLEAN, NEW e \in Advances(marked)
  PROVE  Rank(e[1]) < Rank(e[2])
  BY DEF Advances, Lifecycle, Phase, Terminal, Rank

\* Every write but a resumption's and a new revision's brings one attempt one
\* phase on.  As ranks grow, the writes between two such commands are bounded by
\* the number of tasks: what RunSettles rests on.
THEOREM AttemptsAdvance == Spec => PhasesAdvance
<1>1. IInv /\ MInv /\ PInv /\ [Next]_vars =>
        [db'.plan = db.plan =>
           \/ \E n \in Node :
                /\ db' = [db EXCEPT !.attempts[n] = db'.attempts[n]]
                /\ <<db.attempts[n].phase, db'.attempts[n].phase>> \in Advances(db.paused)
           \/ db' = [db EXCEPT !.paused = TRUE]
           \/ db.paused /\ Settled(db) /\ db' = Resumed(db)]_db
  <2>1. ASSUME NEW p \in Plans, db.plan # p, db' = Applied(db, p)
        PROVE  db'.plan # db.plan
    BY <2>1 DEF Applied, NoState
  <2> QED
    BY <2>1, WritesAdvance
<1> QED
  BY <1>1, StagesAlways, PTL DEF Spec, PhasesAdvance

\* What is not at its end can go on: among the tasks without a result there is,
\* plans having no cycles, one whose inputs all have theirs; nothing but a
\* suspension, which has its mark, could have stopped it.
THEOREM SomethingIsAlwaysDue == Spec => []SomethingIsDue
<1>1. IInv /\ PInv => SomethingIsDue
  <2> SUFFICES ASSUME IInv, PInv, db.plan # NoPlan, ~ db.paused, ~ Complete(db),
                      \A n \in Node : db.attempts[n].phase # "failed"
               PROVE  \E n \in Tasks(db.plan) :
                        Ready(db, n) /\ db.attempts[n].phase \notin Terminal
    BY DEF SomethingIsDue
  <2>1. ValidPlan(db.plan)
    BY PlansAssumption DEF IInv, TypeOK, State
  <2> DEFINE S == {n \in Tasks(db.plan) : db.attempts[n].phase # "succeeded"}
  <2>2. S # {}
    BY DEF Complete
  <2>3. PICK n \in S : db.plan.inputs[n] \cap S = {}
    BY <2>1, <2>2 DEF ValidPlan
  <2>4. n \in Node /\ db.plan.inputs[n] \subseteq Tasks(db.plan)
    BY <2>1 DEF ValidPlan, Tasks
  <2>5. Ready(db, n)
    BY <2>3, <2>4 DEF Ready
  <2>6. db.attempts[n].phase \notin Terminal
    BY <2>4 DEF Terminal, PInv, SuspendedIsMarked
  <2> QED
    BY <2>5, <2>6
<1> QED
  BY <1>1, StagesAlways, PTL
=============================================================================
