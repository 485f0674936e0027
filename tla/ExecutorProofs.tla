--------------------------- MODULE ExecutorProofs ---------------------------
(***************************************************************************)
(* For every workload with prerequisites that are earlier operations, any  *)
(* number of workers and any behaviour of the backend: an operation is     *)
(* submitted only after its prerequisites completed and their delay has    *)
(* passed, it is in one place at a time, and the pool ends only when all   *)
(* of them are done.  The same of the simulated mode, whose clock never    *)
(* passes an operation that could run.  In both, where conflicting         *)
(* operations are ordered, the outcomes are those of the serial order.     *)
(***************************************************************************)
EXTENDS MCExecutor, FiniteSetTheorems, WellFoundedInduction, TLAPS

\* Sets of operations are finite.
LEMMA OpsFinite ==
    ASSUME NEW S \in SUBSET Ops
    PROVE  IsFiniteSet(S) /\ Cardinality(S) \in Nat
<1>1. IsFiniteSet(Ops) BY WorkloadAssumption, FS_Interval DEF Ops
<1>2. IsFiniteSet(S) BY <1>1, FS_Subset
<1> QED BY <1>2, FS_CardinalityType

\* Only the empty set has no element.
LEMMA CountNone ==
    ASSUME NEW S \in SUBSET Ops
    PROVE  Cardinality(S) = 0 <=> S = {}
BY OpsFinite, FS_EmptySet

\* An element less.
LEMMA CountLess ==
    ASSUME NEW S \in SUBSET Ops, NEW o \in S
    PROVE  Cardinality(S \ {o}) = Cardinality(S) - 1
BY OpsFinite, FS_RemoveElement

\* An element more.
LEMMA CountMore ==
    ASSUME NEW S \in SUBSET Ops, NEW o \in Ops \ S
    PROVE  Cardinality(S \cup {o}) = Cardinality(S) + 1
<1>1. IsFiniteSet(S) BY OpsFinite
<1> QED BY <1>1, FS_AddElement

\* A single element.
LEMMA CountOne ==
    ASSUME NEW S \in SUBSET Ops, NEW o \in S
    PROVE  Cardinality(S) = 1 <=> S = {o}
<1>1. Cardinality(S \ {o}) = Cardinality(S) - 1 BY CountLess
<1>2. Cardinality(S \ {o}) = 0 <=> S \ {o} = {} BY CountNone
<1>3. Cardinality(S) \in Nat BY OpsFinite
<1>4. Cardinality(S) = 1 <=> S \ {o} = {} BY <1>1, <1>2, <1>3
<1> QED BY <1>4

\* N operations are all of them.
LEMMA CountAll ==
    ASSUME NEW S \in SUBSET Ops, Cardinality(S) >= N
    PROVE  S = Ops
<1>1. IsFiniteSet(Ops) /\ Cardinality(Ops) = N
  <2>1. 1 \in Int /\ N \in Int /\ N \in Nat BY WorkloadAssumption
  <2>2. IsFiniteSet(1 .. N) /\ Cardinality(1 .. N) = IF 1 > N THEN 0 ELSE N - 1 + 1
    BY <2>1, FS_Interval
  <2> QED BY <2>1, <2>2 DEF Ops
<1>2. Cardinality(S) <= Cardinality(Ops) /\ (Cardinality(S) = Cardinality(Ops) => S = Ops)
  BY <1>1, FS_Subset
<1>3. Cardinality(S) \in Nat /\ N \in Nat BY OpsFinite, WorkloadAssumption
<1> QED BY <1>1, <1>2, <1>3

\* A nonempty set of naturals below a bound has a greatest element.
LEMMA Greatest ==
    ASSUME NEW B \in Nat, NEW S \in SUBSET (0 .. B), S # {}
    PROVE  \E t \in S : \A u \in S : u <= t
<1> DEFINE T == {B - t : t \in S}
<1>1. T \subseteq Nat /\ T # {}
  <2>1. T \subseteq Nat OBVIOUS
  <2>2. PICK s \in S : TRUE OBVIOUS
  <2>3. B - s \in T OBVIOUS
  <2> QED BY <2>1, <2>3
<1>2. PICK x \in T : \A y \in T : ~(<<y, x>> \in OpToRel(<, Nat))
  BY <1>1, WFMin, NatLessThanWellFounded
<1>3. PICK t \in S : x = B - t OBVIOUS
<1>4. ASSUME NEW u \in S PROVE u <= t
  <2>1. B - u \in T OBVIOUS
  <2>2. ~(<<B - u, x>> \in OpToRel(<, Nat)) BY <1>2, <2>1
  <2>3. B - u \in Nat /\ x \in Nat BY <1>1, <2>1
  <2>4. ~(B - u < x) BY <2>2, <2>3 DEF OpToRel
  <2>5. u \in 0 .. B /\ t \in 0 .. B OBVIOUS
  <2> QED BY <1>3, <2>4, <2>5
<1> QED BY <1>3, <1>4

\* _eligible_time is a time no earlier than the release and than every
\* prerequisite's completion plus the delay.
LEMMA EligibleIsLatest ==
    ASSUME deps \in DepChoices, NEW done \in [Ops -> Nat \cup {-1}], time \in Nat,
           NEW o \in Ops,
           \A d \in deps[o] : done[d] # -1 /\ done[d] <= time
    PROVE  /\ Eligible(o, done) \in Nat
           /\ Release[o] <= Eligible(o, done)
           /\ \A d \in deps[o] : done[d] + Delay[o] <= Eligible(o, done)
<1> DEFINE B == Release[o] + time + Delay[o]
           S == EligibleTimes(o, done)
<1>1. Release[o] \in Nat /\ Delay[o] \in Nat /\ deps[o] \subseteq Ops BY WorkloadAssumption
<1>2. B \in Nat BY <1>1
<1>3. S \subseteq 0 .. B /\ S # {}
  <2>1. ASSUME NEW d \in deps[o] PROVE done[d] + Delay[o] \in 0 .. B
    <3>1. done[d] \in Nat /\ done[d] <= time BY <1>1
    <3> QED BY <1>1, <3>1
  <2>2. Release[o] \in 0 .. B BY <1>1
  <2> QED BY <2>1, <2>2 DEF EligibleTimes
<1>4. \E t \in S : \A u \in S : u <= t
  <2> HIDE DEF S, B
  <2> QED BY <1>2, <1>3, Greatest
<1>5. Eligible(o, done) \in S /\ \A u \in S : u <= Eligible(o, done)
  BY <1>4 DEF Eligible
<1>6. Release[o] \in S /\ \A d \in deps[o] : done[d] + Delay[o] \in S
  BY DEF EligibleTimes
<1>7. Eligible(o, done) \in Nat BY <1>3, <1>5
<1> QED BY <1>5, <1>6, <1>7

\* The dependency graph relates operations to earlier ones.
LEMMA DepsType ==
    ASSUME deps \in DepChoices
    PROVE  deps \in [Ops -> SUBSET Ops] /\ \A o \in Ops : deps[o] \in SUBSET Ops
BY WorkloadAssumption

\* Initially the roots are on the heap and nobody works.
LEMMA InitExecInv == ExecInit => CrewInv
<1> SUFFICES ASSUME ExecInit PROVE CrewInv
  OBVIOUS
<1> USE DEF ExecInit, LoadInit, Roots
<1>1. deps \in DepChoices OBVIOUS
<1>2. \A o \in Ops : deps[o] \in SUBSET Ops /\ Cardinality(deps[o]) \in Nat
  BY <1>1, DepsType, OpsFinite
<1>3. Release \in [Ops -> Nat] /\ N \in Nat BY WorkloadAssumption
<1>4. ExecTypeOK
  <2>1. remaining \in [Ops -> Nat] BY <1>2
  <2>2. due \in [Ops -> Nat] BY <1>3
  <2>3. rank \in [Ops -> Nat] /\ pushes \in Nat BY <1>3 DEF Ops
  <2>4. submit \in [Ops -> Nat \cup {-1}] /\ complete \in [Ops -> Nat \cup {-1}] OBVIOUS
  <2>5. job \in [Crew -> Ops \cup {Idle}] OBVIOUS
  <2>6. step \in [Crew -> {"look", "taken", "submitted", "performed", "exit"}] OBVIOUS
  <2> QED BY <2>1, <2>2, <2>3, <2>4, <2>5, <2>6 DEF ExecTypeOK, LoadTypeOK
<1>5. OnePlace
  <2>1. running = Cardinality(inflight) BY FS_EmptySet
  <2> QED BY <2>1 DEF OnePlace
<1>6. HeldOnce BY DEF HeldOnce, Held
<1>7. AfterPrerequisites BY DEF AfterPrerequisites
<1>8. NobodyLeavesEarly BY DEF NobodyLeavesEarly
<1>9. Counted
  <2>1. finished = Cardinality(retired) BY FS_EmptySet
  <2>2. \A o \in Ops : deps[o] \ retired = deps[o] OBVIOUS
  <2> QED BY <2>1, <2>2 DEF Counted, Remaining
<1>10. Keyed BY <1>3 DEF Keyed
<1>11. Placed BY DEF Placed
<1> QED BY <1>1, <1>4, <1>5, <1>6, <1>7, <1>8, <1>9, <1>10, <1>11 DEF CrewInv

\* What a worker holds is taken, and its prerequisites are retired.
LEMMA HeldIsTaken ==
    ASSUME CrewInv, NEW w \in Crew, job[w] # Idle
    PROVE  /\ job[w] \in Ops /\ job[w] \in inflight /\ job[w] \notin retired
           /\ job[w] \notin pending
           /\ deps[job[w]] \subseteq retired
<1>1. job[w] \in Ops BY DEF CrewInv, ExecTypeOK
<1>2. job[w] \in inflight BY DEF CrewInv, HeldOnce, Held
<1> QED BY <1>1, <1>2 DEF CrewInv, OnePlace

\* Time passes.
LEMMA PassingInv == ASSUME CrewInv, Passing PROVE CrewInv'
<1> USE DEF CrewInv, Passing, heapVars, crewVars
<1>1. ExecTypeOK' BY DEF ExecTypeOK, LoadTypeOK
<1>2. (OnePlace /\ HeldOnce /\ AfterPrerequisites /\ NobodyLeavesEarly /\ Counted)'
  BY DEF OnePlace, HeldOnce, Held, AfterPrerequisites, NobodyLeavesEarly, Counted, Remaining
<1>3. Keyed' BY DEF Keyed, ExecTypeOK, LoadTypeOK
<1>4. Placed'
  <2> SUFFICES ASSUME NEW w \in Crew, job[w] # Idle PROVE due[job[w]] <= time + 1
    BY DEF Placed
  <2>1. job[w] \in Ops BY HeldIsTaken
  <2>2. due[job[w]] \in Nat /\ time \in Nat BY <2>1 DEF ExecTypeOK, LoadTypeOK
  <2> QED BY <2>2 DEF Placed
<1> QED BY <1>1, <1>2, <1>3, <1>4

\* A worker takes the head of the heap.
LEMMA PopInv == ASSUME CrewInv, NEW w \in Crew, Pop(w) PROVE CrewInv'
<1> PICK o \in pending : HeapHead(o) /\ due[o] <= time /\ TakeOp(o)
                          /\ job' = [job EXCEPT ![w] = o]
  BY DEF Pop
<1> USE DEF CrewInv, TakeOp
<1>1. o \in Ops /\ o \notin inflight /\ o \notin retired
  BY DEF OnePlace, ExecTypeOK, LoadTypeOK
<1>2. job[w] = Idle BY DEF Placed, Pop
<1>3. ExecTypeOK'
  <2>1. job' \in [Crew -> Ops \cup {Idle}] BY <1>1 DEF ExecTypeOK
  <2>2. running' \in Int BY DEF ExecTypeOK, LoadTypeOK
  <2> QED BY <1>1, <2>1, <2>2 DEF Pop, ExecTypeOK, LoadTypeOK
<1>4. OnePlace'
  <2>1. running' = Cardinality(inflight')
    <3>1. inflight \in SUBSET Ops BY DEF ExecTypeOK, LoadTypeOK
    <3> QED BY <1>1, <3>1, CountMore DEF OnePlace
  <2>2. \A p \in Ops : p \in pending' \cup inflight' \cup retired
                         <=> p \in pending \cup inflight \cup retired
    OBVIOUS
  <2> QED BY <1>1, <2>1, <2>2 DEF OnePlace, Pop
<1>5. HeldOnce'
  <2>1. \A v \in Crew : v # w => job'[v] = job[v] /\ job'[v] # o
    <3> SUFFICES ASSUME NEW v \in Crew, v # w PROVE job'[v] = job[v] /\ job[v] # o
      OBVIOUS
    <3>1. job'[v] = job[v] BY DEF ExecTypeOK
    <3>2. job[v] # Idle => job[v] \in inflight BY HeldIsTaken
    <3>3. o # Idle BY <1>1 DEF Ops, Idle
    <3> QED BY <1>1, <3>1, <3>2, <3>3
  <2>2. job'[w] = o /\ o # Idle BY <1>1 DEF ExecTypeOK, Ops, Idle
  <2>3. Held' = Held \cup {o} BY <1>2, <2>1, <2>2 DEF Held
  <2> QED BY <2>1, <2>2, <2>3 DEF HeldOnce
<1>6. (AfterPrerequisites /\ NobodyLeavesEarly /\ Counted)'
  BY DEF AfterPrerequisites, NobodyLeavesEarly, Counted, Remaining, Pop, ExecTypeOK
<1>7. Keyed' BY DEF Keyed, Pop
<1>8. Placed'
  <2> SUFFICES ASSUME NEW v \in Crew
               PROVE  /\ job'[v] = Idle <=> step'[v] \in {"look", "exit"}
                      /\ job'[v] # Idle => due[job'[v]] <= time
                      /\ step'[v] = "performed" => complete[job'[v]] # -1
    BY DEF Placed, Pop
  <2>1. CASE v = w
    <3>1. job'[v] = o /\ step'[v] = "taken" BY <2>1 DEF Pop, ExecTypeOK
    <3> QED BY <1>1, <3>1 DEF Ops, Idle
  <2>2. CASE v # w
    <3>1. job'[v] = job[v] /\ step'[v] = step[v] BY <2>2 DEF Pop, ExecTypeOK
    <3> QED BY <3>1 DEF Placed
  <2> QED BY <2>1, <2>2
<1> QED BY <1>3, <1>4, <1>5, <1>6, <1>7, <1>8 DEF Pop

\* The submission time is entered: the operation's time has come, so every
\* prerequisite's delay has passed.
LEMMA SubmitInv == ASSUME CrewInv, NEW w \in Crew, Submit(w) PROVE CrewInv'
<1> DEFINE o == job[w]
<1> USE DEF CrewInv
<1>1. job[w] # Idle BY DEF Placed, Submit
<1>2. o \in Ops /\ o \in inflight /\ deps[o] \subseteq retired BY <1>1, HeldIsTaken
<1>3. time \in Nat BY DEF ExecTypeOK, LoadTypeOK
<1>4. submit' = [submit EXCEPT ![o] = time] BY DEF Submit
<1>5. UNCHANGED <<deps, time, heapVars, complete, job, finished>> BY DEF Submit
<1>6. \A v \in Crew : step'[v] = IF v = w THEN "submitted" ELSE step[v]
  BY DEF Submit, ExecTypeOK
<1> HIDE DEF o
<1>7. ExecTypeOK'
  <2>1. submit' \in [Ops -> Nat \cup {-1}] BY <1>2, <1>3, <1>4 DEF ExecTypeOK, LoadTypeOK
  <2>2. step' \in [Crew -> {"look", "taken", "submitted", "performed", "exit"}]
    BY DEF Submit, ExecTypeOK
  <2> QED BY <1>5, <2>1, <2>2 DEF ExecTypeOK, LoadTypeOK, heapVars
<1>8. (OnePlace /\ HeldOnce /\ Counted)'
  BY <1>5 DEF OnePlace, HeldOnce, Held, Counted, Remaining, heapVars
<1>9. AfterPrerequisites'
  <2> SUFFICES ASSUME NEW p \in Ops, submit'[p] # -1
               PROVE  /\ submit'[p] >= Release[p]
                      /\ \A d \in deps[p] : complete[d] # -1 /\ submit'[p] >= complete[d] + Delay[p]
    BY <1>5 DEF AfterPrerequisites
  <2>1. CASE p = o
    <3>1. submit'[p] = time BY <1>2, <1>4, <2>1 DEF ExecTypeOK, LoadTypeOK
    <3>2. Release[o] <= due[o] /\ \A d \in deps[o] : complete[d] + Delay[o] <= due[o]
      BY <1>2 DEF Keyed
    <3>3. due[o] <= time BY <1>1 DEF Placed, o
    <3>4. due[o] \in Nat /\ Release[o] \in Nat /\ Delay[o] \in Nat
      BY <1>2, WorkloadAssumption DEF ExecTypeOK, LoadTypeOK
    <3>5. ASSUME NEW d \in deps[o] PROVE complete[d] # -1 /\ time >= complete[d] + Delay[o]
      <4>1. d \in retired /\ d \in Ops BY <1>2 DEF ExecTypeOK, LoadTypeOK
      <4>2. complete[d] # -1 BY <4>1 DEF Keyed
      <4>3. complete[d] \in Nat BY <4>1, <4>2 DEF ExecTypeOK, LoadTypeOK
      <4> QED BY <1>3, <3>2, <3>3, <3>4, <4>2, <4>3
    <3>6. time >= Release[o] BY <1>3, <3>2, <3>3, <3>4
    <3> QED BY <2>1, <3>1, <3>5, <3>6
  <2>2. CASE p # o
    <3>1. submit'[p] = submit[p] BY <1>4, <2>2 DEF ExecTypeOK, LoadTypeOK
    <3> QED BY <3>1 DEF AfterPrerequisites
  <2> QED BY <2>1, <2>2
<1>10. NobodyLeavesEarly' BY <1>5, <1>6 DEF NobodyLeavesEarly, heapVars
<1>11. Keyed'
  <2>1. \A p \in Ops : submit'[p] # -1 => p \in inflight \cup retired
    BY <1>2, <1>4 DEF Keyed, ExecTypeOK, LoadTypeOK
  <2> QED BY <1>5, <2>1 DEF Keyed, heapVars
<1>12. Placed' BY <1>1, <1>5, <1>6 DEF Placed, heapVars
<1> QED BY <1>5, <1>7, <1>8, <1>9, <1>10, <1>11, <1>12

\* The completion is entered.  Nobody waiting for the operation has been
\* submitted, so no row that depends on it is disturbed.
LEMMA PerformInv == ASSUME CrewInv, NEW w \in Crew, Perform(w) PROVE CrewInv'
<1> DEFINE o == job[w]
<1> USE DEF CrewInv
<1>1. job[w] # Idle BY DEF Placed, Perform
<1>2. o \in Ops /\ o \in inflight /\ o \notin retired BY <1>1, HeldIsTaken
<1>3. time \in Nat BY DEF ExecTypeOK, LoadTypeOK
<1>4. complete' = [complete EXCEPT ![o] = time] BY DEF Perform
<1>5. UNCHANGED <<deps, time, heapVars, submit, job, finished>> BY DEF Perform
<1>6. \A v \in Crew : step'[v] = IF v = w THEN "performed" ELSE step[v]
  BY DEF Perform, ExecTypeOK
<1>7. \A p \in Ops : complete'[p] = IF p = o THEN time ELSE complete[p]
  BY <1>2, <1>4 DEF ExecTypeOK, LoadTypeOK
<1> HIDE DEF o
<1>8. ExecTypeOK'
  <2>1. complete' \in [Ops -> Nat \cup {-1}] BY <1>2, <1>3, <1>4 DEF ExecTypeOK, LoadTypeOK
  <2>2. step' \in [Crew -> {"look", "taken", "submitted", "performed", "exit"}]
    BY DEF Perform, ExecTypeOK
  <2> QED BY <1>5, <2>1, <2>2 DEF ExecTypeOK, LoadTypeOK, heapVars
<1>9. (OnePlace /\ HeldOnce /\ Counted)'
  BY <1>5 DEF OnePlace, HeldOnce, Held, Counted, Remaining, heapVars
<1>10. \A p \in pending \cup inflight \cup retired : \A d \in deps[p] : complete'[d] = complete[d]
  <2> SUFFICES ASSUME NEW p \in pending \cup inflight \cup retired, NEW d \in deps[p]
               PROVE  complete'[d] = complete[d]
    OBVIOUS
  <2>1. p \in Ops BY DEF ExecTypeOK, LoadTypeOK
  <2>2. d \in retired BY <2>1 DEF OnePlace
  <2>3. d \in Ops BY <2>2 DEF ExecTypeOK, LoadTypeOK
  <2> QED BY <1>2, <1>7, <2>2, <2>3
<1>11. AfterPrerequisites'
  <2> SUFFICES ASSUME NEW p \in Ops, submit[p] # -1
               PROVE  /\ submit[p] >= Release[p]
                      /\ \A d \in deps[p] : complete'[d] # -1 /\ submit[p] >= complete'[d] + Delay[p]
    BY <1>5 DEF AfterPrerequisites
  <2>1. p \in inflight \cup retired BY DEF Keyed
  <2>2. \A d \in deps[p] : complete'[d] = complete[d] BY <1>10, <2>1
  <2> QED BY <2>2 DEF AfterPrerequisites
<1>12. NobodyLeavesEarly' BY <1>5, <1>6 DEF NobodyLeavesEarly, heapVars
<1>13. Keyed'
  <2> SUFFICES ASSUME NEW p \in Ops
               PROVE  /\ complete'[p] <= time
                      /\ p \in retired => complete'[p] # -1
                      /\ p \in pending \cup inflight =>
                           /\ Release[p] <= due[p]
                           /\ \A d \in deps[p] : complete'[d] + Delay[p] <= due[p]
    BY <1>5 DEF Keyed, heapVars
  <2>1. complete'[p] <= time BY <1>3, <1>7 DEF Keyed
  <2>2. p \in retired => complete'[p] # -1 BY <1>2, <1>7 DEF Keyed
  <2>3. p \in pending \cup inflight => \A d \in deps[p] : complete'[d] = complete[d] BY <1>10
  <2> QED BY <2>1, <2>2, <2>3 DEF Keyed
<1>14. Placed'
  <2> SUFFICES ASSUME NEW v \in Crew
               PROVE  /\ job[v] = Idle <=> step'[v] \in {"look", "exit"}
                      /\ job[v] # Idle => due[job[v]] <= time
                      /\ step'[v] = "performed" => complete'[job[v]] # -1
    BY <1>5 DEF Placed, heapVars
  <2>1. CASE v = w
    <3>1. complete'[job[v]] = time BY <1>2, <1>7, <2>1 DEF o
    <3> QED BY <1>1, <1>3, <1>6, <2>1, <3>1 DEF Placed
  <2>2. CASE v # w
    <3>1. step'[v] = step[v] BY <1>6, <2>2
    <3>2. ASSUME step[v] = "performed" PROVE complete'[job[v]] # -1
      <4>1. job[v] # Idle /\ complete[job[v]] # -1 BY <3>2 DEF Placed
      <4>2. job[v] \in Ops BY <4>1, HeldIsTaken
      <4> QED BY <1>3, <1>7, <4>1, <4>2
    <3> QED BY <3>1, <3>2 DEF Placed
  <2> QED BY <2>1, <2>2
<1> QED BY <1>5, <1>8, <1>9, <1>11, <1>12, <1>13, <1>14

\* The operations pushed by a retirement are those whose last prerequisite
\* it was.
LEMMA FreedAreUnblocked ==
    ASSUME deps \in DepChoices, Remaining, NEW o \in Ops, o \notin retired, NEW p \in Ops
    PROVE  p \in Freed(o) <=> ~(deps[p] \subseteq retired) /\ deps[p] \subseteq retired \cup {o}
<1> DEFINE left == deps[p] \ retired
<1>1. left \in SUBSET Ops BY DepsType
<1>2. remaining[p] = Cardinality(left) BY DEF Remaining
<1>3. CASE o \in deps[p]
  <2>1. o \in left BY <1>3
  <2>2. Cardinality(left) = 1 <=> left = {o}
    <3> HIDE DEF left
    <3> QED BY <1>1, <2>1, CountOne
  <2>3. left = {o} <=> ~(deps[p] \subseteq retired) /\ deps[p] \subseteq retired \cup {o}
    BY <1>3
  <2> QED BY <1>2, <1>3, <2>2, <2>3 DEF Freed, Dependents
<1>4. CASE o \notin deps[p]
  BY <1>4 DEF Freed, Dependents
<1> QED BY <1>3, <1>4

\* A retirement takes one from the prerequisites left of each dependent.
LEMMA RetireCounted ==
    ASSUME LoadInv, NEW o \in Ops, o \notin retired, NEW done, RetireOp(o, done), deps' = deps
    PROVE  Remaining' /\ remaining' \in [Ops -> Nat]
<1>1. deps \in DepChoices /\ Remaining BY DEF LoadInv
<1>2. retired' = retired \cup {o} BY DEF RetireOp
<1>3. remaining' = [p \in Ops |-> IF p \in Dependents(o) THEN remaining[p] - 1 ELSE remaining[p]]
  BY DEF RetireOp
<1>4. ASSUME NEW p \in Ops PROVE remaining'[p] = Cardinality(deps[p] \ retired') /\ remaining'[p] \in Nat
  <2>1. deps[p] \in SUBSET Ops BY <1>1, DepsType
  <2>2. remaining[p] = Cardinality(deps[p] \ retired) BY <1>1 DEF Remaining
  <2>3. CASE o \in deps[p]
    <3>1. o \in deps[p] \ retired /\ deps[p] \ retired \in SUBSET Ops BY <2>1, <2>3
    <3>2. Cardinality((deps[p] \ retired) \ {o}) = Cardinality(deps[p] \ retired) - 1
      BY <3>1, CountLess
    <3>3. deps[p] \ retired' = (deps[p] \ retired) \ {o} BY <1>2
    <3>4. Cardinality(deps[p] \ retired') \in Nat BY <2>1, OpsFinite
    <3>5. remaining'[p] = remaining[p] - 1 BY <1>3, <2>3 DEF Dependents
    <3> QED BY <2>2, <3>2, <3>3, <3>4, <3>5
  <2>4. CASE o \notin deps[p]
    <3>1. deps[p] \ retired' = deps[p] \ retired BY <1>2, <2>4
    <3>2. Cardinality(deps[p] \ retired) \in Nat BY <2>1, OpsFinite
    <3>3. remaining'[p] = remaining[p] BY <1>3, <2>4 DEF Dependents
    <3> QED BY <2>2, <3>1, <3>2, <3>3
  <2> QED BY <2>3, <2>4
<1>5. \A p \in Ops : remaining'[p] \in Nat BY <1>4
<1>6. remaining' \in [Ops -> Nat] BY <1>3, <1>5
<1> QED BY <1>4, <1>6 DEF Remaining

\* done are the completions with the one of o, which is being retired.
Completions(o, done) ==
    /\ done \in [Ops -> Nat \cup {-1}] /\ done[o] # -1
    /\ \A p \in Ops : done[p] <= time /\ (p # o => done[p] = complete[p])

\* The key of a pushed operation is a time that its prerequisites allow.
LEMMA FreedKeys ==
    ASSUME LoadInv, NEW o \in Ops, o \notin retired, NEW done, Completions(o, done), RetireOp(o, done),
           NEW p \in Freed(o)
    PROVE  /\ due'[p] \in Nat
           /\ Release[p] <= due'[p]
           /\ \A d \in deps[p] : done[d] + Delay[p] <= due'[p]
<1>1. deps \in DepChoices /\ Remaining /\ retired \subseteq Ops /\ time \in Nat /\ Keyed BY DEF LoadInv, LoadTypeOK
<1>2. p \in Ops BY DEF Freed, Dependents
<1>3. deps[p] \subseteq retired \cup {o} BY <1>1, <1>2, FreedAreUnblocked
<1>4. ASSUME NEW d \in deps[p] PROVE done[d] # -1 /\ done[d] <= time
  BY <1>1, <1>3 DEF Completions, Keyed
<1>5. due'[p] = Eligible(p, done) BY <1>2 DEF RetireOp
<1>6. done \in [Ops -> Nat \cup {-1}] BY DEF Completions
<1>7. /\ Eligible(p, done) \in Nat
      /\ Release[p] <= Eligible(p, done)
      /\ \A d \in deps[p] : done[d] + Delay[p] <= Eligible(p, done)
  BY <1>1, <1>2, <1>4, <1>6, EligibleIsLatest
<1> QED BY <1>5, <1>7

\* An operation is retired and those it was the last prerequisite of are
\* pushed.
LEMMA LoadRetire ==
    ASSUME LoadInv, NEW o \in inflight, NEW done, Completions(o, done), RetireOp(o, done), complete' = done,
           UNCHANGED <<deps, time, submit>>
    PROVE  /\ LoadInv' /\ o \in Ops /\ o \notin retired
           /\ pending \subseteq pending' /\ inflight' = inflight \ {o} /\ retired' = retired \cup {o}
           /\ \A p \in inflight : p # o => due'[p] = due[p]
<1> USE DEF LoadInv
<1>1. o \in Ops /\ o \notin retired /\ o \notin pending BY DEF LoadTypeOK, OnePlace
<1>2. /\ pending' = pending \cup Freed(o) /\ inflight' = inflight \ {o}
      /\ retired' = retired \cup {o} /\ running' = running - 1
  BY DEF RetireOp
<1>3. Freed(o) \subseteq Ops BY DEF Freed, Dependents
<1>4. \A p \in Ops : due'[p] = due[p] \/ p \in Freed(o)
  BY DEF RetireOp
<1>5. \A p \in Freed(o) : p \notin pending /\ p \notin inflight /\ p \notin retired
  <2> SUFFICES ASSUME NEW p \in Freed(o)
               PROVE  p \notin pending /\ p \notin inflight /\ p \notin retired
    OBVIOUS
  <2>1. p \in Ops /\ ~(deps[p] \subseteq retired) BY <1>1, <1>3, FreedAreUnblocked
  <2> QED BY <2>1 DEF OnePlace
<1>6. Remaining' /\ remaining' \in [Ops -> Nat] BY <1>1, RetireCounted
<1>7. \A p \in Freed(o) : /\ due'[p] \in Nat /\ Release[p] <= due'[p]
                          /\ \A d \in deps[p] : done[d] + Delay[p] <= due'[p]
  BY <1>1, FreedKeys
<1>8. LoadTypeOK'
  <2>1. due' \in [Ops -> Nat]
    <3>1. \A p \in Ops : due'[p] \in Nat
      <4> SUFFICES ASSUME NEW p \in Ops PROVE due'[p] \in Nat
        OBVIOUS
      <4>1. due[p] \in Nat BY DEF LoadTypeOK
      <4> QED BY <1>4, <1>7, <4>1
    <3>2. due' = [p \in Ops |-> IF p \in Freed(o) THEN Eligible(p, done) ELSE due[p]]
      BY DEF RetireOp
    <3> QED BY <3>1, <3>2
  <2>2. rank' \in [Ops -> Nat] /\ pushes' \in Nat
    <3>1. N \in Nat /\ rank \in [Ops -> Nat] /\ pushes \in Nat
      BY WorkloadAssumption DEF LoadTypeOK
    <3>2. Ops \subseteq Nat BY DEF Ops
    <3> QED BY <3>1, <3>2 DEF RetireOp
  <2>3. running' \in Int BY <1>2 DEF LoadTypeOK
  <2>4. pending' \subseteq Ops /\ inflight' \subseteq Ops /\ retired' \subseteq Ops
    BY <1>1, <1>2, <1>3 DEF LoadTypeOK
  <2>5. complete' \in [Ops -> Nat \cup {-1}] BY DEF Completions
  <2> QED BY <1>6, <2>1, <2>2, <2>3, <2>4, <2>5 DEF LoadTypeOK
<1>9. OnePlace'
  <2>1. running' = Cardinality(inflight')
    <3>1. inflight \in SUBSET Ops BY DEF LoadTypeOK
    <3> QED BY <1>2, <3>1, CountLess DEF OnePlace
  <2>2. /\ pending' \cap inflight' = {} /\ pending' \cap retired' = {}
        /\ inflight' \cap retired' = {}
    <3>1. o \notin Freed(o) BY <1>5
    <3> QED BY <1>1, <1>2, <1>5, <3>1 DEF OnePlace
  <2>3. ASSUME NEW p \in Ops
        PROVE  p \in pending' \cup inflight' \cup retired' <=> deps[p] \subseteq retired'
    <3>1. p \in pending' \cup inflight' \cup retired'
            <=> p \in pending \cup inflight \cup retired \/ p \in Freed(o)
      BY <1>2
    <3>2. p \in pending \cup inflight \cup retired <=> deps[p] \subseteq retired BY DEF OnePlace
    <3>3. p \in Freed(o) <=> ~(deps[p] \subseteq retired) /\ deps[p] \subseteq retired \cup {o}
      BY <1>1, FreedAreUnblocked
    <3> QED BY <1>2, <3>1, <3>2, <3>3
  <2> QED BY <2>1, <2>2, <2>3 DEF OnePlace
<1>10. \A p \in Ops : p \in pending \cup inflight \cup retired => o \notin deps[p]
  BY <1>1 DEF OnePlace
<1>11. AfterPrerequisites'
  <2> SUFFICES ASSUME NEW p \in Ops, submit[p] # -1
               PROVE  /\ submit[p] >= Release[p]
                      /\ \A d \in deps[p] : done[d] # -1 /\ submit[p] >= done[d] + Delay[p]
    BY DEF AfterPrerequisites
  <2>1. p \in inflight \cup retired BY DEF Keyed
  <2>2. \A d \in deps[p] : d \in Ops /\ d # o BY <1>10, <2>1, DepsType
  <2>3. \A d \in deps[p] : done[d] = complete[d] BY <2>2 DEF Completions
  <2> QED BY <2>3 DEF AfterPrerequisites
<1>12. Keyed'
  <2> SUFFICES ASSUME NEW p \in Ops
               PROVE  /\ done[p] <= time
                      /\ p \in retired' => done[p] # -1
                      /\ submit[p] # -1 => p \in inflight' \cup retired'
                      /\ p \in pending' \cup inflight' =>
                           /\ Release[p] <= due'[p]
                           /\ \A d \in deps[p] : done[d] + Delay[p] <= due'[p]
    BY DEF Keyed
  <2>1. done[p] <= time BY DEF Completions
  <2>2. p \in retired' => done[p] # -1 BY <1>2 DEF Completions, Keyed
  <2>3. submit[p] # -1 => p \in inflight' \cup retired' BY <1>2 DEF Keyed
  <2>4. CASE p \in Freed(o) BY <1>7, <2>1, <2>2, <2>3, <2>4
  <2>5. CASE p \notin Freed(o)
    <3>1. due'[p] = due[p] BY <1>4, <2>5
    <3>2. p \in pending' \cup inflight' => p \in pending \cup inflight BY <1>2, <2>5
    <3>3. p \in pending \cup inflight => \A d \in deps[p] : done[d] = complete[d]
      BY <1>10, DepsType DEF Completions
    <3> QED BY <2>1, <2>2, <2>3, <3>1, <3>2, <3>3 DEF Keyed
  <2> QED BY <2>4, <2>5
<1> QED BY <1>1, <1>2, <1>4, <1>5, <1>6, <1>8, <1>9, <1>11, <1>12 DEF LoadTypeOK

\* A worker retires its operation.
LEMMA RetireInv == ASSUME CrewInv, NEW w \in Crew, Retire(w) PROVE CrewInv'
<1> DEFINE o == job[w]
<1> USE DEF CrewInv
<1>1. job[w] # Idle /\ complete[job[w]] # -1 BY DEF Placed, Retire
<1>2. o \in Ops /\ o \in inflight /\ o \notin retired BY <1>1, HeldIsTaken
<1>3. LoadInv BY DEF LoadInv, ExecTypeOK, Counted
<1>4. Completions(o, complete)
  BY <1>1, <1>2 DEF Completions, Keyed, ExecTypeOK, LoadTypeOK
<1>5. RetireOp(o, complete) /\ UNCHANGED <<deps, time, submit, complete>> BY DEF Retire
<1>6. \A v \in Crew : /\ job'[v] = (IF v = w THEN Idle ELSE job[v])
                      /\ step'[v] = (IF v = w THEN "look" ELSE step[v])
  BY DEF Retire, ExecTypeOK
<1>7. \A v \in Crew : v # w => job[v] # o BY <1>1 DEF HeldOnce
<1>8. finished' = finished + 1 BY DEF Retire
<1>9. job' \in [Crew -> Ops \cup {Idle}]
      /\ step' \in [Crew -> {"look", "taken", "submitted", "performed", "exit"}]
  BY DEF Retire, ExecTypeOK
<1>10. /\ LoadInv' /\ inflight' = inflight \ {o} /\ retired' = retired \cup {o}
       /\ \A p \in inflight : p # o => due'[p] = due[p]
  <2>1. PICK done : done = complete OBVIOUS
  <2>2. Completions(o, done) /\ RetireOp(o, done) /\ complete' = done BY <1>4, <1>5, <2>1
  <2> HIDE DEF o
  <2> QED BY <1>2, <1>3, <1>5, <2>2, LoadRetire
<1>11. ExecTypeOK'
  BY <1>8, <1>9, <1>10 DEF ExecTypeOK, LoadInv
<1>12. Held' = Held \ {o} BY <1>6, <1>7 DEF Held
<1> HIDE DEF o
<1>13. HeldOnce' BY <1>6, <1>10, <1>12 DEF HeldOnce
<1>14. NobodyLeavesEarly'
  <2>1. retired = Ops => retired' = Ops BY <1>2, <1>10
  <2> QED BY <1>6, <2>1 DEF NobodyLeavesEarly
<1>15. Counted'
  <2>1. retired \in SUBSET Ops BY DEF ExecTypeOK, LoadTypeOK
  <2>2. Cardinality(retired') = Cardinality(retired) + 1 BY <1>2, <1>10, <2>1, CountMore
  <2> QED BY <1>8, <1>10, <2>2 DEF Counted, LoadInv
<1>16. Placed'
  <2> SUFFICES ASSUME NEW v \in Crew
               PROVE  /\ job'[v] = Idle <=> step'[v] \in {"look", "exit"}
                      /\ job'[v] # Idle => due'[job'[v]] <= time
                      /\ step'[v] = "performed" => complete[job'[v]] # -1
    BY <1>5 DEF Placed
  <2>1. CASE v = w BY <1>6, <2>1
  <2>2. CASE v # w
    <3>1. job'[v] = job[v] /\ step'[v] = step[v] BY <1>6, <2>2
    <3>2. ASSUME job[v] # Idle PROVE due'[job[v]] = due[job[v]]
      <4>1. job[v] \in inflight /\ job[v] # o BY <1>7, <2>2, <3>2, HeldIsTaken
      <4> QED BY <1>10, <4>1
    <3> QED BY <3>1, <3>2 DEF Placed
  <2> QED BY <2>1, <2>2
<1> QED BY <1>10, <1>11, <1>13, <1>14, <1>15, <1>16 DEF LoadInv

\* A worker returns: N operations are retired, so all of them are.
LEMMA ExitInv == ASSUME CrewInv, NEW w \in Crew, Exit(w) PROVE CrewInv'
<1> USE DEF CrewInv
<1>1. UNCHANGED <<loadVars, job, finished>> BY DEF Exit
<1>2. \A v \in Crew : step'[v] = IF v = w THEN "exit" ELSE step[v]
  BY DEF Exit, ExecTypeOK
<1>3. ExecTypeOK'
  <2>1. step' \in [Crew -> {"look", "taken", "submitted", "performed", "exit"}]
    BY DEF Exit, ExecTypeOK
  <2> QED BY <1>1, <2>1 DEF ExecTypeOK, LoadTypeOK, loadVars, heapVars
<1>4. (OnePlace /\ HeldOnce /\ AfterPrerequisites /\ Counted /\ Keyed)'
  BY <1>1 DEF OnePlace, HeldOnce, Held, AfterPrerequisites, Counted, Remaining, Keyed, loadVars, heapVars
<1>5. retired = Ops
  <2>1. retired \in SUBSET Ops BY DEF ExecTypeOK, LoadTypeOK
  <2>2. Cardinality(retired) >= N BY DEF Counted, Remaining, Exit
  <2> QED BY <2>1, <2>2, CountAll
<1>6. NobodyLeavesEarly' BY <1>1, <1>5 DEF NobodyLeavesEarly, loadVars, heapVars
<1>7. Placed'
  <2>1. step[w] = "look" BY DEF Exit
  <2> QED BY <1>1, <1>2, <2>1 DEF Placed, loadVars, heapVars
<1> QED BY <1>1, <1>3, <1>4, <1>6, <1>7 DEF loadVars

\* Every step preserves the inductive invariant.
LEMMA NextExecInv == CrewInv /\ [ExecNext]_execVars => CrewInv'
<1> SUFFICES ASSUME CrewInv, [ExecNext]_execVars PROVE CrewInv'
  OBVIOUS
<1>1. CASE Passing BY <1>1, PassingInv
<1>2. ASSUME NEW w \in Crew, Work(w) PROVE CrewInv'
  BY <1>2, PopInv, SubmitInv, PerformInv, RetireInv, ExitInv DEF Work
<1>3. CASE UNCHANGED execVars
  BY <1>3 DEF execVars, loadVars, heapVars, crewVars, CrewInv, ExecTypeOK, LoadTypeOK,
     OnePlace, HeldOnce, Held, AfterPrerequisites, NobodyLeavesEarly, Counted, Remaining, Keyed, Placed
<1> QED BY <1>1, <1>2, <1>3 DEF ExecNext

\* The inductive invariant holds in every state of the pool.
THEOREM PoolCorrect == ExecSpec => []CrewInv
<1>1. ExecInit => CrewInv BY InitExecInv
<1>2. CrewInv /\ [ExecNext]_execVars => CrewInv' BY NextExecInv
<1> QED BY <1>1, <1>2, PTL DEF ExecSpec

\* No operation is lost, repeated or taken by two workers.
THEOREM EveryOpInOnePlace == ExecSpec => []OnePlace
<1>1. CrewInv => OnePlace BY DEF CrewInv
<1> QED BY <1>1, PoolCorrect, PTL

\* A worker that returns leaves nothing behind.
THEOREM PoolEndsWithAll == ExecSpec => []NobodyLeavesEarly
<1>1. CrewInv => NobodyLeavesEarly BY DEF CrewInv
<1> QED BY <1>1, PoolCorrect, PTL

----------------------------------------------------------------------------
(* The simulated mode.                                                     *)

\* A nonempty set of naturals has a least element.
LEMMA Least ==
    ASSUME NEW S \in SUBSET Nat, S # {}
    PROVE  \E n \in S : \A m \in S : n <= m
<1>1. PICK n \in S : \A m \in S : ~(<<m, n>> \in OpToRel(<, Nat))
  BY WFMin, NatLessThanWellFounded
<1>2. \A m \in S : ~(m < n) BY <1>1 DEF OpToRel
<1> QED BY <1>2

\* A heap that is not empty has a head.
LEMMA HeadExists ==
    ASSUME LoadTypeOK, pending # {}
    PROVE  \E o \in pending : HeapHead(o)
<1>0. pending \subseteq Ops /\ due \in [Ops -> Nat] /\ rank \in [Ops -> Nat] BY DEF LoadTypeOK
<1> DEFINE D == {due[o] : o \in pending}
<1>1. PICK d \in D : \A e \in D : d <= e
  <2>1. D \in SUBSET Nat /\ D # {} BY <1>0
  <2> HIDE DEF D
  <2> QED BY <2>1, Least
<1> DEFINE first == {o \in pending : due[o] = d}
           R == {rank[o] : o \in first}
<1>2. PICK r \in R : \A q \in R : r <= q
  <2>1. R \in SUBSET Nat /\ R # {} BY <1>0
  <2> HIDE DEF R
  <2> QED BY <2>1, Least
<1>3. PICK o \in first : rank[o] = r OBVIOUS
<1>4. ASSUME NEW p \in pending PROVE due[o] < due[p] \/ (due[o] = due[p] /\ rank[o] <= rank[p])
  <2>1. due[o] = d /\ due[p] \in D /\ due[o] \in Nat /\ due[p] \in Nat BY <1>0
  <2>2. d <= due[p] BY <1>1, <2>1
  <2>3. CASE due[p] = d
    <3>1. rank[p] \in R BY <2>3
    <3> QED BY <1>2, <1>3, <2>1, <2>3, <3>1
  <2>4. CASE due[p] # d BY <2>1, <2>2, <2>4
  <2> QED BY <2>3, <2>4
<1> QED BY <1>4 DEF HeapHead

\* When nothing is on the heap and nothing taken, everything is retired: the
\* first operation that is not would have all its prerequisites retired.
LEMMA NothingLeft ==
    ASSUME LoadInv, pending = {}, inflight = {}
    PROVE  retired = Ops
<1>0. deps \in DepChoices /\ OnePlace /\ retired \subseteq Ops BY DEF LoadInv, LoadTypeOK
<1> DEFINE S == Ops \ retired
<1> SUFFICES ASSUME S # {} PROVE FALSE BY <1>0
<1>1. PICK o \in S : \A p \in S : o <= p
  <2>1. S \in SUBSET Nat BY DEF Ops
  <2> HIDE DEF S
  <2> QED BY <2>1, Least
<1>2. \A d \in deps[o] : d \in Ops /\ d < o BY <1>0, WorkloadAssumption
<1>3. deps[o] \subseteq retired
  <2> SUFFICES ASSUME NEW d \in deps[o], d \notin retired PROVE FALSE OBVIOUS
  <2>1. d \in S /\ d < o BY <1>2
  <2>2. o <= d BY <1>1, <2>1
  <2>3. o \in Nat /\ d \in Nat BY <1>2 DEF Ops
  <2> QED BY <2>1, <2>2, <2>3
<1> QED BY <1>0, <1>3 DEF OnePlace

\* An operation whose time has come is taken and submitted.
LEMMA LoadTake ==
    ASSUME LoadInv, NEW o \in pending, due[o] <= time, TakeOp(o), submit' = [submit EXCEPT ![o] = time],
           rank' \in [Ops -> Nat], pushes' \in Nat,
           UNCHANGED <<deps, time, remaining, due, retired, complete>>
    PROVE  LoadInv' /\ o \in Ops /\ o \notin inflight /\ o \notin retired
<1> USE DEF LoadInv
<1>1. o \in Ops /\ o \notin inflight /\ o \notin retired /\ deps[o] \subseteq retired /\ inflight \in SUBSET Ops
  BY DEF LoadTypeOK, OnePlace
<1>2. pending' = pending \ {o} /\ inflight' = inflight \cup {o} /\ running' = running + 1 BY DEF TakeOp
<1>3. LoadTypeOK'
  <2>1. submit' \in [Ops -> Nat \cup {-1}] BY <1>1 DEF LoadTypeOK
  <2>2. running' \in Int /\ pending' \subseteq Ops /\ inflight' \subseteq Ops BY <1>1, <1>2 DEF LoadTypeOK
  <2> QED BY <2>1, <2>2 DEF LoadTypeOK
<1>4. OnePlace'
  <2>1. running' = Cardinality(inflight') BY <1>1, <1>2, CountMore DEF OnePlace
  <2> QED BY <1>1, <1>2, <2>1 DEF OnePlace
<1>5. AfterPrerequisites'
  <2> SUFFICES ASSUME NEW p \in Ops, submit'[p] # -1
               PROVE  /\ submit'[p] >= Release[p]
                      /\ \A d \in deps[p] : complete[d] # -1 /\ submit'[p] >= complete[d] + Delay[p]
    BY DEF AfterPrerequisites
  <2>1. CASE p = o
    <3>1. submit'[o] = time BY <1>1 DEF LoadTypeOK
    <3>2. time \in Nat /\ due[o] \in Nat /\ Release[o] \in Nat /\ Release[o] <= due[o]
      BY <1>1, WorkloadAssumption DEF LoadTypeOK, Keyed
    <3>3. ASSUME NEW d \in deps[o] PROVE complete[d] # -1 /\ time >= complete[d] + Delay[o]
      <4>1. d \in Ops /\ d \in retired /\ complete[d] \in Nat \cup {-1} /\ Delay[o] \in Nat
        BY <1>1, WorkloadAssumption DEF LoadTypeOK
      <4>2. complete[d] # -1 /\ complete[d] + Delay[o] <= due[o] BY <1>1, <4>1 DEF Keyed
      <4> QED BY <3>2, <4>1, <4>2
    <3> QED BY <2>1, <3>1, <3>2, <3>3
  <2>2. CASE p # o
    <3>1. submit'[p] = submit[p] BY <2>2 DEF LoadTypeOK
    <3> QED BY <3>1 DEF AfterPrerequisites
  <2> QED BY <2>1, <2>2
<1>6. Remaining' BY DEF Remaining
<1>7. Keyed'
  <2>1. \A p \in Ops : submit'[p] # -1 => p = o \/ submit[p] # -1 BY DEF LoadTypeOK
  <2> QED BY <1>2, <2>1 DEF Keyed
<1> QED BY <1>1, <1>3, <1>4, <1>5, <1>6, <1>7

\* Time passes.
LEMMA LoadPass ==
    ASSUME LoadInv, time' \in Nat, time <= time', UNCHANGED <<deps, heapVars, submit, complete>>
    PROVE  LoadInv'
<1> USE DEF LoadInv, heapVars
<1>1. LoadTypeOK' BY DEF LoadTypeOK
<1>2. OnePlace' /\ AfterPrerequisites' /\ Remaining' BY DEF OnePlace, AfterPrerequisites, Remaining
<1>3. \A o \in Ops : complete[o] <= time'
  <2> SUFFICES ASSUME NEW o \in Ops PROVE complete[o] <= time' OBVIOUS
  <2>1. complete[o] \in Int /\ complete[o] <= time /\ time \in Int BY DEF LoadTypeOK, Keyed
  <2> QED BY <2>1
<1>4. Keyed' BY <1>3 DEF Keyed
<1> QED BY <1>1, <1>2, <1>4

\* Initially the roots are on the heap.
LEMMA LoadStart == LoadInit => LoadInv
<1> SUFFICES ASSUME LoadInit PROVE LoadInv
  OBVIOUS
<1> USE DEF LoadInit, Roots
<1>1. deps \in DepChoices OBVIOUS
<1>2. \A o \in Ops : deps[o] \in SUBSET Ops /\ Cardinality(deps[o]) \in Nat
  BY <1>1, DepsType, OpsFinite
<1>3. Release \in [Ops -> Nat] /\ N \in Nat BY WorkloadAssumption
<1>4. LoadTypeOK BY <1>2, <1>3 DEF LoadTypeOK, Ops
<1>5. OnePlace BY FS_EmptySet DEF OnePlace
<1>6. AfterPrerequisites BY DEF AfterPrerequisites
<1>7. Remaining
  <2>1. \A o \in Ops : deps[o] \ retired = deps[o] BY <1>2
  <2> QED BY <2>1 DEF Remaining
<1>8. Keyed BY <1>3 DEF Keyed
<1> QED BY <1>1, <1>4, <1>5, <1>6, <1>7, <1>8 DEF LoadInv

\* What is inductive of the event loop without the outcomes' order.
LoopInv == LoadInv /\ SimTypeOK /\ EndsWithAll /\ Recorded

\* Answers are outcomes, and none is missing.
LEMMA AnswerGiven == ASSUME NEW o, NEW s PROVE Answer(o, s) \in Outcomes \ {"none", "error"}
BY DEF Answer, Outcomes

\* The head of the heap is submitted and performed.
LEMMA SubmitKeeps ==
    ASSUME LoopInv, SimSubmit
    PROVE  LoopInv' /\ \E o \in Ops :
             /\ o \notin inflight /\ o \notin retired /\ deps[o] \subseteq retired
             /\ inflight' = inflight \cup {o} /\ retired' = retired /\ deps' = deps
             /\ \A p \in Ops : p # o => answer'[p] = answer[p]
             /\ \/ objects' = Effect(o, objects) /\ answer'[o] = Answer(o, objects)
                \/ objects' = objects /\ answer'[o] = "error"
<1>0. LoadInv /\ SimTypeOK /\ Recorded /\ LoadTypeOK BY DEF LoopInv, LoadInv
<1>1. PICK o \in pending, t \in Service :
        /\ HeapHead(o) /\ TakeOp(o) /\ submit' = [submit EXCEPT ![o] = time]
        /\ \/ objects' = Effect(o, objects) /\ answer' = [answer EXCEPT ![o] = Answer(o, objects)]
           \/ objects' = objects /\ answer' = [answer EXCEPT ![o] = "error"]
        /\ endsAt' = [endsAt EXCEPT ![o] = IF o \in Cancelled THEN time ELSE time + t]
        /\ rank' = [rank EXCEPT ![o] = pushes]
  BY DEF SimSubmit
<1>2. /\ UNCHANGED <<deps, time, remaining, due, retired, complete, outcome, phase>>
      /\ phase = "submit" /\ running < Workers /\ pushes' = pushes + 1
  BY DEF SimSubmit, CanSubmit
<1>3. due[o] <= time
  <2>1. PICK h \in pending : HeapHead(h) /\ due[h] <= time BY DEF SimSubmit, CanSubmit
  <2>2. due[o] \in Nat /\ due[h] \in Nat /\ time \in Nat BY <1>0 DEF LoadTypeOK
  <2>3. due[o] <= due[h] BY <1>1, <2>1, <2>2 DEF HeapHead
  <2> QED BY <2>1, <2>2, <2>3
<1>4. rank' \in [Ops -> Nat] /\ pushes' \in Nat BY <1>0, <1>1, <1>2 DEF LoadTypeOK
<1>5. LoadInv' /\ o \in Ops /\ o \notin inflight /\ o \notin retired
  BY <1>0, <1>1, <1>2, <1>3, <1>4, LoadTake
<1>6. deps[o] \subseteq retired BY <1>0, <1>5 DEF LoadInv, OnePlace
<1>7. SimTypeOK'
  <2>1. time \in Nat /\ t \in Nat /\ running \in Int /\ Workers \in Nat BY <1>0, SimAssumption DEF LoadTypeOK
  <2>2. endsAt' \in [Ops -> Nat] BY <1>0, <1>1, <1>5, <2>1 DEF SimTypeOK
  <2>3. running' = running + 1 BY <1>1 DEF TakeOp
  <2>4. running' <= Workers BY <1>2, <2>1, <2>3
  <2> QED BY <1>2, <2>2, <2>4 DEF SimTypeOK
<1>8. EndsWithAll' BY <1>2 DEF EndsWithAll
<1>9. inflight' = inflight \cup {o} BY <1>1 DEF TakeOp
<1>10. PICK a \in Outcomes : a # "none" /\ answer' = [answer EXCEPT ![o] = a]
               /\ \/ objects' = Effect(o, objects) /\ a = Answer(o, objects)
                  \/ objects' = objects /\ a = "error"
  BY <1>1, AnswerGiven DEF Outcomes
<1>11. answer'[o] = a /\ \A p \in Ops : p # o => answer'[p] = answer[p]
  BY <1>0, <1>5, <1>10 DEF Recorded
<1>12. Recorded'
  <2>1. answer' \in [Ops -> Outcomes] BY <1>0, <1>10 DEF Recorded
  <2>2. outcome' \in [Ops -> Outcomes] BY <1>0, <1>2 DEF Recorded
  <2>3. \A p \in Ops : /\ answer'[p] # "none" <=> p \in inflight' \cup retired'
                       /\ outcome'[p] = IF p \in retired' THEN answer'[p] ELSE "none"
    BY <1>0, <1>2, <1>5, <1>9, <1>10, <1>11 DEF Recorded
  <2> QED BY <2>1, <2>2, <2>3 DEF Recorded
<1> QED BY <1>2, <1>5, <1>6, <1>7, <1>8, <1>9, <1>10, <1>11, <1>12 DEF LoopInv

\* What has completed is retired.
LEMMA RetireKeeps ==
    ASSUME LoopInv, SimRetire
    PROVE  /\ LoopInv' /\ UNCHANGED <<deps, objects, answer>>
           /\ \E o \in inflight : inflight' = inflight \ {o} /\ retired' = retired \cup {o}
<1>0. LoadInv /\ SimTypeOK /\ Recorded /\ LoadTypeOK /\ Keyed BY DEF LoopInv, LoadInv
<1>1. PICK o \in inflight : /\ endsAt[o] <= time /\ complete' = [complete EXCEPT ![o] = endsAt[o]]
                            /\ outcome' = [outcome EXCEPT ![o] = answer[o]] /\ RetireOp(o, complete')
  BY DEF SimRetire
<1>2. phase = "retire" /\ UNCHANGED <<deps, time, submit, objects, phase, endsAt, answer>> BY DEF SimRetire
<1>3. PICK done : done = complete' OBVIOUS
<1>4. o \in Ops /\ endsAt[o] \in Nat /\ complete \in [Ops -> Nat \cup {-1}] BY <1>0 DEF SimTypeOK, LoadTypeOK
<1>5. Completions(o, done)
  <2>1. done = [complete EXCEPT ![o] = endsAt[o]] BY <1>1, <1>3
  <2>2. done[o] = endsAt[o] /\ \A p \in Ops : p # o => done[p] = complete[p] BY <1>4, <2>1
  <2>3. done \in [Ops -> Nat \cup {-1}] BY <1>4, <2>1
  <2>4. \A p \in Ops : done[p] <= time BY <1>0, <1>1, <2>2 DEF Keyed
  <2> QED BY <1>4, <2>2, <2>3, <2>4 DEF Completions
<1>6. RetireOp(o, done) BY <1>1, <1>3
<1>7. LoadInv' /\ o \notin retired /\ inflight' = inflight \ {o} /\ retired' = retired \cup {o}
  BY <1>0, <1>2, <1>3, <1>5, <1>6, LoadRetire
<1>8. SimTypeOK'
  <2>1. running' = running - 1 BY <1>6 DEF RetireOp
  <2>2. running \in Int /\ Workers \in Nat /\ running <= Workers BY <1>0, SimAssumption DEF LoadTypeOK, SimTypeOK
  <2> QED BY <1>0, <1>2, <2>1, <2>2 DEF SimTypeOK
<1>9. EndsWithAll' BY <1>2 DEF EndsWithAll
<1>10. Recorded'
  <2>0. outcome \in [Ops -> Outcomes] /\ answer \in [Ops -> Outcomes] /\ outcome' \in [Ops -> Outcomes]
    BY <1>0, <1>1, <1>4 DEF Recorded
  <2> SUFFICES ASSUME NEW p \in Ops
               PROVE  /\ answer[p] # "none" <=> p \in inflight' \cup retired'
                      /\ outcome'[p] = IF p \in retired' THEN answer[p] ELSE "none"
    BY <1>2, <2>0 DEF Recorded
  <2>1. answer[p] # "none" <=> p \in inflight' \cup retired' BY <1>0, <1>7 DEF Recorded
  <2>2. CASE p = o
    <3>1. outcome'[o] = answer[o] BY <1>1, <1>4, <2>0
    <3> QED BY <1>7, <2>1, <2>2, <3>1
  <2>3. CASE p # o
    <3>1. outcome'[p] = outcome[p] BY <1>1, <2>0, <2>3
    <3> QED BY <1>0, <1>7, <2>1, <2>3, <3>1 DEF Recorded
  <2> QED BY <2>2, <2>3
<1> QED BY <1>2, <1>7, <1>8, <1>9, <1>10 DEF LoopInv

\* The times the clock may advance to are times.
LEMMA EventTimes == ASSUME LoopInv PROVE NextEvents \subseteq Nat
<1>1. /\ inflight \subseteq Ops /\ pending \subseteq Ops /\ due \in [Ops -> Nat] /\ endsAt \in [Ops -> Nat]
  BY DEF LoopInv, LoadInv, LoadTypeOK, SimTypeOK
<1> QED BY <1>1 DEF NextEvents

\* The clock advances, a round ends, or the loop does: it ends only when
\* everything is retired.
LEMMA LoopKeeps ==
    ASSUME LoopInv, SimAdvance \/ SimRound \/ SimEnd
    PROVE  LoopInv' /\ UNCHANGED <<deps, heapVars, outcome, objects, answer>>
<1>0. LoadInv /\ SimTypeOK /\ Recorded /\ LoadTypeOK /\ time \in Nat BY DEF LoopInv, LoadInv, LoadTypeOK
<1>1. UNCHANGED <<deps, heapVars, submit, complete, outcome, objects, endsAt, answer>>
  BY DEF SimAdvance, SimRound, SimEnd, loadVars
<1>2. time' \in Nat /\ time <= time'
  <2>1. CASE SimAdvance
    <3>1. PICK t \in NextEvents : time' = IF t > time THEN t ELSE time BY <2>1 DEF SimAdvance
    <3>2. t \in Nat BY EventTimes
    <3> QED BY <1>0, <3>1, <3>2
  <2>2. CASE SimRound \/ SimEnd BY <1>0, <2>2 DEF SimRound, SimEnd, loadVars
  <2> QED BY <2>1, <2>2
<1>3. LoadInv' BY <1>0, <1>1, <1>2, LoadPass
<1>4. phase' \in {"submit", "retire", "end"} BY DEF SimAdvance, SimRound, SimEnd
<1>5. SimTypeOK' /\ Recorded' BY <1>0, <1>1, <1>4 DEF SimTypeOK, Recorded, heapVars
<1>6. EndsWithAll'
  <2>1. CASE SimEnd
    <3>1. NextEvents = {} BY <2>1 DEF SimEnd
    <3>2. inflight = {} BY <3>1 DEF NextEvents
    <3>3. running = 0 /\ Workers \in Nat \ {0} BY <1>0, <3>2, FS_EmptySet, SimAssumption DEF LoadInv, OnePlace
    <3>4. {p \in pending : HeapHead(p)} = {} BY <3>1, <3>3 DEF NextEvents
    <3>5. pending = {} BY <1>0, <3>4, HeadExists
    <3>6. retired = Ops BY <1>0, <3>2, <3>5, NothingLeft
    <3> QED BY <1>1, <3>6 DEF EndsWithAll, heapVars
  <2>2. CASE SimAdvance \/ SimRound BY <2>2 DEF SimAdvance, SimRound, EndsWithAll
  <2> QED BY <2>1, <2>2
<1> QED BY <1>1, <1>3, <1>5, <1>6 DEF LoopInv

\* Initially nothing has been submitted.
LEMMA LoopStart == SimInit => LoopInv
<1> SUFFICES ASSUME SimInit PROVE LoopInv
  OBVIOUS
<1>1. LoadInv BY LoadStart DEF SimInit
<1>2. SimTypeOK BY SimAssumption DEF SimInit, LoadInit, SimTypeOK
<1>3. EndsWithAll BY DEF SimInit, EndsWithAll
<1>4. Recorded BY DEF SimInit, LoadInit, Recorded, Outcomes
<1> QED BY <1>1, <1>2, <1>3, <1>4 DEF LoopInv

\* Every step of the event loop preserves its invariant.
LEMMA LoopStep == LoopInv /\ [SimNext]_<<loadVars, simVars>> => LoopInv'
<1> SUFFICES ASSUME LoopInv, [SimNext]_<<loadVars, simVars>> PROVE LoopInv'
  OBVIOUS
<1>1. CASE UNCHANGED <<loadVars, simVars>>
  BY <1>1 DEF loadVars, simVars, heapVars, LoopInv, LoadInv, LoadTypeOK, OnePlace, AfterPrerequisites,
     Remaining, Keyed, SimTypeOK, EndsWithAll, Recorded
<1> QED BY <1>1, SubmitKeeps, RetireKeeps, LoopKeeps DEF SimNext

\* The clock passes no eligible operation while a worker is free: it goes to
\* the head of the heap at the latest, and no operation is due before that.
THEOREM LagIsContention == SimSpec => NoIdleLag
<1>1. ASSUME LoopInv, SimNext, phase = "submit", running < Workers, time' > time, NEW o \in pending
      PROVE  time' <= due[o]
  <2>0. LoadTypeOK /\ pending \subseteq Ops /\ due \in [Ops -> Nat] /\ time \in Nat
    BY <1>1 DEF LoopInv, LoadInv, LoadTypeOK
  <2>1. time' # time BY <1>1, <2>0
  <2>2. SimAdvance
    BY <1>1, <2>1 DEF SimNext, SimSubmit, SimRetire, SimRound, SimEnd, loadVars
  <2>3. PICK t \in NextEvents : (\A u \in NextEvents : t <= u) /\ time' = IF t > time THEN t ELSE time
    BY <2>2 DEF SimAdvance
  <2>4. PICK h \in pending : HeapHead(h) BY <2>0, HeadExists
  <2>5. due[h] \in NextEvents BY <1>1, <2>4 DEF NextEvents
  <2>6. t \in Nat /\ t <= due[h] /\ time' = t BY <1>1, <2>0, <2>1, <2>3, <2>5, EventTimes
  <2>7. due[h] \in Nat /\ due[o] \in Nat /\ due[h] <= due[o] BY <2>0, <2>4 DEF HeapHead
  <2> QED BY <2>6, <2>7
<1>2. LoopInv /\ [SimNext]_<<loadVars, simVars>> =>
        [phase = "submit" /\ running < Workers /\ time' > time
           => \A o \in pending : time' <= due[o]]_<<loadVars, simVars>>
  BY <1>1
<1> QED BY <1>2, LoopStart, LoopStep, PTL DEF SimSpec, NoIdleLag

----------------------------------------------------------------------------
\* f is a step from one value to the next, and g the values it goes through.
IsStep(V, f) == f \in [(1 .. N) \X V -> V]
IsRun(V, b, f, g) ==
    g \in [0 .. N -> V] /\ g[0] = b /\ \A i \in 1 .. N : g[i] = f[<<i, g[i - 1]>>]

\* A function defined by recursion over 0 .. N exists: one that satisfies
\* the recursion up to n, and no further, could be continued.
LEMMA Recursion ==
    ASSUME NEW V, NEW b \in V, NEW f, IsStep(V, f)
    PROVE  \E g : IsRun(V, b, f, g)
<1> DEFINE Upto(g, n) == g[0] = b /\ \A i \in 1 .. N : i <= n => g[i] = f[<<i, g[i - 1]>>]
           Bad == {n \in 0 .. N : ~ \E g \in [0 .. N -> V] : Upto(g, n)}
<1>0. N \in Nat BY WorkloadAssumption
<1>1. Bad = {}
  <2> SUFFICES ASSUME Bad # {} PROVE FALSE OBVIOUS
  <2>1. PICK n \in Bad : \A m \in Bad : n <= m
    <3>1. Bad \in SUBSET Nat OBVIOUS
    <3> HIDE DEF Bad
    <3> QED BY <3>1, Least
  <2>2. n \in 0 .. N /\ n \in Nat BY <1>0
  <2>3. n # 0
    <3> DEFINE c == [i \in 0 .. N |-> b]
    <3>1. c \in [0 .. N -> V] /\ c[0] = b BY <1>0
    <3> HIDE DEF c
    <3>2. \A i \in 1 .. N : ~(i <= 0) BY <1>0
    <3>3. Upto(c, 0) BY <3>1, <3>2
    <3> QED BY <3>1, <3>3
  <2>4. n - 1 \in 0 .. N /\ n \in 1 .. N BY <1>0, <2>2, <2>3
  <2>5. n - 1 \notin Bad
    <3> HIDE DEF Bad
    <3> QED BY <2>1, <2>2
  <2>6. PICK g \in [0 .. N -> V] : Upto(g, n - 1) BY <2>4, <2>5
  <2> DEFINE h == [g EXCEPT ![n] = f[<<n, g[n - 1]>>]]
  <2>7. f[<<n, g[n - 1]>>] \in V BY <2>4, <2>6 DEF IsStep
  <2>8. h \in [0 .. N -> V] /\ h[n] = f[<<n, g[n - 1]>>] /\ \A i \in 0 .. N : i # n => h[i] = g[i]
    BY <2>2, <2>6, <2>7
  <2>9. Upto(h, n)
    <3> HIDE DEF h
    <3>1. h[0] = b BY <1>0, <2>3, <2>6, <2>8
    <3>2. ASSUME NEW i \in 1 .. N, i <= n PROVE h[i] = f[<<i, h[i - 1]>>]
      <4>1. i - 1 \in 0 .. N /\ i \in 0 .. N /\ i - 1 # n BY <1>0, <2>2, <3>2
      <4>2. h[i - 1] = g[i - 1] BY <2>8, <4>1
      <4>3. CASE i = n BY <2>8, <4>2, <4>3
      <4>4. CASE i # n
        <5>1. i <= n - 1 BY <2>2, <3>2, <4>4
        <5>2. g[i] = f[<<i, g[i - 1]>>] BY <2>6, <5>1
        <5> QED BY <2>8, <4>1, <4>2, <4>4, <5>2
      <4> QED BY <4>3, <4>4
    <3> QED BY <3>1, <3>2
  <2> HIDE DEF h
  <2> QED BY <2>1, <2>8, <2>9
<1>2. PICK g \in [0 .. N -> V] : Upto(g, N)
  <2>1. N \in 0 .. N BY <1>0
  <2> QED BY <1>1, <2>1
<1>3. IsRun(V, b, f, g) BY <1>0, <1>2 DEF IsRun
<1> QED BY <1>3

\* What Serially defines is the workload run in its order.
LEMMA SerialRun ==
    ASSUME NEW F
    PROVE  /\ Serially(F)[0] = Live
           /\ \A i \in 1 .. N : Serially(F)[i] = IF i \in F THEN Serially(F)[i - 1]
                                                            ELSE Effect(i, Serially(F)[i - 1])
<1> DEFINE V == SUBSET (Live \cup {Obj[o] : o \in Ops})
           f == [p \in (1 .. N) \X V |-> IF p[1] \in F THEN p[2] ELSE Effect(p[1], p[2])]
           E(g) == g = [i \in 0 .. N |-> IF i = 0 THEN Live
                                         ELSE IF i \in F THEN g[i - 1] ELSE Effect(i, g[i - 1])]
<1>0. N \in Nat BY WorkloadAssumption
<1>1. \A i \in 1 .. N : \A s \in V : Effect(i, s) \in V BY DEF Effect, Ops
<1>2. IsStep(V, f) BY <1>1 DEF IsStep
<1>3. Live \in V OBVIOUS
<1>4. PICK g \in [0 .. N -> V] : g[0] = Live /\ \A i \in 1 .. N : g[i] = f[<<i, g[i - 1]>>]
  <2> HIDE DEF f, V
  <2>1. \E g : IsRun(V, Live, f, g) BY <1>2, <1>3, Recursion, Zenon
  <2> QED BY <2>1 DEF IsRun
<1>5. \A i \in 1 .. N : g[i] = IF i \in F THEN g[i - 1] ELSE Effect(i, g[i - 1])
  <2> SUFFICES ASSUME NEW i \in 1 .. N PROVE g[i] = IF i \in F THEN g[i - 1] ELSE Effect(i, g[i - 1])
    OBVIOUS
  <2>1. g[i - 1] \in V
    <3>1. i - 1 \in 0 .. N BY <1>0
    <3> HIDE DEF V
    <3> QED BY <1>4, <3>1
  <2>2. <<i, g[i - 1]>> \in (1 .. N) \X V BY <2>1
  <2> HIDE DEF V
  <2> QED BY <1>4, <2>2
<1>6. E(g)
  <2>1. \A i \in 0 .. N : g[i] = IF i = 0 THEN Live
                                 ELSE IF i \in F THEN g[i - 1] ELSE Effect(i, g[i - 1])
    <3> SUFFICES ASSUME NEW i \in 0 .. N
                 PROVE  g[i] = IF i = 0 THEN Live ELSE IF i \in F THEN g[i - 1] ELSE Effect(i, g[i - 1])
      OBVIOUS
    <3>1. i = 0 \/ i \in 1 .. N BY <1>0
    <3> QED BY <1>4, <1>5, <3>1
  <2> HIDE DEF V
  <2> QED BY <1>4, <2>1
<1>7. Serially(F) = CHOOSE h : E(h) BY DEF Serially
<1>8. E(Serially(F))
  <2> HIDE DEF E
  <2> QED BY <1>6, <1>7
<1>9. 0 \in 0 .. N /\ \A i \in 1 .. N : i \in 0 .. N /\ i # 0 BY <1>0
<1> DEFINE r == Serially(F)
<1> HIDE DEF r
<1>10. E(r) BY <1>8 DEF r
<1>11. r[0] = Live BY <1>9, <1>10
<1>12. \A i \in 1 .. N : r[i] = IF i \in F THEN r[i - 1] ELSE Effect(i, r[i - 1])
  BY <1>9, <1>10
<1> QED BY <1>11, <1>12 DEF r

\* What an operation does to x depends on no other object, and only a writer
\* of x does anything to it.
LEMMA EffectAt ==
    ASSUME NEW o \in Ops, NEW x, NEW s, NEW t, x \in s <=> x \in t
    PROVE  /\ x \in Effect(o, s) <=> x \in Effect(o, t)
           /\ o \notin Writers(x) => (x \in Effect(o, s) <=> x \in s)
BY DEF Effect, Writers

\* What it answers depends on its own object only.
LEMMA AnswerAt ==
    ASSUME NEW o \in Ops, NEW s, NEW t, Obj[o] \in s <=> Obj[o] \in t
    PROVE  Answer(o, s) = Answer(o, t)
BY DEF Answer

\* Whether x is there after k operations depends only on which of its
\* writers among them failed.
LEMMA SameWriters ==
    ASSUME NEW F, NEW G, NEW x, NEW k \in 0 .. N,
           \A w \in Writers(x) : w <= k => (w \in F <=> w \in G)
    PROVE  x \in Serially(F)[k] <=> x \in Serially(G)[k]
<1> DEFINE f == Serially(F)
           g == Serially(G)
           Bad == {i \in 0 .. N : i <= k /\ ~(x \in f[i] <=> x \in g[i])}
<1>0. N \in Nat BY WorkloadAssumption
<1>1. f[0] = Live /\ \A i \in 1 .. N : f[i] = IF i \in F THEN f[i - 1] ELSE Effect(i, f[i - 1])
  BY SerialRun
<1>2. g[0] = Live /\ \A i \in 1 .. N : g[i] = IF i \in G THEN g[i - 1] ELSE Effect(i, g[i - 1])
  BY SerialRun
<1> HIDE DEF f, g
<1>3. Bad = {}
  <2> SUFFICES ASSUME Bad # {} PROVE FALSE OBVIOUS
  <2>1. PICK i \in Bad : \A j \in Bad : i <= j
    <3>1. Bad \in SUBSET Nat OBVIOUS
    <3> HIDE DEF Bad
    <3> QED BY <3>1, Least
  <2>2. i # 0 /\ i \in 1 .. N /\ i - 1 \in 0 .. N /\ i <= k /\ i - 1 <= k BY <1>0, <1>1, <1>2
  <2>3. i - 1 \notin Bad
    <3> HIDE DEF Bad
    <3> QED BY <2>1, <2>2
  <2>4. x \in f[i - 1] <=> x \in g[i - 1] BY <2>2, <2>3
  <2>5. i \in Ops BY <2>2 DEF Ops
  <2>6. x \in Effect(i, f[i - 1]) <=> x \in Effect(i, g[i - 1]) BY <2>4, <2>5, EffectAt
  <2>7. f[i] = IF i \in F THEN f[i - 1] ELSE Effect(i, f[i - 1]) BY <1>1, <2>2
  <2>8. g[i] = IF i \in G THEN g[i - 1] ELSE Effect(i, g[i - 1]) BY <1>2, <2>2
  <2>9. CASE i \in Writers(x)
    <3>1. i \in F <=> i \in G BY <2>2, <2>9
    <3>2. x \in f[i] <=> x \in g[i] BY <2>4, <2>6, <2>7, <2>8, <3>1
    <3> QED BY <3>2
  <2>10. CASE i \notin Writers(x)
    <3>1. x \in Effect(i, f[i - 1]) <=> x \in f[i - 1] BY <2>5, <2>10, EffectAt
    <3>2. x \in Effect(i, g[i - 1]) <=> x \in g[i - 1] BY <2>5, <2>10, EffectAt
    <3>3. x \in f[i] <=> x \in g[i] BY <2>4, <2>7, <2>8, <3>1, <3>2
    <3> QED BY <3>3
  <2> QED BY <2>9, <2>10
<1>4. k \notin Bad /\ k <= k BY <1>0, <1>3
<1>5. x \in f[k] <=> x \in g[k] BY <1>4
<1> QED BY <1>5 DEF f, g

\* Nothing happens to x between two of its writers.
LEMMA NoWriters ==
    ASSUME NEW F, NEW x, NEW a \in 0 .. N, NEW k \in 0 .. N, a <= k,
           \A w \in Writers(x) : ~(a < w /\ w <= k)
    PROVE  x \in Serially(F)[k] <=> x \in Serially(F)[a]
<1> DEFINE f == Serially(F)
           Bad == {i \in 0 .. N : a <= i /\ i <= k /\ ~(x \in f[i] <=> x \in f[a])}
<1>0. N \in Nat BY WorkloadAssumption
<1>1. \A i \in 1 .. N : f[i] = IF i \in F THEN f[i - 1] ELSE Effect(i, f[i - 1])
  BY SerialRun
<1> HIDE DEF f
<1>3. Bad = {}
  <2> SUFFICES ASSUME Bad # {} PROVE FALSE OBVIOUS
  <2>1. PICK i \in Bad : \A j \in Bad : i <= j
    <3>1. Bad \in SUBSET Nat OBVIOUS
    <3> HIDE DEF Bad
    <3> QED BY <3>1, Least
  <2>0. i # a OBVIOUS
  <2>2. i \in 1 .. N /\ i - 1 \in 0 .. N /\ i <= k /\ i - 1 <= k /\ a < i /\ a <= i - 1 BY <1>0, <2>0
  <2>3. i - 1 \notin Bad
    <3> HIDE DEF Bad
    <3> QED BY <2>1, <2>2
  <2>4. x \in f[i - 1] <=> x \in f[a] BY <2>2, <2>3
  <2>5. i \in Ops /\ i \notin Writers(x) BY <2>2 DEF Ops
  <2>6. x \in Effect(i, f[i - 1]) <=> x \in f[i - 1] BY <2>5, EffectAt
  <2>7. f[i] = IF i \in F THEN f[i - 1] ELSE Effect(i, f[i - 1]) BY <1>1, <2>2
  <2>8. x \in f[i] <=> x \in f[a] BY <2>4, <2>6, <2>7
  <2> QED BY <2>8
<1>4. k \notin Bad /\ k <= k BY <1>0, <1>3
<1>5. x \in f[k] <=> x \in f[a] BY <1>4
<1> QED BY <1>5 DEF f

\* When the prerequisites of y are retired, so is everything before y.
LEMMA BeforeRetired ==
    ASSUME deps \in DepChoices, OnePlace, retired \subseteq Ops,
           NEW x, NEW y \in Ops, <<x, y>> \in Before, deps[y] \subseteq retired
    PROVE  x \in retired
<1> DEFINE V == SUBSET (Ops \X Ops)
           Grow(n, s) == s \cup {<<d, n>> : d \in deps[n]}
                           \cup {<<e, n>> : e \in {z \in Ops : \E d \in deps[n] : <<z, d>> \in s}}
           f == [p \in (1 .. N) \X V |-> Grow(p[1], p[2])]
           E(g) == g = [n \in 0 .. N |-> IF n = 0 THEN {} ELSE Grow(n, g[n - 1])]
<1>0. N \in Nat /\ \A o \in Ops : deps[o] \subseteq Ops BY DepsType, WorkloadAssumption
<1>1. \A n \in 1 .. N : \A s \in V : Grow(n, s) \in V BY <1>0 DEF Ops
<1>2. IsStep(V, f)
  <2> HIDE DEF Grow, V
  <2> QED BY <1>1 DEF IsStep
<1>3. {} \in V OBVIOUS
<1>4. PICK g : IsRun(V, {}, f, g)
  <2> HIDE DEF f, V
  <2> QED BY <1>2, <1>3, Recursion, Zenon
<1>5. E(g)
  <2>1. g \in [0 .. N -> V] /\ g[0] = {} /\ \A n \in 1 .. N : g[n] = f[<<n, g[n - 1]>>]
    <3> HIDE DEF f, V
    <3> QED BY <1>4 DEF IsRun
  <2>2. ASSUME NEW n \in 1 .. N PROVE g[n] = Grow(n, g[n - 1])
    <3>1. n - 1 \in 0 .. N BY <1>0
    <3>2. g[n - 1] \in V
      <4> HIDE DEF V, f
      <4> QED BY <2>1, <3>1
    <3>3. <<n, g[n - 1]>> \in (1 .. N) \X V BY <3>2
    <3> HIDE DEF V, Grow
    <3> QED BY <2>1, <3>3
  <2> HIDE DEF V, f, Grow
  <2>3. \A n \in 0 .. N : n = 0 \/ n \in 1 .. N BY <1>0
  <2>4. \A n \in 0 .. N : g[n] = IF n = 0 THEN {} ELSE Grow(n, g[n - 1]) BY <2>1, <2>2, <2>3
  <2> QED BY <2>1, <2>4
<1> DEFINE u == CHOOSE h : E(h)
<1>6. E(u)
  <2> HIDE DEF E
  <2> QED BY <1>5
<1>7. <<x, y>> \in u[N] BY DEF Before
<1> HIDE DEF u
<1>8. u[0] = {} /\ \A n \in 1 .. N : u[n] = Grow(n, u[n - 1])
  <2>1. 0 \in 0 .. N /\ \A n \in 1 .. N : n \in 0 .. N /\ n # 0 BY <1>0
  <2> HIDE DEF Grow
  <2> QED BY <1>6, <2>1
<1> DEFINE Lost(n) == \E a : \E c \in Ops : <<a, c>> \in u[n] /\ deps[c] \subseteq retired /\ a \notin retired
           Bad == {n \in 0 .. N : Lost(n)}
<1>9. Bad = {}
  <2> SUFFICES ASSUME Bad # {} PROVE FALSE OBVIOUS
  <2>1. PICK n \in Bad : \A m \in Bad : n <= m
    <3>1. Bad \in SUBSET Nat OBVIOUS
    <3> HIDE DEF Bad
    <3> QED BY <3>1, Least
  <2>2. n \in 0 .. N /\ Lost(n) OBVIOUS
  <2>3. PICK a, c : c \in Ops /\ <<a, c>> \in u[n] /\ deps[c] \subseteq retired /\ a \notin retired
    BY <2>2
  <2>4. n \in 1 .. N /\ n - 1 \in 0 .. N
    <3>1. n # 0 BY <1>8, <2>3
    <3> QED BY <1>0, <2>2, <3>1
  <2>5. ~Lost(n - 1)
    <3>1. n - 1 \notin Bad
      <4> HIDE DEF Bad
      <4> QED BY <2>1, <2>2, <2>4
    <3> HIDE DEF Lost
    <3> QED BY <2>4, <3>1
  <2>6. <<a, c>> \in Grow(n, u[n - 1]) BY <1>8, <2>3, <2>4
  <2>7. CASE <<a, c>> \in u[n - 1] BY <2>3, <2>5, <2>7
  <2>8. CASE c = n /\ a \in deps[n] BY <2>3, <2>8
  <2>9. CASE c = n /\ \E d \in deps[n] : <<a, d>> \in u[n - 1]
    <3>1. PICK d \in deps[n] : <<a, d>> \in u[n - 1] BY <2>9
    <3>2. d \in retired /\ d \in Ops BY <2>3, <2>9
    <3>3. deps[d] \subseteq retired BY <3>2 DEF OnePlace
    <3> QED BY <2>3, <2>5, <3>1, <3>2, <3>3
  <2> QED BY <2>6, <2>7, <2>8, <2>9
<1>10. ~Lost(N)
  <2>1. N \in 0 .. N BY <1>0
  <2> HIDE DEF Lost
  <2> QED BY <1>9, <2>1
<1> QED BY <1>7, <1>10

\* Whether conflicts are ordered is a matter of the dependencies.
LEMMA SameOrder == ASSUME deps' = deps PROVE ConflictsOrdered' <=> ConflictsOrdered
<1>1. Before' = Before BY DEF Before
<1> QED BY <1>1 DEF ConflictsOrdered

\* Of the operations that conflict with o, the earlier ones are retired once
\* its prerequisites are, and no later one is eligible before it is retired.
LEMMA ConflictsWait ==
    ASSUME deps \in DepChoices, OnePlace, retired \subseteq Ops, ConflictsOrdered,
           NEW o \in Ops, NEW p \in Ops, p < o, Obj[p] = Obj[o], Verb[p] # "load" \/ Verb[o] # "load",
           deps[o] \subseteq retired
    PROVE  p \in retired
<1>1. p \in 1 .. o - 1 BY WorkloadAssumption DEF Ops
<1>2. <<p, o>> \in Before BY <1>1 DEF ConflictsOrdered
<1> QED BY <1>2, BeforeRetired

\* An operation is performed: answered as in the workload's order, since of
\* the operations that may change its object exactly the earlier ones have
\* been performed.
LEMMA PerformSerial ==
    ASSUME deps \in DepChoices, OnePlace, retired \subseteq Ops, ConflictsOrdered,
           NEW out, SerialSoFar(out),
           \A p \in Ops : out[p] # "none" => p \in inflight \cup retired,
           \A p \in retired : out[p] # "none",
           NEW o \in Ops, o \notin retired, deps[o] \subseteq retired, out[o] = "none",
           NEW now, \A p \in Ops : p # o => now[p] = out[p],
           \/ objects' = Effect(o, objects) /\ now[o] = Answer(o, objects)
           \/ objects' = objects /\ now[o] = "error"
    PROVE  SerialSoFar(now)'
<1> DEFINE F == {p \in Ops : out[p] = "error"}
           G == {p \in Ops : now[p] = "error"}
           f == Serially(F)
           g == Serially(G)
           x == Obj[o]
<1>0. N \in Nat /\ \A p \in Ops : p \in Nat /\ p - 1 \in 0 .. N /\ p \in 0 .. N /\ p \in 1 .. N
  BY WorkloadAssumption DEF Ops
<1>1. /\ \A p \in Ops : out[p] \notin {"none", "error"} => out[p] = Answer(p, f[p - 1])
      /\ \A q \in Ops, k \in 0 .. N :
            (\A w \in Writers(Obj[q]) : out[w] # "none" <=> w <= k)
                => (Obj[q] \in objects <=> Obj[q] \in f[k])
  BY DEF SerialSoFar
<1>2. \A w \in Writers(x) : w \in Ops /\ Obj[w] = x /\ Verb[w] # "load" BY DEF Writers
<1>3. ASSUME NEW w \in Writers(x) PROVE out[w] # "none" <=> w <= o - 1
  <2>0. w \in Ops /\ w \in Nat /\ o \in Nat /\ Obj[w] = x /\ Verb[w] # "load" BY <1>0, <1>2
  <2>1. CASE w < o
    <3>1. w \in retired BY <2>0, <2>1, ConflictsWait
    <3> QED BY <2>0, <2>1, <3>1
  <2>2. CASE w = o BY <2>0, <2>2
  <2>3. CASE o < w
    <3>1. ASSUME out[w] # "none" PROVE FALSE
      <4>1. w \in inflight \cup retired BY <2>0, <3>1
      <4>2. deps[w] \subseteq retired BY <2>0, <4>1 DEF OnePlace
      <4>3. o \in retired BY <2>0, <2>3, <4>2, ConflictsWait
      <4> QED BY <4>3
    <3> QED BY <2>0, <2>3, <3>1
  <2> QED BY <2>0, <2>1, <2>2, <2>3
<1>4. x \in objects <=> x \in f[o - 1] BY <1>0, <1>1, <1>3
<1>5. \A p \in Ops : p # o => (p \in F <=> p \in G) OBVIOUS
<1> HIDE DEF F, G
<1>6. ASSUME NEW p \in Ops, p = o \/ out[p] # "none"
      PROVE  Obj[p] \in g[p - 1] <=> Obj[p] \in f[p - 1]
  <2>1. ASSUME NEW w \in Writers(Obj[p]), w <= p - 1 PROVE w \in G <=> w \in F
    <3>0. w \in Ops /\ Obj[w] = Obj[p] /\ Verb[w] # "load" BY DEF Writers
    <3>1. w \in Nat /\ p \in Nat /\ o \in Nat BY <1>0, <3>0
    <3>2. w < p BY <2>1, <3>1
    <3>3. w # o
      <4> SUFFICES ASSUME w = o PROVE FALSE OBVIOUS
      <4>1. p # o BY <3>1, <3>2
      <4>2. p \in inflight \cup retired BY <1>6, <4>1
      <4>3. deps[p] \subseteq retired BY <4>2 DEF OnePlace
      <4>4. o \in retired BY <3>0, <3>2, <4>3, ConflictsWait
      <4> QED BY <4>4
    <3> QED BY <1>5, <3>0, <3>3
  <2>2. p - 1 \in 0 .. N BY <1>0
  <2> QED BY <2>1, <2>2, SameWriters
<1>7. ASSUME NEW p \in Ops, now[p] \notin {"none", "error"} PROVE now[p] = Answer(p, g[p - 1])
  <2>1. CASE p = o
    <3>1. now[o] = Answer(o, objects) BY <1>7, <2>1
    <3>2. Obj[o] \in objects <=> Obj[o] \in g[o - 1] BY <1>4, <1>6
    <3>3. Answer(o, objects) = Answer(o, g[o - 1])
      <4> HIDE DEF g
      <4> QED BY <3>2, AnswerAt
    <3> QED BY <2>1, <3>1, <3>3
  <2>2. CASE p # o
    <3>1. now[p] = out[p] /\ out[p] # "none" /\ out[p] = Answer(p, f[p - 1]) BY <1>1, <1>7, <2>2
    <3>2. Obj[p] \in g[p - 1] <=> Obj[p] \in f[p - 1] BY <1>6, <3>1
    <3>3. Answer(p, f[p - 1]) = Answer(p, g[p - 1])
      <4> HIDE DEF f, g
      <4> QED BY <3>2, AnswerAt
    <3> QED BY <3>1, <3>3
  <2> QED BY <2>1, <2>2
<1>8. ASSUME NEW q \in Ops, NEW k \in 0 .. N, \A w \in Writers(Obj[q]) : now[w] # "none" <=> w <= k
      PROVE  Obj[q] \in objects' <=> Obj[q] \in g[k]
  <2> DEFINE y == Obj[q]
  <2>0. \A w \in Writers(y) : w \in Ops BY DEF Writers
  <2>1. CASE o \notin Writers(y)
    <3>1. \A w \in Writers(y) : w # o /\ now[w] = out[w] /\ (w \in G <=> w \in F) BY <1>5, <2>0, <2>1
    <3>2. y \in objects <=> y \in f[k] BY <1>1, <1>8, <3>1
    <3>3. y \in f[k] <=> y \in g[k] BY <3>1, SameWriters
    <3>4. y \in objects' <=> y \in objects BY <2>1, EffectAt
    <3> QED BY <3>2, <3>3, <3>4
  <2>2. CASE o \in Writers(y)
    <3>1. y = x BY <2>2 DEF Writers
    <3>2. now[o] # "none" BY AnswerGiven
    <3>3. o <= k BY <1>8, <2>2, <3>2
    <3>4. \A w \in Writers(x) : ~(o < w /\ w <= k)
      <4> SUFFICES ASSUME NEW w \in Writers(x), o < w, w <= k PROVE FALSE OBVIOUS
      <4>1. w \in Nat /\ o \in Nat /\ w \in Ops BY <1>0, <1>2
      <4>2. w # o BY <4>1
      <4>3. now[w] = out[w] /\ now[w] # "none" BY <1>8, <3>1, <4>1, <4>2
      <4>4. w <= o - 1 BY <1>3, <4>3
      <4> QED BY <4>1, <4>4
    <3>5. x \in g[k] <=> x \in g[o] BY <1>0, <3>3, <3>4, NoWriters
    <3>6. g[o] = IF o \in G THEN g[o - 1] ELSE Effect(o, g[o - 1]) BY <1>0, SerialRun
    <3>7. x \in objects <=> x \in g[o - 1] BY <1>4, <1>6
    <3>8. x \in Effect(o, objects) <=> x \in Effect(o, g[o - 1])
      <4> HIDE DEF g, x
      <4> QED BY <3>7, EffectAt
    <3>9. o \in G <=> now[o] = "error" BY DEF G
    <3>10. x \in objects' <=> x \in g[o]
      <4> HIDE DEF g, x
      <4> QED BY <3>6, <3>7, <3>8, <3>9, AnswerGiven
    <3> QED BY <3>1, <3>5, <3>10
  <2> QED BY <2>1, <2>2
<1> QED BY <1>7, <1>8 DEF SerialSoFar, F, G

----------------------------------------------------------------------------
\* Nobody has performed anything: the backend holds what it held.
LEMMA SerialStart ==
    ASSUME NEW out, \A o \in Ops : out[o] = "none", objects = Live
    PROVE  SerialSoFar(out)
<1> DEFINE F == {o \in Ops : out[o] = "error"}
<1>0. N \in Nat /\ 0 \in 0 .. N BY WorkloadAssumption
<1>1. ASSUME NEW o \in Ops, NEW k \in 0 .. N, \A w \in Writers(Obj[o]) : out[w] # "none" <=> w <= k
      PROVE  Obj[o] \in objects <=> Obj[o] \in Serially(F)[k]
  <2>1. \A w \in Writers(Obj[o]) : ~(0 < w /\ w <= k) BY <1>1 DEF Writers
  <2>2. Obj[o] \in Serially(F)[k] <=> Obj[o] \in Serially(F)[0] BY <1>0, <2>1, NoWriters
  <2>3. Serially(F)[0] = Live BY SerialRun
  <2> QED BY <2>2, <2>3
<1> QED BY <1>1 DEF SerialSoFar

\* Steps other than Perform do not touch what has been answered.
LEMMA AnsweredKept ==
    ASSUME CrewInv, Answered, Passing \/ \E w \in Crew : Pop(w) \/ Submit(w) \/ Retire(w) \/ Exit(w)
    PROVE  Answered' /\ UNCHANGED <<deps, outcome, objects>>
<1>0. job \in [Crew -> Ops \cup {Idle}] /\ step \in [Crew -> {"look", "taken", "submitted", "performed", "exit"}]
  BY DEF CrewInv, ExecTypeOK
<1>1. CASE Passing
  BY <1>1 DEF Passing, heapVars, crewVars, Answered
<1>2. ASSUME NEW w \in Crew, Pop(w) PROVE Answered' /\ UNCHANGED <<deps, outcome, objects>>
  <2>1. PICK o \in pending : TakeOp(o) /\ job' = [job EXCEPT ![w] = o] BY <1>2 DEF Pop
  <2>2. UNCHANGED <<deps, outcome, objects, retired>> /\ step' = [step EXCEPT ![w] = "taken"] BY <1>2 DEF Pop
  <2>3. o \in Ops /\ o \notin inflight /\ o \notin retired /\ inflight' = inflight \cup {o}
    BY <2>1 DEF TakeOp, CrewInv, OnePlace, ExecTypeOK, LoadTypeOK
  <2>4. outcome[o] = "none" BY <2>3 DEF Answered
  <2>5. \A v \in Crew : /\ v = w => job'[v] = o /\ step'[v] = "taken"
                        /\ v # w => job'[v] = job[v] /\ step'[v] = step[v]
    BY <1>0, <2>1, <2>2
  <2> QED BY <2>2, <2>3, <2>4, <2>5 DEF Answered
<1>3. ASSUME NEW w \in Crew, Submit(w) PROVE Answered' /\ UNCHANGED <<deps, outcome, objects>>
  <2>1. UNCHANGED <<deps, outcome, objects, retired, inflight, job>> /\ step' = [step EXCEPT ![w] = "submitted"]
    BY <1>3 DEF Submit, heapVars
  <2>2. step[w] = "taken" BY <1>3 DEF Submit
  <2>3. \A v \in Crew : step'[v] = IF v = w THEN "submitted" ELSE step[v] BY <1>0, <2>1
  <2> QED BY <2>1, <2>2, <2>3 DEF Answered
<1>4. ASSUME NEW w \in Crew, Retire(w) PROVE Answered' /\ UNCHANGED <<deps, outcome, objects>>
  <2>0. step[w] = "performed" /\ job[w] # Idle BY <1>4 DEF Retire, CrewInv, Placed
  <2>1. PICK o \in Ops : o = job[w] BY <2>0, HeldIsTaken
  <2>2. inflight' = inflight \ {o} /\ retired' = retired \cup {o} BY <1>4, <2>1 DEF Retire, RetireOp
  <2>3. /\ UNCHANGED <<deps, outcome, objects>>
        /\ job' = [job EXCEPT ![w] = Idle] /\ step' = [step EXCEPT ![w] = "look"]
    BY <1>4 DEF Retire
  <2>4. \A v \in Crew : /\ v = w => job'[v] = Idle
                        /\ v # w => job'[v] = job[v] /\ step'[v] = step[v]
    BY <1>0, <2>3
  <2>5. outcome[o] # "none" BY <2>0, <2>1 DEF Answered
  <2> QED BY <2>2, <2>3, <2>4, <2>5 DEF Answered
<1>5. ASSUME NEW w \in Crew, Exit(w) PROVE Answered' /\ UNCHANGED <<deps, outcome, objects>>
  <2>1. /\ UNCHANGED <<deps, outcome, objects, retired, inflight, job>> /\ step[w] = "look"
        /\ step' = [step EXCEPT ![w] = "exit"]
    BY <1>5 DEF Exit, loadVars, heapVars
  <2>2. \A v \in Crew : step'[v] = IF v = w THEN "exit" ELSE step[v] BY <1>0, <2>1
  <2> QED BY <2>1, <2>2 DEF Answered
<1> QED BY <1>1, <1>2, <1>3, <1>4, <1>5

\* Perform answers an operation that had no answer.
LEMMA AnsweredMore ==
    ASSUME CrewInv, Answered, NEW w \in Crew, Perform(w)
    PROVE  Answered' /\ \E o \in Ops :
             /\ o \notin retired /\ deps[o] \subseteq retired /\ deps' = deps /\ outcome[o] = "none"
             /\ \A p \in Ops : p # o => outcome'[p] = outcome[p]
             /\ \/ objects' = Effect(o, objects) /\ outcome'[o] = Answer(o, objects)
                \/ objects' = objects /\ outcome'[o] = "error"
<1>0. /\ job \in [Crew -> Ops \cup {Idle}] /\ outcome \in [Ops -> Outcomes]
      /\ step \in [Crew -> {"look", "taken", "submitted", "performed", "exit"}]
  BY DEF CrewInv, ExecTypeOK, Answered
<1>1. step[w] = "submitted" /\ job[w] # Idle BY DEF Perform, CrewInv, Placed
<1>2. PICK o \in Ops : o = job[w] BY <1>1, HeldIsTaken
<1>3. o \in inflight /\ o \notin retired /\ deps[o] \subseteq retired BY <1>1, <1>2, HeldIsTaken
<1>4. outcome[o] = "none" BY <1>1, <1>2 DEF Answered
<1>5. PICK a \in Outcomes : a # "none" /\ outcome' = [outcome EXCEPT ![o] = a]
               /\ \/ objects' = Effect(o, objects) /\ a = Answer(o, objects)
                  \/ objects' = objects /\ a = "error"
  BY <1>2, AnswerGiven DEF Perform, Outcomes
<1>6. outcome'[o] = a /\ (\A p \in Ops : p # o => outcome'[p] = outcome[p]) /\ outcome' \in [Ops -> Outcomes]
  BY <1>0, <1>5
<1>7. UNCHANGED <<deps, inflight, retired, job>> /\ step' = [step EXCEPT ![w] = "performed"]
  BY DEF Perform, heapVars
<1>8. \A v \in Crew : step'[v] = IF v = w THEN "performed" ELSE step[v] BY <1>0, <1>7
<1>9. \A v \in Crew : v # w => job[v] # o BY <1>1, <1>2 DEF CrewInv, HeldOnce
<1>10. Answered'
  <2>1. ASSUME NEW v \in Crew, job[v] # Idle PROVE outcome'[job[v]] # "none" <=> step'[v] = "performed"
    <3>1. CASE v = w BY <1>2, <1>5, <1>6, <1>8, <3>1
    <3>2. CASE v # w
      <4>1. job[v] \in Ops /\ job[v] # o BY <1>0, <1>9, <2>1, <3>2
      <4>2. outcome'[job[v]] = outcome[job[v]] /\ step'[v] = step[v] BY <1>6, <1>8, <3>2, <4>1
      <4> QED BY <2>1, <4>2 DEF Answered
    <3> QED BY <3>1, <3>2
  <2>2. \A p \in Ops : p \in retired => outcome'[p] # "none" BY <1>3, <1>6 DEF Answered
  <2>3. \A p \in Ops : outcome'[p] # "none" => p \in inflight \cup retired BY <1>3, <1>6 DEF Answered
  <2> QED BY <1>6, <1>7, <2>1, <2>2, <2>3 DEF Answered
<1> QED BY <1>3, <1>4, <1>5, <1>6, <1>7, <1>10

\* Every step of the pool keeps the answers serial.
LEMMA PoolStep == ExecInv /\ [ExecNext]_execVars => ExecInv'
<1> SUFFICES ASSUME ExecInv, [ExecNext]_execVars PROVE ExecInv'
  OBVIOUS
<1>0. CrewInv /\ Answered /\ (ConflictsOrdered => SerialSoFar(outcome)) BY DEF ExecInv
<1>1. CrewInv' BY <1>0, NextExecInv
<1>2. ASSUME Answered', UNCHANGED <<deps, outcome, objects>> PROVE ExecInv'
  <2>1. SerialSoFar(outcome) => SerialSoFar(outcome)' BY <1>2 DEF SerialSoFar
  <2> QED BY <1>0, <1>1, <1>2, <2>1, SameOrder DEF ExecInv
<1>3. ASSUME NEW w \in Crew, Perform(w) PROVE ExecInv'
  <2>1. PICK o \in Ops :
             /\ o \notin retired /\ deps[o] \subseteq retired /\ deps' = deps /\ outcome[o] = "none"
             /\ \A p \in Ops : p # o => outcome'[p] = outcome[p]
             /\ \/ objects' = Effect(o, objects) /\ outcome'[o] = Answer(o, objects)
                \/ objects' = objects /\ outcome'[o] = "error"
    BY <1>0, <1>3, AnsweredMore
  <2>2. Answered' BY <1>0, <1>3, AnsweredMore
  <2>3. ASSUME ConflictsOrdered' PROVE SerialSoFar(outcome)'
    <3>1. ConflictsOrdered BY <2>1, <2>3, SameOrder
    <3>2. deps \in DepChoices /\ OnePlace /\ retired \subseteq Ops BY <1>0 DEF CrewInv, ExecTypeOK, LoadTypeOK
    <3>3. /\ \A p \in Ops : outcome[p] # "none" => p \in inflight \cup retired
          /\ \A p \in retired : outcome[p] # "none"
      BY <1>0, <3>2 DEF Answered
    <3>4. PICK out : out = outcome OBVIOUS
    <3>5. PICK now : now = outcome' OBVIOUS
    <3>6. SerialSoFar(out) BY <1>0, <3>1, <3>4
    <3>7. SerialSoFar(now)' BY <2>1, <3>1, <3>2, <3>3, <3>4, <3>5, <3>6, PerformSerial
    <3> QED BY <3>5, <3>7 DEF SerialSoFar
  <2> QED BY <1>1, <2>2, <2>3 DEF ExecInv
<1>4. CASE UNCHANGED execVars
  <2>1. Answered' /\ UNCHANGED <<deps, outcome, objects>>
    BY <1>0, <1>4 DEF execVars, loadVars, heapVars, crewVars, Answered
  <2> QED BY <1>2, <2>1
<1> QED BY <1>0, <1>2, <1>3, <1>4, AnsweredKept DEF ExecNext, Work

\* Initially nothing has been answered.
LEMMA PoolStart == ExecInit => ExecInv
<1> SUFFICES ASSUME ExecInit PROVE ExecInv
  OBVIOUS
<1>1. CrewInv BY InitExecInv
<1>2. Answered BY DEF Answered, ExecInit, LoadInit, Outcomes
<1>3. (\A o \in Ops : outcome[o] = "none") /\ objects = Live BY DEF ExecInit, LoadInit
<1>4. PICK out : out = outcome OBVIOUS
<1>5. SerialSoFar(out) BY <1>3, <1>4, SerialStart
<1> QED BY <1>1, <1>2, <1>4, <1>5 DEF ExecInv

\* Every step of the event loop keeps the answers serial: an operation is
\* performed when it is submitted.
LEMMA SimStep == SimInv /\ [SimNext]_<<loadVars, simVars>> => SimInv'
<1> SUFFICES ASSUME SimInv, [SimNext]_<<loadVars, simVars>> PROVE SimInv'
  OBVIOUS
<1>0. LoopInv /\ (ConflictsOrdered => SerialSoFar(answer)) BY DEF SimInv, LoopInv
<1>1. LoopInv' BY <1>0, LoopStep
<1>2. ASSUME UNCHANGED <<deps, answer, objects>> PROVE SimInv'
  <2>1. SerialSoFar(answer) => SerialSoFar(answer)' BY <1>2 DEF SerialSoFar
  <2> QED BY <1>0, <1>1, <1>2, <2>1, SameOrder DEF SimInv, LoopInv
<1>3. ASSUME SimSubmit PROVE SimInv'
  <2>1. PICK o \in Ops :
             /\ o \notin inflight /\ o \notin retired /\ deps[o] \subseteq retired
             /\ inflight' = inflight \cup {o} /\ retired' = retired /\ deps' = deps
             /\ \A p \in Ops : p # o => answer'[p] = answer[p]
             /\ \/ objects' = Effect(o, objects) /\ answer'[o] = Answer(o, objects)
                \/ objects' = objects /\ answer'[o] = "error"
    BY <1>0, <1>3, SubmitKeeps
  <2>2. ASSUME ConflictsOrdered' PROVE SerialSoFar(answer)'
    <3>1. ConflictsOrdered BY <2>1, <2>2, SameOrder
    <3>2. deps \in DepChoices /\ OnePlace /\ retired \subseteq Ops /\ Recorded
      BY <1>0 DEF LoopInv, LoadInv, LoadTypeOK
    <3>3. /\ \A p \in Ops : answer[p] # "none" => p \in inflight \cup retired
          /\ \A p \in retired : answer[p] # "none"
          /\ answer[o] = "none"
      BY <2>1, <3>2 DEF Recorded
    <3>4. PICK out : out = answer OBVIOUS
    <3>5. PICK now : now = answer' OBVIOUS
    <3>6. SerialSoFar(out) BY <1>0, <3>1, <3>4
    <3>7. SerialSoFar(now)' BY <2>1, <3>1, <3>2, <3>3, <3>4, <3>5, <3>6, PerformSerial
    <3> QED BY <3>5, <3>7 DEF SerialSoFar
  <2> QED BY <1>1, <2>2 DEF SimInv, LoopInv
<1>4. CASE UNCHANGED <<loadVars, simVars>> BY <1>2, <1>4 DEF loadVars, simVars
<1>5. CASE SimRetire BY <1>0, <1>2, <1>5, RetireKeeps
<1>6. CASE SimAdvance \/ SimRound \/ SimEnd BY <1>0, <1>2, <1>6, LoopKeeps
<1> QED BY <1>3, <1>4, <1>5, <1>6 DEF SimNext

\* Initially nothing has been answered.
LEMMA SimStart == SimInit => SimInv
<1> SUFFICES ASSUME SimInit PROVE SimInv
  OBVIOUS
<1>1. LoopInv BY LoopStart
<1>2. (\A o \in Ops : answer[o] = "none") /\ objects = Live BY DEF SimInit, LoadInit
<1>3. PICK out : out = answer OBVIOUS
<1>4. SerialSoFar(out) BY <1>2, <1>3, SerialStart
<1> QED BY <1>1, <1>3, <1>4 DEF SimInv, LoopInv

\* A ledger whose answers are those of the workload's order differs from the
\* source's only where the target failed.
LEMMA LedgerSerial ==
    ASSUME \A o \in Ops : outcome[o] \notin {"none", "error"} =>
              outcome[o] = Answer(o, Serially({p \in Ops : outcome[p] = "error"})[o - 1])
    PROVE  OutcomesAreSerial
<1> DEFINE failed == {p \in Ops : outcome[p] = "error"}
           serial == Serially(failed)
           permitted == [o \in Ops |-> {Answer(o, serial[o - 1])}]
<1>1. \A o \in Ops : permitted[o] = {Answer(o, serial[o - 1])} OBVIOUS
<1>2. \A o \in Ops : Answer(o, serial[o - 1]) # "error" BY AnswerGiven
<1> HIDE DEF permitted, serial
<1>3. \A o \in Ops : outcome[o] \notin {"none", "error"} => outcome[o] = Answer(o, serial[o - 1])
  BY DEF serial
<1>4. compare_outcomes(permitted) = failed BY <1>1, <1>2, <1>3 DEF compare_outcomes
<1> QED BY <1>4 DEF OutcomesAreSerial, permitted, serial

\* In the pool the ledger has every answer at once.
LEMMA PoolSerial == ASSUME ExecInv PROVE OutcomesAreSerial
<1>1. CASE ConflictsOrdered
  <2>1. SerialSoFar(outcome) BY <1>1 DEF ExecInv
  <2> QED BY <2>1, LedgerSerial DEF SerialSoFar
<1> QED BY <1>1 DEF OutcomesAreSerial

\* In the event loop it has the answers of the retired operations; the
\* writers before one of these are retired too.
LEMMA LoopSerial == ASSUME SimInv PROVE OutcomesAreSerial
<1> SUFFICES ASSUME ConflictsOrdered PROVE OutcomesAreSerial BY DEF OutcomesAreSerial
<1> DEFINE F == {p \in Ops : answer[p] = "error"}
           G == {p \in Ops : outcome[p] = "error"}
<1>0. /\ deps \in DepChoices /\ OnePlace /\ retired \subseteq Ops /\ Recorded /\ SerialSoFar(answer)
      /\ N \in Nat /\ \A p \in Ops : p \in Nat /\ p - 1 \in 0 .. N
  BY WorkloadAssumption DEF SimInv, LoadInv, LoadTypeOK, Ops
<1>1. ASSUME NEW o \in Ops, outcome[o] \notin {"none", "error"}
      PROVE  outcome[o] = Answer(o, Serially(G)[o - 1])
  <2>1. o \in retired /\ outcome[o] = answer[o] BY <1>0, <1>1 DEF Recorded
  <2>2. deps[o] \subseteq retired BY <1>0, <2>1 DEF OnePlace
  <2>3. answer[o] = Answer(o, Serially(F)[o - 1]) BY <1>0, <1>1, <2>1 DEF SerialSoFar
  <2>4. ASSUME NEW w \in Writers(Obj[o]), w <= o - 1 PROVE w \in F <=> w \in G
    <3>1. w \in Ops /\ Obj[w] = Obj[o] /\ Verb[w] # "load" BY DEF Writers
    <3>2. w < o BY <1>0, <2>4, <3>1
    <3>3. w \in retired BY <1>0, <2>2, <3>1, <3>2, ConflictsWait
    <3>4. outcome[w] = answer[w] BY <1>0, <3>1, <3>3 DEF Recorded
    <3> QED BY <3>1, <3>4
  <2> HIDE DEF F, G
  <2>5. Obj[o] \in Serially(F)[o - 1] <=> Obj[o] \in Serially(G)[o - 1] BY <1>0, <2>4, SameWriters
  <2>6. Answer(o, Serially(F)[o - 1]) = Answer(o, Serially(G)[o - 1]) BY <2>5, AnswerAt
  <2> QED BY <2>1, <2>3, <2>6
<1> QED BY <1>1, LedgerSerial

\* Both modes keep their inductive invariant.
THEOREM BothModesCorrect == Spec => []PoolInv
<1> DEFINE Kept == part \in {"real", "simulated"} /\ PoolInv
<1>1. ASSUME Init PROVE Kept
  <2>1. CASE part = "real"
    <3>1. ExecInv BY <1>1, PoolStart DEF Init
    <3> QED BY <2>1, <3>1 DEF PoolInv
  <2>2. CASE part = "simulated"
    <3>1. SimInit BY <1>1, <2>2 DEF Init
    <3>2. SimInv BY <3>1, SimStart
    <3> QED BY <2>2, <3>2 DEF PoolInv
  <2> QED BY <1>1, <2>1, <2>2 DEF Init
<1>2. ASSUME Kept, [Next]_allVars PROVE Kept'
  <2>1. CASE part = "real"
    <3>1. ExecInv BY <1>2, <2>1 DEF PoolInv
    <3>2. part' = part /\ [ExecNext]_execVars
      BY <1>2, <2>1 DEF Next, Real, Simulated, allVars, execVars
    <3>3. ExecInv' BY <3>1, <3>2, PoolStep
    <3> QED BY <2>1, <3>2, <3>3 DEF PoolInv
  <2>2. CASE part = "simulated"
    <3>1. SimInv BY <1>2, <2>2 DEF PoolInv
    <3>2. part' = part /\ [SimNext]_<<loadVars, simVars>>
      BY <1>2, <2>2 DEF Next, Real, Simulated, allVars
    <3>3. SimInv' BY <3>1, <3>2, SimStep
    <3> QED BY <2>2, <3>2, <3>3 DEF PoolInv
  <2> QED BY <1>2, <2>1, <2>2
<1>3. Kept => PoolInv OBVIOUS
<1> HIDE DEF Kept
<1> QED BY <1>1, <1>2, <1>3, PTL DEF Spec

\* In both modes, whatever the interleaving and the service times, the
\* comparison with a source that ran the operations one after the other
\* reports nothing but the target's own errors.
THEOREM SourceOutcomesReproduced == Spec => []OutcomesAreSerial
<1>1. PoolInv => OutcomesAreSerial BY PoolSerial, LoopSerial DEF PoolInv
<1> QED BY <1>1, BothModesCorrect, PTL

\* In both modes the ledger respects the dependencies and delays of the
\* workload: check_dependencies can find no violation.
THEOREM DependenciesRespected == Spec => []AfterPrerequisites
<1>1. PoolInv => AfterPrerequisites BY DEF PoolInv, ExecInv, CrewInv, SimInv, LoadInv
<1> QED BY <1>1, BothModesCorrect, PTL

\* The event loop, too, stops only when everything is retired.
THEOREM LoopEndsWithAll == SimSpec => []EndsWithAll
<1>1. LoopInv => EndsWithAll BY DEF LoopInv
<1> QED BY <1>1, LoopStart, LoopStep, PTL DEF SimSpec
============================================================================
