--------------------------- MODULE ReplayerProofs ---------------------------
(***************************************************************************)
(* The replayer as a whole, for every capture, every bound on the workers  *)
(* and every capacity of their queues: a record is replayed once and in    *)
(* the order of its process, the totals cover the capture, and a round of  *)
(* the barrier is released only with every running worker in it.           *)
(***************************************************************************)
EXTENDS Replayer, FiniteSetTheorems, SequenceTheorems, WellFoundedInduction, TLAPS

----------------------------------------------------------------------------
(* Numbers and finite sets.                                                *)

LEMMA LeastNat ==
    ASSUME NEW S \in SUBSET Nat, S # {}
    PROVE  \E x \in S : \A y \in S : x <= y
  <1>1. PICK x \in S : \A y \in S : ~(<<y, x>> \in OpToRel(<, Nat))
    BY WFMin, NatLessThanWellFounded
  <1>2. \A y \in S : ~(y < x)
    BY <1>1 DEF OpToRel
  <1> QED
    BY <1>2

LEMMA GreatestNat ==
    ASSUME NEW b \in Nat, NEW S \in SUBSET (0 .. b), S # {}
    PROVE  \E x \in S : \A y \in S : y <= x
  <1> DEFINE T == {b - x : x \in S}
  <1>1. T \in SUBSET Nat /\ T # {}
    <2>1. \A x \in S : b - x \in Nat
      OBVIOUS
    <2> QED
      BY <2>1
  <1>2. PICK z \in T : \A y \in T : z <= y
    BY <1>1, LeastNat
  <1>3. PICK x \in S : z = b - x
    OBVIOUS
  <1>4. \A y \in S : b - y \in T
    OBVIOUS
  <1>5. \A y \in S : y <= x
    BY <1>2, <1>3, <1>4
  <1> QED
    BY <1>5

\* The keys, and every set of them, are finite.
LEMMA FiniteKeys ==
    ASSUME NEW S \in SUBSET Keys
    PROVE  IsFiniteSet(S) /\ Cardinality(S) \in Nat
  <1>1. IsFiniteSet(Keys)
    BY ReplayerAssumption, FS_AddElement DEF Keys
  <1> QED
    BY <1>1, FS_Subset, FS_CardinalityType

LEMMA OneKey ==
    ASSUME NEW S \in SUBSET Keys, NEW k \in Keys
    PROVE  /\ k \notin S => Cardinality(S \cup {k}) = Cardinality(S) + 1
           /\ k \in S => Cardinality(S \ {k}) = Cardinality(S) - 1
  BY FiniteKeys, FS_AddElement, FS_RemoveElement

LEMMA FewerKeys ==
    ASSUME NEW T \in SUBSET Keys, NEW S \in SUBSET T
    PROVE  /\ Cardinality(S) <= Cardinality(T)
           /\ Cardinality(S) = Cardinality(T) => S = T
  BY FiniteKeys, FS_Subset

\* A sequence without repetition has as many elements as places.
LEMMA InjectiveCount ==
    ASSUME NEW S, NEW s \in Seq(S), IsInjective(s)
    PROVE  IsFiniteSet(ToSet(s)) /\ Cardinality(ToSet(s)) = Len(s)
  <1>1. Len(s) \in Nat /\ DOMAIN s = 1 .. Len(s) /\ s \in [1 .. Len(s) -> ToSet(s)]
    BY DEF ToSet
  <1>2. s \in Surjection(1 .. Len(s), ToSet(s)) /\ s \in Injection(1 .. Len(s), ToSet(s))
    BY <1>1 DEF Surjection, Injection, IsInjective, ToSet
  <1>3. IsFiniteSet(1 .. Len(s)) /\ Cardinality(1 .. Len(s)) = Len(s)
    <2>1. /\ IsFiniteSet(1 .. Len(s))
          /\ Cardinality(1 .. Len(s)) = IF 1 > Len(s) THEN 0 ELSE Len(s) - 1 + 1
      BY <1>1, FS_Interval
    <2> QED
      BY <1>1, <2>1
  <1> QED
    BY <1>2, <1>3, FS_Surjection

----------------------------------------------------------------------------
(* The pre-pass.                                                           *)

Captured == {trace[i].pid : i \in DOMAIN trace}

LEMMA PrePass ==
    ASSUME trace \in Traces, max_workers \in Limits
    PROVE  /\ SeenPids(trace) \in SUBSET Captured /\ Captured \in SUBSET Keys
           /\ Cardinality(SeenPids(trace)) <= max_workers
           /\ Cardinality(Captured) <= max_workers => SeenPids(trace) = Captured
           /\ Cardinality(Captured) > max_workers => Cardinality(SeenPids(trace)) >= max_workers
  <1> DEFINE Seen == SeenPids(trace)
  <1> DEFINE Before(i) == {trace[j].pid : j \in 1 .. i - 1}
  <1>1. trace \in Seq(Records) /\ max_workers \in Nat \ {0}
    BY ReplayerAssumption
  <1>2. /\ Len(trace) \in Nat /\ DOMAIN trace = 1 .. Len(trace)
        /\ \A i \in DOMAIN trace : trace[i].pid \in Pids
    <2>1. Len(trace) \in Nat /\ DOMAIN trace = 1 .. Len(trace)
      BY <1>1
    <2>2. \A i \in DOMAIN trace : trace[i] \in Records
      BY <1>1
    <2> QED
      BY <2>1, <2>2 DEF Records
  <1>3. Captured \in SUBSET Keys /\ Seen \in SUBSET Captured
    BY <1>2 DEF Captured, Keys, SeenPids
  <1>4. \A i \in DOMAIN trace : Before(i) \in SUBSET Captured
    BY <1>2 DEF Captured
  <1>5. \A i \in DOMAIN trace : \A p : Cardinality(Before(i) \ {p}) \in Nat
    BY <1>3, <1>4, FiniteKeys
  <1>6. \A i \in DOMAIN trace : Cardinality(Before(i) \ {trace[i].pid}) < max_workers
                                => trace[i].pid \in Seen
    BY <1>2 DEF SeenPids
  <1>7. Cardinality(Seen) \in Nat /\ Cardinality(Captured) \in Nat
    BY <1>3, FiniteKeys
  <1>8. Cardinality(Seen) <= max_workers
    <2>1. CASE Seen = {}
      BY <2>1, <1>1, FS_EmptySet
    <2>2. CASE Seen # {}
      <3> DEFINE F == {i \in DOMAIN trace : trace[i].pid \in Seen /\ trace[i].pid \notin Before(i)}
      <3>1. \A p \in Seen : \E i \in F : trace[i].pid = p
        <4> SUFFICES ASSUME NEW p \in Seen PROVE \E i \in F : trace[i].pid = p
          OBVIOUS
        <4> DEFINE At == {i \in DOMAIN trace : trace[i].pid = p}
        <4>1. At # {} /\ At \in SUBSET Nat
          BY <1>2, <1>3 DEF Captured
        <4>2. PICK i \in At : \A j \in At : i <= j
          BY <4>1, LeastNat
        <4>3. trace[i].pid \notin Before(i)
          BY <4>2, <1>2
        <4> QED
          BY <4>2, <4>3
      <3>2. F # {} /\ F \in SUBSET (0 .. Len(trace))
        BY <2>2, <3>1, <1>2
      <3>3. PICK f \in F : \A i \in F : i <= f
        BY <3>2, <1>2, GreatestNat
      <3>4. PICK i \in DOMAIN trace : trace[i].pid = trace[f].pid
                 /\ Cardinality(Before(i) \ {trace[f].pid}) < max_workers
        BY <3>3 DEF SeenPids
      <3>5. f <= i
        BY <3>3, <3>4, <1>2
      <3>6. Seen \ {trace[f].pid} \in SUBSET (Before(i) \ {trace[f].pid})
        BY <3>1, <3>3, <3>5, <1>2
      <3>7. Cardinality(Seen \ {trace[f].pid}) <= Cardinality(Before(i) \ {trace[f].pid})
        BY <3>6, <1>3, <1>4, FewerKeys
      <3>8. Cardinality(Seen \ {trace[f].pid}) = Cardinality(Seen) - 1
        BY <3>3, <1>3, OneKey
      <3>9. Cardinality(Before(i) \ {trace[f].pid}) \in Nat
        BY <1>5
      <3> HIDE DEF Seen, Before
      <3> QED
        BY <3>4, <3>7, <3>8, <3>9, <1>1, <1>7
    <2> QED
      BY <2>1, <2>2
  <1>9. ASSUME Cardinality(Captured) <= max_workers PROVE Seen = Captured
    <2> SUFFICES ASSUME NEW i \in DOMAIN trace PROVE trace[i].pid \in Seen
      BY <1>3 DEF Captured
    <2>1. trace[i].pid \in Captured /\ trace[i].pid \in Keys
      BY <1>3 DEF Captured
    <2>2. Cardinality(Captured \ {trace[i].pid}) = Cardinality(Captured) - 1
      BY <2>1, <1>3, OneKey
    <2>3. Cardinality(Before(i) \ {trace[i].pid}) <= Cardinality(Captured \ {trace[i].pid})
      BY <1>3, <1>4, FewerKeys
    <2>4. Cardinality(Before(i) \ {trace[i].pid}) \in Nat
      BY <1>5
    <2> HIDE DEF Seen, Before
    <2>5. Cardinality(Before(i) \ {trace[i].pid}) < max_workers
      BY <2>2, <2>3, <2>4, <1>1, <1>7, <1>9
    <2> QED
      BY <2>5, <1>6
  <1>10. ASSUME Cardinality(Captured) > max_workers, Cardinality(Seen) < max_workers PROVE FALSE
    <2> DEFINE U == {i \in DOMAIN trace : trace[i].pid \notin Seen}
    <2>1. U # {} /\ U \in SUBSET Nat
      <3>1. Seen # Captured
        BY <1>1, <1>7, <1>10
      <3> QED
        BY <3>1, <1>2, <1>3 DEF Captured
    <2>2. PICK i \in U : \A j \in U : i <= j
      BY <2>1, LeastNat
    <2>3. Before(i) \in SUBSET Seen
      BY <2>2, <1>2
    <2>4. Cardinality(Before(i) \ {trace[i].pid}) <= Cardinality(Seen)
      BY <2>3, <1>3, FewerKeys
    <2>5. Cardinality(Before(i) \ {trace[i].pid}) \in Nat
      BY <2>2, <1>5
    <2> HIDE DEF Seen, Before
    <2>6. Cardinality(Before(i) \ {trace[i].pid}) < max_workers
      BY <2>4, <2>5, <1>1, <1>7, <1>10
    <2> QED
      BY <2>2, <2>6, <1>6
  <1> QED
    BY <1>1, <1>3, <1>7, <1>8, <1>9, <1>10

----------------------------------------------------------------------------
(* What a step may change.                                                 *)

\* The capture and the options are read only.
LEMMA InputFixed ==
    ASSUME [Next]_vars
    PROVE  /\ trace' = trace /\ serial' = serial /\ max_workers' = max_workers
           /\ Replayable' = Replayable /\ Captured' = Captured
           /\ SeenPids(trace)' = SeenPids(trace) /\ BarrierInited' = BarrierInited
  <1>1. UNCHANGED input
    BY DEF Next, vars, Main, Discard, CreateWorker, Enqueue, Shutdown, Join, Complete, Worker,
           Take, Arrive, Expire, Return, Dispatch, Leave
  <1>2. trace' = trace /\ serial' = serial /\ max_workers' = max_workers
    BY <1>1 DEF input
  <1>3. Replayable' = Replayable /\ Captured' = Captured /\ SeenPids(trace)' = SeenPids(trace)
    BY <1>2 DEF Replayable, Captured, SeenPids
  <1> QED
    BY <1>2, <1>3 DEF BarrierInited

LEMMA InputTyped ==
    ASSUME TypeOK
    PROVE  /\ trace \in Seq(Records) /\ Len(trace) \in Nat /\ DOMAIN trace = 1 .. Len(trace)
           /\ max_workers \in Nat \ {0} /\ pos \in Nat \ {0}
           /\ Replayable \in SUBSET Nat /\ Len(pool) \in Nat /\ DOMAIN pool = 1 .. Len(pool)
           /\ \A i \in DOMAIN trace : trace[i].pid \in Pids
  <1>1. trace \in Seq(Records) /\ max_workers \in Nat \ {0}
    BY ReplayerAssumption DEF TypeOK
  <1>2. Len(trace) \in Nat /\ DOMAIN trace = 1 .. Len(trace) /\ \A i \in DOMAIN trace : trace[i] \in Records
    BY <1>1
  <1>3. Replayable \in SUBSET Nat /\ \A i \in DOMAIN trace : trace[i].pid \in Pids
    BY <1>2 DEF Replayable, Records
  <1>4. Len(pool) \in Nat /\ DOMAIN pool = 1 .. Len(pool) /\ pos \in Nat \ {0}
    BY <1>2 DEF TypeOK
  <1> QED
    BY <1>1, <1>2, <1>3, <1>4

LEMMA Member == ASSUME NEW S, NEW s \in Seq(S), NEW e PROVE Contains(s, e) <=> e \in ToSet(s)
  BY DEF Contains, ToSet

\* A new worker is that of the record's process, and there was room for it.
LEMMA NewWorker ==
    ASSUME TypeOK, CreateWorker
    PROVE  LET k == Key(trace[pos].pid) IN
           /\ k \in Keys /\ k \notin ToSet(pool) /\ Len(pool) < max_workers
           /\ pool' = Append(pool, k) /\ pool' \in Seq(Keys) /\ Len(pool') = Len(pool) + 1
           /\ ToSet(pool') = ToSet(pool) \cup {k}
           /\ pc' = [pc EXCEPT ![k] = "take"]
           /\ pos \in Replayable
           /\ \A i \in 1 .. Len(pool) : pool'[i] = pool[i]
           /\ pool'[Len(pool) + 1] = k
  <1> DEFINE k == Key(trace[pos].pid)
  <1>1. pool \in Seq(Keys) /\ Len(pool) \in Nat /\ DOMAIN pool = 1 .. Len(pool)
    BY DEF TypeOK
  <1>2. pos \in Replayable /\ trace[pos].pid \in Pids
    BY InputTyped DEF CreateWorker, Reading, Replayable
  <1>3. k \in Keys
    BY <1>2 DEF Key, Keys
  <1>4. LET w == Owner(trace[pos].pid) IN
          ~Contains(pool, w) /\ pool' = Append(pool, w) /\ pc' = [pc EXCEPT ![w] = "take"]
    BY DEF CreateWorker
  <1>5. Owner(trace[pos].pid) = k /\ Len(pool) < max_workers
    <2>1. Contains(pool, k) => Owner(trace[pos].pid) = k
      BY DEF Owner
    <2>2. ~Contains(pool, k) /\ ~(Len(pool) < max_workers) => Owner(trace[pos].pid) = pool[1]
      BY DEF Owner
    <2>3. ~(Len(pool) < max_workers) => Contains(pool, pool[1])
      BY <1>1, InputTyped DEF Contains
    <2> QED
      BY <1>4, <2>1, <2>2, <2>3 DEF Owner
  <1>6. pool' = Append(pool, k) /\ pc' = [pc EXCEPT ![k] = "take"] /\ ~Contains(pool, k)
    BY <1>4, <1>5
  <1> HIDE DEF k
  <1>7. k \notin ToSet(pool)
    BY <1>1, <1>6, Member
  <1>8. /\ pool' \in Seq(Keys) /\ Len(pool') = Len(pool) + 1 /\ pool'[Len(pool) + 1] = k
        /\ \A i \in 1 .. Len(pool) : pool'[i] = pool[i]
    BY <1>1, <1>3, <1>6
  <1>9. DOMAIN pool' = (DOMAIN pool) \cup {Len(pool) + 1}
    BY <1>1, <1>8
  <1>10. ToSet(pool') = ToSet(pool) \cup {k}
    BY <1>1, <1>8, <1>9 DEF ToSet
  <1> QED
    BY <1>2, <1>3, <1>5, <1>6, <1>7, <1>8, <1>10 DEF k

\* The pool only grows at its end.
LEMMA PoolGrows ==
    ASSUME TypeOK, [Next]_vars
    PROVE  /\ pool' \in Seq(Keys) /\ Len(pool) <= Len(pool')
           /\ \A i \in 1 .. Len(pool) : pool'[i] = pool[i]
           /\ ToSet(pool) \subseteq ToSet(pool')
           /\ pool' = pool \/ (CreateWorker /\ Len(pool') = Len(pool) + 1)
  <1>1. pool \in Seq(Keys) /\ Len(pool) \in Nat /\ DOMAIN pool = 1 .. Len(pool)
    BY DEF TypeOK
  <1>2. CASE pool' = pool
    BY <1>1, <1>2
  <1>3. CASE CreateWorker
    BY <1>1, <1>3, NewWorker
  <1>4. pool' = pool \/ CreateWorker
    BY DEF Next, vars, Main, Discard, Enqueue, Shutdown, Join, Complete, Worker,
           Take, Arrive, Expire, Return, Dispatch, Leave
  <1> QED
    BY <1>2, <1>3, <1>4

LEMMA ConcatAppend ==
    ASSUME NEW S, NEW s \in Seq(S), NEW t \in Seq(S), NEW e \in S
    PROVE  s \o Append(t, e) = Append(s \o t, e)
  <1>1. /\ Append(t, e) \in Seq(S) /\ Len(Append(t, e)) = Len(t) + 1
        /\ \A i \in 1 .. Len(t) : Append(t, e)[i] = t[i]
        /\ Append(t, e)[Len(t) + 1] = e /\ Len(s) \in Nat /\ Len(t) \in Nat
    BY AppendProperties
  <1>2. /\ s \o t \in Seq(S) /\ Len(s \o t) = Len(s) + Len(t)
        /\ \A i \in 1 .. Len(s) + Len(t) : (s \o t)[i] = IF i <= Len(s) THEN s[i] ELSE t[i - Len(s)]
    BY ConcatProperties
  <1> DEFINE l == s \o Append(t, e)
  <1> DEFINE r == Append(s \o t, e)
  <1>3. /\ l \in Seq(S) /\ Len(l) = Len(s) + (Len(t) + 1)
        /\ \A i \in 1 .. Len(s) + (Len(t) + 1) :
             l[i] = IF i <= Len(s) THEN s[i] ELSE Append(t, e)[i - Len(s)]
    BY <1>1, ConcatProperties
  <1>4. /\ r \in Seq(S) /\ Len(r) = Len(s) + Len(t) + 1
        /\ \A i \in 1 .. Len(s) + Len(t) : r[i] = (s \o t)[i]
        /\ r[Len(s) + Len(t) + 1] = e
    BY <1>2, AppendProperties
  <1> HIDE DEF l, r
  <1>5. Len(l) = Len(r)
    BY <1>1, <1>3, <1>4
  <1>6. ASSUME NEW i \in 1 .. Len(l) PROVE l[i] = r[i]
    <2>1. i \in 1 .. Len(s) + (Len(t) + 1) /\ i \in Nat
      BY <1>1, <1>3
    <2>2. CASE i <= Len(s)
      <3>1. i \in 1 .. Len(s) + Len(t)
        BY <2>1, <2>2, <1>1
      <3>2. l[i] = s[i]
        BY <2>1, <2>2, <1>3
      <3>3. r[i] = s[i]
        BY <2>2, <3>1, <1>2, <1>4
      <3> QED
        BY <3>2, <3>3
    <2>3. CASE i > Len(s) /\ i <= Len(s) + Len(t)
      <3>1. i - Len(s) \in 1 .. Len(t) /\ i \in 1 .. Len(s) + Len(t)
        BY <2>1, <2>3, <1>1
      <3>2. ~(i <= Len(s))
        BY <2>1, <2>3, <1>1
      <3>3. l[i] = Append(t, e)[i - Len(s)]
        BY <2>1, <3>2, <1>3
      <3>4. r[i] = t[i - Len(s)]
        BY <3>1, <3>2, <1>2, <1>4
      <3>5. Append(t, e)[i - Len(s)] = t[i - Len(s)]
        BY <3>1, <1>1
      <3> QED
        BY <3>3, <3>4, <3>5
    <2>4. CASE i = Len(s) + Len(t) + 1
      <3>1. i - Len(s) = Len(t) + 1 /\ ~(i <= Len(s))
        BY <2>1, <2>4, <1>1
      <3> QED
        BY <2>1, <2>4, <3>1, <1>1, <1>3, <1>4
    <2> QED
      BY <2>1, <2>2, <2>3, <2>4, <1>1
  <1>7. l = r
    BY <1>3, <1>4, <1>5, <1>6, SeqEqual
  <1> QED
    BY <1>7 DEF l, r

\* Taking a record moves it from the queue to the records taken: what was
\* routed to the worker stays the same sequence.
LEMMA TakeRoutes ==
    ASSUME TypeOK, NEW k \in Keys, Take(k)
    PROVE  /\ queue' \in [Keys -> Seq(Replayable)] /\ played' \in [Keys -> Seq(Replayable)]
           /\ \A w \in Keys : Routed(w)' = Routed(w) /\ Len(queue'[w]) <= Len(queue[w])
           /\ Len(played'[k]) = Len(played[k]) + 1
           /\ \A w \in Keys \ {k} : played'[w] = played[w] /\ queue'[w] = queue[w]
  <1> DEFINE q == queue[k]
  <1> DEFINE p == played[k]
  <1> DEFINE R == Replayable
  <1>1. /\ q \in Seq(R) /\ p \in Seq(R) /\ q # <<>>
        /\ queue \in [Keys -> Seq(R)] /\ played \in [Keys -> Seq(R)]
    BY DEF TypeOK, Take
  <1>2. queue' = [queue EXCEPT ![k] = Tail(q)] /\ played' = [played EXCEPT ![k] = Append(p, Head(q))]
    BY DEF Take
  <1> HIDE DEF q, p, R
  <1>3. /\ Head(q) \in R /\ Tail(q) \in Seq(R) /\ Len(Tail(q)) = Len(q) - 1
        /\ \A i \in 1 .. Len(Tail(q)) : Tail(q)[i] = q[i + 1]
        /\ Len(q) \in Nat \ {0} /\ Head(q) = q[1] /\ Len(p) \in Nat
    BY <1>1, HeadTailProperties, EmptySeq
  <1>4. /\ Append(p, Head(q)) \in Seq(R) /\ Len(Append(p, Head(q))) = Len(p) + 1
        /\ \A i \in 1 .. Len(p) : Append(p, Head(q))[i] = p[i]
        /\ Append(p, Head(q))[Len(p) + 1] = Head(q)
    BY <1>1, <1>3, AppendProperties
  <1>5. queue' \in [Keys -> Seq(R)] /\ played' \in [Keys -> Seq(R)]
    BY <1>1, <1>2, <1>3, <1>4
  <1>6. Append(p, Head(q)) \o Tail(q) = p \o q
    <2> DEFINE s == Append(p, Head(q)) \o Tail(q)
    <2> DEFINE t == p \o q
    <2>1. s \in Seq(R) /\ Len(s) = Len(p) + 1 + (Len(q) - 1)
          /\ \A i \in 1 .. Len(s) : s[i] = IF i <= Len(p) + 1 THEN Append(p, Head(q))[i]
                                             ELSE Tail(q)[i - (Len(p) + 1)]
      BY <1>3, <1>4, ConcatProperties
    <2>2. t \in Seq(R) /\ Len(t) = Len(p) + Len(q)
          /\ \A i \in 1 .. Len(t) : t[i] = IF i <= Len(p) THEN p[i] ELSE q[i - Len(p)]
      BY <1>1, <1>3, ConcatProperties
    <2> HIDE DEF s, t
    <2>3. Len(s) = Len(t)
      BY <2>1, <2>2, <1>3
    <2>4. ASSUME NEW i \in 1 .. Len(s) PROVE s[i] = t[i]
      <3>1. CASE i <= Len(p)
        <4>1. i \in 1 .. Len(p) /\ i <= Len(p) + 1 /\ i \in 1 .. Len(t)
          BY <3>1, <2>1, <2>3, <1>3
        <4>2. s[i] = Append(p, Head(q))[i] /\ t[i] = p[i]
          BY <4>1, <3>1, <2>1, <2>2
        <4> QED
          BY <4>1, <4>2, <1>4
      <3>2. CASE i = Len(p) + 1
        BY <3>2, <2>1, <2>2, <2>3, <1>3, <1>4
      <3>3. CASE i > Len(p) + 1
        <4>1. i - (Len(p) + 1) \in 1 .. Len(Tail(q))
          BY <3>3, <2>1, <1>3
        <4>2. Tail(q)[i - (Len(p) + 1)] = q[i - Len(p)]
          BY <4>1, <1>3
        <4> QED
          BY <3>3, <4>2, <2>1, <2>2, <2>3, <1>3
      <3> QED
        BY <3>1, <3>2, <3>3, <2>1, <1>3
    <2>5. s = t
      BY <2>1, <2>2, <2>3, <2>4, SeqEqual
    <2> QED
      BY <2>5 DEF s, t
  <1>7. ASSUME NEW w \in Keys PROVE Routed(w)' = Routed(w) /\ Len(queue'[w]) <= Len(queue[w])
    <2>1. CASE w = k
      BY <2>1, <1>1, <1>2, <1>3, <1>6 DEF Routed, q, p
    <2>2. CASE w # k
      <3>1. queue'[w] = queue[w] /\ played'[w] = played[w] /\ Len(queue[w]) \in Nat
        BY <2>2, <1>1, <1>2
      <3> QED
        BY <3>1 DEF Routed
    <2> QED
      BY <2>1, <2>2
  <1>8. Len(played'[k]) = Len(played[k]) + 1
    BY <1>1, <1>2, <1>4 DEF p
  <1>9. \A w \in Keys \ {k} : played'[w] = played[w] /\ queue'[w] = queue[w]
    BY <1>1, <1>2
  <1> QED
    BY <1>5, <1>7, <1>8, <1>9 DEF R

\* main() appends the record it has read to what its owner was routed.
LEMMA EnqueueRoutes ==
    ASSUME TypeOK, Enqueue
    PROVE  \E k \in Keys :
           /\ k = Owner(trace[pos].pid) /\ k \in ToSet(pool) /\ pos \in Replayable
           /\ queue' \in [Keys -> Seq(Replayable)] /\ Len(queue'[k]) <= Capacity
           /\ Routed(k) \in Seq(Replayable) /\ Routed(k)' = Append(Routed(k), pos)
           /\ \A w \in Keys \ {k} : Routed(w)' = Routed(w) /\ queue'[w] = queue[w]
  <1>0. PICK k : k = Owner(trace[pos].pid)
    OBVIOUS
  <1> DEFINE R == Replayable
  <1>1. /\ Contains(pool, k) /\ Len(queue[k]) < Capacity /\ played' = played
        /\ queue' = [queue EXCEPT ![k] = Append(queue[k], pos)]
    BY <1>0 DEF Enqueue
  <1>2. pos \in R
    BY InputTyped DEF Enqueue, Reading, Replayable
  <1>3. queue \in [Keys -> Seq(R)] /\ played \in [Keys -> Seq(R)] /\ pool \in Seq(Keys)
    BY DEF TypeOK
  <1> HIDE DEF R
  <1>4. k \in Keys /\ k \in ToSet(pool)
    BY <1>1, <1>3 DEF Contains, ToSet
  <1>5. queue[k] \in Seq(R) /\ played[k] \in Seq(R) /\ Append(queue[k], pos) \in Seq(R)
        /\ Len(Append(queue[k], pos)) = Len(queue[k]) + 1 /\ Len(queue[k]) \in Nat
    BY <1>2, <1>3, <1>4
  <1>6. queue' \in [Keys -> Seq(R)] /\ Len(queue'[k]) <= Capacity
    BY <1>1, <1>3, <1>4, <1>5, ReplayerAssumption
  <1>7. played[k] \o Append(queue[k], pos) = Append(played[k] \o queue[k], pos)
    <2> DEFINE p == played[k]
    <2> DEFINE q == queue[k]
    <2>1. p \in Seq(R) /\ q \in Seq(R)
      BY <1>5
    <2> HIDE DEF p, q
    <2>2. p \o Append(q, pos) = Append(p \o q, pos)
      BY <1>2, <2>1, ConcatAppend
    <2> QED
      BY <2>2 DEF p, q
  <1>8. Routed(k) \in Seq(R) /\ Routed(k)' = Append(Routed(k), pos)
    <2>1. Routed(k) \in Seq(R)
      BY <1>5, ConcatProperties DEF Routed
    <2>2. played'[k] \o queue'[k] = Append(Routed(k), pos)
      BY <1>1, <1>3, <1>4, <1>7 DEF Routed
    <2> QED
      BY <2>1, <2>2 DEF Routed
  <1>9. \A w \in Keys \ {k} : Routed(w)' = Routed(w) /\ queue'[w] = queue[w]
    BY <1>1, <1>3 DEF Routed
  <1> QED
    BY <1>0, <1>2, <1>4, <1>6, <1>8, <1>9 DEF R

----------------------------------------------------------------------------
(* The inductive invariant, part by part.                                  *)

\* Steps other than Take and Enqueue leave the queues alone.
LEMMA RoutedSame ==
    ASSUME TypeOK, [Next]_vars, ~Enqueue
    PROVE  \A w \in Keys : Routed(w)' = Routed(w)
  <1>1. CASE \E k \in Keys : Take(k)
    BY <1>1, TakeRoutes
  <1>2. CASE UNCHANGED <<queue, played>>
    BY <1>2 DEF Routed
  <1> QED
    BY <1>1, <1>2 DEF Next, vars, workers, Main, Discard, CreateWorker, Enqueue, Shutdown, Join,
       Complete, Worker, Arrive, Expire, Return, Dispatch, Leave

LEMMA RoutedTyped ==
    ASSUME TypeOK, NEW k \in Keys
    PROVE  /\ Routed(k) \in Seq(Replayable) /\ Len(Routed(k)) = Len(played[k]) + Len(queue[k])
           /\ Len(played[k]) \in Nat /\ Len(queue[k]) \in Nat /\ Len(Routed(k)) \in Nat
           /\ DOMAIN Routed(k) = 1 .. Len(Routed(k))
           /\ \A m \in 1 .. Len(played[k]) : Routed(k)[m] = played[k][m]
           /\ \A m \in 1 .. Len(queue[k]) : Routed(k)[Len(played[k]) + m] = queue[k][m]
  <1> DEFINE p == played[k]
  <1> DEFINE q == queue[k]
  <1> DEFINE R == Replayable
  <1>1. p \in Seq(R) /\ q \in Seq(R) /\ Routed(k) = p \o q
    BY DEF TypeOK, Routed
  <1> HIDE DEF p, q, R
  <1>2. /\ p \o q \in Seq(R) /\ Len(p \o q) = Len(p) + Len(q)
        /\ \A i \in 1 .. Len(p) + Len(q) : (p \o q)[i] = IF i <= Len(p) THEN p[i] ELSE q[i - Len(p)]
        /\ Len(p) \in Nat /\ Len(q) \in Nat
    BY <1>1, ConcatProperties
  <1> DEFINE r == Routed(k)
  <1>3. /\ r \in Seq(R) /\ Len(r) = Len(p) + Len(q)
        /\ \A i \in 1 .. Len(p) + Len(q) : r[i] = IF i <= Len(p) THEN p[i] ELSE q[i - Len(p)]
    BY <1>1, <1>2
  <1> HIDE DEF r
  <1>4. Len(r) \in Nat /\ DOMAIN r = 1 .. Len(r)
    BY <1>3
  <1>5. \A m \in 1 .. Len(p) : r[m] = p[m]
    BY <1>2, <1>3
  <1>6. ASSUME NEW m \in 1 .. Len(q) PROVE r[Len(p) + m] = q[m]
    <2>1. Len(p) + m \in 1 .. Len(p) + Len(q) /\ ~(Len(p) + m <= Len(p)) /\ Len(p) + m - Len(p) = m
      BY <1>2
    <2> QED
      BY <1>3, <2>1
  <1> QED
    BY <1>2, <1>3, <1>4, <1>5, <1>6 DEF p, q, r, R

\* Whoever owns a process goes on owning it once it is in the pool.
LEMMA OwnerStays ==
    ASSUME TypeOK, [Next]_vars, NEW q, Owner(q) \in ToSet(pool)
    PROVE  Owner(q)' = Owner(q)
  <1>1. Key(q)' = Key(q) /\ max_workers' = max_workers
    BY InputFixed DEF Key
  <1>2. CASE pool' = pool
    BY <1>1, <1>2 DEF Owner
  <1>3. CASE pool' # pool
    <2>1. CreateWorker
      BY <1>3, PoolGrows
    <2>2. Len(pool) < max_workers /\ ToSet(pool) \subseteq ToSet(pool') /\ pool' \in Seq(Keys)
      BY <2>1, NewWorker, PoolGrows
    <2>3. Owner(q) = Key(q)
      BY <2>2 DEF Owner
    <2>4. Key(q) \in ToSet(pool')
      BY <2>2, <2>3
    <2>5. Contains(pool', Key(q))
      BY <2>2, <2>4, Member
    <2> QED
      BY <1>1, <2>3, <2>5 DEF Owner
  <1> QED
    BY <1>2, <1>3

LEMMA RouteStep ==
    ASSUME TypeOK, RoutedToOwner, [Next]_vars
    PROVE  RoutedToOwner'
  <1>1. pos \in Nat /\ pos' \in {pos, pos + 1}
    BY InputTyped DEF Next, vars, Main, Discard, CreateWorker, Enqueue, Shutdown, Join,
       Complete, Worker, Take, Arrive, Expire, Return, Dispatch, Leave
  <1>2. trace' = trace /\ Replayable' = Replayable /\ Replayable \in SUBSET Nat
    BY InputFixed, InputTyped
  <1>3. ASSUME NEW k \in Keys, NEW i, Contains(Routed(k), i)
        PROVE  /\ i \in Replayable /\ i \in Nat /\ i < pos /\ k \in ToSet(pool')
               /\ Owner(trace[i].pid)' = k
    <2>1. PICK m \in DOMAIN Routed(k) : Routed(k)[m] = i
      BY <1>3 DEF Contains
    <2>2. i < pos /\ k \in ToSet(pool) /\ Owner(trace[i].pid) = k
      BY <2>1 DEF RoutedToOwner
    <2>3. i \in Replayable /\ i \in Nat
      <3>1. Routed(k) \in Seq(Replayable) /\ m \in 1 .. Len(Routed(k))
        BY RoutedTyped
      <3>2. Routed(k)[m] \in Replayable
        BY <3>1, ElementOfSeq
      <3> QED
        BY <3>2, <2>1, <1>2
    <2>4. PICK q : q = trace[i].pid
      OBVIOUS
    <2>5. Owner(q)' = k
      BY <2>2, <2>4, OwnerStays
    <2>6. trace'[i].pid = q
      BY <1>2, <2>4
    <2>7. Owner(trace[i].pid)' = k
      BY <2>5, <2>6 DEF Owner, Key
    <2> QED
      BY <2>2, <2>3, <2>7, PoolGrows
  <1>4. CASE ~Enqueue
    <2>1. \A k \in Keys : Routed(k)' = Routed(k)
      BY <1>4, RoutedSame
    <2>2. ASSUME NEW k \in Keys, NEW m \in DOMAIN Routed(k)'
          PROVE  /\ Routed(k)'[m] < pos' /\ k \in ToSet(pool')
                 /\ Owner(trace[Routed(k)[m]].pid)' = k
                 /\ \A n \in DOMAIN Routed(k)' : m < n => Routed(k)'[m] < Routed(k)'[n]
      <3>1. PICK i : i = Routed(k)'[m]
        OBVIOUS
      <3>2. Contains(Routed(k), i) /\ m \in DOMAIN Routed(k)
        BY <2>1, <3>1 DEF Contains
      <3>3. i \in Nat /\ i < pos /\ k \in ToSet(pool') /\ Owner(trace[i].pid)' = k
        BY <1>3, <3>2
      <3>4. Owner(trace[Routed(k)[m]].pid)' = k
        BY <3>1, <3>3 DEF Owner, Key
      <3>5. \A n \in DOMAIN Routed(k)' : m < n => Routed(k)'[m] < Routed(k)'[n]
        BY <2>1, <3>2 DEF RoutedToOwner
      <3> QED
        BY <1>1, <3>1, <3>3, <3>4, <3>5
    <2>3. ASSUME NEW i \in Replayable', i < pos'
          PROVE  \E k \in Keys : Contains(Routed(k)', i)
      <3>1. i < pos
        <4>1. CASE pos' = pos
          BY <4>1, <2>3
        <4>2. CASE pos' # pos
          <5>1. Discard
            BY <4>2, <1>4 DEF Next, vars, Main, CreateWorker, Shutdown, Join,
               Complete, Worker, Take, Arrive, Expire, Return, Dispatch, Leave
          <5>2. pos \notin Replayable /\ pos' = pos + 1
            BY <5>1 DEF Discard, Replayable
          <5> QED
            BY <5>2, <2>3, <1>1, <1>2
        <4> QED
          BY <4>1, <4>2
      <3>2. \E k \in Keys : Contains(Routed(k), i)
        BY <3>1, <2>3, <1>2 DEF RoutedToOwner
      <3> QED
        BY <3>2, <2>1
    <2> QED
      BY <2>2, <2>3 DEF RoutedToOwner
  <1>5. CASE Enqueue
    <2>1. PICK o \in Keys :
            /\ o = Owner(trace[pos].pid) /\ o \in ToSet(pool) /\ pos \in Replayable
            /\ Routed(o) \in Seq(Replayable) /\ Routed(o)' = Append(Routed(o), pos)
            /\ \A w \in Keys \ {o} : Routed(w)' = Routed(w)
      BY <1>5, EnqueueRoutes
    <2>2. pos' = pos + 1 /\ pool' = pool
      BY <1>5 DEF Enqueue
    <2>3. /\ Len(Routed(o)') = Len(Routed(o)) + 1 /\ Len(Routed(o)) \in Nat
          /\ DOMAIN Routed(o) = 1 .. Len(Routed(o))
          /\ DOMAIN Routed(o)' = 1 .. Len(Routed(o)) + 1
          /\ \A m \in 1 .. Len(Routed(o)) : Routed(o)'[m] = Routed(o)[m]
          /\ Routed(o)'[Len(Routed(o)) + 1] = pos
      <3> DEFINE r == Routed(o)
      <3> DEFINE rr == Routed(o)'
      <3>1. r \in Seq(Replayable) /\ pos \in Replayable /\ rr = Append(r, pos)
        BY <2>1
      <3> HIDE DEF r, rr
      <3>2. /\ rr \in Seq(Replayable) /\ Len(rr) = Len(r) + 1 /\ Len(r) \in Nat
            /\ \A m \in 1 .. Len(r) : rr[m] = r[m]
            /\ rr[Len(r) + 1] = pos /\ DOMAIN r = 1 .. Len(r)
        BY <3>1, AppendProperties
      <3>3. DOMAIN rr = 1 .. Len(r) + 1
        BY <3>2
      <3> QED
        BY <3>2, <3>3 DEF r, rr
    <2>4. \A k \in Keys : \A m \in DOMAIN Routed(k)' :
            \/ m \in DOMAIN Routed(k) /\ Routed(k)'[m] = Routed(k)[m]
            \/ k = o /\ Routed(k)'[m] = pos /\ m = Len(Routed(o)) + 1
      BY <2>1, <2>3
    <2>5. Owner(trace[pos].pid) = o /\ \A i : i = pos => Owner(trace[i].pid)' = o
      BY <2>1, <2>2, <1>2, InputFixed DEF Owner, Key
    <2>6. ASSUME NEW k \in Keys, NEW m \in DOMAIN Routed(k)'
          PROVE  /\ Routed(k)'[m] \in Nat
                 /\ m \in DOMAIN Routed(k) => Routed(k)'[m] = Routed(k)[m] /\ Routed(k)'[m] < pos
                 /\ Routed(k)'[m] < pos' /\ k \in ToSet(pool')
                 /\ Owner(trace[Routed(k)[m]].pid)' = k
      <3>1. PICK i : i = Routed(k)'[m]
        OBVIOUS
      <3>2. CASE m \in DOMAIN Routed(k) /\ i = Routed(k)[m]
        <4>1. Contains(Routed(k), i)
          BY <3>2 DEF Contains
        <4>2. i \in Nat /\ i < pos /\ k \in ToSet(pool') /\ Owner(trace[i].pid)' = k
          BY <1>3, <4>1
        <4>3. Owner(trace[Routed(k)[m]].pid)' = k
          BY <3>1, <4>2 DEF Owner, Key
        <4> QED
          BY <1>1, <2>2, <3>1, <3>2, <4>2, <4>3
      <3>3. CASE k = o /\ i = pos /\ m = Len(Routed(o)) + 1
        <4>1. Owner(trace[i].pid)' = k
          BY <2>5, <3>3
        <4>2. Owner(trace[Routed(k)[m]].pid)' = k
          BY <3>1, <4>1 DEF Owner, Key
        <4>3. m \notin DOMAIN Routed(k)
          BY <2>3, <3>3
        <4> QED
          BY <1>1, <2>1, <2>2, <3>1, <3>3, <4>2, <4>3
      <3> QED
        BY <2>4, <3>1, <3>2, <3>3
    <2>7. ASSUME NEW k \in Keys, NEW m \in DOMAIN Routed(k)', NEW n \in DOMAIN Routed(k)', m < n
          PROVE  Routed(k)'[m] < Routed(k)'[n]
      <3>1. CASE n \in DOMAIN Routed(k)
        <4>1. m \in DOMAIN Routed(k)
          <5>1. CASE k = o
            BY <5>1, <3>1, <2>3, <2>7
          <5>2. CASE k # o
            BY <5>2, <2>1
          <5> QED
            BY <5>1, <5>2
        <4> QED
          BY <3>1, <4>1, <2>6, <2>7 DEF RoutedToOwner
      <3>2. CASE n \notin DOMAIN Routed(k)
        <4>1. k = o /\ Routed(k)'[n] = pos /\ n = Len(Routed(o)) + 1
          BY <3>2, <2>4
        <4>2. m \in DOMAIN Routed(k)
          BY <4>1, <2>3, <2>7
        <4> QED
          BY <4>1, <4>2, <2>6
      <3> QED
        BY <3>1, <3>2
    <2>8. ASSUME NEW i \in Replayable', i < pos'
          PROVE  \E k \in Keys : Contains(Routed(k)', i)
      <3>1. CASE i < pos
        <4>1. PICK k \in Keys : Contains(Routed(k), i)
          BY <3>1, <2>8, <1>2 DEF RoutedToOwner
        <4>2. PICK m \in DOMAIN Routed(k) : Routed(k)[m] = i
          BY <4>1 DEF Contains
        <4>3. m \in DOMAIN Routed(k)' /\ Routed(k)'[m] = i
          <5>1. CASE k = o
            BY <5>1, <4>2, <2>3
          <5>2. CASE k # o
            BY <5>2, <4>2, <2>1
          <5> QED
            BY <5>1, <5>2
        <4> QED
          BY <4>3 DEF Contains
      <3>2. CASE i = pos
        BY <3>2, <2>3 DEF Contains
      <3> QED
        BY <3>1, <3>2, <2>2, <2>8, <1>1, <1>2
    <2> QED
      BY <2>6, <2>7, <2>8 DEF RoutedToOwner
  <1> QED
    BY <1>4, <1>5

\* What happens to the places of the workers, by the action.
LEMMA PlacesStep ==
    ASSUME TypeOK, [Next]_vars
    PROVE  \/ pc' = pc
           \/ CreateWorker
           \/ \E k \in Keys :
                \/ Take(k) /\ pc[k] = "take" /\ \E to \in {"arrive", "dispatch"} : pc' = [pc EXCEPT ![k] = to]
                \/ Arrive(k) /\ pc[k] = "arrive" /\ \E to \in {"dispatch", "waiting"} : pc' = [pc EXCEPT ![k] = to]
                \/ Return(k) /\ pc[k] = "waiting" /\ \E to \in {"dispatch", "waiting"} : pc' = [pc EXCEPT ![k] = to]
                \/ (\E o \in Outcomes : Dispatch(k, o)) /\ pc[k] = "dispatch" /\ pc' = [pc EXCEPT ![k] = "take"]
                \/ Leave(k) /\ pc[k] = "take" /\ pc' = [pc EXCEPT ![k] = "finished"]
  BY DEF Next, vars, workers, Main, Discard, Enqueue, Shutdown, Join, Complete, Worker,
     Take, Arrive, Expire, Return, Dispatch, Leave

\* Where nothing is taken and nothing dispatched, the counters stay.
LEMMA CountersStay ==
    ASSUME [Next]_vars, \A k \in Keys : ~Take(k) /\ \A o \in Outcomes : ~Dispatch(k, o)
    PROVE  UNCHANGED <<total, played, count>>
  BY DEF Next, vars, workers, Main, Discard, CreateWorker, Enqueue, Shutdown, Join, Complete,
     Worker, Arrive, Expire, Return, Leave

LEMMA AddOne ==
    ASSUME NEW c \in [Outcomes -> Nat], NEW o \in Outcomes
    PROVE  /\ AddUp([c EXCEPT ![o] = @ + 1]) = AddUp(c) + 1
           /\ AddUp(c) \in Nat
  <1> DEFINE d == [c EXCEPT ![o] = c[o] + 1]
  <1>1. /\ c["skipped"] \in Nat /\ c["failed"] \in Nat /\ c["mismatch"] \in Nat /\ c["ok"] \in Nat
        /\ o \in {"skipped", "failed", "mismatch", "ok"}
    BY DEF Outcomes
  <1>2. \A x \in Outcomes : d[x] = IF x = o THEN c[x] + 1 ELSE c[x]
    OBVIOUS
  <1>3. AddUp(d) = AddUp(c) + 1
    <2>1. CASE o = "skipped"
      BY <1>1, <1>2, <2>1 DEF AddUp, Outcomes
    <2>2. CASE o = "failed"
      BY <1>1, <1>2, <2>2 DEF AddUp, Outcomes
    <2>3. CASE o = "mismatch"
      BY <1>1, <1>2, <2>3 DEF AddUp, Outcomes
    <2>4. CASE o = "ok"
      BY <1>1, <1>2, <2>4 DEF AddUp, Outcomes
    <2> QED
      BY <1>1, <2>1, <2>2, <2>3, <2>4
  <1> QED
    BY <1>1, <1>3 DEF AddUp

LEMMA CountersStep ==
    ASSUME ReplayInv, [Next]_vars
    PROVE  CountersAddUp'
  <1>1. TypeOK /\ CountersAddUp /\ EndsInTurn
    BY DEF ReplayInv
  <1>2. /\ pc \in [Keys -> {"none", "take", "arrive", "waiting", "dispatch", "finished"}]
        /\ total \in [Keys -> Nat] /\ count \in [Keys -> [Outcomes -> Nat]]
        /\ \A k \in Keys : Len(played[k]) \in Nat
    BY <1>1 DEF TypeOK
  <1>3. ASSUME UNCHANGED <<total, played, count>>, \A k \in Keys : InHand(k)' <=> InHand(k)
        PROVE  CountersAddUp'
    BY <1>1, <1>3 DEF CountersAddUp
  <1>4. ASSUME NEW k \in Keys, Take(k)
        PROVE  CountersAddUp'
    <2>1. /\ total' = [total EXCEPT ![k] = total[k] + 1] /\ count' = count /\ pc[k] = "take"
          /\ \E to \in {"arrive", "dispatch"} : pc' = [pc EXCEPT ![k] = to]
      BY <1>4 DEF Take
    <2>2. Len(played'[k]) = Len(played[k]) + 1 /\ \A w \in Keys \ {k} : played'[w] = played[w]
      BY <1>1, <1>4, TakeRoutes
    <2>3. InHand(k)' /\ ~InHand(k) /\ \A w \in Keys \ {k} : InHand(w)' <=> InHand(w)
      BY <2>1, <1>2 DEF InHand
    <2>4. AddUp(count[k]) \in Nat
      BY <1>2, AddOne DEF Outcomes
    <2>5. ASSUME NEW w \in Keys
          PROVE  /\ total'[w] = Len(played'[w])
                 /\ AddUp(count'[w]) + (IF InHand(w)' THEN 1 ELSE 0) = total'[w]
      <3>1. CASE w = k
        <4>1. total[k] = Len(played[k]) /\ AddUp(count[k]) = total[k]
          BY <1>1, <2>3, <2>4 DEF CountersAddUp
        <4> QED
          BY <3>1, <4>1, <2>1, <2>2, <2>3, <1>2
      <3>2. CASE w # k
        <4>1. total'[w] = total[w] /\ played'[w] = played[w] /\ (InHand(w)' <=> InHand(w))
          BY <3>2, <2>1, <2>2, <2>3, <1>2
        <4> QED
          BY <4>1, <2>1, <1>1 DEF CountersAddUp
      <3> QED
        BY <3>1, <3>2
    <2> QED
      BY <2>5 DEF CountersAddUp
  <1>5. ASSUME NEW k \in Keys, NEW o \in Outcomes, Dispatch(k, o)
        PROVE  CountersAddUp'
    <2>1. /\ total' = total /\ played' = played /\ pc[k] = "dispatch"
          /\ count' = [count EXCEPT ![k] = [count[k] EXCEPT ![o] = count[k][o] + 1]]
          /\ pc' = [pc EXCEPT ![k] = "take"]
      BY <1>5 DEF Dispatch
    <2>2. InHand(k) /\ ~InHand(k)' /\ \A w \in Keys \ {k} : InHand(w)' <=> InHand(w)
      BY <2>1, <1>2 DEF InHand
    <2>3. AddUp(count'[k]) = AddUp(count[k]) + 1 /\ AddUp(count[k]) \in Nat
      <3>1. count'[k] = [count[k] EXCEPT ![o] = @ + 1]
        BY <2>1, <1>2
      <3> QED
        BY <3>1, <1>2, AddOne
    <2>4. \A w \in Keys \ {k} : count'[w] = count[w]
      BY <2>1, <1>2
    <2>5. AddUp(count[k]) + 1 = total[k]
      BY <1>1, <2>2 DEF CountersAddUp
    <2> QED
      BY <2>1, <2>2, <2>3, <2>4, <2>5, <1>1, <1>2 DEF CountersAddUp
  <1>6. CASE \A k \in Keys : ~Take(k) /\ \A o \in Outcomes : ~Dispatch(k, o)
    <2>1. UNCHANGED <<total, played, count>>
      BY <1>6, CountersStay
    <2>2. \A k \in Keys : InHand(k)' <=> InHand(k)
      <3>1. CASE CreateWorker
        <4>1. PICK k \in Keys : k \notin ToSet(pool) /\ pc' = [pc EXCEPT ![k] = "take"]
          BY <3>1, <1>1, NewWorker
        <4>2. pc[k] = "none"
          BY <4>1, <1>1 DEF EndsInTurn
        <4> QED
          BY <4>1, <4>2, <1>2 DEF InHand
      <3>2. CASE ~CreateWorker
        BY <3>2, <1>1, <1>2, <1>6, PlacesStep DEF InHand
      <3> QED
        BY <3>1, <3>2
    <2> QED
      BY <2>1, <2>2, <1>3
  <1> QED
    BY <1>4, <1>5, <1>6

\* The records of two workers differ, and one worker's are counted by its
\* total: a joined worker adds as many records as it took.
LEMMA OwnRecords ==
    ASSUME TypeOK, RoutedToOwner, NEW k \in Keys
    PROVE  /\ IsInjective(Routed(k)) /\ IsInjective(played[k])
           /\ \A w \in Keys : w # k => ToSet(Routed(w)) \cap ToSet(Routed(k)) = {}
           /\ ToSet(played[k]) \subseteq ToSet(Routed(k))
           /\ ToSet(played[k]) \subseteq Replayable
  <1>1. /\ Routed(k) \in Seq(Replayable) /\ DOMAIN Routed(k) = 1 .. Len(Routed(k))
        /\ Len(Routed(k)) = Len(played[k]) + Len(queue[k])
        /\ Len(played[k]) \in Nat /\ Len(queue[k]) \in Nat
        /\ \A m \in 1 .. Len(played[k]) : Routed(k)[m] = played[k][m]
    BY RoutedTyped
  <1>2. \A m \in DOMAIN Routed(k) : Routed(k)[m] \in Nat
    BY <1>1, InputTyped, ElementOfSeq
  <1>3. \A m, n \in DOMAIN Routed(k) : m < n => Routed(k)[m] < Routed(k)[n]
    BY DEF RoutedToOwner
  <1>4. IsInjective(Routed(k))
    <2> SUFFICES ASSUME NEW m \in DOMAIN Routed(k), NEW n \in DOMAIN Routed(k),
                        Routed(k)[m] = Routed(k)[n]
                 PROVE  m = n
      BY DEF IsInjective
    <2>1. m \in Nat /\ n \in Nat
      BY <1>1
    <2>2. ~(m < n) /\ ~(n < m)
      BY <1>2, <1>3
    <2> QED
      BY <2>1, <2>2
  <1>5. DOMAIN played[k] = 1 .. Len(played[k]) /\ 1 .. Len(played[k]) \subseteq DOMAIN Routed(k)
        /\ played[k] \in Seq(Replayable)
    BY <1>1 DEF TypeOK
  <1>6. IsInjective(played[k]) /\ ToSet(played[k]) \subseteq ToSet(Routed(k))
    BY <1>1, <1>4, <1>5 DEF IsInjective, ToSet
  <1>7. ASSUME NEW w \in Keys, w # k PROVE ToSet(Routed(w)) \cap ToSet(Routed(k)) = {}
    <2> SUFFICES ASSUME NEW m \in DOMAIN Routed(w), NEW n \in DOMAIN Routed(k),
                        Routed(w)[m] = Routed(k)[n]
                 PROVE  FALSE
      BY DEF ToSet
    <2>1. Owner(trace[Routed(w)[m]].pid) = w /\ Owner(trace[Routed(k)[n]].pid) = k
      BY DEF RoutedToOwner
    <2> QED
      BY <2>1, <1>7
  <1>8. ToSet(played[k]) \subseteq Replayable
    BY <1>5 DEF ToSet
  <1> QED
    BY <1>4, <1>6, <1>7, <1>8

LEMMA EndsStep ==
    ASSUME ReplayInv, [Next]_vars
    PROVE  EndsInTurn' /\ closed' \subseteq ToSet(pool') /\ joined' \in 0 .. Len(pool')
           /\ totals' \in [total : Nat, of : [Outcomes -> Nat]]
  <1>1. TypeOK /\ RoutedToOwner /\ CountersAddUp /\ EndsInTurn
    BY DEF ReplayInv
  <1>2. /\ pc \in [Keys -> {"none", "take", "arrive", "waiting", "dispatch", "finished"}]
        /\ pool \in Seq(Keys) /\ closed \subseteq ToSet(pool) /\ joined \in 0 .. Len(pool)
        /\ Len(pool) \in Nat /\ DOMAIN pool = 1 .. Len(pool)
        /\ \A i \in 1 .. Len(pool) : pool[i] \in Keys
        /\ total \in [Keys -> Nat] /\ count \in [Keys -> [Outcomes -> Nat]]
        /\ totals \in [total : Nat, of : [Outcomes -> Nat]] /\ IsInjective(pool)
    BY <1>1 DEF TypeOK
  <1>3. /\ closed \subseteq closed'
        /\ closed' # closed => Shutdown
        /\ Reading \/ pos' = pos
    BY DEF Next, vars, Main, Discard, CreateWorker, Enqueue, Shutdown, Join, Complete, Worker,
       Take, Arrive, Expire, Return, Dispatch, Leave
  <1>4. closed' \subseteq ToSet(pool')
    <2>1. Shutdown => closed' \subseteq ToSet(pool)
      BY <1>2 DEF Shutdown, ToSet
    <2> QED
      BY <1>1, <1>2, <1>3, <2>1, PoolGrows
  <1>5. \A k \in Keys : pc'[k] = "none" <=> k \notin ToSet(pool')
    <2>1. CASE CreateWorker
      <3>1. PICK k \in Keys : ToSet(pool') = ToSet(pool) \cup {k} /\ pc' = [pc EXCEPT ![k] = "take"]
        BY <2>1, <1>1, NewWorker
      <3> QED
        BY <3>1, <1>1, <1>2 DEF EndsInTurn
    <2>2. CASE ~CreateWorker
      <3>1. pool' = pool
        BY <2>2, <1>1, PoolGrows
      <3>2. \A k \in Keys : pc'[k] = "none" <=> pc[k] = "none"
        BY <2>2, <1>1, <1>2, PlacesStep
      <3> QED
        BY <3>1, <3>2, <1>1 DEF EndsInTurn
    <2> QED
      BY <2>1, <2>2
  <1>6. closed' # {} => ~Reading'
    <2>1. Shutdown => ~Reading /\ pos' = pos
      BY DEF Shutdown
    <2>2. ~Reading /\ pos' = pos => ~Reading'
      BY InputFixed DEF Reading
    <2> QED
      BY <1>1, <1>3, <2>1, <2>2 DEF EndsInTurn
  <1>7. Finished \subseteq Finished' /\ \A k \in Finished' \ Finished : Leave(k)
    <2>1. CASE CreateWorker
      <3>1. PICK k \in Keys : k \notin ToSet(pool) /\ pc' = [pc EXCEPT ![k] = "take"]
        BY <2>1, <1>1, NewWorker
      <3>2. pc[k] = "none"
        BY <3>1, <1>1 DEF EndsInTurn
      <3> QED
        BY <3>1, <3>2, <1>2 DEF Finished
    <2>2. CASE ~CreateWorker
      BY <2>2, <1>1, <1>2, PlacesStep DEF Finished
    <2> QED
      BY <2>1, <2>2
  <1>8. \A k \in Finished : queue'[k] = queue[k] /\ played'[k] = played[k]
    <2> SUFFICES ASSUME NEW k \in Finished PROVE queue'[k] = queue[k] /\ played'[k] = played[k]
      OBVIOUS
    <2>1. ~Enqueue
      BY <1>1 DEF EndsInTurn, Enqueue
    <2>2. CASE \E w \in Keys : Take(w)
      <3>1. PICK w \in Keys : Take(w)
        BY <2>2
      <3>2. w # k /\ k \in Keys
        BY <3>1 DEF Take, Finished
      <3> QED
        BY <3>1, <3>2, <1>1, TakeRoutes
    <2>3. CASE UNCHANGED <<queue, played>>
      BY <2>3
    <2> QED
      BY <2>1, <2>2, <2>3 DEF Next, vars, workers, Main, Discard, CreateWorker, Shutdown, Join,
         Complete, Worker, Arrive, Expire, Return, Dispatch, Leave
  <1>9. \A k \in Finished' : queue'[k] = <<>> /\ k \in closed'
    <2> SUFFICES ASSUME NEW k \in Finished' PROVE queue'[k] = <<>> /\ k \in closed'
      OBVIOUS
    <2>1. CASE k \in Finished
      BY <2>1, <1>1, <1>3, <1>8 DEF EndsInTurn
    <2>2. CASE k \notin Finished
      BY <2>2, <1>3, <1>7 DEF Leave
    <2> QED
      BY <2>1, <2>2
  <1>10. CASE Join
    <2>1. PICK k \in Keys :
            /\ k = pool[joined + 1] /\ pc[k] = "finished" /\ joined < Len(pool)
            /\ totals' = [total |-> totals.total + total[k],
                          of |-> [o \in Outcomes |-> totals.of[o] + count[k][o]]]
            /\ joined' = joined + 1 /\ pool' = pool /\ pc' = pc /\ played' = played
      BY <1>10, <1>2 DEF Join, workers
    <2>2. joined \in Nat /\ joined' \in 0 .. Len(pool') /\ 1 .. joined' = (1 .. joined) \cup {joined + 1}
      BY <2>1, <1>2
    <2>3. \A i \in 1 .. joined' : pool'[i] \in Finished'
      BY <2>1, <2>2, <1>1 DEF EndsInTurn, Finished
    <2>4. JoinedRecords' = JoinedRecords \cup ToSet(played[k])
      BY <2>1, <2>2 DEF JoinedRecords
    <2>5. JoinedRecords \cap ToSet(played[k]) = {}
      <3> SUFFICES ASSUME NEW i \in 1 .. joined PROVE ToSet(played[pool[i]]) \cap ToSet(played[k]) = {}
        BY DEF JoinedRecords
      <3>0. i \in DOMAIN pool /\ joined + 1 \in DOMAIN pool /\ i # joined + 1
        BY <2>1, <1>1, <1>2, InputTyped
      <3>1. pool[i] \in Keys /\ pool[i] # k
        <4>1. \A m, n \in DOMAIN pool : m # n => pool[m] # pool[n]
          BY <1>2 DEF IsInjective
        <4> QED
          BY <3>0, <4>1, <2>1, <1>2
      <3>2. ToSet(Routed(pool[i])) \cap ToSet(Routed(k)) = {}
        BY <3>1, <1>1, OwnRecords
      <3>3. ToSet(played[pool[i]]) \subseteq ToSet(Routed(pool[i])) /\ ToSet(played[k]) \subseteq ToSet(Routed(k))
        BY <3>1, <1>1, OwnRecords
      <3> QED
        BY <3>2, <3>3
    <2>6. IsFiniteSet(JoinedRecords) /\ IsFiniteSet(ToSet(played[k]))
          /\ Cardinality(JoinedRecords) \in Nat
      <3>1. JoinedRecords \subseteq Replayable /\ ToSet(played[k]) \subseteq Replayable
        BY <1>1, <1>2, OwnRecords DEF JoinedRecords
      <3>2. Replayable \subseteq 1 .. Len(trace) /\ IsFiniteSet(1 .. Len(trace))
        BY <1>1, InputTyped, FS_Interval DEF Replayable
      <3>3. JoinedRecords \subseteq 1 .. Len(trace) /\ ToSet(played[k]) \subseteq 1 .. Len(trace)
        BY <3>1, <3>2
      <3> QED
        BY <3>2, <3>3, FS_Subset, FS_CardinalityType
    <2>7. Cardinality(ToSet(played[k])) = Len(played[k])
      <3>1. played[k] \in Seq(Replayable) /\ IsInjective(played[k])
        BY <1>1, OwnRecords DEF TypeOK
      <3> QED
        BY <3>1, InjectiveCount
    <2>8. Cardinality(JoinedRecords') = Cardinality(JoinedRecords) + Len(played[k])
      <3> DEFINE A == JoinedRecords
      <3> DEFINE C == ToSet(played[k])
      <3>1. Cardinality(A \cup C) = Cardinality(A) + Cardinality(C) - Cardinality(A \cap C)
        BY <2>6, FS_Union
      <3>2. Cardinality(A \cap C) = 0
        BY <2>5, FS_EmptySet
      <3>3. Len(played[k]) \in Nat
        BY <1>1 DEF TypeOK
      <3> QED
        BY <3>1, <3>2, <3>3, <2>4, <2>6, <2>7
    <2>9. total[k] = Len(played[k]) /\ AddUp(count[k]) = total[k] /\ AddUp(count[k]) \in Nat
      <3>1. ~InHand(k) /\ AddUp(count[k]) \in Nat
        BY <2>1, <1>2, AddOne DEF InHand, Outcomes
      <3> QED
        BY <3>1, <1>1 DEF CountersAddUp
    <2>10. /\ totals'.total = totals.total + total[k]
           /\ \A o \in Outcomes : totals'.of[o] = totals.of[o] + count[k][o]
           /\ totals'.of \in [Outcomes -> Nat] /\ totals' \in [total : Nat, of : [Outcomes -> Nat]]
      <3>1. /\ totals.total \in Nat /\ totals.of \in [Outcomes -> Nat]
            /\ count[k] \in [Outcomes -> Nat] /\ total[k] \in Nat
        BY <1>2
      <3> QED
        BY <2>1, <3>1
    <2>11. AddUp(totals'.of) = AddUp(totals.of) + AddUp(count[k]) /\ AddUp(totals.of) \in Nat
      <3>1. totals.of \in [Outcomes -> Nat] /\ count[k] \in [Outcomes -> Nat]
        BY <1>2
      <3> QED
        BY <2>10, <3>1 DEF AddUp, Outcomes
    <2>12. totals'.total = Cardinality(JoinedRecords') /\ AddUp(totals'.of) = totals'.total
      BY <2>8, <2>9, <2>10, <2>11, <1>1 DEF EndsInTurn
    <2> QED
      BY <1>4, <1>5, <1>6, <1>9, <2>2, <2>3, <2>10, <2>12 DEF EndsInTurn
  <1>11. CASE UNCHANGED <<joined, totals>>
    <2>1. \A i \in 1 .. joined : pool'[i] = pool[i] /\ pool[i] \in Finished
      BY <1>1, <1>2, PoolGrows DEF EndsInTurn
    <2>2. \A i \in 1 .. joined' : pool'[i] \in Finished'
      BY <2>1, <1>7, <1>11
    <2>3. JoinedRecords' = JoinedRecords
      BY <2>1, <1>8, <1>11 DEF JoinedRecords
    <2>4. joined' \in 0 .. Len(pool')
      BY <1>1, <1>2, <1>11, PoolGrows
    <2> QED
      BY <1>1, <1>2, <1>4, <1>5, <1>6, <1>9, <1>11, <2>2, <2>3, <2>4 DEF EndsInTurn
  <1> QED
    BY <1>10, <1>11 DEF Next, vars, ending, Main, Discard, CreateWorker, Enqueue, Shutdown,
       Complete, Worker, Take, Arrive, Expire, Return, Dispatch, Leave

----------------------------------------------------------------------------
(* The barrier.                                                            *)

\* A worker that waits is alive, and one whose thread is alive is away from
\* the barrier or waits.
LEMMA InTheRound ==
    ASSUME ReplayInv
    PROVE  /\ B!Unreleased \in SUBSET Keys /\ B!Unreleased \subseteq Alive
           /\ Alive \in SUBSET Keys /\ Finished \in SUBSET Keys
           /\ Finished \cup Alive = ToSet(pool) /\ Finished \cap Alive = {}
           /\ Cardinality(Alive) + Cardinality(Finished) = Len(pool)
           /\ Cardinality(B!Unreleased) \in Nat /\ Cardinality(Alive) \in Nat
           /\ Cardinality(Finished) \in Nat
  <1>1. TypeOK /\ EndsInTurn /\ BarrierFits
    BY DEF ReplayInv
  <1>2. pool \in Seq(Keys) /\ IsInjective(pool)
        /\ pc \in [Keys -> {"none", "take", "arrive", "waiting", "dispatch", "finished"}]
    BY <1>1 DEF TypeOK
  <1>3. ToSet(pool) \in SUBSET Keys
    BY <1>2 DEF ToSet
  <1>4. Alive \in SUBSET Keys /\ Finished \in SUBSET Keys /\ Finished \cap Alive = {}
        /\ Finished \cup Alive = ToSet(pool)
    BY <1>1, <1>2, <1>3 DEF Alive, Finished, EndsInTurn
  <1>5. B!Unreleased \in SUBSET Keys /\ B!Unreleased \subseteq Alive
    BY <1>1, <1>2, <1>3 DEF B!Unreleased, B!Inside, BarrierFits, BarrierPart, Alive, EndsInTurn
  <1>6. Cardinality(Finished \cup Alive)
          = Cardinality(Finished) + Cardinality(Alive) - Cardinality(Finished \cap Alive)
    BY <1>4, FiniteKeys, FS_Union
  <1>7. Cardinality(Finished \cap Alive) = 0 /\ Cardinality(Finished \cup Alive) = Len(pool)
    BY <1>2, <1>4, InjectiveCount, FS_EmptySet
  <1>8. Cardinality(B!Unreleased) \in Nat /\ Cardinality(Alive) \in Nat /\ Cardinality(Finished) \in Nat
    BY <1>4, <1>5, FiniteKeys
  <1> QED
    BY <1>4, <1>5, <1>6, <1>7, <1>8

\* The pre-pass counts at least as many processes as get a worker.
LEMMA PoolCounted ==
    ASSUME TypeOK, BarrierInited, \A k \in ToSet(pool) : \E i \in Replayable : trace[i].pid = k
    PROVE  /\ Len(pool) <= Cardinality(SeenPids(trace))
           /\ ToSet(pool) \subseteq Captured
           /\ Cardinality(SeenPids(trace)) \in Nat
  <1>1. ToSet(pool) \subseteq Captured
    BY DEF Captured, Replayable
  <1>2. /\ SeenPids(trace) \in SUBSET Keys /\ Captured \in SUBSET Keys
        /\ Cardinality(Captured) <= max_workers => SeenPids(trace) = Captured
        /\ Cardinality(Captured) > max_workers => Cardinality(SeenPids(trace)) >= max_workers
    BY PrePass DEF TypeOK
  <1>3. Cardinality(ToSet(pool)) = Len(pool) /\ Len(pool) \in Nat /\ Len(pool) <= max_workers
    BY InjectiveCount, InputTyped DEF TypeOK
  <1>4. Cardinality(SeenPids(trace)) \in Nat /\ Cardinality(Captured) \in Nat
    BY <1>2, FiniteKeys
  <1>5. Cardinality(ToSet(pool)) <= Cardinality(Captured)
    BY <1>1, <1>2, FewerKeys
  <1>6. max_workers \in Nat
    BY InputTyped
  <1>7. CASE Cardinality(Captured) <= max_workers
    BY <1>2, <1>3, <1>5, <1>7, <1>1, <1>4
  <1>8. CASE Cardinality(Captured) > max_workers
    BY <1>2, <1>3, <1>4, <1>6, <1>8, <1>1
  <1> QED
    BY <1>4, <1>6, <1>7, <1>8

\* A release leaves nobody in the round.
LEMMA RoundOver ==
    ASSUME BarrierPart, generation' = generation + 1, my_gen' = my_gen
    PROVE  B!Unreleased' = {} /\ Cardinality(B!Unreleased') = 0
  <1>1. \A k \in Keys : my_gen[k] \in Nat /\ my_gen[k] <= generation /\ generation \in Nat
    BY DEF BarrierPart
  <1>2. B!Unreleased' = {}
    BY <1>1 DEF B!Unreleased, B!Inside
  <1> QED
    BY <1>2, FS_EmptySet

LEMMA PartArrive ==
    ASSUME TypeOK, BarrierPart, NEW k \in Keys, Arrive(k)
    PROVE  BarrierPart' /\ n_active' = n_active
  <1>1. pc[k] = "arrive" /\ pc' = [pc EXCEPT ![k] = IF at'[k] = "away" THEN "dispatch" ELSE "waiting"]
    BY DEF Arrive
  <1>2. /\ n_waiting \in Int /\ generation \in Nat
        /\ my_gen \in [Keys -> Nat] /\ at \in [Keys -> B!BarrierPlaces]
        /\ pc \in [Keys -> {"none", "take", "arrive", "waiting", "dispatch", "finished"}]
    BY DEF BarrierPart, TypeOK
  <1>3. CASE B!PassThrough(k)
    BY <1>1, <1>2, <1>3 DEF BarrierPart, B!PassThrough, B!barrierVars, B!Unreleased, B!Inside
  <1>4. CASE B!ArriveLast(k)
    <2>1. /\ n_waiting' = 0 /\ generation' = generation + 1 /\ my_gen' = my_gen /\ n_active' = n_active
          /\ at[k] = "away"
          /\ at' = [t \in Keys |-> IF at[t] = "asleep" THEN "woken" ELSE at[t]]
      BY <1>4 DEF B!ArriveLast, B!Release, B!Broadcast
    <2>2. Cardinality(B!Unreleased') = 0
      BY <2>1, RoundOver
    <2>3. at' \in [Keys -> B!BarrierPlaces] /\ at'[k] = "away"
      BY <1>2, <2>1 DEF B!BarrierPlaces
    <2>4. \A w \in Keys : /\ my_gen'[w] <= generation'
                          /\ at'[w] \in {"asleep", "expired", "woken"} <=> pc'[w] = "waiting"
                          /\ at'[w] = "gone" => pc'[w] = "finished"
      BY <1>1, <1>2, <2>1, <2>3 DEF BarrierPart
    <2>5. n_waiting' \in Int /\ generation' \in Nat /\ my_gen' \in [Keys -> Nat]
      BY <1>2, <2>1
    <2> QED
      BY <2>1, <2>2, <2>3, <2>4, <2>5 DEF BarrierPart
  <1>5. CASE B!ArriveAndSleep(k)
    <2>1. /\ n_waiting' = n_waiting + 1 /\ generation' = generation /\ n_active' = n_active
          /\ at[k] = "away" /\ at' = [at EXCEPT ![k] = "asleep"]
          /\ my_gen' = [my_gen EXCEPT ![k] = generation]
      BY <1>5 DEF B!ArriveAndSleep
    <2>2. B!Unreleased' = B!Unreleased \cup {k} /\ k \notin B!Unreleased /\ B!Unreleased \in SUBSET Keys
      BY <1>2, <2>1 DEF B!Unreleased, B!Inside
    <2>3. Cardinality(B!Unreleased') = Cardinality(B!Unreleased) + 1 /\ Cardinality(B!Unreleased) \in Nat
      BY <2>2, OneKey, FiniteKeys
    <2>4. at' \in [Keys -> B!BarrierPlaces] /\ at'[k] = "asleep" /\ my_gen' \in [Keys -> Nat]
      BY <1>2, <2>1 DEF B!BarrierPlaces
    <2>5. \A w \in Keys : /\ my_gen'[w] <= generation'
                          /\ at'[w] \in {"asleep", "expired", "woken"} <=> pc'[w] = "waiting"
                          /\ at'[w] = "gone" => pc'[w] = "finished"
      BY <1>1, <1>2, <2>1, <2>4 DEF BarrierPart
    <2>6. n_waiting' <= Cardinality(B!Unreleased') /\ n_waiting' \in Int /\ generation' \in Nat
      BY <1>2, <2>1, <2>3 DEF BarrierPart
    <2> QED
      BY <2>1, <2>4, <2>5, <2>6 DEF BarrierPart
  <1> QED
    BY <1>3, <1>4, <1>5 DEF Arrive, B!Wait

LEMMA PartExpire ==
    ASSUME TypeOK, BarrierPart, NEW k \in Keys, Expire(k)
    PROVE  BarrierPart' /\ n_active' = n_active
  <1>1. /\ at[k] = "asleep" /\ at' = [at EXCEPT ![k] = "expired"] /\ pc' = pc
        /\ n_active' = n_active /\ n_waiting' = n_waiting /\ generation' = generation /\ my_gen' = my_gen
    BY DEF Expire, B!Expire, workers
  <1>2. at \in [Keys -> B!BarrierPlaces]
    BY DEF BarrierPart
  <1>3. at' \in [Keys -> B!BarrierPlaces]
    BY <1>1, <1>2 DEF B!BarrierPlaces
  <1>4. B!Unreleased' = B!Unreleased
    BY <1>1, <1>2 DEF B!Unreleased, B!Inside
  <1>5. \A w \in Keys : /\ at'[w] \in {"asleep", "expired", "woken"} <=> pc'[w] = "waiting"
                        /\ at'[w] = "gone" => pc'[w] = "finished"
    BY <1>1, <1>2 DEF BarrierPart
  <1> QED
    BY <1>1, <1>3, <1>4, <1>5 DEF BarrierPart

LEMMA PartReturn ==
    ASSUME TypeOK, BarrierPart, NEW k \in Keys, Return(k)
    PROVE  BarrierPart' /\ n_active' = n_active /\ generation' = generation
  <1>1. pc[k] = "waiting" /\ pc' = [pc EXCEPT ![k] = IF at'[k] = "away" THEN "dispatch" ELSE "waiting"]
    BY DEF Return
  <1>2. /\ n_waiting \in Int /\ generation \in Nat
        /\ my_gen \in [Keys -> Nat] /\ at \in [Keys -> B!BarrierPlaces]
        /\ pc \in [Keys -> {"none", "take", "arrive", "waiting", "dispatch", "finished"}]
    BY DEF BarrierPart, TypeOK
  <1>3. /\ at' = [at EXCEPT ![k] = "away"] /\ n_active' = n_active /\ generation' = generation
        /\ my_gen' = my_gen
        /\ \/ n_waiting' = n_waiting - 1
           \/ n_waiting' = n_waiting /\ generation # my_gen[k]
    BY DEF Return, B!Return, B!LeaveByTimeout, B!LeaveByRelease
  <1>4. at' \in [Keys -> B!BarrierPlaces] /\ at'[k] = "away"
    BY <1>2, <1>3 DEF B!BarrierPlaces
  <1>5. \A w \in Keys : /\ my_gen'[w] <= generation'
                        /\ at'[w] \in {"asleep", "expired", "woken"} <=> pc'[w] = "waiting"
                        /\ at'[w] = "gone" => pc'[w] = "finished"
    BY <1>1, <1>2, <1>3, <1>4 DEF BarrierPart
  <1>6. B!Unreleased' = B!Unreleased \ {k} /\ B!Unreleased \in SUBSET Keys
    BY <1>2, <1>3 DEF B!Unreleased, B!Inside
  <1>7. /\ k \in B!Unreleased => Cardinality(B!Unreleased') = Cardinality(B!Unreleased) - 1
        /\ k \notin B!Unreleased => B!Unreleased' = B!Unreleased
        /\ Cardinality(B!Unreleased) \in Nat
    BY <1>6, OneKey, FiniteKeys
  <1>8. k \in B!Unreleased => my_gen[k] = generation
    BY DEF B!Unreleased
  <1>9. n_waiting' <= Cardinality(B!Unreleased') /\ n_waiting' \in Int
    <2>1. n_waiting <= Cardinality(B!Unreleased)
      BY DEF BarrierPart
    <2>2. CASE k \in B!Unreleased
      BY <1>2, <1>3, <1>7, <1>8, <2>1, <2>2
    <2>3. CASE k \notin B!Unreleased
      BY <1>2, <1>3, <1>7, <1>8, <2>1, <2>3
    <2> QED
      BY <2>2, <2>3
  <1> QED
    BY <1>2, <1>3, <1>4, <1>5, <1>9 DEF BarrierPart

LEMMA PartLeave ==
    ASSUME TypeOK, BarrierPart, NEW k \in Keys, Leave(k), BarrierInited
    PROVE  BarrierPart' /\ n_active' = n_active - 1
  <1>1. pc[k] = "take" /\ pc' = [pc EXCEPT ![k] = "finished"]
    BY DEF Leave
  <1>2. /\ n_waiting \in Int /\ generation \in Nat
        /\ my_gen \in [Keys -> Nat] /\ at \in [Keys -> B!BarrierPlaces]
        /\ pc \in [Keys -> {"none", "take", "arrive", "waiting", "dispatch", "finished"}]
    BY DEF BarrierPart, TypeOK
  <1> DEFINE places == [at EXCEPT ![k] = "gone"]
  <1>3. /\ at[k] = "away" /\ n_active' = n_active - 1 /\ my_gen' = my_gen
        /\ \/ /\ n_waiting' = 0 /\ generation' = generation + 1
              /\ at' = [t \in Keys |-> IF places[t] = "asleep" THEN "woken" ELSE places[t]]
           \/ at' = places /\ n_waiting' = n_waiting /\ generation' = generation
    BY DEF Leave, B!Unregister, B!Release, B!Broadcast
  <1>4. places \in [Keys -> B!BarrierPlaces] /\ \A w \in Keys : places[w] = IF w = k THEN "gone" ELSE at[w]
    BY <1>2 DEF B!BarrierPlaces
  <1> HIDE DEF places
  <1>5. CASE at' = places /\ n_waiting' = n_waiting /\ generation' = generation
    <2>1. B!Unreleased' = B!Unreleased
      BY <1>3, <1>4, <1>5 DEF B!Unreleased, B!Inside
    <2>2. \A w \in Keys : /\ my_gen'[w] <= generation'
                          /\ at'[w] \in {"asleep", "expired", "woken"} <=> pc'[w] = "waiting"
                          /\ at'[w] = "gone" => pc'[w] = "finished"
      BY <1>1, <1>2, <1>3, <1>4, <1>5 DEF BarrierPart
    <2> QED
      BY <1>2, <1>3, <1>4, <1>5, <2>1, <2>2 DEF BarrierPart
  <1>6. CASE /\ n_waiting' = 0 /\ generation' = generation + 1
             /\ at' = [t \in Keys |-> IF places[t] = "asleep" THEN "woken" ELSE places[t]]
    <2>1. Cardinality(B!Unreleased') = 0
      BY <1>3, <1>6, RoundOver
    <2>2. at' \in [Keys -> B!BarrierPlaces]
      BY <1>4, <1>6 DEF B!BarrierPlaces
    <2>3. \A w \in Keys : /\ my_gen'[w] <= generation'
                          /\ at'[w] \in {"asleep", "expired", "woken"} <=> pc'[w] = "waiting"
                          /\ at'[w] = "gone" => pc'[w] = "finished"
      BY <1>1, <1>2, <1>3, <1>4, <1>6 DEF BarrierPart
    <2>4. n_waiting' \in Int /\ generation' \in Nat /\ my_gen' \in [Keys -> Nat]
      BY <1>2, <1>3, <1>6
    <2> QED
      BY <1>3, <1>6, <2>1, <2>2, <2>3, <2>4 DEF BarrierPart
  <1> QED
    BY <1>3, <1>5, <1>6

LEMMA BarrierStep ==
    ASSUME ReplayInv, [Next]_vars
    PROVE  BarrierFits'
  <1>1. TypeOK /\ EndsInTurn /\ BarrierFits /\ BarrierPart
    BY DEF ReplayInv, BarrierFits
  <1>2. /\ trace' = trace /\ serial' = serial /\ Replayable' = Replayable
        /\ SeenPids(trace)' = SeenPids(trace) /\ BarrierInited' = BarrierInited
    BY InputFixed
  <1>3. pc \in [Keys -> {"none", "take", "arrive", "waiting", "dispatch", "finished"}]
    BY <1>1 DEF TypeOK
  <1>4. ~serial' => \A k \in ToSet(pool') : \E i \in Replayable' : trace'[i].pid = k
    <2>1. CASE pool' = pool
      BY <2>1, <1>1, <1>2 DEF BarrierFits
    <2>2. CASE CreateWorker
      <3>1. /\ ToSet(pool') = ToSet(pool) \cup {Key(trace[pos].pid)} /\ pos \in Replayable
        BY <2>2, <1>1, NewWorker
      <3>2. ~serial => Key(trace[pos].pid) = trace[pos].pid
        BY DEF Key
      <3> QED
        BY <3>1, <3>2, <1>1, <1>2 DEF BarrierFits
    <2> QED
      BY <2>1, <2>2, <1>1, PoolGrows
  <1>5. ASSUME UNCHANGED barrier, Finished' = Finished,
               \A k \in Keys : (pc'[k] = "waiting") <=> (pc[k] = "waiting"),
               \A k \in Keys : pc[k] = "finished" => pc'[k] = "finished",
               ~BarrierInited => \A k \in Keys : pc'[k] # "arrive"
        PROVE  BarrierFits'
    <2>1. BarrierPart'
      BY <1>1, <1>5 DEF BarrierPart, barrier, B!Unreleased, B!Inside
    <2> QED
      BY <2>1, <1>1, <1>2, <1>4, <1>5 DEF BarrierFits, barrier
  <1>6. CASE CreateWorker
    <2>1. PICK k \in Keys : k \notin ToSet(pool) /\ pc' = [pc EXCEPT ![k] = "take"]
      BY <1>6, <1>1, NewWorker
    <2>2. pc[k] = "none"
      BY <2>1, <1>1 DEF EndsInTurn
    <2>3. /\ UNCHANGED barrier /\ Finished' = Finished
          /\ \A w \in Keys : (pc'[w] = "waiting") <=> (pc[w] = "waiting")
          /\ \A w \in Keys : pc[w] = "finished" => pc'[w] = "finished"
          /\ ~BarrierInited => \A w \in Keys : pc'[w] # "arrive"
      BY <1>1, <1>3, <1>6, <2>1, <2>2 DEF CreateWorker, Finished, BarrierFits
    <2> QED
      BY <2>3, <1>5
  <1>7. CASE pc' = pc /\ UNCHANGED barrier
    BY <1>1, <1>5, <1>7 DEF Finished, BarrierFits
  <1>8. ASSUME NEW k \in Keys, Take(k) PROVE BarrierFits'
    <2>1. /\ pc[k] = "take" /\ UNCHANGED barrier
          /\ \E to \in {"arrive", "dispatch"} : pc' = [pc EXCEPT ![k] = to]
          /\ ~BarrierInited => pc' = [pc EXCEPT ![k] = "dispatch"]
      BY <1>8 DEF Take
    <2>2. /\ Finished' = Finished
          /\ \A w \in Keys : (pc'[w] = "waiting") <=> (pc[w] = "waiting")
          /\ \A w \in Keys : pc[w] = "finished" => pc'[w] = "finished"
          /\ ~BarrierInited => \A w \in Keys : pc'[w] # "arrive"
      BY <1>1, <1>3, <2>1 DEF Finished, BarrierFits
    <2> QED
      BY <2>1, <2>2, <1>5
  <1>9. ASSUME NEW k \in Keys, NEW o \in Outcomes, Dispatch(k, o) PROVE BarrierFits'
    <2>1. pc[k] = "dispatch" /\ UNCHANGED barrier /\ pc' = [pc EXCEPT ![k] = "take"]
      BY <1>9 DEF Dispatch
    <2>2. /\ Finished' = Finished
          /\ \A w \in Keys : (pc'[w] = "waiting") <=> (pc[w] = "waiting")
          /\ \A w \in Keys : pc[w] = "finished" => pc'[w] = "finished"
          /\ ~BarrierInited => \A w \in Keys : pc'[w] # "arrive"
      BY <1>1, <1>3, <2>1 DEF Finished, BarrierFits
    <2> QED
      BY <2>1, <2>2, <1>5
  <1>10. ASSUME NEW k \in Keys, Arrive(k) \/ Return(k) PROVE BarrierFits'
    <2>1. pc[k] \in {"arrive", "waiting"} /\ \E to \in {"dispatch", "waiting"} : pc' = [pc EXCEPT ![k] = to]
      BY <1>10 DEF Arrive, Return
    <2>2. BarrierInited /\ Finished' = Finished
      BY <2>1, <1>1, <1>3 DEF Finished, BarrierFits
    <2>3. BarrierPart' /\ n_active' = n_active
      BY <1>1, <1>10, PartArrive, PartReturn
    <2> QED
      BY <2>2, <2>3, <1>1, <1>2, <1>4 DEF BarrierFits
  <1>11. ASSUME NEW k \in Keys, Expire(k) PROVE BarrierFits'
    <2>1. pc' = pc /\ at[k] = "asleep"
      BY <1>11 DEF Expire, B!Expire, workers
    <2>2. BarrierInited /\ Finished' = Finished
      BY <2>1, <1>1 DEF Finished, BarrierFits, BarrierPart
    <2>3. BarrierPart' /\ n_active' = n_active
      BY <1>1, <1>11, PartExpire
    <2> QED
      BY <2>2, <2>3, <1>1, <1>2, <1>4 DEF BarrierFits
  <1>12. ASSUME NEW k \in Keys, Leave(k) PROVE BarrierFits'
    <2>1. pc[k] = "take" /\ pc' = [pc EXCEPT ![k] = "finished"]
      BY <1>12 DEF Leave
    <2>2. /\ Finished' = Finished \cup {k} /\ k \notin Finished /\ Finished \in SUBSET Keys
          /\ \A w \in Keys : (pc'[w] = "waiting") <=> (pc[w] = "waiting")
          /\ \A w \in Keys : (pc'[w] = "arrive") <=> (pc[w] = "arrive")
          /\ \A w \in Keys : pc[w] = "finished" => pc'[w] = "finished"
      BY <1>3, <2>1 DEF Finished
    <2>3. CASE BarrierInited
      <3>1. BarrierPart' /\ n_active' = n_active - 1
        BY <1>1, <1>12, <2>3, PartLeave
      <3>2. Cardinality(Finished') = Cardinality(Finished) + 1 /\ Cardinality(Finished) \in Nat
        BY <2>2, OneKey, FiniteKeys
      <3>3. n_active = Cardinality(SeenPids(trace)) - Cardinality(Finished)
        BY <1>1, <2>3 DEF BarrierFits
      <3>4. Cardinality(SeenPids(trace)) \in Nat
        BY <1>1, PrePass, FiniteKeys DEF TypeOK
      <3>5. n_active' = Cardinality(SeenPids(trace)) - Cardinality(Finished')
        BY <3>1, <3>2, <3>3, <3>4
      <3> QED
        BY <3>1, <3>5, <2>3, <1>2, <1>4 DEF BarrierFits
    <2>4. CASE ~BarrierInited
      <3>1. UNCHANGED barrier
        BY <1>12, <2>4 DEF Leave
      <3>2. BarrierPart'
        BY <1>1, <3>1, <2>2 DEF BarrierPart, barrier, B!Unreleased, B!Inside
      <3> QED
        BY <3>1, <3>2, <2>2, <2>4, <1>1, <1>2, <1>4 DEF BarrierFits, barrier
    <2> QED
      BY <2>3, <2>4
  <1> QED
    BY <1>6, <1>7, <1>8, <1>9, <1>10, <1>11, <1>12
    DEF Next, vars, workers, Main, Discard, Enqueue, Shutdown, Join, Complete, Worker

LEMMA TypedStep ==
    ASSUME ReplayInv, [Next]_vars, EndsInTurn', BarrierFits'
    PROVE  TypeOK'
  <1>1. TypeOK /\ EndsInTurn /\ BarrierFits /\ RoutedToOwner
    BY DEF ReplayInv
  <1>2. /\ trace' = trace /\ serial' = serial /\ max_workers' = max_workers
        /\ Replayable' = Replayable /\ SeenPids(trace)' = SeenPids(trace)
        /\ BarrierInited' = BarrierInited
    BY InputFixed
  <1>3. /\ Len(trace) \in Nat /\ max_workers \in Nat \ {0} /\ pos \in Nat \ {0}
        /\ Len(pool) \in Nat /\ DOMAIN pool = 1 .. Len(pool)
    BY <1>1, InputTyped
  <1>4. pos' \in 1 .. Len(trace') + 1 /\ errors' \in Nat
    <2>0. pos \in 1 .. Len(trace) + 1 /\ errors \in Nat
      BY <1>1 DEF TypeOK
    <2>1. Discard => Reading /\ pos' = pos + 1 /\ errors' \in {errors, errors + 1}
      BY <2>0 DEF Discard
    <2>2. Enqueue => Reading /\ pos' = pos + 1 /\ errors' = errors
      BY DEF Enqueue
    <2>3. Discard \/ Enqueue \/ (pos' = pos /\ errors' = errors)
      BY DEF Next, vars, Main, CreateWorker, Shutdown, Join, Complete, Worker, Take, Arrive,
         Expire, Return, Dispatch, Leave
    <2> QED
      BY <2>0, <2>1, <2>2, <2>3, <1>2, <1>3 DEF Reading
  <1>5. pool' \in Seq(Keys) /\ Len(pool') <= max_workers' /\ IsInjective(pool')
    <2>1. CASE pool' = pool
      BY <2>1, <1>1, <1>2 DEF TypeOK
    <2>2. CASE CreateWorker
      <3>1. PICK k \in Keys :
              /\ k \notin ToSet(pool) /\ Len(pool) < max_workers /\ pool' \in Seq(Keys)
              /\ Len(pool') = Len(pool) + 1 /\ pool'[Len(pool) + 1] = k
              /\ \A i \in 1 .. Len(pool) : pool'[i] = pool[i]
        BY <2>2, <1>1, NewWorker
      <3>2. DOMAIN pool' = (1 .. Len(pool)) \cup {Len(pool) + 1}
        BY <3>1, <1>3
      <3>3. \A i \in 1 .. Len(pool) : pool[i] # k
        BY <3>1, <1>3 DEF ToSet
      <3>4. IsInjective(pool')
        BY <1>1, <1>3, <3>1, <3>2, <3>3 DEF IsInjective, TypeOK
      <3> QED
        BY <3>1, <3>4, <1>2, <1>3
    <2> QED
      BY <2>1, <2>2, <1>1, PoolGrows
  <1>6. /\ queue' \in [Keys -> Seq(Replayable)] /\ played' \in [Keys -> Seq(Replayable)]
        /\ \A k \in Keys : Len(queue'[k]) <= Capacity
    <2>0. /\ queue \in [Keys -> Seq(Replayable)] /\ played \in [Keys -> Seq(Replayable)]
          /\ \A k \in Keys : Len(queue[k]) \in Nat /\ Len(queue[k]) <= Capacity
          /\ Capacity \in Nat
      BY <1>1, ReplayerAssumption DEF TypeOK
    <2>1. CASE Enqueue
      <3>1. PICK k \in Keys : /\ queue' \in [Keys -> Seq(Replayable)] /\ Len(queue'[k]) <= Capacity
                              /\ \A w \in Keys \ {k} : queue'[w] = queue[w]
        BY <2>1, <1>1, EnqueueRoutes
      <3>2. played' = played
        BY <2>1 DEF Enqueue
      <3> QED
        BY <3>1, <3>2, <2>0
    <2>2. ASSUME NEW k \in Keys, Take(k)
          PROVE  /\ queue' \in [Keys -> Seq(Replayable)] /\ played' \in [Keys -> Seq(Replayable)]
                 /\ \A w \in Keys : Len(queue'[w]) <= Capacity
      <3>1. /\ queue' \in [Keys -> Seq(Replayable)] /\ played' \in [Keys -> Seq(Replayable)]
            /\ \A w \in Keys : Len(queue'[w]) <= Len(queue[w])
        BY <2>2, <1>1, TakeRoutes
      <3>2. \A w \in Keys : Len(queue'[w]) \in Nat
        BY <3>1
      <3> QED
        BY <3>1, <3>2, <2>0
    <2>3. CASE UNCHANGED <<queue, played>>
      BY <2>0, <2>3
    <2> QED
      BY <2>1, <2>2, <2>3 DEF Next, vars, workers, Main, Discard, CreateWorker, Shutdown, Join,
         Complete, Worker, Arrive, Expire, Return, Dispatch, Leave
  <1>7. closed' \subseteq ToSet(pool')
    <2>1. closed \subseteq ToSet(pool) /\ ToSet(pool) \subseteq ToSet(pool')
      BY <1>1, PoolGrows DEF TypeOK
    <2>2. Shutdown => closed' \subseteq ToSet(pool) /\ pool' = pool
      BY <1>3, <2>1 DEF Shutdown, ToSet
    <2>3. Shutdown \/ closed' = closed
      BY DEF Next, vars, Main, Discard, CreateWorker, Enqueue, Join, Complete, Worker, Take,
         Arrive, Expire, Return, Dispatch, Leave
    <2> QED
      BY <2>1, <2>2, <2>3
  <1>8. joined' \in 0 .. Len(pool') /\ totals' \in [total : Nat, of : [Outcomes -> Nat]]
    <2>0. joined \in 0 .. Len(pool) /\ totals \in [total : Nat, of : [Outcomes -> Nat]]
          /\ total \in [Keys -> Nat] /\ count \in [Keys -> [Outcomes -> Nat]] /\ pool \in Seq(Keys)
      BY <1>1 DEF TypeOK
    <2>1. CASE Join
      <3>1. PICK k : /\ k = pool[joined + 1] /\ joined < Len(pool) /\ joined' = joined + 1 /\ pool' = pool
                     /\ totals' = [total |-> totals.total + total[k],
                                   of |-> [o \in Outcomes |-> totals.of[o] + count[k][o]]]
        BY <2>1 DEF Join
      <3>2. k \in Keys
        BY <2>0, <3>1, <1>3
      <3>3. totals.total \in Nat /\ totals.of \in [Outcomes -> Nat] /\ count[k] \in [Outcomes -> Nat]
            /\ total[k] \in Nat
        BY <2>0, <3>2
      <3> QED
        BY <2>0, <3>1, <3>3, <1>3
    <2>2. CASE UNCHANGED <<joined, totals>>
      BY <2>0, <2>2, <1>1, <1>3, PoolGrows
    <2> QED
      BY <2>1, <2>2 DEF Next, vars, ending, Main, Discard, CreateWorker, Enqueue, Shutdown,
         Complete, Worker, Take, Arrive, Expire, Return, Dispatch, Leave
  <1>9. pc' \in [Keys -> {"none", "take", "arrive", "waiting", "dispatch", "finished"}]
    <2>0. pc \in [Keys -> {"none", "take", "arrive", "waiting", "dispatch", "finished"}]
      BY <1>1 DEF TypeOK
    <2>1. CASE CreateWorker
      <3>1. PICK k \in Keys : pc' = [pc EXCEPT ![k] = "take"]
        BY <2>1, <1>1, NewWorker
      <3> QED
        BY <3>1, <2>0
    <2> QED
      BY <2>0, <2>1, <1>1, PlacesStep
  <1>10. total' \in [Keys -> Nat] /\ count' \in [Keys -> [Outcomes -> Nat]]
    <2>0. total \in [Keys -> Nat] /\ count \in [Keys -> [Outcomes -> Nat]]
      BY <1>1 DEF TypeOK
    <2>1. ASSUME NEW k \in Keys, Take(k) PROVE total' \in [Keys -> Nat] /\ count' = count
      BY <2>0, <2>1 DEF Take
    <2>2. ASSUME NEW k \in Keys, NEW o \in Outcomes, Dispatch(k, o)
          PROVE  total' = total /\ count' \in [Keys -> [Outcomes -> Nat]]
      <3>1. total' = total /\ count' = [count EXCEPT ![k] = [count[k] EXCEPT ![o] = count[k][o] + 1]]
        BY <2>2 DEF Dispatch
      <3>2. count[k] \in [Outcomes -> Nat]
        BY <2>0
      <3>3. [count[k] EXCEPT ![o] = count[k][o] + 1] \in [Outcomes -> Nat]
        BY <3>2
      <3> QED
        BY <3>1, <3>3, <2>0
    <2> QED
      BY <2>0, <2>1, <2>2, CountersStay
  <1>11. n_active' \in 0 .. max_workers'
    <2>1. CASE ~BarrierInited
      BY <2>1, <1>2, <1>3 DEF BarrierFits
    <2>2. CASE BarrierInited
      <3>1. n_active' = Cardinality(SeenPids(trace)) - Cardinality(Finished')
        BY <2>2, <1>2 DEF BarrierFits
      <3>2. Finished' \in SUBSET ToSet(pool') /\ ToSet(pool') \in SUBSET Keys
        BY <1>5 DEF EndsInTurn, Finished, ToSet
      <3>3. Cardinality(Finished') <= Cardinality(ToSet(pool')) /\ Cardinality(Finished') \in Nat
        BY <3>2, FewerKeys, FiniteKeys
      <3>4. ToSet(pool') \subseteq Captured
        <4>1. ~serial
          BY <2>2 DEF BarrierInited
        <4> QED
          BY <4>1, <1>2 DEF BarrierFits, Captured, Replayable
      <3>5. Cardinality(ToSet(pool')) = Len(pool') /\ Len(pool') \in Nat
        BY <1>5, InjectiveCount
      <3>6. /\ SeenPids(trace) \in SUBSET Keys /\ Captured \in SUBSET Keys
            /\ Cardinality(SeenPids(trace)) <= max_workers
            /\ Cardinality(Captured) <= max_workers => SeenPids(trace) = Captured
            /\ Cardinality(Captured) > max_workers => Cardinality(SeenPids(trace)) >= max_workers
        BY <1>1, PrePass DEF TypeOK
      <3>7. Cardinality(SeenPids(trace)) \in Nat /\ Cardinality(Captured) \in Nat
        BY <3>6, FiniteKeys
      <3>8. Cardinality(ToSet(pool')) <= Cardinality(Captured)
        BY <3>4, <3>6, FewerKeys
      <3>9. Cardinality(Finished') <= Cardinality(SeenPids(trace))
        <4>1. CASE Cardinality(Captured) <= max_workers
          BY <4>1, <3>3, <3>5, <3>6, <3>7, <3>8
        <4>2. CASE Cardinality(Captured) > max_workers
          BY <4>2, <3>3, <3>5, <3>6, <3>7, <1>2, <1>3, <1>5
        <4> QED
          BY <4>1, <4>2, <3>7, <1>3
      <3> QED
        BY <3>1, <3>3, <3>6, <3>7, <3>9, <1>2, <1>3
    <2> QED
      BY <2>1, <2>2
  <1> QED
    BY <1>1, <1>2, <1>4, <1>5, <1>6, <1>7, <1>8, <1>9, <1>10, <1>11 DEF TypeOK

LEMMA ReplayStart == Init => ReplayInv
  <1> SUFFICES ASSUME Init PROVE ReplayInv
    OBVIOUS
  <1>1. /\ trace \in Traces /\ serial \in BOOLEAN /\ max_workers \in Limits
        /\ pos = 1 /\ errors = 0 /\ pool = <<>> /\ closed = {} /\ joined = 0
        /\ queue = [k \in Keys |-> <<>>] /\ played = [k \in Keys |-> <<>>]
        /\ pc = [k \in Keys |-> "none"] /\ total = [k \in Keys |-> 0]
        /\ count = [k \in Keys |-> [o \in Outcomes |-> 0]]
        /\ totals = [total |-> 0, of |-> [o \in Outcomes |-> 0]]
        /\ n_active = (IF BarrierInited THEN Cardinality(SeenPids(trace)) ELSE 0)
        /\ n_waiting = 0 /\ generation = 0
        /\ my_gen = [k \in Keys |-> 0] /\ at = [k \in Keys |-> "away"]
    BY DEF Init
  <1>2. trace \in Seq(Records) /\ Len(trace) \in Nat /\ max_workers \in Nat \ {0} /\ Capacity \in Nat
    BY <1>1, ReplayerAssumption
  <1>3. /\ pool \in Seq(Keys) /\ Len(pool) = 0 /\ DOMAIN pool = {} /\ ToSet(pool) = {}
        /\ IsInjective(pool)
    BY <1>1 DEF IsInjective, ToSet
  <1>4. /\ queue \in [Keys -> Seq(Replayable)] /\ played \in [Keys -> Seq(Replayable)]
        /\ \A k \in Keys : Len(queue[k]) = 0 /\ queue[k] = <<>> /\ played[k] = <<>> /\ Len(played[k]) = 0
    BY <1>1
  <1>5. Finished = {} /\ JoinedRecords = {} /\ Cardinality(Finished) = 0 /\ Cardinality(JoinedRecords) = 0
    <2>1. Finished = {} /\ JoinedRecords = {}
      BY <1>1 DEF Finished, JoinedRecords
    <2> QED
      BY <2>1, FS_EmptySet
  <1>6. Cardinality(SeenPids(trace)) \in 0 .. max_workers
    <2>1. SeenPids(trace) \in SUBSET Keys /\ Cardinality(SeenPids(trace)) <= max_workers
      BY <1>1, PrePass
    <2>2. Cardinality(SeenPids(trace)) \in Nat
      BY <2>1, FiniteKeys
    <2> QED
      BY <1>2, <2>1, <2>2
  <1>7. n_active \in 0 .. max_workers
    BY <1>1, <1>2, <1>6
  <1>8. TypeOK
    <2>1. totals \in [total : Nat, of : [Outcomes -> Nat]] /\ count \in [Keys -> [Outcomes -> Nat]]
          /\ total \in [Keys -> Nat]
          /\ pc \in [Keys -> {"none", "take", "arrive", "waiting", "dispatch", "finished"}]
      BY <1>1
    <2>2. pos \in 1 .. Len(trace) + 1 /\ errors \in Nat /\ joined \in 0 .. Len(pool)
          /\ closed \subseteq ToSet(pool) /\ Len(pool) <= max_workers
          /\ \A k \in Keys : Len(queue[k]) <= Capacity
      BY <1>1, <1>2, <1>3, <1>4
    <2> QED
      BY <1>1, <1>3, <1>4, <1>7, <2>1, <2>2 DEF TypeOK
  <1>9. RoutedToOwner
    <2>1. \A k \in Keys : DOMAIN Routed(k) = {}
      BY <1>8, <1>4, RoutedTyped
    <2>2. \A i \in Replayable : ~(i < pos)
      BY <1>1, <1>2 DEF Replayable
    <2> QED
      BY <2>1, <2>2 DEF RoutedToOwner
  <1>10. CountersAddUp
    BY <1>1, <1>4 DEF CountersAddUp, AddUp, InHand, Outcomes
  <1>11. EndsInTurn
    BY <1>1, <1>3, <1>5 DEF EndsInTurn, AddUp, Outcomes
  <1>12. BarrierFits
    <2>1. Cardinality(B!Unreleased) = 0
      <3>1. B!Unreleased = {}
        BY <1>1 DEF B!Unreleased, B!Inside
      <3> QED
        BY <3>1, FS_EmptySet
    <2>2. BarrierPart
      BY <1>1, <2>1 DEF BarrierPart, B!BarrierPlaces
    <2> QED
      BY <2>2, <1>1, <1>3, <1>5, <1>6 DEF BarrierFits
  <1> QED
    BY <1>8, <1>9, <1>10, <1>11, <1>12 DEF ReplayInv

LEMMA ReplayStep == ReplayInv /\ [Next]_vars => ReplayInv'
  <1> SUFFICES ASSUME ReplayInv, [Next]_vars PROVE ReplayInv'
    OBVIOUS
  <1>1. RoutedToOwner' /\ CountersAddUp' /\ EndsInTurn' /\ BarrierFits'
    BY RouteStep, CountersStep, EndsStep, BarrierStep DEF ReplayInv
  <1>2. TypeOK'
    BY <1>1, TypedStep
  <1> QED
    BY <1>1, <1>2 DEF ReplayInv

\* The invariant of the replay holds for every capture, bound on the workers
\* and capacity of the queues.
THEOREM ReplayInvariant == Spec => []ReplayInv
  BY ReplayStart, ReplayStep, PTL DEF Spec

----------------------------------------------------------------------------
(* Every record once, in order.                                            *)

LEMMA RoutedHolds ==
    ASSUME TypeOK, NEW k \in Keys, NEW i
    PROVE  Contains(Routed(k), i) <=> Contains(queue[k], i) \/ Contains(played[k], i)
  <1> DEFINE p == played[k]
  <1> DEFINE q == queue[k]
  <1> DEFINE r == Routed(k)
  <1> DEFINE a == Len(p)
  <1> DEFINE b == Len(q)
  <1>1. /\ Len(r) = a + b /\ a \in Nat /\ b \in Nat
        /\ \A m \in 1 .. a : r[m] = p[m]
        /\ \A m \in 1 .. b : r[a + m] = q[m]
    BY RoutedTyped
  <1>2. /\ Contains(r, i) <=> \E m \in 1 .. a + b : r[m] = i
        /\ Contains(p, i) <=> \E m \in 1 .. a : p[m] = i
        /\ Contains(q, i) <=> \E m \in 1 .. b : q[m] = i
    BY <1>1 DEF Contains
  <1> HIDE DEF p, q, r, a, b
  <1>3. ASSUME NEW m \in 1 .. a + b, r[m] = i
        PROVE  (\E n \in 1 .. a : p[n] = i) \/ (\E n \in 1 .. b : q[n] = i)
    <2>1. CASE m <= a
      BY <1>1, <1>3, <2>1
    <2>2. CASE m > a
      <3>1. m - a \in 1 .. b /\ a + (m - a) = m
        BY <1>1, <2>2
      <3> QED
        BY <1>1, <1>3, <3>1
    <2> QED
      BY <1>1, <2>1, <2>2
  <1>4. ASSUME NEW m \in 1 .. a, p[m] = i PROVE \E n \in 1 .. a + b : r[n] = i
    BY <1>1, <1>4
  <1>5. ASSUME NEW m \in 1 .. b, q[m] = i PROVE \E n \in 1 .. a + b : r[n] = i
    <2>1. a + m \in 1 .. a + b
      BY <1>1
    <2> QED
      BY <1>1, <1>5, <2>1
  <1>6. Contains(r, i) <=> Contains(q, i) \/ Contains(p, i)
    BY <1>2, <1>3, <1>4, <1>5
  <1> QED
    BY <1>6 DEF p, q, r

\* The worker a routed record is with is the owner of its process.
LEMMA WithOwner ==
    ASSUME TypeOK, RoutedToOwner, NEW k \in Keys, NEW i, Contains(Routed(k), i)
    PROVE  Owner(trace[i].pid) = k /\ k \in ToSet(pool) /\ i < pos /\ i \in Replayable
  <1>1. PICK m \in DOMAIN Routed(k) : Routed(k)[m] = i
    BY RoutedTyped DEF Contains
  <1>2. i \in Replayable
    BY <1>1, RoutedTyped, ElementOfSeq
  <1> QED
    BY <1>1, <1>2 DEF RoutedToOwner

LEMMA OnceEach == ReplayInv => EveryRecordOnce
  <1> SUFFICES ASSUME ReplayInv PROVE EveryRecordOnce
    OBVIOUS
  <1>1. TypeOK /\ RoutedToOwner /\ CountersAddUp /\ EndsInTurn
    BY DEF ReplayInv
  <1>2. ASSUME NEW i \in Replayable, i < pos
        PROVE  Cardinality({k \in Keys : Contains(queue[k], i) \/ Contains(played[k], i)}) = 1
    <2>1. PICK w \in Keys : Contains(Routed(w), i)
      BY <1>1, <1>2 DEF RoutedToOwner
    <2>2. \A k \in Keys : Contains(queue[k], i) \/ Contains(played[k], i) <=> Contains(Routed(k), i)
      BY <1>1, RoutedHolds
    <2>3. \A k \in Keys : Contains(Routed(k), i) => k = w
      BY <1>1, <2>1, WithOwner
    <2>4. {k \in Keys : Contains(queue[k], i) \/ Contains(played[k], i)} = {w}
      BY <2>1, <2>2, <2>3
    <2> QED
      BY <2>4, FS_Singleton
  <1>3. \A k \in Keys : IsInjective(played[k] \o queue[k])
    BY <1>1, OwnRecords DEF Routed
  <1>4. ASSUME AllDone PROVE JoinedRecords = Replayable
    <2>1. joined = Len(pool) /\ ~Reading
      BY <1>4 DEF AllDone
    <2>2. DOMAIN pool = 1 .. Len(pool) /\ pool \in Seq(Keys) /\ Len(pool) \in Nat
      BY <1>1 DEF TypeOK
    <2>3. JoinedRecords \subseteq Replayable
      BY <1>1, <2>1, <2>2, OwnRecords DEF JoinedRecords
    <2>4. ASSUME NEW i \in Replayable PROVE i \in JoinedRecords
      <3>1. i < pos
        BY <1>1, <2>1, InputTyped DEF Reading, Replayable
      <3>2. PICK k \in Keys : Contains(Routed(k), i)
        BY <1>1, <3>1 DEF RoutedToOwner
      <3>3. k \in ToSet(pool)
        BY <1>1, <3>2, WithOwner
      <3>4. PICK j \in 1 .. joined : pool[j] = k
        BY <2>1, <2>2, <3>3 DEF ToSet
      <3>5. queue[k] = <<>>
        BY <1>1, <3>4 DEF EndsInTurn
      <3>6. ~Contains(queue[k], i)
        BY <3>5 DEF Contains
      <3>7. Contains(played[k], i) /\ played[k] \in Seq(Replayable)
        BY <1>1, <3>2, <3>6, RoutedHolds DEF TypeOK
      <3>8. i \in ToSet(played[k])
        BY <3>7, Member
      <3> QED
        BY <3>4, <3>8 DEF JoinedRecords
    <2> QED
      BY <2>3, <2>4
  <1>5. AllDone => totals.total = Cardinality(Replayable) /\ AddUp(totals.of) = totals.total
    BY <1>1, <1>4 DEF EndsInTurn
  <1> QED
    BY <1>1, <1>2, <1>3, <1>5 DEF EveryRecordOnce, CountersAddUp

LEMMA InOrder == ReplayInv => PerProcessOrder
  <1> SUFFICES ASSUME ReplayInv,
                      NEW i \in Replayable, NEW j \in Replayable, i < j, trace[i].pid = trace[j].pid,
                      NEW k \in Keys, Contains(played[k], j)
               PROVE  \E w \in Keys : Contains(played[w], i) /\ ~(InHand(w) /\ Last(played[w]) = i)
    BY DEF PerProcessOrder
  <1>1. TypeOK /\ RoutedToOwner
    BY DEF ReplayInv
  <1>2. i \in Nat /\ j \in Nat /\ pos \in Nat
    BY <1>1, InputTyped
  <1>3. Contains(Routed(k), j) /\ j < pos /\ Owner(trace[j].pid) = k
    BY <1>1, RoutedHolds, WithOwner
  <1>4. PICK w \in Keys : Contains(Routed(w), i)
    BY <1>1, <1>2, <1>3 DEF RoutedToOwner
  <1>5. w = k
    BY <1>1, <1>3, <1>4, WithOwner
  <1> DEFINE p == played[k]
  <1> DEFINE r == Routed(k)
  <1> DEFINE b == Len(p)
  <1> DEFINE c == Len(r)
  <1>6. /\ DOMAIN r = 1 .. c /\ c \in Nat /\ b \in Nat /\ b <= c
        /\ \A m \in 1 .. b : r[m] = p[m]
    <2>1. DOMAIN r = 1 .. c /\ c \in Nat /\ b \in Nat /\ \A m \in 1 .. b : r[m] = p[m]
      BY <1>1, RoutedTyped
    <2>2. c = b + Len(queue[k]) /\ Len(queue[k]) \in Nat
      BY <1>1, RoutedTyped
    <2> HIDE DEF p, r, b, c
    <2> QED
      BY <2>1, <2>2
  <1>7. \A m, n \in DOMAIN r : m < n => r[m] < r[n]
    BY <1>1 DEF RoutedToOwner
  <1>8. PICK m \in 1 .. c : r[m] = i
    BY <1>4, <1>5, <1>6 DEF Contains
  <1>9. PICK n \in 1 .. b : p[n] = j
    BY DEF Contains
  <1>10. Last(p) = p[b] /\ (\A x \in 1 .. b : p[x] = i => Contains(p, i))
    BY DEF Last, Contains
  <1> HIDE DEF p, r, b, c
  <1>11. n \in 1 .. c /\ r[n] = j
    BY <1>6, <1>9
  <1>12. m < n
    <2>1. n < m => j < i
      BY <1>6, <1>7, <1>8, <1>11
    <2>2. n = m => i = j
      BY <1>8, <1>11
    <2> QED
      BY <2>1, <2>2, <1>2, <1>6, <1>8, <1>9
  <1>13. (m \in 1 .. b /\ b \in 1 .. c /\ m < b) \/ (m \in 1 .. b /\ n = b /\ b \in 1 .. c)
    BY <1>6, <1>8, <1>9, <1>12
  <1>14. p[m] = i /\ i < r[b] /\ r[b] = p[b]
    BY <1>6, <1>7, <1>8, <1>12, <1>13
  <1>15. Contains(p, i) /\ Last(p) # i
    BY <1>2, <1>10, <1>13, <1>14
  <1> QED
    BY <1>15 DEF p

\* Every record is replayed once, after the earlier ones of its process, and
\* the totals cover the capture: for every capture, bound on the workers and
\* capacity of the queues.
THEOREM RecordsAreReplayed == Spec => []RecordsOnceInOrder
  BY ReplayInvariant, OnceEach, InOrder, PTL DEF RecordsOnceInOrder

----------------------------------------------------------------------------
(* Rounds of the barrier.                                                  *)

\* Who may release a round: a worker alive outside it, the count being full.
LEMMA Releaser ==
    ASSUME ReplayInv, [Next]_vars, generation' # generation
    PROVE  /\ BarrierInited /\ n_waiting >= n_active - 1
           /\ \E k \in Alive : k \notin B!Unreleased
  <1>1. TypeOK /\ EndsInTurn /\ BarrierFits /\ BarrierPart
    BY DEF ReplayInv, BarrierFits
  <1>2. n_waiting \in Int /\ n_active \in Int
    BY <1>1, InputTyped DEF BarrierPart, TypeOK
  <1>3. PICK k \in Keys : Arrive(k) \/ Leave(k)
    <2>1. ASSUME NEW k \in Keys, Expire(k) \/ Return(k) PROVE generation' = generation
      BY <2>1 DEF Expire, B!Expire, Return, B!Return, B!LeaveByTimeout, B!LeaveByRelease
    <2> QED
      BY <2>1 DEF Next, vars, barrier, Main, Discard, CreateWorker, Enqueue, Shutdown, Join,
         Complete, Worker, Take, Dispatch
  <1>4. pc[k] \in {"arrive", "take"}
    BY <1>3 DEF Arrive, Leave
  <1>5. k \in Alive
    BY <1>1, <1>4 DEF Alive, EndsInTurn
  <1>6. CASE Arrive(k)
    <2>1. B!ArriveLast(k)
      BY <1>6 DEF Arrive, B!Wait, B!PassThrough, B!ArriveAndSleep, B!barrierVars
    <2>2. at[k] = "away" /\ n_waiting + 1 >= n_active
      BY <2>1 DEF B!ArriveLast
    <2>3. BarrierInited
      BY <1>1, <1>6 DEF Arrive, BarrierFits
    <2> QED
      BY <1>2, <1>5, <2>2, <2>3 DEF B!Unreleased, B!Inside
  <1>7. CASE Leave(k)
    <2>1. BarrierInited /\ B!Unregister(k)
      BY <1>7 DEF Leave, barrier
    <2>2. at[k] = "away" /\ n_waiting >= n_active - 1
      BY <2>1 DEF B!Unregister
    <2> QED
      BY <1>5, <2>1, <2>2 DEF B!Unreleased, B!Inside
  <1> QED
    BY <1>3, <1>6, <1>7

\* At a release the pre-pass counted no more than the pool holds, and all
\* the others alive are in the round.
LEMMA ReleaseIsFull ==
    ASSUME ReplayInv, [Next]_vars, generation' # generation
    PROVE  /\ \E k \in Alive : \A w \in Alive \ {k} : w \in B!Unreleased
           /\ BarrierInited /\ Cardinality(SeenPids(trace)) = Len(pool)
  <1>1. TypeOK /\ EndsInTurn /\ BarrierFits /\ BarrierPart
    BY DEF ReplayInv, BarrierFits
  <1>2. BarrierInited /\ n_waiting >= n_active - 1
    BY Releaser
  <1>3. PICK k \in Alive : k \notin B!Unreleased
    BY Releaser
  <1>4. /\ B!Unreleased \subseteq Alive /\ Alive \in SUBSET Keys
        /\ Cardinality(Alive) + Cardinality(Finished) = Len(pool)
        /\ Cardinality(B!Unreleased) \in Nat /\ Cardinality(Alive) \in Nat
        /\ Cardinality(Finished) \in Nat
    BY InTheRound
  <1>5. Len(pool) <= Cardinality(SeenPids(trace)) /\ Cardinality(SeenPids(trace)) \in Nat
    <2>1. ~serial
      BY <1>2 DEF BarrierInited
    <2> QED
      BY <2>1, <1>1, <1>2, PoolCounted DEF BarrierFits
  <1>6. n_active = Cardinality(SeenPids(trace)) - Cardinality(Finished)
    BY <1>1, <1>2 DEF BarrierFits
  <1>7. n_waiting \in Int /\ n_waiting <= Cardinality(B!Unreleased) /\ Len(pool) \in Nat
    BY <1>1, InputTyped DEF BarrierPart
  <1>8. Cardinality(Alive \ {k}) = Cardinality(Alive) - 1
    BY <1>3, <1>4, OneKey
  <1>9. B!Unreleased \in SUBSET (Alive \ {k}) /\ Alive \ {k} \in SUBSET Keys
    BY <1>3, <1>4
  <1>10. Cardinality(B!Unreleased) <= Cardinality(Alive \ {k})
    BY <1>9, FewerKeys
  <1>11. /\ Cardinality(B!Unreleased) = Cardinality(Alive \ {k})
         /\ Cardinality(SeenPids(trace)) = Len(pool)
    BY <1>2, <1>4, <1>5, <1>6, <1>7, <1>8, <1>10
  <1>12. B!Unreleased = Alive \ {k}
    BY <1>9, <1>11, FewerKeys
  <1> QED
    BY <1>2, <1>3, <1>11, <1>12

\* A round is released only with every running worker in it, whatever the
\* capture is and however workers come into being while rounds are under way.
THEOREM RoundsReleasedFull == Spec => RoundsAreComplete
  <1>1. ReplayInv /\ [Next]_vars
          => [generation' # generation =>
                \E k \in Alive : \A w \in Alive \ {k} : w \in B!Unreleased]_vars
    BY ReleaseIsFull
  <1> QED
    BY <1>1, ReplayInvariant, PTL DEF Spec, RoundsAreComplete
----------------------------------------------------------------------------
(* Members of the barrier.                                                 *)

\* Once the capture is read, a pool that is not full has a worker for every
\* process with a replayable record.
LEMMA AllHaveWorkers ==
    ASSUME ReplayInv, BarrierInited, ~Reading, Len(pool) < max_workers,
           NEW i \in Replayable
    PROVE  trace[i].pid \in ToSet(pool)
  <1>1. TypeOK /\ RoutedToOwner /\ ~serial
    BY DEF ReplayInv, BarrierInited
  <1>2. i < pos
    <2>1. i \in 1 .. Len(trace) /\ Len(trace) \in Nat /\ pos \in Nat
      BY <1>1, InputTyped DEF Replayable, TypeOK
    <2> QED
      BY <2>1 DEF Reading
  <1>3. PICK k \in Keys : Contains(Routed(k), i)
    BY <1>1, <1>2 DEF RoutedToOwner
  <1>4. Owner(trace[i].pid) = k /\ k \in ToSet(pool)
    BY <1>1, <1>3, WithOwner
  <1> QED
    BY <1>1, <1>4 DEF Owner, Key

LEMMA MembersAreCounted == ReplayInv => MembersAreWorkers
  <1> SUFFICES ASSUME ReplayInv, BarrierInited
               PROVE  /\ Cardinality(Alive) <= n_active
                      /\ ~Reading /\ Captured = {trace[i].pid : i \in Replayable} =>
                           n_active = Cardinality(Alive)
    BY DEF MembersAreWorkers, Captured
  <1>1. TypeOK /\ BarrierFits /\ ~serial
    BY DEF ReplayInv, BarrierInited
  <1>2. /\ Cardinality(Alive) + Cardinality(Finished) = Len(pool)
        /\ Cardinality(Alive) \in Nat /\ Cardinality(Finished) \in Nat
    BY InTheRound
  <1>3. /\ Len(pool) <= Cardinality(SeenPids(trace)) /\ ToSet(pool) \subseteq Captured
        /\ Cardinality(SeenPids(trace)) \in Nat
    BY <1>1, PoolCounted DEF BarrierFits
  <1>4. n_active = Cardinality(SeenPids(trace)) - Cardinality(Finished)
    BY <1>1 DEF BarrierFits
  <1>5. Len(pool) \in Nat /\ max_workers \in Nat
    BY <1>1, InputTyped DEF TypeOK
  <1>6. ASSUME ~Reading, Captured = {trace[i].pid : i \in Replayable}
        PROVE  Cardinality(SeenPids(trace)) <= Len(pool)
    <2>1. /\ SeenPids(trace) \in SUBSET Captured /\ Captured \in SUBSET Keys
          /\ Cardinality(SeenPids(trace)) <= max_workers
      BY <1>1, PrePass DEF TypeOK
    <2>2. CASE Len(pool) < max_workers
      <3>1. Captured \subseteq ToSet(pool)
        BY <1>6, <2>2, AllHaveWorkers
      <3>2. SeenPids(trace) \in SUBSET ToSet(pool) /\ ToSet(pool) \in SUBSET Keys
        BY <1>3, <2>1, <3>1
      <3>3. Cardinality(ToSet(pool)) = Len(pool)
        BY <1>1, InjectiveCount DEF TypeOK
      <3> QED
        BY <3>2, <3>3, FewerKeys
    <2> QED
      BY <1>3, <1>5, <2>1, <2>2
  <1> QED
    BY <1>2, <1>3, <1>4, <1>5, <1>6

\* The member count of the barrier covers the running workers, and is exact
\* once the capture is read unless a process has nothing to replay: for every
\* capture and every bound on the workers.
THEOREM MembersCounted == Spec => []MembersAreWorkers
  BY ReplayInvariant, MembersAreCounted, PTL
============================================================================
