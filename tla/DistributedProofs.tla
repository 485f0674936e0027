-------------------------- MODULE DistributedProofs --------------------------
(***************************************************************************)
(* The distributed run of kvio, its capture and its plans.  First the      *)
(* coordinator, for any clients, connections, claims and assignments:      *)
(* every client starts after all are measured, a shard runs once, a        *)
(* complete run has every ledger.  Then the clock measurement, for every   *)
(* skew of the clocks, every number of probes and every length of their    *)
(* round trips.  Then the capture recorder, for any callers and any        *)
(* capacity of its queue: a complete capture has every call that had       *)
(* returned.  Last the plans compiled from a request trace, for any trace  *)
(* and any capacity of the cache: a plan runs.                             *)
(***************************************************************************)
EXTENDS Coordinator, ClockProbe, Capture, AgentPlan,
        FiniteSetTheorems, SequenceTheorems, WellFoundedInduction, TLAPS

\* What the coordinator sends.
Messages == {"shard", "start", "abort", "bye", "reject"}

\* There is at most one connection for each attempt.
LEMMA OrderFits ==
    ASSUME order \in Seq(Attempts), OneConnEach
    PROVE  Len(order) \in 0 .. Cardinality(Attempts)
  <1> DEFINE n == Len(order)
  <1>1. n \in Nat /\ order \in [1 .. n -> Attempts] /\ DOMAIN order = 1 .. n
    OBVIOUS
  <1>2. IsFiniteSet(Attempts) /\ Cardinality(Attempts) \in Nat
    BY CoordAssumption, FS_CardinalityType
  <1>3. IsFiniteSet(1 .. n) /\ Cardinality(1 .. n) = n
    <2>1. /\ IsFiniteSet(1 .. n)
          /\ Cardinality(1 .. n) = IF 1 > n THEN 0 ELSE n - 1 + 1
      BY <1>1, FS_Interval
    <2> QED
      BY <2>1, <1>1
  <1>4. ~(Cardinality(Attempts) < n)
    <2> SUFFICES ASSUME Cardinality(Attempts) < Cardinality(1 .. n) PROVE FALSE
      BY <1>3
    <2>1. \E i, j \in 1 .. n : i # j /\ order[i] = order[j]
      BY <1>1, <1>2, <1>3, FS_PigeonHole
    <2> QED
      BY <2>1, <1>1 DEF OneConnEach
  <1> QED
    BY <1>1, <1>2, <1>4

\* A message is appended to the queue of a client.
LEMMA Queued ==
    ASSUME CoordTypeOK, NEW a \in Attempts, NEW msg \in Messages, Tell(a, msg)
    PROVE  /\ down' \in [Attempts -> Seq(Messages)]
           /\ \A b \in Attempts : StartComing(b)' => StartComing(b) \/ (a = b /\ msg = "start")
  <1>1. down \in [Attempts -> Seq(Messages)]
    BY DEF CoordTypeOK, Messages
  <1>2. down' = [down EXCEPT ![a] = Append(down[a], msg)]
    BY DEF Tell
  <1>3. down[a] \in Seq(Messages) /\ Append(down[a], msg) \in Seq(Messages)
    BY <1>1
  <1>4. down' \in [Attempts -> Seq(Messages)]
    BY <1>1, <1>2, <1>3
  <1>5. ASSUME NEW b \in Attempts, StartComing(b)', ~StartComing(b)
        PROVE  a = b /\ msg = "start"
    <2>1. PICK i \in DOMAIN down'[b] : down'[b][i] = "start"
      BY <1>5 DEF StartComing
    <2>2. a = b
      BY <2>1, <1>1, <1>2, <1>5 DEF StartComing
    <2>3. i \in 1 .. Len(down[a]) + 1 /\ Append(down[a], msg)[i] = "start"
      BY <2>1, <2>2, <1>1, <1>2, <1>3
    <2>4. \A j \in 1 .. Len(down[a]) : down[a][j] # "start"
      BY <2>2, <1>3, <1>5 DEF StartComing
    <2> QED
      BY <2>2, <2>3, <2>4, <1>3
  <1> QED
    BY <1>4, <1>5

\* A client takes the first message of its queue.
LEMMA Heard ==
    ASSUME CoordTypeOK, NEW a \in Attempts, NEW msg, Told(a, msg), Hear(a)
    PROVE  /\ down' \in [Attempts -> Seq(Messages)]
           /\ msg = "start" => StartComing(a)
           /\ \A b \in Attempts : StartComing(b)' => StartComing(b)
  <1>1. down \in [Attempts -> Seq(Messages)]
    BY DEF CoordTypeOK, Messages
  <1>2. down' = [down EXCEPT ![a] = Tail(down[a])]
    BY DEF Hear
  <1>3. down[a] \in Seq(Messages) /\ down[a] # <<>> /\ Head(down[a]) = msg
    BY <1>1 DEF Told
  <1>4. Tail(down[a]) \in Seq(Messages) /\ Len(down[a]) \in Nat \ {0}
    BY <1>3
  <1>5. down' \in [Attempts -> Seq(Messages)]
    BY <1>1, <1>2, <1>4
  <1>6. msg = "start" => StartComing(a)
    BY <1>3, <1>4 DEF StartComing
  <1>7. ASSUME NEW b \in Attempts, StartComing(b)'
        PROVE  StartComing(b)
    <2>1. PICK i \in DOMAIN down'[b] : down'[b][i] = "start"
      BY <1>7 DEF StartComing
    <2>2. CASE a # b
      BY <2>1, <2>2, <1>1, <1>2 DEF StartComing
    <2>3. CASE a = b
      <3>1. i \in 1 .. Len(down[a]) - 1 /\ Tail(down[a])[i] = "start"
        BY <2>1, <2>3, <1>1, <1>2, <1>3, <1>4
      <3>2. down[a][i + 1] = "start" /\ i + 1 \in DOMAIN down[a]
        BY <3>1, <1>3, <1>4
      <3> QED
        BY <3>2, <2>3 DEF StartComing
    <2> QED
      BY <2>2, <2>3
  <1> QED
    BY <1>5, <1>6, <1>7

\* The first state.
LEMMA CoordStart == CoordInit => CoordInv
  <1> SUFFICES ASSUME CoordInit PROVE CoordInv
    OBVIOUS
  <1>1. Cardinality(Attempts) \in Nat
    BY CoordAssumption, FS_CardinalityType
  <1>2. CoordTypeOK
    <2>1. order = <<>> /\ <<>> \in Seq(Attempts) /\ <<>> \in Seq(Messages)
      BY DEF CoordInit
    <2>2. down \in [Attempts -> Seq(Messages)]
      BY <2>1 DEF CoordInit
    <2>3. pos = 1 /\ size = 0 /\ pos \in 1 .. size + 1 /\ size \in 0 .. Cardinality(Attempts)
      BY <1>1 DEF CoordInit
    <2> QED
      BY <2>1, <2>2, <2>3 DEF CoordInit, CoordTypeOK, Over, Messages
  <1>3. OneConnEach /\ StartedWithClocks /\ CollectedInOrder
    BY DEF CoordInit, OneConnEach, StartedWithClocks, CollectedInOrder, Registered, ConnsTo,
           StartComing
  <1> QED
    BY <1>2, <1>3 DEF CoordInv

\* Where the connections and the threads may change: a thread registers or
\* rejects its own connection and goes on with it; the main thread only
\* takes their number.
LEMMA OneConnEachStep ==
    ASSUME CoordInv, [CoordNext]_coordVars
    PROVE  OneConnEach' /\ order' \in Seq(Attempts)
  <1> USE DEF CoordInv
  <1>1. order \in Seq(Attempts) /\ Len(order) \in Nat /\ DOMAIN order = 1 .. Len(order)
    BY DEF CoordTypeOK
  <1>2. CASE order' = order /\ size' \in {size, Len(order)}
             /\ \A a \in Attempts : thread'[a] \in {"registered", "sent"}
                                      => thread[a] \in {"registered", "sent"}
    <2>1. size' <= Len(order') /\ Registered' = Registered /\ order' \in Seq(Attempts)
      BY <1>1, <1>2 DEF OneConnEach, Registered
    <2> QED
      BY <2>1, <1>2 DEF OneConnEach
  <1>3. ASSUME NEW a \in Attempts, Register(a)
        PROVE  OneConnEach' /\ order' \in Seq(Attempts)
    <2>1. CASE ~RegisterAllowed(a)
      BY <2>1, <1>2, <1>3 DEF Register, CoordTypeOK
    <2>2. CASE RegisterAllowed(a)
      <3>1. /\ order' = Append(order, a) /\ size' = size
            /\ thread' = [thread EXCEPT ![a] = "registered"]
        BY <1>3, <2>2 DEF Register
      <3>2. /\ order' \in Seq(Attempts) /\ Len(order') = Len(order) + 1
            /\ \A i \in DOMAIN order : order'[i] = order[i]
            /\ order'[Len(order) + 1] = a
            /\ DOMAIN order' = DOMAIN order \cup {Len(order) + 1}
        BY <1>1, <3>1
      <3>3. Registered' = Registered \cup {a}
        BY <3>2 DEF Registered
      <3>4. \A i \in DOMAIN order : ClaimOf[order[i]] # ClaimOf[a]
        BY <2>2 DEF RegisterAllowed, Conns
      <3>5. \A i, j \in DOMAIN order' : ClaimOf[order'[i]] = ClaimOf[order'[j]] => i = j
        BY <3>2, <3>4 DEF OneConnEach
      <3>6. \A b \in Attempts : thread'[b] \in {"registered", "sent"} => b \in Registered'
        BY <3>1, <3>3 DEF OneConnEach, CoordTypeOK
      <3>7. size' <= Len(order')
        BY <3>1, <3>2, <1>1 DEF OneConnEach, CoordTypeOK
      <3> QED
        BY <2>2, <3>2, <3>3, <3>5, <3>6, <3>7 DEF OneConnEach, RegisterAllowed
    <2> QED
      BY <2>1, <2>2
  <1>4. ASSUME NEW a \in Attempts, ClientStep(a) \/ SendShard(a) \/ Ready(a) \/ Die(a)
        PROVE  OneConnEach' /\ order' \in Seq(Attempts)
    BY <1>2, <1>4 DEF ClientStep, Hello, Prepare, Execute, Deliver, Leave, Die, ClientMoves,
           SendShard, Ready, loopVars, runVars, CoordTypeOK
  <1>5. CASE MainStep
    BY <1>2, <1>5 DEF MainStep, Shard, Awake, AbortOne, StartOne, CollectOne, Verdict, MainOnly,
           loopVars, runVars
  <1>6. CASE UNCHANGED coordVars
    BY <1>2, <1>6 DEF coordVars
  <1> QED
    BY <1>3, <1>4, <1>5, <1>6 DEF CoordNext, Serve

\* The type is kept.  What needs an argument: a failure names a client, as
\* the failing thread holds a connection; the loop stays in its range.
LEMMA CoordTyped ==
    ASSUME CoordInv, [CoordNext]_coordVars
    PROVE  CoordTypeOK'
  <1> USE DEF CoordInv
  <1>1. CASE UNCHANGED coordVars
    BY <1>1 DEF coordVars, CoordTypeOK
  <1>2. ASSUME NEW a \in Attempts, ClientStep(a) \/ Die(a)
        PROVE  CoordTypeOK'
    <2>1. down' \in [Attempts -> Seq(Messages)]
      <3>1. CASE Prepare(a)
        BY <3>1, Heard DEF Prepare
      <3>2. CASE Execute(a)
        BY <3>2, Heard DEF Execute
      <3>3. CASE UNCHANGED down
        BY <3>3 DEF CoordTypeOK, Messages
      <3> QED
        BY <1>2, <3>1, <3>2, <3>3 DEF ClientStep, Hello, Deliver, Leave, Die
    <2>2. UNCHANGED <<main, order, pos, size, assignment, failures, clock, readyEvent, results>>
      BY <1>2 DEF ClientStep, Hello, Prepare, Execute, Deliver, Leave, Die, ClientMoves,
             loopVars, runVars
    <2>3. /\ thread' \in [Attempts -> {"none", "hello", "registered", "sent", "ended"}]
          /\ client' \in [Attempts -> {"new", "hello", "ready", "running", "done", "left", "dead"}]
          /\ up' \in [Attempts -> {"empty", "hello", "ready", "done"}]
          /\ ran' \subseteq Attempts
      BY <1>2 DEF ClientStep, Hello, Prepare, Execute, Deliver, Leave, Die, ClientMoves,
             CoordTypeOK
    <2> QED
      BY <2>1, <2>2, <2>3 DEF CoordTypeOK, Messages
  <1>3. ASSUME NEW a \in Attempts, Serve(a)
        PROVE  CoordTypeOK'
    <2>1. down' \in [Attempts -> Seq(Messages)]
      <3>1. CASE Tell(a, "reject")
        BY <3>1, Queued DEF Messages
      <3>2. CASE Tell(a, "shard")
        BY <3>2, Queued DEF Messages
      <3>3. CASE UNCHANGED down
        BY <3>3 DEF CoordTypeOK, Messages
      <3> QED
        BY <1>3, <3>1, <3>2, <3>3 DEF Serve, Register, SendShard, Ready
    <2>2. UNCHANGED <<main, pos, size, assignment, results, client, ran>>
      BY <1>3 DEF Serve, Register, SendShard, Ready, loopVars, runVars
    <2>3. /\ thread' \in [Attempts -> {"none", "hello", "registered", "sent", "ended"}]
          /\ up' \in [Attempts -> {"empty", "hello", "ready", "done"}]
      BY <1>3 DEF Serve, Register, SendShard, Ready, CoordTypeOK
    <2>4. thread[a] = "sent" => ClaimOf[a] \in Clients
      BY DEF OneConnEach
    <2>5. failures' \subseteq Clients /\ clock' \subseteq Clients
      BY <1>3, <2>4 DEF Serve, Register, SendShard, Ready, runVars, CoordTypeOK
    <2>6. readyEvent' \in BOOLEAN
      BY <1>3 DEF Serve, Register, SendShard, Ready, runVars, CoordTypeOK
    <2>7. order' \in Seq(Attempts)
      BY OneConnEachStep
    <2> QED
      BY <2>1, <2>2, <2>3, <2>5, <2>6, <2>7 DEF CoordTypeOK, Messages
  <1>4. CASE MainStep
    <2>1. pos' \in 1 .. size' + 1 /\ size' \in 0 .. Cardinality(Attempts)
      <3>1. size \in Nat /\ pos \in 1 .. size + 1 /\ Cardinality(Attempts) \in Nat
        BY CoordAssumption, FS_CardinalityType DEF CoordTypeOK
      <3>2. CASE Awake
        BY <3>1, <3>2, OrderFits DEF Awake, CoordTypeOK
      <3>3. CASE size' = size /\ pos' = pos
        BY <3>3 DEF CoordTypeOK
      <3>4. CASE size' = size /\ (pos' = 1 \/ (pos <= size /\ pos' = pos + 1))
        BY <3>1, <3>4 DEF CoordTypeOK
      <3> QED
        BY <1>4, <3>1, <3>2, <3>3, <3>4
        DEF MainStep, Shard, AbortOne, StartOne, CollectOne, CollectLost, CollectDone,
            CollectReset, Verdict, loopVars
    <2>2. pos <= size => order[pos] \in Registered /\ order[pos] \in Attempts
      BY DEF OneConnEach, CoordTypeOK, Registered
    <2>3. down' \in [Attempts -> Seq(Messages)]
      <3>1. ASSUME pos <= size, NEW msg \in {"abort", "start", "bye"}, Tell(order[pos], msg)
            PROVE  down' \in [Attempts -> Seq(Messages)]
        BY <3>1, <2>2, Queued DEF Messages
      <3>2. CASE UNCHANGED down
        BY <3>2 DEF CoordTypeOK, Messages
      <3>3. pos \in Int /\ size \in Int
        BY DEF CoordTypeOK
      <3> QED
        BY <1>4, <3>1, <3>2, <3>3
        DEF MainStep, Shard, Awake, AbortOne, StartOne, CollectOne, CollectLost, CollectDone,
            CollectReset, Verdict
    <2>4. UNCHANGED <<order, assignment, clock, readyEvent, thread, client, ran>>
      BY <1>4 DEF MainStep, Shard, Awake, AbortOne, StartOne, CollectOne, Verdict, MainOnly,
             loopVars, runVars
    <2>5. main' \in {"shard", "wait", "abort", "start", "collect"} \cup Over
      BY <1>4 DEF MainStep, Shard, Awake, AbortOne, StartOne, CollectOne, CollectLost,
             CollectDone, CollectReset, Verdict, Over, CoordTypeOK
    <2>6. /\ failures' \subseteq Clients /\ results' \subseteq Clients
          /\ up' \in [Attempts -> {"empty", "hello", "ready", "done"}]
      <3>1. CASE CollectOne
        BY <3>1, <2>2 DEF CollectOne, CollectLost, CollectDone, CollectReset, CoordTypeOK,
               OneConnEach
      <3>2. CASE UNCHANGED <<failures, results, up>>
        BY <3>2 DEF CoordTypeOK
      <3> QED
        BY <1>4, <3>1, <3>2 DEF MainStep, Shard, Awake, AbortOne, StartOne, Verdict, runVars
    <2> QED
      BY <2>1, <2>3, <2>4, <2>5, <2>6 DEF CoordTypeOK, Messages
  <1> QED
    BY <1>1, <1>2, <1>3, <1>4 DEF CoordNext

\* Connections, measured clocks, executions, results and failures are never
\* taken back, and the first connections stay what they are.
LEMMA CoordGrows ==
    ASSUME CoordInv, [CoordNext]_coordVars
    PROVE  /\ Registered \subseteq Registered'
           /\ clock \subseteq clock' /\ ran \subseteq ran'
           /\ results \subseteq results' /\ failures \subseteq failures'
           /\ \A n \in 0 .. Len(order) : ConnsTo(n)' = ConnsTo(n)
  <1>1. order \in Seq(Attempts)
    BY DEF CoordInv, CoordTypeOK
  <1>2. order' = order \/ \E a \in Attempts : order' = Append(order, a)
    BY DEF CoordNext, MainStep, ClientStep, Serve, Hello, Prepare, Execute, Deliver, Leave, Die,
           ClientMoves, Register, SendShard, Ready, Shard, Awake, AbortOne, StartOne, CollectOne,
           Verdict, MainOnly, loopVars, runVars, coordVars
  <1>3. Registered \subseteq Registered' /\ \A n \in 0 .. Len(order) : ConnsTo(n)' = ConnsTo(n)
    <2>1. CASE order' = order
      BY <2>1 DEF Registered, ConnsTo
    <2>2. ASSUME NEW a \in Attempts, order' = Append(order, a)
          PROVE  Registered \subseteq Registered' /\ \A n \in 0 .. Len(order) : ConnsTo(n)' = ConnsTo(n)
      <3>1. /\ DOMAIN order = 1 .. Len(order) /\ Len(order) \in Nat
            /\ DOMAIN order' = 1 .. Len(order) + 1
            /\ \A i \in 1 .. Len(order) : order'[i] = order[i]
        BY <1>1, <2>2
      <3>2. Registered \subseteq Registered'
        BY <3>1 DEF Registered
      <3>3. ASSUME NEW n \in 0 .. Len(order)
            PROVE  ConnsTo(n)' = ConnsTo(n)
        BY <3>1, <3>3 DEF ConnsTo
      <3> QED
        BY <3>2, <3>3
    <2> QED
      BY <1>2, <2>1, <2>2
  <1>4. clock \subseteq clock' /\ ran \subseteq ran' /\ results \subseteq results' /\ failures \subseteq failures'
    BY DEF CoordNext, MainStep, ClientStep, Serve, Hello, Prepare, Execute, Deliver, Leave, Die,
           ClientMoves, Register, SendShard, Ready, Shard, Awake, AbortOne, StartOne, CollectOne,
           CollectLost, CollectDone, CollectReset, Verdict, MainOnly, loopVars, runVars, coordVars
  <1> QED
    BY <1>3, <1>4

\* Only the main thread sends a start, once every clock is measured, and
\* only over the connections it holds.
LEMMA StartedStep ==
    ASSUME CoordInv, [CoordNext]_coordVars
    PROVE  StartedWithClocks'
  <1> DEFINE Fed(a) == a \in ran \/ StartComing(a)
  <1> DEFINE Ran(a) == client[a] \in {"running", "done"} \/ up[a] = "done"
  <1>1. CoordTypeOK /\ OneConnEach /\ StartedWithClocks
    BY DEF CoordInv
  <1>2. clock = Clients => clock' = Clients
    BY CoordTyped, CoordGrows DEF CoordTypeOK
  <1>3. (readyEvent \/ main \in {"start", "collect"} => clock = Clients)'
    <2>1. readyEvent' => clock' = Clients
      BY <1>1, <1>2 DEF CoordNext, MainStep, ClientStep, Serve, Hello, Prepare, Execute, Deliver,
             Leave, Die, ClientMoves, Register, SendShard, Ready, LastReady, Shard, Awake,
             AbortOne, StartOne, CollectOne, Verdict, loopVars, runVars, coordVars,
             StartedWithClocks
    <2>2. main' \in {"start", "collect"} => main \in {"start", "collect"} \/ readyEvent
      BY DEF CoordNext, MainStep, ClientStep, Serve, Hello, Prepare, Execute, Deliver,
             Leave, Die, ClientMoves, Register, SendShard, Ready, Shard, Awake,
             AbortOne, StartOne, CollectOne, CollectLost, CollectDone, CollectReset, Verdict,
             loopVars, runVars, coordVars
    <2> QED
      BY <1>1, <1>2, <2>1, <2>2 DEF StartedWithClocks
  <1>4. ASSUME \A a \in Attempts : Fed(a)' => Fed(a) \/ (a \in Registered /\ clock = Clients)
        PROVE  \A a \in Attempts : Fed(a)' => a \in Registered' /\ clock' = Clients
    BY <1>1, <1>2, <1>4, CoordGrows DEF StartedWithClocks
  <1>5. ASSUME \A a \in Attempts : Ran(a)' => Ran(a) \/ a \in ran'
        PROVE  \A a \in Attempts : Ran(a)' => a \in ran'
    BY <1>1, <1>5, CoordGrows DEF StartedWithClocks
  <1>6. ASSUME \A a \in Attempts : Fed(a)' => Fed(a) \/ (a \in Registered /\ clock = Clients),
               \A a \in Attempts : Ran(a)' => Ran(a) \/ a \in ran'
        PROVE  StartedWithClocks'
    BY <1>3, <1>4, <1>5, <1>6 DEF StartedWithClocks
  <1>7. ASSUME NEW a \in Attempts, ClientStep(a) \/ Die(a)
        PROVE  StartedWithClocks'
    <2>1. \A b \in Attempts : Ran(b)' => Ran(b) \/ b \in ran'
      BY <1>1, <1>7 DEF ClientStep, Hello, Prepare, Execute, Deliver, Leave, Die, ClientMoves,
             CoordTypeOK
    <2>2. CASE Prepare(a) \/ Execute(a)
      <3>1. \A b \in Attempts : StartComing(b)' => StartComing(b)
        BY <1>1, <2>2, Heard DEF Prepare, Execute
      <3>2. Execute(a) => StartComing(a)
        BY <1>1, Heard DEF Execute
      <3>3. \A b \in Attempts : Fed(b)' => Fed(b)
        BY <2>2, <3>1, <3>2 DEF Prepare, Execute
      <3> QED
        BY <1>6, <2>1, <3>3
    <2>3. CASE UNCHANGED <<down, ran>>
      BY <1>6, <2>1, <2>3 DEF StartComing
    <2> QED
      BY <1>7, <2>2, <2>3 DEF ClientStep, Hello, Deliver, Leave, Die
  <1>8. ASSUME NEW a \in Attempts, Serve(a)
        PROVE  StartedWithClocks'
    <2>1. UNCHANGED <<ran, client>> /\ (\A b \in Attempts : up'[b] = "done" => up[b] = "done")
      BY <1>1, <1>8 DEF Serve, Register, SendShard, Ready, CoordTypeOK
    <2>2. \A b \in Attempts : StartComing(b)' => StartComing(b)
      <3>1. CASE Tell(a, "reject") \/ Tell(a, "shard")
        BY <1>1, <3>1, Queued DEF Messages
      <3>2. CASE UNCHANGED down
        BY <3>2 DEF StartComing
      <3> QED
        BY <1>8, <3>1, <3>2 DEF Serve, Register, SendShard, Ready
    <2> QED
      BY <1>6, <2>1, <2>2
  <1>9. CASE MainStep
    <2>1. UNCHANGED <<ran, client>>
      BY <1>9 DEF MainStep, Shard, Awake, AbortOne, StartOne, CollectOne, Verdict, MainOnly
    <2>2. pos \in Int /\ size \in Int /\ (pos <= size => order[pos] \in Registered /\ order[pos] \in Attempts)
      BY <1>1 DEF OneConnEach, CoordTypeOK, Registered
    <2>3. \A b \in Attempts : up'[b] = "done" => up[b] = "done"
      BY <1>1, <1>9, <2>2 DEF MainStep, Shard, Awake, AbortOne, StartOne, CollectOne, CollectLost,
             CollectDone, CollectReset, Verdict, CoordTypeOK
    <2>4. \A b \in Attempts : StartComing(b)' => StartComing(b) \/ (b \in Registered /\ clock = Clients)
      <3>1. CASE pos <= size /\ (Tell(order[pos], "abort") \/ Tell(order[pos], "bye"))
        BY <1>1, <2>2, <3>1, Queued DEF Messages
      <3>2. CASE main = "start" /\ pos <= size /\ Tell(order[pos], "start")
        BY <1>1, <2>2, <3>2, Queued DEF Messages, StartedWithClocks
      <3>3. CASE UNCHANGED down
        BY <3>3 DEF StartComing
      <3> QED
        BY <1>9, <2>2, <3>1, <3>2, <3>3
        DEF MainStep, Shard, Awake, AbortOne, StartOne, CollectOne, CollectLost, CollectDone,
            CollectReset, Verdict
    <2> QED
      BY <1>6, <2>1, <2>3, <2>4
  <1>10. CASE UNCHANGED coordVars
    BY <1>6, <1>10 DEF coordVars, StartComing
  <1> QED
    BY <1>7, <1>8, <1>9, <1>10 DEF CoordNext

\* The loops pass every connection of the run: a client that was passed
\* while collecting has delivered what it executed, or is a failure.
LEMMA CollectedStep ==
    ASSUME CoordInv, [CoordNext]_coordVars
    PROVE  CollectedInOrder'
  <1>1. CoordTypeOK /\ OneConnEach /\ StartedWithClocks /\ CollectedInOrder
    BY DEF CoordInv
  <1>2. /\ pos \in Nat /\ size \in Nat /\ 1 <= pos /\ pos <= size + 1
        /\ order \in Seq(Attempts) /\ size <= Len(order) /\ Len(order) \in Nat
    BY <1>1, CoordAssumption, FS_CardinalityType DEF CoordTypeOK, OneConnEach
  <1>3. /\ size' = size => ConnsTo(size)' = ConnsTo(size)
        /\ pos' = pos => ConnsTo(pos - 1)' = ConnsTo(pos - 1)
    <2>1. \A n \in 0 .. Len(order) : {ClaimOf[order'[i]] : i \in 1 .. n} = ConnsTo(n)
      BY CoordGrows DEF ConnsTo
    <2>2. size \in 0 .. Len(order) /\ pos - 1 \in 0 .. Len(order)
      BY <1>2
    <2>3. ASSUME size' = size PROVE ConnsTo(size)' = ConnsTo(size)
      <3>1. ConnsTo(size)' = {ClaimOf[order'[i]] : i \in 1 .. size}
        BY <2>3 DEF ConnsTo
      <3> QED
        BY <3>1, <2>1, <2>2
    <2>4. ASSUME pos' = pos PROVE ConnsTo(pos - 1)' = ConnsTo(pos - 1)
      <3>1. ConnsTo(pos - 1)' = {ClaimOf[order'[i]] : i \in 1 .. pos - 1}
        BY <2>4 DEF ConnsTo
      <3> QED
        BY <3>1, <2>1, <2>2
    <2> QED
      BY <2>3, <2>4
  <1>4. \A c \in results' : \E a \in ran' : ClaimOf[a] = c
    <2>1. results' = results \/ (pos <= size /\ up[order[pos]] = "done"
                                /\ results' = results \cup {ClaimOf[order[pos]]})
      BY DEF CoordNext, MainStep, ClientStep, Serve, Hello, Prepare, Execute, Deliver,
             Leave, Die, ClientMoves, Register, SendShard, Ready, Shard, Awake,
             AbortOne, StartOne, CollectOne, CollectLost, CollectDone, CollectReset, Verdict,
             loopVars, runVars, coordVars
    <2>2. pos <= size /\ up[order[pos]] = "done" => order[pos] \in ran
      BY <1>1, <1>2 DEF StartedWithClocks
    <2> QED
      BY <1>1, <2>1, <2>2, CoordGrows DEF CollectedInOrder
  <1>5. CASE UNCHANGED <<main, pos, size>>
    BY <1>1, <1>3, <1>4, <1>5, CoordGrows DEF CollectedInOrder
  <1>6. CASE Shard
    BY <1>4, <1>6 DEF Shard, CollectedInOrder
  <1>7. CASE Awake
    <2>1. main' \in {"start", "abort"} /\ (main' = "start" => Clients \subseteq Conns)
      BY <1>7 DEF Awake
    <2>2. Conns = ConnsTo(size)'
      BY <1>2, <1>7 DEF Awake, Conns, ConnsTo
    <2> QED
      BY <1>4, <2>1, <2>2 DEF CollectedInOrder
  <1>8. CASE AbortOne
    BY <1>4, <1>8 DEF AbortOne, CollectedInOrder
  <1>9. CASE StartOne
    <2>1. size' = size /\ main = "start" /\ main' \in {"start", "collect", "raised"}
          /\ (main' = "collect" => pos' = 1)
      BY <1>9 DEF StartOne
    <2>2. pos' = 1 => ConnsTo(pos - 1)' = {}
      BY DEF ConnsTo
    <2> QED
      BY <1>1, <1>3, <1>4, <2>1, <2>2 DEF CollectedInOrder
  <1>10. CASE CollectOne
    <2>1. /\ size' = size /\ order' = order /\ main = "collect" /\ pos <= size
          /\ main' = "raised" \/ (main' = main /\ pos' = pos + 1
                                   /\ ClaimOf[order[pos]] \in results' \cup failures')
      BY <1>10 DEF CollectOne, CollectLost, CollectDone, CollectReset
    <2>2. CASE main' = "raised"
      BY <1>4, <2>2 DEF CollectedInOrder
    <2>3. CASE main' = main /\ pos' = pos + 1
      <3>1. ConnsTo(pos - 1)' = ConnsTo(pos - 1) \cup {ClaimOf[order[pos]]}
        <4>1. 1 .. pos' - 1 = (1 .. pos - 1) \cup {pos}
          BY <1>2, <2>3
        <4> QED
          BY <2>1, <4>1 DEF ConnsTo
      <3>2. ConnsTo(pos - 1)' \subseteq results' \cup failures'
        BY <1>1, <2>1, <2>3, <3>1, CoordGrows DEF CollectedInOrder
      <3> QED
        BY <1>1, <1>3, <1>4, <2>1, <2>3, <3>2 DEF CollectedInOrder
    <2> QED
      BY <2>1, <2>2, <2>3
  <1>11. CASE Verdict
    <2>1. /\ main = "collect" /\ pos > size /\ results' = results
          /\ main' \in {"partial", "complete"} /\ (main' = "complete" => failures = {})
      BY <1>11 DEF Verdict, runVars
    <2>2. ConnsTo(pos - 1) = ConnsTo(size)
      BY <1>2, <2>1 DEF ConnsTo
    <2>3. main' = "complete" => Clients \subseteq results'
      BY <1>1, <2>1, <2>2 DEF CollectedInOrder
    <2> QED
      BY <1>4, <2>1, <2>3 DEF CollectedInOrder
  <1>12. ASSUME NEW a \in Attempts, ClientStep(a) \/ Serve(a) \/ Die(a)
         PROVE  UNCHANGED <<main, pos, size>>
    BY <1>12 DEF ClientStep, Hello, Prepare, Execute, Deliver, Leave, Die, ClientMoves, Serve,
           Register, SendShard, Ready, loopVars, runVars
  <1>13. CASE UNCHANGED coordVars
    BY <1>5, <1>13 DEF coordVars
  <1> QED
    BY <1>5, <1>6, <1>7, <1>8, <1>9, <1>10, <1>11, <1>12, <1>13 DEF CoordNext, MainStep

\* The inductive invariant of the distributed run, for any clients, any
\* number of connections, any claims and any assignment of the streams.
THEOREM CoordInvariant == CoordSpec => []CoordInv
  <1>1. CoordInv /\ [CoordNext]_coordVars => CoordInv'
    BY OneConnEachStep, CoordTyped, StartedStep, CollectedStep DEF CoordInv
  <1> QED
    BY <1>1, CoordStart, PTL DEF CoordSpec

\* No client executes before every client of the run is ready and its clock
\* measured (Coordinator.run, the wait for ready_event).
THEOREM ClientsStartTogether == CoordSpec => []StartTogether
  <1>1. CoordInv => StartTogether
    BY DEF CoordInv, CoordTypeOK, StartedWithClocks, StartTogether
  <1> QED
    BY <1>1, CoordInvariant, PTL

\* No shard is executed twice, whoever reconnects and whenever a client or
\* the wait gives up, and a run reported complete has executed, with their
\* ledgers, exactly the streams that are assigned to clients of the run: an
\* assignment is not checked for that (shard_workload).
THEOREM ShardsRunOnce == CoordSpec => []RunsEachShardOnce
  <1>1. CoordInv => ShardOnce
    <2> SUFFICES ASSUME CoordInv, NEW a \in ran, NEW b \in ran, ClaimOf[a] = ClaimOf[b]
                 PROVE  a = b
      BY DEF ShardOnce
    <2>1. a \in Registered /\ b \in Registered
      BY DEF CoordInv, CoordTypeOK, StartedWithClocks
    <2> QED
      BY <2>1 DEF CoordInv, OneConnEach, Registered
  <1>2. CoordInv => CompleteCoversWorkload
    <2> SUFFICES ASSUME CoordInv, main = "complete", NEW s \in Streams
                 PROVE  /\ (\E a \in ran : ClaimOf[a] = assignment[s]) <=> assignment[s] \in Clients
                        /\ assignment[s] \in results <=> assignment[s] \in Clients
      BY DEF CompleteCoversWorkload
    <2>1. results = Clients
      BY DEF CoordInv, CoordTypeOK, CollectedInOrder
    <2>2. \A c \in results : \E a \in ran : ClaimOf[a] = c
      BY DEF CoordInv, CollectedInOrder
    <2>3. \A a \in ran : ClaimOf[a] \in Clients
      BY DEF CoordInv, CoordTypeOK, StartedWithClocks, OneConnEach
    <2> QED
      BY <2>1, <2>2, <2>3
  <1>3. CoordInv => RunsEachShardOnce
    BY <1>1, <1>2 DEF RunsEachShardOnce
  <1> QED
    BY <1>3, CoordInvariant, PTL

----------------------------------------------------------------------------
(* The clock measurement.                                                  *)

\* Half of a round trip, as the integer division of the code gives it.
LEMMA Half ==
    ASSUME NEW n \in Nat
    PROVE  /\ n \div 2 \in Nat
           /\ 2 * (n \div 2) <= n
           /\ n <= 2 * (n \div 2) + 1
  BY SMT

\* One sample: a client clock read at any moment of the round trip gives
\* the offset within half the round trip, and one for the rounding.
LEMMA SampleWithinHalf ==
    ASSUME ProbeTypeOK, t0 <= tick, tClient - skew \in t0 .. tick, skew \in Int
    PROVE  /\ Sample \in [rtt : Nat, offset : Int]
           /\ Sample.offset - skew \in -(Sample.rtt \div 2) .. (Sample.rtt \div 2) + 1
  <1> DEFINE n == tick - t0
  <1> DEFINE h == n \div 2
  <1>1. n \in Nat /\ t0 \in Nat /\ tick \in Nat /\ tClient \in Int
    BY DEF ProbeTypeOK
  <1>2. h \in Nat /\ 2 * h <= n /\ n <= 2 * h + 1
    BY <1>1, Half
  <1>3. Sample = [rtt |-> n, offset |-> tClient - (t0 + h)]
    BY DEF Sample
  <1>4. Sample.rtt = n /\ Sample.offset = tClient - (t0 + h)
    BY <1>3
  <1> HIDE DEF h
  <1>5. Sample \in [rtt : Nat, offset : Int]
    BY <1>1, <1>2, <1>3 DEF n
  <1>6. tClient - (t0 + h) - skew \in -h .. h + 1
    BY <1>1, <1>2 DEF n
  <1>7. Sample.rtt \div 2 = h
    BY <1>4 DEF h
  <1> QED
    BY <1>4, <1>5, <1>6, <1>7

\* The first state.
LEMMA ProbeStart == ProbeInit => ProbeInv
  <1> SUFFICES ASSUME ProbeInit PROVE ProbeInv
    OBVIOUS
  <1>1. ProbeTypeOK
    BY DEF ProbeInit, ProbeTypeOK
  <1> QED
    BY <1>1 DEF ProbeInit, ProbeInv, TripBounds, OffsetWithinUncertainty, StartsAfterStart

\* Every step keeps the type and the inductive invariant.
LEMMA ProbeStep == ProbeInv /\ [ProbeNext]_probeVars => ProbeInv'
  <1> SUFFICES ASSUME ProbeTypeOK, TripBounds, OffsetWithinUncertainty, StartsAfterStart,
                      [ProbeNext]_probeVars
               PROVE  ProbeInv'
    BY DEF ProbeInv
  <1>s. skew \in Int
    BY ProbeAssumption DEF ProbeTypeOK
  <1>1. CASE ProbeTick
    BY <1>1, <1>s
    DEF ProbeTick, ProbeInv, ProbeTypeOK, TripBounds, OffsetWithinUncertainty, StartsAfterStart, Uncertainty
  <1>2. CASE Ping
    BY <1>2, <1>s
    DEF Ping, ProbeInv, ProbeTypeOK, TripBounds, OffsetWithinUncertainty, StartsAfterStart, Uncertainty
  <1>3. CASE Pong
    BY <1>3, <1>s
    DEF Pong, ProbeInv, ProbeTypeOK, TripBounds, OffsetWithinUncertainty, StartsAfterStart, Uncertainty
  <1>4. CASE RoundTrip
    <2>1. /\ Sample \in [rtt : Nat, offset : Int]
          /\ Sample.offset - skew \in -(Sample.rtt \div 2) .. (Sample.rtt \div 2) + 1
      BY <1>4, <1>s, SampleWithinHalf DEF RoundTrip, TripBounds
    <2>2. best' = Sample \/ (trips > 0 /\ best' = best)
      BY <1>4 DEF RoundTrip, KeepBest, ProbeTypeOK
    <2>3. ProbeTypeOK'
      BY <1>4, <2>1, <2>2 DEF RoundTrip, ProbeTypeOK
    <2>4. OffsetWithinUncertainty'
      <3>1. CASE best' = Sample
        BY <3>1, <1>4, <2>1 DEF RoundTrip, OffsetWithinUncertainty, Uncertainty
      <3>2. CASE trips > 0 /\ best' = best
        BY <3>2, <1>4 DEF RoundTrip, OffsetWithinUncertainty, Uncertainty
      <3> QED
        BY <2>2, <3>1, <3>2
    <2> QED
      BY <1>4, <2>3, <2>4 DEF RoundTrip, ProbeInv, TripBounds, StartsAfterStart
  <1>5. CASE StartRun
    BY <1>5, <1>s, ProbeAssumption
    DEF StartRun, ProbeInv, ProbeTypeOK, TripBounds, OffsetWithinUncertainty, StartsAfterStart, Uncertainty
  <1>6. CASE MergeStart
    <2> DEFINE u == best.rtt \div 2
    <2>1. u \in Nat
      BY Half DEF ProbeTypeOK
    <2>2. best.offset \in Int /\ tick \in Nat /\ startNs \in Nat
      BY DEF ProbeTypeOK
    <2>3. best.offset - skew <= u + 1 /\ startNs <= tick
      BY <1>6, <1>s, <2>1, <2>2 DEF MergeStart, TripBounds, OffsetWithinUncertainty, Uncertainty
    <2>4. coordStart' = (tick + skew) - best.offset - startNs /\ Uncertainty' = u
      BY <1>6 DEF MergeStart, Uncertainty
    <2> HIDE DEF u
    <2>5. coordStart' \in Int /\ coordStart' >= -(u + 1)
      BY <1>s, <2>1, <2>2, <2>3, <2>4
    <2>6. ProbeTypeOK'
      BY <1>6, <2>5 DEF MergeStart, ProbeTypeOK
    <2>7. StartsAfterStart'
      BY <2>4, <2>5 DEF StartsAfterStart
    <2>8. OffsetWithinUncertainty'
      BY <1>6 DEF MergeStart, TripBounds, OffsetWithinUncertainty, Uncertainty
    <2> QED
      BY <1>6, <2>6, <2>7, <2>8 DEF MergeStart, ProbeInv, TripBounds
  <1>7. CASE UNCHANGED probeVars
    BY <1>7
    DEF probeVars, ProbeInv, ProbeTypeOK, TripBounds, OffsetWithinUncertainty, StartsAfterStart, Uncertainty
  <1> QED
    BY <1>1, <1>2, <1>3, <1>4, <1>5, <1>6, <1>7 DEF ProbeNext

\* _probe_clock's state keeps its types and the inductive invariant.
THEOREM ProbeCorrect == ProbeSpec => []ProbeInv
  BY ProbeStart, ProbeStep, PTL DEF ProbeSpec

\* The offset _probe_clock records differs from the true one by no more than
\* the recorded uncertainty and the nanosecond lost in halving.
THEOREM OffsetIsSound == ProbeSpec => []OffsetWithinUncertainty
  <1>1. ProbeInv => OffsetWithinUncertainty
    BY DEF ProbeInv
  <1> QED
    BY <1>1, ProbeCorrect, PTL

\* _merge never shows a client starting before the coordinator's start, but
\* for the uncertainty of its clock.
THEOREM MergedStartIsSound == ProbeSpec => []StartsAfterStart
  <1>1. ProbeInv => StartsAfterStart
    BY DEF ProbeInv
  <1> QED
    BY <1>1, ProbeCorrect, PTL

\* A further probe never widens the recorded uncertainty.
THEOREM ProbesOnlyHelp == ProbeSpec => UncertaintyShrinks
  <1>1. ProbeInv /\ [ProbeNext]_probeVars => [trips > 0 => best'.rtt <= best.rtt]_probeVars
    <2> SUFFICES ASSUME ProbeTypeOK, ProbeNext, trips > 0
                 PROVE  best'.rtt <= best.rtt
      BY DEF ProbeInv
    <2>1. CASE RoundTrip
      <3>1. best' = best \/ (best' = Sample /\ Less(Sample, best))
        BY <2>1 DEF RoundTrip, KeepBest, ProbeTypeOK
      <3>2. Sample.rtt \in Int /\ best.rtt \in Int
        BY DEF Sample, ProbeTypeOK
      <3> QED
        BY <3>1, <3>2 DEF Less
    <2>2. CASE best' = best
      BY <2>2 DEF ProbeTypeOK
    <2> QED
      BY <2>1, <2>2 DEF ProbeNext, ProbeTick, Ping, Pong, StartRun, MergeStart
  <1> QED
    BY <1>1, ProbeCorrect, PTL DEF ProbeSpec, UncertaintyShrinks

----------------------------------------------------------------------------
(* The capture recorder.                                                   *)

\* The last of the positions with a property.
LEMMA LastPosition ==
    ASSUME NEW n \in Nat, NEW S \in SUBSET (1 .. n), S # {}
    PROVE  Max(S) \in S
  <1> DEFINE T == {n - x : x \in S}
  <1>1. T \in SUBSET Nat /\ T # {}
    <2>1. \A x \in S : n - x \in Nat
      OBVIOUS
    <2> QED
      BY <2>1
  <1>2. PICK z \in T : \A y \in T : ~(<<y, z>> \in OpToRel(<, Nat))
    BY <1>1, WFMin, NatLessThanWellFounded
  <1>3. PICK x \in S : z = n - x
    BY <1>2
  <1>4. \A y \in S : x >= y
    <2> SUFFICES ASSUME NEW y \in S PROVE x >= y
      OBVIOUS
    <2>1. n - y \in T /\ n - y \in Nat /\ n - x \in Nat /\ x \in Int /\ y \in Int
      BY <1>1
    <2>2. ~(n - y < n - x)
      BY <1>2, <1>3, <2>1 DEF OpToRel
    <2> QED
      BY <2>1, <2>2
  <1> QED
    BY <1>4 DEF Max

\* A sequence is one of its own elements.
LEMMA SeqOfOwn ==
    ASSUME NEW S, NEW s \in Seq(S)
    PROVE  s \in Seq(ToSet(s))
  <1>1. Len(s) \in Nat /\ s \in [1 .. Len(s) -> S]
    OBVIOUS
  <1>2. s \in [1 .. Len(s) -> ToSet(s)]
    BY <1>1 DEF ToSet
  <1> QED
    BY <1>1, <1>2, SeqDef

\* Appended(s, e, t): t is s with e behind it, position by position.
Appended(s, e, t) ==
    /\ DOMAIN t = 1 .. Len(s) + 1 /\ DOMAIN s = 1 .. Len(s) /\ Len(s) \in Nat
    /\ \A i \in 1 .. Len(s) : t[i] = s[i]
    /\ t[Len(s) + 1] = e

LEMMA AppendAppends ==
    ASSUME NEW s, s \in Seq(ToSet(s)), NEW e
    PROVE  Appended(s, e, Append(s, e)) /\ Append(s, e) \in Seq(ToSet(Append(s, e)))
  <1> DEFINE S == ToSet(s) \cup {e}
             t == Append(s, e)
  <1>1. s \in Seq(S) /\ e \in S
    OBVIOUS
  <1>2. Appended(s, e, t)
    BY <1>1 DEF Appended
  <1>3. t \in Seq(S)
    BY <1>1
  <1>4. t \in Seq(ToSet(t))
    BY <1>3, SeqOfOwn
  <1> QED
    BY <1>2, <1>4

\* TailOf(s, t): t is s without its first element.
TailOf(s, t) ==
    /\ DOMAIN s = 1 .. Len(s) /\ Len(s) \in Nat \ {0} /\ DOMAIN t = 1 .. Len(s) - 1
    /\ \A i \in 1 .. Len(s) - 1 : t[i] = s[i + 1]
    /\ Head(s) = s[1]

LEMMA TailIsTail ==
    ASSUME NEW s, s \in Seq(ToSet(s)), s # <<>>
    PROVE  TailOf(s, Tail(s)) /\ Tail(s) \in Seq(ToSet(Tail(s)))
  <1>1. TailOf(s, Tail(s))
    BY DEF TailOf
  <1>2. Tail(s) \in Seq(ToSet(s))
    OBVIOUS
  <1>3. Tail(s) \in Seq(ToSet(Tail(s)))
    BY <1>2, SeqOfOwn
  <1> QED
    BY <1>1, <1>3

----------------------------------------------------------------------------
\* LoggedIn(f, s, ...): Logged with the file f and the queue s.
LoggedIn(f, s, kind, id, outcome) ==
    \/ \E i \in DOMAIN f : Says(f[i], kind, id, outcome)
    \/ /\ ~EndIn(f)
       /\ \E i \in DOMAIN s : /\ Says(s[i], kind, id, outcome)
                              /\ \A k \in DOMAIN s : s[k].ev = "end" => i < k

\* What is logged stays logged when a record is queued behind it.
LEMMA LoggedAppend ==
    ASSUME NEW f, NEW s, NEW t, NEW e, Appended(s, e, t), NEW kind, NEW id, NEW outcome,
           LoggedIn(f, s, kind, id, outcome)
    PROVE  LoggedIn(f, t, kind, id, outcome)
  <1>1. CASE \E i \in DOMAIN f : Says(f[i], kind, id, outcome)
    BY <1>1 DEF LoggedIn
  <1>2. CASE ~(\E i \in DOMAIN f : Says(f[i], kind, id, outcome))
    <2>1. PICK i \in DOMAIN s : /\ Says(s[i], kind, id, outcome)
                                /\ \A k \in DOMAIN s : s[k].ev = "end" => i < k
      BY <1>2 DEF LoggedIn
    <2>2. i \in DOMAIN t /\ t[i] = s[i] /\ i < Len(s) + 1
      BY <2>1 DEF Appended
    <2>3. \A k \in DOMAIN t : t[k].ev = "end" => i < k
      BY <2>1, <2>2 DEF Appended
    <2> QED
      BY <1>2, <2>1, <2>2, <2>3 DEF LoggedIn
  <1> QED
    BY <1>1, <1>2

\* A record queued before there is an end record is logged.
LEMMA LoggedNew ==
    ASSUME NEW f, NEW s, NEW t, NEW e, Appended(s, e, t), ~EndIn(f), ~EndIn(s), e.ev # "end",
           NEW kind, NEW id, NEW outcome, Says(e, kind, id, outcome)
    PROVE  LoggedIn(f, t, kind, id, outcome)
  <1>1. Len(s) + 1 \in DOMAIN t /\ t[Len(s) + 1] = e
    BY DEF Appended
  <1>2. \A k \in DOMAIN t : t[k].ev # "end"
    BY DEF Appended, EndIn
  <1> QED
    BY <1>1, <1>2 DEF LoggedIn

\* The writer moves the first record to the file, so nothing logged is lost.
LEMMA LoggedDrain ==
    ASSUME NEW f, NEW g, NEW s, NEW t, TailOf(s, t), Appended(f, s[1], g),
           NEW kind, NEW id, NEW outcome, LoggedIn(f, s, kind, id, outcome)
    PROVE  LoggedIn(g, t, kind, id, outcome)
  <1>1. CASE \E i \in DOMAIN f : Says(f[i], kind, id, outcome)
    BY <1>1 DEF LoggedIn, Appended
  <1>2. CASE ~(\E i \in DOMAIN f : Says(f[i], kind, id, outcome))
    <2>1. PICK i \in DOMAIN s : /\ Says(s[i], kind, id, outcome)
                                /\ \A k \in DOMAIN s : s[k].ev = "end" => i < k
      BY <1>2 DEF LoggedIn
    <2>2. CASE i = 1
      <3>1. Len(f) + 1 \in DOMAIN g /\ g[Len(f) + 1] = s[1]
        BY DEF Appended
      <3> QED
        BY <2>1, <2>2, <3>1 DEF LoggedIn
    <2>3. CASE i # 1
      <3>1. i - 1 \in DOMAIN t /\ t[i - 1] = s[i] /\ i \in Nat
        BY <2>1, <2>3 DEF TailOf
      <3>2. 1 \in DOMAIN s /\ s[1].ev # "end"
        BY <2>1, <2>3 DEF TailOf
      <3>3. ~EndIn(f)
        BY <1>2 DEF LoggedIn
      <3>4. ~EndIn(g)
        BY <3>2, <3>3 DEF EndIn, Appended
      <3>5. \A k \in DOMAIN t : t[k].ev = "end" => i - 1 < k
        <4> SUFFICES ASSUME NEW k \in DOMAIN t, t[k].ev = "end" PROVE i - 1 < k
          OBVIOUS
        <4>1. k + 1 \in DOMAIN s /\ s[k + 1] = t[k] /\ k \in Nat
          BY DEF TailOf
        <4>2. i < k + 1
          BY <2>1, <4>1
        <4> QED
          BY <4>1, <4>2, <3>1
      <3> QED
        BY <2>1, <3>1, <3>4, <3>5 DEF LoggedIn
    <2> QED
      BY <2>2, <2>3
  <1> QED
    BY <1>1, <1>2

----------------------------------------------------------------------------
\* EndsHold(s, h): the end records of s have the health h.
EndsHold(s, h) == \A k \in DOMAIN s : s[k].ev = "end" => s[k].health = h

\* LogStable: what was logged before the step is logged after it.
LogStable ==
    \A kind, id, outcome : LoggedIn(file, q, kind, id, outcome) => LoggedIn(file', q', kind, id, outcome)

\* RecordQueued(r): what put_nowait of r does to the queue and the count.
RecordQueued(r) ==
    /\ q' \in Seq(ToSet(q')) /\ dropped' \in Nat /\ dropped' >= dropped
    /\ EndsHold(q', health)
    /\ r.ev # "end" /\ ~EndIn(q) => ~EndIn(q')
    /\ LogStable
    /\ \/ dropped' = dropped + 1
       \/ \A kind, id, outcome :
            (r.ev # "end" /\ ~EndIn(file) /\ ~EndIn(q) /\ Says(r, kind, id, outcome))
               => LoggedIn(file', q', kind, id, outcome)

LEMMA EnqueueQueues ==
    ASSUME q \in Seq(ToSet(q)), dropped \in Nat, EndsHold(q, health), file' = file,
           NEW r, Enqueue(r), r.ev = "end" => r.health = health
    PROVE  RecordQueued(r)
  <1>1. CASE q' = Append(q, r) /\ dropped' = dropped
    <2>1. Appended(q, r, q') /\ q' \in Seq(ToSet(q'))
      <3>1. Appended(q, r, Append(q, r)) /\ Append(q, r) \in Seq(ToSet(Append(q, r)))
        BY AppendAppends
      <3> QED
        BY <1>1, <3>1
    <2>2. EndsHold(q', health)
      BY <2>1 DEF EndsHold, Appended
    <2>3. r.ev # "end" /\ ~EndIn(q) => ~EndIn(q')
      BY <2>1 DEF EndIn, Appended
    <2>4. LogStable
      BY <2>1, LoggedAppend DEF LogStable
    <2>5. ASSUME NEW kind, NEW id, NEW outcome,
                 r.ev # "end", ~EndIn(file), ~EndIn(q), Says(r, kind, id, outcome)
          PROVE  LoggedIn(file', q', kind, id, outcome)
      BY <2>1, <2>5, LoggedNew
    <2> QED
      BY <1>1, <2>1, <2>2, <2>3, <2>4, <2>5 DEF RecordQueued
  <1>2. CASE q' = q /\ dropped' = dropped + 1
    BY <1>2 DEF RecordQueued, LogStable, EndsHold
  <1> QED
    BY <1>1, <1>2 DEF Enqueue

\* The parts of CallsLogged.
DoneLogged ==
    \A i \in DOMAIN done : ~done[i].late => /\ Logged("op_begin", done[i].op_id, None)
                                            /\ Logged("op_end", done[i].op_id, done[i].outcome)
BegunLogged ==
    closer = "no" => \A c \in Callers : call[c].at \in {"perform", "putend"} => Logged("op_begin", call[c].op_id, None)

LEMMA CallsLoggedParts ==
    CallsLogged <=> /\ CapTypeOK
                    /\ EndsHold(q, health) /\ EndsHold(file, health)
                    /\ (errors = 0 /\ DroppedByClose = 0) => BegunLogged /\ DoneLogged
  BY DEF CallsLogged, EndsHold, BegunLogged, DoneLogged

LEMMA CallsLoggedNext ==
    ASSUME CapTypeOK', EndsHold(q', health'), EndsHold(file', health'),
           (errors' = 0 /\ DroppedByClose' = 0) => BegunLogged' /\ DoneLogged'
    PROVE  CallsLogged'
  BY DEF CallsLogged, EndsHold, BegunLogged, DoneLogged

\* A call that returned while the recorder was being closed is late.
LEMMA DoneKept ==
    ASSUME done \in Seq(ToSet(done)), DoneLogged, LogStable, NEW d, done' = Append(done, d),
           ~d.late => /\ LoggedIn(file', q', "op_begin", d.op_id, None)
                      /\ LoggedIn(file', q', "op_end", d.op_id, d.outcome)
    PROVE  DoneLogged'
  <1>1. Appended(done, d, done')
    BY AppendAppends
  <1> SUFFICES ASSUME NEW i \in DOMAIN done', ~done'[i].late
               PROVE  /\ LoggedIn(file', q', "op_begin", done'[i].op_id, None)
                      /\ LoggedIn(file', q', "op_end", done'[i].op_id, done'[i].outcome)
    BY DEF DoneLogged, Logged, LoggedIn
  <1>2. CASE i = Len(done) + 1
    BY <1>1, <1>2 DEF Appended, Logged, LoggedIn
  <1>3. CASE i # Len(done) + 1
    <2>1. i \in DOMAIN done /\ done'[i] = done[i]
      BY <1>1, <1>3 DEF Appended
    <2>2. LoggedIn(file, q, "op_begin", done[i].op_id, None) /\ LoggedIn(file, q, "op_end", done[i].op_id, done[i].outcome)
      BY <2>1 DEF DoneLogged, Logged, LoggedIn
    <2> QED
      BY <2>1, <2>2 DEF LogStable
  <1> QED
    BY <1>2, <1>3

LEMMA DoneSame ==
    ASSUME DoneLogged, LogStable, done' = done
    PROVE  DoneLogged'
  <1> SUFFICES ASSUME NEW i \in DOMAIN done, ~done[i].late
               PROVE  /\ LoggedIn(file', q', "op_begin", done[i].op_id, None)
                      /\ LoggedIn(file', q', "op_end", done[i].op_id, done[i].outcome)
    BY DEF DoneLogged, Logged, LoggedIn
  <1>1. LoggedIn(file, q, "op_begin", done[i].op_id, None) /\ LoggedIn(file, q, "op_end", done[i].op_id, done[i].outcome)
    BY DEF DoneLogged, Logged, LoggedIn
  <1> QED
    BY <1>1 DEF LogStable

\* The begins stay logged when only c's call changes, to one whose begin is.
LEMMA BegunKept ==
    ASSUME BegunLogged, LogStable, closer' = closer, DOMAIN call = Callers,
           NEW c \in Callers, NEW r, call' = [call EXCEPT ![c] = r],
           closer = "no" /\ r.at \in {"perform", "putend"} => LoggedIn(file', q', "op_begin", r.op_id, None)
    PROVE  BegunLogged'
  <1> SUFFICES ASSUME closer = "no", NEW b \in Callers, call'[b].at \in {"perform", "putend"}
               PROVE  LoggedIn(file', q', "op_begin", call'[b].op_id, None)
    BY DEF BegunLogged, Logged, LoggedIn
  <1>1. CASE b = c
    BY <1>1
  <1>2. CASE b # c
    <2>1. call'[b] = call[b]
      BY <1>2
    <2>2. LoggedIn(file, q, "op_begin", call[b].op_id, None)
      BY <2>1 DEF BegunLogged, Logged, LoggedIn
    <2> QED
      BY <2>1, <2>2 DEF LogStable
  <1> QED
    BY <1>1, <1>2

LEMMA BegunSame ==
    ASSUME BegunLogged, LogStable, closer' # "no" \/ closer' = closer, call' = call
    PROVE  BegunLogged'
  <1> SUFFICES ASSUME closer' = "no", NEW b \in Callers, call[b].at \in {"perform", "putend"}
               PROVE  LoggedIn(file', q', "op_begin", call[b].op_id, None)
    BY DEF BegunLogged, Logged, LoggedIn
  <1>1. LoggedIn(file, q, "op_begin", call[b].op_id, None)
    BY DEF BegunLogged, Logged, LoggedIn
  <1> QED
    BY <1>1 DEF LogStable

----------------------------------------------------------------------------
\* The steps, one lemma for the writer, for close() and for each of the
\* callers' steps.
LEMMA CaptureStart == CapInit => CallsLogged
  <1> SUFFICES ASSUME CapInit PROVE CallsLogged
    OBVIOUS
  <1>1. q \in Seq(ToSet(q)) /\ DOMAIN q = 1 .. 2 /\ q[1].ev = "start" /\ q[2].ev = "object_state"
    <2> DEFINE live == SetToSeq({[object_id |-> k, bytes |-> Bytes[k]] : k \in LiveAtStart})
               r1 == [ev |-> "start", producer_seq |-> 1, ts |-> 0]
               r2 == [ev |-> "object_state", producer_seq |-> 2, ts |-> 0, live |-> live]
    <2>1. q = <<r1, r2>>
      BY DEF CapInit
    <2>2. r1.ev = "start" /\ r2.ev = "object_state"
      OBVIOUS
    <2> HIDE DEF r1, r2
    <2>3. q \in Seq({r1, r2}) /\ DOMAIN q = 1 .. 2 /\ q[1] = r1 /\ q[2] = r2
      BY <2>1
    <2>4. q \in Seq(ToSet(q))
      BY <2>3, SeqOfOwn
    <2> QED
      BY <2>2, <2>3, <2>4
  <1>2. <<>> \in Seq(ToSet(<<>>))
    OBVIOUS
  <1>3. \A c \in Callers : call[c].at = "idle"
    BY DEF CapInit, Idle
  <1>4. ~EndIn(q) /\ ~EndIn(file)
    BY <1>1 DEF EndIn, CapInit
  <1>5. CapTypeOK
    BY <1>1, <1>2, <1>4 DEF CapTypeOK, CapInit
  <1>6. EndsHold(q, health) /\ EndsHold(file, health)
    BY <1>4 DEF EndsHold, EndIn
  <1>7. BegunLogged /\ DoneLogged
    BY <1>3 DEF BegunLogged, DoneLogged, CapInit
  <1> QED
    BY <1>5, <1>6, <1>7, CallsLoggedParts

LEMMA DrainKeeps ==
    ASSUME CallsLogged, Drain
    PROVE  CallsLogged'
  <1> USE DEF Drain
  <1>0. /\ CapTypeOK /\ EndsHold(q, health) /\ EndsHold(file, health)
        /\ (errors = 0 /\ DroppedByClose = 0) => BegunLogged /\ DoneLogged
    BY CallsLoggedParts
  <1>1. TailOf(q, q') /\ q' \in Seq(ToSet(q'))
    BY <1>0, TailIsTail DEF CapTypeOK
  <1>2. EndsHold(q', health) /\ (~EndIn(q) => ~EndIn(q'))
    <2>1. \A k \in DOMAIN q' : k + 1 \in DOMAIN q /\ q'[k] = q[k + 1]
      BY <1>1 DEF TailOf
    <2> QED
      BY <1>0, <2>1 DEF EndsHold, EndIn
  <1>3. CASE file' = Append(file, Head(q)) /\ errors' = errors
    <2>1. Appended(file, q[1], file') /\ file' \in Seq(ToSet(file')) /\ 1 \in DOMAIN q
      <3>1. Head(q) = q[1] /\ 1 \in DOMAIN q
        BY <1>1 DEF TailOf
      <3>2. file \in Seq(ToSet(file))
        BY <1>0 DEF CapTypeOK
      <3> QED
        BY <1>3, <3>1, <3>2, AppendAppends
    <2>2. LogStable
      BY <1>1, <2>1, LoggedDrain DEF LogStable
    <2>3. EndsHold(file', health) /\ (~EndIn(q) /\ ~EndIn(file) => ~EndIn(file'))
      BY <1>0, <2>1 DEF EndsHold, EndIn, Appended
    <2>4. CapTypeOK'
      BY <1>0, <1>1, <1>2, <1>3, <2>1, <2>3 DEF CapTypeOK
    <2>5. (errors' = 0 /\ DroppedByClose' = 0) => BegunLogged' /\ DoneLogged'
      <3>1. DroppedByClose' = DroppedByClose
        BY DEF DroppedByClose
      <3> QED
        BY <1>0, <1>3, <3>1, <2>2, DoneSame, BegunSame
    <2>6. EndsHold(q', health') /\ EndsHold(file', health')
      BY <1>2, <2>3
    <2> QED
      BY <2>4, <2>5, <2>6, CallsLoggedNext
  <1>4. CASE errors' = errors + 1 /\ file' = file
    <2>1. CapTypeOK'
      BY <1>0, <1>1, <1>2, <1>4 DEF CapTypeOK
    <2>2. EndsHold(q', health') /\ EndsHold(file', health')
      BY <1>0, <1>2, <1>4
    <2>3. errors' # 0
      BY <1>0, <1>4 DEF CapTypeOK
    <2> QED
      BY <2>1, <2>2, <2>3, CallsLoggedNext
  <1> QED
    BY <1>3, <1>4

LEMMA CloseKeeps ==
    ASSUME CallsLogged, CloseStep
    PROVE  CallsLogged'
  <1>0. /\ CapTypeOK /\ EndsHold(q, health) /\ EndsHold(file, health)
        /\ (errors = 0 /\ DroppedByClose = 0) => BegunLogged /\ DoneLogged
    BY CallsLoggedParts
  <1>1. CASE CloseHealth
    <2> USE <1>1 DEF CloseHealth
    <2>1. LogStable
      BY DEF LogStable
    <2>2. ~EndIn(q) /\ ~EndIn(file)
      BY <1>0 DEF CapTypeOK
    <2>3. EndsHold(q', health') /\ EndsHold(file', health')
      BY <2>2 DEF EndsHold, EndIn
    <2>4. CapTypeOK'
      BY <1>0, <2>2 DEF CapTypeOK
    <2>5. DroppedByClose' = DroppedByClose
      BY DEF DroppedByClose
    <2>6. (errors' = 0 /\ DroppedByClose' = 0) => BegunLogged' /\ DoneLogged'
      BY <1>0, <2>1, <2>5, DoneSame, BegunSame
    <2> QED
      BY <2>3, <2>4, <2>6, CallsLoggedNext
  <1>2. CASE CloseEnd
    <2> USE <1>2 DEF CloseEnd
    <2> DEFINE r == [ev |-> "end", producer_seq |-> seq + 1, ts |-> now, health |-> health]
    <2>1. RecordQueued(r)
      <3>1. r.health = health /\ Enqueue(r) /\ file' = file
        OBVIOUS
      <3>2. q \in Seq(ToSet(q)) /\ dropped \in Nat
        BY <1>0 DEF CapTypeOK
      <3> HIDE DEF r
      <3> QED
        BY <1>0, <3>1, <3>2, EnqueueQueues
    <2>2. LogStable /\ EndsHold(q', health)
      BY <2>1 DEF RecordQueued
    <2>3. EndsHold(q', health') /\ EndsHold(file', health')
      BY <1>0, <2>2
    <2>4. CapTypeOK'
      <3>1. q' \in Seq(ToSet(q')) /\ dropped' \in Nat
        BY <2>1 DEF RecordQueued
      <3> QED
        BY <1>0, <3>1 DEF CapTypeOK
    <2>5. DroppedByClose' = DroppedByClose
      BY DEF DroppedByClose
    <2>6. (errors' = 0 /\ DroppedByClose' = 0) => BegunLogged' /\ DoneLogged'
      BY <1>0, <2>2, <2>5, DoneSame, BegunSame
    <2> QED
      BY <2>3, <2>4, <2>6, CallsLoggedNext
  <1>3. CASE CloseFlag \/ CloseJoin
    <2> USE <1>3 DEF CloseFlag, CloseJoin
    <2>1. LogStable
      BY DEF LogStable
    <2>2. EndsHold(q', health') /\ EndsHold(file', health')
      BY <1>0
    <2>3. CapTypeOK'
      BY <1>0 DEF CapTypeOK
    <2>4. DroppedByClose' = DroppedByClose
      BY DEF DroppedByClose
    <2>5. (errors' = 0 /\ DroppedByClose' = 0) => BegunLogged' /\ DoneLogged'
      BY <1>0, <2>1, <2>4, DoneSame, BegunSame
    <2> QED
      BY <2>2, <2>3, <2>5, CallsLoggedNext
  <1>4. CASE CloseStop
    <2> USE <1>4 DEF CloseStop
    <2>1. Appended(q, Stop, q') /\ q' \in Seq(ToSet(q'))
      BY <1>0, AppendAppends DEF CapTypeOK
    <2>2. LogStable
      BY <2>1, LoggedAppend DEF LogStable
    <2>3. EndsHold(q', health') /\ EndsHold(file', health')
      <3>1. Stop.ev # "end"
        BY DEF Stop
      <3> QED
        BY <1>0, <2>1, <3>1 DEF EndsHold, Appended
    <2>4. CapTypeOK'
      BY <1>0, <2>1 DEF CapTypeOK
    <2>5. DroppedByClose' = DroppedByClose
      BY DEF DroppedByClose
    <2>6. (errors' = 0 /\ DroppedByClose' = 0) => BegunLogged' /\ DoneLogged'
      BY <1>0, <2>2, <2>5, DoneSame, BegunSame
    <2> QED
      BY <2>3, <2>4, <2>6, CallsLoggedNext
  <1> QED
    BY <1>1, <1>2, <1>3, <1>4 DEF CloseStep

\* A step of a caller that queues nothing.
LEMMA QuietCallKeeps ==
    ASSUME CallsLogged, NEW c \in Callers, CheckPresence(c) \/ Begin(c) \/ Perform(c)
    PROVE  CallsLogged'
  <1>0. /\ CapTypeOK /\ EndsHold(q, health) /\ EndsHold(file, health)
        /\ (errors = 0 /\ DroppedByClose = 0) => BegunLogged /\ DoneLogged
    BY CallsLoggedParts
  <1>1. UNCHANGED <<q, file, dropped, errors, closed, closer, health>>
    BY DEF CheckPresence, Begin, Perform
  <1>2. LogStable
    BY <1>1 DEF LogStable
  <1>3. EndsHold(q', health') /\ EndsHold(file', health')
    BY <1>0, <1>1
  <1>4. DroppedByClose' = DroppedByClose
    BY <1>1 DEF DroppedByClose
  <1>5. DOMAIN call = Callers /\ done \in Seq(ToSet(done)) /\ (closer = "no" => ~closed)
    BY <1>0 DEF CapTypeOK
  <1>6. PICK r : /\ call' = [call EXCEPT ![c] = r]
                 /\ closer = "no" /\ r.at \in {"perform", "putend"} =>
                       call[c].at = "perform" /\ r.op_id = call[c].op_id
    <2>1. CASE CheckPresence(c)
      BY <2>1 DEF CheckPresence
    <2>2. CASE Begin(c)
      <3> DEFINE r == Begun(call[c], IF closed THEN "perform" ELSE "put", seq + 1, now,
                            IF last = None THEN <<>> ELSE <<last>>)
      <3>1. call' = [call EXCEPT ![c] = r]
        BY <1>5, <2>2 DEF Begin
      <3>2. r.at = IF closed THEN "perform" ELSE "put"
        BY DEF Begun
      <3> HIDE DEF r
      <3>3. closer = "no" => r.at = "put"
        BY <1>5, <3>2
      <3> QED
        BY <3>1, <3>3
    <2>3. CASE Perform(c)
      BY <1>5, <2>3 DEF Perform, Ending, Idle
    <2> QED
      BY <2>1, <2>2, <2>3
  <1>7. done' = done \/ \E d : done' = Append(done, d) /\ d.late /\ closer # "no"
    <2>1. CASE Perform(c) /\ closed
      <3>1. PICK o : done' = Finished(c, o)
        BY <2>1 DEF Perform
      <3>2. closer # "no"
        BY <1>5, <2>1
      <3> DEFINE d == [op_id |-> call[c].op_id, op |-> call[c].op, key |-> call[c].key,
                       outcome |-> o, late |-> call[c].late \/ closer # "no"]
      <3>3. done' = Append(done, d)
        BY <3>1 DEF Finished
      <3>4. d.late = (call[c].late \/ closer # "no")
        OBVIOUS
      <3> HIDE DEF d
      <3>5. d.late
        BY <3>2, <3>4
      <3> QED
        BY <3>2, <3>3, <3>5
    <2>2. CASE ~(Perform(c) /\ closed)
      BY <2>2 DEF CheckPresence, Begin, Perform
    <2> QED
      BY <2>1, <2>2
  <1>8. done' \in Seq(ToSet(done'))
    BY <1>5, <1>7, AppendAppends
  <1>9. CapTypeOK'
    <2>1. DOMAIN call' = Callers
      BY <1>5, <1>6
    <2> QED
      BY <1>0, <1>1, <1>8, <2>1 DEF CapTypeOK
  <1>10. ASSUME errors' = 0, DroppedByClose' = 0 PROVE BegunLogged' /\ DoneLogged'
    <2>1. BegunLogged /\ DoneLogged
      BY <1>0, <1>1, <1>4, <1>10
    <2>2. closer = "no" /\ r.at \in {"perform", "putend"} => LoggedIn(file', q', "op_begin", r.op_id, None)
      BY <1>1, <1>6, <2>1 DEF BegunLogged, Logged, LoggedIn
    <2>3. BegunLogged'
      BY <1>1, <1>2, <1>5, <1>6, <2>1, <2>2, BegunKept
    <2>4. DoneLogged'
      BY <1>2, <1>5, <1>7, <2>1, DoneSame, DoneKept
    <2> QED
      BY <2>3, <2>4
  <1> QED
    BY <1>3, <1>9, <1>10, CallsLoggedNext

\* A step of a caller that queues a record.
LEMMA PutKeeps ==
    ASSUME CallsLogged, NEW c \in Callers, PutBegin(c) \/ PutEnd(c)
    PROVE  CallsLogged'
  <1>0. /\ CapTypeOK /\ EndsHold(q, health) /\ EndsHold(file, health)
        /\ (errors = 0 /\ DroppedByClose = 0) => BegunLogged /\ DoneLogged
    BY CallsLoggedParts
  <1>1. UNCHANGED <<file, errors, closed, closer, health>>
    BY DEF PutBegin, PutEnd
  <1>2. /\ DOMAIN call = Callers /\ done \in Seq(ToSet(done)) /\ q \in Seq(ToSet(q)) /\ dropped \in Nat
        /\ closer = "no" => ~EndIn(file) /\ ~EndIn(q)
    BY <1>0 DEF CapTypeOK
  <1>3. PICK e : /\ Enqueue(e) /\ e.ev # "end"
                 /\ PutBegin(c) => Says(e, "op_begin", call[c].op_id, None)
                 /\ PutEnd(c) => Says(e, "op_end", call[c].op_id, call[c].outcome)
    <2>1. CASE PutBegin(c)
      <3> DEFINE e == [ev |-> "op_begin", op_id |-> call[c].op_id, producer_seq |-> call[c].op_id,
                       ts |-> call[c].ts, op |-> call[c].op, object_id |-> call[c].key, stream |-> "main",
                       deps |-> call[c].deps,
                       requested_bytes |-> IF call[c].op = "release" THEN 0 ELSE Bytes[call[c].key]]
      <3>1. Enqueue(e)
        BY <2>1 DEF PutBegin
      <3>2. e.ev = "op_begin" /\ e.op_id = call[c].op_id
        OBVIOUS
      <3>3. ~PutEnd(c)
        BY <2>1 DEF PutBegin, PutEnd
      <3> HIDE DEF e
      <3> QED
        BY <3>1, <3>2, <3>3 DEF Says
    <2>2. CASE PutEnd(c)
      <3> DEFINE e == [ev |-> "op_end", op_id |-> call[c].op_id, producer_seq |-> call[c].number,
                       ts |-> call[c].ts, outcome |-> call[c].outcome]
      <3>1. Enqueue(e)
        BY <2>2 DEF PutEnd
      <3>2. e.ev = "op_end" /\ e.op_id = call[c].op_id /\ e.outcome = call[c].outcome
        OBVIOUS
      <3>3. ~PutBegin(c)
        BY <2>2 DEF PutBegin, PutEnd
      <3> HIDE DEF e
      <3> QED
        BY <3>1, <3>2, <3>3 DEF Says
    <2> QED
      BY <2>1, <2>2
  <1>4. RecordQueued(e)
    BY <1>0, <1>1, <1>2, <1>3, EnqueueQueues
  <1>5. LogStable /\ EndsHold(q', health') /\ EndsHold(file', health')
    BY <1>0, <1>1, <1>4 DEF RecordQueued
  <1>6. DroppedByClose' = 0 => /\ DroppedByClose = 0
                               /\ closer = "no" => dropped' # dropped + 1
    BY <1>1, <1>2, <1>4 DEF DroppedByClose, RecordQueued
  <1>7. DroppedByClose' = 0 /\ closer = "no" =>
           \A kind, id, outcome : Says(e, kind, id, outcome) => LoggedIn(file', q', kind, id, outcome)
    BY <1>2, <1>3, <1>4, <1>6 DEF RecordQueued
  <1>8. CASE PutBegin(c)
    <2> DEFINE r == Begun(call[c], "perform", call[c].op_id, call[c].ts, call[c].deps)
    <2>1. call' = [call EXCEPT ![c] = r] /\ done' = done
      BY <1>2, <1>8 DEF PutBegin
    <2>2. r.op_id = call[c].op_id
      BY DEF Begun
    <2> HIDE DEF r
    <2>3. CapTypeOK'
      BY <1>0, <1>1, <1>2, <1>3, <1>4, <2>1 DEF CapTypeOK, RecordQueued
    <2>4. ASSUME errors' = 0, DroppedByClose' = 0 PROVE BegunLogged' /\ DoneLogged'
      <3>1. BegunLogged /\ DoneLogged
        BY <1>0, <1>1, <1>6, <2>4
      <3>2. closer = "no" => LoggedIn(file', q', "op_begin", r.op_id, None)
        BY <1>3, <1>7, <1>8, <2>2, <2>4
      <3>3. BegunLogged'
        BY <1>1, <1>2, <1>5, <2>1, <3>1, <3>2, BegunKept
      <3> QED
        BY <1>5, <2>1, <3>1, <3>3, DoneSame
    <2> QED
      BY <1>5, <2>3, <2>4, CallsLoggedNext
  <1>9. CASE PutEnd(c)
    <2> DEFINE d == [op_id |-> call[c].op_id, op |-> call[c].op, key |-> call[c].key,
                     outcome |-> call[c].outcome, late |-> call[c].late \/ closer # "no"]
    <2>1. call' = [call EXCEPT ![c] = Idle] /\ done' = Append(done, d) /\ call[c].at = "putend"
      BY <1>9 DEF PutEnd, Finished
    <2>2. d.op_id = call[c].op_id /\ d.outcome = call[c].outcome /\ d.late = (call[c].late \/ closer # "no")
      OBVIOUS
    <2> HIDE DEF d
    <2>3. ~d.late => closer = "no"
      BY <2>2
    <2>4. done' \in Seq(ToSet(done'))
      BY <1>2, <2>1, AppendAppends
    <2>5. CapTypeOK'
      BY <1>0, <1>1, <1>2, <1>3, <1>4, <2>1, <2>4 DEF CapTypeOK, RecordQueued
    <2>6. ASSUME errors' = 0, DroppedByClose' = 0 PROVE BegunLogged' /\ DoneLogged'
      <3>1. BegunLogged /\ DoneLogged
        BY <1>0, <1>1, <1>6, <2>6
      <3>2. BegunLogged'
        <4>1. Idle.at \notin {"perform", "putend"}
          BY DEF Idle
        <4> QED
          BY <1>1, <1>2, <1>5, <2>1, <3>1, <4>1, BegunKept
      <3>3. closer = "no" => LoggedIn(file', q', "op_begin", d.op_id, None)
        <4>1. closer = "no" => LoggedIn(file, q, "op_begin", call[c].op_id, None)
          BY <2>1, <3>1 DEF BegunLogged, Logged, LoggedIn
        <4> QED
          BY <1>5, <2>2, <4>1 DEF LogStable
      <3>4. closer = "no" => LoggedIn(file', q', "op_end", d.op_id, d.outcome)
        BY <1>3, <1>7, <1>9, <2>2, <2>6
      <3>5. DoneLogged'
        BY <1>2, <1>5, <2>1, <2>3, <3>1, <3>3, <3>4, DoneKept
      <3> QED
        BY <3>2, <3>5
    <2> QED
      BY <1>5, <2>5, <2>6, CallsLoggedNext
  <1> QED
    BY <1>8, <1>9

\* An end record in the file that tells of no drop: what was logged is in
\* the file.
LEMMA CompleteFile ==
    ASSUME CallsLogged
    PROVE  CompleteMeansAll
  <1> SUFFICES ASSUME errors = 0, Notes(file) = {}, NEW d \in ToSet(done), ~d.late
               PROVE  \E i, j \in DOMAIN file :
                        /\ file[i].ev = "op_begin" /\ file[i].op_id = d.op_id
                        /\ file[j].ev = "op_end" /\ file[j].op_id = d.op_id /\ file[j].outcome = d.outcome
    BY DEF CompleteMeansAll
  <1>0. /\ CapTypeOK /\ EndsHold(file, health)
        /\ (errors = 0 /\ DroppedByClose = 0) => DoneLogged
    BY CallsLoggedParts
  <1>1. EndIn(file) /\ ~(Health(file).dropped > 0)
    BY DEF Notes
  <1>2. Health(file) = health
    <2> DEFINE S == {k \in DOMAIN file : file[k].ev = "end"}
    <2>1. S # {} /\ Len(file) \in Nat /\ S \in SUBSET (1 .. Len(file))
      BY <1>0, <1>1 DEF EndIn, CapTypeOK
    <2>2. Max(S) \in S
      BY <2>1, LastPosition
    <2>3. Health(file) = file[Max(S)].health
      BY <1>1 DEF Health
    <2> QED
      BY <1>0, <2>2, <2>3 DEF EndsHold
  <1>3. DroppedByClose = 0
    <2>1. closer # "no" /\ health.dropped \in Nat
      BY <1>0, <1>1 DEF CapTypeOK
    <2> QED
      BY <1>1, <1>2, <2>1 DEF DroppedByClose
  <1>4. PICK n \in DOMAIN done : done[n] = d
    BY DEF ToSet
  <1>5. Logged("op_begin", d.op_id, None) /\ Logged("op_end", d.op_id, d.outcome)
    BY <1>0, <1>3, <1>4 DEF DoneLogged
  <1> QED
    BY <1>1, <1>5 DEF Logged, Says

\* Every step keeps what close() and the callers have logged.
LEMMA CaptureStep == CallsLogged /\ [CapNext]_capVars => CallsLogged'
  <1> SUFFICES ASSUME CallsLogged, [CapNext]_capVars PROVE CallsLogged'
    OBVIOUS
  <1>1. CASE Drain
    BY <1>1, DrainKeeps
  <1>2. CASE CloseStep
    BY <1>2, CloseKeeps
  <1>3. ASSUME NEW c \in Callers, CallStep(c) PROVE CallsLogged'
    BY <1>3, QuietCallKeeps, PutKeeps DEF CallStep
  <1>4. CASE UNCHANGED capVars
    BY <1>4 DEF capVars, CallsLogged, CapTypeOK, Logged, DroppedByClose
  <1> QED
    BY <1>1, <1>2, <1>3, <1>4 DEF CapNext

\* For any callers, keys and capacity of the queue: a capture that normalizes
\* as complete has the begin and the end, with its outcome, of every call that
\* returned before close(), although close() takes the health, queues the end
\* record and sets _closed in separate steps and callers go on between them.
THEOREM CaptureFaithful == CapSpec => []CaptureIsFaithful
  <1>1. CallsLogged => CaptureIsFaithful
    BY CompleteFile DEF CaptureIsFaithful
  <1> QED
    BY <1>1, CaptureStart, CaptureStep, PTL DEF CapSpec

----------------------------------------------------------------------------
(* Plans: agent_trace.py and the workloads of workload.py.                 *)

----------------------------------------------------------------------------
(* The plans of agent traces.                                              *)

\* A sequence without repetitions has as many elements as positions.
LEMMA InjectiveCount ==
    ASSUME NEW S, NEW s \in Seq(S), IsInjective(s)
    PROVE  IsFiniteSet(ToSet(s)) /\ Cardinality(ToSet(s)) = Len(s)
<1>1. Len(s) \in Nat /\ DOMAIN s = 1 .. Len(s) OBVIOUS
<1>2. PICK n \in Nat : n = Len(s) BY <1>1
<1>3. s \in [1 .. n -> ToSet(s)] BY <1>1, <1>2 DEF ToSet
<1>4. s \in Bijection(1 .. n, ToSet(s)) BY <1>1, <1>2, <1>3 DEF Bijection, Injection, Surjection, IsInjective, ToSet
<1>5. ExistsBijection(1 .. n, ToSet(s)) BY <1>4 DEF ExistsBijection
<1>6. IsFiniteSet(1 .. n) /\ Cardinality(1 .. n) = n BY FS_Interval
<1> QED BY <1>2, <1>5, <1>6, FS_Bijection

LEMMA AppendKey ==
    ASSUME NEW S, NEW s \in Seq(S), NEW e \in S
    PROVE  /\ Append(s, e) \in Seq(S) /\ Len(Append(s, e)) = Len(s) + 1
           /\ ToSet(Append(s, e)) = ToSet(s) \cup {e}
           /\ IsInjective(s) /\ e \notin ToSet(s) => IsInjective(Append(s, e))
<1>1. PICK n \in Nat : n = Len(s) OBVIOUS
<1>2. PICK t : t = Append(s, e) OBVIOUS
<1>3. t \in Seq(S) /\ Len(t) = n + 1 /\ DOMAIN t = 1 .. n + 1 /\ DOMAIN s = 1 .. n BY <1>1, <1>2
<1>4. (\A i \in 1 .. n : t[i] = s[i]) /\ t[n + 1] = e BY <1>1, <1>2
<1>5. \A i : i \in 1 .. n + 1 <=> i \in 1 .. n \/ i = n + 1 BY <1>1
<1>6. ToSet(t) = ToSet(s) \cup {e} BY <1>3, <1>4, <1>5 DEF ToSet
<1>7. ASSUME IsInjective(s), e \notin ToSet(s) PROVE IsInjective(t)
  BY <1>3, <1>4, <1>5, <1>7 DEF IsInjective, ToSet
<1> QED BY <1>1, <1>2, <1>3, <1>6, <1>7

LEMMA TailKeys ==
    ASSUME NEW S, NEW s \in Seq(S), s # <<>>
    PROVE  /\ Tail(s) \in Seq(S) /\ Len(Tail(s)) = Len(s) - 1 /\ Head(s) \in ToSet(s) /\ Head(s) \in S
           /\ ToSet(Tail(s)) \subseteq ToSet(s)
           /\ IsInjective(s) => IsInjective(Tail(s)) /\ ToSet(Tail(s)) = ToSet(s) \ {Head(s)}
<1>1. PICK n \in Nat : n = Len(s) OBVIOUS
<1>2. n # 0 BY <1>1
<1>3. PICK t : t = Tail(s) OBVIOUS
<1>4. t \in Seq(S) /\ Len(t) = n - 1 /\ DOMAIN t = 1 .. n - 1 /\ DOMAIN s = 1 .. n BY <1>1, <1>2, <1>3
<1>5. (\A i \in 1 .. n - 1 : t[i] = s[i + 1]) /\ Head(s) = s[1] /\ Head(s) \in S BY <1>1, <1>2, <1>3
<1>6. 1 \in 1 .. n /\ \A i \in 1 .. n - 1 : i + 1 \in 1 .. n /\ i + 1 # 1 BY <1>2
<1>7. \A i \in 1 .. n : i = 1 \/ (i - 1 \in 1 .. n - 1 /\ i - 1 + 1 = i) BY <1>2
<1>8. ToSet(t) \subseteq ToSet(s) /\ Head(s) \in ToSet(s) BY <1>4, <1>5, <1>6 DEF ToSet
<1>9. ASSUME IsInjective(s) PROVE IsInjective(t) /\ ToSet(t) = ToSet(s) \ {Head(s)}
  <2>1. IsInjective(t)
    <3>1. SUFFICES ASSUME NEW a \in 1 .. n - 1, NEW b \in 1 .. n - 1, t[a] = t[b] PROVE a = b BY <1>4 DEF IsInjective
    <3>2. s[a + 1] = s[b + 1] /\ a + 1 \in DOMAIN s /\ b + 1 \in DOMAIN s BY <1>4, <1>5, <1>6, <3>1
    <3>3. a + 1 = b + 1 BY <1>9, <3>2 DEF IsInjective
    <3> QED BY <3>3
  <2>2. Head(s) \notin ToSet(t)
    <3>1. SUFFICES ASSUME NEW a \in 1 .. n - 1, t[a] = s[1] PROVE FALSE BY <1>4, <1>5 DEF ToSet
    <3>2. s[a + 1] = s[1] BY <1>5, <3>1
    <3>3. a + 1 \in DOMAIN s /\ 1 \in DOMAIN s /\ a + 1 # 1 BY <1>4, <1>6
    <3> QED BY <1>9, <3>2, <3>3 DEF IsInjective
  <2>3. ASSUME NEW x \in ToSet(s), x # Head(s) PROVE x \in ToSet(t)
    <3>1. PICK i \in 1 .. n : x = s[i] BY <1>4 DEF ToSet
    <3>2. i - 1 \in 1 .. n - 1 /\ t[i - 1] = s[i - 1 + 1] BY <1>5, <1>7, <2>3, <3>1
    <3> QED BY <1>4, <1>7, <3>1, <3>2 DEF ToSet
  <2> QED BY <1>8, <2>1, <2>2, <2>3
<1> QED BY <1>1, <1>3, <1>4, <1>5, <1>8, <1>9

\* To move a key to the end changes the order and nothing else.
LEMMA MovedToEnd ==
    ASSUME NEW S, NEW s \in Seq(S), IsInjective(s), NEW e \in ToSet(s)
    PROVE  /\ MoveToEnd(s, e) \in Seq(S) /\ Len(MoveToEnd(s, e)) = Len(s)
           /\ ToSet(MoveToEnd(s, e)) = ToSet(s) /\ IsInjective(MoveToEnd(s, e))
<1>1. PICK n \in Nat : n = Len(s) OBVIOUS
<1>2. DOMAIN s = 1 .. n /\ \A i \in 1 .. n : s[i] \in S BY <1>1
<1>3. \E i \in 1 .. n : s[i] = e BY <1>2 DEF ToSet
<1>4. PICK k \in 1 .. n : k = (CHOOSE i \in 1 .. Len(s) : s[i] = e) /\ s[k] = e BY <1>1, <1>3
<1>5. PICK t : t = RemoveAt(s, k) OBVIOUS
<1>6. t \in Seq(S) /\ Len(t) = n - 1 /\ \A j \in 1 .. n - 1 : t[j] = IF j < k THEN s[j] ELSE s[j + 1]
  <2>1. PICK u : u = SubSeq(s, 1, k - 1) OBVIOUS
  <2>2. PICK v : v = SubSeq(s, k + 1, n) OBVIOUS
  <2>3. u \in Seq(S) /\ Len(u) = k - 1 /\ \A j \in 1 .. k - 1 : u[j] = s[j]
    <3>1. 1 \in Int /\ k - 1 \in Int /\ \A j \in 1 .. k - 1 : j \in 1 .. n OBVIOUS
    <3> QED BY <1>1, <1>2, <2>1, <3>1
  <2>4. v \in Seq(S) /\ Len(v) = n - k /\ \A j \in 1 .. n - k : v[j] = s[k + j]
    <3>1. \A j \in k + 1 .. n : j \in 1 .. n OBVIOUS
    <3>2. v = [j \in 1 .. n - k |-> s[k + j]] BY <1>1, <2>2
    <3>3. v \in [1 .. n - k -> S] BY <1>2, <3>2
    <3>4. n - k \in Nat OBVIOUS
    <3>5. PICK m \in Nat : m = n - k BY <3>4
    <3>6. v \in Seq(S) /\ Len(v) = m BY <3>3, <3>5, SeqDef
    <3> QED BY <3>2, <3>5, <3>6
  <2>5. t = u \o v BY <1>1, <1>5, <2>1, <2>2 DEF RemoveAt
  <2>6. t \in Seq(S) /\ Len(t) = n - 1
    <3>1. u \o v \in Seq(S) /\ Len(u \o v) = Len(u) + Len(v) BY <2>3, <2>4
    <3> QED BY <2>3, <2>4, <2>5, <3>1
  <2>7. ASSUME NEW j \in 1 .. n - 1 PROVE t[j] = IF j < k THEN s[j] ELSE s[j + 1]
    <3>1. CASE j < k BY <2>3, <2>4, <2>5, <3>1
    <3>2. CASE ~(j < k)
      <4>1. j - (k - 1) \in 1 .. n - k /\ k + (j - (k - 1)) = j + 1 BY <3>2
      <4>2. t[j] = v[j - (k - 1)] BY <2>3, <2>4, <2>5, <3>2
      <4> QED BY <2>4, <3>2, <4>1, <4>2
    <3> QED BY <3>1, <3>2
  <2> QED BY <2>6, <2>7
<1>7. DOMAIN t = 1 .. n - 1 BY <1>6
<1>8. \A j \in 1 .. n - 1 : j \in 1 .. n /\ j + 1 \in 1 .. n OBVIOUS
<1>9. ToSet(t) = ToSet(s) \ {e}
  <2>1. ASSUME NEW j \in 1 .. n - 1 PROVE t[j] \in ToSet(s) \ {e}
    <3>1. CASE j < k
      <4>1. s[j] # s[k] BY <1>2, <1>8, <3>1 DEF IsInjective
      <4> QED BY <1>2, <1>4, <1>6, <1>8, <3>1, <4>1 DEF ToSet
    <3>2. CASE ~(j < k)
      <4>1. s[j + 1] # s[k] BY <1>2, <1>8, <3>2 DEF IsInjective
      <4> QED BY <1>2, <1>4, <1>6, <1>8, <3>2, <4>1 DEF ToSet
    <3> QED BY <3>1, <3>2
  <2>2. ASSUME NEW x \in ToSet(s), x # e PROVE x \in ToSet(t)
    <3>1. PICK i \in 1 .. n : x = s[i] /\ i # k BY <1>2, <1>4, <2>2 DEF ToSet
    <3>2. CASE i < k
      <4>1. i \in 1 .. n - 1 /\ t[i] = s[i] BY <1>6, <3>2
      <4> QED BY <1>7, <3>1, <4>1 DEF ToSet
    <3>3. CASE ~(i < k)
      <4>1. i - 1 \in 1 .. n - 1 /\ ~(i - 1 < k) /\ i - 1 + 1 = i BY <3>1, <3>3
      <4>2. t[i - 1] = s[i] BY <1>6, <4>1
      <4> QED BY <1>7, <3>1, <4>1, <4>2 DEF ToSet
    <3> QED BY <3>2, <3>3
  <2> QED BY <1>7, <2>1, <2>2 DEF ToSet
<1>10. IsInjective(t)
  <2>1. SUFFICES ASSUME NEW a \in 1 .. n - 1, NEW b \in 1 .. n - 1, t[a] = t[b] PROVE a = b BY <1>7 DEF IsInjective
  <2> DEFINE P(j) == IF j < k THEN j ELSE j + 1
  <2>2. P(a) \in 1 .. n /\ P(b) \in 1 .. n /\ t[a] = s[P(a)] /\ t[b] = s[P(b)] BY <1>6, <1>8
  <2>3. P(a) = P(b) BY <1>2, <2>1, <2>2 DEF IsInjective
  <2> QED BY <2>3
<1>11. e \in S BY <1>2, <1>4
<1>12. MoveToEnd(s, e) = Append(t, e) BY <1>4, <1>5 DEF MoveToEnd
<1>13. /\ Append(t, e) \in Seq(S) /\ Len(Append(t, e)) = Len(t) + 1 /\ ToSet(Append(t, e)) = ToSet(t) \cup {e}
       /\ IsInjective(Append(t, e))
  BY <1>6, <1>9, <1>10, <1>11, AppendKey
<1> QED BY <1>1, <1>6, <1>9, <1>12, <1>13

LEMMA NoKeys == ToSet(<<>>) = {} /\ IsInjective(<<>>)
BY DEF ToSet, IsInjective

LEMMA Holds ==
    ASSUME NEW S, NEW s \in Seq(S), NEW e
    PROVE  Contains(s, e) <=> e \in ToSet(s)
BY DEF Contains, ToSet

LEMMA SourceFields ==
    ASSUME source \in Sources
    PROVE  /\ source.format \in {"lmcache-agent", "tracelab", "synthetic"}
           /\ source.format = "lmcache-agent" => source.policy \in {"prefix", "substring"} /\ source.capacity \in Nat
BY PlanAssumption DEF Sources

\* The keys of a prompt and of a round are keys.
LEMMA PromptKeys ==
    ASSUME NEW tokens \in Prompts, NEW policy \in {"prefix", "substring"}
    PROVE  ChunkKeys(tokens, policy) \in Seq(PlanKeys)
<1>1. PICK s : s = ChunkKeys(tokens, policy) OBVIOUS
<1>2. PICK n \in Nat : n = Len(tokens) \div ChunkTokens BY PlanAssumption
<1>3. DOMAIN s = 1 .. n /\ s = [i \in 1 .. n |-> s[i]] BY <1>1, <1>2 DEF ChunkKeys
<1>4. ToSet(s) \subseteq PlanKeys
  <2>1. ToSet(s) \subseteq AgentKeys BY <1>1 DEF AgentKeys
  <2> QED BY <2>1 DEF PlanKeys
<1>5. \A i \in 1 .. n : s[i] \in PlanKeys BY <1>3, <1>4 DEF ToSet
<1>6. s \in [1 .. n -> PlanKeys] BY <1>3, <1>5
<1> QED BY <1>1, <1>6, SeqDef

LEMMA RoundKeys ==
    ASSUME NEW round \in Rounds, round.prefix <= round.total
    PROVE  /\ [i \in 1 .. round.total \div ChunkTokens |-> <<round.session, i>>] \in Seq(PlanKeys)
           /\ {<<round.session, i>> : i \in 1 .. round.prefix \div ChunkTokens} \subseteq PlanKeys
<1>1. PICK n \in Nat : n = round.total \div ChunkTokens BY PlanAssumption
<1>2. PICK m \in Nat : m = round.prefix \div ChunkTokens BY PlanAssumption
<1>3. m <= n
  <2>1. PICK c \in Nat \ {0}, a \in Nat, b \in Nat : c = ChunkTokens /\ a = round.prefix /\ b = round.total /\ a <= b BY PlanAssumption
  <2>2. a \div c <= b \div c BY <2>1
  <2> QED BY <1>1, <1>2, <2>1, <2>2
<1>4. ASSUME NEW i \in 1 .. n PROVE <<round.session, i>> \in PlanKeys
  <2>1. <<round.session, i>> \in LabKeys(round) BY <1>1 DEF LabKeys
  <2>2. LabKeys(round) \subseteq PlanKeys BY DEF PlanKeys
  <2> QED BY <2>1, <2>2
<1>5. [i \in 1 .. n |-> <<round.session, i>>] \in [1 .. n -> PlanKeys] BY <1>4
<1>6. [i \in 1 .. n |-> <<round.session, i>>] \in Seq(PlanKeys) BY <1>5, SeqDef
<1>7. \A i \in 1 .. m : i \in 1 .. n BY <1>3
<1> QED BY <1>1, <1>2, <1>4, <1>6, <1>7

LEMMA PlanStart == PlanInit => PlanRuns
<1> SUFFICES ASSUME PlanInit PROVE PlanRuns OBVIOUS
<1>1. /\ source \in Sources /\ highest = 0 /\ resident = <<>> /\ stored = {} /\ warm = {} /\ run = [ok |-> TRUE, peak |-> 0]
      /\ compiling = [busy |-> FALSE, keys |-> <<>>, hits |-> {}, misses |-> <<>>]
      /\ served = [store |-> 0, load |-> 0, storeFails |-> 0, loadFails |-> 0, asked |-> 0]
  BY DEF PlanInit, NoRequest
<1>2. <<>> \in Seq(PlanKeys) /\ <<>> \in Seq(Nat) /\ Len(<<>>) = 0 OBVIOUS
<1>3. PlanTypeOK BY <1>1, <1>2 DEF PlanTypeOK
<1>4. RequestHolds BY <1>1, <1>2, NoKeys DEF RequestHolds, Larger
<1>5. PlanHolds
  <2>1. 0 * Ranks = 0 /\ Slots \in Nat BY PlanAssumption
  <2>2. source.format = "lmcache-agent" => source.capacity \in Nat BY <1>1, SourceFields
  <2> QED BY <1>1, <1>2, <2>1, <2>2, NoKeys DEF PlanHolds
<1>6. ServedAddsUp
  <2>1. 0 * Ranks = 0 BY PlanAssumption
  <2>2. <<>> = [i \in 1 .. 0 |-> i] OBVIOUS
  <2>3. Objects({}) = {} BY DEF Objects
  <2>4. served.store = 0 /\ served.storeFails = 0 /\ served.loadFails = 0 /\ served.load = 0 /\ served.asked = 0 BY <1>1
  <2>5. Cardinality(stored) = 0 /\ Len(resident) = 0 BY <1>1, <1>2, FS_EmptySet
  <2>6. Len(resident) * Ranks = 0 BY <2>1, <2>5
  <2>7. resident = [i \in 1 .. Len(resident) |-> i] BY <1>1, <2>2, <2>5
  <2>8. stored = {} /\ Objects(ToSet(resident)) = {} BY <1>1, <2>3, NoKeys
  <2> QED BY <2>4, <2>5, <2>6, <2>7, <2>8 DEF ServedAddsUp, ExitStatus
<1> QED BY <1>3, <1>4, <1>5, <1>6 DEF PlanRuns

\* What PlanRuns says of a plan.
LEMMA PlanParts ==
    ASSUME PlanRuns, source.format # "synthetic"
    PROVE  /\ source \in Sources /\ highest \in Nat /\ resident \in Seq(PlanKeys) /\ Len(resident) \in Nat
           /\ compiling \in [busy : BOOLEAN, keys : Seq(PlanKeys), hits : SUBSET PlanKeys, misses : Seq(PlanKeys)]
           /\ run \in [ok : BOOLEAN, peak : Nat]
           /\ served \in [store : Nat, load : Nat, storeFails : Nat, loadFails : Nat, asked : Nat]
           /\ RequestHolds /\ PlanHolds
           /\ IsFiniteSet(stored) /\ Cardinality(stored) = Len(resident)
<1>1. /\ source \in Sources /\ highest \in Nat /\ resident \in Seq(PlanKeys)
      /\ compiling \in [busy : BOOLEAN, keys : Seq(PlanKeys), hits : SUBSET PlanKeys, misses : Seq(PlanKeys)]
      /\ run \in [ok : BOOLEAN, peak : Nat]
      /\ served \in [store : Nat, load : Nat, storeFails : Nat, loadFails : Nat, asked : Nat]
      /\ RequestHolds /\ PlanHolds
  BY DEF PlanRuns, PlanTypeOK
<1>2. stored = ToSet(resident) /\ IsInjective(resident) BY <1>1 DEF PlanHolds
<1>3. IsFiniteSet(stored) /\ Cardinality(stored) = Len(resident) BY <1>1, <1>2, InjectiveCount
<1>4. Len(resident) \in Nat BY <1>1
<1> QED BY <1>1, <1>3, <1>4

\* A request arrives: its hits are resident, or reported.
LEMMA RequestKeeps ==
    ASSUME PlanRuns,
           (\E tokens \in Prompts : AgentRequest(tokens)) \/ (\E round \in Rounds : TraceLabRound(round))
    PROVE  PlanRuns'
<1>1. /\ source.format \in {"lmcache-agent", "tracelab"} /\ UNCHANGED <<source, resident, warm, highest, stored, run, served>>
      /\ ~compiling.busy
  BY DEF AgentRequest, TraceLabRound, NextRequest
<1>2. /\ source \in Sources /\ highest \in Nat /\ resident \in Seq(PlanKeys)
      /\ run \in [ok : BOOLEAN, peak : Nat]
      /\ served \in [store : Nat, load : Nat, storeFails : Nat, loadFails : Nat, asked : Nat]
      /\ RequestHolds /\ PlanHolds
  BY <1>1, PlanParts
<1>3. PICK keys \in Seq(PlanKeys), hits \in SUBSET PlanKeys :
        /\ compiling' = [busy |-> TRUE, keys |-> keys, hits |-> hits, misses |-> <<>>]
        /\ source.format = "lmcache-agent" => hits = ToSet(resident)
  <2>1. ASSUME NEW tokens \in Prompts, AgentRequest(tokens)
        PROVE  \E keys \in Seq(PlanKeys), hits \in SUBSET PlanKeys :
                  /\ compiling' = [busy |-> TRUE, keys |-> keys, hits |-> hits, misses |-> <<>>]
                  /\ source.format = "lmcache-agent" => hits = ToSet(resident)
    <3>1. source.policy \in {"prefix", "substring"} BY <1>2, <2>1, SourceFields DEF AgentRequest, NextRequest
    <3>2. ChunkKeys(tokens, source.policy) \in Seq(PlanKeys) BY <3>1, PromptKeys
    <3>3. ToSet(resident) \subseteq PlanKeys BY <1>2 DEF ToSet
    <3> QED BY <2>1, <3>2, <3>3 DEF AgentRequest
  <2>2. ASSUME NEW round \in Rounds, TraceLabRound(round)
        PROVE  \E keys \in Seq(PlanKeys), hits \in SUBSET PlanKeys :
                  /\ compiling' = [busy |-> TRUE, keys |-> keys, hits |-> hits, misses |-> <<>>]
                  /\ source.format = "lmcache-agent" => hits = ToSet(resident)
    <3>1. round.prefix <= round.total /\ source.format = "tracelab" BY <2>2 DEF TraceLabRound, NextRequest
    <3>2. compiling' = [busy |-> TRUE, keys |-> [i \in 1 .. round.total \div ChunkTokens |-> <<round.session, i>>],
                        hits |-> {<<round.session, i>> : i \in 1 .. round.prefix \div ChunkTokens}, misses |-> <<>>]
      BY <2>2 DEF TraceLabRound
    <3> QED BY <3>1, <3>2, RoundKeys
  <2> QED BY <2>1, <2>2
<1>4. <<>> \in Seq(PlanKeys) OBVIOUS
<1>5. /\ compiling'.busy /\ compiling'.keys = keys /\ compiling'.hits = hits /\ compiling'.misses = <<>>
      /\ compiling' \in [busy : BOOLEAN, keys : Seq(PlanKeys), hits : SUBSET PlanKeys, misses : Seq(PlanKeys)]
  BY <1>3, <1>4
<1>6. PlanTypeOK' BY <1>1, <1>2, <1>5 DEF PlanTypeOK
<1>7. RequestHolds' BY <1>1, <1>2, <1>3, <1>5, NoKeys DEF RequestHolds, Larger
<1>8. PlanHolds' BY <1>1, <1>2, <1>5 DEF PlanHolds
<1> QED BY <1>1, <1>6, <1>7, <1>8 DEF PlanRuns

\* A key of a prompt: what is resident moves and nothing is lost; a miss is
\* not resident.
LEMMA AgentKeyKeeps ==
    ASSUME PlanRuns, AgentKey
    PROVE  PlanRuns'
<1>1. /\ source.format = "lmcache-agent" /\ compiling.busy /\ compiling.keys # <<>>
      /\ UNCHANGED <<source, highest, served>>
  BY DEF AgentKey, Compile
<1>2. /\ source \in Sources /\ highest \in Nat /\ resident \in Seq(PlanKeys) /\ Len(resident) \in Nat
      /\ compiling \in [busy : BOOLEAN, keys : Seq(PlanKeys), hits : SUBSET PlanKeys, misses : Seq(PlanKeys)]
      /\ run \in [ok : BOOLEAN, peak : Nat]
      /\ served \in [store : Nat, load : Nat, storeFails : Nat, loadFails : Nat, asked : Nat]
      /\ RequestHolds /\ PlanHolds
      /\ Cardinality(stored) = Len(resident)
  BY <1>1, PlanParts
<1>3. PICK key : key = Head(compiling.keys) OBVIOUS
<1>4. PICK keys \in Seq(PlanKeys), hits \in SUBSET PlanKeys, misses \in Seq(PlanKeys) :
        /\ keys = compiling.keys /\ hits = compiling.hits /\ misses = compiling.misses
  BY <1>2
<1>5. key \in PlanKeys /\ Tail(keys) \in Seq(PlanKeys) BY <1>1, <1>3, <1>4, TailKeys
<1>6. /\ hits = ToSet(resident) /\ stored = ToSet(resident) /\ IsInjective(resident)
      /\ IsInjective(misses) /\ ToSet(misses) \cap ToSet(resident) = {}
      /\ run.ok /\ run.peak <= Larger(highest, Len(resident))
  BY <1>1, <1>2, <1>4 DEF RequestHolds, PlanHolds
<1>7. PICK misses2 : misses2 = IF key \notin hits /\ key \notin ToSet(misses) THEN Append(misses, key) ELSE misses OBVIOUS
<1>8. compiling' = [compiling EXCEPT !.keys = Tail(@), !.misses = misses2]
  BY <1>3, <1>4, <1>7, Holds DEF AgentKey
<1>9. /\ misses2 \in Seq(PlanKeys) /\ IsInjective(misses2) /\ ToSet(misses2) \cap ToSet(resident) = {}
  <2>1. CASE key \notin hits /\ key \notin ToSet(misses) BY <1>5, <1>6, <1>7, <2>1, AppendKey
  <2>2. CASE ~(key \notin hits /\ key \notin ToSet(misses)) BY <1>6, <1>7, <2>2
  <2> QED BY <2>1, <2>2
<1>10. /\ compiling' \in [busy : BOOLEAN, keys : Seq(PlanKeys), hits : SUBSET PlanKeys, misses : Seq(PlanKeys)]
       /\ compiling'.busy /\ compiling'.hits = hits /\ compiling'.misses = misses2
  BY <1>1, <1>2, <1>4, <1>5, <1>8, <1>9
<1>11. /\ resident' \in Seq(PlanKeys) /\ Len(resident') = Len(resident) /\ ToSet(resident') = ToSet(resident) /\ IsInjective(resident')
       /\ stored' = stored /\ run' \in [ok : BOOLEAN, peak : Nat] /\ run'.ok /\ run'.peak <= Larger(highest, Len(resident))
  <2>1. CASE key \in hits
    <3>1. resident' = MoveToEnd(resident, key) /\ RunLoad(stored, key) BY <1>3, <1>4, <2>1 DEF AgentKey
    <3>2. stored' = stored /\ run' = [ok |-> run.ok /\ key \in stored, peak |-> Larger(run.peak, Len(resident))]
      BY <1>2, <3>1 DEF RunLoad
    <3>3. Larger(run.peak, Len(resident)) \in Nat /\ Larger(run.peak, Len(resident)) <= Larger(highest, Len(resident))
      BY <1>2, <1>6 DEF Larger
    <3>4. run' \in [ok : BOOLEAN, peak : Nat] /\ run'.ok /\ run'.peak <= Larger(highest, Len(resident)) BY <1>6, <2>1, <3>2, <3>3
    <3>5. key \in ToSet(resident) BY <1>6, <2>1
    <3> QED BY <1>2, <1>6, <3>1, <3>2, <3>4, <3>5, MovedToEnd
  <2>2. CASE key \notin hits
    <3>1. UNCHANGED <<resident, stored, run>> BY <1>3, <1>4, <2>2 DEF AgentKey
    <3> QED BY <1>2, <1>6, <3>1
  <2> QED BY <2>1, <2>2
<1>12. PlanTypeOK' BY <1>1, <1>2, <1>10, <1>11 DEF PlanTypeOK
<1>13. RequestHolds' BY <1>1, <1>6, <1>9, <1>10, <1>11 DEF RequestHolds
<1>14. PlanHolds' BY <1>1, <1>2, <1>6, <1>10, <1>11 DEF PlanHolds
<1> QED BY <1>1, <1>12, <1>13, <1>14 DEF PlanRuns

\* A miss is inserted: what is evicted for it is in the engine, and the cache
\* grows or stays as large.
LEMMA AgentInsertKeeps ==
    ASSUME PlanRuns, AgentInsert
    PROVE  PlanRuns'
<1>1. /\ source.format = "lmcache-agent" /\ compiling.busy /\ compiling.keys = <<>> /\ compiling.misses # <<>>
      /\ UNCHANGED <<source, highest, served>> /\ Insert(Head(compiling.misses))
      /\ compiling' = [compiling EXCEPT !.misses = Tail(@)]
  BY DEF AgentInsert, Compile
<1>2. /\ source \in Sources /\ highest \in Nat /\ resident \in Seq(PlanKeys) /\ Len(resident) \in Nat
      /\ compiling \in [busy : BOOLEAN, keys : Seq(PlanKeys), hits : SUBSET PlanKeys, misses : Seq(PlanKeys)]
      /\ run \in [ok : BOOLEAN, peak : Nat]
      /\ served \in [store : Nat, load : Nat, storeFails : Nat, loadFails : Nat, asked : Nat]
      /\ RequestHolds /\ PlanHolds
  BY <1>1, PlanParts
<1>3. PICK misses \in Seq(PlanKeys) : misses = compiling.misses BY <1>2
<1>4. PICK key : key = Head(misses) OBVIOUS
<1>5. /\ stored = ToSet(resident) /\ IsInjective(resident)
      /\ IsInjective(misses) /\ ToSet(misses) \cap ToSet(resident) = {}
      /\ run.ok /\ run.peak <= Larger(highest, Len(resident))
      /\ source.capacity # 0 => Len(resident) <= source.capacity
  BY <1>1, <1>2, <1>3 DEF RequestHolds, PlanHolds
<1>6. /\ key \in PlanKeys /\ key \notin ToSet(resident) /\ Tail(misses) \in Seq(PlanKeys) /\ IsInjective(Tail(misses))
      /\ ToSet(Tail(misses)) = ToSet(misses) \ {key}
  BY <1>1, <1>3, <1>4, <1>5, TailKeys
<1>7. source.capacity \in Nat BY <1>1, <1>2, SourceFields
<1>8. PICK full \in BOOLEAN : full <=> (source.capacity # 0 /\ Len(resident) >= source.capacity) OBVIOUS
<1>9. PICK kept, evicted : kept = (IF full THEN Tail(resident) ELSE resident) /\ evicted = (IF full THEN {Head(resident)} ELSE {}) OBVIOUS
<1>10. resident' = Append(kept, key) /\ RunStore(evicted, key) BY <1>1, <1>3, <1>4, <1>8, <1>9 DEF Insert
<1>11. /\ kept \in Seq(PlanKeys) /\ IsInjective(kept) /\ ToSet(kept) = ToSet(resident) \ evicted /\ evicted \subseteq ToSet(resident)
       /\ Len(kept) = IF full THEN Len(resident) - 1 ELSE Len(resident)
  <2>1. CASE full
    <3>0. Len(resident) > 0 BY <1>2, <1>7, <1>8, <2>1
    <3>1. resident # <<>> BY <3>0
    <3> QED BY <1>2, <1>5, <1>9, <2>1, <3>1, TailKeys
  <2>2. CASE ~full BY <1>2, <1>5, <1>9, <2>2
  <2> QED BY <2>1, <2>2
<1>12. key \notin ToSet(kept) BY <1>6, <1>11
<1>13. /\ resident' \in Seq(PlanKeys) /\ Len(resident') = Len(kept) + 1 /\ ToSet(resident') = ToSet(kept) \cup {key} /\ IsInjective(resident')
  BY <1>6, <1>10, <1>11, <1>12, AppendKey
<1>14. stored' = (stored \ evicted) \cup {key} /\ run' = [ok |-> run.ok /\ evicted \subseteq stored, peak |-> Larger(run.peak, Cardinality(stored'))]
  BY <1>10 DEF RunStore
<1>15. stored' = ToSet(resident') BY <1>5, <1>11, <1>13, <1>14
<1>16. PICK s : s = resident' OBVIOUS
<1>17. Cardinality(ToSet(s)) = Len(s) BY <1>13, <1>16, InjectiveCount
<1>18. Cardinality(stored') = Len(resident') /\ Len(resident') \in Nat
  <2>1. stored' = ToSet(s) BY <1>15, <1>16
  <2>2. Cardinality(stored') = Cardinality(ToSet(s)) BY <2>1
  <2> QED BY <1>13, <1>16, <1>17, <2>2
<1>19. Len(resident') >= Len(resident) /\ (source.capacity # 0 => Len(resident') <= source.capacity)
  BY <1>2, <1>5, <1>7, <1>8, <1>11, <1>13
<1>20. /\ run' = [ok |-> run.ok /\ evicted \subseteq stored, peak |-> Larger(run.peak, Len(resident'))]
       /\ Larger(run.peak, Len(resident')) \in Nat /\ Larger(run.peak, Len(resident')) <= Larger(highest, Len(resident'))
  <2>1. PICK n \in Nat : n = Len(resident') BY <1>18
  <2>2. run.peak \in Nat BY <1>2
  <2>3. Larger(run.peak, n) \in Nat /\ Larger(run.peak, n) <= Larger(highest, n) BY <1>2, <1>5, <1>19, <2>1, <2>2 DEF Larger
  <2> QED BY <1>14, <1>18, <2>1, <2>3
<1>21. run' \in [ok : BOOLEAN, peak : Nat] /\ run'.ok /\ run'.peak <= Larger(highest, Len(resident')) BY <1>5, <1>11, <1>20
<1>22. /\ compiling' \in [busy : BOOLEAN, keys : Seq(PlanKeys), hits : SUBSET PlanKeys, misses : Seq(PlanKeys)]
       /\ compiling'.busy /\ compiling'.keys = <<>> /\ compiling'.misses = Tail(misses)
  BY <1>1, <1>2, <1>3, <1>6
<1>23. ToSet(Tail(misses)) \cap ToSet(resident') = {} BY <1>5, <1>6, <1>11, <1>13
<1>24. PlanTypeOK' BY <1>1, <1>2, <1>13, <1>21, <1>22 DEF PlanTypeOK
<1>25. RequestHolds' BY <1>1, <1>6, <1>21, <1>22, <1>23 DEF RequestHolds
<1>26. PlanHolds' BY <1>1, <1>13, <1>15, <1>19, <1>21, <1>22 DEF PlanHolds
<1> QED BY <1>1, <1>24, <1>25, <1>26 DEF PlanRuns

\* The end of a request: the peak counts from here.
LEMMA RequestEndKeeps ==
    ASSUME PlanRuns, AgentRequestEnds \/ TraceLabRoundEnds
    PROVE  PlanRuns'
<1>1. /\ source.format \in {"lmcache-agent", "tracelab"} /\ UNCHANGED <<source, resident, warm, stored, run, served>>
      /\ compiling' = [busy |-> FALSE, keys |-> <<>>, hits |-> {}, misses |-> <<>>]
      /\ highest' = Larger(highest, Len(resident)) \/ (source.format = "tracelab" /\ highest' = Len(resident))
  BY DEF AgentRequestEnds, TraceLabRoundEnds, Compile, NoRequest
<1>2. /\ source \in Sources /\ highest \in Nat /\ resident \in Seq(PlanKeys) /\ Len(resident) \in Nat
      /\ run \in [ok : BOOLEAN, peak : Nat]
      /\ served \in [store : Nat, load : Nat, storeFails : Nat, loadFails : Nat, asked : Nat]
      /\ RequestHolds /\ PlanHolds
  BY <1>1, PlanParts
<1>3. run.peak \in Nat /\ run.peak <= Larger(highest, Len(resident)) /\ (source.format = "tracelab" => highest <= Len(resident))
  BY <1>2 DEF RequestHolds
<1>4. highest' \in Nat /\ run.peak <= highest' /\ (source.format = "tracelab" => highest' <= Len(resident))
  BY <1>1, <1>2, <1>3 DEF Larger
<1>5. <<>> \in Seq(PlanKeys) /\ compiling'.keys = <<>> /\ compiling'.misses = <<>> /\ ~compiling'.busy BY <1>1
<1>6. compiling' \in [busy : BOOLEAN, keys : Seq(PlanKeys), hits : SUBSET PlanKeys, misses : Seq(PlanKeys)] BY <1>1, <1>5
<1>7. ~Refused(highest)' => run.peak * Ranks <= Slots
  <2>1. PICK p \in Nat, h \in Nat, r \in Nat, m \in Nat : p = run.peak /\ h = highest' /\ r = Ranks /\ m = Slots /\ p <= h
    BY <1>3, <1>4, PlanAssumption
  <2>2. p * r <= h * r BY <2>1
  <2>3. p * r \in Nat /\ h * r \in Nat OBVIOUS
  <2>4. ~(h * r > m) => p * r <= m BY <2>2, <2>3
  <2> QED BY <2>1, <2>4 DEF Refused
<1>8. PlanTypeOK' BY <1>1, <1>2, <1>4, <1>6 DEF PlanTypeOK
<1>9. RequestHolds'
  <2>1. run.peak <= Larger(highest', Len(resident)) BY <1>2, <1>3, <1>4 DEF Larger
  <2> QED BY <1>1, <1>2, <1>4, <1>5, <2>1, NoKeys DEF RequestHolds
<1>10. PlanHolds' BY <1>1, <1>2, <1>4, <1>7 DEF PlanHolds
<1> QED BY <1>1, <1>8, <1>9, <1>10 DEF PlanRuns

\* A key of a round: it is known afterwards, and in the engine.
LEMMA TraceLabKeyKeeps ==
    ASSUME PlanRuns, TraceLabKey
    PROVE  PlanRuns'
<1>1. /\ source.format = "tracelab" /\ compiling.busy /\ compiling.keys # <<>>
      /\ UNCHANGED <<source, highest, served>> /\ compiling' = [compiling EXCEPT !.keys = Tail(@)]
  BY DEF TraceLabKey, Compile
<1>2. /\ source \in Sources /\ highest \in Nat /\ resident \in Seq(PlanKeys) /\ Len(resident) \in Nat
      /\ compiling \in [busy : BOOLEAN, keys : Seq(PlanKeys), hits : SUBSET PlanKeys, misses : Seq(PlanKeys)]
      /\ run \in [ok : BOOLEAN, peak : Nat]
      /\ served \in [store : Nat, load : Nat, storeFails : Nat, loadFails : Nat, asked : Nat]
      /\ RequestHolds /\ PlanHolds
  BY <1>1, PlanParts
<1>3a. PICK key : key = Head(compiling.keys) OBVIOUS
<1>3b. PICK hit \in BOOLEAN : hit <=> key \in compiling.hits OBVIOUS
<1>3c. PICK new \in BOOLEAN : new <=> key \notin ToSet(resident) OBVIOUS
<1>3. key = Head(compiling.keys) /\ (hit <=> key \in compiling.hits) /\ (new <=> key \notin ToSet(resident)) /\ hit \in BOOLEAN /\ new \in BOOLEAN
  BY <1>3a, <1>3b, <1>3c
<1>4. PICK keys \in Seq(PlanKeys) : keys = compiling.keys BY <1>2
<1>5. key \in PlanKeys /\ Tail(keys) \in Seq(PlanKeys) BY <1>1, <1>3, <1>4, TailKeys
<1>6. /\ stored = ToSet(resident) /\ IsInjective(resident) /\ warm \subseteq stored /\ compiling.misses = <<>>
      /\ run.ok /\ run.peak \in Nat /\ run.peak <= Larger(highest, Len(resident)) /\ highest <= Len(resident)
  BY <1>1, <1>2 DEF RequestHolds, PlanHolds
<1>7. /\ resident' = (IF new THEN Append(resident, key) ELSE resident)
      /\ warm' = (IF hit /\ new THEN warm \cup {key} ELSE warm)
      /\ IF hit THEN RunLoad(stored \cup warm', key) ELSE IF new THEN RunStore({}, key) ELSE UNCHANGED <<stored, run>>
  BY <1>2, <1>3, Holds DEF TraceLabKey
<1>8. /\ resident' \in Seq(PlanKeys) /\ Len(resident') \in Nat /\ Len(resident') >= Len(resident)
      /\ ToSet(resident') = ToSet(resident) \cup {key} /\ IsInjective(resident')
  <2>1. CASE new
    <3>1. resident' = Append(resident, key) /\ key \notin ToSet(resident) BY <1>3, <1>7, <2>1
    <3>2. PICK r \in Seq(PlanKeys) : r = resident BY <1>2
    <3>3. IsInjective(r) /\ key \notin ToSet(r) BY <1>6, <3>1, <3>2
    <3>4. /\ Append(r, key) \in Seq(PlanKeys) /\ Len(Append(r, key)) = Len(r) + 1
          /\ ToSet(Append(r, key)) = ToSet(r) \cup {key} /\ IsInjective(Append(r, key))
      BY <1>5, <3>2, <3>3, AppendKey
    <3> QED BY <1>2, <3>1, <3>2, <3>4
  <2>2. CASE ~new BY <1>2, <1>3, <1>6, <1>7, <2>2
  <2> QED BY <2>1, <2>2
<1>9. PICK s : s = resident' OBVIOUS
<1>10. IsFiniteSet(ToSet(s)) /\ Cardinality(ToSet(s)) = Len(s) BY <1>8, <1>9, InjectiveCount
<1>11. PICK n \in Nat : n = Len(resident') BY <1>8
<1>12. stored' = ToSet(s)
  <2>1. CASE hit BY <1>3, <1>6, <1>7, <1>8, <1>9, <2>1 DEF RunLoad
  <2>2. CASE ~hit /\ new BY <1>6, <1>7, <1>8, <1>9, <2>2 DEF RunStore
  <2>3. CASE ~hit /\ ~new BY <1>3, <1>6, <1>7, <1>8, <1>9, <2>3
  <2> QED BY <1>3, <2>1, <2>2, <2>3
<1>13. warm' \subseteq stored'
  BY <1>3, <1>6, <1>7, <1>8, <1>9, <1>12
<1>14. Larger(run.peak, n) \in Nat /\ Larger(run.peak, n) <= Larger(highest, n) /\ run.peak <= Larger(highest, n) /\ highest <= n
  BY <1>2, <1>6, <1>8, <1>11 DEF Larger
<1>15. run' \in [ok : BOOLEAN, peak : Nat] /\ run'.ok /\ run'.peak <= Larger(highest, n)
  <2>1. Cardinality(stored') = n
    <3>1. Cardinality(stored') = Cardinality(ToSet(s)) BY <1>12
    <3> QED BY <1>9, <1>10, <1>11, <3>1
  <2>2. CASE hit
    <3>1. stored' = stored \cup warm' /\ run' = [ok |-> run.ok /\ key \in stored', peak |-> Larger(run.peak, Cardinality(stored'))]
      BY <1>7, <2>2 DEF RunLoad
    <3>2. key \in stored' BY <1>8, <1>9, <1>12
    <3> QED BY <1>6, <1>14, <2>1, <3>1, <3>2
  <2>3. CASE ~hit /\ new
    <3>1. run' = [ok |-> run.ok /\ {} \subseteq stored, peak |-> Larger(run.peak, Cardinality(stored'))] BY <1>7, <2>3 DEF RunStore
    <3> QED BY <1>6, <1>14, <2>1, <3>1
  <2>4. CASE ~hit /\ ~new BY <1>2, <1>6, <1>7, <1>14, <2>4
  <2> QED BY <1>3, <2>2, <2>3, <2>4
<1>16. /\ compiling' \in [busy : BOOLEAN, keys : Seq(PlanKeys), hits : SUBSET PlanKeys, misses : Seq(PlanKeys)]
       /\ compiling'.busy /\ compiling'.misses = <<>>
  BY <1>1, <1>2, <1>4, <1>5, <1>6
<1>17. PlanTypeOK' BY <1>1, <1>2, <1>8, <1>15, <1>16 DEF PlanTypeOK
<1>18. RequestHolds' BY <1>1, <1>11, <1>13, <1>14, <1>15, <1>16, NoKeys DEF RequestHolds
<1>19. PlanHolds' BY <1>1, <1>8, <1>9, <1>12, <1>15, <1>16 DEF PlanHolds
<1> QED BY <1>1, <1>17, <1>18, <1>19 DEF PlanRuns

\* The pool of a synthetic run, and the objects of a set of chunks.
LEMMA PoolIs ==
    ASSUME PlanRuns, source.format = "synthetic"
    PROVE  /\ Len(resident) \in Nat /\ ToSet(resident) = 1 .. Len(resident)
           /\ IsFiniteSet(stored) /\ Cardinality(stored) \in Nat /\ ServedAddsUp
           /\ served \in [store : Nat, load : Nat, storeFails : Nat, loadFails : Nat, asked : Nat]
<1>1. /\ resident \in Seq(Nat) /\ ServedAddsUp
      /\ served \in [store : Nat, load : Nat, storeFails : Nat, loadFails : Nat, asked : Nat]
  BY DEF PlanRuns, PlanTypeOK
<1>2. PICK n \in Nat : n = Len(resident) BY <1>1
<1>3. resident = [i \in 1 .. n |-> i] BY <1>1, <1>2 DEF ServedAddsUp
<1>4. ToSet(resident) = 1 .. n BY <1>3 DEF ToSet
<1>5. stored \subseteq (1 .. n) \X (1 .. Ranks) BY <1>1, <1>4 DEF ServedAddsUp, Objects
<1>6. IsFiniteSet((1 .. n) \X (1 .. Ranks))
  <2>1. IsFiniteSet(1 .. n) BY FS_Interval
  <2>2. IsFiniteSet(1 .. Ranks) BY FS_Interval, PlanAssumption
  <2> QED BY <2>1, <2>2, FS_Product
<1>7. IsFiniteSet(stored) BY <1>5, <1>6, FS_Subset
<1> QED BY <1>1, <1>2, <1>4, <1>7, FS_CardinalityType

\* The exit status is 0 if nothing failed.
LEMMA StatusIsZero ==
    ASSUME served \in [store : Nat, load : Nat, storeFails : Nat, loadFails : Nat, asked : Nat]
    PROVE  ExitStatus = 0 <=> served.storeFails = 0 /\ served.loadFails = 0
<1>1. served.storeFails \in Nat /\ served.loadFails \in Nat OBVIOUS
<1> QED BY <1>1 DEF ExitStatus

LEMMA StatusIsZeroNext ==
    ASSUME served' \in [store : Nat, load : Nat, storeFails : Nat, loadFails : Nat, asked : Nat]
    PROVE  ExitStatus' = 0 <=> served'.storeFails = 0 /\ served'.loadFails = 0
<1>1. served'.storeFails \in Nat /\ served'.loadFails \in Nat OBVIOUS
<1> QED BY <1>1 DEF ExitStatus

\* A hit changes only the counts of loads, and they still add up.
LEMMA ServeHitKeeps ==
    ASSUME PlanRuns, NEW n \in Nat, NEW picks \in [1 .. n -> ToSet(resident)], NEW failed \in Nat, ServeHit(picks, failed)
    PROVE  PlanRuns'
<1> DEFINE loads == (1 .. n) \X (1 .. Ranks)
<1>1. /\ source.format = "synthetic" /\ UNCHANGED <<source, resident, highest, compiling, stored, run>>
      /\ failed <= Cardinality(Held(picks))
      /\ served' = [served EXCEPT !.load = @ + (Cardinality(Held(picks)) - failed),
                                  !.loadFails = @ + Len(picks) * Ranks - (Cardinality(Held(picks)) - failed),
                                  !.asked = @ + Len(picks) * Ranks]
  BY DEF ServeHit
<1>2. /\ Len(resident) \in Nat /\ ToSet(resident) = 1 .. Len(resident) /\ ServedAddsUp
      /\ served \in [store : Nat, load : Nat, storeFails : Nat, loadFails : Nat, asked : Nat]
  BY <1>1, PoolIs
<1>3. Ranks \in Nat \ {0} BY PlanAssumption
<1>4. IsFiniteSet(loads) /\ Cardinality(loads) = n * Ranks
  <2>1. PICK u : u = 1 .. n OBVIOUS
  <2>2. PICK v : v = 1 .. Ranks OBVIOUS
  <2>3. IsFiniteSet(u) /\ Cardinality(u) = n BY <2>1, FS_Interval
  <2>4. IsFiniteSet(v) /\ Cardinality(v) = Ranks BY <1>3, <2>2, FS_Interval
  <2>5. IsFiniteSet(u \X v) /\ Cardinality(u \X v) = n * Ranks BY <2>3, <2>4, FS_Product
  <2> QED BY <2>1, <2>2, <2>5
<1>5. Held(picks) \subseteq loads BY DEF Held
<1>6. Cardinality(Held(picks)) \in Nat /\ Cardinality(Held(picks)) <= n * Ranks
  BY <1>4, <1>5, FS_Subset, FS_CardinalityType
<1>7. picks \in Seq(ToSet(resident)) /\ Len(picks) = n BY SeqDef
<1>8. PICK asked \in Nat : asked = n * Ranks BY <1>3
<1>9. PICK loaded \in Nat : loaded = Cardinality(Held(picks)) - failed /\ loaded <= asked BY <1>1, <1>6, <1>8
<1>10. served' = [served EXCEPT !.load = @ + loaded, !.loadFails = @ + asked - loaded, !.asked = @ + asked]
  BY <1>1, <1>7, <1>8, <1>9
<1> HIDE DEF loads
<1>11. /\ served' \in [store : Nat, load : Nat, storeFails : Nat, loadFails : Nat, asked : Nat]
       /\ served'.store = served.store /\ served'.storeFails = served.storeFails
       /\ served'.load = served.load + loaded /\ served'.loadFails = served.loadFails + asked - loaded
       /\ served'.asked = served.asked + asked
  <2>1. PICK r \in [store : Nat, load : Nat, storeFails : Nat, loadFails : Nat, asked : Nat] : r = served BY <1>2
  <2>2. PICK l \in Nat : l = r.load + loaded OBVIOUS
  <2>3. PICK x \in Nat : x = r.loadFails + asked - loaded BY <1>9
  <2>4. PICK t \in Nat : t = r.asked + asked OBVIOUS
  <2>5. served' = [r EXCEPT !.load = l, !.loadFails = x, !.asked = t] BY <1>10, <2>1, <2>2, <2>3, <2>4
  <2>6. served' = [store |-> r.store, load |-> l, storeFails |-> r.storeFails, loadFails |-> x, asked |-> t] BY <2>5
  <2> QED BY <2>1, <2>2, <2>3, <2>4, <2>6
<1>12. PICK a \in Nat, x \in Nat, l \in Nat, f \in Nat :
          a = served.asked /\ x = served.loadFails /\ l = served.load /\ f = served.storeFails
  BY <1>2
<1>13. l + x = a /\ served'.load = l + loaded /\ served'.loadFails = x + asked - loaded /\ served'.asked = a + asked
  BY <1>2, <1>11, <1>12 DEF ServedAddsUp
<1>14. served'.load + served'.loadFails = served'.asked BY <1>13
<1>15. served'.loadFails = 0 => x = 0 /\ loaded = asked BY <1>9, <1>13
<1>16. ExitStatus' = 0 => ExitStatus = 0 /\ served'.load = served'.asked
  <2>1. ExitStatus = 0 <=> served.storeFails = 0 /\ served.loadFails = 0 BY <1>2, StatusIsZero
  <2>2. ExitStatus' = 0 <=> served'.storeFails = 0 /\ served'.loadFails = 0 BY <1>11, StatusIsZeroNext
  <2>3. served'.loadFails = 0 => served'.load = served'.asked BY <1>13, <1>15
  <2> QED BY <1>11, <1>12, <1>15, <2>1, <2>2, <2>3
<1>17. /\ served.store = Cardinality(stored) /\ served.store + served.storeFails = Len(resident) * Ranks
       /\ (ExitStatus = 0 => stored = Objects(ToSet(resident)))
       /\ resident = [i \in 1 .. Len(resident) |-> i] /\ stored \subseteq Objects(ToSet(resident))
  BY <1>2 DEF ServedAddsUp
<1>18. ServedAddsUp' BY <1>1, <1>11, <1>14, <1>16, <1>17 DEF ServedAddsUp, Objects
<1>19. PlanTypeOK' BY <1>1, <1>11 DEF PlanRuns, PlanTypeOK
<1> QED BY <1>1, <1>18, <1>19 DEF PlanRuns

\* New chunks take new places of the pool; every object is stored or failed.
LEMMA ServeMissKeeps ==
    ASSUME PlanRuns, NEW n \in Nat \ {0}, NEW failed \in SUBSET Objects(Len(resident) + 1 .. Len(resident) + n), ServeMiss(n, failed)
    PROVE  PlanRuns'
<1>1. /\ source.format = "synthetic" /\ UNCHANGED <<source, highest, compiling, run>>
      /\ stored' = stored \cup (Objects(Len(resident) + 1 .. Len(resident) + n) \ failed)
      /\ resident' = resident \o [i \in 1 .. n |-> Len(resident) + i]
      /\ served' = [served EXCEPT !.store = @ + n * Ranks - Cardinality(failed), !.storeFails = @ + Cardinality(failed)]
  BY DEF ServeMiss
<1>2. /\ Len(resident) \in Nat /\ ToSet(resident) = 1 .. Len(resident) /\ ServedAddsUp
      /\ IsFiniteSet(stored) /\ Cardinality(stored) \in Nat
      /\ served \in [store : Nat, load : Nat, storeFails : Nat, loadFails : Nat, asked : Nat]
  BY <1>1, PoolIs
<1>3. PICK m \in Nat : m = Len(resident) BY <1>2
<1>4. PICK new : new = m + 1 .. m + n OBVIOUS
<1>5. PICK objects : objects = new \X (1 .. Ranks) OBVIOUS
<1>6. objects = Objects(Len(resident) + 1 .. Len(resident) + n) /\ failed \subseteq objects BY <1>3, <1>4, <1>5 DEF Objects
<1>7. Ranks \in Nat \ {0} BY PlanAssumption
<1>8. IsFiniteSet(objects) /\ Cardinality(objects) = n * Ranks
  <2>1. IsFiniteSet(new) /\ Cardinality(new) = n BY <1>4, FS_Interval
  <2>2. IsFiniteSet(1 .. Ranks) /\ Cardinality(1 .. Ranks) = Ranks BY <1>7, FS_Interval
  <2> QED BY <1>5, <2>1, <2>2, FS_Product
<1>9. IsFiniteSet(failed) /\ Cardinality(failed) \in Nat /\ (failed = {} <=> Cardinality(failed) = 0)
  BY <1>6, <1>8, FS_Subset, FS_CardinalityType, FS_EmptySet
<1>10. IsFiniteSet(objects \ failed) /\ Cardinality(objects \ failed) = n * Ranks - Cardinality(failed)
  <2>1. objects \cap failed = failed BY <1>6
  <2>2. /\ IsFiniteSet(objects \ failed)
        /\ Cardinality(objects \ failed) = Cardinality(objects) - Cardinality(objects \cap failed)
    BY <1>8, FS_Difference
  <2>3. Cardinality(objects \cap failed) = Cardinality(failed) BY <2>1
  <2> QED BY <1>8, <2>2, <2>3
<1>11. resident' = [i \in 1 .. m + n |-> i] /\ Len(resident') = m + n /\ resident' \in Seq(Nat)
  <2>1. PICK t : t = [i \in 1 .. n |-> m + i] OBVIOUS
  <2>2. t \in [1 .. n -> Nat] BY <2>1
  <2>3. t \in Seq(Nat) /\ Len(t) = n BY <2>2, SeqDef
  <2>4. resident \in Seq(Nat) /\ resident = [i \in 1 .. m |-> i] BY <1>1, <1>2, <1>3 DEF PlanRuns, PlanTypeOK, ServedAddsUp
  <2>5. resident' = resident \o t BY <1>1, <1>3, <2>1
  <2>6. resident' \in Seq(Nat) /\ Len(resident') = m + n BY <1>3, <2>3, <2>4, <2>5
  <2>7. ASSUME NEW i \in 1 .. m + n PROVE resident'[i] = i
    <3>1. CASE i <= m BY <1>3, <2>3, <2>4, <2>5, <3>1
    <3>2. CASE i > m
      <4>1. i - m \in 1 .. n BY <3>2
      <4>2. resident'[i] = t[i - m] BY <1>3, <2>3, <2>4, <2>5, <3>2
      <4> QED BY <2>1, <4>1, <4>2
    <3> QED BY <3>1, <3>2
  <2>8. DOMAIN resident' = 1 .. m + n BY <2>6
  <2> QED BY <2>6, <2>7, <2>8
<1>12. ToSet(resident') = 1 .. m + n BY <1>11 DEF ToSet
<1>13. 1 .. m + n = (1 .. m) \cup new /\ (1 .. m) \cap new = {} BY <1>4
<1>14. Objects(ToSet(resident')) = Objects(ToSet(resident)) \cup objects BY <1>2, <1>3, <1>5, <1>12, <1>13 DEF Objects
<1>15. stored \subseteq (1 .. m) \X (1 .. Ranks) BY <1>2, <1>3 DEF ServedAddsUp, Objects
<1>16. stored \cap (objects \ failed) = {} BY <1>5, <1>13, <1>15
<1>17. stored' = stored \cup (objects \ failed) BY <1>1, <1>6
<1>18. Cardinality(stored') = Cardinality(stored) + n * Ranks - Cardinality(failed)
  <2>1. PICK o : o = objects \ failed OBVIOUS
  <2>2. Cardinality(stored \cup o) = Cardinality(stored) + Cardinality(o) - Cardinality(stored \cap o) BY <1>2, <1>10, <2>1, FS_Union
  <2>3. Cardinality(stored \cap o) = 0 BY <1>16, <2>1, FS_EmptySet
  <2>4. Cardinality(stored') = Cardinality(stored \cup o) BY <1>17, <2>1
  <2>5. PICK k \in Nat : k = n * Ranks BY <1>7
  <2>6. Cardinality(o) = k - Cardinality(failed) BY <1>10, <2>1, <2>5
  <2> QED BY <1>2, <1>9, <2>2, <2>3, <2>4, <2>5, <2>6
<1>19. PICK k \in Nat, f \in Nat, all \in Nat :
         k = n * Ranks /\ f = Cardinality(failed) /\ all = m * Ranks /\ (m + n) * Ranks = all + k
  <2>1. PICK r \in Nat : r = Ranks BY <1>7
  <2>2. n * r \in Nat /\ m * r \in Nat /\ (m + n) * r = m * r + n * r OBVIOUS
  <2> QED BY <1>9, <2>1, <2>2
<1>20. /\ served.store = Cardinality(stored) /\ served.store + served.storeFails = all /\ served.storeFails \in Nat /\ served.store \in Nat
       /\ served.load + served.loadFails = served.asked /\ served.loadFails \in Nat
       /\ (ExitStatus = 0 => stored = Objects(ToSet(resident)) /\ served.load = served.asked)
  BY <1>2, <1>3, <1>19 DEF ServedAddsUp
<1>21. f <= k
  <2>1. Cardinality(failed) <= Cardinality(objects) BY <1>6, <1>8, FS_Subset
  <2> QED BY <1>8, <1>19, <2>1
<1>22. f = 0 => failed = {} BY <1>9, <1>19
<1>23. served' = [served EXCEPT !.store = @ + k - f, !.storeFails = @ + f] BY <1>1, <1>19
<1>24. served.store + k - f \in Nat BY <1>20, <1>21
<1>25. /\ served' \in [store : Nat, load : Nat, storeFails : Nat, loadFails : Nat, asked : Nat]
       /\ served'.store = served.store + k - f /\ served'.storeFails = served.storeFails + f /\ served'.loadFails = served.loadFails
       /\ served'.load = served.load /\ served'.asked = served.asked
  <2>1. PICK r \in [store : Nat, load : Nat, storeFails : Nat, loadFails : Nat, asked : Nat] : r = served BY <1>2
  <2>2. PICK a \in Nat : a = r.store + k - f BY <1>24, <2>1
  <2>3. PICK x \in Nat : x = r.storeFails + f OBVIOUS
  <2>5. served' = [r EXCEPT !.store = a, !.storeFails = x] BY <1>23, <2>1, <2>2, <2>3
  <2>6. served' = [store |-> a, load |-> r.load, storeFails |-> x, loadFails |-> r.loadFails, asked |-> r.asked] BY <2>5
  <2> QED BY <2>1, <2>2, <2>3, <2>6
<1>26. served'.store = Cardinality(stored') BY <1>18, <1>19, <1>20, <1>25
<1>27. served'.store + served'.storeFails = Len(resident') * Ranks
  <2>1. PICK a \in Nat, b \in Nat : a = served.store /\ b = served.storeFails BY <1>20
  <2>2. a + b = all BY <1>20, <2>1
  <2>3. (a + k - f) + (b + f) = all + k BY <2>2
  <2>4. served'.store = a + k - f /\ served'.storeFails = b + f BY <1>25, <2>1
  <2>5. Len(resident') * Ranks = all + k BY <1>11, <1>19
  <2> QED BY <2>3, <2>4, <2>5
<1>28. ExitStatus' = 0 => ExitStatus = 0 /\ f = 0
  <2>1. ExitStatus = 0 <=> served.storeFails = 0 /\ served.loadFails = 0 BY <1>2, StatusIsZero
  <2>2. ExitStatus' = 0 <=> served'.storeFails = 0 /\ served'.loadFails = 0 BY <1>25, StatusIsZeroNext
  <2>3. PICK x \in Nat : x = served.storeFails BY <1>20
  <2>4. x + f = 0 => x = 0 /\ f = 0 BY <2>3
  <2> QED BY <1>25, <2>1, <2>2, <2>3, <2>4
<1>29. ExitStatus' = 0 => stored' = Objects(ToSet(resident')) /\ served'.load = served'.asked
  BY <1>14, <1>17, <1>20, <1>22, <1>25, <1>28
<1>30. stored' \subseteq Objects(ToSet(resident')) BY <1>2, <1>14, <1>17 DEF ServedAddsUp
<1>31. Objects(ToSet(resident')) = Objects(ToSet(resident))' BY DEF Objects
<1>32. ServedAddsUp' BY <1>11, <1>20, <1>25, <1>26, <1>27, <1>28, <1>29, <1>30, <1>31 DEF ServedAddsUp
<1>33. PlanTypeOK' BY <1>1, <1>11, <1>25 DEF PlanRuns, PlanTypeOK
<1> QED BY <1>1, <1>32, <1>33 DEF PlanRuns

LEMMA PlanStep == PlanRuns /\ [PlanNext]_planVars => PlanRuns'
<1> SUFFICES ASSUME PlanRuns, [PlanNext]_planVars PROVE PlanRuns' OBVIOUS
<1>1. CASE UNCHANGED planVars
  BY <1>1 DEF planVars, PlanRuns, PlanTypeOK, ServedAddsUp, ExitStatus, Objects, RequestHolds, PlanHolds, Refused
<1>2. ASSUME NEW n \in 1 .. MaxServed, NEW picks \in [1 .. n -> ToSet(resident)], NEW failed \in 0 .. n * Ranks, ServeHit(picks, failed)
      PROVE  PlanRuns'
  BY <1>2, ServeHitKeeps
<1>3. ASSUME NEW n \in 1 .. MaxServed, NEW failed \in SUBSET Objects(Len(resident) + 1 .. Len(resident) + n), ServeMiss(n, failed)
      PROVE  PlanRuns'
  <2>1. n \in Nat \ {0} OBVIOUS
  <2> QED BY <1>3, <2>1, ServeMissKeeps
<1> QED BY <1>1, <1>2, <1>3, RequestKeeps, AgentKeyKeeps, AgentInsertKeeps, RequestEndKeeps, TraceLabKeyKeeps DEF PlanNext

\* For any trace, capacity and number of requests, a compiled plan runs: its
\* loads and evictions find their chunks, the engine has what the compiler
\* calls resident and never more than it says.  And for any synthetic
\* requests and failures of stores and of loads, the report counts them.
THEOREM PlansRun == PlanSpec => []PlanRuns
<1> QED BY PlanStart, PlanStep, PTL DEF PlanSpec

============================================================================
