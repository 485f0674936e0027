---------------------------- MODULE Coordinator ----------------------------
(***************************************************************************)
(* The distributed run of kvio (coordinator.py): a workload is split by    *)
(* stream over client processes that connect, prepare, have their clocks   *)
(* probed, start together and deliver their ledgers.  A thread serves each *)
(* connection up to the probe; the main thread waits for all, starts them  *)
(* and collects.  Any client may die at any moment, a client may connect   *)
(* twice or under an unknown name, and waiting for the clients may time    *)
(* out at any moment.                                                      *)
(*                                                                         *)
(* A message to the coordinator is in up until it is read and survives the *)
(* death of its sender.  Writing to a dead client either passes unnoticed  *)
(* or raises, as TCP has it.  What a serving thread does under self.lock,  *)
(* where others wait for it, is one action; the shard is sent outside it.  *)
(***************************************************************************)
EXTENDS Integers, Sequences, FiniteSets

CONSTANTS
    Clients,     \* the clients of the run
    Attempts,    \* connections made to the coordinator
    ClaimOf,     \* attempt -> the client it says it is
    Streams,     \* the streams of the workload
    Linked,      \* pairs of streams with a dependency between them
    Assignments  \* the assignments considered: functions from streams to names of clients

ASSUME CoordAssumption == IsFiniteSet(Attempts)

VARIABLES
    main,        \* where the main thread is
    assignment,  \* stream -> client
    order,       \* connections in self.conns, in the order of their insertion
    pos, size,   \* the loop over self.conns: next index, length at its start
    failures,    \* clients with an entry in self.failures
    clock,       \* clients with a measured clock: their ready was counted
    readyEvent,
    results,     \* clients whose ledger arrived
    thread,      \* attempt -> where its serving thread is
    client,      \* attempt -> where the client process is
    up,          \* attempt -> message on its way to the coordinator
    down,        \* attempt -> messages on their way from it, in order
    ran          \* attempts that executed their shard

coordVars == <<main, assignment, order, pos, size, failures, clock, readyEvent, results,
               thread, client, up, down, ran>>

loopVars == <<order, pos, size>>
runVars == <<assignment, failures, clock, readyEvent, results>>

Over == {"complete", "partial", "raised", "refused"}
Gone(a) == client[a] \in {"dead", "left"}
Told(a, msg) == down[a] # <<>> /\ Head(down[a]) = msg
Tell(a, msg) == down' = [down EXCEPT ![a] = Append(@, msg)]
Hear(a) == down' = [down EXCEPT ![a] = Tail(@)]
Conns == {ClaimOf[order[i]] : i \in DOMAIN order}

CoordInit ==
    /\ main = "shard"
    /\ assignment \in Assignments
    /\ order = <<>> /\ pos = 1 /\ size = 0
    /\ failures = {} /\ clock = {} /\ readyEvent = FALSE /\ results = {}
    /\ thread = [a \in Attempts |-> "none"]
    /\ client = [a \in Attempts |-> "new"]
    /\ up = [a \in Attempts |-> "empty"] /\ down = [a \in Attempts |-> <<>>]
    /\ ran = {}

----------------------------------------------------------------------------
(* The client process.                                                     *)

ClientMoves(a, from, to) ==
    /\ client[a] = from
    /\ client' = [client EXCEPT ![a] = to]
    /\ UNCHANGED <<main, loopVars, runVars>>

\* It connects and says hello; the accept loop starts a thread for it.
Hello(a) ==
    /\ main \notin Over \cup {"shard"}
    /\ ClientMoves(a, "new", "hello")
    /\ up' = [up EXCEPT ![a] = "hello"]
    /\ thread' = [thread EXCEPT ![a] = "hello"]
    /\ UNCHANGED <<down, ran>>

\* With its shard it prepares the engine and says ready.
Prepare(a) ==
    /\ Told(a, "shard") /\ Hear(a)
    /\ ClientMoves(a, "hello", "ready")
    /\ up' = [up EXCEPT ![a] = "ready"]
    /\ UNCHANGED <<thread, ran>>

Execute(a) ==
    /\ Told(a, "start") /\ Hear(a)
    /\ ClientMoves(a, "ready", "running")
    /\ ran' = ran \cup {a}
    /\ UNCHANGED <<up, thread>>

Deliver(a) ==
    /\ ClientMoves(a, "running", "done")
    /\ up' = [up EXCEPT ![a] = "done"]
    /\ UNCHANGED <<down, thread, ran>>

\* Rejected, aborted, dismissed, or the coordinator is gone.
Leave(a) ==
    /\ \/ \E msg \in {"reject", "abort", "bye"} : Told(a, msg)
       \/ main \in Over /\ down[a] = <<>>
    /\ \E s \in {"hello", "ready", "done"} : ClientMoves(a, s, "left")
    /\ UNCHANGED <<up, down, thread, ran>>

Die(a) ==
    /\ \E s \in {"hello", "ready", "running", "done"} : ClientMoves(a, s, "dead")
    /\ UNCHANGED <<up, down, thread, ran>>

----------------------------------------------------------------------------
(* _serve_client, one thread for each connection.                          *)

\* As RegisterAllowed, without the check for a duplicate.
RegisterAllowedAny(a) == ClaimOf[a] \in Clients

RegisterAllowed(a) == ClaimOf[a] \in Clients \ Conns

\* Under the lock: the connection is registered, or an unknown or duplicate
\* client is rejected and the latter then recorded as a failure, unless
\* writing to a dead one raises first.
Register(a) ==
    /\ thread[a] = "hello"
    /\ \/ /\ RegisterAllowed(a)
          /\ order' = Append(order, a)
          /\ thread' = [thread EXCEPT ![a] = "registered"]
          /\ UNCHANGED <<failures, down>>
       \/ /\ ~RegisterAllowed(a)
          /\ \/ Tell(a, "reject") /\ failures' = failures \cup ({ClaimOf[a]} \cap Clients)
             \/ Gone(a) /\ UNCHANGED <<failures, down>>
          /\ thread' = [thread EXCEPT ![a] = "ended"]
          /\ UNCHANGED order
    /\ up' = [up EXCEPT ![a] = "empty"]
    /\ UNCHANGED <<main, pos, size, assignment, clock, readyEvent, results, client, ran>>

\* The shard is sent; to a dead client this may raise and end the thread.
SendShard(a) ==
    /\ thread[a] = "registered"
    /\ \/ Tell(a, "shard") /\ thread' = [thread EXCEPT ![a] = "sent"]
       \/ Gone(a) /\ thread' = [thread EXCEPT ![a] = "ended"] /\ UNCHANGED down
    /\ UNCHANGED <<main, loopVars, runVars, client, up, ran>>

\* As LastReady, counting the connections instead of the ready clients.
LastReadyConns == Conns = Clients

\* ready_count has reached the number of clients.
LastReady == clock' = Clients

\* The client is ready and, under the lock, its clock is probed: ready is
\* counted.  A client that dies before the last pong raises, which ends the
\* thread; one that dies before its ready is a failure.
Ready(a) ==
    /\ thread[a] = "sent"
    /\ \/ /\ up[a] = "ready" /\ client[a] = "ready"
          /\ clock' = clock \cup {ClaimOf[a]}
          /\ readyEvent' = (readyEvent \/ LastReady)
          /\ UNCHANGED failures
       \/ /\ up[a] = "ready" /\ Gone(a)
          /\ UNCHANGED <<clock, readyEvent, failures>>
       \/ /\ up[a] = "empty" /\ Gone(a)
          /\ failures' = failures \cup {ClaimOf[a]}
          /\ UNCHANGED <<clock, readyEvent>>
    /\ up' = [up EXCEPT ![a] = "empty"]
    /\ thread' = [thread EXCEPT ![a] = "ended"]
    /\ UNCHANGED <<main, loopVars, assignment, results, client, down, ran>>

----------------------------------------------------------------------------
(* The main thread.                                                        *)

MainOnly == UNCHANGED <<thread, client, ran>>

\* shard_workload: an assignment that names a stream the workload has not or
\* leaves one out, or that separates streams with a dependency, is refused.
\* The names of the clients are not looked at.
Shard ==
    /\ main = "shard"
    /\ main' = IF DOMAIN assignment # Streams \/ \E p \in Linked : assignment[p[1]] # assignment[p[2]]
                 THEN "refused" ELSE "wait"
    /\ UNCHANGED <<loopVars, runVars, up, down>> /\ MainOnly

\* Everyone is ready or the wait has timed out.  A missing client or a
\* failure aborts the run.
Awake ==
    /\ main = "wait"
    /\ main' = IF readyEvent /\ Clients \subseteq Conns /\ failures = {}
                 THEN "start" ELSE "abort"
    /\ pos' = 1 /\ size' = Len(order)
    /\ UNCHANGED <<order, runVars, up, down>> /\ MainOnly

\* As AbortOne, going round the connections without telling anyone.
AbortAgain ==
    /\ main = "abort"
    /\ pos' = IF pos > size THEN 1 ELSE pos + 1
    /\ UNCHANGED <<main, order, size, runVars, up, down>> /\ MainOnly

\* One turn of the loop over the connections that tells them to abort.  A
\* client that registered meanwhile has changed the dictionary: the next
\* turn raises.
AbortOne ==
    /\ main = "abort"
    /\ IF Len(order) # size THEN main' = "raised" /\ UNCHANGED <<pos, down>>
       ELSE IF pos > size THEN main' = "partial" /\ UNCHANGED <<pos, down>>
       ELSE /\ Tell(order[pos], "abort")
            /\ pos' = pos + 1
            /\ UNCHANGED main
    /\ UNCHANGED <<order, size, runVars, up>> /\ MainOnly

\* One turn of the loop that starts the clients; writing to a dead one may
\* raise.
StartOne ==
    /\ main = "start"
    /\ IF pos > size
         THEN main' = "collect" /\ pos' = 1 /\ UNCHANGED down
         ELSE \/ /\ Tell(order[pos], "start")
                 /\ pos' = pos + 1
                 /\ UNCHANGED main
              \/ /\ Gone(order[pos]) /\ main' = "raised"
                 /\ UNCHANGED <<pos, down>>
    /\ UNCHANGED <<order, size, runVars, up>> /\ MainOnly

\* The connection is closed without a result.
CollectLost(a) ==
    /\ up[a] # "done" /\ Gone(a)
    /\ failures' = failures \cup {ClaimOf[a]}
    /\ pos' = pos + 1
    /\ UNCHANGED <<main, results, up, down>>

\* The ledger, then the closing probe, which raises if the client is dead,
\* then bye.
CollectDone(a) ==
    /\ up[a] = "done"
    /\ results' = results \cup {ClaimOf[a]}
    /\ up' = [up EXCEPT ![a] = "empty"]
    /\ IF Gone(a) THEN main' = "raised" /\ UNCHANGED <<pos, down>>
                  ELSE /\ Tell(a, "bye")
                       /\ pos' = pos + 1
                       /\ UNCHANGED main
    /\ UNCHANGED failures

\* A connection reset raises instead.
CollectReset(a) ==
    /\ up[a] # "done" /\ Gone(a)
    /\ main' = "raised"
    /\ UNCHANGED <<pos, failures, results, up, down>>

CollectOne ==
    /\ main = "collect" /\ pos <= size
    /\ LET a == order[pos] IN CollectLost(a) \/ CollectDone(a) \/ CollectReset(a)
    /\ UNCHANGED <<order, size, assignment, clock, readyEvent>> /\ MainOnly

\* The verdict: a failure recorded by then, also of a duplicate claim
\* during the run, makes the run partial.
Verdict ==
    /\ main = "collect" /\ pos > size
    /\ main' = IF failures # {} THEN "partial" ELSE "complete"
    /\ UNCHANGED <<loopVars, runVars, up, down>> /\ MainOnly

ClientStep(a) == Hello(a) \/ Prepare(a) \/ Execute(a) \/ Deliver(a) \/ Leave(a)
Serve(a) == Register(a) \/ SendShard(a) \/ Ready(a)
MainStep == Shard \/ Awake \/ AbortOne \/ StartOne \/ CollectOne \/ Verdict

CoordNext == MainStep \/ \E a \in Attempts : ClientStep(a) \/ Serve(a) \/ Die(a)

CoordSpec == CoordInit /\ [][CoordNext]_coordVars

----------------------------------------------------------------------------
\* Type invariant.
CoordTypeOK ==
    /\ main \in {"shard", "wait", "abort", "start", "collect"} \cup Over
    /\ assignment \in Assignments
    /\ order \in Seq(Attempts) /\ pos \in 1 .. size + 1 /\ size \in 0 .. Cardinality(Attempts)
    /\ failures \subseteq Clients /\ clock \subseteq Clients /\ results \subseteq Clients
    /\ readyEvent \in BOOLEAN
    /\ thread \in [Attempts -> {"none", "hello", "registered", "sent", "ended"}]
    /\ client \in [Attempts -> {"new", "hello", "ready", "running", "done", "left", "dead"}]
    /\ up \in [Attempts -> {"empty", "hello", "ready", "done"}]
    /\ down \in [Attempts -> Seq({"shard", "start", "abort", "bye", "reject"})]
    /\ ran \subseteq Attempts

\* A shard is never executed twice, whoever reconnects and when: never a
\* silent at-least-once replay.
ShardOnce == \A a, b \in ran : ClaimOf[a] = ClaimOf[b] => a = b

\* The clients start together: none executes before all of them are ready
\* with a measured clock, so every row can be put on the coordinator's time
\* line.
StartTogether == ran # {} => clock = Clients

\* A run that is reported complete has the rows of the operations of every
\* stream that is assigned to a client of the run, which executed it and
\* whose ledger is in.  A stream assigned to any other name is executed by
\* nobody, and the run is complete without it.
CompleteCoversWorkload ==
    main = "complete" =>
        \A s \in Streams :
            /\ (\E a \in ran : ClaimOf[a] = assignment[s]) <=> assignment[s] \in Clients
            /\ assignment[s] \in results <=> assignment[s] \in Clients

\* The connections in self.conns, and the clients of the first n of them.
Registered == {order[i] : i \in DOMAIN order}
ConnsTo(n) == {ClaimOf[order[i]] : i \in 1 .. n}

\* self.conns holds one connection of each client, and a thread sends a
\* shard, or waits for ready, only on a connection it holds.
OneConnEach ==
    /\ size <= Len(order)
    /\ \A i, j \in DOMAIN order : ClaimOf[order[i]] = ClaimOf[order[j]] => i = j
    /\ \A a \in Registered : ClaimOf[a] \in Clients
    /\ \A a \in Attempts : thread[a] \in {"registered", "sent"} => a \in Registered

StartComing(a) == \E i \in DOMAIN down[a] : down[a][i] = "start"

\* A start is on its way, or was followed, only on a registered connection
\* and after all clocks were measured; who runs, or has run, followed one.
StartedWithClocks ==
    /\ readyEvent \/ main \in {"start", "collect"} => clock = Clients
    /\ \A a \in Attempts :
         /\ a \in ran \/ StartComing(a) => a \in Registered /\ clock = Clients
         /\ client[a] \in {"running", "done"} \/ up[a] = "done" => a \in ran

\* The main thread loops over a connection of every client; those it has
\* passed while collecting have delivered or failed; who delivered has run.
CollectedInOrder ==
    /\ main \in {"start", "collect"} => Clients \subseteq ConnsTo(size)
    /\ main = "collect" => ConnsTo(pos - 1) \subseteq results \cup failures
    /\ main = "complete" => Clients \subseteq results
    /\ \A c \in results : \E a \in ran : ClaimOf[a] = c

\* The inductive invariant of the run.
CoordInv == CoordTypeOK /\ OneConnEach /\ StartedWithClocks /\ CollectedInOrder

\* What the docstring says: a client that fails makes the run partial.  Here
\* for a client that fails after it has started: the coordinator reaches a
\* verdict and writes its manifest.
FailureMakesPartial ==
    (\E a \in ran : client[a] = "dead") => main # "raised"

\* Every client that connected leaves, or dies.
ClientsLeave == <>[](\A a \in Attempts : client[a] \in {"new", "left", "dead"})

\* No shard is executed twice and a complete run has executed that of every
\* client (Coordinator.run); the threads keep the invariant that this rests on.
RunsEachShardOnce == CoordInv /\ ShardOnce /\ CompleteCoversWorkload

============================================================================
