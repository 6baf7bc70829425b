---------------------------- MODULE DurableWork ----------------------------
(***************************************************************************)
(* DurableWorkDriver: the host's dispatcher of the work that durable       *)
(* objects keep in their own queues.                                       *)
(*                                                                         *)
(* The driver's fields are one record; an operator that takes it and       *)
(* returns it is the method of that name, and one action is one turn of    *)
(* the event loop.  Every call to a queue owner is three steps - sent,     *)
(* executed by the owner, answered - and may fail before or after the      *)
(* owner executed it.  The owners' claim, settle and fail are the contract *)
(* that durableWork.ts and the driver's comments state.                    *)
(***************************************************************************)
EXTENDS Integers, FiniteSets, SequencesExt

CONSTANTS
    Queues,             \* the (owner, queue) pairs that serialize mutations
    Prepared,           \* the queues whose handler has a prepare step
    Items,              \* the rows the owners ever hold
    NoItem,
    QueueOf, LaneOf,    \* the queue of an item; the lane of its claims
    Concurrency,        \* execution slots of the driver
    MaxGeneration,      \* bound on the claims of one item: its attempts
    MaxFaults           \* bound on failed calls, new activations and restarts

ASSUME QueueAssumption ==
    /\ QueueOf \in [Items -> Queues]
    /\ Prepared \subseteq Queues
    /\ IsFiniteSet(Queues) /\ IsFiniteSet(Items) /\ NoItem \notin Items
\* The name of a queue selects its handler and is part of its lanes' names.
ASSUME LaneAssumption ==
    \A i, k \in Items :
        LaneOf[i] = LaneOf[k] => (QueueOf[i] \in Prepared <=> QueueOf[k] \in Prepared)
ASSUME BoundAssumption ==
    /\ {Concurrency, MaxGeneration} \subseteq Nat \ {0}
    /\ MaxFaults \in Nat

VARIABLES
    driver,     \* the fields of DurableWorkDriver
    reply,      \* what became of each queue's running mutation
    scan,       \* the recovery scan, recovering and recoveryController
    stop,       \* how far quiesce has come, and the jobs it waits for
    row,        \* the owners' rows: state and lease generation
    adopted,    \* the queues whose owner has adopted this worker in this activation
    lost, faults    \* whether a call has failed; faults so far

vars == <<driver, reply, scan, stop, row, adopted, lost, faults>>
bounds == <<lost, faults>>

\* A job is one claim: an item at one lease generation.
Job == Items \X (1..MaxGeneration)
NoJob == <<NoItem, 0>>
Lanes == {LaneOf[i] : i \in Items}
Queue(j) == QueueOf[j[1]]
Lane(j) == LaneOf[j[1]]

\* A mutation waiting in a queue's chain: a job's settlement or failure, or,
\* as NoJob, a call of the pump.
Mutation == Job \union {NoJob}

Running == {"executing", "settling", "failing"}
Preparing == {"preparing", "prepareFailing"}
InLane == {"preparing", "runnable", "executing"}    \* holding its lane
Runners(d) == {j \in Job : d.phase[j] \in Running}
Prerequisites(d) == {j \in Job : d.phase[j] \in Preparing}
\* Fault: a job that is settling is not counted.
FreeOfExecuting(d) == Concurrency - Cardinality({j \in Job : d.phase[j] = "executing"})

Free(d) == Concurrency - Cardinality(Runners(d))

NoPump == [at |-> "idle", claims |-> <<>>, limit |-> 0, aborted |-> FALSE]
NoReply == [result |-> "none", claims |-> <<>>]
Reply(result) == [NoReply EXCEPT !.result = result]
NoScan == [on |-> FALSE, left |-> {}, found |-> {}]

NewDriver ==
    [accepting |-> TRUE, pending |-> <<>>, runnable |-> <<>>,
     phase |-> [j \in Job |-> "none"], aborted |-> {},
     lane |-> [l \in Lanes |-> NoJob], pump |-> NoPump,
     chain |-> [q \in Queues |-> <<>>]]

-----------------------------------------------------------------------------
(* The driver's synchronous methods *)

\* serializeQueueMutation
Enqueue(d, q, m) == [d EXCEPT !.chain[q] = Append(@, m)]

\* Fault: a failed mutation wedges its chain.
DequeueAnswered(d, q) == IF reply[q].result = "lost" THEN d ELSE [d EXCEPT !.chain[q] = Tail(@)]

\* the running mutation of a chain is over, whatever came of it
Dequeue(d, q) == [d EXCEPT !.chain[q] = Tail(@)]

\* Fault: the token is not compared.
ReleaseAny(d, j) == [d EXCEPT !.lane[Lane(j)] = NoJob]

\* releaseLane
Release(d, j) == [d EXCEPT !.lane[Lane(j)] = IF @ = j THEN NoJob ELSE @]

\* startPrerequisite for a new claim of a queue that prepares, else startRunner
Start(d, jobs) ==
    [d EXCEPT
        !.phase = [j \in Job |->
            IF j \notin jobs THEN @[j]
            ELSE IF @[j] = "none" /\ Queue(j) \in Prepared THEN "preparing"
            ELSE "executing"],
        !.lane = [l \in Lanes |->
            IF \E j \in jobs : Lane(j) = l
            THEN CHOOSE j \in jobs : Lane(j) = l ELSE @[l]]]

\* pump, from the head of its loop to its next await or its end
Loop(d) ==
    LET n == IF Len(d.runnable) < Free(d) THEN Len(d.runnable) ELSE Free(d)
        ready == ToSet(SubSeq(d.runnable, 1, n))
        e == [Start(d, ready) EXCEPT !.runnable = SubSeq(@, n + 1, Len(@))]
    IN IF ~d.accepting \/ Free(d) <= 0 THEN [d EXCEPT !.pump = [NoPump EXCEPT !.at = "over"]]
       ELSE IF Free(e) = 0 \/ e.pending = <<>>
       THEN [e EXCEPT !.pump = [NoPump EXCEPT !.at = "over"]]
       ELSE Enqueue([e EXCEPT !.pending = Tail(@), !.pump = [NoPump EXCEPT !.at = "claim"]],
                    Head(e.pending), NoJob)

\* kick
Kick(d) ==
    IF ~d.accepting \/ d.pump.at # "idle" \/ Free(d) <= 0 THEN d ELSE Loop(d)

\* notify; a hint already pending keeps its place
Notify(d, q) ==
    IF ~d.accepting THEN d
    ELSE Kick([d EXCEPT !.pending = IF q \in ToSet(@) THEN @ ELSE Append(@, q)])

\* notify for each of several hints: the first one kicks, the others follow it
NotifyAll(d, qs) ==
    IF ~d.accepting \/ qs = <<>> THEN d ELSE Kick([d EXCEPT !.pending = @ \o qs])

\* Fault: the pump forgets what was requested while it ran.
PumpEndsForgetful(d) == [d EXCEPT !.pump = NoPump]

\* finishPump
PumpEnds(d) ==
    LET e == [d EXCEPT !.pump = NoPump]
    IN IF e.pending # <<>> \/ e.runnable # <<>> THEN Kick(e) ELSE e

\* Fault: claims for a taken lane are dropped.
GrantDropping(d, claims) ==
    Loop(Start(d, {j \in ToSet(claims) : d.lane[Lane(j)] = NoJob}))

\* The pump's loop over the answered claims: it starts them up to the first
\* one whose lane is taken, and awaits the failure of that one.
Grant(d, claims) ==
    LET granted == {n \in DOMAIN claims : \A x \in 1..n :
                       /\ d.lane[Lane(claims[x])] = NoJob
                       /\ \A y \in 1..x-1 : Lane(claims[y]) # Lane(claims[x])}
        e == Start(d, {claims[n] : n \in granted})
        rest == SubSeq(claims, Cardinality(granted) + 1, Len(claims))
    IN IF rest = <<>> THEN Loop(e)
       ELSE Enqueue([e EXCEPT !.pump = [NoPump EXCEPT !.at = "duplicate", !.claims = rest]],
                    Queue(rest[1]), NoJob)

\* the end of a runner or of a prerequisite that was not handed off
EndJob(d, j, continue) ==
    LET e == [Release(d, j) EXCEPT !.phase[j] = "none", !.aborted = @ \ {j}]
    IN Kick(IF continue THEN Notify(e, Queue(j)) ELSE e)

-----------------------------------------------------------------------------
(* The owners: transactions on their rows *)

\* Fault: an item out of attempts is leased again.
AdoptedUnbounded(q) ==
    IF adopted[q] THEN row
    ELSE [i \in Items |-> IF QueueOf[i] = q /\ row[i].state = "leased"
                          THEN [row[i] EXCEPT !.state = "ready"] ELSE row[i]]

\* adoptWorker: a new worker or activation releases every lease.  An item
\* out of attempts is parked.
Adopted(q) ==
    IF adopted[q] THEN row
    ELSE [i \in Items |->
            IF QueueOf[i] = q /\ row[i].state = "leased"
            THEN [row[i] EXCEPT !.state =
                     IF row[i].generation < MaxGeneration THEN "ready" ELSE "parked"]
            ELSE row[i]]

\* the rows a claim may take: ready, in a lane of the owner without a lease
Claimable(q, rows) ==
    {i \in Items :
        /\ QueueOf[i] = q
        /\ rows[i].state = "ready"
        /\ ~\E k \in Items :
              QueueOf[k] = q /\ LaneOf[k] = LaneOf[i] /\ rows[k].state = "leased"}

\* the answers to a claim of at most n rows, one per lane and, unless
\* nothing is claimable, at least one
Batches(q, rows, n) ==
    {b \in UNION {[1..m -> Claimable(q, rows)] : m \in 0..n} :
        /\ \A x, y \in DOMAIN b : x # y => LaneOf[b[x]] # LaneOf[b[y]]
        /\ b = <<>> => Claimable(q, rows) = {}}

\* start, in a host that has just come up
Init ==
    /\ driver = NewDriver
    /\ reply = [q \in Queues |-> NoReply]
    /\ scan = NoScan
    /\ stop = [at |-> "no", join |-> {}]
    /\ row = [i \in Items |-> [state |-> "absent", generation |-> 0]]
    /\ adopted = [q \in Queues |-> FALSE]
    /\ lost = FALSE /\ faults = 0

-----------------------------------------------------------------------------
(* Mutations: sent, executed by the owner, answered *)

Owners == <<row, adopted>>
Fault == faults < MaxFaults /\ faults' = faults + 1

HeadIs(q, m) == driver.chain[q] # <<>> /\ Head(driver.chain[q]) = m
PumpCalls(q, at) == HeadIs(q, NoJob) /\ driver.pump.at = at

\* The claim's turn has come: its limit is the slots free now.  A call with
\* an aborted signal fails at once.
SendClaim(q) ==
    /\ PumpCalls(q, "claim")
    /\ driver' = [driver EXCEPT !.pump.at = "claiming", !.pump.limit = Free(driver)]
    /\ reply' = IF driver.pump.aborted THEN [reply EXCEPT ![q] = Reply("lost")] ELSE reply
    /\ UNCHANGED <<scan, stop, Owners, bounds>>

\* claimReadyWork, which adopts the claiming worker first
OwnerClaims(q) ==
    /\ PumpCalls(q, "claiming")
    /\ reply[q].result = "none"
    /\ \E batch \in Batches(q, Adopted(q), driver.pump.limit) :
        /\ row' = [i \in Items |->
                     IF i \in Range(batch)
                     THEN [state |-> "leased", generation |-> Adopted(q)[i].generation + 1]
                     ELSE Adopted(q)[i]]
        /\ reply' = [reply EXCEPT ![q] =
                       [result |-> "claimed",
                        claims |-> [x \in DOMAIN batch |->
                                      <<batch[x], row'[batch[x]].generation>>]]]
    /\ adopted' = [adopted EXCEPT ![q] = TRUE]
    /\ UNCHANGED <<driver, scan, stop, bounds>>

Leased(j) == row[j[1]] = [state |-> "leased", generation |-> j[2]]
Sets(j, state) == row' = [row EXCEPT ![j[1]].state = state]

\* settleReadyWork: fenced by the generation
OwnerSettles(q) ==
    /\ \E j \in Job :
        /\ HeadIs(q, j) /\ driver.phase[j] = "settling"
        /\ reply[q].result = "none"
        /\ \/ Leased(j) /\ Sets(j, "done") /\ reply' = [reply EXCEPT ![q] = Reply("accepted")]
           \/ ~Leased(j) /\ row' = row /\ reply' = [reply EXCEPT ![q] = Reply("stale")]
    /\ UNCHANGED <<driver, scan, stop, adopted, bounds>>

\* the claim whose failure is the running mutation
Failing(q, j) ==
    \/ HeadIs(q, j) /\ driver.phase[j] \in {"failing", "prepareFailing"}
    \/ PumpCalls(q, "duplicate") /\ j = Head(driver.pump.claims)

\* failReadyWork: retryable, terminal or stale
OwnerFails(q) ==
    /\ \E j \in Job :
        /\ Failing(q, j)
        /\ reply[q].result = "none"
        /\ \/ /\ Leased(j) /\ j[2] < MaxGeneration /\ Sets(j, "ready")
              /\ reply' = [reply EXCEPT ![q] = Reply("retry")]
           \/ /\ Leased(j) /\ Sets(j, "parked")
              /\ reply' = [reply EXCEPT ![q] = Reply("failed")]
           \/ /\ ~Leased(j) /\ row' = row
              /\ reply' = [reply EXCEPT ![q] = Reply("stale")]
    /\ UNCHANGED <<driver, scan, stop, adopted, bounds>>

\* A call fails, before or after the owner executed it.  Only calls made
\* with an aborted signal do so for free.
CallFails(q) ==
    /\ driver.chain[q] # <<>> /\ ~PumpCalls(q, "claim")
    /\ reply[q].result # "lost"
    /\ \/ Fault /\ lost' = TRUE
       \/ PumpCalls(q, "claiming") /\ driver.pump.aborted /\ UNCHANGED bounds
    /\ reply' = [reply EXCEPT ![q] = Reply("lost")]
    /\ UNCHANGED <<driver, scan, stop, Owners>>

Receive(q) ==
    /\ reply[q].result # "none"
    /\ reply' = [reply EXCEPT ![q] = NoReply]
    /\ UNCHANGED <<scan, stop, Owners, bounds>>

\* pump goes on after claim
ClaimAnswered(q) ==
    /\ PumpCalls(q, "claiming")
    /\ Receive(q)
    /\ driver' = Grant(Dequeue(driver, q), reply[q].claims)

\* pump goes on after it failed a claim for a taken lane, whatever the answer
DuplicateAnswered(q) ==
    /\ PumpCalls(q, "duplicate")
    /\ Receive(q)
    /\ driver' = Grant(Dequeue(driver, q), Tail(driver.pump.claims))

\* A settlement is answered.  The lane is released even when it failed, and
\* then the failure of the claim is queued in turn.
SettleAnswered(q) ==
    /\ Receive(q)
    /\ \E j \in Job :
        /\ HeadIs(q, j) /\ driver.phase[j] = "settling"
        /\ LET d == Release(Dequeue(driver, q), j)
           IN driver' =
                IF reply[q].result = "lost" /\ j \notin driver.aborted
                THEN Enqueue([d EXCEPT !.phase[j] = "failing"], q, j)
                ELSE EndJob(d, j, reply[q].result # "stale")

\* A failure is answered.  A runner asks for more unless the claim was stale
\* or is terminal; a prerequisite also not after a failed call.
FailAnswered(q) ==
    /\ Receive(q)
    /\ \E j \in Job :
        /\ HeadIs(q, j) /\ driver.phase[j] \in {"failing", "prepareFailing"}
        /\ driver' = EndJob(Dequeue(driver, q), j,
                        \/ reply[q].result = "retry"
                        \/ reply[q].result = "lost" /\ driver.phase[j] = "failing")

-----------------------------------------------------------------------------
(* Jobs and the pump *)

\* handler.prepare settles: hand the claim over, fail it, or drop it when
\* it was aborted
PrepareEnds(j) ==
    /\ driver.phase[j] = "preparing"
    /\ \/ driver' = IF driver.accepting /\ j \notin driver.aborted
                    THEN Kick([driver EXCEPT !.phase[j] = "runnable",
                                             !.runnable = Append(@, j)])
                    ELSE EndJob(driver, j, FALSE)
       \/ driver' = IF j \in driver.aborted THEN EndJob(driver, j, FALSE)
                    ELSE Enqueue([driver EXCEPT !.phase[j] = "prepareFailing"], Queue(j), j)
    /\ UNCHANGED <<reply, scan, stop, Owners, bounds>>

\* handler.execute settles: an outcome is settled even when the job was
\* aborted meanwhile; an error is not reported then
ExecuteEnds(j) ==
    /\ driver.phase[j] = "executing"
    /\ \/ driver' = Enqueue([driver EXCEPT !.phase[j] = "settling"], Queue(j), j)
       \/ driver' = IF j \in driver.aborted THEN EndJob(driver, j, TRUE)
                    ELSE Enqueue([driver EXCEPT !.phase[j] = "failing"], Queue(j), j)
    /\ UNCHANGED <<reply, scan, stop, Owners, bounds>>

FinishPump ==
    /\ driver.pump.at = "over"
    /\ driver' = PumpEnds(driver)
    /\ UNCHANGED <<reply, scan, stop, Owners, bounds>>

-----------------------------------------------------------------------------
(* The recovery scan *)

\* recoverNow, by the timer or at the start
StartScan ==
    /\ driver.accepting /\ ~scan.on
    /\ scan' = [NoScan EXCEPT !.on = TRUE, !.left = Queues]
    /\ UNCHANGED <<driver, reply, stop, Owners, bounds>>

\* adopt an owner and ask for its readiness; an owner that fails is passed over
ScanOwner(q) ==
    /\ q \in scan.left
    /\ \/ /\ row' = Adopted(q)
          /\ adopted' = [adopted EXCEPT ![q] = TRUE]
          /\ scan' = [scan EXCEPT !.left = @ \ {q},
                                  !.found = IF Claimable(q, row') = {} THEN @ ELSE @ \union {q}]
          /\ UNCHANGED bounds
       \/ /\ Fault /\ lost' = TRUE
          /\ scan' = [scan EXCEPT !.left = @ \ {q}]
          /\ UNCHANGED Owners
    /\ UNCHANGED <<driver, reply, stop>>

\* Fault: what the scan found is counted and not notified.
EndScanUnheard ==
    /\ scan.on /\ (scan.left = {} \/ ~driver.accepting)
    /\ driver' = driver
    /\ scan' = NoScan
    /\ UNCHANGED <<reply, stop, Owners, bounds>>

\* The scan ends, early when quiesce has aborted it.  Its workers found the
\* ready queues in any order.
EndScan ==
    /\ scan.on /\ (scan.left = {} \/ ~driver.accepting)
    /\ \E qs \in SetToSeqs(scan.found \ ToSet(driver.pending)) :
          driver' = NotifyAll(driver, qs)
    /\ scan' = NoScan
    /\ UNCHANGED <<reply, stop, Owners, bounds>>

-----------------------------------------------------------------------------
(* quiesce *)

\* Fault: the jobs to wait for are collected before the pump has ended.
QuiesceEarly ==
    /\ driver.accepting
    /\ driver' = [driver EXCEPT !.accepting = FALSE, !.pending = <<>>,
                                !.aborted = Runners(driver) \union Prerequisites(driver),
                                !.pump.aborted = @ \/ driver.pump.at \in {"claim", "claiming"}]
    /\ stop' = [at |-> "jobs", join |-> driver'.aborted]
    /\ UNCHANGED <<reply, scan, Owners, bounds>>

Quiesce ==
    /\ driver.accepting
    /\ driver' = [driver EXCEPT !.accepting = FALSE, !.pending = <<>>,
                                !.aborted = Runners(driver) \union Prerequisites(driver),
                                !.pump.aborted = @ \/ driver.pump.at \in {"claim", "claiming"}]
    /\ stop' = [at |-> "pump", join |-> {}]
    /\ UNCHANGED <<reply, scan, Owners, bounds>>

\* the pump has ended: collect the jobs there are now
AwaitJobs ==
    /\ stop.at = "pump" /\ driver.pump.at = "idle"
    /\ stop' = [at |-> "jobs", join |-> Runners(driver) \union Prerequisites(driver)]
    /\ UNCHANGED <<driver, reply, scan, Owners, bounds>>

\* those jobs have ended: drop the claims that never got a slot
DropRunnable ==
    /\ stop.at = "jobs"
    /\ stop.join \intersect (Runners(driver) \union Prerequisites(driver)) = {}
    /\ LET dropped == ToSet(driver.runnable)
       IN driver' = [driver EXCEPT
                       !.runnable = <<>>,
                       !.phase = [j \in Job |-> IF j \in dropped THEN "none" ELSE @[j]],
                       !.lane = [l \in Lanes |-> IF @[l] \in dropped THEN NoJob ELSE @[l]]]
    /\ stop' = [at |-> "scan", join |-> {}]
    /\ UNCHANGED <<reply, scan, Owners, bounds>>

AwaitScan ==
    /\ stop.at = "scan" /\ ~scan.on
    /\ stop' = [stop EXCEPT !.at = "done"]
    /\ UNCHANGED <<driver, reply, scan, Owners, bounds>>

-----------------------------------------------------------------------------
(* The surroundings *)

\* an owner commits work
AddWork(i) ==
    /\ row[i].state = "absent"
    /\ row' = [row EXCEPT ![i].state = "ready"]
    /\ UNCHANGED <<driver, reply, scan, stop, adopted, bounds>>

\* A response of an owner with ready work carries a hint; none is promised.
Hint(q) ==
    /\ driver.accepting
    /\ \E i \in Items : QueueOf[i] = q /\ row[i].state = "ready"
    /\ driver' = Notify(driver, q)
    /\ UNCHANGED <<reply, scan, stop, Owners, bounds>>

\* an owner hibernates or is rebuilt, and wakes in a new activation
Reactivate(q) ==
    /\ adopted[q] /\ Fault
    /\ adopted' = [adopted EXCEPT ![q] = FALSE]
    /\ UNCHANGED <<driver, reply, scan, stop, row, lost>>

\* The host is killed, or stopped, and starts again with a new workerId.
Restart ==
    /\ Fault
    /\ driver' = NewDriver
    /\ reply' = [q \in Queues |-> NoReply]
    /\ scan' = NoScan
    /\ stop' = [at |-> "no", join |-> {}]
    /\ adopted' = [q \in Queues |-> FALSE]
    /\ UNCHANGED <<row, lost>>

-----------------------------------------------------------------------------
Mutate(q) ==
    \/ SendClaim(q) \/ OwnerClaims(q) \/ OwnerSettles(q) \/ OwnerFails(q)
    \/ ClaimAnswered(q) \/ DuplicateAnswered(q) \/ SettleAnswered(q) \/ FailAnswered(q)
EndOfJob(j) == PrepareEnds(j) \/ ExecuteEnds(j)
Scanning == StartScan \/ EndScan \/ \E q \in Queues : ScanOwner(q)
Quiescing == AwaitJobs \/ DropRunnable \/ AwaitScan

Next ==
    \/ \E q \in Queues : Mutate(q) \/ CallFails(q) \/ Hint(q) \/ Reactivate(q)
    \/ \E j \in Job : EndOfJob(j)
    \/ \E i \in Items : AddWork(i)
    \/ FinishPump \/ Scanning \/ Quiesce \/ Quiescing \/ Restart

DurableWorkSpec == Init /\ [][Next]_vars

\* Calls are answered, handlers and microtasks end, and the timer of the
\* recovery scan runs.  Nothing is assumed of work, hints or owners.
FairDurableWork ==
    /\ DurableWorkSpec
    /\ \A q \in Queues : WF_vars(Mutate(q))
    /\ WF_vars(\E j \in Job : EndOfJob(j))
    /\ WF_vars(FinishPump)
    /\ WF_vars(Scanning)
    /\ WF_vars(Quiescing)

-----------------------------------------------------------------------------
(* What the driver promises *)

Phases == {"none", "runnable"} \union Running \union Preparing
Pump == [at: {"idle", "claim", "claiming", "duplicate", "over"},
         claims: Seq(Job), limit: Int, aborted: BOOLEAN]
Driver == [accepting: BOOLEAN, pending: Seq(Queues), runnable: Seq(Job),
           phase: [Job -> Phases], aborted: SUBSET Job, lane: [Lanes -> Mutation],
           pump: Pump, chain: [Queues -> Seq(Mutation)]]
Answer == [result: {"none", "claimed", "accepted", "retry", "failed", "stale", "lost"},
           claims: Seq(Job)]
Row == [state: {"absent", "ready", "leased", "parked", "done"}, generation: 0..MaxGeneration]

\* Type invariant: the fields of the driver and the rows of the owners.
DurableTypeOK ==
    /\ driver \in Driver
    /\ reply \in [Queues -> Answer]
    /\ scan \in [on: BOOLEAN, left: SUBSET Queues, found: SUBSET Queues]
    /\ stop \in [at: {"no", "pump", "jobs", "scan", "done"}, join: SUBSET Job]
    /\ row \in [Items -> Row]
    /\ adopted \in [Queues -> BOOLEAN]
    /\ lost \in BOOLEAN /\ faults \in 0..MaxFaults

\* The executions never exceed the slots, although a claim asks for as many
\* items as there are free slots and is answered while runners come and go.
RunnersWithinConcurrency == Cardinality(Runners(driver)) <= Concurrency

\* Two claims of one lane are never prepared, queued or executed at a time:
\* not when an owner's new activation leases the item again, not when a
\* settlement is lost, and not when two owners name the same lane.
LaneExclusive ==
    \A j, k \in Job :
        driver.phase[j] \in InLane /\ driver.phase[k] \in InLane /\ Lane(j) = Lane(k)
            => j = k

\* No wake-up is lost: while the driver accepts work, has a free slot and a
\* hint or a prepared claim, the pump runs.
WorkIsPumped ==
    driver.accepting /\ Free(driver) > 0 /\ (driver.pending # <<>> \/ driver.runnable # <<>>)
        => driver.pump.at # "idle"

\* the driver, or an answer on its way to it, still has the lease of i
Backed(i) ==
    LET j == <<i, row[i].generation>>
    IN \/ driver.phase[j] # "none"
       \/ j \in ToSet(driver.pump.claims)
       \/ \E q \in Queues : j \in ToSet(reply[q].claims)

\* a lease that this worker holds and forgot: no adoption will release it
Stray(i) == row[i].state = "leased" /\ adopted[QueueOf[i]] /\ ~Backed(i)

\* While the driver accepts work, a lease that only it can end has a job, an
\* answer or a pending failure behind it, unless a call has failed.
LeasesAreBacked == driver.accepting /\ ~lost => \A i \in Items : ~Stray(i)

\* When quiesce has ended nothing runs and no lane is held, although the
\* pump may have started jobs after quiesce had aborted those it saw.
QuiescedIsIdle ==
    stop.at = "done" =>
        /\ Runners(driver) \union Prerequisites(driver) = {}
        /\ driver.runnable = <<>> /\ driver.pump.at = "idle" /\ ~scan.on
        /\ \A l \in Lanes : driver.lane[l] = NoJob
        /\ \A q \in Queues : driver.chain[q] = <<>>

\* Every ready item is settled or parked, with every hint dropped, across
\* failed attempts, new activations and restarts of the host, unless the
\* driver stops or a failed call leaves a stray lease in the item's lane.
WorkIsFinished ==
    \A i \in Items :
        row[i].state = "ready" ~>
            \/ row[i].state \in {"done", "parked"}
            \/ ~driver.accepting
            \/ \E k \in Items : QueueOf[k] = QueueOf[i] /\ LaneOf[k] = LaneOf[i] /\ Stray(k)

\* quiesce returns.
QuiesceFinishes == stop.at # "no" ~> stop.at \in {"done", "no"}
=============================================================================
