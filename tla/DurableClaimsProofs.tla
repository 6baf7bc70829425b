------------------------ MODULE DurableClaimsProofs ------------------------
(***************************************************************************)
(* Proofs about the claims of DurableWork, for any items, queues, lanes    *)
(* and bounds: the executions stay within the slots, a driver that was     *)
(* quiesced is idle, and no lease is forgotten while no call fails.  They  *)
(* rest on one inductive invariant, which says where each job, each        *)
(* running call and each answer on its way may be.                         *)
(***************************************************************************)
EXTENDS DurableWorkProofs

-----------------------------------------------------------------------------
(* The inductive invariant *)

\* The phases of a job whose settlement or failure is in its queue's chain...
Mutating == {"settling", "failing", "prepareFailing"}
\* ...and the stages of a pump that has a call there.
Calling == {"claim", "claiming", "duplicate"}

\* A mutation is in the chains once, while whoever queued it waits for it.
ChainsFit(d) ==
    /\ \A q \in Queues : \A x \in DOMAIN d.chain[q] :
          /\ d.chain[q][x] = NoJob => d.pump.at \in Calling
          /\ d.chain[q][x] # NoJob => d.phase[d.chain[q][x]] \in Mutating
    /\ \A q, r \in Queues : \A x \in DOMAIN d.chain[q], y \in DOMAIN d.chain[r] :
          d.chain[q][x] = d.chain[r][y] => q = r /\ x = y

\* A lane that is held is held by a job of the lane.
LanesNamed(d) ==
    \A l \in Lanes : d.lane[l] # NoJob => Lane(d.lane[l]) = l /\ d.phase[d.lane[l]] # "none"

\* A prepared claim waits for a slot.
RunnableWaits(d) == \A j \in Job : d.phase[j] = "runnable" => j \in ToSet(d.runnable)

\* The slots that a pump's call may still fill.
Promised(p) ==
    IF p.at = "claiming" THEN p.limit ELSE IF p.at = "duplicate" THEN Len(p.claims) ELSE 0

\* There is a slot for every runner and for every claim that may be granted.
SlotsCover(d) == Cardinality(Runners(d)) + Promised(d.pump) <= Concurrency

\* A pump holds claims only while it fails one, and asks for a number of them.
PumpFits(p) == (p.claims # <<>> => p.at = "duplicate") /\ p.limit \in Nat

\* Only quiesce aborts.
AbortedStops(d) == d.accepting => d.aborted = {} /\ ~d.pump.aborted

\* All of this of the driver's record.
Tidy(d) ==
    ChainsFit(d) /\ LanesNamed(d) /\ RunnableWaits(d) /\ SlotsCover(d) /\ PumpFits(d.pump)
    /\ AbortedStops(d)

\* Claims that no job has yet, each once.
Unstarted(d, claims) ==
    \A x \in DOMAIN claims :
        /\ d.phase[claims[x]] = "none"
        /\ \A y \in DOMAIN claims : claims[x] = claims[y] => x = y

\* An answer belongs to the call at the head of its chain, and one that tells
\* of a settlement or a failure tells that the claim's lease is over.
ReplyFits(q) ==
    /\ reply[q].result # "none" => driver.chain[q] # <<>>
    /\ reply[q].claims # <<>> => reply[q].result = "claimed"
    /\ reply[q].result = "claimed" =>
          PumpCalls(q, "claiming") /\ Len(reply[q].claims) <= driver.pump.limit
    /\ reply[q].result = "lost" => lost \/ ~driver.accepting
    /\ reply[q].result \in {"accepted", "retry", "failed", "stale"} =>
          \A j \in Job :
              HeadIs(q, j) \/ (PumpCalls(q, "duplicate") /\ j = Head(driver.pump.claims))
                  => ~Leased(j)

\* That of all answers.
RepliesFit == \A q \in Queues : ReplyFits(q)

\* Claims that were granted no later than the row's last lease.
Granted(rows, claims) == \A x \in DOMAIN claims : claims[x][2] <= rows[claims[x][1]].generation

\* No job is ahead of its row, and a claim on its way to the driver is new to it.
ClaimsFresh ==
    /\ \A j \in Job : driver.phase[j] # "none" => j[2] <= row[j[1]].generation
    /\ Unstarted(driver, driver.pump.claims) /\ Granted(row, driver.pump.claims)
    /\ \A q \in Queues : Unstarted(driver, reply[q].claims) /\ Granted(row, reply[q].claims)
    /\ \A i \in Items : row[i].state = "leased" => row[i].generation > 0

\* The jobs that quiesce waits for.
Engaged(d) == Runners(d) \union Prerequisites(d)

\* quiesce sees the pump end, then every job, then the scan, and nothing starts anew.
StopFits ==
    /\ driver.accepting <=> stop.at = "no"
    /\ stop.at \in {"jobs", "scan", "done"} => driver.pump.at = "idle"
    /\ stop.at = "jobs" => Engaged(driver) \subseteq stop.join
    /\ stop.at \in {"scan", "done"} => \A j \in Job : driver.phase[j] = "none"
    /\ stop.at = "done" => ~scan.on

\* The invariant: what DurableInv says, a tidy driver, and answers, claims,
\* quiesce and leases that agree with it.
ClaimsInv ==
    DurableInv /\ Tidy(driver) /\ RepliesFit /\ ClaimsFresh /\ StopFits /\ LeasesAreBacked

-----------------------------------------------------------------------------
(* Chains, slots and sequences *)

\* The mutation is queued, at the head of its chain or behind another.
InChains(d, m) == \E q \in Queues : \E x \in DOMAIN d.chain[q] : d.chain[q][x] = m

\* Runners are counted.
LEMMA RunnersCounted ==
    ASSUME NEW d
    PROVE  IsFiniteSet(Runners(d)) /\ Cardinality(Runners(d)) \in Nat
<1>1. IsFiniteSet(1..MaxGeneration)
  BY FS_Interval, Bounds
<1>2. IsFiniteSet(Job)
  BY <1>1, FS_Product, QueueAssumption DEF Job
<1>3. Runners(d) \in SUBSET Job
  BY DEF Runners
<1> QED
  BY <1>2, <1>3, FS_Subset, FS_CardinalityType

\* Fewer runners need fewer slots.
LEMMA FewerRunners ==
    ASSUME NEW d, NEW e, Runners(e) \subseteq Runners(d), Promised(e.pump) \in Int,
           Promised(d.pump) \in Int, Promised(e.pump) <= Promised(d.pump), SlotsCover(d)
    PROVE  SlotsCover(e)
<1>1. Cardinality(Runners(e)) <= Cardinality(Runners(d))
  BY RunnersCounted, FS_Subset
<1> QED
  BY <1>1, RunnersCounted, Bounds DEF SlotsCover

\* What is promised is a number of slots.
LEMMA PromisedSlots ==
    ASSUME NEW p \in Pump, PumpFits(p)
    PROVE  Promised(p) \in Nat
<1>1. p.claims \in Seq(Job) /\ p.limit \in Nat
  BY DEF Pump, PumpFits
<1> QED
  BY <1>1 DEF Promised

\* The fields of a driver with one more mutation.
LEMMA Enqueued ==
    ASSUME NEW d \in Driver, NEW q \in Queues, NEW m \in Mutation, NEW e, e = Enqueue(d, q, m)
    PROVE  /\ e.accepting = d.accepting /\ e.pending = d.pending /\ e.runnable = d.runnable
           /\ e.phase = d.phase /\ e.aborted = d.aborted /\ e.lane = d.lane /\ e.pump = d.pump
           /\ \A r \in Queues : e.chain[r] = IF r = q THEN Append(d.chain[q], m) ELSE d.chain[r]
BY DEF Driver, Enqueue

\* ...and of one that lost the head of a chain.
LEMMA Dequeued ==
    ASSUME NEW d \in Driver, NEW q \in Queues, NEW e, e = Dequeue(d, q)
    PROVE  /\ e.accepting = d.accepting /\ e.pending = d.pending /\ e.runnable = d.runnable
           /\ e.phase = d.phase /\ e.aborted = d.aborted /\ e.lane = d.lane /\ e.pump = d.pump
           /\ \A r \in Queues : e.chain[r] = IF r = q THEN Tail(d.chain[q]) ELSE d.chain[r]
BY DEF Driver, Dequeue

\* What a sequence becomes with one more element.
LEMMA Appended ==
    ASSUME NEW S, NEW s \in Seq(S), NEW m \in S, NEW t, t = Append(s, m)
    PROVE  /\ t \in Seq(S) /\ Len(s) \in Nat
           /\ DOMAIN s = 1..Len(s) /\ DOMAIN t = 1..Len(s)+1
           /\ \A x \in 1..Len(s) : t[x] = s[x]
           /\ t[Len(s)+1] = m
OBVIOUS

\* What it becomes without its first.
LEMMA Beheaded ==
    ASSUME NEW S, NEW s \in Seq(S), s # <<>>, NEW t, t = Tail(s)
    PROVE  /\ t \in Seq(S) /\ Len(s) \in Nat /\ Len(s) > 0 /\ Head(s) = s[1]
           /\ DOMAIN s = 1..Len(s) /\ DOMAIN t = 1..Len(s)-1
           /\ \A x \in 1..Len(s)-1 : t[x] = s[x+1]
OBVIOUS

\* A mutation that is new to the chains may be queued.
LEMMA EnqueueTidy ==
    ASSUME NEW d, Sound(d), Tidy(d), NEW q \in Queues, NEW m \in Mutation, ~InChains(d, m),
           m = NoJob => d.pump.at \in Calling,
           m # NoJob => d.phase[m] \in Mutating
    PROVE  Tidy(Enqueue(d, q, m))
<1> DEFINE e == Enqueue(d, q, m)
<1>1. /\ e.accepting = d.accepting /\ e.pending = d.pending /\ e.runnable = d.runnable
      /\ e.phase = d.phase /\ e.aborted = d.aborted /\ e.lane = d.lane /\ e.pump = d.pump
      /\ \A r \in Queues : e.chain[r] = IF r = q THEN Append(d.chain[q], m) ELSE d.chain[r]
  BY Enqueued DEF Sound
<1> HIDE DEF e
<1>2. d.chain[q] \in Seq(Mutation)
  BY DEF Sound, Driver
<1>3. /\ DOMAIN d.chain[q] = 1..Len(d.chain[q]) /\ DOMAIN e.chain[q] = 1..Len(d.chain[q])+1
      /\ \A x \in 1..Len(d.chain[q]) : e.chain[q][x] = d.chain[q][x]
      /\ e.chain[q][Len(d.chain[q])+1] = m
  <2>1. e.chain[q] = Append(d.chain[q], m)
    BY <1>1
  <2> QED
    BY <1>2, <2>1, Appended
<1>4. \A r \in Queues : \A x \in DOMAIN e.chain[r] :
         \/ x \in DOMAIN d.chain[r] /\ e.chain[r][x] = d.chain[r][x]
         \/ r = q /\ x = Len(d.chain[q]) + 1 /\ e.chain[r][x] = m
  BY <1>1, <1>2, <1>3
<1>5. \A r \in Queues : \A x \in DOMAIN d.chain[r] : d.chain[r][x] # m
  BY DEF InChains
<1>6. ChainsFit(e)
  <2>1. ASSUME NEW r \in Queues, NEW x \in DOMAIN e.chain[r]
        PROVE  /\ e.chain[r][x] = NoJob => e.pump.at \in Calling
               /\ e.chain[r][x] # NoJob => e.phase[e.chain[r][x]] \in Mutating
    BY <1>1, <1>4 DEF Tidy, ChainsFit
  <2>2. ASSUME NEW r \in Queues, NEW s \in Queues, NEW x \in DOMAIN e.chain[r],
               NEW y \in DOMAIN e.chain[s], e.chain[r][x] = e.chain[s][y]
        PROVE  r = s /\ x = y
    BY <2>2, <1>4, <1>5 DEF Tidy, ChainsFit
  <2> QED
    BY <2>1, <2>2 DEF ChainsFit
<1>7. Runners(e) = Runners(d)
  BY <1>1 DEF Runners
<1> QED
  BY <1>1, <1>6, <1>7 DEF Tidy, e, LanesNamed, RunnableWaits, SlotsCover, PumpFits, AbortedStops

\* A mutation that is over leaves the chains, and the others keep their heads.
LEMMA DequeueTidy ==
    ASSUME NEW d, Sound(d), Tidy(d), NEW q \in Queues, d.chain[q] # <<>>
    PROVE  /\ Tidy(Dequeue(d, q))
           /\ ~InChains(Dequeue(d, q), Head(d.chain[q]))
<1> DEFINE e == Dequeue(d, q)
<1>1. /\ e.accepting = d.accepting /\ e.pending = d.pending /\ e.runnable = d.runnable
      /\ e.phase = d.phase /\ e.aborted = d.aborted /\ e.lane = d.lane /\ e.pump = d.pump
      /\ \A r \in Queues : e.chain[r] = IF r = q THEN Tail(d.chain[q]) ELSE d.chain[r]
  BY Dequeued DEF Sound
<1> HIDE DEF e
<1>2. d.chain[q] \in Seq(Mutation)
  BY DEF Sound, Driver
<1>3. /\ DOMAIN d.chain[q] = 1..Len(d.chain[q]) /\ DOMAIN e.chain[q] = 1..Len(d.chain[q])-1
      /\ \A x \in 1..Len(d.chain[q])-1 : e.chain[q][x] = d.chain[q][x+1]
      /\ Head(d.chain[q]) = d.chain[q][1] /\ Len(d.chain[q]) \in Nat /\ Len(d.chain[q]) > 0
  <2>1. e.chain[q] = Tail(d.chain[q])
    BY <1>1
  <2> QED
    BY <1>2, <2>1, Beheaded
<1>4. \A r \in Queues : \A x \in DOMAIN e.chain[r] :
         \/ r # q /\ x \in DOMAIN d.chain[r] /\ e.chain[r][x] = d.chain[r][x]
         \/ /\ r = q /\ x \in 1..Len(d.chain[q])-1
            /\ x+1 \in DOMAIN d.chain[q] /\ e.chain[r][x] = d.chain[q][x+1]
  <2>1. ASSUME NEW x \in DOMAIN e.chain[q]
        PROVE  /\ x \in 1..Len(d.chain[q])-1 /\ x+1 \in DOMAIN d.chain[q]
               /\ e.chain[q][x] = d.chain[q][x+1]
    BY <2>1, <1>3
  <2> QED
    BY <1>1, <2>1
<1>6. ChainsFit(e)
  <2>1. ASSUME NEW r \in Queues, NEW x \in DOMAIN e.chain[r]
        PROVE  /\ e.chain[r][x] = NoJob => e.pump.at \in Calling
               /\ e.chain[r][x] # NoJob => e.phase[e.chain[r][x]] \in Mutating
    BY <1>1, <1>4 DEF Tidy, ChainsFit
  <2>2. ASSUME NEW r \in Queues, NEW s \in Queues, NEW x \in DOMAIN e.chain[r],
               NEW y \in DOMAIN e.chain[s], e.chain[r][x] = e.chain[s][y]
        PROVE  r = s /\ x = y
    <3>1. r = s
      BY <2>2, <1>4 DEF Tidy, ChainsFit
    <3>2. CASE r = q
      <4>1. x+1 = y+1 /\ x \in Int /\ y \in Int
        BY <2>2, <3>1, <3>2, <1>4 DEF Tidy, ChainsFit
      <4> QED
        BY <3>1, <4>1
    <3>3. CASE r # q
      BY <2>2, <3>1, <3>3, <1>4 DEF Tidy, ChainsFit
    <3> QED
      BY <3>2, <3>3
  <2> QED
    BY <2>1, <2>2 DEF ChainsFit
<1>7. Runners(e) = Runners(d)
  BY <1>1 DEF Runners
<1>8. Tidy(e)
  BY <1>1, <1>6, <1>7 DEF Tidy, LanesNamed, RunnableWaits, SlotsCover, PumpFits, AbortedStops
<1>9. ~InChains(e, Head(d.chain[q]))
  <2> SUFFICES ASSUME NEW r \in Queues, NEW x \in DOMAIN e.chain[r],
                      e.chain[r][x] = Head(d.chain[q])
               PROVE  FALSE
    BY DEF InChains
  <2>1. 1 \in DOMAIN d.chain[q]
    BY <1>3
  <2>2. CASE r # q
    BY <2>1, <2>2, <1>3, <1>4 DEF Tidy, ChainsFit
  <2>3. CASE r = q
    <3>1. x \in Int /\ x > 0 /\ x + 1 = 1
      <4>1. x \in 1..Len(d.chain[q])-1 /\ x+1 \in DOMAIN d.chain[q]
            /\ d.chain[q][x+1] = d.chain[q][1]
        BY <2>3, <1>3, <1>4
      <4> QED
        BY <4>1, <2>1, <1>3 DEF Tidy, ChainsFit
    <3> QED
      BY <3>1
  <2> QED
    BY <2>2, <2>3
<1> QED
  BY <1>8, <1>9 DEF e

-----------------------------------------------------------------------------
(* The pump's loop keeps the driver tidy *)

\* What a method that may wake the pump leaves alone, and what it does to
\* jobs: it starts those that wait for a slot.
Woken(d, e) ==
    /\ e.accepting = d.accepting /\ e.aborted = d.aborted
    /\ \A j \in Job : \/ e.phase[j] = d.phase[j]
                      \/ d.accepting /\ d.phase[j] = "runnable" /\ e.phase[j] = "executing"
    /\ \A q \in Queues :
          d.chain[q] # <<>> => e.chain[q] # <<>> /\ Head(e.chain[q]) = Head(d.chain[q])

\* The pump's state is replaced.
LEMMA PumpTidy ==
    ASSUME NEW d, Sound(d), Tidy(d), NEW p \in Pump, PumpFits(p),
           d.accepting => ~p.aborted,
           InChains(d, NoJob) => p.at \in Calling,
           Cardinality(Runners(d)) + Promised(p) <= Concurrency
    PROVE  Tidy([d EXCEPT !.pump = p])
<1> DEFINE e == [d EXCEPT !.pump = p]
<1>1. /\ e.accepting = d.accepting /\ e.pending = d.pending /\ e.runnable = d.runnable
      /\ e.phase = d.phase /\ e.aborted = d.aborted /\ e.lane = d.lane /\ e.chain = d.chain
      /\ e.pump = p
  BY DEF Sound, Driver
<1> HIDE DEF e
<1>2. Runners(e) = Runners(d)
  BY <1>1 DEF Runners
<1>3. ChainsFit(e)
  BY <1>1 DEF Tidy, ChainsFit, InChains
<1> QED
  BY <1>1, <1>2, <1>3 DEF Tidy, e, LanesNamed, RunnableWaits, SlotsCover, AbortedStops

\* A pump that begins, calls or ends has been promised nothing.
LEMMA PumpStages ==
    /\ PumpFits(NoPump) /\ Promised(NoPump) = 0 /\ NoPump.at = "idle" /\ NoPump.claims = <<>>
    /\ NoPump.aborted = FALSE
    /\ \A at \in {"idle", "claim", "over"} :
          LET p == [NoPump EXCEPT !.at = at]
          IN PumpFits(p) /\ Promised(p) = 0 /\ p.at = at /\ p.claims = <<>> /\ p.aborted = FALSE
BY DEF NoPump, PumpFits, Promised

\* No call of a pump that makes none is in the chains.
LEMMA NoCall ==
    ASSUME NEW d, Tidy(d), d.pump.at \notin Calling
    PROVE  ~InChains(d, NoJob)
BY DEF Tidy, ChainsFit, InChains

\* The fields of a driver that starts jobs.
LEMMA Started ==
    ASSUME NEW d \in Driver, NEW jobs, NEW e, e = Start(d, jobs)
    PROVE  /\ e.accepting = d.accepting /\ e.pending = d.pending /\ e.runnable = d.runnable
           /\ e.aborted = d.aborted /\ e.pump = d.pump /\ e.chain = d.chain
           /\ \A j \in Job : e.phase[j] = IF j \notin jobs THEN d.phase[j]
                                          ELSE IF d.phase[j] = "none" /\ Queue(j) \in Prepared
                                          THEN "preparing" ELSE "executing"
           /\ \A l \in Lanes : e.lane[l] = IF \E j \in jobs : Lane(j) = l
                                           THEN CHOOSE j \in jobs : Lane(j) = l ELSE d.lane[l]
BY DEF Driver, Start

\* Jobs that start find a slot each, and name their lanes.
LEMMA StartTidy ==
    ASSUME NEW d, Sound(d), Tidy(d), NEW jobs \in SUBSET Job, IsFiniteSet(jobs),
           \A j \in jobs : ~InChains(d, j),
           Cardinality(Runners(d)) + Cardinality(jobs) + Promised(d.pump) <= Concurrency
    PROVE  LET e == Start(d, jobs)
           IN /\ ChainsFit(e) /\ LanesNamed(e) /\ SlotsCover(e) /\ PumpFits(e.pump)
              /\ AbortedStops(e)
              /\ Cardinality(Runners(e)) <= Cardinality(Runners(d)) + Cardinality(jobs)
              /\ \A j \in Job : e.phase[j] = "runnable" => j \notin jobs /\ d.phase[j] = "runnable"
<1> DEFINE e == Start(d, jobs)
<1>1. /\ e.accepting = d.accepting /\ e.pending = d.pending /\ e.runnable = d.runnable
      /\ e.aborted = d.aborted /\ e.pump = d.pump /\ e.chain = d.chain
      /\ \A j \in Job : e.phase[j] = IF j \notin jobs THEN d.phase[j]
                                     ELSE IF d.phase[j] = "none" /\ Queue(j) \in Prepared
                                     THEN "preparing" ELSE "executing"
      /\ \A l \in Lanes : e.lane[l] = IF \E j \in jobs : Lane(j) = l
                                      THEN CHOOSE j \in jobs : Lane(j) = l ELSE d.lane[l]
  BY Started DEF Sound
<1>0. d.pump \in Pump /\ PumpFits(d.pump)
  BY DEF Sound, Driver, Tidy
<1> HIDE DEF e
<1>2. Runners(e) \subseteq Runners(d) \union jobs
  BY <1>1 DEF Runners
<1>3. /\ IsFiniteSet(Runners(d) \union jobs)
      /\ Cardinality(Runners(d) \union jobs) =
            Cardinality(Runners(d)) + Cardinality(jobs) - Cardinality(Runners(d) \cap jobs)
  BY RunnersCounted, FS_Union
<1>4. IsFiniteSet(Runners(d) \cap jobs)
  BY FS_Subset
<1>5. /\ Cardinality(Runners(d) \cap jobs) \in Nat /\ Cardinality(jobs) \in Nat
      /\ Cardinality(Runners(d)) \in Nat /\ Cardinality(Runners(e)) \in Nat
      /\ Cardinality(Runners(d) \union jobs) \in Nat
  BY <1>3, <1>4, RunnersCounted, FS_CardinalityType
<1>6. Cardinality(Runners(e)) <= Cardinality(Runners(d) \union jobs)
  BY <1>2, <1>3, FS_Subset
<1>7. Cardinality(Runners(e)) <= Cardinality(Runners(d)) + Cardinality(jobs)
  BY <1>3, <1>5, <1>6
<1>8. SlotsCover(e)
  <2>1. Promised(d.pump) \in Nat
    BY <1>0, PromisedSlots
  <2> QED
    BY <1>1, <1>5, <1>7, <2>1, Bounds DEF SlotsCover
<1>9. ChainsFit(e)
  <2>1. ASSUME NEW q \in Queues, NEW x \in DOMAIN d.chain[q], d.chain[q][x] # NoJob
        PROVE  d.chain[q][x] \in Job \ jobs
    <3>1. d.chain[q] \in Seq(Mutation)
      BY DEF Sound, Driver
    <3>2. d.chain[q][x] \in Mutation
      BY <3>1
    <3> QED
      BY <2>1, <3>2 DEF InChains, Mutation
  <2> QED
    BY <1>1, <2>1 DEF Tidy, ChainsFit
<1>10. LanesNamed(e)
  <2> SUFFICES ASSUME NEW l \in Lanes, e.lane[l] # NoJob
               PROVE  Lane(e.lane[l]) = l /\ e.phase[e.lane[l]] # "none"
    BY DEF LanesNamed
  <2>1. CASE \E j \in jobs : Lane(j) = l
    <3>1. e.lane[l] \in jobs /\ Lane(e.lane[l]) = l
      BY <1>1, <2>1
    <3> QED
      BY <1>1, <3>1
  <2>2. CASE ~\E j \in jobs : Lane(j) = l
    <3>1. e.lane[l] = d.lane[l] /\ d.lane[l] \in Mutation
      BY <1>1, <2>2 DEF Sound, Driver
    <3>2. d.lane[l] \in Job
      BY <3>1 DEF Mutation
    <3> QED
      BY <1>1, <3>1, <3>2 DEF Tidy, LanesNamed
  <2> QED
    BY <2>1, <2>2
<1>11. \A j \in Job : e.phase[j] = "runnable" => j \notin jobs /\ d.phase[j] = "runnable"
  BY <1>1
<1> QED
  BY <1>1, <1>0, <1>7, <1>8, <1>9, <1>10, <1>11 DEF e, Tidy, AbortedStops

\* A list names no more things than it is long.
LEMMA Listed ==
    ASSUME NEW n \in Nat, NEW s
    PROVE  LET T == {s[x] : x \in 1..n}
           IN IsFiniteSet(T) /\ Cardinality(T) \in Nat /\ Cardinality(T) <= n
<1> DEFINE T == {s[x] : x \in 1..n}
           f == [x \in 1..n |-> s[x]]
<1>1. IsFiniteSet(1..n) /\ Cardinality(1..n) = n
  BY FS_Interval
<1>2. f \in Surjection(1..n, T)
  BY DEF Surjection
<1> HIDE DEF T, f
<1>3. IsFiniteSet(T) /\ Cardinality(T) <= n
  BY <1>1, <1>2, FS_Surjection
<1> QED
  BY <1>3, FS_CardinalityType DEF T

\* The first claims that wait for a slot get one.
LEMMA TakeTidy ==
    ASSUME NEW d, Sound(d), Tidy(d), d.pump.at = "idle",
           NEW n \in 0..Len(d.runnable), n <= Free(d)
    PROVE  LET e == [Start(d, ToSet(SubSeq(d.runnable, 1, n))) EXCEPT
                        !.runnable = SubSeq(d.runnable, n + 1, Len(d.runnable))]
           IN /\ Tidy(e) /\ (d.accepting => Woken(d, e))
              /\ e.pump = d.pump /\ e.pending = d.pending /\ e.chain = d.chain
<1> DEFINE ready == ToSet(SubSeq(d.runnable, 1, n))
           rest == SubSeq(d.runnable, n + 1, Len(d.runnable))
           s == Start(d, ready)
           e == [s EXCEPT !.runnable = rest]
<1>1. d.runnable \in Seq(Job) /\ DOMAIN d.runnable = 1..Len(d.runnable) /\ Len(d.runnable) \in Nat
  <2>1. d.runnable \in Seq(Job)
    BY DEF Sound, Driver
  <2> QED
    BY <2>1
<1>2. \A x \in 1..Len(d.runnable) : d.runnable[x] \in Job /\ d.phase[d.runnable[x]] = "runnable"
  BY <1>1 DEF Sound, RunnableOnce
<1>3. ready = {d.runnable[x] : x \in 1..n}
  <2>1. /\ SubSeq(d.runnable, 1, n) \in Seq(Job) /\ Len(SubSeq(d.runnable, 1, n)) = n
        /\ \A x \in 1..n : SubSeq(d.runnable, 1, n)[x] = d.runnable[x]
    BY <1>1
  <2>2. DOMAIN SubSeq(d.runnable, 1, n) = 1..n
    BY <2>1
  <2> QED
    BY <2>1, <2>2 DEF ToSet
<1>4. DOMAIN rest = 1..Len(d.runnable)-n /\ \A x \in DOMAIN rest : rest[x] = d.runnable[x + n]
  <2>1. rest \in Seq(Job) /\ DOMAIN rest = 1..Len(d.runnable)-n
    BY <1>1
  <2>2. \A x \in 1..Len(d.runnable)-(n+1)+1 : rest[x] = d.runnable[(n+1)+x-1]
    BY <1>1, <1>2, SubSeqProperties
  <2> HIDE DEF rest
  <2>3. ASSUME NEW x \in DOMAIN rest PROVE rest[x] = d.runnable[x + n]
    <3>1. x \in 1..Len(d.runnable)-(n+1)+1 /\ (n+1)+x-1 = x+n
      BY <1>1, <2>1
    <3> QED
      BY <2>2, <3>1
  <2> QED
    BY <2>1, <2>3
<1> HIDE DEF ready, rest
<1>5. ready \in SUBSET Job /\ \A j \in ready : d.phase[j] = "runnable"
  BY <1>1, <1>2, <1>3
<1>6. IsFiniteSet(ready) /\ Cardinality(ready) <= n /\ Cardinality(ready) \in Nat
  <2>1. n \in Nat
    BY <1>1
  <2> DEFINE T == {d.runnable[x] : x \in 1..n}
  <2>2. IsFiniteSet(T) /\ Cardinality(T) \in Nat /\ Cardinality(T) <= n
    BY <2>1, Listed
  <2> QED
    BY <1>3, <2>2
<1>7. \A j \in ready : ~InChains(d, j)
  BY <1>5, JobShape DEF Tidy, ChainsFit, InChains, Mutating
<1>8. Promised(d.pump) = 0
  BY DEF Promised
<1>9. Cardinality(Runners(d)) + Cardinality(ready) + Promised(d.pump) <= Concurrency
  BY <1>6, <1>8, RunnersCounted, Bounds DEF Free
<1>10. /\ ChainsFit(s) /\ LanesNamed(s) /\ SlotsCover(s) /\ PumpFits(s.pump) /\ AbortedStops(s)
       /\ \A j \in Job : s.phase[j] = "runnable" => j \notin ready /\ d.phase[j] = "runnable"
  BY <1>5, <1>6, <1>7, <1>9, StartTidy
<1>11. /\ s.accepting = d.accepting /\ s.pending = d.pending /\ s.runnable = d.runnable
       /\ s.aborted = d.aborted /\ s.pump = d.pump /\ s.chain = d.chain
       /\ \A j \in Job : s.phase[j] = IF j \notin ready THEN d.phase[j]
                                      ELSE IF d.phase[j] = "none" /\ Queue(j) \in Prepared
                                      THEN "preparing" ELSE "executing"
  BY Started DEF Sound
<1>12. /\ e.accepting = s.accepting /\ e.pending = s.pending /\ e.runnable = rest
       /\ e.aborted = s.aborted /\ e.pump = s.pump /\ e.chain = s.chain
       /\ e.phase = s.phase /\ e.lane = s.lane
  BY DEF Sound, Driver, Start
<1> HIDE DEF s, e
<1>13. RunnableWaits(e)
  <2> SUFFICES ASSUME NEW j \in Job, s.phase[j] = "runnable"
               PROVE  j \in ToSet(rest)
    BY <1>12 DEF RunnableWaits
  <2>1. j \notin ready /\ j \in ToSet(d.runnable)
    BY <1>10 DEF Tidy, RunnableWaits
  <2>2. PICK x \in 1..Len(d.runnable) : d.runnable[x] = j
    BY <2>1, <1>1 DEF ToSet
  <2>3. x \notin 1..n
    BY <2>1, <2>2, <1>3
  <2>4. x - n \in DOMAIN rest /\ (x - n) + n = x
    BY <2>3, <1>1, <1>4
  <2>5. rest[x - n] = j
    BY <2>2, <2>4, <1>4
  <2> QED
    BY <2>4, <2>5 DEF ToSet
<1>14. Runners(e) = Runners(s)
  BY <1>12 DEF Runners
<1>15. Tidy(e)
  BY <1>10, <1>12, <1>13, <1>14 DEF Tidy, ChainsFit, LanesNamed, SlotsCover, AbortedStops
<1>16. d.accepting => Woken(d, e)
  BY <1>5, <1>11, <1>12 DEF Woken
<1> QED
  BY <1>11, <1>12, <1>15, <1>16 DEF e, s, ready, rest

\* What the pump's loop does to the pump.
Called(d) ==
    /\ d.pump.claims = <<>> /\ d.pump.at \in {"claim", "over"}

\* The pump's loop fills the free slots and may call an owner.
LEMMA LoopTidy ==
    ASSUME NEW d, Sound(d), Tidy(d), d.pump.at = "idle"
    PROVE  Tidy(Loop(d)) /\ Woken(d, Loop(d)) /\ Called(Loop(d))
<1> DEFINE n == IF Len(d.runnable) < Free(d) THEN Len(d.runnable) ELSE Free(d)
           rest == SubSeq(d.runnable, n + 1, Len(d.runnable))
           s == Start(d, ToSet(SubSeq(d.runnable, 1, n)))
           e == [s EXCEPT !.runnable = SubSeq(@, n + 1, Len(@))]
           claim == [NoPump EXCEPT !.at = "claim"]
           h == [e EXCEPT !.pump = claim]
           g == [e EXCEPT !.pending = Tail(@), !.pump = claim]
           over(f) == [f EXCEPT !.pump = [NoPump EXCEPT !.at = "over"]]
<1>1. Loop(d) = IF ~d.accepting \/ Free(d) <= 0 THEN over(d)
                ELSE IF Free(e) = 0 \/ e.pending = <<>> THEN over(e)
                ELSE Enqueue(g, Head(e.pending), NoJob)
  BY DEF Loop
<1>2. \A f : f \in Driver => /\ over(f).accepting = f.accepting /\ over(f).aborted = f.aborted
                             /\ over(f).phase = f.phase /\ over(f).chain = f.chain
                             /\ over(f).pump = [NoPump EXCEPT !.at = "over"]
  BY DEF Driver
<1>3. ASSUME NEW f, Sound(f), Tidy(f), f.pump.at = "idle"
      PROVE  Tidy(over(f)) /\ Called(over(f)) /\ Woken(f, over(f))
  <2> DEFINE p == [NoPump EXCEPT !.at = "over"]
  <2>1. ~InChains(f, NoJob)
    BY <1>3, NoCall DEF Calling
  <2>2. /\ p \in Pump /\ PumpFits(p) /\ Promised(p) = 0 /\ p.at = "over"
        /\ p.claims = <<>> /\ ~p.aborted
    BY NoPumpShape, PumpStages
  <2> HIDE DEF p
  <2>3. Cardinality(Runners(f)) + Promised(p) <= Concurrency
    <3>1. Promised(f.pump) = 0
      BY <1>3 DEF Promised
    <3> QED
      BY <1>3, <2>2, <3>1 DEF Tidy, SlotsCover
  <2>4. Tidy([f EXCEPT !.pump = p])
    BY <1>3, <2>1, <2>2, <2>3, PumpTidy
  <2>5. f \in Driver
    BY <1>3 DEF Sound
  <2> QED
    BY <1>2, <2>2, <2>4, <2>5 DEF p, Called, Woken
<1>4. CASE ~d.accepting \/ Free(d) <= 0
  <2> HIDE DEF over
  <2> QED
    BY <1>1, <1>3, <1>4
<1>5. CASE ~(~d.accepting \/ Free(d) <= 0)
  <2>1. Free(d) > 0 /\ Free(d) \in Int
    BY <1>5, FreeSlots DEF Sound
  <2>2. d.runnable \in Seq(Job)
    BY DEF Sound, Driver
  <2>3. n \in 0..Len(d.runnable) /\ n <= Free(d)
    BY <2>1, <2>2
  <2>4. s.runnable = d.runnable
    BY StartCommutes DEF Sound
  <2> HIDE DEF n
  <2>5. Sound(e)
    BY <2>3, <2>4, TakeSound
  <2>6. /\ Tidy(e) /\ Woken(d, e)
        /\ e.pump = d.pump /\ e.pending = d.pending /\ e.chain = d.chain
    <3>1. e = [s EXCEPT !.runnable = rest]
      BY <2>4
    <3> HIDE DEF e
    <3>2. LET f == [s EXCEPT !.runnable = rest]
          IN /\ Tidy(f) /\ (d.accepting => Woken(d, f))
             /\ f.pump = d.pump /\ f.pending = d.pending /\ f.chain = d.chain
      BY <2>3, TakeTidy
    <3> QED
      BY <1>5, <3>1, <3>2
  <2> HIDE DEF e
  <2>7. /\ Tidy(over(e)) /\ Called(over(e)) /\ Woken(e, over(e))
    BY <1>3, <2>5, <2>6
  <2>8. Woken(d, over(e))
    BY <2>6, <2>7 DEF Woken
  <2>9. ASSUME e.pending # <<>>
        PROVE  LET f == Enqueue(g, Head(e.pending), NoJob)
               IN Tidy(f) /\ Called(f) /\ Woken(d, f)
    <3> DEFINE f == Enqueue(g, Head(e.pending), NoJob)
    <3>1. e.pending \in Seq(Queues)
      BY <2>5 DEF Sound, Driver
    <3>2. Tail(e.pending) \in Seq(Queues) /\ Head(e.pending) \in Queues
      BY <2>9, <3>1
    <3>3. Sound(g)
      BY <2>5, <3>2, NoPumpShape DEF Sound, Driver, LanesHeld, RunnableOnce
    <3>4. ~InChains(e, NoJob)
      BY <2>6, NoCall DEF Calling
    <3>5. /\ claim \in Pump /\ PumpFits(claim) /\ Promised(claim) = 0 /\ claim.at = "claim"
          /\ claim.claims = <<>> /\ ~claim.aborted
      BY NoPumpShape, PumpStages
    <3>6. Tidy(h)
      <4>1. Promised(e.pump) = 0
        BY <2>6 DEF Promised
      <4>2. Cardinality(Runners(e)) + Promised(claim) <= Concurrency
        BY <2>6, <3>5, <4>1 DEF Tidy, SlotsCover
      <4> HIDE DEF claim
      <4> QED
        BY <2>5, <2>6, <3>4, <3>5, <4>2, PumpTidy
    <3>7. /\ g.accepting = e.accepting /\ g.aborted = e.aborted /\ g.phase = e.phase
          /\ g.chain = e.chain /\ g.pump = claim /\ g.lane = e.lane /\ g.runnable = e.runnable
      BY <2>5 DEF Sound, Driver
    <3>8. /\ h.accepting = e.accepting /\ h.aborted = e.aborted /\ h.phase = e.phase
          /\ h.chain = e.chain /\ h.pump = claim /\ h.lane = e.lane /\ h.runnable = e.runnable
      BY <2>5 DEF Sound, Driver
    <3> HIDE DEF g, h, claim
    <3>9. Runners(g) = Runners(h)
      BY <3>7, <3>8 DEF Runners
    <3>10. Tidy(g)
      BY <3>6, <3>7, <3>8, <3>9 DEF Tidy, ChainsFit, LanesNamed, RunnableWaits, SlotsCover,
         AbortedStops
    <3>11. ~InChains(g, NoJob)
      BY <3>4, <3>7 DEF InChains
    <3>12. Tidy(f)
      BY <3>2, <3>3, <3>5, <3>7, <3>10, <3>11, EnqueueTidy, JobShape DEF Calling
    <3>13. /\ f.accepting = g.accepting /\ f.phase = g.phase /\ f.aborted = g.aborted
           /\ f.pump = g.pump
           /\ \A r \in Queues : f.chain[r] = IF r = Head(e.pending)
                                             THEN Append(g.chain[Head(e.pending)], NoJob)
                                             ELSE g.chain[r]
      BY <3>2, <3>3, Enqueued, JobShape DEF Sound
    <3>14. \A q \in Queues : g.chain[q] \in Seq(Mutation)
      BY <3>3 DEF Sound, Driver
    <3> HIDE DEF f
    <3>15. \A q \in Queues :
              g.chain[q] # <<>> => f.chain[q] # <<>> /\ Head(f.chain[q]) = Head(g.chain[q])
      <4> SUFFICES ASSUME NEW q \in Queues, g.chain[q] # <<>>
                   PROVE  f.chain[q] # <<>> /\ Head(f.chain[q]) = Head(g.chain[q])
        OBVIOUS
      <4>1. g.chain[q] \in Seq(Mutation) /\ NoJob \in Mutation
        BY <3>14, JobShape
      <4>2. f.chain[q] = g.chain[q] \/ f.chain[q] = Append(g.chain[q], NoJob)
        BY <3>13
      <4> QED
        BY <4>1, <4>2
    <3>16. Woken(d, f)
      BY <2>6, <3>7, <3>13, <3>15 DEF Woken
    <3> QED
      BY <3>5, <3>7, <3>12, <3>13, <3>16 DEF Called, f
  <2> HIDE DEF g, h, over
  <2> QED
    BY <1>1, <1>5, <2>7, <2>8, <2>9
<1> HIDE DEF e, g, h, over
<1> QED
  BY <1>4, <1>5

-----------------------------------------------------------------------------
(* Kicks, hints and the ends of jobs do *)

\* A kick leaves the pump as it was, unless it wakes it.
Stirs(d, e) ==
    /\ Woken(d, e)
    /\ e.pump = d.pump \/ (d.accepting /\ d.pump.at = "idle" /\ Called(e))

\* Kicks may follow one another.
LEMMA StirsAgain ==
    ASSUME NEW c, NEW d, NEW e, Stirs(c, d), Stirs(d, e)
    PROVE  Stirs(c, e)
<1>1. Woken(c, e)
  BY DEF Stirs, Woken
<1> QED
  BY <1>1 DEF Stirs, Woken, Called

\* A kick keeps the driver tidy.
LEMMA KickTidy ==
    ASSUME NEW d, Sound(d), Tidy(d)
    PROVE  Tidy(Kick(d)) /\ Stirs(d, Kick(d))
<1>1. Stirs(d, d)
  BY DEF Stirs, Woken
<1>2. CASE ~d.accepting \/ d.pump.at # "idle" \/ Free(d) <= 0
  BY <1>1, <1>2 DEF Kick
<1>3. CASE ~(~d.accepting \/ d.pump.at # "idle" \/ Free(d) <= 0)
  BY <1>3, LoopTidy DEF Kick, Stirs
<1> QED
  BY <1>2, <1>3

\* Hints do not disturb it.
LEMMA HintTidy ==
    ASSUME NEW d, Sound(d), Tidy(d), NEW pending \in Seq(Queues)
    PROVE  LET e == [d EXCEPT !.pending = pending]
           IN Sound(e) /\ Tidy(e) /\ Stirs(d, e)
<1> DEFINE e == [d EXCEPT !.pending = pending]
<1>1. /\ e.accepting = d.accepting /\ e.aborted = d.aborted /\ e.phase = d.phase
      /\ e.chain = d.chain /\ e.pump = d.pump /\ e.lane = d.lane /\ e.runnable = d.runnable
      /\ e \in Driver
  BY DEF Sound, Driver
<1> HIDE DEF e
<1>2. Runners(e) = Runners(d)
  BY <1>1 DEF Runners
<1>3. Tidy(e)
  BY <1>1, <1>2 DEF Tidy, ChainsFit, LanesNamed, RunnableWaits, SlotsCover, AbortedStops
<1>4. Sound(e)
  BY <1>1 DEF Sound, LanesHeld, RunnableOnce
<1> QED
  BY <1>1, <1>3, <1>4 DEF e, Stirs, Woken

\* A hint keeps the driver tidy, and only stirs it.
LEMMA NotifyTidy ==
    ASSUME NEW d, Sound(d), Tidy(d), NEW q \in Queues
    PROVE  Tidy(Notify(d, q)) /\ Stirs(d, Notify(d, q))
<1> DEFINE p == IF q \in ToSet(d.pending) THEN d.pending ELSE Append(d.pending, q)
           e == [d EXCEPT !.pending = p]
<1>1. d.pending \in Seq(Queues)
  BY DEF Sound, Driver
<1>2. p \in Seq(Queues)
  BY <1>1
<1>3. Notify(d, q) = IF ~d.accepting THEN d ELSE Kick(e)
  BY DEF Notify
<1> HIDE DEF p
<1>4. Sound(e) /\ Tidy(e) /\ Stirs(d, e)
  BY <1>2, HintTidy
<1>5. Stirs(d, d)
  BY DEF Stirs, Woken
<1> HIDE DEF e
<1>6. Tidy(Kick(e)) /\ Stirs(e, Kick(e))
  BY <1>4, KickTidy
<1>7. Stirs(d, Kick(e))
  BY <1>4, <1>6, StirsAgain
<1> QED
  BY <1>3, <1>5, <1>6, <1>7

\* So do the hints of a scan.
LEMMA NotifyAllTidy ==
    ASSUME NEW d, Sound(d), Tidy(d), NEW qs \in Seq(Queues)
    PROVE  Tidy(NotifyAll(d, qs)) /\ Stirs(d, NotifyAll(d, qs))
<1> DEFINE p == d.pending \o qs
           e == [d EXCEPT !.pending = p]
<1>1. d.pending \in Seq(Queues)
  BY DEF Sound, Driver
<1>2. p \in Seq(Queues)
  BY <1>1
<1>3. NotifyAll(d, qs) = IF ~d.accepting \/ qs = <<>> THEN d ELSE Kick(e)
  BY DEF NotifyAll
<1> HIDE DEF p
<1>4. Sound(e) /\ Tidy(e) /\ Stirs(d, e)
  BY <1>2, HintTidy
<1>5. Stirs(d, d)
  BY DEF Stirs, Woken
<1> HIDE DEF e
<1>6. Tidy(Kick(e)) /\ Stirs(e, Kick(e))
  BY <1>4, KickTidy
<1>7. Stirs(d, Kick(e))
  BY <1>4, <1>6, StirsAgain
<1> QED
  BY <1>3, <1>5, <1>6, <1>7

\* A pump that ends leaves an idle one or, of a driver that accepts work, its
\* successor.
LEMMA PumpEndsTidy ==
    ASSUME NEW d, Sound(d), Tidy(d), d.pump.at = "over"
    PROVE  LET e == PumpEnds(d)
           IN /\ Tidy(e) /\ Woken(d, e)
              /\ e.pump = NoPump \/ (d.accepting /\ Called(e))
<1> DEFINE e == [d EXCEPT !.pump = NoPump]
<1>1. PumpEnds(d) = IF e.pending # <<>> \/ e.runnable # <<>> THEN Kick(e) ELSE e
  BY DEF PumpEnds
<1>2. /\ e.accepting = d.accepting /\ e.aborted = d.aborted /\ e.phase = d.phase
      /\ e.chain = d.chain /\ e.pump = NoPump
  BY DEF Sound, Driver
<1>3. Sound(e)
  BY PumpSound, NoPumpShape
<1>4. Tidy(e)
  <2>1. ~InChains(d, NoJob)
    BY NoCall DEF Calling
  <2>2. Promised(d.pump) = 0
    BY DEF Promised
  <2>3. Cardinality(Runners(d)) + Promised(NoPump) <= Concurrency
    BY <2>2, PumpStages DEF Tidy, SlotsCover
  <2> QED
    BY <2>1, <2>3, NoPumpShape, PumpStages, PumpTidy
<1> HIDE DEF e
<1>5. Woken(d, e)
  BY <1>2 DEF Woken
<1>6. Tidy(Kick(e)) /\ Stirs(e, Kick(e))
  BY <1>3, <1>4, KickTidy
<1>7. Woken(d, Kick(e))
  BY <1>5, <1>6 DEF Stirs, Woken
<1> QED
  BY <1>1, <1>2, <1>4, <1>5, <1>6, <1>7 DEF Stirs

\* A job that no longer holds its lane gives it up.
LEMMA ReleaseTidy ==
    ASSUME NEW d, Sound(d), Tidy(d), NEW j \in Job
    PROVE  LET e == Release(d, j)
           IN /\ Tidy(e)
              /\ e.accepting = d.accepting /\ e.aborted = d.aborted /\ e.phase = d.phase
              /\ e.chain = d.chain /\ e.pump = d.pump /\ e.runnable = d.runnable
              /\ \A l \in Lanes : e.lane[l] = d.lane[l] \/ e.lane[l] = NoJob
              /\ \A l \in Lanes : e.lane[l] # j
<1> DEFINE e == Release(d, j)
<1>1. /\ e.accepting = d.accepting /\ e.aborted = d.aborted /\ e.phase = d.phase
      /\ e.chain = d.chain /\ e.pump = d.pump /\ e.runnable = d.runnable
      /\ \A l \in Lanes : e.lane[l] = IF l = Lane(j) /\ d.lane[l] = j THEN NoJob ELSE d.lane[l]
  BY DEF Sound, Driver, Release
<1> HIDE DEF e
<1>2. Runners(e) = Runners(d)
  BY <1>1 DEF Runners
<1>3. Tidy(e)
  BY <1>1, <1>2 DEF Tidy, ChainsFit, LanesNamed, RunnableWaits, SlotsCover, AbortedStops
<1>4. \A l \in Lanes : e.lane[l] # j
  BY <1>1, JobShape DEF Tidy, LanesNamed
<1> QED
  BY <1>1, <1>3, <1>4 DEF e

\* What the end of a job leaves of the others.
Ended(d, e, j) ==
    /\ e.accepting = d.accepting /\ e.aborted = d.aborted \ {j}
    /\ e.phase[j] = "none"
    /\ \A k \in Job \ {j} : \/ e.phase[k] = d.phase[k]
                            \/ d.accepting /\ d.phase[k] = "runnable" /\ e.phase[k] = "executing"
    /\ \A q \in Queues :
          d.chain[q] # <<>> => e.chain[q] # <<>> /\ Head(e.chain[q]) = Head(d.chain[q])
    /\ e.pump = d.pump \/ (d.accepting /\ d.pump.at = "idle" /\ Called(e))

\* A job ends.
LEMMA EndJobTidy ==
    ASSUME NEW d, Sound(d), Tidy(d), NEW j \in Job, d.phase[j] # "runnable", ~InChains(d, j),
           NEW continue \in BOOLEAN
    PROVE  Tidy(EndJob(d, j, continue)) /\ Ended(d, EndJob(d, j, continue), j)
<1> DEFINE r == Release(d, j)
           e == [r EXCEPT !.phase[j] = "none", !.aborted = @ \ {j}]
<1>1. /\ Tidy(r)
      /\ r.accepting = d.accepting /\ r.aborted = d.aborted /\ r.phase = d.phase
      /\ r.chain = d.chain /\ r.pump = d.pump /\ r.runnable = d.runnable
      /\ \A l \in Lanes : r.lane[l] # j
  BY ReleaseTidy
<1>2. /\ e.accepting = r.accepting /\ e.aborted = r.aborted \ {j}
      /\ e.phase = [r.phase EXCEPT ![j] = "none"]
      /\ e.chain = r.chain /\ e.pump = r.pump /\ e.runnable = r.runnable /\ e.lane = r.lane
  BY DEF Sound, Driver, Release
<1>3. \A k \in Job : e.phase[k] = IF k = j THEN "none" ELSE d.phase[k]
  <2>1. DOMAIN d.phase = Job
    BY DEF Sound, Driver
  <2> QED
    BY <2>1, <1>1, <1>2
<1>4. Sound(e)
  BY EndedSound
<1>10. EndJob(d, j, continue) = Kick(IF continue THEN Notify(e, Queue(j)) ELSE e)
  BY DEF EndJob
<1>5. \A q \in Queues : \A x \in DOMAIN d.chain[q] :
         d.chain[q][x] # NoJob => d.chain[q][x] \in Job \ {j}
  <2> SUFFICES ASSUME NEW q \in Queues, NEW x \in DOMAIN d.chain[q], d.chain[q][x] # NoJob
               PROVE  d.chain[q][x] \in Job \ {j}
    OBVIOUS
  <2>1. d.chain[q] \in Seq(Mutation)
    BY DEF Sound, Driver
  <2>2. d.chain[q][x] \in Mutation
    BY <2>1
  <2> QED
    BY <2>2 DEF InChains, Mutation
<1>0. r.lane = e.lane /\ \A l \in Lanes : e.lane[l] \in Mutation
  BY <1>2, <1>4 DEF Sound, Driver
<1> HIDE DEF r, e
<1>6. ChainsFit(e)
  BY <1>1, <1>2, <1>3, <1>5 DEF Tidy, ChainsFit
<1>7. LanesNamed(e)
  BY <1>0, <1>1, <1>2, <1>3 DEF Tidy, LanesNamed, Mutation
<1>8. SlotsCover(e)
  <2>1. Runners(e) \subseteq Runners(d)
    BY <1>3 DEF Runners, Running
  <2>2. Promised(d.pump) \in Nat /\ e.pump = d.pump
    BY <1>1, <1>2, PromisedSlots DEF Sound, Driver, Tidy
  <2> QED
    BY <2>1, <2>2, FewerRunners DEF Tidy
<1>9. Tidy(e)
  <2>1. RunnableWaits(e)
    BY <1>1, <1>2, <1>3 DEF Tidy, RunnableWaits
  <2>2. AbortedStops(e) /\ PumpFits(e.pump)
    BY <1>1, <1>2 DEF Tidy, AbortedStops
  <2> QED
    BY <2>1, <2>2, <1>6, <1>7, <1>8 DEF Tidy
<1>11. \A f : Stirs(e, f) => Ended(d, f, j)
  <2> SUFFICES ASSUME NEW f, Stirs(e, f) PROVE Ended(d, f, j)
    OBVIOUS
  <2>1. f.phase[j] = "none"
    BY <1>3 DEF Stirs, Woken
  <2>2. \A k \in Job \ {j} : \/ f.phase[k] = d.phase[k]
                             \/ d.accepting /\ d.phase[k] = "runnable" /\ f.phase[k] = "executing"
    BY <1>1, <1>2, <1>3 DEF Stirs, Woken
  <2> QED
    BY <2>1, <2>2, <1>1, <1>2 DEF Stirs, Woken, Ended
<1>12. LET f == IF continue THEN Notify(e, Queue(j)) ELSE e
       IN Sound(f) /\ Tidy(f) /\ Stirs(e, f)
  <2>1. Stirs(e, e)
    BY DEF Stirs, Woken
  <2> QED
    BY <2>1, <1>4, <1>9, NotifySound, NotifyTidy, JobShape
<1>13. LET f == IF continue THEN Notify(e, Queue(j)) ELSE e
       IN Tidy(Kick(f)) /\ Stirs(e, Kick(f))
  BY <1>12, KickTidy, StirsAgain
<1> QED
  BY <1>10, <1>11, <1>13

-----------------------------------------------------------------------------
(* Mutations and grants do *)

\* A job moves on to a settlement or a failure, which waits in its chain.
LEMMA MutationTidy ==
    ASSUME NEW d, Sound(d), Tidy(d), NEW q \in Queues, NEW j \in Job,
           d.phase[j] # "runnable", ~InChains(d, j),
           NEW p \in Mutating, p \in Running => d.phase[j] \in Running
    PROVE  LET e == Enqueue([d EXCEPT !.phase[j] = p], q, j)
           IN /\ Tidy(e)
              /\ e.accepting = d.accepting /\ e.aborted = d.aborted /\ e.pump = d.pump
              /\ \A k \in Job : e.phase[k] = IF k = j THEN p ELSE d.phase[k]
              /\ \A r \in Queues :
                    d.chain[r] # <<>> => e.chain[r] # <<>> /\ Head(e.chain[r]) = Head(d.chain[r])
<1> DEFINE f == [d EXCEPT !.phase[j] = p]
           e == Enqueue(f, q, j)
<1>1. /\ f.accepting = d.accepting /\ f.aborted = d.aborted /\ f.pump = d.pump
      /\ f.chain = d.chain /\ f.lane = d.lane /\ f.runnable = d.runnable
      /\ \A k \in Job : f.phase[k] = IF k = j THEN p ELSE d.phase[k]
  BY DEF Sound, Driver
<1>2. Sound(f)
  <2>1. p \in Phases \ InLane
    BY DEF Mutating, Phases, Running, Preparing, InLane
  <2> QED
    BY <2>1, PhaseSound
<1> HIDE DEF f
<1>3. \A r \in Queues : \A x \in DOMAIN d.chain[r] :
         d.chain[r][x] # NoJob => d.chain[r][x] \in Job \ {j}
  <2> SUFFICES ASSUME NEW r \in Queues, NEW x \in DOMAIN d.chain[r], d.chain[r][x] # NoJob
               PROVE  d.chain[r][x] \in Job \ {j}
    OBVIOUS
  <2>1. d.chain[r] \in Seq(Mutation)
    BY DEF Sound, Driver
  <2>2. d.chain[r][x] \in Mutation
    BY <2>1
  <2> QED
    BY <2>2 DEF InChains, Mutation
<1>4. ChainsFit(f)
  BY <1>1, <1>3 DEF Tidy, ChainsFit
<1>5. LanesNamed(f)
  <2> SUFFICES ASSUME NEW l \in Lanes, f.lane[l] # NoJob
               PROVE  Lane(f.lane[l]) = l /\ f.phase[f.lane[l]] # "none"
    BY DEF LanesNamed
  <2>1. d.lane[l] \in Job
    BY <1>1 DEF Sound, Driver, Mutation
  <2> QED
    BY <2>1, <1>1 DEF Tidy, LanesNamed, Mutating
<1>6. SlotsCover(f)
  <2>1. Runners(f) \subseteq Runners(d)
    BY <1>1 DEF Runners
  <2>2. Promised(d.pump) \in Nat
    BY PromisedSlots DEF Sound, Driver, Tidy
  <2> QED
    BY <1>1, <2>1, <2>2, FewerRunners DEF Tidy
<1>7. RunnableWaits(f)
  BY <1>1 DEF Tidy, RunnableWaits, Mutating
<1>8. Tidy(f)
  BY <1>1, <1>4, <1>5, <1>6, <1>7 DEF Tidy, AbortedStops
<1>9. ~InChains(f, j) /\ f.phase[j] \in Mutating
  BY <1>1 DEF InChains
<1>10. Tidy(e)
  BY <1>2, <1>8, <1>9, EnqueueTidy, JobShape
<1>11. /\ e.accepting = f.accepting /\ e.aborted = f.aborted /\ e.pump = f.pump
       /\ e.phase = f.phase
       /\ \A r \in Queues : e.chain[r] = IF r = q THEN Append(f.chain[q], j) ELSE f.chain[r]
  BY <1>2, Enqueued, JobShape DEF Sound
<1> HIDE DEF e
<1>12. \A r \in Queues :
          d.chain[r] # <<>> => e.chain[r] # <<>> /\ Head(e.chain[r]) = Head(d.chain[r])
  <2> SUFFICES ASSUME NEW r \in Queues, d.chain[r] # <<>>
               PROVE  e.chain[r] # <<>> /\ Head(e.chain[r]) = Head(d.chain[r])
    OBVIOUS
  <2>1. d.chain[r] \in Seq(Mutation) /\ j \in Mutation
    BY JobShape DEF Sound, Driver
  <2>2. e.chain[r] = d.chain[r] \/ e.chain[r] = Append(d.chain[r], j)
    BY <1>1, <1>11
  <2> QED
    BY <2>1, <2>2
<1> QED
  BY <1>1, <1>10, <1>11, <1>12 DEF e, f

\* A prepared claim that is handed over waits for a slot.
LEMMA HandOverTidy ==
    ASSUME NEW d, Sound(d), Tidy(d), NEW j \in Job, d.phase[j] = "preparing"
    PROVE  LET e == [d EXCEPT !.phase[j] = "runnable", !.runnable = Append(@, j)]
           IN /\ Tidy(e)
              /\ e.accepting = d.accepting /\ e.aborted = d.aborted /\ e.pump = d.pump
              /\ e.chain = d.chain
              /\ \A k \in Job : e.phase[k] = IF k = j THEN "runnable" ELSE d.phase[k]
<1> DEFINE e == [d EXCEPT !.phase[j] = "runnable", !.runnable = Append(@, j)]
<1>1. /\ e.accepting = d.accepting /\ e.aborted = d.aborted /\ e.pump = d.pump
      /\ e.chain = d.chain /\ e.lane = d.lane /\ e.runnable = Append(d.runnable, j)
      /\ \A k \in Job : e.phase[k] = IF k = j THEN "runnable" ELSE d.phase[k]
  BY DEF Sound, Driver
<1> HIDE DEF e
<1>2. \A r \in Queues : \A x \in DOMAIN d.chain[r] :
         d.chain[r][x] # NoJob => d.chain[r][x] \in Job \ {j}
  <2> SUFFICES ASSUME NEW r \in Queues, NEW x \in DOMAIN d.chain[r], d.chain[r][x] # NoJob
               PROVE  d.chain[r][x] \in Job \ {j}
    OBVIOUS
  <2>1. d.chain[r] \in Seq(Mutation)
    BY DEF Sound, Driver
  <2>2. d.chain[r][x] \in Mutation
    BY <2>1
  <2> QED
    BY <2>2 DEF Mutation, Tidy, ChainsFit, Mutating
<1>3. ChainsFit(e)
  BY <1>1, <1>2 DEF Tidy, ChainsFit
<1>4. LanesNamed(e)
  <2> SUFFICES ASSUME NEW l \in Lanes, e.lane[l] # NoJob
               PROVE  Lane(e.lane[l]) = l /\ e.phase[e.lane[l]] # "none"
    BY DEF LanesNamed
  <2>1. d.lane[l] \in Job
    BY <1>1 DEF Sound, Driver, Mutation
  <2> QED
    BY <2>1, <1>1 DEF Tidy, LanesNamed
<1>5. SlotsCover(e)
  <2>1. Runners(e) \subseteq Runners(d)
    BY <1>1 DEF Runners, Running
  <2>2. Promised(d.pump) \in Nat
    BY PromisedSlots DEF Sound, Driver, Tidy
  <2> QED
    BY <1>1, <2>1, <2>2, FewerRunners DEF Tidy
<1>6. RunnableWaits(e)
  <2>1. d.runnable \in Seq(Job)
    BY DEF Sound, Driver
  <2>2. /\ Len(d.runnable) \in Nat
        /\ DOMAIN d.runnable = 1..Len(d.runnable) /\ DOMAIN e.runnable = 1..Len(d.runnable)+1
        /\ \A x \in 1..Len(d.runnable) : e.runnable[x] = d.runnable[x]
        /\ e.runnable[Len(d.runnable)+1] = j
    BY <1>1, <2>1, Appended
  <2>3. j \in ToSet(e.runnable)
    BY <2>2 DEF ToSet
  <2>4. ToSet(d.runnable) \subseteq ToSet(e.runnable)
    BY <2>2 DEF ToSet
  <2> QED
    BY <1>1, <2>3, <2>4 DEF Tidy, RunnableWaits
<1> QED
  BY <1>1, <1>3, <1>4, <1>5, <1>6 DEF Tidy, AbortedStops, e

\* The first places of a list, told by what holds of all places before.
LEMMA FirstPlaces ==
    ASSUME NEW m \in Nat, NEW S \in SUBSET (1..m), \A n \in S : 1..n \in SUBSET S
    PROVE  Cardinality(S) \in 0..m /\ S = 1..Cardinality(S)
<1> DEFINE k == Cardinality(S)
<1>1. IsFiniteSet(1..m) /\ Cardinality(1..m) = m
  BY FS_Interval
<1>2. IsFiniteSet(S) /\ k \in Nat /\ k <= m
  BY <1>1, FS_Subset, FS_CardinalityType
<1>3. ASSUME NEW n \in S PROVE n \in 1..k
  <2>1. n \in Nat /\ n > 0
    OBVIOUS
  <2>2. Cardinality(1..n) = n
    BY <2>1, FS_Interval
  <2>3. Cardinality(1..n) <= k
    BY <1>2, FS_Subset
  <2> QED
    BY <1>2, <2>1, <2>2, <2>3
<1>4. IsFiniteSet(1..k) /\ Cardinality(1..k) = k
  BY <1>2, FS_Interval
<1>5. S = 1..k
  BY <1>3, <1>4, FS_Subset
<1> QED
  BY <1>2, <1>5

\* What granting claims leaves of the driver: every claim is started or kept
\* by the pump, and nothing else comes or goes.
Grants(d, e, claims) ==
    /\ e.accepting = d.accepting /\ e.aborted = d.aborted
    /\ \A j \in Job : d.phase[j] # "none" => e.phase[j] # "none"
    /\ \A j \in Job : d.phase[j] = "none" /\ e.phase[j] # "none" => j \in ToSet(claims)
    /\ \A j \in ToSet(claims) : e.phase[j] # "none" \/ j \in ToSet(e.pump.claims)
    /\ ToSet(e.pump.claims) \subseteq ToSet(claims) /\ Unstarted(e, e.pump.claims)
    /\ e.pump.at \in {"claim", "over", "duplicate"}
    /\ \A q \in Queues :
          d.chain[q] # <<>> => e.chain[q] # <<>> /\ Head(e.chain[q]) = Head(d.chain[q])

\* The pump grants what it was promised.
LEMMA GrantTidy ==
    ASSUME NEW d, Sound(d), Tidy(d), d.pump.at = "idle", NEW claims \in Seq(Job),
           Unstarted(d, claims), Cardinality(Runners(d)) + Len(claims) <= Concurrency
    PROVE  Tidy(Grant(d, claims)) /\ Grants(d, Grant(d, claims), claims)
<1> DEFINE granted == {n \in DOMAIN claims : \A x \in 1..n :
                          /\ d.lane[Lane(claims[x])] = NoJob
                          /\ \A y \in 1..x-1 : Lane(claims[y]) # Lane(claims[x])}
           jobs == {claims[n] : n \in granted}
           e == Start(d, jobs)
           k == Cardinality(granted)
           rest == SubSeq(claims, k + 1, Len(claims))
           p == [NoPump EXCEPT !.at = "duplicate", !.claims = rest]
           g == [e EXCEPT !.pump = p]
<1>1. Grant(d, claims) = IF rest = <<>> THEN Loop(e) ELSE Enqueue(g, Queue(rest[1]), NoJob)
  BY DEF Grant
<1>2. DOMAIN claims = 1..Len(claims) /\ Len(claims) \in Nat
  OBVIOUS
<1>3. \A n \in granted : /\ n \in 1..Len(claims)
                         /\ d.lane[Lane(claims[n])] = NoJob
                         /\ \A y \in 1..n-1 : Lane(claims[y]) # Lane(claims[n])
  BY <1>2
<1>4. granted \in SUBSET (1..Len(claims)) /\ \A n \in granted : 1..n \in SUBSET granted
  BY <1>2
<1> HIDE DEF granted
<1>5. k \in 0..Len(claims) /\ granted = 1..k
  BY <1>2, <1>4, FirstPlaces
<1> HIDE DEF k
<1>6. jobs = {claims[n] : n \in 1..k} /\ k \in Nat
  BY <1>2, <1>5
<1>7. rest \in Seq(Job) /\ Len(rest) = Len(claims) - k /\ DOMAIN rest = 1..Len(rest)
  <2>1. \A i \in k+1..Len(claims) : claims[i] \in Job
    BY <1>2, <1>5
  <2>2. /\ rest \in Seq(Job)
        /\ Len(rest) = IF k+1 <= Len(claims) THEN Len(claims)-(k+1)+1 ELSE 0
    BY <1>2, <1>5, <2>1, SubSeqProperties
  <2> HIDE DEF rest
  <2>3. Len(rest) = Len(claims) - k
    <3>1. k \in Int /\ Len(claims) \in Int /\ k <= Len(claims)
      BY <1>2, <1>5
    <3>2. CASE k+1 <= Len(claims)
      BY <2>2, <3>1, <3>2
    <3>3. CASE ~(k+1 <= Len(claims))
      BY <2>2, <3>1, <3>3
    <3> QED
      BY <3>2, <3>3
  <2>4. DOMAIN rest = 1..Len(rest)
    BY <2>2
  <2> QED
    BY <2>2, <2>3, <2>4
<1>8. \A x \in 1..Len(rest) : rest[x] = claims[x + k] /\ x + k \in k+1..Len(claims)
  <2>1. \A i \in k+1..Len(claims) : claims[i] \in Job
    BY <1>2, <1>5
  <2>2. \A x \in 1..Len(claims)-(k+1)+1 : rest[x] = claims[(k+1)+x-1]
    BY <1>2, <1>5, <2>1, SubSeqProperties
  <2> HIDE DEF rest
  <2>3. ASSUME NEW x \in 1..Len(rest) PROVE rest[x] = claims[x + k] /\ x + k \in k+1..Len(claims)
    <3>1. x \in 1..Len(claims)-(k+1)+1 /\ (k+1)+x-1 = x+k
      BY <1>2, <1>5, <1>7
    <3> QED
      BY <1>2, <1>5, <1>7, <2>2, <3>1
  <2> QED
    BY <2>3
<1>9. jobs \in SUBSET Job /\ \A j \in jobs : d.lane[Lane(j)] = NoJob /\ d.phase[j] = "none"
  BY <1>2, <1>3, <1>4 DEF Unstarted
<1>10. \A j, i \in jobs : Lane(j) = Lane(i) => j = i
  <2> SUFFICES ASSUME NEW n \in granted, NEW m \in granted, Lane(claims[n]) = Lane(claims[m])
               PROVE  claims[n] = claims[m]
    OBVIOUS
  <2>1. n \in Nat /\ m \in Nat /\ n > 0 /\ m > 0
    BY <1>2, <1>3
  <2>2. ~(n < m) /\ ~(m < n)
    BY <1>3, <2>1
  <2> QED
    BY <2>1, <2>2
<1>11. IsFiniteSet(jobs) /\ Cardinality(jobs) \in Nat /\ Cardinality(jobs) <= k
  <2> DEFINE T == {claims[n] : n \in 1..k}
  <2>1. IsFiniteSet(T) /\ Cardinality(T) \in Nat /\ Cardinality(T) <= k
    BY <1>6, Listed
  <2> QED
    BY <1>6, <2>1
<1>12. \A j \in ToSet(claims) : j \in jobs \/ j \in ToSet(rest)
  <2> SUFFICES ASSUME NEW x \in 1..Len(claims) PROVE claims[x] \in jobs \/ claims[x] \in ToSet(rest)
    BY <1>2 DEF ToSet
  <2> HIDE DEF rest, jobs
  <2>1. CASE x \in 1..k
    BY <2>1, <1>6
  <2>2. CASE x \notin 1..k
    <3>1. x - k \in 1..Len(rest) /\ (x - k) + k = x
      BY <2>2, <1>5, <1>7, <1>2
    <3>2. rest[x - k] = claims[x]
      BY <3>1, <1>8
    <3> QED
      BY <3>1, <3>2, <1>7 DEF ToSet
  <2> QED
    BY <2>1, <2>2
<1>13. ToSet(rest) \subseteq ToSet(claims) \ jobs
  <2> SUFFICES ASSUME NEW x \in 1..Len(rest)
               PROVE  rest[x] \in ToSet(claims) /\ rest[x] \notin jobs
    BY <1>7 DEF ToSet
  <2>1. rest[x] = claims[x + k] /\ x + k \in 1..Len(claims) /\ x + k \notin 1..k
    BY <1>2, <1>5, <1>8
  <2>2. claims[x + k] \notin jobs
    BY <2>1, <1>2, <1>5, <1>6 DEF Unstarted
  <2> QED
    BY <2>1, <2>2, <1>2 DEF ToSet
<1>14. jobs \subseteq ToSet(claims)
  BY <1>2, <1>5, <1>6 DEF ToSet
<1>15. Unstarted(d, rest)
  <2> SUFFICES ASSUME NEW x \in 1..Len(rest)
               PROVE  /\ d.phase[rest[x]] = "none"
                      /\ \A y \in 1..Len(rest) : rest[x] = rest[y] => x = y
    BY <1>7 DEF Unstarted
  <2>1. /\ rest[x] = claims[x + k] /\ x + k \in DOMAIN claims
        /\ \A y \in 1..Len(rest) : rest[y] = claims[y + k] /\ y + k \in DOMAIN claims
    BY <1>2, <1>5, <1>8
  <2>2. ASSUME NEW y \in 1..Len(rest), rest[x] = rest[y] PROVE x = y
    <3>1. x + k = y + k
      BY <2>1, <2>2 DEF Unstarted
    <3> QED
      BY <3>1, <1>6
  <2> QED
    BY <2>1, <2>2 DEF Unstarted
<1> HIDE DEF jobs, rest
<1>16. \A x \in DOMAIN d.runnable : d.runnable[x] \notin jobs
  <2>1. \A x \in DOMAIN d.runnable : d.phase[d.runnable[x]] = "runnable"
    BY DEF Sound, RunnableOnce
  <2> QED
    BY <1>9, <2>1
<1>17. Sound(e)
  BY <1>9, <1>10, <1>16, StartSound
<1>18. \A j \in jobs : ~InChains(d, j)
  BY <1>9, JobShape DEF Tidy, ChainsFit, InChains, Mutating
<1>19. Promised(d.pump) = 0
  BY DEF Promised
<1>20. /\ ChainsFit(e) /\ LanesNamed(e) /\ SlotsCover(e) /\ PumpFits(e.pump) /\ AbortedStops(e)
       /\ Cardinality(Runners(e)) <= Cardinality(Runners(d)) + Cardinality(jobs)
       /\ \A j \in Job : e.phase[j] = "runnable" => j \notin jobs /\ d.phase[j] = "runnable"
  <2>1. Cardinality(Runners(d)) + Cardinality(jobs) + Promised(d.pump) <= Concurrency
    BY <1>2, <1>5, <1>11, <1>19, RunnersCounted, Bounds
  <2> QED
    BY <1>9, <1>11, <1>18, <2>1, StartTidy
<1>21. /\ e.accepting = d.accepting /\ e.pending = d.pending /\ e.runnable = d.runnable
       /\ e.aborted = d.aborted /\ e.pump = d.pump /\ e.chain = d.chain
       /\ \A j \in Job : e.phase[j] = IF j \notin jobs THEN d.phase[j]
                                      ELSE IF d.phase[j] = "none" /\ Queue(j) \in Prepared
                                      THEN "preparing" ELSE "executing"
  BY Started DEF Sound
<1> HIDE DEF e
<1>22. Tidy(e)
  BY <1>20, <1>21 DEF Tidy, RunnableWaits
<1>23. /\ \A j \in Job : d.phase[j] # "none" => e.phase[j] # "none"
       /\ \A j \in Job : d.phase[j] = "none" /\ e.phase[j] # "none" => j \in jobs
       /\ \A j \in jobs : e.phase[j] # "none"
       /\ \A j \in Job \ jobs : e.phase[j] = d.phase[j]
  BY <1>9, <1>21
<1>24. CASE rest = <<>>
  <2>1. Tidy(Loop(e)) /\ Woken(e, Loop(e)) /\ Called(Loop(e))
    BY <1>17, <1>21, <1>22, LoopTidy
  <2>2. ToSet(rest) = {}
    BY <1>24 DEF ToSet
  <2>3. ToSet(Loop(e).pump.claims) = {} /\ DOMAIN Loop(e).pump.claims = {}
    BY <2>1 DEF ToSet, Called
  <2>4. \A j \in ToSet(claims) : j \in Job
    BY <1>2 DEF ToSet
  <2>5. \A j \in Job : e.phase[j] = "none" <=> Loop(e).phase[j] = "none"
    BY <2>1 DEF Woken
  <2>6. Grants(d, Loop(e), claims)
    <3>1. \A j \in ToSet(claims) : Loop(e).phase[j] # "none"
      BY <2>2, <2>4, <2>5, <1>12, <1>23
    <3>2. Unstarted(Loop(e), Loop(e).pump.claims)
      BY <2>3 DEF Unstarted
    <3>3. \A j \in Job : d.phase[j] = "none" /\ Loop(e).phase[j] # "none" => j \in ToSet(claims)
      BY <2>5, <1>14, <1>23
    <3>4. \A j \in Job : d.phase[j] # "none" => Loop(e).phase[j] # "none"
      BY <2>5, <1>23
    <3> QED
      BY <3>1, <3>2, <3>3, <3>4, <2>1, <2>3, <1>21 DEF Grants, Woken, Called
  <2> QED
    BY <1>1, <1>24, <2>1, <2>6
<1>25. CASE rest # <<>>
  <2> DEFINE f == Enqueue(g, Queue(rest[1]), NoJob)
  <2>1. rest[1] \in Job
    BY <1>7, <1>25
  <2>2. /\ p \in Pump /\ HasClaim(p) /\ p.at = "duplicate" /\ p.claims = rest
        /\ ~p.aborted /\ p.limit = 0
    <3>1. p \in Pump /\ p.claims = rest /\ p.at = "duplicate" /\ p.aborted = FALSE /\ p.limit = 0
      BY <1>7, NoPumpShape DEF Pump, NoPump
    <3> QED
      BY <1>25, <3>1 DEF HasClaim
  <2>3. PumpFits(p) /\ Promised(p) = Len(claims) - k
    BY <2>2, <1>7 DEF PumpFits, Promised
  <2>4. ~InChains(e, NoJob)
    BY <1>21, <1>22, NoCall DEF Calling
  <2>5. /\ g.accepting = e.accepting /\ g.aborted = e.aborted /\ g.phase = e.phase
        /\ g.chain = e.chain /\ g.pump = p
    BY <1>17 DEF Sound, Driver
  <2>6. Sound(g)
    BY <1>17, <2>2, PumpSound
  <2>7. Tidy(g)
    <3>1. Cardinality(Runners(e)) + Promised(p) <= Concurrency
      BY <2>3, <1>2, <1>5, <1>11, <1>20, RunnersCounted, Bounds
    <3> HIDE DEF p
    <3> QED
      BY <1>17, <1>22, <2>2, <2>3, <2>4, <3>1, PumpTidy
  <2> HIDE DEF g, p
  <2>8. ~InChains(g, NoJob)
    BY <2>4, <2>5 DEF InChains
  <2>9. Tidy(f)
    BY <2>1, <2>2, <2>5, <2>6, <2>7, <2>8, EnqueueTidy, JobShape DEF Calling
  <2>10. /\ f.accepting = g.accepting /\ f.phase = g.phase /\ f.aborted = g.aborted
         /\ f.pump = g.pump
         /\ \A r \in Queues : f.chain[r] = IF r = Queue(rest[1])
                                           THEN Append(g.chain[Queue(rest[1])], NoJob)
                                           ELSE g.chain[r]
    BY <2>1, <2>6, Enqueued, JobShape DEF Sound
  <2>11. \A q \in Queues : g.chain[q] \in Seq(Mutation)
    BY <2>6 DEF Sound, Driver
  <2> HIDE DEF f
  <2>12. \A q \in Queues :
            g.chain[q] # <<>> => f.chain[q] # <<>> /\ Head(f.chain[q]) = Head(g.chain[q])
    <3> SUFFICES ASSUME NEW q \in Queues, g.chain[q] # <<>>
                 PROVE  f.chain[q] # <<>> /\ Head(f.chain[q]) = Head(g.chain[q])
      OBVIOUS
    <3>1. g.chain[q] \in Seq(Mutation) /\ NoJob \in Mutation
      BY <2>11, JobShape
    <3>2. f.chain[q] = g.chain[q] \/ f.chain[q] = Append(g.chain[q], NoJob)
      BY <2>10
    <3> QED
      BY <3>1, <3>2
  <2>13. Unstarted(f, rest)
    <3>1. \A x \in DOMAIN rest : rest[x] \in Job \ jobs
      BY <1>7, <1>13 DEF ToSet
    <3> QED
      BY <3>1, <1>15, <1>23, <2>5, <2>10 DEF Unstarted
  <2>14. Grants(d, f, claims)
    <3>1. f.phase = e.phase /\ f.pump.claims = rest /\ f.pump.at = "duplicate"
      BY <2>2, <2>5, <2>10
    <3>2. \A j \in Job : d.phase[j] = "none" /\ f.phase[j] # "none" => j \in ToSet(claims)
      BY <3>1, <1>14, <1>23
    <3>3. \A j \in ToSet(claims) : f.phase[j] # "none" \/ j \in ToSet(rest)
      BY <3>1, <1>12, <1>23
    <3> QED
      BY <3>1, <3>2, <3>3, <1>13, <1>21, <1>23, <2>5, <2>10, <2>12, <2>13 DEF Grants
  <2> QED
    BY <1>1, <1>25, <2>9, <2>14 DEF f
<1> QED
  BY <1>24, <1>25

-----------------------------------------------------------------------------
(* What a step of the driver keeps of answers and leases *)

\* The parts of the invariant after a step.
LEMMA ClaimsParts ==
    ClaimsInv' <=> /\ DurableInv' /\ Tidy(driver') /\ RepliesFit' /\ ClaimsFresh' /\ StopFits'
                   /\ LeasesAreBacked'
BY DEF ClaimsInv, Tidy, ChainsFit, LanesNamed, RunnableWaits, SlotsCover, Promised, Runners,
   PumpFits, AbortedStops

\* What any answer, any claim and any row look like.
LEMMA Shapes ==
    ASSUME ClaimsInv
    PROVE  /\ Sound(driver) /\ driver \in Driver /\ Tidy(driver)
           /\ driver.pump \in Pump /\ driver.pump.claims \in Seq(Job)
           /\ \A q \in Queues : /\ reply[q] \in Answer /\ reply[q].claims \in Seq(Job)
                                /\ driver.chain[q] \in Seq(Mutation)
           /\ RowsSound(row) /\ row \in [Items -> Row] /\ Surroundings
<1>1. Sound(driver) /\ RowsSound(row) /\ Surroundings
  BY InvParts DEF ClaimsInv
<1>2. driver \in Driver /\ row \in [Items -> Row]
  BY <1>1 DEF Sound, RowsSound
<1>3. \A q \in Queues : reply[q] \in Answer /\ reply[q].claims \in Seq(Job)
  BY <1>1 DEF Surroundings, Answer
<1>4. driver.pump \in Pump /\ \A q \in Queues : driver.chain[q] \in Seq(Mutation)
  BY <1>2 DEF Driver
<1>5. driver.pump.claims \in Seq(Job)
  BY <1>4 DEF Pump
<1> QED
  BY <1>1, <1>2, <1>3, <1>4, <1>5 DEF ClaimsInv

\* A row is leased at its generation.
LEMMA LeasedRow ==
    ASSUME NEW i \in Items, row \in [Items -> Row], NEW g
    PROVE  Leased(<<i, g>>) <=> row[i].state = "leased" /\ row[i].generation = g
BY DEF Leased, Row

\* The job of a lease.
LEMMA LeaseJob ==
    ASSUME ClaimsFresh, row \in [Items -> Row], NEW i \in Items, row[i].state = "leased"
    PROVE  <<i, row[i].generation>> \in Job /\ Leased(<<i, row[i].generation>>)
<1>1. row[i].generation \in 0..MaxGeneration /\ row[i].generation > 0
  BY DEF ClaimsFresh, Row
<1> QED
  BY <1>1, LeasedRow, Bounds DEF Job

\* What a step of the driver keeps of it, but for the jobs that end.
Onward(d, e, over) ==
    /\ e.accepting = d.accepting
    /\ \A j \in Job : d.phase[j] = "none" => e.phase[j] = "none"
    /\ \A j \in Job \ over : e.phase[j] = "none" => d.phase[j] = "none"
    /\ \/ e.pump = d.pump
       \/ /\ d.pump.at \in {"idle", "over"} /\ e.pump.at \in {"idle", "claim", "over"}
          /\ e.pump.claims = <<>>

\* The running mutation of a chain stays at its head.
HeadKept(d, e, q) == d.chain[q] # <<>> => e.chain[q] # <<>> /\ Head(e.chain[q]) = Head(d.chain[q])

\* A step of the driver keeps answers, claims and leases in order.
LEMMA OnwardKeeps ==
    ASSUME ClaimsInv, NEW over \in SUBSET Job, Onward(driver, driver', over),
           row' = row, lost' = lost, adopted' = adopted,
           \A r \in Queues :
              \/ reply'[r] = NoReply /\ reply[r].claims = <<>>
              \/ reply'[r] = reply[r] /\ HeadKept(driver, driver', r),
           driver.accepting /\ ~lost => \A j \in over : ~Leased(j)
    PROVE  RepliesFit' /\ ClaimsFresh' /\ LeasesAreBacked'
<1>1. /\ RepliesFit /\ ClaimsFresh /\ LeasesAreBacked /\ Tidy(driver)
  BY DEF ClaimsInv
<1>2. /\ driver'.accepting = driver.accepting
      /\ \A j \in Job : driver.phase[j] = "none" => driver'.phase[j] = "none"
      /\ \A j \in Job \ over : driver'.phase[j] = "none" => driver.phase[j] = "none"
      /\ \/ driver'.pump = driver.pump
         \/ /\ driver.pump.at \in {"idle", "over"} /\ driver'.pump.at \in {"idle", "claim", "over"}
            /\ driver'.pump.claims = <<>>
  BY DEF Onward
<1>3. NoReply.result = "none" /\ NoReply.claims = <<>>
  BY DEF NoReply
<1>4. driver.pump.at \in {"idle", "over"} => driver.pump.claims = <<>>
  BY <1>1 DEF Tidy, PumpFits
<1>5. \A r \in Queues : reply'[r].claims = reply[r].claims
  BY <1>3
<1>6. RepliesFit'
  <2> SUFFICES ASSUME NEW r \in Queues PROVE ReplyFits(r)'
    BY DEF RepliesFit
  <2>1. CASE reply'[r] = NoReply
    BY <2>1, <1>3 DEF ReplyFits
  <2>2. CASE reply'[r] = reply[r] /\ HeadKept(driver, driver', r)
    <3>1. ReplyFits(r)
      BY <1>1 DEF RepliesFit
    <3>2. reply[r].result # "none" =>
             /\ driver.chain[r] # <<>> /\ driver'.chain[r] # <<>>
             /\ Head(driver'.chain[r]) = Head(driver.chain[r])
      BY <2>2, <3>1 DEF ReplyFits, HeadKept
    <3>3. driver'.pump = driver.pump \/ driver.pump.at \notin {"claiming", "duplicate"}
      BY <1>2
    <3>4. driver'.pump.at = "duplicate" => driver'.pump = driver.pump
      BY <1>2
    <3> QED
      BY <1>2, <2>2, <3>1, <3>2, <3>3, <3>4 DEF ReplyFits, HeadIs, PumpCalls, Leased
  <2> QED
    BY <2>1, <2>2
<1>7. ClaimsFresh'
  <2>1. Unstarted(driver', driver'.pump.claims) /\ Granted(row', driver'.pump.claims)
    <3>1. CASE driver'.pump.claims = <<>>
      BY <3>1 DEF Unstarted, Granted
    <3>2. CASE driver'.pump = driver.pump
      <4>1. \A x \in DOMAIN driver.pump.claims : driver.pump.claims[x] \in Job
        BY Shapes
      <4>2. Unstarted(driver', driver.pump.claims)
        BY <4>1, <1>1, <1>2 DEF Unstarted, ClaimsFresh
      <4> QED
        BY <3>2, <4>2, <1>1 DEF ClaimsFresh, Granted
    <3> QED
      BY <1>2, <3>1, <3>2
  <2>2. ASSUME NEW q \in Queues
        PROVE  Unstarted(driver', reply'[q].claims) /\ Granted(row', reply'[q].claims)
    <3>1. \A x \in DOMAIN reply[q].claims : reply[q].claims[x] \in Job
      BY Shapes
    <3>2. Unstarted(driver', reply[q].claims)
      BY <3>1, <1>1, <1>2 DEF Unstarted, ClaimsFresh
    <3> QED
      BY <1>5, <3>2, <1>1 DEF ClaimsFresh, Granted
  <2> QED
    BY <2>1, <2>2, <1>1, <1>2 DEF ClaimsFresh, Unstarted
<1>8. LeasesAreBacked'
  <2> SUFFICES ASSUME driver.accepting, ~lost, NEW i \in Items, row[i].state = "leased",
                      adopted[QueueOf[i]]
               PROVE  Backed(i)'
    BY <1>2 DEF LeasesAreBacked, Stray
  <2>1. Backed(i)
    BY <1>1 DEF LeasesAreBacked, Stray
  <2> DEFINE j == <<i, row[i].generation>>
  <2>2. j \in Job /\ Leased(j)
    BY <1>1, LeaseJob, Shapes
  <2>3. CASE driver.phase[j] # "none"
    <3>1. driver'.phase[j] # "none"
      BY <1>2, <2>2, <2>3
    <3> QED
      BY <3>1 DEF Backed
  <2>4. CASE j \in ToSet(driver.pump.claims)
    <3>1. driver'.pump = driver.pump
      BY <1>2, <1>4, <2>4 DEF ToSet
    <3> QED
      BY <2>4, <3>1 DEF Backed
  <2>5. CASE \E q \in Queues : j \in ToSet(reply[q].claims)
    BY <1>5, <2>5 DEF Backed
  <2> QED
    BY <2>1, <2>3, <2>4, <2>5 DEF Backed
<1> QED
  BY <1>6, <1>7, <1>8

-----------------------------------------------------------------------------
(* Steps of jobs, hints and answers to settlements *)

\* A driver that has stopped starts nothing.
Quietly(d, e) ==
    ~d.accepting => /\ Engaged(e) \subseteq Engaged(d)
                    /\ d.pump.at = "idle" => e.pump.at = "idle"

\* quiesce is not set back by a step that starts nothing.
LEMMA StopKeeps ==
    ASSUME ClaimsInv, stop' = stop, scan'.on => scan.on, driver'.accepting = driver.accepting,
           \A j \in Job : driver.phase[j] = "none" => driver'.phase[j] = "none",
           Quietly(driver, driver')
    PROVE  StopFits'
<1>1. StopFits
  BY DEF ClaimsInv
<1>2. CASE driver.accepting
  BY <1>1, <1>2 DEF StopFits
<1>3. CASE ~driver.accepting
  BY <1>1, <1>3 DEF StopFits, Quietly
<1> QED
  BY <1>2, <1>3

\* A step of the driver keeps the invariant.
LEMMA DriverKeeps ==
    ASSUME ClaimsInv, DurableInv', Tidy(driver'), NEW over \in SUBSET Job,
           Onward(driver, driver', over), Quietly(driver, driver'),
           \A r \in Queues :
              \/ reply'[r] = NoReply /\ reply[r].claims = <<>>
              \/ reply'[r] = reply[r] /\ HeadKept(driver, driver', r),
           driver.accepting /\ ~lost => \A j \in over : ~Leased(j),
           UNCHANGED <<stop, row, adopted, lost>>, scan'.on => scan.on
    PROVE  ClaimsInv'
<1>1. RepliesFit' /\ ClaimsFresh' /\ LeasesAreBacked'
  BY OnwardKeeps
<1>2. StopFits'
  BY StopKeeps DEF Onward
<1> QED
  BY <1>1, <1>2, ClaimsParts

\* A kick is such a step.
LEMMA StirsOnward ==
    ASSUME NEW d, NEW e, Stirs(d, e)
    PROVE  Onward(d, e, {}) /\ Quietly(d, e) /\ \A r \in Queues : HeadKept(d, e, r)
<1>1. /\ e.accepting = d.accepting
      /\ \A j \in Job : \/ e.phase[j] = d.phase[j]
                        \/ d.accepting /\ d.phase[j] = "runnable" /\ e.phase[j] = "executing"
      /\ \A q \in Queues :
            d.chain[q] # <<>> => e.chain[q] # <<>> /\ Head(e.chain[q]) = Head(d.chain[q])
      /\ e.pump = d.pump \/ (d.accepting /\ d.pump.at = "idle" /\ Called(e))
  BY DEF Stirs, Woken
<1>2. ~d.accepting => Engaged(e) \subseteq Engaged(d)
  BY <1>1 DEF Engaged, Runners, Prerequisites
<1> QED
  BY <1>1, <1>2 DEF Onward, Quietly, HeadKept, Called

\* So is the end of a job.
LEMMA EndedOnward ==
    ASSUME NEW d, NEW e, NEW j \in Job, Ended(d, e, j)
    PROVE  Onward(d, e, {j}) /\ Quietly(d, e) /\ \A r \in Queues : HeadKept(d, e, r)
<1>1. /\ e.accepting = d.accepting /\ e.phase[j] = "none"
      /\ \A k \in Job \ {j} : \/ e.phase[k] = d.phase[k]
                              \/ d.accepting /\ d.phase[k] = "runnable" /\ e.phase[k] = "executing"
      /\ \A q \in Queues :
            d.chain[q] # <<>> => e.chain[q] # <<>> /\ Head(e.chain[q]) = Head(d.chain[q])
      /\ e.pump = d.pump \/ (d.accepting /\ d.pump.at = "idle" /\ Called(e))
  BY DEF Ended
<1>2. ~d.accepting => Engaged(e) \subseteq Engaged(d)
  BY <1>1 DEF Engaged, Runners, Prerequisites, Running, Preparing
<1> QED
  BY <1>1, <1>2 DEF Onward, Quietly, HeadKept, Called

\* A job that is prepared or executed has no mutation in the chains.
LEMMA NotInChains ==
    ASSUME NEW d, Tidy(d), NEW j \in Job, d.phase[j] \notin Mutating
    PROVE  ~InChains(d, j)
BY JobShape DEF Tidy, ChainsFit, InChains

\* A mutation that joins its chain is such a step.
LEMMA MutationOnward ==
    ASSUME NEW d, NEW e, NEW j \in Job, NEW p \in Mutating, d.phase[j] # "none",
           p \in Running => d.phase[j] \in Running,
           p \in Preparing => d.phase[j] \in Preparing,
           e.accepting = d.accepting, e.pump = d.pump,
           \A k \in Job : e.phase[k] = IF k = j THEN p ELSE d.phase[k]
    PROVE  Onward(d, e, {}) /\ Quietly(d, e)
<1>1. Engaged(e) \subseteq Engaged(d)
  BY DEF Engaged, Runners, Prerequisites
<1> QED
  BY <1>1 DEF Onward, Quietly, Mutating

\* A handler settles.
LEMMA EndOfJobStep ==
    ASSUME ClaimsInv, DurableInv', NEW j \in Job, EndOfJob(j)
    PROVE  ClaimsInv'
<1>1. Sound(driver) /\ Tidy(driver)
  BY Shapes
<1>2. /\ UNCHANGED <<stop, row, adopted, lost>> /\ reply' = reply /\ scan' = scan
  BY DEF EndOfJob, PrepareEnds, ExecuteEnds, Owners, bounds
<1>3. driver.phase[j] \in {"preparing", "executing"} /\ ~InChains(driver, j)
  BY <1>1, NotInChains DEF EndOfJob, PrepareEnds, ExecuteEnds, Mutating
<1>4. j \in driver.aborted => ~driver.accepting
  BY <1>1 DEF Tidy, AbortedStops
<1>5. ASSUME NEW continue \in BOOLEAN, ~driver.accepting \/ j \in driver.aborted,
             driver' = EndJob(driver, j, continue)
      PROVE  ClaimsInv'
  <2>1. Tidy(driver') /\ Ended(driver, driver', j)
    BY <1>1, <1>3, <1>5, EndJobTidy
  <2>2. /\ Onward(driver, driver', {j}) /\ Quietly(driver, driver')
        /\ \A r \in Queues : HeadKept(driver, driver', r)
    BY <2>1, EndedOnward
  <2> QED
    BY <2>1, <2>2, <1>2, <1>4, <1>5, DriverKeeps
<1>6. ASSUME NEW p \in Mutating,
             p \in Running => driver.phase[j] \in Running,
             p \in Preparing => driver.phase[j] \in Preparing,
             driver' = Enqueue([driver EXCEPT !.phase[j] = p], Queue(j), j)
      PROVE  ClaimsInv'
  <2>1. /\ Tidy(driver')
        /\ driver'.accepting = driver.accepting /\ driver'.pump = driver.pump
        /\ \A k \in Job : driver'.phase[k] = IF k = j THEN p ELSE driver.phase[k]
        /\ \A r \in Queues : HeadKept(driver, driver', r)
    BY <1>1, <1>3, <1>6, JobShape, MutationTidy DEF HeadKept
  <2>2. Onward(driver, driver', {}) /\ Quietly(driver, driver')
    BY <2>1, <1>3, <1>6, MutationOnward
  <2> QED
    BY <2>1, <2>2, <1>2, DriverKeeps
<1>7. ASSUME driver.phase[j] = "preparing", driver.accepting,
             driver' = Kick([driver EXCEPT !.phase[j] = "runnable", !.runnable = Append(@, j)])
      PROVE  ClaimsInv'
  <2> DEFINE d == [driver EXCEPT !.phase[j] = "runnable", !.runnable = Append(@, j)]
  <2>1. /\ Tidy(d)
        /\ d.accepting = driver.accepting /\ d.pump = driver.pump /\ d.chain = driver.chain
        /\ \A k \in Job : d.phase[k] = IF k = j THEN "runnable" ELSE driver.phase[k]
    BY <1>1, <1>7, HandOverTidy
  <2>2. Sound(d)
    BY <1>1, <1>7, HandOverSound
  <2>3. driver' = Kick(d)
    BY <1>7
  <2> HIDE DEF d
  <2>4. Tidy(driver') /\ Stirs(d, driver')
    BY <2>1, <2>2, <2>3, KickTidy
  <2>5. Onward(d, driver', {}) /\ \A r \in Queues : HeadKept(d, driver', r)
    BY <2>4, StirsOnward
  <2>6. Onward(driver, driver', {})
    BY <1>7, <2>1, <2>5 DEF Onward
  <2>7. Quietly(driver, driver') /\ \A r \in Queues : HeadKept(driver, driver', r)
    BY <1>7, <2>1, <2>5 DEF Quietly, HeadKept
  <2> QED
    BY <2>4, <2>6, <2>7, <1>2, DriverKeeps
<1>8. /\ "prepareFailing" \in Mutating \ Running /\ "prepareFailing" \in Preparing
      /\ {"settling", "failing"} \subseteq Mutating \ Preparing
      /\ {"settling", "failing"} \subseteq Running
      /\ "executing" \in Running /\ "preparing" \in Preparing
  BY DEF Mutating, Running, Preparing
<1>9. CASE PrepareEnds(j)
  <2>1. driver.phase[j] = "preparing"
    BY <1>9 DEF PrepareEnds
  <2>2. \/ driver.accepting
           /\ driver' = Kick([driver EXCEPT !.phase[j] = "runnable", !.runnable = Append(@, j)])
        \/ (~driver.accepting \/ j \in driver.aborted) /\ driver' = EndJob(driver, j, FALSE)
        \/ driver' = Enqueue([driver EXCEPT !.phase[j] = "prepareFailing"], Queue(j), j)
    BY <1>9 DEF PrepareEnds
  <2> QED
    BY <2>1, <2>2, <1>5, <1>6, <1>7, <1>8
<1>10. CASE ExecuteEnds(j)
  <2>1. driver.phase[j] = "executing"
    BY <1>10 DEF ExecuteEnds
  <2>2. \/ driver' = Enqueue([driver EXCEPT !.phase[j] = "settling"], Queue(j), j)
        \/ j \in driver.aborted /\ driver' = EndJob(driver, j, TRUE)
        \/ driver' = Enqueue([driver EXCEPT !.phase[j] = "failing"], Queue(j), j)
    BY <1>10 DEF ExecuteEnds
  <2> QED
    BY <2>1, <2>2, <1>5, <1>6, <1>8
<1> QED
  BY <1>9, <1>10 DEF EndOfJob

\* The pump ends.
LEMMA FinishPumpStep ==
    ASSUME ClaimsInv, DurableInv', FinishPump
    PROVE  ClaimsInv'
<1>1. /\ Sound(driver) /\ Tidy(driver) /\ driver.pump.at = "over" /\ driver' = PumpEnds(driver)
      /\ UNCHANGED <<stop, row, adopted, lost>> /\ reply' = reply /\ scan' = scan
  BY Shapes DEF FinishPump, Owners, bounds
<1>2. /\ Tidy(driver') /\ Woken(driver, driver')
      /\ driver'.pump = NoPump \/ (driver.accepting /\ Called(driver'))
  BY <1>1, PumpEndsTidy
<1>3. Onward(driver, driver', {})
  BY <1>1, <1>2, PumpStages DEF Woken, Onward, Called
<1>4. ~driver.accepting => Engaged(driver') \subseteq Engaged(driver)
  BY <1>2 DEF Woken, Engaged, Runners, Prerequisites
<1>5. Quietly(driver, driver') /\ \A r \in Queues : HeadKept(driver, driver', r)
  BY <1>1, <1>2, <1>4 DEF Woken, Quietly, HeadKept
<1> QED
  BY <1>1, <1>2, <1>3, <1>5, DriverKeeps

\* A hint comes, or the hints of a scan.
LEMMA HintStep ==
    ASSUME ClaimsInv, DurableInv', EndScan \/ \E q \in Queues : Hint(q)
    PROVE  ClaimsInv'
<1>1. Sound(driver) /\ Tidy(driver)
  BY Shapes
<1>2. /\ UNCHANGED <<stop, row, adopted, lost>> /\ reply' = reply /\ (scan'.on => scan.on)
  BY DEF EndScan, Hint, Owners, bounds, NoScan
<1>3. Tidy(driver') /\ Stirs(driver, driver')
  <2>1. CASE EndScan
    <3>1. PICK qs \in SetToSeqs(scan.found \ ToSet(driver.pending)) :
              driver' = NotifyAll(driver, qs)
      BY <2>1 DEF EndScan
    <3>2. qs \in Seq(Queues)
      BY <3>1, FoundOrders, Shapes DEF Surroundings
    <3> QED
      BY <1>1, <3>1, <3>2, NotifyAllTidy
  <2>2. ASSUME NEW q \in Queues, Hint(q)
        PROVE  Tidy(driver') /\ Stirs(driver, driver')
    BY <1>1, <2>2, NotifyTidy DEF Hint
  <2> QED
    BY <2>1, <2>2
<1> QED
  BY <1>2, <1>3, StirsOnward, DriverKeeps

\* A settlement or failure that is answered leaves its chain; its lease is
\* over, unless the call failed.
LEMMA Answered ==
    ASSUME ClaimsInv, NEW q \in Queues, NEW j \in Job, HeadIs(q, j), reply[q].result # "none",
           NEW d, d = Dequeue(driver, q)
    PROVE  /\ Sound(d) /\ Tidy(d) /\ ~InChains(d, j)
           /\ d.accepting = driver.accepting /\ d.phase = driver.phase
           /\ d.aborted = driver.aborted /\ d.pump = driver.pump
           /\ \A r \in Queues \ {q} : d.chain[r] = driver.chain[r]
           /\ reply[q].claims = <<>>
           /\ reply[q].result = "lost" => lost \/ ~driver.accepting
           /\ driver.accepting /\ ~lost => ~Leased(j)
<1>1. /\ Sound(driver) /\ driver \in Driver /\ Tidy(driver) /\ ReplyFits(q)
      /\ reply[q] \in Answer
  BY Shapes DEF ClaimsInv, RepliesFit
<1>2. driver.chain[q] # <<>> /\ Head(driver.chain[q]) = j /\ j # NoJob
  BY JobShape DEF HeadIs
<1>3. Sound(d) /\ Tidy(d) /\ ~InChains(d, j)
  BY <1>1, <1>2, DequeueSound, DequeueTidy
<1>4. /\ d.accepting = driver.accepting /\ d.phase = driver.phase
      /\ d.aborted = driver.aborted /\ d.pump = driver.pump
      /\ \A r \in Queues \ {q} : d.chain[r] = driver.chain[r]
  BY <1>1, Dequeued
<1>5. reply[q].result # "claimed"
  BY <1>1, <1>2 DEF ReplyFits, PumpCalls, HeadIs
<1>6. reply[q].claims = <<>> /\ (reply[q].result = "lost" => lost \/ ~driver.accepting)
  BY <1>1, <1>5 DEF ReplyFits
<1>7. reply[q].result # "lost" => ~Leased(j)
  BY <1>1, <1>5 DEF ReplyFits, Answer
<1> QED
  BY <1>3, <1>4, <1>6, <1>7

\* A failure is answered.
LEMMA FailAnsweredStep ==
    ASSUME ClaimsInv, DurableInv', NEW q \in Queues, FailAnswered(q)
    PROVE  ClaimsInv'
<1>1. /\ UNCHANGED <<stop, row, adopted, lost>> /\ scan' = scan
      /\ reply[q].result # "none" /\ reply' = [reply EXCEPT ![q] = NoReply]
  BY DEF FailAnswered, Receive, Owners, bounds
<1>2. PICK j \in Job :
        /\ HeadIs(q, j) /\ driver.phase[j] \in {"failing", "prepareFailing"}
        /\ driver' = EndJob(Dequeue(driver, q), j,
                        \/ reply[q].result = "retry"
                        \/ reply[q].result = "lost" /\ driver.phase[j] = "failing")
  BY DEF FailAnswered
<1> DEFINE d == Dequeue(driver, q)
           continue == \/ reply[q].result = "retry"
                       \/ reply[q].result = "lost" /\ driver.phase[j] = "failing"
<1>3. continue \in BOOLEAN /\ driver' = EndJob(d, j, continue)
  BY <1>2
<1> HIDE DEF d, continue
<1>4. /\ Sound(d) /\ Tidy(d) /\ ~InChains(d, j)
      /\ d.accepting = driver.accepting /\ d.phase = driver.phase /\ d.pump = driver.pump
      /\ \A r \in Queues \ {q} : d.chain[r] = driver.chain[r]
      /\ reply[q].claims = <<>>
      /\ driver.accepting /\ ~lost => ~Leased(j)
  BY <1>1, <1>2, Answered DEF d
<1>5. d.phase[j] # "runnable"
  BY <1>2, <1>4
<1>6. Tidy(driver') /\ Ended(d, driver', j)
  BY <1>3, <1>4, <1>5, EndJobTidy
<1>7. /\ Onward(d, driver', {j}) /\ Quietly(d, driver')
      /\ \A r \in Queues : HeadKept(d, driver', r)
  BY <1>6, EndedOnward
<1>8. Onward(driver, driver', {j}) /\ Quietly(driver, driver')
  BY <1>4, <1>7 DEF Onward, Quietly, Engaged, Runners, Prerequisites
<1>9. \A r \in Queues : \/ reply'[r] = NoReply /\ reply[r].claims = <<>>
                        \/ reply'[r] = reply[r] /\ HeadKept(driver, driver', r)
  <2>1. reply \in [Queues -> Answer]
    BY Shapes DEF Surroundings
  <2> QED
    BY <2>1, <1>1, <1>4, <1>7 DEF HeadKept
<1> QED
  BY <1>1, <1>4, <1>6, <1>8, <1>9, DriverKeeps

\* A settlement is answered.
LEMMA SettleAnsweredStep ==
    ASSUME ClaimsInv, DurableInv', NEW q \in Queues, SettleAnswered(q)
    PROVE  ClaimsInv'
<1>1. /\ UNCHANGED <<stop, row, adopted, lost>> /\ scan' = scan
      /\ reply[q].result # "none" /\ reply' = [reply EXCEPT ![q] = NoReply]
  BY DEF SettleAnswered, Receive, Owners, bounds
<1>2. PICK j \in Job :
        /\ HeadIs(q, j) /\ driver.phase[j] = "settling"
        /\ LET d == Release(Dequeue(driver, q), j)
           IN driver' =
                IF reply[q].result = "lost" /\ j \notin driver.aborted
                THEN Enqueue([d EXCEPT !.phase[j] = "failing"], q, j)
                ELSE EndJob(d, j, reply[q].result # "stale")
  BY DEF SettleAnswered
<1> DEFINE c == Dequeue(driver, q)
           d == Release(c, j)
<1>3. /\ Sound(c) /\ Tidy(c) /\ ~InChains(c, j)
      /\ c.accepting = driver.accepting /\ c.phase = driver.phase /\ c.pump = driver.pump
      /\ \A r \in Queues \ {q} : c.chain[r] = driver.chain[r]
      /\ reply[q].claims = <<>>
      /\ driver.accepting /\ ~lost => ~Leased(j)
  BY <1>1, <1>2, Answered
<1>4. driver' = IF reply[q].result = "lost" /\ j \notin driver.aborted
                THEN Enqueue([d EXCEPT !.phase[j] = "failing"], q, j)
                ELSE EndJob(d, j, reply[q].result # "stale")
  BY <1>2
<1> HIDE DEF c
<1>5. /\ Tidy(d)
      /\ d.accepting = c.accepting /\ d.phase = c.phase
      /\ d.chain = c.chain /\ d.pump = c.pump
  BY <1>3, ReleaseTidy
<1>6. Sound(d)
  BY <1>2, <1>3, ReleaseSound DEF InLane
<1> HIDE DEF d
<1>7. d.phase[j] = "settling" /\ ~InChains(d, j)
  BY <1>2, <1>3, <1>5 DEF InChains
<1>8. ASSUME NEW over \in SUBSET {j}, Onward(d, driver', over), Quietly(d, driver'),
             \A r \in Queues : HeadKept(d, driver', r), Tidy(driver')
      PROVE  ClaimsInv'
  <2>1. Onward(driver, driver', over) /\ Quietly(driver, driver')
    BY <1>3, <1>5, <1>8 DEF Onward, Quietly, Engaged, Runners, Prerequisites
  <2>2. \A r \in Queues : \/ reply'[r] = NoReply /\ reply[r].claims = <<>>
                          \/ reply'[r] = reply[r] /\ HeadKept(driver, driver', r)
    <3>1. reply \in [Queues -> Answer]
      BY Shapes DEF Surroundings
    <3> QED
      BY <3>1, <1>1, <1>3, <1>5, <1>8 DEF HeadKept
  <2>3. over \in SUBSET Job /\ (driver.accepting /\ ~lost => \A k \in over : ~Leased(k))
    BY <1>3
  <2> QED
    BY <1>1, <1>8, <2>1, <2>2, <2>3, DriverKeeps
<1>9. CASE driver' = EndJob(d, j, reply[q].result # "stale")
  <2>1. Tidy(driver') /\ Ended(d, driver', j)
    BY <1>5, <1>6, <1>7, <1>9, EndJobTidy
  <2> QED
    BY <2>1, <1>8, EndedOnward
<1>10. CASE driver' = Enqueue([d EXCEPT !.phase[j] = "failing"], q, j)
  <2>1. "failing" \in Mutating /\ "failing" \notin Preparing /\ "settling" \in Running
    BY DEF Mutating, Running, Preparing
  <2>2. /\ Tidy(driver')
        /\ driver'.accepting = d.accepting /\ driver'.pump = d.pump
        /\ \A k \in Job : driver'.phase[k] = IF k = j THEN "failing" ELSE d.phase[k]
        /\ \A r \in Queues : HeadKept(d, driver', r)
    BY <1>5, <1>6, <1>7, <1>10, <2>1, MutationTidy DEF HeadKept
  <2>3. Onward(d, driver', {}) /\ Quietly(d, driver')
    BY <1>7, <2>1, <2>2, MutationOnward
  <2> QED
    BY <2>2, <2>3, <1>8
<1> QED
  BY <1>4, <1>9, <1>10

-----------------------------------------------------------------------------
(* Steps of the pump's calls *)

\* What the pump starts does not depend on what it awaited.
LEMMA LoopForgets ==
    ASSUME NEW d \in Driver
    PROVE  Loop(d) = Loop([d EXCEPT !.pump = NoPump])
<1> DEFINE c == [d EXCEPT !.pump = NoPump]
           n == IF Len(d.runnable) < Free(d) THEN Len(d.runnable) ELSE Free(d)
           ready == ToSet(SubSeq(d.runnable, 1, n))
           e == [Start(d, ready) EXCEPT !.runnable = SubSeq(@, n + 1, Len(@))]
           f == [Start(c, ready) EXCEPT !.runnable = SubSeq(@, n + 1, Len(@))]
           over(g) == [g EXCEPT !.pump = [NoPump EXCEPT !.at = "over"]]
           call(g) == [g EXCEPT !.pending = Tail(@), !.pump = [NoPump EXCEPT !.at = "claim"]]
<1>1. /\ c.runnable = d.runnable /\ c.phase = d.phase /\ c.accepting = d.accepting
  BY DEF Driver
<1>2. Free(c) = Free(d)
  BY <1>1 DEF Free, Runners
<1>3. /\ Loop(d) = IF ~d.accepting \/ Free(d) <= 0 THEN over(d)
                   ELSE IF Free(e) = 0 \/ e.pending = <<>> THEN over(e)
                   ELSE Enqueue(call(e), Head(e.pending), NoJob)
      /\ Loop(c) = IF ~d.accepting \/ Free(d) <= 0 THEN over(c)
                   ELSE IF Free(f) = 0 \/ f.pending = <<>> THEN over(f)
                   ELSE Enqueue(call(f), Head(f.pending), NoJob)
  <2>1. Loop(d) = IF ~d.accepting \/ Free(d) <= 0 THEN over(d)
                  ELSE IF Free(e) = 0 \/ e.pending = <<>> THEN over(e)
                  ELSE Enqueue(call(e), Head(e.pending), NoJob)
    BY DEF Loop
  <2> HIDE DEF c
  <2>2. Loop(c) = IF ~d.accepting \/ Free(d) <= 0 THEN over(c)
                  ELSE IF Free(f) = 0 \/ f.pending = <<>> THEN over(f)
                  ELSE Enqueue(call(f), Head(f.pending), NoJob)
    BY <1>1, <1>2 DEF Loop
  <2> QED
    BY <2>1, <2>2
<1>4. \A p : [c EXCEPT !.pump = p] = [d EXCEPT !.pump = p]
  BY DEF Driver
<1> HIDE DEF n, ready
<1>5. \A p : [f EXCEPT !.pump = p] = [e EXCEPT !.pump = p]
  BY DEF Driver, Start
<1>6. f.phase = e.phase /\ f.pending = e.pending
  BY DEF Driver, Start
<1>7. \A r, p : [f EXCEPT !.pending = r, !.pump = p] = [e EXCEPT !.pending = r, !.pump = p]
  BY DEF Driver, Start
<1> HIDE DEF c, e, f
<1>8. Free(f) = Free(e)
  BY <1>6 DEF Free, Runners
<1>9. over(c) = over(d) /\ over(f) = over(e)
  BY <1>4, <1>5
<1>10. call(f) = call(e)
  BY <1>6, <1>7
<1> HIDE DEF over, call
<1>11. Loop(d) = Loop(c)
  BY <1>3, <1>6, <1>8, <1>9, <1>10
<1> QED
  BY <1>11 DEF c

\* Nor does what it grants.
LEMMA GrantForgets ==
    ASSUME NEW d \in Driver, NEW claims \in Seq(Job)
    PROVE  Grant(d, claims) = Grant([d EXCEPT !.pump = NoPump], claims)
<1> DEFINE c == [d EXCEPT !.pump = NoPump]
           granted == {n \in DOMAIN claims : \A x \in 1..n :
                          /\ d.lane[Lane(claims[x])] = NoJob
                          /\ \A y \in 1..x-1 : Lane(claims[y]) # Lane(claims[x])}
           jobs == {claims[n] : n \in granted}
           e == Start(d, jobs)
           f == Start(c, jobs)
           rest == SubSeq(claims, Cardinality(granted) + 1, Len(claims))
           fail(g) == [g EXCEPT !.pump = [NoPump EXCEPT !.at = "duplicate", !.claims = rest]]
<1>1. c.lane = d.lane
  BY DEF Driver
<1>2. Grant(d, claims) = IF rest = <<>> THEN Loop(e) ELSE Enqueue(fail(e), Queue(rest[1]), NoJob)
  BY DEF Grant
<1>3. Grant(c, claims) = IF rest = <<>> THEN Loop(f) ELSE Enqueue(fail(f), Queue(rest[1]), NoJob)
  <2> HIDE DEF c
  <2> QED
    BY <1>1 DEF Grant
<1>8. jobs \in SUBSET Job
  OBVIOUS
<1> HIDE DEF granted, jobs, rest
<1>9. e \in Driver
  <2>1. e.phase \in [Job -> Phases] /\ e.lane \in [Lanes -> Mutation]
    BY <1>8 DEF Driver, Start, Phases, Running, Preparing, Mutation
  <2> QED
    BY <2>1 DEF Driver, Start
<1>4. \A p : [f EXCEPT !.pump = p] = [e EXCEPT !.pump = p]
  BY DEF Driver, Start
<1>5. f = [e EXCEPT !.pump = NoPump]
  BY DEF Driver, Start
<1>6. fail(f) = fail(e)
  BY <1>4
<1> HIDE DEF c, fail, f
<1>7. ASSUME rest = <<>> PROVE Loop(f) = Loop(e)
  <2>1. Loop(e) = Loop([e EXCEPT !.pump = NoPump])
    BY <1>9, LoopForgets
  <2> QED
    BY <1>5, <2>1
<1> QED
  BY <1>2, <1>3, <1>6, <1>7 DEF c

\* The pump's call is answered, and it grants the claims that it was promised.
LEMMA GrantStep ==
    ASSUME ClaimsInv, DurableInv', NEW q \in Queues, HeadIs(q, NoJob),
           driver.pump.at \in {"claiming", "duplicate"}, reply[q].result # "none",
           reply' = [reply EXCEPT ![q] = NoReply], UNCHANGED <<stop, row, adopted, lost, scan>>,
           NEW claims \in Seq(Job), driver' = Grant(Dequeue(driver, q), claims),
           Unstarted(driver, claims), Granted(row, claims),
           Cardinality(Runners(driver)) + Len(claims) <= Concurrency,
           driver.accepting /\ ~lost =>
              \A i \in Items : row[i].state = "leased" /\ adopted[QueueOf[i]] =>
                 \/ driver.phase[<<i, row[i].generation>>] # "none"
                 \/ <<i, row[i].generation>> \in ToSet(claims)
    PROVE  ClaimsInv'
<1> DEFINE c == Dequeue(driver, q)
           d == [c EXCEPT !.pump = NoPump]
<1>1. /\ Sound(driver) /\ driver \in Driver /\ Tidy(driver) /\ RepliesFit /\ ClaimsFresh /\ StopFits
      /\ reply \in [Queues -> Answer] /\ row \in [Items -> Row]
      /\ \A r \in Queues : driver.chain[r] \in Seq(Mutation)
  BY Shapes DEF ClaimsInv, Surroundings
<1>2. driver.chain[q] # <<>> /\ Head(driver.chain[q]) = NoJob
  BY DEF HeadIs
<1>3. Sound(c) /\ Tidy(c) /\ ~InChains(c, NoJob)
  BY <1>1, <1>2, DequeueSound, DequeueTidy
<1>4. /\ c.accepting = driver.accepting /\ c.phase = driver.phase /\ c.aborted = driver.aborted
      /\ \A r \in Queues \ {q} : c.chain[r] = driver.chain[r]
  BY <1>1, Dequeued
<1>a. c.pump = driver.pump
  BY <1>1, Dequeued
<1>b. c \in Driver
  BY <1>3 DEF Sound
<1> HIDE DEF c
<1>5. d.accepting = c.accepting /\ d.phase = c.phase /\ d.chain = c.chain /\ d.pump = NoPump
  BY <1>b DEF Driver
<1>6. Sound(d)
  BY <1>3, PumpSound, NoPumpShape
<1>7. Tidy(d)
  <2>1. Cardinality(Runners(c)) + Promised(NoPump) <= Concurrency
    <3>1. Runners(c) = Runners(driver)
      BY <1>4 DEF Runners
    <3>2. Len(claims) \in Nat
      OBVIOUS
    <3> QED
      BY <3>1, <3>2, PumpStages, RunnersCounted, Bounds
  <2> QED
    BY <1>3, <2>1, NoPumpShape, PumpStages, PumpTidy
<1>8. driver' = Grant(d, claims)
  BY <1>b, GrantForgets DEF c
<1> HIDE DEF d
<1>9. Tidy(driver') /\ Grants(d, driver', claims)
  <2>1. Unstarted(d, claims)
    BY <1>4, <1>5 DEF Unstarted
  <2>2. Runners(d) = Runners(driver)
    BY <1>4, <1>5 DEF Runners
  <2> QED
    BY <1>5, <1>6, <1>7, <1>8, <2>1, <2>2, PumpStages, GrantTidy
<1>10. /\ driver'.accepting = driver.accepting
       /\ \A j \in Job : driver.phase[j] # "none" => driver'.phase[j] # "none"
       /\ \A j \in Job : driver.phase[j] = "none" /\ driver'.phase[j] # "none" => j \in ToSet(claims)
       /\ \A j \in ToSet(claims) : driver'.phase[j] # "none" \/ j \in ToSet(driver'.pump.claims)
       /\ ToSet(driver'.pump.claims) \subseteq ToSet(claims)
       /\ Unstarted(driver', driver'.pump.claims)
       /\ driver'.pump.at \in {"claim", "over", "duplicate"}
       /\ \A r \in Queues \ {q} : HeadKept(driver, driver', r)
  BY <1>4, <1>5, <1>9 DEF Grants, HeadKept
<1>11. \A r \in Queues \ {q} : ~HeadIs(r, NoJob)
  <2> SUFFICES ASSUME NEW r \in Queues, r # q, HeadIs(r, NoJob) PROVE FALSE
    OBVIOUS
  <2>1. 1 \in DOMAIN driver.chain[q] /\ driver.chain[q][1] = NoJob
    BY <1>1, <1>2
  <2>2. 1 \in DOMAIN driver.chain[r] /\ driver.chain[r][1] = NoJob
    BY <1>1 DEF HeadIs
  <2> QED
    BY <1>1, <2>1, <2>2 DEF Tidy, ChainsFit
<1>12. /\ reply'[q] = NoReply /\ \A r \in Queues \ {q} : reply'[r] = reply[r]
       /\ NoReply.result = "none" /\ NoReply.claims = <<>>
  BY <1>1 DEF NoReply
<1>13. \A r \in Queues : reply'[r].result # "claimed" /\ reply'[r].claims = <<>>
  BY <1>1, <1>11, <1>12 DEF RepliesFit, ReplyFits, PumpCalls
<1>14. RepliesFit'
  <2> SUFFICES ASSUME NEW r \in Queues PROVE ReplyFits(r)'
    BY DEF RepliesFit
  <2>1. CASE r = q
    BY <2>1, <1>12 DEF ReplyFits
  <2>2. CASE r # q
    <3>1. ReplyFits(r) /\ reply'[r] = reply[r] /\ ~HeadIs(r, NoJob)
      BY <2>2, <1>1, <1>11, <1>12 DEF RepliesFit
    <3>2. reply[r].result # "none" =>
             /\ driver.chain[r] # <<>> /\ driver'.chain[r] # <<>>
             /\ Head(driver'.chain[r]) = Head(driver.chain[r])
      BY <2>2, <3>1, <1>10 DEF ReplyFits, HeadKept
    <3>3. reply[r].result # "none" => ~PumpCalls(r, "duplicate")' /\ \A j : HeadIs(r, j)' => HeadIs(r, j)
      BY <3>1, <3>2 DEF PumpCalls, HeadIs
    <3>4. \A j : Leased(j)' <=> Leased(j)
      BY DEF Leased
    <3> QED
      BY <3>1, <3>2, <3>3, <3>4, <1>10, <1>13 DEF ReplyFits
  <2> QED
    BY <2>1, <2>2
<1>15. \A j \in ToSet(claims) : j \in Job /\ j[2] <= row[j[1]].generation
  BY DEF ToSet, Granted
<1>16. ClaimsFresh'
  <2>1. \A j \in Job : driver'.phase[j] # "none" => j[2] <= row'[j[1]].generation
    BY <1>1, <1>10, <1>15 DEF ClaimsFresh
  <2>2. Granted(row', driver'.pump.claims)
    BY <1>10, <1>15 DEF Granted, ToSet
  <2>3. \A r \in Queues : Unstarted(driver', reply'[r].claims) /\ Granted(row', reply'[r].claims)
    BY <1>13 DEF Unstarted, Granted
  <2> QED
    BY <2>1, <2>2, <2>3, <1>1, <1>10 DEF ClaimsFresh
<1>17. StopFits'
  BY <1>1, <1>10 DEF StopFits
<1>18. LeasesAreBacked'
  <2> SUFFICES ASSUME driver.accepting, ~lost, NEW i \in Items, row[i].state = "leased",
                      adopted[QueueOf[i]]
               PROVE  Backed(i)'
    BY <1>10 DEF LeasesAreBacked, Stray
  <2> DEFINE j == <<i, row[i].generation>>
  <2>1. j \in Job
    BY <1>1, LeaseJob
  <2>2. driver'.phase[j] # "none" \/ j \in ToSet(driver'.pump.claims)
    BY <1>10, <2>1
  <2> QED
    BY <2>2 DEF Backed
<1> QED
  BY <1>9, <1>14, <1>16, <1>17, <1>18, ClaimsParts

\* A claim is answered.
LEMMA ClaimAnsweredStep ==
    ASSUME ClaimsInv, DurableInv', NEW q \in Queues, ClaimAnswered(q)
    PROVE  ClaimsInv'
<1>1. /\ HeadIs(q, NoJob) /\ driver.pump.at = "claiming" /\ reply[q].result # "none"
      /\ reply' = [reply EXCEPT ![q] = NoReply] /\ UNCHANGED <<stop, row, adopted, lost, scan>>
      /\ driver' = Grant(Dequeue(driver, q), reply[q].claims)
  BY DEF ClaimAnswered, PumpCalls, Receive, Owners, bounds
<1>2. /\ Tidy(driver) /\ RepliesFit /\ ClaimsFresh /\ LeasesAreBacked
      /\ reply[q].claims \in Seq(Job) /\ row \in [Items -> Row] /\ driver.pump \in Pump
      /\ \A r \in Queues : driver.chain[r] \in Seq(Mutation)
  BY Shapes DEF ClaimsInv
<1>3. Cardinality(Runners(driver)) + Len(reply[q].claims) <= Concurrency
  <2>1. Len(reply[q].claims) <= driver.pump.limit /\ driver.pump.limit \in Nat
    <3>1. driver.pump.limit \in Nat
      BY <1>2 DEF Tidy, PumpFits
    <3>2. CASE reply[q].claims = <<>>
      BY <3>1, <3>2
    <3>3. CASE reply[q].claims # <<>>
      BY <3>1, <3>3, <1>2 DEF RepliesFit, ReplyFits
    <3> QED
      BY <3>2, <3>3
  <2>2. Cardinality(Runners(driver)) + driver.pump.limit <= Concurrency
    BY <1>1, <1>2 DEF Tidy, SlotsCover, Promised
  <2>3. Len(reply[q].claims) \in Nat
    BY <1>2
  <2> QED
    BY <2>1, <2>2, <2>3, RunnersCounted, Bounds
<1>4. \A r \in Queues \ {q} : reply[r].claims = <<>>
  <2> SUFFICES ASSUME NEW r \in Queues, r # q, reply[r].claims # <<>> PROVE FALSE
    OBVIOUS
  <2>1. HeadIs(r, NoJob)
    BY <1>2 DEF RepliesFit, ReplyFits, PumpCalls
  <2>2. 1 \in DOMAIN driver.chain[q] /\ driver.chain[q][1] = NoJob
    BY <1>1, <1>2 DEF HeadIs
  <2>3. 1 \in DOMAIN driver.chain[r] /\ driver.chain[r][1] = NoJob
    BY <1>2, <2>1 DEF HeadIs
  <2> QED
    BY <1>2, <2>2, <2>3 DEF Tidy, ChainsFit
<1>5. driver.pump.claims = <<>>
  BY <1>1, <1>2 DEF Tidy, PumpFits
<1>6. ASSUME driver.accepting, ~lost, NEW i \in Items, row[i].state = "leased",
             adopted[QueueOf[i]]
      PROVE  \/ driver.phase[<<i, row[i].generation>>] # "none"
             \/ <<i, row[i].generation>> \in ToSet(reply[q].claims)
  <2>1. Backed(i)
    BY <1>2, <1>6 DEF LeasesAreBacked, Stray
  <2>2. ToSet(driver.pump.claims) = {} /\ \A r \in Queues \ {q} : ToSet(reply[r].claims) = {}
    BY <1>4, <1>5 DEF ToSet
  <2> QED
    BY <2>1, <2>2 DEF Backed
<1> QED
  BY <1>1, <1>2, <1>3, <1>6, GrantStep DEF ClaimsFresh

\* The failure of a claim for a taken lane is answered.
LEMMA DuplicateAnsweredStep ==
    ASSUME ClaimsInv, DurableInv', NEW q \in Queues, DuplicateAnswered(q)
    PROVE  ClaimsInv'
<1> DEFINE held == driver.pump.claims
           claims == Tail(held)
<1>1. /\ HeadIs(q, NoJob) /\ driver.pump.at = "duplicate" /\ reply[q].result # "none"
      /\ reply' = [reply EXCEPT ![q] = NoReply] /\ UNCHANGED <<stop, row, adopted, lost, scan>>
      /\ driver' = Grant(Dequeue(driver, q), claims)
  BY DEF DuplicateAnswered, PumpCalls, Receive, Owners, bounds
<1>2. /\ Tidy(driver) /\ RepliesFit /\ ClaimsFresh /\ LeasesAreBacked /\ Sound(driver)
      /\ held \in Seq(Job) /\ row \in [Items -> Row] /\ reply[q] \in Answer
  BY Shapes DEF ClaimsInv
<1>3. held # <<>>
  BY <1>1, <1>2 DEF Sound, HasClaim
<1>0. Unstarted(driver, held) /\ Granted(row, held) /\ Promised(driver.pump) = Len(held)
  BY <1>1, <1>2 DEF ClaimsFresh, Promised
<1>14. \A r \in Queues : reply[r].result # "claimed" /\ reply[r].claims = <<>>
  BY <1>1, <1>2 DEF RepliesFit, ReplyFits, PumpCalls
<1>15. driver.accepting /\ ~lost => ~Leased(Head(held))
  <2>1. reply[q].result # "lost" => reply[q].result \in {"accepted", "retry", "failed", "stale"}
    BY <1>1, <1>2, <1>14 DEF Answer
  <2>2. Head(held) \in Job
    BY <1>2, <1>3
  <2> QED
    BY <1>1, <1>2, <2>1, <2>2 DEF RepliesFit, ReplyFits, PumpCalls
<1> HIDE DEF held
<1>4. /\ claims \in Seq(Job) /\ Len(held) \in Nat /\ Len(held) > 0 /\ Head(held) = held[1]
      /\ DOMAIN held = 1..Len(held) /\ DOMAIN claims = 1..Len(held)-1
      /\ \A x \in 1..Len(held)-1 : claims[x] = held[x+1]
  BY <1>2, <1>3, Beheaded
<1>5. Len(claims) = Len(held) - 1
  BY <1>2, <1>3
<1> HIDE DEF claims
<1>6. \A x \in DOMAIN claims : claims[x] = held[x+1] /\ x+1 \in DOMAIN held /\ x \in Int
  BY <1>4
<1>7. Granted(row, claims)
  BY <1>0, <1>6 DEF Granted
<1>8. Unstarted(driver, claims)
  <2> SUFFICES ASSUME NEW x \in DOMAIN claims
               PROVE  /\ driver.phase[claims[x]] = "none"
                      /\ \A y \in DOMAIN claims : claims[x] = claims[y] => x = y
    BY DEF Unstarted
  <2>1. \A y \in DOMAIN claims : claims[x] = claims[y] => x+1 = y+1
    BY <1>0, <1>6 DEF Unstarted
  <2> QED
    BY <2>1, <1>0, <1>6 DEF Unstarted
<1>9. Cardinality(Runners(driver)) + Len(claims) <= Concurrency
  BY <1>0, <1>2, <1>4, <1>5, RunnersCounted, Bounds DEF Tidy, SlotsCover
<1>10. ToSet(held) \subseteq {Head(held)} \union ToSet(claims)
  <2> SUFFICES ASSUME NEW x \in 1..Len(held) PROVE held[x] = Head(held) \/ held[x] \in ToSet(claims)
    BY <1>4 DEF ToSet
  <2>1. CASE x = 1
    BY <2>1, <1>4
  <2>2. CASE x # 1
    <3>1. x - 1 \in DOMAIN claims /\ (x - 1) + 1 = x
      BY <2>2, <1>4
    <3>2. claims[x - 1] = held[x]
      BY <3>1, <1>6
    <3> QED
      BY <3>1, <3>2 DEF ToSet
  <2> QED
    BY <2>1, <2>2
<1>11. ASSUME driver.accepting, ~lost, NEW i \in Items, row[i].state = "leased",
             adopted[QueueOf[i]]
      PROVE  \/ driver.phase[<<i, row[i].generation>>] # "none"
             \/ <<i, row[i].generation>> \in ToSet(claims)
  <2>1. Backed(i)
    BY <1>2, <1>11 DEF LeasesAreBacked, Stray
  <2>2. \A r \in Queues : ToSet(reply[r].claims) = {}
    BY <1>14 DEF ToSet
  <2>3. Leased(<<i, row[i].generation>>)
    BY <1>2, <1>11, LeaseJob
  <2>4. <<i, row[i].generation>> # Head(held)
    BY <2>3, <1>11, <1>15
  <2> QED
    BY <2>1, <2>2, <2>4, <1>10 DEF Backed, held
<1> QED
  BY <1>1, <1>4, <1>7, <1>8, <1>9, <1>11, GrantStep

-----------------------------------------------------------------------------
(* Steps of the owners *)

\* A claim whose lease is over is not leased again: a row is leased anew only
\* at a later generation.
LEMMA LeaseIsOver ==
    ASSUME row \in [Items -> Row], row' \in [Items -> Row], NEW j \in Job, ~Leased(j),
           j[2] <= row[j[1]].generation,
           \A i \in Items : row'[i].state = "leased" =>
               row'[i] = row[i] \/ row'[i].generation > row[i].generation
    PROVE  ~Leased(j)'
<1> SUFFICES ASSUME Leased(j)' PROVE FALSE
  OBVIOUS
<1>1. j[1] \in Items /\ j[2] \in Int
  BY Bounds DEF Job
<1>2. row'[j[1]].state = "leased" /\ row'[j[1]].generation = j[2]
  BY DEF Leased
<1>3. row[j[1]].generation \in Int
  BY <1>1 DEF Row
<1>4. row'[j[1]] = row[j[1]]
  BY <1>1, <1>2, <1>3
<1> QED
  BY <1>4 DEF Leased

\* The claim whose settlement or failure is answered is not ahead of its row.
LEMMA AnsweredJob ==
    ASSUME ClaimsInv, NEW q \in Queues, NEW j \in Job,
           HeadIs(q, j) \/ (PumpCalls(q, "duplicate") /\ j = Head(driver.pump.claims))
    PROVE  j[2] <= row[j[1]].generation
<1>1. /\ Tidy(driver) /\ ClaimsFresh /\ Sound(driver) /\ driver.pump.claims \in Seq(Job)
      /\ driver.chain[q] \in Seq(Mutation)
  BY Shapes DEF ClaimsInv
<1>2. CASE HeadIs(q, j)
  <2>1. 1 \in DOMAIN driver.chain[q] /\ driver.chain[q][1] = j /\ j # NoJob
    BY <1>1, <1>2, JobShape DEF HeadIs
  <2>2. driver.phase[j] \in Mutating
    BY <1>1, <2>1 DEF Tidy, ChainsFit
  <2> QED
    BY <1>1, <2>2 DEF ClaimsFresh, Mutating
<1>3. CASE PumpCalls(q, "duplicate") /\ j = Head(driver.pump.claims)
  <2>1. driver.pump.claims # <<>>
    BY <1>1, <1>3 DEF Sound, HasClaim, PumpCalls
  <2>2. 1 \in DOMAIN driver.pump.claims /\ driver.pump.claims[1] = j
    BY <1>1, <1>3, <2>1
  <2> QED
    BY <1>1, <2>2 DEF ClaimsFresh, Granted
<1> QED
  BY <1>2, <1>3

\* A step of an owner keeps the invariant, if what it leases anew is answered
\* and its answer fits.
LEMMA OwnerKeeps ==
    ASSUME ClaimsInv, DurableInv', UNCHANGED <<driver, stop, lost>>, scan'.on => scan.on,
           \A i \in Items :
              /\ row'[i].generation >= row[i].generation
              /\ row'[i].state = "leased" =>
                    \/ row'[i] = row[i] /\ (adopted'[QueueOf[i]] => adopted[QueueOf[i]])
                    \/ /\ row'[i].generation > row[i].generation
                       /\ \E r \in Queues : <<i, row'[i].generation>> \in ToSet(reply'[r].claims),
           \A r \in Queues :
              \/ reply'[r] = reply[r]
              \/ /\ reply[r].claims = <<>> /\ ReplyFits(r)'
                 /\ Unstarted(driver, reply'[r].claims) /\ Granted(row', reply'[r].claims)
    PROVE  ClaimsInv'
<1>1. /\ Sound(driver) /\ Tidy(driver) /\ RepliesFit /\ ClaimsFresh /\ StopFits /\ LeasesAreBacked
      /\ row \in [Items -> Row] /\ driver.pump.claims \in Seq(Job)
      /\ \A r \in Queues : reply[r].claims \in Seq(Job)
  BY Shapes DEF ClaimsInv
<1>2. row' \in [Items -> Row]
  BY DEF DurableInv, DurableTypeOK
<1>3. \A i \in Items : /\ row[i].generation \in Int /\ row'[i].generation \in Int
                       /\ row[i].generation <= row'[i].generation
  <2>1. \A i \in Items : row[i].generation \in Int /\ row'[i].generation \in Int
    BY <1>1, <1>2 DEF Row
  <2>2. \A i \in Items : row'[i].generation >= row[i].generation
    OBVIOUS
  <2> QED
    BY <2>1, <2>2
<1>4. \A r \in Queues : reply'[r] = reply[r] => ReplyFits(r)'
  <2> SUFFICES ASSUME NEW r \in Queues, reply'[r] = reply[r] PROVE ReplyFits(r)'
    OBVIOUS
  <2>1. ReplyFits(r)
    BY <1>1 DEF RepliesFit
  <2>2. \A j : HeadIs(r, j)' <=> HeadIs(r, j)
    BY DEF HeadIs
  <2>3. \A at : PumpCalls(r, at)' <=> PumpCalls(r, at)
    BY DEF PumpCalls, HeadIs
  <2>4. ASSUME NEW j \in Job, ~Leased(j),
               HeadIs(r, j) \/ (PumpCalls(r, "duplicate") /\ j = Head(driver.pump.claims))
        PROVE  ~Leased(j)'
    BY <1>1, <1>2, <2>4, AnsweredJob, LeaseIsOver
  <2>5. reply'[r].result \in {"accepted", "retry", "failed", "stale"} =>
           \A j \in Job :
              HeadIs(r, j)' \/ (PumpCalls(r, "duplicate")' /\ j = Head(driver'.pump.claims))
                 => ~Leased(j)'
    BY <2>1, <2>2, <2>3, <2>4 DEF ReplyFits
  <2> QED
    BY <2>1, <2>3, <2>5 DEF ReplyFits
<1>5. RepliesFit'
  BY <1>4 DEF RepliesFit
<1>6. ClaimsFresh'
  <2>1. ASSUME NEW claims \in Seq(Job), Granted(row, claims) PROVE Granted(row', claims)
    <3> SUFFICES ASSUME NEW x \in DOMAIN claims
                 PROVE  claims[x][2] <= row'[claims[x][1]].generation
      BY DEF Granted
    <3>1. claims[x] \in Job
      OBVIOUS
    <3>2. claims[x][1] \in Items /\ claims[x][2] \in Int
      BY <3>1, Bounds DEF Job
    <3>3. /\ claims[x][2] <= row[claims[x][1]].generation
          /\ row[claims[x][1]].generation <= row'[claims[x][1]].generation
          /\ row[claims[x][1]].generation \in Int /\ row'[claims[x][1]].generation \in Int
      BY <2>1, <3>2, <1>3 DEF Granted
    <3> QED
      BY <3>2, <3>3
  <2>2. ASSUME NEW j \in Job, driver.phase[j] # "none"
        PROVE  j[2] <= row'[j[1]].generation
    <3>1. j[1] \in Items /\ j[2] \in Int
      BY Bounds DEF Job
    <3>2. /\ j[2] <= row[j[1]].generation /\ row[j[1]].generation <= row'[j[1]].generation
          /\ row[j[1]].generation \in Int /\ row'[j[1]].generation \in Int
      BY <2>2, <3>1, <1>1, <1>3 DEF ClaimsFresh
    <3> QED
      BY <3>1, <3>2
  <2>3. ASSUME NEW r \in Queues
        PROVE  Unstarted(driver', reply'[r].claims) /\ Granted(row', reply'[r].claims)
    <3>1. CASE reply'[r] = reply[r]
      <4>1. Unstarted(driver, reply[r].claims) /\ Granted(row, reply[r].claims)
        BY <1>1 DEF ClaimsFresh
      <4>2. Granted(row', reply[r].claims)
        BY <4>1, <1>1, <2>1
      <4> QED
        BY <3>1, <4>1, <4>2 DEF Unstarted
    <3>2. CASE Unstarted(driver, reply'[r].claims) /\ Granted(row', reply'[r].claims)
      BY <3>2 DEF Unstarted
    <3> QED
      BY <3>1, <3>2
  <2>4. Unstarted(driver', driver'.pump.claims) /\ Granted(row', driver'.pump.claims)
    <3>1. Unstarted(driver, driver.pump.claims) /\ Granted(row, driver.pump.claims)
      BY <1>1 DEF ClaimsFresh
    <3>2. Granted(row', driver.pump.claims)
      BY <3>1, <1>1, <2>1
    <3> QED
      BY <3>1, <3>2 DEF Unstarted
  <2>5. \A i \in Items : row'[i].state = "leased" => row'[i].generation > 0
    <3> SUFFICES ASSUME NEW i \in Items, row'[i].state = "leased"
                 PROVE  row'[i].generation > 0
      OBVIOUS
    <3>1. CASE row'[i] = row[i]
      BY <1>1, <3>1 DEF ClaimsFresh
    <3>2. CASE row'[i].generation > row[i].generation
      BY <1>1, <1>2, <3>2 DEF Row
    <3> QED
      BY <3>1, <3>2
  <2> QED
    BY <2>2, <2>3, <2>4, <2>5 DEF ClaimsFresh
<1>7. LeasesAreBacked'
  <2> SUFFICES ASSUME driver.accepting, ~lost, NEW i \in Items, row'[i].state = "leased",
                      adopted'[QueueOf[i]]
               PROVE  Backed(i)'
    BY DEF LeasesAreBacked, Stray
  <2>1. CASE row'[i] = row[i] /\ adopted[QueueOf[i]]
    <3>1. Backed(i)
      BY <1>1, <2>1 DEF LeasesAreBacked, Stray
    <3>2. \A r \in Queues : ToSet(reply[r].claims) \subseteq ToSet(reply'[r].claims)
      BY DEF ToSet
    <3> QED
      BY <2>1, <3>1, <3>2 DEF Backed
  <2>2. CASE \E r \in Queues : <<i, row'[i].generation>> \in ToSet(reply'[r].claims)
    BY <2>2 DEF Backed
  <2> QED
    BY <2>1, <2>2
<1>8. StopFits'
  BY <1>1 DEF StopFits
<1>9. Tidy(driver')
  BY <1>1
<1> QED
  BY <1>5, <1>6, <1>7, <1>8, <1>9, ClaimsParts

\* Work is committed, or an owner wakes in a new activation.
LEMMA OwnerWakesStep ==
    ASSUME ClaimsInv, DurableInv',
           (\E i \in Items : AddWork(i)) \/ (\E q \in Queues : Reactivate(q))
    PROVE  ClaimsInv'
<1>1. row \in [Items -> Row] /\ adopted \in [Queues -> BOOLEAN] /\ \A i \in Items : row[i].generation \in Int
  BY Shapes DEF Surroundings, Row
<1>2. ASSUME NEW i \in Items, AddWork(i)
      PROVE  ClaimsInv'
  <2>1. UNCHANGED <<driver, reply, scan, stop, adopted, lost>> /\ row' = [row EXCEPT ![i].state = "ready"]
    BY <1>2 DEF AddWork, bounds
  <2>2. \A k \in Items : row'[k] = IF k = i THEN [row[i] EXCEPT !.state = "ready"] ELSE row[k]
    BY <1>1, <2>1
  <2>3. row[i] \in Row /\ row'[i] = [row[i] EXCEPT !.state = "ready"]
    BY <1>1, <2>2
  <2>4. row'[i].state = "ready" /\ row'[i].generation = row[i].generation
    BY <2>3 DEF Row
  <2>5. \A k \in Items : row[k].generation \in Int /\ row'[k].generation = row[k].generation
    BY <1>1, <2>2, <2>4
  <2>6. \A k \in Items : row'[k].generation >= row[k].generation
    BY <2>5
  <2>7. \A k \in Items : row'[k].state = "leased" => row'[k] = row[k]
    BY <2>2, <2>4
  <2> QED
    BY <2>1, <2>6, <2>7, OwnerKeeps
<1>3. ASSUME NEW q \in Queues, Reactivate(q)
      PROVE  ClaimsInv'
  <2>1. UNCHANGED <<driver, reply, scan, stop, row, lost>> /\ adopted' = [adopted EXCEPT ![q] = FALSE]
    BY <1>3 DEF Reactivate
  <2>2. \A i \in Items : adopted'[QueueOf[i]] => adopted[QueueOf[i]]
    BY <1>1, <2>1, QueueAssumption
  <2> QED
    BY <1>1, <2>1, <2>2, OwnerKeeps
<1> QED
  BY <1>2, <1>3

\* The row of a claim changes its state.
LEMMA SetRow ==
    ASSUME row \in [Items -> Row], NEW j \in Job, NEW state \in {"ready", "parked", "done"},
           Sets(j, state)
    PROVE  /\ ~Leased(j)'
           /\ \A i \in Items : /\ row'[i].generation >= row[i].generation
                               /\ row'[i].state = "leased" => row'[i] = row[i]
<1>1. j[1] \in Items
  BY DEF Job
<1>2. \A i \in Items : row'[i] = IF i = j[1] THEN [row[i] EXCEPT !.state = state] ELSE row[i]
  BY <1>1 DEF Sets
<1>3. row[j[1]] \in Row /\ row'[j[1]] = [row[j[1]] EXCEPT !.state = state]
  BY <1>1, <1>2
<1>4. row'[j[1]].state = state /\ row'[j[1]].generation = row[j[1]].generation
  BY <1>3 DEF Row
<1>5. \A i \in Items : row[i].generation \in Int
  BY DEF Row
<1>6. \A i \in Items : row'[i].generation = row[i].generation
  BY <1>1, <1>2, <1>4
<1>7. \A i \in Items : row'[i].generation >= row[i].generation
  BY <1>5, <1>6
<1>8. \A i \in Items : row'[i].state = "leased" => row'[i] = row[i]
  BY <1>1, <1>2, <1>4
<1>9. ~Leased(j)'
  BY <1>4 DEF Leased
<1> QED
  BY <1>7, <1>8, <1>9

\* An owner settles or fails the claim at the head of its chain.
LEMMA OwnerAnswersStep ==
    ASSUME ClaimsInv, DurableInv', NEW q \in Queues, NEW j \in Job, NEW result,
           result \in {"accepted", "retry", "failed", "stale"},
           \/ HeadIs(q, j) /\ driver.phase[j] # "none"
           \/ PumpCalls(q, "duplicate") /\ j = Head(driver.pump.claims),
           reply[q].result = "none", reply' = [reply EXCEPT ![q] = Reply(result)],
           \/ \E state \in {"ready", "parked", "done"} : Sets(j, state)
           \/ ~Leased(j) /\ row' = row,
           UNCHANGED <<driver, scan, stop, adopted, lost>>
    PROVE  ClaimsInv'
<1>1. /\ Tidy(driver) /\ RepliesFit /\ row \in [Items -> Row] /\ reply \in [Queues -> Answer]
      /\ driver.chain[q] \in Seq(Mutation)
  BY Shapes DEF ClaimsInv, Surroundings
<1>2. /\ ~Leased(j)'
      /\ \A i \in Items : /\ row'[i].generation >= row[i].generation
                          /\ row'[i].state = "leased" => row'[i] = row[i]
  <2>1. CASE \E state \in {"ready", "parked", "done"} : Sets(j, state)
    BY <1>1, <2>1, SetRow
  <2>2. CASE ~Leased(j) /\ row' = row
    <3>1. \A i \in Items : row[i].generation \in Int
      BY <1>1 DEF Row
    <3> QED
      BY <2>2, <3>1 DEF Leased
  <2> QED
    BY <2>1, <2>2
<1>3. reply[q].claims = <<>>
  BY <1>1 DEF RepliesFit, ReplyFits
<1>4. /\ reply'[q].result = result /\ reply'[q].claims = <<>>
      /\ \A r \in Queues \ {q} : reply'[r] = reply[r]
  BY <1>1 DEF Reply, NoReply
<1>5. driver.chain[q] # <<>>
  BY DEF HeadIs, PumpCalls
<1>6. \A k \in Job :
         HeadIs(q, k)' \/ (PumpCalls(q, "duplicate")' /\ k = Head(driver'.pump.claims)) => k = j
  <2>1. \A k \in Job : ~(HeadIs(q, k) /\ HeadIs(q, NoJob))
    BY JobShape DEF HeadIs
  <2> QED
    BY <2>1 DEF HeadIs, PumpCalls
<1>7. ReplyFits(q)'
  BY <1>2, <1>4, <1>5, <1>6 DEF ReplyFits
<1>8. Unstarted(driver, reply'[q].claims) /\ Granted(row', reply'[q].claims)
  BY <1>4 DEF Unstarted, Granted
<1> QED
  BY <1>2, <1>3, <1>4, <1>7, <1>8, OwnerKeeps

\* An owner settles a claim, or finds it stale.
LEMMA OwnerSettlesStep ==
    ASSUME ClaimsInv, DurableInv', NEW q \in Queues, OwnerSettles(q)
    PROVE  ClaimsInv'
<1>1. UNCHANGED <<driver, scan, stop, adopted, lost>>
  BY DEF OwnerSettles, bounds
<1>2. PICK j \in Job :
        /\ HeadIs(q, j) /\ driver.phase[j] = "settling"
        /\ reply[q].result = "none"
        /\ \/ Leased(j) /\ Sets(j, "done") /\ reply' = [reply EXCEPT ![q] = Reply("accepted")]
           \/ ~Leased(j) /\ row' = row /\ reply' = [reply EXCEPT ![q] = Reply("stale")]
  BY DEF OwnerSettles
<1>3. CASE Sets(j, "done") /\ reply' = [reply EXCEPT ![q] = Reply("accepted")]
  BY <1>1, <1>2, <1>3, OwnerAnswersStep
<1>4. CASE ~Leased(j) /\ row' = row /\ reply' = [reply EXCEPT ![q] = Reply("stale")]
  BY <1>1, <1>2, <1>4, OwnerAnswersStep
<1> QED
  BY <1>2, <1>3, <1>4

\* An owner fails a claim, or finds it stale.
LEMMA OwnerFailsStep ==
    ASSUME ClaimsInv, DurableInv', NEW q \in Queues, OwnerFails(q)
    PROVE  ClaimsInv'
<1>1. UNCHANGED <<driver, scan, stop, adopted, lost>>
  BY DEF OwnerFails, bounds
<1>2. PICK j \in Job :
        /\ Failing(q, j)
        /\ reply[q].result = "none"
        /\ \/ /\ Leased(j) /\ j[2] < MaxGeneration /\ Sets(j, "ready")
              /\ reply' = [reply EXCEPT ![q] = Reply("retry")]
           \/ /\ Leased(j) /\ Sets(j, "parked")
              /\ reply' = [reply EXCEPT ![q] = Reply("failed")]
           \/ /\ ~Leased(j) /\ row' = row
              /\ reply' = [reply EXCEPT ![q] = Reply("stale")]
  BY DEF OwnerFails
<1>3. \/ HeadIs(q, j) /\ driver.phase[j] # "none"
      \/ PumpCalls(q, "duplicate") /\ j = Head(driver.pump.claims)
  BY <1>2 DEF Failing
<1>4. CASE Sets(j, "ready") /\ reply' = [reply EXCEPT ![q] = Reply("retry")]
  BY <1>1, <1>2, <1>3, <1>4, OwnerAnswersStep
<1>5. CASE Sets(j, "parked") /\ reply' = [reply EXCEPT ![q] = Reply("failed")]
  BY <1>1, <1>2, <1>3, <1>5, OwnerAnswersStep
<1>6. CASE ~Leased(j) /\ row' = row /\ reply' = [reply EXCEPT ![q] = Reply("stale")]
  BY <1>1, <1>2, <1>3, <1>6, OwnerAnswersStep
<1> QED
  BY <1>2, <1>4, <1>5, <1>6

\* Adoption grants no lease, and ends those of an owner it is new to.
LEMMA AdoptedRows ==
    ASSUME RowsSound(row), NEW q, NEW A, A = Adopted(q)
    PROVE  /\ A \in [Items -> Row]
           /\ \A i \in Items :
                 /\ A[i].generation = row[i].generation /\ row[i].generation \in Int
                 /\ A[i].state = "leased" => A[i] = row[i] /\ (QueueOf[i] = q => adopted[q])
<1>1. A \in [Items -> Row] /\ row \in [Items -> Row]
  BY AdoptedSound DEF RowsSound
<1>2. ASSUME NEW i \in Items
      PROVE  /\ A[i].generation = row[i].generation
             /\ A[i].state = "leased" => A[i] = row[i] /\ (QueueOf[i] = q => adopted[q])
  <2>1. CASE adopted[q]
    BY <2>1 DEF Adopted
  <2>2. CASE ~adopted[q] /\ QueueOf[i] = q /\ row[i].state = "leased"
    <3> DEFINE state == IF row[i].generation < MaxGeneration THEN "ready" ELSE "parked"
    <3>1. A[i] = [row[i] EXCEPT !.state = state]
      BY <2>2 DEF Adopted
    <3>2. state # "leased"
      OBVIOUS
    <3> HIDE DEF state
    <3>3. row[i] \in Row
      BY <1>1
    <3>4. A[i].state = state /\ A[i].generation = row[i].generation
      BY <3>1, <3>3 DEF Row
    <3> QED
      BY <3>2, <3>4
  <2>3. CASE ~adopted[q] /\ ~(QueueOf[i] = q /\ row[i].state = "leased")
    BY <2>3 DEF Adopted
  <2> QED
    BY <2>1, <2>2, <2>3
<1>3. \A i \in Items : row[i].generation \in Int
  BY <1>1 DEF Row
<1> QED
  BY <1>1, <1>2, <1>3

\* An owner grants a claim: the leases are new, at most as many as were asked
\* for, and all of them are in the answer.
LEMMA OwnerClaimsStep ==
    ASSUME ClaimsInv, DurableInv', NEW q \in Queues, OwnerClaims(q)
    PROVE  ClaimsInv'
<1> DEFINE A == Adopted(q)
<1>1. /\ UNCHANGED <<driver, scan, stop, lost>> /\ PumpCalls(q, "claiming")
      /\ reply[q].result = "none" /\ adopted' = [adopted EXCEPT ![q] = TRUE]
  BY DEF OwnerClaims, bounds
<1>2. PICK batch \in Batches(q, A, driver.pump.limit) :
        /\ row' = [i \in Items |->
                     IF i \in Range(batch)
                     THEN [state |-> "leased", generation |-> A[i].generation + 1]
                     ELSE A[i]]
        /\ reply' = [reply EXCEPT ![q] =
                       [result |-> "claimed",
                        claims |-> [x \in DOMAIN batch |->
                                      <<batch[x], row'[batch[x]].generation>>]]]
  BY DEF OwnerClaims
<1>3. /\ Tidy(driver) /\ RepliesFit /\ ClaimsFresh /\ RowsSound(row) /\ row \in [Items -> Row]
      /\ reply \in [Queues -> Answer] /\ adopted \in [Queues -> BOOLEAN]
      /\ driver.pump.limit \in Nat
  BY Shapes DEF ClaimsInv, Surroundings, Tidy, PumpFits
<1>4. PICK m \in 0..driver.pump.limit : batch \in [1..m -> Claimable(q, A)]
  BY <1>2 DEF Batches
<1>5. \A x, y \in DOMAIN batch : x # y => LaneOf[batch[x]] # LaneOf[batch[y]]
  BY <1>2 DEF Batches
<1>6. /\ A \in [Items -> Row]
      /\ \A i \in Items :
            /\ A[i].generation = row[i].generation /\ row[i].generation \in Int
            /\ A[i].state = "leased" => A[i] = row[i] /\ (QueueOf[i] = q => adopted[q])
  BY <1>3, AdoptedRows
<1> HIDE DEF A
<1>7. DOMAIN batch = 1..m /\ \A x \in 1..m : batch[x] \in Items
  BY <1>4 DEF Claimable
<1> DEFINE claims == reply'[q].claims
<1>8. /\ reply'[q].result = "claimed" /\ DOMAIN claims = 1..m
      /\ \A x \in 1..m : claims[x] = <<batch[x], row'[batch[x]].generation>>
      /\ \A r \in Queues \ {q} : reply'[r] = reply[r]
  BY <1>2, <1>3, <1>7
<1>9. claims \in Seq(Job)
  BY DEF DurableInv, DurableTypeOK, Answer
<1> HIDE DEF claims
<1>10. Len(claims) = m
  <2> DEFINE n == Len(claims)
  <2>1. DOMAIN claims = 1..n /\ n \in Nat
    BY <1>9
  <2>a. driver.pump.limit \in Nat /\ m \in 0..driver.pump.limit
    BY <1>3
  <2>b. DOMAIN claims = 1..m
    BY <1>8
  <2> HIDE DEF n
  <2>2. m \in Nat /\ 1..n = 1..m
    BY <2>1, <2>a, <2>b
  <2>3. ~(n < m) /\ ~(m < n)
    <3>1. n < m => m \in 1..m /\ m \notin 1..n
      BY <2>1, <2>2
    <3>2. m < n => n \in 1..n /\ n \notin 1..m
      BY <2>1, <2>2
    <3> QED
      BY <2>2, <3>1, <3>2
  <2>4. n = m
    BY <2>1, <2>2, <2>3
  <2> QED
    BY <2>4 DEF n
<1>11. \A i \in Items : i \in Range(batch) => row'[i].generation = row[i].generation + 1
  BY <1>2, <1>6
<1>12. \A x \in 1..m : batch[x] \in Range(batch)
  BY <1>7 DEF Range
<1>13. \A x \in 1..m : /\ claims[x][1] = batch[x] /\ claims[x] \in Job
                       /\ claims[x][2] = row[batch[x]].generation + 1
                       /\ claims[x][2] = row'[batch[x]].generation
  <2>1. \A x \in 1..m : claims[x] \in Job
    BY <1>8, <1>9
  <2> QED
    BY <2>1, <1>7, <1>8, <1>11, <1>12
<1>14. Unstarted(driver, claims)
  <2>1. \A x \in 1..m : driver.phase[claims[x]] = "none"
    <3> SUFFICES ASSUME NEW x \in 1..m, driver.phase[claims[x]] # "none" PROVE FALSE
      OBVIOUS
    <3>1. row[batch[x]].generation + 1 <= row[batch[x]].generation
      BY <1>3, <1>13 DEF ClaimsFresh
    <3> QED
      BY <3>1, <1>6, <1>7
  <2>2. \A x, y \in 1..m : claims[x] = claims[y] => x = y
    BY <1>5, <1>7, <1>13
  <2> QED
    BY <2>1, <2>2, <1>8 DEF Unstarted
<1>15. Granted(row', claims)
  <2> SUFFICES ASSUME NEW x \in 1..m PROVE claims[x][2] <= row'[claims[x][1]].generation
    BY <1>8 DEF Granted
  <2>1. claims[x][1] = batch[x] /\ claims[x][2] = row'[batch[x]].generation
    BY <1>13
  <2>2. claims[x][2] \in Int
    BY <1>6, <1>7, <1>13
  <2> QED
    BY <2>1, <2>2
<1>16. ReplyFits(q)'
  <2>1. PumpCalls(q, "claiming")' /\ driver'.chain[q] # <<>>
    BY <1>1 DEF PumpCalls, HeadIs
  <2>2. Len(reply'[q].claims) <= driver'.pump.limit
    BY <1>1, <1>4, <1>10 DEF claims
  <2> QED
    BY <2>1, <2>2, <1>8 DEF ReplyFits
<1>17. reply[q].claims = <<>>
  BY <1>1, <1>3 DEF RepliesFit, ReplyFits
<1>18. ASSUME NEW i \in Items
       PROVE  /\ row'[i].generation >= row[i].generation
              /\ row'[i].state = "leased" =>
                    \/ row'[i] = row[i] /\ (adopted'[QueueOf[i]] => adopted[QueueOf[i]])
                    \/ /\ row'[i].generation > row[i].generation
                       /\ \E r \in Queues : <<i, row'[i].generation>> \in ToSet(reply'[r].claims)
  <2>1. CASE i \in Range(batch)
    <3>1. PICK x \in 1..m : batch[x] = i
      BY <2>1, <1>7 DEF Range
    <3>2. <<i, row'[i].generation>> \in ToSet(reply'[q].claims)
      BY <3>1, <1>8 DEF ToSet, claims
    <3>3. row'[i].generation = row[i].generation + 1 /\ row[i].generation \in Int
      BY <2>1, <1>6, <1>11
    <3> QED
      BY <3>2, <3>3
  <2>2. CASE i \notin Range(batch)
    <3>1. row'[i] = A[i]
      BY <2>2, <1>2
    <3>2. row'[i].generation = row[i].generation /\ row[i].generation \in Int
      BY <3>1, <1>6
    <3>3. row'[i].state = "leased" => row'[i] = row[i] /\ (QueueOf[i] = q => adopted[q])
      BY <3>1, <1>6
    <3>4. QueueOf[i] # q => adopted'[QueueOf[i]] = adopted[QueueOf[i]]
      BY <1>1, <1>3, QueueAssumption
    <3> QED
      BY <3>2, <3>3, <3>4
  <2> QED
    BY <2>1, <2>2
<1> QED
  BY <1>1, <1>8, <1>14, <1>15, <1>16, <1>17, <1>18, OwnerKeeps DEF claims

\* A lost call leaves the driver with its claims; no lease is promised any more.
LEMMA LossKeeps ==
    ASSUME ClaimsInv, DurableInv', UNCHANGED <<driver, stop, row>>, scan'.on => scan.on,
           lost' \/ ~driver.accepting, lost => lost',
           \A r \in Queues : \/ reply'[r] = reply[r]
                             \/ reply'[r] = Reply("lost") /\ driver.chain[r] # <<>>
    PROVE  ClaimsInv'
<1>1. Tidy(driver) /\ RepliesFit /\ ClaimsFresh /\ StopFits
  BY DEF ClaimsInv
<1>2. Reply("lost").result = "lost" /\ Reply("lost").claims = <<>>
  BY DEF Reply, NoReply
<1>3. RepliesFit'
  <2> SUFFICES ASSUME NEW r \in Queues PROVE ReplyFits(r)'
    BY DEF RepliesFit
  <2>1. CASE reply'[r] = reply[r]
    <3>1. ReplyFits(r)
      BY <1>1 DEF RepliesFit
    <3> QED
      BY <2>1, <3>1 DEF ReplyFits, HeadIs, PumpCalls, Leased
  <2>2. CASE reply'[r] = Reply("lost") /\ driver.chain[r] # <<>>
    BY <2>2, <1>2 DEF ReplyFits
  <2> QED
    BY <2>1, <2>2
<1>4. ClaimsFresh'
  <2>1. ASSUME NEW r \in Queues
        PROVE  Unstarted(driver', reply'[r].claims) /\ Granted(row', reply'[r].claims)
    <3>1. CASE reply'[r].claims = <<>>
      BY <3>1 DEF Unstarted, Granted
    <3>2. CASE reply'[r].claims = reply[r].claims
      BY <3>2, <1>1 DEF ClaimsFresh, Unstarted, Granted
    <3> QED
      BY <3>1, <3>2, <1>2
  <2> QED
    BY <2>1, <1>1 DEF ClaimsFresh, Unstarted, Granted
<1>5. StopFits'
  BY <1>1 DEF StopFits
<1>6. LeasesAreBacked'
  BY DEF LeasesAreBacked
<1>7. Tidy(driver')
  BY <1>1
<1> QED
  BY <1>3, <1>4, <1>5, <1>6, <1>7, ClaimsParts

\* A call fails.
LEMMA CallFailsStep ==
    ASSUME ClaimsInv, DurableInv', NEW q \in Queues, CallFails(q)
    PROVE  ClaimsInv'
<1>1. /\ driver.chain[q] # <<>> /\ UNCHANGED <<driver, scan, stop, row>>
      /\ reply' = [reply EXCEPT ![q] = Reply("lost")]
      /\ lost' = TRUE \/ (driver.pump.aborted /\ lost' = lost)
  BY DEF CallFails, Owners, bounds, Fault
<1>2. reply \in [Queues -> Answer] /\ AbortedStops(driver)
  BY Shapes DEF Surroundings, Tidy
<1>3. lost' \/ ~driver.accepting
  BY <1>1, <1>2 DEF AbortedStops
<1>4. lost => lost'
  BY <1>1
<1>5. \A r \in Queues : \/ reply'[r] = reply[r]
                        \/ reply'[r] = Reply("lost") /\ driver.chain[r] # <<>>
  BY <1>1, <1>2
<1> QED
  BY <1>1, <1>3, <1>4, <1>5, LossKeeps

\* The scan asks an owner, or passes over one that fails.
LEMMA ScanOwnerStep ==
    ASSUME ClaimsInv, DurableInv', NEW q \in Queues, ScanOwner(q)
    PROVE  ClaimsInv'
<1>1. UNCHANGED <<driver, reply, stop>>
  BY DEF ScanOwner
<1>2. scan \in [on: BOOLEAN, left: SUBSET Queues, found: SUBSET Queues] /\ RowsSound(row)
      /\ adopted \in [Queues -> BOOLEAN]
  BY Shapes DEF Surroundings
<1>3. CASE /\ row' = Adopted(q) /\ adopted' = [adopted EXCEPT ![q] = TRUE]
           /\ scan' = [scan EXCEPT !.left = @ \ {q},
                                   !.found = IF Claimable(q, row') = {} THEN @ ELSE @ \union {q}]
           /\ UNCHANGED bounds
  <2>1. scan'.on = scan.on /\ lost' = lost
    BY <1>2, <1>3 DEF bounds
  <2>2. \A i \in Items :
           /\ row'[i].generation = row[i].generation /\ row[i].generation \in Int
           /\ row'[i].state = "leased" => row'[i] = row[i] /\ (QueueOf[i] = q => adopted[q])
    BY <1>2, <1>3, AdoptedRows
  <2>3. \A i \in Items : QueueOf[i] # q => adopted'[QueueOf[i]] = adopted[QueueOf[i]]
    BY <1>2, <1>3, QueueAssumption
  <2>4. \A i \in Items : row'[i].generation >= row[i].generation
    BY <2>2
  <2>5. \A i \in Items : row'[i].state = "leased" =>
           row'[i] = row[i] /\ (adopted'[QueueOf[i]] => adopted[QueueOf[i]])
    BY <2>2, <2>3
  <2> QED
    BY <1>1, <2>1, <2>4, <2>5, OwnerKeeps
<1>4. CASE /\ lost' = TRUE /\ scan' = [scan EXCEPT !.left = @ \ {q}] /\ UNCHANGED Owners
  <2>1. scan'.on = scan.on /\ row' = row
    BY <1>2, <1>4 DEF Owners
  <2> QED
    BY <1>1, <1>4, <2>1, LossKeeps
<1> QED
  BY <1>3, <1>4 DEF ScanOwner, Fault

\* The pump's claim is sent: it promises the slots that are free.
LEMMA SendClaimStep ==
    ASSUME ClaimsInv, DurableInv', NEW q \in Queues, SendClaim(q)
    PROVE  ClaimsInv'
<1> DEFINE p == [driver.pump EXCEPT !.at = "claiming", !.limit = Free(driver)]
<1>1. /\ PumpCalls(q, "claim") /\ UNCHANGED <<scan, stop, row, adopted, lost>>
      /\ driver' = [driver EXCEPT !.pump.at = "claiming", !.pump.limit = Free(driver)]
      /\ reply' = IF driver.pump.aborted THEN [reply EXCEPT ![q] = Reply("lost")] ELSE reply
  BY DEF SendClaim, Owners, bounds
<1>2. /\ Sound(driver) /\ driver \in Driver /\ Tidy(driver) /\ RepliesFit /\ ClaimsFresh /\ StopFits
      /\ LeasesAreBacked /\ driver.pump \in Pump /\ reply \in [Queues -> Answer]
  BY Shapes DEF ClaimsInv, Surroundings
<1>3. driver' = [driver EXCEPT !.pump = p]
  BY <1>1, <1>2 DEF Driver
<1>4. Free(driver) \in Int /\ Free(driver) = Concurrency - Cardinality(Runners(driver))
  BY <1>2, FreeSlots DEF Free
<1>5. /\ p \in Pump /\ p.at = "claiming" /\ p.limit = Free(driver)
      /\ p.claims = driver.pump.claims /\ p.aborted = driver.pump.aborted
  BY <1>2, <1>4 DEF Pump
<1> HIDE DEF p
<1>6. driver.pump.at = "claim" /\ driver.pump.claims = <<>>
  BY <1>1, <1>2 DEF PumpCalls, Tidy, PumpFits
<1>7. Cardinality(Runners(driver)) <= Concurrency
  BY <1>2, <1>6, RunnersCounted, Bounds DEF Tidy, SlotsCover, Promised
<1>8. Tidy(driver')
  <2>1. PumpFits(p)
    BY <1>4, <1>5, <1>6, <1>7, RunnersCounted, Bounds DEF PumpFits
  <2>2. Cardinality(Runners(driver)) + Promised(p) <= Concurrency
    BY <1>4, <1>5, RunnersCounted, Bounds DEF Promised
  <2>3. driver.accepting => ~p.aborted
    BY <1>2, <1>5 DEF Tidy, AbortedStops
  <2> QED
    BY <1>2, <1>3, <1>5, <2>1, <2>2, <2>3, PumpTidy DEF Calling
<1>9. /\ driver'.accepting = driver.accepting /\ driver'.phase = driver.phase
      /\ driver'.chain = driver.chain /\ driver'.pump = p
  BY <1>2, <1>3 DEF Driver
<1>10. Reply("lost").result = "lost" /\ Reply("lost").claims = <<>>
  BY DEF Reply, NoReply
<1>11. \A r \in Queues : \/ reply'[r] = reply[r]
                         \/ reply'[r] = Reply("lost") /\ r = q /\ ~driver.accepting
  BY <1>1, <1>2 DEF Tidy, AbortedStops
<1>12. RepliesFit'
  <2> SUFFICES ASSUME NEW r \in Queues PROVE ReplyFits(r)'
    BY DEF RepliesFit
  <2>1. CASE reply'[r] = reply[r]
    <3>1. ReplyFits(r) /\ reply[r].result # "claimed"
      BY <1>2, <1>6 DEF RepliesFit, ReplyFits, PumpCalls
    <3>2. ~PumpCalls(r, "duplicate")' /\ \A j : HeadIs(r, j)' <=> HeadIs(r, j)
      BY <1>5, <1>9 DEF PumpCalls, HeadIs
    <3>3. \A j : Leased(j)' <=> Leased(j)
      BY <1>1 DEF Leased
    <3> QED
      BY <1>1, <1>9, <2>1, <3>1, <3>2, <3>3 DEF ReplyFits
  <2>2. CASE reply'[r] = Reply("lost") /\ r = q /\ ~driver.accepting
    <3>1. driver'.chain[r] # <<>>
      BY <1>1, <1>9, <2>2 DEF PumpCalls, HeadIs
    <3> QED
      BY <2>2, <3>1, <1>9, <1>10 DEF ReplyFits
  <2> QED
    BY <2>1, <2>2, <1>11
<1>13. ClaimsFresh'
  <2>1. ASSUME NEW r \in Queues
        PROVE  Unstarted(driver', reply'[r].claims) /\ Granted(row', reply'[r].claims)
    <3>1. CASE reply'[r].claims = <<>>
      BY <3>1 DEF Unstarted, Granted
    <3>2. CASE reply'[r].claims = reply[r].claims
      BY <3>2, <1>1, <1>2, <1>9 DEF ClaimsFresh, Unstarted, Granted
    <3> QED
      BY <3>1, <3>2, <1>10, <1>11
  <2>2. Unstarted(driver', driver'.pump.claims) /\ Granted(row', driver'.pump.claims)
    BY <1>5, <1>6, <1>9 DEF Unstarted, Granted
  <2> QED
    BY <2>1, <2>2, <1>1, <1>2, <1>9 DEF ClaimsFresh
<1>14. StopFits'
  BY <1>1, <1>2, <1>6, <1>9 DEF StopFits
<1>15. LeasesAreBacked'
  <2> SUFFICES ASSUME driver.accepting, ~lost, NEW i \in Items, row[i].state = "leased",
                      adopted[QueueOf[i]]
               PROVE  Backed(i)'
    BY <1>1, <1>9 DEF LeasesAreBacked, Stray
  <2>1. Backed(i) /\ reply' = reply
    BY <1>1, <1>2 DEF LeasesAreBacked, Stray, Tidy, AbortedStops
  <2> QED
    BY <2>1, <1>1, <1>5, <1>9 DEF Backed
<1> QED
  BY <1>8, <1>12, <1>13, <1>14, <1>15, ClaimsParts

-----------------------------------------------------------------------------
(* The start, and the stages of quiesce *)

\* A driver that has just been made is tidy, and holds nothing.
LEMMA NewDriverTidy ==
    /\ Tidy(NewDriver) /\ NewDriver.accepting
    /\ NewDriver.pump.claims = <<>> /\ NewDriver.pump.at = "idle"
    /\ \A j \in Job : NewDriver.phase[j] = "none"
<1>1. /\ NewDriver.accepting /\ NewDriver.pump = NoPump /\ NewDriver.aborted = {}
      /\ \A j \in Job : NewDriver.phase[j] = "none"
      /\ \A l \in Lanes : NewDriver.lane[l] = NoJob
      /\ \A q \in Queues : NewDriver.chain[q] = <<>>
  BY DEF NewDriver
<1>2. Runners(NewDriver) = {}
  BY <1>1 DEF Runners, Running
<1>3. Cardinality({}) = 0
  BY FS_EmptySet
<1>4. SlotsCover(NewDriver)
  BY <1>1, <1>2, <1>3, PumpStages, Bounds DEF SlotsCover
<1>5. ChainsFit(NewDriver)
  BY <1>1 DEF ChainsFit
<1> QED
  BY <1>1, <1>4, <1>5, PumpStages DEF Tidy, LanesNamed, RunnableWaits, AbortedStops

\* The invariant holds at first.
LEMMA ClaimsInit == Init => ClaimsInv
<1> SUFFICES ASSUME Init PROVE ClaimsInv
  OBVIOUS
<1>1. DurableInv
  BY InitSound
<1>2. /\ driver = NewDriver /\ \A q \in Queues : reply[q] = NoReply
      /\ stop.at = "no" /\ \A i \in Items : row[i].state # "leased"
  BY DEF Init
<1>3. NoReply.result = "none" /\ NoReply.claims = <<>>
  BY DEF NoReply
<1>4. RepliesFit
  BY <1>2, <1>3 DEF RepliesFit, ReplyFits
<1>5. ClaimsFresh
  BY <1>2, <1>3, NewDriverTidy DEF ClaimsFresh, Unstarted, Granted
<1>6. StopFits
  BY <1>2, NewDriverTidy DEF StopFits
<1>7. LeasesAreBacked
  BY <1>2 DEF LeasesAreBacked, Stray
<1> QED
  BY <1>1, <1>2, <1>4, <1>5, <1>6, <1>7, NewDriverTidy DEF ClaimsInv

\* The host starts again: no owner has adopted the new worker.
LEMMA RestartStep ==
    ASSUME ClaimsInv, DurableInv', Restart
    PROVE  ClaimsInv'
<1>1. /\ driver' = NewDriver /\ \A q \in Queues : reply'[q] = NoReply
      /\ stop'.at = "no" /\ row' = row
      /\ \A q \in Queues : adopted'[q] = FALSE
  BY DEF Restart
<1>2. NoReply.result = "none" /\ NoReply.claims = <<>>
  BY DEF NoReply
<1>3. ClaimsFresh
  BY DEF ClaimsInv
<1>4. RepliesFit'
  BY <1>1, <1>2 DEF RepliesFit, ReplyFits
<1>5. ClaimsFresh'
  BY <1>1, <1>2, <1>3, NewDriverTidy DEF ClaimsFresh, Unstarted, Granted
<1>6. StopFits'
  BY <1>1, NewDriverTidy DEF StopFits
<1>7. LeasesAreBacked'
  BY <1>1, QueueAssumption DEF LeasesAreBacked, Stray
<1>8. Tidy(driver')
  BY <1>1, NewDriverTidy
<1> QED
  BY <1>4, <1>5, <1>6, <1>7, <1>8, ClaimsParts

\* What the driver, the answers and the rows show is left alone.
LEMMA StopOnlyKeeps ==
    ASSUME ClaimsInv, DurableInv', UNCHANGED <<driver, reply, row, adopted, lost>>, StopFits'
    PROVE  ClaimsInv'
<1>1. Tidy(driver) /\ RepliesFit /\ ClaimsFresh /\ LeasesAreBacked
  BY DEF ClaimsInv
<1>2. RepliesFit'
  BY <1>1 DEF RepliesFit, ReplyFits, HeadIs, PumpCalls, Leased
<1>3. ClaimsFresh'
  BY <1>1 DEF ClaimsFresh, Unstarted, Granted
<1>4. LeasesAreBacked'
  BY <1>1 DEF LeasesAreBacked, Stray, Backed
<1>5. Tidy(driver')
  BY <1>1
<1> QED
  BY <1>2, <1>3, <1>4, <1>5, ClaimsParts

\* A scan starts, quiesce waits, or nothing happens.
LEMMA WaitingStep ==
    ASSUME ClaimsInv, DurableInv', StartScan \/ AwaitJobs \/ AwaitScan \/ UNCHANGED vars
    PROVE  ClaimsInv'
<1>1. UNCHANGED <<driver, reply, row, adopted, lost>>
  BY DEF StartScan, AwaitJobs, AwaitScan, vars, Owners, bounds
<1> SUFFICES StopFits'
  BY <1>1, StopOnlyKeeps
<1>2. StopFits
  BY DEF ClaimsInv
<1>3. stop \in [at: {"no", "pump", "jobs", "scan", "done"}, join: SUBSET Job]
  BY Shapes DEF Surroundings
<1>4. CASE StartScan
  BY <1>2, <1>4, <1>1 DEF StartScan, StopFits
<1>5. CASE AwaitJobs
  <2>1. stop.at = "pump" /\ driver.pump.at = "idle"
    BY <1>5 DEF AwaitJobs
  <2>2. stop'.at = "jobs" /\ stop'.join = Engaged(driver) /\ scan' = scan
    BY <1>5 DEF AwaitJobs, Engaged
  <2> QED
    BY <1>1, <1>2, <2>1, <2>2 DEF StopFits
<1>6. CASE AwaitScan
  <2>1. stop.at = "scan" /\ ~scan.on /\ stop'.at = "done" /\ scan' = scan
    BY <1>3, <1>6 DEF AwaitScan
  <2> QED
    BY <1>1, <1>2, <2>1 DEF StopFits
<1>7. CASE UNCHANGED vars
  BY <1>2, <1>7 DEF vars, StopFits
<1> QED
  BY <1>4, <1>5, <1>6, <1>7

\* quiesce begins: nothing is accepted any more, and all that runs is aborted.
LEMMA QuiesceStep ==
    ASSUME ClaimsInv, DurableInv', Quiesce
    PROVE  ClaimsInv'
<1>1. /\ driver.accepting /\ UNCHANGED <<reply, scan, row, adopted, lost>> /\ stop'.at = "pump"
      /\ driver' = [driver EXCEPT !.accepting = FALSE, !.pending = <<>>,
                                  !.aborted = Runners(driver) \union Prerequisites(driver),
                                  !.pump.aborted = @ \/ driver.pump.at \in {"claim", "claiming"}]
  BY DEF Quiesce, Owners, bounds
<1>2. /\ driver \in Driver /\ Tidy(driver) /\ RepliesFit /\ ClaimsFresh /\ driver.pump \in Pump
  BY Shapes DEF ClaimsInv
<1>3. /\ driver'.accepting = FALSE /\ driver'.runnable = driver.runnable
      /\ driver'.phase = driver.phase /\ driver'.lane = driver.lane /\ driver'.chain = driver.chain
      /\ driver'.pump.at = driver.pump.at /\ driver'.pump.claims = driver.pump.claims
      /\ driver'.pump.limit = driver.pump.limit
  BY <1>1, <1>2 DEF Driver, Pump
<1>4. Tidy(driver')
  <2>1. Promised(driver'.pump) = Promised(driver.pump) /\ Runners(driver') = Runners(driver)
    BY <1>3 DEF Promised, Runners
  <2>2. ChainsFit(driver')
    BY <1>2, <1>3 DEF Tidy, ChainsFit
  <2>3. LanesNamed(driver') /\ RunnableWaits(driver')
    BY <1>2, <1>3 DEF Tidy, LanesNamed, RunnableWaits
  <2>4. SlotsCover(driver') /\ PumpFits(driver'.pump) /\ AbortedStops(driver')
    BY <1>2, <1>3, <2>1 DEF Tidy, SlotsCover, PumpFits, AbortedStops
  <2> QED
    BY <2>2, <2>3, <2>4 DEF Tidy
<1>5. RepliesFit'
  <2> SUFFICES ASSUME NEW r \in Queues PROVE ReplyFits(r)'
    BY DEF RepliesFit
  <2>1. ReplyFits(r)
    BY <1>2 DEF RepliesFit
  <2> QED
    BY <1>1, <1>3, <2>1 DEF ReplyFits, HeadIs, PumpCalls, Leased
<1>6. ClaimsFresh'
  BY <1>1, <1>2, <1>3 DEF ClaimsFresh, Unstarted, Granted
<1>7. StopFits'
  BY <1>1, <1>3 DEF StopFits
<1>8. LeasesAreBacked'
  BY <1>3 DEF LeasesAreBacked
<1> QED
  BY <1>4, <1>5, <1>6, <1>7, <1>8, ClaimsParts

\* Nothing runs in a stopped driver whose jobs have ended: only claims that
\* wait for a slot are left, and no call.
LEMMA NothingRuns ==
    ASSUME ClaimsInv, driver.pump.at = "idle", Engaged(driver) = {}
    PROVE  /\ \A j \in Job : driver.phase[j] \in {"none", "runnable"}
           /\ \A j \in Job : driver.phase[j] = "runnable" => j \in ToSet(driver.runnable)
           /\ \A q \in Queues : driver.chain[q] = <<>>
<1>1. driver \in Driver /\ Tidy(driver) /\ \A q \in Queues : driver.chain[q] \in Seq(Mutation)
  BY Shapes
<1>2. \A j \in Job : driver.phase[j] \in {"none", "runnable"}
  BY <1>1 DEF Driver, Phases, Engaged, Runners, Prerequisites
<1>3. \A j \in Job : driver.phase[j] = "runnable" => j \in ToSet(driver.runnable)
  BY <1>1 DEF Tidy, RunnableWaits
<1>4. ASSUME NEW q \in Queues, driver.chain[q] # <<>> PROVE FALSE
  <2>1. 1 \in DOMAIN driver.chain[q] /\ driver.chain[q][1] \in Mutation
    BY <1>1, <1>4
  <2>2. CASE driver.chain[q][1] = NoJob
    BY <1>1, <2>1, <2>2 DEF Tidy, ChainsFit, Calling
  <2>3. CASE driver.chain[q][1] # NoJob
    <3>1. driver.chain[q][1] \in Job
      BY <2>1, <2>3 DEF Mutation
    <3>2. driver.phase[driver.chain[q][1]] \in Mutating
      BY <1>1, <2>1, <2>3 DEF Tidy, ChainsFit
    <3> QED
      BY <3>1, <3>2, <1>2 DEF Mutating
  <2> QED
    BY <2>2, <2>3
<1> QED
  BY <1>2, <1>3, <1>4

\* The claims that never got a slot are dropped, and with them the last jobs.
LEMMA DropRunnableStep ==
    ASSUME ClaimsInv, DurableInv', DropRunnable
    PROVE  ClaimsInv'
<1> DEFINE dropped == ToSet(driver.runnable)
<1>1. /\ stop.at = "jobs" /\ stop'.at = "scan" /\ UNCHANGED <<reply, scan, row, adopted, lost>>
      /\ stop.join \intersect Engaged(driver) = {}
      /\ driver' = [driver EXCEPT
                       !.runnable = <<>>,
                       !.phase = [j \in Job |-> IF j \in dropped THEN "none" ELSE @[j]],
                       !.lane = [l \in Lanes |-> IF @[l] \in dropped THEN NoJob ELSE @[l]]]
  BY DEF DropRunnable, Owners, bounds, Engaged
<1>2. driver \in Driver /\ Tidy(driver) /\ StopFits
  BY Shapes DEF ClaimsInv
<1>3. driver.pump.at = "idle" /\ ~driver.accepting /\ Engaged(driver) = {}
  BY <1>1, <1>2 DEF StopFits
<1>4. /\ driver'.accepting = driver.accepting /\ driver'.pump = driver.pump
      /\ driver'.chain = driver.chain
      /\ \A j \in Job : driver'.phase[j] = IF j \in dropped THEN "none" ELSE driver.phase[j]
      /\ \A l \in Lanes : driver'.lane[l] = IF driver.lane[l] \in dropped THEN NoJob
                                            ELSE driver.lane[l]
  BY <1>1, <1>2 DEF Driver
<1>5. /\ \A j \in Job : driver.phase[j] \in {"none", "runnable"}
      /\ \A j \in Job : driver.phase[j] = "runnable" => j \in dropped
      /\ \A q \in Queues : driver.chain[q] = <<>>
  BY <1>3, NothingRuns
<1> HIDE DEF dropped
<1>6. \A j \in Job : driver'.phase[j] = "none"
  BY <1>4, <1>5
<1>7. Tidy(driver')
  <2>1. ChainsFit(driver')
    BY <1>4, <1>5 DEF ChainsFit
  <2>2. \A l \in Lanes : driver'.lane[l] = NoJob
    <3> SUFFICES ASSUME NEW l \in Lanes, driver.lane[l] # NoJob PROVE driver.lane[l] \in dropped
      BY <1>4
    <3>1. driver.lane[l] \in Job
      BY <1>2 DEF Driver, Mutation
    <3>2. driver.phase[driver.lane[l]] # "none"
      BY <1>2 DEF Tidy, LanesNamed
    <3> QED
      BY <3>1, <3>2, <1>5
  <2>3. Runners(driver') \subseteq Runners(driver)
    BY <1>6 DEF Runners, Running
  <2>4. Promised(driver.pump) = 0
    BY <1>3 DEF Promised
  <2>5. SlotsCover(driver')
    BY <1>2, <1>4, <2>3, <2>4, FewerRunners DEF Tidy
  <2> QED
    BY <1>2, <1>3, <1>4, <1>6, <2>1, <2>2, <2>5
    DEF Tidy, LanesNamed, RunnableWaits, AbortedStops
<1>8. Onward(driver, driver', Job) /\ \A r \in Queues : HeadKept(driver, driver', r)
  BY <1>4, <1>6 DEF Onward, HeadKept
<1>9. RepliesFit' /\ ClaimsFresh' /\ LeasesAreBacked'
  BY <1>1, <1>3, <1>8, OnwardKeeps
<1>10. StopFits'
  BY <1>1, <1>2, <1>3, <1>4, <1>6 DEF StopFits
<1> QED
  BY <1>7, <1>9, <1>10, ClaimsParts

-----------------------------------------------------------------------------
(* The theorems *)

\* Every step keeps the invariant.
LEMMA ClaimsStep == ClaimsInv /\ [Next]_vars => ClaimsInv'
<1> SUFFICES ASSUME ClaimsInv, [Next]_vars PROVE ClaimsInv'
  OBVIOUS
<1>1. DurableInv'
  BY StepSound DEF ClaimsInv
<1>2. ASSUME NEW q \in Queues, Mutate(q) PROVE ClaimsInv'
  BY <1>1, <1>2, SendClaimStep, OwnerClaimsStep, OwnerSettlesStep, OwnerFailsStep,
     ClaimAnsweredStep, DuplicateAnsweredStep, SettleAnsweredStep, FailAnsweredStep DEF Mutate
<1>3. ASSUME NEW q \in Queues, CallFails(q) \/ Hint(q) \/ Reactivate(q) PROVE ClaimsInv'
  BY <1>1, <1>3, CallFailsStep, HintStep, OwnerWakesStep
<1>4. CASE Scanning
  BY <1>1, <1>4, WaitingStep, HintStep, ScanOwnerStep DEF Scanning
<1>5. CASE Quiesce \/ Quiescing
  BY <1>1, <1>5, QuiesceStep, WaitingStep, DropRunnableStep DEF Quiescing
<1>6. CASE UNCHANGED vars
  BY <1>1, <1>6, WaitingStep
<1> QED
  BY <1>1, <1>2, <1>3, <1>4, <1>5, <1>6, EndOfJobStep, OwnerWakesStep, FinishPumpStep, RestartStep
  DEF Next

\* The invariant holds in every reachable state.
LEMMA ClaimsInvHolds == DurableWorkSpec => []ClaimsInv
BY ClaimsInit, ClaimsStep, PTL DEF DurableWorkSpec

\* The executions never exceed the slots, for any number of slots, although a
\* claim is answered while runners come and go: the slots a pump's call was
\* promised are kept free until it is answered.
THEOREM RunnersStayWithinConcurrency == DurableWorkSpec => []RunnersWithinConcurrency
<1>1. ASSUME ClaimsInv PROVE RunnersWithinConcurrency
  <2>1. Tidy(driver) /\ driver.pump \in Pump
    BY <1>1, Shapes
  <2>2. Promised(driver.pump) \in Nat
    BY <2>1, PromisedSlots DEF Tidy
  <2> QED
    BY <2>1, <2>2, RunnersCounted, Bounds DEF Tidy, SlotsCover, RunnersWithinConcurrency
<1> QED
  BY <1>1, ClaimsInvHolds, PTL

\* When quiesce has ended the driver is idle, whatever it was doing when
\* quiesce began: no job, no waiting claim, no pump, no scan, no held lane and
\* no queued mutation is left.
THEOREM QuiescedDriverIsIdle == DurableWorkSpec => []QuiescedIsIdle
<1>1. ASSUME ClaimsInv, stop.at = "done"
      PROVE  /\ Runners(driver) \union Prerequisites(driver) = {}
             /\ driver.runnable = <<>> /\ driver.pump.at = "idle" /\ ~scan.on
             /\ \A l \in Lanes : driver.lane[l] = NoJob
             /\ \A q \in Queues : driver.chain[q] = <<>>
  <2>1. /\ driver \in Driver /\ Sound(driver) /\ Tidy(driver)
        /\ driver.pump.at = "idle" /\ ~scan.on /\ \A j \in Job : driver.phase[j] = "none"
    BY <1>1, Shapes DEF ClaimsInv, StopFits
  <2>2. Engaged(driver) = {}
    BY <2>1 DEF Engaged, Runners, Prerequisites, Running, Preparing
  <2>3. driver.runnable = <<>>
    <3> SUFFICES ASSUME driver.runnable # <<>> PROVE FALSE
      OBVIOUS
    <3>1. driver.runnable \in Seq(Job)
      BY <2>1 DEF Driver
    <3>2. 1 \in DOMAIN driver.runnable /\ driver.runnable[1] \in Job
      BY <3>1
    <3> QED
      BY <2>1, <3>2 DEF Sound, RunnableOnce
  <2>4. \A l \in Lanes : driver.lane[l] = NoJob
    <3> SUFFICES ASSUME NEW l \in Lanes, driver.lane[l] # NoJob PROVE FALSE
      OBVIOUS
    <3>1. driver.lane[l] \in Job
      BY <2>1 DEF Driver, Mutation
    <3> QED
      BY <2>1, <3>1 DEF Tidy, LanesNamed
  <2>5. \A q \in Queues : driver.chain[q] = <<>>
    BY <1>1, <2>1, <2>2, NothingRuns
  <2> QED
    BY <2>1, <2>2, <2>3, <2>4, <2>5 DEF Engaged
<1>2. ClaimsInv => QuiescedIsIdle
  BY <1>1 DEF QuiescedIsIdle
<1> QED
  BY <1>2, ClaimsInvHolds, PTL

\* While the driver accepts work and no call has failed, every lease of an
\* owner that knows this worker has a job, an answer on its way, or a pending
\* failure behind it, for any owners, lanes, slots and attempts.
THEOREM LeasesStayBacked == DurableWorkSpec => []LeasesAreBacked
<1>1. ClaimsInv => LeasesAreBacked
  BY DEF ClaimsInv
<1> QED
  BY <1>1, ClaimsInvHolds, PTL
=============================================================================
