------------------------- MODULE DurableWorkProofs -------------------------
(***************************************************************************)
(* Proofs about DurableWork, for any items, queues, lanes and bounds: its  *)
(* type invariant, that a lane never holds two claims, and that the pump   *)
(* never sleeps on work it was told of.                                    *)
(***************************************************************************)
EXTENDS DurableWork, SequenceTheorems, FiniteSetTheorems, TLAPS

-----------------------------------------------------------------------------
(* The inductive invariant *)

\* A job that is prepared, queued or executed is the one its lane names...
LanesHeld(d) == \A j \in Job : d.phase[j] \in InLane => d.lane[Lane(j)] = j

\* ...and what waits for a slot waits once, in the phase that says so.
RunnableOnce(d) ==
    /\ \A x \in DOMAIN d.runnable : d.phase[d.runnable[x]] = "runnable"
    /\ \A x, y \in DOMAIN d.runnable : d.runnable[x] = d.runnable[y] => x = y

\* A pump that fails claims has one to fail.
HasClaim(p) == p.at = "duplicate" => p.claims # <<>>

Sound(d) == d \in Driver /\ LanesHeld(d) /\ RunnableOnce(d) /\ HasClaim(d.pump)

\* A row that may be leased has an attempt left.
RowsSound(rows) ==
    /\ rows \in [Items -> Row]
    /\ \A i \in Items : /\ rows[i].state = "ready" => rows[i].generation < MaxGeneration
                        /\ rows[i].state = "absent" => rows[i].generation = 0

DurableInv == DurableTypeOK /\ Sound(driver) /\ RowsSound(row)

-----------------------------------------------------------------------------
(* Jobs, lanes and slots *)

\* There is a slot and an attempt.
LEMMA Bounds ==
    /\ Concurrency \in Nat /\ Concurrency > 0
    /\ MaxGeneration \in Nat /\ MaxGeneration > 0
    /\ MaxFaults \in Nat
<1>1. Concurrency \in {Concurrency, MaxGeneration} /\ MaxGeneration \in {Concurrency, MaxGeneration}
  OBVIOUS
<1> QED
  BY <1>1, BoundAssumption

\* A job has a queue and a lane, and is not the absence of one.
LEMMA JobShape ==
    /\ NoJob \notin Job
    /\ \A j \in Job : Queue(j) \in Queues /\ Lane(j) \in Lanes /\ j \in Mutation
    /\ NoJob \in Mutation
BY QueueAssumption DEF Job, NoJob, Queue, Lane, Lanes, Mutation

\* There are finitely many jobs, so the free slots are a number.
LEMMA FreeSlots ==
    ASSUME NEW d \in Driver
    PROVE  Free(d) \in Int /\ Free(d) <= Concurrency
<1>1. IsFiniteSet(1..MaxGeneration)
  BY FS_Interval, Bounds
<1>2. IsFiniteSet(Job)
  BY <1>1, FS_Product, QueueAssumption DEF Job
<1>3. Cardinality(Runners(d)) \in Nat
  BY <1>2, FS_Subset, FS_CardinalityType DEF Runners
<1> QED
  BY <1>3, Bounds DEF Free

-----------------------------------------------------------------------------
(* The driver's methods keep it sound *)

\* Waiting in a chain disturbs nothing.
LEMMA EnqueueSound ==
    ASSUME NEW d, Sound(d), NEW q \in Queues, NEW m \in Mutation
    PROVE  Sound(Enqueue(d, q, m))
<1>1. d.chain[q] \in Seq(Mutation)
  BY DEF Sound, Driver
<1>2. Append(d.chain[q], m) \in Seq(Mutation)
  BY <1>1
<1> QED
  BY <1>2 DEF Sound, Driver, Enqueue, LanesHeld, RunnableOnce

\* Neither does the end of a mutation.
LEMMA DequeueSound ==
    ASSUME NEW d, Sound(d), NEW q \in Queues, d.chain[q] # <<>>
    PROVE  Sound(Dequeue(d, q))
<1>1. d.chain[q] \in Seq(Mutation)
  BY DEF Sound, Driver
<1>2. Tail(d.chain[q]) \in Seq(Mutation)
  BY <1>1
<1> QED
  BY <1>2 DEF Sound, Driver, Dequeue, LanesHeld, RunnableOnce

\* Nor what the pump awaits.
LEMMA PumpSound ==
    ASSUME NEW d, Sound(d), NEW p \in Pump, HasClaim(p)
    PROVE  Sound([d EXCEPT !.pump = p])
BY DEF Sound, Driver, LanesHeld, RunnableOnce

\* A pump that awaits no failure is well formed.
LEMMA NoPumpShape ==
    /\ NoPump \in Pump /\ HasClaim(NoPump)
    /\ \A at \in {"idle", "claim", "over"} :
          [NoPump EXCEPT !.at = at] \in Pump /\ HasClaim([NoPump EXCEPT !.at = at])
<1>1. <<>> \in Seq(Job)
  OBVIOUS
<1>2. NoPump \in Pump /\ NoPump.at = "idle"
  BY <1>1 DEF NoPump, Pump
<1>3. \A at \in {"idle", "claim", "over"} :
         [NoPump EXCEPT !.at = at] \in Pump /\ [NoPump EXCEPT !.at = at].at = at
  BY <1>2 DEF Pump
<1> QED
  BY <1>2, <1>3 DEF HasClaim

\* Claims that find their lanes free, or already theirs, are started.
LEMMA StartSound ==
    ASSUME NEW d, Sound(d), NEW jobs \in SUBSET Job,
           \A j \in jobs : d.lane[Lane(j)] \in {NoJob, j},
           \A j, k \in jobs : Lane(j) = Lane(k) => j = k,
           \A x \in DOMAIN d.runnable : d.runnable[x] \notin jobs
    PROVE  Sound(Start(d, jobs))
<1> DEFINE e == Start(d, jobs)
<1>1. \A j \in Job : e.phase[j] = IF j \notin jobs THEN d.phase[j]
                                  ELSE IF d.phase[j] = "none" /\ Queue(j) \in Prepared
                                  THEN "preparing" ELSE "executing"
  BY DEF Sound, Driver, Start
<1>2. \A l \in Lanes : e.lane[l] = IF \E j \in jobs : Lane(j) = l
                                   THEN CHOOSE j \in jobs : Lane(j) = l ELSE d.lane[l]
  BY DEF Sound, Driver, Start
<1>3. e \in Driver
  <2>1. e.phase \in [Job -> Phases]
    BY DEF Sound, Driver, Start, Phases, Running, Preparing
  <2>2. e.lane \in [Lanes -> Mutation]
    BY DEF Sound, Driver, Start, Mutation
  <2> QED
    BY <2>1, <2>2 DEF Sound, Driver, Start
<1>6. HasClaim(e.pump)
  BY DEF Sound, Driver, Start
<1>4. LanesHeld(e)
  <2> SUFFICES ASSUME NEW j \in Job, e.phase[j] \in InLane
               PROVE  e.lane[Lane(j)] = j
    BY DEF LanesHeld
  <2>1. CASE j \in jobs
    BY <2>1, <1>2, JobShape
  <2>2. CASE j \notin jobs
    <3>1. d.lane[Lane(j)] = j
      BY <2>2, <1>1 DEF Sound, LanesHeld
    <3>2. ~\E k \in jobs : Lane(k) = Lane(j)
      BY <3>1, <2>2, JobShape
    <3> QED
      BY <3>1, <3>2, <1>2, JobShape
  <2> QED
    BY <2>1, <2>2
<1>5. RunnableOnce(e)
  <2>1. e.runnable = d.runnable /\ d.runnable \in Seq(Job)
    BY DEF Sound, Driver, Start
  <2> QED
    BY <2>1, <1>1 DEF Sound, RunnableOnce
<1> QED
  BY <1>3, <1>4, <1>5, <1>6 DEF Sound

\* Starting jobs does not look at what else waits for a slot.
LEMMA StartCommutes ==
    ASSUME NEW d \in Driver, NEW jobs, NEW rest
    PROVE  /\ [Start(d, jobs) EXCEPT !.runnable = rest] = Start([d EXCEPT !.runnable = rest], jobs)
           /\ Start(d, jobs).runnable = d.runnable
BY DEF Driver, Start

\* The first claims that wait for a slot are started and no longer wait.
LEMMA TakeSound ==
    ASSUME NEW d, Sound(d), NEW n \in 0..Len(d.runnable)
    PROVE  Sound([Start(d, ToSet(SubSeq(d.runnable, 1, n))) EXCEPT
                     !.runnable = SubSeq(d.runnable, n + 1, Len(d.runnable))])
<1> DEFINE ready == ToSet(SubSeq(d.runnable, 1, n))
           rest == SubSeq(d.runnable, n + 1, Len(d.runnable))
           f == [d EXCEPT !.runnable = rest]
<1>1. d.runnable \in Seq(Job) /\ DOMAIN d.runnable = 1..Len(d.runnable)
  <2>1. d.runnable \in Seq(Job)
    BY DEF Sound, Driver
  <2> QED
    BY <2>1
<1>2. \A x \in 1..Len(d.runnable) : d.runnable[x] \in Job
  BY <1>1
<1>3. \A j \in ready : \E x \in 1..n : j = d.runnable[x]
  BY <1>1 DEF ToSet
<1>4. rest \in Seq(Job) /\ DOMAIN rest = 1..Len(d.runnable)-n
  BY <1>1
<1>5. \A x \in DOMAIN rest : rest[x] = d.runnable[x + n] /\ x + n \in (n+1)..Len(d.runnable)
  <2>1. \A x \in 1..Len(d.runnable)-(n+1)+1 : rest[x] = d.runnable[(n+1)+x-1]
    BY <1>1, <1>2, SubSeqProperties
  <2> QED
    BY <1>1, <1>4, <2>1
<1>6. ready \in SUBSET Job
  BY <1>2, <1>3
<1> HIDE DEF ready, rest
<1>7. /\ f \in Driver /\ f.runnable = rest
      /\ f.phase = d.phase /\ f.lane = d.lane /\ f.pump = d.pump
  BY <1>4 DEF Sound, Driver
<1>8. LanesHeld(f)
  BY <1>7 DEF Sound, LanesHeld
<1>9. RunnableOnce(f)
  <2>1. \A x \in DOMAIN rest : d.phase[rest[x]] = "runnable"
    BY <1>1, <1>5 DEF Sound, RunnableOnce
  <2>2. \A x, y \in DOMAIN rest : rest[x] = rest[y] => x = y
    <3> SUFFICES ASSUME NEW x \in DOMAIN rest, NEW y \in DOMAIN rest, rest[x] = rest[y]
                 PROVE  x = y
      OBVIOUS
    <3>1. x + n = y + n
      BY <1>1, <1>5 DEF Sound, RunnableOnce
    <3> QED
      BY <1>4, <3>1
  <2> QED
    BY <1>7, <2>1, <2>2 DEF RunnableOnce
<1>10. \A j \in ready : f.lane[Lane(j)] = j
  <2>1. \A j \in ready : d.phase[j] = "runnable"
    BY <1>1, <1>3 DEF Sound, RunnableOnce
  <2> QED
    BY <1>6, <1>7, <2>1 DEF Sound, LanesHeld, InLane
<1>11. \A x \in DOMAIN f.runnable : f.runnable[x] \notin ready
  <2> SUFFICES ASSUME NEW x \in DOMAIN rest, rest[x] \in ready
               PROVE  FALSE
    BY <1>7
  <2>1. PICK y \in 1..n : rest[x] = d.runnable[y]
    BY <1>3
  <2>2. x + n = y
    BY <1>1, <1>5, <2>1 DEF Sound, RunnableOnce
  <2> QED
    BY <1>4, <1>5, <2>1, <2>2
<1>12. Sound(f)
  BY <1>7, <1>8, <1>9 DEF Sound
<1> HIDE DEF f
<1>13. Sound(Start(f, ready))
  BY <1>6, <1>10, <1>11, <1>12, StartSound
<1>14. [Start(d, ready) EXCEPT !.runnable = rest] = Start(f, ready)
  BY StartCommutes DEF Sound, f
<1> QED
  BY <1>13, <1>14 DEF ready, rest

\* The pump's loop starts what is ready and has slots, and asks for more.
LEMMA LoopSound ==
    ASSUME NEW d, Sound(d)
    PROVE  Sound(Loop(d))
<1> DEFINE n == IF Len(d.runnable) < Free(d) THEN Len(d.runnable) ELSE Free(d)
           e == [Start(d, ToSet(SubSeq(d.runnable, 1, n))) EXCEPT
                    !.runnable = SubSeq(@, n + 1, Len(@))]
           g == [e EXCEPT !.pending = Tail(@), !.pump = [NoPump EXCEPT !.at = "claim"]]
           over(f) == [f EXCEPT !.pump = [NoPump EXCEPT !.at = "over"]]
<1>1. Loop(d) = IF ~d.accepting \/ Free(d) <= 0 THEN over(d)
                ELSE IF Free(e) = 0 \/ e.pending = <<>> THEN over(e)
                ELSE Enqueue(g, Head(e.pending), NoJob)
  BY DEF Loop
<1>2. Sound(over(d))
  BY PumpSound, NoPumpShape
<1>3. CASE ~(~d.accepting \/ Free(d) <= 0)
  <2>1. Free(d) > 0 /\ Free(d) \in Int
    BY <1>3, FreeSlots DEF Sound
  <2>2. d.runnable \in Seq(Job)
    BY DEF Sound, Driver
  <2>3. n \in 0..Len(d.runnable)
    BY <2>1, <2>2
  <2>4. Start(d, ToSet(SubSeq(d.runnable, 1, n))).runnable = d.runnable
    BY StartCommutes DEF Sound
  <2> HIDE DEF n
  <2>5. Sound(e)
    BY <2>3, <2>4, TakeSound
  <2> HIDE DEF e
  <2>6. Sound(over(e))
    BY <2>5, PumpSound, NoPumpShape
  <2>7. ASSUME e.pending # <<>>
        PROVE  Sound(Enqueue(g, Head(e.pending), NoJob))
    <3>1. e.pending \in Seq(Queues)
      BY <2>5 DEF Sound, Driver
    <3>2. Tail(e.pending) \in Seq(Queues) /\ Head(e.pending) \in Queues
      BY <2>7, <3>1
    <3>3. Sound(g)
      BY <2>5, <3>2, NoPumpShape DEF Sound, Driver, LanesHeld, RunnableOnce
    <3> QED
      BY <3>2, <3>3, EnqueueSound, JobShape
  <2> HIDE DEF g, over
  <2> QED
    BY <1>1, <1>3, <2>6, <2>7
<1> HIDE DEF e, g, over
<1> QED
  BY <1>1, <1>2, <1>3

\* The loop ends over or at a claim, never idle.
LEMMA LoopPumps ==
    ASSUME NEW d, Sound(d)
    PROVE  Loop(d).pump.at # "idle"
<1> DEFINE n == IF Len(d.runnable) < Free(d) THEN Len(d.runnable) ELSE Free(d)
           e == [Start(d, ToSet(SubSeq(d.runnable, 1, n))) EXCEPT
                    !.runnable = SubSeq(@, n + 1, Len(@))]
           g == [e EXCEPT !.pending = Tail(@), !.pump = [NoPump EXCEPT !.at = "claim"]]
           over(f) == [f EXCEPT !.pump = [NoPump EXCEPT !.at = "over"]]
<1>1. Loop(d) = IF ~d.accepting \/ Free(d) <= 0 THEN over(d)
                ELSE IF Free(e) = 0 \/ e.pending = <<>> THEN over(e)
                ELSE Enqueue(g, Head(e.pending), NoJob)
  BY DEF Loop
<1>2. /\ NoPump \in Pump
      /\ [NoPump EXCEPT !.at = "claim"].at = "claim"
      /\ [NoPump EXCEPT !.at = "over"].at = "over"
  BY NoPumpShape DEF Pump
<1>3. \A jobs, r : [Start(d, jobs) EXCEPT !.runnable = r] \in
                      [accepting: {d.accepting}, pending: {d.pending}, runnable: {r},
                       phase: {Start(d, jobs).phase}, aborted: {d.aborted},
                       lane: {Start(d, jobs).lane}, pump: {d.pump}, chain: {d.chain}]
  BY DEF Sound, Driver, Start
<1>4. e \in [accepting: {d.accepting}, pending: {d.pending}, runnable: {e.runnable},
             phase: {e.phase}, aborted: {d.aborted},
             lane: {e.lane}, pump: {d.pump}, chain: {d.chain}]
  BY <1>3
<1> HIDE DEF e
<1>5. over(e).pump.at = "over" /\ over(d).pump.at = "over"
  BY <1>2, <1>4 DEF Sound, Driver
<1>6. \A q : Enqueue(g, q, NoJob).pump.at = "claim"
  BY <1>2, <1>4 DEF Enqueue
<1> HIDE DEF g, over
<1> QED
  BY <1>1, <1>5, <1>6

\* Whatever kicks the pump keeps the driver sound.
LEMMA KickSound ==
    ASSUME NEW d, Sound(d)
    PROVE  Sound(Kick(d))
BY LoopSound DEF Kick

\* A hint keeps the driver sound.
LEMMA NotifySound ==
    ASSUME NEW d, Sound(d), NEW q \in Queues
    PROVE  Sound(Notify(d, q))
<1>1. d.pending \in Seq(Queues)
  BY DEF Sound, Driver
<1>2. Append(d.pending, q) \in Seq(Queues)
  BY <1>1
<1>3. Sound([d EXCEPT !.pending = IF q \in ToSet(@) THEN @ ELSE Append(@, q)])
  BY <1>1, <1>2 DEF Sound, Driver, LanesHeld, RunnableOnce
<1> QED
  BY <1>3, KickSound DEF Notify

\* So do several.
LEMMA NotifyAllSound ==
    ASSUME NEW d, Sound(d), NEW qs \in Seq(Queues)
    PROVE  Sound(NotifyAll(d, qs))
<1>1. d.pending \o qs \in Seq(Queues)
  BY DEF Sound, Driver
<1>2. Sound([d EXCEPT !.pending = @ \o qs])
  BY <1>1 DEF Sound, Driver, LanesHeld, RunnableOnce
<1> QED
  BY <1>2, KickSound DEF NotifyAll

\* So does the end of the pump.
LEMMA PumpEndsSound ==
    ASSUME NEW d, Sound(d)
    PROVE  Sound(PumpEnds(d))
BY PumpSound, NoPumpShape, KickSound DEF PumpEnds

\* A job that does not wait for a slot leaves its lane and ends.
LEMMA EndedSound ==
    ASSUME NEW d, Sound(d), NEW j \in Job, d.phase[j] # "runnable"
    PROVE  Sound([Release(d, j) EXCEPT !.phase[j] = "none", !.aborted = @ \ {j}])
<1> DEFINE e == [Release(d, j) EXCEPT !.phase[j] = "none", !.aborted = @ \ {j}]
<1>1. e.runnable = d.runnable /\ e.phase = [d.phase EXCEPT ![j] = "none"]
  BY DEF Sound, Driver, Release
<1>2. \A l \in Lanes : e.lane[l] = IF l = Lane(j) /\ d.lane[l] = j THEN NoJob ELSE d.lane[l]
  BY DEF Sound, Driver, Release
<1>3. e \in Driver
  BY JobShape DEF Sound, Driver, Release, Phases
<1>4. LanesHeld(e)
  BY <1>1, <1>2, JobShape DEF Sound, Driver, LanesHeld, InLane
<1>5. RunnableOnce(e)
  <2>1. \A x \in DOMAIN d.runnable : d.runnable[x] # j
    BY DEF Sound, RunnableOnce
  <2>2. \A x \in DOMAIN d.runnable : d.runnable[x] \in Job
    BY DEF Sound, Driver
  <2> QED
    BY <1>1, <2>1, <2>2 DEF Sound, Driver, RunnableOnce
<1>6. e.pump = d.pump
  BY DEF Sound, Driver, Release
<1> QED
  BY <1>3, <1>4, <1>5, <1>6 DEF Sound

\* The end of a job, with the continuation it asks for.
LEMMA EndJobSound ==
    ASSUME NEW d, Sound(d), NEW j \in Job, d.phase[j] # "runnable", NEW continue \in BOOLEAN
    PROVE  Sound(EndJob(d, j, continue))
<1> DEFINE e == [Release(d, j) EXCEPT !.phase[j] = "none", !.aborted = @ \ {j}]
<1>1. Sound(e)
  BY EndedSound
<1> HIDE DEF e
<1>2. Sound(Notify(e, Queue(j)))
  BY <1>1, NotifySound, JobShape
<1>3. EndJob(d, j, continue) = Kick(IF continue THEN Notify(e, Queue(j)) ELSE e)
  BY DEF EndJob, e
<1> QED
  BY <1>1, <1>2, <1>3, KickSound

\* The pump starts the claims whose lanes are free and goes on.
LEMMA GrantSound ==
    ASSUME NEW d, Sound(d), NEW claims \in Seq(Job)
    PROVE  Sound(Grant(d, claims)) /\ Grant(d, claims).pump.at # "idle"
<1> DEFINE granted == {n \in DOMAIN claims : \A x \in 1..n :
                          /\ d.lane[Lane(claims[x])] = NoJob
                          /\ \A y \in 1..x-1 : Lane(claims[y]) # Lane(claims[x])}
           jobs == {claims[n] : n \in granted}
           e == Start(d, jobs)
           rest == SubSeq(claims, Cardinality(granted) + 1, Len(claims))
           g == [e EXCEPT !.pump = [NoPump EXCEPT !.at = "duplicate", !.claims = rest]]
<1>1. Grant(d, claims) = IF rest = <<>> THEN Loop(e) ELSE Enqueue(g, Queue(rest[1]), NoJob)
  BY DEF Grant
<1>2. DOMAIN claims = 1..Len(claims) /\ Len(claims) \in Nat
  OBVIOUS
<1>3. \A n \in granted : /\ n \in 1..Len(claims)
                         /\ d.lane[Lane(claims[n])] = NoJob
                         /\ \A y \in 1..n-1 : Lane(claims[y]) # Lane(claims[n])
  BY <1>2
<1> HIDE DEF granted
<1>4. Cardinality(granted) \in Nat
  <2>1. granted \subseteq 1..Len(claims) /\ IsFiniteSet(1..Len(claims))
    BY <1>2, <1>3, FS_Interval
  <2> QED
    BY <2>1, FS_Subset, FS_CardinalityType
<1>5. rest \in Seq(Job)
  <2>1. \A i \in Cardinality(granted)+1..Len(claims) : claims[i] \in Job
    BY <1>2, <1>4
  <2> QED
    BY <1>2, <1>4, <2>1, SubSeqProperties
<1>6. jobs \in SUBSET Job
  BY <1>2, <1>3
<1>7. \A j \in jobs : d.lane[Lane(j)] = NoJob
  BY <1>3
<1>8. \A j, k \in jobs : Lane(j) = Lane(k) => j = k
  <2> SUFFICES ASSUME NEW n \in granted, NEW m \in granted, Lane(claims[n]) = Lane(claims[m])
               PROVE  claims[n] = claims[m]
    OBVIOUS
  <2>1. n \in Nat /\ m \in Nat /\ n > 0 /\ m > 0
    BY <1>2, <1>3
  <2>2. ~(n < m) /\ ~(m < n)
    BY <1>3, <2>1
  <2> QED
    BY <2>1, <2>2
<1>9. \A x \in DOMAIN d.runnable : d.runnable[x] \notin jobs
  <2>1. \A x \in DOMAIN d.runnable : d.runnable[x] \in Job
    BY DEF Sound, Driver
  <2>2. \A x \in DOMAIN d.runnable : d.lane[Lane(d.runnable[x])] = d.runnable[x]
    BY <2>1 DEF Sound, LanesHeld, RunnableOnce, InLane
  <2> HIDE DEF jobs
  <2> QED
    BY <1>7, <2>1, <2>2, JobShape
<1> HIDE DEF jobs
<1>10. Sound(e)
  BY <1>6, <1>7, <1>8, <1>9, StartSound
<1> HIDE DEF e, rest
<1>11. ASSUME rest # <<>>
       PROVE  /\ Sound(Enqueue(g, Queue(rest[1]), NoJob))
              /\ Enqueue(g, Queue(rest[1]), NoJob).pump.at = "duplicate"
  <2>1. rest[1] \in Job
    BY <1>5, <1>11
  <2>2. /\ [NoPump EXCEPT !.at = "duplicate", !.claims = rest] \in Pump
        /\ [NoPump EXCEPT !.at = "duplicate", !.claims = rest].at = "duplicate"
        /\ HasClaim([NoPump EXCEPT !.at = "duplicate", !.claims = rest])
    <3> DEFINE p == [NoPump EXCEPT !.at = "duplicate", !.claims = rest]
    <3>1. p \in Pump /\ p.claims = rest /\ p.at = "duplicate"
      BY <1>5, NoPumpShape DEF Pump
    <3> QED
      BY <1>11, <3>1 DEF HasClaim
  <2>3. Sound(g) /\ g.pump.at = "duplicate"
    BY <1>10, <2>2, PumpSound DEF Sound, Driver
  <2> HIDE DEF g
  <2>4. Enqueue(g, Queue(rest[1]), NoJob).pump = g.pump
    BY <2>3 DEF Enqueue, Sound, Driver
  <2> QED
    BY <2>1, <2>3, <2>4, EnqueueSound, JobShape
<1> HIDE DEF g
<1> QED
  BY <1>1, <1>10, <1>11, LoopSound, LoopPumps

\* A job that no longer holds its lane may give it up.
LEMMA ReleaseSound ==
    ASSUME NEW d, Sound(d), NEW j \in Job, d.phase[j] \notin InLane
    PROVE  Sound(Release(d, j)) /\ Release(d, j).phase = d.phase
<1> DEFINE e == Release(d, j)
<1>1. /\ e \in Driver /\ e.runnable = d.runnable
      /\ e.phase = d.phase /\ e.pump = d.pump
  BY JobShape DEF Sound, Driver, Release
<1>2. \A l \in Lanes : e.lane[l] = IF l = Lane(j) /\ d.lane[l] = j THEN NoJob ELSE d.lane[l]
  BY DEF Sound, Driver, Release
<1>3. LanesHeld(e)
  BY <1>1, <1>2, JobShape DEF Sound, LanesHeld
<1> QED
  BY <1>1, <1>3 DEF Sound, RunnableOnce

\* A job that does not wait for a slot may move on to a settlement or failure.
LEMMA PhaseSound ==
    ASSUME NEW d, Sound(d), NEW j \in Job, d.phase[j] # "runnable", NEW p \in Phases \ InLane
    PROVE  Sound([d EXCEPT !.phase[j] = p])
<1> DEFINE e == [d EXCEPT !.phase[j] = p]
<1>1. /\ e \in Driver /\ e.runnable = d.runnable /\ e.pump = d.pump /\ e.lane = d.lane
      /\ \A k \in Job : e.phase[k] = IF k = j THEN p ELSE d.phase[k]
  BY DEF Sound, Driver
<1>2. LanesHeld(e)
  BY <1>1 DEF Sound, LanesHeld
<1>3. \A x \in DOMAIN d.runnable : d.runnable[x] \in Job
  BY DEF Sound, Driver
<1> QED
  BY <1>1, <1>2, <1>3 DEF Sound, RunnableOnce

\* A prepared claim is handed over to wait for a slot.
LEMMA HandOverSound ==
    ASSUME NEW d, Sound(d), NEW j \in Job, d.phase[j] = "preparing"
    PROVE  Sound([d EXCEPT !.phase[j] = "runnable", !.runnable = Append(@, j)])
<1> DEFINE e == [d EXCEPT !.phase[j] = "runnable", !.runnable = Append(@, j)]
<1>1. d.runnable \in Seq(Job)
  BY DEF Sound, Driver
<1>2. Append(d.runnable, j) \in Seq(Job)
  BY <1>1
<1>3. /\ e \in Driver /\ e.runnable = Append(d.runnable, j)
      /\ e.pump = d.pump /\ e.lane = d.lane
      /\ \A k \in Job : e.phase[k] = IF k = j THEN "runnable" ELSE d.phase[k]
  BY <1>2 DEF Sound, Driver, Phases
<1>4. LanesHeld(e)
  BY <1>3 DEF Sound, LanesHeld, InLane
<1>5. \A x \in DOMAIN d.runnable : d.runnable[x] \in Job /\ d.runnable[x] # j
  BY <1>1 DEF Sound, RunnableOnce
<1>6. /\ DOMAIN e.runnable = 1..Len(d.runnable)+1 /\ DOMAIN d.runnable = 1..Len(d.runnable)
      /\ \A x \in DOMAIN e.runnable : e.runnable[x] = IF x = Len(d.runnable) + 1 THEN j
                                                      ELSE d.runnable[x]
  BY <1>1, <1>3, AppendProperties
<1>7. \A x \in DOMAIN e.runnable : x \in DOMAIN d.runnable \/ x = Len(d.runnable) + 1
  BY <1>1, <1>6
<1>8. RunnableOnce(e)
  BY <1>3, <1>5, <1>6, <1>7 DEF Sound, RunnableOnce
<1> QED
  BY <1>3, <1>4, <1>8 DEF Sound

\* A driver that has just been made is sound.
LEMMA NewDriverSound == Sound(NewDriver)
<1>1. /\ NewDriver.runnable = <<>> /\ NewDriver.pump = NoPump
      /\ \A j \in Job : NewDriver.phase[j] = "none"
  BY DEF NewDriver
<1>2. <<>> \in Seq(Job) /\ <<>> \in Seq(Queues) /\ <<>> \in Seq(Mutation)
  OBVIOUS
<1>3. NewDriver \in Driver
  BY <1>2, NoPumpShape, JobShape DEF NewDriver, Driver, Phases
<1> QED
  BY <1>1, <1>3, NoPumpShape DEF Sound, LanesHeld, RunnableOnce, InLane

-----------------------------------------------------------------------------
(* The owners *)

\* Adoption releases leases and parks what has no attempt left.
LEMMA AdoptedSound ==
    ASSUME RowsSound(row), NEW q
    PROVE  RowsSound(Adopted(q))
BY Bounds DEF RowsSound, Adopted, Row

\* A job whose row is leased at its generation exists.
LEMMA SetsSound ==
    ASSUME RowsSound(row), NEW j \in Job, Leased(j),
           NEW state \in {"ready", "parked", "done"}, Sets(j, state),
           state = "ready" => j[2] < MaxGeneration
    PROVE  RowsSound(row')
<1>1. j[1] \in Items /\ row[j[1]].generation = j[2]
  BY DEF Job, Leased
<1>2. \A i \in Items : row'[i] = IF i = j[1] THEN [row[i] EXCEPT !.state = state] ELSE row[i]
  BY <1>1 DEF Sets, RowsSound
<1>3. row' \in [Items -> Row]
  BY <1>1 DEF Sets, RowsSound, Row
<1> QED
  BY <1>1, <1>2, <1>3 DEF RowsSound, Row

\* An answer without claims is an answer.
LEMMA ReplyShape ==
    /\ NoReply \in Answer
    /\ \A result \in {"claimed", "accepted", "retry", "failed", "stale", "lost"} :
          Reply(result) \in Answer
<1>1. <<>> \in Seq(Job)
  OBVIOUS
<1>2. NoReply \in Answer
  BY <1>1 DEF NoReply, Answer
<1> QED
  BY <1>2 DEF Reply, Answer

-----------------------------------------------------------------------------
(* Every step keeps the invariant *)

\* What is not the driver's business: the surroundings of its record.
Surroundings ==
    /\ reply \in [Queues -> Answer]
    /\ scan \in [on: BOOLEAN, left: SUBSET Queues, found: SUBSET Queues]
    /\ stop \in [at: {"no", "pump", "jobs", "scan", "done"}, join: SUBSET Job]
    /\ adopted \in [Queues -> BOOLEAN]
    /\ lost \in BOOLEAN /\ faults \in 0..MaxFaults

\* The invariant in three parts.
LEMMA InvParts == DurableInv <=> Sound(driver) /\ RowsSound(row) /\ Surroundings
BY DEF DurableInv, DurableTypeOK, Sound, RowsSound, Surroundings

\* The same after a step.
LEMMA InvPartsNext == DurableInv' <=> Sound(driver') /\ RowsSound(row') /\ Surroundings'
BY DEF DurableInv, DurableTypeOK, Sound, RowsSound, Surroundings, LanesHeld, RunnableOnce, HasClaim

\* The initial state is sound.
LEMMA InitSound == Init => DurableInv
<1> SUFFICES ASSUME Init PROVE Sound(driver) /\ RowsSound(row) /\ Surroundings
  BY InvParts
<1>1. Sound(driver)
  BY NewDriverSound DEF Init
<1>2. RowsSound(row)
  BY Bounds DEF Init, RowsSound, Row
<1>3. Surroundings
  <2>1. reply \in [Queues -> Answer]
    BY ReplyShape DEF Init
  <2>2. /\ NoScan \in [on: BOOLEAN, left: SUBSET Queues, found: SUBSET Queues]
        /\ scan = NoScan
    BY DEF Init, NoScan
  <2>3. stop \in [at: {"no", "pump", "jobs", "scan", "done"}, join: SUBSET Job]
    BY DEF Init
  <2>4. adopted \in [Queues -> BOOLEAN] /\ lost \in BOOLEAN
    BY DEF Init
  <2>5. faults \in 0..MaxFaults
    BY Bounds DEF Init
  <2> QED
    BY <2>1, <2>2, <2>3, <2>4, <2>5 DEF Surroundings
<1> QED
  BY <1>1, <1>2, <1>3

\* An answer is received once.
LEMMA ReceiveKeeps ==
    ASSUME DurableInv, NEW q \in Queues, Receive(q), Sound(driver')
    PROVE  DurableInv'
<1>1. Surroundings /\ RowsSound(row)
  BY InvParts
<1>2. Surroundings'
  BY <1>1, ReplyShape DEF Receive, Surroundings, Owners, bounds
<1>3. row' = row
  BY DEF Receive, Owners
<1> QED
  BY <1>1, <1>2, <1>3, InvPartsNext

\* A step of the driver alone.
LEMMA DriverStepKeeps ==
    ASSUME DurableInv, Sound(driver'), UNCHANGED <<reply, scan, stop, Owners, bounds>>
    PROVE  DurableInv'
BY InvParts, InvPartsNext DEF Surroundings, Owners, bounds

\* The calls of a queue keep the invariant.
LEMMA MutateKeeps ==
    ASSUME DurableInv, NEW q \in Queues, Mutate(q)
    PROVE  DurableInv'
<1>1. Sound(driver) /\ RowsSound(row) /\ Surroundings
  BY InvParts
<1>2. driver.pump \in Pump /\ driver.chain[q] \in Seq(Mutation) /\ reply[q] \in Answer
  BY <1>1 DEF Sound, Driver, Surroundings
<1>3. CASE SendClaim(q)
  <2>1. [driver.pump EXCEPT !.at = "claiming", !.limit = Free(driver)] \in Pump
    BY <1>1, <1>2, FreeSlots DEF Sound, Pump
  <2>2. HasClaim([driver.pump EXCEPT !.at = "claiming", !.limit = Free(driver)])
    BY <1>2 DEF HasClaim, Pump
  <2>3. driver' = [driver EXCEPT !.pump = [driver.pump EXCEPT !.at = "claiming", !.limit = Free(driver)]]
    BY <1>1, <1>3 DEF SendClaim, Sound, Driver
  <2>4. Sound(driver')
    BY <1>1, <2>1, <2>2, <2>3, PumpSound
  <2>5. Surroundings'
    BY <1>1, <1>3, ReplyShape DEF SendClaim, Surroundings, Owners, bounds
  <2> QED
    BY <1>1, <1>3, <2>4, <2>5, InvPartsNext DEF SendClaim, Owners
<1>4. CASE OwnerClaims(q)
  <2> DEFINE rows == Adopted(q)
  <2>1. RowsSound(rows)
    BY <1>1, AdoptedSound
  <2>2. PICK batch \in Batches(q, rows, driver.pump.limit) :
        /\ row' = [i \in Items |->
                     IF i \in Range(batch)
                     THEN [state |-> "leased", generation |-> rows[i].generation + 1]
                     ELSE rows[i]]
        /\ reply' = [reply EXCEPT ![q] =
                       [result |-> "claimed",
                        claims |-> [x \in DOMAIN batch |->
                                      <<batch[x], row'[batch[x]].generation>>]]]
    BY <1>4 DEF OwnerClaims
  <2> HIDE DEF rows
  <2>3. PICK m \in Nat : batch \in [1..m -> Claimable(q, rows)]
    BY <2>2, <1>2 DEF Batches, Pump
  <2>4. Range(batch) \subseteq Claimable(q, rows)
    BY <2>3 DEF Range
  <2>5. \A i \in Claimable(q, rows) : i \in Items /\ rows[i].state = "ready"
    BY DEF Claimable
  <2>6. RowsSound(row')
    BY <2>1, <2>2, <2>4, <2>5, Bounds DEF RowsSound, Row
  <2>7. \A x \in 1..m : batch[x] \in Items /\ row'[batch[x]].generation \in 1..MaxGeneration
    <3> SUFFICES ASSUME NEW x \in 1..m
                 PROVE  batch[x] \in Items /\ row'[batch[x]].generation \in 1..MaxGeneration
      OBVIOUS
    <3>1. batch[x] \in Claimable(q, rows) /\ batch[x] \in Range(batch)
      BY <2>3 DEF Range
    <3>2. batch[x] \in Items /\ rows[batch[x]].state = "ready"
      BY <3>1, <2>5
    <3>3. row'[batch[x]].generation = rows[batch[x]].generation + 1
      BY <3>1, <3>2, <2>2
    <3> QED
      BY <2>1, <3>2, <3>3, Bounds DEF RowsSound, Row
  <2> DEFINE claims == [x \in DOMAIN batch |-> <<batch[x], row'[batch[x]].generation>>]
  <2>8. claims \in Seq(Job)
    BY <2>3, <2>7, IsASeq DEF Job
  <2> HIDE DEF claims
  <2>9. reply' \in [Queues -> Answer]
    BY <1>1, <2>2, <2>8 DEF claims, Surroundings, Answer
  <2>10. Surroundings'
    BY <1>1, <1>4, <2>9 DEF OwnerClaims, Surroundings, bounds
  <2> QED
    BY <1>1, <1>4, <2>6, <2>10, InvPartsNext DEF OwnerClaims
<1>5. CASE OwnerSettles(q)
  <2>1. RowsSound(row') /\ reply' \in [Queues -> Answer]
    BY <1>1, <1>5, SetsSound, ReplyShape DEF OwnerSettles, Surroundings
  <2>2. Surroundings'
    BY <1>1, <1>5, <2>1 DEF OwnerSettles, Surroundings, bounds
  <2> QED
    BY <1>1, <1>5, <2>1, <2>2, InvPartsNext DEF OwnerSettles
<1>6. CASE OwnerFails(q)
  <2>1. RowsSound(row') /\ reply' \in [Queues -> Answer]
    BY <1>1, <1>6, SetsSound, ReplyShape DEF OwnerFails, Surroundings
  <2>2. Surroundings'
    BY <1>1, <1>6, <2>1 DEF OwnerFails, Surroundings, bounds
  <2> QED
    BY <1>1, <1>6, <2>1, <2>2, InvPartsNext DEF OwnerFails
<1>7. CASE ClaimAnswered(q)
  <2>1. Sound(Dequeue(driver, q)) /\ reply[q].claims \in Seq(Job)
    BY <1>1, <1>2, <1>7, DequeueSound DEF ClaimAnswered, PumpCalls, HeadIs, Answer
  <2>2. Sound(driver')
    BY <1>7, <2>1, GrantSound DEF ClaimAnswered
  <2> QED
    BY <1>7, <2>2, ReceiveKeeps DEF ClaimAnswered
<1>8. CASE DuplicateAnswered(q)
  <2>1. Sound(Dequeue(driver, q))
    BY <1>1, <1>8, DequeueSound DEF DuplicateAnswered, PumpCalls, HeadIs
  <2>2. driver.pump.claims # <<>> /\ driver.pump.claims \in Seq(Job)
    BY <1>1, <1>2, <1>8 DEF DuplicateAnswered, PumpCalls, Sound, HasClaim, Pump
  <2>3. Tail(driver.pump.claims) \in Seq(Job)
    BY <2>2
  <2>4. Sound(driver')
    BY <1>8, <2>1, <2>3, GrantSound DEF DuplicateAnswered
  <2> QED
    BY <1>8, <2>4, ReceiveKeeps DEF DuplicateAnswered
<1>9. CASE SettleAnswered(q)
  <2>1. PICK j \in Job :
        /\ HeadIs(q, j) /\ driver.phase[j] = "settling"
        /\ LET d == Release(Dequeue(driver, q), j)
           IN driver' =
                IF reply[q].result = "lost" /\ j \notin driver.aborted
                THEN Enqueue([d EXCEPT !.phase[j] = "failing"], q, j)
                ELSE EndJob(d, j, reply[q].result # "stale")
    BY <1>9 DEF SettleAnswered
  <2> DEFINE d == Release(Dequeue(driver, q), j)
  <2>2. Sound(Dequeue(driver, q))
    BY <1>1, <2>1, DequeueSound DEF HeadIs
  <2>3. Dequeue(driver, q).phase = driver.phase
    BY <1>1 DEF Sound, Driver, Dequeue
  <2>4. Sound(d) /\ d.phase[j] = "settling"
    BY <2>1, <2>2, <2>3, ReleaseSound DEF InLane
  <2> HIDE DEF d
  <2>5. Sound(Enqueue([d EXCEPT !.phase[j] = "failing"], q, j))
    <3>1. "failing" \in Phases \ InLane
      BY DEF Phases, Running, InLane
    <3> QED
      BY <2>4, <3>1, PhaseSound, EnqueueSound, JobShape
  <2>6. Sound(EndJob(d, j, reply[q].result # "stale"))
    BY <2>4, EndJobSound
  <2>7. driver' = IF reply[q].result = "lost" /\ j \notin driver.aborted
                  THEN Enqueue([d EXCEPT !.phase[j] = "failing"], q, j)
                  ELSE EndJob(d, j, reply[q].result # "stale")
    BY <2>1 DEF d
  <2>8. Sound(driver')
    BY <2>5, <2>6, <2>7
  <2> QED
    BY <1>9, <2>8, ReceiveKeeps DEF SettleAnswered
<1>10. CASE FailAnswered(q)
  <2>1. PICK j \in Job :
        /\ HeadIs(q, j) /\ driver.phase[j] \in {"failing", "prepareFailing"}
        /\ driver' = EndJob(Dequeue(driver, q), j,
                        \/ reply[q].result = "retry"
                        \/ reply[q].result = "lost" /\ driver.phase[j] = "failing")
    BY <1>10 DEF FailAnswered
  <2>2. Sound(Dequeue(driver, q)) /\ Dequeue(driver, q).phase = driver.phase
    BY <1>1, <2>1, DequeueSound DEF HeadIs, Sound, Driver, Dequeue
  <2>3. Sound(driver')
    BY <2>1, <2>2, EndJobSound
  <2> QED
    BY <1>10, <2>3, ReceiveKeeps DEF FailAnswered
<1> QED
  BY <1>3, <1>4, <1>5, <1>6, <1>7, <1>8, <1>9, <1>10 DEF Mutate

\* Faults are counted up to their bound.
LEMMA FaultKeeps ==
    ASSUME Surroundings, Fault
    PROVE  faults' \in 0..MaxFaults
BY Bounds DEF Surroundings, Fault

\* A lost call changes its answer only.
LEMMA CallFailsKeeps ==
    ASSUME DurableInv, NEW q \in Queues, CallFails(q)
    PROVE  DurableInv'
<1>1. Sound(driver) /\ RowsSound(row) /\ Surroundings
  BY InvParts
<1>2. Surroundings'
  <2>1. reply' \in [Queues -> Answer]
    BY <1>1, ReplyShape DEF CallFails, Surroundings
  <2>2. CASE Fault /\ lost' = TRUE
    BY <1>1, <2>1, <2>2, FaultKeeps DEF CallFails, Surroundings, Owners
  <2>3. CASE UNCHANGED bounds
    BY <1>1, <2>1, <2>3 DEF CallFails, Surroundings, Owners, bounds
  <2> QED
    BY <2>2, <2>3 DEF CallFails
<1> QED
  BY <1>1, <1>2, InvPartsNext DEF CallFails, Owners

\* A handler that settles.
LEMMA EndOfJobKeeps ==
    ASSUME DurableInv, NEW j \in Job, EndOfJob(j)
    PROVE  DurableInv'
<1>1. Sound(driver)
  BY InvParts
<1>2. CASE PrepareEnds(j)
  <2>1. driver.phase[j] = "preparing"
    BY <1>2 DEF PrepareEnds
  <2>2. Sound(EndJob(driver, j, FALSE))
    BY <1>1, <2>1, EndJobSound
  <2>3. Sound(Kick([driver EXCEPT !.phase[j] = "runnable", !.runnable = Append(@, j)]))
    BY <1>1, <2>1, HandOverSound, KickSound
  <2>4. "prepareFailing" \in Phases \ InLane
    BY DEF Phases, Preparing, InLane
  <2>5. Sound(Enqueue([driver EXCEPT !.phase[j] = "prepareFailing"], Queue(j), j))
    BY <1>1, <2>1, <2>4, PhaseSound, EnqueueSound, JobShape
  <2>6. Sound(driver')
    BY <1>2, <2>2, <2>3, <2>5 DEF PrepareEnds
  <2> QED
    BY <1>2, <2>6, DriverStepKeeps DEF PrepareEnds
<1>3. CASE ExecuteEnds(j)
  <2>1. driver.phase[j] = "executing"
    BY <1>3 DEF ExecuteEnds
  <2>2. Sound(EndJob(driver, j, TRUE))
    BY <1>1, <2>1, EndJobSound
  <2>3. "settling" \in Phases \ InLane /\ "failing" \in Phases \ InLane
    BY DEF Phases, Running, InLane
  <2>4. /\ Sound(Enqueue([driver EXCEPT !.phase[j] = "settling"], Queue(j), j))
        /\ Sound(Enqueue([driver EXCEPT !.phase[j] = "failing"], Queue(j), j))
    BY <1>1, <2>1, <2>3, PhaseSound, EnqueueSound, JobShape
  <2>5. Sound(driver')
    BY <1>3, <2>2, <2>4 DEF ExecuteEnds
  <2> QED
    BY <1>3, <2>5, DriverStepKeeps DEF ExecuteEnds
<1> QED
  BY <1>2, <1>3 DEF EndOfJob

\* The orders in which a scan's ready queues are found.
LEMMA FoundOrders ==
    ASSUME NEW found \in SUBSET Queues, NEW known, NEW qs \in SetToSeqs(found \ known)
    PROVE  qs \in Seq(Queues)
<1> DEFINE S == found \ known
<1>1. S \subseteq Queues
  OBVIOUS
<1>2. Cardinality(S) \in Nat
  BY <1>1, QueueAssumption, FS_Subset, FS_CardinalityType
<1>3. qs \in [1..Cardinality(S) -> Queues]
  BY <1>1 DEF SetToSeqs
<1> HIDE DEF S
<1> QED
  BY <1>2, <1>3

\* The recovery scan.
LEMMA ScanningKeeps ==
    ASSUME DurableInv, Scanning
    PROVE  DurableInv'
<1>1. Sound(driver) /\ RowsSound(row) /\ Surroundings
  BY InvParts
<1>2. CASE StartScan
  <2>1. scan' \in [on: BOOLEAN, left: SUBSET Queues, found: SUBSET Queues]
    BY <1>2 DEF StartScan, NoScan
  <2> QED
    BY <1>1, <1>2, <2>1, InvPartsNext DEF StartScan, Surroundings, Owners, bounds
<1>3. ASSUME NEW q \in Queues, ScanOwner(q)
      PROVE  DurableInv'
  <2>1. CASE /\ row' = Adopted(q)
             /\ adopted' = [adopted EXCEPT ![q] = TRUE]
             /\ scan' = [scan EXCEPT !.left = @ \ {q},
                                     !.found = IF Claimable(q, row') = {} THEN @ ELSE @ \union {q}]
             /\ UNCHANGED bounds
    <3>1. scan' \in [on: BOOLEAN, left: SUBSET Queues, found: SUBSET Queues]
      <4> DEFINE found == IF Claimable(q, row') = {} THEN scan.found ELSE scan.found \union {q}
      <4>1. found \in SUBSET Queues /\ scan.left \ {q} \in SUBSET Queues
        BY <1>1 DEF Surroundings
      <4>2. scan' = [scan EXCEPT !.left = scan.left \ {q}, !.found = found]
        BY <1>1, <2>1 DEF Surroundings
      <4> HIDE DEF found
      <4> QED
        BY <1>1, <4>1, <4>2 DEF Surroundings
    <3>2. adopted' \in [Queues -> BOOLEAN]
      BY <1>1, <2>1 DEF Surroundings
    <3>3. RowsSound(row')
      BY <1>1, <2>1, AdoptedSound
    <3> QED
      BY <1>1, <1>3, <2>1, <3>1, <3>2, <3>3, InvPartsNext DEF ScanOwner, Surroundings, bounds
  <2>2. CASE /\ Fault /\ lost' = TRUE
             /\ scan' = [scan EXCEPT !.left = @ \ {q}]
             /\ UNCHANGED Owners
    BY <1>1, <1>3, <2>2, FaultKeeps, InvPartsNext DEF ScanOwner, Surroundings, Owners
  <2> QED
    BY <1>3, <2>1, <2>2 DEF ScanOwner
<1>4. CASE EndScan
  <2>1. PICK qs \in SetToSeqs(scan.found \ ToSet(driver.pending)) :
            driver' = NotifyAll(driver, qs)
    BY <1>4 DEF EndScan
  <2>5. qs \in Seq(Queues)
    BY <1>1, <2>1, FoundOrders DEF Surroundings
  <2>6. Sound(driver')
    BY <1>1, <2>1, <2>5, NotifyAllSound
  <2>7. NoScan \in [on: BOOLEAN, left: SUBSET Queues, found: SUBSET Queues]
    BY DEF NoScan
  <2> QED
    BY <1>1, <1>4, <2>6, <2>7, InvPartsNext DEF EndScan, Surroundings, Owners, bounds
<1> QED
  BY <1>2, <1>3, <1>4 DEF Scanning

\* quiesce and its stages.
LEMMA QuiesceKeeps ==
    ASSUME DurableInv, Quiesce \/ Quiescing
    PROVE  DurableInv'
<1>1. Sound(driver) /\ RowsSound(row) /\ Surroundings
  BY InvParts
<1>2. Runners(driver) \union Prerequisites(driver) \in SUBSET Job
  BY DEF Runners, Prerequisites
<1>3. CASE Quiesce
  <2> DEFINE ab == driver.pump.aborted \/ driver.pump.at \in {"claim", "claiming"}
  <2>a. driver' = [driver EXCEPT !.accepting = FALSE, !.pending = <<>>,
                                 !.aborted = Runners(driver) \union Prerequisites(driver),
                                 !.pump.aborted = ab]
    BY <1>3 DEF Quiesce
  <2>b. ab \in BOOLEAN /\ <<>> \in Seq(Queues)
    OBVIOUS
  <2> HIDE DEF ab
  <2>1. driver' \in Driver
    BY <1>1, <1>2, <2>a, <2>b DEF Sound, Driver, Pump
  <2>2. /\ driver'.phase = driver.phase /\ driver'.lane = driver.lane
        /\ driver'.runnable = driver.runnable
        /\ driver'.pump.at = driver.pump.at /\ driver'.pump.claims = driver.pump.claims
    BY <1>1, <1>3 DEF Quiesce, Sound, Driver, Pump
  <2>3. Sound(driver')
    BY <1>1, <2>1, <2>2 DEF Sound, LanesHeld, RunnableOnce, HasClaim
  <2> QED
    BY <1>1, <1>3, <2>3, InvPartsNext DEF Quiesce, Surroundings, Owners, bounds
<1>4. CASE AwaitJobs
  BY <1>1, <1>2, <1>4, InvPartsNext DEF AwaitJobs, Surroundings, Owners, bounds
<1>5. CASE DropRunnable
  <2> DEFINE dropped == ToSet(driver.runnable)
  <2>1. /\ driver'.runnable = <<>> /\ driver'.pump = driver.pump
        /\ \A j \in Job : driver'.phase[j] = IF j \in dropped THEN "none" ELSE driver.phase[j]
        /\ \A l \in Lanes : driver'.lane[l] = IF driver.lane[l] \in dropped THEN NoJob
                                              ELSE driver.lane[l]
    BY <1>1, <1>5 DEF DropRunnable, Sound, Driver
  <2>2. driver' \in Driver
    <3> DEFINE phases == [j \in Job |-> IF j \in dropped THEN "none" ELSE driver.phase[j]]
               lanes == [l \in Lanes |-> IF driver.lane[l] \in dropped THEN NoJob
                                         ELSE driver.lane[l]]
    <3>1. driver' = [driver EXCEPT !.runnable = <<>>, !.phase = phases, !.lane = lanes]
      BY <1>5 DEF DropRunnable
    <3>2. phases \in [Job -> Phases]
      BY <1>1 DEF Sound, Driver, Phases
    <3>3. lanes \in [Lanes -> Mutation]
      BY <1>1, JobShape DEF Sound, Driver
    <3>4. <<>> \in Seq(Job)
      OBVIOUS
    <3> HIDE DEF phases, lanes
    <3> QED
      BY <1>1, <3>1, <3>2, <3>3, <3>4 DEF Sound, Driver
  <2> HIDE DEF dropped
  <2>3. LanesHeld(driver')
    BY <1>1, <2>1, JobShape DEF Sound, LanesHeld, InLane
  <2>4. Sound(driver')
    BY <1>1, <2>1, <2>2, <2>3 DEF Sound, RunnableOnce
  <2> QED
    BY <1>1, <1>5, <2>4, InvPartsNext DEF DropRunnable, Surroundings, Owners, bounds
<1>6. CASE AwaitScan
  BY <1>1, <1>6, InvPartsNext DEF AwaitScan, Surroundings, Owners, bounds
<1> QED
  BY <1>3, <1>4, <1>5, <1>6 DEF Quiescing

\* Owners that commit work or wake anew, hints, and a host that starts again.
LEMMA SurroundingsKeep ==
    ASSUME DurableInv,
           \/ \E i \in Items : AddWork(i)
           \/ \E q \in Queues : Hint(q) \/ Reactivate(q)
           \/ Restart
    PROVE  DurableInv'
<1>1. Sound(driver) /\ RowsSound(row) /\ Surroundings
  BY InvParts
<1>2. ASSUME NEW i \in Items, AddWork(i)
      PROVE  DurableInv'
  <2>1. RowsSound(row')
    BY <1>1, <1>2, Bounds DEF AddWork, RowsSound, Row
  <2> QED
    BY <1>1, <1>2, <2>1, InvPartsNext DEF AddWork, Surroundings, bounds
<1>3. ASSUME NEW q \in Queues, Hint(q)
      PROVE  DurableInv'
  <2>1. Sound(driver')
    BY <1>1, <1>3, NotifySound DEF Hint
  <2> QED
    BY <1>3, <2>1, DriverStepKeeps DEF Hint
<1>4. ASSUME NEW q \in Queues, Reactivate(q)
      PROVE  DurableInv'
  BY <1>1, <1>4, Bounds, InvPartsNext DEF Reactivate, Fault, Surroundings
<1>5. CASE Restart
  <2>1. Sound(driver') /\ row' = row
    BY <1>5, NewDriverSound DEF Restart
  <2>2. Surroundings'
    <3>1. NoScan \in [on: BOOLEAN, left: SUBSET Queues, found: SUBSET Queues]
      BY DEF NoScan
    <3>2. reply' \in [Queues -> Answer] /\ adopted' \in [Queues -> BOOLEAN]
      BY <1>5, ReplyShape DEF Restart
    <3>3. stop' \in [at: {"no", "pump", "jobs", "scan", "done"}, join: SUBSET Job]
      BY <1>5 DEF Restart
    <3> QED
      BY <1>1, <1>5, <3>1, <3>2, <3>3, Bounds DEF Restart, Fault, Surroundings
  <2> QED
    BY <1>1, <2>1, <2>2, InvPartsNext
<1> QED
  BY <1>2, <1>3, <1>4, <1>5

\* Every step keeps the invariant.
LEMMA StepSound == DurableInv /\ [Next]_vars => DurableInv'
<1> SUFFICES ASSUME DurableInv, [Next]_vars PROVE DurableInv'
  OBVIOUS
<1>1. CASE FinishPump
  <2>1. Sound(driver')
    BY <1>1, PumpEndsSound, InvParts DEF FinishPump
  <2> QED
    BY <1>1, <2>1, DriverStepKeeps DEF FinishPump
<1>2. CASE UNCHANGED vars
  BY <1>2, InvParts, InvPartsNext DEF vars, bounds, Surroundings
<1> QED
  BY <1>1, <1>2, MutateKeeps, CallFailsKeeps, EndOfJobKeeps, ScanningKeeps, QuiesceKeeps,
     SurroundingsKeep DEF Next

\* The invariant holds in every reachable state.
LEMMA DurableInvHolds == DurableWorkSpec => []DurableInv
BY InitSound, StepSound, PTL DEF DurableWorkSpec

-----------------------------------------------------------------------------
(* Wake-ups *)

\* WorkIsPumped of any driver.
Pumped(d) ==
    d.accepting /\ Free(d) > 0 /\ (d.pending # <<>> \/ d.runnable # <<>>) => d.pump.at # "idle"

\* A kick leaves nothing to wake the pump for.
LEMMA KickPumps ==
    ASSUME NEW d, Sound(d)
    PROVE  Pumped(Kick(d))
<1>1. Free(d) \in Int
  BY FreeSlots DEF Sound
<1>2. CASE ~d.accepting \/ d.pump.at # "idle" \/ Free(d) <= 0
  BY <1>1, <1>2 DEF Kick, Pumped
<1>3. CASE ~(~d.accepting \/ d.pump.at # "idle" \/ Free(d) <= 0)
  BY <1>3, LoopPumps DEF Kick, Pumped
<1> QED
  BY <1>2, <1>3

\* A hint wakes the pump.
LEMMA NotifyPumps ==
    ASSUME NEW d, Sound(d), NEW q \in Queues
    PROVE  Pumped(Notify(d, q))
<1>1. d.pending \in Seq(Queues)
  BY DEF Sound, Driver
<1>2. Append(d.pending, q) \in Seq(Queues)
  BY <1>1
<1>3. Sound([d EXCEPT !.pending = IF q \in ToSet(@) THEN @ ELSE Append(@, q)])
  BY <1>1, <1>2 DEF Sound, Driver, LanesHeld, RunnableOnce
<1>4. CASE d.accepting
  BY <1>3, <1>4, KickPumps DEF Notify
<1>5. CASE ~d.accepting
  BY <1>5 DEF Notify, Pumped
<1> QED
  BY <1>4, <1>5

\* So do several.
LEMMA NotifyAllPumps ==
    ASSUME NEW d, Sound(d), Pumped(d), NEW qs \in Seq(Queues)
    PROVE  Pumped(NotifyAll(d, qs))
<1>1. d.pending \o qs \in Seq(Queues)
  BY DEF Sound, Driver
<1>2. Sound([d EXCEPT !.pending = @ \o qs])
  BY <1>1 DEF Sound, Driver, LanesHeld, RunnableOnce
<1> QED
  BY <1>2, KickPumps DEF NotifyAll

\* A pump that ends looks at what was asked for while it ran.
LEMMA PumpEndsPumps ==
    ASSUME NEW d, Sound(d)
    PROVE  Pumped(PumpEnds(d))
<1> DEFINE e == [d EXCEPT !.pump = NoPump]
<1>1. Sound(e)
  BY PumpSound, NoPumpShape
<1> HIDE DEF e
<1>2. PumpEnds(d) = IF e.pending # <<>> \/ e.runnable # <<>> THEN Kick(e) ELSE e
  BY DEF PumpEnds, e
<1> QED
  BY <1>1, <1>2, KickPumps DEF Pumped

\* A job's end frees a slot and kicks the pump.
LEMMA EndJobPumps ==
    ASSUME NEW d, Sound(d), NEW j \in Job, d.phase[j] # "runnable", NEW continue \in BOOLEAN
    PROVE  Pumped(EndJob(d, j, continue))
<1> DEFINE e == [Release(d, j) EXCEPT !.phase[j] = "none", !.aborted = @ \ {j}]
<1>1. Sound(e)
  BY EndedSound
<1> HIDE DEF e
<1>2. Sound(Notify(e, Queue(j)))
  BY <1>1, NotifySound, JobShape
<1>3. EndJob(d, j, continue) = Kick(IF continue THEN Notify(e, Queue(j)) ELSE e)
  BY DEF EndJob, e
<1> QED
  BY <1>1, <1>2, <1>3, KickPumps

\* Slots do not depend on chains, and a settlement that turns into a failure
\* keeps its slot.
LEMMA SlotsKept ==
    ASSUME NEW d \in Driver, NEW e \in Driver, Runners(e) = Runners(d) , Pumped(d),
           e.accepting = d.accepting \/ ~e.accepting, e.pump.at = d.pump.at,
           e.pending = d.pending \/ e.pending = <<>>,
           e.runnable = d.runnable \/ e.runnable = <<>>
    PROVE  Pumped(e)
BY DEF Pumped, Free

\* Every step leaves the pump running if there is something to run for.
LEMMA StepPumps == DurableInv /\ WorkIsPumped /\ [Next]_vars => WorkIsPumped'
<1> SUFFICES ASSUME DurableInv, Pumped(driver), [Next]_vars PROVE Pumped(driver')
  BY DEF WorkIsPumped, Pumped, Free, Runners
<1>1. Sound(driver) /\ driver \in Driver /\ Surroundings
  BY InvParts DEF Sound
<1>2. Sound(driver') /\ driver' \in Driver
  BY StepSound, InvPartsNext DEF Sound
<1>3. ASSUME driver' = driver PROVE Pumped(driver')
  BY <1>3
<1>4. ASSUME NEW q \in Queues, Mutate(q) PROVE Pumped(driver')
  <2>1. CASE SendClaim(q)
    BY <1>1, <2>1 DEF SendClaim, Driver, Pump, Pumped
  <2>2. CASE OwnerClaims(q) \/ OwnerSettles(q) \/ OwnerFails(q)
    BY <1>3, <2>2 DEF OwnerClaims, OwnerSettles, OwnerFails
  <2>3. ASSUME driver.chain[q] # <<>>
        PROVE  Sound(Dequeue(driver, q)) /\ Dequeue(driver, q).phase = driver.phase
    BY <1>1, <2>3, DequeueSound DEF Driver, Dequeue
  <2>4. CASE ClaimAnswered(q)
    <3>1. driver.chain[q] # <<>> /\ reply[q].claims \in Seq(Job)
      BY <1>1, <2>4 DEF ClaimAnswered, PumpCalls, HeadIs, Surroundings, Answer
    <3> QED
      BY <2>3, <2>4, <3>1, GrantSound DEF ClaimAnswered, Pumped
  <2>5. CASE DuplicateAnswered(q)
    <3>1. driver.chain[q] # <<>> /\ driver.pump.claims # <<>> /\ driver.pump.claims \in Seq(Job)
      BY <1>1, <2>5 DEF DuplicateAnswered, PumpCalls, HeadIs, Sound, HasClaim, Driver, Pump
    <3>2. Tail(driver.pump.claims) \in Seq(Job)
      BY <3>1
    <3> QED
      BY <2>3, <2>5, <3>1, <3>2, GrantSound DEF DuplicateAnswered, Pumped
  <2>6. CASE SettleAnswered(q)
    <3>1. PICK j \in Job :
          /\ HeadIs(q, j) /\ driver.phase[j] = "settling"
          /\ LET d == Release(Dequeue(driver, q), j)
             IN driver' =
                  IF reply[q].result = "lost" /\ j \notin driver.aborted
                  THEN Enqueue([d EXCEPT !.phase[j] = "failing"], q, j)
                  ELSE EndJob(d, j, reply[q].result # "stale")
      BY <2>6 DEF SettleAnswered
    <3> DEFINE d == Release(Dequeue(driver, q), j)
               f == Enqueue([d EXCEPT !.phase[j] = "failing"], q, j)
    <3>2. Sound(d) /\ d.phase = driver.phase
      BY <2>3, <3>1, ReleaseSound DEF HeadIs, InLane
    <3>3. CASE driver' = EndJob(d, j, reply[q].result # "stale")
      BY <3>1, <3>2, <3>3, EndJobPumps
    <3>4. CASE driver' = f
      <4>1. /\ f.phase = [driver.phase EXCEPT ![j] = "failing"]
            /\ f.accepting = driver.accepting /\ f.pump = driver.pump
            /\ f.pending = driver.pending /\ f.runnable = driver.runnable
        BY <1>1, <3>2 DEF Driver, Dequeue, Release, Enqueue
      <4>2. Runners(f) = Runners(driver)
        BY <1>1, <3>1, <4>1 DEF Runners, Running, Driver
      <4> HIDE DEF f
      <4> QED
        BY <1>1, <1>2, <3>4, <4>1, <4>2, SlotsKept
    <3> QED
      BY <3>1, <3>3, <3>4
  <2>7. CASE FailAnswered(q)
    <3>1. PICK j \in Job :
          /\ HeadIs(q, j) /\ driver.phase[j] \in {"failing", "prepareFailing"}
          /\ driver' = EndJob(Dequeue(driver, q), j,
                          \/ reply[q].result = "retry"
                          \/ reply[q].result = "lost" /\ driver.phase[j] = "failing")
      BY <2>7 DEF FailAnswered
    <3> QED
      BY <2>3, <3>1, EndJobPumps DEF HeadIs
  <2> QED
    BY <1>4, <2>1, <2>2, <2>4, <2>5, <2>6, <2>7 DEF Mutate
<1>5. ASSUME NEW j \in Job, EndOfJob(j) PROVE Pumped(driver')
  <2>1. ASSUME NEW p \in {"prepareFailing", "settling", "failing"},
               driver.phase[j] = IF p = "prepareFailing" THEN "preparing" ELSE "executing",
               driver' = Enqueue([driver EXCEPT !.phase[j] = p], Queue(j), j)
        PROVE  Pumped(driver')
    <3>1. /\ driver'.phase = [driver.phase EXCEPT ![j] = p]
          /\ driver'.accepting = driver.accepting /\ driver'.pump = driver.pump
          /\ driver'.pending = driver.pending /\ driver'.runnable = driver.runnable
      BY <1>1, <2>1 DEF Driver, Enqueue
    <3>2. Runners(driver') = Runners(driver)
      BY <1>1, <2>1, <3>1 DEF Runners, Running, Driver
    <3> QED
      BY <1>1, <1>2, <3>1, <3>2, SlotsKept
  <2>2. CASE PrepareEnds(j)
    <3>1. driver.phase[j] = "preparing"
      BY <2>2 DEF PrepareEnds
    <3>2. /\ Pumped(EndJob(driver, j, FALSE))
          /\ Pumped(Kick([driver EXCEPT !.phase[j] = "runnable", !.runnable = Append(@, j)]))
      BY <1>1, <3>1, EndJobPumps, HandOverSound, KickPumps
    <3> QED
      BY <2>1, <2>2, <3>1, <3>2 DEF PrepareEnds
  <2>3. CASE ExecuteEnds(j)
    <3>1. driver.phase[j] = "executing"
      BY <2>3 DEF ExecuteEnds
    <3>2. Pumped(EndJob(driver, j, TRUE))
      BY <1>1, <3>1, EndJobPumps
    <3> QED
      BY <2>1, <2>3, <3>1, <3>2 DEF ExecuteEnds
  <2> QED
    BY <1>5, <2>2, <2>3 DEF EndOfJob
<1>6. CASE FinishPump
  BY <1>1, <1>6, PumpEndsPumps DEF FinishPump
<1>7. CASE Scanning
  <2>1. CASE EndScan
    <3>1. PICK qs \in SetToSeqs(scan.found \ ToSet(driver.pending)) :
              driver' = NotifyAll(driver, qs)
      BY <2>1 DEF EndScan
    <3>2. qs \in Seq(Queues)
      BY <1>1, <3>1, FoundOrders DEF Surroundings
    <3> QED
      BY <1>1, <3>1, <3>2, NotifyAllPumps
  <2> QED
    BY <1>3, <1>7, <2>1 DEF Scanning, StartScan, ScanOwner
<1>8. CASE Quiesce
  <2>1. driver'.accepting = FALSE
    BY <1>1, <1>8 DEF Quiesce, Driver
  <2> QED
    BY <2>1 DEF Pumped
<1>9. CASE DropRunnable
  <2>1. /\ driver'.runnable = <<>> /\ driver'.pump = driver.pump
        /\ driver'.accepting = driver.accepting /\ driver'.pending = driver.pending
        /\ \A j \in Job : driver'.phase[j] = IF j \in ToSet(driver.runnable) THEN "none"
                                             ELSE driver.phase[j]
    BY <1>1, <1>9 DEF DropRunnable, Driver
  <2>2. \A j \in ToSet(driver.runnable) : driver.phase[j] = "runnable"
    BY <1>1 DEF Sound, RunnableOnce, ToSet
  <2>3. Runners(driver') = Runners(driver)
    BY <2>1, <2>2 DEF Runners, Running
  <2> QED
    BY <1>1, <1>2, <2>1, <2>3, SlotsKept
<1>10. ASSUME NEW q \in Queues, Hint(q) PROVE Pumped(driver')
  BY <1>1, <1>10, NotifyPumps DEF Hint
<1>11. CASE Restart
  <2>1. driver'.pending = <<>> /\ driver'.runnable = <<>>
    BY <1>11 DEF Restart, NewDriver
  <2> QED
    BY <2>1 DEF Pumped
<1>12. CASE \/ \E q \in Queues : CallFails(q) \/ Reactivate(q)
            \/ \E i \in Items : AddWork(i)
            \/ AwaitJobs \/ AwaitScan \/ UNCHANGED vars
  BY <1>3, <1>12 DEF CallFails, Reactivate, AddWork, AwaitJobs, AwaitScan, vars
<1> QED
  BY <1>4, <1>5, <1>6, <1>7, <1>8, <1>9, <1>10, <1>11, <1>12 DEF Next, Quiescing

-----------------------------------------------------------------------------
(* The theorems *)

\* Type correctness: the driver's fields, the calls under way and the owners'
\* rows keep their shape; no attempt is ever made beyond the last.
THEOREM DurableWorkTypeCorrect == DurableWorkSpec => []DurableTypeOK
<1>1. DurableInv => DurableTypeOK
  BY DEF DurableInv
<1> QED
  BY <1>1, DurableInvHolds, PTL

\* Lanes are exclusive: two claims of one lane are never prepared, queued or
\* executed at a time, for any owners, queues and lanes, whatever calls are
\* lost and whenever owners or the host start anew.
THEOREM LanesAreExclusive == DurableWorkSpec => []LaneExclusive
<1>1. DurableInv => LaneExclusive
  BY DEF DurableInv, Sound, LanesHeld, LaneExclusive
<1> QED
  BY <1>1, DurableInvHolds, PTL

\* No wake-up is lost: a driver that accepts work, with a free slot and a hint
\* or a prepared claim, has its pump running after every turn.
THEOREM NoWakeUpIsLost == DurableWorkSpec => []WorkIsPumped
<1>1. Init => WorkIsPumped
  <2> SUFFICES ASSUME Init PROVE driver.pending = <<>> /\ driver.runnable = <<>>
    BY DEF WorkIsPumped
  <2> QED
    BY DEF Init, NewDriver
<1> QED
  BY <1>1, StepPumps, DurableInvHolds, PTL DEF DurableWorkSpec
=============================================================================
