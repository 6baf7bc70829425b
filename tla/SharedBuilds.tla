---------------------------- MODULE SharedBuilds ----------------------------
(***************************************************************************)
(* The builds of several host processes that share one result cache: the   *)
(* SharedBuildCoordinator elects one compiler per build key and admits it  *)
(* to one compile budget through three database tables.                    *)
(*                                                                         *)
(* Each action is one statement or transaction on the tables together with *)
(* the code of its process up to the next await.  A process has at most    *)
(* one request per key (admitSharedBuild joins the others), so a request   *)
(* is named by its process and key.  A flight is named by its key: none is *)
(* replaced while somebody waits on it (WaiterHasReceipt).                 *)
(***************************************************************************)
EXTENDS Naturals, Sequences, FiniteSets, FiniteSetsExt

CONSTANTS
    Owners,       \* processes; a restarted process is another owner
    Keys,         \* build keys
    Wanted,       \* the process and key of the requests that are ever made
    Capacity,     \* the compile slots each process was configured with
    Ranks,        \* priorities in use, of 0 (interactive), 1, 2 (speculative)
    MaxFailures,  \* bound on compilations that fail or are cancelled
    MaxFaults     \* bound on settlements the database refuses

ASSUME BuildsAssumption ==
    /\ Wanted \subseteq Owners \X Keys
    /\ Capacity \in [Owners -> Nat \ {0}]
    /\ Ranks \subseteq 0..2
    /\ {MaxFailures, MaxFaults} \subseteq Nat

VARIABLES
    alive,        \* processes that have not exited
    pc,           \* where each process is with each key
    requests,     \* requests table: the priority of each request
    flights,      \* flights table
    slots,        \* slots table, by sequence number
    adopted,      \* compilerPriority of each key's producer
    published,    \* keys the cache holds a result of
    failures, faults

vars == <<alive, pc, requests, flights, slots, adopted, published, failures, faults>>

NoRequest == 3
NoFlight == [state |-> "none", owner |-> {}]
Lowest == 2
Producing == {"producing", "queued", "compiling", "built", "broken"}

AtLeastOne(n) == IF n > 1 THEN n ELSE 1

Requesters(rq, k) == {p \in Owners : rq[p][k] # NoRequest}
Demand(k) == Min({requests[p][k] : p \in Owners} \cup {NoRequest})
Go(p, k, next) == pc' = [pc EXCEPT ![p][k] = next]
SlotOf(s, p, k) == s.owner = p /\ s.key = k
Admitted(p, k) == \E i \in DOMAIN slots : SlotOf(slots[i], p, k) /\ slots[i].running

\* The rows that a DELETE leaves, in their order.
Kept(rows, I) ==
    [n \in 1..Cardinality(I) |->
        rows[CHOOSE i \in I : Cardinality({j \in I : j <= i}) = n]]
WithoutSlot(p, k) == Kept(slots, {i \in DOMAIN slots : ~SlotOf(slots[i], p, k)})

-----------------------------------------------------------------------------
(* The tables. *)

\* Faults: settled flights go although somebody waits; they keep their owner.
RetiredEarly(fl, rq) ==
    [k \in Keys |-> IF fl[k].state # "running" THEN NoFlight ELSE fl[k]]
RetiredInPart(fl, rq) ==
    [k \in Keys |-> IF fl[k].state # "running" /\ Requesters(rq, k) = {}
                    THEN [fl[k] EXCEPT !.state = "none"] ELSE fl[k]]

\* retireSettled: a settled flight nobody requests any more.
Retired(fl, rq) ==
    [k \in Keys |-> IF fl[k].state # "running" /\ Requesters(rq, k) = {}
                    THEN NoFlight ELSE fl[k]]

\* reap: what a dead process owned.
LiveRequests == [p \in Owners |-> IF p \in alive THEN requests[p]
                                  ELSE [k \in Keys |-> NoRequest]]
\* Fault: the flight of a dead process is left to its owner.
FlightsKept == Retired(flights, LiveRequests)

LiveFlights ==
    Retired([k \in Keys |-> IF flights[k].state = "running" /\ flights[k].owner \notin alive
                            THEN [flights[k] EXCEPT !.state = "failed"] ELSE flights[k]],
            LiveRequests)
Live == {i \in DOMAIN slots : slots[i].owner \in alive}
LiveSlots == Kept(slots, Live)

\* hasBuildSlotCapacity beside the slots at some positions: a lane stays free
\* of builds that are not interactive.
HasBuildSlotCapacity(queue, rank, running, capacity) ==
    LET active(least) == Cardinality({i \in running : queue[i].rank >= least}) IN
    /\ active(0) < capacity
    /\ rank = 0 \/ active(1) < AtLeastOne(capacity - 1)
    /\ rank < 2 \/ active(2) < AtLeastOne(capacity - 2)

\* Fault: the most generous configuration decides.
MostCapacity(queue, I) == Max({Capacity[queue[i].owner] : i \in I})

\* The most careful configuration among the slots decides.
SlotCapacity(queue, I) == Min({Capacity[queue[i].owner] : i \in I})

\* The waiting slots of one rank beside those that run: one that finds no
\* capacity leaves none to those behind it.
AdmitRank(queue, I, running, rank) ==
    LET waiting == {i \in I \ running : queue[i].rank = rank}
        ahead(i) == {j \in waiting : j < i}
    IN  running \cup {i \in waiting :
            HasBuildSlotCapacity(queue, rank, running \cup ahead(i), SlotCapacity(queue, I))}

\* admitSlots, of the slots at the positions I: by priority, then by sequence number.
AdmitSlots(queue, I) ==
    LET running == {i \in I : queue[i].running}
        interactive == AdmitRank(queue, I, running, 0)
        background == AdmitRank(queue, I, interactive, 1)
        admitted == AdmitRank(queue, I, background, 2)
    IN  [i \in DOMAIN queue |-> [queue[i] EXCEPT !.running = i \in admitted]]

\* changed: each process looks on every notification and once a second.
Refresh ==
    /\ alive # {}
    /\ requests' = LiveRequests /\ flights' = LiveFlights
    /\ slots' = Kept(AdmitSlots(slots, Live), Live)
    /\ UNCHANGED <<alive, pc, adopted, published, failures, faults>>

-----------------------------------------------------------------------------
(* run: the request of one process for one key. *)

\* The process that opened the flight compiles, if nobody else asks yet.
Elected(p, k, fl, rq) == fl[k].owner = p /\ Requesters(rq, k) = {p}

Request(p, k, rank) ==
    /\ p \in alive /\ <<p, k>> \in Wanted /\ pc[p][k] = "idle"
    /\ requests' = [LiveRequests EXCEPT ![p][k] = rank]
    /\ flights' = [LiveFlights EXCEPT ![k] =
                       IF @ = NoFlight THEN [state |-> "running", owner |-> p] ELSE @]
    /\ slots' = LiveSlots
    /\ IF Elected(p, k, flights', requests')
       THEN Go(p, k, "producing") /\ adopted' = [adopted EXCEPT ![k] = rank]
       ELSE Go(p, k, "observing") /\ UNCHANGED adopted
    /\ UNCHANGED <<alive, published, failures, faults>>

\* A role of the same process asks for the build more urgently.
Promote(p, k, rank) ==
    /\ p \in alive /\ pc[p][k] \in Producing \cup {"observing"}
    /\ rank < requests[p][k]
    /\ requests' = [requests EXCEPT ![p][k] = rank]
    /\ UNCHANGED <<alive, pc, flights, slots, adopted, published, failures, faults>>

\* A waiter is answered by the flight's end, or withdraws.
Observe(p, k) ==
    /\ pc[p][k] = "observing" /\ flights[k].state # "running"
    /\ Go(p, k, "retiring")
    /\ UNCHANGED <<alive, requests, flights, slots, adopted, published, failures, faults>>

Withdraw(p, k) ==
    /\ pc[p][k] = "observing"
    /\ Go(p, k, "retiring")
    /\ UNCHANGED <<alive, requests, flights, slots, adopted, published, failures, faults>>

\* The cleanup of every request, answered or not.
Retire(p, k) ==
    /\ pc[p][k] = "retiring"
    /\ requests' = [requests EXCEPT ![p][k] = NoRequest]
    /\ flights' = Retired(flights, requests')
    /\ Go(p, k, "idle")
    /\ UNCHANGED <<alive, slots, adopted, published, failures, faults>>

-----------------------------------------------------------------------------
(* The producer. *)

\* Fault: the producer relies on the lookup before its election.
NotRechecked(k) == FALSE

\* Another process may have published before this one was elected.
Rechecked(k) == k \in published

\* produce: the cached result, or the queue for a compile slot (withSlot).
Produce(p, k) ==
    /\ pc[p][k] = "producing"
    /\ IF Rechecked(k)
       THEN /\ Go(p, k, "built") /\ adopted' = [adopted EXCEPT ![k] = Lowest]
            /\ UNCHANGED slots
       ELSE /\ Go(p, k, "queued") /\ UNCHANGED adopted
            /\ slots' = Append(slots, [key |-> k, owner |-> p,
                                       rank |-> adopted[k], running |-> FALSE])
    /\ UNCHANGED <<alive, requests, flights, published, failures, faults>>

\* Fault: a compilation that is queued already is not raised.
AdoptBeforeQueue(p, k) ==
    /\ pc[p][k] = "producing" /\ Demand(k) < adopted[k]
    /\ adopted' = [adopted EXCEPT ![k] = Demand(k)]
    /\ UNCHANGED <<alive, pc, requests, flights, slots, published, failures, faults>>

\* adoptDemand: the strongest request of the flight, also while it is queued.
AdoptDemand(p, k) ==
    /\ pc[p][k] \in {"producing", "queued"} /\ Demand(k) < adopted[k]
    /\ adopted' = [adopted EXCEPT ![k] = Demand(k)]
    /\ slots' = [i \in DOMAIN slots |->
                    IF SlotOf(slots[i], p, k) /\ ~slots[i].running
                    THEN [slots[i] EXCEPT !.rank = Demand(k)] ELSE slots[i]]
    /\ UNCHANGED <<alive, pc, requests, flights, published, failures, faults>>

Start(p, k) ==
    /\ pc[p][k] = "queued" /\ Admitted(p, k)
    /\ Go(p, k, "compiling")
    /\ adopted' = [adopted EXCEPT ![k] = Lowest]
    /\ UNCHANGED <<alive, requests, flights, slots, published, failures, faults>>

\* The result is published before the slot is given back.
Compile(p, k) ==
    /\ pc[p][k] = "compiling"
    /\ published' = published \cup {k}
    /\ slots' = WithoutSlot(p, k)
    /\ Go(p, k, "built")
    /\ UNCHANGED <<alive, requests, flights, adopted, failures, faults>>

\* The build fails or is cancelled: before, in or after the queue.
Break(p, k) ==
    /\ pc[p][k] \in {"producing", "queued", "compiling"}
    /\ failures < MaxFailures /\ failures' = failures + 1
    /\ Go(p, k, "broken")
    /\ adopted' = [adopted EXCEPT ![k] = Lowest]
    /\ slots' = WithoutSlot(p, k)
    /\ UNCHANGED <<alive, requests, flights, published, faults>>

\* settle: the flight's end, as long as this process still owns it.
SettledAs(p, k, state) ==
    IF flights[k] = [state |-> "running", owner |-> p]
    THEN [flights EXCEPT ![k].state = state] ELSE flights

Settle(p, k) ==
    /\ pc[p][k] \in {"built", "broken"}
    /\ Go(p, k, "retiring")
    /\ flights' = SettledAs(p, k, IF pc[p][k] = "built" THEN "complete" ELSE "failed")
    /\ UNCHANGED <<alive, requests, slots, adopted, published, failures, faults>>

\* The database refuses a settlement: a built flight is then settled as failed.
\* If that is refused too, the request is retired all the same.
LoseSettlement(p, k) ==
    /\ pc[p][k] \in {"built", "broken"}
    /\ faults < MaxFaults /\ faults' = faults + 1
    /\ Go(p, k, "retiring")
    /\ \/ UNCHANGED flights
       \/ pc[p][k] = "built" /\ flights' = SettledAs(p, k, "failed")
    /\ UNCHANGED <<alive, requests, slots, adopted, published, failures>>

\* A process exits or is killed: its rows stay.
Exit(p) ==
    /\ p \in alive
    /\ alive' = alive \ {p}
    /\ pc' = [pc EXCEPT ![p] = [k \in Keys |-> "idle"]]
    /\ adopted' = [k \in Keys |-> IF pc[p][k] \in Producing THEN Lowest ELSE adopted[k]]
    /\ UNCHANGED <<requests, flights, slots, published, failures, faults>>

-----------------------------------------------------------------------------
Init ==
    /\ alive = Owners
    /\ pc = [p \in Owners |-> [k \in Keys |-> "idle"]]
    /\ requests = [p \in Owners |-> [k \in Keys |-> NoRequest]]
    /\ flights = [k \in Keys |-> NoFlight]
    /\ slots = <<>>
    /\ adopted = [k \in Keys |-> Lowest]
    /\ published = {} /\ failures = 0 /\ faults = 0

ProducerStep(p, k) == Produce(p, k) \/ AdoptDemand(p, k) \/ Start(p, k) \/ Settle(p, k)
RequestStep(p, k) == Observe(p, k) \/ Retire(p, k)

Next ==
    \/ Refresh
    \/ \E p \in Owners : Exit(p)
    \/ \E p \in Owners, k \in Keys :
        \/ RequestStep(p, k) \/ ProducerStep(p, k)
        \/ Withdraw(p, k) \/ Compile(p, k)
        \/ Break(p, k) \/ LoseSettlement(p, k)
        \/ \E rank \in Ranks : Request(p, k, rank) \/ Promote(p, k, rank)

Spec == Init /\ [][Next]_vars

\* A live process looks at the tables again and again and finishes what it
\* began.  A compilation may take for ever: the tables know no timeout.
\* Nothing obliges a process to ask, to withdraw or to exit.
Fairness ==
    /\ WF_vars(Refresh)
    /\ \A w \in Wanted : WF_vars(RequestStep(w[1], w[2]) \/ ProducerStep(w[1], w[2]))

LiveSpec == Spec /\ Fairness

-----------------------------------------------------------------------------
\* Every variable holds a value of its kind.
BuildTypeOK ==
    /\ alive \subseteq Owners /\ published \subseteq Keys
    /\ pc \in [Owners -> [Keys -> Producing \cup {"idle", "observing", "retiring"}]]
    /\ requests \in [Owners -> [Keys -> Ranks \cup {NoRequest}]]
    /\ flights \in [Keys -> {NoFlight} \cup
           [state : {"running", "complete", "failed"}, owner : Owners]]
    /\ slots \in Seq([key : Keys, owner : Owners, rank : Ranks, running : BOOLEAN])
    /\ adopted \in [Keys -> 0..2]
    /\ failures \in Nat /\ faults \in Nat

\* A key is compiled by one live process at a time, and never once the cache
\* holds its result.
CompiledOnce ==
    \A k \in Keys :
        LET compilers == {p \in Owners : pc[p][k] = "compiling"} IN
        compilers # {} => k \notin published /\ Cardinality(compilers) = 1

\* A waiter never loses the flight it was told to wait for, although every
\* process retires settled flights and the requests of dead processes.
WaiterHasReceipt ==
    \A p \in Owners, k \in Keys :
        pc[p][k] = "observing" => requests[p][k] # NoRequest /\ flights[k] # NoFlight

\* The slots that run fit the budget of each process among them, whatever the
\* others were configured with, and leave its lane for interactive builds; and
\* nobody compiles without a running slot.
BudgetOfEachProcess ==
    /\ \A p \in Owners, k \in Keys : pc[p][k] = "compiling" => Admitted(p, k)
    /\ LET running == {i \in DOMAIN slots : slots[i].running} IN
       \A i \in running :
           LET capacity == Capacity[slots[i].owner] IN
           /\ Cardinality(running) <= capacity
           /\ Cardinality({j \in running : slots[j].rank # 0}) <= AtLeastOne(capacity - 1)

CompilationsEnd == \A w \in Wanted : []<>(pc[w[1]][w[2]] # "compiling")

\* If no compilation takes for ever, every request is answered, although the
\* process that compiles for it may exit: unless a settlement was lost.
BuildIsAnswered ==
    CompilationsEnd =>
        \A w \in Wanted :
            LET waits == pc[w[1]][w[2]] = "observing" IN waits ~> ~waits \/ faults > 0

\* A queued compilation is raised to the strongest request that waits for it,
\* from whatever process, also while the slots are taken for ever.
DemandReachesSlot ==
    \A w \in Wanted :
        LET lagging == /\ w[1] \in alive
                       /\ \E i \in DOMAIN slots : /\ SlotOf(slots[i], w[1], w[2])
                                                 /\ ~slots[i].running
                                                 /\ slots[i].rank > Demand(w[2])
        IN  lagging ~> ~lagging
=============================================================================
