------------------------- MODULE SharedBuildsProofs -------------------------
(***************************************************************************)
(* Proofs about SharedBuilds, for any processes, keys, capacities and      *)
(* bounds.  FlightInv, of the election: no waiter loses its flight, and no *)
(* key is compiled twice.  SlotsInv, on top of it, of the queue of slots:  *)
(* the slots that run fit every budget, and nobody compiles without one.   *)
(***************************************************************************)
EXTENDS SharedBuilds, FiniteSetTheorems, TLAPS

Stages == Producing \cup {"idle", "observing", "retiring"}
FlightRows == {NoFlight} \cup [state : {"running", "complete", "failed"}, owner : Owners]
Running(p) == [state |-> "running", owner |-> p]

TablesOK ==
    /\ alive \subseteq Owners
    /\ pc \in [Owners -> [Keys -> Stages]]
    /\ requests \in [Owners -> [Keys -> Ranks \cup {NoRequest}]]
    /\ flights \in [Keys -> FlightRows]

\* The rows and the stage of one process and key.
RequestInv(p, k) ==
    /\ pc[p][k] # "idle" =>
          p \in alive /\ requests[p][k] # NoRequest /\ flights[k] # NoFlight
    /\ p \in alive /\ pc[p][k] = "idle" => requests[p][k] = NoRequest
    /\ pc[p][k] \in Producing => flights[k] = Running(p)
    /\ pc[p][k] \in {"queued", "compiling"} => k \notin published

FlightInv == TablesOK /\ \A p \in Owners, k \in Keys : RequestInv(p, k)

-----------------------------------------------------------------------------
\* A settled flight stays while somebody requests it, a running one always.
LEMMA RetiredKeeps ==
    ASSUME NEW fl \in [Keys -> FlightRows], NEW rq
    PROVE  /\ Retired(fl, rq) \in [Keys -> FlightRows]
           /\ \A k \in Keys :
                  /\ fl[k].state = "running" => Retired(fl, rq)[k] = fl[k]
                  /\ Requesters(rq, k) # {} => Retired(fl, rq)[k] = fl[k]
                  /\ fl[k].state # "running" /\ Requesters(rq, k) = {} =>
                         Retired(fl, rq)[k] = NoFlight
BY DEF Retired, FlightRows

\* What reap leaves: the requests and the running flights of live processes.
LEMMA LiveTables ==
    ASSUME FlightInv
    PROVE  /\ LiveRequests \in [Owners -> [Keys -> Ranks \cup {NoRequest}]]
           /\ LiveFlights \in [Keys -> FlightRows]
           /\ \A p \in alive, k \in Keys :
                  /\ LiveRequests[p][k] = requests[p][k]
                  /\ requests[p][k] # NoRequest /\ flights[k] # NoFlight =>
                         LiveFlights[k] # NoFlight
                  /\ flights[k] = Running(p) => LiveFlights[k] = flights[k]
           /\ \A k \in Keys : LiveFlights[k].state # "running" /\ Requesters(LiveRequests, k) = {} =>
                                  LiveFlights[k] = NoFlight
<1> DEFINE Ended == [k \in Keys |-> IF flights[k].state = "running" /\ flights[k].owner \notin alive
                            THEN [flights[k] EXCEPT !.state = "failed"] ELSE flights[k]]
<1>1. LiveRequests \in [Owners -> [Keys -> Ranks \cup {NoRequest}]]
  BY DEF FlightInv, TablesOK, LiveRequests
<1>2. \A p \in alive, k \in Keys : LiveRequests[p][k] = requests[p][k]
  BY DEF FlightInv, TablesOK, LiveRequests
<1>3. Ended \in [Keys -> FlightRows]
  BY DEF FlightInv, TablesOK, FlightRows, NoFlight
<1>4. \A k \in Keys : flights[k] # NoFlight => Ended[k] # NoFlight
  BY DEF FlightInv, TablesOK, FlightRows, NoFlight
<1>5. \A p \in alive, k \in Keys : flights[k] = Running(p) => Ended[k] = flights[k]
  BY DEF Running
<1>6. LiveFlights = Retired(Ended, LiveRequests)
  BY DEF LiveFlights
<1> HIDE DEF Ended
<1>7. \A p \in alive, k \in Keys : requests[p][k] # NoRequest => Requesters(LiveRequests, k) # {}
  BY <1>2 DEF FlightInv, TablesOK, Requesters
<1>8. \A p \in alive, k \in Keys : flights[k] = Running(p) => Ended[k].state = "running"
  BY <1>5 DEF Running
<1>9. \A k \in Keys : LiveFlights[k].state # "running" /\ Requesters(LiveRequests, k) = {} =>
                          LiveFlights[k] = NoFlight
  <2> TAKE k \in Keys
  <2>1. CASE Ended[k].state = "running"
    BY <1>3, <1>6, <2>1, RetiredKeeps
  <2>2. CASE Ended[k].state # "running"
    BY <1>3, <1>6, <2>2, RetiredKeeps
  <2> QED  BY <2>1, <2>2
<1> QED
  BY <1>1, <1>2, <1>3, <1>4, <1>5, <1>6, <1>7, <1>8, <1>9, RetiredKeeps

-----------------------------------------------------------------------------
LEMMA InitInv == Init => FlightInv
BY DEF Init, FlightInv, TablesOK, RequestInv, Stages, Producing, FlightRows, NoFlight, NoRequest

\* Go moves one process with one key.
LEMMA GoKeeps ==
    ASSUME TablesOK, NEW p \in Owners, NEW k \in Keys, NEW next \in Stages, Go(p, k, next)
    PROVE  /\ pc' \in [Owners -> [Keys -> Stages]]
           /\ pc'[p][k] = next
           /\ \A q \in Owners, j \in Keys : q # p \/ j # k => pc'[q][j] = pc[q][j]
BY DEF TablesOK, Go

\* A process moves on with one key: the rows stay, a producer stays a producer.
LEMMA MoveKeeps ==
    ASSUME FlightInv, NEW p \in Owners, NEW k \in Keys, NEW next \in Stages \ {"idle"},
           pc[p][k] # "idle", Go(p, k, next),
           UNCHANGED <<alive, requests, flights>>,
           next \in Producing => pc[p][k] \in Producing,
           next \in {"queued", "compiling"} =>
               pc[p][k] \in {"queued", "compiling"} \/ k \notin published,
           \/ UNCHANGED published
           \/ /\ pc[p][k] = "compiling" /\ next \notin {"queued", "compiling"}
              /\ published' = published \cup {k}
    PROVE  FlightInv'
<1>1. pc' \in [Owners -> [Keys -> Stages]]
  BY GoKeeps DEF FlightInv
<1>2. pc'[p][k] = next /\ \A q \in Owners, j \in Keys : q # p \/ j # k => pc'[q][j] = pc[q][j]
  BY GoKeeps DEF FlightInv
<1>3. TablesOK'
  BY <1>1 DEF FlightInv, TablesOK, FlightRows
<1>4. RequestInv(p, k)'
  BY <1>2 DEF FlightInv, RequestInv, Producing
<1>5. ASSUME NEW q \in Owners, NEW j \in Keys, q # p \/ j # k
      PROVE  RequestInv(q, j)'
  <2>1. pc'[q][j] = pc[q][j] /\ RequestInv(q, j) /\ RequestInv(p, k)
    BY <1>2, <1>5 DEF FlightInv
  <2>2. CASE UNCHANGED published
    BY <2>1, <2>2 DEF RequestInv
  <2>3. CASE pc[p][k] = "compiling" /\ published' = published \cup {k}
    <3>1. pc[q][j] \in {"queued", "compiling"} => j # k
      BY <1>5, <2>1, <2>3 DEF RequestInv, Producing, Running
    <3> QED  BY <2>1, <2>3, <3>1 DEF RequestInv
  <2> QED  BY <2>2, <2>3
<1> QED
  BY <1>3, <1>4, <1>5 DEF FlightInv

\* Reaping the dead leaves the living as they are.
LEMMA RefreshKeeps == ASSUME FlightInv, Refresh PROVE FlightInv'
<1> USE DEF Refresh
<1>1. TablesOK'
  BY LiveTables DEF FlightInv, TablesOK, FlightRows
<1>2. ASSUME NEW p \in Owners, NEW k \in Keys PROVE RequestInv(p, k)'
  <2>1. RequestInv(p, k)
    BY DEF FlightInv
  <2>2. CASE p \in alive
    BY <2>1, <2>2, LiveTables DEF RequestInv, Running
  <2>3. CASE p \notin alive
    BY <2>1, <2>3 DEF RequestInv, Producing
  <2> QED  BY <2>2, <2>3
<1> QED
  BY <1>1, <1>2 DEF FlightInv

\* A new request: its process compiles only if the flight is its own and new.
LEMMA RequestKeeps ==
    ASSUME FlightInv, NEW p \in Owners, NEW k \in Keys, NEW rank \in Ranks, Request(p, k, rank)
    PROVE  FlightInv'
<1>1. rank # NoRequest
  BY BuildsAssumption DEF NoRequest
<1>2. TablesOK
  BY DEF FlightInv
<1>3. requests' \in [Owners -> [Keys -> Ranks \cup {NoRequest}]]
  BY LiveTables DEF Request
<1>4. /\ requests'[p][k] = rank
      /\ \A q \in Owners, j \in Keys : q # p \/ j # k => requests'[q][j] = LiveRequests[q][j]
  BY LiveTables DEF Request
<1>5. flights' \in [Keys -> FlightRows]
  BY LiveTables DEF Request, FlightRows
<1>6. /\ flights'[k] = IF LiveFlights[k] = NoFlight THEN Running(p) ELSE LiveFlights[k]
      /\ \A j \in Keys : j # k => flights'[j] = LiveFlights[j]
  BY LiveTables DEF Request, Running
<1>7. /\ pc' \in [Owners -> [Keys -> Stages]]
      /\ pc'[p][k] \in {"producing", "observing"}
      /\ \A q \in Owners, j \in Keys : q # p \/ j # k => pc'[q][j] = pc[q][j]
  <2>1. Go(p, k, "producing") \/ Go(p, k, "observing")
    BY DEF Request
  <2>2. "producing" \in Stages /\ "observing" \in Stages
    BY DEF Stages, Producing
  <2> QED  BY <1>2, <2>1, <2>2, GoKeeps
<1>8. TablesOK'
  BY <1>2, <1>3, <1>5, <1>7 DEF Request, TablesOK, FlightRows
<1>9. LiveRequests[p][k] = NoRequest
  BY LiveTables DEF Request, FlightInv, RequestInv
<1>10. pc'[p][k] = "producing" => flights'[k] = Running(p)
  <2> SUFFICES ASSUME Elected(p, k, flights', requests') PROVE flights'[k] = Running(p)
    BY <1>2 DEF Request, TablesOK, Go
  <2>1. Requesters(LiveRequests, k) = {}
    BY <1>4, <1>9 DEF Elected, Requesters
  <2>2. CASE LiveFlights[k] = NoFlight
    BY <1>6, <2>2
  <2>3. CASE LiveFlights[k] # NoFlight
    <3>1. LiveFlights[k].state = "running" /\ LiveFlights[k] \in FlightRows
      BY <2>1, <2>3, LiveTables
    <3>2. LiveFlights[k].owner = p
      BY <1>6, <2>3 DEF Elected
    <3> QED  BY <1>6, <2>3, <3>1, <3>2 DEF FlightRows, Running
  <2> QED  BY <2>2, <2>3
<1>11. flights'[k] # NoFlight
  BY <1>6 DEF Running, NoFlight
<1>12. RequestInv(p, k)'
  BY <1>1, <1>4, <1>7, <1>10, <1>11 DEF Request, RequestInv, Producing
<1>13. ASSUME NEW q \in Owners, NEW j \in Keys, q # p \/ j # k
       PROVE  RequestInv(q, j)'
  <2>1. pc'[q][j] = pc[q][j] /\ requests'[q][j] = LiveRequests[q][j] /\ RequestInv(q, j)
    BY <1>4, <1>7, <1>13 DEF FlightInv
  <2>2. CASE q \in alive
    <3>1. LiveRequests[q][j] = requests[q][j]
      BY <2>2, LiveTables
    <3>2. pc[q][j] # "idle" => flights'[j] # NoFlight
      BY <1>6, <1>11, <2>1, <2>2, LiveTables DEF RequestInv
    <3>3. flights[j] = Running(q) => flights'[j] = Running(q)
      BY <1>6, <2>2, LiveTables DEF Running, NoFlight
    <3> QED  BY <2>1, <2>2, <3>1, <3>2, <3>3 DEF Request, RequestInv
  <2>3. CASE q \notin alive
    BY <2>1, <2>3 DEF Request, RequestInv, Producing
  <2> QED  BY <2>2, <2>3
<1> QED
  BY <1>8, <1>12, <1>13 DEF FlightInv

\* Retiring one request leaves the flights that others wait for.
LEMMA RetireKeeps ==
    ASSUME FlightInv, NEW p \in Owners, NEW k \in Keys, Retire(p, k)
    PROVE  FlightInv'
<1>1. TablesOK
  BY DEF FlightInv
<1>2. /\ requests' \in [Owners -> [Keys -> Ranks \cup {NoRequest}]]
      /\ requests'[p][k] = NoRequest
      /\ \A q \in Owners, j \in Keys : q # p \/ j # k => requests'[q][j] = requests[q][j]
  BY <1>1 DEF Retire, TablesOK
<1>3. /\ pc' \in [Owners -> [Keys -> Stages]]
      /\ pc'[p][k] = "idle"
      /\ \A q \in Owners, j \in Keys : q # p \/ j # k => pc'[q][j] = pc[q][j]
  BY <1>1, GoKeeps DEF Retire, Stages
<1>4. /\ flights' \in [Keys -> FlightRows]
      /\ \A j \in Keys : /\ flights[j].state = "running" => flights'[j] = flights[j]
                         /\ Requesters(requests', j) # {} => flights'[j] = flights[j]
  BY <1>1, RetiredKeeps DEF Retire, TablesOK
<1>5. TablesOK'
  BY <1>1, <1>2, <1>3, <1>4 DEF Retire, TablesOK, FlightRows
<1>6. RequestInv(p, k)'
  BY <1>2, <1>3 DEF RequestInv, Producing
<1>7. ASSUME NEW q \in Owners, NEW j \in Keys, q # p \/ j # k
      PROVE  RequestInv(q, j)'
  <2>1. pc'[q][j] = pc[q][j] /\ requests'[q][j] = requests[q][j] /\ RequestInv(q, j)
    BY <1>2, <1>3, <1>7 DEF FlightInv
  <2>2. requests[q][j] # NoRequest => flights'[j] = flights[j]
    BY <1>4, <2>1 DEF Requesters
  <2>3. flights[j] = Running(q) => flights'[j] = flights[j]
    BY <1>4 DEF Running
  <2> QED  BY <2>1, <2>2, <2>3 DEF Retire, RequestInv
<1> QED
  BY <1>5, <1>6, <1>7 DEF FlightInv

\* Settling ends the flight of this process and no other.
LEMMA SettleKeeps ==
    ASSUME FlightInv, NEW p \in Owners, NEW k \in Keys, NEW outcome \in {"complete", "failed"},
           pc[p][k] \in {"built", "broken"}, Go(p, k, "retiring"),
           flights' = SettledAs(p, k, outcome), UNCHANGED <<alive, requests, published>>
    PROVE  FlightInv'
<1>1. TablesOK
  BY DEF FlightInv
<1>2. flights[k] = [state |-> "running", owner |-> p]
  BY DEF FlightInv, RequestInv, Producing, Running
<1>3. /\ pc' \in [Owners -> [Keys -> Stages]]
      /\ pc'[p][k] = "retiring"
      /\ \A q \in Owners, j \in Keys : q # p \/ j # k => pc'[q][j] = pc[q][j]
  BY <1>1, GoKeeps DEF Stages
<1>4. flights' = [flights EXCEPT ![k].state = outcome]
  BY <1>2 DEF SettledAs
<1>5. \A j \in Keys : j # k => flights'[j] = flights[j]
  BY <1>1, <1>4 DEF TablesOK
<1>6. /\ flights' \in [Keys -> FlightRows]
      /\ flights'[k] # NoFlight
  <2>1. flights'[k] = [flights[k] EXCEPT !.state = outcome]
    BY <1>1, <1>4 DEF TablesOK
  <2>2. flights'[k] = [state |-> outcome, owner |-> p]
    BY <1>2, <2>1
  <2>3. flights'[k] \in FlightRows /\ flights'[k] # NoFlight
    BY <2>2 DEF FlightRows, NoFlight
  <2>4. flights' = [j \in Keys |-> flights'[j]]
    BY <1>1, <1>4 DEF TablesOK
  <2> QED  BY <1>1, <1>5, <2>3, <2>4 DEF TablesOK
<1>7. TablesOK'
  BY <1>1, <1>3, <1>6 DEF TablesOK, FlightRows
<1>8. RequestInv(p, k)'
  BY <1>3, <1>6 DEF FlightInv, RequestInv, Producing
<1>9. ASSUME NEW q \in Owners, NEW j \in Keys, q # p \/ j # k
      PROVE  RequestInv(q, j)'
  <2>1. pc'[q][j] = pc[q][j] /\ RequestInv(q, j)
    BY <1>3, <1>9 DEF FlightInv
  <2>2. flights[j] = Running(q) => j # k
    BY <1>2, <1>9 DEF Running
  <2> QED  BY <1>5, <1>6, <2>1, <2>2 DEF RequestInv
<1> QED
  BY <1>7, <1>8, <1>9 DEF FlightInv

\* A more urgent request is a request; a process that exits owns no stage.
LEMMA PromoteKeeps ==
    ASSUME FlightInv, NEW p \in Owners, NEW k \in Keys, NEW rank \in Ranks, Promote(p, k, rank)
    PROVE  FlightInv'
<1> USE DEF Promote
<1>1. rank # NoRequest /\ TablesOK
  BY BuildsAssumption DEF NoRequest, FlightInv
<1>2. /\ requests' \in [Owners -> [Keys -> Ranks \cup {NoRequest}]]
      /\ requests'[p][k] = rank
      /\ \A q \in Owners, j \in Keys : q # p \/ j # k => requests'[q][j] = requests[q][j]
  BY <1>1 DEF TablesOK
<1>3. TablesOK'
  BY <1>1, <1>2 DEF TablesOK, FlightRows
<1>4. RequestInv(p, k)'
  BY <1>1, <1>2 DEF FlightInv, RequestInv, Producing
<1>5. \A q \in Owners, j \in Keys : q # p \/ j # k => RequestInv(q, j)'
  BY <1>2 DEF FlightInv, RequestInv
<1> QED
  BY <1>3, <1>4, <1>5 DEF FlightInv

LEMMA ExitKeeps == ASSUME FlightInv, NEW p \in Owners, Exit(p) PROVE FlightInv'
<1> USE DEF Exit
<1>1. TablesOK
  BY DEF FlightInv
<1>2. /\ pc' \in [Owners -> [Keys -> Stages]]
      /\ \A k \in Keys : pc'[p][k] = "idle"
      /\ \A q \in Owners \ {p} : pc'[q] = pc[q]
  BY <1>1 DEF TablesOK, Stages
<1>3. TablesOK'
  BY <1>1, <1>2 DEF TablesOK, FlightRows
<1>4. ASSUME NEW q \in Owners, NEW k \in Keys PROVE RequestInv(q, k)'
  <2>1. CASE q = p
    BY <1>2, <2>1 DEF RequestInv, Producing
  <2>2. CASE q # p
    BY <1>2, <2>2 DEF FlightInv, RequestInv
  <2> QED  BY <2>1, <2>2
<1> QED
  BY <1>3, <1>4 DEF FlightInv

-----------------------------------------------------------------------------
\* The steps of one process with one key.
LEMMA StepKeeps ==
    ASSUME FlightInv, NEW p \in Owners, NEW k \in Keys,
           \/ RequestStep(p, k) \/ ProducerStep(p, k)
           \/ Withdraw(p, k) \/ Compile(p, k)
           \/ Break(p, k) \/ LoseSettlement(p, k)
    PROVE  FlightInv'
<1>1. CASE Observe(p, k) \/ Withdraw(p, k) \/ (LoseSettlement(p, k) /\ UNCHANGED flights)
  <2>1. Go(p, k, "retiring") /\ UNCHANGED <<alive, requests, flights, published>>
    BY <1>1 DEF Observe, Withdraw, LoseSettlement
  <2>2. pc[p][k] # "idle" /\ "retiring" \in Stages \ {"idle"}
    BY <1>1 DEF Observe, Withdraw, LoseSettlement, Stages
  <2> QED  BY <2>1, <2>2, MoveKeeps DEF Producing
<1>2. CASE Produce(p, k)
  <2>1. PICK next \in {"built", "queued"} :
            Go(p, k, next) /\ (next = "queued" => k \notin published)
    BY <1>2 DEF Produce, Rechecked
  <2>2. pc[p][k] \in Producing \ {"idle"} /\ next \in Stages \ {"idle"}
    BY <1>2 DEF Produce, Stages, Producing
  <2>3. UNCHANGED <<alive, requests, flights, published>>
    BY <1>2 DEF Produce
  <2> QED  BY <2>1, <2>2, <2>3, MoveKeeps
<1>3. CASE Start(p, k)
  <2>1. Go(p, k, "compiling") /\ UNCHANGED <<alive, requests, flights, published>>
    BY <1>3 DEF Start
  <2>2. pc[p][k] = "queued" /\ "queued" \in Producing /\ "compiling" \in Stages \ {"idle"}
    BY <1>3 DEF Start, Stages, Producing
  <2> QED  BY <2>1, <2>2, MoveKeeps
<1>4. CASE Compile(p, k)
  <2>1. /\ Go(p, k, "built") /\ UNCHANGED <<alive, requests, flights>>
        /\ published' = published \cup {k}
    BY <1>4 DEF Compile
  <2>2. pc[p][k] = "compiling" /\ "compiling" \in Producing /\ "built" \in Stages \ {"idle"}
    BY <1>4 DEF Compile, Stages, Producing
  <2> QED  BY <2>1, <2>2, MoveKeeps
<1>5. CASE Break(p, k)
  <2>1. Go(p, k, "broken") /\ UNCHANGED <<alive, requests, flights, published>>
    BY <1>5 DEF Break
  <2>2. pc[p][k] \in Producing \ {"idle"} /\ "broken" \in Stages \ {"idle"}
    BY <1>5 DEF Break, Stages, Producing
  <2> QED  BY <2>1, <2>2, MoveKeeps
<1>6. CASE AdoptDemand(p, k)
  BY <1>6 DEF AdoptDemand, FlightInv, TablesOK, RequestInv
<1>7. CASE Settle(p, k) \/ (LoseSettlement(p, k) /\ ~UNCHANGED flights)
  <2>1. PICK outcome \in {"complete", "failed"} : flights' = SettledAs(p, k, outcome)
    BY <1>7 DEF Settle, LoseSettlement
  <2>2. /\ pc[p][k] \in {"built", "broken"} /\ Go(p, k, "retiring")
        /\ UNCHANGED <<alive, requests, published>>
    BY <1>7 DEF Settle, LoseSettlement
  <2> QED  BY <2>1, <2>2, SettleKeeps
<1> QED
  BY <1>1, <1>2, <1>3, <1>4, <1>5, <1>6, <1>7, RetireKeeps DEF RequestStep, ProducerStep

LEMMA NextKeeps == ASSUME FlightInv, [Next]_vars PROVE FlightInv'
<1>1. CASE Refresh
  BY <1>1, RefreshKeeps
<1>2. CASE \E p \in Owners : Exit(p)
  BY <1>2, ExitKeeps
<1>3. ASSUME NEW p \in Owners, NEW k \in Keys,
             \/ RequestStep(p, k) \/ ProducerStep(p, k)
             \/ Withdraw(p, k) \/ Compile(p, k)
             \/ Break(p, k) \/ LoseSettlement(p, k)
      PROVE  FlightInv'
  BY <1>3, StepKeeps
<1>4. ASSUME NEW p \in Owners, NEW k \in Keys, NEW rank \in Ranks,
             Request(p, k, rank) \/ Promote(p, k, rank)
      PROVE  FlightInv'
  BY <1>4, RequestKeeps, PromoteKeeps
<1>5. CASE UNCHANGED vars
  BY <1>5 DEF vars, FlightInv, TablesOK, RequestInv
<1> QED
  BY <1>1, <1>2, <1>3, <1>4, <1>5 DEF Next

LEMMA FlightInvariant == Spec => []FlightInv
BY InitInv, NextKeeps, PTL DEF Spec

\* Every process retires settled flights and reaps the dead: none of them
\* takes the flight, or the request, of a waiter (run, reap, retireSettled).
THEOREM WaitersKeepTheirFlight == Spec => []WaiterHasReceipt
<1>1. FlightInv => WaiterHasReceipt
  BY DEF FlightInv, RequestInv, WaiterHasReceipt
<1> QED
  BY <1>1, FlightInvariant, PTL

\* The election of run and the second lookup of produce: a key has one
\* compiler among all processes, and none once its result is published.
THEOREM KeysAreCompiledOnce == Spec => []CompiledOnce
<1>1. FlightInv => CompiledOnce
  <2> SUFFICES ASSUME FlightInv, NEW k \in Keys, NEW p \in Owners, pc[p][k] = "compiling"
               PROVE  k \notin published /\ Cardinality({q \in Owners : pc[q][k] = "compiling"}) = 1
    BY DEF CompiledOnce
  <2>1. k \notin published
    BY DEF FlightInv, RequestInv
  <2>2. \A q \in Owners : pc[q][k] = "compiling" => flights[k] = Running(q)
    BY DEF FlightInv, RequestInv, Producing
  <2>3. \A q \in Owners : pc[q][k] = "compiling" => q = p
    <3>1. \A q \in Owners : Running(q).owner = q
      BY DEF Running
    <3> QED  BY <2>2, <3>1
  <2>4. {q \in Owners : pc[q][k] = "compiling"} = {p}
    BY <2>3
  <2> QED  BY <2>1, <2>4, FS_Singleton
<1> QED
  BY <1>1, FlightInvariant, PTL
-----------------------------------------------------------------------------
(* Rows and positions *)

\* Naturals are well ordered.
LEMMA LeastNatural ==
    ASSUME NEW T \in SUBSET Nat, T # {}
    PROVE  \E t \in T : \A u \in T : t <= u
<1> DEFINE Below(t) == 0 .. t
           Order == StrictSubsetOrdering(Nat)
<1>1. IsWellFoundedOn(Order, FiniteSubsetsOf(Nat))
  BY FS_StrictSubsetOrderingWellFounded
<1>2. {Below(t) : t \in T} \subseteq FiniteSubsetsOf(Nat) /\ {Below(t) : t \in T} # {}
  <2>1. \A t \in T : IsFiniteSet(Below(t)) /\ Below(t) \in SUBSET Nat
    BY FS_Interval
  <2> HIDE DEF Below
  <2> QED BY <2>1 DEF FiniteSubsetsOf
<1>3. PICK x \in {Below(t) : t \in T} : \A y \in {Below(t) : t \in T} : ~(<<y, x>> \in Order)
  <2> HIDE DEF Below, Order
  <2> QED BY <1>1, <1>2, WFMin
<1>4. PICK t \in T : x = Below(t)
  BY <1>3
<1>5. ASSUME NEW u \in T PROVE t <= u
  <2>1. ~(<<Below(u), Below(t)>> \in Order)
    BY <1>3, <1>4
  <2>2. Below(u) \in SUBSET Nat /\ Below(t) \in SUBSET Nat
    OBVIOUS
  <2>3. ~(Below(u) \subseteq Below(t) /\ Below(u) # Below(t))
    BY <2>1, <2>2 DEF StrictSubsetOrdering
  <2>4. CASE u < t
    <3>1. Below(u) \subseteq Below(t) /\ t \in Below(t) /\ t \notin Below(u)
      BY <2>4
    <3> QED BY <2>3, <3>1
  <2> QED BY <2>4
<1> QED BY <1>5

\* The least of some naturals.
LEMMA MinOfNaturals ==
    ASSUME NEW S \in SUBSET Nat, S # {}
    PROVE  Min(S) \in S /\ \A x \in S : Min(S) <= x
BY LeastNatural DEF Min

\* The positions of a sequence are counted.
LEMMA PositionsCounted ==
    ASSUME NEW R, NEW rows \in Seq(R), NEW I \in SUBSET (DOMAIN rows)
    PROVE  IsFiniteSet(I) /\ Cardinality(I) \in Nat
<1>1. IsFiniteSet(DOMAIN rows)
  BY FS_Interval
<1> QED
  BY <1>1, FS_Subset, FS_CardinalityType

\* A smaller set of positions is counted by a smaller number.
LEMMA PositionsOrdered ==
    ASSUME NEW R, NEW rows \in Seq(R), NEW I \in SUBSET (DOMAIN rows), NEW J \in SUBSET I
    PROVE  /\ Cardinality(J) \in Nat /\ Cardinality(I) \in Nat
           /\ Cardinality(J) <= Cardinality(I)
           /\ J # I => Cardinality(J) < Cardinality(I)
<1>1. IsFiniteSet(I) /\ Cardinality(I) \in Nat
  BY PositionsCounted
<1>2. IsFiniteSet(J) /\ Cardinality(J) \in Nat /\ Cardinality(J) <= Cardinality(I)
  BY <1>1, FS_Subset, FS_CardinalityType
<1>3. Cardinality(I) = Cardinality(J) => I = J
  BY <1>1, FS_Subset
<1> QED
  BY <1>1, <1>2, <1>3

\* Each position has its place among the positions, and each place its position.
Place(I, i) == Cardinality({j \in I : j <= i})

LEMMA Places ==
    ASSUME NEW R, NEW rows \in Seq(R), NEW I \in SUBSET (DOMAIN rows)
    PROVE  /\ \A i \in I : Place(I, i) \in 1..Cardinality(I)
           /\ \A i, j \in I : Place(I, i) = Place(I, j) => i = j
           /\ \A n \in 1..Cardinality(I) : \E i \in I : Place(I, i) = n
<1> DEFINE upTo(i) == {j \in I : j <= i}
           place == [i \in I |-> Place(I, i)]
<1>1. IsFiniteSet(I) /\ Cardinality(I) \in Nat /\ I \subseteq Nat
  BY PositionsCounted
<1>2. ASSUME NEW i \in I PROVE Place(I, i) \in 1..Cardinality(I)
  <2>1. upTo(i) \in SUBSET I /\ i \in upTo(i)
    BY <1>1
  <2>2. IsFiniteSet(upTo(i)) /\ Cardinality(upTo(i)) \in Nat
        /\ Cardinality(upTo(i)) <= Cardinality(I)
    BY <1>1, <2>1, FS_Subset, FS_CardinalityType
  <2>3. Cardinality(upTo(i)) # 0
    BY <2>1, <2>2, FS_EmptySet
  <2> QED  BY <1>1, <2>2, <2>3 DEF Place
<1>3. ASSUME NEW i \in I, NEW j \in I, i < j PROVE Place(I, i) < Place(I, j)
  <2>1. upTo(i) \in SUBSET upTo(j) /\ upTo(j) \in SUBSET (DOMAIN rows) /\ upTo(i) # upTo(j)
    BY <1>1, <1>3
  <2> QED  BY <2>1, PositionsOrdered DEF Place
<1>4. \A i, j \in I : Place(I, i) = Place(I, j) => i = j
  <2> SUFFICES ASSUME NEW i \in I, NEW j \in I, i # j PROVE Place(I, i) # Place(I, j)
    OBVIOUS
  <2>1. i < j \/ j < i
    BY <1>1
  <2>2. Place(I, i) \in Nat /\ Place(I, j) \in Nat
    BY <1>1, <1>2
  <2> QED  BY <1>3, <2>1, <2>2
<1>5. place \in Injection(I, 1..Cardinality(I))
  BY <1>2, <1>4 DEF Injection, IsInjective
<1>6. IsFiniteSet(1..Cardinality(I)) /\ Cardinality(1..Cardinality(I)) = Cardinality(I)
  BY <1>1, FS_Interval
<1>7. place \in Surjection(I, 1..Cardinality(I))
  BY <1>5, <1>6, FS_Injection
<1> QED
  BY <1>2, <1>4, <1>7 DEF Surjection

\* The rows that are kept, each in its place.
LEMMA KeptRows ==
    ASSUME NEW R, NEW rows \in Seq(R), NEW I \in SUBSET (DOMAIN rows)
    PROVE  /\ Kept(rows, I) \in Seq(R)
           /\ DOMAIN Kept(rows, I) = {Place(I, i) : i \in I}
           /\ \A i \in I : Kept(rows, I)[Place(I, i)] = rows[i]
<1>1. /\ \A i \in I : Place(I, i) \in 1..Cardinality(I)
      /\ \A i, j \in I : Place(I, i) = Place(I, j) => i = j
      /\ \A n \in 1..Cardinality(I) : \E i \in I : Place(I, i) = n
  BY Places
<1>2. Kept(rows, I) = [n \in 1..Cardinality(I) |-> rows[CHOOSE i \in I : Place(I, i) = n]]
  BY DEF Kept, Place
<1>3. \A i \in I : (CHOOSE j \in I : Place(I, j) = Place(I, i)) = i
  BY <1>1
<1>4. \A n \in 1..Cardinality(I) : (CHOOSE i \in I : Place(I, i) = n) \in I
  BY <1>1
<1>5. Cardinality(I) \in Nat
  BY PositionsCounted
<1>6. Kept(rows, I) \in [1..Cardinality(I) -> R]
  BY <1>2, <1>4
<1> QED
  BY <1>1, <1>2, <1>3, <1>5, <1>6

\* As many of them as there were at their positions.
LEMMA KeptCounts ==
    ASSUME NEW R, NEW rows \in Seq(R), NEW I \in SUBSET (DOMAIN rows), NEW T
    PROVE  /\ Cardinality({n \in DOMAIN Kept(rows, I) : Kept(rows, I)[n] \in T}) \in Nat
           /\ Cardinality({n \in DOMAIN Kept(rows, I) : Kept(rows, I)[n] \in T})
                  <= Cardinality({i \in I : rows[i] \in T})
<1> DEFINE kept == Kept(rows, I)
           old == {i \in I : rows[i] \in T}
           new == {n \in DOMAIN kept : kept[n] \in T}
           place == [i \in old |-> Place(I, i)]
<1>1. IsFiniteSet(old) /\ Cardinality(old) \in Nat
  BY PositionsCounted
<1>2. DOMAIN kept = {Place(I, i) : i \in I} /\ \A i \in I : kept[Place(I, i)] = rows[i]
  BY KeptRows
<1>3. place \in Surjection(old, new)
  <2> HIDE DEF kept
  <2>1. place \in [old -> new]
    BY <1>2
  <2>2. \A n \in new : \E i \in old : place[i] = n
    BY <1>2
  <2> HIDE DEF old, new, place
  <2> QED  BY <2>1, <2>2 DEF Surjection
<1> QED
  BY <1>1, <1>3, FS_Surjection, FS_CardinalityType
-----------------------------------------------------------------------------
(* Admission *)

SlotRow == [key : Keys, owner : Owners, rank : Ranks, running : BOOLEAN]

\* What the rows hold.
LEMMA RowTypes ==
    ASSUME NEW queue \in Seq(SlotRow), NEW i \in DOMAIN queue
    PROVE  /\ queue[i] \in SlotRow
           /\ queue[i].key \in Keys /\ queue[i].owner \in Owners
           /\ queue[i].rank \in Ranks /\ queue[i].rank \in 0..2
           /\ queue[i].running \in BOOLEAN
           /\ Capacity[queue[i].owner] \in Nat
<1>1. queue[i] \in SlotRow
  OBVIOUS
<1> QED
  BY <1>1, BuildsAssumption DEF SlotRow

\* A row whose running flag is set or reset.
LEMMA RowRuns ==
    ASSUME NEW s \in SlotRow, NEW b \in BOOLEAN, NEW t, t = [s EXCEPT !.running = b]
    PROVE  /\ t \in SlotRow
           /\ t.key = s.key /\ t.owner = s.owner /\ t.rank = s.rank /\ t.running = b
BY DEF SlotRow

\* One element more is one more at most.
LEMMA OneMore ==
    ASSUME NEW S, NEW x, IsFiniteSet(S), NEW T \in SUBSET (S \cup {x})
    PROVE  /\ Cardinality(S) \in Nat /\ Cardinality(T) \in Nat
           /\ Cardinality(T) <= Cardinality(S) + 1
<1>1. /\ IsFiniteSet(S \cup {x}) /\ Cardinality(S) \in Nat
      /\ Cardinality(S \cup {x}) \in {Cardinality(S), Cardinality(S) + 1}
  BY FS_AddElement, FS_CardinalityType
<1>2. IsFiniteSet(T) /\ Cardinality(T) \in Nat /\ Cardinality(T) <= Cardinality(S \cup {x})
  BY <1>1, FS_Subset, FS_CardinalityType
<1> QED
  BY <1>1, <1>2

\* The greatest of some positions.
LEMMA LastPosition ==
    ASSUME NEW R, NEW rows \in Seq(R), NEW I \in SUBSET (DOMAIN rows), I # {}
    PROVE  \E i \in I : \A j \in I : j <= i
<1> DEFINE behind == {Len(rows) - i : i \in I}
<1>1. I \subseteq 1..Len(rows) /\ Len(rows) \in Nat
  OBVIOUS
<1>2. behind \in SUBSET Nat /\ behind # {}
  BY <1>1
<1>3. PICK b \in behind : \A c \in behind : b <= c
  <2> HIDE DEF behind
  <2> QED  BY <1>2, LeastNatural
<1>4. PICK i \in I : b = Len(rows) - i
  BY <1>3
<1>5. \A j \in I : Len(rows) - i <= Len(rows) - j
  BY <1>3, <1>4
<1> QED
  BY <1>1, <1>5

\* The capacity that decides is that of the most careful process among the slots.
LEMMA MostCareful ==
    ASSUME NEW queue \in Seq(SlotRow), NEW I \in SUBSET (DOMAIN queue), I # {}
    PROVE  /\ SlotCapacity(queue, I) \in Nat
           /\ \A i \in I : /\ Capacity[queue[i].owner] \in Nat
                           /\ SlotCapacity(queue, I) <= Capacity[queue[i].owner]
<1> DEFINE capacities == {Capacity[queue[i].owner] : i \in I}
<1>1. \A i \in I : Capacity[queue[i].owner] \in Nat
  BY RowTypes
<1>2. capacities \in SUBSET Nat /\ capacities # {}
  BY <1>1
<1>3. SlotCapacity(queue, I) = Min(capacities)
  BY DEF SlotCapacity
<1>4. Min(capacities) \in capacities /\ \A c \in capacities : Min(capacities) <= c
  <2> HIDE DEF capacities
  <2> QED  BY <1>2, MinOfNaturals
<1> QED
  BY <1>1, <1>2, <1>3, <1>4

\* The positions fit a capacity, and leave its lane for interactive builds.
Within(queue, A, capacity) ==
    /\ Cardinality(A) <= capacity
    /\ Cardinality({i \in A : queue[i].rank # 0}) <= AtLeastOne(capacity - 1)

\* Whoever is admitted, the running slots stay, and fit the capacity that decided.
LEMMA RankAdmitted ==
    ASSUME NEW queue \in Seq(SlotRow), NEW I \in SUBSET (DOMAIN queue),
           NEW running \in SUBSET I, NEW rank \in 0..2
    PROVE  LET A == AdmitRank(queue, I, running, rank) IN
           /\ running \subseteq A /\ A \subseteq I
           /\ A = running \/ Within(queue, A, SlotCapacity(queue, I))
<1> DEFINE A == AdmitRank(queue, I, running, rank)
           waiting == {i \in I \ running : queue[i].rank = rank}
           capacity == SlotCapacity(queue, I)
           beside(i) == running \cup {j \in waiting : j < i}
           urgent(S) == {j \in S : queue[j].rank # 0}
<1>1. A = running \cup {i \in waiting : HasBuildSlotCapacity(queue, rank, beside(i), capacity)}
  BY DEF AdmitRank
<1>2. running \subseteq A /\ A \subseteq I /\ A \ running \subseteq waiting
  BY <1>1
<1>3. ASSUME A # running PROVE Within(queue, A, capacity)
  <2> HIDE DEF A
  <2>1. A \ running \in SUBSET (DOMAIN queue) /\ A \ running # {}
    BY <1>2, <1>3
  <2>2. PICK i \in A \ running : \A j \in A \ running : j <= i
    BY <2>1, LastPosition
  <2>3. HasBuildSlotCapacity(queue, rank, beside(i), capacity) /\ i \in waiting
    BY <1>1, <2>2
  <2> DEFINE B == beside(i)
  <2>4. B \in SUBSET (DOMAIN queue) /\ A \subseteq B \cup {i} /\ i \in I
    <3>1. \A j \in A \ running : j = i \/ j < i
      BY <2>1, <2>2
    <3> QED  BY <1>2, <2>2, <3>1
  <2>5. \A j \in DOMAIN queue : queue[j].rank \in 0..2
    BY RowTypes
  <2>6. capacity \in Nat
    BY <2>4, MostCareful
  <2>7. /\ Cardinality(B) < capacity
        /\ rank = 0 \/ Cardinality(urgent(B)) < AtLeastOne(capacity - 1)
    <3>1. {j \in B : queue[j].rank >= 0} = B /\ {j \in B : queue[j].rank >= 1} = urgent(B)
      BY <2>4, <2>5
    <3> QED  BY <2>3, <3>1 DEF HasBuildSlotCapacity
  <2> HIDE DEF B, beside, waiting, capacity
  <2>8. /\ IsFiniteSet(B) /\ Cardinality(B) \in Nat
        /\ IsFiniteSet(urgent(B)) /\ Cardinality(urgent(B)) \in Nat
    BY <2>4, PositionsCounted
  <2>9. Cardinality(A) \in Nat /\ Cardinality(A) <= Cardinality(B) + 1
    BY <2>4, <2>8, OneMore
  <2>10. Cardinality(urgent(A)) <= AtLeastOne(capacity - 1)
    <3>1. CASE rank = 0
      <4>1. queue[i].rank = 0
        BY <2>3, <3>1 DEF waiting
      <4>2. urgent(A) \in SUBSET B
        BY <2>4, <4>1
      <4>3. Cardinality(urgent(A)) \in Nat /\ Cardinality(urgent(A)) <= Cardinality(B)
        BY <2>8, <4>2, FS_Subset, FS_CardinalityType
      <4> QED  BY <2>6, <2>7, <2>8, <4>3 DEF AtLeastOne
    <3>2. CASE rank # 0
      <4>1. urgent(A) \in SUBSET (urgent(B) \cup {i})
        BY <2>4
      <4>2. /\ Cardinality(urgent(A)) \in Nat
            /\ Cardinality(urgent(A)) <= Cardinality(urgent(B)) + 1
        BY <2>8, <4>1, OneMore
      <4>5. AtLeastOne(capacity - 1) \in Nat
        BY <2>6 DEF AtLeastOne
      <4> QED  BY <2>7, <2>8, <3>2, <4>2, <4>5
    <3> QED  BY <3>1, <3>2
  <2> QED  BY <2>6, <2>7, <2>8, <2>9, <2>10 DEF Within
<1> QED
  BY <1>2, <1>3

\* The budgets of the processes that run at some positions.
Budgeted(queue, I) ==
    LET running == {i \in I : queue[i].running} IN
    \A i \in running :
        LET capacity == Capacity[queue[i].owner] IN
        /\ Cardinality(running) <= capacity
        /\ Cardinality({j \in running : queue[j].rank # 0}) <= AtLeastOne(capacity - 1)

\* Admission takes no slot away and keeps the budgets.
LEMMA AdmissionKeepsBudgets ==
    ASSUME NEW queue \in Seq(SlotRow), NEW I \in SUBSET (DOMAIN queue), Budgeted(queue, I)
    PROVE  LET after == AdmitSlots(queue, I) IN
           /\ after \in Seq(SlotRow) /\ DOMAIN after = DOMAIN queue
           /\ \A i \in DOMAIN queue : /\ after[i].key = queue[i].key
                                      /\ after[i].owner = queue[i].owner
           /\ \A i \in I : queue[i].running => after[i].running
           /\ Budgeted(after, I)
<1> DEFINE running == {i \in I : queue[i].running}
           capacity == SlotCapacity(queue, I)
           interactive == AdmitRank(queue, I, running, 0)
           background == AdmitRank(queue, I, interactive, 1)
           admitted == AdmitRank(queue, I, background, 2)
           after == AdmitSlots(queue, I)
<1>1. after = [i \in DOMAIN queue |-> [queue[i] EXCEPT !.running = i \in admitted]]
  BY DEF AdmitSlots
<1>2. /\ running \subseteq admitted /\ admitted \subseteq I
      /\ admitted = running \/ Within(queue, admitted, capacity)
  <2>1. /\ running \subseteq interactive /\ interactive \subseteq I
        /\ interactive = running \/ Within(queue, interactive, capacity)
    <3>1. running \in SUBSET I /\ 0 \in 0..2
      OBVIOUS
    <3> HIDE DEF running
    <3> QED  BY <3>1, RankAdmitted
  <2> HIDE DEF interactive
  <2>2. /\ interactive \subseteq background /\ background \subseteq I
        /\ background = interactive \/ Within(queue, background, capacity)
    BY <2>1, RankAdmitted
  <2> HIDE DEF background
  <2>3. /\ background \subseteq admitted /\ admitted \subseteq I
        /\ admitted = background \/ Within(queue, admitted, capacity)
    BY <2>2, RankAdmitted
  <2> HIDE DEF admitted
  <2> QED  BY <2>1, <2>2, <2>3
<1> HIDE DEF admitted, after
<1>3. \A i \in DOMAIN queue :
          /\ after[i] \in SlotRow
          /\ after[i].key = queue[i].key /\ after[i].owner = queue[i].owner
          /\ after[i].rank = queue[i].rank /\ after[i].running = (i \in admitted)
  <2> TAKE i \in DOMAIN queue
  <2>1. /\ queue[i] \in SlotRow
        /\ after[i] = [queue[i] EXCEPT !.running = i \in admitted]
    BY <1>1, RowTypes
  <2> DEFINE b == i \in admitted
  <2>2. b \in BOOLEAN
    OBVIOUS
  <2>3. /\ after[i] \in SlotRow
        /\ after[i].key = queue[i].key /\ after[i].owner = queue[i].owner
        /\ after[i].rank = queue[i].rank /\ after[i].running = b
    <3>1. after[i] = [queue[i] EXCEPT !.running = b]
      BY <2>1
    <3> HIDE DEF b
    <3>2. queue[i] \in SlotRow
      BY <2>1
    <3>3. after[i] \in SlotRow
      BY <2>2, <3>1, <3>2, RowRuns
    <3>4. /\ after[i].key = queue[i].key /\ after[i].owner = queue[i].owner
          /\ after[i].rank = queue[i].rank
      BY <2>2, <3>1, <3>2, RowRuns
    <3>5. after[i].running = b
      BY <2>2, <3>1, <3>2, RowRuns
    <3> QED  BY <3>3, <3>4, <3>5
  <2> QED  BY <2>3
<1>4. DOMAIN after = DOMAIN queue /\ after \in Seq(SlotRow)
  <2>1. DOMAIN queue = 1..Len(queue) /\ Len(queue) \in Nat
    OBVIOUS
  <2>2. after \in [1..Len(queue) -> SlotRow]
    BY <1>1, <1>3, <2>1
  <2> QED  BY <2>1, <2>2
<1>5. {i \in I : after[i].running} = admitted
  BY <1>2, <1>3
<1>6. {j \in admitted : after[j].rank # 0} = {j \in admitted : queue[j].rank # 0}
  BY <1>2, <1>3
<1>7. \A i \in admitted : after[i].owner = queue[i].owner
  BY <1>2, <1>3
<1>8. Budgeted(after, I)
  <2>1. SUFFICES ASSUME NEW i \in admitted
                 PROVE  Within(queue, admitted, Capacity[queue[i].owner])
    BY <1>5, <1>6, <1>7 DEF Budgeted, Within
  <2>2. CASE admitted = running
    BY <2>2 DEF Budgeted, Within
  <2>3. CASE Within(queue, admitted, capacity)
    <3>1. /\ capacity \in Nat /\ Capacity[queue[i].owner] \in Nat
          /\ capacity <= Capacity[queue[i].owner]
      BY <1>2, MostCareful
    <3>2. AtLeastOne(capacity - 1) <= AtLeastOne(Capacity[queue[i].owner] - 1)
      BY <3>1 DEF AtLeastOne
    <3>3. Cardinality(admitted) \in Nat /\ Cardinality({j \in admitted : queue[j].rank # 0}) \in Nat
      BY <1>2, PositionsCounted
    <3>4. AtLeastOne(capacity - 1) \in Int /\ AtLeastOne(Capacity[queue[i].owner] - 1) \in Int
      BY <3>1 DEF AtLeastOne
    <3> HIDE DEF capacity
    <3> QED  BY <2>3, <3>1, <3>2, <3>3, <3>4 DEF Within
  <2> QED  BY <1>2, <2>2, <2>3
<1> QED
  BY <1>2, <1>3, <1>4, <1>8 DEF after
\* Deleting rows keeps the budgets, and the running slots of those that stay.
LEMMA DeletionKeepsBudgets ==
    ASSUME NEW queue \in Seq(SlotRow), NEW I \in SUBSET (DOMAIN queue), Budgeted(queue, I)
    PROVE  LET kept == Kept(queue, I) IN
           /\ kept \in Seq(SlotRow) /\ Budgeted(kept, DOMAIN kept)
           /\ \A i \in I : \E n \in DOMAIN kept : kept[n] = queue[i]
<1> DEFINE kept == Kept(queue, I)
           Runs == {s \in SlotRow : s.running}
           Urgent == {s \in SlotRow : s.running /\ s.rank # 0}
           running == {i \in I : queue[i].running}
           running2 == {n \in DOMAIN kept : kept[n].running}
<1>1. /\ kept \in Seq(SlotRow) /\ DOMAIN kept = {Place(I, i) : i \in I}
      /\ \A i \in I : kept[Place(I, i)] = queue[i]
  BY KeptRows
<1>2. \A T : /\ Cardinality({n \in DOMAIN kept : kept[n] \in T}) \in Nat
             /\ Cardinality({n \in DOMAIN kept : kept[n] \in T})
                    <= Cardinality({i \in I : queue[i] \in T})
  BY KeptCounts
<1>3. \A i \in I : queue[i] \in SlotRow /\ Capacity[queue[i].owner] \in Nat
  BY RowTypes
<1> HIDE DEF kept
<1>4. \A n \in DOMAIN kept : kept[n] \in SlotRow
  BY <1>1, RowTypes
<1>5. Budgeted(kept, DOMAIN kept)
  <2>1. running2 = {n \in DOMAIN kept : kept[n] \in Runs}
        /\ running = {i \in I : queue[i] \in Runs}
    BY <1>3, <1>4
  <2>2. /\ {n \in running2 : kept[n].rank # 0} = {n \in DOMAIN kept : kept[n] \in Urgent}
        /\ {i \in running : queue[i].rank # 0} = {i \in I : queue[i] \in Urgent}
    BY <1>3, <1>4
  <2>3. Cardinality(running2) \in Nat /\ Cardinality(running2) <= Cardinality(running)
    BY <1>2, <2>1
  <2>4. /\ Cardinality({n \in running2 : kept[n].rank # 0}) \in Nat
        /\ Cardinality({n \in running2 : kept[n].rank # 0})
               <= Cardinality({i \in running : queue[i].rank # 0})
    BY <1>2, <2>2
  <2>5. ASSUME NEW n \in running2
        PROVE  /\ Cardinality(running2) <= Capacity[kept[n].owner]
               /\ Cardinality({m \in running2 : kept[m].rank # 0})
                      <= AtLeastOne(Capacity[kept[n].owner] - 1)
    <3>1. PICK i \in I : n = Place(I, i)
      BY <1>1
    <3>2. kept[n] = queue[i] /\ i \in running
      BY <1>1, <3>1
    <3> DEFINE capacity == Capacity[queue[i].owner]
    <3>3. /\ Cardinality(running) <= capacity
          /\ Cardinality({j \in running : queue[j].rank # 0}) <= AtLeastOne(capacity - 1)
      BY <3>2 DEF Budgeted
    <3>4. /\ Cardinality(running) \in Nat
          /\ Cardinality({j \in running : queue[j].rank # 0}) \in Nat
      BY PositionsCounted
    <3>5. capacity \in Nat /\ AtLeastOne(capacity - 1) \in Nat
      BY <1>3 DEF AtLeastOne
    <3>6. Capacity[kept[n].owner] = capacity
      BY <3>2
    <3> HIDE DEF capacity, running, running2
    <3> QED  BY <2>3, <2>4, <3>3, <3>4, <3>5, <3>6
  <2> QED  BY <2>5 DEF Budgeted
<1>6. \A i \in I : \E n \in DOMAIN kept : kept[n] = queue[i]
  BY <1>1
<1> QED
  BY <1>1, <1>5, <1>6 DEF kept

\* Fewer slots need no larger budget.
LEMMA FewerSlots ==
    ASSUME NEW queue \in Seq(SlotRow), Budgeted(queue, DOMAIN queue),
           NEW I \in SUBSET (DOMAIN queue)
    PROVE  Budgeted(queue, I)
<1> DEFINE all == {i \in DOMAIN queue : queue[i].running}
           some == {i \in I : queue[i].running}
           urgent(S) == {j \in S : queue[j].rank # 0}
<1>1. /\ Cardinality(some) \in Nat /\ Cardinality(all) \in Nat
      /\ Cardinality(some) <= Cardinality(all)
  BY PositionsOrdered
<1>2. /\ Cardinality(urgent(some)) \in Nat /\ Cardinality(urgent(all)) \in Nat
      /\ Cardinality(urgent(some)) <= Cardinality(urgent(all))
  <2>1. urgent(all) \in SUBSET (DOMAIN queue) /\ urgent(some) \in SUBSET urgent(all)
    OBVIOUS
  <2> HIDE DEF urgent
  <2> QED  BY <2>1, PositionsOrdered
<1>3. ASSUME NEW i \in some
      PROVE  /\ Cardinality(some) <= Capacity[queue[i].owner]
             /\ Cardinality(urgent(some)) <= AtLeastOne(Capacity[queue[i].owner] - 1)
  <2> DEFINE capacity == Capacity[queue[i].owner]
  <2>1. /\ Cardinality(all) <= capacity
        /\ Cardinality(urgent(all)) <= AtLeastOne(capacity - 1)
    BY DEF Budgeted
  <2>2. capacity \in Nat /\ AtLeastOne(capacity - 1) \in Nat
    BY RowTypes DEF AtLeastOne
  <2> HIDE DEF all, some, urgent, capacity
  <2>3. /\ Cardinality(some) <= capacity
        /\ Cardinality(urgent(some)) <= AtLeastOne(capacity - 1)
    BY <1>1, <1>2, <2>1, <2>2
  <2> QED  BY <2>3 DEF capacity
<1> QED
  BY <1>3 DEF Budgeted

\* Slots that do not run do not count.
LEMMA SameRunning ==
    ASSUME NEW old \in Seq(SlotRow), NEW new \in Seq(SlotRow), Budgeted(old, DOMAIN old),
           {i \in DOMAIN new : new[i].running} = {i \in DOMAIN old : old[i].running},
           \A i \in DOMAIN old : old[i].running => new[i] = old[i]
    PROVE  Budgeted(new, DOMAIN new)
<1> DEFINE running == {i \in DOMAIN old : old[i].running}
<1>1. \A i \in running : new[i] = old[i]
  OBVIOUS
<1>2. {j \in running : new[j].rank # 0} = {j \in running : old[j].rank # 0}
  BY <1>1
<1> QED
  BY <1>1, <1>2 DEF Budgeted
-----------------------------------------------------------------------------
(* The slots invariant *)

\* The slots keep their shape and the budgets,
SlotsOK == slots \in Seq(SlotRow) /\ Budgeted(slots, DOMAIN slots)

\* a producer works at a priority somebody asked for,
AdoptedOK ==
    /\ adopted \in [Keys -> 0..2]
    /\ \A p \in Owners, k \in Keys : pc[p][k] = "producing" => adopted[k] \in Ranks

\* and nobody compiles without a running slot.
CompilersOK == \A p \in Owners, k \in Keys : pc[p][k] = "compiling" => Admitted(p, k)

CountersOK == published \subseteq Keys /\ failures \in Nat /\ faults \in Nat

\* Flights, slots, priorities and compilers agree.
SlotsInv == FlightInv /\ SlotsOK /\ AdoptedOK /\ CompilersOK /\ CountersOK

\* A key has one producer.
LEMMA OneProducer ==
    ASSUME FlightInv, NEW p \in Owners, NEW q \in Owners, NEW k \in Keys,
           pc[p][k] \in Producing, pc[q][k] \in Producing
    PROVE  p = q
<1>1. flights[k] = Running(p) /\ flights[k] = Running(q)
  BY DEF FlightInv, RequestInv
<1> QED
  BY <1>1 DEF Running

\* A demand that is stronger than the adopted priority is somebody's.
LEMMA DemandIsRequested ==
    ASSUME TablesOK, NEW k \in Keys, NEW rank \in 0..2, Demand(k) < rank
    PROVE  Demand(k) \in Ranks /\ Demand(k) \in 0..2
<1> DEFINE asked == {requests[p][k] : p \in Owners} \cup {NoRequest}
<1>1. asked \in SUBSET Nat /\ asked # {}
  <2>1. \A p \in Owners : requests[p][k] \in Ranks \cup {NoRequest}
    BY DEF TablesOK
  <2>2. Ranks \subseteq Nat /\ NoRequest \in Nat
    BY BuildsAssumption DEF NoRequest
  <2>3. \A p \in Owners : requests[p][k] \in Nat
    BY <2>1, <2>2
  <2>4. \A n \in asked : n \in Nat
    BY <2>2, <2>3
  <2> QED  BY <2>4
<1>2. Demand(k) = Min(asked)
  BY DEF Demand
<1>3. Demand(k) \in asked
  <2> HIDE DEF asked
  <2> QED  BY <1>1, <1>2, MinOfNaturals
<1>4. Demand(k) # NoRequest
  BY DEF NoRequest
<1>5. PICK p \in Owners : Demand(k) = requests[p][k]
  BY <1>3, <1>4
<1>6. Demand(k) \in Ranks
  BY <1>4, <1>5 DEF TablesOK
<1> QED
  BY <1>6, BuildsAssumption

\* It holds initially.
LEMMA InitSlots == Init => SlotsInv
<1> SUFFICES ASSUME Init PROVE SlotsInv
  OBVIOUS
<1>1. slots = <<>> /\ slots \in Seq(SlotRow)
  BY DEF Init
<1>2. Budgeted(slots, DOMAIN slots)
  BY <1>1 DEF Budgeted
<1>3. AdoptedOK /\ CompilersOK /\ CountersOK
  BY DEF Init, AdoptedOK, CompilersOK, CountersOK, Lowest
<1> QED
  BY <1>1, <1>2, <1>3, InitInv DEF SlotsInv, SlotsOK

\* A priority changes for the process that produces its key.
LEMMA AdoptedMoves ==
    ASSUME FlightInv, FlightInv', AdoptedOK, NEW p \in Owners, NEW k \in Keys,
           NEW next \in Stages, Go(p, k, next), NEW rank \in 0..2,
           pc[p][k] \in Producing \/ next \in Producing,
           next = "producing" => rank \in Ranks,
           adopted' = [adopted EXCEPT ![k] = rank]
    PROVE  AdoptedOK'
<1>1. /\ pc'[p][k] = next
      /\ \A q \in Owners, j \in Keys : q # p \/ j # k => pc'[q][j] = pc[q][j]
  BY GoKeeps DEF FlightInv
<1>2. adopted' \in [Keys -> 0..2] /\ adopted'[k] = rank
      /\ \A j \in Keys \ {k} : adopted'[j] = adopted[j]
  BY DEF AdoptedOK
<1>3. ASSUME NEW q \in Owners, NEW j \in Keys, pc'[q][j] = "producing"
      PROVE  adopted'[j] \in Ranks
  <2>1. CASE j # k
    BY <1>1, <1>2, <1>3, <2>1 DEF AdoptedOK
  <2>2. CASE j = k /\ q = p
    BY <1>1, <1>2, <1>3, <2>2
  <2>3. CASE j = k /\ q # p
    <3>1. pc[q][k] \in Producing /\ pc'[q][k] \in Producing
      BY <1>1, <1>3, <2>3 DEF Producing
    <3>2. CASE pc[p][k] \in Producing
      BY <2>3, <3>1, <3>2, OneProducer
    <3>3. CASE next \in Producing
      <4>1. flights'[k] = Running(p) /\ flights'[k] = Running(q)
        BY <1>1, <3>1, <3>3 DEF FlightInv, RequestInv
      <4> QED  BY <2>3, <4>1 DEF Running
    <3> QED  BY <3>2, <3>3
  <2> QED  BY <2>1, <2>2, <2>3
<1> QED
  BY <1>2, <1>3 DEF AdoptedOK

\* Where no priority changes, nobody begins to produce.
LEMMA AdoptedRests ==
    ASSUME AdoptedOK, UNCHANGED adopted,
           \A p \in Owners, k \in Keys : pc'[p][k] = "producing" => pc[p][k] = "producing"
    PROVE  AdoptedOK'
BY DEF AdoptedOK

\* Every step keeps the priorities.
LEMMA AdoptedStep ==
    ASSUME FlightInv, FlightInv', AdoptedOK, [Next]_vars
    PROVE  AdoptedOK'
<1>1. TablesOK /\ Lowest \in 0..2 /\ Ranks \subseteq 0..2
  BY BuildsAssumption DEF FlightInv, Lowest
<1>2. CASE UNCHANGED <<pc, adopted>>
  BY <1>2, AdoptedRests
<1>3. ASSUME NEW p \in Owners, Exit(p) PROVE AdoptedOK'
  <2>1. /\ \A k \in Keys : pc'[p][k] = "idle"
        /\ \A q \in Owners \ {p} : pc'[q] = pc[q]
    BY <1>1, <1>3 DEF Exit, TablesOK
  <2>2. adopted' \in [Keys -> 0..2]
        /\ \A k \in Keys : pc[p][k] \notin Producing => adopted'[k] = adopted[k]
    BY <1>1, <1>3 DEF Exit, AdoptedOK
  <2>3. ASSUME NEW q \in Owners, NEW k \in Keys, pc'[q][k] = "producing"
        PROVE  adopted'[k] \in Ranks
    <3>1. q # p /\ pc[q][k] = "producing" /\ pc[q][k] \in Producing
      BY <2>1, <2>3 DEF Producing
    <3>2. pc[p][k] \notin Producing
      BY <3>1, OneProducer
    <3> QED  BY <2>2, <3>1, <3>2 DEF AdoptedOK
  <2> QED  BY <2>2, <2>3 DEF AdoptedOK
<1>4. ASSUME NEW p \in Owners, NEW k \in Keys, NEW rank \in Ranks, Request(p, k, rank)
      PROVE  AdoptedOK'
  <2>1. CASE Go(p, k, "producing") /\ adopted' = [adopted EXCEPT ![k] = rank]
    <3>1. "producing" \in Stages /\ "producing" \in Producing
      BY DEF Stages, Producing
    <3> QED  BY <1>1, <2>1, <3>1, AdoptedMoves
  <2>2. CASE Go(p, k, "observing") /\ UNCHANGED adopted
    <3>1. \A q \in Owners, j \in Keys : pc'[q][j] = "producing" => pc[q][j] = "producing"
      BY <1>1, <2>2, GoKeeps DEF Stages
    <3> QED  BY <2>2, <3>1, AdoptedRests
  <2> QED  BY <1>4, <2>1, <2>2 DEF Request
<1>5. ASSUME NEW p \in Owners, NEW k \in Keys, NEW next \in Stages \ {"producing"},
             Go(p, k, next), UNCHANGED adopted
      PROVE  AdoptedOK'
  <2>1. \A q \in Owners, j \in Keys : pc'[q][j] = "producing" => pc[q][j] = "producing"
    BY <1>1, <1>5, GoKeeps
  <2> QED  BY <1>5, <2>1, AdoptedRests
<1>6. ASSUME NEW p \in Owners, NEW k \in Keys, NEW next \in Stages \ {"producing"},
             Go(p, k, next), pc[p][k] \in Producing, adopted' = [adopted EXCEPT ![k] = Lowest]
      PROVE  AdoptedOK'
  BY <1>1, <1>6, AdoptedMoves
<1>7. ASSUME NEW p \in Owners, NEW k \in Keys, AdoptDemand(p, k) PROVE AdoptedOK'
  <2>1. Demand(k) \in Ranks /\ Demand(k) \in 0..2
    BY <1>1, <1>7, DemandIsRequested DEF AdoptDemand, AdoptedOK
  <2>2. UNCHANGED pc /\ adopted' = [adopted EXCEPT ![k] = Demand(k)]
    BY <1>7 DEF AdoptDemand
  <2> QED  BY <2>1, <2>2 DEF AdoptedOK
<1>8. ASSUME NEW p \in Owners, NEW k \in Keys,
             \/ RequestStep(p, k) \/ ProducerStep(p, k)
             \/ Withdraw(p, k) \/ Compile(p, k)
             \/ Break(p, k) \/ LoseSettlement(p, k)
      PROVE  AdoptedOK'
  <2>1. {"retiring", "idle", "built", "queued", "compiling", "broken"} \subseteq Stages
    BY DEF Stages, Producing
  <2>2. CASE RequestStep(p, k) \/ Withdraw(p, k) \/ Settle(p, k) \/ LoseSettlement(p, k)
    BY <1>5, <2>1, <2>2
       DEF RequestStep, Observe, Retire, Withdraw, Settle, LoseSettlement
  <2>3. CASE Produce(p, k)
    BY <1>5, <1>6, <2>1, <2>3 DEF Produce, Producing
  <2>4. CASE Start(p, k)
    BY <1>6, <2>1, <2>4 DEF Start, Producing
  <2>5. CASE Compile(p, k)
    BY <1>5, <2>1, <2>5 DEF Compile
  <2>6. CASE Break(p, k)
    BY <1>6, <2>1, <2>6 DEF Break, Producing
  <2> QED  BY <1>7, <1>8, <2>2, <2>3, <2>4, <2>5, <2>6 DEF ProducerStep
<1> QED
  BY <1>2, <1>3, <1>4, <1>8 DEF Next, vars, Refresh, Promote
\* Rows are deleted: budgets and the running slots of the others stay.
LEMMA DeleteSlots ==
    ASSUME SlotsOK, NEW I \in SUBSET (DOMAIN slots), slots' = Kept(slots, I)
    PROVE  /\ SlotsOK'
           /\ \A q \in Owners, j \in Keys :
                  (\E i \in I : SlotOf(slots[i], q, j) /\ slots[i].running) => Admitted(q, j)'
<1>1. Budgeted(slots, I)
  BY FewerSlots DEF SlotsOK
<1>2. /\ slots' \in Seq(SlotRow) /\ Budgeted(slots', DOMAIN slots')
      /\ \A i \in I : \E n \in DOMAIN slots' : slots'[n] = slots[i]
  BY <1>1, DeletionKeepsBudgets DEF SlotsOK
<1> QED
  BY <1>2 DEF SlotsOK, Admitted, SlotOf

\* The slots of the dead go, and slots are admitted.
LEMMA RefreshSlots ==
    ASSUME SlotsOK, Refresh
    PROVE  /\ SlotsOK'
           /\ \A q \in alive, j \in Keys : Admitted(q, j) => Admitted(q, j)'
<1> DEFINE after == AdmitSlots(slots, Live)
<1>1. Live \in SUBSET (DOMAIN slots) /\ slots \in Seq(SlotRow) /\ Budgeted(slots, Live)
  BY FewerSlots DEF Live, SlotsOK
<1>2. /\ after \in Seq(SlotRow) /\ DOMAIN after = DOMAIN slots
      /\ \A i \in DOMAIN slots : /\ after[i].key = slots[i].key
                                 /\ after[i].owner = slots[i].owner
      /\ \A i \in Live : slots[i].running => after[i].running
      /\ Budgeted(after, Live)
  BY <1>1, AdmissionKeepsBudgets
<1>3. slots' = Kept(after, Live)
  BY DEF Refresh
<1> HIDE DEF after
<1>4. /\ slots' \in Seq(SlotRow) /\ Budgeted(slots', DOMAIN slots')
      /\ \A i \in Live : \E n \in DOMAIN slots' : slots'[n] = after[i]
  BY <1>1, <1>2, <1>3, DeletionKeepsBudgets
<1>5. ASSUME NEW q \in alive, NEW j \in Keys, Admitted(q, j) PROVE Admitted(q, j)'
  <2>1. PICK i \in DOMAIN slots : SlotOf(slots[i], q, j) /\ slots[i].running
    BY <1>5 DEF Admitted
  <2>2. i \in Live /\ SlotOf(after[i], q, j) /\ after[i].running
    BY <1>2, <2>1 DEF Live, SlotOf
  <2> QED  BY <1>4, <2>2 DEF Admitted
<1> QED
  BY <1>4, <1>5 DEF SlotsOK

\* A request reaps the dead.
LEMMA RequestSlots ==
    ASSUME SlotsOK, NEW p \in Owners, NEW k \in Keys, NEW rank \in Ranks, Request(p, k, rank)
    PROVE  /\ SlotsOK'
           /\ \A q \in Owners \cap alive, j \in Keys : Admitted(q, j) => Admitted(q, j)'
<1>1. Live \in SUBSET (DOMAIN slots) /\ slots' = Kept(slots, Live)
  BY DEF Live, LiveSlots, Request
<1>2. \A q \in alive, j \in Keys : Admitted(q, j) =>
          \E i \in Live : SlotOf(slots[i], q, j) /\ slots[i].running
  BY DEF Live, Admitted, SlotOf
<1> QED
  BY <1>1, <1>2, DeleteSlots

\* A process queues, at the end and not running.
LEMMA ProduceSlots ==
    ASSUME SlotsOK, AdoptedOK, NEW p \in Owners, NEW k \in Keys, Produce(p, k)
    PROVE  /\ SlotsOK'
           /\ \A q \in Owners, j \in Keys : Admitted(q, j) => Admitted(q, j)'
<1> DEFINE row == [key |-> k, owner |-> p, rank |-> adopted[k], running |-> FALSE]
<1>1. CASE UNCHANGED slots
  BY <1>1 DEF SlotsOK, Admitted
<1>2. CASE slots' = Append(slots, row)
  <2>1. row \in SlotRow /\ ~row.running
    BY DEF Produce, AdoptedOK, SlotRow
  <2> HIDE DEF row
  <2>2. slots \in Seq(SlotRow) /\ slots' \in Seq(SlotRow)
    BY <1>2, <2>1 DEF SlotsOK
  <2>3. /\ DOMAIN slots' = DOMAIN slots \cup {Len(slots) + 1}
        /\ slots'[Len(slots) + 1] = row
        /\ \A i \in DOMAIN slots : slots'[i] = slots[i]
    BY <1>2, <2>1, <2>2
  <2>4. {i \in DOMAIN slots' : slots'[i].running} = {i \in DOMAIN slots : slots[i].running}
    BY <2>1, <2>3
  <2>5. Budgeted(slots', DOMAIN slots')
    BY <2>2, <2>3, <2>4, SameRunning DEF SlotsOK
  <2> QED  BY <2>2, <2>3, <2>5 DEF SlotsOK, Admitted
<1> QED
  BY <1>1, <1>2 DEF Produce

\* A waiting slot is raised.
LEMMA DemandSlots ==
    ASSUME FlightInv, SlotsOK, AdoptedOK, NEW p \in Owners, NEW k \in Keys, AdoptDemand(p, k)
    PROVE  /\ SlotsOK'
           /\ \A q \in Owners, j \in Keys : Admitted(q, j) => Admitted(q, j)'
<1>1. Demand(k) \in Ranks
  BY DemandIsRequested DEF AdoptDemand, AdoptedOK, FlightInv
<1>2. slots \in Seq(SlotRow) /\ DOMAIN slots = 1..Len(slots) /\ Len(slots) \in Nat
  BY DEF SlotsOK
<1>3. DOMAIN slots' = DOMAIN slots
  BY DEF AdoptDemand
<1>4. ASSUME NEW i \in DOMAIN slots
      PROVE  /\ slots'[i] \in SlotRow
             /\ slots[i].running => slots'[i] = slots[i]
             /\ slots'[i].running = slots[i].running
  <2>1. slots[i] \in SlotRow
    BY <1>2, RowTypes
  <2>2. slots'[i] = IF SlotOf(slots[i], p, k) /\ ~slots[i].running
                    THEN [slots[i] EXCEPT !.rank = Demand(k)] ELSE slots[i]
    BY DEF AdoptDemand
  <2>3. CASE SlotOf(slots[i], p, k) /\ ~slots[i].running
    BY <1>1, <2>1, <2>2, <2>3 DEF SlotRow
  <2>4. CASE ~(SlotOf(slots[i], p, k) /\ ~slots[i].running)
    BY <2>1, <2>2, <2>4
  <2> QED  BY <2>3, <2>4
<1>5. slots' \in Seq(SlotRow)
  <2>1. slots' \in [1..Len(slots) -> SlotRow]
    BY <1>2, <1>3, <1>4 DEF AdoptDemand
  <2> QED  BY <1>2, <2>1
<1>6. {i \in DOMAIN slots' : slots'[i].running} = {i \in DOMAIN slots : slots[i].running}
  BY <1>3, <1>4
<1>7. Budgeted(slots', DOMAIN slots')
  BY <1>2, <1>4, <1>5, <1>6, SameRunning DEF SlotsOK
<1> QED
  BY <1>3, <1>4, <1>5, <1>7 DEF SlotsOK, Admitted

\* A process gives its slot of one key back; it has none of the others'.
LEMMA WithoutSlots ==
    ASSUME SlotsOK, NEW p \in Owners, NEW k \in Keys, slots' = WithoutSlot(p, k)
    PROVE  /\ SlotsOK'
           /\ \A q \in Owners, j \in Keys :
                  (q # p \/ j # k) /\ Admitted(q, j) => Admitted(q, j)'
<1> DEFINE others == {i \in DOMAIN slots : ~SlotOf(slots[i], p, k)}
<1>1. others \in SUBSET (DOMAIN slots) /\ slots' = Kept(slots, others)
  BY DEF WithoutSlot
<1>2. \A q \in Owners, j \in Keys : (q # p \/ j # k) /\ Admitted(q, j) =>
          \E i \in others : SlotOf(slots[i], q, j) /\ slots[i].running
  BY DEF Admitted, SlotOf
<1> HIDE DEF others
<1> QED
  BY <1>1, <1>2, DeleteSlots

-----------------------------------------------------------------------------
\* Who moves on, but not to compiling, needs no slot.
LEMMA CompilersRest ==
    ASSUME CompilersOK,
           \A p \in Owners, k \in Keys : pc'[p][k] = "compiling" =>
               pc[p][k] = "compiling" /\ (Admitted(p, k) => Admitted(p, k)')
    PROVE  CompilersOK'
BY DEF CompilersOK

\* So do the steps of one process with one key.
LEMMA SlotStepKeeps ==
    ASSUME FlightInv, SlotsOK, AdoptedOK, CompilersOK, NEW p \in Owners, NEW k \in Keys,
           \/ RequestStep(p, k) \/ ProducerStep(p, k)
           \/ Withdraw(p, k) \/ Compile(p, k)
           \/ Break(p, k) \/ LoseSettlement(p, k)
    PROVE  SlotsOK' /\ CompilersOK'
<1>1. TablesOK /\ {"retiring", "idle", "built", "queued", "compiling", "broken"} \subseteq Stages
  BY DEF FlightInv, Stages, Producing
<1>2. ASSUME NEW next \in Stages \ {"compiling"}, Go(p, k, next), SlotsOK',
             \A q \in Owners, j \in Keys :
                 (q # p \/ j # k) /\ Admitted(q, j) => Admitted(q, j)'
      PROVE  SlotsOK' /\ CompilersOK'
  <2>1. /\ pc'[p][k] = next
        /\ \A q \in Owners, j \in Keys : q # p \/ j # k => pc'[q][j] = pc[q][j]
    BY <1>1, <1>2, GoKeeps
  <2> QED  BY <1>2, <2>1, CompilersRest
<1>3. UNCHANGED slots => SlotsOK' /\ \A q \in Owners, j \in Keys : Admitted(q, j) => Admitted(q, j)'
  BY DEF SlotsOK, Admitted
<1>4. CASE RequestStep(p, k) \/ Withdraw(p, k) \/ Settle(p, k) \/ LoseSettlement(p, k)
  <2>1. UNCHANGED slots /\ (Go(p, k, "retiring") \/ Go(p, k, "idle"))
    BY <1>4 DEF RequestStep, Observe, Retire, Withdraw, Settle, LoseSettlement
  <2> QED  BY <1>1, <1>2, <1>3, <2>1
<1>5. CASE Produce(p, k)
  <2>1. Go(p, k, "built") \/ Go(p, k, "queued")
    BY <1>5 DEF Produce
  <2> QED  BY <1>1, <1>2, <1>5, <2>1, ProduceSlots
<1>6. CASE AdoptDemand(p, k)
  <2>1. UNCHANGED pc
    BY <1>6 DEF AdoptDemand
  <2> QED  BY <1>6, <2>1, DemandSlots, CompilersRest
<1>7. CASE Compile(p, k) \/ Break(p, k)
  <2>1. slots' = WithoutSlot(p, k) /\ (Go(p, k, "built") \/ Go(p, k, "broken"))
    BY <1>7 DEF Compile, Break
  <2> QED  BY <1>1, <1>2, <2>1, WithoutSlots
<1>8. CASE Start(p, k)
  <2>1. /\ pc'[p][k] = "compiling"
        /\ \A q \in Owners, j \in Keys : q # p \/ j # k => pc'[q][j] = pc[q][j]
    BY <1>1, <1>8, GoKeeps DEF Start
  <2>2. UNCHANGED slots /\ Admitted(p, k)
    BY <1>8 DEF Start
  <2> QED  BY <1>3, <2>1, <2>2 DEF CompilersOK
<1> QED
  BY <1>4, <1>5, <1>6, <1>7, <1>8 DEF ProducerStep

\* Every step keeps the slots, and a running slot under every compiler.
LEMMA SlotsKeep ==
    ASSUME FlightInv, SlotsOK, AdoptedOK, CompilersOK, [Next]_vars
    PROVE  SlotsOK' /\ CompilersOK'
<1>1. TablesOK /\ \A p \in Owners, k \in Keys : pc[p][k] = "compiling" => p \in alive
  BY DEF FlightInv, RequestInv
<1>2. CASE Refresh
  <2>1. UNCHANGED pc
    BY <1>2 DEF Refresh
  <2> QED  BY <1>1, <1>2, <2>1, RefreshSlots, CompilersRest
<1>3. ASSUME NEW p \in Owners, Exit(p) PROVE SlotsOK' /\ CompilersOK'
  <2>1. UNCHANGED slots
    BY <1>3 DEF Exit
  <2>2. /\ \A k \in Keys : pc'[p][k] = "idle"
        /\ \A q \in Owners \ {p} : pc'[q] = pc[q]
    BY <1>1, <1>3 DEF Exit, TablesOK
  <2> QED  BY <2>1, <2>2, CompilersRest DEF SlotsOK, Admitted
<1>4. ASSUME NEW p \in Owners, NEW k \in Keys, NEW rank \in Ranks, Request(p, k, rank)
      PROVE  SlotsOK' /\ CompilersOK'
  <2>1. Go(p, k, "producing") \/ Go(p, k, "observing")
    BY <1>4 DEF Request
  <2>2. /\ pc'[p][k] # "compiling"
        /\ \A q \in Owners, j \in Keys : q # p \/ j # k => pc'[q][j] = pc[q][j]
    BY <1>1, <2>1, GoKeeps DEF Stages, Producing
  <2> QED  BY <1>1, <1>4, <2>2, RequestSlots, CompilersRest
<1>5. CASE UNCHANGED <<pc, slots>>
  BY <1>5, CompilersRest DEF SlotsOK, Admitted
<1>6. ASSUME NEW p \in Owners, NEW k \in Keys,
             \/ RequestStep(p, k) \/ ProducerStep(p, k)
             \/ Withdraw(p, k) \/ Compile(p, k)
             \/ Break(p, k) \/ LoseSettlement(p, k)
      PROVE  SlotsOK' /\ CompilersOK'
  BY <1>6, SlotStepKeeps
<1> QED
  BY <1>2, <1>3, <1>4, <1>5, <1>6 DEF Next, vars, Promote

\* Published keys are keys, and faults are counted.
LEMMA CountersKeep == ASSUME CountersOK, [Next]_vars PROVE CountersOK'
<1>1. CASE UNCHANGED <<published, failures, faults>>
  BY <1>1 DEF CountersOK
<1>2. CASE \E p \in Owners, k \in Keys : Compile(p, k) \/ Break(p, k) \/ LoseSettlement(p, k)
  BY <1>2 DEF CountersOK, Compile, Break, LoseSettlement
<1>3. \A p \in Owners, k \in Keys : RequestStep(p, k) \/ ProducerStep(p, k) \/ Withdraw(p, k)
          => UNCHANGED <<published, failures, faults>>
  BY DEF RequestStep, Observe, Retire, ProducerStep, Produce, AdoptDemand, Start, Settle, Withdraw
<1>4. \A p \in Owners, k \in Keys, rank \in Ranks : Request(p, k, rank) \/ Promote(p, k, rank)
          => UNCHANGED <<published, failures, faults>>
  BY DEF Request, Promote
<1> QED
  BY <1>1, <1>2, <1>3, <1>4 DEF Next, vars, Refresh, Exit

\* They agree in every reachable state.
LEMMA SlotsInvariant == Spec => []SlotsInv
<1>1. SlotsInv /\ [Next]_vars => SlotsInv'
  <2> SUFFICES ASSUME SlotsInv, [Next]_vars PROVE SlotsInv'
    OBVIOUS
  <2>1. FlightInv /\ FlightInv'
    BY NextKeeps DEF SlotsInv
  <2>2. SlotsOK' /\ CompilersOK'
    BY SlotsKeep DEF SlotsInv
  <2>3. AdoptedOK'
    BY <2>1, AdoptedStep DEF SlotsInv
  <2>4. CountersOK'
    BY CountersKeep DEF SlotsInv
  <2> QED  BY <2>1, <2>2, <2>3, <2>4 DEF SlotsInv
<1> QED
  BY InitSlots, <1>1, PTL DEF Spec

\* The tables, the queue of slots and the priorities keep their shapes: the
\* rank a producer queues at, and the demand it adopts, is one that was asked
\* for (run, adoptDemand, withSlot).
THEOREM SharedBuildsTypeCorrect == Spec => []BuildTypeOK
<1>1. SlotsInv => BuildTypeOK
  BY DEF SlotsInv, FlightInv, TablesOK, FlightRows, Stages, SlotsOK, SlotRow, AdoptedOK,
         CountersOK, BuildTypeOK
<1> QED
  BY <1>1, SlotsInvariant, PTL

\* admitSlots, reap and the queue: whoever admits, from rows whose owner may be
\* dead, the slots that run fit the capacity of each process among them and
\* leave its lane for interactive builds, and nobody compiles without a slot.
THEOREM BudgetsAreKept == Spec => []BudgetOfEachProcess
<1>1. SlotsInv => BudgetOfEachProcess
  BY DEF SlotsInv, SlotsOK, CompilersOK, Budgeted, BudgetOfEachProcess
<1> QED
  BY <1>1, SlotsInvariant, PTL
=============================================================================
