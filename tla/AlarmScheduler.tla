--------------------------- MODULE AlarmScheduler ---------------------------
(***************************************************************************)
(* AlarmDriver composed with the alarm store it drives, its clients and    *)
(* the crashes of the host process.                                        *)
(*                                                                         *)
(* One JavaScript turn is one action: everything between two awaited calls *)
(* happens at once, and every call to WorkspaceDO is three steps - sent,   *)
(* executed by the store, answered - between which other actors run.  A    *)
(* call can fail before the store executed it and after.                   *)
(*                                                                         *)
(* Time is a small clock.  The five- and sixty-second delays of a re-armed *)
(* alarm are one tick, and the delay of a failure retry is any time.       *)
(***************************************************************************)
EXTENDS AlarmStore

CONSTANTS
    Concurrency,     \* dispatch lanes of the driver
    MaxFailures,     \* bound on failed calls to WorkspaceDO
    MayFault         \* whether alarm handlers may fail, be paused or be blocked

ASSUME ConcurrencyAssumption == Concurrency \in Nat \ {0}
ASSUME FailureAssumption == MaxFailures \in Nat /\ MayFault \in BOOLEAN

VARIABLES
    now,                \* the host's clock
    worker,             \* workerId of the running host process
    spent,              \* workerIds used so far
    stopped, adopted,   \* AlarmDriver.stopped, AlarmDriver.adopted
    timer,              \* AlarmDriver.timer and what it will run
    refreshRequested, fireRequested,
    failureRetry,       \* AlarmDriver.failureRetryOperation; "none" is null
    drive,              \* where the driving operation is
    lanes,              \* AlarmDriver.activeTargets / activeLanes
    unnotified,         \* a committed mutation has not called notifyChanged yet
    failures            \* failed calls so far

schedulerVars == <<now, worker, spent, stopped, adopted, timer, refreshRequested,
                   fireRequested, failureRetry, drive, lanes, unnotified, failures>>
vars == <<storeVars, schedulerVars>>

NoTimer == [kind |-> "none", at |-> Never]
RetryTimer == [kind |-> "retry", at |-> Never]
WakeTimer(t) == [kind |-> "wake", at |-> t]

Idle == [op |-> "none", call |-> "none", state |-> "none",
         exclude |-> {}, limit |-> 0, next |-> Never, due |-> {}]
\* drive() returned, and the finally handler of its promise has not run yet.
Returned == [Idle EXCEPT !.state = "returned"]
NoLane == [phase |-> "none", generation |-> 0, token |-> NoToken,
           next |-> Never, aborted |-> FALSE]

Claim == [key: Keys, generation: Nat, token: WakeToken]
Later == IF now < MaxTime THEN now + 1 ELSE now

\* AlarmDriver.driving is set.
Driving == drive # Idle

Busy(l) == {k \in Keys : l[k].phase # "none"}

\* Fault: the running lanes are not counted.
AvailableAlways(l) == Concurrency

Available(l) == Concurrency - Cardinality(Busy(l))

-----------------------------------------------------------------------------
(* The drive loop.  Each operator says where the loop comes to rest when it *)
(* continues with lanes l, adoption a, timer t and the two request flags.   *)

Sent(op, call, l) ==
    [Idle EXCEPT !.op = op, !.call = call, !.state = "sent",
                 !.exclude = Busy(l), !.limit = Available(l)]

Rest(d, fire, refresh, t) ==
    /\ drive' = d
    /\ fireRequested' = fire
    /\ refreshRequested' = refresh
    /\ timer' = t

\* refreshTimer
Refresh(l, a, t) ==
    IF ~a THEN Rest(Sent("refresh", "adopt", l), FALSE, FALSE, t)
    ELSE IF Available(l) <= 0 THEN Rest(Returned, FALSE, FALSE, NoTimer)
    ELSE Rest(Sent("refresh", "peek", l), FALSE, FALSE, t)

\* fireOnce; with every lane taken it succeeds at once and a refresh follows
Fire(l, a, t) ==
    IF ~a THEN Rest(Sent("fire", "adopt", l), FALSE, FALSE, t)
    ELSE IF Available(l) <= 0 THEN Refresh(l, a, t)
    ELSE Rest(Sent("fire", "claim", l), FALSE, FALSE, t)

\* Fault: the loop returns without looking at refreshRequested.
LoopFireOnly(l, a, fire, refresh, t) ==
    IF stopped THEN Rest(Returned, fire, refresh, t)
    ELSE IF fire THEN Fire(l, a, t)
    ELSE Rest(Returned, FALSE, refresh, t)

\* the head of drive's loop
Loop(l, a, fire, refresh, t) ==
    IF stopped THEN Rest(Returned, fire, refresh, t)
    ELSE IF fire THEN Fire(l, a, t)
    ELSE IF refresh THEN Refresh(l, a, t)
    ELSE Rest(Returned, FALSE, FALSE, t)

\* kick: only a driver that is not driving, with no failed operation, starts the
\* loop; any other keeps the request
Kick(l, fire, refresh, t, retry) ==
    IF stopped \/ Driving \/ retry # "none"
    THEN Rest(drive, fire, refresh, t)
    ELSE Loop(l, adopted, fire, refresh, t)

\* Fault: the handler does not look at what was requested since the loop ended.
SettlesOnly(fire, refresh) == Rest(Idle, fire, refresh, timer)

\* the finally handler of drive's promise
Settles(fire, refresh) ==
    IF stopped \/ failureRetry # "none" \/ ~(fire \/ refresh)
    THEN Rest(Idle, fire, refresh, timer)
    ELSE Loop(lanes, adopted, fire, refresh, timer)

\* Fault: requestRefresh does nothing.
RequestRefreshIgnored(l) == UNCHANGED <<drive, fireRequested, refreshRequested, timer>>

\* requestRefresh
RequestRefresh(l) ==
    IF stopped THEN UNCHANGED <<drive, fireRequested, refreshRequested, timer>>
    ELSE Kick(l, fireRequested, TRUE, timer, failureRetry)

\* armFailureRetry, after which the loop goes on with the requests made meanwhile
Fail(op) ==
    /\ failures < MaxFailures
    /\ failures' = failures + 1
    /\ failureRetry' = IF stopped THEN failureRetry ELSE op
    /\ Loop(lanes, adopted, fireRequested, refreshRequested,
            IF stopped THEN timer ELSE RetryTimer)

-----------------------------------------------------------------------------
(* Calls of the driving operation *)

InCall(call, state) == drive.call = call /\ drive.state = state
Answered(fields) == drive' = [fields EXCEPT !.state = "executed"]

ExecuteAdopt ==
    /\ InCall("adopt", "sent")
    /\ AlarmAdoptWorker(worker)
    /\ Answered(drive)
    /\ UNCHANGED <<now, worker, spent, stopped, adopted, timer, refreshRequested,
                   fireRequested, failureRetry, lanes, unnotified, failures>>

ExecutePeek ==
    /\ InCall("peek", "sent")
    /\ Answered([drive EXCEPT !.next = NextWakeAt(drive.exclude)])
    /\ UNCHANGED <<storeVars, now, worker, spent, stopped, adopted, timer, refreshRequested,
                   fireRequested, failureRetry, lanes, unnotified, failures>>

ExecuteClaim ==
    /\ InCall("claim", "sent")
    /\ \E S \in SoonestDue(now, drive.limit, drive.exclude) :
          /\ AlarmClaimDue(worker, S)
          /\ Answered([drive EXCEPT !.due =
               {[key |-> k, generation |-> NextClaim(k), token |-> ClaimToken(k)] : k \in S}])
    /\ UNCHANGED <<now, worker, spent, stopped, adopted, timer, refreshRequested,
                   fireRequested, failureRetry, lanes, unnotified, failures>>

\* ensureAdopted returned: stop() meanwhile ends the operation, otherwise it goes on.
AdoptAnswered ==
    /\ InCall("adopt", "executed")
    /\ IF stopped
       THEN adopted' = adopted /\ Loop(lanes, adopted, fireRequested, refreshRequested, timer)
       ELSE /\ adopted' = TRUE
            /\ IF drive.op = "refresh"
               THEN IF Available(lanes) <= 0
                    THEN Loop(lanes, TRUE, fireRequested, refreshRequested, NoTimer)
                    ELSE Rest(Sent("refresh", "peek", lanes), fireRequested, refreshRequested, timer)
               ELSE IF Available(lanes) <= 0
                    THEN Loop(lanes, TRUE, fireRequested, TRUE, timer)
                    ELSE Rest(Sent("fire", "claim", lanes), fireRequested, refreshRequested, timer)
    /\ UNCHANGED <<storeVars, now, worker, spent, stopped, failureRetry, lanes,
                   unnotified, failures>>

\* refreshTimer replaces the timer by one for the wake it read.
PeekAnswered ==
    /\ InCall("peek", "executed")
    /\ Loop(lanes, adopted, fireRequested, refreshRequested,
            IF stopped THEN timer
            ELSE IF drive.next = Never THEN NoTimer
            ELSE WakeTimer(drive.next))
    /\ UNCHANGED <<storeVars, now, worker, spent, stopped, adopted, failureRetry, lanes,
                   unnotified, failures>>

\* fireOnce starts a lane per claim, whether or not the driver was stopped since.
ClaimAnswered ==
    /\ InCall("claim", "executed")
    /\ \E paused \in SUBSET {c.key : c \in drive.due} :
          /\ paused = {} \/ MayFault
          /\ lanes' = [k \in Keys |->
               IF \E c \in drive.due : c.key = k
               THEN LET c == CHOOSE c \in drive.due : c.key = k
                    IN  [NoLane EXCEPT !.phase = IF k \in paused THEN "deferring" ELSE "dispatching",
                                       !.generation = c.generation, !.token = c.token]
               ELSE lanes[k]]
    /\ Loop(lanes', adopted, fireRequested, TRUE, timer)
    /\ UNCHANGED <<storeVars, now, worker, spent, stopped, adopted, failureRetry,
                   unnotified, failures>>

\* The driver lets go of the promise; a request that came since starts it again.
DriveSettles ==
    /\ drive = Returned
    /\ Settles(fireRequested, refreshRequested)
    /\ UNCHANGED <<storeVars, now, worker, spent, stopped, adopted, failureRetry, lanes,
                   unnotified, failures>>

\* A call to WorkspaceDO rejects, before or after the store executed it.
CallFails ==
    /\ drive.call # "none"
    /\ Fail(IF drive.call = "claim" THEN "fire" ELSE "refresh")
    /\ UNCHANGED <<storeVars, now, worker, spent, stopped, adopted, lanes, unnotified>>

-----------------------------------------------------------------------------
(* Dispatch lanes *)

Phase(k, phase) == lanes' = [lanes EXCEPT ![k].phase = phase]
LaneFrame == UNCHANGED <<now, worker, spent, stopped, adopted, timer, refreshRequested,
                         fireRequested, failureRetry, drive, unnotified>>

\* dispatchAlarm resolves with the handler's next schedule.
HandlerReturns(k) ==
    /\ lanes[k].phase = "dispatching"
    /\ \E next \in Wakes : lanes' = [lanes EXCEPT ![k].phase = "completing", ![k].next = next]
    /\ UNCHANGED <<storeVars, failures>> /\ LaneFrame

\* dispatchAlarm rejects for a transient reason: the alarm is to be re-armed.
HandlerThrows(k) ==
    /\ MayFault
    /\ lanes[k].phase = "dispatching" /\ ~(stopped /\ lanes[k].aborted)
    /\ Phase(k, "rearming")
    /\ UNCHANGED <<storeVars, failures>> /\ LaneFrame

\* It rejects because the sealed execution is unavailable: the claim is kept.
HandlerBlocked(k) ==
    /\ MayFault
    /\ lanes[k].phase = "dispatching"
    /\ Phase(k, "ending")
    /\ UNCHANGED <<storeVars, failures>> /\ LaneFrame

\* It rejects because quiesce aborted it: nothing is acknowledged.
HandlerAborted(k) ==
    /\ lanes[k].phase = "dispatching" /\ stopped /\ lanes[k].aborted
    /\ Phase(k, "ending")
    /\ UNCHANGED <<storeVars, failures>> /\ LaneFrame

\* alarmComplete throws, and rolls back, unless the request it acknowledges is
\* the one this dispatch captured and the entity is still active.
CanComplete(k) ==
    AcknowledgementAccepted(k, lanes[k].token, lanes[k].generation) /\ Active(k)

\* The lane's acknowledgement; a claim that changed hands answers "stale".
Acknowledge(k) ==
    LET lane == lanes[k]
    IN  /\ lane.phase \in {"deferring", "rearming", "completing"}
        /\ IF \/ ~Owns(k, worker, lane.generation)
              \/ lane.phase = "completing" /\ ~CanComplete(k)
           THEN UNCHANGED storeVars
           ELSE IF lane.phase = "completing"
           THEN AlarmComplete(k, worker, lane.generation, lane.token, lane.next, FALSE)
           ELSE AlarmSetClaimed(k, worker, lane.generation, Later)
        /\ Phase(k, "ending")
        /\ UNCHANGED failures /\ LaneFrame

\* It rejects unexecuted: the durable claim stays.  (A rejection after the
\* store executed it ends the lane exactly as an answer does.)
AcknowledgeFails(k) ==
    /\ failures < MaxFailures
    /\ lanes[k].phase \in {"deferring", "rearming", "completing"}
    /\ Phase(k, "ending")
    /\ failures' = failures + 1
    /\ UNCHANGED storeVars /\ LaneFrame

\* Fault: a stopped driver skips the whole finally block.
LaneEndsWhileRunning(k) ==
    /\ ~stopped
    /\ lanes[k].phase = "ending"
    /\ lanes' = [lanes EXCEPT ![k] = NoLane]
    /\ RequestRefresh(lanes')
    /\ UNCHANGED <<storeVars, now, worker, spent, stopped, adopted, failureRetry,
                   unnotified, failures>>

\* The lane's finally block.
LaneEnds(k) ==
    /\ lanes[k].phase = "ending"
    /\ lanes' = [lanes EXCEPT ![k] = NoLane]
    /\ RequestRefresh(lanes')
    /\ UNCHANGED <<storeVars, now, worker, spent, stopped, adopted, failureRetry,
                   unnotified, failures>>

-----------------------------------------------------------------------------
(* Timers, lifecycle and the clock *)

\* The schedule timer expires: requestFire.
WakeTimerFires ==
    /\ timer.kind = "wake" /\ timer.at <= now
    /\ Kick(lanes, TRUE, refreshRequested, NoTimer, failureRetry)
    /\ UNCHANGED <<storeVars, now, worker, spent, stopped, adopted, failureRetry, lanes,
                   unnotified, failures>>

\* The failure retry expires and the failed operation is requested again.
RetryTimerFires ==
    /\ timer.kind = "retry"
    /\ failureRetry' = "none"
    /\ Kick(lanes, fireRequested \/ failureRetry = "fire",
                   refreshRequested \/ failureRetry = "refresh", NoTimer, "none")
    /\ UNCHANGED <<storeVars, now, worker, spent, stopped, adopted, lanes, unnotified, failures>>

\* A mutation's onAlarmChanged; also the call made after a stale publication.
NotifyChanged ==
    /\ unnotified
    /\ unnotified' = FALSE
    /\ RequestRefresh(lanes)
    /\ UNCHANGED <<storeVars, now, worker, spent, stopped, adopted, failureRetry, lanes, failures>>

\* start(), once per host process, after the runtimes were restored.
Start ==
    /\ stopped /\ worker \notin spent
    /\ spent' = spent \cup {worker}
    /\ stopped' = FALSE /\ adopted' = FALSE
    /\ Rest(Sent("refresh", "adopt", lanes), FALSE, FALSE, timer)
    /\ UNCHANGED <<storeVars, now, worker, failureRetry, lanes, unnotified, failures>>

\* stop(): first half of quiesce(); the rest of it waits for drive and lanes.
Stop ==
    /\ ~stopped
    /\ stopped' = TRUE
    /\ Rest(drive, FALSE, FALSE, NoTimer)
    /\ failureRetry' = "none"
    /\ lanes' = [k \in Keys |-> IF lanes[k].phase = "dispatching"
                                THEN [lanes[k] EXCEPT !.aborted = TRUE] ELSE lanes[k]]
    /\ UNCHANGED <<storeVars, now, worker, spent, adopted, unnotified, failures>>

\* What quiesce() resolves on.
Quiesced == stopped /\ worker \in spent /\ ~Driving /\ Busy(lanes) = {}

\* The host process dies, or exits after quiescing; a new one has a new driver.
Restart ==
    /\ worker \in spent
    /\ \E w \in Workers \ spent : worker' = w
    /\ stopped' = TRUE /\ adopted' = FALSE
    /\ Rest(Idle, FALSE, FALSE, NoTimer)
    /\ failureRetry' = "none"
    /\ lanes' = [k \in Keys |-> NoLane]
    /\ unnotified' = FALSE
    /\ UNCHANGED <<storeVars, now, spent, failures>>

Tick ==
    /\ now < MaxTime
    /\ now' = now + 1
    /\ UNCHANGED <<storeVars, worker, spent, stopped, adopted, timer, refreshRequested,
                   fireRequested, failureRetry, drive, lanes, unnotified, failures>>

-----------------------------------------------------------------------------
(* The store's other clients *)

\* Calls that end in onAlarmChanged: workspaceStateService and the notifier.
Mutate(k) ==
    \/ \E t \in Times : t >= now /\ AlarmSet(k, t, FALSE)
    \/ AlarmClear(k)
    \/ \E t \in Wakes : /\ sources[k].revision < MaxRevision
                        /\ PublishAccepted(k, sources[k].incarnation, sources[k].revision + 1, t)
    \/ PublishDuplicate(k)
    \/ WakeRequest(k, sources[k].incarnation)

ClientMutates(k) ==
    /\ Mutate(k)
    /\ unnotified' = TRUE
    /\ UNCHANGED <<now, worker, spent, stopped, adopted, timer, refreshRequested,
                   fireRequested, failureRetry, drive, lanes, failures>>

\* Entity lifetime changes, which do not notify the driver.
EntityChanges(k) ==
    /\ EntityStep(k)
    /\ UNCHANGED schedulerVars

-----------------------------------------------------------------------------

Init ==
    /\ StoreInit
    /\ now = 0
    /\ worker \in Workers /\ spent = {}
    /\ stopped = TRUE /\ adopted = FALSE
    /\ timer = NoTimer /\ refreshRequested = FALSE /\ fireRequested = FALSE
    /\ failureRetry = "none"
    /\ drive = Idle
    /\ lanes = [k \in Keys |-> NoLane]
    /\ unnotified = FALSE /\ failures = 0

LaneStep(k) ==
    \/ HandlerReturns(k) \/ HandlerThrows(k) \/ HandlerBlocked(k) \/ HandlerAborted(k)
    \/ Acknowledge(k) \/ AcknowledgeFails(k) \/ LaneEnds(k)

DriveStep ==
    \/ ExecuteAdopt \/ ExecutePeek \/ ExecuteClaim
    \/ AdoptAnswered \/ PeekAnswered \/ ClaimAnswered \/ DriveSettles

Next ==
    \/ DriveStep \/ CallFails
    \/ WakeTimerFires \/ RetryTimerFires \/ NotifyChanged
    \/ Start \/ Stop \/ Restart \/ Tick
    \/ \E k \in Keys : LaneStep(k) \/ ClientMutates(k) \/ EntityChanges(k)

Spec == Init /\ [][Next]_vars

\* A turn that is ready runs, a call and a handler eventually answer, a timer
\* that is due expires, the host is started and time passes.  Nothing obliges
\* a client to call, a call to fail, or the host to stop or die.
HandlerAnswers(k) ==
    HandlerReturns(k) \/ HandlerThrows(k) \/ HandlerBlocked(k) \/ HandlerAborted(k)

Fairness ==
    /\ WF_vars(DriveStep)
    /\ WF_vars(WakeTimerFires) /\ WF_vars(RetryTimerFires)
    /\ WF_vars(NotifyChanged)
    /\ WF_vars(Start) /\ WF_vars(Tick)
    /\ \A k \in Keys : /\ WF_vars(HandlerAnswers(k))
                       /\ WF_vars(Acknowledge(k)) /\ WF_vars(LaneEnds(k))

FairSpec == Spec /\ Fairness

-----------------------------------------------------------------------------
(* Properties *)

\* The driver's fields, the operation in flight and the lanes keep their shapes.
TypeOK ==
    /\ StoreTypeOK
    /\ now \in Times /\ worker \in Workers /\ spent \subseteq Workers
    /\ {stopped, adopted, refreshRequested, fireRequested, unnotified} \subseteq BOOLEAN
    /\ timer \in [kind: {"none", "wake", "retry"}, at: Wakes]
    /\ failureRetry \in {"none", "refresh", "fire"}
    /\ \A c \in drive.due : c \in Claim
    /\ drive.call \in {"none", "adopt", "peek", "claim"} /\ drive.next \in Wakes
    /\ drive.call = "none" => drive \in {Idle, Returned}
    /\ \A k \in Keys :
          /\ lanes[k].phase \in {"none", "dispatching", "deferring", "rearming", "completing", "ending"}
          /\ lanes[k].generation \in Nat /\ lanes[k].token \in WakeToken
          /\ lanes[k].next \in Wakes /\ lanes[k].aborted \in BOOLEAN
    /\ failures \in Nat

\* The driver never runs more lanes than its concurrency, although the limit it
\* claims with was computed before the awaited claim.
LaneLimit == Cardinality(Busy(lanes)) <= Concurrency

\* A lane that still owns its row can always complete it: no request, clear,
\* publication or rotation during the dispatch makes alarmComplete throw, which
\* would leave the claim held until the next restart.
OwnedClaimCanComplete ==
    \A k \in Keys :
        lanes[k].phase = "completing" /\ Owns(k, worker, lanes[k].generation) => CanComplete(k)

\* Something asks the driver for a fresh read of the schedule: a mutation is
\* announced, or a lane ends and frees its place.
ReadAsked ==
    \/ unnotified /\ ~unnotified'
    \/ \E k \in Keys : lanes[k].phase = "ending" /\ lanes'[k].phase = "none"

\* A read is still to be sent: it is requested, it follows the operation that
\* runs, or it follows the retry of the operation that failed.
ReadIsOwed ==
    refreshRequested \/ fireRequested \/ failureRetry # "none"
        \/ drive.op = "fire" \/ drive.call = "adopt"

\* No request is lost: a read asked for is sent after it was asked for, or stays
\* owed by a driver that runs, or waits for its retry - whether the request comes
\* while an operation runs, while it fails, or after the loop ended and before
\* the driver lets go of it.  With every lane taken the next lane to end asks.
RequestsAreDriven ==
    [][(ReadAsked \/ ReadIsOwed) /\ ~stopped' /\ worker' = worker =>
          \/ ReadIsOwed' /\ (Driving' \/ failureRetry' # "none")
          \/ InCall("peek", "sent")' /\ drive' # drive
          \/ Available(lanes)' <= 0]_vars

\* No lost wake-up: whenever the driver rests with nothing announced to it and a
\* lane free, the timer is armed no later than the soonest row it could claim -
\* although the row may have been set, released or re-armed while the read that
\* armed the timer was in flight.
TimerCoversSoonestWake ==
    LET open == Unclaimed(Busy(lanes))
    IN  ~stopped /\ ~Driving /\ failureRetry = "none" /\ ~unnotified
        /\ Available(lanes) > 0 /\ open # {}
        => timer.kind = "wake" /\ timer.at <= NextWakeAt(Busy(lanes))

-----------------------------------------------------------------------------
(* Liveness, while the claim bound leaves room *)

Exhausted == \E k \in DueRows(now, {}) : NextClaim(k) > MaxClaim

\* A due alarm nobody holds is claimed by the running driver, or withdrawn or
\* postponed by a client: no interleaving of notifications, timers, stale reads
\* and ending lanes leaves the driver asleep on it.
DueAlarmIsClaimed ==
    \A k \in Keys : (k \in DueRows(now, {}))
        ~> (k \notin DueRows(now, {}) \/ stopped \/ Exhausted)

\* A host request is eventually settled by a finished pass, or forgotten with
\* its incarnation, as long as the host keeps running and handlers succeed.
RequestIsSettled ==
    \A k \in Keys : HasPendingRequest(k)
        ~> (~HasPendingRequest(k) \/ stopped \/ Exhausted)

\* quiesce() resolves: the driving operation and every lane come to an end,
\* also a lane that was started after stop() and is not aborted.
QuiesceCompletes ==
    (stopped /\ worker \in spent) ~> (Quiesced \/ worker \notin spent \/ Exhausted)

=============================================================================
