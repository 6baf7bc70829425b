----------------------------- MODULE AlarmStore -----------------------------
(***************************************************************************)
(* The durable alarm table of WorkspaceDO (do_alarms) together with the    *)
(* wake-publication registry kept beside it (packages/durable,             *)
(* WakePublicationStore).  Every operation is one SQLite transaction of    *)
(* the WorkspaceDO, so each is one action here.  The callers - the alarm   *)
(* driver, Durable Objects, the host's receipt notifier - are arbitrary in *)
(* this module; AlarmScheduler composes the operations with the driver.    *)
(*                                                                         *)
(* A Durable Object key (source, className, objectKey) is a member of      *)
(* Keys.  A storage incarnation (a uuid with its host-journal generation)  *)
(* is its generation; 0 stands for "none".  A driver activation (uuid) is  *)
(* a member of Workers.                                                    *)
(***************************************************************************)
EXTENDS Integers, FiniteSets

CONSTANTS
    Keys,             \* Durable Objects that may hold an alarm
    Workers,          \* alarm-driver activations
    NoOwner,          \* SQL NULL in dispatch_owner / alarm-active-worker
    MaxTime,          \* bound on wake times
    MaxIncarnation,   \* bound on storage-incarnation generations
    MaxRevision,      \* bound on a source's schedule revisions
    MaxRequest,       \* bound on a key's wake-request generations
    MaxClaim          \* bound on a key's claim generations

ASSUME NoOwnerAssumption == NoOwner \notin Workers
ASSUME KeysAssumption == IsFiniteSet(Keys)
ASSUME BoundsAssumption ==
    {MaxTime, MaxIncarnation, MaxRevision, MaxRequest, MaxClaim} \subseteq Nat

VARIABLES
    entity,         \* entities.status of the Durable Object
    alarms,         \* do_alarms
    policies,       \* keys with a do_alarm_test_policies row
    activeWorker,   \* state["alarm-active-worker"]
    sources,        \* state["alarm-source:k"]
    requests,       \* state["alarm-wake-request:k"]
    claimCounter    \* state["alarm-claim:k"]

storeVars == <<entity, alarms, policies, activeWorker, sources, requests, claimCounter>>

Never == -1                       \* a wake time of null, and an absent row
Times == 0 .. MaxTime
Wakes == Times \cup {Never}
Owners == Workers \cup {NoOwner}

NoRow == [wakeAt |-> Never, owner |-> NoOwner, generation |-> 0]
NoSource == [incarnation |-> 0, revision |-> -1, wakeAt |-> Never]
NoRequest == [incarnation |-> 0, generation |-> 0, acknowledged |-> 0,
              claimed |-> 0, dispatch |-> 0]
NoToken == [incarnation |-> 0, generation |-> 0]

AlarmRow == [wakeAt: Nat \cup {Never}, owner: Owners, generation: Nat]
SourceRow == [incarnation: Nat, revision: Nat \cup {-1}, wakeAt: Nat \cup {Never}]
RequestRow == [incarnation: Nat, generation: Nat, acknowledged: Nat, claimed: Nat, dispatch: Nat]
WakeToken == [incarnation: Nat, generation: Nat]

-----------------------------------------------------------------------------
(* Reading the store *)

Active(k) == entity[k] = "active"
Scheduled(k) == alarms[k].wakeAt # Never
Registered(k) == sources[k].incarnation # 0
HasPendingRequest(k) == requests[k].generation > requests[k].acknowledged

\* The exact claim a fenced acknowledgement must name.
Owns(k, w, g) == Scheduled(k) /\ alarms[k].owner = w /\ alarms[k].generation = g

\* alarmNextWakeAt: the soonest unclaimed wake outside the caller's lanes.
Unclaimed(exclude) == {k \in Keys \ exclude : Scheduled(k) /\ alarms[k].owner = NoOwner}
NextWakeAt(exclude) ==
    LET open == Unclaimed(exclude)
    IN  IF open = {} THEN Never
        ELSE alarms[CHOOSE k \in open :
                       \A o \in open : alarms[k].wakeAt <= alarms[o].wakeAt].wakeAt

\* Fault: reissue from the row alone.
NextClaimFromRow(k) == alarms[k].generation + 1

\* nextClaimGeneration: above both the retained counter and the row.
NextClaim(k) ==
    1 + IF claimCounter[k] >= alarms[k].generation
        THEN claimCounter[k] ELSE alarms[k].generation

-----------------------------------------------------------------------------
(* Row updates shared by the operations *)

\* Fault: null the wrong column.
UpsertWrongColumn(row, t) == [row EXCEPT !.wakeAt = t, !.generation = NoOwner]

\* INSERT ... ON CONFLICT DO UPDATE SET wake_at, dispatch_owner = NULL
Upsert(row, t) == [row EXCEPT !.wakeAt = t, !.owner = NoOwner]

\* Fault: an UPDATE without the INSERT.
EnsureRequestedUpdateOnly(row, request) ==
    IF request.generation > request.acknowledged /\ row.wakeAt # Never
    THEN [row EXCEPT !.wakeAt = 0] ELSE row

\* ensureRequestedAlarm: a pending request makes the row due, owner untouched.
EnsureRequested(row, request) ==
    IF request.generation > request.acknowledged THEN [row EXCEPT !.wakeAt = 0] ELSE row

\* One more host event for the incarnation; a captured generation stays captured.
Requested(request, incarnation) ==
    [request EXCEPT !.incarnation = incarnation, !.generation = request.generation + 1]

\* Fault: settle every event so far.
AcknowledgedAll(request, token) ==
    IF token = NoToken THEN request
    ELSE [request EXCEPT !.acknowledged = request.generation, !.claimed = 0, !.dispatch = 0]

\* acknowledgeRequest, or nothing when the dispatch carried no token.
Acknowledged(request, token) ==
    IF token = NoToken THEN request
    ELSE [request EXCEPT !.acknowledged = token.generation, !.claimed = 0, !.dispatch = 0]

AcknowledgementAccepted(k, token, g) ==
    \/ token = NoToken
    \/ /\ token.incarnation = requests[k].incarnation
       /\ requests[k].claimed # 0
       /\ token.generation = requests[k].claimed
       /\ requests[k].dispatch = g

\* Fault: unregister without clearAlarm.
ForgetKeyButAlarm(k) ==
    /\ sources' = [sources EXCEPT ![k] = NoSource]
    /\ requests' = [requests EXCEPT ![k] = NoRequest]
    /\ UNCHANGED <<alarms, policies>>

\* Everything WorkspaceDO forgets about a key it unregisters.
ForgetKey(k) ==
    /\ sources' = [sources EXCEPT ![k] = NoSource]
    /\ requests' = [requests EXCEPT ![k] = NoRequest]
    /\ alarms' = [alarms EXCEPT ![k] = NoRow]
    /\ policies' = policies \ {k}

-----------------------------------------------------------------------------
(* Entity lifetime *)

\* entityActivate / entityAdvanceExecution without a native owner: a source
\* registered earlier is unregistered, anything else keeps its schedule.
ActivatePlain(k) ==
    /\ entity' = [entity EXCEPT ![k] = "active"]
    /\ IF Registered(k) THEN ForgetKey(k)
       ELSE UNCHANGED <<alarms, policies, sources, requests>>
    /\ UNCHANGED <<activeWorker, claimCounter>>

\* entityActivate with a native owner: register(key, identity).  An older
\* generation throws and the transaction rolls back.
ActivateNative(k, incarnation) ==
    /\ incarnation >= sources[k].incarnation
    /\ entity' = [entity EXCEPT ![k] = "active"]
    /\ IF incarnation = sources[k].incarnation
       THEN UNCHANGED <<alarms, policies, sources, requests>>
       ELSE /\ sources' = [sources EXCEPT ![k] = [NoSource EXCEPT !.incarnation = incarnation]]
            /\ requests' = [requests EXCEPT ![k] = NoRequest]
            /\ alarms' = [alarms EXCEPT ![k] = NoRow]
            /\ policies' = policies \ {k}
    /\ UNCHANGED <<activeWorker, claimCounter>>

\* entityRetire: status, then clearEntityDoLifecycle.  The claim counter stays.
Retire(k) ==
    /\ entity[k] # "none"
    /\ entity' = [entity EXCEPT ![k] = "retired"]
    /\ ForgetKey(k)
    /\ UNCHANGED <<activeWorker, claimCounter>>

-----------------------------------------------------------------------------
(* Wake publications and requests *)

\* A newer revision of this incarnation's complete schedule (Never = clear).
PublishAccepted(k, incarnation, revision, t) ==
    /\ Active(k)
    /\ Registered(k) /\ sources[k].incarnation = incarnation
    /\ revision > sources[k].revision
    /\ sources' = [sources EXCEPT ![k] =
                     [incarnation |-> incarnation, revision |-> revision, wakeAt |-> t]]
    /\ alarms' = [alarms EXCEPT ![k] =
                    IF HasPendingRequest(k) THEN EnsureRequested(@, requests[k])
                    ELSE IF t = Never THEN NoRow
                    ELSE Upsert(@, t)]
    /\ policies' = IF ~HasPendingRequest(k) /\ t = Never THEN policies \ {k} ELSE policies
    /\ UNCHANGED <<entity, activeWorker, requests, claimCounter>>

\* A replay of the retained revision repairs a lost row and frees no claim.
\* (Older revisions, other incarnations and conflicting replays change nothing.)
PublishDuplicate(k) ==
    LET t == sources[k].wakeAt
    IN  /\ Active(k)
        /\ Registered(k) /\ sources[k].revision >= 0
        /\ alarms' = [alarms EXCEPT ![k] =
                        IF HasPendingRequest(k) THEN EnsureRequested(@, requests[k])
                        ELSE IF t = Never THEN NoRow
                        ELSE IF Scheduled(k) THEN @
                        ELSE Upsert(NoRow, t)]
        /\ policies' = IF ~HasPendingRequest(k) /\ t = Never THEN policies \ {k} ELSE policies
        /\ UNCHANGED <<entity, activeWorker, sources, requests, claimCounter>>

\* alarmSourceRequest: a host event asks the incarnation to reconcile itself.
WakeRequest(k, incarnation) ==
    /\ Active(k)
    /\ Registered(k) /\ sources[k].incarnation = incarnation
    /\ requests[k].generation < MaxRequest
    /\ requests' = [requests EXCEPT ![k] = Requested(@, incarnation)]
    /\ alarms' = [alarms EXCEPT ![k] = EnsureRequested(@, requests'[k])]
    /\ UNCHANGED <<entity, policies, activeWorker, sources, claimCounter>>

-----------------------------------------------------------------------------
(* Unclaimed scheduling decisions *)

\* alarmSet without a claim: a fresh decision releases a live claim.
AlarmSet(k, t, withPolicy) ==
    /\ Active(k)
    /\ alarms' = [alarms EXCEPT ![k] = EnsureRequested(Upsert(@, t), requests[k])]
    /\ policies' = IF withPolicy THEN policies \cup {k} ELSE policies
    /\ UNCHANGED <<entity, activeWorker, sources, requests, claimCounter>>

\* alarmClear without a claim; a key that is not active also loses its request.
AlarmClear(k) ==
    /\ requests' = IF Active(k) THEN requests ELSE [requests EXCEPT ![k] = NoRequest]
    /\ alarms' = [alarms EXCEPT ![k] = EnsureRequested(NoRow, requests'[k])]
    /\ policies' = policies \ {k}
    /\ UNCHANGED <<entity, activeWorker, sources, claimCounter>>

-----------------------------------------------------------------------------
(* The scheduler's operations.  w and g are the dispatch claim. *)

\* alarmAdoptWorker: supersede every earlier activation and give every
\* registered active source one recovery pass.
AlarmAdoptWorker(w) ==
    /\ activeWorker' = w
    /\ alarms' = [k \in Keys |->
                    IF Active(k) /\ Registered(k)
                    THEN Upsert(alarms[k], 0)
                    ELSE [alarms[k] EXCEPT !.owner = NoOwner]]
    /\ UNCHANGED <<entity, policies, sources, requests, claimCounter>>

\* The rows alarmClaimDue takes: the due unclaimed ones, soonest first, at most limit.
DueRows(now, exclude) == {k \in Unclaimed(exclude) : alarms[k].wakeAt <= now}
SoonestDue(now, limit, exclude) ==
    LET due == DueRows(now, exclude)
    IN  {S \in SUBSET due :
           /\ Cardinality(S) <= limit
           /\ Cardinality(S) = limit \/ S = due
           /\ \A s \in S, o \in due \ S : alarms[s].wakeAt <= alarms[o].wakeAt}

\* alarmClaimDue throws for any activation but the adopted one.
MayClaim(w) == activeWorker = w

\* alarmClaimDue for the selected rows S.
AlarmClaimDue(w, S) ==
    /\ MayClaim(w)
    /\ \A k \in S : NextClaim(k) <= MaxClaim
    /\ claimCounter' = [k \in Keys |-> IF k \in S THEN NextClaim(k) ELSE claimCounter[k]]
    /\ alarms' = [k \in Keys |->
                    IF k \in S
                    THEN [alarms[k] EXCEPT !.owner = w, !.generation = NextClaim(k)]
                    ELSE alarms[k]]
    /\ requests' = [k \in Keys |->
                      IF k \in S /\ requests[k].generation # requests[k].acknowledged
                      THEN [requests[k] EXCEPT !.claimed = requests[k].generation,
                                               !.dispatch = NextClaim(k)]
                      ELSE requests[k]]
    /\ UNCHANGED <<entity, policies, activeWorker, sources>>

\* The token a claim of k carries to its dispatch.
ClaimToken(k) ==
    IF requests[k].generation # requests[k].acknowledged
    THEN [incarnation |-> requests[k].incarnation, generation |-> requests[k].generation]
    ELSE NoToken

\* alarmSet with a claim: re-arm the row and release exactly this claim.
AlarmSetClaimed(k, w, g, t) ==
    /\ Active(k)
    /\ Owns(k, w, g)
    /\ alarms' = [alarms EXCEPT ![k] = Upsert(@, t)]
    /\ UNCHANGED <<entity, policies, activeWorker, sources, requests, claimCounter>>

\* alarmComplete: acknowledge the captured request, then set or clear the row.
AlarmComplete(k, w, g, token, next, withPolicy) ==
    /\ Owns(k, w, g)
    /\ AcknowledgementAccepted(k, token, g)
    /\ Active(k)
    /\ requests' = [requests EXCEPT ![k] = Acknowledged(@, token)]
    /\ alarms' = [alarms EXCEPT ![k] =
                    EnsureRequested(IF next = Never THEN NoRow ELSE Upsert(@, next),
                                    requests'[k])]
    /\ policies' = IF next = Never THEN policies \ {k}
                   ELSE IF withPolicy THEN policies \cup {k}
                   ELSE policies
    /\ UNCHANGED <<entity, activeWorker, sources, claimCounter>>

-----------------------------------------------------------------------------
(* The store under arbitrary callers *)

StoreInit ==
    /\ entity = [k \in Keys |-> "none"]
    /\ alarms = [k \in Keys |-> NoRow]
    /\ policies = {}
    /\ activeWorker = NoOwner
    /\ sources = [k \in Keys |-> NoSource]
    /\ requests = [k \in Keys |-> NoRequest]
    /\ claimCounter = [k \in Keys |-> 0]

EntityStep(k) ==
    \/ ActivatePlain(k)
    \/ \E i \in 1 .. MaxIncarnation : ActivateNative(k, i)
    \/ Retire(k)

SourceStep(k) ==
    \/ \E i \in 1 .. MaxIncarnation, r \in 0 .. MaxRevision, t \in Wakes :
          PublishAccepted(k, i, r, t)
    \/ PublishDuplicate(k)
    \/ \E i \in 1 .. MaxIncarnation : WakeRequest(k, i)

AlarmStep(k) ==
    \/ \E t \in Times, p \in BOOLEAN : AlarmSet(k, t, p)
    \/ AlarmClear(k)

ClaimStep(k, w, g) ==
    \/ \E t \in Times : AlarmSetClaimed(k, w, g, t)
    \/ \E i \in 1 .. MaxIncarnation, r \in 1 .. MaxRequest, next \in Wakes, p \in BOOLEAN :
          AlarmComplete(k, w, g, [incarnation |-> i, generation |-> r], next, p)
    \/ \E next \in Wakes, p \in BOOLEAN : AlarmComplete(k, w, g, NoToken, next, p)

SchedulerStep(w) ==
    \/ AlarmAdoptWorker(w)
    \/ \E now \in Times, limit \in 1 .. Cardinality(Keys), exclude \in SUBSET Keys :
          \E S \in SoonestDue(now, limit, exclude) : AlarmClaimDue(w, S)

StoreNext ==
    \/ \E k \in Keys : EntityStep(k) \/ SourceStep(k) \/ AlarmStep(k)
    \/ \E k \in Keys, w \in Workers, g \in 1 .. MaxClaim : ClaimStep(k, w, g)
    \/ \E w \in Workers : SchedulerStep(w)

StoreSpec == StoreInit /\ [][StoreNext]_storeVars

-----------------------------------------------------------------------------
(* Properties *)

\* Every stored record keeps its shape and the bounds of its fields.
StoreTypeOK ==
    /\ entity \in [Keys -> {"none", "active", "retired"}]
    /\ alarms \in [Keys -> AlarmRow]
    /\ policies \subseteq Keys
    /\ activeWorker \in Owners
    /\ sources \in [Keys -> SourceRow]
    /\ requests \in [Keys -> RequestRow]
    /\ claimCounter \in [Keys -> Nat]

\* Only the adopted activation holds claims: alarmAdoptWorker released every
\* claim of its predecessors and alarmClaimDue refuses any other worker, so no
\* row can stay owned by an activation that nobody will ever complete.
ClaimsBelongToActiveWorker ==
    \A k \in Keys : alarms[k].owner # NoOwner =>
        Scheduled(k) /\ alarms[k].owner = activeWorker

\* The retained counter dominates every row, so a row deleted and re-inserted
\* at generation 0 can never reissue a generation (nextClaimGeneration).
CounterDominates ==
    \A k \in Keys : /\ alarms[k].generation <= claimCounter[k]
                    /\ alarms[k].owner # NoOwner => alarms[k].generation >= 1

\* A host wake request that no completed pass has acknowledged always has a
\* row to be dispatched from, whatever publications, clears, re-arms, late
\* completions and adoptions happen (ensureRequestedAlarm on every path).
PendingRequestKeepsAlarm ==
    \A k \in Keys : HasPendingRequest(k) => Scheduled(k)

\* What repairLifecycleInvariants deletes at activation never exists: a Durable
\* Object that is not active has no alarm, registration or request, and a
\* stored test policy always has its alarm row.
NothingToRepair ==
    /\ \A k \in Keys : ~Active(k) =>
          ~Scheduled(k) /\ ~Registered(k) /\ requests[k] = NoRequest
    /\ \A k \in policies : Scheduled(k)

\* Requests belong to the registered incarnation, and the captured and the
\* acknowledged generation never run ahead of what was requested.
RequestsBelongToIncarnation ==
    \A k \in Keys :
        /\ requests[k] # NoRequest => requests[k].incarnation = sources[k].incarnation
        /\ requests[k].acknowledged <= requests[k].generation
        /\ requests[k].claimed # 0 =>
              /\ requests[k].acknowledged < requests[k].claimed
              /\ requests[k].claimed <= requests[k].generation

\* A claim generation is issued once: a row that changes hands carries a
\* generation above every one issued before for this key, across clears,
\* re-insertions, retirement and incarnation rotation.
ClaimGenerationsNeverReused ==
    [][\A k \in Keys :
          /\ claimCounter'[k] >= claimCounter[k]
          /\ alarms'[k].owner # NoOwner /\ alarms'[k] # alarms[k]
                 => \/ alarms'[k].generation > claimCounter[k]
                    \/ /\ alarms'[k].owner = alarms[k].owner
                       /\ alarms'[k].generation = alarms[k].generation]_storeVars

-----------------------------------------------------------------------------
(* The contract: WakeLease, seen through the claimed rows and the requests *)

LeaseOf(k) == IF alarms[k].owner = NoOwner THEN 0 ELSE alarms[k].generation
CapturedOf(k) == IF requests[k].claimed # 0 THEN requests[k].claimed ELSE requests[k].acknowledged

Contract == INSTANCE WakeLease WITH
    Epochs <- Workers,
    NoEpoch <- NoOwner,
    epoch <- activeWorker,
    lease <- [k \in Keys |-> LeaseOf(k)],
    issued <- claimCounter,
    asked <- [k \in Keys |-> requests[k].generation],
    captured <- [k \in Keys |-> CapturedOf(k)],
    served <- [k \in Keys |-> requests[k].acknowledged]

\* The store implements the lease-and-debt contract: whoever calls what, a key
\* has one fenced holder of the current activation, and a finished pass settles
\* exactly the requests its claim captured.
ImplementsWakeLease == Contract!Spec

=============================================================================
