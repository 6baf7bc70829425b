----------------------- MODULE LifecycleRestartProofs -----------------------
(***************************************************************************)
(* The generation-transition owner and its lifecycle hooks, for any number *)
(* of Durable Objects, calls and faults.  The invariant is layered:        *)
(* ManagerInv is the owner's own; HookInv adds which stage each hook runs  *)
(* in; AdmissionOK, OwedInv and ResumeInv, each inductive on top of those  *)
(* below it, carry the safety properties of the driver.                    *)
(***************************************************************************)
EXTENDS LifecycleRestart, SequenceTheorems, TLAPS


\* A call waits for the run that covers it, or for a later one.
Covered(e) == Active /\ e <= activeTransition.covered

\* A crash recovery is covered by a crash run, which has started a generation
\* since when its hooks run, or it is queued as a crash.
CallOK(e) ==
    /\ calls[e].since <= bootGeneration
    /\ In("ready") /\ Covered(e) => calls[e].since < bootGeneration
    /\ calls[e].kind = "crash" /\ calls[e].result = "ok" => calls[e].since < bootGeneration
    /\ calls[e].kind = "crash" /\ calls[e].result = "waiting" =>
           IF Covered(e) THEN activeTransition.kind = "crash" ELSE "crash" \in restartRequests

\* Epochs are positions of calls; an owner run covers all that were applied.
EpochsOK ==
    /\ appliedEpoch <= Len(calls)
    /\ Active => /\ appliedEpoch <= activeTransition.covered
                 /\ activeTransition.covered <= Len(calls)

\* The recovery that later reports share is a crash call that still waits.
RecoveryOK == unresponsiveRecovery # 0 =>
    /\ unresponsiveRecovery \in DOMAIN calls
    /\ calls[unresponsiveRecovery].kind = "crash"
    /\ calls[unresponsiveRecovery].result = "waiting"

StagesOK ==
    /\ In("reaping") \/ In("starting") => process = 0
    /\ In("starting") \/ In("ready") => activeTransition.kind # "stop"
    /\ In("preparing") => activeTransition.kind # "crash"

ManagerInv ==
    /\ ManagerTypeOK /\ EpochsOK /\ RecoveryOK /\ StagesOK
    /\ \A e \in DOMAIN calls : CallOK(e)

-----------------------------------------------------------------------------
LEMMA CallsAreCalls ==
    ASSUME ManagerTypeOK
    PROVE  \A e \in DOMAIN calls : calls[e] \in Call /\ calls[e].since \in Nat
<1>1. calls \in [1..Len(calls) -> Call]
  BY LenProperties DEF ManagerTypeOK
<1> QED  BY <1>1 DEF Call

\* What startGenerationTransition makes of the queued requests.
LEMMA BegunRun ==
    ASSUME NEW requests \in SUBSET Kinds, NEW epoch \in Nat, NEW running \in Nat
    PROVE  LET t == Begun(requests, epoch, running) IN
           /\ t \in Transition
           /\ t.kind = Classify(requests) /\ t.covered = epoch
           /\ t.state = IF t.kind # "crash" /\ running # 0 THEN "preparing" ELSE "stopping"
           /\ t.hadProcess = (running # 0) /\ ~t.prepDegraded /\ ~t.prepAbort
           /\ "crash" \in requests <=> t.kind = "crash"
<1>1. NoTransition \in Transition
  BY DEF NoTransition, Transition, Kinds
<1>2. Classify(requests) \in Kinds /\ ("crash" \in requests <=> Classify(requests) = "crash")
  BY DEF Classify, Kinds
<1> QED
  BY <1>1, <1>2 DEF Begun, Transition, NoTransition

RunIsBegun(requests, epoch, running) ==
    /\ activeTransition' \in Transition
    /\ activeTransition'.kind = Classify(requests) /\ activeTransition'.covered = epoch
    /\ activeTransition'.state = IF activeTransition'.kind # "crash" /\ running # 0
                                 THEN "preparing" ELSE "stopping"
    /\ "crash" \in requests <=> activeTransition'.kind = "crash"

LEMMA BegunNext ==
    ASSUME NEW requests \in SUBSET Kinds, NEW epoch \in Nat, NEW running \in Nat,
           activeTransition' = Begun(requests, epoch, running)
    PROVE  RunIsBegun(requests, epoch, running)
BY BegunRun DEF RunIsBegun

\* What preemptPreparingTransition leaves of the run.
LEMMA PreemptedRun ==
    ASSUME activeTransition \in Transition, NEW kind \in Kinds
    PROVE  LET t == Preempted(activeTransition, kind) IN
           /\ t \in Transition
           /\ t.state = activeTransition.state /\ t.kind = activeTransition.kind
           /\ t.covered = activeTransition.covered
           /\ t.hadProcess = activeTransition.hadProcess
           /\ t.prepDegraded = activeTransition.prepDegraded
           /\ t.prepAbort => activeTransition.prepAbort \/ kind = "crash"
BY DEF Preempted, Transition

\* The table of calls after one more request.
LEMMA OneMoreCall ==
    ASSUME ManagerTypeOK, NEW kind \in Kinds,
           calls' = Append(calls, [kind |-> kind, since |-> bootGeneration, result |-> "waiting"])
    PROVE  /\ calls' \in Seq(Call) /\ Len(calls) \in Nat /\ Len(calls') = Len(calls) + 1
           /\ DOMAIN calls = 1..Len(calls) /\ DOMAIN calls' = 1..(Len(calls) + 1)
           /\ \A e \in DOMAIN calls : calls'[e] = calls[e]
           /\ calls'[Len(calls) + 1] = [kind |-> kind, since |-> bootGeneration, result |-> "waiting"]
<1>1. calls \in Seq(Call) /\ [kind |-> kind, since |-> bootGeneration, result |-> "waiting"] \in Call
  BY DEF ManagerTypeOK, Call
<1> QED
  BY <1>1, AppendProperties, LenProperties

\* A request adds a call, and its kind to the queue or to the run it begins.
LEMMA RequestKeeps ==
    ASSUME ManagerInv, NEW kind \in Kinds, NEW running \in Nat, Request(kind, running),
           process' \in {process, 0}, hung' \in BOOLEAN, alive' \subseteq Nat, faults' \in Nat,
           UNCHANGED <<bootGeneration, appliedEpoch, resumeLifecycleAfterStop>>,
           \/ UNCHANGED unresponsiveRecovery
           \/ unresponsiveRecovery' = requestedEpoch + 1 /\ kind = "crash"
    PROVE  ManagerInv'
<1> USE DEF ManagerInv
<1>1. /\ calls' = Append(calls, [kind |-> kind, since |-> bootGeneration, result |-> "waiting"])
      /\ restartRequests \in SUBSET Kinds
  BY DEF Request, ManagerTypeOK
<1>2. /\ calls' \in Seq(Call) /\ Len(calls) \in Nat /\ Len(calls') = Len(calls) + 1
      /\ DOMAIN calls = 1..Len(calls) /\ DOMAIN calls' = 1..(Len(calls) + 1)
      /\ \A e \in DOMAIN calls : calls'[e] = calls[e]
      /\ calls'[Len(calls) + 1] = [kind |-> kind, since |-> bootGeneration, result |-> "waiting"]
  BY <1>1, OneMoreCall
<1>3. RecoveryOK'
  BY <1>2 DEF RecoveryOK, requestedEpoch
<1>4. CASE Active
  <2>1. /\ restartRequests' = restartRequests \cup {kind}
        /\ activeTransition' = Preempted(activeTransition, kind)
    BY <1>4 DEF Request
  <2>2. /\ activeTransition' \in Transition
        /\ activeTransition'.state = activeTransition.state
        /\ activeTransition'.kind = activeTransition.kind
        /\ activeTransition'.covered = activeTransition.covered
    BY <2>1, PreemptedRun DEF ManagerTypeOK
  <2>3. ManagerTypeOK'
    BY <1>1, <1>2, <2>1, <2>2 DEF ManagerTypeOK, requestedEpoch
  <2>4. EpochsOK' /\ StagesOK'
    <3>1. activeTransition.covered \in Nat /\ appliedEpoch \in Nat
      BY DEF ManagerTypeOK, Transition
    <3>2. EpochsOK'
      BY <1>2, <2>2, <3>1 DEF EpochsOK, Active
    <3>3. StagesOK'
      BY <2>2 DEF StagesOK, In
    <3> QED  BY <3>2, <3>3
  <2>5. ASSUME NEW e \in DOMAIN calls' PROVE CallOK(e)'
    <3>1. CASE e \in DOMAIN calls
      BY <1>2, <2>1, <2>2, <3>1 DEF CallOK, Covered, Active, In
    <3>2. CASE e = Len(calls) + 1
      <4>1. ~Covered(e)'
        BY <1>2, <2>2, <3>2, <1>4 DEF Covered, Active, EpochsOK, ManagerTypeOK, Transition
      <4> QED
        BY <1>2, <2>1, <3>2, <4>1 DEF CallOK, ManagerTypeOK
    <3> QED  BY <1>2, <3>1, <3>2
  <2> QED  BY <1>3, <2>3, <2>4, <2>5
<1>5. CASE ~Active
  <2> DEFINE requests == restartRequests \cup {kind}
             epoch == requestedEpoch + 1
  <2>1. restartRequests' = {} /\ activeTransition' = Begun(requests, requestedEpoch + 1, running)
    BY <1>5 DEF Request
  <2>2. requests \in SUBSET Kinds /\ epoch \in Nat /\ epoch = Len(calls) + 1
    BY <1>1, <1>2 DEF requestedEpoch
  <2>3. /\ activeTransition' \in Transition
        /\ activeTransition'.state \in {"preparing", "stopping"}
        /\ activeTransition'.state = "preparing" => activeTransition'.kind # "crash"
        /\ activeTransition'.covered = Len(calls) + 1
        /\ "crash" \in requests => activeTransition'.kind = "crash"
    <3>1. /\ activeTransition' = Begun(requests, epoch, running)
          /\ requests \in SUBSET Kinds /\ epoch \in Nat
      BY <2>1, <2>2
    <3> HIDE DEF requests, epoch, ManagerInv
    <3>2. RunIsBegun(requests, epoch, running)
      BY <3>1, BegunNext, Zenon
    <3> QED  BY <2>2, <3>2 DEF RunIsBegun
  <2>4. ManagerTypeOK'
    <3>1. unresponsiveRecovery' \in Nat /\ process' \in Nat
      BY <1>2 DEF ManagerTypeOK, requestedEpoch
    <3>2. restartRequests' \subseteq Kinds
      BY <2>1
    <3> QED  BY <1>2, <2>3, <3>1, <3>2 DEF ManagerTypeOK
  <2>5. EpochsOK' /\ StagesOK'
    <3>1. appliedEpoch \in Nat /\ appliedEpoch <= Len(calls)
      BY DEF ManagerTypeOK, EpochsOK
    <3>2. EpochsOK'
      BY <1>2, <2>3, <3>1 DEF EpochsOK
    <3>3. StagesOK'
      BY <2>3 DEF StagesOK, In
    <3> QED  BY <3>2, <3>3
  <2>6. ASSUME NEW e \in DOMAIN calls' PROVE CallOK(e)'
    <3>1. Covered(e)' /\ ~In("ready")'
      BY <1>2, <2>3 DEF Covered, Active, In
    <3>2. CASE e \in DOMAIN calls
      BY <1>2, <1>5, <2>3, <3>1, <3>2 DEF CallOK, Covered
    <3>3. CASE e = Len(calls) + 1
      BY <1>2, <2>3, <3>1, <3>3 DEF CallOK, ManagerTypeOK
    <3> QED  BY <1>2, <3>2, <3>3
  <2> QED  BY <1>3, <2>4, <2>5, <2>6
<1> QED  BY <1>4, <1>5

\* A run that begins without a request of its own covers all calls so far.
LEMMA BeginKeeps ==
    ASSUME ManagerInv, ~Active, NEW running \in Nat,
           activeTransition' = Begun(restartRequests, requestedEpoch, running),
           restartRequests' = {},
           UNCHANGED <<process, alive, hung, bootGeneration, calls, appliedEpoch,
                       unresponsiveRecovery, resumeLifecycleAfterStop, faults>>
    PROVE  ManagerInv'
<1> USE DEF ManagerInv
<1>1. restartRequests \in SUBSET Kinds /\ Len(calls) \in Nat /\ DOMAIN calls = 1..Len(calls)
  BY LenProperties DEF ManagerTypeOK
<1>2. /\ activeTransition' \in Transition
      /\ activeTransition'.state \in {"preparing", "stopping"}
      /\ activeTransition'.state = "preparing" => activeTransition'.kind # "crash"
      /\ activeTransition'.covered = Len(calls)
      /\ "crash" \in restartRequests => activeTransition'.kind = "crash"
  <2> DEFINE epoch == requestedEpoch
  <2>1. epoch \in Nat /\ epoch = Len(calls)
    BY <1>1 DEF requestedEpoch
  <2>2. activeTransition' = Begun(restartRequests, epoch, running)
    OBVIOUS
  <2> HIDE DEF epoch
  <2> QED  BY <1>1, <2>1, <2>2, BegunRun
<1>3. ManagerTypeOK'
  BY <1>2 DEF ManagerTypeOK
<1>4. EpochsOK' /\ StagesOK' /\ RecoveryOK'
  <2>1. appliedEpoch \in Nat /\ appliedEpoch <= Len(calls)
    BY DEF ManagerTypeOK, EpochsOK
  <2>2. EpochsOK'
    BY <1>1, <1>2, <2>1 DEF EpochsOK
  <2>3. StagesOK'
    BY <1>2 DEF StagesOK, In
  <2>4. RecoveryOK'
    BY DEF RecoveryOK
  <2> QED  BY <2>2, <2>3, <2>4
<1>5. ASSUME NEW e \in DOMAIN calls' PROVE CallOK(e)'
  <2>1. Covered(e)' /\ ~In("ready")'
    BY <1>1, <1>2 DEF Covered, Active, In
  <2> QED  BY <1>2, <2>1 DEF CallOK, Covered
<1> QED  BY <1>3, <1>4, <1>5

\* The end of a run answers what it covered: a crash recovery with success
\* only if a generation was started since it was requested.
LEMMA EndKeeps ==
    ASSUME ManagerInv, Active, NEW ok \in BOOLEAN, End(ok),
           process' \in Nat, hung' \in BOOLEAN, alive' \subseteq Nat, faults' \in Nat,
           bootGeneration' \in {bootGeneration, bootGeneration + 1},
           resumeLifecycleAfterStop' \in BOOLEAN, UNCHANGED restartRequests,
           ok => \A e \in DOMAIN calls :
                    calls[e].kind = "crash" /\ calls[e].result = "waiting" /\ Covered(e) =>
                        calls[e].since < bootGeneration'
    PROVE  ManagerInv' /\ ~Active' /\ activeTransition' = NoTransition
<1> USE DEF ManagerInv
<1>1. /\ activeTransition' = NoTransition /\ NoTransition \in Transition
      /\ NoTransition.state = "none" /\ ~Active'
  BY DEF End, NoTransition, Transition, Active, Kinds
<1>2. Len(calls) \in Nat /\ DOMAIN calls = 1..Len(calls) /\ calls \in [1..Len(calls) -> Call]
  BY LenProperties DEF ManagerTypeOK
<1>3. /\ appliedEpoch' \in Nat /\ appliedEpoch' <= activeTransition.covered
      /\ activeTransition.covered <= Len(calls) /\ activeTransition.covered \in Nat
      /\ ok => appliedEpoch' = activeTransition.covered
  BY DEF End, EpochsOK, ManagerTypeOK, Transition
<1> DEFINE answered(e) == calls[e].result = "waiting" /\ e <= activeTransition.covered
<1>4. calls' = [e \in DOMAIN calls |-> IF answered(e)
                    THEN [calls[e] EXCEPT !.result = IF ok THEN "ok" ELSE "failed"] ELSE calls[e]]
  BY <1>3 DEF End
<1>5. calls' \in [1..Len(calls) -> Call]
  BY <1>2, <1>4 DEF Call
<1>6. calls' \in Seq(Call) /\ Len(calls') = Len(calls) /\ DOMAIN calls' = DOMAIN calls
  BY <1>2, <1>5
<1>7. ManagerTypeOK'
  <2>1. unresponsiveRecovery' \in Nat
    BY DEF End, ManagerTypeOK
  <2>2. bootGeneration' \in Nat
    BY DEF ManagerTypeOK
  <2> QED  BY <1>1, <1>3, <1>6, <2>1, <2>2 DEF ManagerTypeOK
<1>8. EpochsOK' /\ StagesOK'
  BY <1>1, <1>3, <1>6 DEF EpochsOK, StagesOK, In
<1>9. RecoveryOK'
  <2>1. unresponsiveRecovery' # 0 =>
           unresponsiveRecovery' = unresponsiveRecovery /\ ~answered(unresponsiveRecovery)
    BY <1>3 DEF End
  <2> QED  BY <1>4, <1>6, <2>1 DEF RecoveryOK
<1>10. ASSUME NEW e \in DOMAIN calls' PROVE CallOK(e)'
  <2>1. CallOK(e) /\ calls[e] \in Call /\ e \in DOMAIN calls /\ e \in Nat
    BY <1>2, <1>6
  <2>2. /\ calls'[e].kind = calls[e].kind /\ calls'[e].since = calls[e].since
        /\ ~answered(e) => calls'[e].result = calls[e].result
        /\ answered(e) => calls'[e].result = IF ok THEN "ok" ELSE "failed"
    BY <1>2, <1>4, <2>1 DEF Call
  <2>3. ~Covered(e)' /\ ~In("ready")'
    BY <1>1 DEF Covered, In
  <2>4. calls[e].since <= bootGeneration'
        /\ (calls[e].since < bootGeneration => calls[e].since < bootGeneration')
    BY <2>1 DEF CallOK, ManagerTypeOK, Call
  <2>5. answered(e) /\ ok /\ calls[e].kind = "crash" => calls[e].since < bootGeneration'
    BY <2>1 DEF Covered
  <2>6. ~answered(e) /\ calls[e].result = "waiting" => ~Covered(e)
    BY DEF Covered
  <2> QED  BY <2>1, <2>2, <2>3, <2>4, <2>5, <2>6 DEF CallOK
<1> QED  BY <1>1, <1>7, <1>8, <1>9, <1>10

-----------------------------------------------------------------------------
(* The steps of the manager. *)

LEMMA ManagerRests ==
    ASSUME ManagerInv, UNCHANGED unfaulted, faults' \in Nat
    PROVE  ManagerInv'
BY DEF ManagerInv, unfaulted, ManagerTypeOK, EpochsOK, RecoveryOK, StagesOK, CallOK, Covered,
       Active, In

LEMMA FaultCounted == ManagerInv /\ Fault => faults' \in Nat
BY DEF ManagerInv, ManagerTypeOK, Fault

\* A step of the run that keeps what it covers.
LEMMA StageKeeps ==
    ASSUME ManagerInv, Active, activeTransition' \in Transition, activeTransition'.state # "none",
           activeTransition'.covered = activeTransition.covered,
           activeTransition'.kind = activeTransition.kind,
           process' \in Nat, hung' \in BOOLEAN, alive' \subseteq Nat, StagesOK',
           bootGeneration' \in {bootGeneration, bootGeneration + 1},
           activeTransition'.state = "ready" => bootGeneration' = bootGeneration + 1,
           UNCHANGED <<calls, appliedEpoch, restartRequests, unresponsiveRecovery,
                       resumeLifecycleAfterStop, faults>>
    PROVE  ManagerInv'
<1> USE DEF ManagerInv
<1>1. ManagerTypeOK'
  BY DEF ManagerTypeOK
<1>2. EpochsOK' /\ RecoveryOK'
  BY DEF EpochsOK, RecoveryOK, Active
<1>3. ASSUME NEW e \in DOMAIN calls' PROVE CallOK(e)'
  <2>1. calls[e].since \in Nat /\ bootGeneration \in Nat /\ CallOK(e)
    BY CallsAreCalls DEF ManagerTypeOK
  <2>2. Covered(e)' <=> Covered(e)
    BY DEF Covered, Active
  <2> QED  BY <2>1, <2>2 DEF CallOK, In
<1> QED  BY <1>1, <1>2, <1>3

LEMMA RequestsKeep ==
    ASSUME ManagerInv,
           \/ \E kind \in {"planned", "stop"} : RequestRestart(kind)
           \/ EnsureRunning \/ TakeOwnership \/ ProcessExits \/ UnkillableExits
           \/ Hang \/ ReportUnresponsive
    PROVE  ManagerInv'
<1> USE DEF ManagerInv
<1>1. process \in Nat /\ alive \subseteq Nat /\ hung \in BOOLEAN /\ faults \in Nat
  BY DEF ManagerTypeOK
<1>2. ASSUME NEW kind \in {"planned", "stop"}, RequestRestart(kind)
      PROVE  ManagerInv'
  BY <1>1, <1>2, RequestKeeps DEF RequestRestart, Kinds
<1>3. CASE EnsureRunning
  <2>1. CASE appliedEpoch < requestedEpoch
    BY <1>1, <1>3, <2>1, BeginKeeps DEF EnsureRunning
  <2>2. CASE ~(appliedEpoch < requestedEpoch)
    BY <1>1, <1>3, <2>2, RequestKeeps DEF EnsureRunning, Kinds
  <2> QED  BY <2>1, <2>2
<1>4. CASE TakeOwnership
  BY <1>1, <1>4, BeginKeeps DEF TakeOwnership
<1>5. ASSUME NEW running \in Nat, Recover(running), process' \in {process, 0}, hung' \in BOOLEAN,
             alive' \subseteq Nat, faults' \in Nat,
             In("reaping") \/ In("starting") => process' = process,
             UNCHANGED <<bootGeneration, appliedEpoch, resumeLifecycleAfterStop>>
      PROVE  ManagerInv'
  <2>1. CASE unresponsiveRecovery = 0
    BY <1>5, <2>1, RequestKeeps DEF Recover, Kinds
  <2>2. CASE unresponsiveRecovery # 0
    <3>1. UNCHANGED <<calls, restartRequests, activeTransition, unresponsiveRecovery>>
      BY <1>5, <2>2 DEF Recover
    <3>2. ManagerTypeOK'
      BY <1>1, <1>5, <3>1 DEF ManagerTypeOK
    <3>3. EpochsOK' /\ RecoveryOK' /\ StagesOK'
      BY <1>5, <3>1 DEF EpochsOK, RecoveryOK, StagesOK, Active, In
    <3>4. \A e \in DOMAIN calls' : CallOK(e)'
      BY <1>5, <3>1 DEF CallOK, Covered, Active, In
    <3> QED  BY <3>2, <3>3, <3>4
  <2> QED  BY <2>1, <2>2
<1>6. CASE ProcessExits
  BY <1>1, <1>5, <1>6, FaultCounted DEF ProcessExits, StagesOK
<1>7. CASE UnkillableExits
  BY <1>1, <1>7, RequestKeeps DEF UnkillableExits, Kinds
<1>8. CASE Hang
  <2>1. faults' \in Nat
    BY <1>8, FaultCounted DEF Hang
  <2> QED
    BY <1>8, <2>1 DEF Hang, ManagerTypeOK, EpochsOK, RecoveryOK, StagesOK, CallOK, Covered, Active, In
<1>9. CASE ReportUnresponsive
  BY <1>1, <1>5, <1>9 DEF ReportUnresponsive
<1> QED  BY <1>2, <1>3, <1>4, <1>6, <1>7, <1>8, <1>9

\* emitRestartBegin returns: the requests made meanwhile are covered.
LEMMA PreparationKeeps ==
    ASSUME ManagerInv, NEW outcome, PreparationEnds(outcome)
    PROVE  ManagerInv'
<1> USE DEF ManagerInv
<1>1. Len(calls) \in Nat /\ DOMAIN calls = 1..Len(calls)
  BY LenProperties DEF ManagerTypeOK
<1>2. /\ activeTransition' \in Transition
      /\ activeTransition'.state = "stopping"
      /\ activeTransition'.covered = Len(calls)
      /\ activeTransition'.kind = Escalated(activeTransition.kind)
      /\ restartRequests' = {}
  BY <1>1 DEF PreparationEnds, Transition, Escalated, Kinds, requestedEpoch, ManagerTypeOK
<1>3. ManagerTypeOK'
  BY <1>2 DEF PreparationEnds, ManagerTypeOK
<1>4. EpochsOK' /\ RecoveryOK' /\ StagesOK'
  BY <1>1, <1>2 DEF PreparationEnds, EpochsOK, RecoveryOK, StagesOK, Active, In, ManagerTypeOK
<1>5. ASSUME NEW e \in DOMAIN calls' PROVE CallOK(e)'
  <2>1. Covered(e)' /\ ~In("ready")'
    BY <1>1, <1>2 DEF PreparationEnds, Covered, Active, In
  <2>2. CallOK(e) /\ UNCHANGED <<calls, bootGeneration>>
    BY DEF PreparationEnds
  <2> QED  BY <1>2, <2>1, <2>2 DEF CallOK, Escalated
<1> QED  BY <1>3, <1>4, <1>5

LEMMA StopKeeps ==
    ASSUME ManagerInv, StopProcess PROVE ManagerInv'
<1>1. /\ Active /\ activeTransition' \in Transition /\ activeTransition'.state = "reaping"
      /\ activeTransition'.covered = activeTransition.covered
      /\ activeTransition'.kind = activeTransition.kind /\ process' = 0 /\ hung' = FALSE
      /\ alive' \subseteq Nat /\ UNCHANGED bootGeneration
  BY DEF ManagerInv, ManagerTypeOK, StopProcess, Transition, Active, In
<1>2. StagesOK'
  BY <1>1 DEF StagesOK, In
<1>3. /\ UNCHANGED <<calls, appliedEpoch, restartRequests, unresponsiveRecovery,
                     resumeLifecycleAfterStop, faults>>
      /\ 0 \in Nat /\ FALSE \in BOOLEAN
  BY DEF StopProcess
<1> QED
  BY <1>1, <1>2, <1>3, StageKeeps

LEMMA ReapedKeeps ==
    ASSUME ManagerInv, Reaped PROVE ManagerInv'
<1> USE DEF ManagerInv, Reaped
<1>1. /\ Active /\ process' = 0 /\ hung' \in BOOLEAN /\ faults' \in Nat /\ alive' \subseteq Nat
      /\ UNCHANGED <<restartRequests, bootGeneration>>
  BY DEF Active, In, ManagerTypeOK, StagesOK
<1>2. CASE activeTransition.kind = "stop"
  <2>1. \A e \in DOMAIN calls :
          calls[e].kind = "crash" /\ calls[e].result = "waiting" => ~Covered(e)
    BY <1>2 DEF CallOK
  <2>2. resumeLifecycleAfterStop' \in BOOLEAN /\ End(TRUE) /\ process' \in Nat
    BY <1>1, <1>2 DEF ManagerTypeOK, Transition
  <2> HIDE DEF ManagerInv, Reaped
  <2> QED  BY <1>1, <2>1, <2>2, EndKeeps
<1>3. CASE activeTransition.kind # "stop"
  <2>1. /\ activeTransition' \in Transition /\ activeTransition'.state = "starting"
        /\ activeTransition'.covered = activeTransition.covered
        /\ activeTransition'.kind = activeTransition.kind
    BY <1>3 DEF Advance, ManagerTypeOK, Transition
  <2>2. StagesOK'
    BY <1>1, <1>3, <2>1 DEF StagesOK, In
  <2> QED  BY <1>1, <1>3, <2>1, <2>2, StageKeeps
<1> QED  BY <1>2, <1>3

LEMMA FailKeeps ==
    ASSUME ManagerInv, RefuseOverlap \/ FailStart PROVE ManagerInv'
<1>1. /\ Active /\ End(FALSE) /\ faults' \in Nat /\ UNCHANGED <<restartRequests, bootGeneration>>
      /\ process' \in Nat /\ hung' \in BOOLEAN /\ alive' \subseteq Nat
      /\ resumeLifecycleAfterStop' \in BOOLEAN
  BY FaultCounted DEF RefuseOverlap, FailStart, Active, In, ManagerInv, ManagerTypeOK
<1> QED  BY <1>1, EndKeeps

LEMMA StartKeeps ==
    ASSUME ManagerInv, StartWorkerd PROVE ManagerInv'
<1> USE DEF ManagerInv, StartWorkerd
<1>1. /\ Active /\ process' \in Nat /\ hung' \in BOOLEAN /\ faults' \in Nat /\ alive' \subseteq Nat
      /\ UNCHANGED <<restartRequests, resumeLifecycleAfterStop>>
      /\ bootGeneration \in Nat /\ bootGeneration' = bootGeneration + 1
  BY DEF Active, In, ManagerTypeOK
<1>2. CASE OwesReady
  <2>1. /\ activeTransition' \in Transition /\ activeTransition'.state = "ready"
        /\ activeTransition'.covered = activeTransition.covered
        /\ activeTransition'.kind = activeTransition.kind
    BY <1>2 DEF Advance, ManagerTypeOK, Transition
  <2>2. StagesOK'
    BY <1>1, <2>1 DEF StagesOK, In
  <2> QED  BY <1>1, <1>2, <2>1, <2>2, StageKeeps
<1>3. CASE ~OwesReady
  <2>1. \A e \in DOMAIN calls : calls[e].since < bootGeneration'
    <3> TAKE e \in DOMAIN calls
    <3>1. CallOK(e) /\ calls[e].since \in Nat
      BY CallsAreCalls
    <3> QED  BY <1>1, <3>1 DEF CallOK
  <2>2. End(TRUE) /\ resumeLifecycleAfterStop' \in BOOLEAN
    BY <1>3 DEF ManagerTypeOK
  <2> QED  BY <1>1, <2>1, <2>2, EndKeeps
<1> QED  BY <1>2, <1>3

LEMMA ReadyKeeps ==
    ASSUME ManagerInv, NEW ok \in BOOLEAN, ReadyEnds(ok) PROVE ManagerInv'
<1> USE DEF ManagerInv, ReadyEnds
<1>1. /\ Active /\ process' \in Nat /\ hung' \in BOOLEAN /\ faults' \in Nat /\ alive' \subseteq Nat
      /\ UNCHANGED <<restartRequests, bootGeneration>> /\ resumeLifecycleAfterStop' \in BOOLEAN
      /\ End(ok)
  BY DEF Active, In, ManagerTypeOK
<1>2. \A e \in DOMAIN calls : Covered(e) => calls[e].since < bootGeneration'
  BY <1>1 DEF CallOK
<1> QED  BY <1>1, <1>2, EndKeeps

-----------------------------------------------------------------------------
(* What requests, exits and stages do to the owner. *)

\* What a request leaves of a run: the run itself, or a run that it begins.
RunStays ==
    /\ activeTransition'.state = activeTransition.state
    /\ activeTransition'.kind = activeTransition.kind
    /\ activeTransition'.hadProcess = activeTransition.hadProcess
    /\ activeTransition'.prepDegraded = activeTransition.prepDegraded
    /\ activeTransition'.prepAbort => activeTransition.prepAbort \/ "crash" \in restartRequests'
    /\ restartRequests \subseteq restartRequests'

RunBegins ==
    /\ ~Active
    /\ activeTransition'.state =
           IF activeTransition'.kind # "crash" /\ process' # 0 THEN "preparing" ELSE "stopping"
    /\ activeTransition'.hadProcess = (process' # 0)
    /\ ~activeTransition'.prepDegraded /\ ~activeTransition'.prepAbort
    /\ "crash" \in restartRequests => activeTransition'.kind = "crash"

LEMMA RequestMoves ==
    ASSUME ManagerInv, NEW kind \in Kinds, Request(kind, process'), process' \in Nat
    PROVE  /\ RunStays \/ RunBegins
           /\ kind = "crash" => (activeTransition'.kind = "crash" /\ Active') \/ "crash" \in restartRequests'
<1> USE DEF ManagerInv
<1>1. CASE Active
  <2>1. /\ restartRequests' = restartRequests \cup {kind}
        /\ activeTransition' = Preempted(activeTransition, kind)
    BY <1>1 DEF Request
  <2> QED  BY <2>1, PreemptedRun DEF RunStays, ManagerTypeOK
<1>2. CASE ~Active
  <2> DEFINE requests == restartRequests \cup {kind}
             epoch == requestedEpoch + 1
  <2>1. requests \in SUBSET Kinds /\ epoch \in Nat /\ restartRequests \subseteq requests /\ kind \in requests
    BY LenProperties DEF requestedEpoch, ManagerTypeOK
  <2>2. activeTransition' = Begun(requests, epoch, process')
    BY <1>2 DEF Request
  <2> HIDE DEF requests, epoch
  <2>3. /\ activeTransition'.kind = Classify(requests)
        /\ activeTransition'.state = IF activeTransition'.kind # "crash" /\ process' # 0
                                      THEN "preparing" ELSE "stopping"
        /\ activeTransition'.hadProcess = (process' # 0)
        /\ ~activeTransition'.prepDegraded /\ ~activeTransition'.prepAbort
        /\ "crash" \in requests <=> activeTransition'.kind = "crash"
    BY <2>1, <2>2, BegunRun
  <2> QED  BY <1>2, <2>1, <2>3 DEF RunBegins, Active, In
<1> QED  BY <1>1, <1>2

LEMMA BeginMoves ==
    ASSUME ManagerInv, ~Active, process' \in Nat,
           activeTransition' = Begun(restartRequests, requestedEpoch, process')
    PROVE  RunBegins
<1> DEFINE epoch == requestedEpoch
<1>1. epoch \in Nat /\ restartRequests \in SUBSET Kinds
  BY LenProperties DEF requestedEpoch, ManagerInv, ManagerTypeOK
<1>2. activeTransition' = Begun(restartRequests, epoch, process')
  OBVIOUS
<1> HIDE DEF epoch
<1> QED  BY <1>1, <1>2, BegunRun DEF RunBegins

\* The steps that only make or share requests.
Asking ==
    \/ \E kind \in {"planned", "stop"} : RequestRestart(kind)
    \/ EnsureRunning \/ TakeOwnership \/ UnkillableExits \/ Hang \/ ReportUnresponsive

LEMMA AskingMoves ==
    ASSUME ManagerInv, Asking
    PROVE  (RunStays \/ RunBegins) /\ UNCHANGED <<process, resumeLifecycleAfterStop>>
<1>1. process \in Nat
  BY DEF ManagerInv, ManagerTypeOK
<1>2. UNCHANGED <<process, resumeLifecycleAfterStop>>
  BY DEF Asking, RequestRestart, EnsureRunning, TakeOwnership, UnkillableExits, Hang, ReportUnresponsive
<1>3. CASE UNCHANGED <<activeTransition, restartRequests>>
  <2>1. activeTransition' = activeTransition /\ restartRequests' = restartRequests
    BY <1>3
  <2> QED  BY <1>2, <2>1 DEF RunStays
<1>4. CASE \E kind \in Kinds : Request(kind, process')
  BY <1>1, <1>2, <1>4, RequestMoves
<1>5. CASE ~Active /\ activeTransition' = Begun(restartRequests, requestedEpoch, process')
  BY <1>1, <1>2, <1>5, BeginMoves
<1>6. \A running : Recover(running) =>
          Request("crash", running) \/ UNCHANGED <<activeTransition, restartRequests>>
  BY DEF Recover
<1>7. \/ \E kind \in {"planned", "stop"} : RequestRestart(kind)
      \/ UnkillableExits \/ ReportUnresponsive \/ Hang
      => (\E kind \in Kinds : Request(kind, process')) \/ UNCHANGED <<activeTransition, restartRequests>>
  BY <1>2, <1>6 DEF RequestRestart, UnkillableExits, ReportUnresponsive, Hang, Kinds
<1>8. EnsureRunning \/ TakeOwnership =>
          \/ \E kind \in Kinds : Request(kind, process')
          \/ ~Active /\ activeTransition' = Begun(restartRequests, requestedEpoch, process')
  BY <1>2 DEF EnsureRunning, TakeOwnership, Kinds
<1> QED
  BY <1>2, <1>3, <1>4, <1>5, <1>7, <1>8 DEF Asking

\* After an exit of the process a crash run is under way or queued.
LEMMA ExitMoves ==
    ASSUME ManagerInv, ProcessExits
    PROVE  /\ RunStays \/ RunBegins
           /\ UNCHANGED resumeLifecycleAfterStop /\ process # 0 /\ process' = 0
           /\ (activeTransition'.kind = "crash" /\ Active') \/ "crash" \in restartRequests'
<1>1. UNCHANGED resumeLifecycleAfterStop /\ process # 0 /\ process' = 0 /\ Recover(0)
  BY DEF ProcessExits
<1>2. CASE unresponsiveRecovery = 0
  <2>1. Request("crash", process') /\ "crash" \in Kinds /\ process' \in Nat
    BY <1>1, <1>2 DEF Recover, Kinds
  <2> QED  BY <1>1, <2>1, RequestMoves
<1>3. CASE unresponsiveRecovery # 0
  <2>1. UNCHANGED <<restartRequests, activeTransition>>
    BY <1>1, <1>3 DEF Recover
  <2>2. RunStays
    BY <2>1 DEF RunStays
  <2>3. (activeTransition.kind = "crash" /\ Active) \/ "crash" \in restartRequests
    BY <1>3 DEF ManagerInv, RecoveryOK, CallOK, Covered
  <2> QED  BY <1>1, <2>1, <2>2, <2>3 DEF Active
<1> QED  BY <1>2, <1>3

-----------------------------------------------------------------------------
\* The hooks leave the manager alone, except where they end.
LEMMA ManagerKeeps ==
    ASSUME ManagerInv, Next PROVE ManagerInv'
<1> USE DEF ManagerInv
<1>1. CASE ManagerStep \/ Exit
  <2>1. \/ \E kind \in {"planned", "stop"} : RequestRestart(kind)
        \/ EnsureRunning \/ TakeOwnership \/ ProcessExits \/ UnkillableExits
        \/ Hang \/ ReportUnresponsive \/ Reaped
    BY <1>1 DEF ManagerStep, Exit
  <2> QED  BY <2>1, RequestsKeep, ReapedKeeps
<1>2. CASE Stop \/ Start \/ FailRun
  BY <1>2, StopKeeps, StartKeeps, FailKeeps DEF Stop, Start, FailRun
<1>3. CASE FinishPreparation
  BY <1>3, PreparationKeeps DEF FinishPreparation
<1>4. CASE FinishReady
  <2>1. \E ok \in BOOLEAN : ReadyEnds(ok)
    BY <1>4 DEF FinishReady
  <2> QED  BY <2>1, ReadyKeeps
<1>5. CASE UNCHANGED managerVars
  <2>1. UNCHANGED unfaulted /\ faults' \in Nat
    BY <1>5 DEF managerVars, ManagerTypeOK
  <2> QED  BY <2>1, ManagerRests
<1>6. CASE Refuse
  BY <1>6, FaultCounted, ManagerRests DEF Refuse
<1>7. (\E t \in Targets : \/ AnswerPhase(t) \/ RefusePhase(t) \/ Cancel(t)
                         \/ Resume(t) \/ RefuseResume(t) \/ RecordResume(t)
                         \/ Acquire(t) \/ Relinquish(t)) =>
          UNCHANGED managerVars \/ Refuse
  BY DEF AnswerPhase, RefusePhase, Cancel, Resume, RefuseResume, RecordResume, Acquire, Relinquish
<1>8. OpenEpoch \/ ListLeases \/ RefuseDelivery \/ JoinPhase \/ Journal \/ ListTargets \/ OpenCrashEpoch =>
          UNCHANGED managerVars \/ Refuse
  BY DEF OpenEpoch, ListLeases, RefuseDelivery, JoinPhase, Journal, ListTargets, OpenCrashEpoch,
         beginOnly
<1> QED
  BY <1>1, <1>2, <1>3, <1>4, <1>5, <1>6, <1>7, <1>8 DEF Next, DriverStep

LEMMA InitManager == Init => ManagerInv
<1> SUFFICES ASSUME Init PROVE ManagerInv  OBVIOUS
<1> USE DEF Init, ManagerInit
<1>1. NoTransition \in Transition /\ NoTransition.state = "none"
  BY DEF NoTransition, Transition, Kinds
<1>2. calls \in Seq(Call) /\ Len(calls) = 0 /\ DOMAIN calls = {}
  OBVIOUS
<1>3. /\ process = 1 /\ alive = {1} /\ hung = FALSE /\ bootGeneration = 1
      /\ appliedEpoch = 0 /\ restartRequests = {} /\ activeTransition = NoTransition
      /\ unresponsiveRecovery = 0 /\ resumeLifecycleAfterStop = FALSE /\ faults = 0
  OBVIOUS
<1> HIDE DEF Init, ManagerInit
<1>4. ManagerTypeOK
  <2>1. calls \in Seq(Call)
    BY <1>2
  <2>2. hung \in BOOLEAN /\ resumeLifecycleAfterStop \in BOOLEAN
    BY <1>3, Zenon
  <2>4. /\ process \in Nat /\ bootGeneration \in Nat /\ appliedEpoch \in Nat
        /\ unresponsiveRecovery \in Nat /\ faults \in Nat
    BY <1>3
  <2>5. alive \subseteq Nat /\ restartRequests \subseteq Kinds
    BY <1>3
  <2>3. activeTransition \in Transition
    BY <1>1, <1>3
  <2> QED  BY <2>1, <2>2, <2>3, <2>4, <2>5 DEF ManagerTypeOK
<1> QED
  BY <1>1, <1>2, <1>3, <1>4 DEF ManagerInv, EpochsOK, RecoveryOK, StagesOK, Active, In

LEMMA ManagerInvariant == Spec => []ManagerInv
<1>1. ManagerInv /\ [Next]_vars => ManagerInv'
  <2> SUFFICES ASSUME ManagerInv, [Next]_vars PROVE ManagerInv'  OBVIOUS
  <2>1. CASE UNCHANGED vars
    <3>1. UNCHANGED unfaulted /\ faults' \in Nat
      BY <2>1 DEF vars, managerVars, ManagerInv, ManagerTypeOK
    <3> QED  BY <3>1, ManagerRests
  <2> QED  BY <2>1, ManagerKeeps
<1> QED  BY <1>1, InitManager, PTL DEF Spec

\* The owner run and the requests it absorbs: a crash recovery that succeeds
\* has replaced the generation of its caller, for any number of requests.
THEOREM CrashRecoveriesReplaceTheGeneration == Spec => []CrashGetsNewGeneration
<1>1. ManagerInv => CrashGetsNewGeneration
  <2> SUFFICES ASSUME ManagerInv, NEW e \in DOMAIN calls,
                      calls[e].kind = "crash", calls[e].result = "ok"
               PROVE  bootGeneration > calls[e].since
    BY DEF CrashGetsNewGeneration
  <2>1. calls[e].since < bootGeneration
    BY DEF ManagerInv, CallOK
  <2>2. calls[e].since \in Nat /\ bootGeneration \in Nat
    BY CallsAreCalls DEF ManagerInv, ManagerTypeOK
  <2> QED  BY <2>1, <2>2
<1> QED  BY <1>1, ManagerInvariant, PTL

-----------------------------------------------------------------------------
(* The stages of the hooks. *)

DriverTypeOK ==
    /\ leases \subseteq Targets /\ epochOps \subseteq Targets /\ staleOps \subseteq Targets
    /\ begin \in BeginState /\ ready \in ReadyState
    /\ admission \in [Targets -> {"open", "quiesced", "released"}]
    /\ holders \subseteq Targets /\ suspended \subseteq Targets /\ late \subseteq Activations
    /\ undermined \in BOOLEAN

\* The begin hook runs in the process it prepares, until that is stopped; the
\* ready hook runs in the ready stage.
HooksInTurn ==
    /\ begin.pc = "none" => begin = NoBegin
    /\ begin.pc # "none" => process # 0 /\ (In("preparing") \/ In("stopping"))
    /\ begin.pc = "listing" => begin = [NoBegin EXCEPT !.pc = "listing"]
    /\ begin.pending \subseteq begin.targets
    /\ ready.pc = "none" => ready = NoReady
    /\ ready.pc # "none" <=> In("ready")

HookInv == ManagerInv /\ DriverTypeOK /\ HooksInTurn

-----------------------------------------------------------------------------
LEMMA PhaseNames ==
    /\ DOMAIN Phases = 1..6
    /\ \A i \in 1..6 : /\ Phases[i] = "quiesce" <=> i = 1
                       /\ Phases[i] = "delivery" <=> i = 4
                       /\ Phases[i] = "release" <=> i = 6
BY DEF Phases

LEMMA NoHooks ==
    /\ NoBegin \in BeginState /\ NoBegin.pc = "none" /\ NoBegin.targets = {} /\ NoBegin.pending = {}
    /\ NoReady \in ReadyState /\ NoReady.pc = "none" /\ NoReady.recording = {} /\ NoReady.targets = {}
    /\ NoReady.failed = {} /\ NoBegin.phase = 1 /\ NoBegin.failed = {}
<1>1. 1 \in DOMAIN Phases
  BY PhaseNames
<1> QED  BY <1>1 DEF NoBegin, NoReady, BeginState, ReadyState

LEMMA AskingKeepsHooks ==
    ASSUME HookInv, ManagerStep PROVE DriverTypeOK' /\ HooksInTurn'
<1> USE DEF HookInv
<1>1. UNCHANGED driverVars /\ (Asking \/ Reaped)
  BY DEF ManagerStep, Asking
<1>2. UNCHANGED <<leases, epochOps, staleOps, begin, ready, admission, holders, suspended, late, undermined>>
  BY <1>1 DEF driverVars
<1>3. DriverTypeOK'
  BY <1>2 DEF DriverTypeOK
<1>4. CASE Asking
  <2>1. (RunStays \/ RunBegins) /\ UNCHANGED process
    BY <1>4, AskingMoves
  <2> QED
    BY <1>2, <1>3, <2>1 DEF HooksInTurn, RunStays, RunBegins, In, Active
<1>5. CASE Reaped
  <2>1. /\ activeTransition.state = "reaping" /\ activeTransition'.state \in {"starting", "none"}
        /\ UNCHANGED process
    BY <1>5 DEF Reaped, In, End, Advance, NoTransition, ManagerInv, ManagerTypeOK, Transition
  <2> QED
    BY <1>2, <1>3, <2>1 DEF HooksInTurn, In
<1> QED  BY <1>1, <1>4, <1>5

LEMMA DestroyKeepsHooks ==
    ASSUME HookInv, Stop \/ Exit PROVE DriverTypeOK' /\ HooksInTurn'
<1> USE DEF HookInv
<1>1. Destroy /\ UNCHANGED <<leases, epochOps, staleOps, ready, late, undermined>>
  BY DEF Stop, Exit, durableRows
<1>2. begin' = NoBegin /\ begin' \in BeginState
  BY <1>1, NoHooks DEF Destroy
<1>3. DriverTypeOK'
  BY <1>1, <1>2 DEF DriverTypeOK, Destroy, Open
<1>4. activeTransition'.state = "ready" <=> activeTransition.state = "ready"
  <2>1. CASE Stop
    BY <2>1 DEF Stop, StopProcess, In, ManagerInv, ManagerTypeOK, Transition
  <2>2. CASE Exit
    BY <2>2, ExitMoves DEF Exit, RunStays, RunBegins, Active, In
  <2> QED  BY <2>1, <2>2
<1>5. HooksInTurn'
  BY <1>1, <1>2, <1>4, NoHooks DEF HooksInTurn, In
<1> QED  BY <1>3, <1>5

LEMMA StartKeepsHooks ==
    ASSUME HookInv, Start \/ FailRun PROVE DriverTypeOK' /\ HooksInTurn'
<1> USE DEF HookInv
<1>1. /\ UNCHANGED <<leases, epochOps, staleOps, begin, admission, holders, suspended, late>>
      /\ begin = NoBegin /\ ready = NoReady
  BY DEF Start, FailRun, durableRows, StartWorkerd, RefuseOverlap, FailStart, In, HooksInTurn
<1>2. CASE Start /\ OwesReady
  <2>1. ready' = [NoReady EXCEPT !.pc = "listing"] /\ UNCHANGED undermined
    BY <1>2 DEF Start
  <2>2. ready' \in ReadyState /\ ready'.pc = "listing"
    BY <2>1, NoHooks DEF ReadyState
  <2>3. activeTransition'.state = "ready"
    BY <1>2 DEF Start, StartWorkerd, Advance, ManagerInv, ManagerTypeOK, Transition
  <2>4. DriverTypeOK'
    BY <1>1, <2>1, <2>2 DEF DriverTypeOK
  <2> QED
    BY <1>1, <2>2, <2>3, <2>4, NoHooks DEF HooksInTurn, In
<1>3. CASE (Start /\ ~OwesReady) \/ FailRun
  <2>1. activeTransition' = NoTransition
    BY <1>3 DEF Start, StartWorkerd, FailRun, RefuseOverlap, FailStart, End
  <2>2. UNCHANGED ready /\ undermined' \in BOOLEAN
    BY <1>1, <1>3 DEF Start, FailRun, Undermines, DriverTypeOK
  <2>3. DriverTypeOK'
    BY <1>1, <2>2 DEF DriverTypeOK
  <2> QED
    BY <1>1, <2>1, <2>2, <2>3, NoHooks DEF HooksInTurn, In, NoTransition
<1> QED  BY <1>2, <1>3

\* The process and the stage of the run, which most hook steps leave alone.
LEMMA HookSteps ==
    ASSUME Next
    PROVE  \/ ManagerStep \/ Stop \/ Exit \/ Start \/ FailRun \/ FinishPreparation \/ FinishReady
           \/ UNCHANGED <<process, activeTransition, resumeLifecycleAfterStop, restartRequests>>
<1>1. OpenEpoch \/ ListLeases \/ RefuseDelivery \/ JoinPhase \/ Journal \/ ListTargets \/ OpenCrashEpoch =>
          UNCHANGED managerVars \/ Refuse
  BY DEF OpenEpoch, ListLeases, RefuseDelivery, JoinPhase, Journal, ListTargets, OpenCrashEpoch,
         beginOnly
<1>2. (\E t \in Targets : \/ AnswerPhase(t) \/ RefusePhase(t) \/ Cancel(t)
                         \/ Resume(t) \/ RefuseResume(t) \/ RecordResume(t)
                         \/ Acquire(t) \/ Relinquish(t)) =>
          UNCHANGED managerVars \/ Refuse
  BY DEF AnswerPhase, RefusePhase, Cancel, Resume, RefuseResume, RecordResume, Acquire, Relinquish
<1>3. UNCHANGED managerVars \/ Refuse =>
          UNCHANGED <<process, activeTransition, resumeLifecycleAfterStop, restartRequests>>
  BY DEF managerVars, Refuse, unfaulted
<1> QED
  BY <1>1, <1>2, <1>3 DEF Next, DriverStep

Undisturbed == UNCHANGED <<process, activeTransition, resumeLifecycleAfterStop, restartRequests>>

\* The steps of the begin hook.
BeginStep ==
    \/ OpenEpoch \/ ListLeases \/ RefuseDelivery \/ JoinPhase \/ Journal
    \/ \E t \in Targets : AnswerPhase(t) \/ RefusePhase(t) \/ Cancel(t)

LEMMA BeginStepKeeps ==
    ASSUME HookInv, Undisturbed, BeginStep
    PROVE  /\ DriverTypeOK' /\ HooksInTurn' /\ UNCHANGED ready
<1> USE DEF HookInv
<1>1. UNCHANGED <<ready, undermined>> /\ process # 0 /\ ready = NoReady
      /\ (In("preparing") \/ In("stopping"))
  BY DEF BeginStep, OpenEpoch, ListLeases, RefuseDelivery, JoinPhase, Journal, AnswerPhase, RefusePhase,
         Cancel, beginOnly, Preparing, In, HooksInTurn, Answering, NoBegin
<1>2. leases' \subseteq Targets /\ holders' \subseteq Targets /\ suspended' \subseteq Targets
      /\ admission' \in [Targets -> {"open", "quiesced", "released"}] /\ late' \subseteq Activations
  <2>1. CASE OpenEpoch
    BY <2>1 DEF OpenEpoch, DriverTypeOK
  <2>2. CASE ~OpenEpoch
    <3>1. late' = late
      BY <2>2 DEF BeginStep, ListLeases, RefuseDelivery, JoinPhase, Journal, AnswerPhase, RefusePhase,
         Cancel, beginOnly
    <3>2. leases' \subseteq Targets /\ holders' \subseteq Targets /\ suspended' \subseteq Targets
          /\ admission' \in [Targets -> {"open", "quiesced", "released"}]
      <4>1. CASE ListLeases \/ RefuseDelivery \/ JoinPhase \/ Journal \/ \E t \in Targets : Cancel(t)
        BY <4>1 DEF ListLeases, RefuseDelivery, JoinPhase, Journal, Cancel, beginOnly, DriverTypeOK
      <4>2. ASSUME NEW t \in Targets, NEW refused \in BOOLEAN, PhaseEffect(t, refused)
            PROVE  /\ leases' \subseteq Targets /\ holders' \subseteq Targets /\ suspended' \subseteq Targets
                   /\ admission' \in [Targets -> {"open", "quiesced", "released"}]
        BY <4>2 DEF PhaseEffect, DriverTypeOK
      <4>3. CASE \E t \in Targets : AnswerPhase(t) \/ RefusePhase(t)
        BY <4>2, <4>3, Zenon DEF AnswerPhase, RefusePhase
      <4> QED  BY <2>2, <4>1, <4>3 DEF BeginStep
    <3> QED  BY <3>1, <3>2 DEF DriverTypeOK
  <2> QED  BY <2>1, <2>2
<1>3. epochOps' \subseteq Targets /\ staleOps' \subseteq Targets
  BY DEF BeginStep, OpenEpoch, ListLeases, RefuseDelivery, JoinPhase, Journal, AnswerPhase, RefusePhase,
         Cancel, beginOnly, DriverTypeOK
<1>4. /\ begin' \in BeginState /\ begin'.pc # "none" /\ begin'.pending \subseteq begin'.targets
      /\ begin'.pc = "listing" => begin' = [NoBegin EXCEPT !.pc = "listing"]
  <2> USE DEF BeginState, DriverTypeOK
  <2>1. CASE OpenEpoch
    BY <2>1, NoHooks DEF OpenEpoch, HooksInTurn
  <2>2. CASE ListLeases
    BY <2>2 DEF ListLeases
  <2>3. CASE RefuseDelivery
    BY <2>3 DEF RefuseDelivery, Quiesced
  <2>4. CASE JoinPhase
    <3>1. begin.phase \in 1..6 /\ (Phase # "release" => begin.phase + 1 \in 1..6)
      BY PhaseNames DEF Phase
    <3> QED  BY <2>4, <3>1, PhaseNames DEF JoinPhase, Quiesced, HooksInTurn
  <2>5. CASE Journal
    BY <2>5 DEF Journal, HooksInTurn
  <2>6. ASSUME NEW t \in Targets, AnswerPhase(t) \/ RefusePhase(t) \/ Cancel(t)
        PROVE  begin' \in BeginState /\ begin'.pc # "none" /\ begin'.pc # "listing"
               /\ begin'.pending \subseteq begin'.targets
    <3>1. CASE AnswerPhase(t)
      <4>1. begin.pc = "phase" /\ begin' = [begin EXCEPT !.pending = @ \ {t}]
        BY <3>1, Zenon DEF AnswerPhase
      <4> QED  BY <4>1 DEF HooksInTurn
    <3>2. CASE RefusePhase(t)
      <4>1. /\ begin.pc = "phase"
            /\ begin' = [begin EXCEPT !.pending = @ \ {t}, !.failed = @ \cup {t}]
        BY <3>2, Zenon DEF RefusePhase
      <4>2. begin \in BeginState /\ begin.pending \subseteq begin.targets
        BY DEF HooksInTurn
      <4> DEFINE B == [begin EXCEPT !.pending = @ \ {t}]
      <4>3. /\ B \in BeginState /\ B.pc = "phase" /\ B.pending \subseteq begin.targets
            /\ B.targets = begin.targets
        BY <4>1, <4>2
      <4>4. begin' = [B EXCEPT !.failed = @ \cup {t}]
        BY <4>1, <4>2
      <4> HIDE DEF B, HookInv
      <4> QED  BY <4>3, <4>4
    <3>3. CASE Cancel(t)
      <4>1. begin.pc = "cancel"
        BY <3>3, Zenon DEF Cancel
      <4>2. CASE begin' = [begin EXCEPT !.pending = @ \ {t}]
        BY <4>1, <4>2 DEF HooksInTurn
      <4>3. CASE begin' = [begin EXCEPT !.pending = @ \ {t}, !.failed = @ \cup {t}]
        BY <4>1, <4>3 DEF HooksInTurn
      <4> QED  BY <3>3, <4>2, <4>3, Zenon DEF Cancel
    <3> QED  BY <2>6, <3>1, <3>2, <3>3
  <2> QED  BY <2>1, <2>2, <2>3, <2>4, <2>5, <2>6 DEF BeginStep
<1>5. DriverTypeOK'
  <2>1. ready' \in ReadyState /\ undermined' \in BOOLEAN
    <3>1. ready' = ready /\ undermined' = undermined
      BY <1>1, Zenon
    <3>2. ready \in ReadyState /\ undermined \in BOOLEAN
      BY Zenon DEF DriverTypeOK
    <3> QED  BY <3>1, <3>2, Zenon
  <2>2. begin' \in BeginState
    BY <1>4
  <2> QED  BY <1>2, <1>3, <2>1, <2>2 DEF DriverTypeOK
<1>6. HooksInTurn'
  <2>1. /\ process' # 0 /\ activeTransition' = activeTransition
        /\ ready' = NoReady /\ ~In("ready") /\ (In("preparing") \/ In("stopping"))
    BY <1>1 DEF Undisturbed, In
  <2>2. /\ begin'.pc # "none" /\ begin'.pending \subseteq begin'.targets
        /\ begin'.pc = "listing" => begin' = [NoBegin EXCEPT !.pc = "listing"]
    BY <1>4
  <2> QED  BY <2>1, <2>2, NoHooks DEF HooksInTurn, In
<1> QED  BY <1>1, <1>5, <1>6

\* The steps of the ready hook before it ends.
ReadyStep ==
    \/ ListTargets \/ OpenCrashEpoch
    \/ \E t \in Targets : Resume(t) \/ RefuseResume(t) \/ RecordResume(t)

LEMMA ReadyStepKeeps ==
    ASSUME HookInv, Undisturbed, ReadyStep
    PROVE  DriverTypeOK' /\ HooksInTurn' /\ UNCHANGED begin /\ In("ready") /\ begin = NoBegin
<1> USE DEF HookInv
<1>1. UNCHANGED <<begin, holders, late, undermined>>
  BY DEF ReadyStep, ListTargets, OpenCrashEpoch, Resume, RefuseResume, RecordResume, readyOnly
<1>2. In("ready")
  BY NoHooks DEF ReadyStep, ListTargets, OpenCrashEpoch, Resume, RefuseResume, RecordResume, HooksInTurn
<1>3. leases' \subseteq Targets /\ suspended' \subseteq Targets
      /\ admission' \in [Targets -> {"open", "quiesced", "released"}]
  BY DEF ReadyStep, ListTargets, OpenCrashEpoch, Resume, RefuseResume, RecordResume, DriverTypeOK
<1>4. epochOps' \subseteq Targets /\ staleOps' \subseteq Targets
  BY DEF ReadyStep, ListTargets, OpenCrashEpoch, Resume, RefuseResume, RecordResume, DriverTypeOK, Recorded
<1>5. ready' \in ReadyState /\ ready'.pc # "none"
  <2> USE DEF ReadyState, DriverTypeOK
  <2>1. CASE ListTargets
    BY <2>1 DEF ListTargets
  <2>2. CASE OpenCrashEpoch
    BY <2>2 DEF OpenCrashEpoch
  <2>3. ASSUME NEW t \in Targets, Resume(t) PROVE ready' \in ReadyState /\ ready'.pc # "none"
    BY <2>3 DEF Resume
  <2>4. ASSUME NEW t \in Targets, RefuseResume(t) PROVE ready' \in ReadyState /\ ready'.pc # "none"
    <3>1. ready.pc = "resuming" /\ ready' = [ready EXCEPT !.targets = @ \ {t}, !.recording = @ \cup {t},
                                                          !.failed = @ \cup {t}]
      BY <2>4, Zenon DEF RefuseResume
    <3> QED  BY <3>1
  <2>5. ASSUME NEW t \in Targets, RecordResume(t) PROVE ready' \in ReadyState /\ ready'.pc # "none"
    BY <1>2, <2>5 DEF RecordResume, HooksInTurn
  <2> QED  BY <2>1, <2>2, <2>3, <2>4, <2>5 DEF ReadyStep
<1>6. DriverTypeOK'
  BY <1>1, <1>3, <1>4, <1>5 DEF DriverTypeOK
<1>7. HooksInTurn' /\ begin = NoBegin
  BY <1>1, <1>2, <1>5 DEF HooksInTurn, Undisturbed, In
<1> QED  BY <1>1, <1>2, <1>6, <1>7

\* The ends of the hooks, and the leases of the activations.
LEMMA EndsKeepHooks ==
    ASSUME HookInv, FinishPreparation \/ FinishReady
    PROVE  DriverTypeOK' /\ HooksInTurn'
<1> USE DEF HookInv
<1>1. CASE FinishPreparation
  <2>1. /\ UNCHANGED <<leases, epochOps, staleOps, begin, ready, admission, holders, suspended, late, undermined>>
        /\ UNCHANGED process
        /\ activeTransition.state = "preparing" /\ activeTransition'.state = "stopping"
    BY <1>1 DEF FinishPreparation, PreparationEnds, driverVars, In, ManagerInv, ManagerTypeOK, Transition
  <2> QED  BY <2>1 DEF HooksInTurn, DriverTypeOK, In
<1>2. CASE FinishReady
  <2>1. /\ UNCHANGED <<leases, epochOps, staleOps, begin, admission, holders, suspended, late>>
        /\ ready' = NoReady /\ activeTransition.state = "ready" /\ activeTransition' = NoTransition
    BY <1>2 DEF FinishReady, ReadyEnds, End, In
  <2>2. undermined' \in BOOLEAN
    BY <1>2 DEF FinishReady, Undermines, Reconstructs, DriverTypeOK
  <2>3. DriverTypeOK'
    BY <2>1, <2>2, NoHooks DEF DriverTypeOK
  <2> QED  BY <2>1, <2>3, NoHooks DEF HooksInTurn, In, NoTransition
<1> QED  BY <1>1, <1>2

LEMMA LeasesKeepHooks ==
    ASSUME HookInv, Undisturbed, NEW t \in Targets, Acquire(t) \/ Relinquish(t)
    PROVE  DriverTypeOK' /\ HooksInTurn' /\ UNCHANGED <<begin, ready, epochOps, staleOps, admission, undermined>>
<1> USE DEF HookInv
<1>1. UNCHANGED <<begin, ready, epochOps, staleOps, admission, undermined>>
  BY DEF Acquire, Relinquish
<1>2. DriverTypeOK'
  BY <1>1 DEF Acquire, Relinquish, DriverTypeOK
<1> QED  BY <1>1, <1>2 DEF HooksInTurn, Undisturbed, In

\* What a step of the composition may be.
Moves ==
    \/ ManagerStep \/ Stop \/ Exit \/ Start \/ FailRun \/ FinishPreparation \/ FinishReady
    \/ Undisturbed /\ \/ BeginStep \/ ReadyStep
                      \/ \E t \in Targets : Acquire(t) \/ Relinquish(t)

LEMMA NextMoves == Next => Moves
<1> SUFFICES ASSUME Next PROVE Moves  OBVIOUS
<1>1. \/ ManagerStep \/ Stop \/ Exit \/ Start \/ FailRun \/ FinishPreparation \/ FinishReady
      \/ BeginStep \/ ReadyStep \/ \E t \in Targets : Acquire(t) \/ Relinquish(t)
  BY DEF Next, DriverStep, BeginStep, ReadyStep
<1> QED  BY <1>1, HookSteps DEF Moves, Undisturbed

LEMMA HookInvariant == Spec => []HookInv
<1>1. Init => DriverTypeOK /\ HooksInTurn
  <2> SUFFICES ASSUME Init PROVE DriverTypeOK /\ HooksInTurn  OBVIOUS
  <2>1. ~In("ready")
    BY DEF Init, ManagerInit, NoTransition, In
  <2> QED  BY <2>1, NoHooks DEF Init, DriverTypeOK, HooksInTurn, Open
<1>2. HookInv /\ [Next]_vars => DriverTypeOK' /\ HooksInTurn'
  <2> SUFFICES ASSUME HookInv, [Next]_vars PROVE DriverTypeOK' /\ HooksInTurn'  OBVIOUS
  <2>1. CASE UNCHANGED vars
    BY <2>1 DEF vars, managerVars, unfaulted, driverVars, HookInv, DriverTypeOK, HooksInTurn, In
  <2>2. CASE Next
    BY <2>2, NextMoves, AskingKeepsHooks, DestroyKeepsHooks, StartKeepsHooks, BeginStepKeeps,
       ReadyStepKeeps, EndsKeepHooks, LeasesKeepHooks DEF Moves
  <2> QED  BY <2>1, <2>2
<1> QED  BY <1>1, <1>2, ManagerInvariant, PTL DEF Spec, HookInv

-----------------------------------------------------------------------------
(* Admission of the Durable Objects. *)

\* What the admission states are at each point of the begin hook.
AdmissionOK ==
    /\ begin.pc \in {"none", "listing"} => admission = Open
    /\ \A t \in Targets : admission[t] # "open" => t \in begin.targets
    /\ begin.pc = "phase" => \A t \in begin.targets :
         /\ begin.phase = 1 => admission[t] = IF t \in begin.pending THEN "open" ELSE "quiesced"
         /\ begin.phase \in 2..5 => admission[t] = "quiesced"
         /\ begin.phase = 6 => admission[t] \in {"quiesced", "released"}
    /\ begin.pc = "cancel" /\ begin.phase # 6 =>
         \A t \in Targets : /\ admission[t] # "released"
                            /\ admission[t] = "quiesced" => t \in begin.pending \cup begin.failed
    /\ begin.pc = "cancel" /\ begin.phase = 6 => begin.pending = {}
    /\ begin.pc \in {"journal", "ok"} => begin.phase = 6
    /\ begin.pc \in {"cancel", "journal", "ok", "failed"} /\ begin.phase = 6 =>
         \A t \in begin.targets : admission[t] # "open"
    /\ begin.pc = "failed" /\ begin.phase # 6 =>
         \A t \in Targets : /\ admission[t] # "released"
                            /\ admission[t] = "quiesced" => t \in begin.failed

LEMMA AdmissionRests ==
    ASSUME AdmissionOK, begin' = begin, admission' = admission PROVE AdmissionOK'
BY DEF AdmissionOK

LEMMA AdmissionOpens ==
    ASSUME begin' = NoBegin, admission' = Open PROVE AdmissionOK'
BY DEF AdmissionOK, NoBegin, Open

LEMMA ReadyOpens ==
    ASSUME HookInv, AdmissionOK, ReadyStep, begin' = begin, begin = NoBegin PROVE AdmissionOK'
<1>1. admission = Open
  BY DEF AdmissionOK, NoBegin
<1>2. admission' = Open
  BY <1>1 DEF ReadyStep, ListTargets, OpenCrashEpoch, Resume, RefuseResume, RecordResume, Open
<1> QED  BY <1>2, AdmissionOpens

LEMMA PhaseAdmits ==
    ASSUME HookInv, AdmissionOK, NEW t \in Targets, AnswerPhase(t) \/ RefusePhase(t)
    PROVE  AdmissionOK'
<1>1. /\ begin.pc = "phase" /\ t \in begin.pending /\ begin \in BeginState
      /\ begin.pending \subseteq begin.targets /\ begin.targets \subseteq Targets
      /\ admission \in [Targets -> {"open", "quiesced", "released"}]
  BY DEF AnswerPhase, RefusePhase, HookInv, DriverTypeOK, HooksInTurn, BeginState
<1>2. /\ begin'.pc = "phase" /\ begin'.phase = begin.phase /\ begin'.targets = begin.targets
      /\ begin'.pending = begin.pending \ {t}
  <2>1. CASE AnswerPhase(t)
    <3>1. begin' = [begin EXCEPT !.pending = @ \ {t}]
      BY <2>1, Zenon DEF AnswerPhase
    <3> QED  BY <1>1, <3>1 DEF BeginState
  <2>2. CASE RefusePhase(t)
    <3>1. begin' = [begin EXCEPT !.pending = @ \ {t}, !.failed = @ \cup {t}]
      BY <2>2, Zenon DEF RefusePhase
    <3> QED  BY <1>1, <3>1 DEF BeginState
  <2> QED  BY <2>1, <2>2
<1>3. begin.phase \in 1..6
  BY <1>1, PhaseNames DEF BeginState
<1>4. /\ begin.phase = 1 => admission' = [admission EXCEPT ![t] = "quiesced"]
      /\ begin.phase = 6 => admission' = [admission EXCEPT ![t] = "released"]
      /\ begin.phase \notin {1, 6} => admission' = admission
  <2>1. \E r \in BOOLEAN : PhaseEffect(t, r)
    BY DEF AnswerPhase, RefusePhase
  <2> QED  BY <1>3, <2>1, PhaseNames DEF PhaseEffect, Phase
<1> QED  BY <1>1, <1>2, <1>3, <1>4 DEF AdmissionOK

LEMMA CancelAdmits ==
    ASSUME HookInv, AdmissionOK, NEW t \in Targets, Cancel(t)
    PROVE  AdmissionOK'
<1>1. /\ begin.pc = "cancel" /\ begin \in BeginState /\ begin.targets \subseteq Targets
      /\ admission \in [Targets -> {"open", "quiesced", "released"}]
  BY DEF Cancel, HookInv, DriverTypeOK, BeginState
<1>2. CASE admission' = [admission EXCEPT ![t] = "open"] /\ begin' = [begin EXCEPT !.pending = @ \ {t}]
  <2>1. /\ begin'.pc = "cancel" /\ begin'.phase = begin.phase /\ begin'.targets = begin.targets
        /\ begin'.pending = begin.pending \ {t} /\ begin'.failed = begin.failed
    BY <1>1, <1>2 DEF BeginState
  <2>2. begin.phase # 6
    BY <1>1 DEF Cancel, AdmissionOK
  <2> QED  BY <1>1, <1>2, <2>1, <2>2 DEF AdmissionOK
<1>3. CASE admission' = admission
           /\ begin' = [begin EXCEPT !.pending = @ \ {t}, !.failed = @ \cup {t}]
  <2>1. /\ begin'.pc = "cancel" /\ begin'.phase = begin.phase /\ begin'.targets = begin.targets
        /\ begin'.pending = begin.pending \ {t} /\ begin'.failed = begin.failed \cup {t}
    BY <1>1, <1>3 DEF BeginState
  <2> QED  BY <1>1, <1>3, <2>1 DEF AdmissionOK
<1> QED  BY <1>2, <1>3, Zenon DEF Cancel

LEMMA JoinAdmits ==
    ASSUME HookInv, AdmissionOK, JoinPhase \/ RefuseDelivery
    PROVE  AdmissionOK'
<1>1. /\ begin.pc = "phase" /\ begin \in BeginState /\ begin.targets \subseteq Targets
      /\ admission \in [Targets -> {"open", "quiesced", "released"}]
      /\ admission' = admission
  BY DEF JoinPhase, RefuseDelivery, HookInv, DriverTypeOK, BeginState, beginOnly
<1>2. begin.phase \in 1..6 /\ begin.phase + 1 \in Nat
  BY <1>1, PhaseNames DEF BeginState
<1>3. \A t \in Targets : begin.phase # 6 => admission[t] # "released"
  BY <1>1, <1>2 DEF AdmissionOK
<1>4. CASE /\ begin' = [begin EXCEPT !.pc = "cancel", !.pending = Quiesced] \/
              begin' = [begin EXCEPT !.pc = "cancel", !.failed = {}, !.pending = Quiesced]
           /\ begin.phase # 6
  <2>1. /\ begin'.pc = "cancel" /\ begin'.phase = begin.phase /\ begin'.targets = begin.targets
        /\ begin'.pending = begin.targets
    BY <1>1, <1>4 DEF BeginState, Quiesced
  <2> QED  BY <1>1, <1>3, <1>4, <2>1 DEF AdmissionOK
<1>5. CASE /\ \/ begin' = [begin EXCEPT !.pc = "cancel", !.failed = {}, !.pending = {}]
              \/ begin' = [begin EXCEPT !.pc = "journal"]
           /\ begin.phase = 6 /\ begin.pending = {}
  <2>1. /\ begin'.pc \in {"cancel", "journal"} /\ begin'.phase = begin.phase
        /\ begin'.targets = begin.targets /\ begin'.pending = {}
    BY <1>1, <1>5 DEF BeginState
  <2> QED  BY <1>1, <1>5, <2>1 DEF AdmissionOK
<1>6. ASSUME NEW S, begin' = [begin EXCEPT !.phase = @ + 1, !.pending = S],
             begin.phase # 6, begin.pending = {}
      PROVE  AdmissionOK'
  <2>1. /\ begin'.pc = "phase" /\ begin'.phase = begin.phase + 1 /\ begin'.targets = begin.targets
    BY <1>1, <1>6 DEF BeginState
  <2>2. \A t \in begin.targets : admission[t] = "quiesced"
    BY <1>1, <1>2, <1>6 DEF AdmissionOK
  <2> QED  BY <1>1, <1>2, <1>6, <2>1, <2>2 DEF AdmissionOK
<1>7. CASE JoinPhase
  <2>1. Phase = "release" <=> begin.phase = 6
    BY <1>2, PhaseNames DEF Phase
  <2>2. begin.pending = {}
    BY <1>7 DEF JoinPhase, AllAnswered
  <2> DEFINE S == IF Phases[begin.phase + 1] = "delivery" THEN {} ELSE begin.targets
  <2>3. \/ begin' = [begin EXCEPT !.pc = "cancel", !.failed = {}, !.pending = {}]
           /\ Phase = "release"
        \/ begin' = [begin EXCEPT !.pc = "cancel", !.failed = {}, !.pending = Quiesced]
           /\ Phase # "release"
        \/ begin' = [begin EXCEPT !.pc = "journal"] /\ Phase = "release"
        \/ begin' = [begin EXCEPT !.phase = @ + 1, !.pending = S] /\ Phase # "release"
    BY <1>7, Zenon DEF JoinPhase
  <2> HIDE DEF S
  <2> QED  BY <2>1, <2>2, <2>3, <1>4, <1>5, <1>6
<1>8. CASE RefuseDelivery
  <2>1. begin' = [begin EXCEPT !.pc = "cancel", !.pending = Quiesced] /\ Phase = "delivery"
    BY <1>8, Zenon DEF RefuseDelivery
  <2>2. begin.phase # 6
    BY <1>2, <2>1, PhaseNames DEF Phase
  <2> QED  BY <2>1, <2>2, <1>4
<1> QED  BY <1>7, <1>8

LEMMA OpeningAdmits ==
    ASSUME HookInv, AdmissionOK, OpenEpoch \/ ListLeases \/ Journal
    PROVE  AdmissionOK'
<1>1. /\ begin \in BeginState /\ begin.targets \subseteq Targets /\ leases \subseteq Targets
      /\ admission \in [Targets -> {"open", "quiesced", "released"}]
      /\ admission' = admission
  BY DEF OpenEpoch, ListLeases, Journal, HookInv, DriverTypeOK, BeginState, beginOnly
<1>2. CASE OpenEpoch
  <2>1. begin = NoBegin /\ begin' = [begin EXCEPT !.pc = "listing"]
    BY <1>2 DEF OpenEpoch, HookInv, HooksInTurn
  <2>2. begin'.pc = "listing" /\ begin'.targets = begin.targets /\ begin.pc = "none"
    BY <2>1, NoHooks DEF BeginState
  <2> QED  BY <1>1, <2>2 DEF AdmissionOK
<1>3. CASE ListLeases
  <2>1. begin = [NoBegin EXCEPT !.pc = "listing"]
        /\ begin' = [begin EXCEPT !.pc = "phase", !.targets = leases, !.pending = leases]
    BY <1>3 DEF ListLeases, HookInv, HooksInTurn
  <2>2. /\ begin'.pc = "phase" /\ begin'.targets = leases /\ begin'.pending = leases
        /\ begin'.phase = 1 /\ begin.pc = "listing"
    BY <2>1 DEF NoBegin
  <2>3. admission = Open
    BY <2>2 DEF AdmissionOK
  <2> QED  BY <1>1, <2>2, <2>3 DEF AdmissionOK, Open
<1>4. CASE Journal
  <2>1. \/ begin.pc = "cancel" /\ begin.pending = {} /\ begin' = [begin EXCEPT !.pc = "failed"]
        \/ begin.pc = "journal" /\ begin' = [begin EXCEPT !.pc = "ok"]
    BY <1>4, Zenon DEF Journal
  <2>2. CASE begin.pc = "cancel" /\ begin.pending = {} /\ begin' = [begin EXCEPT !.pc = "failed"]
    <3>1. begin'.pc = "failed" /\ begin'.phase = begin.phase /\ begin'.targets = begin.targets
          /\ begin'.failed = begin.failed
      BY <1>1, <2>2 DEF BeginState
    <3> QED  BY <1>1, <2>2, <3>1 DEF AdmissionOK
  <2>3. CASE begin.pc = "journal" /\ begin' = [begin EXCEPT !.pc = "ok"]
    <3>1. begin'.pc = "ok" /\ begin'.phase = begin.phase /\ begin'.targets = begin.targets
      BY <1>1, <2>3 DEF BeginState
    <3> QED  BY <1>1, <2>3, <3>1 DEF AdmissionOK
  <2> QED  BY <2>1, <2>2, <2>3
<1> QED  BY <1>2, <1>3, <1>4

LEMMA AdmissionKeeps == ASSUME HookInv, AdmissionOK, Next PROVE AdmissionOK'
<1>1. CASE Stop \/ Exit
  BY <1>1, AdmissionOpens DEF Stop, Exit, Destroy
<1>2. CASE ManagerStep \/ Start \/ FailRun \/ FinishPreparation \/ FinishReady
  BY <1>2, AdmissionRests DEF ManagerStep, Start, FailRun, FinishPreparation, FinishReady, driverVars
<1>3. CASE Undisturbed /\ BeginStep
  BY <1>3, PhaseAdmits, CancelAdmits, JoinAdmits, OpeningAdmits DEF BeginStep
<1>4. CASE Undisturbed /\ ReadyStep
  BY <1>4, ReadyStepKeeps, ReadyOpens
<1>5. CASE \E t \in Targets : Acquire(t) \/ Relinquish(t)
  BY <1>5, AdmissionRests DEF Acquire, Relinquish
<1> QED  BY <1>1, <1>2, <1>3, <1>4, <1>5, NextMoves DEF Moves

LEMMA AdmissionInvariant == Spec => [](HookInv /\ AdmissionOK)
<1>1. Init => AdmissionOK
  BY DEF Init, AdmissionOK, NoBegin, Open
<1>2. HookInv /\ AdmissionOK /\ [Next]_vars => AdmissionOK'
  <2>1. ASSUME AdmissionOK, UNCHANGED vars PROVE AdmissionOK'
    BY <2>1, AdmissionRests DEF vars, driverVars
  <2> QED  BY <2>1, AdmissionKeeps
<1> QED  BY <1>1, <1>2, HookInvariant, PTL DEF Spec

\* Every variable of the owner, the driver, the tables and the Durable
\* Objects holds a value of its kind, whatever calls and faults occur.
THEOREM RestartTypeCorrect == Spec => []RestartTypeOK
<1>1. HookInv => RestartTypeOK
  BY DEF HookInv, ManagerInv, DriverTypeOK, RestartTypeOK
<1> QED  BY <1>1, HookInvariant, PTL

\* prepareTargets joins all targets between two phases: no Durable Object
\* releases its resources while another one of the preparation is still open.
THEOREM ReleasesAreJoined == Spec => []ReleaseIsJoined
<1>1. HookInv /\ AdmissionOK => ReleaseIsJoined
  <2> SUFFICES ASSUME HookInv, AdmissionOK, NEW t \in Targets, admission[t] = "released",
                      NEW other \in begin.targets
               PROVE  admission[other] # "open"
    BY DEF ReleaseIsJoined
  <2>1. t \in begin.targets /\ begin \in BeginState /\ begin.phase \in 1..6
    BY PhaseNames DEF AdmissionOK, HookInv, DriverTypeOK, BeginState
  <2>2. begin.pc \notin {"none", "listing"}
    BY DEF AdmissionOK, Open
  <2> QED  BY <2>1, <2>2 DEF AdmissionOK, BeginState
<1> QED  BY <1>1, AdmissionInvariant, PTL

\* cancelPreparation reopens every target that was quiesced: after a failed
\* preparation none is closed unless its cancel was refused.
THEOREM FailedPreparationsReopen == Spec => []FailedPreparationReopens
<1>1. HookInv /\ AdmissionOK => FailedPreparationReopens
  <2>1. HookInv => begin.phase \in 1..6
    BY PhaseNames DEF HookInv, DriverTypeOK, BeginState
  <2> QED  BY <2>1, PhaseNames DEF AdmissionOK, FailedPreparationReopens, Phase
<1> QED  BY <1>1, AdmissionInvariant, PTL

-----------------------------------------------------------------------------
(* What is owed to them. *)

\* What has not been resumed is listed somewhere, at every point of a run.
OwedInv ==
    /\ SuspendedIsOwed
    /\ holders \ late \subseteq leases /\ holders \cap suspended = {}
    /\ In("reaping") \/ In("starting") \/ In("ready") => holders \subseteq late
    /\ begin.pc # "none" => leases \ late \subseteq epochOps
    /\ begin.targets \ late \subseteq epochOps
    /\ process # 0 => (ready.recording \ ready.failed) \cap suspended = {}

LEMMA OwedRests ==
    ASSUME HookInv, OwedInv, ManagerStep \/ FailRun \/ FinishPreparation \/ FinishReady \/ Start
    PROVE  OwedInv'
<1>1. UNCHANGED <<leases, epochOps, staleOps, begin, holders, suspended, late>>
  BY DEF ManagerStep, FailRun, FinishPreparation, FinishReady, Start, driverVars, durableRows
<1>2. ready'.recording = {} \/ UNCHANGED <<process, ready>>
  <2>1. CASE ManagerStep
    <3>1. Asking \/ Reaped
      BY <2>1 DEF ManagerStep, Asking
    <3>2. UNCHANGED ready
      BY <2>1 DEF ManagerStep, driverVars
    <3> QED  BY <3>1, <3>2, AskingMoves DEF HookInv, Reaped
  <2>2. CASE FailRun \/ FinishPreparation
    <3>1. UNCHANGED process
      BY <2>2 DEF FailRun, FinishPreparation, RefuseOverlap, FailStart, PreparationEnds
    <3>2. UNCHANGED ready
      BY <2>2 DEF FailRun, FinishPreparation, driverVars
    <3> QED  BY <3>1, <3>2
  <2>3. CASE FinishReady \/ Start
    <3>1. ready' = NoReady \/ ready' = [NoReady EXCEPT !.pc = "listing"]
      BY <2>3, Zenon DEF FinishReady, Start
    <3> QED  BY <3>1 DEF NoReady
  <2> QED  BY <2>1, <2>2, <2>3
<1>3. activeTransition'.state \in {"reaping", "starting", "ready"} =>
          activeTransition.state \in {"reaping", "starting", "ready"}
  <2>1. CASE ManagerStep
    <3>1. Asking \/ Reaped
      BY <2>1 DEF ManagerStep, Asking
    <3>2. CASE Asking
      <4>1. RunStays \/ RunBegins
        BY <3>2, AskingMoves DEF HookInv
      <4> QED  BY <4>1 DEF RunStays, RunBegins
    <3>3. CASE Reaped
      BY <3>3 DEF Reaped, In
    <3> QED  BY <3>1, <3>2, <3>3
  <2>2. CASE FailRun \/ FinishReady \/ Start
    BY <2>2 DEF FailRun, FinishReady, Start, RefuseOverlap, FailStart, ReadyEnds, StartWorkerd, In
  <2>3. CASE FinishPreparation
    BY <2>3 DEF FinishPreparation, PreparationEnds, HookInv, ManagerInv, ManagerTypeOK, Transition
  <2> QED  BY <2>1, <2>2, <2>3
<1> QED  BY <1>1, <1>2, <1>3 DEF OwedInv, SuspendedIsOwed, In

LEMMA DestroyOwes ==
    ASSUME HookInv, OwedInv, Stop \/ Exit PROVE OwedInv'
<1>1. /\ process' = 0 /\ UNCHANGED <<leases, epochOps, staleOps, late>>
      /\ begin' = NoBegin /\ holders' = {} /\ suspended' = suspended \cup leases \cup holders
  BY DEF Stop, Exit, StopProcess, ProcessExits, Destroy, durableRows
<1> QED  BY <1>1, NoHooks DEF OwedInv, SuspendedIsOwed

LEMMA BeginOwes ==
    ASSUME HookInv, OwedInv, Undisturbed, BeginStep PROVE OwedInv'
<1>1. /\ UNCHANGED ready /\ process' = process /\ activeTransition' = activeTransition
  BY BeginStepKeeps DEF Undisturbed
<1>2. CASE OpenEpoch
  <2>1. /\ UNCHANGED <<leases, holders, suspended>> /\ epochOps' = leases
        /\ late' = late \ leases
        /\ staleOps' = staleOps \cup epochOps /\ begin' = [begin EXCEPT !.pc = "listing"]
        /\ begin = NoBegin /\ In("preparing")
    BY <1>2 DEF OpenEpoch, Preparing, HookInv, HooksInTurn
  <2>2. begin'.targets = {}
    BY <2>1 DEF NoBegin
  <2> QED  BY <1>1, <2>1, <2>2 DEF OwedInv, SuspendedIsOwed, In
<1>3. CASE ListLeases \/ RefuseDelivery \/ JoinPhase \/ Journal \/ \E t \in Targets : Cancel(t)
  <2>1. UNCHANGED <<leases, holders, suspended, late, epochOps, staleOps>> /\ begin.pc # "none"
    BY <1>3 DEF ListLeases, RefuseDelivery, JoinPhase, Journal, Cancel, beginOnly
  <2>2. begin'.targets = begin.targets \/ begin'.targets = leases
    <3> USE DEF HookInv, DriverTypeOK, BeginState
    <3>1. CASE ListLeases
      BY <3>1 DEF ListLeases
    <3>2. CASE RefuseDelivery
      BY <3>2 DEF RefuseDelivery
    <3>3. CASE JoinPhase
      BY <3>3 DEF JoinPhase
    <3>4. CASE Journal
      BY <3>4 DEF Journal
    <3>5. ASSUME NEW t \in Targets, Cancel(t) PROVE begin'.targets = begin.targets
      BY <3>5 DEF Cancel
    <3> QED  BY <1>3, <3>1, <3>2, <3>3, <3>4, <3>5
  <2> QED  BY <1>1, <2>1, <2>2 DEF OwedInv, SuspendedIsOwed, In
<1>4. ASSUME NEW t \in Targets, AnswerPhase(t) \/ RefusePhase(t) PROVE OwedInv'
  <2>1. /\ begin.pc = "phase" /\ t \in begin.pending /\ begin \in BeginState
        /\ t \in begin.targets /\ UNCHANGED <<epochOps, staleOps, late>>
    BY <1>4 DEF AnswerPhase, RefusePhase, HookInv, DriverTypeOK, HooksInTurn
  <2>2. begin'.targets = begin.targets
    <3>1. \/ begin' = [begin EXCEPT !.pending = @ \ {t}]
          \/ begin' = [begin EXCEPT !.pending = @ \ {t}, !.failed = @ \cup {t}]
      BY <1>4, Zenon DEF AnswerPhase, RefusePhase
    <3> QED  BY <2>1, <3>1 DEF BeginState
  <2>3. \/ UNCHANGED <<leases, holders, suspended>>
        \/ /\ leases' = leases
           /\ \E gone \in {{t}, {}} : holders' = holders \ gone /\ suspended' = suspended \cup gone
        \/ /\ leases' = leases \ ({t} \cap Activations)
           /\ holders' = holders \ {t} /\ suspended' = suspended \cup {t}
    <3>1. CASE AnswerPhase(t)
      <4>1. PhaseEffect(t, FALSE)
        BY <3>1, Zenon DEF AnswerPhase
      <4> QED  BY <4>1 DEF PhaseEffect
    <3>2. CASE RefusePhase(t)
      <4>1. PhaseEffect(t, TRUE)
        BY <3>2, Zenon DEF RefusePhase
      <4> QED  BY <4>1 DEF PhaseEffect
    <3> QED  BY <1>4, <3>1, <3>2
  <2>4. t \in epochOps \cup late /\ leases \ late \subseteq epochOps
    BY <2>1 DEF OwedInv
  <2>5. ready.recording = {}
    BY <2>1, NoHooks DEF HookInv, HooksInTurn, In
  <2>6. leases' \subseteq leases /\ leases \ leases' \subseteq {t} /\ holders' \subseteq holders
        /\ suspended' \subseteq suspended \cup {t}
    BY <2>3
  <2>7. holders' \ late \subseteq leases' /\ holders' \cap suspended' = {}
    BY <2>3 DEF OwedInv
  <2>8. SuspendedIsOwed'
    BY <2>1, <2>4, <2>6 DEF OwedInv, SuspendedIsOwed
  <2> QED  BY <1>1, <2>1, <2>2, <2>4, <2>5, <2>6, <2>7, <2>8 DEF OwedInv, In
<1> QED  BY <1>2, <1>3, <1>4 DEF BeginStep

LEMMA ReadyOwes ==
    ASSUME HookInv, OwedInv, Undisturbed, ReadyStep PROVE OwedInv'
<1>1. /\ UNCHANGED <<begin, holders, late>> /\ process' = process /\ activeTransition' = activeTransition
      /\ begin = NoBegin /\ holders \subseteq late /\ ready \in ReadyState
  BY ReadyStepKeeps DEF Undisturbed, ReadyStep, ListTargets, OpenCrashEpoch, Resume, RefuseResume,
     RecordResume, readyOnly, OwedInv, HookInv, DriverTypeOK
<1>2. begin.targets = {} /\ begin.pc = "none"
  BY <1>1, NoHooks
<1>3. CASE ListTargets \/ OpenCrashEpoch
  <2>1. /\ UNCHANGED <<leases, suspended>>
        /\ \/ UNCHANGED <<epochOps, staleOps>>
           \/ epochOps' = leases /\ staleOps' = staleOps \cup epochOps
    BY <1>3 DEF ListTargets, OpenCrashEpoch
  <2>2. ready'.recording = ready.recording /\ ready'.failed = ready.failed
    <3>1. CASE ListTargets
      BY <1>1, <3>1 DEF ListTargets, ReadyState
    <3>2. CASE OpenCrashEpoch
      BY <1>1, <3>2 DEF OpenCrashEpoch, ReadyState
    <3> QED  BY <1>3, <3>1, <3>2
  <2> QED  BY <1>1, <1>2, <2>1, <2>2 DEF OwedInv, SuspendedIsOwed, In
<1>4. ASSUME NEW t \in Targets, Resume(t) PROVE OwedInv'
  <2>1. /\ suspended' = suspended \ {t} /\ leases' = leases \ ({t} \cap Activations)
        /\ UNCHANGED <<epochOps, staleOps>>
        /\ ready' = [ready EXCEPT !.targets = @ \ {t}, !.recording = @ \cup {t}]
    BY <1>4 DEF Resume
  <2>2. ready'.recording = ready.recording \cup {t} /\ ready'.failed = ready.failed
    BY <1>1, <2>1 DEF ReadyState
  <2> QED  BY <1>1, <1>2, <2>1, <2>2 DEF OwedInv, SuspendedIsOwed, In
<1>5. ASSUME NEW t \in Targets, RefuseResume(t) PROVE OwedInv'
  <2>1. ready' = [ready EXCEPT !.targets = @ \ {t}, !.recording = @ \cup {t}, !.failed = @ \cup {t}]
    BY <1>5, Zenon DEF RefuseResume
  <2>2. UNCHANGED <<leases, epochOps, staleOps, suspended>>
    BY <1>5 DEF RefuseResume
  <2>3. ready'.recording = ready.recording \cup {t} /\ ready'.failed = ready.failed \cup {t}
    BY <1>1, <2>1 DEF ReadyState
  <2> QED  BY <1>1, <1>2, <2>2, <2>3 DEF OwedInv, SuspendedIsOwed, In
<1>6. ASSUME NEW t \in Targets, RecordResume(t) PROVE OwedInv'
  <2>1. /\ t \in ready.recording /\ epochOps' = Recorded(t) /\ process # 0
        /\ ready' = [ready EXCEPT !.recording = @ \ {t}]
        /\ UNCHANGED <<leases, staleOps, suspended>>
    BY <1>6 DEF RecordResume, Answering
  <2>2. ready'.recording = ready.recording \ {t} /\ ready'.failed = ready.failed
    BY <1>1, <2>1 DEF ReadyState
  <2>3. t \notin suspended \/ t \in ready.failed
    BY <2>1 DEF OwedInv
  <2>4. SuspendedIsOwed'
    BY <1>1, <2>1, <2>3 DEF Recorded, OwedInv, SuspendedIsOwed
  <2> QED  BY <1>1, <1>2, <2>1, <2>2, <2>4 DEF OwedInv, In
<1> QED  BY <1>3, <1>4, <1>5, <1>6 DEF ReadyStep

LEMMA HoldingOwes ==
    ASSUME HookInv, OwedInv, NEW t \in Targets, Acquire(t) \/ Relinquish(t)
    PROVE  OwedInv'
<1>1. UNCHANGED <<process, activeTransition, epochOps, staleOps, begin, ready>>
  BY DEF Acquire, Relinquish, managerVars, unfaulted
<1>2. CASE Acquire(t)
  <2>1. /\ leases' = leases \cup {t} /\ holders' = holders \cup {t}
        /\ suspended' = suspended \ {t}
        /\ late' = IF Active THEN late \cup {t} ELSE late \ {t}
    BY <1>2 DEF Acquire
  <2>2. CASE Active
    BY <1>1, <2>1, <2>2 DEF OwedInv, SuspendedIsOwed, In
  <2>3. CASE ~Active
    <3>1. begin = NoBegin /\ ~In("reaping") /\ ~In("starting") /\ ~In("ready")
      BY <2>3 DEF Active, In, HookInv, HooksInTurn
    <3> QED  BY <1>1, <2>1, <2>3, <3>1, NoHooks DEF OwedInv, SuspendedIsOwed, In
  <2> QED  BY <2>2, <2>3
<1>3. CASE Relinquish(t)
  <2>1. /\ t \in holders /\ leases' = leases \ {t} /\ holders' = holders \ {t} /\ UNCHANGED <<suspended, late>>
    BY <1>3 DEF Relinquish
  <2> QED  BY <1>1, <2>1 DEF OwedInv, SuspendedIsOwed, In
<1> QED  BY <1>2, <1>3

LEMMA OwedKeeps ==
    ASSUME HookInv, OwedInv, Next PROVE OwedInv'
BY NextMoves, OwedRests, DestroyOwes, BeginOwes, ReadyOwes, HoldingOwes DEF Moves

LEMMA OwedInvariant == Spec => [](HookInv /\ OwedInv)
<1>1. Init => OwedInv
  BY NoHooks DEF Init, ManagerInit, OwedInv, SuspendedIsOwed, In, NoTransition
<1>2. HookInv /\ OwedInv /\ [Next]_vars => OwedInv'
  <2>1. ASSUME OwedInv, UNCHANGED vars PROVE OwedInv'
    BY <2>1 DEF vars, managerVars, unfaulted, driverVars, OwedInv, SuspendedIsOwed, In
  <2> QED  BY <2>1, OwedKeeps
<1> QED  BY <1>1, <1>2, HookInvariant, PTL DEF Spec

\* openEpoch records a resume row per lease before any lease is cleared, and
\* a row is settled only after its target was resumed: at every point of a
\* restart a crash leaves each released or lost Durable Object listed, but for
\* a kernel whose lease was taken during a run and is in no epoch yet.
THEOREM SuspendedStayOwed == Spec => []SuspendedIsOwed
<1>1. OwedInv => SuspendedIsOwed
  BY DEF OwedInv
<1> QED  BY <1>1, OwedInvariant, PTL

-----------------------------------------------------------------------------
(* When it has been paid. *)

\* With the process gone nothing is held, and every lease was lost with it.
\* At rest only a debt of resumptions, or a queued crash, explains a loss.
RestOK ==
    /\ process = 0 => leases \subseteq suspended /\ holders = {}
    /\ ~undermined /\ ~(suspended \subseteq late) /\ ~Active =>
          process = 0 /\ (resumeLifecycleAfterStop \/ "crash" \in restartRequests)

\* A preparation begins with nothing suspended that no epoch missed, and its
\* epoch lists what it suspends; when it loses its process, or is aborted, a
\* crash is queued.
PrepareOK == In("preparing") =>
    /\ activeTransition.hadProcess
    /\ process = 0 \/ activeTransition.prepAbort => "crash" \in restartRequests
    /\ process # 0 /\ ~undermined =>
           suspended \ late \subseteq IF begin.pc = "none" THEN {} ELSE epochOps

\* After a completed preparation the rows of its epoch are all that is owed.
Closing == In("stopping") \/ In("reaping") \/ In("starting")

ClosingOK == Closing /\ activeTransition.kind # "crash" =>
    /\ ~activeTransition.hadProcess =>
          process = 0 /\ (suspended \subseteq late \/ resumeLifecycleAfterStop \/ undermined)
    /\ /\ activeTransition.kind = "planned" /\ activeTransition.hadProcess
       /\ ~activeTransition.prepDegraded /\ ~undermined
       => (suspended \cup leases) \ late \subseteq epochOps

\* The ready hook lists all that is owed and drops what it resumes.
ListsOwed ==
    /\ ready.pc = "listing" /\ process # 0 /\ ReadyReason = "planned" /\ ~undermined =>
           suspended \ late \subseteq epochOps
    /\ ready.pc = "opening" => ReadyReason = "crash"
    /\ ready.pc = "opening" /\ process # 0 => suspended \ late \subseteq ready.targets
    /\ ready.pc = "resuming" /\ process # 0 /\ (ReadyReason = "crash" \/ ~undermined) =>
           suspended \ late \subseteq ready.targets \cup ready.failed
    /\ ready.pc = "done" => leases \cup suspended \subseteq late

ResumeInv == RestOK /\ PrepareOK /\ ClosingOK /\ ListsOwed

\* What the proofs of its parts rest on.
RestartInv == HookInv /\ OwedInv /\ ResumeInv

LEMMA NoReadyListsNothing ==
    ASSUME ready'.pc = "none" PROVE ListsOwed'
BY DEF ListsOwed

LEMMA AskingResumes ==
    ASSUME RestartInv, Asking, UNCHANGED driverVars PROVE ResumeInv'
<1> USE DEF RestartInv
<1>1. /\ UNCHANGED <<process, resumeLifecycleAfterStop>> /\ (RunStays \/ RunBegins)
      /\ UNCHANGED <<leases, epochOps, staleOps, begin, ready, admission, holders, suspended, late, undermined>>
  BY AskingMoves DEF HookInv, driverVars
<1>2. CASE RunStays
  <2>1. RestOK'
    BY <1>1, <1>2 DEF ResumeInv, RestOK, RunStays, Active
  <2>2. PrepareOK'
    BY <1>1, <1>2 DEF ResumeInv, PrepareOK, RunStays, In
  <2>3. ClosingOK'
    BY <1>1, <1>2 DEF ResumeInv, ClosingOK, Closing, RunStays, In
  <2>4. ReadyReason' = ReadyReason
    BY <1>1, <1>2 DEF RunStays, ReadyReason, CrashStyle
  <2>5. ListsOwed'
    BY <1>1, <2>4 DEF ResumeInv, ListsOwed
  <2> QED  BY <2>1, <2>2, <2>3, <2>5 DEF ResumeInv
<1>3. CASE RunBegins
  <2>1. RestOK'
    BY <1>1, <1>3 DEF ResumeInv, RestOK, RunBegins, Active
  <2>2. PrepareOK'
    BY <1>1, <1>3 DEF ResumeInv, RestOK, PrepareOK, RunBegins, In
  <2>3. ClosingOK'
    BY <1>1, <1>3 DEF ResumeInv, RestOK, ClosingOK, Closing, RunBegins, In
  <2>4. ready.pc = "none"
    BY <1>3 DEF RunBegins, Active, HookInv, HooksInTurn, In
  <2> QED  BY <1>1, <2>1, <2>2, <2>3, <2>4, NoReadyListsNothing DEF ResumeInv
<1> QED  BY <1>1, <1>2, <1>3

LEMMA ReapedResumes ==
    ASSUME RestartInv, Reaped, UNCHANGED driverVars PROVE ResumeInv'
<1> USE DEF RestartInv
<1>1. /\ UNCHANGED <<process, restartRequests, leases, epochOps, staleOps, begin, ready, admission,
                     holders, suspended, late, undermined>>
      /\ In("reaping") /\ process = 0
  BY DEF Reaped, driverVars, HookInv, ManagerInv, StagesOK
<1>2. ready.pc = "none"
  BY <1>1 DEF HookInv, HooksInTurn, In
<1>3. CASE activeTransition.kind = "stop"
  <2>1. /\ activeTransition' = NoTransition
        /\ resumeLifecycleAfterStop' = (resumeLifecycleAfterStop \/ activeTransition.hadProcess)
    BY <1>3 DEF Reaped, End
  <2>2. RestOK'
    BY <1>1, <1>3, <2>1 DEF ResumeInv, RestOK, ClosingOK, Closing
  <2>3. PrepareOK' /\ ClosingOK'
    BY <2>1 DEF PrepareOK, ClosingOK, Closing, In, NoTransition
  <2> QED  BY <1>1, <1>2, <2>2, <2>3, NoReadyListsNothing DEF ResumeInv
<1>4. CASE activeTransition.kind # "stop"
  <2>1. /\ activeTransition' = [activeTransition EXCEPT !.state = "starting"]
        /\ UNCHANGED resumeLifecycleAfterStop
    BY <1>4 DEF Reaped, Advance
  <2>2. /\ activeTransition'.state = "starting" /\ activeTransition'.kind = activeTransition.kind
        /\ activeTransition'.hadProcess = activeTransition.hadProcess
        /\ activeTransition'.prepDegraded = activeTransition.prepDegraded
    BY <2>1 DEF HookInv, ManagerInv, ManagerTypeOK, Transition
  <2>3. RestOK' /\ PrepareOK'
    BY <1>1, <2>2 DEF ResumeInv, RestOK, PrepareOK, In, Active
  <2>4. ClosingOK'
    BY <1>1, <2>1, <2>2 DEF ResumeInv, ClosingOK, Closing, In
  <2> QED  BY <1>1, <1>2, <2>3, <2>4, NoReadyListsNothing DEF ResumeInv
<1> QED  BY <1>3, <1>4

LEMMA ExitBeginsCrash ==
    ASSUME ManagerInv, ProcessExits, RunBegins PROVE activeTransition'.kind = "crash"
<1>1. activeTransition'.kind = "crash" \/ "crash" \in restartRequests'
  BY ExitMoves
<1>2. Recover(0) /\ ~Active
  BY DEF ProcessExits, RunBegins
<1>3. CASE unresponsiveRecovery = 0
  BY <1>1, <1>2, <1>3 DEF Recover, Request
<1>4. CASE unresponsiveRecovery # 0
  BY <1>2, <1>4 DEF Recover, RunBegins, Active
<1> QED  BY <1>3, <1>4

LEMMA DestroyResumes ==
    ASSUME RestartInv, Stop \/ Exit PROVE ResumeInv'
<1> USE DEF RestartInv
<1>1. /\ UNCHANGED <<leases, epochOps, staleOps, ready, late, undermined, resumeLifecycleAfterStop>>
      /\ begin' = NoBegin /\ holders' = {} /\ suspended' = suspended \cup leases \cup holders
      /\ process' = 0 /\ holders \ late \subseteq leases
  BY DEF Stop, Exit, StopProcess, ProcessExits, Destroy, durableRows, OwedInv
<1>2. process = 0 => suspended' = suspended
  BY <1>1 DEF ResumeInv, RestOK
<1>3. ListsOwed'
  <2>1. ReadyReason' = ReadyReason \/ ready.pc = "none"
    <3>1. CASE Stop
      BY <3>1 DEF Stop, StopProcess, HookInv, HooksInTurn, In
    <3>2. CASE Exit /\ RunStays
      BY <1>1, <3>2 DEF RunStays, ReadyReason, CrashStyle
    <3>3. CASE Exit /\ RunBegins
      BY <3>3 DEF RunBegins, Active, HookInv, HooksInTurn, In
    <3> QED  BY <3>1, <3>2, <3>3, ExitMoves DEF Exit, HookInv
  <2> QED  BY <1>1, <2>1 DEF ResumeInv, ListsOwed
<1>4. CASE Stop
  <2>1. /\ activeTransition.state = "stopping" /\ activeTransition'.state = "reaping"
        /\ activeTransition'.kind = activeTransition.kind
        /\ activeTransition'.hadProcess = activeTransition.hadProcess
        /\ activeTransition'.prepDegraded = activeTransition.prepDegraded
    BY <1>4 DEF Stop, StopProcess, In, HookInv, ManagerInv, ManagerTypeOK, Transition
  <2>2. RestOK' /\ PrepareOK'
    BY <1>1, <2>1 DEF RestOK, PrepareOK, In, Active
  <2>3. ClosingOK'
    BY <1>1, <1>2, <2>1 DEF ResumeInv, ClosingOK, Closing, In
  <2> QED  BY <1>3, <2>2, <2>3 DEF ResumeInv
<1>5. CASE Exit
  <2>1. /\ RunStays \/ RunBegins
        /\ process # 0
        /\ (activeTransition'.kind = "crash" /\ Active') \/ "crash" \in restartRequests'
    BY <1>5, ExitMoves DEF Exit, HookInv
  <2>2. RestOK'
    BY <1>1, <2>1 DEF RestOK
  <2>3. CASE RunStays
    <3>1. PrepareOK'
      BY <1>1, <2>1, <2>3 DEF ResumeInv, PrepareOK, RunStays, In, HookInv, ManagerInv, StagesOK
    <3>2. ClosingOK'
      BY <1>1, <2>1, <2>3 DEF ResumeInv, ClosingOK, Closing, RunStays, In
    <3> QED  BY <1>3, <2>2, <3>1, <3>2 DEF ResumeInv
  <2>4. CASE RunBegins
    <3>1. PrepareOK'
      BY <1>1, <2>4 DEF PrepareOK, RunBegins, In
    <3>2. activeTransition'.kind = "crash"
      BY <1>5, <2>4, ExitBeginsCrash DEF Exit, HookInv
    <3>3. ClosingOK'
      BY <3>2 DEF ClosingOK
    <3> QED  BY <1>3, <2>2, <3>1, <3>3 DEF ResumeInv
  <2> QED  BY <2>1, <2>3, <2>4
<1> QED  BY <1>4, <1>5

LEMMA StartResumes ==
    ASSUME RestartInv, Start \/ FailRun PROVE ResumeInv'
<1> USE DEF RestartInv
<1>1. /\ UNCHANGED <<leases, epochOps, staleOps, begin, admission, holders, suspended, late>>
      /\ UNCHANGED resumeLifecycleAfterStop /\ ready = NoReady
  BY DEF Start, FailRun, durableRows, StartWorkerd, RefuseOverlap, FailStart, HookInv, HooksInTurn, In
<1>2. CASE FailRun
  <2>1. /\ activeTransition' = NoTransition /\ undermined' = TRUE /\ UNCHANGED <<process, ready>>
    BY <1>2, Zenon DEF FailRun, RefuseOverlap, FailStart, End, Undermines
  <2>2. RestOK'
    BY <1>1, <2>1 DEF ResumeInv, RestOK
  <2>3. PrepareOK' /\ ClosingOK'
    BY <2>1 DEF PrepareOK, ClosingOK, Closing, In, NoTransition
  <2> QED  BY <1>1, <2>1, <2>2, <2>3, NoHooks, NoReadyListsNothing DEF ResumeInv
<1>3. CASE Start
  <2>1. /\ process' # 0 /\ UNCHANGED undermined /\ In("starting") /\ process = 0
        /\ activeTransition.kind # "stop" /\ activeTransition.kind \in Kinds
    BY <1>3 DEF Start, StartWorkerd, HookInv, ManagerInv, StagesOK, ManagerTypeOK, Transition
  <2>2. CASE OwesReady
    <3>1. /\ ready' = [NoReady EXCEPT !.pc = "listing"]
          /\ activeTransition' = [activeTransition EXCEPT !.state = "ready"]
      BY <1>3, <2>2 DEF Start, StartWorkerd, Advance
    <3>2. /\ ready'.pc = "listing" /\ activeTransition'.state = "ready"
          /\ activeTransition'.kind = activeTransition.kind
          /\ activeTransition'.prepDegraded = activeTransition.prepDegraded
      BY <3>1 DEF NoReady, HookInv, ManagerInv, ManagerTypeOK, Transition
    <3>3. RestOK' /\ PrepareOK' /\ ClosingOK'
      BY <2>1, <3>2 DEF RestOK, PrepareOK, ClosingOK, Closing, In, Active
    <3>4. ASSUME ReadyReason' = "planned", ~undermined PROVE suspended \ late \subseteq epochOps
      <4>1. activeTransition.kind = "planned" /\ ~activeTransition.prepDegraded /\ activeTransition.hadProcess
        BY <1>1, <2>1, <2>2, <3>2, <3>4 DEF ReadyReason, OwesReady, CrashStyle, Kinds
      <4> QED  BY <2>1, <3>4, <4>1 DEF ResumeInv, ClosingOK, Closing
    <3>5. ListsOwed'
      BY <1>1, <2>1, <3>2, <3>4 DEF ListsOwed
    <3> QED  BY <3>3, <3>5 DEF ResumeInv
  <2>3. CASE ~OwesReady
    <3>1. activeTransition' = NoTransition /\ ready' = NoReady
      BY <1>3, <2>3 DEF Start, StartWorkerd, End
    <3>2. suspended \subseteq late \/ undermined
      BY <2>1, <2>3 DEF ResumeInv, ClosingOK, Closing, OwesReady, CrashStyle
    <3>3. RestOK'
      BY <1>1, <2>1, <3>2 DEF RestOK
    <3>4. PrepareOK' /\ ClosingOK'
      BY <3>1 DEF PrepareOK, ClosingOK, Closing, In, NoTransition
    <3> QED  BY <3>1, <3>3, <3>4, NoHooks, NoReadyListsNothing DEF ResumeInv
  <2> QED  BY <2>2, <2>3
<1> QED  BY <1>2, <1>3

LEMMA PreparedResumes ==
    ASSUME RestartInv, FinishPreparation PROVE ResumeInv'
<1> USE DEF RestartInv
<1>1. /\ UNCHANGED <<process, leases, epochOps, staleOps, begin, ready, admission, holders,
                     suspended, late, undermined>>
      /\ UNCHANGED resumeLifecycleAfterStop /\ In("preparing")
  BY DEF FinishPreparation, PreparationEnds, driverVars
<1>2. PICK outcome \in {"ok", "failed", "aborted"} :
          PreparationEnds(outcome) /\ (outcome # "aborted" => begin.pc = outcome)
  BY DEF FinishPreparation
<1>3. /\ activeTransition' = [activeTransition EXCEPT !.state = "stopping", !.kind = Escalated(@),
                                     !.prepDegraded = (outcome = "failed"), !.covered = requestedEpoch]
      /\ outcome = "aborted" => activeTransition.prepAbort
  BY <1>2 DEF PreparationEnds
<1>4. /\ activeTransition'.state = "stopping"
      /\ activeTransition'.kind = Escalated(activeTransition.kind)
      /\ activeTransition'.hadProcess = activeTransition.hadProcess
      /\ activeTransition'.prepDegraded = (outcome = "failed")
  BY <1>3 DEF HookInv, ManagerInv, ManagerTypeOK, Transition
<1>5. RestOK' /\ PrepareOK' /\ activeTransition.hadProcess
  BY <1>1, <1>4 DEF ResumeInv, RestOK, PrepareOK, In, Active
<1>6. ASSUME activeTransition'.kind # "crash", outcome # "failed", ~undermined
      PROVE  (suspended \cup leases) \ late \subseteq epochOps
  <2>1. "crash" \notin restartRequests
    BY <1>4, <1>6 DEF Escalated
  <2>2. outcome = "ok" /\ process # 0
    BY <1>1, <1>2, <1>3, <1>6, <2>1 DEF ResumeInv, PrepareOK
  <2>3. begin.pc = "ok"
    BY <1>2, <2>2
  <2> QED  BY <1>1, <1>6, <2>2, <2>3 DEF ResumeInv, PrepareOK, OwedInv
<1>7. ClosingOK'
  BY <1>1, <1>4, <1>5, <1>6 DEF ClosingOK
<1>8. ready.pc = "none"
  BY <1>1 DEF HookInv, HooksInTurn, In
<1> QED  BY <1>1, <1>5, <1>7, <1>8, NoReadyListsNothing DEF ResumeInv

LEMMA ReadiedResumes ==
    ASSUME RestartInv, FinishReady PROVE ResumeInv'
<1> USE DEF RestartInv
<1>1. /\ UNCHANGED <<process, leases, epochOps, staleOps, begin, admission, holders, suspended, late>>
      /\ ready' = NoReady /\ activeTransition' = NoTransition
  BY DEF FinishReady, ReadyEnds, End
<1>2. CASE Undermines
  <2>1. undermined' = TRUE
    BY <1>2 DEF Undermines
  <2> QED  BY <1>1, <2>1, NoHooks, NoReadyListsNothing
           DEF ResumeInv, RestOK, PrepareOK, ClosingOK, Closing, In, NoTransition
<1>3. CASE ~Undermines
  <2>1. /\ ready.pc = "done" \/ (ready.pc = "resuming" /\ process # 0)
        /\ ready.targets = {} /\ ready.failed = {}
        /\ undermined' = (undermined /\ ReadyReason = "planned")
    BY <1>3 DEF FinishReady, Reconstructs, Answering
  <2>2. suspended \subseteq late \/ (undermined /\ ReadyReason = "planned")
    <3>1. ReadyReason \in {"crash", "planned"}
      BY DEF ReadyReason
    <3> QED  BY <2>1, <3>1 DEF ResumeInv, ListsOwed
  <2>3. RestOK'
    BY <1>1, <2>1, <2>2 DEF ResumeInv, RestOK
  <2> QED  BY <1>1, <2>3, NoHooks, NoReadyListsNothing
           DEF ResumeInv, PrepareOK, ClosingOK, Closing, In, NoTransition
<1> QED  BY <1>2, <1>3

LEMMA BeginResumes ==
    ASSUME RestartInv, Undisturbed, BeginStep PROVE ResumeInv'
<1> USE DEF RestartInv
<1>1. /\ process' = process /\ activeTransition' = activeTransition
      /\ resumeLifecycleAfterStop' = resumeLifecycleAfterStop /\ restartRequests' = restartRequests
  BY DEF Undisturbed
<1>2. /\ undermined' = undermined /\ ready' = ready /\ process # 0
      /\ In("preparing") \/ In("stopping")
      /\ begin \in BeginState
  BY BeginStepKeeps DEF BeginStep, OpenEpoch, ListLeases, RefuseDelivery, JoinPhase, Journal, AnswerPhase,
     RefusePhase, Cancel, beginOnly, Preparing, HookInv, HooksInTurn, DriverTypeOK, Answering
<1>3. ready.pc = "none"
  BY <1>2 DEF HookInv, HooksInTurn, In
<1>4. CASE OpenEpoch
  <2>1. /\ UNCHANGED <<leases, holders, suspended>> /\ begin' = [begin EXCEPT !.pc = "listing"]
        /\ In("preparing") /\ late' = late \ leases /\ epochOps' = leases /\ begin.pc = "none"
    BY <1>4 DEF OpenEpoch, Preparing
  <2>2. begin'.pc = "listing"
    BY <1>2, <2>1 DEF BeginState
  <2> QED  BY <1>1, <1>2, <1>3, <2>1, <2>2, NoReadyListsNothing
           DEF ResumeInv, RestOK, PrepareOK, ClosingOK, Closing, In, Active
<1>5. CASE ~OpenEpoch
  <2>1. UNCHANGED <<epochOps, late>> /\ begin.pc # "none" /\ leases \ late \subseteq epochOps
    BY <1>5 DEF BeginStep, ListLeases, RefuseDelivery, JoinPhase, Journal, AnswerPhase, RefusePhase, Cancel,
       beginOnly, OwedInv
  <2>2. /\ suspended' \subseteq suspended \cup begin.targets /\ leases' \subseteq leases
        /\ begin'.pc # "none"
    <3>1. CASE ListLeases
      <4>1. UNCHANGED <<leases, suspended>> /\ begin = [NoBegin EXCEPT !.pc = "listing"]
        BY <3>1 DEF ListLeases, beginOnly, HookInv, HooksInTurn
      <4>2. begin'.pc = "phase"
        BY <3>1, <1>2 DEF ListLeases, BeginState
      <4> QED  BY <4>1, <4>2
    <3>2. CASE RefuseDelivery \/ JoinPhase \/ Journal \/ \E t \in Targets : Cancel(t)
      <4>1. UNCHANGED <<leases, suspended>>
        BY <3>2 DEF RefuseDelivery, JoinPhase, Journal, Cancel, beginOnly
      <4>2. begin'.pc # "none"
        <5> USE <1>2 DEF BeginState
        <5>1. CASE RefuseDelivery
          BY <5>1 DEF RefuseDelivery
        <5>2. CASE JoinPhase
          BY <5>2 DEF JoinPhase
        <5>3. CASE Journal
          BY <5>3 DEF Journal
        <5>4. ASSUME NEW t \in Targets, Cancel(t) PROVE begin'.pc # "none"
          BY <5>4 DEF Cancel
        <5> QED  BY <3>2, <5>1, <5>2, <5>3, <5>4
      <4> QED  BY <4>1, <4>2
    <3>3. ASSUME NEW t \in Targets, AnswerPhase(t) \/ RefusePhase(t)
          PROVE  /\ suspended' \subseteq suspended \cup begin.targets /\ leases' \subseteq leases
                 /\ begin'.pc # "none"
      <4>1. \/ begin' = [begin EXCEPT !.pending = @ \ {t}]
            \/ begin' = [begin EXCEPT !.pending = @ \ {t}, !.failed = @ \cup {t}]
        BY <3>3, Zenon DEF AnswerPhase, RefusePhase
      <4>2. begin'.pc # "none"
        BY <1>2, <3>3, <4>1 DEF BeginState, AnswerPhase, RefusePhase
      <4>3. t \in begin.targets
        BY <3>3 DEF AnswerPhase, RefusePhase, HookInv, HooksInTurn
      <4>4. \E r \in BOOLEAN : PhaseEffect(t, r)
        BY <3>3 DEF AnswerPhase, RefusePhase
      <4>5. suspended' \subseteq suspended \cup {t} /\ leases' \subseteq leases
        BY <4>4 DEF PhaseEffect
      <4> QED  BY <4>2, <4>3, <4>5
    <3> QED  BY <1>5, <3>1, <3>2, <3>3 DEF BeginStep
  <2>3. RestOK'
    BY <1>1, <1>2 DEF RestOK, In, Active
  <2>4. PrepareOK'
    <3>1. begin.targets \ late \subseteq epochOps
      BY DEF OwedInv
    <3> QED  BY <1>1, <1>2, <2>1, <2>2, <3>1 DEF ResumeInv, PrepareOK, In
  <2>5. ClosingOK'
    <3>1. begin.targets \ late \subseteq epochOps
      BY DEF OwedInv
    <3> QED  BY <1>1, <1>2, <2>1, <2>2, <3>1 DEF ResumeInv, ClosingOK, Closing, In
  <2> QED  BY <1>2, <1>3, <2>3, <2>4, <2>5, NoReadyListsNothing DEF ResumeInv
<1> QED  BY <1>4, <1>5

LEMMA ReadyResumes ==
    ASSUME RestartInv, Undisturbed, ReadyStep PROVE ResumeInv'
<1> USE DEF RestartInv
<1>1. /\ process' = process /\ activeTransition' = activeTransition
      /\ resumeLifecycleAfterStop' = resumeLifecycleAfterStop /\ restartRequests' = restartRequests
  BY DEF Undisturbed
<1>2. /\ In("ready") /\ process # 0 /\ UNCHANGED <<undermined, late>> /\ ready \in ReadyState
  BY ReadyStepKeeps DEF ReadyStep, ListTargets, OpenCrashEpoch, Resume, RefuseResume, RecordResume,
     readyOnly, Answering, HookInv, DriverTypeOK
<1>3. RestOK' /\ PrepareOK' /\ ClosingOK'
  BY <1>1, <1>2 DEF RestOK, PrepareOK, ClosingOK, Closing, In, Active
<1>4. ReadyReason' = ReadyReason /\ ReadyReason \in {"crash", "planned"}
  BY <1>1 DEF ReadyReason, CrashStyle
<1>5. ListsOwed'
  <2>1. CASE ListTargets
    <3>1. UNCHANGED <<leases, suspended, epochOps>> /\ ready.pc = "listing"
      BY <2>1 DEF ListTargets
    <3>2. CASE ReadyReason = "planned"
      <4>1. ready' = [ready EXCEPT !.pc = "resuming", !.targets = epochOps]
        BY <2>1, <3>2 DEF ListTargets
      <4>2. ready'.pc = "resuming" /\ ready'.targets = epochOps
        BY <1>2, <4>1 DEF ReadyState
      <4> QED  BY <1>1, <1>2, <1>4, <3>1, <3>2, <4>2 DEF ResumeInv, ListsOwed
    <3>3. CASE ReadyReason # "planned" /\ leases \cup epochOps \cup staleOps = {}
      <4>1. ready' = [ready EXCEPT !.pc = "done"]
        BY <2>1, <3>3 DEF ListTargets
      <4>2. ready'.pc = "done" /\ leases \cup suspended \subseteq late
        BY <1>2, <3>3, <4>1 DEF ReadyState, OwedInv, SuspendedIsOwed
      <4> QED  BY <1>1, <1>2, <1>4, <3>1, <4>2 DEF ListsOwed
    <3>4. CASE ReadyReason # "planned" /\ leases \cup epochOps \cup staleOps # {}
      <4>1. ready' = [ready EXCEPT !.pc = "opening", !.targets = leases \cup epochOps \cup staleOps]
        BY <2>1, <3>4 DEF ListTargets
      <4>2. ready'.pc = "opening" /\ ready'.targets = leases \cup epochOps \cup staleOps
        BY <1>2, <4>1 DEF ReadyState
      <4> QED  BY <1>1, <1>2, <1>4, <3>1, <3>4, <4>2 DEF ListsOwed, OwedInv, SuspendedIsOwed
    <3> QED  BY <3>2, <3>3, <3>4
  <2>2. CASE OpenCrashEpoch
    <3>1. /\ ready.pc = "opening" /\ ready' = [ready EXCEPT !.pc = "resuming"] /\ UNCHANGED suspended
      BY <2>2 DEF OpenCrashEpoch
    <3>2. ready'.pc = "resuming" /\ ready'.targets = ready.targets
      BY <1>2, <3>1 DEF ReadyState
    <3> QED  BY <1>1, <1>2, <1>4, <3>1, <3>2 DEF ResumeInv, ListsOwed
  <2>3. ASSUME NEW t \in Targets, Resume(t) PROVE ListsOwed'
    <3>1. /\ ready.pc = "resuming" /\ suspended' = suspended \ {t}
          /\ ready' = [ready EXCEPT !.targets = @ \ {t}, !.recording = @ \cup {t}]
      BY <2>3 DEF Resume
    <3>2. /\ ready'.pc = "resuming" /\ ready'.targets = ready.targets \ {t}
          /\ ready'.failed = ready.failed
      BY <1>2, <3>1 DEF ReadyState
    <3> QED  BY <1>1, <1>2, <1>4, <3>1, <3>2 DEF ResumeInv, ListsOwed
  <2>4. ASSUME NEW t \in Targets, RefuseResume(t) PROVE ListsOwed'
    <3>1. /\ ready.pc = "resuming" /\ UNCHANGED suspended
      BY <2>4 DEF RefuseResume
    <3>2. ready' = [ready EXCEPT !.targets = @ \ {t}, !.recording = @ \cup {t}, !.failed = @ \cup {t}]
      BY <2>4, Zenon DEF RefuseResume
    <3>3. /\ ready'.pc = "resuming" /\ ready'.targets = ready.targets \ {t}
          /\ ready'.failed = ready.failed \cup {t}
      BY <1>2, <3>1, <3>2 DEF ReadyState
    <3> QED  BY <1>1, <1>2, <1>4, <3>1, <3>3 DEF ResumeInv, ListsOwed
  <2>5. ASSUME NEW t \in Targets, RecordResume(t) PROVE ListsOwed'
    <3>1. /\ UNCHANGED <<suspended, leases>> /\ ready' = [ready EXCEPT !.recording = @ \ {t}]
          /\ epochOps' = Recorded(t) /\ t \in ready.recording
      BY <2>5 DEF RecordResume
    <3>2. /\ ready'.pc = ready.pc /\ ready'.targets = ready.targets
          /\ ready'.failed = ready.failed
      BY <1>2, <3>1 DEF ReadyState
    <3>3. suspended \ late \subseteq epochOps => suspended \ late \subseteq epochOps'
      BY <1>2, <3>1 DEF Recorded, OwedInv
    <3> QED  BY <1>1, <1>2, <1>4, <3>1, <3>2, <3>3 DEF ResumeInv, ListsOwed
  <2> QED  BY <2>1, <2>2, <2>3, <2>4, <2>5 DEF ReadyStep
<1> QED  BY <1>3, <1>5 DEF ResumeInv

LEMMA HoldingResumes ==
    ASSUME RestartInv, NEW t \in Targets, Acquire(t) \/ Relinquish(t)
    PROVE  ResumeInv'
<1> USE DEF RestartInv
<1>1. /\ UNCHANGED <<process, activeTransition, restartRequests, resumeLifecycleAfterStop>>
      /\ UNCHANGED <<epochOps, staleOps, begin, ready, undermined>>
      /\ process # 0 /\ t \in Targets
  BY DEF Acquire, Relinquish, managerVars, unfaulted, Answering
<1>2. /\ suspended' \subseteq suspended /\ suspended' \ late' \subseteq suspended \ late
      /\ Active => leases' \ late' \subseteq leases \ late /\ late \subseteq late'
  BY DEF Acquire, Relinquish
<1>3. RestOK'
  BY <1>1, <1>2 DEF ResumeInv, RestOK, Active
<1>4. PrepareOK' /\ ClosingOK'
  BY <1>1, <1>2 DEF ResumeInv, PrepareOK, ClosingOK, Closing, In, Active
<1>5. ReadyReason' = ReadyReason
  BY <1>1 DEF ReadyReason, CrashStyle
<1>6. ready.pc # "none" => Active
  BY DEF HookInv, HooksInTurn, In, Active
<1>7. ListsOwed'
  BY <1>1, <1>2, <1>5, <1>6 DEF ResumeInv, ListsOwed
<1> QED  BY <1>3, <1>4, <1>7 DEF ResumeInv

LEMMA ResumeKeeps ==
    ASSUME RestartInv, Next PROVE ResumeInv'
<1>1. CASE ManagerStep
  <2>1. UNCHANGED driverVars /\ (Asking \/ Reaped)
    BY <1>1 DEF ManagerStep, Asking
  <2> QED  BY <2>1, AskingResumes, ReapedResumes
<1>2. CASE ~ManagerStep
  BY <1>2, NextMoves, DestroyResumes, StartResumes, PreparedResumes, ReadiedResumes, BeginResumes,
     ReadyResumes, HoldingResumes DEF Moves
<1> QED  BY <1>1, <1>2

\* When the owner is at rest over a running process and no run failed since
\* the last crash-style ready, every released or lost Durable Object has been
\* resumed, whichever planned restarts, stops, exits and hangs came between,
\* but for the kernels whose leases were taken during a run and never listed.
THEOREM AllResumedOnceRunning == Spec => []ResumedOnceRunning
<1>1. Init => ResumeInv
  BY NoHooks DEF Init, ManagerInit, NoTransition, ResumeInv, RestOK, PrepareOK, ClosingOK, Closing, ListsOwed,
     In
<1>2. HookInv /\ OwedInv /\ ResumeInv /\ [Next]_vars => ResumeInv'
  <2>1. ASSUME ResumeInv, UNCHANGED vars PROVE ResumeInv'
    BY <2>1 DEF vars, managerVars, unfaulted, driverVars, ResumeInv, RestOK, PrepareOK, ClosingOK,
       Closing, ListsOwed, In, Active, ReadyReason, CrashStyle
  <2> QED  BY <2>1, ResumeKeeps DEF RestartInv
<1>3. ResumeInv => ResumedOnceRunning
  BY DEF ResumeInv, RestOK, ResumedOnceRunning
<1> QED  BY <1>1, <1>2, <1>3, OwedInvariant, PTL DEF Spec
=============================================================================
