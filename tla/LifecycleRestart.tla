-------------------------- MODULE LifecycleRestart --------------------------
(***************************************************************************)
(* Replacement of the workerd generation under live Durable Objects: the   *)
(* generation-transition owner composed with LifecycleDriver, whose hooks  *)
(* it runs, the lifecycle tables of WorkspaceDO, and the preparation state *)
(* of each Durable Object.                                                 *)
(*                                                                         *)
(* WorkspaceDO and the Durable Objects live in the process that is being   *)
(* replaced, so a call is answered only while it answers, and fails when   *)
(* it dies.  Execution and answer of one call are one action.              *)
(*                                                                         *)
(* Of an epoch's rows only the unresolved resume operations are read       *)
(* again; those of earlier epochs are one set, since nothing resolves them.*)
(***************************************************************************)
EXTENDS GenerationTransition, FiniteSets

CONSTANTS
    Targets,       \* Durable Objects that hold, or may hold, a lifecycle lease
    Activations,   \* those whose lease belongs to one activation (eval kernels)
    LateHangs      \* the process may hang while its ready hooks run

ASSUME TargetAssumption == Activations \subseteq Targets
ASSUME SwitchAssumption == LateHangs \in BOOLEAN

VARIABLES
    leases,        \* lifecycle_leases
    epochOps,      \* targets with an unresolved resume row in the newest epoch
    staleOps,      \* targets with an unresolved resume row in an earlier epoch
    begin,         \* handleRestartBegin
    ready,         \* handleRestartReady
    admission,     \* LifecyclePreparation of each activation
    holders,       \* activations that hold a resource they must release
    suspended,     \* history: released or lost, and not resumed since
    late,          \* history: lease taken while a run was in flight, and in no
                   \* epoch of a preparation since
    undermined     \* history: a run failed since the last crash-style ready

driverVars == <<leases, epochOps, staleOps, begin, ready, admission, holders,
                suspended, late, undermined>>
vars == <<managerVars, driverVars>>

Phases == <<"quiesce", "peer-obligations", "peer-durable-work", "delivery",
            "durable-work", "release">>
NoBegin == [pc |-> "none", phase |-> 1, targets |-> {}, pending |-> {}, failed |-> {}]
NoReady == [pc |-> "none", targets |-> {}, recording |-> {}, failed |-> {}]

Phase == Phases[begin.phase]
\* A lifecycle call is refused; nothing else of the owner changes.
Refuse == Fault /\ UNCHANGED unfaulted
\* Fault: only the activations with a lease of their own start afresh.
OpenActivations == [t \in Activations |-> "open"]

Open == [t \in Targets |-> "open"]

-----------------------------------------------------------------------------
(* handleRestartBegin and prepareTargets. *)

\* The hook is running: its signal aborts it between calls, never within one.
Preparing == In("preparing") /\ ~activeTransition.prepAbort

beginOnly == <<managerVars, leases, epochOps, staleOps, ready, admission, holders,
               suspended, late, undermined>>

\* lifecycleOpenEpoch: one pending resume row per lease.
OpenEpoch ==
    /\ Preparing /\ begin.pc = "none" /\ Answering
    /\ staleOps' = staleOps \cup epochOps
    /\ epochOps' = leases /\ late' = late \ leases
    /\ begin' = [begin EXCEPT !.pc = "listing"]
    /\ UNCHANGED <<managerVars, leases, ready, admission, holders, suspended,
                   undermined>>

\* lifecycleListLeases: the targets of every phase.
ListLeases ==
    /\ Preparing /\ begin.pc = "listing" /\ Answering
    /\ begin' = [begin EXCEPT !.pc = "phase", !.targets = leases, !.pending = leases]
    /\ UNCHANGED beginOnly

\* What a phase does to the activation, whether or not it is refused.
PhaseEffect(t, refused) ==
    CASE Phase = "quiesce" ->
            /\ admission' = [admission EXCEPT ![t] = "quiesced"]
            /\ UNCHANGED <<leases, holders, suspended>>
      [] Phase = "release" ->
            /\ admission' = [admission EXCEPT ![t] = "released"]
            /\ leases' = IF refused THEN leases ELSE leases \ ({t} \cap Activations)
            /\ \E gone \in {{t}, IF refused THEN {} ELSE {t}} :
                holders' = holders \ gone /\ suspended' = suspended \cup gone
      [] OTHER -> UNCHANGED <<leases, admission, holders, suspended>>

AnswerPhase(t) ==
    /\ begin.pc = "phase" /\ t \in begin.pending /\ Answering
    /\ PhaseEffect(t, FALSE)
    /\ begin' = [begin EXCEPT !.pending = @ \ {t}]
    /\ UNCHANGED <<managerVars, epochOps, staleOps, ready, late, undermined>>

RefusePhase(t) ==
    /\ begin.pc = "phase" /\ t \in begin.pending /\ Answering
    /\ Refuse
    /\ PhaseEffect(t, TRUE)
    /\ begin' = [begin EXCEPT !.pending = @ \ {t}, !.failed = @ \cup {t}]
    /\ UNCHANGED <<epochOps, staleOps, ready, late, undermined>>

\* Fault: a target that refused is not counted as quiesced.
QuiescedUnrefused == begin.targets \ begin.failed

\* The targets to reopen: all were counted before the first call was sent.
Quiesced == begin.targets

\* drainDurableWorkDeliveries fails as a whole.
RefuseDelivery ==
    /\ Preparing /\ begin.pc = "phase" /\ Phase = "delivery"
    /\ Refuse
    /\ begin' = [begin EXCEPT !.pc = "cancel", !.pending = Quiesced]
    /\ UNCHANGED <<leases, epochOps, staleOps, ready, admission, holders, suspended,
                   late, undermined>>

\* Fault: the phase ends with its first answer.
OneAnswered == begin.targets # {} => begin.pending # begin.targets

AllAnswered == begin.pending = {}

\* The pool of a phase is joined.
JoinPhase ==
    /\ Preparing /\ begin.pc = "phase" /\ AllAnswered
    /\ begin' =
        IF begin.failed # {}
        THEN [begin EXCEPT !.pc = "cancel", !.failed = {},
                           !.pending = IF Phase = "release" THEN {} ELSE Quiesced]
        ELSE IF Phase = "release" THEN [begin EXCEPT !.pc = "journal"]
        ELSE [begin EXCEPT !.phase = @ + 1,
                           !.pending = IF Phases[begin.phase + 1] = "delivery"
                                       THEN {} ELSE begin.targets]
    /\ UNCHANGED beginOnly

\* cancelPreparation: restores admission of one target, or is refused.
Cancel(t) ==
    /\ begin.pc = "cancel" /\ t \in begin.pending /\ Answering
    /\ \/ /\ admission' = [admission EXCEPT ![t] = "open"]
          /\ begin' = [begin EXCEPT !.pending = @ \ {t}]
          /\ UNCHANGED managerVars
       \/ /\ Refuse
          /\ begin' = [begin EXCEPT !.pending = @ \ {t}, !.failed = @ \cup {t}]
          /\ UNCHANGED admission
    /\ UNCHANGED <<leases, epochOps, staleOps, ready, holders, suspended, late, undermined>>

\* The prepare rows are recorded: of the refusal, or of the release.  A refused
\* delivery is thrown on and records none.
Journal ==
    /\ Preparing
    /\ \/ /\ begin.pc = "cancel" /\ begin.pending = {}
          /\ Phase = "delivery" \/ Answering
          /\ begin' = [begin EXCEPT !.pc = "failed"]
       \/ /\ begin.pc = "journal" /\ Answering
          /\ begin' = [begin EXCEPT !.pc = "ok"]
    /\ UNCHANGED beginOnly

\* The owner moves on when the hook settled, or at once when it is aborted.
FinishPreparation ==
    /\ \/ begin.pc \in {"ok", "failed"} /\ PreparationEnds(begin.pc)
       \/ PreparationEnds("aborted")
    /\ UNCHANGED driverVars

-----------------------------------------------------------------------------
(* handleRestartReady, recoverStartup and resumeTargets. *)

readyOnly == <<begin, holders, late, undermined>>

\* lifecycleListResumeTargets, or the epoch's own rows for a planned ready.
ListTargets ==
    /\ ready.pc = "listing" /\ Answering
    /\ ready' =
        IF ReadyReason = "planned"
        THEN [ready EXCEPT !.pc = "resuming", !.targets = epochOps]
        ELSE IF leases \cup epochOps \cup staleOps = {} THEN [ready EXCEPT !.pc = "done"]
        ELSE [ready EXCEPT !.pc = "opening", !.targets = leases \cup epochOps \cup staleOps]
    /\ UNCHANGED <<managerVars, readyOnly, leases, epochOps, staleOps, admission, suspended>>

\* The epoch of a crash recovery is opened after its targets were listed.
OpenCrashEpoch ==
    /\ ready.pc = "opening" /\ Answering
    /\ staleOps' = staleOps \cup epochOps
    /\ epochOps' = leases
    /\ ready' = [ready EXCEPT !.pc = "resuming"]
    /\ UNCHANGED <<managerVars, readyOnly, leases, admission, suspended>>

\* __lifecycle/resume; an eval kernel clears its declaration.
Resume(t) ==
    /\ ready.pc = "resuming" /\ t \in ready.targets /\ Answering
    /\ admission' = [admission EXCEPT ![t] = "open"]
    /\ suspended' = suspended \ {t}
    /\ leases' = leases \ ({t} \cap Activations)
    /\ ready' = [ready EXCEPT !.targets = @ \ {t}, !.recording = @ \cup {t}]
    /\ UNCHANGED <<managerVars, readyOnly, epochOps, staleOps>>

RefuseResume(t) ==
    /\ ready.pc = "resuming" /\ t \in ready.targets /\ Answering
    /\ Refuse
    /\ ready' = [ready EXCEPT !.targets = @ \ {t}, !.recording = @ \cup {t},
                              !.failed = @ \cup {t}]
    /\ UNCHANGED <<readyOnly, leases, epochOps, staleOps, admission, suspended>>

\* Fault: a refused resume is recorded like a resumed one.
RecordedAlike(t) == epochOps \ {t}

Recorded(t) == IF t \in ready.failed THEN epochOps \cup {t} ELSE epochOps \ {t}

\* lifecycleRecordOp of the resume, as resumed or failed.
RecordResume(t) ==
    /\ t \in ready.recording /\ Answering
    /\ epochOps' = Recorded(t)
    /\ ready' = [ready EXCEPT !.recording = @ \ {t}]
    /\ UNCHANGED <<managerVars, readyOnly, leases, staleOps, admission, suspended>>

\* The run is over: a failed one leaves the next start without its ready.
Undermines == undermined' = TRUE
Reconstructs == undermined' = (undermined /\ ReadyReason = "planned")

\* All targets are resumed and recorded, or the process died under the hook.
FinishReady ==
    /\ \/ /\ ready.pc = "done" \/ (ready.pc = "resuming" /\ Answering)
          /\ ready.targets = {} /\ ready.recording = {}
          /\ ReadyEnds(ready.failed = {})
          /\ IF ready.failed = {} THEN Reconstructs ELSE Undermines
       \/ /\ ready.pc # "none" /\ process = 0
          /\ ReadyEnds(FALSE)
          /\ Undermines
    /\ ready' = NoReady
    /\ UNCHANGED <<leases, epochOps, staleOps, begin, admission, holders, suspended, late>>

-----------------------------------------------------------------------------
(* The owner's other steps, with what they do to the activations. *)

\* The activations of the process are gone, and the calls to them with it.
Destroy ==
    /\ admission' = Open /\ holders' = {}
    /\ suspended' = suspended \cup leases \cup holders
    /\ begin' = NoBegin

durableRows == <<leases, epochOps, staleOps>>

Stop ==
    /\ StopProcess /\ Destroy
    /\ UNCHANGED <<durableRows, ready, late, undermined>>

Exit ==
    /\ ProcessExits /\ Destroy
    /\ UNCHANGED <<durableRows, ready, late, undermined>>

Start ==
    /\ StartWorkerd
    /\ ready' = IF OwesReady THEN [NoReady EXCEPT !.pc = "listing"] ELSE NoReady
    /\ UNCHANGED <<durableRows, begin, admission, holders, suspended, late, undermined>>

FailRun ==
    /\ RefuseOverlap \/ FailStart
    /\ Undermines
    /\ UNCHANGED <<durableRows, begin, ready, admission, holders, suspended, late>>

ManagerStep ==
    /\ \/ \E kind \in {"planned", "stop"} : RequestRestart(kind)
       \/ EnsureRunning
       \/ TakeOwnership
       \/ Reaped
       \/ UnkillableExits
       \/ Hang /\ (LateHangs \/ ~In("ready"))
       \/ ReportUnresponsive
    /\ UNCHANGED driverVars

-----------------------------------------------------------------------------
(* The Durable Objects. *)

\* registerLifecycleRelease, awaited before the resource is acknowledged.
Acquire(t) ==
    /\ t \in Activations \ holders /\ admission[t] = "open" /\ Answering
    /\ leases' = leases \cup {t}
    /\ holders' = holders \cup {t}
    /\ suspended' = suspended \ {t}
    /\ late' = IF Active THEN late \cup {t} ELSE late \ {t}
    /\ UNCHANGED <<managerVars, epochOps, staleOps, begin, ready, admission,
                   undermined>>

\* clearLifecycleRelease of an idle kernel.
Relinquish(t) ==
    /\ t \in holders /\ admission[t] = "open" /\ Answering
    /\ leases' = leases \ {t}
    /\ holders' = holders \ {t}
    /\ UNCHANGED <<managerVars, epochOps, staleOps, begin, ready, admission, suspended,
                   late, undermined>>

-----------------------------------------------------------------------------
Init ==
    /\ ManagerInit
    /\ leases = Targets \ Activations
    /\ epochOps = {} /\ staleOps = {}
    /\ begin = NoBegin /\ ready = NoReady
    /\ admission = Open /\ holders = {}
    /\ suspended = {} /\ late = {} /\ undermined = FALSE

DriverStep ==
    \/ OpenEpoch \/ ListLeases \/ RefuseDelivery \/ JoinPhase \/ Journal
    \/ FinishPreparation
    \/ ListTargets \/ OpenCrashEpoch \/ FinishReady
    \/ \E t \in Targets : \/ AnswerPhase(t) \/ RefusePhase(t) \/ Cancel(t)
                         \/ Resume(t) \/ RefuseResume(t) \/ RecordResume(t)

Next ==
    \/ ManagerStep \/ Stop \/ Exit \/ Start \/ FailRun
    \/ DriverStep
    \/ \E t \in Targets : Acquire(t) \/ Relinquish(t)

\* The steps the process takes by itself once they are possible.
Fairness ==
    /\ WF_vars(TakeOwnership /\ UNCHANGED driverVars)
    /\ WF_vars(Reaped /\ UNCHANGED driverVars)
    /\ WF_vars(Stop) /\ WF_vars(Start) /\ WF_vars(DriverStep)

Spec == Init /\ [][Next]_vars
LiveSpec == Spec /\ Fairness

-----------------------------------------------------------------------------
BeginState == [pc : {"none", "listing", "phase", "cancel", "journal", "ok", "failed"},
               phase : DOMAIN Phases, targets : SUBSET Targets,
               pending : SUBSET Targets, failed : SUBSET Targets]
ReadyState == [pc : {"none", "listing", "opening", "resuming", "done"},
               targets : SUBSET Targets, recording : SUBSET Targets,
               failed : SUBSET Targets]

\* Every variable holds a value of its kind.
RestartTypeOK ==
    /\ ManagerTypeOK
    /\ leases \subseteq Targets /\ epochOps \subseteq Targets /\ staleOps \subseteq Targets
    /\ begin \in BeginState /\ ready \in ReadyState
    /\ admission \in [Targets -> {"open", "quiesced", "released"}]
    /\ holders \subseteq Targets /\ suspended \subseteq Targets
    /\ late \subseteq Activations
    /\ undermined \in BOOLEAN

\* No Durable Object has begun to release its resources while another target
\* of the same preparation still admits work: each phase joins every target
\* before the next one starts, whatever the order of the answers.
ReleaseIsJoined ==
    \A t \in Targets : admission[t] = "released" =>
        \A other \in begin.targets : admission[other] # "open"

\* A preparation that failed before anything was released leaves no target
\* closed in the generation that still serves, unless its cancel failed too.
FailedPreparationReopens ==
    begin.pc = "failed" /\ Phase # "release" =>
        \A t \in Targets : admission[t] = "quiesced" => t \in begin.failed

\* A Durable Object that was released, or lost with its process, is recorded
\* as a resume target until it is resumed: a crash at any point between the
\* listing of leases and the last resume can reconstruct it.  Only the lease a
\* kernel took while a run was in flight is excepted, until an epoch lists it.
SuspendedIsOwed == suspended \ late \subseteq leases \cup epochOps \cup staleOps

\* When the owner is at rest over a running process, and no run failed since
\* the last reconstruction, every released or lost Durable Object is resumed,
\* however planned restarts, stops, exits and hangs followed each other, but
\* for those whose lease no epoch listed.
ResumedOnceRunning ==
    ~Active /\ process # 0 /\ ~undermined => suspended \subseteq late

\* A crash recovery that reports success replaced the generation that was
\* running when it was requested, also when another run absorbed it.
CrashGetsNewGeneration ==
    \A e \in DOMAIN calls :
        calls[e].kind = "crash" /\ calls[e].result = "ok" => bootGeneration > calls[e].since

\* A crash recovery never waits for ever, not even behind a preparation that
\* the hung process will not answer.
CrashWaits ==
    \E e \in DOMAIN calls : calls[e].kind = "crash" /\ calls[e].result = "waiting"
CrashIsSettled == []<>~CrashWaits
=============================================================================
