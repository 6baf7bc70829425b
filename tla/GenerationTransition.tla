------------------------ MODULE GenerationTransition ------------------------
(***************************************************************************)
(* The generation-transition owner of WorkerdManager: the one place that   *)
(* stops and starts the workerd process.                                   *)
(*                                                                         *)
(* A restart request takes the next epoch, and its caller waits until a    *)
(* run of the owner covered that epoch.  A run prepares, closes and reaps  *)
(* the old generation, starts the next one and emits its restart-ready     *)
(* hooks.  What the hooks do is left to the module that extends this one:  *)
(* PreparationEnds and ReadyEnds are conjoined with their results there.   *)
(*                                                                         *)
(* Processes are named by the generation they were started for.  The three *)
(* attempts of one start are one outcome.                                  *)
(***************************************************************************)
EXTENDS Naturals, Sequences

CONSTANTS
    MaxCalls,      \* bound on restart requests
    MaxFaults      \* bound on faults: exits, hangs, refused kills, starts and calls

ASSUME BoundAssumption == MaxCalls \in Nat /\ MaxFaults \in Nat

VARIABLES
    process,                    \* this.process: its generation, 0 for null
    alive,                      \* generations whose process still runs
    hung,                       \* the current process answers nothing
    bootGeneration,
    calls,                      \* the restartWorkerd calls; epoch = position
    appliedEpoch,
    restartRequests,            \* the kinds that are queued
    activeTransition,
    unresponsiveRecovery,       \* epoch of the recovery in flight, 0 for null
    resumeLifecycleAfterStop,
    faults                      \* faults so far

unfaulted == <<process, alive, hung, bootGeneration, calls, appliedEpoch,
               restartRequests, activeTransition, unresponsiveRecovery,
               resumeLifecycleAfterStop>>
managerVars == <<unfaulted, faults>>

Kinds == {"planned", "crash", "stop"}
Call == [kind : Kinds, since : Nat, result : {"waiting", "ok", "failed"}]
Transition == [kind : Kinds,
               state : {"none", "preparing", "stopping", "reaping", "starting", "ready"},
               hadProcess : BOOLEAN, prepDegraded : BOOLEAN, prepAbort : BOOLEAN,
               covered : Nat, stopped : Nat]

NoTransition == [kind |-> "planned", state |-> "none", hadProcess |-> FALSE,
                 prepDegraded |-> FALSE, prepAbort |-> FALSE, covered |-> 0,
                 stopped |-> 0]

Active == activeTransition.state # "none"
In(state) == activeTransition.state = state
requestedEpoch == Len(calls)
CrashStyle(t) == t.kind = "crash" \/ t.prepDegraded
Fault == faults < MaxFaults /\ faults' = faults + 1

\* The process answers the calls it is sent.
Answering == process # 0 /\ ~hung

-----------------------------------------------------------------------------
(* Requests. *)

\* crash > planned > stop; a run without a request is planned.
Classify(requests) ==
    CASE "crash" \in requests -> "crash"
      [] "crash" \notin requests /\ requests = {"stop"} -> "stop"
      [] OTHER -> "planned"

\* startGenerationTransition, up to its first await.
Begun(requests, epoch, running) ==
    LET kind == Classify(requests)
    IN  [NoTransition EXCEPT !.kind = kind,
                             !.state = IF kind # "crash" /\ running # 0
                                       THEN "preparing" ELSE "stopping",
                             !.hadProcess = running # 0,
                             !.covered = epoch]

\* Fault: a crash waits for the preparation.
NotPreempted(t, kind) == t

\* preemptPreparingTransition
Preempted(t, kind) ==
    IF kind = "crash" /\ t.state = "preparing" THEN [t EXCEPT !.prepAbort = TRUE] ELSE t

\* restartWorkerd, called while `running` is this.process.
Request(kind, running) ==
    /\ Len(calls) < MaxCalls
    /\ calls' = Append(calls, [kind |-> kind, since |-> bootGeneration,
                               result |-> "waiting"])
    /\ IF Active
       THEN /\ restartRequests' = restartRequests \cup {kind}
            /\ activeTransition' = Preempted(activeTransition, kind)
       ELSE /\ restartRequests' = {}
            /\ activeTransition' =
                   Begun(restartRequests \cup {kind}, requestedEpoch + 1, running)

\* recoverSandbox: callers of a recovery in flight share it.
Recover(running) ==
    IF unresponsiveRecovery # 0
    THEN UNCHANGED <<calls, restartRequests, activeTransition, unresponsiveRecovery>>
    ELSE Request("crash", running) /\ unresponsiveRecovery' = requestedEpoch + 1

\* A configuration change, or storage maintenance that needs a live process.
RequestRestart(kind) ==
    /\ kind = "planned" \/ (kind = "stop" /\ process # 0)
    /\ Request(kind, process)
    /\ UNCHANGED <<process, alive, hung, bootGeneration, appliedEpoch,
                   unresponsiveRecovery, resumeLifecycleAfterStop, faults>>

\* ensureWorkerdRunning of a dispatch that found no process and no owner run.
EnsureRunning ==
    /\ process = 0 /\ ~Active
    /\ IF appliedEpoch < requestedEpoch
       THEN /\ activeTransition' = Begun(restartRequests, requestedEpoch, 0)
            /\ restartRequests' = {}
            /\ UNCHANGED calls
       ELSE Request("planned", 0)
    /\ UNCHANGED <<process, alive, hung, bootGeneration, appliedEpoch,
                   unresponsiveRecovery, resumeLifecycleAfterStop, faults>>

\* ensureRestartAtLeast of a caller whose epoch no run covered yet.
TakeOwnership ==
    /\ ~Active
    /\ \E e \in DOMAIN calls : calls[e].result = "waiting"
    /\ activeTransition' = Begun(restartRequests, requestedEpoch, process)
    /\ restartRequests' = {}
    /\ UNCHANGED <<process, alive, hung, bootGeneration, calls, appliedEpoch,
                   unresponsiveRecovery, resumeLifecycleAfterStop, faults>>

-----------------------------------------------------------------------------
(* The owner run. *)

Advance(state) == activeTransition' = [activeTransition EXCEPT !.state = state]

\* The run ends: its waiters learn the outcome, the others wait on.
End(ok) ==
    LET applied == IF ok /\ activeTransition.covered > appliedEpoch
                   THEN activeTransition.covered ELSE appliedEpoch
        answered(e) == calls[e].result = "waiting"
                       /\ e <= IF ok THEN applied ELSE activeTransition.covered
    IN  /\ appliedEpoch' = applied
        /\ calls' = [e \in DOMAIN calls |->
                        IF answered(e)
                        THEN [calls[e] EXCEPT !.result = IF ok THEN "ok" ELSE "failed"]
                        ELSE calls[e]]
        /\ unresponsiveRecovery' =
               IF unresponsiveRecovery # 0 /\ answered(unresponsiveRecovery)
               THEN 0 ELSE unresponsiveRecovery
        /\ activeTransition' = NoTransition

\* Fault: the run keeps its kind.
NotEscalated(kind) == kind

Escalated(kind) == IF "crash" \in restartRequests THEN "crash" ELSE kind

\* emitRestartBegin returns; requests queued meanwhile are absorbed, and a
\* crash among them escalates the run.
PreparationEnds(outcome) ==
    /\ In("preparing")
    /\ outcome = "aborted" => activeTransition.prepAbort
    /\ activeTransition' =
           [activeTransition EXCEPT
               !.state = "stopping",
               !.kind = Escalated(@),
               !.prepDegraded = outcome = "failed",
               !.covered = requestedEpoch]
    /\ restartRequests' = {}
    /\ UNCHANGED <<process, alive, hung, bootGeneration, calls, appliedEpoch,
                   unresponsiveRecovery, resumeLifecycleAfterStop, faults>>

\* The generation-closing hooks have run: stopWorkerd drops the process.
StopProcess ==
    /\ In("stopping")
    /\ process' = 0 /\ hung' = FALSE
    /\ activeTransition' = [activeTransition EXCEPT !.state = "reaping",
                                                    !.stopped = process]
    /\ UNCHANGED <<alive, bootGeneration, calls, appliedEpoch, restartRequests,
                   unresponsiveRecovery, resumeLifecycleAfterStop, faults>>

\* stopWorkerd saw the old process exit.  A stop ends here; the next start
\* then owes the lifecycle hooks a crash-style ready.
Reaped ==
    /\ In("reaping")
    /\ alive' = alive \ {activeTransition.stopped}
    /\ IF activeTransition.kind = "stop"
       THEN /\ End(TRUE)
            /\ resumeLifecycleAfterStop' =
                   (resumeLifecycleAfterStop \/ activeTransition.hadProcess)
       ELSE /\ Advance("starting")
            /\ UNCHANGED <<calls, appliedEpoch, unresponsiveRecovery,
                           resumeLifecycleAfterStop>>
    /\ UNCHANGED <<process, hung, bootGeneration, restartRequests, faults>>

\* The old process survived SIGKILL: the run fails, its exit is watched.
RefuseOverlap ==
    /\ In("reaping") /\ activeTransition.stopped # 0
    /\ Fault
    /\ End(FALSE)
    /\ UNCHANGED <<process, alive, hung, bootGeneration, restartRequests,
                   resumeLifecycleAfterStop>>

\* Fault: a stop leaves no debt.
OwesReadyOfRun == CrashStyle(activeTransition) \/ activeTransition.hadProcess

\* A run that replaced a process, crash-style or not, or follows a stop.
OwesReady ==
    CrashStyle(activeTransition) \/ activeTransition.hadProcess \/ resumeLifecycleAfterStop

ReadyReason ==
    IF CrashStyle(activeTransition) \/ resumeLifecycleAfterStop THEN "crash" ELSE "planned"

\* startWorkerdOnce succeeded.  The ready hooks follow if the run owes them.
StartWorkerd ==
    /\ In("starting")
    /\ bootGeneration' = bootGeneration + 1
    /\ process' = bootGeneration'
    /\ alive' = alive \cup {bootGeneration'}
    /\ IF OwesReady
       THEN /\ Advance("ready")
            /\ UNCHANGED <<calls, appliedEpoch, unresponsiveRecovery>>
       ELSE End(TRUE)
    /\ UNCHANGED <<hung, restartRequests, resumeLifecycleAfterStop, faults>>

\* Every attempt to start failed.
FailStart ==
    /\ In("starting")
    /\ Fault
    /\ End(FALSE)
    /\ UNCHANGED <<process, alive, hung, bootGeneration, restartRequests,
                   resumeLifecycleAfterStop>>

\* emitRestartReady returns, or throws the failure of its hooks.
ReadyEnds(ok) ==
    /\ In("ready")
    /\ End(ok)
    /\ resumeLifecycleAfterStop' = (resumeLifecycleAfterStop /\ ~ok)
    /\ UNCHANGED <<process, alive, hung, bootGeneration, restartRequests, faults>>

-----------------------------------------------------------------------------
(* The processes. *)

\* The exit observer of the current process.
ProcessExits ==
    /\ process # 0
    /\ Fault
    /\ process' = 0 /\ hung' = FALSE
    /\ alive' = alive \ {process}
    /\ Recover(0)
    /\ UNCHANGED <<bootGeneration, appliedEpoch, resumeLifecycleAfterStop>>

\* installUnkillableProcessWatch
UnkillableExits ==
    /\ \E g \in alive \ {process, activeTransition.stopped} : alive' = alive \ {g}
    /\ Request("crash", process)
    /\ UNCHANGED <<process, hung, bootGeneration, appliedEpoch, unresponsiveRecovery,
                   resumeLifecycleAfterStop, faults>>

\* Userland code spins: nothing in the process answers any more.
Hang ==
    /\ process # 0 /\ ~hung
    /\ Fault
    /\ hung' = TRUE
    /\ UNCHANGED <<process, alive, bootGeneration, calls, appliedEpoch, restartRequests,
                   activeTransition, unresponsiveRecovery, resumeLifecycleAfterStop>>

\* recoverUnresponsiveSandbox
ReportUnresponsive ==
    /\ hung
    /\ Recover(process)
    /\ UNCHANGED <<process, alive, hung, bootGeneration, appliedEpoch,
                   resumeLifecycleAfterStop, faults>>

ManagerInit ==
    /\ process = 1 /\ alive = {1} /\ hung = FALSE
    /\ bootGeneration = 1
    /\ calls = <<>> /\ appliedEpoch = 0 /\ restartRequests = {}
    /\ activeTransition = NoTransition
    /\ unresponsiveRecovery = 0
    /\ resumeLifecycleAfterStop = FALSE
    /\ faults = 0

ManagerTypeOK ==
    /\ process \in Nat /\ alive \subseteq Nat /\ hung \in BOOLEAN
    /\ bootGeneration \in Nat
    /\ calls \in Seq(Call) /\ appliedEpoch \in Nat
    /\ restartRequests \subseteq Kinds
    /\ activeTransition \in Transition
    /\ unresponsiveRecovery \in Nat
    /\ resumeLifecycleAfterStop \in BOOLEAN
    /\ faults \in Nat
=============================================================================
