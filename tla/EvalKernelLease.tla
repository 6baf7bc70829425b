--------------------------- MODULE EvalKernelLease ---------------------------
(***************************************************************************)
(* The request that keeps an eval kernel resident between two cells: the   *)
(* host's EvalKernelLeaseCoordinator for one EvalDO, and the kernel lease  *)
(* of that EvalDO's activation.                                            *)
(*                                                                         *)
(* Each call is sent, executed by the activation and answered, and can be  *)
(* lost before and after its execution.  Leases are named by their ids in  *)
(* the order they are made.  When the idle timer fires is left open.       *)
(***************************************************************************)
EXTENDS Naturals

CONSTANTS
    MaxTouches,    \* bound on touches
    MaxFaults      \* bound on lost calls and lost activations

ASSUME KernelAssumption == MaxTouches \in Nat /\ MaxFaults \in Nat

VARIABLES
    closing,       \* close(): "open" until it is called, "closed" once it returned
    waiting,       \* touches queued behind the one that runs
    mapped,        \* id of leases.get(key), 0 for none
    holding,       \* ids of the leases whose holding flag is set
    holds,         \* the held request of each lease, as the host sees it
    op,            \* the touch that runs and the call it awaits
    kernel,        \* kernelLease of the activation, id 0 for null
    stranded,      \* history: leases whose attaching call failed and that were
                   \* not attached since
    nextId, touches, faults

hostVars == <<closing, waiting, mapped, holding, stranded, nextId, touches>>
vars == <<hostVars, holds, op, kernel, faults>>

Ids == 1..(2 * MaxTouches)
NoKernel == [id |-> 0, attached |-> FALSE]
NoOp == [pc |-> "none", id |-> 0, call |-> "none", attached |-> FALSE]
Send(pc, id) == [NoOp EXCEPT !.pc = pc, !.id = id, !.call = "sent"]

Fault == faults < MaxFaults /\ faults' = faults + 1
Closed == closing # "open"

\* The held request of a lease that ended at the activation is answered.
Settled(id) == [holds EXCEPT ![id] = IF @ = "held" THEN "settled" ELSE @]
Unmap(id) == IF mapped = id THEN 0 ELSE mapped

-----------------------------------------------------------------------------
(* touch. *)

Touch ==
    /\ ~Closed /\ touches < MaxTouches
    /\ touches' = touches + 1 /\ waiting' = waiting + 1
    /\ UNCHANGED <<closing, mapped, holding, stranded, nextId, holds, op, kernel, faults>>

\* touchLocked of the next queued touch; it throws once the host is closing.
BeginTouch ==
    /\ op = NoOp /\ waiting > 0
    /\ waiting' = waiting - 1
    /\ IF Closed THEN UNCHANGED <<op, mapped, nextId>>
       ELSE IF mapped # 0
       THEN op' = Send("acquire", mapped) /\ UNCHANGED <<mapped, nextId>>
       ELSE op' = Send("acquire", nextId) /\ mapped' = nextId /\ nextId' = nextId + 1
    /\ UNCHANGED <<closing, holding, stranded, touches, holds, kernel, faults>>

\* Fault: the replaced lease is dropped, not settled.
Replaced(id) == holds

Ended(id) == IF id = 0 THEN holds ELSE Settled(id)

\* acquireKernelLease: another id replaces the lease of the activation.
ExecuteAcquire ==
    /\ op.pc \in {"acquire", "reacquire"} /\ op.call = "sent"
    /\ IF kernel.id = op.id THEN UNCHANGED <<kernel, holds>>
       ELSE /\ holds' = Ended(kernel.id)
            /\ kernel' = [NoKernel EXCEPT !.id = op.id]
    /\ op' = [op EXCEPT !.call = "executed", !.attached = kernel'.attached]
    /\ UNCHANGED <<hostVars, faults>>

\* Fault: the replacing lease is replaced again.
OrphanedAgain(call) == ~call.attached

\* The lease has a hold here but no holder there: it may not be renewed.
Orphaned(call) == call.pc = "acquire" /\ call.id \in holding

\* An attached holder is the warm kernel; a hold without one is replaced.
AnswerAcquire ==
    /\ op.pc \in {"acquire", "reacquire"} /\ op.call = "executed"
    /\ IF op.pc = "acquire" /\ Closed
       THEN op' = NoOp /\ mapped' = Unmap(op.id) /\ UNCHANGED nextId
       ELSE IF op.attached THEN op' = NoOp /\ UNCHANGED <<mapped, nextId>>
       ELSE IF Orphaned(op)
       THEN op' = Send("reacquire", nextId) /\ mapped' = nextId /\ nextId' = nextId + 1
       ELSE op' = Send("attach", op.id) /\ UNCHANGED <<mapped, nextId>>
    /\ UNCHANGED <<closing, waiting, holding, stranded, touches, holds, kernel, faults>>

\* attachKernelLeaseHolder: refused unless the lease is there and free.
ExecuteAttach ==
    /\ op.pc = "attach" /\ op.call = "sent"
    /\ IF kernel = [id |-> op.id, attached |-> FALSE]
       THEN /\ kernel' = [kernel EXCEPT !.attached = TRUE]
            /\ op' = [op EXCEPT !.call = "executed"]
       ELSE op' = [op EXCEPT !.call = "refused"] /\ UNCHANGED kernel
    /\ UNCHANGED <<hostVars, holds, faults>>

\* The long request is opened, unless close() began meanwhile.
AnswerAttach ==
    /\ op.pc = "attach" /\ op.call = "executed"
    /\ op' = NoOp
    /\ IF Closed THEN mapped' = Unmap(op.id) /\ UNCHANGED <<holding, stranded, holds>>
       ELSE /\ holding' = holding \cup {op.id} /\ stranded' = stranded \ {op.id}
            /\ holds' = [holds EXCEPT ![op.id] = "sent"]
            /\ UNCHANGED mapped
    /\ UNCHANGED <<closing, waiting, nextId, touches, kernel, faults>>

\* A call fails: only the first acquire gives its lease up.  A later one leaves
\* the lease in the map without a held request.
FailCall ==
    /\ op.call # "none"
    /\ (op.call = "refused" /\ UNCHANGED faults) \/ Fault
    /\ op' = NoOp
    /\ IF op.pc = "acquire" THEN mapped' = Unmap(op.id) /\ UNCHANGED stranded
       ELSE stranded' = stranded \cup {op.id} /\ UNCHANGED mapped
    /\ UNCHANGED <<closing, waiting, holding, nextId, touches, holds, kernel>>

-----------------------------------------------------------------------------
(* The held request. *)

\* holdKernelLease: held while the lease lives, refused without a holder.
ExecuteHold(id) ==
    /\ holds[id] = "sent"
    /\ holds' = [holds EXCEPT ![id] = IF kernel = [id |-> id, attached |-> TRUE]
                                      THEN "held" ELSE "settled"]
    /\ UNCHANGED <<hostVars, op, kernel, faults>>

\* Fault: only an answered request gives its lease up.
UnmapAnswered(id, lost) == IF lost THEN mapped ELSE Unmap(id)

UnmapEnded(id, lost) == Unmap(id)

\* The request is answered or lost at the host, and its lease given up.
EndHold(id) ==
    /\ \E lost \in BOOLEAN :
        /\ IF lost THEN holds[id] \in {"sent", "held"} /\ Fault
           ELSE holds[id] = "settled" /\ UNCHANGED faults
        /\ mapped' = UnmapEnded(id, lost)
    /\ holds' = [holds EXCEPT ![id] = "none"]
    /\ UNCHANGED <<closing, waiting, holding, stranded, nextId, touches, op, kernel>>

-----------------------------------------------------------------------------
(* The activation. *)

\* expireKernelLease, or the release of the activation by its lifecycle.
EndKernel ==
    /\ kernel.id # 0
    /\ kernel' = NoKernel
    /\ holds' = Settled(kernel.id)
    /\ UNCHANGED <<hostVars, op, faults>>

\* The process is replaced: the lease is forgotten and its request fails.
LoseActivation ==
    /\ Fault
    /\ kernel' = NoKernel
    /\ holds' = [id \in Ids |-> IF holds[id] = "none" THEN "none" ELSE "settled"]
    /\ UNCHANGED <<hostVars, op>>

-----------------------------------------------------------------------------
(* close. *)

\* The first round aborts the held request of the lease it finds; a touch that
\* is under way opens no other once the host is closing.
Close ==
    /\ ~Closed
    /\ closing' = "draining"
    /\ IF mapped # 0 /\ holds[mapped] # "none"
       THEN holds' = [holds EXCEPT ![mapped] = "none"] /\ mapped' = 0
       ELSE UNCHANGED <<holds, mapped>>
    /\ UNCHANGED <<waiting, holding, stranded, nextId, touches, op, kernel, faults>>

\* The rounds end when no operation and no lease is left.
FinishClose ==
    /\ closing = "draining"
    /\ op = NoOp /\ waiting = 0 /\ mapped = 0
    /\ closing' = "closed"
    /\ UNCHANGED <<waiting, mapped, holding, stranded, nextId, touches, holds, op, kernel, faults>>

-----------------------------------------------------------------------------
Init ==
    /\ closing = "open" /\ waiting = 0
    /\ mapped = 0 /\ holding = {} /\ stranded = {}
    /\ holds = [id \in Ids |-> "none"]
    /\ op = NoOp /\ kernel = NoKernel
    /\ nextId = 1 /\ touches = 0 /\ faults = 0

HostStep == BeginTouch \/ AnswerAcquire \/ AnswerAttach \/ FinishClose
ActivationStep == ExecuteAcquire \/ ExecuteAttach
Refused == op.call = "refused" /\ FailCall

Next ==
    \/ Touch \/ Close
    \/ HostStep \/ ActivationStep \/ FailCall
    \/ \E id \in Ids : ExecuteHold(id) \/ EndHold(id)
    \/ EndKernel \/ LoseActivation

Spec == Init /\ [][Next]_vars

\* Calls are executed and answered or fail.  The idle timer is not relied on.
Fairness ==
    /\ WF_vars(HostStep) /\ WF_vars(ActivationStep) /\ WF_vars(Refused)
    /\ \A id \in Ids : WF_vars(ExecuteHold(id)) /\ WF_vars(EndHold(id) /\ UNCHANGED faults)

LiveSpec == Spec /\ Fairness

-----------------------------------------------------------------------------
\* Every variable holds a value of its kind.
KernelTypeOK ==
    /\ closing \in {"open", "draining", "closed"}
    /\ waiting \in Nat /\ touches \in Nat /\ faults \in Nat /\ nextId \in Nat \ {0}
    /\ mapped \in Ids \cup {0} /\ holding \subseteq Ids /\ stranded \subseteq Ids
    /\ holds \in [Ids -> {"none", "sent", "held", "settled"}]
    /\ op \in [pc : {"none", "acquire", "reacquire", "attach"}, id : Ids \cup {0},
               call : {"none", "sent", "executed", "refused"}, attached : BOOLEAN]
    /\ kernel \in [id : Ids \cup {0}, attached : BOOLEAN]

\* A holder the activation reports as attached to the lease the host keeps is
\* a request the host really has open: the next touch returns on its word.  Only
\* a lease whose attaching call failed at the host is excepted.
AttachedIsHeld ==
    kernel.attached /\ kernel.id = mapped /\ mapped \notin stranded /\ op.pc # "attach" =>
        holds[kernel.id] \in {"sent", "held"}

\* A lease that was replaced or expired ends its held request, also when the
\* host gave the lease up while the request was open.
ReplacedIsSettled == \A id \in Ids \ {kernel.id} : holds[id] # "held"

\* close() returns, whatever touches and held requests it overtakes.
CloseReturns == closing = "draining" ~> closing = "closed"

\* The only thing that keeps close() from returning is a lease that a failed
\* attaching call left in the map.
CloseReturnsUnlessStranded ==
    closing = "draining" ~> closing = "closed" \/ mapped \in stranded
=============================================================================
