------------------------ MODULE EvalKernelLeaseProofs ------------------------
(***************************************************************************)
(* The kernel lease of EvalKernelLease, for any number of touches and      *)
(* faults: its types, that a lease which ended answers its held request,   *)
(* and that the activation's word about a holder is true of every lease    *)
(* but one whose attaching call failed at the host.                        *)
(***************************************************************************)
EXTENDS EvalKernelLease, TLAPS

HoldStates == {"none", "sent", "held", "settled"}
OpStages == {"none", "acquire", "reacquire", "attach"}
CallStates == {"none", "sent", "executed", "refused"}
Op == [pc : OpStages, id : Ids \cup {0}, call : CallStates, attached : BOOLEAN]
Kernel == [id : Ids \cup {0}, attached : BOOLEAN]

HostOK ==
    /\ closing \in {"open", "draining", "closed"}
    /\ waiting \in Nat /\ touches \in Nat /\ faults \in Nat
    /\ mapped \in Ids \cup {0} /\ holding \subseteq Ids /\ stranded \subseteq Ids
    /\ holds \in [Ids -> HoldStates]

\* A touch takes two ids at most, and one that acquires may still take one.
IdsSuffice ==
    /\ nextId \in Nat \ {0}
    /\ waiting <= touches /\ touches <= MaxTouches
    /\ nextId + (IF op.pc = "acquire" THEN 1 ELSE 0) + 2 * waiting <= 2 * touches + 1

\* The operation that runs and the lease of the activation.
CallOK ==
    /\ op \in Op /\ kernel \in Kernel
    /\ op.pc # "none" => op.id # 0
    /\ op.call # "none" => op.pc # "none"

KernelInv == HostOK /\ IdsSuffice /\ CallOK /\ ReplacedIsSettled

-----------------------------------------------------------------------------
\* What the answer of an ended lease leaves of the held requests.
LEMMA EndedHolds ==
    ASSUME holds \in [Ids -> HoldStates], NEW id \in Ids \cup {0}
    PROVE  /\ Ended(id) \in [Ids -> HoldStates]
           /\ id \in Ids => Settled(id) \in [Ids -> HoldStates]
           /\ id \in Ids => Settled(id)[id] # "held"
           /\ \A other \in Ids : Ended(id)[other] = "held" => holds[other] = "held" /\ other # id
           /\ \A other \in Ids : id \in Ids /\ Settled(id)[other] = "held" =>
                  holds[other] = "held" /\ other # id
<1>1. 0 \notin Ids
  BY DEF Ids
<1> QED
  BY <1>1 DEF Ended, Settled, HoldStates

LEMMA InitInv == Init => KernelInv
<1> SUFFICES ASSUME Init PROVE KernelInv  OBVIOUS
<1> USE DEF Init
<1>1. HostOK
  BY DEF HostOK, HoldStates
<1>2. IdsSuffice
  BY KernelAssumption DEF IdsSuffice, NoOp
<1>3. CallOK
  BY DEF CallOK, NoOp, NoKernel, Op, Kernel, OpStages, CallStates
<1>4. ReplacedIsSettled
  BY DEF ReplacedIsSettled
<1> QED  BY <1>1, <1>2, <1>3, <1>4 DEF KernelInv

\* An id that a touch may still take names a lease.
LEMMA NextIdIsAnId ==
    ASSUME IdsSuffice, CallOK, waiting \in Nat, touches \in Nat,
           waiting > 0 \/ op.pc = "acquire"
    PROVE  nextId \in Ids
BY KernelAssumption DEF IdsSuffice, Ids

LEMMA Sent ==
    ASSUME NEW pc \in OpStages, NEW id \in Ids \cup {0}
    PROVE  /\ Send(pc, id) \in Op
           /\ Send(pc, id).pc = pc /\ Send(pc, id).id = id
           /\ Send(pc, id).call = "sent" /\ ~Send(pc, id).attached
BY DEF Send, NoOp, Op, OpStages, CallStates

LEMMA Idle == NoOp \in Op /\ NoOp.pc = "none" /\ NoOp.id = 0 /\ NoOp.call = "none"
BY DEF NoOp, Op, OpStages, CallStates

\* The host sends a call about a lease, or waits for none.
LEMMA CallKept ==
    ASSUME CallOK, kernel' = kernel,
           \/ op' \in {op, NoOp}
           \/ \E pc \in OpStages \ {"none"}, id \in Ids : op' = Send(pc, id)
    PROVE  CallOK'
<1>1. 0 \notin Ids
  BY DEF Ids
<1>2. CASE op' = op
  BY <1>2 DEF CallOK
<1>3. CASE op' = NoOp
  BY <1>3, Idle DEF CallOK
<1>4. ASSUME NEW pc \in OpStages \ {"none"}, NEW id \in Ids, op' = Send(pc, id)
      PROVE  CallOK'
  <2>1. op' \in Op /\ op'.pc = pc /\ op'.id = id
    BY <1>4, Sent
  <2> QED  BY <1>1, <2>1 DEF CallOK
<1> QED  BY <1>2, <1>3, <1>4

\* The steps of the host leave the activation alone.
LEMMA HostStepKeeps ==
    ASSUME KernelInv, HostStep \/ Touch
    PROVE  KernelInv'
<1> USE DEF KernelInv
<1>1. kernel' = kernel
  BY DEF HostStep, Touch, BeginTouch, AnswerAcquire, AnswerAttach, FinishClose
<1>2. CASE Touch
  <2> USE <1>2 DEF Touch
  <2>1. HostOK'
    BY DEF HostOK
  <2>2. IdsSuffice'
    BY KernelAssumption DEF IdsSuffice, HostOK
  <2> QED  BY <2>1, <2>2 DEF CallOK, ReplacedIsSettled
<1>3. CASE BeginTouch
  <2> USE <1>3 DEF BeginTouch
  <2>1. waiting > 0 /\ op.pc = "none"
    BY DEF NoOp
  <2>2. nextId \in Ids
    BY <2>1, NextIdIsAnId DEF HostOK
  <2>3. HostOK'
    BY <2>2 DEF HostOK
  <2>4. IdsSuffice'
    <3>1. op' = op \/ op'.pc = "acquire"
      BY <2>2, Sent DEF HostOK, OpStages
    <3>2. nextId' \in {nextId, nextId + 1} /\ waiting' = waiting - 1
      OBVIOUS
    <3>3. touches' = touches /\ waiting \in Nat /\ touches \in Nat /\ nextId \in Nat \ {0}
      BY DEF HostOK, IdsSuffice
    <3>4. nextId + 2 * waiting <= 2 * touches + 1 /\ waiting <= touches /\ touches <= MaxTouches
      BY <2>1 DEF IdsSuffice, HostOK
    <3> HIDE <1>3 DEF BeginTouch, KernelInv
    <3>5. CASE nextId' = nextId
      BY <2>1, <3>1, <3>2, <3>3, <3>4, <3>5 DEF IdsSuffice
    <3>6. CASE nextId' = nextId + 1
      BY <2>1, <3>1, <3>2, <3>3, <3>4, <3>6 DEF IdsSuffice
    <3> QED  BY <3>2, <3>5, <3>6
  <2>5. CallOK'
    <3>1. mapped # 0 => mapped \in Ids
      BY DEF HostOK
    <3> QED  BY <1>1, <2>2, <3>1, CallKept DEF OpStages
  <2>6. ReplacedIsSettled'
    BY <1>1 DEF ReplacedIsSettled
  <2> QED  BY <2>3, <2>4, <2>5, <2>6
<1>4. CASE AnswerAcquire
  <2> USE <1>4 DEF AnswerAcquire
  <2>1. CASE Orphaned(op) /\ op' = Send("reacquire", nextId) /\ mapped' = nextId /\ nextId' = nextId + 1
    <3>1. op.pc = "acquire"
      BY <2>1 DEF Orphaned
    <3>2. nextId \in Ids
      BY <3>1, NextIdIsAnId DEF HostOK
    <3>3. HostOK'
      BY <2>1, <3>2 DEF HostOK
    <3>4. IdsSuffice'
      <4>1. op'.pc = "reacquire"
        BY <2>1, <3>2, Sent DEF OpStages
      <4> QED  BY <2>1, <3>1, <4>1 DEF IdsSuffice, HostOK
    <3>5. CallOK'
      BY <1>1, <2>1, <3>2, CallKept DEF OpStages
    <3> QED  BY <1>1, <3>3, <3>4, <3>5 DEF ReplacedIsSettled
  <2>2. CASE nextId' = nextId /\ mapped' \in {mapped, Unmap(op.id)} /\ op' \in {NoOp, Send("attach", op.id)}
    <3>1. HostOK'
      BY <2>2 DEF HostOK, Unmap
    <3>2. op.id \in Ids
      BY DEF CallOK, Op
    <3>3. IdsSuffice'
      <4>1. op'.pc \in {"none", "attach"}
        BY <2>2, <3>2, Sent, Idle DEF OpStages
      <4> QED  BY <2>2, <4>1 DEF IdsSuffice, HostOK
    <3>4. CallOK'
      BY <1>1, <2>2, <3>2, CallKept DEF OpStages
    <3> QED  BY <1>1, <3>1, <3>3, <3>4 DEF ReplacedIsSettled
  <2> QED  BY <2>1, <2>2
<1>5. CASE AnswerAttach
  <2> USE <1>5 DEF AnswerAttach
  <2>1. op.id \in Ids
    BY DEF CallOK, Op
  <2>2. HostOK'
    BY <2>1 DEF HostOK, Unmap, HoldStates
  <2>3. IdsSuffice'
    BY Idle DEF IdsSuffice, HostOK
  <2>4. CallOK'
    BY <1>1, CallKept
  <2>5. ReplacedIsSettled'
    BY <1>1, <2>1 DEF ReplacedIsSettled, HostOK
  <2> QED  BY <2>2, <2>3, <2>4, <2>5
<1>6. CASE FinishClose
  BY <1>6 DEF FinishClose, HostOK, IdsSuffice, CallOK, ReplacedIsSettled
<1> QED  BY <1>2, <1>3, <1>4, <1>5, <1>6 DEF HostStep

\* The activation's own steps end the held request of the lease they end.
LEMMA ActivationStepKeeps ==
    ASSUME KernelInv, ActivationStep \/ EndKernel \/ LoseActivation
    PROVE  KernelInv'
<1> USE DEF KernelInv
<1>1. IdsSuffice'
  <2>1. op'.pc = op.pc
    BY DEF ActivationStep, ExecuteAcquire, ExecuteAttach, EndKernel, LoseActivation, CallOK, Op
  <2>2. UNCHANGED hostVars
    BY DEF ActivationStep, ExecuteAcquire, ExecuteAttach, EndKernel, LoseActivation
  <2> QED  BY <2>1, <2>2 DEF IdsSuffice, hostVars
<1>2. CASE ExecuteAcquire
  <2> USE <1>2 DEF ExecuteAcquire
  <2>1. kernel.id \in Ids \cup {0} /\ op.id \in Ids
    BY DEF CallOK, Op, Kernel
  <2>2. HostOK'
    BY <2>1, EndedHolds DEF HostOK, hostVars
  <2>3. kernel' \in Kernel
    BY <2>1 DEF CallOK, Kernel, NoKernel
  <2>4. CallOK'
    BY <2>3 DEF CallOK, Op, Kernel, CallStates
  <2>5. ReplacedIsSettled'
    BY <2>1, EndedHolds DEF ReplacedIsSettled, HostOK, NoKernel
  <2> QED  BY <1>1, <2>2, <2>4, <2>5
<1>3. CASE ExecuteAttach
  <2> USE <1>3 DEF ExecuteAttach
  <2>1. HostOK'
    BY DEF HostOK, hostVars
  <2>2. kernel' \in Kernel /\ kernel'.id = kernel.id
    BY DEF CallOK, Kernel
  <2>3. CallOK'
    BY <2>2 DEF CallOK, Op, CallStates
  <2>4. ReplacedIsSettled'
    BY <2>2 DEF ReplacedIsSettled
  <2> QED  BY <1>1, <2>1, <2>3, <2>4
<1>4. CASE EndKernel
  <2> USE <1>4 DEF EndKernel
  <2>1. kernel.id \in Ids
    BY DEF CallOK, Kernel
  <2>2. HostOK'
    BY <2>1, EndedHolds DEF HostOK, hostVars
  <2>3. CallOK'
    BY DEF CallOK, Kernel, NoKernel
  <2>4. ReplacedIsSettled'
    BY <2>1, EndedHolds DEF ReplacedIsSettled, HostOK
  <2> QED  BY <1>1, <2>2, <2>3, <2>4
<1>5. CASE LoseActivation
  <2> USE <1>5 DEF LoseActivation
  <2>1. HostOK'
    BY DEF HostOK, hostVars, HoldStates, Fault
  <2>2. CallOK'
    BY DEF CallOK, Kernel, NoKernel
  <2>3. ReplacedIsSettled'
    BY DEF ReplacedIsSettled
  <2> QED  BY <1>1, <2>1, <2>2, <2>3
<1> QED  BY <1>2, <1>3, <1>4, <1>5 DEF ActivationStep

\* The other steps at the host: failed calls, held requests and close.
LEMMA RequestStepKeeps ==
    ASSUME KernelInv, FailCall \/ Close \/ \E id \in Ids : ExecuteHold(id) \/ EndHold(id)
    PROVE  KernelInv'
<1> USE DEF KernelInv
<1>1. kernel' = kernel
  BY DEF FailCall, Close, ExecuteHold, EndHold
<1>2. CASE FailCall
  <2> USE <1>2 DEF FailCall
  <2>1. HostOK'
    <3>1. op.id \in Ids
      BY DEF CallOK, Op
    <3> QED  BY <3>1 DEF HostOK, Unmap, Fault
  <2>2. IdsSuffice'
    BY Idle DEF IdsSuffice, HostOK
  <2>3. CallOK'
    BY <1>1, CallKept
  <2> QED  BY <1>1, <2>1, <2>2, <2>3 DEF ReplacedIsSettled
<1>3. CASE Close
  <2> USE <1>3 DEF Close
  <2>1. HostOK'
    BY DEF HostOK, HoldStates
  <2>2. \A id \in Ids : holds'[id] = "held" => holds[id] = "held"
    BY DEF HostOK
  <2> QED  BY <1>1, <2>1, <2>2 DEF ReplacedIsSettled, IdsSuffice, CallOK
<1>4. ASSUME NEW id \in Ids, ExecuteHold(id)
      PROVE  KernelInv'
  <2> USE <1>4 DEF ExecuteHold
  <2>1. HostOK'
    BY DEF HostOK, HoldStates, hostVars
  <2>2. ReplacedIsSettled'
    BY <1>1 DEF ReplacedIsSettled, HostOK
  <2> QED  BY <1>1, <2>1, <2>2 DEF IdsSuffice, CallOK, hostVars
<1>5. ASSUME NEW id \in Ids, EndHold(id)
      PROVE  KernelInv'
  <2> USE <1>5 DEF EndHold
  <2>1. HostOK'
    BY DEF HostOK, HoldStates, UnmapEnded, Unmap, Fault
  <2>2. ReplacedIsSettled'
    BY <1>1 DEF ReplacedIsSettled, HostOK
  <2> QED  BY <1>1, <2>1, <2>2 DEF IdsSuffice, CallOK
<1> QED  BY <1>2, <1>3, <1>4, <1>5

LEMMA KernelInvariant == Spec => []KernelInv
<1>1. KernelInv /\ [Next]_vars => KernelInv'
  <2> SUFFICES ASSUME KernelInv, [Next]_vars PROVE KernelInv'  OBVIOUS
  <2>1. CASE UNCHANGED vars
    BY <2>1 DEF vars, hostVars, KernelInv, HostOK, IdsSuffice, CallOK, ReplacedIsSettled
  <2>2. CASE Next
    BY <2>2, HostStepKeeps, ActivationStepKeeps, RequestStepKeeps DEF Next
  <2> QED  BY <2>1, <2>2
<1> QED  BY <1>1, InitInv, PTL DEF Spec

\* The records of the coordinator and of the activation keep their shape, and
\* no touch runs out of lease ids.
THEOREM KernelTypeCorrect == Spec => []KernelTypeOK
<1>1. KernelInv => KernelTypeOK
  BY DEF KernelInv, HostOK, IdsSuffice, CallOK, KernelTypeOK, Op, Kernel, OpStages,
         CallStates, HoldStates
<1> QED  BY <1>1, KernelInvariant, PTL

\* acquireKernelLease, expireKernelLease and the release of the activation:
\* whatever ends a lease answers the held request of its holder.
THEOREM ReplacedLeasesAreSettled == Spec => []ReplacedIsSettled
<1>1. KernelInv => ReplacedIsSettled
  BY DEF KernelInv
<1> QED  BY <1>1, KernelInvariant, PTL

-----------------------------------------------------------------------------
(* What the activation tells about its holder. *)

\* A lease that is made is new to the host and to the activation.
NextIdIsNew == kernel.id < nextId /\ mapped < nextId /\ op.id < nextId

\* A touch works on the lease of the map, unless its request ended meanwhile.
WorksOnMapped == op.pc # "none" => mapped \in {0, op.id}

HolderInv ==
    /\ NextIdIsNew /\ WorksOnMapped /\ AttachedIsHeld
    /\ kernel.attached => kernel.id # 0

LEMMA InitHolder == Init => HolderInv
BY DEF Init, HolderInv, NextIdIsNew, WorksOnMapped, AttachedIsHeld, NoOp, NoKernel

\* The steps of the host leave the activation alone.
LEMMA HostKeepsHolder ==
    ASSUME KernelInv, HolderInv, HostStep \/ Touch
    PROVE  HolderInv'
<1> USE DEF HolderInv
<1>1. /\ kernel' = kernel /\ kernel \in Kernel /\ op \in Op
      /\ nextId \in Nat /\ mapped \in Nat /\ kernel.id \in Nat /\ op.id \in Nat
  BY DEF HostStep, Touch, BeginTouch, AnswerAcquire, AnswerAttach, FinishClose,
         KernelInv, CallOK, HostOK, IdsSuffice, Kernel, Op, Ids
<1>2. CASE Touch \/ FinishClose
  BY <1>2 DEF Touch, FinishClose, NextIdIsNew, WorksOnMapped, AttachedIsHeld
<1>3. CASE BeginTouch /\ Closed
  BY <1>1, <1>3 DEF BeginTouch, NextIdIsNew, WorksOnMapped, AttachedIsHeld
<1>4. CASE BeginTouch /\ ~Closed
  <2> USE <1>4 DEF BeginTouch
  <2>1. CASE mapped' = mapped /\ op' = Send("acquire", mapped) /\ nextId' = nextId
    <3>1. op'.pc = "acquire" /\ op'.id = mapped
      BY <2>1, Sent DEF OpStages, KernelInv, HostOK
    <3> QED  BY <1>1, <2>1, <3>1, Idle DEF NextIdIsNew, WorksOnMapped, AttachedIsHeld
  <2>2. CASE mapped' = nextId /\ op' = Send("acquire", nextId) /\ nextId' = nextId + 1
    <3>1. nextId \in Ids
      BY NextIdIsAnId DEF KernelInv, HostOK
    <3>2. op'.pc = "acquire" /\ op'.id = nextId
      BY <2>2, <3>1, Sent DEF OpStages
    <3> QED  BY <1>1, <2>2, <3>2 DEF NextIdIsNew, WorksOnMapped, AttachedIsHeld
  <2> QED  BY <2>1, <2>2
<1>5. CASE AnswerAcquire
  <2> USE <1>5 DEF AnswerAcquire
  <2>1. mapped \in {0, op.id}
    BY DEF WorksOnMapped
  <2>2. CASE op' = NoOp /\ mapped' \in {mapped, Unmap(op.id)} /\ nextId' = nextId
    BY <1>1, <2>2, Idle DEF NextIdIsNew, WorksOnMapped, AttachedIsHeld, Unmap
  <2>3. CASE op.pc = "acquire" /\ mapped' = nextId /\ nextId' = nextId + 1
              /\ op' = Send("reacquire", nextId)
    <3>1. nextId \in Ids
      BY <2>3, NextIdIsAnId DEF KernelInv, HostOK
    <3>2. op'.pc = "reacquire" /\ op'.id = nextId
      BY <2>3, <3>1, Sent DEF OpStages
    <3> QED  BY <1>1, <2>3, <3>2 DEF NextIdIsNew, WorksOnMapped, AttachedIsHeld
  <2>4. CASE op' = Send("attach", op.id) /\ mapped' = mapped /\ nextId' = nextId
    <3>1. op'.pc = "attach" /\ op'.id = op.id
      BY <1>1, <2>4, Sent DEF OpStages, Op
    <3> QED  BY <1>1, <2>1, <2>4, <3>1 DEF NextIdIsNew, WorksOnMapped, AttachedIsHeld
  <2> QED  BY <2>2, <2>3, <2>4 DEF Orphaned
<1>6. CASE AnswerAttach
  <2> USE <1>6 DEF AnswerAttach
  <2>1. op.id \in Ids /\ holds \in [Ids -> HoldStates] /\ mapped \in {0, op.id}
    BY <1>1 DEF KernelInv, CallOK, HostOK, Op, WorksOnMapped
  <2>2. CASE Closed
    BY <1>1, <2>1, <2>2, Idle DEF NextIdIsNew, WorksOnMapped, AttachedIsHeld, Unmap
  <2>3. CASE ~Closed
    <3>1. holds'[op.id] = "sent"
      BY <2>1, <2>3
    <3> QED  BY <1>1, <2>1, <2>3, <3>1, Idle DEF NextIdIsNew, WorksOnMapped, AttachedIsHeld
  <2> QED  BY <2>2, <2>3
<1> QED  BY <1>2, <1>3, <1>4, <1>5, <1>6 DEF HostStep

\* A lease the activation makes or ends has no holder.
LEMMA ActivationKeepsHolder ==
    ASSUME KernelInv, HolderInv, ActivationStep \/ EndKernel \/ LoseActivation
    PROVE  HolderInv'
<1> USE DEF HolderInv
<1>1. /\ kernel \in Kernel /\ op \in Op /\ NoKernel \in Kernel /\ ~NoKernel.attached
      /\ NoKernel.id = 0 /\ nextId \in Nat \ {0} /\ op.id \in Nat /\ kernel.id \in Nat
  BY DEF KernelInv, CallOK, IdsSuffice, Kernel, NoKernel, Op, Ids
<1>2. mapped' = mapped /\ nextId' = nextId /\ stranded' = stranded
  BY DEF ActivationStep, ExecuteAcquire, ExecuteAttach, EndKernel, LoseActivation, hostVars
<1>3. CASE ExecuteAcquire
  <2> USE <1>3 DEF ExecuteAcquire
  <2>1. kernel'.id = op.id
    BY <1>1 DEF Kernel, NoKernel
  <2>2. kernel'.attached => kernel' = kernel /\ holds' = holds
    BY DEF NoKernel
  <2>3. op'.pc = op.pc /\ op'.id = op.id /\ op.pc # "attach"
    BY <1>1 DEF Op
  <2>4. op.id # 0
    BY DEF KernelInv, CallOK
  <2> QED  BY <1>1, <1>2, <2>1, <2>2, <2>3, <2>4 DEF NextIdIsNew, WorksOnMapped, AttachedIsHeld
<1>4. CASE ExecuteAttach
  <2> USE <1>4 DEF ExecuteAttach
  <2>1. op'.pc = "attach" /\ op'.id = op.id /\ op.id # 0
    BY <1>1 DEF Op, KernelInv, CallOK
  <2>2. kernel' = kernel \/ kernel'.id = op.id
    OBVIOUS
  <2> QED  BY <1>1, <1>2, <2>1, <2>2 DEF NextIdIsNew, WorksOnMapped, AttachedIsHeld
<1>5. CASE EndKernel \/ LoseActivation
  <2>1. kernel' = NoKernel /\ op' = op
    BY <1>5 DEF EndKernel, LoseActivation
  <2> QED  BY <1>1, <1>2, <2>1 DEF NextIdIsNew, WorksOnMapped, AttachedIsHeld
<1> QED  BY <1>3, <1>4, <1>5 DEF ActivationStep

\* A request that ends, or that close() aborts, takes its lease with it, and a
\* call that fails takes or strands it.
LEMMA RequestKeepsHolder ==
    ASSUME KernelInv, HolderInv,
           FailCall \/ Close \/ \E id \in Ids : ExecuteHold(id) \/ EndHold(id)
    PROVE  HolderInv'
<1> USE DEF HolderInv
<1>1. /\ kernel' = kernel /\ kernel \in Kernel /\ nextId' = nextId /\ nextId \in Nat \ {0}
      /\ holds \in [Ids -> HoldStates] /\ mapped \in Ids \cup {0}
  BY DEF FailCall, Close, ExecuteHold, EndHold, hostVars, KernelInv, CallOK, HostOK, IdsSuffice
<1>2. CASE FailCall
  <2> USE <1>2 DEF FailCall
  <2>1. mapped \in {0, op.id}
    BY DEF WorksOnMapped, KernelInv, CallOK
  <2> QED  BY <1>1, <2>1, Idle DEF Unmap, NextIdIsNew, WorksOnMapped, AttachedIsHeld
<1>3. CASE Close
  BY <1>1, <1>3 DEF Close, NextIdIsNew, WorksOnMapped, AttachedIsHeld, Ids
<1>4. ASSUME NEW id \in Ids, ExecuteHold(id)
      PROVE  HolderInv'
  <2> USE <1>4 DEF ExecuteHold
  <2>1. \A other \in Ids \ {id} : holds'[other] = holds[other]
    BY <1>1
  <2>2. kernel.id = id /\ kernel.attached => holds'[id] = "held"
    BY <1>1 DEF Kernel
  <2>3. kernel.attached => kernel.id \in Ids
    BY <1>1 DEF Kernel
  <2> QED  BY <1>1, <2>1, <2>2, <2>3 DEF NextIdIsNew, WorksOnMapped, AttachedIsHeld, hostVars
<1>5. ASSUME NEW id \in Ids, EndHold(id)
      PROVE  HolderInv'
  <2> USE <1>5 DEF EndHold
  <2>1. \A other \in Ids \ {id} : holds'[other] = holds[other]
    BY <1>1
  <2>2. mapped' # id /\ mapped' \in {mapped, 0}
    BY <1>1 DEF UnmapEnded, Unmap, Ids
  <2>3. kernel.attached => kernel.id \in Ids
    BY <1>1 DEF Kernel
  <2> QED  BY <1>1, <2>1, <2>2, <2>3 DEF NextIdIsNew, WorksOnMapped, AttachedIsHeld
<1> QED  BY <1>2, <1>3, <1>4, <1>5

\* touchLocked trusts holderAttached: whatever calls, leases and activations
\* are lost, an attached holder of the mapped lease is an open request, unless
\* the call that attached it is the one that failed.
THEOREM AttachedHoldersAreHeld == Spec => []AttachedIsHeld
<1>1. KernelInv /\ HolderInv /\ [Next]_vars => HolderInv'
  <2> SUFFICES ASSUME KernelInv, HolderInv, [Next]_vars PROVE HolderInv'  OBVIOUS
  <2>1. CASE UNCHANGED vars
    BY <2>1 DEF vars, hostVars, HolderInv, NextIdIsNew, WorksOnMapped, AttachedIsHeld
  <2>2. CASE Next
    BY <2>2, HostKeepsHolder, ActivationKeepsHolder, RequestKeepsHolder DEF Next
  <2> QED  BY <2>1, <2>2
<1>2. HolderInv => AttachedIsHeld
  BY DEF HolderInv
<1> QED  BY <1>1, <1>2, InitHolder, KernelInvariant, PTL DEF Spec
=============================================================================
