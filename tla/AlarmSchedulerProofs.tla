------------------------ MODULE AlarmSchedulerProofs ------------------------
(***************************************************************************)
(* Proofs about AlarmScheduler: the driver, its lanes, its clients and the *)
(* crashes of its host never break what the driver owes the alarms.        *)
(*                                                                         *)
(* The inductive invariant, SchedulerInv, has five parts:                  *)
(*   StoreInv and BoundedInv  the store's rows, as proved of any caller,   *)
(*                            and the bounds the driver relies on;         *)
(*   DriverInv                the operation in flight claims no more rows  *)
(*                            than were free when it was sent, of keys     *)
(*                            that had no lane, and lanes only end while   *)
(*                            it is in flight;                             *)
(*   RestsUnasked             a driver that is not driving has nothing     *)
(*                            asked of it, or waits for its retry;         *)
(*   ClaimsAcceptable         a claim that is still owned still captures   *)
(*                            the request its dispatch acknowledges;       *)
(*   Covered                  a running driver was told to look again, is  *)
(*                            about to read, read a wake that still covers *)
(*                            every open row, or rests behind such a timer.*)
(***************************************************************************)
EXTENDS AlarmScheduler, AlarmStoreProofs, FiniteSetTheorems

-----------------------------------------------------------------------------
(* What the driver needs of the store *)

\* Wake times, incarnations, requests and claims stay within their bounds, and
\* only a registered key has a request.
Bounded(k) ==
    /\ alarms[k].wakeAt \in Wakes /\ sources[k].wakeAt \in Wakes
    /\ sources[k].incarnation <= MaxIncarnation
    /\ requests[k] # NoRequest => Registered(k)
    /\ requests[k].generation <= MaxRequest
    /\ claimCounter[k] <= MaxClaim

BoundedInv == \A k \in Keys : Bounded(k)

\* A step that does not claim k frees its row, or leaves both the claim and
\* the request it captured as they are.
ClaimKept(k) ==
    \/ alarms'[k].owner = NoOwner
    \/ /\ alarms'[k].owner = alarms[k].owner
       /\ alarms'[k].generation = alarms[k].generation
       /\ requests[k].claimed # 0 =>
             /\ requests'[k].incarnation = requests[k].incarnation
             /\ requests'[k].claimed = requests[k].claimed
             /\ requests'[k].dispatch = requests[k].dispatch

KeyStep(k) == Bounded(k)' /\ ClaimKept(k)

\* Row updates keep wake times within the clock.
LEMMA RowWakes ==
    /\ NoRow.wakeAt \in Wakes /\ NoSource.wakeAt \in Wakes /\ 0 \in Times
    /\ \A row \in AlarmRow, t \in Times : Upsert(row, t).wakeAt \in Wakes
    /\ \A row \in AlarmRow, q \in RequestRow :
          row.wakeAt \in Wakes => EnsureRequested(row, q).wakeAt \in Wakes
<1>1. 0 \in Times
  BY BoundsNat DEF Times
<1>2. NoRow.wakeAt \in Wakes /\ NoSource.wakeAt \in Wakes
  BY DEF NoRow, NoSource, Wakes
<1>3. ASSUME NEW row \in AlarmRow, NEW t \in Times PROVE Upsert(row, t).wakeAt \in Wakes
  <2>1. Upsert(row, t).wakeAt = t
    BY DEF Upsert, AlarmRow
  <2> QED BY <2>1 DEF Wakes
<1>4. ASSUME NEW row \in AlarmRow, NEW q \in RequestRow, row.wakeAt \in Wakes
      PROVE  EnsureRequested(row, q).wakeAt \in Wakes
  <2>1. EnsureRequested(row, q).wakeAt \in {0, row.wakeAt}
    BY DEF EnsureRequested, AlarmRow
  <2> QED BY <1>1, <1>4, <2>1 DEF Wakes
<1> QED BY <1>1, <1>2, <1>3, <1>4

\* An operation on one key leaves the others' claims and bounds alone.
LEMMA OneKeyKept ==
    ASSUME BoundedInv, NEW k \in Keys, KeyStep(k),
           \A j \in Keys \ {k} :
              /\ alarms'[j] = alarms[j] /\ sources'[j] = sources[j]
              /\ requests'[j] = requests[j] /\ claimCounter'[j] = claimCounter[j]
    PROVE  BoundedInv' /\ \A j \in Keys : ClaimKept(j)
<1>1. ASSUME NEW j \in Keys, j # k PROVE KeyStep(j)
  BY <1>1 DEF BoundedInv, Bounded, KeyStep, ClaimKept, Registered
<1> QED BY <1>1 DEF BoundedInv, KeyStep

\* A forgotten key is within its bounds and frees its row.
LEMMA ForgottenKept ==
    ASSUME BoundedInv, NEW k \in Keys, alarms'[k] = NoRow, requests'[k] = NoRequest,
           claimCounter'[k] = claimCounter[k], sources'[k].wakeAt = Never,
           sources'[k].incarnation <= MaxIncarnation
    PROVE  KeyStep(k)
  BY EmptyRows, RowWakes, BoundsNat DEF KeyStep, ClaimKept, BoundedInv, Bounded, Wakes

\* Activation and retirement.
LEMMA EntityStepKept ==
    ASSUME StoreInv, BoundedInv, NEW k \in Keys, EntityStep(k)
    PROVE  BoundedInv' /\ \A j \in Keys : ClaimKept(j)
<1>0. Bounded(k) /\ StoreTypeOK
  BY DEF BoundedInv, StoreInv
<1>1. CASE UNCHANGED <<alarms, sources, requests, claimCounter>>
  <2>1. KeyStep(k)
    BY <1>0, <1>1 DEF KeyStep, Bounded, ClaimKept, Registered
  <2> QED BY <1>1, <2>1, OneKeyKept
<1>2. CASE ForgetKey(k) /\ UNCHANGED claimCounter
  <2>1. KeyStep(k)
    BY <1>0, <1>2, ForgottenKept, EmptyRows, BoundsNat
    DEF ForgetKey, StoreTypeOK, NoSource
  <2> QED BY <1>0, <1>2, <2>1, OneKeyKept DEF ForgetKey, StoreTypeOK
<1>3. ASSUME NEW i \in 1 .. MaxIncarnation, ActivateNative(k, i), i # sources[k].incarnation
      PROVE  BoundedInv' /\ \A j \in Keys : ClaimKept(j)
  <2>1. sources'[k].wakeAt = Never /\ sources'[k].incarnation = i
    BY <1>0, <1>3 DEF ActivateNative, StoreTypeOK, NoSource
  <2>2. i <= MaxIncarnation
    BY BoundsNat
  <2>3. KeyStep(k)
    BY <1>0, <1>3, <2>1, <2>2, ForgottenKept DEF ActivateNative, StoreTypeOK
  <2> QED BY <1>0, <1>3, <2>3, OneKeyKept DEF ActivateNative, StoreTypeOK
<1> QED BY <1>1, <1>2, <1>3 DEF EntityStep, ActivatePlain, ActivateNative, Retire

\* Publications and requests.
LEMMA SourceStepKept ==
    ASSUME StoreInv, BoundedInv, NEW k \in Keys, SourceStep(k)
    PROVE  BoundedInv' /\ \A j \in Keys : ClaimKept(j)
<1>0. /\ Bounded(k) /\ StoreTypeOK /\ KeyInv(k)
      /\ alarms[k] \in AlarmRow /\ requests[k] \in RequestRow /\ sources[k] \in SourceRow
  BY DEF BoundedInv, StoreInv, StoreTypeOK
<1>1. ASSUME NEW i \in 1 .. MaxIncarnation, NEW r \in 0 .. MaxRevision, NEW t \in Wakes,
             PublishAccepted(k, i, r, t)
      PROVE  BoundedInv' /\ \A j \in Keys : ClaimKept(j)
  <2>1. sources'[k] = [incarnation |-> i, revision |-> r, wakeAt |-> t]
        /\ i = sources[k].incarnation
    BY <1>0, <1>1 DEF PublishAccepted, StoreTypeOK
  <2>2. /\ alarms'[k].wakeAt \in Wakes
        /\ \/ alarms'[k].owner = NoOwner
           \/ /\ alarms'[k].owner = alarms[k].owner
              /\ alarms'[k].generation = alarms[k].generation
    <3>1. CASE HasPendingRequest(k)
      <4>1. alarms'[k] = EnsureRequested(alarms[k], requests[k])
        BY <1>0, <1>1, <3>1 DEF PublishAccepted, StoreTypeOK
      <4> QED BY <1>0, <4>1, RowFields, RowWakes DEF Bounded
    <3>2. CASE ~HasPendingRequest(k) /\ t = Never
      <4>1. alarms'[k] = NoRow
        BY <1>0, <1>1, <3>2 DEF PublishAccepted, StoreTypeOK
      <4> QED BY <4>1, EmptyRows, RowWakes
    <3>3. CASE ~HasPendingRequest(k) /\ t # Never
      <4>1. alarms'[k] = Upsert(alarms[k], t)
        BY <1>0, <1>1, <3>3 DEF PublishAccepted, StoreTypeOK
      <4>2. t \in Times /\ t \in Nat
        BY <3>3, BoundsNat DEF Wakes, Times
      <4> QED BY <1>0, <4>1, <4>2, RowFields, RowWakes
    <3> QED BY <3>1, <3>2, <3>3
  <2>3. KeyStep(k)
    BY <1>0, <1>1, <2>1, <2>2 DEF PublishAccepted, KeyStep, Bounded, ClaimKept, Registered
  <2> QED BY <1>0, <1>1, <2>3, OneKeyKept DEF PublishAccepted, StoreTypeOK
<1>2. CASE PublishDuplicate(k)
  <2>1. /\ alarms'[k].wakeAt \in Wakes
        /\ \/ alarms'[k].owner = NoOwner
           \/ /\ alarms'[k].owner = alarms[k].owner
              /\ alarms'[k].generation = alarms[k].generation
    <3>1. CASE HasPendingRequest(k)
      <4>1. alarms'[k] = EnsureRequested(alarms[k], requests[k])
        BY <1>0, <1>2, <3>1 DEF PublishDuplicate, StoreTypeOK
      <4> QED BY <1>0, <4>1, RowFields, RowWakes DEF Bounded
    <3>2. CASE ~HasPendingRequest(k) /\ sources[k].wakeAt = Never
      <4>1. alarms'[k] = NoRow
        BY <1>0, <1>2, <3>2 DEF PublishDuplicate, StoreTypeOK
      <4> QED BY <4>1, EmptyRows, RowWakes
    <3>3. CASE ~HasPendingRequest(k) /\ sources[k].wakeAt # Never /\ Scheduled(k)
      <4>1. alarms'[k] = alarms[k]
        BY <1>0, <1>2, <3>3 DEF PublishDuplicate, StoreTypeOK
      <4> QED BY <1>0, <4>1 DEF Bounded
    <3>4. CASE ~HasPendingRequest(k) /\ sources[k].wakeAt # Never /\ ~Scheduled(k)
      <4>1. alarms'[k] = Upsert(NoRow, sources[k].wakeAt)
        BY <1>0, <1>2, <3>4 DEF PublishDuplicate, StoreTypeOK
      <4>2. sources[k].wakeAt \in Times /\ sources[k].wakeAt \in Nat
        BY <1>0, <3>4, BoundsNat DEF Bounded, Wakes, Times
      <4>3. NoRow \in AlarmRow
        BY RowTypes
      <4>4. /\ Upsert(NoRow, sources[k].wakeAt).owner = NoOwner
            /\ Upsert(NoRow, sources[k].wakeAt).wakeAt \in Wakes
        BY <4>2, <4>3, RowFields, RowWakes
      <4> QED BY <4>1, <4>4
    <3> QED BY <3>1, <3>2, <3>3, <3>4
  <2>2. KeyStep(k)
    BY <1>0, <1>2, <2>1 DEF PublishDuplicate, KeyStep, Bounded, ClaimKept, Registered
  <2> QED BY <1>0, <1>2, <2>2, OneKeyKept DEF PublishDuplicate, StoreTypeOK
<1>3. ASSUME NEW i \in 1 .. MaxIncarnation, WakeRequest(k, i)
      PROVE  BoundedInv' /\ \A j \in Keys : ClaimKept(j)
  <2>1. requests'[k] = Requested(requests[k], i)
        /\ alarms'[k] = EnsureRequested(alarms[k], requests'[k])
    BY <1>0, <1>3 DEF WakeRequest, StoreTypeOK
  <2>2. /\ requests'[k].generation = requests[k].generation + 1
        /\ requests'[k].incarnation = i
        /\ requests'[k].claimed = requests[k].claimed
        /\ requests'[k].dispatch = requests[k].dispatch
    BY <1>0, <2>1 DEF Requested, RequestRow
  <2>3. requests'[k] \in RequestRow
    <3>1. i \in Nat
      BY BoundsNat
    <3> QED BY <1>0, <2>1, <3>1, RowTypes
  <2>4. /\ alarms'[k].wakeAt \in Wakes
        /\ alarms'[k].owner = alarms[k].owner /\ alarms'[k].generation = alarms[k].generation
    BY <1>0, <2>1, <2>3, RowFields, RowWakes DEF Bounded
  <2>5. requests[k].claimed # 0 => requests[k].incarnation = i
    BY <1>0, <1>3, EmptyRows DEF WakeRequest, KeyInv
  <2>6. requests'[k].generation <= MaxRequest
    BY <1>0, <1>3, <2>2, BoundsNat DEF WakeRequest, RequestRow
  <2>7. KeyStep(k)
    BY <1>0, <1>3, <2>2, <2>4, <2>5, <2>6
    DEF WakeRequest, KeyStep, Bounded, ClaimKept, Registered
  <2> QED BY <1>0, <1>3, <2>7, OneKeyKept DEF WakeRequest, StoreTypeOK
<1> QED BY <1>1, <1>2, <1>3 DEF SourceStep

\* Fresh scheduling decisions.
LEMMA AlarmStepKept ==
    ASSUME StoreInv, BoundedInv, NEW k \in Keys, AlarmStep(k)
    PROVE  BoundedInv' /\ \A j \in Keys : ClaimKept(j)
<1>0. /\ Bounded(k) /\ StoreTypeOK /\ KeyInv(k)
      /\ alarms[k] \in AlarmRow /\ requests[k] \in RequestRow
  BY DEF BoundedInv, StoreInv, StoreTypeOK
<1>1. ASSUME NEW t \in Times, NEW p \in BOOLEAN, AlarmSet(k, t, p)
      PROVE  BoundedInv' /\ \A j \in Keys : ClaimKept(j)
  <2>1. alarms'[k] = EnsureRequested(Upsert(alarms[k], t), requests[k])
    BY <1>0, <1>1 DEF AlarmSet, StoreTypeOK
  <2>2. /\ Upsert(alarms[k], t) \in AlarmRow
        /\ Upsert(alarms[k], t).owner = NoOwner /\ Upsert(alarms[k], t).wakeAt \in Wakes
    <3>1. t \in Nat
      BY BoundsNat DEF Times
    <3> QED BY <1>0, <3>1, RowTypes, RowFields, RowWakes
  <2>3. alarms'[k].owner = NoOwner /\ alarms'[k].wakeAt \in Wakes
    BY <1>0, <2>1, <2>2, RowFields, RowWakes
  <2>4. KeyStep(k)
    BY <1>0, <1>1, <2>3 DEF AlarmSet, KeyStep, Bounded, ClaimKept, Registered
  <2> QED BY <1>0, <1>1, <2>4, OneKeyKept DEF AlarmSet, StoreTypeOK
<1>2. CASE AlarmClear(k)
  <2>1. requests'[k] = requests[k]
    BY <1>0, <1>2 DEF AlarmClear, KeyInv, StoreTypeOK
  <2>2. alarms'[k] = EnsureRequested(NoRow, requests[k])
    BY <1>0, <1>2, <2>1 DEF AlarmClear, StoreTypeOK
  <2>3. alarms'[k].owner = NoOwner /\ alarms'[k].wakeAt \in Wakes
    <3>1. NoRow \in AlarmRow /\ NoRow.owner = NoOwner /\ NoRow.wakeAt \in Wakes
      BY RowTypes, EmptyRows, RowWakes
    <3> QED BY <1>0, <2>2, <3>1, RowFields, RowWakes
  <2>4. KeyStep(k)
    BY <1>0, <1>2, <2>1, <2>3 DEF AlarmClear, KeyStep, Bounded, ClaimKept, Registered
  <2> QED BY <1>0, <1>2, <2>4, OneKeyKept DEF AlarmClear, StoreTypeOK
<1> QED BY <1>1, <1>2 DEF AlarmStep

\* Re-arms and completions free the row they acknowledge.
LEMMA ClaimStepKept ==
    ASSUME StoreInv, BoundedInv, NEW k \in Keys, NEW w \in Workers, NEW g \in 1 .. MaxClaim,
           ClaimStep(k, w, g)
    PROVE  BoundedInv' /\ \A j \in Keys : ClaimKept(j)
<1>0. /\ Bounded(k) /\ StoreTypeOK /\ KeyInv(k)
      /\ alarms[k] \in AlarmRow /\ requests[k] \in RequestRow
  BY DEF BoundedInv, StoreInv, StoreTypeOK
<1>1. ASSUME NEW t \in Times, AlarmSetClaimed(k, w, g, t)
      PROVE  BoundedInv' /\ \A j \in Keys : ClaimKept(j)
  <2>1. alarms'[k] = Upsert(alarms[k], t)
    BY <1>0, <1>1 DEF AlarmSetClaimed, StoreTypeOK
  <2>2. alarms'[k].owner = NoOwner /\ alarms'[k].wakeAt \in Wakes
    <3>1. t \in Nat
      BY BoundsNat DEF Times
    <3> QED BY <1>0, <2>1, <3>1, RowFields, RowWakes
  <2>3. KeyStep(k)
    BY <1>0, <1>1, <2>2 DEF AlarmSetClaimed, KeyStep, Bounded, ClaimKept, Registered
  <2> QED BY <1>0, <1>1, <2>3, OneKeyKept DEF AlarmSetClaimed, StoreTypeOK
<1>2. ASSUME NEW token \in WakeToken, NEW next \in Wakes, NEW p \in BOOLEAN,
             AlarmComplete(k, w, g, token, next, p)
      PROVE  BoundedInv' /\ \A j \in Keys : ClaimKept(j)
  <2>1. requests'[k] = Acknowledged(requests[k], token)
    BY <1>0, <1>2 DEF AlarmComplete, StoreTypeOK
  <2>2. requests'[k] \in RequestRow /\ requests'[k].generation = requests[k].generation
    <3>1. requests'[k] \in RequestRow
      BY <1>0, <2>1, RowTypes
    <3>2. Acknowledged(requests[k], token).generation = requests[k].generation
      BY <1>0 DEF Acknowledged, RequestRow
    <3> QED BY <2>1, <3>1, <3>2
  <2>3. requests'[k] # NoRequest => requests[k] # NoRequest
    <3>1. CASE token = NoToken
      BY <2>1, <3>1 DEF Acknowledged
    <3>2. CASE token # NoToken
      BY <1>2, <3>2, EmptyRows DEF AlarmComplete, AcknowledgementAccepted
    <3> QED BY <3>1, <3>2
  <2> DEFINE freed == IF next = Never THEN NoRow ELSE Upsert(alarms[k], next)
  <2>4. alarms'[k] = EnsureRequested(freed, requests'[k])
    BY <1>0, <1>2 DEF AlarmComplete, StoreTypeOK
  <2>5. freed \in AlarmRow /\ freed.owner = NoOwner /\ freed.wakeAt \in Wakes
    <3>1. CASE next = Never
      <4>1. freed = NoRow
        BY <3>1
      <4> HIDE DEF freed
      <4> QED BY <4>1, RowTypes, EmptyRows, RowWakes
    <3>2. CASE next # Never
      <4>1. freed = Upsert(alarms[k], next)
        BY <3>2
      <4>2. next \in Times /\ next \in Nat
        BY <3>2, BoundsNat DEF Wakes, Times
      <4> HIDE DEF freed
      <4> QED BY <1>0, <4>1, <4>2, RowTypes, RowFields, RowWakes
    <3> QED BY <3>1, <3>2
  <2> HIDE DEF freed
  <2>6. alarms'[k].owner = NoOwner /\ alarms'[k].wakeAt \in Wakes
    BY <2>2, <2>4, <2>5, RowFields, RowWakes
  <2>7. KeyStep(k)
    BY <1>0, <1>2, <2>2, <2>3, <2>6 DEF AlarmComplete, KeyStep, Bounded, ClaimKept, Registered
  <2> QED BY <1>0, <1>2, <2>7, OneKeyKept DEF AlarmComplete, StoreTypeOK
<1>3. NoToken \in WakeToken
      /\ \A i \in 1 .. MaxIncarnation, r \in 1 .. MaxRequest :
           [incarnation |-> i, generation |-> r] \in WakeToken
  BY BoundsNat, RowTypes DEF WakeToken
<1> QED BY <1>1, <1>2, <1>3 DEF ClaimStep

\* Adoption frees every row.
LEMMA AdoptFrees ==
    ASSUME StoreInv, NEW w, AlarmAdoptWorker(w), NEW k \in Keys
    PROVE  alarms'[k].owner = NoOwner /\ alarms'[k].wakeAt \in {0, alarms[k].wakeAt}
<1>1. alarms[k] \in AlarmRow
  BY DEF StoreInv, StoreTypeOK
<1>2. CASE Active(k) /\ Registered(k)
  BY <1>1, <1>2, RowFields DEF AlarmAdoptWorker
<1>3. CASE ~(Active(k) /\ Registered(k))
  BY <1>1, <1>3 DEF AlarmAdoptWorker, AlarmRow
<1> QED BY <1>2, <1>3

\* So does not adoption, which frees them all.
LEMMA AdoptKept ==
    ASSUME StoreInv, BoundedInv, NEW w, AlarmAdoptWorker(w)
    PROVE  BoundedInv' /\ \A j \in Keys : ClaimKept(j)
<1> SUFFICES ASSUME NEW j \in Keys PROVE Bounded(j)' /\ ClaimKept(j)
  BY DEF BoundedInv
<1>1. alarms'[j].owner = NoOwner /\ alarms'[j].wakeAt \in {0, alarms[j].wakeAt}
  BY AdoptFrees
<1>2. Bounded(j)
  BY DEF BoundedInv
<1>3. alarms'[j].wakeAt \in Wakes
  BY <1>1, <1>2, RowWakes DEF Bounded, Wakes
<1> QED BY <1>1, <1>2, <1>3 DEF AlarmAdoptWorker, Bounded, ClaimKept, Registered

\* A claim gives each selected row a generation of its own and captures the
\* newest request of its key.
LEMMA ClaimGives ==
    ASSUME StoreInv, NEW w, NEW S \in SUBSET Keys, AlarmClaimDue(w, S), NEW k \in S
    PROVE  /\ alarms'[k].wakeAt = alarms[k].wakeAt
           /\ alarms'[k].owner = w /\ alarms'[k].generation = NextClaim(k)
           /\ claimCounter'[k] = NextClaim(k)
           /\ requests'[k].incarnation = requests[k].incarnation
           /\ requests'[k].generation = requests[k].generation
           /\ requests[k] = NoRequest => requests'[k] = NoRequest
           /\ requests[k].generation # requests[k].acknowledged =>
                 /\ requests'[k].claimed = requests[k].generation
                 /\ requests'[k].dispatch = NextClaim(k)
<1>1. k \in Keys /\ alarms[k] \in AlarmRow /\ requests[k] \in RequestRow
  BY DEF StoreInv, StoreTypeOK
<1>2. /\ alarms'[k].wakeAt = alarms[k].wakeAt
      /\ alarms'[k].owner = w /\ alarms'[k].generation = NextClaim(k)
      /\ claimCounter'[k] = NextClaim(k)
  BY <1>1 DEF AlarmClaimDue, AlarmRow
<1>3. CASE requests[k].generation # requests[k].acknowledged
  <2>1. requests'[k] = [requests[k] EXCEPT !.claimed = requests[k].generation,
                                           !.dispatch = NextClaim(k)]
    BY <1>1, <1>3 DEF AlarmClaimDue
  <2>2. requests[k] # NoRequest
    BY <1>3, EmptyRows
  <2> QED BY <1>1, <1>2, <2>1, <2>2 DEF RequestRow
<1>4. CASE requests[k].generation = requests[k].acknowledged
  <2>1. requests'[k] = requests[k]
    BY <1>1, <1>4 DEF AlarmClaimDue
  <2> QED BY <1>2, <1>4, <2>1
<1> QED BY <1>3, <1>4

\* A claim touches the rows it takes and no other.
LEMMA ClaimDueKept ==
    ASSUME StoreInv, BoundedInv, NEW w, NEW S \in SUBSET Keys, AlarmClaimDue(w, S)
    PROVE  BoundedInv' /\ \A j \in Keys \ S : ClaimKept(j)
<1>1. ASSUME NEW j \in Keys \ S PROVE Bounded(j)' /\ ClaimKept(j)
  BY <1>1 DEF AlarmClaimDue, BoundedInv, Bounded, ClaimKept, Registered
<1>2. ASSUME NEW j \in S PROVE Bounded(j)'
  <2>1. NextClaim(j) <= MaxClaim /\ sources'[j] = sources[j]
    BY <1>2 DEF AlarmClaimDue
  <2> QED BY <1>2, <2>1, ClaimGives DEF BoundedInv, Bounded, Registered
<1> QED BY <1>1, <1>2 DEF BoundedInv

-----------------------------------------------------------------------------
(* The drive loop *)

Lane == [phase: {"none", "dispatching", "deferring", "rearming", "completing", "ending"},
         generation: Nat, token: WakeToken, next: Wakes, aborted: BOOLEAN]
Timer == [kind: {"none", "wake", "retry"}, at: Wakes]
Drive == [op: {"none", "refresh", "fire"}, call: {"none", "adopt", "peek", "claim"},
          state: {"none", "sent", "executed", "returned"}, exclude: SUBSET Keys, limit: Int,
          next: Wakes, due: SUBSET Claim]

\* The lanes are few, so the free ones are a number.
LEMMA Lanes ==
    ASSUME NEW l
    PROVE  /\ Busy(l) \subseteq Keys /\ IsFiniteSet(Busy(l))
           /\ Cardinality(Busy(l)) \in Nat /\ Available(l) \in Int
           /\ Cardinality(Busy(l)) + Available(l) = Concurrency
<1>1. Busy(l) \subseteq Keys
  BY DEF Busy
<1>2. IsFiniteSet(Busy(l)) /\ Cardinality(Busy(l)) \in Nat
  BY <1>1, FS_Subset, FS_CardinalityType, KeysAssumption
<1>3. Concurrency \in Nat
  BY ConcurrencyAssumption
<1> QED BY <1>1, <1>2, <1>3 DEF Available

\* What the driver sends, and a driver between calls.
LEMMA SentShape ==
    /\ Idle.op = "none" /\ Idle.call = "none" /\ Idle.state = "none"
    /\ Idle.due = {} /\ Idle \in Drive
    /\ Returned.op = "none" /\ Returned.call = "none" /\ Returned.state = "returned"
    /\ Returned.due = {} /\ Returned \in Drive
    /\ \A op, call, l :
          /\ Sent(op, call, l).op = op /\ Sent(op, call, l).call = call
          /\ Sent(op, call, l).state = "sent" /\ Sent(op, call, l).due = {}
          /\ Sent(op, call, l).exclude = Busy(l) /\ Sent(op, call, l).limit = Available(l)
    /\ \A op \in {"refresh", "fire"}, call \in {"adopt", "peek", "claim"} : \A l :
          Sent(op, call, l) \in Drive
<1>1. /\ Idle.op = "none" /\ Idle.call = "none" /\ Idle.state = "none"
      /\ Idle.due = {} /\ Idle \in Drive
  BY DEF Idle, Drive, Wakes
<1>a. Returned = [Idle EXCEPT !.state = "returned"]
  BY DEF Returned
<1>b. /\ Returned.op = "none" /\ Returned.call = "none" /\ Returned.state = "returned"
      /\ Returned.due = {} /\ Returned \in Drive
  BY <1>1, <1>a DEF Drive
<1>2. ASSUME NEW op, NEW call, NEW l
      PROVE  /\ Sent(op, call, l).op = op /\ Sent(op, call, l).call = call
             /\ Sent(op, call, l).state = "sent" /\ Sent(op, call, l).due = {}
             /\ Sent(op, call, l).exclude = Busy(l) /\ Sent(op, call, l).limit = Available(l)
  BY DEF Sent, Idle
<1>3. ASSUME NEW op \in {"refresh", "fire"}, NEW call \in {"adopt", "peek", "claim"}, NEW l
      PROVE  Sent(op, call, l) \in Drive
  BY Lanes DEF Sent, Idle, Drive, Wakes
<1> QED BY <1>1, <1>b, <1>2, <1>3

\* The calls a loop can come to rest in.  It reads and claims with a free lane.
Resumed(l) ==
    {Sent("refresh", "adopt", l), Sent("fire", "adopt", l)}
      \cup IF Available(l) > 0 THEN {Sent("refresh", "peek", l), Sent("fire", "claim", l)} ELSE {}

\* Where the loop comes to rest: in a call, or at its end with no request left, and
\* then the timer is untouched unless something was asked of a full driver.
Rested(l, fire, refresh, t) ==
    /\ drive' \in Resumed(l) \cup {Returned}
    /\ timer' \in {t, NoTimer}
    /\ fireRequested' \in BOOLEAN /\ refreshRequested' \in BOOLEAN
    /\ ~stopped /\ drive' = Returned =>
          /\ ~fireRequested' /\ ~refreshRequested'
          /\ \/ ~fire /\ ~refresh /\ timer' = t
             \/ Available(l) <= 0

\* A call the loop sends is a place to rest.
LEMMA RestRests ==
    ASSUME NEW l, NEW fire \in BOOLEAN, NEW refresh \in BOOLEAN, NEW t,
           NEW d \in Resumed(l), Rest(d, FALSE, FALSE, t)
    PROVE  Rested(l, fire, refresh, t)
<1>1. d.call # "none"
  BY SentShape DEF Resumed
<1>2. d # Returned
  BY <1>1, SentShape
<1> QED BY <1>2 DEF Rested, Rest

\* refreshTimer rests in its adoption or its read, or at once when every lane is taken.
LEMMA RefreshRests ==
    ASSUME NEW l, NEW a \in BOOLEAN, NEW fire \in BOOLEAN, NEW refresh \in BOOLEAN, NEW t,
           Refresh(l, a, t)
    PROVE  Rested(l, fire, refresh, t)
<1>1. CASE ~a
  BY <1>1, RestRests DEF Refresh, Resumed
<1>2. CASE a /\ Available(l) <= 0
  BY <1>2 DEF Refresh, Rest, Rested
<1>3. CASE a /\ ~(Available(l) <= 0)
  <2>1. Sent("refresh", "peek", l) \in Resumed(l)
    BY <1>3, Lanes DEF Resumed
  <2> QED BY <1>3, <2>1, RestRests DEF Refresh
<1> QED BY <1>1, <1>2, <1>3

\* fireOnce likewise.
LEMMA FireRests ==
    ASSUME NEW l, NEW a \in BOOLEAN, NEW fire \in BOOLEAN, NEW refresh \in BOOLEAN, NEW t,
           Fire(l, a, t)
    PROVE  Rested(l, fire, refresh, t)
<1>1. CASE ~a
  BY <1>1, RestRests DEF Fire, Resumed
<1>2. CASE a /\ Available(l) <= 0
  BY <1>2, RefreshRests DEF Fire
<1>3. CASE a /\ ~(Available(l) <= 0)
  <2>1. Sent("fire", "claim", l) \in Resumed(l)
    BY <1>3, Lanes DEF Resumed
  <2> QED BY <1>3, <2>1, RestRests DEF Fire
<1> QED BY <1>1, <1>2, <1>3

\* The loop rests where the requests it was given lead.
LEMMA LoopRests ==
    ASSUME NEW l, NEW a \in BOOLEAN, NEW fire \in BOOLEAN, NEW refresh \in BOOLEAN, NEW t,
           stopped \in BOOLEAN, Loop(l, a, fire, refresh, t)
    PROVE  Rested(l, fire, refresh, t)
<1>1. CASE stopped
  BY <1>1 DEF Loop, Rest, Rested
<1>2. CASE ~stopped /\ fire
  BY <1>2, FireRests DEF Loop
<1>3. CASE ~stopped /\ ~fire /\ refresh
  BY <1>3, RefreshRests DEF Loop
<1>4. CASE ~stopped /\ ~fire /\ ~refresh
  BY <1>4 DEF Loop, Rest, Rested
<1> QED BY <1>1, <1>2, <1>3, <1>4

\* A kick runs the loop, or leaves the requests to whoever keeps it from running.
LEMMA KickRests ==
    ASSUME NEW l, NEW fire \in BOOLEAN, NEW refresh \in BOOLEAN, NEW t, NEW retry,
           stopped \in BOOLEAN, adopted \in BOOLEAN, Kick(l, fire, refresh, t, retry)
    PROVE  \/ /\ stopped \/ Driving \/ retry # "none"
              /\ Rest(drive, fire, refresh, t)
           \/ /\ ~stopped /\ ~Driving /\ retry = "none"
              /\ Rested(l, fire, refresh, t)
<1>1. CASE stopped \/ Driving \/ retry # "none"
  BY <1>1 DEF Kick
<1>2. CASE ~(stopped \/ Driving \/ retry # "none")
  BY <1>2, LoopRests DEF Kick
<1> QED BY <1>1, <1>2

-----------------------------------------------------------------------------
(* The soonest wake *)

\* Naturals are well ordered.
LEMMA LeastNatural ==
    ASSUME NEW T \in SUBSET Nat, T # {}
    PROVE  \E t \in T : \A u \in T : t <= u
<1> DEFINE Below(t) == 0 .. t
           Order == StrictSubsetOrdering(Nat)
<1>1. IsWellFoundedOn(Order, FiniteSubsetsOf(Nat))
  BY FS_StrictSubsetOrderingWellFounded
<1>2. {Below(t) : t \in T} \subseteq FiniteSubsetsOf(Nat) /\ {Below(t) : t \in T} # {}
  <2>1. \A t \in T : IsFiniteSet(Below(t)) /\ Below(t) \in SUBSET Nat
    BY FS_Interval
  <2> HIDE DEF Below
  <2> QED BY <2>1 DEF FiniteSubsetsOf
<1>3. PICK x \in {Below(t) : t \in T} : \A y \in {Below(t) : t \in T} : ~(<<y, x>> \in Order)
  <2> HIDE DEF Below, Order
  <2> QED BY <1>1, <1>2, WFMin
<1>4. PICK t \in T : x = Below(t)
  BY <1>3
<1>5. ASSUME NEW u \in T PROVE t <= u
  <2>1. ~(<<Below(u), Below(t)>> \in Order)
    BY <1>3, <1>4
  <2>2. Below(u) \in SUBSET Nat /\ Below(t) \in SUBSET Nat
    OBVIOUS
  <2>3. ~(Below(u) \subseteq Below(t) /\ Below(u) # Below(t))
    BY <2>1, <2>2 DEF StrictSubsetOrdering
  <2>4. CASE u < t
    <3>1. Below(u) \subseteq Below(t) /\ t \in Below(t) /\ t \notin Below(u)
      BY <2>4
    <3> QED BY <2>3, <3>1
  <2> QED BY <2>4
<1> QED BY <1>5

\* alarmNextWakeAt answers the wake of some open row that is due no later than
\* any other, and null when there is none.
LEMMA NextWake ==
    ASSUME StoreInv, BoundedInv, NEW B
    PROVE  /\ NextWakeAt(B) \in Wakes
           /\ Unclaimed(B) # {} =>
                /\ NextWakeAt(B) \in Times
                /\ \E k \in Unclaimed(B) : NextWakeAt(B) = alarms[k].wakeAt
                /\ \A k \in Unclaimed(B) : NextWakeAt(B) <= alarms[k].wakeAt
<1>1. CASE Unclaimed(B) = {}
  BY <1>1 DEF NextWakeAt, Wakes
<1>2. CASE Unclaimed(B) # {}
  <2>1. \A k \in Unclaimed(B) : alarms[k].wakeAt \in Times
    BY DEF Unclaimed, Scheduled, BoundedInv, Bounded, Wakes
  <2>2. \A t \in Times : t \in Nat
    BY BoundsNat DEF Times
  <2> DEFINE waits == {alarms[k].wakeAt : k \in Unclaimed(B)}
  <2>3. waits \in SUBSET Nat /\ waits # {}
    BY <1>2, <2>1, <2>2
  <2>4. PICK t \in waits : \A u \in waits : t <= u
    BY <2>3, LeastNatural
  <2>5. \E k \in Unclaimed(B) : \A o \in Unclaimed(B) : alarms[k].wakeAt <= alarms[o].wakeAt
    BY <2>4
  <2> DEFINE s == CHOOSE k \in Unclaimed(B) :
                     \A o \in Unclaimed(B) : alarms[k].wakeAt <= alarms[o].wakeAt
  <2>6. s \in Unclaimed(B) /\ \A o \in Unclaimed(B) : alarms[s].wakeAt <= alarms[o].wakeAt
    BY <2>5
  <2>7. NextWakeAt(B) = alarms[s].wakeAt
    BY <1>2 DEF NextWakeAt
  <2> HIDE DEF s
  <2> QED BY <2>1, <2>6, <2>7 DEF Wakes
<1> QED BY <1>1, <1>2

-----------------------------------------------------------------------------
(* The driver's own invariant *)

DueKeys(d) == {c.key : c \in d.due}

\* What the operation in flight d may rely on while lanes l run: it claims only
\* as many rows as were free when it was sent, of keys that had no lane, and
\* only a claim that was executed carries claims.
DriveSound(d, l) ==
    /\ d.call = "none" => d \in {Idle, Returned}
    /\ d.call # "none" => d.op \in {"refresh", "fire"} /\ d.state \in {"sent", "executed"}
    /\ d.call = "peek" => d.op = "refresh"
    /\ d.call = "claim" =>
          /\ d.op = "fire" /\ d.limit >= 1 /\ Busy(l) \subseteq d.exclude
          /\ Cardinality(d.exclude) + d.limit <= Concurrency
    /\ ~(d.call = "claim" /\ d.state = "executed") => d.due = {}
    /\ \A b, c \in d.due : b.key = c.key => b = c
    /\ DueKeys(d) \cap d.exclude = {}
    /\ d.due # {} => Cardinality(DueKeys(d)) <= d.limit

HostSound ==
    /\ now \in Times /\ worker \in Workers /\ spent \subseteq Workers
    /\ stopped \in BOOLEAN /\ adopted \in BOOLEAN /\ unnotified \in BOOLEAN
    /\ failures \in Nat

LoopSound ==
    /\ timer \in Timer /\ failureRetry \in {"none", "refresh", "fire"}
    /\ refreshRequested \in BOOLEAN /\ fireRequested \in BOOLEAN
    /\ drive \in Drive

DriverInv ==
    /\ HostSound /\ LoopSound
    /\ lanes \in [Keys -> Lane]
    /\ DriveSound(drive, lanes)
    /\ LaneLimit

\* The loop rests in a sound operation.
LEMMA RestedSound ==
    ASSUME NEW l, NEW fire, NEW refresh, NEW t, Rested(l, fire, refresh, t)
    PROVE  /\ drive' \in Drive /\ DriveSound(drive', l)
           /\ fireRequested' \in BOOLEAN /\ refreshRequested' \in BOOLEAN
           /\ timer' \in {t, NoTimer}
<1>1. DueKeys(Returned) = {} /\ \A op, call : DueKeys(Sent(op, call, l)) = {}
  BY SentShape DEF DueKeys
<1>2. CASE drive' = Returned
  BY <1>1, <1>2, SentShape DEF Rested, DriveSound
<1>3. CASE drive' \in {Sent("refresh", "adopt", l), Sent("fire", "adopt", l)}
  BY <1>1, <1>3, SentShape DEF Rested, DriveSound
<1>4. CASE Available(l) > 0 /\ drive' = Sent("refresh", "peek", l)
  BY <1>1, <1>4, SentShape DEF Rested, DriveSound
<1>5. CASE Available(l) > 0 /\ drive' = Sent("fire", "claim", l)
  <2>1. drive'.limit >= 1 /\ Cardinality(drive'.exclude) + drive'.limit <= Concurrency
    BY <1>5, SentShape, Lanes, ConcurrencyAssumption
  <2>2. drive' \in Drive /\ drive'.call = "claim" /\ drive'.op = "fire" /\ drive'.state = "sent"
        /\ drive'.due = {} /\ Busy(l) = drive'.exclude /\ DueKeys(drive') = {}
    BY <1>1, <1>5, SentShape
  <2>3. DriveSound(drive', l)
    BY <2>1, <2>2 DEF DriveSound
  <2> QED BY <2>2, <2>3 DEF Rested
<1> QED BY <1>2, <1>3, <1>4, <1>5 DEF Rested, Resumed

\* So does a kick.
LEMMA KickSound ==
    ASSUME NEW l, NEW fire \in BOOLEAN, NEW refresh \in BOOLEAN, NEW t, NEW retry,
           stopped \in BOOLEAN, adopted \in BOOLEAN, Kick(l, fire, refresh, t, retry),
           drive \in Drive, DriveSound(drive, l)
    PROVE  /\ drive' \in Drive /\ DriveSound(drive', l)
           /\ fireRequested' \in BOOLEAN /\ refreshRequested' \in BOOLEAN
           /\ timer' \in {t, NoTimer}
<1>1. CASE Rest(drive, fire, refresh, t)
  BY <1>1 DEF Rest
<1>2. CASE Rested(l, fire, refresh, t)
  BY <1>2, RestedSound
<1> QED BY <1>1, <1>2, KickRests

\* A request for a refresh, and one for a pass, are kicks.
LEMMA RequestRefreshSound ==
    ASSUME NEW l, RequestRefresh(l), LoopSound,
           stopped \in BOOLEAN, adopted \in BOOLEAN, DriveSound(drive, l)
    PROVE  /\ drive' \in Drive /\ DriveSound(drive', l)
           /\ fireRequested' \in BOOLEAN /\ refreshRequested' \in BOOLEAN
           /\ timer' \in {timer, NoTimer}
<1>1. CASE stopped
  BY <1>1 DEF RequestRefresh, LoopSound
<1>2. CASE ~stopped
  <2> DEFINE asked == TRUE
  <2>1. Kick(l, fireRequested, asked, timer, failureRetry)
    BY <1>2, Zenon DEF RequestRefresh
  <2>2. fireRequested \in BOOLEAN /\ asked \in BOOLEAN /\ drive \in Drive
    BY DEF LoopSound
  <2> HIDE DEF asked
  <2> QED BY <2>1, <2>2, KickSound
<1> QED BY <1>1, <1>2

\* A sound operation stays sound while lanes end.
LEMMA FewerLanes ==
    ASSUME NEW d, NEW l, NEW m, DriveSound(d, l), Busy(m) \subseteq Busy(l)
    PROVE  DriveSound(d, m)
  BY DEF DriveSound

\* Fewer lanes, smaller number.
LEMMA FewerBusy ==
    ASSUME NEW l, NEW m, Busy(m) \subseteq Busy(l)
    PROVE  Cardinality(Busy(m)) <= Cardinality(Busy(l))
  BY Lanes, FS_Subset

-----------------------------------------------------------------------------
(* Every step of the scheduler keeps the driver sound *)

\* The claims an executed alarmClaimDue answers with: one per selected row.
ClaimsOf(S) ==
    {[key |-> k, generation |-> NextClaim(k), token |-> ClaimToken(k)] : k \in S}

\* It answers one claim per row.
LEMMA ClaimsAnswered ==
    ASSUME StoreInv, NEW S \in SUBSET Keys
    PROVE  /\ ClaimsOf(S) \in SUBSET Claim
           /\ {c.key : c \in ClaimsOf(S)} = S
           /\ \A b, c \in ClaimsOf(S) : b.key = c.key => b = c
           /\ \A c \in ClaimsOf(S) : /\ c.key \in S
                                     /\ c.generation = NextClaim(c.key)
                                     /\ c.token = ClaimToken(c.key)
<1>1. ASSUME NEW k \in S PROVE NextClaim(k) \in Nat /\ ClaimToken(k) \in WakeToken
  <2>1. requests[k] \in RequestRow
    BY DEF StoreInv, StoreTypeOK
  <2>2. NextClaim(k) \in Nat
    BY NextClaimAbove DEF StoreInv
  <2>3. NoToken \in WakeToken
    BY RowTypes
  <2>4. [incarnation |-> requests[k].incarnation, generation |-> requests[k].generation] \in WakeToken
    BY <2>1 DEF WakeToken, RequestRow
  <2> QED BY <2>2, <2>3, <2>4 DEF ClaimToken
<1>2. ClaimsOf(S) \in SUBSET Claim
  BY <1>1 DEF Claim, ClaimsOf
<1>3. \A c \in ClaimsOf(S) : /\ c.key \in S
                             /\ c.generation = NextClaim(c.key)
                             /\ c.token = ClaimToken(c.key)
  BY DEF ClaimsOf
<1>4. {c.key : c \in ClaimsOf(S)} = S
  <2>1. ASSUME NEW k \in S PROVE \E c \in ClaimsOf(S) : c.key = k
    <3>1. [key |-> k, generation |-> NextClaim(k), token |-> ClaimToken(k)] \in ClaimsOf(S)
      BY DEF ClaimsOf
    <3> QED BY <3>1
  <2> QED BY <1>3, <2>1
<1>5. ASSUME NEW b \in ClaimsOf(S), NEW c \in ClaimsOf(S), b.key = c.key PROVE b = c
  <2>1. PICK j \in S : b = [key |-> j, generation |-> NextClaim(j), token |-> ClaimToken(j)]
    BY DEF ClaimsOf
  <2>2. PICK k \in S : c = [key |-> k, generation |-> NextClaim(k), token |-> ClaimToken(k)]
    BY DEF ClaimsOf
  <2>3. b.key = j /\ c.key = k
    BY <2>1, <2>2
  <2>4. j = k
    BY <1>5, <2>3
  <2> QED BY <2>1, <2>2, <2>4
<1> QED BY <1>2, <1>3, <1>4, <1>5

\* The store answers.
LEMMA ExecuteKeeps ==
    ASSUME StoreInv, BoundedInv, DriverInv, ExecuteAdopt \/ ExecutePeek \/ ExecuteClaim
    PROVE  DriverInv'
<1>0. drive \in Drive /\ DriveSound(drive, lanes)
  BY DEF DriverInv, LoopSound
<1>1. SUFFICES drive' \in Drive /\ DriveSound(drive', lanes)
  <2>1. UNCHANGED <<now, worker, spent, stopped, adopted, timer, refreshRequested,
                    fireRequested, failureRetry, lanes, unnotified, failures>>
    BY DEF ExecuteAdopt, ExecutePeek, ExecuteClaim
  <2> QED BY <1>1, <2>1 DEF DriverInv, HostSound, LoopSound, LaneLimit
<1>2. CASE ExecuteAdopt
  <2>1. drive' = [drive EXCEPT !.state = "executed"] /\ drive.call = "adopt"
    BY <1>2, Zenon DEF ExecuteAdopt, Answered, InCall
  <2>2. drive' \in Drive
    BY <1>0, <2>1 DEF Drive
  <2>3. /\ drive'.call = drive.call /\ drive'.op = drive.op /\ drive'.state = "executed"
        /\ drive'.due = drive.due /\ drive.due = {}
    BY <1>0, <2>1 DEF Drive, DriveSound
  <2>4. DueKeys(drive') = {}
    BY <2>3 DEF DueKeys
  <2> QED BY <1>0, <2>1, <2>2, <2>3, <2>4 DEF DriveSound
<1>3. CASE ExecutePeek
  <2>1. /\ drive' = [[drive EXCEPT !.next = NextWakeAt(drive.exclude)] EXCEPT !.state = "executed"]
        /\ drive.call = "peek"
    BY <1>3, Zenon DEF ExecutePeek, Answered, InCall
  <2>2. NextWakeAt(drive.exclude) \in Wakes
    BY NextWake
  <2> DEFINE told == [drive EXCEPT !.next = NextWakeAt(drive.exclude)]
  <2>3. told \in Drive /\ told.call = drive.call /\ told.op = drive.op /\ told.due = drive.due
    BY <1>0, <2>2 DEF Drive
  <2>4. drive' = [told EXCEPT !.state = "executed"]
    BY <2>1
  <2> HIDE DEF told
  <2>5. drive' \in Drive
    BY <2>3, <2>4 DEF Drive
  <2>6. /\ drive'.call = drive.call /\ drive'.op = drive.op /\ drive'.state = "executed"
        /\ drive'.due = drive.due /\ drive.due = {}
    BY <1>0, <2>1, <2>3, <2>4 DEF Drive, DriveSound
  <2>7. DueKeys(drive') = {}
    BY <2>6 DEF DueKeys
  <2> QED BY <1>0, <2>1, <2>5, <2>6, <2>7 DEF DriveSound
<1>4. CASE ExecuteClaim
  <2>1. PICK S \in SoonestDue(now, drive.limit, drive.exclude) :
           /\ AlarmClaimDue(worker, S)
           /\ drive' = [[drive EXCEPT !.due = ClaimsOf(S)] EXCEPT !.state = "executed"]
    BY <1>4, Zenon DEF ExecuteClaim, Answered, ClaimsOf
  <2>2. drive.call = "claim"
    BY <1>4 DEF ExecuteClaim, InCall
  <2>3. S \in SUBSET Keys /\ S \cap drive.exclude = {} /\ Cardinality(S) <= drive.limit
    BY DEF SoonestDue, DueRows, Unclaimed
  <2> DEFINE claims == ClaimsOf(S)
             told == [drive EXCEPT !.due = claims]
  <2>4. /\ claims \in SUBSET Claim /\ {c.key : c \in claims} = S
        /\ \A b, c \in claims : b.key = c.key => b = c
    BY <2>3, ClaimsAnswered
  <2>5. drive' = [told EXCEPT !.state = "executed"]
    BY <2>1
  <2> HIDE DEF claims
  <2>6. /\ told \in Drive /\ told.call = drive.call /\ told.op = drive.op /\ told.due = claims
        /\ told.exclude = drive.exclude /\ told.limit = drive.limit
    BY <1>0, <2>4 DEF Drive
  <2> HIDE DEF told
  <2>7. drive' \in Drive
    BY <2>5, <2>6 DEF Drive
  <2>8. /\ drive'.call = drive.call /\ drive'.op = drive.op /\ drive'.state = "executed"
        /\ drive'.due = claims /\ drive'.exclude = drive.exclude /\ drive'.limit = drive.limit
    BY <2>5, <2>6 DEF Drive
  <2>9. DueKeys(drive') = S
    BY <2>4, <2>8 DEF DueKeys
  <2> QED BY <1>0, <2>2, <2>3, <2>4, <2>7, <2>8, <2>9 DEF DriveSound
<1> QED BY <1>2, <1>3, <1>4

\* The loop goes on after an adoption, unless every lane is taken.
LEMMA AdoptRests ==
    ASSUME HostSound, LoopSound, AdoptAnswered
    PROVE  /\ adopted' \in BOOLEAN
           /\ \E fire, refresh \in BOOLEAN, t \in {timer, NoTimer} : Rested(lanes, fire, refresh, t)
           /\ ~stopped /\ drive' = Returned => Available(lanes) <= 0
<1>0. /\ stopped \in BOOLEAN /\ adopted \in BOOLEAN
      /\ fireRequested \in BOOLEAN /\ refreshRequested \in BOOLEAN
      /\ timer \in Timer /\ NoTimer \in Timer
  BY DEF HostSound, LoopSound, NoTimer, Timer, Wakes
<1>1. CASE stopped
  <2>1. adopted' = adopted /\ Loop(lanes, adopted, fireRequested, refreshRequested, timer)
    BY <1>1, Zenon DEF AdoptAnswered
  <2>2. Rested(lanes, fireRequested, refreshRequested, timer)
    BY <1>0, <2>1, LoopRests
  <2> QED BY <1>0, <1>1, <2>1, <2>2
<1> DEFINE yes == TRUE
<1>2. ASSUME NEW op \in {"refresh", "fire"}, NEW call \in {"peek", "claim"},
             op = "refresh" <=> call = "peek", Available(lanes) > 0,
             Rest(Sent(op, call, lanes), fireRequested, refreshRequested, timer)
      PROVE  Rested(lanes, fireRequested, refreshRequested, timer) /\ drive' # Returned
  <2>1. drive' = Sent(op, call, lanes) /\ timer' = timer
        /\ fireRequested' = fireRequested /\ refreshRequested' = refreshRequested
    BY <1>2 DEF Rest
  <2>2. drive' \in Resumed(lanes)
    BY <1>2, <2>1 DEF Resumed
  <2>3. drive'.call # "none" /\ drive' # Returned
    BY <1>2, <2>1, SentShape
  <2> QED BY <1>0, <2>1, <2>2, <2>3 DEF Rested
<1>3. ASSUME NEW fire \in BOOLEAN, NEW refresh \in BOOLEAN, NEW t \in Timer,
             Loop(lanes, yes, fire, refresh, t)
      PROVE  Rested(lanes, fire, refresh, t)
  <2>1. yes \in BOOLEAN
    OBVIOUS
  <2> HIDE DEF yes
  <2> QED BY <1>0, <1>3, <2>1, LoopRests
<1>4. CASE ~stopped /\ drive.op = "refresh"
  <2>1. CASE Available(lanes) <= 0
    <3>1. adopted' = TRUE /\ Loop(lanes, yes, fireRequested, refreshRequested, NoTimer)
      BY <1>4, <2>1, Zenon DEF AdoptAnswered
    <3>2. Rested(lanes, fireRequested, refreshRequested, NoTimer)
      BY <1>0, <1>3, <3>1
    <3> QED BY <1>0, <2>1, <3>1, <3>2
  <2>2. CASE ~(Available(lanes) <= 0)
    <3>1. /\ adopted' = TRUE
          /\ Rest(Sent("refresh", "peek", lanes), fireRequested, refreshRequested, timer)
      BY <1>4, <2>2, Zenon DEF AdoptAnswered
    <3>2. Available(lanes) > 0
      BY <2>2, Lanes
    <3>3. Rested(lanes, fireRequested, refreshRequested, timer) /\ drive' # Returned
      BY <1>2, <3>1, <3>2
    <3> QED BY <1>0, <3>1, <3>3
  <2> QED BY <2>1, <2>2
<1>5. CASE ~stopped /\ drive.op # "refresh"
  <2>1. CASE Available(lanes) <= 0
    <3>1. adopted' = TRUE /\ Loop(lanes, yes, fireRequested, yes, timer)
      BY <1>5, <2>1, Zenon DEF AdoptAnswered
    <3>2. yes \in BOOLEAN
      OBVIOUS
    <3> HIDE DEF yes
    <3>3. Rested(lanes, fireRequested, yes, timer)
      BY <1>0, <1>3, <3>1, <3>2
    <3> QED BY <1>0, <2>1, <3>1, <3>2, <3>3
  <2>2. CASE ~(Available(lanes) <= 0)
    <3>1. /\ adopted' = TRUE
          /\ Rest(Sent("fire", "claim", lanes), fireRequested, refreshRequested, timer)
      BY <1>5, <2>2, Zenon DEF AdoptAnswered
    <3>2. Available(lanes) > 0
      BY <2>2, Lanes
    <3>3. Rested(lanes, fireRequested, refreshRequested, timer) /\ drive' # Returned
      BY <1>2, <3>1, <3>2
    <3> QED BY <1>0, <3>1, <3>3
  <2> QED BY <2>1, <2>2
<1> QED BY <1>1, <1>4, <1>5

\* The adoption answers.
LEMMA AdoptAnsweredKeeps ==
    ASSUME DriverInv, AdoptAnswered PROVE DriverInv'
<1>1. PICK fire \in BOOLEAN, refresh \in BOOLEAN, t \in {timer, NoTimer} :
         Rested(lanes, fire, refresh, t)
  BY AdoptRests DEF DriverInv
<1>2. adopted' \in BOOLEAN
  BY AdoptRests DEF DriverInv
<1>3. /\ drive' \in Drive /\ DriveSound(drive', lanes)
      /\ fireRequested' \in BOOLEAN /\ refreshRequested' \in BOOLEAN
      /\ timer' \in Timer
  <2>1. NoTimer \in Timer /\ timer \in Timer
    BY DEF NoTimer, Timer, Wakes, DriverInv, LoopSound
  <2> QED BY <1>1, <2>1, RestedSound
<1>4. UNCHANGED <<now, worker, spent, stopped, failureRetry, lanes, unnotified, failures>>
  BY DEF AdoptAnswered
<1> QED BY <1>2, <1>3, <1>4 DEF DriverInv, HostSound, LoopSound, LaneLimit

\* The armed wake is read from the store; any timer the loop is given is one.
LEMMA TimerShapes ==
    /\ NoTimer \in Timer /\ RetryTimer \in Timer
    /\ \A t \in Wakes : WakeTimer(t) \in Timer
  BY DEF NoTimer, RetryTimer, WakeTimer, Timer, Wakes

\* The loop goes on after an answer or a failure.
LEMMA PeekAnsweredKeeps ==
    ASSUME DriverInv, PeekAnswered PROVE DriverInv'
<1>0. HostSound /\ LoopSound
  BY DEF DriverInv
<1> DEFINE t == IF stopped THEN timer
                ELSE IF drive.next = Never THEN NoTimer ELSE WakeTimer(drive.next)
<1>1. Loop(lanes, adopted, fireRequested, refreshRequested, t)
  BY DEF PeekAnswered
<1>2. t \in Timer
  BY <1>0, TimerShapes DEF LoopSound, Drive
<1> HIDE DEF t
<1>3. Rested(lanes, fireRequested, refreshRequested, t)
  BY <1>0, <1>1, LoopRests DEF HostSound, LoopSound
<1>4. /\ drive' \in Drive /\ DriveSound(drive', lanes)
      /\ fireRequested' \in BOOLEAN /\ refreshRequested' \in BOOLEAN
      /\ timer' \in Timer
  BY <1>2, <1>3, RestedSound, TimerShapes
<1>5. UNCHANGED <<now, worker, spent, stopped, adopted, failureRetry, lanes, unnotified, failures>>
  BY DEF PeekAnswered
<1> QED BY <1>4, <1>5 DEF DriverInv, HostSound, LoopSound, LaneLimit

\* The driver lets go of its promise, or the loop starts again.
LEMMA SettlesRests ==
    ASSUME HostSound, LoopSound, DriveSettles
    PROVE  \/ /\ stopped \/ failureRetry # "none" \/ ~(fireRequested \/ refreshRequested)
              /\ Rest(Idle, fireRequested, refreshRequested, timer)
           \/ /\ ~stopped /\ (fireRequested \/ refreshRequested)
              /\ Rested(lanes, fireRequested, refreshRequested, timer)
<1>0. /\ stopped \in BOOLEAN /\ adopted \in BOOLEAN
      /\ fireRequested \in BOOLEAN /\ refreshRequested \in BOOLEAN
  BY DEF HostSound, LoopSound
<1>1. CASE stopped \/ failureRetry # "none" \/ ~(fireRequested \/ refreshRequested)
  BY <1>1 DEF DriveSettles, Settles
<1>2. CASE ~(stopped \/ failureRetry # "none" \/ ~(fireRequested \/ refreshRequested))
  <2>1. Loop(lanes, adopted, fireRequested, refreshRequested, timer)
    BY <1>2 DEF DriveSettles, Settles
  <2> QED BY <1>0, <1>2, <2>1, LoopRests
<1> QED BY <1>1, <1>2

\* Either way it stays sound.
LEMMA DriveSettlesKeeps ==
    ASSUME DriverInv, DriveSettles PROVE DriverInv'
<1>0. HostSound /\ LoopSound
  BY DEF DriverInv
<1>1. UNCHANGED <<now, worker, spent, stopped, adopted, failureRetry, lanes, unnotified, failures>>
  BY DEF DriveSettles
<1>2. CASE Rest(Idle, fireRequested, refreshRequested, timer)
  <2>1. DueKeys(Idle) = {}
    BY SentShape DEF DueKeys
  <2>2. DriveSound(Idle, lanes)
    BY <2>1, SentShape DEF DriveSound
  <2> QED BY <1>0, <1>1, <1>2, <2>2, SentShape
      DEF Rest, DriverInv, HostSound, LoopSound, LaneLimit
<1>3. CASE Rested(lanes, fireRequested, refreshRequested, timer)
  <2>1. /\ drive' \in Drive /\ DriveSound(drive', lanes)
        /\ fireRequested' \in BOOLEAN /\ refreshRequested' \in BOOLEAN
        /\ timer' \in Timer
    BY <1>0, <1>3, RestedSound, TimerShapes DEF LoopSound
  <2> QED BY <1>0, <1>1, <2>1 DEF DriverInv, HostSound, LoopSound, LaneLimit
<1> QED BY <1>0, <1>2, <1>3, SettlesRests

\* A failed call parks its operation and the loop goes on.
LEMMA CallFailsKeeps ==
    ASSUME DriverInv, CallFails PROVE DriverInv'
<1>0. HostSound /\ LoopSound
  BY DEF DriverInv
<1> DEFINE t == IF stopped THEN timer ELSE RetryTimer
<1>1. Loop(lanes, adopted, fireRequested, refreshRequested, t)
  BY DEF CallFails, Fail
<1>2. t \in Timer
  BY <1>0, TimerShapes DEF LoopSound
<1> HIDE DEF t
<1>3. Rested(lanes, fireRequested, refreshRequested, t)
  BY <1>0, <1>1, LoopRests DEF HostSound, LoopSound
<1>4. /\ drive' \in Drive /\ DriveSound(drive', lanes)
      /\ fireRequested' \in BOOLEAN /\ refreshRequested' \in BOOLEAN
      /\ timer' \in Timer
  BY <1>2, <1>3, RestedSound, TimerShapes
<1>5. UNCHANGED <<now, worker, spent, stopped, adopted, lanes, unnotified>>
  BY DEF CallFails
<1>6. failureRetry' \in {failureRetry, "fire", "refresh"} /\ failures' = failures + 1
  BY DEF CallFails, Fail
<1> QED BY <1>0, <1>4, <1>5, <1>6 DEF DriverInv, HostSound, LoopSound, LaneLimit

\* The lanes a claim starts: one per claimed key, and no more than were free.
LEMMA LanesStarted ==
    ASSUME DriverInv, ClaimAnswered
    PROVE  /\ lanes' \in [Keys -> Lane]
           /\ Busy(lanes') = Busy(lanes) \cup DueKeys(drive)
           /\ Cardinality(Busy(lanes')) <= Concurrency
           /\ \A k \in Keys \ DueKeys(drive) : lanes'[k] = lanes[k]
           /\ \A c \in drive.due : /\ lanes'[c.key].generation = c.generation
                                   /\ lanes'[c.key].token = c.token
<1>0. /\ drive \in Drive /\ DriveSound(drive, lanes) /\ lanes \in [Keys -> Lane] /\ LaneLimit
      /\ drive.call = "claim"
  BY DEF DriverInv, LoopSound, ClaimAnswered, InCall
<1> DEFINE due(k) == CHOOSE c \in drive.due : c.key = k
           started(k, p) ==
              [NoLane EXCEPT !.phase = IF k \in p THEN "deferring" ELSE "dispatching",
                             !.generation = due(k).generation, !.token = due(k).token]
<1>1. PICK p \in SUBSET DueKeys(drive) :
         lanes' = [k \in Keys |-> IF \E c \in drive.due : c.key = k THEN started(k, p) ELSE lanes[k]]
  BY Zenon DEF ClaimAnswered, DueKeys
<1>2. \A c \in drive.due : due(c.key) = c /\ c \in Claim /\ c.key \in Keys
  <2>1. \A c \in drive.due : c \in Claim /\ c.key \in Keys
    BY <1>0 DEF Drive, Claim
  <2>2. \A c \in drive.due : due(c.key) \in drive.due /\ due(c.key).key = c.key
    OBVIOUS
  <2> QED BY <1>0, <2>1, <2>2 DEF DriveSound
<1>3. \A k \in Keys : (\E c \in drive.due : c.key = k) <=> k \in DueKeys(drive)
  BY DEF DueKeys
<1>4. \A k \in DueKeys(drive) : due(k) \in Claim
  BY <1>2 DEF DueKeys
<1> HIDE DEF due
<1>5. ASSUME NEW k \in DueKeys(drive)
      PROVE  /\ started(k, p) \in Lane /\ started(k, p).phase # "none"
             /\ started(k, p).generation = due(k).generation /\ started(k, p).token = due(k).token
  <2>1. due(k).generation \in Nat /\ due(k).token \in WakeToken
    BY <1>4 DEF Claim
  <2>2. NoLane \in Lane
    BY RowTypes DEF NoLane, Lane, Wakes
  <2> QED BY <2>1, <2>2 DEF Lane
<1>6. \A k \in Keys : lanes'[k] = IF k \in DueKeys(drive) THEN started(k, p) ELSE lanes[k]
  BY <1>1, <1>3
<1>7. lanes' \in [Keys -> Lane]
  <2>1. lanes' = [k \in Keys |-> lanes'[k]]
    BY <1>1
  <2>2. \A k \in Keys : lanes'[k] \in Lane
    BY <1>0, <1>5, <1>6
  <2> QED BY <2>1, <2>2
<1>8. DueKeys(drive) \subseteq Keys
  BY <1>2 DEF DueKeys
<1>9. Busy(lanes') = Busy(lanes) \cup DueKeys(drive)
  <2> HIDE DEF started
  <2>1. \A k \in Keys : lanes'[k].phase # "none" <=> k \in DueKeys(drive) \/ lanes[k].phase # "none"
    BY <1>5, <1>6
  <2> QED BY <1>8, <2>1 DEF Busy
<1>10. \A c \in drive.due : /\ lanes'[c.key].generation = c.generation
                            /\ lanes'[c.key].token = c.token
  <2> SUFFICES ASSUME NEW c \in drive.due
               PROVE  lanes'[c.key].generation = c.generation /\ lanes'[c.key].token = c.token
    OBVIOUS
  <2>1. c.key \in DueKeys(drive) /\ c.key \in Keys /\ due(c.key) = c
    BY <1>2 DEF DueKeys
  <2>2. lanes'[c.key] = started(c.key, p)
    BY <1>6, <2>1
  <2>3. started(c.key, p).generation = c.generation /\ started(c.key, p).token = c.token
    BY <1>5, <2>1, Zenon
  <2> QED BY <2>2, <2>3
<1>11. Cardinality(Busy(lanes')) <= Concurrency
  <2>1. CASE drive.due = {}
    <3>1. DueKeys(drive) = {}
      BY <2>1 DEF DueKeys
    <3> QED BY <1>0, <1>9, <3>1 DEF LaneLimit
  <2>2. CASE drive.due # {}
    <3>1. /\ IsFiniteSet(drive.exclude) /\ IsFiniteSet(DueKeys(drive))
          /\ Cardinality(drive.exclude) \in Nat /\ Cardinality(DueKeys(drive)) \in Nat
      BY <1>0, <1>8, FS_Subset, FS_CardinalityType, KeysAssumption DEF Drive
    <3>2. /\ IsFiniteSet(drive.exclude \cup DueKeys(drive))
          /\ Cardinality(drive.exclude \cup DueKeys(drive))
               = Cardinality(drive.exclude) + Cardinality(DueKeys(drive))
      <4>1. Cardinality(drive.exclude \cap DueKeys(drive)) = 0
        BY <1>0, FS_EmptySet DEF DriveSound
      <4>2. /\ IsFiniteSet(drive.exclude \cup DueKeys(drive))
            /\ Cardinality(drive.exclude \cup DueKeys(drive))
                 = Cardinality(drive.exclude) + Cardinality(DueKeys(drive))
                     - Cardinality(drive.exclude \cap DueKeys(drive))
        BY <3>1, FS_Union
      <4> QED BY <3>1, <4>1, <4>2
    <3>3. Busy(lanes') \subseteq drive.exclude \cup DueKeys(drive)
      BY <1>0, <1>9 DEF DriveSound
    <3>4. Cardinality(Busy(lanes')) <= Cardinality(drive.exclude \cup DueKeys(drive))
      BY <3>2, <3>3, FS_Subset
    <3>5. /\ Cardinality(DueKeys(drive)) <= drive.limit
          /\ Cardinality(drive.exclude) + drive.limit <= Concurrency
      BY <1>0, <2>2 DEF DriveSound
    <3>6. drive.limit \in Int /\ Concurrency \in Nat /\ Cardinality(Busy(lanes')) \in Nat
      BY <1>0, Lanes, ConcurrencyAssumption DEF Drive
    <3> QED BY <3>1, <3>2, <3>4, <3>5, <3>6
  <2> QED BY <2>1, <2>2
<1> QED BY <1>6, <1>7, <1>9, <1>10, <1>11

\* The claims become lanes, and the loop goes on with them.
LEMMA ClaimAnsweredKeeps ==
    ASSUME DriverInv, ClaimAnswered PROVE DriverInv'
<1>0. HostSound /\ LoopSound
  BY DEF DriverInv
<1> DEFINE yes == TRUE
<1>1. Loop(lanes', adopted, fireRequested, yes, timer)
  BY Zenon DEF ClaimAnswered
<1>2. yes \in BOOLEAN
  OBVIOUS
<1> HIDE DEF yes
<1>3. Rested(lanes', fireRequested, yes, timer)
  BY <1>0, <1>1, <1>2, LoopRests DEF HostSound, LoopSound
<1>4. /\ drive' \in Drive /\ DriveSound(drive', lanes')
      /\ fireRequested' \in BOOLEAN /\ refreshRequested' \in BOOLEAN
      /\ timer' \in Timer
  BY <1>0, <1>3, RestedSound, TimerShapes DEF LoopSound
<1>5. UNCHANGED <<now, worker, spent, stopped, adopted, failureRetry, unnotified, failures>>
  BY DEF ClaimAnswered
<1>6. lanes' \in [Keys -> Lane] /\ Cardinality(Busy(lanes')) <= Concurrency
  BY LanesStarted
<1> QED BY <1>0, <1>4, <1>5, <1>6 DEF DriverInv, HostSound, LoopSound, LaneLimit

\* The turns of a lane between its start and its end.
LaneTurn(k) ==
    \/ HandlerReturns(k) \/ HandlerThrows(k) \/ HandlerBlocked(k) \/ HandlerAborted(k)
    \/ Acknowledge(k) \/ AcknowledgeFails(k)

\* They keep the lane busy and the claim it runs for.
LEMMA LaneTurnMoves ==
    ASSUME lanes \in [Keys -> Lane], NEW k \in Keys, LaneTurn(k)
    PROVE  /\ LaneFrame /\ failures' \in {failures, failures + 1}
           /\ lanes' \in [Keys -> Lane]
           /\ Busy(lanes') = Busy(lanes) /\ k \in Busy(lanes)
           /\ \A j \in Keys : /\ lanes'[j].generation = lanes[j].generation
                              /\ lanes'[j].token = lanes[j].token
<1>1. PICK phase \in {"completing", "rearming", "ending"}, next \in Wakes :
         lanes' = [lanes EXCEPT ![k] = [lanes[k] EXCEPT !.phase = phase, !.next = next]]
  <2>1. lanes[k] \in Lane
    OBVIOUS
  <2>2. ASSUME NEW phase, Phase(k, phase)
        PROVE  lanes' = [lanes EXCEPT ![k] = [lanes[k] EXCEPT !.phase = phase, !.next = lanes[k].next]]
    <3>1. [lanes[k] EXCEPT !.phase = phase] = [lanes[k] EXCEPT !.phase = phase, !.next = lanes[k].next]
      BY <2>1 DEF Lane
    <3>2. lanes' = [lanes EXCEPT ![k] = [lanes[k] EXCEPT !.phase = phase]]
      BY <2>2 DEF Phase
    <3> QED BY <3>1, <3>2
  <2>3. lanes[k].next \in Wakes
    BY <2>1 DEF Lane
  <2>4. CASE HandlerReturns(k)
    BY <2>4 DEF HandlerReturns
  <2>5. CASE Phase(k, "rearming") \/ Phase(k, "ending")
    BY <2>2, <2>3, <2>5
  <2> QED BY <2>4, <2>5
      DEF LaneTurn, HandlerThrows, HandlerBlocked, HandlerAborted, Acknowledge, AcknowledgeFails
<1>2. lanes[k].phase # "none"
  BY DEF LaneTurn, HandlerReturns, HandlerThrows, HandlerBlocked, HandlerAborted,
         Acknowledge, AcknowledgeFails
<1>3. /\ lanes'[k] \in Lane /\ lanes'[k].phase # "none"
      /\ lanes'[k].generation = lanes[k].generation /\ lanes'[k].token = lanes[k].token
  <2>1. lanes[k] \in Lane /\ lanes'[k] = [lanes[k] EXCEPT !.phase = phase, !.next = next]
    BY <1>1
  <2> QED BY <2>1 DEF Lane
<1>4. \A j \in Keys \ {k} : lanes'[j] = lanes[j]
  BY <1>1
<1>5. lanes' \in [Keys -> Lane]
  BY <1>1, <1>3
<1>6. Busy(lanes') = Busy(lanes) /\ k \in Busy(lanes)
  BY <1>2, <1>3, <1>4 DEF Busy
<1>7. \A j \in Keys : /\ lanes'[j].generation = lanes[j].generation
                      /\ lanes'[j].token = lanes[j].token
  BY <1>3, <1>4
<1>8. LaneFrame /\ failures' \in {failures, failures + 1}
  BY DEF LaneTurn, HandlerReturns, HandlerThrows, HandlerBlocked, HandlerAborted,
         Acknowledge, AcknowledgeFails
<1> QED BY <1>5, <1>6, <1>7, <1>8

\* So the turns of a lane keep the driver sound.
LEMMA LaneTurnKeeps ==
    ASSUME DriverInv, NEW k \in Keys, LaneTurn(k) PROVE DriverInv'
<1>1. /\ HostSound /\ LoopSound /\ lanes \in [Keys -> Lane] /\ LaneLimit
      /\ DriveSound(drive, lanes)
  BY DEF DriverInv
<1>2. /\ LaneFrame /\ failures' \in {failures, failures + 1}
      /\ lanes' \in [Keys -> Lane] /\ Busy(lanes') = Busy(lanes)
  BY <1>1, LaneTurnMoves
<1>3. HostSound'
  BY <1>1, <1>2 DEF HostSound, LaneFrame
<1>4. LoopSound' /\ drive' = drive
  BY <1>1, <1>2 DEF LoopSound, LaneFrame
<1>5. DriveSound(drive', lanes')
  BY <1>1, <1>2, <1>4 DEF DriveSound
<1> QED BY <1>1, <1>2, <1>3, <1>4, <1>5 DEF DriverInv, LaneLimit

\* A lane that ends is free again.
LEMMA LaneEndsFrees ==
    ASSUME lanes \in [Keys -> Lane], NEW k \in Keys, LaneEnds(k)
    PROVE  /\ lanes' \in [Keys -> Lane]
           /\ Busy(lanes') = Busy(lanes) \ {k}
           /\ \A j \in Keys \ {k} : lanes'[j] = lanes[j]
<1>1. lanes' = [lanes EXCEPT ![k] = NoLane]
  BY DEF LaneEnds
<1>2. NoLane \in Lane /\ NoLane.phase = "none"
  BY RowTypes DEF NoLane, Lane, Wakes
<1>3. lanes'[k].phase = "none" /\ \A j \in Keys \ {k} : lanes'[j] = lanes[j]
  BY <1>1, <1>2
<1> QED BY <1>1, <1>2, <1>3 DEF Busy

\* The steps that ask the loop for something.
LEMMA RequestsKeep ==
    ASSUME DriverInv,
           \/ \E k \in Keys : LaneEnds(k)
           \/ WakeTimerFires \/ RetryTimerFires \/ NotifyChanged
    PROVE  DriverInv'
<1>0. /\ HostSound /\ LoopSound /\ lanes \in [Keys -> Lane] /\ LaneLimit
      /\ DriveSound(drive, lanes) /\ drive \in Drive /\ NoTimer \in Timer
      /\ stopped \in BOOLEAN /\ adopted \in BOOLEAN
      /\ fireRequested \in BOOLEAN /\ refreshRequested \in BOOLEAN
  BY TimerShapes DEF DriverInv, HostSound, LoopSound
<1>1. ASSUME NEW k \in Keys, LaneEnds(k) PROVE DriverInv'
  <2>1. /\ lanes' \in [Keys -> Lane] /\ Busy(lanes') \subseteq Busy(lanes)
    BY <1>0, <1>1, LaneEndsFrees
  <2>2. DriveSound(drive, lanes') /\ Cardinality(Busy(lanes')) <= Cardinality(Busy(lanes))
    BY <1>0, <2>1, FewerLanes, FewerBusy
  <2>3. /\ drive' \in Drive /\ DriveSound(drive', lanes')
        /\ fireRequested' \in BOOLEAN /\ refreshRequested' \in BOOLEAN
        /\ timer' \in {timer, NoTimer}
    BY <1>0, <1>1, <2>2, RequestRefreshSound DEF LaneEnds
  <2>4. LaneLimit'
    BY <1>0, <2>2, Lanes, ConcurrencyAssumption DEF LaneLimit
  <2>5. UNCHANGED <<now, worker, spent, stopped, adopted, failureRetry, unnotified, failures>>
    BY <1>1 DEF LaneEnds
  <2> QED BY <1>0, <2>1, <2>3, <2>4, <2>5 DEF DriverInv, HostSound, LoopSound
<1>2. ASSUME NEW fire \in BOOLEAN, NEW refresh \in BOOLEAN, NEW t \in Timer, NEW retry,
             Kick(lanes, fire, refresh, t, retry), failureRetry' \in {"none", failureRetry},
             UNCHANGED <<now, worker, spent, stopped, adopted, lanes, unnotified, failures>>
      PROVE  DriverInv'
  <2>1. /\ drive' \in Drive /\ DriveSound(drive', lanes)
        /\ fireRequested' \in BOOLEAN /\ refreshRequested' \in BOOLEAN
        /\ timer' \in {t, NoTimer}
    BY <1>0, <1>2, KickSound
  <2> QED BY <1>0, <1>2, <2>1 DEF DriverInv, HostSound, LoopSound, LaneLimit
<1>3. CASE WakeTimerFires
  <2> DEFINE yes == TRUE
  <2>1. /\ Kick(lanes, yes, refreshRequested, NoTimer, failureRetry)
        /\ UNCHANGED <<now, worker, spent, stopped, adopted, failureRetry, lanes,
                       unnotified, failures>>
    BY <1>3, Zenon DEF WakeTimerFires
  <2>2. yes \in BOOLEAN
    OBVIOUS
  <2> HIDE DEF yes
  <2> QED BY <1>0, <1>2, <2>1, <2>2
<1>4. CASE RetryTimerFires
  <2> DEFINE fire == fireRequested \/ failureRetry = "fire"
             refresh == refreshRequested \/ failureRetry = "refresh"
             none == "none"
  <2>1. /\ Kick(lanes, fire, refresh, NoTimer, none) /\ failureRetry' = "none"
        /\ UNCHANGED <<now, worker, spent, stopped, adopted, lanes, unnotified, failures>>
    BY <1>4, Zenon DEF RetryTimerFires
  <2>2. fire \in BOOLEAN /\ refresh \in BOOLEAN
    OBVIOUS
  <2> HIDE DEF fire, refresh, none
  <2> QED BY <1>0, <1>2, <2>1, <2>2
<1>5. CASE NotifyChanged
  <2>1. RequestRefresh(lanes) /\ unnotified' = FALSE
        /\ UNCHANGED <<now, worker, spent, stopped, adopted, failureRetry, lanes, failures>>
    BY <1>5 DEF NotifyChanged
  <2>2. /\ drive' \in Drive /\ DriveSound(drive', lanes)
        /\ fireRequested' \in BOOLEAN /\ refreshRequested' \in BOOLEAN
        /\ timer' \in {timer, NoTimer}
    BY <1>0, <2>1, RequestRefreshSound
  <2> QED BY <1>0, <2>1, <2>2 DEF DriverInv, HostSound, LoopSound, LaneLimit
<1> QED BY <1>1, <1>3, <1>4, <1>5

\* The driver starts, stops, and is replaced.
LEMMA LifecycleKeeps ==
    ASSUME DriverInv, Start \/ Stop \/ Restart PROVE DriverInv'
<1>0. /\ HostSound /\ LoopSound /\ lanes \in [Keys -> Lane] /\ LaneLimit
      /\ DriveSound(drive, lanes) /\ drive \in Drive /\ NoTimer \in Timer
  BY TimerShapes DEF DriverInv, LoopSound
<1>1. CASE Start
  <2>1. /\ drive' = Sent("refresh", "adopt", lanes) /\ timer' = timer
        /\ fireRequested' = FALSE /\ refreshRequested' = FALSE
        /\ stopped' = FALSE /\ adopted' = FALSE
        /\ spent' = spent \cup {worker}
        /\ UNCHANGED <<now, worker, failureRetry, lanes, unnotified, failures>>
    BY <1>1 DEF Start, Rest
  <2>2. /\ drive' \in Drive /\ drive'.call = "adopt" /\ drive'.op = "refresh"
        /\ drive'.state = "sent" /\ drive'.due = {}
    BY <2>1, SentShape
  <2>3. DueKeys(drive') = {}
    BY <2>2 DEF DueKeys
  <2>4. DriveSound(drive', lanes')
    BY <2>2, <2>3 DEF DriveSound
  <2> QED BY <1>0, <2>1, <2>2, <2>4 DEF DriverInv, HostSound, LoopSound, LaneLimit
<1>2. CASE Stop
  <2>1. /\ drive' = drive /\ timer' = NoTimer /\ failureRetry' = "none"
        /\ fireRequested' = FALSE /\ refreshRequested' = FALSE /\ stopped' = TRUE
        /\ lanes' = [k \in Keys |-> IF lanes[k].phase = "dispatching"
                                    THEN [lanes[k] EXCEPT !.aborted = TRUE] ELSE lanes[k]]
        /\ UNCHANGED <<now, worker, spent, adopted, unnotified, failures>>
    BY <1>2 DEF Stop, Rest
  <2>2. ASSUME NEW k \in Keys PROVE lanes'[k] \in Lane /\ lanes'[k].phase = lanes[k].phase
    BY <1>0, <2>1 DEF Lane
  <2>3. lanes' \in [Keys -> Lane] /\ Busy(lanes') = Busy(lanes)
    BY <2>1, <2>2 DEF Busy
  <2>4. DriveSound(drive', lanes')
    BY <1>0, <2>1, <2>3 DEF DriveSound
  <2> QED BY <1>0, <2>1, <2>3, <2>4 DEF DriverInv, HostSound, LoopSound, LaneLimit
<1>3. CASE Restart
  <2>1. /\ drive' = Idle /\ timer' = NoTimer /\ failureRetry' = "none"
        /\ fireRequested' = FALSE /\ refreshRequested' = FALSE
        /\ stopped' = TRUE /\ adopted' = FALSE /\ unnotified' = FALSE
        /\ lanes' = [k \in Keys |-> NoLane] /\ worker' \in Workers
        /\ UNCHANGED <<now, spent, failures>>
    BY <1>3 DEF Restart, Rest
  <2>2. NoLane \in Lane /\ NoLane.phase = "none"
    BY RowTypes DEF NoLane, Lane, Wakes
  <2>3. lanes' \in [Keys -> Lane] /\ Busy(lanes') = {}
    BY <2>1, <2>2 DEF Busy
  <2>4. DueKeys(Idle) = {}
    BY SentShape DEF DueKeys
  <2>5. drive' \in Drive /\ DriveSound(drive', lanes')
    BY <2>1, <2>4, SentShape DEF DriveSound
  <2>6. LaneLimit'
    BY <2>3, FS_EmptySet, ConcurrencyAssumption DEF LaneLimit
  <2> QED BY <1>0, <2>1, <2>3, <2>5, <2>6 DEF DriverInv, HostSound, LoopSound
<1> QED BY <1>1, <1>2, <1>3

\* Time passes, and the store's other clients act.
LEMMA OthersKeep ==
    ASSUME DriverInv, Tick \/ \E k \in Keys : ClientMutates(k) \/ EntityChanges(k)
    PROVE  DriverInv'
<1>1. /\ UNCHANGED <<worker, spent, stopped, adopted, timer, refreshRequested,
                     fireRequested, failureRetry, drive, lanes, failures>>
      /\ unnotified' \in {unnotified, TRUE} /\ now' \in Times
  <2>1. now \in Times
    BY DEF DriverInv, HostSound
  <2>2. CASE Tick
    <3>1. now' \in Times
      BY <2>1, <2>2, BoundsNat DEF Tick, Times
    <3> QED BY <2>2, <3>1 DEF Tick
  <2>3. CASE \E k \in Keys : ClientMutates(k)
    BY <2>1, <2>3 DEF ClientMutates
  <2>4. CASE \E k \in Keys : EntityChanges(k)
    BY <2>1, <2>4 DEF EntityChanges, schedulerVars
  <2> QED BY <2>2, <2>3, <2>4
<1> QED BY <1>1 DEF DriverInv, HostSound, LoopSound, LaneLimit

\* A driver that was never started is sound.
LEMMA DriverInit == Init => DriverInv
<1> SUFFICES ASSUME Init PROVE DriverInv
  OBVIOUS
<1>1. NoLane \in Lane /\ NoLane.phase = "none"
  BY RowTypes DEF NoLane, Lane, Wakes
<1>2. lanes \in [Keys -> Lane] /\ Busy(lanes) = {}
  BY <1>1 DEF Init, Busy
<1>3. LaneLimit
  BY <1>2, FS_EmptySet, ConcurrencyAssumption DEF LaneLimit
<1>4. DueKeys(Idle) = {}
  BY SentShape DEF DueKeys
<1>5. drive \in Drive /\ DriveSound(drive, lanes)
  BY <1>4, SentShape DEF Init, DriveSound
<1>6. 0 \in Times
  BY RowWakes
<1> QED BY <1>2, <1>3, <1>5, <1>6, TimerShapes DEF Init, DriverInv, HostSound, LoopSound

\* Every step keeps the driver sound.
LEMMA DriverStep ==
    ASSUME StoreInv, BoundedInv, DriverInv, [Next]_vars PROVE DriverInv'
<1>1. CASE UNCHANGED vars
  BY <1>1 DEF vars, schedulerVars, DriverInv, HostSound, LoopSound, LaneLimit
<1>2. CASE DriveStep \/ CallFails
  BY <1>2, ExecuteKeeps, AdoptAnsweredKeeps, PeekAnsweredKeeps, ClaimAnsweredKeeps,
     DriveSettlesKeeps, CallFailsKeeps
  DEF DriveStep
<1>3. CASE \E k \in Keys : LaneStep(k)
  BY <1>3, LaneTurnKeeps, RequestsKeep DEF LaneStep, LaneTurn
<1>4. CASE WakeTimerFires \/ RetryTimerFires \/ NotifyChanged
  BY <1>4, RequestsKeep
<1>5. CASE Start \/ Stop \/ Restart
  BY <1>5, LifecycleKeeps
<1>6. CASE Tick \/ \E k \in Keys : ClientMutates(k) \/ EntityChanges(k)
  BY <1>6, OthersKeep
<1> QED BY <1>1, <1>2, <1>3, <1>4, <1>5, <1>6 DEF Next

-----------------------------------------------------------------------------
(* Every step of the scheduler is a step of the store, or leaves it alone *)

\* A registered key's incarnation is one the store's callers can name.
LEMMA RegisteredIncarnation ==
    ASSUME StoreInv, BoundedInv, NEW k \in Keys, Registered(k)
    PROVE  sources[k].incarnation \in 1 .. MaxIncarnation
<1>1. sources[k] \in SourceRow /\ Bounded(k)
  BY DEF StoreInv, StoreTypeOK, BoundedInv
<1>2. sources[k].incarnation \in Nat /\ sources[k].incarnation # 0
  BY <1>1 DEF SourceRow, Registered
<1> QED BY <1>1, <1>2, BoundsNat DEF Bounded

\* A live claim's generation is within the bound.
LEMMA OwnedGeneration ==
    ASSUME StoreInv, BoundedInv, NEW k \in Keys, NEW w \in Workers, NEW g, Owns(k, w, g)
    PROVE  g \in 1 .. MaxClaim /\ Active(k) /\ activeWorker = w
<1>1. /\ KeyInv(k) /\ Bounded(k) /\ alarms[k] \in AlarmRow /\ claimCounter[k] \in Nat
  BY DEF StoreInv, StoreTypeOK, BoundedInv
<1>2. g = alarms[k].generation /\ g \in Nat /\ alarms[k].owner = w
  BY <1>1 DEF Owns, AlarmRow
<1>3. w # NoOwner
  BY NoOwnerAssumption
<1>4. g >= 1 /\ g <= claimCounter[k] /\ claimCounter[k] <= MaxClaim
  BY <1>1, <1>2, <1>3 DEF KeyInv, Bounded
<1> QED BY <1>1, <1>2, <1>3, <1>4, BoundsNat DEF KeyInv

\* A request whose capture is acknowledged names a registered incarnation.
LEMMA CapturedToken ==
    ASSUME StoreInv, BoundedInv, NEW k \in Keys, NEW token \in WakeToken, NEW g,
           AcknowledgementAccepted(k, token, g), token # NoToken
    PROVE  \E i \in 1 .. MaxIncarnation, r \in 1 .. MaxRequest :
              token = [incarnation |-> i, generation |-> r]
<1>1. KeyInv(k) /\ Bounded(k) /\ requests[k] \in RequestRow
  BY DEF StoreInv, StoreTypeOK, BoundedInv
<1>2. /\ token.incarnation = requests[k].incarnation
      /\ requests[k].claimed # 0 /\ token.generation = requests[k].claimed
  BY DEF AcknowledgementAccepted
<1>3. requests[k] # NoRequest
  BY <1>2, EmptyRows
<1>4. token.incarnation \in 1 .. MaxIncarnation
  BY <1>1, <1>2, <1>3, RegisteredIncarnation DEF Bounded, KeyInv
<1>5. token.generation \in 1 .. MaxRequest
  BY <1>1, <1>2, BoundsNat DEF Bounded, KeyInv, RequestRow
<1>6. token = [incarnation |-> token.incarnation, generation |-> token.generation]
  BY DEF WakeToken
<1> QED BY <1>4, <1>5, <1>6

\* A lane's acknowledgement is one of the store's fenced settlements.
LEMMA AcknowledgeSettles ==
    ASSUME StoreInv, BoundedInv, DriverInv, NEW k \in Keys, Acknowledge(k)
    PROVE  UNCHANGED storeVars \/ \E g \in 1 .. MaxClaim : ClaimStep(k, worker, g)
<1>1. lanes[k] \in Lane /\ worker \in Workers /\ now \in Times
  BY DEF DriverInv, HostSound
<1> DEFINE g == lanes[k].generation
           token == lanes[k].token
<1>2. CASE Owns(k, worker, g) /\ AlarmSetClaimed(k, worker, g, Later)
  <2>1. Later \in Times
    BY <1>1, BoundsNat DEF Later, Times
  <2>2. g \in 1 .. MaxClaim
    BY <1>1, <1>2, OwnedGeneration
  <2>3. ClaimStep(k, worker, g)
    BY <1>2, <2>1 DEF ClaimStep
  <2> QED BY <2>2, <2>3
<1>3. CASE CanComplete(k) /\ AlarmComplete(k, worker, g, token, lanes[k].next, FALSE)
  <2>1. g \in 1 .. MaxClaim
    BY <1>1, <1>3, OwnedGeneration DEF AlarmComplete
  <2>2. token \in WakeToken /\ lanes[k].next \in Wakes
    BY <1>1 DEF Lane
  <2>3. AcknowledgementAccepted(k, token, g)
    BY <1>3 DEF CanComplete
  <2>4. ClaimStep(k, worker, g)
    <3>1. CASE token = NoToken
      BY <1>3, <2>2, <3>1 DEF ClaimStep
    <3>2. CASE token # NoToken
      <4>1. PICK i \in 1 .. MaxIncarnation, r \in 1 .. MaxRequest :
               token = [incarnation |-> i, generation |-> r]
        BY <2>2, <2>3, <3>2, CapturedToken
      <4>2. AlarmComplete(k, worker, g, [incarnation |-> i, generation |-> r], lanes[k].next, FALSE)
        BY <1>3, <4>1
      <4> QED BY <2>2, <4>2 DEF ClaimStep
    <3> QED BY <3>1, <3>2
  <2> QED BY <2>1, <2>4
<1> QED BY <1>2, <1>3, Zenon DEF Acknowledge

\* A client's call is a publication, a request or a fresh scheduling decision.
LEMMA MutateSteps ==
    ASSUME StoreInv, BoundedInv, NEW k \in Keys, Mutate(k)
    PROVE  SourceStep(k) \/ AlarmStep(k)
<1>1. CASE \E t \in Times : AlarmSet(k, t, FALSE)
  BY <1>1 DEF AlarmStep
<1>2. ASSUME NEW t \in Wakes, sources[k].revision < MaxRevision,
             PublishAccepted(k, sources[k].incarnation, sources[k].revision + 1, t)
      PROVE  SourceStep(k)
  <2>1. sources[k].incarnation \in 1 .. MaxIncarnation
    BY <1>2, RegisteredIncarnation DEF PublishAccepted
  <2>2. sources[k].revision \in Nat \cup {-1}
    BY DEF StoreInv, StoreTypeOK, SourceRow
  <2>3. sources[k].revision + 1 \in 0 .. MaxRevision
    BY <1>2, <2>2, BoundsNat
  <2> QED BY <1>2, <2>1, <2>3 DEF SourceStep
<1>3. CASE WakeRequest(k, sources[k].incarnation)
  <2>1. sources[k].incarnation \in 1 .. MaxIncarnation
    BY <1>3, RegisteredIncarnation DEF WakeRequest
  <2> QED BY <1>3, <2>1 DEF SourceStep
<1> QED BY <1>1, <1>2, <1>3 DEF Mutate, SourceStep, AlarmStep

\* A claim takes due rows nobody holds, of keys that have no lane, and the
\* selection is one the store offers.
LEMMA ClaimSelects ==
    ASSUME StoreInv, DriverInv, drive.call = "claim",
           NEW S \in SoonestDue(now, drive.limit, drive.exclude), AlarmClaimDue(worker, S)
    PROVE  /\ S \in SUBSET Keys /\ \A k \in S : k \notin Busy(lanes) /\ Scheduled(k)
           /\ UNCHANGED storeVars \/ SchedulerStep(worker)
<1>1. /\ drive \in Drive /\ DriveSound(drive, lanes) /\ now \in Times /\ worker \in Workers
      /\ drive.limit \in Int /\ drive.limit >= 1 /\ drive.exclude \in SUBSET Keys
      /\ Busy(lanes) \subseteq drive.exclude
  BY DEF DriverInv, HostSound, LoopSound, DriveSound, Drive
<1> DEFINE due == DueRows(now, drive.exclude)
<1>2. /\ S \in SUBSET due /\ due \in SUBSET Keys
      /\ \A k \in due : k \notin drive.exclude /\ Scheduled(k)
  BY DEF SoonestDue, DueRows, Unclaimed
<1>3. S \in SUBSET Keys /\ \A k \in S : k \notin Busy(lanes) /\ Scheduled(k)
  BY <1>1, <1>2
<1>4. CASE S = {}
  <2>1. /\ claimCounter' = [k \in Keys |-> claimCounter[k]]
        /\ alarms' = [k \in Keys |-> alarms[k]]
        /\ requests' = [k \in Keys |-> requests[k]]
    BY <1>4 DEF AlarmClaimDue
  <2>2. UNCHANGED <<alarms, requests, claimCounter>>
    BY <2>1 DEF StoreInv, StoreTypeOK
  <2>3. UNCHANGED <<entity, policies, activeWorker, sources>>
    BY DEF AlarmClaimDue
  <2> QED BY <1>3, <2>2, <2>3 DEF storeVars
<1>5. CASE S # {}
  <2>1. IsFiniteSet(Keys) /\ Cardinality(Keys) \in Nat /\ Cardinality(Keys) # 0
    BY <1>3, <1>5, KeysAssumption, FS_CardinalityType, FS_EmptySet
  <2>2. \E limit \in 1 .. Cardinality(Keys) : S \in SoonestDue(now, limit, drive.exclude)
    <3>1. CASE drive.limit <= Cardinality(Keys)
      <4>1. drive.limit \in 1 .. Cardinality(Keys)
        BY <1>1, <2>1, <3>1
      <4> QED BY <4>1
    <3>2. CASE drive.limit > Cardinality(Keys)
      <4>1. IsFiniteSet(S) /\ Cardinality(S) <= Cardinality(Keys) /\ Cardinality(S) \in Nat
        BY <1>3, <2>1, FS_Subset, FS_CardinalityType
      <4>2. S = due
        <5>1. Cardinality(S) # drive.limit
          BY <1>1, <2>1, <3>2, <4>1
        <5> QED BY <5>1 DEF SoonestDue
      <4>3. S \in SoonestDue(now, Cardinality(Keys), drive.exclude)
        BY <4>1, <4>2 DEF SoonestDue
      <4>4. Cardinality(Keys) \in 1 .. Cardinality(Keys)
        BY <2>1
      <4> QED BY <4>3, <4>4
    <3> QED BY <1>1, <2>1, <3>1, <3>2
  <2>3. SchedulerStep(worker)
    BY <1>1, <2>2 DEF SchedulerStep
  <2> QED BY <1>3, <2>3
<1> QED BY <1>4, <1>5

\* What a step of the scheduler does to the store.
LEMMA StoreSteps ==
    ASSUME StoreInv, BoundedInv, DriverInv, [Next]_vars
    PROVE  \/ UNCHANGED storeVars
           \/ ExecuteAdopt /\ AlarmAdoptWorker(worker)
           \/ ExecuteClaim /\ \E S \in SoonestDue(now, drive.limit, drive.exclude) :
                                AlarmClaimDue(worker, S)
           \/ \E k \in Keys, g \in 1 .. MaxClaim : Acknowledge(k) /\ ClaimStep(k, worker, g)
           \/ \E k \in Keys : ClientMutates(k) /\ (SourceStep(k) \/ AlarmStep(k))
           \/ \E k \in Keys : EntityChanges(k) /\ EntityStep(k)
<1>1. CASE UNCHANGED vars \/ Start \/ Stop \/ Restart \/ Tick
           \/ WakeTimerFires \/ RetryTimerFires \/ NotifyChanged
           \/ ExecutePeek \/ AdoptAnswered \/ PeekAnswered \/ ClaimAnswered \/ DriveSettles
           \/ CallFails
  BY <1>1
  DEF vars, Start, Stop, Restart, Tick, WakeTimerFires, RetryTimerFires, NotifyChanged,
      ExecutePeek, AdoptAnswered, PeekAnswered, ClaimAnswered, DriveSettles, CallFails
<1>2. CASE \E k \in Keys : \/ HandlerReturns(k) \/ HandlerThrows(k) \/ HandlerBlocked(k)
                           \/ HandlerAborted(k) \/ AcknowledgeFails(k) \/ LaneEnds(k)
  BY <1>2
  DEF HandlerReturns, HandlerThrows, HandlerBlocked, HandlerAborted, AcknowledgeFails, LaneEnds
<1>3. CASE ExecuteAdopt
  BY <1>3 DEF ExecuteAdopt
<1>4. CASE ExecuteClaim
  BY <1>4, Zenon DEF ExecuteClaim
<1>5. CASE \E k \in Keys : Acknowledge(k)
  BY <1>5, AcknowledgeSettles
<1>6. CASE \E k \in Keys : ClientMutates(k)
  BY <1>6, MutateSteps DEF ClientMutates
<1>7. CASE \E k \in Keys : EntityChanges(k)
  BY <1>7 DEF EntityChanges
<1> QED BY <1>1, <1>2, <1>3, <1>4, <1>5, <1>6, <1>7, Zenon DEF Next, DriveStep, LaneStep

\* The scheduler takes the store's steps only.
LEMMA SchedulerRefines ==
    ASSUME StoreInv, BoundedInv, DriverInv, [Next]_vars
    PROVE  [StoreNext]_storeVars
<1>1. worker \in Workers
  BY DEF DriverInv, HostSound
<1>2. CASE ExecuteClaim /\ \E S \in SoonestDue(now, drive.limit, drive.exclude) :
                                AlarmClaimDue(worker, S)
  <2>1. drive.call = "claim"
    BY <1>2 DEF ExecuteClaim, InCall
  <2>2. UNCHANGED storeVars \/ SchedulerStep(worker)
    BY <1>2, <2>1, ClaimSelects
  <2> QED BY <1>1, <2>2 DEF StoreNext
<1>3. CASE ExecuteAdopt /\ AlarmAdoptWorker(worker)
  BY <1>1, <1>3 DEF StoreNext, SchedulerStep
<1>4. CASE \E k \in Keys, g \in 1 .. MaxClaim : Acknowledge(k) /\ ClaimStep(k, worker, g)
  BY <1>1, <1>4 DEF StoreNext
<1>5. CASE \E k \in Keys : EntityStep(k) \/ SourceStep(k) \/ AlarmStep(k)
  BY <1>5 DEF StoreNext
<1> QED BY <1>2, <1>3, <1>4, <1>5, StoreSteps

\* Every step but a claim keeps every claim; a claim keeps those it does not make.
LEMMA ClaimsKept ==
    ASSUME StoreInv, BoundedInv, DriverInv, [Next]_vars
    PROVE  /\ BoundedInv'
           /\ \/ \A j \in Keys : ClaimKept(j)
              \/ ExecuteClaim
<1>1. worker \in Workers
  BY DEF DriverInv, HostSound
<1>2. CASE UNCHANGED storeVars
  BY <1>2 DEF storeVars, BoundedInv, Bounded, Registered, ClaimKept
<1>3. CASE ExecuteAdopt /\ AlarmAdoptWorker(worker)
  BY <1>3, AdoptKept
<1>4. CASE ExecuteClaim /\ \E S \in SoonestDue(now, drive.limit, drive.exclude) :
                                AlarmClaimDue(worker, S)
  <2>1. \A S \in SoonestDue(now, drive.limit, drive.exclude) : S \in SUBSET Keys
    BY DEF SoonestDue, DueRows, Unclaimed
  <2> QED BY <1>4, <2>1, ClaimDueKept
<1>5. CASE \E k \in Keys, g \in 1 .. MaxClaim : Acknowledge(k) /\ ClaimStep(k, worker, g)
  BY <1>1, <1>5, ClaimStepKept
<1>6. CASE \E k \in Keys : SourceStep(k) \/ AlarmStep(k)
  BY <1>6, SourceStepKept, AlarmStepKept
<1>7. CASE \E k \in Keys : EntityStep(k)
  BY <1>7, EntityStepKept
<1> QED BY <1>2, <1>3, <1>4, <1>5, <1>6, <1>7, StoreSteps

\* The empty store is within its bounds.
LEMMA BoundedInit == Init => BoundedInv
<1> SUFFICES ASSUME Init, NEW k \in Keys PROVE Bounded(k)
  BY DEF BoundedInv
<1>1. /\ alarms[k] = NoRow /\ sources[k] = NoSource /\ requests[k] = NoRequest
      /\ claimCounter[k] = 0
  BY DEF Init, StoreInit
<1> QED BY <1>1, RowWakes, EmptyRows, BoundsNat DEF Bounded

\* The invariant of the composition, without what it says of wake-ups and claims.
SchedulerBase == StoreInv /\ BoundedInv /\ DriverInv

\* It holds initially,
LEMMA SchedulerBaseInit == Init => SchedulerBase
<1>1. Init => StoreInv
  BY StoreInvInit DEF Init
<1> QED BY <1>1, BoundedInit, DriverInit DEF SchedulerBase

\* every step keeps it,
LEMMA SchedulerBaseStep == SchedulerBase /\ [Next]_vars => SchedulerBase'
<1> SUFFICES ASSUME SchedulerBase, [Next]_vars PROVE SchedulerBase'
  OBVIOUS
<1>1. StoreInv /\ BoundedInv /\ DriverInv
  BY DEF SchedulerBase
<1>2. StoreInv'
  BY <1>1, SchedulerRefines, StoreInvStep
<1>3. BoundedInv'
  BY <1>1, ClaimsKept
<1>4. DriverInv'
  BY <1>1, DriverStep
<1> QED BY <1>2, <1>3, <1>4 DEF SchedulerBase

\* and so it always holds.
LEMMA SchedulerBaseInvariance == Spec => []SchedulerBase
  BY SchedulerBaseInit, SchedulerBaseStep, PTL DEF Spec

\* The driver, its clients and the crashes of the host only ever take steps
\* the store offers its callers: whatever is proved of the store under
\* arbitrary callers holds of the composed system.
THEOREM SchedulerImplementsStore == Spec => StoreSpec
<1>1. Init => StoreInit
  BY DEF Init
<1>2. SchedulerBase /\ [Next]_vars => [StoreNext]_storeVars
  BY SchedulerRefines DEF SchedulerBase
<1> QED BY <1>1, <1>2, SchedulerBaseInvariance, PTL DEF Spec, StoreSpec

-----------------------------------------------------------------------------
(* No request for the loop is dropped *)

\* A retry timer belongs to a failed operation.
RetryInv == timer.kind = "retry" => failureRetry # "none"

\* A driver that is not driving has nothing asked of it, or waits for its retry.
RestsUnasked ==
    ~stopped /\ ~Driving /\ (fireRequested \/ refreshRequested) => failureRetry # "none"

\* The loop never rests in a driver that is not driving.
LEMMA RestedDrives ==
    ASSUME NEW l, NEW fire, NEW refresh, NEW t, Rested(l, fire, refresh, t)
    PROVE  /\ Driving'
           /\ drive' = Returned \/ drive'.state = "sent"
           /\ drive' = Returned \/ drive'.call = "adopt" \/ drive'.op = "fire" \/ drive'.call = "peek"
<1>1. CASE drive' = Returned
  BY <1>1, SentShape DEF Driving
<1>2. CASE drive' \in Resumed(l)
  BY <1>2, SentShape DEF Resumed, Driving
<1> QED BY <1>1, <1>2 DEF Rested

\* Steps that run the loop, or ask it to run.
LEMMA RestedUnasked ==
    ASSUME NEW l, NEW fire, NEW refresh, NEW t, Rested(l, fire, refresh, t),
           stopped' = stopped, t.kind = "retry" => failureRetry' # "none"
    PROVE  RestsUnasked' /\ RetryInv'
<1>1. NoTimer.kind = "none"
  BY DEF NoTimer
<1>2. RetryInv'
  BY <1>1 DEF Rested, RetryInv
<1>3. RestsUnasked'
  BY RestedDrives DEF RestsUnasked
<1> QED BY <1>2, <1>3

\* So a kick drops no request.
LEMMA KickUnasked ==
    ASSUME NEW l, NEW fire \in BOOLEAN, NEW refresh \in BOOLEAN, NEW t, NEW retry,
           stopped \in BOOLEAN, adopted \in BOOLEAN, Kick(l, fire, refresh, t, retry),
           stopped' = stopped, failureRetry' = retry, t.kind = "retry" => retry # "none"
    PROVE  RestsUnasked' /\ RetryInv'
<1>1. CASE /\ stopped \/ Driving \/ retry # "none"
           /\ Rest(drive, fire, refresh, t)
  BY <1>1 DEF Rest, RestsUnasked, RetryInv, Driving
<1>2. CASE Rested(l, fire, refresh, t)
  BY <1>2, RestedUnasked
<1> QED BY <1>1, <1>2, KickRests

\* Neither does requestRefresh.
LEMMA RequestRefreshUnasked ==
    ASSUME NEW l, RequestRefresh(l), DriverInv, RestsUnasked, RetryInv,
           UNCHANGED <<stopped, failureRetry>>
    PROVE  RestsUnasked' /\ RetryInv'
<1>0. stopped \in BOOLEAN /\ adopted \in BOOLEAN /\ fireRequested \in BOOLEAN
  BY DEF DriverInv, HostSound, LoopSound
<1>1. CASE stopped
  BY <1>1 DEF RequestRefresh, RestsUnasked, RetryInv, Driving
<1>2. CASE ~stopped
  <2> DEFINE asked == TRUE
  <2>1. Kick(l, fireRequested, asked, timer, failureRetry) /\ asked \in BOOLEAN
    BY <1>2, Zenon DEF RequestRefresh
  <2> HIDE DEF asked
  <2> QED BY <1>0, <2>1, KickUnasked DEF RetryInv
<1> QED BY <1>1, <1>2

\* The store's answer leaves the driver in its call.
LEMMA ExecuteAnswers ==
    ASSUME drive \in Drive, ExecuteAdopt \/ ExecutePeek \/ ExecuteClaim
    PROVE  /\ drive'.call = drive.call /\ drive.call # "none" /\ drive'.op = drive.op
           /\ drive'.state = "executed" /\ drive'.exclude = drive.exclude
           /\ ExecutePeek => drive'.next = NextWakeAt(drive.exclude)
           /\ UNCHANGED <<now, worker, spent, stopped, adopted, timer, refreshRequested,
                          fireRequested, failureRetry, lanes, unnotified, failures>>
<1>1. drive.call # "none"
  BY DEF ExecuteAdopt, ExecutePeek, ExecuteClaim, InCall
<1>2. UNCHANGED <<now, worker, spent, stopped, adopted, timer, refreshRequested,
                  fireRequested, failureRetry, lanes, unnotified, failures>>
  BY DEF ExecuteAdopt, ExecutePeek, ExecuteClaim
<1>3. \E next, due :
         /\ drive' = [[drive EXCEPT !.next = next, !.due = due] EXCEPT !.state = "executed"]
         /\ ExecutePeek => next = NextWakeAt(drive.exclude)
  <2>1. CASE ExecuteAdopt
    <3>1. drive' = [drive EXCEPT !.state = "executed"] /\ drive.call = "adopt"
      BY <2>1, Zenon DEF ExecuteAdopt, Answered, InCall
    <3>2. drive = [drive EXCEPT !.next = drive.next, !.due = drive.due]
      BY DEF Drive
    <3>3. ~ExecutePeek
      BY <3>1 DEF ExecutePeek, InCall
    <3> QED BY <3>1, <3>2, <3>3
  <2>2. CASE ExecutePeek
    <3>1. drive' = [[drive EXCEPT !.next = NextWakeAt(drive.exclude)] EXCEPT !.state = "executed"]
      BY <2>2, Zenon DEF ExecutePeek, Answered
    <3> DEFINE told == NextWakeAt(drive.exclude)
    <3>2. [drive EXCEPT !.next = told] = [drive EXCEPT !.next = told, !.due = drive.due]
      BY DEF Drive
    <3> QED BY <3>1, <3>2
  <2>3. CASE ExecuteClaim
    <3>1. PICK due : drive' = [[drive EXCEPT !.due = due] EXCEPT !.state = "executed"]
      BY <2>3, Zenon DEF ExecuteClaim, Answered
    <3>2. [drive EXCEPT !.due = due] = [drive EXCEPT !.next = drive.next, !.due = due]
      BY DEF Drive
    <3>3. ~ExecutePeek
      BY <2>3 DEF ExecuteClaim, ExecutePeek, InCall
    <3> QED BY <3>1, <3>2, <3>3
  <2> QED BY <2>1, <2>2, <2>3
<1>4. PICK next, due :
         /\ drive' = [[drive EXCEPT !.next = next, !.due = due] EXCEPT !.state = "executed"]
         /\ ExecutePeek => next = NextWakeAt(drive.exclude)
  BY <1>3
<1>5. /\ drive'.call = drive.call /\ drive'.state = "executed" /\ drive'.op = drive.op
      /\ drive'.exclude = drive.exclude /\ drive'.next = next
  BY <1>4 DEF Drive
<1> QED BY <1>1, <1>2, <1>4, <1>5

\* Every step leaves a request to an operation in flight or to the retry.
LEMMA RequestsStep ==
    ASSUME StoreInv, BoundedInv, DriverInv, RestsUnasked, RetryInv, [Next]_vars
    PROVE  RestsUnasked' /\ RetryInv'
<1>0. /\ HostSound /\ LoopSound /\ lanes \in [Keys -> Lane] /\ drive \in Drive
      /\ stopped \in BOOLEAN /\ adopted \in BOOLEAN
      /\ fireRequested \in BOOLEAN /\ refreshRequested \in BOOLEAN
  BY DEF DriverInv, HostSound, LoopSound
<1>k. NoTimer.kind = "none" /\ RetryTimer.kind = "retry" /\ \A t : WakeTimer(t).kind = "wake"
  BY DEF NoTimer, RetryTimer, WakeTimer
<1>1. CASE UNCHANGED vars \/ Tick \/ \E k \in Keys : ClientMutates(k) \/ EntityChanges(k)
  BY <1>1
  DEF vars, schedulerVars, Tick, ClientMutates, EntityChanges, RestsUnasked, RetryInv, Driving
<1>2. CASE \E k \in Keys : LaneTurn(k)
  <2>1. LaneFrame
    BY <1>0, <1>2, LaneTurnMoves
  <2> QED BY <2>1 DEF LaneFrame, RestsUnasked, RetryInv, Driving
<1>3. CASE ExecuteAdopt \/ ExecutePeek \/ ExecuteClaim
  BY <1>0, <1>3, ExecuteAnswers, SentShape DEF RestsUnasked, RetryInv, Driving
<1>4. CASE AdoptAnswered
  <2>1. PICK fire \in BOOLEAN, refresh \in BOOLEAN, t \in {timer, NoTimer} :
           Rested(lanes, fire, refresh, t)
    BY <1>0, <1>4, AdoptRests
  <2>2. stopped' = stopped /\ failureRetry' = failureRetry
    BY <1>4 DEF AdoptAnswered
  <2>3. t.kind = "retry" => failureRetry' # "none"
    BY <1>k, <2>2 DEF RetryInv
  <2> QED BY <2>1, <2>2, <2>3, RestedUnasked
<1>5. CASE PeekAnswered
  <2> DEFINE t == IF stopped THEN timer
                  ELSE IF drive.next = Never THEN NoTimer ELSE WakeTimer(drive.next)
  <2>1. /\ Loop(lanes, adopted, fireRequested, refreshRequested, t)
        /\ stopped' = stopped /\ failureRetry' = failureRetry
    BY <1>5 DEF PeekAnswered
  <2>2. t.kind = "retry" => failureRetry' # "none"
    BY <1>k, <2>1 DEF RetryInv
  <2> HIDE DEF t
  <2>3. Rested(lanes, fireRequested, refreshRequested, t)
    BY <1>0, <2>1, LoopRests
  <2> QED BY <2>1, <2>2, <2>3, RestedUnasked
<1>6. CASE ClaimAnswered
  <2> DEFINE asked == TRUE
  <2>1. Loop(lanes', adopted, fireRequested, asked, timer) /\ asked \in BOOLEAN
    BY <1>6, Zenon DEF ClaimAnswered
  <2>2. stopped' = stopped /\ failureRetry' = failureRetry
    BY <1>6 DEF ClaimAnswered
  <2> HIDE DEF asked
  <2>3. Rested(lanes', fireRequested, asked, timer)
    BY <1>0, <2>1, LoopRests
  <2> QED BY <2>2, <2>3, RestedUnasked DEF RetryInv
<1>7. CASE CallFails
  <2> DEFINE t == IF stopped THEN timer ELSE RetryTimer
  <2>1. /\ Loop(lanes, adopted, fireRequested, refreshRequested, t)
        /\ stopped' = stopped
        /\ IF stopped THEN failureRetry' = failureRetry ELSE failureRetry' \in {"fire", "refresh"}
    BY <1>7 DEF CallFails, Fail
  <2>2. t.kind = "retry" => failureRetry' # "none"
    BY <2>1 DEF RetryInv
  <2> HIDE DEF t
  <2>3. Rested(lanes, fireRequested, refreshRequested, t)
    BY <1>0, <2>1, LoopRests
  <2> QED BY <2>1, <2>2, <2>3, RestedUnasked
<1>8. CASE WakeTimerFires
  <2> DEFINE asked == TRUE
  <2>1. /\ Kick(lanes, asked, refreshRequested, NoTimer, failureRetry) /\ asked \in BOOLEAN
        /\ stopped' = stopped /\ failureRetry' = failureRetry
    BY <1>8, Zenon DEF WakeTimerFires
  <2> HIDE DEF asked
  <2> QED BY <1>0, <1>k, <2>1, KickUnasked
<1>9. CASE RetryTimerFires
  <2> DEFINE fire == fireRequested \/ failureRetry = "fire"
             refresh == refreshRequested \/ failureRetry = "refresh"
             none == "none"
  <2>1. /\ Kick(lanes, fire, refresh, NoTimer, none)
        /\ failureRetry' = none /\ stopped' = stopped
    BY <1>9, Zenon DEF RetryTimerFires
  <2>2. fire \in BOOLEAN /\ refresh \in BOOLEAN
    OBVIOUS
  <2> HIDE DEF fire, refresh, none
  <2> QED BY <1>0, <1>k, <2>1, <2>2, KickUnasked
<1>10. CASE NotifyChanged
  <2>1. RequestRefresh(lanes) /\ UNCHANGED <<stopped, failureRetry>>
    BY <1>10 DEF NotifyChanged
  <2> QED BY <2>1, RequestRefreshUnasked
<1>11. CASE \E k \in Keys : LaneEnds(k)
  <2>1. RequestRefresh(lanes') /\ UNCHANGED <<stopped, failureRetry>>
    BY <1>11 DEF LaneEnds
  <2> QED BY <2>1, RequestRefreshUnasked
<1>12. CASE Start
  <2>1. drive' = Sent("refresh", "adopt", lanes) /\ timer' = timer /\ failureRetry' = failureRetry
    BY <1>12 DEF Start, Rest
  <2>2. drive'.call = "adopt"
    BY <2>1, SentShape
  <2> QED BY <2>1, <2>2, SentShape DEF RestsUnasked, RetryInv, Driving
<1>13. CASE Stop \/ Restart
  <2>1. stopped' = TRUE /\ timer' = NoTimer
    BY <1>13 DEF Stop, Restart, Rest
  <2> QED BY <1>k, <2>1 DEF RestsUnasked, RetryInv
<1>14. CASE DriveSettles
  <2>1. stopped' = stopped /\ failureRetry' = failureRetry
    BY <1>14 DEF DriveSettles
  <2>2. CASE /\ stopped \/ failureRetry # "none" \/ ~(fireRequested \/ refreshRequested)
             /\ Rest(Idle, fireRequested, refreshRequested, timer)
    BY <2>1, <2>2 DEF Rest, RestsUnasked, RetryInv
  <2>3. CASE Rested(lanes, fireRequested, refreshRequested, timer)
    BY <2>1, <2>3, RestedUnasked DEF RetryInv
  <2> QED BY <1>0, <1>14, <2>2, <2>3, SettlesRests
<1> QED BY <1>1, <1>2, <1>3, <1>4, <1>5, <1>6, <1>7, <1>8, <1>9, <1>10, <1>11, <1>12, <1>13, <1>14
    DEF Next, DriveStep, LaneStep, LaneTurn

-----------------------------------------------------------------------------
(* A claim that is still owned can be completed *)

\* A dispatch of k under generation g that carries token.
Acceptable(k, g, token) == Owns(k, worker, g) => AcknowledgementAccepted(k, token, g)

\* Every running lane, and every claim answered but not yet started.
ClaimsAcceptable ==
    /\ \A k \in Busy(lanes) : Acceptable(k, lanes[k].generation, lanes[k].token)
    /\ \A c \in drive.due : Acceptable(c.key, c.generation, c.token)

\* Nothing that happens to a claimed row short of releasing it makes its
\* completion throw.
LEMMA KeptAcceptable ==
    ASSUME StoreInv, worker \in Workers, worker' = worker, NEW k \in Keys, ClaimKept(k),
           NEW g, NEW token, Acceptable(k, g, token)
    PROVE  Owns(k, worker, g)' => AcknowledgementAccepted(k, token, g)'
<1> SUFFICES ASSUME Owns(k, worker, g)' PROVE AcknowledgementAccepted(k, token, g)'
  OBVIOUS
<1>1. /\ alarms'[k].owner = worker /\ alarms'[k].generation = g /\ worker # NoOwner
  BY NoOwnerAssumption DEF Owns
<1>2. /\ alarms[k].owner = worker /\ alarms[k].generation = g
      /\ requests[k].claimed # 0 =>
            /\ requests'[k].incarnation = requests[k].incarnation
            /\ requests'[k].claimed = requests[k].claimed
            /\ requests'[k].dispatch = requests[k].dispatch
  BY <1>1 DEF ClaimKept
<1>3. Scheduled(k)
  BY <1>1, <1>2 DEF StoreInv, KeyInv
<1>4. AcknowledgementAccepted(k, token, g)
  BY <1>2, <1>3 DEF Owns, Acceptable
<1> QED BY <1>2, <1>4 DEF AcknowledgementAccepted

\* The claims a step leaves with the driver: none, or those it had.
LEMMA ClaimsCarried ==
    ASSUME StoreInv, BoundedInv, DriverInv, [Next]_vars
    PROVE  \/ Busy(lanes') = {} /\ drive'.due = {}
           \/ ExecuteClaim
           \/ /\ worker' = worker
              /\ drive'.due = {} \/ drive'.due = drive.due
              /\ \A k \in Busy(lanes') :
                    \/ /\ k \in Busy(lanes)
                       /\ lanes'[k].generation = lanes[k].generation
                       /\ lanes'[k].token = lanes[k].token
                    \/ \E c \in drive.due : /\ c.key = k
                                            /\ lanes'[k].generation = c.generation
                                            /\ lanes'[k].token = c.token
<1> DEFINE Carried == /\ worker' = worker
                      /\ drive'.due = {} \/ drive'.due = drive.due
                      /\ \A k \in Busy(lanes') :
                            \/ /\ k \in Busy(lanes)
                               /\ lanes'[k].generation = lanes[k].generation
                               /\ lanes'[k].token = lanes[k].token
                            \/ \E c \in drive.due : /\ c.key = k
                                                    /\ lanes'[k].generation = c.generation
                                                    /\ lanes'[k].token = c.token
<1>0. /\ HostSound /\ LoopSound /\ lanes \in [Keys -> Lane] /\ drive \in Drive
      /\ stopped \in BOOLEAN /\ adopted \in BOOLEAN
      /\ fireRequested \in BOOLEAN /\ refreshRequested \in BOOLEAN
      /\ DriveSound(drive, lanes)
  BY DEF DriverInv, HostSound, LoopSound
<1>r. ASSUME NEW l, NEW fire, NEW refresh, NEW t, Rested(l, fire, refresh, t)
      PROVE  drive'.due = {}
  BY <1>r, SentShape DEF Rested, Resumed
<1>q. ASSUME NEW l, NEW fire \in BOOLEAN, NEW refresh \in BOOLEAN, NEW t, NEW retry,
             Kick(l, fire, refresh, t, retry)
      PROVE  drive'.due = {} \/ drive'.due = drive.due
  <2>1. CASE Rest(drive, fire, refresh, t)
    BY <2>1 DEF Rest
  <2>2. CASE Rested(l, fire, refresh, t)
    BY <2>2, <1>r
  <2> QED BY <1>0, <1>q, <2>1, <2>2, KickRests
<1>s. ASSUME NEW l, RequestRefresh(l) PROVE drive'.due = {} \/ drive'.due = drive.due
  <2>1. CASE stopped
    BY <1>s, <2>1 DEF RequestRefresh
  <2>2. CASE ~stopped
    <3> DEFINE asked == TRUE
    <3>1. Kick(l, fireRequested, asked, timer, failureRetry) /\ asked \in BOOLEAN
      BY <1>s, <2>2, Zenon DEF RequestRefresh
    <3> HIDE DEF asked
    <3> QED BY <1>0, <1>q, <3>1
  <2> QED BY <2>1, <2>2
<1>1. CASE UNCHANGED vars \/ Tick \/ \E k \in Keys : ClientMutates(k) \/ EntityChanges(k)
  <2>1. UNCHANGED <<worker, drive, lanes>>
    BY <1>1 DEF vars, schedulerVars, Tick, ClientMutates, EntityChanges
  <2> QED BY <2>1
<1>2. CASE \E k \in Keys : LaneTurn(k)
  <2>1. /\ worker' = worker /\ drive' = drive /\ Busy(lanes') = Busy(lanes)
        /\ \A j \in Keys : /\ lanes'[j].generation = lanes[j].generation
                           /\ lanes'[j].token = lanes[j].token
    BY <1>0, <1>2, LaneTurnMoves DEF LaneFrame
  <2>2. Busy(lanes) \subseteq Keys
    BY Lanes
  <2> QED BY <2>1, <2>2
<1>3. CASE ExecuteAdopt \/ ExecutePeek
  <2>1. /\ drive'.call = drive.call /\ drive.call \in {"adopt", "peek"}
        /\ worker' = worker /\ lanes' = lanes
    BY <1>0, <1>3, ExecuteAnswers DEF ExecuteAdopt, ExecutePeek, InCall
  <2>2. drive'.due = {}
    BY <1>3, <2>1, ExecuteKeeps DEF DriverInv, DriveSound
  <2> QED BY <2>1, <2>2
<1>4. CASE AdoptAnswered
  <2>1. drive'.due = {}
    BY <1>0, <1>4, <1>r, AdoptRests
  <2>2. worker' = worker /\ lanes' = lanes
    BY <1>4 DEF AdoptAnswered
  <2> QED BY <2>1, <2>2
<1>5. CASE PeekAnswered
  <2> DEFINE t == IF stopped THEN timer
                  ELSE IF drive.next = Never THEN NoTimer ELSE WakeTimer(drive.next)
  <2>1. /\ Loop(lanes, adopted, fireRequested, refreshRequested, t)
        /\ worker' = worker /\ lanes' = lanes
    BY <1>5 DEF PeekAnswered
  <2> HIDE DEF t
  <2>2. drive'.due = {}
    BY <1>0, <1>r, <2>1, LoopRests
  <2> QED BY <2>1, <2>2
<1>6. CASE ClaimAnswered
  <2> DEFINE asked == TRUE
  <2>1. Loop(lanes', adopted, fireRequested, asked, timer) /\ asked \in BOOLEAN
    BY <1>6, Zenon DEF ClaimAnswered
  <2> HIDE DEF asked
  <2>2. drive'.due = {}
    BY <1>0, <1>r, <2>1, LoopRests
  <2>3. worker' = worker
    BY <1>6 DEF ClaimAnswered
  <2>4. ASSUME NEW k \in Busy(lanes')
        PROVE  \/ /\ k \in Busy(lanes)
                  /\ lanes'[k].generation = lanes[k].generation
                  /\ lanes'[k].token = lanes[k].token
               \/ \E c \in drive.due : /\ c.key = k
                                       /\ lanes'[k].generation = c.generation
                                       /\ lanes'[k].token = c.token
    <3>1. k \in Keys
      BY <2>4, Lanes
    <3>2. CASE k \in DueKeys(drive)
      <4>1. PICK c \in drive.due : c.key = k
        BY <3>2 DEF DueKeys
      <4>2. lanes'[c.key].generation = c.generation /\ lanes'[c.key].token = c.token
        BY <1>6, LanesStarted
      <4> QED BY <4>1, <4>2
    <3>3. CASE k \notin DueKeys(drive)
      <4>1. /\ Busy(lanes') = Busy(lanes) \cup DueKeys(drive)
            /\ \A j \in Keys \ DueKeys(drive) : lanes'[j] = lanes[j]
        BY <1>6, LanesStarted
      <4> QED BY <3>1, <3>3, <4>1
    <3> QED BY <3>2, <3>3
  <2> QED BY <2>2, <2>3, <2>4
<1>7. CASE CallFails
  <2> DEFINE t == IF stopped THEN timer ELSE RetryTimer
  <2>1. /\ Loop(lanes, adopted, fireRequested, refreshRequested, t)
        /\ worker' = worker /\ lanes' = lanes
    BY <1>7 DEF CallFails, Fail
  <2> HIDE DEF t
  <2>2. drive'.due = {}
    BY <1>0, <1>r, <2>1, LoopRests
  <2> QED BY <2>1, <2>2
<1>8. CASE WakeTimerFires
  <2> DEFINE asked == TRUE
  <2>1. /\ Kick(lanes, asked, refreshRequested, NoTimer, failureRetry) /\ asked \in BOOLEAN
        /\ worker' = worker /\ lanes' = lanes
    BY <1>8, Zenon DEF WakeTimerFires
  <2> HIDE DEF asked
  <2>2. drive'.due = {} \/ drive'.due = drive.due
    BY <1>0, <1>q, <2>1
  <2> QED BY <2>1, <2>2
<1>9. CASE RetryTimerFires
  <2> DEFINE fire == fireRequested \/ failureRetry = "fire"
             refresh == refreshRequested \/ failureRetry = "refresh"
             none == "none"
  <2>1. /\ Kick(lanes, fire, refresh, NoTimer, none)
        /\ worker' = worker /\ lanes' = lanes
    BY <1>9, Zenon DEF RetryTimerFires
  <2>2. fire \in BOOLEAN /\ refresh \in BOOLEAN
    OBVIOUS
  <2> HIDE DEF fire, refresh, none
  <2>3. drive'.due = {} \/ drive'.due = drive.due
    BY <1>q, <2>1, <2>2
  <2> QED BY <2>1, <2>3
<1>10. CASE NotifyChanged
  <2>1. RequestRefresh(lanes) /\ worker' = worker /\ lanes' = lanes
    BY <1>10 DEF NotifyChanged
  <2>2. drive'.due = {} \/ drive'.due = drive.due
    BY <1>s, <2>1
  <2> QED BY <2>1, <2>2
<1>11. ASSUME NEW k \in Keys, LaneEnds(k) PROVE Carried
  <2>1. RequestRefresh(lanes') /\ worker' = worker
    BY <1>11 DEF LaneEnds
  <2>2. drive'.due = {} \/ drive'.due = drive.due
    BY <1>s, <2>1
  <2>3. Busy(lanes') = Busy(lanes) \ {k} /\ \A j \in Keys \ {k} : lanes'[j] = lanes[j]
    BY <1>0, <1>11, LaneEndsFrees
  <2>4. Busy(lanes) \subseteq Keys
    BY Lanes
  <2> QED BY <2>1, <2>2, <2>3, <2>4
<1>12. CASE Start
  <2>1. drive' = Sent("refresh", "adopt", lanes) /\ worker' = worker /\ lanes' = lanes
    BY <1>12 DEF Start, Rest
  <2>2. drive'.due = {}
    BY <2>1, SentShape
  <2> QED BY <2>1, <2>2
<1>13. CASE Stop
  <2>1. /\ drive' = drive /\ worker' = worker
        /\ lanes' = [k \in Keys |-> IF lanes[k].phase = "dispatching"
                                    THEN [lanes[k] EXCEPT !.aborted = TRUE] ELSE lanes[k]]
    BY <1>13 DEF Stop, Rest
  <2>2. ASSUME NEW k \in Keys
        PROVE  /\ lanes'[k].phase = lanes[k].phase
               /\ lanes'[k].generation = lanes[k].generation /\ lanes'[k].token = lanes[k].token
    BY <1>0, <2>1 DEF Lane
  <2> QED BY <2>1, <2>2 DEF Busy
<1>14. CASE Restart
  <2>1. drive' = Idle /\ lanes' = [k \in Keys |-> NoLane]
    BY <1>14 DEF Restart, Rest
  <2>2. Busy(lanes') = {}
    BY <2>1 DEF Busy, NoLane
  <2> QED BY <2>1, <2>2, SentShape
<1>17. CASE DriveSettles
  <2>1. worker' = worker /\ lanes' = lanes
    BY <1>17 DEF DriveSettles
  <2>2. drive'.due = {}
    BY <1>0, <1>r, <1>17, SettlesRests, SentShape DEF Rest
  <2> QED BY <2>1, <2>2
<1> HIDE DEF Carried
<1>15. CASE Carried
  BY <1>15 DEF Carried
<1>16. CASE \E k \in Keys : LaneEnds(k)
  BY <1>11, <1>15, <1>16
<1> QED BY <1>1, <1>2, <1>3, <1>4, <1>5, <1>6, <1>7, <1>8, <1>9, <1>10, <1>12, <1>13, <1>14, <1>16,
           <1>17
    DEF Next, DriveStep, LaneStep, LaneTurn

\* A fresh claim captures the request its dispatch will acknowledge.
LEMMA FreshCaptures ==
    ASSUME StoreInv, NEW w, NEW S \in SUBSET Keys, AlarmClaimDue(w, S), NEW k \in S
    PROVE  \/ ClaimToken(k) = NoToken
           \/ /\ ClaimToken(k).incarnation = requests'[k].incarnation
              /\ ClaimToken(k).generation = requests'[k].claimed
              /\ requests'[k].claimed # 0 /\ requests'[k].dispatch = NextClaim(k)
<1>1. KeyInv(k) /\ requests[k] \in RequestRow
  BY DEF StoreInv, StoreTypeOK
<1>2. CASE requests[k].generation = requests[k].acknowledged
  BY <1>2 DEF ClaimToken
<1>3. CASE requests[k].generation # requests[k].acknowledged
  <2>1. requests[k].generation # 0
    BY <1>1, <1>3 DEF KeyInv, RequestRow
  <2>2. /\ requests'[k].incarnation = requests[k].incarnation
        /\ requests'[k].claimed = requests[k].generation
        /\ requests'[k].dispatch = NextClaim(k)
    BY <1>3, ClaimGives
  <2>3. ClaimToken(k) = [incarnation |-> requests[k].incarnation,
                         generation |-> requests[k].generation]
    BY <1>3 DEF ClaimToken
  <2> QED BY <2>1, <2>2, <2>3
<1> QED BY <1>2, <1>3

\* The answer of alarmClaimDue, claim by claim.
LEMMA ClaimExecuted ==
    ASSUME drive \in Drive, NEW S \in SUBSET Keys,
           Answered([drive EXCEPT !.due =
             {[key |-> k, generation |-> NextClaim(k), token |-> ClaimToken(k)] : k \in S}])
    PROVE  drive'.due = ClaimsOf(S)
<1> DEFINE claims == ClaimsOf(S)
<1>1. drive' = [[drive EXCEPT !.due = claims] EXCEPT !.state = "executed"]
  BY Zenon DEF Answered, ClaimsOf
<1> HIDE DEF claims
<1>2. drive'.due = claims
  BY <1>1 DEF Drive
<1> QED BY <1>2 DEF claims

\* Every step keeps every claim acceptable.
LEMMA AcceptableStep ==
    ASSUME StoreInv, BoundedInv, DriverInv, ClaimsAcceptable, [Next]_vars
    PROVE  ClaimsAcceptable'
<1>0. worker \in Workers /\ drive \in Drive /\ DriveSound(drive, lanes)
  BY DEF DriverInv, HostSound, LoopSound
<1>k. /\ \A l : Busy(l) \subseteq Keys
      /\ \A c \in drive.due : c.key \in Keys
  BY <1>0, Lanes DEF Drive, Claim
<1>1. ASSUME worker' = worker, NEW k \in Keys, ClaimKept(k), NEW g, NEW token,
             Acceptable(k, g, token)
      PROVE  Owns(k, worker, g)' => AcknowledgementAccepted(k, token, g)'
  BY <1>0, <1>1, KeptAcceptable
<1>2. CASE Busy(lanes') = {} /\ drive'.due = {}
  BY <1>2 DEF ClaimsAcceptable
<1>3. CASE ExecuteClaim
  <2>1. PICK S \in SoonestDue(now, drive.limit, drive.exclude) :
           /\ AlarmClaimDue(worker, S)
           /\ Answered([drive EXCEPT !.due =
                {[key |-> k, generation |-> NextClaim(k), token |-> ClaimToken(k)] : k \in S}])
    BY <1>3, Zenon DEF ExecuteClaim
  <2>2. drive.call = "claim" /\ worker' = worker /\ lanes' = lanes
    BY <1>3 DEF ExecuteClaim, InCall
  <2>3. S \in SUBSET Keys /\ \A k \in S : k \notin Busy(lanes)
    BY <2>1, <2>2, ClaimSelects
  <2>4. drive'.due = ClaimsOf(S)
    BY <1>0, <2>1, <2>3, ClaimExecuted
  <2>5. ASSUME NEW k \in Busy(lanes)
        PROVE  Acceptable(k, lanes[k].generation, lanes[k].token)'
    <3>1. k \in Keys \ S
      BY <1>k, <2>3, <2>5
    <3>2. ClaimKept(k)
      BY <2>1, <2>3, <3>1, ClaimDueKept
    <3>3. Acceptable(k, lanes[k].generation, lanes[k].token)
      BY <2>5 DEF ClaimsAcceptable
    <3> QED BY <1>1, <2>2, <3>1, <3>2, <3>3 DEF Acceptable, Owns, AcknowledgementAccepted, Scheduled
  <2>6. ASSUME NEW c \in ClaimsOf(S)
        PROVE  AcknowledgementAccepted(c.key, c.token, c.generation)'
    <3>1. c.key \in S /\ c.generation = NextClaim(c.key) /\ c.token = ClaimToken(c.key)
      BY <2>3, <2>6, ClaimsAnswered
    <3>2. \/ c.token = NoToken
          \/ /\ c.token.incarnation = requests'[c.key].incarnation
             /\ c.token.generation = requests'[c.key].claimed
             /\ requests'[c.key].claimed # 0 /\ requests'[c.key].dispatch = c.generation
      BY <2>1, <2>3, <3>1, FreshCaptures
    <3> QED BY <3>2 DEF AcknowledgementAccepted
  <2> QED BY <2>2, <2>4, <2>5, <2>6 DEF ClaimsAcceptable, Acceptable, AcknowledgementAccepted
<1>4. ASSUME ~ExecuteClaim, worker' = worker,
             drive'.due = {} \/ drive'.due = drive.due,
             \A k \in Busy(lanes') :
                \/ /\ k \in Busy(lanes)
                   /\ lanes'[k].generation = lanes[k].generation
                   /\ lanes'[k].token = lanes[k].token
                \/ \E c \in drive.due : /\ c.key = k
                                        /\ lanes'[k].generation = c.generation
                                        /\ lanes'[k].token = c.token
      PROVE  ClaimsAcceptable'
  <2>1. \A k \in Keys : ClaimKept(k)
    BY <1>4, ClaimsKept
  <2>2. ASSUME NEW k \in Busy(lanes')
        PROVE  /\ k \in Keys
               /\ Acceptable(k, lanes'[k].generation, lanes'[k].token)
    BY <1>k, <1>4, <2>2 DEF ClaimsAcceptable
  <2>3. ASSUME NEW k \in Busy(lanes')
        PROVE  Acceptable(k, lanes[k].generation, lanes[k].token)'
    BY <1>1, <1>4, <2>1, <2>2, <2>3 DEF Acceptable, Owns, AcknowledgementAccepted, Scheduled
  <2>4. ASSUME NEW c \in drive.due
        PROVE  Owns(c.key, worker, c.generation)' => AcknowledgementAccepted(c.key, c.token, c.generation)'
    BY <1>1, <1>k, <1>4, <2>1, <2>4
    DEF ClaimsAcceptable, Owns, AcknowledgementAccepted, Scheduled
  <2> QED BY <1>4, <2>3, <2>4
      DEF ClaimsAcceptable, Acceptable, Owns, AcknowledgementAccepted, Scheduled
<1> QED BY <1>2, <1>3, <1>4, ClaimsCarried

-----------------------------------------------------------------------------
(* No wake-up is lost *)

\* The timer covers every row the driver could claim.
Armed == \A k \in Unclaimed(Busy(lanes)) : timer.kind = "wake" /\ timer.at <= alarms[k].wakeAt

\* The wake that was read covers every row the driver could claim.
ReadCovers ==
    \A k \in Unclaimed(Busy(lanes)) : drive.next # Never /\ drive.next <= alarms[k].wakeAt

\* Something will make the loop look again.
Announced == unnotified \/ refreshRequested \/ fireRequested \/ failureRetry # "none"

\* A running driver has been told to look again, or is about to read the store,
\* or has read a wake that still covers it, or rests behind a timer that does.
Covered ==
    \/ stopped \/ Announced
    \/ drive.call \in {"adopt", "claim"}
    \/ drive.call = "peek" /\ drive.state = "sent" /\ drive.exclude \subseteq Busy(lanes)
    \/ drive.call = "peek" /\ drive.state = "executed" /\ ReadCovers
    \/ drive.call = "none" /\ (Available(lanes) <= 0 \/ Armed)

\* Where the loop rests: in a call it has just sent, or covered by its timer.
LEMMA RestedCovers ==
    ASSUME NEW fire, NEW refresh, NEW t, Rested(lanes', fire, refresh, t),
           stopped' = stopped,
           ~stopped /\ drive' = Returned => Available(lanes') <= 0 \/ Announced' \/ Armed'
    PROVE  Covered'
<1>1. CASE drive' = Returned
  BY <1>1, SentShape DEF Covered, Available
<1>2. CASE drive' \in Resumed(lanes')
  <2>1. \/ drive' = Sent("refresh", "adopt", lanes') \/ drive' = Sent("fire", "adopt", lanes')
        \/ drive' = Sent("refresh", "peek", lanes') \/ drive' = Sent("fire", "claim", lanes')
    BY <1>2 DEF Resumed
  <2>2. /\ drive'.call \in {"adopt", "peek", "claim"} /\ drive'.state = "sent"
        /\ drive'.exclude = Busy(lanes')
    BY <2>1, SentShape
  <2> QED BY <2>2 DEF Covered, Busy
<1> QED BY <1>1, <1>2 DEF Rested

\* A driver that is asked for something rests covered.
LEMMA AskedCovers ==
    ASSUME NEW fire, NEW refresh, NEW t, Rested(lanes', fire, refresh, t),
           stopped' = stopped, stopped \/ fire \/ refresh
    PROVE  Covered'
  BY RestedCovers DEF Rested

\* A request that is only noted keeps the driver covered.
LEMMA RestKept ==
    ASSUME NEW fire, NEW refresh, NEW t, Rest(drive, fire, refresh, t), fire \/ refresh
    PROVE  Covered'
<1>1. fireRequested' = fire /\ refreshRequested' = refresh
  BY DEF Rest
<1> QED BY <1>1 DEF Covered, Announced

\* A kick notes the requests, or runs the loop with them.
LEMMA KickEnds ==
    ASSUME NEW l, NEW fire \in BOOLEAN, NEW refresh \in BOOLEAN, NEW t, NEW retry,
           stopped \in BOOLEAN, adopted \in BOOLEAN, Kick(l, fire, refresh, t, retry)
    PROVE  Rest(drive, fire, refresh, t) \/ Rested(l, fire, refresh, t)
  BY KickRests

\* requestRefresh of a running driver notes the request, or runs the loop with it.
LEMMA RequestRefreshRests ==
    ASSUME NEW l, RequestRefresh(l), DriverInv, ~stopped
    PROVE  \/ refreshRequested' = TRUE
           \/ \E refresh : refresh = TRUE /\ Rested(l, fireRequested, refresh, timer)
<1>0. stopped \in BOOLEAN /\ adopted \in BOOLEAN /\ fireRequested \in BOOLEAN
  BY DEF DriverInv, HostSound, LoopSound
<1> DEFINE asked == TRUE
<1>1. Kick(l, fireRequested, asked, timer, failureRetry) /\ asked \in BOOLEAN
  BY Zenon DEF RequestRefresh
<1>a. asked = TRUE
  OBVIOUS
<1> HIDE DEF asked
<1>2. CASE Rest(drive, fireRequested, asked, timer)
  BY <1>a, <1>2 DEF Rest
<1>3. CASE Rested(l, fireRequested, asked, timer)
  BY <1>a, <1>3
<1>4. Rest(drive, fireRequested, asked, timer) \/ Rested(l, fireRequested, asked, timer)
  BY <1>0, <1>1, KickRests
<1> QED BY <1>2, <1>3, <1>4

\* So it leaves the driver covered.
LEMMA RequestRefreshCovers ==
    ASSUME RequestRefresh(lanes'), DriverInv, stopped' = stopped
    PROVE  Covered'
<1>1. CASE stopped
  BY <1>1 DEF Covered
<1>2. CASE ~stopped /\ refreshRequested' = TRUE
  BY <1>2 DEF Covered, Announced
<1>3. CASE \E refresh : refresh = TRUE /\ Rested(lanes', fireRequested, refresh, timer)
  BY <1>3, AskedCovers
<1> QED BY <1>1, <1>2, <1>3, RequestRefreshRests

\* A step that leaves the driver alone and opens no row keeps it covered.
LEMMA QuietCovers ==
    ASSUME Covered, Busy(lanes') = Busy(lanes),
           UNCHANGED <<stopped, unnotified, refreshRequested, fireRequested, failureRetry,
                       drive, timer>>,
           Unclaimed(Busy(lanes))' \subseteq Unclaimed(Busy(lanes)),
           \A k \in Unclaimed(Busy(lanes))' : alarms'[k].wakeAt = alarms[k].wakeAt
    PROVE  Covered'
<1>1. Available(lanes') = Available(lanes)
  BY DEF Available
<1>2. Armed => Armed'
  BY DEF Armed
<1>3. ReadCovers => ReadCovers'
  BY DEF ReadCovers
<1>4. Announced' = Announced
  BY DEF Announced
<1> HIDE DEF Armed, ReadCovers, Announced
<1>5. CASE stopped \/ Announced \/ drive.call \in {"adopt", "claim"}
  BY <1>4, <1>5 DEF Covered
<1>6. CASE drive.call = "peek" /\ drive.state = "sent" /\ drive.exclude \subseteq Busy(lanes)
  BY <1>6 DEF Covered, Busy
<1>7. CASE drive.call = "peek" /\ drive.state = "executed" /\ ReadCovers
  BY <1>3, <1>7 DEF Covered
<1>8. CASE drive.call = "none" /\ (Available(lanes) <= 0 \/ Armed)
  BY <1>1, <1>2, <1>8 DEF Covered, Available
<1> QED BY <1>5, <1>6, <1>7, <1>8 DEF Covered

\* Activation and retirement open no row.
LEMMA EntityCovers ==
    ASSUME StoreInv, NEW k \in Keys, EntityStep(k), NEW j \in Keys
    PROVE  alarms'[j] = alarms[j] \/ alarms'[j].wakeAt = Never
<1>1. alarms' = alarms \/ alarms' = [alarms EXCEPT ![k] = NoRow]
  BY DEF EntityStep, ActivatePlain, ActivateNative, Retire, ForgetKey
<1> QED BY <1>1, EmptyRows DEF StoreInv, StoreTypeOK

\* A fenced settlement touches the row it names.
LEMMA ClaimStepRow ==
    ASSUME StoreInv, NEW k \in Keys, NEW w, NEW g, ClaimStep(k, w, g), NEW j \in Keys \ {k}
    PROVE  alarms'[j] = alarms[j]
  BY DEF ClaimStep, AlarmSetClaimed, AlarmComplete, StoreInv, StoreTypeOK

\* The read that arms the timer: it answers the soonest row outside the lanes.
LEMMA PeekCovers ==
    ASSUME StoreInv, BoundedInv, DriverInv, Covered, ExecutePeek PROVE Covered'
<1>0. drive \in Drive /\ drive.call = "peek" /\ drive.state = "sent" /\ storeVars' = storeVars
  BY DEF DriverInv, LoopSound, ExecutePeek, InCall
<1>1. /\ drive'.call = "peek" /\ drive'.state = "executed"
      /\ drive'.next = NextWakeAt(drive.exclude)
      /\ UNCHANGED <<stopped, timer, refreshRequested, fireRequested, failureRetry,
                     lanes, unnotified>>
  BY <1>0, ExecuteAnswers
<1>2. CASE stopped \/ Announced
  BY <1>1, <1>2 DEF Covered, Announced
<1>3. CASE drive.exclude \subseteq Busy(lanes)
  <2>1. Unclaimed(Busy(lanes)) \subseteq Unclaimed(drive.exclude)
    BY <1>3 DEF Unclaimed
  <2>2. /\ Unclaimed(drive.exclude) # {} => NextWakeAt(drive.exclude) \in Times
        /\ \A k \in Unclaimed(drive.exclude) : NextWakeAt(drive.exclude) <= alarms[k].wakeAt
    BY NextWake
  <2>3. \A t \in Times : t # Never
    BY BoundsNat DEF Times, Never
  <2> DEFINE next == NextWakeAt(drive.exclude)
  <2>4. \A k \in Unclaimed(Busy(lanes)) : next # Never /\ next <= alarms[k].wakeAt
    BY <2>1, <2>2, <2>3
  <2> HIDE DEF next
  <2>a. drive'.next = next
    BY <1>1 DEF next
  <2>5. ReadCovers'
    <3>1. Unclaimed(Busy(lanes))' = Unclaimed(Busy(lanes)) /\ alarms' = alarms
      BY <1>0, <1>1 DEF storeVars, Unclaimed, Busy, Scheduled
    <3> QED BY <2>4, <2>a, <3>1 DEF ReadCovers
  <2> QED BY <1>1, <2>5 DEF Covered
<1> QED BY <1>0, <1>2, <1>3 DEF Covered

\* The loop arms the timer it read the wake for, unless it was told to look again.
LEMMA PeekAnsweredCovers ==
    ASSUME DriverInv, Covered, PeekAnswered PROVE Covered'
<1>0. /\ drive.call = "peek" /\ drive.state = "executed"
      /\ stopped \in BOOLEAN /\ adopted \in BOOLEAN
      /\ fireRequested \in BOOLEAN /\ refreshRequested \in BOOLEAN
  BY DEF DriverInv, HostSound, LoopSound, PeekAnswered, InCall
<1> DEFINE t == IF stopped THEN timer
                ELSE IF drive.next = Never THEN NoTimer ELSE WakeTimer(drive.next)
<1>1. /\ Loop(lanes, adopted, fireRequested, refreshRequested, t)
      /\ storeVars' = storeVars
      /\ UNCHANGED <<stopped, failureRetry, lanes, unnotified>>
  BY DEF PeekAnswered
<1>2. ~stopped /\ drive.next # Never => t.kind = "wake" /\ t.at = drive.next
  BY DEF WakeTimer
<1> HIDE DEF t
<1>3. Rested(lanes, fireRequested, refreshRequested, t)
  BY <1>0, <1>1, LoopRests
<1>4. Unclaimed(Busy(lanes))' = Unclaimed(Busy(lanes)) /\ alarms' = alarms
  BY <1>1 DEF storeVars, Unclaimed, Busy, Scheduled
<1>5. ASSUME ~stopped, drive' = Returned PROVE Available(lanes') <= 0 \/ Announced' \/ Armed'
  <2>1. CASE Available(lanes) <= 0
    BY <1>1, <2>1 DEF Available
  <2>2. CASE unnotified \/ failureRetry # "none"
    BY <1>1, <2>2 DEF Announced
  <2>3. CASE ~fireRequested /\ ~refreshRequested /\ timer' = t /\ ReadCovers
    <3>1. \A k \in Unclaimed(Busy(lanes)) : timer'.kind = "wake" /\ timer'.at <= alarms[k].wakeAt
      BY <1>2, <1>5, <2>3 DEF ReadCovers
    <3> QED BY <1>4, <3>1 DEF Armed
  <2>4. \/ Available(lanes) <= 0
        \/ ~fireRequested /\ ~refreshRequested /\ timer' = t
    BY <1>3, <1>5 DEF Rested
  <2>5. Announced \/ ReadCovers
    BY <1>0, <1>5 DEF Covered
  <2> QED BY <2>1, <2>2, <2>3, <2>4, <2>5 DEF Announced
<1>6. Rested(lanes', fireRequested, refreshRequested, t) /\ stopped' = stopped
  BY <1>1, <1>3
<1> QED BY <1>5, <1>6, RestedCovers

\* Every step of a running system leaves the driver covered.
LEMMA CoveredStep ==
    ASSUME StoreInv, BoundedInv, DriverInv, RetryInv, Covered, [Next]_vars
    PROVE  Covered'
<1>0. /\ HostSound /\ LoopSound /\ lanes \in [Keys -> Lane] /\ drive \in Drive
      /\ stopped \in BOOLEAN /\ adopted \in BOOLEAN
      /\ fireRequested \in BOOLEAN /\ refreshRequested \in BOOLEAN
      /\ failureRetry \in {"none", "refresh", "fire"}
  BY DEF DriverInv, HostSound, LoopSound
<1>1. CASE UNCHANGED vars \/ Tick
  <2>1. /\ UNCHANGED <<stopped, unnotified, refreshRequested, fireRequested, failureRetry,
                       drive, timer>>
        /\ lanes' = lanes /\ alarms' = alarms
    BY <1>1 DEF vars, schedulerVars, storeVars, Tick
  <2>2. Unclaimed(Busy(lanes))' = Unclaimed(Busy(lanes)) /\ Busy(lanes') = Busy(lanes)
    BY <2>1 DEF Unclaimed, Busy, Scheduled
  <2> QED BY <2>1, <2>2, QuietCovers
<1>2. ASSUME NEW k \in Keys, EntityChanges(k) PROVE Covered'
  <2>1. /\ UNCHANGED <<stopped, unnotified, refreshRequested, fireRequested, failureRetry,
                       drive, timer>>
        /\ lanes' = lanes /\ EntityStep(k)
    BY <1>2 DEF EntityChanges, schedulerVars
  <2>2. \A j \in Keys : alarms'[j] = alarms[j] \/ alarms'[j].wakeAt = Never
    BY <2>1, EntityCovers
  <2>3. /\ Unclaimed(Busy(lanes))' \subseteq Unclaimed(Busy(lanes))
        /\ \A j \in Unclaimed(Busy(lanes))' : alarms'[j].wakeAt = alarms[j].wakeAt
    BY <2>1, <2>2 DEF Unclaimed, Busy, Scheduled
  <2> QED BY <2>1, <2>3, QuietCovers
<1>3. CASE \E k \in Keys : ClientMutates(k)
  BY <1>3 DEF ClientMutates, Covered, Announced
<1>4. ASSUME NEW k \in Keys, LaneTurn(k) PROVE Covered'
  <2>1. /\ UNCHANGED <<stopped, unnotified, refreshRequested, fireRequested, failureRetry,
                       drive, timer>>
        /\ Busy(lanes') = Busy(lanes) /\ k \in Busy(lanes)
    BY <1>0, <1>4, LaneTurnMoves DEF LaneFrame
  <2>2. \A j \in Keys \ {k} : alarms'[j] = alarms[j]
    <3>1. CASE Acknowledge(k)
      BY <3>1, AcknowledgeSettles, ClaimStepRow DEF storeVars
    <3>2. CASE ~Acknowledge(k)
      BY <1>4, <3>2
      DEF LaneTurn, HandlerReturns, HandlerThrows, HandlerBlocked, HandlerAborted,
          AcknowledgeFails, storeVars
    <3> QED BY <3>1, <3>2
  <2>4. /\ Unclaimed(Busy(lanes))' \subseteq Unclaimed(Busy(lanes))
        /\ \A j \in Unclaimed(Busy(lanes))' : alarms'[j].wakeAt = alarms[j].wakeAt
    BY <2>1, <2>2 DEF Unclaimed, Busy, Scheduled
  <2> QED BY <2>1, <2>4, QuietCovers
<1>5. CASE ExecuteAdopt \/ ExecuteClaim
  <2>1. drive'.call = drive.call /\ drive.call \in {"adopt", "claim"}
    BY <1>0, <1>5, ExecuteAnswers DEF ExecuteAdopt, ExecuteClaim, InCall
  <2> QED BY <2>1 DEF Covered
<1>6. CASE ExecutePeek
  BY <1>6, PeekCovers
<1>7. CASE AdoptAnswered
  <2>1. PICK fire \in BOOLEAN, refresh \in BOOLEAN, t \in {timer, NoTimer} :
           Rested(lanes, fire, refresh, t)
    BY <1>0, <1>7, AdoptRests
  <2>2. lanes' = lanes /\ stopped' = stopped
    BY <1>7 DEF AdoptAnswered
  <2>3. ~stopped /\ drive' = Returned => Available(lanes') <= 0
    BY <1>0, <1>7, <2>2, AdoptRests
  <2>4. Rested(lanes', fire, refresh, t)
    BY <2>1, <2>2
  <2> QED BY <2>2, <2>3, <2>4, RestedCovers
<1>8. CASE PeekAnswered
  BY <1>8, PeekAnsweredCovers
<1>9. CASE ClaimAnswered
  <2> DEFINE asked == TRUE
  <2>1. Loop(lanes', adopted, fireRequested, asked, timer) /\ asked \in BOOLEAN
        /\ stopped' = stopped
    BY <1>9, Zenon DEF ClaimAnswered
  <2>a. asked
    OBVIOUS
  <2> HIDE DEF asked
  <2>2. Rested(lanes', fireRequested, asked, timer)
    BY <1>0, <2>1, LoopRests
  <2>3. ~stopped /\ drive' = Returned => Available(lanes') <= 0
    BY <2>2, <2>a DEF Rested
  <2> QED BY <2>1, <2>2, <2>3, RestedCovers
<1>10. CASE CallFails
  <2>1. stopped' = stopped /\ (~stopped => failureRetry' \in {"fire", "refresh"})
    BY <1>10 DEF CallFails, Fail
  <2> QED BY <2>1 DEF Covered, Announced
<1>11. CASE WakeTimerFires
  <2> DEFINE asked == TRUE
  <2>1. /\ Kick(lanes, asked, refreshRequested, NoTimer, failureRetry) /\ asked \in BOOLEAN
        /\ stopped' = stopped /\ lanes' = lanes
    BY <1>11, Zenon DEF WakeTimerFires
  <2>a. asked
    OBVIOUS
  <2> HIDE DEF asked
  <2>2. Rest(drive, asked, refreshRequested, NoTimer) \/ Rested(lanes, asked, refreshRequested, NoTimer)
    BY <1>0, <2>1, KickEnds
  <2>3. CASE Rest(drive, asked, refreshRequested, NoTimer)
    BY <2>a, <2>3, RestKept
  <2>4. CASE Rested(lanes', asked, refreshRequested, NoTimer)
    BY <2>1, <2>a, <2>4, AskedCovers
  <2> QED BY <2>1, <2>2, <2>3, <2>4
<1>12. CASE RetryTimerFires
  <2> DEFINE fire == fireRequested \/ failureRetry = "fire"
             refresh == refreshRequested \/ failureRetry = "refresh"
             none == "none"
  <2>1. /\ Kick(lanes, fire, refresh, NoTimer, none)
        /\ stopped' = stopped /\ lanes' = lanes /\ timer.kind = "retry"
    BY <1>12, Zenon DEF RetryTimerFires
  <2>2. fire \in BOOLEAN /\ refresh \in BOOLEAN
    OBVIOUS
  <2>3. fire \/ refresh
    BY <1>0, <2>1 DEF RetryInv
  <2> HIDE DEF fire, refresh, none
  <2>4. Rest(drive, fire, refresh, NoTimer) \/ Rested(lanes, fire, refresh, NoTimer)
    BY <1>0, <2>1, <2>2, KickEnds
  <2>5. CASE Rest(drive, fire, refresh, NoTimer)
    BY <2>3, <2>5, RestKept
  <2>6. CASE Rested(lanes', fire, refresh, NoTimer)
    BY <2>1, <2>3, <2>6, AskedCovers
  <2> QED BY <2>1, <2>4, <2>5, <2>6
<1>13. CASE NotifyChanged
  <2>1. RequestRefresh(lanes') /\ stopped' = stopped
    BY <1>13 DEF NotifyChanged
  <2> QED BY <2>1, RequestRefreshCovers
<1>14. CASE \E k \in Keys : LaneEnds(k)
  <2>1. RequestRefresh(lanes') /\ stopped' = stopped
    BY <1>14 DEF LaneEnds
  <2> QED BY <2>1, RequestRefreshCovers
<1>15. CASE Start
  <2>1. drive' = Sent("refresh", "adopt", lanes)
    BY <1>15 DEF Start, Rest
  <2>2. drive'.call = "adopt"
    BY <2>1, SentShape
  <2> QED BY <2>2 DEF Covered
<1>16. CASE Stop \/ Restart
  BY <1>16 DEF Stop, Restart, Covered
<1>17. CASE DriveSettles
  <2>1. /\ stopped' = stopped /\ failureRetry' = failureRetry /\ unnotified' = unnotified
        /\ lanes' = lanes /\ alarms' = alarms /\ drive.call = "none"
    BY <1>17, SentShape DEF DriveSettles, storeVars
  <2>2. CASE Rested(lanes', fireRequested, refreshRequested, timer)
             /\ (fireRequested \/ refreshRequested)
    BY <2>1, <2>2, AskedCovers
  <2>3. CASE Rest(Idle, fireRequested, refreshRequested, timer)
    <3>1. /\ drive'.call = "none" /\ timer' = timer
          /\ fireRequested' = fireRequested /\ refreshRequested' = refreshRequested
      BY <2>3, SentShape DEF Rest
    <3>2. Unclaimed(Busy(lanes))' = Unclaimed(Busy(lanes)) /\ Busy(lanes') = Busy(lanes)
      BY <2>1 DEF Unclaimed, Busy, Scheduled
    <3>3. Available(lanes') = Available(lanes) /\ (Armed => Armed')
      BY <2>1, <3>1, <3>2 DEF Available, Armed
    <3>4. Announced' = Announced
      BY <2>1, <3>1 DEF Announced
    <3>5. stopped \/ Announced \/ Available(lanes) <= 0 \/ Armed
      BY <2>1 DEF Covered
    <3> HIDE DEF Announced, Armed
    <3> QED BY <2>1, <3>1, <3>3, <3>4, <3>5 DEF Covered
  <2> QED BY <1>0, <1>17, <2>1, <2>2, <2>3, SettlesRests
<1> QED BY <1>1, <1>2, <1>3, <1>4, <1>5, <1>6, <1>7, <1>8, <1>9, <1>10, <1>11, <1>12, <1>13,
           <1>14, <1>15, <1>16, <1>17
    DEF Next, DriveStep, LaneStep, LaneTurn

-----------------------------------------------------------------------------
(* A read that was asked for is sent, or stays owed *)

\* What RequestsAreDriven demands of a step that owes a read.
ReadServed ==
    \/ ReadIsOwed' /\ (Driving' \/ failureRetry' # "none")
    \/ InCall("peek", "sent")' /\ drive' # drive
    \/ Available(lanes)' <= 0

\* The loop serves what it was asked for: it rests in an operation that reads,
\* or behind lanes that are all taken.
LEMMA RestedServes ==
    ASSUME NEW fire, NEW refresh, NEW t, Rested(lanes', fire, refresh, t),
           ~stopped, fire \/ refresh, drive.state # "sent" \/ failureRetry' # "none"
    PROVE  ReadServed
<1>1. CASE drive' = Returned
  BY <1>1 DEF Rested, ReadServed, Available, Busy
<1>2. CASE failureRetry' # "none"
  BY <1>2, RestedDrives DEF ReadServed, ReadIsOwed
<1>3. CASE drive.state # "sent" /\ drive'.state = "sent"
  BY <1>3, RestedDrives, SentShape DEF ReadServed, ReadIsOwed, InCall
<1> QED BY <1>1, <1>2, <1>3, RestedDrives

\* So does a kick: a driver it does not start keeps the request.
LEMMA KickServes ==
    ASSUME NEW fire \in BOOLEAN, NEW refresh \in BOOLEAN, NEW t, NEW retry,
           stopped \in BOOLEAN, adopted \in BOOLEAN, Kick(lanes', fire, refresh, t, retry),
           ~stopped, fire \/ refresh, failureRetry' = retry
    PROVE  ReadServed
<1>1. CASE /\ stopped \/ Driving \/ retry # "none"
           /\ Rest(drive, fire, refresh, t)
  BY <1>1 DEF Rest, ReadServed, ReadIsOwed, Driving
<1>2. CASE ~Driving /\ Rested(lanes', fire, refresh, t)
  <2>1. drive.state # "sent"
    BY <1>2, SentShape DEF Driving
  <2> QED BY <1>2, <2>1, RestedServes
<1> QED BY <1>1, <1>2, KickRests

\* And so does requestRefresh.
LEMMA RequestRefreshServes ==
    ASSUME RequestRefresh(lanes'), DriverInv, ~stopped, failureRetry' = failureRetry
    PROVE  ReadServed
<1> DEFINE asked == TRUE
<1>1. Kick(lanes', fireRequested, asked, timer, failureRetry) /\ asked \in BOOLEAN
  BY Zenon DEF RequestRefresh
<1>2. asked
  OBVIOUS
<1>3. stopped \in BOOLEAN /\ adopted \in BOOLEAN /\ fireRequested \in BOOLEAN
  BY DEF DriverInv, HostSound, LoopSound
<1>4. fireRequested \/ asked
  BY <1>2
<1> HIDE DEF asked
<1> QED BY <1>1, <1>3, <1>4, KickServes

\* A driver left alone owes what it owed.
LEMMA OwedRemains ==
    ASSUME RestsUnasked, ReadIsOwed, ~stopped,
           UNCHANGED <<refreshRequested, fireRequested, failureRetry, drive>>
    PROVE  ReadServed
<1>1. ReadIsOwed'
  BY DEF ReadIsOwed
<1>2. Driving \/ failureRetry # "none"
  BY SentShape DEF RestsUnasked, ReadIsOwed, Driving
<1>3. Driving' = Driving
  BY DEF Driving
<1> QED BY <1>1, <1>2, <1>3 DEF ReadServed

\* Every step serves the reads that are owed.
LEMMA ServedStep ==
    ASSUME StoreInv, BoundedInv, DriverInv, RestsUnasked, RetryInv, [Next]_vars,
           ReadAsked \/ ReadIsOwed, ~stopped', worker' = worker
    PROVE  ReadServed
<1>0. /\ HostSound /\ LoopSound /\ lanes \in [Keys -> Lane] /\ drive \in Drive
      /\ DriveSound(drive, lanes)
      /\ stopped \in BOOLEAN /\ adopted \in BOOLEAN
      /\ fireRequested \in BOOLEAN /\ refreshRequested \in BOOLEAN
      /\ failureRetry \in {"none", "refresh", "fire"}
  BY DEF DriverInv, HostSound, LoopSound
<1>1. ASSUME ReadIsOwed, ~stopped,
             UNCHANGED <<refreshRequested, fireRequested, failureRetry, drive>>
      PROVE  ReadServed
  BY <1>1, OwedRemains
<1>2. ASSUME UNCHANGED unnotified, Busy(lanes) \subseteq Busy(lanes') PROVE ReadIsOwed
  <2>1. ~ReadAsked
    BY <1>2 DEF ReadAsked, Busy
  <2> QED BY <2>1
<1>3. CASE UNCHANGED vars \/ Tick \/ \E k \in Keys : ClientMutates(k) \/ EntityChanges(k)
  <2>1. /\ UNCHANGED <<stopped, lanes, refreshRequested, fireRequested, failureRetry, drive>>
        /\ unnotified' \in {unnotified, TRUE}
    BY <1>3 DEF vars, schedulerVars, Tick, ClientMutates, EntityChanges
  <2>2. ~ReadAsked
    BY <2>1 DEF ReadAsked
  <2> QED BY <1>1, <2>1, <2>2
<1>4. CASE \E k \in Keys : LaneTurn(k)
  <2>1. LaneFrame /\ Busy(lanes') = Busy(lanes)
    BY <1>0, <1>4, LaneTurnMoves
  <2> QED BY <1>1, <1>2, <2>1 DEF LaneFrame
<1>5. CASE ExecuteAdopt \/ ExecutePeek \/ ExecuteClaim
  <2>1. /\ drive'.call = drive.call /\ drive.call # "none" /\ drive'.op = drive.op
        /\ UNCHANGED <<refreshRequested, fireRequested, failureRetry, lanes, unnotified>>
    BY <1>0, <1>5, ExecuteAnswers
  <2>2. ReadIsOwed' /\ Driving'
    BY <1>2, <2>1, SentShape DEF ReadIsOwed, Driving
  <2> QED BY <2>2 DEF ReadServed
<1>6. CASE AdoptAnswered
  <2>1. PICK fire \in BOOLEAN, refresh \in BOOLEAN, t \in {timer, NoTimer} :
           Rested(lanes, fire, refresh, t)
    BY <1>0, <1>6, AdoptRests
  <2>2. lanes' = lanes /\ stopped' = stopped /\ drive.state = "executed"
    BY <1>6 DEF AdoptAnswered, InCall
  <2>3. CASE drive' = Returned
    BY <1>0, <1>6, <2>2, <2>3, AdoptRests DEF ReadServed, Available, Busy
  <2>4. CASE drive'.state = "sent" /\ drive' # Returned
    BY <2>1, <2>2, <2>4, RestedDrives DEF ReadServed, ReadIsOwed, InCall
  <2> QED BY <2>1, <2>3, <2>4, RestedDrives
<1>7. CASE PeekAnswered
  <2> DEFINE t == IF stopped THEN timer
                  ELSE IF drive.next = Never THEN NoTimer ELSE WakeTimer(drive.next)
  <2>1. /\ Loop(lanes, adopted, fireRequested, refreshRequested, t)
        /\ stopped' = stopped /\ failureRetry' = failureRetry
        /\ lanes' = lanes /\ unnotified' = unnotified
        /\ drive.call = "peek" /\ drive.state = "executed"
    BY <1>7 DEF PeekAnswered, InCall
  <2> HIDE DEF t
  <2>2. Rested(lanes', fireRequested, refreshRequested, t)
    BY <1>0, <2>1, LoopRests
  <2>3. fireRequested \/ refreshRequested \/ failureRetry # "none"
    BY <1>0, <1>2, <2>1 DEF ReadIsOwed, DriveSound
  <2>4. CASE failureRetry' # "none"
    BY <2>4 DEF ReadServed, ReadIsOwed
  <2> QED BY <2>1, <2>2, <2>3, <2>4, RestedServes
<1>8. CASE ClaimAnswered
  <2> DEFINE asked == TRUE
  <2>1. Loop(lanes', adopted, fireRequested, asked, timer) /\ asked \in BOOLEAN
    BY <1>8, Zenon DEF ClaimAnswered
  <2>2. stopped' = stopped /\ drive.state = "executed"
    BY <1>8 DEF ClaimAnswered, InCall
  <2>3. asked
    OBVIOUS
  <2> HIDE DEF asked
  <2>4. Rested(lanes', fireRequested, asked, timer)
    BY <1>0, <2>1, LoopRests
  <2> QED BY <2>2, <2>3, <2>4, RestedServes
<1>9. CASE CallFails
  <2>1. stopped' = stopped /\ (~stopped => failureRetry' \in {"fire", "refresh"})
    BY <1>9 DEF CallFails, Fail
  <2> QED BY <2>1 DEF ReadServed, ReadIsOwed
<1>10. CASE DriveSettles
  <2>1. /\ stopped' = stopped /\ failureRetry' = failureRetry
        /\ lanes' = lanes /\ unnotified' = unnotified /\ drive = Returned
    BY <1>10 DEF DriveSettles
  <2>2. fireRequested \/ refreshRequested \/ failureRetry # "none"
    BY <1>2, <2>1, SentShape DEF ReadIsOwed
  <2>3. CASE failureRetry' # "none"
    BY <2>3 DEF ReadServed, ReadIsOwed
  <2>4. CASE Rested(lanes', fireRequested, refreshRequested, timer)
             /\ (fireRequested \/ refreshRequested)
    BY <2>1, <2>4, SentShape, RestedServes
  <2> QED BY <1>0, <1>10, <2>1, <2>2, <2>3, <2>4, SettlesRests
<1>11. CASE WakeTimerFires
  <2> DEFINE asked == TRUE
  <2>1. /\ Kick(lanes', asked, refreshRequested, NoTimer, failureRetry) /\ asked \in BOOLEAN
        /\ stopped' = stopped /\ failureRetry' = failureRetry
    BY <1>11, Zenon DEF WakeTimerFires
  <2>2. asked \/ refreshRequested
    OBVIOUS
  <2> HIDE DEF asked
  <2> QED BY <1>0, <2>1, <2>2, KickServes
<1>12. CASE RetryTimerFires
  <2> DEFINE fire == fireRequested \/ failureRetry = "fire"
             refresh == refreshRequested \/ failureRetry = "refresh"
             none == "none"
  <2>1. /\ Kick(lanes', fire, refresh, NoTimer, none)
        /\ failureRetry' = none /\ stopped' = stopped /\ timer.kind = "retry"
    BY <1>12, Zenon DEF RetryTimerFires
  <2>2. fire \in BOOLEAN /\ refresh \in BOOLEAN
    OBVIOUS
  <2>3. fire \/ refresh
    BY <1>0, <2>1 DEF RetryInv
  <2> HIDE DEF fire, refresh, none
  <2> QED BY <1>0, <2>1, <2>2, <2>3, KickServes
<1>13. CASE NotifyChanged
  <2>1. RequestRefresh(lanes') /\ UNCHANGED <<stopped, failureRetry>>
    BY <1>13 DEF NotifyChanged
  <2> QED BY <2>1, RequestRefreshServes
<1>14. CASE \E k \in Keys : LaneEnds(k)
  <2>1. RequestRefresh(lanes') /\ UNCHANGED <<stopped, failureRetry>>
    BY <1>14 DEF LaneEnds
  <2> QED BY <2>1, RequestRefreshServes
<1>15. CASE Start
  <2>1. drive' = Sent("refresh", "adopt", lanes)
    BY <1>15 DEF Start, Rest
  <2>2. drive'.call = "adopt"
    BY <2>1, SentShape
  <2> QED BY <2>2, SentShape DEF ReadServed, ReadIsOwed, Driving
<1>16. CASE Stop \/ Restart
  BY <1>16 DEF Stop, Restart
<1> QED BY <1>3, <1>4, <1>5, <1>6, <1>7, <1>8, <1>9, <1>10, <1>11, <1>12, <1>13, <1>14, <1>15, <1>16
    DEF Next, DriveStep, LaneStep, LaneTurn

-----------------------------------------------------------------------------
(* The inductive invariant of the composed system, and what follows from it *)

SchedulerInv ==
    /\ SchedulerBase
    /\ RestsUnasked /\ RetryInv
    /\ ClaimsAcceptable
    /\ Covered

\* It holds initially,
LEMMA SchedulerInvInit == Init => SchedulerInv
<1> SUFFICES ASSUME Init PROVE SchedulerInv
  OBVIOUS
<1>1. SchedulerBase
  BY SchedulerBaseInit
<1>2. RestsUnasked /\ RetryInv
  BY DEF Init, RestsUnasked, RetryInv, NoTimer
<1>3. Busy(lanes) = {} /\ drive.due = {}
  BY SentShape DEF Init, Busy, NoLane
<1>4. ClaimsAcceptable
  BY <1>3 DEF ClaimsAcceptable
<1>5. Covered
  BY DEF Init, Covered
<1> QED BY <1>1, <1>2, <1>4, <1>5 DEF SchedulerInv

\* every step keeps it,
LEMMA SchedulerInvStep == SchedulerInv /\ [Next]_vars => SchedulerInv'
<1> SUFFICES ASSUME SchedulerInv, [Next]_vars PROVE SchedulerInv'
  OBVIOUS
<1>1. /\ StoreInv /\ BoundedInv /\ DriverInv /\ SchedulerBase
      /\ RestsUnasked /\ RetryInv /\ ClaimsAcceptable /\ Covered
  BY DEF SchedulerInv, SchedulerBase
<1>2. SchedulerBase'
  BY <1>1, SchedulerBaseStep
<1>3. RestsUnasked' /\ RetryInv'
  BY <1>1, RequestsStep
<1>4. ClaimsAcceptable'
  BY <1>1, AcceptableStep
<1>5. Covered'
  BY <1>1, CoveredStep
<1> QED BY <1>2, <1>3, <1>4, <1>5 DEF SchedulerInv

\* and so it always holds.
LEMMA SchedulerInvariance == Spec => []SchedulerInv
  BY SchedulerInvInit, SchedulerInvStep, PTL DEF Spec

\* The driver's fields, the operation in flight and the lanes keep their shapes.
THEOREM SchedulerTypeCorrect == Spec => []TypeOK
<1>1. SchedulerBase => TypeOK
  BY DEF SchedulerBase, StoreInv, DriverInv, HostSound, LoopSound, DriveSound, Timer, Drive, Lane,
         TypeOK
<1> QED BY <1>1, SchedulerBaseInvariance, PTL

\* The driver never runs more lanes than its concurrency: the limit it claims
\* with was computed before the awaited alarmClaimDue, and no lane starts
\* meanwhile.
THEOREM LanesStayWithinConcurrency == Spec => []LaneLimit
<1>1. SchedulerBase => LaneLimit
  BY DEF SchedulerBase, DriverInv
<1> QED BY <1>1, SchedulerBaseInvariance, PTL

\* No request for a read is lost: one made while an operation runs, while it
\* fails, or after the loop ended and before the driver lets go of its promise is
\* sent after it was made, or stays owed by a driver that runs or retries.
THEOREM RequestsStayDriven == Spec => RequestsAreDriven
<1>1. SchedulerInv /\ [Next]_vars =>
        ((ReadAsked \/ ReadIsOwed) /\ ~stopped' /\ worker' = worker => ReadServed)
  BY ServedStep DEF SchedulerInv, SchedulerBase
<1>2. SchedulerInv /\ [Next]_vars =>
        [(ReadAsked \/ ReadIsOwed) /\ ~stopped' /\ worker' = worker =>
           \/ ReadIsOwed' /\ (Driving' \/ failureRetry' # "none")
           \/ InCall("peek", "sent")' /\ drive' # drive
           \/ Available(lanes)' <= 0]_vars
  BY <1>1 DEF ReadServed
<1> QED BY <1>2, SchedulerInvariance, PTL DEF Spec, RequestsAreDriven

\* No request, clear, publication, rotation or retirement during a dispatch can
\* make the alarmComplete of a lane that still owns its row throw.
THEOREM OwnedClaimsCanComplete == Spec => []OwnedClaimCanComplete
<1>1. ASSUME SchedulerInv PROVE OwnedClaimCanComplete
  <2> SUFFICES ASSUME NEW k \in Keys, lanes[k].phase = "completing",
                      Owns(k, worker, lanes[k].generation)
               PROVE  CanComplete(k)
    BY DEF OwnedClaimCanComplete
  <2>1. /\ StoreInv /\ ClaimsAcceptable
    BY <1>1 DEF SchedulerInv, SchedulerBase
  <2>2. k \in Busy(lanes)
    BY DEF Busy
  <2>3. AcknowledgementAccepted(k, lanes[k].token, lanes[k].generation)
    BY <2>1, <2>2 DEF ClaimsAcceptable, Acceptable
  <2>4. Active(k)
    BY <2>1 DEF StoreInv, KeyInv, Owns
  <2> QED BY <2>3, <2>4 DEF CanComplete
<1> QED BY <1>1, SchedulerInvariance, PTL

\* No lost wake-up: a running driver at rest with a lane free has its timer
\* armed no later than the soonest row it could claim, although rows may have
\* been set, released and re-armed while the read that armed it was in flight.
THEOREM TimerAlwaysCoversSoonestWake == Spec => []TimerCoversSoonestWake
<1>1. ASSUME SchedulerInv PROVE TimerCoversSoonestWake
  <2> DEFINE open == Unclaimed(Busy(lanes))
  <2> SUFFICES ASSUME ~stopped, ~Driving, failureRetry = "none", ~unnotified,
                      Available(lanes) > 0, open # {}
               PROVE  timer.kind = "wake" /\ timer.at <= NextWakeAt(Busy(lanes))
    BY DEF TimerCoversSoonestWake
  <2>1. /\ StoreInv /\ BoundedInv /\ RestsUnasked /\ Covered
    BY <1>1 DEF SchedulerInv, SchedulerBase
  <2>2. ~fireRequested /\ ~refreshRequested
    BY <2>1 DEF RestsUnasked
  <2>a. drive.call = "none"
    BY SentShape DEF Driving
  <2>3. ~(Available(lanes) <= 0)
    BY Lanes
  <2>4. Armed
    BY <2>1, <2>2, <2>a, <2>3 DEF Covered, Announced
  <2>5. PICK k \in open : NextWakeAt(Busy(lanes)) = alarms[k].wakeAt
    BY <2>1, NextWake
  <2> QED BY <2>4, <2>5 DEF Armed
<1> QED BY <1>1, SchedulerInvariance, PTL

\* The store's promises under arbitrary callers hold of the composed system:
\* the whole of it implements the lease-and-debt contract.
THEOREM SchedulerImplementsWakeLease == Spec => ImplementsWakeLease
  BY SchedulerImplementsStore, StoreImplementsWakeLease, PTL

=============================================================================
