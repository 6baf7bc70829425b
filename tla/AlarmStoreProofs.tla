-------------------------- MODULE AlarmStoreProofs --------------------------
(***************************************************************************)
(* Theorems about AlarmStore for every set of keys and workers and every   *)
(* bound.                                                                  *)
(***************************************************************************)
EXTENDS AlarmStore, TLAPS

\* The bounds are naturals, one by one.
LEMMA BoundsNat ==
    /\ MaxTime \in Nat /\ MaxIncarnation \in Nat /\ MaxRevision \in Nat
    /\ MaxRequest \in Nat /\ MaxClaim \in Nat
  BY BoundsAssumption

\* The empty records and the row updates produce stored records.
LEMMA RowTypes ==
    /\ NoRow \in AlarmRow /\ NoSource \in SourceRow /\ NoRequest \in RequestRow
    /\ NoToken \in WakeToken
    /\ \A row \in AlarmRow, t \in Nat : Upsert(row, t) \in AlarmRow
    /\ \A row \in AlarmRow, q \in RequestRow : EnsureRequested(row, q) \in AlarmRow
    /\ \A q \in RequestRow, i \in Nat : Requested(q, i) \in RequestRow
    /\ \A q \in RequestRow, token \in WakeToken : Acknowledged(q, token) \in RequestRow
<1>1. /\ NoRow \in AlarmRow /\ NoSource \in SourceRow /\ NoRequest \in RequestRow
      /\ NoToken \in WakeToken
  BY DEF NoRow, NoSource, NoRequest, NoToken, AlarmRow, SourceRow, RequestRow, WakeToken,
         Owners, Never
<1>2. \A row \in AlarmRow, t \in Nat : Upsert(row, t) \in AlarmRow
  BY DEF Upsert, AlarmRow, Owners
<1>3. \A row \in AlarmRow, q \in RequestRow : EnsureRequested(row, q) \in AlarmRow
  BY DEF EnsureRequested, AlarmRow
<1>4. \A q \in RequestRow, i \in Nat : Requested(q, i) \in RequestRow
  <2> SUFFICES ASSUME NEW q \in RequestRow, NEW i \in Nat PROVE Requested(q, i) \in RequestRow
    OBVIOUS
  <2>1. q.generation + 1 \in Nat
    BY DEF RequestRow
  <2> QED BY <2>1 DEF Requested, RequestRow
<1>5. \A q \in RequestRow, token \in WakeToken : Acknowledged(q, token) \in RequestRow
  BY DEF Acknowledged, RequestRow, WakeToken
<1> QED BY <1>1, <1>2, <1>3, <1>4, <1>5

\* nextClaimGeneration returns a natural above the counter and the row.
LEMMA NextClaimAbove ==
    ASSUME StoreTypeOK, NEW k \in Keys
    PROVE  /\ NextClaim(k) \in Nat
           /\ NextClaim(k) > claimCounter[k]
           /\ NextClaim(k) > alarms[k].generation
  BY DEF StoreTypeOK, AlarmRow, NextClaim

\* StoreTypeOK is preserved by every operation of the store.
LEMMA TypeStep == StoreTypeOK /\ [StoreNext]_storeVars => StoreTypeOK'
<1> SUFFICES ASSUME StoreTypeOK, [StoreNext]_storeVars PROVE StoreTypeOK'
    OBVIOUS
<1> USE BoundsNat, RowTypes
<1>1. ASSUME NEW k \in Keys, EntityStep(k) PROVE StoreTypeOK'
  <2>1. CASE ActivatePlain(k)
    BY <2>1 DEF ActivatePlain, ForgetKey, StoreTypeOK
  <2>2. ASSUME NEW i \in 1 .. MaxIncarnation, ActivateNative(k, i) PROVE StoreTypeOK'
    <3> i \in Nat
      OBVIOUS
    <3>1. [NoSource EXCEPT !.incarnation = i] \in SourceRow
      BY DEF SourceRow
    <3> QED BY <2>2, <3>1 DEF ActivateNative, StoreTypeOK
  <2>3. CASE Retire(k)
    BY <2>3 DEF Retire, ForgetKey, StoreTypeOK
  <2> QED BY <1>1, <2>1, <2>2, <2>3 DEF EntityStep
<1>2. ASSUME NEW k \in Keys, SourceStep(k) PROVE StoreTypeOK'
  <2>1. ASSUME NEW i \in 1 .. MaxIncarnation, NEW r \in 0 .. MaxRevision, NEW t \in Wakes,
               PublishAccepted(k, i, r, t)
        PROVE  StoreTypeOK'
    <3>1. [incarnation |-> i, revision |-> r, wakeAt |-> t] \in SourceRow
      BY DEF SourceRow, Wakes, Times, Never
    <3>2. t # Never => t \in Nat
      BY DEF Wakes, Times, Never
    <3> QED BY <2>1, <3>1, <3>2 DEF PublishAccepted, StoreTypeOK
  <2>2. CASE PublishDuplicate(k)
    <3>1. sources[k].wakeAt # Never => sources[k].wakeAt \in Nat
      BY DEF StoreTypeOK, SourceRow
    <3> QED BY <2>2, <3>1 DEF PublishDuplicate, StoreTypeOK
  <2>3. ASSUME NEW i \in 1 .. MaxIncarnation, WakeRequest(k, i) PROVE StoreTypeOK'
    <3>1. requests' \in [Keys -> RequestRow]
      BY <2>3 DEF WakeRequest, StoreTypeOK
    <3> QED BY <2>3, <3>1 DEF WakeRequest, StoreTypeOK
  <2> QED BY <1>2, <2>1, <2>2, <2>3 DEF SourceStep
<1>3. ASSUME NEW k \in Keys, AlarmStep(k) PROVE StoreTypeOK'
  <2>1. ASSUME NEW t \in Times, NEW p \in BOOLEAN, AlarmSet(k, t, p) PROVE StoreTypeOK'
    <3>1. t \in Nat
      BY DEF Times
    <3> QED BY <2>1, <3>1 DEF AlarmSet, StoreTypeOK
  <2>2. CASE AlarmClear(k)
    <3>1. requests' \in [Keys -> RequestRow]
      BY <2>2 DEF AlarmClear, StoreTypeOK
    <3> QED BY <2>2, <3>1 DEF AlarmClear, StoreTypeOK
  <2> QED BY <1>3, <2>1, <2>2 DEF AlarmStep
<1>4. ASSUME NEW k \in Keys, NEW w \in Workers, NEW g \in 1 .. MaxClaim, ClaimStep(k, w, g)
      PROVE  StoreTypeOK'
  <2>1. ASSUME NEW t \in Times, AlarmSetClaimed(k, w, g, t) PROVE StoreTypeOK'
    <3>1. t \in Nat
      BY DEF Times
    <3> QED BY <2>1, <3>1 DEF AlarmSetClaimed, StoreTypeOK
  <2>2. ASSUME NEW token \in WakeToken, NEW next \in Wakes, NEW p \in BOOLEAN,
               AlarmComplete(k, w, g, token, next, p)
        PROVE  StoreTypeOK'
    <3>1. requests' \in [Keys -> RequestRow]
      BY <2>2 DEF AlarmComplete, StoreTypeOK
    <3>2. next # Never => next \in Nat
      BY DEF Wakes, Times, Never
    <3> QED BY <2>2, <3>1, <3>2 DEF AlarmComplete, StoreTypeOK
  <2>3. \A i \in 1 .. MaxIncarnation, r \in 1 .. MaxRequest :
           [incarnation |-> i, generation |-> r] \in WakeToken
    BY DEF WakeToken
  <2> QED BY <1>4, <2>1, <2>2, <2>3 DEF ClaimStep
<1>5. ASSUME NEW w \in Workers, SchedulerStep(w) PROVE StoreTypeOK'
  <2>1. CASE AlarmAdoptWorker(w)
    <3>1. \A k \in Keys : [alarms[k] EXCEPT !.owner = NoOwner] \in AlarmRow
      BY DEF StoreTypeOK, AlarmRow, Owners
    <3>2. \A k \in Keys : Upsert(alarms[k], 0) \in AlarmRow
      BY DEF StoreTypeOK
    <3> QED BY <2>1, <3>1, <3>2 DEF AlarmAdoptWorker, StoreTypeOK, Owners
  <2>2. ASSUME NEW S \in SUBSET Keys, AlarmClaimDue(w, S) PROVE StoreTypeOK'
    <3>1. \A k \in Keys : NextClaim(k) \in Nat
      BY NextClaimAbove
    <3>2. alarms' \in [Keys -> AlarmRow]
      BY <2>2, <3>1 DEF AlarmClaimDue, StoreTypeOK, AlarmRow, Owners
    <3>3. requests' \in [Keys -> RequestRow]
      BY <2>2, <3>1 DEF AlarmClaimDue, StoreTypeOK, RequestRow
    <3> QED BY <2>2, <3>1, <3>2, <3>3 DEF AlarmClaimDue, StoreTypeOK
  <2>3. \A now \in Times, limit \in 1 .. Cardinality(Keys), exclude \in SUBSET Keys :
           SoonestDue(now, limit, exclude) \subseteq SUBSET Keys
    BY DEF SoonestDue, DueRows, Unclaimed
  <2> QED BY <1>5, <2>1, <2>2, <2>3 DEF SchedulerStep
<1>6. CASE UNCHANGED storeVars
  BY <1>6 DEF storeVars, StoreTypeOK
<1> QED BY <1>1, <1>2, <1>3, <1>4, <1>5, <1>6 DEF StoreNext

\* Every stored record keeps its shape: no operation of the store, by any
\* caller, writes a malformed row.
THEOREM StoreTypeCorrect == StoreSpec => []StoreTypeOK
<1>1. StoreInit => StoreTypeOK
  BY RowTypes DEF StoreInit, StoreTypeOK, Owners
<1> QED BY <1>1, TypeStep, PTL DEF StoreSpec

-----------------------------------------------------------------------------
(* The inductive invariant, key by key *)

KeyInv(k) ==
    /\ alarms[k].owner # NoOwner =>
         /\ Scheduled(k) /\ alarms[k].owner = activeWorker
         /\ alarms[k].generation >= 1
    /\ alarms[k].generation <= claimCounter[k]
    /\ HasPendingRequest(k) => Scheduled(k)
    /\ ~Active(k) => ~Scheduled(k) /\ ~Registered(k) /\ requests[k] = NoRequest
    /\ k \in policies => Scheduled(k)
    /\ requests[k] # NoRequest => requests[k].incarnation = sources[k].incarnation
    /\ requests[k].acknowledged <= requests[k].generation
    /\ requests[k].claimed # 0 => /\ requests[k].acknowledged < requests[k].claimed
                                 /\ requests[k].claimed <= requests[k].generation

StoreInv == StoreTypeOK /\ \A k \in Keys : KeyInv(k)

\* An operation on one key leaves the others alone.
LEMMA OneKey ==
    ASSUME StoreInv, StoreTypeOK', NEW k \in Keys, KeyInv(k)',
           activeWorker' = activeWorker,
           \A j \in Keys \ {k} :
              /\ entity'[j] = entity[j] /\ alarms'[j] = alarms[j]
              /\ j \in policies' <=> j \in policies
              /\ sources'[j] = sources[j] /\ requests'[j] = requests[j]
              /\ claimCounter'[j] = claimCounter[j]
    PROVE  StoreInv'
<1>1. ASSUME NEW j \in Keys, j # k PROVE KeyInv(j)'
  <2>1. KeyInv(j)
    BY DEF StoreInv
  <2>2. /\ entity'[j] = entity[j] /\ alarms'[j] = alarms[j]
        /\ j \in policies' <=> j \in policies
        /\ sources'[j] = sources[j] /\ requests'[j] = requests[j]
        /\ claimCounter'[j] = claimCounter[j]
    BY <1>1
  <2> QED BY <2>1, <2>2 DEF KeyInv, Scheduled, Active, Registered, HasPendingRequest
<1> QED BY <1>1 DEF StoreInv

\* The empty row and request satisfy what the invariant asks of a forgotten key.
LEMMA EmptyRows ==
    /\ NoRow.owner = NoOwner /\ NoRow.wakeAt = Never /\ NoRow.generation = 0
    /\ NoRequest.generation = 0 /\ NoRequest.acknowledged = 0 /\ NoRequest.claimed = 0
    /\ NoSource.incarnation = 0
  BY DEF NoRow, NoRequest, NoSource

\* A row update releases the claim or keeps it, and never lowers the generation's bound.
LEMMA RowFields ==
    /\ \A row \in AlarmRow, t \in Nat :
         /\ Upsert(row, t).owner = NoOwner /\ Upsert(row, t).wakeAt = t
         /\ Upsert(row, t).generation = row.generation
    /\ \A row \in AlarmRow, q \in RequestRow :
         /\ EnsureRequested(row, q).owner = row.owner
         /\ EnsureRequested(row, q).generation = row.generation
         /\ q.generation > q.acknowledged => EnsureRequested(row, q).wakeAt = 0
         /\ row.wakeAt # Never => EnsureRequested(row, q).wakeAt # Never
         /\ ~(q.generation > q.acknowledged) => EnsureRequested(row, q) = row
<1>1. ASSUME NEW row \in AlarmRow, NEW t \in Nat
      PROVE  /\ Upsert(row, t).owner = NoOwner /\ Upsert(row, t).wakeAt = t
             /\ Upsert(row, t).generation = row.generation
  BY DEF Upsert, AlarmRow
<1>2. ASSUME NEW row \in AlarmRow, NEW q \in RequestRow
      PROVE  /\ EnsureRequested(row, q).owner = row.owner
             /\ EnsureRequested(row, q).generation = row.generation
             /\ q.generation > q.acknowledged => EnsureRequested(row, q).wakeAt = 0
             /\ row.wakeAt # Never => EnsureRequested(row, q).wakeAt # Never
             /\ ~(q.generation > q.acknowledged) => EnsureRequested(row, q) = row
  BY DEF EnsureRequested, AlarmRow, Never
<1> QED BY <1>1, <1>2

\* A key whose row, request, registration and policy were dropped is in order.
LEMMA ForgottenKey ==
    ASSUME StoreInv, NEW k \in Keys,
           alarms'[k] = NoRow, requests'[k] = NoRequest, k \notin policies',
           claimCounter'[k] = claimCounter[k],
           Active(k)' \/ sources'[k] = NoSource
    PROVE  KeyInv(k)'
<1>1. claimCounter[k] \in Nat
  BY DEF StoreInv, StoreTypeOK
<1> QED BY <1>1, EmptyRows DEF KeyInv, HasPendingRequest, Scheduled, Registered

\* Activation, registration and retirement keep the invariant.
LEMMA EntityStepInv ==
    ASSUME StoreInv, StoreTypeOK', NEW k \in Keys, EntityStep(k) PROVE StoreInv'
<1>1. KeyInv(k)
  BY DEF StoreInv
<1>2. CASE ActivatePlain(k)
  <2>1. CASE Registered(k)
    <3>1. KeyInv(k)'
      BY <1>2, <2>1, ForgottenKey DEF ActivatePlain, ForgetKey, StoreInv, StoreTypeOK
    <3> QED BY <1>2, <2>1, <3>1, OneKey DEF ActivatePlain, ForgetKey, StoreInv, StoreTypeOK
  <2>2. CASE ~Registered(k)
    <3>1. KeyInv(k)'
      BY <1>1, <1>2, <2>2
      DEF ActivatePlain, KeyInv, StoreInv, StoreTypeOK, Active, Scheduled, Registered, HasPendingRequest
    <3> QED BY <1>2, <2>2, <3>1, OneKey DEF ActivatePlain, StoreInv, StoreTypeOK
  <2> QED BY <2>1, <2>2
<1>3. ASSUME NEW i \in 1 .. MaxIncarnation, ActivateNative(k, i) PROVE StoreInv'
  <2>1. CASE i = sources[k].incarnation
    <3>1. KeyInv(k)'
      BY <1>1, <1>3, <2>1
      DEF ActivateNative, KeyInv, StoreInv, StoreTypeOK, Active, Scheduled, Registered, HasPendingRequest
    <3> QED BY <1>3, <2>1, <3>1, OneKey DEF ActivateNative, StoreInv, StoreTypeOK
  <2>2. CASE i # sources[k].incarnation
    <3>1. Active(k)'
      BY <1>3 DEF ActivateNative, Active, StoreInv, StoreTypeOK
    <3>2. KeyInv(k)'
      BY <1>3, <2>2, <3>1, ForgottenKey DEF ActivateNative, StoreInv, StoreTypeOK
    <3> QED BY <1>3, <2>2, <3>2, OneKey DEF ActivateNative, StoreInv, StoreTypeOK
  <2> QED BY <2>1, <2>2
<1>4. CASE Retire(k)
  <2>1. KeyInv(k)'
    BY <1>4, ForgottenKey DEF Retire, ForgetKey, StoreInv, StoreTypeOK
  <2> QED BY <1>4, <2>1, OneKey DEF Retire, ForgetKey, StoreInv, StoreTypeOK
<1> QED BY <1>2, <1>3, <1>4 DEF EntityStep

\* Publications and requests keep the invariant.
LEMMA SourceStepInv ==
    ASSUME StoreInv, StoreTypeOK', NEW k \in Keys, SourceStep(k) PROVE StoreInv'
<1>1. KeyInv(k) /\ alarms[k] \in AlarmRow /\ requests[k] \in RequestRow
  BY DEF StoreInv, StoreTypeOK
<1>2. ASSUME NEW i \in 1 .. MaxIncarnation, NEW r \in 0 .. MaxRevision, NEW t \in Wakes,
             PublishAccepted(k, i, r, t)
      PROVE  StoreInv'
  <2>1. t # Never => t \in Nat
    BY BoundsNat DEF Wakes, Times, Never
  <2>2. sources'[k].incarnation = sources[k].incarnation
    BY <1>2 DEF PublishAccepted, StoreInv, StoreTypeOK
  <2>3. KeyInv(k)'
    <3>1. CASE HasPendingRequest(k)
      BY <1>1, <1>2, <2>2, <3>1, RowFields
      DEF PublishAccepted, KeyInv, StoreInv, StoreTypeOK, Active, Scheduled, Registered,
          HasPendingRequest
    <3>2. CASE ~HasPendingRequest(k) /\ t = Never
      BY <1>1, <1>2, <2>2, <3>2, EmptyRows
      DEF PublishAccepted, KeyInv, StoreInv, StoreTypeOK, Active, Scheduled, Registered,
          HasPendingRequest
    <3>3. CASE ~HasPendingRequest(k) /\ t # Never
      BY <1>1, <1>2, <2>1, <2>2, <3>3, RowFields
      DEF PublishAccepted, KeyInv, StoreInv, StoreTypeOK, Active, Scheduled, Registered,
          HasPendingRequest
    <3> QED BY <3>1, <3>2, <3>3
  <2> QED BY <1>2, <2>3, OneKey DEF PublishAccepted, StoreInv, StoreTypeOK
<1>3. CASE PublishDuplicate(k)
  <2>1. sources[k].wakeAt # Never => sources[k].wakeAt \in Nat
    BY DEF StoreInv, StoreTypeOK, SourceRow
  <2>2. KeyInv(k)'
    <3>1. CASE HasPendingRequest(k)
      BY <1>1, <1>3, <3>1, RowFields
      DEF PublishDuplicate, KeyInv, StoreInv, StoreTypeOK, Active, Scheduled, Registered,
          HasPendingRequest
    <3>2. CASE ~HasPendingRequest(k) /\ sources[k].wakeAt = Never
      BY <1>1, <1>3, <3>2, EmptyRows
      DEF PublishDuplicate, KeyInv, StoreInv, StoreTypeOK, Active, Scheduled, Registered,
          HasPendingRequest
    <3>3. CASE ~HasPendingRequest(k) /\ sources[k].wakeAt # Never /\ Scheduled(k)
      BY <1>1, <1>3, <3>3
      DEF PublishDuplicate, KeyInv, StoreInv, StoreTypeOK, Active, Scheduled, Registered,
          HasPendingRequest
    <3>4. CASE ~HasPendingRequest(k) /\ sources[k].wakeAt # Never /\ ~Scheduled(k)
      <4>1. alarms'[k] = Upsert(NoRow, sources[k].wakeAt)
        BY <1>3, <3>4 DEF PublishDuplicate, StoreInv, StoreTypeOK
      <4>2. /\ alarms'[k].owner = NoOwner /\ alarms'[k].wakeAt # Never
            /\ alarms'[k].generation = 0
        BY <3>4, <4>1 DEF Upsert, NoRow
      <4>3. claimCounter[k] \in Nat
        BY DEF StoreInv, StoreTypeOK
      <4> QED BY <1>1, <1>3, <3>4, <4>2, <4>3
          DEF PublishDuplicate, KeyInv, Active, Scheduled, Registered, HasPendingRequest
    <3> QED BY <3>1, <3>2, <3>3, <3>4
  <2> QED BY <1>3, <2>2, OneKey DEF PublishDuplicate, StoreInv, StoreTypeOK
<1>4. ASSUME NEW i \in 1 .. MaxIncarnation, WakeRequest(k, i) PROVE StoreInv'
  <2>1. requests'[k] = Requested(requests[k], i) /\ requests'[k] \in RequestRow
    BY <1>4 DEF WakeRequest, StoreInv, StoreTypeOK
  <2>2. /\ requests'[k].generation = requests[k].generation + 1
        /\ requests'[k].incarnation = i
        /\ requests'[k].acknowledged = requests[k].acknowledged
        /\ requests'[k].claimed = requests[k].claimed
    BY <1>1, <2>1 DEF Requested, RequestRow
  <2>3. requests[k].generation \in Nat /\ requests[k].acknowledged \in Nat
        /\ requests[k].claimed \in Nat
    BY <1>1 DEF RequestRow
  <2>4. alarms'[k] = EnsureRequested(alarms[k], requests'[k])
    BY <1>4 DEF WakeRequest, StoreInv, StoreTypeOK
  <2>5. KeyInv(k)'
    BY <1>1, <1>4, <2>1, <2>2, <2>3, <2>4, RowFields
    DEF WakeRequest, KeyInv, Active, Scheduled, Registered, HasPendingRequest, Never
  <2> QED BY <1>4, <2>5, OneKey DEF WakeRequest, StoreInv, StoreTypeOK
<1> QED BY <1>2, <1>3, <1>4 DEF SourceStep

\* Fresh scheduling decisions keep the invariant.
LEMMA AlarmStepInv ==
    ASSUME StoreInv, StoreTypeOK', NEW k \in Keys, AlarmStep(k) PROVE StoreInv'
<1>1. /\ KeyInv(k) /\ alarms[k] \in AlarmRow /\ requests[k] \in RequestRow
      /\ claimCounter[k] \in Nat
  BY DEF StoreInv, StoreTypeOK
<1>2. ASSUME NEW t \in Times, NEW p \in BOOLEAN, AlarmSet(k, t, p) PROVE StoreInv'
  <2>1. t \in Nat /\ t # Never
    BY BoundsNat DEF Times, Never
  <2>2. alarms'[k] = EnsureRequested(Upsert(alarms[k], t), requests[k])
    BY <1>2 DEF AlarmSet, StoreInv, StoreTypeOK
  <2>3. Upsert(alarms[k], t) \in AlarmRow
    BY <1>1, <2>1, RowTypes
  <2>4. /\ alarms'[k].owner = NoOwner /\ alarms'[k].wakeAt # Never
        /\ alarms'[k].generation = alarms[k].generation
    BY <1>1, <2>1, <2>2, <2>3, RowFields
  <2>5. KeyInv(k)'
    BY <1>1, <1>2, <2>4
    DEF AlarmSet, KeyInv, Active, Scheduled, Registered, HasPendingRequest
  <2> QED BY <1>2, <2>5, OneKey DEF AlarmSet, StoreInv, StoreTypeOK
<1>3. CASE AlarmClear(k)
  <2>1. requests'[k] = requests[k]
    BY <1>1, <1>3 DEF AlarmClear, KeyInv, StoreInv, StoreTypeOK
  <2>2. alarms'[k] = EnsureRequested(NoRow, requests[k])
    BY <1>3, <2>1 DEF AlarmClear, StoreInv, StoreTypeOK
  <2>3. /\ alarms'[k].owner = NoOwner /\ alarms'[k].generation = 0
        /\ HasPendingRequest(k) => alarms'[k].wakeAt # Never
        /\ ~HasPendingRequest(k) => alarms'[k] = NoRow
    BY <2>2 DEF EnsureRequested, NoRow, HasPendingRequest, Never
  <2>4. HasPendingRequest(k) => Active(k)
    BY <1>1, EmptyRows DEF KeyInv, HasPendingRequest
  <2>5. KeyInv(k)'
    BY <1>1, <1>3, <2>1, <2>3, <2>4, EmptyRows
    DEF AlarmClear, KeyInv, Active, Scheduled, Registered, HasPendingRequest
  <2> QED BY <1>3, <2>5, OneKey DEF AlarmClear, StoreInv, StoreTypeOK
<1> QED BY <1>2, <1>3 DEF AlarmStep

\* Acknowledgements of a claim keep the invariant.
LEMMA ClaimStepInv ==
    ASSUME StoreInv, StoreTypeOK', NEW k \in Keys, NEW w \in Workers, NEW g \in 1 .. MaxClaim,
           ClaimStep(k, w, g)
    PROVE  StoreInv'
<1>1. /\ KeyInv(k) /\ alarms[k] \in AlarmRow /\ requests[k] \in RequestRow
      /\ claimCounter[k] \in Nat
  BY DEF StoreInv, StoreTypeOK
<1>2. ASSUME NEW t \in Times, AlarmSetClaimed(k, w, g, t) PROVE StoreInv'
  <2>1. t \in Nat /\ t # Never
    BY BoundsNat DEF Times, Never
  <2>2. /\ alarms'[k].owner = NoOwner /\ alarms'[k].wakeAt # Never
        /\ alarms'[k].generation = alarms[k].generation
    BY <1>1, <1>2, <2>1, RowFields DEF AlarmSetClaimed, StoreInv, StoreTypeOK
  <2>3. KeyInv(k)'
    BY <1>1, <1>2, <2>2
    DEF AlarmSetClaimed, KeyInv, Active, Scheduled, Registered, HasPendingRequest
  <2> QED BY <1>2, <2>3, OneKey DEF AlarmSetClaimed, StoreInv, StoreTypeOK
<1>3. ASSUME NEW token \in WakeToken, NEW next \in Wakes, NEW p \in BOOLEAN,
             AlarmComplete(k, w, g, token, next, p)
      PROVE  StoreInv'
  <2>1. Active(k)
    BY <1>3 DEF AlarmComplete
  <2>2. requests'[k] = Acknowledged(requests[k], token)
    BY <1>3 DEF AlarmComplete, StoreInv, StoreTypeOK
  <2>3. /\ requests'[k].incarnation = requests[k].incarnation
        /\ requests'[k].generation = requests[k].generation
        /\ requests'[k].acknowledged <= requests'[k].generation
        /\ requests'[k].claimed # 0 => /\ requests'[k].acknowledged < requests'[k].claimed
                                      /\ requests'[k].claimed <= requests'[k].generation
    <3>1. CASE token = NoToken
      BY <1>1, <2>2, <3>1 DEF Acknowledged, KeyInv
    <3>2. CASE token # NoToken
      BY <1>1, <1>3, <2>2, <3>2
      DEF AlarmComplete, AcknowledgementAccepted, Acknowledged, KeyInv, RequestRow
    <3> QED BY <3>1, <3>2
  <2>4. requests'[k] # NoRequest => requests[k] # NoRequest
    <3>1. CASE token = NoToken
      BY <2>2, <3>1 DEF Acknowledged
    <3>2. CASE token # NoToken
      BY <1>3, <3>2, EmptyRows DEF AlarmComplete, AcknowledgementAccepted
    <3> QED BY <3>1, <3>2
  <2> DEFINE row == IF next = Never THEN NoRow ELSE Upsert(alarms[k], next)
  <2>5. alarms'[k] = EnsureRequested(row, requests'[k])
    BY <1>3 DEF AlarmComplete, StoreInv, StoreTypeOK
  <2>6. next # Never => next \in Nat
    BY BoundsNat DEF Wakes, Times, Never
  <2>7. /\ row \in AlarmRow /\ row.owner = NoOwner /\ row.generation <= alarms[k].generation
        /\ next # Never => row.wakeAt # Never
    <3>1. alarms[k].generation \in Nat
      BY <1>1 DEF AlarmRow
    <3>2. CASE next = Never
      <4>1. row = NoRow
        BY <3>2
      <4> HIDE DEF row
      <4>2. NoRow \in AlarmRow
        BY RowTypes
      <4>3. NoRow.owner = NoOwner /\ NoRow.generation = 0
        BY EmptyRows
      <4>4. row.generation <= alarms[k].generation
        BY <3>1, <4>1, <4>3
      <4> QED BY <3>2, <4>1, <4>2, <4>3, <4>4
    <3>3. CASE next # Never
      <4>1. row = Upsert(alarms[k], next)
        BY <3>3
      <4> HIDE DEF row
      <4>2. Upsert(alarms[k], next) \in AlarmRow
        BY <1>1, <2>6, <3>3, RowTypes
      <4>3. /\ Upsert(alarms[k], next).owner = NoOwner /\ Upsert(alarms[k], next).wakeAt = next
            /\ Upsert(alarms[k], next).generation = alarms[k].generation
        BY <1>1, <2>6, <3>3, RowFields
      <4> QED BY <3>1, <3>3, <4>1, <4>2, <4>3
    <3> QED BY <3>2, <3>3
  <2>8. requests'[k] \in RequestRow
    BY DEF StoreTypeOK
  <2> HIDE DEF row
  <2>9. /\ alarms'[k].owner = NoOwner /\ alarms'[k].generation = row.generation
        /\ HasPendingRequest(k)' => alarms'[k].wakeAt # Never
        /\ next # Never => alarms'[k].wakeAt # Never
    BY <2>5, <2>7, <2>8, RowFields DEF HasPendingRequest, Never
  <2>10. row.generation <= claimCounter[k]
    BY <1>1, <2>7 DEF KeyInv, AlarmRow
  <2>11. KeyInv(k)'
    BY <1>1, <1>3, <2>1, <2>3, <2>4, <2>9, <2>10
    DEF AlarmComplete, KeyInv, Active, Scheduled, Registered, HasPendingRequest
  <2> QED BY <1>3, <2>11, OneKey DEF AlarmComplete, StoreInv, StoreTypeOK
<1>4. NoToken \in WakeToken
      /\ \A i \in 1 .. MaxIncarnation, r \in 1 .. MaxRequest :
           [incarnation |-> i, generation |-> r] \in WakeToken
  BY BoundsNat, RowTypes DEF WakeToken
<1> QED BY <1>2, <1>3, <1>4 DEF ClaimStep

\* Adoption and claiming keep the invariant.
LEMMA SchedulerStepInv ==
    ASSUME StoreInv, StoreTypeOK', NEW w \in Workers, SchedulerStep(w) PROVE StoreInv'
<1>1. CASE AlarmAdoptWorker(w)
  <2>1. ASSUME NEW k \in Keys PROVE KeyInv(k)'
    <3>1. /\ KeyInv(k) /\ alarms[k] \in AlarmRow
      BY DEF StoreInv, StoreTypeOK
    <3>2. /\ alarms'[k].owner = NoOwner /\ alarms'[k].generation = alarms[k].generation
          /\ Scheduled(k) => alarms'[k].wakeAt # Never
          /\ ~Active(k) => alarms'[k].wakeAt = alarms[k].wakeAt
      <4>1. CASE Active(k) /\ Registered(k)
        BY <1>1, <3>1, <4>1, RowFields DEF AlarmAdoptWorker, Never
      <4>2. CASE ~(Active(k) /\ Registered(k))
        BY <1>1, <3>1, <4>2 DEF AlarmAdoptWorker, AlarmRow, Scheduled
      <4> QED BY <4>1, <4>2
    <3> QED BY <1>1, <3>1, <3>2
        DEF AlarmAdoptWorker, KeyInv, Active, Scheduled, Registered, HasPendingRequest
  <2> QED BY <2>1 DEF StoreInv
<1>2. ASSUME NEW S \in SUBSET Keys, \A k \in S : Scheduled(k), AlarmClaimDue(w, S)
      PROVE  StoreInv'
  <2>1. ASSUME NEW k \in Keys PROVE KeyInv(k)'
    <3>1. /\ KeyInv(k) /\ alarms[k] \in AlarmRow /\ requests[k] \in RequestRow
          /\ claimCounter[k] \in Nat
      BY DEF StoreInv, StoreTypeOK
    <3>2. CASE k \notin S
      BY <1>2, <3>1, <3>2
      DEF AlarmClaimDue, KeyInv, Active, Scheduled, Registered, HasPendingRequest
    <3>3. CASE k \in S
      <4>1. NextClaim(k) \in Nat /\ NextClaim(k) > claimCounter[k]
        BY NextClaimAbove DEF StoreInv
      <4>2. /\ alarms'[k].owner = w /\ alarms'[k].generation = NextClaim(k)
            /\ alarms'[k].wakeAt = alarms[k].wakeAt
            /\ claimCounter'[k] = NextClaim(k)
        BY <1>2, <3>1, <3>3 DEF AlarmClaimDue, AlarmRow
      <4>3. /\ requests'[k].incarnation = requests[k].incarnation
            /\ requests'[k].generation = requests[k].generation
            /\ requests'[k].acknowledged = requests[k].acknowledged
            /\ requests'[k].claimed # 0 =>
                  /\ requests[k].acknowledged < requests'[k].claimed
                  /\ requests'[k].claimed <= requests[k].generation
            /\ requests[k] = NoRequest => requests'[k] = NoRequest
        <5>1. CASE requests[k].generation # requests[k].acknowledged
          <6>1. requests'[k] = [requests[k] EXCEPT !.claimed = requests[k].generation,
                                                   !.dispatch = NextClaim(k)]
            BY <1>2, <3>3, <5>1 DEF AlarmClaimDue
          <6>2. requests[k] # NoRequest
            BY <5>1, EmptyRows
          <6> QED BY <3>1, <5>1, <6>1, <6>2 DEF RequestRow, KeyInv
        <5>2. CASE requests[k].generation = requests[k].acknowledged
          BY <1>2, <3>1, <3>3, <5>2 DEF AlarmClaimDue, KeyInv
        <5> QED BY <5>1, <5>2
      <4>4. /\ Scheduled(k) /\ Scheduled(k)' /\ Active(k)'
            /\ activeWorker' = w /\ sources'[k] = sources[k]
        BY <1>2, <3>1, <3>3, <4>2 DEF AlarmClaimDue, MayClaim, KeyInv, Active, Scheduled
      <4>5. /\ requests'[k] # NoRequest => requests'[k].incarnation = sources'[k].incarnation
            /\ requests'[k].acknowledged <= requests'[k].generation
        BY <3>1, <4>3, <4>4 DEF KeyInv
      <4> QED BY <3>1, <4>1, <4>2, <4>3, <4>4, <4>5 DEF KeyInv
    <3> QED BY <3>2, <3>3
  <2> QED BY <2>1 DEF StoreInv
<1>3. \A now \in Times, limit \in 1 .. Cardinality(Keys), exclude \in SUBSET Keys :
         \A S \in SoonestDue(now, limit, exclude) : S \in SUBSET Keys /\ \A k \in S : Scheduled(k)
  BY DEF SoonestDue, DueRows, Unclaimed
<1> QED BY <1>1, <1>2, <1>3 DEF SchedulerStep

-----------------------------------------------------------------------------
(* Theorems *)

\* The strengthened invariant is inductive.
LEMMA StoreInvStep == StoreInv /\ [StoreNext]_storeVars => StoreInv'
<1> SUFFICES ASSUME StoreInv, [StoreNext]_storeVars PROVE StoreInv'
  OBVIOUS
<1>1. StoreTypeOK'
  BY TypeStep DEF StoreInv
<1>2. CASE UNCHANGED storeVars
  BY <1>1, <1>2
  DEF storeVars, StoreInv, KeyInv, Active, Scheduled, Registered, HasPendingRequest
<1>3. CASE StoreNext
  BY <1>1, <1>3, EntityStepInv, SourceStepInv, AlarmStepInv, ClaimStepInv, SchedulerStepInv
  DEF StoreNext
<1> QED BY <1>2, <1>3

\* It holds of the empty store.
LEMMA StoreInvInit == StoreInit => StoreInv
<1> SUFFICES ASSUME StoreInit PROVE StoreInv
  OBVIOUS
<1>1. StoreTypeOK
  BY RowTypes DEF StoreInit, StoreTypeOK, Owners
<1>2. ASSUME NEW k \in Keys PROVE KeyInv(k)
  BY EmptyRows DEF StoreInit, KeyInv, Scheduled, Registered, HasPendingRequest
<1> QED BY <1>1, <1>2 DEF StoreInv

\* So it always holds.
LEMMA StoreInvariance == StoreSpec => []StoreInv
  BY StoreInvInit, StoreInvStep, PTL DEF StoreSpec

\* No row is ever owned by a superseded activation, so no alarm can wait for a
\* driver that no longer exists once its successor has been adopted.
THEOREM ClaimsBelongToTheActiveWorker == StoreSpec => []ClaimsBelongToActiveWorker
<1>1. StoreInv => ClaimsBelongToActiveWorker
  BY DEF StoreInv, KeyInv, ClaimsBelongToActiveWorker
<1> QED BY <1>1, StoreInvariance, PTL

\* An unacknowledged host wake request always has a row to be dispatched from.
THEOREM PendingRequestsKeepTheirAlarm == StoreSpec => []PendingRequestKeepsAlarm
<1>1. StoreInv => PendingRequestKeepsAlarm
  BY DEF StoreInv, KeyInv, PendingRequestKeepsAlarm
<1> QED BY <1>1, StoreInvariance, PTL

\* repairLifecycleInvariants never finds anything to repair.
THEOREM NothingEverToRepair == StoreSpec => []NothingToRepair
<1>1. StoreInv => NothingToRepair
  BY DEF StoreInv, StoreTypeOK, KeyInv, NothingToRepair
<1> QED BY <1>1, StoreInvariance, PTL

\* The retained counter dominates every row and every claim.
THEOREM CounterAlwaysDominates == StoreSpec => []CounterDominates
<1>1. StoreInv => CounterDominates
  BY DEF StoreInv, KeyInv, CounterDominates
<1> QED BY <1>1, StoreInvariance, PTL

\* Requests belong to the registered incarnation and are captured and
\* acknowledged in the order in which they were made.
THEOREM RequestsStayWithTheirIncarnation == StoreSpec => []RequestsBelongToIncarnation
<1>1. StoreInv => RequestsBelongToIncarnation
  BY DEF StoreInv, KeyInv, RequestsBelongToIncarnation
<1> QED BY <1>1, StoreInvariance, PTL

-----------------------------------------------------------------------------
(* Claim generations are issued once *)

\* What one step may do to the claim of a key.
FreshClaim(k) ==
    /\ claimCounter'[k] >= claimCounter[k]
    /\ alarms'[k].owner # NoOwner =>
          \/ alarms'[k].generation > claimCounter[k]
          \/ alarms'[k].owner = alarms[k].owner /\ alarms'[k].generation = alarms[k].generation

\* An operation on one key issues no claim: it frees the row or leaves its claim.
LEMMA OneKeyFresh ==
    ASSUME StoreInv, NEW k \in Keys, claimCounter' = claimCounter,
           \E row \in AlarmRow : alarms' = [alarms EXCEPT ![k] = row],
           \/ alarms'[k].owner = NoOwner
           \/ alarms'[k].owner = alarms[k].owner /\ alarms'[k].generation = alarms[k].generation
    PROVE  \A j \in Keys : FreshClaim(j)
<1> SUFFICES ASSUME NEW j \in Keys PROVE FreshClaim(j)
  OBVIOUS
<1>1. claimCounter'[j] >= claimCounter[j]
  BY DEF StoreInv, StoreTypeOK
<1>2. CASE j = k
  BY <1>1, <1>2 DEF FreshClaim
<1>3. CASE j # k
  BY <1>1, <1>3 DEF FreshClaim, StoreInv, StoreTypeOK
<1> QED BY <1>2, <1>3

\* Lifetime, publications, requests, re-arms and completions issue no claim.
LEMMA ClientStepFresh ==
    ASSUME StoreInv, NEW k \in Keys,
           \/ EntityStep(k) \/ SourceStep(k) \/ AlarmStep(k)
           \/ \E w \in Workers, g \in 1 .. MaxClaim : ClaimStep(k, w, g)
    PROVE  \A j \in Keys : FreshClaim(j)
<1>t. /\ alarms \in [Keys -> AlarmRow] /\ alarms[k] \in AlarmRow
      /\ requests \in [Keys -> RequestRow] /\ sources[k] \in SourceRow
  BY DEF StoreInv, StoreTypeOK
<1> USE RowTypes, RowFields, EmptyRows
<1>1. ASSUME claimCounter' = claimCounter,
             alarms' = alarms \/ alarms' = [alarms EXCEPT ![k] = NoRow]
      PROVE  \A j \in Keys : FreshClaim(j)
  <2>1. \E row \in AlarmRow : alarms' = [alarms EXCEPT ![k] = row]
    BY <1>t, <1>1
  <2> QED BY <1>t, <1>1, <2>1, OneKeyFresh
<1>2. ASSUME NEW row \in AlarmRow, NEW request \in RequestRow,
             claimCounter' = claimCounter,
             \/ row.owner = NoOwner
             \/ row.owner = alarms[k].owner /\ row.generation = alarms[k].generation,
             \/ alarms' = [alarms EXCEPT ![k] = row]
             \/ alarms' = [alarms EXCEPT ![k] = EnsureRequested(row, request)]
      PROVE  \A j \in Keys : FreshClaim(j)
  <2>1. EnsureRequested(row, request) \in AlarmRow
    OBVIOUS
  <2>2. \E new \in AlarmRow : alarms' = [alarms EXCEPT ![k] = new]
    BY <1>2, <2>1
  <2>3. \/ alarms'[k].owner = NoOwner
        \/ alarms'[k].owner = alarms[k].owner /\ alarms'[k].generation = alarms[k].generation
    <3>1. alarms'[k] = row \/ alarms'[k] = EnsureRequested(row, request)
      BY <1>t, <1>2
    <3>2. /\ EnsureRequested(row, request).owner = row.owner
          /\ EnsureRequested(row, request).generation = row.generation
      BY RowFields
    <3>3. alarms'[k].owner = row.owner /\ alarms'[k].generation = row.generation
      BY <3>1, <3>2
    <3> QED BY <1>2, <3>3
  <2> QED BY <1>2, <2>2, <2>3, OneKeyFresh
<1>3. CASE EntityStep(k)
  BY <1>1, <1>3 DEF EntityStep, ActivatePlain, ActivateNative, Retire, ForgetKey
<1>4. CASE SourceStep(k)
  <2>1. ASSUME NEW i \in 1 .. MaxIncarnation, NEW r \in 0 .. MaxRevision, NEW t \in Wakes,
               PublishAccepted(k, i, r, t)
        PROVE  \A j \in Keys : FreshClaim(j)
    <3>1. t # Never => t \in Nat
      BY DEF Wakes, Times, Never
    <3> QED BY <2>1, <3>1, <1>t, <1>1, <1>2 DEF PublishAccepted
  <2>2. CASE PublishDuplicate(k)
    <3>1. sources[k].wakeAt # Never => sources[k].wakeAt \in Nat
      BY <1>t DEF SourceRow
    <3> QED BY <2>2, <3>1, <1>t, <1>1, <1>2 DEF PublishDuplicate
  <2>3. ASSUME NEW i \in 1 .. MaxIncarnation, WakeRequest(k, i)
        PROVE  \A j \in Keys : FreshClaim(j)
    <3>1. requests'[k] \in RequestRow
      BY <2>3, <1>t DEF WakeRequest
    <3> QED BY <2>3, <3>1, <1>t, <1>2 DEF WakeRequest
  <2> QED BY <1>4, <2>1, <2>2, <2>3 DEF SourceStep
<1>5. CASE AlarmStep(k)
  <2>1. ASSUME NEW t \in Times, NEW p \in BOOLEAN, AlarmSet(k, t, p)
        PROVE  \A j \in Keys : FreshClaim(j)
    <3>1. t \in Nat
      BY DEF Times
    <3>2. Upsert(alarms[k], t) \in AlarmRow /\ Upsert(alarms[k], t).owner = NoOwner
      BY <1>t, <3>1
    <3> QED BY <2>1, <3>2, <1>t, <1>2 DEF AlarmSet
  <2>2. CASE AlarmClear(k)
    <3>1. requests'[k] \in RequestRow
      BY <2>2, <1>t DEF AlarmClear
    <3> QED BY <2>2, <3>1, <1>t, <1>2 DEF AlarmClear
  <2> QED BY <1>5, <2>1, <2>2 DEF AlarmStep
<1>6. ASSUME NEW w \in Workers, NEW g \in 1 .. MaxClaim, ClaimStep(k, w, g)
      PROVE  \A j \in Keys : FreshClaim(j)
  <2>1. ASSUME NEW t \in Times, AlarmSetClaimed(k, w, g, t) PROVE \A j \in Keys : FreshClaim(j)
    <3>1. t \in Nat
      BY DEF Times
    <3>2. Upsert(alarms[k], t) \in AlarmRow /\ Upsert(alarms[k], t).owner = NoOwner
      BY <1>t, <3>1
    <3> QED BY <2>1, <3>2, <1>t, <1>2 DEF AlarmSetClaimed
  <2>2. ASSUME NEW token \in WakeToken, NEW next \in Wakes, NEW p \in BOOLEAN,
               AlarmComplete(k, w, g, token, next, p)
        PROVE  \A j \in Keys : FreshClaim(j)
    <3>1. requests'[k] \in RequestRow
      BY <2>2, <1>t DEF AlarmComplete
    <3>2. next # Never => next \in Nat
      BY DEF Wakes, Times, Never
    <3> DEFINE row == IF next = Never THEN NoRow ELSE Upsert(alarms[k], next)
    <3>3. row \in AlarmRow /\ row.owner = NoOwner
      BY <1>t, <3>2
    <3>4. alarms' = [alarms EXCEPT ![k] = EnsureRequested(row, requests'[k])]
            /\ claimCounter' = claimCounter
      BY <2>2 DEF AlarmComplete
    <3> HIDE DEF row
    <3> QED BY <3>1, <3>3, <3>4, <1>2
  <2>3. \A i \in 1 .. MaxIncarnation, r \in 1 .. MaxRequest :
           [incarnation |-> i, generation |-> r] \in WakeToken
    BY BoundsNat DEF WakeToken
  <2> QED BY <1>6, <2>1, <2>2, <2>3 DEF ClaimStep
<1> QED BY <1>3, <1>4, <1>5, <1>6

\* Adoption frees every row, and claiming issues only fresh generations.
LEMMA SchedulerStepFresh ==
    ASSUME StoreInv, NEW w \in Workers, SchedulerStep(w)
    PROVE  \A k \in Keys : FreshClaim(k)
<1> SUFFICES ASSUME NEW k \in Keys PROVE FreshClaim(k)
  OBVIOUS
<1>t. alarms[k] \in AlarmRow /\ claimCounter[k] \in Nat
  BY DEF StoreInv, StoreTypeOK
<1>1. CASE AlarmAdoptWorker(w)
  <2>1. alarms'[k].owner = NoOwner
    <3>1. Upsert(alarms[k], 0).owner = NoOwner
      BY <1>t, RowFields
    <3>2. [alarms[k] EXCEPT !.owner = NoOwner].owner = NoOwner
      BY <1>t DEF AlarmRow
    <3> QED BY <1>1, <3>1, <3>2 DEF AlarmAdoptWorker
  <2> QED BY <1>1, <1>t, <2>1 DEF AlarmAdoptWorker, FreshClaim
<1>2. ASSUME NEW S, AlarmClaimDue(w, S) PROVE FreshClaim(k)
  <2>1. CASE k \in S
    <3>1. NextClaim(k) \in Nat /\ NextClaim(k) > claimCounter[k]
      BY NextClaimAbove DEF StoreInv
    <3>2. claimCounter'[k] = NextClaim(k) /\ alarms'[k].generation = NextClaim(k)
      BY <1>2, <1>t, <2>1 DEF AlarmClaimDue, AlarmRow
    <3> QED BY <1>t, <3>1, <3>2 DEF FreshClaim
  <2>2. CASE k \notin S
    <3>1. claimCounter'[k] = claimCounter[k] /\ alarms'[k] = alarms[k]
      BY <1>2, <2>2 DEF AlarmClaimDue
    <3> QED BY <1>t, <3>1 DEF FreshClaim
  <2> QED BY <2>1, <2>2
<1> QED BY <1>1, <1>2 DEF SchedulerStep

\* A row that changes hands carries a generation above every one issued before,
\* so equality of the generation is enough to fence a late completion.
THEOREM ClaimGenerationsIssuedOnce == StoreSpec => ClaimGenerationsNeverReused
<1> DEFINE Step == \A k \in Keys :
             /\ claimCounter'[k] >= claimCounter[k]
             /\ alarms'[k].owner # NoOwner /\ alarms'[k] # alarms[k]
                    => \/ alarms'[k].generation > claimCounter[k]
                       \/ /\ alarms'[k].owner = alarms[k].owner
                          /\ alarms'[k].generation = alarms[k].generation
<1>1. StoreInv /\ [StoreNext]_storeVars => [Step]_storeVars
  <2> SUFFICES ASSUME StoreInv, StoreNext PROVE \A k \in Keys : FreshClaim(k)
    BY DEF FreshClaim
  <2> QED BY ClientStepFresh, SchedulerStepFresh DEF StoreNext
<1> HIDE DEF Step
<1>2. StoreSpec => [][Step]_storeVars
  BY <1>1, StoreInvariance, PTL DEF StoreSpec
<1> QED BY <1>2 DEF Step, ClaimGenerationsNeverReused

-----------------------------------------------------------------------------
(* The store implements WakeLease *)

LeaseMap == [k \in Keys |-> LeaseOf(k)]
AskedMap == [k \in Keys |-> requests[k].generation]
CapturedMap == [k \in Keys |-> CapturedOf(k)]
ServedMap == [k \in Keys |-> requests[k].acknowledged]

\* A change of one key's row is a change of that key's lease and debt only.
LEMMA OneKeyMaps ==
    ASSUME NEW k \in Keys,
           \A j \in Keys \ {k} : alarms'[j] = alarms[j] /\ requests'[j] = requests[j]
    PROVE  /\ LeaseMap' = [LeaseMap EXCEPT ![k] = LeaseOf(k)']
           /\ AskedMap' = [AskedMap EXCEPT ![k] = requests'[k].generation]
           /\ CapturedMap' = [CapturedMap EXCEPT ![k] = CapturedOf(k)']
           /\ ServedMap' = [ServedMap EXCEPT ![k] = requests'[k].acknowledged]
  BY DEF LeaseMap, AskedMap, CapturedMap, ServedMap, LeaseOf, CapturedOf

\* An operation that releases a row and leaves the requests alone is a Release.
LEMMA ReleaseStep ==
    ASSUME NEW k \in Keys,
           \A j \in Keys \ {k} : alarms'[j] = alarms[j],
           alarms'[k].owner = NoOwner \/ LeaseOf(k)' = LeaseOf(k),
           \A j \in Keys : requests'[j] = requests[j],
           activeWorker' = activeWorker, claimCounter' = claimCounter
    PROVE  Contract!Release(k) \/ UNCHANGED Contract!leaseVars
<1>1. /\ LeaseMap' = [LeaseMap EXCEPT ![k] = LeaseOf(k)']
      /\ AskedMap' = AskedMap /\ CapturedMap' = CapturedMap /\ ServedMap' = ServedMap
  BY DEF LeaseMap, AskedMap, CapturedMap, ServedMap, LeaseOf, CapturedOf
<1>2. CASE alarms'[k].owner = NoOwner
  <2>1. LeaseOf(k)' = 0
    BY <1>2 DEF LeaseOf
  <2> QED BY <1>1, <2>1 DEF Contract!Release, LeaseMap, AskedMap, CapturedMap, ServedMap
<1>3. CASE LeaseOf(k)' = LeaseOf(k)
  <2>1. LeaseMap' = LeaseMap
    BY <1>1, <1>3 DEF LeaseMap
  <2> QED BY <1>1, <2>1 DEF Contract!leaseVars, LeaseMap, AskedMap, CapturedMap, ServedMap
<1> QED BY <1>2, <1>3

\* Dropping a key is a Forget.
LEMMA ForgetStep ==
    ASSUME NEW k \in Keys,
           \A j \in Keys \ {k} : alarms'[j] = alarms[j] /\ requests'[j] = requests[j],
           alarms'[k] = NoRow, requests'[k] = NoRequest,
           activeWorker' = activeWorker, claimCounter' = claimCounter
    PROVE  Contract!Forget(k)
<1>1. LeaseOf(k)' = 0 /\ CapturedOf(k)' = 0
  BY EmptyRows DEF LeaseOf, CapturedOf
<1>2. requests'[k].generation = 0 /\ requests'[k].acknowledged = 0
  BY EmptyRows
<1> QED BY <1>1, <1>2, OneKeyMaps
    DEF Contract!Forget, LeaseMap, AskedMap, CapturedMap, ServedMap

\* Every operation of the store is a step of the contract or leaves it unchanged.
LEMMA ContractStep ==
    ASSUME StoreInv, StoreTypeOK', StoreNext PROVE Contract!Next \/ UNCHANGED Contract!leaseVars
<1>1. ASSUME NEW k \in Keys, EntityStep(k) PROVE Contract!Next \/ UNCHANGED Contract!leaseVars
  <2>1. CASE UNCHANGED <<alarms, requests, activeWorker, claimCounter>>
    BY <2>1 DEF Contract!leaseVars, LeaseOf, CapturedOf
  <2>2. CASE ForgetKey(k) /\ UNCHANGED <<activeWorker, claimCounter>>
    <3>1. Contract!Forget(k)
      BY <2>2, ForgetStep DEF ForgetKey, StoreInv, StoreTypeOK
    <3> QED BY <3>1 DEF Contract!Next
  <2>3. ASSUME NEW i \in 1 .. MaxIncarnation, ActivateNative(k, i), i # sources[k].incarnation
        PROVE  Contract!Next
    <3>1. Contract!Forget(k)
      BY <2>3, ForgetStep DEF ActivateNative, StoreInv, StoreTypeOK
    <3> QED BY <3>1 DEF Contract!Next
  <2> QED BY <1>1, <2>1, <2>2, <2>3 DEF EntityStep, ActivatePlain, ActivateNative, Retire
<1>2. ASSUME NEW k \in Keys, SourceStep(k) PROVE Contract!Next \/ UNCHANGED Contract!leaseVars
  <2>1. alarms[k] \in AlarmRow /\ requests[k] \in RequestRow
    BY DEF StoreInv, StoreTypeOK
  <2>2. ASSUME NEW i \in 1 .. MaxIncarnation, NEW r \in 0 .. MaxRevision, NEW t \in Wakes,
               PublishAccepted(k, i, r, t)
        PROVE  Contract!Next \/ UNCHANGED Contract!leaseVars
    <3>1. alarms'[k].owner = NoOwner \/ LeaseOf(k)' = LeaseOf(k)
      <4>1. CASE HasPendingRequest(k)
        BY <2>1, <2>2, <4>1, RowFields DEF PublishAccepted, StoreInv, StoreTypeOK, LeaseOf
      <4>2. CASE ~HasPendingRequest(k) /\ t = Never
        BY <2>2, <4>2, EmptyRows DEF PublishAccepted, StoreInv, StoreTypeOK
      <4>3. CASE ~HasPendingRequest(k) /\ t # Never
        <5>1. t \in Nat
          BY <4>3, BoundsNat DEF Wakes, Times, Never
        <5> QED BY <2>1, <2>2, <4>3, <5>1, RowFields DEF PublishAccepted, StoreInv, StoreTypeOK
      <4> QED BY <4>1, <4>2, <4>3
    <3>2. Contract!Release(k) \/ UNCHANGED Contract!leaseVars
      BY <2>2, <3>1, ReleaseStep DEF PublishAccepted, StoreInv, StoreTypeOK
    <3> QED BY <3>2 DEF Contract!Next
  <2>3. CASE PublishDuplicate(k)
    <3>1. alarms'[k].owner = NoOwner \/ LeaseOf(k)' = LeaseOf(k)
      <4>1. CASE HasPendingRequest(k)
        BY <2>1, <2>3, <4>1, RowFields DEF PublishDuplicate, StoreInv, StoreTypeOK, LeaseOf
      <4>2. CASE ~HasPendingRequest(k)
        BY <2>3, <4>2, EmptyRows DEF PublishDuplicate, StoreInv, StoreTypeOK, LeaseOf, Upsert, NoRow
      <4> QED BY <4>1, <4>2
    <3>2. Contract!Release(k) \/ UNCHANGED Contract!leaseVars
      BY <2>3, <3>1, ReleaseStep DEF PublishDuplicate, StoreInv, StoreTypeOK
    <3> QED BY <3>2 DEF Contract!Next
  <2>4. ASSUME NEW i \in 1 .. MaxIncarnation, WakeRequest(k, i) PROVE Contract!Next
    <3>1. requests'[k] = Requested(requests[k], i) /\ requests'[k] \in RequestRow
      BY <2>4 DEF WakeRequest, StoreInv, StoreTypeOK
    <3>2. /\ requests'[k].generation = requests[k].generation + 1
          /\ requests'[k].acknowledged = requests[k].acknowledged
          /\ requests'[k].claimed = requests[k].claimed
      BY <2>1, <3>1 DEF Requested, RequestRow
    <3>3. alarms'[k].owner = alarms[k].owner /\ alarms'[k].generation = alarms[k].generation
      BY <2>1, <2>4, <3>1, RowFields DEF WakeRequest, StoreInv, StoreTypeOK
    <3>4. LeaseOf(k)' = LeaseOf(k) /\ CapturedOf(k)' = CapturedOf(k)
      BY <3>2, <3>3 DEF LeaseOf, CapturedOf
    <3>5. \A j \in Keys \ {k} : alarms'[j] = alarms[j] /\ requests'[j] = requests[j]
      BY <2>4 DEF WakeRequest, StoreInv, StoreTypeOK
    <3>6. /\ LeaseMap' = LeaseMap /\ CapturedMap' = CapturedMap /\ ServedMap' = ServedMap
          /\ AskedMap' = [AskedMap EXCEPT ![k] = AskedMap[k] + 1]
      BY <3>2, <3>4, <3>5 DEF LeaseMap, AskedMap, CapturedMap, ServedMap, LeaseOf, CapturedOf
    <3>7. UNCHANGED <<activeWorker, claimCounter>>
      BY <2>4 DEF WakeRequest
    <3>8. Contract!Ask(k)
      BY <3>6, <3>7 DEF Contract!Ask, LeaseMap, AskedMap, CapturedMap, ServedMap
    <3> QED BY <3>8 DEF Contract!Next
  <2> QED BY <1>2, <2>2, <2>3, <2>4 DEF SourceStep
<1>3. ASSUME NEW k \in Keys, AlarmStep(k) PROVE Contract!Next \/ UNCHANGED Contract!leaseVars
  <2>1. alarms[k] \in AlarmRow /\ requests[k] \in RequestRow /\ KeyInv(k)
    BY DEF StoreInv, StoreTypeOK
  <2>2. ASSUME NEW t \in Times, NEW p \in BOOLEAN, AlarmSet(k, t, p)
        PROVE  Contract!Next \/ UNCHANGED Contract!leaseVars
    <3>1. t \in Nat
      BY BoundsNat DEF Times
    <3>2. Upsert(alarms[k], t) \in AlarmRow
      BY <2>1, <3>1, RowTypes
    <3>3. alarms'[k].owner = NoOwner
      <4>1. alarms'[k] = EnsureRequested(Upsert(alarms[k], t), requests[k])
        BY <2>2 DEF AlarmSet, StoreInv, StoreTypeOK
      <4>2. Upsert(alarms[k], t).owner = NoOwner
        BY <2>1, <3>1, RowFields
      <4> QED BY <2>1, <3>2, <4>1, <4>2, RowFields
    <3>4. Contract!Release(k) \/ UNCHANGED Contract!leaseVars
      BY <2>2, <3>3, ReleaseStep DEF AlarmSet, StoreInv, StoreTypeOK
    <3> QED BY <3>4 DEF Contract!Next
  <2>3. CASE AlarmClear(k)
    <3>1. requests'[k] = requests[k]
      BY <2>1, <2>3 DEF AlarmClear, KeyInv, StoreInv, StoreTypeOK
    <3>2. alarms'[k].owner = NoOwner
      BY <2>3 DEF AlarmClear, StoreInv, StoreTypeOK, EnsureRequested, NoRow
    <3>3. \A j \in Keys : requests'[j] = requests[j]
      BY <2>3, <3>1 DEF AlarmClear, StoreInv, StoreTypeOK
    <3>4. Contract!Release(k) \/ UNCHANGED Contract!leaseVars
      BY <2>3, <3>2, <3>3, ReleaseStep DEF AlarmClear, StoreInv, StoreTypeOK
    <3> QED BY <3>4 DEF Contract!Next
  <2> QED BY <1>3, <2>2, <2>3 DEF AlarmStep
<1>4. ASSUME NEW k \in Keys, NEW w \in Workers, NEW g \in 1 .. MaxClaim, ClaimStep(k, w, g)
      PROVE  Contract!Next \/ UNCHANGED Contract!leaseVars
  <2>1. /\ alarms[k] \in AlarmRow /\ requests[k] \in RequestRow
    BY DEF StoreInv, StoreTypeOK
  <2>2. ASSUME NEW t \in Times, AlarmSetClaimed(k, w, g, t)
        PROVE  Contract!Next \/ UNCHANGED Contract!leaseVars
    <3>1. t \in Nat
      BY BoundsNat DEF Times
    <3>2. alarms'[k].owner = NoOwner
      BY <2>1, <2>2, <3>1, RowFields DEF AlarmSetClaimed, StoreInv, StoreTypeOK
    <3>3. Contract!Release(k) \/ UNCHANGED Contract!leaseVars
      BY <2>2, <3>2, ReleaseStep DEF AlarmSetClaimed, StoreInv, StoreTypeOK
    <3> QED BY <3>3 DEF Contract!Next
  <2>3. ASSUME NEW token \in WakeToken, NEW next \in Wakes, NEW p \in BOOLEAN,
               AlarmComplete(k, w, g, token, next, p)
        PROVE  Contract!Next \/ UNCHANGED Contract!leaseVars
    <3>1. alarms'[k].owner = NoOwner
      <4>1. next # Never => next \in Nat
        BY BoundsNat DEF Wakes, Times, Never
      <4>2. requests'[k] \in RequestRow
        BY DEF StoreTypeOK
      <4>3. CASE next = Never
        BY <2>3, <4>3 DEF AlarmComplete, StoreInv, StoreTypeOK, EnsureRequested, NoRow
      <4>4. CASE next # Never
        <5>1. Upsert(alarms[k], next) \in AlarmRow /\ Upsert(alarms[k], next).owner = NoOwner
          BY <2>1, <4>1, <4>4, RowTypes, RowFields
        <5>2. alarms'[k] = EnsureRequested(Upsert(alarms[k], next), requests'[k])
          BY <2>3, <4>4 DEF AlarmComplete, StoreInv, StoreTypeOK
        <5> QED BY <4>2, <5>1, <5>2, RowFields
      <4> QED BY <4>3, <4>4
    <3>2. requests'[k] = Acknowledged(requests[k], token)
      BY <2>3 DEF AlarmComplete, StoreInv, StoreTypeOK
    <3>3. \A j \in Keys \ {k} : alarms'[j] = alarms[j] /\ requests'[j] = requests[j]
      BY <2>3 DEF AlarmComplete, StoreInv, StoreTypeOK
    <3>4. CASE token = NoToken
      <4>1. \A j \in Keys : requests'[j] = requests[j]
        BY <3>2, <3>3, <3>4 DEF Acknowledged
      <4>2. Contract!Release(k) \/ UNCHANGED Contract!leaseVars
        BY <2>3, <3>1, <3>3, <4>1, ReleaseStep DEF AlarmComplete
      <4> QED BY <4>2 DEF Contract!Next
    <3>5. CASE token # NoToken
      <4>1. /\ requests'[k].generation = requests[k].generation
            /\ requests'[k].acknowledged = requests[k].claimed
            /\ requests'[k].claimed = 0 /\ requests[k].claimed # 0
        <5>1. token.generation = requests[k].claimed /\ requests[k].claimed # 0
          BY <2>3, <3>5 DEF AlarmComplete, AcknowledgementAccepted
        <5>2. requests'[k] = [requests[k] EXCEPT !.acknowledged = token.generation,
                                                 !.claimed = 0, !.dispatch = 0]
          BY <3>2, <3>5 DEF Acknowledged
        <5> QED BY <2>1, <5>1, <5>2 DEF RequestRow
      <4>2. CapturedOf(k)' = CapturedOf(k) /\ requests'[k].acknowledged = CapturedOf(k)
        BY <4>1 DEF CapturedOf
      <4>3. LeaseOf(k) # 0 /\ LeaseOf(k)' = 0
        BY <2>3, <3>1, NoOwnerAssumption DEF AlarmComplete, Owns, LeaseOf
      <4>4. /\ LeaseMap' = [LeaseMap EXCEPT ![k] = 0]
            /\ AskedMap' = AskedMap /\ CapturedMap' = CapturedMap
            /\ ServedMap' = [ServedMap EXCEPT ![k] = CapturedMap[k]]
        BY <3>3, <4>1, <4>2, <4>3
        DEF LeaseMap, AskedMap, CapturedMap, ServedMap, LeaseOf, CapturedOf
      <4>5. UNCHANGED <<activeWorker, claimCounter>>
        BY <2>3 DEF AlarmComplete
      <4>6. Contract!Serve(k)
        BY <4>3, <4>4, <4>5
        DEF Contract!Serve, LeaseMap, AskedMap, CapturedMap, ServedMap
      <4> QED BY <4>6 DEF Contract!Next
    <3> QED BY <3>4, <3>5
  <2>4. NoToken \in WakeToken
        /\ \A i \in 1 .. MaxIncarnation, r \in 1 .. MaxRequest :
             [incarnation |-> i, generation |-> r] \in WakeToken
    BY BoundsNat, RowTypes DEF WakeToken
  <2> QED BY <1>4, <2>2, <2>3, <2>4 DEF ClaimStep
<1>5. ASSUME NEW w \in Workers, SchedulerStep(w) PROVE Contract!Next
  <2>1. CASE AlarmAdoptWorker(w)
    <3>1. ASSUME NEW k \in Keys PROVE LeaseOf(k)' = 0
      <4>1. alarms[k] \in AlarmRow
        BY DEF StoreInv, StoreTypeOK
      <4>2. alarms'[k].owner = NoOwner
        BY <2>1, <4>1, RowFields DEF AlarmAdoptWorker, AlarmRow
      <4> QED BY <4>2 DEF LeaseOf
    <3>2. Contract!Adopt(w)
      BY <2>1, <3>1 DEF Contract!Adopt, Contract!Zero, AlarmAdoptWorker, CapturedOf
    <3> QED BY <3>2 DEF Contract!Next
  <2>2. ASSUME NEW S \in SUBSET Keys, \A k \in S : alarms[k].owner = NoOwner, AlarmClaimDue(w, S)
        PROVE  Contract!Next
    <3>1. ASSUME NEW k \in Keys
          PROVE  /\ claimCounter'[k] = IF k \in S THEN NextClaim(k) ELSE claimCounter[k]
                 /\ NextClaim(k) > claimCounter[k]
                 /\ LeaseOf(k)' = IF k \in S THEN claimCounter'[k] ELSE LeaseOf(k)
                 /\ CapturedOf(k)' = IF k \in S THEN requests[k].generation ELSE CapturedOf(k)
                 /\ requests'[k].generation = requests[k].generation
                 /\ requests'[k].acknowledged = requests[k].acknowledged
      <4>1. /\ KeyInv(k) /\ alarms[k] \in AlarmRow /\ requests[k] \in RequestRow
            /\ claimCounter[k] \in Nat
        BY DEF StoreInv, StoreTypeOK
      <4>2. NextClaim(k) > claimCounter[k]
        BY NextClaimAbove DEF StoreInv
      <4>3. CASE k \notin S
        BY <2>2, <4>2, <4>3 DEF AlarmClaimDue, LeaseOf, CapturedOf
      <4>4. CASE k \in S
        <5>1. claimCounter'[k] = NextClaim(k)
          BY <2>2, <4>4 DEF AlarmClaimDue
        <5>2. alarms'[k].owner = w /\ alarms'[k].generation = NextClaim(k)
          BY <2>2, <4>1, <4>4 DEF AlarmClaimDue, AlarmRow
        <5>3. CASE requests[k].generation # requests[k].acknowledged
          <6>1. requests'[k] = [requests[k] EXCEPT !.claimed = requests[k].generation,
                                                   !.dispatch = NextClaim(k)]
            BY <2>2, <4>4, <5>3 DEF AlarmClaimDue
          <6>2. /\ requests'[k].generation = requests[k].generation
                /\ requests'[k].acknowledged = requests[k].acknowledged
                /\ requests'[k].claimed = requests[k].generation
            BY <4>1, <6>1 DEF RequestRow
          <6>3. requests[k].generation # 0
            BY <4>1, <5>3 DEF KeyInv, RequestRow
          <6> QED BY <4>2, <4>4, <5>1, <5>2, <6>2, <6>3, NoOwnerAssumption DEF LeaseOf, CapturedOf
        <5>4. CASE requests[k].generation = requests[k].acknowledged
          <6>1. requests'[k] = requests[k]
            BY <2>2, <4>4, <5>4 DEF AlarmClaimDue
          <6>2. requests[k].claimed = 0
            BY <4>1, <5>4 DEF KeyInv, RequestRow
          <6> QED BY <4>2, <4>4, <5>1, <5>2, <5>4, <6>1, <6>2, NoOwnerAssumption
              DEF LeaseOf, CapturedOf
        <5> QED BY <5>3, <5>4
      <4> QED BY <4>3, <4>4
    <3>2. \A k \in S : LeaseOf(k) = 0
      BY <2>2 DEF LeaseOf
    <3>3. /\ LeaseMap' = [k \in Keys |-> IF k \in S THEN claimCounter'[k] ELSE LeaseMap[k]]
          /\ CapturedMap' = [k \in Keys |-> IF k \in S THEN AskedMap[k] ELSE CapturedMap[k]]
          /\ AskedMap' = AskedMap /\ ServedMap' = ServedMap
      BY <3>1 DEF LeaseMap, AskedMap, CapturedMap, ServedMap
    <3>4. \A k \in Keys : IF k \in S THEN claimCounter'[k] > claimCounter[k]
                          ELSE claimCounter'[k] = claimCounter[k]
      BY <3>1
    <3>5. claimCounter' \in [Keys -> Nat]
      BY DEF StoreTypeOK
    <3>6. activeWorker # NoOwner /\ activeWorker' = activeWorker
      BY <2>2, NoOwnerAssumption DEF AlarmClaimDue, MayClaim
    <3>7. Contract!Grant(S)
      BY <3>2, <3>3, <3>4, <3>5, <3>6
      DEF Contract!Grant, LeaseMap, AskedMap, CapturedMap, ServedMap
    <3> QED BY <3>7 DEF Contract!Next
  <2>3. \A now \in Times, limit \in 1 .. Cardinality(Keys), exclude \in SUBSET Keys :
           \A S \in SoonestDue(now, limit, exclude) :
              S \in SUBSET Keys /\ \A k \in S : alarms[k].owner = NoOwner
    BY DEF SoonestDue, DueRows, Unclaimed
  <2> QED BY <1>5, <2>1, <2>2, <2>3 DEF SchedulerStep
<1> QED BY <1>1, <1>2, <1>3, <1>4, <1>5 DEF StoreNext

\* The alarm table and the publication registry, under any callers, implement
\* the lease-and-debt contract: one fenced holder per Durable Object, tokens
\* never reissued, a request settled only by a pass claimed after it.
THEOREM StoreImplementsWakeLease == StoreSpec => ImplementsWakeLease
<1>1. StoreInit => Contract!Init
  BY EmptyRows DEF StoreInit, Contract!Init, Contract!Zero, LeaseOf, CapturedOf
<1>2. StoreInv /\ StoreInv' /\ [StoreNext]_storeVars => [Contract!Next]_(Contract!leaseVars)
  <2>1. CASE UNCHANGED storeVars
    BY <2>1 DEF storeVars, Contract!leaseVars, LeaseOf, CapturedOf
  <2>2. ASSUME StoreInv, StoreInv', StoreNext PROVE [Contract!Next]_(Contract!leaseVars)
    BY <2>2, ContractStep DEF StoreInv
  <2> QED BY <2>1, <2>2
<1> QED BY <1>1, <1>2, StoreInvariance, PTL DEF StoreSpec, Contract!Spec, ImplementsWakeLease

=============================================================================
