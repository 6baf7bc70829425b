---------------------- MODULE ExecutionRetentionProofs ----------------------
(***************************************************************************)
(* Proofs about ExecutionRetention, for any builds, owners and bounds:     *)
(* its type invariant, that unfinished reservations keep their artifact,   *)
(* that a quarantined build is never simply gone and that a crash can be   *)
(* repaired; that owners that publish synchronously keep their builds;     *)
(* that a build is deleted after the grace period only and, as long as no  *)
(* call about an entity fails, not while its owner's root has been read.   *)
(***************************************************************************)
EXTENDS ExecutionRetention, TLAPS

-----------------------------------------------------------------------------
(* The inductive invariant *)

\* A trash directory is removed only where the deletion is already recorded...
RemovalInv ==
    gc.removing # NoBuild =>
        /\ gc.phase \in {"recovering", "sweeping"}
        /\ trash[gc.removing] > 0
        /\ ~Live(gcState[gc.removing]) /\ ~Live(gc.records[gc.removing])

\* ...the repair of a crash works on directories that exist and on builds that
\* were stored when it began...
RecoveryInv ==
    gc.phase = "recovering" =>
        /\ gc.seen \subseteq stored
        /\ \A b \in gc.todo : trash[b] > 0 /\ b # gc.removing

\* ...and the collector's records are backed as the state file is.
RecordsBacked == \A b \in Builds : Live(gc.records[b]) => b \in stored \/ trash[b] > 0

BackingInv == RemovalInv /\ RecoveryInv /\ RecordsBacked /\ QuarantineIsBacked

RetentionInv == RetentionTypeOK /\ ReservedBuildIsStored /\ BackingInv

-----------------------------------------------------------------------------
(* Shapes *)

\* The records the collector writes are quarantine records.
LEMMA RecordTypes ==
    /\ NoRecord \in GcRecord
    /\ \A e \in Nat : Quarantined(e) \in GcRecord /\ Tombstone(e) \in GcRecord
BY DEF NoRecord, GcRecord, Quarantined, Tombstone

\* A missing record and a tombstone quarantine nothing.
LEMMA RecordLiveness ==
    /\ ~Live(NoRecord)
    /\ \A e \in Nat : ~Live(Tombstone(e))
BY DEF NoRecord, Tombstone, Live, Retired

\* A process without a collection holds no records and removes nothing.
LEMMA NoCollectionShape ==
    /\ NoCollection \in Collection
    /\ NoCollection.phase = "idle" /\ NoCollection.removing = NoBuild
    /\ \A b \in Builds : NoCollection.records[b] = NoRecord
BY RecordTypes DEF NoCollection, Collection, Phases, BuildOrNone

\* The empty publication has the shape of one.
LEMMA NotPublishingType == NotPublishing \in Publication
BY DEF NotPublishing, Publication, BuildOrNone

\* A reservation stamped with the next id and the current epoch is well formed.
LEMMA ReservationType ==
    ASSUME NEW o \in Owners, NEW b \in Builds, NEW f \in BOOLEAN, reserved \in Nat, epoch \in Nat
    PROVE  NewReservation(o, b, f) \in Reservation
BY DEF NewReservation, Reservation

\* The invariant holds in a new workspace.
LEMMA InitInv == RetentionInit => RetentionInv
<1> SUFFICES ASSUME RetentionInit PROVE RetentionInv
  OBVIOUS
<1>1. RetentionTypeOK
  BY NoCollectionShape, NotPublishingType, RecordTypes
  DEF RetentionInit, RetentionTypeOK, BuildOrNone, Freshness, Unrooted, NotUnrooted
<1>2. ReservedBuildIsStored
  BY DEF RetentionInit, ReservedBuildIsStored
<1>3. RemovalInv /\ RecoveryInv /\ RecordsBacked /\ QuarantineIsBacked
  BY NoCollectionShape, RecordLiveness
  DEF RetentionInit, RemovalInv, RecoveryInv, RecordsBacked, QuarantineIsBacked
<1> QED BY <1>1, <1>2, <1>3 DEF RetentionInv, BackingInv

-----------------------------------------------------------------------------
(* Type correctness *)

\* What puts, the clock and the collector leave alone.
LEMMA OwnersType ==
    ASSUME RetentionTypeOK, UNCHANGED <<owners, fresh>>
    PROVE  /\ roots' \in [Owners -> BuildOrNone] /\ mirror' \in [Owners -> BuildOrNone]
           /\ rows' \in [Entities -> BuildOrNone] /\ cached' \in [Entities -> BuildOrNone]
           /\ publishing' \in [Owners -> Publication] /\ fresh' \in [Owners -> Freshness]
BY DEF RetentionTypeOK, owners

\* Puts and hydration keep the types.
LEMMA StoreType ==
    ASSUME RetentionTypeOK, NEW b \in Builds, StoreStep(b)
    PROVE  RetentionTypeOK'
<1> USE OwnersType DEF history
<1>1. CASE Promote(b)
  BY <1>1 DEF RetentionTypeOK, Promote, owners, journal, budgets
<1>2. CASE FinishPut(b)
  BY <1>2, RecordTypes DEF RetentionTypeOK, FinishPut, owners, journal, budgets
<1>3. CASE Hydrate(b)
  BY <1>3 DEF RetentionTypeOK, Hydrate, owners, journal, budgets
<1>4. CASE FinishHydrate(b)
  BY <1>4 DEF RetentionTypeOK, FinishHydrate, owners, journal, budgets
<1> QED BY <1>1, <1>2, <1>3, <1>4 DEF StoreStep

\* Ageing keeps the types: only the flags of live records change.
LEMMA ClockType ==
    ASSUME RetentionTypeOK, DayPasses
    PROVE  RetentionTypeOK'
<1>1. \A b \in Builds : Live(gcState[b]) \in BOOLEAN
  BY DEF RetentionTypeOK, GcRecord, Live, Retired
<1>2. gcState' \in [Builds -> GcRecord]
  BY <1>1 DEF RetentionTypeOK, DayPasses, GcRecord
<1>3. unrooted' \in [Builds -> Unrooted]
  BY DEF RetentionTypeOK, DayPasses, Unrooted
<1> QED BY <1>2, <1>3, OwnersType DEF RetentionTypeOK, DayPasses, journal, budgets

\* Finalizing a reservation keeps its shape.
LEMMA FinalizedType ==
    ASSUME NEW rs \in SUBSET Reservation, NEW id
    PROVE  FinalizedIn(rs, id) \in SUBSET Reservation
<1> SUFFICES ASSUME NEW r \in rs PROVE [r EXCEPT !.finalized = TRUE] \in Reservation
  BY DEF FinalizedIn
<1> QED BY DEF Reservation

\* How an owner was written is one of three ways.
LEMMA WrittenAsType ==
    ASSUME RetentionTypeOK, NEW how \in Freshness, NEW o \in Owners, NEW b
    PROVE  WrittenAs(how, o, b) \in [Owners -> Freshness]
BY DEF WrittenAs, RetentionTypeOK

\* Every step of a publication and of an entity call keeps the types.
LEMMA PublicationType ==
    ASSUME RetentionTypeOK, NEW o \in Owners,
           \/ OwnerWrite(o) \/ Finalize(o) \/ OwnerWriteFails(o) \/ Retire(o)
           \/ EntityCallFails(o) \/ ReadEntity(o)
           \/ \E b \in Builds : Reserve(o, b) \/ Republish(o, b) \/ Publish(o, b)
    PROVE  RetentionTypeOK'
<1>a. NoBuild \in BuildOrNone /\ Builds \subseteq BuildOrNone
  BY DEF BuildOrNone
<1>b. {"read", "reserved", "unreserved"} = Freshness
  BY DEF Freshness
<1>e. \A p \in Entities : p \in Owners
  BY EntitiesAssumption
<1>1. CASE OwnerWrite(o)
  <2>1. publishing'[o] \in Publication /\ publishing[o].build \in BuildOrNone
    BY <1>1 DEF RetentionTypeOK, OwnerWrite, Publication
  <2>2. /\ roots' \in [Owners -> BuildOrNone] /\ publishing' \in [Owners -> Publication]
        /\ rows' \in [Entities -> BuildOrNone]
    BY <1>1, <2>1 DEF RetentionTypeOK, OwnerWrite, Publication
  <2>3. fresh' \in [Owners -> Freshness]
    BY <1>1, <1>b, WrittenAsType DEF OwnerWrite
  <2>4. UNCHANGED <<builds, journal, mirror, cached, gc, budgets, unrooted>>
    BY <1>1 DEF OwnerWrite
  <2> QED BY <2>2, <2>3, <2>4 DEF RetentionTypeOK, builds, journal, budgets
<1>2. CASE Finalize(o)
  <2>1. reservations' \in SUBSET Reservation
    BY <1>2, FinalizedType DEF RetentionTypeOK, Finalize
  <2>2. mirror' \in [Owners -> BuildOrNone] /\ cached' \in [Entities -> BuildOrNone]
    BY <1>2, <1>e DEF RetentionTypeOK, Finalize
  <2>3. publishing' \in [Owners -> Publication]
    BY <1>2, NotPublishingType DEF RetentionTypeOK, Finalize
  <2>4. UNCHANGED <<builds, epoch, roots, rows, gc, budgets, history>>
    BY <1>2 DEF Finalize
  <2> QED BY <2>1, <2>2, <2>3, <2>4 DEF RetentionTypeOK, builds, budgets, history
<1>3. CASE OwnerWriteFails(o)
  <2>1. mirror' \in [Owners -> BuildOrNone] /\ cached' \in [Entities -> BuildOrNone]
    BY <1>3, <1>a DEF RetentionTypeOK, OwnerWriteFails
  <2>2. publishing' \in [Owners -> Publication] /\ failures' \in Nat
    BY <1>3, NotPublishingType DEF RetentionTypeOK, OwnerWriteFails
  <2>3. UNCHANGED <<builds, journal, roots, rows, gc, reserved, crashes, trashFailures, history>>
    BY <1>3 DEF OwnerWriteFails
  <2> QED BY <2>1, <2>2, <2>3 DEF RetentionTypeOK, builds, journal, history
<1>4. CASE Retire(o)
  <2>1. /\ roots' \in [Owners -> BuildOrNone] /\ mirror' \in [Owners -> BuildOrNone]
        /\ cached' \in [Entities -> BuildOrNone] /\ fresh' \in [Owners -> Freshness]
    BY <1>4, <1>a, <1>b DEF RetentionTypeOK, Retire
  <2>2. UNCHANGED <<builds, rows, publishing, journal, gc, budgets, unrooted>>
    BY <1>4 DEF Retire
  <2> QED BY <2>1, <2>2 DEF RetentionTypeOK, builds, journal, budgets
<1>5. CASE EntityCallFails(o)
  <2>1. /\ mirror' \in [Owners -> BuildOrNone] /\ cached' \in [Entities -> BuildOrNone]
        /\ failures' \in Nat
    BY <1>5, <1>a DEF RetentionTypeOK, EntityCallFails
  <2>2. UNCHANGED <<builds, roots, rows, publishing, journal, gc, reserved, crashes,
                    trashFailures, history>>
    BY <1>5 DEF EntityCallFails
  <2> QED BY <2>1, <2>2 DEF RetentionTypeOK, builds, journal, history
<1>6. CASE ReadEntity(o)
  <2>1. mirror' \in [Owners -> BuildOrNone] /\ cached' \in [Entities -> BuildOrNone]
    BY <1>6 DEF RetentionTypeOK, ReadEntity
  <2>2. UNCHANGED <<builds, roots, rows, publishing, journal, gc, budgets, history>>
    BY <1>6 DEF ReadEntity
  <2> QED BY <2>1, <2>2 DEF RetentionTypeOK, builds, journal, budgets, history
<1>7. ASSUME NEW b \in Builds, Reserve(o, b) PROVE RetentionTypeOK'
  <2>1. reservations' \in SUBSET Reservation
    BY <1>7, ReservationType DEF RetentionTypeOK, Reserve
  <2>2. [id |-> reserved + 1, build |-> b, written |-> FALSE] \in Publication
    BY DEF RetentionTypeOK, Publication, BuildOrNone
  <2>3. publishing' \in [Owners -> Publication] /\ reserved' \in Nat
    BY <1>7, <2>2 DEF RetentionTypeOK, Reserve
  <2>4. UNCHANGED <<builds, epoch, roots, rows, mirror, cached, gc, failures, crashes,
                    trashFailures, history>>
    BY <1>7 DEF Reserve
  <2> QED BY <2>1, <2>3, <2>4 DEF RetentionTypeOK, builds, history
<1>8. ASSUME NEW b \in Builds, Publish(o, b) PROVE RetentionTypeOK'
  <2>1. reservations' \in SUBSET Reservation
    BY <1>8, ReservationType DEF RetentionTypeOK, Publish
  <2>2. roots' \in [Owners -> BuildOrNone] /\ mirror' \in [Owners -> BuildOrNone]
    BY <1>8 DEF RetentionTypeOK, Publish, BuildOrNone
  <2>3. reserved' \in Nat /\ fresh' \in [Owners -> Freshness]
    <3>1. "reserved" \in Freshness
      BY DEF Freshness
    <3> QED BY <1>8, <3>1, WrittenAsType DEF RetentionTypeOK, Publish
  <2>4. UNCHANGED <<builds, epoch, rows, publishing, cached, gc, failures, crashes,
                    trashFailures, unrooted>>
    BY <1>8 DEF Publish
  <2> QED BY <2>1, <2>2, <2>3, <2>4 DEF RetentionTypeOK, builds
<1>9. ASSUME NEW b \in Builds, Republish(o, b) PROVE RetentionTypeOK'
  <2>1. [id |-> 0, build |-> b, written |-> FALSE] \in Publication
    BY DEF Publication, BuildOrNone
  <2>2. publishing' \in [Owners -> Publication]
    BY <1>9, <2>1 DEF RetentionTypeOK, Republish
  <2>3. UNCHANGED <<builds, roots, rows, mirror, cached, journal, gc, budgets, history>>
    BY <1>9 DEF Republish
  <2> QED BY <2>2, <2>3 DEF RetentionTypeOK, builds, journal, budgets, history
<1> QED BY <1>1, <1>2, <1>3, <1>4, <1>5, <1>6, <1>7, <1>8, <1>9

\* What a restart loses keeps its shape.
LEMMA ProcessLostType ==
    ASSUME RetentionTypeOK, ProcessLost, roots' \in [Owners -> BuildOrNone]
    PROVE  /\ promoting' = {} /\ hydrating' = {} /\ gc' \in Collection
           /\ publishing' \in [Owners -> Publication]
           /\ mirror' \in [Owners -> BuildOrNone] /\ cached' \in [Entities -> BuildOrNone]
           /\ rows' \in [Entities -> BuildOrNone]
           /\ crashes' \in Nat /\ failures' \in Nat /\ trashFailures' \in Nat
           /\ unrooted' \in [Builds -> Unrooted]
<1>1. promoting' = {} /\ hydrating' = {} /\ gc' \in Collection /\ publishing' \in [Owners -> Publication]
  BY NoCollectionShape, NotPublishingType DEF ProcessLost
<1>2. mirror' \in [Owners -> BuildOrNone] /\ cached' \in [Entities -> BuildOrNone]
  BY EntitiesAssumption DEF ProcessLost
<1>3. rows' \in [Entities -> BuildOrNone]
  <2>1. PICK deleted \in SUBSET {o \in Entities : roots[o] = NoBuild} :
            rows' = [o \in Entities |-> IF o \in deleted THEN NoBuild ELSE rows[o]]
    BY DEF ProcessLost
  <2> QED BY <2>1 DEF RetentionTypeOK, BuildOrNone
<1>4. crashes' \in Nat /\ failures' \in Nat /\ trashFailures' \in Nat /\ unrooted' \in [Builds -> Unrooted]
  BY DEF ProcessLost, RetentionTypeOK
<1> QED BY <1>1, <1>2, <1>3, <1>4

\* Restarts and crashes inside a synchronous stretch keep the types.
LEMMA RestartType ==
    ASSUME RetentionTypeOK,
           \/ Restart
           \/ \E b \in Builds : DieSweeping(b)
           \/ \E o \in Owners, b \in Builds : DiePublishing(o, b)
    PROVE  RetentionTypeOK'
<1>1. CASE Restart
  BY <1>1, ProcessLostType DEF RetentionTypeOK, Restart, journal
<1>2. ASSUME NEW b \in Builds, DieSweeping(b) PROVE RetentionTypeOK'
  <2>1. ProcessLost /\ UNCHANGED <<gcState, roots, journal, reserved, fresh>>
    BY <1>2 DEF DieSweeping
  <2>2. stored' \in SUBSET Builds /\ trash' \in [Builds -> Nat]
    BY <1>2 DEF DieSweeping, RetentionTypeOK
  <2>3. roots' \in [Owners -> BuildOrNone] /\ fresh' \in [Owners -> Freshness]
    BY <2>1 DEF RetentionTypeOK
  <2>4. gcState' \in [Builds -> GcRecord] /\ epoch' \in Nat /\ reservations' \in SUBSET Reservation
        /\ reserved' \in Nat
    BY <2>1 DEF RetentionTypeOK, journal
  <2>5. /\ promoting' = {} /\ hydrating' = {} /\ gc' \in Collection
        /\ publishing' \in [Owners -> Publication]
        /\ mirror' \in [Owners -> BuildOrNone] /\ cached' \in [Entities -> BuildOrNone]
        /\ rows' \in [Entities -> BuildOrNone]
        /\ crashes' \in Nat /\ failures' \in Nat /\ trashFailures' \in Nat
        /\ unrooted' \in [Builds -> Unrooted]
    BY <2>1, <2>3, ProcessLostType
  <2> QED BY <2>2, <2>3, <2>4, <2>5 DEF RetentionTypeOK
<1>3. ASSUME NEW o \in Owners, NEW b \in Builds, DiePublishing(o, b) PROVE RetentionTypeOK'
  <2>1. reservations' \in SUBSET Reservation /\ reserved' \in Nat
    <3>1. reserved \in Nat /\ epoch \in Nat /\ reservations \in SUBSET Reservation
      BY DEF RetentionTypeOK
    <3>2. NewReservation(o, b, FALSE) \in Reservation
      BY <3>1, ReservationType
    <3>3. /\ reservations' = reservations \cup {NewReservation(o, b, FALSE)}
          /\ reserved' = reserved + 1
      BY <1>3 DEF DiePublishing
    <3>4. reserved' \in Nat
      BY <3>1, <3>3
    <3> QED BY <3>1, <3>2, <3>3, <3>4
  <2>2. roots' \in [Owners -> BuildOrNone]
    BY <1>3 DEF RetentionTypeOK, DiePublishing, BuildOrNone
  <2>3. fresh' \in [Owners -> Freshness]
    <3>1. "reserved" \in Freshness
      BY DEF Freshness
    <3> QED BY <1>3, <3>1, WrittenAsType DEF DiePublishing, RetentionTypeOK
  <2>4. ProcessLost /\ UNCHANGED <<stored, trash, gcState, epoch>>
    BY <1>3 DEF DiePublishing
  <2>5. /\ promoting' = {} /\ hydrating' = {} /\ gc' \in Collection
        /\ publishing' \in [Owners -> Publication]
        /\ mirror' \in [Owners -> BuildOrNone] /\ cached' \in [Entities -> BuildOrNone]
        /\ rows' \in [Entities -> BuildOrNone]
        /\ crashes' \in Nat /\ failures' \in Nat /\ trashFailures' \in Nat
        /\ unrooted' \in [Builds -> Unrooted]
    BY <2>2, <2>4, ProcessLostType
  <2> QED BY <2>1, <2>2, <2>3, <2>4, <2>5 DEF RetentionTypeOK
<1> QED BY <1>1, <1>2, <1>3

\* What a step of the collector leaves alone when it only changes "gc".
LEMMA CollectionStepType ==
    ASSUME RetentionTypeOK, gc' \in Collection,
           UNCHANGED <<builds, owners, journal, budgets>>,
           fresh' \in [Owners -> Freshness], unrooted' \in [Builds -> Unrooted]
    PROVE  RetentionTypeOK'
BY DEF RetentionTypeOK, builds, owners, journal, budgets

\* The steps that only read keep the types.
LEMMA ReportType ==
    ASSUME RetentionTypeOK,
           \/ \E o \in Owners : SnapshotRoots(o)
           \/ ReportLoads \/ ReportScans \/ BeginCommit \/ CommitLoads \/ CommitScans
           \/ CollectionFails
           \/ \E b \in Builds : RetainPublished(b)
    PROVE  RetentionTypeOK'
<1>t. gc \in Collection
  BY DEF RetentionTypeOK
<1>h. UNCHANGED history => fresh' \in [Owners -> Freshness] /\ unrooted' \in [Builds -> Unrooted]
  BY DEF history, RetentionTypeOK
<1> USE NoCollectionShape
<1>1. ASSUME NEW o \in Owners, SnapshotRoots(o) PROVE RetentionTypeOK'
  <2>1. Shown(o) \subseteq Builds
    BY DEF RetentionTypeOK, Shown, BuildOrNone
  <2>2. gc' \in Collection
    BY <1>1, <1>t, <2>1 DEF SnapshotRoots, Collection
  <2>3. fresh' \in [Owners -> Freshness] /\ unrooted' \in [Builds -> Unrooted]
    BY <1>1 DEF SnapshotRoots, RetentionTypeOK, Freshness
  <2> QED BY <1>1, <2>2, <2>3, CollectionStepType DEF SnapshotRoots
<1>2. ASSUME NEW from \in Phases, NEW to \in Phases, LoadState(from, to)
      PROVE  RetentionTypeOK'
  <2>1. gc' \in Collection
    BY <1>2, <1>t DEF LoadState, Collection, RetentionTypeOK
  <2> QED BY <1>2, <2>1, <1>h, CollectionStepType DEF LoadState
<1>3. CASE ReportScans
  <2>1. RetainedBy(gc.records) \subseteq Builds
    BY DEF RetainedBy
  <2>2. gc' \in Collection
    BY <1>3, <1>t, <2>1 DEF ReportScans, Collection, RetentionTypeOK, Phases
  <2> QED BY <1>3, <2>2, <1>h, CollectionStepType DEF ReportScans
<1>4. CASE BeginCommit
  <2>1. ProtectedBuildKeys \subseteq Builds
    BY DEF RetentionTypeOK, ProtectedBuildKeys, Reservation
  <2>2. gc' \in Collection
    BY <1>4, <1>t, <2>1 DEF BeginCommit, Collection, Phases
  <2> QED BY <1>4, <2>2, <1>h, CollectionStepType DEF BeginCommit
<1>5. CASE CommitScans
  <2>1. gc' \in Collection
    BY <1>5, <1>t DEF CommitScans, Collection, RetentionTypeOK, Phases
  <2> QED BY <1>5, <2>1, <1>h, CollectionStepType DEF CommitScans
<1>6. CASE CollectionFails
  BY <1>6, <1>h, CollectionStepType DEF CollectionFails
<1>7. ASSUME NEW b \in Builds, RetainPublished(b) PROVE RetentionTypeOK'
  <2>1. gc' \in Collection
    BY <1>7, <1>t DEF RetainPublished, Collection
  <2> QED BY <1>7, <2>1, <1>h, CollectionStepType DEF RetainPublished
<1>8. ReportLoads \/ CommitLoads => RetentionTypeOK'
  BY <1>2 DEF ReportLoads, CommitLoads, Phases
<1> QED BY <1>1, <1>3, <1>4, <1>5, <1>6, <1>7, <1>8

\* Recording a deletion keeps the shape of the records.
LEMMA RetiringType ==
    ASSUME RetentionTypeOK, NEW b \in Builds
    PROVE  Retiring(b) \in [Builds -> GcRecord]
BY RecordTypes DEF RetentionTypeOK, Retiring, Collection

\* The mutating steps of a commit keep the types; the trash never goes below
\* zero, because what is removed is there (RemovalInv, RecoveryInv).
LEMMA SweepType ==
    ASSUME RetentionTypeOK, RemovalInv, RecoveryInv,
           \/ BeginEpoch \/ BeginSweep \/ FinishSweep \/ CompleteEpoch
           \/ RemoveTrash \/ RemoveTrashFails
           \/ \E b \in Builds : Restore(b) \/ FinishDeletion(b) \/ Sweep(b)
    PROVE  RetentionTypeOK'
<1>t. gc \in Collection
  BY DEF RetentionTypeOK
<1> USE NoCollectionShape DEF history
<1>n. NotUnrooted \in Unrooted
  BY DEF NotUnrooted, Unrooted
<1>1. CASE BeginEpoch
  <2>1. gc' \in Collection
    BY <1>1 DEF BeginEpoch, Collection, Phases
  <2>2. epoch \in Nat /\ epoch' = epoch + 1
    BY <1>1 DEF RetentionTypeOK, BeginEpoch
  <2>3. UNCHANGED <<builds, owners, reservations, budgets, history>>
    BY <1>1 DEF BeginEpoch
  <2>4. epoch' \in Nat
    BY <2>2
  <2> QED BY <2>1, <2>3, <2>4 DEF RetentionTypeOK, builds, owners, budgets
<1>2. CASE BeginSweep
  <2>1. {b \in Builds : Eligible(b)} \subseteq Builds
    OBVIOUS
  <2>2. gc'.records \in [Builds -> GcRecord]
    <3>1. gc'.records = [b \in Builds |-> Marked(b)]
      BY <1>2, <1>t DEF BeginSweep, Collection
    <3>2. \A b \in Builds : Marked(b) \in GcRecord
      BY <1>t, RecordTypes DEF Marked, Collection, RetentionTypeOK
    <3> QED BY <3>1, <3>2
  <2>3. gc' \in Collection
    BY <1>2, <1>t, <2>1, <2>2 DEF BeginSweep, Collection, Phases
  <2>4. unrooted' \in [Builds -> Unrooted]
    BY <1>2 DEF BeginSweep, RetentionTypeOK, Unrooted
  <2>5. fresh' \in [Owners -> Freshness]
    BY <1>2 DEF BeginSweep, RetentionTypeOK
  <2> QED BY <1>2, <2>3, <2>4, <2>5, CollectionStepType DEF BeginSweep
<1>3. CASE FinishSweep
  <2>1. gc' \in Collection
    BY <1>3, <1>t DEF FinishSweep, Collection, Phases
  <2>2. gcState' \in [Builds -> GcRecord]
    BY <1>3, <1>t DEF FinishSweep, Collection
  <2>3. unrooted' \in [Builds -> Unrooted]
    BY <1>3, <1>n DEF FinishSweep, RetentionTypeOK
  <2>4. UNCHANGED <<stored, trash, promoting, hydrating, owners, journal, budgets, fresh>>
    BY <1>3 DEF FinishSweep
  <2> QED BY <2>1, <2>2, <2>3, <2>4, OwnersType DEF RetentionTypeOK, journal, budgets
<1>4. CASE CompleteEpoch
  BY <1>4 DEF RetentionTypeOK, CompleteEpoch, builds, owners, budgets
<1>5. CASE RemoveTrash
  <2>1. gc.removing \in Builds /\ trash[gc.removing] > 0
    BY <1>5, <1>t DEF RemoveTrash, RemovalInv, Collection, BuildOrNone
  <2>2. trash' \in [Builds -> Nat]
    BY <1>5, <2>1 DEF RemoveTrash, RetentionTypeOK
  <2>3. gc' \in Collection
    BY <1>5, <1>t DEF RemoveTrash, Collection, BuildOrNone
  <2> QED BY <1>5, <2>2, <2>3, OwnersType DEF RetentionTypeOK, RemoveTrash, journal, budgets
<1>6. CASE RemoveTrashFails
  <2>1. gc' \in Collection
    BY <1>6, <1>t DEF RemoveTrashFails, Collection, BuildOrNone
  <2> QED BY <1>6, <2>1 DEF RetentionTypeOK, RemoveTrashFails, builds, owners, journal
<1>7. ASSUME NEW b \in Builds, Restore(b) PROVE RetentionTypeOK'
  <2>1. trash[b] > 0
    BY <1>7 DEF Restore, RecoveryInv
  <2>2. gc' \in Collection
    <3>1. CASE b \in stored
      <4>1. gc' = [gc EXCEPT !.todo = @ \ {b}, !.clean = FALSE]
        BY <1>7, <3>1 DEF Restore
      <4> QED BY <1>t, <4>1 DEF Collection
    <3>2. CASE b \notin stored
      <4>1. gc' = [gc EXCEPT !.todo = @ \ {b}, !.seen = @ \cup {b}, !.records[b] = NoRecord]
        BY <1>7, <3>2 DEF Restore
      <4>2. [gc.records EXCEPT ![b] = NoRecord] \in [Builds -> GcRecord]
        BY <1>t, RecordTypes DEF Collection
      <4> QED BY <1>t, <4>1, <4>2 DEF Collection
    <3> QED BY <3>1, <3>2
  <2>3. \/ UNCHANGED <<stored, trash>>
        \/ stored' = stored \cup {b} /\ trash' = [trash EXCEPT ![b] = @ - 1]
    BY <1>7 DEF Restore
  <2>4. stored' \in SUBSET Builds /\ trash' \in [Builds -> Nat]
    BY <2>1, <2>3 DEF RetentionTypeOK
  <2>5. UNCHANGED <<gcState, promoting, hydrating, owners, journal, budgets, history>>
    BY <1>7 DEF Restore
  <2> QED BY <2>2, <2>4, <2>5 DEF RetentionTypeOK, owners, journal, budgets
<1>8. ASSUME NEW b \in Builds, FinishDeletion(b) PROVE RetentionTypeOK'
  <2>1. gc' \in Collection
    BY <1>8, <1>t, RetiringType DEF FinishDeletion, Collection, BuildOrNone
  <2>2. unrooted' \in [Builds -> Unrooted]
    BY <1>8, <1>n DEF FinishDeletion, RetentionTypeOK
  <2> QED BY <1>8, <2>1, <2>2, RetiringType, OwnersType
          DEF RetentionTypeOK, FinishDeletion, journal, budgets
<1>9. ASSUME NEW b \in Builds, Sweep(b) PROVE RetentionTypeOK'
  <2>1. gc' \in Collection
    BY <1>9, <1>t, RetiringType DEF Sweep, Collection, BuildOrNone
  <2>2. stored' = stored \ {b} /\ trash' = [trash EXCEPT ![b] = @ + 1]
    BY <1>9 DEF Sweep
  <2>3. stored' \in SUBSET Builds /\ trash' \in [Builds -> Nat]
    BY <2>2 DEF RetentionTypeOK
  <2>4. unrooted' \in [Builds -> Unrooted]
    BY <1>9, <1>n DEF Sweep, RetentionTypeOK
  <2> QED BY <1>9, <2>1, <2>3, <2>4, RetiringType, OwnersType
          DEF RetentionTypeOK, Sweep, journal, budgets
<1> QED BY <1>1, <1>2, <1>3, <1>4, <1>5, <1>6, <1>7, <1>8, <1>9

\* Every step keeps the types.
LEMMA TypeStep ==
    ASSUME RetentionTypeOK, RemovalInv, RecoveryInv, [RetentionNext]_vars
    PROVE  RetentionTypeOK'
<1>1. CASE RetentionNext
  BY <1>1, StoreType, ClockType, PublicationType, RestartType, ReportType, SweepType
  DEF RetentionNext, OwnerStep, CollectorStep
<1>2. CASE UNCHANGED vars
  BY <1>2 DEF vars, RetentionTypeOK
<1> QED BY <1>1, <1>2

-----------------------------------------------------------------------------
(* Reservations keep their artifact *)

\* Steps that neither delete a build nor touch the journal's reservations.
LEMMA QuietStep ==
    ASSUME RetentionTypeOK,
           \/ \E b \in Builds : StoreStep(b) \/ Restore(b) \/ FinishDeletion(b) \/ RetainPublished(b)
           \/ \E o \in Owners : \/ OwnerWrite(o) \/ OwnerWriteFails(o) \/ Retire(o)
                                \/ EntityCallFails(o) \/ ReadEntity(o) \/ SnapshotRoots(o)
                                \/ \E b \in Builds : Republish(o, b)
           \/ BeginEpoch \/ ReportLoads \/ ReportScans \/ BeginCommit \/ CommitLoads \/ CommitScans
           \/ RemoveTrash \/ RemoveTrashFails \/ BeginSweep \/ FinishSweep \/ CollectionFails
           \/ DayPasses \/ Restart
    PROVE  stored \subseteq stored' /\ reservations' = reservations
<1> USE DEF builds, journal
<1>1. ASSUME NEW b \in Builds, StoreStep(b)
      PROVE  stored \subseteq stored' /\ reservations' = reservations
  BY <1>1 DEF StoreStep, Promote, FinishPut, Hydrate, FinishHydrate
<1>2. ASSUME NEW b \in Builds, Restore(b) \/ FinishDeletion(b) \/ RetainPublished(b)
      PROVE  stored \subseteq stored' /\ reservations' = reservations
  BY <1>2 DEF Restore, FinishDeletion, RetainPublished
<1>3. ASSUME NEW o \in Owners,
             \/ OwnerWrite(o) \/ OwnerWriteFails(o) \/ Retire(o)
             \/ EntityCallFails(o) \/ ReadEntity(o) \/ SnapshotRoots(o)
             \/ \E b \in Builds : Republish(o, b)
      PROVE  stored \subseteq stored' /\ reservations' = reservations
  BY <1>3 DEF OwnerWrite, OwnerWriteFails, Retire, EntityCallFails, ReadEntity, SnapshotRoots,
              Republish
<1>4. CASE BeginEpoch \/ ReportLoads \/ ReportScans \/ BeginCommit \/ CommitLoads \/ CommitScans
  BY <1>4 DEF BeginEpoch, ReportLoads, CommitLoads, LoadState, ReportScans, BeginCommit, CommitScans
<1>5. CASE \/ RemoveTrash \/ RemoveTrashFails \/ BeginSweep \/ FinishSweep \/ CollectionFails
           \/ DayPasses \/ Restart
  BY <1>5 DEF RemoveTrash, RemoveTrashFails, BeginSweep, FinishSweep, CollectionFails,
              DayPasses, Restart
<1> QED BY <1>1, <1>2, <1>3, <1>4, <1>5

\* Only commitArtifactDeletion takes a build away, and it refuses a reserved one.
LEMMA ReservedStep ==
    ASSUME RetentionTypeOK, ReservedBuildIsStored, [RetentionNext]_vars
    PROVE  ReservedBuildIsStored'
<1>1. ASSUME stored \subseteq stored', reservations' = reservations
      PROVE  ReservedBuildIsStored'
  BY <1>1 DEF ReservedBuildIsStored
<1>2. ASSUME NEW o \in Owners, NEW b \in Builds, NEW f \in BOOLEAN, b \in stored,
             stored' = stored, reservations' = reservations \cup {NewReservation(o, b, f)}
      PROVE  ReservedBuildIsStored'
  BY <1>2 DEF ReservedBuildIsStored, NewReservation
<1>3. ASSUME NEW b \in Builds, MayDelete(b), stored' = stored \ {b}, reservations' = reservations
      PROVE  ReservedBuildIsStored'
  BY <1>3 DEF ReservedBuildIsStored, MayDelete, ReservationProtects
<1>4. ASSUME NEW o \in Owners, NEW b \in Builds,
             Reserve(o, b) \/ Publish(o, b) \/ DiePublishing(o, b)
      PROVE  ReservedBuildIsStored'
  BY <1>2, <1>4 DEF Reserve, Republish, Publish, DiePublishing, MayReserve, builds
<1>5. ASSUME NEW o \in Owners, Finalize(o) PROVE ReservedBuildIsStored'
  <2>1. stored' = stored /\ reservations' = FinalizedIn(reservations, publishing[o].id)
    BY <1>5 DEF Finalize, builds
  <2> SUFFICES ASSUME NEW r \in reservations', ~r.finalized PROVE r.build \in stored'
    BY DEF ReservedBuildIsStored
  <2>2. \A s \in reservations : [s EXCEPT !.finalized = TRUE].finalized
    BY DEF RetentionTypeOK, Reservation
  <2>3. r \in reservations
    BY <2>1, <2>2 DEF FinalizedIn
  <2> QED BY <2>1, <2>3 DEF ReservedBuildIsStored
<1>6. CASE CompleteEpoch
  BY <1>6 DEF CompleteEpoch, ReservedBuildIsStored, builds
<1>7. ASSUME NEW b \in Builds, Sweep(b) \/ DieSweeping(b) PROVE ReservedBuildIsStored'
  BY <1>3, <1>7 DEF Sweep, DieSweeping, journal
<1>8. CASE UNCHANGED vars
  BY <1>8, <1>1 DEF vars
<1> QED BY <1>1, <1>4, <1>5, <1>6, <1>7, <1>8, QuietStep DEF RetentionNext, OwnerStep, CollectorStep

-----------------------------------------------------------------------------
(* Quarantine records are backed by what is on disk *)

\* No collection is left: only the state file matters.
LEMMA AbandonedBacked ==
    ASSUME gc' = NoCollection, QuarantineIsBacked'
    PROVE  BackingInv'
BY NoCollectionShape, RecordLiveness
DEF BackingInv, RemovalInv, RecoveryInv, RecordsBacked

\* Nothing is collected while builds are added and owners come and go.
LEMMA GrowingBacked ==
    ASSUME BackingInv, gc' = gc, trash' = trash, gcState' = gcState, stored \subseteq stored'
    PROVE  BackingInv'
BY DEF BackingInv, RemovalInv, RecoveryInv, RecordsBacked, QuarantineIsBacked, Live, Retired

\* Publications and puts touch no record and no trash.
LEMMA PublicationBacked ==
    ASSUME BackingInv,
           \/ \E b \in Builds : Promote(b) \/ Hydrate(b) \/ FinishHydrate(b)
           \/ \E o \in Owners :
                 \/ OwnerWrite(o) \/ Finalize(o) \/ OwnerWriteFails(o) \/ Retire(o)
                 \/ EntityCallFails(o) \/ ReadEntity(o)
                 \/ \E b \in Builds : Reserve(o, b) \/ Republish(o, b) \/ Publish(o, b)
    PROVE  BackingInv'
<1>1. gc' = gc /\ trash' = trash /\ gcState' = gcState /\ stored \subseteq stored'
  <2> USE DEF builds
  <2>1. ASSUME NEW b \in Builds, Promote(b) \/ Hydrate(b) \/ FinishHydrate(b)
        PROVE  gc' = gc /\ trash' = trash /\ gcState' = gcState /\ stored \subseteq stored'
    BY <2>1 DEF Promote, Hydrate, FinishHydrate
  <2>2. ASSUME NEW o \in Owners,
               OwnerWrite(o) \/ Finalize(o) \/ OwnerWriteFails(o) \/ Retire(o)
        PROVE  gc' = gc /\ trash' = trash /\ gcState' = gcState /\ stored \subseteq stored'
    BY <2>2 DEF OwnerWrite, Finalize, OwnerWriteFails, Retire
  <2>3. ASSUME NEW o \in Owners, EntityCallFails(o) \/ ReadEntity(o)
        PROVE  gc' = gc /\ trash' = trash /\ gcState' = gcState /\ stored \subseteq stored'
    BY <2>3 DEF EntityCallFails, ReadEntity
  <2>4. ASSUME NEW o \in Owners, NEW b \in Builds,
               Reserve(o, b) \/ Republish(o, b) \/ Publish(o, b)
        PROVE  gc' = gc /\ trash' = trash /\ gcState' = gcState /\ stored \subseteq stored'
    BY <2>4 DEF Reserve, Republish, Publish
  <2> QED BY <2>1, <2>2, <2>3, <2>4
<1> QED BY <1>1, GrowingBacked

\* A restart drops the collector's records; a death between rename and
\* tombstone leaves the renamed directory in the trash.
LEMMA RestartBacked ==
    ASSUME RetentionTypeOK, BackingInv,
           \/ Restart
           \/ \E b \in Builds : DieSweeping(b)
           \/ \E o \in Owners, b \in Builds : DiePublishing(o, b)
    PROVE  BackingInv'
<1>1. gc' = NoCollection /\ gcState' = gcState
  BY DEF Restart, DieSweeping, DiePublishing, ProcessLost
<1>2. QuarantineIsBacked'
  <2>1. CASE Restart \/ \E o \in Owners, b \in Builds : DiePublishing(o, b)
    <3>1. stored' = stored /\ trash' = trash
      BY <2>1 DEF Restart, DiePublishing
    <3> QED BY <1>1, <3>1 DEF BackingInv, QuarantineIsBacked, Live, Retired
  <2>2. ASSUME NEW b \in Builds, DieSweeping(b) PROVE QuarantineIsBacked'
    <3>1. stored' = stored \ {b} /\ trash' = [trash EXCEPT ![b] = @ + 1]
      BY <2>2 DEF DieSweeping
    <3>2. trash'[b] > 0 /\ \A c \in Builds \ {b} : trash'[c] = trash[c]
      BY <3>1 DEF RetentionTypeOK
    <3>3. \A c \in Builds : Live(gcState'[c]) => Live(gcState[c])
      BY <1>1
    <3> QED BY <3>1, <3>2, <3>3 DEF BackingInv, QuarantineIsBacked
  <2> QED BY <2>1, <2>2
<1> QED BY <1>1, <1>2, AbandonedBacked

\* A step of the collector that mutates nothing and gives up nothing.
LEMMA ScanningBacked ==
    ASSUME BackingInv, UNCHANGED builds,
           gc'.removing = gc.removing, gc'.records \in {gc.records, gcState},
           gc'.removing # NoBuild => gc'.phase \in {"recovering", "sweeping"}
                                        /\ gc'.records = gc.records,
           gc'.phase = "recovering" =>
              gc'.seen \subseteq stored /\ \A b \in gc'.todo : trash[b] > 0 /\ b # gc.removing
    PROVE  BackingInv'
<1>1. \A b \in Builds : Live(gcState'[b]) <=> Live(gcState[b])
  BY DEF builds
<1>2. RemovalInv'
  <2> SUFFICES ASSUME gc'.removing # NoBuild
               PROVE  /\ gc'.phase \in {"recovering", "sweeping"}
                      /\ trash'[gc.removing] > 0
                      /\ ~Live(gcState'[gc.removing]) /\ ~Live(gc'.records[gc.removing])
    BY DEF RemovalInv, Live, Retired
  <2> QED BY DEF BackingInv, RemovalInv, builds
<1>3. RecoveryInv'
  BY DEF RecoveryInv, builds
<1>4. RecordsBacked'
  <2>1. \A b \in Builds : Live(gc'.records[b]) => Live(gc.records[b]) \/ Live(gcState[b])
    OBVIOUS
  <2>2. \A b \in Builds : Live(gc'.records[b]) => b \in stored \/ trash[b] > 0
    BY <2>1 DEF BackingInv, RecordsBacked, QuarantineIsBacked
  <2> QED BY <2>2 DEF RecordsBacked, builds, Live, Retired
<1>5. QuarantineIsBacked'
  BY <1>1 DEF BackingInv, QuarantineIsBacked, builds, Live, Retired
<1> QED BY <1>2, <1>3, <1>4, <1>5 DEF BackingInv

\* A collection that gives up leaves the disk as it was.
LEMMA AbandonedWithoutChange ==
    ASSUME BackingInv, UNCHANGED builds, gc' = NoCollection
    PROVE  BackingInv'
<1>1. QuarantineIsBacked'
  BY DEF BackingInv, QuarantineIsBacked, builds, Live, Retired
<1> QED BY <1>1, AbandonedBacked

\* Opening an epoch, reading roots, scanning and completing keep the backing.
LEMMA ReportBacked ==
    ASSUME RetentionTypeOK, BackingInv,
           \/ \E o \in Owners : SnapshotRoots(o)
           \/ BeginEpoch \/ ReportLoads \/ ReportScans \/ BeginCommit \/ CommitLoads \/ CommitScans
           \/ CompleteEpoch \/ CollectionFails
    PROVE  BackingInv'
<1>t. gc \in Collection /\ NoCollection \in Collection
  BY NoCollectionShape DEF RetentionTypeOK
<1>1. ASSUME gc.phase \notin {"recovering", "sweeping"}
      PROVE  gc.removing = NoBuild
  BY <1>1 DEF BackingInv, RemovalInv
<1>2. ASSUME NEW o \in Owners, SnapshotRoots(o) PROVE BackingInv'
  <2>1. /\ gc'.phase = "snapshot" /\ gc'.removing = gc.removing /\ gc'.records = gc.records
        /\ gc.phase = "snapshot" /\ UNCHANGED builds
    BY <1>2, <1>t DEF SnapshotRoots, Collection
  <2> QED BY <2>1, <1>1, ScanningBacked
<1>3. CASE BeginEpoch
  <2>1. gc'.phase = "snapshot" /\ gc'.removing = NoBuild /\ gc'.records = NoCollection.records
    BY <1>3, <1>t, NoCollectionShape DEF BeginEpoch, Collection
  <2>2. RemovalInv' /\ RecoveryInv'
    BY <2>1 DEF RemovalInv, RecoveryInv
  <2>3. RecordsBacked'
    <3>1. \A b \in Builds : gc'.records[b] = NoRecord
      BY <2>1, NoCollectionShape
    <3> QED BY <3>1, RecordLiveness DEF RecordsBacked, Live, Retired
  <2>4. QuarantineIsBacked'
    BY <1>3 DEF BeginEpoch, builds, BackingInv, QuarantineIsBacked, Live, Retired
  <2> QED BY <2>2, <2>3, <2>4 DEF BackingInv
<1>4. ASSUME NEW from \in Phases, NEW to \in Phases \ {"recovering", "sweeping"}, LoadState(from, to),
             from \notin {"recovering", "sweeping"}
      PROVE  BackingInv'
  <2>1. CASE gc' = NoCollection
    BY <1>4, <2>1, AbandonedWithoutChange DEF LoadState
  <2>2. CASE gc' = [gc EXCEPT !.phase = to, !.records = gcState]
    <3>1. gc'.phase = to /\ gc'.removing = gc.removing /\ gc'.records = gcState
      BY <2>2, <1>t DEF Collection
    <3>2. gc.phase = from /\ UNCHANGED builds
      BY <1>4 DEF LoadState
    <3> QED BY <1>4, <3>1, <3>2, <1>1, ScanningBacked
  <2> QED BY <1>4, <2>1, <2>2 DEF LoadState
<1>5. ReportLoads \/ CommitLoads => BackingInv'
  BY <1>4 DEF ReportLoads, CommitLoads, Phases
<1>6. CASE ReportScans
  <2>1. /\ gc'.phase = "prepared" /\ gc'.removing = gc.removing /\ gc'.records = gc.records
        /\ gc.phase = "reporting" /\ UNCHANGED builds
    BY <1>6, <1>t DEF ReportScans, Collection
  <2> QED BY <2>1, <1>1, ScanningBacked
<1>7. CASE BeginCommit
  <2>1. /\ gc'.phase = "committing" /\ gc'.removing = gc.removing /\ gc'.records = gc.records
        /\ gc.phase = "prepared" /\ UNCHANGED builds
    BY <1>7, <1>t DEF BeginCommit, Collection
  <2> QED BY <2>1, <1>1, ScanningBacked
<1>8. CASE CommitScans
  <2>1. CASE gc' = NoCollection
    BY <1>8, <2>1, AbandonedWithoutChange DEF CommitScans
  <2> DEFINE vanished == {b \in Builds : Live(gc.records[b]) /\ b \notin stored}
  <2>2. CASE /\ \A b \in vanished : trash[b] = 1
             /\ gc' = [gc EXCEPT !.phase = "recovering", !.seen = stored, !.todo = vanished]
    <3>1. gc.phase = "scanning" /\ UNCHANGED builds
      BY <1>8 DEF CommitScans
    <3>2. /\ gc'.phase = "recovering" /\ gc'.removing = gc.removing /\ gc'.records = gc.records
          /\ gc'.seen = stored /\ gc'.todo = vanished
      BY <2>2, <1>t DEF Collection
    <3>3. \A b \in vanished : trash[b] > 0 /\ b # gc.removing
      BY <3>1, <2>2, <1>1, NoBuildAssumption
    <3> HIDE DEF vanished
    <3> QED BY <3>1, <3>2, <3>3, ScanningBacked
  <2> QED BY <1>8, <2>1, <2>2 DEF CommitScans
<1>9. CASE CompleteEpoch \/ CollectionFails
  BY <1>9, AbandonedWithoutChange DEF CompleteEpoch, CollectionFails
<1> QED BY <1>2, <1>3, <1>5, <1>6, <1>7, <1>8, <1>9

\* Recording the deletion of one build leaves the other records alone.
LEMMA RetiringRecords ==
    ASSUME RetentionTypeOK, NEW b \in Builds
    PROVE  /\ ~Live(Retiring(b)[b])
           /\ \A c \in Builds \ {b} : Retiring(b)[c] = gc.records[c]
BY RecordLiveness DEF RetentionTypeOK, Collection, Retiring

\* A deletion is recorded, in the collector's records and in the state file.
LEMMA RetiringBacked ==
    ASSUME RetentionTypeOK, BackingInv, NEW b \in Builds,
           gcState' = Retiring(b), gc'.records = Retiring(b), gc'.removing = b,
           \A c \in Builds \ {b} : c \in stored => c \in stored',
           \A c \in Builds \ {b} : trash'[c] = trash[c],
           trash'[b] > 0, gc'.phase \in {"recovering", "sweeping"}
    PROVE  RemovalInv' /\ RecordsBacked' /\ QuarantineIsBacked'
<1>1. ~Live(gcState'[b]) /\ ~Live(gc'.records[b])
  BY RetiringRecords
<1>2. ASSUME NEW c \in Builds \ {b}, Live(gc'.records[c])
      PROVE  c \in stored' \/ trash'[c] > 0
  <2>1. Live(gc.records[c])
    BY <1>2, RetiringRecords
  <2> QED BY <2>1 DEF BackingInv, RecordsBacked
<1>3. RemovalInv'
  BY <1>1 DEF RemovalInv, Live, Retired
<1>4. RecordsBacked'
  BY <1>1, <1>2 DEF RecordsBacked, Live, Retired
<1>5. QuarantineIsBacked'
  BY <1>1, <1>2 DEF QuarantineIsBacked, Live, Retired
<1> QED BY <1>3, <1>4, <1>5

\* A finished put and the clock put nothing into quarantine.
LEMMA StoreRecordsBacked ==
    ASSUME RetentionTypeOK, BackingInv, DayPasses \/ \E b \in Builds : FinishPut(b)
    PROVE  BackingInv'
<1>t. gc \in Collection /\ gc' = gc /\ trash' = trash /\ stored' = stored
  BY DEF RetentionTypeOK, DayPasses, FinishPut
<1>1. gcState' \in [Builds -> GcRecord] /\ \A c \in Builds : Live(gcState'[c]) => Live(gcState[c])
  <2>1. CASE DayPasses
    <3>1. \A c \in Builds : gcState'[c].since = gcState[c].since
                              /\ gcState'[c].deletedAt = gcState[c].deletedAt
      BY <2>1 DEF DayPasses, RetentionTypeOK, GcRecord
    <3> QED BY <2>1, <3>1, ClockType DEF Live, Retired, RetentionTypeOK
  <2>2. ASSUME NEW b \in Builds, FinishPut(b)
        PROVE  \A c \in Builds : Live(gcState'[c]) => Live(gcState[c])
    <3>1. \A c \in Builds : gcState'[c] \in {gcState[c], NoRecord}
      BY <2>2 DEF FinishPut, RetentionTypeOK
    <3> QED BY <3>1, RecordLiveness
  <2>3. ASSUME NEW b \in Builds, FinishPut(b) PROVE gcState' \in [Builds -> GcRecord]
    BY <2>3, RecordTypes DEF FinishPut, RetentionTypeOK
  <2> QED BY <2>1, <2>2, <2>3
<1>2. RemovalInv'
  <2> SUFFICES ASSUME gc.removing # NoBuild
               PROVE  ~Live(gcState'[gc.removing])
    BY <1>t DEF BackingInv, RemovalInv, Live, Retired
  <2>1. gc.removing \in Builds
    BY <1>t DEF Collection, BuildOrNone
  <2> QED BY <1>1, <2>1 DEF BackingInv, RemovalInv
<1>3. RecoveryInv' /\ RecordsBacked'
  BY <1>t DEF BackingInv, RecoveryInv, RecordsBacked, Live, Retired
<1>4. QuarantineIsBacked'
  <2>1. \A c \in Builds : Live(gcState'[c]) => c \in stored' \/ trash'[c] > 0
    BY <1>t, <1>1 DEF BackingInv, QuarantineIsBacked
  <2> QED BY <2>1 DEF QuarantineIsBacked, Live, Retired
<1> QED BY <1>2, <1>3, <1>4 DEF BackingInv

\* Taking a build back from the trash keeps the backing: the last directory may
\* go, for the build is stored again.
LEMMA RestoreBacked ==
    ASSUME RetentionTypeOK, BackingInv, NEW b \in Builds, Restore(b)
    PROVE  BackingInv'
<1>t. /\ gc \in Collection /\ gc.phase = "recovering" /\ gc.removing = NoBuild /\ gcState' = gcState
      /\ b \in gc.todo
  BY DEF RetentionTypeOK, Restore
<1>1. CASE b \in stored
  <2>1. /\ gc' = [gc EXCEPT !.todo = @ \ {b}, !.clean = FALSE] /\ UNCHANGED builds
    BY <1>1 DEF Restore, builds
  <2>2. /\ gc'.phase = "recovering" /\ gc'.removing = NoBuild /\ gc'.records = gc.records
        /\ gc'.seen = gc.seen /\ gc'.todo = gc.todo \ {b}
    BY <2>1, <1>t DEF Collection
  <2>3. gc.seen \subseteq stored /\ \A c \in gc.todo : trash[c] > 0 /\ c # gc.removing
    BY <1>t DEF BackingInv, RecoveryInv
  <2> QED BY <1>t, <2>1, <2>2, <2>3, ScanningBacked
<1>2. CASE b \notin stored
  <2>1. /\ gc' = [gc EXCEPT !.todo = @ \ {b}, !.seen = @ \cup {b}, !.records[b] = NoRecord]
        /\ stored' = stored \cup {b} /\ trash' = [trash EXCEPT ![b] = @ - 1]
    BY <1>2 DEF Restore
  <2>2. /\ gc'.phase = "recovering" /\ gc'.removing = NoBuild
        /\ gc'.seen = gc.seen \cup {b} /\ gc'.todo = gc.todo \ {b}
        /\ gc'.records = [gc.records EXCEPT ![b] = NoRecord]
    BY <2>1, <1>t DEF Collection
  <2>3. \A c \in Builds \ {b} : trash'[c] = trash[c]
    BY <2>1 DEF RetentionTypeOK
  <2>4. RemovalInv'
    BY <2>2 DEF RemovalInv
  <2>5. RecoveryInv'
    <3>1. gc.seen \subseteq stored /\ \A c \in gc.todo : trash[c] > 0
      BY <1>t DEF BackingInv, RecoveryInv
    <3>2. \A c \in gc.todo : c \in Builds
      BY <1>t DEF Collection
    <3>3. \A c \in gc.todo \ {b} : trash'[c] > 0 /\ c # NoBuild
      BY <3>1, <3>2, <2>3, NoBuildAssumption
    <3> QED BY <2>1, <2>2, <3>1, <3>3 DEF RecoveryInv
  <2>6. RecordsBacked'
    <3>1. \A c \in Builds \ {b} : gc'.records[c] = gc.records[c]
      BY <2>2, <1>t DEF Collection
    <3>2. \A c \in Builds \ {b} : Live(gc'.records[c]) => c \in stored' \/ trash'[c] > 0
      BY <3>1, <2>1, <2>3 DEF BackingInv, RecordsBacked
    <3> QED BY <2>1, <3>2 DEF RecordsBacked, Live, Retired
  <2>7. QuarantineIsBacked'
    <3>1. \A c \in Builds \ {b} : Live(gcState[c]) => c \in stored' \/ trash'[c] > 0
      BY <2>1, <2>3 DEF BackingInv, QuarantineIsBacked
    <3> QED BY <1>t, <2>1, <3>1 DEF QuarantineIsBacked, Live, Retired
  <2> QED BY <2>4, <2>5, <2>6, <2>7 DEF BackingInv
<1> QED BY <1>1, <1>2

\* A deletion, swept or repaired, is witnessed by a trash directory.
LEMMA DeletionBacked ==
    ASSUME RetentionTypeOK, BackingInv, NEW b \in Builds, FinishDeletion(b) \/ Sweep(b)
    PROVE  BackingInv'
<1>t. gc \in Collection /\ Retiring(b) \in [Builds -> GcRecord]
  BY RetiringType DEF RetentionTypeOK
<1>1. CASE FinishDeletion(b)
  <2>1. /\ gc' = [gc EXCEPT !.todo = @ \ {b}, !.records = Retiring(b), !.removing = b]
        /\ gcState' = Retiring(b) /\ gc.phase = "recovering" /\ b \in gc.todo
        /\ stored' = stored /\ trash' = trash
    BY <1>1 DEF FinishDeletion
  <2>2. /\ gc'.phase = "recovering" /\ gc'.records = Retiring(b) /\ gc'.removing = b
        /\ gc'.seen = gc.seen /\ gc'.todo = gc.todo \ {b}
    BY <2>1, <1>t DEF Collection
  <2>3. gc.seen \subseteq stored /\ \A c \in gc.todo : trash[c] > 0
    BY <2>1 DEF BackingInv, RecoveryInv
  <2>4. RemovalInv' /\ RecordsBacked' /\ QuarantineIsBacked'
    BY <2>1, <2>2, <2>3, RetiringBacked
  <2>5. RecoveryInv'
    BY <2>1, <2>2, <2>3 DEF RecoveryInv
  <2> QED BY <2>4, <2>5 DEF BackingInv
<1>2. CASE Sweep(b)
  <2>1. /\ gc' = [gc EXCEPT !.todo = @ \ {b}, !.records = Retiring(b), !.removing = b]
        /\ gcState' = Retiring(b) /\ gc.phase = "sweeping"
        /\ stored' = stored \ {b} /\ trash' = [trash EXCEPT ![b] = @ + 1]
    BY <1>2 DEF Sweep
  <2>2. gc'.phase = "sweeping" /\ gc'.records = Retiring(b) /\ gc'.removing = b
    BY <2>1, <1>t DEF Collection
  <2>3. trash'[b] > 0 /\ \A c \in Builds \ {b} : trash'[c] = trash[c]
    BY <2>1 DEF RetentionTypeOK
  <2>4. RemovalInv' /\ RecordsBacked' /\ QuarantineIsBacked'
    BY <2>1, <2>2, <2>3, RetiringBacked
  <2>5. RecoveryInv'
    BY <2>2 DEF RecoveryInv
  <2> QED BY <2>4, <2>5 DEF BackingInv
<1> QED BY <1>1, <1>2

\* Removing a trash directory: its build is no longer in quarantine.
LEMMA RemovalBacked ==
    ASSUME RetentionTypeOK, BackingInv, RemoveTrash
    PROVE  BackingInv'
<1>t. gc \in Collection /\ gc.removing # NoBuild /\ stored' = stored /\ gcState' = gcState
  BY DEF RetentionTypeOK, RemoveTrash
<1> DEFINE d == gc.removing
<1>1. /\ d \in Builds /\ ~Live(gcState[d]) /\ ~Live(gc.records[d])
      /\ gc.phase \in {"recovering", "sweeping"}
  BY <1>t DEF Collection, BuildOrNone, BackingInv, RemovalInv
<1>2. /\ gc'.removing = NoBuild /\ gc'.phase = gc.phase /\ gc'.records = gc.records
      /\ gc'.seen = gc.seen /\ gc'.todo = gc.todo
  BY <1>t DEF RemoveTrash, Collection
<1>3. \A c \in Builds \ {d} : trash'[c] = trash[c]
  BY DEF RetentionTypeOK, RemoveTrash
<1>4. RemovalInv'
  BY <1>2 DEF RemovalInv
<1>5. RecoveryInv'
  <2> SUFFICES ASSUME gc.phase = "recovering"
               PROVE  gc.seen \subseteq stored /\ \A c \in gc.todo : trash'[c] > 0 /\ c # NoBuild
    BY <1>t, <1>2 DEF RecoveryInv
  <2>1. gc.seen \subseteq stored /\ \A c \in gc.todo : trash[c] > 0 /\ c # d
    BY DEF BackingInv, RecoveryInv
  <2>2. \A c \in gc.todo : c \in Builds
    BY <1>t DEF Collection
  <2> QED BY <2>1, <2>2, <1>3, NoBuildAssumption
<1>6. RecordsBacked'
  <2>1. \A c \in Builds : Live(gc.records[c]) => c \in stored \/ trash'[c] > 0
    BY <1>1, <1>3 DEF BackingInv, RecordsBacked
  <2> QED BY <2>1, <1>t, <1>2 DEF RecordsBacked, Live, Retired
<1>7. QuarantineIsBacked'
  <2>1. \A c \in Builds : Live(gcState[c]) => c \in stored \/ trash'[c] > 0
    BY <1>1, <1>3 DEF BackingInv, QuarantineIsBacked
  <2> QED BY <2>1, <1>t DEF QuarantineIsBacked, Live, Retired
<1> QED BY <1>4, <1>5, <1>6, <1>7 DEF BackingInv

\* Quarantining what was seen in the store keeps the backing, for nothing was
\* deleted since it was seen (RecoveryInv).
LEMMA SweepBacked ==
    ASSUME RetentionTypeOK, BackingInv,
           \/ RemoveTrashFails \/ BeginSweep \/ FinishSweep
           \/ \E b \in Builds : RetainPublished(b)
    PROVE  BackingInv'
<1>t. gc \in Collection
  BY DEF RetentionTypeOK
<1>1. CASE RemoveTrashFails
  <2>1. UNCHANGED builds /\ gc' = [gc EXCEPT !.removing = NoBuild, !.clean = FALSE]
    BY <1>1 DEF RemoveTrashFails
  <2>2. /\ gc'.removing = NoBuild /\ gc'.phase = gc.phase /\ gc'.records = gc.records
        /\ gc'.seen = gc.seen /\ gc'.todo = gc.todo
    BY <2>1, <1>t DEF Collection
  <2>3. RemovalInv'
    BY <2>2 DEF RemovalInv
  <2>4. gc.todo \subseteq Builds
    BY <1>t DEF Collection
  <2>5. RecoveryInv'
    BY <2>1, <2>2, <2>4, NoBuildAssumption DEF BackingInv, RecoveryInv, builds
  <2>6. RecordsBacked' /\ QuarantineIsBacked'
    BY <2>1, <2>2 DEF BackingInv, RecordsBacked, QuarantineIsBacked, builds, Live, Retired
  <2> QED BY <2>3, <2>5, <2>6 DEF BackingInv
<1>2. CASE BeginSweep
  <2>1. /\ UNCHANGED builds /\ gc.phase = "recovering"
        /\ gc'.phase = "sweeping" /\ gc'.removing = NoBuild
    BY <1>2, <1>t DEF BeginSweep, Collection
  <2>2. \A b \in Builds : \/ gc'.records[b] = gc.records[b]
                          \/ gc'.records[b] = NoRecord
                          \/ b \in gc.seen
    <3>1. gc'.records = [b \in Builds |-> Marked(b)]
      BY <1>2, <1>t DEF BeginSweep, Collection
    <3> QED BY <3>1 DEF Marked
  <2>3. gc.seen \subseteq stored
    BY <2>1 DEF BackingInv, RecoveryInv
  <2>4. \A b \in Builds : Live(gc'.records[b]) => b \in stored \/ trash[b] > 0
    <3> SUFFICES ASSUME NEW b \in Builds, Live(gc'.records[b]), b \notin stored
                 PROVE  trash[b] > 0
      OBVIOUS
    <3>1. Live(gc.records[b])
      BY <2>2, <2>3, RecordLiveness
    <3> QED BY <3>1 DEF BackingInv, RecordsBacked
  <2>5. RemovalInv' /\ RecoveryInv'
    BY <2>1 DEF RemovalInv, RecoveryInv
  <2>6. RecordsBacked'
    BY <2>1, <2>4 DEF RecordsBacked, builds, Live, Retired
  <2>7. QuarantineIsBacked'
    BY <2>1 DEF BackingInv, QuarantineIsBacked, builds, Live, Retired
  <2> QED BY <2>5, <2>6, <2>7 DEF BackingInv
<1>3. CASE FinishSweep
  <2>1. gcState' = gc.records /\ stored' = stored /\ trash' = trash
    BY <1>3 DEF FinishSweep
  <2>2. QuarantineIsBacked'
    BY <2>1 DEF BackingInv, RecordsBacked, QuarantineIsBacked, Live, Retired
  <2>3. CASE gc' = NoCollection
    BY <2>2, <2>3, AbandonedBacked
  <2>4. CASE gc' = [gc EXCEPT !.phase = "content"]
    <3>1. gc'.phase = "content" /\ gc'.removing = NoBuild /\ gc'.records = gc.records
      BY <1>3, <2>4, <1>t DEF FinishSweep, Collection
    <3>2. RemovalInv' /\ RecoveryInv'
      BY <3>1 DEF RemovalInv, RecoveryInv
    <3>3. RecordsBacked'
      BY <2>1, <3>1 DEF BackingInv, RecordsBacked, Live, Retired
    <3> QED BY <2>2, <3>2, <3>3 DEF BackingInv
  <2> QED BY <1>3, <2>3, <2>4 DEF FinishSweep
<1>4. ASSUME NEW b \in Builds, RetainPublished(b) PROVE BackingInv'
  <2>1. /\ UNCHANGED builds /\ gc.removing = NoBuild /\ gc'.removing = NoBuild
        /\ gc'.phase = "sweeping" /\ gc'.records = gc.records
    BY <1>4, <1>t DEF RetainPublished, Collection
  <2> QED BY <2>1, ScanningBacked
<1> QED BY <1>1, <1>2, <1>3, <1>4

\* Every step keeps quarantine backed.
LEMMA BackingStep ==
    ASSUME RetentionTypeOK, BackingInv, [RetentionNext]_vars
    PROVE  BackingInv'
<1>1. CASE RetentionNext
  BY <1>1, PublicationBacked, RestartBacked, ReportBacked, StoreRecordsBacked, RestoreBacked,
     DeletionBacked, RemovalBacked, SweepBacked
  DEF RetentionNext, StoreStep, OwnerStep, CollectorStep
<1>2. CASE UNCHANGED vars
  BY <1>2, GrowingBacked DEF vars
<1> QED BY <1>1, <1>2

-----------------------------------------------------------------------------
(* Theorems *)

\* The inductive invariant holds: types, reservations and quarantine together.
THEOREM RetentionInvariant == RetentionSpec => []RetentionInv
<1>1. RetentionInv /\ [RetentionNext]_vars => RetentionInv'
  BY TypeStep, ReservedStep, BackingStep DEF RetentionInv, BackingInv
<1> QED BY <1>1, InitInv, PTL DEF RetentionSpec

\* Every variable keeps its shape; in particular no build ever has fewer than no
\* trash directories, which needs the whole backing invariant.
THEOREM RetentionTypeCorrect == RetentionSpec => []RetentionTypeOK
BY RetentionInvariant, PTL DEF RetentionInv

\* A reservation that was not finalized keeps its artifact in every epoch, with
\* any number of owners, crashes and collections: commitArtifactDeletion.
THEOREM ReservationsKeepBuilds == RetentionSpec => []ReservedBuildIsStored
BY RetentionInvariant, PTL DEF RetentionInv

\* A build the state file has in quarantine is stored or in the trash, wherever
\* a crash stopped the collector: what the crash repair of the next commit needs.
THEOREM QuarantineBacked == RetentionSpec => []QuarantineIsBacked
BY RetentionInvariant, PTL DEF RetentionInv, BackingInv

-----------------------------------------------------------------------------
(* Rooted builds of owners that publish synchronously *)

\* While a collection runs, what such an owner roots is still to be read, was
\* read, or has a reservation of this epoch...
Covered(o) ==
    \/ o \in gc.unread
    \/ roots[o] \in gc.rooted
    \/ \E r \in reservations : r.build = roots[o] /\ r.epoch >= epoch

CoverageInv ==
    gc.phase # "idle" => \A o \in Owners \ Entities : roots[o] # NoBuild => Covered(o)

\* ...and every owner was read before anything can be deleted, and nothing that
\* was read is a candidate.
CandidatesInv ==
    /\ gc.phase \notin {"idle", "snapshot"} => gc.unread = {}
    /\ gc.phase = "sweeping" => gc.todo \cap gc.rooted = {}

\* Its mirror is never stale, and no publication of it is ever in flight,
\* whatever the entities beside it do.
SynchronousInv ==
    \A o \in Owners \ Entities : mirror[o] = roots[o] /\ publishing[o] = NotPublishing

RootInv ==
    /\ RetentionTypeOK /\ SynchronousInv
    /\ CoverageInv /\ CandidatesInv
    /\ SynchronousRootIsStored

\* Such an owner has no asynchronous publication in flight.
LEMMA NeverPublishes ==
    ASSUME SynchronousInv, NEW o \in Owners \ Entities
    PROVE  ~Publishes(o) /\ publishing[o].written = FALSE
BY DEF SynchronousInv, NotPublishing, Publishes

\* What may be deleted no such owner roots: an owner that was read has its build
\* among the roots, and one that published since has a reservation of this epoch.
LEMMA NotSwept ==
    ASSUME RootInv, NEW b \in Builds, gc.phase = "sweeping", b \in gc.todo, MayDelete(b)
    PROVE  \A o \in Owners \ Entities : roots[o] # b
<1> SUFFICES ASSUME NEW o \in Owners \ Entities, roots[o] = b PROVE FALSE
  OBVIOUS
<1>1. Covered(o) /\ o \notin gc.unread /\ b \notin gc.rooted
  BY NoBuildAssumption DEF RootInv, CoverageInv, CandidatesInv
<1>2. PICK r \in reservations : r.build = b /\ r.epoch >= epoch
  BY <1>1 DEF Covered
<1> QED BY <1>2 DEF MayDelete, ReservationProtects

\* The root invariant holds in a new workspace.
LEMMA InitRoots == RetentionInit => RootInv
<1> SUFFICES ASSUME RetentionInit PROVE RootInv
  OBVIOUS
<1>1. RetentionTypeOK
  BY InitInv DEF RetentionInv
<1>2. SynchronousInv /\ SynchronousRootIsStored
  BY DEF RetentionInit, SynchronousInv, SynchronousRootIsStored
<1>3. CoverageInv /\ CandidatesInv
  BY NoCollectionShape DEF RetentionInit, CoverageInv, CandidatesInv
<1> QED BY <1>1, <1>2, <1>3 DEF RootInv

\* The collection only moves on: what it read stays read.
LEMMA CollectionRoots ==
    ASSUME RootInv, UNCHANGED <<owners, reservations>>, epoch' = epoch, stored \subseteq stored',
           gc' = NoCollection \/
             /\ gc.phase # "idle" /\ gc'.phase \notin {"idle", "snapshot"}
             /\ gc'.unread = {} /\ gc.unread = {} /\ gc'.rooted = gc.rooted
             /\ gc'.phase = "sweeping" => gc'.todo \cap gc.rooted = {}
    PROVE  SynchronousInv' /\ CoverageInv' /\ CandidatesInv' /\ SynchronousRootIsStored'
<1> USE DEF RootInv, owners
<1>1. SynchronousInv' /\ SynchronousRootIsStored'
  BY DEF SynchronousInv, SynchronousRootIsStored
<1>2. CASE gc' = NoCollection
  <2>1. gc'.phase = "idle"
    BY <1>2, NoCollectionShape
  <2> QED BY <1>1, <2>1 DEF CoverageInv, CandidatesInv
<1>3. CASE gc' # NoCollection
  BY <1>1, <1>3 DEF CoverageInv, CandidatesInv, Covered
<1> QED BY <1>2, <1>3

\* The owner set and the store grow around a running collection.
LEMMA StoreRoots ==
    ASSUME RootInv, DayPasses \/ \E b \in Builds : StoreStep(b)
    PROVE  SynchronousInv' /\ CoverageInv' /\ CandidatesInv' /\ SynchronousRootIsStored'
<1>1. stored \subseteq stored' /\ gc' = gc /\ UNCHANGED <<owners, journal>>
  <2>1. CASE DayPasses
    BY <2>1 DEF DayPasses
  <2>2. ASSUME NEW b \in Builds, Promote(b) \/ FinishPut(b) \/ Hydrate(b) \/ FinishHydrate(b)
        PROVE  stored \subseteq stored' /\ gc' = gc /\ UNCHANGED <<owners, journal>>
    BY <2>2 DEF Promote, FinishPut, Hydrate, FinishHydrate
  <2> QED BY <2>1, <2>2 DEF StoreStep
<1> QED BY <1>1 DEF RootInv, SynchronousInv, CoverageInv, Covered, CandidatesInv,
                    SynchronousRootIsStored, owners, journal

\* Steps about an entity leave the other owners and their reservations alone.
LEMMA OtherOwnersRoots ==
    ASSUME RootInv, gc' = gc, epoch' = epoch, stored' = stored,
           \A o \in Owners \ Entities : /\ roots'[o] = roots[o] /\ mirror'[o] = mirror[o]
                                        /\ publishing'[o] = publishing[o],
           \A r \in reservations : \E s \in reservations' : s.build = r.build /\ s.epoch = r.epoch
    PROVE  SynchronousInv' /\ CoverageInv' /\ CandidatesInv' /\ SynchronousRootIsStored'
<1> USE DEF RootInv
<1>1. SynchronousInv' /\ SynchronousRootIsStored' /\ CandidatesInv'
  BY DEF SynchronousInv, SynchronousRootIsStored, CandidatesInv
<1>2. ASSUME NEW o \in Owners \ Entities, Covered(o) PROVE Covered(o)'
  <2>1. CASE \E r \in reservations : r.build = roots[o] /\ r.epoch >= epoch
    <3>1. PICK r \in reservations : r.build = roots[o] /\ r.epoch >= epoch
      BY <2>1
    <3>2. PICK s \in reservations' : s.build = r.build /\ s.epoch = r.epoch
      OBVIOUS
    <3> QED BY <3>1, <3>2 DEF Covered
  <2>2. CASE o \in gc.unread \/ roots[o] \in gc.rooted
    BY <2>2 DEF Covered
  <2> QED BY <1>2, <2>1, <2>2 DEF Covered
<1>3. CoverageInv'
  <2> SUFFICES ASSUME gc.phase # "idle", NEW o \in Owners \ Entities, roots[o] # NoBuild
               PROVE  Covered(o)'
    BY DEF CoverageInv
  <2> QED BY <1>2 DEF CoverageInv
<1> QED BY <1>1, <1>3

\* An entity's publication, in any of its steps, is such a step.
LEMMA EntityRoots ==
    ASSUME RootInv, NEW o \in Entities,
           \/ OwnerWrite(o) \/ Finalize(o) \/ OwnerWriteFails(o) \/ Retire(o)
           \/ EntityCallFails(o) \/ ReadEntity(o)
           \/ \E b \in Builds : Reserve(o, b) \/ Republish(o, b)
    PROVE  SynchronousInv' /\ CoverageInv' /\ CandidatesInv' /\ SynchronousRootIsStored'
<1>t. /\ roots \in [Owners -> BuildOrNone] /\ mirror \in [Owners -> BuildOrNone]
      /\ publishing \in [Owners -> Publication] /\ reservations \subseteq Reservation
  BY DEF RootInv, RetentionTypeOK
<1>1. gc' = gc /\ epoch' = epoch /\ stored' = stored
  BY DEF OwnerWrite, Finalize, OwnerWriteFails, Retire, EntityCallFails, ReadEntity, Reserve,
         Republish, builds, journal
<1>2. ASSUME NEW p \in Owners \ Entities
      PROVE  /\ roots'[p] = roots[p] /\ mirror'[p] = mirror[p] /\ publishing'[p] = publishing[p]
  <2>1. p # o
    OBVIOUS
  <2> QED BY <1>t, <2>1 DEF OwnerWrite, Finalize, OwnerWriteFails, Retire, EntityCallFails,
                            ReadEntity, Reserve, Republish
<1>3. ASSUME NEW r \in reservations
      PROVE  \E s \in reservations' : s.build = r.build /\ s.epoch = r.epoch
  <2>1. CASE reservations \subseteq reservations'
    BY <2>1
  <2>2. CASE Finalize(o)
    <3> DEFINE s == IF r.id = publishing[o].id THEN [r EXCEPT !.finalized = TRUE] ELSE r
    <3>1. s \in reservations'
      BY <2>2 DEF Finalize, FinalizedIn
    <3>2. s.build = r.build /\ s.epoch = r.epoch
      BY <1>t DEF Reservation
    <3> HIDE DEF s
    <3> QED BY <3>1, <3>2
  <2>3. ~Finalize(o) => reservations \subseteq reservations'
    BY DEF OwnerWrite, OwnerWriteFails, Retire, EntityCallFails, ReadEntity, Reserve, Republish, journal
  <2> QED BY <2>1, <2>2, <2>3
<1> QED BY <1>1, <1>2, <1>3, OtherOwnersRoots

\* A publication covers its build by its own reservation, stamped with the
\* epoch in force; the other steps of owners add no root.
LEMMA OwnerRoots ==
    ASSUME RootInv, NEW o \in Owners,
           \/ OwnerWrite(o) \/ Finalize(o) \/ OwnerWriteFails(o) \/ Retire(o)
           \/ EntityCallFails(o) \/ ReadEntity(o)
           \/ \E b \in Builds : Reserve(o, b) \/ Republish(o, b) \/ Publish(o, b)
    PROVE  SynchronousInv' /\ CoverageInv' /\ CandidatesInv' /\ SynchronousRootIsStored'
<1>t. roots \in [Owners -> BuildOrNone] /\ mirror \in [Owners -> BuildOrNone]
  BY DEF RootInv, RetentionTypeOK
<1>1. CASE o \in Entities
  <2>1. \A b \in Builds : ~Publish(o, b)
    BY <1>1 DEF Publish
  <2> QED BY <1>1, <2>1, EntityRoots
<1>2. CASE o \notin Entities /\ Retire(o)
  <2>1. /\ roots' = [roots EXCEPT ![o] = NoBuild] /\ mirror' = [mirror EXCEPT ![o] = NoBuild]
        /\ gc' = gc /\ UNCHANGED <<builds, publishing, journal>>
    BY <1>2 DEF Retire
  <2>2. /\ roots'[o] = NoBuild /\ mirror'[o] = NoBuild
        /\ \A p \in Owners \ {o} : roots'[p] = roots[p] /\ mirror'[p] = mirror[p]
    BY <2>1, <1>t
  <2>3. SynchronousInv'
    BY <2>1, <2>2 DEF RootInv, SynchronousInv
  <2>4. SynchronousRootIsStored'
    BY <2>1, <2>2 DEF RootInv, SynchronousRootIsStored, builds
  <2>5. CoverageInv'
    BY <2>1, <2>2 DEF RootInv, CoverageInv, Covered, journal
  <2>6. CandidatesInv'
    BY <2>1 DEF RootInv, CandidatesInv
  <2> QED BY <2>3, <2>4, <2>5, <2>6
<1>3. ASSUME NEW b \in Builds, Publish(o, b)
      PROVE  SynchronousInv' /\ CoverageInv' /\ CandidatesInv' /\ SynchronousRootIsStored'
  <2>1. /\ roots' = [roots EXCEPT ![o] = b] /\ mirror' = [mirror EXCEPT ![o] = b]
        /\ reservations' = reservations \cup {NewReservation(o, b, TRUE)}
        /\ gc' = gc /\ epoch' = epoch /\ publishing' = publishing
        /\ stored' = stored /\ b \in stored
    BY <1>3 DEF Publish, MayReserve, builds
  <2>2. /\ roots'[o] = b /\ mirror'[o] = b
        /\ \A p \in Owners \ {o} : roots'[p] = roots[p] /\ mirror'[p] = mirror[p]
    BY <2>1, <1>t
  <2>3. SynchronousInv'
    BY <2>1, <2>2 DEF RootInv, SynchronousInv
  <2>4. SynchronousRootIsStored'
    BY <2>1, <2>2 DEF RootInv, SynchronousRootIsStored
  <2>5. \E r \in reservations' : r.build = b /\ r.epoch >= epoch'
    <3>1. NewReservation(o, b, TRUE).build = b /\ NewReservation(o, b, TRUE).epoch = epoch
      BY DEF NewReservation
    <3>2. epoch >= epoch
      BY DEF RootInv, RetentionTypeOK
    <3>3. NewReservation(o, b, TRUE) \in reservations'
      BY <2>1
    <3> QED BY <2>1, <3>1, <3>2, <3>3
  <2>6. CoverageInv'
    BY <2>1, <2>2, <2>5 DEF RootInv, CoverageInv, Covered
  <2>7. CandidatesInv'
    BY <2>1 DEF RootInv, CandidatesInv
  <2> QED BY <2>3, <2>4, <2>6, <2>7
<1>4. CASE o \notin Entities /\ \/ OwnerWrite(o) \/ Finalize(o) \/ OwnerWriteFails(o)
                                \/ EntityCallFails(o) \/ ReadEntity(o)
                                \/ \E b \in Builds : Reserve(o, b) \/ Republish(o, b)
  BY <1>4, NeverPublishes
  DEF RootInv, OwnerWrite, Finalize, OwnerWriteFails, EntityCallFails, ReadEntity, Reserve, Republish
<1> QED BY <1>1, <1>2, <1>3, <1>4

\* After a restart no collection runs and the mirror shows every record.
LEMMA RestartRoots ==
    ASSUME RootInv,
           \/ Restart
           \/ \E b \in Builds : DieSweeping(b)
           \/ \E o \in Owners, b \in Builds : DiePublishing(o, b)
    PROVE  SynchronousInv' /\ CoverageInv' /\ CandidatesInv' /\ SynchronousRootIsStored'
<1>1. SynchronousInv' /\ CoverageInv' /\ CandidatesInv'
  <2>1. gc' = NoCollection /\ mirror' = roots' /\ publishing' = [o \in Owners |-> NotPublishing]
    BY DEF Restart, DieSweeping, DiePublishing, ProcessLost
  <2>2. gc'.phase = "idle"
    BY <2>1, NoCollectionShape
  <2> QED BY <2>1, <2>2 DEF SynchronousInv, CoverageInv, CandidatesInv
<1>2. CASE Restart
  BY <1>1, <1>2 DEF RootInv, SynchronousRootIsStored, Restart
<1>3. ASSUME NEW b \in Builds, DieSweeping(b) PROVE SynchronousRootIsStored'
  <2>1. stored' = stored \ {b} /\ roots' = roots
    BY <1>3 DEF DieSweeping
  <2>2. \A o \in Owners \ Entities : roots[o] # b
    BY <1>3, NotSwept DEF DieSweeping
  <2> QED BY <2>1, <2>2 DEF RootInv, SynchronousRootIsStored
<1>4. ASSUME NEW o \in Owners, NEW b \in Builds, DiePublishing(o, b) PROVE SynchronousRootIsStored'
  <2>1. stored' = stored /\ b \in stored /\ \E record \in {roots[o], b} : roots' = [roots EXCEPT ![o] = record]
    <3>1. stored' = stored /\ b \in stored
      BY <1>4 DEF DiePublishing, MayReserve
    <3>2. roots' = roots \/ roots' = [roots EXCEPT ![o] = b]
      BY <1>4 DEF DiePublishing
    <3>3. roots = [roots EXCEPT ![o] = roots[o]]
      BY DEF RootInv, RetentionTypeOK
    <3> QED BY <3>1, <3>2, <3>3
  <2>2. roots'[o] \in {roots[o], b} /\ \A p \in Owners \ {o} : roots'[p] = roots[p]
    BY <2>1 DEF RootInv, RetentionTypeOK
  <2> QED BY <2>1, <2>2 DEF RootInv, SynchronousRootIsStored
<1> QED BY <1>1, <1>2, <1>3, <1>4

\* A sweep takes away no build such an owner roots.
LEMMA SweepRoots ==
    ASSUME RootInv, NEW b \in Builds, Sweep(b)
    PROVE  SynchronousInv' /\ CoverageInv' /\ CandidatesInv' /\ SynchronousRootIsStored'
<1>1. /\ gc' = [gc EXCEPT !.todo = @ \ {b}, !.records = Retiring(b), !.removing = b]
      /\ stored' = stored \ {b} /\ gc.phase = "sweeping" /\ UNCHANGED <<owners, journal>>
  BY DEF Sweep
<1>2. /\ gc'.phase = "sweeping" /\ gc'.unread = gc.unread /\ gc'.rooted = gc.rooted
      /\ gc'.todo = gc.todo \ {b}
  BY <1>1 DEF RootInv, RetentionTypeOK, Collection
<1>3. \A o \in Owners \ Entities : roots[o] # b
  BY NotSwept DEF Sweep
<1>4. SynchronousInv' /\ SynchronousRootIsStored'
  BY <1>1, <1>3 DEF RootInv, SynchronousInv, SynchronousRootIsStored, owners
<1>5. CoverageInv' /\ CandidatesInv'
  BY <1>1, <1>2 DEF RootInv, CoverageInv, CandidatesInv, Covered, owners, journal
<1> QED BY <1>4, <1>5

\* A new epoch has every owner still to read, and reading one covers its build.
LEMMA SnapshotCovers ==
    ASSUME RootInv, BeginEpoch \/ CompleteEpoch \/ \E o \in Owners : SnapshotRoots(o)
    PROVE  SynchronousInv' /\ CoverageInv' /\ CandidatesInv' /\ SynchronousRootIsStored'
<1>1. UNCHANGED <<owners, builds>>
  BY DEF BeginEpoch, CompleteEpoch, SnapshotRoots
<1>2. SynchronousInv' /\ SynchronousRootIsStored'
  BY <1>1 DEF RootInv, SynchronousInv, SynchronousRootIsStored, owners, builds
<1>3. CASE BeginEpoch
  <2>1. gc'.phase = "snapshot" /\ gc'.unread = Owners
    BY <1>3, NoCollectionShape DEF BeginEpoch, Collection
  <2> QED BY <1>2, <2>1 DEF CoverageInv, CandidatesInv, Covered
<1>4. CASE CompleteEpoch
  <2>1. gc'.phase = "idle"
    BY <1>4, NoCollectionShape DEF CompleteEpoch
  <2> QED BY <1>2, <2>1 DEF CoverageInv, CandidatesInv
<1>5. ASSUME NEW o \in Owners, SnapshotRoots(o) PROVE CoverageInv' /\ CandidatesInv'
  <2>1. /\ gc' = [gc EXCEPT !.unread = @ \ {o}, !.rooted = @ \cup Shown(o)]
        /\ gc.phase = "snapshot" /\ UNCHANGED <<owners, journal>>
    BY <1>5 DEF SnapshotRoots
  <2>2. /\ gc'.phase = "snapshot" /\ gc'.unread = gc.unread \ {o}
        /\ gc'.rooted = gc.rooted \cup Shown(o)
    BY <2>1 DEF RootInv, RetentionTypeOK, Collection
  <2>3. o \notin Entities /\ roots[o] # NoBuild => roots[o] \in Shown(o)
    BY DEF RootInv, SynchronousInv, Shown
  <2>4. CoverageInv'
    BY <2>1, <2>2, <2>3 DEF RootInv, CoverageInv, Covered, owners, journal
  <2>5. CandidatesInv'
    BY <2>2 DEF CandidatesInv
  <2> QED BY <2>4, <2>5
<1> QED BY <1>2, <1>3, <1>4, <1>5

\* No other step of the collector forgets a root or adds a rooted candidate.
LEMMA CollectorRoots ==
    ASSUME RootInv,
           \/ ReportLoads \/ ReportScans \/ BeginCommit \/ CommitLoads \/ CommitScans
           \/ RemoveTrash \/ RemoveTrashFails \/ BeginSweep \/ FinishSweep \/ CollectionFails
           \/ \E b \in Builds : Restore(b) \/ FinishDeletion(b) \/ RetainPublished(b),
           RemovalInv
    PROVE  SynchronousInv' /\ CoverageInv' /\ CandidatesInv' /\ SynchronousRootIsStored'
<1>t. gc \in Collection
  BY DEF RootInv, RetentionTypeOK
<1>q. UNCHANGED <<owners, reservations>> /\ epoch' = epoch /\ stored \subseteq stored'
  <2> USE DEF builds, journal
  <2>1. CASE ReportLoads \/ ReportScans \/ BeginCommit \/ CommitLoads \/ CommitScans
    BY <2>1 DEF ReportLoads, ReportScans, BeginCommit, CommitLoads, CommitScans, LoadState
  <2>2. CASE RemoveTrash \/ RemoveTrashFails \/ BeginSweep \/ FinishSweep \/ CollectionFails
    BY <2>2 DEF RemoveTrash, RemoveTrashFails, BeginSweep, FinishSweep, CollectionFails
  <2>3. ASSUME NEW b \in Builds, Restore(b) \/ FinishDeletion(b) \/ RetainPublished(b)
        PROVE  UNCHANGED <<owners, reservations>> /\ epoch' = epoch /\ stored \subseteq stored'
    BY <2>3 DEF Restore, FinishDeletion, RetainPublished
  <2> QED BY <2>1, <2>2, <2>3
<1> DEFINE Onward ==
      /\ gc.phase # "idle" /\ gc'.phase \notin {"idle", "snapshot"}
      /\ gc'.unread = {} /\ gc.unread = {} /\ gc'.rooted = gc.rooted
      /\ gc'.phase = "sweeping" => gc'.todo \cap gc.rooted = {}
<1>u. gc.phase \notin {"idle", "snapshot"} => gc.unread = {}
  BY DEF RootInv, CandidatesInv
<1>1. gc' = NoCollection \/ Onward
  <2>1. ReportLoads => gc' = NoCollection \/ Onward
    BY <1>t DEF ReportLoads, LoadState, Collection
  <2>2. CommitLoads => gc' = NoCollection \/ Onward
    BY <1>t, <1>u DEF CommitLoads, LoadState, Collection
  <2>3. ReportScans \/ BeginCommit => Onward
    BY <1>t, <1>u DEF ReportScans, BeginCommit, Collection
  <2>4. CommitScans => gc' = NoCollection \/ Onward
    BY <1>t, <1>u DEF CommitScans, Collection
  <2>5. CollectionFails => gc' = NoCollection
    BY DEF CollectionFails
  <2>6. FinishSweep => gc' = NoCollection \/ Onward
    BY <1>t, <1>u DEF FinishSweep, Collection
  <2>7. BeginSweep => Onward
    <3> SUFFICES ASSUME BeginSweep PROVE Onward
      OBVIOUS
    <3>1. /\ gc'.phase = "sweeping" /\ gc'.unread = gc.unread /\ gc'.rooted = gc.rooted
          /\ gc'.todo = {b \in Builds : Eligible(b)} /\ gc.phase = "recovering"
      BY <1>t DEF BeginSweep, Collection
    <3>2. gc'.todo \cap gc.rooted = {}
      BY <3>1 DEF Eligible, Kept
    <3> QED BY <3>1, <3>2, <1>u
  <2>8. RemoveTrash \/ RemoveTrashFails => Onward
    <3> SUFFICES ASSUME RemoveTrash \/ RemoveTrashFails PROVE Onward
      OBVIOUS
    <3>1. /\ gc'.phase = gc.phase /\ gc'.unread = gc.unread /\ gc'.rooted = gc.rooted
          /\ gc'.todo = gc.todo /\ gc.removing # NoBuild
      BY <1>t DEF RemoveTrash, RemoveTrashFails, Collection
    <3>2. gc.phase \in {"recovering", "sweeping"}
      BY <3>1 DEF RemovalInv
    <3> QED BY <3>1, <3>2, <1>u DEF RootInv, CandidatesInv
  <2>9. ASSUME NEW b \in Builds, Restore(b) \/ FinishDeletion(b) \/ RetainPublished(b)
        PROVE  Onward
    <3>1. gc.phase \in {"recovering", "sweeping"}
      BY <2>9 DEF Restore, FinishDeletion, RetainPublished
    <3>2. /\ gc'.phase = gc.phase /\ gc'.unread = gc.unread /\ gc'.rooted = gc.rooted
          /\ gc'.todo = gc.todo \ {b}
      <4>1. CASE Restore(b)
        BY <4>1, <1>t DEF Restore, Collection
      <4>2. CASE FinishDeletion(b) \/ RetainPublished(b)
        BY <4>2, <1>t DEF FinishDeletion, RetainPublished, Collection
      <4> QED BY <2>9, <4>1, <4>2
    <3> QED BY <3>1, <3>2, <1>u DEF RootInv, CandidatesInv
  <2> QED BY <2>1, <2>2, <2>3, <2>4, <2>5, <2>6, <2>7, <2>8, <2>9
<1> QED BY <1>1, <1>q, CollectionRoots

\* Every step keeps the root invariant, given the backing invariant.
LEMMA RootStep ==
    ASSUME RootInv, RetentionInv, [RetentionNext]_vars
    PROVE  RootInv'
<1>1. RetentionTypeOK'
  BY TypeStep DEF RetentionInv, BackingInv
<1>2. CASE RetentionNext
  <2>1. RemovalInv
    BY DEF RetentionInv, BackingInv
  <2> QED BY <1>1, <1>2, <2>1, StoreRoots, OwnerRoots, RestartRoots, SweepRoots,
             SnapshotCovers, CollectorRoots
          DEF RetentionNext, OwnerStep, CollectorStep, RootInv
<1>3. CASE UNCHANGED vars
  BY <1>3 DEF vars, RootInv, RetentionTypeOK, SynchronousInv, CoverageInv, Covered, CandidatesInv,
              SynchronousRootIsStored
<1> QED BY <1>2, <1>3

\* The build named by an owner that publishes in one synchronous stretch, as
\* runtime images do, is never deleted: for any builds and owners, any number of
\* collections, crashes and puts that overlap them, and any entities beside it
\* that publish across awaits.
THEOREM SynchronousRootsAreKept == RetentionSpec => []SynchronousRootIsStored
<1>1. RetentionInit => RootInv
  BY InitRoots
<1>2. RootInv /\ RetentionInv /\ [RetentionNext]_vars => RootInv'
  BY RootStep
<1>3. RootInv => SynchronousRootIsStored
  BY DEF RootInv
<1> QED BY <1>1, <1>2, <1>3, RetentionInvariant, PTL DEF RetentionSpec

-----------------------------------------------------------------------------
(* Grace, crash repair and settled roots *)

\* A day only goes by for quarantined builds.
AgedInv ==
    \A b \in Builds : /\ gcState[b].aged => Live(gcState[b])
                      /\ gc.records[b].aged => Live(gc.records[b])

\* Without a failed removal, each trash directory is the one being removed or
\* one that a crash left.
TrashInv ==
    trashFailures = 0 =>
        \A b \in Builds : trash[b] <= crashes + (IF gc.removing = b THEN 1 ELSE 0)

\* A quarantine record is no older, and no more aged, than the time for which
\* completed collections have found its build unrooted...
IsUnrooted(b, record) ==
    /\ unrooted[b].since \in 1 .. record.since
    /\ record.aged => unrooted[b].aged

\* ...so that a candidate was unrooted long enough when the sweep began.
Expired(b) ==
    /\ unrooted[b].since \in 1 .. epoch - 1 /\ unrooted[b].aged
    /\ b \notin gc.rooted

GraceInv ==
    /\ gc.phase # "idle" => epoch > 0
    /\ \A b \in Builds :
          /\ unrooted[b].since <= epoch /\ (unrooted[b].aged => unrooted[b].since # 0)
          /\ Live(gcState[b]) => IsUnrooted(b, gcState[b])
          /\ Live(gc.records[b]) => IsUnrooted(b, gc.records[b])
    /\ gc.phase = "sweeping" => \A b \in gc.todo : Expired(b)

\* A build that cannot be deleted before another day has passed.
Young(b) ==
    /\ ~gcState[b].aged /\ ~gc.records[b].aged
    /\ gc.phase = "sweeping" => b \notin gc.todo

\* What the collector keeps, it rescued from quarantine.
RescueInv ==
    /\ gc.phase = "sweeping" =>
          \A b \in Builds : b \in Kept => ~Live(gc.records[b]) /\ b \notin gc.todo
    /\ gc.phase = "content" =>
          \A b \in Builds : b \in gc.rooted \cup gc.graph =>
              ~gcState[b].aged /\ ~gc.records[b].aged

\* A publication that reserved has a reservation of its own id, unless an epoch
\* that kept the build dropped it.
OwnReservation(o) ==
    \E r \in reservations : /\ r.id = publishing[o].id /\ ~r.finalized
                            /\ r.owner = o /\ r.build = publishing[o].build

PublicationInv ==
    /\ \A o \in Owners : publishing[o].id # 0 =>
          /\ publishing[o].id <= reserved
          /\ OwnReservation(o) \/ Young(publishing[o].build)
    /\ \A o, p \in Owners :
          publishing[o].id # 0 /\ publishing[o].id = publishing[p].id => o = p
    /\ \A o \in Owners : publishing[o].id # 0 \/ publishing[o].written => Publishes(o)
    /\ \A o \in Owners \ Entities : ~Publishes(o)

\* As long as no call about an entity failed, only an owner that was just
\* written is ahead of its mirror; how it was written is remembered.
Ahead(o) ==
    /\ publishing[o].written /\ roots[o] = publishing[o].build
    /\ fresh[o] = IF publishing[o].id = 0 THEN "unreserved" ELSE "reserved"

MirrorInv == failures = 0 => \A o \in Owners : mirror[o] = roots[o] \/ Ahead(o)

\* What an owner roots is still to be read, was read, was written without a
\* reservation, or has a reservation of that owner or is young.
SettledInv ==
    failures = 0 /\ gc.phase # "idle" =>
        \A o \in Owners : roots[o] # NoBuild =>
            \/ o \in gc.unread \/ roots[o] \in gc.rooted
            \/ fresh[o] = "unreserved"
            \/ fresh[o] = "reserved" /\ (RootIsReserved(o) \/ Young(roots[o]))

SettlementInv ==
    /\ AgedInv /\ CandidatesInv /\ RescueInv
    /\ PublicationInv /\ MirrorInv /\ SettledInv

-----------------------------------------------------------------------------
(* What a step does to the collection and to the records *)

\* A sweep goes on with the candidates and the roots it has.
SweepsOn ==
    /\ gc.phase = "sweeping" /\ gc'.todo \subseteq gc.todo /\ gc'.protected = gc.protected
    /\ \A b \in Builds : gc'.records[b] \in {gc.records[b], Tombstone(epoch)}

\* The collector moves on with the epoch and the roots it read.
MovesOn ==
    /\ epoch' = epoch /\ failures' = failures /\ UNCHANGED <<owners, reservations>>
    /\ gc.phase # "idle" /\ gc'.phase \notin {"idle", "snapshot"}
    /\ gc.phase = "snapshot" => gc.unread = {}
    /\ gc'.unread = gc.unread /\ gc'.rooted = gc.rooted /\ gc'.graph = gc.graph
    /\ gc'.phase = "sweeping" => BeginSweep \/ SweepsOn
    /\ gc'.phase = "content" => FinishSweep

\* The collector's own steps, up to the end of the collection.
LEMMA CollectorMoves ==
    ASSUME RetentionTypeOK, RemovalInv,
           \/ ReportLoads \/ ReportScans \/ BeginCommit \/ CommitLoads \/ CommitScans
           \/ RemoveTrash \/ RemoveTrashFails \/ BeginSweep \/ FinishSweep
           \/ \E b \in Builds : Restore(b) \/ FinishDeletion(b) \/ RetainPublished(b) \/ Sweep(b)
    PROVE  gc' = NoCollection \/ MovesOn
<1>t. gc \in Collection
  BY DEF RetentionTypeOK
<1>1. CASE ReportLoads \/ CommitLoads
  <2>1. CASE gc' = NoCollection
    BY <2>1
  <2>2. CASE gc' # NoCollection
    <3>1. PICK to \in {"reporting", "scanning"} : gc' = [gc EXCEPT !.phase = to, !.records = gcState]
      BY <1>1, <2>2 DEF ReportLoads, CommitLoads, LoadState
    <3>2. /\ gc'.phase = to /\ gc'.unread = gc.unread /\ gc'.rooted = gc.rooted
          /\ gc'.graph = gc.graph
      BY <3>1, <1>t DEF Collection
    <3>3. /\ gc.phase \in {"snapshot", "committing"} /\ (gc.phase = "snapshot" => gc.unread = {})
          /\ UNCHANGED <<owners, journal, budgets>>
      BY <1>1 DEF ReportLoads, CommitLoads, LoadState
    <3> QED BY <3>2, <3>3 DEF MovesOn, journal, budgets
  <2> QED BY <2>1, <2>2
<1>2. CASE ReportScans \/ BeginCommit
  <2>1. /\ gc'.phase \in {"prepared", "committing"} /\ gc'.unread = gc.unread
        /\ gc'.rooted = gc.rooted /\ gc'.graph = gc.graph
    BY <1>2, <1>t DEF ReportScans, BeginCommit, Collection
  <2>2. gc.phase \in {"reporting", "prepared"} /\ UNCHANGED <<owners, journal, budgets>>
    BY <1>2 DEF ReportScans, BeginCommit
  <2> QED BY <2>1, <2>2 DEF MovesOn, journal, budgets
<1>3. CASE CommitScans
  <2>1. CASE gc' = NoCollection
    BY <2>1
  <2>2. CASE gc' # NoCollection
    <3>1. /\ gc'.phase = "recovering" /\ gc'.unread = gc.unread
          /\ gc'.rooted = gc.rooted /\ gc'.graph = gc.graph
      BY <1>3, <2>2, <1>t DEF CommitScans, Collection
    <3>2. gc.phase = "scanning" /\ UNCHANGED <<owners, journal, budgets>>
      BY <1>3 DEF CommitScans
    <3> QED BY <3>1, <3>2 DEF MovesOn, journal, budgets
  <2> QED BY <2>1, <2>2
<1>4. CASE RemoveTrash \/ RemoveTrashFails
  <2>1. /\ gc'.phase = gc.phase /\ gc'.unread = gc.unread /\ gc'.rooted = gc.rooted
        /\ gc'.graph = gc.graph /\ gc'.todo = gc.todo /\ gc'.protected = gc.protected
        /\ gc'.records = gc.records
    BY <1>4, <1>t DEF RemoveTrash, RemoveTrashFails, Collection
  <2>2. gc.phase \in {"recovering", "sweeping"}
    BY <1>4 DEF RemoveTrash, RemoveTrashFails, RemovalInv
  <2>3. epoch' = epoch /\ failures' = failures /\ UNCHANGED <<owners, reservations>>
    BY <1>4 DEF RemoveTrash, RemoveTrashFails, journal, budgets
  <2> QED BY <2>1, <2>2, <2>3 DEF MovesOn, SweepsOn
<1>5. CASE BeginSweep
  <2>1. /\ gc'.phase = "sweeping" /\ gc'.unread = gc.unread /\ gc'.rooted = gc.rooted
        /\ gc'.graph = gc.graph
    BY <1>5, <1>t DEF BeginSweep, Collection
  <2>2. gc.phase = "recovering" /\ UNCHANGED <<owners, journal, budgets>>
    BY <1>5 DEF BeginSweep
  <2> QED BY <1>5, <2>1, <2>2 DEF MovesOn, journal, budgets
<1>6. CASE FinishSweep
  <2>1. CASE gc' = NoCollection
    BY <2>1
  <2>2. CASE gc' # NoCollection
    <3>1. /\ gc'.phase = "content" /\ gc'.unread = gc.unread
          /\ gc'.rooted = gc.rooted /\ gc'.graph = gc.graph
      BY <1>6, <2>2, <1>t DEF FinishSweep, Collection
    <3>2. gc.phase = "sweeping" /\ UNCHANGED <<owners, journal, budgets>>
      BY <1>6 DEF FinishSweep
    <3> QED BY <1>6, <3>1, <3>2 DEF MovesOn, journal, budgets
  <2> QED BY <2>1, <2>2
<1>7. ASSUME NEW b \in Builds, Restore(b) PROVE MovesOn
  <2>1. /\ gc'.phase = gc.phase /\ gc'.unread = gc.unread /\ gc'.rooted = gc.rooted
        /\ gc'.graph = gc.graph
    BY <1>7, <1>t DEF Restore, Collection
  <2>2. gc.phase = "recovering" /\ UNCHANGED <<owners, journal, budgets>>
    BY <1>7 DEF Restore
  <2> QED BY <2>1, <2>2 DEF MovesOn, journal, budgets
<1>8. ASSUME NEW b \in Builds, FinishDeletion(b) PROVE MovesOn
  <2>1. /\ gc'.phase = gc.phase /\ gc'.unread = gc.unread /\ gc'.rooted = gc.rooted
        /\ gc'.graph = gc.graph
    BY <1>8, <1>t DEF FinishDeletion, Collection
  <2>2. gc.phase = "recovering" /\ UNCHANGED <<owners, journal, budgets>>
    BY <1>8 DEF FinishDeletion
  <2> QED BY <2>1, <2>2 DEF MovesOn, journal, budgets
<1>9. ASSUME NEW b \in Builds, RetainPublished(b) \/ Sweep(b) PROVE MovesOn
  <2>1. /\ gc'.phase = gc.phase /\ gc'.unread = gc.unread /\ gc'.rooted = gc.rooted
        /\ gc'.graph = gc.graph /\ gc'.todo = gc.todo \ {b} /\ gc'.protected = gc.protected
        /\ gc'.records \in {gc.records, Retiring(b)}
    BY <1>9, <1>t DEF RetainPublished, Sweep, Collection
  <2>2. gc.phase = "sweeping" /\ UNCHANGED <<owners, journal, budgets>>
    BY <1>9 DEF RetainPublished, Sweep
  <2>3. \A c \in Builds : gc'.records[c] \in {gc.records[c], Tombstone(epoch)}
    BY <2>1, <1>t DEF Retiring, Collection
  <2> QED BY <2>1, <2>2, <2>3 DEF MovesOn, SweepsOn, journal, budgets
<1> QED BY <1>1, <1>2, <1>3, <1>4, <1>5, <1>6, <1>7, <1>8, <1>9

\* Every step ends the collection, leaves it alone, opens an epoch, reads one
\* owner or moves on.
LEMMA CollectionStep ==
    ASSUME RetentionTypeOK, RemovalInv, [RetentionNext]_vars
    PROVE  \/ gc'.phase = "idle" \/ (gc' = gc /\ epoch' = epoch)
           \/ BeginEpoch \/ \E o \in Owners : SnapshotRoots(o)
           \/ MovesOn
<1> DEFINE Goal == \/ gc'.phase = "idle" \/ (gc' = gc /\ epoch' = epoch)
                   \/ BeginEpoch \/ \E o \in Owners : SnapshotRoots(o)
                   \/ MovesOn
<1>n. gc' = NoCollection => gc'.phase = "idle"
  BY NoCollectionShape
<1>g. /\ gc'.phase = "idle" => Goal
      /\ gc' = gc /\ epoch' = epoch => Goal
      /\ BeginEpoch => Goal
      /\ \A o \in Owners : SnapshotRoots(o) => Goal
      /\ MovesOn => Goal
  OBVIOUS
<1> SUFFICES Goal
  OBVIOUS
<1> HIDE DEF Goal
<1>1. CASE \/ ReportLoads \/ ReportScans \/ BeginCommit \/ CommitLoads \/ CommitScans
           \/ RemoveTrash \/ RemoveTrashFails \/ BeginSweep \/ FinishSweep
           \/ \E b \in Builds : Restore(b) \/ FinishDeletion(b) \/ RetainPublished(b) \/ Sweep(b)
  BY <1>n, <1>1, <1>g, CollectorMoves
<1>2. CASE CompleteEpoch \/ CollectionFails \/ Restart
  <2>1. gc' = NoCollection
    BY <1>2 DEF CompleteEpoch, CollectionFails, Restart, ProcessLost
  <2> QED BY <2>1, <1>n, <1>g
<1>3. ASSUME NEW b \in Builds, DieSweeping(b) \/ \E o \in Owners : DiePublishing(o, b)
      PROVE  gc'.phase = "idle"
  <2>1. gc' = NoCollection
    BY <1>3 DEF DieSweeping, DiePublishing, ProcessLost
  <2> QED BY <2>1, <1>n
<1>4. ASSUME NEW o \in Owners,
             \/ OwnerWrite(o) \/ Finalize(o) \/ OwnerWriteFails(o) \/ Retire(o)
             \/ EntityCallFails(o) \/ ReadEntity(o)
             \/ \E b \in Builds : Reserve(o, b) \/ Republish(o, b) \/ Publish(o, b)
      PROVE  gc' = gc /\ epoch' = epoch
  BY <1>4 DEF OwnerWrite, Finalize, OwnerWriteFails, Retire, EntityCallFails, ReadEntity,
              Reserve, Republish, Publish, journal
<1>5. CASE DayPasses \/ \E b \in Builds : StoreStep(b)
  <2>1. gc' = gc /\ epoch' = epoch
    BY <1>5 DEF DayPasses, StoreStep, Promote, FinishPut, Hydrate, FinishHydrate, journal
  <2> QED BY <2>1, <1>g
<1>6. CASE UNCHANGED vars
  <2>1. gc' = gc /\ epoch' = epoch
    BY <1>6 DEF vars
  <2> QED BY <2>1, <1>g
<1>7. CASE CollectorStep
  BY <1>1, <1>2, <1>3, <1>7, <1>g DEF CollectorStep
<1>8. CASE \E o \in Owners : OwnerStep(o)
  BY <1>3, <1>4, <1>8, <1>g DEF OwnerStep
<1> QED BY <1>2, <1>5, <1>6, <1>7, <1>8, <1>g DEF RetentionNext

\* The values a record can take in one step: only the beginning of a sweep
\* quarantines.
EarlierSources(b) == {gcState[b], gc.records[b], NoRecord, Tombstone(epoch)}
RecordSources(b) == EarlierSources(b) \cup {Quarantined(epoch)}

\* Only the clock ages a record.
LEMMA RecordStep ==
    ASSUME RetentionTypeOK, [RetentionNext]_vars, ~DayPasses, NEW b \in Builds
    PROVE  /\ gcState'[b] \in EarlierSources(b) /\ gc'.records[b] \in RecordSources(b)
           /\ ~BeginSweep => gc'.records[b] \in EarlierSources(b)
<1>t. gc \in Collection /\ gcState \in [Builds -> GcRecord] /\ NoCollection \in Collection
  BY NoCollectionShape DEF RetentionTypeOK
<1>n. gc' = NoCollection => gc'.records[b] = NoRecord
  BY NoCollectionShape
<1> DEFINE Goal == /\ gcState'[b] \in EarlierSources(b)
                   /\ \/ gc'.records[b] \in EarlierSources(b)
                      \/ BeginSweep /\ gc'.records[b] = Quarantined(epoch)
<1> SUFFICES Goal
  BY DEF RecordSources
<1>1. ASSUME NEW c \in Builds, StoreStep(c)
      PROVE  gcState'[b] \in {gcState[b], NoRecord} /\ gc' = gc
  BY <1>1, <1>t DEF StoreStep, Promote, FinishPut, Hydrate, FinishHydrate
<1>2. ASSUME NEW o \in Owners,
             \/ OwnerWrite(o) \/ Finalize(o) \/ OwnerWriteFails(o) \/ Retire(o)
             \/ EntityCallFails(o) \/ ReadEntity(o)
             \/ \E c \in Builds : Reserve(o, c) \/ Republish(o, c) \/ Publish(o, c)
      PROVE  gcState' = gcState /\ gc' = gc
  BY <1>2 DEF OwnerWrite, Finalize, OwnerWriteFails, Retire, EntityCallFails, ReadEntity,
              Reserve, Republish, Publish, builds
<1>3. ASSUME NEW o \in Owners, SnapshotRoots(o)
      PROVE  gcState' = gcState /\ gc'.records = gc.records
  BY <1>3, <1>t DEF SnapshotRoots, builds, Collection
<1>4. CASE CompleteEpoch \/ CollectionFails \/ Restart
  <2>1. gcState' = gcState /\ gc' = NoCollection
    BY <1>4 DEF CompleteEpoch, CollectionFails, Restart, ProcessLost, builds
  <2> QED BY <2>1, <1>n DEF EarlierSources
<1>5. ASSUME NEW c \in Builds, DieSweeping(c) \/ \E o \in Owners : DiePublishing(o, c)
      PROVE  gcState' = gcState /\ gc' = NoCollection
  BY <1>5 DEF DieSweeping, DiePublishing, ProcessLost, builds
<1>6. CASE BeginEpoch
  <2>1. gcState' = gcState /\ gc'.records = NoCollection.records
    BY <1>6, <1>t DEF BeginEpoch, builds, Collection
  <2> QED BY <2>1, NoCollectionShape DEF EarlierSources
<1>7. CASE ReportLoads \/ CommitLoads
  <2>1. gcState' = gcState /\ (gc' = NoCollection \/ gc'.records = gcState)
    BY <1>7, <1>t DEF ReportLoads, CommitLoads, LoadState, builds, Collection
  <2> QED BY <2>1, <1>n DEF EarlierSources
<1>8. CASE ReportScans \/ BeginCommit \/ RemoveTrash \/ RemoveTrashFails
  <2>1. gcState' = gcState /\ gc'.records = gc.records
    BY <1>8, <1>t DEF ReportScans, BeginCommit, RemoveTrash, RemoveTrashFails, builds, Collection
  <2> QED BY <2>1 DEF EarlierSources
<1>9. CASE CommitScans
  <2>1. gcState' = gcState /\ (gc' = NoCollection \/ gc'.records = gc.records)
    BY <1>9, <1>t DEF CommitScans, builds, Collection
  <2> QED BY <2>1, <1>n DEF EarlierSources
<1>10. CASE BeginSweep
  <2>1. gcState' = gcState /\ gc'.records[b] \in {gc.records[b], NoRecord, Quarantined(epoch)}
    <3>1. gcState' = gcState /\ gc'.records = [c \in Builds |-> Marked(c)]
      BY <1>10, <1>t DEF BeginSweep, builds, Collection
    <3> QED BY <3>1 DEF Marked
  <2> QED BY <1>10, <2>1 DEF EarlierSources
<1>11. CASE FinishSweep
  <2>1. gcState' = gc.records /\ (gc' = NoCollection \/ gc'.records = gc.records)
    BY <1>11, <1>t DEF FinishSweep, Collection
  <2> QED BY <2>1, <1>n DEF EarlierSources
<1>12. ASSUME NEW c \in Builds, Restore(c)
       PROVE  gcState' = gcState /\ gc'.records[b] \in {gc.records[b], NoRecord}
  <2>1. gcState' = gcState
    BY <1>12 DEF Restore
  <2>2. CASE c \in stored
    <3>1. gc' = [gc EXCEPT !.todo = @ \ {c}, !.clean = FALSE]
      BY <1>12, <2>2 DEF Restore
    <3> QED BY <2>1, <3>1, <1>t DEF Collection
  <2>3. CASE c \notin stored
    <3>1. gc' = [gc EXCEPT !.todo = @ \ {c}, !.seen = @ \cup {c}, !.records[c] = NoRecord]
      BY <1>12, <2>3 DEF Restore
    <3>2. gc'.records = [gc.records EXCEPT ![c] = NoRecord]
      BY <3>1, <1>t DEF Collection
    <3> QED BY <2>1, <3>2, <1>t DEF Collection
  <2> QED BY <2>2, <2>3
<1>13. ASSUME NEW c \in Builds, FinishDeletion(c) \/ Sweep(c)
       PROVE  /\ gcState'[b] \in {gc.records[b], Tombstone(epoch)}
              /\ gc'.records[b] \in {gc.records[b], Tombstone(epoch)}
  <2>1. gcState' = Retiring(c) /\ gc'.records = Retiring(c)
    BY <1>13, <1>t DEF FinishDeletion, Sweep, Collection
  <2> QED BY <2>1, <1>t DEF Retiring, Collection
<1>14. ASSUME NEW c \in Builds, RetainPublished(c)
       PROVE  gcState' = gcState /\ gc'.records = gc.records
  BY <1>14, <1>t DEF RetainPublished, Collection, builds
<1>15. CASE UNCHANGED vars
  BY <1>15 DEF vars, EarlierSources
<1>16. CASE \E c \in Builds : StoreStep(c)
  BY <1>1, <1>16 DEF EarlierSources
<1>17. CASE \E o \in Owners : OwnerStep(o)
  BY <1>2, <1>3, <1>5, <1>n, <1>17 DEF OwnerStep, EarlierSources
<1>18. CASE CollectorStep
  BY <1>4, <1>5, <1>6, <1>7, <1>8, <1>9, <1>10, <1>11, <1>12, <1>13, <1>14, <1>n, <1>18
  DEF CollectorStep, EarlierSources
<1> QED BY <1>4, <1>15, <1>16, <1>17, <1>18 DEF RetentionNext

\* A fresh quarantine, a tombstone and no record are not aged.
LEMMA RecordAges ==
    ~NoRecord.aged /\ \A e \in Nat : ~Quarantined(e).aged /\ ~Tombstone(e).aged
BY DEF NoRecord, Quarantined, Tombstone

\* The clock moves while no collection runs.
LEMMA ClockStep ==
    ASSUME RetentionTypeOK, DayPasses
    PROVE  /\ gc' = gc /\ gc.phase = "idle" /\ \A o \in Owners : ~Publishes(o)
           /\ \A b \in Builds : gcState'[b].aged => Live(gcState'[b])
<1>1. gc' = gc /\ gc.phase = "idle" /\ \A o \in Owners : ~Publishes(o)
  BY DEF DayPasses
<1>2. ASSUME NEW b \in Builds, gcState'[b].aged PROVE Live(gcState'[b])
  <2>1. gcState'[b] = [gcState[b] EXCEPT !.aged = Live(gcState[b])]
    BY DEF DayPasses
  <2>2. /\ gcState'[b].aged = Live(gcState[b])
        /\ gcState'[b].since = gcState[b].since /\ gcState'[b].deletedAt = gcState[b].deletedAt
    BY <2>1 DEF RetentionTypeOK, GcRecord
  <2> QED BY <1>2, <2>2 DEF Live, Retired
<1> QED BY <1>1, <1>2

\* Only quarantined builds ever age.
LEMMA AgedStep ==
    ASSUME RetentionTypeOK, AgedInv, [RetentionNext]_vars
    PROVE  AgedInv'
<1>1. CASE DayPasses
  <2>1. gc' = gc /\ \A b \in Builds : gcState'[b].aged => Live(gcState'[b])
    BY <1>1, ClockStep
  <2> QED BY <2>1 DEF AgedInv, Live, Retired
<1>2. CASE ~DayPasses
  <2>1. epoch \in Nat
    BY DEF RetentionTypeOK
  <2>2. \A b \in Builds : \A r \in RecordSources(b) : r.aged => Live(r)
    BY <2>1, RecordAges DEF RecordSources, EarlierSources, AgedInv
  <2>3. \A b \in Builds : gcState'[b] \in RecordSources(b) /\ gc'.records[b] \in RecordSources(b)
    BY <1>2, RecordStep DEF RecordSources
  <2>4. \A b \in Builds : /\ gcState'[b].aged => Live(gcState'[b])
                          /\ gc'.records[b].aged => Live(gc'.records[b])
    BY <2>2, <2>3
  <2> QED BY <2>4 DEF AgedInv, Live, Retired
<1> QED BY <1>1, <1>2

-----------------------------------------------------------------------------
(* Crash repair *)

\* Deleting adds the directory the collector removes next, a crash takes over
\* one at most, and nothing else adds any.
LEMMA TrashStep ==
    ASSUME RetentionTypeOK, RemovalInv, RecoveryInv, TrashInv, [RetentionNext]_vars
    PROVE  TrashInv'
<1>t. /\ gc \in Collection /\ trash \in [Builds -> Nat] /\ crashes \in Nat /\ trashFailures \in Nat
      /\ NoCollection.removing = NoBuild
  BY NoCollectionShape DEF RetentionTypeOK
<1> DEFINE Due(b) == IF gc.removing = b THEN 1 ELSE 0
           Left(b) == crashes + Due(b)
<1>i. trashFailures = 0 => \A b \in Builds : trash[b] <= Left(b)
  BY DEF TrashInv
<1>1. ASSUME crashes' = crashes, trashFailures' = trashFailures, gc'.removing = gc.removing,
             \A b \in Builds : trash'[b] <= trash[b] /\ trash'[b] \in Int
      PROVE  TrashInv'
  BY <1>1, <1>t, <1>i DEF TrashInv
<1>2. ASSUME crashes' = crashes, trashFailures' = trashFailures, trash' = trash,
             gc.removing = NoBuild
      PROVE  TrashInv'
  BY <1>2, <1>t, <1>i, NoBuildAssumption DEF TrashInv
<1>3. ASSUME crashes' = crashes + 1, trashFailures' = trashFailures, gc'.removing = NoBuild,
             trash' = trash
      PROVE  TrashInv'
  BY <1>3, <1>t, <1>i, NoBuildAssumption DEF TrashInv
<1>4. ASSUME NEW b \in Builds, Sweep(b) PROVE TrashInv'
  <2>1. /\ gc.removing = NoBuild /\ gc'.removing = b /\ trash' = [trash EXCEPT ![b] = @ + 1]
        /\ crashes' = crashes /\ trashFailures' = trashFailures
    BY <1>4, <1>t DEF Sweep, Collection, budgets
  <2> QED BY <2>1, <1>t, <1>i, NoBuildAssumption DEF TrashInv
<1>5. ASSUME NEW b \in Builds, DieSweeping(b) PROVE TrashInv'
  <2>1. /\ gc.removing = NoBuild /\ gc' = NoCollection /\ trash' = [trash EXCEPT ![b] = @ + 1]
        /\ crashes' = crashes + 1 /\ trashFailures' = trashFailures
    BY <1>5 DEF DieSweeping, ProcessLost
  <2>2. gc'.removing = NoBuild
    BY <2>1, <1>t
  <2>3. ASSUME NEW c \in Builds, trashFailures = 0
        PROVE  trash'[c] <= crashes' + (IF gc'.removing = c THEN 1 ELSE 0)
    BY <2>1, <2>2, <2>3, <1>t, <1>i, NoBuildAssumption
  <2> QED BY <2>1, <2>3 DEF TrashInv
<1>6. CASE RemoveTrash
  <2>1. /\ gc.removing \in Builds /\ gc'.removing = NoBuild
        /\ trash' = [trash EXCEPT ![gc.removing] = @ - 1]
        /\ crashes' = crashes /\ trashFailures' = trashFailures
    BY <1>6, <1>t DEF RemoveTrash, Collection, BuildOrNone, budgets
  <2> QED BY <2>1, <1>t, <1>i, NoBuildAssumption DEF TrashInv
<1>7. CASE RemoveTrashFails
  BY <1>7, <1>t DEF RemoveTrashFails, TrashInv
<1>8. ASSUME NEW b \in Builds, Restore(b) PROVE TrashInv'
  <2>1. /\ crashes' = crashes /\ trashFailures' = trashFailures /\ gc'.removing = gc.removing
        /\ trash' = trash \/ trash' = [trash EXCEPT ![b] = @ - 1]
    BY <1>8, <1>t DEF Restore, Collection, budgets
  <2>2. \A c \in Builds : trash'[c] <= trash[c] /\ trash'[c] \in Int
    BY <2>1, <1>t
  <2> QED BY <1>1, <2>1, <2>2
<1>9. ASSUME NEW b \in Builds, FinishDeletion(b) PROVE TrashInv'
  <2>1. /\ crashes' = crashes /\ trashFailures' = trashFailures /\ trash' = trash
        /\ gc.removing = NoBuild
    BY <1>9 DEF FinishDeletion, budgets
  <2> QED BY <1>2, <2>1
<1>10. ASSUME NEW b \in Builds, RetainPublished(b) PROVE TrashInv'
  <2>1. /\ crashes' = crashes /\ trashFailures' = trashFailures /\ trash' = trash
        /\ gc.removing = NoBuild
    BY <1>10 DEF RetainPublished, budgets, builds
  <2> QED BY <1>2, <2>1
<1>11. CASE \/ BeginEpoch \/ ReportLoads \/ ReportScans \/ BeginCommit \/ CommitLoads \/ CommitScans
            \/ BeginSweep \/ FinishSweep \/ CompleteEpoch \/ CollectionFails
  <2>1. crashes' = crashes /\ trashFailures' = trashFailures /\ trash' = trash
    BY <1>11 DEF BeginEpoch, ReportLoads, ReportScans, BeginCommit, CommitLoads, LoadState,
                 CommitScans, BeginSweep, FinishSweep, CompleteEpoch, CollectionFails, builds, budgets
  <2>2. gc.phase \notin {"recovering", "sweeping"} \/ gc.removing = NoBuild
    BY <1>11 DEF BeginEpoch, ReportLoads, ReportScans, BeginCommit, CommitLoads, LoadState,
                 CommitScans, BeginSweep, FinishSweep, CompleteEpoch, CollectionFails
  <2>3. gc.removing = NoBuild
    BY <2>2 DEF RemovalInv
  <2> QED BY <1>2, <2>1, <2>3
<1>12. CASE Restart \/ \E o \in Owners, b \in Builds : DiePublishing(o, b)
  <2>1. crashes' = crashes + 1 /\ trashFailures' = trashFailures /\ trash' = trash /\ gc' = NoCollection
    BY <1>12 DEF Restart, DiePublishing, ProcessLost
  <2> QED BY <1>3, <1>t, <2>1
<1>13. ASSUME NEW o \in Owners,
              \/ OwnerWrite(o) \/ Finalize(o) \/ OwnerWriteFails(o) \/ Retire(o)
              \/ EntityCallFails(o) \/ ReadEntity(o)
              \/ \E b \in Builds : Reserve(o, b) \/ Republish(o, b) \/ Publish(o, b)
       PROVE  crashes' = crashes /\ trashFailures' = trashFailures /\ trash' = trash /\ gc' = gc
  BY <1>13 DEF OwnerWrite, Finalize, OwnerWriteFails, Retire, EntityCallFails, ReadEntity,
               Reserve, Republish, Publish, builds, budgets
<1>14. ASSUME NEW o \in Owners, SnapshotRoots(o)
       PROVE  /\ crashes' = crashes /\ trashFailures' = trashFailures /\ trash' = trash
              /\ gc'.removing = gc.removing
  BY <1>14, <1>t DEF SnapshotRoots, builds, budgets, Collection
<1>15. CASE DayPasses \/ UNCHANGED vars \/ \E b \in Builds : StoreStep(b)
  <2>1. crashes' = crashes /\ trashFailures' = trashFailures /\ trash' = trash /\ gc' = gc
    BY <1>15 DEF DayPasses, StoreStep, Promote, FinishPut, Hydrate, FinishHydrate, budgets, vars
  <2> QED BY <1>1, <1>t, <2>1
<1>16. CASE \E o \in Owners : OwnerStep(o)
  BY <1>1, <1>t, <1>12, <1>13, <1>14, <1>16 DEF OwnerStep
<1>17. CASE CollectorStep
  BY <1>4, <1>5, <1>6, <1>7, <1>8, <1>9, <1>10, <1>11, <1>17 DEF CollectorStep
<1> QED BY <1>12, <1>15, <1>16, <1>17 DEF RetentionNext

\* A new workspace has no trash and nothing of any age.
LEMMA InitTrash == RetentionInit => TrashInv /\ AgedInv
<1> SUFFICES ASSUME RetentionInit PROVE TrashInv /\ AgedInv
  OBVIOUS
<1>1. TrashInv
  BY DEF RetentionInit, TrashInv
<1>2. AgedInv
  BY NoCollectionShape, RecordAges DEF RetentionInit, AgedInv
<1> QED BY <1>1, <1>2

\* As long as every removal succeeds and the host died once at most, whatever a
\* crash left between rename and tombstone is exactly one trash directory, as
\* the crash repair of the next commit demands.
THEOREM CrashesAreRepairable == RetentionSpec => []CrashIsRepairable
<1>1. RetentionInv /\ TrashInv /\ [RetentionNext]_vars => TrashInv'
  BY TrashStep DEF RetentionInv, BackingInv
<1>2. RetentionInv /\ TrashInv => CrashIsRepairable
  <2> SUFFICES ASSUME RetentionInv, TrashInv, trashFailures = 0, crashes <= 1,
                      NEW b \in Builds, Live(gcState[b]), b \notin stored
               PROVE  trash[b] = 1
    BY DEF CrashIsRepairable
  <2>1. trash[b] > 0 /\ trash[b] \in Nat /\ crashes \in Nat
    BY DEF RetentionInv, BackingInv, QuarantineIsBacked, RetentionTypeOK
  <2>2. gc.removing # b
    BY NoBuildAssumption DEF RetentionInv, BackingInv, RemovalInv
  <2>3. trash[b] <= crashes
    BY <2>1, <2>2 DEF TrashInv
  <2> QED BY <2>1, <2>3
<1>3. RetentionInit => TrashInv
  BY InitTrash
<1> QED BY <1>1, <1>2, <1>3, RetentionInvariant, PTL DEF RetentionSpec

-----------------------------------------------------------------------------
(* Candidates of a sweep *)

\* Until the next day, a young build stays young.
LEMMA YoungStep ==
    ASSUME RetentionTypeOK, RemovalInv, [RetentionNext]_vars, ~DayPasses,
           NEW b \in Builds, Young(b)
    PROVE  Young(b)'
<1>1. ~gcState'[b].aged /\ ~gc'.records[b].aged
  <2>1. gcState'[b] \in RecordSources(b) /\ gc'.records[b] \in RecordSources(b)
    BY RecordStep DEF RecordSources
  <2>2. epoch \in Nat
    BY DEF RetentionTypeOK
  <2> QED BY <2>1, <2>2, RecordAges DEF RecordSources, EarlierSources, Young
<1>2. gc'.phase = "sweeping" => b \notin gc'.todo
  <2> SUFFICES ASSUME gc'.phase = "sweeping" PROVE b \notin gc'.todo
    OBVIOUS
  <2>t. gc \in Collection
    BY DEF RetentionTypeOK
  <2>1. CASE gc' = gc
    BY <2>1 DEF Young
  <2>2. CASE BeginEpoch
    BY <2>2, NoCollectionShape DEF BeginEpoch, Collection
  <2>3. ASSUME NEW o \in Owners, SnapshotRoots(o) PROVE FALSE
    BY <2>3, <2>t DEF SnapshotRoots, Collection
  <2>4. CASE BeginSweep
    <3>1. gc'.todo = {c \in Builds : Eligible(c)}
      BY <2>4, <2>t DEF BeginSweep, Collection
    <3> QED BY <3>1 DEF Eligible, Young
  <2>5. CASE SweepsOn
    BY <2>5 DEF SweepsOn, Young
  <2>6. ~(gc'.phase = "idle")
    OBVIOUS
  <2> QED BY <2>1, <2>2, <2>3, <2>4, <2>5, <2>6, CollectionStep DEF MovesOn
<1> QED BY <1>1, <1>2 DEF Young

\* Every owner was read before the sweep, and nothing read is a candidate.
LEMMA CandidatesStep ==
    ASSUME RetentionTypeOK, RemovalInv, CandidatesInv, [RetentionNext]_vars
    PROVE  CandidatesInv'
<1>t. gc \in Collection
  BY DEF RetentionTypeOK
<1>1. CASE gc'.phase = "idle"
  BY <1>1 DEF CandidatesInv
<1>2. CASE gc' = gc
  BY <1>2 DEF CandidatesInv
<1>3. CASE BeginEpoch
  <2>1. gc'.phase = "snapshot"
    BY <1>3, NoCollectionShape DEF BeginEpoch, Collection
  <2> QED BY <2>1 DEF CandidatesInv
<1>4. ASSUME NEW o \in Owners, SnapshotRoots(o) PROVE CandidatesInv'
  <2>1. gc'.phase = "snapshot"
    BY <1>4, <1>t DEF SnapshotRoots, Collection
  <2> QED BY <2>1 DEF CandidatesInv
<1>5. CASE MovesOn
  <2>1. gc'.unread = {}
    BY <1>5 DEF MovesOn, CandidatesInv
  <2>2. ASSUME gc'.phase = "sweeping" PROVE gc'.todo \cap gc'.rooted = {}
    <3>1. CASE BeginSweep
      <4>1. gc'.todo = {c \in Builds : Eligible(c)} /\ gc'.rooted = gc.rooted
        BY <3>1, <1>t DEF BeginSweep, Collection
      <4> QED BY <4>1 DEF Eligible, Kept
    <3>2. CASE SweepsOn
      BY <1>5, <3>2 DEF SweepsOn, MovesOn, CandidatesInv
    <3> QED BY <1>5, <2>2, <3>1, <3>2 DEF MovesOn
  <2> QED BY <2>1, <2>2 DEF CandidatesInv
<1> QED BY <1>1, <1>2, <1>3, <1>4, <1>5, CollectionStep

\* The sweep begins by rescuing what is kept, and its records become the file.
LEMMA RescueStep ==
    ASSUME RetentionTypeOK, RemovalInv, AgedInv, RescueInv, [RetentionNext]_vars
    PROVE  RescueInv'
<1>t. gc \in Collection /\ epoch \in Nat
  BY DEF RetentionTypeOK
<1>1. CASE gc'.phase \notin {"sweeping", "content"}
  BY <1>1 DEF RescueInv
<1>2. CASE gc' = gc
  <2>1. ASSUME gc.phase = "content", NEW b \in Builds, b \in gc.rooted \cup gc.graph
        PROVE  ~gcState'[b].aged
    <3>1. ~gcState[b].aged /\ ~gc.records[b].aged
      BY <2>1 DEF RescueInv
    <3>2. gcState'[b] \in RecordSources(b)
      BY <2>1, ClockStep, RecordStep DEF RecordSources
    <3> QED BY <3>1, <3>2, <1>t, RecordAges DEF RecordSources, EarlierSources
  <2>2. gc.phase = "sweeping" =>
           \A b \in Builds : b \in Kept => ~Live(gc.records[b]) /\ b \notin gc.todo
    BY DEF RescueInv
  <2>3. gc.phase = "content" => \A b \in Builds : b \in gc.rooted \cup gc.graph => ~gc.records[b].aged
    BY DEF RescueInv
  <2> QED BY <1>2, <2>1, <2>2, <2>3 DEF RescueInv, Kept, Live, Retired
<1>3. CASE MovesOn /\ gc'.phase = "sweeping"
  <2>1. CASE BeginSweep
    <3>1. /\ gc'.rooted = gc.rooted /\ gc'.graph = gc.graph /\ gc'.protected = gc.protected
          /\ gc'.todo = {b \in Builds : Eligible(b)}
      BY <2>1, <1>t DEF BeginSweep, Collection
    <3>2. ASSUME NEW b \in Builds, b \in Kept
          PROVE  ~Live(gc'.records[b]) /\ b \notin gc'.todo
      <4>1. b \notin gc'.todo
        BY <3>1, <3>2 DEF Eligible
      <4>2. gc'.records[b] = IF Live(gc.records[b]) THEN NoRecord ELSE gc.records[b]
        <5>1. gc'.records = [c \in Builds |-> Marked(c)]
          BY <2>1, <1>t DEF BeginSweep, Collection
        <5> QED BY <5>1, <3>2 DEF Marked
      <4> QED BY <4>1, <4>2, RecordLiveness
    <3>3. Kept' = Kept
      BY <3>1 DEF Kept
    <3> QED BY <1>3, <3>2, <3>3 DEF RescueInv, Live, Retired
  <2>2. CASE SweepsOn
    <3>1. Kept' = Kept /\ gc.phase = "sweeping"
      BY <1>3, <2>2 DEF MovesOn, SweepsOn, Kept
    <3>2. ASSUME NEW b \in Builds, b \in Kept
          PROVE  ~Live(gc'.records[b]) /\ b \notin gc'.todo
      <4>1. ~Live(gc.records[b]) /\ b \notin gc.todo
        BY <3>1, <3>2 DEF RescueInv
      <4> QED BY <2>2, <4>1, <1>t, RecordLiveness DEF SweepsOn
    <3> QED BY <1>3, <3>1, <3>2 DEF RescueInv, Live, Retired
  <2> QED BY <1>3, <2>1, <2>2 DEF MovesOn
<1>4. CASE MovesOn /\ gc'.phase = "content"
  <2>1. gc.phase = "sweeping" /\ gcState' = gc.records /\ gc' = [gc EXCEPT !.phase = "content"]
    <3>1. gc' # NoCollection
      BY <1>4, NoCollectionShape
    <3> QED BY <1>4, <3>1 DEF MovesOn, FinishSweep
  <2>2. gc'.records = gc.records /\ gc'.rooted = gc.rooted /\ gc'.graph = gc.graph
    BY <2>1, <1>t DEF Collection
  <2>3. \A b \in Builds : b \in gc.rooted \cup gc.graph => ~gc.records[b].aged
    BY <2>1 DEF RescueInv, Kept, AgedInv
  <2> QED BY <1>4, <2>1, <2>2, <2>3 DEF RescueInv
<1>5. BeginEpoch => gc'.phase = "snapshot"
  BY NoCollectionShape DEF BeginEpoch, Collection
<1>6. \A o \in Owners : SnapshotRoots(o) => gc'.phase = "snapshot"
  BY <1>t DEF SnapshotRoots, Collection
<1> QED BY <1>1, <1>2, <1>3, <1>4, <1>5, <1>6, CollectionStep

-----------------------------------------------------------------------------
(* Deletion after the grace period *)

\* What collections have found unrooted changes with the clock, when a sweep
\* begins or ends, and when a build is deleted.
LEMMA UnrootedStep ==
    ASSUME RetentionTypeOK, [RetentionNext]_vars,
           ~DayPasses, ~BeginSweep, ~FinishSweep,
           \A b \in Builds : ~FinishDeletion(b) /\ ~Sweep(b)
    PROVE  unrooted' = unrooted
<1> USE DEF history
<1>1. CASE UNCHANGED vars
  BY <1>1 DEF vars
<1>2. ASSUME NEW b \in Builds, StoreStep(b) PROVE unrooted' = unrooted
  BY <1>2 DEF StoreStep, Promote, FinishPut, Hydrate, FinishHydrate
<1>3. ASSUME NEW o \in Owners, OwnerStep(o) PROVE unrooted' = unrooted
  BY <1>3 DEF OwnerStep, OwnerWrite, Finalize, OwnerWriteFails, Retire, EntityCallFails, ReadEntity,
              SnapshotRoots, Reserve, Republish, Publish, DiePublishing, ProcessLost
<1>4. CASE CollectorStep
  BY <1>4 DEF CollectorStep, BeginEpoch, ReportLoads, CommitLoads, LoadState, ReportScans, BeginCommit,
              CommitScans, RemoveTrash, RemoveTrashFails, CollectionFails, CompleteEpoch, Restore,
              RetainPublished, DieSweeping, ProcessLost
<1>5. CASE Restart
  BY <1>5 DEF Restart, ProcessLost
<1> QED BY <1>1, <1>2, <1>3, <1>4, <1>5 DEF RetentionNext

\* The epoch goes on by one where a collection begins.
LEMMA EpochStep ==
    ASSUME RetentionTypeOK, RemovalInv, [RetentionNext]_vars
    PROVE  epoch' \in {epoch, epoch + 1} /\ (BeginEpoch \/ epoch' = epoch)
<1> USE DEF journal
<1>1. CASE UNCHANGED vars
  BY <1>1 DEF vars
<1>2. ASSUME NEW b \in Builds, StoreStep(b) PROVE epoch' = epoch
  BY <1>2 DEF StoreStep, Promote, FinishPut, Hydrate, FinishHydrate
<1>3. ASSUME NEW o \in Owners, OwnerStep(o) PROVE epoch' = epoch
  BY <1>3 DEF OwnerStep, OwnerWrite, Finalize, OwnerWriteFails, Retire, EntityCallFails, ReadEntity,
              SnapshotRoots, Reserve, Republish, Publish, DiePublishing
<1>4. CASE CollectorStep /\ ~BeginEpoch
  BY <1>4 DEF CollectorStep, ReportLoads, CommitLoads, LoadState, ReportScans, BeginCommit,
              CommitScans, RemoveTrash, RemoveTrashFails, CollectionFails, CompleteEpoch, Restore,
              RetainPublished, DieSweeping, BeginSweep, FinishSweep, FinishDeletion, Sweep
<1>5. CASE Restart \/ DayPasses
  BY <1>5 DEF Restart, DayPasses
<1>6. CASE BeginEpoch
  BY <1>6 DEF BeginEpoch
<1> QED BY <1>1, <1>2, <1>3, <1>4, <1>5, <1>6 DEF RetentionNext

\* The records of one build after a step.
GraceAfter(b) ==
    /\ unrooted'[b].since <= epoch' /\ (unrooted'[b].aged => unrooted'[b].since # 0)
    /\ Live(gcState'[b]) => /\ unrooted'[b].since \in 1 .. gcState'[b].since
                            /\ gcState'[b].aged => unrooted'[b].aged
    /\ Live(gc'.records[b]) => /\ unrooted'[b].since \in 1 .. gc'.records[b].since
                               /\ gc'.records[b].aged => unrooted'[b].aged

\* A record that is older than the step stands for the same time.
LEMMA EarlierGrace ==
    ASSUME RetentionTypeOK, GraceInv, epoch' \in {epoch, epoch + 1}, NEW b \in Builds,
           unrooted'[b] = unrooted[b],
           gcState'[b] \in EarlierSources(b), gc'.records[b] \in EarlierSources(b)
    PROVE  GraceAfter(b)
<1>1. epoch \in Nat /\ unrooted[b] \in Unrooted
  BY DEF RetentionTypeOK
<1>2. unrooted'[b].since <= epoch' /\ (unrooted'[b].aged => unrooted'[b].since # 0)
  BY <1>1 DEF GraceInv, Unrooted
<1>3. \A r \in EarlierSources(b) : Live(r) => IsUnrooted(b, r)
  BY <1>1, RecordLiveness DEF EarlierSources, GraceInv
<1> QED BY <1>2, <1>3 DEF GraceAfter, IsUnrooted

\* The records and the history change together.
LEMMA GraceRecordsStep ==
    ASSUME RetentionTypeOK, RemovalInv, RescueInv, GraceInv, [RetentionNext]_vars, NEW b \in Builds
    PROVE  GraceAfter(b)
<1>t. /\ gc \in Collection /\ epoch \in Nat /\ unrooted \in [Builds -> Unrooted]
      /\ gcState \in [Builds -> GcRecord] /\ gc.records \in [Builds -> GcRecord]
  BY DEF RetentionTypeOK, Collection
<1>e. epoch' \in {epoch, epoch + 1}
  BY EpochStep
<1>g. /\ unrooted[b].since <= epoch /\ (unrooted[b].aged => unrooted[b].since # 0)
      /\ unrooted[b].since \in Nat /\ unrooted[b].aged \in BOOLEAN
      /\ Live(gcState[b]) => IsUnrooted(b, gcState[b])
      /\ Live(gc.records[b]) => IsUnrooted(b, gc.records[b])
  BY <1>t DEF GraceInv, Unrooted
<1>n. NotUnrooted.since = 0 /\ NotUnrooted.aged = FALSE
  BY DEF NotUnrooted
<1>1. CASE DayPasses
  <2>1. /\ gc' = gc /\ gcState'[b] = [gcState[b] EXCEPT !.aged = Live(gcState[b])]
        /\ unrooted'[b] = [unrooted[b] EXCEPT !.aged = unrooted[b].since # 0] /\ epoch' = epoch
    BY <1>1, <1>t DEF DayPasses, journal
  <2>2. /\ gcState'[b].since = gcState[b].since /\ gcState'[b].deletedAt = gcState[b].deletedAt
        /\ unrooted'[b].since = unrooted[b].since /\ unrooted'[b].aged = (unrooted[b].since # 0)
    BY <2>1, <1>t DEF GcRecord, Unrooted
  <2>3. Live(gcState'[b]) => Live(gcState[b])
    BY <2>2 DEF Live, Retired
  <2>4. \A n \in Nat : unrooted[b].since \in 1 .. n => unrooted[b].since # 0
    BY <1>g
  <2>5. gcState[b].since \in Nat /\ gc.records[b].since \in Nat
    BY <1>t DEF GcRecord
  <2>6. Live(gcState'[b]) => unrooted'[b].since \in 1 .. gcState'[b].since /\ unrooted'[b].aged
    BY <1>g, <2>2, <2>3, <2>4, <2>5 DEF IsUnrooted
  <2>7. Live(gc.records[b]) => unrooted'[b].since \in 1 .. gc.records[b].since /\ unrooted'[b].aged
    BY <1>g, <2>2, <2>4, <2>5 DEF IsUnrooted
  <2> QED BY <1>g, <2>1, <2>2, <2>6, <2>7 DEF GraceAfter
<1>2. CASE BeginSweep
  <2>1. /\ gcState' = gcState /\ epoch' = epoch /\ gc'.records[b] = Marked(b)
        /\ unrooted'[b] = IF b \in gc.seen \ Kept /\ unrooted[b] = NotUnrooted
                          THEN [since |-> epoch, aged |-> FALSE] ELSE unrooted[b]
    BY <1>2, <1>t DEF BeginSweep, Collection, builds, journal
  <2>2. epoch > 0
    BY <1>2 DEF BeginSweep, GraceInv
  <2>3. CASE unrooted[b] = NotUnrooted
    <3>1. ~Live(gcState[b]) /\ ~Live(gc.records[b])
      BY <1>g, <1>n, <1>t, <2>3 DEF IsUnrooted, GcRecord
    <3>2. CASE b \in gc.seen \ Kept
      <4>1. gc'.records[b] \in {gc.records[b], Quarantined(epoch)} /\ unrooted'[b].since = epoch
            /\ unrooted'[b].aged = FALSE
        BY <2>1, <2>3, <3>2 DEF Marked
      <4>2. Live(gc'.records[b]) => gc'.records[b].since = epoch /\ ~gc'.records[b].aged
        BY <3>1, <4>1 DEF Quarantined
      <4> QED BY <1>t, <2>1, <2>2, <3>1, <4>1, <4>2 DEF GraceAfter
    <3>3. CASE b \notin gc.seen \ Kept
      <4>1. gc'.records[b] \in {gc.records[b], NoRecord} /\ unrooted'[b] = unrooted[b]
        BY <2>1, <3>3 DEF Marked
      <4>2. ~Live(gc'.records[b])
        BY <3>1, <4>1, RecordLiveness
      <4> QED BY <1>g, <2>1, <3>1, <4>1, <4>2 DEF GraceAfter
    <3> QED BY <3>2, <3>3
  <2>4. CASE unrooted[b] # NotUnrooted
    <3>1. unrooted'[b] = unrooted[b] /\ unrooted[b].since >= 1
      BY <1>g, <1>t, <2>1, <2>4 DEF Unrooted, NotUnrooted
    <3>2. gc'.records[b] \in {gc.records[b], NoRecord, Quarantined(epoch)}
      BY <2>1 DEF Marked
    <3>3. Live(gc'.records[b]) => /\ unrooted[b].since \in 1 .. gc'.records[b].since
                                  /\ gc'.records[b].aged => unrooted[b].aged
      <4>1. CASE gc'.records[b] = Quarantined(epoch)
        <5>1. gc'.records[b].since = epoch /\ gc'.records[b].aged = FALSE
          BY <4>1 DEF Quarantined
        <5> QED BY <1>g, <1>t, <3>1, <5>1
      <4>2. CASE gc'.records[b] = gc.records[b]
        BY <1>g, <4>2 DEF IsUnrooted
      <4> QED BY <3>2, <4>1, <4>2, RecordLiveness
    <3> QED BY <1>g, <2>1, <3>1, <3>3 DEF GraceAfter, IsUnrooted
  <2> QED BY <2>3, <2>4
<1>3. CASE FinishSweep
  <2>1. /\ gcState' = gc.records /\ epoch' = epoch /\ gc.phase = "sweeping"
        /\ gc'.records[b] \in {gc.records[b], NoRecord}
        /\ unrooted'[b] = IF b \in Kept THEN NotUnrooted ELSE unrooted[b]
    BY <1>3, <1>t, NoCollectionShape DEF FinishSweep, Collection, journal
  <2>2. b \in Kept => ~Live(gc.records[b])
    BY <2>1 DEF RescueInv
  <2>3. Live(gc'.records[b]) => gc'.records[b] = gc.records[b]
    BY <2>1, RecordLiveness
  <2> QED BY <1>g, <1>n, <1>t, <2>1, <2>2, <2>3 DEF GraceAfter, IsUnrooted
<1>4. ASSUME NEW c \in Builds, FinishDeletion(c) \/ Sweep(c) PROVE GraceAfter(b)
  <2>1. /\ gcState' = Retiring(c) /\ gc'.records = Retiring(c) /\ epoch' = epoch
        /\ unrooted' = [unrooted EXCEPT ![c] = NotUnrooted]
    BY <1>4, <1>t DEF FinishDeletion, Sweep, Collection, journal
  <2>2. CASE b = c
    <3>1. ~Live(gcState'[b]) /\ ~Live(gc'.records[b]) /\ unrooted'[b] = NotUnrooted
      BY <2>1, <2>2, <1>t, RetiringRecords
    <3> QED BY <1>t, <1>n, <2>1, <3>1 DEF GraceAfter
  <2>3. CASE b # c
    <3>1. gcState'[b] = gc.records[b] /\ gc'.records[b] = gc.records[b] /\ unrooted'[b] = unrooted[b]
      BY <2>1, <2>3, <1>t, RetiringRecords
    <3> QED BY <1>g, <2>1, <3>1 DEF GraceAfter, IsUnrooted
  <2> QED BY <2>2, <2>3
<1>5. CASE /\ ~DayPasses /\ ~BeginSweep /\ ~FinishSweep
           /\ \A c \in Builds : ~FinishDeletion(c) /\ ~Sweep(c)
  <2>1. unrooted' = unrooted
    BY <1>5, UnrootedStep
  <2>2. gcState'[b] \in EarlierSources(b) /\ gc'.records[b] \in EarlierSources(b)
    BY <1>5, RecordStep
  <2> QED BY <1>e, <2>1, <2>2, EarlierGrace
<1> QED BY <1>1, <1>2, <1>3, <1>4, <1>5

\* A candidate of the sweep was found unrooted in an earlier epoch.
LEMMA ExpiredStep ==
    ASSUME RetentionTypeOK, RemovalInv, GraceInv, [RetentionNext]_vars, gc'.phase = "sweeping",
           NEW b \in gc'.todo
    PROVE  Expired(b)'
<1>t. gc \in Collection /\ epoch \in Nat /\ unrooted \in [Builds -> Unrooted]
  BY DEF RetentionTypeOK
<1>1. ASSUME b \in Builds, Expired(b), epoch' = epoch, unrooted'[b] = unrooted[b], gc'.rooted = gc.rooted
      PROVE  Expired(b)'
  BY <1>1 DEF Expired
<1>2. CASE BeginSweep
  <2>1. /\ gc.phase = "recovering" /\ epoch' = epoch /\ gc'.rooted = gc.rooted
        /\ gc'.todo = {c \in Builds : Eligible(c)}
        /\ \A c \in Builds : unrooted[c] # NotUnrooted => unrooted'[c] = unrooted[c]
    BY <1>2, <1>t DEF BeginSweep, Collection, journal
  <2>2. b \in Builds /\ Eligible(b)
    BY <2>1
  <2>3. /\ Live(gc.records[b]) /\ epoch > gc.records[b].since /\ gc.records[b].aged /\ b \notin gc.rooted
    BY <2>2 DEF Eligible, Kept
  <2>4. unrooted[b].since \in 1 .. gc.records[b].since /\ unrooted[b].aged /\ gc.records[b].since \in Nat
    BY <1>t, <2>2, <2>3 DEF GraceInv, IsUnrooted, Collection, GcRecord
  <2>5. unrooted[b].since \in 1 .. epoch - 1
    BY <1>t, <2>3, <2>4
  <2>6. unrooted[b] # NotUnrooted
    BY <2>4 DEF NotUnrooted
  <2> QED BY <1>1, <2>1, <2>2, <2>3, <2>4, <2>5, <2>6 DEF Expired
<1>3. CASE gc.phase = "sweeping" /\ b \in gc.todo /\ gc'.rooted = gc.rooted /\ epoch' = epoch
  <2>1. b \in Builds /\ Expired(b)
    BY <1>3, <1>t DEF GraceInv, Collection
  <2>2. unrooted'[b] = unrooted[b]
    <3>1. ~DayPasses
      BY <1>3, ClockStep
    <3>2. ~FinishSweep
      BY <1>3, <1>t, NoCollectionShape DEF FinishSweep
    <3>3. ASSUME NEW c \in Builds, FinishDeletion(c) \/ Sweep(c) PROVE unrooted'[b] = unrooted[b]
      <4>1. unrooted' = [unrooted EXCEPT ![c] = NotUnrooted] /\ gc'.todo = gc.todo \ {c}
        BY <3>3, <1>t DEF FinishDeletion, Sweep, Collection
      <4> QED BY <4>1, <2>1, <1>t
    <3>4. ~BeginSweep
      BY <1>3 DEF BeginSweep
    <3> QED BY <3>1, <3>2, <3>3, <3>4, UnrootedStep
  <2> QED BY <1>1, <1>3, <2>1, <2>2
<1>4. CASE gc' = gc /\ epoch' = epoch
  BY <1>3, <1>4
<1>5. CASE MovesOn
  BY <1>2, <1>3, <1>5 DEF MovesOn, SweepsOn
<1>6. BeginEpoch => gc'.phase = "snapshot"
  BY NoCollectionShape DEF BeginEpoch, Collection
<1>7. \A o \in Owners : SnapshotRoots(o) => gc'.phase = "snapshot"
  BY <1>t DEF SnapshotRoots, Collection
<1> QED BY <1>4, <1>5, <1>6, <1>7, CollectionStep

\* Every step keeps the records and the candidates backed by the history.
LEMMA GraceStep ==
    ASSUME RetentionTypeOK, RemovalInv, RescueInv, GraceInv, [RetentionNext]_vars
    PROVE  GraceInv'
<1>1. gc'.phase # "idle" => epoch' > 0
  <2>t. epoch \in Nat /\ gc \in Collection
    BY DEF RetentionTypeOK
  <2>1. CASE BeginEpoch
    BY <2>t, <2>1 DEF BeginEpoch
  <2>2. CASE ~BeginEpoch
    <3>1. epoch' = epoch
      BY <2>2, EpochStep
    <3>2. \A o \in Owners : SnapshotRoots(o) => gc.phase # "idle"
      BY DEF SnapshotRoots
    <3> QED BY <2>2, <3>1, <3>2, CollectionStep DEF GraceInv, MovesOn
  <2> QED BY <2>1, <2>2
<1>2. \A b \in Builds : GraceAfter(b)
  BY GraceRecordsStep
<1>3. gc'.phase = "sweeping" => \A b \in gc'.todo : Expired(b)'
  BY ExpiredStep
<1> QED BY <1>1, <1>2, <1>3 DEF GraceInv, GraceAfter, IsUnrooted, Live, Retired

\* Only a sweep takes a build out of the store, be it cut short by a crash.
LEMMA DeletedBySweep ==
    ASSUME RetentionTypeOK, [RetentionNext]_vars, NEW b \in stored \ stored'
    PROVE  b \in Builds /\ gc.phase = "sweeping" /\ b \in gc.todo
<1>b. b \in Builds
  BY DEF RetentionTypeOK
<1>1. ASSUME NEW c \in Builds, Sweep(c) \/ DieSweeping(c)
      PROVE  gc.phase = "sweeping" /\ b \in gc.todo
  <2>1. stored' = stored \ {c} /\ gc.phase = "sweeping" /\ c \in gc.todo
    BY <1>1 DEF Sweep, DieSweeping
  <2> QED BY <2>1
<1>2. ASSUME NEW o \in Owners, Finalize(o) \/ \E c \in Builds :
                 Reserve(o, c) \/ Publish(o, c) \/ DiePublishing(o, c)
      PROVE  stored' = stored
  BY <1>2 DEF Finalize, Reserve, Republish, Publish, DiePublishing, builds
<1>3. CASE CompleteEpoch \/ UNCHANGED vars
  <2>1. stored' = stored
    BY <1>3 DEF CompleteEpoch, builds, vars
  <2> QED BY <2>1
<1> QED BY <1>b, <1>1, <1>2, <1>3, QuietStep DEF RetentionNext, OwnerStep, CollectorStep

\* A build is deleted only if a collection of an earlier epoch found it without
\* a root, a day went by, no collection completed since found a root of it and
\* this one read none - although puts write the state file while it runs, and
\* crashes, restores and rescues rewrite its records.
THEOREM DeletionsAfterGrace == RetentionSpec => DeletedAfterGrace
<1> DEFINE Inv == AgedInv /\ RescueInv /\ GraceInv
<1>1. RetentionInit => Inv
  <2> SUFFICES ASSUME RetentionInit PROVE RescueInv /\ GraceInv
    BY InitTrash
  <2>1. gc.phase = "idle" /\ \A b \in Builds : gc.records[b] = NoRecord /\ gcState[b] = NoRecord
    BY NoCollectionShape DEF RetentionInit
  <2>2. epoch = 0 /\ \A b \in Builds : unrooted[b].since = 0 /\ unrooted[b].aged = FALSE
    BY DEF RetentionInit, NotUnrooted
  <2> QED BY <2>1, <2>2, RecordLiveness DEF RescueInv, GraceInv
<1>2. RetentionInv /\ Inv /\ [RetentionNext]_vars => Inv'
  BY AgedStep, RescueStep, GraceStep DEF RetentionInv, BackingInv
<1>3. RetentionInv /\ Inv /\ [RetentionNext]_vars =>
          [\A b \in stored \ stored' :
              /\ unrooted[b].since \in 1 .. epoch - 1 /\ unrooted[b].aged
              /\ b \notin gc.rooted]_vars
  BY DeletedBySweep DEF RetentionInv, GraceInv, Expired
<1> QED BY <1>1, <1>2, <1>3, RetentionInvariant, PTL DEF RetentionSpec, DeletedAfterGrace

-----------------------------------------------------------------------------
(* Publications *)

\* No publication is in flight in a process that was just started.
LEMMA NoPublications ==
    ASSUME publishing' = [o \in Owners |-> NotPublishing]
    PROVE  PublicationInv'
<1>1. \A o \in Owners : /\ publishing'[o].id = 0 /\ publishing'[o].written = FALSE
                        /\ publishing'[o].build = NoBuild
  BY DEF NotPublishing
<1> QED BY <1>1 DEF PublicationInv, Publishes

\* A publication goes on as it is, ends, or has written its owner.
Continues(o) ==
    \/ publishing'[o] = publishing[o]
    \/ publishing'[o] = NotPublishing
    \/ Publishes(o) /\ publishing'[o] = [publishing[o] EXCEPT !.written = TRUE]

\* A publication that goes on keeps its reservation and its build.
LEMMA ContinuesShape ==
    ASSUME PublicationInv, publishing \in [Owners -> Publication], NEW o \in Owners, Continues(o)
    PROVE  /\ publishing'[o].id # 0 => /\ publishing'[o].id = publishing[o].id
                                       /\ publishing'[o].build = publishing[o].build
           /\ publishing'[o].id # 0 \/ publishing'[o].written => publishing'[o].build # NoBuild
           /\ publishing'[o].build # NoBuild => Publishes(o)
<1>1. CASE publishing'[o] = publishing[o]
  BY <1>1 DEF PublicationInv, Publishes
<1>2. CASE publishing'[o] = NotPublishing
  BY <1>2 DEF NotPublishing
<1>3. CASE Publishes(o) /\ publishing'[o] = [publishing[o] EXCEPT !.written = TRUE]
  <2>1. publishing'[o].id = publishing[o].id /\ publishing'[o].build = publishing[o].build
    BY <1>3 DEF Publication
  <2> QED BY <1>3, <2>1 DEF Publishes
<1> QED BY <1>1, <1>2, <1>3 DEF Continues

\* A step that begins no publication and leaves each with its reservation, or
\* its build young.
LEMMA PublicationsKept ==
    ASSUME PublicationInv, publishing \in [Owners -> Publication],
           reserved' >= reserved, reserved \in Nat, reserved' \in Nat,
           \A o \in Owners : Continues(o),
           \A o \in Owners, b \in Builds :
              publishing'[o].id # 0 /\ publishing[o].build = b /\ (OwnReservation(o) \/ Young(b)) =>
              OwnReservation(o)' \/ Young(b)'
    PROVE  PublicationInv'
<1>1. ASSUME NEW o \in Owners, publishing'[o].id # 0
      PROVE  /\ publishing'[o].id <= reserved'
             /\ OwnReservation(o)' \/ Young(publishing[o].build)'
  <2>1. /\ publishing'[o].id = publishing[o].id /\ publishing'[o].build = publishing[o].build
        /\ Publishes(o)
    BY <1>1, ContinuesShape
  <2>2. publishing[o].id <= reserved /\ publishing[o].id \in Nat /\ publishing[o].build \in Builds
    BY <1>1, <2>1 DEF PublicationInv, Publication, BuildOrNone, Publishes
  <2>3. PICK b \in Builds : b = publishing[o].build
    BY <2>2
  <2>4. OwnReservation(o) \/ Young(b)
    BY <1>1, <2>1, <2>3 DEF PublicationInv
  <2>5. OwnReservation(o)' \/ Young(b)'
    BY <1>1, <2>3, <2>4
  <2>6. publishing'[o].id <= reserved' /\ publishing'[o].build = b
    BY <2>1, <2>2, <2>3
  <2>7. Young(b)' => Young(publishing[o].build)'
    BY <2>6 DEF Young
  <2> QED BY <2>5, <2>6, <2>7
<1>2. \A o, p \in Owners :
          publishing'[o].id # 0 /\ publishing'[o].id = publishing'[p].id => o = p
  BY ContinuesShape DEF PublicationInv
<1>3. \A o \in Owners : publishing'[o].id # 0 \/ publishing'[o].written => publishing'[o].build # NoBuild
  BY ContinuesShape
<1>4. \A o \in Owners \ Entities : publishing'[o].build = NoBuild
  BY ContinuesShape DEF PublicationInv
<1> QED BY <1>1, <1>2, <1>3, <1>4 DEF PublicationInv, Publishes

\* A reservation survives every step but the completion of an epoch.
LEMMA ReservationsStay ==
    ASSUME RetentionTypeOK, [RetentionNext]_vars, ~CompleteEpoch, NEW r \in reservations
    PROVE  /\ \E s \in reservations' : s.owner = r.owner /\ s.build = r.build
           /\ r \in reservations' \/ \E o \in Owners : Finalize(o) /\ r.id = publishing[o].id
<1>1. ASSUME NEW o \in Owners, Finalize(o)
      PROVE  /\ \E s \in reservations' : s.owner = r.owner /\ s.build = r.build
             /\ r \in reservations' \/ r.id = publishing[o].id
  <2>1. reservations' = FinalizedIn(reservations, publishing[o].id)
    BY <1>1 DEF Finalize
  <2>2. r \in Reservation
    BY DEF RetentionTypeOK
  <2> DEFINE s == IF r.id = publishing[o].id THEN [r EXCEPT !.finalized = TRUE] ELSE r
  <2>3. s \in reservations' /\ s.owner = r.owner /\ s.build = r.build
    BY <2>1, <2>2 DEF FinalizedIn, Reservation
  <2>4. r.id # publishing[o].id => s = r
    OBVIOUS
  <2> HIDE DEF s
  <2> QED BY <2>3, <2>4
<1>2. ASSUME NEW o \in Owners, NEW b \in Builds,
             Reserve(o, b) \/ Publish(o, b) \/ DiePublishing(o, b)
      PROVE  r \in reservations'
  BY <1>2 DEF Reserve, Republish, Publish, DiePublishing
<1>3. ASSUME NEW b \in Builds, Sweep(b) \/ DieSweeping(b)
      PROVE  r \in reservations'
  BY <1>3 DEF Sweep, DieSweeping, journal
<1>4. CASE UNCHANGED vars
  BY <1>4 DEF vars
<1>5. CASE reservations' = reservations
  BY <1>5
<1> QED BY <1>1, <1>2, <1>3, <1>4, <1>5, QuietStep DEF RetentionNext, OwnerStep, CollectorStep

\* Steps that begin, answer and lose publications, and the others.
LEMMA PublicationStep ==
    ASSUME RetentionTypeOK, RemovalInv, RescueInv, PublicationInv, [RetentionNext]_vars
    PROVE  PublicationInv'
<1>t. /\ publishing \in [Owners -> Publication] /\ reserved \in Nat /\ epoch \in Nat
      /\ reservations \subseteq Reservation /\ gc \in Collection
  BY DEF RetentionTypeOK
<1>b. \A b \in Builds : b # NoBuild
  BY NoBuildAssumption
\* One owner begins a publication, the others go on with theirs.
<1>o. ASSUME NEW o \in Entities, o \in Owners, NEW c \in Builds, NEW id \in Nat,
             publishing' = [publishing EXCEPT ![o] = [id |-> id, build |-> c, written |-> FALSE]],
             id \in {0, reserved + 1}, reserved' \in {reserved, reserved + 1}, id <= reserved',
             reservations \subseteq reservations', gc' = gc, gcState' = gcState,
             id # 0 => OwnReservation(o)'
      PROVE  PublicationInv'
  <2>1. /\ publishing'[o].id = id /\ publishing'[o].build = c /\ publishing'[o].written = FALSE
        /\ \A p \in Owners \ {o} : publishing'[p] = publishing[p]
    BY <1>o, <1>t
  <2>2. \A p \in Owners : publishing[p].id \in Nat
    BY <1>t DEF Publication
  <2>3. \A p \in Owners \ {o} : publishing[p].id # 0 => publishing[p].id <= reserved
    BY DEF PublicationInv
  <2>4. ASSUME NEW p \in Owners \ {o}, publishing'[p].id # 0
        PROVE  publishing'[p].id <= reserved' /\ (OwnReservation(p)' \/ Young(publishing[p].build)')
    <3>1. OwnReservation(p) \/ Young(publishing[p].build)
      BY <2>1, <2>4 DEF PublicationInv
    <3>2. OwnReservation(p) => OwnReservation(p)'
      BY <1>o, <2>1 DEF OwnReservation
    <3>3. Young(publishing[p].build) => Young(publishing[p].build)'
      BY <1>o, <2>1 DEF Young
    <3>4. publishing[p].id <= reserved
      BY <2>1, <2>3, <2>4
    <3>5. publishing'[p].id <= reserved'
      BY <1>o, <1>t, <2>1, <2>2, <3>4
    <3> QED BY <3>1, <3>2, <3>3, <3>5
  <2>5. \A p, q \in Owners :
            publishing'[p].id # 0 /\ publishing'[p].id = publishing'[q].id => p = q
    <3>1. id # 0 => \A p \in Owners \ {o} : publishing'[p].id # id
      BY <1>o, <1>t, <2>1, <2>2, <2>3
    <3>2. \A p, q \in Owners \ {o} :
              publishing'[p].id # 0 /\ publishing'[p].id = publishing'[q].id => p = q
      BY <2>1 DEF PublicationInv
    <3> QED BY <2>1, <3>1, <3>2
  <2>6. \A p \in Owners : publishing'[p].id # 0 \/ publishing'[p].written => publishing'[p].build # NoBuild
    BY <1>b, <2>1 DEF PublicationInv, Publishes
  <2>7. \A p \in Owners \ Entities : publishing'[p].build = NoBuild
    BY <2>1 DEF PublicationInv, Publishes
  <2>8. publishing'[o].id # 0 => publishing'[o].id <= reserved' /\ OwnReservation(o)'
    BY <1>o, <2>1
  <2>9. \A p \in Owners : publishing'[p].id # 0 =>
            /\ publishing'[p].id <= reserved'
            /\ OwnReservation(p)' \/ Young(publishing[p].build)'
    BY <2>4, <2>8
  <2> QED BY <2>5, <2>6, <2>7, <2>9 DEF PublicationInv, Publishes
<1>1. ASSUME NEW o \in Owners, NEW c \in Builds, Reserve(o, c) PROVE PublicationInv'
  <2> DEFINE id == reserved + 1
  <2>1. /\ o \in Entities
        /\ reservations' = reservations \cup {NewReservation(o, c, FALSE)}
        /\ publishing' = [publishing EXCEPT ![o] = [id |-> id, build |-> c, written |-> FALSE]]
        /\ reserved' = id /\ gc' = gc /\ gcState' = gcState
    BY <1>1 DEF Reserve, builds
  <2>2. publishing'[o] = [id |-> id, build |-> c, written |-> FALSE]
    BY <2>1, <1>t
  <2>3. OwnReservation(o)'
    <3>1. NewReservation(o, c, FALSE) \in reservations'
      BY <2>1
    <3> QED BY <2>2, <3>1 DEF OwnReservation, NewReservation
  <2>4. /\ id \in Nat /\ id \in {0, reserved + 1} /\ id <= reserved'
        /\ reserved' \in {reserved, reserved + 1}
    BY <2>1, <1>t
  <2>5. reservations \subseteq reservations'
    BY <2>1
  <2> HIDE DEF id
  <2> QED BY <1>o, <2>1, <2>3, <2>4, <2>5
<1>r. ASSUME NEW o \in Owners, NEW c \in Builds, Republish(o, c) PROVE PublicationInv'
  <2> DEFINE id == 0
  <2>1. /\ o \in Entities
        /\ publishing' = [publishing EXCEPT ![o] = [id |-> id, build |-> c, written |-> FALSE]]
        /\ reserved' = reserved /\ reservations' = reservations /\ gc' = gc /\ gcState' = gcState
    BY <1>r DEF Republish, builds, journal, budgets
  <2>2. /\ id \in Nat /\ id \in {0, reserved + 1} /\ id <= reserved'
        /\ reserved' \in {reserved, reserved + 1} /\ id = 0
    BY <2>1, <1>t
  <2>3. reservations \subseteq reservations'
    BY <2>1
  <2> HIDE DEF id
  <2> QED BY <1>o, <2>1, <2>2, <2>3
<1>2. CASE Restart \/ \E b \in Builds : DieSweeping(b)
  BY <1>2, NoPublications DEF Restart, DieSweeping, ProcessLost
<1>3. ASSUME NEW o \in Owners, NEW b \in Builds, DiePublishing(o, b) PROVE PublicationInv'
  BY <1>3, NoPublications DEF DiePublishing, ProcessLost
<1>4. CASE DayPasses
  <2>1. publishing' = publishing /\ \A o \in Owners : ~Publishes(o)
    BY <1>4 DEF DayPasses, owners
  <2> QED BY <2>1 DEF PublicationInv, Publishes
<1>5. CASE CompleteEpoch
  <2>1. /\ publishing' = publishing /\ reserved' = reserved /\ gcState' = gcState
        /\ gc.phase = "content" /\ gc' = NoCollection
        /\ reservations' = {r \in reservations : ~Settled(r)}
    BY <1>5 DEF CompleteEpoch, owners, budgets, builds
  <2>2. \A b \in Builds : gc'.records[b] = NoRecord /\ gc'.phase = "idle"
    BY <2>1, NoCollectionShape
  <2>3. ASSUME NEW b \in Builds, ~gcState[b].aged PROVE Young(b)'
    BY <2>1, <2>2, <2>3, RecordAges DEF Young
  <2>4. ASSUME NEW o \in Owners, NEW b \in Builds, publishing[o].build = b,
               OwnReservation(o) \/ Young(b)
        PROVE  OwnReservation(o)' \/ Young(b)'
    <3>1. CASE Young(b)
      BY <2>3, <3>1 DEF Young
    <3>2. CASE OwnReservation(o)
      <4>1. PICK r \in reservations : /\ r.id = publishing[o].id /\ ~r.finalized
                                      /\ r.owner = o /\ r.build = b
        BY <2>4, <3>2 DEF OwnReservation
      <4>2. CASE Settled(r)
        <5>1. b \in gc.rooted \cup gc.graph
          BY <4>1, <4>2 DEF Settled
        <5> QED BY <2>1, <2>3, <5>1 DEF RescueInv
      <4>3. CASE ~Settled(r)
        BY <2>1, <2>4, <4>1, <4>3 DEF OwnReservation
      <4> QED BY <4>2, <4>3
    <3> QED BY <2>4, <3>1, <3>2
  <2>5. \A o \in Owners : Continues(o)
    BY <2>1 DEF Continues
  <2> QED BY <1>t, <2>1, <2>4, <2>5, PublicationsKept
<1>6. ASSUME ~CompleteEpoch, ~DayPasses, reserved' >= reserved, reserved' \in Nat,
             \A o \in Owners : Continues(o),
             \A o \in Owners : Finalize(o) => publishing'[o].id = 0
      PROVE  PublicationInv'
  <2>1. ASSUME NEW o \in Owners, NEW b \in Builds, publishing'[o].id # 0, publishing[o].build = b,
               OwnReservation(o) \/ Young(b)
        PROVE  OwnReservation(o)' \/ Young(b)'
    <3>1. CASE Young(b)
      BY <1>6, <3>1, YoungStep
    <3>2. CASE OwnReservation(o)
      <4>1. PICK r \in reservations : /\ r.id = publishing[o].id /\ ~r.finalized
                                      /\ r.owner = o /\ r.build = b
        BY <2>1, <3>2 DEF OwnReservation
      <4>i. publishing'[o].id = publishing[o].id /\ publishing'[o].build = publishing[o].build
        BY <1>6, <1>t, <2>1, ContinuesShape
      <4>2. r \in reservations'
        <5> SUFFICES ASSUME NEW p \in Owners, Finalize(p), r.id = publishing[p].id PROVE FALSE
          BY <1>6, ReservationsStay
        <5>1. publishing[o].id # 0 /\ publishing[o].id = publishing[p].id
          BY <2>1, <4>1, <4>i
        <5>2. o = p
          BY <5>1 DEF PublicationInv
        <5> QED BY <1>6, <2>1, <5>2
      <4> QED BY <2>1, <4>1, <4>i, <4>2 DEF OwnReservation
    <3> QED BY <2>1, <3>1, <3>2
  <2> QED BY <1>t, <1>6, <2>1, PublicationsKept
<1>7. ASSUME NEW o \in Owners, OwnerWrite(o) \/ Finalize(o) \/ OwnerWriteFails(o)
      PROVE  PublicationInv'
  <2>1. /\ reserved' = reserved /\ Publishes(o)
        /\ \/ publishing' = [publishing EXCEPT ![o] = NotPublishing]
           \/ /\ publishing' = [publishing EXCEPT ![o].written = TRUE]
              /\ ~publishing[o].written
    BY <1>7 DEF OwnerWrite, Finalize, OwnerWriteFails, budgets
  <2>2. \/ publishing'[o] = NotPublishing
        \/ /\ publishing'[o] = [publishing[o] EXCEPT !.written = TRUE]
           /\ ~publishing[o].written
    BY <2>1, <1>t
  <2>3. \A p \in Owners : Continues(p)
    BY <2>1, <2>2, <1>t DEF Continues
  <2>4. \A p \in Owners : Finalize(p) => publishing'[p].id = 0
    BY <1>t DEF Finalize, NotPublishing
  <2>5. ~CompleteEpoch /\ ~DayPasses
    <3>1. publishing'[o] # publishing[o]
      <4>1. CASE publishing'[o] = NotPublishing
        BY <2>1, <4>1 DEF Publishes, NotPublishing
      <4>2. CASE publishing'[o] = [publishing[o] EXCEPT !.written = TRUE] /\ ~publishing[o].written
        <5>1. publishing'[o].written = TRUE
          BY <4>2, <1>t DEF Publication
        <5> QED BY <4>2, <5>1
      <4> QED BY <2>2, <4>1, <4>2
    <3> QED BY <3>1 DEF CompleteEpoch, DayPasses, owners
  <2> QED BY <1>6, <1>t, <2>1, <2>3, <2>4, <2>5
<1>8. ASSUME publishing' = publishing, reserved' >= reserved, reserved' \in Nat
      PROVE  PublicationInv'
  <2>1. \A o \in Owners : Continues(o)
    BY <1>8 DEF Continues
  <2>2. \A o \in Owners : ~Finalize(o)
    <3> SUFFICES ASSUME NEW o \in Owners, Finalize(o) PROVE FALSE
      OBVIOUS
    <3>1. publishing'[o].build = NoBuild
      BY <1>t DEF Finalize, NotPublishing
    <3>2. publishing[o].build # NoBuild
      BY DEF Finalize, Publishes
    <3> QED BY <1>8, <3>1, <3>2
  <2> QED BY <1>4, <1>5, <1>6, <1>8, <2>1, <2>2
<1>9. ASSUME NEW o \in Owners,
             \/ Retire(o) \/ EntityCallFails(o) \/ ReadEntity(o) \/ SnapshotRoots(o)
             \/ \E b \in Builds : Publish(o, b)
      PROVE  PublicationInv'
  <2>1. publishing' = publishing /\ reserved' \in {reserved, reserved + 1}
    BY <1>9 DEF Retire, EntityCallFails, ReadEntity, SnapshotRoots, Publish, owners, budgets
  <2> QED BY <1>8, <1>t, <2>1
<1>10. CASE \E b \in Builds : StoreStep(b)
  <2>1. publishing' = publishing /\ reserved' = reserved
    BY <1>10 DEF StoreStep, Promote, FinishPut, Hydrate, FinishHydrate, owners, budgets
  <2> QED BY <1>8, <1>t, <2>1
<1>11. CASE \/ BeginEpoch \/ ReportLoads \/ ReportScans \/ BeginCommit \/ CommitLoads \/ CommitScans
            \/ RemoveTrash \/ RemoveTrashFails \/ BeginSweep \/ FinishSweep \/ CollectionFails
  <2>1. publishing' = publishing /\ reserved' = reserved
    BY <1>11 DEF BeginEpoch, ReportLoads, CommitLoads, LoadState, ReportScans, BeginCommit, CommitScans,
                 RemoveTrash, RemoveTrashFails, BeginSweep, FinishSweep, CollectionFails, owners, budgets
  <2> QED BY <1>8, <1>t, <2>1
<1>12. CASE \E b \in Builds : Restore(b) \/ FinishDeletion(b) \/ RetainPublished(b) \/ Sweep(b)
  <2>1. publishing' = publishing /\ reserved' = reserved
    BY <1>12 DEF Restore, FinishDeletion, RetainPublished, Sweep, owners, budgets
  <2> QED BY <1>8, <1>t, <2>1
<1>13. CASE UNCHANGED vars
  <2>1. publishing' = publishing /\ reserved' = reserved
    BY <1>13 DEF vars
  <2> QED BY <1>8, <1>t, <2>1
<1>14. CASE \E o \in Owners : OwnerStep(o)
  BY <1>1, <1>r, <1>3, <1>7, <1>9, <1>14 DEF OwnerStep
<1>15. CASE CollectorStep
  BY <1>2, <1>5, <1>11, <1>12, <1>15 DEF CollectorStep
<1> QED BY <1>2, <1>4, <1>10, <1>13, <1>14, <1>15 DEF RetentionNext

-----------------------------------------------------------------------------
(* Roots that a collection has read *)

\* The mirror follows every answered call; a call that fails counts as a failure.
LEMMA MirrorStep ==
    ASSUME RetentionTypeOK, PublicationInv, MirrorInv, [RetentionNext]_vars
    PROVE  MirrorInv'
<1>t. /\ publishing \in [Owners -> Publication] /\ roots \in [Owners -> BuildOrNone]
      /\ mirror \in [Owners -> BuildOrNone] /\ failures \in Nat /\ fresh \in [Owners -> Freshness]
  BY DEF RetentionTypeOK
<1>i. failures = 0 => \A o \in Owners : mirror[o] = roots[o] \/ Ahead(o)
  BY DEF MirrorInv
<1>1. ASSUME UNCHANGED <<roots, mirror, publishing, failures, fresh>> PROVE MirrorInv'
  BY <1>1, <1>i DEF MirrorInv, Ahead
<1>2. ASSUME mirror' = roots' PROVE MirrorInv'
  BY <1>2 DEF MirrorInv
<1>3. ASSUME NEW o \in Owners, OwnerWriteFails(o) \/ EntityCallFails(o) PROVE MirrorInv'
  BY <1>3, <1>t DEF OwnerWriteFails, EntityCallFails, MirrorInv
\* One owner changes, and its mirror with it or its publication with it.
<1>o. ASSUME NEW o \in Owners, failures' = failures,
             failures = 0 => mirror'[o] = roots'[o] \/ Ahead(o)',
             \A p \in Owners \ {o} : /\ roots'[p] = roots[p] /\ mirror'[p] = mirror[p]
                                     /\ publishing'[p] = publishing[p] /\ fresh'[p] = fresh[p]
      PROVE  MirrorInv'
  <2> SUFFICES ASSUME failures = 0, NEW p \in Owners \ {o} PROVE mirror'[p] = roots'[p] \/ Ahead(p)'
    BY <1>o DEF MirrorInv
  <2>1. mirror[p] = roots[p] \/ Ahead(p)
    BY <1>i
  <2> QED BY <1>o, <2>1 DEF Ahead
<1>4. ASSUME NEW o \in Owners, OwnerWrite(o) PROVE MirrorInv'
  <2>1. /\ roots' = [roots EXCEPT ![o] = publishing[o].build] /\ mirror' = mirror
        /\ publishing' = [publishing EXCEPT ![o].written = TRUE] /\ failures' = failures
        /\ ~publishing[o].written
        /\ fresh' = WrittenAs(IF publishing[o].id = 0 THEN "unreserved" ELSE "reserved", o,
                              publishing[o].build)
    BY <1>4 DEF OwnerWrite, budgets
  <2>2. /\ publishing'[o].build = publishing[o].build /\ roots'[o] = publishing[o].build
        /\ publishing'[o].written = TRUE /\ publishing'[o].id = publishing[o].id
        /\ \A p \in Owners \ {o} : publishing'[p] = publishing[p] /\ roots'[p] = roots[p]
    BY <2>1, <1>t DEF Publication
  <2>3. \A p \in Owners \ {o} : fresh'[p] = fresh[p]
    BY <2>1, <1>t DEF WrittenAs
  <2>4. CASE roots[o] = publishing[o].build
    <3>1. failures = 0 => mirror[o] = roots[o]
      BY <1>i, <2>1 DEF Ahead
    <3> QED BY <1>o, <2>1, <2>2, <2>3, <2>4, <3>1
  <2>5. CASE roots[o] # publishing[o].build
    <3>1. fresh'[o] = IF publishing[o].id = 0 THEN "unreserved" ELSE "reserved"
      BY <2>1, <2>5, <1>t DEF WrittenAs
    <3>2. Ahead(o)'
      BY <2>2, <3>1 DEF Ahead
    <3> QED BY <1>o, <2>1, <2>2, <2>3, <3>2
  <2> QED BY <2>4, <2>5
<1>5. ASSUME NEW o \in Owners, Finalize(o) PROVE MirrorInv'
  <2>1. /\ mirror' = [mirror EXCEPT ![o] = roots[o]] /\ roots' = roots /\ fresh' = fresh
        /\ publishing' = [publishing EXCEPT ![o] = NotPublishing] /\ failures' = failures
    BY <1>5 DEF Finalize, budgets, history
  <2>2. /\ mirror'[o] = roots'[o]
        /\ \A p \in Owners \ {o} : publishing'[p] = publishing[p] /\ mirror'[p] = mirror[p]
    BY <2>1, <1>t
  <2> QED BY <1>o, <2>1, <2>2
<1>6. ASSUME NEW o \in Owners, NEW b \in Builds, Reserve(o, b) \/ Republish(o, b) PROVE MirrorInv'
  <2>1. /\ roots' = roots /\ mirror' = mirror /\ failures' = failures /\ ~Publishes(o) /\ fresh' = fresh
        /\ \E id \in {0, reserved + 1} :
              publishing' = [publishing EXCEPT ![o] = [id |-> id, build |-> b, written |-> FALSE]]
    BY <1>6 DEF Reserve, Republish, history, budgets
  <2>2. \A p \in Owners \ {o} : publishing'[p] = publishing[p]
    BY <2>1, <1>t
  <2>3. failures = 0 => mirror[o] = roots[o]
    BY <1>i, <2>1 DEF PublicationInv, Ahead
  <2> QED BY <1>o, <2>1, <2>2, <2>3
<1>8. ASSUME NEW o \in Owners, NEW b \in Builds, Publish(o, b) PROVE MirrorInv'
  <2>1. /\ roots' = [roots EXCEPT ![o] = b] /\ mirror' = [mirror EXCEPT ![o] = b]
        /\ publishing' = publishing /\ failures' = failures /\ fresh' = WrittenAs("reserved", o, b)
    BY <1>8 DEF Publish
  <2>2. /\ roots'[o] = mirror'[o]
        /\ \A p \in Owners \ {o} : /\ roots'[p] = roots[p] /\ mirror'[p] = mirror[p]
                                   /\ fresh'[p] = fresh[p]
    BY <2>1, <1>t DEF WrittenAs
  <2> QED BY <1>o, <2>1, <2>2
<1>9. ASSUME NEW o \in Owners, Retire(o) \/ ReadEntity(o) PROVE MirrorInv'
  <2>1. publishing' = publishing /\ failures' = failures
    BY <1>9 DEF Retire, ReadEntity, budgets
  <2>2. /\ roots'[o] = mirror'[o]
        /\ \A p \in Owners \ {o} : /\ roots'[p] = roots[p] /\ mirror'[p] = mirror[p]
                                   /\ fresh'[p] = fresh[p]
    BY <1>9, <1>t DEF Retire, ReadEntity, history
  <2> QED BY <1>o, <2>1, <2>2
<1>10. ASSUME NEW o \in Owners, SnapshotRoots(o) PROVE MirrorInv'
  <2>1. UNCHANGED <<roots, mirror, publishing, failures>>
    BY <1>10 DEF SnapshotRoots, owners, budgets
  <2>2. CASE mirror[o] = roots[o]
    <3>1. \A p \in Owners \ {o} : fresh'[p] = fresh[p]
      BY <1>10, <1>t, <2>2 DEF SnapshotRoots
    <3> QED BY <1>o, <2>1, <2>2, <3>1
  <2>3. CASE mirror[o] # roots[o]
    <3>1. fresh' = fresh
      BY <1>10, <2>3 DEF SnapshotRoots
    <3> QED BY <1>1, <2>1, <3>1
  <2> QED BY <2>2, <2>3
<1>11. CASE DayPasses \/ UNCHANGED vars \/ \E b \in Builds : StoreStep(b)
  <2>1. UNCHANGED <<roots, mirror, publishing, failures, fresh>>
    BY <1>11 DEF DayPasses, StoreStep, Promote, FinishPut, Hydrate, FinishHydrate, owners, budgets,
                 history, vars
  <2> QED BY <1>1, <2>1
<1>12. CASE \/ BeginEpoch \/ ReportLoads \/ ReportScans \/ BeginCommit \/ CommitLoads \/ CommitScans
            \/ RemoveTrash \/ RemoveTrashFails \/ BeginSweep \/ FinishSweep \/ CollectionFails
            \/ CompleteEpoch
  <2>1. UNCHANGED <<roots, mirror, publishing, failures, fresh>>
    BY <1>12 DEF BeginEpoch, ReportLoads, CommitLoads, LoadState, ReportScans, BeginCommit, CommitScans,
                 RemoveTrash, RemoveTrashFails, BeginSweep, FinishSweep, CollectionFails,
                 CompleteEpoch, owners, budgets, history
  <2> QED BY <1>1, <2>1
<1>13. CASE \E b \in Builds : Restore(b) \/ FinishDeletion(b) \/ RetainPublished(b) \/ Sweep(b)
  <2>1. UNCHANGED <<roots, mirror, publishing, failures, fresh>>
    BY <1>13 DEF Restore, FinishDeletion, RetainPublished, Sweep, owners, budgets, history
  <2> QED BY <1>1, <2>1
<1>14. CASE Restart \/ \E b \in Builds : DieSweeping(b)
  <2>1. mirror' = roots'
    BY <1>14 DEF Restart, DieSweeping, ProcessLost
  <2> QED BY <1>2, <2>1
<1>15. ASSUME NEW o \in Owners, NEW b \in Builds, DiePublishing(o, b) PROVE MirrorInv'
  BY <1>2, <1>15 DEF DiePublishing, ProcessLost
<1>16. CASE \E o \in Owners : OwnerStep(o)
  BY <1>3, <1>4, <1>5, <1>6, <1>8, <1>9, <1>10, <1>15, <1>16 DEF OwnerStep
<1>17. CASE CollectorStep
  BY <1>12, <1>13, <1>14, <1>17 DEF CollectorStep
<1> QED BY <1>11, <1>14, <1>16, <1>17 DEF RetentionNext

\* During a collection roots change by publications and retirements only, and it
\* is remembered how.
LEMMA RootsStep ==
    ASSUME RetentionTypeOK, PublicationInv, [RetentionNext]_vars, gc'.phase # "idle",
           \A p \in Owners : ~SnapshotRoots(p), NEW o \in Owners, roots'[o] # NoBuild
    PROVE  \/ roots'[o] = roots[o] /\ fresh'[o] = fresh[o]
           \/ fresh'[o] = "unreserved"
           \/ /\ fresh'[o] = "reserved"
              /\ \/ OwnReservation(o) /\ publishing[o].build = roots'[o]
                 \/ Young(publishing[o].build) /\ publishing[o].build = roots'[o]
                 \/ \E r \in reservations' : r.owner = o /\ r.build = roots'[o]
<1>t. roots \in [Owners -> BuildOrNone] /\ fresh \in [Owners -> Freshness]
  BY DEF RetentionTypeOK
<1>1. ASSUME NEW p \in Owners, OwnerWrite(p)
      PROVE  \/ roots'[o] = roots[o] /\ fresh'[o] = fresh[o]
             \/ fresh'[o] = "unreserved"
             \/ /\ fresh'[o] = "reserved"
                /\ OwnReservation(o) \/ Young(publishing[o].build)
                /\ publishing[o].build = roots'[o]
  <2> DEFINE how == IF publishing[p].id = 0 THEN "unreserved" ELSE "reserved"
  <2>1. /\ roots' = [roots EXCEPT ![p] = publishing[p].build]
        /\ fresh' = WrittenAs(how, p, publishing[p].build)
    BY <1>1 DEF OwnerWrite
  <2>2. \/ how = "unreserved"
        \/ how = "reserved" /\ (OwnReservation(p) \/ Young(publishing[p].build))
    <3>1. CASE publishing[p].id = 0
      BY <3>1
    <3>2. CASE publishing[p].id # 0
      <4>1. OwnReservation(p) \/ Young(publishing[p].build)
        BY <3>2 DEF PublicationInv
      <4> QED BY <3>2, <4>1
    <3> QED BY <3>1, <3>2
  <2> HIDE DEF how
  <2>3. CASE o # p \/ roots[p] = publishing[p].build
    <3>1. roots'[o] = roots[o] /\ fresh'[o] = fresh[o]
      BY <2>1, <2>3, <1>t DEF WrittenAs
    <3> QED BY <3>1
  <2>4. CASE o = p /\ roots[p] # publishing[p].build
    <3>1. roots'[o] = publishing[o].build /\ fresh'[o] = how
      BY <2>1, <2>4, <1>t DEF WrittenAs
    <3> QED BY <2>2, <2>4, <3>1
  <2> QED BY <2>3, <2>4
<1>2. ASSUME NEW p \in Owners, NEW b \in Builds, Publish(p, b)
      PROVE  \/ roots'[o] = roots[o] /\ fresh'[o] = fresh[o]
             \/ fresh'[o] = "reserved" /\ \E r \in reservations' : r.owner = o /\ r.build = roots'[o]
  <2>1. /\ roots' = [roots EXCEPT ![p] = b] /\ fresh' = WrittenAs("reserved", p, b)
        /\ NewReservation(p, b, TRUE) \in reservations'
    BY <1>2 DEF Publish
  <2>2. NewReservation(p, b, TRUE).owner = p /\ NewReservation(p, b, TRUE).build = b
    BY DEF NewReservation
  <2>3. CASE o # p \/ roots[p] = b
    <3>1. roots'[o] = roots[o] /\ fresh'[o] = fresh[o]
      BY <2>1, <2>3, <1>t DEF WrittenAs
    <3> QED BY <3>1
  <2>4. CASE o = p /\ roots[p] # b
    <3>1. roots'[o] = b /\ fresh'[o] = "reserved"
      BY <2>1, <2>4, <1>t DEF WrittenAs
    <3> QED BY <2>1, <2>2, <2>4, <3>1
  <2> QED BY <2>3, <2>4
<1>3. ASSUME NEW p \in Owners, Retire(p) PROVE roots'[o] = roots[o] /\ fresh'[o] = fresh[o]
  <2>1. /\ roots' = [roots EXCEPT ![p] = NoBuild] /\ fresh' = [fresh EXCEPT ![p] = "read"]
    BY <1>3 DEF Retire
  <2>2. o # p
    BY <2>1, <1>t
  <2> QED BY <2>1, <2>2, <1>t
<1>4. ASSUME NEW p \in Owners, NEW b \in Builds, DiePublishing(p, b) PROVE FALSE
  BY <1>4, NoCollectionShape DEF DiePublishing, ProcessLost
<1>5. ASSUME NEW p \in Owners,
             \/ Finalize(p) \/ OwnerWriteFails(p) \/ EntityCallFails(p) \/ ReadEntity(p)
             \/ \E b \in Builds : Reserve(p, b) \/ Republish(p, b)
      PROVE  roots' = roots /\ fresh' = fresh
  BY <1>5 DEF Finalize, OwnerWriteFails, EntityCallFails, ReadEntity, Reserve, Republish, owners, history
<1>6. CASE DayPasses \/ UNCHANGED vars \/ \E b \in Builds : StoreStep(b)
  <2>1. roots' = roots /\ fresh' = fresh
    BY <1>6 DEF DayPasses, StoreStep, Promote, FinishPut, Hydrate, FinishHydrate, owners, history, vars
  <2> QED BY <2>1
<1>7. CASE Restart \/ \E b \in Builds : DieSweeping(b)
  BY <1>7, NoCollectionShape DEF Restart, DieSweeping, ProcessLost
<1>8. CASE \/ BeginEpoch \/ ReportLoads \/ ReportScans \/ BeginCommit \/ CommitLoads \/ CommitScans
           \/ RemoveTrash \/ RemoveTrashFails \/ BeginSweep \/ FinishSweep \/ CollectionFails
           \/ CompleteEpoch
           \/ \E b \in Builds : Restore(b) \/ FinishDeletion(b) \/ RetainPublished(b) \/ Sweep(b)
  <2>1. ASSUME NEW b \in Builds, Restore(b) \/ FinishDeletion(b) \/ RetainPublished(b) \/ Sweep(b)
        PROVE  roots' = roots /\ fresh' = fresh
    BY <2>1 DEF Restore, FinishDeletion, RetainPublished, Sweep, owners, history
  <2>2. BeginEpoch \/ ReportLoads \/ ReportScans \/ BeginCommit \/ CommitLoads \/ CommitScans =>
            roots' = roots /\ fresh' = fresh
    <3>1. BeginEpoch => roots' = roots /\ fresh' = fresh
      BY DEF BeginEpoch, owners, history
    <3>2. ReportLoads \/ CommitLoads => roots' = roots /\ fresh' = fresh
      BY DEF ReportLoads, CommitLoads, LoadState, owners, history
    <3>3. ReportScans \/ BeginCommit \/ CommitScans => roots' = roots /\ fresh' = fresh
      BY DEF ReportScans, BeginCommit, CommitScans, owners, history
    <3> QED BY <3>1, <3>2, <3>3
  <2>3. ASSUME RemoveTrash \/ RemoveTrashFails \/ BeginSweep \/ FinishSweep \/ CollectionFails \/ CompleteEpoch
        PROVE  roots' = roots /\ fresh' = fresh
    BY <2>3 DEF RemoveTrash, RemoveTrashFails, BeginSweep, FinishSweep, CollectionFails, CompleteEpoch,
                owners, history
  <2>4. roots' = roots /\ fresh' = fresh
    BY <1>8, <2>1, <2>2, <2>3
  <2> QED BY <2>4
<1>9. CASE \E p \in Owners : OwnerStep(p)
  BY <1>1, <1>2, <1>3, <1>4, <1>5, <1>9 DEF OwnerStep
<1>10. CASE CollectorStep
  BY <1>7, <1>8, <1>10 DEF CollectorStep
<1> QED BY <1>6, <1>7, <1>9, <1>10 DEF RetentionNext

\* Calls that failed are counted.
LEMMA FailuresStep ==
    ASSUME [RetentionNext]_vars PROVE failures' \in {failures, failures + 1}
<1>1. ASSUME NEW b \in Builds, StoreStep(b) PROVE failures' \in {failures, failures + 1}
  BY <1>1 DEF StoreStep, Promote, FinishPut, Hydrate, FinishHydrate, budgets
<1>2. ASSUME NEW o \in Owners,
             \/ OwnerWrite(o) \/ Finalize(o) \/ OwnerWriteFails(o) \/ Retire(o)
             \/ EntityCallFails(o) \/ ReadEntity(o) \/ SnapshotRoots(o)
      PROVE  failures' \in {failures, failures + 1}
  BY <1>2 DEF OwnerWrite, Finalize, OwnerWriteFails, Retire, EntityCallFails, ReadEntity, SnapshotRoots,
              budgets
<1>3. ASSUME NEW o \in Owners, NEW b \in Builds,
             Reserve(o, b) \/ Republish(o, b) \/ Publish(o, b) \/ DiePublishing(o, b)
      PROVE  failures' \in {failures, failures + 1}
  BY <1>3 DEF Reserve, Republish, Publish, DiePublishing, ProcessLost, budgets
<1>4. ASSUME NEW b \in Builds,
             Restore(b) \/ FinishDeletion(b) \/ RetainPublished(b) \/ Sweep(b) \/ DieSweeping(b)
      PROVE  failures' \in {failures, failures + 1}
  BY <1>4 DEF Restore, FinishDeletion, RetainPublished, Sweep, DieSweeping, ProcessLost, budgets
<1>5. CASE BeginEpoch \/ ReportLoads \/ ReportScans \/ BeginCommit \/ CommitLoads \/ CommitScans
  <2>1. BeginEpoch => failures' = failures
    BY DEF BeginEpoch, budgets
  <2>2. ReportLoads \/ CommitLoads => failures' = failures
    BY DEF ReportLoads, CommitLoads, LoadState, budgets
  <2>3. ReportScans \/ BeginCommit \/ CommitScans => failures' = failures
    BY DEF ReportScans, BeginCommit, CommitScans, budgets
  <2> QED BY <1>5, <2>1, <2>2, <2>3
<1>6. CASE RemoveTrash \/ RemoveTrashFails \/ BeginSweep \/ FinishSweep \/ CollectionFails \/ CompleteEpoch
  BY <1>6 DEF RemoveTrash, RemoveTrashFails, BeginSweep, FinishSweep, CollectionFails, CompleteEpoch, budgets
<1>7. CASE DayPasses \/ Restart \/ UNCHANGED vars
  BY <1>7 DEF DayPasses, Restart, ProcessLost, budgets, vars
<1>8. CASE \E o \in Owners : OwnerStep(o)
  BY <1>2, <1>3, <1>8 DEF OwnerStep
<1>9. CASE CollectorStep
  BY <1>4, <1>5, <1>6, <1>9 DEF CollectorStep
<1> QED BY <1>1, <1>7, <1>8, <1>9 DEF RetentionNext

\* What an owner roots stays read, or reserved, until the collection has ended.
LEMMA SettledStep ==
    ASSUME RetentionTypeOK, RemovalInv, RecoveryInv, PublicationInv, MirrorInv, SettledInv,
           [RetentionNext]_vars
    PROVE  SettledInv'
<1>t. gc \in Collection /\ failures \in Nat /\ publishing \in [Owners -> Publication]
      /\ fresh \in [Owners -> Freshness]
  BY DEF RetentionTypeOK
<1> SUFFICES ASSUME failures' = 0, gc'.phase # "idle", NEW o \in Owners, roots'[o] # NoBuild,
                    o \notin gc'.unread, roots'[o] \notin gc'.rooted, fresh'[o] # "unreserved"
             PROVE  /\ fresh'[o] = "reserved"
                    /\ (\E r \in reservations' : r.owner = o /\ r.build = roots'[o]) \/ Young(roots[o])'
  BY DEF SettledInv, RootIsReserved
<1>f. failures = 0
  BY <1>t, FailuresStep
<1>c. ~CompleteEpoch
  BY NoCollectionShape DEF CompleteEpoch
<1>b. roots'[o] \in Builds
  <2>1. roots'[o] \in BuildOrNone
    BY TypeStep DEF RetentionTypeOK
  <2> QED BY <2>1 DEF BuildOrNone
\* A young build stays young, a reservation stays in the journal.
<1>y. ASSUME NEW b \in Builds, Young(b), b = roots'[o], gc.phase # "idle" PROVE Young(roots[o])'
  <2>1. ~DayPasses
    BY <1>y DEF DayPasses
  <2>2. Young(b)'
    BY <1>y, <2>1, YoungStep
  <2> QED BY <1>y, <2>2 DEF Young
<1>r. ASSUME NEW r \in reservations, r.owner = o, r.build = roots'[o]
      PROVE  \E s \in reservations' : s.owner = o /\ s.build = roots'[o]
  BY <1>c, <1>r, ReservationsStay
<1>1. ASSUME gc.phase # "idle", roots'[o] = roots[o], RootIsReserved(o) \/ Young(roots[o])
      PROVE  (\E r \in reservations' : r.owner = o /\ r.build = roots'[o]) \/ Young(roots[o])'
  BY <1>1, <1>r, <1>y, <1>b DEF RootIsReserved
<1>2. CASE \E p \in Owners : SnapshotRoots(p)
  <2> PICK p \in Owners : SnapshotRoots(p)
    BY <1>2
  <2>1. /\ gc' = [gc EXCEPT !.unread = @ \ {p}, !.rooted = @ \cup Shown(p)]
        /\ gc.phase = "snapshot" /\ roots' = roots
        /\ fresh' = IF mirror[p] = roots[p] THEN [fresh EXCEPT ![p] = "read"] ELSE fresh
    BY DEF SnapshotRoots, owners
  <2>2. gc'.unread = gc.unread \ {p} /\ gc'.rooted = gc.rooted \cup Shown(p)
    BY <2>1, <1>t DEF Collection
  <2>3. CASE o = p
    <3>1. mirror[o] # roots[o]
      <4> SUFFICES ASSUME mirror[o] = roots[o] PROVE FALSE
        OBVIOUS
      <4>1. roots[o] \in Shown(p)
        BY <2>1, <2>3 DEF Shown
      <4> QED BY <2>1, <2>2, <4>1
    <3>2. Ahead(o) /\ fresh'[o] = fresh[o]
      BY <1>f, <2>1, <2>3, <3>1 DEF MirrorInv
    <3>3. fresh[o] = "reserved" /\ publishing[o].id # 0 /\ roots[o] = publishing[o].build
      BY <3>2 DEF Ahead
    <3>4. OwnReservation(o) \/ Young(publishing[o].build)
      BY <3>3 DEF PublicationInv
    <3>5. RootIsReserved(o) \/ Young(roots[o])
      <4>1. CASE OwnReservation(o)
        BY <3>3, <4>1 DEF OwnReservation, RootIsReserved
      <4>2. CASE Young(publishing[o].build)
        BY <3>3, <4>2 DEF Young
      <4> QED BY <3>4, <4>1, <4>2
    <3> QED BY <1>1, <2>1, <3>2, <3>3, <3>5
  <2>4. CASE o # p
    <3>1. fresh'[o] = fresh[o]
      BY <2>1, <2>4, <1>t
    <3>2. fresh[o] = "reserved" /\ (RootIsReserved(o) \/ Young(roots[o]))
      BY <1>f, <2>1, <2>2, <2>4, <3>1 DEF SettledInv
    <3> QED BY <1>1, <2>1, <3>1, <3>2
  <2> QED BY <2>3, <2>4
\* No owner is read: what the collection has read stays read.
<1>3. CASE /\ \A p \in Owners : ~SnapshotRoots(p)
           /\ gc.phase # "idle" /\ gc'.unread = gc.unread /\ gc'.rooted = gc.rooted
  <2>1. CASE roots'[o] = roots[o] /\ fresh'[o] = fresh[o]
    <3>1. fresh[o] = "reserved" /\ (RootIsReserved(o) \/ Young(roots[o]))
      BY <1>f, <1>3, <2>1 DEF SettledInv
    <3> QED BY <1>1, <1>3, <2>1, <3>1
  <2>2. CASE /\ fresh'[o] = "reserved"
             /\ \/ OwnReservation(o) /\ publishing[o].build = roots'[o]
                \/ Young(publishing[o].build) /\ publishing[o].build = roots'[o]
                \/ \E r \in reservations' : r.owner = o /\ r.build = roots'[o]
    <3>1. CASE OwnReservation(o) /\ publishing[o].build = roots'[o]
      BY <2>2, <3>1, <1>r DEF OwnReservation
    <3>2. CASE Young(publishing[o].build) /\ publishing[o].build = roots'[o]
      BY <1>3, <2>2, <3>2, <1>y, <1>b
    <3> QED BY <2>2, <3>1, <3>2
  <2> QED BY <1>3, <2>1, <2>2, RootsStep
<1>4. CASE BeginEpoch
  <2>1. gc'.unread = Owners
    BY <1>4, NoCollectionShape DEF BeginEpoch, Collection
  <2> QED BY <2>1
<1>5. CASE gc' = gc \/ MovesOn
  BY <1>2, <1>3, <1>5 DEF MovesOn
<1> QED BY <1>2, <1>4, <1>5, CollectionStep

\* As long as no call about an entity fails, a build that an owner names is swept
\* only while no collection has read that root, and then only where the owner was
\* written without a reservation or its reservation is in the journal: the root
\* providers, protectedBuildKeys and completeEpoch.
THEOREM ReadRootsAreNotSwept == RetentionSpec => ReadRootIsNotSwept
<1>1. RetentionInit => SettlementInv
  <2> SUFFICES ASSUME RetentionInit PROVE SettlementInv
    OBVIOUS
  <2>1. AgedInv /\ CandidatesInv /\ RescueInv /\ SettledInv
    BY InitTrash, NoCollectionShape DEF RetentionInit, CandidatesInv, RescueInv, SettledInv
  <2>2. \A o \in Owners : /\ publishing[o].id = 0 /\ publishing[o].written = FALSE
                          /\ publishing[o].build = NoBuild
    BY DEF RetentionInit, NotPublishing
  <2>3. PublicationInv
    BY <2>2 DEF PublicationInv, Publishes
  <2>4. MirrorInv
    BY DEF RetentionInit, MirrorInv
  <2> QED BY <2>1, <2>3, <2>4 DEF SettlementInv
<1>2. RetentionInv /\ SettlementInv /\ [RetentionNext]_vars => SettlementInv'
  <2> SUFFICES ASSUME RetentionInv, SettlementInv, [RetentionNext]_vars PROVE SettlementInv'
    OBVIOUS
  <2>1. RetentionTypeOK /\ RemovalInv /\ RecoveryInv
    BY DEF RetentionInv, BackingInv
  <2> QED BY <2>1, AgedStep, CandidatesStep, RescueStep, PublicationStep, MirrorStep, SettledStep
         DEF SettlementInv
<1>3. RetentionInv /\ SettlementInv /\ [RetentionNext]_vars =>
          [failures = 0 => \A o \in Owners : roots[o] \in stored \ stored' =>
              \/ fresh[o] = "unreserved"
              \/ fresh[o] = "reserved" /\ RootIsReserved(o)]_vars
  <2> SUFFICES ASSUME RetentionInv, SettlementInv, [RetentionNext]_vars, failures = 0,
                      NEW o \in Owners, roots[o] \in stored \ stored'
               PROVE  \/ fresh[o] = "unreserved"
                      \/ fresh[o] = "reserved" /\ RootIsReserved(o)
    OBVIOUS
  <2>1. RetentionTypeOK
    BY DEF RetentionInv
  <2>2. roots[o] \in Builds /\ gc.phase = "sweeping" /\ roots[o] \in gc.todo
    BY <2>1, DeletedBySweep
  <2>3. gc.unread = {} /\ roots[o] \notin gc.rooted /\ roots[o] # NoBuild
    BY <2>2, NoBuildAssumption DEF SettlementInv, CandidatesInv
  <2>4. \/ fresh[o] = "unreserved"
        \/ fresh[o] = "reserved" /\ (RootIsReserved(o) \/ Young(roots[o]))
    BY <2>2, <2>3 DEF SettlementInv, SettledInv
  <2> QED BY <2>2, <2>4 DEF Young
<1> QED BY <1>1, <1>2, <1>3, RetentionInvariant, PTL DEF RetentionSpec, ReadRootIsNotSwept

=============================================================================
