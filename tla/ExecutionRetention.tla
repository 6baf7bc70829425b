------------------------- MODULE ExecutionRetention -------------------------
(***************************************************************************)
(* Which built artifacts a workspace keeps.  An owner (a runtime entity, a *)
(* runtime image) publishes a build in three steps through the publication *)
(* journal: reserve, write the owner record, finalize.  The collector of   *)
(* GcEpochCoordinator opens an epoch, snapshots the owners' roots, has the *)
(* sources of everything alive preflighted and then commits: it            *)
(* quarantines what nothing roots and renames into a trash directory what  *)
(* stayed unrooted for a later epoch and a day.  The rename and a          *)
(* reservation serialize on the journal's database lock.                   *)
(*                                                                         *)
(* Every action is one stretch of host code between two awaits.  Builds    *)
(* stand for build keys together with their sources; wall-clock grace is   *)
(* the boolean "aged" of a quarantine record; files are what they hold.    *)
(***************************************************************************)
EXTENDS Integers, FiniteSets

CONSTANTS
    Builds,           \* build keys
    Owners,           \* owner records that may root a build
    Entities,         \* owners written across an await and mirrored in EntityCache
    NoBuild,          \* no build
    MaxEpoch,         \* bound on collection epochs
    MaxReservations,  \* bound on publications
    MaxFaults         \* bound on failed entity calls, restarts and failed removals together

ASSUME NoBuildAssumption == NoBuild \notin Builds
ASSUME EntitiesAssumption == Entities \subseteq Owners
ASSUME FiniteAssumption == IsFiniteSet(Builds) /\ IsFiniteSet(Owners)
ASSUME RetentionBoundsAssumption ==
    {MaxEpoch, MaxReservations, MaxFaults} \subseteq Nat

VARIABLES
    \* on disk
    stored,        \* builds whose directory exists
    trash,         \* owned trash directories of each build
    gcState,       \* build GC state file: the record of each build
    epoch,         \* gc_epoch.current_epoch
    reservations,  \* execution_publications with their artifact
    roots,         \* the build each owner record that is not retired names
    rows,          \* the build each entity's row names, retired or not
    \* in the host process
    promoting,     \* builds renamed into place whose put has not finished
    hydrating,     \* builds being copied from a shared cache
    publishing,    \* each owner's publication in flight
    mirror,        \* the build each owner shows to its root provider
    cached,        \* the build each entity's cached record names, retired or not
    gc,            \* the running collection
    \* history and budgets
    fresh,         \* how each owner's root was written, until a collection reads it
    unrooted,      \* since when collections have found each build without a root
    reserved,      \* reservations ever made
    failures, crashes, trashFailures

vars == <<stored, trash, gcState, epoch, reservations, roots, rows, promoting, hydrating,
          publishing, mirror, cached, gc, fresh, unrooted, reserved, failures, crashes, trashFailures>>
builds == <<stored, trash, gcState, promoting, hydrating>>
owners == <<roots, rows, publishing, mirror, cached>>
journal == <<epoch, reservations>>
history == <<fresh, unrooted>>
budgets == <<reserved, failures, crashes, trashFailures>>

\* Another fault fits the bound.
MayFail == failures + crashes + trashFailures < MaxFaults

BuildOrNone == Builds \cup {NoBuild}

\* A quarantine record of the build GC state file.
GcRecord == [since: Nat, aged: BOOLEAN, deletedAt: Nat]
NoRecord == [since |-> 0, aged |-> FALSE, deletedAt |-> 0]
Quarantined(e) == [since |-> e, aged |-> FALSE, deletedAt |-> 0]
Tombstone(e) == [since |-> 0, aged |-> FALSE, deletedAt |-> e]
Retired(record) == record.deletedAt # 0
Live(record) == record.since # 0 /\ ~Retired(record)

Reservation == [id: Nat, owner: Owners, build: Builds, epoch: Nat, finalized: BOOLEAN]
NotPublishing == [id |-> 0, build |-> NoBuild, written |-> FALSE]
Publication == [id: Nat, build: BuildOrNone, written: BOOLEAN]
Publishes(o) == publishing[o].build # NoBuild

\* The root of an owner was read by a collection since it was written, or was
\* written with or without a reservation.
Freshness == {"read", "reserved", "unreserved"}
\* No completed collection since epoch "since" found a root; a day passed.
Unrooted == [since: Nat, aged: BOOLEAN]
NotUnrooted == [since |-> 0, aged |-> FALSE]

NoCollection ==
    [phase |-> "idle", unread |-> {}, graph |-> {}, rooted |-> {}, prepared |-> {}, protected |-> {},
     records |-> [b \in Builds |-> NoRecord], seen |-> {}, todo |-> {},
     removing |-> NoBuild, clean |-> TRUE]
Phases == {"idle", "snapshot", "reporting", "prepared", "committing", "scanning",
           "recovering", "sweeping", "content"}
Collection ==
    [phase: Phases, unread: SUBSET Owners, graph: SUBSET Builds, rooted: SUBSET Builds,
     prepared: SUBSET Builds, protected: SUBSET Builds, records: [Builds -> GcRecord], seen: SUBSET Builds,
     todo: SUBSET Builds, removing: BuildOrNone, clean: BOOLEAN]

RetentionInit ==
    /\ stored = {} /\ trash = [b \in Builds |-> 0]
    /\ gcState = [b \in Builds |-> NoRecord]
    /\ epoch = 0 /\ reservations = {}
    /\ roots = [o \in Owners |-> NoBuild] /\ mirror = roots
    /\ rows = [o \in Entities |-> NoBuild] /\ cached = rows
    /\ promoting = {} /\ hydrating = {} /\ publishing = [o \in Owners |-> NotPublishing]
    /\ gc = NoCollection
    /\ fresh = [o \in Owners |-> "read"] /\ unrooted = [b \in Builds |-> NotUnrooted]
    /\ reserved = 0 /\ failures = 0 /\ crashes = 0 /\ trashFailures = 0

-----------------------------------------------------------------------------
(* The build store *)

\* putStored: the finished directory is renamed into place...
Promote(b) ==
    /\ b \notin stored
    /\ stored' = stored \cup {b} /\ promoting' = promoting \cup {b}
    /\ UNCHANGED <<trash, gcState, hydrating, owners, journal, gc, budgets, history>>

\* ...and, once it was read back, any record of an earlier life is dropped.
\* The put fails if the directory is gone again.
FinishPut(b) ==
    /\ b \in promoting
    /\ promoting' = promoting \ {b}
    /\ gcState' = IF b \in stored THEN [gcState EXCEPT ![b] = NoRecord] ELSE gcState
    /\ UNCHANGED <<stored, trash, hydrating, owners, journal, gc, budgets, history>>

\* hydrateSharedBuild: a build that is missing and not retired is looked for in a
\* shared cache...
Hydrate(b) ==
    /\ b \notin stored \cup hydrating /\ ~Retired(gcState[b])
    /\ hydrating' = hydrating \cup {b}
    /\ UNCHANGED <<stored, trash, gcState, promoting, owners, journal, gc, budgets, history>>

\* ...and renamed into place, unless it is there by now or the cache misses.
FinishHydrate(b) ==
    /\ b \in hydrating
    /\ hydrating' = hydrating \ {b}
    /\ stored' \in {stored, stored \cup {b}}
    /\ UNCHANGED <<trash, gcState, promoting, owners, journal, gc, budgets, history>>

\* A day goes by.  Publications, puts and collections are assumed to take less
\* than the grace period, so the clock only moves while none is under way.
DayPasses ==
    /\ gc.phase = "idle" /\ promoting = {} /\ hydrating = {} /\ \A o \in Owners : ~Publishes(o)
    /\ gcState' = [b \in Builds |-> [gcState[b] EXCEPT !.aged = Live(gcState[b])]]
    /\ unrooted' = [b \in Builds |-> [unrooted[b] EXCEPT !.aged = unrooted[b].since # 0]]
    /\ UNCHANGED <<stored, trash, promoting, hydrating, owners, journal, gc, budgets, fresh>>

-----------------------------------------------------------------------------
(* Publication: reserve, write the owner, finalize *)

NewReservation(o, b, finalized) ==
    [id |-> reserved + 1, owner |-> o, build |-> b, epoch |-> epoch, finalized |-> finalized]

\* reserve() resolves the artifact under the transaction that inserts the stamp;
\* a build whose put has not finished is not yet admitted.
MayReserve(b) == b \in stored \ promoting /\ reserved < MaxReservations

\* An entity is to name another build than its cached record does: reserve.
Reserve(o, b) ==
    /\ o \in Entities /\ ~Publishes(o) /\ MayReserve(b) /\ cached[o] # b
    /\ reservations' = reservations \cup {NewReservation(o, b, FALSE)}
    /\ publishing' = [publishing EXCEPT ![o] = [id |-> reserved + 1, build |-> b, written |-> FALSE]]
    /\ reserved' = reserved + 1
    /\ UNCHANGED <<builds, epoch, roots, rows, mirror, cached, gc, failures, crashes, trashFailures, history>>

\* The cached record, be it of a retired entity, already names the build: the
\* owner is written without a reservation.
Republish(o, b) ==
    /\ o \in Entities /\ ~Publishes(o) /\ b \in stored \ promoting /\ cached[o] = b
    /\ publishing' = [publishing EXCEPT ![o] = [id |-> 0, build |-> b, written |-> FALSE]]
    /\ UNCHANGED <<builds, roots, rows, mirror, cached, journal, gc, budgets, history>>

\* Owner o comes to name build b, or goes on naming it.
WrittenAs(how, o, b) == IF roots[o] = b THEN fresh ELSE [fresh EXCEPT ![o] = how]

\* The entity's Durable Object commits; the host has no answer yet.  A retired
\* entity comes back under the build of its row only.
OwnerWrite(o) ==
    /\ Publishes(o) /\ ~publishing[o].written
    /\ roots[o] # NoBuild \/ rows[o] \in {NoBuild, publishing[o].build}
    /\ roots' = [roots EXCEPT ![o] = publishing[o].build]
    /\ rows' = [rows EXCEPT ![o] = publishing[o].build]
    /\ publishing' = [publishing EXCEPT ![o].written = TRUE]
    /\ fresh' = WrittenAs(IF publishing[o].id = 0 THEN "unreserved" ELSE "reserved", o, publishing[o].build)
    /\ UNCHANGED <<builds, journal, mirror, cached, gc, budgets, unrooted>>

FinalizedIn(rs, id) == {IF r.id = id THEN [r EXCEPT !.finalized = TRUE] ELSE r : r \in rs}

\* The answer: the record is cached, then the reservation is finalized, or the
\* publication throws because the reservation is gone.
Finalize(o) ==
    /\ Publishes(o) /\ publishing[o].written
    /\ mirror' = [mirror EXCEPT ![o] = roots[o]] /\ cached' = [cached EXCEPT ![o] = rows[o]]
    /\ reservations' = FinalizedIn(reservations, publishing[o].id)
    /\ publishing' = [publishing EXCEPT ![o] = NotPublishing]
    /\ UNCHANGED <<builds, epoch, roots, rows, gc, budgets, history>>

\* The call fails, before or after it committed, or is refused: the cached record
\* is invalidated and the reservation stays, ambiguous.
OwnerWriteFails(o) ==
    /\ Publishes(o) /\ MayFail
    /\ mirror' = [mirror EXCEPT ![o] = NoBuild] /\ cached' = [cached EXCEPT ![o] = NoBuild]
    /\ publishing' = [publishing EXCEPT ![o] = NotPublishing]
    /\ failures' = failures + 1
    /\ UNCHANGED <<builds, journal, roots, rows, gc, reserved, crashes, trashFailures, history>>

\* Runtime images: the three steps in one synchronous stretch.
Publish(o, b) ==
    /\ o \notin Entities /\ MayReserve(b)
    /\ reservations' = reservations \cup {NewReservation(o, b, TRUE)}
    /\ roots' = [roots EXCEPT ![o] = b] /\ mirror' = [mirror EXCEPT ![o] = b]
    /\ fresh' = WrittenAs("reserved", o, b)
    /\ reserved' = reserved + 1
    /\ UNCHANGED <<builds, epoch, rows, publishing, cached, gc, failures, crashes, trashFailures, unrooted>>

\* The owner record goes away; an entity's row is kept, retired, and cached.
Retire(o) ==
    /\ roots[o] # NoBuild /\ ~publishing[o].written
    /\ roots' = [roots EXCEPT ![o] = NoBuild] /\ mirror' = [mirror EXCEPT ![o] = NoBuild]
    /\ cached' = IF o \in Entities THEN [cached EXCEPT ![o] = rows[o]] ELSE cached
    /\ fresh' = [fresh EXCEPT ![o] = "read"]
    /\ UNCHANGED <<builds, rows, publishing, journal, gc, budgets, unrooted>>

\* Another call about an entity fails: its cached record is invalidated, its row
\* keeps its build.
EntityCallFails(o) ==
    /\ o \in Entities /\ ~Publishes(o) /\ cached[o] # NoBuild /\ MayFail
    /\ mirror' = [mirror EXCEPT ![o] = NoBuild] /\ cached' = [cached EXCEPT ![o] = NoBuild]
    /\ failures' = failures + 1
    /\ UNCHANGED <<builds, roots, rows, publishing, journal, gc, reserved, crashes, trashFailures, history>>

\* resolveInvocationRecord: a caller needs the entity and reads its row.
ReadEntity(o) ==
    /\ o \in Entities /\ cached[o] # rows[o] /\ ~publishing[o].written
    /\ mirror' = [mirror EXCEPT ![o] = roots[o]] /\ cached' = [cached EXCEPT ![o] = rows[o]]
    /\ UNCHANGED <<builds, roots, rows, publishing, journal, gc, budgets, history>>

-----------------------------------------------------------------------------
(* The collector *)

\* Faults: the epoch or the status alone decides.
ProtectsByEpoch(r) == r.epoch >= epoch
ProtectsWhileReserved(r) == ~r.finalized
\* protectedBuildKeys: reservations that are not finalized, or of this epoch.
ReservationProtects(r) == ~r.finalized \/ r.epoch >= epoch
ProtectedBuildKeys == {r.build : r \in {s \in reservations : ReservationProtects(s)}}

\* prepareGc first takes the build keys of the current unit graph: they keep
\* their builds but, unlike owner records, need not be built.
BeginEpoch ==
    /\ gc.phase = "idle" /\ epoch < MaxEpoch
    /\ epoch' = epoch + 1
    /\ \E keys \in SUBSET Builds :
          gc' = [NoCollection EXCEPT !.phase = "snapshot", !.unread = Owners, !.graph = keys]
    /\ UNCHANGED <<builds, owners, reservations, budgets, history>>

Shown(o) == {mirror[o]} \ {NoBuild}

\* The root provider of owner o answers.
SnapshotRoots(o) ==
    /\ gc.phase = "snapshot" /\ o \in gc.unread
    /\ gc' = [gc EXCEPT !.unread = @ \ {o}, !.rooted = @ \cup Shown(o)]
    /\ fresh' = IF mirror[o] = roots[o] THEN [fresh EXCEPT ![o] = "read"] ELSE fresh
    /\ UNCHANGED <<builds, owners, journal, budgets, unrooted>>

\* Both passes of collect() first check that every rooted build is stored, and
\* read the state file; an unresolved root ends the collection.
LoadState(from, to) ==
    /\ gc.phase = from
    /\ gc' = IF gc.rooted \subseteq stored
             THEN [gc EXCEPT !.phase = to, !.records = gcState]
             ELSE NoCollection
    /\ UNCHANGED <<builds, owners, journal, budgets, history>>
ReportLoads == gc.unread = {} /\ LoadState("snapshot", "reporting")
CommitLoads == LoadState("committing", "scanning")

\* retainedSourceRootsForEpoch
RetainedBy(records) ==
    {b \in Builds : Live(records[b]) \/ (Retired(records[b]) /\ epoch <= records[b].deletedAt)}

\* The report: content preflight retains the sources of roots, of quarantined
\* builds and of stored builds with no record yet.
ReportScans ==
    /\ gc.phase = "reporting"
    /\ gc' = [gc EXCEPT !.phase = "prepared", !.seen = stored,
                 !.prepared = gc.rooted \cup (gc.graph \cap stored) \cup RetainedBy(gc.records)
                                \cup {b \in stored : gc.records[b] = NoRecord}]
    /\ UNCHANGED <<builds, owners, journal, budgets, history>>

BeginCommit ==
    /\ gc.phase = "prepared"
    /\ gc' = [gc EXCEPT !.phase = "committing", !.protected = ProtectedBuildKeys]
    /\ UNCHANGED <<builds, owners, journal, budgets, history>>

\* Fault: only what the journal names is protected.
KeptByPublication == gc.graph \cup gc.protected
Kept == gc.rooted \cup gc.graph \cup gc.protected

\* A quarantined build that is not stored must be exactly one trash directory;
\* otherwise nothing is mutated and the collection fails.
CommitScans ==
    /\ gc.phase = "scanning"
    /\ LET vanished == {b \in Builds : Live(gc.records[b]) /\ b \notin stored}
       IN  gc' = IF \A b \in vanished : trash[b] = 1
                 THEN [gc EXCEPT !.phase = "recovering", !.seen = stored, !.todo = vanished]
                 ELSE NoCollection
    /\ UNCHANGED <<builds, owners, journal, budgets, history>>

\* A crash came between rename and save: a root takes the build back, unless the
\* directory exists again...
Restore(b) ==
    /\ gc.phase = "recovering" /\ gc.removing = NoBuild /\ b \in gc.todo /\ b \in Kept
    /\ IF b \in stored
       THEN /\ gc' = [gc EXCEPT !.todo = @ \ {b}, !.clean = FALSE]
            /\ UNCHANGED <<stored, trash>>
       ELSE /\ gc' = [gc EXCEPT !.todo = @ \ {b}, !.seen = @ \cup {b}, !.records[b] = NoRecord]
            /\ stored' = stored \cup {b} /\ trash' = [trash EXCEPT ![b] = @ - 1]
    /\ UNCHANGED <<gcState, promoting, hydrating, owners, journal, budgets, history>>

\* Fault: the deletion is not recorded.
NotRecording(b) == gc.records
Retiring(b) == [gc.records EXCEPT ![b] = Tombstone(epoch)]

\* ...or the deletion is recorded now.
FinishDeletion(b) ==
    /\ gc.phase = "recovering" /\ gc.removing = NoBuild /\ b \in gc.todo \ Kept
    /\ gcState' = Retiring(b)
    /\ gc' = [gc EXCEPT !.todo = @ \ {b}, !.records = Retiring(b), !.removing = b]
    /\ unrooted' = [unrooted EXCEPT ![b] = NotUnrooted]
    /\ UNCHANGED <<stored, trash, promoting, hydrating, owners, journal, budgets, fresh>>

\* rm of a trash directory, awaited by the collector.
RemoveTrash ==
    /\ gc.removing # NoBuild
    /\ trash' = [trash EXCEPT ![gc.removing] = @ - 1]
    /\ gc' = [gc EXCEPT !.removing = NoBuild]
    /\ UNCHANGED <<stored, gcState, promoting, hydrating, owners, journal, budgets, history>>

RemoveTrashFails ==
    /\ gc.removing # NoBuild /\ MayFail
    /\ gc' = [gc EXCEPT !.removing = NoBuild, !.clean = FALSE]
    /\ trashFailures' = trashFailures + 1
    /\ UNCHANGED <<builds, owners, journal, reserved, failures, crashes, history>>

\* What the sweep may delete: unrooted in an earlier epoch, and for a day.
Eligible(b) ==
    LET record == gc.records[b]
    IN  b \in gc.seen \ Kept /\ Live(record) /\ epoch > record.since /\ record.aged

\* Fault: a root that reappeared rescues nothing.
MarkedOnly(b) ==
    IF b \in gc.seen \ Kept /\ gc.records[b] = NoRecord THEN Quarantined(epoch) ELSE gc.records[b]
\* A root that reappeared rescues its build; what nothing roots is quarantined.
Marked(b) ==
    IF b \in Kept /\ Live(gc.records[b]) THEN NoRecord
    ELSE IF b \in gc.seen \ Kept /\ gc.records[b] = NoRecord THEN Quarantined(epoch)
    ELSE gc.records[b]

BeginSweep ==
    /\ gc.phase = "recovering" /\ gc.todo = {} /\ gc.removing = NoBuild
    /\ gc' = [gc EXCEPT !.phase = "sweeping",
                 !.todo = {b \in Builds : Eligible(b)},
                 !.records = [b \in Builds |-> Marked(b)]]
    /\ unrooted' = [b \in Builds |->
           IF b \in gc.seen \ Kept /\ unrooted[b] = NotUnrooted
           THEN [since |-> epoch, aged |-> FALSE] ELSE unrooted[b]]
    /\ UNCHANGED <<builds, owners, journal, budgets, fresh>>

\* commitArtifactDeletion: the last check, under the journal's lock.
MayDelete(b) == \A r \in reservations : r.build = b => ~ReservationProtects(r)

RetainPublished(b) ==
    /\ gc.phase = "sweeping" /\ gc.removing = NoBuild /\ b \in gc.todo /\ ~MayDelete(b)
    /\ gc' = [gc EXCEPT !.todo = @ \ {b}]
    /\ UNCHANGED <<builds, owners, journal, budgets, history>>

\* The rename under the lock, and the tombstone, with no await between them.
Sweep(b) ==
    /\ gc.phase = "sweeping" /\ gc.removing = NoBuild /\ b \in gc.todo /\ MayDelete(b)
    /\ stored' = stored \ {b} /\ trash' = [trash EXCEPT ![b] = @ + 1]
    /\ gcState' = Retiring(b)
    /\ gc' = [gc EXCEPT !.todo = @ \ {b}, !.records = Retiring(b), !.removing = b]
    /\ unrooted' = [unrooted EXCEPT ![b] = NotUnrooted]
    /\ UNCHANGED <<promoting, hydrating, owners, journal, budgets, fresh>>

\* The collector's records become the state file; content may be withdrawn only
\* if the commit was clean and met no source the preflight had not seen.
FinishSweep ==
    /\ gc.phase = "sweeping" /\ gc.todo = {} /\ gc.removing = NoBuild
    /\ gcState' = gc.records
    /\ gc' = IF gc.clean /\ gc.rooted \cup RetainedBy(gc.records) \subseteq gc.prepared
             THEN [gc EXCEPT !.phase = "content"] ELSE NoCollection
    /\ unrooted' = [b \in Builds |-> IF b \in Kept THEN NotUnrooted ELSE unrooted[b]]
    /\ UNCHANGED <<stored, trash, promoting, hydrating, owners, journal, budgets, fresh>>

\* completeEpoch: an older reservation goes once it is finalized, or rooted.
Settled(r) == r.epoch < epoch /\ (r.finalized \/ r.build \in gc.rooted \cup gc.graph)

CompleteEpoch ==
    /\ gc.phase = "content"
    /\ reservations' = {r \in reservations : ~Settled(r)}
    /\ gc' = NoCollection
    /\ UNCHANGED <<builds, owners, epoch, budgets, history>>

\* An awaited step of the epoch throws: a provider, a scan, the content store.
CollectionFails ==
    /\ gc.phase \in {"snapshot", "reporting", "prepared", "committing", "scanning", "content"}
    /\ gc' = NoCollection
    /\ UNCHANGED <<builds, owners, journal, budgets, history>>

-----------------------------------------------------------------------------
(* Restart of the host *)

\* Memory is gone.  The entity cache is hydrated from the rows that are not
\* retired; then old retired rows may be deleted.
ProcessLost ==
    /\ promoting' = {} /\ hydrating' = {} /\ publishing' = [o \in Owners |-> NotPublishing]
    /\ gc' = NoCollection
    /\ mirror' = roots' /\ cached' = [o \in Entities |-> roots'[o]]
    /\ \E deleted \in SUBSET {o \in Entities : roots[o] = NoBuild} :
          rows' = [o \in Entities |-> IF o \in deleted THEN NoBuild ELSE rows[o]]
    /\ MayFail /\ crashes' = crashes + 1
    /\ UNCHANGED <<failures, trashFailures, unrooted>>

Restart ==
    /\ UNCHANGED <<stored, trash, gcState, roots, journal, reserved, fresh>>
    /\ ProcessLost

\* The host dies inside a synchronous stretch: between rename and tombstone...
DieSweeping(b) ==
    /\ gc.phase = "sweeping" /\ gc.removing = NoBuild /\ b \in gc.todo /\ MayDelete(b)
    /\ stored' = stored \ {b} /\ trash' = [trash EXCEPT ![b] = @ + 1]
    /\ UNCHANGED <<gcState, roots, journal, reserved, fresh>>
    /\ ProcessLost

\* ...or between reservation, owner write and finalization of a runtime image.
DiePublishing(o, b) ==
    /\ o \notin Entities /\ MayReserve(b)
    /\ reservations' = reservations \cup {NewReservation(o, b, FALSE)}
    /\ reserved' = reserved + 1
    /\ \/ roots' = roots /\ fresh' = fresh
       \/ roots' = [roots EXCEPT ![o] = b] /\ fresh' = WrittenAs("reserved", o, b)
    /\ ProcessLost
    /\ UNCHANGED <<stored, trash, gcState, epoch>>

-----------------------------------------------------------------------------
StoreStep(b) == Promote(b) \/ FinishPut(b) \/ Hydrate(b) \/ FinishHydrate(b)
OwnerStep(o) ==
    \/ OwnerWrite(o) \/ Finalize(o) \/ OwnerWriteFails(o) \/ Retire(o)
    \/ EntityCallFails(o) \/ ReadEntity(o) \/ SnapshotRoots(o)
    \/ \E b \in Builds : Reserve(o, b) \/ Republish(o, b) \/ Publish(o, b) \/ DiePublishing(o, b)
CollectorStep ==
    \/ BeginEpoch \/ ReportLoads \/ ReportScans \/ BeginCommit \/ CommitLoads \/ CommitScans
    \/ RemoveTrash \/ RemoveTrashFails \/ BeginSweep \/ FinishSweep \/ CompleteEpoch
    \/ CollectionFails
    \/ \E b \in Builds :
          Restore(b) \/ FinishDeletion(b) \/ RetainPublished(b) \/ Sweep(b) \/ DieSweeping(b)

RetentionNext ==
    \/ \E b \in Builds : StoreStep(b)
    \/ \E o \in Owners : OwnerStep(o)
    \/ CollectorStep
    \/ DayPasses
    \/ Restart

RetentionSpec == RetentionInit /\ [][RetentionNext]_vars

-----------------------------------------------------------------------------
(* Properties *)

\* Every variable keeps its shape.
RetentionTypeOK ==
    /\ stored \in SUBSET Builds /\ trash \in [Builds -> Nat]
    /\ gcState \in [Builds -> GcRecord]
    /\ epoch \in Nat /\ reservations \in SUBSET Reservation
    /\ roots \in [Owners -> BuildOrNone] /\ mirror \in [Owners -> BuildOrNone]
    /\ rows \in [Entities -> BuildOrNone] /\ cached \in [Entities -> BuildOrNone]
    /\ promoting \in SUBSET Builds /\ hydrating \in SUBSET Builds
    /\ publishing \in [Owners -> Publication]
    /\ gc \in Collection
    /\ fresh \in [Owners -> Freshness] /\ unrooted \in [Builds -> Unrooted]
    /\ {reserved, failures, crashes, trashFailures} \subseteq Nat

\* The promise of the whole component: the build an owner record names is never
\* deleted, whatever publications, retirements, collections and crashes do.  An
\* entity's write may fall between two snapshots and its finalization before the
\* second: then nothing protects its build.
RootedBuildIsStored == \A o \in Owners : roots[o] # NoBuild => roots[o] \in stored

\* Owners that publish in one synchronous stretch are promised it, whatever the
\* entities beside them do.
SynchronousRootIsStored == \A o \in Owners \ Entities : roots[o] # NoBuild => roots[o] \in stored

\* A reservation nobody finalized - in flight, or left by a crash - keeps its
\* artifact: commitArtifactDeletion refuses it in every epoch.
ReservedBuildIsStored == \A r \in reservations : ~r.finalized => r.build \in stored

\* A quarantined build is never simply gone: it is stored, or a trash directory
\* witnesses the deletion that a crash kept from being recorded.
QuarantineIsBacked == \A b \in Builds : Live(gcState[b]) => b \in stored \/ trash[b] > 0

\* A build is never deleted on the word of one snapshot: a collection of an
\* earlier epoch found it without a root, a day went by, no collection that was
\* completed since found a root of it, and nothing this one read roots it -
\* although puts and publications write the same state while it runs.
DeletedAfterGrace ==
    [][\A b \in stored \ stored' :
          /\ unrooted[b].since \in 1 .. epoch - 1 /\ unrooted[b].aged
          /\ b \notin gc.rooted]_vars

\* A crash between rename and tombstone can be repaired: exactly one owned trash
\* directory names the vanished build.  A directory that could not be removed,
\* or one more crash, may leave two: then every later collection fails.
CrashIsRepairable ==
    trashFailures = 0 /\ crashes <= 1 =>
        \A b \in Builds : Live(gcState[b]) /\ b \notin stored => trash[b] = 1

\* The journal still has a reservation by which the owner came to its root.
RootIsReserved(o) == \E r \in reservations : r.owner = o /\ r.build = roots[o]

\* As long as no call about an entity fails, a root that any collection has read
\* is safe for as long as its owner names it; one that none has read is swept
\* only if it was written without a reservation, or if its publication is still
\* in the journal, finalized and stamped with an earlier epoch.
ReadRootIsNotSwept ==
    [][failures = 0 => \A o \in Owners : roots[o] \in stored \ stored' =>
          \/ fresh[o] = "unreserved"
          \/ fresh[o] = "reserved" /\ RootIsReserved(o)]_vars

=============================================================================
