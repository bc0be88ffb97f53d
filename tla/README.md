# Verification of sema-engine

A TLA+ model of `sema-engine`, the embedded store under `src/src/`: typed
record families over one `redb` file (through the `sema` kernel), a
digest-chained versioned commit log, checkpoints that fold it, compaction that
trims it, an outbox for a mirror, and a staging slot for operation groups that
await an outside grant.  The model is checked by TLC on small instances and its
central safety properties are proved with TLAPS for every value of the
constants.

## 1. The system

One process opens one store file and holds one `Engine`.  Durable state changes
only in storage transactions, which are atomic and isolated; everything else
(`catalog`, `subscriptions`, the engaged staging session, the locks) is memory
and is lost in a crash.  `Engine` is `Sync`: threads call it through `&Engine`,
and `write_lock` serializes the read-compute-write part of each write.  (The
documentation is of two minds about that sharing: see `SharedEngine` in
section 3.)

| Component | State | Operations | Interacts through |
|---|---|---|---|
| Write path (`engine.rs`, `atomic.rs`, `mutation.rs`) | family tables, `latest_commit_sequence`, `latest_snapshot`, `write_lock` | `assert_keyed`, `mutate_keyed`, `retract`, `commit`, `commit_atomic` | appends to the logs and the outbox in its own transaction; runs maintenance after releasing the lock; delivers deltas while holding it |
| Commit logs (`commit_log.rs`, `log.rs`, `versioning.rs`) | `COMMIT_LOG`, `VERSIONED_COMMIT_LOG`, `CHAIN_HEAD`, the two row counts | append, range reads, `compact_through` | called by every writer, checkpoint and compaction |
| Checkpoints (`checkpoint.rs`, `fold.rs`) | `CHECKPOINTS`, `CHECKPOINT_SEGMENTS`, `LATEST_CHECKPOINT_KEY` | `checkpoint`, `latest_checkpoint` | folds the log over the previous checkpoint |
| History maintenance (`engine.rs`) | none of its own | `compact_configured_versioned_history`, `compact_versioned_history` | checkpoint, then logs, outbox and checkpoints |
| Mirror outbox (`outbox.rs`) | `OUTBOX`, `MIRROR_CURSOR` | `acknowledge_mirror`, `unshipped_outbox`, `durability_of`, `store_durability` | written by the write path, trimmed by compaction |
| Staged groups (`staging.rs`) | `STAGING_SLOT`, the engaged session | `begin_/park_/abandon_/materialize_/discard_staged_group` | an engine-wide mode of every write |
| Compaction intent (`compaction.rs`) | `COMPACTION_INTENT` | `begin_compaction`, `park_compaction`, `resume_compaction`, `open_recovering` | staging slot, checkpoint, maintenance |
| Subscriptions (`subscribe.rs`) | registry, failure log, registration rows | `subscribe`, `deliver_delta` | called by writers under the lock |
| Identified records (`record.rs`, `table.rs`) | `IDENTIFIED_COUNTERS` | `*_identified` | write path without maintenance and deltas |
| Import (`import.rs`) | none of its own | `begin_import`, `apply_import` | writes every table of a fresh store |
| Family catalog (`catalog.rs`, `table.rs`) | `CATALOG` and its copy in memory | `register_table`, evolution | the write path reads it for each entry |
| Rebuild (`fold.rs`) | none | `rebuild_from_log` | rewrites the family tables from checkpoint and log |
| Layout and open (`engine.rs`) | layout slot, durable policy | `open`, `rebuild_derived_slots` | once, before any thread exists |
| Queries (`query.rs`) | none | `match_records`, `match_identified`, `validate` | one read transaction |

What is hard here: a write ends with maintenance that runs *outside* the lock
and reads storage in several separate transactions; two threads in maintenance
therefore work from checkpoints and acknowledgements that may already be old;
mirror acknowledgements land at any moment and in any order; a crash may fall
between a checkpoint and the compaction it was for; the persisted counts and
the cached chain head are never recomputed.  Over the years the same store is
opened by releases that declare other shapes of its families, by engines of
later storage layouts, and after a loss it is a fresh file that an import fills:
what memory, catalog, rows, counters and log say of each other has to survive
all of that, and a failure in the middle of it.  `PROJECT.json` lists each
hazard at its line.

What makes each component correct, in a sentence: the write path, that commits
form one serial history; the logs, that what is retained is a gapless suffix of
one digest chain and its counts are exact; checkpoints, that each is the view of
a prefix of that history; maintenance, that what it removes is covered by what
it keeps, and confirmed where a mirror is behind it; the outbox, that the cursor
only moves forward on the chain; staging, that a group materializes whole or
leaves no trace; the intent, that every phase survives a crash; subscriptions,
that snapshot and deltas have no gap; import, that the restored store continues
the history it was restored from; the catalog, that memory, disk and rows agree
on shapes; rebuild, that it reproduces what is there; open, that it serves the
store whole or leaves it as it was.

## 2. The modules

| Module | Models | Extends |
|---|---|---|
| `VersionedLog` | the data: operations, rows, entries and their digests, the fold, segments; pure operators | |
| `CommitStore` | the abstract specification: one serial history, its view, the mirror's confirmation | `VersionedLog` |
| `WritePath` | the store and the threads: write path, logs, checkpoints, maintenance, mirror, crashes | `VersionedLog`; instantiates `CommitStore` |
| `MCWritePath` | the small instances of `WritePath` | `WritePath` |
| `GroupStore` | the abstract specification of staged groups: one history, a parked promise, its grant | `VersionedLog` |
| `Staging` | the engaged session, the parked group, identified records, the compaction intent, recovery | `VersionedLog`; instantiates `GroupStore` |
| `MCStaging` | the small instances of `Staging` | `Staging` |
| `Subscriptions` | `subscribe` against the announcement of deltas, inline and detached sinks | `VersionedLog` |
| `MCSubscriptions` | the small instances of `Subscriptions` | `Subscriptions` |
| `FamilyLog` | the log of a store whose families have shapes: identities, the fold over family versions, materialization; pure operators | |
| `RecordStore` | the abstract specification of a store over its lifetimes: records, history, archive | |
| `FamilyStore` | registration, evolution, keyed and identified writes, checkpoint, maintenance, rebuild, export, loss, import, over releases and processes | `FamilyLog`; instantiates `RecordStore` |
| `MCFamilyStore` | the small instances of `FamilyStore` | `FamilyStore` |
| `StoreOpen` | `open` and `open_recovering` on stores of every layout | |
| `MCStoreOpen` | the small instance of `StoreOpen` | `StoreOpen` |
| `VersionedLogProofs` | lemmas about the pure operators | `VersionedLog` |
| `WritePathProofs` | type correctness | `WritePath`, `VersionedLogProofs` |
| `WritePathSafety` | the safety theorems and the refinement | `WritePathProofs` |
| `WritePathRecovery` | the theorems about checkpoints and recovery | `WritePathSafety` |
| `StagingProofs` | the safety theorems of staging and the refinement of `GroupStore` | `Staging`, `VersionedLogProofs` |
| `SubscriptionsProofs` | the theorems about what sinks are given | `Subscriptions`, `VersionedLogProofs` |
| `StoreOpenProofs` | the safety theorems of opening | `StoreOpen` |
| `FamilyStoreProofs` | the safety theorems of the family store and the refinement of `RecordStore` | `FamilyStore` |

### VersionedLog

*Digests.*  `EntryDigest` hashes an entry's fields together with its
predecessor's digest.  The model's digest is the value that is hashed: the
sequence of all bodies from genesis up to the entry.  That is exactly a
collision-free hash; two chains share a digest when and only when they share
every entry.

*Payloads and keys* are model values; a key is a family together with a record
key, so a batch may span tables as `commit_atomic`'s does.  The store name and
schema hash of an entry are constant in these runs and left out.

*The fold* is stated as what it computes, the last write at each key, and its
verification of the chain as a predicate (`ChainVerifies`).  *Segments* are
content-addressed in the code; here a segment is its content.  The byte budget
that splits a view into several segments is left out: a view is one segment, or
none when it has no row.

### WritePath

State variables are the tables of the storage file, one each, and the volatile
state of the threads: the lock, `pc`, what a writer has minted (`plan`), and the
locals of a maintenance in progress (`frame`).

A *write* is two steps.  `Prepare` takes the lock, validates the whole list
against the committed rows and mints the entry (`next_commit_sequence`,
`next_snapshot`, chain head, counts); `Persist` is its one storage transaction
and the release of the lock.  Were the lock absent, another thread's step could
fall between the two, and that is what the mutant of `Prepare` shows.  A list
that fails validation is `Refuse`; a transaction that fails is `PersistFails`.
The single-record calls are the lists of one operation (`AssertKeyed`,
`MutateKeyed`, `RetractKey`).

*Maintenance* reads without the lock, so every read is a step: `ReadBudget`,
`ReadMirrorHead`, `ValidateAcknowledgement`, `Recheck`, `ReadCurrent`, the three
reads of `latest_checkpoint` (`ReadPointer`, `ReadMetadata`, `ReadSegments`),
`RequireAcknowledged`.  Wherever such a step reads storage or commits a
transaction, storage may fail instead (`MaintenanceFails`): nothing is written,
and the error is the answer to the call, of a write that is already durable too
(`engine.rs:1126`).  `TakeCheckpoint` and `Compact` take the lock, read and
commit; nothing they read can change while they hold it and a crash before their
transaction leaves nothing, so each is one step.  Threads also call maintenance,
`checkpoint` and `compact_versioned_history` by themselves (`CallMaintain`,
`CallCheckpoint`, `CallCompact`); a caller's own retention budget is the
policy's.

The *mirror* may report any head at any time: of an entry it was sent, of a
sequence this store never had, of another history (`ReportedHeads`).  A
*crash* keeps the durable variables and resets the others.

The topology of the recorded policy is a variable that no step changes, so that
one run covers the stores of both.

`LATEST_CHECKPOINT_KEY` absent is 0; the absent cursor is sequence 0 with the
empty digest, which is what every comparison in the code makes of it.

### CommitStore

Three variables: `history`, `rows`, `confirmed`.  A commit is admitted against
the rows and takes effect whole; a confirmation moves forward within the
history.  There are no threads, checkpoints, compactions, failures or crashes:
under the mapping (`history <- chainHead`, `confirmed <- cursor.sequence`)
those are stutters.

### Staging

The durable variables are the tables a group touches, with `slot`
(`STAGING_SLOT`) and `intent` (`COMPACTION_INTENT`); the volatile ones are the
engaged `session` and where the owner's call is (`step`, `after`).

The engine's owner makes one call at a time (the comment on `Engine::staging`
says so, and `WritePath` has the threads), so a call is one step up to its
storage transaction.  Each further transaction is a step of its own: the
maintenance that ends a write is `Maintain` and `Trim`, and `resume_compaction`
is `ApplyPlan`, `CheckpointPlan`, `PublishCheckpoint`, `AdvanceFloor` and
`Settle`.  A crash may come between any two.  A call that is refused and changes
nothing is a stutter.

| Code | Model |
|---|---|
| `StagingSession`, `StagingBase` | `session`: base, buffered entries, overlay, pending identifier, pre-images |
| `assert`, `mutate`, `retract`, `commit` | `Write` with no session, `Buffer` with one |
| `commit_atomic` | `WriteAtomic`: it does not look at the session |
| `*_identified` | `WriteAssertIdentified`, ..., `BufferAssertIdentified`, ... |
| `begin_`, `abandon_`, `park_`, `materialize_`, `discard_staged_group` | `BeginStagedGroup`, `Abandon`, `ParkStagedGroup`, `MaterializeStagedGroup`, `DiscardStagedGroup` |
| `begin_compaction`, `park_compaction` | `BeginCompaction`, `ParkCompaction` |
| `open`, `open_recovering` | `Open`, `OpenRecovering` and the steps of the resumption |

Abstractions.  The log is not kept entry by entry: `WritePath` proves it a
gapless suffix of the chain its head commits to, so the head and the `floor`
below which compaction removed it say all there is.  The empty group stands for
the unoccupied slot; the code never parks one.  A transaction that fails leaves
everything as it was, which here is a stutter (`WritePath` has it as a step).
The store starts empty, so a local-checkpoint store has no outbox row of an
earlier mirror.  A directory that fails to announce a delta is a failure of the
call after the group's transaction.

`ResumesFirst` says whether the owner keeps to the rule that a pending
compaction is resumed before any other call; with it the intent always matches
the store, without it a group must still never take effect in part.

`GroupStore` has three variables: the history, its rows and the history a parked
group promises.  Under the mapping `history <- chainHead`,
`parked <- ProspectiveHead(slot)`, everything about sessions, intents,
compactions and crashes is a stutter.

### Subscriptions

Two locks: `lock` is the write lock, held from before the transaction until
every delta is announced; `registryLock` is the registry's mutex, whose guard
lives to the end of `deliver_delta`, that is, through all the sinks of one
delta.  A delta is the position of its operation in the history, which
determines its kind, key and record.  `Announce`, `Skip`, `Call`, `Spawn`,
`Announced` are the loop of `deliver_delta`; an inline sink is called in the
writer's thread, a detached one gets a thread nobody joins (`inflight`), and
each may fail.  `subscribe` is five steps, none under the write lock.  A sink
subscribes once in the life of a process.

### FamilyLog and FamilyStore

`VersionedLog` has one family and one shape; `FamilyLog` is the same log with
family identities (name, schema hash, table).  A record is what it says (`datum`)
and the shape it is written in, so that decoding bytes in the wrong type is a
comparison of shapes.  The fold is the code's: it keys its view by (family,
schema hash, key), remembers the table each version was first declared at, and
`Materialize` clears before it inserts.  A store schema hash is the set of
registered versions.

`FamilyStore` is one store over the lifetimes of its component.  `catalog`,
`rows`, `identifiers`, `log`, `head`, `marker` and `checkpoint` are on disk;
`memory` is `Engine::catalog`, `granted` the tables `register_table` has
returned, `pending` an evolution whose maintenance is under way.

| Code | Model |
|---|---|
| `register_table`, `register_identified_table` | `Register`: `RegisterExisting`, `RegisterRefused`, `RegisterNew` and the outcomes of an evolution |
| `evolve_registered_family`, `persist_family_evolution` | `EvolveEmpty`, `EvolveRows`, `EvolveUndecodable`, `EvolveFails`; the maintenance at the end is `Maintain`, and `Finish` puts the catalog in memory back when it fails |
| `*_keyed`, `retract`, `*_identified` | `AssertKeyed`, ..., `RetractIdentified`; the identified ones run no maintenance |
| `checkpoint`, `compact_configured_versioned_history` | `Checkpoint`, `Tick`, `Maintain*`, `Compact` |
| `rebuild_from_log` | `RebuildFromLog` |
| `latest_checkpoint`, `versioned_replay_from_sequence` | `ExportCheckpoint`, `ExportSuffix` |
| `begin_import`, `ImportSession`, `apply_import` | `Import` |

Around the code there is an environment: a component registers all its families
before it serves; a failed registration may be tried again in the process
(`Retry`) or ends it (`Exit`); a release may be put in or taken back while the
process is down (`Install`); a crash or a storage failure may come at any step;
the disk may be lost once something is exported, and the operator exports the
suffix from the store the checkpoint came from.  The topology is the mirror's,
under which maintenance may be refused at any time: how far the mirror has
confirmed is `WritePath`'s matter, and refusal at any time includes every case a
local store has.  A write whose transaction fails changes nothing and is a
stutter.

`Handed` says which suffixes an operator may hand to an import besides the plain
ones: an empty one (`"empty"`), one that mints identifiers (`"minting"`), one
with families the checkpoint's inventory lacks (`"reshaped"`).  The code treats
each of the three wrongly.  The first two are the run `Restored`; of the third:
the restored catalog is the checkpoint's inventory, so rows of a family evolved
in the suffix are in a shape the catalog does not name, and the component's next
registration fails to decode them (`engine.rs:2032`, against the promise of
`engine.rs:213-217`).

`MaintainRefused` is a mirror that has confirmed nothing, before anything is
written, or less than the checkpoint that maintenance has by then taken
(`engine.rs:1760-1775`).  `Decodes` compares shapes exactly, as the typed
decode error of `table.rs:118-120` does for shapes of different layout; a prior shape whose
bytes also read as the new one, which a retry in the same process would convert
a second time, cannot be expressed.

`RecordStore` has three variables: what the records say, their history, and the
archived history.  A record changes one at a time; an identifier given out once
is not given out again; a restore brings back the archive.  Under the mapping,
evolution is a commit that changes no record, and registration, checkpoint,
compaction, rebuild, crash and release are stutters.

### StoreOpen

What matters of a store here is counted: `top` versioned entries ever, `floor`
of them compacted away, `covered` by the latest checkpoint, `plain` and `late`
commits without a versioned entry, before and after the last one.  The digest of
entry n is n, so the chain head is an entry's number.  `Init` is any store an
engine of layouts 1 to 8 may have left (`LeftBehind`): the slots its layout has,
with a history that is whole or compacted, with or without policy, catalog of an
older kind and pending compaction.

`Begin` is the validation (one step: it only reads, and the file is held
exclusively); then each transaction of the open is a step: `Apply*` the layout
plan, `Bind` the policy, `Recover` the phases of a pending compaction,
`MaintainOpen` the configured maintenance of `open_recovering`.  The phases
Applied and Checkpointed are one here, since nothing commits between them.  A
serving engine commits, with its maintenance (`Tidy`), or parks a compaction.
Layouts below 4 have logs whose keys do not decode, so their open fails at the
first read.  A local store that once had a mirror is not among the stores.

## 3. What is checked

| Run | Instance | Properties |
|---|---|---|
| `OneThread` | 1 thread, local checkpoints or mirror, 2 keys, lists of up to two operations, opens with 2 commits, budget 1, 5 commits, `FairSpec` | `TypeOK`, `RowsAreView`, `Recoverable`, `CursorOnChain`, `DurableWritesFailOutside`, `ImplementsStore`, `HistoryReturnsToBudget` |
| `MirroredConcurrent` | 2 threads, mirror, a row that comes and goes, budget 1, 3 commits | `PlanCurrent`, `LogIntact`, `CountsExact`, `CheckpointsFaithful`, `UnconfirmedShippable` |
| `Groups` | mirror, one keyed row and two identifiers, budget 1, 3 commits, any order of calls | `TypeOK`, `SessionReadsLikeDirectWrites`, `PreImagesTrue`, `IdentifiersMintedOnce`, `UnconfirmedQueued`, `ImplementsGroups` |
| `Compaction` | local checkpoints, lists over two rows, budget 1, 4 commits, resumes first, `FairSpec` | `IntentTracksPlan`, `CountersExact`, `IntentGoesThroughPhases`, `RecoveryServes` |
| `Subscribers` | 2 threads, an inline and a detached sink, 3 commits of up to two operations, `FairSpec` | `TypeOK`, `InlineInOrder`, `NoGapOnceFed`, `AnnouncedToAll`, `WritesReturn` |
| `Families` | two releases, a keyed and an identified family, 1 key, 2 identifiers, 2 data, budget 1, 3 writes, a fault, an installation and a loss, `FairSpec` | `TypeOK`, `CatalogNamesShape`, `RebuildReproduces`, `GrantedMatchesDisk`, `EntriesNameShapes`, `HistoryFolds`, `CountersAhead`, `ImplementsRecords`, `UpgradeCompletes` |
| `Open` | stores of layouts 1 to 8 with up to 3 commits, two policies, budget 1, 4 commits, 2 faults, `FairSpec` | `ServesExactSlots`, `RejectedStoreIntact`, `BoundForGood`, `OwnerServes` |

*Bounds of WritePath.*  `MaxCommits` bounds the commits and is the only cap on
state; it stands in the guard of `Prepare`.  Budget 1 with two commits to open
with and three more lets a store go over budget, checkpoint, compact, go over again and build a checkpoint
on a checkpoint, which is the shortest history in which the root, the
predecessor digest and segment retention matter.  Failures inside maintenance
and crashes are not bounded.  With two threads three commits
put both over budget at once, so they race in every pair of maintenance steps.
Two threads are enough for every race of one actor's unlocked reads
with another's transactions; threads are symmetric, and the symmetry is used
in `MirroredConcurrent`, which has no temporal property.

*Bounds of Staging.*  `MaxCommits` bounds direct and buffered entries alike, so
three commits allow a group of two over a direct write and a write after the
grant, and an abandoned or discarded group frees its numbers to be taken again.
Two identifiers are what it takes to mint one directly and one in a group.
Budget 1 puts compactions among the groups.  Four commits in `Compaction` let a
plan of two entries follow a store already over its budget.

*Bounds of Subscriptions.*  Two writers and a list of two operations give three
deltas to order and a subscriber that joins between the two of one commit; one
sink of each mode is one that can fail before the other.  `MaxSubscriptions`
bounds the durable identifiers across restarts.

*Bounds of FamilyStore.*  `MaxCommits` bounds the writes over all lifetimes; an
evolution's entry is not counted, a release change is.  Three writes with budget
1 give a checkpoint, a suffix past it that can be exported and a write after the
restore or after the evolution; one installation is an upgrade; one fault falls
on any step, so each transaction is once the one that fails.  One key shows the
clearing and the keeping of the same key; two identifiers are one given out
before and one after a restore.

*Bounds of StoreOpen.*  Two entries are the shortest log whose prefix can be
compacted and be over budget; one plain commit makes the counts differ.  Two
faults let one open fail and its successor fail elsewhere.

Deadlock is checked in every run: an owner or a thread may always call.

*Fairness.*  In `WritePath`, a begun call proceeds (an operating-system thread is
scheduled), the component's maintenance tick comes round (the comment on
`compact_configured_versioned_history` names it), and the mirror keeps reporting
the newest head it was sent.  The last two are strong fairness because crashes
and calls in progress disable them for a while.  `HistoryReturnsToBudget` is
conditional on commits, crashes and storage failures inside maintenance ceasing;
without that, each commit may outrun the mirror, and each maintenance may be cut
off.

In `Staging`, a supervisor reopens a closed store (weak fairness of
`OpenRecovering`) and each step of the resumption is strongly fair on its own: a
crash may cut off a step any number of times, but not for ever the same one.
One weak fairness over all the steps would say nothing, since a crash at each
attempt disables them.  In `Subscriptions`, a writer's thread is scheduled and
inline sinks return; nothing is assumed of detached ones.

In `FamilyStore`, the operating system starts the component again, its start-up
code opens the store and registers every family, and a call goes on to its end
(weak fairness); a component whose registration fails does not retry in the same
process for ever (strong fairness of `Exit`): the catalog in memory may be one
no retry can get past.  In `StoreOpen`, an open goes on, an open that failed
returns, and the owner opens the store again and again among others who may
(strong fairness of `OpenRecovering(Owner)`).  Faults are bounded in both.

*Runs that disagree with the documentation* (`PROJECT.json`, findings):

| Run | Statement | What the run shows |
|---|---|---|
| `SharedEngine` | an `Arc<Engine>` is safely shared across threads | thread 1 loads a checkpoint; thread 2 commits, checkpoints and compacts; thread 1 takes the lock, deletes the newer checkpoint and leaves `LATEST_CHECKPOINT_KEY` dangling, the history gone |
| `MirroredRecovery` | a compaction survives restart through checkpoint and floor advancement | the last phase needs a mirror acknowledgement, which only an open store can take, and an open store it is not |
| `FailedMaintenance` | "Failed commits do not advance `CommitSequence`" (`ARCHITECTURE.md:249`) | one thread, a local store: a write commits, the maintenance behind it meets a failure of storage, and that error is the write's answer; a caller that retries meets its own row |
| `RejectedOpen` | "A rejecting open never writes to the store it rejects" (`ARCHITECTURE.md:118-121`, `engine.rs:139-140`) | a store of an older layout, bound to one policy, is opened with another: the layout plan is applied (`engine.rs:162`), the slots are rewritten, and then the policy is refused (`engine.rs:163`) |
| `Restored` | after import counters are the original's and new writes continue the imported digest chain (`ARCHITECTURE.md:544-546`, `:579-580`) | two restores.  The first one's suffix asserts an identified record and the counter stays the checkpoint's (`engine.rs:2043`); the second is of a checkpoint with no suffix, `CHAIN_HEAD` stays empty (`engine.rs:2067`) and the next entry names no predecessor.  The store that results folds no more and will give out an identifier a second time |

What the documentation says of sharing an engine contradicts itself.
`ARCHITECTURE.md:81-85`: "`Engine` is a single-owner handle. [...] concurrent
callers on the same `Engine` can race the commit log.  Component daemons must own
each `Engine` from one actor and serialise all engine calls through that actor."
`engine.rs:87-97`: the lock serializes "the engine's own read-compute-write path
so two `&self` callers cannot each read the same chain head, commit sequence, or
duplicate-key state and race their writes [...] so an `Arc<Engine>` is safely
shared across threads".  The code is with the latter as far as the commit log
goes, where `ARCHITECTURE.md` is out of date: that is what `MirroredConcurrent`
checks and `PlansStayCurrent`, `LogStaysIntact` and `CountsStayExact` prove.
For maintenance it is with neither: the lock does not make it safe to share
(`SharedEngine`), and whoever obeys `ARCHITECTURE.md:81-85` never meets it.

`Recoverable` therefore holds for one maintaining thread (`OneThread`)
and not for two (`SharedEngine`); `RecoveryServes` for local checkpoints
(`Compaction`) and not for a mirror (`MirroredRecovery`); `HistoryFolds` and
`CountersAhead` for restores with a suffix that mints nothing (`Families`) and
not for the others; that an error means nothing was committed not even for one
thread and local checkpoints, where `DurableWritesFailOutside` is what is left
of it; that a rejected open writes nothing not even without faults, where
`RejectedStoreIntact` is; `CatalogNamesShape` and `RebuildReproduces` for releases that
evolve one family at a time and bind each version to one table (`Families`, and
proved for all of them) and not in general.

Smaller disagreements met on the way, for which no run is kept: a mirror head
repeated after compaction is answered `MirrorHeadUnknown` and not as a no-op
(`outbox.rs:220` against `:206`); `store_durability` answers `ServerCommitted`
on a local-checkpoint store no server ever confirmed (`outbox.rs:265`);
`commit_atomic` commits while a session is engaged (`atomic.rs:308` against
`engine.rs:98`); an acknowledgement after the local topology's check for
unshipped rows does not stop their removal (`engine.rs:1899`); two threads that subscribe at
once may share a durable identifier (`engine.rs:3545`); discarding the parked
plan of a compaction leaves its intent planned (`engine.rs:2561`); a store with commits from
before its versioning cannot be opened with `open_recovering` once it is over
its budget (`engine.rs:131`).

Two more were met as hypotheses that the proofs about `FamilyStore` needed, and
TLC finds both with other `Components` than those of `Families`:

* *A release that evolves two families.*  When the maintenance at the end of the
  first evolution fails, the evolution is durable, but the catalog in memory goes
  back to the old shape (`engine.rs:253-255`, against `engine.rs:249`, "keeping
  memory equal to disk").  If the process goes on to evolve the second family, the
  checkpoint of that evolution takes its inventory from memory
  (`engine.rs:1656`) and its rows from the fold.  A restore from it has a catalog
  that names a shape the rows do not have (`CatalogNamesShape`, which
  `engine.rs:216-217` promises).  The instance: both tables keyed, both families
  at the old shape in the first release and evolved in the second; budget 1, 3
  writes, 2 faults, an installation and a loss.
* *A family that evolves to a version another table holds.*  Whether a version is
  bound is asked for new tables only (`engine.rs:3391`); an evolution
  (`engine.rs:205`, `catalog.rs:41`) does not ask, and two tables share one family
  version, against `ARCHITECTURE.md:127-129`.  The fold, which knows versions, then
  gives the rows of both to one table (`RebuildReproduces`).  The instance: the
  first family evolves, in the second release, to the shape in which the second
  table has held it since the first release.

## 4. What is proved

The theorems about `WritePath` hold for any finite or infinite set of threads, any keys, values,
operation lists, legacy history, topology, budget and bound, under the named
assumptions of the modules (`AbsentAssumption`, `WritersAssumption`,
`BatchesAssumption`, `PolicyAssumption`).

* `WritePathProofs!TypeCorrect`: `Spec => []TypeOK`.  `TypeOK` carries that the
  logs are finite, on which cardinalities, newest and oldest entries rest.
* `WritePathSafety`: `Safe`, the conjunction of `PlanCurrent`, `PlanSubmitted`
  (a plan's operations are a client's), `LogIntact`, `CountsExact`,
  `RowsAreView`, `CursorOnChain`, is inductive relative to `TypeOK`.  None of
  its parts is inductive alone: the log stays intact because the plan about to
  be persisted extends the current head, the plan stays current because whoever
  holds it holds the lock, the counts are exact because both logs hold the same
  sequences, the cursor is on the chain because what is compared with it is in
  the intact log.  It gives the theorems `PlansStayCurrent`, `LogStaysIntact`,
  `CountsStayExact`, `RowsFollowHistory`, `CursorStaysOnChain`.
* `NothingUnconfirmedLost`: `UnconfirmedShippable` for any number of racing
  compactions.  The strengthening is `CompactionAcknowledged`: a thread on its
  way to remove a prefix under the mirror topology holds an acknowledgement the
  durable cursor has already reached, and the cursor never regresses; so the
  staleness that defeats `Recoverable` cannot defeat this.
* `ImplementsSerialStore`: `Spec => ImplementsStore`, every step of the engine
  is a step of `CommitStore` or a stutter.
* `WritePathRecovery!CheckpointsAreFaithful`: `Spec => []CheckpointsFaithful`, for
  any number of threads.  Compaction writes a checkpoint back that it read long
  before, so the strengthening is about the threads too: what a thread has loaded
  is as faithful as what is stored.
* `WritePathRecovery!RecoverableAlone`: `OneThread /\ Spec => []Recoverable`.
  `OneThread` says that `Writers` has at most one member, and `SharedEngine` shows
  that it is needed.  The invariant says where the one thread is in a maintenance and how
  the checkpoint it holds, the latest one and the retained log lie to each other.
* `WritePathRecovery!FailuresComeFromOutside`: `DurableWritesFailOutside` for one
  thread, under either topology.  A write that is durable is answered with an
  error only if storage failed, or if a mirror has not confirmed where the policy
  names one or the store has had one.  The invariant of the previous theorem shows
  that maintenance finds every checkpoint row and segment it looks for and a chain
  that verifies; what is added (`Well`) is that it has an entry to cover whenever
  it goes on to write a checkpoint, and acknowledges as the policy does.
* `StagingProofs`: the invariant is `Inv`, that is `TypeOK` and `Kept`.  `Kept`
  says that the rows are the fold of the history and the counters its length
  (`HistoryKept`); that a session continues the history it was begun over
  (`SessionKept`), its entries linked, numbered and folding to the view of the
  head they lead to (`Chained`), its overlay true of that view (`OverlayTrue`),
  and, while the base is the current history, every entry admissible
  (`AllAdmitted`), the pre-images those of the retracts (`PreImagesOf`) and the
  identifiers counted on from the store's next one (`Minted`); and the same of a
  parked group (`SlotKept`).  A direct write never disturbs a session or a group:
  it makes the history longer than their base, and what was said of the current
  base no longer applies (`Outrun`).  The theorems are `StagingTyped`,
  `CountersAlwaysExact`, `SessionsReadLikeDirectWrites`, `PreImagesAlwaysTrue`,
  `MintedOnce`, `UnconfirmedStayQueued` and the refinement,
  `ImplementsGroupStore`, for any keys, payloads, batches, topology, budget and
  bounds.
* `StagingProofs!IntentAlwaysTracksPlan` and `IntentStaysInOrder` are about an
  owner that resumes a pending compaction first (`ResumesFirst`, the rule
  `resume_compaction` states).  The strengthening, `PhasesKept`, adds where the
  calls are: a floor is only advanced in the phase Checkpointed and behind a
  checkpoint that covers the whole log, which is why the history is within its
  budget when the intent is cleared; and no session is engaged while a
  compaction is pending.
* `SubscriptionsProofs`: `FeedTyped`, `InlineOrdered`, `NoGap` and
  `EveryoneReached`, for any threads, sinks and lists of operations.  The
  invariant (`Feeding`) says that announcing happens under both locks (`Locked`),
  that the deltas still to announce are the rest of the newest commit
  (`TodoIsRest`), that the receivers still to be called are the rest of the
  registry (`FanoutIsRest`), and that every sink belongs to one request and one
  registration (`RequestsOwnSinks`, `SinksRegisteredOnce`,
  `DeliveriesRegistered`).
* `VersionedLogProofs` holds the lemmas they cite: existence of extrema in
  finite sets of naturals, digests of an extended chain, that the view of a
  history with one more commit is that commit applied to the view
  (`FoldOneFurther`, `ViewOfAppend`), and that the fold of a suffix over the view
  of the prefix is the view of the whole (`FoldSplit`).
* `StoreOpenProofs`: `TypeCorrect`, `ServedSlotsExact`, `RejectionHarmless` and
  `PolicyBinds`, for any policies, budget and bounds.  The properties speak of
  serving and of rejected opens only, so the inductive invariant has to say what
  holds on the way: at each point of an open what it has found or written
  (`Reached`), that slots are exact in every layout that has them and vacant in
  the others (`SlotsFit`, which is what makes the stamp of a virgin store right),
  and how the store compares with the one the open began with (`SinceBegin`: the
  plan's entry is in exactly when the intent has left Planned, the floor is where
  it was or has caught up with the log).

`Staging` assumes of its constants that identifiers are keys, that batches are
lists of operations, and (`KeyedAssumption`) that a keyed batch touches no
identified record: the tables of the two kinds have keys of different types
(`table.rs:345`, `table.rs:362`).

* `FamilyStoreProofs`: every safety property of `FamilyStore` and its refinement,
  for any tables, families, schemas, keys, data, budget, bounds and sequence of
  releases, under the modules' assumptions: identified tables are tables and the
  marker for absence is no value (`FamilyAssumption`), a release declares a table
  once (`ComponentAssumption`), bounds are naturals (`LifetimeAssumption`).

  | Theorem | Property | Further hypotheses |
  |---|---|---|
  | `TypeCorrect`, `FamiliesTyped` | `Typed`, `TypeOK` | none |
  | `ReferencesMatch` | `GrantedMatchesDisk` | none |
  | `EntriesReadable` | `EntriesNameShapes` | none |
  | `HistoryAlwaysFolds` | `HistoryFolds` | `"empty"` is not handed over |
  | `RowsStayReadable` | `CatalogNamesShape` | `OrderlyLifetime` |
  | `RebuildChangesNothing` | `RebuildReproduces` | `OrderlyLifetime` |
  | `CountersStayAhead` | `CountersAhead` | `OrderlyLifetime`, `"minting"` is not handed over |
  | `ImplementsRecordStore` | `ImplementsRecords` | the same |

  `OrderlyLifetime` says that a family version is declared at one table over all
  releases (`OneTablePerVersion`), that a release evolves at most one family
  (`OneEvolution`), and that neither an empty nor a reshaped suffix is handed to
  an import.  The constants of `Families` satisfy all of it.  No hypothesis is
  there for the proof's convenience: the run `Restored` breaks `HistoryFolds` and
  `CountersAhead` by handing over `"empty"` and `"minting"`, section 3 says
  how `OneEvolution` and `OneTablePerVersion` are needed, and what a reshaped
  suffix does is told under `FamilyStore` above.

  The invariant has five layers, each inductive relative to those before it.
  `Typed` adds to `TypeOK` what process and disk know of each other: memory
  agrees with the catalog on disk, except for a table of this release that
  evolved and whose maintenance then failed (`Superseded`); what was granted is
  bound in declaration, memory and on disk (`Bound`).  `Chained` says the retained log is a
  gapless suffix of the chain of the head and the checkpoint a point of it, no
  older than the log's beginning, and the same of what was exported, apart from
  the last: an export may have a gap, and then its import is refused.  `Told` is
  about the rows: what the fold of the whole history shows under the catalog's
  identities is in the rows, and shows nothing under any other (`Shown`), for the
  store and for each checkpoint it stands on (`Stands`), with the table that
  memory may hold in its old shape set apart (`Stale`).  `CountersKept` says the
  counter is past every identifier of the history it belongs to, for the store
  and for each checkpoint separately.  `RecordsSaid` says that the records, whatever
  their shape, are what the history says, again for the store and for every
  digest it may be restored from.

  The fold, the view and the abstract history are recursive functions over
  sequences.  The library's induction theorems cannot be instantiated, so
  induction is proved from the finiteness of intervals as a statement about a set
  of naturals (`SetInduction`), the existence of a recursive function follows
  (`Recursion`), and what a function computes is shown by naming the set of the
  lengths for which it does.  The main lemmas so proved: a fold over a
  concatenation is the fold over the second part of the fold over the first; the
  verified fold from a checkpoint is the fold from genesis; an evolution's
  operations, all retractions and then all assertions over the carried keys,
  leave under the new version exactly the converted rows (`EvolutionShows`) and
  change nothing of what is said (`EvolutionSays`).

Only model-checked: liveness (`HistoryReturnsToBudget`, `RecoveryServes`,
`WritesReturn`, `UpgradeCompletes`, `OwnerServes`), which is out of the prover's
reach.  Every invariant, action property and refinement that a passing run checks
is proved.

## 5. What is not modelled, and the plan

Not modelled as components: *queries*, which read one snapshot, filter it and
change nothing; *replay* (`replay_versioned`), which calls the keyed writes once
per operation and keeps no state of its own.

Left out of every module but `StoreOpen`: a store without a versioning policy
(it has neither log suffix, nor checkpoint, nor maintenance).  Left out
everywhere: integer overflow of the `u64` counters (one commit a nanosecond for
584 years), corrupted or tampered storage and artifacts (digests recomputed over
altered bytes), panics that poison a lock.  Left out of `Subscriptions`: the
deltas a materialized group announces through its directory, which may end at a
failure midway, and a sink that calls the engine back, which waits for its own
thread.  Left out of `FamilyStore`: staged groups over a family that evolves.

What would come next: staged groups over an evolving family (the hazard at
`engine.rs:2614`), in a module that composes `Staging` with `FamilyStore`; and the
two transactions of `subscribe`'s identifier as a property, once the code promises
that identifiers are not shared.
