------------------------------ MODULE WritePath ------------------------------
(***************************************************************************)
(* One open sema-engine store with a VersioningPolicy, and the threads     *)
(* that call it through a shared `&Engine`: the write path with its lock,  *)
(* the maintenance every ordinary write runs after it has released the     *)
(* lock (checkpoint, then compaction of the covered history), the mirror's *)
(* acknowledgements, and crashes.                                          *)
(*                                                                         *)
(* Granularity follows the code: everything between taking and releasing   *)
(* write_lock ends in at most one storage transaction, and a write is two  *)
(* steps, the reads and the transaction, so that the lock is what keeps    *)
(* them together.  Everything maintenance reads without the lock is a step *)
(* per storage read, so another thread's transaction may fall between any  *)
(* two.  A checkpoint and a compaction take the lock, read and commit in   *)
(* one step: nothing they read can change, and a crash before their        *)
(* transaction leaves nothing behind.                                      *)
(***************************************************************************)
EXTENDS VersionedLog

CONSTANTS Writers,     \* the threads that share the engine
          NoWriter,    \* the write lock is free
          Batches,     \* the operation lists clients submit
          Legacy,      \* what an earlier engine committed, each with an outbox row
          Topologies,  \* the recovery topologies a store may have been opened with
          Budget,      \* maximum_live_entries of the retention policy
          MaxCommits   \* bound: no commit is begun beyond this many

ASSUME WritersAssumption == NoWriter \notin Writers
ASSUME BatchesAssumption == /\ Batches \subseteq Seq(Operations)
                            /\ Legacy \in Seq(Seq(Operations))
ASSUME PolicyAssumption == /\ Topologies \subseteq {"LocalCheckpoint", "Mirror"}
                           /\ Budget \in Nat
                           /\ MaxCommits \in Nat

VARIABLES
  \* durable, changed only by a storage transaction
  topology,         \* VersionedRecoveryTopology of the recorded policy, for good
  rows,             \* the materialized family tables
  commitLog,        \* COMMIT_LOG: the sequences that have a row
  versionedLog,     \* VERSIONED_COMMIT_LOG: sequence -> entry
  chainHead,        \* CHAIN_HEAD: digest of the newest entry
  marker,           \* latest_commit_sequence and latest_snapshot
  counts,           \* commit_log_count and versioned_log_count
  outbox,           \* OUTBOX: sequence -> digest of the entry to ship
  cursor,           \* MIRROR_CURSOR: the acknowledged mirror head
  checkpoints,      \* CHECKPOINTS: sequence -> metadata
  segments,         \* CHECKPOINT_SEGMENTS
  latestCheckpoint, \* LATEST_CHECKPOINT_KEY, 0 when it has no row
  \* lost in a crash
  lock,             \* write_lock: its holder
  pc,               \* where each thread is in its call
  plan,             \* what a thread has minted and not yet committed
  frame,            \* the locals of a thread's maintenance
  reply             \* the result of each thread's last call

logVars == <<rows, commitLog, versionedLog, chainHead, marker, counts>>
mirrorVars == <<outbox, cursor>>
checkpointVars == <<checkpoints, segments, latestCheckpoint>>
durableVars == <<topology, logVars, mirrorVars, checkpointVars>>
threadVars == <<lock, pc, plan, frame, reply>>
vars == <<durableVars, threadVars>>

-----------------------------------------------------------------------------
(* Shapes *)

NoHead == [sequence |-> 0, digest |-> NoDigest]

MirrorHeads == [sequence : Nat, digest : Digests]

\* CheckpointMetadata.  previous is the sequence of the checkpoint whose
\* digest the code stores, 0 for a root checkpoint.
Metadata == [sequence : Nat, first : Nat, last : Nat, digest : Digests,
             segments : SUBSET Rows, previous : Nat]

NoCheckpoint == [sequence |-> 0, first |-> 0, last |-> 0, digest |-> NoDigest,
                 segments |-> {}, previous |-> 0]

Counts == [commits : Nat, versioned : Nat]

NoBody == [sequence |-> 0, snapshot |-> 0, operations |-> <<>>]
NoPlan == [entry |-> [body |-> NoBody, previous |-> NoDigest],
           counts |-> [commits |-> 0, versioned |-> 0]]

Plans == [entry : Entries, counts : Counts]

\* VersionedHistoryAcknowledgement.  A compaction compares the sequence of a
\* mirror head and nothing else of it; a local checkpoint carries none.
Acknowledgements == [topology : {"LocalCheckpoint", "Mirror"}, sequence : Nat]

LocalCheckpoint == [topology |-> "LocalCheckpoint", sequence |-> 0]
MirrorUpTo(n) == [topology |-> "Mirror", sequence |-> n]

\* committed: the sequence this call has already committed, 0 if none.
\* acknowledgement and current: locals of compact_versioned_history.
\* stage: what latest_checkpoint is called for (the report of a history within
\* its budget, the probe for a checkpoint to reuse, the reload of the one just
\* written; "call" outside maintenance).  pointer and loaded: its locals.
NoFrame == [committed |-> 0, acknowledgement |-> LocalCheckpoint, current |-> 0,
            stage |-> "call", pointer |-> 0, loaded |-> NoCheckpoint]

Frames == [committed : Nat, acknowledgement : Acknowledgements, current : Nat,
           stage : {"call", "report", "reuse", "reload"}, pointer : Nat,
           loaded : Metadata]

Errors == {"Refused", "StorageFailed", "HistoryCompactionUnacknowledged",
           "HistoryCompactionTopologyMismatch", "CheckpointRowMissing",
           "SegmentMissing", "VersionedLogIncomplete",
           "CheckpointNothingToCover", "VersionedChainBroken"}

\* The result of a call, and the sequence it committed before returning.
Replies == [outcome : Errors \cup {"None", "Ok"}, committed : Nat]

NoReply == [outcome |-> "None", committed |-> 0]

Locations == {"idle", "persist", "budget", "head", "validate", "recheck",
              "current", "pointer", "metadata", "segments", "checkpoint",
              "acknowledged", "compact"}

DurableTypeOK ==
  /\ topology \in Topologies
  /\ rows \in Rows
  /\ commitLog \in SUBSET Nat /\ IsFiniteSet(commitLog)
  /\ DOMAIN versionedLog \in SUBSET Nat /\ IsFiniteSet(DOMAIN versionedLog)
  /\ versionedLog \in [DOMAIN versionedLog -> Entries]
  /\ chainHead \in Digests
  /\ marker \in [sequence : Nat, snapshot : Nat]
  /\ counts \in Counts
  /\ DOMAIN outbox \in SUBSET Nat
  /\ outbox \in [DOMAIN outbox -> Digests]
  /\ cursor \in MirrorHeads
  /\ DOMAIN checkpoints \in SUBSET Nat
  /\ checkpoints \in [DOMAIN checkpoints -> Metadata]
  /\ segments \in SUBSET Rows
  /\ latestCheckpoint \in Nat

ThreadTypeOK ==
  /\ lock \in Writers \cup {NoWriter}
  /\ pc \in [Writers -> Locations]
  /\ plan \in [Writers -> Plans]
  /\ frame \in [Writers -> Frames]
  /\ reply \in [Writers -> Replies]

TypeOK == DurableTypeOK /\ ThreadTypeOK

-----------------------------------------------------------------------------
(* Initial state *)

\* The bodies of the commits the store opens with.
LegacyHistory ==
  [n \in DOMAIN Legacy |->
     [sequence |-> n, snapshot |-> n, operations |-> Legacy[n]]]

Init ==
  /\ topology \in Topologies
  /\ rows = ViewOf(LegacyHistory)
  /\ commitLog = DOMAIN Legacy
  /\ versionedLog = EntriesOf(LegacyHistory)
  /\ chainHead = LegacyHistory
  /\ marker = [sequence |-> Len(Legacy), snapshot |-> Len(Legacy)]
  /\ counts = [commits |-> Len(Legacy), versioned |-> Len(Legacy)]
  /\ outbox = [n \in DOMAIN Legacy |-> DigestAt(LegacyHistory, n)]
  /\ cursor = NoHead
  /\ checkpoints = <<>>
  /\ segments = {}
  /\ latestCheckpoint = 0
  /\ lock = NoWriter
  /\ pc = [w \in Writers |-> "idle"]
  /\ plan = [w \in Writers |-> NoPlan]
  /\ frame = [w \in Writers |-> NoFrame]
  /\ reply = [w \in Writers |-> NoReply]

-----------------------------------------------------------------------------
(* The write path: assert, mutate, retract, commit *)

\* The entry minted for a commit: the next sequence and snapshot, and the
\* chain head as predecessor.
Mint(operations) ==
  [body |-> [sequence |-> marker.sequence + 1,
             snapshot |-> marker.snapshot + 1,
             operations |-> operations],
   previous |-> chainHead]

\* Mutant: the log state is read before the lock is taken.
PrepareUnlocked(w, operations) ==
  /\ pc[w] = "idle"
  /\ marker.sequence < MaxCommits
  /\ Admitted(operations, rows)
  /\ lock' = w
  /\ pc' = [pc EXCEPT ![w] = "persist"]
  /\ plan' = [plan EXCEPT ![w] = [entry |-> Mint(operations), counts |-> counts]]
  /\ reply' = [reply EXCEPT ![w] = NoReply]
  /\ UNCHANGED <<durableVars, frame>>

\* Under the lock: validate against the committed rows, then mint the entry
\* and read the log counts.
Prepare(w, operations) ==
  /\ pc[w] = "idle"
  /\ lock = NoWriter
  /\ marker.sequence < MaxCommits
  /\ Admitted(operations, rows)
  /\ lock' = w
  /\ pc' = [pc EXCEPT ![w] = "persist"]
  /\ plan' = [plan EXCEPT ![w] = [entry |-> Mint(operations), counts |-> counts]]
  /\ reply' = [reply EXCEPT ![w] = NoReply]
  /\ UNCHANGED <<durableVars, frame>>

\* The validation fails: the call returns the error and has changed nothing.
Refuse(w, operations) ==
  /\ pc[w] = "idle"
  /\ lock = NoWriter
  /\ ~Admitted(operations, rows)
  /\ reply' = [reply EXCEPT ![w] = [outcome |-> "Refused", committed |-> 0]]
  /\ UNCHANGED <<durableVars, lock, pc, plan, frame>>

\* The outbox row beside a versioned entry: only a mirrored store queues.
Recorded(entry) ==
  IF topology = "Mirror"
    THEN [n \in DOMAIN outbox \cup {entry.body.sequence} |->
            IF n = entry.body.sequence THEN EntryDigest(entry) ELSE outbox[n]]
    ELSE outbox

\* The one storage transaction of a write, then the release of the lock: the
\* rest of the call, its maintenance, runs unlocked.
Persist(w) ==
  /\ pc[w] = "persist"
  /\ LET entry == plan[w].entry
         sequence == entry.body.sequence
     IN  /\ rows' = Apply(entry.body.operations, rows)
         /\ commitLog' = commitLog \cup {sequence}
         /\ versionedLog' = [n \in DOMAIN versionedLog \cup {sequence} |->
                               IF n = sequence THEN entry ELSE versionedLog[n]]
         /\ chainHead' = EntryDigest(entry)
         /\ marker' = [sequence |-> sequence, snapshot |-> entry.body.snapshot]
         /\ counts' = [commits |-> plan[w].counts.commits + 1,
                       versioned |-> plan[w].counts.versioned + 1]
         /\ outbox' = Recorded(entry)
         /\ frame' = [frame EXCEPT ![w] = [NoFrame EXCEPT !.committed = sequence]]
  /\ lock' = NoWriter
  /\ pc' = [pc EXCEPT ![w] = "budget"]
  /\ plan' = [plan EXCEPT ![w] = NoPlan]
  /\ UNCHANGED <<topology, cursor, checkpointVars, reply>>

\* Mutant: the rows are written outside the transaction that fails.
PersistFailsHalfway(w) ==
  /\ pc[w] = "persist"
  /\ rows' = Apply(plan[w].entry.body.operations, rows)
  /\ lock' = NoWriter
  /\ pc' = [pc EXCEPT ![w] = "idle"]
  /\ plan' = [plan EXCEPT ![w] = NoPlan]
  /\ reply' = [reply EXCEPT ![w] = [outcome |-> "StorageFailed", committed |-> 0]]
  /\ UNCHANGED <<topology, commitLog, versionedLog, chainHead, marker, counts,
                 mirrorVars, checkpointVars, frame>>

\* The storage transaction fails: it rolls back and the call returns the error.
\* (A read under the lock that fails before it ends the call the same way.)
PersistFails(w) ==
  /\ pc[w] = "persist"
  /\ lock' = NoWriter
  /\ pc' = [pc EXCEPT ![w] = "idle"]
  /\ plan' = [plan EXCEPT ![w] = NoPlan]
  /\ reply' = [reply EXCEPT ![w] = [outcome |-> "StorageFailed", committed |-> 0]]
  /\ UNCHANGED <<durableVars, frame>>

-----------------------------------------------------------------------------
(* Leaving a call, and moving through one without touching durable state *)

Return(w, outcome) ==
  /\ pc' = [pc EXCEPT ![w] = "idle"]
  /\ reply' = [reply EXCEPT ![w] = [outcome |-> outcome,
                                   committed |-> frame[w].committed]]
  /\ frame' = [frame EXCEPT ![w] = NoFrame]

Goto(w, location, locals) ==
  /\ pc' = [pc EXCEPT ![w] = location]
  /\ frame' = [frame EXCEPT ![w] = locals]
  /\ UNCHANGED reply

\* latest_checkpoint begins by reading LATEST_CHECKPOINT_KEY.
Load(w, stage) == Goto(w, "pointer", [frame[w] EXCEPT !.stage = stage])

Enter(w, location, locals) ==
  /\ pc[w] = "idle"
  /\ pc' = [pc EXCEPT ![w] = location]
  /\ frame' = [frame EXCEPT ![w] = locals]
  /\ reply' = [reply EXCEPT ![w] = NoReply]
  /\ UNCHANGED <<durableVars, lock, plan>>

-----------------------------------------------------------------------------
(* Maintenance: compact_configured_versioned_history and what it calls *)

\* The calls a component may make by itself: the configured maintenance from
\* its tick, a checkpoint, and a compaction with an acknowledgement of the
\* caller's (here under the policy's own retention).
CallMaintain(w) == Enter(w, "budget", NoFrame)

CallCheckpoint(w) == Enter(w, "checkpoint", NoFrame)

CallCompact(w, acknowledgement) ==
  Enter(w, "validate", [NoFrame EXCEPT !.acknowledgement = acknowledgement])

WithinBudget == Cardinality(DOMAIN versionedLog) <= Budget

\* Read the log's length; within budget only the latest checkpoint is reported.
ReadBudget(w) ==
  /\ pc[w] = "budget"
  /\ IF WithinBudget THEN Load(w, "report")
     ELSE IF topology = "LocalCheckpoint"
       THEN Goto(w, "validate",
                 [frame[w] EXCEPT !.acknowledgement = LocalCheckpoint])
       ELSE Goto(w, "head", frame[w])
  /\ UNCHANGED <<durableVars, lock, plan>>

\* A mirrored store hands its durable cursor on as the acknowledgement.
ReadMirrorHead(w) ==
  /\ pc[w] = "head"
  /\ IF cursor = NoHead
       THEN Return(w, "HistoryCompactionUnacknowledged")
       ELSE Goto(w, "validate",
                 [frame[w] EXCEPT !.acknowledgement = MirrorUpTo(cursor.sequence)])
  /\ UNCHANGED <<durableVars, lock, plan>>

Unshipped == {n \in DOMAIN outbox : n > cursor.sequence}

\* validate_history_acknowledgement: the acknowledgement must be of the
\* policy's topology, and rows still unshipped to a mirror that has
\* acknowledged before contradict a local-only policy.  (The code reads the
\* cursor and then the outbox; a cursor stays once recorded and a store of that
\* policy queues nothing, so both reads together see what they see apart.)
ValidateAcknowledgement(w) ==
  /\ pc[w] = "validate"
  /\ IF frame[w].acknowledgement.topology # topology
       THEN Return(w, "HistoryCompactionTopologyMismatch")
     ELSE IF /\ topology = "LocalCheckpoint"
             /\ cursor # NoHead
             /\ Unshipped # {}
       THEN Return(w, "HistoryCompactionUnacknowledged")
       ELSE Goto(w, "recheck", frame[w])
  /\ UNCHANGED <<durableVars, lock, plan>>

\* compact_versioned_history reads the length again.
Recheck(w) ==
  /\ pc[w] = "recheck"
  /\ IF WithinBudget THEN Load(w, "report") ELSE Goto(w, "current", frame[w])
  /\ UNCHANGED <<durableVars, lock, plan>>

ReadCurrent(w) ==
  /\ pc[w] = "current"
  /\ Goto(w, "pointer", [frame[w] EXCEPT !.current = marker.sequence,
                                         !.stage = "reuse"])
  /\ UNCHANGED <<durableVars, lock, plan>>

\* latest_checkpoint, its first read.  A reload never finds the slot empty
\* (the code expects that): checkpoint() has just filled it and nothing
\* empties it.
ReadPointer(w) ==
  /\ pc[w] = "pointer"
  /\ IF latestCheckpoint # 0
       THEN Goto(w, "metadata", [frame[w] EXCEPT !.pointer = latestCheckpoint])
     ELSE IF frame[w].stage = "report"
       THEN Return(w, "Ok")
       ELSE frame[w].stage = "reuse" /\ Goto(w, "checkpoint", frame[w])
  /\ UNCHANGED <<durableVars, lock, plan>>

\* Its second read, the metadata row the slot named.
ReadMetadata(w) ==
  /\ pc[w] = "metadata"
  /\ IF frame[w].pointer \notin DOMAIN checkpoints
       THEN Return(w, "CheckpointRowMissing")
       ELSE Goto(w, "segments",
                 [frame[w] EXCEPT !.loaded = checkpoints[frame[w].pointer]])
  /\ UNCHANGED <<durableVars, lock, plan>>

\* Mutant: a checkpoint of exactly the current sequence is written again.
CoversBeyond(metadata, sequence) == metadata.last > sequence

\* Whether a checkpoint can be reused for the commits up to a sequence.
Covers(metadata, sequence) == metadata.last >= sequence

\* Its last reads, the segments the metadata references, and then the caller's
\* choice: report, reuse a checkpoint that covers the current sequence, write
\* a new one, or go on with the one reloaded.
ReadSegments(w) ==
  /\ pc[w] = "segments"
  /\ IF ~(frame[w].loaded.segments \subseteq segments)
       THEN Return(w, "SegmentMissing")
     ELSE IF frame[w].stage = "report"
       THEN Return(w, "Ok")
     ELSE IF /\ frame[w].stage = "reuse"
             /\ ~Covers(frame[w].loaded, frame[w].current)
       THEN Goto(w, "checkpoint", frame[w])
       ELSE Goto(w, "acknowledged", frame[w])
  /\ UNCHANGED <<durableVars, lock, plan>>

-----------------------------------------------------------------------------
(* checkpoint *)

Newest(numbers) == CHOOSE n \in numbers : \A m \in numbers : m <= n
Oldest(numbers) == CHOOSE n \in numbers : \A m \in numbers : n <= m

\* The checkpoint the next one builds on, and the entries it is to fold.
Previous == IF latestCheckpoint = 0 THEN NoCheckpoint
                                    ELSE checkpoints[latestCheckpoint]
Uncovered == Suffix(versionedLog, Previous.last)

\* What checkpoint() fails with, in the order it finds out; "Ok" if nothing.
CheckpointOutcome ==
  IF counts.commits # counts.versioned THEN "VersionedLogIncomplete"
  ELSE IF latestCheckpoint # 0 /\ latestCheckpoint \notin DOMAIN checkpoints
    THEN "CheckpointRowMissing"
  ELSE IF ~(Previous.segments \subseteq segments) THEN "SegmentMissing"
  ELSE IF DOMAIN Uncovered = {} THEN "CheckpointNothingToCover"
  ELSE IF ~ChainVerifies(Uncovered, Previous.digest) THEN "VersionedChainBroken"
  ELSE "Ok"

\* Mutant: the checkpoint claims only the entries it folds itself.
FirstUncovered == Oldest(DOMAIN Uncovered)

\* The first commit a checkpoint covers is its root's.
FirstCovered ==
  IF latestCheckpoint = 0 THEN Oldest(DOMAIN Uncovered) ELSE Previous.first

\* Mutant: the fold forgets the previous checkpoint's rows.
FoldedFromNothing == CanonicalView(EmptyRows, Uncovered)

\* The previous checkpoint's rows overlaid with the entries after it.
FoldedRows == CanonicalView(SegmentRows(Previous.segments), Uncovered)

\* The metadata of the checkpoint of everything committed.
NextCheckpoint ==
  LET last == Newest(DOMAIN Uncovered)
  IN  [sequence |-> Previous.sequence + 1,
       first |-> FirstCovered,
       last |-> last,
       digest |-> EntryDigest(Uncovered[last]),
       segments |-> Chunk(FoldedRows),
       previous |-> Previous.sequence]

\* checkpoint(), under the lock.  It advances no commit sequence.
TakeCheckpoint(w) ==
  /\ pc[w] = "checkpoint"
  /\ lock = NoWriter
  /\ \/ /\ CheckpointOutcome # "Ok"
        /\ Return(w, CheckpointOutcome)
        /\ UNCHANGED checkpointVars
     \/ /\ CheckpointOutcome = "Ok"
        /\ LET metadata == NextCheckpoint
           IN  /\ checkpoints' = [n \in DOMAIN checkpoints \cup {metadata.sequence} |->
                                    IF n = metadata.sequence THEN metadata
                                                             ELSE checkpoints[n]]
               /\ segments' = segments \cup metadata.segments
               /\ latestCheckpoint' = metadata.sequence
        /\ IF frame[w].stage = "call" THEN Return(w, "Ok") ELSE Load(w, "reload")
  /\ UNCHANGED <<topology, logVars, mirrorVars, lock, plan>>

-----------------------------------------------------------------------------
(* compaction *)

\* Mutant: the caller's head is taken on trust.
AcknowledgedByCaller(acknowledgement, covered) ==
  acknowledgement.topology = "Mirror" => acknowledgement.sequence >= covered

\* A mirrored history is removed only as far as the acknowledgement handed in
\* and the durable cursor both reach.
AcknowledgedThrough(acknowledgement, covered) ==
  acknowledgement.topology = "Mirror" =>
    /\ acknowledgement.sequence >= covered
    /\ cursor.sequence >= covered

RequireAcknowledged(w) ==
  /\ pc[w] = "acknowledged"
  /\ IF AcknowledgedThrough(frame[w].acknowledgement, frame[w].loaded.last)
       THEN Goto(w, "compact", frame[w])
       ELSE Return(w, "HistoryCompactionUnacknowledged")
  /\ UNCHANGED <<durableVars, lock, plan>>

KeysThrough(numbers, covered) == {n \in numbers : n <= covered}

SaturatingMinus(m, n) == IF m >= n THEN m - n ELSE 0

\* Mutant: the newest sequence removed stands for the number of rows removed.
AfterRemovingThrough(commitKeys, versionedKeys) ==
  LET through(keys) == IF keys = {} THEN 0 ELSE Newest(keys)
  IN  [commits |-> counts.commits - through(commitKeys),
       versioned |-> counts.versioned - through(versionedKeys)]

\* LogCounts::after_removing
AfterRemoving(commitKeys, versionedKeys) ==
  [commits |-> SaturatingMinus(counts.commits, Cardinality(commitKeys)),
   versioned |-> SaturatingMinus(counts.versioned, Cardinality(versionedKeys))]

\* Mutant: the filter is inverted.
UnretainedSegments(metadata) == segments \ metadata.segments

RetainedSegments(metadata) == segments \cap metadata.segments

\* The lock is taken again, long after the checkpoint was loaded.  Both logs
\* and the outbox lose what the loaded checkpoint covers, every other
\* checkpoint and the segments it does not reference are removed, and its
\* metadata is written back as a root.  LATEST_CHECKPOINT_KEY is not written.
Compact(w) ==
  /\ pc[w] = "compact"
  /\ lock = NoWriter
  /\ LET loaded == frame[w].loaded
         commitKeys == KeysThrough(commitLog, loaded.last)
         versionedKeys == KeysThrough(DOMAIN versionedLog, loaded.last)
     IN  /\ commitLog' = commitLog \ commitKeys
         /\ versionedLog' = Suffix(versionedLog, loaded.last)
         /\ counts' = AfterRemoving(commitKeys, versionedKeys)
         /\ outbox' = Suffix(outbox, loaded.last)
         /\ checkpoints' = [n \in {loaded.sequence} |->
                              [loaded EXCEPT !.previous = 0]]
         /\ segments' = RetainedSegments(loaded)
  /\ Return(w, "Ok")
  /\ UNCHANGED <<topology, rows, chainHead, marker, cursor, latestCheckpoint, lock,
                 plan>>

-----------------------------------------------------------------------------
(* Storage failures inside maintenance *)

\* The places of a call that read storage or commit a transaction.  Validation
\* reads the cursor for a local acknowledgement of a local store, the check
\* before a compaction for that of a mirror.
UsesStorage(w) ==
  \/ pc[w] \in {"budget", "head", "recheck", "current", "pointer", "metadata",
                "segments"}
  \/ /\ pc[w] = "validate" /\ topology = "LocalCheckpoint"
     /\ frame[w].acknowledgement = LocalCheckpoint
  \/ pc[w] = "acknowledged" /\ topology = "Mirror"
  \/ pc[w] \in {"checkpoint", "compact"} /\ lock = NoWriter

\* A read, or the transaction of checkpoint or compaction, fails: nothing is
\* written, and the error reaches the caller, of a write that is durable too.
MaintenanceFails(w) ==
  /\ UsesStorage(w)
  /\ Return(w, "StorageFailed")
  /\ UNCHANGED <<durableVars, lock, plan>>

-----------------------------------------------------------------------------
(* The mirror *)

\* Mutants: a check is missing.
ForkUnchecked(head) == FALSE
OrderUnchecked(head) == FALSE

Forked(head) == outbox[head.sequence] # head.digest
BehindCursor(head) == head.sequence <= cursor.sequence

\* acknowledge_mirror: what it answers for a head.  The outbox row is looked
\* up first, the logged entry must agree with the row and the head with both,
\* and only then is the head compared with the cursor.
Acknowledgement(head) ==
  IF head.sequence \notin DOMAIN outbox THEN "MirrorHeadUnknown"
  ELSE IF \/ head.sequence \notin DOMAIN versionedLog
          \/ EntryDigest(versionedLog[head.sequence]) # outbox[head.sequence]
    THEN "OutboxEntryMismatch"
  ELSE IF Forked(head) THEN "MirrorHeadForked"
  ELSE IF BehindCursor(head) THEN "Unchanged"
  ELSE "Advanced"

Acknowledge(head) ==
  /\ lock = NoWriter
  /\ cursor' = IF Acknowledgement(head) = "Advanced" THEN head ELSE cursor
  /\ UNCHANGED <<topology, logVars, outbox, checkpointVars, threadVars>>

\* The heads a mirror may report: of an entry it has received, of one past the
\* head (it followed a store that was since restored from a backup), and of a
\* history that is not this store's.
ForkedDigest == <<[sequence |-> 1, snapshot |-> 1, operations |-> <<>>]>>

ReportedHeads ==
  {[sequence |-> n, digest |-> DigestAt(chainHead, n)] : n \in DOMAIN chainHead}
    \cup [sequence : 1 .. marker.sequence + 1, digest : {ForkedDigest}]

-----------------------------------------------------------------------------
(* Crash and reopen: storage keeps what was committed, and nothing else *)

Crash ==
  /\ \E w \in Writers : pc[w] # "idle"
  /\ lock' = NoWriter
  /\ pc' = [w \in Writers |-> "idle"]
  /\ plan' = [w \in Writers |-> NoPlan]
  /\ frame' = [w \in Writers |-> NoFrame]
  /\ reply' = [w \in Writers |-> NoReply]
  /\ UNCHANGED durableVars

-----------------------------------------------------------------------------

\* The steps of a call once begun, while storage answers.
Proceed(w) ==
  \/ Persist(w)
  \/ PersistFails(w)
  \/ ReadBudget(w)
  \/ ReadMirrorHead(w)
  \/ ValidateAcknowledgement(w)
  \/ Recheck(w)
  \/ ReadCurrent(w)
  \/ ReadPointer(w)
  \/ ReadMetadata(w)
  \/ ReadSegments(w)
  \/ TakeCheckpoint(w)
  \/ RequireAcknowledged(w)
  \/ Compact(w)

Call(w) ==
  \/ \E operations \in Batches : Prepare(w, operations) \/ Refuse(w, operations)
  \/ CallMaintain(w)
  \/ CallCheckpoint(w)
  \/ CallCompact(w, LocalCheckpoint)
  \/ \E n \in 1 .. MaxCommits : CallCompact(w, MirrorUpTo(n))

Next ==
  \/ \E w \in Writers : Call(w) \/ Proceed(w) \/ MaintenanceFails(w)
  \/ \E head \in ReportedHeads : Acknowledge(head)
  \/ Crash

Spec == Init /\ [][Next]_vars

-----------------------------------------------------------------------------
(* Safety *)

\* A write that has read the log state and not yet committed still holds the
\* lock, and what it read is still so: its entry extends the current chain
\* head with the next sequence, its counts are the current ones, and its
\* operations are still admitted.  (The comment on Engine::write_lock.)
PlanCurrent ==
  \A w \in Writers : pc[w] = "persist" =>
    /\ lock = w
    /\ plan[w] = [entry |-> Mint(plan[w].entry.body.operations), counts |-> counts]
    /\ Admitted(plan[w].entry.body.operations, rows)

\* The retained versioned log is a gapless suffix of one history: each entry
\* sits at its own sequence and its digest is the prefix of the chain head's
\* that ends there; sequence and snapshot counters equal the history's length.
LogIntact ==
  /\ marker = [sequence |-> Len(chainHead), snapshot |-> Len(chainHead)]
  /\ \A n \in DOMAIN versionedLog :
       /\ n \in DOMAIN chainHead
       /\ EntryDigest(versionedLog[n]) = DigestAt(chainHead, n)
       /\ \A m \in n .. Len(chainHead) : m \in DOMAIN versionedLog

\* Both logs hold the same sequences, and the persisted counts are exact
\* through every commit, refusal, compaction and crash.
CountsExact ==
  /\ commitLog = DOMAIN versionedLog
  /\ counts = [commits |-> Cardinality(commitLog),
               versioned |-> Cardinality(commitLog)]

\* The materialized tables are the last-write view of the whole history, the
\* part of it that compaction removed included.
RowsAreView == rows = ViewOf(chainHead)

\* Every stored checkpoint names a prefix of this history by its digest and
\* references the segments of that prefix's view, even when compaction wrote
\* it back long after it was read.
CheckpointsFaithful ==
  \A n \in DOMAIN checkpoints :
    LET metadata == checkpoints[n]
        covered == DigestAt(chainHead, metadata.last)
    IN  /\ metadata.sequence = n
        /\ metadata.first = 1 /\ metadata.last \in DOMAIN chainHead
        /\ metadata.digest = covered
        /\ metadata.segments = Chunk(ViewOf(covered))

\* The store can be rebuilt from what it retains: the latest checkpoint loads
\* with its segments, the log continues it without a gap up to the current
\* commit, the chain verifies, and the fold of both is the rows.
Recoverable ==
  /\ latestCheckpoint # 0 =>
       /\ latestCheckpoint \in DOMAIN checkpoints
       /\ Previous.segments \subseteq segments
  /\ DOMAIN Uncovered = Previous.last + 1 .. marker.sequence
  /\ ChainVerifies(Uncovered, Previous.digest)
  /\ rows = CanonicalView(SegmentRows(Previous.segments), Uncovered)

\* A mirrored store never drops what the mirror has not confirmed: every
\* commit past the cursor is queued in the outbox under its own digest, and
\* the entry to ship is in the log.
UnconfirmedShippable ==
  topology = "Mirror" =>
    \A n \in cursor.sequence + 1 .. marker.sequence :
      /\ n \in DOMAIN outbox /\ outbox[n] = DigestAt(chainHead, n)
      /\ n \in DOMAIN versionedLog

\* The shipped cursor always names an entry of this history, whatever heads
\* the mirror reports and in whatever order.
CursorOnChain ==
  /\ cursor.sequence <= Len(chainHead)
  /\ cursor.digest = DigestAt(chainHead, cursor.sequence)

\* The engine implements the serial store of CommitStore: its history is what
\* the chain-head digest commits to, and what the mirror has confirmed is the
\* cursor's sequence.
Store == INSTANCE CommitStore WITH history <- chainHead,
                                   confirmed <- cursor.sequence

ImplementsStore == Store!Spec

-----------------------------------------------------------------------------
(* Results *)

\* "Failed commits do not advance CommitSequence" (ARCHITECTURE.md): a call
\* that returns an error has not committed.  Maintenance runs after the
\* transaction is durable and its error is the write's answer.
FailedCommitsDoNotAdvance ==
  \A w \in Writers : reply[w].outcome \in Errors => reply[w].committed = 0

\* A write that is already durable is answered with an error only for what lies
\* outside the store: storage failed, or a mirror has not confirmed.  With one
\* thread, whatever crashed or failed before, its maintenance never finds a
\* checkpoint row or a segment missing, a log incomplete, a broken chain or
\* nothing to cover, and never waits for a mirror the store has not had.
DurableWritesFailOutside ==
  \A w \in Writers :
    reply[w].outcome \in Errors /\ reply[w].committed # 0 =>
      \/ reply[w].outcome = "StorageFailed"
      \/ /\ reply[w].outcome = "HistoryCompactionUnacknowledged"
         /\ topology = "Mirror" \/ cursor # NoHead

-----------------------------------------------------------------------------
(* Liveness *)

\* The mirror reports the newest head it has been sent.
AcknowledgeNewest ==
  /\ Unshipped # {}
  /\ Acknowledge([sequence |-> Newest(Unshipped),
                  digest |-> outbox[Newest(Unshipped)]])

\* Begun calls go on, the component's maintenance tick keeps coming round, and
\* the mirror keeps reporting.
Fairness ==
  /\ \A w \in Writers : WF_vars(Proceed(w)) /\ SF_vars(CallMaintain(w))
  /\ SF_vars(AcknowledgeNewest)

FairSpec == Spec /\ Fairness

Faulty == Crash \/ \E w \in Writers : MaintenanceFails(w)

\* Once commits, crashes and the failures of maintenance cease, the raw history
\* returns to its budget: no refused, failed or interrupted compaction leaves a
\* state that maintenance cannot leave.  (While commits go on, each may outrun
\* the mirror.)
HistoryReturnsToBudget ==
  <>[][~Faulty /\ UNCHANGED marker]_vars => []<>WithinBudget

=============================================================================
