--------------------------- MODULE WritePathProofs ---------------------------
(***************************************************************************)
(* The state of WritePath is well typed, for any threads, keys, values,    *)
(* batches, topologies, budget and bound.  What the types carry, among it    *)
(* that the logs are finite, is what the inductive invariants of           *)
(* WritePathSafety rest on.                                                *)
(***************************************************************************)
EXTENDS WritePath, VersionedLogProofs

-----------------------------------------------------------------------------
(* The initial history *)

\* The history the store opens with is well formed.
LEMMA LegacyHistoryType ==
  /\ LegacyHistory \in Digests
  /\ Len(LegacyHistory) = Len(Legacy)
  /\ Len(Legacy) \in Nat
  /\ DOMAIN Legacy = 1 .. Len(Legacy)
<1>1. /\ Len(Legacy) \in Nat /\ DOMAIN Legacy = 1 .. Len(Legacy)
      /\ \A n \in 1 .. Len(Legacy) : Legacy[n] \in Seq(Operations)
  BY BatchesAssumption, LenProperties, ElementOfSeq
<1>2. LegacyHistory \in [1 .. Len(Legacy) -> Bodies]
  BY <1>1 DEF LegacyHistory, Bodies
<1>3. LegacyHistory \in Seq(Bodies)
  BY <1>1, <1>2, SeqDef
<1>4. Len(LegacyHistory) = Len(Legacy)
  BY <1>1, <1>2, <1>3, LenProperties
<1>5. QED  BY <1>1, <1>3, <1>4 DEF Digests

-----------------------------------------------------------------------------
(* Type correctness *)

\* The absent checkpoint is well formed.
LEMMA NoCheckpointType == NoCheckpoint \in Metadata
<1>1. << >> \in Seq(Bodies)
  BY EmptySeq
<1>2. QED  BY <1>1 DEF NoCheckpoint, Metadata, NoDigest, Digests

\* A thread's locals outside a call are well formed.
LEMMA NoFrameType == NoFrame \in Frames
  BY NoCheckpointType DEF NoFrame, Frames, LocalCheckpoint, Acknowledgements

\* The absent plan is well formed.
LEMMA NoPlanType == NoPlan \in Plans
<1>1. << >> \in Seq(Bodies) /\ << >> \in Seq(Operations)
  BY EmptySeq
<1>2. NoBody \in Bodies
  BY <1>1 DEF NoBody, Bodies
<1>3. QED
  BY <1>1, <1>2 DEF NoPlan, Plans, Entries, Counts, NoDigest, Digests

(* Returning from a call keeps the threads well typed. *)
LEMMA ReturnType ==
  ASSUME ThreadTypeOK, NEW w \in Writers,
         NEW outcome \in Errors \cup {"Ok"}, Return(w, outcome),
         UNCHANGED <<lock, plan>>
  PROVE  ThreadTypeOK'
<1>1. [outcome |-> outcome, committed |-> frame[w].committed] \in Replies
  BY DEF ThreadTypeOK, Frames, Replies
<1>2. QED
  BY <1>1, NoFrameType DEF Return, ThreadTypeOK, Locations

(* Moving on within a call keeps them well typed if its locals are. *)
LEMMA GotoType ==
  ASSUME ThreadTypeOK, NEW w \in Writers, NEW location \in Locations,
         NEW locals \in Frames, Goto(w, location, locals),
         UNCHANGED <<lock, plan>>
  PROVE  ThreadTypeOK'
  BY DEF Goto, ThreadTypeOK

\* Beginning to load the latest checkpoint keeps the threads well typed.
LEMMA LoadType ==
  ASSUME ThreadTypeOK, NEW w \in Writers,
         NEW stage \in {"call", "report", "reuse", "reload"}, Load(w, stage),
         UNCHANGED <<lock, plan>>
  PROVE  ThreadTypeOK'
<1>1. [frame[w] EXCEPT !.stage = stage] \in Frames
  BY DEF ThreadTypeOK, Frames
<1>2. QED  BY <1>1, GotoType DEF Load, Locations

\* An opened store is well typed.
LEMMA InitType == Init => TypeOK
<1> SUFFICES ASSUME Init PROVE TypeOK
  OBVIOUS
<1>1. ThreadTypeOK
  BY NoFrameType, NoPlanType
     DEF Init, ThreadTypeOK, Locations, NoReply, Replies
<1>2. rows \in Rows
  BY LegacyHistoryType, ViewOfType DEF Init
<1>3. /\ DOMAIN versionedLog \in SUBSET Nat
      /\ versionedLog \in [DOMAIN versionedLog -> Entries]
  <2> DEFINE log == EntriesOf(LegacyHistory)
  <2>1. DOMAIN log = 1 .. Len(Legacy)
    BY LegacyHistoryType, EntriesOfProperties
  <2>2. ASSUME NEW n \in 1 .. Len(Legacy)
        PROVE  log[n] \in Entries
    <3>1. LegacyHistory[n] \in Bodies /\ DigestAt(LegacyHistory, n - 1) \in Digests
      BY LegacyHistoryType, EntriesOfProperties, DigestAtProperties
    <3>2. log[n] = [body |-> LegacyHistory[n],
                    previous |-> DigestAt(LegacyHistory, n - 1)]
      BY LegacyHistoryType, EntriesOfProperties DEF EntriesOf
    <3>3. QED  BY <3>1, <3>2 DEF Entries
  <2>3. log = [n \in DOMAIN log |-> log[n]]
    BY DEF EntriesOf
  <2> HIDE DEF log
  <2>4. log \in [DOMAIN log -> Entries]
    BY <2>1, <2>2, <2>3
  <2>5. QED  BY <2>1, <2>4, LegacyHistoryType DEF Init, log
<1>4. DOMAIN outbox \in SUBSET Nat /\ outbox \in [DOMAIN outbox -> Digests]
  <2>1. \A n \in DOMAIN Legacy : DigestAt(LegacyHistory, n) \in Digests
    BY LegacyHistoryType, DigestAtProperties
  <2>2. QED  BY <2>1, LegacyHistoryType DEF Init
<1>5. cursor \in MirrorHeads
  BY EmptySeq DEF Init, NoHead, MirrorHeads, NoDigest, Digests
<1>6. DOMAIN checkpoints = {} /\ checkpoints \in [{} -> Metadata]
  BY DEF Init
<1>7. /\ commitLog \in SUBSET Nat /\ IsFiniteSet(commitLog)
      /\ IsFiniteSet(DOMAIN versionedLog)
  <2>1. commitLog = 1 .. Len(Legacy) /\ Len(Legacy) \in Nat
    BY LegacyHistoryType DEF Init
  <2>2. IsFiniteSet(1 .. Len(Legacy))
    BY <2>1, FS_Interval
  <2>3. versionedLog = EntriesOf(LegacyHistory)
    BY DEF Init
  <2>4. QED  BY <2>1, <2>2, <2>3, LegacyHistoryType, EntriesOfProperties
<1>8. QED
  BY <1>1, <1>2, <1>3, <1>4, <1>5, <1>6, <1>7, LegacyHistoryType
     DEF Init, TypeOK, DurableTypeOK, Counts

(* A step that leaves storage alone leaves its types alone. *)
LEMMA DurableUnchangedType ==
  ASSUME DurableTypeOK, UNCHANGED durableVars
  PROVE  DurableTypeOK'
  BY DEF DurableTypeOK, durableVars, logVars, mirrorVars, checkpointVars

\* Beginning a call keeps the threads well typed.
LEMMA EnterType ==
  ASSUME TypeOK, NEW w \in Writers, NEW location \in Locations,
         NEW locals \in Frames, Enter(w, location, locals)
  PROVE  TypeOK'
<1>1. NoReply \in Replies
  BY DEF NoReply, Replies
<1>2. ThreadTypeOK'
  BY <1>1 DEF TypeOK, Enter, ThreadTypeOK
<1>3. QED  BY <1>2, DurableUnchangedType DEF TypeOK, Enter

\* So does every call a client or the component may begin.
LEMMA CallType ==
  ASSUME TypeOK, NEW w \in Writers, Call(w)
  PROVE  TypeOK'
<1>1. ASSUME NEW operations \in Batches, Prepare(w, operations)
      PROVE  TypeOK'
  <2>1. operations \in Seq(Operations)
    BY BatchesAssumption
  <2>2. Mint(operations) \in Entries
    BY <2>1 DEF Mint, Entries, Bodies, TypeOK, DurableTypeOK
  <2>3. [entry |-> Mint(operations), counts |-> counts] \in Plans
    BY <2>2 DEF Plans, TypeOK, DurableTypeOK
  <2>4. ThreadTypeOK'
    BY <1>1, <2>3 DEF Prepare, TypeOK, ThreadTypeOK, Locations, NoReply, Replies
  <2>5. QED  BY <1>1, <2>4, DurableUnchangedType DEF Prepare, TypeOK
<1>2. ASSUME NEW operations \in Batches, Refuse(w, operations)
      PROVE  TypeOK'
  <2>1. ThreadTypeOK'
    BY <1>2 DEF Refuse, TypeOK, ThreadTypeOK, Errors, Replies
  <2>2. QED  BY <1>2, <2>1, DurableUnchangedType DEF Refuse, TypeOK
<1>3. CASE CallMaintain(w)
  BY <1>3, EnterType, NoFrameType DEF CallMaintain, Locations
<1>4. CASE CallCheckpoint(w)
  BY <1>4, EnterType, NoFrameType DEF CallCheckpoint, Locations
<1>5. ASSUME NEW acknowledgement \in Acknowledgements, CallCompact(w, acknowledgement)
      PROVE  TypeOK'
  <2>1. [NoFrame EXCEPT !.acknowledgement = acknowledgement] \in Frames
    BY NoFrameType DEF Frames
  <2>2. QED  BY <1>5, <2>1, EnterType DEF CallCompact, Locations
<1>6. LocalCheckpoint \in Acknowledgements
  BY DEF LocalCheckpoint, Acknowledgements
<1>7. \A n \in 1 .. MaxCommits : MirrorUpTo(n) \in Acknowledgements
  BY PolicyAssumption DEF MirrorUpTo, Acknowledgements
<1>8. QED  BY <1>1, <1>2, <1>3, <1>4, <1>5, <1>6, <1>7 DEF Call

(* The storage transaction of a write. *)
LEMMA PersistType ==
  ASSUME TypeOK, NEW w \in Writers, Persist(w)
  PROVE  TypeOK'
<1> DEFINE entry == plan[w].entry
           sequence == entry.body.sequence
<1>1. /\ entry \in Entries /\ sequence \in Nat /\ entry.body.snapshot \in Nat
      /\ entry.body.operations \in Seq(Operations)
      /\ entry.body \in Bodies /\ entry.previous \in Digests
      /\ plan[w].counts \in Counts
  BY DEF TypeOK, ThreadTypeOK, Plans, Entries, Bodies
<1>2. EntryDigest(entry) \in Digests
  BY <1>1, AppendKeepsDigests DEF EntryDigest
<1>3. ThreadTypeOK'
  <2>1. [NoFrame EXCEPT !.committed = sequence] \in Frames
    BY <1>1, NoFrameType DEF Frames
  <2>2. /\ lock' = NoWriter
        /\ pc' = [pc EXCEPT ![w] = "budget"]
        /\ plan' = [plan EXCEPT ![w] = NoPlan]
        /\ frame' = [frame EXCEPT ![w] = [NoFrame EXCEPT !.committed = sequence]]
        /\ reply' = reply
    BY DEF Persist
  <2>3. QED
    BY <2>1, <2>2, NoPlanType DEF TypeOK, ThreadTypeOK, Locations
<1>4. rows' \in Rows
  BY <1>1, ApplyType DEF Persist, TypeOK, DurableTypeOK
<1>5. /\ DOMAIN versionedLog' \in SUBSET Nat
      /\ IsFiniteSet(DOMAIN versionedLog')
      /\ versionedLog' \in [DOMAIN versionedLog' -> Entries]
  <2>1. versionedLog' = [n \in DOMAIN versionedLog \cup {sequence} |->
                           IF n = sequence THEN entry ELSE versionedLog[n]]
    BY DEF Persist
  <2>2. \A n \in DOMAIN versionedLog : n \in Nat /\ versionedLog[n] \in Entries
    BY DEF TypeOK, DurableTypeOK
  <2>3. IsFiniteSet(DOMAIN versionedLog \cup {sequence})
    BY FS_AddElement DEF TypeOK, DurableTypeOK
  <2>4. QED  BY <1>1, <2>1, <2>2, <2>3
<1>6. DOMAIN outbox' \in SUBSET Nat /\ outbox' \in [DOMAIN outbox' -> Digests]
  <2>1. outbox' = Recorded(entry)
    BY DEF Persist
  <2>2. \A n \in DOMAIN outbox : n \in Nat /\ outbox[n] \in Digests
    BY DEF TypeOK, DurableTypeOK
  <2>3. CASE topology = "Mirror"
    <3>1. outbox' = [n \in DOMAIN outbox \cup {sequence} |->
                       IF n = sequence THEN EntryDigest(entry) ELSE outbox[n]]
      BY <2>1, <2>3 DEF Recorded
    <3>2. QED  BY <1>1, <1>2, <2>2, <3>1
  <2>4. CASE topology # "Mirror"
    BY <2>1, <2>4 DEF Recorded, TypeOK, DurableTypeOK
  <2>5. QED  BY <2>3, <2>4
<1>7. /\ commitLog' \in SUBSET Nat /\ IsFiniteSet(commitLog')
      /\ chainHead' \in Digests
      /\ marker' \in [sequence : Nat, snapshot : Nat]
      /\ counts' \in Counts
  <2>1. /\ commitLog' = commitLog \cup {sequence}
        /\ chainHead' = EntryDigest(entry)
        /\ marker' = [sequence |-> sequence, snapshot |-> entry.body.snapshot]
        /\ counts' = [commits |-> plan[w].counts.commits + 1,
                      versioned |-> plan[w].counts.versioned + 1]
    BY DEF Persist
  <2>2. plan[w].counts.commits \in Nat /\ plan[w].counts.versioned \in Nat
    BY <1>1 DEF Counts
  <2>3. commitLog \in SUBSET Nat /\ IsFiniteSet(commitLog)
    BY DEF TypeOK, DurableTypeOK
  <2>4. commitLog' \in SUBSET Nat /\ IsFiniteSet(commitLog')
    BY <1>1, <2>1, <2>3, FS_AddElement
  <2>5. marker' \in [sequence : Nat, snapshot : Nat]
    BY <1>1, <2>1
  <2>6. counts' \in Counts
    BY <2>1, <2>2 DEF Counts
  <2>7. QED  BY <1>2, <2>1, <2>4, <2>5, <2>6
<1>8. UNCHANGED <<topology, cursor, checkpoints, segments, latestCheckpoint>>
  BY DEF Persist, checkpointVars
<1>9. QED
  BY <1>3, <1>4, <1>5, <1>6, <1>7, <1>8 DEF TypeOK, DurableTypeOK

\* A failed storage transaction keeps the state well typed.
LEMMA PersistFailsType ==
  ASSUME TypeOK, NEW w \in Writers, PersistFails(w)
  PROVE  TypeOK'
<1>1. ThreadTypeOK'
  BY NoPlanType DEF PersistFails, TypeOK, ThreadTypeOK, Locations, Replies, Errors
<1>2. QED  BY <1>1, DurableUnchangedType DEF PersistFails, TypeOK

(* The reads of maintenance change nothing but the reading thread. *)
LEMMA MaintenanceReadType ==
  ASSUME TypeOK, NEW w \in Writers,
         \/ ReadBudget(w) \/ ReadMirrorHead(w) \/ ValidateAcknowledgement(w)
         \/ Recheck(w) \/ ReadCurrent(w) \/ ReadPointer(w) \/ ReadMetadata(w)
         \/ ReadSegments(w) \/ RequireAcknowledged(w)
  PROVE  TypeOK'
<1> USE DEF TypeOK
<1>1. frame[w] \in Frames
  BY DEF ThreadTypeOK
<1>2. UNCHANGED <<durableVars, lock, plan>>
  BY DEF ReadBudget, ReadMirrorHead, ValidateAcknowledgement, Recheck, ReadCurrent,
         ReadPointer, ReadMetadata, ReadSegments, RequireAcknowledged
<1>3. DurableTypeOK'
  BY <1>2, DurableUnchangedType
<1>4. CASE ReadBudget(w) \/ ReadMirrorHead(w)
  <2>1. LocalCheckpoint \in Acknowledgements
    BY DEF LocalCheckpoint, Acknowledgements
  <2>2. MirrorUpTo(cursor.sequence) \in Acknowledgements
    BY DEF MirrorUpTo, Acknowledgements, DurableTypeOK, MirrorHeads
  <2>3. /\ [frame[w] EXCEPT !.acknowledgement = LocalCheckpoint] \in Frames
        /\ [frame[w] EXCEPT !.acknowledgement = MirrorUpTo(cursor.sequence)]
             \in Frames
    BY <1>1, <2>1, <2>2 DEF Frames
  <2>4. /\ "HistoryCompactionUnacknowledged" \in Errors \cup {"Ok"}
        /\ {"validate", "head"} \subseteq Locations
    BY DEF Errors, Locations
  <2>5. \/ Load(w, "report")
        \/ Goto(w, "head", frame[w])
        \/ Goto(w, "validate", [frame[w] EXCEPT !.acknowledgement = LocalCheckpoint])
        \/ Return(w, "HistoryCompactionUnacknowledged")
        \/ Goto(w, "validate",
                [frame[w] EXCEPT !.acknowledgement = MirrorUpTo(cursor.sequence)])
    BY <1>4 DEF ReadBudget, ReadMirrorHead
  <2>6. QED
    BY <1>1, <1>2, <1>3, <2>3, <2>4, <2>5, LoadType, GotoType, ReturnType
<1>5. CASE ValidateAcknowledgement(w)
  <2>1. \/ Return(w, "HistoryCompactionTopologyMismatch")
        \/ Return(w, "HistoryCompactionUnacknowledged")
        \/ Goto(w, "recheck", frame[w])
    BY <1>5 DEF ValidateAcknowledgement
  <2>2. QED
    BY <1>1, <1>2, <1>3, <2>1, GotoType, ReturnType DEF Errors, Locations
<1>6. CASE Recheck(w)
  BY <1>1, <1>2, <1>3, <1>6, LoadType, GotoType DEF Recheck, Locations
<1>7. CASE ReadCurrent(w)
  <2>1. [frame[w] EXCEPT !.current = marker.sequence, !.stage = "reuse"] \in Frames
    BY <1>1 DEF Frames, DurableTypeOK
  <2>2. QED
    BY <1>2, <1>3, <1>7, <2>1, GotoType DEF ReadCurrent, Locations
<1>8. CASE ReadPointer(w)
  <2>1. [frame[w] EXCEPT !.pointer = latestCheckpoint] \in Frames
    BY <1>1 DEF Frames, DurableTypeOK
  <2>2. \/ Goto(w, "metadata", [frame[w] EXCEPT !.pointer = latestCheckpoint])
        \/ Return(w, "Ok")
        \/ Goto(w, "checkpoint", frame[w])
    BY <1>8 DEF ReadPointer
  <2>3. QED
    BY <1>1, <1>2, <1>3, <2>1, <2>2, GotoType, ReturnType DEF Locations
<1>9. CASE ReadMetadata(w)
  <2>1. \/ Return(w, "CheckpointRowMissing")
        \/ /\ frame[w].pointer \in DOMAIN checkpoints
           /\ Goto(w, "segments",
                   [frame[w] EXCEPT !.loaded = checkpoints[frame[w].pointer]])
    BY <1>9 DEF ReadMetadata
  <2>2. ASSUME frame[w].pointer \in DOMAIN checkpoints
        PROVE  [frame[w] EXCEPT !.loaded = checkpoints[frame[w].pointer]] \in Frames
    <3>1. checkpoints[frame[w].pointer] \in Metadata
      BY <2>2 DEF DurableTypeOK
    <3>2. QED  BY <1>1, <3>1 DEF Frames
  <2>3. QED
    BY <1>2, <1>3, <2>1, <2>2, GotoType, ReturnType DEF Errors, Locations
<1>10. CASE ReadSegments(w)
  <2>1. \/ Return(w, "SegmentMissing")
        \/ Return(w, "Ok")
        \/ Goto(w, "checkpoint", frame[w])
        \/ Goto(w, "acknowledged", frame[w])
    BY <1>10 DEF ReadSegments
  <2>2. QED
    BY <1>1, <1>2, <1>3, <2>1, GotoType, ReturnType DEF Errors, Locations
<1>11. CASE RequireAcknowledged(w)
  <2>1. \/ Goto(w, "compact", frame[w])
        \/ Return(w, "HistoryCompactionUnacknowledged")
    BY <1>11 DEF RequireAcknowledged
  <2>2. QED
    BY <1>1, <1>2, <1>3, <2>1, GotoType, ReturnType DEF Errors, Locations
<1>12. QED
  BY <1>4, <1>5, <1>6, <1>7, <1>8, <1>9, <1>10, <1>11

(* The entries a checkpoint folds are well formed and finitely many. *)
LEMMA UncoveredType ==
  ASSUME DurableTypeOK
  PROVE  /\ DOMAIN Uncovered = {n \in DOMAIN versionedLog : n > Previous.last}
         /\ DOMAIN Uncovered \in SUBSET Nat /\ IsFiniteSet(DOMAIN Uncovered)
         /\ \A n \in DOMAIN Uncovered : /\ Uncovered[n] = versionedLog[n]
                                       /\ Uncovered[n] \in Entries
<1>1. /\ DOMAIN Uncovered = {n \in DOMAIN versionedLog : n > Previous.last}
      /\ \A n \in DOMAIN Uncovered : Uncovered[n] = versionedLog[n]
  BY DEF Uncovered, Suffix
<1>2. IsFiniteSet(DOMAIN Uncovered)
  BY <1>1, FS_Subset DEF DurableTypeOK
<1>3. QED  BY <1>1, <1>2 DEF DurableTypeOK

\* The newest of some sequences is one of them and no other is later.
LEMMA NewestProperties ==
  ASSUME NEW S \in SUBSET Nat, S # {}, IsFiniteSet(S)
  PROVE  Newest(S) \in S /\ \A n \in S : n <= Newest(S)
  BY GreatestExists DEF Newest

\* The oldest of some sequences is one of them and no other is earlier.
LEMMA OldestProperties ==
  ASSUME NEW S \in SUBSET Nat, S # {}, IsFiniteSet(S)
  PROVE  Oldest(S) \in S /\ \A n \in S : Oldest(S) <= n
  BY LeastExists DEF Oldest

(* The rows stored in well-formed segments are rows. *)
LEMMA SegmentRowsType ==
  ASSUME NEW stored \in SUBSET Rows
  PROVE  SegmentRows(stored) \in Rows
  BY DEF SegmentRows, EmptyRows, Rows

\* The metadata checkpoint() writes is well formed.
LEMMA NextCheckpointType ==
  ASSUME DurableTypeOK, CheckpointOutcome = "Ok"
  PROVE  NextCheckpoint \in Metadata
<1>1. Previous \in Metadata
  <2>1. latestCheckpoint = 0 \/ latestCheckpoint \in DOMAIN checkpoints
    BY DEF CheckpointOutcome
  <2>2. QED  BY <2>1, NoCheckpointType DEF Previous, DurableTypeOK
<1>2. DOMAIN Uncovered # {}
  BY DEF CheckpointOutcome
<1> DEFINE last == Newest(DOMAIN Uncovered)
<1>3. /\ last \in DOMAIN Uncovered /\ last \in Nat
      /\ Oldest(DOMAIN Uncovered) \in Nat
  BY <1>2, UncoveredType, NewestProperties, OldestProperties
<1>4. EntryDigest(Uncovered[last]) \in Digests
  <2>1. Uncovered[last].previous \in Digests /\ Uncovered[last].body \in Bodies
    BY <1>3, UncoveredType DEF Entries
  <2>2. QED  BY <2>1, AppendKeepsDigests DEF EntryDigest
<1> DEFINE view == CanonicalView(SegmentRows(Previous.segments), Uncovered)
<1>5. view \in Rows
  <2>1. SegmentRows(Previous.segments) \in Rows
    BY <1>1, SegmentRowsType DEF Metadata
  <2>2. \A n \in DOMAIN Uncovered : Uncovered[n].body \in Bodies
    BY UncoveredType DEF Entries
  <2>3. QED  BY <2>1, <2>2, UncoveredType, CanonicalViewType
<1>6. Chunk(view) \in SUBSET Rows
  <2> HIDE DEF view
  <2>1. QED  BY <1>5 DEF Chunk
<1>7. QED
  <2> DEFINE first == IF latestCheckpoint = 0 THEN Oldest(DOMAIN Uncovered)
                                              ELSE Previous.first
  <2>1. first \in Nat /\ Previous.sequence \in Nat
    BY <1>1, <1>3 DEF Metadata
  <2>2. NextCheckpoint = [sequence |-> Previous.sequence + 1, first |-> first,
                          last |-> last, digest |-> EntryDigest(Uncovered[last]),
                          segments |-> Chunk(view), previous |-> Previous.sequence]
    BY DEF NextCheckpoint, FirstCovered, FoldedRows
  <2> HIDE DEF first, last, view
  <2>3. QED  BY <1>3, <1>4, <1>6, <2>1, <2>2 DEF Metadata

\* checkpoint() keeps the state well typed.
LEMMA TakeCheckpointType ==
  ASSUME TypeOK, NEW w \in Writers, TakeCheckpoint(w)
  PROVE  TypeOK'
<1> USE DEF TypeOK
<1>1. UNCHANGED <<topology, logVars, mirrorVars, lock, plan>>
  BY DEF TakeCheckpoint
<1>2. CASE CheckpointOutcome # "Ok"
  <2>1. Return(w, CheckpointOutcome) /\ UNCHANGED checkpointVars
    BY <1>2 DEF TakeCheckpoint
  <2>2. CheckpointOutcome \in Errors \cup {"Ok"}
    BY DEF CheckpointOutcome, Errors
  <2>3. ThreadTypeOK'
    BY <1>1, <2>1, <2>2, ReturnType
  <2>4. QED  BY <1>1, <2>1, <2>3, DurableUnchangedType DEF durableVars
<1>3. CASE CheckpointOutcome = "Ok"
  <2> DEFINE metadata == NextCheckpoint
  <2>1. metadata \in Metadata /\ metadata.sequence \in Nat
        /\ metadata.segments \in SUBSET Rows
    BY <1>3, NextCheckpointType DEF Metadata
  <2>2. /\ checkpoints' = [n \in DOMAIN checkpoints \cup {metadata.sequence} |->
                              IF n = metadata.sequence THEN metadata
                                                       ELSE checkpoints[n]]
        /\ segments' = segments \cup metadata.segments
        /\ latestCheckpoint' = metadata.sequence
        /\ IF frame[w].stage = "call" THEN Return(w, "Ok") ELSE Load(w, "reload")
    BY <1>3 DEF TakeCheckpoint
  <2> HIDE DEF metadata
  <2>3. \A n \in DOMAIN checkpoints : n \in Nat /\ checkpoints[n] \in Metadata
    BY DEF DurableTypeOK
  <2>4. /\ DOMAIN checkpoints' \in SUBSET Nat
        /\ checkpoints' \in [DOMAIN checkpoints' -> Metadata]
    BY <2>1, <2>2, <2>3
  <2>5. segments' \in SUBSET Rows /\ latestCheckpoint' \in Nat
    BY <2>1, <2>2 DEF DurableTypeOK
  <2>6. DurableTypeOK'
    BY <1>1, <2>4, <2>5 DEF DurableTypeOK, logVars, mirrorVars
  <2>7. ThreadTypeOK'
    BY <1>1, <2>2, ReturnType, LoadType
  <2>8. QED  BY <2>6, <2>7
<1>4. QED  BY <1>2, <1>3

\* Compaction keeps the state well typed.
LEMMA CompactType ==
  ASSUME TypeOK, NEW w \in Writers, Compact(w)
  PROVE  TypeOK'
<1> USE DEF TypeOK
<1> DEFINE loaded == frame[w].loaded
           commitKeys == {n \in commitLog : n <= loaded.last}
           versionedKeys == {n \in DOMAIN versionedLog : n <= loaded.last}
<1>1. loaded \in Metadata
  BY DEF ThreadTypeOK, Frames
<1>2. /\ commitLog' = commitLog \ commitKeys
      /\ versionedLog' = Suffix(versionedLog, loaded.last)
      /\ counts' = AfterRemoving(commitKeys, versionedKeys)
      /\ outbox' = Suffix(outbox, loaded.last)
      /\ checkpoints' = [n \in {loaded.sequence} |-> [loaded EXCEPT !.previous = 0]]
      /\ segments' = segments \cap loaded.segments
      /\ Return(w, "Ok")
      /\ UNCHANGED <<topology, rows, chainHead, marker, cursor, latestCheckpoint,
                     lock, plan>>
  BY DEF Compact, KeysThrough, RetainedSegments
<1>3. Cardinality(commitKeys) \in Nat /\ Cardinality(versionedKeys) \in Nat
  <2>1. IsFiniteSet(commitKeys) /\ IsFiniteSet(versionedKeys)
    BY FS_Subset DEF DurableTypeOK
  <2> HIDE DEF commitKeys, versionedKeys
  <2>2. QED  BY <2>1, FS_CardinalityType
<1>4. counts' \in Counts
  <2>1. counts.commits \in Nat /\ counts.versioned \in Nat
    BY DEF DurableTypeOK, Counts
  <2> HIDE DEF loaded, commitKeys, versionedKeys
  <2>2. \A m, n \in Nat : SaturatingMinus(m, n) \in Nat
    BY DEF SaturatingMinus
  <2>3. QED  BY <1>2, <1>3, <2>1, <2>2 DEF AfterRemoving, Counts
<1>5. commitLog' \in SUBSET Nat /\ IsFiniteSet(commitLog')
  <2>1. commitLog' \subseteq commitLog
    BY <1>2
  <2>2. QED  BY <2>1, FS_Subset DEF DurableTypeOK
<1>6. /\ DOMAIN versionedLog' \in SUBSET Nat
      /\ IsFiniteSet(DOMAIN versionedLog')
      /\ versionedLog' \in [DOMAIN versionedLog' -> Entries]
  <2>1. /\ DOMAIN versionedLog' \subseteq DOMAIN versionedLog
        /\ versionedLog' = [n \in DOMAIN versionedLog' |-> versionedLog[n]]
    BY <1>2 DEF Suffix
  <2>2. QED  BY <2>1, FS_Subset DEF DurableTypeOK
<1>7. DOMAIN outbox' \in SUBSET Nat /\ outbox' \in [DOMAIN outbox' -> Digests]
  <2>1. /\ DOMAIN outbox' \subseteq DOMAIN outbox
        /\ outbox' = [n \in DOMAIN outbox' |-> outbox[n]]
    BY <1>2 DEF Suffix
  <2>2. QED  BY <2>1 DEF DurableTypeOK
<1>8. /\ DOMAIN checkpoints' \in SUBSET Nat
      /\ checkpoints' \in [DOMAIN checkpoints' -> Metadata]
  <2>1. [loaded EXCEPT !.previous = 0] \in Metadata /\ loaded.sequence \in Nat
    BY <1>1 DEF Metadata
  <2> HIDE DEF loaded
  <2>2. QED  BY <1>2, <2>1
<1>9. segments' \in SUBSET Rows
  BY <1>2 DEF DurableTypeOK
<1>10. ThreadTypeOK'
  BY <1>2, ReturnType
<1>11. QED
  BY <1>2, <1>4, <1>5, <1>6, <1>7, <1>8, <1>9, <1>10 DEF DurableTypeOK

\* A storage failure inside maintenance keeps the state well typed.
LEMMA MaintenanceFailsType ==
  ASSUME TypeOK, NEW w \in Writers, MaintenanceFails(w)
  PROVE  TypeOK'
<1>1. /\ Return(w, "StorageFailed")
      /\ UNCHANGED <<durableVars, lock, plan>>
  BY DEF MaintenanceFails
<1>2. ThreadTypeOK'
  BY <1>1, ReturnType DEF TypeOK, Errors
<1>3. QED  BY <1>1, <1>2, DurableUnchangedType DEF TypeOK

\* acknowledge_mirror keeps the state well typed.
LEMMA AcknowledgeType ==
  ASSUME TypeOK, NEW head \in ReportedHeads, Acknowledge(head)
  PROVE  TypeOK'
<1> USE DEF TypeOK
<1>1. CASE Acknowledgement(head) = "Advanced"
  <2>1. head.sequence \in DOMAIN outbox /\ outbox[head.sequence] = head.digest
    BY <1>1 DEF Acknowledgement, Forked
  <2>2. head = [sequence |-> head.sequence, digest |-> head.digest]
    BY DEF ReportedHeads
  <2>3. head \in MirrorHeads
    BY <2>1, <2>2 DEF MirrorHeads, DurableTypeOK
  <2>4. QED
    BY <1>1, <2>3
       DEF Acknowledge, DurableTypeOK, ThreadTypeOK, logVars, checkpointVars, threadVars
<1>2. CASE Acknowledgement(head) # "Advanced"
  BY <1>2
     DEF Acknowledge, DurableTypeOK, ThreadTypeOK, logVars, checkpointVars, threadVars
<1>3. QED  BY <1>1, <1>2

\* A crash and reopening keep the state well typed.
LEMMA CrashType ==
  ASSUME TypeOK, Crash
  PROVE  TypeOK'
<1>1. ThreadTypeOK'
  BY NoPlanType, NoFrameType
     DEF Crash, ThreadTypeOK, Locations, NoReply, Replies
<1>2. QED  BY <1>1, DurableUnchangedType DEF Crash, TypeOK

(* Every table, counter and thread keeps its type, on every path of a write, *)
(* its maintenance, the mirror's acknowledgements and crashes.               *)
THEOREM TypeCorrect == Spec => []TypeOK
<1>1. TypeOK /\ [Next]_vars => TypeOK'
  <2> SUFFICES ASSUME TypeOK, [Next]_vars PROVE TypeOK'
    OBVIOUS
  <2>1. ASSUME NEW w \in Writers, Call(w) PROVE TypeOK'
    BY <2>1, CallType
  <2>2. ASSUME NEW w \in Writers, Proceed(w) PROVE TypeOK'
    BY <2>2, PersistType, PersistFailsType, MaintenanceReadType,
       TakeCheckpointType, CompactType DEF Proceed
  <2>3. ASSUME NEW w \in Writers, MaintenanceFails(w) PROVE TypeOK'
    BY <2>3, MaintenanceFailsType
  <2>4. ASSUME NEW head \in ReportedHeads, Acknowledge(head) PROVE TypeOK'
    BY <2>4, AcknowledgeType
  <2>5. CASE Crash
    BY <2>5, CrashType
  <2>6. CASE UNCHANGED vars
    BY <2>6 DEF vars, durableVars, logVars, mirrorVars, checkpointVars, threadVars,
                TypeOK, DurableTypeOK, ThreadTypeOK
  <2>7. QED  BY <2>1, <2>2, <2>3, <2>4, <2>5, <2>6 DEF Next
<1>2. QED  BY InitType, <1>1, PTL DEF Spec

=============================================================================
