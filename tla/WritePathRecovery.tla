-------------------------- MODULE WritePathRecovery --------------------------
(***************************************************************************)
(* What checkpoints are worth.  With any number of threads every stored    *)
(* checkpoint is a faithful prefix of the history.  With one thread, the   *)
(* engine a component owns alone, the newest checkpoint always loads, the  *)
(* retained log continues it to the current commit, and the fold of both   *)
(* is the rows, through every crash, failure and compaction; and once its  *)
(* write has committed a call fails only for what lies outside the store,  *)
(* storage or a mirror.  The one-thread hypothesis is needed: the run      *)
(* SharedEngine refutes the second statement for two.                      *)
(***************************************************************************)
EXTENDS WritePathSafety

\* A component's own engine: no two threads share it.
OneThread == \A v, w \in Writers : v = w

-----------------------------------------------------------------------------
(* How the reads of maintenance move a thread *)

\* Where a checkpoint has been loaded and is still to be used.
Loaded(w) == pc[w] \in {"segments", "acknowledged", "compact"}

(* The reads of maintenance change one thread's place and locals only; a     *)
(* pointer is the newest checkpoint's, and what is loaded is a stored row    *)
(* that is then carried along.                                               *)
LEMMA ReadsMove ==
  ASSUME TypeOK, NEW w \in Writers,
         \/ ReadBudget(w) \/ ReadMirrorHead(w) \/ ValidateAcknowledgement(w)
         \/ Recheck(w) \/ ReadCurrent(w) \/ ReadPointer(w) \/ ReadMetadata(w)
         \/ ReadSegments(w) \/ RequireAcknowledged(w)
  PROVE  /\ UNCHANGED <<durableVars, lock, plan>>
         /\ \E location, locals :
              /\ location \in Locations
              /\ pc' = [pc EXCEPT ![w] = location]
              /\ frame' = [frame EXCEPT ![w] = locals]
              /\ location = "metadata" =>
                   latestCheckpoint # 0 /\ locals.pointer = latestCheckpoint
              /\ location = "segments" =>
                   /\ pc[w] = "metadata" /\ frame[w].pointer \in DOMAIN checkpoints
                   /\ locals.loaded = checkpoints[frame[w].pointer]
              /\ location \in {"acknowledged", "compact"} =>
                   Loaded(w) /\ locals = frame[w]
<1>1. UNCHANGED <<durableVars, lock, plan>>
  BY DEF ReadBudget, ReadMirrorHead, ValidateAcknowledgement, Recheck, ReadCurrent,
         ReadPointer, ReadMetadata, ReadSegments, RequireAcknowledged
<1> DEFINE Moved(location, locals) ==
             /\ pc' = [pc EXCEPT ![w] = location]
             /\ frame' = [frame EXCEPT ![w] = locals]
           Target ==
             \E location, locals :
               /\ location \in Locations
               /\ Moved(location, locals)
               /\ location = "metadata" =>
                    latestCheckpoint # 0 /\ locals.pointer = latestCheckpoint
               /\ location = "segments" =>
                    /\ pc[w] = "metadata" /\ frame[w].pointer \in DOMAIN checkpoints
                    /\ locals.loaded = checkpoints[frame[w].pointer]
               /\ location \in {"acknowledged", "compact"} =>
                    Loaded(w) /\ locals = frame[w]
<1>2. frame[w] \in Frames
  BY DEF TypeOK, ThreadTypeOK
<1>3. ASSUME NEW location \in Locations, NEW locals, Moved(location, locals),
             location \notin {"metadata", "segments", "acknowledged", "compact"}
      PROVE  Target
  BY <1>3
<1> SUFFICES Target
  BY <1>1
<1> HIDE DEF Moved, Target
<1>4. ASSUME NEW outcome, Return(w, outcome)
      PROVE  Target
  <2>1. Moved("idle", NoFrame)
    BY <1>4 DEF Return, Moved
  <2>2. QED  BY <1>3, <2>1 DEF Locations
<1>5. ASSUME NEW location \in {"head", "validate", "recheck", "current", "pointer",
                               "checkpoint"},
             NEW locals, Goto(w, location, locals)
      PROVE  Target
  <2>1. Moved(location, locals) /\ location \in Locations
    BY <1>5 DEF Goto, Moved, Locations
  <2>2. QED  BY <1>3, <1>5, <2>1
<1>6. CASE \/ ReadBudget(w) \/ ReadMirrorHead(w) \/ ValidateAcknowledgement(w)
           \/ Recheck(w) \/ ReadCurrent(w)
  <2>1. \/ \E outcome : Return(w, outcome)
        \/ \E locals : \/ Goto(w, "pointer", locals) \/ Goto(w, "validate", locals)
                       \/ Goto(w, "head", locals) \/ Goto(w, "recheck", locals)
                       \/ Goto(w, "current", locals)
    BY <1>6 DEF ReadBudget, ReadMirrorHead, ValidateAcknowledgement, Recheck,
                ReadCurrent, Load
  <2>2. QED  BY <1>4, <1>5, <2>1
<1>7. CASE ReadPointer(w)
  <2> DEFINE locals == [frame[w] EXCEPT !.pointer = latestCheckpoint]
  <2>1. \/ latestCheckpoint # 0 /\ Goto(w, "metadata", locals)
        \/ Return(w, "Ok")
        \/ Goto(w, "checkpoint", frame[w])
    BY <1>7 DEF ReadPointer
  <2>2. locals.pointer = latestCheckpoint
    BY <1>2 DEF Frames
  <2> HIDE DEF locals
  <2>3. ASSUME latestCheckpoint # 0, Goto(w, "metadata", locals)
        PROVE  Target
    <3>1. Moved("metadata", locals) /\ "metadata" \in Locations
      BY <2>3 DEF Goto, Moved, Locations
    <3>2. QED  BY <2>2, <2>3, <3>1 DEF Target
  <2>4. QED  BY <1>4, <1>5, <2>1, <2>3
<1>8. CASE ReadMetadata(w)
  <2> DEFINE locals == [frame[w] EXCEPT !.loaded = checkpoints[frame[w].pointer]]
  <2>1. \/ Return(w, "CheckpointRowMissing")
        \/ /\ pc[w] = "metadata" /\ frame[w].pointer \in DOMAIN checkpoints
           /\ Goto(w, "segments", locals)
    BY <1>8 DEF ReadMetadata
  <2>2. locals.loaded = checkpoints[frame[w].pointer]
    BY <1>2 DEF Frames
  <2> HIDE DEF locals
  <2>3. ASSUME pc[w] = "metadata", frame[w].pointer \in DOMAIN checkpoints,
               Goto(w, "segments", locals)
        PROVE  Target
    <3>1. Moved("segments", locals) /\ "segments" \in Locations
      BY <2>3 DEF Goto, Moved, Locations
    <3>2. QED  BY <2>2, <2>3, <3>1 DEF Target
  <2>4. QED  BY <1>4, <2>1, <2>3
<1>9. CASE ReadSegments(w) \/ RequireAcknowledged(w)
  <2>1. /\ Loaded(w)
        /\ \/ \E outcome : Return(w, outcome)
           \/ Goto(w, "checkpoint", frame[w])
           \/ Goto(w, "acknowledged", frame[w])
           \/ Goto(w, "compact", frame[w])
    BY <1>9 DEF ReadSegments, RequireAcknowledged, Loaded
  <2>2. ASSUME NEW location \in {"acknowledged", "compact"},
               Goto(w, location, frame[w])
        PROVE  Target
    <3>1. Moved(location, frame[w]) /\ location \in Locations
      BY <2>2 DEF Goto, Moved, Locations
    <3>2. QED  BY <2>1, <2>2, <3>1 DEF Target
  <2>3. QED  BY <1>4, <1>5, <2>1, <2>2
<1>10. QED  BY <1>6, <1>7, <1>8, <1>9

-----------------------------------------------------------------------------
(* Checkpoints are faithful, with any number of threads *)

\* What a checkpoint's metadata says of the history with this head.
Faithful(head, metadata) ==
  /\ metadata.first = 1 /\ metadata.last \in DOMAIN head
  /\ metadata.digest = DigestAt(head, metadata.last)
  /\ metadata.segments = Chunk(ViewOf(DigestAt(head, metadata.last)))

\* Compaction writes back what it loaded without the lock, so the metadata in
\* a thread's locals must be as faithful as what is stored.
LoadedFaithful ==
  \A w \in Writers : Loaded(w) => Faithful(chainHead, frame[w].loaded)

CheckpointsSound == CheckpointsFaithful /\ LoadedFaithful

\* CheckpointsFaithful in terms of Faithful.
LEMMA StoredFaithful ==
  CheckpointsFaithful <=> \A n \in DOMAIN checkpoints :
                            /\ checkpoints[n].sequence = n
                            /\ Faithful(chainHead, checkpoints[n])
  BY DEF CheckpointsFaithful, Faithful

\* A commit makes no checkpoint unfaithful: it only extends the history.
LEMMA FaithfulKept ==
  ASSUME NEW head \in Digests, NEW body \in Bodies, NEW metadata,
         Faithful(head, metadata)
  PROVE  Faithful(Append(head, body), metadata)
<1> DEFINE longer == Append(head, body)
<1>1. /\ Len(head) \in Nat /\ DOMAIN head = 1 .. Len(head)
      /\ longer \in Digests /\ Len(longer) = Len(head) + 1
  BY EntriesOfProperties, AppendKeepsDigests
<1>2. /\ metadata.last \in DOMAIN longer
      /\ metadata.last \in 0 .. Len(head)
  <2> HIDE DEF longer
  <2>1. DOMAIN longer = 1 .. Len(longer)
    BY <1>1, EntriesOfProperties
  <2>2. QED  BY <1>1, <2>1 DEF Faithful
<1>3. DigestAt(longer, metadata.last) = DigestAt(head, metadata.last)
  BY <1>2, AppendKeepsDigests
<1>4. QED  BY <1>2, <1>3 DEF Faithful

\* The view of no history is no row.
LEMMA ViewOfNothing == ViewOf(NoDigest) = EmptyRows
<1>1. DOMAIN EntriesOf(NoDigest) = {}
  BY DEF EntriesOf, NoDigest
<1>2. QED  BY <1>1 DEF ViewOf, CanonicalView, EmptyRows

(* The checkpoint the next one builds on, be it the absent one, is a prefix  *)
(* of the history, and its segments read back as that prefix's view.         *)
LEMMA PreviousIsPrefix ==
  ASSUME TypeOK, CheckpointsFaithful,
         latestCheckpoint # 0 => latestCheckpoint \in DOMAIN checkpoints
  PROVE  /\ Len(chainHead) \in Nat /\ DOMAIN chainHead = 1 .. Len(chainHead)
         /\ Previous.last \in 0 .. Len(chainHead)
         /\ Previous.digest = DigestAt(chainHead, Previous.last)
         /\ SegmentRows(Previous.segments)
              = ViewOf(DigestAt(chainHead, Previous.last))
         /\ Previous.sequence = latestCheckpoint
<1>1. /\ chainHead \in Digests
      /\ Len(chainHead) \in Nat /\ DOMAIN chainHead = 1 .. Len(chainHead)
  BY EntriesOfProperties DEF TypeOK, DurableTypeOK
<1>2. CASE latestCheckpoint = 0
  <2>1. /\ Previous.last = 0 /\ Previous.digest = NoDigest
        /\ Previous.segments = {} /\ Previous.sequence = 0
    BY <1>2 DEF Previous, NoCheckpoint
  <2>2. DigestAt(chainHead, 0) = NoDigest
    BY <1>1, DigestAtProperties
  <2>3. SegmentRows({}) = EmptyRows
    BY DEF SegmentRows
  <2>4. QED  BY <1>1, <1>2, <2>1, <2>2, <2>3, ViewOfNothing
<1>3. CASE latestCheckpoint # 0
  <2>1. /\ Faithful(chainHead, Previous) /\ Previous.sequence = latestCheckpoint
    BY <1>3, StoredFaithful DEF Previous
  <2>2. /\ Previous.last \in 1 .. Len(chainHead)
        /\ Previous.digest = DigestAt(chainHead, Previous.last)
        /\ Previous.segments = Chunk(ViewOf(DigestAt(chainHead, Previous.last)))
    BY <1>1, <2>1 DEF Faithful
  <2>3. SegmentRows(Previous.segments) = ViewOf(DigestAt(chainHead, Previous.last))
    BY <2>2, SegmentRowsOfChunk
  <2>4. Previous.last \in 0 .. Len(chainHead)
    BY <1>1, <2>2
  <2>5. QED  BY <1>1, <2>1, <2>2, <2>3, <2>4
<1>4. QED  BY <1>2, <1>3

\* A logged entry, in terms of the chain.
LEMMA LoggedEntry ==
  ASSUME TypeOK, Safe, NEW n \in DOMAIN versionedLog
  PROVE  /\ n \in 1 .. Len(chainHead) /\ Len(chainHead) \in Nat
         /\ versionedLog[n].body = chainHead[n]
         /\ versionedLog[n].previous = DigestAt(chainHead, n - 1)
         /\ EntryDigest(versionedLog[n]) = DigestAt(chainHead, n)
         /\ \A m \in n .. Len(chainHead) : m \in DOMAIN versionedLog
<1>1. /\ chainHead \in Digests /\ versionedLog[n] \in Entries
      /\ Len(chainHead) \in Nat /\ DOMAIN chainHead = 1 .. Len(chainHead)
  BY EntriesOfProperties DEF TypeOK, DurableTypeOK
<1>2. /\ n \in 1 .. Len(chainHead)
      /\ EntryDigest(versionedLog[n]) = DigestAt(chainHead, n)
      /\ \A m \in n .. Len(chainHead) : m \in DOMAIN versionedLog
  BY <1>1 DEF Safe, LogIntact
<1>3. QED  BY <1>1, <1>2, EntryOfDigest

(* When the entries after the previous checkpoint are all there, their fold  *)
(* over its segments is the view of the whole history.                       *)
LEMMA FoldedRowsAreView ==
  ASSUME TypeOK, Safe, CheckpointsFaithful,
         latestCheckpoint # 0 => latestCheckpoint \in DOMAIN checkpoints,
         DOMAIN Uncovered = Previous.last + 1 .. Len(chainHead)
  PROVE  FoldedRows = ViewOf(chainHead)
<1> DEFINE cut == Previous.last
<1>1. /\ cut \in 0 .. Len(chainHead)
      /\ SegmentRows(Previous.segments) = ViewOf(DigestAt(chainHead, cut))
  BY PreviousIsPrefix
<1>2. chainHead \in Digests
  BY DEF TypeOK, DurableTypeOK
<1>3. \A n \in DOMAIN Uncovered : Uncovered[n].body = chainHead[n]
  BY UncoveredType, LoggedEntry DEF TypeOK
<1> DEFINE log == Uncovered
<1>4. DOMAIN log = cut + 1 .. Len(chainHead) /\ \A n \in DOMAIN log : log[n].body = chainHead[n]
  BY <1>3
<1> HIDE DEF cut, log
<1>5. CanonicalView(ViewOf(DigestAt(chainHead, cut)), log) = ViewOf(chainHead)
  BY <1>1, <1>2, <1>4, FoldSplit
<1>6. QED  BY <1>1, <1>5 DEF FoldedRows, log, cut

(* The chain check of checkpoint() leaves no gap: the oldest entry it folds  *)
(* names the previous checkpoint's digest, and a digest names its sequence.  *)
LEMMA CheckpointLeavesNoGap ==
  ASSUME TypeOK, Safe, CheckpointsFaithful, CheckpointOutcome = "Ok"
  PROVE  /\ latestCheckpoint # 0 => latestCheckpoint \in DOMAIN checkpoints
         /\ DOMAIN Uncovered = Previous.last + 1 .. Len(chainHead)
         /\ Previous.last < Len(chainHead)
<1>1. /\ latestCheckpoint # 0 => latestCheckpoint \in DOMAIN checkpoints
      /\ DOMAIN Uncovered # {}
      /\ ChainVerifies(Uncovered, Previous.digest)
  BY DEF CheckpointOutcome
<1> DEFINE cut == Previous.last
           oldest == Oldest(DOMAIN Uncovered)
<1>2. /\ Len(chainHead) \in Nat /\ DOMAIN chainHead = 1 .. Len(chainHead)
      /\ cut \in 0 .. Len(chainHead)
      /\ Previous.digest = DigestAt(chainHead, cut)
      /\ chainHead \in Digests
  BY <1>1, PreviousIsPrefix DEF TypeOK, DurableTypeOK
<1>3. /\ DOMAIN Uncovered = {n \in DOMAIN versionedLog : n > cut}
      /\ DOMAIN Uncovered \in SUBSET Nat /\ IsFiniteSet(DOMAIN Uncovered)
      /\ \A n \in DOMAIN Uncovered : Uncovered[n] = versionedLog[n]
  BY UncoveredType DEF TypeOK
<1>4. oldest \in DOMAIN Uncovered /\ \A n \in DOMAIN Uncovered : oldest <= n
  BY <1>1, <1>3, OldestProperties
<1> HIDE DEF cut, oldest
<1>5. Uncovered[oldest].previous = Previous.digest
  <2>1. {m \in DOMAIN Uncovered : m < oldest} = {}
    BY <1>3, <1>4
  <2>2. QED  BY <1>1, <1>4, <2>1 DEF ChainVerifies
<1>6. /\ oldest \in 1 .. Len(chainHead) /\ oldest > cut
      /\ versionedLog[oldest].previous = DigestAt(chainHead, oldest - 1)
      /\ \A m \in oldest .. Len(chainHead) : m \in DOMAIN versionedLog
  BY <1>3, <1>4, LoggedEntry
<1>7. oldest = cut + 1
  <2>1. DigestAt(chainHead, oldest - 1) = DigestAt(chainHead, cut)
    BY <1>2, <1>3, <1>4, <1>5, <1>6
  <2>2. oldest - 1 \in 0 .. Len(chainHead)
    BY <1>2, <1>6
  <2>3. oldest - 1 = cut
    BY <1>2, <2>1, <2>2, DigestAtInjective
  <2>4. QED  BY <1>2, <1>6, <2>3
<1>8. \A n \in DOMAIN Uncovered : n \in cut + 1 .. Len(chainHead)
  <2>1. \A n \in DOMAIN versionedLog : n \in 1 .. Len(chainHead)
    BY LoggedEntry
  <2>2. QED  BY <1>2, <1>3, <2>1
<1>9. \A n \in cut + 1 .. Len(chainHead) : n \in DOMAIN Uncovered
  BY <1>2, <1>3, <1>6, <1>7
<1>10. DOMAIN Uncovered = cut + 1 .. Len(chainHead)
  BY <1>8, <1>9, Zenon
<1>11. cut < Len(chainHead)
  BY <1>2, <1>6, <1>7
<1>12. QED  BY <1>1, <1>10, <1>11 DEF cut

\* What checkpoint() writes is the whole history's view, and faithful.
LEMMA NextCheckpointFaithful ==
  ASSUME TypeOK, Safe, CheckpointsFaithful, CheckpointOutcome = "Ok"
  PROVE  /\ Faithful(chainHead, NextCheckpoint)
         /\ NextCheckpoint.last = Len(chainHead)
         /\ NextCheckpoint.sequence = latestCheckpoint + 1
<1>1. /\ latestCheckpoint # 0 => latestCheckpoint \in DOMAIN checkpoints
      /\ DOMAIN Uncovered = Previous.last + 1 .. Len(chainHead)
      /\ Previous.last < Len(chainHead)
  BY CheckpointLeavesNoGap
<1>2. /\ Len(chainHead) \in Nat /\ DOMAIN chainHead = 1 .. Len(chainHead)
      /\ Previous.last \in 0 .. Len(chainHead)
      /\ Previous.sequence = latestCheckpoint
      /\ chainHead \in Digests
  BY <1>1, PreviousIsPrefix DEF TypeOK, DurableTypeOK
<1>3. /\ DOMAIN Uncovered # {} /\ DOMAIN Uncovered \in SUBSET Nat
      /\ IsFiniteSet(DOMAIN Uncovered)
      /\ \A n \in DOMAIN Uncovered : n \in DOMAIN versionedLog /\ Uncovered[n] = versionedLog[n]
  BY UncoveredType DEF TypeOK, CheckpointOutcome
<1>4. Newest(DOMAIN Uncovered) = Len(chainHead)
  <2>1. /\ Newest(DOMAIN Uncovered) \in DOMAIN Uncovered
        /\ \A n \in DOMAIN Uncovered : n <= Newest(DOMAIN Uncovered)
    BY <1>3, NewestProperties
  <2>2. Len(chainHead) \in DOMAIN Uncovered
    BY <1>1, <1>2
  <2>3. QED  BY <1>1, <1>2, <2>1, <2>2
<1>5. FirstCovered = 1
  <2>1. CASE latestCheckpoint = 0
    <3>1. Previous.last = 0
      BY <2>1 DEF Previous, NoCheckpoint
    <3>2. /\ Oldest(DOMAIN Uncovered) \in DOMAIN Uncovered
          /\ \A n \in DOMAIN Uncovered : Oldest(DOMAIN Uncovered) <= n
      BY <1>3, OldestProperties
    <3>3. 1 \in DOMAIN Uncovered
      BY <1>1, <1>2, <3>1
    <3>4. Oldest(DOMAIN Uncovered) = 1
      BY <1>1, <1>2, <3>1, <3>2, <3>3
    <3>5. QED  BY <2>1, <3>4 DEF FirstCovered
  <2>2. CASE latestCheckpoint # 0
    BY <1>1, <2>2 DEF FirstCovered, Previous, CheckpointsFaithful
  <2>3. QED  BY <2>1, <2>2
<1>6. EntryDigest(Uncovered[Len(chainHead)]) = DigestAt(chainHead, Len(chainHead))
  <2>1. Len(chainHead) \in DOMAIN Uncovered
    BY <1>1, <1>2
  <2>2. QED  BY <1>3, <2>1, LoggedEntry
<1>7. FoldedRows = ViewOf(DigestAt(chainHead, Len(chainHead)))
  <2>1. DigestAt(chainHead, Len(chainHead)) = chainHead
    BY <1>2, DigestAtProperties
  <2>2. QED  BY <1>1, <2>1, FoldedRowsAreView
<1>8. /\ NextCheckpoint.first = 1 /\ NextCheckpoint.last = Len(chainHead)
      /\ NextCheckpoint.digest = DigestAt(chainHead, Len(chainHead))
      /\ NextCheckpoint.segments = Chunk(ViewOf(DigestAt(chainHead, Len(chainHead))))
      /\ NextCheckpoint.sequence = latestCheckpoint + 1
  BY <1>2, <1>4, <1>5, <1>6, <1>7 DEF NextCheckpoint
<1>9. NextCheckpoint.last \in DOMAIN chainHead
  BY <1>1, <1>2, <1>8
<1>10. QED  BY <1>8, <1>9 DEF Faithful

\* No checkpoint is stored or loaded in a store that opens.
LEMMA InitCheckpointsSound == Init => CheckpointsSound
<1> SUFFICES ASSUME Init PROVE CheckpointsSound
  OBVIOUS
<1>1. DOMAIN checkpoints = {} /\ \A w \in Writers : ~Loaded(w)
  BY DEF Init, Loaded
<1>2. QED  BY <1>1 DEF CheckpointsSound, CheckpointsFaithful, LoadedFaithful

(* A step that leaves the chain and the stored rows alone keeps both parts,  *)
(* if what threads hold is what they held or a stored row.                   *)
LEMMA QuietCheckpointsSound ==
  ASSUME CheckpointsSound, UNCHANGED <<chainHead, checkpoints>>,
         \A v \in Writers : Loaded(v)' =>
           \/ Loaded(v) /\ frame'[v].loaded = frame[v].loaded
           \/ \E n \in DOMAIN checkpoints : frame'[v].loaded = checkpoints[n]
  PROVE  CheckpointsSound'
<1>1. \A n \in DOMAIN checkpoints : Faithful(chainHead, checkpoints[n])
  BY StoredFaithful DEF CheckpointsSound
<1>2. ASSUME NEW v \in Writers, Loaded(v)'
      PROVE  Faithful(chainHead, frame'[v].loaded)
  <2>1. CASE Loaded(v) /\ frame'[v].loaded = frame[v].loaded
    BY <2>1 DEF CheckpointsSound, LoadedFaithful
  <2>2. CASE \E n \in DOMAIN checkpoints : frame'[v].loaded = checkpoints[n]
    BY <1>1, <2>2
  <2>3. QED  BY <1>2, <2>1, <2>2
<1>3. LoadedFaithful'
  BY <1>2 DEF LoadedFaithful
<1>4. CheckpointsFaithful'
  BY DEF CheckpointsSound, CheckpointsFaithful
<1>5. QED  BY <1>3, <1>4 DEF CheckpointsSound

\* The transaction of a write extends the history under every checkpoint.
LEMMA PersistCheckpointsSound ==
  ASSUME TypeOK, Safe, CheckpointsSound, NEW w \in Writers, Persist(w)
  PROVE  CheckpointsSound'
<1> DEFINE body == plan[w].entry.body
<1>1. /\ chainHead' = Append(chainHead, body) /\ body \in Bodies
      /\ chainHead \in Digests
  BY PlanExtendsChain DEF Persist, EntryDigest, TypeOK, DurableTypeOK
<1> HIDE DEF body
<1>2. /\ checkpoints' = checkpoints
      /\ pc' = [pc EXCEPT ![w] = "budget"]
      /\ \A v \in Writers : v # w => frame'[v] = frame[v]
  BY DEF Persist, checkpointVars, TypeOK, ThreadTypeOK
<1>3. \A v \in Writers : Loaded(v)' => Loaded(v) /\ frame'[v] = frame[v]
  BY <1>2 DEF Loaded, TypeOK, ThreadTypeOK
<1>4. CheckpointsFaithful'
  <2>1. \A n \in DOMAIN checkpoints : /\ checkpoints[n].sequence = n
                                      /\ Faithful(chainHead, checkpoints[n])
    BY StoredFaithful DEF CheckpointsSound
  <2>2. \A n \in DOMAIN checkpoints : Faithful(chainHead', checkpoints[n])
    BY <1>1, <2>1, FaithfulKept
  <2>3. QED  BY <1>2, <2>1, <2>2 DEF CheckpointsFaithful, Faithful
<1>5. LoadedFaithful'
  <2>1. \A v \in Writers : Loaded(v) => Faithful(chainHead, frame[v].loaded)
    BY DEF CheckpointsSound, LoadedFaithful
  <2>2. \A v \in Writers : Loaded(v) => Faithful(chainHead', frame[v].loaded)
    BY <1>1, <2>1, FaithfulKept
  <2>3. QED  BY <1>3, <2>2 DEF LoadedFaithful
<1>6. QED  BY <1>4, <1>5 DEF CheckpointsSound

\* checkpoint() adds a faithful row.
LEMMA TakeCheckpointSound ==
  ASSUME TypeOK, Safe, CheckpointsSound, NEW w \in Writers, TakeCheckpoint(w)
  PROVE  CheckpointsSound'
<1>1. /\ UNCHANGED chainHead
      /\ \A v \in Writers : Loaded(v)' => Loaded(v) /\ frame'[v] = frame[v]
  <2>1. \/ \E outcome : Return(w, outcome)
        \/ Goto(w, "pointer", [frame[w] EXCEPT !.stage = "reload"])
    BY DEF TakeCheckpoint, Load
  <2>2. /\ \A v \in Writers \ {w} : pc'[v] = pc[v] /\ frame'[v] = frame[v]
        /\ pc'[w] \in {"idle", "pointer"}
    BY <2>1 DEF Return, Goto, TypeOK, ThreadTypeOK
  <2>3. QED  BY <2>2 DEF Loaded, TakeCheckpoint, logVars
<1>2. CASE CheckpointOutcome # "Ok"
  <2>1. UNCHANGED checkpoints
    BY <1>2 DEF TakeCheckpoint, checkpointVars
  <2>2. QED  BY <1>1, <2>1, QuietCheckpointsSound
<1>3. CASE CheckpointOutcome = "Ok"
  <2> DEFINE metadata == NextCheckpoint
  <2>1. checkpoints' = [n \in DOMAIN checkpoints \cup {metadata.sequence} |->
                          IF n = metadata.sequence THEN metadata ELSE checkpoints[n]]
    BY <1>3 DEF TakeCheckpoint
  <2>2. Faithful(chainHead, metadata)
    BY <1>3, NextCheckpointFaithful DEF CheckpointsSound
  <2> HIDE DEF metadata
  <2>3. \A n \in DOMAIN checkpoints : /\ checkpoints[n].sequence = n
                                      /\ Faithful(chainHead, checkpoints[n])
    BY StoredFaithful DEF CheckpointsSound
  <2>4. \A n \in DOMAIN checkpoints' : /\ checkpoints'[n].sequence = n
                                       /\ Faithful(chainHead, checkpoints'[n])
    BY <2>1, <2>2, <2>3
  <2>5. CheckpointsFaithful'
    BY <1>1, <2>4 DEF CheckpointsFaithful, Faithful
  <2>6. LoadedFaithful'
    BY <1>1 DEF CheckpointsSound, LoadedFaithful
  <2>7. QED  BY <2>5, <2>6 DEF CheckpointsSound
<1>4. QED  BY <1>2, <1>3

\* Compaction writes back a faithful row, however old what it loaded is.
LEMMA CompactCheckpointsSound ==
  ASSUME TypeOK, CheckpointsSound, NEW w \in Writers, Compact(w)
  PROVE  CheckpointsSound'
<1> DEFINE loaded == frame[w].loaded
           root == [loaded EXCEPT !.previous = 0]
<1>1. /\ checkpoints' = [n \in {loaded.sequence} |-> root]
      /\ UNCHANGED chainHead
      /\ pc[w] = "compact" /\ pc' = [pc EXCEPT ![w] = "idle"]
      /\ frame' = [frame EXCEPT ![w] = NoFrame]
  BY DEF Compact, Return
<1>2. Faithful(chainHead, loaded)
  BY <1>1 DEF CheckpointsSound, LoadedFaithful, Loaded
<1>3. loaded \in Metadata
  BY DEF TypeOK, ThreadTypeOK, Frames
<1>4. root.sequence = loaded.sequence /\ Faithful(chainHead, root)
  BY <1>2, <1>3 DEF Metadata, Faithful
<1> HIDE DEF loaded, root
<1>5. \A n \in DOMAIN checkpoints' : /\ checkpoints'[n].sequence = n
                                     /\ Faithful(chainHead, checkpoints'[n])
  BY <1>1, <1>4
<1>6. CheckpointsFaithful'
  BY <1>1, <1>5 DEF CheckpointsFaithful, Faithful
<1>7. \A v \in Writers : Loaded(v)' => Loaded(v) /\ frame'[v] = frame[v]
  BY <1>1 DEF Loaded, TypeOK, ThreadTypeOK
<1>8. LoadedFaithful'
  BY <1>1, <1>7 DEF CheckpointsSound, LoadedFaithful
<1>9. QED  BY <1>6, <1>8 DEF CheckpointsSound

\* The calls that begin load nothing, and those that fail end.
LEMMA BeginLoadsNothing ==
  ASSUME TypeOK, NEW w \in Writers,
         Call(w) \/ PersistFails(w) \/ MaintenanceFails(w)
  PROVE  /\ UNCHANGED durableVars
         /\ pc'[w] \in {"idle", "persist", "budget", "checkpoint", "validate"}
         /\ \A v \in Writers \ {w} : pc'[v] = pc[v] /\ frame'[v] = frame[v]
<1>1. CASE PersistFails(w)
  BY <1>1 DEF PersistFails, TypeOK, ThreadTypeOK
<1>2. ASSUME NEW operations, Prepare(w, operations) \/ Refuse(w, operations)
      PROVE  /\ UNCHANGED durableVars
             /\ pc'[w] \in {"idle", "persist"}
             /\ \A v \in Writers \ {w} : pc'[v] = pc[v] /\ frame'[v] = frame[v]
  BY <1>2 DEF Prepare, Refuse, TypeOK, ThreadTypeOK
<1>3. ASSUME NEW location, NEW locals, Enter(w, location, locals)
      PROVE  /\ UNCHANGED durableVars
             /\ pc'[w] = location
             /\ \A v \in Writers \ {w} : pc'[v] = pc[v] /\ frame'[v] = frame[v]
  BY <1>3 DEF Enter, TypeOK, ThreadTypeOK
<1>4. CASE CallMaintain(w) \/ CallCheckpoint(w)
           \/ \E acknowledgement : CallCompact(w, acknowledgement)
  BY <1>3, <1>4 DEF CallMaintain, CallCheckpoint, CallCompact
<1>5. CASE MaintenanceFails(w)
  BY <1>5 DEF MaintenanceFails, Return, TypeOK, ThreadTypeOK
<1>6. QED  BY <1>1, <1>2, <1>4, <1>5 DEF Call

\* CheckpointsSound is inductive, given Safe.
LEMMA NextCheckpointsSound ==
  TypeOK /\ Safe /\ CheckpointsSound /\ [Next]_vars => CheckpointsSound'
<1> SUFFICES ASSUME TypeOK, Safe, CheckpointsSound, [Next]_vars
             PROVE  CheckpointsSound'
  OBVIOUS
<1> USE DEF durableVars, logVars, checkpointVars
<1>1. ASSUME NEW w \in Writers,
             Call(w) \/ PersistFails(w) \/ MaintenanceFails(w)
      PROVE  CheckpointsSound'
  <2>1. \A v \in Writers : Loaded(v)' => Loaded(v) /\ frame'[v] = frame[v]
    BY <1>1, BeginLoadsNothing DEF Loaded
  <2>2. QED  BY <1>1, <2>1, BeginLoadsNothing, QuietCheckpointsSound
<1>2. ASSUME NEW w \in Writers,
             \/ ReadBudget(w) \/ ReadMirrorHead(w) \/ ValidateAcknowledgement(w)
             \/ Recheck(w) \/ ReadCurrent(w) \/ ReadPointer(w) \/ ReadMetadata(w)
             \/ ReadSegments(w) \/ RequireAcknowledged(w)
      PROVE  CheckpointsSound'
  <2>1. PICK location, locals :
          /\ location \in Locations
          /\ pc' = [pc EXCEPT ![w] = location]
          /\ frame' = [frame EXCEPT ![w] = locals]
          /\ location = "segments" =>
               /\ pc[w] = "metadata" /\ frame[w].pointer \in DOMAIN checkpoints
               /\ locals.loaded = checkpoints[frame[w].pointer]
          /\ location \in {"acknowledged", "compact"} =>
               Loaded(w) /\ locals = frame[w]
    BY <1>2, ReadsMove
  <2>2. /\ pc'[w] = location /\ frame'[w] = locals
        /\ \A v \in Writers \ {w} : pc'[v] = pc[v] /\ frame'[v] = frame[v]
    BY <2>1 DEF TypeOK, ThreadTypeOK
  <2>3. ASSUME NEW v \in Writers, Loaded(v)'
        PROVE  \/ Loaded(v) /\ frame'[v].loaded = frame[v].loaded
               \/ \E n \in DOMAIN checkpoints : frame'[v].loaded = checkpoints[n]
    <3>1. CASE v # w
      BY <2>2, <2>3, <3>1 DEF Loaded
    <3>2. CASE v = w
      <4>1. location \in {"segments", "acknowledged", "compact"}
        BY <2>2, <2>3, <3>2 DEF Loaded
      <4>2. QED  BY <2>1, <2>2, <3>2, <4>1
    <3>3. QED  BY <3>1, <3>2
  <2>4. UNCHANGED <<chainHead, checkpoints>>
    BY <1>2, ReadsMove
  <2>5. QED  BY <2>3, <2>4, QuietCheckpointsSound
<1>3. ASSUME NEW head \in ReportedHeads, Acknowledge(head)
      PROVE  CheckpointsSound'
  BY <1>3, QuietCheckpointsSound DEF Acknowledge, threadVars, Loaded
<1>4. CASE Crash
  BY <1>4, QuietCheckpointsSound DEF Crash, Loaded
<1>5. CASE UNCHANGED vars
  BY <1>5, QuietCheckpointsSound DEF vars, threadVars, Loaded
<1>6. QED
  BY <1>1, <1>2, <1>3, <1>4, <1>5, PersistCheckpointsSound, TakeCheckpointSound,
     CompactCheckpointsSound DEF Next, Proceed

\* Stored and loaded checkpoints are faithful in every reachable state.
LEMMA CheckpointsSoundInvariant == Spec => []CheckpointsSound
  BY InitCheckpointsSound, NextCheckpointsSound, TypeCorrect, SafeInvariant, PTL
     DEF Spec

(* Every stored checkpoint, the one a compaction wrote back long after       *)
(* reading it included, names a prefix of this history by its digest and     *)
(* references the segments of exactly that prefix's view; with any number of *)
(* threads checkpointing and compacting at once.                             *)
THEOREM CheckpointsAreFaithful == Spec => []CheckpointsFaithful
  BY CheckpointsSoundInvariant, PTL DEF CheckpointsSound

-----------------------------------------------------------------------------
(* One thread: the store can always be rebuilt from what it retains *)

\* The newest checkpoint is stored with its segments.
LatestLoads ==
  latestCheckpoint # 0 =>
    /\ latestCheckpoint \in DOMAIN checkpoints
    /\ Previous.segments \subseteq segments

\* The log holds every entry after the newest checkpoint.
LogContinues ==
  \A n \in Previous.last + 1 .. Len(chainHead) : n \in DOMAIN versionedLog

\* What a thread has read of the newest checkpoint is still so: no other
\* thread writes one in between.
ReadIsLatest ==
  \A w \in Writers :
    /\ pc[w] = "metadata" =>
         latestCheckpoint # 0 /\ frame[w].pointer = latestCheckpoint
    /\ Loaded(w) =>
         latestCheckpoint # 0 /\ frame[w].loaded = checkpoints[latestCheckpoint]

Rebuildable == OneThread /\ LatestLoads /\ LogContinues /\ ReadIsLatest

\* A store that opens holds its whole history and no checkpoint.
LEMMA InitRebuildable == OneThread /\ Init => Rebuildable
<1> SUFFICES ASSUME OneThread, Init PROVE Rebuildable
  OBVIOUS
<1>1. LatestLoads /\ ReadIsLatest
  BY DEF Init, LatestLoads, ReadIsLatest, Loaded
<1>2. LogContinues
  <2>1. Previous.last = 0
    BY DEF Init, Previous, NoCheckpoint
  <2>2. DOMAIN versionedLog = 1 .. Len(chainHead)
    BY LegacyHistoryType, EntriesOfProperties DEF Init
  <2>3. QED  BY <2>1, <2>2 DEF LogContinues
<1>3. QED  BY <1>1, <1>2 DEF Rebuildable

(* A step that writes neither the logs nor a checkpoint keeps the store      *)
(* rebuildable, if what the threads hold is still the newest checkpoint.     *)
LEMMA QuietRebuildable ==
  ASSUME Rebuildable, UNCHANGED <<versionedLog, chainHead, checkpointVars>>,
         \A v \in Writers :
           /\ pc'[v] = "metadata" =>
                latestCheckpoint # 0 /\ frame'[v].pointer = latestCheckpoint
           /\ Loaded(v)' =>
                latestCheckpoint # 0 /\ frame'[v].loaded = checkpoints[latestCheckpoint]
  PROVE  Rebuildable'
<1>1. UNCHANGED <<checkpoints, segments, latestCheckpoint>> /\ Previous' = Previous
  BY DEF checkpointVars, Previous
<1>2. LatestLoads' /\ LogContinues'
  BY <1>1 DEF Rebuildable, LatestLoads, LogContinues
<1>3. ReadIsLatest'
  BY <1>1 DEF ReadIsLatest
<1>4. OneThread'
  BY DEF Rebuildable, OneThread
<1>5. QED  BY <1>2, <1>3, <1>4 DEF Rebuildable

\* A commit continues the log.
LEMMA PersistRebuildable ==
  ASSUME TypeOK, Safe, Rebuildable, NEW w \in Writers, Persist(w)
  PROVE  Rebuildable'
<1> DEFINE last == Len(chainHead) + 1
<1>1. /\ plan[w].entry.body \in Bodies /\ plan[w].entry.body.sequence = last
      /\ plan[w].entry.previous = chainHead
  BY PlanExtendsChain DEF Persist
<1>2. /\ chainHead' = Append(chainHead, plan[w].entry.body)
      /\ DOMAIN versionedLog' = DOMAIN versionedLog \cup {last}
      /\ UNCHANGED <<checkpoints, segments, latestCheckpoint>> /\ Previous' = Previous
      /\ pc' = [pc EXCEPT ![w] = "budget"]
      /\ \A v \in Writers : v = w
  BY <1>1 DEF Persist, EntryDigest, checkpointVars, Previous, Rebuildable, OneThread
<1>3. Len(chainHead') = last /\ Len(chainHead) \in Nat /\ chainHead \in Digests
  BY <1>1, <1>2, AppendKeepsDigests, EntriesOfProperties DEF TypeOK, DurableTypeOK
<1>4. LogContinues'
  <2>1. \A n \in Previous.last + 1 .. Len(chainHead) : n \in DOMAIN versionedLog
    BY DEF Rebuildable, LogContinues
  <2>2. Previous.last + 1 .. last \subseteq (Previous.last + 1 .. Len(chainHead)) \cup {last}
    BY <1>3
  <2>3. QED  BY <1>2, <1>3, <2>1, <2>2 DEF LogContinues
<1>5. LatestLoads'
  BY <1>2 DEF Rebuildable, LatestLoads
<1>6. ReadIsLatest'
  <2>1. \A v \in Writers : pc'[v] = "budget"
    BY <1>2 DEF TypeOK, ThreadTypeOK
  <2>2. QED  BY <2>1 DEF ReadIsLatest, Loaded
<1>7. QED  BY <1>4, <1>5, <1>6 DEF Rebuildable, OneThread

\* A new checkpoint is stored with its segments and leaves nothing uncovered.
LEMMA TakeCheckpointRebuildable ==
  ASSUME TypeOK, Safe, CheckpointsSound, Rebuildable, NEW w \in Writers,
         TakeCheckpoint(w)
  PROVE  Rebuildable'
<1>1. /\ UNCHANGED <<versionedLog, chainHead>>
      /\ \A v \in Writers : pc'[v] \in {"idle", "pointer"}
  <2>1. \/ \E outcome : Return(w, outcome)
        \/ Goto(w, "pointer", [frame[w] EXCEPT !.stage = "reload"])
    BY DEF TakeCheckpoint, Load
  <2>2. pc'[w] \in {"idle", "pointer"}
    BY <2>1 DEF Return, Goto, TypeOK, ThreadTypeOK
  <2>3. QED  BY <2>2 DEF Rebuildable, OneThread, TakeCheckpoint, logVars
<1>2. CASE CheckpointOutcome # "Ok"
  <2>1. UNCHANGED checkpointVars
    BY <1>2 DEF TakeCheckpoint
  <2>2. QED  BY <1>1, <2>1, QuietRebuildable DEF Loaded
<1>3. CASE CheckpointOutcome = "Ok"
  <2> DEFINE metadata == NextCheckpoint
  <2>1. /\ checkpoints' = [n \in DOMAIN checkpoints \cup {metadata.sequence} |->
                             IF n = metadata.sequence THEN metadata ELSE checkpoints[n]]
        /\ segments' = segments \cup metadata.segments
        /\ latestCheckpoint' = metadata.sequence
    BY <1>3 DEF TakeCheckpoint
  <2>2. metadata.last = Len(chainHead) /\ metadata.sequence = latestCheckpoint + 1
        /\ latestCheckpoint \in Nat /\ Len(chainHead) \in Nat
    BY <1>3, NextCheckpointFaithful, EntriesOfProperties
       DEF CheckpointsSound, TypeOK, DurableTypeOK
  <2> HIDE DEF metadata
  <2>3. latestCheckpoint' # 0 /\ Previous' = metadata
    BY <2>1, <2>2 DEF Previous
  <2>4. LatestLoads'
    BY <2>1, <2>3 DEF LatestLoads
  <2>5. LogContinues'
    BY <1>1, <2>2, <2>3 DEF LogContinues
  <2>6. ReadIsLatest'
    BY <1>1 DEF ReadIsLatest, Loaded
  <2>7. QED  BY <2>4, <2>5, <2>6 DEF Rebuildable, OneThread
<1>4. QED  BY <1>2, <1>3

\* Compaction keeps the newest checkpoint, its segments and the log after it:
\* what it loaded is still the newest.
LEMMA CompactRebuildable ==
  ASSUME TypeOK, CheckpointsSound, Rebuildable, NEW w \in Writers, Compact(w)
  PROVE  Rebuildable'
<1> DEFINE loaded == frame[w].loaded
           root == [loaded EXCEPT !.previous = 0]
<1>1. /\ checkpoints' = [n \in {loaded.sequence} |-> root]
      /\ segments' = segments \cap loaded.segments
      /\ versionedLog' = Suffix(versionedLog, loaded.last)
      /\ UNCHANGED <<chainHead, latestCheckpoint>>
      /\ pc[w] = "compact" /\ pc' = [pc EXCEPT ![w] = "idle"]
  BY DEF Compact, Return, RetainedSegments
<1>2. loaded \in Metadata /\ Len(chainHead) \in Nat
  BY EntriesOfProperties DEF TypeOK, ThreadTypeOK, DurableTypeOK, Frames
<1>3. /\ latestCheckpoint # 0 /\ latestCheckpoint \in DOMAIN checkpoints
      /\ loaded = checkpoints[latestCheckpoint] /\ loaded = Previous
      /\ loaded.segments \subseteq segments
  BY <1>1 DEF Rebuildable, ReadIsLatest, LatestLoads, Loaded, Previous
<1>4. loaded.sequence = latestCheckpoint
  BY <1>3, StoredFaithful DEF CheckpointsSound
<1>5. /\ root.last = loaded.last /\ root.segments = loaded.segments
      /\ loaded.last \in Nat
  BY <1>2 DEF Metadata
<1> HIDE DEF loaded, root
<1>6. Previous' = root /\ latestCheckpoint' \in DOMAIN checkpoints'
  BY <1>1, <1>3, <1>4 DEF Previous
<1>7. LatestLoads'
  BY <1>1, <1>3, <1>5, <1>6 DEF LatestLoads
<1>8. LogContinues'
  <2>1. \A n \in loaded.last + 1 .. Len(chainHead) : n \in DOMAIN versionedLog /\ n > loaded.last
    BY <1>2, <1>3, <1>5 DEF Rebuildable, LogContinues
  <2>2. DOMAIN versionedLog' = {n \in DOMAIN versionedLog : n > loaded.last}
    BY <1>1 DEF Suffix
  <2>3. QED  BY <1>1, <1>5, <1>6, <2>1, <2>2 DEF LogContinues
<1>9. ReadIsLatest'
  <2>1. \A v \in Writers : pc'[v] = "idle"
    BY <1>1 DEF TypeOK, ThreadTypeOK, Rebuildable, OneThread
  <2>2. QED  BY <2>1 DEF ReadIsLatest, Loaded
<1>10. QED  BY <1>7, <1>8, <1>9 DEF Rebuildable, OneThread

\* Rebuildable is inductive, given Safe and CheckpointsSound.
LEMMA NextRebuildable ==
  TypeOK /\ Safe /\ CheckpointsSound /\ Rebuildable /\ [Next]_vars => Rebuildable'
<1> SUFFICES ASSUME TypeOK, Safe, CheckpointsSound, Rebuildable, [Next]_vars
             PROVE  Rebuildable'
  OBVIOUS
<1> USE DEF durableVars, logVars
<1>1. ASSUME NEW w \in Writers,
             Call(w) \/ PersistFails(w) \/ MaintenanceFails(w)
      PROVE  Rebuildable'
  <2>1. /\ UNCHANGED <<versionedLog, chainHead, checkpointVars>>
        /\ \A v \in Writers : pc'[v] # "metadata" /\ ~Loaded(v)'
    BY <1>1, BeginLoadsNothing DEF Loaded, Rebuildable, OneThread
  <2>2. QED  BY <2>1, QuietRebuildable
<1>2. ASSUME NEW w \in Writers,
             \/ ReadBudget(w) \/ ReadMirrorHead(w) \/ ValidateAcknowledgement(w)
             \/ Recheck(w) \/ ReadCurrent(w) \/ ReadPointer(w) \/ ReadMetadata(w)
             \/ ReadSegments(w) \/ RequireAcknowledged(w)
      PROVE  Rebuildable'
  <2>1. PICK location, locals :
          /\ location \in Locations
          /\ pc' = [pc EXCEPT ![w] = location]
          /\ frame' = [frame EXCEPT ![w] = locals]
          /\ location = "metadata" =>
               latestCheckpoint # 0 /\ locals.pointer = latestCheckpoint
          /\ location = "segments" =>
               /\ pc[w] = "metadata" /\ frame[w].pointer \in DOMAIN checkpoints
               /\ locals.loaded = checkpoints[frame[w].pointer]
          /\ location \in {"acknowledged", "compact"} =>
               Loaded(w) /\ locals = frame[w]
    BY <1>2, ReadsMove
  <2>2. /\ pc'[w] = location /\ frame'[w] = locals
        /\ \A v \in Writers : v = w
    BY <2>1 DEF TypeOK, ThreadTypeOK, Rebuildable, OneThread
  <2>3. /\ pc[w] = "metadata" =>
             latestCheckpoint # 0 /\ frame[w].pointer = latestCheckpoint
        /\ Loaded(w) =>
             latestCheckpoint # 0 /\ frame[w].loaded = checkpoints[latestCheckpoint]
    BY DEF Rebuildable, ReadIsLatest
  <2>4. /\ pc'[w] = "metadata" =>
             latestCheckpoint # 0 /\ frame'[w].pointer = latestCheckpoint
        /\ Loaded(w)' =>
             latestCheckpoint # 0 /\ frame'[w].loaded = checkpoints[latestCheckpoint]
    BY <2>1, <2>2, <2>3 DEF Loaded
  <2>5. UNCHANGED <<versionedLog, chainHead, checkpointVars>>
    BY <1>2, ReadsMove
  <2>6. QED  BY <2>2, <2>4, <2>5, QuietRebuildable
<1>3. CASE Crash
  BY <1>3, QuietRebuildable DEF Crash, Loaded
<1>4. CASE UNCHANGED <<versionedLog, chainHead, checkpointVars, pc, frame>>
  BY <1>4, QuietRebuildable DEF Rebuildable, ReadIsLatest, Loaded
<1>5. QED
  BY <1>1, <1>2, <1>3, <1>4, PersistRebuildable, TakeCheckpointRebuildable,
     CompactRebuildable DEF Next, Proceed, Acknowledge, vars, threadVars

\* What Rebuildable makes of the entries after the newest checkpoint.
LEMMA UncoveredContinues ==
  ASSUME TypeOK, Safe, CheckpointsSound, Rebuildable
  PROVE  /\ DOMAIN Uncovered = Previous.last + 1 .. Len(chainHead)
         /\ ChainVerifies(Uncovered, Previous.digest)
<1> DEFINE cut == Previous.last
<1>1. /\ Len(chainHead) \in Nat /\ cut \in 0 .. Len(chainHead)
      /\ Previous.digest = DigestAt(chainHead, cut)
  BY PreviousIsPrefix DEF CheckpointsSound, Rebuildable, LatestLoads
<1>2. /\ DOMAIN Uncovered = {n \in DOMAIN versionedLog : n > cut}
      /\ \A n \in DOMAIN Uncovered : Uncovered[n] = versionedLog[n]
  BY UncoveredType DEF TypeOK
<1>3. \A n \in cut + 1 .. Len(chainHead) : n \in DOMAIN versionedLog
  BY DEF Rebuildable, LogContinues
<1> HIDE DEF cut
<1>4. \A n \in DOMAIN versionedLog : n \in 1 .. Len(chainHead)
  BY LoggedEntry
<1>5. DOMAIN Uncovered = cut + 1 .. Len(chainHead)
  <2>1. \A n \in DOMAIN Uncovered : n \in cut + 1 .. Len(chainHead)
    BY <1>1, <1>2, <1>4
  <2>2. \A n \in cut + 1 .. Len(chainHead) : n \in DOMAIN Uncovered
    BY <1>1, <1>2, <1>3
  <2>3. QED  BY <2>1, <2>2, Zenon
<1>6. ASSUME NEW n \in DOMAIN Uncovered
      PROVE  LET earlier == {m \in DOMAIN Uncovered : m < n}
             IN  Uncovered[n].previous =
                   IF earlier = {}
                     THEN Previous.digest
                     ELSE EntryDigest(Uncovered[CHOOSE m \in earlier :
                                                  \A l \in earlier : l <= m])
  <2> DEFINE earlier == {m \in DOMAIN Uncovered : m < n}
             before == CHOOSE m \in earlier : \A l \in earlier : l <= m
  <2>1. /\ n \in cut + 1 .. Len(chainHead)
        /\ Uncovered[n].previous = DigestAt(chainHead, n - 1)
    BY <1>2, <1>5, LoggedEntry
  <2>2. earlier = cut + 1 .. n - 1
    BY <1>1, <1>5, <2>1
  <2>3. CASE n = cut + 1
    <3>1. earlier = {} /\ n - 1 = cut
      BY <1>1, <2>2, <2>3
    <3>2. QED  BY <1>1, <2>1, <3>1
  <2>4. CASE n # cut + 1
    <3> HIDE DEF earlier
    <3>1. /\ n - 1 \in earlier /\ \A l \in earlier : l <= n - 1
          /\ \A m \in earlier : (\A l \in earlier : l <= m) => m = n - 1
      <4>1. n - 1 \in earlier /\ \A l \in earlier : l <= n - 1
        BY <1>1, <2>1, <2>2, <2>4
      <4>2. ASSUME NEW m \in earlier, \A l \in earlier : l <= m
            PROVE  m = n - 1
        <5>1. n - 1 <= m /\ m <= n - 1
          BY <4>1, <4>2
        <5>2. QED  BY <1>1, <2>1, <2>2, <5>1
      <4>3. QED  BY <4>1, <4>2
    <3>2. before = n - 1
      BY <3>1
    <3>3. n - 1 \in DOMAIN Uncovered
      BY <3>1 DEF earlier
    <3>4. EntryDigest(Uncovered[n - 1]) = DigestAt(chainHead, n - 1)
      BY <1>2, <3>3, LoggedEntry
    <3>5. earlier # {}
      BY <3>1
    <3>6. QED  BY <2>1, <3>2, <3>4, <3>5 DEF earlier
  <2>5. QED  BY <2>3, <2>4
<1>7. ChainVerifies(Uncovered, Previous.digest)
  BY <1>6 DEF ChainVerifies
<1>8. QED  BY <1>5, <1>7 DEF cut

\* Rebuildable is Recoverable, given what else always holds.
LEMMA RebuildableRecovers ==
  ASSUME TypeOK, Safe, CheckpointsSound, Rebuildable
  PROVE  Recoverable
<1>1. /\ DOMAIN Uncovered = Previous.last + 1 .. Len(chainHead)
      /\ ChainVerifies(Uncovered, Previous.digest)
  BY UncoveredContinues
<1>2. FoldedRows = ViewOf(chainHead)
  BY <1>1, FoldedRowsAreView DEF CheckpointsSound, Rebuildable, LatestLoads
<1>3. marker.sequence = Len(chainHead) /\ rows = ViewOf(chainHead)
  BY DEF Safe, LogIntact, RowsAreView
<1>4. QED
  BY <1>1, <1>2, <1>3 DEF Recoverable, FoldedRows, Rebuildable, LatestLoads

\* With one thread, Rebuildable holds in every reachable state.
LEMMA RebuildableInvariant == OneThread /\ Spec => []Rebuildable
  BY InitRebuildable, NextRebuildable, TypeCorrect, SafeInvariant,
     CheckpointsSoundInvariant, PTL DEF Spec

(* A store used by one thread can be rebuilt from what it retains in every   *)
(* reachable state, whatever was compacted and wherever it crashed: the      *)
(* newest checkpoint loads, the log continues it without a gap, the chain    *)
(* verifies and the fold of both is the rows.                                *)
THEOREM RecoverableAlone == OneThread /\ Spec => []Recoverable
<1>1. TypeOK /\ Safe /\ CheckpointsSound /\ Rebuildable => Recoverable
  BY RebuildableRecovers
<1>2. QED
  BY <1>1, RebuildableInvariant, TypeCorrect, SafeInvariant,
     CheckpointsSoundInvariant, PTL

-----------------------------------------------------------------------------
(* One thread: a durable write fails only for what lies outside the store *)

\* The failures that lie outside the store: of storage, and of a mirror that
\* the policy names or that has once acknowledged.
Outside(outcome) ==
  \/ outcome = "StorageFailed"
  \/ /\ outcome = "HistoryCompactionUnacknowledged"
     /\ topology = "Mirror" \/ cursor # NoHead

\* What the maintenance of a committed write knows as it goes: its commit is
\* in the history, it acknowledges as the policy does, the sequence it compares
\* a checkpoint with has been committed, and when it goes on to write one there
\* is an entry to cover.
Well(w) ==
  /\ pc[w] = "head" => topology = "Mirror"
  /\ frame[w].committed # 0 =>
       /\ frame[w].committed <= marker.sequence
       /\ pc[w] = "validate" => frame[w].acknowledgement.topology = topology
       /\ frame[w].stage = "reuse" => frame[w].current <= marker.sequence
       /\ pc[w] = "checkpoint" => Previous.last < marker.sequence

MaintenanceWell ==
  /\ OneThread
  /\ \A w \in Writers : Well(w)
  /\ DurableWritesFailOutside

\* No call has begun in a store that opens.
LEMMA InitMaintenanceWell == OneThread /\ Init => MaintenanceWell
<1> SUFFICES ASSUME OneThread, Init PROVE MaintenanceWell
  OBVIOUS
<1>1. \A w \in Writers : pc[w] = "idle" /\ frame[w].committed = 0
  BY DEF Init, NoFrame
<1>2. DurableWritesFailOutside
  BY DEF Init, DurableWritesFailOutside, NoReply
<1>3. QED  BY <1>1, <1>2 DEF MaintenanceWell, Well

\* With one thread, the thread that takes a step is all there is to show.
LEMMA StepWell ==
  ASSUME MaintenanceWell, NEW w \in Writers, Well(w)', DurableWritesFailOutside'
  PROVE  MaintenanceWell'
<1>1. \A v \in Writers : v = w
  BY DEF MaintenanceWell, OneThread
<1>2. \A v \in Writers : Well(v)'
  BY <1>1
<1>3. QED  BY <1>2 DEF MaintenanceWell, OneThread

\* A call may return Ok, a failure from outside the store, and anything if it
\* has committed nothing.
LEMMA ReturnWell ==
  ASSUME TypeOK, MaintenanceWell, NEW w \in Writers,
         UNCHANGED <<topology, cursor>>,
         NEW outcome, Return(w, outcome),
         outcome \in Errors /\ frame[w].committed # 0 => Outside(outcome)
  PROVE  MaintenanceWell'
<1>1. pc'[w] = "idle" /\ frame'[w] = NoFrame
  BY DEF Return, TypeOK, ThreadTypeOK
<1>2. Well(w)'
  BY <1>1 DEF Well, NoFrame
<1>3. /\ reply'[w].outcome = outcome /\ reply'[w].committed = frame[w].committed
      /\ \A v \in Writers : v = w
  BY DEF Return, TypeOK, ThreadTypeOK, MaintenanceWell, OneThread
<1>4. DurableWritesFailOutside'
  BY <1>3 DEF DurableWritesFailOutside, Outside
<1>5. QED  BY <1>2, <1>4, StepWell

\* A call may go on to any place its topology allows, with locals it could
\* have, and to write a checkpoint when there is an entry to cover.
LEMMA GotoWell ==
  ASSUME TypeOK, MaintenanceWell, NEW w \in Writers,
         UNCHANGED <<topology, cursor, marker>>, NEW location, NEW locals,
         Goto(w, location, locals), location = "head" => topology = "Mirror",
         locals.committed = frame[w].committed,
         frame[w].committed # 0 =>
           /\ location = "validate" => locals.acknowledgement.topology = topology
           /\ locals.stage = "reuse" => locals.current <= marker.sequence
           /\ location = "checkpoint" => Previous'.last < marker.sequence
  PROVE  MaintenanceWell'
<1>1. pc'[w] = location /\ frame'[w] = locals /\ reply' = reply
  BY DEF Goto, TypeOK, ThreadTypeOK
<1>2. Well(w)'
  BY <1>1 DEF MaintenanceWell, Well
<1>3. DurableWritesFailOutside'
  BY <1>1 DEF MaintenanceWell, DurableWritesFailOutside
<1>4. QED  BY <1>2, <1>3, StepWell

\* The calls that begin have committed nothing, nor has a write that fails;
\* and a failure of storage lies outside whatever its call has committed.
LEMMA BeginWell ==
  ASSUME TypeOK, MaintenanceWell, NEW w \in Writers,
         Call(w) \/ PersistFails(w) \/ MaintenanceFails(w)
  PROVE  MaintenanceWell'
<1>1. /\ \A v \in Writers : v = w
      /\ Well(w) /\ DurableWritesFailOutside
  BY DEF MaintenanceWell, OneThread
<1>2. /\ UNCHANGED <<topology, cursor, marker, checkpointVars>>
      /\ Previous' = Previous
  BY BeginLoadsNothing DEF durableVars, logVars, mirrorVars, checkpointVars, Previous
<1>3. ASSUME NEW locals, NEW location \in {"budget", "checkpoint", "validate"},
             Enter(w, location, locals), locals.committed = 0
      PROVE  MaintenanceWell'
  <2>1. pc'[w] = location /\ frame'[w] = locals /\ reply'[w] = NoReply
    BY <1>3 DEF Enter, TypeOK, ThreadTypeOK
  <2>2. Well(w)'
    BY <1>3, <2>1 DEF Well
  <2>3. DurableWritesFailOutside'
    BY <1>1, <2>1 DEF DurableWritesFailOutside, NoReply
  <2>4. QED  BY <2>2, <2>3, StepWell
<1>4. ASSUME pc'[w] \in {"idle", "persist"}, UNCHANGED frame,
             reply'[w].committed = 0
      PROVE  MaintenanceWell'
  <2>1. Well(w)'
    BY <1>1, <1>2, <1>4 DEF Well
  <2>2. DurableWritesFailOutside'
    BY <1>1, <1>4 DEF DurableWritesFailOutside
  <2>3. QED  BY <2>1, <2>2, StepWell
<1>5. CASE PersistFails(w) \/ \E operations \in Batches :
                                Prepare(w, operations) \/ Refuse(w, operations)
  <2>1. /\ pc'[w] \in {"idle", "persist"} /\ UNCHANGED frame
        /\ reply'[w].committed = 0
    BY <1>5 DEF PersistFails, Prepare, Refuse, NoReply, TypeOK, ThreadTypeOK
  <2>2. QED  BY <1>4, <2>1
<1>6. CASE CallMaintain(w) \/ CallCheckpoint(w)
  BY <1>3, <1>6 DEF CallMaintain, CallCheckpoint, NoFrame
<1>7. ASSUME NEW acknowledgement, CallCompact(w, acknowledgement)
      PROVE  MaintenanceWell'
  <2>1. [NoFrame EXCEPT !.acknowledgement = acknowledgement].committed = 0
    BY DEF NoFrame
  <2>2. QED  BY <1>3, <1>7, <2>1 DEF CallCompact
<1>8. CASE MaintenanceFails(w)
  BY <1>2, <1>8, ReturnWell DEF MaintenanceFails, Outside
<1>9. QED  BY <1>5, <1>6, <1>7, <1>8 DEF Call

\* The transaction of a write starts its maintenance.
LEMMA PersistWell ==
  ASSUME TypeOK, MaintenanceWell, NEW w \in Writers, Persist(w)
  PROVE  MaintenanceWell'
<1> DEFINE sequence == plan[w].entry.body.sequence
           locals == [NoFrame EXCEPT !.committed = sequence]
<1>1. /\ pc'[w] = "budget" /\ frame'[w] = locals
      /\ UNCHANGED <<reply, topology, cursor>>
      /\ marker' = [sequence |-> sequence, snapshot |-> plan[w].entry.body.snapshot]
  BY DEF Persist, TypeOK, ThreadTypeOK
<1>2. sequence \in Nat
  BY DEF TypeOK, ThreadTypeOK, Plans, Entries, Bodies
<1>3. locals.committed = sequence /\ locals.stage = "call"
  BY DEF NoFrame
<1> HIDE DEF sequence, locals
<1>4. Well(w)'
  BY <1>1, <1>2, <1>3 DEF Well
<1>5. DurableWritesFailOutside'
  BY <1>1 DEF MaintenanceWell, DurableWritesFailOutside
<1>6. QED  BY <1>4, <1>5, StepWell

\* The reads of maintenance find what they need.
LEMMA ReadsWell ==
  ASSUME TypeOK, Shippable, Rebuildable, MaintenanceWell, NEW w \in Writers,
         \/ ReadBudget(w) \/ ReadMirrorHead(w) \/ ValidateAcknowledgement(w)
         \/ Recheck(w) \/ ReadCurrent(w) \/ ReadPointer(w) \/ ReadMetadata(w)
         \/ ReadSegments(w) \/ RequireAcknowledged(w)
  PROVE  MaintenanceWell'
<1> DEFINE f == frame[w]
<1>1. /\ UNCHANGED <<topology, cursor, marker>> /\ Previous' = Previous
      /\ f \in Frames /\ marker.sequence \in Nat
      /\ topology \in {"LocalCheckpoint", "Mirror"}
  BY ReadsMove, PolicyAssumption
     DEF durableVars, logVars, mirrorVars, checkpointVars, Previous,
         TypeOK, ThreadTypeOK, DurableTypeOK
<1>2. Well(w)
  BY DEF MaintenanceWell
<1>3. ASSUME NEW stage \in {"report", "reload"}, Load(w, stage)
      PROVE  MaintenanceWell'
  <2> DEFINE locals == [f EXCEPT !.stage = stage]
  <2>1. locals.committed = f.committed /\ locals.stage = stage
    BY <1>1 DEF Frames
  <2>2. Goto(w, "pointer", locals)
    BY <1>3 DEF Load
  <2> HIDE DEF locals
  <2>3. QED  BY <1>1, <1>3, <2>1, <2>2, GotoWell
<1>4. ASSUME NEW location, Goto(w, location, f),
             location \notin {"head", "validate"},
             location = "checkpoint" /\ f.committed # 0 => Previous.last < marker.sequence
      PROVE  MaintenanceWell'
  BY <1>1, <1>2, <1>4, GotoWell DEF Well
<1>5. ASSUME NEW acknowledgement \in Acknowledgements,
             acknowledgement.topology = topology,
             Goto(w, "validate", [f EXCEPT !.acknowledgement = acknowledgement])
      PROVE  MaintenanceWell'
  <2> DEFINE locals == [f EXCEPT !.acknowledgement = acknowledgement]
  <2>1. /\ locals.committed = f.committed /\ locals.stage = f.stage
        /\ locals.current = f.current
        /\ locals.acknowledgement.topology = topology
    BY <1>1, <1>5 DEF Frames
  <2>2. Goto(w, "validate", locals)
    BY <1>5
  <2> HIDE DEF locals
  <2>3. QED  BY <1>1, <1>2, <2>1, <2>2, GotoWell DEF Well
<1>6. CASE ReadBudget(w)
  <2>1. LocalCheckpoint \in Acknowledgements
        /\ LocalCheckpoint.topology = "LocalCheckpoint"
    BY DEF Acknowledgements, LocalCheckpoint
  <2>2. CASE WithinBudget
    BY <1>3, <1>6, <2>2 DEF ReadBudget
  <2>3. CASE ~WithinBudget /\ topology = "LocalCheckpoint"
    BY <1>5, <1>6, <2>1, <2>3 DEF ReadBudget
  <2>4. CASE ~WithinBudget /\ topology = "Mirror"
    <3>1. Goto(w, "head", f)
      BY <1>6, <2>4 DEF ReadBudget
    <3>2. QED  BY <1>1, <1>2, <2>4, <3>1, GotoWell DEF Well
  <2>5. QED  BY <1>1, <2>2, <2>3, <2>4
<1>7. CASE ReadMirrorHead(w)
  <2>1. topology = "Mirror"
    BY <1>2, <1>7 DEF ReadMirrorHead, Well
  <2>2. /\ MirrorUpTo(cursor.sequence) \in Acknowledgements
        /\ MirrorUpTo(cursor.sequence).topology = "Mirror"
    BY DEF MirrorUpTo, Acknowledgements, TypeOK, DurableTypeOK, MirrorHeads
  <2>3. CASE Return(w, "HistoryCompactionUnacknowledged")
    BY <1>1, <2>1, <2>3, ReturnWell DEF Outside
  <2>4. CASE Goto(w, "validate",
                  [f EXCEPT !.acknowledgement = MirrorUpTo(cursor.sequence)])
    BY <1>5, <2>1, <2>2, <2>4
  <2>5. QED  BY <1>7, <2>3, <2>4 DEF ReadMirrorHead
<1>8. CASE ValidateAcknowledgement(w)
  <2>1. CASE f.acknowledgement.topology # topology
    <3>1. Return(w, "HistoryCompactionTopologyMismatch") /\ f.committed = 0
      BY <1>2, <1>8, <2>1 DEF ValidateAcknowledgement, Well
    <3>2. QED  BY <1>1, <3>1, ReturnWell
  <2>2. CASE cursor # NoHead /\ Return(w, "HistoryCompactionUnacknowledged")
    BY <1>1, <2>2, ReturnWell DEF Outside
  <2>3. CASE Goto(w, "recheck", f)
    BY <1>4, <2>3
  <2>4. QED  BY <1>8, <2>1, <2>2, <2>3 DEF ValidateAcknowledgement
<1>9. CASE Recheck(w)
  BY <1>3, <1>4, <1>9 DEF Recheck
<1>10. CASE ReadCurrent(w)
  <2> DEFINE locals == [f EXCEPT !.current = marker.sequence, !.stage = "reuse"]
  <2>1. Goto(w, "pointer", locals)
    BY <1>10 DEF ReadCurrent
  <2>2. locals.committed = f.committed /\ locals.current = marker.sequence
    BY <1>1 DEF Frames
  <2> HIDE DEF locals
  <2>3. locals.current <= marker.sequence
    BY <1>1, <2>2
  <2>4. QED  BY <1>1, <2>1, <2>2, <2>3, GotoWell
<1>11. CASE ReadPointer(w)
  <2> DEFINE locals == [f EXCEPT !.pointer = latestCheckpoint]
  <2>1. \/ Goto(w, "metadata", locals)
        \/ Return(w, "Ok")
        \/ latestCheckpoint = 0 /\ Goto(w, "checkpoint", f)
    BY <1>11 DEF ReadPointer
  <2>2. /\ locals.committed = f.committed /\ locals.stage = f.stage
        /\ locals.current = f.current
    BY <1>1 DEF Frames
  <2> HIDE DEF locals
  <2>3. ASSUME Goto(w, "metadata", locals)
        PROVE  MaintenanceWell'
    BY <1>1, <1>2, <2>2, <2>3, GotoWell DEF Well
  <2>4. ASSUME latestCheckpoint = 0, Goto(w, "checkpoint", f)
        PROVE  MaintenanceWell'
    <3>1. f.committed \in Nat /\ (f.committed # 0 => f.committed <= marker.sequence)
      BY <1>1, <1>2 DEF Frames, Well
    <3>2. Previous.last = 0
      BY <2>4 DEF Previous, NoCheckpoint
    <3>3. f.committed # 0 => Previous.last < marker.sequence
      BY <1>1, <3>1, <3>2
    <3>4. QED  BY <1>4, <2>4, <3>3
  <2>5. "Ok" \notin Errors
    BY DEF Errors
  <2>6. QED  BY <1>1, <2>1, <2>3, <2>4, <2>5, ReturnWell
<1>12. CASE ReadMetadata(w)
  <2> DEFINE locals == [f EXCEPT !.loaded = checkpoints[f.pointer]]
  <2>1. f.pointer \in DOMAIN checkpoints
    BY <1>12 DEF ReadMetadata, Rebuildable, ReadIsLatest, LatestLoads
  <2>2. Goto(w, "segments", locals)
    BY <1>12, <2>1 DEF ReadMetadata
  <2>3. /\ locals.committed = f.committed /\ locals.stage = f.stage
        /\ locals.current = f.current
    BY <1>1 DEF Frames
  <2> HIDE DEF locals
  <2>4. QED  BY <1>1, <1>2, <2>2, <2>3, GotoWell DEF Well
<1>13. CASE ReadSegments(w)
  <2>1. f.loaded = Previous /\ f.loaded.segments \subseteq segments
    BY <1>13 DEF ReadSegments, Rebuildable, ReadIsLatest, LatestLoads, Loaded, Previous
  <2>2. \/ Return(w, "Ok")
        \/ /\ f.stage = "reuse" /\ ~(f.loaded.last >= f.current)
           /\ Goto(w, "checkpoint", f)
        \/ Goto(w, "acknowledged", f)
    BY <1>13, <2>1 DEF ReadSegments, Covers
  <2>3. ASSUME f.stage = "reuse", ~(f.loaded.last >= f.current),
               Goto(w, "checkpoint", f)
        PROVE  MaintenanceWell'
    <3>1. f.loaded.last \in Nat /\ f.current \in Nat
      BY <1>1 DEF Frames, Metadata
    <3>2. f.committed # 0 => f.current <= marker.sequence
      BY <1>2, <2>3 DEF Well
    <3>3. f.committed # 0 => Previous.last < marker.sequence
      BY <1>1, <2>1, <2>3, <3>1, <3>2
    <3>4. QED  BY <1>4, <2>3, <3>3
  <2>4. "Ok" \notin Errors
    BY DEF Errors
  <2>5. QED  BY <1>1, <1>4, <2>2, <2>3, <2>4, ReturnWell
<1>14. CASE RequireAcknowledged(w)
  <2>1. f.acknowledgement.topology = topology
    BY <1>14 DEF RequireAcknowledged, Shippable, CompactionAcknowledged, Compacting
  <2>2. CASE Goto(w, "compact", f)
    BY <1>4, <2>2
  <2>3. CASE /\ f.acknowledgement.topology = "Mirror"
             /\ Return(w, "HistoryCompactionUnacknowledged")
    BY <1>1, <2>1, <2>3, ReturnWell DEF Outside
  <2>4. QED  BY <1>14, <2>2, <2>3 DEF RequireAcknowledged, AcknowledgedThrough
<1>15. QED
  BY <1>6, <1>7, <1>8, <1>9, <1>10, <1>11, <1>12, <1>13, <1>14

\* checkpoint() succeeds when there is an entry to cover.
LEMMA TakeCheckpointWell ==
  ASSUME TypeOK, Safe, CheckpointsSound, Rebuildable, MaintenanceWell,
         NEW w \in Writers, TakeCheckpoint(w)
  PROVE  MaintenanceWell'
<1> DEFINE f == frame[w]
<1>1. /\ UNCHANGED <<topology, cursor, marker>> /\ f \in Frames
      /\ Well(w) /\ pc[w] = "checkpoint"
  BY DEF TakeCheckpoint, logVars, mirrorVars, TypeOK, ThreadTypeOK, MaintenanceWell
<1>2. f.committed # 0 => CheckpointOutcome = "Ok"
  <2> SUFFICES ASSUME f.committed # 0 PROVE CheckpointOutcome = "Ok"
    OBVIOUS
  <2>1. counts.commits = counts.versioned
    BY DEF Safe, CountsExact
  <2>2. latestCheckpoint # 0 => latestCheckpoint \in DOMAIN checkpoints
    BY DEF Rebuildable, LatestLoads
  <2>3. Previous.segments \subseteq segments
    BY DEF Rebuildable, LatestLoads, Previous, NoCheckpoint
  <2>4. /\ DOMAIN Uncovered = Previous.last + 1 .. Len(chainHead)
        /\ ChainVerifies(Uncovered, Previous.digest)
    BY UncoveredContinues
  <2>5. DOMAIN Uncovered # {}
    <3>1. /\ Len(chainHead) \in Nat /\ Previous.last \in 0 .. Len(chainHead)
          /\ Previous.last < Len(chainHead)
      BY <1>1, <2>2, PreviousIsPrefix DEF Well, CheckpointsSound, Safe, LogIntact
    <3>2. Len(chainHead) \in DOMAIN Uncovered
      BY <2>4, <3>1
    <3>3. QED  BY <3>2
  <2>6. QED  BY <2>1, <2>2, <2>3, <2>4, <2>5 DEF CheckpointOutcome
<1>3. "Ok" \notin Errors
  BY DEF Errors
<1>4. CASE CheckpointOutcome # "Ok"
  BY <1>1, <1>2, <1>4, ReturnWell DEF TakeCheckpoint
<1>5. CASE CheckpointOutcome = "Ok"
  <2> DEFINE locals == [f EXCEPT !.stage = "reload"]
  <2>1. Return(w, "Ok") \/ Goto(w, "pointer", locals)
    BY <1>5 DEF TakeCheckpoint, Load
  <2>2. locals.committed = f.committed /\ locals.stage = "reload"
    BY <1>1 DEF Frames
  <2> HIDE DEF locals
  <2>3. ASSUME Goto(w, "pointer", locals)
        PROVE  MaintenanceWell'
    BY <1>1, <2>2, <2>3, GotoWell DEF Well
  <2>4. QED  BY <1>1, <1>3, <2>1, <2>3, ReturnWell
<1>6. QED  BY <1>4, <1>5

\* MaintenanceWell is inductive, given the invariants before it.
LEMMA NextMaintenanceWell ==
  /\ TypeOK /\ Safe /\ Shippable /\ CheckpointsSound /\ Rebuildable
  /\ MaintenanceWell /\ [Next]_vars
  => MaintenanceWell'
<1> SUFFICES ASSUME TypeOK, Safe, Shippable, CheckpointsSound, Rebuildable,
                    MaintenanceWell, [Next]_vars
             PROVE  MaintenanceWell'
  OBVIOUS
<1>1. ASSUME NEW w \in Writers, Compact(w)
      PROVE  MaintenanceWell'
  <2>1. UNCHANGED <<topology, cursor>> /\ Return(w, "Ok")
    BY <1>1 DEF Compact
  <2>2. "Ok" \notin Errors
    BY DEF Errors
  <2>3. QED  BY <2>1, <2>2, ReturnWell
<1>2. CASE Crash
  <2>1. \A w \in Writers : /\ pc'[w] = "idle" /\ frame'[w] = NoFrame
                           /\ reply'[w] = NoReply
    BY <1>2 DEF Crash
  <2>2. \A v \in Writers : Well(v)'
    BY <2>1 DEF Well, NoFrame
  <2>3. DurableWritesFailOutside'
    BY <2>1 DEF DurableWritesFailOutside, NoReply
  <2>4. QED  BY <2>2, <2>3 DEF MaintenanceWell, OneThread
<1>3. ASSUME UNCHANGED <<topology, marker, checkpointVars, pc, frame, reply>>,
             cursor # NoHead => cursor' # NoHead
      PROVE  MaintenanceWell'
  <2>1. Previous' = Previous
    BY <1>3 DEF Previous, checkpointVars
  <2>2. \A v \in Writers : Well(v)'
    BY <1>3, <2>1 DEF MaintenanceWell, Well
  <2>3. DurableWritesFailOutside'
    BY <1>3 DEF MaintenanceWell, DurableWritesFailOutside
  <2>4. QED  BY <2>2, <2>3 DEF MaintenanceWell, OneThread
<1>4. ASSUME NEW head \in ReportedHeads, Acknowledge(head)
      PROVE  MaintenanceWell'
  <2>1. cursor' = cursor \/ cursor' # NoHead
    <3>1. CASE Acknowledgement(head) = "Advanced"
      <4>1. cursor' = head /\ head.sequence \in cursor.sequence + 1 .. Len(chainHead)
        BY <1>4, <3>1, AcknowledgeAdvances DEF Acknowledge
      <4>2. cursor.sequence \in Nat
        BY DEF TypeOK, DurableTypeOK, MirrorHeads
      <4>3. head.sequence # 0
        BY <4>1, <4>2
      <4>4. QED  BY <4>1, <4>3 DEF NoHead
    <3>2. CASE Acknowledgement(head) # "Advanced"
      BY <1>4, <3>2 DEF Acknowledge
    <3>3. QED  BY <3>1, <3>2
  <2>2. QED  BY <1>3, <1>4, <2>1 DEF Acknowledge, logVars, threadVars
<1>5. CASE UNCHANGED vars
  BY <1>3, <1>5 DEF vars, durableVars, logVars, mirrorVars, threadVars
<1>6. QED
  BY <1>1, <1>2, <1>4, <1>5, BeginWell, PersistWell, ReadsWell, TakeCheckpointWell
     DEF Next, Proceed

(* On a store used by one thread, of either topology and whatever crashed    *)
(* or failed before, a write that is durable is answered with an error only  *)
(* for what lies outside the store: its maintenance never finds a checkpoint *)
(* row or segment missing, an incomplete log, a broken chain, nothing to     *)
(* cover or an acknowledgement of the wrong topology.                        *)
THEOREM FailuresComeFromOutside ==
  OneThread /\ Spec => []DurableWritesFailOutside
<1>1. Spec => []Shippable
  BY InitShippable, NextShippable, TypeCorrect, SafeInvariant, PTL DEF Spec
<1>2. OneThread /\ Spec => []MaintenanceWell
  BY <1>1, InitMaintenanceWell, NextMaintenanceWell, TypeCorrect, SafeInvariant,
     CheckpointsSoundInvariant, RebuildableInvariant, PTL DEF Spec
<1>3. QED  BY <1>2, PTL DEF MaintenanceWell

=============================================================================
