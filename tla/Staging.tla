------------------------------- MODULE Staging -------------------------------
(***************************************************************************)
(* Operation groups that await an outside grant: the engaged session that  *)
(* buffers writes, the durable slot a built group is parked in, its        *)
(* materialization or discard, the identified records whose counter a      *)
(* session mints from, and the multi-table compaction that uses the slot   *)
(* for its plan and a durable intent for its phases, with crashes and      *)
(* reopening between any two transactions.                                 *)
(*                                                                         *)
(* One owner makes one call at a time, mirror acknowledgements included    *)
(* ("the engine's owner serializes head-advancing intake"); WritePath has  *)
(* the threads.  A call is one step up to its storage transaction, and     *)
(* each further transaction is a step, so that a crash may come between.   *)
(* A call that is refused and changes nothing is a stutter.                *)
(*                                                                         *)
(* WritePath keeps the log entry by entry and proves it a gapless suffix   *)
(* of the chain that its head commits to; here the retained log is given   *)
(* by the head and the floor below which compaction has removed it.        *)
(***************************************************************************)
EXTENDS VersionedLog

CONSTANTS MaxIdentifier, \* bound: the record identifiers are 1 .. MaxIdentifier
          Batches,       \* the lists of keyed operations clients submit
          Topology,      \* VersionedRecoveryTopology
          Budget,        \* maximum_live_entries of the retention policy
          MaxCommits,    \* bound: no entry is minted beyond this sequence
          ResumesFirst   \* the owner resumes a pending compaction before it
                         \* makes any other call, as resume_compaction asks

Identifiers == 1 .. MaxIdentifier

ASSUME IdentifiersAssumption == MaxIdentifier \in Nat /\ Identifiers \subseteq Keys
ASSUME OwnerAssumption == /\ Batches \subseteq Seq(Operations)
                          /\ Topology \in {"LocalCheckpoint", "Mirror"}
                          /\ Budget \in Nat /\ MaxCommits \in Nat
                          /\ ResumesFirst \in BOOLEAN

\* A keyed call's table has string keys, sema::Table<String, _>, and never a
\* row of an identified one, sema::Table<u64, _>.
ASSUME KeyedAssumption ==
  \A operations \in Batches : \A i \in DOMAIN operations :
    operations[i].key \notin Identifiers

VARIABLES
  \* durable
  rows,           \* the family tables; an identified table's keys are numbers
  chainHead,      \* CHAIN_HEAD
  marker,         \* latest_commit_sequence and latest_snapshot
  counts,         \* commit_log_count and versioned_log_count
  floor,          \* the logs retain the entries after this one
  covered,        \* the last commit the latest checkpoint covers, 0 when none
  outbox,         \* OUTBOX: the sequences that have a row
  cursor,         \* MIRROR_CURSOR: the acknowledged sequence, 0 when none
  nextIdentifier, \* IDENTIFIED_COUNTERS
  slot,           \* STAGING_SLOT
  intent,         \* COMPACTION_INTENT
  \* lost in a crash
  status,         \* whether an engine serves the store
  session,        \* the engaged staging session
  step,           \* where the owner's call is
  after           \* what the maintenance in progress returns to

logVars == <<rows, chainHead, marker, counts, outbox, nextIdentifier>>
historyVars == <<floor, covered, cursor>>
callVars == <<status, step, after>>
vars == <<logVars, historyVars, slot, intent, callVars, session>>

-----------------------------------------------------------------------------
(* Shapes *)

Markers == [sequence : Nat, snapshot : Nat]

PreImages == [entry : Nat, operation : Nat, value : Values]

\* StagedOperationGroup: the would-be entries, and what their retracts remove.
\* An empty group is never parked and stands for the unoccupied slot.
Groups == [entries : Seq(Entries), preImages : SUBSET PreImages]
NoGroup == [entries |-> <<>>, preImages |-> {}]

\* StagedOperationGroup::prospective_head
ProspectiveHead(group) ==
  IF group = NoGroup THEN NoDigest
                     ELSE EntryDigest(group.entries[Len(group.entries)])

\* CompactionIntent
Intents == [phase : {"None", "Planned", "Applied", "Checkpointed"}, final : Nat]
NoIntent == [phase |-> "None", final |-> 0]
Planned == [phase |-> "Planned", final |-> 0]
Applied(sequence) == [phase |-> "Applied", final |-> sequence]
Checkpointed(sequence) == [phase |-> "Checkpointed", final |-> sequence]

\* StagingSession.  base is StagingBase; its counter, and pending, are 0 until
\* the session mints an identifier.
Sessions ==
  [engaged : BOOLEAN,
   base : [chainHead : Digests, marker : Markers, counter : Nat],
   marker : Markers, previous : Digests, entries : Seq(Entries),
   overlay : [Keys -> {"Present", "Absent", "Unwritten"}],
   pending : Nat, preImages : SUBSET PreImages]

SessionOver(head, start) ==
  [engaged |-> TRUE,
   base |-> [chainHead |-> head, marker |-> start, counter |-> 0],
   marker |-> start, previous |-> head, entries |-> <<>>,
   overlay |-> [k \in Keys |-> "Unwritten"], pending |-> 0, preImages |-> {}]

NoSession ==
  [SessionOver(NoDigest, [sequence |-> 0, snapshot |-> 0]) EXCEPT !.engaged = FALSE]

TypeOK ==
  /\ rows \in Rows /\ chainHead \in Digests /\ marker \in Markers
  /\ counts \in [commits : Nat, versioned : Nat]
  /\ floor \in Nat /\ covered \in Nat /\ cursor \in Nat
  /\ outbox \in SUBSET Nat
  /\ nextIdentifier \in Identifiers \cup {MaxIdentifier + 1}
  /\ slot \in Groups /\ intent \in Intents
  /\ status \in {"closed", "opening", "open"}
  /\ session \in Sessions
  /\ step \in {"idle", "resume", "maintain", "trim", "settle"}
  /\ after \in {"return", "settle", "serve"}

Init ==
  /\ rows = EmptyRows
  /\ chainHead = NoDigest
  /\ marker = [sequence |-> 0, snapshot |-> 0]
  /\ counts = [commits |-> 0, versioned |-> 0]
  /\ floor = 0 /\ covered = 0 /\ cursor = 0
  /\ outbox = {}
  /\ nextIdentifier = 1
  /\ slot = NoGroup
  /\ intent = NoIntent
  /\ status = "open"
  /\ session = NoSession
  /\ step = "idle"
  /\ after = "return"

-----------------------------------------------------------------------------
(* The owner's calls *)

Ready == status = "open" /\ step = "idle"

\* A call other than resume_compaction.
MayCall == Ready /\ (ResumesFirst => intent = NoIntent)

Advanced(from) == [sequence |-> from.sequence + 1, snapshot |-> from.snapshot + 1]

BodyAt(at, operations) ==
  [sequence |-> at.sequence, snapshot |-> at.snapshot, operations |-> operations]

\* Mutant: a group queues the head it was granted and not what leads to it.
QueuedHead(sequences) ==
  IF Topology = "Mirror"
    THEN outbox \cup {n \in sequences : \A m \in sequences : m <= n} ELSE outbox

\* Outbox rows beside entries: only a mirrored store queues.
Queued(sequences) == IF Topology = "Mirror" THEN outbox \cup sequences ELSE outbox

\* Mutant: a group counts as one commit.
CountsPlusOne(n) == [commits |-> counts.commits + 1, versioned |-> counts.versioned + 1]

CountsPlus(n) == [commits |-> counts.commits + n, versioned |-> counts.versioned + n]

\* The storage transaction of a direct write.
CommitDirectly(operations) ==
  LET next == Advanced(marker)
  IN  /\ marker.sequence < MaxCommits
      /\ rows' = Apply(operations, rows)
      /\ chainHead' = Append(chainHead, BodyAt(next, operations))
      /\ marker' = next
      /\ counts' = CountsPlus(1)
      /\ outbox' = Queued({next.sequence})
      /\ UNCHANGED <<historyVars, slot, intent, session>>

\* The maintenance that ends a keyed write.
ThenMaintain(continuation) ==
  /\ step' = "maintain"
  /\ after' = continuation

\* assert, mutate, retract and commit with no session engaged.
Write(operations) ==
  /\ MayCall /\ ~session.engaged
  /\ Admitted(operations, rows)
  /\ CommitDirectly(operations)
  /\ ThenMaintain("return")
  /\ UNCHANGED <<nextIdentifier, status>>

\* commit_atomic never looks at the session: engaged or not, it commits.
WriteAtomic(operations) ==
  /\ MayCall
  /\ Admitted(operations, rows)
  /\ CommitDirectly(operations)
  /\ ThenMaintain("return")
  /\ UNCHANGED <<nextIdentifier, status>>

AssertIdentified(identifier, v) ==
  <<[kind |-> "Assert", key |-> identifier, value |-> v]>>

\* assert_identified: the counter supplies the identifier, and nothing looks
\* for a row already there.  Identified writes end without maintenance.
WriteAssertIdentified(v) ==
  /\ MayCall /\ ~session.engaged
  /\ nextIdentifier <= MaxIdentifier
  /\ CommitDirectly(AssertIdentified(nextIdentifier, v))
  /\ nextIdentifier' = nextIdentifier + 1
  /\ UNCHANGED callVars

MutateIdentified(identifier, v) ==
  <<[kind |-> "Mutate", key |-> identifier, value |-> v]>>

WriteMutateIdentified(identifier, v) ==
  /\ MayCall /\ ~session.engaged
  /\ rows[identifier] # Absent
  /\ CommitDirectly(MutateIdentified(identifier, v))
  /\ UNCHANGED <<nextIdentifier, callVars>>

RetractIdentified(identifier) ==
  <<[kind |-> "Retract", key |-> identifier, value |-> Absent]>>

WriteRetractIdentified(identifier) ==
  /\ MayCall /\ ~session.engaged
  /\ rows[identifier] # Absent
  /\ CommitDirectly(RetractIdentified(identifier))
  /\ UNCHANGED <<nextIdentifier, callVars>>

-----------------------------------------------------------------------------
(* The engaged session *)

\* begin_staged_group
Begin ==
  /\ ~session.engaged
  /\ slot = NoGroup
  /\ session' = SessionOver(chainHead, marker)
  /\ UNCHANGED <<logVars, historyVars, slot, intent, callVars>>

BeginStagedGroup == MayCall /\ Begin

BeginCompaction == MayCall /\ intent = NoIntent /\ Begin

\* What staged_match_records answers: the buffered entries over the rows.
SessionRows == CanonicalView(rows, session.entries)

\* What staged_key_present and staged_pre_image find at each key: what the
\* overlay says, with the last buffered payload, or else the committed row.
Observed ==
  [k \in Keys |->
     IF session.overlay[k] = "Absent" THEN Absent
     ELSE IF session.overlay[k] = "Present" /\ SessionRows[k] # Absent
       THEN SessionRows[k]
       ELSE rows[k]]

\* Mutant: the removed payload is looked up among the committed rows only.
RemovedFromCommitted(operations) ==
  {[entry |-> Len(session.entries) + 1, operation |-> i,
    value |-> rows[operations[i].key]] :
      i \in {j \in DOMAIN operations : operations[j].kind = "Retract"}}

\* What the retracts of an entry about to be buffered remove.
RemovedBy(operations) ==
  {[entry |-> Len(session.entries) + 1, operation |-> i,
    value |-> Observed[operations[i].key]] :
      i \in {j \in DOMAIN operations : operations[j].kind = "Retract"}}

\* Mutant: a retract, too, marks its key as written.
OverlaidPresent(operations) ==
  [k \in Keys |-> IF Touches(operations, k) THEN "Present"
                                            ELSE session.overlay[k]]

\* The overlay a list of operations leaves.
Overlaid(operations) ==
  [k \in Keys |->
     IF Touches(operations, k)
       THEN IF operations[LastOn(operations, k)].kind = "Retract" THEN "Absent"
                                                                   ELSE "Present"
       ELSE session.overlay[k]]

\* The session after buffering one entry (append_entry, set_overlay,
\* park_pre_image).
Extended(operations) ==
  LET next == Advanced(session.marker)
      entry == [body |-> BodyAt(next, operations), previous |-> session.previous]
  IN  [session EXCEPT !.entries = Append(@, entry),
                      !.marker = next,
                      !.previous = EntryDigest(entry),
                      !.overlay = Overlaid(operations),
                      !.preImages = @ \cup RemovedBy(operations)]

InSession ==
  /\ MayCall /\ session.engaged
  /\ session.marker.sequence < MaxCommits
  /\ UNCHANGED <<logVars, historyVars, slot, intent, callVars>>

\* staged_assert_keyed, staged_mutate_keyed, staged_retract, staged_commit
Buffer(operations) ==
  /\ InSession
  /\ Admitted(operations, Observed)
  /\ session' = Extended(operations)

\* mint_identifier: the session counts on from its own last mint.
MintIdentifier == IF session.pending = 0 THEN nextIdentifier ELSE session.pending

\* staged_assert_identified; the first mint records the counter in the base.
BufferAssertIdentified(v) ==
  /\ InSession
  /\ MintIdentifier <= MaxIdentifier
  /\ session' =
       [Extended(AssertIdentified(MintIdentifier, v)) EXCEPT
          !.pending = MintIdentifier + 1,
          !.base.counter = IF session.pending = 0 THEN nextIdentifier ELSE @]

BufferMutateIdentified(identifier, v) ==
  /\ InSession
  /\ Observed[identifier] # Absent
  /\ session' = Extended(MutateIdentified(identifier, v))

BufferRetractIdentified(identifier) ==
  /\ InSession
  /\ Observed[identifier] # Absent
  /\ session' = Extended(RetractIdentified(identifier))

Abandon ==
  /\ MayCall
  /\ session' = NoSession
  /\ UNCHANGED <<logVars, historyVars, slot, intent, callVars>>

-----------------------------------------------------------------------------
(* The parked group *)

\* ensure_staging_base_current
BaseCurrent ==
  /\ session.base.chainHead = chainHead
  /\ session.base.marker = marker
  /\ session.base.counter \in {0, nextIdentifier}

BuiltGroup == [entries |-> session.entries, preImages |-> session.preImages]

\* park_staged_group takes the session whatever comes of it: nothing buffered,
\* a base that moved and an occupied slot park nothing.
Parks == session.entries # <<>> /\ BaseCurrent /\ slot = NoGroup

ParkStagedGroup ==
  /\ MayCall /\ session.engaged
  /\ session' = NoSession
  /\ slot' = IF Parks THEN BuiltGroup ELSE slot
  /\ UNCHANGED <<logVars, historyVars, intent, callVars>>

\* park_compaction: the plan and its intent in one transaction.
ParkCompaction ==
  /\ MayCall /\ session.engaged
  /\ session' = NoSession
  /\ IF Parks /\ intent = NoIntent
       THEN slot' = BuiltGroup /\ intent' = Planned
       ELSE UNCHANGED <<slot, intent>>
  /\ UNCHANGED <<logVars, historyVars, callVars>>

\* Mutant: only the order of the parked entries is verified.
ContinuesItself(group) ==
  /\ group # NoGroup
  /\ \A n \in DOMAIN group.entries :
       n > 1 => group.entries[n].previous = EntryDigest(group.entries[n - 1])

\* The verification before materialization: the first entry names the current
\* chain head, each further one the entry before it, and sequence and snapshot
\* count on from the committed ones.
ContinuesChain(group) ==
  /\ group # NoGroup
  /\ \A n \in DOMAIN group.entries :
       LET entry == group.entries[n]
       IN  /\ entry.previous =
                IF n = 1 THEN chainHead ELSE EntryDigest(group.entries[n - 1])
           /\ entry.body.sequence = marker.sequence + n
           /\ entry.body.snapshot = marker.snapshot + n

\* The parked entries that assert an identified record.
Minting(group) ==
  {n \in DOMAIN group.entries :
     LET operation == group.entries[n].body.operations[1]
     IN  operation.kind = "Assert" /\ operation.key \in Identifiers}

Newest(numbers) == CHOOSE n \in numbers : \A m \in numbers : m <= n

\* Mutant: the counters are left where the direct writes would find them.
CounterUntouched(group) == nextIdentifier

\* identified_advances: past the identifier asserted last.
CounterAfter(group) ==
  IF Minting(group) = {} THEN nextIdentifier
    ELSE group.entries[Newest(Minting(group))].body.operations[1].key + 1

\* Mutant: the intent is left for a later transaction.
IntentUnmoved(group) == intent

\* A planned compaction is applied by whatever the slot holds.
IntentAfter(group) ==
  IF intent.phase = "Planned"
    THEN Applied(group.entries[Len(group.entries)].body.sequence)
    ELSE intent

\* materialize_staged_group: one transaction applies the rows, appends the
\* entries, queues them, moves every counter, flips a planned intent and
\* clears the slot.
Materialize ==
  /\ ~session.engaged
  /\ ContinuesChain(slot)
  /\ LET last == slot.entries[Len(slot.entries)]
     IN  /\ rows' = CanonicalView(rows, slot.entries)
         /\ chainHead' = EntryDigest(last)
         /\ marker' = [sequence |-> last.body.sequence,
                       snapshot |-> last.body.snapshot]
         /\ counts' = CountsPlus(Len(slot.entries))
         /\ outbox' = Queued({slot.entries[n].body.sequence :
                                n \in DOMAIN slot.entries})
         /\ nextIdentifier' = CounterAfter(slot)
         /\ intent' = IntentAfter(slot)
         /\ slot' = NoGroup
  /\ UNCHANGED <<historyVars, session>>

MaterializeStagedGroup == MayCall /\ Materialize /\ UNCHANGED callVars

\* discard_staged_group clears the slot, whatever its group was for.
DiscardStagedGroup ==
  /\ MayCall
  /\ slot # NoGroup
  /\ slot' = NoGroup
  /\ UNCHANGED <<logVars, historyVars, intent, callVars, session>>

-----------------------------------------------------------------------------
(* Maintenance, as one thread runs it *)

\* current_commit_sequence, which an engaged session overlays.
CurrentSequence ==
  IF session.engaged THEN session.marker.sequence ELSE marker.sequence

OverBudget == Len(chainHead) - floor > Budget

\* A mirrored store needs an acknowledgement to compact with.
MayCompact == Topology = "Mirror" => cursor # 0

\* The call is over, successfully or not.  A failed recovery drops the engine.
CallEnds(succeeds) ==
  /\ after' = "return"
  /\ step' = IF succeeds /\ after = "settle" THEN "settle" ELSE "idle"
  /\ status' = CASE status # "opening"            -> status
                 [] succeeds /\ after = "settle"  -> status
                 [] succeeds /\ after = "serve"   -> "open"
                 [] OTHER                         -> "closed"

CallMaintain ==
  /\ MayCall
  /\ ThenMaintain("return")
  /\ UNCHANGED <<logVars, historyVars, slot, intent, status, session>>

\* compact_configured_versioned_history up to the checkpoint: nothing to do,
\* nothing to compact with, a checkpoint to reuse, a new one, or none to be
\* had because the latest already covers the log.
Maintain ==
  /\ step = "maintain"
  /\ IF ~OverBudget THEN CallEnds(TRUE) /\ UNCHANGED covered
     ELSE IF ~MayCompact THEN CallEnds(FALSE) /\ UNCHANGED covered
     ELSE IF covered >= CurrentSequence
       THEN step' = "trim" /\ UNCHANGED <<covered, status, after>>
     ELSE IF covered < Len(chainHead)
       THEN step' = "trim" /\ covered' = Len(chainHead) /\ UNCHANGED <<status, after>>
       ELSE CallEnds(FALSE) /\ UNCHANGED covered
  /\ UNCHANGED <<logVars, floor, cursor, slot, intent, session>>

\* The history below the checkpoint goes, if the mirror has it.
Trim ==
  /\ step = "trim"
  /\ IF Topology = "Mirror" /\ cursor < covered
       THEN CallEnds(FALSE) /\ UNCHANGED <<floor, counts, outbox>>
       ELSE /\ floor' = covered
            /\ counts' = [commits |-> counts.commits - (covered - floor),
                          versioned |-> counts.versioned - (covered - floor)]
            /\ outbox' = {n \in outbox : n > covered}
            /\ CallEnds(TRUE)
  /\ UNCHANGED <<rows, chainHead, marker, nextIdentifier, covered, cursor,
                 slot, intent, session>>

\* acknowledge_mirror, for a head of this history the store still queues.
Acknowledge(sequence) ==
  /\ Ready
  /\ sequence \in outbox /\ sequence > cursor
  /\ cursor' = sequence
  /\ UNCHANGED <<logVars, floor, covered, slot, intent, callVars, session>>

-----------------------------------------------------------------------------
(* resume_compaction and reopening *)

\* resume_compaction returns: to its caller, or to open_recovering, which goes
\* on with the configured maintenance.
ResumeEnds ==
  IF status = "opening" THEN ThenMaintain("serve") /\ UNCHANGED status
                        ELSE step' = "idle" /\ UNCHANGED <<status, after>>

ResumeCompaction ==
  /\ Ready
  /\ step' = "resume"
  /\ UNCHANGED <<logVars, historyVars, slot, intent, status, after, session>>

NothingPending ==
  /\ step = "resume" /\ intent = NoIntent
  /\ ResumeEnds
  /\ UNCHANGED <<logVars, historyVars, slot, intent, session>>

\* Planned: materialize.  A directory that fails to announce a delta fails the
\* call after the transaction; a plan that cannot materialize fails it before.
ApplyPlan ==
  /\ step = "resume" /\ intent.phase = "Planned"
  /\ \/ Materialize /\ (UNCHANGED callVars \/ CallEnds(FALSE))
     \/ /\ session.engaged \/ ~ContinuesChain(slot)
        /\ CallEnds(FALSE)
        /\ UNCHANGED <<logVars, historyVars, slot, intent, session>>

\* Applied, the plan not yet covered: checkpoint.
CheckpointPlan ==
  /\ step = "resume" /\ intent.phase = "Applied"
  /\ covered < intent.final
  /\ covered' = Len(chainHead)
  /\ UNCHANGED <<logVars, floor, cursor, slot, intent, callVars, session>>

\* Mutant: the phase advances on an older checkpoint.
CheckpointUnverified == covered # 0

\* The latest checkpoint, loaded again, covers the plan.
CheckpointCoversPlan == covered >= intent.final

PublishCheckpoint ==
  /\ step = "resume" /\ intent.phase = "Applied"
  /\ CheckpointCoversPlan
  /\ intent' = Checkpointed(intent.final)
  /\ UNCHANGED <<logVars, historyVars, slot, callVars, session>>

\* Checkpointed: the configured compaction, and then the intent goes.
AdvanceFloor ==
  /\ step = "resume" /\ intent.phase = "Checkpointed"
  /\ ThenMaintain("settle")
  /\ UNCHANGED <<logVars, historyVars, slot, intent, status, session>>

Settle ==
  /\ step = "settle"
  /\ intent' = NoIntent
  /\ ResumeEnds
  /\ UNCHANGED <<logVars, historyVars, slot, session>>

\* open refuses a pending intent.
Open ==
  /\ status = "closed"
  /\ intent = NoIntent
  /\ status' = "open"
  /\ UNCHANGED <<logVars, historyVars, slot, intent, session, step, after>>

OpenRecovering ==
  /\ status = "closed"
  /\ status' = "opening"
  /\ step' = "resume"
  /\ UNCHANGED <<logVars, historyVars, slot, intent, session, after>>

Crash ==
  /\ status # "closed"
  /\ status' = "closed"
  /\ session' = NoSession
  /\ step' = "idle"
  /\ after' = "return"
  /\ UNCHANGED <<logVars, historyVars, slot, intent>>

-----------------------------------------------------------------------------

\* The steps of a call once begun.
Proceed ==
  \/ Maintain
  \/ Trim
  \/ NothingPending
  \/ ApplyPlan
  \/ CheckpointPlan
  \/ PublishCheckpoint
  \/ AdvanceFloor
  \/ Settle

DirectWrite ==
  \/ \E operations \in Batches : Write(operations) \/ WriteAtomic(operations)
  \/ \E v \in Values : WriteAssertIdentified(v)
  \/ \E identifier \in Identifiers, v \in Values :
       WriteMutateIdentified(identifier, v)
  \/ \E identifier \in Identifiers : WriteRetractIdentified(identifier)

BufferedWrite ==
  \/ \E operations \in Batches : Buffer(operations)
  \/ \E v \in Values : BufferAssertIdentified(v)
  \/ \E identifier \in Identifiers, v \in Values :
       BufferMutateIdentified(identifier, v)
  \/ \E identifier \in Identifiers : BufferRetractIdentified(identifier)

Next ==
  \/ DirectWrite \/ BufferedWrite
  \/ BeginStagedGroup \/ BeginCompaction \/ Abandon
  \/ ParkStagedGroup \/ ParkCompaction
  \/ MaterializeStagedGroup \/ DiscardStagedGroup
  \/ CallMaintain \/ ResumeCompaction \/ Proceed
  \/ \E sequence \in 1 .. MaxCommits : Acknowledge(sequence)
  \/ Open \/ OpenRecovering \/ Crash

Spec == Init /\ [][Next]_vars

-----------------------------------------------------------------------------
(* Safety *)

\* The engine implements GroupStore: whatever sessions, parks, restarts,
\* grants and discards do, a group takes effect as a whole, with exactly the
\* head that was promised, or never; and its commits could have been made one
\* by one.
Promise == INSTANCE GroupStore WITH history <- chainHead,
                                    parked <- ProspectiveHead(slot)

ImplementsGroups == Promise!Spec

\* While the base is current, an engaged session reads as if its writes had
\* been made directly: the overlaid rows are the view of the history they
\* would have left, existence checks agree with them, and the counters with
\* the number of commits.  (The module comment of staging.rs.)
SessionReadsLikeDirectWrites ==
  session.engaged /\ BaseCurrent =>
    /\ SessionRows = ViewOf(session.previous)
    /\ Observed = SessionRows
    /\ CurrentSequence = Len(session.previous)

\* The pre-image parked for a retract is the row that it will remove when the
\* group materializes, an earlier entry of the group included, and no retract
\* lacks one: a delta announces what the direct write's would have.
PreImagesTrue ==
  LET retracts(n) == {i \in DOMAIN slot.entries[n].body.operations :
                        slot.entries[n].body.operations[i].kind = "Retract"}
  IN  \A n \in DOMAIN slot.entries :
        LET entry == slot.entries[n]
        IN  {p \in slot.preImages : p.entry = n} =
              {[entry |-> n, operation |-> i,
                value |-> ViewOf(entry.previous)[entry.body.operations[i].key]] :
                 i \in retracts(n)}

\* No identifier is minted twice in the history, through sessions abandoned,
\* parked, discarded and granted, and the next one is still unused.
IdentifiersMintedOnce ==
  LET mints(n, identifier) ==
        \E i \in DOMAIN chainHead[n].operations :
          /\ chainHead[n].operations[i].kind = "Assert"
          /\ chainHead[n].operations[i].key = identifier
  IN  \A identifier \in Identifiers, n \in DOMAIN chainHead :
        mints(n, identifier) =>
          /\ identifier < nextIdentifier
          /\ \A m \in DOMAIN chainHead : mints(m, identifier) => m = n

\* The persisted counts and markers are exact after every write, group and
\* compaction.
CountersExact ==
  LET retained == Len(chainHead) - floor
  IN  /\ counts = [commits |-> retained, versioned |-> retained]
      /\ marker = [sequence |-> Len(chainHead), snapshot |-> Len(chainHead)]

\* Every commit a mirror has not confirmed is queued, those of a group
\* included, and no entry to ship has left the log.
UnconfirmedQueued ==
  Topology = "Mirror" =>
    /\ floor <= cursor
    /\ cursor + 1 .. Len(chainHead) \subseteq outbox

\* When the owner resumes first: a planned compaction is parked and can
\* materialize, an applied one is in the history, and a checkpointed one is
\* covered.
IntentTracksPlan ==
  /\ intent.phase = "Planned" => ContinuesChain(slot)
  /\ intent.phase \in {"Applied", "Checkpointed"} =>
       slot = NoGroup /\ intent.final \in DOMAIN chainHead
  /\ intent.phase = "Checkpointed" => covered >= intent.final

\* An intent goes through its phases in order, each when what it records is
\* so: applied with the very plan that was parked, checkpointed when a
\* checkpoint covers it, and cleared "only after history floor is consistent".
IntentGoesThroughPhases ==
  [][intent' # intent =>
       \/ intent = NoIntent /\ intent' = Planned
       \/ /\ intent = Planned /\ intent' = Applied(Len(chainHead'))
          /\ chainHead' = ProspectiveHead(slot)
       \/ /\ intent.phase = "Applied" /\ intent' = Checkpointed(intent.final)
          /\ covered >= intent.final
       \/ /\ intent.phase = "Checkpointed" /\ intent' = NoIntent
          /\ ~OverBudget]_vars

-----------------------------------------------------------------------------
(* Liveness *)

\* The mirror confirms everything it has been sent.
AcknowledgeAll == Acknowledge(Newest(outbox \cup {0}))

\* A supervisor reopens a closed store and resumes a pending compaction, the
\* mirror keeps reporting to an open store, and crashes, which may go on, do
\* not always come just before the same step.
Fairness ==
  /\ WF_vars(OpenRecovering)
  /\ SF_vars(ResumeCompaction /\ intent # NoIntent)
  /\ SF_vars(Maintain) /\ SF_vars(Trim)
  /\ SF_vars(NothingPending) /\ SF_vars(ApplyPlan)
  /\ SF_vars(CheckpointPlan) /\ SF_vars(PublishCheckpoint)
  /\ SF_vars(AdvanceFloor) /\ SF_vars(Settle)
  /\ SF_vars(AcknowledgeAll)

FairSpec == Spec /\ Fairness

\* The store is again and again open with no compaction pending: no phase that
\* a crash or a failed call leaves behind is one that recovery cannot leave.
\* ("Resolve a durable compaction intent before returning a serving engine.")
RecoveryServes == []<>(status = "open" /\ intent = NoIntent)

=============================================================================
