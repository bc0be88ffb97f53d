------------------------------ MODULE StoreOpen ------------------------------
(***************************************************************************)
(* Opening a store that some engine of some year left behind: what the     *)
(* layout slot, the catalog, the versioned log and the recorded policy     *)
(* make of it, the order of the validations and of the writes between      *)
(* them, and what a crash, a storage failure or a rejection in the middle  *)
(* leaves.  A served engine is only seen to do what bears on the next      *)
(* open: it commits, with the maintenance that follows, and parks a        *)
(* compaction, after which it commits nothing (resuming it in process, and *)
(* owners who do commit, are Staging's).  A local store has never had a    *)
(* mirror.                                                                 *)
(*                                                                         *)
(* The file is held exclusively while it is open, so the reads of the      *)
(* validation are one step; every storage transaction is a step.           *)
(***************************************************************************)
EXTENDS Naturals

CONSTANTS Policies,      \* VersioningPolicy values
          NoPolicy,      \* a request without versioning; no recorded policy
          Mirrors,       \* those with the mirror topology
          Owner,         \* what the component that owns the store asks for
          Budget,        \* maximum_live_entries of the retention policy
          MaxCommits,    \* bound: commits in a store
          MaxFaults      \* bound: crashes and storage failures

ASSUME PolicyAssumption == /\ NoPolicy \notin Policies
                           /\ Mirrors \subseteq Policies
                           /\ Owner \in Policies \ Mirrors
ASSUME BoundAssumption == {Budget, MaxCommits, MaxFaults} \subseteq Nat

\* STORAGE_LAYOUT; the first layout whose log decodes (RecordKey kinds) and the
\* ones that introduced the derived slots and the policy row.
StorageLayout == 7
KeyKindLayout == 4
DerivedSlotsLayout == 5
PolicyLayout == 6

\* No layout slot, as in a virgin store or one of layout 1.
NoSlot == 0

VARIABLES
  layout,    \* the layout slot
  families,  \* what CATALOG holds: nothing, identities, older registrations
  plain,     \* commit log rows without a versioned entry, before the last one
  late,      \* and after it
  floor,     \* the versioned entries compacted away
  covered,   \* the last entry the latest checkpoint covers, 0 if there is none
  top,       \* the versioned entries ever appended
  head,      \* CHAIN_HEAD: the entry it is the digest of, 0 if there is none
  counts,    \* the persisted log counts
  policy,    \* the VERSIONING_POLICY row
  intent,    \* the phase of the pending compaction intent, or None
  pc,        \* where the open is
  request,   \* its policy and whether it is open_recovering
  plan,      \* LayoutOpenPlan
  before,    \* the disk the open began with
  faults     \* faults spent

slots == <<layout, head, counts>>
history == <<families, plain, late, floor, covered, top>>
disk == <<slots, history, policy, intent>>
openVars == <<pc, request, plan, before>>
vars == <<disk, openVars, faults>>

Plans == {"Current", "StampFresh", "RebuildDerivedSlots"}

\* CompactionIntent; the two phases after the retractions as one.
Phases == {"None", "Planned", "Applied"}

Requests == [policy : Policies \cup {NoPolicy}, recovering : BOOLEAN]

\* The rows of the two logs.
CommitRows == plain + late + (top - floor)
VersionedRows == top - floor

Counts(commits, versioned) == [commits |-> commits, versioned |-> versioned]

ExactSlots ==
  /\ head = top
  /\ counts = Counts(CommitRows, VersionedRows)

Disk == [layout |-> layout, head |-> head, counts |-> counts,
         families |-> families, plain |-> plain, late |-> late,
         floor |-> floor, covered |-> covered, top |-> top,
         policy |-> policy, intent |-> intent]

TypeOK ==
  /\ layout \in Nat
  /\ families \in {"none", "current", "older"}
  /\ {plain, late, floor, covered, top, head} \subseteq Nat
  /\ floor <= covered /\ covered <= top
  /\ counts \in [commits : Nat, versioned : Nat]
  /\ policy \in Policies \cup {NoPolicy}
  /\ intent \in Phases
  /\ pc \in {"closed", "apply", "bind", "recover", "maintain", "serving", "tidy",
            "rejected"}
  /\ request \in Requests
  /\ plan \in Plans
  /\ faults \in 0 .. MaxFaults

-----------------------------------------------------------------------------
(* The stores there are *)

\* What an engine of a given layout leaves on disk: it keeps the slots its
\* layout has, and compacts only where there is a retention policy.
LeftBehind ==
  /\ layout \in {NoSlot} \cup (2 .. StorageLayout + 1)
  /\ plain \in 0 .. 1 /\ late = 0
  /\ top \in 0 .. 2
  /\ covered \in 0 .. top
  /\ floor \in 0 .. covered
  /\ plain > 0 => covered = 0
  /\ head = IF layout >= DerivedSlotsLayout THEN top ELSE 0
  /\ counts = IF layout >= DerivedSlotsLayout
                THEN Counts(CommitRows, VersionedRows) ELSE Counts(0, 0)
  /\ policy \in Policies \cup {NoPolicy}
  /\ (policy = NoPolicy \/ layout < PolicyLayout) => floor = 0
  /\ policy # NoPolicy => layout >= PolicyLayout
  /\ layout >= PolicyLayout => (policy = NoPolicy => top = 0)
  /\ families \in {"none", "current", "older"}
  /\ families = "older" <=> layout = NoSlot /\ families # "none"
  /\ families = "none" => plain = 0 /\ top = 0
  /\ layout = NoSlot => top = 0
  /\ intent \in Phases
  /\ intent # "None" => layout >= StorageLayout /\ policy # NoPolicy /\ top > floor

Init ==
  /\ LeftBehind
  /\ pc = "closed"
  /\ request = [policy |-> NoPolicy, recovering |-> FALSE]
  /\ plan = "Current"
  /\ before = Disk
  /\ faults = 0

-----------------------------------------------------------------------------
(* Validation *)

\* Any engine counter proves earlier commits.
HasEngineHistory == plain + late + top > 0

\* validated_storage_layout: the plan for the stored layout.
Planned(chosen) ==
  \/ layout = StorageLayout /\ chosen = "Current"
  \/ /\ layout \in KeyKindLayout .. StorageLayout - 1
     /\ VersionedRows > 0
     /\ chosen = "RebuildDerivedSlots"
  \/ layout = NoSlot /\ ~HasEngineHistory /\ chosen = "StampFresh"

\* The catalog is read after the layout; a row that does not decode is a
\* StorageLayoutMismatch too.
CatalogDecodes == families # "older"

Begin(requested, recovering) ==
  /\ pc = "closed"
  /\ request' = [policy |-> requested, recovering |-> recovering]
  /\ before' = Disk
  /\ \/ /\ CatalogDecodes
        /\ \E chosen \in Plans : Planned(chosen) /\ plan' = chosen
        /\ pc' = "apply"
     \/ /\ ~CatalogDecodes \/ ~\E chosen \in Plans : Planned(chosen)
        /\ pc' = "rejected"
        /\ UNCHANGED plan
  /\ UNCHANGED <<disk, faults>>

Open(requested) == Begin(requested, FALSE)

\* Mutant: the recovering open is the plain one.
OpenWithoutRecovery(requested) == Begin(requested, FALSE)

OpenRecovering(requested) == Begin(requested, TRUE)

Reject == pc' = "rejected" /\ UNCHANGED <<request, plan, before, faults>>

Fail ==
  /\ faults < MaxFaults
  /\ faults' = faults + 1
  /\ pc' = "rejected"
  /\ UNCHANGED <<disk, request, plan, before>>

Proceed(next) == pc' = next /\ UNCHANGED <<request, plan, before, faults>>

-----------------------------------------------------------------------------
(* The writes of an open *)

ApplyNothing ==
  /\ pc = "apply" /\ plan = "Current"
  /\ Proceed("bind")
  /\ UNCHANGED disk

ApplyStamp ==
  /\ pc = "apply" /\ plan = "StampFresh"
  /\ layout' = StorageLayout
  /\ Proceed("bind")
  /\ UNCHANGED <<head, counts, history, policy, intent>>

\* The fold verifies the chain from genesis: what is left of a compacted log
\* does not begin there.
ChainVerifies == floor = 0

\* Mutant: the commit rows are counted by the versioned entries.
ApplyRebuildByEntries ==
  /\ pc = "apply" /\ plan = "RebuildDerivedSlots"
  /\ ChainVerifies
  /\ head' = top
  /\ counts' = Counts(VersionedRows, VersionedRows)
  /\ layout' = StorageLayout
  /\ Proceed("bind")
  /\ UNCHANGED <<history, policy, intent>>

\* rebuild_derived_slots: head, counts and layout in one transaction.
ApplyRebuild ==
  /\ pc = "apply" /\ plan = "RebuildDerivedSlots"
  /\ ChainVerifies
  /\ head' = top
  /\ counts' = Counts(CommitRows, VersionedRows)
  /\ layout' = StorageLayout
  /\ Proceed("bind")
  /\ UNCHANGED <<history, policy, intent>>

\* Mutant: the layout is stamped before the chain is verified.
ApplyBrokenStamped ==
  /\ pc = "apply" /\ plan = "RebuildDerivedSlots"
  /\ ~ChainVerifies
  /\ layout' = StorageLayout
  /\ counts' = Counts(0, 0)
  /\ Reject
  /\ UNCHANGED <<head, history, policy, intent>>

ApplyBroken ==
  /\ pc = "apply" /\ plan = "RebuildDerivedSlots"
  /\ ~ChainVerifies
  /\ Reject
  /\ UNCHANGED disk

\* Mutant: the policy of the request is recorded over another one.
BindOverwrites ==
  /\ pc = "bind"
  /\ policy' = request.policy
  /\ Proceed("recover")
  /\ UNCHANGED <<slots, history, intent>>

\* ensure_durable_versioning_policy.
Bind ==
  /\ pc = "bind"
  /\ policy = request.policy \/ policy = NoPolicy
  /\ policy' = request.policy
  /\ Proceed("recover")
  /\ UNCHANGED <<slots, history, intent>>

\* VersioningPolicyRequired, VersioningPolicyMismatch.
BindRefused ==
  /\ pc = "bind"
  /\ policy \notin {NoPolicy, request.policy}
  /\ Reject
  /\ UNCHANGED disk

\* open refuses a pending intent and runs no maintenance.
RecoveryRequired ==
  /\ pc = "recover"
  /\ ~request.recovering /\ intent # "None"
  /\ Reject
  /\ UNCHANGED disk

Serve ==
  /\ pc = "recover"
  /\ ~request.recovering /\ intent = "None"
  /\ Proceed("serving")
  /\ UNCHANGED disk

\* ensure_versioned_log_complete compares the counts.
LogComplete == counts.commits = counts.versioned

\* Whether the latest checkpoint covers the current commit sequence.
CoversHead == covered = top /\ late = 0

OverBudget == VersionedRows > Budget

\* checkpoint().
TakeCheckpoint ==
  /\ ~CoversHead /\ LogComplete
  /\ covered' = top
  /\ UNCHANGED <<slots, families, plain, late, floor, top, policy>>

\* What the checkpoint covers leaves both logs.
Compacted ==
  /\ floor' = covered
  /\ plain' = 0
  /\ counts' = Counts(late, top - covered)
  /\ UNCHANGED <<layout, head, families, late, covered, top, policy>>

\* append_versioned and append_commit.
AppendVersioned ==
  /\ top' = top + 1
  /\ head' = top'
  /\ plain' = plain + late
  /\ late' = 0
  /\ counts' = Counts(counts.commits + 1, counts.versioned + 1)
  /\ UNCHANGED <<layout, floor, covered, policy>>

\* compact_configured_versioned_history: within budget it does nothing, else it
\* checkpoints unless the head is covered, and compacts.  A log that is not
\* complete cannot be checkpointed, and a mirror may not have confirmed it.
Maintain(done, refused) ==
  \/ /\ ~OverBudget
     /\ Proceed(done)
     /\ UNCHANGED disk
  \/ /\ OverBudget
     /\ request.policy \in Mirrors \/ (~CoversHead /\ ~LogComplete)
     /\ Proceed(refused)
     /\ UNCHANGED disk
  \/ /\ OverBudget
     /\ TakeCheckpoint
     /\ UNCHANGED <<intent, openVars, faults>>
  \/ /\ OverBudget /\ CoversHead
     /\ Compacted
     /\ Proceed(done)
     /\ UNCHANGED intent

\* open_recovering resumes a compaction: the plan's retractions are one entry,
\* then a checkpoint covers it, then the history is trimmed and the intent goes.
ResumePlanned ==
  /\ intent = "Planned"
  /\ AppendVersioned
  /\ intent' = "Applied"
  /\ UNCHANGED <<families, openVars, faults>>

ResumeCheckpoint ==
  /\ intent = "Applied" /\ covered < top
  /\ TakeCheckpoint
  /\ UNCHANGED <<intent, openVars, faults>>

\* Not complete, or not confirmed.
ResumeRefused ==
  /\ intent = "Applied"
  /\ \/ covered < top /\ ~LogComplete
     \/ covered = top /\ OverBudget /\ request.policy \in Mirrors
  /\ Reject
  /\ UNCHANGED disk

ResumeFloor ==
  /\ intent = "Applied" /\ covered = top /\ OverBudget
  /\ Compacted
  /\ UNCHANGED <<intent, openVars, faults>>

ResumeDone ==
  /\ intent = "Applied" /\ covered = top /\ ~OverBudget
  /\ intent' = "None"
  /\ UNCHANGED <<slots, history, policy, openVars, faults>>

Recover ==
  /\ pc = "recover" /\ request.recovering
  /\ \/ ResumePlanned
     \/ ResumeCheckpoint
     \/ ResumeRefused
     \/ ResumeFloor
     \/ ResumeDone

\* The configured maintenance follows, where there is a policy.
Recovered ==
  /\ pc = "recover" /\ request.recovering /\ intent = "None"
  /\ Proceed(IF request.policy = NoPolicy THEN "serving" ELSE "maintain")
  /\ UNCHANGED disk

MaintainOpen == pc = "maintain" /\ Maintain("serving", "rejected")

OpenFails == pc \in {"apply", "bind", "recover", "maintain"} /\ Fail

-----------------------------------------------------------------------------
(* A serving engine *)

\* With a policy the commit has a versioned entry and maintenance after it.
Commit ==
  /\ pc = "serving" /\ intent = "None"
  /\ plain + late + top < MaxCommits
  /\ families' = "current"
  /\ \/ /\ request.policy = NoPolicy
        /\ late' = late + 1
        /\ counts' = Counts(counts.commits + 1, counts.versioned)
        /\ Proceed("serving")
        /\ UNCHANGED <<layout, head, plain, floor, covered, top, policy>>
     \/ /\ request.policy # NoPolicy
        /\ AppendVersioned
        /\ Proceed("tidy")
  /\ UNCHANGED intent

\* An error of this maintenance is the call's; the engine goes on serving.
Tidy == pc = "tidy" /\ Maintain("serving", "serving")

TidyFails ==
  /\ pc = "tidy"
  /\ faults < MaxFaults
  /\ faults' = faults + 1
  /\ pc' = "serving"
  /\ UNCHANGED <<disk, request, plan, before>>

ParkCompaction ==
  /\ pc = "serving" /\ request.policy # NoPolicy
  /\ VersionedRows > 0 /\ intent = "None"
  /\ plain + late + top < MaxCommits
  /\ intent' = "Planned"
  /\ UNCHANGED <<slots, history, policy, openVars, faults>>

\* The engine is dropped, or the open has returned its error.
Close ==
  /\ pc \in {"serving", "rejected"}
  /\ pc' = "closed"
  /\ UNCHANGED <<disk, request, plan, before, faults>>

Crash ==
  /\ pc # "closed"
  /\ faults < MaxFaults
  /\ faults' = faults + 1
  /\ pc' = "closed"
  /\ UNCHANGED <<disk, request, plan, before>>

Step ==
  \/ ApplyNothing \/ ApplyStamp \/ ApplyRebuild \/ ApplyBroken
  \/ Bind \/ BindRefused
  \/ RecoveryRequired \/ Serve \/ Recover \/ Recovered \/ MaintainOpen

Next ==
  \/ \E requested \in Policies \cup {NoPolicy} :
       Open(requested) \/ OpenRecovering(requested)
  \/ Step \/ OpenFails
  \/ Commit \/ Tidy \/ TidyFails \/ ParkCompaction \/ Close \/ Crash

Spec == Init /\ [][Next]_vars

(***************************************************************************)
(* An open that has begun goes on, and the owner's supervisor opens the    *)
(* store again whenever it is closed; strong fairness, because others may  *)
(* open it in between.                                                     *)
(***************************************************************************)
FairSpec ==
  /\ Spec
  /\ WF_vars(Step \/ Tidy)
  /\ WF_vars(pc = "rejected" /\ Close)
  /\ SF_vars(OpenRecovering(Owner))

-----------------------------------------------------------------------------
(* Properties *)

\* An engine that serves has the chain head and the log counts of exactly the
\* logs it serves, however old the store was, wherever an earlier open died and
\* whatever was compacted: its next entry continues the chain (append_versioned
\* reads the predecessor from the slot) and the counts can be compared.
ServesExactSlots ==
  pc = "serving" =>
    /\ layout = StorageLayout
    /\ ExactSlots
    /\ policy = request.policy

\* "A rejecting open never writes to the store it rejects" (ARCHITECTURE.md; the
\* comment in open_unrecovered says the same): an open that its own validation
\* turns away, without a failure of storage, leaves the disk as it found it.
\* The code compares the policy after it has applied the layout plan.
RejectionWritesNothing ==
  pc = "rejected" /\ ~request.recovering => Disk = before

\* What a store that an open has turned away keeps all the same, failures of
\* storage and open_recovering included (less than RejectionWritesNothing, and
\* what holds): its slots are the old ones or those of a complete upgrade, never
\* half of one, and its history is untouched, except that open_recovering may
\* have gone part of the way through a pending plan and the trimming behind a
\* checkpoint.
RejectedStoreIntact ==
  pc = "rejected" =>
    /\ families = before.families
    /\ late # before.late => before.intent = "Planned"
    /\ policy \in {before.policy, request.policy}
    /\ before.policy # NoPolicy => policy = before.policy
    /\ \/ <<layout, head, counts>> = <<before.layout, before.head, before.counts>>
       \/ layout = StorageLayout /\ ExactSlots
    /\ \/ <<plain, floor, covered, top, intent>> =
            <<before.plain, before.floor, before.covered, before.top, before.intent>>
       \/ /\ request.recovering
          /\ layout = StorageLayout /\ ExactSlots
          /\ floor \in {before.floor, covered}
          /\ IF before.intent = "Planned" /\ intent # "Planned"
               THEN top = before.top + 1 ELSE top = before.top

\* The layout never goes back, and a recorded policy is never changed or
\* dropped, nor does a store that has one take a commit its versioned log does
\* not hold, whatever the next process asks for.
BoundForGood ==
  [][/\ layout' >= layout
     /\ policy # NoPolicy => policy' = policy /\ late' <= late]_vars

\* A store of this layout, or of an older one with its whole log, that the
\* owner's policy is recorded in and whose every commit has a versioned entry.
Openable ==
  /\ policy = Owner
  /\ CatalogDecodes
  /\ plain + late = 0
  /\ \/ layout = StorageLayout
     \/ /\ layout \in KeyKindLayout .. StorageLayout - 1
        /\ VersionedRows > 0
        /\ floor = 0

\* The owner of an openable store gets to serve it: no crash between the
\* upgrade, the policy and the recovery, no pending compaction and no stranger
\* in between can lock it out.
OwnerServes == Openable ~> (pc = "serving" /\ request.policy = Owner)

=============================================================================
