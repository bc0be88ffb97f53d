--------------------------- MODULE StoreOpenProofs ---------------------------
(***************************************************************************)
(* The safety of opening, for any set of policies, any budget and any      *)
(* bound.  The inductive invariant says what each point of an open has     *)
(* established about the store (Reached), that the derived slots are exact *)
(* wherever the layout has them (SlotsFit), and how the store compares     *)
(* with the one the open began with (SinceBegin).                          *)
(***************************************************************************)
EXTENDS StoreOpen, TLAPS

\* What has been found or done by the time an open gets to a point.
Reached ==
  /\ (pc = "apply" /\ plan = "Current") => layout = StorageLayout
  /\ (pc = "apply" /\ plan = "StampFresh") => layout = NoSlot /\ plain + late + top = 0
  /\ (pc = "apply" /\ plan = "RebuildDerivedSlots") => layout < StorageLayout
  /\ pc \in {"bind", "recover", "maintain", "serving", "tidy"} => layout = StorageLayout
  /\ pc \in {"recover", "maintain", "serving", "tidy"} => policy = request.policy
  /\ pc = "maintain" => request.recovering /\ intent = "None"

\* The slots are exact in the layouts that have them, and vacant in the others.
SlotsFit ==
  /\ layout >= DerivedSlotsLayout => ExactSlots
  /\ layout < DerivedSlotsLayout => head = 0 /\ counts = Counts(0, 0)

\* The policy between the open's beginning and the point it has reached.
PolicySince ==
  /\ pc \in {"apply", "bind"} => policy = before.policy
  /\ pc \in {"recover", "maintain", "rejected"} =>
       /\ policy \in {before.policy, request.policy}
       /\ before.policy # NoPolicy => policy = before.policy

\* The slots are the old ones or exact.
SlotsSince ==
  pc \in {"apply", "bind", "recover", "maintain", "rejected"} =>
    \/ <<layout, head, counts>> = <<before.layout, before.head, before.counts>>
    \/ layout = StorageLayout /\ ExactSlots

SameHistory ==
  <<plain, floor, covered, top, intent>> =
    <<before.plain, before.floor, before.covered, before.top, before.intent>>

\* The history is the old one, or a recovery has got some way: the plan's entry
\* is in once the intent has left Planned, and the floor is where it was or has
\* caught up with the log.
HistorySince ==
  /\ pc \in {"apply", "bind"} => SameHistory /\ late = before.late
  /\ pc \in {"apply", "bind", "recover", "maintain", "rejected"} =>
       /\ families = before.families
       /\ late # before.late => before.intent = "Planned"
       /\ intent = "Planned" => before.intent = "Planned"
       /\ \/ SameHistory
          \/ /\ request.recovering
             /\ layout = StorageLayout
             /\ floor = before.floor \/ (floor = top /\ intent # "Planned")
             /\ IF before.intent = "Planned" /\ intent # "Planned"
                  THEN top = before.top + 1 ELSE top = before.top

SinceBegin == PolicySince /\ SlotsSince /\ HistorySince

IInv == TypeOK /\ Reached /\ SlotsFit /\ SinceBegin

\* Every store an earlier engine left satisfies the invariant.
LEMMA Establishes == Init => IInv
  <1> SUFFICES ASSUME Init PROVE IInv
    OBVIOUS
  <1> USE BoundAssumption, PolicyAssumption DEF Init, LeftBehind
  <1>1. TypeOK
    BY DEF TypeOK, Counts, CommitRows, VersionedRows, Requests, Plans, Phases,
           StorageLayout, NoSlot, DerivedSlotsLayout
  <1>2. Reached
    BY DEF Reached
  <1>3. SlotsFit
    BY DEF SlotsFit, ExactSlots, NoSlot, StorageLayout, DerivedSlotsLayout
  <1>4. SinceBegin
    BY DEF SinceBegin, PolicySince, SlotsSince, HistorySince
  <1> QED
    BY <1>1, <1>2, <1>3, <1>4 DEF IInv


\* The types alone are inductive.
LEMMA TypesKept == TypeOK /\ [Next]_vars => TypeOK'
  <1> SUFFICES ASSUME TypeOK, [Next]_vars PROVE TypeOK'
    OBVIOUS
  <1> USE BoundAssumption, PolicyAssumption
      DEF TypeOK, Requests, Plans, Phases, Counts, CommitRows, VersionedRows,
          StorageLayout, disk, slots, history, openVars
  <1>0. CASE UNCHANGED vars
    BY <1>0 DEF vars
  <1>1. ASSUME NEW requested \in Policies \cup {NoPolicy}, NEW recovering \in BOOLEAN,
               Begin(requested, recovering)
        PROVE  TypeOK'
    BY <1>1 DEF Begin
  <1>2. CASE ApplyNothing
    BY <1>2 DEF ApplyNothing, Proceed
  <1>3. CASE ApplyStamp
    BY <1>3 DEF ApplyStamp, Proceed
  <1>4. CASE ApplyRebuild
    BY <1>4 DEF ApplyRebuild, ChainVerifies, Proceed
  <1>5. CASE ApplyBroken
    BY <1>5 DEF ApplyBroken, Reject
  <1>6. CASE Bind
    BY <1>6 DEF Bind, Proceed
  <1>7. CASE BindRefused
    BY <1>7 DEF BindRefused, Reject
  <1>8. CASE RecoveryRequired
    BY <1>8 DEF RecoveryRequired, Reject
  <1>9. CASE Serve
    BY <1>9 DEF Serve, Proceed
  <1>10. CASE Recover
    <2>1. CASE ResumePlanned
      BY <1>10, <2>1 DEF Recover, ResumePlanned, AppendVersioned
    <2>2. CASE ResumeCheckpoint
      BY <1>10, <2>2 DEF Recover, ResumeCheckpoint, TakeCheckpoint
    <2>3. CASE ResumeRefused
      BY <1>10, <2>3 DEF Recover, ResumeRefused, Reject
    <2>4. CASE ResumeFloor
      BY <1>10, <2>4 DEF Recover, ResumeFloor, Compacted
    <2>5. CASE ResumeDone
      BY <1>10, <2>5 DEF Recover, ResumeDone
    <2> QED
      BY <1>10, <2>1, <2>2, <2>3, <2>4, <2>5 DEF Recover
  <1>11. CASE Recovered
    BY <1>11 DEF Recovered, Proceed
  <1>12. CASE MaintainOpen
    BY <1>12 DEF MaintainOpen, Maintain, Proceed, TakeCheckpoint, Compacted,
           CoversHead
  <1>13. CASE OpenFails
    BY <1>13 DEF OpenFails, Fail
  <1>14. CASE Commit
    BY <1>14 DEF Commit, AppendVersioned, Proceed
  <1>15. CASE Tidy
    BY <1>15 DEF Tidy, Maintain, Proceed, TakeCheckpoint, Compacted,
           CoversHead
  <1>16. CASE TidyFails
    BY <1>16 DEF TidyFails
  <1>17. CASE ParkCompaction
    BY <1>17 DEF ParkCompaction
  <1>18. CASE Close
    BY <1>18 DEF Close
  <1>19. CASE Crash
    BY <1>19 DEF Crash
  <1> QED
    BY <1>0, <1>1, <1>2, <1>3, <1>4, <1>5, <1>6, <1>7, <1>8, <1>9, <1>10,
           <1>11, <1>12, <1>13, <1>14, <1>15, <1>16, <1>17, <1>18, <1>19
       DEF Next, Step, Open, OpenRecovering

\* What an open has established stays established while it goes on.
LEMMA PlacesKept == TypeOK /\ Reached /\ [Next]_vars => Reached'
  <1> SUFFICES ASSUME TypeOK, Reached, [Next]_vars PROVE Reached'
    OBVIOUS
  <1> USE BoundAssumption, PolicyAssumption
      DEF TypeOK, Reached, Requests, Plans, StorageLayout, NoSlot, disk, slots, history, openVars
  <1>0. CASE UNCHANGED vars
    BY <1>0 DEF vars
  <1>1. ASSUME NEW requested \in Policies \cup {NoPolicy}, NEW recovering \in BOOLEAN,
               Begin(requested, recovering)
        PROVE  Reached'
    <2>1. CASE pc' = "rejected"
      BY <1>1, <2>1
    <2>2. CASE pc' = "apply"
      <3>1. PICK chosen \in Plans : Planned(chosen) /\ plan' = chosen
        BY <1>1, <2>2 DEF Begin
      <3> QED
        BY <1>1, <2>2, <3>1 DEF Begin, Planned, HasEngineHistory, KeyKindLayout
    <2> QED
      BY <1>1, <2>1, <2>2 DEF Begin
  <1>2. CASE ApplyNothing
    BY <1>2 DEF ApplyNothing, Proceed
  <1>3. CASE ApplyStamp
    BY <1>3 DEF ApplyStamp, Proceed
  <1>4. CASE ApplyRebuild
    BY <1>4 DEF ApplyRebuild, ChainVerifies, Proceed
  <1>5. CASE ApplyBroken
    BY <1>5 DEF ApplyBroken, Reject
  <1>6. CASE Bind
    BY <1>6 DEF Bind, Proceed
  <1>7. CASE BindRefused
    BY <1>7 DEF BindRefused, Reject
  <1>8. CASE RecoveryRequired
    BY <1>8 DEF RecoveryRequired, Reject
  <1>9. CASE Serve
    BY <1>9 DEF Serve, Proceed
  <1>10. CASE Recover
    <2>1. CASE ResumePlanned
      BY <1>10, <2>1 DEF Recover, ResumePlanned, AppendVersioned
    <2>2. CASE ResumeCheckpoint
      BY <1>10, <2>2 DEF Recover, ResumeCheckpoint, TakeCheckpoint
    <2>3. CASE ResumeRefused
      BY <1>10, <2>3 DEF Recover, ResumeRefused, Reject
    <2>4. CASE ResumeFloor
      BY <1>10, <2>4 DEF Recover, ResumeFloor, Compacted
    <2>5. CASE ResumeDone
      BY <1>10, <2>5 DEF Recover, ResumeDone
    <2> QED
      BY <1>10, <2>1, <2>2, <2>3, <2>4, <2>5 DEF Recover
  <1>11. CASE Recovered
    BY <1>11 DEF Recovered, Proceed
  <1>12. CASE MaintainOpen
    BY <1>12 DEF MaintainOpen, Maintain, Proceed, TakeCheckpoint, Compacted,
           CoversHead
  <1>13. CASE OpenFails
    BY <1>13 DEF OpenFails, Fail
  <1>14. CASE Commit
    BY <1>14 DEF Commit, AppendVersioned, Proceed
  <1>15. CASE Tidy
    BY <1>15 DEF Tidy, Maintain, Proceed, TakeCheckpoint, Compacted,
           CoversHead
  <1>16. CASE TidyFails
    BY <1>16 DEF TidyFails
  <1>17. CASE ParkCompaction
    BY <1>17 DEF ParkCompaction
  <1>18. CASE Close
    BY <1>18 DEF Close
  <1>19. CASE Crash
    BY <1>19 DEF Crash
  <1> QED
    BY <1>0, <1>1, <1>2, <1>3, <1>4, <1>5, <1>6, <1>7, <1>8, <1>9, <1>10,
           <1>11, <1>12, <1>13, <1>14, <1>15, <1>16, <1>17, <1>18, <1>19
       DEF Next, Step, Open, OpenRecovering

\* Every transaction that moves a log moves its slots.
LEMMA SlotsKept == TypeOK /\ Reached /\ SlotsFit /\ [Next]_vars => SlotsFit'
  <1> SUFFICES ASSUME TypeOK, Reached, SlotsFit, [Next]_vars PROVE SlotsFit'
    OBVIOUS
  <1> USE BoundAssumption, PolicyAssumption
      DEF TypeOK, Reached, SlotsFit, ExactSlots, Counts, CommitRows, VersionedRows,
          StorageLayout, DerivedSlotsLayout, NoSlot, disk, slots, history, openVars
  <1>0. CASE UNCHANGED vars
    BY <1>0 DEF vars
  <1>1. ASSUME NEW requested \in Policies \cup {NoPolicy}, NEW recovering \in BOOLEAN,
               Begin(requested, recovering)
        PROVE  SlotsFit'
    BY <1>1 DEF Begin
  <1>2. CASE ApplyNothing
    BY <1>2 DEF ApplyNothing, Proceed
  <1>3. CASE ApplyStamp
    BY <1>3 DEF ApplyStamp, Proceed
  <1>4. CASE ApplyRebuild
    BY <1>4 DEF ApplyRebuild, ChainVerifies, Proceed
  <1>5. CASE ApplyBroken
    BY <1>5 DEF ApplyBroken, Reject
  <1>6. CASE Bind
    BY <1>6 DEF Bind, Proceed
  <1>7. CASE BindRefused
    BY <1>7 DEF BindRefused, Reject
  <1>8. CASE RecoveryRequired
    BY <1>8 DEF RecoveryRequired, Reject
  <1>9. CASE Serve
    BY <1>9 DEF Serve, Proceed
  <1>10. CASE Recover
    <2>1. CASE ResumePlanned
      BY <1>10, <2>1 DEF Recover, ResumePlanned, AppendVersioned
    <2>2. CASE ResumeCheckpoint
      BY <1>10, <2>2 DEF Recover, ResumeCheckpoint, TakeCheckpoint
    <2>3. CASE ResumeRefused
      BY <1>10, <2>3 DEF Recover, ResumeRefused, Reject
    <2>4. CASE ResumeFloor
      BY <1>10, <2>4 DEF Recover, ResumeFloor, Compacted
    <2>5. CASE ResumeDone
      BY <1>10, <2>5 DEF Recover, ResumeDone
    <2> QED
      BY <1>10, <2>1, <2>2, <2>3, <2>4, <2>5 DEF Recover
  <1>11. CASE Recovered
    BY <1>11 DEF Recovered, Proceed
  <1>12. CASE MaintainOpen
    BY <1>12 DEF MaintainOpen, Maintain, Proceed, TakeCheckpoint, Compacted,
           CoversHead
  <1>13. CASE OpenFails
    BY <1>13 DEF OpenFails, Fail
  <1>14. CASE Commit
    BY <1>14 DEF Commit, AppendVersioned, Proceed
  <1>15. CASE Tidy
    BY <1>15 DEF Tidy, Maintain, Proceed, TakeCheckpoint, Compacted,
           CoversHead
  <1>16. CASE TidyFails
    BY <1>16 DEF TidyFails
  <1>17. CASE ParkCompaction
    BY <1>17 DEF ParkCompaction
  <1>18. CASE Close
    BY <1>18 DEF Close
  <1>19. CASE Crash
    BY <1>19 DEF Crash
  <1> QED
    BY <1>0, <1>1, <1>2, <1>3, <1>4, <1>5, <1>6, <1>7, <1>8, <1>9, <1>10,
           <1>11, <1>12, <1>13, <1>14, <1>15, <1>16, <1>17, <1>18, <1>19
       DEF Next, Step, Open, OpenRecovering

\* Only Bind writes the policy, and never over one.
LEMMA PolicyKept == TypeOK /\ Reached /\ PolicySince /\ [Next]_vars => PolicySince'
  <1> SUFFICES ASSUME TypeOK, Reached, PolicySince, [Next]_vars PROVE PolicySince'
    OBVIOUS
  <1> USE BoundAssumption, PolicyAssumption
      DEF TypeOK, Reached, PolicySince, Requests, disk, slots, history, openVars
  <1>0. CASE UNCHANGED vars
    BY <1>0 DEF vars
  <1>1. ASSUME NEW requested \in Policies \cup {NoPolicy}, NEW recovering \in BOOLEAN,
               Begin(requested, recovering)
        PROVE  PolicySince'
    BY <1>1 DEF Begin, Disk
  <1>2. CASE ApplyNothing
    BY <1>2 DEF ApplyNothing, Proceed
  <1>3. CASE ApplyStamp
    BY <1>3 DEF ApplyStamp, Proceed
  <1>4. CASE ApplyRebuild
    BY <1>4 DEF ApplyRebuild, ChainVerifies, Proceed
  <1>5. CASE ApplyBroken
    BY <1>5 DEF ApplyBroken, Reject
  <1>6. CASE Bind
    BY <1>6 DEF Bind, Proceed
  <1>7. CASE BindRefused
    BY <1>7 DEF BindRefused, Reject
  <1>8. CASE RecoveryRequired
    BY <1>8 DEF RecoveryRequired, Reject
  <1>9. CASE Serve
    BY <1>9 DEF Serve, Proceed
  <1>10. CASE Recover
    <2>1. CASE ResumePlanned
      BY <1>10, <2>1 DEF Recover, ResumePlanned, AppendVersioned
    <2>2. CASE ResumeCheckpoint
      BY <1>10, <2>2 DEF Recover, ResumeCheckpoint, TakeCheckpoint
    <2>3. CASE ResumeRefused
      BY <1>10, <2>3 DEF Recover, ResumeRefused, Reject
    <2>4. CASE ResumeFloor
      BY <1>10, <2>4 DEF Recover, ResumeFloor, Compacted
    <2>5. CASE ResumeDone
      BY <1>10, <2>5 DEF Recover, ResumeDone
    <2> QED
      BY <1>10, <2>1, <2>2, <2>3, <2>4, <2>5 DEF Recover
  <1>11. CASE Recovered
    BY <1>11 DEF Recovered, Proceed
  <1>12. CASE MaintainOpen
    BY <1>12 DEF MaintainOpen, Maintain, Proceed, TakeCheckpoint, Compacted,
           CoversHead
  <1>13. CASE OpenFails
    BY <1>13 DEF OpenFails, Fail
  <1>14. CASE Commit
    BY <1>14 DEF Commit, AppendVersioned, Proceed
  <1>15. CASE Tidy
    BY <1>15 DEF Tidy, Maintain, Proceed, TakeCheckpoint, Compacted,
           CoversHead
  <1>16. CASE TidyFails
    BY <1>16 DEF TidyFails
  <1>17. CASE ParkCompaction
    BY <1>17 DEF ParkCompaction
  <1>18. CASE Close
    BY <1>18 DEF Close
  <1>19. CASE Crash
    BY <1>19 DEF Crash
  <1> QED
    BY <1>0, <1>1, <1>2, <1>3, <1>4, <1>5, <1>6, <1>7, <1>8, <1>9, <1>10,
           <1>11, <1>12, <1>13, <1>14, <1>15, <1>16, <1>17, <1>18, <1>19
       DEF Next, Step, Open, OpenRecovering

\* Slots change only to exact ones of this layout.
LEMMA SlotsComparedKept == IInv /\ [Next]_vars => SlotsSince'
  <1> SUFFICES ASSUME IInv, [Next]_vars PROVE SlotsSince'
    OBVIOUS
  <1> USE BoundAssumption, PolicyAssumption
      DEF IInv, SinceBegin, TypeOK, Reached, SlotsFit, SlotsSince, ExactSlots, Counts,
          CommitRows, VersionedRows, StorageLayout, DerivedSlotsLayout, NoSlot,
          disk, slots, history, openVars
  <1>0. CASE UNCHANGED vars
    BY <1>0 DEF vars
  <1>1. ASSUME NEW requested \in Policies \cup {NoPolicy}, NEW recovering \in BOOLEAN,
               Begin(requested, recovering)
        PROVE  SlotsSince'
    BY <1>1 DEF Begin, Disk
  <1>2. CASE ApplyNothing
    BY <1>2 DEF ApplyNothing, Proceed
  <1>3. CASE ApplyStamp
    BY <1>3 DEF ApplyStamp, Proceed
  <1>4. CASE ApplyRebuild
    BY <1>4 DEF ApplyRebuild, ChainVerifies, Proceed
  <1>5. CASE ApplyBroken
    BY <1>5 DEF ApplyBroken, Reject
  <1>6. CASE Bind
    BY <1>6 DEF Bind, Proceed
  <1>7. CASE BindRefused
    BY <1>7 DEF BindRefused, Reject
  <1>8. CASE RecoveryRequired
    BY <1>8 DEF RecoveryRequired, Reject
  <1>9. CASE Serve
    BY <1>9 DEF Serve, Proceed
  <1>10. CASE Recover
    <2>1. CASE ResumePlanned
      BY <1>10, <2>1 DEF Recover, ResumePlanned, AppendVersioned
    <2>2. CASE ResumeCheckpoint
      BY <1>10, <2>2 DEF Recover, ResumeCheckpoint, TakeCheckpoint
    <2>3. CASE ResumeRefused
      BY <1>10, <2>3 DEF Recover, ResumeRefused, Reject
    <2>4. CASE ResumeFloor
      BY <1>10, <2>4 DEF Recover, ResumeFloor, Compacted
    <2>5. CASE ResumeDone
      BY <1>10, <2>5 DEF Recover, ResumeDone
    <2> QED
      BY <1>10, <2>1, <2>2, <2>3, <2>4, <2>5 DEF Recover
  <1>11. CASE Recovered
    BY <1>11 DEF Recovered, Proceed
  <1>12. CASE MaintainOpen
    BY <1>12 DEF MaintainOpen, Maintain, Proceed, TakeCheckpoint, Compacted,
           CoversHead
  <1>13. CASE OpenFails
    BY <1>13 DEF OpenFails, Fail
  <1>14. CASE Commit
    BY <1>14 DEF Commit, AppendVersioned, Proceed
  <1>15. CASE Tidy
    BY <1>15 DEF Tidy, Maintain, Proceed, TakeCheckpoint, Compacted,
           CoversHead
  <1>16. CASE TidyFails
    BY <1>16 DEF TidyFails
  <1>17. CASE ParkCompaction
    BY <1>17 DEF ParkCompaction
  <1>18. CASE Close
    BY <1>18 DEF Close
  <1>19. CASE Crash
    BY <1>19 DEF Crash
  <1> QED
    BY <1>0, <1>1, <1>2, <1>3, <1>4, <1>5, <1>6, <1>7, <1>8, <1>9, <1>10,
           <1>11, <1>12, <1>13, <1>14, <1>15, <1>16, <1>17, <1>18, <1>19
       DEF Next, Step, Open, OpenRecovering

\* Only the resumption of a plan and the trimming change the history.
LEMMA HistoryComparedKept == IInv /\ [Next]_vars => HistorySince'
  <1> SUFFICES ASSUME IInv, [Next]_vars PROVE HistorySince'
    OBVIOUS
  <1> USE BoundAssumption, PolicyAssumption
      DEF IInv, SinceBegin, TypeOK, Reached, HistorySince, SameHistory, StorageLayout,
          disk, slots, history, openVars
  <1>0. CASE UNCHANGED vars
    BY <1>0 DEF vars
  <1>1. ASSUME NEW requested \in Policies \cup {NoPolicy}, NEW recovering \in BOOLEAN,
               Begin(requested, recovering)
        PROVE  HistorySince'
    BY <1>1 DEF Begin, Disk
  <1>2. CASE ApplyNothing
    BY <1>2 DEF ApplyNothing, Proceed
  <1>3. CASE ApplyStamp
    BY <1>3 DEF ApplyStamp, Proceed
  <1>4. CASE ApplyRebuild
    BY <1>4 DEF ApplyRebuild, ChainVerifies, Proceed
  <1>5. CASE ApplyBroken
    BY <1>5 DEF ApplyBroken, Reject
  <1>6. CASE Bind
    BY <1>6 DEF Bind, Proceed
  <1>7. CASE BindRefused
    BY <1>7 DEF BindRefused, Reject
  <1>8. CASE RecoveryRequired
    BY <1>8 DEF RecoveryRequired, Reject
  <1>9. CASE Serve
    BY <1>9 DEF Serve, Proceed
  <1>10. CASE Recover
    <2>1. CASE ResumePlanned
      BY <1>10, <2>1 DEF Recover, ResumePlanned, AppendVersioned
    <2>2. CASE ResumeCheckpoint
      BY <1>10, <2>2 DEF Recover, ResumeCheckpoint, TakeCheckpoint
    <2>3. CASE ResumeRefused
      BY <1>10, <2>3 DEF Recover, ResumeRefused, Reject
    <2>4. CASE ResumeFloor
      BY <1>10, <2>4 DEF Recover, ResumeFloor, Compacted
    <2>5. CASE ResumeDone
      BY <1>10, <2>5 DEF Recover, ResumeDone
    <2> QED
      BY <1>10, <2>1, <2>2, <2>3, <2>4, <2>5 DEF Recover
  <1>11. CASE Recovered
    BY <1>11 DEF Recovered, Proceed
  <1>12. CASE MaintainOpen
    BY <1>12 DEF MaintainOpen, Maintain, Proceed, TakeCheckpoint, Compacted,
           CoversHead
  <1>13. CASE OpenFails
    BY <1>13 DEF OpenFails, Fail
  <1>14. CASE Commit
    BY <1>14 DEF Commit, AppendVersioned, Proceed
  <1>15. CASE Tidy
    BY <1>15 DEF Tidy, Maintain, Proceed, TakeCheckpoint, Compacted,
           CoversHead
  <1>16. CASE TidyFails
    BY <1>16 DEF TidyFails
  <1>17. CASE ParkCompaction
    BY <1>17 DEF ParkCompaction
  <1>18. CASE Close
    BY <1>18 DEF Close
  <1>19. CASE Crash
    BY <1>19 DEF Crash
  <1> QED
    BY <1>0, <1>1, <1>2, <1>3, <1>4, <1>5, <1>6, <1>7, <1>8, <1>9, <1>10,
           <1>11, <1>12, <1>13, <1>14, <1>15, <1>16, <1>17, <1>18, <1>19
       DEF Next, Step, Open, OpenRecovering

\* Each step of an open or of a serving engine keeps it.
LEMMA Preserves == IInv /\ [Next]_vars => IInv'
  BY TypesKept, PlacesKept, SlotsKept, PolicyKept, SlotsComparedKept, HistoryComparedKept
     DEF IInv, SinceBegin

\* So it holds throughout.
LEMMA Invariant == Spec => []IInv
  BY Establishes, Preserves, PTL DEF Spec

\* An open and what comes after it keep the state well typed, and what was
\* compacted stays within what the checkpoint covers (StoreOpen!TypeOK).
THEOREM TypeCorrect == Spec => []TypeOK
  <1>1. IInv => TypeOK
    BY DEF IInv
  <1> QED
    BY Invariant, <1>1, PTL

\* Whoever gets to serve a store, of whatever layout and however many opens of
\* it have failed or died, has the slots of exactly the logs that are there, in
\* this layout and under the recorded policy (StoreOpen!ServesExactSlots).
THEOREM ServedSlotsExact == Spec => []ServesExactSlots
  <1>1. IInv => ServesExactSlots
    BY DEF IInv, Reached, SlotsFit, ServesExactSlots, StorageLayout, DerivedSlotsLayout
  <1> QED
    BY Invariant, <1>1, PTL

\* A rejected open leaves the store whole: slots old or completely upgraded,
\* the history untouched but for the progress of a recovery
\* (StoreOpen!RejectedStoreIntact).
THEOREM RejectionHarmless == Spec => []RejectedStoreIntact
  <1>1. IInv => RejectedStoreIntact
    <2> SUFFICES ASSUME IInv, pc = "rejected" PROVE RejectedStoreIntact
      BY DEF RejectedStoreIntact
    <2>1. layout = StorageLayout => ExactSlots
      BY DEF IInv, SlotsFit, StorageLayout, DerivedSlotsLayout
    <2> QED
      BY <2>1 DEF IInv, TypeOK, SinceBegin, PolicySince, SlotsSince, HistorySince,
                  SameHistory, RejectedStoreIntact
  <1> QED
    BY Invariant, <1>1, PTL


\* The step that BoundForGood allows.
Bound ==
  /\ layout' >= layout
  /\ policy # NoPolicy => policy' = policy /\ late' <= late

\* Only the layout plan writes the layout, only Bind the policy, and a commit
\* without versioning is one of an engine bound to none.
LEMMA StepsBind == IInv /\ [Next]_vars => Bound
  <1> SUFFICES ASSUME IInv, [Next]_vars PROVE Bound
    OBVIOUS
  <1> USE BoundAssumption, PolicyAssumption
      DEF IInv, TypeOK, Reached, Bound, StorageLayout, NoSlot, disk, slots, history, openVars
  <1>0. CASE UNCHANGED vars
    BY <1>0 DEF vars
  <1>1. ASSUME NEW requested \in Policies \cup {NoPolicy}, NEW recovering \in BOOLEAN,
               Begin(requested, recovering)
        PROVE  Bound
    BY <1>1 DEF Begin
  <1>2. CASE ApplyNothing
    BY <1>2 DEF ApplyNothing, Proceed
  <1>3. CASE ApplyStamp
    BY <1>3 DEF ApplyStamp, Proceed
  <1>4. CASE ApplyRebuild
    BY <1>4 DEF ApplyRebuild, ChainVerifies, Proceed
  <1>5. CASE ApplyBroken
    BY <1>5 DEF ApplyBroken, Reject
  <1>6. CASE Bind
    BY <1>6 DEF Bind, Proceed
  <1>7. CASE BindRefused
    BY <1>7 DEF BindRefused, Reject
  <1>8. CASE RecoveryRequired
    BY <1>8 DEF RecoveryRequired, Reject
  <1>9. CASE Serve
    BY <1>9 DEF Serve, Proceed
  <1>10. CASE Recover
    <2>1. CASE ResumePlanned
      BY <1>10, <2>1 DEF Recover, ResumePlanned, AppendVersioned
    <2>2. CASE ResumeCheckpoint
      BY <1>10, <2>2 DEF Recover, ResumeCheckpoint, TakeCheckpoint
    <2>3. CASE ResumeRefused
      BY <1>10, <2>3 DEF Recover, ResumeRefused, Reject
    <2>4. CASE ResumeFloor
      BY <1>10, <2>4 DEF Recover, ResumeFloor, Compacted
    <2>5. CASE ResumeDone
      BY <1>10, <2>5 DEF Recover, ResumeDone
    <2> QED
      BY <1>10, <2>1, <2>2, <2>3, <2>4, <2>5 DEF Recover
  <1>11. CASE Recovered
    BY <1>11 DEF Recovered, Proceed
  <1>12. CASE MaintainOpen
    BY <1>12 DEF MaintainOpen, Maintain, Proceed, TakeCheckpoint, Compacted,
           CoversHead
  <1>13. CASE OpenFails
    BY <1>13 DEF OpenFails, Fail
  <1>14. CASE Commit
    BY <1>14 DEF Commit, AppendVersioned, Proceed
  <1>15. CASE Tidy
    BY <1>15 DEF Tidy, Maintain, Proceed, TakeCheckpoint, Compacted,
           CoversHead
  <1>16. CASE TidyFails
    BY <1>16 DEF TidyFails
  <1>17. CASE ParkCompaction
    BY <1>17 DEF ParkCompaction
  <1>18. CASE Close
    BY <1>18 DEF Close
  <1>19. CASE Crash
    BY <1>19 DEF Crash
  <1> QED
    BY <1>0, <1>1, <1>2, <1>3, <1>4, <1>5, <1>6, <1>7, <1>8, <1>9, <1>10,
           <1>11, <1>12, <1>13, <1>14, <1>15, <1>16, <1>17, <1>18, <1>19
       DEF Next, Step, Open, OpenRecovering

\* No step takes the layout back, changes or drops a recorded policy, or lets a
\* store that has one take a commit past its versioned log
\* (StoreOpen!BoundForGood).
THEOREM PolicyBinds == Spec => BoundForGood
  BY Invariant, StepsBind, PTL DEF Spec, BoundForGood, Bound

=============================================================================
