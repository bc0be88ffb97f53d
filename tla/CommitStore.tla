----------------------------- MODULE CommitStore -----------------------------
(***************************************************************************)
(* What the engine promises of its durable state, whatever its threads,    *)
(* checkpoints, compactions, mirror and crashes do: one serial history of  *)
(* commits, each admitted against the rows at the moment it takes effect   *)
(* and taking effect as a whole; rows that are that history's view; and a  *)
(* mirror confirmation that only moves forward within the history.         *)
(* WritePath is shown to implement this.                                   *)
(***************************************************************************)
EXTENDS VersionedLog

CONSTANTS Batches,  \* the operation lists clients submit
          Legacy    \* the operation lists committed before the store opened

VARIABLES history,   \* the bodies of all commits, in commit order
          rows,      \* the materialized rows
          confirmed  \* how many commits the mirror has confirmed

vars == <<history, rows, confirmed>>

\* The bodies of the commits the store opens with.
LegacyHistory ==
  [n \in DOMAIN Legacy |->
     [sequence |-> n, snapshot |-> n, operations |-> Legacy[n]]]

Init ==
  /\ history = LegacyHistory
  /\ rows = ViewOf(LegacyHistory)
  /\ confirmed = 0

Commit(operations) ==
  /\ Admitted(operations, rows)
  /\ LET next == Len(history) + 1
     IN  history' = Append(history, [sequence |-> next, snapshot |-> next,
                                     operations |-> operations])
  /\ rows' = Apply(operations, rows)
  /\ UNCHANGED confirmed

Confirm ==
  /\ confirmed' \in confirmed + 1 .. Len(history)
  /\ UNCHANGED <<history, rows>>

Next == Confirm \/ \E operations \in Batches : Commit(operations)

Spec == Init /\ [][Next]_vars

=============================================================================
