------------------------------ MODULE GroupStore ------------------------------
(***************************************************************************)
(* What the engine promises of operation groups that await a grant: one    *)
(* history, extended by single commits and by whole groups; a parked group *)
(* that nobody sees until it is granted; and a grant that yields exactly   *)
(* the head that was promised.  However a group came into the history, its *)
(* commits are such as could have been made one by one.                    *)
(* Staging is shown to implement this.                                     *)
(***************************************************************************)
EXTENDS VersionedLog

VARIABLES history,  \* the bodies of all commits, in commit order
          rows,     \* the materialized rows
          parked    \* the history the parked group promises, <<>> when none

vars == <<history, rows, parked>>

\* A longer history continues a shorter one by commits numbered in order, each
\* admitted against the view of the commits before it.
Continues(longer, shorter) ==
  /\ Len(longer) > Len(shorter)
  /\ DigestAt(longer, Len(shorter)) = shorter
  /\ \A n \in Len(shorter) + 1 .. Len(longer) :
       /\ longer[n].sequence = n /\ longer[n].snapshot = n
       /\ Admitted(longer[n].operations, ViewOf(DigestAt(longer, n - 1)))

Init ==
  /\ history = <<>>
  /\ rows = EmptyRows
  /\ parked = <<>>

\* One commit, whatever is parked.
Commit ==
  /\ Len(history') = Len(history) + 1
  /\ Continues(history', history)
  /\ rows' = ViewOf(history')
  /\ UNCHANGED parked

\* A group is parked over the current history; nothing else changes.
Park ==
  /\ parked = <<>>
  /\ Continues(parked', history)
  /\ UNCHANGED <<history, rows>>

\* The grant: the history becomes what was promised, in one step.
Materialize ==
  /\ Continues(parked, history)
  /\ history' = parked
  /\ rows' = ViewOf(parked)
  /\ parked' = <<>>

Discard ==
  /\ parked # <<>>
  /\ parked' = <<>>
  /\ UNCHANGED <<history, rows>>

Next == Commit \/ Park \/ Materialize \/ Discard

Spec == Init /\ [][Next]_vars

=============================================================================
