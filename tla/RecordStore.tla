----------------------------- MODULE RecordStore -----------------------------
(***************************************************************************)
(* What a store is to its component over the years, whatever shapes its    *)
(* records have gone through and however often it was checkpointed,        *)
(* compacted, rebuilt or restored: records that change one at a time,      *)
(* identifiers that are given out once, and restores that bring back       *)
(* exactly what was archived.  FamilyStore is shown to implement this.     *)
(***************************************************************************)
EXTENDS Naturals, Sequences

CONSTANTS Tables, IdentifiedTables, RecordKeys, Data, Absent

VARIABLES records,  \* what each key of each table says, in no particular shape
          history,  \* the records after each commit
          archive   \* the history a restore would bring back

vars == <<records, history, archive>>

NoRecords == [t \in Tables |-> [k \in RecordKeys |-> Absent]]

RecordsAfter(past) == IF past = <<>> THEN NoRecords ELSE past[Len(past)]

Init ==
  /\ records = NoRecords
  /\ history = <<>>
  /\ archive = <<>>

\* A record comes, changes or goes; an identifier that was ever given out is
\* not given to another record.
Change(t, k, datum) ==
  /\ records[t][k] # Absent \/ datum # Absent
  /\ (t \in IdentifiedTables /\ records[t][k] = Absent) =>
       \A n \in DOMAIN history : history[n][t][k] = Absent
  /\ records' = [records EXCEPT ![t][k] = datum]
  /\ history' = Append(history, records')
  /\ UNCHANGED archive

\* A commit that rewrites records without changing what they say.
Rewrite ==
  /\ history' = Append(history, records)
  /\ UNCHANGED <<records, archive>>

\* The history is archived up to some point of it.
Archive ==
  /\ \E n \in 0 .. Len(history) : archive' = SubSeq(history, 1, n)
  /\ UNCHANGED <<records, history>>

Lose ==
  /\ records' = NoRecords
  /\ history' = <<>>
  /\ UNCHANGED archive

Restore ==
  /\ history = <<>>
  /\ history' = archive
  /\ records' = RecordsAfter(archive)
  /\ UNCHANGED archive

Next ==
  \/ \E t \in Tables, k \in RecordKeys, datum \in Data \cup {Absent} :
       Change(t, k, datum)
  \/ Rewrite \/ Archive \/ Lose \/ Restore

Spec == Init /\ [][Next]_vars

=============================================================================
