------------------------------ MODULE FamilyLog ------------------------------
(***************************************************************************)
(* The versioned log of a store whose families have shapes: operations     *)
(* name the family identity they were logged under, a row is readable only *)
(* in the shape it was written in, and the fold works on (family, schema   *)
(* hash, key) and comes back to tables at the end.  Pure operators; the    *)
(* state is in FamilyStore.  VersionedLog is the same log with one family  *)
(* and one shape.                                                          *)
(*                                                                         *)
(* A digest is again the value it commits to: the bodies from genesis up   *)
(* to the entry.                                                           *)
(***************************************************************************)
EXTENDS Naturals, Sequences, FiniteSets

CONSTANTS Tables,            \* table coordinates
          IdentifiedTables,  \* those whose records the engine numbers
          Families,          \* family names
          Schemas,           \* schema hashes: the shapes a family's rows have had
          Keys,              \* domain keys
          MaxIdentifier,     \* bound: record identifiers run from 1 to this
          Data,              \* what a record says, whatever its shape
          Absent             \* no row; the payload of a tombstone; no identity

Identities == [family : Families, schema : Schemas, table : Tables]

Identifiers == 1 .. MaxIdentifier

RecordKeys == Keys \cup Identifiers

\* The rkyv bytes of a record: what it says and the shape it is written in.
Records == [schema : Schemas, datum : Data]

\* Absent is an Option's None, which is no value of the type inside.
ASSUME FamilyAssumption ==
  /\ IdentifiedTables \subseteq Tables
  /\ MaxIdentifier \in Nat
  /\ Absent \notin Data \cup Records \cup Identities \cup Tables

Rows == [Tables -> [RecordKeys -> Records \cup {Absent}]]

EmptyRows == [t \in Tables |-> [k \in RecordKeys |-> Absent]]

-----------------------------------------------------------------------------
(* Operations, entries and their chain *)

Operations == [kind : {"Assert", "Mutate", "Retract"}, identity : Identities,
               key : RecordKeys, payload : Records \cup {Absent}]

\* FamilyIdentity::shares_family: the table is only a coordinate.
Version(identity) == <<identity.family, identity.schema>>

SharesFamily(one, other) == Version(one) = Version(other)

\* stamp: the store schema hash, which is a hash of the registered versions.
Bodies == [sequence : Nat, stamp : SUBSET (Families \X Schemas),
           operations : Seq(Operations)]

Digests == Seq(Bodies)

NoDigest == <<>>

EntryDigest(entry) == Append(entry.previous, entry.body)

\* fold's verification of a list of entries: each names its predecessor's
\* digest, the first the given head.
ChainVerifies(entries, head) ==
  \A n \in DOMAIN entries :
    entries[n].previous =
      IF n = 1 THEN head ELSE EntryDigest(entries[n - 1])

\* The entries past a sequence: a key-range read of a log kept in the order of
\* its sequences.
Suffix(log, after) ==
  LET covered == {n \in DOMAIN log : log[n].body.sequence <= after}
  IN  SubSeq(log, Cardinality(covered) + 1, Len(log))

-----------------------------------------------------------------------------
(* The fold *)

\* One row of the canonical view, as a checkpoint segment holds it.
ViewRows == [identity : Identities, key : RecordKeys, payload : Records]

ViewKey(identity, key) == <<identity.family, identity.schema, key>>

\* CanonicalView.  payloads: every key the fold touched, Absent when it did not
\* keep it.  tables: the coordinate each family version was first declared at.
EmptyView == [payloads |-> <<>>, tables |-> <<>>]

\* apply_checkpoint_row, for all rows of a checkpoint at once: their keys are
\* distinct, and all rows of one version carry one identity.
ViewOfRows(rows) ==
  [payloads |->
     [vk \in {ViewKey(row.identity, row.key) : row \in rows} |->
        (CHOOSE row \in rows : ViewKey(row.identity, row.key) = vk).payload],
   tables |->
     [version \in {Version(row.identity) : row \in rows} |->
        (CHOOSE row \in rows : Version(row.identity) = version).identity.table]]

\* declare_identity: the first declaration stays.
Declare(tables, identity) ==
  IF Version(identity) \in DOMAIN tables THEN tables
  ELSE [version \in DOMAIN tables \cup {Version(identity)} |->
          IF version = Version(identity) THEN identity.table ELSE tables[version]]

\* An assertion or mutation leaves its payload, a retraction none.
ApplyOperation(view, operation) ==
  LET touched == ViewKey(operation.identity, operation.key)
  IN  [payloads |-> [vk \in DOMAIN view.payloads \cup {touched} |->
                       IF vk = touched
                         THEN operation.payload ELSE view.payloads[vk]],
       tables |-> Declare(view.tables, operation.identity)]

ApplyOperations(view, operations) ==
  LET after[n \in 0 .. Len(operations)] ==
        IF n = 0 THEN view ELSE ApplyOperation(after[n - 1], operations[n])
  IN  after[Len(operations)]

\* The loop of fold over the bodies of the entries.
ApplyBodies(view, bodies) ==
  LET after[n \in 0 .. Len(bodies)] ==
        IF n = 0 THEN view
        ELSE ApplyOperations(after[n - 1], bodies[n].operations)
  IN  after[Len(bodies)]

BodiesOf(entries) == [n \in DOMAIN entries |-> entries[n].body]

\* CanonicalView::fold once the chain has verified.
Fold(rows, entries) == ApplyBodies(ViewOfRows(rows), BodiesOf(entries))

\* resolve_identity.  Every touched key's version was declared by what touched
\* it, so the fallback to the inventory is never taken.
Resolve(view, vk) ==
  [family |-> vk[1], schema |-> vk[2], table |-> view.tables[<<vk[1], vk[2]>>]]

KeptKeys(view) == {vk \in DOMAIN view.payloads : view.payloads[vk] # Absent}

ClearedKeys(view) == DOMAIN view.payloads \ KeptKeys(view)

\* into_rows: the rows a checkpoint stores.
RowsOf(view) ==
  {[identity |-> Resolve(view, vk), key |-> vk[3], payload |-> view.payloads[vk]] :
     vk \in KeptKeys(view)}

At(view, vkeys, t, k) ==
  {vk \in vkeys : vk[3] = k /\ Resolve(view, vk).table = t}

\* Mutant: inserts first, then clears.
MaterializeInsertsFirst(view, rows) ==
  [t \in Tables |-> [k \in RecordKeys |->
     LET kept == At(view, KeptKeys(view), t, k)
     IN  IF At(view, ClearedKeys(view), t, k) # {} THEN Absent
         ELSE IF kept # {} THEN view.payloads[CHOOSE vk \in kept : TRUE]
         ELSE rows[t][k]]]

\* What writing a view does to the tables: first every cleared key, then every
\* kept row (in the order of the versions' hashes, which is any order).
Materialize(view, rows) ==
  [t \in Tables |-> [k \in RecordKeys |->
     LET kept == At(view, KeptKeys(view), t, k)
     IN  IF kept # {} THEN view.payloads[CHOOSE vk \in kept : TRUE]
         ELSE IF At(view, ClearedKeys(view), t, k) # {} THEN Absent
         ELSE rows[t][k]]]

=============================================================================
