---------------------------- MODULE VersionedLog ----------------------------
(***************************************************************************)
(* The data the engine commits: write operations, the materialized rows    *)
(* they act on, the digest-chained versioned entries that record them, and *)
(* the fold that turns entries back into rows.  Pure operators; the state  *)
(* that holds them is in WritePath.                                        *)
(*                                                                         *)
(* A digest is modelled as the value it commits to: EntryDigest hashes the *)
(* predecessor digest together with the entry's own fields, so the digest  *)
(* of an entry is the sequence of the bodies from genesis up to it, and    *)
(* the empty sequence is the missing predecessor of the first entry.  This *)
(* is a collision-free blake3, and nothing more.                           *)
(***************************************************************************)
EXTENDS Naturals, Sequences, FiniteSets

CONSTANTS Keys,     \* row coordinates: a family together with a record key
          Values,   \* record payloads
          Absent    \* no row at a key; also the payload of a tombstone

ASSUME AbsentAssumption == Absent \notin Values

-----------------------------------------------------------------------------
(* Operations and rows *)

\* What one write operation may be.  A retraction carries a tombstone.
Operations ==
  [kind : {"Assert", "Mutate"}, key : Keys, value : Values]
    \cup [kind : {"Retract"}, key : Keys, value : {Absent}]

\* What the single-record calls submit: each is the commit of one operation.
AssertKeyed(k, v) == <<[kind |-> "Assert", key |-> k, value |-> v]>>
MutateKeyed(k, v) == <<[kind |-> "Mutate", key |-> k, value |-> v]>>
RetractKey(k) == <<[kind |-> "Retract", key |-> k, value |-> Absent]>>

Rows == [Keys -> Values \cup {Absent}]

EmptyRows == [k \in Keys |-> Absent]

Touches(operations, k) == \E i \in DOMAIN operations : operations[i].key = k

\* The index of the last operation on k: a transaction applies its
\* operations in order, each insert or remove overwriting the one before.
LastOn(operations, k) ==
  CHOOSE i \in DOMAIN operations :
    /\ operations[i].key = k
    /\ \A j \in DOMAIN operations : operations[j].key = k => j <= i

Apply(operations, rows) ==
  [k \in Keys |-> IF Touches(operations, k)
                    THEN operations[LastOn(operations, k)].value
                    ELSE rows[k]]

\* The validation a writer makes against the committed rows before it mints
\* anything: an assertion of a present key and a mutation or retraction of an
\* absent one are refused.
AssertAdmitted(operation, rows) ==
  operation.kind = "Assert" => rows[operation.key] = Absent
MutateAdmitted(operation, rows) ==
  operation.kind = "Mutate" => rows[operation.key] # Absent
RetractAdmitted(operation, rows) ==
  operation.kind = "Retract" => rows[operation.key] # Absent

DistinctKeys(operations) ==
  \A i, j \in DOMAIN operations :
    operations[i].key = operations[j].key => i = j

\* Every operation of a commit is validated against the rows before the
\* commit, never against what an earlier operation of it will write; that is
\* sound because a key may be written once only.
Admitted(operations, rows) ==
  /\ operations # <<>>
  /\ DistinctKeys(operations)
  /\ \A i \in DOMAIN operations :
       /\ AssertAdmitted(operations[i], rows)
       /\ MutateAdmitted(operations[i], rows)
       /\ RetractAdmitted(operations[i], rows)

-----------------------------------------------------------------------------
(* Entries and their digest chain *)

Bodies == [sequence : Nat, snapshot : Nat, operations : Seq(Operations)]

Digests == Seq(Bodies)

NoDigest == <<>>

Entries == [body : Bodies, previous : Digests]

EntryDigest(entry) == Append(entry.previous, entry.body)

\* The digest of the n-th entry of the history whose head digest is given.
DigestAt(head, n) == SubSeq(head, 1, n)

\* CanonicalView::fold's verification: the entries, in commit order, name each
\* other's digests as predecessors, the first naming chainHead.
ChainVerifies(log, chainHead) ==
  \A n \in DOMAIN log :
    LET earlier == {m \in DOMAIN log : m < n}
    IN  log[n].previous =
          IF earlier = {}
            THEN chainHead
            ELSE EntryDigest(log[CHOOSE m \in earlier :
                                   \A l \in earlier : l <= m])

\* The entries of a log after a given sequence.
Suffix(log, after) == [n \in {m \in DOMAIN log : m > after} |-> log[n]]

-----------------------------------------------------------------------------
(* The fold *)

\* The entry of a log that wrote k last.
LastWriter(log, k) ==
  CHOOSE n \in DOMAIN log :
    /\ Touches(log[n].body.operations, k)
    /\ \A m \in DOMAIN log : Touches(log[m].body.operations, k) => m <= n

\* The canonical view: base rows overlaid with the entries of a log in commit
\* order, which leaves at each key what the last entry to touch it wrote.
CanonicalView(base, log) ==
  [k \in Keys |->
     IF \E n \in DOMAIN log : Touches(log[n].body.operations, k)
       THEN Apply(log[LastWriter(log, k)].body.operations, base)[k]
       ELSE base[k]]

\* The entries a head digest commits to, and the view they fold into.
EntriesOf(head) ==
  [n \in DOMAIN head |-> [body |-> head[n], previous |-> DigestAt(head, n - 1)]]

ViewOf(head) == CanonicalView(EmptyRows, EntriesOf(head))

-----------------------------------------------------------------------------
(* Checkpoint segments *)

\* A checkpoint stores its view as content-addressed segments: the address of
\* a segment is its content, and a view with no row has no segment.
Chunk(view) == IF view = EmptyRows THEN {} ELSE {view}

SegmentRows(segments) ==
  IF segments = {} THEN EmptyRows ELSE CHOOSE view \in segments : TRUE

=============================================================================
