------------------------------ MODULE MCStaging ------------------------------
(* Small instances of Staging for TLC. *)
EXTENDS Staging

CONSTANTS k1, k2, a, b

\* One keyed row and the rows of one identified table.
KeysWithOneIdentifier == {k1, 1}
KeysWithTwoIdentifiers == {k1, 1, 2}

\* A row comes, changes and goes.
KeyedBatches == {AssertKeyed(k1, a), MutateKeyed(k1, b), RetractKey(k1)}

\* With one payload.
OnePayloadBatches == {AssertKeyed(k1, a), RetractKey(k1)}

\* Lists over two keyed rows.
PairedBatches ==
  {AssertKeyed(k1, a) \o AssertKeyed(k2, b), MutateKeyed(k1, b) \o RetractKey(k2),
   RetractKey(k1)}

=============================================================================
