----------------------------- MODULE MCWritePath -----------------------------
(* Small instances of WritePath for TLC. *)
EXTENDS WritePath

LOCAL INSTANCE TLC

CONSTANTS w1, w2, k1, k2, a, b

NoLegacy == <<>>
TwoLegacyCommits == <<AssertKeyed(k1, a), MutateKeyed(k1, b)>>

\* Single operations on one key, with two payloads.
OneKeyBatches == {AssertKeyed(k1, a), MutateKeyed(k1, b), RetractKey(k1)}

\* A row that comes and goes.
OnePayloadBatches == {AssertKeyed(k1, a), RetractKey(k1)}

\* Lists over two keys, among them the ones validation refuses whatever the
\* rows are: the empty list and a key written twice.
TwoKeyBatches ==
  {<<>>, AssertKeyed(k1, a), RetractKey(k1),
   AssertKeyed(k1, a) \o AssertKeyed(k2, b),
   MutateKeyed(k1, b) \o RetractKey(k2),
   AssertKeyed(k2, a) \o RetractKey(k2)}

WriterSymmetry == Permutations(Writers)

=============================================================================
