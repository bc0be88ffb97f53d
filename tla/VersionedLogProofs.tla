------------------------- MODULE VersionedLogProofs -------------------------
(***************************************************************************)
(* What the operators of VersionedLog preserve, for every value of the     *)
(* constants: applying operations keeps rows well formed, appending an     *)
(* entry extends the digest chain without touching what is before it, and  *)
(* the fold of a history grows by exactly the operations of the appended   *)
(* entry.                                                                  *)
(***************************************************************************)
EXTENDS VersionedLog, FiniteSetTheorems, SequenceTheorems, TLAPS

(* A finite nonempty set of naturals has a greatest element: what makes the *)
(* CHOOSE of LastOn, LastWriter and Newest denote.  The sets of elements    *)
(* above each member are finite, so one of them is minimal under inclusion, *)
(* and a minimal one is empty.                                              *)
LEMMA GreatestExists ==
  ASSUME NEW S \in SUBSET Nat, S # {}, IsFiniteSet(S)
  PROVE  \E x \in S : \A y \in S : y <= x
<1> DEFINE Above(x) == {y \in S : y > x}
           F == {Above(x) : x \in S}
<1>2. F \subseteq FiniteSubsetsOf(S)
  BY FS_Subset DEF FiniteSubsetsOf
<1>3. F # {}
  OBVIOUS
<1>4. PICK U \in F : \A V \in F : ~(<<V, U>> \in StrictSubsetOrdering(S))
  <2> HIDE DEF F
  <2>1. QED  BY <1>2, <1>3, FS_StrictSubsetOrderingWellFounded, WFMin
<1>5. PICK x \in S : U = Above(x)
  BY <1>4
<1>6. ASSUME NEW z \in Above(x)
      PROVE  FALSE
  <2>1. Above(z) \in F
    OBVIOUS
  <2>2. z \notin Above(z) /\ Above(z) \subseteq Above(x)
    <3>1. z \in Nat /\ x \in Nat /\ z > x
      BY <1>6
    <3>2. ASSUME NEW y \in S, y > z
          PROVE  y > x
      <4>1. y \in Nat
        OBVIOUS
      <4>2. QED  BY <4>1, <3>1, <3>2
    <3>3. ~(z > z)
      BY <3>1
    <3>4. QED  BY <3>2, <3>3, Zenon
  <2>3. <<Above(z), Above(x)>> \in StrictSubsetOrdering(S)
    BY <2>2, <1>6 DEF StrictSubsetOrdering
  <2>4. QED  BY <2>1, <2>3, <1>4, <1>5
<1>7. QED  BY <1>6

(* And a least one, by the sets of elements below each member. *)
LEMMA LeastExists ==
  ASSUME NEW S \in SUBSET Nat, S # {}, IsFiniteSet(S)
  PROVE  \E x \in S : \A y \in S : x <= y
<1> DEFINE Below(x) == {y \in S : y < x}
           F == {Below(x) : x \in S}
<1>2. F \subseteq FiniteSubsetsOf(S)
  BY FS_Subset DEF FiniteSubsetsOf
<1>3. F # {}
  OBVIOUS
<1>4. PICK U \in F : \A V \in F : ~(<<V, U>> \in StrictSubsetOrdering(S))
  <2> HIDE DEF F
  <2>1. QED  BY <1>2, <1>3, FS_StrictSubsetOrderingWellFounded, WFMin
<1>5. PICK x \in S : U = Below(x)
  BY <1>4
<1>6. ASSUME NEW z \in Below(x)
      PROVE  FALSE
  <2>1. Below(z) \in F
    OBVIOUS
  <2>2. z \notin Below(z) /\ Below(z) \subseteq Below(x)
    <3>1. z \in Nat /\ x \in Nat /\ z < x
      BY <1>6
    <3>2. ASSUME NEW y \in S, y < z
          PROVE  y < x
      <4>1. y \in Nat
        OBVIOUS
      <4>2. QED  BY <4>1, <3>1, <3>2
    <3>3. ~(z < z)
      BY <3>1
    <3>4. QED  BY <3>2, <3>3, Zenon
  <2>3. <<Below(z), Below(x)>> \in StrictSubsetOrdering(S)
    BY <2>2, <1>6 DEF StrictSubsetOrdering
  <2>4. QED  BY <2>1, <2>3, <1>4, <1>5
<1>7. QED  BY <1>6

-----------------------------------------------------------------------------
(* Operations and rows *)

(* The last operation on a touched key exists and is on that key. *)
LEMMA LastOnProperties ==
  ASSUME NEW operations \in Seq(Operations), NEW k, Touches(operations, k)
  PROVE  /\ LastOn(operations, k) \in DOMAIN operations
         /\ operations[LastOn(operations, k)].key = k
<1> DEFINE S == {i \in DOMAIN operations : operations[i].key = k}
<1>1. Len(operations) \in Nat /\ DOMAIN operations = 1 .. Len(operations)
  BY LenProperties
<1>2. S \in SUBSET Nat /\ S # {} /\ IsFiniteSet(S)
  <2>1. IsFiniteSet(1 .. Len(operations)) /\ S \subseteq 1 .. Len(operations)
    BY <1>1, FS_Interval
  <2>2. IsFiniteSet(S)
    <3> HIDE DEF S
    <3>1. QED  BY <2>1, FS_Subset
  <2>3. QED  BY <1>1, <2>2 DEF Touches
<1>3. PICK i \in S : \A j \in S : j <= i
  <2> HIDE DEF S
  <2>1. QED  BY <1>1, <1>2, GreatestExists
<1>4. \E l \in DOMAIN operations :
        /\ operations[l].key = k
        /\ \A j \in DOMAIN operations : operations[j].key = k => j <= l
  BY <1>3
<1>5. QED  BY <1>4 DEF LastOn

(* Applying a list of operations to rows gives rows. *)
LEMMA ApplyType ==
  ASSUME NEW operations \in Seq(Operations), NEW r \in Rows
  PROVE  Apply(operations, r) \in Rows
<1>1. ASSUME NEW k \in Keys, Touches(operations, k)
      PROVE  operations[LastOn(operations, k)].value \in Values \cup {Absent}
  <2>1. operations[LastOn(operations, k)] \in Operations
    BY <1>1, LastOnProperties, LenProperties
  <2>2. QED  BY <2>1 DEF Operations
<1>2. QED  BY <1>1 DEF Apply, Rows

-----------------------------------------------------------------------------
(* The digest chain *)

(* A digest names every digest before it, each ending in its own body. *)
LEMMA DigestAtProperties ==
  ASSUME NEW head \in Digests
  PROVE  /\ \A n \in 0 .. Len(head) :
              /\ DigestAt(head, n) \in Digests
              /\ Len(DigestAt(head, n)) = n
              /\ \A m \in 1 .. n : DigestAt(head, n)[m] = head[m]
         /\ \A n \in 1 .. Len(head) :
              Append(DigestAt(head, n - 1), head[n]) = DigestAt(head, n)
         /\ DigestAt(head, Len(head)) = head
         /\ DigestAt(head, 0) = NoDigest
<1> USE DEF DigestAt, Digests, NoDigest
<1>1. ASSUME NEW n \in 0 .. Len(head)
      PROVE  /\ SubSeq(head, 1, n) \in Seq(Bodies)
             /\ Len(SubSeq(head, 1, n)) = n
             /\ \A m \in 1 .. n : SubSeq(head, 1, n)[m] = head[m]
  <2>1. \A i \in 1 .. n : head[i] \in Bodies
    BY LenProperties
  <2>2. QED  BY <2>1, SubSeqProperties
<1>2. ASSUME NEW n \in 1 .. Len(head)
      PROVE  Append(SubSeq(head, 1, n - 1), head[n]) = SubSeq(head, 1, n)
  <2> DEFINE s == Append(SubSeq(head, 1, n - 1), head[n])
             t == SubSeq(head, 1, n)
             p == SubSeq(head, 1, n - 1)
  <2>1. n - 1 \in 0 .. Len(head) /\ n \in 0 .. Len(head) /\ head[n] \in Bodies
    BY LenProperties
  <2>2. p \in Seq(Bodies) /\ Len(p) = n - 1 /\ \A m \in 1 .. n - 1 : p[m] = head[m]
    BY <2>1, <1>1
  <2>3. t \in Seq(Bodies) /\ Len(t) = n /\ \A m \in 1 .. n : t[m] = head[m]
    BY <2>1, <1>1
  <2> HIDE DEF p, t
  <2>4. s \in Seq(Bodies) /\ Len(s) = n /\ \A m \in 1 .. n : s[m] = head[m]
    BY <2>1, <2>2 DEF p
  <2> HIDE DEF s
  <2>5. s = t
    BY <2>3, <2>4, SeqEqual
  <2>6. QED  BY <2>5 DEF s, t
<1>3. SubSeq(head, 1, Len(head)) = head
  BY SubSeqFull
<1>4. SubSeq(head, 1, 0) = << >>
  BY SubSeqEmpty
<1>5. QED  BY <1>1, <1>2, <1>3, <1>4

(* Appending a body leaves every earlier digest as it was. *)
LEMMA AppendKeepsDigests ==
  ASSUME NEW head \in Digests, NEW body \in Bodies
  PROVE  /\ Append(head, body) \in Digests
         /\ Len(Append(head, body)) = Len(head) + 1
         /\ \A n \in 1 .. Len(head) : Append(head, body)[n] = head[n]
         /\ Append(head, body)[Len(head) + 1] = body
         /\ \A n \in 0 .. Len(head) :
              DigestAt(Append(head, body), n) = DigestAt(head, n)
<1> DEFINE longer == Append(head, body)
<1>1. /\ longer \in Digests
      /\ Len(longer) = Len(head) + 1
      /\ \A n \in 1 .. Len(head) : longer[n] = head[n]
      /\ longer[Len(head) + 1] = body
  BY DEF Digests
<1>2. ASSUME NEW n \in 0 .. Len(head)
      PROVE  DigestAt(longer, n) = DigestAt(head, n)
  <2> HIDE DEF longer
  <2>1. Len(head) \in Nat /\ n \in 0 .. Len(longer)
    BY <1>1, LenProperties DEF Digests
  <2>2. /\ DigestAt(longer, n) \in Digests /\ Len(DigestAt(longer, n)) = n
        /\ \A m \in 1 .. n : DigestAt(longer, n)[m] = longer[m]
    BY <1>1, <2>1, DigestAtProperties
  <2>3. /\ DigestAt(head, n) \in Digests /\ Len(DigestAt(head, n)) = n
        /\ \A m \in 1 .. n : DigestAt(head, n)[m] = head[m]
    BY DigestAtProperties
  <2>4. \A m \in 1 .. n : DigestAt(longer, n)[m] = DigestAt(head, n)[m]
    BY <1>1, <2>1, <2>2, <2>3
  <2>5. QED  BY <2>2, <2>3, <2>4, SeqEqual DEF Digests
<1>3. QED  BY <1>1, <1>2

-----------------------------------------------------------------------------
(* The fold *)

(* The last entry of a finite log to touch a key exists, touches it, and no *)
(* later entry does.                                                         *)
LEMMA LastWriterProperties ==
  ASSUME NEW log, DOMAIN log \in SUBSET Nat,
         IsFiniteSet(DOMAIN log),
         NEW k, \E n \in DOMAIN log : Touches(log[n].body.operations, k)
  PROVE  /\ LastWriter(log, k) \in DOMAIN log
         /\ Touches(log[LastWriter(log, k)].body.operations, k)
         /\ \A m \in DOMAIN log :
              Touches(log[m].body.operations, k) => m <= LastWriter(log, k)
<1> DEFINE S == {n \in DOMAIN log : Touches(log[n].body.operations, k)}
<1>1. S \in SUBSET Nat /\ S # {} /\ IsFiniteSet(S)
  BY FS_Subset
<1>2. PICK n \in S : \A m \in S : m <= n
  <2> HIDE DEF S
  <2>1. QED  BY <1>1, GreatestExists
<1>3. \E l \in DOMAIN log :
        /\ Touches(log[l].body.operations, k)
        /\ \A m \in DOMAIN log : Touches(log[m].body.operations, k) => m <= l
  BY <1>2
<1>4. QED  BY <1>3 DEF LastWriter

(* The fold of well-formed entries over rows gives rows. *)
LEMMA CanonicalViewType ==
  ASSUME NEW base \in Rows,
         NEW log, DOMAIN log \in SUBSET Nat,
         IsFiniteSet(DOMAIN log),
         \A n \in DOMAIN log : log[n].body \in Bodies
  PROVE  CanonicalView(base, log) \in Rows
<1>1. ASSUME NEW k \in Keys,
             \E n \in DOMAIN log : Touches(log[n].body.operations, k)
      PROVE  Apply(log[LastWriter(log, k)].body.operations, base)[k]
               \in Values \cup {Absent}
  <2>1. log[LastWriter(log, k)].body.operations \in Seq(Operations)
    BY <1>1, LastWriterProperties DEF Bodies
  <2>2. QED  BY <2>1, ApplyType DEF Rows
<1>2. QED  BY <1>1 DEF CanonicalView, Rows

(* The entries of a history: one per body, at its own sequence. *)
LEMMA EntriesOfProperties ==
  ASSUME NEW head \in Digests
  PROVE  /\ Len(head) \in Nat
         /\ DOMAIN head = 1 .. Len(head)
         /\ DOMAIN EntriesOf(head) = 1 .. Len(head)
         /\ IsFiniteSet(DOMAIN EntriesOf(head))
         /\ \A n \in 1 .. Len(head) :
              /\ EntriesOf(head)[n].body = head[n]
              /\ head[n] \in Bodies
              /\ EntriesOf(head)[n].previous = DigestAt(head, n - 1)
<1>1. /\ Len(head) \in Nat
      /\ DOMAIN head = 1 .. Len(head)
      /\ DOMAIN EntriesOf(head) = 1 .. Len(head)
      /\ \A n \in 1 .. Len(head) :
           /\ EntriesOf(head)[n].body = head[n]
           /\ head[n] \in Bodies
           /\ EntriesOf(head)[n].previous = DigestAt(head, n - 1)
  BY LenProperties DEF EntriesOf, Digests
<1>2. IsFiniteSet(1 .. Len(head))
  BY <1>1, FS_Interval
<1>3. QED  BY <1>1, <1>2

(* The view of a history is rows. *)
LEMMA ViewOfType ==
  ASSUME NEW head \in Digests
  PROVE  ViewOf(head) \in Rows
<1>1. EmptyRows \in Rows
  BY DEF EmptyRows, Rows
<1>2. DOMAIN EntriesOf(head) \in SUBSET Nat
  BY EntriesOfProperties
<1>3. QED  BY <1>1, <1>2, EntriesOfProperties, CanonicalViewType DEF ViewOf

(* CanonicalView::fold one entry further: a log with one more entry folds to *)
(* that entry's operations applied to the fold of the log.                   *)
LEMMA FoldOneFurther ==
  ASSUME NEW base, NEW old, NEW new, NEW last \in Nat \ {0}, NEW body,
         DOMAIN old = 1 .. last - 1, DOMAIN new = 1 .. last,
         \A n \in 1 .. last - 1 : new[n].body = old[n].body,
         new[last].body = body
  PROVE  CanonicalView(base, new) = Apply(body.operations, CanonicalView(base, old))
<1> DEFINE wrote(log, k) == \E n \in DOMAIN log : Touches(log[n].body.operations, k)
<1>1. DOMAIN old \in SUBSET Nat /\ DOMAIN new \in SUBSET Nat
  OBVIOUS
<1>2. IsFiniteSet(DOMAIN old) /\ IsFiniteSet(DOMAIN new) /\ last - 1 \in Nat
  BY FS_Interval
<1>3. \A r : \A k \in Keys : Touches(body.operations, k) =>
        Apply(body.operations, r)[k]
          = body.operations[LastOn(body.operations, k)].value
  BY DEF Apply
<1>4. ASSUME NEW k \in Keys
      PROVE  CanonicalView(base, new)[k]
               = Apply(body.operations, CanonicalView(base, old))[k]
  <2>1. CASE Touches(body.operations, k)
    <3>1. wrote(new, k)
      BY <1>2, <2>1
    <3>2. LastWriter(new, k) = last
      <4>1. /\ LastWriter(new, k) \in DOMAIN new
            /\ last <= LastWriter(new, k)
        BY <1>2, <2>1, <3>1, LastWriterProperties
      <4>2. QED  BY <4>1, <1>2
    <3>3. CanonicalView(base, new)[k] = Apply(body.operations, base)[k]
      BY <1>2, <3>1, <3>2 DEF CanonicalView
    <3>4. QED  BY <1>3, <2>1, <3>3
  <2>2. CASE ~Touches(body.operations, k)
    <3>1. Apply(body.operations, CanonicalView(base, old))[k]
            = CanonicalView(base, old)[k]
      BY <2>2 DEF Apply
    <3>2. CASE wrote(old, k)
      <4>1. wrote(new, k)
        BY <1>2, <3>2
      <4>2. /\ LastWriter(old, k) \in 1 .. last - 1
            /\ Touches(old[LastWriter(old, k)].body.operations, k)
            /\ \A m \in 1 .. last - 1 :
                 Touches(old[m].body.operations, k) => m <= LastWriter(old, k)
        BY <1>2, <3>2, LastWriterProperties
      <4>3. /\ LastWriter(new, k) \in 1 .. last
            /\ Touches(new[LastWriter(new, k)].body.operations, k)
            /\ \A m \in 1 .. last :
                 Touches(new[m].body.operations, k) => m <= LastWriter(new, k)
        <5>1. DOMAIN new \in SUBSET Nat
          BY <1>2
        <5>2. QED  BY <1>2, <4>1, <5>1, LastWriterProperties
      <4>4. LastWriter(new, k) # last
        BY <1>2, <2>2, <4>3
      <4>5. LastWriter(new, k) \in 1 .. last - 1
        BY <1>2, <4>3, <4>4
      <4>6. LastWriter(new, k) = LastWriter(old, k)
        <5>1. LastWriter(new, k) <= LastWriter(old, k)
          BY <1>2, <4>2, <4>3, <4>5
        <5>2. LastWriter(old, k) <= LastWriter(new, k)
          BY <1>2, <4>2, <4>3
        <5>3. QED  BY <5>1, <5>2, <4>2, <4>5
      <4>7. QED
        BY <1>2, <3>1, <3>2, <4>1, <4>5, <4>6 DEF CanonicalView
    <3>3. CASE ~wrote(old, k)
      <4>1. ~wrote(new, k)
        BY <1>2, <2>2, <3>3
      <4>2. QED  BY <3>1, <3>3, <4>1 DEF CanonicalView
    <3>4. QED  BY <3>2, <3>3
  <2>3. QED  BY <2>1, <2>2
<1>5. QED  BY <1>4 DEF CanonicalView, Apply

(* So the view of a history and one more entry is that entry's operations    *)
(* applied to the view of the history.  This is why the rows the write path  *)
(* updates in place stay the fold of the log.                                *)
LEMMA ViewOfAppend ==
  ASSUME NEW head \in Digests, NEW body \in Bodies
  PROVE  ViewOf(Append(head, body)) = Apply(body.operations, ViewOf(head))
<1> DEFINE longer == Append(head, body)
           old == EntriesOf(head)
           new == EntriesOf(longer)
           last == Len(head) + 1
<1>1. /\ longer \in Digests /\ Len(longer) = last
      /\ \A n \in 1 .. Len(head) : longer[n] = head[n]
      /\ longer[last] = body
  BY AppendKeepsDigests
<1> HIDE DEF longer
<1>2. /\ last \in Nat \ {0} /\ last - 1 = Len(head)
      /\ DOMAIN old = 1 .. last - 1 /\ DOMAIN new = 1 .. last
      /\ \A n \in 1 .. last - 1 : new[n].body = old[n].body
      /\ new[last].body = body
  BY <1>1, EntriesOfProperties
<1> HIDE DEF old, new, last
<1>3. CanonicalView(EmptyRows, new) = Apply(body.operations, CanonicalView(EmptyRows, old))
  BY <1>2, FoldOneFurther
<1>4. QED  BY <1>3 DEF ViewOf, old, new, longer

\* A part of a log that holds the last write of the log to a key.
HoldsLastWrite(small, large, k) ==
  /\ DOMAIN small \subseteq DOMAIN large
  /\ \A n \in DOMAIN small : small[n].body = large[n].body
  /\ \E n \in DOMAIN small : Touches(small[n].body.operations, k)
  /\ \A n \in DOMAIN large : Touches(large[n].body.operations, k) =>
       \E m \in DOMAIN small : n <= m /\ Touches(small[m].body.operations, k)

(* Such a part leaves at the key what the whole log does, whatever rows each *)
(* is folded over.                                                           *)
LEMMA SameLastWriter ==
  ASSUME NEW small, NEW large, NEW k \in Keys, NEW low, NEW high,
         DOMAIN large \in SUBSET Nat, IsFiniteSet(DOMAIN large),
         HoldsLastWrite(small, large, k)
  PROVE  CanonicalView(low, small)[k] = CanonicalView(high, large)[k]
<1> DEFINE s == LastWriter(small, k)
           l == LastWriter(large, k)
<1>1. /\ s \in DOMAIN small /\ Touches(small[s].body.operations, k)
      /\ \A m \in DOMAIN small : Touches(small[m].body.operations, k) => m <= s
  <2>1. /\ DOMAIN small \in SUBSET Nat /\ IsFiniteSet(DOMAIN small)
        /\ \E n \in DOMAIN small : Touches(small[n].body.operations, k)
    BY FS_Subset DEF HoldsLastWrite
  <2>2. QED  BY <2>1, LastWriterProperties
<1>2. \E n \in DOMAIN large : Touches(large[n].body.operations, k)
  BY DEF HoldsLastWrite
<1>3. /\ l \in DOMAIN large /\ Touches(large[l].body.operations, k)
      /\ \A m \in DOMAIN large : Touches(large[m].body.operations, k) => m <= l
  BY <1>2, LastWriterProperties
<1> HIDE DEF s, l
<1>4. s = l
  <2>1. s <= l
    BY <1>1, <1>3 DEF HoldsLastWrite
  <2>2. PICK m \in DOMAIN small : l <= m /\ Touches(small[m].body.operations, k)
    BY <1>3 DEF HoldsLastWrite
  <2>3. m <= s
    BY <1>1, <2>2
  <2>4. s \in Nat /\ l \in Nat /\ m \in Nat
    BY <1>1, <1>3 DEF HoldsLastWrite
  <2>5. QED  BY <2>1, <2>2, <2>3, <2>4
<1> DEFINE operations == small[s].body.operations
<1>5. operations = large[l].body.operations
  BY <1>1, <1>4 DEF HoldsLastWrite
<1>6. \A r : Apply(operations, r)[k] = operations[LastOn(operations, k)].value
  BY <1>1 DEF Apply
<1> HIDE DEF operations
<1>7. CanonicalView(low, small)[k] = Apply(operations, low)[k]
  BY DEF CanonicalView, operations, s, HoldsLastWrite
<1>8. CanonicalView(high, large)[k] = Apply(operations, high)[k]
  BY <1>2, <1>5 DEF CanonicalView, l
<1>9. QED  BY <1>6, <1>7, <1>8

(* A history cut anywhere: folding the entries after the cut over the view   *)
(* of the entries before it gives the view of the whole.  This is what lets  *)
(* a checkpoint build on the one before it, and what lets a store whose      *)
(* covered entries are gone be rebuilt from a checkpoint and the rest.       *)
LEMMA FoldSplit ==
  ASSUME NEW head \in Digests, NEW cut \in 0 .. Len(head),
         NEW log, DOMAIN log = cut + 1 .. Len(head),
         \A n \in DOMAIN log : log[n].body = head[n]
  PROVE  CanonicalView(ViewOf(DigestAt(head, cut)), log) = ViewOf(head)
<1> DEFINE prefix == DigestAt(head, cut)
           old == EntriesOf(prefix)
           all == EntriesOf(head)
           base == CanonicalView(EmptyRows, old)
           wrote(l, k) == \E n \in DOMAIN l : Touches(l[n].body.operations, k)
<1>1. /\ Len(head) \in Nat /\ cut \in Nat
      /\ DOMAIN all = 1 .. Len(head) /\ IsFiniteSet(DOMAIN all)
      /\ \A n \in 1 .. Len(head) : all[n].body = head[n]
  BY EntriesOfProperties
<1>2. /\ prefix \in Digests /\ Len(prefix) = cut
      /\ \A n \in 1 .. cut : prefix[n] = head[n]
  BY DigestAtProperties
<1> HIDE DEF prefix
<1>3. /\ DOMAIN old = 1 .. cut /\ IsFiniteSet(DOMAIN old)
      /\ \A n \in 1 .. cut : old[n].body = head[n]
  BY <1>2, EntriesOfProperties
<1>4. IsFiniteSet(DOMAIN log) /\ DOMAIN log \in SUBSET Nat
  BY <1>1, FS_Interval
<1> HIDE DEF old, all
<1>5. ASSUME NEW k \in Keys
      PROVE  CanonicalView(base, log)[k] = CanonicalView(EmptyRows, all)[k]
  <2>1. CASE wrote(log, k)
    <3>1. PICK m \in DOMAIN log : Touches(log[m].body.operations, k)
      BY <2>1
    <3>2. ASSUME NEW n \in DOMAIN all, Touches(all[n].body.operations, k)
          PROVE  \E j \in DOMAIN log : n <= j /\ Touches(log[j].body.operations, k)
      <4>1. CASE n <= cut
        BY <1>1, <3>1, <4>1
      <4>2. CASE n > cut
        <5>1. n \in DOMAIN log /\ log[n].body = all[n].body /\ n <= n
          BY <1>1, <4>2
        <5>2. QED  BY <3>2, <5>1
      <4>3. QED  BY <1>1, <4>1, <4>2
    <3>3. DOMAIN log \subseteq DOMAIN all /\ DOMAIN all \in SUBSET Nat
      BY <1>1
    <3>4. \A n \in DOMAIN log : log[n].body = all[n].body
      BY <1>1
    <3>5. HoldsLastWrite(log, all, k)
      BY <2>1, <3>2, <3>3, <3>4 DEF HoldsLastWrite
    <3>6. DOMAIN all \in SUBSET Nat /\ IsFiniteSet(DOMAIN all)
      BY <1>1
    <3> HIDE DEF base, wrote
    <3>7. QED  BY k \in Keys, <3>5, <3>6, SameLastWriter
  <2>2. CASE ~wrote(log, k)
    <3>1. CanonicalView(base, log)[k] = CanonicalView(EmptyRows, old)[k]
      BY <2>2 DEF CanonicalView
    <3>2. ASSUME NEW n \in DOMAIN all, Touches(all[n].body.operations, k)
          PROVE  n \in DOMAIN old /\ Touches(old[n].body.operations, k)
      <4>1. n <= cut
        <5>1. CASE n > cut
          <6>1. n \in DOMAIN log /\ log[n].body = all[n].body
            BY <1>1, <5>1
          <6>2. QED  BY <2>2, <3>2, <6>1
        <5>2. QED  BY <1>1, <5>1
      <4>2. QED  BY <1>1, <1>3, <3>2, <4>1
    <3>3. CASE wrote(old, k)
      <4>1. /\ DOMAIN old \subseteq DOMAIN all
            /\ DOMAIN all \in SUBSET Nat /\ DOMAIN old \in SUBSET Nat
        BY <1>1, <1>3
      <4>2. \A n \in DOMAIN old : old[n].body = all[n].body
        BY <1>1, <1>3
      <4>3. ASSUME NEW n \in DOMAIN all, Touches(all[n].body.operations, k)
            PROVE  \E j \in DOMAIN old : n <= j /\ Touches(old[j].body.operations, k)
        <5>1. n <= n
          BY <1>1
        <5>2. QED  BY <3>2, <4>3, <5>1
      <4>4. HoldsLastWrite(old, all, k)
        BY <3>3, <4>1, <4>2, <4>3 DEF HoldsLastWrite
      <4>5. DOMAIN all \in SUBSET Nat /\ IsFiniteSet(DOMAIN all)
        BY <1>1
      <4>6. CanonicalView(EmptyRows, old)[k] = CanonicalView(EmptyRows, all)[k]
        BY k \in Keys, <4>4, <4>5, SameLastWriter
      <4>7. QED  BY <3>1, <4>6
    <3>4. CASE ~wrote(old, k)
      <4>1. ~wrote(all, k)
        BY <3>2, <3>4
      <4>2. QED  BY <3>1, <3>4, <4>1 DEF CanonicalView
    <3>5. QED  BY <3>3, <3>4
  <2>3. QED  BY <2>1, <2>2
<1>6. CanonicalView(base, log) = CanonicalView(EmptyRows, all)
  BY <1>5 DEF CanonicalView
<1>7. QED  BY <1>6 DEF ViewOf, all, old, prefix

(* An entry whose digest is the n-th of a history carries its n-th body and  *)
(* names the digest before it.                                               *)
LEMMA EntryOfDigest ==
  ASSUME NEW head \in Digests, NEW n \in 1 .. Len(head), NEW entry \in Entries,
         EntryDigest(entry) = DigestAt(head, n)
  PROVE  entry.body = head[n] /\ entry.previous = DigestAt(head, n - 1)
<1>1. /\ Append(DigestAt(head, n - 1), head[n]) = DigestAt(head, n)
      /\ DigestAt(head, n - 1) \in Seq(Bodies) /\ head[n] \in Bodies
  <2>1. n - 1 \in 0 .. Len(head)
    BY LenProperties DEF Digests
  <2>2. QED  BY <2>1, DigestAtProperties, EntriesOfProperties DEF Digests
<1>2. entry.previous \in Seq(Bodies) /\ entry.body \in Bodies
  BY DEF Entries, Digests
<1>3. Append(entry.previous, entry.body) = Append(DigestAt(head, n - 1), head[n])
  BY <1>1 DEF EntryDigest
<1>4. QED  BY <1>1, <1>2, <1>3, AppendInjective

(* The digests of a history are as many as its entries: each names its own   *)
(* sequence.                                                                 *)
LEMMA DigestAtInjective ==
  ASSUME NEW head \in Digests, NEW m \in 0 .. Len(head), NEW n \in 0 .. Len(head),
         DigestAt(head, m) = DigestAt(head, n)
  PROVE  m = n
  BY DigestAtProperties

(* Reading back the segments of a view gives the view. *)
LEMMA SegmentRowsOfChunk ==
  ASSUME NEW view
  PROVE  SegmentRows(Chunk(view)) = view
  BY DEF SegmentRows, Chunk

-----------------------------------------------------------------------------
(* Sequences *)

\* A sequence over a set is one over every larger set.
LEMMA SeqOfMore ==
  ASSUME NEW A, NEW B, A \subseteq B, NEW s \in Seq(A)
  PROVE  s \in Seq(B)
<1>1. Len(s) \in Nat /\ s \in [1 .. Len(s) -> A]
  BY LenProperties
<1>2. s \in [1 .. Len(s) -> B]
  BY <1>1
<1>3. QED  BY <1>1, <1>2, SeqDef

\* What is left of a sequence without its head, in terms of the sequence.
LEMMA TailProperties ==
  ASSUME NEW S, NEW s \in Seq(S), s # <<>>
  PROVE  /\ Len(s) \in Nat /\ Len(s) >= 1 /\ DOMAIN s = 1 .. Len(s)
         /\ Head(s) = s[1] /\ s[1] \in S
         /\ Tail(s) \in Seq(S) /\ Tail(s) # s
         /\ DOMAIN Tail(s) = 1 .. Len(s) - 1
         /\ \A i \in 1 .. Len(s) - 1 : Tail(s)[i] = s[i + 1]
         /\ \A i \in DOMAIN s : i # 1 =>
              i - 1 \in DOMAIN Tail(s) /\ Tail(s)[i - 1] = s[i]
<1>1. Len(s) \in Nat /\ DOMAIN s = 1 .. Len(s) /\ Len(s) # 0
  BY LenProperties, EmptySeq
<1>2. Len(s) >= 1 /\ s[1] \in S
  BY <1>1, LenProperties
<1>3. /\ Head(s) = s[1] /\ Tail(s) \in Seq(S) /\ Len(Tail(s)) = Len(s) - 1
      /\ \A i \in 1 .. Len(Tail(s)) : Tail(s)[i] = s[i + 1]
  BY HeadTailProperties
<1>4. DOMAIN Tail(s) = 1 .. Len(s) - 1
  BY <1>3, LenProperties
<1>5. Tail(s) # s
  <2>1. ASSUME Tail(s) = s PROVE FALSE
    <3>1. Len(s) = Len(s) - 1
      BY <1>3, <2>1, Zenon
    <3>2. QED  BY <1>1, <3>1
  <2>2. QED  BY <2>1
<1>6. ASSUME NEW i \in DOMAIN s, i # 1
      PROVE  i - 1 \in DOMAIN Tail(s) /\ Tail(s)[i - 1] = s[i]
  <2>1. i - 1 \in 1 .. Len(s) - 1 /\ (i - 1) + 1 = i
    BY <1>1, <1>6
  <2>2. QED  BY <1>3, <1>4, <2>1
<1>7. QED  BY <1>1, <1>2, <1>3, <1>4, <1>5, <1>6

\* A sequence with one more element, in terms of the sequence.
LEMMA AppendOne ==
  ASSUME NEW S, NEW s \in Seq(S), NEW x \in S
  PROVE  /\ Append(s, x) \in Seq(S) /\ Append(s, x) # <<>>
         /\ Len(s) \in Nat /\ DOMAIN s = 1 .. Len(s)
         /\ DOMAIN Append(s, x) = 1 .. Len(s) + 1
         /\ \A i \in DOMAIN s : i \in DOMAIN Append(s, x) /\ Append(s, x)[i] = s[i]
         /\ Len(s) + 1 \in DOMAIN Append(s, x) /\ Append(s, x)[Len(s) + 1] = x
         /\ \A i \in DOMAIN Append(s, x) : i \in DOMAIN s \/ i = Len(s) + 1
<1>1. /\ Len(s) \in Nat /\ DOMAIN s = 1 .. Len(s)
      /\ Append(s, x) \in Seq(S) /\ Len(Append(s, x)) = Len(s) + 1
      /\ \A i \in 1 .. Len(s) : Append(s, x)[i] = s[i]
      /\ Append(s, x)[Len(s) + 1] = x
  BY LenProperties, AppendProperties
<1>2. DOMAIN Append(s, x) = 1 .. Len(s) + 1
  BY <1>1, LenProperties
<1>3. Append(s, x) # <<>>
  BY <1>1, EmptySeq
<1>4. QED  BY <1>1, <1>2, <1>3

=============================================================================
