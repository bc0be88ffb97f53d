---------------------------- MODULE StagingProofs ----------------------------
(***************************************************************************)
(* The safety theorems of Staging, for any keys, payloads, batches, bounds *)
(* and topology: a session and a parked group are a continuation of the    *)
(* history they were begun over, numbered, linked, admissible and folded   *)
(* as direct writes would have left it, for as long as that history is the *)
(* current one.  From this the counters, the outbox, the identifiers, the  *)
(* pre-images and the refinement of GroupStore follow.                     *)
(***************************************************************************)
EXTENDS Staging, VersionedLogProofs

-----------------------------------------------------------------------------
(* Continuations of a history *)

\* The entries are those that lead from base to head, numbered by their place,
\* and fold the view of base into that of head.
Chained(entries, base, head) ==
  /\ Len(head) = Len(base) + Len(entries)
  /\ DigestAt(head, Len(base)) = base
  /\ \A n \in DOMAIN entries :
       /\ entries[n].body = head[Len(base) + n]
       /\ entries[n].previous = DigestAt(head, Len(base) + n - 1)
       /\ entries[n].body.sequence = Len(base) + n
       /\ entries[n].body.snapshot = Len(base) + n
  /\ CanonicalView(ViewOf(base), entries) = ViewOf(head)

\* Each entry is admitted by what the ones before it leave.
AllAdmitted(entries) ==
  \A n \in DOMAIN entries :
    Admitted(entries[n].body.operations, ViewOf(entries[n].previous))

\* The pre-images that the retracts of one entry have to have.
Retracted(n, entry) ==
  {[entry |-> n, operation |-> i,
    value |-> ViewOf(entry.previous)[entry.body.operations[i].key]] :
     i \in {j \in DOMAIN entry.body.operations :
              entry.body.operations[j].kind = "Retract"}}

\* The pre-images are exactly those of the retracts.
PreImagesOf(entries, preImages) ==
  /\ \A p \in preImages : p.entry \in DOMAIN entries
  /\ \A n \in DOMAIN entries :
       {p \in preImages : p.entry = n} = Retracted(n, entries[n])

\* What the overlay of a session says is what its entries leave.
OverlayTrue(overlay, base, head) ==
  \A k \in Keys :
    /\ overlay[k] = "Absent" => ViewOf(head)[k] = Absent
    /\ overlay[k] = "Present" => ViewOf(head)[k] # Absent
    /\ overlay[k] = "Unwritten" => ViewOf(head)[k] = ViewOf(base)[k]

-----------------------------------------------------------------------------
(* Identifiers *)

Asserts(body, identifier) ==
  \E i \in DOMAIN body.operations : /\ body.operations[i].kind = "Assert"
                                    /\ body.operations[i].key = identifier

\* The commits after a place mint the identifiers from start and below end,
\* each once, and leave no row from end on.
Minted(head, place, start, end) ==
  /\ end \in Identifiers \cup {MaxIdentifier + 1} /\ start <= end
  /\ \A identifier \in Identifiers : \A n \in place + 1 .. Len(head) :
       Asserts(head[n], identifier) =>
         /\ start <= identifier /\ identifier < end
         /\ \A m \in place + 1 .. Len(head) : Asserts(head[m], identifier) => m = n
  /\ \A identifier \in Identifiers : end <= identifier => ViewOf(head)[identifier] = Absent

\* The entries of a group that identified_advances looks at, and the counter it
\* leaves over one that stands at start.
MintingEntries(entries) ==
  {n \in DOMAIN entries :
     LET operation == entries[n].body.operations[1]
     IN  operation.kind = "Assert" /\ operation.key \in Identifiers}

NextFrom(start, entries) ==
  IF MintingEntries(entries) = {} THEN start
    ELSE entries[Newest(MintingEntries(entries))].body.operations[1].key + 1

-----------------------------------------------------------------------------
(* The inductive invariant *)

\* The rows are the fold of the history, and the commits are numbered by it.
HistoryKept ==
  /\ rows = ViewOf(chainHead)
  /\ CountersExact
  /\ floor <= covered /\ covered <= Len(chainHead)
  /\ Minted(chainHead, 0, 1, nextIdentifier)

\* A session continues the history it was begun over, and, while that is the
\* current one, with admissible entries and the identifiers counted on from the
\* store's next one.
MintFrom(s, next) == IF s.pending = 0 THEN next ELSE s.pending

SessionCurrent(s, next) ==
  /\ AllAdmitted(s.entries)
  /\ PreImagesOf(s.entries, s.preImages)
  /\ Minted(s.previous, Len(s.base.chainHead), next, MintFrom(s, next))
  /\ NextFrom(next, s.entries) = MintFrom(s, next)

SessionContinues(s, head, next) ==
  /\ Len(s.base.chainHead) <= Len(head)
  /\ Chained(s.entries, s.base.chainHead, s.previous)
  /\ s.marker = [sequence |-> Len(s.previous), snapshot |-> Len(s.previous)]
  /\ OverlayTrue(s.overlay, s.base.chainHead, s.previous)
  /\ s.base.chainHead = head => SessionCurrent(s, next)

\* A group is parked over its first entry's predecessor.
GroupBase(group) == group.entries[1].previous

GroupContinues(group, head, next) ==
  /\ group.entries # <<>>
  /\ Len(GroupBase(group)) <= Len(head)
  /\ Chained(group.entries, GroupBase(group), ProspectiveHead(group))
  /\ AllAdmitted(group.entries)
  /\ PreImagesOf(group.entries, group.preImages)
  /\ GroupBase(group) = head =>
       Minted(ProspectiveHead(group), Len(head), next, NextFrom(next, group.entries))

SessionKept == session.engaged => SessionContinues(session, chainHead, nextIdentifier)

SlotKept == slot # NoGroup => GroupContinues(slot, chainHead, nextIdentifier)

Kept == HistoryKept /\ SessionKept /\ SlotKept

\* Where a compaction's calls are, and what that implies when its owner resumes
\* it before making any other call.
PhasesKept ==
  /\ ResumesFirst
  /\ IntentTracksPlan
  /\ intent.phase = "None" => intent = NoIntent
  /\ intent.phase = "Planned" => intent = Planned
  /\ intent # NoIntent => ~session.engaged
  /\ after = "settle" =>
       /\ step \in {"maintain", "trim"}
       /\ intent.phase = "Checkpointed"
       /\ step = "trim" => covered >= Len(chainHead)
  /\ step = "settle" => intent.phase = "Checkpointed" /\ ~OverBudget
  /\ status = "closed" => step = "idle" /\ after = "return"

-----------------------------------------------------------------------------
(* Lemmas about continuations *)

\* The fold of buffered entries and one more.
LEMMA FoldBuffered ==
  ASSUME NEW base, NEW entries \in Seq(Entries), NEW entry \in Entries
  PROVE  CanonicalView(base, Append(entries, entry))
           = Apply(entry.body.operations, CanonicalView(base, entries))
<1> DEFINE new == Append(entries, entry)
           last == Len(entries) + 1
<1>1. /\ Len(entries) \in Nat /\ DOMAIN entries = 1 .. Len(entries)
      /\ DOMAIN new = 1 .. last
      /\ \A n \in DOMAIN entries : new[n] = entries[n]
      /\ new[last] = entry
  BY AppendOne
<1> HIDE DEF new
<1>2. /\ last \in Nat \ {0} /\ last - 1 = Len(entries)
  BY <1>1
<1>3. /\ DOMAIN entries = 1 .. last - 1 /\ DOMAIN new = 1 .. last
      /\ \A n \in 1 .. last - 1 : new[n].body = entries[n].body
      /\ new[last].body = entry.body
  BY <1>1, <1>2
<1> HIDE DEF last
<1>4. CanonicalView(base, new) = Apply(entry.body.operations, CanonicalView(base, entries))
  BY <1>2, <1>3, FoldOneFurther
<1>5. QED  BY <1>4 DEF new

\* No entries fold to what they are folded over.
LEMMA FoldNothing ==
  ASSUME NEW base \in Rows
  PROVE  CanonicalView(base, <<>>) = base
<1>1. DOMAIN << >> = {}
  OBVIOUS
<1>2. QED  BY <1>1 DEF CanonicalView, Rows

\* A session that has buffered nothing.
LEMMA ChainedNothing ==
  ASSUME NEW base \in Digests, NEW start
  PROVE  /\ Chained(<<>>, base, base)
         /\ AllAdmitted(<<>>) /\ PreImagesOf(<<>>, {})
         /\ NextFrom(start, <<>>) = start
<1>1. DOMAIN << >> = {} /\ Len(<< >>) = 0
  OBVIOUS
<1>2. Len(base) \in Nat /\ DigestAt(base, Len(base)) = base /\ ViewOf(base) \in Rows
  BY DigestAtProperties, ViewOfType, EntriesOfProperties
<1>3. CanonicalView(ViewOf(base), <<>>) = ViewOf(base)
  BY <1>2, FoldNothing
<1>4. Chained(<<>>, base, base)
  BY <1>1, <1>2, <1>3 DEF Chained
<1>5. MintingEntries(<<>>) = {}
  BY <1>1 DEF MintingEntries
<1>6. QED  BY <1>1, <1>4, <1>5 DEF AllAdmitted, PreImagesOf, NextFrom

\* One more entry, over the head the others lead to.
LEMMA ChainedOneMore ==
  ASSUME NEW base \in Digests, NEW head \in Digests, NEW entries \in Seq(Entries),
         Chained(entries, base, head), NEW entry \in Entries,
         entry.previous = head, entry.body.sequence = Len(head) + 1,
         entry.body.snapshot = Len(head) + 1
  PROVE  Chained(Append(entries, entry), base, Append(head, entry.body))
<1> DEFINE new == Append(entries, entry)
           body == entry.body
           longer == Append(head, body)
<1>1. /\ Len(entries) \in Nat /\ DOMAIN entries = 1 .. Len(entries)
      /\ new \in Seq(Entries) /\ DOMAIN new = 1 .. Len(entries) + 1
      /\ \A n \in DOMAIN entries : new[n] = entries[n]
      /\ new[Len(entries) + 1] = entry
  BY AppendOne
<1>2. Len(new) = Len(entries) + 1
  BY <1>1, LenProperties
<1>3. body \in Bodies
  BY DEF Entries
<1>4. /\ longer \in Digests /\ Len(longer) = Len(head) + 1
      /\ \A n \in 1 .. Len(head) : longer[n] = head[n]
      /\ longer[Len(head) + 1] = body
      /\ \A n \in 0 .. Len(head) : DigestAt(longer, n) = DigestAt(head, n)
  BY <1>3, AppendKeepsDigests
<1>5. /\ Len(head) \in Nat /\ Len(base) \in Nat /\ DigestAt(head, Len(head)) = head
  BY EntriesOfProperties, DigestAtProperties
<1>6. /\ Len(head) = Len(base) + Len(entries) /\ DigestAt(head, Len(base)) = base
      /\ \A n \in DOMAIN entries :
           /\ entries[n].body = head[Len(base) + n]
           /\ entries[n].previous = DigestAt(head, Len(base) + n - 1)
           /\ entries[n].body.sequence = Len(base) + n
           /\ entries[n].body.snapshot = Len(base) + n
      /\ CanonicalView(ViewOf(base), entries) = ViewOf(head)
  BY DEF Chained
<1>7. CanonicalView(ViewOf(base), new) = ViewOf(longer)
  <2>1. CanonicalView(ViewOf(base), new)
          = Apply(body.operations, CanonicalView(ViewOf(base), entries))
    BY FoldBuffered
  <2>2. ViewOf(longer) = Apply(body.operations, ViewOf(head))
    BY <1>3, ViewOfAppend
  <2>3. QED  BY <1>6, <2>1, <2>2
<1> HIDE DEF new, longer, body
<1>8. ASSUME NEW n \in DOMAIN new
      PROVE  /\ new[n].body = longer[Len(base) + n]
             /\ new[n].previous = DigestAt(longer, Len(base) + n - 1)
             /\ new[n].body.sequence = Len(base) + n
             /\ new[n].body.snapshot = Len(base) + n
  <2>1. CASE n \in DOMAIN entries
    <3>1. Len(base) + n \in 1 .. Len(head) /\ Len(base) + n - 1 \in 0 .. Len(head)
      BY <1>1, <1>5, <1>6, <2>1
    <3>2. QED  BY <1>1, <1>4, <1>6, <2>1, <3>1
  <2>2. CASE n = Len(entries) + 1
    <3>1. Len(base) + n = Len(head) + 1 /\ Len(base) + n - 1 = Len(head)
      BY <1>1, <1>5, <1>6, <2>2
    <3>2. Len(head) \in 0 .. Len(head)
      BY <1>5
    <3>3. new[n] = entry
      BY <1>1, <2>2
    <3>4. DigestAt(longer, Len(head)) = head
      BY <1>4, <1>5, <3>2
    <3>5. QED  BY <1>4, <3>1, <3>3, <3>4 DEF body
  <2>3. QED  BY <1>1, <2>1, <2>2
<1>9. Len(base) \in 0 .. Len(head) /\ Len(longer) = Len(base) + Len(new)
  BY <1>1, <1>2, <1>4, <1>5, <1>6
<1>10. DigestAt(longer, Len(base)) = base
  BY <1>4, <1>6, <1>9
<1>11. Chained(new, base, longer)
  BY <1>7, <1>8, <1>9, <1>10 DEF Chained
<1>12. QED  BY <1>11 DEF new, longer, body

\* An admitted entry keeps the entries admitted, and its own pre-images are all
\* that is to be added.
LEMMA AdmittedOneMore ==
  ASSUME NEW entries \in Seq(Entries), NEW entry \in Entries, NEW preImages, NEW more,
         AllAdmitted(entries), PreImagesOf(entries, preImages),
         Admitted(entry.body.operations, ViewOf(entry.previous)),
         more = Retracted(Len(entries) + 1, entry)
  PROVE  /\ AllAdmitted(Append(entries, entry))
         /\ PreImagesOf(Append(entries, entry), preImages \cup more)
<1> DEFINE new == Append(entries, entry)
           last == Len(entries) + 1
<1>1. /\ Len(entries) \in Nat /\ DOMAIN entries = 1 .. Len(entries)
      /\ DOMAIN new = 1 .. last
      /\ \A n \in DOMAIN entries : new[n] = entries[n]
      /\ new[last] = entry
  BY AppendOne
<1>2. \A p \in more : p.entry = last
  BY DEF Retracted
<1> HIDE DEF new, last
<1>3. /\ last \notin DOMAIN entries /\ last \in DOMAIN new
      /\ \A n \in DOMAIN new : n \in DOMAIN entries \/ n = last
      /\ \A n \in DOMAIN entries : n \in DOMAIN new
  BY <1>1 DEF last
<1>4. AllAdmitted(new)
  BY <1>1, <1>3 DEF AllAdmitted
<1>5. ASSUME NEW n \in DOMAIN new
      PROVE  {p \in preImages \cup more : p.entry = n} = Retracted(n, new[n])
  <2>1. CASE n \in DOMAIN entries
    <3>1. {p \in preImages \cup more : p.entry = n} = {p \in preImages : p.entry = n}
      BY <1>2, <1>3, <2>1
    <3>2. QED  BY <1>1, <2>1, <3>1 DEF PreImagesOf
  <2>2. CASE n = last
    <3>1. {p \in preImages \cup more : p.entry = n} = more
      BY <1>2, <1>3, <2>2 DEF PreImagesOf
    <3>2. more = Retracted(n, new[n])
      BY <1>1, <2>2 DEF last
    <3>3. QED  BY <3>1, <3>2
  <2>3. QED  BY <1>3, <2>1, <2>2
<1>6. \A p \in preImages \cup more : p.entry \in DOMAIN new
  BY <1>2, <1>3 DEF PreImagesOf
<1>7. QED  BY <1>4, <1>5, <1>6 DEF PreImagesOf, new

\* The last operation on a key decides whether it is there.
LEMMA LastOnDecides ==
  ASSUME NEW operations \in Seq(Operations), NEW k \in Keys, Touches(operations, k), NEW r
  PROVE  Apply(operations, r)[k] = Absent <=>
           operations[LastOn(operations, k)].kind = "Retract"
<1>1. Apply(operations, r)[k] = operations[LastOn(operations, k)].value
  BY DEF Apply
<1>2. operations[LastOn(operations, k)] \in Operations
  <2>1. LastOn(operations, k) \in DOMAIN operations
    BY LastOnProperties
  <2>2. QED  BY <2>1, LenProperties
<1>3. QED  BY <1>1, <1>2, AbsentAssumption DEF Operations

\* The overlay an entry leaves is true of the head it leads to.
LEMMA OverlayOneMore ==
  ASSUME NEW base, NEW head \in Digests, NEW overlay, OverlayTrue(overlay, base, head),
         NEW body \in Bodies, NEW written,
         written = [k \in Keys |->
                      IF Touches(body.operations, k)
                        THEN IF body.operations[LastOn(body.operations, k)].kind = "Retract"
                               THEN "Absent" ELSE "Present"
                        ELSE overlay[k]]
  PROVE  OverlayTrue(written, base, Append(head, body))
<1> SUFFICES ASSUME NEW k \in Keys
             PROVE  LET view == ViewOf(Append(head, body))
                    IN  /\ written[k] = "Absent" => view[k] = Absent
                        /\ written[k] = "Present" => view[k] # Absent
                        /\ written[k] = "Unwritten" => view[k] = ViewOf(base)[k]
  BY DEF OverlayTrue
<1> DEFINE view == ViewOf(Append(head, body))
           operations == body.operations
<1>1. view = Apply(operations, ViewOf(head))
  BY ViewOfAppend
<1>2. operations \in Seq(Operations)
  BY DEF Bodies
<1> HIDE DEF view, operations
<1>3. CASE Touches(operations, k)
  <2>1. view[k] = Absent <=> operations[LastOn(operations, k)].kind = "Retract"
    BY <1>1, <1>2, <1>3, LastOnDecides
  <2>2. written[k] = IF operations[LastOn(operations, k)].kind = "Retract"
                       THEN "Absent" ELSE "Present"
    BY <1>3 DEF operations
  <2>3. QED  BY <2>1, <2>2 DEF view
<1>4. CASE ~Touches(operations, k)
  <2>1. view[k] = ViewOf(head)[k]
    BY <1>1, <1>4 DEF Apply
  <2>2. written[k] = overlay[k]
    BY <1>4 DEF operations
  <2>3. QED  BY <2>1, <2>2 DEF view, OverlayTrue
<1>5. QED  BY <1>3, <1>4

-----------------------------------------------------------------------------
(* Lemmas about identifiers *)

\* One more commit, which asserts the next identifier.
LEMMA MintedNext ==
  ASSUME NEW head \in Digests, NEW place \in 0 .. Len(head), NEW start \in Nat, NEW end,
         Minted(head, place, start, end), end \in Identifiers,
         NEW body \in Bodies, NEW v, body.operations = AssertIdentified(end, v)
  PROVE  Minted(Append(head, body), place, start, end + 1)
<1> DEFINE longer == Append(head, body)
<1>1. /\ longer \in Digests /\ Len(longer) = Len(head) + 1
      /\ \A n \in 1 .. Len(head) : longer[n] = head[n]
      /\ longer[Len(head) + 1] = body
  BY AppendKeepsDigests
<1>2. ViewOf(longer) = Apply(body.operations, ViewOf(head))
  BY ViewOfAppend
<1> HIDE DEF longer
<1>3. /\ Len(head) \in Nat /\ MaxIdentifier \in Nat /\ Identifiers \subseteq Nat
      /\ Identifiers \subseteq Keys
  BY EntriesOfProperties, IdentifiersAssumption DEF Identifiers
<1>4. \A k : Touches(body.operations, k) <=> k = end
  BY DEF Touches, AssertIdentified
<1>5. \A identifier : Asserts(body, identifier) <=> identifier = end
  BY DEF Asserts, AssertIdentified
<1>6. \A identifier \in Identifiers : \A n \in place + 1 .. Len(head) :
        Asserts(head[n], identifier) =>
          /\ start <= identifier /\ identifier < end
          /\ \A m \in place + 1 .. Len(head) : Asserts(head[m], identifier) => m = n
  BY DEF Minted
<1>7. end + 1 \in Identifiers \cup {MaxIdentifier + 1} /\ start <= end + 1 /\ start <= end
  BY <1>3 DEF Minted, Identifiers
<1>8. \A n \in place + 1 .. Len(longer) :
        \/ n \in place + 1 .. Len(head) /\ longer[n] = head[n]
        \/ n = Len(head) + 1 /\ longer[n] = body
  BY <1>1, <1>3
<1>9. ASSUME NEW identifier \in Identifiers, NEW n \in place + 1 .. Len(longer),
             Asserts(longer[n], identifier)
      PROVE  /\ start <= identifier /\ identifier < end + 1
             /\ \A m \in place + 1 .. Len(longer) : Asserts(longer[m], identifier) => m = n
  <2>1. CASE n \in place + 1 .. Len(head) /\ longer[n] = head[n]
    <3>1. /\ start <= identifier /\ identifier < end
          /\ \A m \in place + 1 .. Len(head) : Asserts(head[m], identifier) => m = n
      BY <1>6, <1>9, <2>1
    <3>2. identifier # end /\ identifier < end + 1
      BY <1>3, <3>1
    <3>3. QED  BY <1>5, <1>8, <3>1, <3>2
  <2>2. CASE n = Len(head) + 1 /\ longer[n] = body
    <3>1. identifier = end
      BY <1>5, <1>9, <2>2
    <3>2. \A m \in place + 1 .. Len(head) : ~Asserts(head[m], identifier)
      BY <1>3, <1>6, <3>1
    <3>3. start <= identifier /\ identifier < end + 1
      BY <1>3, <1>7, <3>1
    <3>4. QED  BY <1>8, <2>2, <3>2, <3>3
  <2>3. QED  BY <1>8, <2>1, <2>2
<1>10. ASSUME NEW identifier \in Identifiers, end + 1 <= identifier
       PROVE  ViewOf(longer)[identifier] = Absent
  <2>1. identifier # end /\ end <= identifier /\ identifier \in Keys
    BY <1>3, <1>10
  <2>2. ViewOf(longer)[identifier] = ViewOf(head)[identifier]
    BY <1>2, <1>4, <2>1 DEF Apply
  <2>3. QED  BY <2>1, <2>2 DEF Minted
<1>11. QED  BY <1>7, <1>9, <1>10 DEF Minted, longer

\* One more commit, which touches only identified records that are there, and
\* asserts none.
LEMMA MintedNone ==
  ASSUME NEW head \in Digests, NEW place \in 0 .. Len(head), NEW start, NEW end,
         Minted(head, place, start, end), NEW body \in Bodies,
         \A identifier \in Identifiers : Touches(body.operations, identifier) =>
           ViewOf(head)[identifier] # Absent,
         \A identifier \in Identifiers : ~Asserts(body, identifier)
  PROVE  Minted(Append(head, body), place, start, end)
<1> DEFINE longer == Append(head, body)
<1>1. /\ longer \in Digests /\ Len(longer) = Len(head) + 1
      /\ \A n \in 1 .. Len(head) : longer[n] = head[n]
      /\ longer[Len(head) + 1] = body
  BY AppendKeepsDigests
<1>2. ViewOf(longer) = Apply(body.operations, ViewOf(head))
  BY ViewOfAppend
<1> HIDE DEF longer
<1>3. Len(head) \in Nat /\ Identifiers \subseteq Keys
  BY EntriesOfProperties, IdentifiersAssumption
<1>4. \A n \in place + 1 .. Len(longer) :
        \/ n \in place + 1 .. Len(head) /\ longer[n] = head[n]
        \/ longer[n] = body
  BY <1>1, <1>3
<1>5. \A identifier \in Identifiers : \A n \in place + 1 .. Len(head) :
        Asserts(head[n], identifier) =>
          /\ start <= identifier /\ identifier < end
          /\ \A m \in place + 1 .. Len(head) : Asserts(head[m], identifier) => m = n
  BY DEF Minted
<1>6. ASSUME NEW identifier \in Identifiers, NEW n \in place + 1 .. Len(longer),
             Asserts(longer[n], identifier)
      PROVE  /\ start <= identifier /\ identifier < end
             /\ \A m \in place + 1 .. Len(longer) : Asserts(longer[m], identifier) => m = n
  <2>1. n \in place + 1 .. Len(head) /\ Asserts(head[n], identifier)
    BY <1>4, <1>6
  <2>2. QED  BY <1>4, <1>5, <2>1
<1>7. ASSUME NEW identifier \in Identifiers, end <= identifier
      PROVE  ViewOf(longer)[identifier] = Absent
  <2>1. ViewOf(head)[identifier] = Absent
    BY <1>7 DEF Minted
  <2>2. ViewOf(longer)[identifier] = ViewOf(head)[identifier]
    BY <1>2, <1>3, <2>1 DEF Apply
  <2>3. QED  BY <2>1, <2>2
<1>8. QED  BY <1>6, <1>7 DEF Minted, longer

\* What a history mints and what its continuation mints after it.
LEMMA MintedTogether ==
  ASSUME NEW base \in Digests, NEW head \in Digests, Len(base) <= Len(head),
         DigestAt(head, Len(base)) = base, NEW start \in Nat, NEW middle, NEW end,
         Minted(base, 0, start, middle), Minted(head, Len(base), middle, end)
  PROVE  Minted(head, 0, start, end)
<1>1. /\ Len(head) \in Nat /\ Len(base) \in Nat
      /\ \A n \in 1 .. Len(base) : head[n] = base[n]
  <2>1. Len(head) \in Nat /\ Len(base) \in Nat
    BY EntriesOfProperties
  <2>2. Len(base) \in 0 .. Len(head)
    BY <2>1
  <2>3. \A n \in 1 .. Len(base) : DigestAt(head, Len(base))[n] = head[n]
    BY <2>2, DigestAtProperties
  <2>4. QED  BY <2>1, <2>3
<1>2. MaxIdentifier \in Nat /\ Identifiers \subseteq Nat /\ middle \in Nat /\ end \in Nat
  <2>1. MaxIdentifier \in Nat /\ Identifiers \subseteq Nat
    BY IdentifiersAssumption DEF Identifiers
  <2>2. QED  BY <2>1 DEF Minted
<1>3. \A identifier \in Identifiers : \A n \in 0 + 1 .. Len(base) :
        Asserts(base[n], identifier) =>
          /\ start <= identifier /\ identifier < middle
          /\ \A m \in 0 + 1 .. Len(base) : Asserts(base[m], identifier) => m = n
  BY DEF Minted
<1>4. \A identifier \in Identifiers : \A n \in Len(base) + 1 .. Len(head) :
        Asserts(head[n], identifier) =>
          /\ middle <= identifier /\ identifier < end
          /\ \A m \in Len(base) + 1 .. Len(head) : Asserts(head[m], identifier) => m = n
  BY DEF Minted
<1>5. start <= middle /\ middle <= end /\ end \in Identifiers \cup {MaxIdentifier + 1}
  BY DEF Minted
<1>6. \A n \in 0 + 1 .. Len(head) :
        \/ n \in 0 + 1 .. Len(base) /\ head[n] = base[n]
        \/ n \in Len(base) + 1 .. Len(head)
  BY <1>1
<1>7. ASSUME NEW identifier \in Identifiers, NEW n \in 0 + 1 .. Len(head),
             Asserts(head[n], identifier)
      PROVE  /\ start <= identifier /\ identifier < end
             /\ \A m \in 0 + 1 .. Len(head) : Asserts(head[m], identifier) => m = n
  <2>1. CASE n \in 0 + 1 .. Len(base) /\ head[n] = base[n]
    <3>1. /\ start <= identifier /\ identifier < middle
          /\ \A m \in 0 + 1 .. Len(base) : Asserts(base[m], identifier) => m = n
      BY <1>3, <1>7, <2>1
    <3>2. \A m \in Len(base) + 1 .. Len(head) : ~Asserts(head[m], identifier)
      BY <1>2, <1>4, <3>1
    <3>3. identifier < end
      BY <1>2, <1>5, <3>1
    <3>4. QED  BY <1>6, <3>1, <3>2, <3>3
  <2>2. CASE n \in Len(base) + 1 .. Len(head)
    <3>1. /\ middle <= identifier /\ identifier < end
          /\ \A m \in Len(base) + 1 .. Len(head) : Asserts(head[m], identifier) => m = n
      BY <1>4, <1>7, <2>2
    <3>2. \A m \in 0 + 1 .. Len(base) : ~Asserts(base[m], identifier)
      BY <1>2, <1>3, <3>1
    <3>3. start <= identifier
      BY <1>2, <1>5, <3>1
    <3>4. QED  BY <1>6, <3>1, <3>2, <3>3
  <2>3. QED  BY <1>6, <2>1, <2>2
<1>8. \A identifier \in Identifiers : end <= identifier => ViewOf(head)[identifier] = Absent
  BY DEF Minted
<1>9. start <= end
  BY <1>2, <1>5
<1>10. QED  BY <1>5, <1>7, <1>8, <1>9 DEF Minted

\* identified_advances over one more entry.
LEMMA NextFromOneMore ==
  ASSUME NEW start, NEW entries \in Seq(Entries), NEW entry \in Entries
  PROVE  LET first == entry.body.operations[1]
             mints == first.kind = "Assert" /\ first.key \in Identifiers
         IN  NextFrom(start, Append(entries, entry))
               = IF mints THEN first.key + 1 ELSE NextFrom(start, entries)
<1> DEFINE new == Append(entries, entry)
           last == Len(entries) + 1
           first == entry.body.operations[1]
           mints == first.kind = "Assert" /\ first.key \in Identifiers
           old == MintingEntries(entries)
<1>1. /\ Len(entries) \in Nat /\ DOMAIN entries = 1 .. Len(entries)
      /\ DOMAIN new = 1 .. last
      /\ \A n \in DOMAIN entries : new[n] = entries[n]
      /\ new[last] = entry
  BY AppendOne
<1>2. /\ last \in Nat /\ last \in DOMAIN new /\ last \notin DOMAIN entries
      /\ \A n \in DOMAIN entries : n \in Nat /\ n <= last /\ n \in DOMAIN new
      /\ \A n \in DOMAIN new : n \in DOMAIN entries \/ n = last
  BY <1>1
<1> HIDE DEF new, last
<1>3. MintingEntries(new) = IF mints THEN old \cup {last} ELSE old
  BY <1>1, <1>2 DEF MintingEntries
<1>4. old \subseteq DOMAIN entries
  BY DEF MintingEntries
<1> HIDE DEF old, mints, first
<1>5. CASE mints
  <2>1. Newest(old \cup {last}) = last
    <3>1. \A n \in old \cup {last} : n \in Nat /\ n <= last
      BY <1>2, <1>4
    <3>2. \E x \in old \cup {last} : \A m \in old \cup {last} : m <= x
      BY <3>1
    <3>3. /\ Newest(old \cup {last}) \in old \cup {last}
          /\ \A m \in old \cup {last} : m <= Newest(old \cup {last})
      BY <3>2 DEF Newest
    <3>4. last <= Newest(old \cup {last}) /\ Newest(old \cup {last}) <= last
      BY <3>1, <3>3
    <3>5. Newest(old \cup {last}) \in Nat
      BY <3>1, <3>3
    <3>6. QED  BY <1>2, <3>4, <3>5
  <2>2. NextFrom(start, new) = first.key + 1
    BY <1>1, <1>3, <1>5, <2>1 DEF NextFrom, first
  <2>3. QED  BY <1>5, <2>2 DEF mints, first, new
<1>6. CASE ~mints
  <2>1. CASE old = {}
    <3>1. NextFrom(start, new) = start /\ NextFrom(start, entries) = start
      BY <1>3, <1>6, <2>1 DEF NextFrom, old
    <3>2. QED  BY <1>6, <3>1 DEF mints, first, new
  <2>2. CASE old # {}
    <3>1. Newest(old) \in old
      <4>1. IsFiniteSet(old) /\ old \in SUBSET Nat
        <5>1. IsFiniteSet(1 .. Len(entries))
          BY <1>1, FS_Interval
        <5>2. QED  BY <1>1, <1>2, <1>4, <5>1, FS_Subset
      <4>2. \E x \in old : \A m \in old : m <= x
        BY <2>2, <4>1, GreatestExists
      <4>3. QED  BY <4>2 DEF Newest
    <3>2. new[Newest(old)] = entries[Newest(old)]
      BY <1>1, <1>4, <3>1
    <3>3. NextFrom(start, new) = NextFrom(start, entries)
      BY <1>3, <1>6, <2>2, <3>2 DEF NextFrom, old
    <3>4. QED  BY <1>6, <3>3 DEF mints, first, new
  <2>3. QED  BY <2>1, <2>2
<1>7. QED  BY <1>5, <1>6

-----------------------------------------------------------------------------
(* What an engaged session reads *)

\* An overlay that is true of the entries decides every key as they do.
LEMMA OverlayReads ==
  ASSUME NEW base, NEW head \in Digests, NEW overlay,
         overlay \in [Keys -> {"Present", "Absent", "Unwritten"}],
         OverlayTrue(overlay, base, head)
  PROVE  [k \in Keys |->
            IF overlay[k] = "Absent" THEN Absent
            ELSE IF overlay[k] = "Present" /\ ViewOf(head)[k] # Absent
              THEN ViewOf(head)[k] ELSE ViewOf(base)[k]] = ViewOf(head)
<1>1. ViewOf(head) \in Rows
  BY ViewOfType
<1> DEFINE view == ViewOf(head)
           read == [k \in Keys |->
                      IF overlay[k] = "Absent" THEN Absent
                      ELSE IF overlay[k] = "Present" /\ view[k] # Absent
                        THEN view[k] ELSE ViewOf(base)[k]]
<1>2. view = [k \in Keys |-> view[k]]
  BY <1>1 DEF Rows
<1>3. \A k \in Keys : read[k] = view[k]
  <2> SUFFICES ASSUME NEW k \in Keys PROVE read[k] = view[k]
    OBVIOUS
  <2>1. /\ overlay[k] = "Absent" => view[k] = Absent
        /\ overlay[k] = "Present" => view[k] # Absent
        /\ overlay[k] = "Unwritten" => view[k] = ViewOf(base)[k]
    BY DEF OverlayTrue
  <2>2. overlay[k] \in {"Present", "Absent", "Unwritten"}
    OBVIOUS
  <2> HIDE DEF view
  <2>3. QED  BY <2>1, <2>2
<1> HIDE DEF view
<1>4. read = [k \in Keys |-> view[k]]
  BY <1>3
<1>5. QED  BY <1>2, <1>4 DEF view

\* The fields of the session, from its type.
LEMMA SessionFields ==
  ASSUME TypeOK
  PROVE  /\ session.entries \in Seq(Entries) /\ session.previous \in Digests
         /\ session.base.chainHead \in Digests /\ session.base.counter \in Nat
         /\ session.marker \in Markers /\ session.engaged \in BOOLEAN
         /\ session.overlay \in [Keys -> {"Present", "Absent", "Unwritten"}]
         /\ session.pending \in Nat /\ session.preImages \in SUBSET PreImages
  BY DEF TypeOK, Sessions

\* What the session reads are rows.
LEMMA SessionRowsType ==
  ASSUME TypeOK
  PROVE  SessionRows \in Rows /\ Observed \in Rows
<1>1. session.entries \in Seq(Entries) /\ rows \in Rows
  BY SessionFields DEF TypeOK
<1>2. /\ DOMAIN session.entries = 1 .. Len(session.entries) /\ Len(session.entries) \in Nat
      /\ \A n \in DOMAIN session.entries : session.entries[n].body \in Bodies
  <2>1. /\ DOMAIN session.entries = 1 .. Len(session.entries)
        /\ Len(session.entries) \in Nat
    BY <1>1, LenProperties
  <2>2. \A n \in 1 .. Len(session.entries) : session.entries[n] \in Entries
    BY <1>1, ElementOfSeq
  <2>3. QED  BY <2>1, <2>2 DEF Entries
<1>3. DOMAIN session.entries \in SUBSET Nat /\ IsFiniteSet(DOMAIN session.entries)
  BY <1>2, FS_Interval
<1>4. SessionRows \in Rows
  BY <1>1, <1>2, <1>3, CanonicalViewType DEF SessionRows
<1>5. QED  BY <1>1, <1>4 DEF Observed, Rows

\* While its base is the current history, a session reads the view of the
\* history that its writes would have left.
LEMMA CurrentSessionReads ==
  ASSUME TypeOK, Kept, session.engaged, session.base.chainHead = chainHead
  PROVE  SessionRows = ViewOf(session.previous) /\ Observed = SessionRows
<1>1. rows = ViewOf(chainHead) /\ SessionContinues(session, chainHead, nextIdentifier)
  BY DEF Kept, HistoryKept, SessionKept
<1>2. /\ Chained(session.entries, chainHead, session.previous)
      /\ OverlayTrue(session.overlay, chainHead, session.previous)
  BY <1>1 DEF SessionContinues
<1>3. SessionRows = ViewOf(session.previous)
  BY <1>1, <1>2 DEF SessionRows, Chained
<1>4. Observed = ViewOf(session.previous)
  <2>1. /\ session.previous \in Digests
        /\ session.overlay \in [Keys -> {"Present", "Absent", "Unwritten"}]
    BY SessionFields
  <2>2. QED  BY <1>1, <1>2, <1>3, <2>1, OverlayReads DEF Observed
<1>5. QED  BY <1>3, <1>4

-----------------------------------------------------------------------------
(* A session one entry further *)

\* The entry that is buffered.
Buffered(operations) ==
  [body |-> BodyAt(Advanced(session.marker), operations), previous |-> session.previous]

\* It is an entry, and the session that has it is a session.
LEMMA ExtendedType ==
  ASSUME TypeOK, NEW operations \in Seq(Operations),
         \A i \in DOMAIN operations :
           operations[i].kind = "Retract" => Observed[operations[i].key] # Absent
  PROVE  /\ Buffered(operations) \in Entries
         /\ Buffered(operations).body.operations = operations
         /\ Buffered(operations).previous = session.previous
         /\ Extended(operations) \in Sessions
         /\ Extended(operations).engaged = session.engaged
         /\ Extended(operations).base = session.base
         /\ Extended(operations).pending = session.pending
         /\ Extended(operations).entries = Append(session.entries, Buffered(operations))
         /\ Extended(operations).marker = Advanced(session.marker)
         /\ Extended(operations).previous
              = Append(session.previous, Buffered(operations).body)
         /\ Extended(operations).overlay = Overlaid(operations)
         /\ Extended(operations).preImages = session.preImages \cup RemovedBy(operations)
<1> DEFINE entry == Buffered(operations)
<1>1. session.marker \in Markers /\ Advanced(session.marker) \in Markers
  <2>1. session.marker \in Markers
    BY SessionFields
  <2>2. QED  BY <2>1 DEF Markers, Advanced
<1>2. entry \in Entries /\ entry.body \in Bodies /\ entry.previous \in Digests
  <2>1. BodyAt(Advanced(session.marker), operations) \in Bodies
    BY <1>1 DEF BodyAt, Bodies, Markers
  <2>2. QED  BY <2>1, SessionFields DEF Buffered, Entries
<1>3. entry.body.operations = operations /\ entry.previous = session.previous
  BY DEF Buffered, BodyAt
<1>4. Append(session.entries, entry) \in Seq(Entries)
  BY <1>2, SessionFields, AppendOne
<1>5. Append(session.previous, entry.body) \in Digests
  BY <1>2, SessionFields, AppendKeepsDigests
<1>6. Overlaid(operations) \in [Keys -> {"Present", "Absent", "Unwritten"}]
  BY SessionFields DEF Overlaid
<1>7. RemovedBy(operations) \in SUBSET PreImages
  <2> SUFFICES ASSUME NEW i \in DOMAIN operations, operations[i].kind = "Retract"
               PROVE  [entry |-> Len(session.entries) + 1, operation |-> i,
                       value |-> Observed[operations[i].key]] \in PreImages
    BY DEF RemovedBy
  <2>1. i \in Nat /\ operations[i] \in Operations
    BY LenProperties
  <2>2. operations[i].key \in Keys
    BY <2>1 DEF Operations
  <2>3. Observed[operations[i].key] \in Values
    BY <2>2, SessionRowsType DEF Rows
  <2>4. Len(session.entries) + 1 \in Nat
    BY SessionFields, LenProperties
  <2>5. QED  BY <2>1, <2>3, <2>4 DEF PreImages
<1>8. session.preImages \cup RemovedBy(operations) \in SUBSET PreImages
  BY <1>7, SessionFields
<1>9. Extended(operations) =
        [session EXCEPT !.entries = Append(session.entries, entry),
                        !.marker = Advanced(session.marker),
                        !.previous = Append(session.previous, entry.body),
                        !.overlay = Overlaid(operations),
                        !.preImages = session.preImages \cup RemovedBy(operations)]
  BY DEF Extended, Buffered, EntryDigest
<1> HIDE DEF entry
<1>10. /\ Extended(operations) \in Sessions
       /\ Extended(operations).engaged = session.engaged
       /\ Extended(operations).base = session.base
       /\ Extended(operations).pending = session.pending
       /\ Extended(operations).entries = Append(session.entries, entry)
       /\ Extended(operations).marker = Advanced(session.marker)
       /\ Extended(operations).previous = Append(session.previous, entry.body)
       /\ Extended(operations).overlay = Overlaid(operations)
       /\ Extended(operations).preImages = session.preImages \cup RemovedBy(operations)
  <2>1. session \in Sessions
    BY DEF TypeOK
  <2>2. PICK e, m, p, o, r :
          /\ e = Append(session.entries, entry) /\ m = Advanced(session.marker)
          /\ p = Append(session.previous, entry.body) /\ o = Overlaid(operations)
          /\ r = session.preImages \cup RemovedBy(operations)
    OBVIOUS
  <2>3. /\ e \in Seq(Entries) /\ m \in Markers /\ p \in Digests
        /\ o \in [Keys -> {"Present", "Absent", "Unwritten"}]
        /\ r \in SUBSET PreImages
    BY <1>1, <1>4, <1>5, <1>6, <1>8, <2>2
  <2>4. PICK x : x = Extended(operations)
    OBVIOUS
  <2>5. x = [session EXCEPT !.entries = e, !.marker = m, !.previous = p,
                            !.overlay = o, !.preImages = r]
    BY <1>9, <2>2, <2>4
  <2>6. /\ x \in Sessions /\ x.engaged = session.engaged
        /\ x.base = session.base /\ x.pending = session.pending
        /\ x.entries = e /\ x.marker = m /\ x.previous = p
        /\ x.overlay = o /\ x.preImages = r
    BY <2>1, <2>3, <2>5 DEF Sessions
  <2>7. QED  BY <2>2, <2>4, <2>6
<1>11. QED  BY <1>2, <1>3, <1>10 DEF entry


\* A session with one more entry continues what it continued, if the entry is
\* admissible and the identifiers are counted on.
LEMMA SessionOneMore ==
  ASSUME TypeOK, Kept, session.engaged, NEW operations \in Seq(Operations),
         \A i \in DOMAIN operations :
           operations[i].kind = "Retract" => Observed[operations[i].key] # Absent,
         NEW s,
         s.base.chainHead = session.base.chainHead,
         s.entries = Append(session.entries, Buffered(operations)),
         s.marker = Advanced(session.marker),
         s.previous = Append(session.previous, Buffered(operations).body),
         s.overlay = Overlaid(operations),
         s.preImages = session.preImages \cup RemovedBy(operations),
         session.base.chainHead = chainHead =>
           /\ Admitted(operations, ViewOf(session.previous))
           /\ Minted(s.previous, Len(chainHead), nextIdentifier, MintFrom(s, nextIdentifier))
           /\ NextFrom(nextIdentifier, s.entries) = MintFrom(s, nextIdentifier)
  PROVE  SessionContinues(s, chainHead, nextIdentifier)
<1> DEFINE entry == Buffered(operations)
           base == session.base.chainHead
           head == session.previous
<1>1. /\ entry \in Entries /\ entry.previous = head
      /\ entry.body.operations = operations
  BY ExtendedType
<1>2. /\ base \in Digests /\ head \in Digests /\ session.entries \in Seq(Entries)
      /\ session.overlay \in [Keys -> {"Present", "Absent", "Unwritten"}]
  BY SessionFields
<1>3. /\ Len(base) <= Len(chainHead) /\ Chained(session.entries, base, head)
      /\ session.marker = [sequence |-> Len(head), snapshot |-> Len(head)]
      /\ OverlayTrue(session.overlay, base, head)
      /\ base = chainHead => SessionCurrent(session, nextIdentifier)
  BY DEF Kept, SessionKept, SessionContinues
<1>4. entry.body.sequence = Len(head) + 1 /\ entry.body.snapshot = Len(head) + 1
  BY <1>3 DEF Buffered, BodyAt, Advanced
<1>5. entry.body \in Bodies
  BY <1>1 DEF Entries
<1>6. Len(head) \in Nat /\ Len(s.previous) = Len(head) + 1
  BY <1>2, <1>5, AppendKeepsDigests, EntriesOfProperties
<1> HIDE DEF entry, base, head
<1>7. Chained(s.entries, base, s.previous)
  BY <1>1, <1>2, <1>3, <1>4, ChainedOneMore DEF entry, head
<1>8. s.marker = [sequence |-> Len(s.previous), snapshot |-> Len(s.previous)]
  BY <1>3, <1>6 DEF Advanced
<1>9. OverlayTrue(s.overlay, base, s.previous)
  <2>1. s.overlay = [k \in Keys |->
                      IF Touches(entry.body.operations, k)
                        THEN IF entry.body.operations[LastOn(entry.body.operations, k)].kind
                                  = "Retract" THEN "Absent" ELSE "Present"
                        ELSE session.overlay[k]]
    BY <1>1 DEF Overlaid
  <2> DEFINE body == entry.body
             written == s.overlay
             overlay == session.overlay
  <2>2. written = [k \in Keys |->
                     IF Touches(body.operations, k)
                       THEN IF body.operations[LastOn(body.operations, k)].kind = "Retract"
                              THEN "Absent" ELSE "Present"
                       ELSE overlay[k]]
    BY <2>1
  <2>3. body \in Bodies /\ OverlayTrue(overlay, base, head) /\ head \in Digests
    BY <1>2, <1>3, <1>5
  <2> HIDE DEF body, written, overlay
  <2>4. OverlayTrue(written, base, Append(head, body))
    BY <2>2, <2>3, OverlayOneMore
  <2>5. QED  BY <2>4 DEF written, body, entry, head
<1>10. ASSUME base = chainHead PROVE SessionCurrent(s, nextIdentifier)
  <2>1. AllAdmitted(session.entries) /\ PreImagesOf(session.entries, session.preImages)
    BY <1>3, <1>10 DEF SessionCurrent
  <2>2. Observed = ViewOf(head)
    BY <1>10, CurrentSessionReads DEF base, head
  <2>3. RemovedBy(operations) = Retracted(Len(session.entries) + 1, entry)
    BY <1>1, <2>2 DEF RemovedBy, Retracted
  <2>4. Admitted(entry.body.operations, ViewOf(entry.previous))
    BY <1>1, <1>10 DEF base, head
  <2> DEFINE more == RemovedBy(operations)
             old == session.entries
             preImages == session.preImages
  <2> HIDE DEF more, old, preImages
  <2>5. /\ AllAdmitted(Append(old, entry)) /\ PreImagesOf(Append(old, entry), preImages \cup more)
    <3>1. /\ old \in Seq(Entries) /\ AllAdmitted(old) /\ PreImagesOf(old, preImages)
          /\ more = Retracted(Len(old) + 1, entry)
      BY <1>2, <2>1, <2>3 DEF more, old, preImages
    <3>2. QED  BY <1>1, <2>4, <3>1, AdmittedOneMore
  <2>6. QED  BY <1>10, <2>5 DEF SessionCurrent, base, old, preImages, more, entry
<1>11. QED  BY <1>3, <1>7, <1>8, <1>9, <1>10 DEF SessionContinues, base

\* The list of an identified call touches one record.
LEMMA IdentifiedOperations ==
  ASSUME NEW identifier \in Keys, NEW v
  PROVE  /\ v \in Values => /\ AssertIdentified(identifier, v) \in Seq(Operations)
                            /\ MutateIdentified(identifier, v) \in Seq(Operations)
         /\ RetractIdentified(identifier) \in Seq(Operations)
<1>1. /\ v \in Values =>
           /\ [kind |-> "Assert", key |-> identifier, value |-> v] \in Operations
           /\ [kind |-> "Mutate", key |-> identifier, value |-> v] \in Operations
      /\ [kind |-> "Retract", key |-> identifier, value |-> Absent] \in Operations
  BY DEF Operations
<1>2. QED  BY <1>1 DEF AssertIdentified, MutateIdentified, RetractIdentified

\* A keyed list has nothing to do with identified records.
LEMMA KeyedMintsNone ==
  ASSUME NEW operations \in Batches, NEW body, body.operations = operations
  PROVE  /\ operations \in Seq(Operations)
         /\ \A identifier \in Identifiers :
              ~Touches(operations, identifier) /\ ~Asserts(body, identifier)
  BY KeyedAssumption, OwnerAssumption DEF Touches, Asserts

\* Nor does a change of one that is there mint any.
LEMMA ChangeMintsNone ==
  ASSUME NEW identifier, NEW v, NEW body, NEW operations,
         body.operations = operations,
         \/ operations = MutateIdentified(identifier, v)
         \/ operations = RetractIdentified(identifier)
  PROVE  /\ \A k : Touches(operations, k) => k = identifier
         /\ \A k : ~Asserts(body, k)
         /\ operations[1].kind # "Assert"
  BY DEF Touches, Asserts, MutateIdentified, RetractIdentified


-----------------------------------------------------------------------------
(* Type correctness and continuation, step by step *)

Inv == TypeOK /\ Kept

\* What a session or a group continues is never longer than the history, so once
\* the history has grown it is not the current one.
LEMMA Outrun ==
  ASSUME NEW head \in Digests, NEW longer \in Digests, Len(longer) > Len(head),
         NEW next, NEW nextLater
  PROVE  /\ \A s \in Sessions : SessionContinues(s, head, next) =>
              SessionContinues(s, longer, nextLater)
         /\ \A group \in Groups : GroupContinues(group, head, next) =>
              GroupContinues(group, longer, nextLater)
<1>1. Len(head) \in Nat /\ Len(longer) \in Nat
  BY EntriesOfProperties
<1>2. ASSUME NEW base \in Digests, Len(base) <= Len(head)
      PROVE  Len(base) <= Len(longer) /\ base # longer
  <2>1. Len(base) \in Nat
    BY EntriesOfProperties
  <2>2. QED  BY <1>1, <1>2, <2>1
<1>3. ASSUME NEW s \in Sessions, SessionContinues(s, head, next)
      PROVE  SessionContinues(s, longer, nextLater)
  <2>1. s.base.chainHead \in Digests
    BY DEF Sessions
  <2>2. QED  BY <1>2, <1>3, <2>1 DEF SessionContinues
<1>4. ASSUME NEW group \in Groups, GroupContinues(group, head, next)
      PROVE  GroupContinues(group, longer, nextLater)
  <2>1. group.entries \in Seq(Entries) /\ group.entries # <<>>
    BY <1>4 DEF Groups, GroupContinues
  <2>2. GroupBase(group) \in Digests
    <3>1. group.entries[1] \in Entries
      BY <2>1, TailProperties
    <3>2. QED  BY <3>1 DEF GroupBase, Entries
  <2>3. QED  BY <1>2, <1>4, <2>2 DEF GroupContinues
<1>5. QED  BY <1>3, <1>4

\* A step that changes the session only.
LEMMA SessionStep ==
  ASSUME Inv, UNCHANGED <<logVars, historyVars, slot, intent, callVars>>,
         session' \in Sessions,
         session'.engaged => SessionContinues(session', chainHead, nextIdentifier)
  PROVE  Inv'
<1>1. TypeOK'
  BY DEF Inv, TypeOK, logVars, historyVars, callVars
<1>2. /\ HistoryKept' /\ SlotKept'
  BY DEF Inv, Kept, HistoryKept, CountersExact, SlotKept, logVars, historyVars
<1>3. SessionKept'
  BY DEF SessionKept, logVars
<1>4. QED  BY <1>1, <1>2, <1>3 DEF Inv, Kept

\* No session is a session.
LEMMA NoSessionType ==
  NoSession \in Sessions /\ ~NoSession.engaged
<1>1. NoDigest \in Digests /\ <<>> \in Seq(Entries)
  BY DEF NoDigest, Digests
<1> DEFINE start == [sequence |-> 0, snapshot |-> 0]
<1>2. start \in Markers
  BY DEF Markers
<1> HIDE DEF start
<1>3. SessionOver(NoDigest, start) \in Sessions
  BY <1>1, <1>2 DEF SessionOver, Sessions
<1>4. NoSession = [SessionOver(NoDigest, start) EXCEPT !.engaged = FALSE]
  BY DEF NoSession, start
<1>5. QED  BY <1>3, <1>4 DEF Sessions

\* begin_staged_group and begin_compaction
LEMMA BeginInv == ASSUME Inv, Begin PROVE Inv'
<1> DEFINE s == SessionOver(chainHead, marker)
<1>1. chainHead \in Digests /\ marker \in Markers /\ <<>> \in Seq(Entries)
  BY DEF Inv, TypeOK
<1>2. /\ s \in Sessions /\ s.engaged /\ s.entries = <<>> /\ s.previous = chainHead
      /\ s.base.chainHead = chainHead /\ s.marker = marker /\ s.pending = 0
      /\ s.preImages = {} /\ s.overlay = [k \in Keys |-> "Unwritten"]
  BY <1>1 DEF SessionOver, Sessions
<1> HIDE DEF s
<1>3. Chained(s.entries, chainHead, s.previous)
  BY <1>1, <1>2, ChainedNothing
<1>4. OverlayTrue(s.overlay, chainHead, s.previous)
  BY <1>2 DEF OverlayTrue
<1>5. s.marker = [sequence |-> Len(s.previous), snapshot |-> Len(s.previous)]
  BY <1>2 DEF Inv, Kept, HistoryKept, CountersExact
<1>6. Len(chainHead) \in Nat
  BY <1>1, EntriesOfProperties
<1>7. SessionCurrent(s, nextIdentifier)
  <2>1. /\ AllAdmitted(s.entries) /\ PreImagesOf(s.entries, s.preImages)
        /\ NextFrom(nextIdentifier, s.entries) = nextIdentifier
    BY <1>1, <1>2, ChainedNothing
  <2>2. MintFrom(s, nextIdentifier) = nextIdentifier
    BY <1>2 DEF MintFrom
  <2>3. Minted(chainHead, Len(chainHead), nextIdentifier, nextIdentifier)
    <3>1. Minted(chainHead, 0, 1, nextIdentifier)
      BY DEF Inv, Kept, HistoryKept
    <3>2. nextIdentifier <= nextIdentifier
      BY IdentifiersAssumption DEF Inv, TypeOK, Identifiers
    <3>3. Len(chainHead) + 1 .. Len(chainHead) = {}
      BY <1>6
    <3>4. QED  BY <3>1, <3>2, <3>3 DEF Minted
  <2>4. QED  BY <1>2, <2>1, <2>2, <2>3 DEF SessionCurrent
<1>8. SessionContinues(s, chainHead, nextIdentifier)
  BY <1>2, <1>3, <1>4, <1>5, <1>6, <1>7 DEF SessionContinues
<1>9. session' = s /\ UNCHANGED <<logVars, historyVars, slot, intent, callVars>>
  BY DEF Begin, s
<1>10. QED  BY <1>2, <1>8, <1>9, SessionStep

\* abandon_staged_group
LEMMA AbandonInv == ASSUME Inv, Abandon PROVE Inv'
  BY NoSessionType, SessionStep DEF Abandon


\* The retracts of an admitted list find their rows.
LEMMA AdmittedRetracts ==
  ASSUME NEW operations, NEW r, Admitted(operations, r)
  PROVE  \A i \in DOMAIN operations : operations[i].kind = "Retract" => r[operations[i].key] # Absent
  BY DEF Admitted, RetractAdmitted

\* A list that mints no identifier, buffered.
LEMMA BufferNoneInv ==
  ASSUME Inv, InSession, NEW operations \in Seq(Operations),
         \A i \in DOMAIN operations :
           operations[i].kind = "Retract" => Observed[operations[i].key] # Absent,
         session' = Extended(operations),
         operations[1].kind = "Assert" => operations[1].key \notin Identifiers,
         session.base.chainHead = chainHead =>
           /\ Admitted(operations, ViewOf(session.previous))
           /\ \A identifier \in Identifiers : Touches(operations, identifier) =>
                ViewOf(session.previous)[identifier] # Absent
           /\ \A identifier \in Identifiers : ~Asserts(Buffered(operations).body, identifier)
  PROVE  Inv'
<1> USE DEF Inv
<1> DEFINE s == Extended(operations)
           entry == Buffered(operations)
<1>1. /\ session.engaged /\ UNCHANGED <<logVars, historyVars, slot, intent, callVars>>
  BY DEF InSession
<1>2. /\ entry \in Entries /\ entry.body.operations = operations
      /\ s \in Sessions /\ s.engaged = session.engaged /\ s.base = session.base
      /\ s.pending = session.pending /\ s.entries = Append(session.entries, entry)
      /\ s.marker = Advanced(session.marker)
      /\ s.previous = Append(session.previous, entry.body)
      /\ s.overlay = Overlaid(operations)
      /\ s.preImages = session.preImages \cup RemovedBy(operations)
  BY ExtendedType
<1>3. MintFrom(s, nextIdentifier) = MintFrom(session, nextIdentifier)
  BY <1>2 DEF MintFrom
<1>4. session.entries \in Seq(Entries) /\ session.previous \in Digests
  BY SessionFields
<1> HIDE DEF s, entry
<1>5. ASSUME session.base.chainHead = chainHead
      PROVE  /\ Minted(s.previous, Len(chainHead), nextIdentifier, MintFrom(s, nextIdentifier))
             /\ NextFrom(nextIdentifier, s.entries) = MintFrom(s, nextIdentifier)
  <2>1. SessionContinues(session, chainHead, nextIdentifier)
    BY <1>1 DEF Kept, SessionKept
  <2>2. /\ Chained(session.entries, chainHead, session.previous)
        /\ Minted(session.previous, Len(chainHead), nextIdentifier, MintFrom(session, nextIdentifier))
        /\ NextFrom(nextIdentifier, session.entries) = MintFrom(session, nextIdentifier)
    BY <1>5, <2>1 DEF SessionContinues, SessionCurrent
  <2>3. Len(chainHead) \in 0 .. Len(session.previous)
    <3>1. Len(chainHead) \in Nat /\ Len(session.entries) \in Nat
      BY <1>4, EntriesOfProperties, LenProperties DEF TypeOK
    <3>2. QED  BY <2>2, <3>1 DEF Chained
  <2>4. entry.body \in Bodies
    BY <1>2 DEF Entries
  <2>5. Minted(Append(session.previous, entry.body), Len(chainHead), nextIdentifier,
               MintFrom(session, nextIdentifier))
    BY <1>2, <1>4, <1>5, <2>2, <2>3, <2>4, MintedNone DEF entry
  <2>6. NextFrom(nextIdentifier, Append(session.entries, entry))
          = NextFrom(nextIdentifier, session.entries)
    BY <1>2, <1>4, NextFromOneMore
  <2>7. QED  BY <1>2, <1>3, <2>2, <2>5, <2>6
<1>6. SessionContinues(s, chainHead, nextIdentifier)
  BY <1>1, <1>2, <1>5, SessionOneMore DEF entry
<1>7. QED  BY <1>1, <1>2, <1>6, SessionStep DEF s

\* staged_assert_keyed, staged_mutate_keyed, staged_retract, staged_commit
LEMMA BufferInv == ASSUME Inv, NEW operations \in Batches, Buffer(operations) PROVE Inv'
<1> DEFINE body == Buffered(operations).body
<1>1. /\ InSession /\ Admitted(operations, Observed) /\ session' = Extended(operations)
      /\ session.engaged
  BY DEF Buffer, InSession
<1>2. body.operations = operations
  BY DEF Buffered, BodyAt
<1>3. /\ operations \in Seq(Operations)
      /\ \A identifier \in Identifiers :
           ~Touches(operations, identifier) /\ ~Asserts(body, identifier)
  BY <1>2, KeyedMintsNone
<1>4. operations # <<>>
  BY <1>1 DEF Admitted
<1>5. 1 \in DOMAIN operations
  BY <1>3, <1>4, TailProperties
<1>6. operations[1].key \notin Identifiers
  BY <1>5, KeyedAssumption
<1>7. ASSUME session.base.chainHead = chainHead
      PROVE  Observed = ViewOf(session.previous)
  BY <1>1, <1>7, CurrentSessionReads DEF Inv
<1>8. QED  BY <1>1, <1>3, <1>6, <1>7, AdmittedRetracts, BufferNoneInv

\* staged_mutate_identified, staged_retract_identified
LEMMA BufferChangeInv ==
  ASSUME Inv, NEW identifier \in Identifiers, NEW v,
         \/ v \in Values /\ BufferMutateIdentified(identifier, v)
         \/ BufferRetractIdentified(identifier)
  PROVE  Inv'
<1>1. PICK operations :
        /\ \/ v \in Values /\ operations = MutateIdentified(identifier, v)
           \/ operations = RetractIdentified(identifier)
        /\ InSession /\ Observed[identifier] # Absent /\ session' = Extended(operations)
  BY DEF BufferMutateIdentified, BufferRetractIdentified
<1> DEFINE body == Buffered(operations).body
<1>2. body.operations = operations
  BY DEF Buffered, BodyAt
<1>3. identifier \in Keys /\ operations \in Seq(Operations)
  BY <1>1, IdentifiersAssumption, IdentifiedOperations
<1>4. /\ \A k : Touches(operations, k) => k = identifier
      /\ \A k : ~Asserts(body, k)
      /\ operations[1].kind # "Assert"
  BY <1>1, <1>2, ChangeMintsNone
<1>5. \A i \in DOMAIN operations : operations[i].key = identifier
  BY <1>4 DEF Touches
<1>6. Admitted(operations, Observed)
  BY <1>1 DEF Admitted, DistinctKeys, AssertAdmitted, MutateAdmitted, RetractAdmitted,
              MutateIdentified, RetractIdentified
<1>7. ASSUME session.base.chainHead = chainHead
      PROVE  Observed = ViewOf(session.previous)
  BY <1>1, <1>7, CurrentSessionReads DEF Inv, InSession
<1>8. ASSUME session.base.chainHead = chainHead
      PROVE  /\ Admitted(operations, ViewOf(session.previous))
             /\ \A other \in Identifiers : Touches(operations, other) =>
                  ViewOf(session.previous)[other] # Absent
             /\ \A other \in Identifiers : ~Asserts(body, other)
  BY <1>1, <1>4, <1>6, <1>7, <1>8
<1>9. QED  BY <1>1, <1>3, <1>4, <1>5, <1>8, BufferNoneInv

\* staged_assert_identified
LEMMA BufferMintInv ==
  ASSUME Inv, NEW v \in Values, BufferAssertIdentified(v)
  PROVE  Inv'
<1> USE DEF Inv
<1> DEFINE minted == MintIdentifier
           operations == AssertIdentified(minted, v)
           e == Extended(operations)
           entry == Buffered(operations)
           s == [e EXCEPT !.pending = minted + 1,
                          !.base.counter = IF session.pending = 0 THEN nextIdentifier ELSE @]
<1>1. /\ InSession /\ session.engaged /\ minted <= MaxIdentifier /\ session' = s
      /\ UNCHANGED <<logVars, historyVars, slot, intent, callVars>>
  BY DEF BufferAssertIdentified, InSession
<1>2. /\ minted = MintFrom(session, nextIdentifier) /\ minted \in Nat /\ minted \in Identifiers
      /\ nextIdentifier \in Nat
  <2>1. session.pending \in Nat /\ MaxIdentifier \in Nat
    BY SessionFields, IdentifiersAssumption
  <2>2. nextIdentifier \in Nat /\ nextIdentifier >= 1
    BY <2>1 DEF TypeOK, Identifiers
  <2>3. QED  BY <1>1, <2>1, <2>2 DEF MintFrom, MintIdentifier, Identifiers
<1>3. minted \in Keys /\ operations \in Seq(Operations)
  BY <1>2, IdentifiersAssumption, IdentifiedOperations
<1>4. operations[1].kind = "Assert" /\ operations[1].key = minted
  BY DEF AssertIdentified
<1>5. \A i \in DOMAIN operations : operations[i].kind # "Retract"
  BY DEF AssertIdentified
<1> HIDE DEF minted
<1>6. /\ entry \in Entries /\ entry.body.operations = operations
      /\ e \in Sessions /\ e.engaged = session.engaged /\ e.base = session.base
      /\ e.entries = Append(session.entries, entry)
      /\ e.marker = Advanced(session.marker)
      /\ e.previous = Append(session.previous, entry.body)
      /\ e.overlay = Overlaid(operations)
      /\ e.preImages = session.preImages \cup RemovedBy(operations)
  <2> HIDE DEF operations
  <2>1. QED  BY <1>3, <1>5, ExtendedType
<1> HIDE DEF e, entry
<1>7. /\ s \in Sessions /\ s.engaged = e.engaged /\ s.base.chainHead = e.base.chainHead
      /\ s.pending = minted + 1 /\ s.entries = e.entries /\ s.marker = e.marker
      /\ s.previous = e.previous /\ s.overlay = e.overlay /\ s.preImages = e.preImages
  <2> DEFINE base == [e.base EXCEPT !.counter =
                        IF session.pending = 0 THEN nextIdentifier ELSE e.base.counter]
  <2>1. e.base \in [chainHead : Digests, marker : Markers, counter : Nat]
    BY <1>6 DEF Sessions
  <2>2. /\ base \in [chainHead : Digests, marker : Markers, counter : Nat]
        /\ base.chainHead = e.base.chainHead
    BY <1>2, <2>1
  <2>3. s = [e EXCEPT !.pending = minted + 1, !.base = base]
    BY <1>6, <2>1 DEF Sessions
  <2> HIDE DEF base, s
  <2>4. minted + 1 \in Nat /\ e \in Sessions
    BY <1>2, <1>6
  <2> DEFINE more == minted + 1
  <2> HIDE DEF more
  <2>5. /\ s = [e EXCEPT !.pending = more, !.base = base] /\ more \in Nat
    BY <2>3, <2>4 DEF more
  <2>6. s \in Sessions
    BY <2>2, <2>4, <2>5 DEF Sessions
  <2>7. /\ s.engaged = e.engaged /\ s.base = base /\ s.pending = more
        /\ s.entries = e.entries /\ s.marker = e.marker /\ s.previous = e.previous
        /\ s.overlay = e.overlay /\ s.preImages = e.preImages
    BY <2>4, <2>5 DEF Sessions
  <2>8. QED  BY <2>2, <2>6, <2>7 DEF more
<1>8. MintFrom(s, nextIdentifier) = minted + 1
  BY <1>2, <1>7 DEF MintFrom
<1>9. session.entries \in Seq(Entries) /\ session.previous \in Digests
  BY SessionFields
<1> HIDE DEF s
<1>10. ASSUME session.base.chainHead = chainHead
       PROVE  /\ Admitted(operations, ViewOf(session.previous))
              /\ Minted(s.previous, Len(chainHead), nextIdentifier, minted + 1)
              /\ NextFrom(nextIdentifier, s.entries) = minted + 1
  <2>1. SessionContinues(session, chainHead, nextIdentifier)
    BY <1>1 DEF Kept, SessionKept
  <2>2. /\ Chained(session.entries, chainHead, session.previous)
        /\ Minted(session.previous, Len(chainHead), nextIdentifier, minted)
    BY <1>2, <1>10, <2>1 DEF SessionContinues, SessionCurrent
  <2>3. Len(chainHead) \in 0 .. Len(session.previous)
    <3>1. Len(chainHead) \in Nat /\ Len(session.entries) \in Nat
      BY <1>9, EntriesOfProperties, LenProperties DEF TypeOK
    <3>2. QED  BY <2>2, <3>1 DEF Chained
  <2>4. entry.body \in Bodies
    BY <1>6 DEF Entries
  <2>5. Minted(Append(session.previous, entry.body), Len(chainHead), nextIdentifier, minted + 1)
    BY <1>2, <1>6, <1>9, <2>2, <2>3, <2>4, MintedNext
  <2>6. NextFrom(nextIdentifier, Append(session.entries, entry)) = minted + 1
    <3>1. entry.body.operations[1].kind = "Assert" /\ entry.body.operations[1].key = minted
      BY <1>4, <1>6
    <3> DEFINE first == entry.body.operations[1]
               old == session.entries
    <3>2. old \in Seq(Entries)
      BY <1>9
    <3> HIDE DEF old, operations
    <3>3. NextFrom(nextIdentifier, Append(old, entry))
            = IF first.kind = "Assert" /\ first.key \in Identifiers THEN first.key + 1
                ELSE NextFrom(nextIdentifier, old)
      BY <1>6, <3>2, NextFromOneMore
    <3>4. QED  BY <1>2, <3>1, <3>3 DEF old
  <2>7. ViewOf(session.previous)[minted] = Absent
    BY <1>2, <2>2 DEF Minted
  <2>8. Admitted(operations, ViewOf(session.previous))
    BY <2>7 DEF Admitted, DistinctKeys, AssertAdmitted, MutateAdmitted, RetractAdmitted,
                AssertIdentified
  <2>9. QED  BY <1>6, <1>7, <2>5, <2>6, <2>8
<1> HIDE DEF operations
<1>11. SessionContinues(s, chainHead, nextIdentifier)
  BY <1>1, <1>3, <1>5, <1>6, <1>7, <1>8, <1>10, SessionOneMore DEF entry
<1>12. QED  BY <1>1, <1>6, <1>7, <1>11, SessionStep


-----------------------------------------------------------------------------
(* Commits *)

\* A history that has grown: nobody's base is current, and what is left to show
\* is what the history itself keeps.
LEMMA GrownStep ==
  ASSUME Inv, UNCHANGED <<historyVars, session>>,
         slot' = slot \/ slot' = NoGroup,
         chainHead' \in Digests, Len(chainHead') > Len(chainHead),
         rows' = ViewOf(chainHead'),
         marker' = [sequence |-> Len(chainHead'), snapshot |-> Len(chainHead')],
         counts' = CountsPlus(Len(chainHead') - Len(chainHead)),
         outbox' \in SUBSET Nat, Minted(chainHead', 0, 1, nextIdentifier'),
         intent' \in Intents, status' \in {"closed", "opening", "open"},
         step' \in {"idle", "resume", "maintain", "trim", "settle"},
         after' \in {"return", "settle", "serve"}
  PROVE  Inv'
<1> USE DEF Inv
<1>1. /\ Len(chainHead) \in Nat /\ Len(chainHead') \in Nat /\ chainHead \in Digests
      /\ slot \in Groups /\ session \in Sessions
      /\ floor \in Nat /\ covered \in Nat
  BY EntriesOfProperties DEF TypeOK
<1>2. NoGroup \in Groups
  BY DEF NoGroup, Groups
<1>3. counts' = [commits |-> Len(chainHead') - floor, versioned |-> Len(chainHead') - floor]
  <2>1. counts.commits = Len(chainHead) - floor /\ counts.versioned = Len(chainHead) - floor
    BY DEF Kept, HistoryKept, CountersExact
  <2>2. counts.commits + (Len(chainHead') - Len(chainHead)) = Len(chainHead') - floor
    BY <1>1, <2>1
  <2>3. QED  BY <2>1, <2>2 DEF CountsPlus
<1>4. floor <= covered /\ covered <= Len(chainHead)
  BY DEF Kept, HistoryKept
<1>5. covered <= Len(chainHead') /\ Len(chainHead') - floor \in Nat
  BY <1>1, <1>4
<1>6. HistoryKept'
  BY <1>3, <1>4, <1>5 DEF HistoryKept, CountersExact, historyVars
<1>7. SessionKept' /\ SlotKept'
  <2>1. SessionKept'
    <3> SUFFICES ASSUME session.engaged
                 PROVE  SessionContinues(session, chainHead', nextIdentifier')
      BY DEF SessionKept
    <3>1. SessionContinues(session, chainHead, nextIdentifier)
      BY DEF Kept, SessionKept
    <3>2. QED  BY <1>1, <3>1, Outrun
  <2>2. SlotKept'
    <3> SUFFICES ASSUME slot' = slot, slot # NoGroup
                 PROVE  GroupContinues(slot, chainHead', nextIdentifier')
      BY DEF SlotKept
    <3>1. GroupContinues(slot, chainHead, nextIdentifier)
      BY DEF Kept, SlotKept
    <3>2. QED  BY <1>1, <3>1, Outrun
  <2>3. QED  BY <2>1, <2>2
<1>8. TypeOK'
  <2>1. rows' \in Rows
    BY ViewOfType
  <2>2. marker' \in Markers /\ counts' \in [commits : Nat, versioned : Nat]
    BY <1>1, <1>3, <1>5 DEF Markers
  <2>3. nextIdentifier' \in Identifiers \cup {MaxIdentifier + 1}
    BY DEF Minted
  <2>4. QED  BY <1>1, <1>2, <2>1, <2>2, <2>3 DEF TypeOK, historyVars
<1>9. QED  BY <1>6, <1>7, <1>8 DEF Kept

\* Queued rows are numbers.
LEMMA QueuedType ==
  ASSUME TypeOK, NEW sequences \in SUBSET Nat
  PROVE  Queued(sequences) \in SUBSET Nat
  BY DEF Queued, TypeOK

\* The storage transaction of a direct write.
LEMMA CommitInv ==
  ASSUME Inv, NEW operations \in Seq(Operations), CommitDirectly(operations),
         LET body == BodyAt(Advanced(marker), operations)
         IN  Minted(Append(chainHead, body), 0, 1, nextIdentifier'),
         status' = status,
         step' \in {"idle", "resume", "maintain", "trim", "settle"},
         after' \in {"return", "settle", "serve"}
  PROVE  Inv'
<1> USE DEF Inv
<1> DEFINE next == Advanced(marker)
           body == BodyAt(next, operations)
<1>1. /\ chainHead \in Digests /\ Len(chainHead) \in Nat /\ marker \in Markers
  BY EntriesOfProperties DEF TypeOK
<1>2. /\ next = [sequence |-> Len(chainHead) + 1, snapshot |-> Len(chainHead) + 1]
  BY DEF Kept, HistoryKept, CountersExact, Advanced
<1>3. body \in Bodies /\ body.operations = operations
  BY <1>1, <1>2 DEF BodyAt, Bodies
<1>4. /\ rows' = Apply(operations, rows) /\ chainHead' = Append(chainHead, body)
      /\ marker' = next /\ counts' = CountsPlus(1)
      /\ outbox' = Queued({next.sequence})
      /\ UNCHANGED <<historyVars, slot, intent, session>>
  BY DEF CommitDirectly
<1>5. Minted(chainHead', 0, 1, nextIdentifier')
  BY <1>4
<1> HIDE DEF next, body
<1>6. chainHead' \in Digests /\ Len(chainHead') = Len(chainHead) + 1
  BY <1>1, <1>3, <1>4, AppendKeepsDigests
<1>7. rows' = ViewOf(chainHead')
  <2>1. rows = ViewOf(chainHead)
    BY DEF Kept, HistoryKept
  <2>2. QED  BY <1>1, <1>3, <1>4, <2>1, ViewOfAppend
<1>8. /\ Len(chainHead') > Len(chainHead) /\ Len(chainHead') - Len(chainHead) = 1
      /\ marker' = [sequence |-> Len(chainHead'), snapshot |-> Len(chainHead')]
  BY <1>1, <1>2, <1>4, <1>6
<1>9. outbox' \in SUBSET Nat
  <2>1. {next.sequence} \in SUBSET Nat
    BY <1>1, <1>2
  <2>2. QED  BY <1>4, <2>1, QueuedType
<1>10. intent' \in Intents /\ status' \in {"closed", "opening", "open"}
  BY <1>4 DEF TypeOK
<1>11. QED  BY <1>4, <1>5, <1>6, <1>7, <1>8, <1>9, <1>10, GrownStep

\* A direct write that mints no identifier.
LEMMA CommitNoneInv ==
  ASSUME Inv, NEW operations \in Seq(Operations), CommitDirectly(operations),
         \A identifier \in Identifiers :
           Touches(operations, identifier) => rows[identifier] # Absent,
         \A identifier \in Identifiers :
           ~Asserts(BodyAt(Advanced(marker), operations), identifier),
         nextIdentifier' = nextIdentifier, status' = status,
         step' \in {"idle", "resume", "maintain", "trim", "settle"},
         after' \in {"return", "settle", "serve"}
  PROVE  Inv'
<1> DEFINE body == BodyAt(Advanced(marker), operations)
<1>1. /\ chainHead \in Digests /\ Len(chainHead) \in Nat /\ marker \in Markers
  BY EntriesOfProperties DEF TypeOK, Inv
<1>2. body \in Bodies /\ body.operations = operations
  BY <1>1 DEF BodyAt, Bodies, Advanced, Markers
<1>3. rows = ViewOf(chainHead) /\ Minted(chainHead, 0, 1, nextIdentifier)
  BY DEF Inv, Kept, HistoryKept
<1>4. \A identifier \in Identifiers : ~Asserts(body, identifier)
  OBVIOUS
<1> HIDE DEF body
<1>5. Minted(Append(chainHead, body), 0, 1, nextIdentifier)
  <2>1. 0 \in 0 .. Len(chainHead)
    BY <1>1
  <2>2. QED  BY <1>1, <1>2, <1>3, <1>4, <2>1, MintedNone
<1>6. QED  BY <1>5, CommitInv DEF body

\* assert, mutate, retract, commit and commit_atomic
LEMMA WriteInv ==
  ASSUME Inv, NEW operations \in Batches, Write(operations) \/ WriteAtomic(operations)
  PROVE  Inv'
<1> DEFINE body == BodyAt(Advanced(marker), operations)
<1>1. /\ CommitDirectly(operations) /\ nextIdentifier' = nextIdentifier /\ status' = status
      /\ step' = "maintain" /\ after' = "return"
  BY DEF Write, WriteAtomic, ThenMaintain
<1>2. body.operations = operations
  BY DEF BodyAt
<1>3. /\ operations \in Seq(Operations)
      /\ \A identifier \in Identifiers :
           ~Touches(operations, identifier) /\ ~Asserts(body, identifier)
  BY <1>2, KeyedMintsNone
<1>4. QED  BY <1>1, <1>3, CommitNoneInv

\* mutate_identified, retract_identified
LEMMA WriteChangeInv ==
  ASSUME Inv, NEW identifier \in Identifiers, NEW v,
         \/ v \in Values /\ WriteMutateIdentified(identifier, v)
         \/ WriteRetractIdentified(identifier)
  PROVE  Inv'
<1>1. PICK operations :
        /\ \/ v \in Values /\ operations = MutateIdentified(identifier, v)
           \/ operations = RetractIdentified(identifier)
        /\ rows[identifier] # Absent /\ CommitDirectly(operations)
        /\ nextIdentifier' = nextIdentifier /\ UNCHANGED callVars
  BY DEF WriteMutateIdentified, WriteRetractIdentified
<1> DEFINE body == BodyAt(Advanced(marker), operations)
<1>2. body.operations = operations
  BY DEF BodyAt
<1>3. identifier \in Keys /\ operations \in Seq(Operations)
  BY <1>1, IdentifiersAssumption, IdentifiedOperations
<1>4. /\ \A k : Touches(operations, k) => k = identifier
      /\ \A k : ~Asserts(body, k)
  BY <1>1, <1>2, ChangeMintsNone
<1>5. /\ status' = status
      /\ step' \in {"idle", "resume", "maintain", "trim", "settle"}
      /\ after' \in {"return", "settle", "serve"}
  BY <1>1 DEF callVars, Inv, TypeOK
<1>6. QED  BY <1>1, <1>3, <1>4, <1>5, CommitNoneInv

\* assert_identified
LEMMA WriteMintInv ==
  ASSUME Inv, NEW v \in Values, WriteAssertIdentified(v)
  PROVE  Inv'
<1> USE DEF Inv
<1> DEFINE operations == AssertIdentified(nextIdentifier, v)
           body == BodyAt(Advanced(marker), operations)
<1>1. /\ nextIdentifier <= MaxIdentifier /\ CommitDirectly(operations)
      /\ nextIdentifier' = nextIdentifier + 1 /\ UNCHANGED callVars
  BY DEF WriteAssertIdentified
<1>2. nextIdentifier \in Identifiers /\ nextIdentifier \in Nat
  BY <1>1, IdentifiersAssumption DEF TypeOK, Identifiers
<1>3. operations \in Seq(Operations)
  BY <1>2, IdentifiersAssumption, IdentifiedOperations
<1>4. /\ chainHead \in Digests /\ Len(chainHead) \in Nat /\ marker \in Markers
  BY EntriesOfProperties DEF TypeOK
<1>5. body \in Bodies /\ body.operations = AssertIdentified(nextIdentifier, v)
  BY <1>3, <1>4 DEF BodyAt, Bodies, Advanced, Markers
<1> HIDE DEF body
<1>6. Minted(Append(chainHead, body), 0, 1, nextIdentifier + 1)
  <2>1. 0 \in 0 .. Len(chainHead) /\ 1 \in Nat
    BY <1>4
  <2>2. Minted(chainHead, 0, 1, nextIdentifier)
    BY DEF Kept, HistoryKept
  <2>3. QED  BY <1>2, <1>4, <1>5, <2>1, <2>2, MintedNext
<1>7. /\ status' = status
      /\ step' \in {"idle", "resume", "maintain", "trim", "settle"}
      /\ after' \in {"return", "settle", "serve"}
  BY <1>1 DEF callVars, TypeOK
<1> HIDE DEF operations
<1>8. QED  BY <1>1, <1>3, <1>6, <1>7, CommitInv DEF body


-----------------------------------------------------------------------------
(* The parked group *)

\* The head a continuation leads to is the digest of its last entry, and its
\* base the predecessor of its first.
LEMMA ChainedEnds ==
  ASSUME NEW base \in Digests, NEW head \in Digests, NEW entries \in Seq(Entries),
         Chained(entries, base, head), entries # <<>>
  PROVE  /\ entries[1].previous = base
         /\ EntryDigest(entries[Len(entries)]) = head
         /\ Len(head) > Len(base)
<1>1. /\ Len(entries) \in Nat /\ Len(entries) >= 1 /\ DOMAIN entries = 1 .. Len(entries)
  BY TailProperties
<1>2. /\ Len(base) \in Nat /\ Len(head) \in Nat /\ Len(head) = Len(base) + Len(entries)
      /\ DigestAt(head, Len(base)) = base
      /\ \A n \in DOMAIN entries :
           /\ entries[n].body = head[Len(base) + n]
           /\ entries[n].previous = DigestAt(head, Len(base) + n - 1)
  BY EntriesOfProperties DEF Chained
<1>3. entries[1].previous = base
  <2>1. 1 \in DOMAIN entries /\ Len(base) + 1 - 1 = Len(base)
    BY <1>1, <1>2
  <2>2. QED  BY <1>2, <2>1
<1>4. EntryDigest(entries[Len(entries)]) = head
  <2>1. Len(entries) \in DOMAIN entries /\ Len(head) \in 1 .. Len(head)
    BY <1>1, <1>2
  <2>2. /\ entries[Len(entries)].body = head[Len(head)]
        /\ entries[Len(entries)].previous = DigestAt(head, Len(head) - 1)
    <3>1. /\ entries[Len(entries)].body = head[Len(base) + Len(entries)]
          /\ entries[Len(entries)].previous = DigestAt(head, Len(base) + Len(entries) - 1)
      BY <1>2, <2>1
    <3>2. QED  BY <1>2, <3>1
  <2>3. Append(DigestAt(head, Len(head) - 1), head[Len(head)]) = DigestAt(head, Len(head))
    BY <2>1, DigestAtProperties
  <2>4. QED  BY <2>2, <2>3, DigestAtProperties DEF EntryDigest
<1>5. QED  BY <1>1, <1>2, <1>3, <1>4

\* The group a current session parks.
LEMMA BuiltGroupContinues ==
  ASSUME Inv, session.engaged, Parks
  PROVE  /\ BuiltGroup \in Groups /\ BuiltGroup # NoGroup
         /\ GroupBase(BuiltGroup) = chainHead
         /\ ProspectiveHead(BuiltGroup) = session.previous
         /\ GroupContinues(BuiltGroup, chainHead, nextIdentifier)
<1> USE DEF Inv
<1>1. /\ session.entries # <<>> /\ session.base.chainHead = chainHead
  BY DEF Parks, BaseCurrent
<1>2. /\ session.entries \in Seq(Entries) /\ session.previous \in Digests
      /\ session.preImages \in SUBSET PreImages /\ chainHead \in Digests
  BY SessionFields DEF TypeOK
<1>3. /\ BuiltGroup.entries = session.entries /\ BuiltGroup.preImages = session.preImages
      /\ BuiltGroup \in Groups
  BY <1>2 DEF BuiltGroup, Groups
<1>4. BuiltGroup # NoGroup
  BY <1>1, <1>3 DEF NoGroup
<1>5. SessionContinues(session, chainHead, nextIdentifier)
  BY DEF Kept, SessionKept
<1>6. /\ Chained(session.entries, chainHead, session.previous)
      /\ SessionCurrent(session, nextIdentifier)
  BY <1>1, <1>5 DEF SessionContinues
<1>7. /\ session.entries[1].previous = chainHead
      /\ EntryDigest(session.entries[Len(session.entries)]) = session.previous
  BY <1>1, <1>2, <1>6, ChainedEnds
<1>8. GroupBase(BuiltGroup) = chainHead
  BY <1>3, <1>7 DEF GroupBase
<1>9. ProspectiveHead(BuiltGroup) = session.previous
  BY <1>3, <1>4, <1>7 DEF ProspectiveHead
<1>10. Len(chainHead) <= Len(chainHead)
  BY <1>2, EntriesOfProperties
<1>11. Minted(session.previous, Len(chainHead), nextIdentifier,
              NextFrom(nextIdentifier, session.entries))
  BY <1>1, <1>6 DEF SessionCurrent
<1>12. AllAdmitted(session.entries) /\ PreImagesOf(session.entries, session.preImages)
  BY <1>6 DEF SessionCurrent
<1> HIDE DEF Inv
<1>13. GroupContinues(BuiltGroup, chainHead, nextIdentifier)
  BY <1>1, <1>3, <1>6, <1>8, <1>9, <1>10, <1>11, <1>12 DEF GroupContinues
<1>14. QED  BY <1>3, <1>4, <1>8, <1>9, <1>13

\* A step that changes the slot, the intent, the session and the call only, and
\* leaves no session engaged that was not.
LEMMA SlotStep ==
  ASSUME Inv, UNCHANGED <<logVars, historyVars>>,
         session' \in {session, NoSession},
         slot' \in Groups,
         slot' # NoGroup => GroupContinues(slot', chainHead, nextIdentifier),
         intent' \in Intents,
         status' \in {"closed", "opening", "open"},
         step' \in {"idle", "resume", "maintain", "trim", "settle"},
         after' \in {"return", "settle", "serve"}
  PROVE  Inv'
<1>1. session' \in Sessions
  BY NoSessionType DEF Inv, TypeOK
<1>2. TypeOK'
  BY <1>1 DEF Inv, TypeOK, logVars, historyVars
<1>3. HistoryKept'
  BY DEF Inv, Kept, HistoryKept, CountersExact, logVars, historyVars
<1>4. SessionKept'
  BY NoSessionType DEF Inv, Kept, SessionKept, logVars
<1>5. SlotKept'
  BY DEF SlotKept, logVars
<1>6. QED  BY <1>2, <1>3, <1>4, <1>5 DEF Inv, Kept

\* Steps that move the call and the intent only.
LEMMA CallStep ==
  ASSUME Inv, UNCHANGED <<logVars, historyVars, slot>>,
         session' \in {session, NoSession}, intent' \in Intents,
         status' \in {"closed", "opening", "open"},
         step' \in {"idle", "resume", "maintain", "trim", "settle"},
         after' \in {"return", "settle", "serve"}
  PROVE  Inv'
<1>1. slot' = slot /\ slot \in Groups
  BY DEF Inv, TypeOK
<1>2. slot # NoGroup => GroupContinues(slot, chainHead, nextIdentifier)
  BY DEF Inv, Kept, SlotKept
<1>3. QED  BY <1>1, <1>2, SlotStep

\* park_staged_group and park_compaction
LEMMA ParkInv == ASSUME Inv, ParkStagedGroup \/ ParkCompaction PROVE Inv'
<1>1. /\ session.engaged /\ session' = NoSession
      /\ UNCHANGED <<logVars, historyVars, callVars>>
      /\ slot' = slot \/ (Parks /\ slot' = BuiltGroup)
      /\ intent' \in {intent, Planned}
  BY DEF ParkStagedGroup, ParkCompaction
<1>2. intent' \in Intents
  BY <1>1 DEF Inv, TypeOK, Planned, Intents
<1>3. /\ slot' \in Groups
      /\ slot' # NoGroup => GroupContinues(slot', chainHead, nextIdentifier)
  BY <1>1, BuiltGroupContinues DEF Inv, TypeOK, Kept, SlotKept
<1>4. /\ status' \in {"closed", "opening", "open"}
      /\ step' \in {"idle", "resume", "maintain", "trim", "settle"}
      /\ after' \in {"return", "settle", "serve"}
  BY <1>1 DEF Inv, TypeOK, callVars
<1>5. QED  BY <1>1, <1>2, <1>3, <1>4, SlotStep

\* discard_staged_group
LEMMA DiscardInv == ASSUME Inv, DiscardStagedGroup PROVE Inv'
<1>1. /\ slot' = NoGroup /\ NoGroup \in Groups /\ session' = session
      /\ UNCHANGED <<logVars, historyVars>>
  BY DEF DiscardStagedGroup, NoGroup, Groups
<1>2. /\ intent' \in Intents
      /\ status' \in {"closed", "opening", "open"}
      /\ step' \in {"idle", "resume", "maintain", "trim", "settle"}
      /\ after' \in {"return", "settle", "serve"}
  BY DEF DiscardStagedGroup, Inv, TypeOK, callVars
<1>3. QED  BY <1>1, <1>2, SlotStep

\* What a group that passes the verification is: parked over the current
\* history, and its grant leads to the promised head, rows and numbers.
LEMMA GrantedGroup ==
  ASSUME Inv, ContinuesChain(slot)
  PROVE  LET last == slot.entries[Len(slot.entries)]
         IN  /\ slot # NoGroup /\ slot.entries # <<>> /\ slot.entries \in Seq(Entries)
             /\ Chained(slot.entries, chainHead, ProspectiveHead(slot))
             /\ AllAdmitted(slot.entries)
             /\ EntryDigest(last) = ProspectiveHead(slot)
             /\ ProspectiveHead(slot) \in Digests
             /\ CanonicalView(rows, slot.entries) = ViewOf(ProspectiveHead(slot))
             /\ last.body.sequence = Len(ProspectiveHead(slot))
             /\ last.body.snapshot = Len(ProspectiveHead(slot))
             /\ Len(ProspectiveHead(slot)) = Len(chainHead) + Len(slot.entries)
             /\ Len(slot.entries) \in Nat /\ Len(slot.entries) >= 1
             /\ Minted(ProspectiveHead(slot), Len(chainHead), nextIdentifier,
                       CounterAfter(slot))
<1> USE DEF Inv
<1> DEFINE head == ProspectiveHead(slot)
           entries == slot.entries
           last == entries[Len(entries)]
<1>1. slot # NoGroup /\ GroupContinues(slot, chainHead, nextIdentifier)
  BY DEF ContinuesChain, Kept, SlotKept
<1>2. /\ entries # <<>> /\ entries \in Seq(Entries)
      /\ rows = ViewOf(chainHead) /\ chainHead \in Digests
  BY <1>1 DEF GroupContinues, TypeOK, Groups, Kept, HistoryKept
<1>3. /\ Len(entries) \in Nat /\ Len(entries) >= 1 /\ DOMAIN entries = 1 .. Len(entries)
      /\ entries[1] \in Entries
  BY <1>2, TailProperties
<1>4. last \in Entries
  <2>1. Len(entries) \in 1 .. Len(entries)
    BY <1>3
  <2>2. QED  BY <1>2, <2>1, ElementOfSeq
<1>5. GroupBase(slot) = chainHead
  <2>1. 1 \in DOMAIN entries
    BY <1>3
  <2>2. QED  BY <2>1 DEF ContinuesChain, GroupBase
<1>6. /\ Chained(entries, chainHead, head) /\ AllAdmitted(entries)
      /\ Minted(head, Len(chainHead), nextIdentifier, NextFrom(nextIdentifier, entries))
  BY <1>1, <1>5 DEF GroupContinues
<1>7. head = EntryDigest(last)
  BY <1>1 DEF ProspectiveHead
<1>8. head \in Digests
  <2>1. last.previous \in Digests /\ last.body \in Bodies
    BY <1>4 DEF Entries
  <2>2. QED  BY <1>7, <2>1, AppendKeepsDigests DEF EntryDigest
<1> HIDE DEF head, last
<1>9. CanonicalView(rows, entries) = ViewOf(head)
  BY <1>2, <1>6 DEF Chained
<1>10. /\ Len(head) = Len(chainHead) + Len(entries)
       /\ last.body.sequence = Len(head) /\ last.body.snapshot = Len(head)
  <2>1. Len(entries) \in DOMAIN entries
    BY <1>3
  <2>2. QED  BY <1>6, <2>1 DEF Chained, last
<1>11. CounterAfter(slot) = NextFrom(nextIdentifier, entries)
  BY DEF CounterAfter, NextFrom, Minting, MintingEntries
<1>12. QED  BY <1>1, <1>2, <1>3, <1>6, <1>7, <1>8, <1>9, <1>10, <1>11 DEF head, last

\* materialize_staged_group's transaction
LEMMA MaterializeInv ==
  ASSUME Inv, Materialize,
         status' \in {"closed", "opening", "open"},
         step' \in {"idle", "resume", "maintain", "trim", "settle"},
         after' \in {"return", "settle", "serve"}
  PROVE  Inv'
<1> USE DEF Inv
<1> DEFINE head == ProspectiveHead(slot)
           last == slot.entries[Len(slot.entries)]
           sequences == {slot.entries[n].body.sequence : n \in DOMAIN slot.entries}
<1>1. ContinuesChain(slot)
  BY DEF Materialize
<1>2. /\ slot.entries # <<>> /\ slot.entries \in Seq(Entries)
      /\ Chained(slot.entries, chainHead, head)
      /\ EntryDigest(last) = head /\ head \in Digests
      /\ CanonicalView(rows, slot.entries) = ViewOf(head)
      /\ last.body.sequence = Len(head) /\ last.body.snapshot = Len(head)
      /\ Len(head) = Len(chainHead) + Len(slot.entries)
      /\ Len(slot.entries) \in Nat /\ Len(slot.entries) >= 1
      /\ Minted(head, Len(chainHead), nextIdentifier, CounterAfter(slot))
  BY <1>1, GrantedGroup
<1>3. /\ rows' = CanonicalView(rows, slot.entries) /\ chainHead' = EntryDigest(last)
      /\ marker' = [sequence |-> last.body.sequence, snapshot |-> last.body.snapshot]
      /\ counts' = CountsPlus(Len(slot.entries))
      /\ outbox' = Queued(sequences)
      /\ nextIdentifier' = CounterAfter(slot) /\ intent' = IntentAfter(slot)
      /\ slot' = NoGroup /\ UNCHANGED <<historyVars, session>>
  BY DEF Materialize
<1>4. \A n \in DOMAIN slot.entries : slot.entries[n].body.sequence = Len(chainHead) + n
  BY <1>2 DEF Chained
<1>5. chainHead \in Digests /\ Len(chainHead) \in Nat
  BY EntriesOfProperties DEF TypeOK
<1>6. DOMAIN slot.entries = 1 .. Len(slot.entries)
  BY <1>2, LenProperties
<1>7. sequences \in SUBSET Nat
  BY <1>4, <1>5, <1>6
<1> HIDE DEF head, last, sequences
<1>8. outbox' \in SUBSET Nat
  BY <1>3, <1>7, QueuedType
<1>9. intent' \in Intents
  <2>1. Applied(last.body.sequence) \in Intents
    <3>1. last.body.sequence \in Nat
      BY <1>2, <1>5
    <3>2. QED  BY <3>1 DEF Applied, Intents
  <2>2. QED  BY <1>3, <2>1 DEF IntentAfter, TypeOK, last
<1>10. /\ chainHead' = head /\ Len(chainHead') > Len(chainHead)
       /\ Len(chainHead') - Len(chainHead) = Len(slot.entries)
  BY <1>2, <1>3, <1>5
<1>11. Minted(head, 0, 1, nextIdentifier')
  <2>1. Minted(chainHead, 0, 1, nextIdentifier)
    BY DEF Kept, HistoryKept
  <2>2. Len(chainHead) <= Len(head) /\ DigestAt(head, Len(chainHead)) = chainHead /\ 1 \in Nat
    BY <1>2, <1>5 DEF Chained
  <2>3. QED  BY <1>2, <1>3, <1>5, <2>1, <2>2, MintedTogether
<1>12. QED  BY <1>2, <1>3, <1>8, <1>9, <1>10, <1>11, GrownStep


-----------------------------------------------------------------------------
(* Maintenance, resumption and reopening *)

\* A step that moves the checkpoint, the floor and the acknowledgement only.
LEMMA HistoryStep ==
  ASSUME Inv, UNCHANGED <<rows, chainHead, marker, nextIdentifier, slot, intent, session>>,
         counts' = [commits |-> Len(chainHead) - floor', versioned |-> Len(chainHead) - floor'],
         floor' \in Nat, covered' \in Nat, cursor' \in Nat, outbox' \in SUBSET Nat,
         floor' <= covered', covered' <= Len(chainHead),
         status' \in {"closed", "opening", "open"},
         step' \in {"idle", "resume", "maintain", "trim", "settle"},
         after' \in {"return", "settle", "serve"}
  PROVE  Inv'
<1>1. chainHead \in Digests /\ Len(chainHead) \in Nat
  BY EntriesOfProperties DEF Inv, TypeOK
<1>2. Len(chainHead) - floor' \in Nat
  BY <1>1
<1>3. counts' \in [commits : Nat, versioned : Nat]
  BY <1>2
<1>4. TypeOK'
  BY <1>3 DEF Inv, TypeOK
<1>5. HistoryKept'
  BY DEF Inv, Kept, HistoryKept, CountersExact
<1>6. SessionKept' /\ SlotKept'
  BY DEF Inv, Kept, SessionKept, SlotKept
<1>7. QED  BY <1>4, <1>5, <1>6 DEF Inv, Kept

\* A call that ends leaves the call in its type.
LEMMA CallEndsType ==
  ASSUME TypeOK, NEW succeeds \in BOOLEAN, CallEnds(succeeds)
  PROVE  /\ status' \in {"closed", "opening", "open"}
         /\ step' \in {"idle", "resume", "maintain", "trim", "settle"}
         /\ after' \in {"return", "settle", "serve"}
  BY DEF CallEnds, TypeOK

\* compact_configured_versioned_history, up to the checkpoint
LEMMA MaintainInv == ASSUME Inv, Maintain PROVE Inv'
<1> USE DEF Inv
<1>1. /\ UNCHANGED <<rows, chainHead, marker, nextIdentifier, slot, intent, session>>
      /\ UNCHANGED <<counts, outbox, floor, cursor>>
      /\ covered' \in {covered, Len(chainHead)}
  BY DEF Maintain, logVars
<1>2. /\ status' \in {"closed", "opening", "open"}
      /\ step' \in {"idle", "resume", "maintain", "trim", "settle"}
      /\ after' \in {"return", "settle", "serve"}
  <2>1. \/ \E succeeds \in BOOLEAN : CallEnds(succeeds)
        \/ step' = "trim" /\ UNCHANGED <<status, after>>
    BY DEF Maintain
  <2>2. QED  BY <2>1, CallEndsType DEF TypeOK
<1>3. Len(chainHead) \in Nat
  BY EntriesOfProperties DEF TypeOK
<1>4. /\ floor <= covered /\ covered <= Len(chainHead)
      /\ counts = [commits |-> Len(chainHead) - floor, versioned |-> Len(chainHead) - floor]
      /\ floor \in Nat /\ covered \in Nat /\ cursor \in Nat /\ outbox \in SUBSET Nat
  BY DEF Kept, HistoryKept, CountersExact, TypeOK
<1>5. covered' \in Nat /\ floor <= covered' /\ covered' <= Len(chainHead)
  BY <1>1, <1>3, <1>4
<1>6. QED  BY <1>1, <1>2, <1>4, <1>5, HistoryStep

\* The compaction's transaction
LEMMA TrimInv == ASSUME Inv, Trim PROVE Inv'
<1> USE DEF Inv
<1>1. /\ UNCHANGED <<rows, chainHead, marker, nextIdentifier, covered, cursor,
                     slot, intent, session>>
      /\ \/ UNCHANGED <<floor, counts, outbox>>
         \/ /\ floor' = covered
            /\ counts' = [commits |-> counts.commits - (covered - floor),
                          versioned |-> counts.versioned - (covered - floor)]
            /\ outbox' = {n \in outbox : n > covered}
  BY DEF Trim
<1>2. /\ status' \in {"closed", "opening", "open"}
      /\ step' \in {"idle", "resume", "maintain", "trim", "settle"}
      /\ after' \in {"return", "settle", "serve"}
  <2>1. \E succeeds \in BOOLEAN : CallEnds(succeeds)
    BY DEF Trim
  <2>2. QED  BY <2>1, CallEndsType
<1>3. Len(chainHead) \in Nat
  BY EntriesOfProperties DEF TypeOK
<1>4. /\ floor <= covered /\ covered <= Len(chainHead)
      /\ counts = [commits |-> Len(chainHead) - floor, versioned |-> Len(chainHead) - floor]
      /\ floor \in Nat /\ covered \in Nat /\ cursor \in Nat /\ outbox \in SUBSET Nat
  BY DEF Kept, HistoryKept, CountersExact, TypeOK
<1>5. CASE UNCHANGED <<floor, counts, outbox>>
  BY <1>1, <1>2, <1>4, <1>5, HistoryStep
<1>6. CASE /\ floor' = covered
           /\ counts' = [commits |-> counts.commits - (covered - floor),
                         versioned |-> counts.versioned - (covered - floor)]
           /\ outbox' = {n \in outbox : n > covered}
  <2>1. /\ counts.commits - (covered - floor) = Len(chainHead) - floor'
        /\ counts.versioned - (covered - floor) = Len(chainHead) - floor'
    <3>1. /\ counts.commits = Len(chainHead) - floor
          /\ counts.versioned = Len(chainHead) - floor
      BY <1>4
    <3>2. QED  BY <1>3, <1>4, <1>6, <3>1
  <2>2. counts' = [commits |-> Len(chainHead) - floor', versioned |-> Len(chainHead) - floor']
    BY <1>6, <2>1
  <2>3. floor' <= covered' /\ floor' \in Nat
    BY <1>1, <1>4, <1>6
  <2>4. outbox' \in SUBSET Nat
    BY <1>4, <1>6
  <2>5. QED  BY <1>1, <1>2, <1>4, <2>2, <2>3, <2>4, HistoryStep
<1>7. QED  BY <1>1, <1>5, <1>6

\* The checkpoint of a compaction, and an acknowledgement
LEMMA CheckpointInv ==
  ASSUME Inv, CheckpointPlan \/ \E sequence \in 1 .. MaxCommits : Acknowledge(sequence)
  PROVE  Inv'
<1> USE DEF Inv
<1>1. /\ UNCHANGED <<rows, chainHead, marker, nextIdentifier, slot, intent, session>>
      /\ UNCHANGED <<counts, outbox, floor, status, step, after>>
      /\ covered' \in {covered, Len(chainHead)}
      /\ cursor' = cursor \/ cursor' \in 1 .. MaxCommits
  BY DEF CheckpointPlan, Acknowledge, logVars, callVars
<1>2. /\ floor <= covered /\ covered <= Len(chainHead) /\ Len(chainHead) \in Nat
      /\ counts = [commits |-> Len(chainHead) - floor, versioned |-> Len(chainHead) - floor]
      /\ floor \in Nat /\ covered \in Nat /\ cursor \in Nat /\ outbox \in SUBSET Nat
  BY EntriesOfProperties DEF Kept, HistoryKept, CountersExact, TypeOK
<1>3. /\ covered' \in Nat /\ floor <= covered' /\ covered' <= Len(chainHead)
      /\ cursor' \in Nat
  BY <1>1, <1>2, OwnerAssumption
<1>4. /\ status' \in {"closed", "opening", "open"}
      /\ step' \in {"idle", "resume", "maintain", "trim", "settle"}
      /\ after' \in {"return", "settle", "serve"}
  BY <1>1 DEF TypeOK
<1>5. QED  BY <1>1, <1>2, <1>3, <1>4, HistoryStep

\* The steps that move the call, the phase of the intent and the engine only.
CallMoves ==
  \/ CallMaintain \/ ResumeCompaction \/ NothingPending \/ PublishCheckpoint
  \/ AdvanceFloor \/ Settle \/ Open \/ OpenRecovering \/ Crash
  \/ ApplyPlan /\ ~Materialize

\* They leave the store as it is.
LEMMA CallMovesFrame ==
  ASSUME TypeOK, CallMoves
  PROVE  /\ UNCHANGED <<logVars, historyVars, slot>>
         /\ session' \in {session, NoSession} /\ intent' \in Intents
         /\ status' \in {"closed", "opening", "open"}
         /\ step' \in {"idle", "resume", "maintain", "trim", "settle"}
         /\ after' \in {"return", "settle", "serve"}
<1> USE DEF TypeOK, callVars, ThenMaintain, ResumeEnds
<1>1. CASE CallMaintain  BY <1>1 DEF CallMaintain
<1>2. CASE ResumeCompaction  BY <1>2 DEF ResumeCompaction
<1>3. CASE NothingPending  BY <1>3 DEF NothingPending
<1>4. CASE PublishCheckpoint
  <2>1. intent' = Checkpointed(intent.final) /\ intent.final \in Nat
    BY <1>4 DEF PublishCheckpoint, Intents
  <2>2. intent' \in Intents
    BY <2>1 DEF Checkpointed, Intents
  <2>3. QED  BY <1>4, <2>2 DEF PublishCheckpoint
<1>5. CASE AdvanceFloor  BY <1>5 DEF AdvanceFloor
<1>6. CASE Settle
  <2>1. NoIntent \in Intents
    BY DEF NoIntent, Intents
  <2>2. QED  BY <1>6, <2>1 DEF Settle
<1>7. CASE Open  BY <1>7 DEF Open
<1>8. CASE OpenRecovering  BY <1>8 DEF OpenRecovering
<1>9. CASE Crash  BY <1>9 DEF Crash
<1>10. CASE ApplyPlan /\ ~Materialize
  <2>1. CallEnds(FALSE) /\ UNCHANGED <<logVars, historyVars, slot, intent, session>>
    BY <1>10 DEF ApplyPlan
  <2>2. QED  BY <2>1, CallEndsType
<1>11. QED
  BY <1>1, <1>2, <1>3, <1>4, <1>5, <1>6, <1>7, <1>8, <1>9, <1>10 DEF CallMoves

\* A materialization, asked for or resumed
Grants == MaterializeStagedGroup \/ (ApplyPlan /\ Materialize)

\* It keeps the invariant, whether or not the deltas could be announced after it.
LEMMA GrantsInv == ASSUME Inv, Grants PROVE Inv'
<1>1. /\ Materialize
      /\ UNCHANGED callVars \/ CallEnds(FALSE)
  BY DEF Grants, MaterializeStagedGroup, ApplyPlan, Materialize
<1>2. /\ status' \in {"closed", "opening", "open"}
      /\ step' \in {"idle", "resume", "maintain", "trim", "settle"}
      /\ after' \in {"return", "settle", "serve"}
  BY <1>1, CallEndsType DEF Inv, TypeOK, callVars
<1>3. QED  BY <1>1, <1>2, MaterializeInv

\* Every step.
LEMMA NextInv == ASSUME Inv, Next PROVE Inv'
<1>1. CASE DirectWrite
  BY <1>1, WriteInv, WriteMintInv, WriteChangeInv DEF DirectWrite
<1>2. CASE BufferedWrite
  BY <1>2, BufferInv, BufferMintInv, BufferChangeInv DEF BufferedWrite
<1>3. CASE BeginStagedGroup \/ BeginCompaction
  BY <1>3, BeginInv DEF BeginStagedGroup, BeginCompaction
<1>4. CASE CallMoves
  BY <1>4, CallMovesFrame, CallStep DEF Inv
<1>5. CASE Proceed
  <2>1. Maintain \/ Trim \/ CheckpointPlan \/ CallMoves \/ Grants
    BY <1>5 DEF Proceed, CallMoves, Grants
  <2>2. QED  BY <1>4, <2>1, MaintainInv, TrimInv, CheckpointInv, GrantsInv
<1>6. CASE \E sequence \in 1 .. MaxCommits : Acknowledge(sequence)
  BY <1>6, CheckpointInv
<1>7. CASE Abandon \/ ParkStagedGroup \/ ParkCompaction \/ MaterializeStagedGroup \/ DiscardStagedGroup
  BY <1>7, AbandonInv, ParkInv, GrantsInv, DiscardInv DEF Grants
<1>8. CASE CallMaintain \/ ResumeCompaction \/ Open \/ OpenRecovering \/ Crash
  BY <1>4, <1>8 DEF CallMoves
<1>9. QED  BY <1>1, <1>2, <1>3, <1>5, <1>6, <1>7, <1>8 DEF Next

\* The fresh store.
LEMMA InitInv == Init => Inv
<1> SUFFICES ASSUME Init PROVE Inv
  OBVIOUS
<1>1. chainHead = <<>> /\ chainHead \in Digests /\ Len(chainHead) = 0
  BY DEF Init, NoDigest, Digests
<1>2. ViewOf(chainHead) = EmptyRows
  <2>1. EmptyRows \in Rows
    BY DEF EmptyRows, Rows
  <2>2. EntriesOf(chainHead) = <<>>
    BY <1>1 DEF EntriesOf
  <2>3. QED  BY <2>1, <2>2, FoldNothing DEF ViewOf
<1>3. nextIdentifier = 1 /\ 1 \in Identifiers \cup {MaxIdentifier + 1}
  BY IdentifiersAssumption DEF Init, Identifiers
<1>4. Minted(chainHead, 0, 1, nextIdentifier)
  <2>1. 0 + 1 .. Len(chainHead) = {}
    BY <1>1
  <2>2. \A identifier \in Identifiers : ViewOf(chainHead)[identifier] = Absent
    BY <1>2, IdentifiersAssumption DEF EmptyRows
  <2>3. QED  BY <1>3, <2>1, <2>2 DEF Minted
<1>5. HistoryKept
  BY <1>1, <1>2, <1>4 DEF Init, HistoryKept, CountersExact
<1>6. SessionKept /\ SlotKept
  BY NoSessionType DEF Init, SessionKept, SlotKept
<1>7. TypeOK
  <2>1. NoGroup \in Groups /\ NoIntent \in Intents /\ EmptyRows \in Rows
    BY DEF NoGroup, Groups, NoIntent, Intents, EmptyRows, Rows
  <2>2. QED  BY <1>1, <1>3, <2>1, NoSessionType DEF Init, TypeOK, Markers
<1>8. QED  BY <1>5, <1>6, <1>7 DEF Inv, Kept

\* The inductive invariant holds of every behaviour.
LEMMA InvAlways == Spec => []Inv
<1>1. Inv /\ [Next]_vars => Inv'
  <2> SUFFICES ASSUME Inv, [Next]_vars PROVE Inv'
    OBVIOUS
  <2>1. CASE UNCHANGED vars
    <3>1. UNCHANGED <<logVars, historyVars, slot, intent, callVars, session>>
      BY <2>1 DEF vars
    <3>2. session' \in {session, NoSession} /\ intent' \in Intents
      BY <3>1 DEF Inv, TypeOK
    <3>3. /\ status' \in {"closed", "opening", "open"}
          /\ step' \in {"idle", "resume", "maintain", "trim", "settle"}
          /\ after' \in {"return", "settle", "serve"}
      BY <3>1 DEF Inv, TypeOK, callVars
    <3>4. QED  BY <3>1, <3>2, <3>3, CallStep
  <2>2. QED  BY <2>1, NextInv
<1>2. QED  BY <1>1, InitInv, PTL DEF Spec


-----------------------------------------------------------------------------
(* The theorems about single states *)

\* Type correctness of the staging area: sessions, parked groups, pre-images,
\* intents and counters keep their shapes through every call and crash.
THEOREM StagingTyped == Spec => []TypeOK
  BY InvAlways, PTL DEF Inv

\* commit_log_count, versioned_log_count and the persisted markers are exact
\* after every direct write, materialized group and compaction.
THEOREM CountersAlwaysExact == Spec => []CountersExact
<1>1. Inv => CountersExact
  BY DEF Inv, Kept, HistoryKept
<1>2. QED  BY <1>1, InvAlways, PTL

\* An engaged session over a current base reads what direct writes would have
\* left: staged_match_records, staged_key_present and current_commit_sequence
\* answer alike.
THEOREM SessionsReadLikeDirectWrites == Spec => []SessionReadsLikeDirectWrites
<1>1. Inv => SessionReadsLikeDirectWrites
  <2> SUFFICES ASSUME Inv, session.engaged, BaseCurrent
               PROVE  /\ SessionRows = ViewOf(session.previous)
                      /\ Observed = SessionRows
                      /\ CurrentSequence = Len(session.previous)
    BY DEF SessionReadsLikeDirectWrites
  <2>1. SessionRows = ViewOf(session.previous) /\ Observed = SessionRows
    BY CurrentSessionReads DEF Inv, BaseCurrent
  <2>2. session.marker = [sequence |-> Len(session.previous),
                          snapshot |-> Len(session.previous)]
    BY DEF Inv, Kept, SessionKept, SessionContinues
  <2>3. QED  BY <2>1, <2>2 DEF CurrentSequence
<1>2. QED  BY <1>1, InvAlways, PTL

\* The pre-images parked with a group are exactly the rows its retracts will
\* remove (park_pre_image), whatever the store has done since.
THEOREM PreImagesAlwaysTrue == Spec => []PreImagesTrue
<1>1. Inv => PreImagesTrue
  <2> SUFFICES ASSUME Inv PROVE PreImagesTrue
    OBVIOUS
  <2>1. CASE slot = NoGroup
    <3>1. DOMAIN slot.entries = {}
      BY <2>1 DEF NoGroup
    <3>2. QED  BY <3>1 DEF PreImagesTrue
  <2>2. CASE slot # NoGroup
    <3>1. PreImagesOf(slot.entries, slot.preImages)
      BY <2>2 DEF Inv, Kept, SlotKept, GroupContinues
    <3>2. QED  BY <3>1 DEF PreImagesTrue, PreImagesOf, Retracted
  <2>3. QED  BY <2>1, <2>2
<1>2. QED  BY <1>1, InvAlways, PTL

\* mint_identifier and assert_identified never hand out an identifier twice,
\* through sessions abandoned, parked, discarded and granted.
THEOREM MintedOnce == Spec => []IdentifiersMintedOnce
<1>1. Inv => IdentifiersMintedOnce
  <2> SUFFICES ASSUME Inv PROVE IdentifiersMintedOnce
    OBVIOUS
  <2>1. Minted(chainHead, 0, 1, nextIdentifier)
    BY DEF Inv, Kept, HistoryKept
  <2>2. DOMAIN chainHead = 0 + 1 .. Len(chainHead)
    BY EntriesOfProperties DEF Inv, TypeOK
  <2>3. \A identifier \in Identifiers, n \in DOMAIN chainHead :
          Asserts(chainHead[n], identifier) =>
            /\ identifier < nextIdentifier
            /\ \A m \in DOMAIN chainHead : Asserts(chainHead[m], identifier) => m = n
    BY <2>1, <2>2 DEF Minted
  <2>4. QED  BY <2>3 DEF IdentifiersMintedOnce, Asserts
<1>2. QED  BY <1>1, InvAlways, PTL

-----------------------------------------------------------------------------
(* The kinds of step *)

\* A direct write commits one admitted list; an identified assertion is admitted
\* although nothing looks for a row, because the counter is ahead of the rows.
LEMMA DirectWriteCommits ==
  ASSUME Inv, DirectWrite
  PROVE  \E operations \in Seq(Operations) :
           Admitted(operations, rows) /\ CommitDirectly(operations)
<1>1. ASSUME NEW operations \in Batches, Write(operations) \/ WriteAtomic(operations)
      PROVE  /\ operations \in Seq(Operations)
             /\ Admitted(operations, rows) /\ CommitDirectly(operations)
  BY <1>1, OwnerAssumption DEF Write, WriteAtomic
<1>2. ASSUME NEW v \in Values, WriteAssertIdentified(v)
      PROVE  /\ AssertIdentified(nextIdentifier, v) \in Seq(Operations)
             /\ Admitted(AssertIdentified(nextIdentifier, v), rows)
             /\ CommitDirectly(AssertIdentified(nextIdentifier, v))
  <2>1. nextIdentifier \in Identifiers
    BY <1>2, IdentifiersAssumption DEF Inv, TypeOK, Identifiers, WriteAssertIdentified
  <2>2. AssertIdentified(nextIdentifier, v) \in Seq(Operations)
    BY <2>1, IdentifiersAssumption, IdentifiedOperations
  <2>3. rows[nextIdentifier] = Absent
    <3>1. nextIdentifier <= nextIdentifier
      BY <2>1 DEF Identifiers
    <3>2. QED  BY <2>1, <3>1 DEF Inv, Kept, HistoryKept, Minted
  <2>4. Admitted(AssertIdentified(nextIdentifier, v), rows)
    BY <2>3 DEF Admitted, DistinctKeys, AssertAdmitted, MutateAdmitted, RetractAdmitted,
                AssertIdentified
  <2>5. QED  BY <1>2, <2>2, <2>4 DEF WriteAssertIdentified
<1>3. ASSUME NEW identifier \in Identifiers, NEW v,
             \/ v \in Values /\ WriteMutateIdentified(identifier, v)
             \/ WriteRetractIdentified(identifier)
      PROVE  \E operations \in Seq(Operations) :
               Admitted(operations, rows) /\ CommitDirectly(operations)
  <2>1. PICK operations :
          /\ \/ v \in Values /\ operations = MutateIdentified(identifier, v)
             \/ operations = RetractIdentified(identifier)
          /\ rows[identifier] # Absent /\ CommitDirectly(operations)
    BY <1>3 DEF WriteMutateIdentified, WriteRetractIdentified
  <2>2. operations \in Seq(Operations)
    BY <2>1, IdentifiersAssumption, IdentifiedOperations
  <2>3. Admitted(operations, rows)
    BY <2>1 DEF Admitted, DistinctKeys, AssertAdmitted, MutateAdmitted, RetractAdmitted,
                MutateIdentified, RetractIdentified
  <2>4. QED  BY <2>1, <2>2, <2>3
<1>4. QED  BY <1>1, <1>2, <1>3 DEF DirectWrite

\* A step that leaves the store, the slot and the queue alone.
Quiet == UNCHANGED <<logVars, floor, cursor, slot>>

\* Every step is of one of these kinds; those of a session, of a call on its way
\* and of the engine's life are quiet.
LEMMA StepKinds ==
  ASSUME TypeOK, [Next]_vars
  PROVE  \/ DirectWrite \/ Grants \/ ParkStagedGroup \/ ParkCompaction
         \/ DiscardStagedGroup \/ Trim
         \/ \E sequence \in 1 .. MaxCommits : Acknowledge(sequence)
         \/ Quiet
<1> USE DEF Quiet, historyVars
<1>1. CASE BufferedWrite
  BY <1>1 DEF BufferedWrite, Buffer, BufferAssertIdentified, BufferMutateIdentified,
              BufferRetractIdentified, InSession
<1>2. CASE BeginStagedGroup \/ BeginCompaction \/ Abandon
  BY <1>2 DEF BeginStagedGroup, BeginCompaction, Begin, Abandon
<1>3. CASE CallMoves
  BY <1>3, CallMovesFrame
<1>4. CASE Maintain \/ CheckpointPlan
  BY <1>4 DEF Maintain, CheckpointPlan
<1>5. CASE UNCHANGED vars
  BY <1>5 DEF vars
<1>6. Proceed => Maintain \/ Trim \/ CheckpointPlan \/ CallMoves \/ Grants
  BY DEF Proceed, CallMoves, Grants
<1>7. QED
  BY <1>1, <1>2, <1>3, <1>4, <1>5, <1>6 DEF Next, CallMoves, Grants

-----------------------------------------------------------------------------
(* The mirror's queue *)

\* Commits are queued with the transaction that makes them, a group's all
\* together, and compaction takes only what the mirror has confirmed.
LEMMA QueueStep == ASSUME Inv, UnconfirmedQueued, [Next]_vars PROVE UnconfirmedQueued'
<1> USE DEF Inv
<1> SUFFICES ASSUME Topology = "Mirror"
             PROVE  floor' <= cursor' /\ cursor' + 1 .. Len(chainHead') \subseteq outbox'
  BY DEF UnconfirmedQueued
<1>1. /\ floor <= cursor /\ cursor + 1 .. Len(chainHead) \subseteq outbox
      /\ floor \in Nat /\ cursor \in Nat /\ covered \in Nat /\ Len(chainHead) \in Nat
  BY EntriesOfProperties DEF UnconfirmedQueued, TypeOK
<1>2. ASSUME NEW sequences, outbox' = Queued(sequences), UNCHANGED historyVars,
             Len(chainHead') \in Nat,
             Len(chainHead) + 1 .. Len(chainHead') \subseteq sequences
      PROVE  floor' <= cursor' /\ cursor' + 1 .. Len(chainHead') \subseteq outbox'
  BY <1>1, <1>2 DEF Queued, historyVars
<1>3. CASE DirectWrite
  <2>1. PICK operations \in Seq(Operations) : CommitDirectly(operations)
    BY <1>3, DirectWriteCommits
  <2>2. /\ chainHead' = Append(chainHead, BodyAt(Advanced(marker), operations))
        /\ outbox' = Queued({Advanced(marker).sequence}) /\ UNCHANGED historyVars
    BY <2>1 DEF CommitDirectly
  <2>3. Advanced(marker).sequence = Len(chainHead) + 1
    BY DEF Advanced, Kept, HistoryKept, CountersExact
  <2>4. BodyAt(Advanced(marker), operations) \in Bodies
    BY DEF BodyAt, Bodies, Advanced, TypeOK, Markers
  <2>5. Len(chainHead') = Len(chainHead) + 1
    BY <2>2, <2>4, AppendKeepsDigests DEF TypeOK
  <2>6. Len(chainHead) + 1 .. Len(chainHead') \subseteq {Advanced(marker).sequence}
    BY <1>1, <2>3, <2>5
  <2>7. Len(chainHead') \in Nat
    BY <1>1, <2>5
  <2> DEFINE sequences == {Advanced(marker).sequence}
  <2>8. /\ outbox' = Queued(sequences) /\ UNCHANGED historyVars
        /\ Len(chainHead) + 1 .. Len(chainHead') \subseteq sequences
    BY <2>2, <2>6
  <2> HIDE DEF sequences
  <2>9. QED  BY <1>2, <2>7, <2>8
<1>4. CASE Grants
  <2> DEFINE sequences == {slot.entries[n].body.sequence : n \in DOMAIN slot.entries}
             last == slot.entries[Len(slot.entries)]
             head == ProspectiveHead(slot)
  <2>1. Materialize
    BY <1>4 DEF Grants, MaterializeStagedGroup
  <2>2. /\ ContinuesChain(slot) /\ outbox' = Queued(sequences) /\ UNCHANGED historyVars
        /\ chainHead' = EntryDigest(last)
    BY <2>1 DEF Materialize
  <2>3. /\ chainHead' = head /\ Chained(slot.entries, chainHead, head)
        /\ Len(head) = Len(chainHead) + Len(slot.entries)
        /\ Len(slot.entries) \in Nat /\ slot.entries \in Seq(Entries)
    BY <2>2, GrantedGroup
  <2>4. DOMAIN slot.entries = 1 .. Len(slot.entries)
    BY <2>3, LenProperties
  <2>5. \A n \in 1 .. Len(slot.entries) : Len(chainHead) + n \in sequences
    BY <2>3, <2>4 DEF Chained
  <2> HIDE DEF sequences, head
  <2>6. Len(chainHead') \in Nat /\ Len(chainHead) + 1 .. Len(chainHead') \subseteq sequences
    <3>1. Len(chainHead') = Len(chainHead) + Len(slot.entries)
      BY <2>3
    <3>2. ASSUME NEW m \in Len(chainHead) + 1 .. Len(chainHead') PROVE m \in sequences
      <4>1. m - Len(chainHead) \in 1 .. Len(slot.entries)
            /\ Len(chainHead) + (m - Len(chainHead)) = m
        BY <1>1, <2>3, <3>1
      <4>2. QED  BY <2>5, <4>1
    <3>3. QED  BY <1>1, <2>3, <3>1, <3>2
  <2>7. QED  BY <1>2, <2>2, <2>6
<1>5. CASE ParkStagedGroup \/ ParkCompaction \/ DiscardStagedGroup \/ Quiet
  BY <1>1, <1>5 DEF ParkStagedGroup, ParkCompaction, DiscardStagedGroup, Quiet, logVars,
                    historyVars
<1>6. CASE Trim
  <2>1. /\ cursor' = cursor /\ chainHead' = chainHead
        /\ \/ UNCHANGED <<floor, outbox>>
           \/ /\ ~(cursor < covered) /\ floor' = covered
              /\ outbox' = {n \in outbox : n > covered}
    BY <1>6 DEF Trim
  <2>2. CASE UNCHANGED <<floor, outbox>>
    BY <1>1, <2>1, <2>2
  <2>3. CASE /\ ~(cursor < covered) /\ floor' = covered
             /\ outbox' = {n \in outbox : n > covered}
    <3>1. floor' <= cursor'
      BY <1>1, <2>1, <2>3
    <3>2. \A n \in cursor' + 1 .. Len(chainHead') : n \in outbox /\ n > covered
      BY <1>1, <2>1, <2>3
    <3>3. QED  BY <2>3, <3>1, <3>2
  <2>4. QED  BY <2>1, <2>2, <2>3
<1>7. ASSUME NEW sequence \in 1 .. MaxCommits, Acknowledge(sequence)
      PROVE  floor' <= cursor' /\ cursor' + 1 .. Len(chainHead') \subseteq outbox'
  <2>1. /\ sequence > cursor /\ cursor' = sequence /\ floor' = floor
        /\ chainHead' = chainHead /\ outbox' = outbox /\ sequence \in Nat
    BY <1>7, OwnerAssumption DEF Acknowledge, logVars
  <2>2. QED  BY <1>1, <2>1
<1>8. QED  BY <1>3, <1>4, <1>5, <1>6, <1>7, StepKinds

\* Every commit the mirror has not confirmed stays queued, those of a group
\* included, and compaction never passes the mirror's cursor.
THEOREM UnconfirmedStayQueued == Spec => []UnconfirmedQueued
<1>1. Init => UnconfirmedQueued
  <2> SUFFICES ASSUME Init PROVE UnconfirmedQueued
    OBVIOUS
  <2>1. floor = 0 /\ cursor = 0 /\ Len(chainHead) = 0
    BY DEF Init, NoDigest
  <2>2. QED  BY <2>1 DEF UnconfirmedQueued
<1>2. QED  BY <1>1, QueueStep, InvAlways, PTL DEF Spec


-----------------------------------------------------------------------------
(* The refinement of GroupStore *)

\* Within the abstract store, the operators of VersionedLog are those of
\* VersionedLog.
LEMMA PromiseOperators ==
  /\ \A head, n : Promise!DigestAt(head, n) = DigestAt(head, n)
  /\ \A head : Promise!ViewOf(head) = ViewOf(head)
  /\ \A operations, r : Promise!Admitted(operations, r) <=> Admitted(operations, r)
<1>1. \A head, n : Promise!DigestAt(head, n) = DigestAt(head, n)
  BY DEF Promise!DigestAt, DigestAt
<1>2. \A head : Promise!EntriesOf(head) = EntriesOf(head)
  BY DEF Promise!EntriesOf, EntriesOf, Promise!DigestAt, DigestAt
<1>3. \A base, log : Promise!CanonicalView(base, log) = CanonicalView(base, log)
  BY DEF Promise!CanonicalView, CanonicalView, Promise!LastWriter, LastWriter,
         Promise!Apply, Apply, Promise!Touches, Touches, Promise!LastOn, LastOn
<1>4. \A head : Promise!ViewOf(head) = ViewOf(head)
  BY <1>2, <1>3 DEF Promise!ViewOf, ViewOf, Promise!EmptyRows, EmptyRows
<1>5. \A operations, r : Promise!Admitted(operations, r) <=> Admitted(operations, r)
  BY DEF Promise!Admitted, Admitted, Promise!DistinctKeys, DistinctKeys,
         Promise!AssertAdmitted, AssertAdmitted, Promise!MutateAdmitted, MutateAdmitted,
         Promise!RetractAdmitted, RetractAdmitted
<1>6. QED  BY <1>1, <1>4, <1>5

\* The entries of a continuation, all admitted, make the abstract one.
LEMMA ChainedIsPromised ==
  ASSUME NEW base \in Digests, NEW head \in Digests, NEW entries \in Seq(Entries),
         Chained(entries, base, head), AllAdmitted(entries), entries # <<>>
  PROVE  Promise!Continues(head, base)
<1>1. /\ Len(entries) \in Nat /\ DOMAIN entries = 1 .. Len(entries)
      /\ Len(base) \in Nat /\ Len(head) > Len(base)
      /\ Len(head) = Len(base) + Len(entries) /\ DigestAt(head, Len(base)) = base
  BY EntriesOfProperties, LenProperties, ChainedEnds DEF Chained
<1>2. ASSUME NEW n \in Len(base) + 1 .. Len(head)
      PROVE  /\ head[n].sequence = n /\ head[n].snapshot = n
             /\ Admitted(head[n].operations, ViewOf(DigestAt(head, n - 1)))
  <2> DEFINE m == n - Len(base)
  <2>1. m \in DOMAIN entries /\ Len(base) + m = n /\ Len(base) + m - 1 = n - 1
    BY <1>1
  <2> HIDE DEF m
  <2>2. /\ entries[m].body = head[Len(base) + m]
        /\ entries[m].previous = DigestAt(head, Len(base) + m - 1)
        /\ entries[m].body.sequence = Len(base) + m
        /\ entries[m].body.snapshot = Len(base) + m
    BY <2>1 DEF Chained
  <2>3. /\ entries[m].body = head[n] /\ entries[m].previous = DigestAt(head, n - 1)
        /\ entries[m].body.sequence = n /\ entries[m].body.snapshot = n
    BY <2>1, <2>2
  <2>4. Admitted(entries[m].body.operations, ViewOf(entries[m].previous))
    BY <2>1 DEF AllAdmitted
  <2>5. QED  BY <2>3, <2>4
<1>3. QED  BY <1>1, <1>2, PromiseOperators DEF Promise!Continues

\* A direct write is the abstract commit.
LEMMA DirectWriteImplements == ASSUME Inv, DirectWrite PROVE Promise!Commit
<1>1. PICK operations \in Seq(Operations) :
        Admitted(operations, rows) /\ CommitDirectly(operations)
  BY DirectWriteCommits
<1> DEFINE body == BodyAt(Advanced(marker), operations)
           longer == Append(chainHead, body)
           next == Len(chainHead) + 1
<1>2. /\ rows' = Apply(operations, rows) /\ chainHead' = longer /\ slot' = slot
  BY <1>1 DEF CommitDirectly
<1>3. chainHead \in Digests /\ Len(chainHead) \in Nat /\ rows = ViewOf(chainHead)
  BY EntriesOfProperties DEF Inv, TypeOK, Kept, HistoryKept
<1>4. /\ body.sequence = next /\ body.snapshot = next /\ body.operations = operations
  BY DEF BodyAt, Advanced, Inv, Kept, HistoryKept, CountersExact
<1>5. body \in Bodies
  BY DEF BodyAt, Bodies, Advanced, Inv, TypeOK, Markers
<1> HIDE DEF body
<1>6. /\ longer \in Digests /\ Len(longer) = next /\ longer[next] = body
      /\ DigestAt(longer, Len(chainHead)) = chainHead
  <2>1. Len(chainHead) \in 0 .. Len(chainHead)
    BY <1>3
  <2>2. QED  BY <1>3, <1>5, <2>1, AppendKeepsDigests, DigestAtProperties
<1>7. ViewOf(longer) = Apply(operations, rows)
  BY <1>3, <1>4, <1>5, ViewOfAppend
<1> HIDE DEF longer
<1>8. \A n \in Len(chainHead) + 1 .. Len(longer) : n = next /\ n - 1 = Len(chainHead)
  BY <1>3, <1>6
<1>9. Promise!Continues(longer, chainHead)
  <2>1. Len(longer) > Len(chainHead)
    BY <1>3, <1>6
  <2>2. \A n \in Len(chainHead) + 1 .. Len(longer) :
          /\ longer[n].sequence = n /\ longer[n].snapshot = n
          /\ Admitted(longer[n].operations, ViewOf(DigestAt(longer, n - 1)))
    BY <1>1, <1>3, <1>4, <1>6, <1>8
  <2>3. QED  BY <1>6, <2>1, <2>2, PromiseOperators DEF Promise!Continues
<1>10. QED  BY <1>2, <1>6, <1>7, <1>9, PromiseOperators DEF Promise!Commit

\* A park is the abstract park, or nothing.
LEMMA ParkImplements ==
  ASSUME Inv, ParkStagedGroup \/ ParkCompaction
  PROVE  Promise!Park \/ UNCHANGED Promise!vars
<1>1. /\ session.engaged /\ UNCHANGED <<rows, chainHead>>
      /\ slot' = slot \/ (Parks /\ slot' = BuiltGroup)
  BY DEF ParkStagedGroup, ParkCompaction, logVars
<1>2. CASE slot' = slot
  BY <1>1, <1>2 DEF Promise!vars
<1>3. CASE Parks /\ slot' = BuiltGroup
  <2>1. slot = NoGroup /\ session.entries # <<>> /\ session.base.chainHead = chainHead
    BY <1>3 DEF Parks, BaseCurrent
  <2>2. ProspectiveHead(slot) = <<>>
    BY <2>1 DEF ProspectiveHead, NoDigest
  <2>3. ProspectiveHead(BuiltGroup) = session.previous
    BY <1>1, <1>3, BuiltGroupContinues
  <2>4. SessionContinues(session, chainHead, nextIdentifier)
    BY <1>1 DEF Inv, Kept, SessionKept
  <2>5. /\ Chained(session.entries, chainHead, session.previous)
        /\ AllAdmitted(session.entries)
    BY <2>1, <2>4 DEF SessionContinues, SessionCurrent
  <2>6. /\ session.entries \in Seq(Entries) /\ session.previous \in Digests
        /\ chainHead \in Digests
    BY SessionFields DEF Inv, TypeOK
  <2>7. Promise!Continues(session.previous, chainHead)
    BY <2>1, <2>5, <2>6, ChainedIsPromised
  <2>8. ProspectiveHead(slot)' = session.previous
    BY <1>3, <2>3
  <2>9. QED  BY <1>1, <2>2, <2>7, <2>8 DEF Promise!Park
<1>4. QED  BY <1>1, <1>2, <1>3

\* The grant of a group is the abstract grant: the history becomes what the
\* parked group promised.
LEMMA GrantImplements == ASSUME Inv, Grants PROVE Promise!Materialize
<1> DEFINE head == ProspectiveHead(slot)
           last == slot.entries[Len(slot.entries)]
<1>1. Materialize
  BY DEF Grants, MaterializeStagedGroup
<1>2. /\ ContinuesChain(slot) /\ rows' = CanonicalView(rows, slot.entries)
      /\ chainHead' = EntryDigest(last) /\ slot' = NoGroup
  BY <1>1 DEF Materialize
<1>3. /\ slot.entries # <<>> /\ slot.entries \in Seq(Entries)
      /\ Chained(slot.entries, chainHead, head) /\ AllAdmitted(slot.entries)
      /\ EntryDigest(last) = head /\ head \in Digests
      /\ CanonicalView(rows, slot.entries) = ViewOf(head)
  BY <1>2, GrantedGroup
<1>4. chainHead \in Digests
  BY DEF Inv, TypeOK
<1>5. Promise!Continues(head, chainHead)
  BY <1>3, <1>4, ChainedIsPromised
<1>6. ProspectiveHead(slot)' = <<>>
  BY <1>2 DEF ProspectiveHead, NoDigest
<1>7. QED  BY <1>2, <1>3, <1>5, <1>6, PromiseOperators DEF Promise!Materialize

\* discard_staged_group is the abstract discard.
LEMMA DiscardImplements == ASSUME Inv, DiscardStagedGroup PROVE Promise!Discard
<1>1. /\ slot # NoGroup /\ slot' = NoGroup /\ UNCHANGED <<rows, chainHead>>
  BY DEF DiscardStagedGroup, logVars
<1>2. slot.entries # <<>> /\ slot.entries \in Seq(Entries)
  BY <1>1 DEF Inv, Kept, SlotKept, GroupContinues, TypeOK, Groups
<1> DEFINE last == slot.entries[Len(slot.entries)]
<1>3. last \in Entries
  <2>1. Len(slot.entries) \in 1 .. Len(slot.entries)
    BY <1>2, TailProperties
  <2>2. QED  BY <1>2, <2>1, ElementOfSeq
<1>4. Append(last.previous, last.body) # <<>>
  <2>1. last.previous \in Seq(Bodies) /\ last.body \in Bodies
    BY <1>3 DEF Entries, Digests
  <2>2. QED  BY <2>1, AppendOne
<1>5. ProspectiveHead(slot) # <<>> /\ ProspectiveHead(slot)' = <<>>
  BY <1>1, <1>4 DEF ProspectiveHead, EntryDigest, NoDigest
<1>6. QED  BY <1>1, <1>5 DEF Promise!Discard

\* Every step of the staging area is a step of GroupStore or a stutter.
LEMMA NextImplementsGroups == ASSUME Inv, [Next]_vars PROVE [Promise!Next]_Promise!vars
<1>1. CASE Trim \/ Quiet \/ \E sequence \in 1 .. MaxCommits : Acknowledge(sequence)
  <2>1. UNCHANGED <<rows, chainHead, slot>>
    BY <1>1 DEF Trim, Quiet, Acknowledge, logVars
  <2>2. QED  BY <2>1 DEF Promise!vars
<1>2. QED
  BY <1>1, StepKinds, DirectWriteImplements, ParkImplements, GrantImplements,
     DiscardImplements DEF Promise!Next, Inv

\* The staging area implements GroupStore: a parked group takes effect as a
\* whole, with exactly the head that was promised, or never, and every commit
\* of the history could have been made by itself.
THEOREM ImplementsGroupStore == Spec => ImplementsGroups
<1>1. Init => Promise!Init
  BY DEF Init, Promise!Init, ProspectiveHead, NoDigest, EmptyRows, Promise!EmptyRows
<1>2. Inv /\ [Next]_vars => [Promise!Next]_Promise!vars
  BY NextImplementsGroups
<1>3. QED  BY <1>1, <1>2, InvAlways, PTL DEF Spec, ImplementsGroups, Promise!Spec


-----------------------------------------------------------------------------
(* The phases of a compaction *)

\* A continuation of the current history passes the verification before
\* materialization.
LEMMA ChainedPassesVerification ==
  ASSUME NEW group \in Groups, group # NoGroup, NEW head \in Digests, NEW base \in Digests,
         base = chainHead, Chained(group.entries, base, head),
         marker = [sequence |-> Len(base), snapshot |-> Len(base)]
  PROVE  ContinuesChain(group)
<1> DEFINE entries == group.entries
<1>1. /\ entries \in Seq(Entries) /\ Len(entries) \in Nat /\ DOMAIN entries = 1 .. Len(entries)
      /\ Len(base) \in Nat /\ Len(head) = Len(base) + Len(entries)
      /\ DigestAt(head, Len(base)) = base
  BY LenProperties, EntriesOfProperties DEF Groups, Chained
<1>2. \A n \in DOMAIN entries :
        /\ entries[n].body = head[Len(base) + n]
        /\ entries[n].previous = DigestAt(head, Len(base) + n - 1)
        /\ entries[n].body.sequence = Len(base) + n
        /\ entries[n].body.snapshot = Len(base) + n
  BY DEF Chained
<1> HIDE DEF entries
<1>3. ASSUME NEW n \in DOMAIN entries
      PROVE  entries[n].previous = IF n = 1 THEN base ELSE EntryDigest(entries[n - 1])
  <2>1. CASE n = 1
    <3>1. Len(base) + n - 1 = Len(base)
      BY <1>1, <2>1
    <3>2. QED  BY <1>1, <1>2, <2>1, <3>1
  <2>2. CASE n # 1
    <3> DEFINE place == Len(base) + n - 1
    <3>1. /\ n - 1 \in DOMAIN entries /\ place \in 1 .. Len(head)
          /\ Len(base) + (n - 1) = place /\ Len(base) + (n - 1) - 1 = place - 1
      BY <1>1, <2>2
    <3>2. entries[n].previous = DigestAt(head, place)
      BY <1>2
    <3> HIDE DEF place
    <3>3. entries[n - 1].body = head[place] /\ entries[n - 1].previous = DigestAt(head, place - 1)
      <4>1. /\ entries[n - 1].body = head[Len(base) + (n - 1)]
            /\ entries[n - 1].previous = DigestAt(head, Len(base) + (n - 1) - 1)
        BY <1>2, <3>1
      <4>2. QED  BY <3>1, <4>1
    <3>4. Append(DigestAt(head, place - 1), head[place]) = DigestAt(head, place)
      BY <3>1, DigestAtProperties
    <3>5. QED  BY <2>2, <3>2, <3>3, <3>4 DEF EntryDigest
  <2>3. QED  BY <2>1, <2>2
<1>4. QED  BY <1>2, <1>3 DEF ContinuesChain, entries

\* While a compaction is pending and its owner resumes it first, no other call
\* is made.
LEMMA NoOtherCall ==
  ASSUME PhasesKept, MayCall
  PROVE  /\ intent = NoIntent /\ intent.phase = "None" /\ after # "settle"
         /\ step = "idle" /\ status = "open"
  BY DEF PhasesKept, MayCall, Ready, NoIntent

\* A step that leaves the history, the slot and the intent alone, and covers no
\* less, keeps what the intent says.
LEMMA TracksStep ==
  ASSUME Inv, PhasesKept, UNCHANGED <<chainHead, marker, slot, intent>>,
         covered' \in {covered, Len(chainHead)}
  PROVE  IntentTracksPlan'
<1>1. /\ IntentTracksPlan /\ covered <= Len(chainHead) /\ covered \in Nat
      /\ Len(chainHead) \in Nat /\ DOMAIN chainHead = 1 .. Len(chainHead)
      /\ intent.final \in Nat
  BY EntriesOfProperties DEF PhasesKept, Inv, Kept, HistoryKept, TypeOK, Intents
<1>2. (intent.phase = "Planned" => ContinuesChain(slot))'
  BY <1>1 DEF IntentTracksPlan, ContinuesChain
<1>3. covered >= intent.final => covered' >= intent.final
  BY <1>1
<1>4. QED  BY <1>1, <1>2, <1>3 DEF IntentTracksPlan

\* With no intent there is nothing to track.
LEMMA NothingToTrack ==
  ASSUME intent' = NoIntent
  PROVE  IntentTracksPlan'
  BY DEF IntentTracksPlan, NoIntent

\* The owner's calls
LEMMA CallPhases ==
  ASSUME Inv, PhasesKept, MayCall,
         intent' = intent, status' = status,
         \/ UNCHANGED <<step, after>>
         \/ step' = "maintain" /\ after' = "return"
  PROVE  PhasesKept'
<1>1. /\ intent = NoIntent /\ intent.phase = "None" /\ after # "settle"
      /\ step = "idle" /\ status = "open"
  BY NoOtherCall
<1>2. IntentTracksPlan'
  BY <1>1, NothingToTrack
<1>3. /\ after' # "settle" /\ step' # "settle" /\ status' # "closed"
      /\ intent' = NoIntent /\ intent'.phase = "None"
  BY <1>1
<1>4. QED  BY <1>2, <1>3 DEF PhasesKept

\* park_compaction
LEMMA ParkCompactionPhases == ASSUME Inv, PhasesKept, ParkCompaction PROVE PhasesKept'
<1>1. /\ MayCall /\ session.engaged /\ session' = NoSession
      /\ UNCHANGED <<logVars, historyVars, callVars>>
      /\ \/ intent' = intent
         \/ Parks /\ slot' = BuiltGroup /\ intent' = Planned
  BY DEF ParkCompaction
<1>2. CASE intent' = intent
  BY <1>1, <1>2, CallPhases DEF callVars
<1>3. CASE Parks /\ slot' = BuiltGroup /\ intent' = Planned
  <2>1. /\ BuiltGroup \in Groups /\ BuiltGroup # NoGroup
        /\ GroupBase(BuiltGroup) = chainHead
        /\ ProspectiveHead(BuiltGroup) = session.previous
        /\ GroupContinues(BuiltGroup, chainHead, nextIdentifier)
    BY <1>1, <1>3, BuiltGroupContinues
  <2>2. /\ Chained(BuiltGroup.entries, chainHead, session.previous)
    BY <2>1 DEF GroupContinues
  <2>3. /\ chainHead \in Digests /\ session.previous \in Digests
        /\ marker = [sequence |-> Len(chainHead), snapshot |-> Len(chainHead)]
    BY SessionFields DEF Inv, TypeOK, Kept, HistoryKept, CountersExact
  <2>4. ContinuesChain(BuiltGroup)
    BY <2>1, <2>2, <2>3, ChainedPassesVerification
  <2>5. ContinuesChain(slot)'
    BY <1>1, <1>3, <2>4 DEF ContinuesChain, logVars
  <2>6. intent'.phase = "Planned" /\ intent' = Planned
    BY <1>3 DEF Planned
  <2>7. IntentTracksPlan'
    BY <2>5, <2>6 DEF IntentTracksPlan
  <2>8. /\ after # "settle" /\ step = "idle" /\ status = "open"
    BY <1>1, NoOtherCall
  <2>9. /\ after' # "settle" /\ step' # "settle" /\ status' # "closed"
    BY <1>1, <2>8 DEF callVars
  <2>10. ~session'.engaged
    BY <1>1, NoSessionType
  <2>11. QED  BY <2>6, <2>7, <2>9, <2>10 DEF PhasesKept
<1>4. QED  BY <1>1, <1>2, <1>3

\* A call that ends, the history and the intent as they were, with nothing over
\* budget if a compaction is to be settled.
LEMMA EndPhases ==
  ASSUME Inv, PhasesKept, NEW succeeds \in BOOLEAN, CallEnds(succeeds),
         status # "closed", IntentTracksPlan', intent' # NoIntent => ~session'.engaged,
         intent'.phase = "None" => intent' = NoIntent,
         intent'.phase = "Planned" => intent' = Planned,
         succeeds => ~OverBudget' /\ intent' = intent
  PROVE  PhasesKept'
<1>1. /\ after' = "return"
      /\ step' = IF succeeds /\ after = "settle" THEN "settle" ELSE "idle"
      /\ status' = "closed" => step' = "idle"
  BY DEF CallEnds
<1>2. step' = "settle" => intent'.phase = "Checkpointed" /\ ~OverBudget'
  BY <1>1 DEF PhasesKept
<1>3. QED  BY <1>1, <1>2 DEF PhasesKept

\* The maintenance
LEMMA MaintainPhases == ASSUME Inv, PhasesKept, Maintain PROVE PhasesKept'
<1>1. /\ step = "maintain" /\ UNCHANGED <<logVars, floor, cursor, slot, intent, session>>
      /\ covered' \in {covered, Len(chainHead)}
  BY DEF Maintain
<1>2. IntentTracksPlan' /\ status # "closed"
  BY <1>1, TracksStep DEF logVars, PhasesKept
<1>3. /\ intent' # NoIntent => ~session'.engaged
      /\ intent'.phase = "None" => intent' = NoIntent
      /\ intent'.phase = "Planned" => intent' = Planned
  BY <1>1 DEF PhasesKept
<1>4. ASSUME CallEnds(TRUE), ~OverBudget PROVE PhasesKept'
  <2>1. ~OverBudget'
    BY <1>1, <1>4 DEF OverBudget, logVars
  <2>2. QED  BY <1>1, <1>2, <1>3, <1>4, <2>1, EndPhases
<1>5. ASSUME CallEnds(FALSE) PROVE PhasesKept'
  BY <1>2, <1>3, <1>5, EndPhases
<1>6. ASSUME step' = "trim", UNCHANGED <<status, after>>,
             covered >= CurrentSequence \/ covered' = Len(chainHead),
             covered' = covered \/ covered' = Len(chainHead)
      PROVE  PhasesKept'
  <2>1. ASSUME after = "settle" PROVE covered' >= Len(chainHead)
    <3>1. Len(chainHead) \in Nat /\ marker.sequence = Len(chainHead)
      BY EntriesOfProperties DEF Inv, TypeOK, Kept, HistoryKept, CountersExact
    <3>2. intent.phase = "Checkpointed"
      BY <2>1 DEF PhasesKept
    <3>3. intent # NoIntent
      BY <3>2 DEF NoIntent
    <3>4. CurrentSequence = Len(chainHead)
      BY <3>1, <3>3 DEF CurrentSequence, PhasesKept
    <3>5. QED  BY <1>6, <3>1, <3>4
  <2>2. after' = "settle" => intent'.phase = "Checkpointed" /\ covered' >= Len(chainHead')
    BY <1>1, <1>6, <2>1 DEF PhasesKept, logVars
  <2>3. QED  BY <1>1, <1>2, <1>3, <1>6, <2>2 DEF PhasesKept
<1>7. \/ CallEnds(TRUE) /\ ~OverBudget
      \/ CallEnds(FALSE)
      \/ /\ step' = "trim" /\ UNCHANGED <<status, after>>
         /\ covered >= CurrentSequence \/ covered' = Len(chainHead)
  BY DEF Maintain
<1>8. QED  BY <1>1, <1>4, <1>5, <1>6, <1>7

\* The compaction's transaction
LEMMA TrimPhases == ASSUME Inv, PhasesKept, Trim PROVE PhasesKept'
<1>1. /\ step = "trim"
      /\ UNCHANGED <<rows, chainHead, marker, nextIdentifier, covered, cursor,
                     slot, intent, session>>
  BY DEF Trim
<1>2. IntentTracksPlan' /\ status # "closed"
  BY <1>1, TracksStep DEF PhasesKept
<1>3. /\ intent' # NoIntent => ~session'.engaged
      /\ intent'.phase = "None" => intent' = NoIntent
      /\ intent'.phase = "Planned" => intent' = Planned
  BY <1>1 DEF PhasesKept
<1>4. CASE CallEnds(FALSE)
  BY <1>2, <1>3, <1>4, EndPhases
<1>5. CASE CallEnds(TRUE) /\ floor' = covered /\ after = "settle"
  <2>1. covered >= Len(chainHead) /\ Len(chainHead) \in Nat /\ covered \in Nat
    BY <1>1, <1>5, EntriesOfProperties DEF PhasesKept, Inv, TypeOK
  <2>2. ~(Len(chainHead') - floor' > Budget)
    BY <1>1, <1>5, <2>1, OwnerAssumption
  <2>3. ~OverBudget'
    BY <2>2 DEF OverBudget
  <2>4. QED  BY <1>1, <1>2, <1>3, <1>5, <2>3, EndPhases
<1>6. CASE CallEnds(TRUE) /\ after # "settle"
  <2>1. /\ after' = "return" /\ step' = "idle"
    BY <1>6 DEF CallEnds
  <2>2. QED  BY <1>2, <1>3, <2>1 DEF PhasesKept
<1>7. CallEnds(FALSE) \/ (CallEnds(TRUE) /\ floor' = covered)
  BY DEF Trim
<1>8. QED  BY <1>4, <1>5, <1>6, <1>7

\* What materialization makes of an intent.
LEMMA GrantedIntent ==
  ASSUME Inv, PhasesKept, Materialize, intent.phase = "Planned"
  PROVE  /\ intent = Planned /\ intent' = Applied(Len(chainHead'))
         /\ chainHead' = ProspectiveHead(slot) /\ slot' = NoGroup
         /\ Len(chainHead') \in DOMAIN chainHead' /\ ~session'.engaged
<1> DEFINE last == slot.entries[Len(slot.entries)]
           head == ProspectiveHead(slot)
<1>1. /\ ContinuesChain(slot) /\ chainHead' = EntryDigest(last)
      /\ intent' = IntentAfter(slot) /\ slot' = NoGroup
      /\ ~session.engaged /\ session' = session
  BY DEF Materialize
<1>2. /\ EntryDigest(last) = head /\ head \in Digests
      /\ last.body.sequence = Len(head)
      /\ Len(head) = Len(chainHead) + Len(slot.entries)
      /\ Len(slot.entries) \in Nat /\ Len(slot.entries) >= 1
  BY <1>1, GrantedGroup
<1>3. /\ Len(chainHead) \in Nat /\ DOMAIN head = 1 .. Len(head)
  BY <1>2, EntriesOfProperties DEF Inv, TypeOK
<1>4. Len(head) \in DOMAIN head
  BY <1>2, <1>3
<1>5. intent' = Applied(Len(head))
  BY <1>1, <1>2 DEF IntentAfter
<1>6. intent = Planned
  BY DEF PhasesKept
<1>7. QED  BY <1>1, <1>2, <1>4, <1>5, <1>6

\* Planned: resume_compaction materializes.
LEMMA ApplyPhases == ASSUME Inv, PhasesKept, ApplyPlan PROVE PhasesKept'
<1>1. step = "resume" /\ intent.phase = "Planned" /\ after # "settle" /\ status # "closed"
  BY DEF ApplyPlan, PhasesKept
<1>2. CASE Materialize /\ (UNCHANGED callVars \/ CallEnds(FALSE))
  <2>1. /\ intent' = Applied(Len(chainHead')) /\ slot' = NoGroup
        /\ Len(chainHead') \in DOMAIN chainHead' /\ ~session'.engaged
    BY <1>1, <1>2, GrantedIntent
  <2>2. /\ intent'.phase = "Applied" /\ intent'.final = Len(chainHead')
    BY <2>1 DEF Applied
  <2>3. IntentTracksPlan'
    BY <2>1, <2>2 DEF IntentTracksPlan
  <2>4. CASE UNCHANGED callVars
    BY <1>1, <2>1, <2>2, <2>3, <2>4 DEF PhasesKept, callVars
  <2>5. CASE CallEnds(FALSE)
    BY <1>1, <2>1, <2>2, <2>3, <2>5, EndPhases
  <2>6. QED  BY <1>2, <2>4, <2>5
<1>3. CASE CallEnds(FALSE) /\ UNCHANGED <<logVars, historyVars, slot, intent, session>>
  <2>1. IntentTracksPlan'
    BY <1>3, TracksStep DEF logVars, historyVars
  <2>2. /\ intent' # NoIntent => ~session'.engaged
        /\ intent'.phase = "None" => intent' = NoIntent
        /\ intent'.phase = "Planned" => intent' = Planned
    BY <1>3 DEF PhasesKept
  <2>3. QED  BY <1>1, <1>3, <2>1, <2>2, EndPhases
<1>4. QED  BY <1>2, <1>3 DEF ApplyPlan

\* The other steps of resume_compaction
LEMMA ResumePhases ==
  ASSUME Inv, PhasesKept,
         NothingPending \/ CheckpointPlan \/ PublishCheckpoint \/ AdvanceFloor \/ Settle
  PROVE  PhasesKept'
<1>1. after # "settle" /\ status # "closed"
  BY DEF PhasesKept, NothingPending, CheckpointPlan, PublishCheckpoint, AdvanceFloor, Settle
<1>2. CASE NothingPending
  <2>1. intent' = NoIntent /\ intent = NoIntent /\ session' = session
    BY <1>2 DEF NothingPending
  <2>2. /\ after' # "settle" /\ step' # "settle" /\ status' # "closed"
    BY <1>1, <1>2 DEF NothingPending, ResumeEnds, ThenMaintain
  <2>3. QED  BY <2>1, <2>2, NothingToTrack DEF PhasesKept, NoIntent
<1>3. CASE CheckpointPlan
  <2>1. /\ UNCHANGED <<chainHead, marker, slot, intent, session, status, step, after>>
        /\ covered' = Len(chainHead) /\ step = "resume"
    BY <1>3 DEF CheckpointPlan, logVars, callVars
  <2>2. IntentTracksPlan'
    BY <2>1, TracksStep
  <2>3. QED  BY <1>1, <2>1, <2>2 DEF PhasesKept
<1>4. CASE PublishCheckpoint
  <2>1. /\ intent.phase = "Applied" /\ covered >= intent.final /\ step = "resume"
        /\ intent' = Checkpointed(intent.final)
        /\ UNCHANGED <<chainHead, covered, slot, session, status, step, after>>
    BY <1>4 DEF PublishCheckpoint, CheckpointCoversPlan, logVars, historyVars, callVars
  <2>2. intent'.phase = "Checkpointed" /\ intent'.final = intent.final
    BY <2>1 DEF Checkpointed
  <2>3. IntentTracksPlan'
    BY <2>1, <2>2 DEF IntentTracksPlan, PhasesKept
  <2>4. ~session.engaged
    BY <2>1 DEF PhasesKept, NoIntent
  <2>5. QED  BY <1>1, <2>1, <2>2, <2>3, <2>4 DEF PhasesKept
<1>5. CASE AdvanceFloor
  <2>1. /\ intent.phase = "Checkpointed" /\ step' = "maintain" /\ after' = "settle"
        /\ UNCHANGED <<chainHead, marker, covered, slot, intent, session, status>>
    BY <1>5 DEF AdvanceFloor, ThenMaintain, logVars, historyVars
  <2>2. IntentTracksPlan'
    BY <2>1, TracksStep
  <2>3. QED  BY <1>1, <2>1, <2>2 DEF PhasesKept
<1>6. CASE Settle
  <2>1. intent' = NoIntent
    BY <1>6 DEF Settle
  <2>2. /\ after' # "settle" /\ step' # "settle" /\ status' # "closed"
    BY <1>1, <1>6 DEF Settle, ResumeEnds, ThenMaintain
  <2>3. QED  BY <2>1, <2>2, NothingToTrack DEF PhasesKept, NoIntent
<1>7. QED  BY <1>2, <1>3, <1>4, <1>5, <1>6

\* Opening, crashing, acknowledging and asking to resume
LEMMA ReopenPhases ==
  ASSUME Inv, PhasesKept,
         \/ ResumeCompaction \/ Open \/ OpenRecovering \/ Crash
         \/ \E sequence \in 1 .. MaxCommits : Acknowledge(sequence)
         \/ UNCHANGED vars
  PROVE  PhasesKept'
<1>1. /\ UNCHANGED <<chainHead, marker, floor, covered, slot, intent>>
      /\ session' \in {session, NoSession}
  BY DEF ResumeCompaction, Open, OpenRecovering, Crash, Acknowledge, vars, logVars, historyVars
<1>2. IntentTracksPlan'
  BY <1>1, TracksStep
<1>3. intent' # NoIntent => ~session'.engaged
  BY <1>1, NoSessionType DEF PhasesKept
<1>4. \/ UNCHANGED <<status, step, after>>
      \/ step' # "settle" /\ after' # "settle" /\ status' # "closed"
      \/ step' = "idle" /\ after' = "return"
  BY DEF ResumeCompaction, Open, OpenRecovering, Crash, Acknowledge, vars, callVars, Ready,
         PhasesKept
<1>5. OverBudget' <=> OverBudget
  BY <1>1 DEF OverBudget
<1>6. QED  BY <1>1, <1>2, <1>3, <1>4, <1>5 DEF PhasesKept

\* Every step.
LEMMA NextPhases == ASSUME Inv, PhasesKept, [Next]_vars PROVE PhasesKept'
<1>1. CASE \/ DirectWrite \/ BufferedWrite \/ BeginStagedGroup \/ BeginCompaction
           \/ Abandon \/ ParkStagedGroup \/ DiscardStagedGroup \/ CallMaintain
           \/ MaterializeStagedGroup
  <2>1. MayCall /\ status' = status
    BY <1>1 DEF DirectWrite, Write, WriteAtomic, WriteAssertIdentified, WriteMutateIdentified,
         WriteRetractIdentified, BufferedWrite, Buffer, BufferAssertIdentified,
         BufferMutateIdentified, BufferRetractIdentified, InSession, BeginStagedGroup,
         BeginCompaction, Begin, Abandon, ParkStagedGroup, DiscardStagedGroup, CallMaintain,
         MaterializeStagedGroup, callVars
  <2>2. intent = NoIntent /\ intent.phase = "None"
    BY <2>1, NoOtherCall
  <2>3. intent' = intent
    BY <1>1, <2>2
    DEF DirectWrite, Write, WriteAtomic, WriteAssertIdentified, WriteMutateIdentified,
        WriteRetractIdentified, CommitDirectly, BufferedWrite, Buffer, BufferAssertIdentified,
        BufferMutateIdentified, BufferRetractIdentified, InSession, BeginStagedGroup,
        BeginCompaction, Begin, Abandon, ParkStagedGroup, DiscardStagedGroup, CallMaintain,
        MaterializeStagedGroup, Materialize, IntentAfter
  <2>4. UNCHANGED <<step, after>> \/ (step' = "maintain" /\ after' = "return")
    BY <1>1 DEF DirectWrite, Write, WriteAtomic, WriteAssertIdentified, WriteMutateIdentified,
         WriteRetractIdentified, BufferedWrite, Buffer, BufferAssertIdentified,
         BufferMutateIdentified, BufferRetractIdentified, InSession, BeginStagedGroup,
         BeginCompaction, Begin, Abandon, ParkStagedGroup, DiscardStagedGroup, CallMaintain,
         MaterializeStagedGroup, callVars, ThenMaintain
  <2>5. QED  BY <2>1, <2>3, <2>4, CallPhases
<1>2. CASE Proceed
  BY <1>2, MaintainPhases, TrimPhases, ApplyPhases, ResumePhases DEF Proceed
<1>3. CASE ParkCompaction
  BY <1>3, ParkCompactionPhases
<1>4. CASE \/ ResumeCompaction \/ Open \/ OpenRecovering \/ Crash
           \/ \E sequence \in 1 .. MaxCommits : Acknowledge(sequence)
           \/ UNCHANGED vars
  BY <1>4, ReopenPhases
<1>5. QED  BY <1>1, <1>2, <1>3, <1>4 DEF Next

\* The phases are kept by every behaviour of such an owner.
LEMMA PhasesAlways == ResumesFirst /\ Spec => []PhasesKept
<1>1. ResumesFirst /\ Init => PhasesKept
  BY NoSessionType DEF Init, PhasesKept, IntentTracksPlan, NoIntent
<1>2. Inv /\ PhasesKept /\ [Next]_vars => PhasesKept'
  BY NextPhases
<1>3. QED  BY <1>1, <1>2, InvAlways, PTL DEF Spec


\* A compaction whose owner resumes it before any other call: planned, it is
\* parked and can materialize; applied, it is in the history; checkpointed, a
\* checkpoint covers it.  A crash or a failed call may come between any two.
THEOREM IntentAlwaysTracksPlan == ResumesFirst /\ Spec => []IntentTracksPlan
  BY PhasesAlways, PTL DEF PhasesKept

\* The intent changes in four ways, each when what it then records is so.
LEMMA IntentStep ==
  ASSUME Inv, PhasesKept, [Next]_vars, intent' # intent
  PROVE  \/ intent = NoIntent /\ intent' = Planned
         \/ /\ intent = Planned /\ intent' = Applied(Len(chainHead'))
            /\ chainHead' = ProspectiveHead(slot)
         \/ /\ intent.phase = "Applied" /\ intent' = Checkpointed(intent.final)
            /\ covered >= intent.final
         \/ /\ intent.phase = "Checkpointed" /\ intent' = NoIntent
            /\ ~OverBudget
<1>1. \/ ParkCompaction \/ ApplyPlan \/ PublishCheckpoint \/ Settle \/ MaterializeStagedGroup
  <2>1. CASE DirectWrite
    BY <2>1 DEF DirectWrite, Write, WriteAtomic, WriteAssertIdentified, WriteMutateIdentified,
         WriteRetractIdentified, CommitDirectly
  <2>2. CASE BufferedWrite
    BY <2>2 DEF BufferedWrite, Buffer, BufferAssertIdentified, BufferMutateIdentified,
         BufferRetractIdentified, InSession
  <2>3. CASE BeginStagedGroup \/ BeginCompaction \/ Abandon \/ ParkStagedGroup
             \/ DiscardStagedGroup \/ CallMaintain \/ ResumeCompaction
    BY <2>3 DEF BeginStagedGroup, BeginCompaction, Begin, Abandon, ParkStagedGroup,
         DiscardStagedGroup, CallMaintain, ResumeCompaction
  <2>4. CASE Maintain \/ Trim \/ NothingPending \/ CheckpointPlan \/ AdvanceFloor
    BY <2>4 DEF Maintain, Trim, NothingPending, CheckpointPlan, AdvanceFloor
  <2>5. CASE Open \/ OpenRecovering \/ Crash \/ UNCHANGED vars
             \/ \E sequence \in 1 .. MaxCommits : Acknowledge(sequence)
    BY <2>5 DEF Open, OpenRecovering, Crash, Acknowledge, vars
  <2>6. QED  BY <2>1, <2>2, <2>3, <2>4, <2>5 DEF Next, Proceed
<1>2. CASE ParkCompaction
  BY <1>2 DEF ParkCompaction
<1>3. CASE ApplyPlan
  <2>1. Materialize /\ intent.phase = "Planned"
    BY <1>3 DEF ApplyPlan
  <2>2. QED  BY <2>1, GrantedIntent
<1>4. CASE PublishCheckpoint
  BY <1>4 DEF PublishCheckpoint, CheckpointCoversPlan
<1>5. CASE Settle
  BY <1>5 DEF Settle, PhasesKept
<1>6. CASE MaterializeStagedGroup
  <2>1. intent.phase = "None"
    BY <1>6, NoOtherCall DEF MaterializeStagedGroup
  <2>2. intent' = intent
    BY <1>6, <2>1 DEF MaterializeStagedGroup, Materialize, IntentAfter
  <2>3. QED  BY <2>2
<1>7. QED  BY <1>1, <1>2, <1>3, <1>4, <1>5, <1>6

\* The durable intent goes through its phases in order: planned with the plan,
\* applied in the very transaction that materializes it and to the head it
\* promised, checkpointed when a checkpoint covers it, and cleared when the
\* history is within its budget.
THEOREM IntentStaysInOrder == ResumesFirst /\ Spec => IntentGoesThroughPhases
<1>1. Inv /\ PhasesKept /\ [Next]_vars =>
        [intent' # intent =>
           \/ intent = NoIntent /\ intent' = Planned
           \/ /\ intent = Planned /\ intent' = Applied(Len(chainHead'))
              /\ chainHead' = ProspectiveHead(slot)
           \/ /\ intent.phase = "Applied" /\ intent' = Checkpointed(intent.final)
              /\ covered >= intent.final
           \/ /\ intent.phase = "Checkpointed" /\ intent' = NoIntent
              /\ ~OverBudget]_vars
  BY IntentStep
<1>2. QED  BY <1>1, PhasesAlways, InvAlways, PTL DEF Spec, IntentGoesThroughPhases

=============================================================================
