--------------------------- MODULE WritePathSafety ---------------------------
(***************************************************************************)
(* The safety theorems of WritePath, each for any number of threads and    *)
(* any history: the write lock keeps what a writer read current until it   *)
(* commits, so the digest chain, the counts and the rows always agree; the *)
(* mirror cursor stays on the chain; nothing unconfirmed is dropped; and   *)
(* the engine implements the serial store of CommitStore.                  *)
(***************************************************************************)
EXTENDS WritePathProofs

-----------------------------------------------------------------------------
(* The inductive invariant *)

\* A planned entry is for a list some client submitted.
PlanSubmitted ==
  \A w \in Writers :
    pc[w] = "persist" => plan[w].entry.body.operations \in Batches

\* The parts lean on each other: a plan is current because the lock is held;
\* committing a current plan keeps the log on the chain, the counts exact and
\* the rows the chain's view; and a head is acknowledged by comparing it with
\* a log that is on the chain.
Safe ==
  /\ PlanCurrent
  /\ PlanSubmitted
  /\ LogIntact
  /\ CountsExact
  /\ RowsAreView
  /\ CursorOnChain

\* An opened store is safe.
LEMMA InitSafe == Init => Safe
<1> SUFFICES ASSUME Init PROVE Safe
  OBVIOUS
<1>1. /\ Len(LegacyHistory) = Len(Legacy) /\ Len(Legacy) \in Nat
      /\ DOMAIN LegacyHistory = 1 .. Len(Legacy)
      /\ DOMAIN EntriesOf(LegacyHistory) = 1 .. Len(Legacy)
      /\ LegacyHistory \in Digests
  BY LegacyHistoryType, EntriesOfProperties
<1>2. PlanCurrent /\ PlanSubmitted
  BY DEF Init, PlanCurrent, PlanSubmitted
<1>3. LogIntact
  <2>1. ASSUME NEW n \in 1 .. Len(Legacy)
        PROVE  EntryDigest(EntriesOf(LegacyHistory)[n]) = DigestAt(LegacyHistory, n)
    <3>1. /\ EntriesOf(LegacyHistory)[n].body = LegacyHistory[n]
          /\ EntriesOf(LegacyHistory)[n].previous = DigestAt(LegacyHistory, n - 1)
      BY <1>1, EntriesOfProperties
    <3>2. Append(DigestAt(LegacyHistory, n - 1), LegacyHistory[n])
            = DigestAt(LegacyHistory, n)
      BY <1>1, DigestAtProperties
    <3>3. QED  BY <3>1, <3>2 DEF EntryDigest
  <2>2. /\ versionedLog = EntriesOf(LegacyHistory) /\ chainHead = LegacyHistory
        /\ marker = [sequence |-> Len(Legacy), snapshot |-> Len(Legacy)]
    BY DEF Init
  <2>3. QED  BY <1>1, <2>1, <2>2 DEF LogIntact
<1>4. CountsExact
  <2>1. Cardinality(1 .. Len(Legacy)) = Len(Legacy)
    <3> DEFINE length == Len(Legacy)
    <3>1. 1 \in Int /\ length \in Int /\ length \in Nat
      BY <1>1
    <3> HIDE DEF length
    <3>2. Cardinality(1 .. length)
            = IF 1 > length THEN 0 ELSE length - 1 + 1
      BY <3>1, FS_Interval
    <3>3. Cardinality(1 .. length) = length
      BY <3>1, <3>2
    <3>4. QED  BY <3>3 DEF length
  <2>2. QED  BY <1>1, <2>1, LegacyHistoryType DEF Init, CountsExact
<1>5. RowsAreView
  BY DEF Init, RowsAreView
<1>6. CursorOnChain
  BY <1>1, DigestAtProperties DEF Init, CursorOnChain, NoHead
<1>7. QED  BY <1>2, <1>3, <1>4, <1>5, <1>6 DEF Safe

(* A step that touches neither the logs nor the cursor and starts or changes *)
(* no write keeps everything: calls and their reads, refusals, failures,     *)
(* checkpoints and crashes.                                                  *)
LEMMA QuietStepSafe ==
  ASSUME Safe, UNCHANGED logVars, UNCHANGED cursor,
         \A w \in Writers : pc'[w] = "persist" =>
           pc[w] = "persist" /\ lock' = lock /\ plan'[w] = plan[w]
  PROVE  Safe'
<1>1. UNCHANGED <<rows, commitLog, versionedLog, chainHead, marker, counts, cursor>>
  BY DEF logVars
<1>2. PlanCurrent'
  <2> SUFFICES ASSUME NEW w \in Writers, pc'[w] = "persist"
               PROVE  /\ lock' = w
                      /\ plan'[w] = [entry |-> Mint(plan[w].entry.body.operations)',
                                     counts |-> counts']
                      /\ Admitted(plan'[w].entry.body.operations, rows')
    BY DEF PlanCurrent
  <2>1. pc[w] = "persist" /\ lock' = lock /\ plan'[w] = plan[w]
    OBVIOUS
  <2>2. /\ lock = w
        /\ plan[w] = [entry |-> Mint(plan[w].entry.body.operations), counts |-> counts]
        /\ Admitted(plan[w].entry.body.operations, rows)
    BY <2>1 DEF Safe, PlanCurrent
  <2>3. Mint(plan[w].entry.body.operations)' = Mint(plan[w].entry.body.operations)
    BY <1>1, <2>1 DEF Mint
  <2>4. QED  BY <1>1, <2>1, <2>2, <2>3
<1>3. PlanSubmitted'
  BY DEF Safe, PlanSubmitted
<1>4. LogIntact' /\ CountsExact' /\ RowsAreView' /\ CursorOnChain'
  BY <1>1 DEF Safe, LogIntact, CountsExact, RowsAreView, CursorOnChain
<1>5. QED  BY <1>2, <1>3, <1>4 DEF Safe

-----------------------------------------------------------------------------
(* The steps that are not quiet *)

\* What a write minted under the lock, in terms of the chain it extends.
LEMMA PlanExtendsChain ==
  ASSUME TypeOK, Safe, NEW w \in Writers, pc[w] = "persist"
  PROVE  LET entry == plan[w].entry
         IN  /\ lock = w
             /\ entry.previous = chainHead
             /\ entry.body \in Bodies
             /\ entry.body.sequence = Len(chainHead) + 1
             /\ entry.body.snapshot = Len(chainHead) + 1
             /\ plan[w].counts = counts
             /\ Admitted(entry.body.operations, rows)
<1> DEFINE operations == plan[w].entry.body.operations
<1>1. /\ lock = w
      /\ plan[w] = [entry |-> Mint(operations), counts |-> counts]
      /\ Admitted(operations, rows)
  BY DEF Safe, PlanCurrent
<1>2. marker.sequence = Len(chainHead) /\ marker.snapshot = Len(chainHead)
  BY DEF Safe, LogIntact
<1>3. plan[w].entry.body \in Bodies
  BY DEF TypeOK, ThreadTypeOK, Plans, Entries
<1>4. /\ plan[w].entry = Mint(operations)
      /\ plan[w].counts = counts
  BY <1>1
<1> HIDE DEF operations
<1>5. /\ Mint(operations).previous = chainHead
      /\ Mint(operations).body.sequence = Len(chainHead) + 1
      /\ Mint(operations).body.snapshot = Len(chainHead) + 1
  BY <1>2 DEF Mint
<1>6. QED  BY <1>1, <1>3, <1>4, <1>5 DEF operations

\* While the lock is free, nothing is planned.
LEMMA NothingPlanned ==
  ASSUME Safe, lock = NoWriter
  PROVE  \A w \in Writers : pc[w] # "persist"
  BY WritersAssumption DEF Safe, PlanCurrent

\* Validating and minting under the lock keeps the store safe.
LEMMA PrepareSafe ==
  ASSUME TypeOK, Safe, NEW w \in Writers, NEW operations \in Batches,
         Prepare(w, operations)
  PROVE  Safe'
<1>1. UNCHANGED <<rows, commitLog, versionedLog, chainHead, marker, counts, cursor>>
  BY DEF Prepare, durableVars, logVars, mirrorVars
<1>2. /\ lock' = w /\ pc' = [pc EXCEPT ![w] = "persist"]
      /\ plan' = [plan EXCEPT ![w] = [entry |-> Mint(operations), counts |-> counts]]
      /\ Admitted(operations, rows)
      /\ \A v \in Writers : pc[v] # "persist"
  BY NothingPlanned DEF Prepare
<1>3. /\ plan'[w] = [entry |-> Mint(operations), counts |-> counts]
      /\ \A v \in Writers : pc'[v] = "persist" => v = w
  BY <1>2 DEF TypeOK, ThreadTypeOK
<1>4. plan'[w].entry = Mint(operations) /\ Mint(operations).body.operations = operations
  BY <1>3 DEF Mint
<1>5. PlanCurrent'
  <2>1. Mint(operations)' = Mint(operations)
    BY <1>1 DEF Mint
  <2> SUFFICES ASSUME NEW v \in Writers, pc'[v] = "persist"
               PROVE  /\ lock' = v
                      /\ plan'[v] = [entry |-> Mint(plan[v].entry.body.operations)',
                                     counts |-> counts']
                      /\ Admitted(plan'[v].entry.body.operations, rows')
    BY DEF PlanCurrent
  <2>2. v = w /\ plan'[v].entry.body.operations = operations
    BY <1>3, <1>4
  <2>3. Mint(plan[v].entry.body.operations)' = Mint(operations)
    BY <1>1, <2>2 DEF Mint
  <2>4. QED  BY <1>1, <1>2, <1>3, <2>2, <2>3
<1>6. PlanSubmitted'
  BY <1>3, <1>4 DEF PlanSubmitted
<1>7. LogIntact' /\ CountsExact' /\ RowsAreView' /\ CursorOnChain'
  BY <1>1 DEF Safe, LogIntact, CountsExact, RowsAreView, CursorOnChain
<1>8. QED  BY <1>5, <1>6, <1>7 DEF Safe

\* The heart of it: the transaction of a current plan.
LEMMA PersistSafe ==
  ASSUME TypeOK, Safe, NEW w \in Writers, Persist(w)
  PROVE  Safe'
<1> DEFINE entry == plan[w].entry
           body == entry.body
           last == Len(chainHead) + 1
<1>1. pc[w] = "persist"
  BY DEF Persist
<1>2. /\ lock = w /\ entry.previous = chainHead
      /\ body \in Bodies /\ body.sequence = last /\ body.snapshot = last
      /\ plan[w].counts = counts
  BY <1>1, PlanExtendsChain
<1>3. /\ rows' = Apply(body.operations, rows)
      /\ commitLog' = commitLog \cup {last}
      /\ versionedLog' = [n \in DOMAIN versionedLog \cup {last} |->
                            IF n = last THEN entry ELSE versionedLog[n]]
      /\ chainHead' = Append(chainHead, body)
      /\ marker' = [sequence |-> last, snapshot |-> last]
      /\ counts' = [commits |-> counts.commits + 1,
                    versioned |-> counts.versioned + 1]
      /\ pc' = [pc EXCEPT ![w] = "budget"]
      /\ cursor' = cursor
  BY <1>2 DEF Persist, EntryDigest
<1>4. /\ chainHead \in Digests /\ Len(chainHead) \in Nat
      /\ DOMAIN chainHead = 1 .. Len(chainHead)
  BY EntriesOfProperties DEF TypeOK, DurableTypeOK
<1> HIDE DEF body
<1>5. /\ chainHead' \in Digests /\ Len(chainHead') = last
      /\ DOMAIN chainHead' = 1 .. last
      /\ \A n \in 0 .. Len(chainHead) :
           DigestAt(chainHead', n) = DigestAt(chainHead, n)
  <2>1. Append(chainHead, body) \in Digests
    BY <1>2, <1>4, AppendKeepsDigests
  <2>2. QED  BY <1>2, <1>3, <1>4, <2>1, AppendKeepsDigests, EntriesOfProperties
<1>6. PlanCurrent' /\ PlanSubmitted'
  <2>1. \A v \in Writers : pc'[v] # "persist"
    <3>1. \A v \in Writers : pc[v] = "persist" => v = w
      BY <1>2 DEF Safe, PlanCurrent
    <3>2. QED  BY <1>3, <3>1 DEF TypeOK, ThreadTypeOK
  <2>2. QED  BY <2>1 DEF PlanCurrent, PlanSubmitted
<1>7. LogIntact'
  <2>1. ASSUME NEW n \in DOMAIN versionedLog'
        PROVE  /\ n \in DOMAIN chainHead'
               /\ EntryDigest(versionedLog'[n]) = DigestAt(chainHead', n)
               /\ \A m \in n .. Len(chainHead') : m \in DOMAIN versionedLog'
    <3>1. CASE n = last
      <4>1. EntryDigest(versionedLog'[n]) = chainHead'
        BY <1>2, <1>3, <3>1 DEF EntryDigest, body
      <4>2. DigestAt(chainHead', n) = chainHead'
        BY <1>5, <3>1, DigestAtProperties
      <4>3. n \in DOMAIN chainHead'
        BY <1>4, <1>5, <3>1
      <4>4. \A m \in n .. Len(chainHead') : m = n
        BY <1>4, <1>5, <3>1
      <4>5. QED  BY <4>1, <4>2, <4>3, <4>4
    <3>2. CASE n # last
      <4>1. n \in DOMAIN versionedLog /\ versionedLog'[n] = versionedLog[n]
        BY <1>3, <3>2
      <4>2. /\ n \in 1 .. Len(chainHead)
            /\ EntryDigest(versionedLog[n]) = DigestAt(chainHead, n)
            /\ \A m \in n .. Len(chainHead) : m \in DOMAIN versionedLog
        BY <1>4, <4>1 DEF Safe, LogIntact
      <4>3. n \in DOMAIN chainHead'
        BY <1>4, <1>5, <4>2
      <4>4. EntryDigest(versionedLog'[n]) = DigestAt(chainHead', n)
        BY <1>4, <1>5, <4>1, <4>2
      <4>5. DOMAIN versionedLog' = DOMAIN versionedLog \cup {last}
        BY <1>3
      <4>6. \A m \in n .. Len(chainHead') : m \in DOMAIN versionedLog'
        BY <1>4, <1>5, <4>2, <4>5
      <4>7. QED  BY <4>3, <4>4, <4>6
    <3>3. QED  BY <3>1, <3>2
  <2>2. QED  BY <1>3, <1>5, <2>1 DEF LogIntact
<1>8. CountsExact'
  <2>1. /\ commitLog = DOMAIN versionedLog /\ IsFiniteSet(commitLog)
        /\ counts = [commits |-> Cardinality(commitLog),
                     versioned |-> Cardinality(commitLog)]
    BY DEF Safe, CountsExact, TypeOK, DurableTypeOK
  <2>2. last \notin commitLog
    BY <1>4, <2>1 DEF Safe, LogIntact
  <2>3. Cardinality(commitLog \cup {last}) = Cardinality(commitLog) + 1
    BY <2>1, <2>2, FS_AddElement
  <2>4. QED  BY <1>3, <2>1, <2>3 DEF CountsExact
<1>9. RowsAreView'
  BY <1>2, <1>3, <1>4, ViewOfAppend DEF Safe, RowsAreView
<1>10. CursorOnChain'
  <2>1. /\ cursor.sequence <= Len(chainHead) /\ cursor.sequence \in Nat
        /\ cursor.digest = DigestAt(chainHead, cursor.sequence)
    BY DEF Safe, CursorOnChain, TypeOK, DurableTypeOK, MirrorHeads
  <2>2. cursor.sequence \in 0 .. Len(chainHead) /\ cursor.sequence <= last
    BY <1>4, <2>1
  <2>3. QED  BY <1>3, <1>5, <2>1, <2>2 DEF CursorOnChain
<1>11. QED  BY <1>6, <1>7, <1>8, <1>9, <1>10 DEF Safe

\* Compaction removes the same prefix of both logs and counts what it removes.
LEMMA CompactSafe ==
  ASSUME TypeOK, Safe, NEW w \in Writers, Compact(w)
  PROVE  Safe'
<1> DEFINE last == frame[w].loaded.last
           gone == {n \in commitLog : n <= last}
<1>1. /\ commitLog = DOMAIN versionedLog /\ IsFiniteSet(commitLog)
      /\ commitLog \in SUBSET Nat
      /\ counts = [commits |-> Cardinality(commitLog),
                   versioned |-> Cardinality(commitLog)]
      /\ last \in Nat
  BY DEF Safe, CountsExact, TypeOK, DurableTypeOK, ThreadTypeOK, Frames, Metadata
<1>2. /\ commitLog' = commitLog \ gone
      /\ versionedLog' = Suffix(versionedLog, last)
      /\ counts' = [commits |-> SaturatingMinus(Cardinality(commitLog),
                                                Cardinality(gone)),
                    versioned |-> SaturatingMinus(Cardinality(commitLog),
                                                  Cardinality(gone))]
      /\ lock = NoWriter /\ pc' = [pc EXCEPT ![w] = "idle"]
      /\ UNCHANGED <<rows, chainHead, marker, cursor>>
  BY <1>1 DEF Compact, Return, KeysThrough, AfterRemoving
<1>3. /\ DOMAIN versionedLog' = {n \in DOMAIN versionedLog : n > last}
      /\ \A n \in DOMAIN versionedLog' : versionedLog'[n] = versionedLog[n]
  BY <1>2 DEF Suffix
<1>4. PlanCurrent' /\ PlanSubmitted'
  <2>1. \A v \in Writers : pc'[v] # "persist"
    BY <1>2, NothingPlanned DEF TypeOK, ThreadTypeOK
  <2>2. QED  BY <2>1 DEF PlanCurrent, PlanSubmitted
<1>5. LogIntact'
  <2>1. Len(chainHead) \in Nat
    BY EntriesOfProperties DEF TypeOK, DurableTypeOK
  <2>2. ASSUME NEW n \in DOMAIN versionedLog'
        PROVE  /\ n \in DOMAIN chainHead
               /\ EntryDigest(versionedLog'[n]) = DigestAt(chainHead, n)
               /\ \A m \in n .. Len(chainHead) : m \in DOMAIN versionedLog'
    <3>1. n \in DOMAIN versionedLog /\ n \in Nat /\ n > last
      BY <1>1, <1>3
    <3>2. /\ n \in DOMAIN chainHead
          /\ EntryDigest(versionedLog[n]) = DigestAt(chainHead, n)
          /\ \A m \in n .. Len(chainHead) : m \in DOMAIN versionedLog
      BY <3>1 DEF Safe, LogIntact
    <3>3. \A m \in n .. Len(chainHead) : m > last
      BY <1>1, <2>1, <3>1
    <3>4. QED  BY <1>3, <3>2, <3>3
  <2>3. QED  BY <1>2, <2>2 DEF Safe, LogIntact
<1>6. CountsExact'
  <2>1. /\ commitLog \cap gone = gone /\ IsFiniteSet(gone)
        /\ IsFiniteSet(commitLog \ gone)
    BY <1>1, FS_Subset
  <2> HIDE DEF gone
  <2>2. /\ Cardinality(commitLog \ gone) = Cardinality(commitLog) - Cardinality(gone)
        /\ Cardinality(commitLog \ gone) \in Nat
        /\ Cardinality(commitLog) \in Nat /\ Cardinality(gone) \in Nat
    <3>1. Cardinality(commitLog \ gone)
            = Cardinality(commitLog) - Cardinality(commitLog \cap gone)
      BY <1>1, FS_Difference
    <3>2. /\ Cardinality(commitLog \ gone) \in Nat
          /\ Cardinality(commitLog) \in Nat /\ Cardinality(gone) \in Nat
      BY <1>1, <2>1, FS_CardinalityType
    <3>3. QED  BY <2>1, <3>1, <3>2
  <2>3. SaturatingMinus(Cardinality(commitLog), Cardinality(gone))
          = Cardinality(commitLog \ gone)
    BY <2>2 DEF SaturatingMinus
  <2>4. commitLog \ gone = {n \in commitLog : n > last}
    BY <1>1 DEF gone
  <2>5. QED  BY <1>1, <1>2, <1>3, <2>3, <2>4 DEF CountsExact
<1>7. RowsAreView' /\ CursorOnChain'
  BY <1>2 DEF Safe, RowsAreView, CursorOnChain
<1>8. QED  BY <1>4, <1>5, <1>6, <1>7 DEF Safe

\* A head is compared with a log entry, and the log is on the chain.
LEMMA AcknowledgeAdvances ==
  ASSUME TypeOK, Safe, NEW head \in ReportedHeads,
         Acknowledgement(head) = "Advanced"
  PROVE  /\ head.sequence \in cursor.sequence + 1 .. Len(chainHead)
         /\ head.digest = DigestAt(chainHead, head.sequence)
<1>1. /\ head.sequence \in DOMAIN versionedLog
      /\ EntryDigest(versionedLog[head.sequence]) = head.digest
      /\ ~(head.sequence <= cursor.sequence)
  BY DEF Acknowledgement, Forked, BehindCursor
<1>2. /\ DOMAIN chainHead = 1 .. Len(chainHead) /\ Len(chainHead) \in Nat
      /\ cursor.sequence \in Nat
  BY EntriesOfProperties DEF TypeOK, DurableTypeOK, MirrorHeads
<1>3. /\ head.sequence \in DOMAIN chainHead
      /\ EntryDigest(versionedLog[head.sequence])
           = DigestAt(chainHead, head.sequence)
  BY <1>1 DEF Safe, LogIntact
<1>4. QED  BY <1>1, <1>2, <1>3

\* So does an acknowledgement of the mirror, whatever head it reports.
LEMMA AcknowledgeSafe ==
  ASSUME TypeOK, Safe, NEW head \in ReportedHeads, Acknowledge(head)
  PROVE  Safe'
<1>1. /\ cursor' = IF Acknowledgement(head) = "Advanced" THEN head ELSE cursor
      /\ lock = NoWriter
      /\ UNCHANGED <<rows, commitLog, versionedLog, chainHead, marker, counts>>
      /\ UNCHANGED <<lock, pc, plan>>
  BY DEF Acknowledge, logVars, threadVars
<1>2. PlanCurrent' /\ PlanSubmitted'
  BY <1>1, NothingPlanned DEF PlanCurrent, PlanSubmitted
<1>3. LogIntact' /\ CountsExact' /\ RowsAreView'
  BY <1>1 DEF Safe, LogIntact, CountsExact, RowsAreView
<1>4. CursorOnChain'
  <2>1. CASE Acknowledgement(head) = "Advanced"
    <3>1. Len(chainHead) \in Nat /\ cursor.sequence \in Nat
      BY EntriesOfProperties DEF TypeOK, DurableTypeOK, MirrorHeads
    <3>2. QED  BY <1>1, <2>1, <3>1, AcknowledgeAdvances DEF CursorOnChain
  <2>2. CASE Acknowledgement(head) # "Advanced"
    BY <1>1, <2>2 DEF Safe, CursorOnChain
  <2>3. QED  BY <2>1, <2>2
<1>5. QED  BY <1>2, <1>3, <1>4 DEF Safe

-----------------------------------------------------------------------------
(* The theorems *)

\* Where a maintenance step or a call may lead: never into a transaction.
LEMMA QuietCallSafe ==
  ASSUME TypeOK, Safe, NEW w \in Writers, NEW location \in Locations \ {"persist"},
         pc' = [pc EXCEPT ![w] = location], UNCHANGED logVars, UNCHANGED cursor,
         UNCHANGED <<lock, plan>>
  PROVE  Safe'
<1>1. \A v \in Writers : pc'[v] = "persist" => pc[v] = "persist"
  BY DEF TypeOK, ThreadTypeOK
<1>2. QED  BY <1>1, QuietStepSafe

\* Every call may begin safely.
LEMMA CallSafe ==
  ASSUME TypeOK, Safe, NEW w \in Writers, Call(w)
  PROVE  Safe'
<1>1. ASSUME NEW operations \in Batches, Refuse(w, operations)
      PROVE  Safe'
  BY <1>1, QuietStepSafe DEF Refuse, durableVars, mirrorVars
<1>2. ASSUME NEW location \in Locations \ {"persist"}, NEW locals,
             Enter(w, location, locals)
      PROVE  Safe'
  BY <1>2, QuietCallSafe DEF Enter, durableVars, mirrorVars
<1>3. CASE CallMaintain(w) \/ CallCheckpoint(w)
           \/ \E acknowledgement : CallCompact(w, acknowledgement)
  BY <1>2, <1>3 DEF CallMaintain, CallCheckpoint, CallCompact, Locations
<1>4. QED  BY <1>1, <1>3, PrepareSafe DEF Call

\* Every step of a call is safe.
LEMMA ProceedSafe ==
  ASSUME TypeOK, Safe, NEW w \in Writers, Proceed(w)
  PROVE  Safe'
<1>1. ASSUME NEW outcome, Return(w, outcome), UNCHANGED <<logVars, cursor, lock, plan>>
      PROVE  Safe'
  BY <1>1, QuietCallSafe DEF Return, Locations
<1>2. ASSUME NEW location \in Locations \ {"persist"}, NEW locals,
             Goto(w, location, locals), UNCHANGED <<logVars, cursor, lock, plan>>
      PROVE  Safe'
  BY <1>2, QuietCallSafe DEF Goto
<1>3. ASSUME NEW stage, Load(w, stage), UNCHANGED <<logVars, cursor, lock, plan>>
      PROVE  Safe'
  BY <1>2, <1>3 DEF Load, Locations
<1>4. CASE PersistFails(w)
  <2>1. /\ UNCHANGED <<logVars, cursor>>
        /\ pc' = [pc EXCEPT ![w] = "idle"] /\ plan' = [plan EXCEPT ![w] = NoPlan]
        /\ lock = w
    BY <1>4 DEF PersistFails, durableVars, mirrorVars, Safe, PlanCurrent
  <2>2. \A v \in Writers : pc'[v] # "persist"
    <3>1. \A v \in Writers : pc[v] = "persist" => v = w
      BY <2>1 DEF Safe, PlanCurrent
    <3>2. QED  BY <2>1, <3>1 DEF TypeOK, ThreadTypeOK
  <2>3. QED  BY <2>1, <2>2, QuietStepSafe
<1>5. CASE ReadBudget(w) \/ ReadMirrorHead(w)
  <2>1. UNCHANGED <<logVars, cursor, lock, plan>>
    BY <1>5 DEF ReadBudget, ReadMirrorHead, durableVars, mirrorVars
  <2>2. QED  BY <1>1, <1>2, <1>3, <1>5, <2>1 DEF ReadBudget, ReadMirrorHead, Locations
<1>6. CASE ValidateAcknowledgement(w)
  <2>1. UNCHANGED <<logVars, cursor, lock, plan>>
    BY <1>6 DEF ValidateAcknowledgement, durableVars, mirrorVars
  <2>2. QED  BY <1>1, <1>2, <1>6, <2>1 DEF ValidateAcknowledgement, Locations
<1>7. CASE Recheck(w) \/ ReadCurrent(w)
  <2>1. UNCHANGED <<logVars, cursor, lock, plan>>
    BY <1>7 DEF Recheck, ReadCurrent, durableVars, mirrorVars
  <2>2. QED  BY <1>2, <1>3, <1>7, <2>1 DEF Recheck, ReadCurrent, Locations
<1>8. CASE ReadPointer(w) \/ ReadMetadata(w) \/ ReadSegments(w)
  <2>1. UNCHANGED <<logVars, cursor, lock, plan>>
    BY <1>8 DEF ReadPointer, ReadMetadata, ReadSegments, durableVars, mirrorVars
  <2>2. QED
    BY <1>1, <1>2, <1>8, <2>1 DEF ReadPointer, ReadMetadata, ReadSegments, Locations
<1>9. CASE RequireAcknowledged(w)
  <2>1. UNCHANGED <<logVars, cursor, lock, plan>>
    BY <1>9 DEF RequireAcknowledged, durableVars, mirrorVars
  <2>2. QED  BY <1>1, <1>2, <1>9, <2>1 DEF RequireAcknowledged, Locations
<1>10. CASE TakeCheckpoint(w)
  <2>1. UNCHANGED <<logVars, cursor, lock, plan>>
    BY <1>10 DEF TakeCheckpoint, mirrorVars
  <2>2. \/ \E outcome : Return(w, outcome)
        \/ Load(w, "reload")
    BY <1>10 DEF TakeCheckpoint
  <2>3. QED  BY <1>1, <1>3, <2>1, <2>2
<1>11. QED
  BY <1>4, <1>5, <1>6, <1>7, <1>8, <1>9, <1>10, PersistSafe, CompactSafe DEF Proceed

\* A storage failure inside maintenance only ends the call.
LEMMA MaintenanceFailsSafe ==
  ASSUME TypeOK, Safe, NEW w \in Writers, MaintenanceFails(w)
  PROVE  Safe'
  BY QuietCallSafe DEF MaintenanceFails, Return, Locations, durableVars, mirrorVars

\* A crash is safe: nothing is planned any more, and storage is as it was.
LEMMA CrashSafe ==
  ASSUME TypeOK, Safe, Crash
  PROVE  Safe'
<1>1. UNCHANGED logVars /\ UNCHANGED cursor
  BY DEF Crash, durableVars, mirrorVars
<1>2. \A w \in Writers : pc'[w] # "persist"
  BY DEF Crash
<1>3. QED  BY <1>1, <1>2, QuietStepSafe

\* Safe is inductive, given the types.
LEMMA NextSafe == TypeOK /\ Safe /\ [Next]_vars => Safe'
<1> SUFFICES ASSUME TypeOK, Safe, [Next]_vars PROVE Safe'
  OBVIOUS
<1>1. CASE UNCHANGED vars
  BY <1>1, QuietStepSafe DEF vars, durableVars, mirrorVars, threadVars
<1>2. QED
  BY <1>1, CallSafe, ProceedSafe, MaintenanceFailsSafe, AcknowledgeSafe, CrashSafe
     DEF Next

\* Safe holds throughout.
LEMMA SafeInvariant == Spec => []Safe
  BY InitSafe, NextSafe, TypeCorrect, PTL DEF Spec

(* What a writer reads under write_lock is still so when its transaction     *)
(* commits: no other write, compaction or crash makes its plan stale.        *)
THEOREM PlansStayCurrent == Spec => []PlanCurrent
  BY SafeInvariant, PTL DEF Safe

(* The retained versioned log is always a gapless, digest-linked suffix of   *)
(* the one history that the chain head commits to.                           *)
THEOREM LogStaysIntact == Spec => []LogIntact
  BY SafeInvariant, PTL DEF Safe

(* The persisted log counts are exact, whatever compactions interleave.      *)
THEOREM CountsStayExact == Spec => []CountsExact
  BY SafeInvariant, PTL DEF Safe

(* The family tables always hold the last-write view of every commit ever    *)
(* made, compacted ones included.                                            *)
THEOREM RowsFollowHistory == Spec => []RowsAreView
  BY SafeInvariant, PTL DEF Safe

(* acknowledge_mirror never moves the cursor off the store's own chain.      *)
THEOREM CursorStaysOnChain == Spec => []CursorOnChain
  BY SafeInvariant, PTL DEF Safe

-----------------------------------------------------------------------------
(* Nothing unconfirmed is dropped *)

\* The part of maintenance that may end in a compaction, past the check of
\* the acknowledgement it carries.
Compacting(w) ==
  \/ pc[w] \in {"recheck", "current", "acknowledged", "compact"}
  \/ pc[w] \in {"pointer", "metadata", "segments"} /\ frame[w].stage # "report"
  \/ pc[w] = "checkpoint" /\ frame[w].stage # "call"

\* Such a thread's acknowledgement is of the policy's topology, and a thread
\* about to remove a mirrored history removes only what the cursor covers.
CompactionAcknowledged ==
  \A w \in Writers :
    /\ Compacting(w) => frame[w].acknowledgement.topology = topology
    /\ pc[w] = "compact" /\ topology = "Mirror" =>
         frame[w].loaded.last <= cursor.sequence

Shippable == UnconfirmedShippable /\ CompactionAcknowledged

\* At the beginning everything is queued.
LEMMA InitShippable == Init => Shippable
<1> SUFFICES ASSUME Init PROVE Shippable
  OBVIOUS
<1>1. CompactionAcknowledged
  BY DEF Init, CompactionAcknowledged, Compacting
<1>2. UnconfirmedShippable
  <2>1. /\ Len(Legacy) \in Nat /\ DOMAIN Legacy = 1 .. Len(Legacy)
        /\ DOMAIN EntriesOf(LegacyHistory) = 1 .. Len(Legacy)
    BY LegacyHistoryType, EntriesOfProperties
  <2>2. /\ cursor.sequence = 0 /\ marker.sequence = Len(Legacy)
        /\ outbox = [n \in DOMAIN Legacy |-> DigestAt(LegacyHistory, n)]
        /\ versionedLog = EntriesOf(LegacyHistory) /\ chainHead = LegacyHistory
    BY DEF Init, NoHead
  <2>3. QED  BY <2>1, <2>2 DEF UnconfirmedShippable
<1>3. QED  BY <1>1, <1>2 DEF Shippable

\* Moving within a call from one place to another keeps it.
LEMMA MoveShippable ==
  ASSUME TypeOK, Shippable, NEW w \in Writers,
         UNCHANGED <<topology, versionedLog, chainHead, marker, outbox, cursor>>,
         NEW location, NEW locals,
         pc' = [pc EXCEPT ![w] = location],
         frame' = [frame EXCEPT ![w] = locals],
         Compacting(w)' => locals.acknowledgement.topology = topology,
         location = "compact" /\ topology = "Mirror" =>
           locals.loaded.last <= cursor.sequence
  PROVE  Shippable'
<1>1. UnconfirmedShippable'
  BY DEF Shippable, UnconfirmedShippable
<1>2. /\ pc'[w] = location /\ frame'[w] = locals
      /\ \A v \in Writers : v # w => pc'[v] = pc[v] /\ frame'[v] = frame[v]
  BY DEF TypeOK, ThreadTypeOK
<1>3. ASSUME NEW v \in Writers, v # w
      PROVE  /\ Compacting(v)' => frame'[v].acknowledgement.topology = topology
             /\ pc'[v] = "compact" /\ topology = "Mirror" =>
                  frame'[v].loaded.last <= cursor'.sequence
  BY <1>2, <1>3 DEF Shippable, CompactionAcknowledged, Compacting
<1>4. CompactionAcknowledged'
  BY <1>2, <1>3 DEF CompactionAcknowledged
<1>5. QED  BY <1>1, <1>4 DEF Shippable

\* Leaving a call, or a step that leaves the thread's locals alone.
LEMMA LeaveShippable ==
  ASSUME TypeOK, Shippable, NEW w \in Writers,
         UNCHANGED <<topology, versionedLog, chainHead, marker, outbox, cursor>>,
         NEW location \in {"idle", "persist"},
         pc' = [pc EXCEPT ![w] = location],
         frame' = frame \/ frame' = [frame EXCEPT ![w] = NoFrame]
  PROVE  Shippable'
<1>1. /\ pc'[w] = location
      /\ \A v \in Writers : v # w => pc'[v] = pc[v] /\ frame'[v] = frame[v]
  BY DEF TypeOK, ThreadTypeOK
<1>2. ~Compacting(w)' /\ location # "compact"
  BY <1>1 DEF Compacting
<1>3. PICK locals : frame' = [frame EXCEPT ![w] = locals]
  <2>1. frame = [frame EXCEPT ![w] = frame[w]]
    BY DEF TypeOK, ThreadTypeOK
  <2>2. QED  BY <2>1
<1>4. QED  BY <1>2, <1>3, MoveShippable

\* Beginning a call loses nothing unconfirmed.
LEMMA CallShippable ==
  ASSUME TypeOK, Shippable, NEW w \in Writers, Call(w)
  PROVE  Shippable'
<1> USE DEF durableVars, logVars, mirrorVars
<1>1. CASE \E operations \in Batches : Prepare(w, operations)
  BY <1>1, LeaveShippable DEF Prepare
<1>2. CASE \E operations \in Batches : Refuse(w, operations)
  <2>1. pc' = pc /\ pc[w] = "idle" /\ frame' = frame
        /\ UNCHANGED <<topology, versionedLog, chainHead, marker, outbox, cursor>>
    BY <1>2 DEF Refuse
  <2>2. pc = [pc EXCEPT ![w] = "idle"]
    BY <2>1 DEF TypeOK, ThreadTypeOK
  <2>3. QED  BY <2>1, <2>2, LeaveShippable
<1>3. ASSUME NEW location \in {"budget", "checkpoint", "validate"}, NEW locals,
             locals.stage = "call", Enter(w, location, locals)
      PROVE  Shippable'
  <2>1. /\ pc' = [pc EXCEPT ![w] = location]
        /\ frame' = [frame EXCEPT ![w] = locals]
        /\ UNCHANGED <<topology, versionedLog, chainHead, marker, outbox, cursor>>
    BY <1>3 DEF Enter
  <2>2. pc'[w] = location /\ frame'[w] = locals
    BY <2>1 DEF TypeOK, ThreadTypeOK
  <2>3. ~Compacting(w)' /\ location # "compact"
    BY <1>3, <2>2 DEF Compacting
  <2>4. QED  BY <2>1, <2>3, MoveShippable
<1>4. CASE CallMaintain(w) \/ CallCheckpoint(w)
  BY <1>3, <1>4 DEF CallMaintain, CallCheckpoint, NoFrame
<1>5. ASSUME NEW acknowledgement, CallCompact(w, acknowledgement)
      PROVE  Shippable'
  <2>1. [NoFrame EXCEPT !.acknowledgement = acknowledgement].stage = "call"
    BY DEF NoFrame
  <2>2. QED  BY <1>3, <1>5, <2>1 DEF CallCompact
<1>6. QED  BY <1>1, <1>2, <1>4, <1>5 DEF Call

\* A mirrored store queues what it commits.
LEMMA PersistShippable ==
  ASSUME TypeOK, Safe, Shippable, NEW w \in Writers, Persist(w)
  PROVE  Shippable'
<1> DEFINE entry == plan[w].entry
           last == Len(chainHead) + 1
<1>1. /\ entry.previous = chainHead /\ entry.body \in Bodies
      /\ entry.body.sequence = last
  BY PlanExtendsChain DEF Persist
<1>2. /\ chainHead \in Digests /\ Len(chainHead) \in Nat
      /\ marker.sequence = Len(chainHead) /\ cursor.sequence \in Nat
  BY EntriesOfProperties
     DEF Safe, LogIntact, TypeOK, DurableTypeOK, MirrorHeads
<1>3. /\ DOMAIN versionedLog' = DOMAIN versionedLog \cup {last}
      /\ chainHead' = EntryDigest(entry) /\ marker'.sequence = last
      /\ outbox' = Recorded(entry) /\ cursor' = cursor /\ topology' = topology
      /\ pc' = [pc EXCEPT ![w] = "budget"]
      /\ frame' = [frame EXCEPT ![w] = [NoFrame EXCEPT !.committed = last]]
  BY <1>1 DEF Persist
<1>4. UnconfirmedShippable'
  <2> SUFFICES ASSUME topology = "Mirror",
                      NEW n \in cursor.sequence + 1 .. last
               PROVE  /\ n \in DOMAIN outbox' /\ outbox'[n] = DigestAt(chainHead', n)
                      /\ n \in DOMAIN versionedLog'
    BY <1>3 DEF UnconfirmedShippable
  <2>1. outbox' = [m \in DOMAIN outbox \cup {last} |->
                     IF m = last THEN EntryDigest(entry) ELSE outbox[m]]
    BY <1>1, <1>3 DEF Recorded
  <2>2. chainHead' = Append(chainHead, entry.body)
    BY <1>1, <1>3 DEF EntryDigest
  <2>3. CASE n = last
    <3>1. chainHead' \in Digests /\ Len(chainHead') = last
      BY <1>1, <1>2, <2>2, AppendKeepsDigests
    <3>2. DigestAt(chainHead', last) = chainHead'
      BY <3>1, DigestAtProperties
    <3>3. QED  BY <1>3, <2>1, <2>3, <3>2
  <2>4. CASE n # last
    <3>1. n \in cursor.sequence + 1 .. marker.sequence
      BY <1>2, <2>4
    <3>2. /\ n \in DOMAIN outbox /\ outbox[n] = DigestAt(chainHead, n)
          /\ n \in DOMAIN versionedLog
      BY <3>1 DEF Shippable, UnconfirmedShippable
    <3>3. n \in 0 .. Len(chainHead)
      BY <1>2, <3>1
    <3>4. DigestAt(chainHead', n) = DigestAt(chainHead, n)
      BY <1>1, <1>2, <2>2, <3>3, AppendKeepsDigests
    <3>5. QED  BY <1>3, <2>1, <2>4, <3>2, <3>4
  <2>5. QED  BY <2>3, <2>4
<1>5. CompactionAcknowledged'
  <2>1. ASSUME NEW v \in Writers
        PROVE  /\ Compacting(v)' => frame'[v].acknowledgement.topology = topology
               /\ pc'[v] = "compact" /\ topology = "Mirror" =>
                    frame'[v].loaded.last <= cursor'.sequence
    <3>1. CASE v = w
      <4>1. pc'[v] = "budget"
        BY <1>3, <3>1 DEF TypeOK, ThreadTypeOK
      <4>2. QED  BY <4>1 DEF Compacting
    <3>2. CASE v # w
      <4>1. pc'[v] = pc[v] /\ frame'[v] = frame[v]
        BY <1>3, <3>2 DEF TypeOK, ThreadTypeOK
      <4>2. QED  BY <1>3, <4>1 DEF Shippable, CompactionAcknowledged, Compacting
    <3>3. QED  BY <3>1, <3>2
  <2>2. QED  BY <1>3, <2>1 DEF CompactionAcknowledged
<1>6. QED  BY <1>4, <1>5 DEF Shippable

\* Compaction drops nothing past the acknowledgement it was let through on.
LEMMA CompactShippable ==
  ASSUME TypeOK, Shippable, NEW w \in Writers, Compact(w)
  PROVE  Shippable'
<1> DEFINE last == frame[w].loaded.last
<1>1. /\ outbox' = Suffix(outbox, last) /\ versionedLog' = Suffix(versionedLog, last)
      /\ UNCHANGED <<topology, chainHead, marker, cursor>>
      /\ pc[w] = "compact"
      /\ pc' = [pc EXCEPT ![w] = "idle"] /\ frame' = [frame EXCEPT ![w] = NoFrame]
  BY DEF Compact, Return
<1>2. cursor.sequence \in Nat /\ marker.sequence \in Nat /\ last \in Nat
  BY DEF TypeOK, DurableTypeOK, ThreadTypeOK, MirrorHeads, Frames, Metadata
<1>3. UnconfirmedShippable'
  <2> SUFFICES ASSUME topology = "Mirror",
                      NEW n \in cursor.sequence + 1 .. marker.sequence
               PROVE  /\ n \in DOMAIN outbox' /\ outbox'[n] = DigestAt(chainHead, n)
                      /\ n \in DOMAIN versionedLog'
    BY <1>1 DEF UnconfirmedShippable
  <2>1. last <= cursor.sequence
    BY <1>1 DEF Shippable, CompactionAcknowledged
  <2>2. n > last
    BY <1>2, <2>1
  <2>3. /\ n \in DOMAIN outbox /\ outbox[n] = DigestAt(chainHead, n)
        /\ n \in DOMAIN versionedLog
    BY DEF Shippable, UnconfirmedShippable
  <2>4. QED  BY <1>1, <2>2, <2>3 DEF Suffix
<1>4. CompactionAcknowledged'
  <2>1. ASSUME NEW v \in Writers
        PROVE  /\ Compacting(v)' => frame'[v].acknowledgement.topology = topology
               /\ pc'[v] = "compact" /\ topology = "Mirror" =>
                    frame'[v].loaded.last <= cursor'.sequence
    <3>1. CASE v = w
      <4>1. pc'[v] = "idle"
        BY <1>1, <3>1 DEF TypeOK, ThreadTypeOK
      <4>2. QED  BY <4>1 DEF Compacting
    <3>2. CASE v # w
      <4>1. pc'[v] = pc[v] /\ frame'[v] = frame[v]
        BY <1>1, <3>2 DEF TypeOK, ThreadTypeOK
      <4>2. QED  BY <1>1, <4>1 DEF Shippable, CompactionAcknowledged, Compacting
    <3>3. QED  BY <3>1, <3>2
  <2>2. QED  BY <1>1, <2>1 DEF CompactionAcknowledged
<1>5. QED  BY <1>3, <1>4 DEF Shippable

\* The reads of maintenance: they hand the acknowledgement on, and only
\* RequireAcknowledged lets a thread go on to compact.
LEMMA ReadsShippable ==
  ASSUME TypeOK, Shippable, NEW w \in Writers,
         \/ ReadBudget(w) \/ ReadMirrorHead(w) \/ ValidateAcknowledgement(w)
         \/ Recheck(w) \/ ReadCurrent(w) \/ ReadPointer(w) \/ ReadMetadata(w)
         \/ ReadSegments(w) \/ RequireAcknowledged(w) \/ TakeCheckpoint(w)
  PROVE  Shippable'
<1> DEFINE f == frame[w]
<1>1. /\ UNCHANGED <<topology, versionedLog, chainHead, marker, outbox, cursor>>
      /\ f \in Frames
  BY DEF ReadBudget, ReadMirrorHead, ValidateAcknowledgement, Recheck,
         ReadCurrent, ReadPointer, ReadMetadata, ReadSegments, RequireAcknowledged, TakeCheckpoint,
         durableVars, logVars, mirrorVars, TypeOK, ThreadTypeOK
<1>2. Compacting(w) => f.acknowledgement.topology = topology
  BY DEF Shippable, CompactionAcknowledged
<1>3. ASSUME NEW outcome, Return(w, outcome)
      PROVE  Shippable'
  BY <1>1, <1>3, LeaveShippable DEF Return
<1>4. ASSUME NEW location \in Locations, NEW locals, Goto(w, location, locals),
             \/ locals.acknowledgement.topology = topology
             \/ /\ location \in {"pointer", "metadata", "segments"}
                /\ locals.stage = "report"
             \/ location = "checkpoint" /\ locals.stage = "call"
             \/ location \in {"head", "validate"},
             location = "compact" /\ topology = "Mirror" =>
               locals.loaded.last <= cursor.sequence
      PROVE  Shippable'
  <2>1. /\ pc' = [pc EXCEPT ![w] = location]
        /\ frame' = [frame EXCEPT ![w] = locals]
    BY <1>4 DEF Goto
  <2>2. pc'[w] = location /\ frame'[w] = locals
    BY <2>1 DEF TypeOK, ThreadTypeOK
  <2>3. Compacting(w)' => locals.acknowledgement.topology = topology
    BY <1>4, <2>2 DEF Compacting
  <2>4. QED  BY <1>1, <1>4, <2>1, <2>3, MoveShippable
<1>5. ASSUME Load(w, "report")
      PROVE  Shippable'
  <2>1. Goto(w, "pointer", [f EXCEPT !.stage = "report"])
        /\ [f EXCEPT !.stage = "report"].stage = "report"
    BY <1>1, <1>5 DEF Load, Frames
  <2>2. QED  BY <1>4, <2>1 DEF Locations
<1>6. CASE ReadBudget(w) \/ ReadMirrorHead(w)
  <2>1. \/ Load(w, "report")
        \/ \E locals : Goto(w, "head", locals) \/ Goto(w, "validate", locals)
        \/ Return(w, "HistoryCompactionUnacknowledged")
    BY <1>6 DEF ReadBudget, ReadMirrorHead
  <2>2. QED  BY <1>3, <1>4, <1>5, <2>1 DEF Locations
<1>7. CASE ValidateAcknowledgement(w)
  BY <1>3, <1>4, <1>7 DEF ValidateAcknowledgement, Locations
<1>8. CASE Recheck(w)
  <2>1. f.acknowledgement.topology = topology
    BY <1>2, <1>8 DEF Recheck, Compacting
  <2>2. QED  BY <1>4, <1>5, <1>8, <2>1 DEF Recheck, Locations
<1>9. CASE ReadCurrent(w)
  <2>1. f.acknowledgement.topology = topology
    BY <1>2, <1>9 DEF ReadCurrent, Compacting
  <2>2. [f EXCEPT !.current = marker.sequence, !.stage = "reuse"].acknowledgement
          = f.acknowledgement
    BY <1>1 DEF Frames
  <2>3. QED  BY <1>4, <1>9, <2>1, <2>2 DEF ReadCurrent, Locations
<1>10. CASE ReadPointer(w)
  <2>1. f.acknowledgement.topology = topology \/ f.stage = "report"
    BY <1>2, <1>10 DEF ReadPointer, Compacting
  <2>2. /\ [f EXCEPT !.pointer = latestCheckpoint].acknowledgement = f.acknowledgement
        /\ [f EXCEPT !.pointer = latestCheckpoint].stage = f.stage
    BY <1>1 DEF Frames
  <2>3. \/ Goto(w, "metadata", [f EXCEPT !.pointer = latestCheckpoint])
        \/ Return(w, "Ok")
        \/ f.stage = "reuse" /\ Goto(w, "checkpoint", f)
    BY <1>10 DEF ReadPointer
  <2>4. QED  BY <1>3, <1>4, <2>1, <2>2, <2>3 DEF Locations
<1>11. CASE ReadMetadata(w)
  <2> DEFINE locals == [f EXCEPT !.loaded = checkpoints[frame[w].pointer]]
  <2>1. f.acknowledgement.topology = topology \/ f.stage = "report"
    BY <1>2, <1>11 DEF ReadMetadata, Compacting
  <2>2. locals.acknowledgement = f.acknowledgement /\ locals.stage = f.stage
    BY <1>1 DEF Frames
  <2>3. \/ Goto(w, "segments", locals)
        \/ Return(w, "CheckpointRowMissing")
    BY <1>11 DEF ReadMetadata
  <2> HIDE DEF locals
  <2>4. QED  BY <1>3, <1>4, <2>1, <2>2, <2>3 DEF Locations
<1>12. CASE ReadSegments(w)
  <2>1. f.acknowledgement.topology = topology \/ f.stage = "report"
    BY <1>2, <1>12 DEF ReadSegments, Compacting
  <2>2. \/ \E outcome : Return(w, outcome)
        \/ /\ f.stage # "report"
           /\ Goto(w, "checkpoint", f) \/ Goto(w, "acknowledged", f)
    BY <1>12 DEF ReadSegments
  <2>3. QED  BY <1>3, <1>4, <2>1, <2>2 DEF Locations
<1>13. CASE RequireAcknowledged(w)
  <2>1. f.acknowledgement.topology = topology
    BY <1>2, <1>13 DEF RequireAcknowledged, Compacting
  <2>2. \/ Return(w, "HistoryCompactionUnacknowledged")
        \/ /\ AcknowledgedThrough(f.acknowledgement, f.loaded.last)
           /\ Goto(w, "compact", f)
    BY <1>13 DEF RequireAcknowledged
  <2>3. AcknowledgedThrough(f.acknowledgement, f.loaded.last) /\ topology = "Mirror"
          => f.loaded.last <= cursor.sequence
    <3>1. f.loaded.last \in Nat /\ cursor.sequence \in Nat
      BY <1>1 DEF Frames, Metadata, TypeOK, DurableTypeOK, MirrorHeads
    <3>2. QED  BY <2>1, <3>1 DEF AcknowledgedThrough
  <2>4. QED  BY <1>3, <1>4, <2>1, <2>2, <2>3 DEF Locations
<1>14. CASE TakeCheckpoint(w)
  <2>1. f.stage # "call" => f.acknowledgement.topology = topology
    BY <1>2, <1>14 DEF TakeCheckpoint, Compacting
  <2>2. [f EXCEPT !.stage = "reload"].acknowledgement = f.acknowledgement
    BY <1>1 DEF Frames
  <2>3. \/ \E outcome : Return(w, outcome)
        \/ f.stage # "call" /\ Goto(w, "pointer", [f EXCEPT !.stage = "reload"])
    BY <1>14 DEF TakeCheckpoint, Load
  <2>4. QED  BY <1>3, <1>4, <2>1, <2>2, <2>3 DEF Locations
<1>15. QED
  BY <1>6, <1>7, <1>8, <1>9, <1>10, <1>11, <1>12, <1>13, <1>14

\* An acknowledgement only moves the cursor forward.
LEMMA AcknowledgeShippable ==
  ASSUME TypeOK, Safe, Shippable, NEW head \in ReportedHeads, Acknowledge(head)
  PROVE  Shippable'
<1>1. /\ cursor' = IF Acknowledgement(head) = "Advanced" THEN head ELSE cursor
      /\ UNCHANGED <<topology, outbox, versionedLog, chainHead, marker, pc, frame>>
  BY DEF Acknowledge, logVars, threadVars
<1>2. cursor'.sequence \in Nat /\ cursor.sequence <= cursor'.sequence
      /\ marker.sequence \in Nat /\ cursor.sequence \in Nat
  <2>1. cursor.sequence \in Nat /\ Len(chainHead) \in Nat /\ marker.sequence \in Nat
    BY EntriesOfProperties DEF TypeOK, DurableTypeOK, MirrorHeads
  <2>2. CASE Acknowledgement(head) = "Advanced"
    BY <1>1, <2>1, <2>2, AcknowledgeAdvances
  <2>3. CASE Acknowledgement(head) # "Advanced"
    BY <1>1, <2>1, <2>3
  <2>4. QED  BY <2>2, <2>3, <2>1
<1>3. UnconfirmedShippable'
  BY <1>1, <1>2 DEF Shippable, UnconfirmedShippable
<1>4. CompactionAcknowledged'
  <2>1. ASSUME NEW w \in Writers, pc[w] = "compact", topology = "Mirror"
        PROVE  frame[w].loaded.last <= cursor'.sequence
    <3>1. frame[w].loaded.last \in Nat
      BY DEF TypeOK, ThreadTypeOK, Frames, Metadata
    <3>2. frame[w].loaded.last <= cursor.sequence
      BY <2>1 DEF Shippable, CompactionAcknowledged
    <3>3. QED  BY <1>2, <3>1, <3>2
  <2>2. QED
    BY <1>1, <2>1 DEF Shippable, CompactionAcknowledged, Compacting
<1>5. QED  BY <1>3, <1>4 DEF Shippable

\* Shippable is inductive, given Safe.
LEMMA NextShippable == TypeOK /\ Safe /\ Shippable /\ [Next]_vars => Shippable'
<1> SUFFICES ASSUME TypeOK, Safe, Shippable, [Next]_vars PROVE Shippable'
  OBVIOUS
<1>1. ASSUME NEW w \in Writers, Proceed(w)
      PROVE  Shippable'
  <2>1. CASE PersistFails(w)
    BY <2>1, LeaveShippable
       DEF PersistFails, durableVars, logVars, mirrorVars
  <2>2. QED
    BY <1>1, <2>1, PersistShippable, ReadsShippable, CompactShippable DEF Proceed
<1>2. CASE Crash
  <2>1. /\ UNCHANGED <<topology, outbox, versionedLog, chainHead, marker, cursor>>
        /\ \A w \in Writers : pc'[w] = "idle"
    BY <1>2 DEF Crash, durableVars, logVars, mirrorVars
  <2>2. UnconfirmedShippable'
    BY <2>1 DEF Shippable, UnconfirmedShippable
  <2>3. CompactionAcknowledged'
    BY <2>1 DEF CompactionAcknowledged, Compacting
  <2>4. QED  BY <2>2, <2>3 DEF Shippable
<1>3. CASE UNCHANGED vars
  BY <1>3 DEF vars, durableVars, logVars, mirrorVars, threadVars, Shippable,
              UnconfirmedShippable, CompactionAcknowledged, Compacting
<1>4. ASSUME NEW w \in Writers, MaintenanceFails(w)
      PROVE  Shippable'
  BY <1>4, LeaveShippable
     DEF MaintenanceFails, Return, durableVars, logVars, mirrorVars
<1>5. QED  BY <1>1, <1>2, <1>3, <1>4, CallShippable, AcknowledgeShippable DEF Next

(* A mirrored store never compacts away, nor unqueues, a commit the mirror   *)
(* has not confirmed, whatever threads call maintenance with whatever        *)
(* acknowledgements.                                                         *)
THEOREM NothingUnconfirmedLost == Spec => []UnconfirmedShippable
<1>1. Spec => []Shippable
  BY InitShippable, NextShippable, TypeCorrect, SafeInvariant, PTL DEF Spec
<1>2. QED  BY <1>1, PTL DEF Shippable

-----------------------------------------------------------------------------
(* The engine implements the serial store *)

\* CommitStore's operators, instantiated, are VersionedLog's.
LEMMA StoreOperators ==
  /\ Store!LegacyHistory = LegacyHistory
  /\ \A head : Store!ViewOf(head) = ViewOf(head)
  /\ \A operations, r : /\ Store!Apply(operations, r) = Apply(operations, r)
                        /\ Store!Admitted(operations, r) <=> Admitted(operations, r)
<1>1. \A operations, r : Store!Apply(operations, r) = Apply(operations, r)
  BY DEF Store!Apply, Apply, Store!Touches, Touches, Store!LastOn, LastOn
<1>2. \A head : Store!EntriesOf(head) = EntriesOf(head)
  BY DEF Store!EntriesOf, EntriesOf, Store!DigestAt, DigestAt
<1>3. \A base, log : Store!CanonicalView(base, log) = CanonicalView(base, log)
  BY DEF Store!CanonicalView, CanonicalView, Store!LastWriter, LastWriter,
         Store!Apply, Apply, Store!Touches, Touches, Store!LastOn, LastOn
<1>4. \A head : Store!ViewOf(head) = ViewOf(head)
  BY <1>2, <1>3 DEF Store!ViewOf, ViewOf, Store!EmptyRows, EmptyRows
<1>5. \A operations, r : Store!Admitted(operations, r) <=> Admitted(operations, r)
  BY DEF Store!Admitted, Admitted, Store!DistinctKeys, DistinctKeys,
         Store!AssertAdmitted, AssertAdmitted, Store!MutateAdmitted, MutateAdmitted,
         Store!RetractAdmitted, RetractAdmitted
<1>6. Store!LegacyHistory = LegacyHistory
  BY DEF Store!LegacyHistory, LegacyHistory
<1>7. QED  BY <1>1, <1>4, <1>5, <1>6

\* An opened store is an initial state of CommitStore.
LEMMA InitImplements == Init => Store!Init
  BY StoreOperators DEF Init, Store!Init, NoHead

\* The storage transaction of a write is the abstract commit of its list.
LEMMA PersistImplements ==
  ASSUME TypeOK, Safe, NEW w \in Writers, Persist(w)
  PROVE  Store!Next
<1> DEFINE body == plan[w].entry.body
           next == Len(chainHead) + 1
<1>1. /\ plan[w].entry.previous = chainHead
      /\ body \in Bodies /\ body.sequence = next /\ body.snapshot = next
      /\ Admitted(body.operations, rows)
      /\ body.operations \in Batches
  BY PlanExtendsChain DEF Persist, Safe, PlanSubmitted
<1>2. body = [sequence |-> next, snapshot |-> next, operations |-> body.operations]
  BY <1>1 DEF Bodies
<1>3. /\ chainHead' = Append(chainHead, body)
      /\ rows' = Apply(body.operations, rows)
      /\ cursor' = cursor
  BY <1>1 DEF Persist, EntryDigest
<1> HIDE DEF body
<1>4. Store!Commit(body.operations)
  BY <1>1, <1>2, <1>3, StoreOperators DEF Store!Commit
<1>5. QED  BY <1>1, <1>4 DEF Store!Next

\* An acknowledgement that advances the cursor is the abstract confirmation.
LEMMA AcknowledgeImplements ==
  ASSUME TypeOK, Safe, NEW head \in ReportedHeads, Acknowledge(head)
  PROVE  [Store!Next]_Store!vars
<1>1. /\ cursor' = IF Acknowledgement(head) = "Advanced" THEN head ELSE cursor
      /\ UNCHANGED <<chainHead, rows>>
  BY DEF Acknowledge, logVars
<1>2. CASE Acknowledgement(head) = "Advanced"
  BY <1>1, <1>2, AcknowledgeAdvances DEF Store!Next, Store!Confirm
<1>3. CASE Acknowledgement(head) # "Advanced"
  BY <1>1, <1>3 DEF Store!vars
<1>4. QED  BY <1>2, <1>3

\* Every step of the engine is a step of CommitStore or a stutter.
LEMMA NextImplements == TypeOK /\ Safe /\ [Next]_vars => [Store!Next]_Store!vars
<1> SUFFICES ASSUME TypeOK, Safe, [Next]_vars PROVE [Store!Next]_Store!vars
  OBVIOUS
<1> USE DEF durableVars, logVars, mirrorVars
<1>1. ASSUME NEW w \in Writers, Call(w)
      PROVE  UNCHANGED <<chainHead, rows, cursor>>
  BY <1>1 DEF Call, Prepare, Refuse, CallMaintain, CallCheckpoint, CallCompact, Enter
<1>2. ASSUME NEW w \in Writers, Proceed(w), ~Persist(w)
      PROVE  UNCHANGED <<chainHead, rows, cursor>>
  BY <1>2 DEF Proceed, PersistFails, ReadBudget, ReadMirrorHead,
              ValidateAcknowledgement, Recheck, ReadCurrent, ReadPointer,
              ReadMetadata, ReadSegments, TakeCheckpoint, RequireAcknowledged,
              Compact
<1>3. CASE Crash \/ UNCHANGED vars \/ \E w \in Writers : MaintenanceFails(w)
  BY <1>3 DEF Crash, MaintenanceFails, vars, Store!vars
<1>4. QED
  BY <1>1, <1>2, <1>3, PersistImplements, AcknowledgeImplements DEF Next, Store!vars

(* Every behaviour of the engine is one of the serial store: commits take    *)
(* effect one at a time, each admitted against the rows of that moment, and  *)
(* checkpoints, compactions, failures and crashes are invisible.             *)
THEOREM ImplementsSerialStore == Spec => ImplementsStore
  BY InitImplements, NextImplements, TypeCorrect, SafeInvariant, PTL
     DEF Spec, ImplementsStore, Store!Spec

=============================================================================
