----------------------------- MODULE FamilyStore -----------------------------
(***************************************************************************)
(* One store over the lifetimes of the component that owns it: processes   *)
(* that open it, register their families (new, known, or evolved from a    *)
(* declared prior shape), write, checkpoint, compact and rebuild; releases *)
(* of the component that declare other shapes; the disk that is lost and   *)
(* the fresh store an import restores from an exported checkpoint and log  *)
(* suffix.                                                                 *)
(*                                                                         *)
(* There is one thread: register_table and the import session borrow the   *)
(* engine exclusively, and WritePath is about threads.  A call is one step *)
(* up to its storage transaction; the maintenance that follows it is steps *)
(* of its own, because a crash or an error between its transactions is     *)
(* what matters here.  The snapshot, the commit log, the log counts and    *)
(* the checkpoints before the latest are left to WritePath: here they      *)
(* would repeat marker, log and checkpoint.                                *)
(***************************************************************************)
EXTENDS FamilyLog

CONSTANTS Components,  \* the releases: the descriptors each one declares
          Topology,    \* VersionedRecoveryTopology
          Budget,      \* maximum_live_entries of the retention policy
          Handed,      \* which unusual suffixes an operator hands to an import
          MaxCommits,  \* bound: writes, over all lifetimes of the store
          MaxFaults,   \* bound: storage failures and crashes
          MaxInstalls, \* bound: releases put in place
          MaxLosses    \* bound: disks lost

Descriptors == [table : Tables, family : Families, schema : Schemas,
                priors : SUBSET Schemas]

ASSUME ComponentAssumption ==
  /\ Components \in Seq(SUBSET Descriptors)
  /\ Components # <<>>
  /\ \A n \in DOMAIN Components : \A d, e \in Components[n] :
       d.table = e.table => d = e
ASSUME LifetimeAssumption ==
  /\ Topology \in {"LocalCheckpoint", "Mirror"}
  /\ Handed \subseteq {"empty", "minting", "reshaped"}
  /\ {Budget, MaxCommits, MaxFaults, MaxInstalls, MaxLosses} \subseteq Nat

VARIABLES
  \* on disk
  catalog,      \* CATALOG: the identity registered at each table
  rows,         \* the materialized family tables
  identifiers,  \* IDENTIFIED_COUNTERS, 0 when a table has no row
  log,          \* VERSIONED_COMMIT_LOG in commit order
  head,         \* CHAIN_HEAD
  marker,       \* latest_commit_sequence
  checkpoint,   \* the checkpoint LATEST_CHECKPOINT_KEY names
  \* in the process
  pc,           \* where the process is; closed when there is none
  memory,       \* Engine::catalog
  granted,      \* the tables register_table returned a reference to
  pending,      \* the evolution whose maintenance is under way
  \* around it
  installed,    \* the release that runs
  exported,     \* the checkpoint and suffix kept elsewhere
  spent         \* how much of each bound is used

diskVars == <<catalog, rows, identifiers, log, head, marker, checkpoint>>
processVars == <<pc, memory, granted, pending>>
outerVars == <<installed, exported, spent>>
vars == <<diskVars, processVars, outerVars>>

-----------------------------------------------------------------------------
(* Shapes *)

Catalogs == [Tables -> Identities \cup {Absent}]

NoCatalog == [t \in Tables |-> Absent]

NoCounters == [t \in Tables |-> 0]

Entries == [body : Bodies, previous : Digests]

\* Checkpoint: metadata and segments.  families and counters are its
\* FamilyInventory.
Checkpoints == [last : Nat, digest : Digests, families : SUBSET Identities,
                counters : [Tables -> Nat], rows : SUBSET ViewRows]

NoCheckpoint == [last |-> 0, digest |-> NoDigest, families |-> {},
                 counters |-> NoCounters, rows |-> {}]

NoPending == [table |-> Absent, previous |-> Absent]

NoExport == [checkpoint |-> NoCheckpoint, suffix |-> <<>>]

TypeOK ==
  /\ catalog \in Catalogs /\ memory \in Catalogs
  /\ rows \in Rows
  /\ identifiers \in [Tables -> Nat]
  /\ log \in Seq(Entries)
  /\ head \in Digests
  /\ marker \in Nat
  /\ checkpoint \in Checkpoints
  /\ pc \in {"closed", "idle", "maintain", "compact", "failed"}
  /\ granted \in SUBSET Tables
  /\ pending \in [table : Tables, previous : Identities] \cup {NoPending}
  /\ installed \in DOMAIN Components
  /\ exported \in [checkpoint : Checkpoints, suffix : Seq(Entries)]
  /\ spent \in [commits : 0 .. MaxCommits, faults : 0 .. MaxFaults,
                installs : 0 .. MaxInstalls, losses : 0 .. MaxLosses]

Init ==
  /\ catalog = NoCatalog
  /\ rows = EmptyRows
  /\ identifiers = NoCounters
  /\ log = <<>>
  /\ head = NoDigest
  /\ marker = 0
  /\ checkpoint = NoCheckpoint
  /\ pc = "closed"
  /\ memory = NoCatalog
  /\ granted = {}
  /\ pending = NoPending
  /\ installed = 1
  /\ exported = NoExport
  /\ spent = [commits |-> 0, faults |-> 0, installs |-> 0, losses |-> 0]

Fault ==
  /\ spent.faults < MaxFaults
  /\ spent' = [spent EXCEPT !.faults = @ + 1]
  /\ UNCHANGED <<installed, exported>>

-----------------------------------------------------------------------------
(* Releases and processes *)

Install(n) ==
  /\ pc = "closed"
  /\ n # installed
  /\ spent.installs < MaxInstalls
  /\ spent' = [spent EXCEPT !.installs = @ + 1]
  /\ installed' = n
  /\ UNCHANGED <<diskVars, processVars, exported>>

Open ==
  /\ pc = "closed"
  /\ pc' = "idle"
  /\ memory' = catalog
  /\ UNCHANGED <<diskVars, granted, pending, outerVars>>

\* The process is gone, and with it everything it knew.
Gone ==
  /\ pc' = "closed"
  /\ memory' = NoCatalog
  /\ granted' = {}
  /\ pending' = NoPending
  /\ UNCHANGED diskVars

\* A component that could not register a family exits, or tries again first.
Exit == pc = "failed" /\ Gone /\ UNCHANGED outerVars

Retry ==
  /\ pc = "failed"
  /\ pc' = "idle"
  /\ UNCHANGED <<diskVars, memory, granted, pending, outerVars>>

Crash == pc # "closed" /\ Gone /\ Fault

Declared == {d.table : d \in Components[installed]}

Descriptor(t) == CHOOSE d \in Components[installed] : d.table = t

\* A component registers its families first and serves afterwards.
Serving == pc = "idle" /\ granted = Declared

-----------------------------------------------------------------------------
(* Registration *)

Identity(d) == [family |-> d.family, schema |-> d.schema, table |-> d.table]

Inventory(families) == {families[t] : t \in Tables} \ {Absent}

\* The StoreSchemaHash of a family inventory.
StoreSchemaHash(families) == {Version(identity) : identity \in families}

\* evolution_step_for: a declared prior of the same family.  Identified
\* descriptors declare none.
Evolvable(d, stored) ==
  /\ stored.family = d.family
  /\ stored.schema \in d.priors
  /\ d.table \notin IdentifiedTables

Grant(t) == granted' = granted \cup {t} /\ UNCHANGED <<pc, pending>>

Refuse == pc' = "failed" /\ UNCHANGED <<memory, granted, pending>>

RegisterExisting(d) ==
  /\ memory[d.table] = Identity(d)
  /\ Grant(d.table)
  /\ UNCHANGED <<diskVars, memory, outerVars>>

\* FamilyIdentityMismatch with no declared step, or FamilyAlreadyBound.
RegisterRefused(d) ==
  /\ \/ /\ memory[d.table] \notin {Absent, Identity(d)}
        /\ ~Evolvable(d, memory[d.table])
     \/ /\ memory[d.table] = Absent
        /\ \E bound \in Inventory(memory) : SharesFamily(bound, Identity(d))
  /\ Refuse
  /\ UNCHANGED <<diskVars, outerVars>>

RegisterNew(d) ==
  /\ memory[d.table] = Absent
  /\ ~\E bound \in Inventory(memory) : SharesFamily(bound, Identity(d))
  /\ \/ /\ catalog' = [catalog EXCEPT ![d.table] = Identity(d)]
        /\ identifiers' = IF d.table \in IdentifiedTables
                            THEN [identifiers EXCEPT ![d.table] = 1]
                            ELSE identifiers
        /\ memory' = [memory EXCEPT ![d.table] = Identity(d)]
        /\ Grant(d.table)
        /\ UNCHANGED <<rows, log, head, marker, checkpoint, outerVars>>
     \/ Fault /\ Refuse /\ UNCHANGED diskVars

-----------------------------------------------------------------------------
(* Commits *)

\* Mutant: the entry is stamped with the catalog on disk.
MintStampedFromDisk(operations, families) ==
  [body |-> [sequence |-> marker + 1, stamp |-> StoreSchemaHash(Inventory(catalog)),
             operations |-> operations],
   previous |-> head]

\* The entry of a commit, stamped with the inventory of the catalog in memory.
Mint(operations, families) ==
  [body |-> [sequence |-> marker + 1, stamp |-> StoreSchemaHash(Inventory(families)),
             operations |-> operations],
   previous |-> head]

\* Mutant: the chain head stays where it was.
AppendEntryOffChain(entry) ==
  /\ log' = Append(log, entry)
  /\ head' = IF head = NoDigest THEN EntryDigest(entry) ELSE head
  /\ marker' = entry.body.sequence

\* append_versioned, append_commit and the counters.
AppendEntry(entry) ==
  /\ log' = Append(log, entry)
  /\ head' = EntryDigest(entry)
  /\ marker' = entry.body.sequence

Operation(kind, t, k, payload) ==
  [kind |-> kind, identity |-> memory[t], key |-> k, payload |-> payload]

\* A record of a table, in the shape of the component's own type.
RecordOf(t, datum) == [schema |-> Descriptor(t).schema, datum |-> datum]

Commit(kind, t, k, payload) ==
  /\ spent.commits < MaxCommits
  /\ spent' = [spent EXCEPT !.commits = @ + 1]
  /\ AppendEntry(Mint(<<Operation(kind, t, k, payload)>>, memory))
  /\ rows' = [rows EXCEPT ![t][k] = payload]
  /\ UNCHANGED <<catalog, checkpoint, memory, granted, pending,
                 installed, exported>>

\* assert_keyed, mutate_keyed and retract, which end in maintenance.
AssertKeyed(t, k, datum) ==
  /\ Serving /\ t \in granted \ IdentifiedTables
  /\ rows[t][k] = Absent
  /\ Commit("Assert", t, k, RecordOf(t, datum))
  /\ pc' = "maintain"
  /\ UNCHANGED identifiers

MutateKeyed(t, k, datum) ==
  /\ Serving /\ t \in granted \ IdentifiedTables
  /\ rows[t][k] # Absent
  /\ Commit("Mutate", t, k, RecordOf(t, datum))
  /\ pc' = "maintain"
  /\ UNCHANGED identifiers

Retract(t, k) ==
  /\ Serving /\ t \in granted \ IdentifiedTables
  /\ rows[t][k] # Absent
  /\ Commit("Retract", t, k, Absent)
  /\ pc' = "maintain"
  /\ UNCHANGED identifiers

\* next_record_identifier.
NextIdentifier(t) == IF identifiers[t] = 0 THEN 1 ELSE identifiers[t]

\* The identified calls run no maintenance.
AssertIdentified(t, datum) ==
  LET k == NextIdentifier(t)
  IN  /\ Serving /\ t \in granted \cap IdentifiedTables
      /\ k <= MaxIdentifier
      /\ Commit("Assert", t, k, RecordOf(t, datum))
      /\ identifiers' = [identifiers EXCEPT ![t] = k + 1]
      /\ UNCHANGED pc

MutateIdentified(t, k, datum) ==
  /\ Serving /\ t \in granted \cap IdentifiedTables
  /\ rows[t][k] # Absent
  /\ Commit("Mutate", t, k, RecordOf(t, datum))
  /\ UNCHANGED <<identifiers, pc>>

RetractIdentified(t, k) ==
  /\ Serving /\ t \in granted \cap IdentifiedTables
  /\ rows[t][k] # Absent
  /\ Commit("Retract", t, k, Absent)
  /\ UNCHANGED <<identifiers, pc>>

-----------------------------------------------------------------------------
(* Evolution *)

Carried(t) == {k \in RecordKeys : rows[t][k] # Absent}

\* The carry decodes every row in the prior shape, or fails.
Decodes(t, schema) == \A k \in Carried(t) : rows[t][k].schema = schema

\* Mutant: the carry also converts the keys that hold nothing.
ConvertedVacant(t, schema) ==
  [k \in RecordKeys |->
     [schema |-> schema,
      datum |-> IF rows[t][k] = Absent THEN Absent ELSE rows[t][k].datum]]

Converted(t, schema) ==
  [k \in RecordKeys |->
     IF rows[t][k] = Absent THEN Absent
     ELSE [schema |-> schema, datum |-> rows[t][k].datum]]

InOrder(keys) ==
  CHOOSE s \in [1 .. Cardinality(keys) -> keys] :
    \A i, j \in DOMAIN s : s[i] = s[j] => i = j

\* Mutant: the evolution is logged as assertions only.
EvolutionAsAssertions(t, stored, evolved) ==
  LET keys == InOrder(Carried(t))
  IN  [n \in DOMAIN keys |->
         [kind |-> "Assert", identity |-> evolved, key |-> keys[n],
          payload |-> Converted(t, evolved.schema)[keys[n]]]]

\* The row history of an evolution: each row retracted under the prior
\* identity, then each asserted under the evolved one.
EvolutionOperations(t, stored, evolved) ==
  LET keys == InOrder(Carried(t))
  IN  [n \in DOMAIN keys |->
         [kind |-> "Retract", identity |-> stored, key |-> keys[n],
          payload |-> Absent]]
      \o
      [n \in DOMAIN keys |->
         [kind |-> "Assert", identity |-> evolved, key |-> keys[n],
          payload |-> Converted(t, evolved.schema)[keys[n]]]]

Mismatched(d) ==
  /\ memory[d.table] \notin {Absent, Identity(d)}
  /\ Evolvable(d, memory[d.table])

EvolveUndecodable(d) ==
  /\ Mismatched(d)
  /\ ~Decodes(d.table, memory[d.table].schema)
  /\ Refuse
  /\ UNCHANGED <<diskVars, outerVars>>

\* Mutant: any family evolves in the catalog alone.
EvolveAnyInCatalog(d) ==
  /\ Mismatched(d)
  /\ catalog' = [catalog EXCEPT ![d.table] = Identity(d)]
  /\ memory' = [memory EXCEPT ![d.table] = Identity(d)]
  /\ Grant(d.table)
  /\ UNCHANGED <<rows, identifiers, log, head, marker, checkpoint, outerVars>>

\* An empty family evolves in the catalog alone: no entry, no maintenance.
EvolveEmpty(d) ==
  /\ Mismatched(d)
  /\ Carried(d.table) = {}
  /\ catalog' = [catalog EXCEPT ![d.table] = Identity(d)]
  /\ memory' = [memory EXCEPT ![d.table] = Identity(d)]
  /\ Grant(d.table)
  /\ UNCHANGED <<rows, identifiers, log, head, marker, checkpoint, outerVars>>

\* Mutant: the transaction leaves the catalog row as it was.
EvolveRowsUncatalogued(d) ==
  LET t == d.table
      evolved == [memory EXCEPT ![t] = Identity(d)]
  IN  /\ Mismatched(d)
      /\ Carried(t) # {}
      /\ Decodes(t, memory[t].schema)
      /\ AppendEntry(Mint(EvolutionOperations(t, memory[t], Identity(d)), evolved))
      /\ rows' = [rows EXCEPT ![t] = Converted(t, d.schema)]
      /\ memory' = evolved
      /\ pc' = "maintain"
      /\ pending' = [table |-> t, previous |-> memory[t]]
      /\ UNCHANGED <<catalog, identifiers, checkpoint, granted, outerVars>>

\* Rows, entry, counters and catalog row in one transaction, with the catalog
\* in memory evolved before it.
EvolveRows(d) ==
  LET t == d.table
      evolved == [memory EXCEPT ![t] = Identity(d)]
  IN  /\ Mismatched(d)
      /\ Carried(t) # {}
      /\ Decodes(t, memory[t].schema)
      /\ AppendEntry(Mint(EvolutionOperations(t, memory[t], Identity(d)), evolved))
      /\ rows' = [rows EXCEPT ![t] = Converted(t, d.schema)]
      /\ catalog' = [catalog EXCEPT ![t] = Identity(d)]
      /\ memory' = evolved
      /\ pc' = "maintain"
      /\ pending' = [table |-> t, previous |-> memory[t]]
      /\ UNCHANGED <<identifiers, checkpoint, granted, outerVars>>

\* The transaction fails; the catalog in memory goes back to what it was.
EvolveFails(d) ==
  /\ Mismatched(d)
  /\ Decodes(d.table, memory[d.table].schema)
  /\ Fault /\ Refuse
  /\ UNCHANGED diskVars

Register(d) ==
  /\ pc = "idle"
  /\ d \in Components[installed]
  /\ d.table \notin granted
  /\ \/ RegisterExisting(d)
     \/ RegisterRefused(d)
     \/ RegisterNew(d)
     \/ EvolveUndecodable(d)
     \/ EvolveEmpty(d)
     \/ EvolveRows(d)
     \/ EvolveFails(d)

-----------------------------------------------------------------------------
(* Checkpoint and maintenance *)

Uncovered == Suffix(log, checkpoint.last)

\* The fold every derived artifact starts from: the latest checkpoint's rows
\* and the entries past it.
CanonicalView == Fold(checkpoint.rows, Uncovered)

FoldVerifies == ChainVerifies(Uncovered, checkpoint.digest)

\* Mutant: the inventory leaves the counters out.
TakeCheckpointUncounted ==
  /\ Uncovered # <<>>
  /\ FoldVerifies
  /\ LET last == Uncovered[Len(Uncovered)]
     IN  checkpoint' = [last |-> last.body.sequence,
                        digest |-> EntryDigest(last),
                        families |-> Inventory(memory),
                        counters |-> NoCounters,
                        rows |-> RowsOf(CanonicalView)]
  /\ UNCHANGED <<catalog, rows, identifiers, log, head, marker>>

\* checkpoint(): there is something to cover and the chain verifies.
TakeCheckpoint ==
  /\ Uncovered # <<>>
  /\ FoldVerifies
  /\ LET last == Uncovered[Len(Uncovered)]
     IN  checkpoint' = [last |-> last.body.sequence,
                        digest |-> EntryDigest(last),
                        families |-> Inventory(memory),
                        counters |-> identifiers,
                        rows |-> RowsOf(CanonicalView)]
  /\ UNCHANGED <<catalog, rows, identifiers, log, head, marker>>

Checkpoint ==
  /\ Serving
  /\ TakeCheckpoint
  /\ UNCHANGED <<processVars, outerVars>>

\* Mutant: the reference is returned although the maintenance failed.
FinishGrants(ok) ==
  /\ pending' = NoPending
  /\ pc' = "idle"
  /\ granted' = granted \cup ({pending.table} \ {Absent})
  /\ memory' = IF pending # NoPending /\ ~ok
                 THEN [memory EXCEPT ![pending.table] = pending.previous]
                 ELSE memory

\* The call returns.  An evolution that was not carried through to the end of
\* its maintenance puts the catalog in memory back, and registration fails.
Finish(ok) ==
  /\ pending' = NoPending
  /\ \/ /\ pending = NoPending
        /\ pc' = "idle"
        /\ UNCHANGED <<memory, granted>>
     \/ /\ pending # NoPending /\ ok
        /\ pc' = "idle"
        /\ granted' = granted \cup {pending.table}
        /\ UNCHANGED memory
     \/ /\ pending # NoPending /\ ~ok
        /\ pc' = "failed"
        /\ memory' = [memory EXCEPT ![pending.table] = pending.previous]
        /\ UNCHANGED granted

OverBudget == Len(log) > Budget

\* The component's tick calls the configured maintenance by itself.
Tick ==
  /\ Serving
  /\ OverBudget
  /\ pc' = "maintain"
  /\ UNCHANGED <<diskVars, memory, granted, pending, outerVars>>

MaintainWithinBudget ==
  /\ pc = "maintain"
  /\ ~OverBudget
  /\ Finish(TRUE)
  /\ UNCHANGED <<diskVars, outerVars>>

\* The mirror has not confirmed the history (HistoryCompactionUnacknowledged;
\* how far it has is WritePath's matter, here it may have or not): it has no
\* head before anything is written, or one short of the checkpoint after that
\* is.  Or the chain does not verify, and no checkpoint is written.
MaintainRefused ==
  /\ OverBudget
  /\ \/ pc \in {"maintain", "compact"} /\ Topology = "Mirror"
     \/ pc = "maintain" /\ checkpoint.last < marker /\ ~FoldVerifies
  /\ Finish(FALSE)
  /\ UNCHANGED <<diskVars, outerVars>>

\* A checkpoint that covers the head is reused, else one is written.
MaintainCheckpoint ==
  /\ pc = "maintain"
  /\ OverBudget
  /\ \/ checkpoint.last >= marker /\ UNCHANGED diskVars
     \/ checkpoint.last < marker /\ TakeCheckpoint
  /\ pc' = "compact"
  /\ UNCHANGED <<memory, granted, pending, outerVars>>

MaintainFails ==
  /\ pc \in {"maintain", "compact"}
  /\ OverBudget
  /\ Fault
  /\ Finish(FALSE)
  /\ UNCHANGED diskVars

\* The covered prefix leaves the log.
Compact ==
  /\ pc = "compact"
  /\ log' = Uncovered
  /\ Finish(TRUE)
  /\ UNCHANGED <<catalog, rows, identifiers, head, marker, checkpoint, outerVars>>

Maintain ==
  \/ MaintainWithinBudget
  \/ MaintainRefused
  \/ MaintainCheckpoint
  \/ MaintainFails
  \/ Compact

-----------------------------------------------------------------------------
(* Rebuild, export and import *)

\* The component's directory decodes every row of a view in its own type for
\* the family, into its own table for it.
DirectoryDecodes(view) ==
  \A row \in RowsOf(view) :
    \E d \in Components[installed] :
      /\ d.family = row.identity.family
      /\ d.table = row.identity.table
      /\ d.schema = row.payload.schema

RebuildFromLog ==
  /\ Serving
  /\ FoldVerifies
  /\ DirectoryDecodes(CanonicalView)
  /\ rows' = Materialize(CanonicalView, rows)
  /\ UNCHANGED <<catalog, identifiers, log, head, marker, checkpoint,
                 processVars, outerVars>>

\* An export is two reads of one store: the latest checkpoint, and later the
\* entries past it.
ExportCheckpoint ==
  /\ Serving
  /\ checkpoint # NoCheckpoint
  /\ exported' = [checkpoint |-> checkpoint, suffix |-> <<>>]
  /\ UNCHANGED <<diskVars, processVars, installed, spent>>

ExportSuffix ==
  /\ Serving
  /\ exported.checkpoint # NoCheckpoint
  /\ exported.checkpoint.last <= Len(head)
  /\ exported.checkpoint.digest = SubSeq(head, 1, exported.checkpoint.last)
  /\ exported' = [exported EXCEPT !.suffix = Suffix(log, exported.checkpoint.last)]
  /\ UNCHANGED <<diskVars, processVars, installed, spent>>

\* The disk is lost and a fresh store takes its place (with nothing exported
\* that is only a first start again).
Lose ==
  /\ pc = "closed"
  /\ exported # NoExport
  /\ spent.losses < MaxLosses
  /\ spent' = [spent EXCEPT !.losses = @ + 1]
  /\ catalog' = NoCatalog
  /\ rows' = EmptyRows
  /\ identifiers' = NoCounters
  /\ log' = <<>>
  /\ head' = NoDigest
  /\ marker' = 0
  /\ checkpoint' = NoCheckpoint
  /\ UNCHANGED <<processVars, installed, exported>>

\* ensure_fresh_for_import.
Fresh ==
  /\ memory = NoCatalog /\ catalog = NoCatalog
  /\ marker = 0
  /\ checkpoint = NoCheckpoint
  /\ log = <<>>

\* The suffixes this instance hands over: the empty one, one that mints
\* identifiers, and one with families the checkpoint's inventory lacks are
\* handed over only if Handed says so.
HandedOver(artifact) ==
  LET operations ==
        UNION {{artifact.suffix[n].body.operations[i] :
                  i \in DOMAIN artifact.suffix[n].body.operations} :
                 n \in DOMAIN artifact.suffix}
  IN  /\ artifact.checkpoint # NoCheckpoint
      /\ artifact.suffix = <<>> => "empty" \in Handed
      /\ (\E o \in operations : o.kind = "Assert" /\ o.key \in Identifiers)
           => "minting" \in Handed
      /\ (\E o \in operations : o.identity \notin artifact.checkpoint.families)
           => "reshaped" \in Handed

LastSequence(artifact) ==
  IF artifact.suffix = <<>> THEN artifact.checkpoint.last
  ELSE artifact.suffix[Len(artifact.suffix)].body.sequence

\* The import session: one checkpoint and its suffix, verified, into a fresh
\* store, in one transaction.  CHAIN_HEAD is written by the suffix entries.
Import ==
  LET source == exported.checkpoint
      suffix == exported.suffix
      view == Fold(source.rows, suffix)
      families == [t \in Tables |->
                     IF \E identity \in source.families : identity.table = t
                       THEN CHOOSE identity \in source.families :
                              identity.table = t
                       ELSE Absent]
  IN  /\ pc = "idle"
      /\ HandedOver(exported)
      /\ Fresh
      /\ ChainVerifies(suffix, source.digest)
      /\ DirectoryDecodes(view)
      /\ catalog' = families
      /\ memory' = families
      /\ identifiers' = source.counters
      /\ checkpoint' = source
      /\ log' = suffix
      /\ head' = IF suffix = <<>> THEN head
                 ELSE EntryDigest(suffix[Len(suffix)])
      /\ marker' = LastSequence(exported)
      /\ rows' = Materialize(view, rows)
      /\ UNCHANGED <<pc, granted, pending, outerVars>>

-----------------------------------------------------------------------------
(* Specification *)

Write ==
  \/ \E t \in Tables, k \in Keys, datum \in Data :
       AssertKeyed(t, k, datum) \/ MutateKeyed(t, k, datum)
  \/ \E t \in Tables, k \in Keys : Retract(t, k)
  \/ \E t \in Tables, datum \in Data : AssertIdentified(t, datum)
  \/ \E t \in Tables, k \in Identifiers, datum \in Data :
       MutateIdentified(t, k, datum)
  \/ \E t \in Tables, k \in Identifiers : RetractIdentified(t, k)

Next ==
  \/ \E n \in DOMAIN Components : Install(n)
  \/ Open \/ Exit \/ Retry \/ Crash
  \/ \E d \in Components[installed] : Register(d)
  \/ Write
  \/ Checkpoint \/ Tick \/ Maintain
  \/ RebuildFromLog \/ ExportCheckpoint \/ ExportSuffix \/ Lose \/ Import

Spec == Init /\ [][Next]_vars

(***************************************************************************)
(* The operating system starts the component again whenever it has ended,  *)
(* and its start-up code makes the calls it is made of: it opens the       *)
(* store, registers every family, and a call that has begun goes on to its *)
(* end.  A registration that failed may be tried again, but not for ever:  *)
(* hence strong fairness for the exit.                                     *)
(***************************************************************************)
FairSpec ==
  /\ Spec
  /\ WF_vars(Open)
  /\ WF_vars(\E d \in Components[installed] : Register(d))
  /\ WF_vars(Maintain)
  /\ SF_vars(Exit)

-----------------------------------------------------------------------------
(* Properties *)

\* The catalog on disk names the shape that every stored row of the table has,
\* whatever evolved, failed, crashed or was restored: a row is never left in a
\* shape nobody can look up (persist_family_evolution writes both in one
\* transaction, the import takes both from the artifact).
CatalogNamesShape ==
  \A t \in Tables, k \in RecordKeys :
    rows[t][k] # Absent =>
      catalog[t] # Absent /\ rows[t][k].schema = catalog[t].schema

\* Folding the latest checkpoint and the entries past it, and writing the result
\* over the tables, changes nothing: neither a row that an evolution moved to
\* another family version nor an identified row nor a retracted one comes back
\* different (rebuild_from_log, RowMaterializer).
RebuildReproduces == Materialize(CanonicalView, rows) = rows

\* A table reference in a component's hands speaks of the shape that is on
\* disk, in memory and in the component's own declaration, also after a
\* maintenance error in the middle of a registration (register_table).
GrantedMatchesDisk ==
  pc # "closed" =>
    \A t \in granted :
      /\ t \in Declared
      /\ memory[t] = Identity(Descriptor(t))
      /\ catalog[t] = memory[t]

\* Every assertion in the log carries its record in the shape its identity
\* names, and that family version is part of the store schema hash the entry is
\* stamped with: an entry can be read by whoever knows the schema it names.
EntriesNameShapes ==
  \A n \in DOMAIN log : \A i \in DOMAIN log[n].body.operations :
    LET operation == log[n].body.operations[i]
    IN  operation.kind # "Retract" =>
          /\ operation.payload.schema = operation.identity.schema
          /\ Version(operation.identity) \in log[n].body.stamp

\* The chain can always be walked from the latest checkpoint through the entries
\* past it to the chain head, whatever was compacted, evolved or restored, so
\* every new entry continues the history it came after (what checkpoint,
\* rebuild_from_log, maintenance and every mirror require).
HistoryFolds ==
  /\ FoldVerifies
  /\ Uncovered # <<>> => head = EntryDigest(Uncovered[Len(Uncovered)])

\* The counter of an identified table is past every identifier its history has
\* given out, so that none is given out twice; for the history it was restored
\* with too (next_record_identifier).
CountersAhead ==
  \A n \in DOMAIN head : \A i \in DOMAIN head[n].operations :
    LET operation == head[n].operations[i]
    IN  operation.identity.table \in IdentifiedTables =>
          operation.key < identifiers[operation.identity.table]

\* After an import "the store's counters [...] are indistinguishable from the
\* original at the imported range; new writes continue the imported digest
\* chain", and "identified families restore through checkpoint import [...],
\* which preserve identifiers and counters" (ARCHITECTURE.md).  At least one of
\* the two holds of a store that was restored: what refutes this has lost both.
RestoredInPart == HistoryFolds \/ CountersAhead

-----------------------------------------------------------------------------
(* The abstract store *)

DatumOf(record) == IF record = Absent THEN Absent ELSE record.datum

\* What the records say once the bodies of a digest have been applied, table by
\* table and without the fold's detour over family versions.
Say(said, operations) ==
  LET after[i \in 0 .. Len(operations)] ==
        IF i = 0 THEN said
        ELSE [after[i - 1] EXCEPT
                ![operations[i].identity.table][operations[i].key] =
                  DatumOf(operations[i].payload)]
  IN  after[Len(operations)]

SaidAfter(digest) ==
  LET said[n \in 0 .. Len(digest)] ==
        IF n = 0 THEN [t \in Tables |-> [k \in RecordKeys |-> Absent]]
        ELSE Say(said[n - 1], digest[n].operations)
  IN  [n \in DOMAIN digest |-> said[n]]

Logical ==
  INSTANCE RecordStore WITH
    records <- [t \in Tables |-> [k \in RecordKeys |-> DatumOf(rows[t][k])]],
    history <- SaidAfter(head),
    archive <- SaidAfter(
      IF exported.suffix = <<>> THEN exported.checkpoint.digest
      ELSE EntryDigest(exported.suffix[Len(exported.suffix)]))

\* To its component the store is one of records that change one at a time:
\* evolution, checkpoint, compaction, rebuild and crash change no record, an
\* identifier is given out once, and an import brings back exactly the records
\* and the history that were exported.
ImplementsRecords == Logical!Spec

\* Once the newest release is the one that runs, its families are registered
\* for good, whatever failed on the way: no crash and no error in the middle of
\* an evolution leaves a store its own component cannot open any more.
UpgradeCompletes ==
  <>[](installed = Len(Components)) => <>[](granted = Declared)

=============================================================================
