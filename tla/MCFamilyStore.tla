---------------------------- MODULE MCFamilyStore ----------------------------
(***************************************************************************)
(* Instance of FamilyStore: a keyed family whose second release has        *)
(* another shape and declares the first as its prior, and an identified    *)
(* family that both releases share.                                        *)
(***************************************************************************)
EXTENDS FamilyStore

CONSTANTS Notes, Tickets, Note, Ticket

Old == 1
New == 2

MCTables == {Notes, Tickets}
MCIdentifiedTables == {Tickets}
MCFamilies == {Note, Ticket}
MCSchemas == {Old, New}

MCComponents ==
  LET tickets == [table |-> Tickets, family |-> Ticket, schema |-> Old, priors |-> {}]
      notes(schema, priors) ==
        [table |-> Notes, family |-> Note, schema |-> schema, priors |-> priors]
  IN  << {notes(Old, {}), tickets}, {notes(New, {Old}), tickets} >>

=============================================================================
