--------------------------- MODULE MCEntryService ---------------------------
(* Small instances of EntryService: all messages of one student. *)
EXTENDS EntryService

CONSTANTS e1, e2, s1, r1, r2

OneSender == [e \in Events |-> s1]
=============================================================================
