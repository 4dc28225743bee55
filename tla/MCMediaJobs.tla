----------------------------- MODULE MCMediaJobs -----------------------------
(***************************************************************************)
(* Small instances of MediaJobs.                                            *)
(***************************************************************************)
EXTENDS MediaJobs, TLC

OneAttachment  == {1}
TwoAttachments == {1, 2}

\* Every attachment belongs to the same student; students share no rows.
OneOwner == [m \in Media |-> CHOOSE s \in Students : TRUE]

\* Every attachment has the same bytes.
SameContent == [m \in Media |-> CHOOSE c \in Contents : TRUE]

\* Every attachment is a PDF with all its pages to read, or a voice note.
EveryPage == [m \in Media |-> Pages]
FirstPage == [m \in Media |-> Pages \cap {1}]

\* Workers are interchangeable; no definition chooses one.
WorkerSymmetry == Permutations(Workers)
=============================================================================
