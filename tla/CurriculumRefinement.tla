------------------------ MODULE CurriculumRefinement ------------------------
(***************************************************************************)
(* CurriculumCatalog implements PublishedLog: the version table of an item *)
(* is its log, the mutable head row its draft, and the catalogues are sent *)
(* without the head's columns that stand beside the payloads.              *)
(***************************************************************************)
EXTENDS CurriculumCatalog

DraftOf(i) == IF Exists(i) THEN heads[i].draft ELSE None

LineOf(e) == [item |-> e.item, version |-> e.version, payload |-> e.payload]

Log == INSTANCE PublishedLog WITH
    Nothing     <- None,
    Publishable <- {pair \in Items \X Payloads : IsMaterial(pair[1]) => pair[2] \in Approved},
    draft       <- [i \in Items |-> DraftOf(i)],
    log         <- versions,
    sent        <- [r \in Readers |-> {LineOf(e) : e \in shown[r]}]

\* The catalogue is a log: a publication of several statements that may fail
\* appends the draft of the moment of its commit, with its rights approved, or
\* nothing; no version is skipped or changed; and a catalogue read level by
\* level has one line of an item, taken from its log and none older than before.
ImplementsLog == Log!LogSpec
=============================================================================
