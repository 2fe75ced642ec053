---------------------------- MODULE MarketingCms ----------------------------
(***************************************************************************)
(* One marketing page edited through domain/MarketingOpsService.ts and     *)
(* read by the public through domain/MarketingRepository.ts.               *)
(*                                                                         *)
(* A call of the service is a list of statements; between two of them the  *)
(* statements of other calls run.  Each statement borrows a client of the  *)
(* pool for itself.  publish also keeps a client for its transaction, but  *)
(* the statements inside run on the pool: each commits by itself, and a    *)
(* rollback undoes none of them.                                           *)
(*                                                                         *)
(* An editor has one call in flight and sends as If-Match the revision it  *)
(* was last shown.  Left out: the audit callback, to which the routes pass *)
(* an empty function, the permission callback, which they pass empty too,  *)
(* list and preview, which change nothing, and the global document, which  *)
(* no code writes.                                                         *)
(***************************************************************************)
EXTENDS MarketingPayload, FiniteSets

CONSTANTS
    Editors, Readers,
    Payloads,        \* drafts an editor may send
    Document,        \* draft -> its structure, see MarketingPayload
    PoolMax,         \* clients of the connection pool
    MaxRevision,     \* bound: no edit starts from this revision on
    MaxVersion,      \* bound: no publish starts with this many versions
    MaxFaults        \* bound: statements that fail

ASSUME CmsAssumption ==
    /\ PoolMax \in Nat \ {0}
    /\ MaxRevision \in Nat /\ MaxVersion \in Nat /\ MaxFaults \in Nat

VARIABLES
    page,            \* the row of marketing_content
    versions,        \* version -> its row of marketing_content_versions
    seen,            \* editor -> revision and draft of its last answer
    calls,           \* editor -> its call in flight
    held,            \* editors whose transaction keeps a client
    cached,          \* reader -> the document it has cached, or None
    faults,
    overlapped       \* two editing calls have been in flight together

vars == <<page, versions, seen, calls, held, cached, faults, overlapped>>

Versions == Nat \ {0}

Pages == [draft : Payloads \cup {None}, revision : Nat,
          published : Versions \cup {None}, current : Versions,
          state : {"draft", "published", "unpublished"}]

VersionRows == [payload : Payloads, revision : Nat]

Operations == {"saveDraft", "publish", "unpublish", "restore"}

Statements == {"fetch", "update", "begin", "insert", "point", "commit", "withdraw", "page"}

\* A call: the statement it is at, its inputs and the rows it has read.
Calls == [op : Operations, at : Statements, payload : Payloads \cup {None},
          version : Versions \cup {None}, row : Pages \cup {None}]

Documents == [version : Versions, payload : Payloads]

ASSUME NoneAssumption ==
    /\ None \notin Payloads /\ None \notin Nat
    /\ None \notin Pages /\ None \notin Calls /\ None \notin Documents

\* Type invariant.
TypeOK ==
    /\ page \in Pages
    /\ DOMAIN versions \subseteq Versions
    /\ \A v \in DOMAIN versions : versions[v] \in VersionRows
    /\ seen \in [Editors -> [revision : Nat, draft : Payloads \cup {None}]]
    /\ calls \in [Editors -> Calls \cup {None}]
    /\ held \subseteq Editors
    /\ cached \in [Readers -> Documents \cup {None}]
    /\ faults \in 0 .. MaxFaults
    /\ overlapped \in BOOLEAN

\* Pages are seeded from outside: without content, or with a published version.
Fresh == /\ page = [draft |-> None, revision |-> 1, published |-> None,
                    current |-> 1, state |-> "draft"]
         /\ versions = << >>

Seeded == \E p \in Payloads :
    /\ ~Document[p].oversize
    /\ page = [draft |-> None, revision |-> 1, published |-> 1,
               current |-> 1, state |-> "published"]
    /\ versions = [v \in {1} |-> [payload |-> p, revision |-> 1]]

Init ==
    /\ Fresh \/ Seeded
    /\ seen = [e \in Editors |-> [revision |-> page.revision, draft |-> page.draft]]
    /\ calls = [e \in Editors |-> None]
    /\ held = {}
    /\ cached = [r \in Readers |-> None]
    /\ faults = 0
    /\ overlapped = FALSE

-----------------------------------------------------------------------------
(* The life of a call *)

Running(e) == calls[e] # None

At(e, statement) == Running(e) /\ calls[e].at = statement

\* A statement waits for a free client.
ClientFree == Cardinality(held) < PoolMax

GoTo(e, statement) == calls' = [calls EXCEPT ![e].at = statement]

Answer(e) == calls' = [calls EXCEPT ![e] = None]

\* The edit is made: what the answer shows is read anew.
Reread(e) == calls' = [calls EXCEPT ![e] =
    [op |-> calls[e].op, at |-> "page", payload |-> None, version |-> None, row |-> None]]

\* Mutant of RevisionMatches: saveDraft does not compare the revision.
MatchesUnlessSaving(e, op) == op \notin {"restore", "saveDraft"} => page.revision = seen[e].revision

\* The comparison with If-Match, on the row just read; restore makes none.
RevisionMatches(e, op) == op # "restore" => page.revision = seen[e].revision

\* A call starts by reading the row.  One that answers 409, because the
\* revision does not match, or 400 (below) has changed nothing.
Start(e, op, payload, version, statement) ==
    /\ ~Running(e)
    /\ ClientFree
    /\ page.revision < MaxRevision
    /\ RevisionMatches(e, op)
    /\ calls' = [calls EXCEPT ![e] = [op |-> op, at |-> statement, payload |-> payload,
                                      version |-> version, row |-> page]]
    /\ overlapped' = (overlapped \/ \E d \in Editors : Running(d))
    /\ UNCHANGED <<page, versions, seen, held, cached, faults>>

SaveDraft(e) == \E p \in Payloads :
    /\ ~Document[p].oversize
    /\ Start(e, "saveDraft", p, None, "update")

Publish(e) ==
    /\ page.draft # None
    /\ Cardinality(DOMAIN versions) < MaxVersion
    /\ Start(e, "publish", None, None, "begin")

Unpublish(e) == Start(e, "unpublish", None, None, "withdraw")

Restore(e) == \E v \in 1 .. MaxVersion :
    /\ Start(e, "restore", None, v, "fetch")

-----------------------------------------------------------------------------
(* saveDraft and restore *)

\* restore: the payload of the version it was asked for.
FetchVersion(e) ==
    /\ At(e, "fetch")
    /\ ClientFree
    /\ IF calls[e].version \in DOMAIN versions
       THEN calls' = [calls EXCEPT ![e].payload = versions[calls[e].version].payload,
                                   ![e].at = "update"]
       ELSE Answer(e)
    /\ UNCHANGED <<page, versions, seen, held, cached, faults, overlapped>>

\* The update has no condition on the revision: it takes the one that was read.
UpdateDraft(e) ==
    /\ At(e, "update")
    /\ ClientFree
    /\ page' = [page EXCEPT !.draft = calls[e].payload,
                            !.revision = calls[e].row.revision + 1]
    /\ Reread(e)
    /\ UNCHANGED <<versions, seen, held, cached, faults, overlapped>>

-----------------------------------------------------------------------------
(* publish *)

\* The row read says unpublished after an unpublish: the count starts again.
NewVersion(e) == IF calls[e].row.published = None THEN 1
                 ELSE calls[e].row.published + 1

\* The transaction takes a client and keeps it.
BeginTransaction(e) ==
    /\ At(e, "begin")
    /\ ClientFree
    /\ held' = held \cup {e}
    /\ GoTo(e, "insert")
    /\ UNCHANGED <<page, versions, seen, cached, faults, overlapped>>

\* Mutant of RollBack: an error leaves the transaction open.
RollBackKeepingClient(e) == held' = held /\ Answer(e)

\* An error inside the callback: rollback, release, answer 500.
RollBack(e) == held' = held \ {e} /\ Answer(e)

PublishedRow(e) == [payload |-> calls[e].row.draft,
                    revision |-> calls[e].row.revision + 1]

\* Mutant of VersionTaken: inserting over an existing version succeeds.
NeverTaken(v) == FALSE

\* marketing_content_versions_content_version_unique.
VersionTaken(v) == v \in DOMAIN versions

\* The version row, on a client of its own and committed at once.
InsertVersion(e) ==
    /\ At(e, "insert")
    /\ ClientFree
    /\ IF VersionTaken(NewVersion(e))
       THEN RollBack(e) /\ UNCHANGED versions
       ELSE /\ versions' = [v \in DOMAIN versions \cup {NewVersion(e)} |->
                               IF v = NewVersion(e) THEN PublishedRow(e) ELSE versions[v]]
            /\ GoTo(e, "point")
            /\ UNCHANGED held
    /\ UNCHANGED <<page, seen, cached, faults, overlapped>>

\* Mutant of PointToVersion: the pointer counts on from current_version.
PointPastCurrent(e) ==
    /\ At(e, "point")
    /\ ClientFree
    /\ page' = [page EXCEPT !.current = @ + 1, !.published = page.current + 1,
                            !.revision = calls[e].row.revision + 1,
                            !.state = "published"]
    /\ GoTo(e, "commit")
    /\ UNCHANGED <<versions, seen, held, cached, faults, overlapped>>

\* The public pointer, likewise.
PointToVersion(e) ==
    /\ At(e, "point")
    /\ ClientFree
    /\ page' = [page EXCEPT !.current = NewVersion(e), !.published = NewVersion(e),
                            !.revision = calls[e].row.revision + 1,
                            !.state = "published"]
    /\ GoTo(e, "commit")
    /\ UNCHANGED <<versions, seen, held, cached, faults, overlapped>>

\* The empty transaction commits on the client it holds.
Commit(e) ==
    /\ At(e, "commit")
    /\ held' = held \ {e}
    /\ Reread(e)
    /\ UNCHANGED <<page, versions, seen, cached, faults, overlapped>>

-----------------------------------------------------------------------------
(* unpublish *)

Withdraw(e) ==
    /\ At(e, "withdraw")
    /\ ClientFree
    /\ page' = [page EXCEPT !.state = "unpublished", !.published = None,
                            !.revision = calls[e].row.revision + 1]
    /\ Reread(e)
    /\ UNCHANGED <<versions, seen, held, cached, faults, overlapped>>

-----------------------------------------------------------------------------
(* getPageForOps: what the editor is shown *)

Show(e) == seen' = [seen EXCEPT ![e] = [revision |-> page.revision, draft |-> page.draft]]

\* The last two statements of every edit: the row, and the list of versions,
\* which shows no revision to send back.
ReadPage(e) ==
    /\ At(e, "page")
    /\ ClientFree
    /\ Show(e)
    /\ Answer(e)
    /\ UNCHANGED <<page, versions, held, cached, faults, overlapped>>

\* The same, asked for by itself.
GetPage(e) ==
    /\ ~Running(e)
    /\ ClientFree
    /\ Show(e)
    /\ UNCHANGED <<page, versions, calls, held, cached, faults, overlapped>>

\* A statement fails or the connection breaks: the call answers 500.
Fault(e) ==
    /\ faults < MaxFaults
    /\ Running(e)
    /\ RollBack(e)
    /\ faults' = faults + 1
    /\ UNCHANGED <<page, versions, seen, cached, overlapped>>

-----------------------------------------------------------------------------
(* The public read *)

\* The version that the pointer names; no row without either.
PublishedVersion ==
    IF page.published \in DOMAIN versions
    THEN [version |-> page.published, payload |-> versions[page.published].payload]
    ELSE None

\* readPage with If-None-Match: the document, a 304 for the one already
\* cached, a 404 without a version, a 400 for a payload that fails its checks.
ReadPublic(r) ==
    /\ ClientFree
    /\ PublishedVersion # None
    /\ RequirePagePayload(Document[PublishedVersion.payload])
    /\ cached' = [cached EXCEPT ![r] = PublishedVersion]
    /\ UNCHANGED <<page, versions, seen, calls, held, faults, overlapped>>

-----------------------------------------------------------------------------

Begin(e) == SaveDraft(e) \/ Publish(e) \/ Unpublish(e) \/ Restore(e) \/ GetPage(e)

Continue(e) ==
    \/ FetchVersion(e) \/ UpdateDraft(e) \/ BeginTransaction(e) \/ InsertVersion(e)
    \/ PointToVersion(e) \/ Commit(e) \/ Withdraw(e) \/ ReadPage(e)

Next ==
    \/ \E e \in Editors : Begin(e) \/ Continue(e) \/ Fault(e)
    \/ \E r \in Readers : ReadPublic(r)

Spec == Init /\ [][Next]_vars

-----------------------------------------------------------------------------
(* Properties *)

\* The public pointer never names a version that is not there, whatever
\* publish, unpublish and failing statements leave half done: the pointer is
\* written after the row it names.
PublicPointerResolves == page.published # None => page.published \in DOMAIN versions

\* Edits that never overlap lose nothing: the row that a save, a publish or an
\* unpublish acts on is the one whose draft its editor was shown.  With
\* overlapping edits a revision may name two drafts.
SerialEditsSeeTheirBase ==
    ~overlapped => \A e \in Editors :
        Running(e) /\ calls[e].at \in {"update", "begin", "insert", "point", "withdraw"}
                   /\ calls[e].op # "restore"
            => calls[e].row.draft = seen[e].draft

\* A reader never goes back to an older version of the page, and a version it
\* has cached never changes, whatever interleaving of publish and unpublish
\* leads to the next one.
ReadersNeverGoBack ==
    [][\A r \in Readers : cached[r] # None =>
          /\ cached'[r].version >= cached[r].version
          /\ cached'[r].version = cached[r].version => cached'[r] = cached[r]]_vars

\* However a publish ends, the client of its transaction goes back to the pool;
\* so with more clients than editors no statement waits for ever.  (As many
\* publishes as clients do: each holds one and waits for another.)
ClientsComeBack == \A e \in held : Running(e) /\ calls[e].at \in {"insert", "point", "commit"}

\* STATE-MACHINES.md: a restored draft "follows normal publish".  A publish
\* that is alone in the system, with the current revision and a draft, is not
\* refused.
PublishFindsItsVersionFree ==
    ~overlapped /\ faults = 0 => \A e \in Editors :
        At(e, "insert") => NewVersion(e) \notin DOMAIN versions
=============================================================================
