-------------------------- MODULE CurriculumCatalog --------------------------
(***************************************************************************)
(* The curriculum catalogue: domain/CurriculumRepository.ts and            *)
(* VersioningService.ts over the tables of persistence/schema.ts.          *)
(*                                                                         *)
(* Curricula, grades, phases, subjects, outcomes and materials form a      *)
(* chain, here the levels 1 .. Depth with the materials at the bottom.  An *)
(* item is a mutable head row, which holds the draft, and a table of       *)
(* versions.  A call is a list of statements; publish runs its own in a    *)
(* transaction that locks the head row, whose writes the others see when   *)
(* it commits.                                                             *)
(*                                                                         *)
(* Left out: the missing-field checks, the ordering and unique codes of    *)
(* siblings, ETags (the projection itself is compared) and the write       *)
(* token.                                                                  *)
(***************************************************************************)
EXTENDS Integers, FiniteSets, FiniteSetsExt

CONSTANTS
    Items, Depth,
    Level,           \* item -> its place in the chain
    Tenants, Payloads,
    Approved,        \* drafts whose source rights a material may be published with
    Inactive,        \* drafts of a curriculum with the active flag off
    Publishers, Authors, Readers,    \* calls in flight of each kind
    None,
    MaxVersions,     \* bound: no publication starts with this many versions in all
    MaxDraft,        \* bound: no edit of a head from this current_version on
    MaxFaults        \* bound: statements that fail

ASSUME CatalogAssumption ==
    /\ Depth \in Nat \ {0, 1}
    /\ Level \in [Items -> 1 .. Depth]
    /\ Approved \subseteq Payloads /\ Inactive \subseteq Payloads
    /\ MaxVersions \in Nat /\ MaxDraft \in Nat /\ MaxFaults \in Nat

VARIABLES
    heads,           \* item -> its head row, or None
    versions,        \* item -> version -> payload: the committed rows
    publishing,      \* publisher -> its call, or None
    creating,        \* author -> its call of createDraft, or None
    reading,         \* reader -> its call, or None
    shown,           \* reader -> the last catalogue it was sent, as a set
    clashed,         \* an insert met the unique index
    faults

vars == <<heads, versions, publishing, creating, reading, shown, clashed, faults>>

Rows(parents) == [tenant : Tenants, parent : parents, curriculum : Items,
                  draft : Payloads, current : Nat \ {0}, published : Nat \cup {None}]

CurriculumRows == Rows({None})

\* Grades, phases, subjects, outcomes and materials name their parent and,
\* like the tenant, their curriculum.
ChainRows == Rows(Items)

Heads == CurriculumRows \cup ChainRows

\* version -> payload; the unique index makes it a function.
VersionRows(table) ==
    /\ DOMAIN table \subseteq Nat \ {0}
    /\ \A v \in DOMAIN table : table[v] \in Payloads

Entries == [item : Items, version : Nat, payload : Payloads, columns : Payloads]

ASSUME NoneAssumption == None \notin Heads /\ None \notin Nat

Publications ==
    [item : Items, at : {"lock", "check", "number", "insert", "commit"},
     head : Heads \cup {None}, version : Nat]

\* Type invariant.
TypeOK ==
    /\ heads \in [Items -> Heads \cup {None}]
    /\ \A i \in Items : VersionRows(versions[i])
    /\ publishing \in [Publishers -> Publications \cup {None}]
    /\ creating \in [Authors -> [item : Items, head : Heads] \cup {None}]
    /\ reading \in [Readers -> [curriculum : Items, levels : SUBSET (1 .. Depth),
                                rows : SUBSET Entries] \cup {None}]
    /\ shown \in [Readers -> SUBSET Entries]
    /\ clashed \in BOOLEAN
    /\ faults \in 0 .. MaxFaults

Init ==
    /\ heads = [i \in Items |-> None]
    /\ versions = [i \in Items |-> << >>]
    /\ publishing = [p \in Publishers |-> None]
    /\ creating = [a \in Authors |-> None]
    /\ reading = [r \in Readers |-> None]
    /\ shown = [r \in Readers |-> {}]
    /\ clashed = FALSE
    /\ faults = 0

IsMaterial(i) == Level[i] = Depth

Exists(i) == heads[i] # None

-----------------------------------------------------------------------------
(* createDraft *)

NewHead(tenant, parent, curriculum, payload) ==
    [tenant |-> tenant, parent |-> parent, curriculum |-> curriculum,
     draft |-> payload, current |-> 1, published |-> None]

\* A curriculum names its tenant; any other item takes tenant and curriculum
\* from the row of its parent, which is read first.
InheritFromParent(a, i, payload) ==
    /\ creating[a] = None
    /\ ~Exists(i) /\ \A b \in Authors : creating[b] # None => creating[b].item # i
    /\ \/ /\ Level[i] = 1
          /\ \E t \in Tenants :
                creating' = [creating EXCEPT ![a] =
                    [item |-> i, head |-> NewHead(t, None, i, payload)]]
       \/ \E p \in Items :
             /\ Level[i] = Level[p] + 1 /\ Exists(p)
             /\ creating' = [creating EXCEPT ![a] =
                    [item |-> i,
                     head |-> NewHead(heads[p].tenant, p, heads[p].curriculum, payload)]]
    /\ UNCHANGED <<heads, versions, publishing, reading, shown, clashed, faults>>

InsertHead(a) ==
    /\ creating[a] # None
    /\ heads' = [heads EXCEPT ![creating[a].item] = creating[a].head]
    /\ creating' = [creating EXCEPT ![a] = None]
    /\ UNCHANGED <<versions, publishing, reading, shown, clashed, faults>>

-----------------------------------------------------------------------------
(* publish *)

\* The transaction that holds the lock of the item's head row.
Locks(p, i) == publishing[p] # None /\ publishing[p].item = i /\ publishing[p].at # "lock"

\* Mutant of HeadFree: the head row is read without "for update".
AlwaysFree(i) == TRUE

HeadFree(i) == \A p \in Publishers : ~Locks(p, i)

RightsApproved(i, head) == IsMaterial(i) => head.draft \in Approved

AllVersions == UNION {{i} \X DOMAIN versions[i] : i \in Items}

\* The gate of VersioningService, before the transaction.
Gate(p, i) ==
    /\ publishing[p] = None
    /\ Exists(i)
    /\ RightsApproved(i, heads[i])
    /\ Cardinality(AllVersions) < MaxVersions
    /\ publishing' = [publishing EXCEPT ![p] =
           [item |-> i, at |-> "lock", head |-> None, version |-> 0]]
    /\ UNCHANGED <<heads, versions, creating, reading, shown, clashed, faults>>

\* begin; select ... for update.
LockHead(p) ==
    /\ publishing[p] # None /\ publishing[p].at = "lock"
    /\ HeadFree(publishing[p].item)
    /\ publishing' = [publishing EXCEPT ![p].at = "check",
                                        ![p].head = heads[publishing[p].item]]
    /\ UNCHANGED <<heads, versions, creating, reading, shown, clashed, faults>>

End(p) == publishing' = [publishing EXCEPT ![p] = None]

\* Mutant of CheckRights: the check before the transaction is trusted.
TrustTheGate(p) ==
    /\ publishing[p] # None /\ publishing[p].at = "check"
    /\ publishing' = [publishing EXCEPT ![p].at = "number"]
    /\ UNCHANGED <<heads, versions, creating, reading, shown, clashed, faults>>

\* The same gate on the locked row; otherwise rollback.
CheckRights(p) ==
    /\ publishing[p] # None /\ publishing[p].at = "check"
    /\ IF RightsApproved(publishing[p].item, publishing[p].head)
       THEN publishing' = [publishing EXCEPT ![p].at = "number"]
       ELSE End(p)
    /\ UNCHANGED <<heads, versions, creating, reading, shown, clashed, faults>>

\* coalesce(max(version), 0) + 1, over the committed rows.
NumberVersion(p) ==
    /\ publishing[p] # None /\ publishing[p].at = "number"
    /\ publishing' = [publishing EXCEPT
           ![p].version = Max(DOMAIN versions[publishing[p].item] \cup {0}) + 1,
           ![p].at = "insert"]
    /\ UNCHANGED <<heads, versions, creating, reading, shown, clashed, faults>>

\* The version row.  The unique index waits for a transaction that has inserted
\* the same number, and refuses a number that is committed.
InsertVersion(p) ==
    /\ publishing[p] # None /\ publishing[p].at = "insert"
    /\ \A q \in Publishers \ {p} :
          Locks(q, publishing[p].item) /\ publishing[q].at = "commit"
              => publishing[q].version # publishing[p].version
    /\ IF publishing[p].version \in DOMAIN versions[publishing[p].item]
       THEN End(p) /\ clashed' = TRUE
       ELSE /\ publishing' = [publishing EXCEPT ![p].at = "commit"]
            /\ UNCHANGED clashed
    /\ UNCHANGED <<heads, versions, creating, reading, shown, faults>>

\* The pointers of the head row, and the commit, which shows the new version.
CommitVersion(p) ==
    /\ publishing[p] # None /\ publishing[p].at = "commit"
    /\ LET i == publishing[p].item
           v == publishing[p].version
       IN  /\ versions' = [versions EXCEPT ![i] = [w \in DOMAIN @ \cup {v} |->
                              IF w = v THEN publishing[p].head.draft ELSE @[w]]]
           /\ heads' = [heads EXCEPT ![i].published = v, ![i].current = v]
    /\ End(p)
    /\ UNCHANGED <<creating, reading, shown, clashed, faults>>

\* A statement fails: rollback.
Fault(p) ==
    /\ publishing[p] # None
    /\ faults < MaxFaults
    /\ faults' = faults + 1
    /\ End(p)
    /\ UNCHANGED <<heads, versions, creating, reading, shown, clashed>>

-----------------------------------------------------------------------------
(* updateDraft *)

\* An edit waits for the row lock.  The columns that end in _id are not taken.
Editable(i) == Exists(i) /\ HeadFree(i) /\ heads[i].current < MaxDraft

\* Mutant of UpdateDraft: the published version is corrected in place.
UpdateInPlace(i) ==
    /\ Editable(i)
    /\ \E d \in Payloads :
         /\ heads' = [heads EXCEPT ![i].draft = d, ![i].current = @ + 1]
         /\ versions' = [versions EXCEPT ![i] = [v \in DOMAIN @ |->
                            IF v = heads[i].published THEN d ELSE @[v]]]
    /\ UNCHANGED <<publishing, creating, reading, shown, clashed, faults>>

UpdateDraft(i) ==
    /\ Editable(i)
    /\ \E d \in Payloads : heads' = [heads EXCEPT ![i].draft = d, ![i].current = @ + 1]
    /\ UNCHANGED <<versions, publishing, creating, reading, shown, clashed, faults>>

-----------------------------------------------------------------------------
(* readPublishedCatalogByTenantSlug *)

\* Mutant of Entry: the payload is read from the head row, too.
EntryOfHead(i) == [item |-> i, version |-> heads[i].published,
                   payload |-> heads[i].draft, columns |-> heads[i].draft]

\* A head row joined with the version it points to; the columns of the head
\* stand beside the payload.
Entry(i) == [item |-> i, version |-> heads[i].published,
             payload |-> versions[i][heads[i].published], columns |-> heads[i].draft]

Published(i) == Exists(i) /\ heads[i].published \in DOMAIN versions[i]

\* A curriculum of the tenant that is published and active: any of them, where
\* the code takes the one created last.
FindCurriculum(r, t) ==
    /\ reading[r] = None
    /\ \E c \in Items :
         /\ Level[c] = 1 /\ Published(c) /\ heads[c].tenant = t
         /\ heads[c].draft \notin Inactive
         /\ reading' = [reading EXCEPT ![r] =
                [curriculum |-> c, levels |-> 2 .. Depth, rows |-> {Entry(c)}]]
    /\ UNCHANGED <<heads, versions, publishing, creating, shown, clashed, faults>>

PublishedRows(c, level) ==
    {Entry(i) : i \in {j \in Items : /\ Level[j] = level /\ Published(j)
                                     /\ heads[j].tenant = heads[c].tenant
                                     /\ heads[j].curriculum = c}}

\* The queries of the other levels run side by side, each on its own snapshot;
\* after the last one the catalogue is sent.
ReadLevel(r) ==
    /\ reading[r] # None
    /\ \E level \in reading[r].levels :
         LET rows == reading[r].rows \cup PublishedRows(reading[r].curriculum, level)
             left == reading[r].levels \ {level}
         IN  IF left # {}
             THEN /\ reading' = [reading EXCEPT ![r].levels = left, ![r].rows = rows]
                  /\ UNCHANGED shown
             ELSE /\ reading' = [reading EXCEPT ![r] = None]
                  /\ shown' = [shown EXCEPT ![r] = rows]
    /\ UNCHANGED <<heads, versions, publishing, creating, clashed, faults>>

-----------------------------------------------------------------------------

Publish(p) == \/ LockHead(p) \/ CheckRights(p) \/ NumberVersion(p)
              \/ InsertVersion(p) \/ CommitVersion(p)

Next ==
    \/ \E a \in Authors : InsertHead(a) \/
          \E i \in Items, d \in Payloads : InheritFromParent(a, i, d)
    \/ \E p \in Publishers : Publish(p) \/ Fault(p) \/ \E i \in Items : Gate(p, i)
    \/ \E i \in Items : UpdateDraft(i)
    \/ \E r \in Readers : ReadLevel(r) \/ \E t \in Tenants : FindCurriculum(r, t)

Spec == Init /\ [][Next]_vars

-----------------------------------------------------------------------------
(* Properties *)

\* The row lock alone serialises publishers: the unique index on item and
\* version never has to refuse one, although the number is read from the
\* version table and not from the locked row.
PublishersNeverClash == ~clashed

\* No material version has source rights that are not approved, although they
\* can be edited between the gate, the transaction and its commit.
PublishedRightsApproved ==
    \A i \in Items : IsMaterial(i) =>
        \A v \in DOMAIN versions[i] : versions[i][v] \in Approved

\* A published version is the head row as it stands when the transaction
\* commits: no edit is overtaken by an older payload.
CommitsWhatIsLocked ==
    \A p \in Publishers : publishing[p] # None /\ publishing[p].at \in {"insert", "commit"}
        => publishing[p].head = heads[publishing[p].item]

\* From one catalogue a reader is sent to the next, no item falls back to an
\* older version, and a version keeps its payload, although the levels are
\* read by statements of their own.
CatalogAdvances ==
    [][\A r \in Readers : \A old \in shown[r], new \in shown'[r] : new.item = old.item =>
          /\ new.version >= old.version
          /\ new.version = old.version => new.payload = old.payload]_vars

\* A draft is in no response: the columns that a catalogue sends of an item are
\* those of the version it names.  The columns are the head row's, and an edit
\* after the publication changes them.
DraftsNeverAppear ==
    \A r \in Readers : \A entry \in shown[r] : entry.columns = entry.payload
=============================================================================
