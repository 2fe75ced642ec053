------------------------- MODULE MarketingCmsProofs -------------------------
(***************************************************************************)
(* Theorems about MarketingCms, for any editors, readers, drafts, pool and *)
(* bounds: types, the pool's clients, the public pointer, that readers     *)
(* never go back, and that serial edits act on what their editor saw.      *)
(***************************************************************************)
EXTENDS MarketingCms, TLAPS

USE DEF Versions

\* Until its last statement a call holds the row it has read; a publish has
\* read a draft.
RowsRead == \A e \in Editors : Running(e) =>
    /\ calls[e].at # "page" => calls[e].row # None
    /\ calls[e].at \in {"begin", "insert"} => calls[e].row.draft # None

TypeInv == TypeOK /\ RowsRead

\* Every step keeps the types.
LEMMA TypeStep == TypeInv /\ [Next]_vars => TypeInv'
<1> SUFFICES ASSUME TypeInv, [Next]_vars PROVE TypeInv'
    OBVIOUS
<1> USE CmsAssumption, NoneAssumption DEF TypeOK, RowsRead, TypeInv, Operations, Statements, Running, At
<1>1. ASSUME NEW e \in Editors, NEW op \in Operations, NEW p \in Payloads \cup {None},
             NEW v \in Versions \cup {None}, NEW s \in Statements, Start(e, op, p, v, s),
             s \in {"begin", "insert"} => page.draft # None
      PROVE TypeInv'
    BY <1>1 DEF Start, Calls, Pages
<1>2. ASSUME NEW e \in Editors, SaveDraft(e) PROVE TypeInv'
    BY <1>1, <1>2 DEF SaveDraft
<1>3. ASSUME NEW e \in Editors, Publish(e) PROVE TypeInv'
    BY <1>1, <1>3 DEF Publish
<1>4. ASSUME NEW e \in Editors, Unpublish(e) PROVE TypeInv'
    BY <1>1, <1>4 DEF Unpublish
<1>5. ASSUME NEW e \in Editors, Restore(e) PROVE TypeInv'
    BY <1>1, <1>5 DEF Restore
<1>6. ASSUME NEW e \in Editors, GetPage(e) PROVE TypeInv'
    BY <1>6 DEF GetPage, Show, Pages
<1>7. ASSUME NEW e \in Editors, FetchVersion(e) PROVE TypeInv'
  <2>1. calls[e] \in Calls /\ calls[e].row # None
      BY <1>7 DEF FetchVersion
  <2>2. CASE calls[e].version \in DOMAIN versions
    <3>1. [calls[e] EXCEPT !.payload = versions[calls[e].version].payload,
                           !.at = "update"] \in Calls
        BY <2>1, <2>2 DEF Calls, VersionRows
    <3>2. QED
        BY <1>7, <2>1, <2>2, <3>1 DEF FetchVersion, Calls
  <2>3. CASE calls[e].version \notin DOMAIN versions
      BY <1>7, <2>3 DEF FetchVersion, Answer
  <2>4. QED
      BY <2>2, <2>3
<1>8. ASSUME NEW e \in Editors, UpdateDraft(e) PROVE TypeInv'
  <2>1. calls[e] \in Calls /\ calls[e].row \in Pages
      BY <1>8 DEF UpdateDraft, Calls
  <2>2. page' \in Pages
    <3>1. /\ calls[e].row.revision + 1 \in Nat /\ calls[e].payload \in Payloads \cup {None}
          /\ page \in Pages
        BY <2>1 DEF Calls, Pages
    <3>2. page' = [page EXCEPT !.draft = calls[e].payload,
                               !.revision = calls[e].row.revision + 1]
        BY <1>8 DEF UpdateDraft
    <3> HIDE DEF TypeInv, TypeOK, RowsRead
    <3>3. QED
        BY <3>1, <3>2 DEF Pages
  <2>3. QED
      BY <1>8, <2>1, <2>2 DEF UpdateDraft, Reread, Calls
<1>9. ASSUME NEW e \in Editors, BeginTransaction(e) PROVE TypeInv'
  <2>1. calls[e] \in Calls /\ calls[e].row # None /\ calls[e].row.draft # None
      BY <1>9 DEF BeginTransaction
  <2>2. [calls[e] EXCEPT !.at = "insert"] \in Calls
      BY <2>1 DEF Calls
  <2>3. QED
      BY <1>9, <2>1, <2>2 DEF BeginTransaction, GoTo, Calls
<1>10. ASSUME NEW e \in Editors, InsertVersion(e) PROVE TypeInv'
  <2>1. /\ calls[e] \in Calls /\ calls[e].row \in Pages
        /\ calls[e].row.draft \in Payloads
      BY <1>10 DEF InsertVersion, Calls, Pages
  <2>2. [calls[e] EXCEPT !.at = "point"] \in Calls
      BY <2>1 DEF Calls
  <2>3. NewVersion(e) \in Versions /\ PublishedRow(e) \in VersionRows
      BY <2>1 DEF NewVersion, PublishedRow, VersionRows, Pages
  <2>4. CASE VersionTaken(NewVersion(e))
      BY <1>10, <2>4 DEF InsertVersion, RollBack, Answer
  <2>5. CASE ~VersionTaken(NewVersion(e))
    <3>1. calls' = [calls EXCEPT ![e].at = "point"]
        BY <1>10, <2>5 DEF InsertVersion, GoTo
    <3>2. RowsRead' /\ calls' \in [Editors -> Calls \cup {None}]
        BY <2>1, <2>2, <3>1 DEF Calls
    <3>3. DOMAIN versions' \subseteq Versions /\ \A v \in DOMAIN versions' : versions'[v] \in VersionRows
        BY <1>10, <2>3, <2>5 DEF InsertVersion
    <3>4. QED
        BY <1>10, <2>5, <3>2, <3>3 DEF InsertVersion
  <2>6. QED
      BY <2>4, <2>5
<1>11. ASSUME NEW e \in Editors, PointToVersion(e) PROVE TypeInv'
  <2>1. calls[e] \in Calls /\ calls[e].row \in Pages
      BY <1>11 DEF PointToVersion, Calls
  <2>2. [calls[e] EXCEPT !.at = "commit"] \in Calls
      BY <2>1 DEF Calls
  <2>3. NewVersion(e) \in Versions
      BY <2>1 DEF NewVersion, Pages
  <2>4. page' \in Pages
    <3>1. calls[e].row.revision + 1 \in Nat /\ page \in Pages
        BY <2>1 DEF Pages
    <3>2. page' = [page EXCEPT !.current = NewVersion(e), !.published = NewVersion(e),
                               !.revision = calls[e].row.revision + 1,
                               !.state = "published"]
        BY <1>11 DEF PointToVersion
    <3> HIDE DEF TypeInv, TypeOK, RowsRead
    <3>3. QED
        BY <2>3, <3>1, <3>2 DEF Pages
  <2>5. RowsRead' /\ calls' \in [Editors -> Calls \cup {None}]
      BY <1>11, <2>1, <2>2 DEF PointToVersion, GoTo, Calls
  <2>6. QED
      BY <1>11, <2>4, <2>5 DEF PointToVersion
<1>12. ASSUME NEW e \in Editors, Commit(e) PROVE TypeInv'
    BY <1>12 DEF Commit, Reread, Calls
<1>13. ASSUME NEW e \in Editors, Withdraw(e) PROVE TypeInv'
  <2>1. calls[e] \in Calls /\ calls[e].row \in Pages
      BY <1>13 DEF Withdraw, Calls
  <2>2. page' \in Pages
    <3>1. calls[e].row.revision + 1 \in Nat /\ page \in Pages
        BY <2>1 DEF Pages
    <3>2. page' = [page EXCEPT !.state = "unpublished", !.published = None,
                               !.revision = calls[e].row.revision + 1]
        BY <1>13 DEF Withdraw
    <3> HIDE DEF TypeInv, TypeOK, RowsRead
    <3>3. QED
        BY <3>1, <3>2 DEF Pages
  <2>3. QED
      BY <1>13, <2>1, <2>2 DEF Withdraw, Reread, Calls
<1>14. ASSUME NEW e \in Editors, ReadPage(e) PROVE TypeInv'
    BY <1>14 DEF ReadPage, Show, Answer, Pages
<1>15. ASSUME NEW e \in Editors, Fault(e) PROVE TypeInv'
    BY <1>15 DEF Fault, RollBack, Answer
<1>16. ASSUME NEW r \in Readers, ReadPublic(r) PROVE TypeInv'
    BY <1>16 DEF ReadPublic, PublishedVersion, Documents, VersionRows, Pages
<1>17. CASE UNCHANGED vars
    BY <1>17 DEF vars
<1>18. QED
    BY <1>2, <1>3, <1>4, <1>5, <1>6, <1>7, <1>8, <1>9, <1>10, <1>11, <1>12, <1>13,
       <1>14, <1>15, <1>16, <1>17 DEF Next, Begin, Continue

-----------------------------------------------------------------------------
(* The types *)

LEMMA TypeInit == Init => TypeInv
<1> SUFFICES ASSUME Init PROVE TypeInv
    OBVIOUS
<1>1. page \in Pages /\ DOMAIN versions \subseteq Versions
      /\ \A v \in DOMAIN versions : versions[v] \in VersionRows
  <2>1. CASE Fresh
      BY <2>1 DEF Fresh, Pages
  <2>2. CASE Seeded
      BY <2>2 DEF Seeded, Pages, VersionRows
  <2>3. QED
      BY <2>1, <2>2 DEF Init
<1>2. seen \in [Editors -> [revision : Nat, draft : Payloads \cup {None}]]
    BY <1>1 DEF Init, Pages
<1>3. faults \in 0 .. MaxFaults /\ held \subseteq Editors
    BY CmsAssumption DEF Init
<1>4. overlapped \in BOOLEAN
    BY Zenon DEF Init
<1>5. /\ calls \in [Editors -> Calls \cup {None}]
      /\ cached \in [Readers -> Documents \cup {None}]
      /\ RowsRead
    BY DEF Init, RowsRead, Running
<1>6. QED
    BY <1>1, <1>2, <1>3, <1>4, <1>5 DEF TypeInv, TypeOK

\* Every row, call, cached document and bound keeps its type, whatever the
\* editors do and whatever fails.
THEOREM TypeCorrect == Spec => []TypeOK
<1>1. TypeInv => TypeOK
    BY DEF TypeInv
<1>2. QED
    BY TypeInit, TypeStep, <1>1, PTL DEF Spec

-----------------------------------------------------------------------------
(* The pool *)

\* Whatever way a publish ends, its transaction's client is back in the pool.
THEOREM ClientsReturn == Spec => []ClientsComeBack
<1>1. Init => ClientsComeBack
    BY DEF Init, ClientsComeBack
<1>2. TypeInv /\ ClientsComeBack /\ [Next]_vars => ClientsComeBack'
  <2> SUFFICES ASSUME TypeInv, ClientsComeBack, [Next]_vars PROVE ClientsComeBack'
      OBVIOUS
  <2> USE NoneAssumption DEF TypeInv, TypeOK, ClientsComeBack, Running, At
  <2>1. ASSUME NEW e \in Editors, Begin(e) PROVE ClientsComeBack'
      BY <2>1 DEF Begin, SaveDraft, Publish, Unpublish, Restore, GetPage, Start
  <2>2. ASSUME NEW e \in Editors, FetchVersion(e) \/ UpdateDraft(e) \/ Withdraw(e) \/ ReadPage(e)
        PROVE ClientsComeBack'
      BY <2>2 DEF FetchVersion, UpdateDraft, Withdraw, ReadPage, Answer, Reread
  <2>3. ASSUME NEW e \in Editors, BeginTransaction(e) PROVE ClientsComeBack'
    <3>1. [calls[e] EXCEPT !.at = "insert"] \in Calls
        BY <2>3 DEF BeginTransaction, Calls, Statements
    <3>2. calls' = [calls EXCEPT ![e] = [calls[e] EXCEPT !.at = "insert"]]
        BY <2>3 DEF BeginTransaction, GoTo
    <3>3. calls'[e] # None /\ calls'[e].at = "insert"
        BY <2>3, <3>1, <3>2 DEF BeginTransaction, Calls
    <3>4. \A d \in Editors \ {e} : calls'[d] = calls[d]
        BY <3>2
    <3>5. QED
        BY <2>3, <3>3, <3>4 DEF BeginTransaction
  <2>4. ASSUME NEW e \in Editors, InsertVersion(e) PROVE ClientsComeBack'
    <3>1. [calls[e] EXCEPT !.at = "point"] \in Calls
        BY <2>4 DEF InsertVersion, Calls, Statements
    <3>2. QED
        BY <2>4, <3>1 DEF InsertVersion, RollBack, Answer, GoTo, Calls
  <2>5. ASSUME NEW e \in Editors, PointToVersion(e) PROVE ClientsComeBack'
    <3>1. [calls[e] EXCEPT !.at = "commit"] \in Calls
        BY <2>5 DEF PointToVersion, Calls, Statements
    <3>2. QED
        BY <2>5, <3>1 DEF PointToVersion, GoTo, Calls
  <2>6. ASSUME NEW e \in Editors, Commit(e) \/ Fault(e) PROVE ClientsComeBack'
      BY <2>6 DEF Commit, Fault, RollBack, Answer, Reread
  <2>7. CASE (\E r \in Readers : ReadPublic(r)) \/ UNCHANGED vars
      BY <2>7 DEF ReadPublic, vars
  <2>8. QED
      BY <2>1, <2>2, <2>3, <2>4, <2>5, <2>6, <2>7 DEF Next, Continue
<1>3. QED
    BY <1>1, <1>2, TypeInit, TypeStep, PTL DEF Spec

-----------------------------------------------------------------------------
(* The public pointer and the readers *)

HasRow(e) == Running(e) /\ calls[e].row # None

\* The versions that are public, cached, or in a row some call has read.
Known(v) ==
    \/ page.published = v
    \/ \E e \in Editors : HasRow(e) /\ calls[e].row.published = v
    \/ \E r \in Readers : cached[r] # None /\ cached[r].version = v

\* Version numbers have no gap below them.
NoGaps == \A v \in DOMAIN versions : \A w \in Versions : w <= v => w \in DOMAIN versions

KnownExist == \A v \in Versions : Known(v) => v \in DOMAIN versions

\* A version row whose pointer is still to be written is newer than everything
\* known, and there is one such row at most.
PendingIsNewest == \A e \in Editors : At(e, "point") =>
    /\ NewVersion(e) \in DOMAIN versions
    /\ \A v \in Versions : Known(v) => v < NewVersion(e)
    /\ \A d \in Editors : At(d, "point") => d = e

\* What a reader has cached is a version row, not newer than the public one.
CachedIsPast == \A r \in Readers : cached[r] # None =>
    /\ cached[r].payload = versions[cached[r].version].payload
    /\ page.published # None => cached[r].version <= page.published

PublicInv == NoGaps /\ KnownExist /\ PendingIsNewest /\ CachedIsPast

\* The steps that touch no version, no document and not the pointer, except to
\* clear it: what a call knows then is what it knew, or the page's row.
Quiet ==
    /\ UNCHANGED <<versions, cached>>
    /\ page'.published \in {page.published, None}
    /\ \A e \in Editors :
         /\ HasRow(e)' => \/ HasRow(e) /\ calls'[e].row = calls[e].row
                          \/ calls'[e].row = page
         /\ At(e, "point")' => At(e, "point") /\ calls'[e].row = calls[e].row

LEMMA QuietStep == TypeInv /\ PublicInv /\ Quiet => PublicInv'
<1> SUFFICES ASSUME TypeInv, PublicInv, Quiet PROVE PublicInv'
    OBVIOUS
<1> USE NoneAssumption
<1>1. \A v \in Versions : Known(v)' => Known(v)
    BY DEF Quiet, Known, HasRow
<1>2. NoGaps' /\ KnownExist'
    BY <1>1 DEF PublicInv, NoGaps, KnownExist, Quiet
<1>3. \A e \in Editors : At(e, "point")' => At(e, "point") /\ NewVersion(e)' = NewVersion(e)
    BY DEF Quiet, NewVersion
<1>4. PendingIsNewest'
  <2> SUFFICES ASSUME NEW e \in Editors, At(e, "point")'
               PROVE /\ NewVersion(e)' \in DOMAIN versions'
                     /\ \A v \in Versions : Known(v)' => v < NewVersion(e)'
                     /\ \A d \in Editors : At(d, "point")' => d = e
      BY DEF PendingIsNewest
  <2>1. versions' = versions
      BY DEF Quiet
  <2>2. QED
      BY <1>1, <1>3, <2>1 DEF PublicInv, PendingIsNewest
<1>5. CachedIsPast'
    BY DEF PublicInv, CachedIsPast, Quiet
<1>6. QED
    BY <1>2, <1>4, <1>5 DEF PublicInv

\* A version inserted is the next one, newer than everything known.
LEMMA InsertStep ==
    ASSUME TypeInv, PublicInv, NEW e \in Editors, InsertVersion(e),
           ~VersionTaken(NewVersion(e))
    PROVE  PublicInv'
<1> DEFINE k == NewVersion(e)
<1> USE NoneAssumption
<1>1. /\ calls[e] \in Calls /\ calls[e].row \in Pages /\ At(e, "insert") /\ HasRow(e)
      /\ k \in Versions /\ k \notin DOMAIN versions /\ DOMAIN versions \subseteq Versions
    BY DEF InsertVersion, TypeInv, TypeOK, RowsRead, At, Running, HasRow, Calls, Pages,
           NewVersion, VersionTaken
<1>2. /\ UNCHANGED <<page, cached>>
      /\ calls' = [calls EXCEPT ![e].at = "point"]
      /\ DOMAIN versions' = DOMAIN versions \cup {k}
      /\ \A v \in DOMAIN versions : versions'[v] = versions[v]
    BY <1>1 DEF InsertVersion, GoTo
<1>3. \A d \in Editors : /\ HasRow(d)' <=> HasRow(d)
                         /\ HasRow(d) => calls'[d].row = calls[d].row
                         /\ d # e => (At(d, "point")' <=> At(d, "point"))
  <2>1. [calls[e] EXCEPT !.at = "point"] \in Calls
      BY <1>1 DEF Calls, Statements
  <2>2. calls'[e] # None /\ calls'[e].row = calls[e].row
      BY <1>1, <1>2, <2>1 DEF TypeInv, TypeOK, Calls
  <2>3. \A d \in Editors \ {e} : calls'[d] = calls[d]
      BY <1>2 DEF TypeInv, TypeOK
  <2>4. QED
      BY <1>1, <2>2, <2>3 DEF HasRow, Running, At
<1>4. \A v \in Versions : Known(v)' <=> Known(v)
    BY <1>2, <1>3 DEF Known
<1>5. \A v \in DOMAIN versions : v < k
    BY <1>1 DEF PublicInv, NoGaps
<1>6. calls[e].row.published # None => k - 1 \in DOMAIN versions
  <2> SUFFICES ASSUME calls[e].row.published # None PROVE k - 1 \in DOMAIN versions
      OBVIOUS
  <2>1. calls[e].row.published \in Versions /\ k = calls[e].row.published + 1
      BY <1>1 DEF Pages, NewVersion
  <2>2. Known(calls[e].row.published)
      BY <1>1 DEF Known
  <2>3. QED
      BY <2>1, <2>2 DEF PublicInv, KnownExist
<1>7. NoGaps'
  <2>1. \A w \in Versions : w < k => w \in DOMAIN versions
    <3>1. CASE calls[e].row.published = None
        BY <1>1, <3>1 DEF NewVersion
    <3>2. CASE calls[e].row.published # None
        BY <1>1, <1>6, <3>2 DEF PublicInv, NoGaps
    <3>3. QED
        BY <3>1, <3>2
  <2>2. QED
      BY <1>1, <1>2, <2>1 DEF PublicInv, NoGaps
<1>8. KnownExist'
    BY <1>2, <1>4 DEF PublicInv, KnownExist
<1>9. \A d \in Editors : d # e => ~At(d, "point")
  <2> SUFFICES ASSUME NEW d \in Editors, d # e, At(d, "point") PROVE FALSE
      OBVIOUS
  <2>1. NewVersion(d) \in DOMAIN versions /\ NewVersion(d) \in Versions
      BY <1>1 DEF PublicInv, PendingIsNewest
  <2>2. CASE calls[e].row.published = None
      BY <1>1, <1>5, <2>1, <2>2 DEF NewVersion
  <2>3. CASE calls[e].row.published # None
    <3>1. /\ calls[e].row.published \in Versions /\ Known(calls[e].row.published)
          /\ k = calls[e].row.published + 1
        BY <1>1, <2>3 DEF Pages, Known, NewVersion
    <3>2. calls[e].row.published < NewVersion(d)
        BY <3>1 DEF PublicInv, PendingIsNewest
    <3>3. QED
        BY <1>5, <2>1, <3>1, <3>2
  <2>4. QED
      BY <2>2, <2>3
<1>10. PendingIsNewest'
  <2>1. NewVersion(e)' = k
      BY <1>1, <1>3 DEF NewVersion
  <2>2. \A d \in Editors : At(d, "point")' => d = e
      BY <1>3, <1>9
  <2>3. \A v \in Versions : Known(v)' => v < k
      BY <1>4, <1>5 DEF PublicInv, KnownExist
  <2>4. QED
      BY <1>2, <2>1, <2>2, <2>3 DEF PendingIsNewest
<1>11. CachedIsPast'
  <2> SUFFICES ASSUME NEW r \in Readers, cached[r] # None
               PROVE /\ cached[r].payload = versions'[cached[r].version].payload
                     /\ page.published # None => cached[r].version <= page.published
      BY <1>2 DEF CachedIsPast
  <2>1. cached[r].version \in Versions /\ Known(cached[r].version)
      BY DEF TypeInv, TypeOK, Documents, Known
  <2>2. cached[r].version \in DOMAIN versions
      BY <2>1 DEF PublicInv, KnownExist
  <2>3. QED
      BY <1>2, <2>2 DEF PublicInv, CachedIsPast
<1>12. QED
    BY <1>7, <1>8, <1>10, <1>11 DEF PublicInv

\* The pointer moves to the newest version.
LEMMA PointStep ==
    ASSUME TypeInv, PublicInv, NEW e \in Editors, PointToVersion(e)
    PROVE  PublicInv'
<1> DEFINE k == NewVersion(e)
<1> USE NoneAssumption
<1>1. /\ calls[e] \in Calls /\ calls[e].row \in Pages /\ At(e, "point") /\ HasRow(e)
      /\ k \in Versions /\ k \in DOMAIN versions
    BY DEF PointToVersion, TypeInv, TypeOK, RowsRead, At, Running, HasRow, Calls, Pages,
           NewVersion, PublicInv, PendingIsNewest
<1>2. UNCHANGED <<versions, cached>> /\ page'.published = k
    BY DEF PointToVersion, TypeInv, TypeOK, Pages
<1>3. calls' = [calls EXCEPT ![e].at = "commit"]
    BY DEF PointToVersion, GoTo
<1>4. \A d \in Editors : /\ HasRow(d)' => HasRow(d) /\ calls'[d].row = calls[d].row
                         /\ ~At(d, "point")'
  <2>1. calls'[e].at = "commit" /\ calls'[e].row = calls[e].row
      BY <1>1, <1>3 DEF TypeInv, TypeOK, Calls
  <2>2. \A d \in Editors \ {e} : calls'[d] = calls[d]
      BY <1>3 DEF TypeInv, TypeOK
  <2>3. \A d \in Editors \ {e} : ~At(d, "point")
      BY <1>1 DEF PublicInv, PendingIsNewest
  <2>4. QED
      BY <1>1, <2>1, <2>2, <2>3 DEF HasRow, Running, At
<1>5. \A v \in Versions : Known(v)' => Known(v) \/ v = k
    BY <1>2, <1>4 DEF Known
<1>6. NoGaps' /\ KnownExist' /\ PendingIsNewest'
    BY <1>1, <1>2, <1>4, <1>5 DEF PublicInv, NoGaps, KnownExist, PendingIsNewest
<1>7. CachedIsPast'
  <2> SUFFICES ASSUME NEW r \in Readers, cached[r] # None
               PROVE  cached[r].version <= k
      BY <1>2 DEF CachedIsPast, PublicInv
  <2>1. cached[r].version \in Versions /\ Known(cached[r].version)
      BY DEF TypeInv, TypeOK, Documents, Known
  <2>2. QED
      BY <1>1, <2>1 DEF PublicInv, PendingIsNewest
<1>8. QED
    BY <1>6, <1>7 DEF PublicInv

\* A reader caches the public version.
LEMMA ReadStep ==
    ASSUME TypeInv, PublicInv, NEW r \in Readers, ReadPublic(r)
    PROVE  PublicInv'
<1> USE NoneAssumption
<1>1. /\ UNCHANGED <<page, versions, calls>>
      /\ cached' = [cached EXCEPT ![r] = [version |-> page.published,
                                          payload |-> versions[page.published].payload]]
      /\ page.published \in DOMAIN versions /\ page.published \in Versions
    BY DEF ReadPublic, PublishedVersion, TypeInv, TypeOK
<1>2. \A v \in Versions : Known(v)' => Known(v)
    BY <1>1 DEF Known, HasRow, Running, TypeInv, TypeOK
<1>3. NoGaps' /\ KnownExist'
    BY <1>1, <1>2 DEF PublicInv, NoGaps, KnownExist
<1>4. PendingIsNewest'
    BY <1>1, <1>2 DEF PublicInv, PendingIsNewest, NewVersion, At, Running
<1>5. CachedIsPast'
    BY <1>1 DEF PublicInv, CachedIsPast, TypeInv, TypeOK
<1>6. QED
    BY <1>3, <1>4, <1>5 DEF PublicInv

\* Every other step is quiet.
LEMMA OtherSteps ==
    ASSUME TypeInv, NEW e \in Editors,
           \/ Begin(e) \/ FetchVersion(e) \/ UpdateDraft(e) \/ BeginTransaction(e)
           \/ InsertVersion(e) /\ VersionTaken(NewVersion(e))
           \/ Commit(e) \/ Withdraw(e) \/ ReadPage(e) \/ Fault(e)
    PROVE  Quiet
<1> USE NoneAssumption DEF Quiet, HasRow, Running, At
<1>1. page \in Pages /\ calls \in [Editors -> Calls \cup {None}]
    BY DEF TypeInv, TypeOK
<1>2. ASSUME NEW op, NEW p, NEW v, NEW s \in Statements \ {"point"}, Start(e, op, p, v, s)
      PROVE Quiet
    BY <1>1, <1>2 DEF Start, Statements
<1>3. CASE Begin(e)
  <2>1. CASE GetPage(e)
      BY <2>1 DEF GetPage
  <2>2. CASE ~GetPage(e)
      BY <1>2, <1>3, <2>2 DEF Begin, SaveDraft, Publish, Unpublish, Restore, Statements
  <2>3. QED
      BY <2>1, <2>2
<1>4. CASE FetchVersion(e)
    BY <1>1, <1>4 DEF FetchVersion, Answer, Calls
<1>5. CASE UpdateDraft(e)
    BY <1>1, <1>5 DEF UpdateDraft, Reread, Pages
<1>6. CASE BeginTransaction(e)
    BY <1>1, <1>6 DEF BeginTransaction, GoTo, Calls
<1>7. CASE InsertVersion(e) /\ VersionTaken(NewVersion(e))
    BY <1>1, <1>7 DEF InsertVersion, RollBack, Answer
<1>8. CASE Commit(e)
    BY <1>1, <1>8 DEF Commit, Reread
<1>9. CASE Withdraw(e)
    BY <1>1, <1>9 DEF Withdraw, Reread, Pages
<1>10. CASE ReadPage(e)
    BY <1>1, <1>10 DEF ReadPage, Answer
<1>11. CASE Fault(e)
    BY <1>1, <1>11 DEF Fault, RollBack, Answer
<1>12. QED
    BY <1>3, <1>4, <1>5, <1>6, <1>7, <1>8, <1>9, <1>10, <1>11

LEMMA PublicStep == TypeInv /\ PublicInv /\ [Next]_vars => PublicInv'
<1> SUFFICES ASSUME TypeInv, PublicInv, [Next]_vars PROVE PublicInv'
    OBVIOUS
<1>1. ASSUME NEW e \in Editors, Begin(e) \/ Continue(e) \/ Fault(e) PROVE PublicInv'
  <2>1. CASE InsertVersion(e) /\ ~VersionTaken(NewVersion(e))
      BY <2>1, InsertStep
  <2>2. CASE PointToVersion(e)
      BY <2>2, PointStep
  <2>3. CASE ~(InsertVersion(e) /\ ~VersionTaken(NewVersion(e))) /\ ~PointToVersion(e)
    <3>1. Quiet
        BY <1>1, <2>3, OtherSteps DEF Continue
    <3>2. QED
        BY <3>1, QuietStep
  <2>4. QED
      BY <2>1, <2>2, <2>3
<1>2. ASSUME NEW r \in Readers, ReadPublic(r) PROVE PublicInv'
    BY <1>2, ReadStep
<1>3. CASE UNCHANGED vars
  <2>1. Quiet
      BY <1>3 DEF Quiet, vars, HasRow, Running, At
  <2>2. QED
      BY <2>1, QuietStep
<1>4. QED
    BY <1>1, <1>2, <1>3 DEF Next

LEMMA PublicInit == Init => PublicInv
<1> SUFFICES ASSUME Init PROVE PublicInv
    OBVIOUS
<1> USE NoneAssumption
<1>1. /\ \A e \in Editors : ~HasRow(e) /\ ~At(e, "point")
      /\ \A r \in Readers : cached[r] = None
    BY DEF Init, HasRow, Running, At
<1>2. CASE Fresh
  <2>1. page.published = None /\ DOMAIN versions = {}
      BY <1>2 DEF Fresh
  <2>2. QED
      BY <1>1, <2>1 DEF PublicInv, NoGaps, KnownExist, Known, PendingIsNewest, CachedIsPast
<1>3. CASE Seeded
  <2>1. page.published = 1 /\ DOMAIN versions = {1}
      BY <1>3 DEF Seeded
  <2>2. QED
      BY <1>1, <2>1 DEF PublicInv, NoGaps, KnownExist, Known, PendingIsNewest, CachedIsPast
<1>4. QED
    BY <1>2, <1>3 DEF Init

\* The public pointer always names a version that is there.
THEOREM PointerResolves == Spec => []PublicPointerResolves
<1>1. TypeInv /\ PublicInv => PublicPointerResolves
    BY DEF TypeInv, TypeOK, Pages, PublicInv, KnownExist, Known, PublicPointerResolves
<1>2. QED
    BY TypeInit, TypeStep, PublicInit, PublicStep, <1>1, PTL DEF Spec

\* No reader goes back to an older version, and a version never changes.
THEOREM ReadersAdvance == Spec => ReadersNeverGoBack
<1> DEFINE Forward == \A r \in Readers : cached[r] # None =>
          /\ cached'[r].version >= cached[r].version
          /\ cached'[r].version = cached[r].version => cached'[r] = cached[r]
<1>1. TypeInv /\ PublicInv /\ [Next]_vars => [Forward]_vars
  <2> SUFFICES ASSUME TypeInv, PublicInv, Next PROVE Forward
      OBVIOUS
  <2> USE NoneAssumption
  <2>1. CASE cached' = cached
      BY <2>1 DEF TypeInv, TypeOK, Documents
  <2>2. ASSUME NEW r \in Readers, ReadPublic(r) PROVE Forward
    <3>1. /\ cached' = [cached EXCEPT ![r] = [version |-> page.published,
                                             payload |-> versions[page.published].payload]]
          /\ page.published \in Versions /\ page.published # None
        BY <2>2 DEF ReadPublic, PublishedVersion, TypeInv, TypeOK
    <3> SUFFICES ASSUME NEW q \in Readers, cached[q] # None
                 PROVE /\ cached'[q].version >= cached[q].version
                       /\ cached'[q].version = cached[q].version => cached'[q] = cached[q]
        OBVIOUS
    <3>2. /\ cached[q] \in Documents /\ cached[q].version <= page.published
          /\ cached[q].payload = versions[cached[q].version].payload
        BY <3>1 DEF TypeInv, TypeOK, PublicInv, CachedIsPast
    <3>3. cached[q] = [version |-> cached[q].version, payload |-> cached[q].payload]
        BY <3>2 DEF Documents
    <3>4. QED
        BY <3>1, <3>2, <3>3 DEF TypeInv, TypeOK, Documents
  <2>3. (\A r \in Readers : ~ReadPublic(r)) => cached' = cached
      BY DEF Next, Begin, SaveDraft, Publish, Unpublish, Restore, GetPage, Start, Continue,
             FetchVersion, UpdateDraft, BeginTransaction, InsertVersion, PointToVersion,
             Commit, Withdraw, ReadPage, Fault
  <2>4. QED
      BY <2>1, <2>2, <2>3
<1>2. QED
    BY TypeInit, TypeStep, PublicInit, PublicStep, <1>1, PTL DEF Spec, ReadersNeverGoBack

-----------------------------------------------------------------------------
(* Edits that never overlap *)

\* The statements of a call up to the one that writes the page.
BeforeEdit(e) ==
    Running(e) /\ calls[e].at \in {"fetch", "update", "begin", "insert", "point", "withdraw"}

OneCallAtATime == \A d, e \in Editors : Running(d) /\ Running(e) => d = e

\* A revision that an editor was shown and that is still the page's names the
\* draft it was shown: whoever changes the draft moves the revision on.
ShownIsCurrent == \A e \in Editors :
    /\ seen[e].revision <= page.revision
    /\ seen[e].revision = page.revision => seen[e].draft = page.draft

\* The row of a call that has not edited yet is the page, and what it checked
\* of If-Match still holds.
RowIsCurrent == \A e \in Editors : BeforeEdit(e) =>
    /\ calls[e].row.revision = page.revision
    /\ calls[e].op # "restore" => calls[e].row.draft = seen[e].draft

SerialInv == ~overlapped => OneCallAtATime /\ ShownIsCurrent /\ RowIsCurrent

\* A call that has compared its revision starts alone, or is the overlap.
LEMMA StartIsSerial ==
    ASSUME TypeInv, SerialInv, NEW e \in Editors, NEW op, NEW p, NEW v, NEW s,
           Start(e, op, p, v, s)
    PROVE  SerialInv'
<1> SUFFICES ASSUME ~overlapped' PROVE (OneCallAtATime /\ ShownIsCurrent /\ RowIsCurrent)'
    BY DEF SerialInv
<1>1. /\ ~overlapped /\ \A d \in Editors : ~Running(d)
      /\ UNCHANGED <<page, seen>>
      /\ calls' = [calls EXCEPT ![e] = [op |-> op, at |-> s, payload |-> p,
                                        version |-> v, row |-> page]]
      /\ op # "restore" => page.revision = seen[e].revision
    BY DEF Start, RevisionMatches
<1>2. OneCallAtATime /\ ShownIsCurrent
    BY <1>1 DEF SerialInv
<1>3. /\ calls'[e] = [op |-> op, at |-> s, payload |-> p, version |-> v, row |-> page]
      /\ \A d \in Editors \ {e} : calls'[d] = calls[d]
    BY <1>1 DEF TypeInv, TypeOK
<1>4. \A d \in Editors : Running(d)' => d = e
    BY <1>1, <1>3 DEF Running
<1>5. OneCallAtATime' /\ ShownIsCurrent'
    BY <1>1, <1>2, <1>4 DEF OneCallAtATime, ShownIsCurrent
<1>6. op # "restore" => page.draft = seen[e].draft
    BY <1>1, <1>2 DEF ShownIsCurrent
<1>7. RowIsCurrent'
    BY <1>1, <1>3, <1>4, <1>6 DEF RowIsCurrent, BeforeEdit
<1>8. QED
    BY <1>5, <1>7

\* A step inside a call that leaves the page alone.
LEMMA InsideIsSerial ==
    ASSUME TypeInv, SerialInv, UNCHANGED <<page, seen, overlapped>>,
           \A e \in Editors : /\ Running(e)' => Running(e)
                              /\ BeforeEdit(e)' => /\ BeforeEdit(e)
                                                   /\ calls'[e].row = calls[e].row
                                                   /\ calls'[e].op = calls[e].op
    PROVE  SerialInv'
<1> SUFFICES ASSUME ~overlapped' PROVE (OneCallAtATime /\ ShownIsCurrent /\ RowIsCurrent)'
    BY DEF SerialInv
<1>1. ~overlapped /\ OneCallAtATime /\ ShownIsCurrent /\ RowIsCurrent
    BY DEF SerialInv
<1>2. OneCallAtATime' /\ ShownIsCurrent'
    BY <1>1 DEF OneCallAtATime, ShownIsCurrent
<1>3. RowIsCurrent'
    BY <1>1 DEF RowIsCurrent
<1>4. QED
    BY <1>2, <1>3

\* The edit itself: the revision moves past every one that was shown, and no
\* other call is there to hold the old row.
LEMMA EditIsSerial ==
    ASSUME TypeInv, SerialInv, NEW e \in Editors, BeforeEdit(e),
           UNCHANGED <<seen, overlapped>>,
           page'.revision = calls[e].row.revision + 1,
           \A d \in Editors \ {e} : calls'[d] = calls[d],
           ~BeforeEdit(e)'
    PROVE  SerialInv'
<1> SUFFICES ASSUME ~overlapped' PROVE (OneCallAtATime /\ ShownIsCurrent /\ RowIsCurrent)'
    BY DEF SerialInv
<1>1. ~overlapped /\ OneCallAtATime /\ ShownIsCurrent /\ RowIsCurrent
    BY DEF SerialInv
<1>2. page'.revision = page.revision + 1 /\ page.revision \in Nat
    BY <1>1 DEF RowIsCurrent, TypeInv, TypeOK, Pages
<1>3. \A d \in Editors : Running(d)' => d = e
    BY <1>1 DEF OneCallAtATime, BeforeEdit, Running
<1>4. OneCallAtATime'
    BY <1>3 DEF OneCallAtATime
<1>5. ShownIsCurrent'
  <2>1. \A d \in Editors : seen[d].revision \in Nat /\ seen[d].revision <= page.revision
      BY <1>1 DEF ShownIsCurrent, TypeInv, TypeOK
  <2>2. \A d \in Editors : seen'[d].revision < page'.revision /\ seen'[d].revision \in Nat
      BY <1>2, <2>1
  <2>3. QED
      BY <1>2, <2>2 DEF ShownIsCurrent
<1>6. RowIsCurrent'
    BY <1>3 DEF RowIsCurrent, BeforeEdit
<1>7. QED
    BY <1>4, <1>5, <1>6

\* An editor that has no edit ahead of it is shown the page.
LEMMA ShowIsSerial ==
    ASSUME TypeInv, SerialInv, NEW e \in Editors, Show(e), ~BeforeEdit(e),
           UNCHANGED <<page, overlapped>>,
           \A d \in Editors : Running(d)' => Running(d) /\ calls'[d] = calls[d]
    PROVE  SerialInv'
<1> SUFFICES ASSUME ~overlapped' PROVE (OneCallAtATime /\ ShownIsCurrent /\ RowIsCurrent)'
    BY DEF SerialInv
<1>1. ~overlapped /\ OneCallAtATime /\ ShownIsCurrent /\ RowIsCurrent
    BY DEF SerialInv
<1>2. /\ seen'[e] = [revision |-> page.revision, draft |-> page.draft]
      /\ \A d \in Editors \ {e} : seen'[d] = seen[d]
      /\ page.revision \in Nat
    BY DEF Show, TypeInv, TypeOK, Pages
<1>3. OneCallAtATime'
    BY <1>1 DEF OneCallAtATime
<1>4. ShownIsCurrent'
    BY <1>1, <1>2 DEF ShownIsCurrent
<1>5. RowIsCurrent'
  <2> SUFFICES ASSUME NEW d \in Editors, BeforeEdit(d)'
               PROVE /\ calls'[d].row.revision = page.revision
                     /\ calls'[d].op # "restore" => calls'[d].row.draft = seen'[d].draft
      BY DEF RowIsCurrent
  <2>1. BeforeEdit(d) /\ calls'[d] = calls[d]
      BY DEF BeforeEdit
  <2>2. d # e
      BY <2>1
  <2>3. QED
      BY <1>1, <1>2, <2>1, <2>2 DEF RowIsCurrent
<1>6. QED
    BY <1>3, <1>4, <1>5

LEMMA SerialStep == TypeInv /\ SerialInv /\ [Next]_vars => SerialInv'
<1> SUFFICES ASSUME TypeInv, SerialInv, [Next]_vars PROVE SerialInv'
    OBVIOUS
<1> USE NoneAssumption
<1>t. page \in Pages /\ calls \in [Editors -> Calls \cup {None}]
    BY DEF TypeInv, TypeOK
<1>1. ASSUME NEW e \in Editors, SaveDraft(e) \/ Publish(e) \/ Unpublish(e) \/ Restore(e)
      PROVE SerialInv'
    BY <1>1, StartIsSerial DEF SaveDraft, Publish, Unpublish, Restore
<1>2. ASSUME NEW e \in Editors, GetPage(e) PROVE SerialInv'
    BY <1>2, ShowIsSerial DEF GetPage, BeforeEdit, Running
<1>3. ASSUME NEW e \in Editors, ReadPage(e) PROVE SerialInv'
  <2>1. ~BeforeEdit(e) /\ Show(e) /\ UNCHANGED <<page, overlapped>>
      BY <1>3 DEF ReadPage, At, BeforeEdit
  <2>2. \A d \in Editors : Running(d)' => Running(d) /\ calls'[d] = calls[d]
      BY <1>t, <1>3 DEF ReadPage, Answer, Running
  <2>3. QED
      BY <2>1, <2>2, ShowIsSerial
<1>4. ASSUME NEW e \in Editors, UpdateDraft(e) \/ PointToVersion(e) \/ Withdraw(e)
      PROVE SerialInv'
  <2>1. BeforeEdit(e) /\ UNCHANGED <<seen, overlapped>>
      BY <1>4 DEF UpdateDraft, PointToVersion, Withdraw, At, BeforeEdit
  <2>2. page'.revision = calls[e].row.revision + 1
      BY <1>t, <1>4 DEF UpdateDraft, PointToVersion, Withdraw, Pages
  <2>3. \A d \in Editors \ {e} : calls'[d] = calls[d]
      BY <1>t, <1>4 DEF UpdateDraft, PointToVersion, Withdraw, Reread, GoTo
  <2>4. ~BeforeEdit(e)'
    <3>1. calls[e] \in Calls /\ calls'[e].at \in {"page", "commit"}
        BY <1>t, <1>4 DEF UpdateDraft, PointToVersion, Withdraw, Reread, GoTo, At, Running, Calls
    <3>2. QED
        BY <3>1 DEF BeforeEdit
  <2>5. QED
      BY <2>1, <2>2, <2>3, <2>4, EditIsSerial
<1>5. ASSUME NEW e \in Editors, FetchVersion(e) PROVE SerialInv'
  <2>1. calls[e] \in Calls /\ calls[e].at = "fetch" /\ Running(e)
      BY <1>t, <1>5 DEF FetchVersion, At, Running
  <2>2. UNCHANGED <<page, seen, overlapped>>
      BY <1>5 DEF FetchVersion
  <2>3. \A d \in Editors : /\ Running(d)' => Running(d)
                           /\ BeforeEdit(d)' => /\ BeforeEdit(d)
                                                /\ calls'[d].row = calls[d].row
                                                /\ calls'[d].op = calls[d].op
      BY <1>t, <1>5, <2>1 DEF FetchVersion, Answer, BeforeEdit, Running, Calls
  <2>4. QED
      BY <2>2, <2>3, InsideIsSerial
<1>6. ASSUME NEW e \in Editors, BeginTransaction(e) \/ InsertVersion(e) PROVE SerialInv'
  <2>1. calls[e] \in Calls /\ calls[e].at \in {"begin", "insert"} /\ Running(e)
      BY <1>t, <1>6 DEF BeginTransaction, InsertVersion, At, Running
  <2>2. UNCHANGED <<page, seen, overlapped>>
      BY <1>6 DEF BeginTransaction, InsertVersion
  <2>3. PICK s \in {"insert", "point"} : GoTo(e, s) \/ Answer(e)
      BY <1>6 DEF BeginTransaction, InsertVersion, RollBack
  <2>4. \A d \in Editors : /\ Running(d)' => Running(d)
                           /\ BeforeEdit(d)' => /\ BeforeEdit(d)
                                                /\ calls'[d].row = calls[d].row
                                                /\ calls'[d].op = calls[d].op
      BY <1>t, <2>1, <2>3 DEF GoTo, Answer, BeforeEdit, Running, Calls
  <2>5. QED
      BY <2>2, <2>4, InsideIsSerial
<1>7. ASSUME NEW e \in Editors, Commit(e) \/ Fault(e) PROVE SerialInv'
  <2>1. UNCHANGED <<page, seen, overlapped>> /\ Running(e)
      BY <1>7 DEF Commit, Fault, At
  <2>2. /\ \A d \in Editors \ {e} : calls'[d] = calls[d]
        /\ calls'[e] = None \/ calls'[e].at = "page"
      BY <1>t, <1>7 DEF Commit, Fault, RollBack, Answer, Reread
  <2>3. QED
      BY <2>1, <2>2, InsideIsSerial DEF BeforeEdit, Running
<1>8. CASE (\E r \in Readers : ReadPublic(r)) \/ UNCHANGED vars
  <2>1. UNCHANGED <<page, seen, overlapped, calls>>
      BY <1>8 DEF ReadPublic, vars
  <2>2. QED
      BY <2>1, InsideIsSerial DEF BeforeEdit, Running
<1>9. QED
    BY <1>1, <1>2, <1>3, <1>4, <1>5, <1>6, <1>7, <1>8 DEF Next, Begin, Continue

LEMMA SerialInit == Init => SerialInv
<1> SUFFICES ASSUME Init PROVE SerialInv
    OBVIOUS
<1>1. /\ page.revision \in Nat
      /\ seen = [e \in Editors |-> [revision |-> page.revision, draft |-> page.draft]]
      /\ \A e \in Editors : ~Running(e)
    BY TypeInit DEF Init, Running, TypeInv, TypeOK, Pages
<1>2. QED
    BY <1>1 DEF SerialInv, OneCallAtATime, ShownIsCurrent, RowIsCurrent, BeforeEdit

\* Edits that never overlap lose nothing, however many there are and whatever
\* fails: the revision an editor sends names the draft it was shown.
THEOREM SerialEditsAreSafe == Spec => []SerialEditsSeeTheirBase
<1>1. SerialInv => SerialEditsSeeTheirBase
    BY DEF SerialInv, RowIsCurrent, BeforeEdit, SerialEditsSeeTheirBase
<1>2. QED
    BY TypeInit, TypeStep, SerialInit, SerialStep, <1>1, PTL DEF Spec
=============================================================================
