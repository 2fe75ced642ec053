---------------------- MODULE CurriculumCatalogProofs ----------------------
(***************************************************************************)
(* Theorems about CurriculumCatalog, for any chain of items, any callers   *)
(* and any bounds: types, what the row lock gives a publication, the       *)
(* rights of published materials, and that readers only advance.           *)
(***************************************************************************)
EXTENDS CurriculumRefinement, SequenceTheorems, TLAPS

\* The version table of an item counts from 1 without gaps.
Numbered == \A i \in Items : \E n \in Nat : DOMAIN versions[i] = 1 .. n

\* What an author is about to insert is not there yet, and no one else's.
Unborn ==
    \A a \in Authors : creating[a] # None =>
        /\ heads[creating[a].item] = None
        /\ \A b \in Authors \ {a} : creating[b] # None => creating[b].item # creating[a].item

\* Only one publication holds the lock of an item, and it holds the row as it is.
LockInv ==
    /\ \A p, q \in Publishers : publishing[p] # None /\ publishing[q] # None
          /\ publishing[p].at # "lock" /\ publishing[q].at # "lock"
          /\ publishing[p].item = publishing[q].item => p = q
    /\ \A p \in Publishers : publishing[p] # None =>
          /\ heads[publishing[p].item] # None
          /\ publishing[p].at # "lock" => publishing[p].head = heads[publishing[p].item]

\* The number of a version to be inserted is the next one.
NextNumber ==
    \A p \in Publishers : publishing[p] # None /\ publishing[p].at \in {"insert", "commit"} =>
        /\ publishing[p].version # 0
        /\ DOMAIN versions[publishing[p].item] = 1 .. (publishing[p].version - 1)

\* What has passed the second check has approved rights.
Checked ==
    \A p \in Publishers :
        publishing[p] # None /\ publishing[p].at \in {"number", "insert", "commit"} =>
            RightsApproved(publishing[p].item, publishing[p].head)

OneTableEach == versions = [i \in Items |-> versions[i]]

CatalogInv == /\ TypeOK /\ OneTableEach /\ Unborn /\ LockInv
              /\ Numbered /\ NextNumber /\ Checked
              /\ PublishersNeverClash /\ PublishedRightsApproved

\* The highest number of a table without gaps is its length.
LEMMA HighestNumber ==
    ASSUME NEW n \in Nat
    PROVE Max((1 .. n) \cup {0}) = n
<1>1. n \in (1 .. n) \cup {0} /\ \A y \in (1 .. n) \cup {0} : n >= y
    OBVIOUS
<1>2. \A x \in (1 .. n) \cup {0} : (\A y \in (1 .. n) \cup {0} : x >= y) => x = n
    BY <1>1
<1>3. QED
    BY <1>1, <1>2 DEF Max

LEMMA HeadFields ==
    ASSUME NEW h \in Heads
    PROVE  /\ h.current \in Nat \ {0} /\ h.draft \in Payloads /\ h.tenant \in Tenants
           /\ h.curriculum \in Items
BY DEF Heads, CurriculumRows, ChainRows, Rows

\* A row stays a row under an edit and under a publication.
LEMMA HeadChanged ==
    ASSUME NEW h \in Heads, NEW d \in Payloads, NEW n \in Nat \ {0}
    PROVE  /\ [h EXCEPT !.draft = d, !.current = n] \in Heads
           /\ [h EXCEPT !.published = n, !.current = n] \in Heads
<1>1. CASE h \in CurriculumRows
    BY <1>1 DEF CurriculumRows, Heads, Rows
<1>2. CASE h \in ChainRows
    BY <1>2 DEF ChainRows, Heads, Rows
<1>3. QED
    BY <1>1, <1>2 DEF Heads

LEMMA NewHeadIsRow ==
    ASSUME NEW t \in Tenants, NEW q \in Items \cup {None}, NEW c \in Items, NEW d \in Payloads
    PROVE  NewHead(t, q, c, d) \in Heads
BY DEF NewHead, Heads, CurriculumRows, ChainRows, Rows

LEMMA EntryTyped ==
    ASSUME TypeOK, NEW i \in Items, Published(i)
    PROVE  Entry(i) \in Entries
<1>1. heads[i] \in Heads /\ heads[i].published \in DOMAIN versions[i]
    BY DEF TypeOK, Published, Exists
<1>2. heads[i].draft \in Payloads
    BY <1>1, HeadFields
<1>3. versions[i][heads[i].published] \in Payloads /\ heads[i].published \in Nat
    BY <1>1 DEF TypeOK, VersionRows
<1>4. QED
    BY <1>2, <1>3 DEF Entry, Entries

\* Editing, creating and reading leave the calls of publishers alone.
LEMMA OthersStep ==
    ASSUME CatalogInv,
           \/ \E a \in Authors : InsertHead(a) \/
                 \E i \in Items, d \in Payloads : InheritFromParent(a, i, d)
           \/ \E i \in Items : UpdateDraft(i)
           \/ \E r \in Readers : ReadLevel(r) \/ \E t \in Tenants : FindCurriculum(r, t)
    PROVE  CatalogInv'
<1> USE CatalogAssumption, NoneAssumption DEF CatalogInv
<1>1. ASSUME NEW a \in Authors, InsertHead(a) PROVE CatalogInv'
  <2>1. creating[a] # None /\ creating[a] \in [item : Items, head : Heads]
      BY <1>1 DEF InsertHead, TypeOK
  <2>2. heads[creating[a].item] = None
      BY <2>1 DEF Unborn
  <2>3. \A i \in Items : heads'[i] = IF i = creating[a].item THEN creating[a].head ELSE heads[i]
      BY <1>1, <2>1 DEF InsertHead, TypeOK
  <2>4. TypeOK'
      BY <1>1, <2>1 DEF InsertHead, TypeOK
  <2>5. LockInv'
      BY <1>1, <2>1, <2>2, <2>3 DEF InsertHead, LockInv, TypeOK, Publications
  <2>6. Unborn'
      BY <1>1, <2>1, <2>3 DEF InsertHead, Unborn, TypeOK
  <2>7. QED
      BY <1>1, <2>4, <2>5, <2>6 DEF InsertHead, OneTableEach, Numbered, NextNumber, Checked, RightsApproved, IsMaterial,
                        PublishersNeverClash, PublishedRightsApproved
<1>2. ASSUME NEW a \in Authors, NEW i \in Items, NEW d \in Payloads, InheritFromParent(a, i, d)
      PROVE CatalogInv'
  <2>1. PICK head \in Heads : creating' = [creating EXCEPT ![a] = [item |-> i, head |-> head]]
    <3>1. CASE Level[i] = 1 /\ \E t \in Tenants :
                   creating' = [creating EXCEPT ![a] = [item |-> i, head |-> NewHead(t, None, i, d)]]
        BY <3>1, NewHeadIsRow
    <3>2. ASSUME NEW p \in Items, Exists(p),
                 creating' = [creating EXCEPT ![a] = [item |-> i,
                     head |-> NewHead(heads[p].tenant, p, heads[p].curriculum, d)]]
          PROVE \E head \in Heads :
                   creating' = [creating EXCEPT ![a] = [item |-> i, head |-> head]]
      <4>1. heads[p] \in Heads
          BY <3>2 DEF Exists, TypeOK
      <4>2. heads[p].tenant \in Tenants /\ heads[p].curriculum \in Items
          BY <4>1, HeadFields
      <4>3. NewHead(heads[p].tenant, p, heads[p].curriculum, d) \in Heads
          BY <4>2, NewHeadIsRow
      <4>4. QED
          BY <3>2, <4>3
    <3>3. QED
        BY <1>2, <3>1, <3>2 DEF InheritFromParent
  <2>2. TypeOK'
      BY <1>2, <2>1 DEF InheritFromParent, TypeOK
  <2>3. Unborn'
      BY <1>2, <2>1 DEF InheritFromParent, Unborn, Exists, TypeOK
  <2>4. QED
      BY <1>2, <2>2, <2>3 DEF InheritFromParent, OneTableEach, LockInv, Numbered, NextNumber,
                              Checked, RightsApproved, IsMaterial,
                        PublishersNeverClash, PublishedRightsApproved
<1>3. ASSUME NEW i \in Items, UpdateDraft(i) PROVE CatalogInv'
  <2>1. PICK d \in Payloads :
            heads' = [heads EXCEPT ![i] = [heads[i] EXCEPT !.draft = d, !.current = @ + 1]]
      BY <1>3 DEF UpdateDraft
  <2>2. heads[i] \in Heads
      BY <1>3 DEF UpdateDraft, Editable, Exists, TypeOK
  <2>3. [heads[i] EXCEPT !.draft = d, !.current = @ + 1] \in Heads
    <3>1. heads[i].current + 1 \in Nat \ {0}
        BY <2>2, HeadFields
    <3>2. QED
        BY <2>2, <3>1, HeadChanged
  <2>4. TypeOK'
      BY <1>3, <2>1, <2>3 DEF UpdateDraft, TypeOK
  <2>5. \A j \in Items : /\ heads'[j] = None <=> heads[j] = None
                         /\ j # i => heads'[j] = heads[j]
      BY <2>1, <2>2, <2>3 DEF TypeOK
  <2>6. LockInv'
    <3>1. \A p \in Publishers : publishing[p] # None => publishing[p].item \in Items
        BY DEF TypeOK, Publications
    <3>2. \A p \in Publishers : publishing[p] # None /\ publishing[p].at # "lock"
              => publishing[p].item # i
        BY <1>3 DEF UpdateDraft, Editable, HeadFree, Locks
    <3>3. QED
        BY <1>3, <2>5, <3>1, <3>2 DEF UpdateDraft, LockInv
  <2>7. Unborn'
      BY <1>3, <2>5 DEF UpdateDraft, Unborn, TypeOK
  <2>8. QED
      BY <1>3, <2>4, <2>6, <2>7 DEF UpdateDraft, OneTableEach, Numbered, NextNumber, Checked,
                                    RightsApproved, IsMaterial,
                        PublishersNeverClash, PublishedRightsApproved
<1>4. ASSUME NEW r \in Readers, ReadLevel(r) PROVE CatalogInv'
  <2>1. UNCHANGED <<heads, versions, publishing, creating, clashed, faults>>
      BY <1>4 DEF ReadLevel
  <2>2. PICK level \in reading[r].levels :
          LET rows == reading[r].rows \cup PublishedRows(reading[r].curriculum, level)
              left == reading[r].levels \ {level}
          IN  IF left # {}
              THEN /\ reading' = [reading EXCEPT ![r].levels = left, ![r].rows = rows]
                   /\ UNCHANGED shown
              ELSE /\ reading' = [reading EXCEPT ![r] = None]
                   /\ shown' = [shown EXCEPT ![r] = rows]
      BY <1>4 DEF ReadLevel
  <2> DEFINE rows == reading[r].rows \cup PublishedRows(reading[r].curriculum, level)
             left == reading[r].levels \ {level}
             Readings == [curriculum : Items, levels : SUBSET (1 .. Depth), rows : SUBSET Entries]
  <2>3. reading[r] \in Readings
      BY <1>4 DEF ReadLevel, TypeOK
  <2>4. rows \subseteq Entries
    <3>1. PublishedRows(reading[r].curriculum, level) \subseteq Entries
        BY EntryTyped DEF PublishedRows
    <3>2. QED
        BY <2>3, <3>1
  <2>5. TypeOK'
    <3>1. CASE left # {}
      <4>1. [reading[r] EXCEPT !.levels = left, !.rows = rows] \in Readings
          BY <2>3, <2>4
      <4>2. reading' = [reading EXCEPT ![r] = [reading[r] EXCEPT !.levels = left, !.rows = rows]]
          BY <2>2, <3>1 DEF TypeOK
      <4>3. reading' \in [Readers -> Readings \cup {None}] /\ shown' = shown
          BY <2>2, <3>1, <4>1, <4>2 DEF TypeOK
      <4>4. QED
          BY <2>1, <4>3 DEF TypeOK
    <3>2. CASE left = {}
      <4>1. reading' = [reading EXCEPT ![r] = None] /\ shown' = [shown EXCEPT ![r] = rows]
          BY <2>2, <3>2
      <4>2. QED
          BY <2>1, <2>4, <4>1 DEF TypeOK
    <3>3. QED
        BY <3>1, <3>2
  <2>6. QED
      BY <2>1, <2>5 DEF OneTableEach, LockInv, Unborn, Numbered, NextNumber, Checked,
                        RightsApproved, IsMaterial,
                        PublishersNeverClash, PublishedRightsApproved
<1>5. ASSUME NEW r \in Readers, NEW t \in Tenants, FindCurriculum(r, t) PROVE CatalogInv'
  <2>1. UNCHANGED <<heads, versions, publishing, creating, shown, clashed, faults>>
      BY <1>5 DEF FindCurriculum
  <2>2. PICK c \in Items :
            /\ Published(c)
            /\ reading' = [reading EXCEPT ![r] =
                   [curriculum |-> c, levels |-> 2 .. Depth, rows |-> {Entry(c)}]]
      BY <1>5 DEF FindCurriculum
  <2>3. Entry(c) \in Entries /\ 2 .. Depth \subseteq 1 .. Depth
      BY <2>2, EntryTyped
  <2>4. TypeOK'
      BY <2>1, <2>2, <2>3 DEF TypeOK
  <2>5. QED
      BY <2>1, <2>4 DEF OneTableEach, LockInv, Unborn, Numbered, NextNumber, Checked,
                        RightsApproved, IsMaterial,
                        PublishersNeverClash, PublishedRightsApproved
<1>6. QED
    BY <1>1, <1>2, <1>3, <1>4, <1>5

\* A publication moves on, begins or ends, and nothing else changes.
LEMMA MoveStep ==
    ASSUME CatalogInv, NEW p \in Publishers, NEW next \in Publications \cup {None},
           publishing' = [publishing EXCEPT ![p] = next],
           UNCHANGED <<heads, versions, creating, reading, shown, clashed>>,
           faults' \in 0 .. MaxFaults,
           next # None => heads[next.item] # None,
           next # None /\ next.at # "lock" =>
               /\ next.head = heads[next.item]
               /\ \A q \in Publishers \ {p} : ~Locks(q, next.item),
           next # None /\ next.at \in {"insert", "commit"} =>
               /\ next.version # 0
               /\ DOMAIN versions[next.item] = 1 .. (next.version - 1),
           next # None /\ next.at \in {"number", "insert", "commit"} =>
               RightsApproved(next.item, next.head)
    PROVE  CatalogInv'
<1> USE DEF CatalogInv
<1>1. \A q \in Publishers : publishing'[q] = IF q = p THEN next ELSE publishing[q]
    BY DEF TypeOK
<1>2. TypeOK'
    BY DEF TypeOK
<1>3. LockInv'
    BY <1>1 DEF LockInv, Locks
<1>4. NextNumber' /\ Checked'
    BY <1>1 DEF NextNumber, Checked, RightsApproved, IsMaterial
<1>5. Numbered' /\ OneTableEach'
    BY DEF Numbered, OneTableEach
<1>6. QED
    BY <1>2, <1>3, <1>4, <1>5 DEF Unborn, PublishersNeverClash, PublishedRightsApproved, IsMaterial

LEMMA PublisherMoves ==
    ASSUME CatalogInv, NEW p \in Publishers,
           \/ LockHead(p) \/ CheckRights(p) \/ NumberVersion(p) \/ InsertVersion(p) \/ Fault(p)
           \/ \E i \in Items : Gate(p, i)
    PROVE  CatalogInv'
<1> USE CatalogAssumption, NoneAssumption
<1> DEFINE call == publishing[p]
<1>0. /\ publishing \in [Publishers -> Publications \cup {None}] /\ faults \in 0 .. MaxFaults
      /\ call # None => /\ call \in Publications /\ call.item \in Items
                        /\ heads[call.item] # None /\ heads[call.item] \in Heads
                        /\ call.at # "lock" => call.head = heads[call.item]
                        /\ call.at # "lock" => \A q \in Publishers \ {p} : ~Locks(q, call.item)
    BY DEF CatalogInv, TypeOK, Publications, LockInv, Locks
<1>1. ASSUME End(p), faults' \in 0 .. MaxFaults,
             UNCHANGED <<heads, versions, creating, reading, shown, clashed>>
      PROVE  CatalogInv'
    BY <1>1, MoveStep DEF End
<1>2. CASE Fault(p)
  <2>1. faults' \in 0 .. MaxFaults
      BY <1>0, <1>2 DEF Fault
  <2>2. QED
      BY <1>1, <1>2, <2>1 DEF Fault
<1>3. ASSUME NEW i \in Items, Gate(p, i) PROVE CatalogInv'
  <2> DEFINE next == [item |-> i, at |-> "lock", head |-> None, version |-> 0]
  <2>1. next \in Publications /\ heads[i] # None
      BY <1>3 DEF Gate, Exists, Publications
  <2>2. publishing' = [publishing EXCEPT ![p] = next]
      BY <1>3 DEF Gate
  <2>3. UNCHANGED <<heads, versions, creating, reading, shown, clashed>> /\ faults' \in 0 .. MaxFaults
      BY <1>0, <1>3 DEF Gate
  <2>4. next.item = i /\ next.at = "lock"
      OBVIOUS
  <2> HIDE DEF next
  <2>5. QED
      BY <2>1, <2>2, <2>3, <2>4, MoveStep
<1>4. CASE LockHead(p)
  <2> DEFINE next == [call EXCEPT !.at = "check", !.head = heads[call.item]]
  <2>1. call # None /\ \A q \in Publishers : ~Locks(q, call.item)
      BY <1>4 DEF LockHead, HeadFree
  <2>2. /\ next \in Publications /\ next.item = call.item /\ next.at = "check"
        /\ next.head = heads[call.item]
      BY <1>0, <2>1 DEF Publications
  <2>3. publishing' = [publishing EXCEPT ![p] = next]
      BY <1>0, <1>4 DEF LockHead
  <2>4. UNCHANGED <<heads, versions, creating, reading, shown, clashed>> /\ faults' \in 0 .. MaxFaults
      BY <1>0, <1>4 DEF LockHead
  <2> HIDE DEF next
  <2>5. QED
      BY <1>0, <2>1, <2>2, <2>3, <2>4, MoveStep
<1>5. CASE CheckRights(p)
  <2>1. /\ call # None /\ call.at = "check"
        /\ UNCHANGED <<heads, versions, creating, reading, shown, clashed>>
        /\ faults' \in 0 .. MaxFaults
      BY <1>0, <1>5 DEF CheckRights
  <2>2. CASE RightsApproved(call.item, call.head)
    <3> DEFINE next == [call EXCEPT !.at = "number"]
    <3>1. /\ next \in Publications /\ next.item = call.item /\ next.at = "number"
          /\ next.head = call.head
        BY <1>0, <2>1 DEF Publications
    <3>2. publishing' = [publishing EXCEPT ![p] = next]
        BY <1>0, <1>5, <2>2 DEF CheckRights
    <3> HIDE DEF next
    <3>3. QED
        BY <1>0, <2>1, <2>2, <3>1, <3>2, MoveStep
  <2>3. CASE ~RightsApproved(call.item, call.head)
      BY <1>1, <1>5, <2>1, <2>3 DEF CheckRights
  <2>4. QED
      BY <2>2, <2>3
<1>6. CASE NumberVersion(p)
  <2>1. /\ call # None /\ call.at = "number"
        /\ UNCHANGED <<heads, versions, creating, reading, shown, clashed>>
        /\ faults' \in 0 .. MaxFaults
      BY <1>0, <1>6 DEF NumberVersion
  <2>2. PICK n \in Nat : DOMAIN versions[call.item] = 1 .. n
      BY <1>0, <2>1 DEF CatalogInv, Numbered
  <2>3. Max(DOMAIN versions[call.item] \cup {0}) + 1 = n + 1
      BY <2>2, HighestNumber
  <2> DEFINE next == [call EXCEPT !.version = n + 1, !.at = "insert"]
  <2>4. /\ next \in Publications /\ next.item = call.item /\ next.at = "insert"
        /\ next.head = call.head /\ next.version = n + 1
    <3>1. call \in Publications /\ n + 1 \in Nat
        BY <1>0, <2>1
    <3>2. \A m \in Nat : [call EXCEPT !.version = m, !.at = "insert"] \in Publications
        BY <3>1 DEF Publications
    <3>3. QED
        BY <3>1, <3>2 DEF Publications
  <2>5. publishing' = [publishing EXCEPT ![p] = next]
      BY <1>0, <1>6, <2>3 DEF NumberVersion
  <2>6. RightsApproved(call.item, call.head)
      BY <2>1 DEF CatalogInv, Checked
  <2>7. next.version # 0 /\ DOMAIN versions[next.item] = 1 .. (next.version - 1)
      BY <2>2, <2>4
  <2> HIDE DEF next
  <2>8. QED
      BY <1>0, <2>1, <2>4, <2>5, <2>6, <2>7, MoveStep
<1>7. CASE InsertVersion(p)
  <2>1. /\ call # None /\ call.at = "insert"
        /\ UNCHANGED <<heads, versions, creating, reading, shown, faults>>
      BY <1>7 DEF InsertVersion
  <2>2. /\ call.version \in Nat /\ call.version # 0
        /\ DOMAIN versions[call.item] = 1 .. (call.version - 1)
        /\ RightsApproved(call.item, call.head)
      BY <1>0, <2>1 DEF CatalogInv, NextNumber, Checked, Publications
  <2>3. call.version \notin DOMAIN versions[call.item]
      BY <2>2
  <2> DEFINE next == [call EXCEPT !.at = "commit"]
  <2>4. /\ next \in Publications /\ next.item = call.item /\ next.at = "commit"
        /\ next.head = call.head /\ next.version = call.version
      BY <1>0, <2>1 DEF Publications
  <2>5. publishing' = [publishing EXCEPT ![p] = next] /\ UNCHANGED clashed
      BY <1>0, <1>7, <2>3 DEF InsertVersion
  <2> HIDE DEF next
  <2>6. QED
      BY <1>0, <2>1, <2>2, <2>4, <2>5, MoveStep
<1>8. QED
    BY <1>2, <1>3, <1>4, <1>5, <1>6, <1>7

\* A publication adds the next version, whose payload is the locked head row.
LEMMA CommitStep ==
    ASSUME CatalogInv, NEW p \in Publishers, CommitVersion(p)
    PROVE  CatalogInv'
<1> USE CatalogAssumption, NoneAssumption
<1> DEFINE call == publishing[p]
           i == call.item
           v == call.version
           head == heads[i]
           row == [head EXCEPT !.published = v, !.current = v]
           table == [w \in DOMAIN versions[i] \cup {v} |->
                        IF w = v THEN head.draft ELSE versions[i][w]]
<1>1. /\ call # None /\ call.at = "commit"
      /\ publishing' = [publishing EXCEPT ![p] = None]
      /\ UNCHANGED <<creating, reading, shown, clashed, faults>>
    BY DEF CommitVersion, End
<1>2. /\ call \in Publications /\ i \in Items /\ v \in Nat \ {0}
      /\ head # None /\ head \in Heads /\ call.head = head
    BY <1>1 DEF CatalogInv, TypeOK, Publications, LockInv, NextNumber
<1>3. DOMAIN versions[i] = 1 .. (v - 1) /\ RightsApproved(i, head)
    BY <1>1, <1>2 DEF CatalogInv, NextNumber, Checked
<1>4. row \in Heads /\ row # None /\ head.draft \in Payloads
  <2>1. head.draft \in Payloads
      BY <1>2, HeadFields
  <2>2. row \in Heads
      BY <1>2, <2>1, HeadChanged
  <2>3. QED
      BY <2>1, <2>2
<1>5. heads' = [heads EXCEPT ![i] = row]
    BY <1>2 DEF CommitVersion, CatalogInv, TypeOK
<1>6. versions' = [versions EXCEPT ![i] = table]
    BY <1>2 DEF CommitVersion
<1>7. DOMAIN table = 1 .. v /\ VersionRows(table)
    BY <1>2, <1>3, <1>4, SMTT(30) DEF CatalogInv, TypeOK, VersionRows
<1>8. IsMaterial(i) => \A w \in DOMAIN table : table[w] \in Approved
    BY <1>2, <1>3 DEF CatalogInv, PublishedRightsApproved, RightsApproved
<1> HIDE DEF row, table
<1>9. /\ versions'[i] = table /\ \A j \in Items \ {i} : versions'[j] = versions[j]
      /\ heads'[i] = row /\ \A j \in Items \ {i} : heads'[j] = heads[j]
    BY <1>2, <1>5, <1>6 DEF CatalogInv, OneTableEach, TypeOK
<1>10. /\ \A q \in Publishers : publishing'[q] = (IF q = p THEN None ELSE publishing[q])
       /\ \A q \in Publishers \ {p} :
             publishing[q] # None /\ publishing[q].at # "lock" => publishing[q].item # i
    BY <1>1 DEF CatalogInv, TypeOK, LockInv
<1>11. TypeOK'
    BY <1>1, <1>4, <1>5, <1>7, <1>9 DEF CatalogInv, TypeOK
<1>12. OneTableEach'
    BY <1>6 DEF CatalogInv, OneTableEach
<1>13. Unborn'
    BY <1>1, <1>2, <1>9 DEF CatalogInv, Unborn, TypeOK
<1>14. LockInv'
    BY <1>1, <1>4, <1>9, <1>10 DEF CatalogInv, LockInv, TypeOK, Publications
<1>15. Numbered'
    BY <1>2, <1>7, <1>9 DEF CatalogInv, Numbered
<1>16. NextNumber'
    BY <1>9, <1>10 DEF CatalogInv, NextNumber, TypeOK, Publications
<1>17. Checked'
    BY <1>10 DEF CatalogInv, Checked, RightsApproved, IsMaterial
<1>18. PublishersNeverClash' /\ PublishedRightsApproved'
    BY <1>1, <1>8, <1>9 DEF CatalogInv, PublishersNeverClash, PublishedRightsApproved, IsMaterial
<1>19. QED
    BY <1>11, <1>12, <1>13, <1>14, <1>15, <1>16, <1>17, <1>18 DEF CatalogInv

LEMMA CatalogStarts == Init => CatalogInv
<1> SUFFICES ASSUME Init PROVE CatalogInv
    OBVIOUS
<1> USE CatalogAssumption, NoneAssumption DEF Init
<1>1. DOMAIN << >> = 1 .. 0 /\ 1 .. 0 = {}
    OBVIOUS
<1>2. \A i \in Items : versions[i] = << >>
    OBVIOUS
<1>3. TypeOK
  <2>1. \A i \in Items : VersionRows(versions[i])
    <3>1. VersionRows(<< >>)
        BY <1>1 DEF VersionRows
    <3>2. QED
        BY <1>2, <3>1
  <2>2. clashed \in BOOLEAN /\ faults \in 0 .. MaxFaults
    <3>1. clashed \in BOOLEAN
        BY Zenon
    <3>2. MaxFaults \in Nat /\ faults = 0
        OBVIOUS
    <3>3. QED
        BY <3>1, <3>2
  <2>3. /\ heads \in [Items -> Heads \cup {None}]
        /\ publishing \in [Publishers -> Publications \cup {None}]
        /\ creating \in [Authors -> [item : Items, head : Heads] \cup {None}]
        /\ shown \in [Readers -> SUBSET Entries]
      OBVIOUS
  <2>4. reading \in [Readers -> [curriculum : Items, levels : SUBSET (1 .. Depth),
                                rows : SUBSET Entries] \cup {None}]
      OBVIOUS
  <2>5. QED
      BY <2>1, <2>2, <2>3, <2>4 DEF TypeOK
<1>4. OneTableEach /\ Unborn /\ LockInv /\ NextNumber /\ Checked
    BY DEF OneTableEach, Unborn, LockInv, NextNumber, Checked
<1>5. Numbered
    BY <1>1, <1>2 DEF Numbered
<1>6. PublishersNeverClash /\ PublishedRightsApproved
    BY <1>1, <1>2 DEF PublishersNeverClash, PublishedRightsApproved
<1>7. QED
    BY <1>3, <1>4, <1>5, <1>6 DEF CatalogInv

LEMMA CatalogStep == CatalogInv /\ [Next]_vars => CatalogInv'
<1> SUFFICES ASSUME CatalogInv, [Next]_vars PROVE CatalogInv'
    OBVIOUS
<1>1. CASE UNCHANGED vars
    BY <1>1 DEF vars, CatalogInv, TypeOK, OneTableEach, Unborn, LockInv, Numbered, NextNumber,
                Checked, RightsApproved, IsMaterial, PublishersNeverClash, PublishedRightsApproved
<1>2. ASSUME NEW p \in Publishers, Publish(p) \/ Fault(p) \/ \E i \in Items : Gate(p, i)
      PROVE  CatalogInv'
    BY <1>2, PublisherMoves, CommitStep DEF Publish
<1>3. CASE \/ \E a \in Authors : InsertHead(a) \/
                  \E i \in Items, d \in Payloads : InheritFromParent(a, i, d)
           \/ \E i \in Items : UpdateDraft(i)
           \/ \E r \in Readers : ReadLevel(r) \/ \E t \in Tenants : FindCurriculum(r, t)
    BY <1>3, OthersStep
<1>4. QED
    BY <1>1, <1>2, <1>3 DEF Next

LEMMA CatalogInvariant == Spec => []CatalogInv
BY CatalogStarts, CatalogStep, PTL DEF Spec

\* Types hold for every chain of items and any number of calls.
THEOREM TypeCorrect == Spec => []TypeOK
<1>1. CatalogInv => TypeOK
    BY DEF CatalogInv
<1>2. QED
    BY <1>1, CatalogInvariant, PTL

\* Publications of one item never meet in the unique index, whatever their
\* number and whichever of them fail: the lock of the head row is enough.
THEOREM PublishersSerialised == Spec => []PublishersNeverClash
<1>1. CatalogInv => PublishersNeverClash
    BY DEF CatalogInv
<1>2. QED
    BY <1>1, CatalogInvariant, PTL

\* No material is published with rights that are not approved, whatever is
\* edited between the gate and the commit.
THEOREM RightsHold == Spec => []PublishedRightsApproved
<1>1. CatalogInv => PublishedRightsApproved
    BY DEF CatalogInv
<1>2. QED
    BY <1>1, CatalogInvariant, PTL

\* What a publication commits is the head row of that moment.
THEOREM CommitIsCurrent == Spec => []CommitsWhatIsLocked
<1>1. CatalogInv => CommitsWhatIsLocked
    BY DEF CatalogInv, LockInv, CommitsWhatIsLocked
<1>2. QED
    BY <1>1, CatalogInvariant, PTL

-----------------------------------------------------------------------------
(* What the readers are sent only advances, for any number of readers,       *)
(* publishers and levels.                                                    *)

\* The pointer of a head row is at its newest version.
Latest == \A i \in Items : \A v \in DOMAIN versions[i] :
    heads[i] # None /\ heads[i].published \in Nat /\ v <= heads[i].published

\* Rows that were sent name versions that are still there, as they were.
Genuine(rows) == \A e \in rows :
    /\ e.item \in Items
    /\ e.version \in DOMAIN versions[e.item]
    /\ versions[e.item][e.version] = e.payload

OneEach(rows) == \A e, f \in rows : e.item = f.item => e.version = f.version

NotOlder(rows, before) ==
    \A e \in rows, f \in before : e.item = f.item => e.version >= f.version

\* A reader at work has rows of the levels it has read, none older than what it
\* was sent before.
Reader(r) ==
    /\ shown[r] \subseteq Entries /\ Genuine(shown[r]) /\ OneEach(shown[r])
    /\ reading[r] # None =>
          /\ reading[r].rows \subseteq Entries
          /\ Genuine(reading[r].rows) /\ OneEach(reading[r].rows)
          /\ NotOlder(reading[r].rows, shown[r])
          /\ \A e \in reading[r].rows : Level[e.item] \notin reading[r].levels

ReaderInv == \A r \in Readers : Reader(r)

\* A version that is there stays there, with its payload.
Kept(i) == /\ DOMAIN versions[i] \subseteq DOMAIN versions'[i]
           /\ \A v \in DOMAIN versions[i] : versions'[i][v] = versions[i][v]

\* Only a commit changes the version tables, and it adds the head's draft, of
\* approved rights, under the next number.
LEMMA CommitEffect ==
    ASSUME CatalogInv, NEW p \in Publishers, CommitVersion(p)
    PROVE  \E i \in Items, v \in Nat \ {0}, d \in Payloads :
               /\ DOMAIN versions[i] = 1 .. (v - 1)
               /\ versions' = [versions EXCEPT ![i] = [w \in DOMAIN versions[i] \cup {v} |->
                                  IF w = v THEN d ELSE versions[i][w]]]
               /\ heads[i] \in Heads /\ heads[i].draft = d /\ RightsApproved(i, heads[i])
               /\ heads' = [heads EXCEPT ![i] = [heads[i] EXCEPT !.published = v, !.current = v]]
<1> USE CatalogAssumption, NoneAssumption
<1> DEFINE call == publishing[p]
<1>1. call # None /\ call.at = "commit"
    BY DEF CommitVersion
<1>2. /\ call \in Publications /\ call.item \in Items /\ call.version \in Nat \ {0}
      /\ heads[call.item] \in Heads /\ call.head = heads[call.item]
      /\ DOMAIN versions[call.item] = 1 .. (call.version - 1)
      /\ RightsApproved(call.item, heads[call.item])
    BY <1>1 DEF CatalogInv, TypeOK, Publications, LockInv, NextNumber, Checked
<1>3. call.head.draft \in Payloads
    BY <1>2, HeadFields
<1>4. heads' = [heads EXCEPT ![call.item] =
                   [heads[call.item] EXCEPT !.published = call.version, !.current = call.version]]
    BY <1>2 DEF CommitVersion, CatalogInv, TypeOK
<1>5. versions' = [versions EXCEPT ![call.item] = [w \in DOMAIN versions[call.item] \cup {call.version} |->
                      IF w = call.version THEN call.head.draft ELSE versions[call.item][w]]]
    BY DEF CommitVersion
<1> HIDE DEF call
<1>6. QED
    BY <1>2, <1>3, <1>4, <1>5

\* Every other step keeps the version tables, and moves no pointer.
LEMMA OtherEffect ==
    ASSUME CatalogInv, [Next]_vars, ~\E p \in Publishers : CommitVersion(p)
    PROVE  /\ versions' = versions
           /\ \A i \in Items : heads[i] # None =>
                 /\ heads'[i] # None
                 /\ heads'[i].published = heads[i].published
<1> USE CatalogAssumption, NoneAssumption DEF CatalogInv
<1>1. ASSUME NEW a \in Authors, InsertHead(a)
      PROVE  versions' = versions /\ \A i \in Items : heads[i] # None => heads'[i] = heads[i]
    BY <1>1 DEF InsertHead, Unborn, TypeOK
<1>2. ASSUME NEW i \in Items, UpdateDraft(i)
      PROVE  versions' = versions /\ \A j \in Items : heads[j] # None =>
                 heads'[j] # None /\ heads'[j].published = heads[j].published
  <2>1. PICK d \in Payloads :
            heads' = [heads EXCEPT ![i] = [heads[i] EXCEPT !.draft = d, !.current = @ + 1]]
      BY <1>2 DEF UpdateDraft
  <2>2. heads[i] \in Heads
      BY <1>2 DEF UpdateDraft, Editable, Exists, TypeOK
  <2>3. heads[i].current + 1 \in Nat \ {0}
      BY <2>2, HeadFields
  <2> DEFINE row == [heads[i] EXCEPT !.draft = d, !.current = heads[i].current + 1]
  <2>4. row \in Heads
      BY <2>2, <2>3, HeadChanged
  <2>5. row.published = heads[i].published
      BY <2>2 DEF Heads, CurriculumRows, ChainRows, Rows
  <2>6. heads' = [heads EXCEPT ![i] = row]
      BY <2>1
  <2> HIDE DEF row
  <2>7. QED
      BY <1>2, <2>4, <2>5, <2>6 DEF UpdateDraft, TypeOK
<1>3. ASSUME UNCHANGED <<heads, versions>>
      PROVE  /\ versions' = versions
             /\ \A i \in Items : heads[i] # None =>
                   heads'[i] # None /\ heads'[i].published = heads[i].published
    BY <1>3
<1>4. ASSUME NEW p \in Publishers, Publish(p) \/ Fault(p) \/ \E i \in Items : Gate(p, i)
      PROVE  UNCHANGED <<heads, versions>>
    BY <1>4 DEF Publish, LockHead, CheckRights, NumberVersion, InsertVersion, Fault, Gate
<1>5. ASSUME NEW a \in Authors, NEW i \in Items, NEW d \in Payloads, InheritFromParent(a, i, d)
      PROVE  UNCHANGED <<heads, versions>>
    BY <1>5 DEF InheritFromParent
<1>6. ASSUME NEW r \in Readers, ReadLevel(r) \/ \E t \in Tenants : FindCurriculum(r, t)
      PROVE  UNCHANGED <<heads, versions>>
    BY <1>6 DEF ReadLevel, FindCurriculum
<1>7. CASE UNCHANGED vars
    BY <1>3, <1>7 DEF vars
<1> HIDE DEF CatalogInv
<1>8. QED
    BY <1>1, <1>2, <1>3, <1>4, <1>5, <1>6, <1>7 DEF Next

LEMMA VersionsKept ==
    ASSUME CatalogInv, [Next]_vars, NEW i \in Items
    PROVE  Kept(i)
<1>1. ASSUME NEW p \in Publishers, CommitVersion(p) PROVE Kept(i)
  <2>1. PICK j \in Items, v \in Nat \ {0}, d \in Payloads :
            /\ DOMAIN versions[j] = 1 .. (v - 1)
            /\ versions' = [versions EXCEPT ![j] = [w \in DOMAIN versions[j] \cup {v} |->
                               IF w = v THEN d ELSE versions[j][w]]]
            /\ heads[j] \in Heads
            /\ heads' = [heads EXCEPT ![j] = [heads[j] EXCEPT !.published = v, !.current = v]]
      BY <1>1, CommitEffect
  <2>2. CASE i # j
      BY <2>1, <2>2 DEF Kept, CatalogInv, OneTableEach
  <2>3. CASE i = j
    <3>1. versions'[i] = [w \in DOMAIN versions[i] \cup {v} |-> IF w = v THEN d ELSE versions[i][w]]
        BY <2>1, <2>3 DEF CatalogInv, OneTableEach
    <3>2. v \notin DOMAIN versions[i]
        BY <2>1, <2>3
    <3>3. QED
        BY <3>1, <3>2 DEF Kept
  <2>4. QED
      BY <2>2, <2>3
<1>2. CASE ~\E p \in Publishers : CommitVersion(p)
    BY <1>2, OtherEffect DEF Kept
<1>3. QED
    BY <1>1, <1>2

LEMMA LatestStep ==
    ASSUME CatalogInv, Latest, [Next]_vars
    PROVE  Latest'
<1>1. ASSUME NEW p \in Publishers, CommitVersion(p) PROVE Latest'
  <2>1. PICK j \in Items, v \in Nat \ {0}, d \in Payloads :
            /\ DOMAIN versions[j] = 1 .. (v - 1)
            /\ versions' = [versions EXCEPT ![j] = [w \in DOMAIN versions[j] \cup {v} |->
                               IF w = v THEN d ELSE versions[j][w]]]
            /\ heads[j] \in Heads
            /\ heads' = [heads EXCEPT ![j] = [heads[j] EXCEPT !.published = v, !.current = v]]
      BY <1>1, CommitEffect
  <2> DEFINE row == [heads[j] EXCEPT !.published = v, !.current = v]
  <2>2. row \in Heads /\ row.published = v
    <3>1. heads[j].draft \in Payloads
        BY <2>1, HeadFields
    <3>2. row \in Heads
        BY <2>1, <3>1, HeadChanged
    <3>3. row.published = v
        BY <2>1 DEF Heads, CurriculumRows, ChainRows, Rows
    <3>4. QED
        BY <3>2, <3>3
  <2>3. heads' = [heads EXCEPT ![j] = row]
      BY <2>1
  <2> HIDE DEF row
  <2>4. ASSUME NEW i \in Items, NEW w \in DOMAIN versions'[i]
        PROVE  heads'[i] # None /\ heads'[i].published \in Nat /\ w <= heads'[i].published
    <3>1. CASE i # j
      <4>1. heads'[i] = heads[i] /\ versions'[i] = versions[i]
          BY <2>1, <2>3, <3>1 DEF CatalogInv, TypeOK, OneTableEach
      <4>2. QED
          BY <2>4, <4>1 DEF Latest
    <3>2. CASE i = j
      <4>1. heads'[i] = row
          BY <2>3, <3>2 DEF CatalogInv, TypeOK
      <4>2. DOMAIN versions'[i] = DOMAIN versions[j] \cup {v}
          BY <2>1, <3>2 DEF CatalogInv, OneTableEach
      <4>3. w \in 1 .. (v - 1) \cup {v}
          BY <2>1, <2>4, <4>2
      <4>4. QED
          BY <2>2, <4>1, <4>3, NoneAssumption
    <3>3. QED
        BY <3>1, <3>2
  <2>5. QED
      BY <2>4 DEF Latest
<1>2. CASE ~\E p \in Publishers : CommitVersion(p)
    BY <1>2, OtherEffect DEF Latest
<1>3. QED
    BY <1>1, <1>2

\* What a query finds is genuine, and the newest there is.
LEMMA NewestEntry ==
    ASSUME CatalogInv, Latest, NEW i \in Items, Published(i)
    PROVE  /\ Entry(i) \in Entries /\ Genuine({Entry(i)}) /\ Entry(i).item = i
           /\ \A v \in DOMAIN versions[i] : Entry(i).version >= v
<1>1. Entry(i) \in Entries
    BY EntryTyped DEF CatalogInv
<1>2. /\ Entry(i).item = i /\ Entry(i).version = heads[i].published
      /\ Entry(i).payload = versions[i][heads[i].published]
    BY DEF Entry
<1>3. heads[i].published \in DOMAIN versions[i]
    BY DEF Published
<1>4. \A v \in DOMAIN versions[i] : v \in Nat /\ v <= heads[i].published /\ heads[i].published \in Nat
    BY DEF Latest, CatalogInv, TypeOK, VersionRows
<1>5. QED
    BY <1>1, <1>2, <1>3, <1>4 DEF Genuine

\* Genuine rows are never newer than what a query finds.
LEMMA QueryNotOlder ==
    ASSUME CatalogInv, Latest, NEW rows, Genuine(rows), NEW i \in Items, Published(i)
    PROVE  NotOlder({Entry(i)}, rows)
BY NewestEntry DEF NotOlder, Genuine

\* One step of a reader: it goes on, is sent its rows, or begins.
LEMMA LevelRead ==
    ASSUME CatalogInv, ReaderInv, Latest, NEW r \in Readers, ReadLevel(r)
    PROVE  \E level \in reading[r].levels, rows \in SUBSET Entries :
             /\ Genuine(rows) /\ OneEach(rows) /\ NotOlder(rows, shown[r])
             /\ \A e \in rows : Level[e.item] \notin reading[r].levels \ {level}
             /\ \/ /\ reading' = [reading EXCEPT ![r] =
                         [reading[r] EXCEPT !.levels = reading[r].levels \ {level}, !.rows = rows]]
                   /\ UNCHANGED shown
                \/ /\ reading' = [reading EXCEPT ![r] = None]
                   /\ shown' = [shown EXCEPT ![r] = rows]
<1>1. PICK level \in reading[r].levels :
          LET rows == reading[r].rows \cup PublishedRows(reading[r].curriculum, level)
              left == reading[r].levels \ {level}
          IN  IF left # {}
              THEN /\ reading' = [reading EXCEPT ![r].levels = left, ![r].rows = rows]
                   /\ UNCHANGED shown
              ELSE /\ reading' = [reading EXCEPT ![r] = None]
                   /\ shown' = [shown EXCEPT ![r] = rows]
    BY DEF ReadLevel
<1> DEFINE found == PublishedRows(reading[r].curriculum, level)
           rows == reading[r].rows \cup found
<1>2. /\ reading[r] # None /\ shown[r] \subseteq Entries
      /\ reading[r].rows \subseteq Entries /\ Genuine(reading[r].rows) /\ OneEach(reading[r].rows)
      /\ NotOlder(reading[r].rows, shown[r]) /\ Genuine(shown[r])
      /\ \A e \in reading[r].rows : Level[e.item] \notin reading[r].levels
    BY DEF ReadLevel, ReaderInv, Reader
<1>3. \A e \in found : \E i \in Items : Published(i) /\ Level[i] = level /\ e = Entry(i)
    BY DEF PublishedRows
<1>4. \A e \in found : /\ e \in Entries /\ Genuine({e}) /\ Level[e.item] = level
                       /\ NotOlder({e}, shown[r]) /\ e = Entry(e.item)
    BY <1>2, <1>3, NewestEntry, QueryNotOlder
<1> HIDE DEF found
<1>5. rows \in SUBSET Entries /\ Genuine(rows)
    BY <1>2, <1>4 DEF Genuine
<1>6. NotOlder(rows, shown[r])
    BY <1>2, <1>4 DEF NotOlder
<1>7. OneEach(rows)
  <2> SUFFICES ASSUME NEW e \in rows, NEW f \in rows, e.item = f.item PROVE e.version = f.version
      BY DEF OneEach
  <2>1. CASE e \in found /\ f \in found
      BY <1>4, <2>1
  <2>2. CASE e \in reading[r].rows /\ f \in reading[r].rows
      BY <1>2, <2>2 DEF OneEach
  <2>3. \A g \in found, h \in reading[r].rows : g.item # h.item
    <3>1. \A g \in found : Level[g.item] \in reading[r].levels
        BY <1>1, <1>4
    <3>2. QED
        BY <1>2, <3>1
  <2>4. QED
      BY <2>1, <2>2, <2>3
<1>8. \A e \in rows : Level[e.item] \notin reading[r].levels \ {level}
    BY <1>2, <1>4
<1>9. [reading EXCEPT ![r].levels = reading[r].levels \ {level}, ![r].rows = rows]
      = [reading EXCEPT ![r] =
            [reading[r] EXCEPT !.levels = reading[r].levels \ {level}, !.rows = rows]]
    BY DEF CatalogInv, TypeOK
<1>10. \/ /\ reading' = [reading EXCEPT ![r].levels = reading[r].levels \ {level}, ![r].rows = rows]
          /\ UNCHANGED shown
       \/ /\ reading' = [reading EXCEPT ![r] = None]
          /\ shown' = [shown EXCEPT ![r] = rows]
    BY <1>1 DEF found
<1> HIDE DEF rows
<1>11. QED
    BY <1>5, <1>6, <1>7, <1>8, <1>9, <1>10

\* Steps of others do not change what a reader has, only what is there.
LEMMA ReadersWait ==
    ASSUME CatalogInv, ReaderInv, [Next]_vars, NEW r \in Readers,
           reading'[r] = reading[r], shown'[r] = shown[r]
    PROVE  Reader(r)'
<1>1. Genuine(shown[r])'
  <2>1. Genuine(shown[r])
      BY DEF ReaderInv, Reader
  <2>2. \A i \in Items : Kept(i)
      BY VersionsKept
  <2>3. QED
      BY <2>1, <2>2 DEF Genuine, Kept
<1>2. reading'[r] # None => Genuine(reading[r].rows)'
  <2>1. reading[r] # None => Genuine(reading[r].rows)
      BY DEF ReaderInv, Reader
  <2>2. \A i \in Items : Kept(i)
      BY VersionsKept
  <2>3. QED
      BY <2>1, <2>2 DEF Genuine, Kept
<1>3. QED
    BY <1>1, <1>2 DEF ReaderInv, Reader

\* The cases of a step of the whole system, as a reader sees them.
LEMMA ReaderSteps ==
    ASSUME CatalogInv, [Next]_vars, NEW r \in Readers
    PROVE  \/ reading'[r] = reading[r] /\ shown'[r] = shown[r]
           \/ ReadLevel(r)
           \/ \E t \in Tenants : FindCurriculum(r, t)
<1>1. ASSUME NEW q \in Readers, ReadLevel(q), q # r
      PROVE  reading'[r] = reading[r] /\ shown'[r] = shown[r]
    BY <1>1 DEF ReadLevel, CatalogInv, TypeOK
<1>2. ASSUME NEW q \in Readers, NEW t \in Tenants, FindCurriculum(q, t), q # r
      PROVE  reading'[r] = reading[r] /\ shown'[r] = shown[r]
    BY <1>2 DEF FindCurriculum, CatalogInv, TypeOK
<1>3. ASSUME UNCHANGED <<reading, shown>>
      PROVE  reading'[r] = reading[r] /\ shown'[r] = shown[r]
    BY <1>3
<1>4. ASSUME NEW p \in Publishers, Publish(p) \/ Fault(p) \/ \E i \in Items : Gate(p, i)
      PROVE  UNCHANGED <<reading, shown>>
    BY <1>4 DEF Publish, LockHead, CheckRights, NumberVersion, InsertVersion, CommitVersion,
                Fault, Gate
<1>5. ASSUME NEW a \in Authors,
             InsertHead(a) \/ \E i \in Items, d \in Payloads : InheritFromParent(a, i, d)
      PROVE  UNCHANGED <<reading, shown>>
    BY <1>5 DEF InsertHead, InheritFromParent
<1>6. ASSUME NEW i \in Items, UpdateDraft(i) PROVE UNCHANGED <<reading, shown>>
    BY <1>6 DEF UpdateDraft
<1>7. CASE UNCHANGED vars
    BY <1>3, <1>7 DEF vars
<1>8. QED
    BY <1>1, <1>2, <1>3, <1>4, <1>5, <1>6, <1>7 DEF Next

LEMMA ReaderStep ==
    ASSUME CatalogInv, ReaderInv, Latest, [Next]_vars
    PROVE  ReaderInv'
<1> USE CatalogAssumption, NoneAssumption
<1>1. ASSUME NEW r \in Readers, reading'[r] = reading[r], shown'[r] = shown[r]
      PROVE  Reader(r)'
    BY <1>1, ReadersWait
<1>2. ASSUME NEW r \in Readers, ReadLevel(r) PROVE Reader(r)'
  <2>1. PICK level \in reading[r].levels, rows \in SUBSET Entries :
             /\ Genuine(rows) /\ OneEach(rows) /\ NotOlder(rows, shown[r])
             /\ \A e \in rows : Level[e.item] \notin reading[r].levels \ {level}
             /\ \/ /\ reading' = [reading EXCEPT ![r] =
                         [reading[r] EXCEPT !.levels = reading[r].levels \ {level}, !.rows = rows]]
                   /\ UNCHANGED shown
                \/ /\ reading' = [reading EXCEPT ![r] = None]
                   /\ shown' = [shown EXCEPT ![r] = rows]
      BY <1>2, LevelRead
  <2>2. versions' = versions
      BY <1>2 DEF ReadLevel
  <2>3. /\ reading \in [Readers -> [curriculum : Items, levels : SUBSET (1 .. Depth),
                                    rows : SUBSET Entries] \cup {None}]
        /\ shown \in [Readers -> SUBSET Entries] /\ reading[r] # None
      BY <1>2 DEF ReadLevel, CatalogInv, TypeOK
  <2>4. Genuine(shown[r]) /\ OneEach(shown[r])
      BY DEF ReaderInv, Reader
  <2>5. Genuine(rows)' /\ Genuine(shown[r])'
    <3>1. CASE UNCHANGED shown
        BY <2>1, <2>2, <2>4, <3>1 DEF Genuine
    <3>2. CASE shown' = [shown EXCEPT ![r] = rows]
        BY <2>1, <2>2, <2>3, <3>2 DEF Genuine
    <3>3. QED
        BY <2>1, <3>1, <3>2
  <2>6. CASE /\ reading' = [reading EXCEPT ![r] =
                  [reading[r] EXCEPT !.levels = reading[r].levels \ {level}, !.rows = rows]]
             /\ UNCHANGED shown
    <3>1. reading'[r].rows = rows /\ reading'[r].levels = reading[r].levels \ {level}
        BY <2>3, <2>6
    <3>2. Genuine(reading[r].rows)'
        BY <2>5, <3>1 DEF Genuine
    <3>3. QED
        BY <2>1, <2>3, <2>4, <2>5, <2>6, <3>1, <3>2 DEF Reader
  <2>7. CASE reading' = [reading EXCEPT ![r] = None] /\ shown' = [shown EXCEPT ![r] = rows]
      BY <2>1, <2>3, <2>5, <2>7 DEF Reader
  <2>8. QED
      BY <2>1, <2>6, <2>7
<1>3. ASSUME NEW r \in Readers, NEW t \in Tenants, FindCurriculum(r, t) PROVE Reader(r)'
  <2>1. PICK c \in Items :
            /\ Level[c] = 1 /\ Published(c)
            /\ reading' = [reading EXCEPT ![r] =
                   [curriculum |-> c, levels |-> 2 .. Depth, rows |-> {Entry(c)}]]
      BY <1>3 DEF FindCurriculum
  <2>2. versions' = versions /\ shown' = shown
      BY <1>3 DEF FindCurriculum
  <2>3. reading'[r].rows = {Entry(c)} /\ reading'[r].levels = 2 .. Depth
      BY <2>1 DEF CatalogInv, TypeOK
  <2>4. shown[r] \subseteq Entries /\ Genuine(shown[r]) /\ OneEach(shown[r])
      BY DEF ReaderInv, Reader
  <2>5. /\ Entry(c) \in Entries /\ Genuine({Entry(c)}) /\ Entry(c).item = c
        /\ NotOlder({Entry(c)}, shown[r])
      BY <2>1, <2>4, NewestEntry, QueryNotOlder
  <2>6. Genuine(shown[r])' /\ Genuine(reading[r].rows)'
      BY <2>2, <2>3, <2>4, <2>5 DEF Genuine
  <2>7. OneEach(reading'[r].rows)
      BY <2>3 DEF OneEach
  <2>8. \A e \in reading'[r].rows : Level[e.item] \notin reading'[r].levels
      BY <2>1, <2>3, <2>5
  <2>9. QED
      BY <2>2, <2>3, <2>4, <2>5, <2>6, <2>7, <2>8 DEF Reader
<1>4. \A r \in Readers : Reader(r)'
    BY <1>1, <1>2, <1>3, ReaderSteps
<1>5. QED
    BY <1>4 DEF ReaderInv

LEMMA ReaderStarts == Init => ReaderInv /\ Latest
<1> SUFFICES ASSUME Init PROVE ReaderInv /\ Latest
    OBVIOUS
<1>1. \A r \in Readers : shown[r] = {} /\ reading[r] = None
    BY DEF Init
<1>2. ReaderInv
    BY <1>1 DEF ReaderInv, Reader, Genuine, OneEach
<1>3. \A i \in Items : DOMAIN versions[i] = 1 .. 0
    BY DEF Init
<1>4. Latest
    BY <1>3 DEF Latest
<1>5. QED
    BY <1>2, <1>4

\* What is sent next is not older, and a version has one payload.
Advances == \A r \in Readers : \A old \in shown[r], new \in shown'[r] : new.item = old.item =>
    /\ new.version >= old.version
    /\ new.version = old.version => new.payload = old.payload

LEMMA AdvancesStep ==
    ASSUME CatalogInv, ReaderInv, Latest, [Next]_vars
    PROVE  Advances
<1>1. \A r \in Readers : Genuine(shown[r]) /\ OneEach(shown[r]) /\ shown[r] \subseteq Entries
    BY DEF ReaderInv, Reader
<1>2. ASSUME NEW r \in Readers, NEW old \in shown[r], NEW new \in shown'[r], new.item = old.item
      PROVE  new.version >= old.version /\ (new.version = old.version => new.payload = old.payload)
  <2>1. CASE shown'[r] = shown[r]
    <3>1. new.version = old.version /\ new.version \in Nat
        BY <1>1, <1>2, <2>1 DEF OneEach, Entries
    <3>2. new.payload = old.payload
        BY <1>1, <1>2, <2>1, <3>1 DEF Genuine
    <3>3. QED
        BY <3>1, <3>2
  <2>2. CASE ReadLevel(r)
    <3>1. PICK level \in reading[r].levels, rows \in SUBSET Entries :
             /\ Genuine(rows) /\ OneEach(rows) /\ NotOlder(rows, shown[r])
             /\ \A e \in rows : Level[e.item] \notin reading[r].levels \ {level}
             /\ \/ /\ reading' = [reading EXCEPT ![r] =
                         [reading[r] EXCEPT !.levels = reading[r].levels \ {level}, !.rows = rows]]
                   /\ UNCHANGED shown
                \/ /\ reading' = [reading EXCEPT ![r] = None]
                   /\ shown' = [shown EXCEPT ![r] = rows]
        BY <2>2, LevelRead
    <3>2. CASE UNCHANGED shown
        BY <2>1, <3>2
    <3>3. CASE shown' = [shown EXCEPT ![r] = rows]
      <4>1. new \in rows
          BY <1>2, <3>3 DEF CatalogInv, TypeOK
      <4>2. new.version >= old.version
          BY <1>2, <3>1, <4>1 DEF NotOlder
      <4>3. new.version = old.version => new.payload = old.payload
          BY <1>1, <1>2, <3>1, <4>1 DEF Genuine
      <4>4. QED
          BY <4>2, <4>3
    <3>4. QED
        BY <3>1, <3>2, <3>3
  <2>3. CASE \E t \in Tenants : FindCurriculum(r, t)
      BY <2>1, <2>3 DEF FindCurriculum
  <2>4. QED
      BY <2>1, <2>2, <2>3, ReaderSteps
<1>3. QED
    BY <1>2 DEF Advances

\* From one catalogue to the next no item falls back to an older version and no
\* version changes its payload, however many statements a catalogue is read in.
THEOREM CatalogueAdvances == Spec => CatalogAdvances
<1>1. CatalogInv /\ ReaderInv /\ Latest /\ [Next]_vars => ReaderInv' /\ Latest'
    BY ReaderStep, LatestStep
<1>2. CatalogInv /\ ReaderInv /\ Latest /\ [Next]_vars => Advances
    BY AdvancesStep
<1>3. Spec => [][Advances]_vars
    BY ReaderStarts, CatalogInvariant, <1>1, <1>2, PTL DEF Spec
<1>4. QED
    BY <1>3 DEF Advances, CatalogAdvances

-----------------------------------------------------------------------------
(* The catalogue implements PublishedLog.                                    *)

\* Version tables are sequences.
Sequenced == versions \in [Items -> Seq(Payloads)]

\* A table to which the next number is added is the sequence with one more line.
LEMMA NextLine ==
    ASSUME NEW s \in Seq(Payloads), NEW d \in Payloads, NEW v \in Nat \ {0},
           DOMAIN s = 1 .. (v - 1)
    PROVE  /\ [w \in DOMAIN s \cup {v} |-> IF w = v THEN d ELSE s[w]] = Append(s, d)
           /\ Append(s, d) \in Seq(Payloads)
<1> DEFINE t == [w \in DOMAIN s \cup {v} |-> IF w = v THEN d ELSE s[w]]
<1>1. Len(s) \in Nat /\ DOMAIN s = 1 .. Len(s) /\ s \in [1 .. Len(s) -> Payloads]
    BY LenProperties
<1>2. Len(s) = v - 1
  <2>1. \A m, n \in Nat : 1 .. m = 1 .. n => m = n
    <3>1. ASSUME NEW m \in Nat, NEW n \in Nat, 1 .. m = 1 .. n, m < n PROVE FALSE
      <4>1. n \in 1 .. n /\ n \notin 1 .. m
          BY <3>1
      <4>2. QED
          BY <3>1, <4>1
    <3>2. ASSUME NEW m \in Nat, NEW n \in Nat, 1 .. m = 1 .. n PROVE m = n
      <4>1. ~(m < n)
          BY <3>1, <3>2
      <4>2. ~(n < m)
          BY <3>1, <3>2
      <4>3. QED
          BY <4>1, <4>2
    <3>3. QED
        BY <3>2
  <2>2. QED
      BY <1>1, <2>1
<1>3. DOMAIN s \cup {v} = 1 .. v
    OBVIOUS
<1>4. t \in [1 .. v -> Payloads]
    BY <1>1, <1>2, <1>3
<1>5. t \in Seq(Payloads) /\ Len(t) = v
    BY <1>4
<1>6. /\ Append(s, d) \in Seq(Payloads) /\ Len(Append(s, d)) = v
      /\ \A w \in 1 .. Len(s) : Append(s, d)[w] = s[w]
      /\ Append(s, d)[v] = d
    BY <1>1, <1>2, AppendProperties
<1>7. \A w \in 1 .. v : t[w] = Append(s, d)[w]
  <2>1. t[v] = d
      BY <1>3
  <2>2. \A w \in 1 .. (v - 1) : t[w] = s[w]
      OBVIOUS
  <2>3. QED
      BY <1>2, <1>6, <2>1, <2>2
<1> HIDE DEF t
<1>8. t = Append(s, d)
    BY <1>5, <1>6, <1>7, SeqEqual
<1>9. QED
    BY <1>6, <1>8 DEF t

\* The log's own view of a catalogue that was sent, and of the lines there are.
SentTo(r) == {LineOf(e) : e \in shown[r]}

LEMMA LinesOfGenuine ==
    ASSUME Sequenced, NEW rows \in SUBSET Entries, Genuine(rows), OneEach(rows)
    PROVE  /\ {LineOf(e) : e \in rows} \in SUBSET Log!Lines
           /\ \A e, f \in {LineOf(g) : g \in rows} : e.item = f.item => e = f
<1>1. ASSUME NEW e \in rows PROVE LineOf(e) \in Log!Lines
  <2>1. e.item \in Items /\ e.version \in DOMAIN versions[e.item]
        /\ versions[e.item][e.version] = e.payload
      BY DEF Genuine
  <2>2. DOMAIN versions[e.item] = 1 .. Len(versions[e.item])
      BY <2>1, LenProperties DEF Sequenced
  <2>3. LineOf(e) = Log!Line(e.item, e.version)
      BY <2>1 DEF LineOf, Log!Line
  <2>4. QED
      BY <2>1, <2>2, <2>3 DEF Log!Lines
<1>2. ASSUME NEW e \in rows, NEW f \in rows, e.item = f.item PROVE LineOf(e) = LineOf(f)
  <2>1. e.version = f.version
      BY <1>2 DEF OneEach
  <2>2. e.payload = f.payload
      BY <1>2, <2>1 DEF Genuine
  <2>3. QED
      BY <1>2, <2>1, <2>2 DEF LineOf
<1>3. \A e \in rows : LineOf(e).item = e.item
    BY DEF LineOf
<1>4. QED
    BY <1>1, <1>2, <1>3

DraftMap == [i \in Items |-> DraftOf(i)]

SentMap == [r \in Readers |-> SentTo(r)]

\* A step of the log, in the terms of the catalogue.
LogStep ==
    \/ UNCHANGED <<DraftMap, versions, SentMap>>
    \/ \E i \in Items, d \in Payloads :
          DraftMap' = [DraftMap EXCEPT ![i] = d] /\ UNCHANGED <<versions, SentMap>>
    \/ \E i \in Items :
          /\ DraftMap[i] \in Payloads /\ (IsMaterial(i) => DraftMap[i] \in Approved)
          /\ versions' = [versions EXCEPT ![i] = Append(versions[i], DraftMap[i])]
          /\ UNCHANGED <<DraftMap, SentMap>>
    \/ \E r \in Readers, S \in SUBSET Log!Lines :
          /\ SentMap' = [SentMap EXCEPT ![r] = S]
          /\ \A e, f \in S : e.item = f.item => e = f
          /\ \A e \in S, f \in SentMap[r] : e.item = f.item => e.version >= f.version
          /\ UNCHANGED <<DraftMap, versions>>

\* A draft is written by an insert and by an edit.
LEMMA DraftWritten ==
    ASSUME CatalogInv,
           NEW i \in Items, NEW row \in Heads, heads' = [heads EXCEPT ![i] = row]
    PROVE  DraftMap' = [DraftMap EXCEPT ![i] = row.draft]
<1>1. heads \in [Items -> Heads \cup {None}] /\ row # None
    BY NoneAssumption DEF CatalogInv, TypeOK
<1>2. \A j \in Items : DraftOf(j)' = IF j = i THEN row.draft ELSE DraftOf(j)
    BY <1>1 DEF DraftOf, Exists
<1>3. QED
    BY <1>2 DEF DraftMap

\* A commit appends to the log and leaves the drafts alone.
LEMMA CommitIsPublish ==
    ASSUME CatalogInv, Sequenced, NEW p \in Publishers, CommitVersion(p)
    PROVE  LogStep /\ Sequenced'
<1>1. PICK i \in Items, v \in Nat \ {0}, d \in Payloads :
          /\ DOMAIN versions[i] = 1 .. (v - 1)
          /\ versions' = [versions EXCEPT ![i] = [w \in DOMAIN versions[i] \cup {v} |->
                             IF w = v THEN d ELSE versions[i][w]]]
          /\ heads[i] \in Heads /\ heads[i].draft = d /\ RightsApproved(i, heads[i])
          /\ heads' = [heads EXCEPT ![i] = [heads[i] EXCEPT !.published = v, !.current = v]]
    BY CommitEffect
<1>2. versions[i] \in Seq(Payloads)
    BY DEF Sequenced
<1>3. /\ versions' = [versions EXCEPT ![i] = Append(versions[i], d)]
      /\ Append(versions[i], d) \in Seq(Payloads)
    BY <1>1, <1>2, NextLine
<1>4. Sequenced'
    BY <1>3 DEF Sequenced
<1> DEFINE row == [heads[i] EXCEPT !.published = v, !.current = v]
<1>5. row \in Heads /\ row.draft = d
  <2>1. row \in Heads
      BY <1>1, HeadChanged
  <2>2. row.draft = heads[i].draft
      BY <1>1 DEF Heads, CurriculumRows, ChainRows, Rows
  <2>3. QED
      BY <1>1, <2>1, <2>2
<1>6. heads' = [heads EXCEPT ![i] = row]
    BY <1>1
<1> HIDE DEF row
<1>7. DraftMap' = [DraftMap EXCEPT ![i] = d]
    BY <1>5, <1>6, DraftWritten
<1>8. DraftMap[i] = d
    BY <1>1, NoneAssumption DEF DraftMap, DraftOf, Exists
<1>9. UNCHANGED DraftMap
    BY <1>7, <1>8 DEF DraftMap
<1>10. UNCHANGED SentMap
    BY DEF CommitVersion, SentMap, SentTo
<1>11. IsMaterial(i) => d \in Approved
    BY <1>1 DEF RightsApproved
<1>12. QED
    BY <1>3, <1>4, <1>8, <1>9, <1>10, <1>11 DEF LogStep

\* A reader that has read its last level is sent lines of the logs.
LEMMA LevelReadIsSend ==
    ASSUME CatalogInv, ReaderInv, Latest, Sequenced, NEW r \in Readers, ReadLevel(r)
    PROVE  LogStep
<1>1. PICK level \in reading[r].levels, rows \in SUBSET Entries :
         /\ Genuine(rows) /\ OneEach(rows) /\ NotOlder(rows, shown[r])
         /\ \A e \in rows : Level[e.item] \notin reading[r].levels \ {level}
         /\ \/ /\ reading' = [reading EXCEPT ![r] =
                     [reading[r] EXCEPT !.levels = reading[r].levels \ {level}, !.rows = rows]]
               /\ UNCHANGED shown
            \/ /\ reading' = [reading EXCEPT ![r] = None]
               /\ shown' = [shown EXCEPT ![r] = rows]
    BY LevelRead
<1>2. UNCHANGED <<DraftMap, versions>>
    BY DEF ReadLevel, DraftMap, DraftOf, Exists
<1>3. CASE UNCHANGED shown
  <2>1. UNCHANGED SentMap
      BY <1>3 DEF SentMap, SentTo
  <2>2. QED
      BY <1>2, <2>1 DEF LogStep
<1>4. CASE shown' = [shown EXCEPT ![r] = rows]
  <2> DEFINE S == {LineOf(e) : e \in rows}
  <2>1. S \in SUBSET Log!Lines /\ \A e, f \in S : e.item = f.item => e = f
      BY <1>1, LinesOfGenuine
  <2>2. \A e \in S, f \in SentMap[r] : e.item = f.item => e.version >= f.version
      BY <1>1 DEF SentMap, SentTo, LineOf, NotOlder
  <2>3. \A q \in Readers : SentTo(q)' = IF q = r THEN S ELSE SentTo(q)
      BY <1>4 DEF SentTo, CatalogInv, TypeOK
  <2>4. SentMap' = [SentMap EXCEPT ![r] = S]
      BY <2>3 DEF SentMap
  <2> HIDE DEF S
  <2>5. QED
      BY <1>2, <2>1, <2>2, <2>4 DEF LogStep
<1>5. QED
    BY <1>1, <1>3, <1>4

\* Every step is a step of the log or leaves the log alone.
LEMMA CatalogStepIsLogStep ==
    ASSUME CatalogInv, ReaderInv, Latest, Sequenced, [Next]_vars
    PROVE  LogStep /\ Sequenced'
<1>1. ASSUME UNCHANGED <<heads, versions, shown>> PROVE LogStep /\ Sequenced'
  <2>1. UNCHANGED <<DraftMap, versions, SentMap>>
      BY <1>1 DEF DraftMap, DraftOf, Exists, SentMap, SentTo
  <2>2. QED
      BY <2>1 DEF LogStep, Sequenced
<1>2. ASSUME NEW i \in Items, NEW row \in Heads, heads' = [heads EXCEPT ![i] = row],
             UNCHANGED <<versions, shown>>
      PROVE  LogStep /\ Sequenced'
  <2>1. DraftMap' = [DraftMap EXCEPT ![i] = row.draft] /\ row.draft \in Payloads
      BY <1>2, DraftWritten, HeadFields
  <2>2. UNCHANGED <<versions, SentMap>>
      BY <1>2 DEF SentMap, SentTo
  <2>3. QED
      BY <2>1, <2>2 DEF LogStep, Sequenced
<1>3. ASSUME NEW a \in Authors, InsertHead(a) PROVE LogStep /\ Sequenced'
  <2>1. creating[a].item \in Items /\ creating[a].head \in Heads
      BY <1>3 DEF InsertHead, CatalogInv, TypeOK
  <2>2. QED
      BY <1>2, <1>3, <2>1 DEF InsertHead
<1>4. ASSUME NEW i \in Items, UpdateDraft(i) PROVE LogStep /\ Sequenced'
  <2>1. PICK d \in Payloads :
            heads' = [heads EXCEPT ![i] = [heads[i] EXCEPT !.draft = d, !.current = heads[i].current + 1]]
      BY <1>4 DEF UpdateDraft, CatalogInv, TypeOK
  <2>2. heads[i] \in Heads
      BY <1>4 DEF UpdateDraft, Editable, Exists, CatalogInv, TypeOK
  <2>3. heads[i].current + 1 \in Nat \ {0}
      BY <2>2, HeadFields
  <2>4. [heads[i] EXCEPT !.draft = d, !.current = heads[i].current + 1] \in Heads
      BY <2>2, <2>3, HeadChanged
  <2>5. QED
      BY <1>2, <1>4, <2>1, <2>4 DEF UpdateDraft
<1>5. ASSUME NEW p \in Publishers, Publish(p) \/ Fault(p) \/ \E i \in Items : Gate(p, i)
      PROVE  LogStep /\ Sequenced'
  <2>1. CASE CommitVersion(p)
      BY <2>1, CommitIsPublish
  <2>2. CASE ~CommitVersion(p)
      BY <1>1, <1>5, <2>2 DEF Publish, LockHead, CheckRights, NumberVersion, InsertVersion, Fault, Gate
  <2>3. QED
      BY <2>1, <2>2
<1>6. ASSUME NEW r \in Readers, ReadLevel(r) PROVE LogStep /\ Sequenced'
    BY <1>6, LevelReadIsSend DEF ReadLevel, Sequenced
<1>7. ASSUME NEW r \in Readers, NEW t \in Tenants, FindCurriculum(r, t) PROVE LogStep /\ Sequenced'
    BY <1>1, <1>7 DEF FindCurriculum
<1>8. ASSUME NEW a \in Authors, NEW i \in Items, NEW d \in Payloads, InheritFromParent(a, i, d)
      PROVE  LogStep /\ Sequenced'
    BY <1>1, <1>8 DEF InheritFromParent
<1>9. CASE UNCHANGED vars
    BY <1>1, <1>9 DEF vars
<1>10. QED
    BY <1>3, <1>4, <1>5, <1>6, <1>7, <1>8, <1>9 DEF Next

LEMMA LogStepIsStep == LogStep => [Log!LogNext]_(Log!logVars)
<1> SUFFICES ASSUME LogStep PROVE [Log!LogNext]_(Log!logVars)
    OBVIOUS
<1>1. CASE UNCHANGED <<DraftMap, versions, SentMap>>
    BY <1>1 DEF Log!logVars, DraftMap, SentMap, SentTo
<1>2. ASSUME NEW i \in Items, NEW d \in Payloads,
             DraftMap' = [DraftMap EXCEPT ![i] = d], UNCHANGED <<versions, SentMap>>
      PROVE  Log!Write(i)
    BY <1>2 DEF Log!Write, DraftMap, SentMap, SentTo
<1>3. ASSUME NEW i \in Items,
             DraftMap[i] \in Payloads, IsMaterial(i) => DraftMap[i] \in Approved,
             versions' = [versions EXCEPT ![i] = Append(versions[i], DraftMap[i])],
             UNCHANGED <<DraftMap, SentMap>>
      PROVE  Log!Publish(i)
    BY <1>3 DEF Log!Publish, DraftMap, SentMap, SentTo
<1>4. ASSUME NEW r \in Readers, NEW S \in SUBSET Log!Lines,
             SentMap' = [SentMap EXCEPT ![r] = S],
             \A e, f \in S : e.item = f.item => e = f,
             \A e \in S, f \in SentMap[r] : e.item = f.item => e.version >= f.version,
             UNCHANGED <<DraftMap, versions>>
      PROVE  Log!Send(r)
    BY <1>4 DEF Log!Send, DraftMap, SentMap, SentTo
<1>5. QED
    BY <1>1, <1>2, <1>3, <1>4 DEF LogStep, Log!LogNext

\* The catalogue implements the log, for every chain of items and any number
\* of publishers, authors, editors and readers: a publication of several
\* statements counts as one append of the draft, or as nothing.
THEOREM CatalogueImplementsLog == Spec => ImplementsLog
<1>1. Init => Log!LogInit /\ Sequenced
  <2> SUFFICES ASSUME Init PROVE Log!LogInit /\ Sequenced
      OBVIOUS
  <2>1. \A i \in Items : DraftOf(i) = None
      BY DEF Init, DraftOf, Exists
  <2>2. \A r \in Readers : SentTo(r) = {}
      BY DEF Init, SentTo
  <2>3. versions = [i \in Items |-> << >>] /\ << >> \in Seq(Payloads)
      BY EmptySeq DEF Init
  <2>4. QED
      BY <2>1, <2>2, <2>3 DEF Log!LogInit, SentTo, Sequenced
<1>2. CatalogInv /\ ReaderInv /\ Latest /\ Sequenced /\ [Next]_vars =>
          ReaderInv' /\ Latest' /\ Sequenced' /\ [Log!LogNext]_(Log!logVars)
    BY ReaderStep, LatestStep, CatalogStepIsLogStep, LogStepIsStep
<1>3. QED
    BY ReaderStarts, CatalogInvariant, <1>1, <1>2, PTL DEF Spec, ImplementsLog, Log!LogSpec
=============================================================================
