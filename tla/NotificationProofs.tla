------------------------- MODULE NotificationProofs -------------------------
(***************************************************************************)
(* Theorems about NotificationDispatch, for any number of dispatches,      *)
(* messages and events, any answers of the adapter and any number of       *)
(* faults: types, one audit row per message, what a caller that is told    *)
(* "duplicate" can rely on, and that waits never form a circle.            *)
(***************************************************************************)
EXTENDS NotificationDispatch, TLAPS

\* Between its insert of the outbox row and its end a transaction holds the
\* entry of its event; once the row is marked, that of its message too.
Holds(step, in) ==
    (IF step \in {"inserted", "sent", "audited", "marked"} THEN {EventKey(in.event)} ELSE {})
    \cup (IF step = "marked" THEN {SentKey(in.message)} ELSE {})

HeldByStep == \A d \in Dispatches : held[d] = Holds(pc[d], input[d])

\* The waits of the unique indexes: no entry is held twice, and none is held
\* that is committed.
Exclusive ==
    /\ \A d, e \in Dispatches : d # e => held[d] \cap held[e] = {}
    /\ \A d \in Dispatches : held[d] \cap Committed = {}

\* What a dispatch knows, by the statement it is at.
KnownByStep ==
    \A d \in Dispatches :
      /\ pc[d] # "idle" => input[d] \in Inputs
      /\ pc[d] # "done" => reply[d] = None
      /\ pc[d] \in {"idle", "found", "checked", "inserted"} => answer[d] = None
      /\ pc[d] \in {"sent", "audited", "marked"} =>
            answer[d] \in AdapterResults /\ handed[input[d].message] > 0

\* Rows come from dispatches that have ended, after the adapter had the message.
RowsOfEnded == \A r \in outbox : pc[r.by] = "done" /\ handed[r.message] > 0

DispatchInv ==
    /\ TypeOK /\ HeldByStep /\ Exclusive /\ KnownByStep /\ RowsOfEnded
    /\ AuditedOnce /\ DuplicateIsOnRecord

\* The rest of the state while dispatch d takes a step: the adapter is handed
\* messages, never takes one back, and other dispatches are where they were.
OnlyMoves(d) ==
    /\ pc' \in [Dispatches -> Steps]
    /\ answer' \in [Dispatches -> AdapterResults \cup {None}]
    /\ input' \in [Dispatches -> Inputs \cup {None}]
    /\ reply' \in [Dispatches -> {"dispatched", "duplicate", "rejected", "error", None}]
    /\ held' \in [Dispatches -> SUBSET IndexKeys]
    /\ handed' \in [Messages -> Nat]
    /\ \A m \in Messages : handed[m] <= handed'[m]
    /\ faults' \in 0 .. MaxFaults
    /\ \A e \in Dispatches \ {d} :
         /\ pc'[e] = pc[e] /\ input'[e] = input[e] /\ answer'[e] = answer[e]
         /\ reply'[e] = reply[e] /\ held'[e] = held[e]

\* What d knows after its step.
Knows(d) ==
    /\ pc[d] # "idle" => input[d] \in Inputs
    /\ pc[d] # "done" => reply[d] = None
    /\ pc[d] \in {"idle", "found", "checked", "inserted"} => answer[d] = None
    /\ pc[d] \in {"sent", "audited", "marked"} =>
          answer[d] \in AdapterResults /\ handed[input[d].message] > 0

\* A step of d that commits nothing: d takes at most one entry, a free one that
\* is not committed.
LEMMA StepWithoutCommit ==
    ASSUME DispatchInv, NEW d \in Dispatches, OnlyMoves(d), pc[d] # "done",
           UNCHANGED <<outbox, audit>>, Knows(d)',
           held'[d] = Holds(pc'[d], input'[d]),
           \A k \in held'[d] : k \notin Committed /\ (k \in held[d] \/ Free(d, k)),
           reply'[d] = "duplicate" /\ answer'[d] = None =>
               \E r \in outbox : r.message = input'[d].message
    PROVE  DispatchInv'
<1> USE DEF DispatchInv
<1>1. TypeOK'
    BY DEF TypeOK, OnlyMoves
<1>2. HeldByStep'
    BY DEF HeldByStep, OnlyMoves
<1>3. Exclusive'
  <2>1. Committed' = Committed
      BY DEF Committed
  <2>2. ASSUME NEW e \in Dispatches \ {d} PROVE held'[d] \cap held'[e] = {}
      BY <2>2 DEF OnlyMoves, Exclusive, Free
  <2>3. ASSUME NEW e \in Dispatches \ {d}, NEW f \in Dispatches \ {d}, e # f
        PROVE held'[e] \cap held'[f] = {}
      BY <2>3 DEF OnlyMoves, Exclusive
  <2>4. \A e, f \in Dispatches : e # f => held'[e] \cap held'[f] = {}
    <3> SUFFICES ASSUME NEW e \in Dispatches, NEW f \in Dispatches, e # f
                 PROVE held'[e] \cap held'[f] = {}
        OBVIOUS
    <3>1. CASE e = d
        BY <2>2, <3>1
    <3>2. CASE f = d
        BY <2>2, <3>2
    <3>3. CASE e # d /\ f # d
        BY <2>3, <3>3
    <3>4. QED
        BY <3>1, <3>2, <3>3
  <2>5. \A e \in Dispatches : held'[e] \cap Committed = {}
    <3> SUFFICES ASSUME NEW e \in Dispatches PROVE held'[e] \cap Committed = {}
        OBVIOUS
    <3>1. CASE e = d
        BY <3>1
    <3>2. CASE e # d
        BY <3>2 DEF OnlyMoves, Exclusive
    <3>3. QED
        BY <3>1, <3>2
  <2>6. QED
      BY <2>1, <2>4, <2>5 DEF Exclusive
<1>4. KnownByStep'
  <2> SUFFICES ASSUME NEW e \in Dispatches PROVE Knows(e)'
      BY DEF KnownByStep, Knows
  <2>1. CASE e = d
      BY <2>1
  <2>2. CASE e # d
    <3>1. Knows(e)
        BY DEF KnownByStep, Knows
    <3>2. input[e] \in Inputs => input[e].message \in Messages
        BY DEF Inputs
    <3>3. handed \in [Messages -> Nat] /\ pc[e] \in Steps
        BY DEF TypeOK
    <3>4. QED
        BY <2>2, <3>1, <3>2, <3>3 DEF Knows, OnlyMoves
  <2>3. QED
      BY <2>1, <2>2
<1>5. RowsOfEnded'
  <2> SUFFICES ASSUME NEW r \in outbox PROVE pc'[r.by] = "done" /\ handed'[r.message] > 0
      BY DEF RowsOfEnded
  <2>1. r.by \in Dispatches /\ r.message \in Messages
      BY DEF TypeOK
  <2>2. pc[r.by] = "done" /\ handed[r.message] > 0
      BY DEF RowsOfEnded
  <2>3. handed[r.message] \in Nat
      BY <2>1 DEF TypeOK
  <2>4. QED
      BY <2>1, <2>2, <2>3 DEF OnlyMoves
<1>6. AuditedOnce'
    BY DEF AuditedOnce
<1>7. DuplicateIsOnRecord'
  <2> SUFFICES ASSUME NEW e \in Dispatches, reply'[e] = "duplicate", answer'[e] = None
               PROVE  /\ \E r \in outbox : r.message = input'[e].message
                      /\ handed'[input'[e].message] > 0
      BY DEF DuplicateIsOnRecord
  <2>1. \E r \in outbox : r.message = input'[e].message
    <3>1. CASE e = d
        BY <3>1
    <3>2. CASE e # d
        BY <3>2 DEF OnlyMoves, DuplicateIsOnRecord
    <3>3. QED
        BY <3>1, <3>2
  <2>2. PICK r \in outbox : r.message = input'[e].message
      BY <2>1
  <2>3. handed'[r.message] > 0
      BY <1>5 DEF RowsOfEnded
  <2>4. QED
      BY <2>1, <2>2, <2>3
<1>8. QED
    BY <1>1, <1>2, <1>3, <1>4, <1>5, <1>6, <1>7

\* What every statement of d starts from.
LEMMA StatementTypes ==
    ASSUME DispatchInv, NEW d \in Dispatches
    PROVE  /\ pc[d] \in Steps /\ Knows(d) /\ held[d] = Holds(pc[d], input[d])
           /\ answer[d] \in AdapterResults \cup {None}
           /\ pc[d] # "idle" => input[d].message \in Messages /\ input[d].event \in Events
           /\ held[d] \cap Committed = {}
BY DEF DispatchInv, TypeOK, KnownByStep, Knows, HeldByStep, Exclusive, Inputs

\* Nothing of the state changes but where d is, what it holds and what it says.
LEMMA MovesOnly ==
    ASSUME DispatchInv, NEW d \in Dispatches, NEW step \in Steps, NEW keys \in SUBSET IndexKeys,
           NEW r \in {"dispatched", "duplicate", "rejected", "error", None},
           pc' = [pc EXCEPT ![d] = step], held' = [held EXCEPT ![d] = keys],
           reply' = [reply EXCEPT ![d] = r],
           UNCHANGED <<input, answer, handed>>, faults' \in 0 .. MaxFaults
    PROVE  /\ OnlyMoves(d)
           /\ pc'[d] = step /\ held'[d] = keys /\ reply'[d] = r
BY DEF DispatchInv, TypeOK, OnlyMoves

\* A dispatch that ends without a commit: rejected, duplicate or an error.
LEMMA EndsWithoutCommit ==
    ASSUME DispatchInv, NEW d \in Dispatches, NEW r \in {"duplicate", "rejected", "error"},
           pc[d] # "idle", pc[d] # "done", End(d, r),
           UNCHANGED <<input, answer, outbox, audit, handed>>, faults' \in 0 .. MaxFaults,
           r = "duplicate" => \E row \in outbox : row.message = input[d].message
    PROVE  DispatchInv'
<1>1. "done" \in Steps /\ {} \in SUBSET IndexKeys
    BY DEF Steps
<1>2. OnlyMoves(d) /\ pc'[d] = "done" /\ held'[d] = {} /\ reply'[d] = r
    BY <1>1, MovesOnly DEF End
<1>3. Knows(d)'
    BY <1>2, StatementTypes DEF Knows
<1>4. held'[d] = Holds(pc'[d], input'[d])
    BY <1>2 DEF Holds
<1>5. QED
    BY <1>2, <1>3, <1>4, StepWithoutCommit

\* A dispatch that goes on to a statement with the entries it has.
LEMMA GoesOn ==
    ASSUME DispatchInv, NEW d \in Dispatches, NEW step \in Steps \ {"done"}, pc[d] # "done",
           pc[d] # "idle", Goto(d, step), NEW keys \in SUBSET IndexKeys,
           held' = [held EXCEPT ![d] = keys], keys = Holds(step, input[d]),
           \A k \in keys : k \notin Committed /\ (k \in held[d] \/ Free(d, k)),
           UNCHANGED <<input, answer, outbox, audit, handed, faults>>,
           step \in {"idle", "found", "checked", "inserted"} =>
               pc[d] \in {"found", "checked", "inserted"},
           step \in {"sent", "audited", "marked"} => pc[d] \in {"sent", "audited", "marked"}
    PROVE  DispatchInv'
<1>1. reply \in [Dispatches -> {"dispatched", "duplicate", "rejected", "error", None}]
      /\ faults \in 0 .. MaxFaults
    BY DEF DispatchInv, TypeOK
<1>2. reply' = [reply EXCEPT ![d] = None] /\ pc' = [pc EXCEPT ![d] = step] /\ reply[d] = None
    BY <1>1, StatementTypes DEF Goto, Knows
<1>3. OnlyMoves(d) /\ pc'[d] = step /\ held'[d] = keys /\ reply'[d] = None
    BY <1>1, <1>2, MovesOnly
<1>4. Knows(d)'
    BY <1>3, StatementTypes DEF Knows, Steps
<1>5. reply'[d] # "duplicate"
    BY <1>3, NoneAssumption
<1>6. QED
    BY <1>3, <1>4, <1>5, StepWithoutCommit

LEMMA FindTemplateKeeps ==
    ASSUME DispatchInv, NEW d \in Dispatches, NEW m \in Messages, NEW e \in Events,
           FindTemplate(d, m, e)
    PROVE  DispatchInv'
<1> DEFINE step == IF m \in Templated THEN "found" ELSE "done"
<1> DEFINE r == IF m \in Templated THEN None ELSE "rejected"
<1>1. pc[d] = "idle" /\ Knows(d) /\ held[d] = {}
    BY StatementTypes DEF FindTemplate, Holds
<1>2. TypeOK
    BY DEF DispatchInv
<1>3. pc' = [pc EXCEPT ![d] = step] /\ step \in {"found", "done"}
    BY DEF FindTemplate, Goto, End
<1>4. held' = held
  <2>1. held' = held \/ held' = [held EXCEPT ![d] = {}]
      BY DEF FindTemplate, End
  <2>2. held \in [Dispatches -> SUBSET IndexKeys]
      BY <1>2 DEF TypeOK
  <2>3. QED
      BY <1>1, <2>1, <2>2
<1>5. reply' = [reply EXCEPT ![d] = r]
  <2>1. reply \in [Dispatches -> {"dispatched", "duplicate", "rejected", "error", None}]
      BY <1>2 DEF TypeOK
  <2>2. reply[d] = None
      BY <1>1 DEF Knows
  <2>3. QED
      BY <2>1, <2>2 DEF FindTemplate, Goto, End
<1>6. [message |-> m, event |-> e] \in Inputs
    BY DEF Inputs
<1>7. UNCHANGED <<answer, outbox, audit, handed, faults>>
      /\ input' = [input EXCEPT ![d] = [message |-> m, event |-> e]]
    BY DEF FindTemplate
<1>8. OnlyMoves(d) /\ pc'[d] = step /\ reply'[d] = r /\ input'[d] \in Inputs
    BY <1>2, <1>3, <1>4, <1>5, <1>6, <1>7 DEF TypeOK, OnlyMoves, Steps
<1>9. Knows(d)'
    BY <1>1, <1>3, <1>7, <1>8 DEF Knows
<1>10. held'[d] = Holds(pc'[d], input'[d])
    BY <1>1, <1>3, <1>4, <1>8 DEF Holds
<1>11. reply'[d] # "duplicate"
    BY <1>8, NoneAssumption
<1>12. QED
    BY <1>1, <1>4, <1>7, <1>8, <1>9, <1>10, <1>11, StepWithoutCommit

LEMMA CheckDuplicateKeeps ==
    ASSUME DispatchInv, NEW d \in Dispatches, CheckDuplicate(d)
    PROVE  DispatchInv'
<1>1. pc[d] = "found" /\ faults \in 0 .. MaxFaults
    BY DEF CheckDuplicate, DispatchInv, TypeOK
<1>2. CASE HasSentDedupe(d)
    BY <1>1, <1>2, EndsWithoutCommit DEF CheckDuplicate, HasSentDedupe
<1>3. CASE ~HasSentDedupe(d)
  <2>1. Goto(d, "checked") /\ held' = held
        /\ UNCHANGED <<input, answer, outbox, audit, handed, faults>>
      BY <1>3 DEF CheckDuplicate
  <2>2. held[d] = {} /\ Holds("checked", input[d]) = {}
      BY <1>1, StatementTypes DEF Holds
  <2>3. held' = [held EXCEPT ![d] = {}]
      BY <2>1, <2>2 DEF DispatchInv, TypeOK
  <2>4. "checked" \in Steps \ {"done"} /\ {} \in SUBSET IndexKeys
      BY DEF Steps
  <2>5. {} = Holds("checked", input[d]) /\ pc[d] # "done" /\ pc[d] # "idle"
      BY <1>1, <2>2
  <2>6. QED
      BY <1>1, <2>1, <2>3, <2>4, <2>5, GoesOn
<1>4. QED
    BY <1>2, <1>3

\* Enter either fails on a committed key or takes a free one.
LEMMA EnterKeeps ==
    ASSUME DispatchInv, NEW d \in Dispatches, NEW k \in IndexKeys, NEW step \in Steps \ {"done"},
           pc[d] \notin {"idle", "done"}, Enter(d, k, step),
           UNCHANGED <<input, answer, handed, faults>>,
           held[d] \cup {k} = Holds(step, input[d]),
           step \in {"idle", "found", "checked", "inserted"} =>
               pc[d] \in {"found", "checked", "inserted"},
           step \in {"sent", "audited", "marked"} => pc[d] \in {"sent", "audited", "marked"}
    PROVE  DispatchInv'
<1>1. faults \in 0 .. MaxFaults /\ held \in [Dispatches -> SUBSET IndexKeys]
    BY DEF DispatchInv, TypeOK
<1>2. CASE k \in Committed
  <2>1. End(d, "error") /\ UNCHANGED <<outbox, audit>>
      BY <1>2 DEF Enter, Abort
  <2>2. QED
      BY <1>1, <2>1, EndsWithoutCommit
<1>3. CASE k \notin Committed
  <2> DEFINE keys == held[d] \cup {k}
  <2>1. /\ held' = [held EXCEPT ![d] = keys] /\ Goto(d, step) /\ UNCHANGED <<outbox, audit>>
        /\ Free(d, k)
      BY <1>3 DEF Enter
  <2>2. \A j \in keys : j \notin Committed /\ (j \in held[d] \/ Free(d, j))
      BY <1>3, <2>1, StatementTypes
  <2>3. keys \in SUBSET IndexKeys /\ keys = Holds(step, input[d])
      BY <1>1
  <2> HIDE DEF keys
  <2>4. QED
      BY <2>1, <2>2, <2>3, GoesOn
<1>4. QED
    BY <1>2, <1>3

LEMMA CreateOutboxKeeps ==
    ASSUME DispatchInv, NEW d \in Dispatches, CreateOutbox(d)
    PROVE  DispatchInv'
<1>1. pc[d] = "checked" /\ Enter(d, EventKey(input[d].event), "inserted")
      /\ UNCHANGED <<input, answer, handed, faults>>
    BY DEF CreateOutbox
<1>2. input[d].event \in Events /\ held[d] = {}
    BY <1>1, StatementTypes DEF Holds
<1>3. EventKey(input[d].event) \in IndexKeys
    BY <1>2 DEF EventKey, IndexKeys
<1>4. held[d] \cup {EventKey(input[d].event)} = Holds("inserted", input[d])
    BY <1>2 DEF Holds
<1>5. "inserted" \in Steps \ {"done"}
    BY DEF Steps
<1>6. QED
    BY <1>1, <1>3, <1>4, <1>5, EnterKeeps

LEMMA SendKeeps ==
    ASSUME DispatchInv, NEW d \in Dispatches, NEW result \in AdapterResults, Send(d, result)
    PROVE  DispatchInv'
<1>1. pc[d] = "inserted" /\ input[d].message \in Messages /\ reply[d] = None
    BY StatementTypes DEF Send, Knows
<1>2. TypeOK
    BY DEF DispatchInv
<1>3. /\ pc' = [pc EXCEPT ![d] = "sent"] /\ answer' = [answer EXCEPT ![d] = result]
      /\ handed' = [handed EXCEPT ![input[d].message] = @ + 1]
      /\ UNCHANGED <<input, held, outbox, audit, faults, reply>>
    BY DEF Send, Goto
<1>4. OnlyMoves(d)
    BY <1>1, <1>2, <1>3 DEF TypeOK, OnlyMoves, Steps
<1>5. pc'[d] = "sent" /\ answer'[d] = result /\ handed'[input'[d].message] > 0
    BY <1>1, <1>2, <1>3 DEF TypeOK
<1>6. Knows(d)'
    BY <1>1, <1>3, <1>5, StatementTypes DEF Knows
<1>7. held'[d] = Holds(pc'[d], input'[d])
    BY <1>1, <1>3, <1>5, StatementTypes DEF Holds
<1>8. \A k \in held'[d] : k \notin Committed /\ k \in held[d]
    BY <1>3, StatementTypes
<1>9. reply'[d] # "duplicate"
    BY <1>1, <1>3, NoneAssumption
<1>10. QED
    BY <1>1, <1>3, <1>4, <1>6, <1>7, <1>8, <1>9, StepWithoutCommit

LEMMA InsertAuditKeeps ==
    ASSUME DispatchInv, NEW d \in Dispatches, InsertAudit(d)
    PROVE  DispatchInv'
<1>1. pc[d] = "sent" /\ Goto(d, "audited") /\ held' = held
      /\ UNCHANGED <<input, answer, outbox, audit, handed, faults>>
    BY DEF InsertAudit
<1> DEFINE keys == held[d]
<1>2. keys \in SUBSET IndexKeys /\ held' = [held EXCEPT ![d] = keys]
    BY <1>1 DEF DispatchInv, TypeOK
<1>3. keys = Holds("audited", input[d])
    BY <1>1, StatementTypes DEF Holds
<1>4. \A k \in keys : k \notin Committed /\ (k \in held[d] \/ Free(d, k))
    BY StatementTypes
<1>5. "audited" \in Steps \ {"done"}
    BY DEF Steps
<1>6. /\ pc[d] # "done" /\ pc[d] # "idle" /\ pc[d] \in {"sent", "audited", "marked"}
      /\ "audited" \notin {"idle", "found", "checked", "inserted"}
    BY <1>1
<1> HIDE DEF keys
<1>7. QED
    BY <1>1, <1>2, <1>3, <1>4, <1>5, <1>6, GoesOn

LEMMA MarkOutboxSentKeeps ==
    ASSUME DispatchInv, NEW d \in Dispatches, MarkOutboxSent(d)
    PROVE  DispatchInv'
<1>1. pc[d] = "audited" /\ Enter(d, SentKey(input[d].message), "marked")
      /\ UNCHANGED <<input, answer, handed, faults>>
    BY DEF MarkOutboxSent
<1>2. input[d].message \in Messages /\ held[d] = {EventKey(input[d].event)}
    BY <1>1, StatementTypes DEF Holds
<1>3. SentKey(input[d].message) \in IndexKeys
    BY <1>2 DEF SentKey, IndexKeys
<1>4. held[d] \cup {SentKey(input[d].message)} = Holds("marked", input[d])
    BY <1>2 DEF Holds
<1>5. "marked" \in Steps \ {"done"}
    BY DEF Steps
<1>6. QED
    BY <1>1, <1>3, <1>4, <1>5, EnterKeeps

LEMMA FaultKeeps ==
    ASSUME DispatchInv, NEW d \in Dispatches, Fault(d)
    PROVE  DispatchInv'
<1>1. pc[d] \notin {"idle", "done"} /\ End(d, "error")
      /\ UNCHANGED <<outbox, audit, input, answer, handed>>
    BY DEF Fault, Abort, InTransaction
<1>2. faults' \in 0 .. MaxFaults
    BY DispatchAssumption DEF Fault, DispatchInv, TypeOK
<1>3. QED
    BY <1>1, <1>2, EndsWithoutCommit

\* The row a transaction commits is the first of its event and of its message:
\* it holds both entries, and no committed row has them.
LEMMA FirstOfItsKeys ==
    ASSUME DispatchInv, NEW d \in Dispatches, pc[d] = "marked", NEW r \in outbox
    PROVE  r.message # input[d].message /\ r.event # input[d].event /\ r.by # d
<1>1. EventKey(input[d].event) \notin Committed /\ SentKey(input[d].message) \notin Committed
    BY StatementTypes DEF Holds
<1>2. EventKey(r.event) \in Committed /\ SentKey(r.message) \in Committed
    BY DEF Committed
<1>3. pc[r.by] = "done"
    BY DEF DispatchInv, RowsOfEnded
<1>4. QED
    BY <1>1, <1>2, <1>3

LEMMA CommitKeeps ==
    ASSUME DispatchInv, NEW d \in Dispatches, Commit(d)
    PROVE  DispatchInv'
<1> DEFINE row == [by |-> d, message |-> input[d].message, event |-> input[d].event]
<1> DEFINE entry == [by |-> d,
                     status |-> IF answer[d] = "rejected" THEN "failed" ELSE "dispatched"]
<1>1. pc[d] = "marked" /\ End(d, answer[d]) /\ UNCHANGED <<input, answer, handed, faults>>
      /\ outbox' = outbox \cup {row} /\ audit' = audit \cup {entry}
    BY DEF Commit, AuditRow
<1>2. /\ input[d] \in Inputs /\ input[d].message \in Messages /\ input[d].event \in Events
      /\ answer[d] \in AdapterResults /\ handed[input[d].message] > 0
      /\ held[d] = {EventKey(input[d].event), SentKey(input[d].message)}
    BY <1>1, StatementTypes DEF Knows, Holds
<1>3. TypeOK /\ answer[d] \in {"dispatched", "duplicate", "rejected"} /\ answer[d] # None
    BY <1>2, DispatchAssumption, NoneAssumption DEF DispatchInv
<1>4. "done" \in Steps /\ {} \in SUBSET IndexKeys
      /\ faults' \in 0 .. MaxFaults
    BY <1>1, <1>3 DEF Steps, TypeOK
<1>5. OnlyMoves(d) /\ pc'[d] = "done" /\ held'[d] = {} /\ reply'[d] = answer[d]
    BY <1>1, <1>3, <1>4, MovesOnly DEF End
<1>6. row \in [by : Dispatches, message : Messages, event : Events]
      /\ entry \in [by : Dispatches, status : {"dispatched", "failed"}]
    BY <1>2
<1>7. row.by = d /\ row.message = input[d].message /\ row.event = input[d].event /\ entry.by = d
    OBVIOUS
<1> HIDE DEF row, entry
<1>8. TypeOK'
    BY <1>1, <1>3, <1>5, <1>6 DEF TypeOK, OnlyMoves
<1>9. HeldByStep'
    BY <1>5 DEF DispatchInv, HeldByStep, OnlyMoves, Holds
<1>10. Exclusive'
  <2>1. Committed' = Committed \cup held[d]
      BY <1>1, <1>2, <1>7 DEF Committed
  <2>2. ASSUME NEW e \in Dispatches, NEW f \in Dispatches, e # f
        PROVE  held'[e] \cap held'[f] = {}
      BY <1>5, <2>2 DEF DispatchInv, OnlyMoves, Exclusive
  <2>3. ASSUME NEW e \in Dispatches PROVE held'[e] \cap (Committed \cup held[d]) = {}
    <3>1. CASE e = d
        BY <1>5, <3>1
    <3>2. CASE e # d
      <4>1. held'[e] = held[e]
          BY <1>5, <3>2 DEF OnlyMoves
      <4>2. held[e] \cap Committed = {} /\ held[e] \cap held[d] = {}
          BY <3>2 DEF DispatchInv, Exclusive
      <4>3. QED
          BY <4>1, <4>2
    <3>3. QED
        BY <3>1, <3>2
  <2>4. QED
      BY <2>1, <2>2, <2>3 DEF Exclusive
<1>11. KnownByStep'
  <2> SUFFICES ASSUME NEW e \in Dispatches PROVE Knows(e)'
      BY DEF KnownByStep, Knows
  <2>1. CASE e = d
      BY <1>1, <1>2, <1>5, <2>1 DEF Knows
  <2>2. CASE e # d
    <3>1. Knows(e)
        BY DEF DispatchInv, KnownByStep, Knows
    <3>2. QED
        BY <1>1, <1>5, <2>2, <3>1 DEF Knows, OnlyMoves
  <2>3. QED
      BY <2>1, <2>2
<1>12. RowsOfEnded'
  <2> SUFFICES ASSUME NEW r \in outbox' PROVE pc'[r.by] = "done" /\ handed'[r.message] > 0
      BY DEF RowsOfEnded
  <2>1. CASE r = row
      BY <1>1, <1>2, <1>5, <1>7, <2>1
  <2>2. CASE r \in outbox
    <3>1. r.by \in Dispatches \ {d} /\ pc[r.by] = "done" /\ handed[r.message] > 0
        BY <1>1, <1>3, <2>2, FirstOfItsKeys DEF DispatchInv, RowsOfEnded, TypeOK
    <3>2. QED
        BY <1>1, <1>5, <3>1 DEF OnlyMoves
  <2>3. QED
      BY <1>1, <2>1, <2>2
<1>13. AuditedOnce'
  <2>1. {a.by : a \in audit'} = {r.by : r \in outbox'}
      BY <1>1, <1>7, SMTT(30) DEF DispatchInv, AuditedOnce
  <2>2. ASSUME NEW r1 \in outbox', NEW r2 \in outbox',
               r1.message = r2.message \/ r1.event = r2.event
        PROVE  r1.by = r2.by
    <3>1. \A r \in outbox : r.message # row.message /\ r.event # row.event
        BY <1>1, <1>7, FirstOfItsKeys
    <3>2. QED
        BY <1>1, <2>2, <3>1 DEF DispatchInv, AuditedOnce
  <2>3. ASSUME NEW a1 \in audit', NEW a2 \in audit', a1.by = a2.by
        PROVE  a1 = a2
    <3>1. \A r \in outbox : r.by # d
        BY <1>1, FirstOfItsKeys
    <3>2. ASSUME NEW a \in audit PROVE a.by # d
      <4>1. a.by \in {r.by : r \in outbox}
          BY DEF DispatchInv, AuditedOnce
      <4>2. QED
          BY <3>1, <4>1
    <3>3. QED
        BY <1>1, <1>7, <2>3, <3>2 DEF DispatchInv, AuditedOnce
  <2>4. QED
      BY <2>1, <2>2, <2>3 DEF AuditedOnce
<1>14. DuplicateIsOnRecord'
  <2> SUFFICES ASSUME NEW e \in Dispatches, reply'[e] = "duplicate", answer'[e] = None
               PROVE  /\ \E r \in outbox' : r.message = input'[e].message
                      /\ handed'[input'[e].message] > 0
      BY DEF DuplicateIsOnRecord
  <2>1. e # d /\ reply[e] = "duplicate" /\ answer[e] = None
      BY <1>1, <1>3, <1>5 DEF OnlyMoves
  <2>2. QED
      BY <1>1, <2>1 DEF DispatchInv, DuplicateIsOnRecord
<1>15. QED
    BY <1>8, <1>9, <1>10, <1>11, <1>12, <1>13, <1>14 DEF DispatchInv

LEMMA DispatchInvInit == Init => DispatchInv
<1> SUFFICES ASSUME Init PROVE DispatchInv
    OBVIOUS
<1>1. TypeOK
    BY DispatchAssumption DEF Init, TypeOK, Steps
<1>2. HeldByStep /\ Exclusive /\ KnownByStep
    BY DEF Init, HeldByStep, Holds, Exclusive, KnownByStep
<1>3. RowsOfEnded /\ AuditedOnce
    BY DEF Init, RowsOfEnded, AuditedOnce
<1>4. DuplicateIsOnRecord
    BY NoneAssumption DEF Init, DuplicateIsOnRecord
<1>5. QED
    BY <1>1, <1>2, <1>3, <1>4 DEF DispatchInv

LEMMA DispatchInvStep == DispatchInv /\ [Next]_vars => DispatchInv'
<1> SUFFICES ASSUME DispatchInv, [Next]_vars PROVE DispatchInv'
    OBVIOUS
<1>1. ASSUME NEW d \in Dispatches, NEW m \in Messages, NEW e \in Events, FindTemplate(d, m, e)
      PROVE  DispatchInv'
    BY <1>1, FindTemplateKeeps
<1>2. ASSUME NEW d \in Dispatches, Statement(d) PROVE DispatchInv'
  <2>1. CASE CheckDuplicate(d)
      BY <2>1, CheckDuplicateKeeps
  <2>2. CASE CreateOutbox(d)
      BY <2>2, CreateOutboxKeeps
  <2>3. CASE \E result \in AdapterResults : Send(d, result)
      BY <2>3, SendKeeps
  <2>4. CASE InsertAudit(d)
      BY <2>4, InsertAuditKeeps
  <2>5. CASE MarkOutboxSent(d)
      BY <2>5, MarkOutboxSentKeeps
  <2>6. CASE Commit(d)
      BY <2>6, CommitKeeps
  <2>7. QED
      BY <1>2, <2>1, <2>2, <2>3, <2>4, <2>5, <2>6 DEF Statement
<1>3. ASSUME NEW d \in Dispatches, Fault(d) PROVE DispatchInv'
    BY <1>3, FaultKeeps
<1>4. CASE UNCHANGED vars
  <2>1. Committed' = Committed
      BY <1>4 DEF vars, Committed
  <2>2. TypeOK' /\ HeldByStep' /\ KnownByStep' /\ RowsOfEnded'
      BY <1>4 DEF DispatchInv, vars, TypeOK, HeldByStep, KnownByStep, RowsOfEnded
  <2>3. AuditedOnce' /\ DuplicateIsOnRecord' /\ Exclusive'
      BY <1>4, <2>1 DEF DispatchInv, vars, AuditedOnce, DuplicateIsOnRecord, Exclusive
  <2>4. QED
      BY <2>2, <2>3 DEF DispatchInv
<1>5. QED
    BY <1>1, <1>2, <1>3, <1>4 DEF Next

\* The invariant that the theorems below follow from.
THEOREM InductiveInvariant == Spec => []DispatchInv
BY DispatchInvInit, DispatchInvStep, PTL DEF Spec

\* Every variable of a dispatch keeps its type; among them, the fault count
\* stays within its bound and committed rows are complete.
THEOREM TypeCorrect == Spec => []TypeOK
<1>1. DispatchInv => TypeOK
    BY DEF DispatchInv
<1>2. QED
    BY <1>1, InductiveInvariant, PTL

\* Dispatches that race for one message or one event id, in any number and in
\* any order of their statements, leave one outbox row and one audit row.
THEOREM OneAuditPerMessage == Spec => []AuditedOnce
<1>1. DispatchInv => AuditedOnce
    BY DEF DispatchInv
<1>2. QED
    BY <1>1, InductiveInvariant, PTL

\* A caller that the check answers "duplicate" can rely on the message having
\* been handed to the adapter and recorded, whatever failed in between.
THEOREM DuplicatesAreOnRecord == Spec => []DuplicateIsOnRecord
<1>1. DispatchInv => DuplicateIsOnRecord
    BY DEF DispatchInv
<1>2. QED
    BY <1>1, InductiveInvariant, PTL

\* What a transaction holds says where it is: entries of messages are held by
\* transactions that only have to commit.
LEMMA HolderIsAt ==
    ASSUME DispatchInv, NEW e \in Dispatches
    PROVE  /\ held[e] # {} => pc[e] \in {"inserted", "sent", "audited", "marked"}
           /\ \A m : SentKey(m) \in held[e] => pc[e] = "marked"
<1>1. held[e] = Holds(pc[e], input[e])
    BY DEF DispatchInv, HeldByStep
<1>2. held[e] # {} => pc[e] \in {"inserted", "sent", "audited", "marked"}
    BY <1>1 DEF Holds
<1>3. ASSUME NEW m, SentKey(m) \in held[e], pc[e] # "marked" PROVE FALSE
  <2>1. SentKey(m) = EventKey(input[e].event)
      BY <1>1, <1>3 DEF Holds
  <2>2. SentKey(m).index = "sent" /\ EventKey(input[e].event).index = "event"
      BY DEF SentKey, EventKey
  <2>3. QED
      BY <2>1, <2>2
<1>4. QED
    BY <1>2, <1>3

\* However many dispatches race, their waits form no circle: behind two waits at
\* most stands a transaction that waits for nobody and can commit.
THEOREM NoCircleOfWaits == Spec => []WaitsAreShort
<1>1. ASSUME DispatchInv, NEW d \in Dispatches, NEW e \in Dispatches, WaitsFor(d, e)
      PROVE  /\ pc[e] \in InTransaction
             /\ \A f \in Dispatches : WaitsFor(d, f) => f = e
             /\ \A f, g \in Dispatches : ~(WaitsFor(e, f) /\ WaitsFor(f, g))
  <2>1. pc[e] \in {"inserted", "sent", "audited", "marked"}
      BY <1>1, HolderIsAt DEF WaitsFor
  <2>2. ASSUME NEW f \in Dispatches, WaitsFor(d, f), f # e PROVE FALSE
    <3>1. PICK k : k \in held[e] /\ k \in held[f]
        BY <1>1, <2>2 DEF WaitsFor
    <3>2. QED
        BY <1>1, <2>2, <3>1 DEF DispatchInv, Exclusive
  <2>3. ASSUME NEW f \in Dispatches, NEW g \in Dispatches, WaitsFor(e, f), WaitsFor(f, g)
        PROVE  FALSE
    <3>1. SentKey(input[e].message) \in held[f]
        BY <2>1, <2>3 DEF WaitsFor
    <3>2. pc[f] = "marked"
        BY <1>1, <3>1, HolderIsAt
    <3>3. QED
        BY <2>3, <3>2 DEF WaitsFor
  <2>4. QED
      BY <2>1, <2>2, <2>3 DEF InTransaction
<1>2. DispatchInv => WaitsAreShort
    BY <1>1 DEF WaitsAreShort
<1>3. QED
    BY <1>2, InductiveInvariant, PTL
=============================================================================
