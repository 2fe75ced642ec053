------------------------ MODULE NotificationDispatch ------------------------
(***************************************************************************)
(* Notifications: domain/NotificationService.ts over                       *)
(* persistence/NotificationRepository.ts and its Postgres tables.          *)
(*                                                                         *)
(* A dispatch looks its template up, then runs one read-committed          *)
(* transaction: check for a duplicate, insert the outbox row, hand the     *)
(* message to the adapter, insert the audit row, mark the outbox row sent. *)
(* Dispatches of several requests run side by side, statement by           *)
(* statement.  A statement sees what is committed; one that would enter a  *)
(* key into a unique index while another open transaction holds that key   *)
(* waits for that transaction, and fails once the key is committed.  What  *)
(* the adapter was handed is never rolled back.                            *)
(***************************************************************************)
EXTENDS Integers, FiniteSets

CONSTANTS
    Dispatches,      \* the calls of dispatch
    Messages,        \* template, recipient hash and payload hash: the dedupe key
    Templated,       \* the messages whose template exists in some locale
    Events,          \* event ids that callers provide
    AdapterResults,  \* what the adapter may answer
    None,
    MaxFaults        \* bound: connections lost, workers killed, adapter exceptions

ASSUME DispatchAssumption ==
    /\ Templated \subseteq Messages
    /\ AdapterResults \subseteq {"dispatched", "duplicate", "rejected"}
    /\ MaxFaults \in Nat

ASSUME NoneAssumption == None \notin {"dispatched", "duplicate", "rejected", "error"}

VARIABLES
    pc,              \* dispatch -> the statement it is at
    input,           \* dispatch -> its message and event
    answer,          \* dispatch -> what the adapter answered
    reply,           \* dispatch -> what the caller got
    held,            \* dispatch -> the keys its open transaction holds
    outbox,          \* the committed outbox rows, all of them sent
    audit,           \* the committed audit rows
    handed,          \* message -> how often the adapter was handed it
    faults

vars == <<pc, input, answer, reply, held, outbox, audit, handed, faults>>

Steps == {"idle", "found", "checked", "inserted", "sent", "audited", "marked", "done"}

InTransaction == {"checked", "inserted", "sent", "audited", "marked"}

Inputs == [message : Messages, event : Events]

\* Entries of the two unique indexes: event ids, and the messages of sent rows.
IndexKeys == [index : {"event"}, key : Events] \cup [index : {"sent"}, key : Messages]

EventKey(e) == [index |-> "event", key |-> e]

SentKey(m) == [index |-> "sent", key |-> m]

\* Type invariant.
TypeOK ==
    /\ pc \in [Dispatches -> Steps]
    /\ input \in [Dispatches -> Inputs \cup {None}]
    /\ answer \in [Dispatches -> AdapterResults \cup {None}]
    /\ reply \in [Dispatches -> {"dispatched", "duplicate", "rejected", "error", None}]
    /\ held \in [Dispatches -> SUBSET IndexKeys]
    /\ outbox \subseteq [by : Dispatches, message : Messages, event : Events]
    /\ audit \subseteq [by : Dispatches, status : {"dispatched", "failed"}]
    /\ handed \in [Messages -> Nat]
    /\ faults \in 0..MaxFaults

Init ==
    /\ pc = [d \in Dispatches |-> "idle"]
    /\ input = [d \in Dispatches |-> None]
    /\ answer = [d \in Dispatches |-> None]
    /\ reply = [d \in Dispatches |-> None]
    /\ held = [d \in Dispatches |-> {}]
    /\ outbox = {}
    /\ audit = {}
    /\ handed = [m \in Messages |-> 0]
    /\ faults = 0

-----------------------------------------------------------------------------
(* The database *)

Committed == {EventKey(r.event) : r \in outbox} \cup {SentKey(r.message) : r \in outbox}

\* No other open transaction holds the key: the statement need not wait.
Free(d, k) == \A other \in Dispatches \ {d} : k \notin held[other]

\* A plausible bug: the connection goes back to the pool without a rollback.
EndKeepingLocks(d, r) ==
    /\ pc' = [pc EXCEPT ![d] = "done"]
    /\ reply' = [reply EXCEPT ![d] = r]
    /\ UNCHANGED held

\* The transaction ends, one way or the other, and the caller is answered.
End(d, r) ==
    /\ pc' = [pc EXCEPT ![d] = "done"]
    /\ reply' = [reply EXCEPT ![d] = r]
    /\ held' = [held EXCEPT ![d] = {}]

\* An exception inside the transaction: rolled back and thrown to the caller.
Abort(d) == End(d, "error") /\ UNCHANGED <<outbox, audit>>

Goto(d, step) == pc' = [pc EXCEPT ![d] = step] /\ UNCHANGED reply

\* Enter k into its index on the way to `step`, or fail on a committed one.
Enter(d, k, step) ==
    /\ Free(d, k)
    /\ IF k \in Committed
       THEN Abort(d)
       ELSE /\ held' = [held EXCEPT ![d] = @ \cup {k}]
            /\ Goto(d, step)
            /\ UNCHANGED <<outbox, audit>>

-----------------------------------------------------------------------------
(* dispatch *)

\* A request comes in and its template is looked up, in the locale asked for
\* or in id-ID.
FindTemplate(d, m, e) ==
    /\ pc[d] = "idle"
    /\ input' = [input EXCEPT ![d] = [message |-> m, event |-> e]]
    /\ IF m \in Templated THEN Goto(d, "found") /\ UNCHANGED held ELSE End(d, "rejected")
    /\ UNCHANGED <<answer, outbox, audit, handed, faults>>

\* A plausible bug: the event, not the message, decides what is a duplicate.
SentSameEvent(d) == \E r \in outbox : r.event = input[d].event

HasSentDedupe(d) == \E r \in outbox : r.message = input[d].message

CheckDuplicate(d) ==
    /\ pc[d] = "found"
    /\ IF HasSentDedupe(d) THEN End(d, "duplicate") ELSE Goto(d, "checked") /\ UNCHANGED held
    /\ UNCHANGED <<input, answer, outbox, audit, handed, faults>>

CreateOutbox(d) ==
    /\ pc[d] = "checked"
    /\ Enter(d, EventKey(input[d].event), "inserted")
    /\ UNCHANGED <<input, answer, handed, faults>>

\* The adapter gets the message while the transaction is open.
Send(d, result) ==
    /\ pc[d] = "inserted"
    /\ Goto(d, "sent")
    /\ answer' = [answer EXCEPT ![d] = result]
    /\ handed' = [handed EXCEPT ![input[d].message] = @ + 1]
    /\ UNCHANGED <<input, held, outbox, audit, faults>>

InsertAudit(d) ==
    /\ pc[d] = "sent"
    /\ Goto(d, "audited")
    /\ UNCHANGED <<input, answer, held, outbox, audit, handed, faults>>

\* A plausible bug: there is no unique index on sent messages.
MarkWithoutIndex(d) ==
    /\ pc[d] = "audited"
    /\ Goto(d, "marked")
    /\ UNCHANGED <<input, answer, held, outbox, audit, handed, faults>>

\* Marked sent whatever the adapter answered.
MarkOutboxSent(d) ==
    /\ pc[d] = "audited"
    /\ Enter(d, SentKey(input[d].message), "marked")
    /\ UNCHANGED <<input, answer, handed, faults>>

AuditRow(d) ==
    audit \cup {[by |-> d,
                 status |-> IF answer[d] = "rejected" THEN "failed" ELSE "dispatched"]}

Commit(d) ==
    /\ pc[d] = "marked"
    /\ End(d, answer[d])
    /\ outbox' = outbox \cup {[by |-> d, message |-> input[d].message,
                               event |-> input[d].event]}
    /\ audit' = AuditRow(d)
    /\ UNCHANGED <<input, answer, handed, faults>>

\* The adapter throws, the connection breaks or the process dies.
Fault(d) ==
    /\ pc[d] \in InTransaction
    /\ faults < MaxFaults
    /\ faults' = faults + 1
    /\ Abort(d)
    /\ UNCHANGED <<input, answer, handed>>

-----------------------------------------------------------------------------
(* The specification *)

Statement(d) ==
    \/ CheckDuplicate(d) \/ CreateOutbox(d)
    \/ \E result \in AdapterResults : Send(d, result)
    \/ InsertAudit(d) \/ MarkOutboxSent(d) \/ Commit(d)

Next ==
    \E d \in Dispatches :
      \/ \E m \in Messages, e \in Events : FindTemplate(d, m, e)
      \/ Statement(d)
      \/ Fault(d)

Spec == Init /\ [][Next]_vars

\* The database and the adapter answer, and Postgres ends a wait when the
\* transaction waited for has ended.
FairSpec == Spec /\ \A d \in Dispatches : WF_vars(Statement(d))

-----------------------------------------------------------------------------
(* Properties *)

\* Repeating a dispatch, at once or later, under the same or another event
\* id, does not grow the audit: a message has at most one audit row, and every
\* audit row belongs to an outbox row and the other way round.
AuditedOnce ==
    /\ {a.by : a \in audit} = {r.by : r \in outbox}
    /\ \A a1, a2 \in audit : a1.by = a2.by => a1 = a2
    /\ \A r1, r2 \in outbox :
         r1.message = r2.message \/ r1.event = r2.event => r1.by = r2.by

\* A caller that is told "duplicate" by the check can rely on it: the message
\* is on record as sent, and the adapter had been handed it.
DuplicateIsOnRecord ==
    \A d \in Dispatches :
      reply[d] = "duplicate" /\ answer[d] = None =>
        /\ \E r \in outbox : r.message = input[d].message
        /\ handed[input[d].message] > 0

\* d waits for e, which holds the entry that the next statement of d needs.
WaitsFor(d, e) ==
    /\ d # e
    /\ \/ pc[d] = "checked" /\ EventKey(input[d].event) \in held[e]
       \/ pc[d] = "audited" /\ SentKey(input[d].message) \in held[e]

\* Transactions wait for each other's index entries, but never in a circle: each
\* wait is for one open transaction, and no chain of waits is longer than two,
\* one for an event and one for a message, so at its end a transaction goes on.
WaitsAreShort ==
    \A d, e \in Dispatches : WaitsFor(d, e) =>
        /\ pc[e] \in InTransaction
        /\ \A f \in Dispatches : WaitsFor(d, f) => f = e
        /\ \A f, g \in Dispatches : ~(WaitsFor(e, f) /\ WaitsFor(f, g))

\* So every dispatch is answered.
EveryDispatchAnswered ==
    \A d \in Dispatches : (pc[d] # "idle") ~> (reply[d] # None)
=============================================================================
