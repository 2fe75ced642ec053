---------------------------- MODULE PublishedLog ----------------------------
(***************************************************************************)
(* What the curriculum catalogue promises, without its locks, statements   *)
(* and failures: every item has a draft and a log of what was published.   *)
(* Publishing appends the draft in one step; a log is never rewritten; a   *)
(* reader is sent lines of the logs, no older ones than it was sent before.*)
(***************************************************************************)
EXTENDS Integers, Sequences

CONSTANTS Items, Payloads, Readers, Nothing,
          Publishable    \* the pairs of an item and a draft it may publish

VARIABLES draft, log, sent

logVars == <<draft, log, sent>>

\* Line v of the log of item i, as readers are sent it.
Line(i, v) == [item |-> i, version |-> v, payload |-> log[i][v]]

Lines == UNION {{Line(i, v) : v \in 1 .. Len(log[i])} : i \in Items}

LogInit ==
    /\ draft = [i \in Items |-> Nothing]
    /\ log = [i \in Items |-> << >>]
    /\ sent = [r \in Readers |-> {}]

Write(i) ==
    /\ \E d \in Payloads : draft' = [draft EXCEPT ![i] = d]
    /\ UNCHANGED <<log, sent>>

\* The draft as it is at this moment.
Publish(i) ==
    /\ <<i, draft[i]>> \in Publishable
    /\ log' = [log EXCEPT ![i] = Append(@, draft[i])]
    /\ UNCHANGED <<draft, sent>>

\* At most one line of an item.
Send(r) ==
    /\ \E S \in SUBSET Lines :
         /\ sent' = [sent EXCEPT ![r] = S]
         /\ \A e, f \in S : e.item = f.item => e = f
         /\ \A e \in S, f \in sent[r] : e.item = f.item => e.version >= f.version
    /\ UNCHANGED <<draft, log>>

LogNext == \/ \E i \in Items : Write(i) \/ Publish(i)
           \/ \E r \in Readers : Send(r)

LogSpec == LogInit /\ [][LogNext]_logVars
=============================================================================
