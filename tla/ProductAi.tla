------------------------------ MODULE ProductAi ------------------------------
(***************************************************************************)
(* The product AI gateway: application/ProductAiService.ts over an adapter *)
(* (mock/MockAiAdapter.ts or openai/OpenAiAdapter.ts) and the audit table  *)
(* of persistence/AiAuditRepository.ts, configured by config/ai.env.ts.    *)
(*                                                                         *)
(* A run calls the adapter, validates the answer against the schema of the *)
(* prompt template, and calls again for an answer that cannot be used,     *)
(* until the repair cap.  It awaits twice in every round: the adapter, and *)
(* the insert of an audit row.                                             *)
(*                                                                         *)
(* Left out: fingerprints, byte lengths, latencies and model names.  An    *)
(* answer is what the schema makes of it, and the tokens of a row are      *)
(* counted in estimates of the prompt.                                     *)
(***************************************************************************)
EXTENDS Integers, SequencesExt

CONSTANTS
    Requests,
    Caps,            \* values of AI_SCHEMA_REPAIR_MAX tried; None: not set
    None,
    MaxCalls         \* bound: calls of the adapter in one run

ASSUME GatewayAssumption == Caps \subseteq Int \cup {None} /\ MaxCalls \in Nat

VARIABLES
    env,             \* what parseAiEnv made of the environment
    fixture,         \* the mock adapter: its switch, and its answer by attempt
    runs,            \* request -> its run
    trail            \* request -> its audit rows, in the order of insertion

vars == <<env, fixture, runs, trail>>

Drivers == {"mock", "openai"}

Texts == {"fits", "mismatch", "prose"}

Kinds == {"succeeded", "schema_invalid", "rate_limited", "refused", "error"}

\* What an adapter returns; a text only with "succeeded".
Outcomes == [kind : Kinds, text : Texts \cup {None}]

AuditRows == [outcome : Kinds \cup {"schema_repair"}, attempts : Nat,
              error : BOOLEAN, tokens : Nat]

Runs == [at : {"idle", "call", "record", "done"}, attempts : Nat, calls : 0 .. MaxCalls,
         row : AuditRows \cup {None},          \* the row being inserted
         result : Kinds \cup {"thrown", None}] \* None with a row: a repair

ASSUME NoneAssumption == None \notin Kinds \cup {"thrown"} /\ None \notin AuditRows

-----------------------------------------------------------------------------
(* parseAiEnv *)

RawEnv == [driver : Drivers \cup {"other", None}, key : BOOLEAN, cap : Caps]

\* Anything else is a ConfigError and the process does not start.
Admitted(raw) ==
    /\ raw.driver # "other"
    /\ raw.driver = "openai" => raw.key
    /\ raw.cap \in (0 .. 5) \cup {None}

ParseAiEnv(raw) ==
    [driver |-> IF raw.driver = None THEN "mock" ELSE raw.driver,
     cap |-> IF raw.cap = None THEN 1 ELSE raw.cap]

-----------------------------------------------------------------------------
(* The adapters *)

\* The mock answers the same for the same template, version and attempt; a
\* switch makes every answer one outcome.
Fixtures == [switch : (Kinds \ {"succeeded"}) \cup {None},
             answer : [1 .. MaxCalls -> {"fits", "mismatch"}]]

\* The OpenAI adapter has none.
NoFixture == [switch |-> None, answer |-> [n \in 1 .. MaxCalls |-> "fits"]]

Outcome(kind) == [kind |-> kind, text |-> None]

Answer(text) == [kind |-> "succeeded", text |-> text]

MockGenerate(attempt) ==
    IF fixture.switch # None THEN Outcome(fixture.switch) ELSE Answer(fixture.answer[attempt])

\* An HTTP response.  A body that is not wrapped is taken whole.
Responses == [status : {200, 429, 400, 500}, wrapped : BOOLEAN, text : Texts]

OpenAiGenerate(response) ==
    CASE response.status = 429 -> Outcome("rate_limited")
      [] response.status \in {400, 500} -> Outcome("error")
      [] response.status = 200 /\ ~response.wrapped /\ response.text = "prose" ->
             Outcome("schema_invalid")
      [] OTHER -> Answer(response.text)

-----------------------------------------------------------------------------
(* ProductAiService.run *)

Idle == [at |-> "idle", attempts |-> 0, calls |-> 0, row |-> None, result |-> None]

TypeOK ==
    /\ env \in [driver : Drivers, cap : 0 .. 5]
    /\ fixture \in Fixtures
    /\ runs \in [Requests -> Runs]
    /\ trail \in [Requests -> Seq(AuditRows)]

Init ==
    /\ \E raw \in RawEnv : Admitted(raw) /\ env = ParseAiEnv(raw)
    /\ fixture \in IF env.driver = "mock" THEN Fixtures ELSE {NoFixture}
    /\ runs = [r \in Requests |-> Idle]
    /\ trail = [r \in Requests |-> << >>]

Ended(run, result) == [run EXCEPT !.at = "done", !.row = None, !.result = result]

\* A template without a schema fails at once, without a row.
Begin(r) ==
    /\ runs[r].at = "idle"
    /\ \/ runs' = [runs EXCEPT ![r].at = "call"]
       \/ runs' = [runs EXCEPT ![r] = Ended(@, "error")]
    /\ UNCHANGED <<env, fixture, trail>>

Row(outcome, attempts, error, tokens) ==
    [outcome |-> outcome, attempts |-> attempts, error |-> error, tokens |-> tokens]

\* completeSchemaFailure: the last row, after the repair rows.
CompleteSchemaFailure(run) ==
    [run EXCEPT !.at = "record", !.row = Row("schema_repair", run.attempts, TRUE, 1),
                !.result = "schema_invalid"]

\* Mutant of Repair: the mismatch does not count.
RepairUncounted(run, outcome) ==
    IF run.attempts >= env.cap
    THEN CompleteSchemaFailure(run)
    ELSE LET n == IF outcome.text = "mismatch" THEN run.attempts ELSE run.attempts + 1
         IN  [run EXCEPT !.at = "record", !.attempts = n,
                         !.row = Row("schema_repair", n, TRUE, 1)]

\* Mutant of Repair: the attempt is counted after its row is made.
RepairThenCount(run, outcome) ==
    IF run.attempts >= env.cap
    THEN CompleteSchemaFailure(run)
    ELSE [run EXCEPT !.at = "record", !.attempts = run.attempts + 1,
                     !.row = Row("schema_repair", run.attempts, TRUE,
                                 IF outcome.text = "mismatch" THEN 1 ELSE run.attempts)]

\* An answer that cannot be used: a row for the repair, then another call.  A
\* mismatch counts one estimate, the others one for every repair so far.
Repair(run, outcome) ==
    IF run.attempts >= env.cap
    THEN CompleteSchemaFailure(run)
    ELSE LET n == run.attempts + 1
         IN  [run EXCEPT !.at = "record", !.attempts = n,
                         !.row = Row("schema_repair", n, TRUE,
                                     IF outcome.text = "mismatch" THEN 1 ELSE n)]

\* Mutant of Settle: a success is returned as the first answer was.
SettleAsFirst(run, kind) ==
    [run EXCEPT !.at = "record", !.row = Row(kind, 0, kind # "succeeded", 1), !.result = kind]

Settle(run, kind) ==
    [run EXCEPT !.at = "record",
                !.row = Row(kind, run.attempts, kind # "succeeded", 1), !.result = kind]

Unusable(outcome) == outcome.kind = "schema_invalid" \/ outcome.text \in {"mismatch", "prose"}

Receive(run, outcome) ==
    IF Unusable(outcome) THEN Repair(run, outcome) ELSE Settle(run, outcome.kind)

\* The adapter is called with the number of the attempt and returns.
Generate(r) ==
    /\ runs[r].at = "call" /\ runs[r].calls < MaxCalls
    /\ LET run == [runs[r] EXCEPT !.calls = @ + 1]
       IN  \/ /\ env.driver = "mock"
              /\ runs' = [runs EXCEPT ![r] = Receive(run, MockGenerate(run.attempts + 1))]
           \/ /\ env.driver = "openai"
              /\ \E response \in Responses :
                    runs' = [runs EXCEPT ![r] = Receive(run, OpenAiGenerate(response))]
    /\ UNCHANGED <<env, fixture, trail>>

\* The transport raises: the run fails without a row.  So would an envelope
\* that is not ok, which no adapter returns.
Raise(r) ==
    /\ runs[r].at = "call" /\ runs[r].calls < MaxCalls /\ env.driver = "openai"
    /\ LET run == [runs[r] EXCEPT !.calls = @ + 1]
       IN  runs' = [runs EXCEPT ![r] = Ended(run, "error")]
    /\ UNCHANGED <<env, fixture, trail>>

Recorded(run) ==
    IF run.result = None THEN [run EXCEPT !.at = "call", !.row = None]
                         ELSE Ended(run, run.result)

\* The row is inserted.
Record(r) ==
    /\ runs[r].at = "record"
    /\ trail' = [trail EXCEPT ![r] = Append(@, runs[r].row)]
    /\ runs' = [runs EXCEPT ![r] = Recorded(@)]
    /\ UNCHANGED <<env, fixture>>

\* The insert fails and the run throws, whatever the provider answered.
RecordFails(r) ==
    /\ runs[r].at = "record"
    /\ runs' = [runs EXCEPT ![r] = Ended(@, "thrown")]
    /\ UNCHANGED <<env, fixture, trail>>

Work(r) == Generate(r) \/ Raise(r) \/ Record(r) \/ RecordFails(r)

Next == \E r \in Requests : Begin(r) \/ Work(r)

\* A call that was made goes on: the transport answers or raises, the database
\* inserts or fails.
Spec == Init /\ [][Next]_vars /\ \A r \in Requests : WF_vars(Work(r))

-----------------------------------------------------------------------------
(* Properties *)

RepairsUpTo(r, n) ==
    \A k \in 1 .. n : trail[r][k].outcome = "schema_repair" /\ trail[r][k].attempts = k

\* The rows of r are its repairs and then one with the outcome it returned.
Told(r) ==
    /\ runs[r].at = "done" /\ trail[r] # << >>
    /\ RepairsUpTo(r, Len(trail[r]) - 1)
    /\ Last(trail[r]).attempts = Len(trail[r]) - 1
    /\ Last(trail[r]).outcome =
           IF runs[r].result = "schema_invalid" THEN "schema_repair" ELSE runs[r].result

\* The audit table tells how every run went: its repairs in order, none beyond
\* the cap, one adapter call for each and one more, and, for an answer of the
\* provider that was returned, a last row with that outcome.
TrailTellsTheRun ==
    \A r \in Requests :
        /\ Told(r) \/ RepairsUpTo(r, Len(trail[r]))
        /\ runs[r].at = "done" /\ runs[r].result \notin {"error", "thrown"} => Told(r)
        /\ Len(trail[r]) <= env.cap + 1
        /\ Told(r) => Len(trail[r]) = runs[r].calls

\* The prompt estimates that rows account for.
Tokens(rows) ==
    LET sum[k \in 0 .. Len(rows)] == IF k = 0 THEN 0 ELSE sum[k - 1] + rows[k].tokens
    IN  sum[Len(rows)]

\* The rows of a run that returned an answer of the provider account for one
\* prompt estimate or more for every prompt that was sent, although parse
\* failures and mismatches count by different rules.
TokensCoverCalls ==
    \A r \in Requests :
        runs[r].at = "done" /\ runs[r].result \notin {"error", "thrown"} =>
            Tokens(trail[r]) >= runs[r].calls

\* A run that began ends, whatever the provider answers: the repair loop stops
\* at the cap.
RunsEnd == \A r \in Requests : runs[r].at # "idle" ~> runs[r].at = "done"
=============================================================================
