-------------------------- MODULE ProductAiProofs --------------------------
(***************************************************************************)
(* Theorems about ProductAi, for any number of runs, any answers of the    *)
(* provider and every repair cap that parseAiEnv admits: types, what the   *)
(* audit rows of a run say of it, and the prompts that they account for.   *)
(***************************************************************************)
EXTENDS ProductAi, WellFoundedInduction, TLAPS

\* Rows of repairs, numbered in the order in which they were made.
Repairs(rows) == \A k \in 1 .. Len(rows) : rows[k].outcome = "schema_repair" /\ rows[k].attempts = k

\* The last row of a run: the repairs before it, and what the run returns.
Closes(row, run, repairs) ==
    /\ row.attempts = repairs
    /\ row.outcome = IF run.result = "schema_invalid" THEN "schema_repair" ELSE run.result

\* A run that has all its rows: one for every call of the adapter.
Complete(run, rows, cap) ==
    /\ rows # << >> /\ Len(rows) = run.calls /\ Len(rows) <= cap + 1
    /\ \A k \in 1 .. Len(rows) - 1 : rows[k].outcome = "schema_repair" /\ rows[k].attempts = k
    /\ Closes(rows[Len(rows)], run, Len(rows) - 1)

\* Rows that each account for a prompt.
Charged(rows) == \A k \in 1 .. Len(rows) : rows[k].tokens >= 1

\* What the rows say of a run, by where it is.  At a call the repairs are as many
\* as the calls before it; with a row to insert there was one call more, and the
\* row is the next repair or the last.
Fits(run, rows, cap) ==
    /\ run.at = "idle" => rows = << >> /\ run.attempts = 0 /\ run.calls = 0 /\ run.result = None
    /\ run.at \in {"call", "record"} => Repairs(rows) /\ Len(rows) <= cap
    /\ run.at = "call" =>
         run.attempts = Len(rows) /\ run.calls = Len(rows) /\ run.result = None
    /\ run.at = "record" =>
         /\ run.row # None /\ run.calls = Len(rows) + 1 /\ run.result # "thrown"
         /\ run.result = None =>
              /\ run.attempts = Len(rows) + 1 /\ run.attempts <= cap
              /\ run.row.outcome = "schema_repair" /\ run.row.attempts = run.attempts
         /\ run.result # None => Closes(run.row, run, Len(rows))
    /\ run.at = "done" =>
         \/ run.result \in {"error", "thrown"} /\ Repairs(rows) /\ Len(rows) <= cap
         \/ Complete(run, rows, cap)

\* A row accounts for the prompt it is inserted for, whichever rule counted it.
Charges(run, rows) == Charged(rows) /\ (run.at = "record" => run.row.tokens >= 1)

RunInv ==
    /\ TypeOK
    /\ \A r \in Requests : Fits(runs[r], trail[r], env.cap) /\ Charges(runs[r], trail[r])

-----------------------------------------------------------------------------
(* Sums of rows *)

\* Induction over the natural numbers: a set that is not all of them leaves out
\* a least one, which is not 0 and whose predecessor is in the set.
Less == {pair \in Nat \X Nat : pair[1] < pair[2]}

LEMMA LessIsWellFounded == IsWellFoundedOn(Less, Nat)
BY NatLessThanWellFounded DEF OpToRel, Less

LEMMA Induction ==
    ASSUME NEW S, 0 \in S, \A n \in Nat : n \in S => n + 1 \in S
    PROVE  \A n \in Nat : n \in S
<1> DEFINE rest == {n \in Nat : n \notin S}
<1>1. SUFFICES ASSUME rest # {} PROVE FALSE
    OBVIOUS
<1>2. PICK least \in rest : \A n \in rest : <<n, least>> \notin Less
    BY <1>1, LessIsWellFounded, WFMin
<1>3. least \in Nat /\ least # 0 /\ least - 1 \in Nat /\ (least - 1) + 1 = least
    BY <1>2
<1>4. <<least - 1, least>> \in Less
    BY <1>3 DEF Less
<1>5. least - 1 \in S
    BY <1>2, <1>3, <1>4
<1>6. QED
    BY <1>2, <1>3, <1>5

\* The running sum of the first n rows.
SumOf(rows, n, sum) ==
    sum = [k \in 0 .. n |-> IF k = 0 THEN 0 ELSE sum[k - 1] + rows[k].tokens]

LEMMA SumExists ==
    ASSUME NEW rows
    PROVE  \A n \in Nat : \E sum : SumOf(rows, n, sum)
<1> DEFINE S == {n \in Nat : \E sum : SumOf(rows, n, sum)}
<1>1. 0 \in S
  <2> DEFINE zero == [k \in 0 .. 0 |-> 0]
  <2>1. zero = [k \in 0 .. 0 |-> IF k = 0 THEN 0 ELSE zero[k - 1] + rows[k].tokens]
      OBVIOUS
  <2>2. QED
      BY <2>1 DEF SumOf
<1>2. ASSUME NEW n \in Nat, n \in S PROVE n + 1 \in S
  <2>1. PICK sum : sum = [k \in 0 .. n |-> IF k = 0 THEN 0 ELSE sum[k - 1] + rows[k].tokens]
      BY <1>2 DEF SumOf
  <2> DEFINE next == [k \in 0 .. n + 1 |-> IF k = n + 1 THEN sum[n] + rows[n + 1].tokens
                                                        ELSE sum[k]]
  <2>2. \A k \in 0 .. n : sum[k] = IF k = 0 THEN 0 ELSE sum[k - 1] + rows[k].tokens
      BY <2>1
  <2>3. \A k \in 0 .. n : next[k] = sum[k]
      OBVIOUS
  <2>4. next[n + 1] = next[n] + rows[n + 1].tokens
      OBVIOUS
  <2>5. next = [k \in 0 .. n + 1 |-> next[k]]
      OBVIOUS
  <2> HIDE DEF next
  <2>6. ASSUME NEW k \in 0 .. n + 1
        PROVE  next[k] = IF k = 0 THEN 0 ELSE next[k - 1] + rows[k].tokens
    <3>1. CASE k = n + 1
        BY <2>4, <3>1
    <3>2. CASE k \in 0 .. n
      <4>1. k # 0 => k - 1 \in 0 .. n
          BY <3>2
      <4>2. QED
          BY <2>2, <2>3, <3>2, <4>1
    <3>3. QED
        BY <3>1, <3>2
  <2>7. next = [k \in 0 .. n + 1 |-> IF k = 0 THEN 0 ELSE next[k - 1] + rows[k].tokens]
      BY <2>5, <2>6
  <2>8. QED
      BY <2>7 DEF SumOf
<1> HIDE DEF S
<1>3. \A n \in Nat : n \in S
    BY <1>1, <1>2, Induction
<1>4. QED
    BY <1>3 DEF S

\* Rows that each account for a prompt account for as many as they are.
LEMMA TokensCoverRows ==
    ASSUME NEW rows \in Seq(AuditRows), Charged(rows)
    PROVE  Tokens(rows) >= Len(rows)
<1> DEFINE sum == CHOOSE f : f = [k \in 0 .. Len(rows) |->
                                     IF k = 0 THEN 0 ELSE f[k - 1] + rows[k].tokens]
<1>1. Tokens(rows) = sum[Len(rows)] /\ Len(rows) \in Nat
    BY DEF Tokens
<1>2. \E f : f = [k \in 0 .. Len(rows) |-> IF k = 0 THEN 0 ELSE f[k - 1] + rows[k].tokens]
    BY <1>1, SumExists DEF SumOf
<1>3. sum = [k \in 0 .. Len(rows) |-> IF k = 0 THEN 0 ELSE sum[k - 1] + rows[k].tokens]
    BY <1>2
<1> HIDE DEF sum
<1>4. \A k \in 0 .. Len(rows) : sum[k] = IF k = 0 THEN 0 ELSE sum[k - 1] + rows[k].tokens
    BY <1>3
<1> DEFINE S == {n \in Nat : n <= Len(rows) => sum[n] \in Nat /\ sum[n] >= n}
<1>5. 0 \in S
    BY <1>1, <1>4
<1>6. ASSUME NEW n \in Nat, n \in S PROVE n + 1 \in S
  <2>1. SUFFICES ASSUME n + 1 <= Len(rows) PROVE sum[n + 1] \in Nat /\ sum[n + 1] >= n + 1
      OBVIOUS
  <2>2. sum[n] \in Nat /\ sum[n] >= n
      BY <1>1, <1>6, <2>1
  <2>3. sum[n + 1] = sum[n] + rows[n + 1].tokens
      BY <1>1, <1>4, <2>1
  <2>4. n + 1 \in 1 .. Len(rows) /\ rows[n + 1] \in AuditRows
      BY <1>1, <2>1
  <2>5. rows[n + 1].tokens \in Nat /\ rows[n + 1].tokens >= 1
      BY <2>4 DEF Charged, AuditRows
  <2>6. QED
      BY <2>2, <2>3, <2>5
<1> HIDE DEF S
<1>7. Len(rows) \in S
    BY <1>1, <1>5, <1>6, Induction
<1>8. QED
    BY <1>1, <1>7 DEF S

-----------------------------------------------------------------------------
(* A run that moves *)

LEMMA Moves ==
    ASSUME RunInv, NEW r \in Requests, NEW next \in Runs, NEW rows \in Seq(AuditRows),
           runs' = [runs EXCEPT ![r] = next], trail' = [trail EXCEPT ![r] = rows],
           UNCHANGED <<env, fixture>>, Fits(next, rows, env.cap), Charges(next, rows)
    PROVE  RunInv'
<1>1. /\ runs'[r] = next /\ \A q \in Requests \ {r} : runs'[q] = runs[q]
      /\ trail'[r] = rows /\ \A q \in Requests \ {r} : trail'[q] = trail[q]
    BY DEF RunInv, TypeOK
<1>2. TypeOK'
    BY DEF RunInv, TypeOK
<1>3. \A q \in Requests : Fits(runs'[q], trail'[q], env.cap) /\ Charges(runs'[q], trail'[q])
    BY <1>1 DEF RunInv
<1>4. QED
    BY <1>2, <1>3 DEF RunInv

\* A step that inserts no row.
LEMMA MovesAlone ==
    ASSUME RunInv, NEW r \in Requests, NEW next \in Runs, runs' = [runs EXCEPT ![r] = next],
           UNCHANGED <<env, fixture, trail>>, Fits(next, trail[r], env.cap), Charges(next, trail[r])
    PROVE  RunInv'
<1>1. trail[r] \in Seq(AuditRows) /\ trail' = [trail EXCEPT ![r] = trail[r]]
    BY DEF RunInv, TypeOK
<1>2. QED
    BY <1>1, Moves

LEMMA EndedRun ==
    ASSUME NEW run \in Runs, NEW result \in Kinds \cup {"thrown"}
    PROVE  /\ Ended(run, result) \in Runs
           /\ Ended(run, result).at = "done" /\ Ended(run, result).result = result
           /\ Ended(run, result).calls = run.calls
BY DEF Ended, Runs

\* A run that is given up keeps the repairs it has recorded.
LEMMA GivenUp ==
    ASSUME NEW run \in Runs, NEW rows \in Seq(AuditRows), NEW cap \in Nat,
           Repairs(rows), Len(rows) <= cap, Charged(rows), NEW result \in {"error", "thrown"}
    PROVE  /\ Ended(run, result) \in Runs /\ Fits(Ended(run, result), rows, cap)
           /\ Charges(Ended(run, result), rows)
<1> DEFINE next == Ended(run, result)
<1>1. result \in Kinds \cup {"thrown"}
    BY DEF Kinds
<1>2. next \in Runs /\ next.at = "done" /\ next.result = result
    BY <1>1, EndedRun
<1> HIDE DEF next
<1>3. Fits(next, rows, cap) /\ Charges(next, rows)
    BY <1>2 DEF Fits, Charges
<1>4. QED
    BY <1>2, <1>3 DEF next

-----------------------------------------------------------------------------
(* The adapters *)

LEMMA MockAnswers ==
    ASSUME TypeOK, NEW attempt \in 1 .. MaxCalls
    PROVE  MockGenerate(attempt).kind \in Kinds
<1>1. fixture.switch # None => fixture.switch \in Kinds
    BY DEF TypeOK, Fixtures
<1>2. QED
    BY <1>1 DEF MockGenerate, Outcome, Answer, Kinds

LEMMA OpenAiAnswers ==
    ASSUME NEW response \in Responses
    PROVE  OpenAiGenerate(response).kind \in Kinds
BY DEF OpenAiGenerate, Outcome, Answer, Kinds, Responses

-----------------------------------------------------------------------------
(* What run makes of an answer *)

\* A run to which the adapter has just answered.
Answered(run, rows, cap) ==
    /\ run \in Runs /\ rows \in Seq(AuditRows) /\ cap \in Nat
    /\ Repairs(rows) /\ Len(rows) <= cap /\ Charged(rows)
    /\ run.attempts = Len(rows) /\ run.calls = Len(rows) + 1 /\ run.result = None

\* The last row, of a usable answer or of a run whose repairs are used up.
LEMMA ClosingFits ==
    ASSUME NEW run, NEW rows, NEW cap, Answered(run, rows, cap), NEW row \in AuditRows,
           NEW kind \in Kinds, row.attempts = run.attempts, row.tokens >= 1,
           row.outcome = IF kind = "schema_invalid" THEN "schema_repair" ELSE kind,
           NEW next, next = [run EXCEPT !.at = "record", !.row = row, !.result = kind]
    PROVE  next \in Runs /\ Fits(next, rows, cap) /\ Charges(next, rows)
<1>1. /\ next \in Runs /\ next.at = "record" /\ next.row = row /\ next.result = kind
      /\ next.attempts = run.attempts /\ next.calls = run.calls
    BY DEF Answered, Runs
<1>2. kind # None /\ kind # "thrown" /\ row # None
    BY NoneAssumption DEF Kinds
<1>3. Closes(next.row, next, Len(rows))
    BY <1>1 DEF Closes, Answered
<1>4. Fits(next, rows, cap) /\ Charges(next, rows)
    BY <1>1, <1>2, <1>3 DEF Fits, Charges, Answered
<1>5. QED
    BY <1>1, <1>4

LEMMA SettleFits ==
    ASSUME NEW run, NEW rows, NEW cap, Answered(run, rows, cap),
           NEW kind \in Kinds \ {"schema_invalid"}
    PROVE  /\ Settle(run, kind) \in Runs /\ Fits(Settle(run, kind), rows, cap)
           /\ Charges(Settle(run, kind), rows)
<1> DEFINE row == Row(kind, run.attempts, kind # "succeeded", 1)
<1>1. run.attempts \in Nat
    BY DEF Answered, Runs
<1>2. row \in AuditRows /\ row.outcome = kind /\ row.attempts = run.attempts /\ row.tokens >= 1
    BY <1>1 DEF Row, AuditRows
<1>3. Settle(run, kind) = [run EXCEPT !.at = "record", !.row = row, !.result = kind]
    BY DEF Settle
<1> HIDE DEF row
<1>4. QED
    BY <1>2, <1>3, ClosingFits

LEMMA CompleteFits ==
    ASSUME NEW run, NEW rows, NEW cap, Answered(run, rows, cap)
    PROVE  /\ CompleteSchemaFailure(run) \in Runs /\ Fits(CompleteSchemaFailure(run), rows, cap)
           /\ Charges(CompleteSchemaFailure(run), rows)
<1> DEFINE row == Row("schema_repair", run.attempts, TRUE, 1)
<1>1. run.attempts \in Nat
    BY DEF Answered, Runs
<1>2. /\ row \in AuditRows /\ row.outcome = "schema_repair" /\ row.attempts = run.attempts
      /\ row.tokens >= 1
    BY <1>1 DEF Row, AuditRows
<1>3. /\ "schema_invalid" \in Kinds
      /\ CompleteSchemaFailure(run) =
           [run EXCEPT !.at = "record", !.row = row, !.result = "schema_invalid"]
    BY DEF CompleteSchemaFailure, Kinds
<1> HIDE DEF row
<1>4. QED
    BY <1>2, <1>3, ClosingFits

\* A repair is counted before its row is made, and only below the cap.
LEMMA RepairFits ==
    ASSUME NEW run, NEW rows, Answered(run, rows, env.cap), NEW outcome
    PROVE  /\ Repair(run, outcome) \in Runs /\ Fits(Repair(run, outcome), rows, env.cap)
           /\ Charges(Repair(run, outcome), rows)
<1>1. CASE run.attempts >= env.cap
    BY <1>1, CompleteFits DEF Repair
<1>2. CASE ~(run.attempts >= env.cap)
  <2> DEFINE n == run.attempts + 1
             tokens == IF outcome.text = "mismatch" THEN 1 ELSE n
             row == Row("schema_repair", n, TRUE, tokens)
             next == [run EXCEPT !.at = "record", !.attempts = n, !.row = row]
  <2>1. Repair(run, outcome) = next
      BY <1>2 DEF Repair
  <2>2. n \in Nat /\ tokens \in Nat /\ tokens >= 1 /\ n <= env.cap /\ n = Len(rows) + 1 /\ run \in Runs
      BY <1>2 DEF Answered, Runs
  <2> HIDE DEF n, tokens
  <2>3. row \in AuditRows /\ row.outcome = "schema_repair" /\ row.attempts = n /\ row.tokens >= 1
      BY <2>2 DEF Row, AuditRows
  <2> HIDE DEF row
  <2>4. /\ next \in Runs /\ next.at = "record" /\ next.row = row /\ next.result = run.result
        /\ next.attempts = n /\ next.calls = run.calls
      BY <2>2, <2>3 DEF Runs
  <2> HIDE DEF next
  <2>5. Fits(next, rows, env.cap) /\ Charges(next, rows)
      BY <2>2, <2>3, <2>4, NoneAssumption DEF Fits, Charges, Answered
  <2>6. QED
      BY <2>1, <2>4, <2>5
<1>3. QED
    BY <1>1, <1>2

LEMMA ReceiveFits ==
    ASSUME NEW run, NEW rows, Answered(run, rows, env.cap), NEW outcome, outcome.kind \in Kinds
    PROVE  /\ Receive(run, outcome) \in Runs /\ Fits(Receive(run, outcome), rows, env.cap)
           /\ Charges(Receive(run, outcome), rows)
<1>1. CASE Unusable(outcome)
    BY <1>1, RepairFits DEF Receive
<1>2. CASE ~Unusable(outcome)
  <2>1. outcome.kind \in Kinds \ {"schema_invalid"}
      BY <1>2 DEF Unusable
  <2>2. QED
      BY <1>2, <2>1, SettleFits DEF Receive
<1>3. QED
    BY <1>1, <1>2

-----------------------------------------------------------------------------
(* The steps *)

LEMMA RunHas ==
    ASSUME RunInv, NEW r \in Requests
    PROVE  /\ runs[r] \in Runs /\ trail[r] \in Seq(AuditRows) /\ env.cap \in Nat
           /\ Fits(runs[r], trail[r], env.cap) /\ Charges(runs[r], trail[r]) /\ MaxCalls \in Nat
BY GatewayAssumption DEF RunInv, TypeOK

LEMMA BeginStep ==
    ASSUME RunInv, NEW r \in Requests, Begin(r)
    PROVE  RunInv'
<1> DEFINE run == runs[r]
<1>1. /\ run \in Runs /\ trail[r] = << >> /\ env.cap \in Nat
      /\ run.at = "idle" /\ run.attempts = 0 /\ run.calls = 0 /\ run.result = None
    BY RunHas DEF Begin, Fits
<1>2. /\ Repairs(trail[r]) /\ Len(trail[r]) = 0 /\ trail[r] \in Seq(AuditRows)
      /\ Charged(trail[r])
    BY <1>1 DEF Repairs, Charged
<1>3. CASE runs' = [runs EXCEPT ![r].at = "call"]
  <2> DEFINE next == [run EXCEPT !.at = "call"]
  <2>1. runs' = [runs EXCEPT ![r] = next]
      BY <1>3 DEF RunInv, TypeOK
  <2>2. /\ next \in Runs /\ next.at = "call" /\ next.attempts = 0 /\ next.calls = 0
        /\ next.result = None
      BY <1>1 DEF Runs
  <2> HIDE DEF next
  <2>3. Fits(next, trail[r], env.cap) /\ Charges(next, trail[r])
      BY <1>1, <1>2, <2>2 DEF Fits, Charges
  <2>4. QED
      BY <2>1, <2>2, <2>3, MovesAlone DEF Begin
<1>4. CASE runs' = [runs EXCEPT ![r] = Ended(run, "error")]
  <2> DEFINE rows == trail[r]
  <2>1. rows \in Seq(AuditRows) /\ Repairs(rows) /\ Len(rows) <= env.cap /\ Charged(rows)
      BY <1>1, <1>2
  <2> HIDE DEF run, rows
  <2>2. /\ Ended(run, "error") \in Runs /\ Fits(Ended(run, "error"), rows, env.cap)
        /\ Charges(Ended(run, "error"), rows)
      BY <1>1, <2>1, GivenUp
  <2>3. QED
      BY <1>4, <2>2, MovesAlone DEF Begin, run, rows
<1>5. QED
    BY <1>3, <1>4 DEF Begin

LEMMA GenerateStep ==
    ASSUME RunInv, NEW r \in Requests, Generate(r)
    PROVE  RunInv'
<1> DEFINE run == [runs[r] EXCEPT !.calls = runs[r].calls + 1]
<1>1. /\ runs[r] \in Runs /\ trail[r] \in Seq(AuditRows) /\ env.cap \in Nat /\ MaxCalls \in Nat
      /\ runs[r].at = "call" /\ runs[r].calls < MaxCalls
      /\ Fits(runs[r], trail[r], env.cap) /\ Charged(trail[r])
    BY RunHas DEF Generate, Charges
<1>2. /\ run \in Runs /\ run.calls = runs[r].calls + 1 /\ run.attempts = runs[r].attempts
      /\ run.result = runs[r].result
    BY <1>1 DEF Runs
<1>3. \/ runs' = [runs EXCEPT ![r] = Receive(run, MockGenerate(run.attempts + 1))]
      \/ \E response \in Responses :
            runs' = [runs EXCEPT ![r] = Receive(run, OpenAiGenerate(response))]
    BY DEF Generate
<1> HIDE DEF run
<1>4. Answered(run, trail[r], env.cap)
    BY <1>1, <1>2 DEF Answered, Fits
<1>5. ASSUME NEW outcome, outcome.kind \in Kinds, runs' = [runs EXCEPT ![r] = Receive(run, outcome)]
      PROVE  RunInv'
    BY <1>4, <1>5, ReceiveFits, MovesAlone DEF Generate
<1>6. run.attempts + 1 \in 1 .. MaxCalls
    BY <1>1, <1>2 DEF Fits
<1>7. QED
    BY <1>3, <1>5, <1>6, MockAnswers, OpenAiAnswers DEF RunInv

\* The run ends without the row it was about to earn or insert.
LEMMA FailureStep ==
    ASSUME RunInv, NEW r \in Requests, Raise(r) \/ RecordFails(r)
    PROVE  RunInv'
<1>1. /\ runs[r] \in Runs /\ trail[r] \in Seq(AuditRows) /\ env.cap \in Nat
      /\ Fits(runs[r], trail[r], env.cap) /\ Charged(trail[r]) /\ MaxCalls \in Nat
      /\ runs[r].at \in {"call", "record"}
    BY RunHas DEF Raise, RecordFails, Charges
<1>2. Repairs(trail[r]) /\ Len(trail[r]) <= env.cap
    BY <1>1 DEF Fits
<1>3. CASE Raise(r)
  <2> DEFINE run == [runs[r] EXCEPT !.calls = runs[r].calls + 1]
  <2>1. runs' = [runs EXCEPT ![r] = Ended(run, "error")] /\ runs[r].calls < MaxCalls
      BY <1>3 DEF Raise
  <2>2. run \in Runs
      BY <1>1, <2>1 DEF Runs
  <2> HIDE DEF run
  <2>3. QED
      BY <1>1, <1>2, <1>3, <2>1, <2>2, GivenUp, MovesAlone DEF Raise
<1>4. CASE RecordFails(r)
    BY <1>1, <1>2, <1>4, GivenUp, MovesAlone DEF RecordFails
<1>5. QED
    BY <1>3, <1>4

\* A row is inserted behind the others.
LEMMA Appended ==
    ASSUME NEW S, NEW old \in Seq(S), NEW x \in S
    PROVE  /\ Append(old, x) \in Seq(S) /\ Len(Append(old, x)) = Len(old) + 1
           /\ Append(old, x) # << >> /\ Append(old, x)[Len(Append(old, x))] = x
           /\ \A k \in 1 .. Len(old) : Append(old, x)[k] = old[k]
           /\ Len(old) \in Nat
<1>1. /\ Append(old, x) \in Seq(S) /\ Len(Append(old, x)) = Len(old) + 1 /\ Len(old) \in Nat
      /\ Append(old, x)[Len(old) + 1] = x
      /\ \A k \in 1 .. Len(old) : Append(old, x)[k] = old[k]
    OBVIOUS
<1>2. Append(old, x) # << >>
    BY <1>1
<1>3. QED
    BY <1>1, <1>2

LEMMA RecordStep ==
    ASSUME RunInv, NEW r \in Requests, Record(r)
    PROVE  RunInv'
<1> DEFINE run == runs[r]
           old == trail[r]
           rows == Append(old, run.row)
           next == Recorded(run)
<1>1. /\ run \in Runs /\ old \in Seq(AuditRows) /\ env.cap \in Nat
      /\ Fits(run, old, env.cap) /\ run.at = "record" /\ Charged(old) /\ run.row.tokens >= 1
    BY RunHas DEF Record, Charges
<1>2. /\ Repairs(old) /\ Len(old) <= env.cap /\ run.row # None /\ run.calls = Len(old) + 1
      /\ run.row \in AuditRows /\ run.result # "thrown"
    BY <1>1 DEF Fits, Runs
<1>3. /\ rows \in Seq(AuditRows) /\ Len(rows) = Len(old) + 1 /\ rows # << >>
      /\ rows[Len(rows)] = run.row /\ \A k \in 1 .. Len(old) : rows[k] = old[k]
      /\ Len(old) \in Nat
    BY <1>1, <1>2, Appended
<1>4. runs' = [runs EXCEPT ![r] = next] /\ trail' = [trail EXCEPT ![r] = rows]
      /\ UNCHANGED <<env, fixture>>
    BY DEF Record
<1> HIDE DEF rows
<1>5. Charged(rows)
    BY <1>1, <1>3 DEF Charged
<1>6. CASE run.result = None
  <2>1. next = [run EXCEPT !.at = "call", !.row = None]
      BY <1>6 DEF Recorded
  <2>2. /\ next \in Runs /\ next.at = "call" /\ next.result = None
        /\ next.attempts = run.attempts /\ next.calls = run.calls
      BY <1>1, <1>6, <2>1 DEF Runs
  <2> HIDE DEF next
  <2>3. /\ run.attempts = Len(rows) /\ run.attempts <= env.cap
        /\ run.row.outcome = "schema_repair" /\ run.row.attempts = Len(rows)
      BY <1>1, <1>3, <1>6 DEF Fits
  <2>4. Repairs(rows)
      BY <1>2, <1>3, <2>3 DEF Repairs
  <2>5. Fits(next, rows, env.cap) /\ Charges(next, rows)
      BY <1>2, <1>3, <1>5, <2>2, <2>3, <2>4 DEF Fits, Charges
  <2>6. QED
      BY <1>3, <1>4, <2>2, <2>5, Moves
<1>7. CASE run.result # None
  <2>1. next = Ended(run, run.result) /\ run.result \in Kinds
      BY <1>1, <1>2, <1>7 DEF Recorded, Runs
  <2>2. /\ next \in Runs /\ next.at = "done" /\ next.result = run.result
        /\ next.calls = run.calls
      BY <1>1, <2>1, EndedRun
  <2> HIDE DEF next
  <2>3. Closes(run.row, run, Len(old))
      BY <1>1, <1>7 DEF Fits
  <2>4. Closes(rows[Len(rows)], next, Len(rows) - 1)
      BY <1>3, <2>2, <2>3 DEF Closes
  <2>5. \A k \in 1 .. Len(rows) - 1 : rows[k].outcome = "schema_repair" /\ rows[k].attempts = k
      BY <1>2, <1>3 DEF Repairs
  <2>6. Complete(next, rows, env.cap)
      BY <1>1, <1>2, <1>3, <2>2, <2>4, <2>5 DEF Complete
  <2>7. Fits(next, rows, env.cap) /\ Charges(next, rows)
      BY <1>5, <2>2, <2>6 DEF Fits, Charges
  <2>8. QED
      BY <1>3, <1>4, <2>2, <2>7, Moves
<1>8. QED
    BY <1>6, <1>7

LEMMA RunInit == Init => RunInv
<1> SUFFICES ASSUME Init PROVE RunInv
    OBVIOUS
<1>1. PICK raw \in RawEnv : Admitted(raw) /\ env = ParseAiEnv(raw)
    BY DEF Init
<1>2. env \in [driver : Drivers, cap : 0 .. 5]
  <2>1. (IF raw.driver = None THEN "mock" ELSE raw.driver) \in Drivers
      BY <1>1 DEF Admitted, RawEnv, Drivers
  <2>2. (IF raw.cap = None THEN 1 ELSE raw.cap) \in 0 .. 5
      BY <1>1 DEF Admitted
  <2>3. QED
      BY <1>1, <2>1, <2>2 DEF ParseAiEnv
<1>3. NoFixture \in Fixtures
    BY DEF NoFixture, Fixtures
<1>4. Idle \in Runs
    BY GatewayAssumption DEF Idle, Runs
<1>5. TypeOK
    BY <1>2, <1>3, <1>4 DEF Init, TypeOK
<1>6. \A r \in Requests : Fits(runs[r], trail[r], env.cap) /\ Charges(runs[r], trail[r])
    BY DEF Init, Idle, Fits, Charges, Charged
<1>7. QED
    BY <1>5, <1>6 DEF RunInv

LEMMA RunStep == RunInv /\ [Next]_vars => RunInv'
<1> SUFFICES ASSUME RunInv, [Next]_vars PROVE RunInv'
    OBVIOUS
<1>1. CASE UNCHANGED vars
    BY <1>1 DEF vars, RunInv, TypeOK
<1>2. QED
    BY <1>1, BeginStep, GenerateStep, FailureStep, RecordStep DEF Next, Work

\* Environment, fixture, runs and audit rows keep their types for any number of
\* runs, whatever providers answer.
THEOREM TypeCorrect == Spec => []TypeOK
<1>1. RunInv => TypeOK
    BY DEF RunInv
<1>2. QED
    BY <1>1, RunInit, RunStep, PTL DEF Spec

\* The audit rows tell how every run went: under any cap, however parse failures,
\* mismatches, exceptions and failed inserts follow each other.
THEOREM RowsTellTheRun == Spec => []TrailTellsTheRun
<1>1. ASSUME RunInv, NEW r \in Requests
      PROVE  /\ Told(r) \/ RepairsUpTo(r, Len(trail[r]))
             /\ runs[r].at = "done" /\ runs[r].result \notin {"error", "thrown"} => Told(r)
             /\ Len(trail[r]) <= env.cap + 1
             /\ Told(r) => Len(trail[r]) = runs[r].calls
  <2>1. /\ runs[r] \in Runs /\ trail[r] \in Seq(AuditRows) /\ env.cap \in Nat
        /\ Fits(runs[r], trail[r], env.cap)
      BY <1>1, RunHas
  <2>2. Len(trail[r]) \in Nat /\ (trail[r] # << >> => Len(trail[r]) >= 1)
      BY <2>1
  <2>3. CASE Repairs(trail[r]) /\ Len(trail[r]) <= env.cap /\
             (runs[r].at = "done" => runs[r].result \in {"error", "thrown"})
    <3>1. RepairsUpTo(r, Len(trail[r]))
        BY <2>3 DEF Repairs, RepairsUpTo
    <3>2. ~Told(r)
        BY <2>2, <2>3 DEF Told, Repairs, Last
    <3>3. QED
        BY <2>1, <2>2, <2>3, <3>1, <3>2
  <2>4. CASE runs[r].at = "done" /\ Complete(runs[r], trail[r], env.cap)
    <3>1. Told(r)
        BY <2>4 DEF Complete, Closes, Told, RepairsUpTo, Last
    <3>2. QED
        BY <2>4, <3>1 DEF Complete
  <2>5. runs[r].at = "idle" => Repairs(trail[r]) /\ Len(trail[r]) <= env.cap
      BY <2>1 DEF Fits, Repairs
  <2>6. QED
      BY <2>1, <2>3, <2>4, <2>5 DEF Fits, Runs
<1>2. RunInv => TrailTellsTheRun
    BY <1>1 DEF TrailTellsTheRun
<1>3. QED
    BY <1>2, RunInit, RunStep, PTL DEF Spec

\* The rows of a run that returned an answer account for every prompt it sent,
\* however many repairs of either kind there were: every row accounts for one at
\* least, whichever rule counted it, and there is a row for every call.
THEOREM PromptsAccounted == Spec => []TokensCoverCalls
<1>1. ASSUME RunInv, NEW r \in Requests, runs[r].at = "done",
             runs[r].result \notin {"error", "thrown"}
      PROVE  Tokens(trail[r]) >= runs[r].calls
  <2>1. /\ trail[r] \in Seq(AuditRows) /\ Fits(runs[r], trail[r], env.cap)
        /\ Charged(trail[r])
      BY <1>1, RunHas DEF Charges
  <2>2. Len(trail[r]) = runs[r].calls
      BY <1>1, <2>1 DEF Fits, Complete
  <2>3. QED
      BY <2>1, <2>2, TokensCoverRows
<1>2. RunInv => TokensCoverCalls
    BY <1>1 DEF TokensCoverCalls
<1>3. QED
    BY <1>2, RunInit, RunStep, PTL DEF Spec

-----------------------------------------------------------------------------
(* The repair loop stops *)

\* The awaits that a run has before it at most: two for each call that the cap
\* still allows, and the insert it waits for.
Left(run, cap) ==
    CASE run.at = "idle" -> 2 * (cap + 1) + 1
      [] run.at = "call" -> 2 * (cap + 1 - run.calls)
      [] run.at = "record" -> 2 * (cap + 1 - run.calls) + 1
      [] run.at = "done" -> 0

\* A run that ends from anywhere, and what is left where it stands.
LEMMA LeftByStep ==
    ASSUME NEW run \in Runs, NEW rows \in Seq(AuditRows), NEW cap \in Nat, Fits(run, rows, cap)
    PROVE  /\ run.at = "idle" => Left(run, cap) = 2 * cap + 3
           /\ run.at = "call" =>
                /\ Left(run, cap) = 2 * (cap + 1 - run.calls) /\ run.calls \in Nat
                /\ run.calls <= cap
           /\ run.at = "record" =>
                /\ Left(run, cap) = 2 * (cap + 1 - run.calls) + 1 /\ run.calls \in Nat
                /\ run.calls <= cap + 1
           /\ run.at = "done" => Left(run, cap) = 0
<1>1. Len(rows) \in Nat
    OBVIOUS
<1>2. run.at = "call" => run.calls = Len(rows) /\ Len(rows) <= cap
    BY DEF Fits
<1>3. run.at = "record" => run.calls = Len(rows) + 1 /\ Len(rows) <= cap
    BY DEF Fits
<1>4. QED
    BY <1>1, <1>2, <1>3 DEF Left

\* Whatever the adapter answered, a row is to be inserted before the next call.
LEMMA ReceivedIsRecorded ==
    ASSUME NEW run \in Runs, NEW outcome
    PROVE  Receive(run, outcome).at = "record" /\ Receive(run, outcome).calls = run.calls
<1>1. /\ Repair(run, outcome).at = "record" /\ Repair(run, outcome).calls = run.calls
    BY DEF Repair, CompleteSchemaFailure, Runs
<1>2. /\ Settle(run, outcome.kind).at = "record" /\ Settle(run, outcome.kind).calls = run.calls
    BY DEF Settle, Runs
<1>3. QED
    BY <1>1, <1>2 DEF Receive

\* What a step of r does to where r is and to its calls.
LEMMA StepForward ==
    ASSUME RunInv, NEW r \in Requests, Begin(r) \/ Work(r)
    PROVE  /\ \A q \in Requests \ {r} : runs'[q] = runs[q]
           /\ \/ runs[r].at # "done" /\ runs'[r].at = "done"
              \/ runs[r].at = "idle" /\ runs'[r].at = "call" /\ runs'[r].calls = 0
              \/ /\ runs[r].at = "call" /\ runs'[r].at = "record"
                 /\ runs'[r].calls = runs[r].calls + 1
              \/ /\ runs[r].at = "record" /\ runs'[r].at = "call"
                 /\ runs'[r].calls = runs[r].calls
<1>1. /\ runs \in [Requests -> Runs] /\ runs[r] \in Runs
      /\ Fits(runs[r], trail[r], env.cap) /\ MaxCalls \in Nat
    BY RunHas DEF RunInv, TypeOK
<1>2. CASE Begin(r)
  <2>1. runs[r].at = "idle" /\ runs[r].calls = 0
      BY <1>1, <1>2 DEF Begin, Fits
  <2>2. CASE runs' = [runs EXCEPT ![r].at = "call"]
      BY <1>1, <2>1, <2>2 DEF Runs
  <2>3. CASE runs' = [runs EXCEPT ![r] = Ended(runs[r], "error")]
      BY <1>1, <2>1, <2>3 DEF Ended, Runs
  <2>4. QED
      BY <1>2, <2>2, <2>3 DEF Begin
<1>3. CASE Generate(r)
  <2> DEFINE run == [runs[r] EXCEPT !.calls = runs[r].calls + 1]
  <2>1. /\ runs[r].at = "call" /\ runs[r].calls < MaxCalls
        /\ \E outcome : runs' = [runs EXCEPT ![r] = Receive(run, outcome)]
      BY <1>3 DEF Generate
  <2>2. run \in Runs /\ run.calls = runs[r].calls + 1
      BY <1>1, <2>1 DEF Runs
  <2> HIDE DEF run
  <2>3. PICK outcome : runs' = [runs EXCEPT ![r] = Receive(run, outcome)]
      BY <2>1
  <2>4. Receive(run, outcome).at = "record" /\ Receive(run, outcome).calls = run.calls
      BY <2>2, ReceivedIsRecorded
  <2>5. QED
      BY <1>1, <2>1, <2>2, <2>3, <2>4
<1>4. CASE Raise(r)
    BY <1>1, <1>4 DEF Raise, Ended, Runs
<1>5. CASE Record(r)
    BY <1>1, <1>5 DEF Record, Recorded, Ended, Runs
<1>6. CASE RecordFails(r)
    BY <1>1, <1>6 DEF RecordFails, Ended, Runs
<1>7. QED
    BY <1>2, <1>3, <1>4, <1>5, <1>6 DEF Work

\* Every step of a run lowers the number of awaits it has left, which is at most
\* 2 * cap + 3.
RunsOut ==
    \A r \in Requests :
        runs'[r] # runs[r] =>
            /\ Left(runs[r], env.cap) \in 1 .. 2 * env.cap + 3
            /\ Left(runs'[r], env.cap) \in 0 .. Left(runs[r], env.cap) - 1

\* The repair loop runs out, whatever the provider answers and whichever inserts
\* fail: a run takes a bounded number of steps, and it never stands at a call that
\* the cap does not allow.  What RunsEnd adds is that the steps are taken.
THEOREM RepairLoopRunsOut == Spec => [][RunsOut]_vars
<1>1. ASSUME RunInv, RunInv', Next PROVE RunsOut
  <2>1. PICK r \in Requests : Begin(r) \/ Work(r)
      BY <1>1 DEF Next
  <2>2. env' = env
      BY <2>1 DEF Begin, Work, Generate, Raise, Record, RecordFails
  <2>3. /\ runs[r] \in Runs /\ trail[r] \in Seq(AuditRows) /\ env.cap \in Nat
        /\ Fits(runs[r], trail[r], env.cap)
      BY <1>1, RunHas
  <2>4. /\ runs'[r] \in Runs /\ trail'[r] \in Seq(AuditRows)
        /\ Fits(runs'[r], trail'[r], env.cap)
      BY <1>1, <2>2 DEF RunInv, TypeOK
  <2>5. Left(runs[r], env.cap) \in 1 .. 2 * env.cap + 3
    <3>1. runs[r].at # "done" /\ runs[r].at \in {"idle", "call", "record", "done"}
        BY <1>1, <2>1, <2>3, StepForward DEF Runs
    <3>2. QED
        BY <2>3, <3>1, LeftByStep
  <2>6. Left(runs'[r], env.cap) \in 0 .. Left(runs[r], env.cap) - 1
    <3> DEFINE now == Left(runs[r], env.cap)
               next == Left(runs'[r], env.cap)
    <3>1. CASE runs'[r].at = "done"
      <4>1. next = 0 /\ now \in 1 .. 2 * env.cap + 3
          BY <2>3, <2>4, <2>5, <3>1, LeftByStep
      <4> HIDE DEF now, next
      <4>2. next \in 0 .. now - 1
          BY <4>1
      <4>3. QED
          BY <4>2 DEF now, next
    <3>2. CASE runs[r].at = "idle" /\ runs'[r].at = "call" /\ runs'[r].calls = 0
      <4>1. now = 2 * env.cap + 3 /\ next = 2 * (env.cap + 1)
          BY <2>3, <2>4, <3>2, LeftByStep
      <4>2. QED
          BY <2>3, <4>1
    <3>3. CASE /\ runs[r].at = "call" /\ runs'[r].at = "record"
               /\ runs'[r].calls = runs[r].calls + 1
      <4>1. /\ now = 2 * (env.cap + 1 - runs[r].calls) /\ runs[r].calls \in Nat
            /\ runs[r].calls <= env.cap
          BY <2>3, <3>3, LeftByStep
      <4>2. next = 2 * (env.cap + 1 - (runs[r].calls + 1)) + 1
          BY <2>3, <2>4, <3>3, LeftByStep
      <4> HIDE DEF now, next
      <4>3. next \in 0 .. now - 1
        <5>1. PICK calls, cap \in Nat :
                  calls = runs[r].calls /\ cap = env.cap /\ calls <= cap
            BY <2>3, <4>1
        <5>2. now = 2 * (cap + 1 - calls) /\ next = 2 * (cap + 1 - (calls + 1)) + 1
            BY <4>1, <4>2, <5>1
        <5>3. QED
            BY <5>1, <5>2
      <4>4. QED
          BY <4>3 DEF now, next
    <3>4. CASE /\ runs[r].at = "record" /\ runs'[r].at = "call"
               /\ runs'[r].calls = runs[r].calls
      <4>1. /\ now = 2 * (env.cap + 1 - runs[r].calls) + 1 /\ runs[r].calls \in Nat
            /\ next = 2 * (env.cap + 1 - runs[r].calls) /\ runs[r].calls <= env.cap
          BY <2>3, <2>4, <3>4, LeftByStep
      <4> HIDE DEF now, next
      <4>2. next \in 0 .. now - 1
        <5>1. PICK left \in Nat : left = env.cap + 1 - runs[r].calls
            BY <2>3, <4>1
        <5>2. QED
            BY <4>1, <5>1
      <4>3. QED
          BY <4>2 DEF now, next
    <3>5. QED
        BY <1>1, <2>1, <3>1, <3>2, <3>3, <3>4, StepForward
  <2>7. \A q \in Requests : runs'[q] # runs[q] => q = r
      BY <1>1, <2>1, StepForward
  <2>8. QED
      BY <2>5, <2>6, <2>7 DEF RunsOut
<1>2. RunInv /\ RunInv' /\ [Next]_vars => [RunsOut]_vars
    BY <1>1
<1>3. QED
    BY <1>2, RunInit, RunStep, PTL DEF Spec
=============================================================================
