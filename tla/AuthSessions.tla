---------------------------- MODULE AuthSessions ----------------------------
(***************************************************************************)
(* Sessions of accounts: application/AuthService.ts over                   *)
(* adapters/persistence/PostgresAuthStore.ts.                              *)
(*                                                                         *)
(* A call of the service is a list of statements, each awaited; between    *)
(* two of them the statements of other calls run.  What a call has read is *)
(* its own copy, and a save writes the whole copy back.  No call of this   *)
(* module runs its statements in one transaction, except requestRecovery,  *)
(* which is therefore one step.                                            *)
(*                                                                         *)
(* The clock is not modelled: a session or a token may be found to be past *)
(* its limit whenever it is looked at.                                     *)
(*                                                                         *)
(* Left out: the audit rows (their statement is a step, nothing reads them *)
(* back), the rate limit, registration, and of invitations all but what    *)
(* accepting one does to a membership that is there (see AuthEnrolment).   *)
(***************************************************************************)
EXTENDS Integers, Sequences

CONSTANTS
    Calls,           \* requests in flight
    Users, Workspaces, SessionIds, Tokens, Passwords,
    Enders,          \* the operations whose ended sessions are watched
    FirstPassword,   \* what every account starts with
    None,
    MaxVersion,      \* bound: an account of this version is saved no more
    MaxFaults        \* bound: statements that fail

ASSUME AuthAssumption ==
    /\ FirstPassword \in Passwords
    /\ Enders \subseteq {"logout", "login", "logoutAll", "suspend", "recover"}
    /\ MaxVersion \in Nat /\ MaxFaults \in Nat

VARIABLES
    accounts,        \* user -> its row
    memberships,     \* user, workspace -> state
    sessions,        \* session id -> its row, or None
    tokens,          \* recovery token -> its row, or None
    calls,           \* call -> the running request, or None
    faults,
    ended,           \* sessions that a finished call of Enders ended
    completions,     \* token -> recoveries that it completed
    opened,          \* session id -> the password its account had when it was issued
    overlapped,      \* accounts that two calls in flight at one time were to save
    raced            \* tokens that two recoveries in flight at one time came with

\* Nothing in the code reads these: they record what the properties speak of.
history == <<ended, completions, opened, overlapped, raced>>

vars == <<accounts, memberships, sessions, tokens, calls, faults, history>>

Versions == Nat \ {0}

Accounts == [password : Passwords, version : Versions]

SessionRows == [user : Users, workspace : Workspaces, version : Versions,
                revoked : BOOLEAN]

TokenRows == [user : Users, consumed : BOOLEAN]

\* The statements of each operation, in the order of the source.
Path == [
    context   |-> <<"getSession", "checkVersion", "checkMembership", "list">>,
    logout    |-> <<"getSession", "checkVersion", "checkMembership", "revoke", "audit">>,
    switch    |-> <<"getSession", "checkVersion", "checkMembership", "getTarget",
                    "saveSession", "audit">>,
    login     |-> <<"findUser", "firstWorkspace", "revokeAll", "issue", "audit">>,
    logoutAll |-> <<"getUser", "saveUser", "revokeAll", "audit">>,
    suspend   |-> <<"saveMembership", "getUser", "saveUser", "revokeAll", "audit">>,
    recover   |-> <<"getToken", "getUser", "saveUser", "consume", "revokeAll",
                    "firstWorkspace", "issue", "audit">>]

Operations == DOMAIN Path

\* They begin with requireSession.
SessionOperations == {"context", "logout", "switch"}

\* They save an account with the next session version.
Writers == {"logoutAll", "suspend", "recover"}

\* A request: its operation and inputs, the statement it is at, the rows it has
\* read, and what had ended when it started.
Requests ==
    [op : Operations, step : 1 .. 9, refused : BOOLEAN,
     user : Users \cup {None}, session : SessionIds \cup {None},
     workspace : Workspaces \cup {None}, token : Tokens \cup {None},
     password : Passwords \cup {None},
     account : Accounts \cup {None}, row : SessionRows \cup {None},
     existing : SUBSET SessionIds, wasEnded : BOOLEAN]

ASSUME NoneAssumption ==
    /\ None \notin Accounts /\ None \notin SessionRows /\ None \notin TokenRows
    /\ None \notin Requests /\ None \notin Tokens

\* Type invariant.
TypeOK ==
    /\ accounts \in [Users -> Accounts]
    /\ memberships \in [Users \X Workspaces -> {"active", "suspended"}]
    /\ sessions \in [SessionIds -> SessionRows \cup {None}]
    /\ tokens \in [Tokens -> TokenRows \cup {None}]
    /\ calls \in [Calls -> Requests \cup {None}]
    /\ faults \in 0 .. MaxFaults
    /\ ended \subseteq SessionIds
    /\ completions \in [Tokens -> Nat]
    /\ opened \in [SessionIds -> Passwords \cup {None}]
    /\ overlapped \subseteq Users /\ raced \subseteq Tokens

Init ==
    /\ accounts = [u \in Users |-> [password |-> FirstPassword, version |-> 1]]
    /\ memberships = [m \in Users \X Workspaces |-> "active"]
    /\ sessions = [s \in SessionIds |-> None]
    /\ tokens = [t \in Tokens |-> None]
    /\ calls = [c \in Calls |-> None]
    /\ faults = 0
    /\ ended = {}
    /\ completions = [t \in Tokens |-> 0]
    /\ opened = [s \in SessionIds |-> None]
    /\ overlapped = {} /\ raced = {}

-----------------------------------------------------------------------------
(* The life of a call *)

Running(c) == calls[c] # None

At(c, statement) ==
    /\ Running(c)
    /\ ~calls[c].refused
    /\ calls[c].step <= Len(Path[calls[c].op])
    /\ Path[calls[c].op][calls[c].step] = statement

\* The call goes on to its next statement, remembering what it read.
Continue(c, request) == calls' = [calls EXCEPT ![c] = [request EXCEPT !.step = @ + 1]]

\* The call answers its caller, with a result or an error.
Answer(c) == calls' = [calls EXCEPT ![c] = None]

SessionsOf(u) == {s \in SessionIds : sessions[s] # None /\ sessions[s].user = u}

\* What an operation will have ended when it answers.
Doomed(op, u) == IF op \in Enders THEN SessionsOf(u) ELSE {}

Request(op) ==
    [op |-> op, step |-> 1, refused |-> FALSE, user |-> None, session |-> None,
     workspace |-> None, token |-> None, password |-> None, account |-> None,
     row |-> None, existing |-> {}, wasEnded |-> FALSE]

Start(c, request) ==
    /\ ~Running(c)
    /\ calls' = [calls EXCEPT ![c] = request]
    /\ UNCHANGED <<accounts, memberships, sessions, tokens, faults, ended, completions, opened>>

\* The calls in flight that save the account of u.
Savers(u) == {d \in Calls : Running(d) /\ calls[d].op \in Writers /\ calls[d].user = u}

StartWriter(c, op, u, w, t, p) ==
    /\ accounts[u].version < MaxVersion
    /\ Start(c, [Request(op) EXCEPT !.user = u, !.workspace = w, !.token = t,
                                    !.password = p, !.existing = Doomed(op, u)])
    /\ overlapped' = IF Savers(u) = {} THEN overlapped ELSE overlapped \cup {u}
    /\ raced' = raced \cup
         {k \in Tokens : k = t /\ \E d \in Calls : Running(d) /\ calls[d].token = k}

StartSession(c, op, s, w) ==
    /\ sessions[s] # None
    /\ Start(c, [Request(op) EXCEPT !.session = s, !.workspace = w,
                                    !.wasEnded = s \in ended])
    /\ UNCHANGED <<overlapped, raced>>

Context(c, s) == StartSession(c, "context", s, None)

Logout(c, s) == StartSession(c, "logout", s, None)

SwitchWorkspace(c, s, w) == StartSession(c, "switch", s, w)

Login(c, u, p) ==
    /\ Start(c, [Request("login") EXCEPT !.user = u, !.password = p,
                                         !.existing = Doomed("login", u)])
    /\ UNCHANGED <<overlapped, raced>>

LogoutAll(c, u) == StartWriter(c, "logoutAll", u, None, None, None)

SuspendMembership(c, u, w) == StartWriter(c, "suspend", u, w, None, None)

CompleteRecovery(c, t, p) ==
    /\ tokens[t] # None
    /\ StartWriter(c, "recover", tokens[t].user, None, t, p)

\* requestRecovery saves token, audit row and outbox row in one transaction.
RequestRecovery(u, t) ==
    /\ tokens[t] = None
    /\ tokens' = [tokens EXCEPT ![t] = [user |-> u, consumed |-> FALSE]]
    /\ UNCHANGED <<accounts, memberships, sessions, calls, faults, history>>

\* consumeSchoolInvitation saves the membership of the invited account as active,
\* whatever it was; the account and its sessions it leaves alone.
SaveInvitedMembership(u, w) ==
    /\ memberships' = [memberships EXCEPT ![<<u, w>>] = "active"]
    /\ UNCHANGED <<accounts, sessions, tokens, calls, faults, history>>

-----------------------------------------------------------------------------
(* requireSession *)

\* A refused call revokes the session it was given before it answers.
Refuse(c) == calls' = [calls EXCEPT ![c].refused = TRUE, ![c].row = None]

GetSession(c) ==
    /\ At(c, "getSession")
    /\ LET s == calls[c].session IN
         IF sessions[s].revoked THEN Answer(c)
         ELSE \/ Continue(c, [calls[c] EXCEPT !.row = sessions[s]])
              \/ Refuse(c)          \* an idle or absolute limit has passed
    /\ UNCHANGED <<accounts, memberships, sessions, tokens, faults, history>>

\* Mutant of SameVersion: the version check is forgotten.
AnyVersion(row, account) == TRUE

\* A session counts as long as no operation has given its account a new version.
SameVersion(row, account) == row.version = account.version

CheckVersion(c) ==
    /\ At(c, "checkVersion")
    /\ IF SameVersion(calls[c].row, accounts[calls[c].row.user])
         THEN Continue(c, calls[c]) ELSE Refuse(c)
    /\ UNCHANGED <<accounts, memberships, sessions, tokens, faults, history>>

CheckMembership(c) ==
    /\ At(c, "checkMembership")
    /\ IF memberships[<<calls[c].row.user, calls[c].row.workspace>>] = "active"
         THEN Continue(c, calls[c]) ELSE Refuse(c)
    /\ UNCHANGED <<accounts, memberships, sessions, tokens, faults, history>>

\* requireSession has returned the session to the operation that asked for it.
Authorised(c) ==
    /\ Running(c)
    /\ calls[c].op \in SessionOperations
    /\ ~calls[c].refused
    /\ calls[c].step > 3

\* revokeSession, before requireSession throws.
RevokeRefused(c) ==
    /\ Running(c) /\ calls[c].refused
    /\ sessions' = [sessions EXCEPT ![calls[c].session].revoked = TRUE]
    /\ Answer(c)
    /\ UNCHANGED <<accounts, memberships, tokens, faults, history>>

-----------------------------------------------------------------------------
(* The statements of the session operations *)

\* currentContext answers from what it lists.
List(c) ==
    /\ At(c, "list")
    /\ Answer(c)
    /\ UNCHANGED <<accounts, memberships, sessions, tokens, faults, history>>

Revoke(c) ==
    /\ At(c, "revoke")
    /\ sessions' = [sessions EXCEPT ![calls[c].session].revoked = TRUE]
    /\ Continue(c, [calls[c] EXCEPT !.row = None])
    /\ UNCHANGED <<accounts, memberships, tokens, faults, history>>

GetTarget(c) ==
    /\ At(c, "getTarget")
    /\ IF memberships[<<calls[c].row.user, calls[c].workspace>>] = "active"
         THEN Continue(c, [calls[c] EXCEPT !.row.workspace = calls[c].workspace])
         ELSE Answer(c)
    /\ UNCHANGED <<accounts, memberships, sessions, tokens, faults, history>>

\* The whole row is written, as it was read.
SaveSession(c) ==
    /\ At(c, "saveSession")
    /\ sessions' = [sessions EXCEPT ![calls[c].session] = calls[c].row]
    /\ Continue(c, [calls[c] EXCEPT !.row = None])
    /\ UNCHANGED <<accounts, memberships, tokens, faults, history>>

-----------------------------------------------------------------------------
(* The statements of login and of the operations that save an account *)

FindUser(c) ==
    /\ At(c, "findUser")
    /\ LET u == calls[c].user IN
         IF accounts[u].password # calls[c].password THEN Answer(c)
         ELSE Continue(c, [calls[c] EXCEPT !.account = accounts[u], !.password = None])
    /\ UNCHANGED <<accounts, memberships, sessions, tokens, faults, history>>

\* The copy is changed as soon as it is read.
Bumped(account, password) ==
    [password |-> IF password = None THEN account.password ELSE password,
     version |-> account.version + 1]

GetUser(c) ==
    /\ At(c, "getUser")
    /\ Continue(c, [calls[c] EXCEPT !.account =
                         Bumped(accounts[calls[c].user], calls[c].password),
                       !.password = None])
    /\ UNCHANGED <<accounts, memberships, sessions, tokens, faults, history>>

\* saveUser updates every column of the row.
SaveUser(c) ==
    /\ At(c, "saveUser")
    /\ accounts' = [accounts EXCEPT ![calls[c].user] = calls[c].account]
    /\ Continue(c, calls[c])
    /\ UNCHANGED <<memberships, sessions, tokens, faults, history>>

RevokeAll(c) ==
    /\ At(c, "revokeAll")
    /\ sessions' = [s \in SessionIds |->
                      IF s \in SessionsOf(calls[c].user)
                        THEN [sessions[s] EXCEPT !.revoked = TRUE] ELSE sessions[s]]
    /\ Continue(c, calls[c])
    /\ UNCHANGED <<accounts, memberships, tokens, faults, history>>

\* Mutant of FirstWorkspace: an account without active membership is not refused.
FirstWorkspaceIfAny(c) ==
    /\ At(c, "firstWorkspace")
    /\ LET active == {w \in Workspaces : memberships[<<calls[c].user, w>>] = "active"} IN
         \/ active = {} /\ Continue(c, calls[c])
         \/ \E w \in active : Continue(c, [calls[c] EXCEPT !.workspace = w])
    /\ UNCHANGED <<accounts, memberships, sessions, tokens, faults, history>>

\* The query states no order: any active membership may come first.
FirstWorkspace(c) ==
    /\ At(c, "firstWorkspace")
    /\ LET active == {w \in Workspaces : memberships[<<calls[c].user, w>>] = "active"} IN
         \/ active = {} /\ Answer(c)
         \/ \E w \in active : Continue(c, [calls[c] EXCEPT !.workspace = w])
    /\ UNCHANGED <<accounts, memberships, sessions, tokens, faults, history>>

\* Mutant of IssueSession: the session is issued under the version the account has
\* by then.
IssueSessionAsOfNow(c) ==
    /\ At(c, "issue")
    /\ \E s \in SessionIds :
         /\ sessions[s] = None
         /\ sessions' = [sessions EXCEPT ![s] =
              [user |-> calls[c].user, workspace |-> calls[c].workspace,
               version |-> accounts[calls[c].user].version, revoked |-> FALSE]]
         /\ opened' = [opened EXCEPT ![s] = calls[c].account.password]
    /\ Continue(c, [calls[c] EXCEPT !.account = None, !.workspace = None])
    /\ UNCHANGED <<accounts, memberships, tokens, faults, ended, completions, overlapped, raced>>

\* The session carries the version of the account copy, however old that is.
IssueSession(c) ==
    /\ At(c, "issue")
    /\ \E s \in SessionIds :
         /\ sessions[s] = None
         /\ sessions' = [sessions EXCEPT ![s] =
              [user |-> calls[c].user, workspace |-> calls[c].workspace,
               version |-> calls[c].account.version, revoked |-> FALSE]]
         /\ opened' = [opened EXCEPT ![s] = calls[c].account.password]
    /\ Continue(c, [calls[c] EXCEPT !.account = None, !.workspace = None])
    /\ UNCHANGED <<accounts, memberships, tokens, faults, ended, completions, overlapped, raced>>

\* The row was read before, and exists.
SaveMembership(c) ==
    /\ At(c, "saveMembership")
    /\ memberships' =
         [memberships EXCEPT ![<<calls[c].user, calls[c].workspace>>] = "suspended"]
    /\ Continue(c, calls[c])
    /\ UNCHANGED <<accounts, sessions, tokens, faults, history>>

\* Mutant of GetToken: consumedAt is not looked at.
GetAnyToken(c) ==
    /\ At(c, "getToken")
    /\ Continue(c, calls[c]) \/ Answer(c)
    /\ UNCHANGED <<accounts, memberships, sessions, tokens, faults, history>>

GetToken(c) ==
    /\ At(c, "getToken")
    /\ \/ ~tokens[calls[c].token].consumed /\ Continue(c, calls[c])
       \/ Answer(c)                 \* consumed, or its limit has passed
    /\ UNCHANGED <<accounts, memberships, sessions, tokens, faults, history>>

\* consumeRecoveryToken does not look at the state it overwrites.
ConsumeToken(c) ==
    /\ At(c, "consume")
    /\ tokens' = [tokens EXCEPT ![calls[c].token].consumed = TRUE]
    /\ Continue(c, calls[c])
    /\ UNCHANGED <<accounts, memberships, sessions, faults, history>>

\* The audit row is the last statement: the call answers its caller.
Audit(c) ==
    /\ At(c, "audit")
    /\ Answer(c)
    /\ ended' = ended \cup calls[c].existing
         \cup (IF calls[c].op = "logout" /\ "logout" \in Enders
                 THEN {calls[c].session} ELSE {})
    /\ completions' = [t \in Tokens |->
         IF t = calls[c].token THEN completions[t] + 1 ELSE completions[t]]
    /\ UNCHANGED <<accounts, memberships, sessions, tokens, faults, opened, overlapped, raced>>

\* A statement fails: the call ends, what it has written stays.
Fault(c) ==
    /\ Running(c) /\ faults < MaxFaults
    /\ faults' = faults + 1
    /\ Answer(c)
    /\ UNCHANGED <<accounts, memberships, sessions, tokens, history>>

-----------------------------------------------------------------------------
Arrive(c) ==
    \/ \E s \in SessionIds : Context(c, s) \/ Logout(c, s)
    \/ \E s \in SessionIds, w \in Workspaces : SwitchWorkspace(c, s, w)
    \/ \E u \in Users, p \in Passwords : Login(c, u, p)
    \/ \E u \in Users : LogoutAll(c, u)
    \/ \E u \in Users, w \in Workspaces : SuspendMembership(c, u, w)
    \/ \E t \in Tokens, p \in Passwords : CompleteRecovery(c, t, p)

Statement(c) ==
    \/ GetSession(c) \/ CheckVersion(c) \/ CheckMembership(c) \/ RevokeRefused(c)
    \/ List(c) \/ Revoke(c) \/ GetTarget(c) \/ SaveSession(c)
    \/ FindUser(c) \/ GetUser(c) \/ SaveUser(c) \/ RevokeAll(c)
    \/ FirstWorkspace(c) \/ IssueSession(c)
    \/ SaveMembership(c)
    \/ GetToken(c) \/ ConsumeToken(c) \/ Audit(c)

Next ==
    \/ \E c \in Calls : Arrive(c) \/ Statement(c) \/ Fault(c)
    \/ \E u \in Users, t \in Tokens : RequestRecovery(u, t)
    \/ \E u \in Users, w \in Workspaces : SaveInvitedMembership(u, w)

Spec == Init /\ [][Next]_vars

-----------------------------------------------------------------------------
(* Safety properties *)

\* Once an operation of Enders has answered, no later request gets in with a
\* session it ended: one that existed when it began, or the one it was given.
\* A switch of workspace in flight may write a revoked session back as not
\* revoked, and an invitation accepted meanwhile makes a suspended membership
\* active again; for the operations that save the account, the version check of
\* requireSession keeps the session out all the same.  Two calls that save one
\* account at one time may take a version back, so this speaks of the accounts
\* that no two calls were saving at one time.
EndedStaysOut ==
    \A c \in Calls :
      Authorised(c) /\ sessions[calls[c].session].user \notin overlapped => ~calls[c].wasEnded

\* A session that requireSession's version check accepts, revoked or not, was
\* issued under the password its account has now: the version a recovery saves
\* with the new password shuts out every session of the old one, also that of a
\* login which had checked the old password and issues its session afterwards,
\* and also when the recovery fails before it revokes anything.  Again for
\* accounts that no two calls were saving at one time.
NoSessionOfOldPassword ==
    \A s \in SessionIds :
      LET row == sessions[s] IN
        row # None /\ row.user \notin overlapped /\ SameVersion(row, accounts[row.user])
          => opened[s] = accounts[row.user].password

\* A recovery token completes one recovery, whatever statement failed before and
\* whatever else runs.  The check of the token and its consumption are separate
\* statements, and two overlapping recoveries with one token both succeed: this
\* speaks of the tokens that no two recoveries came with at one time.
TokenCompletesOnce == \A t \in Tokens \ raced : completions[t] <= 1
=============================================================================
