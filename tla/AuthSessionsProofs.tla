------------------------- MODULE AuthSessionsProofs -------------------------
(***************************************************************************)
(* Theorems about AuthSessions, for any number of requests, accounts,      *)
(* sessions, tokens and failing statements, however they overlap: types;   *)
(* that ended sessions and sessions of an old password stay out, of        *)
(* accounts that no two calls were to save at one time; and that a token   *)
(* which no two recoveries came with at one time completes one recovery.   *)
(***************************************************************************)
EXTENDS AuthSessions, TLAPS

USE DEF history

-----------------------------------------------------------------------------
(* The statements *)

\* Where a statement stands in the path of an operation.
Stands(st, op, step) ==
    /\ st = "getSession" => op \in SessionOperations /\ step = 1
    /\ st = "checkVersion" => op \in SessionOperations /\ step = 2
    /\ st = "checkMembership" => op \in SessionOperations /\ step = 3
    /\ st = "list" => op = "context" /\ step = 4
    /\ st = "revoke" => op = "logout" /\ step = 4
    /\ st = "getTarget" => op = "switch" /\ step = 4
    /\ st = "saveSession" => op = "switch" /\ step = 5
    /\ st = "findUser" => op = "login" /\ step = 1
    /\ st = "firstWorkspace" => <<op, step>> \in {<<"login", 2>>, <<"recover", 6>>}
    /\ st = "revokeAll" =>
           <<op, step>> \in {<<"login", 3>>, <<"logoutAll", 3>>, <<"suspend", 4>>, <<"recover", 5>>}
    /\ st = "issue" => <<op, step>> \in {<<"login", 4>>, <<"recover", 7>>}
    /\ st = "getUser" => <<op, step>> \in {<<"logoutAll", 1>>, <<"suspend", 2>>, <<"recover", 2>>}
    /\ st = "saveUser" => <<op, step>> \in {<<"logoutAll", 2>>, <<"suspend", 3>>, <<"recover", 3>>}
    /\ st = "saveMembership" => op = "suspend" /\ step = 1
    /\ st = "getToken" => op = "recover" /\ step = 1
    /\ st = "consume" => op = "recover" /\ step = 4
    /\ st = "audit" => <<op, step>> \in {<<"logout", 5>>, <<"switch", 6>>, <<"login", 5>>,
                                         <<"logoutAll", 4>>, <<"suspend", 5>>, <<"recover", 8>>}

LEMMA OperationNames == Operations = {"context", "logout", "switch", "login", "logoutAll",
                                      "suspend", "recover"}
BY DEF Operations, Path

LEMMA Paths ==
    ASSUME NEW op \in Operations, NEW step \in 1 .. 9, step <= Len(Path[op])
    PROVE  Stands(Path[op][step], op, step)
<1> DEFINE st == Path[op][step]
<1>1. CASE op = "context"
  <2>1. Path[op] = <<"getSession", "checkVersion", "checkMembership", "list">>
      BY <1>1 DEF Path
  <2>2. QED
      BY <1>1, <2>1 DEF Stands, SessionOperations
<1>2. CASE op = "logout"
  <2>1. Path[op] = <<"getSession", "checkVersion", "checkMembership", "revoke", "audit">>
      BY <1>2 DEF Path
  <2>2. QED
      BY <1>2, <2>1 DEF Stands, SessionOperations
<1>3. CASE op = "switch"
  <2>1. Path[op] = <<"getSession", "checkVersion", "checkMembership", "getTarget",
                     "saveSession", "audit">>
      BY <1>3 DEF Path
  <2>2. QED
      BY <1>3, <2>1 DEF Stands, SessionOperations
<1>4. CASE op = "login"
  <2>1. Path[op] = <<"findUser", "firstWorkspace", "revokeAll", "issue", "audit">>
      BY <1>4 DEF Path
  <2>2. QED
      BY <1>4, <2>1 DEF Stands
<1>5. CASE op = "logoutAll"
  <2>1. Path[op] = <<"getUser", "saveUser", "revokeAll", "audit">>
      BY <1>5 DEF Path
  <2>2. QED
      BY <1>5, <2>1 DEF Stands
<1>6. CASE op = "suspend"
  <2>1. Path[op] = <<"saveMembership", "getUser", "saveUser", "revokeAll", "audit">>
      BY <1>6 DEF Path
  <2>2. QED
      BY <1>6, <2>1 DEF Stands
<1>7. CASE op = "recover"
  <2>1. Path[op] = <<"getToken", "getUser", "saveUser", "consume", "revokeAll",
                     "firstWorkspace", "issue", "audit">>
      BY <1>7 DEF Path
  <2>2. QED
      BY <1>7, <2>1 DEF Stands
<1>8. QED
    BY <1>1, <1>2, <1>3, <1>4, <1>5, <1>6, <1>7, OperationNames

-----------------------------------------------------------------------------
(* Types *)

\* What a request holds, by the operation and the statement it is at.
Sound(r, rows, toks) ==
    /\ r.step \in 1 .. 8
    /\ r.refused => r.op \in SessionOperations
    /\ r.op \in SessionOperations =>
         /\ r.session \in SessionIds /\ rows[r.session] # None
         /\ ~r.refused /\ r.step \in {2, 3, 4} => r.row \in SessionRows
    /\ r.op = "switch" =>
         /\ r.workspace \in Workspaces
         /\ ~r.refused /\ r.step = 5 => r.row \in SessionRows
    /\ r.op = "login" =>
         /\ r.step <= 4 => r.user \in Users
         /\ r.step \in {2, 3, 4} => r.account \in Accounts
         /\ r.step \in {3, 4} => r.workspace \in Workspaces
    /\ r.op = "logoutAll" =>
         /\ r.user \in Users
         /\ r.step = 2 => r.account \in Accounts
    /\ r.op = "suspend" =>
         /\ r.user \in Users /\ r.workspace \in Workspaces
         /\ r.step = 3 => r.account \in Accounts
    /\ r.op = "recover" =>
         /\ r.token \in Tokens /\ toks[r.token] # None
         /\ r.step <= 7 => r.user \in Users
         /\ r.step \in 3 .. 7 => r.account \in Accounts
         /\ r.step = 7 => r.workspace \in Workspaces

TypeInv == TypeOK /\ \A c \in Calls : Running(c) => Sound(calls[c], sessions, tokens)

\* No row of a session or a token is taken away.
Kept == /\ \A s \in SessionIds : sessions[s] # None => sessions'[s] # None
        /\ \A t \in Tokens : tokens[t] # None => tokens'[t] # None

Typed ==
    /\ accounts \in [Users -> Accounts]
    /\ memberships \in [Users \X Workspaces -> {"active", "suspended"}]
    /\ sessions \in [SessionIds -> SessionRows \cup {None}]
    /\ tokens \in [Tokens -> TokenRows \cup {None}]
    /\ faults \in 0 .. MaxFaults
    /\ ended \subseteq SessionIds
    /\ completions \in [Tokens -> Nat]
    /\ opened \in [SessionIds -> Passwords \cup {None}]
    /\ overlapped \subseteq Users /\ raced \subseteq Tokens

\* The tables stay as they are.
Still == UNCHANGED <<accounts, memberships, sessions, tokens, faults, history>>

LEMMA StillKept == TypeInv /\ Still => Kept /\ Typed'
BY DEF TypeInv, TypeOK, Still, Kept, Typed

LEMMA HasType ==
    ASSUME TypeInv, NEW c \in Calls, Running(c)
    PROVE  calls[c] \in Requests /\ Sound(calls[c], sessions, tokens)
BY DEF TypeInv, TypeOK, Running

LEMMA WhereAt ==
    ASSUME TypeInv, NEW c \in Calls, NEW st, At(c, st)
    PROVE  /\ Running(c) /\ calls[c] \in Requests /\ ~calls[c].refused
           /\ Sound(calls[c], sessions, tokens)
           /\ Stands(st, calls[c].op, calls[c].step)
<1>1. calls[c] \in Requests /\ Sound(calls[c], sessions, tokens)
    BY HasType DEF At
<1>2. calls[c].op \in Operations /\ calls[c].step \in 1 .. 9
    BY <1>1 DEF Requests
<1>3. Stands(Path[calls[c].op][calls[c].step], calls[c].op, calls[c].step)
    BY <1>2, Paths DEF At
<1>4. QED
    BY <1>1, <1>3 DEF At

LEMMA Moves ==
    ASSUME TypeInv, NEW c \in Calls, NEW next \in Requests \cup {None},
           calls' = [calls EXCEPT ![c] = next],
           next # None => Sound(next, sessions', tokens'), Kept, Typed'
    PROVE  TypeInv'
<1>1. calls'[c] = next /\ \A d \in Calls \ {c} : calls'[d] = calls[d]
    BY DEF TypeInv, TypeOK
<1>2. TypeOK'
    BY DEF TypeInv, TypeOK, Typed
<1>3. ASSUME NEW d \in Calls \ {c}, calls[d] # None
      PROVE  Sound(calls[d], sessions', tokens')
  <2>1. Sound(calls[d], sessions, tokens)
      BY <1>3, HasType DEF Running
  <2>2. QED
      BY <2>1 DEF Sound, Kept
<1>4. \A d \in Calls : calls'[d] # None => Sound(calls'[d], sessions', tokens')
    BY <1>1, <1>3
<1>5. QED
    BY <1>2, <1>4 DEF TypeInv, Running

LEMMA Continues ==
    ASSUME TypeInv, NEW c \in Calls, NEW request \in Requests, request.step \in 1 .. 7,
           Continue(c, request),
           Sound([request EXCEPT !.step = request.step + 1], sessions', tokens'), Kept, Typed'
    PROVE  TypeInv'
<1> DEFINE next == [request EXCEPT !.step = request.step + 1]
<1>1. calls' = [calls EXCEPT ![c] = next]
    BY DEF Continue
<1>2. next \in Requests
    BY DEF Requests
<1> HIDE DEF next
<1>3. Sound(next, sessions', tokens')
    BY DEF next
<1>4. QED
    BY <1>1, <1>2, <1>3, Moves

LEMMA Answers ==
    ASSUME TypeInv, NEW c \in Calls, Answer(c), Kept, Typed'
    PROVE  TypeInv'
BY Moves DEF Answer

\* A request begins with a fresh record.
LEMMA Starts ==
    ASSUME TypeInv, NEW c \in Calls, NEW next \in Requests, Start(c, next),
           Sound(next, sessions, tokens), overlapped' \subseteq Users, raced' \subseteq Tokens
    PROVE  TypeInv'
<1>1. /\ calls' = [calls EXCEPT ![c] = next]
      /\ UNCHANGED <<accounts, memberships, sessions, tokens, faults, ended, completions, opened>>
    BY DEF Start
<1>2. Sound(next, sessions', tokens')
    BY <1>1
<1>3. Kept /\ Typed'
    BY <1>1 DEF TypeInv, TypeOK, Kept, Typed
<1>4. QED
    BY <1>1, <1>2, <1>3, Moves

LEMMA FreshRequest == \A op \in Operations : Request(op) \in Requests
BY DEF Request, Requests

LEMMA SessionRequest ==
    ASSUME NEW r \in Requests, NEW s \in SessionIds, NEW w \in Workspaces \cup {None},
           NEW was \in BOOLEAN
    PROVE  [r EXCEPT !.session = s, !.workspace = w, !.wasEnded = was] \in Requests
BY DEF Requests

LEMMA AccountRequest ==
    ASSUME NEW r \in Requests, NEW u \in Users, NEW p \in Passwords \cup {None},
           NEW old \in SUBSET SessionIds, NEW w \in Workspaces \cup {None},
           NEW t \in Tokens \cup {None}
    PROVE  /\ [r EXCEPT !.user = u, !.workspace = w, !.token = t, !.password = p,
                        !.existing = old] \in Requests
           /\ [r EXCEPT !.user = u, !.password = p, !.existing = old] \in Requests
<1>1. [r EXCEPT !.user = u, !.workspace = w, !.token = t, !.password = p,
                !.existing = old] \in Requests
    BY DEF Requests
<1>2. [r EXCEPT !.user = u, !.password = p, !.existing = old] \in Requests
    BY DEF Requests
<1>3. QED
    BY <1>1, <1>2

LEMMA ArriveStep ==
    ASSUME TypeInv, NEW c \in Calls, Arrive(c)
    PROVE  TypeInv'
<1> USE OperationNames
<1>1. ASSUME NEW op \in SessionOperations, NEW s \in SessionIds, NEW w \in Workspaces \cup {None},
             StartSession(c, op, s, w), op = "switch" => w \in Workspaces
      PROVE  TypeInv'
  <2> DEFINE was == s \in ended
  <2> DEFINE next == [Request(op) EXCEPT !.session = s, !.workspace = w, !.wasEnded = was]
  <2>1. Start(c, next) /\ sessions[s] # None /\ overlapped' \subseteq Users /\ raced' \subseteq Tokens
      BY <1>1 DEF StartSession, TypeInv, TypeOK
  <2>2. was \in BOOLEAN
    <3>1. CASE s \in ended
        BY <3>1
    <3>2. CASE s \notin ended
        BY <3>2
    <3>3. QED
        BY <3>1, <3>2
  <2> HIDE DEF was
  <2>3. /\ next.op = op /\ next.session = s /\ next.workspace = w /\ next.step = 1
        /\ next.refused = FALSE
      BY DEF Request
  <2>4. next \in Requests
      BY <1>1, <2>2, FreshRequest, SessionRequest DEF SessionOperations
  <2> HIDE DEF next
  <2>5. Sound(next, sessions, tokens)
      BY <1>1, <2>1, <2>3 DEF Sound, SessionOperations
  <2>6. QED
      BY <2>1, <2>4, <2>5, Starts
<1>2. ASSUME NEW u \in Users, NEW p \in Passwords, Login(c, u, p) PROVE TypeInv'
  <2> DEFINE old == Doomed("login", u)
  <2> DEFINE next == [Request("login") EXCEPT !.user = u, !.password = p, !.existing = old]
  <2>1. old \subseteq SessionIds
      BY DEF Doomed, SessionsOf
  <2>2. Start(c, next) /\ overlapped' \subseteq Users /\ raced' \subseteq Tokens
      BY <1>2 DEF Login, TypeInv, TypeOK
  <2> HIDE DEF old
  <2>3. next.op = "login" /\ next.step = 1 /\ next.refused = FALSE /\ next.user = u
      BY DEF Request
  <2>4. next \in Requests
      BY <2>1, FreshRequest, AccountRequest
  <2> HIDE DEF next
  <2>5. Sound(next, sessions, tokens)
      BY <2>3 DEF Sound, SessionOperations
  <2>6. QED
      BY <2>2, <2>4, <2>5, Starts
<1>3. ASSUME NEW op \in Writers, NEW u \in Users, NEW w \in Workspaces \cup {None},
             NEW t \in Tokens \cup {None}, NEW p \in Passwords \cup {None},
             StartWriter(c, op, u, w, t, p), op = "suspend" => w \in Workspaces,
             op = "recover" => t \in Tokens /\ tokens[t] # None
      PROVE  TypeInv'
  <2> DEFINE old == Doomed(op, u)
  <2> DEFINE next == [Request(op) EXCEPT !.user = u, !.workspace = w, !.token = t,
                                         !.password = p, !.existing = old]
  <2>1. old \subseteq SessionIds
      BY DEF Doomed, SessionsOf
  <2>2. Start(c, next) /\ overlapped' \subseteq Users /\ raced' \subseteq Tokens
      BY <1>3 DEF StartWriter, TypeInv, TypeOK
  <2> HIDE DEF old
  <2>3. /\ next.op = op /\ next.step = 1 /\ next.refused = FALSE /\ next.user = u
        /\ next.workspace = w /\ next.token = t
      BY DEF Request
  <2>4. next \in Requests
    <3>1. Request(op) \in Requests
        BY FreshRequest DEF Writers
    <3>2. QED
        BY <2>1, <3>1, AccountRequest
  <2> HIDE DEF next
  <2>5. Sound(next, sessions, tokens)
      BY <1>3, <2>3 DEF Sound, SessionOperations, Writers
  <2>6. QED
      BY <2>2, <2>4, <2>5, Starts
<1> SUFFICES ASSUME \/ \E s \in SessionIds : Context(c, s) \/ Logout(c, s)
                    \/ \E s \in SessionIds, w \in Workspaces : SwitchWorkspace(c, s, w)
                    \/ \E u \in Users : LogoutAll(c, u)
                    \/ \E u \in Users, w \in Workspaces : SuspendMembership(c, u, w)
                    \/ \E t \in Tokens, p \in Passwords : CompleteRecovery(c, t, p)
             PROVE  TypeInv'
    BY <1>2 DEF Arrive
<1>4. ASSUME NEW s \in SessionIds, Context(c, s) \/ Logout(c, s) PROVE TypeInv'
    BY <1>1, <1>4 DEF Context, Logout, SessionOperations
<1>5. ASSUME NEW s \in SessionIds, NEW w \in Workspaces, SwitchWorkspace(c, s, w) PROVE TypeInv'
    BY <1>1, <1>5 DEF SwitchWorkspace, SessionOperations
<1>6. ASSUME NEW u \in Users, LogoutAll(c, u) PROVE TypeInv'
    BY <1>3, <1>6 DEF LogoutAll, Writers
<1>7. ASSUME NEW u \in Users, NEW w \in Workspaces, SuspendMembership(c, u, w) PROVE TypeInv'
    BY <1>3, <1>7 DEF SuspendMembership, Writers
<1>8. ASSUME NEW t \in Tokens, NEW p \in Passwords, CompleteRecovery(c, t, p) PROVE TypeInv'
  <2>1. tokens[t].user \in Users /\ tokens[t] # None
      BY <1>8 DEF CompleteRecovery, TypeInv, TypeOK, TokenRows
  <2>2. StartWriter(c, "recover", tokens[t].user, None, t, p)
      BY <1>8 DEF CompleteRecovery
  <2>3. QED
      BY <1>3, <2>1, <2>2 DEF Writers
<1>9. QED
    BY <1>4, <1>5, <1>6, <1>7, <1>8

LEMMA RowWritten ==
    ASSUME TypeInv, NEW s \in SessionIds, NEW row \in SessionRows,
           sessions' = [sessions EXCEPT ![s] = row],
           UNCHANGED <<accounts, memberships, tokens, faults, ended, completions, overlapped, raced>>,
           opened' \in [SessionIds -> Passwords \cup {None}]
    PROVE  Kept /\ Typed'
<1>1. Kept
    BY NoneAssumption DEF Kept, TypeInv, TypeOK
<1>2. Typed'
    BY DEF Typed, TypeInv, TypeOK
<1>3. QED
    BY <1>1, <1>2

\* requireSession and the statements of the session operations.
LEMMA SessionStep ==
    ASSUME TypeInv, NEW c \in Calls,
           \/ GetSession(c) \/ CheckVersion(c) \/ CheckMembership(c) \/ RevokeRefused(c)
           \/ List(c) \/ Revoke(c) \/ GetTarget(c) \/ SaveSession(c)
    PROVE  TypeInv'
<1> DEFINE r == calls[c]
<1>1. ASSUME Refuse(c), Still, r \in Requests, Sound(r, sessions, tokens), r.op \in SessionOperations
      PROVE  TypeInv'
  <2> DEFINE next == [r EXCEPT !.refused = TRUE, !.row = None]
  <2>1. calls' = [calls EXCEPT ![c] = next]
      BY <1>1 DEF Refuse, TypeInv, TypeOK
  <2>2. next \in Requests
      BY <1>1 DEF Requests
  <2>3. Sound(next, sessions', tokens')
      BY <1>1 DEF Still, Sound, Requests
  <2> HIDE DEF next
  <2>4. QED
      BY <1>1, <2>1, <2>2, <2>3, StillKept, Moves
<1>2. CASE GetSession(c)
  <2>1. At(c, "getSession") /\ Still
      BY <1>2 DEF GetSession, Still
  <2>2. /\ r \in Requests /\ Sound(r, sessions, tokens) /\ r.op \in SessionOperations /\ r.step = 1
        /\ r.session \in SessionIds /\ sessions[r.session] \in SessionRows /\ ~r.refused
      BY <2>1, WhereAt DEF Stands, Sound, TypeInv, TypeOK
  <2>3. CASE Answer(c)
      BY <2>1, <2>3, StillKept, Answers
  <2>4. CASE Continue(c, [r EXCEPT !.row = sessions[r.session]])
    <3> DEFINE request == [r EXCEPT !.row = sessions[r.session]]
    <3>1. request \in Requests /\ request.step = 1
        BY <2>2 DEF Requests
    <3>2. Sound([request EXCEPT !.step = request.step + 1], sessions', tokens')
        BY <2>1, <2>2 DEF Sound, Still, Requests, SessionOperations
    <3> HIDE DEF request
    <3>3. Continue(c, request)
        BY <2>4 DEF request
    <3>4. QED
        BY <2>1, <3>1, <3>2, <3>3, StillKept, Continues
  <2>5. QED
      BY <1>1, <1>2, <2>1, <2>2, <2>3, <2>4 DEF GetSession
<1>3. CASE CheckVersion(c) \/ CheckMembership(c)
  <2>1. (At(c, "checkVersion") \/ At(c, "checkMembership")) /\ Still
      BY <1>3 DEF CheckVersion, CheckMembership, Still
  <2>2. /\ r \in Requests /\ Sound(r, sessions, tokens) /\ r.op \in SessionOperations
        /\ r.step \in {2, 3}
      BY <2>1, WhereAt DEF Stands
  <2>3. CASE Continue(c, r)
    <3>1. Sound([r EXCEPT !.step = r.step + 1], sessions', tokens')
        BY <2>1, <2>2 DEF Sound, Still, Requests, SessionOperations
    <3>2. QED
        BY <2>1, <2>2, <2>3, <3>1, StillKept, Continues
  <2>4. QED
      BY <1>1, <1>3, <2>1, <2>2, <2>3 DEF CheckVersion, CheckMembership
<1>4. CASE RevokeRefused(c)
  <2>1. /\ r \in Requests /\ Sound(r, sessions, tokens) /\ r.op \in SessionOperations
        /\ r.session \in SessionIds /\ sessions[r.session] \in SessionRows
      BY <1>4, HasType DEF RevokeRefused, Sound, TypeInv, TypeOK
  <2>2. [sessions[r.session] EXCEPT !.revoked = TRUE] \in SessionRows
      BY <2>1 DEF SessionRows
  <2>3. sessions' = [sessions EXCEPT ![r.session] = [sessions[r.session] EXCEPT !.revoked = TRUE]]
      BY <1>4 DEF RevokeRefused, TypeInv, TypeOK
  <2>4. Kept /\ Typed'
      BY <1>4, <2>1, <2>2, <2>3, RowWritten DEF RevokeRefused, TypeInv, TypeOK
  <2>5. QED
      BY <1>4, <2>4, Answers DEF RevokeRefused
<1>5. CASE List(c)
    BY <1>5, StillKept, Answers DEF List, Still
<1>6. CASE Revoke(c)
  <2>1. /\ r \in Requests /\ Sound(r, sessions, tokens) /\ r.op = "logout" /\ r.step = 4
        /\ r.session \in SessionIds /\ sessions[r.session] \in SessionRows
      BY <1>6, WhereAt DEF Revoke, Stands, Sound, TypeInv, TypeOK, SessionOperations
  <2>2. [sessions[r.session] EXCEPT !.revoked = TRUE] \in SessionRows
      BY <2>1 DEF SessionRows
  <2>3. sessions' = [sessions EXCEPT ![r.session] = [sessions[r.session] EXCEPT !.revoked = TRUE]]
      BY <1>6 DEF Revoke, TypeInv, TypeOK
  <2>4. Kept /\ Typed'
      BY <1>6, <2>1, <2>2, <2>3, RowWritten DEF Revoke, TypeInv, TypeOK
  <2> DEFINE request == [r EXCEPT !.row = None]
  <2>5. request \in Requests /\ request.step = 4
      BY <2>1 DEF Requests
  <2>6. Sound([request EXCEPT !.step = request.step + 1], sessions', tokens')
      BY <2>1, <2>4 DEF Sound, Kept, Requests, SessionOperations
  <2>7. Continue(c, request)
      BY <1>6 DEF Revoke
  <2> HIDE DEF request
  <2>8. QED
      BY <2>4, <2>5, <2>6, <2>7, Continues
<1>7. CASE GetTarget(c)
  <2>1. At(c, "getTarget") /\ Still
      BY <1>7 DEF GetTarget, Still
  <2>2. /\ r \in Requests /\ Sound(r, sessions, tokens) /\ r.op = "switch" /\ r.step = 4
        /\ r.row \in SessionRows /\ r.workspace \in Workspaces
      BY <2>1, WhereAt DEF Stands, Sound, SessionOperations
  <2>3. CASE Answer(c)
      BY <2>1, <2>3, StillKept, Answers
  <2>4. CASE Continue(c, [r EXCEPT !.row.workspace = r.workspace])
    <3> DEFINE row == [r.row EXCEPT !.workspace = r.workspace]
    <3> DEFINE request == [r EXCEPT !.row = row]
    <3>1. row \in SessionRows
        BY <2>2 DEF SessionRows
    <3>2. Continue(c, request)
        BY <2>4
    <3> HIDE DEF row
    <3>3. request \in Requests /\ request.step = 4
        BY <2>2, <3>1 DEF Requests
    <3>4. Sound([request EXCEPT !.step = request.step + 1], sessions', tokens')
        BY <2>1, <2>2, <3>1 DEF Sound, Still, Requests, SessionOperations
    <3> HIDE DEF request
    <3>5. QED
        BY <2>1, <3>2, <3>3, <3>4, StillKept, Continues
  <2>5. QED
      BY <1>7, <2>3, <2>4 DEF GetTarget
<1>8. CASE SaveSession(c)
  <2>1. /\ r \in Requests /\ Sound(r, sessions, tokens) /\ r.op = "switch" /\ r.step = 5
        /\ r.row \in SessionRows /\ r.session \in SessionIds
      BY <1>8, WhereAt DEF SaveSession, Stands, Sound, SessionOperations
  <2>2. Kept /\ Typed'
      BY <1>8, <2>1, RowWritten DEF SaveSession, TypeInv, TypeOK
  <2> DEFINE request == [r EXCEPT !.row = None]
  <2>3. request \in Requests /\ request.step = 5
      BY <2>1 DEF Requests
  <2>4. Sound([request EXCEPT !.step = request.step + 1], sessions', tokens')
      BY <2>1, <2>2 DEF Sound, Kept, Requests, SessionOperations
  <2>5. Continue(c, request)
      BY <1>8 DEF SaveSession
  <2> HIDE DEF request
  <2>6. QED
      BY <2>2, <2>3, <2>4, <2>5, Continues
<1>9. QED
    BY <1>2, <1>3, <1>4, <1>5, <1>6, <1>7, <1>8

\* The statements of login and of the operations that save an account.
LEMMA AccountStep ==
    ASSUME TypeInv, NEW c \in Calls,
           \/ FindUser(c) \/ GetUser(c) \/ SaveUser(c) \/ RevokeAll(c) \/ FirstWorkspace(c)
    PROVE  TypeInv'
<1> DEFINE r == calls[c]
<1>1. CASE FindUser(c)
  <2>1. At(c, "findUser") /\ Still
      BY <1>1 DEF FindUser, Still
  <2>2. /\ r \in Requests /\ Sound(r, sessions, tokens) /\ r.op = "login" /\ r.step = 1
        /\ r.user \in Users /\ accounts[r.user] \in Accounts
      BY <2>1, WhereAt DEF Stands, Sound, TypeInv, TypeOK
  <2>3. CASE Answer(c)
      BY <2>1, <2>3, StillKept, Answers
  <2>4. CASE Continue(c, [r EXCEPT !.account = accounts[r.user], !.password = None])
    <3> DEFINE request == [r EXCEPT !.account = accounts[r.user], !.password = None]
    <3>1. request \in Requests /\ request.step = 1
        BY <2>2 DEF Requests
    <3>2. Sound([request EXCEPT !.step = request.step + 1], sessions', tokens')
        BY <2>1, <2>2 DEF Sound, Still, Requests, SessionOperations
    <3>3. Continue(c, request)
        BY <2>4
    <3> HIDE DEF request
    <3>4. QED
        BY <2>1, <3>1, <3>2, <3>3, StillKept, Continues
  <2>5. QED
      BY <1>1, <2>3, <2>4 DEF FindUser
<1>2. CASE GetUser(c)
  <2>1. At(c, "getUser") /\ Still
      BY <1>2 DEF GetUser, Still
  <2>2. /\ r \in Requests /\ Sound(r, sessions, tokens)
        /\ <<r.op, r.step>> \in {<<"logoutAll", 1>>, <<"suspend", 2>>, <<"recover", 2>>}
        /\ r.user \in Users /\ accounts[r.user] \in Accounts
      BY <2>1, WhereAt DEF Stands, Sound, TypeInv, TypeOK
  <2> DEFINE copy == Bumped(accounts[r.user], r.password)
  <2> DEFINE request == [r EXCEPT !.account = copy, !.password = None]
  <2>3. copy \in Accounts
      BY <2>2 DEF Bumped, Accounts, Versions, Requests
  <2>4. Continue(c, request)
      BY <1>2 DEF GetUser
  <2> HIDE DEF copy
  <2>5. request \in Requests /\ request.step \in {1, 2}
      BY <2>2, <2>3 DEF Requests
  <2>6. Sound([request EXCEPT !.step = request.step + 1], sessions', tokens')
      BY <2>1, <2>2, <2>3 DEF Sound, Still, Requests, SessionOperations
  <2> HIDE DEF request
  <2>7. QED
      BY <2>1, <2>4, <2>5, <2>6, StillKept, Continues
<1>3. CASE SaveUser(c)
  <2>1. At(c, "saveUser") /\ Continue(c, r)
        /\ accounts' = [accounts EXCEPT ![r.user] = r.account]
        /\ UNCHANGED <<memberships, sessions, tokens, faults, history>>
      BY <1>3 DEF SaveUser
  <2>2. /\ r \in Requests /\ Sound(r, sessions, tokens)
        /\ <<r.op, r.step>> \in {<<"logoutAll", 2>>, <<"suspend", 3>>, <<"recover", 3>>}
        /\ r.user \in Users /\ r.account \in Accounts
      BY <2>1, WhereAt DEF Stands, Sound
  <2>3. Kept /\ Typed'
      BY <2>1, <2>2 DEF Kept, Typed, TypeInv, TypeOK
  <2>4. Sound([r EXCEPT !.step = r.step + 1], sessions', tokens')
      BY <2>1, <2>2 DEF Sound, Requests, SessionOperations
  <2>5. QED
      BY <2>1, <2>2, <2>3, <2>4, Continues
<1>4. CASE RevokeAll(c)
  <2>1. At(c, "revokeAll") /\ Continue(c, r)
        /\ sessions' = [s \in SessionIds |-> IF s \in SessionsOf(r.user)
                            THEN [sessions[s] EXCEPT !.revoked = TRUE] ELSE sessions[s]]
        /\ UNCHANGED <<accounts, memberships, tokens, faults, history>>
      BY <1>4 DEF RevokeAll
  <2>2. /\ r \in Requests /\ Sound(r, sessions, tokens)
        /\ <<r.op, r.step>> \in {<<"login", 3>>, <<"logoutAll", 3>>, <<"suspend", 4>>, <<"recover", 5>>}
      BY <2>1, WhereAt DEF Stands
  <2>3. \A s \in SessionsOf(r.user) : [sessions[s] EXCEPT !.revoked = TRUE] \in SessionRows
      BY DEF SessionsOf, SessionRows, TypeInv, TypeOK
  <2>4. Kept
      BY <2>1, <2>3, NoneAssumption DEF Kept, TypeInv, TypeOK
  <2>5. Typed'
      BY <2>1, <2>3 DEF Typed, TypeInv, TypeOK
  <2>6. Sound([r EXCEPT !.step = r.step + 1], sessions', tokens')
      BY <2>1, <2>2, <2>4 DEF Kept, Sound, Requests, SessionOperations
  <2>7. QED
      BY <2>1, <2>2, <2>4, <2>5, <2>6, Continues
<1>5. CASE FirstWorkspace(c)
  <2>1. At(c, "firstWorkspace") /\ Still
      BY <1>5 DEF FirstWorkspace, Still
  <2>2. /\ r \in Requests /\ Sound(r, sessions, tokens)
        /\ <<r.op, r.step>> \in {<<"login", 2>>, <<"recover", 6>>}
      BY <2>1, WhereAt DEF Stands
  <2>3. CASE Answer(c)
      BY <2>1, <2>3, StillKept, Answers
  <2>4. ASSUME NEW w \in Workspaces, Continue(c, [r EXCEPT !.workspace = w]) PROVE TypeInv'
    <3> DEFINE request == [r EXCEPT !.workspace = w]
    <3>1. request \in Requests /\ request.step \in {2, 6}
        BY <2>2 DEF Requests
    <3>2. Sound([request EXCEPT !.step = request.step + 1], sessions', tokens')
        BY <2>1, <2>2 DEF Sound, Still, Requests, SessionOperations
    <3>3. Continue(c, request)
        BY <2>4
    <3> HIDE DEF request
    <3>4. QED
        BY <2>1, <3>1, <3>2, <3>3, StillKept, Continues
  <2>5. QED
      BY <1>5, <2>3, <2>4 DEF FirstWorkspace
<1>6. QED
    BY <1>1, <1>2, <1>3, <1>4, <1>5

LEMMA OtherStep ==
    ASSUME TypeInv, NEW c \in Calls,
           \/ IssueSession(c) \/ SaveMembership(c) \/ GetToken(c) \/ ConsumeToken(c)
           \/ Audit(c) \/ Fault(c)
    PROVE  TypeInv'
<1> DEFINE r == calls[c]
<1>1. CASE IssueSession(c)
  <2> DEFINE row == [user |-> r.user, workspace |-> r.workspace,
                     version |-> r.account.version, revoked |-> FALSE]
  <2> DEFINE request == [r EXCEPT !.account = None, !.workspace = None]
  <2>1. PICK s \in SessionIds : sessions' = [sessions EXCEPT ![s] = row]
      BY <1>1 DEF IssueSession
  <2>2. /\ At(c, "issue") /\ Continue(c, request)
        /\ UNCHANGED <<accounts, memberships, tokens, faults, ended, completions, overlapped, raced>>
      BY <1>1 DEF IssueSession
  <2>3. /\ r \in Requests /\ Sound(r, sessions, tokens)
        /\ <<r.op, r.step>> \in {<<"login", 4>>, <<"recover", 7>>}
        /\ r.user \in Users /\ r.workspace \in Workspaces /\ r.account \in Accounts
      BY <2>2, WhereAt DEF Stands, Sound
  <2>4. row \in SessionRows
      BY <2>3 DEF SessionRows, Accounts
  <2> HIDE DEF row
  <2>5. Kept /\ Typed'
    <3>1. r.account.password \in Passwords
        BY <2>3 DEF Accounts
    <3>2. opened' \in [SessionIds -> Passwords \cup {None}]
        BY <1>1, <3>1 DEF IssueSession, TypeInv, TypeOK
    <3>3. QED
        BY <2>1, <2>2, <2>4, <3>2, RowWritten
  <2>6. request \in Requests /\ request.step \in {4, 7}
      BY <2>3 DEF Requests
  <2>7. Sound([request EXCEPT !.step = request.step + 1], sessions', tokens')
      BY <2>2, <2>3 DEF Sound, Requests, SessionOperations
  <2> HIDE DEF request
  <2>8. QED
      BY <2>2, <2>5, <2>6, <2>7, Continues
<1>2. CASE SaveMembership(c)
  <2>1. At(c, "saveMembership") /\ Continue(c, r)
        /\ memberships' = [memberships EXCEPT ![<<r.user, r.workspace>>] = "suspended"]
        /\ UNCHANGED <<accounts, sessions, tokens, faults, history>>
      BY <1>2 DEF SaveMembership
  <2>2. /\ r \in Requests /\ Sound(r, sessions, tokens) /\ r.op = "suspend" /\ r.step = 1
      BY <2>1, WhereAt DEF Stands
  <2>3. Kept /\ Typed'
      BY <2>1 DEF Kept, Typed, TypeInv, TypeOK
  <2>4. Sound([r EXCEPT !.step = r.step + 1], sessions', tokens')
      BY <2>1, <2>2 DEF Sound, Requests, SessionOperations
  <2>5. QED
      BY <2>1, <2>2, <2>3, <2>4, Continues
<1>3. CASE GetToken(c)
  <2>1. At(c, "getToken") /\ Still
      BY <1>3 DEF GetToken, Still
  <2>2. /\ r \in Requests /\ Sound(r, sessions, tokens) /\ r.op = "recover" /\ r.step = 1
      BY <2>1, WhereAt DEF Stands
  <2>3. Sound([r EXCEPT !.step = r.step + 1], sessions', tokens')
      BY <2>1, <2>2 DEF Sound, Still, Requests, SessionOperations
  <2>4. CASE Continue(c, r)
      BY <2>1, <2>2, <2>3, <2>4, StillKept, Continues
  <2>5. CASE Answer(c)
      BY <2>1, <2>5, StillKept, Answers
  <2>6. QED
      BY <1>3, <2>4, <2>5 DEF GetToken
<1>4. CASE ConsumeToken(c)
  <2>1. At(c, "consume") /\ Continue(c, r)
        /\ UNCHANGED <<accounts, memberships, sessions, faults, history>>
      BY <1>4 DEF ConsumeToken
  <2>2. /\ r \in Requests /\ Sound(r, sessions, tokens) /\ r.op = "recover" /\ r.step = 4
        /\ r.token \in Tokens /\ tokens[r.token] \in TokenRows
      BY <2>1, WhereAt DEF Stands, Sound, TypeInv, TypeOK
  <2> DEFINE row == [tokens[r.token] EXCEPT !.consumed = TRUE]
  <2>3. row \in TokenRows
      BY <2>2 DEF TokenRows
  <2>4. tokens' = [tokens EXCEPT ![r.token] = row]
      BY <1>4 DEF ConsumeToken, TypeInv, TypeOK
  <2> HIDE DEF row
  <2>5. Kept
      BY <2>1, <2>3, <2>4, NoneAssumption DEF Kept, TypeInv, TypeOK
  <2>6. Typed'
      BY <2>1, <2>3, <2>4 DEF Typed, TypeInv, TypeOK
  <2>7. Sound([r EXCEPT !.step = r.step + 1], sessions', tokens')
      BY <2>1, <2>2, <2>5 DEF Kept, Sound, Requests, SessionOperations
  <2>8. QED
      BY <2>1, <2>2, <2>5, <2>6, <2>7, Continues
<1>5. CASE Audit(c)
  <2> DEFINE own == IF r.op = "logout" /\ "logout" \in Enders THEN {r.session} ELSE {}
  <2>1. /\ At(c, "audit") /\ Answer(c)
        /\ UNCHANGED <<accounts, memberships, sessions, tokens, faults, opened, overlapped, raced>>
        /\ completions' = [t \in Tokens |->
               IF t = r.token THEN completions[t] + 1 ELSE completions[t]]
        /\ ended' = (ended \cup r.existing) \cup own
      BY <1>5 DEF Audit
  <2>2. r \in Requests /\ Sound(r, sessions, tokens)
      BY <2>1, WhereAt
  <2>3. r.existing \subseteq SessionIds
      BY <2>2 DEF Requests
  <2>4. own \subseteq SessionIds
      BY <2>2 DEF Sound, SessionOperations
  <2> HIDE DEF own
  <2>5. Kept
      BY <2>1 DEF Kept
  <2>6. ended' \subseteq SessionIds
      BY <2>1, <2>3, <2>4 DEF TypeInv, TypeOK
  <2>7. completions' \in [Tokens -> Nat]
      BY <2>1 DEF TypeInv, TypeOK
  <2>8. Typed'
      BY <2>1, <2>6, <2>7 DEF Typed, TypeInv, TypeOK
  <2>9. QED
      BY <2>1, <2>5, <2>8, Answers
<1>6. CASE Fault(c)
  <2>1. Kept /\ Typed'
      BY <1>6, AuthAssumption DEF Fault, Kept, Typed, TypeInv, TypeOK
  <2>2. QED
      BY <1>6, <2>1, Answers DEF Fault
<1>7. QED
    BY <1>1, <1>2, <1>3, <1>4, <1>5, <1>6

LEMMA RequestRecoveryStep ==
    ASSUME TypeInv, NEW u \in Users, NEW t \in Tokens, RequestRecovery(u, t)
    PROVE  TypeInv'
<1> DEFINE row == [user |-> u, consumed |-> FALSE]
<1>1. /\ tokens' = [tokens EXCEPT ![t] = row]
      /\ UNCHANGED <<accounts, memberships, sessions, calls, faults, history>>
    BY DEF RequestRecovery
<1>2. row \in TokenRows
    BY DEF TokenRows
<1> HIDE DEF row
<1>3. TypeOK'
    BY <1>1, <1>2 DEF TypeInv, TypeOK
<1>4. \A k \in Tokens : tokens[k] # None => tokens'[k] # None
    BY <1>1, <1>2, NoneAssumption DEF TypeInv, TypeOK
<1>5. ASSUME NEW c \in Calls, Running(c) PROVE Sound(calls[c], sessions', tokens')
    BY <1>1, <1>4, <1>5, HasType DEF Sound
<1>6. QED
    BY <1>1, <1>3, <1>5 DEF TypeInv, Running

LEMMA InvitedStep ==
    ASSUME TypeInv, NEW u \in Users, NEW w \in Workspaces, SaveInvitedMembership(u, w)
    PROVE  TypeInv'
<1>1. TypeOK'
    BY DEF SaveInvitedMembership, TypeInv, TypeOK
<1>2. UNCHANGED <<calls, sessions, tokens>>
    BY DEF SaveInvitedMembership
<1>3. QED
    BY <1>1, <1>2 DEF TypeInv, Running

LEMMA TypeInit == Init => TypeInv
<1> SUFFICES ASSUME Init PROVE TypeInv
    OBVIOUS
<1>1. [password |-> FirstPassword, version |-> 1] \in Accounts
    BY AuthAssumption DEF Accounts, Versions
<1>2. TypeOK
    BY <1>1, AuthAssumption DEF Init, TypeOK
<1>3. QED
    BY <1>2 DEF Init, TypeInv, Running

LEMMA TypeStep == TypeInv /\ [Next]_vars => TypeInv'
<1> SUFFICES ASSUME TypeInv, [Next]_vars PROVE TypeInv'
    OBVIOUS
<1>1. CASE UNCHANGED vars
    BY <1>1 DEF vars, TypeInv, TypeOK, Running
<1>2. CASE Next
    BY <1>2, ArriveStep, SessionStep, AccountStep, OtherStep, RequestRecoveryStep, InvitedStep
       DEF Next, Statement
<1>3. QED
    BY <1>1, <1>2

\* Rows, requests and counters keep their types for any number of requests,
\* accounts, sessions and savers, whatever fails.
THEOREM TypeCorrect == Spec => []TypeOK
<1>1. TypeInv => TypeOK
    BY DEF TypeInv
<1>2. QED
    BY TypeInit, TypeStep, <1>1, PTL DEF Spec

-----------------------------------------------------------------------------
(* Savers of an account *)

Writing(r) == r # None /\ r.op \in Writers

\* An account that no two calls were to save at one time has one saver at most,
\* and a token that no two recoveries came with has one recovery at most.
OneWriter == \A c, d \in Calls :
    /\ Writing(calls[c]) /\ Writing(calls[d]) /\ calls[c].user = calls[d].user
    /\ calls[c].user \notin overlapped
    => c = d

OneRecovery == \A c, d \in Calls :
    /\ Running(c) /\ Running(d) /\ calls[c].token = calls[d].token
    /\ calls[c].token \in Tokens \ raced
    => c = d

Apart == OneWriter /\ OneRecovery

\* A request that was there before, or comes to what no other has, or is noted.
LEMMA ApartMoves ==
    ASSUME TypeInv, Apart, NEW c \in Calls, NEW next, calls' = [calls EXCEPT ![c] = next],
           overlapped \subseteq overlapped', raced \subseteq raced',
           Writing(next) => \/ Writing(calls[c]) /\ next.user = calls[c].user
                            \/ next.user \in overlapped'
                            \/ \A d \in Calls : Writing(calls[d]) => calls[d].user # next.user,
           next # None => \/ Running(c) /\ next.token = calls[c].token
                          \/ next.token \notin Tokens \ raced'
                          \/ \A d \in Calls : Running(d) => calls[d].token # next.token
    PROVE  Apart'
<1>1. calls'[c] = next /\ \A d \in Calls \ {c} : calls'[d] = calls[d]
    BY DEF TypeInv, TypeOK
<1>2. OneWriter'
    BY <1>1 DEF Apart, OneWriter
<1>3. OneRecovery'
    BY <1>1 DEF Apart, OneRecovery, Running
<1>4. QED
    BY <1>2, <1>3 DEF Apart

\* Every step but the start of a request keeps its operation, account and token.
SameCall(next, r) == next.op = r.op /\ next.user = r.user /\ next.token = r.token

LEMMA StatementMoves ==
    ASSUME TypeInv, NEW c \in Calls, Statement(c) \/ Fault(c)
    PROVE  \E next : /\ calls' = [calls EXCEPT ![c] = next]
                     /\ next # None => SameCall(next, calls[c])
<1> DEFINE r == calls[c]
<1>1. CASE Answer(c)
    BY <1>1 DEF Answer
<1>2. Running(c)
    BY DEF Statement, GetSession, CheckVersion, CheckMembership, RevokeRefused, List, Revoke,
           GetTarget, SaveSession, FindUser, GetUser, SaveUser, RevokeAll, FirstWorkspace,
           IssueSession, SaveMembership, GetToken, ConsumeToken, Audit, Fault, At
<1>3. r \in Requests
    BY <1>2, HasType
<1>4. ASSUME NEW request \in Requests, Continue(c, request), SameCall(request, r)
      PROVE  \E next : /\ calls' = [calls EXCEPT ![c] = next]
                       /\ next # None => SameCall(next, r)
  <2> DEFINE next == [request EXCEPT !.step = request.step + 1]
  <2>1. calls' = [calls EXCEPT ![c] = next]
      BY <1>4 DEF Continue
  <2>2. SameCall(next, r)
      BY <1>4 DEF Requests, SameCall
  <2> HIDE DEF next
  <2>3. QED
      BY <2>1, <2>2
<1>5. CASE Refuse(c)
  <2> DEFINE next == [r EXCEPT !.refused = TRUE, !.row = None]
  <2>1. calls' = [calls EXCEPT ![c] = next]
      BY <1>5 DEF Refuse, TypeInv, TypeOK
  <2>2. SameCall(next, r)
      BY <1>3 DEF Requests, SameCall
  <2> HIDE DEF next
  <2>3. QED
      BY <2>1, <2>2
<1> SUFFICES ASSUME ~Answer(c), ~Refuse(c)
             PROVE  \E request \in Requests :
                        Continue(c, request) /\ SameCall(request, r)
    BY <1>1, <1>4, <1>5
<1>6. CASE \/ CheckVersion(c) \/ CheckMembership(c) \/ SaveUser(c) \/ RevokeAll(c)
           \/ SaveMembership(c) \/ GetToken(c) \/ ConsumeToken(c)
    BY <1>3, <1>6 DEF CheckVersion, CheckMembership, SaveUser, RevokeAll, SaveMembership,
                      GetToken, ConsumeToken, SameCall
<1>7. CASE GetSession(c)
  <2>1. Continue(c, [r EXCEPT !.row = sessions[r.session]])
      BY <1>7 DEF GetSession
  <2>2. r.session \in SessionIds /\ sessions[r.session] \in SessionRows
      BY <1>7, WhereAt DEF GetSession, Stands, Sound, TypeInv, TypeOK
  <2>3. /\ [r EXCEPT !.row = sessions[r.session]] \in Requests
        /\ SameCall([r EXCEPT !.row = sessions[r.session]], r)
      BY <1>3, <2>2 DEF Requests, SameCall
  <2>4. QED
      BY <2>1, <2>3
<1>8. CASE Revoke(c) \/ SaveSession(c)
  <2>1. Continue(c, [r EXCEPT !.row = None])
      BY <1>8 DEF Revoke, SaveSession
  <2>2. /\ [r EXCEPT !.row = None] \in Requests
        /\ SameCall([r EXCEPT !.row = None], r)
      BY <1>3 DEF Requests, SameCall
  <2>3. QED
      BY <2>1, <2>2
<1>9. CASE GetTarget(c)
  <2> DEFINE row == [r.row EXCEPT !.workspace = r.workspace]
  <2>1. Continue(c, [r EXCEPT !.row = row])
      BY <1>9 DEF GetTarget
  <2>2. r.row \in SessionRows /\ r.workspace \in Workspaces
      BY <1>9, WhereAt DEF GetTarget, Stands, Sound, SessionOperations
  <2>3. row \in SessionRows
      BY <2>2 DEF SessionRows
  <2> HIDE DEF row
  <2>4. /\ [r EXCEPT !.row = row] \in Requests
        /\ SameCall([r EXCEPT !.row = row], r)
      BY <1>3, <2>3 DEF Requests, SameCall
  <2>5. QED
      BY <2>1, <2>4
<1>10. CASE FindUser(c) \/ GetUser(c)
  <2>1. r.user \in Users /\ accounts[r.user] \in Accounts
      BY <1>10, WhereAt, SMTT(30) DEF FindUser, GetUser, Stands, Sound, TypeInv, TypeOK
  <2>2. Bumped(accounts[r.user], r.password) \in Accounts
      BY <1>3, <2>1 DEF Bumped, Accounts, Versions, Requests
  <2>3. PICK copy \in Accounts : Continue(c, [r EXCEPT !.account = copy, !.password = None])
      BY <1>10, <2>1, <2>2 DEF FindUser, GetUser
  <2>4. /\ [r EXCEPT !.account = copy, !.password = None] \in Requests
        /\ SameCall([r EXCEPT !.account = copy, !.password = None], r)
      BY <1>3 DEF Requests, SameCall
  <2>5. QED
      BY <2>3, <2>4
<1>11. CASE FirstWorkspace(c)
  <2>1. PICK w \in Workspaces : Continue(c, [r EXCEPT !.workspace = w])
      BY <1>11 DEF FirstWorkspace
  <2>2. /\ [r EXCEPT !.workspace = w] \in Requests
        /\ SameCall([r EXCEPT !.workspace = w], r)
      BY <1>3 DEF Requests, SameCall
  <2>3. QED
      BY <2>1, <2>2
<1>12. CASE IssueSession(c)
  <2>1. Continue(c, [r EXCEPT !.account = None, !.workspace = None])
      BY <1>12 DEF IssueSession
  <2>2. /\ [r EXCEPT !.account = None, !.workspace = None] \in Requests
        /\ SameCall([r EXCEPT !.account = None, !.workspace = None], r)
      BY <1>3 DEF Requests, SameCall
  <2>3. QED
      BY <2>1, <2>2
<1>13. CASE RevokeRefused(c) \/ List(c) \/ Audit(c) \/ Fault(c)
    BY <1>13 DEF RevokeRefused, List, Audit, Fault
<1>14. QED
    BY <1>6, <1>7, <1>8, <1>9, <1>10, <1>11, <1>12, <1>13 DEF Statement

LEMMA ApartStep == TypeInv /\ Apart /\ [Next]_vars => Apart'
<1> SUFFICES ASSUME TypeInv, Apart, [Next]_vars PROVE Apart'
    OBVIOUS
<1>1. ASSUME NEW c \in Calls, Statement(c) \/ Fault(c) PROVE Apart'
  <2>1. PICK next : calls' = [calls EXCEPT ![c] = next] /\ (next # None => SameCall(next, calls[c]))
      BY <1>1, StatementMoves
  <2>2. Running(c) /\ UNCHANGED <<overlapped, raced>>
      BY <1>1 DEF Statement, GetSession, CheckVersion, CheckMembership, RevokeRefused, List,
           Revoke, GetTarget, SaveSession, FindUser, GetUser, SaveUser, RevokeAll, FirstWorkspace,
           IssueSession, SaveMembership, GetToken, ConsumeToken, Audit, Fault, At
  <2>3. QED
      BY <2>1, <2>2, ApartMoves DEF Writing, Running, SameCall
<1>2. ASSUME NEW c \in Calls, Arrive(c) PROVE Apart'
  <2>1. ASSUME NEW op, NEW u, NEW w, NEW t, NEW p, StartWriter(c, op, u, w, t, p) PROVE Apart'
    <3> DEFINE next == [Request(op) EXCEPT !.user = u, !.workspace = w, !.token = t,
                                           !.password = p, !.existing = Doomed(op, u)]
    <3>1. calls' = [calls EXCEPT ![c] = next] /\ next.user = u /\ next.token = t
        BY <2>1 DEF StartWriter, Start, Request
    <3>2. u \in overlapped' \/ \A d \in Calls : Writing(calls[d]) => calls[d].user # u
        BY <2>1 DEF StartWriter, Savers, Writing, Running
    <3>3. t \notin Tokens \ raced' \/ \A d \in Calls : Running(d) => calls[d].token # t
        BY <2>1 DEF StartWriter
    <3>4. overlapped \subseteq overlapped' /\ raced \subseteq raced'
        BY <2>1 DEF StartWriter
    <3> HIDE DEF next
    <3>5. QED
        BY <3>1, <3>2, <3>3, <3>4, ApartMoves
  <2>2. ASSUME NEW op \in SessionOperations \cup {"login"}, NEW next, next.op = op, Start(c, next),
               next.token = None, UNCHANGED <<overlapped, raced>>
        PROVE  Apart'
    <3>1. ~Writing(next)
        BY <2>2 DEF Writing, Writers, SessionOperations
    <3>2. QED
        BY <2>2, <3>1, ApartMoves, NoneAssumption DEF Start
  <2>3. ASSUME NEW op \in SessionOperations, NEW s, NEW w, StartSession(c, op, s, w) PROVE Apart'
    <3> DEFINE next == [Request(op) EXCEPT !.session = s, !.workspace = w, !.wasEnded = s \in ended]
    <3>1. Start(c, next) /\ next.op = op /\ next.token = None /\ UNCHANGED <<overlapped, raced>>
        BY <2>3 DEF StartSession, Request
    <3> HIDE DEF next
    <3>2. QED
        BY <2>2, <3>1
  <2>4. ASSUME NEW u, NEW p, Login(c, u, p) PROVE Apart'
    <3> DEFINE next == [Request("login") EXCEPT !.user = u, !.password = p,
                                                !.existing = Doomed("login", u)]
    <3>1. Start(c, next) /\ next.op = "login" /\ next.token = None /\ UNCHANGED <<overlapped, raced>>
        BY <2>4 DEF Login, Request
    <3> HIDE DEF next
    <3>2. QED
        BY <2>2, <3>1
  <2>5. QED
      BY <1>2, <2>1, <2>3, <2>4 DEF Arrive, Context, Logout, SwitchWorkspace, LogoutAll,
         SuspendMembership, CompleteRecovery, SessionOperations
<1>3. CASE \/ UNCHANGED vars
           \/ \E u \in Users, t \in Tokens : RequestRecovery(u, t)
           \/ \E u \in Users, w \in Workspaces : SaveInvitedMembership(u, w)
    BY <1>3 DEF vars, RequestRecovery, SaveInvitedMembership, Apart, OneWriter, OneRecovery, Running
<1>4. QED
    BY <1>1, <1>2, <1>3 DEF Next

LEMMA ApartInit == Init => Apart
BY DEF Init, Apart, OneWriter, OneRecovery, Writing, Running

-----------------------------------------------------------------------------
(* Sessions and versions *)

AtSave(r) == <<r.op, r.step>> \in {<<"logoutAll", 2>>, <<"suspend", 3>>, <<"recover", 3>>}

Saved(r) == \/ r.op = "logoutAll" /\ r.step >= 3
            \/ r.op \in {"suspend", "recover"} /\ r.step >= 4

\* The parameters of what follows are the rows of sessions and accounts, the
\* accounts of which nothing is claimed (overlapped), and the passwords under
\* which sessions were issued (opened).

\* A session that its account's version has overtaken: requireSession refuses it.
Stale(s, rows, users, mixed) ==
    /\ rows[s] # None
    /\ rows[s].user \notin mixed => rows[s].version < users[rows[s].user].version

\* A version with a password is not ahead of the account, and its password is
\* the account's if it is not behind either.
InStep(version, password, account) ==
    /\ version <= account.version
    /\ version = account.version => password = account.password

NotAhead(rows, users, mixed, keys) ==
    \A s \in SessionIds : rows[s] # None /\ rows[s].user \notin mixed =>
        InStep(rows[s].version, keys[s], users[rows[s].user])

\* A request's copy of a session has the user and the version of the row, its
\* copy of an account is in step, but for the one to be saved, and that is one
\* ahead.  What a saver found is stale once it has saved, and a session that had
\* ended before the request came is refused at the version check.
Faithful(r, rows, users, mixed) ==
    /\ r.row # None => /\ r.op \in SessionOperations
                       /\ r.row.user = rows[r.session].user
                       /\ r.row.version = rows[r.session].version
    /\ r.wasEnded => /\ r.op \in SessionOperations /\ Stale(r.session, rows, users, mixed)
                     /\ rows[r.session].user \notin mixed => r.refused \/ r.step <= 2
    /\ r.account # None =>
           /\ r.op \notin SessionOperations /\ r.user \in Users
           /\ r.user \notin mixed =>
                IF AtSave(r) THEN r.account.version = users[r.user].version + 1
                             ELSE InStep(r.account.version, r.account.password, users[r.user])
    /\ \A s \in r.existing :
           /\ r.op \in Writers
           /\ IF Saved(r) THEN Stale(s, rows, users, mixed)
                          ELSE rows[s] # None /\ rows[s].user = r.user

SessionInv ==
    /\ NotAhead(sessions, accounts, overlapped, opened)
    /\ \A s \in ended : Stale(s, sessions, accounts, overlapped)
    /\ \A c \in Calls : Running(c) => Faithful(calls[c], sessions, accounts, overlapped)

\* Sessions keep their user and version; an account of which something is still
\* claimed is left alone or gets a later version.
Steady ==
    /\ overlapped \subseteq overlapped'
    /\ \A s \in SessionIds : sessions[s] # None =>
         /\ sessions'[s] # None
         /\ sessions'[s].user = sessions[s].user /\ sessions'[s].version = sessions[s].version

Grow == \A u \in Users \ overlapped :
    accounts'[u] = accounts[u] \/ accounts[u].version < accounts'[u].version

LEMMA StaleKept ==
    ASSUME TypeInv, TypeInv', Steady, Grow, NEW s \in SessionIds, Stale(s, sessions, accounts, overlapped)
    PROVE  Stale(s, sessions', accounts', overlapped')
<1>1. sessions[s] \in SessionRows /\ sessions[s].user \in Users /\ sessions[s].version \in Nat
    BY DEF Stale, TypeInv, TypeOK, SessionRows, Versions
<1>2. /\ accounts[sessions[s].user].version \in Nat
      /\ accounts'[sessions[s].user].version \in Nat
    BY <1>1 DEF TypeInv, TypeOK, Accounts, Versions
<1>3. QED
    BY <1>1, <1>2 DEF Stale, Steady, Grow

\* What one request does leaves the others what they rely on.
LEMMA OthersFaithful ==
    ASSUME TypeInv, TypeInv', Steady, Grow, NEW d \in Calls, Running(d),
           Faithful(calls[d], sessions, accounts, overlapped),
           AtSave(calls[d]) /\ calls[d].user \notin overlapped =>
               accounts'[calls[d].user] = accounts[calls[d].user]
    PROVE  Faithful(calls[d], sessions', accounts', overlapped')
<1> DEFINE r == calls[d]
<1>1. r \in Requests /\ Sound(r, sessions, tokens)
    BY HasType
<1>2. r.existing \subseteq SessionIds /\ (r.op \in SessionOperations =>
          r.session \in SessionIds /\ sessions[r.session] # None)
    BY <1>1 DEF Requests, Sound
<1>3. r.row # None => /\ r.op \in SessionOperations
                      /\ r.row.user = sessions'[r.session].user
                      /\ r.row.version = sessions'[r.session].version
    BY <1>2 DEF Faithful, Steady
<1>4. r.wasEnded => /\ r.op \in SessionOperations
                    /\ Stale(r.session, sessions', accounts', overlapped')
                    /\ sessions'[r.session].user \notin overlapped' => r.refused \/ r.step <= 2
  <2> SUFFICES ASSUME r.wasEnded
               PROVE  /\ r.op \in SessionOperations
                      /\ Stale(r.session, sessions', accounts', overlapped')
                      /\ sessions'[r.session].user \notin overlapped' => r.refused \/ r.step <= 2
      OBVIOUS
  <2>1. /\ r.op \in SessionOperations /\ Stale(r.session, sessions, accounts, overlapped)
        /\ sessions[r.session].user \notin overlapped => r.refused \/ r.step <= 2
      BY DEF Faithful
  <2>2. QED
      BY <1>2, <2>1, StaleKept DEF Steady
<1>5. r.account # None =>
          /\ r.op \notin SessionOperations /\ r.user \in Users
          /\ r.user \notin overlapped' =>
               IF AtSave(r) THEN r.account.version = accounts'[r.user].version + 1
                            ELSE InStep(r.account.version, r.account.password, accounts'[r.user])
  <2> SUFFICES ASSUME r.account # None
               PROVE  /\ r.op \notin SessionOperations /\ r.user \in Users
                      /\ r.user \notin overlapped' =>
                           IF AtSave(r) THEN r.account.version = accounts'[r.user].version + 1
                           ELSE InStep(r.account.version, r.account.password, accounts'[r.user])
      OBVIOUS
  <2>1. r.op \notin SessionOperations /\ r.user \in Users
      BY DEF Faithful
  <2>2. r.account \in Accounts /\ accounts[r.user] \in Accounts /\ accounts'[r.user] \in Accounts
      BY <1>1, <2>1 DEF Requests, TypeInv, TypeOK
  <2>3. r.user \notin overlapped' => r.user \notin overlapped
      BY DEF Steady
  <2>4. CASE AtSave(r)
      BY <2>1, <2>3, <2>4 DEF Faithful
  <2>5. CASE ~AtSave(r)
    <3>1. r.user \notin overlapped => InStep(r.account.version, r.account.password, accounts[r.user])
        BY <2>5 DEF Faithful
    <3>2. r.user \notin overlapped => \/ accounts'[r.user] = accounts[r.user]
                                      \/ accounts[r.user].version < accounts'[r.user].version
        BY <2>1 DEF Grow
    <3>3. QED
        BY <2>1, <2>2, <2>3, <2>5, <3>1, <3>2 DEF InStep, Accounts, Versions
  <2>6. QED
      BY <2>4, <2>5
<1>6. \A s \in r.existing :
          /\ r.op \in Writers
          /\ IF Saved(r) THEN Stale(s, sessions', accounts', overlapped')
                         ELSE sessions'[s] # None /\ sessions'[s].user = r.user
  <2> SUFFICES ASSUME NEW s \in r.existing
               PROVE  /\ r.op \in Writers
                      /\ IF Saved(r) THEN Stale(s, sessions', accounts', overlapped')
                                     ELSE sessions'[s] # None /\ sessions'[s].user = r.user
      OBVIOUS
  <2>1. s \in SessionIds /\ r.op \in Writers
      BY <1>2 DEF Faithful
  <2>2. CASE Saved(r)
      BY <2>1, <2>2, StaleKept DEF Faithful
  <2>3. CASE ~Saved(r)
      BY <2>1, <2>3 DEF Faithful, Steady
  <2>4. QED
      BY <2>1, <2>2, <2>3
<1>7. QED
    BY <1>3, <1>4, <1>5, <1>6 DEF Faithful

LEMMA SessionMoves ==
    ASSUME TypeInv, TypeInv', Apart, SessionInv, NEW c \in Calls, NEW next,
           calls' = [calls EXCEPT ![c] = next], Steady, Grow,
           \A u \in Users : accounts'[u] = accounts[u] \/ (Writing(calls[c]) /\ u = calls[c].user),
           NotAhead(sessions', accounts', overlapped', opened'),
           \A s \in ended' \ ended : Stale(s, sessions', accounts', overlapped'),
           next # None => Faithful(next, sessions', accounts', overlapped')
    PROVE  SessionInv'
<1>1. calls'[c] = next /\ \A d \in Calls \ {c} : calls'[d] = calls[d]
    BY DEF TypeInv, TypeOK
<1>2. ASSUME NEW d \in Calls \ {c}, calls[d] # None
      PROVE  Faithful(calls[d], sessions', accounts', overlapped')
  <2>1. Faithful(calls[d], sessions, accounts, overlapped) /\ Running(d)
      BY <1>2 DEF SessionInv, Running
  <2>2. AtSave(calls[d]) => Writing(calls[d]) /\ calls[d].user \in Users
      BY <1>2, <2>1, HasType DEF AtSave, Writing, Writers, Sound
  <2>3. AtSave(calls[d]) /\ calls[d].user \notin overlapped =>
            accounts'[calls[d].user] = accounts[calls[d].user]
      BY <2>2 DEF Apart, OneWriter
  <2>4. QED
      BY <2>1, <2>3, OthersFaithful
<1>3. \A d \in Calls : calls'[d] # None => Faithful(calls'[d], sessions', accounts', overlapped')
    BY <1>1, <1>2
<1>4. \A s \in ended' : Stale(s, sessions', accounts', overlapped')
  <2> SUFFICES ASSUME NEW s \in ended' PROVE Stale(s, sessions', accounts', overlapped')
      OBVIOUS
  <2>1. CASE s \in ended
    <3>1. s \in SessionIds /\ Stale(s, sessions, accounts, overlapped)
        BY <2>1 DEF SessionInv, TypeInv, TypeOK
    <3>2. QED
        BY <3>1, StaleKept
  <2>2. QED
      BY <2>1
<1>5. QED
    BY <1>3, <1>4 DEF SessionInv, Running

\* Steps that leave sessions and accounts alone.
LEMMA ReadingMoves ==
    ASSUME TypeInv, TypeInv', Apart, SessionInv, NEW c \in Calls, NEW next,
           calls' = [calls EXCEPT ![c] = next], UNCHANGED <<accounts, sessions, ended, opened>>,
           overlapped \subseteq overlapped',
           next # None => Faithful(next, sessions, accounts, overlapped')
    PROVE  SessionInv'
<1>1. Steady
    BY DEF Steady
<1>2. Grow
    BY DEF Grow
<1>3. NotAhead(sessions', accounts', overlapped', opened')
    BY DEF SessionInv, NotAhead
<1>4. next # None => Faithful(next, sessions', accounts', overlapped')
    OBVIOUS
<1>5. \A s \in ended' \ ended : Stale(s, sessions', accounts', overlapped')
    OBVIOUS
<1>6. accounts' = accounts
    OBVIOUS
<1>7. QED
    BY <1>1, <1>2, <1>3, <1>4, <1>5, <1>6, SessionMoves

\* Steps that write one session, keeping its user and version.
LEMMA RowMoves ==
    ASSUME TypeInv, TypeInv', Apart, SessionInv, NEW c \in Calls, NEW next,
           calls' = [calls EXCEPT ![c] = next], UNCHANGED <<accounts, ended, overlapped, opened>>, Steady,
           \A s \in SessionIds : sessions[s] = None => sessions'[s] = None,
           next # None => Faithful(next, sessions', accounts', overlapped')
    PROVE  SessionInv'
<1>1. Grow
    BY DEF Grow
<1>2. NotAhead(sessions', accounts', overlapped', opened')
    BY DEF SessionInv, NotAhead, Steady
<1>3. \A s \in ended' \ ended : Stale(s, sessions', accounts', overlapped')
    OBVIOUS
<1>4. QED
    BY <1>1, <1>2, <1>3, SessionMoves

LEMMA ArriveFaithful ==
    ASSUME Enders \subseteq Writers, TypeInv, TypeInv', Apart, SessionInv,
           NEW c \in Calls, Arrive(c)
    PROVE  SessionInv'
<1>1. ASSUME NEW next, Start(c, next), overlapped \subseteq overlapped',
             Faithful(next, sessions, accounts, overlapped')
      PROVE  SessionInv'
    BY <1>1, ReadingMoves DEF Start
<1>2. ASSUME NEW op \in SessionOperations, NEW s \in SessionIds, NEW w, StartSession(c, op, s, w)
      PROVE  SessionInv'
  <2> DEFINE was == s \in ended
  <2> DEFINE next == [Request(op) EXCEPT !.session = s, !.workspace = w, !.wasEnded = was]
  <2>1. Start(c, next) /\ overlapped \subseteq overlapped'
      BY <1>2 DEF StartSession
  <2>2. /\ next.op = op /\ next.session = s /\ next.step = 1 /\ next.row = None
        /\ next.account = None /\ next.existing = {} /\ (next.wasEnded <=> was)
      BY DEF Request
  <2>3. was => Stale(s, sessions, accounts, overlapped)
      BY DEF SessionInv
  <2> HIDE DEF next, was
  <2>4. Faithful(next, sessions, accounts, overlapped')
      BY <1>2, <2>1, <2>2, <2>3 DEF Faithful, Stale
  <2>5. QED
      BY <1>1, <2>1, <2>4
<1>3. ASSUME NEW op \in Writers, NEW u \in Users, NEW w, NEW t, NEW p,
             StartWriter(c, op, u, w, t, p)
      PROVE  SessionInv'
  <2> DEFINE old == Doomed(op, u)
  <2> DEFINE next == [Request(op) EXCEPT !.user = u, !.workspace = w, !.token = t,
                                         !.password = p, !.existing = old]
  <2>1. Start(c, next) /\ overlapped \subseteq overlapped'
      BY <1>3 DEF StartWriter
  <2>2. \A s \in old : sessions[s] # None /\ sessions[s].user = u
      BY DEF Doomed, SessionsOf
  <2> HIDE DEF old
  <2>3. /\ next.op = op /\ next.step = 1 /\ next.row = None /\ next.account = None
        /\ next.existing = old /\ next.wasEnded = FALSE /\ next.user = u
      BY DEF Request
  <2> HIDE DEF next
  <2>4. Faithful(next, sessions, accounts, overlapped')
      BY <1>3, <2>2, <2>3 DEF Faithful, Saved
  <2>5. QED
      BY <1>1, <2>1, <2>4
<1>4. ASSUME NEW u, NEW p, Login(c, u, p) PROVE SessionInv'
  <2> DEFINE next == [Request("login") EXCEPT !.user = u, !.password = p,
                                              !.existing = Doomed("login", u)]
  <2>1. Start(c, next) /\ overlapped \subseteq overlapped'
      BY <1>4 DEF Login
  <2>2. Doomed("login", u) = {}
      BY DEF Doomed, Writers
  <2>3. /\ next.op = "login" /\ next.row = None /\ next.account = None
        /\ next.existing = {} /\ next.wasEnded = FALSE
      BY <2>2 DEF Request
  <2> HIDE DEF next
  <2>4. Faithful(next, sessions, accounts, overlapped')
      BY <2>3 DEF Faithful
  <2>5. QED
      BY <1>1, <2>1, <2>4
<1>5. \A t \in Tokens : tokens[t] # None => tokens[t].user \in Users
    BY DEF TypeInv, TypeOK, TokenRows
<1>6. QED
    BY <1>2, <1>3, <1>4, <1>5 DEF Arrive, Context, Logout, SwitchWorkspace, LogoutAll,
       SuspendMembership, CompleteRecovery, SessionOperations, Writers

\* A request that answers.
LEMMA AnswerFaithful ==
    ASSUME TypeInv, TypeInv', Apart, SessionInv, NEW c \in Calls, Answer(c),
           UNCHANGED <<accounts, sessions, ended, overlapped, opened>>
    PROVE  SessionInv'
BY ReadingMoves DEF Answer

\* An ended session of an account of which nothing is claimed any more.
LEMMA EndedMoves ==
    ASSUME TypeInv, TypeInv', SessionInv, NEW c \in Calls, Running(c), calls[c].wasEnded,
           Steady, UNCHANGED <<accounts, overlapped>>,
           sessions[calls[c].session].user \in overlapped
    PROVE  /\ Stale(calls[c].session, sessions', accounts', overlapped')
           /\ sessions'[calls[c].session].user \in overlapped'
<1>1. calls[c].session \in SessionIds /\ sessions[calls[c].session] # None
    BY HasType DEF SessionInv, Faithful, Sound
<1>2. QED
    BY <1>1 DEF Steady, Stale

LEMMA SessionFaithful ==
    ASSUME TypeInv, TypeInv', Apart, SessionInv, NEW c \in Calls,
           \/ GetSession(c) \/ CheckVersion(c) \/ CheckMembership(c) \/ RevokeRefused(c)
           \/ List(c) \/ Revoke(c) \/ GetTarget(c) \/ SaveSession(c)
    PROVE  SessionInv'
<1> DEFINE r == calls[c]
<1>0. Running(c) => r \in Requests /\ Sound(r, sessions, tokens) /\ Faithful(r, sessions, accounts, overlapped)
    BY HasType DEF SessionInv
<1>1. ASSUME Refuse(c), UNCHANGED <<accounts, sessions, ended, overlapped, opened>>, Running(c),
             r.op \in SessionOperations
      PROVE  SessionInv'
  <2> DEFINE next == [r EXCEPT !.refused = TRUE, !.row = None]
  <2>1. calls' = [calls EXCEPT ![c] = next]
      BY <1>1 DEF Refuse, TypeInv, TypeOK
  <2>2. /\ next.op = r.op /\ next.row = None /\ next.account = r.account /\ next.step = r.step
        /\ next.refused = TRUE /\ next.existing = r.existing /\ next.wasEnded = r.wasEnded
        /\ next.session = r.session /\ next.user = r.user
      BY <1>0, <1>1 DEF Requests
  <2> HIDE DEF next
  <2>3. Faithful(next, sessions, accounts, overlapped)
      BY <1>0, <1>1, <2>2 DEF Faithful, AtSave, Saved
  <2>4. QED
      BY <1>1, <2>1, <2>3, ReadingMoves
<1>2. CASE GetSession(c)
  <2>1. At(c, "getSession") /\ UNCHANGED <<accounts, sessions, ended, overlapped, opened>>
      BY <1>2 DEF GetSession
  <2>2. Running(c) /\ r \in Requests /\ r.op \in SessionOperations /\ r.step = 1
      BY <2>1, WhereAt DEF Stands
  <2>3. CASE Continue(c, [r EXCEPT !.row = sessions[r.session]])
    <3> DEFINE next == [r EXCEPT !.row = sessions[r.session], !.step = r.step + 1]
    <3>1. calls' = [calls EXCEPT ![c] = next]
        BY <2>2, <2>3 DEF Continue, Requests
    <3>2. /\ next.op = r.op /\ next.row = sessions[r.session] /\ next.account = r.account
          /\ next.step = 2
          /\ next.existing = r.existing /\ next.wasEnded = r.wasEnded
          /\ next.session = r.session /\ next.user = r.user
        BY <2>2 DEF Requests
    <3> HIDE DEF next
    <3>3. Faithful(next, sessions, accounts, overlapped)
        BY <1>0, <2>2, <3>2 DEF Faithful, AtSave, Saved, SessionOperations, Writers
    <3>4. QED
        BY <2>1, <3>1, <3>3, ReadingMoves
  <2>4. QED
      BY <1>1, <1>2, <2>1, <2>2, <2>3, AnswerFaithful DEF GetSession
<1>3. ASSUME NEW row, UNCHANGED <<accounts, sessions, ended, overlapped, opened>>, Running(c),
             r.wasEnded => sessions[r.session].user \in overlapped,
             r.op \in SessionOperations, Continue(c, [r EXCEPT !.row = row]),
             row.user = r.row.user, row.version = r.row.version, r.row # None
      PROVE  SessionInv'
  <2> DEFINE next == [r EXCEPT !.row = row, !.step = r.step + 1]
  <2>1. calls' = [calls EXCEPT ![c] = next]
      BY <1>0, <1>3 DEF Continue, Requests
  <2>2. /\ next.op = r.op /\ next.row = row /\ next.account = r.account
        /\ next.existing = r.existing /\ next.wasEnded = r.wasEnded
        /\ next.session = r.session /\ next.user = r.user
      BY <1>0, <1>3 DEF Requests
  <2> HIDE DEF next
  <2>3. Faithful(next, sessions, accounts, overlapped)
      BY <1>0, <1>3, <2>2 DEF Faithful, AtSave, Saved, SessionOperations, Writers
  <2>4. QED
      BY <1>3, <2>1, <2>3, ReadingMoves
<1>4. CASE CheckVersion(c) \/ CheckMembership(c)
  <2>1. (At(c, "checkVersion") \/ At(c, "checkMembership"))
        /\ UNCHANGED <<accounts, sessions, ended, overlapped, opened>>
      BY <1>4 DEF CheckVersion, CheckMembership
  <2>2. /\ Running(c) /\ r \in Requests /\ r.op \in SessionOperations /\ r.step \in {2, 3}
        /\ ~r.refused /\ r.row \in SessionRows /\ r.session \in SessionIds
      BY <2>1, WhereAt DEF Stands, Sound
  <2>3. CASE Continue(c, r)
    <3>1. r.wasEnded => sessions[r.session].user \in overlapped
      <4>1. CASE CheckMembership(c)
        <5>1. r.step = 3
            BY <4>1, WhereAt DEF CheckMembership, Stands
        <5>2. QED
            BY <1>0, <2>2, <5>1 DEF Faithful
      <4>2. CASE CheckVersion(c)
        <5>1. SameVersion(r.row, accounts[r.row.user])
          <6>1. ~Refuse(c)
            <7>1. calls'[c].step = r.step + 1
                BY <2>2, <2>3 DEF Continue, TypeInv, TypeOK, Requests
            <7>2. Refuse(c) => calls'[c].step = r.step
                BY <2>2 DEF Refuse, TypeInv, TypeOK, Requests
            <7>3. QED
                BY <2>2, <7>1, <7>2
          <6>2. QED
              BY <4>2, <6>1 DEF CheckVersion
        <5>2. r.row.version = accounts[r.row.user].version /\ r.row.version \in Nat
            BY <2>2, <5>1 DEF SameVersion, SessionRows, Versions
        <5>3. r.row.user = sessions[r.session].user /\ r.row.version = sessions[r.session].version
            BY <1>0, <2>2, NoneAssumption DEF Faithful
        <5>4. Stale(r.session, sessions, accounts, overlapped)
                => sessions[r.session].user \in overlapped
            BY <5>2, <5>3 DEF Stale
        <5>5. QED
            BY <1>0, <2>2, <5>4 DEF Faithful
      <4>3. QED
          BY <1>4, <4>1, <4>2
    <3>2. r = [r EXCEPT !.row = r.row]
        BY <2>2 DEF Requests
    <3>3. Continue(c, [r EXCEPT !.row = r.row])
        BY <2>3, <3>2
    <3>4. r.row # None
        BY <2>2, NoneAssumption
    <3>5. QED
        BY <1>3, <2>1, <2>2, <3>1, <3>3, <3>4
  <2>4. QED
      BY <1>1, <1>4, <2>1, <2>2, <2>3 DEF CheckVersion, CheckMembership
<1>5. CASE GetTarget(c)
  <2>1. At(c, "getTarget") /\ UNCHANGED <<accounts, sessions, ended, overlapped, opened>>
      BY <1>5 DEF GetTarget
  <2>2. /\ Running(c) /\ r \in Requests /\ r.op \in SessionOperations /\ r.step = 4
        /\ ~r.refused /\ r.row \in SessionRows
      BY <2>1, WhereAt DEF Stands, Sound, SessionOperations
  <2>3. CASE Continue(c, [r EXCEPT !.row.workspace = r.workspace])
    <3> DEFINE row == [r.row EXCEPT !.workspace = r.workspace]
    <3>1. row.user = r.row.user /\ row.version = r.row.version
        BY <2>2 DEF SessionRows
    <3>2. Continue(c, [r EXCEPT !.row = row])
        BY <2>3
    <3> HIDE DEF row
    <3>3. (r.wasEnded => sessions[r.session].user \in overlapped) /\ r.row # None
        BY <1>0, <2>2, NoneAssumption DEF Faithful
    <3>4. QED
        BY <1>3, <2>1, <2>2, <3>1, <3>2, <3>3
  <2>4. QED
      BY <1>5, <2>1, <2>3, AnswerFaithful DEF GetTarget
<1>6. CASE List(c)
    BY <1>6, AnswerFaithful DEF List
<1>7. ASSUME NEW row, Running(c), r.op \in SessionOperations, UNCHANGED <<accounts, ended, overlapped, opened>>,
             sessions' = [sessions EXCEPT ![r.session] = row], row # None,
             row.user = sessions[r.session].user, row.version = sessions[r.session].version
      PROVE  /\ Steady
             /\ \A s \in SessionIds : sessions[s] = None => sessions'[s] = None
  <2>1. r.session \in SessionIds /\ sessions[r.session] # None
      BY <1>0, <1>7 DEF Sound
  <2>2. QED
      BY <1>7, <2>1 DEF Steady, TypeInv, TypeOK
<1>8. CASE RevokeRefused(c) \/ Revoke(c)
  <2> DEFINE row == [sessions[r.session] EXCEPT !.revoked = TRUE]
  <2>1. /\ Running(c) /\ r.op \in SessionOperations
    <3>1. CASE RevokeRefused(c)
        BY <1>0, <3>1 DEF RevokeRefused, Sound
    <3>2. CASE Revoke(c)
        BY <3>2, WhereAt DEF Revoke, Stands, SessionOperations
    <3>3. QED
        BY <1>8, <3>1, <3>2
  <2>2. sessions' = [sessions EXCEPT ![r.session] = row] /\ UNCHANGED <<accounts, ended, overlapped, opened>>
      BY <1>8 DEF RevokeRefused, Revoke, TypeInv, TypeOK
  <2>3. sessions[r.session] \in SessionRows
      BY <1>0, <2>1 DEF Sound, TypeInv, TypeOK
  <2>4. row \in SessionRows /\ row.user = sessions[r.session].user
        /\ row.version = sessions[r.session].version
      BY <2>3 DEF SessionRows
  <2> HIDE DEF row
  <2>5. row # None
      BY <2>4, NoneAssumption
  <2>6. Steady /\ \A s \in SessionIds : sessions[s] = None => sessions'[s] = None
      BY <1>7, <2>1, <2>2, <2>4, <2>5
  <2>7. CASE Answer(c)
      BY <2>2, <2>6, <2>7, RowMoves DEF Answer
  <2>8. CASE Revoke(c)
    <3> DEFINE next == [r EXCEPT !.row = None, !.step = r.step + 1]
    <3>1. calls' = [calls EXCEPT ![c] = next]
        BY <1>0, <2>1, <2>8 DEF Revoke, Continue, Requests
    <3>2. /\ next.op = r.op /\ next.row = None /\ next.account = r.account
          /\ next.existing = r.existing /\ next.wasEnded = r.wasEnded /\ next.session = r.session
        BY <1>0, <2>1 DEF Requests
    <3>3. r.step = 4 /\ ~r.refused
        BY <2>8, WhereAt DEF Revoke, Stands
    <3> HIDE DEF next
    <3>4. /\ r.wasEnded => sessions[r.session].user \in overlapped
          /\ r.account = None /\ r.existing = {}
        BY <1>0, <2>1, <3>3 DEF Faithful, SessionOperations, Writers
    <3>5. r.wasEnded => /\ Stale(r.session, sessions', accounts', overlapped')
                        /\ sessions'[r.session].user \in overlapped'
        BY <1>0, <2>1, <2>2, <2>6, <3>4, EndedMoves
    <3>6. Faithful(next, sessions', accounts', overlapped')
        BY <2>1, <3>2, <3>4, <3>5 DEF Faithful
    <3>7. QED
        BY <2>2, <2>6, <3>1, <3>6, RowMoves
  <2>9. QED
      BY <1>8, <2>7, <2>8 DEF RevokeRefused
<1>9. CASE SaveSession(c)
  <2>1. /\ sessions' = [sessions EXCEPT ![r.session] = r.row] /\ UNCHANGED <<accounts, ended, overlapped, opened>>
        /\ Continue(c, [r EXCEPT !.row = None])
      BY <1>9 DEF SaveSession
  <2>2. /\ Running(c) /\ r.op \in SessionOperations /\ r.step = 5 /\ ~r.refused
        /\ r.row \in SessionRows
      BY <1>9, WhereAt DEF SaveSession, Stands, Sound, SessionOperations
  <2>3. /\ r.row # None /\ r.row.user = sessions[r.session].user
        /\ r.row.version = sessions[r.session].version
      BY <1>0, <2>2, NoneAssumption DEF Faithful
  <2>4. Steady /\ \A s \in SessionIds : sessions[s] = None => sessions'[s] = None
      BY <1>7, <2>1, <2>2, <2>3
  <2> DEFINE next == [r EXCEPT !.row = None, !.step = r.step + 1]
  <2>5. calls' = [calls EXCEPT ![c] = next]
      BY <1>0, <2>1, <2>2 DEF Continue, Requests
  <2>6. /\ next.op = r.op /\ next.row = None /\ next.account = r.account
        /\ next.existing = r.existing /\ next.wasEnded = r.wasEnded /\ next.session = r.session
      BY <1>0, <2>2 DEF Requests
  <2> HIDE DEF next
  <2>7. /\ r.wasEnded => sessions[r.session].user \in overlapped
        /\ r.account = None /\ r.existing = {}
      BY <1>0, <2>2 DEF Faithful, SessionOperations, Writers
  <2>8. r.wasEnded => /\ Stale(r.session, sessions', accounts', overlapped')
                      /\ sessions'[r.session].user \in overlapped'
      BY <1>0, <2>1, <2>2, <2>4, <2>7, EndedMoves
  <2>9. Faithful(next, sessions', accounts', overlapped')
      BY <2>2, <2>6, <2>7, <2>8 DEF Faithful
  <2>10. QED
      BY <2>1, <2>4, <2>5, <2>9, RowMoves
<1>10. QED
    BY <1>2, <1>4, <1>5, <1>6, <1>8, <1>9

LEMMA AccountFaithful ==
    ASSUME TypeInv, TypeInv', Apart, SessionInv, NEW c \in Calls,
           \/ FindUser(c) \/ GetUser(c) \/ SaveUser(c) \/ RevokeAll(c) \/ FirstWorkspace(c)
    PROVE  SessionInv'
<1> DEFINE r == calls[c]
<1>0. Running(c) => r \in Requests /\ Sound(r, sessions, tokens) /\ Faithful(r, sessions, accounts, overlapped)
    BY HasType DEF SessionInv
<1>1. CASE FindUser(c) \/ GetUser(c)
  <2>1. /\ At(c, "findUser") \/ At(c, "getUser")
        /\ UNCHANGED <<accounts, sessions, ended, overlapped, opened>>
      BY <1>1 DEF FindUser, GetUser
  <2>2. /\ Running(c) /\ r.user \in Users /\ accounts[r.user] \in Accounts
        /\ <<r.op, r.step>> \in {<<"login", 1>>, <<"logoutAll", 1>>, <<"suspend", 2>>, <<"recover", 2>>}
      BY <2>1, WhereAt DEF Stands, Sound, TypeInv, TypeOK
  <2>3. ASSUME NEW copy, Continue(c, [r EXCEPT !.account = copy, !.password = None]),
               IF r.op = "login" THEN copy = accounts[r.user]
                                 ELSE copy.version = accounts[r.user].version + 1
        PROVE  SessionInv'
    <3> DEFINE next == [r EXCEPT !.account = copy, !.password = None, !.step = r.step + 1]
    <3>1. calls' = [calls EXCEPT ![c] = next]
        BY <1>0, <2>2, <2>3 DEF Continue, Requests
    <3>2. /\ next.op = r.op /\ next.row = r.row /\ next.account = copy
          /\ next.step = r.step + 1 /\ next.user = r.user
          /\ next.existing = r.existing /\ next.wasEnded = r.wasEnded
        BY <1>0, <2>2 DEF Requests
    <3> HIDE DEF next
    <3>3. r.row = None /\ ~r.wasEnded /\ r.op \notin SessionOperations
        BY <1>0, <2>2 DEF Faithful, SessionOperations
    <3>4. Saved(next) = FALSE /\ Saved(r) = FALSE /\ (AtSave(next) <=> r.op # "login")
        BY <2>2, <3>2 DEF Saved, AtSave
    <3>5. accounts[r.user].version \in Nat
        BY <2>2 DEF Accounts, Versions
    <3>6. IF AtSave(next) THEN next.account.version = accounts[next.user].version + 1
                          ELSE InStep(next.account.version, next.account.password, accounts[next.user])
        BY <2>3, <3>2, <3>4, <3>5 DEF InStep
    <3>7. Faithful(next, sessions, accounts, overlapped)
        BY <1>0, <2>2, <3>2, <3>3, <3>4, <3>6 DEF Faithful
    <3>8. QED
        BY <2>1, <3>1, <3>7, ReadingMoves
  <2>4. CASE FindUser(c)
    <3>1. r.op = "login"
        BY <2>4, WhereAt DEF FindUser, Stands
    <3>2. QED
        BY <2>1, <2>3, <2>4, <3>1, AnswerFaithful DEF FindUser
  <2>5. CASE GetUser(c)
    <3>1. r.op # "login"
        BY <2>5, WhereAt DEF GetUser, Stands
    <3>2. Bumped(accounts[r.user], r.password).version = accounts[r.user].version + 1
        BY DEF Bumped
    <3>3. QED
        BY <2>3, <2>5, <3>1, <3>2 DEF GetUser
  <2>6. QED
      BY <1>1, <2>4, <2>5
<1>2. CASE SaveUser(c)
  <2>1. /\ Continue(c, r) /\ UNCHANGED <<sessions, ended, overlapped, opened>>
        /\ accounts' = [accounts EXCEPT ![r.user] = r.account]
      BY <1>2 DEF SaveUser
  <2>2. /\ Running(c) /\ r.user \in Users /\ r.account \in Accounts /\ AtSave(r)
        /\ <<r.op, r.step>> \in {<<"logoutAll", 2>>, <<"suspend", 3>>, <<"recover", 3>>}
      BY <1>2, WhereAt DEF SaveUser, Stands, Sound, AtSave
  <2>3. r.user \notin overlapped => r.account.version = accounts[r.user].version + 1
      BY <1>0, <2>2, NoneAssumption DEF Faithful
  <2>4. /\ accounts'[r.user] = r.account
        /\ \A u \in Users \ {r.user} : accounts'[u] = accounts[u]
        /\ \A u \in Users : accounts[u].version \in Nat /\ accounts'[u].version \in Nat
      BY <2>1, <2>2 DEF TypeInv, TypeOK, Accounts, Versions
  <2>5. Grow
      BY <2>3, <2>4 DEF Grow
  <2>6. Steady
      BY <2>1 DEF Steady
  <2>7. NotAhead(sessions', accounts', overlapped', opened')
    <3> SUFFICES ASSUME NEW s \in SessionIds, sessions[s] # None, sessions[s].user \notin overlapped
                 PROVE  InStep(sessions[s].version, opened[s], accounts'[sessions[s].user])
        BY <2>1 DEF NotAhead
    <3>1. sessions[s].user \in Users /\ sessions[s].version \in Nat
        BY DEF TypeInv, TypeOK, SessionRows, Versions
    <3>2. InStep(sessions[s].version, opened[s], accounts[sessions[s].user])
        BY DEF SessionInv, NotAhead
    <3>3. QED
        BY <2>4, <2>5, <3>1, <3>2 DEF Grow, InStep
  <2> DEFINE next == [r EXCEPT !.step = r.step + 1]
  <2>8. calls' = [calls EXCEPT ![c] = next]
      BY <2>1 DEF Continue
  <2>9. /\ next.op = r.op /\ next.row = r.row /\ next.account = r.account
        /\ next.step = r.step + 1 /\ next.user = r.user
        /\ next.existing = r.existing /\ next.wasEnded = r.wasEnded
      BY <1>0, <2>2 DEF Requests
  <2> HIDE DEF next
  <2>10. r.row = None /\ ~r.wasEnded /\ r.op \notin SessionOperations
      BY <1>0, <2>2 DEF Faithful, SessionOperations
  <2>11. ~AtSave(next) /\ Saved(next) /\ ~Saved(r)
      BY <2>2, <2>9 DEF Saved, AtSave
  <2>12. \A s \in r.existing : r.op \in Writers /\ Stale(s, sessions', accounts', overlapped')
    <3> SUFFICES ASSUME NEW s \in r.existing
                 PROVE  r.op \in Writers /\ Stale(s, sessions', accounts', overlapped')
        OBVIOUS
    <3>1. s \in SessionIds /\ r.op \in Writers /\ sessions[s] # None /\ sessions[s].user = r.user
        BY <1>0, <2>2, <2>11 DEF Faithful, Requests
    <3>2. /\ r.user \notin overlapped => sessions[s].version <= accounts[r.user].version
          /\ sessions[s].version \in Nat
        BY <3>1 DEF SessionInv, NotAhead, InStep, TypeInv, TypeOK, SessionRows, Versions
    <3>3. QED
        BY <2>1, <2>2, <2>3, <2>4, <3>1, <3>2 DEF Stale
  <2>13. InStep(next.account.version, next.account.password, accounts'[next.user])
      BY <2>2, <2>4, <2>9 DEF InStep
  <2>14. Faithful(next, sessions', accounts', overlapped')
      BY <2>2, <2>9, <2>10, <2>11, <2>12, <2>13 DEF Faithful
  <2>15. \A u \in Users : accounts'[u] = accounts[u] \/ (Writing(calls[c]) /\ u = calls[c].user)
      BY <2>2, <2>4 DEF Writing, Writers, Running
  <2>16. \A s \in ended' \ ended : Stale(s, sessions', accounts', overlapped')
      BY <2>1
  <2>17. QED
      BY <2>5, <2>6, <2>7, <2>8, <2>14, <2>15, <2>16, SessionMoves
<1>3. CASE RevokeAll(c)
  <2>1. /\ Continue(c, r) /\ UNCHANGED <<accounts, ended, overlapped, opened>>
        /\ sessions' = [s \in SessionIds |-> IF s \in SessionsOf(r.user)
                            THEN [sessions[s] EXCEPT !.revoked = TRUE] ELSE sessions[s]]
      BY <1>3 DEF RevokeAll
  <2>2. /\ Running(c)
        /\ <<r.op, r.step>> \in {<<"login", 3>>, <<"logoutAll", 3>>, <<"suspend", 4>>, <<"recover", 5>>}
      BY <1>3, WhereAt DEF RevokeAll, Stands
  <2>3. \A s \in SessionsOf(r.user) :
            LET row == [sessions[s] EXCEPT !.revoked = TRUE]
            IN  row \in SessionRows /\ row.user = sessions[s].user
                /\ row.version = sessions[s].version /\ sessions[s] # None
    <3> SUFFICES ASSUME NEW s \in SessionsOf(r.user)
                 PROVE  LET row == [sessions[s] EXCEPT !.revoked = TRUE]
                        IN  row \in SessionRows /\ row.user = sessions[s].user
                            /\ row.version = sessions[s].version /\ sessions[s] # None
        OBVIOUS
    <3>1. sessions[s] \in SessionRows /\ sessions[s] # None
        BY DEF SessionsOf, TypeInv, TypeOK
    <3>2. QED
        BY <3>1 DEF SessionRows
  <2>4. Steady
      BY <2>1, <2>3, NoneAssumption DEF Steady
  <2>5. \A s \in SessionIds : sessions[s] = None => sessions'[s] = None
      BY <2>1, <2>3
  <2>6. Grow
      BY <2>1 DEF Grow
  <2>7. Faithful(r, sessions', accounts', overlapped')
      BY <1>0, <2>1, <2>2, <2>4, <2>6, OthersFaithful
  <2> DEFINE next == [r EXCEPT !.step = r.step + 1]
  <2>8. calls' = [calls EXCEPT ![c] = next]
      BY <2>1 DEF Continue
  <2>9. /\ next.op = r.op /\ next.row = r.row /\ next.account = r.account
        /\ next.step = r.step + 1 /\ next.user = r.user
        /\ next.existing = r.existing /\ next.wasEnded = r.wasEnded
      BY <1>0, <2>2 DEF Requests
  <2> HIDE DEF next
  <2>10. r.row = None /\ ~r.wasEnded /\ r.op \notin SessionOperations
      BY <1>0, <2>2 DEF Faithful, SessionOperations
  <2>11. ~AtSave(next) /\ ~AtSave(r) /\ (Saved(next) <=> Saved(r))
      BY <2>2, <2>9 DEF Saved, AtSave
  <2>12. Faithful(next, sessions', accounts', overlapped')
      BY <2>7, <2>9, <2>10, <2>11 DEF Faithful
  <2>13. QED
      BY <2>1, <2>4, <2>5, <2>8, <2>12, RowMoves
<1>4. CASE FirstWorkspace(c)
  <2>1. UNCHANGED <<accounts, sessions, ended, overlapped, opened>>
      BY <1>4 DEF FirstWorkspace
  <2>2. /\ Running(c) /\ <<r.op, r.step>> \in {<<"login", 2>>, <<"recover", 6>>}
      BY <1>4, WhereAt DEF FirstWorkspace, Stands
  <2>3. ASSUME NEW w, Continue(c, [r EXCEPT !.workspace = w]) PROVE SessionInv'
    <3> DEFINE next == [r EXCEPT !.workspace = w, !.step = r.step + 1]
    <3>1. calls' = [calls EXCEPT ![c] = next]
        BY <1>0, <2>2, <2>3 DEF Continue, Requests
    <3>2. /\ next.op = r.op /\ next.row = r.row /\ next.account = r.account
          /\ next.step = r.step + 1 /\ next.user = r.user
          /\ next.existing = r.existing /\ next.wasEnded = r.wasEnded
        BY <1>0, <2>2 DEF Requests
    <3> HIDE DEF next
    <3>3. r.row = None /\ ~r.wasEnded /\ r.op \notin SessionOperations
        BY <1>0, <2>2 DEF Faithful, SessionOperations
    <3>4. ~AtSave(next) /\ ~AtSave(r) /\ (Saved(next) <=> Saved(r))
        BY <2>2, <3>2 DEF Saved, AtSave
    <3>5. Faithful(next, sessions, accounts, overlapped)
        BY <1>0, <2>2, <3>2, <3>3, <3>4 DEF Faithful
    <3>6. QED
        BY <2>1, <3>1, <3>5, ReadingMoves
  <2>4. QED
      BY <1>4, <2>1, <2>3, AnswerFaithful DEF FirstWorkspace
<1>5. QED
    BY <1>1, <1>2, <1>3, <1>4

LEMMA OtherFaithful ==
    ASSUME Enders \subseteq Writers, TypeInv, TypeInv', Apart, SessionInv, NEW c \in Calls,
           \/ IssueSession(c) \/ SaveMembership(c) \/ GetToken(c) \/ ConsumeToken(c)
           \/ Audit(c) \/ Fault(c)
    PROVE  SessionInv'
<1> DEFINE r == calls[c]
<1>0. Running(c) => r \in Requests /\ Sound(r, sessions, tokens) /\ Faithful(r, sessions, accounts, overlapped)
    BY HasType DEF SessionInv
<1>1. CASE IssueSession(c)
  <2> DEFINE row == [user |-> r.user, workspace |-> r.workspace,
                     version |-> r.account.version, revoked |-> FALSE]
  <2>1. PICK s \in SessionIds : /\ sessions[s] = None /\ sessions' = [sessions EXCEPT ![s] = row]
                                /\ opened' = [opened EXCEPT ![s] = r.account.password]
      BY <1>1 DEF IssueSession
  <2>2. /\ UNCHANGED <<accounts, ended, overlapped>>
        /\ Continue(c, [r EXCEPT !.account = None, !.workspace = None])
      BY <1>1 DEF IssueSession
  <2>3. /\ Running(c) /\ <<r.op, r.step>> \in {<<"login", 4>>, <<"recover", 7>>}
        /\ r.user \in Users /\ r.account \in Accounts
    <3>1. At(c, "issue")
        BY <1>1 DEF IssueSession
    <3>2. Running(c) /\ Sound(r, sessions, tokens) /\ Stands("issue", r.op, r.step)
        BY <3>1, WhereAt
    <3>3. <<r.op, r.step>> \in {<<"login", 4>>, <<"recover", 7>>}
        BY <3>2 DEF Stands
    <3>4. QED
        BY <3>2, <3>3 DEF Sound
  <2>4. row.user = r.user /\ row.version = r.account.version
      OBVIOUS
  <2> HIDE DEF row
  <2>5. /\ sessions'[s] = row /\ opened'[s] = r.account.password
        /\ \A k \in SessionIds \ {s} : sessions'[k] = sessions[k] /\ opened'[k] = opened[k]
      BY <2>1 DEF TypeInv, TypeOK
  <2>6. Steady
      BY <2>1, <2>2, <2>5 DEF Steady
  <2>7. Grow
      BY <2>2 DEF Grow
  <2>8. r.user \notin overlapped =>
            InStep(r.account.version, r.account.password, accounts[r.user])
    <3>1. ~AtSave(r) /\ r.account # None
        BY <2>3, NoneAssumption DEF AtSave
    <3>2. QED
        BY <1>0, <2>3, <3>1 DEF Faithful
  <2>9. NotAhead(sessions', accounts', overlapped', opened')
      BY <2>2, <2>4, <2>5, <2>8 DEF SessionInv, NotAhead
  <2>10. Faithful(r, sessions', accounts', overlapped')
      BY <1>0, <2>2, <2>3, <2>6, <2>7, OthersFaithful
  <2> DEFINE next == [r EXCEPT !.account = None, !.workspace = None,
                               !.step = r.step + 1]
  <2>11. calls' = [calls EXCEPT ![c] = next]
      BY <1>0, <2>2, <2>3 DEF Continue, Requests
  <2>12. /\ next.op = r.op /\ next.row = r.row /\ next.account = None
         /\ next.step = r.step + 1
         /\ next.existing = r.existing /\ next.wasEnded = r.wasEnded
      BY <1>0, <2>3 DEF Requests
  <2> HIDE DEF next
  <2>13. r.row = None /\ ~r.wasEnded
      BY <1>0, <2>3 DEF Faithful, SessionOperations
  <2>14. r.op = "recover" => Saved(next) /\ Saved(r)
      BY <2>3, <2>12 DEF Saved
  <2>15. \A k \in r.existing : Saved(next) /\ r.op \in Writers /\ Stale(k, sessions', accounts', overlapped')
      BY <2>3, <2>10, <2>14 DEF Faithful, Writers
  <2>16. Faithful(next, sessions', accounts', overlapped')
      BY <2>12, <2>13, <2>15 DEF Faithful
  <2>17. \A k \in ended' \ ended : Stale(k, sessions', accounts', overlapped')
      BY <2>2
  <2>18. accounts' = accounts
      BY <2>2
  <2>19. QED
      BY <2>6, <2>7, <2>9, <2>11, <2>16, <2>17, <2>18, SessionMoves
<1>2. CASE SaveMembership(c) \/ GetToken(c) \/ ConsumeToken(c)
  <2>1. UNCHANGED <<accounts, sessions, ended, overlapped, opened>>
      BY <1>2 DEF SaveMembership, GetToken, ConsumeToken
  <2>2. /\ Running(c)
        /\ <<r.op, r.step>> \in {<<"suspend", 1>>, <<"recover", 1>>, <<"recover", 4>>}
      BY <1>2, WhereAt DEF SaveMembership, GetToken, ConsumeToken, Stands
  <2>3. CASE Continue(c, r)
    <3> DEFINE next == [r EXCEPT !.step = r.step + 1]
    <3>1. calls' = [calls EXCEPT ![c] = next]
        BY <2>3 DEF Continue
    <3>2. /\ next.op = r.op /\ next.row = r.row /\ next.account = r.account
          /\ next.step = r.step + 1 /\ next.user = r.user
          /\ next.existing = r.existing /\ next.wasEnded = r.wasEnded
        BY <1>0, <2>2 DEF Requests
    <3> HIDE DEF next
    <3>3. r.row = None /\ ~r.wasEnded /\ r.op \notin SessionOperations
        BY <1>0, <2>2 DEF Faithful, SessionOperations
    <3>4. ~AtSave(next) /\ ~AtSave(r) /\ (Saved(next) <=> Saved(r))
        BY <2>2, <3>2 DEF Saved, AtSave
    <3>5. Faithful(next, sessions, accounts, overlapped)
        BY <1>0, <2>2, <3>2, <3>3, <3>4 DEF Faithful
    <3>6. QED
        BY <2>1, <3>1, <3>5, ReadingMoves
  <2>4. QED
      BY <1>2, <2>1, <2>3, AnswerFaithful DEF SaveMembership, GetToken, ConsumeToken
<1>3. CASE Fault(c)
    BY <1>3, AnswerFaithful DEF Fault
<1>4. CASE Audit(c)
  <2> DEFINE own == IF r.op = "logout" /\ "logout" \in Enders THEN {r.session} ELSE {}
  <2>1. /\ calls' = [calls EXCEPT ![c] = None] /\ UNCHANGED <<accounts, sessions, overlapped, opened>>
        /\ ended' = (ended \cup r.existing) \cup own
      BY <1>4 DEF Audit, Answer
  <2>2. own = {}
      BY DEF Writers
  <2> HIDE DEF own
  <2>3. /\ Running(c)
        /\ <<r.op, r.step>> \in {<<"logout", 5>>, <<"switch", 6>>, <<"login", 5>>,
                                 <<"logoutAll", 4>>, <<"suspend", 5>>, <<"recover", 8>>}
      BY <1>4, WhereAt DEF Audit, Stands
  <2>4. r.op \in Writers => Saved(r)
      BY <2>3 DEF Writers, Saved
  <2>5. \A s \in r.existing : Stale(s, sessions, accounts, overlapped)
      BY <1>0, <2>3, <2>4 DEF Faithful
  <2>6. \A s \in ended' \ ended : Stale(s, sessions', accounts', overlapped')
      BY <2>1, <2>2, <2>5
  <2>7. Steady
      BY <2>1 DEF Steady
  <2>8. Grow
      BY <2>1 DEF Grow
  <2>9. NotAhead(sessions', accounts', overlapped', opened')
      BY <2>1 DEF SessionInv
  <2>10. accounts' = accounts
      BY <2>1
  <2>11. QED
      BY <2>1, <2>6, <2>7, <2>8, <2>9, <2>10, SessionMoves
<1>5. QED
    BY <1>1, <1>2, <1>3, <1>4

LEMMA SessionInvStep ==
    ASSUME Enders \subseteq Writers, TypeInv, TypeInv', Apart, SessionInv, [Next]_vars
    PROVE  SessionInv'
<1>1. CASE \/ UNCHANGED vars
           \/ \E u \in Users, t \in Tokens : RequestRecovery(u, t)
           \/ \E u \in Users, w \in Workspaces : SaveInvitedMembership(u, w)
  <2>1. UNCHANGED <<accounts, sessions, calls, ended, overlapped, opened>>
      BY <1>1 DEF vars, RequestRecovery, SaveInvitedMembership
  <2>2. QED
      BY <2>1 DEF SessionInv, Running
<1>2. QED
    BY <1>1, ArriveFaithful, SessionFaithful, AccountFaithful, OtherFaithful DEF Next, Statement

LEMMA SessionInvInit == Init => SessionInv
BY DEF Init, SessionInv, NotAhead, Running

\* A session that the version check accepts was issued under the password its
\* account has now, unless two calls were to save the account at one time: a
\* login that overlaps a recovery, or a recovery that fails after it saved the new
\* password, leaves no session of the old one that gets in.  For any number of
\* requests and failures.
THEOREM OldPasswordShutOut ==
    ASSUME Enders \subseteq Writers
    PROVE  Spec => []NoSessionOfOldPassword
<1>1. TypeInv /\ TypeInv' /\ Apart /\ SessionInv /\ [Next]_vars => SessionInv'
    BY SessionInvStep
<1>2. SessionInv => NoSessionOfOldPassword
    BY DEF SessionInv, NotAhead, InStep, NoSessionOfOldPassword, SameVersion
<1>3. QED
    BY <1>1, <1>2, ApartInit, ApartStep, TypeInit, TypeStep, SessionInvInit, PTL DEF Spec

\* A session that logout_all, a suspension or a recovery ended lets no later
\* request in, although a switch of workspace may write it back as not revoked:
\* the version of the account that the operation has saved keeps it out, unless
\* two calls were to save the account at one time.  A logout or login saves no
\* version.
THEOREM EndedSessionsStayOut ==
    ASSUME Enders \subseteq Writers
    PROVE  Spec => []EndedStaysOut
<1>1. TypeInv /\ TypeInv' /\ Apart /\ SessionInv /\ [Next]_vars => SessionInv'
    BY SessionInvStep
<1>2. TypeInv /\ SessionInv => EndedStaysOut
  <2> SUFFICES ASSUME TypeInv, SessionInv, NEW c \in Calls, Authorised(c),
                      sessions[calls[c].session].user \notin overlapped
               PROVE  ~calls[c].wasEnded
      BY DEF EndedStaysOut
  <2>1. Faithful(calls[c], sessions, accounts, overlapped) /\ calls[c] \in Requests
      BY HasType DEF SessionInv, Authorised
  <2>2. calls[c].step \in Int
      BY <2>1 DEF Requests
  <2>3. QED
      BY <2>1, <2>2 DEF Faithful, Authorised
<1>3. QED
    BY <1>1, <1>2, ApartInit, ApartStep, TypeInit, TypeStep, SessionInvInit, PTL DEF Spec

-----------------------------------------------------------------------------
(* Recovery tokens *)

\* A token that completed a recovery is consumed, no second recovery is past its
\* check, and who is past the consumption has consumed it: but for the tokens
\* that two recoveries came with.
Redeeming(r, toks, done, mixed) ==
    IF r.op = "recover"
    THEN r.token \notin mixed => /\ r.step >= 2 => done[r.token] = 0
                                 /\ r.step >= 5 => toks[r.token].consumed
    ELSE r.token = None

Redeemed(toks, done, mixed) ==
    \A t \in Tokens \ mixed : /\ done[t] \in {0, 1}
                              /\ done[t] # 0 => toks[t] # None /\ toks[t].consumed

TokenInv ==
    /\ Redeemed(tokens, completions, raced)
    /\ \A c \in Calls : Running(c) => Redeeming(calls[c], tokens, completions, raced)

LEMMA TokenMoves ==
    ASSUME TypeInv, TokenInv, NEW c \in Calls, NEW next, calls' = [calls EXCEPT ![c] = next],
           UNCHANGED <<tokens, completions>>, raced \subseteq raced',
           next # None => Redeeming(next, tokens, completions, raced')
    PROVE  TokenInv'
<1>1. calls'[c] = next /\ \A d \in Calls \ {c} : calls'[d] = calls[d]
    BY DEF TypeInv, TypeOK
<1>2. \A d \in Calls : calls'[d] # None => Redeeming(calls'[d], tokens, completions, raced')
    BY <1>1 DEF TokenInv, Running, Redeeming
<1>3. Redeemed(tokens, completions, raced')
    BY DEF TokenInv, Redeemed
<1>4. QED
    BY <1>2, <1>3 DEF TokenInv, Running

\* A request that goes on, not past the check or the consumption of its token.
LEMMA TokenContinues ==
    ASSUME TypeInv, TokenInv, NEW c \in Calls, Running(c), NEW request, Continue(c, request),
           request.op = calls[c].op, request.token = calls[c].token,
           [request EXCEPT !.step = request.step + 1].op = request.op,
           [request EXCEPT !.step = request.step + 1].token = request.token,
           [request EXCEPT !.step = request.step + 1].step = calls[c].step + 1,
           calls[c].op = "recover" => calls[c].step \notin {1, 4},
           UNCHANGED <<tokens, completions, raced>>
    PROVE  TokenInv'
<1> DEFINE next == [request EXCEPT !.step = request.step + 1]
<1>1. calls' = [calls EXCEPT ![c] = next]
    BY DEF Continue
<1>2. /\ next.op = calls[c].op /\ next.token = calls[c].token
      /\ next.step = calls[c].step + 1
    OBVIOUS
<1> HIDE DEF next
<1>3. calls[c].step \in Int /\ Redeeming(calls[c], tokens, completions, raced)
    BY HasType DEF TokenInv, Requests
<1>4. Redeeming(next, tokens, completions, raced)
    BY <1>2, <1>3 DEF Redeeming
<1>5. QED
    BY <1>1, <1>4, TokenMoves

LEMMA ArriveRedeems ==
    ASSUME TypeInv, TokenInv, NEW c \in Calls, Arrive(c)
    PROVE  TokenInv'
<1>1. ASSUME NEW next, Start(c, next), raced \subseteq raced',
             IF next.op = "recover" THEN next.step = 1 ELSE next.token = None
      PROVE  TokenInv'
  <2>1. Redeeming(next, tokens, completions, raced')
      BY <1>1 DEF Redeeming
  <2>2. QED
      BY <1>1, <2>1, TokenMoves DEF Start
<1>2. ASSUME NEW op \in SessionOperations, NEW s, NEW w, StartSession(c, op, s, w) PROVE TokenInv'
  <2> DEFINE next == [Request(op) EXCEPT !.session = s, !.workspace = w, !.wasEnded = s \in ended]
  <2>1. Start(c, next) /\ next.token = None /\ next.op # "recover" /\ raced' = raced
      BY <1>2 DEF StartSession, Request, SessionOperations
  <2> HIDE DEF next
  <2>2. QED
      BY <1>1, <2>1
<1>3. ASSUME NEW u, NEW p, Login(c, u, p) PROVE TokenInv'
  <2> DEFINE next == [Request("login") EXCEPT !.user = u, !.password = p,
                                              !.existing = Doomed("login", u)]
  <2>1. Start(c, next) /\ next.token = None /\ next.op # "recover" /\ raced' = raced
      BY <1>3 DEF Login, Request
  <2> HIDE DEF next
  <2>2. QED
      BY <1>1, <2>1
<1>4. ASSUME NEW op, NEW u, NEW w, NEW t, NEW p, StartWriter(c, op, u, w, t, p),
             op = "recover" \/ t = None
      PROVE  TokenInv'
  <2> DEFINE next == [Request(op) EXCEPT !.user = u, !.workspace = w, !.token = t,
                                         !.password = p, !.existing = Doomed(op, u)]
  <2>1. /\ Start(c, next) /\ next.token = t /\ next.step = 1 /\ next.op = op
        /\ raced \subseteq raced'
      BY <1>4 DEF StartWriter, Request
  <2> HIDE DEF next
  <2>2. QED
      BY <1>1, <1>4, <2>1
<1>5. QED
    BY <1>2, <1>3, <1>4 DEF Arrive, Context, Logout, SwitchWorkspace, LogoutAll,
       SuspendMembership, CompleteRecovery, SessionOperations

LEMMA StatementRedeems ==
    ASSUME TypeInv, Apart, TokenInv, NEW c \in Calls,
           \/ GetSession(c) \/ CheckVersion(c) \/ CheckMembership(c) \/ RevokeRefused(c)
           \/ List(c) \/ Revoke(c) \/ GetTarget(c) \/ SaveSession(c)
           \/ FindUser(c) \/ GetUser(c) \/ SaveUser(c) \/ RevokeAll(c) \/ FirstWorkspace(c)
           \/ IssueSession(c) \/ SaveMembership(c) \/ Fault(c)
    PROVE  TokenInv'
<1> DEFINE r == calls[c]
<1>1. CASE Answer(c)
  <2>1. UNCHANGED <<tokens, completions, raced>>
      BY DEF GetSession, CheckVersion, CheckMembership, RevokeRefused, List, Revoke,
             GetTarget, SaveSession, FindUser, GetUser, SaveUser, RevokeAll, FirstWorkspace,
             IssueSession, SaveMembership, Fault
  <2>2. QED
      BY <1>1, <2>1, TokenMoves DEF Answer
<1>2. UNCHANGED <<tokens, completions, raced>>
    BY DEF GetSession, CheckVersion, CheckMembership, RevokeRefused, List, Revoke,
           GetTarget, SaveSession, FindUser, GetUser, SaveUser, RevokeAll, FirstWorkspace,
           IssueSession, SaveMembership, Fault
<1>3. Running(c)
    BY DEF GetSession, CheckVersion, CheckMembership, RevokeRefused, List, Revoke,
           GetTarget, SaveSession, FindUser, GetUser, SaveUser, RevokeAll, FirstWorkspace,
           IssueSession, SaveMembership, Fault, At
<1>4. r \in Requests /\ r.step \in Int
    BY <1>3, HasType DEF Requests
<1>5. CASE Refuse(c)
  <2> DEFINE next == [r EXCEPT !.refused = TRUE, !.row = None]
  <2>1. calls' = [calls EXCEPT ![c] = next]
      BY <1>5 DEF Refuse, TypeInv, TypeOK
  <2>2. next.op = r.op /\ next.token = r.token /\ next.step = r.step
      BY <1>4 DEF Requests
  <2> HIDE DEF next
  <2>3. Redeeming(next, tokens, completions, raced)
      BY <1>3, <2>2 DEF TokenInv, Redeeming
  <2>4. QED
      BY <1>2, <2>1, <2>3, TokenMoves
<1>6. r.op = "recover" /\ ~Answer(c) => r.step \notin {1, 4}
  <2> DEFINE Others == {"getSession", "checkVersion", "checkMembership", "revoke", "getTarget",
                        "saveSession", "findUser", "getUser", "saveUser", "revokeAll",
                        "firstWorkspace", "issue", "saveMembership"}
  <2>1. ~Answer(c) => \E st \in Others : At(c, st)
      BY DEF GetSession, CheckVersion, CheckMembership, RevokeRefused, List, Revoke,
             GetTarget, SaveSession, FindUser, GetUser, SaveUser, RevokeAll, FirstWorkspace,
             IssueSession, SaveMembership, Fault
  <2>2. ASSUME NEW st \in Others, At(c, st), r.op = "recover" PROVE r.step \notin {1, 4}
    <3>1. Stands(st, r.op, r.step)
        BY <2>2, WhereAt
    <3>2. QED
        BY <2>2, <3>1 DEF Stands, SessionOperations
  <2>3. QED
      BY <2>1, <2>2
<1> SUFFICES ASSUME ~Answer(c), ~Refuse(c) PROVE TokenInv'
    BY <1>1, <1>5
<1>7. \/ Continue(c, r)
      \/ \E row : Continue(c, [r EXCEPT !.row = row])
      \/ \E copy : Continue(c, [r EXCEPT !.account = copy, !.password = None])
      \/ \E w : Continue(c, [r EXCEPT !.workspace = w])
      \/ Continue(c, [r EXCEPT !.account = None, !.workspace = None])
  <2>1. CASE GetTarget(c)
      BY <2>1 DEF GetTarget
  <2>2. CASE ~GetTarget(c)
      BY <2>2 DEF GetSession, CheckVersion, CheckMembership, RevokeRefused, List, Revoke,
             SaveSession, FindUser, GetUser, SaveUser, RevokeAll, FirstWorkspace,
             IssueSession, SaveMembership, Fault
  <2>3. QED
      BY <2>1, <2>2
<1>8. CASE Continue(c, r)
    BY <1>2, <1>3, <1>4, <1>6, <1>8, TokenContinues DEF Requests
<1>9. ASSUME NEW row, Continue(c, [r EXCEPT !.row = row]) PROVE TokenInv'
  <2> DEFINE request == [r EXCEPT !.row = row]
  <2>1. /\ request.op = r.op /\ request.token = r.token
        /\ [request EXCEPT !.step = request.step + 1].op = request.op
        /\ [request EXCEPT !.step = request.step + 1].token = request.token
        /\ [request EXCEPT !.step = request.step + 1].step = r.step + 1
      BY <1>4 DEF Requests
  <2>2. Continue(c, request)
      BY <1>9
  <2> HIDE DEF request
  <2>3. QED
      BY <1>2, <1>3, <1>6, <2>1, <2>2, TokenContinues
<1>10. ASSUME NEW copy, Continue(c, [r EXCEPT !.account = copy, !.password = None]) PROVE TokenInv'
  <2> DEFINE request == [r EXCEPT !.account = copy, !.password = None]
  <2>1. /\ request.op = r.op /\ request.token = r.token
        /\ [request EXCEPT !.step = request.step + 1].op = request.op
        /\ [request EXCEPT !.step = request.step + 1].token = request.token
        /\ [request EXCEPT !.step = request.step + 1].step = r.step + 1
      BY <1>4 DEF Requests
  <2>2. Continue(c, request)
      BY <1>10
  <2> HIDE DEF request
  <2>3. QED
      BY <1>2, <1>3, <1>6, <2>1, <2>2, TokenContinues
<1>11. ASSUME NEW w, Continue(c, [r EXCEPT !.workspace = w]) PROVE TokenInv'
  <2> DEFINE request == [r EXCEPT !.workspace = w]
  <2>1. /\ request.op = r.op /\ request.token = r.token
        /\ [request EXCEPT !.step = request.step + 1].op = request.op
        /\ [request EXCEPT !.step = request.step + 1].token = request.token
        /\ [request EXCEPT !.step = request.step + 1].step = r.step + 1
      BY <1>4 DEF Requests
  <2>2. Continue(c, request)
      BY <1>11
  <2> HIDE DEF request
  <2>3. QED
      BY <1>2, <1>3, <1>6, <2>1, <2>2, TokenContinues
<1>12. CASE Continue(c, [r EXCEPT !.account = None, !.workspace = None])
  <2> DEFINE request == [r EXCEPT !.account = None, !.workspace = None]
  <2>1. /\ request.op = r.op /\ request.token = r.token
        /\ [request EXCEPT !.step = request.step + 1].op = request.op
        /\ [request EXCEPT !.step = request.step + 1].token = request.token
        /\ [request EXCEPT !.step = request.step + 1].step = r.step + 1
      BY <1>4 DEF Requests
  <2>2. Continue(c, request)
      BY <1>12
  <2> HIDE DEF request
  <2>3. QED
      BY <1>2, <1>3, <1>6, <2>1, <2>2, TokenContinues
<1>13. QED
    BY <1>7, <1>8, <1>9, <1>10, <1>11, <1>12

\* The check: a token that is not consumed has completed nothing.
LEMMA CheckRedeems ==
    ASSUME TypeInv, TokenInv, NEW c \in Calls, GetToken(c)
    PROVE  TokenInv'
<1> DEFINE r == calls[c]
<1>1. At(c, "getToken") /\ UNCHANGED <<tokens, completions, raced>>
    BY DEF GetToken
<1>2. /\ Running(c) /\ r \in Requests /\ r.op = "recover" /\ r.step = 1 /\ r.token \in Tokens
    BY <1>1, WhereAt DEF Stands, Sound
<1>3. CASE Answer(c)
    BY <1>1, <1>3, TokenMoves DEF Answer
<1>4. CASE ~tokens[r.token].consumed /\ Continue(c, r)
  <2> DEFINE next == [r EXCEPT !.step = r.step + 1]
  <2>1. calls' = [calls EXCEPT ![c] = next]
      BY <1>4 DEF Continue
  <2>2. next.op = r.op /\ next.token = r.token /\ next.step = 2
      BY <1>2 DEF Requests
  <2> HIDE DEF next
  <2>3. r.token \notin raced => completions[r.token] = 0
      BY <1>2, <1>4 DEF TokenInv, Redeemed
  <2>4. Redeeming(next, tokens, completions, raced)
      BY <1>2, <2>2, <2>3 DEF Redeeming
  <2>5. QED
      BY <1>1, <2>1, <2>4, TokenMoves
<1>5. QED
    BY <1>3, <1>4 DEF GetToken

\* The consumption.
LEMMA ConsumeRedeems ==
    ASSUME TypeInv, Apart, TokenInv, NEW c \in Calls, ConsumeToken(c)
    PROVE  TokenInv'
<1> DEFINE r == calls[c]
<1>1. At(c, "consume") /\ Continue(c, r) /\ UNCHANGED <<completions, raced>>
    BY DEF ConsumeToken
<1>2. /\ Running(c) /\ r \in Requests /\ r.op = "recover" /\ r.step = 4 /\ r.token \in Tokens
      /\ tokens[r.token] \in TokenRows
    BY <1>1, WhereAt DEF Stands, Sound, TypeInv, TypeOK
<1> DEFINE row == [tokens[r.token] EXCEPT !.consumed = TRUE]
<1>3. row \in TokenRows /\ row.consumed = TRUE
    BY <1>2 DEF TokenRows
<1>4. tokens' = [tokens EXCEPT ![r.token] = row]
    BY DEF ConsumeToken, TypeInv, TypeOK
<1> HIDE DEF row
<1>5. /\ tokens'[r.token].consumed = TRUE /\ tokens'[r.token] # None
      /\ \A t \in Tokens \ {r.token} : tokens'[t] = tokens[t]
    BY <1>2, <1>3, <1>4, NoneAssumption DEF TypeInv, TypeOK
<1> DEFINE next == [r EXCEPT !.step = r.step + 1]
<1>6. calls' = [calls EXCEPT ![c] = next]
    BY <1>1 DEF Continue
<1>7. next.op = r.op /\ next.token = r.token /\ next.step = 5
    BY <1>2 DEF Requests
<1> HIDE DEF next
<1>8. Redeeming(r, tokens, completions, raced)
    BY <1>2 DEF TokenInv
<1>9. Redeeming(next, tokens', completions, raced)
    BY <1>2, <1>5, <1>7, <1>8 DEF Redeeming
<1>10. ASSUME NEW d \in Calls \ {c}, calls[d] # None PROVE Redeeming(calls[d], tokens', completions, raced)
  <2>1. Redeeming(calls[d], tokens, completions, raced)
      BY <1>10 DEF TokenInv, Running
  <2>2. calls[d].op = "recover" /\ calls[d].token \notin raced =>
            calls[d].token # r.token /\ calls[d].token \in Tokens
      BY <1>2, <1>10, HasType DEF Apart, OneRecovery, Running, Sound
  <2>3. QED
      BY <1>5, <2>1, <2>2 DEF Redeeming
<1>11. calls'[c] = next /\ \A d \in Calls \ {c} : calls'[d] = calls[d]
    BY <1>6 DEF TypeInv, TypeOK
<1>12. \A d \in Calls : calls'[d] # None => Redeeming(calls'[d], tokens', completions, raced)
    BY <1>9, <1>10, <1>11
<1>13. Redeemed(tokens', completions, raced)
    BY <1>5 DEF TokenInv, Redeemed
<1>14. QED
    BY <1>1, <1>12, <1>13 DEF TokenInv, Running

\* The answer: the only recovery past the check completes.
LEMMA AuditRedeems ==
    ASSUME TypeInv, Apart, TokenInv, NEW c \in Calls, Audit(c)
    PROVE  TokenInv'
<1> DEFINE r == calls[c]
<1>1. /\ At(c, "audit") /\ calls' = [calls EXCEPT ![c] = None] /\ UNCHANGED <<tokens, raced>>
      /\ completions' = [t \in Tokens |->
             IF t = r.token THEN completions[t] + 1 ELSE completions[t]]
    BY DEF Audit, Answer
<1>2. /\ Running(c) /\ r \in Requests /\ Sound(r, sessions, tokens)
      /\ r.op = "recover" => r.step = 8 /\ r.token \in Tokens /\ tokens[r.token] # None
    BY <1>1, WhereAt DEF Stands, Sound
<1>3. Redeeming(r, tokens, completions, raced)
    BY <1>2 DEF TokenInv
<1>4. CASE r.op # "recover"
  <2>1. r.token \notin Tokens
      BY <1>3, <1>4, NoneAssumption DEF Redeeming
  <2>2. completions' = completions
      BY <1>1, <2>1 DEF TypeInv, TypeOK
  <2>3. QED
      BY <1>1, <2>2, TokenMoves
<1>5. CASE r.op = "recover"
  <2>1. r.token \notin raced => completions[r.token] = 0 /\ tokens[r.token].consumed
      BY <1>2, <1>3, <1>5 DEF Redeeming
  <2>2. Redeemed(tokens, completions', raced)
      BY <1>1, <1>2, <1>5, <2>1 DEF TokenInv, Redeemed
  <2>3. ASSUME NEW d \in Calls \ {c}, calls[d] # None PROVE Redeeming(calls[d], tokens, completions', raced)
    <3>1. Redeeming(calls[d], tokens, completions, raced)
        BY <2>3 DEF TokenInv, Running
    <3>2. calls[d].op = "recover" /\ calls[d].token \notin raced =>
              calls[d].token # r.token /\ calls[d].token \in Tokens
        BY <1>2, <1>5, <2>3, HasType DEF Apart, OneRecovery, Running, Sound
    <3>3. QED
        BY <1>1, <3>1, <3>2 DEF Redeeming
  <2>4. calls'[c] = None /\ \A d \in Calls \ {c} : calls'[d] = calls[d]
      BY <1>1 DEF TypeInv, TypeOK
  <2>5. QED
      BY <1>1, <2>2, <2>3, <2>4 DEF TokenInv, Running
<1>6. QED
    BY <1>4, <1>5

LEMMA NewTokenRedeems ==
    ASSUME TypeInv, TokenInv, NEW u \in Users, NEW t \in Tokens, RequestRecovery(u, t)
    PROVE  TokenInv'
<1>1. /\ tokens[t] = None /\ UNCHANGED <<calls, completions, raced>>
      /\ \A k \in Tokens \ {t} : tokens'[k] = tokens[k]
    BY DEF RequestRecovery, TypeInv, TypeOK
<1>2. t \notin raced => completions[t] = 0
    BY <1>1 DEF TokenInv, Redeemed
<1>3. ASSUME NEW c \in Calls, Running(c) PROVE Redeeming(calls[c], tokens', completions, raced)
  <2>1. Redeeming(calls[c], tokens, completions, raced) /\ Sound(calls[c], sessions, tokens)
      BY <1>3, HasType DEF TokenInv
  <2>2. QED
      BY <1>1, <2>1 DEF Redeeming, Sound
<1>4. Redeemed(tokens', completions, raced)
    BY <1>1, <1>2 DEF TokenInv, Redeemed
<1>5. QED
    BY <1>1, <1>3, <1>4 DEF TokenInv, Running

LEMMA TokenStep ==
    ASSUME TypeInv, Apart, TokenInv, [Next]_vars
    PROVE  TokenInv'
<1>1. CASE UNCHANGED vars \/ \E u \in Users, w \in Workspaces : SaveInvitedMembership(u, w)
    BY <1>1 DEF vars, SaveInvitedMembership, TokenInv, Redeemed, Running
<1>2. QED
    BY <1>1, ArriveRedeems, StatementRedeems, CheckRedeems, ConsumeRedeems, AuditRedeems,
       NewTokenRedeems DEF Next, Statement

\* A recovery token that no two recoveries came with at one time completes one
\* recovery at most, whatever failed before and whatever else saves the account,
\* however many requests there are.
THEOREM TokensRedeemedOnce == Spec => []TokenCompletesOnce
<1>1. Init => TokenInv
    BY DEF Init, TokenInv, Redeemed, Running
<1>2. TypeInv /\ Apart /\ TokenInv /\ [Next]_vars => TokenInv'
    BY TokenStep
<1>3. TypeInv /\ TokenInv => TokenCompletesOnce
    BY DEF TokenInv, Redeemed, TokenCompletesOnce
<1>4. QED
    BY <1>1, <1>2, <1>3, ApartInit, ApartStep, TypeInit, TypeStep, PTL DEF Spec
=============================================================================
