---------------------------- MODULE AuthEnrolment ----------------------------
(***************************************************************************)
(* How people come into workspaces: registration and school invitations of *)
(* application/AuthService.ts over adapters/persistence/                   *)
(* PostgresAuthStore.ts.                                                   *)
(*                                                                         *)
(* register writes in a transaction: the others see what it did when it    *)
(* commits, except that an insert waits for an uncommitted one with the    *)
(* same unique value.  consumeSchoolInvitation runs its statements one by  *)
(* one, each committed at once.                                            *)
(*                                                                         *)
(* An account is known by its email, which no operation here changes, and  *)
(* the clock is not modelled: an invitation may be found expired whenever  *)
(* it is looked at.  Left out: passwords, sessions (AuthSessions), audit   *)
(* rows and what the mail says.                                            *)
(***************************************************************************)
EXTENDS Integers, Sequences, FiniteSets

CONSTANTS
    Calls,           \* requests in flight
    Emails, Admin,   \* the school's administrator, an account from the start
    School, Personals,               \* workspaces; bound: personal ones created
    Tokens, None,
    MaxFaults        \* bound: statements that fail

ASSUME EnrolmentAssumption ==
    Admin \in Emails /\ School \notin Personals /\ MaxFaults \in Nat

VARIABLES
    accounts,        \* the emails that have an account row
    memberships,     \* email, workspace -> membership row, or None
    invitations,     \* token -> its row, or None
    calls,           \* call -> the running request, or None
    faults,
    mailed,          \* tokens whose mail an adapter accepted
    answered,        \* emails that a registration was answered for
    acceptances,     \* token -> how often accepting it was answered
    raced            \* tokens that two calls were consuming at one time

vars == <<accounts, memberships, invitations, calls, faults, mailed, answered,
          acceptances, raced>>

Workspaces == Personals \cup {School}

Roles == {"school_admin", "teacher"}

Memberships == [role : Roles, state : {"active", "suspended"}]

Invitations == [email : Emails, role : Roles, state : {"pending", "accepted"},
                acceptedBy : Emails \cup {None}]

\* A request: the statement it is at, its email or token, and what it has read:
\* the invitation, or the workspace it is creating.
Requests == [at : {"find", "listMemberships", "insertAccount", "commitAccount",
                   "commitWorkspace", "checkCreator", "send", "commitInvitation",
                   "getInvitation", "findAccount", "saveAccount", "saveMembership",
                   "acceptInvitation", "audit", "saveSuspended"},
             email : Emails \cup {None}, token : Tokens \cup {None}, role : Roles,
             invitation : Invitations \cup {None}]

ASSUME NoneAssumption ==
    None \notin Memberships /\ None \notin Invitations /\ None \notin Requests

\* Type invariant.
TypeOK ==
    /\ accounts \subseteq Emails
    /\ memberships \in [Emails \X Workspaces -> Memberships \cup {None}]
    /\ invitations \in [Tokens -> Invitations \cup {None}]
    /\ calls \in [Calls -> Requests \cup {None}]
    /\ faults \in 0 .. MaxFaults
    /\ mailed \subseteq Tokens /\ raced \subseteq Tokens
    /\ answered \subseteq Emails
    /\ acceptances \in [Tokens -> Nat]

Member(role) == [role |-> role, state |-> "active"]

Init ==
    /\ accounts = {Admin}
    /\ memberships = [m \in Emails \X Workspaces |->
                         IF m = <<Admin, School>> THEN Member("school_admin") ELSE None]
    /\ invitations = [t \in Tokens |-> None]
    /\ calls = [c \in Calls |-> None]
    /\ faults = 0
    /\ mailed = {} /\ answered = {} /\ raced = {}
    /\ acceptances = [t \in Tokens |-> 0]

At(c, statement) == calls[c] # None /\ calls[c].at = statement

Request(at, email, token, role) ==
    [at |-> at, email |-> email, token |-> token, role |-> role, invitation |-> None]

Start(c, request) == calls[c] = None /\ calls' = [calls EXCEPT ![c] = request]

Goto(c, statement) == calls' = [calls EXCEPT ![c].at = statement]

\* The call answers, with a result or an error.
Answer(c) == calls' = [calls EXCEPT ![c] = None]

ActiveIn(e, w) == memberships[<<e, w>>] # None /\ memberships[<<e, w>>].state = "active"

HasActiveWorkspace(e) == \E w \in Workspaces : ActiveIn(e, w)

-----------------------------------------------------------------------------
(* register *)

Register(c, e) ==
    /\ Start(c, Request("find", e, None, "teacher"))
    /\ UNCHANGED <<accounts, memberships, invitations, faults, mailed, answered,
                   acceptances, raced>>

\* Mutant of FindAccount: an account that exists is taken to have a workspace.
FindAndAccept(c) ==
    /\ At(c, "find")
    /\ IF calls[c].email \in accounts
       THEN Answer(c) /\ answered' = answered \cup {calls[c].email}
       ELSE Goto(c, "insertAccount") /\ UNCHANGED answered
    /\ UNCHANGED <<accounts, memberships, invitations, faults, mailed, acceptances, raced>>

FindAccount(c) ==
    /\ At(c, "find")
    /\ Goto(c, IF calls[c].email \in accounts THEN "listMemberships" ELSE "insertAccount")
    /\ UNCHANGED <<accounts, memberships, invitations, faults, mailed, answered,
                   acceptances, raced>>

\* An account row that is inserted and not committed.
Claimed(e) == \E d \in Calls : At(d, "commitAccount") /\ calls[d].email = e

\* begin; the account row, which the unique index on email refuses.
InsertAccount(c) ==
    /\ At(c, "insertAccount") /\ ~Claimed(calls[c].email)
    /\ IF calls[c].email \in accounts THEN Answer(c) ELSE Goto(c, "commitAccount")
    /\ UNCHANGED <<accounts, memberships, invitations, faults, mailed, answered,
                   acceptances, raced>>

Unowned == {w \in Personals : \A e \in Emails : memberships[<<e, w>>] = None}

\* A personal workspace with a new id.
CreatePersonalWorkspace(e) ==
    \E w \in Unowned : memberships' = [memberships EXCEPT ![<<e, w>>] = Member("teacher")]

CommitAccount(c) ==
    /\ At(c, "commitAccount")
    /\ accounts' = accounts \cup {calls[c].email}
    /\ CreatePersonalWorkspace(calls[c].email)
    /\ answered' = answered \cup {calls[c].email}
    /\ Answer(c)
    /\ UNCHANGED <<invitations, faults, mailed, acceptances, raced>>

\* ensureActiveWorkspaceContext: a transaction that locks nothing it reads.
ListMemberships(c) ==
    /\ At(c, "listMemberships")
    /\ IF HasActiveWorkspace(calls[c].email)
       THEN Answer(c) /\ answered' = answered \cup {calls[c].email}
       ELSE Goto(c, "commitWorkspace") /\ UNCHANGED answered
    /\ UNCHANGED <<accounts, memberships, invitations, faults, mailed, acceptances, raced>>

CommitWorkspace(c) ==
    /\ At(c, "commitWorkspace")
    /\ CreatePersonalWorkspace(calls[c].email)
    /\ answered' = answered \cup {calls[c].email}
    /\ Answer(c)
    /\ UNCHANGED <<accounts, invitations, faults, mailed, acceptances, raced>>

-----------------------------------------------------------------------------
(* createSchoolInvitation *)

Unused(t) == invitations[t] = None /\ t \notin mailed /\
             \A d \in Calls : calls[d] # None => calls[d].token # t

Invite(c, e, t, role) ==
    /\ Unused(t)
    /\ Start(c, Request("checkCreator", e, t, role))
    /\ UNCHANGED <<accounts, memberships, invitations, faults, mailed, answered,
                   acceptances, raced>>

\* The membership of the creator, before the transaction.
CheckCreator(c) ==
    /\ At(c, "checkCreator")
    /\ IF ActiveIn(Admin, School) /\ memberships[<<Admin, School>>].role = "school_admin"
       THEN Goto(c, "send")
       ELSE Answer(c)
    /\ UNCHANGED <<accounts, memberships, invitations, faults, mailed, answered,
                   acceptances, raced>>

\* The invitation is inserted and, in the same transaction, its mail is
\* dispatched; a rejected dispatch throws and rolls both back.
SendInvitation(c) ==
    /\ At(c, "send")
    /\ \/ /\ Goto(c, "commitInvitation")
          /\ mailed' = mailed \cup {calls[c].token}
       \/ /\ Answer(c)
          /\ UNCHANGED mailed
    /\ UNCHANGED <<accounts, memberships, invitations, faults, answered, acceptances, raced>>

CommitInvitation(c) ==
    /\ At(c, "commitInvitation")
    /\ invitations' = [invitations EXCEPT ![calls[c].token] =
           [email |-> calls[c].email, role |-> calls[c].role, state |-> "pending",
            acceptedBy |-> None]]
    /\ Answer(c)
    /\ UNCHANGED <<accounts, memberships, faults, mailed, answered, acceptances, raced>>

-----------------------------------------------------------------------------
(* consumeSchoolInvitation *)

Consuming(t) == {d \in Calls : calls[d] # None /\ calls[d].token = t /\
    calls[d].at \in {"getInvitation", "findAccount", "saveAccount", "saveMembership",
                     "acceptInvitation", "audit"}}

\* The mail is sent before the invitation is committed.
Consume(c, t) ==
    /\ t \in mailed
    /\ Start(c, Request("getInvitation", None, t, "teacher"))
    /\ raced' = IF Consuming(t) = {} THEN raced ELSE raced \cup {t}
    /\ UNCHANGED <<accounts, memberships, invitations, faults, mailed, answered, acceptances>>

\* Mutant of Usable: the state of the invitation is not looked at.
Known(t) == invitations[t] # None

Usable(t) == invitations[t] # None /\ invitations[t].state = "pending"

\* requireUsableInvitation: also an invitation that is past its time is refused.
GetInvitation(c) ==
    /\ At(c, "getInvitation")
    /\ LET t == calls[c].token
       IN  \/ /\ Usable(t)
              /\ calls' = [calls EXCEPT ![c].at = "findAccount",
                                        ![c].invitation = invitations[t],
                                        ![c].email = invitations[t].email]
           \/ Answer(c)
    /\ UNCHANGED <<accounts, memberships, invitations, faults, mailed, answered,
                   acceptances, raced>>

FindInvited(c) ==
    /\ At(c, "findAccount")
    /\ Goto(c, IF calls[c].email \in accounts THEN "saveMembership" ELSE "saveAccount")
    /\ UNCHANGED <<accounts, memberships, invitations, faults, mailed, answered,
                   acceptances, raced>>

SaveAccount(c) ==
    /\ At(c, "saveAccount") /\ ~Claimed(calls[c].email)
    /\ IF calls[c].email \in accounts
       THEN Answer(c) /\ UNCHANGED accounts
       ELSE Goto(c, "saveMembership") /\ accounts' = accounts \cup {calls[c].email}
    /\ UNCHANGED <<memberships, invitations, faults, mailed, answered, acceptances, raced>>

\* Mutant of SaveMembership: the membership follows the acceptance.
SaveMembershipLast(c) ==
    /\ \/ At(c, "saveMembership") /\ Goto(c, "acceptInvitation") /\ UNCHANGED memberships
       \/ /\ At(c, "audit") /\ Answer(c)
          /\ memberships' = [memberships EXCEPT
                 ![<<calls[c].email, School>>] = Member(calls[c].invitation.role)]
    /\ UNCHANGED <<accounts, invitations, faults, mailed, answered, acceptances, raced>>

\* Whatever the membership was.
SaveMembership(c) ==
    /\ At(c, "saveMembership") /\ Goto(c, "acceptInvitation")
    /\ memberships' = [memberships EXCEPT
           ![<<calls[c].email, School>>] = Member(calls[c].invitation.role)]
    /\ UNCHANGED <<accounts, invitations, faults, mailed, answered, acceptances, raced>>

\* The row that was read, with the new state.
AcceptInvitation(c) ==
    /\ At(c, "acceptInvitation") /\ Goto(c, "audit")
    /\ invitations' = [invitations EXCEPT ![calls[c].token] =
           [calls[c].invitation EXCEPT !.state = "accepted", !.acceptedBy = calls[c].email]]
    /\ UNCHANGED <<accounts, memberships, faults, mailed, answered, acceptances, raced>>

AnswerAcceptance(c) ==
    /\ At(c, "audit") /\ Answer(c)
    /\ acceptances' = [acceptances EXCEPT ![calls[c].token] = @ + 1]
    /\ UNCHANGED <<accounts, memberships, invitations, faults, mailed, answered, raced>>

-----------------------------------------------------------------------------

\* suspendMembership: the row is read, and saved whole with the new state.  What
\* it does to sessions is in AuthSessions.
Suspend(c, e) ==
    /\ memberships[<<e, School>>] # None
    /\ Start(c, Request("saveSuspended", e, None, memberships[<<e, School>>].role))
    /\ UNCHANGED <<accounts, memberships, invitations, faults, mailed, answered,
                   acceptances, raced>>

SaveSuspended(c) ==
    /\ At(c, "saveSuspended") /\ Answer(c)
    /\ memberships' = [memberships EXCEPT
           ![<<calls[c].email, School>>] = [role |-> calls[c].role, state |-> "suspended"]]
    /\ UNCHANGED <<accounts, invitations, faults, mailed, answered, acceptances, raced>>

\* A statement fails, or the process dies with the call: an open transaction is
\* rolled back, and what was committed stays.
Fault(c) ==
    /\ calls[c] # None /\ faults < MaxFaults
    /\ faults' = faults + 1
    /\ Answer(c)
    /\ UNCHANGED <<accounts, memberships, invitations, mailed, answered, acceptances, raced>>

Step(c) ==
    \/ FindAccount(c) \/ InsertAccount(c) \/ CommitAccount(c)
    \/ ListMemberships(c) \/ CommitWorkspace(c)
    \/ CheckCreator(c) \/ SendInvitation(c) \/ CommitInvitation(c)
    \/ GetInvitation(c) \/ FindInvited(c) \/ SaveAccount(c)
    \/ SaveMembership(c) \/ AcceptInvitation(c) \/ AnswerAcceptance(c)
    \/ SaveSuspended(c)

Next == \E c \in Calls :
    \/ Step(c) \/ Fault(c)
    \/ \E e \in Emails : Register(c, e) \/ Suspend(c, e)
    \/ \E e \in Emails, t \in Tokens, role \in Roles : Invite(c, e, t, role)
    \/ \E t \in Tokens : Consume(c, t)

Spec == Init /\ [][Next]_vars

-----------------------------------------------------------------------------
(* Properties *)

\* An accepted invitation is backed by what it stands for, an account with the
\* invited email and a membership of the school, although the statements of
\* consumeSchoolInvitation are not in a transaction and may stop anywhere.
AcceptedIsBacked ==
    \A t \in Tokens : invitations[t] # None /\ invitations[t].state = "accepted" =>
        LET e == invitations[t].acceptedBy
        IN  /\ e = invitations[t].email
            /\ e \in accounts
            /\ memberships[<<e, School>>] # None

\* An invitation is accepted once, and not again after that: calls that do not
\* overlap never replay it, whatever failed in between.
TokenNotReplayed == \A t \in Tokens \ raced : acceptances[t] <= 1

\* A person who was told that the registration went through has a workspace,
\* also when the account was left behind by an invitation that failed halfway.
AnsweredHasWorkspace ==
    \A e \in answered : e \in accounts /\ \E w \in Workspaces : memberships[<<e, w>>] # None
=============================================================================
