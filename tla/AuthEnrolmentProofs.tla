------------------------ MODULE AuthEnrolmentProofs ------------------------
(***************************************************************************)
(* Theorems about AuthEnrolment, for any number of requests, addresses,    *)
(* tokens and failing statements: types, what stands behind an accepted    *)
(* invitation, what an answered registration can rely on, and that calls   *)
(* that do not overlap never replay a token.                               *)
(***************************************************************************)
EXTENDS AuthEnrolment, TLAPS

\* The statements of consumeSchoolInvitation after the check of the token.
Late == {"findAccount", "saveAccount", "saveMembership", "acceptInvitation", "audit"}

Settled(e) == e \in accounts /\ \E w \in Workspaces : memberships[<<e, w>>] # None

\* What a request can rely on, by the statement it is at.
Sound(request, there, members) ==
    /\ request.at # "getInvitation" => request.email \in Emails
    /\ request.at \in Late \cup {"checkCreator", "send", "commitInvitation", "getInvitation"} =>
           request.token \in Tokens
    /\ request.at \in Late =>
           request.invitation \in Invitations /\ request.invitation.email = request.email
    /\ request.at \in {"listMemberships", "commitWorkspace", "saveMembership",
                       "acceptInvitation", "audit"} => request.email \in there
    /\ request.at \in {"acceptInvitation", "audit"} => members[<<request.email, School>>] # None

CallsSound == \A c \in Calls : calls[c] # None => Sound(calls[c], accounts, memberships)

EnrolInv == TypeOK /\ CallsSound /\ AcceptedIsBacked /\ AnsweredHasWorkspace

\* Accounts and memberships are never taken away.
Grows == /\ accounts \subseteq accounts'
         /\ \A m \in Emails \X Workspaces : memberships[m] # None => memberships'[m] # None

\* The rest of the state, with its types.
OthersTyped ==
    /\ accounts \subseteq Emails
    /\ memberships \in [Emails \X Workspaces -> Memberships \cup {None}]
    /\ faults \in 0 .. MaxFaults
    /\ mailed \subseteq Tokens /\ raced \subseteq Tokens
    /\ acceptances \in [Tokens -> Nat]

\* A request moves on, begins or ends, and what is there only grows.
LEMMA RequestMoves ==
    ASSUME EnrolInv, NEW c \in Calls, NEW next \in Requests \cup {None},
           calls' = [calls EXCEPT ![c] = next],
           next # None => Sound(next, accounts', memberships'),
           Grows, OthersTyped', UNCHANGED invitations,
           answered' \subseteq Emails,
           \A e \in answered' \ answered : Settled(e)'
    PROVE  EnrolInv'
<1> USE NoneAssumption DEF EnrolInv
<1>1. TypeOK'
    BY DEF TypeOK, OthersTyped
<1>2. School \in Workspaces
    BY DEF Workspaces
<1>3. \A d \in Calls \ {c} : calls[d] # None => Sound(calls[d], accounts', memberships')
    BY <1>2 DEF CallsSound, Sound, Grows
<1>4. CallsSound'
    BY <1>3 DEF CallsSound, TypeOK
<1>5. AcceptedIsBacked'
  <2> SUFFICES ASSUME NEW t \in Tokens, invitations[t] # None, invitations[t].state = "accepted"
               PROVE  LET e == invitations[t].acceptedBy
                      IN  e = invitations[t].email /\ e \in accounts' /\ memberships'[<<e, School>>] # None
      BY DEF AcceptedIsBacked
  <2>1. invitations[t] \in Invitations
      BY DEF TypeOK
  <2>2. invitations[t].email \in Emails
      BY <2>1 DEF Invitations
  <2>3. QED
      BY <1>2, <2>2 DEF AcceptedIsBacked, Grows
<1>6. AnsweredHasWorkspace'
  <2> SUFFICES ASSUME NEW e \in answered' PROVE Settled(e)'
      BY DEF AnsweredHasWorkspace, Settled
  <2>1. CASE e \in answered
      BY <2>1 DEF AnsweredHasWorkspace, Settled, Grows, TypeOK
  <2>2. QED
      BY <2>1
<1>7. QED
    BY <1>1, <1>4, <1>5, <1>6

LEMMA SoundCall ==
    ASSUME EnrolInv, NEW c \in Calls, calls[c] # None
    PROVE  calls[c] \in Requests /\ Sound(calls[c], accounts, memberships)
BY DEF EnrolInv, TypeOK, CallsSound

\* A request moves on to a statement that needs no more than it has.
LEMMA NextStatement ==
    ASSUME EnrolInv, NEW c \in Calls, NEW statement, calls[c] # None, Goto(c, statement),
           statement \in {"find", "listMemberships", "insertAccount", "commitAccount",
                   "commitWorkspace", "checkCreator", "send", "commitInvitation",
                   "getInvitation", "findAccount", "saveAccount", "saveMembership",
                   "acceptInvitation", "audit", "saveSuspended"}
    PROVE  \E next \in Requests :
               /\ calls' = [calls EXCEPT ![c] = next]
               /\ next.at = statement /\ next.email = calls[c].email /\ next.token = calls[c].token
               /\ next.invitation = calls[c].invitation
<1> DEFINE next == [calls[c] EXCEPT !.at = statement]
<1>1. calls[c] \in Requests
    BY SoundCall
<1>2. /\ next \in Requests
      /\ next.at = statement /\ next.email = calls[c].email /\ next.token = calls[c].token
      /\ next.invitation = calls[c].invitation
    BY <1>1 DEF Requests
<1>3. calls' = [calls EXCEPT ![c] = next]
    BY DEF Goto
<1> HIDE DEF next
<1>4. QED
    BY <1>2, <1>3

\* The tables stay as they are.
Still == UNCHANGED <<accounts, memberships, faults, mailed, raced, acceptances>>

LEMMA StillGrows == EnrolInv /\ Still => Grows /\ OthersTyped'
BY DEF EnrolInv, TypeOK, Still, Grows, OthersTyped

LEMMA RequestBegins ==
    ASSUME EnrolInv, NEW c \in Calls, NEW at, NEW email, NEW token, NEW role,
           Start(c, Request(at, email, token, role)),
           Request(at, email, token, role) \in Requests,
           at \notin Late \cup {"listMemberships", "commitWorkspace"},
           at # "getInvitation" => email \in Emails,
           at \in {"checkCreator", "send", "commitInvitation", "getInvitation"} => token \in Tokens,
           Grows, OthersTyped', UNCHANGED <<invitations, answered>>
    PROVE  EnrolInv'
<1> DEFINE next == Request(at, email, token, role)
<1>1. /\ next.at = at /\ next.email = email /\ next.token = token
    BY DEF Request
<1>2. calls' = [calls EXCEPT ![c] = next]
    BY DEF Start
<1> HIDE DEF next
<1>3. Sound(next, accounts', memberships')
    BY <1>1 DEF Sound, Late
<1>4. next \in Requests
    BY DEF next
<1>5. answered' \subseteq Emails
    BY DEF EnrolInv, TypeOK
<1>6. QED
    BY <1>2, <1>3, <1>4, <1>5, RequestMoves

LEMMA RequestEnds ==
    ASSUME EnrolInv, NEW c \in Calls, Answer(c), Grows, OthersTyped', UNCHANGED invitations,
           answered' \subseteq Emails, \A e \in answered' \ answered : Settled(e)'
    PROVE  EnrolInv'
BY RequestMoves DEF Answer

LEMMA RequestGoes ==
    ASSUME EnrolInv, NEW c \in Calls, NEW statement, calls[c] # None, Goto(c, statement),
           statement \in {"find", "listMemberships", "insertAccount", "commitAccount",
                   "commitWorkspace", "checkCreator", "send", "commitInvitation",
                   "saveAccount", "saveMembership", "acceptInvitation", "audit"},
           statement \in Late => calls[c].at \in Late,
           calls[c].at # "getInvitation",
           statement \in {"send", "commitInvitation"} => calls[c].at \in {"checkCreator", "send"},
           statement # "checkCreator",
           statement \in {"listMemberships", "commitWorkspace", "saveMembership",
                          "acceptInvitation", "audit"} => calls[c].email \in accounts',
           statement \in {"acceptInvitation", "audit"} =>
               memberships'[<<calls[c].email, School>>] # None,
           Grows, OthersTyped', UNCHANGED <<invitations, answered>>
    PROVE  EnrolInv'
<1>1. Sound(calls[c], accounts, memberships)
    BY SoundCall
<1>2. PICK next \in Requests :
               /\ calls' = [calls EXCEPT ![c] = next]
               /\ next.at = statement /\ next.email = calls[c].email /\ next.token = calls[c].token
               /\ next.invitation = calls[c].invitation
    BY NextStatement
<1>3. Sound(next, accounts', memberships')
    BY <1>1, <1>2 DEF Sound, Late
<1>4. answered' \subseteq Emails
    BY DEF EnrolInv, TypeOK
<1>5. QED
    BY <1>2, <1>3, <1>4, RequestMoves

\* A new personal workspace, and a membership of the school, are only additions.
LEMMA WorkspaceAdded ==
    ASSUME EnrolInv, NEW e \in Emails, CreatePersonalWorkspace(e)
    PROVE  /\ memberships' \in [Emails \X Workspaces -> Memberships \cup {None}]
           /\ \A m \in Emails \X Workspaces : memberships[m] # None => memberships'[m] # None
           /\ \E w \in Workspaces : memberships'[<<e, w>>] # None
<1>1. PICK w \in Unowned : memberships' = [memberships EXCEPT ![<<e, w>>] = Member("teacher")]
    BY DEF CreatePersonalWorkspace
<1>2. w \in Workspaces /\ Member("teacher") \in Memberships
    BY DEF Unowned, Workspaces, Member, Memberships, Roles
<1>3. QED
    BY <1>1, <1>2, NoneAssumption DEF EnrolInv, TypeOK

LEMMA MemberWritten ==
    ASSUME EnrolInv, NEW e \in Emails, NEW row \in Memberships,
           memberships' = [memberships EXCEPT ![<<e, School>>] = row]
    PROVE  /\ memberships' \in [Emails \X Workspaces -> Memberships \cup {None}]
           /\ \A m \in Emails \X Workspaces : memberships[m] # None => memberships'[m] # None
           /\ memberships'[<<e, School>>] # None
BY NoneAssumption DEF EnrolInv, TypeOK, Workspaces

LEMMA RegisterStep ==
    ASSUME EnrolInv, NEW c \in Calls,
           \/ FindAccount(c) \/ InsertAccount(c) \/ CommitAccount(c)
           \/ ListMemberships(c) \/ CommitWorkspace(c)
           \/ \E e \in Emails : Register(c, e)
    PROVE  EnrolInv'
<1>0. /\ accounts \subseteq Emails /\ answered \subseteq Emails
      /\ calls[c] # None => calls[c] \in Requests /\ Sound(calls[c], accounts, memberships)
    BY SoundCall DEF EnrolInv, TypeOK
<1>1. ASSUME NEW e \in Emails, Register(c, e) PROVE EnrolInv'
  <2>1. Start(c, Request("find", e, None, "teacher")) /\ Still /\ UNCHANGED <<invitations, answered>>
      BY <1>1 DEF Register, Still
  <2>2. Request("find", e, None, "teacher") \in Requests
      BY DEF Request, Requests, Roles
  <2>3. QED
      BY <2>1, <2>2, StillGrows, RequestBegins DEF Late
<1>2. CASE FindAccount(c)
  <2>1. calls[c] # None /\ calls[c].at = "find" /\ Still /\ UNCHANGED <<invitations, answered>>
      BY <1>2 DEF FindAccount, At, Still
  <2>2. CASE calls[c].email \in accounts
    <3>1. Goto(c, "listMemberships") /\ calls[c].email \in accounts'
        BY <1>2, <2>1, <2>2 DEF FindAccount, Still
    <3>2. QED
        BY <2>1, <3>1, StillGrows, RequestGoes DEF Late
  <2>3. CASE calls[c].email \notin accounts
    <3>1. Goto(c, "insertAccount")
        BY <1>2, <2>3 DEF FindAccount
    <3>2. QED
        BY <2>1, <3>1, StillGrows, RequestGoes DEF Late
  <2>4. QED
      BY <2>2, <2>3
<1>3. CASE InsertAccount(c)
  <2>1. calls[c] # None /\ calls[c].at = "insertAccount" /\ Still /\ UNCHANGED <<invitations, answered>>
      BY <1>3 DEF InsertAccount, At, Still
  <2>2. CASE Answer(c)
      BY <1>0, <2>1, <2>2, StillGrows, RequestEnds
  <2>3. CASE Goto(c, "commitAccount")
      BY <2>1, <2>3, StillGrows, RequestGoes DEF Late
  <2>4. QED
      BY <1>3, <2>2, <2>3 DEF InsertAccount
<1>4. CASE CommitAccount(c) \/ CommitWorkspace(c)
  <2> DEFINE e == calls[c].email
  <2>1. /\ calls[c] # None /\ calls[c].at \in {"commitAccount", "commitWorkspace"}
        /\ CreatePersonalWorkspace(e) /\ Answer(c) /\ answered' = answered \cup {e}
        /\ accounts' \in {accounts, accounts \cup {e}} /\ e \in accounts'
        /\ UNCHANGED <<invitations, faults, mailed, raced, acceptances>>
      BY <1>0, <1>4 DEF CommitAccount, CommitWorkspace, At, Sound
  <2>2. e \in Emails
      BY <1>0, <2>1 DEF Sound
  <2> HIDE DEF e
  <2>3. Grows /\ OthersTyped'
      BY <1>0, <2>1, <2>2, WorkspaceAdded DEF Grows, OthersTyped, EnrolInv, TypeOK
  <2>4. \A x \in answered' \ answered : Settled(x)'
    <3>1. \E w \in Workspaces : memberships'[<<e, w>>] # None
        BY <2>1, <2>2, WorkspaceAdded
    <3>2. \A x \in answered' \ answered : x = e
        BY <2>1
    <3>3. QED
        BY <2>1, <3>1, <3>2 DEF Settled
  <2>5. answered' \subseteq Emails
      BY <1>0, <2>1, <2>2
  <2>6. QED
      BY <2>1, <2>3, <2>4, <2>5, RequestEnds
<1>5. CASE ListMemberships(c)
  <2> DEFINE e == calls[c].email
  <2>1. calls[c] # None /\ calls[c].at = "listMemberships" /\ Still /\ UNCHANGED invitations
      BY <1>5 DEF ListMemberships, At, Still
  <2>2. e \in Emails /\ e \in accounts
      BY <1>0, <2>1 DEF Sound
  <2>3. CASE HasActiveWorkspace(e)
    <3>1. Answer(c) /\ answered' = answered \cup {e}
        BY <1>5, <2>3 DEF ListMemberships
    <3>2. \E w \in Workspaces : memberships[<<e, w>>] # None
        BY <2>3 DEF HasActiveWorkspace, ActiveIn
    <3>3. \A x \in answered' \ answered : x \in accounts' /\ \E w \in Workspaces : memberships'[<<x, w>>] # None
        BY <2>1, <2>2, <3>1, <3>2 DEF Still
    <3>4. QED
        BY <1>0, <2>1, <2>2, <3>1, <3>3, StillGrows, RequestEnds DEF Settled
  <2>4. CASE ~HasActiveWorkspace(e)
    <3>1. Goto(c, "commitWorkspace") /\ UNCHANGED answered /\ e \in accounts'
        BY <1>5, <2>1, <2>2, <2>4 DEF ListMemberships, Still
    <3>2. QED
        BY <2>1, <3>1, StillGrows, RequestGoes DEF Late
  <2>5. QED
      BY <2>3, <2>4
<1>6. QED
    BY <1>1, <1>2, <1>3, <1>4, <1>5

\* Only two statements write an invitation: a pending one, or one whose account
\* and membership are there.
LEMMA InvitationWritten ==
    ASSUME EnrolInv, NEW c \in Calls, NEW next \in Requests \cup {None},
           NEW t \in Tokens, NEW row \in Invitations,
           calls' = [calls EXCEPT ![c] = next],
           next # None => Sound(next, accounts, memberships),
           invitations' = [invitations EXCEPT ![t] = row],
           row.state = "accepted" => /\ row.acceptedBy = row.email /\ row.email \in accounts
                                     /\ memberships[<<row.email, School>>] # None,
           UNCHANGED <<accounts, memberships, faults, mailed, answered, acceptances, raced>>
    PROVE  EnrolInv'
<1> USE NoneAssumption DEF EnrolInv
<1>1. TypeOK'
    BY DEF TypeOK
<1>2. CallsSound'
    BY DEF CallsSound, TypeOK
<1>3. AcceptedIsBacked'
    BY DEF AcceptedIsBacked, TypeOK
<1>4. AnsweredHasWorkspace'
    BY DEF AnsweredHasWorkspace
<1>5. QED
    BY <1>1, <1>2, <1>3, <1>4

LEMMA InviteStep ==
    ASSUME EnrolInv, NEW c \in Calls,
           \/ CheckCreator(c) \/ SendInvitation(c) \/ CommitInvitation(c)
           \/ \E e \in Emails, t \in Tokens, role \in Roles : Invite(c, e, t, role)
    PROVE  EnrolInv'
<1>0. /\ answered \subseteq Emails
      /\ calls[c] # None => calls[c] \in Requests /\ Sound(calls[c], accounts, memberships)
    BY SoundCall DEF EnrolInv, TypeOK
<1>1. ASSUME NEW e \in Emails, NEW t \in Tokens, NEW role \in Roles, Invite(c, e, t, role)
      PROVE  EnrolInv'
  <2>1. Start(c, Request("checkCreator", e, t, role)) /\ Still /\ UNCHANGED <<invitations, answered>>
      BY <1>1 DEF Invite, Still
  <2>2. Request("checkCreator", e, t, role) \in Requests
      BY DEF Request, Requests
  <2>3. QED
      BY <2>1, <2>2, StillGrows, RequestBegins DEF Late
<1>2. CASE CheckCreator(c)
  <2>1. calls[c] # None /\ calls[c].at = "checkCreator" /\ Still /\ UNCHANGED <<invitations, answered>>
      BY <1>2 DEF CheckCreator, At, Still
  <2>2. CASE Answer(c)
      BY <1>0, <2>1, <2>2, StillGrows, RequestEnds
  <2>3. CASE Goto(c, "send")
      BY <2>1, <2>3, StillGrows, RequestGoes DEF Late
  <2>4. QED
      BY <1>2, <2>2, <2>3 DEF CheckCreator
<1>3. CASE SendInvitation(c)
  <2>1. /\ calls[c] # None /\ calls[c].at = "send"
        /\ UNCHANGED <<accounts, memberships, invitations, faults, answered, acceptances, raced>>
        /\ Goto(c, "commitInvitation") \/ Answer(c)
        /\ mailed' \subseteq mailed \cup {calls[c].token}
      BY <1>3 DEF SendInvitation, At
  <2>2. calls[c].token \in Tokens
      BY <1>0, <2>1 DEF Sound
  <2>3. Grows /\ OthersTyped'
      BY <2>1, <2>2 DEF Grows, OthersTyped, EnrolInv, TypeOK
  <2>4. CASE Answer(c)
      BY <1>0, <2>1, <2>3, <2>4, RequestEnds
  <2>5. CASE Goto(c, "commitInvitation")
      BY <2>1, <2>3, <2>5, RequestGoes DEF Late
  <2>6. QED
      BY <2>1, <2>4, <2>5
<1>4. CASE CommitInvitation(c)
  <2> DEFINE row == [email |-> calls[c].email, role |-> calls[c].role, state |-> "pending",
                     acceptedBy |-> None]
  <2>1. calls[c] \in Requests /\ calls[c].email \in Emails /\ calls[c].token \in Tokens
      BY <1>0, <1>4 DEF CommitInvitation, At, Sound
  <2>2. row \in Invitations /\ row.state = "pending"
      BY <2>1 DEF Invitations, Requests
  <2>3. invitations' = [invitations EXCEPT ![calls[c].token] = row]
        /\ calls' = [calls EXCEPT ![c] = None]
        /\ UNCHANGED <<accounts, memberships, faults, mailed, answered, acceptances, raced>>
      BY <1>4 DEF CommitInvitation, Answer
  <2> HIDE DEF row
  <2>4. QED
      BY <2>1, <2>2, <2>3, InvitationWritten
<1>5. QED
    BY <1>1, <1>2, <1>3, <1>4

LEMMA ConsumeStep ==
    ASSUME EnrolInv, NEW c \in Calls,
           \/ GetInvitation(c) \/ FindInvited(c) \/ SaveAccount(c)
           \/ SaveMembership(c) \/ AcceptInvitation(c) \/ AnswerAcceptance(c)
           \/ \E t \in Tokens : Consume(c, t)
    PROVE  EnrolInv'
<1>0. /\ answered \subseteq Emails
      /\ calls[c] # None => calls[c] \in Requests /\ Sound(calls[c], accounts, memberships)
    BY SoundCall DEF EnrolInv, TypeOK
<1>1. ASSUME NEW t \in Tokens, Consume(c, t) PROVE EnrolInv'
  <2>1. /\ Start(c, Request("getInvitation", None, t, "teacher"))
        /\ UNCHANGED <<accounts, memberships, invitations, faults, mailed, answered, acceptances>>
        /\ raced' \subseteq raced \cup {t}
      BY <1>1 DEF Consume
  <2>2. Grows /\ OthersTyped'
      BY <2>1 DEF Grows, OthersTyped, EnrolInv, TypeOK
  <2>3. Request("getInvitation", None, t, "teacher") \in Requests
      BY DEF Request, Requests, Roles
  <2>4. QED
      BY <2>1, <2>2, <2>3, RequestBegins DEF Late
<1>2. CASE GetInvitation(c)
  <2> DEFINE t == calls[c].token
  <2>1. calls[c] # None /\ calls[c].at = "getInvitation" /\ Still /\ UNCHANGED <<invitations, answered>>
      BY <1>2 DEF GetInvitation, At, Still
  <2>2. calls[c] \in Requests /\ t \in Tokens
      BY <1>0, <2>1 DEF Sound
  <2>3. CASE Answer(c)
      BY <1>0, <2>1, <2>3, StillGrows, RequestEnds
  <2>4. CASE Usable(t) /\ calls' = [calls EXCEPT ![c].at = "findAccount",
                                       ![c].invitation = invitations[t],
                                       ![c].email = invitations[t].email]
    <3>1. invitations[t] \in Invitations /\ invitations[t].email \in Emails
        BY <2>2, <2>4 DEF Usable, EnrolInv, TypeOK, Invitations
    <3> DEFINE next == [calls[c] EXCEPT !.at = "findAccount", !.invitation = invitations[t],
                                        !.email = invitations[t].email]
    <3>2. /\ next \in Requests /\ next.at = "findAccount" /\ next.invitation = invitations[t]
          /\ next.email = invitations[t].email /\ next.token = t
        BY <2>2, <3>1 DEF Requests
    <3>3. calls' = [calls EXCEPT ![c] = next]
        BY <2>4 DEF EnrolInv, TypeOK
    <3> HIDE DEF next
    <3>4. Sound(next, accounts', memberships')
        BY <2>2, <3>1, <3>2 DEF Sound, Late
    <3>5. answered' \subseteq Emails
        BY <1>0, <2>1
    <3>6. QED
        BY <2>1, <3>2, <3>3, <3>4, <3>5, StillGrows, RequestMoves
  <2>5. QED
      BY <1>2, <2>3, <2>4 DEF GetInvitation
<1>3. CASE FindInvited(c)
  <2>1. calls[c] # None /\ calls[c].at = "findAccount" /\ Still /\ UNCHANGED <<invitations, answered>>
      BY <1>3 DEF FindInvited, At, Still
  <2>2. CASE calls[c].email \in accounts
    <3>1. Goto(c, "saveMembership") /\ calls[c].email \in accounts'
        BY <1>3, <2>1, <2>2 DEF FindInvited, Still
    <3>2. QED
        BY <2>1, <3>1, StillGrows, RequestGoes DEF Late
  <2>3. CASE calls[c].email \notin accounts
    <3>1. Goto(c, "saveAccount")
        BY <1>3, <2>3 DEF FindInvited
    <3>2. QED
        BY <2>1, <3>1, StillGrows, RequestGoes DEF Late
  <2>4. QED
      BY <2>2, <2>3
<1>4. CASE SaveAccount(c)
  <2>1. /\ calls[c] # None /\ calls[c].at = "saveAccount" /\ calls[c].email \in Emails
        /\ UNCHANGED <<memberships, invitations, faults, mailed, answered, acceptances, raced>>
      BY <1>0, <1>4 DEF SaveAccount, At, Sound
  <2>2. CASE Answer(c) /\ UNCHANGED accounts
      BY <1>0, <2>1, <2>2, StillGrows, RequestEnds DEF Still
  <2>3. CASE Goto(c, "saveMembership") /\ accounts' = accounts \cup {calls[c].email}
    <3>1. Grows /\ OthersTyped' /\ calls[c].email \in accounts'
        BY <2>1, <2>3 DEF Grows, OthersTyped, EnrolInv, TypeOK
    <3>2. QED
        BY <2>1, <2>3, <3>1, RequestGoes DEF Late
  <2>4. QED
      BY <1>4, <2>2, <2>3 DEF SaveAccount
<1>5. CASE SaveMembership(c)
  <2> DEFINE row == Member(calls[c].invitation.role)
  <2>1. /\ calls[c] # None /\ calls[c].at = "saveMembership" /\ Goto(c, "acceptInvitation")
        /\ memberships' = [memberships EXCEPT ![<<calls[c].email, School>>] = row]
        /\ UNCHANGED <<accounts, invitations, faults, mailed, answered, acceptances, raced>>
      BY <1>5 DEF SaveMembership, At
  <2>2. calls[c].email \in Emails /\ calls[c].email \in accounts
        /\ calls[c].invitation \in Invitations
      BY <1>0, <2>1 DEF Sound, Late
  <2>3. row \in Memberships
      BY <2>2 DEF Member, Memberships, Invitations
  <2> HIDE DEF row
  <2>4. Grows /\ OthersTyped' /\ memberships'[<<calls[c].email, School>>] # None
      BY <2>1, <2>2, <2>3, MemberWritten DEF Grows, OthersTyped, EnrolInv, TypeOK
  <2>5. QED
      BY <2>1, <2>2, <2>4, RequestGoes DEF Late
<1>6. CASE AcceptInvitation(c)
  <2> DEFINE row == [calls[c].invitation EXCEPT !.state = "accepted", !.acceptedBy = calls[c].email]
  <2>1. /\ calls[c] # None /\ calls[c].at = "acceptInvitation" /\ Goto(c, "audit")
        /\ invitations' = [invitations EXCEPT ![calls[c].token] = row]
        /\ UNCHANGED <<accounts, memberships, faults, mailed, answered, acceptances, raced>>
      BY <1>6 DEF AcceptInvitation, At
  <2>2. /\ calls[c].email \in Emails /\ calls[c].email \in accounts /\ calls[c].token \in Tokens
        /\ calls[c].invitation \in Invitations /\ calls[c].invitation.email = calls[c].email
        /\ memberships[<<calls[c].email, School>>] # None
      BY <1>0, <2>1 DEF Sound, Late
  <2>3. row \in Invitations /\ row.acceptedBy = calls[c].email /\ row.email = calls[c].email
      BY <2>2 DEF Invitations
  <2> HIDE DEF row
  <2>4. PICK next \in Requests :
               /\ calls' = [calls EXCEPT ![c] = next]
               /\ next.at = "audit" /\ next.email = calls[c].email /\ next.token = calls[c].token
               /\ next.invitation = calls[c].invitation
      BY <2>1, NextStatement
  <2>5. Sound(next, accounts, memberships)
      BY <2>2, <2>4 DEF Sound, Late
  <2>6. QED
      BY <2>1, <2>2, <2>3, <2>4, <2>5, InvitationWritten
<1>7. CASE AnswerAcceptance(c)
  <2>1. /\ calls[c] # None /\ calls[c].at = "audit" /\ Answer(c)
        /\ acceptances' = [acceptances EXCEPT ![calls[c].token] = acceptances[calls[c].token] + 1]
        /\ UNCHANGED <<accounts, memberships, invitations, faults, mailed, answered, raced>>
      BY <1>7 DEF AnswerAcceptance, At
  <2>2. calls[c].token \in Tokens
      BY <1>0, <2>1 DEF Sound, Late
  <2>3. Grows /\ OthersTyped'
      BY <2>1, <2>2 DEF Grows, OthersTyped, EnrolInv, TypeOK
  <2>4. QED
      BY <1>0, <2>1, <2>3, RequestEnds
<1>8. QED
    BY <1>1, <1>2, <1>3, <1>4, <1>5, <1>6, <1>7

LEMMA SuspendStep ==
    ASSUME EnrolInv, NEW c \in Calls,
           SaveSuspended(c) \/ Fault(c) \/ \E e \in Emails : Suspend(c, e)
    PROVE  EnrolInv'
<1>0. /\ answered \subseteq Emails
      /\ calls[c] # None => calls[c] \in Requests /\ Sound(calls[c], accounts, memberships)
    BY SoundCall DEF EnrolInv, TypeOK
<1>1. ASSUME NEW e \in Emails, Suspend(c, e) PROVE EnrolInv'
  <2> DEFINE role == memberships[<<e, School>>].role
  <2>1. /\ Start(c, Request("saveSuspended", e, None, role)) /\ Still
        /\ UNCHANGED <<invitations, answered>> /\ memberships[<<e, School>>] # None
      BY <1>1 DEF Suspend, Still
  <2>2. role \in Roles
      BY <2>1 DEF EnrolInv, TypeOK, Memberships, Workspaces
  <2> HIDE DEF role
  <2>3. Request("saveSuspended", e, None, role) \in Requests
      BY <2>2 DEF Request, Requests
  <2>4. QED
      BY <2>1, <2>3, StillGrows, RequestBegins DEF Late
<1>2. CASE SaveSuspended(c)
  <2> DEFINE row == [role |-> calls[c].role, state |-> "suspended"]
  <2>1. /\ calls[c] # None /\ calls[c].at = "saveSuspended" /\ Answer(c)
        /\ memberships' = [memberships EXCEPT ![<<calls[c].email, School>>] = row]
        /\ UNCHANGED <<accounts, invitations, faults, mailed, answered, acceptances, raced>>
      BY <1>2 DEF SaveSuspended, At
  <2>2. calls[c].email \in Emails /\ row \in Memberships
      BY <1>0, <2>1 DEF Sound, Requests, Memberships
  <2> HIDE DEF row
  <2>3. Grows /\ OthersTyped'
      BY <2>1, <2>2, MemberWritten DEF Grows, OthersTyped, EnrolInv, TypeOK
  <2>4. QED
      BY <1>0, <2>1, <2>3, RequestEnds
<1>3. CASE Fault(c)
  <2>1. /\ Answer(c) /\ faults < MaxFaults /\ faults' = faults + 1
        /\ UNCHANGED <<accounts, memberships, invitations, mailed, answered, acceptances, raced>>
      BY <1>3 DEF Fault
  <2>2. Grows /\ OthersTyped'
      BY <2>1, EnrolmentAssumption DEF Grows, OthersTyped, EnrolInv, TypeOK
  <2>3. QED
      BY <1>0, <2>1, <2>2, RequestEnds
<1>4. QED
    BY <1>1, <1>2, <1>3

LEMMA EnrolStarts == Init => EnrolInv
<1> SUFFICES ASSUME Init PROVE EnrolInv
    OBVIOUS
<1>1. Member("school_admin") \in Memberships
    BY DEF Member, Memberships, Roles
<1>2. TypeOK
    BY <1>1, EnrolmentAssumption DEF Init, TypeOK
<1>3. CallsSound /\ AcceptedIsBacked /\ AnsweredHasWorkspace
    BY DEF Init, CallsSound, AcceptedIsBacked, AnsweredHasWorkspace
<1>4. QED
    BY <1>2, <1>3 DEF EnrolInv

LEMMA EnrolStep == EnrolInv /\ [Next]_vars => EnrolInv'
<1> SUFFICES ASSUME EnrolInv, [Next]_vars PROVE EnrolInv'
    OBVIOUS
<1>1. CASE UNCHANGED vars
    BY <1>1 DEF vars, EnrolInv, TypeOK, CallsSound, AcceptedIsBacked, AnsweredHasWorkspace
<1>2. CASE Next
    BY <1>2, RegisterStep, InviteStep, ConsumeStep, SuspendStep DEF Next, Step
<1>3. QED
    BY <1>1, <1>2

LEMMA EnrolInvariant == Spec => []EnrolInv
BY EnrolStarts, EnrolStep, PTL DEF Spec

\* Types hold for any number of requests, addresses and tokens.
THEOREM TypeCorrect == Spec => []TypeOK
<1>1. EnrolInv => TypeOK
    BY DEF EnrolInv
<1>2. QED
    BY <1>1, EnrolInvariant, PTL

\* An accepted invitation has its account and membership, in whatever order the
\* statements of any number of requests run and wherever they stop.
THEOREM AcceptedBacked == Spec => []AcceptedIsBacked
<1>1. EnrolInv => AcceptedIsBacked
    BY DEF EnrolInv
<1>2. QED
    BY <1>1, EnrolInvariant, PTL

\* Whoever was told of a registration has an account and a workspace.
THEOREM AnsweredSettled == Spec => []AnsweredHasWorkspace
<1>1. EnrolInv => AnsweredHasWorkspace
    BY DEF EnrolInv
<1>2. QED
    BY <1>1, EnrolInvariant, PTL

-----------------------------------------------------------------------------
(* Tokens *)

\* The requests for a token: creating its invitation, past the check of it,
\* and past the statement that accepts it.
Inviting(t) == {d \in Calls : calls[d] # None /\ calls[d].token = t /\
                    calls[d].at \in {"checkCreator", "send", "commitInvitation"}}

Deciding(t) == {d \in Calls : calls[d] # None /\ calls[d].token = t /\ calls[d].at \in Late}

Auditing(t) == {d \in Calls : calls[d] # None /\ calls[d].token = t /\ calls[d].at = "audit"}

\* A token that no two calls consumed at one time: one consumer; what was
\* checked cannot have been answered before; an answer or an audit comes after
\* the row says accepted; and a row is created once, before all of that.
Orderly(t) ==
    /\ \A c, d \in Consuming(t) : c = d
    /\ \A c \in Deciding(t) : acceptances[t] = 0 /\ invitations[t] # None
    /\ acceptances[t] \in {0, 1}
    /\ (acceptances[t] # 0 \/ Auditing(t) # {}) =>
           invitations[t] # None /\ invitations[t].state = "accepted"
    /\ Inviting(t) # {} => invitations[t] = None
    /\ \A c, d \in Inviting(t) : c = d

TokenInv == \A t \in Tokens \ raced : Orderly(t)

\* A step that writes neither row nor answer and takes no request further.
LEMMA TokenUntouched ==
    ASSUME TokenInv, UNCHANGED <<invitations, acceptances, raced>>,
           \A t \in Tokens : /\ Consuming(t)' \subseteq Consuming(t)
                             /\ Deciding(t)' \subseteq Deciding(t)
                             /\ Auditing(t)' \subseteq Auditing(t)
                             /\ Inviting(t)' \subseteq Inviting(t)
    PROVE  TokenInv'
<1> SUFFICES ASSUME NEW t \in Tokens \ raced PROVE Orderly(t)'
    BY DEF TokenInv
<1>1. Orderly(t)
    BY DEF TokenInv
<1>2. QED
    BY <1>1 DEF Orderly

\* One request moves: from statement to statement of the same token.
LEMMA TokenMoves ==
    ASSUME EnrolInv, TokenInv, UNCHANGED <<invitations, acceptances, raced>>,
           NEW c \in Calls, NEW s, calls[c] # None, Goto(c, s),
           s \in Late => calls[c].at \in Late,
           s # "audit", s # "getInvitation",
           s \in {"checkCreator", "send", "commitInvitation"} =>
               calls[c].at \in {"checkCreator", "send", "commitInvitation"}
    PROVE  TokenInv'
<1>1. /\ calls'[c] = [calls[c] EXCEPT !.at = s]
      /\ \A d \in Calls \ {c} : calls'[d] = calls[d]
    BY DEF Goto, EnrolInv, TypeOK
<1>2. calls[c] \in Requests
    BY SoundCall
<1>3. calls'[c].at = s /\ calls'[c].token = calls[c].token
    BY <1>1, <1>2 DEF Requests
<1>4. \A t \in Tokens : /\ Consuming(t)' \subseteq Consuming(t)
                        /\ Deciding(t)' \subseteq Deciding(t)
                        /\ Auditing(t)' \subseteq Auditing(t)
                        /\ Inviting(t)' \subseteq Inviting(t)
    BY <1>1, <1>3 DEF Consuming, Deciding, Auditing, Inviting, Late
<1>5. QED
    BY <1>4, TokenUntouched

\* One request ends, or another one begins.
LEMMA TokenEnds ==
    ASSUME EnrolInv, TokenInv, UNCHANGED <<invitations, acceptances, raced>>,
           NEW c \in Calls, Answer(c)
    PROVE  TokenInv'
<1>1. calls'[c] = None /\ \A d \in Calls \ {c} : calls'[d] = calls[d]
    BY DEF Answer, EnrolInv, TypeOK
<1>2. \A t \in Tokens : /\ Consuming(t)' \subseteq Consuming(t)
                        /\ Deciding(t)' \subseteq Deciding(t)
                        /\ Auditing(t)' \subseteq Auditing(t)
                        /\ Inviting(t)' \subseteq Inviting(t)
    BY <1>1 DEF Consuming, Deciding, Auditing, Inviting
<1>3. QED
    BY <1>2, TokenUntouched

LEMMA TokenBegins ==
    ASSUME EnrolInv, TokenInv, UNCHANGED <<invitations, acceptances, raced>>,
           NEW c \in Calls, NEW at, NEW email, NEW token, NEW role,
           Start(c, Request(at, email, token, role)), at \in {"find", "saveSuspended"}
    PROVE  TokenInv'
<1>1. /\ calls'[c] = Request(at, email, token, role)
      /\ \A d \in Calls \ {c} : calls'[d] = calls[d]
    BY DEF Start, EnrolInv, TypeOK
<1>2. calls'[c].at = at
    BY <1>1 DEF Request
<1>3. \A t \in Tokens : /\ Consuming(t)' \subseteq Consuming(t)
                        /\ Deciding(t)' \subseteq Deciding(t)
                        /\ Auditing(t)' \subseteq Auditing(t)
                        /\ Inviting(t)' \subseteq Inviting(t)
    BY <1>1, <1>2 DEF Consuming, Deciding, Auditing, Inviting, Late
<1>4. QED
    BY <1>3, TokenUntouched

\* The steps that concern no token's fate.
LEMMA OtherTokenSteps ==
    ASSUME EnrolInv, TokenInv, NEW c \in Calls,
           \/ FindAccount(c) \/ InsertAccount(c) \/ CommitAccount(c) \/ ListMemberships(c)
           \/ CommitWorkspace(c) \/ CheckCreator(c) \/ SendInvitation(c) \/ FindInvited(c)
           \/ SaveAccount(c) \/ SaveMembership(c) \/ SaveSuspended(c) \/ Fault(c)
           \/ \E e \in Emails : Register(c, e) \/ Suspend(c, e)
    PROVE  TokenInv'
<1>0. \/ Answer(c)
      \/ \E e \in Emails : Register(c, e) \/ Suspend(c, e)
      \/ /\ calls[c] # None
         /\ \E s \in {"listMemberships", "insertAccount", "commitAccount", "commitWorkspace"} :
                Goto(c, s)
      \/ /\ calls[c] # None
         /\ calls[c].at \in {"checkCreator", "send"}
         /\ \E s \in {"send", "commitInvitation"} : Goto(c, s)
      \/ /\ calls[c] # None
         /\ calls[c].at \in Late
         /\ \E s \in {"saveAccount", "saveMembership", "acceptInvitation"} : Goto(c, s)
    BY DEF FindAccount, InsertAccount, CommitAccount, ListMemberships, CommitWorkspace,
           CheckCreator, SendInvitation, FindInvited, SaveAccount, SaveMembership,
           SaveSuspended, Fault, At, Late
<1>1. UNCHANGED <<invitations, acceptances, raced>>
    BY DEF FindAccount, InsertAccount, CommitAccount, ListMemberships, CommitWorkspace,
           CheckCreator, SendInvitation, FindInvited, SaveAccount, SaveMembership,
           SaveSuspended, Fault, Register, Suspend
<1>2. CASE Answer(c)
    BY <1>1, <1>2, TokenEnds
<1>3. CASE \E e \in Emails : Register(c, e) \/ Suspend(c, e)
    BY <1>1, <1>3, TokenBegins DEF Register, Suspend
<1>4. ASSUME NEW s \in {"listMemberships", "insertAccount", "commitAccount", "commitWorkspace"},
             calls[c] # None, Goto(c, s)
      PROVE  TokenInv'
    BY <1>1, <1>4, TokenMoves DEF Late
<1>5. ASSUME NEW s \in {"send", "commitInvitation"}, Goto(c, s),
             calls[c] # None, calls[c].at \in {"checkCreator", "send"}
      PROVE  TokenInv'
    BY <1>1, <1>5, TokenMoves DEF Late
<1>6. ASSUME NEW s \in {"saveAccount", "saveMembership", "acceptInvitation"}, Goto(c, s),
             calls[c] # None, calls[c].at \in Late
      PROVE  TokenInv'
    BY <1>1, <1>6, TokenMoves DEF Late
<1>7. QED
    BY <1>0, <1>2, <1>3, <1>4, <1>5, <1>6

LEMMA OneRequest ==
    ASSUME EnrolInv, NEW c \in Calls, NEW next, calls' = [calls EXCEPT ![c] = next]
    PROVE  calls'[c] = next /\ \A d \in Calls \ {c} : calls'[d] = calls[d]
BY DEF EnrolInv, TypeOK

LEMMA InviteToken ==
    ASSUME EnrolInv, TokenInv, NEW c \in Calls, NEW e \in Emails, NEW u \in Tokens,
           NEW role \in Roles, Invite(c, e, u, role)
    PROVE  TokenInv'
<1> DEFINE next == Request("checkCreator", e, u, role)
<1>1. /\ calls' = [calls EXCEPT ![c] = next] /\ Unused(u)
      /\ UNCHANGED <<invitations, acceptances, raced>>
    BY DEF Invite, Start
<1>2. next.at = "checkCreator" /\ next.token = u
    BY DEF Request
<1> HIDE DEF next
<1>3. invitations[u] = None /\ Consuming(u) = {} /\ Deciding(u) = {} /\ Auditing(u) = {}
      /\ Inviting(u) = {}
    BY <1>1 DEF Unused, Consuming, Deciding, Auditing, Inviting
<1> SUFFICES ASSUME NEW t \in Tokens \ raced PROVE Orderly(t)'
    BY <1>1 DEF TokenInv
<1>4. Orderly(t)
    BY DEF TokenInv
<1>5. /\ Consuming(t)' \subseteq Consuming(t) /\ Deciding(t)' \subseteq Deciding(t)
      /\ Auditing(t)' \subseteq Auditing(t)
      /\ t # u => Inviting(t)' \subseteq Inviting(t)
      /\ t = u => Inviting(t)' \subseteq {c}
    BY <1>1, <1>2, <1>3, OneRequest
           DEF Late, Consuming, Deciding, Auditing, Inviting
<1>6. QED
    BY <1>1, <1>3, <1>4, <1>5 DEF Orderly

LEMMA CommitToken ==
    ASSUME EnrolInv, TokenInv, NEW c \in Calls, CommitInvitation(c)
    PROVE  TokenInv'
<1> DEFINE u == calls[c].token
<1>1. /\ calls' = [calls EXCEPT ![c] = None] /\ c \in Inviting(u)
      /\ UNCHANGED <<acceptances, raced>> /\ u \in Tokens
    BY SoundCall DEF CommitInvitation, At, Answer, Inviting, Sound
<1>2. \A t \in Tokens : t # u => invitations'[t] = invitations[t]
    BY DEF CommitInvitation, EnrolInv, TypeOK
<1> HIDE DEF u
<1> SUFFICES ASSUME NEW t \in Tokens \ raced PROVE Orderly(t)'
    BY <1>1 DEF TokenInv
<1>3. Orderly(t)
    BY DEF TokenInv
<1>4. /\ Consuming(t)' \subseteq Consuming(t) /\ Deciding(t)' \subseteq Deciding(t)
      /\ Auditing(t)' \subseteq Auditing(t) /\ Inviting(t)' \subseteq Inviting(t) \ {c}
    BY <1>1, OneRequest
           DEF Late, Consuming, Deciding, Auditing, Inviting
<1>5. CASE t # u
    BY <1>1, <1>2, <1>3, <1>4, <1>5 DEF Orderly
<1>6. CASE t = u
  <2>1. /\ invitations[t] = None /\ acceptances[t] = 0
        /\ Deciding(t) = {} /\ Auditing(t) = {} /\ Inviting(t) = {c}
      BY <1>1, <1>3, <1>6 DEF Orderly
  <2>2. QED
      BY <1>1, <1>3, <1>4, <2>1 DEF Orderly
<1>7. QED
    BY <1>5, <1>6

LEMMA ConsumeToken ==
    ASSUME EnrolInv, TokenInv, NEW c \in Calls, NEW u \in Tokens, Consume(c, u)
    PROVE  TokenInv'
<1> DEFINE next == Request("getInvitation", None, u, "teacher")
<1>1. /\ calls' = [calls EXCEPT ![c] = next]
      /\ UNCHANGED <<invitations, acceptances>>
      /\ raced' = IF Consuming(u) = {} THEN raced ELSE raced \cup {u}
    BY DEF Consume, Start
<1>2. next.at = "getInvitation" /\ next.token = u
    BY DEF Request
<1> HIDE DEF next
<1> SUFFICES ASSUME NEW t \in Tokens \ raced' PROVE Orderly(t)'
    BY DEF TokenInv
<1>3. Orderly(t) /\ (t = u => Consuming(t) = {})
    BY <1>1 DEF TokenInv
<1>4. /\ Deciding(t)' \subseteq Deciding(t)
      /\ Auditing(t)' \subseteq Auditing(t) /\ Inviting(t)' \subseteq Inviting(t)
      /\ t # u => Consuming(t)' \subseteq Consuming(t)
      /\ t = u => Consuming(t)' \subseteq {c}
    BY <1>1, <1>2, <1>3, OneRequest
           DEF Late, Consuming, Deciding, Auditing, Inviting
<1>5. QED
    BY <1>1, <1>3, <1>4 DEF Orderly

LEMMA GetToken ==
    ASSUME EnrolInv, TokenInv, NEW c \in Calls, GetInvitation(c)
    PROVE  TokenInv'
<1> DEFINE u == calls[c].token
<1>1. /\ calls[c] # None /\ calls[c].at = "getInvitation" /\ c \in Consuming(u)
      /\ UNCHANGED <<invitations, acceptances, raced>> /\ calls[c] \in Requests
    BY SoundCall DEF GetInvitation, At, Consuming
<1>2. CASE Answer(c)
    BY <1>1, <1>2, TokenEnds
<1>3. CASE Usable(u) /\ calls' = [calls EXCEPT ![c].at = "findAccount",
                                          ![c].invitation = invitations[u],
                                          ![c].email = invitations[u].email]
  <2> DEFINE next == [calls[c] EXCEPT !.at = "findAccount", !.invitation = invitations[u],
                                      !.email = invitations[u].email]
  <2>1. next.at = "findAccount" /\ next.token = u
      BY <1>1 DEF Requests
  <2>2. calls' = [calls EXCEPT ![c] = next]
      BY <1>3 DEF EnrolInv, TypeOK
  <2>3. Usable(u)
      BY <1>3
  <2> HIDE DEF next, u
  <2> SUFFICES ASSUME NEW t \in Tokens \ raced PROVE Orderly(t)'
      BY <1>1 DEF TokenInv
  <2>4. Orderly(t)
      BY DEF TokenInv
  <2>5. /\ Consuming(t)' \subseteq Consuming(t)
        /\ Auditing(t)' \subseteq Auditing(t) /\ Inviting(t)' \subseteq Inviting(t)
        /\ t # u => Deciding(t)' \subseteq Deciding(t)
      BY <1>1, <2>1, <2>2, OneRequest
           DEF Late, Consuming, Deciding, Auditing, Inviting
  <2>6. t = u => invitations[t] # None /\ acceptances[t] = 0
      BY <2>3, <2>4 DEF Usable, Orderly
  <2>7. QED
      BY <1>1, <2>4, <2>5, <2>6 DEF Orderly
<1>4. QED
    BY <1>2, <1>3 DEF GetInvitation

LEMMA AcceptToken ==
    ASSUME EnrolInv, TokenInv, NEW c \in Calls, AcceptInvitation(c)
    PROVE  TokenInv'
<1> DEFINE u == calls[c].token
<1> DEFINE row == [calls[c].invitation EXCEPT !.state = "accepted", !.acceptedBy = calls[c].email]
<1>1. /\ calls[c] # None /\ calls[c].at = "acceptInvitation" /\ Goto(c, "audit")
      /\ UNCHANGED <<acceptances, raced>>
      /\ invitations' = [invitations EXCEPT ![u] = row]
    BY DEF AcceptInvitation, At
<1>2. u \in Tokens /\ calls[c].invitation \in Invitations /\ calls[c].email \in Emails
    BY <1>1, SoundCall DEF Sound, Late
<1>3. row \in Invitations /\ row.state = "accepted"
    BY <1>2 DEF Invitations
<1>4. c \in Deciding(u)
    BY <1>1 DEF Deciding, Late
<1>5. PICK next \in Requests :
           /\ calls' = [calls EXCEPT ![c] = next]
           /\ next.at = "audit" /\ next.email = calls[c].email /\ next.token = calls[c].token
           /\ next.invitation = calls[c].invitation
    BY <1>1, NextStatement
<1>6. next.token = u
    BY <1>5
<1>7. /\ \A t \in Tokens : t # u => invitations'[t] = invitations[t]
      /\ invitations'[u] # None /\ invitations'[u].state = "accepted"
    BY <1>1, <1>2, <1>3, NoneAssumption DEF EnrolInv, TypeOK
<1> HIDE DEF u, row
<1> SUFFICES ASSUME NEW t \in Tokens \ raced PROVE Orderly(t)'
    BY <1>1 DEF TokenInv
<1>8. Orderly(t)
    BY DEF TokenInv
<1>9. /\ c \in Deciding(u) /\ c \in Consuming(u)
    BY <1>4 DEF Deciding, Consuming, Late
<1>10. /\ Consuming(t)' \subseteq Consuming(t)
       /\ Deciding(t)' \subseteq Deciding(t) /\ Inviting(t)' \subseteq Inviting(t)
       /\ t # u => Auditing(t)' \subseteq Auditing(t)
    BY <1>5, <1>6, <1>9, OneRequest
           DEF Late, Consuming, Deciding, Auditing, Inviting
<1>11. CASE t # u
    BY <1>1, <1>7, <1>8, <1>10, <1>11 DEF Orderly
<1>12. CASE t = u
  <2>1. acceptances[t] = 0 /\ invitations[t] # None /\ Inviting(t) = {}
      BY <1>8, <1>9, <1>12 DEF Orderly
  <2>2. QED
      BY <1>1, <1>7, <1>8, <1>10, <1>12, <2>1 DEF Orderly
<1>13. QED
    BY <1>11, <1>12

LEMMA AnswerToken ==
    ASSUME EnrolInv, TokenInv, NEW c \in Calls, AnswerAcceptance(c)
    PROVE  TokenInv'
<1> DEFINE u == calls[c].token
<1>1. /\ calls[c] # None /\ calls[c].at = "audit" /\ calls' = [calls EXCEPT ![c] = None]
      /\ UNCHANGED <<invitations, raced>>
      /\ acceptances' = [acceptances EXCEPT ![u] = acceptances[u] + 1]
    BY DEF AnswerAcceptance, At, Answer
<1>2. u \in Tokens /\ c \in Deciding(u) /\ c \in Auditing(u) /\ c \in Consuming(u)
    BY <1>1, SoundCall DEF Sound, Deciding, Auditing, Consuming, Late
<1>3. /\ \A t \in Tokens : t # u => acceptances'[t] = acceptances[t]
      /\ acceptances'[u] = acceptances[u] + 1
    BY <1>1, <1>2 DEF EnrolInv, TypeOK
<1> HIDE DEF u
<1> SUFFICES ASSUME NEW t \in Tokens \ raced PROVE Orderly(t)'
    BY <1>1 DEF TokenInv
<1>4. Orderly(t)
    BY DEF TokenInv
<1>5. /\ Consuming(t)' \subseteq Consuming(t) \ {c} /\ Deciding(t)' \subseteq Deciding(t) \ {c}
      /\ Auditing(t)' \subseteq Auditing(t) \ {c} /\ Inviting(t)' \subseteq Inviting(t)
    BY <1>1, OneRequest
           DEF Late, Consuming, Deciding, Auditing, Inviting
<1>6. CASE t # u
    BY <1>1, <1>3, <1>4, <1>5, <1>6 DEF Orderly
<1>7. CASE t = u
  <2>1. /\ acceptances[t] = 0 /\ invitations[t] # None /\ invitations[t].state = "accepted"
        /\ Consuming(t) = {c}
      BY <1>2, <1>4, <1>7 DEF Orderly
  <2>2. Deciding(t) \subseteq Consuming(t)
      BY DEF Deciding, Consuming, Late
  <2>3. Deciding(t)' = {}
      BY <1>5, <2>1, <2>2
  <2>4. acceptances'[t] = 1
      BY <1>3, <1>7, <2>1
  <2>5. QED
      BY <1>1, <1>4, <1>5, <2>1, <2>3, <2>4 DEF Orderly
<1>8. QED
    BY <1>6, <1>7

\* Calls that do not overlap never accept a token twice, whatever failed in
\* between, at any number of requests and tokens.
THEOREM TokensAcceptedOnce == Spec => []TokenNotReplayed
<1>1. Init => TokenInv
    BY DEF Init, TokenInv, Orderly, Consuming, Deciding, Auditing, Inviting
<1>2. EnrolInv /\ TokenInv /\ [Next]_vars => TokenInv'
  <2> SUFFICES ASSUME EnrolInv, TokenInv, [Next]_vars PROVE TokenInv'
      OBVIOUS
  <2>1. CASE UNCHANGED vars
      BY <2>1, TokenUntouched DEF vars, Consuming, Deciding, Auditing, Inviting
  <2>2. CASE Next
      BY <2>2, OtherTokenSteps, InviteToken, CommitToken, ConsumeToken, GetToken, AcceptToken,
         AnswerToken DEF Next, Step
  <2>3. QED
      BY <2>1, <2>2
<1>3. TokenInv => TokenNotReplayed
    BY DEF TokenInv, Orderly, TokenNotReplayed
<1>4. QED
    BY <1>1, <1>2, <1>3, EnrolInvariant, PTL DEF Spec
=============================================================================
