-------------------------- MODULE MembershipProofs ---------------------------
(***************************************************************************)
(* Proofs about Membership, for any set of users and of requests and any   *)
(* bounds: its types and unique pending invitations, the chairperson's     *)
(* seat, answers that stand, and invitations that agree with memberships.  *)
(*                                                                         *)
(* All requests begin by reading; Fresh says what they have read, and is   *)
(* all that the proofs use of the many ways a request begins.  From there  *)
(* on what was read goes stale, and the invariants say how far it may.     *)
(***************************************************************************)
EXTENDS Membership, TLAPS

Rows == [id : Nat, role : Roles, active : BOOLEAN, verified : BOOLEAN,
         how : {"none", "founded", "added", "accepted"}]

Invitations == [email : Emails, by : Users, status : Statuses, asked : {"user", "group"}]

CallRows == [job : Jobs \cup {"none"}, actor : Users, about : Emails, row : Rows, inv : Nat,
             answer : Answers \cup {"CANCELLED", "none"}, role : Roles]

Types ==
  /\ members \in [Emails -> Rows]
  /\ invitations \in Seq(Invitations)
  /\ call \in [Calls -> CallRows]
  /\ begun \in 0..MaxCalls
  /\ mishaps \subseteq Mishaps

\* A row is known by its id: no id is given out that a request may have read before.
IdsInv ==
  /\ \A u \in Emails : members[u].id <= begun /\ (members[u] = NoRow \/ members[u].id > 0)
  /\ \A c \in Calls : call[c].job # "none" => begun > 0
  /\ \A c \in Calls : call[c].job \in {"verify", "toggle", "remove", "role"}
       => call[c].row.id \in 1..(begun - 1)

PendingInv ==
  /\ \A c \in Calls : call[c].inv \in 0..Len(invitations)
  /\ \A c \in Calls : call[c].job \in {"respond", "approve", "cancel"}
       => call[c].inv \in DOMAIN invitations
  /\ \A i, j \in DOMAIN invitations :
       /\ invitations[i].email = invitations[j].email
       /\ invitations[i].status = "PENDING" /\ invitations[j].status = "PENDING"
       => i = j

\* Who has no account asks for nothing and is never a member.
AccountInv ==
  /\ \A u \in Strangers : ~Member(u)
  /\ \A c \in Calls : call[c].job \in {"ask", "add"} => call[c].about \in Users

TypeInv == Types /\ IdsInv /\ PendingInv /\ AccountInv

\* What a request has read of the row it is about.
Fresh(image) ==
  /\ image \in CallRows
  /\ image.job # "none"
  /\ image.inv \in 0..Len(invitations)
  /\ image.row = members[image.about]
  /\ image.job \in {"verify", "toggle", "remove", "role"} => Member(image.about)
  /\ image.job \in {"toggle", "remove", "role"} => image.row.role # "CHAIRPERSON"
  /\ image.job = "role" => image.role # "CHAIRPERSON"
  /\ image.job = "ask" => ~Member(image.about)
  /\ image.job \in {"ask", "add"} => image.about \in Users
  /\ image.job \in {"respond", "approve"} => image.answer # "none"
  /\ image.job = "cancel" => image.answer = "CANCELLED"
  /\ image.job \in {"respond", "approve", "cancel"} =>
       /\ image.inv \in DOMAIN invitations
       /\ invitations[image.inv].email = image.about
       /\ invitations[image.inv].status = "PENDING"

-----------------------------------------------------------------------------
\* Idle is a request like any other.
LEMMA IdleType == Idle \in CallRows /\ NoRow \in Rows
  BY DEF Idle, NoRow, CallRows, Rows, Roles, Users, Emails, Jobs, Answers

\* A request is fresh if what it is about allows the job.
LEMMA RequestFresh ==
  ASSUME Types, NEW job \in Jobs, NEW a \in Users, NEW u \in Emails,
         NEW i \in 0..Len(invitations), NEW answer \in Answers \cup {"CANCELLED", "none"},
         NEW role \in Roles,
         job \in {"verify", "toggle", "remove", "role"} => Member(u),
         job \in {"toggle", "remove", "role"} => members[u].role # "CHAIRPERSON",
         job = "role" => role # "CHAIRPERSON",
         job = "ask" => ~Member(u), job \in {"ask", "add"} => u \in Users,
         job \in {"respond", "approve"} => answer # "none",
         job = "cancel" => answer = "CANCELLED",
         job \in {"respond", "approve", "cancel"} =>
           i \in DOMAIN invitations /\ invitations[i].email = u /\ invitations[i].status = "PENDING"
  PROVE  Fresh(RequestOn(job, a, u, i, answer, role))
<1>1. RequestOn(job, a, u, i, answer, role) \in CallRows
  BY DEF RequestOn, CallRows, Types
<1>2. job # "none"
  BY DEF Jobs
<1> QED
  BY <1>1, <1>2 DEF Fresh, RequestOn

\* Whatever a request asks for, it begins with what it has just read.
LEMMA AskBegins ==
  ASSUME Types, NEW c \in Calls, Ask(c)
  PROVE  \E image : Begin(c, image) /\ Fresh(image)
<1>i. /\ 0 \in 0..Len(invitations) /\ DOMAIN invitations \subseteq 0..Len(invitations)
      /\ \A i \in DOMAIN invitations : invitations[i].email \in Emails
  <2>1. DOMAIN invitations = 1..Len(invitations) /\ Len(invitations) \in Nat
        /\ \A i \in DOMAIN invitations : invitations[i] \in Invitations
    BY DEF Types
  <2> QED BY <2>1 DEF Invitations
<1>r. "MEMBER" \in Roles /\ Offered \subseteq Roles /\ Founder \in Users
      /\ Users \subseteq Emails
  BY MembershipAssumptions DEF Roles, Users, Emails
<1>j. /\ Jobs = {"create", "invite", "ask", "respond", "approve", "cancel", "add", "verify",
                 "toggle", "remove", "role"}
      /\ Answers \subseteq Answers \cup {"CANCELLED", "none"}
  BY DEF Jobs
<1>1. CASE CreateGroup(c)
  <2>1. Fresh(RequestOn("create", Founder, Founder, 0, "none", "MEMBER"))
    BY RequestFresh, <1>i, <1>r, <1>j
  <2> QED BY <1>1, <2>1 DEF Request, CreateGroup
<1>2. ASSUME NEW u \in Users, JoinByCode(c, u)
      PROVE  \E image : Begin(c, image) /\ Fresh(image)
  <2>1. Fresh(RequestOn("ask", u, u, 0, "none", "MEMBER"))
    BY <1>2, RequestFresh, <1>i, <1>r, <1>j DEF JoinByCode
  <2> QED BY <1>2, <2>1 DEF Request, JoinByCode
<1>3. ASSUME NEW i \in DOMAIN invitations, NEW answer \in Answers, NEW u \in Users,
             Respond(c, u, i, answer)
      PROVE  \E image : Begin(c, image) /\ Fresh(image)
  <2>1. Fresh(RequestOn("respond", u, u, i, answer, "MEMBER"))
    BY <1>3, RequestFresh, <1>i, <1>r, <1>j DEF Respond, Answerable, Undecided, Answers
  <2> QED BY <1>3, <2>1 DEF Respond
<1>4. ASSUME NEW i \in DOMAIN invitations, NEW answer \in Answers, NEW u \in Users,
             AdminRespond(c, u, i, answer)
      PROVE  \E image : Begin(c, image) /\ Fresh(image)
  <2>1. Fresh(RequestOn("approve", u, invitations[i].email, i, answer, "MEMBER"))
    BY <1>4, RequestFresh, <1>i, <1>r, <1>j DEF AdminRespond, Undecided, Answers
  <2> QED BY <1>4, <2>1 DEF AdminRespond
<1>5. ASSUME NEW a \in Users, NEW i \in DOMAIN invitations, CancelInvitation(c, a, i)
      PROVE  \E image : Begin(c, image) /\ Fresh(image)
  <2>1. Fresh(RequestOn("cancel", a, invitations[i].email, i, "CANCELLED", "MEMBER"))
    BY <1>5, RequestFresh, <1>i, <1>r, <1>j DEF CancelInvitation, Undecided
  <2> QED BY <1>5, <2>1 DEF CancelInvitation
<1>6. ASSUME NEW a \in Users, NEW u \in Emails, SendInvitation(c, a, u)
      PROVE  \E image : Begin(c, image) /\ Fresh(image)
  <2>1. Fresh(RequestOn("invite", a, u, 0, "none", "MEMBER"))
    BY RequestFresh, <1>i, <1>r, <1>j
  <2> QED BY <1>6, <2>1 DEF Request, SendInvitation
<1>7. ASSUME NEW a \in Users, NEW u \in Users, VerifyMember(c, a, u)
      PROVE  \E image : Begin(c, image) /\ Fresh(image)
  <2>1. Fresh(RequestOn("verify", a, u, 0, "none", "MEMBER"))
    BY <1>7, RequestFresh, <1>i, <1>r, <1>j DEF VerifyMember
  <2> QED BY <1>7, <2>1 DEF Request, VerifyMember
<1>8. ASSUME NEW a \in Users, NEW u \in Users, ToggleActive(c, a, u)
      PROVE  \E image : Begin(c, image) /\ Fresh(image)
  <2>1. Fresh(RequestOn("toggle", a, u, 0, "none", "MEMBER"))
    BY <1>8, RequestFresh, <1>i, <1>r, <1>j DEF ToggleActive, Unseated
  <2> QED BY <1>8, <2>1 DEF Request, ToggleActive
<1>9. ASSUME NEW a \in Users, NEW u \in Users, RemoveMember(c, a, u)
      PROVE  \E image : Begin(c, image) /\ Fresh(image)
  <2>1. Fresh(RequestOn("remove", a, u, 0, "none", "MEMBER"))
    BY <1>9, RequestFresh, <1>i, <1>r, <1>j DEF RemoveMember, Unseated
  <2> QED BY <1>9, <2>1 DEF Request, RemoveMember
<1>10. ASSUME NEW a \in Users, NEW u \in Users, NEW role \in Offered, AddMember(c, a, u, role)
       PROVE  \E image : Begin(c, image) /\ Fresh(image)
  <2>1. Fresh(RequestOn("add", a, u, 0, "none", role))
    BY RequestFresh, <1>i, <1>r, <1>j
  <2> QED BY <1>10, <2>1 DEF AddMember
<1>11. ASSUME NEW a \in Users, NEW u \in Users, NEW role \in Offered, ChangeRole(c, a, u, role)
       PROVE  \E image : Begin(c, image) /\ Fresh(image)
  <2>1. Fresh(RequestOn("role", a, u, 0, "none", role))
    BY <1>11, RequestFresh, <1>i, <1>r, <1>j DEF ChangeRole, Unseated
  <2> QED BY <1>11, <2>1 DEF ChangeRole
<1> QED
  BY <1>1, <1>2, <1>3, <1>4, <1>5, <1>6, <1>7, <1>8, <1>9, <1>10, <1>11 DEF Ask

-----------------------------------------------------------------------------
(* Types. *)

\* Beginning keeps the types: ids that are read are older than the request.
LEMMA BeginTypes ==
  ASSUME TypeInv, NEW c \in Calls, NEW image, Begin(c, image), Fresh(image)
  PROVE  TypeInv'
<1>1. /\ image \in CallRows /\ call \in [Calls -> CallRows]
      /\ call' = [call EXCEPT ![c] = image] /\ begun \in Nat /\ begun' = begun + 1
      /\ members' = members /\ invitations' = invitations
  BY MembershipAssumptions DEF TypeInv, Types, Begin, Fresh
<1>2. call'[c] = image /\ \A d \in Calls : d # c => call'[d] = call[d]
  BY <1>1
<1>3. Types'
  <2>1. mishaps' \subseteq Mishaps
    <3>1. mishaps' \subseteq mishaps \cup {"crossed"}
      BY DEF Begin
    <3> QED BY <3>1 DEF TypeInv, Types, Mishaps
  <2>2. begun' \in 0..MaxCalls
    BY <1>1, MembershipAssumptions DEF Begin
  <2> QED BY <1>1, <2>1, <2>2 DEF TypeInv, Types
<1>4. IdsInv'
  <2>1. image.about \in Emails /\ image.row = members[image.about] /\ image.row.id \in Nat
    BY <1>1 DEF CallRows, Rows, Fresh
  <2>2. image.job \in {"verify", "toggle", "remove", "role"} => image.row.id \in 1..begun
    BY <1>1, <2>1 DEF IdsInv, TypeInv, Fresh, Member
  <2>3. \A u \in Emails : members[u].id \in Nat
    BY DEF TypeInv, Types, Rows
  <2>4. \A d \in Calls : call[d].row.id \in Nat
    BY DEF TypeInv, Types, CallRows, Rows
  <2> QED BY <1>1, <1>2, <2>2, <2>3, <2>4 DEF IdsInv, TypeInv
<1>5. PendingInv'
  BY <1>1, <1>2 DEF PendingInv, TypeInv, Fresh
<1>6. AccountInv'
  BY <1>1, <1>2 DEF AccountInv, Member, TypeInv, Fresh
<1> QED BY <1>3, <1>4, <1>5, <1>6 DEF TypeInv

\* Every other step keeps them: a new row gets an id that is newer than all that
\* were read, and a new pending invitation is the only one of its email.
LEMMA StepTypes ==
  ASSUME TypeInv, NEW c \in Calls,
         \/ SeatFounder(c) \/ InsertMember(c) \/ InsertInvitation(c) \/ RequestToJoin(c)
         \/ SaveAnswer(c) \/ Admit(c) \/ SaveMember(c) \/ DeleteMember(c) \/ GiveUp(c)
  PROVE  TypeInv'
<1>t. /\ members \in [Emails -> Rows] /\ call \in [Calls -> CallRows]
      /\ begun \in Nat /\ begun <= MaxCalls /\ mishaps \subseteq Mishaps
      /\ invitations \in Seq(Invitations)
  BY MembershipAssumptions DEF TypeInv, Types
<1>f. Founder \in Users /\ Users \subseteq Emails
  BY DEF Users, Emails
<1>c. /\ call[c].about \in Emails /\ call[c].actor \in Users /\ call[c].role \in Roles
      /\ call[c].inv \in Nat /\ call[c].row \in Rows
  BY <1>t DEF CallRows
<1>k. ASSUME Ends(c)
      PROVE  /\ call' \in [Calls -> CallRows]
             /\ call'[c] = Idle /\ \A d \in Calls : d # c => call'[d] = call[d]
             /\ call'[c].job = "none" /\ call'[c].inv = 0
  <2>1. Idle \in CallRows
    BY IdleType
  <2>2. Idle.job = "none" /\ Idle.inv = 0
    BY DEF Idle
  <2> QED BY <1>t, <1>k, <2>1, <2>2 DEF Ends
<1>x. ASSUME Ends(c), UNCHANGED invitations PROVE PendingInv'
  <2>1. PendingInv
    BY DEF TypeInv
  <2>2. 0 \in 0..Len(invitations)
    BY <1>t
  <2> QED BY <1>k, <1>x, <2>1, <2>2 DEF PendingInv
\* Steps on memberships.
<1>m. ASSUME Ends(c), UNCHANGED <<invitations, begun>>, mishaps' \subseteq Mishaps,
             NEW u \in Emails, NEW row \in Rows, members' = [members EXCEPT ![u] = row],
             row.id <= begun, row = NoRow \/ row.id > 0,
             row = NoRow \/ Member(u) \/ u \in Users
      PROVE  TypeInv'
  <2>1. Types'
    BY <1>t, <1>m, <1>k, MembershipAssumptions DEF Types
  <2>2. IdsInv'
    BY <1>t, <1>m, <1>k DEF IdsInv, TypeInv
  <2>3. PendingInv'
    BY <1>m, <1>x
  <2>4. AccountInv'
    <3>1. \A v \in Strangers : v \in Emails /\ v \notin Users /\ ~Member(v)
      BY MembershipAssumptions DEF AccountInv, TypeInv, Emails
    <3>2. \A v \in Strangers : ~(Member(v)')
      BY <1>t, <1>m, <3>1 DEF Member
    <3> QED BY <1>m, <1>k, <3>2 DEF AccountInv, TypeInv
  <2> QED BY <2>1, <2>2, <2>3, <2>4 DEF TypeInv
<1>s. ASSUME NEW u \in Users, NEW role \in Roles, NEW verified \in BOOLEAN,
             NEW how \in {"founded", "added", "accepted"}, Seat(u, role, verified, how),
             Ends(c), call[c].job # "none", UNCHANGED <<invitations, begun, mishaps>>
      PROVE  TypeInv'
  <2> DEFINE row == [id |-> begun, role |-> role, active |-> TRUE, verified |-> verified, how |-> how]
  <2>1. row \in Rows /\ row.id = begun
    BY <1>t DEF Rows
  <2>2. begun > 0
    BY <1>s DEF IdsInv, TypeInv
  <2>3. members' = [members EXCEPT ![u] = row]
    BY <1>s DEF Seat
  <2>4. row.id <= begun /\ row.id > 0 /\ mishaps' \subseteq Mishaps
    BY <1>s, <1>t, <2>1, <2>2
  <2>5. u \in Emails
    BY <1>f
  <2> HIDE DEF row
  <2> QED BY <1>s, <1>m, <2>1, <2>3, <2>4, <2>5
<1>1. CASE SeatFounder(c)
  <2>1. "CHAIRPERSON" \in Roles /\ call[c].job # "none"
    BY <1>1 DEF SeatFounder, Roles, Doing
  <2> QED BY <1>1, <1>s, <1>f, <2>1 DEF SeatFounder
<1>2. CASE InsertMember(c)
  <2>1. call[c].about \in Users
    BY <1>2 DEF InsertMember, Doing, TypeInv, AccountInv
  <2> QED BY <1>2, <1>s, <1>c, <2>1 DEF InsertMember, Doing
<1>3. CASE Admit(c)
  <2>1. ASSUME Member(call[c].about),
               members' = [members EXCEPT ![call[c].about].active = TRUE,
                                          ![call[c].about].verified = TRUE]
        PROVE  TypeInv'
    <3> DEFINE u == call[c].about
               row == [members[u] EXCEPT !.active = TRUE, !.verified = TRUE]
    <3>1. members' = [members EXCEPT ![u] = row]
      BY <2>1
    <3>2. row \in Rows /\ row.id = members[u].id
      BY <1>t, <1>c DEF Rows
    <3>3. row.id <= begun /\ row.id > 0
      BY <3>2, <1>c, <2>1 DEF TypeInv, IdsInv, Member
    <3> HIDE DEF row
    <3> QED BY <1>3, <1>m, <1>t, <1>c, <2>1, <3>1, <3>2, <3>3 DEF Admit
  <2>2. ASSUME call[c].about \in Users, Seat(call[c].about, "MEMBER", TRUE, "accepted")
        PROVE  TypeInv'
    <3>1. "MEMBER" \in Roles /\ call[c].job # "none"
      BY <1>3 DEF Admit, Accepted, Roles, Doing
    <3> QED BY <1>3, <2>2, <1>s, <1>c, <3>1 DEF Admit
  <2>3. CASE UNCHANGED members
    <3>1. Types'
      BY <1>3, <1>t, <1>k, <2>3, MembershipAssumptions DEF Admit, Types
    <3>2. PendingInv'
      BY <1>3, <1>x DEF Admit
    <3>3. IdsInv'
      BY <1>3, <1>t, <1>k, <2>3 DEF Admit, IdsInv, TypeInv
    <3>4. AccountInv'
      BY <1>3, <1>t, <1>k, <2>3 DEF Admit, AccountInv, Member, TypeInv
    <3> QED BY <3>1, <3>2, <3>3, <3>4 DEF TypeInv
  <2> QED BY <1>3, <2>1, <2>2, <2>3 DEF Admit
<1>4. CASE SaveMember(c)
  <2> DEFINE u == call[c].about
             row == CASE call[c].job = "verify" -> [members[u] EXCEPT !.verified = TRUE]
                      [] call[c].job = "toggle" -> [members[u] EXCEPT !.active = ~call[c].row.active]
                      [] call[c].job = "role"   -> [members[u] EXCEPT !.role = call[c].role]
  <2>1. members' = [members EXCEPT ![u] = row]
    BY <1>4, <1>t, <1>c DEF SaveMember
  <2>2. row \in Rows /\ row.id = members[u].id
    BY <1>4, <1>t, <1>c DEF Rows, SaveMember, Doing
  <2>3. members[u].id = call[c].row.id /\ call[c].row.id > 0
    BY <1>4, <1>t, <1>c DEF SaveMember, Doing, RowStands, TypeInv, IdsInv
  <2>4. row.id <= begun /\ row.id > 0
    BY <2>2, <2>3, <1>c DEF TypeInv, IdsInv
  <2>5. Member(u)
    BY <2>3 DEF Member, NoRow
  <2> HIDE DEF row
  <2> QED BY <1>4, <1>m, <1>t, <1>c, <2>1, <2>2, <2>4, <2>5 DEF SaveMember
<1>5. CASE DeleteMember(c)
  <2>1. mishaps' \subseteq Mishaps
    BY <1>5, <1>t DEF DeleteMember, Mishaps
  <2>2. NoRow \in Rows /\ NoRow.id <= begun
    BY IdleType, <1>t DEF NoRow
  <2> QED BY <1>5, <1>m, <1>c, <2>1, <2>2 DEF DeleteMember
<1>6. CASE GiveUp(c)
  <2>1. mishaps' \subseteq Mishaps
    BY <1>6, <1>t DEF GiveUp, Mishaps
  <2>2. Types'
    BY <1>6, <1>t, <1>k, <2>1, MembershipAssumptions DEF GiveUp, Types
  <2>3. IdsInv' /\ PendingInv' /\ AccountInv'
    BY <1>6, <1>t, <1>k DEF GiveUp, IdsInv, PendingInv, AccountInv, Member, TypeInv
  <2> QED BY <2>2, <2>3 DEF TypeInv
\* Steps on invitations: a row is appended or changes its status.
<1>v. ASSUME Ends(c), UNCHANGED <<members, begun, mishaps>>,
             invitations' \in Seq(Invitations), PendingInv'
      PROVE  TypeInv'
  <2>1. Types'
    BY <1>t, <1>v, <1>k, MembershipAssumptions DEF Types
  <2>2. IdsInv' /\ AccountInv'
    BY <1>t, <1>v, <1>k DEF IdsInv, AccountInv, Member, TypeInv
  <2> QED BY <1>v, <2>1, <2>2 DEF TypeInv
<1>p. ASSUME NEW u \in Emails, NEW by \in Users, Issue(u, by), Ends(c)
      PROVE  invitations' \in Seq(Invitations) /\ PendingInv'
  <2> DEFINE new == [email |-> u, by |-> by, status |-> "PENDING",
                     asked |-> IF by = u THEN "user" ELSE "group"]
  <2>1. new \in Invitations /\ new.email = u
    BY DEF Invitations, Statuses
  <2>2. invitations' = Append(invitations, new)
    BY <1>p DEF Issue
  <2> HIDE DEF new
  <2>3. /\ invitations' \in Seq(Invitations) /\ Len(invitations') = Len(invitations) + 1
        /\ DOMAIN invitations' = DOMAIN invitations \cup {Len(invitations) + 1}
        /\ invitations'[Len(invitations) + 1] = new
        /\ \A i \in DOMAIN invitations : invitations'[i] = invitations[i]
        /\ Len(invitations) \in Nat
    BY <1>t, <2>1, <2>2
  <2>4. \A i \in DOMAIN invitations :
          ~(invitations[i].email = u /\ invitations[i].status = "PENDING")
    BY <1>p DEF Issue, Pending, Of
  <2>5. PendingInv'
    BY <1>k, <1>p, <1>t, <2>1, <2>3, <2>4 DEF PendingInv, TypeInv
  <2> QED BY <2>3, <2>5
<1>7. CASE InsertInvitation(c)
  BY <1>7, <1>v, <1>p, <1>c DEF InsertInvitation
<1>8. CASE RequestToJoin(c)
  <2> DEFINE u == call[c].about
  <2>1. CASE Issue(u, u)
    <3>1. u \in Users
      BY <1>8 DEF RequestToJoin, Doing, TypeInv, AccountInv
    <3> QED BY <1>8, <2>1, <1>v, <1>p, <1>c, <3>1 DEF RequestToJoin
  <2>2. ASSUME NEW i \in Of(u), Of(u) = {i}, Reopen(i)
        PROVE  TypeInv'
    <3>1. i \in DOMAIN invitations /\ invitations[i].email = u
          /\ \A j \in DOMAIN invitations : invitations[j].email = u => j = i
      BY <2>2 DEF Of
    <3>2. /\ invitations' \in Seq(Invitations) /\ Len(invitations') = Len(invitations)
          /\ DOMAIN invitations' = DOMAIN invitations
          /\ \A j \in DOMAIN invitations : invitations'[j].email = invitations[j].email
          /\ \A j \in DOMAIN invitations : j # i => invitations'[j] = invitations[j]
      <4> DEFINE new == [invitations[i] EXCEPT !.status = "PENDING", !.asked = "user"]
      <4>1. invitations[i] \in Invitations
        BY <1>t, <3>1
      <4>2. new \in Invitations /\ new.email = invitations[i].email
        BY <4>1 DEF Invitations, Statuses
      <4>3. invitations' = [invitations EXCEPT ![i] = new]
        BY <2>2 DEF Reopen
      <4> HIDE DEF new
      <4> QED BY <1>t, <3>1, <4>2, <4>3
    <3>3. PendingInv'
      BY <1>k, <1>8, <3>1, <3>2 DEF PendingInv, TypeInv, RequestToJoin
    <3> QED BY <1>8, <1>v, <3>2, <3>3 DEF RequestToJoin
  <2> QED BY <1>8, <2>1, <2>2 DEF RequestToJoin
<1>9. CASE SaveAnswer(c)
  <2> DEFINE i == call[c].inv
             answer == call[c].answer
  <2>1. i \in DOMAIN invitations /\ answer \in Answers \cup {"CANCELLED"}
    BY <1>9, <1>t DEF SaveAnswer, Doing, TypeInv, PendingInv, CallRows
  <2>2. /\ invitations' \in Seq(Invitations) /\ Len(invitations') = Len(invitations)
        /\ DOMAIN invitations' = DOMAIN invitations
        /\ \A j \in DOMAIN invitations : invitations'[j].email = invitations[j].email
        /\ \A j \in DOMAIN invitations : j # i => invitations'[j] = invitations[j]
        /\ invitations'[i].status # "PENDING"
    <3> DEFINE new == [invitations[i] EXCEPT !.status = answer]
    <3>1. invitations[i] \in Invitations
      BY <1>t, <2>1
    <3>2. new \in Invitations /\ new.email = invitations[i].email /\ new.status # "PENDING"
      BY <2>1, <3>1 DEF Invitations, Statuses, Answers
    <3>3. invitations' = [invitations EXCEPT ![i] = new]
      BY <1>9 DEF SaveAnswer
    <3> HIDE DEF new
    <3> QED BY <1>t, <2>1, <3>2, <3>3
  <2>3. /\ call' \in [Calls -> CallRows]
        /\ \A d \in Calls : d # c => call'[d] = call[d]
        /\ call'[c].job \in {call[c].job, "none"} /\ call'[c].inv \in {0, call[c].inv}
        /\ call'[c].job # "none" => call'[c].row = call[c].row /\ call'[c].inv = call[c].inv
    <3>1. [call[c] EXCEPT !.answer = "none"] \in CallRows
      BY <1>t DEF CallRows
    <3>2. Idle \in CallRows /\ Idle.job = "none" /\ Idle.inv = 0
      BY IdleType DEF Idle
    <3>3. CASE answer = "ACCEPTED"
      <4>1. call' = [call EXCEPT ![c] = [call[c] EXCEPT !.answer = "none"]]
        BY <1>9, <3>3 DEF SaveAnswer
      <4> QED BY <4>1, <3>1, <1>t DEF CallRows
    <3>4. CASE answer # "ACCEPTED"
      <4>1. call' = [call EXCEPT ![c] = Idle]
        BY <1>9, <3>4 DEF SaveAnswer
      <4> QED BY <4>1, <3>2, <1>t
    <3> QED BY <3>3, <3>4
  <2>4. Types'
    BY <1>9, <1>t, <2>2, <2>3, MembershipAssumptions DEF SaveAnswer, Types
  <2>5. IdsInv'
    BY <1>9, <1>t, <2>3 DEF SaveAnswer, Doing, IdsInv, TypeInv
  <2>6. PendingInv'
    <3>1. \A d \in Calls : call'[d].inv \in {0, call[d].inv}
                            /\ (call'[d].job # "none" => call'[d].inv = call[d].inv)
                            /\ call'[d].job \in {"none", call[d].job}
      BY <2>3
    <3>2. 0 \in 0..Len(invitations)
      BY <1>t
    <3> QED BY <2>1, <2>2, <3>1, <3>2 DEF PendingInv, TypeInv
  <2>7. AccountInv'
    BY <1>9, <1>t, <2>3 DEF SaveAnswer, Doing, AccountInv, Member, TypeInv
  <2> QED BY <2>4, <2>5, <2>6, <2>7 DEF TypeInv
<1> QED BY <1>1, <1>2, <1>3, <1>4, <1>5, <1>6, <1>7, <1>8, <1>9

LEMMA TypesInit == Init => TypeInv
<1> SUFFICES ASSUME Init PROVE TypeInv
  OBVIOUS
<1>1. Types
  BY IdleType, MembershipAssumptions DEF Init, Types
<1>2. IdsInv
  BY DEF Init, IdsInv, NoRow, Idle
<1>3. PendingInv
  BY DEF Init, PendingInv, Idle
<1>4. AccountInv
  BY DEF Init, AccountInv, Member, Idle, Emails
<1> QED BY <1>1, <1>2, <1>3, <1>4 DEF TypeInv

LEMMA TypesNext == TypeInv /\ [Next]_vars => TypeInv'
<1> SUFFICES ASSUME TypeInv, [Next]_vars PROVE TypeInv'
  OBVIOUS
<1>1. CASE UNCHANGED vars
  BY <1>1 DEF vars, TypeInv, Types, IdsInv, PendingInv, AccountInv, Member
<1>2. ASSUME NEW c \in Calls, Ask(c) PROVE TypeInv'
  BY <1>2, AskBegins, BeginTypes DEF TypeInv
<1>3. ASSUME NEW c \in Calls,
             \/ SeatFounder(c) \/ InsertMember(c) \/ InsertInvitation(c) \/ RequestToJoin(c)
             \/ SaveAnswer(c) \/ Admit(c) \/ SaveMember(c) \/ DeleteMember(c) \/ GiveUp(c)
      PROVE  TypeInv'
  BY <1>3, StepTypes
<1> QED BY <1>1, <1>2, <1>3 DEF Next

LEMMA TypesImply == TypeInv => TypeOK
<1> SUFFICES ASSUME TypeInv PROVE TypeOK
  OBVIOUS
<1>1. ASSUME NEW u \in Emails
      PROVE  /\ members[u] = NoRow \/ members[u].id \in 1..MaxCalls
             /\ members[u].role \in Roles
             /\ {members[u].active, members[u].verified} \subseteq BOOLEAN
  <2>1. members[u] \in Rows /\ begun \in 0..MaxCalls
    BY DEF TypeInv, Types
  <2>2. members[u].id \in Nat /\ members[u].role \in Roles
        /\ members[u].active \in BOOLEAN /\ members[u].verified \in BOOLEAN
    BY <2>1 DEF Rows
  <2>3. members[u].id <= begun /\ (members[u] = NoRow \/ members[u].id > 0)
    BY DEF TypeInv, IdsInv
  <2> QED BY <2>1, <2>2, <2>3, MembershipAssumptions
<1>2. ASSUME NEW u \in Emails, NEW i \in Pending(u), NEW j \in Pending(u) PROVE i = j
  BY DEF Pending, Of, TypeInv, PendingInv
<1>3. ASSUME NEW i \in DOMAIN invitations PROVE invitations[i] \in Invitations
  BY DEF TypeInv, Types
<1>4. ASSUME NEW c \in Calls
      PROVE  call[c].job \in Jobs \cup {"none"} /\ call[c].inv \in 0..Len(invitations)
  BY DEF TypeInv, Types, CallRows, PendingInv
<1>5. begun \in 0..MaxCalls /\ mishaps \subseteq Mishaps
  BY DEF TypeInv, Types
<1> QED BY <1>1, <1>2, <1>3, <1>4, <1>5 DEF TypeOK, Invitations

LEMMA TypeInvariant == Spec => []TypeInv
  BY TypesInit, TypesNext, PTL DEF Spec

\* Every variable keeps its type, and no two invitations of one person are pending
\* at once (unique_pending_group_invitation), however requests overlap.
THEOREM TypeCorrect == Spec => []TypeOK
  BY TypeInvariant, TypesImply, PTL

-----------------------------------------------------------------------------
(* The chairperson's seat. *)

\* A request that may toggle, remove or give a role read a row that was not the
\* chairperson's; as long as that row is there, it still is not.
SeatInv ==
  \A c \in Calls :
    /\ call[c].job \in {"toggle", "remove", "role"} /\ RowStands(c)
         => members[call[c].about].role # "CHAIRPERSON"
    /\ call[c].job = "role" => call[c].role # "CHAIRPERSON"

LEMMA SeatNext ==
  ASSUME TypeInv, SeatInv, [Next]_vars
  PROVE  SeatInv'
<1>t. /\ members \in [Emails -> Rows] /\ call \in [Calls -> CallRows] /\ begun \in Nat
      /\ \A d \in Calls : /\ call[d].about \in Emails /\ call[d].row.id \in Nat
                          /\ call[d].job \in {"toggle", "remove", "role"}
                               => call[d].row.id > 0 /\ call[d].row.id < begun
  BY MembershipAssumptions DEF TypeInv, Types, IdsInv, CallRows, Rows
<1>1. CASE UNCHANGED vars
  BY <1>1 DEF vars, SeatInv, RowStands
<1>2. ASSUME NEW c \in Calls, Ask(c) PROVE SeatInv'
  <2>1. PICK image : Begin(c, image) /\ Fresh(image)
    BY <1>2, AskBegins DEF TypeInv
  <2>2. /\ call'[c] = image /\ \A d \in Calls : d # c => call'[d] = call[d]
        /\ members' = members
    BY <1>t, <2>1 DEF Begin
  <2> QED BY <2>1, <2>2 DEF SeatInv, RowStands, Fresh
\* Other steps end their request, or leave it to make a membership, and change at
\* most one row: to a new one, to none, or to one with the same id and role.
<1>3. ASSUME NEW c \in Calls, NEW u \in Emails, NEW row,
             members' = [members EXCEPT ![u] = row],
             \/ row.id = begun
             \/ row.id = 0
             \/ row.id = members[u].id /\ row.role = members[u].role
             \/ row.id = members[u].id /\ row.role # "CHAIRPERSON",
             \A d \in Calls : d # c => call'[d] = call[d],
             call'[c].job \notin {"toggle", "remove", "role"}
      PROVE  SeatInv'
  <2> SUFFICES ASSUME NEW d \in Calls
               PROVE  /\ call[d]'.job \in {"toggle", "remove", "role"} /\ RowStands(d)'
                           => members'[call[d]'.about].role # "CHAIRPERSON"
                      /\ call[d]'.job = "role" => call[d]'.role # "CHAIRPERSON"
    BY DEF SeatInv
  <2>1. CASE d = c
    BY <1>3, <2>1
  <2>2. CASE d # c /\ call[d].about # u
    BY <1>t, <1>3, <2>2 DEF SeatInv, RowStands
  <2>3. CASE d # c /\ call[d].about = u
    BY <1>t, <1>3, <2>3 DEF SeatInv, RowStands
  <2> QED BY <2>1, <2>2, <2>3
<1>e. ASSUME NEW c \in Calls, Ends(c)
      PROVE  /\ \A d \in Calls : d # c => call'[d] = call[d]
             /\ call'[c].job \notin {"toggle", "remove", "role"}
  BY <1>t, <1>e DEF Ends, Idle
<1>4. ASSUME NEW c \in Calls, NEW u \in Emails, NEW role, NEW verified, NEW how,
             Seat(u, role, verified, how), Ends(c)
      PROVE  SeatInv'
  <2> DEFINE row == [id |-> begun, role |-> role, active |-> TRUE, verified |-> verified, how |-> how]
  <2>1. row.id = begun /\ members' = [members EXCEPT ![u] = row]
    BY <1>4 DEF Seat
  <2> HIDE DEF row
  <2> QED BY <1>3, <1>4, <1>e, <2>1
<1>5. ASSUME NEW c \in Calls, SeatFounder(c) \/ InsertMember(c) PROVE SeatInv'
  <2>1. Founder \in Emails /\ call[c].about \in Emails
    BY <1>t DEF Users, Emails
  <2> QED BY <1>5, <1>4, <2>1 DEF SeatFounder, InsertMember
<1>u. ASSUME NEW c \in Calls, UNCHANGED members,
             \A d \in Calls : d # c => call'[d] = call[d],
             call'[c].job \notin {"toggle", "remove", "role"}
      PROVE  SeatInv'
  BY <1>u DEF SeatInv, RowStands
<1>6. ASSUME NEW c \in Calls, Admit(c) PROVE SeatInv'
  <2> DEFINE u == call[c].about
             row == [members[u] EXCEPT !.active = TRUE, !.verified = TRUE]
  <2>1. ASSUME members' = [members EXCEPT ![u].active = TRUE, ![u].verified = TRUE]
        PROVE  SeatInv'
    <3>1. members' = [members EXCEPT ![u] = row] /\ Ends(c)
      BY <1>6, <2>1 DEF Admit
    <3>2. row.id = members[u].id /\ row.role = members[u].role
      BY <1>t DEF Rows
    <3> HIDE DEF row
    <3> QED BY <1>t, <1>e, <1>3, <3>1, <3>2
  <2>2. ASSUME Seat(u, "MEMBER", TRUE, "accepted") PROVE SeatInv'
    BY <1>t, <1>6, <2>2, <1>4 DEF Admit
  <2>3. CASE UNCHANGED members
    BY <1>6, <1>e, <1>u, <2>3 DEF Admit
  <2> QED BY <1>6, <2>1, <2>2, <2>3 DEF Admit
<1>7. ASSUME NEW c \in Calls, SaveMember(c) PROVE SeatInv'
  <2> DEFINE u == call[c].about
             row == CASE call[c].job = "verify" -> [members[u] EXCEPT !.verified = TRUE]
                      [] call[c].job = "toggle" -> [members[u] EXCEPT !.active = ~call[c].row.active]
                      [] call[c].job = "role"   -> [members[u] EXCEPT !.role = call[c].role]
  <2>1. members' = [members EXCEPT ![u] = row] /\ Ends(c)
    BY <1>7 DEF SaveMember
  <2>2. row.id = members[u].id /\ (row.role = members[u].role \/ row.role # "CHAIRPERSON")
    BY <1>t, <1>7 DEF Rows, SaveMember, Doing, SeatInv
  <2> HIDE DEF row
  <2> QED BY <1>t, <1>e, <1>3, <2>1, <2>2
<1>8. ASSUME NEW c \in Calls, DeleteMember(c) PROVE SeatInv'
  <2>1. NoRow.id = 0
    BY DEF NoRow
  <2> QED BY <1>t, <1>e, <1>3, <1>8, <2>1 DEF DeleteMember
<1>10. ASSUME NEW c \in Calls, InsertInvitation(c) \/ RequestToJoin(c) \/ GiveUp(c) PROVE SeatInv'
  BY <1>10, <1>u, <1>e DEF InsertInvitation, RequestToJoin, GiveUp
<1>11. ASSUME NEW c \in Calls, SaveAnswer(c) PROVE SeatInv'
  <2>1. [call[c] EXCEPT !.answer = "none"].job = call[c].job /\ Idle.job = "none"
    BY <1>t DEF CallRows, Idle
  <2>2. /\ \A d \in Calls : d # c => call'[d] = call[d]
        /\ call'[c].job \notin {"toggle", "remove", "role"} /\ UNCHANGED members
    BY <1>t, <1>11, <2>1 DEF SaveAnswer, Doing
  <2> QED BY <1>u, <2>2
<1> QED
  BY <1>1, <1>2, <1>5, <1>6, <1>7, <1>8, <1>10, <1>11 DEF Next

\* A chairperson keeps the seat, however toggles, removals, changes of role and
\* answers overlap (the guards of groups/views.py on the role they read).
THEOREM SeatProtected == Spec => SeatKept
<1>1. Init => SeatInv
  BY DEF Init, SeatInv, Idle
<1>2. TypeInv /\ SeatInv /\ [Next]_vars => SeatInv'
  BY SeatNext
<1>3. ASSUME TypeInv, SeatInv, [Next]_vars,
             NEW u \in Emails, members[u].role = "CHAIRPERSON", Member(u)
      PROVE  /\ members'[u].id = members[u].id
             /\ members'[u].role = "CHAIRPERSON"
             /\ members[u].active => members'[u].active
  <2> DEFINE Keeps == /\ members'[u].id = members[u].id
                      /\ members'[u].role = "CHAIRPERSON"
                      /\ members[u].active => members'[u].active
  <2>t. /\ members \in [Emails -> Rows] /\ call \in [Calls -> CallRows] /\ members[u] \in Rows
        /\ \A d \in Calls : call[d].about \in Emails
    BY <1>3 DEF TypeInv, Types, CallRows
  <2>0. CASE UNCHANGED members
    BY <2>0, <1>3
  <2>1. ASSUME NEW c \in Calls, Ask(c) PROVE Keeps
    <3>1. PICK image : Begin(c, image)
      BY <1>3, <2>1, AskBegins DEF TypeInv
    <3> QED BY <3>1, <2>0 DEF Begin
  <2>2. ASSUME NEW v \in Emails, NEW role, NEW verified, NEW how,
               Seat(v, role, verified, how), ~Member(v)
        PROVE  Keeps
    BY <1>3, <2>2, <2>t DEF Seat
  <2>3. ASSUME NEW c \in Calls, SeatFounder(c) \/ InsertMember(c) PROVE Keeps
    <3>1. Founder \in Emails
      BY DEF Users, Emails
    <3> QED BY <2>3, <2>2, <2>t, <3>1 DEF SeatFounder, InsertMember
  <2>4. ASSUME NEW c \in Calls, Admit(c) PROVE Keeps
    <3>1. ASSUME members' = [members EXCEPT ![call[c].about].active = TRUE,
                                            ![call[c].about].verified = TRUE]
          PROVE  Keeps
      BY <1>3, <2>t, <3>1 DEF Rows
    <3>2. CASE ~Member(call[c].about) /\ Seat(call[c].about, "MEMBER", TRUE, "accepted")
      BY <2>2, <2>t, <3>2
    <3> QED BY <2>0, <2>4, <3>1, <3>2 DEF Admit
  <2>5. ASSUME NEW c \in Calls, SaveMember(c) PROVE Keeps
    <3>1. CASE call[c].about # u
      BY <1>3, <2>5, <2>t, <3>1 DEF SaveMember
    <3>2. CASE call[c].about = u
      <4>1. call[c].job = "verify"
        BY <1>3, <2>5, <3>2 DEF SaveMember, Doing, SeatInv
      <4> QED BY <1>3, <2>5, <2>t, <3>2, <4>1 DEF SaveMember, Rows
    <3> QED BY <3>1, <3>2
  <2>6. ASSUME NEW c \in Calls, DeleteMember(c) PROVE Keeps
    <3>1. call[c].about # u
      BY <1>3, <2>6 DEF DeleteMember, Doing, SeatInv
    <3> QED BY <1>3, <2>6, <2>t, <3>1 DEF DeleteMember
  <2>7. ASSUME NEW c \in Calls,
               InsertInvitation(c) \/ RequestToJoin(c) \/ SaveAnswer(c) \/ GiveUp(c)
        PROVE  Keeps
    BY <2>0, <2>7 DEF InsertInvitation, RequestToJoin, SaveAnswer, GiveUp
  <2>8. CASE UNCHANGED vars
    BY <2>0, <2>8 DEF vars
  <2> QED BY <1>3, <2>1, <2>3, <2>4, <2>5, <2>6, <2>7, <2>8 DEF Next
<1>4. TypeInv /\ SeatInv /\ [Next]_vars =>
        [\A u \in Users :
           members[u].role = "CHAIRPERSON" /\ Member(u)
             => /\ members'[u].id = members[u].id
                /\ members'[u].role = "CHAIRPERSON"
                /\ members[u].active => members'[u].active]_vars
  BY <1>3 DEF Emails
<1> QED BY TypeInvariant, <1>1, <1>2, <1>4, PTL DEF Spec, SeatKept

-----------------------------------------------------------------------------
(* Answers that stand. *)

\* As long as requests about one person's invitations do not overlap, an answer
\* that is about to be saved is about an invitation that is still pending.
AnswerInv ==
  "crossed" \notin mishaps =>
    /\ \A c, d \in Calls :
         c # d /\ call[c].job \in InvitationJobs /\ call[d].job \in InvitationJobs
           => call[c].about # call[d].about
    /\ \A c \in Calls :
         call[c].job \in {"respond", "approve", "cancel"} /\ call[c].answer # "none" =>
           /\ call[c].inv \in DOMAIN invitations
           /\ invitations[call[c].inv].email = call[c].about
           /\ invitations[call[c].inv].status = "PENDING"

\* A step on the invitations of one person leaves the others' as they are.
LEMMA AnswerNext ==
  ASSUME TypeInv, AnswerInv, [Next]_vars, "crossed" \notin mishaps'
  PROVE  AnswerInv'
<1>t. /\ call \in [Calls -> CallRows] /\ invitations \in Seq(Invitations)
      /\ Len(invitations) \in Nat
  BY DEF TypeInv, Types
<1>m. "crossed" \notin mishaps
  <2>1. ASSUME NEW c \in Calls, Ask(c) PROVE mishaps \subseteq mishaps'
    <3>1. PICK image : Begin(c, image)
      BY <2>1, AskBegins DEF TypeInv
    <3> QED BY <3>1 DEF Begin
  <2> QED
    BY <2>1 DEF Next, vars, SeatFounder, InsertMember, InsertInvitation, RequestToJoin,
                SaveAnswer, Admit, SaveMember, DeleteMember, GiveUp
<1>1. CASE UNCHANGED vars
  BY <1>1 DEF vars, AnswerInv
<1>2. ASSUME NEW c \in Calls, Ask(c) PROVE AnswerInv'
  <2>1. PICK image : Begin(c, image) /\ Fresh(image)
    BY <1>2, AskBegins DEF TypeInv
  <2>2. /\ call'[c] = image /\ \A d \in Calls : d # c => call'[d] = call[d]
        /\ invitations' = invitations
    BY <1>t, <2>1 DEF Begin
  <2>3. \A d \in Calls :
          d # c /\ image.job \in InvitationJobs /\ call[d].job \in InvitationJobs
            => call[d].about # image.about
    BY <2>1 DEF Begin
  <2> QED BY <1>m, <2>1, <2>2, <2>3 DEF AnswerInv, Fresh
\* Other steps go on with their own request or end it.
<1>3. ASSUME NEW c \in Calls,
             \A d \in Calls : d # c => call'[d] = call[d],
             call'[c].job = "none" \/ (/\ call'[c].answer = "none"
                                       /\ call'[c].job = call[c].job
                                       /\ call'[c].about = call[c].about),
             DOMAIN invitations \subseteq DOMAIN invitations',
             \A i \in DOMAIN invitations :
               \/ invitations'[i] = invitations[i]
               \/ invitations'[i].email = invitations[i].email /\ invitations'[i].status = "PENDING"
               \/ /\ call[c].job \in InvitationJobs /\ invitations[i].email = call[c].about
                  /\ invitations'[i].email = invitations[i].email
      PROVE  AnswerInv'
  <2>1. "none" \notin InvitationJobs
        /\ {"respond", "approve", "cancel"} \subseteq InvitationJobs
    BY DEF InvitationJobs
  <2>2. ASSUME NEW d \in Calls, NEW e \in Calls, d # e, call'[d].job \in InvitationJobs,
               call'[e].job \in InvitationJobs
        PROVE  call'[d].about # call'[e].about
    BY <1>m, <1>3, <2>1, <2>2 DEF AnswerInv
  <2>3. ASSUME NEW d \in Calls, call'[d].job \in {"respond", "approve", "cancel"},
               call'[d].answer # "none"
        PROVE  /\ call'[d].inv \in DOMAIN invitations'
               /\ invitations'[call'[d].inv].email = call'[d].about
               /\ invitations'[call'[d].inv].status = "PENDING"
    <3>1. d # c /\ call'[d] = call[d]
      BY <1>3, <2>3
    <3>2. /\ call[d].inv \in DOMAIN invitations
          /\ invitations[call[d].inv].email = call[d].about
          /\ invitations[call[d].inv].status = "PENDING"
      BY <1>m, <2>3, <3>1 DEF AnswerInv
    <3>3. call[c].job \in InvitationJobs => call[c].about # call[d].about
      BY <1>m, <2>1, <2>3, <3>1 DEF AnswerInv
    <3> QED BY <1>3, <3>1, <3>2, <3>3
  <2> QED BY <2>2, <2>3 DEF AnswerInv
<1>e. ASSUME NEW c \in Calls, Ends(c)
      PROVE  /\ \A d \in Calls : d # c => call'[d] = call[d]
             /\ call'[c].job = "none"
  BY <1>t, <1>e DEF Ends, Idle
<1>4. ASSUME NEW c \in Calls,
             \/ SeatFounder(c) \/ InsertMember(c) \/ Admit(c) \/ SaveMember(c)
             \/ DeleteMember(c) \/ GiveUp(c)
      PROVE  AnswerInv'
  <2>1. Ends(c) /\ UNCHANGED invitations
    BY <1>4 DEF SeatFounder, InsertMember, Admit, SaveMember, DeleteMember, GiveUp
  <2> QED BY <1>3, <1>e, <2>1
<1>5. ASSUME NEW c \in Calls, NEW u, NEW by, Issue(u, by), Ends(c) PROVE AnswerInv'
  <2>1. /\ DOMAIN invitations \subseteq DOMAIN invitations'
        /\ \A i \in DOMAIN invitations : invitations'[i] = invitations[i]
    BY <1>t, <1>5 DEF Issue
  <2> QED BY <1>3, <1>e, <1>5, <2>1
<1>6. ASSUME NEW c \in Calls, InsertInvitation(c) PROVE AnswerInv'
  BY <1>5, <1>6 DEF InsertInvitation
<1>7. ASSUME NEW c \in Calls, RequestToJoin(c) PROVE AnswerInv'
  <2>1. CASE Issue(call[c].about, call[c].about)
    BY <1>5, <1>7, <2>1 DEF RequestToJoin
  <2>2. ASSUME NEW i \in DOMAIN invitations, Reopen(i) PROVE AnswerInv'
    <3>1. invitations[i] \in Invitations
      BY <1>t
    <3>2. /\ DOMAIN invitations' = DOMAIN invitations
          /\ \A j \in DOMAIN invitations :
               \/ invitations'[j] = invitations[j]
               \/ invitations'[j].email = invitations[j].email /\ invitations'[j].status = "PENDING"
      BY <1>t, <2>2, <3>1 DEF Reopen, Invitations
    <3>3. Ends(c)
      BY <1>7 DEF RequestToJoin
    <3> QED BY <1>3, <1>e, <3>2, <3>3
  <2> QED BY <1>7, <2>1, <2>2 DEF RequestToJoin, Of
<1>8. ASSUME NEW c \in Calls, SaveAnswer(c) PROVE AnswerInv'
  <2> DEFINE i == call[c].inv
  <2>1. /\ call[c].job \in InvitationJobs
        /\ i \in DOMAIN invitations /\ invitations[i].email = call[c].about
    BY <1>m, <1>8 DEF SaveAnswer, Doing, AnswerInv, InvitationJobs
  <2>2. invitations[i] \in Invitations
    BY <1>t, <2>1
  <2>3. /\ DOMAIN invitations' = DOMAIN invitations
        /\ \A j \in DOMAIN invitations :
             \/ invitations'[j] = invitations[j]
             \/ j = i /\ invitations'[j].email = invitations[j].email
    BY <1>t, <1>8, <2>1, <2>2 DEF SaveAnswer, Invitations
  <2>4. /\ \A d \in Calls : d # c => call'[d] = call[d]
        /\ call'[c].job = "none" \/ (/\ call'[c].answer = "none"
                                     /\ call'[c].job = call[c].job
                                     /\ call'[c].about = call[c].about)
    BY <1>t, <1>8 DEF SaveAnswer, CallRows, Idle
  <2> QED BY <1>3, <2>1, <2>3, <2>4
<1> QED BY <1>1, <1>2, <1>4, <1>6, <1>7, <1>8 DEF Next

\* An answered invitation is not answered otherwise, unless two requests about it
\* overlapped: the checks of the four views that answer are enough by themselves.
THEOREM AnswersStand == Spec => AnswerStands
<1>1. Init => AnswerInv
  BY DEF Init, AnswerInv, Idle, InvitationJobs
<1>2. TypeInv /\ AnswerInv /\ [Next]_vars => AnswerInv'
  BY AnswerNext DEF AnswerInv
<1>3. ASSUME TypeInv, AnswerInv, [Next]_vars, NEW i \in DOMAIN invitations,
             invitations[i].status \in Settled, "crossed" \notin mishaps
      PROVE  invitations'[i].status \in {invitations[i].status, "PENDING"}
  <2> DEFINE Stands == invitations'[i].status \in {invitations[i].status, "PENDING"}
  <2>t. invitations \in Seq(Invitations) /\ Len(invitations) \in Nat
        /\ invitations[i] \in Invitations
    BY <1>3 DEF TypeInv, Types
  <2>0. CASE UNCHANGED invitations
    BY <2>0
  <2>1. ASSUME NEW c \in Calls, Ask(c) PROVE Stands
    <3>1. PICK image : Begin(c, image)
      BY <1>3, <2>1, AskBegins DEF TypeInv
    <3> QED BY <3>1, <2>0 DEF Begin
  <2>2. ASSUME NEW u, NEW by, Issue(u, by) PROVE Stands
    BY <2>t, <2>2 DEF Issue
  <2>3. ASSUME NEW c \in Calls, InsertInvitation(c) PROVE Stands
    BY <2>2, <2>3 DEF InsertInvitation
  <2>4. ASSUME NEW c \in Calls, RequestToJoin(c) PROVE Stands
    <3>1. ASSUME NEW j \in DOMAIN invitations, Reopen(j) PROVE Stands
      BY <2>t, <3>1 DEF Reopen, Invitations
    <3> QED BY <2>2, <2>4, <3>1 DEF RequestToJoin, Of
  <2>5. ASSUME NEW c \in Calls, SaveAnswer(c) PROVE Stands
    <3>1. /\ call[c].inv \in DOMAIN invitations
          /\ invitations[call[c].inv].status = "PENDING"
      BY <1>3, <2>5 DEF SaveAnswer, Doing, AnswerInv
    <3>2. call[c].inv # i
      BY <1>3, <3>1 DEF Settled
    <3> QED BY <2>t, <2>5, <3>1, <3>2 DEF SaveAnswer
  <2>6. ASSUME NEW c \in Calls,
               \/ SeatFounder(c) \/ InsertMember(c) \/ Admit(c) \/ SaveMember(c)
               \/ DeleteMember(c) \/ GiveUp(c)
        PROVE  Stands
    BY <2>0, <2>6 DEF SeatFounder, InsertMember, Admit, SaveMember, DeleteMember, GiveUp
  <2>7. CASE UNCHANGED vars
    BY <2>0, <2>7 DEF vars
  <2> QED BY <1>3, <2>1, <2>3, <2>4, <2>5, <2>6, <2>7 DEF Next
<1>4. TypeInv /\ AnswerInv /\ [Next]_vars =>
        [\A i \in DOMAIN invitations :
           invitations[i].status \in Settled /\ "crossed" \notin mishaps
             => invitations'[i].status \in {invitations[i].status, "PENDING"}]_vars
  BY <1>3
<1> QED BY TypeInvariant, <1>1, <1>2, <1>4, PTL DEF Spec, AnswerStands

-----------------------------------------------------------------------------
(* Invitations and memberships. *)

AcceptedOf(u) ==
  \E i \in DOMAIN invitations : invitations[i].email = u /\ invitations[i].status = "ACCEPTED"

\* An acceptance that is saved has a membership, or a request that goes on to make it;
\* a request to join, which may open the invitation again, is never about someone who
\* joined by one.
AcceptInv ==
  "crossed" \notin mishaps /\ "cut" \notin mishaps =>
    /\ \A u \in Emails : members[u].how = "accepted" => AcceptedOf(u) /\ members[u].verified
    /\ \A c \in Calls : Accepted(c) =>
         /\ call[c].inv \in DOMAIN invitations
         /\ invitations[call[c].inv].email = call[c].about
         /\ invitations[call[c].inv].status = "ACCEPTED"
    /\ \A c \in Calls : call[c].job = "ask" => members[call[c].about].how # "accepted"
    /\ \A c \in Calls : call[c].job = "cancel" => call[c].answer = "CANCELLED"
    /\ "removed" \notin mishaps => \A u \in Emails :
         AcceptedOf(u) => \/ Member(u) \/ u \in Strangers
                          \/ \E c \in Calls : Accepted(c) /\ call[c].about = u

\* No history is forgotten.
LEMMA MishapsGrow ==
  ASSUME TypeInv, [Next]_vars
  PROVE  mishaps \subseteq mishaps'
<1>1. ASSUME NEW c \in Calls, Ask(c) PROVE mishaps \subseteq mishaps'
  <2>1. PICK image : Begin(c, image)
    BY <1>1, AskBegins DEF TypeInv
  <2> QED BY <2>1 DEF Begin
<1> QED
  BY <1>1 DEF Next, vars, SeatFounder, InsertMember, InsertInvitation, RequestToJoin,
              SaveAnswer, Admit, SaveMember, DeleteMember, GiveUp

\* Steps that change one membership and end a request.
LEMMA AcceptRow ==
  ASSUME TypeInv, AnswerInv, AcceptInv, "crossed" \notin mishaps, "cut" \notin mishaps,
         NEW c \in Calls, NEW u \in Emails, NEW row,
         members' = [members EXCEPT ![u] = row], Ends(c),
         invitations' = invitations, mishaps \subseteq mishaps',
         row.how = "accepted" => row.verified /\ (members[u].how = "accepted" \/ Accepted(c)),
         row = NoRow => "removed" \in mishaps',
         Accepted(c) => u = call[c].about
  PROVE  AcceptInv'
<1>t. /\ members \in [Emails -> Rows] /\ call \in [Calls -> CallRows]
      /\ \A d \in Calls : call[d].about \in Emails
  BY DEF TypeInv, Types, CallRows
<1>1. /\ call'[c] = Idle /\ \A d \in Calls : d # c => call'[d] = call[d]
      /\ Idle.job = "none"
  BY <1>t DEF Ends, Idle
<1>2. members'[u] = row /\ \A v \in Emails : v # u => members'[v] = members[v]
  BY <1>t
<1>3. \A v : AcceptedOf(v)' <=> AcceptedOf(v)
  BY DEF AcceptedOf
<1>4. \A d \in Calls : Accepted(d)' <=> d # c /\ Accepted(d)
  BY <1>1 DEF Accepted, Doing
<1>5. ASSUME NEW v \in Emails, members'[v].how = "accepted"
      PROVE  AcceptedOf(v)' /\ members'[v].verified
  <2>1. Accepted(c) => AcceptedOf(call[c].about)
    BY DEF AcceptInv, AcceptedOf
  <2> QED BY <1>2, <1>3, <1>5, <2>1 DEF AcceptInv
<1>6. ASSUME NEW d \in Calls, Accepted(d)'
      PROVE  /\ call'[d].inv \in DOMAIN invitations'
             /\ invitations'[call'[d].inv].email = call'[d].about
             /\ invitations'[call'[d].inv].status = "ACCEPTED"
  BY <1>1, <1>4, <1>6 DEF AcceptInv
<1>7. ASSUME NEW d \in Calls, call'[d].job = "ask"
      PROVE  members'[call'[d].about].how # "accepted"
  <2>1. d # c /\ call'[d] = call[d] /\ members[call[d].about].how # "accepted"
    BY <1>1, <1>7 DEF AcceptInv
  <2>2. Accepted(c) => call[c].about # call[d].about
    BY <1>7, <2>1 DEF AnswerInv, Accepted, Doing, InvitationJobs
  <2> QED BY <1>2, <1>t, <2>1, <2>2
<1>8. ASSUME "removed" \notin mishaps', NEW v \in Emails, AcceptedOf(v)'
      PROVE  Member(v)' \/ v \in Strangers \/ \E d \in Calls : Accepted(d)' /\ call'[d].about = v
  <2>1. Member(v) \/ v \in Strangers \/ \E d \in Calls : Accepted(d) /\ call[d].about = v
    BY <1>3, <1>8 DEF AcceptInv
  <2>2. Member(u)'
    BY <1>2, <1>8 DEF Member
  <2>3. v # u => (Member(v)' <=> Member(v))
    BY <1>2 DEF Member
  <2> QED BY <1>1, <1>4, <2>1, <2>2, <2>3
<1>9. \A d \in Calls : call'[d].job = "cancel" => call'[d].answer = "CANCELLED"
  BY <1>1 DEF AcceptInv
<1> QED BY <1>5, <1>6, <1>7, <1>8, <1>9 DEF AcceptInv

\* Steps on the invitations of one person.
LEMMA AcceptIssue ==
  ASSUME TypeInv, AcceptInv, "crossed" \notin mishaps, "cut" \notin mishaps, AnswerInv,
         NEW c \in Calls, NEW u \in Emails, u = call[c].about,
         members' = members, mishaps' = mishaps,
         call[c].job \in InvitationJobs,
         \A d \in Calls : d # c => call'[d] = call[d],
         call'[c].job = "none" \/ (Accepted(c)' /\ call'[c].about = call[c].about),
         ~Accepted(c),
         Accepted(c)' => /\ call'[c].inv \in DOMAIN invitations'
                         /\ invitations'[call'[c].inv].email = call[c].about
                         /\ invitations'[call'[c].inv].status = "ACCEPTED",
         \A v \in Emails \ {u} : \A i :
           (i \in DOMAIN invitations' /\ invitations'[i].email = v)
             <=> (i \in DOMAIN invitations /\ invitations[i].email = v),
         \A i \in DOMAIN invitations : invitations[i].email # u
           => invitations'[i] = invitations[i],
         AcceptedOf(u)' => Accepted(c)' \/ AcceptedOf(u),
         AcceptedOf(u) /\ members[u].how = "accepted" => AcceptedOf(u)'
  PROVE  AcceptInv'
<1>t. /\ call \in [Calls -> CallRows] /\ \A d \in Calls : call[d].about \in Emails
  BY DEF TypeInv, Types, CallRows
<1>1. \A d \in Calls : d # c => (Accepted(d)' <=> Accepted(d))
  BY DEF Accepted, Doing
<1>2. ASSUME NEW d \in Calls, d # c, Accepted(d) PROVE call[d].about # u
  BY <1>2 DEF AnswerInv, Accepted, Doing, InvitationJobs
<1>3. \A v \in Emails \ {u} : AcceptedOf(v)' <=> AcceptedOf(v)
  BY DEF AcceptedOf
<1>4. ASSUME NEW v \in Emails, members'[v].how = "accepted"
      PROVE  AcceptedOf(v)' /\ members'[v].verified
  <2>1. AcceptedOf(v) /\ members[v].verified
    BY <1>4 DEF AcceptInv
  <2>2. CASE v = u
    BY <1>4, <2>1, <2>2
  <2>3. CASE v # u
    BY <1>3, <1>4, <2>1, <2>3
  <2> QED BY <2>1, <2>2, <2>3
<1>5. ASSUME NEW d \in Calls, Accepted(d)'
      PROVE  /\ call'[d].inv \in DOMAIN invitations'
             /\ invitations'[call'[d].inv].email = call'[d].about
             /\ invitations'[call'[d].inv].status = "ACCEPTED"
  <2>1. CASE d = c
    <3>1. call'[c].job # "none"
      BY <1>5, <2>1 DEF Accepted, Doing
    <3> QED BY <1>5, <2>1, <3>1
  <2>2. CASE d # c
    <3>1. /\ call[d].inv \in DOMAIN invitations
          /\ invitations[call[d].inv].email = call[d].about
          /\ invitations[call[d].inv].status = "ACCEPTED"
      BY <1>1, <1>5, <2>2 DEF AcceptInv
    <3> QED BY <1>1, <1>2, <1>5, <1>t, <2>2, <3>1
  <2> QED BY <2>1, <2>2
<1>6. ASSUME NEW d \in Calls, call'[d].job = "ask"
      PROVE  members'[call'[d].about].how # "accepted"
  <2>1. d # c
    BY <1>6 DEF Accepted, Doing
  <2> QED BY <1>6, <2>1 DEF AcceptInv
<1>7. ASSUME "removed" \notin mishaps', NEW v \in Emails, AcceptedOf(v)'
      PROVE  Member(v)' \/ v \in Strangers \/ \E d \in Calls : Accepted(d)' /\ call'[d].about = v
  <2>1. CASE v = u /\ Accepted(c)'
    <3>1. call'[c].about = u
      BY <2>1 DEF Accepted, Doing
    <3> QED BY <2>1, <3>1
  <2>2. CASE ~(v = u /\ Accepted(c)')
    <3>1. AcceptedOf(v)
      <4>1. CASE v = u
        BY <1>7, <2>2, <4>1
      <4>2. CASE v # u
        BY <1>3, <1>7, <4>2
      <4> QED BY <4>1, <4>2
    <3>2. Member(v) \/ v \in Strangers \/ \E d \in Calls : Accepted(d) /\ call[d].about = v
      BY <1>7, <3>1 DEF AcceptInv
    <3>3. Member(v)' <=> Member(v)
      BY DEF Member
    <3> QED BY <1>1, <3>2, <3>3
  <2> QED BY <2>1, <2>2
<1>8. ASSUME NEW d \in Calls, call'[d].job = "cancel" PROVE call'[d].answer = "CANCELLED"
  <2>1. d # c
    BY <1>8 DEF Accepted, Doing
  <2> QED BY <1>8, <2>1 DEF AcceptInv
<1> QED BY <1>4, <1>5, <1>6, <1>7, <1>8 DEF AcceptInv

\* Steps that only begin or end a request.
LEMMA AcceptSame ==
  ASSUME AcceptInv, "crossed" \notin mishaps, "cut" \notin mishaps, mishaps \subseteq mishaps',
         members' = members, invitations' = invitations,
         NEW c \in Calls, \A d \in Calls : d # c => call'[d] = call[d],
         ~Accepted(c), ~(Accepted(c)'),
         call'[c].job = "ask" => members[call'[c].about].how # "accepted",
         call'[c].job = "cancel" => call'[c].answer = "CANCELLED"
  PROVE  AcceptInv'
<1>1. \A d \in Calls : Accepted(d)' <=> Accepted(d)
  BY DEF Accepted, Doing
<1>2. \A v : (AcceptedOf(v)' <=> AcceptedOf(v)) /\ (Member(v)' <=> Member(v))
  BY DEF AcceptedOf, Member
<1>3. \A d \in Calls : Accepted(d) => d # c /\ call'[d] = call[d]
  OBVIOUS
<1>4. \A u \in Emails : members'[u].how = "accepted" => AcceptedOf(u)' /\ members'[u].verified
  BY <1>2 DEF AcceptInv
<1>5. \A d \in Calls : Accepted(d)' =>
         /\ call'[d].inv \in DOMAIN invitations'
         /\ invitations'[call'[d].inv].email = call'[d].about
         /\ invitations'[call'[d].inv].status = "ACCEPTED"
  BY <1>1, <1>3 DEF AcceptInv
<1>6. \A d \in Calls :
        /\ call'[d].job = "ask" => members'[call'[d].about].how # "accepted"
        /\ call'[d].job = "cancel" => call'[d].answer = "CANCELLED"
  BY DEF AcceptInv
<1>7. "removed" \notin mishaps' => \A u \in Emails :
        AcceptedOf(u)' => \/ Member(u)' \/ u \in Strangers
                          \/ \E d \in Calls : Accepted(d)' /\ call'[d].about = u
  BY <1>1, <1>2, <1>3 DEF AcceptInv
<1> QED BY <1>4, <1>5, <1>6, <1>7 DEF AcceptInv

\* An acceptance without an account ends where it is.
LEMMA AcceptStranger ==
  ASSUME AcceptInv, "crossed" \notin mishaps, "cut" \notin mishaps, mishaps' = mishaps,
         members' = members, invitations' = invitations,
         NEW c \in Calls, \A d \in Calls : d # c => call'[d] = call[d],
         call'[c].job = "none", call[c].about \in Strangers
  PROVE  AcceptInv'
<1>1. \A d \in Calls : Accepted(d)' <=> d # c /\ Accepted(d)
  BY DEF Accepted, Doing
<1>2. \A v : (AcceptedOf(v)' <=> AcceptedOf(v)) /\ (Member(v)' <=> Member(v))
  BY DEF AcceptedOf, Member
<1>3. \A u \in Emails : members'[u].how = "accepted" => AcceptedOf(u)' /\ members'[u].verified
  BY <1>2 DEF AcceptInv
<1>4. \A d \in Calls : Accepted(d)' =>
         /\ call'[d].inv \in DOMAIN invitations'
         /\ invitations'[call'[d].inv].email = call'[d].about
         /\ invitations'[call'[d].inv].status = "ACCEPTED"
  BY <1>1 DEF AcceptInv
<1>5. \A d \in Calls :
        /\ call'[d].job = "ask" => members'[call'[d].about].how # "accepted"
        /\ call'[d].job = "cancel" => call'[d].answer = "CANCELLED"
  BY DEF AcceptInv
<1>6. "removed" \notin mishaps' => \A u \in Emails :
        AcceptedOf(u)' => \/ Member(u)' \/ u \in Strangers
                          \/ \E d \in Calls : Accepted(d)' /\ call'[d].about = u
  BY <1>1, <1>2 DEF AcceptInv
<1> QED BY <1>3, <1>4, <1>5, <1>6 DEF AcceptInv

LEMMA AcceptNext ==
  ASSUME TypeInv, AnswerInv, AcceptInv, [Next]_vars
  PROVE  AcceptInv'
<1> SUFFICES ASSUME "crossed" \notin mishaps', "cut" \notin mishaps' PROVE AcceptInv'
  BY DEF AcceptInv
<1>m. mishaps \subseteq mishaps' /\ "crossed" \notin mishaps /\ "cut" \notin mishaps
  BY MishapsGrow
<1>t. /\ members \in [Emails -> Rows] /\ call \in [Calls -> CallRows]
      /\ invitations \in Seq(Invitations) /\ Len(invitations) \in Nat
      /\ \A d \in Calls : call[d].about \in Emails
  BY DEF TypeInv, Types, CallRows
<1>f. Founder \in Emails
  BY DEF Users, Emails
<1>e. ASSUME NEW c \in Calls, Ends(c)
      PROVE  /\ \A d \in Calls : d # c => call'[d] = call[d]
             /\ call'[c].job = "none" /\ ~(Accepted(c)')
  BY <1>t, <1>e DEF Ends, Idle, Accepted, Doing
<1>1. CASE UNCHANGED vars
  BY <1>1 DEF vars, AcceptInv, AcceptedOf, Accepted, Doing, Member
<1>2. ASSUME NEW c \in Calls, Ask(c) PROVE AcceptInv'
  <2>1. PICK image : Begin(c, image) /\ Fresh(image)
    BY <1>2, AskBegins DEF TypeInv
  <2>2. /\ call'[c] = image /\ \A d \in Calls : d # c => call'[d] = call[d]
        /\ members' = members /\ invitations' = invitations /\ call[c] = Idle
    BY <1>t, <2>1 DEF Begin
  <2>3. ~Accepted(c) /\ ~(Accepted(c)')
    BY <2>1, <2>2 DEF Fresh, Accepted, Doing, Idle
  <2>4. /\ image.job = "ask" => members[image.about].how # "accepted"
        /\ image.job = "cancel" => image.answer = "CANCELLED"
    BY <2>1 DEF Fresh, Member, NoRow
  <2> QED BY <1>m, <2>2, <2>3, <2>4, AcceptSame
\* Steps on memberships.
<1>3. ASSUME NEW c \in Calls, NEW u \in Emails, NEW role, NEW verified, NEW how,
             how \in {"founded", "added"} \/ (how = "accepted" /\ verified = TRUE /\ Accepted(c)),
             Seat(u, role, verified, how), Ends(c), UNCHANGED invitations,
             Accepted(c) => u = call[c].about
      PROVE  AcceptInv'
  <2> DEFINE row == [id |-> begun, role |-> role, active |-> TRUE, verified |-> verified, how |-> how]
  <2>1. members' = [members EXCEPT ![u] = row]
    BY <1>3 DEF Seat
  <2>2. row.how = how /\ row.verified = verified /\ row # NoRow
    BY <1>3 DEF NoRow
  <2> HIDE DEF row
  <2> QED BY <1>m, <1>3, <2>1, <2>2, AcceptRow
<1>4. ASSUME NEW c \in Calls, SeatFounder(c) PROVE AcceptInv'
  <2>1. ~Accepted(c)
    BY <1>4 DEF SeatFounder, Accepted, Doing
  <2> QED BY <1>3, <1>4, <1>f, <2>1 DEF SeatFounder
<1>5. ASSUME NEW c \in Calls, InsertMember(c) PROVE AcceptInv'
  <2>1. ~Accepted(c)
    BY <1>5 DEF InsertMember, Accepted, Doing
  <2> QED BY <1>3, <1>5, <1>t, <2>1 DEF InsertMember
<1>6. ASSUME NEW c \in Calls, Admit(c) PROVE AcceptInv'
  <2> DEFINE u == call[c].about
             row == [members[u] EXCEPT !.active = TRUE, !.verified = TRUE]
  <2>1. ASSUME members' = [members EXCEPT ![u].active = TRUE, ![u].verified = TRUE]
        PROVE  AcceptInv'
    <3>1. members' = [members EXCEPT ![u] = row] /\ Ends(c) /\ Accepted(c)
          /\ invitations' = invitations
      BY <1>6, <2>1 DEF Admit
    <3>2. row.how = members[u].how /\ row.verified = TRUE
      BY <1>t DEF Rows
    <3>3. row # NoRow
      BY <3>2 DEF NoRow
    <3> HIDE DEF row
    <3> QED BY <1>m, <1>t, <3>1, <3>2, <3>3, AcceptRow
  <2>2. ASSUME Seat(u, "MEMBER", TRUE, "accepted") PROVE AcceptInv'
    BY <1>3, <1>6, <1>t, <2>2 DEF Admit
  <2>3. CASE u \in Strangers /\ UNCHANGED members
    BY <1>6, <1>e, <1>m, <2>3, AcceptStranger DEF Admit
  <2> QED BY <1>6, <2>1, <2>2, <2>3 DEF Admit
<1>7. ASSUME NEW c \in Calls, SaveMember(c) PROVE AcceptInv'
  <2> DEFINE u == call[c].about
             row == CASE call[c].job = "verify" -> [members[u] EXCEPT !.verified = TRUE]
                      [] call[c].job = "toggle" -> [members[u] EXCEPT !.active = ~call[c].row.active]
                      [] call[c].job = "role"   -> [members[u] EXCEPT !.role = call[c].role]
  <2>1. members' = [members EXCEPT ![u] = row] /\ Ends(c) /\ invitations' = invitations
    BY <1>7 DEF SaveMember
  <2>2. /\ row.id = members[u].id /\ row.how = members[u].how
        /\ row.verified = TRUE \/ row.verified = members[u].verified
    BY <1>t, <1>7 DEF Rows, SaveMember, Doing
  <2>3. members[u].id = call[c].row.id /\ call[c].row.id > 0
    BY <1>t, <1>7 DEF SaveMember, Doing, RowStands, TypeInv, IdsInv
  <2> HIDE DEF row
  <2>4. row # NoRow
    <3>1. NoRow.id = 0 /\ row.id > 0
      BY <2>2, <2>3 DEF NoRow
    <3> QED BY <3>1
  <2>5. ~Accepted(c)
    BY <1>7 DEF SaveMember, Accepted, Doing
  <2>6. row.how = "accepted" => row.verified /\ members[u].how = "accepted"
    BY <1>m, <1>t, <2>2 DEF AcceptInv
  <2>7. u \in Emails
    BY <1>t
  <2> HIDE DEF u
  <2>8. /\ row.how = "accepted" => row.verified /\ (members[u].how = "accepted" \/ Accepted(c))
        /\ row = NoRow => "removed" \in mishaps'
        /\ Accepted(c) => u = call[c].about
    BY <2>4, <2>5, <2>6
  <2> QED BY ONLY TypeInv, AnswerInv, AcceptInv, <1>m, <1>7, <2>1, <2>7, <2>8, AcceptRow
<1>8. ASSUME NEW c \in Calls, DeleteMember(c) PROVE AcceptInv'
  <2>1. ~Accepted(c) /\ "removed" \in mishaps' /\ NoRow.how = "none"
    BY <1>8 DEF DeleteMember, Accepted, Doing, NoRow
  <2> QED BY <1>m, <1>t, <1>8, <2>1, AcceptRow DEF DeleteMember
<1>9. ASSUME NEW c \in Calls, GiveUp(c) PROVE AcceptInv'
  <2>1. ~Accepted(c)
    BY <1>9 DEF GiveUp
  <2> QED BY <1>e, <1>m, <1>9, <2>1, AcceptSame DEF GiveUp
\* Steps on invitations.
<1>10. ASSUME NEW c \in Calls, NEW by, Issue(call[c].about, by), Ends(c), ~Accepted(c),
              call[c].job \in InvitationJobs, UNCHANGED <<members, mishaps>>
       PROVE  AcceptInv'
  <2> DEFINE u == call[c].about
             n == Len(invitations) + 1
  <2>1. /\ DOMAIN invitations' = DOMAIN invitations \cup {n}
        /\ n \notin DOMAIN invitations
        /\ invitations'[n].email = u /\ invitations'[n].status = "PENDING"
        /\ \A i \in DOMAIN invitations : invitations'[i] = invitations[i]
    BY <1>t, <1>10 DEF Issue
  <2>2. PICK v \in Emails : v = u
    BY <1>t
  <2>3. AcceptedOf(v)' <=> AcceptedOf(v)
    BY <2>1 DEF AcceptedOf
  <2> HIDE DEF n
  <2>4. \A w \in Emails \ {v} : \A i :
          (i \in DOMAIN invitations' /\ invitations'[i].email = w)
            <=> (i \in DOMAIN invitations /\ invitations[i].email = w)
    BY <2>1, <2>2
  <2> QED BY <1>e, <1>m, <1>10, <2>1, <2>2, <2>3, <2>4, AcceptIssue
<1>11. ASSUME NEW c \in Calls, InsertInvitation(c) PROVE AcceptInv'
  <2>1. ~Accepted(c) /\ call[c].job \in InvitationJobs
    BY <1>11 DEF InsertInvitation, Accepted, Doing, InvitationJobs
  <2> QED BY <1>10, <1>11, <2>1 DEF InsertInvitation
<1>12. ASSUME NEW c \in Calls, NEW i \in DOMAIN invitations, NEW status \in Statuses, NEW asked,
              invitations[i].email = call[c].about, ~Accepted(c),
              call[c].job \in InvitationJobs, UNCHANGED <<members, mishaps>>,
              DOMAIN invitations' = DOMAIN invitations,
              \A j \in DOMAIN invitations : j # i => invitations'[j] = invitations[j],
              invitations'[i].email = invitations[i].email, invitations'[i].status = status,
              \A d \in Calls : d # c => call'[d] = call[d],
              IF status = "ACCEPTED"
                THEN /\ Accepted(c)' /\ call'[c].about = call[c].about
                     /\ call'[c].inv = i
                ELSE call'[c].job = "none",
              members[call[c].about].how # "accepted" \/ invitations[i].status = "PENDING"
       PROVE  AcceptInv'
  <2>1. PICK v \in Emails : v = call[c].about
    BY <1>t
  <2>2. \A w \in Emails \ {v} : \A j :
          (j \in DOMAIN invitations' /\ invitations'[j].email = w)
            <=> (j \in DOMAIN invitations /\ invitations[j].email = w)
    BY <1>12, <2>1
  <2>3. call'[c].job = "none" => ~(Accepted(c)')
    BY DEF Accepted, Doing
  <2>4. AcceptedOf(v)' => Accepted(c)' \/ AcceptedOf(v)
    BY <1>12, <2>1 DEF AcceptedOf
  <2>5. AcceptedOf(v) /\ members[v].how = "accepted" => AcceptedOf(v)'
    BY <1>12, <2>1 DEF AcceptedOf
  <2> QED BY <1>m, <1>12, <2>1, <2>2, <2>3, <2>4, <2>5, AcceptIssue
<1>13. ASSUME NEW c \in Calls, RequestToJoin(c) PROVE AcceptInv'
  <2>1. ~Accepted(c) /\ call[c].job \in InvitationJobs /\ call[c].job = "ask" /\ Ends(c)
    BY <1>13 DEF RequestToJoin, Accepted, Doing, InvitationJobs
  <2>2. CASE Issue(call[c].about, call[c].about)
    BY <1>10, <1>13, <2>1, <2>2 DEF RequestToJoin
  <2>3. ASSUME NEW i \in DOMAIN invitations, invitations[i].email = call[c].about, Reopen(i)
        PROVE  AcceptInv'
    <3>1. invitations[i] \in Invitations
      BY <1>t
    <3>2. /\ DOMAIN invitations' = DOMAIN invitations
          /\ \A j \in DOMAIN invitations : j # i => invitations'[j] = invitations[j]
          /\ invitations'[i].email = invitations[i].email /\ invitations'[i].status = "PENDING"
      BY <1>t, <2>3, <3>1 DEF Reopen, Invitations
    <3>3. members[call[c].about].how # "accepted"
      BY <1>m, <2>1 DEF AcceptInv
    <3>4. "PENDING" \in Statuses
      BY DEF Statuses
    <3> QED BY <1>e, <1>12, <1>13, <2>1, <2>3, <3>2, <3>3, <3>4 DEF RequestToJoin
  <2> QED BY <1>13, <2>2, <2>3 DEF RequestToJoin, Of
<1>14. ASSUME NEW c \in Calls, SaveAnswer(c) PROVE AcceptInv'
  <2> DEFINE i == call[c].inv
             answer == call[c].answer
  <2>1. /\ call[c].job \in InvitationJobs /\ ~Accepted(c)
        /\ i \in DOMAIN invitations /\ invitations[i].email = call[c].about
        /\ invitations[i].status = "PENDING"
    BY <1>m, <1>14 DEF SaveAnswer, Doing, AnswerInv, InvitationJobs, Accepted
  <2>2. invitations[i] \in Invitations /\ answer \in Statuses
    BY <1>t, <1>14, <2>1 DEF SaveAnswer, CallRows, Statuses, Answers
  <2>3. /\ DOMAIN invitations' = DOMAIN invitations
        /\ \A j \in DOMAIN invitations : j # i => invitations'[j] = invitations[j]
        /\ invitations'[i].email = invitations[i].email /\ invitations'[i].status = answer
    BY <1>t, <1>14, <2>1, <2>2 DEF SaveAnswer, Invitations
  <2>4. \A d \in Calls : d # c => call'[d] = call[d]
    BY <1>t, <1>14 DEF SaveAnswer
  <2>5. CASE answer = "ACCEPTED"
    <3>1. call[c].job \in {"respond", "approve"}
      BY <1>m, <1>14, <2>5 DEF SaveAnswer, Doing, AcceptInv
    <3>2. call'[c] = [call[c] EXCEPT !.answer = "none"]
      BY <1>t, <1>14, <2>5 DEF SaveAnswer
    <3>3. /\ call'[c].answer = "none" /\ call'[c].job = call[c].job
          /\ call'[c].about = call[c].about /\ call'[c].inv = i
      BY <1>t, <3>2 DEF CallRows
    <3>4. Accepted(c)'
      BY <3>1, <3>3 DEF Accepted, Doing
    <3> QED BY <1>12, <1>14, <2>1, <2>2, <2>3, <2>4, <2>5, <3>3, <3>4 DEF SaveAnswer
  <2>6. CASE answer # "ACCEPTED"
    <3>1. call'[c].job = "none"
      BY <1>t, <1>14, <2>6 DEF SaveAnswer, Idle
    <3> QED BY <1>12, <1>14, <2>1, <2>2, <2>3, <2>4, <2>6, <3>1 DEF SaveAnswer
  <2> QED BY <2>5, <2>6
<1> QED
  BY <1>1, <1>2, <1>4, <1>5, <1>6, <1>7, <1>8, <1>9, <1>11, <1>13, <1>14 DEF Next

\* Invitations and memberships agree when no request is under way, unless requests
\* about one person overlapped or a worker died between the two saves of an
\* acceptance: one without an account leaves no row (RespondGroupInvitationView,
\* AdminApproveJoinRequestView).
THEOREM InvitationsAgree == Spec => []AcceptedAreMembers
<1>1. Init => AnswerInv /\ AcceptInv
  <2> SUFFICES ASSUME Init PROVE AnswerInv /\ AcceptInv
    OBVIOUS
  <2>1. \A c \in Calls : call[c].job = "none"
    BY DEF Init, Idle
  <2>2. DOMAIN invitations = {} /\ \A u \in Emails : members[u].how = "none"
    BY DEF Init, NoRow
  <2> QED BY <2>1, <2>2 DEF AnswerInv, AcceptInv, AcceptedOf, Accepted, Doing, InvitationJobs
<1>2. TypeInv /\ AnswerInv /\ AcceptInv /\ [Next]_vars => AnswerInv' /\ AcceptInv'
  BY AnswerNext, AcceptNext DEF AnswerInv
<1>3. TypeInv /\ AcceptInv => AcceptedAreMembers
  <2> SUFFICES ASSUME TypeInv, AcceptInv, Quiet, Without({"crossed", "cut"}), NEW u \in Emails
               PROVE  LET accepted == \E i \in Of(u) : invitations[i].status = "ACCEPTED"
                      IN /\ members[u].how = "accepted" => accepted /\ members[u].verified
                         /\ accepted /\ "removed" \notin mishaps
                              => (Member(u) <=> u \in Users)
    BY DEF AcceptedAreMembers
  <2>1. "crossed" \notin mishaps /\ "cut" \notin mishaps
    BY DEF Without
  <2>2. \A c \in Calls : ~Accepted(c)
    BY DEF Quiet, Idle, Accepted, Doing
  <2>3. AcceptedOf(u) <=> \E i \in Of(u) : invitations[i].status = "ACCEPTED"
    BY DEF AcceptedOf, Of
  <2>4. (u \in Strangers => ~Member(u)) /\ (u \in Strangers <=> u \notin Users)
    BY MembershipAssumptions DEF TypeInv, AccountInv, Emails
  <2> QED BY <2>1, <2>2, <2>3, <2>4 DEF AcceptInv
<1> QED BY TypeInvariant, <1>1, <1>2, <1>3, PTL DEF Spec

=============================================================================
