----------------------------- MODULE Membership ------------------------------
(***************************************************************************)
(* One group, its memberships and its invitations: the views of            *)
(* groups/views.py with the serializers they validate with.                *)
(*                                                                         *)
(* No view opens a transaction or locks a row: it reads what its checks    *)
(* need, then saves, and an accepted invitation is saved before the        *)
(* membership is made.  A call is such a view between its steps.  A save   *)
(* names its columns and fails if the row it read has been deleted; a      *)
(* membership row is known by its id, so a member removed and added again  *)
(* has another row.  Invitations are addressed to an email, of a user or   *)
(* of somebody who has no account and gets none here; their expires_at is  *)
(* never looked at.                                                        *)
(***************************************************************************)
EXTENDS Integers, Sequences, FiniteSetsExt, SequencesExt

CONSTANTS
  Founder,     \* creates the group
  Others,      \* other registered users
  Strangers,   \* emails that belong to no registered user
  Calls,       \* requests that may be under way at the same time
  Offered,     \* roles that requests name
  MaxCalls,    \* bound on the requests that begin
  MaxInvites   \* bound on invitation rows

Users  == {Founder} \cup Others
Emails == Users \cup Strangers

Roles == {"CHAIRPERSON", "SECRETARY", "TREASURER", "MEMBER"}

ASSUME MembershipAssumptions ==
  /\ Founder \notin Others
  /\ Strangers \cap Users = {}
  /\ Offered \subseteq Roles
  /\ MaxCalls \in Nat /\ MaxInvites \in Nat

VARIABLES
  members,     \* the membership row of the user with each email
  invitations, \* GroupInvitation rows in the order they were made
  call,        \* requests under way
  begun,       \* number of requests begun; a new row takes it as its id
  mishaps      \* history: what has happened that properties are conditional on

vars == <<members, invitations, call, begun, mishaps>>

Statuses == {"PENDING", "ACCEPTED", "DECLINED", "CANCELLED"}
Settled  == Statuses \ {"PENDING"}
Mishaps  == {"crossed",   \* two requests about one person's invitations overlapped
             "cut",       \* a worker died half way
             "removed"}   \* a member was removed

\* "how" records the way a row was made, "asked" who last made an invitation
\* pending; the code keeps neither.
NoRow == [id |-> 0, role |-> "MEMBER", active |-> FALSE, verified |-> FALSE, how |-> "none"]
Idle  == [job |-> "none", actor |-> Founder, about |-> Founder, row |-> NoRow,
          inv |-> 0, answer |-> "none", role |-> "MEMBER"]

Init ==
  /\ members = [u \in Emails |-> NoRow]
  /\ invitations = << >>
  /\ call = [c \in Calls |-> Idle]
  /\ begun = 0
  /\ mishaps = {}

-----------------------------------------------------------------------------
Member(u) == members[u] # NoRow
Holds(u, roles) == members[u].active /\ members[u].verified /\ members[u].role \in roles

\* is_group_host, is_group_manager.
IsHost(u)    == Holds(u, {"CHAIRPERSON"})
IsManager(u) == Holds(u, {"CHAIRPERSON", "SECRETARY"})

Of(u) == {i \in DOMAIN invitations : invitations[i].email = u}
Pending(u) == {i \in Of(u) : invitations[i].status = "PENDING"}

Jobs == {"create", "invite", "ask", "respond", "approve", "cancel", "add", "verify",
         "toggle", "remove", "role"}
InvitationJobs == {"invite", "ask", "respond", "approve", "cancel"}

\* A request begins: its permission and validity checks hold on what it reads.
Begin(c, image) ==
  /\ call[c] = Idle
  /\ begun < MaxCalls
  /\ begun' = begun + 1
  /\ call' = [call EXCEPT ![c] = image]
  /\ mishaps' = mishaps \cup {k \in {"crossed"} :
       /\ image.job \in InvitationJobs
       /\ \E d \in Calls \ {c} : call[d].job \in InvitationJobs /\ call[d].about = image.about}
  /\ UNCHANGED <<members, invitations>>

RequestOn(job, a, u, i, answer, role) ==
  [job |-> job, actor |-> a, about |-> u, row |-> members[u], inv |-> i, answer |-> answer,
   role |-> role]
Request(job, a, u) == RequestOn(job, a, u, 0, "none", "MEMBER")

\* GroupCreateSerializer.create: the group row is made, its chairperson follows.
CreateGroup(c) ==
  /\ begun = 0
  /\ Begin(c, Request("create", Founder, Founder))

\* SendGroupInvitationSerializer.validate: any email, whether it has an account or
\* not.
Invitable(a, u) == u # a /\ ~Member(u) /\ Pending(u) = {}

SendInvitation(c, a, u) ==
  /\ IsHost(a) /\ Invitable(a, u)
  /\ Begin(c, Request("invite", a, u))

JoinByCode(c, u) ==
  /\ begun > 0 /\ ~Member(u)
  /\ Begin(c, Request("ask", u, u))

Answers == {"ACCEPTED", "DECLINED"}
Undecided(i) == invitations[i].status = "PENDING"

\* The invited person answers, but not an invitation of their own making.
Answerable(u, i) ==
  /\ invitations[i].email = u
  /\ invitations[i].by # u
  /\ Undecided(i)

Respond(c, u, i, answer) ==
  /\ Answerable(u, i)
  /\ Begin(c, RequestOn("respond", u, u, i, answer, "MEMBER"))

\* A manager answers any pending invitation, whether a join request or not, and
\* whether the email has an account or not.
AdminRespondLate(c, a, i, answer) ==
  /\ IsManager(a)
  /\ Begin(c, RequestOn("approve", a, invitations[i].email, i, answer, "MEMBER"))
AdminRespond(c, a, i, answer) ==
  /\ IsManager(a) /\ Undecided(i)
  /\ Begin(c, RequestOn("approve", a, invitations[i].email, i, answer, "MEMBER"))

CancelInvitation(c, a, i) ==
  /\ IsHost(a) /\ Undecided(i)
  /\ Begin(c, RequestOn("cancel", a, invitations[i].email, i, "CANCELLED", "MEMBER"))

AddMember(c, a, u, role) ==
  /\ IsHost(a) /\ ~Member(u)
  /\ Begin(c, RequestOn("add", a, u, 0, "none", role))

VerifyMember(c, a, u) ==
  /\ IsHost(a) /\ Member(u)
  /\ Begin(c, Request("verify", a, u))

\* The chairperson's row is protected from what follows, as it was read.
Unseated(u) == Member(u) /\ members[u].role # "CHAIRPERSON"

ToggleActive(c, a, u) ==
  /\ IsHost(a) /\ Unseated(u)
  /\ Begin(c, Request("toggle", a, u))

RemoveMember(c, a, u) ==
  /\ IsManager(a) /\ Unseated(u) /\ u # a
  /\ Begin(c, Request("remove", a, u))

ChangeRole(c, a, u, role) ==
  /\ IsHost(a) /\ Unseated(u)
  /\ role # "CHAIRPERSON"
  /\ Begin(c, RequestOn("role", a, u, 0, "none", role))

-----------------------------------------------------------------------------
Ends(c) == call' = [call EXCEPT ![c] = Idle]
Doing(c, jobs) == call[c].job \in jobs

\* A new membership row, unless the user has one (unique per group and user).
Seat(u, role, verified, how) ==
  members' = [members EXCEPT ![u] =
    [id |-> begun, role |-> role, active |-> TRUE, verified |-> verified, how |-> how]]

SeatFounder(c) ==
  /\ Doing(c, {"create"}) /\ ~Member(Founder)
  /\ Seat(Founder, "CHAIRPERSON", TRUE, "founded")
  /\ Ends(c)
  /\ UNCHANGED <<invitations, begun, mishaps>>

InsertMember(c) ==
  /\ Doing(c, {"add"}) /\ ~Member(call[c].about)
  /\ Seat(call[c].about, call[c].role, FALSE, "added")
  /\ Ends(c)
  /\ UNCHANGED <<invitations, begun, mishaps>>

\* A new invitation, unless one is pending for that email (the partial unique
\* constraint).
IssueAgain(u, by) ==
  /\ Len(invitations) < MaxInvites
  /\ invitations' = Append(invitations,
       [email |-> u, by |-> by, status |-> "PENDING", asked |-> "group"])
Issue(u, by) ==
  /\ Pending(u) = {} /\ Len(invitations) < MaxInvites
  /\ invitations' = Append(invitations,
       [email |-> u, by |-> by, status |-> "PENDING",
        asked |-> IF by = u THEN "user" ELSE "group"])

InsertInvitation(c) ==
  /\ Doing(c, {"invite"})
  /\ Issue(call[c].about, call[c].actor)
  /\ Ends(c)
  /\ UNCHANGED <<members, begun, mishaps>>

\* get_or_create by group and email: an only row is used again, whatever became
\* of it, and keeps its invited_by; with several rows the request fails.
Reopen(i) ==
  /\ invitations[i].status # "PENDING"
  /\ invitations' = [invitations EXCEPT ![i].status = "PENDING", ![i].asked = "user"]

RequestToJoin(c) ==
  LET u == call[c].about
  IN /\ Doing(c, {"ask"})
     /\ \/ Of(u) = {} /\ Issue(u, u)
        \/ \E i \in Of(u) : Of(u) = {i} /\ Reopen(i)
     /\ Ends(c)
     /\ UNCHANGED <<members, begun, mishaps>>

\* The answer is saved without another look at the row.  A decline or a
\* cancellation ends the request; an acceptance goes on to the membership.
SaveAnswer(c) ==
  /\ Doing(c, {"respond", "approve", "cancel"}) /\ call[c].answer # "none"
  /\ invitations' = [invitations EXCEPT ![call[c].inv].status = call[c].answer]
  /\ call' = [call EXCEPT ![c] = IF call[c].answer = "ACCEPTED"
                                 THEN [call[c] EXCEPT !.answer = "none"] ELSE Idle]
  /\ UNCHANGED <<members, begun, mishaps>>

\* get_or_create of the membership; one that exists is made active and verified.
\* Without an account (target_user is None) there is nobody to make a member, and
\* the invitation stays accepted.
Accepted(c) == Doing(c, {"respond", "approve"}) /\ call[c].answer = "none"
AdmitVerified(c) ==
  LET u == call[c].about
  IN /\ Accepted(c)
     /\ members' = [members EXCEPT ![u] =
          IF Member(u) THEN [@ EXCEPT !.active = TRUE, !.verified = TRUE] ELSE @]
     /\ Ends(c)
     /\ UNCHANGED <<invitations, begun, mishaps>>
Admit(c) ==
  LET u == call[c].about
  IN /\ Accepted(c)
     /\ \/ u \in Strangers /\ UNCHANGED members
        \/ Member(u) /\ members' = [members EXCEPT ![u].active = TRUE, ![u].verified = TRUE]
        \/ u \in Users /\ ~Member(u) /\ Seat(u, "MEMBER", TRUE, "accepted")
     /\ Ends(c)
     /\ UNCHANGED <<invitations, begun, mishaps>>

\* The row c read is still there.
RowOfUser(c) == Member(call[c].about)
RowStands(c) == members[call[c].about].id = call[c].row.id

SaveMember(c) ==
  LET u == call[c].about
  IN /\ Doing(c, {"verify", "toggle", "role"}) /\ RowStands(c)
     /\ members' = [members EXCEPT ![u] =
          CASE call[c].job = "verify" -> [@ EXCEPT !.verified = TRUE]
            [] call[c].job = "toggle" -> [@ EXCEPT !.active = ~call[c].row.active]
            [] call[c].job = "role"   -> [@ EXCEPT !.role = call[c].role]]
     /\ Ends(c)
     /\ UNCHANGED <<invitations, begun, mishaps>>

DeleteMember(c) ==
  /\ Doing(c, {"remove"}) /\ RowStands(c)
  /\ members' = [members EXCEPT ![call[c].about] = NoRow]
  /\ mishaps' = mishaps \cup {"removed"}
  /\ Ends(c)
  /\ UNCHANGED <<invitations, begun>>

\* The request fails (IntegrityError, DatabaseError, MultipleObjectsReturned) or
\* its worker dies.
GiveUp(c) ==
  /\ call[c] # Idle
  /\ mishaps' = IF Accepted(c) \/ Doing(c, {"create"}) THEN mishaps \cup {"cut"} ELSE mishaps
  /\ Ends(c)
  /\ UNCHANGED <<members, invitations, begun>>

Ask(c) ==
  \/ CreateGroup(c)
  \/ \E u \in Users : JoinByCode(c, u)
  \/ \E i \in DOMAIN invitations, answer \in Answers :
       \E u \in Users : Respond(c, u, i, answer) \/ AdminRespond(c, u, i, answer)
  \/ \E a \in Users :
       \/ \E i \in DOMAIN invitations : CancelInvitation(c, a, i)
       \/ \E u \in Emails : SendInvitation(c, a, u)
       \/ \E u \in Users :
            \/ VerifyMember(c, a, u)
            \/ ToggleActive(c, a, u)
            \/ RemoveMember(c, a, u)
            \/ \E role \in Offered : AddMember(c, a, u, role) \/ ChangeRole(c, a, u, role)

Next ==
  \E c \in Calls :
    \/ Ask(c)
    \/ SeatFounder(c)
    \/ InsertMember(c)
    \/ InsertInvitation(c)
    \/ RequestToJoin(c)
    \/ SaveAnswer(c)
    \/ Admit(c)
    \/ SaveMember(c)
    \/ DeleteMember(c)
    \/ GiveUp(c)

Spec == Init /\ [][Next]_vars

-----------------------------------------------------------------------------
(***************************************************************************)
(* Properties.                                                             *)
(***************************************************************************)

Without(kinds) == mishaps \cap kinds = {}
Quiet == \A c \in Calls : call[c] = Idle

\* Every variable keeps its type, and no two invitations are pending for one
\* email.
TypeOK ==
  /\ \A u \in Emails :
       /\ members[u] = NoRow \/ members[u].id \in 1..MaxCalls
       /\ members[u].role \in Roles
       /\ {members[u].active, members[u].verified} \subseteq BOOLEAN
       /\ \A i, j \in Pending(u) : i = j
  /\ \A i \in DOMAIN invitations :
       invitations[i] \in [email : Emails, by : Users, status : Statuses, asked : {"user", "group"}]
  /\ \A c \in Calls : call[c].job \in Jobs \cup {"none"} /\ call[c].inv \in 0..Len(invitations)
  /\ begun \in 0..MaxCalls
  /\ mishaps \subseteq Mishaps

\* A chairperson keeps the seat: no toggle, removal or change of role reaches a
\* chairperson's row, even one whose checks were made on an earlier row of the
\* same person.
SeatKept ==
  [][\A u \in Users :
       members[u].role = "CHAIRPERSON" /\ Member(u)
         => /\ members'[u].id = members[u].id
            /\ members'[u].role = "CHAIRPERSON"
            /\ members[u].active => members'[u].active]_vars

\* An answered invitation is not answered otherwise - only a new join request
\* makes it pending again - unless two requests about it overlapped.
AnswerStands ==
  [][\A i \in DOMAIN invitations :
       invitations[i].status \in Settled /\ "crossed" \notin mishaps
         => invitations'[i].status \in {invitations[i].status, "PENDING"}]_vars

\* Invitations and memberships agree when no request is under way: who joined by
\* invitation has one that is ACCEPTED, and an ACCEPTED one made a member of a user,
\* unless removed, and of nobody when the email has no account.  Overlapping requests
\* about one person, or a worker that died between the two saves, can part them.
AcceptedAreMembers ==
  Quiet /\ Without({"crossed", "cut"}) =>
    \A u \in Emails :
      LET accepted == \E i \in Of(u) : invitations[i].status = "ACCEPTED"
      IN /\ members[u].how = "accepted" => accepted /\ members[u].verified
         /\ accepted /\ "removed" \notin mishaps => (Member(u) <=> u \in Users)

\* views.py:619, join by code: "Join request sent successfully. Pending admin
\* approval."  Nobody is admitted on a request they made and answered themselves.
JoinNeedsApproval ==
  [][\A c \in Calls, i \in DOMAIN invitations :
       Doing(c, {"respond"}) /\ call[c].inv = i /\ SaveAnswer(c) /\ call[c].answer = "ACCEPTED"
         => invitations[i].asked = "group"]_vars

=============================================================================
