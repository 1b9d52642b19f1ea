----------------------------- MODULE Attendance -----------------------------
(***************************************************************************)
(* One meeting, its participant sessions and its attendance rows: the      *)
(* handlers of meetings/views.py and the LiveKit webhook, with the         *)
(* services of meetings/services.py they call.                             *)
(*                                                                         *)
(* A handler reads the meeting row without a lock, checks its status, and  *)
(* goes on with that image: it saves the meeting, or opens a transaction   *)
(* that locks open sessions (ready -> looked), has sync_meeting_attendance *)
(* read rows and sessions (looked -> counted) and writes (counted -> done).*)
(* A transaction sees what others have committed and its own changes.      *)
(* An attendance row is its status and its total duration, not yet rounded *)
(* to minutes; first_joined_at is set exactly in rows marked present.      *)
(***************************************************************************)
EXTENDS Integers, Sequences, FiniteSetsExt, Functions

CONSTANTS
  Host,         \* the meeting's host
  Members,      \* the other verified members of its group
  Calls,        \* handlers that may run at the same time
  MaxSessions,  \* bound on participant sessions
  MaxTime       \* bound on the clock

Users == {Host} \cup Members
None  == 0

ASSUME AttendanceAssumptions ==
  /\ Host \notin Members
  /\ MaxSessions \in Nat /\ MaxTime \in Nat \ {0}

VARIABLES
  now,
  meeting,     \* the Meeting row: status, actual_start, actual_end
  sessions,    \* ParticipantSession rows in the order they were committed
  attendance,  \* the Attendance row of each user
  call,        \* the handlers under way
  mishaps      \* history: what has happened that properties are conditional on

vars == <<now, meeting, sessions, attendance, call, mishaps>>

Times    == 0..MaxTime
Statuses == {"scheduled", "ongoing", "ended"}
NoRow    == [status |-> "none", duration |-> 0]
Absent   == [status |-> "absent", duration |-> 0]
Unborn   == [status |-> "none", start |-> None, end |-> None]

\* A handler: its job, whose it is, the meeting it read, the sessions its
\* transaction closes and when, the rows it is about to write, and those of
\* them it believes new.
Idle == [job |-> "none", step |-> "ready", user |-> Host, seen |-> Unborn,
         closes |-> {}, time |-> None, rows |-> [u \in {} |-> NoRow], fresh |-> {}]

Mishaps == {"stale",    \* a meeting was saved from an image that was no longer true
            "crossed",  \* two transactions were open at the same time
            "late",     \* a session was committed after the meeting had ended
            "cut"}      \* a worker died or was rolled back before it had finalized

Init ==
  /\ now = 1
  /\ meeting = Unborn
  /\ sessions = << >>
  /\ attendance = [u \in Users |-> NoRow]
  /\ call = [c \in Calls |-> Idle]
  /\ mishaps = {}

-----------------------------------------------------------------------------
Open(S) == {i \in DOMAIN S : S[i].left = None}
OpenOf(u) == {i \in Open(sessions) : sessions[i].user = u}

\* .order_by("joined_at").first()
Earliest(I) == CHOOSE i \in I : \A j \in I : sessions[i].joined <= sessions[j].joined

\* Rows locked by transactions other than c's.
LockedFor(c) == UNION {call[d].closes : d \in Calls \ {c}}

\* The sessions as c's transaction sees them: committed ones and its changes.
Visible(c) ==
  LET closed == [i \in DOMAIN sessions |->
                   IF i \in call[c].closes THEN [sessions[i] EXCEPT !.left = call[c].time]
                   ELSE sessions[i]]
  IN IF call[c].job = "join"
     THEN Append(closed, [user |-> call[c].user, joined |-> call[c].time, left |-> None])
     ELSE closed

\* One user's row in sync_meeting_attendance: recomputed from all the user's
\* sessions, open ones running until the reference time.
Floor0(x) == IF x < 0 THEN 0 ELSE x
Until(s, ref) == IF s.left = None THEN ref ELSE s.left
DurationUnfloored(s, ref) == Until(s, ref) - s.joined
Duration(s, ref) == Floor0(Until(s, ref) - s.joined)

Of(S, u) == {i \in DOMAIN S : S[i].user = u}
Total(S, u, ref) == SumFunctionOnSet([i \in DOMAIN S |-> Duration(S[i], ref)], Of(S, u))

SyncRowAdds(S, u, ref) ==
  [status   |-> IF Of(S, u) # {} THEN "present" ELSE "absent",
   duration |-> attendance[u].duration + Total(S, u, ref)]
SyncRowLast(S, u, ref) ==
  IF Of(S, u) = {} THEN Absent
  ELSE [status |-> "present", duration |-> Duration(S[Max(Of(S, u))], ref)]
SyncRow(S, u, ref) ==
  IF Of(S, u) = {}
  THEN IF attendance[u].status = "none" THEN Absent ELSE attendance[u]
  ELSE [status |-> "present", duration |-> Total(S, u, ref)]

\* Whose rows the sync of c writes: everybody's when the expected absentees are
\* included, nobody's for an image of a meeting that had not started.
SyncTargets(c, S) ==
  IF call[c].seen.start = None THEN {}
  ELSE IF call[c].job \in {"finalize", "history"} THEN Users
  ELSE {u \in Users : attendance[u].status # "none" \/ \E i \in DOMAIN S : S[i].user = u}

SyncRows(c) ==
  LET S == Visible(c)
  IN [u \in SyncTargets(c, S) |-> SyncRow(S, u, Max({call[c].time, call[c].seen.start}))]

\* Rows sync will insert.  finalize_meeting_attendance has already made those of
\* the users whose sessions it closes (get_or_create).
NewRows(c) ==
  LET made == IF call[c].job = "finalize" THEN {sessions[i].user : i \in call[c].closes} ELSE {}
  IN {u \in SyncTargets(c, Visible(c)) \ made : attendance[u].status = "none"}

-----------------------------------------------------------------------------
\* Handlers begin by reading the meeting; each answers 400, or ignores the
\* event, unless the status allows the job.  "left" is the webhook, "leave" the
\* view, "history" also the recalculation; an edit is a PATCH of the meeting.
Allowed(job) ==
  CASE job = "start" -> {"scheduled"}
    [] job \in {"end", "join"} -> {"ongoing"}
    [] job = "left" -> {"ongoing", "ended"}
    [] job = "history" -> {"ended"}
    [] job \in {"leave", "edit"} -> Statuses

Jobs == {"start", "end", "join", "left", "leave", "history", "edit"}

UserOf(job) == IF job \in {"join", "left", "leave"} THEN Users ELSE {Host}

Read(c, job, u) ==
  /\ call[c] = Idle
  /\ meeting.status \in Allowed(job)
  /\ call' = [call EXCEPT ![c] = [Idle EXCEPT !.job = job, !.user = u, !.seen = meeting]]
  /\ UNCHANGED <<now, meeting, sessions, attendance, mishaps>>

Schedule ==
  /\ meeting = Unborn
  /\ meeting' = [Unborn EXCEPT !.status = "scheduled"]
  /\ UNCHANGED <<now, sessions, attendance, call, mishaps>>

\* MeetingViewSet.instant: the meeting is created as ongoing.
Instant(c) ==
  /\ meeting = Unborn /\ call[c] = Idle
  /\ meeting' = [status |-> "ongoing", start |-> now, end |-> None]
  /\ call' = [call EXCEPT ![c] = [Idle EXCEPT !.job = "initialize", !.seen = meeting']]
  /\ UNCHANGED <<now, sessions, attendance, mishaps>>

\* The meeting is saved from the image c read.
Save(c, image) ==
  /\ meeting' = image
  /\ mishaps' = IF meeting = call[c].seen THEN mishaps ELSE mishaps \cup {"stale"}

SaveStart(c) ==
  /\ call[c].job = "start"
  /\ Save(c, [meeting EXCEPT !.status = "ongoing", !.start = now])
  /\ call' = [call EXCEPT ![c].job = "initialize",
                          ![c].seen.status = "ongoing", ![c].seen.start = now]
  /\ UNCHANGED <<now, sessions, attendance>>

SaveEnd(c) ==
  /\ call[c].job = "end"
  /\ Save(c, [meeting EXCEPT !.status = "ended", !.end = now])
  /\ call' = [call EXCEPT ![c].job = "finalize",
                          ![c].seen.status = "ended", ![c].seen.end = now]
  /\ UNCHANGED <<now, sessions, attendance>>

\* Serializer.update saves every column of the image.
SaveEdit(c) ==
  /\ call[c].job = "edit"
  /\ Save(c, call[c].seen)
  /\ call' = [call EXCEPT ![c] = Idle]
  /\ UNCHANGED <<now, sessions, attendance>>

InTransaction(c) == call[c].step \in {"looked", "counted"}
Crossing(c) == IF \E d \in Calls \ {c} : InTransaction(d) THEN mishaps \cup {"crossed"} ELSE mishaps

\* initialize_meeting_attendance: bulk_create(ignore_conflicts=True).
Initialize(c) ==
  /\ call[c].job = "initialize"
  /\ attendance' = [u \in Users |-> IF attendance[u] = NoRow THEN Absent ELSE attendance[u]]
  /\ call' = [call EXCEPT ![c].job = "join"]
  /\ mishaps' = Crossing(c)
  /\ UNCHANGED <<now, meeting, sessions>>

-----------------------------------------------------------------------------
Ready(c, jobs) == call[c].step = "ready" /\ call[c].job \in jobs

\* The transaction of c takes its locks; its sync will count up to time t.
Look(c, closes, t) ==
  /\ closes \cap LockedFor(c) = {}
  /\ call' = [call EXCEPT ![c].step = "looked", ![c].closes = closes, ![c].time = t]
  /\ mishaps' = Crossing(c)
  /\ UNCHANGED <<now, meeting, sessions, attendance>>

Finish(c) ==
  /\ call' = [call EXCEPT ![c] = Idle]
  /\ UNCHANGED <<now, meeting, sessions, attendance, mishaps>>

\* join_meeting: a new session unless the user has an open one to lock.
JoinAnyway(c) ==
  /\ Ready(c, {"join"})
  /\ Len(sessions) + Cardinality({d \in Calls : call[d].job = "join"}) <= MaxSessions
  /\ Look(c, {}, now)
Join(c) ==
  /\ Ready(c, {"join"})
  /\ OpenOf(call[c].user) = {}
  /\ Len(sessions) + Cardinality({d \in Calls : call[d].job = "join"}) <= MaxSessions
  /\ Look(c, {}, now)

AlreadyJoined(c) ==
  /\ Ready(c, {"join"})
  /\ OpenOf(call[c].user) # {}
  /\ Earliest(OpenOf(call[c].user)) \notin LockedFor(c)
  /\ Finish(c)

\* leave_meeting: the first open session ends now, but not after the meeting did
\* and not before the session began.
LeftAt(c, i) ==
  LET end == call[c].seen.end
  IN Max({sessions[i].joined, IF end = None THEN now ELSE Min({now, end})})

Leave(c) ==
  /\ Ready(c, {"left", "leave"})
  /\ OpenOf(call[c].user) # {}
  /\ LET i == Earliest(OpenOf(call[c].user)) IN Look(c, {i}, LeftAt(c, i))

NothingToLeave(c) ==
  /\ Ready(c, {"left", "leave"})
  /\ OpenOf(call[c].user) = {}
  /\ Finish(c)

\* finalize_meeting_attendance: every open session ends with the meeting, unless
\* the caller's image lacks one of its times (an edit may have reset them).
HasTimes(c) == call[c].seen.start # None /\ call[c].seen.end # None

FinalizeOwn(c) ==
  /\ Ready(c, {"finalize"})
  /\ HasTimes(c)
  /\ Look(c, OpenOf(call[c].user), call[c].seen.end)
Finalize(c) ==
  /\ Ready(c, {"finalize"})
  /\ HasTimes(c)
  /\ Look(c, Open(sessions), call[c].seen.end)

NothingToFinalize(c) ==
  /\ Ready(c, {"finalize"})
  /\ ~HasTimes(c)
  /\ Finish(c)

\* The history and recalculation views call sync directly.
Recount(c) ==
  /\ Ready(c, {"history"})
  /\ Look(c, {}, call[c].seen.end)

\* sync_meeting_attendance reads rows and sessions and computes the new rows ...
Count(c) ==
  /\ call[c].step = "looked"
  /\ call' = [call EXCEPT ![c].step = "counted",
                          ![c].rows = SyncRows(c), ![c].fresh = NewRows(c)]
  /\ UNCHANGED <<now, meeting, sessions, attendance, mishaps>>

\* ... inserts and updates them, and the transaction commits.  The webhook of a
\* participant who left an ended meeting goes on to finalize it.
Conflict(c) == \E u \in call[c].fresh : attendance[u].status # "none"

Write(c) ==
  /\ call[c].step = "counted"
  /\ ~Conflict(c)
  /\ sessions' = Visible(c)
  /\ attendance' = [u \in Users |-> IF u \in DOMAIN call[c].rows THEN call[c].rows[u]
                                    ELSE attendance[u]]
  /\ call' = [call EXCEPT ![c] =
       IF call[c].job = "left" /\ call[c].seen.status = "ended"
       THEN [Idle EXCEPT !.job = "finalize", !.user = call[c].user, !.seen = call[c].seen]
       ELSE Idle]
  /\ mishaps' = IF call[c].job = "join" /\ meeting.status = "ended"
                THEN mishaps \cup {"late"} ELSE mishaps
  /\ UNCHANGED <<now, meeting>>

\* A worker dies, or its insert meets a row made meanwhile (IntegrityError);
\* its transaction rolls back.
GiveUp(c) ==
  /\ call[c] # Idle
  /\ call' = [call EXCEPT ![c] = Idle]
  /\ mishaps' = IF call[c].job = "finalize" THEN mishaps \cup {"cut"} ELSE mishaps
  /\ UNCHANGED <<now, meeting, sessions, attendance>>

Tick ==
  /\ now < MaxTime
  /\ now' = now + 1
  /\ UNCHANGED <<meeting, sessions, attendance, call, mishaps>>

SaveMeeting(c) == SaveStart(c) \/ SaveEnd(c) \/ SaveEdit(c)
JoinMeeting(c) == Join(c) \/ AlreadyJoined(c)
LeaveMeeting(c) == Leave(c) \/ NothingToLeave(c)
FinalizeMeeting(c) == Finalize(c) \/ NothingToFinalize(c)
SyncMeeting(c) == Count(c) \/ Write(c)

Next ==
  \/ Schedule
  \/ Tick
  \/ \E c \in Calls :
       \/ \E job \in Jobs : \E u \in UserOf(job) : Read(c, job, u)
       \/ Instant(c)
       \/ SaveMeeting(c)
       \/ Initialize(c)
       \/ JoinMeeting(c)
       \/ LeaveMeeting(c)
       \/ FinalizeMeeting(c)
       \/ Recount(c)
       \/ SyncMeeting(c)
       \/ GiveUp(c)

Spec == Init /\ [][Next]_vars

-----------------------------------------------------------------------------
(***************************************************************************)
(* Properties.                                                             *)
(***************************************************************************)

Without(kinds) == mishaps \cap kinds = {}
Quiet == \A c \in Calls : call[c] = Idle
Came(u) == \E i \in DOMAIN sessions : sessions[i].user = u

\* Every variable keeps its type; durations are never negative
\* (PositiveIntegerField) even for sessions closed before they began.
Row == [status : {"none", "absent", "present"}, duration : Nat]
TypeOK ==
  /\ now \in Times
  /\ meeting \in [status : Statuses \cup {"none"}, start : Times, end : Times]
  /\ \A i \in DOMAIN sessions :
       sessions[i] \in [user : Users, joined : Times, left : Times]
  /\ attendance \in [Users -> Row]
  /\ \A c \in Calls :
       /\ call[c].step \in {"ready", "looked", "counted"}
       /\ call[c].job \in Jobs \cup {"none", "initialize", "finalize"}
       /\ call[c].closes \subseteq Open(sessions)
       /\ \A u \in DOMAIN call[c].rows : call[c].rows[u] \in Row
  /\ mishaps \subseteq Mishaps

\* Ending a meeting closes every session (finalize_meeting_attendance), however
\* joins, leaves and other calls overlap, unless a join that saw the meeting
\* ongoing commits after its end or the ending worker is cut short.
ClosedAtEnd ==
  meeting.status = "ended" /\ Quiet /\ Without({"late", "cut", "stale"})
    => Open(sessions) = {}

\* join_meeting gives a user a second open session only if two transactions
\* overlap: what its select_for_update is for.
OneOpenUncrossed == Without({"crossed"}) => \A u \in Users : Cardinality(OpenOf(u)) <= 1

\* The attendance rows agree with the sessions: whoever came is present, all
\* others absent, and the duration of a user who has left is that of the
\* user's sessions.
RowsMatch ==
  \A u \in Users :
    LET stay == [i \in DOMAIN sessions |-> Max({0, sessions[i].left - sessions[i].joined})]
    IN /\ attendance[u].status = IF Came(u) THEN "present" ELSE "absent"
       /\ OpenOf(u) = {} =>
            attendance[u].duration = SumFunctionOnSet(stay, {i \in DOMAIN sessions : sessions[i].user = u})

\* However transactions overlap or roll back, nobody is marked present who has no
\* session; without stale images nobody's attendance is longer than the meeting has
\* run; and after the end of a meeting whose transactions never overlapped, all rows
\* are right.
EndedRowsMatch ==
  /\ \A u \in Users : attendance[u].status = "present" => Came(u)
  /\ meeting.start # None /\ Without({"crossed", "stale"}) =>
       \A u \in Users : attendance[u].duration <= now - meeting.start
  /\ meeting.status = "ended" /\ Quiet /\ Without({"crossed", "late", "cut", "stale"}) =>
       RowsMatch

\* Whatever earlier calls have lost or overwritten, finalizing, recalculating or
\* viewing the history of a meeting repairs every row, provided nothing is
\* committed between its count and its write.
Repaired ==
  [][\A c \in Calls :
       /\ Write(c)
       /\ call[c].job \in {"finalize", "history"} /\ HasTimes(c)
       /\ call[c].rows = SyncRows(c)
       => RowsMatch']_vars
=============================================================================
