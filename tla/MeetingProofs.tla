---------------------------- MODULE MeetingProofs ----------------------------
(***************************************************************************)
(* What is proved of meetings, for any members, any number of handlers and *)
(* any clock: of their attendance (TypeOK, ClosedAtEnd, OneOpenUncrossed,  *)
(* EndedRowsMatch and Repaired), and of their documents, for any agenda    *)
(* and any number of edits (DocumentsTypeOK, SectionsSound, ItemsSound and *)
(* NothingUndone).                                                         *)
(***************************************************************************)
EXTENDS Attendance, Documents, SequenceTheorems, SumTheorems, TLAPS

-----------------------------------------------------------------------------
(* Types. *)

JobSet == Jobs \cup {"none", "initialize", "finalize"}
MeetingRow == [status : Statuses \cup {"none"}, start : Times, end : Times]
Session == [user : Users, joined : Times, left : Times]
RowMaps == UNION {[U -> Row] : U \in SUBSET Users}
NoRows == [u \in {} |-> NoRow]

Handlers ==
  [job : JobSet, step : {"ready", "looked", "counted"}, user : Users, seen : MeetingRow,
   closes : SUBSET Nat, time : Times, rows : RowMaps, fresh : SUBSET Users]

Handler(job, step, user, seen, closes, time, rows, fresh) ==
  [job |-> job, step |-> step, user |-> user, seen |-> seen, closes |-> closes,
   time |-> time, rows |-> rows, fresh |-> fresh]

Types ==
  /\ now \in Times
  /\ meeting \in MeetingRow
  /\ sessions \in Seq(Session)
  /\ attendance \in [Users -> Row]
  /\ call \in [Calls -> Handlers]
  /\ mishaps \subseteq Mishaps

LEMMA TimesNat ==
  /\ Times \subseteq Nat /\ MaxTime \in Nat /\ MaxTime > 0 /\ None \in Times /\ 1 \in Times
  /\ \A t \in Nat : t <= MaxTime => t \in Times
  /\ \A t \in Times : t <= MaxTime
  BY AttendanceAssumptions DEF Times, None

LEMMA TimesInt == \A t \in Times : t \in Nat /\ t \in Int
  BY TimesNat

LEMMA HostIsUser == Host \in Users
  BY DEF Users

LEMMA RowMap ==
  /\ NoRows \in RowMaps
  /\ \A f \in RowMaps : DOMAIN f \subseteq Users /\ \A u \in DOMAIN f : f[u] \in Row
  /\ \A U \in SUBSET Users : \A f \in [U -> Row] : f \in RowMaps
<1>1. NoRows \in [{} -> Row]
  BY DEF NoRows
<1> QED BY <1>1 DEF RowMaps

LEMMA RowTypes ==
  /\ NoRow \in Row /\ Absent \in Row
  /\ \A d \in Nat : [status |-> "present", duration |-> d] \in Row
  BY DEF Row, NoRow, Absent

LEMMA UnbornType == Unborn \in MeetingRow
  BY TimesNat DEF Unborn, MeetingRow

LEMMA IdleHandler ==
  /\ Idle = Handler("none", "ready", Host, Unborn, {}, None, NoRows, {})
  /\ Idle \in Handlers
<1>1. Idle = Handler("none", "ready", Host, Unborn, {}, None, NoRows, {})
  BY DEF Idle, Handler, NoRows
<1>2. Handler("none", "ready", Host, Unborn, {}, None, NoRows, {}) \in Handlers
  BY TimesNat, HostIsUser, RowMap, UnbornType DEF Handlers, Handler, JobSet
<1> QED BY <1>1, <1>2

LEMMA HandlerOf ==
  ASSUME NEW h \in Handlers
  PROVE  /\ h = Handler(h.job, h.step, h.user, h.seen, h.closes, h.time, h.rows, h.fresh)
         /\ h.job \in JobSet /\ h.step \in {"ready", "looked", "counted"} /\ h.user \in Users
         /\ h.seen \in MeetingRow /\ h.closes \in SUBSET Nat /\ h.time \in Times
         /\ h.rows \in RowMaps /\ h.fresh \in SUBSET Users
  BY DEF Handlers, Handler

LEMMA HandlerType ==
  ASSUME NEW job \in JobSet, NEW step \in {"ready", "looked", "counted"}, NEW user \in Users,
         NEW seen \in MeetingRow, NEW closes \in SUBSET Nat, NEW time \in Times,
         NEW rows \in RowMaps, NEW fresh \in SUBSET Users
  PROVE  Handler(job, step, user, seen, closes, time, rows, fresh) \in Handlers
  BY DEF Handlers, Handler

-----------------------------------------------------------------------------
(* Operators. *)

LEMMA MaxTwo ==
  ASSUME NEW a \in Int, NEW b \in Int
  PROVE  /\ Max({a, b}) \in {a, b} /\ Max({a, b}) >= a /\ Max({a, b}) >= b
         /\ Max({a, b}) = IF a >= b THEN a ELSE b
<1>1. \E x \in {a, b} : \A y \in {a, b} : x >= y
  OBVIOUS
<1>2. Max({a, b}) \in {a, b} /\ \A y \in {a, b} : Max({a, b}) >= y
  BY <1>1, Zenon DEF Max
<1> QED BY <1>2

LEMMA MinTwo ==
  ASSUME NEW a \in Int, NEW b \in Int
  PROVE  /\ Min({a, b}) \in {a, b} /\ Min({a, b}) <= a /\ Min({a, b}) <= b
<1>1. \E x \in {a, b} : \A y \in {a, b} : x <= y
  OBVIOUS
<1>2. Min({a, b}) \in {a, b} /\ \A y \in {a, b} : Min({a, b}) <= y
  BY <1>1, Zenon DEF Min
<1> QED BY <1>2

LEMMA EarliestIn ==
  ASSUME sessions \in Seq(Session), NEW I, I \subseteq DOMAIN sessions, I # {}
  PROVE  Earliest(I) \in I
<1> DEFINE T == {sessions[i].joined : i \in I}
<1>1. T \subseteq Nat /\ T # {}
  <2>1. \A i \in I : sessions[i] \in Session
    OBVIOUS
  <2>2. \A s \in Session : s.joined \in Nat
    BY TimesNat DEF Session
  <2> QED BY <2>1, <2>2
<1>2. PICK n \in T : \A m \in T : n <= m
  <2> HIDE DEF T
  <2> QED BY <1>1, LeastNumber
<1>3. \E i \in I : \A j \in I : sessions[i].joined <= sessions[j].joined
  BY <1>2
<1> QED BY <1>3, Zenon DEF Earliest

LEMMA OfFinite ==
  ASSUME NEW S \in Seq(Session), NEW u
  PROVE  IsFiniteSet(Of(S, u)) /\ Of(S, u) \subseteq DOMAIN S /\ Len(S) \in Nat /\ DOMAIN S = 1..Len(S)
<1>1. Len(S) \in Nat /\ DOMAIN S = 1..Len(S)
  OBVIOUS
<1>2. IsFiniteSet(1..Len(S))
  BY <1>1, FS_Interval
<1>3. Of(S, u) \subseteq 1..Len(S)
  BY <1>1 DEF Of
<1> QED BY <1>1, <1>2, <1>3, FS_Subset

LEMMA DurationNat ==
  ASSUME NEW s \in Session, NEW ref \in Int
  PROVE  /\ Duration(s, ref) \in Nat
         /\ s.left # None => Duration(s, ref) = Max({0, s.left - s.joined})
         /\ s.left = None /\ ref <= s.joined => Duration(s, ref) = 0
         /\ s.left = None /\ ref >= s.joined => Duration(s, ref) = ref - s.joined
<1>1. s.left \in Nat /\ s.joined \in Nat
  BY TimesNat DEF Session
<1>2. s.left - s.joined \in Int /\ 0 \in Int
  BY <1>1
<1>3. Max({0, s.left - s.joined}) = IF 0 >= s.left - s.joined THEN 0 ELSE s.left - s.joined
  BY ONLY <1>2, MaxTwo
<1> QED BY <1>1, <1>3 DEF Duration, Floor0, Until, None

\* The durations a total adds up.
Durations(S, ref) == [i \in DOMAIN S |-> Duration(S[i], ref)]

LEMMA TotalIs ==
  ASSUME NEW S \in Seq(Session), NEW u, NEW ref \in Int
  PROVE  /\ Total(S, u, ref) = SumFunctionOnSet(Durations(S, ref), Of(S, u))
         /\ \A i \in DOMAIN S : Durations(S, ref)[i] = Duration(S[i], ref) /\ Durations(S, ref)[i] \in Nat
<1>1. Total(S, u, ref) = SumFunctionOnSet(Durations(S, ref), Of(S, u))
  BY Zenon DEF Total, Durations
<1>2. ASSUME NEW i \in DOMAIN S
      PROVE  Durations(S, ref)[i] = Duration(S[i], ref) /\ Durations(S, ref)[i] \in Nat
  <2>1. S[i] \in Session
    OBVIOUS
  <2>2. Durations(S, ref)[i] = Duration(S[i], ref)
    BY Zenon DEF Durations
  <2> QED BY <2>1, <2>2, DurationNat
<1> QED BY <1>1, <1>2

LEMMA TotalNat ==
  ASSUME NEW S \in Seq(Session), NEW u, NEW ref \in Int
  PROVE  Total(S, u, ref) \in Nat
<1>1. \A i \in Of(S, u) : Durations(S, ref)[i] \in Nat
  BY TotalIs, OfFinite
<1>2. SumFunctionOnSet(Durations(S, ref), Of(S, u)) \in Nat
  BY <1>1, OfFinite, SumNat
<1> QED BY <1>2, TotalIs

\* Nobody has been there before the first session.
LEMMA TotalNone ==
  ASSUME NEW S \in Seq(Session), NEW u, NEW ref \in Int, Of(S, u) = {}
  PROVE  Total(S, u, ref) = 0
<1>1. SumFunctionOnSet(Durations(S, ref), {}) = 0
  BY SumEmpty
<1> QED BY <1>1, TotalIs, Zenon

\* Totals of sequences in which a user has the same sessions, but for one.
LEMMA TotalSame ==
  ASSUME NEW S \in Seq(Session), NEW T \in Seq(Session), NEW u, NEW ref \in Int, NEW r \in Int,
         Of(S, u) = Of(T, u),
         \A i \in Of(S, u) : Duration(S[i], ref) = Duration(T[i], r)
  PROVE  Total(S, u, ref) = Total(T, u, r)
<1> DEFINE h == Durations(S, ref)
           k == Durations(T, r)
           I == Of(S, u)
<1>1. \A i \in I : h[i] = k[i]
  BY TotalIs, OfFinite
<1>2. IsFiniteSet(I)
  BY OfFinite
<1>3. Total(S, u, ref) = SumFunctionOnSet(h, I) /\ Total(T, u, r) = SumFunctionOnSet(k, Of(T, u))
  BY TotalIs
<1> HIDE DEF h, k
<1>4. SumFunctionOnSet(h, I) = SumFunctionOnSet(k, I)
  BY ONLY <1>1, <1>2, SumSame
<1> QED BY <1>3, <1>4, Zenon

LEMMA TotalChange ==
  ASSUME NEW S \in Seq(Session), NEW T \in Seq(Session), NEW u, NEW ref \in Int, NEW r \in Int,
         Of(S, u) = Of(T, u), NEW y \in Of(S, u),
         \A i \in Of(S, u) \ {y} : Duration(S[i], ref) = Duration(T[i], r)
  PROVE  Total(T, u, r) = (Total(S, u, ref) - Duration(S[y], ref)) + Duration(T[y], r)
<1> DEFINE h == Durations(S, ref)
           k == Durations(T, r)
           I == Of(S, u)
<1>0. I \subseteq DOMAIN S /\ I \subseteq DOMAIN T
  BY OfFinite
<1>a. \A i \in DOMAIN S : h[i] = Duration(S[i], ref) /\ h[i] \in Nat
  BY TotalIs
<1>b. \A i \in DOMAIN T : k[i] = Duration(T[i], r) /\ k[i] \in Nat
  BY TotalIs
<1>1. /\ \A i \in I \ {y} : h[i] = k[i]
      /\ \A i \in I : h[i] \in Int /\ k[i] \in Int
      /\ h[y] = Duration(S[y], ref) /\ k[y] = Duration(T[y], r)
  <2> HIDE DEF h, k
  <2> QED BY <1>0, <1>a, <1>b
<1>2. IsFiniteSet(I) /\ y \in I
  BY OfFinite
<1>3. Total(S, u, ref) = SumFunctionOnSet(h, I) /\ Total(T, u, r) = SumFunctionOnSet(k, Of(T, u))
  BY TotalIs
<1> HIDE DEF h, k
<1>4. SumFunctionOnSet(k, I) = (SumFunctionOnSet(h, I) - h[y]) + k[y]
  BY ONLY <1>1, <1>2, SumChange
<1>5. Total(T, u, r) = SumFunctionOnSet(k, I)
  BY <1>3, Zenon
<1> QED BY <1>1, <1>3, <1>4, <1>5

LEMMA TotalAdd ==
  ASSUME NEW S \in Seq(Session), NEW T \in Seq(Session), NEW u, NEW ref \in Int, NEW y \in DOMAIN T,
         y \notin Of(S, u), Of(T, u) = Of(S, u) \cup {y},
         \A i \in Of(S, u) : Duration(S[i], ref) = Duration(T[i], ref)
  PROVE  Total(T, u, ref) = Total(S, u, ref) + Duration(T[y], ref)
<1> DEFINE h == Durations(S, ref)
           k == Durations(T, ref)
           I == Of(S, u)
<1>0. I \subseteq DOMAIN S /\ I \subseteq DOMAIN T
  BY OfFinite
<1>a. \A i \in DOMAIN S : h[i] = Duration(S[i], ref) /\ h[i] \in Nat
  BY TotalIs
<1>b. \A i \in DOMAIN T : k[i] = Duration(T[i], ref) /\ k[i] \in Nat
  BY TotalIs
<1>1. /\ \A i \in I : h[i] = k[i]
      /\ \A i \in I : k[i] \in Int
      /\ k[y] = Duration(T[y], ref) /\ k[y] \in Int
  <2> HIDE DEF h, k
  <2> QED BY <1>0, <1>a, <1>b
<1>2. IsFiniteSet(I) /\ y \notin I
  BY OfFinite
<1>3. Total(S, u, ref) = SumFunctionOnSet(h, I) /\ Total(T, u, ref) = SumFunctionOnSet(k, Of(T, u))
  BY TotalIs
<1> HIDE DEF h, k, I
<1>4. SumFunctionOnSet(k, I \cup {y}) = SumFunctionOnSet(k, I) + k[y]
  BY ONLY <1>1, <1>2, SumAdd
<1>5. SumFunctionOnSet(h, I) = SumFunctionOnSet(k, I)
  BY ONLY <1>1, <1>2, SumSame
<1>6. Total(T, u, ref) = SumFunctionOnSet(k, I \cup {y})
  BY <1>3, Zenon DEF I
<1> QED BY <1>1, <1>3, <1>4, <1>5, <1>6

-----------------------------------------------------------------------------
(* What a transaction sees. *)

LEMMA VisibleIs ==
  ASSUME Types, NEW c \in Calls
  PROVE  /\ Visible(c) \in Seq(Session)
         /\ \A i \in DOMAIN sessions :
              /\ i \in DOMAIN Visible(c) /\ Visible(c)[i].user = sessions[i].user
              /\ Visible(c)[i].joined = sessions[i].joined
              /\ i \in call[c].closes => Visible(c)[i].left = call[c].time
              /\ i \notin call[c].closes => Visible(c)[i] = sessions[i]
         /\ call[c].job # "join" => DOMAIN Visible(c) = DOMAIN sessions
         /\ call[c].job = "join" =>
              LET n == Len(sessions) + 1
              IN /\ DOMAIN Visible(c) = DOMAIN sessions \cup {n} /\ n \notin DOMAIN sessions
                 /\ Visible(c)[n] = [user |-> call[c].user, joined |-> call[c].time, left |-> None]
<1> DEFINE closed == [i \in DOMAIN sessions |->
                        IF i \in call[c].closes THEN [sessions[i] EXCEPT !.left = call[c].time]
                        ELSE sessions[i]]
           new == [user |-> call[c].user, joined |-> call[c].time, left |-> None]
           n == Len(sessions) + 1
<1>1. /\ call[c] \in Handlers /\ call[c].time \in Times /\ call[c].user \in Users
      /\ sessions \in Seq(Session) /\ Len(sessions) \in Nat /\ DOMAIN sessions = 1..Len(sessions)
  BY HandlerOf DEF Types
<1>2. ASSUME NEW i \in DOMAIN sessions
      PROVE  /\ closed[i] \in Session /\ closed[i].user = sessions[i].user
             /\ closed[i].joined = sessions[i].joined
             /\ i \in call[c].closes => closed[i].left = call[c].time
             /\ i \notin call[c].closes => closed[i] = sessions[i]
  <2>1. sessions[i] \in Session
    BY <1>1
  <2> QED BY <1>1, <2>1 DEF Session
<1>3. closed \in Seq(Session) /\ Len(closed) = Len(sessions) /\ DOMAIN closed = DOMAIN sessions
  <2>1. closed \in [1..Len(sessions) -> Session]
    BY <1>1, <1>2
  <2>2. closed \in Seq(Session)
    <3> HIDE DEF closed
    <3> QED BY <1>1, <2>1, IsASeq
  <2>3. DOMAIN closed = 1..Len(sessions)
    BY <1>1
  <2> HIDE DEF closed
  <2>4. Len(closed) = Len(sessions)
    BY <1>1, <2>2, <2>3, LenProperties
  <2> QED BY <1>1, <2>2, <2>3, <2>4
<1>4. new \in Session
  BY <1>1, TimesNat DEF Session
<1>5. Visible(c) = IF call[c].job = "join" THEN Append(closed, new) ELSE closed
  BY Zenon DEF Visible
<1> HIDE DEF closed, new
<1>6. /\ Append(closed, new) \in Seq(Session) /\ Append(closed, new)[n] = new
      /\ \A i \in DOMAIN sessions : Append(closed, new)[i] = closed[i]
      /\ DOMAIN Append(closed, new) = 1..n
  BY <1>1, <1>3, <1>4, AppendProperties
<1>7. 1..n = DOMAIN sessions \cup {n} /\ n \notin DOMAIN sessions
  BY <1>1
<1>8. CASE call[c].job # "join"
  <2>1. Visible(c) = closed
    BY <1>5, <1>8
  <2> QED BY <1>2, <1>3, <1>8, <2>1
<1>9. CASE call[c].job = "join"
  <2>1. Visible(c) = Append(closed, new)
    BY <1>5, <1>9
  <2>2. \A i \in DOMAIN sessions : i \in DOMAIN Visible(c) /\ Visible(c)[i] = closed[i]
    BY <1>6, <1>7, <2>1
  <2>3. Visible(c)[n] = new /\ DOMAIN Visible(c) = DOMAIN sessions \cup {n} /\ Visible(c) \in Seq(Session)
    BY <1>6, <1>7, <2>1
  <2> QED BY <1>2, <1>7, <1>9, <2>2, <2>3 DEF new
<1> QED BY <1>8, <1>9

\* The only session a transaction adds is its own participant's.
LEMMA VisibleNew ==
  ASSUME Types, NEW c \in Calls, NEW i \in DOMAIN Visible(c), i \notin DOMAIN sessions
  PROVE  /\ call[c].job = "join" /\ i = Len(sessions) + 1
         /\ Visible(c)[i].user = call[c].user /\ Visible(c)[i].joined = call[c].time
         /\ Visible(c)[i].left = None
<1>1. call[c].job = "join"
  BY VisibleIs
<1>2. i = Len(sessions) + 1
  <2>1. DOMAIN Visible(c) = DOMAIN sessions \cup {Len(sessions) + 1}
    BY <1>1, VisibleIs
  <2> QED BY <2>1, Zenon
<1>3. Visible(c)[Len(sessions) + 1] = [user |-> call[c].user, joined |-> call[c].time, left |-> None]
  BY <1>1, VisibleIs
<1>4. Visible(c)[i] = [user |-> call[c].user, joined |-> call[c].time, left |-> None]
  BY <1>2, <1>3
<1> QED BY <1>1, <1>2, <1>4

\* A row sync computes from a sequence of sessions.
LEMMA SyncRowType ==
  ASSUME Types, NEW S \in Seq(Session), NEW u \in Users, NEW ref \in Int
  PROVE  /\ SyncRow(S, u, ref) \in Row
         /\ Of(S, u) # {} => /\ SyncRow(S, u, ref).status = "present"
                             /\ SyncRow(S, u, ref).duration = Total(S, u, ref)
         /\ Of(S, u) = {} => /\ attendance[u].status = "none" => SyncRow(S, u, ref) = Absent
                             /\ attendance[u].status # "none" => SyncRow(S, u, ref) = attendance[u]
<1>1. Total(S, u, ref) \in Nat
  BY TotalNat
<1>2. attendance[u] \in Row
  BY DEF Types
<1> DEFINE row == [status |-> "present", duration |-> Total(S, u, ref)]
<1>3. row \in Row /\ row.status = "present" /\ row.duration = Total(S, u, ref)
  BY <1>1, RowTypes
<1> HIDE DEF row
<1>4. CASE Of(S, u) # {}
  <2>1. SyncRow(S, u, ref) = row
    BY <1>4, Zenon DEF SyncRow, row
  <2> QED BY <1>3, <1>4, <2>1
<1>5. CASE Of(S, u) = {}
  <2>1. SyncRow(S, u, ref) = IF attendance[u].status = "none" THEN Absent ELSE attendance[u]
    BY <1>5, Zenon DEF SyncRow
  <2> QED BY <1>2, <1>5, <2>1, RowTypes
<1> QED BY <1>4, <1>5

RefOf(c) == Max({call[c].time, call[c].seen.start})

LEMMA RefIs ==
  ASSUME Types, NEW c \in Calls
  PROVE  RefOf(c) \in Times /\ RefOf(c) \in {call[c].time, call[c].seen.start}
<1>1. call[c].time \in Times /\ call[c].seen.start \in Times
  BY HandlerOf DEF Types, MeetingRow
<1> DEFINE a == call[c].time
           b == call[c].seen.start
<1>2. RefOf(c) = Max({a, b}) /\ a \in Int /\ b \in Int
  <2>1. RefOf(c) = Max({a, b})
    BY Zenon DEF RefOf
  <2>2. a \in Int /\ b \in Int
    <3> HIDE DEF a, b
    <3> QED BY <1>1, TimesInt DEF a, b
  <2> QED BY <2>1, <2>2, Zenon
<1>3. RefOf(c) \in {a, b}
  <2> HIDE DEF a, b
  <2>1. Max({a, b}) \in {a, b}
    BY ONLY <1>2, MaxTwo
  <2> QED BY <1>2, <2>1, Zenon
<1> QED BY <1>1, <1>3

LEMMA SyncRowsIs ==
  ASSUME Types, NEW c \in Calls
  PROVE  /\ SyncRows(c) \in RowMaps
         /\ DOMAIN SyncRows(c) = SyncTargets(c, Visible(c)) /\ DOMAIN SyncRows(c) \subseteq Users
         /\ \A u \in DOMAIN SyncRows(c) : SyncRows(c)[u] = SyncRow(Visible(c), u, RefOf(c))
         /\ NewRows(c) \subseteq Users
<1> DEFINE V == Visible(c)
           r == RefOf(c)
           D == SyncTargets(c, V)
<1>1. V \in Seq(Session) /\ r \in Int
  <2>1. V \in Seq(Session)
    BY VisibleIs
  <2>2. r \in Times
    BY RefIs
  <2>3. r \in Int
    BY <2>2, TimesInt
  <2> QED BY <2>1, <2>3, Zenon
<1>2. D \subseteq Users /\ NewRows(c) \subseteq Users
  BY DEF SyncTargets, NewRows
<1>3. SyncRows(c) = [u \in D |-> SyncRow(V, u, r)]
  BY Zenon DEF SyncRows, RefOf
<1> HIDE DEF V, r, D
<1>4. \A u \in D : SyncRow(V, u, r) \in Row
  BY <1>1, <1>2, SyncRowType
<1>5. SyncRows(c) \in [D -> Row]
  BY <1>3, <1>4
<1>6. SyncRows(c) \in RowMaps
  BY <1>2, <1>5, RowMap
<1> QED BY <1>2, <1>3, <1>6 DEF V, r, D

-----------------------------------------------------------------------------
(* What the actions do to the handler that takes them, column by column. *)

Sets(c, h) == call' = [call EXCEPT ![c] = h]

LEMMA SetsIs ==
  ASSUME Types, NEW c \in Calls, NEW h, Sets(c, h)
  PROVE  /\ call'[c] = h /\ \A d \in Calls : d # c => call'[d] = call[d]
         /\ h \in Handlers => call' \in [Calls -> Handlers]
  BY DEF Types, Sets

Meets(status, start, end) == [status |-> status, start |-> start, end |-> end]

LEMMA MeetsOf ==
  /\ \A m \in MeetingRow :
       /\ m.status \in Statuses \cup {"none"} /\ m.start \in Times /\ m.end \in Times
       /\ m = Meets(m.status, m.start, m.end)
  /\ \A s \in Statuses \cup {"none"} : \A x, y \in Times : Meets(s, x, y) \in MeetingRow
  /\ \A s, x, y : /\ Meets(s, x, y).status = s /\ Meets(s, x, y).start = x /\ Meets(s, x, y).end = y
  BY DEF MeetingRow, Meets

\* The rows actions save, named so that lemmas can speak of them.
Started(m, x, y) == [m EXCEPT !.status = x, !.start = y]
Ended(m, x, y)   == [m EXCEPT !.status = x, !.end = y]
AsJob(h, x) == [h EXCEPT !.job = x]
AsLooked(h, x, y, z)  == [h EXCEPT !.step = x, !.closes = y, !.time = z]
AsCounted(h, x, y, z) == [h EXCEPT !.step = x, !.rows = y, !.fresh = z]
AsStarted(h, x, y, z) == [h EXCEPT !.job = x, !.seen.status = y, !.seen.start = z]
AsEnded(h, x, y, z)   == [h EXCEPT !.job = x, !.seen.status = y, !.seen.end = z]

LEMMA MeetsChange ==
  ASSUME NEW m \in MeetingRow, NEW x, NEW y
  PROVE  Started(m, x, y) = Meets(x, y, m.end) /\ Ended(m, x, y) = Meets(x, m.start, y)
<1> DEFINE p == [m EXCEPT !.status = x]
<1>1. p = Meets(x, m.start, m.end)
  BY DEF MeetingRow, Meets
<1> HIDE DEF p
<1>2. [p EXCEPT !.start = y] = Meets(x, y, m.end)
  BY <1>1 DEF Meets
<1>3. [p EXCEPT !.end = y] = Meets(x, m.start, y)
  BY <1>1 DEF Meets
<1> QED BY <1>2, <1>3, Zenon DEF p, Started, Ended

LEMMA HandlerColumns ==
  ASSUME NEW j, NEW st, NEW u, NEW s, NEW cl, NEW t, NEW r, NEW f
  PROVE  LET h == Handler(j, st, u, s, cl, t, r, f)
         IN /\ h.job = j /\ h.step = st /\ h.user = u /\ h.seen = s
            /\ h.closes = cl /\ h.time = t /\ h.rows = r /\ h.fresh = f
  BY DEF Handler

LEMMA JobColumn ==
  ASSUME NEW h \in Handlers, NEW x
  PROVE  AsJob(h, x) =
            Handler(x, h.step, h.user, h.seen, h.closes, h.time, h.rows, h.fresh)
  BY DEF Handlers, Handler, AsJob

LEMMA LockColumns ==
  ASSUME NEW h \in Handlers, NEW x, NEW y, NEW z
  PROVE  AsLooked(h, x, y, z) =
            Handler(h.job, x, h.user, h.seen, y, z, h.rows, h.fresh)
<1> DEFINE p == [h EXCEPT !.step = x]
           q == [p EXCEPT !.closes = y]
<1>1. p = Handler(h.job, x, h.user, h.seen, h.closes, h.time, h.rows, h.fresh)
  BY DEF Handlers, Handler
<1> HIDE DEF p
<1>2. q = Handler(h.job, x, h.user, h.seen, y, h.time, h.rows, h.fresh)
  BY <1>1 DEF Handler
<1> HIDE DEF q
<1>3. [q EXCEPT !.time = z] = Handler(h.job, x, h.user, h.seen, y, z, h.rows, h.fresh)
  BY <1>2 DEF Handler
<1> QED BY <1>3, Zenon DEF p, q, AsLooked

LEMMA RowColumns ==
  ASSUME NEW h \in Handlers, NEW x, NEW y, NEW z
  PROVE  AsCounted(h, x, y, z) =
            Handler(h.job, x, h.user, h.seen, h.closes, h.time, y, z)
<1> DEFINE p == [h EXCEPT !.step = x]
           q == [p EXCEPT !.rows = y]
<1>1. p = Handler(h.job, x, h.user, h.seen, h.closes, h.time, h.rows, h.fresh)
  BY DEF Handlers, Handler
<1> HIDE DEF p
<1>2. q = Handler(h.job, x, h.user, h.seen, h.closes, h.time, y, h.fresh)
  BY <1>1 DEF Handler
<1> HIDE DEF q
<1>3. [q EXCEPT !.fresh = z] = Handler(h.job, x, h.user, h.seen, h.closes, h.time, y, z)
  BY <1>2 DEF Handler
<1> QED BY <1>3, Zenon DEF p, q, AsCounted

LEMMA SeenColumns ==
  ASSUME NEW h \in Handlers, NEW x, NEW y, NEW z
  PROVE  /\ AsStarted(h, x, y, z) =
              Handler(x, h.step, h.user, Meets(y, z, h.seen.end), h.closes, h.time, h.rows, h.fresh)
         /\ AsEnded(h, x, y, z) =
              Handler(x, h.step, h.user, Meets(y, h.seen.start, z), h.closes, h.time, h.rows, h.fresh)
<1> DEFINE p == [h EXCEPT !.job = x]
           q == [p EXCEPT !.seen.status = y]
<1>0. h.seen \in MeetingRow
  BY HandlerOf
<1>1. p = Handler(x, h.step, h.user, h.seen, h.closes, h.time, h.rows, h.fresh)
  BY JobColumn DEF AsJob
<1>2. p.seen = h.seen
  BY <1>1 DEF Handler
<1>3. [h.seen EXCEPT !.status = y] = Meets(y, h.seen.start, h.seen.end)
  BY <1>0 DEF MeetingRow, Meets
<1> HIDE DEF p
<1>4. q = [p EXCEPT !.seen = [p.seen EXCEPT !.status = y]]
  BY <1>1 DEF Handler
<1>5. q = Handler(x, h.step, h.user, Meets(y, h.seen.start, h.seen.end), h.closes, h.time, h.rows, h.fresh)
  <2>1. q = [p EXCEPT !.seen = Meets(y, h.seen.start, h.seen.end)]
    BY <1>2, <1>3, <1>4, Zenon
  <2> HIDE DEF q
  <2> QED BY <1>1, <2>1 DEF Handler
<1> HIDE DEF q
<1>6. q.seen = Meets(y, h.seen.start, h.seen.end)
  BY <1>5 DEF Handler
<1>7. [q EXCEPT !.seen.start = z] =
        Handler(x, h.step, h.user, Meets(y, z, h.seen.end), h.closes, h.time, h.rows, h.fresh)
  <2>1. [Meets(y, h.seen.start, h.seen.end) EXCEPT !.start = z] = Meets(y, z, h.seen.end)
    BY DEF Meets
  <2>2. [q EXCEPT !.seen.start = z] = [q EXCEPT !.seen = [q.seen EXCEPT !.start = z]]
    BY <1>5 DEF Handler
  <2>3. [q EXCEPT !.seen.start = z] = [q EXCEPT !.seen = Meets(y, z, h.seen.end)]
    BY <1>6, <2>1, <2>2, Zenon
  <2>4. [q EXCEPT !.seen = Meets(y, z, h.seen.end)] =
          Handler(x, h.step, h.user, Meets(y, z, h.seen.end), h.closes, h.time, h.rows, h.fresh)
    BY <1>5 DEF Handler
  <2> QED BY <2>3, <2>4, Zenon
<1>8. [q EXCEPT !.seen.end = z] =
        Handler(x, h.step, h.user, Meets(y, h.seen.start, z), h.closes, h.time, h.rows, h.fresh)
  <2>1. [Meets(y, h.seen.start, h.seen.end) EXCEPT !.end = z] = Meets(y, h.seen.start, z)
    BY DEF Meets
  <2>2. [q EXCEPT !.seen.end = z] = [q EXCEPT !.seen = [q.seen EXCEPT !.end = z]]
    BY <1>5 DEF Handler
  <2>3. [q EXCEPT !.seen.end = z] = [q EXCEPT !.seen = Meets(y, h.seen.start, z)]
    BY <1>6, <2>1, <2>2, Zenon
  <2>4. [q EXCEPT !.seen = Meets(y, h.seen.start, z)] =
          Handler(x, h.step, h.user, Meets(y, h.seen.start, z), h.closes, h.time, h.rows, h.fresh)
    BY <1>5 DEF Handler
  <2> QED BY <2>3, <2>4, Zenon
<1> QED BY <1>7, <1>8, Zenon DEF p, q, AsStarted, AsEnded

\* The same for a handler, and the meeting, as an action changes them.
LEMMA SetColumns ==
  ASSUME Types, NEW c \in Calls, NEW x, NEW y, NEW z
  PROVE  LET h == call[c]
         IN /\ call' = [call EXCEPT ![c].job = x] =>
                 Sets(c, Handler(x, h.step, h.user, h.seen, h.closes, h.time, h.rows, h.fresh))
            /\ call' = [call EXCEPT ![c].step = x, ![c].closes = y, ![c].time = z] =>
                 Sets(c, Handler(h.job, x, h.user, h.seen, y, z, h.rows, h.fresh))
            /\ call' = [call EXCEPT ![c].step = x, ![c].rows = y, ![c].fresh = z] =>
                 Sets(c, Handler(h.job, x, h.user, h.seen, h.closes, h.time, y, z))
            /\ call' = [call EXCEPT ![c].job = x, ![c].seen.status = y, ![c].seen.start = z] =>
                 Sets(c, Handler(x, h.step, h.user, Meets(y, z, h.seen.end),
                                 h.closes, h.time, h.rows, h.fresh))
            /\ call' = [call EXCEPT ![c].job = x, ![c].seen.status = y, ![c].seen.end = z] =>
                 Sets(c, Handler(x, h.step, h.user, Meets(y, h.seen.start, z),
                                 h.closes, h.time, h.rows, h.fresh))
<1> DEFINE h == call[c]
<1>1. /\ call' = [call EXCEPT ![c].job = x] => Sets(c, AsJob(h, x))
      /\ call' = [call EXCEPT ![c].step = x, ![c].closes = y, ![c].time = z]
           => Sets(c, AsLooked(h, x, y, z))
      /\ call' = [call EXCEPT ![c].step = x, ![c].rows = y, ![c].fresh = z]
           => Sets(c, AsCounted(h, x, y, z))
      /\ call' = [call EXCEPT ![c].job = x, ![c].seen.status = y, ![c].seen.start = z]
           => Sets(c, AsStarted(h, x, y, z))
      /\ call' = [call EXCEPT ![c].job = x, ![c].seen.status = y, ![c].seen.end = z]
           => Sets(c, AsEnded(h, x, y, z))
  BY DEF Types, Handlers, Sets, AsJob, AsLooked, AsCounted, AsStarted, AsEnded
<1>2. h \in Handlers
  BY DEF Types
<1> HIDE DEF h
<1>3. AsJob(h, x) = Handler(x, h.step, h.user, h.seen, h.closes, h.time, h.rows, h.fresh)
  BY <1>2, JobColumn
<1>4. AsLooked(h, x, y, z) = Handler(h.job, x, h.user, h.seen, y, z, h.rows, h.fresh)
  BY <1>2, LockColumns
<1>5. AsCounted(h, x, y, z) = Handler(h.job, x, h.user, h.seen, h.closes, h.time, y, z)
  BY <1>2, RowColumns
<1>6. /\ AsStarted(h, x, y, z) =
           Handler(x, h.step, h.user, Meets(y, z, h.seen.end), h.closes, h.time, h.rows, h.fresh)
      /\ AsEnded(h, x, y, z) =
           Handler(x, h.step, h.user, Meets(y, h.seen.start, z), h.closes, h.time, h.rows, h.fresh)
  BY <1>2, SeenColumns
<1> QED BY <1>1, <1>3, <1>4, <1>5, <1>6, Zenon DEF h

LEMMA MeetingSaved ==
  ASSUME meeting \in MeetingRow, NEW x, NEW y
  PROVE  /\ meeting' = [meeting EXCEPT !.status = x, !.start = y] => meeting' = Meets(x, y, meeting.end)
         /\ meeting' = [meeting EXCEPT !.status = x, !.end = y] => meeting' = Meets(x, meeting.start, y)
<1>1. Started(meeting, x, y) = Meets(x, y, meeting.end) /\ Ended(meeting, x, y) = Meets(x, meeting.start, y)
  BY MeetsChange
<1> QED BY <1>1, Zenon DEF Started, Ended

-----------------------------------------------------------------------------
(* The invariant. *)

\* Nothing lies in the future, and sessions begin and are closed after time None.
InTime(c) ==
  /\ call[c].seen.start <= now /\ call[c].seen.end <= now /\ call[c].time <= now
  /\ call[c].closes # {} => 1 <= call[c].time
  /\ call[c].job = "join" /\ InTransaction(c) => 1 <= call[c].time

Clock ==
  /\ 1 <= now /\ meeting.start <= now /\ meeting.end <= now
  /\ \A i \in DOMAIN sessions :
       1 <= sessions[i].joined /\ sessions[i].joined <= now /\ sessions[i].left <= now
  /\ \A c \in Calls : InTime(c)

\* Transactions close open sessions that no other transaction closes.
Transactions == {"join", "left", "leave", "finalize", "history"}

Locking(c) ==
  /\ call[c].closes \subseteq Open(sessions)
  /\ ~InTransaction(c) => call[c].closes = {} /\ DOMAIN call[c].rows = {}
  /\ InTransaction(c) => call[c].job \in Transactions
  /\ InTransaction(c) /\ call[c].job \in {"left", "leave"} => call[c].closes # {}
  /\ InTransaction(c) /\ call[c].job = "finalize" => HasTimes(c)
  /\ call[c].job \in {"join", "history"} => call[c].closes = {}

Locks ==
  /\ \A c \in Calls : Locking(c)
  /\ \A c, d \in Calls : c # d => call[c].closes \cap call[d].closes = {}

Base == Types /\ Clock /\ Locks

-----------------------------------------------------------------------------
(* What a step may be. *)

Fresh(job, user, seen) == Handler(job, "ready", user, seen, {}, None, NoRows, {})
Unlike(c) == IF meeting = call[c].seen THEN mishaps ELSE mishaps \cup {"stale"}

Reads(c, job, u) ==
  /\ call[c] = Idle /\ meeting.status \in Allowed(job)
  /\ Sets(c, Fresh(job, u, meeting))
  /\ UNCHANGED <<now, meeting, sessions, attendance, mishaps>>

Founds(c) ==
  /\ call[c] = Idle /\ meeting = Unborn
  /\ meeting' = Meets("ongoing", now, None)
  /\ Sets(c, Fresh("initialize", Host, meeting'))
  /\ UNCHANGED <<now, sessions, attendance, mishaps>>

Starts(c) ==
  /\ call[c].job = "start" /\ call[c].step = "ready"
  /\ meeting' = Meets("ongoing", now, meeting.end)
  /\ Sets(c, Handler("initialize", "ready", call[c].user, Meets("ongoing", now, call[c].seen.end),
                     call[c].closes, call[c].time, call[c].rows, call[c].fresh))
  /\ mishaps' = Unlike(c)
  /\ UNCHANGED <<now, sessions, attendance>>

Ends(c) ==
  /\ call[c].job = "end" /\ call[c].step = "ready"
  /\ meeting' = Meets("ended", meeting.start, now)
  /\ Sets(c, Handler("finalize", "ready", call[c].user, Meets("ended", call[c].seen.start, now),
                     call[c].closes, call[c].time, call[c].rows, call[c].fresh))
  /\ mishaps' = Unlike(c)
  /\ UNCHANGED <<now, sessions, attendance>>

Edits(c) ==
  /\ call[c].job = "edit"
  /\ meeting' = call[c].seen
  /\ Sets(c, Idle)
  /\ mishaps' = Unlike(c)
  /\ UNCHANGED <<now, sessions, attendance>>

Fills(c) ==
  /\ call[c].job = "initialize" /\ call[c].step = "ready"
  /\ attendance' = [u \in Users |-> IF attendance[u] = NoRow THEN Absent ELSE attendance[u]]
  /\ Sets(c, Handler("join", "ready", call[c].user, call[c].seen,
                     call[c].closes, call[c].time, call[c].rows, call[c].fresh))
  /\ mishaps' = Crossing(c)
  /\ UNCHANGED <<now, meeting, sessions>>

\* A transaction begins, which will close sessions at time t.
Looks(c, closes, t) ==
  /\ call[c].step = "ready" /\ call[c].job \in Transactions
  /\ closes \subseteq Open(sessions) /\ closes \cap LockedFor(c) = {}
  /\ t \in Times /\ t <= now /\ (closes # {} => 1 <= t)
  /\ call[c].job = "join" => closes = {} /\ t = now /\ OpenOf(call[c].user) = {}
  /\ call[c].job \in {"left", "leave"} => closes # {}
  /\ call[c].job = "finalize" => HasTimes(c) /\ closes = Open(sessions)
  /\ call[c].job = "history" => closes = {}
  /\ Sets(c, Handler(call[c].job, "looked", call[c].user, call[c].seen,
                     closes, t, call[c].rows, call[c].fresh))
  /\ mishaps' = Crossing(c)
  /\ UNCHANGED <<now, meeting, sessions, attendance>>

Counts(c) ==
  /\ call[c].step = "looked"
  /\ Sets(c, Handler(call[c].job, "counted", call[c].user, call[c].seen,
                     call[c].closes, call[c].time, SyncRows(c), NewRows(c)))
  /\ UNCHANGED <<now, meeting, sessions, attendance, mishaps>>

Writes(c, h) ==
  /\ call[c].step = "counted"
  /\ sessions' = Visible(c)
  /\ attendance' = [u \in Users |-> IF u \in DOMAIN call[c].rows THEN call[c].rows[u]
                                    ELSE attendance[u]]
  /\ \/ h = Idle
     \/ /\ call[c].job = "left" /\ call[c].seen.status = "ended"
        /\ h = Fresh("finalize", call[c].user, call[c].seen)
  /\ Sets(c, h)
  /\ mishaps' = IF call[c].job = "join" /\ meeting.status = "ended"
                THEN mishaps \cup {"late"} ELSE mishaps
  /\ UNCHANGED <<now, meeting>>

\* A handler ends without a change, or dies.
Drops(c) ==
  /\ Sets(c, Idle)
  /\ mishaps \subseteq mishaps' /\ mishaps' \subseteq Mishaps
  /\ call[c].job = "finalize" /\ HasTimes(c) => "cut" \in mishaps'
  /\ UNCHANGED <<now, meeting, sessions, attendance>>

StepOf(c) ==
  \/ \E job \in Jobs : \E u \in Users : Reads(c, job, u)
  \/ Founds(c) \/ Starts(c) \/ Ends(c) \/ Edits(c) \/ Fills(c)
  \/ \E closes, t : Looks(c, closes, t)
  \/ Counts(c)
  \/ \E h : Writes(c, h)
  \/ Drops(c)

LEMMA LeftAtIs ==
  ASSUME Base, NEW c \in Calls, NEW i \in DOMAIN sessions
  PROVE  LeftAt(c, i) \in Times /\ LeftAt(c, i) <= now /\ 1 <= LeftAt(c, i)
<1> DEFINE j == sessions[i].joined
           e == call[c].seen.end
           m == Min({now, e})
           l == IF e = None THEN now ELSE m
<1>1. LeftAt(c, i) = Max({j, l})
  BY Zenon DEF LeftAt
<1>2. j \in Times /\ e \in Times /\ now \in Times
  <2>1. sessions[i] \in Session
    BY DEF Base, Types
  <2> QED BY <2>1, HandlerOf DEF Base, Types, Session, MeetingRow
<1>3. 1 <= j /\ j <= now
  BY DEF Base, Clock
<1> HIDE DEF j, e
<1>4. j \in Int /\ e \in Int /\ now \in Int
  BY <1>2, TimesInt
<1>5. m \in {now, e} /\ m <= now
  BY ONLY <1>4, MinTwo DEF m
<1> HIDE DEF m
<1>6. l \in Times /\ l \in Int /\ l <= now
  BY <1>2, <1>4, <1>5
<1> HIDE DEF l
<1>7. Max({j, l}) \in {j, l} /\ Max({j, l}) >= j
  BY ONLY <1>4, <1>6, MaxTwo
<1> QED BY <1>1, <1>2, <1>3, <1>4, <1>6, <1>7

\* The handlers under way: their columns, and what they may be about to do.
LEMMA CallTypes ==
  ASSUME Types, NEW c \in Calls
  PROVE  /\ call[c] \in Handlers
         /\ call[c] = Handler(call[c].job, call[c].step, call[c].user, call[c].seen,
                              call[c].closes, call[c].time, call[c].rows, call[c].fresh)
         /\ call[c].job \in JobSet /\ call[c].step \in {"ready", "looked", "counted"}
         /\ call[c].user \in Users /\ call[c].seen \in MeetingRow /\ call[c].closes \in SUBSET Nat
         /\ call[c].time \in Times /\ call[c].rows \in RowMaps /\ call[c].fresh \in SUBSET Users
<1>1. call[c] \in Handlers
  BY DEF Types
<1> QED BY <1>1, HandlerOf

LEMMA OpenIn == Open(sessions) \subseteq DOMAIN sessions /\ \A u : OpenOf(u) \subseteq Open(sessions)
  BY DEF Open, OpenOf

LEMMA ReadsStep ==
  ASSUME Base, NEW c \in Calls, NEW job \in Jobs, NEW u \in UserOf(job), Read(c, job, u)
  PROVE  u \in Users /\ Reads(c, job, u)
<1>1. u \in Users
  BY HostIsUser DEF UserOf
<1> DEFINE h == [Idle EXCEPT !.job = job, !.user = u, !.seen = meeting]
<1>2. h = Fresh(job, u, meeting)
  <2> DEFINE p == [Idle EXCEPT !.job = job]
             q == [p EXCEPT !.user = u]
  <2>1. p = Handler(job, "ready", Host, Unborn, {}, None, NoRows, {})
    BY IdleHandler DEF Handler
  <2> HIDE DEF p
  <2>2. q = Handler(job, "ready", u, Unborn, {}, None, NoRows, {})
    BY <2>1 DEF Handler
  <2> HIDE DEF q
  <2>3. [q EXCEPT !.seen = meeting] = Handler(job, "ready", u, meeting, {}, None, NoRows, {})
    BY <2>2 DEF Handler
  <2> QED BY <2>3, Zenon DEF p, q, Fresh
<1>3. Sets(c, h)
  BY Zenon DEF Read, Sets
<1> HIDE DEF h
<1> QED BY <1>1, <1>2, <1>3 DEF Read, Reads

LEMMA FoundsStep ==
  ASSUME Base, NEW c \in Calls, Instant(c)
  PROVE  Founds(c)
<1> DEFINE h == [Idle EXCEPT !.job = "initialize", !.seen = meeting']
<1>1. h = Fresh("initialize", Host, meeting')
  <2> DEFINE p == [Idle EXCEPT !.job = "initialize"]
  <2>1. p = Handler("initialize", "ready", Host, Unborn, {}, None, NoRows, {})
    BY IdleHandler DEF Handler
  <2> HIDE DEF p
  <2>2. [p EXCEPT !.seen = meeting'] = Handler("initialize", "ready", Host, meeting', {}, None, NoRows, {})
    BY <2>1 DEF Handler
  <2> QED BY <2>2, Zenon DEF p, Fresh
<1>2. Sets(c, h)
  BY Zenon DEF Instant, Sets
<1> HIDE DEF h
<1> QED BY <1>1, <1>2 DEF Instant, Founds, Meets

LEMMA SavesStep ==
  ASSUME Base, NEW c \in Calls
  PROVE  /\ SaveStart(c) => Starts(c)
         /\ SaveEnd(c) => Ends(c)
         /\ SaveEdit(c) => Edits(c)
<1>1. Types /\ call[c] \in Handlers /\ meeting \in MeetingRow /\ call[c].step \in {"ready", "looked", "counted"}
  BY CallTypes DEF Base, Types
<1>2. call[c].job \in {"start", "end", "initialize"} => call[c].step = "ready"
  BY <1>1 DEF Base, Locks, Locking, InTransaction, Transactions
<1>3. ASSUME SaveStart(c)
      PROVE  Starts(c)
  <2>1. meeting' = Meets("ongoing", now, meeting.end)
    BY <1>1, <1>3, MeetingSaved DEF SaveStart, Save
  <2>2. Sets(c, Handler("initialize", call[c].step, call[c].user, Meets("ongoing", now, call[c].seen.end),
                     call[c].closes, call[c].time, call[c].rows, call[c].fresh))
    BY <1>1, <1>3, SetColumns DEF SaveStart
  <2>3. call[c].step = "ready" /\ call[c].job = "start"
    BY <1>2, <1>3 DEF SaveStart
  <2> QED BY <1>3, <2>1, <2>2, <2>3 DEF SaveStart, Save, Starts, Unlike
<1>4. ASSUME SaveEnd(c)
      PROVE  Ends(c)
  <2>1. meeting' = Meets("ended", meeting.start, now)
    BY <1>1, <1>4, MeetingSaved DEF SaveEnd, Save
  <2>2. Sets(c, Handler("finalize", call[c].step, call[c].user, Meets("ended", call[c].seen.start, now),
                     call[c].closes, call[c].time, call[c].rows, call[c].fresh))
    BY <1>1, <1>4, SetColumns DEF SaveEnd
  <2>3. call[c].step = "ready" /\ call[c].job = "end"
    BY <1>2, <1>4 DEF SaveEnd
  <2> QED BY <1>4, <2>1, <2>2, <2>3 DEF SaveEnd, Save, Ends, Unlike
<1>5. SaveEdit(c) => Edits(c)
  BY DEF SaveEdit, Save, Edits, Unlike, Sets
<1> QED BY <1>3, <1>4, <1>5

LEMMA FillsStep ==
  ASSUME Base, NEW c \in Calls, Initialize(c)
  PROVE  Fills(c)
<1>1. Types /\ call[c] \in Handlers /\ call[c].step \in {"ready", "looked", "counted"}
  BY CallTypes DEF Base
<1>2. call[c].job = "initialize" /\ call[c].step = "ready"
  BY <1>1 DEF Base, Locks, Locking, InTransaction, Transactions, Initialize
<1>3. Sets(c, Handler("join", call[c].step, call[c].user, call[c].seen,
                     call[c].closes, call[c].time, call[c].rows, call[c].fresh))
  BY <1>1, SetColumns DEF Initialize
<1> QED BY <1>2, <1>3 DEF Initialize, Fills

\* The conditions under which a transaction begins.
LEMMA LooksStep ==
  ASSUME Base, NEW c \in Calls, NEW closes, NEW t, Look(c, closes, t)
  PROVE  Sets(c, Handler(call[c].job, "looked", call[c].user, call[c].seen,
                         closes, t, call[c].rows, call[c].fresh))
<1>1. Types /\ call[c] \in Handlers
  BY CallTypes DEF Base
<1> QED BY <1>1, SetColumns DEF Look

LEMMA JoinStep ==
  ASSUME Base, NEW c \in Calls, Join(c)
  PROVE  Looks(c, {}, now)
<1>1. Look(c, {}, now) /\ Ready(c, {"join"}) /\ OpenOf(call[c].user) = {}
  BY DEF Join
<1>2. now \in Times /\ now <= now
  BY TimesInt DEF Base, Types
<1> QED BY <1>1, <1>2, LooksStep DEF Look, Looks, Ready, Transactions

LEMMA LeaveStep ==
  ASSUME Base, NEW c \in Calls, Leave(c)
  PROVE  \E closes, t : Looks(c, closes, t)
<1> DEFINE i == Earliest(OpenOf(call[c].user))
<1>1. Ready(c, {"left", "leave"}) /\ OpenOf(call[c].user) # {} /\ Look(c, {i}, LeftAt(c, i))
  BY DEF Leave
<1>2. i \in Open(sessions) /\ i \in DOMAIN sessions
  <2>1. sessions \in Seq(Session)
    BY DEF Base, Types
  <2>2. OpenOf(call[c].user) \subseteq DOMAIN sessions /\ OpenOf(call[c].user) \subseteq Open(sessions)
    BY OpenIn
  <2> QED BY <1>1, <2>1, <2>2, EarliestIn
<1> HIDE DEF i
<1>3. LeftAt(c, i) \in Times /\ LeftAt(c, i) <= now /\ 1 <= LeftAt(c, i)
  BY <1>2, LeftAtIs
<1>4. Looks(c, {i}, LeftAt(c, i))
  BY <1>1, <1>2, <1>3, LooksStep DEF Look, Looks, Ready, Transactions
<1> QED BY <1>4

LEMMA SeenIs ==
  ASSUME Base, NEW c \in Calls
  PROVE  /\ call[c].seen.start \in Times /\ call[c].seen.end \in Times
         /\ call[c].seen.start <= now /\ call[c].seen.end <= now
         /\ HasTimes(c) => 1 <= call[c].seen.end /\ 1 <= call[c].seen.start
<1>1. call[c].seen \in MeetingRow
  BY CallTypes DEF Base
<1>2. call[c].seen.start \in Times /\ call[c].seen.end \in Times
  BY <1>1, MeetsOf
<1>3. call[c].seen.start <= now /\ call[c].seen.end <= now
  BY DEF Base, Clock, InTime
<1> QED BY <1>2, <1>3, TimesInt DEF HasTimes, None

LEMMA FinalizeStep ==
  ASSUME Base, NEW c \in Calls, Finalize(c)
  PROVE  Looks(c, Open(sessions), call[c].seen.end)
<1>1. Ready(c, {"finalize"}) /\ HasTimes(c) /\ Look(c, Open(sessions), call[c].seen.end)
  BY DEF Finalize
<1> QED BY <1>1, SeenIs, LooksStep DEF Look, Looks, Ready, Transactions

LEMMA RecountStep ==
  ASSUME Base, NEW c \in Calls, Recount(c)
  PROVE  Looks(c, {}, call[c].seen.end)
<1>1. Ready(c, {"history"}) /\ Look(c, {}, call[c].seen.end)
  BY DEF Recount
<1> QED BY <1>1, SeenIs, LooksStep DEF Look, Looks, Ready, Transactions

LEMMA CountsStep ==
  ASSUME Base, NEW c \in Calls, Count(c)
  PROVE  Counts(c)
<1>1. Types /\ call[c] \in Handlers
  BY CallTypes DEF Base
<1>2. Sets(c, Handler(call[c].job, "counted", call[c].user, call[c].seen,
                     call[c].closes, call[c].time, SyncRows(c), NewRows(c)))
  BY <1>1, SetColumns DEF Count
<1> QED BY <1>2 DEF Count, Counts

LEMMA WritesStep ==
  ASSUME Base, NEW c \in Calls, Write(c)
  PROVE  \E h : Writes(c, h)
<1> DEFINE f == [Idle EXCEPT !.job = "finalize", !.user = call[c].user, !.seen = call[c].seen]
           h == IF call[c].job = "left" /\ call[c].seen.status = "ended" THEN f ELSE Idle
<1>1. f = Fresh("finalize", call[c].user, call[c].seen)
  <2> DEFINE p == [Idle EXCEPT !.job = "finalize"]
             q == [p EXCEPT !.user = call[c].user]
  <2>1. p = Handler("finalize", "ready", Host, Unborn, {}, None, NoRows, {})
    BY IdleHandler DEF Handler
  <2> HIDE DEF p
  <2>2. q = Handler("finalize", "ready", call[c].user, Unborn, {}, None, NoRows, {})
    BY <2>1 DEF Handler
  <2> HIDE DEF q
  <2>3. [q EXCEPT !.seen = call[c].seen] = Handler("finalize", "ready", call[c].user, call[c].seen,
                                                  {}, None, NoRows, {})
    BY <2>2 DEF Handler
  <2> QED BY <2>3, Zenon DEF p, q, Fresh
<1>2. Sets(c, h)
  BY Zenon DEF Write, Sets
<1> HIDE DEF f
<1>3. \/ h = Idle
      \/ /\ call[c].job = "left" /\ call[c].seen.status = "ended"
         /\ h = Fresh("finalize", call[c].user, call[c].seen)
  BY <1>1
<1> HIDE DEF h
<1>4. Writes(c, h)
  BY <1>2, <1>3 DEF Write, Writes
<1> QED BY <1>4

LEMMA DropsStep ==
  ASSUME Base, NEW c \in Calls,
         AlreadyJoined(c) \/ NothingToLeave(c) \/ NothingToFinalize(c) \/ GiveUp(c)
  PROVE  Drops(c)
<1>1. mishaps \subseteq Mishaps /\ "cut" \in Mishaps
  BY DEF Base, Types, Mishaps
<1> QED BY <1>1 DEF AlreadyJoined, NothingToLeave, NothingToFinalize, GiveUp, Finish, Ready, Drops, Sets

LEMMA Steps ==
  ASSUME Base, Next
  PROVE  Schedule \/ Tick \/ \E c \in Calls : StepOf(c)
<1> SUFFICES ASSUME NEW c \in Calls,
       \/ \E job \in Jobs : \E u \in UserOf(job) : Read(c, job, u)
       \/ Instant(c)
       \/ SaveMeeting(c)
       \/ Initialize(c)
       \/ JoinMeeting(c)
       \/ LeaveMeeting(c)
       \/ FinalizeMeeting(c)
       \/ Recount(c)
       \/ SyncMeeting(c)
       \/ GiveUp(c)
     PROVE  StepOf(c)
  BY DEF Next
<1>1. ASSUME NEW job \in Jobs, NEW u \in UserOf(job), Read(c, job, u)
      PROVE  StepOf(c)
  BY <1>1, ReadsStep DEF StepOf
<1>2. Instant(c) \/ SaveMeeting(c) \/ Initialize(c) => StepOf(c)
  BY FoundsStep, SavesStep, FillsStep DEF StepOf, SaveMeeting
<1>3. Join(c) \/ Leave(c) \/ Finalize(c) \/ Recount(c) => StepOf(c)
  BY JoinStep, LeaveStep, FinalizeStep, RecountStep, Zenon DEF StepOf
<1>4. AlreadyJoined(c) \/ NothingToLeave(c) \/ NothingToFinalize(c) \/ GiveUp(c) => StepOf(c)
  BY DropsStep DEF StepOf
<1>5. Count(c) \/ Write(c) => StepOf(c)
  BY CountsStep, WritesStep, Zenon DEF StepOf
<1> QED BY <1>1, <1>2, <1>3, <1>4, <1>5 DEF JoinMeeting, LeaveMeeting, FinalizeMeeting, SyncMeeting

-----------------------------------------------------------------------------
(* Types are kept. *)

LEMMA FreshHandler ==
  ASSUME NEW job \in JobSet, NEW u \in Users, NEW m \in MeetingRow
  PROVE  /\ Fresh(job, u, m) \in Handlers
         /\ Fresh(job, u, m).job = job /\ Fresh(job, u, m).step = "ready"
         /\ Fresh(job, u, m).user = u /\ Fresh(job, u, m).seen = m
         /\ Fresh(job, u, m).closes = {} /\ Fresh(job, u, m).time = None
         /\ Fresh(job, u, m).rows = NoRows /\ Fresh(job, u, m).fresh = {}
<1>1. Fresh(job, u, m) \in Handlers
  <2>1. None \in Times /\ NoRows \in RowMaps /\ {} \in SUBSET Nat /\ {} \in SUBSET Users
    BY TimesNat, RowMap
  <2> QED BY <2>1, HandlerType DEF Fresh
<1> QED BY <1>1, HandlerColumns DEF Fresh

LEMMA IdleColumns ==
  /\ Idle \in Handlers /\ Idle.job = "none" /\ Idle.step = "ready" /\ Idle.user = Host
  /\ Idle.seen = Unborn /\ Idle.closes = {} /\ Idle.time = None /\ Idle.rows = NoRows /\ Idle.fresh = {}
  BY IdleHandler, HandlerColumns

\* Rows a transaction wrote.
LEMMA WrittenRows ==
  ASSUME Types, NEW c \in Calls, NEW u \in Users
  PROVE  /\ u \in DOMAIN call[c].rows => call[c].rows[u] \in Row
         /\ attendance[u] \in Row
<1>1. call[c].rows \in RowMaps
  BY CallTypes
<1> QED BY <1>1, RowMap DEF Types

LEMMA TypesNext ==
  ASSUME Base, Next
  PROVE  Types'
<1>t. Types
  BY DEF Base
<1>0. Schedule \/ Tick \/ \E c \in Calls : StepOf(c)
  BY Steps
<1>1. CASE Schedule
  <2>1. meeting' = Meets("scheduled", None, None)
    BY <1>1 DEF Schedule, Unborn, Meets
  <2>2. meeting' \in MeetingRow
    BY <2>1, MeetsOf, TimesNat DEF Statuses
  <2> QED BY <1>t, <1>1, <2>2 DEF Schedule, Types
<1>2. CASE Tick
  <2>1. now' \in Times
    BY <1>t, <1>2, TimesNat DEF Tick, Types
  <2> QED BY <1>t, <1>2, <2>1 DEF Tick, Types
<1>3. ASSUME NEW c \in Calls, StepOf(c)
      PROVE  Types'
  <2>c. /\ call[c] \in Handlers /\ call[c].job \in JobSet /\ call[c].step \in {"ready", "looked", "counted"}
        /\ call[c].user \in Users /\ call[c].seen \in MeetingRow /\ call[c].closes \in SUBSET Nat
        /\ call[c].time \in Times /\ call[c].rows \in RowMaps /\ call[c].fresh \in SUBSET Users
    BY <1>t, CallTypes
  <2>t. now \in Times /\ None \in Times /\ meeting \in MeetingRow
    BY <1>t, TimesNat DEF Types
  <2>j. /\ {"initialize", "finalize", "join"} \subseteq JobSet /\ Jobs \subseteq JobSet
        /\ {"ongoing", "ended"} \subseteq Statuses
        /\ "stale" \in Mishaps /\ "late" \in Mishaps /\ "crossed" \in Mishaps
    BY DEF JobSet, Jobs, Statuses, Mishaps
  <2>s. /\ call[c].seen.start \in Times /\ call[c].seen.end \in Times
        /\ meeting.start \in Times /\ meeting.end \in Times
    BY <2>c, <2>t, MeetsOf
  <2>m. Unlike(c) \subseteq Mishaps /\ Crossing(c) \subseteq Mishaps
    BY <1>t, <2>j DEF Types, Unlike, Crossing
  <2>h. ASSUME NEW h \in Handlers, Sets(c, h)
        PROVE  call' \in [Calls -> Handlers]
    BY <1>t, <2>h, SetsIs
  <2>1. ASSUME NEW job \in Jobs, NEW u \in Users, Reads(c, job, u)
        PROVE  Types'
    <3>1. Fresh(job, u, meeting) \in Handlers
      BY <2>t, <2>j, FreshHandler
    <3> QED BY <1>t, <2>1, <2>h, <3>1 DEF Reads, Types
  <2>2. CASE Founds(c)
    <3>1. meeting' \in MeetingRow
      BY <2>2, <2>t, <2>j, MeetsOf DEF Founds
    <3>2. Fresh("initialize", Host, meeting') \in Handlers
      <4> DEFINE m == meeting'
      <4>1. m \in MeetingRow
        BY <3>1
      <4> HIDE DEF m
      <4>2. Fresh("initialize", Host, m) \in Handlers
        BY <4>1, <2>j, HostIsUser, FreshHandler
      <4> QED BY <4>2 DEF m
    <3> QED BY <1>t, <2>2, <2>h, <3>1, <3>2 DEF Founds, Types
  <2>3. CASE Starts(c)
    <3>1. meeting' \in MeetingRow
      BY <2>3, <2>t, <2>s, <2>j, MeetsOf DEF Starts
    <3>2. Meets("ongoing", now, call[c].seen.end) \in MeetingRow
      BY <2>s, <2>t, <2>j, MeetsOf
    <3>3. Handler("initialize", "ready", call[c].user, Meets("ongoing", now, call[c].seen.end),
                  call[c].closes, call[c].time, call[c].rows, call[c].fresh) \in Handlers
      BY <2>c, <2>j, <3>2, HandlerType
    <3> QED BY <1>t, <2>3, <2>h, <2>m, <3>1, <3>3 DEF Starts, Types
  <2>4. CASE Ends(c)
    <3>1. meeting' \in MeetingRow
      BY <2>4, <2>t, <2>s, <2>j, MeetsOf DEF Ends
    <3>2. Meets("ended", call[c].seen.start, now) \in MeetingRow
      BY <2>s, <2>t, <2>j, MeetsOf
    <3>3. Handler("finalize", "ready", call[c].user, Meets("ended", call[c].seen.start, now),
                  call[c].closes, call[c].time, call[c].rows, call[c].fresh) \in Handlers
      BY <2>c, <2>j, <3>2, HandlerType
    <3> QED BY <1>t, <2>4, <2>h, <2>m, <3>1, <3>3 DEF Ends, Types
  <2>5. CASE Edits(c)
    BY <1>t, <2>5, <2>c, <2>h, <2>m, IdleColumns DEF Edits, Types
  <2>6. CASE Fills(c)
    <3>1. Handler("join", "ready", call[c].user, call[c].seen,
                  call[c].closes, call[c].time, call[c].rows, call[c].fresh) \in Handlers
      BY <2>c, <2>j, HandlerType
    <3>2. attendance' \in [Users -> Row]
      BY <1>t, <2>6, RowTypes DEF Fills, Types
    <3> QED BY <1>t, <2>6, <2>h, <2>m, <3>1, <3>2 DEF Fills, Types
  <2>7. ASSUME NEW closes, NEW t, Looks(c, closes, t)
        PROVE  Types'
    <3>1. closes \in SUBSET Nat
      <4>1. DOMAIN sessions \subseteq Nat
        BY <1>t DEF Types
      <4> QED BY <2>7, <4>1, OpenIn DEF Looks
    <3>2. Handler(call[c].job, "looked", call[c].user, call[c].seen, closes, t,
                  call[c].rows, call[c].fresh) \in Handlers
      <4>1. t \in Times
        BY <2>7 DEF Looks
      <4> QED BY <2>c, <3>1, <4>1, HandlerType
    <3> QED BY <1>t, <2>7, <2>h, <2>m, <3>2 DEF Looks, Types
  <2>8. CASE Counts(c)
    <3>1. SyncRows(c) \in RowMaps /\ NewRows(c) \in SUBSET Users
      BY <1>t, SyncRowsIs
    <3>2. Handler(call[c].job, "counted", call[c].user, call[c].seen,
                  call[c].closes, call[c].time, SyncRows(c), NewRows(c)) \in Handlers
      BY <2>c, <3>1, HandlerType
    <3> QED BY <1>t, <2>8, <2>h, <3>2 DEF Counts, Types
  <2>9. ASSUME NEW h, Writes(c, h)
        PROVE  Types'
    <3>1. h \in Handlers
      BY <2>9, <2>c, <2>j, IdleColumns, FreshHandler DEF Writes
    <3>2. sessions' \in Seq(Session)
      BY <1>t, <2>9, VisibleIs DEF Writes
    <3>3. attendance' \in [Users -> Row]
      BY <1>t, <2>9, WrittenRows DEF Writes
    <3>4. mishaps' \subseteq Mishaps
      BY <1>t, <2>j, <2>9 DEF Writes, Types
    <3>5. call' \in [Calls -> Handlers] /\ now' = now /\ meeting' = meeting
      BY <2>9, <2>h, <3>1 DEF Writes
    <3> QED BY <1>t, <3>2, <3>3, <3>4, <3>5 DEF Types
  <2>10. CASE Drops(c)
    BY <1>t, <2>10, <2>h, IdleColumns DEF Drops, Types
  <2> QED BY <1>3, <2>1, <2>2, <2>3, <2>4, <2>5, <2>6, <2>7, <2>8, <2>9, <2>10 DEF StepOf
<1> QED BY <1>0, <1>1, <1>2, <1>3

-----------------------------------------------------------------------------
(* Nothing lies in the future; transactions do not close the same session. *)

LEMMA NumbersAre ==
  ASSUME Types
  PROVE  /\ now \in Nat /\ now <= MaxTime /\ meeting.start \in Nat /\ meeting.end \in Nat
         /\ \A i \in DOMAIN sessions :
              sessions[i] \in Session /\ sessions[i].joined \in Nat /\ sessions[i].left \in Nat
         /\ \A c \in Calls : /\ call[c].seen.start \in Nat /\ call[c].seen.end \in Nat
                             /\ call[c].time \in Nat
<1>1. meeting.start \in Times /\ meeting.end \in Times /\ now \in Times
  BY MeetsOf DEF Types
<1>2. ASSUME NEW i \in DOMAIN sessions
      PROVE  sessions[i] \in Session /\ sessions[i].joined \in Times /\ sessions[i].left \in Times
  <2>1. sessions[i] \in Session
    BY DEF Types
  <2> QED BY <2>1 DEF Session
<1>3. ASSUME NEW c \in Calls
      PROVE  call[c].seen.start \in Times /\ call[c].seen.end \in Times /\ call[c].time \in Times
  BY CallTypes, MeetsOf
<1> QED BY <1>1, <1>2, <1>3, TimesNat

\* One handler has changed, from which the rest of the clock can be told.
LEMMA InTimeNext ==
  ASSUME Base, NEW c \in Calls, NEW h, Sets(c, h), now' = now,
         h.seen.start <= now, h.seen.end <= now, h.time <= now,
         h.closes # {} => 1 <= h.time,
         h.job = "join" /\ h.step \in {"looked", "counted"} => 1 <= h.time
  PROVE  \A d \in Calls : InTime(d)'
<1> SUFFICES ASSUME NEW d \in Calls
             PROVE  InTime(d)'
  OBVIOUS
<1>1. call'[c] = h /\ (d # c => call'[d] = call[d])
  BY SetsIs DEF Base
<1>2. CASE d = c
  BY <1>1, <1>2 DEF InTime, InTransaction
<1>3. CASE d # c
  BY <1>1, <1>3 DEF Base, Clock, InTime, InTransaction
<1> QED BY <1>2, <1>3

LEMMA ClockNext ==
  ASSUME Base, Next
  PROVE  Clock'
<1>t. Types /\ Clock /\ Locks
  BY DEF Base
<1>n. 1 \in Nat /\ now \in Nat /\ None <= now /\ None = 0
  BY <1>t, NumbersAre DEF None
<1>0. Schedule \/ Tick \/ \E c \in Calls : StepOf(c)
  BY Steps
<1>1. CASE Schedule
  <2>1. meeting' = Meets("scheduled", None, None)
    BY <1>1 DEF Schedule, Unborn, Meets
  <2>2. meeting'.start = None /\ meeting'.end = None
    BY <2>1 DEF Meets
  <2> QED BY <1>t, <1>n, <1>1, <2>2 DEF Schedule, Clock, InTime, InTransaction
<1>2. CASE Tick
  <2>1. now' = now + 1 /\ UNCHANGED <<meeting, sessions, call>>
    BY <1>2 DEF Tick
  <2>2. 1 <= now' /\ meeting'.start <= now' /\ meeting'.end <= now'
    BY <1>t, <1>n, <2>1, NumbersAre DEF Clock
  <2>3. \A i \in DOMAIN sessions' :
          1 <= sessions'[i].joined /\ sessions'[i].joined <= now' /\ sessions'[i].left <= now'
    BY <1>t, <1>n, <2>1, NumbersAre DEF Clock
  <2>4. ASSUME NEW c \in Calls
        PROVE  InTime(c)'
    BY <1>t, <1>n, <2>1, NumbersAre DEF Clock, InTime, InTransaction
  <2> QED BY <2>2, <2>3, <2>4 DEF Clock
<1>3. ASSUME NEW c \in Calls, StepOf(c)
      PROVE  Clock'
  <2>i. InTime(c)
    BY <1>t DEF Clock
  <2>j. (~InTransaction(c) => call[c].closes = {}) /\ (InTransaction(c) <=> call[c].step # "ready")
    BY <1>t, CallTypes DEF Locks, Locking, InTransaction
  <2>s. /\ call[c].seen.start <= now /\ call[c].seen.end <= now
        /\ meeting.start <= now /\ meeting.end <= now /\ call[c].time <= now
    BY <1>t, <2>i DEF Clock, InTime
  <2>k. UNCHANGED <<now, meeting, sessions>> /\ (\A d \in Calls : InTime(d)') => Clock'
    BY <1>t DEF Clock
  <2>l. /\ UNCHANGED <<now, sessions>> /\ meeting'.start <= now /\ meeting'.end <= now
        /\ (\A d \in Calls : InTime(d)')
        => Clock'
    BY <1>t DEF Clock
  <2>d. ASSUME Sets(c, Idle), now' = now
        PROVE  \A d \in Calls : InTime(d)'
    <3>1. Idle.seen.start = None /\ Idle.seen.end = None
      BY IdleColumns DEF Unborn
    <3> QED BY <1>n, <2>d, <3>1, InTimeNext, IdleColumns
  <2>1. ASSUME NEW job \in Jobs, NEW u \in Users, Reads(c, job, u)
        PROVE  Clock'
    <3> DEFINE h == Fresh(job, u, meeting)
    <3>1. h.seen = meeting /\ h.closes = {} /\ h.step = "ready" /\ h.time = None /\ Sets(c, h)
      BY <2>1, HandlerColumns DEF Reads, Fresh
    <3> HIDE DEF h
    <3>2. now' = now /\ UNCHANGED <<now, meeting, sessions>>
      BY <2>1 DEF Reads
    <3>3. \A d \in Calls : InTime(d)'
      BY <1>n, <2>s, <3>1, <3>2, InTimeNext
    <3> QED BY <2>k, <3>2, <3>3
  <2>2. CASE Founds(c)
    <3> DEFINE h == Fresh("initialize", Host, meeting')
    <3>1. h.seen = meeting' /\ h.closes = {} /\ h.step = "ready" /\ h.time = None /\ Sets(c, h)
      BY <2>2, HandlerColumns DEF Founds, Fresh
    <3> HIDE DEF h
    <3>2. now' = now /\ UNCHANGED <<now, sessions>> /\ meeting'.start = now /\ meeting'.end = None
      BY <2>2, MeetsOf DEF Founds
    <3>3. \A d \in Calls : InTime(d)'
      BY <1>n, <2>s, <3>1, <3>2, InTimeNext
    <3> QED BY <1>n, <2>l, <3>2, <3>3
  <2>3. CASE Starts(c) \/ Ends(c)
    <3>1. PICK job, m :
            /\ Sets(c, Handler(job, "ready", call[c].user, m, call[c].closes, call[c].time,
                               call[c].rows, call[c].fresh))
            /\ m.start \in {now, call[c].seen.start} /\ m.end \in {now, call[c].seen.end}
      BY <2>3, MeetsOf DEF Starts, Ends
    <3> DEFINE h == Handler(job, "ready", call[c].user, m, call[c].closes, call[c].time,
                            call[c].rows, call[c].fresh)
    <3>2. h.seen = m /\ h.closes = call[c].closes /\ h.step = "ready" /\ h.time = call[c].time /\ Sets(c, h)
      BY <3>1, HandlerColumns
    <3> HIDE DEF h
    <3>3. now' = now /\ UNCHANGED <<now, sessions>> /\ call[c].closes = {}
      BY <2>3, <2>j DEF Starts, Ends
    <3>4. meeting'.start <= now /\ meeting'.end <= now
      BY <1>n, <2>s, <2>3, MeetsOf DEF Starts, Ends
    <3>5. m.start <= now /\ m.end <= now
      BY <1>n, <2>s, <3>1
    <3>6. \A d \in Calls : InTime(d)'
      BY <1>n, <2>s, <3>2, <3>3, <3>5, InTimeNext
    <3> QED BY <2>l, <3>3, <3>4, <3>6
  <2>4. CASE Edits(c)
    <3>1. \A d \in Calls : InTime(d)'
      BY <2>4, <2>d DEF Edits
    <3> QED BY <2>l, <2>s, <2>4, <3>1 DEF Edits
  <2>5. CASE Fills(c)
    <3> DEFINE h == Handler("join", "ready", call[c].user, call[c].seen,
                            call[c].closes, call[c].time, call[c].rows, call[c].fresh)
    <3>1. h.seen = call[c].seen /\ h.closes = {} /\ h.step = "ready" /\ h.time = call[c].time /\ Sets(c, h)
      BY <2>5, <2>j, HandlerColumns DEF Fills
    <3> HIDE DEF h
    <3>2. now' = now /\ UNCHANGED <<now, meeting, sessions>>
      BY <2>5 DEF Fills
    <3>3. \A d \in Calls : InTime(d)'
      BY <1>n, <2>s, <3>1, <3>2, InTimeNext
    <3> QED BY <2>k, <3>2, <3>3
  <2>6. ASSUME NEW closes, NEW t, Looks(c, closes, t)
        PROVE  Clock'
    <3> DEFINE h == Handler(call[c].job, "looked", call[c].user, call[c].seen,
                            closes, t, call[c].rows, call[c].fresh)
    <3>1. h.seen = call[c].seen /\ h.closes = closes /\ h.job = call[c].job /\ h.time = t /\ Sets(c, h)
      BY <2>6, HandlerColumns DEF Looks
    <3> HIDE DEF h
    <3>2. now' = now /\ UNCHANGED <<now, meeting, sessions>> /\ t <= now /\ (closes # {} => 1 <= t)
      BY <2>6 DEF Looks
    <3>3. call[c].job = "join" => 1 <= t
      BY <1>t, <2>6 DEF Looks, Clock
    <3>4. \A d \in Calls : InTime(d)'
      BY <2>s, <3>1, <3>2, <3>3, InTimeNext
    <3> QED BY <2>k, <3>2, <3>4
  <2>7. CASE Counts(c)
    <3> DEFINE h == Handler(call[c].job, "counted", call[c].user, call[c].seen,
                            call[c].closes, call[c].time, SyncRows(c), NewRows(c))
    <3>1. /\ h.seen = call[c].seen /\ h.closes = call[c].closes /\ h.job = call[c].job
          /\ h.time = call[c].time /\ Sets(c, h) /\ call[c].step = "looked"
      BY <2>7, HandlerColumns DEF Counts
    <3> HIDE DEF h
    <3>2. now' = now /\ UNCHANGED <<now, meeting, sessions>>
      BY <2>7 DEF Counts
    <3>3. \A d \in Calls : InTime(d)'
      BY <2>i, <2>s, <3>1, <3>2, InTimeNext DEF InTime, InTransaction
    <3> QED BY <2>k, <3>2, <3>3
  <2>8. ASSUME NEW h, Writes(c, h)
        PROVE  Clock'
    <3>1. h.seen \in {Unborn, call[c].seen} /\ h.closes = {} /\ h.step = "ready" /\ h.time = None
      BY <2>8, IdleColumns, HandlerColumns DEF Writes, Fresh
    <3>2. h.seen.start <= now /\ h.seen.end <= now
      BY <1>n, <2>s, <3>1 DEF Unborn
    <3>3. Sets(c, h) /\ now' = now /\ meeting' = meeting /\ sessions' = Visible(c)
      BY <2>8 DEF Writes
    <3>4. \A d \in Calls : InTime(d)'
      BY <1>n, <3>1, <3>2, <3>3, InTimeNext
    <3>5. ASSUME NEW i \in DOMAIN Visible(c)
          PROVE  /\ 1 <= Visible(c)[i].joined /\ Visible(c)[i].joined <= now
                 /\ Visible(c)[i].left <= now
      <4>1. CASE i \in DOMAIN sessions
        <5>1. /\ Visible(c)[i].joined = sessions[i].joined
              /\ Visible(c)[i].left \in {call[c].time, sessions[i].left}
          BY <1>t, <4>1, VisibleIs
        <5> QED BY <1>t, <2>s, <4>1, <5>1 DEF Clock
      <4>2. CASE i \notin DOMAIN sessions
        <5>1. /\ call[c].job = "join" /\ Visible(c)[i].joined = call[c].time
              /\ Visible(c)[i].left = None
          BY <1>t, <4>2, VisibleNew
        <5>2. 1 <= call[c].time
          BY <2>i, <2>8, <5>1 DEF InTime, InTransaction, Writes
        <5> QED BY <1>n, <2>s, <5>1, <5>2
      <4> QED BY <4>1, <4>2
    <3>6. \A i \in DOMAIN sessions' :
            1 <= sessions'[i].joined /\ sessions'[i].joined <= now' /\ sessions'[i].left <= now'
      BY <3>3, <3>5
    <3>7. 1 <= now' /\ meeting'.start <= now' /\ meeting'.end <= now'
      BY <1>t, <3>3 DEF Clock
    <3> QED BY <3>4, <3>6, <3>7 DEF Clock
  <2>9. CASE Drops(c)
    <3>1. \A d \in Calls : InTime(d)'
      BY <2>9, <2>d DEF Drops
    <3> QED BY <2>k, <2>9, <3>1 DEF Drops
  <2> QED BY <1>3, <2>1, <2>2, <2>3, <2>4, <2>5, <2>6, <2>7, <2>8, <2>9 DEF StepOf
<1> QED BY <1>0, <1>1, <1>2, <1>3

LEMMA LocksKept ==
  ASSUME Base, NEW c \in Calls, NEW h, Sets(c, h),
         \A i \in Open(sessions) \ call[c].closes : i \in Open(sessions'),
         h.closes \subseteq Open(sessions'), h.closes \cap LockedFor(c) = {},
         h.step \in {"ready", "looked", "counted"},
         h.step = "ready" => h.closes = {} /\ DOMAIN h.rows = {},
         h.step # "ready" =>
           /\ h.job \in Transactions
           /\ h.job \in {"left", "leave"} => h.closes # {}
           /\ h.job = "finalize" => h.seen.start # None /\ h.seen.end # None,
         h.job \in {"join", "history"} => h.closes = {}
  PROVE  Locks'
<1>1. call'[c] = h /\ \A d \in Calls : d # c => call'[d] = call[d]
  BY SetsIs DEF Base
<1>2. ASSUME NEW d \in Calls
      PROVE  Locking(d)'
  <2>1. CASE d = c
    BY <1>1, <2>1 DEF Locking, InTransaction, HasTimes
  <2>2. CASE d # c
    <3>1. Locking(d) /\ call'[d] = call[d] /\ call[c].closes \cap call[d].closes = {}
      BY <1>1, <2>2 DEF Base, Locks
    <3>2. call[d].closes \subseteq Open(sessions')
      BY <3>1 DEF Locking
    <3> QED BY <3>1, <3>2 DEF Locking, InTransaction, HasTimes
  <2> QED BY <2>1, <2>2
<1>3. ASSUME NEW d \in Calls, NEW e \in Calls, d # e
      PROVE  call'[d].closes \cap call'[e].closes = {}
  <2>1. \A b \in Calls : b # c => h.closes \cap call[b].closes = {}
    BY DEF LockedFor
  <2>2. call[d].closes \cap call[e].closes = {}
    BY <1>3 DEF Base, Locks
  <2> QED BY <1>1, <1>3, <2>1, <2>2
<1> QED BY <1>2, <1>3 DEF Locks

LEMMA LocksNext ==
  ASSUME Base, Next
  PROVE  Locks'
<1>t. Types /\ Clock /\ Locks
  BY DEF Base
<1>n. DOMAIN NoRows = {}
  BY DEF NoRows
<1>0. Schedule \/ Tick \/ \E c \in Calls : StepOf(c)
  BY Steps
<1>1. CASE Schedule \/ Tick
  <2>1. UNCHANGED <<sessions, call>>
    BY <1>1 DEF Schedule, Tick
  <2> QED BY <1>t, <2>1 DEF Locks, Locking, InTransaction, HasTimes
<1>3. ASSUME NEW c \in Calls, StepOf(c)
      PROVE  Locks'
  <2>c. Locking(c) /\ call[c].step \in {"ready", "looked", "counted"}
    BY <1>t, CallTypes DEF Locks
  <2>l. call[c].closes \cap LockedFor(c) = {}
    BY <1>t DEF Locks, LockedFor
  <2>r. call[c].step = "ready" => call[c].closes = {} /\ DOMAIN call[c].rows = {}
    BY <2>c DEF Locking, InTransaction
  <2>f. ASSUME NEW h, Sets(c, h), h.step = "ready", h.closes = {}, DOMAIN h.rows = {},
               UNCHANGED sessions
        PROVE  Locks'
    BY <2>f, LocksKept
  <2>1. ASSUME NEW job \in Jobs, NEW u \in Users, Reads(c, job, u)
        PROVE  Locks'
    <3> DEFINE h == Fresh(job, u, meeting)
    <3>1. h.step = "ready" /\ h.closes = {} /\ h.rows = NoRows
      BY HandlerColumns DEF Fresh
    <3> HIDE DEF h
    <3> QED BY <1>n, <2>1, <2>f, <3>1 DEF Reads, h
  <2>2. CASE Founds(c)
    <3> DEFINE h == Fresh("initialize", Host, meeting')
    <3>1. h.step = "ready" /\ h.closes = {} /\ h.rows = NoRows
      BY HandlerColumns DEF Fresh
    <3> HIDE DEF h
    <3> QED BY <1>n, <2>2, <2>f, <3>1 DEF Founds, h
  <2>3. CASE Starts(c) \/ Ends(c) \/ Fills(c)
    <3>1. PICK job, m :
            Sets(c, Handler(job, "ready", call[c].user, m, call[c].closes, call[c].time,
                            call[c].rows, call[c].fresh))
      BY <2>3 DEF Starts, Ends, Fills
    <3> DEFINE h == Handler(job, "ready", call[c].user, m, call[c].closes, call[c].time,
                            call[c].rows, call[c].fresh)
    <3>2. h.step = "ready" /\ h.closes = call[c].closes /\ h.rows = call[c].rows /\ Sets(c, h)
      BY <3>1, HandlerColumns
    <3> HIDE DEF h
    <3>3. call[c].closes = {} /\ DOMAIN call[c].rows = {} /\ UNCHANGED sessions
      BY <2>3, <2>r DEF Starts, Ends, Fills
    <3> QED BY <2>f, <3>2, <3>3
  <2>4. CASE Edits(c) \/ Drops(c)
    BY <1>n, <2>4, <2>f, IdleColumns DEF Edits, Drops
  <2>5. ASSUME NEW closes, NEW t, Looks(c, closes, t)
        PROVE  Locks'
    <3> DEFINE h == Handler(call[c].job, "looked", call[c].user, call[c].seen,
                            closes, t, call[c].rows, call[c].fresh)
    <3>1. /\ h.step = "looked" /\ h.closes = closes /\ h.job = call[c].job /\ h.seen = call[c].seen
          /\ Sets(c, h)
      BY <2>5, HandlerColumns DEF Looks
    <3> HIDE DEF h
    <3>2. UNCHANGED sessions /\ closes \subseteq Open(sessions) /\ closes \cap LockedFor(c) = {}
      BY <2>5 DEF Looks
    <3>3. /\ call[c].job \in Transactions
          /\ call[c].job \in {"left", "leave"} => closes # {}
          /\ call[c].job = "finalize" => call[c].seen.start # None /\ call[c].seen.end # None
          /\ call[c].job \in {"join", "history"} => closes = {}
      BY <2>5 DEF Looks, HasTimes
    <3> QED BY <3>1, <3>2, <3>3, LocksKept
  <2>6. CASE Counts(c)
    <3> DEFINE h == Handler(call[c].job, "counted", call[c].user, call[c].seen,
                            call[c].closes, call[c].time, SyncRows(c), NewRows(c))
    <3>1. /\ h.step = "counted" /\ h.closes = call[c].closes /\ h.job = call[c].job
          /\ h.seen = call[c].seen /\ Sets(c, h) /\ call[c].step = "looked"
      BY <2>6, HandlerColumns DEF Counts
    <3> HIDE DEF h
    <3>2. UNCHANGED sessions
      BY <2>6 DEF Counts
    <3> QED BY <2>c, <2>l, <3>1, <3>2, LocksKept DEF Locking, InTransaction, HasTimes
  <2>7. ASSUME NEW h, Writes(c, h)
        PROVE  Locks'
    <3>1. h.closes = {} /\ h.step = "ready" /\ DOMAIN h.rows = {} /\ Sets(c, h)
      BY <1>n, <2>7, IdleColumns, HandlerColumns DEF Writes, Fresh
    <3>2. \A i \in Open(sessions) \ call[c].closes : i \in Open(Visible(c))
      BY <1>t, VisibleIs DEF Open
    <3>3. sessions' = Visible(c)
      BY <2>7 DEF Writes
    <3>4. \A i \in Open(sessions) \ call[c].closes : i \in Open(sessions')
      BY <3>2, <3>3, Zenon
    <3> QED BY <3>1, <3>4, LocksKept
  <2> QED BY <1>3, <2>1, <2>2, <2>3, <2>4, <2>5, <2>6, <2>7 DEF StepOf
<1> QED BY <1>0, <1>1, <1>3

LEMMA BaseInit ==
  ASSUME Init
  PROVE  Base
<1>n. 1 \in Nat /\ DOMAIN NoRows = {} /\ None = 0
  BY DEF NoRows, None
<1>c. \A c \in Calls : call[c] = Idle
  BY DEF Init
<1>1. Types
  <2>1. sessions \in Seq(Session) /\ meeting \in MeetingRow /\ now \in Times
    BY UnbornType, TimesNat DEF Init
  <2>2. call \in [Calls -> Handlers] /\ attendance \in [Users -> Row]
    BY IdleColumns, RowTypes DEF Init
  <2> QED BY <2>1, <2>2 DEF Init, Types
<1>2. Clock
  <2>1. meeting.start = None /\ meeting.end = None /\ now = 1 /\ DOMAIN sessions = {}
    BY DEF Init, Unborn
  <2>2. Unborn.start = None /\ Unborn.end = None
    BY DEF Unborn
  <2>3. \A c \in Calls : InTime(c)
    BY <1>n, <1>c, <2>1, <2>2, IdleColumns DEF InTime
  <2> QED BY <1>n, <2>1, <2>3 DEF Clock
<1>3. Locks
  BY <1>n, <1>c, IdleColumns DEF Locks, Locking, InTransaction
<1> QED BY <1>1, <1>2, <1>3 DEF Base

LEMMA BaseStutter ==
  ASSUME Base, UNCHANGED vars
  PROVE  Base'
BY DEF Base, vars, Types, Clock, InTime, Locks, Locking, InTransaction, HasTimes

THEOREM BaseHolds == Spec => []Base
<1>1. Base /\ Next => Base'
  BY TypesNext, ClockNext, LocksNext DEF Base
<1>2. Base /\ [Next]_vars => Base'
  BY <1>1, BaseStutter
<1> QED BY <1>2, BaseInit, PTL DEF Spec

LEMMA BaseTypes ==
  ASSUME Base
  PROVE  TypeOK
<1>1. now \in Times /\ meeting \in [status : Statuses \cup {"none"}, start : Times, end : Times]
      /\ attendance \in [Users -> Row] /\ mishaps \subseteq Mishaps
  BY DEF Base, Types, MeetingRow
<1>2. \A i \in DOMAIN sessions : sessions[i] \in [user : Users, joined : Times, left : Times]
  <2>1. \A i \in DOMAIN sessions : sessions[i] \in Session
    BY NumbersAre DEF Base
  <2> QED BY <2>1 DEF Session
<1>3. ASSUME NEW c \in Calls
      PROVE  /\ call[c].step \in {"ready", "looked", "counted"}
             /\ call[c].job \in Jobs \cup {"none", "initialize", "finalize"}
             /\ call[c].closes \subseteq Open(sessions)
             /\ \A u \in DOMAIN call[c].rows : call[c].rows[u] \in Row
  <2>1. call[c].rows \in RowMaps /\ call[c].step \in {"ready", "looked", "counted"} /\ call[c].job \in JobSet
    BY CallTypes DEF Base
  <2>2. call[c].closes \subseteq Open(sessions)
    BY DEF Base, Locks, Locking
  <2> QED BY <2>1, <2>2, RowMap DEF JobSet
<1> QED BY <1>1, <1>2, <1>3 DEF TypeOK

\* Every row, handler and time of a meeting keeps its type, and no duration is
\* negative, for any members and any number of overlapping handlers.
THEOREM TypeCorrect == Spec => []TypeOK
BY BaseHolds, BaseTypes, PTL

-----------------------------------------------------------------------------
(* What all steps of a handler have in common. *)

LEMMA StepGrows ==
  ASSUME Base, NEW c \in Calls, StepOf(c)
  PROVE  mishaps \subseteq mishaps'
  BY DEF StepOf, Reads, Founds, Starts, Ends, Edits, Fills, Looks, Counts, Writes, Drops, Unlike, Crossing

LEMMA StepOthers ==
  ASSUME Base, NEW c \in Calls, StepOf(c)
  PROVE  \A d \in Calls : d # c => call'[d] = call[d]
<1>1. \E h : Sets(c, h)
  BY DEF StepOf, Reads, Founds, Starts, Ends, Edits, Fills, Looks, Counts, Writes, Drops
<1> QED BY <1>1, SetsIs DEF Base

\* The columns of the handler that takes a step, kind by kind.
LEMMA StepColumns ==
  ASSUME Base, NEW c \in Calls
  PROVE  /\ \A job, u : Reads(c, job, u) =>
              call'[c].job = job /\ call'[c].step = "ready" /\ call'[c].seen = meeting /\ call'[c].rows = NoRows
         /\ Founds(c) => /\ call'[c].job = "initialize" /\ call'[c].step = "ready"
                         /\ call'[c].seen = meeting' /\ call'[c].rows = NoRows
         /\ Starts(c) => /\ call'[c].job = "initialize" /\ call'[c].step = "ready"
                         /\ call'[c].seen = Meets("ongoing", now, call[c].seen.end)
                         /\ call'[c].rows = call[c].rows
         /\ Ends(c) => /\ call'[c].job = "finalize" /\ call'[c].step = "ready"
                       /\ call'[c].seen = Meets("ended", call[c].seen.start, now)
                       /\ call'[c].rows = call[c].rows
         /\ Fills(c) => /\ call'[c].job = "join" /\ call'[c].step = "ready"
                        /\ call'[c].seen = call[c].seen /\ call'[c].rows = call[c].rows
         /\ \A closes, t : Looks(c, closes, t) =>
              /\ call'[c].job = call[c].job /\ call'[c].step = "looked" /\ call'[c].user = call[c].user
              /\ call'[c].seen = call[c].seen /\ call'[c].closes = closes /\ call'[c].time = t
              /\ call'[c].rows = call[c].rows
         /\ Counts(c) =>
              /\ call'[c].job = call[c].job /\ call'[c].step = "counted" /\ call'[c].user = call[c].user
              /\ call'[c].seen = call[c].seen /\ call'[c].closes = call[c].closes
              /\ call'[c].time = call[c].time /\ call'[c].rows = SyncRows(c)
         /\ \A h : Writes(c, h) =>
              /\ call'[c].step = "ready" /\ call'[c].rows = NoRows
              /\ \/ call'[c] = Idle
                 \/ /\ call[c].job = "left" /\ call[c].seen.status = "ended"
                    /\ call'[c].job = "finalize" /\ call'[c].seen = call[c].seen
         /\ Edits(c) \/ Drops(c) => call'[c] = Idle
<1>1. ASSUME NEW h, Sets(c, h)
      PROVE  call'[c] = h
  BY <1>1, SetsIs DEF Base
<1>2. \A job, u, m : LET h == Fresh(job, u, m)
                     IN h.job = job /\ h.step = "ready" /\ h.seen = m /\ h.rows = NoRows
  BY HandlerColumns DEF Fresh
<1>3. ASSUME NEW job, NEW u, Reads(c, job, u)
      PROVE  call'[c].job = job /\ call'[c].step = "ready" /\ call'[c].seen = meeting /\ call'[c].rows = NoRows
  <2>1. call'[c] = Fresh(job, u, meeting)
    BY <1>1, <1>3 DEF Reads
  <2> QED BY <1>2, <2>1
<1>4. ASSUME Founds(c)
      PROVE  /\ call'[c].job = "initialize" /\ call'[c].step = "ready"
             /\ call'[c].seen = meeting' /\ call'[c].rows = NoRows
  <2>1. call'[c] = Fresh("initialize", Host, meeting')
    BY <1>1, <1>4 DEF Founds
  <2> QED BY <1>2, <2>1
<1>5. ASSUME Starts(c)
      PROVE  /\ call'[c].job = "initialize" /\ call'[c].step = "ready"
             /\ call'[c].seen = Meets("ongoing", now, call[c].seen.end)
             /\ call'[c].rows = call[c].rows
  <2>1. call'[c] = Handler("initialize", "ready", call[c].user, Meets("ongoing", now, call[c].seen.end),
                     call[c].closes, call[c].time, call[c].rows, call[c].fresh)
    BY <1>1, <1>5 DEF Starts
  <2> QED BY <2>1, HandlerColumns
<1>6. ASSUME Ends(c)
      PROVE  /\ call'[c].job = "finalize" /\ call'[c].step = "ready"
             /\ call'[c].seen = Meets("ended", call[c].seen.start, now)
             /\ call'[c].rows = call[c].rows
  <2>1. call'[c] = Handler("finalize", "ready", call[c].user, Meets("ended", call[c].seen.start, now),
                     call[c].closes, call[c].time, call[c].rows, call[c].fresh)
    BY <1>1, <1>6 DEF Ends
  <2> QED BY <2>1, HandlerColumns
<1>7. ASSUME Fills(c)
      PROVE  /\ call'[c].job = "join" /\ call'[c].step = "ready"
             /\ call'[c].seen = call[c].seen /\ call'[c].rows = call[c].rows
  <2>1. call'[c] = Handler("join", "ready", call[c].user, call[c].seen,
                     call[c].closes, call[c].time, call[c].rows, call[c].fresh)
    BY <1>1, <1>7 DEF Fills
  <2> QED BY <2>1, HandlerColumns
<1>8. ASSUME NEW closes, NEW t, Looks(c, closes, t)
      PROVE  /\ call'[c].job = call[c].job /\ call'[c].step = "looked" /\ call'[c].user = call[c].user
             /\ call'[c].seen = call[c].seen /\ call'[c].closes = closes /\ call'[c].time = t
             /\ call'[c].rows = call[c].rows
  <2>1. call'[c] = Handler(call[c].job, "looked", call[c].user, call[c].seen,
                     closes, t, call[c].rows, call[c].fresh)
    BY <1>1, <1>8 DEF Looks
  <2> QED BY <2>1, HandlerColumns
<1>9. ASSUME Counts(c)
      PROVE  /\ call'[c].job = call[c].job /\ call'[c].step = "counted" /\ call'[c].user = call[c].user
             /\ call'[c].seen = call[c].seen /\ call'[c].closes = call[c].closes
             /\ call'[c].time = call[c].time /\ call'[c].rows = SyncRows(c)
  <2>1. call'[c] = Handler(call[c].job, "counted", call[c].user, call[c].seen,
                     call[c].closes, call[c].time, SyncRows(c), NewRows(c))
    BY <1>1, <1>9 DEF Counts
  <2> QED BY <2>1, HandlerColumns
<1>10. ASSUME NEW h, Writes(c, h)
       PROVE  /\ call'[c].step = "ready" /\ call'[c].rows = NoRows
              /\ \/ call'[c] = Idle
                 \/ /\ call[c].job = "left" /\ call[c].seen.status = "ended"
                    /\ call'[c].job = "finalize" /\ call'[c].seen = call[c].seen
  <2>1. /\ call'[c] = h
        /\ \/ h = Idle
           \/ /\ call[c].job = "left" /\ call[c].seen.status = "ended"
              /\ h = Fresh("finalize", call[c].user, call[c].seen)
    BY <1>1, <1>10 DEF Writes
  <2> QED BY <1>2, <2>1, IdleColumns
<1>11. Edits(c) \/ Drops(c) => call'[c] = Idle
  BY <1>1 DEF Edits, Drops
<1> QED BY <1>3, <1>4, <1>5, <1>6, <1>7, <1>8, <1>9, <1>10, <1>11

-----------------------------------------------------------------------------
(* The image a handler has read allows its job. *)

Begun == {"ongoing", "ended"}

Imaged(h) ==
  /\ h.job \in {"end", "initialize", "join", "left", "history", "finalize"} => h.seen.status \in Begun
  /\ h.job = "start" => h.seen.status = "scheduled"
  /\ h.job = "end" => h.seen.status = "ongoing"
  /\ h.job = "finalize" => h.seen.status = "ended"

Images == \A c \in Calls : Imaged(call[c])

LEMMA ImagesNext ==
  ASSUME Base, Images, Next
  PROVE  Images'
<1>0. Schedule \/ Tick \/ \E c \in Calls : StepOf(c)
  BY Steps
<1>i. Imaged(Idle)
  BY IdleColumns DEF Imaged
<1>1. CASE Schedule \/ Tick
  BY <1>1 DEF Schedule, Tick, Images
<1>2. ASSUME NEW c \in Calls, StepOf(c)
      PROVE  Images'
  <2>1. \A d \in Calls : d # c => call'[d] = call[d]
    BY <1>2, StepOthers
  <2>c. Imaged(call[c])
    BY DEF Images
  <2>2. Imaged(call'[c])
    <3>1. ASSUME NEW job \in Jobs, NEW u \in Users, Reads(c, job, u)
          PROVE  Imaged(call'[c])
      <4>1. call'[c].job = job /\ call'[c].seen = meeting /\ meeting.status \in Allowed(job)
        BY <3>1, StepColumns DEF Reads
      <4> QED BY <4>1 DEF Imaged, Allowed, Jobs, Begun
    <3>2. CASE Founds(c)
      BY <3>2, StepColumns, MeetsOf DEF Founds, Imaged, Begun
    <3>3. CASE Starts(c)
      BY <3>3, StepColumns, MeetsOf DEF Imaged, Begun
    <3>4. CASE Ends(c)
      BY <3>4, StepColumns, MeetsOf DEF Imaged, Begun
    <3>5. CASE Fills(c)
      BY <2>c, <3>5, StepColumns DEF Fills, Imaged, Begun
    <3>6. CASE Edits(c) \/ Drops(c)
      BY <1>i, <3>6, StepColumns
    <3>7. ASSUME NEW closes, NEW t, Looks(c, closes, t)
          PROVE  Imaged(call'[c])
      BY <2>c, <3>7, StepColumns DEF Imaged
    <3>8. CASE Counts(c)
      BY <2>c, <3>8, StepColumns DEF Imaged
    <3>9. ASSUME NEW h, Writes(c, h)
          PROVE  Imaged(call'[c])
      BY <1>i, <3>9, StepColumns DEF Imaged, Begun
    <3> QED BY <1>2, <3>1, <3>2, <3>3, <3>4, <3>5, <3>6, <3>7, <3>8, <3>9 DEF StepOf
  <2> QED BY <2>1, <2>2 DEF Images
<1> QED BY <1>0, <1>1, <1>2

-----------------------------------------------------------------------------
(* Until the first stale save, the meeting's times go with its status.     *)

\* What a handler's image shares with the meeting.
Seen(h) ==
  /\ h.seen.start \in {None, meeting.start}
  /\ h.seen.end \in {None, meeting.end}
  /\ h.seen.status \in Begun => meeting.status \in Begun /\ h.seen.start # None
  /\ h.seen.status = "ended" => meeting.status = "ended" /\ h.seen.end # None

Timed ==
  /\ meeting.status = "none" => meeting = Unborn
  /\ meeting.start = None <=> meeting.status \notin Begun
  /\ meeting.end = None <=> meeting.status # "ended"
  /\ meeting.status \notin Begun => DOMAIN sessions = {}
  /\ \A c \in Calls : Seen(call[c])

TimedInv == "stale" \notin mishaps => Timed

\* Before a meeting has begun no transaction runs.
LEMMA NobodyBefore ==
  ASSUME Base, Images, Timed, meeting.status \notin Begun, NEW c \in Calls
  PROVE  call[c].step = "ready" /\ DOMAIN call[c].rows = {}
<1>1. Locking(c) /\ Imaged(call[c]) /\ Seen(call[c]) /\ call[c].step \in {"ready", "looked", "counted"}
  BY CallTypes DEF Base, Locks, Images, Timed
<1>2. call[c].closes = {}
  BY <1>1, OpenIn DEF Timed, Locking
<1> QED BY <1>1, <1>2 DEF Locking, Imaged, Seen, InTransaction, Transactions

LEMMA TimedInit ==
  ASSUME Init
  PROVE  TimedInv
<1>1. \A c \in Calls : call[c] = Idle
  BY DEF Init
<1>2. Unborn.status = "none" /\ Unborn.start = None /\ Unborn.end = None
  BY DEF Unborn
<1>3. meeting = Unborn /\ DOMAIN sessions = {}
  BY DEF Init
<1> QED BY <1>1, <1>2, <1>3, IdleColumns DEF TimedInv, Timed, Seen, Begun

LEMMA TimedNext ==
  ASSUME Base, Images, TimedInv, Next
  PROVE  TimedInv'
<1> SUFFICES ASSUME "stale" \notin mishaps'
             PROVE  Timed'
  BY DEF TimedInv
<1>0. Schedule \/ Tick \/ \E c \in Calls : StepOf(c)
  BY Steps
<1>u. Unborn.status = "none" /\ Unborn.start = None /\ Unborn.end = None /\ Seen(Idle)
  BY IdleColumns DEF Unborn, Seen, Begun
<1>n. now # None
  <2>1. now \in Nat /\ 1 <= now
    BY NumbersAre DEF Base, Clock
  <2> QED BY <2>1 DEF None
<1>1. CASE Schedule
  <2>1. Timed
    BY <1>1 DEF Schedule, TimedInv
  <2>2. meeting' = Meets("scheduled", None, None) /\ meeting = Unborn /\ UNCHANGED <<sessions, call>>
    BY <1>1 DEF Schedule, Unborn, Meets
  <2>3. meeting'.status = "scheduled" /\ meeting'.start = None /\ meeting'.end = None
    BY <2>2, MeetsOf
  <2> QED BY <1>u, <2>1, <2>2, <2>3 DEF Timed, Seen, Begun
<1>2. CASE Tick
  <2>1. Timed /\ UNCHANGED <<meeting, sessions, call>>
    BY <1>2 DEF Tick, TimedInv
  <2> QED BY <2>1 DEF Timed, Seen
<1>3. ASSUME NEW c \in Calls, StepOf(c)
      PROVE  Timed'
  <2>t. Timed /\ Seen(call[c]) /\ Imaged(call[c])
    BY <1>3, StepGrows DEF TimedInv, Timed, Images
  <2>o. \A d \in Calls : d # c => call'[d] = call[d]
    BY <1>3, StepOthers
  <2>s. ASSUME UNCHANGED <<meeting, sessions>>, Seen(call'[c])
        PROVE  Timed'
    <3>1. \A d \in Calls : Seen(call'[d])
      BY <2>t, <2>o, <2>s DEF Timed
    <3> QED BY <2>t, <2>s, <3>1 DEF Timed, Seen
  <2>1. ASSUME NEW job \in Jobs, NEW u \in Users, Reads(c, job, u)
        PROVE  Timed'
    <3>1. UNCHANGED <<meeting, sessions>> /\ call'[c].seen = meeting
      BY <2>1, StepColumns DEF Reads
    <3> QED BY <2>t, <2>s, <3>1 DEF Timed, Seen
  <2>2. CASE Founds(c)
    <3>1. meeting = Unborn /\ DOMAIN sessions = {} /\ UNCHANGED sessions
      BY <1>u, <2>t, <2>2 DEF Founds, Timed, Begun
    <3>2. meeting'.status = "ongoing" /\ meeting'.start = now /\ meeting'.end = None
      BY <2>2, MeetsOf DEF Founds
    <3>3. call'[c].seen = meeting'
      BY <2>2, StepColumns
    <3>4. ASSUME NEW d \in Calls
          PROVE  Seen(call[d])'
      <4>1. CASE d = c
        BY <1>n, <3>2, <3>3, <4>1 DEF Seen, Begun
      <4>2. CASE d # c
        <5>1. call'[d] = call[d] /\ Seen(call[d])
          BY <2>t, <2>o, <4>2 DEF Timed
        <5> QED BY <1>u, <3>1, <3>2, <5>1 DEF Seen, Begun
      <4> QED BY <4>1, <4>2
    <3> QED BY <1>n, <3>1, <3>2, <3>4 DEF Timed, Begun
  <2>3. CASE Starts(c)
    <3>1. meeting = call[c].seen /\ meeting.status = "scheduled"
      BY <2>t, <2>3 DEF Starts, Unlike, Imaged
    <3>2. meeting'.status = "ongoing" /\ meeting'.start = now /\ meeting'.end = meeting.end
      BY <2>3, MeetsOf DEF Starts
    <3>3. /\ call'[c].seen.status = "ongoing" /\ call'[c].seen.start = now
          /\ call'[c].seen.end = call[c].seen.end
      BY <2>3, StepColumns, MeetsOf
    <3>4. ASSUME NEW d \in Calls
          PROVE  Seen(call[d])'
      <4>1. CASE d = c
        BY <1>n, <2>t, <3>1, <3>2, <3>3, <4>1 DEF Seen, Begun
      <4>2. CASE d # c
        <5>1. call'[d] = call[d] /\ Seen(call[d])
          BY <2>t, <2>o, <4>2 DEF Timed
        <5> QED BY <2>t, <3>1, <3>2, <5>1 DEF Timed, Seen, Begun
      <4> QED BY <4>1, <4>2
    <3> QED BY <1>n, <2>t, <3>1, <3>2, <3>4 DEF Timed, Begun
  <2>4. CASE Ends(c)
    <3>1. meeting = call[c].seen /\ meeting.status = "ongoing"
      BY <2>t, <2>4 DEF Ends, Unlike, Imaged
    <3>2. meeting'.status = "ended" /\ meeting'.start = meeting.start /\ meeting'.end = now
      BY <2>4, MeetsOf DEF Ends
    <3>3. /\ call'[c].seen.status = "ended" /\ call'[c].seen.start = call[c].seen.start
          /\ call'[c].seen.end = now
      BY <2>4, StepColumns, MeetsOf
    <3>4. ASSUME NEW d \in Calls
          PROVE  Seen(call[d])'
      <4>1. CASE d = c
        BY <1>n, <2>t, <3>1, <3>2, <3>3, <4>1 DEF Seen, Begun
      <4>2. CASE d # c
        <5>1. call'[d] = call[d] /\ Seen(call[d])
          BY <2>t, <2>o, <4>2 DEF Timed
        <5> QED BY <2>t, <3>1, <3>2, <5>1 DEF Timed, Seen, Begun
      <4> QED BY <4>1, <4>2
    <3> QED BY <1>n, <2>t, <3>1, <3>2, <3>4 DEF Timed, Begun
  <2>5. CASE Edits(c)
    <3>1. UNCHANGED <<meeting, sessions>>
      BY <2>5 DEF Edits, Unlike
    <3>2. call'[c] = Idle
      BY <2>5, StepColumns
    <3> QED BY <1>u, <2>s, <3>1, <3>2
  <2>6. CASE Fills(c) \/ Counts(c) \/ \E closes, t : Looks(c, closes, t)
    <3>1. UNCHANGED <<meeting, sessions>> /\ call'[c].seen = call[c].seen
      BY <2>6, StepColumns DEF Fills, Looks, Counts
    <3> QED BY <2>t, <2>s, <3>1 DEF Seen
  <2>7. CASE Drops(c)
    <3>1. UNCHANGED <<meeting, sessions>> /\ call'[c] = Idle
      BY <2>7, StepColumns DEF Drops
    <3> QED BY <1>u, <2>s, <3>1
  <2>8. ASSUME NEW h, Writes(c, h)
        PROVE  Timed'
    <3>1. UNCHANGED meeting /\ call[c].step = "counted"
      BY <2>8 DEF Writes
    <3>2. meeting.status \in Begun
      BY <2>t, <3>1, NobodyBefore
    <3>3. call'[c] = Idle \/ call'[c].seen = call[c].seen
      BY <2>8, StepColumns
    <3>4. \A d \in Calls : Seen(call'[d])
      BY <1>u, <2>t, <2>o, <3>3 DEF Timed, Seen
    <3> QED BY <2>t, <3>1, <3>2, <3>4 DEF Timed, Seen
  <2> QED BY <1>3, <2>1, <2>2, <2>3, <2>4, <2>5, <2>6, <2>7, <2>8 DEF StepOf
<1> QED BY <1>0, <1>1, <1>2, <1>3

-----------------------------------------------------------------------------
(* Only those who came are marked present. *)

RowOf(row, came) ==
  /\ row.status = "present" => came
  /\ row.status # "present" => row.duration = 0

Joining(h, u) == h.job = "join" /\ h.user = u

Present ==
  /\ \A u \in Users : RowOf(attendance[u], Came(u))
  /\ \A c \in Calls : \A u \in DOMAIN call[c].rows :
       RowOf(call[c].rows[u], Came(u) \/ Joining(call[c], u))

LEMMA CameIs == \A u : Came(u) <=> Of(sessions, u) # {}
  BY DEF Came, Of

\* Whom the transaction of c sees.
LEMMA VisibleOf ==
  ASSUME Types, NEW c \in Calls, NEW u
  PROVE  Of(Visible(c), u) # {} <=> Came(u) \/ Joining(call[c], u)
<1>1. ASSUME Of(Visible(c), u) # {}
      PROVE  Came(u) \/ Joining(call[c], u)
  <2>1. PICK i \in DOMAIN Visible(c) : Visible(c)[i].user = u
    BY <1>1 DEF Of
  <2>2. CASE i \in DOMAIN sessions
    <3>1. sessions[i].user = u
      BY <2>1, <2>2, VisibleIs
    <3> QED BY <2>2, <3>1 DEF Came
  <2>3. CASE i \notin DOMAIN sessions
    BY <2>1, <2>3, VisibleNew DEF Joining
  <2> QED BY <2>2, <2>3
<1>2. ASSUME Came(u)
      PROVE  Of(Visible(c), u) # {}
  <2>1. PICK i \in DOMAIN sessions : sessions[i].user = u
    BY <1>2 DEF Came
  <2>2. i \in DOMAIN Visible(c) /\ Visible(c)[i].user = u
    BY <2>1, VisibleIs
  <2> QED BY <2>2 DEF Of
<1>3. ASSUME Joining(call[c], u)
      PROVE  Of(Visible(c), u) # {}
  <2> DEFINE n == Len(sessions) + 1
  <2>1. /\ n \in DOMAIN Visible(c)
        /\ Visible(c)[n] = [user |-> call[c].user, joined |-> call[c].time, left |-> None]
    <3>1. DOMAIN Visible(c) = DOMAIN sessions \cup {n}
      BY <1>3, VisibleIs DEF Joining
    <3>2. Visible(c)[n] = [user |-> call[c].user, joined |-> call[c].time, left |-> None]
      BY <1>3, VisibleIs DEF Joining
    <3> QED BY <3>1, <3>2
  <2> HIDE DEF n
  <2> QED BY <1>3, <2>1 DEF Of, Joining
<1> QED BY <1>1, <1>2, <1>3

LEMMA PresentNext ==
  ASSUME Base, Present, Next
  PROVE  Present'
<1>t. Types
  BY DEF Base
<1>0. Schedule \/ Tick \/ \E c \in Calls : StepOf(c)
  BY Steps
<1>n. DOMAIN NoRows = {} /\ Idle.rows = NoRows
  BY IdleColumns DEF NoRows
<1>1. CASE Schedule \/ Tick
  <2>1. UNCHANGED <<attendance, sessions, call>>
    BY <1>1 DEF Schedule, Tick
  <2> QED BY <2>1 DEF Present, Came, Joining
<1>2. ASSUME NEW c \in Calls, StepOf(c)
      PROVE  Present'
  <2>o. \A d \in Calls : d # c => call'[d] = call[d]
    BY <1>2, StepOthers
  <2>s. ASSUME UNCHANGED <<attendance, sessions>>,
               \A u \in DOMAIN call'[c].rows : RowOf(call'[c].rows[u], Came(u) \/ Joining(call'[c], u))
        PROVE  Present'
    <3>1. \A u : Came(u)' <=> Came(u)
      BY <2>s DEF Came
    <3>2. ASSUME NEW d \in Calls, NEW u \in DOMAIN call'[d].rows
          PROVE  RowOf(call'[d].rows[u], Came(u) \/ Joining(call'[d], u))
      BY <2>o, <2>s, <3>2 DEF Present
    <3> QED BY <2>s, <3>1, <3>2 DEF Present, RowOf, Joining
  <2>r. call[c].step = "ready" => DOMAIN call[c].rows = {}
    BY DEF Base, Locks, Locking, InTransaction
  <2>1. ASSUME NEW job \in Jobs, NEW u \in Users, Reads(c, job, u)
        PROVE  Present'
    BY <1>n, <2>1, <2>s, StepColumns DEF Reads
  <2>2. CASE Founds(c) \/ Edits(c) \/ Drops(c)
    BY <1>n, <2>2, <2>s, StepColumns DEF Founds, Edits, Drops
  <2>3. CASE Starts(c) \/ Ends(c)
    <3>1. UNCHANGED <<attendance, sessions>> /\ call'[c].rows = call[c].rows /\ call[c].step = "ready"
      BY <2>3, StepColumns DEF Starts, Ends
    <3> QED BY <2>r, <2>s, <3>1
  <2>4. CASE Fills(c)
    <3>1. UNCHANGED sessions /\ call'[c].rows = call[c].rows /\ call[c].step = "ready"
      BY <2>4, StepColumns DEF Fills
    <3>2. \A u : Came(u)' <=> Came(u)
      BY <3>1 DEF Came
    <3>3. ASSUME NEW u \in Users
          PROVE  RowOf(attendance'[u], Came(u))
      <4>1. attendance'[u] \in {attendance[u], Absent}
        BY <2>4 DEF Fills
      <4> QED BY <4>1 DEF Present, RowOf, Absent
    <3>4. ASSUME NEW d \in Calls, NEW u \in DOMAIN call'[d].rows
          PROVE  RowOf(call'[d].rows[u], Came(u) \/ Joining(call'[d], u))
      BY <2>o, <2>r, <3>1, <3>4 DEF Present
    <3> QED BY <3>2, <3>3, <3>4 DEF Present, RowOf, Joining
  <2>5. ASSUME NEW closes, NEW t, Looks(c, closes, t)
        PROVE  Present'
    <3>1. UNCHANGED <<attendance, sessions>> /\ call'[c].rows = call[c].rows /\ call[c].step = "ready"
      BY <2>5, StepColumns DEF Looks
    <3> QED BY <2>r, <2>s, <3>1
  <2>6. CASE Counts(c)
    <3>1. /\ UNCHANGED <<attendance, sessions>> /\ call'[c].rows = SyncRows(c)
          /\ call'[c].job = call[c].job /\ call'[c].user = call[c].user
      BY <2>6, StepColumns DEF Counts
    <3>2. ASSUME NEW u \in DOMAIN SyncRows(c)
          PROVE  RowOf(SyncRows(c)[u], Came(u) \/ Joining(call[c], u))
      <4> DEFINE V == Visible(c)
                 r == RefOf(c)
      <4>1. u \in Users /\ SyncRows(c)[u] = SyncRow(V, u, r)
        BY <1>t, SyncRowsIs
      <4>2. V \in Seq(Session) /\ r \in Int
        BY <1>t, VisibleIs, RefIs, TimesInt
      <4>3. Of(V, u) # {} <=> Came(u) \/ Joining(call[c], u)
        BY <1>t, VisibleOf
      <4>4. RowOf(attendance[u], Came(u))
        BY <4>1 DEF Present
      <4> HIDE DEF V, r
      <4>5. CASE Of(V, u) # {}
        <5>1. SyncRow(V, u, r).status = "present"
          BY <1>t, <4>1, <4>2, <4>5, SyncRowType
        <5> QED BY <4>1, <4>3, <4>5, <5>1 DEF RowOf
      <4>6. CASE Of(V, u) = {}
        <5>1. SyncRow(V, u, r) \in {Absent, attendance[u]}
          BY <1>t, <4>1, <4>2, <4>6, SyncRowType
        <5> QED BY <4>1, <4>4, <5>1 DEF RowOf, Absent
      <4> QED BY <4>5, <4>6
    <3> QED BY <2>s, <3>1, <3>2 DEF Joining
  <2>7. ASSUME NEW h, Writes(c, h)
        PROVE  Present'
    <3>1. sessions' = Visible(c) /\ call'[c].rows = NoRows
      BY <2>7, StepColumns DEF Writes
    <3>2. \A u : Came(u)' <=> Came(u) \/ Joining(call[c], u)
      <4>1. \A u : Came(u)' <=> Of(sessions', u) # {}
        BY DEF Came, Of
      <4>2. \A u : Of(Visible(c), u) # {} <=> Came(u) \/ Joining(call[c], u)
        BY <1>t, VisibleOf
      <4> QED BY <3>1, <4>1, <4>2, Zenon
    <3>3. ASSUME NEW u \in Users
          PROVE  RowOf(attendance'[u], Came(u) \/ Joining(call[c], u))
      <4>1. attendance'[u] = IF u \in DOMAIN call[c].rows THEN call[c].rows[u] ELSE attendance[u]
        BY <2>7 DEF Writes
      <4> QED BY <4>1 DEF Present, RowOf
    <3>4. ASSUME NEW d \in Calls, NEW u \in DOMAIN call'[d].rows
          PROVE  RowOf(call'[d].rows[u], Came(u) \/ Joining(call'[d], u))
      BY <1>n, <2>o, <3>1, <3>4 DEF Present
    <3> QED BY <3>2, <3>3, <3>4 DEF Present, RowOf, Joining
  <2> QED BY <1>2, <2>1, <2>2, <2>3, <2>4, <2>5, <2>6, <2>7 DEF StepOf
<1> QED BY <1>0, <1>1, <1>2

-----------------------------------------------------------------------------
(* Transactions that do not overlap. *)

Alone ==
  /\ \A c, d \in Calls : InTransaction(c) /\ InTransaction(d) => c = d
  /\ \A u \in Users : \A i, j \in OpenOf(u) : i = j
  /\ \A c \in Calls :
       /\ InTransaction(c) /\ call[c].job = "join" => OpenOf(call[c].user) = {}
       /\ call[c].step = "counted" => call[c].rows = SyncRows(c)

AloneInv == "crossed" \notin mishaps => Alone

\* What sync reads: the sessions, the rows and its own handler.
LEMMA SyncReads ==
  ASSUME NEW c, UNCHANGED <<sessions, attendance>>,
         call'[c].job = call[c].job, call'[c].user = call[c].user, call'[c].seen = call[c].seen,
         call'[c].closes = call[c].closes, call'[c].time = call[c].time
  PROVE  SyncRows(c)' = SyncRows(c)
<1>1. sessions' = sessions /\ attendance' = attendance
  OBVIOUS
<1>2. Visible(c)' = Visible(c)
  BY <1>1, Zenon DEF Visible
<1>3. \A S : SyncTargets(c, S)' = SyncTargets(c, S)
  BY <1>1, Zenon DEF SyncTargets
<1>4. \A S, u, ref : SyncRow(S, u, ref)' = SyncRow(S, u, ref)
  BY <1>1, Zenon DEF SyncRow
<1> QED BY <1>2, <1>3, <1>4, Zenon DEF SyncRows

\* After a step that begins or ends no transaction and changes neither sessions nor rows.
LEMMA AloneKept ==
  ASSUME Base, Alone, NEW c \in Calls, UNCHANGED <<sessions, attendance>>,
         \A d \in Calls : d # c => call'[d] = call[d],
         \/ call'[c].step = "ready"
         \/ /\ call[c].step = "looked" /\ call'[c].step = "counted"
            /\ call'[c].job = call[c].job /\ call'[c].user = call[c].user
            /\ call'[c].seen = call[c].seen /\ call'[c].closes = call[c].closes
            /\ call'[c].time = call[c].time /\ call'[c].rows = SyncRows(c)
  PROVE  Alone'
<1>1. \A u : OpenOf(u)' = OpenOf(u)
  BY DEF OpenOf, Open
<1>2. \A d \in Calls : InTransaction(d)' => InTransaction(d)
  BY DEF InTransaction
<1>3. \A d, e \in Calls : InTransaction(d)' /\ InTransaction(e)' => d = e
  BY <1>2 DEF Alone
<1>4. ASSUME NEW d \in Calls
      PROVE  /\ InTransaction(d)' /\ call'[d].job = "join" => OpenOf(call'[d].user) = {}
             /\ call'[d].step = "counted" => call'[d].rows = SyncRows(d)'
  <2>1. CASE d = c /\ call'[c].step = "ready"
    BY <2>1 DEF InTransaction
  <2>2. CASE d = c /\ call'[c].step # "ready"
    <3>1. SyncRows(c)' = SyncRows(c)
      BY <2>2, SyncReads
    <3>2. InTransaction(c)
      BY <2>2 DEF InTransaction
    <3>3. InTransaction(c) /\ call[c].job = "join" => OpenOf(call[c].user) = {}
      BY DEF Alone
    <3> QED BY <2>2, <3>1, <3>2, <3>3
  <2>3. CASE d # c
    <3>1. call'[d] = call[d]
      BY <2>3
    <3>2. SyncRows(d)' = SyncRows(d)
      BY <3>1, SyncReads
    <3> QED BY <3>1, <3>2 DEF Alone, InTransaction
  <2> QED BY <2>1, <2>2, <2>3
<1> QED BY <1>1, <1>3, <1>4 DEF Alone

\* Whose open sessions a transaction leaves.
LEMMA VisibleOpen ==
  ASSUME Types, Alone, NEW c \in Calls, InTransaction(c), NEW u \in Users,
         NEW i \in DOMAIN Visible(c), Visible(c)[i].user = u, Visible(c)[i].left = None
  PROVE  \/ i \in OpenOf(u) /\ i \notin call[c].closes
         \/ Joining(call[c], u) /\ i = Len(sessions) + 1 /\ OpenOf(u) = {}
         \/ i \in DOMAIN sessions /\ i \in call[c].closes /\ call[c].time = None
<1>1. CASE i \in DOMAIN sessions
  <2>1. /\ Visible(c)[i].user = sessions[i].user
        /\ i \in call[c].closes => Visible(c)[i].left = call[c].time
        /\ i \notin call[c].closes => Visible(c)[i].left = sessions[i].left
    BY <1>1, VisibleIs
  <2> QED BY <1>1, <2>1 DEF OpenOf, Open
<1>2. CASE i \notin DOMAIN sessions
  <2>1. call[c].job = "join" /\ i = Len(sessions) + 1 /\ Visible(c)[i].user = call[c].user
    BY <1>2, VisibleNew
  <2> QED BY <2>1 DEF Alone, Joining
<1> QED BY <1>1, <1>2

LEMMA AloneNext ==
  ASSUME Base, AloneInv, Next
  PROVE  AloneInv'
<1> SUFFICES ASSUME "crossed" \notin mishaps'
             PROVE  Alone'
  BY DEF AloneInv
<1>t. Types
  BY DEF Base
<1>0. Schedule \/ Tick \/ \E c \in Calls : StepOf(c)
  BY Steps
<1>1. CASE Schedule \/ Tick
  <2>1. Alone /\ UNCHANGED <<attendance, sessions, call>>
    BY <1>1 DEF Schedule, Tick, AloneInv
  <2>2. \A c : SyncRows(c)' = SyncRows(c)
    BY <2>1, SyncReads
  <2>3. \A u : OpenOf(u)' = OpenOf(u)
    BY <2>1 DEF OpenOf, Open
  <2> QED BY <2>1, <2>2, <2>3 DEF Alone, InTransaction
<1>2. ASSUME NEW c \in Calls, StepOf(c)
      PROVE  Alone'
  <2>a. Alone
    BY <1>2, StepGrows DEF AloneInv
  <2>o. \A d \in Calls : d # c => call'[d] = call[d]
    BY <1>2, StepOthers
  <2>1. ASSUME NEW job \in Jobs, NEW u \in Users, Reads(c, job, u)
        PROVE  Alone'
    BY <2>a, <2>o, <2>1, StepColumns, AloneKept DEF Reads
  <2>2. CASE Founds(c) \/ Starts(c) \/ Ends(c)
    BY <2>a, <2>o, <2>2, StepColumns, AloneKept DEF Founds, Starts, Ends
  <2>3. CASE Edits(c) \/ Drops(c)
    BY <2>a, <2>o, <2>3, StepColumns, IdleColumns, AloneKept DEF Edits, Drops
  <2>4. CASE Fills(c)
    <3>1. \A d \in Calls \ {c} : ~InTransaction(d)
      BY <2>4 DEF Fills, Crossing
    <3>2. call'[c].step = "ready" /\ UNCHANGED sessions
      BY <2>4, StepColumns DEF Fills
    <3>3. \A d \in Calls : ~InTransaction(d)' /\ call'[d].step # "counted"
      BY <2>o, <3>1, <3>2 DEF InTransaction
    <3>4. \A u : OpenOf(u)' = OpenOf(u)
      BY <3>2 DEF OpenOf, Open
    <3> QED BY <2>a, <3>3, <3>4 DEF Alone
  <2>5. ASSUME NEW closes, NEW t, Looks(c, closes, t)
        PROVE  Alone'
    <3>1. \A d \in Calls \ {c} : ~InTransaction(d)
      BY <2>5 DEF Looks, Crossing
    <3>2. /\ call'[c].step = "looked" /\ UNCHANGED sessions
          /\ call'[c].job = call[c].job /\ call'[c].user = call[c].user
          /\ call[c].job = "join" => OpenOf(call[c].user) = {}
      BY <2>5, StepColumns DEF Looks
    <3>3. \A d \in Calls : InTransaction(d)' => d = c
      BY <2>o, <3>1 DEF InTransaction
    <3>4. \A u : OpenOf(u)' = OpenOf(u)
      BY <3>2 DEF OpenOf, Open
    <3>5. \A d \in Calls : call'[d].step = "counted" => FALSE
      BY <2>o, <3>1, <3>2 DEF InTransaction
    <3> QED BY <2>a, <3>2, <3>3, <3>4, <3>5 DEF Alone
  <2>6. CASE Counts(c)
    BY <2>a, <2>o, <2>6, StepColumns, AloneKept DEF Counts
  <2>7. ASSUME NEW h, Writes(c, h)
        PROVE  Alone'
    <3>1. sessions' = Visible(c) /\ call'[c].step = "ready" /\ InTransaction(c)
      BY <2>7, StepColumns DEF Writes, InTransaction
    <3>2. \A d \in Calls : ~InTransaction(d)' /\ call'[d].step # "counted"
      BY <2>a, <2>o, <3>1 DEF Alone, InTransaction
    <3>3. call[c].closes # {} => call[c].time # None
      <4>1. call[c].closes # {} => 1 <= call[c].time
        BY DEF Base, Clock, InTime
      <4> QED BY <4>1 DEF None
    <3>4. ASSUME NEW u \in Users, NEW i \in DOMAIN Visible(c), NEW j \in DOMAIN Visible(c),
                 Visible(c)[i].user = u, Visible(c)[i].left = None,
                 Visible(c)[j].user = u, Visible(c)[j].left = None
          PROVE  i = j
      <4>1. \/ i \in OpenOf(u)
            \/ i = Len(sessions) + 1 /\ OpenOf(u) = {}
        BY <1>t, <2>a, <3>1, <3>3, <3>4, VisibleOpen
      <4>2. \/ j \in OpenOf(u)
            \/ j = Len(sessions) + 1 /\ OpenOf(u) = {}
        BY <1>t, <2>a, <3>1, <3>3, <3>4, VisibleOpen
      <4> QED BY <2>a, <4>1, <4>2 DEF Alone
    <3>5. \A u \in Users : \A i, j \in OpenOf(u)' : i = j
      <4>1. \A u : OpenOf(u)' = {i \in DOMAIN sessions' : sessions'[i].user = u /\ sessions'[i].left = None}
        BY DEF OpenOf, Open
      <4> QED BY <3>1, <3>4, <4>1
    <3> QED BY <3>2, <3>5 DEF Alone
  <2> QED BY <1>2, <2>1, <2>2, <2>3, <2>4, <2>5, <2>6, <2>7 DEF StepOf
<1> QED BY <1>0, <1>1, <1>2

-----------------------------------------------------------------------------
(* After the end of the meeting all sessions are closed, or a handler is about *)
(* to close them.                                                              *)

Finalizing(c) ==
  /\ call[c].job = "finalize" /\ HasTimes(c)
  /\ InTransaction(c) => Open(sessions) = call[c].closes

Closing == Open(sessions) = {} \/ \E c \in Calls : Finalizing(c)

ClosingInv == Without({"late", "cut", "stale"}) /\ meeting.status = "ended" => Closing

\* The open sessions a transaction that does not join leaves.
LEMMA VisibleCloses ==
  ASSUME Types, NEW c \in Calls, call[c].job # "join", call[c].closes # {} => call[c].time # None
  PROVE  Open(Visible(c)) = Open(sessions) \ call[c].closes
<1>1. DOMAIN Visible(c) = DOMAIN sessions
  BY VisibleIs
<1>2. ASSUME NEW i \in DOMAIN sessions
      PROVE  Visible(c)[i].left = None <=> sessions[i].left = None /\ i \notin call[c].closes
  BY VisibleIs
<1> QED BY <1>1, <1>2 DEF Open

\* Steps of another handler, and of the one that is finalizing.
LEMMA FinalizingKept ==
  ASSUME NEW c, call'[c].job = call[c].job, call'[c].seen = call[c].seen, Finalizing(c),
         call'[c].step # "ready" => Open(sessions') = call'[c].closes
  PROVE  Finalizing(c)'
  BY DEF Finalizing, HasTimes, InTransaction

LEMMA EndsFinalizes ==
  ASSUME Base, Images, TimedInv, NEW c \in Calls, Ends(c), "stale" \notin mishaps'
  PROVE  Finalizing(c)'
<1>1. Timed /\ call[c].seen = meeting /\ meeting.status = "ongoing"
  BY DEF Ends, Unlike, TimedInv, Images, Imaged
<1>2. /\ call'[c].job = "finalize" /\ call'[c].step = "ready"
      /\ call'[c].seen.start = meeting.start /\ call'[c].seen.end = now
  BY <1>1, StepColumns, MeetsOf
<1>3. now # None
  <2>1. now \in Nat /\ 1 <= now
    BY NumbersAre DEF Base, Clock
  <2> QED BY <2>1 DEF None
<1> QED BY <1>1, <1>2, <1>3 DEF Finalizing, HasTimes, InTransaction, Timed, Begun

LEMMA ClosingNext ==
  ASSUME Base, Images, TimedInv, ClosingInv, Next
  PROVE  ClosingInv'
<1> SUFFICES ASSUME mishaps' \cap {"late", "cut", "stale"} = {}, meeting'.status = "ended"
             PROVE  Closing'
  BY DEF ClosingInv, Without
<1>t. Types
  BY DEF Base
<1>0. Schedule \/ Tick \/ \E c \in Calls : StepOf(c)
  BY Steps
<1>1. CASE Schedule
  BY <1>1 DEF Schedule, Unborn
<1>2. CASE Tick
  <2>1. Closing /\ UNCHANGED <<sessions, call>>
    BY <1>2 DEF Tick, ClosingInv, Without
  <2> QED BY <2>1 DEF Closing, Finalizing, HasTimes, InTransaction
<1>3. ASSUME NEW c \in Calls, StepOf(c)
      PROVE  Closing'
  <2>o. \A d \in Calls : d # c => call'[d] = call[d]
    BY <1>3, StepOthers
  <2>g. mishaps \cap {"late", "cut", "stale"} = {}
    BY <1>3, StepGrows
  <2>k. ASSUME meeting'.status = meeting.status, UNCHANGED sessions,
               Finalizing(c) => Finalizing(c)'
        PROVE  Closing'
    <3>1. Closing
      BY <2>g, <2>k DEF ClosingInv, Without
    <3>2. ASSUME NEW d \in Calls, Finalizing(d)
          PROVE  Finalizing(d)'
      <4>1. CASE d = c
        BY <2>k, <3>2, <4>1
      <4>2. CASE d # c
        BY <2>o, <2>k, <3>2, <4>2 DEF Finalizing, HasTimes, InTransaction
      <4> QED BY <4>1, <4>2
    <3> QED BY <2>k, <3>1, <3>2 DEF Closing
  <2>1. ASSUME NEW job \in Jobs, NEW u \in Users, Reads(c, job, u)
        PROVE  Closing'
    BY <2>k, <2>1, IdleColumns DEF Reads, Finalizing
  <2>2. CASE Founds(c) \/ Starts(c)
    BY <2>2, MeetsOf DEF Founds, Starts
  <2>3. CASE Ends(c)
    BY <2>3, EndsFinalizes DEF Closing
  <2>4. CASE Edits(c)
    BY <2>k, <2>4 DEF Edits, Unlike, Finalizing
  <2>5. CASE Fills(c)
    BY <2>k, <2>5 DEF Fills, Finalizing
  <2>6. ASSUME NEW closes, NEW t, Looks(c, closes, t)
        PROVE  Closing'
    <3>1. /\ call'[c].job = call[c].job /\ call'[c].seen = call[c].seen /\ call'[c].closes = closes
          /\ call[c].job = "finalize" => closes = Open(sessions)
          /\ UNCHANGED <<meeting, sessions>>
      BY <2>6, StepColumns DEF Looks
    <3>2. Finalizing(c) => Finalizing(c)'
      BY <3>1 DEF Finalizing, HasTimes, InTransaction
    <3> QED BY <2>k, <3>1, <3>2
  <2>7. CASE Counts(c)
    <3>1. /\ call'[c].job = call[c].job /\ call'[c].seen = call[c].seen
          /\ call'[c].closes = call[c].closes /\ call[c].step = "looked"
          /\ UNCHANGED <<meeting, sessions>>
      BY <2>7, StepColumns DEF Counts
    <3>2. Finalizing(c) => Finalizing(c)'
      BY <3>1 DEF Finalizing, HasTimes, InTransaction
    <3> QED BY <2>k, <3>1, <3>2
  <2>8. CASE Drops(c)
    <3>1. ~Finalizing(c)
      BY <2>8 DEF Drops, Finalizing
    <3> QED BY <2>k, <2>8, <3>1 DEF Drops
  <2>9. ASSUME NEW h, Writes(c, h)
        PROVE  Closing'
    <3>1. call[c].job # "join" /\ meeting'.status = meeting.status /\ sessions' = Visible(c) /\ InTransaction(c)
      BY <2>9 DEF Writes, InTransaction
    <3>2. call[c].closes # {} => call[c].time # None
      <4>1. call[c].closes # {} => 1 <= call[c].time
        BY DEF Base, Clock, InTime
      <4> QED BY <4>1 DEF None
    <3>3. Open(sessions') = Open(sessions) \ call[c].closes
      BY <1>t, <3>1, <3>2, VisibleCloses, Zenon
    <3>4. Closing
      BY <2>g, <3>1 DEF ClosingInv, Without
    <3>5. CASE Open(sessions) = {}
      BY <3>3, <3>5 DEF Closing
    <3>6. ASSUME NEW d \in Calls, Finalizing(d)
          PROVE  Closing'
      <4>1. CASE d = c
        BY <3>1, <3>3, <3>6, <4>1 DEF Closing, Finalizing
      <4>2. CASE d # c /\ ~InTransaction(d)
        <5>1. Finalizing(d)'
          BY <2>o, <3>6, <4>2 DEF Finalizing, HasTimes, InTransaction
        <5> QED BY <5>1 DEF Closing
      <4>3. CASE d # c /\ InTransaction(d)
        <5>1. call[c].closes \subseteq Open(sessions) /\ call[c].closes \cap call[d].closes = {}
          BY <4>3 DEF Base, Locks, Locking
        <5>2. call[c].closes = {}
          BY <3>6, <4>3, <5>1 DEF Finalizing
        <5>3. Open(sessions') = Open(sessions)
          BY <3>3, <5>2
        <5>4. Finalizing(d)'
          BY <2>o, <3>6, <4>3, <5>3 DEF Finalizing, HasTimes, InTransaction
        <5> QED BY <5>4 DEF Closing
      <4> QED BY <4>1, <4>2, <4>3
    <3> QED BY <3>4, <3>5, <3>6 DEF Closing
  <2> QED BY <1>3, <2>1, <2>2, <2>3, <2>4, <2>5, <2>6, <2>7, <2>8, <2>9 DEF StepOf
<1> QED BY <1>0, <1>1, <1>2, <1>3

-----------------------------------------------------------------------------
(* Nobody attends for longer than the meeting runs. *)

\* The time of a user's closed sessions: open ones have lasted no time at time 0.
Closed(u) == Total(sessions, u, 0)

Bounded(h) ==
  /\ h.step \in {"looked", "counted"} /\ h.job = "join" => Closed(h.user) <= h.time - meeting.start
  /\ \A u \in DOMAIN h.rows : h.rows[u].duration <= now - meeting.start

Within ==
  /\ \A u \in Users : /\ attendance[u].duration <= now - meeting.start
                      /\ Closed(u) <= now - meeting.start
                      /\ \A i \in OpenOf(u) : Closed(u) <= sessions[i].joined - meeting.start
  /\ \A c \in Calls : Bounded(call[c])

WithinInv == Without({"crossed", "stale"}) /\ meeting.start # None => Within

LEMMA DurationBound ==
  ASSUME NEW s \in Session, NEW ref \in Int, NEW n \in Nat, ref <= n, s.left <= n, s.joined <= n
  PROVE  Duration(s, ref) \in Nat /\ Duration(s, ref) <= n - s.joined
<1>1. s.left \in Nat /\ s.joined \in Nat
  BY TimesNat DEF Session
<1> QED BY <1>1 DEF Duration, Floor0, Until

\* A session that is closed lasts as long whenever it is looked at, an open one
\* has lasted no time at time 0.
LEMMA DurationSame ==
  ASSUME NEW s \in Session, NEW t \in Session, NEW ref \in Int, NEW r \in Int
  PROVE  /\ s.left # None /\ t.left = s.left /\ t.joined = s.joined => Duration(s, ref) = Duration(t, r)
         /\ s.left = None => Duration(s, 0) = 0
<1>1. s.left \in Nat /\ s.joined \in Nat
  BY TimesNat DEF Session
<1> QED BY <1>1 DEF Duration, Floor0, Until, None

LEMMA VisibleUsers ==
  ASSUME Types, NEW c \in Calls, NEW u
  PROVE  /\ ~Joining(call[c], u) => Of(Visible(c), u) = Of(sessions, u)
         /\ Joining(call[c], u) =>
              /\ Of(Visible(c), u) = Of(sessions, u) \cup {Len(sessions) + 1}
              /\ Len(sessions) + 1 \notin Of(sessions, u)
              /\ Len(sessions) + 1 \in DOMAIN Visible(c)
              /\ Visible(c)[Len(sessions) + 1] = [user |-> u, joined |-> call[c].time, left |-> None]
<1> DEFINE n == Len(sessions) + 1
           V == Visible(c)
<1>1. \A i \in DOMAIN sessions : i \in DOMAIN V /\ V[i].user = sessions[i].user
  BY VisibleIs
<1>2. \A i \in DOMAIN V : i \notin DOMAIN sessions =>
        call[c].job = "join" /\ i = n /\ V[i].user = call[c].user
  BY VisibleNew
<1>3. call[c].job = "join" =>
        n \in DOMAIN V /\ n \notin DOMAIN sessions
  <2>1. call[c].job = "join" => DOMAIN V = DOMAIN sessions \cup {n} /\ n \notin DOMAIN sessions
    BY VisibleIs
  <2> QED BY <2>1, Zenon
<1>4. call[c].job = "join" => V[n] = [user |-> call[c].user, joined |-> call[c].time, left |-> None]
  BY VisibleIs
<1> HIDE DEF n, V
<1>5. ~Joining(call[c], u) => Of(V, u) = Of(sessions, u)
  BY <1>1, <1>2 DEF Of, Joining
<1>6. ASSUME Joining(call[c], u)
      PROVE  /\ Of(V, u) = Of(sessions, u) \cup {n} /\ n \notin Of(sessions, u) /\ n \in DOMAIN V
             /\ V[n] = [user |-> u, joined |-> call[c].time, left |-> None]
  <2>1. n \in DOMAIN V /\ n \notin DOMAIN sessions
    BY <1>3, <1>6 DEF Joining
  <2>2. V[n] = [user |-> u, joined |-> call[c].time, left |-> None]
    BY <1>4, <1>6 DEF Joining
  <2>3. Of(V, u) = Of(sessions, u) \cup {n}
    BY <1>1, <1>2, <1>6, <2>1, <2>2 DEF Of, Joining
  <2> QED BY <2>1, <2>2, <2>3 DEF Of
<1> QED BY <1>5, <1>6 DEF n, V

\* A user's sessions that the transaction leaves as they are.
LEMMA VisibleStay ==
  ASSUME Base, NEW c \in Calls, NEW u, NEW i \in Of(sessions, u), i \notin call[c].closes
  PROVE  Visible(c)[i] = sessions[i] /\ sessions[i] \in Session /\ i \in DOMAIN sessions
<1>1. i \in DOMAIN sessions
  BY DEF Of
<1> QED BY <1>1, VisibleIs, NumbersAre DEF Base

\* A transaction that closes a user's session leaves it within the meeting.
LEMMA VisibleWithin ==
  ASSUME Base, Alone, Within, NEW c \in Calls, InTransaction(c), NEW u \in Users,
         NEW ref \in Int, ref <= now
  PROVE  Total(Visible(c), u, ref) <= now - meeting.start
<1> DEFINE V == Visible(c)
           n == Len(sessions) + 1
<1>t. /\ Types /\ now \in Nat /\ meeting.start \in Nat /\ meeting.start <= now
      /\ call[c].time \in Nat /\ call[c].time <= now
  BY NumbersAre DEF Base, Clock, InTime
<1>v. V \in Seq(Session) /\ sessions \in Seq(Session)
  BY <1>t, VisibleIs DEF Types
<1>i. 0 \in Int
  OBVIOUS
<1>c. Closed(u) \in Nat /\ Closed(u) <= now - meeting.start /\ Closed(u) = Total(sessions, u, 0)
  BY <1>v, <1>i, TotalNat DEF Within, Closed
<1>o. \A i \in Of(sessions, u) : i \in call[c].closes => i \in OpenOf(u)
  BY DEF Base, Locks, Locking, Of, OpenOf, Open
<1>s. ASSUME NEW i \in Of(sessions, u), i \notin OpenOf(u), NEW r \in Int
      PROVE  /\ Duration(sessions[i], r) = Duration(V[i], ref)
             /\ Duration(sessions[i], r) = Duration(sessions[i], ref)
  <2>1. V[i] = sessions[i] /\ sessions[i] \in Session /\ i \in DOMAIN sessions
    BY <1>o, <1>s, VisibleStay
  <2>2. sessions[i].left # None
    BY <1>s, <2>1 DEF Of, OpenOf, Open
  <2>3. Duration(sessions[i], r) = Duration(sessions[i], ref)
    BY <1>s, <2>1, <2>2, DurationSame
  <2> QED BY <2>1, <2>3
<1>1. CASE OpenOf(u) = {} /\ ~Joining(call[c], u)
  <2>1. Of(sessions, u) = Of(V, u)
    BY <1>t, <1>1, VisibleUsers
  <2>2. \A i \in Of(sessions, u) : Duration(sessions[i], 0) = Duration(V[i], ref)
    BY <1>i, <1>s, <1>1
  <2> HIDE DEF V
  <2>3. Total(sessions, u, 0) = Total(V, u, ref)
    BY <1>v, <1>i, <2>1, <2>2, TotalSame
  <2> QED BY <1>c, <2>3 DEF V
<1>2. CASE Joining(call[c], u)
  <2>1. OpenOf(u) = {}
    BY <1>2 DEF Alone, Joining
  <2>2. Of(V, u) = Of(sessions, u) \cup {n} /\ n \notin Of(sessions, u) /\ n \in DOMAIN V
    BY <1>t, <1>2, VisibleUsers
  <2>3. V[n] = [user |-> u, joined |-> call[c].time, left |-> None]
    BY <1>t, <1>2, VisibleUsers
  <2>4. \A i \in Of(sessions, u) : Duration(sessions[i], ref) = Duration(V[i], ref)
    BY <1>s, <2>1
  <2>5. \A i \in Of(sessions, u) : Duration(sessions[i], 0) = Duration(sessions[i], ref)
    BY <1>i, <1>s, <2>1
  <2>6. V[n] \in Session
    BY <1>v, <2>2
  <2> HIDE DEF V, n
  <2>7. Total(V, u, ref) = Total(sessions, u, ref) + Duration(V[n], ref)
    BY <1>v, <2>2, <2>4, TotalAdd
  <2>8. Total(sessions, u, 0) = Total(sessions, u, ref)
    BY <1>v, <1>i, <2>5, TotalSame
  <2>9. V[n].left = None /\ V[n].joined = call[c].time
    BY <2>3
  <2>10. Duration(V[n], ref) \in Nat /\ Duration(V[n], ref) <= now - call[c].time
    <3>1. V[n].left <= now /\ V[n].joined <= now
      BY <1>t, <2>9 DEF None
    <3> QED BY <1>t, <2>6, <2>9, <3>1, DurationBound
  <2>11. Closed(u) <= call[c].time - meeting.start
    BY <1>2 DEF Within, Bounded, Joining, InTransaction
  <2> QED BY <1>t, <1>c, <2>7, <2>8, <2>10, <2>11 DEF V
<1>3. CASE OpenOf(u) # {} /\ ~Joining(call[c], u)
  <2>1. PICK y \in OpenOf(u) : TRUE
    BY <1>3
  <2>2. y \in Of(sessions, u) /\ y \in DOMAIN sessions /\ sessions[y].left = None
    BY <2>1 DEF Of, OpenOf, Open
  <2>3. \A i \in Of(sessions, u) \ {y} : i \notin OpenOf(u)
    BY <2>1 DEF Alone
  <2>4. Of(sessions, u) = Of(V, u)
    BY <1>t, <1>3, VisibleUsers
  <2>5. \A i \in Of(sessions, u) \ {y} : Duration(sessions[i], 0) = Duration(V[i], ref)
    BY <1>i, <1>s, <2>3
  <2>6. V[y].joined = sessions[y].joined /\ V[y].left \in {None, call[c].time} /\ y \in DOMAIN V
    BY <1>t, <2>2, VisibleIs
  <2>7. V[y] \in Session /\ sessions[y] \in Session
    BY <1>v, <2>2, <2>6
  <2> HIDE DEF V
  <2>8. Total(V, u, ref) = (Total(sessions, u, 0) - Duration(sessions[y], 0)) + Duration(V[y], ref)
    BY <1>v, <1>i, <2>2, <2>4, <2>5, TotalChange
  <2>9. Duration(sessions[y], 0) = 0
    BY <1>i, <2>2, <2>7, DurationSame
  <2>10. sessions[y].joined \in Nat /\ sessions[y].joined <= now
    BY <2>2, NumbersAre DEF Base, Clock
  <2>11. Duration(V[y], ref) \in Nat /\ Duration(V[y], ref) <= now - sessions[y].joined
    <3>1. V[y].left <= now /\ V[y].joined <= now
      BY <1>t, <2>6, <2>10 DEF None
    <3> QED BY <1>t, <2>6, <2>7, <3>1, DurationBound
  <2>12. Closed(u) <= sessions[y].joined - meeting.start
    BY <2>1 DEF Within
  <2> QED BY <1>t, <1>c, <2>8, <2>9, <2>10, <2>11, <2>12 DEF V
<1> QED BY <1>1, <1>2, <1>3

\* A session it leaves open began after all that the user had attended.
LEMMA VisibleLater ==
  ASSUME Base, Alone, Within, NEW c \in Calls, InTransaction(c), NEW u \in Users,
         NEW y \in DOMAIN Visible(c), Visible(c)[y].user = u, Visible(c)[y].left = None
  PROVE  Total(Visible(c), u, 0) <= Visible(c)[y].joined - meeting.start
<1> DEFINE V == Visible(c)
           n == Len(sessions) + 1
<1>t. Types /\ meeting.start \in Nat /\ call[c].time \in Nat
  BY NumbersAre DEF Base
<1>v. V \in Seq(Session) /\ sessions \in Seq(Session)
  BY <1>t, VisibleIs DEF Types
<1>i. 0 \in Int
  OBVIOUS
<1>c. Closed(u) \in Nat /\ Closed(u) = Total(sessions, u, 0)
  BY <1>v, <1>i, TotalNat DEF Closed
<1>n. call[c].closes # {} => call[c].time # None
  <2>1. call[c].closes # {} => 1 <= call[c].time
    BY DEF Base, Clock, InTime
  <2> QED BY <2>1 DEF None
<1>1. \/ y \in OpenOf(u) /\ y \notin call[c].closes
      \/ Joining(call[c], u) /\ y = n /\ OpenOf(u) = {}
  BY <1>t, <1>n, VisibleOpen
<1>2. ASSUME NEW i \in Of(sessions, u), i \notin call[c].closes
      PROVE  Duration(sessions[i], 0) = Duration(V[i], 0)
  <2>1. V[i] = sessions[i]
    BY <1>2, VisibleStay
  <2> QED BY <2>1
<1>3. CASE y \in OpenOf(u) /\ y \notin call[c].closes
  <2>1. ~Joining(call[c], u)
    BY <1>3 DEF Alone, Joining
  <2>2. Of(sessions, u) = Of(V, u)
    BY <1>t, <2>1, VisibleUsers
  <2>3. \A i \in Of(sessions, u) : i \notin call[c].closes
    <3>1. \A i \in Of(sessions, u) : i \in call[c].closes => i \in OpenOf(u)
      BY DEF Base, Locks, Locking, Of, OpenOf, Open
    <3> QED BY <1>3, <3>1 DEF Alone
  <2>4. V[y].joined = sessions[y].joined
    <3>1. y \in DOMAIN sessions
      BY <1>3, OpenIn
    <3> QED BY <1>t, <3>1, VisibleIs
  <2>5. \A i \in Of(sessions, u) : Duration(sessions[i], 0) = Duration(V[i], 0)
    BY <1>2, <2>3
  <2> HIDE DEF V
  <2>6. Total(sessions, u, 0) = Total(V, u, 0)
    BY <1>v, <1>i, <2>2, <2>5, TotalSame
  <2>7. Closed(u) <= sessions[y].joined - meeting.start
    BY <1>3 DEF Within
  <2> QED BY <1>c, <2>4, <2>6, <2>7 DEF V
<1>4. CASE Joining(call[c], u) /\ y = n
  <2>1. call[c].closes = {}
    BY <1>4 DEF Base, Locks, Locking, Joining
  <2>2. Of(V, u) = Of(sessions, u) \cup {n} /\ n \notin Of(sessions, u) /\ n \in DOMAIN V
    BY <1>t, <1>4, VisibleUsers
  <2>3. V[n] = [user |-> u, joined |-> call[c].time, left |-> None]
    BY <1>t, <1>4, VisibleUsers
  <2>4. V[n] \in Session
    BY <1>v, <2>2
  <2>5. \A i \in Of(sessions, u) : Duration(sessions[i], 0) = Duration(V[i], 0)
    BY <1>2, <2>1
  <2> HIDE DEF V, n
  <2>6. Total(V, u, 0) = Total(sessions, u, 0) + Duration(V[n], 0)
    BY <1>v, <1>i, <2>2, <2>5, TotalAdd
  <2>7. V[n].left = None /\ V[n].joined = call[c].time
    BY <2>3
  <2>8. Duration(V[n], 0) = 0
    BY <1>i, <2>4, <2>7, DurationSame
  <2>9. Closed(u) <= call[c].time - meeting.start
    BY <1>4 DEF Within, Bounded, Joining, InTransaction
  <2> QED BY <1>t, <1>c, <1>4, <2>6, <2>7, <2>8, <2>9 DEF V
<1> QED BY <1>1, <1>3, <1>4

\* What the invariant says of a meeting that begins now.
LEMMA NothingYet ==
  ASSUME Base, Images, Timed, Present, meeting.status \notin Begun
  PROVE  /\ \A u \in Users : attendance[u].duration = 0 /\ Closed(u) = 0 /\ OpenOf(u) = {}
         /\ \A c \in Calls : call[c].step = "ready" /\ DOMAIN call[c].rows = {}
<1>1. DOMAIN sessions = {}
  BY DEF Timed
<1>2. ASSUME NEW u \in Users
      PROVE  attendance[u].duration = 0 /\ Closed(u) = 0 /\ OpenOf(u) = {}
  <2>1. ~Came(u) /\ Of(sessions, u) = {} /\ OpenOf(u) = {}
    BY <1>1 DEF Came, Of, OpenOf, Open
  <2>2. sessions \in Seq(Session) /\ 0 \in Int
    BY DEF Base, Types
  <2>3. Closed(u) = 0
    BY <2>1, <2>2, TotalNone DEF Closed
  <2> QED BY <2>1, <2>3 DEF Present, RowOf
<1> QED BY <1>2, NobodyBefore

LEMMA WithinFromNow ==
  ASSUME Base, Images, Timed, Present, meeting.status \notin Begun, NEW c \in Calls,
         UNCHANGED <<now, sessions, attendance>>, meeting'.start = now,
         \A d \in Calls : d # c => call'[d] = call[d],
         call'[c].step = "ready", DOMAIN call'[c].rows = {}
  PROVE  Within'
<1>1. /\ \A u \in Users : attendance[u].duration = 0 /\ Closed(u) = 0 /\ OpenOf(u) = {}
      /\ \A d \in Calls : call[d].step = "ready" /\ DOMAIN call[d].rows = {}
  BY NothingYet
<1>2. \A d \in Calls : Bounded(call[d])'
  BY <1>1 DEF Bounded
<1>3. now \in Nat
  BY NumbersAre DEF Base
<1>4. \A u : Closed(u)' = Closed(u) /\ OpenOf(u)' = OpenOf(u)
  BY DEF Closed, OpenOf, Open
<1> QED BY <1>1, <1>2, <1>3, <1>4 DEF Within

LEMMA WithinNext ==
  ASSUME Base, Images, TimedInv, AloneInv, Present, WithinInv, Next
  PROVE  WithinInv'
<1> SUFFICES ASSUME mishaps' \cap {"crossed", "stale"} = {}, meeting'.start # None
             PROVE  Within'
  BY DEF WithinInv, Without
<1>t. /\ Types /\ now \in Nat /\ meeting.start \in Nat /\ meeting.start <= now
      /\ sessions \in Seq(Session) /\ 0 \in Int /\ None = 0
  BY NumbersAre DEF Base, Clock, Types, None
<1>0. Schedule \/ Tick \/ \E c \in Calls : StepOf(c)
  BY Steps
<1>1. CASE Schedule
  BY <1>1 DEF Schedule, Unborn
<1>2. CASE Tick
  <2>1. now' = now + 1 /\ UNCHANGED <<meeting, sessions, attendance, call>> /\ Within
    BY <1>2 DEF Tick, WithinInv, Without
  <2>2. \A u : Closed(u)' = Closed(u) /\ OpenOf(u)' = OpenOf(u)
    BY <2>1 DEF Closed, OpenOf, Open
  <2>3. ASSUME NEW u \in Users
        PROVE  /\ attendance'[u].duration <= now' - meeting'.start
               /\ Closed(u)' <= now' - meeting'.start
               /\ \A i \in OpenOf(u)' : Closed(u)' <= sessions'[i].joined - meeting'.start
    <3>1. attendance[u].duration \in Nat /\ Closed(u) \in Nat
      BY <1>t, TotalNat DEF Types, Row, Closed
    <3>2. /\ attendance[u].duration <= now - meeting.start /\ Closed(u) <= now - meeting.start
          /\ \A i \in OpenOf(u) : Closed(u) <= sessions[i].joined - meeting.start
      BY <2>1 DEF Within
    <3> QED BY <1>t, <2>1, <2>2, <3>1, <3>2
  <2>4. ASSUME NEW d \in Calls
        PROVE  Bounded(call[d])'
    <3>1. ASSUME NEW u \in DOMAIN call[d].rows
          PROVE  call[d].rows[u].duration \in Nat
      <4>1. call[d].rows \in RowMaps
        BY <1>t, CallTypes
      <4>2. call[d].rows[u] \in Row
        BY <4>1, RowMap
      <4> QED BY <4>2 DEF Row
    <3>2. Bounded(call[d])
      BY <2>1 DEF Within
    <3> QED BY <1>t, <2>1, <2>2, <3>1, <3>2 DEF Bounded
  <2> QED BY <2>3, <2>4 DEF Within
<1>3. ASSUME NEW c \in Calls, StepOf(c)
      PROVE  Within'
  <2>o. \A d \in Calls : d # c => call'[d] = call[d]
    BY <1>3, StepOthers
  <2>g. mishaps \cap {"crossed", "stale"} = {} /\ Timed /\ Alone
    BY <1>3, StepGrows DEF TimedInv, AloneInv
  <2>n. DOMAIN NoRows = {}
    BY DEF NoRows
  <2>r. call[c].step = "ready" => DOMAIN call[c].rows = {}
    BY DEF Base, Locks, Locking, InTransaction
  <2>u. UNCHANGED sessions => \A u : Closed(u)' = Closed(u) /\ OpenOf(u)' = OpenOf(u)
    BY DEF Closed, OpenOf, Open
  <2>w. meeting'.start = meeting.start => Within
    BY <2>g DEF WithinInv, Without
  <2>k. ASSUME UNCHANGED <<now, sessions, attendance>>, meeting'.start = meeting.start,
               Within => Bounded(call[c])'
        PROVE  Within'
    <3>1. \A d \in Calls : Bounded(call[d])'
      BY <2>k, <2>o, <2>u, <2>w DEF Within, Bounded
    <3> QED BY <2>k, <2>u, <2>w, <3>1 DEF Within
  <2>b. call'[c].step = "ready" /\ DOMAIN call'[c].rows = {} => Bounded(call[c])'
    BY DEF Bounded
  <2>1. ASSUME NEW job \in Jobs, NEW u \in Users, Reads(c, job, u)
        PROVE  Within'
    BY <2>b, <2>k, <2>n, <2>1, StepColumns DEF Reads
  <2>2. CASE Founds(c)
    <3>1. UNCHANGED <<now, sessions, attendance>> /\ meeting'.start = now /\ meeting.status \notin Begun
      BY <2>2, MeetsOf DEF Founds, Unborn, Begun
    <3> QED BY <2>g, <2>n, <2>o, <2>2, <3>1, StepColumns, WithinFromNow
  <2>3. CASE Starts(c)
    <3>1. meeting = call[c].seen /\ meeting.status = "scheduled"
      BY <2>g, <2>3 DEF Starts, Unlike, Images, Imaged
    <3>2. UNCHANGED <<now, sessions, attendance>> /\ meeting'.start = now
      BY <2>3, MeetsOf DEF Starts
    <3>3. call'[c].step = "ready" /\ DOMAIN call'[c].rows = {}
      BY <2>r, <2>3, StepColumns DEF Starts
    <3> QED BY <2>g, <2>o, <3>1, <3>2, <3>3, WithinFromNow DEF Begun
  <2>4. CASE Ends(c)
    <3>1. UNCHANGED <<now, sessions, attendance>> /\ meeting'.start = meeting.start
      BY <2>4, MeetsOf DEF Ends
    <3>2. call'[c].step = "ready" /\ DOMAIN call'[c].rows = {}
      BY <2>r, <2>4, StepColumns DEF Ends
    <3> QED BY <2>b, <2>k, <3>1, <3>2
  <2>5. CASE Edits(c)
    <3>1. UNCHANGED <<now, sessions, attendance>> /\ meeting' = meeting
      BY <2>g, <2>5 DEF Edits, Unlike
    <3> QED BY <2>b, <2>k, <2>n, <2>5, <3>1, StepColumns, IdleColumns
  <2>6. CASE Drops(c)
    <3>1. UNCHANGED <<now, sessions, attendance>> /\ meeting' = meeting
      BY <2>6 DEF Drops
    <3> QED BY <2>b, <2>k, <2>n, <2>6, <3>1, StepColumns, IdleColumns
  <2>7. CASE Fills(c)
    <3>1. UNCHANGED <<now, sessions, meeting>> /\ Within
      BY <2>w, <2>7 DEF Fills
    <3>2. call'[c].step = "ready" /\ DOMAIN call'[c].rows = {}
      BY <2>r, <2>7, StepColumns DEF Fills
    <3>3. \A d \in Calls : Bounded(call[d])'
      BY <2>b, <2>o, <2>u, <3>1, <3>2 DEF Within, Bounded
    <3>4. ASSUME NEW u \in Users
          PROVE  attendance'[u].duration <= now - meeting.start
      <4>1. attendance'[u] \in {attendance[u], Absent}
        BY <2>7 DEF Fills
      <4>2. attendance[u].duration <= now - meeting.start
        BY <3>1 DEF Within
      <4> QED BY <1>t, <4>1, <4>2 DEF Absent
    <3> QED BY <2>u, <3>1, <3>3, <3>4 DEF Within
  <2>8. ASSUME NEW closes, NEW t, Looks(c, closes, t)
        PROVE  Within'
    <3>1. UNCHANGED <<now, sessions, attendance, meeting>> /\ (call[c].job = "join" => t = now)
      BY <2>8 DEF Looks
    <3>2. /\ call'[c].job = call[c].job /\ call'[c].user = call[c].user
          /\ call'[c].time = t /\ call'[c].rows = call[c].rows
      BY <2>8, StepColumns
    <3>3. call[c].user \in Users
      BY <1>t, CallTypes
    <3>4. Within => Bounded(call[c])'
      BY <2>u, <3>1, <3>2, <3>3 DEF Within, Bounded
    <3> QED BY <2>k, <3>1, <3>4
  <2>9. CASE Counts(c)
    <3>1. UNCHANGED <<now, sessions, attendance, meeting>> /\ call[c].step = "looked"
      BY <2>9 DEF Counts
    <3>2. /\ call'[c].job = call[c].job /\ call'[c].user = call[c].user
          /\ call'[c].time = call[c].time /\ call'[c].rows = SyncRows(c)
      BY <2>9, StepColumns
    <3>3. ASSUME Within, NEW u \in DOMAIN SyncRows(c)
          PROVE  SyncRows(c)[u].duration <= now - meeting.start
      <4> DEFINE V == Visible(c)
                 r == RefOf(c)
      <4>1. u \in Users /\ SyncRows(c)[u] = SyncRow(V, u, r)
        BY <1>t, SyncRowsIs
      <4>2. V \in Seq(Session) /\ r \in Int /\ r <= now
        <5>1. V \in Seq(Session)
          BY <1>t, VisibleIs
        <5>2. r \in Int
          BY <1>t, RefIs, TimesInt
        <5>3. r <= now
          <6>1. r \in {call[c].time, call[c].seen.start}
            BY <1>t, RefIs
          <6> HIDE DEF r
          <6> QED BY <6>1 DEF Base, Clock, InTime
        <5> HIDE DEF r, V
        <5> QED BY <5>1, <5>2, <5>3
      <4>3. Total(V, u, r) <= now - meeting.start
        BY <2>g, <3>1, <3>3, <4>1, <4>2, VisibleWithin DEF InTransaction
      <4>4. attendance[u].duration <= now - meeting.start
        BY <3>3, <4>1 DEF Within
      <4> HIDE DEF V, r
      <4>5. CASE Of(V, u) # {}
        <5>1. SyncRow(V, u, r).duration = Total(V, u, r)
          BY <1>t, <4>1, <4>2, <4>5, SyncRowType
        <5> QED BY <4>1, <4>3, <5>1
      <4>6. CASE Of(V, u) = {}
        <5>1. SyncRow(V, u, r) \in {Absent, attendance[u]}
          BY <1>t, <4>1, <4>2, <4>6, SyncRowType
        <5> QED BY <1>t, <4>1, <4>4, <5>1 DEF Absent
      <4> QED BY <4>5, <4>6
    <3>4. Within => Bounded(call[c])'
      BY <2>u, <3>1, <3>2, <3>3 DEF Within, Bounded
    <3> QED BY <2>k, <3>1, <3>4
  <2>10. ASSUME NEW h, Writes(c, h)
         PROVE  Within'
    <3>1. UNCHANGED <<now, meeting>> /\ sessions' = Visible(c) /\ Within /\ InTransaction(c)
      BY <2>w, <2>10 DEF Writes, InTransaction
    <3>2. call'[c].step = "ready" /\ DOMAIN call'[c].rows = {}
      BY <2>n, <2>10, StepColumns
    <3>3. ASSUME NEW d \in Calls
          PROVE  Bounded(call[d])'
      <4>1. CASE d = c
        BY <2>b, <3>2, <4>1
      <4>2. CASE d # c
        <5>1. call'[d] = call[d] /\ ~InTransaction(d) /\ Locking(d)
          BY <2>g, <2>o, <3>1, <4>2 DEF Alone, Base, Locks
        <5> QED BY <5>1 DEF Locking, InTransaction, Bounded
      <4> QED BY <4>1, <4>2
    <3>4. ASSUME NEW u \in Users
          PROVE  attendance'[u].duration <= now - meeting.start
      <4>1. attendance'[u] = IF u \in DOMAIN call[c].rows THEN call[c].rows[u] ELSE attendance[u]
        BY <2>10 DEF Writes
      <4> QED BY <3>1, <4>1 DEF Within, Bounded
    <3>5. ASSUME NEW u \in Users
          PROVE  Closed(u)' <= now - meeting.start
      <4>1. Total(Visible(c), u, 0) <= now - meeting.start
        BY <1>t, <2>g, <3>1, VisibleWithin
      <4>2. Closed(u)' = Total(Visible(c), u, 0)
        BY <3>1, Zenon DEF Closed
      <4> QED BY <4>1, <4>2, Zenon
    <3>6. ASSUME NEW u \in Users, NEW i \in OpenOf(u)'
          PROVE  Closed(u)' <= sessions'[i].joined - meeting.start
      <4>1. i \in DOMAIN Visible(c) /\ Visible(c)[i].user = u /\ Visible(c)[i].left = None
        BY <3>1, <3>6 DEF OpenOf, Open
      <4>2. Total(Visible(c), u, 0) <= Visible(c)[i].joined - meeting.start
        BY <2>g, <3>1, <4>1, VisibleLater
      <4>3. Closed(u)' = Total(Visible(c), u, 0) /\ sessions'[i].joined = Visible(c)[i].joined
        BY <3>1, Zenon DEF Closed
      <4> QED BY <4>2, <4>3, Zenon
    <3> QED BY <3>1, <3>3, <3>4, <3>5, <3>6 DEF Within
  <2> QED BY <1>3, <2>1, <2>2, <2>3, <2>4, <2>5, <2>6, <2>7, <2>8, <2>9, <2>10 DEF StepOf
<1> QED BY <1>0, <1>1, <1>2, <1>3

-----------------------------------------------------------------------------
(* Rows that agree with the sessions. *)

Matches(S, row, u) ==
  /\ row.status = IF Of(S, u) # {} THEN "present" ELSE "absent"
  /\ (\A i \in Of(S, u) : S[i].left # None) => row.duration = Total(S, u, 0)

Stay(S) == [i \in DOMAIN S |-> Max({0, S[i].left - S[i].joined})]

LEMMA StayTotal ==
  ASSUME NEW S \in Seq(Session), NEW u, \A i \in Of(S, u) : S[i].left # None
  PROVE  SumFunctionOnSet(Stay(S), Of(S, u)) = Total(S, u, 0)
<1> DEFINE h == Stay(S)
           k == Durations(S, 0)
           I == Of(S, u)
<1>1. ASSUME NEW i \in I
      PROVE  h[i] = k[i]
  <2>1. i \in DOMAIN S /\ S[i] \in Session /\ 0 \in Int
    BY DEF Of
  <2>2. Duration(S[i], 0) = Max({0, S[i].left - S[i].joined})
    BY <2>1, DurationNat
  <2>3. h[i] = Max({0, S[i].left - S[i].joined}) /\ k[i] = Duration(S[i], 0)
    BY <2>1, Zenon DEF Stay, Durations
  <2> QED BY <2>2, <2>3, Zenon
<1>2. IsFiniteSet(I)
  BY OfFinite
<1>3. Total(S, u, 0) = SumFunctionOnSet(k, I)
  <2>1. 0 \in Int
    OBVIOUS
  <2> QED BY <2>1, TotalIs
<1> HIDE DEF h, k, I
<1>4. SumFunctionOnSet(h, I) = SumFunctionOnSet(k, I)
  BY ONLY <1>1, <1>2, SumSame
<1> QED BY <1>3, <1>4, Zenon DEF h, I

LEMMA RowsMatchIs ==
  ASSUME Types
  PROVE  RowsMatch <=> \A u \in Users : Matches(sessions, attendance[u], u)
<1>1. ASSUME NEW u \in Users
      PROVE  /\ Came(u) <=> Of(sessions, u) # {}
             /\ OpenOf(u) = {} <=> \A i \in Of(sessions, u) : sessions[i].left # None
             /\ {i \in DOMAIN sessions : sessions[i].user = u} = Of(sessions, u)
  BY DEF Came, OpenOf, Open, Of
<1>2. ASSUME NEW u \in Users, OpenOf(u) = {}
      PROVE  SumFunctionOnSet(Stay(sessions), {i \in DOMAIN sessions : sessions[i].user = u})
               = Total(sessions, u, 0)
  <2>1. SumFunctionOnSet(Stay(sessions), Of(sessions, u)) = Total(sessions, u, 0)
    BY <1>1, <1>2, StayTotal DEF Types
  <2> QED BY <2>1, Zenon DEF Of
<1>3. RowsMatch <=>
        \A u \in Users :
          /\ attendance[u].status = IF Came(u) THEN "present" ELSE "absent"
          /\ OpenOf(u) = {} =>
               attendance[u].duration =
                 SumFunctionOnSet(Stay(sessions), {i \in DOMAIN sessions : sessions[i].user = u})
  BY Zenon DEF RowsMatch, Stay
<1> QED BY <1>1, <1>2, <1>3 DEF Matches

\* The rows sync computes agree with the sessions its transaction leaves.
LEMMA RowsRight ==
  ASSUME Base, Present, NEW c \in Calls, NEW u \in DOMAIN SyncRows(c)
  PROVE  Matches(Visible(c), SyncRows(c)[u], u)
<1> DEFINE V == Visible(c)
           r == RefOf(c)
<1>t. Types
  BY DEF Base
<1>1. u \in Users /\ SyncRows(c)[u] = SyncRow(V, u, r)
  BY <1>t, SyncRowsIs
<1>2. V \in Seq(Session) /\ r \in Int /\ 0 \in Int
  <2>1. V \in Seq(Session)
    BY <1>t, VisibleIs
  <2>2. r \in Int
    BY <1>t, RefIs, TimesInt
  <2> QED BY <2>1, <2>2
<1>3. Of(V, u) = {} => ~Came(u)
  BY <1>t, VisibleOf
<1> HIDE DEF V, r
<1>4. CASE Of(V, u) # {}
  <2>1. SyncRow(V, u, r).status = "present" /\ SyncRow(V, u, r).duration = Total(V, u, r)
    BY <1>t, <1>1, <1>2, <1>4, SyncRowType
  <2>2. ASSUME \A i \in Of(V, u) : V[i].left # None
        PROVE  Total(V, u, r) = Total(V, u, 0)
    <3>1. \A i \in Of(V, u) : Duration(V[i], r) = Duration(V[i], 0)
      <4>1. \A i \in Of(V, u) : V[i] \in Session
        BY <1>2, OfFinite
      <4> QED BY <1>2, <2>2, <4>1, DurationSame
    <3> QED BY <1>2, <3>1, TotalSame
  <2> QED BY <1>1, <1>4, <2>1, <2>2 DEF Matches, V
<1>5. CASE Of(V, u) = {}
  <2>1. Total(V, u, 0) = 0
    BY <1>2, <1>5, TotalNone
  <2>2. RowOf(attendance[u], Came(u)) /\ attendance[u] \in Row
    BY <1>t, <1>1 DEF Present, Types
  <2>3. SyncRow(V, u, r).status = "absent" /\ SyncRow(V, u, r).duration = 0
    <3>1. CASE attendance[u].status = "none"
      <4>1. SyncRow(V, u, r) = Absent
        BY <1>t, <1>1, <1>2, <1>5, <3>1, SyncRowType
      <4> QED BY <4>1 DEF Absent
    <3>2. CASE attendance[u].status # "none"
      <4>1. SyncRow(V, u, r) = attendance[u]
        BY <1>t, <1>1, <1>2, <1>5, <3>2, SyncRowType
      <4> QED BY <1>3, <1>5, <2>2, <3>2, <4>1 DEF RowOf, Row
    <3> QED BY <3>1, <3>2
  <2> QED BY <1>1, <1>5, <2>1, <2>3 DEF Matches, V
<1> QED BY <1>4, <1>5

\* Whose rows a transaction that finalizes, recalculates or views the history writes.
LEMMA EverybodysRows ==
  ASSUME Types, NEW c \in Calls, call[c].job \in {"finalize", "history"}, call[c].seen.start # None
  PROVE  DOMAIN SyncRows(c) = Users
<1>1. DOMAIN SyncRows(c) = SyncTargets(c, Visible(c))
  BY SyncRowsIs
<1> QED BY <1>1 DEF SyncTargets

\* The rows such a transaction writes, nothing having come between, all match.
LEMMA WriteMatches ==
  ASSUME Base, Present, NEW c \in Calls, NEW h, Writes(c, h), call[c].rows = SyncRows(c),
         call[c].job \in {"finalize", "history"}, call[c].seen.start # None
  PROVE  \A u \in Users : Matches(sessions', attendance'[u], u)
<1>1. DOMAIN SyncRows(c) = Users
  BY EverybodysRows DEF Base
<1>2. ASSUME NEW u \in Users
      PROVE  Matches(sessions', attendance'[u], u)
  <2>1. attendance'[u] = SyncRows(c)[u]
    BY <1>1 DEF Writes
  <2>2. Matches(Visible(c), SyncRows(c)[u], u)
    BY <1>1, RowsRight
  <2>3. sessions' = Visible(c)
    BY DEF Writes
  <2> QED BY <2>1, <2>2, <2>3, Zenon
<1> QED BY <1>2

-----------------------------------------------------------------------------
(* After the end of a meeting whose transactions did not overlap, the rows *)
(* match the sessions once nobody is finalizing.                           *)

Settled == Open(sessions) = {} /\ \A u \in Users : Matches(sessions, attendance[u], u)

SettledInv ==
  Without({"crossed", "late", "cut", "stale"}) /\ meeting.status = "ended" =>
    Settled \/ \E c \in Calls : Finalizing(c)

LEMMA VisibleUnchanged ==
  ASSUME Types, NEW c \in Calls, call[c].job # "join", call[c].closes = {}
  PROVE  Visible(c) = sessions
<1>1. Visible(c) \in Seq(Session) /\ sessions \in Seq(Session) /\ DOMAIN Visible(c) = DOMAIN sessions
  BY VisibleIs DEF Types
<1>2. Len(Visible(c)) = Len(sessions)
  BY <1>1, LenProperties
<1>3. \A i \in 1..Len(Visible(c)) : Visible(c)[i] = sessions[i]
  BY <1>1, VisibleIs, LenProperties
<1> HIDE DEF Types
<1> QED BY <1>1, <1>2, <1>3, SeqEqual

LEMMA SettledNext ==
  ASSUME Base, Images, TimedInv, AloneInv, Present, SettledInv, Next
  PROVE  SettledInv'
<1> SUFFICES ASSUME mishaps' \cap {"crossed", "late", "cut", "stale"} = {}, meeting'.status = "ended"
             PROVE  Settled' \/ \E d \in Calls : Finalizing(d)'
  BY DEF SettledInv, Without
<1>t. Types
  BY DEF Base
<1>0. Schedule \/ Tick \/ \E c \in Calls : StepOf(c)
  BY Steps
<1>1. CASE Schedule
  BY <1>1 DEF Schedule, Unborn
<1>2. CASE Tick
  <2>1. (Settled \/ \E d \in Calls : Finalizing(d)) /\ UNCHANGED <<sessions, attendance, call>>
    BY <1>2 DEF Tick, SettledInv, Without
  <2> QED BY <2>1 DEF Settled, Finalizing, HasTimes, InTransaction
<1>3. ASSUME NEW c \in Calls, StepOf(c)
      PROVE  Settled' \/ \E d \in Calls : Finalizing(d)'
  <2>o. \A d \in Calls : d # c => call'[d] = call[d]
    BY <1>3, StepOthers
  <2>g. mishaps \cap {"crossed", "late", "cut", "stale"} = {} /\ Alone
    BY <1>3, StepGrows DEF AloneInv
  <2>k. ASSUME meeting'.status = meeting.status, UNCHANGED sessions,
               Settled => UNCHANGED attendance,
               Finalizing(c) => Finalizing(c)'
        PROVE  Settled' \/ \E d \in Calls : Finalizing(d)'
    <3>1. Settled \/ \E d \in Calls : Finalizing(d)
      BY <2>g, <2>k DEF SettledInv, Without
    <3>2. ASSUME NEW d \in Calls, Finalizing(d)
          PROVE  Finalizing(d)'
      <4>1. CASE d = c
        BY <2>k, <3>2, <4>1
      <4>2. CASE d # c
        BY <2>o, <2>k, <3>2, <4>2 DEF Finalizing, HasTimes, InTransaction
      <4> QED BY <4>1, <4>2
    <3>3. Settled => Settled'
      BY <2>k DEF Settled
    <3> QED BY <3>1, <3>2, <3>3
  <2>1. ASSUME NEW job \in Jobs, NEW u \in Users, Reads(c, job, u)
        PROVE  Settled' \/ \E d \in Calls : Finalizing(d)'
    BY <2>k, <2>1, IdleColumns DEF Reads, Finalizing
  <2>2. CASE Founds(c) \/ Starts(c)
    BY <2>2, MeetsOf DEF Founds, Starts
  <2>3. CASE Ends(c)
    BY <2>3, EndsFinalizes
  <2>4. CASE Edits(c)
    BY <2>k, <2>4 DEF Edits, Unlike, Finalizing
  <2>5. CASE Fills(c)
    <3>1. ASSUME Settled
          PROVE  attendance' = attendance
      <4>1. \A u \in Users : attendance[u] # NoRow
        BY <3>1 DEF Settled, Matches, NoRow
      <4>2. attendance' = [u \in Users |-> attendance[u]]
        BY <2>5, <4>1 DEF Fills
      <4> QED BY <1>t, <4>2 DEF Types
    <3> QED BY <2>k, <2>5, <3>1 DEF Fills, Finalizing
  <2>6. ASSUME NEW closes, NEW t, Looks(c, closes, t)
        PROVE  Settled' \/ \E d \in Calls : Finalizing(d)'
    <3>1. /\ call'[c].job = call[c].job /\ call'[c].seen = call[c].seen /\ call'[c].closes = closes
          /\ call[c].job = "finalize" => closes = Open(sessions)
          /\ UNCHANGED <<meeting, sessions, attendance>>
      BY <2>6, StepColumns DEF Looks
    <3>2. Finalizing(c) => Finalizing(c)'
      BY <3>1 DEF Finalizing, HasTimes, InTransaction
    <3> QED BY <2>k, <3>1, <3>2
  <2>7. CASE Counts(c)
    <3>1. /\ call'[c].job = call[c].job /\ call'[c].seen = call[c].seen
          /\ call'[c].closes = call[c].closes /\ call[c].step = "looked"
          /\ UNCHANGED <<meeting, sessions, attendance>>
      BY <2>7, StepColumns DEF Counts
    <3>2. Finalizing(c) => Finalizing(c)'
      BY <3>1 DEF Finalizing, HasTimes, InTransaction
    <3> QED BY <2>k, <3>1, <3>2
  <2>8. CASE Drops(c)
    <3>1. ~Finalizing(c)
      BY <2>8 DEF Drops, Finalizing
    <3> QED BY <2>k, <2>8, <3>1 DEF Drops
  <2>9. ASSUME NEW h, Writes(c, h)
        PROVE  Settled' \/ \E d \in Calls : Finalizing(d)'
    <3>1. call[c].job # "join" /\ meeting'.status = meeting.status /\ sessions' = Visible(c) /\ InTransaction(c)
      BY <2>9 DEF Writes, InTransaction
    <3>2. call[c].rows = SyncRows(c)
      BY <2>g, <2>9 DEF Writes, Alone
    <3>3. Settled \/ \E d \in Calls : Finalizing(d)
      BY <2>g, <3>1 DEF SettledInv, Without
    <3>4. CASE Settled
      <4>1. call[c].closes = {}
        BY <3>4 DEF Settled, Base, Locks, Locking
      <4>2. sessions' = sessions /\ Visible(c) = sessions
        BY <1>t, <3>1, <4>1, VisibleUnchanged
      <4>3. ASSUME NEW u \in Users
            PROVE  Matches(sessions, attendance'[u], u)
        <5>1. CASE u \in DOMAIN SyncRows(c)
          <6>1. Matches(Visible(c), SyncRows(c)[u], u)
            BY <5>1, RowsRight
          <6>2. attendance'[u] = SyncRows(c)[u]
            BY <2>9, <3>2, <5>1 DEF Writes
          <6> QED BY <4>2, <6>1, <6>2, Zenon
        <5>2. CASE u \notin DOMAIN SyncRows(c)
          <6>1. attendance'[u] = attendance[u]
            BY <2>9, <3>2, <5>2 DEF Writes
          <6> QED BY <3>4, <6>1 DEF Settled
        <5> QED BY <5>1, <5>2
      <4>4. \A u \in Users : Matches(sessions', attendance'[u], u)
        BY <4>2, <4>3, Zenon
      <4>5. Open(sessions') = {}
        BY <3>4, <4>2 DEF Settled
      <4> QED BY <4>4, <4>5 DEF Settled
    <3>5. ASSUME NEW d \in Calls, Finalizing(d)
          PROVE  Settled' \/ Finalizing(d)'
      <4>1. CASE d = c
        <5>1. call[c].job = "finalize" /\ call[c].seen.start # None /\ call[c].closes = Open(sessions)
          BY <3>1, <3>5, <4>1 DEF Finalizing, HasTimes
        <5>2. call[c].closes # {} => call[c].time # None
          <6>1. call[c].closes # {} => 1 <= call[c].time
            BY DEF Base, Clock, InTime
          <6> QED BY <6>1 DEF None
        <5>3. Open(Visible(c)) = {}
          BY <1>t, <3>1, <5>1, <5>2, VisibleCloses
        <5>4. Open(sessions') = {}
          BY <3>1, <5>3, Zenon
        <5>5. \A u \in Users : Matches(sessions', attendance'[u], u)
          BY <2>9, <3>2, <5>1, WriteMatches
        <5> QED BY <5>4, <5>5 DEF Settled
      <4>2. CASE d # c
        <5>1. ~InTransaction(d)
          BY <2>g, <3>1, <4>2 DEF Alone
        <5> QED BY <2>o, <3>5, <4>2, <5>1 DEF Finalizing, HasTimes, InTransaction
      <4> QED BY <4>1, <4>2
    <3> QED BY <3>3, <3>4, <3>5
  <2> QED BY <1>3, <2>1, <2>2, <2>3, <2>4, <2>5, <2>6, <2>7, <2>8, <2>9 DEF StepOf
<1> QED BY <1>0, <1>1, <1>2, <1>3

-----------------------------------------------------------------------------
(* The inductive invariant, and what follows from it. *)

IInv ==
  /\ Base /\ Images /\ TimedInv /\ AloneInv /\ Present
  /\ WithinInv /\ ClosingInv /\ SettledInv

LEMMA IInvInit ==
  ASSUME Init
  PROVE  IInv
<1>c. \A c \in Calls : call[c] = Idle
  BY DEF Init
<1>m. meeting.status = "none" /\ meeting.start = None /\ DOMAIN sessions = {}
  BY DEF Init, Unborn
<1>n. DOMAIN NoRows = {}
  BY DEF NoRows
<1>1. Base /\ TimedInv
  BY BaseInit, TimedInit
<1>2. Images
  BY <1>c, IdleColumns DEF Images, Imaged
<1>3. AloneInv
  BY <1>c, <1>m, IdleColumns DEF AloneInv, Alone, InTransaction, OpenOf, Open
<1>4. Present
  <2>1. \A u \in Users : RowOf(attendance[u], Came(u))
    BY DEF Init, RowOf, NoRow
  <2> QED BY <1>c, <1>n, <2>1, IdleColumns DEF Present
<1>5. WithinInv /\ ClosingInv /\ SettledInv
  BY <1>m DEF WithinInv, ClosingInv, SettledInv
<1> QED BY <1>1, <1>2, <1>3, <1>4, <1>5 DEF IInv

LEMMA IInvNext ==
  ASSUME IInv, [Next]_vars
  PROVE  IInv'
<1>1. CASE Next
  <2>1. Base'
    BY <1>1, TypesNext, ClockNext, LocksNext DEF IInv, Base
  <2>2. Images' /\ TimedInv' /\ AloneInv' /\ Present'
    BY <1>1, ImagesNext, TimedNext, AloneNext, PresentNext DEF IInv
  <2>3. WithinInv' /\ ClosingInv' /\ SettledInv'
    BY <1>1, WithinNext, ClosingNext, SettledNext DEF IInv
  <2> QED BY <2>1, <2>2, <2>3 DEF IInv
<1>2. CASE UNCHANGED vars
  <2>v. UNCHANGED <<now, meeting, sessions, attendance, call, mishaps>>
    BY <1>2 DEF vars
  <2>1. Base'
    BY <1>2, BaseStutter DEF IInv
  <2>2. Images' /\ Present'
    BY <2>v DEF IInv, Images, Present, Came, Joining
  <2>3. TimedInv'
    BY <2>v DEF IInv, TimedInv, Timed, Seen
  <2>c. \A d : (InTransaction(d)' <=> InTransaction(d)) /\ (Finalizing(d)' <=> Finalizing(d))
    BY <2>v DEF Finalizing, HasTimes, InTransaction
  <2>o. \A u : OpenOf(u)' = OpenOf(u) /\ Closed(u)' = Closed(u)
    BY <2>v DEF OpenOf, Open, Closed
  <2>4. AloneInv'
    <3>1. \A d : SyncRows(d)' = SyncRows(d)
      BY <2>v, SyncReads
    <3> QED BY <2>v, <2>c, <2>o, <3>1 DEF IInv, AloneInv, Alone
  <2>5. WithinInv'
    BY <2>v, <2>o DEF IInv, WithinInv, Without, Within, Bounded
  <2>6. ClosingInv' /\ SettledInv'
    BY <2>v, <2>c DEF IInv, ClosingInv, SettledInv, Without, Closing, Settled
  <2> QED BY <2>1, <2>2, <2>3, <2>4, <2>5, <2>6 DEF IInv
<1> QED BY <1>1, <1>2

THEOREM Invariant == Spec => []IInv
BY IInvInit, IInvNext, PTL DEF Spec

\* Once a meeting has ended and nobody is at work on it, no session is open,
\* however joins, leaves, webhooks and finalizations overlap, unless a join that
\* had seen the meeting ongoing commits after its end, a worker is cut short, or
\* the meeting is saved from a stale image.
THEOREM EndClosesSessions == Spec => []ClosedAtEnd
<1>1. ASSUME IInv
      PROVE  ClosedAtEnd
  <2>1. Quiet => \A c \in Calls : ~Finalizing(c)
    BY IdleColumns DEF Quiet, Finalizing
  <2> QED BY <1>1, <2>1 DEF ClosedAtEnd, IInv, ClosingInv, Closing
<1> QED BY <1>1, Invariant, PTL

\* A user has at most one open session as long as transactions do not overlap.
THEOREM OneSessionEach == Spec => []OneOpenUncrossed
<1>1. ASSUME IInv
      PROVE  OneOpenUncrossed
  <2>1. ASSUME Without({"crossed"}), NEW u \in Users
        PROVE  Cardinality(OpenOf(u)) <= 1
    <3>1. \A i, j \in OpenOf(u) : i = j
      BY <1>1, <2>1 DEF Without, IInv, AloneInv, Alone
    <3>2. CASE OpenOf(u) = {}
      BY <3>2, FS_EmptySet
    <3>3. CASE OpenOf(u) # {}
      <4>1. PICK i : OpenOf(u) = {i}
        BY <3>1, <3>3
      <4> QED BY <4>1, FS_Singleton
    <3> QED BY <3>2, <3>3
  <2> QED BY <2>1 DEF OneOpenUncrossed
<1> QED BY <1>1, Invariant, PTL

\* Nobody is marked present who has no session; nobody attends longer than the
\* meeting runs unless images were stale or transactions overlapped; and after the
\* end of a meeting without mishap every row is that of the user's sessions.
THEOREM RowsAtEnd == Spec => []EndedRowsMatch
<1>1. ASSUME IInv
      PROVE  EndedRowsMatch
  <2>1. \A u \in Users : attendance[u].status = "present" => Came(u)
    BY <1>1 DEF IInv, Present, RowOf
  <2>2. meeting.start # None /\ Without({"crossed", "stale"}) =>
          \A u \in Users : attendance[u].duration <= now - meeting.start
    BY <1>1 DEF IInv, WithinInv, Within
  <2>3. Quiet => \A c \in Calls : ~Finalizing(c)
    BY IdleColumns DEF Quiet, Finalizing
  <2>4. meeting.status = "ended" /\ Quiet /\ Without({"crossed", "late", "cut", "stale"}) => RowsMatch
    BY <1>1, <2>3, RowsMatchIs DEF IInv, Base, SettledInv, Settled
  <2> QED BY <2>1, <2>2, <2>4 DEF EndedRowsMatch
<1> QED BY <1>1, Invariant, PTL

\* Finalizing, recalculating or viewing the history of a meeting makes every row
\* right, whatever earlier calls lost or overwrote, if nothing was committed
\* between its count and its write.
THEOREM SyncRepairs == Spec => Repaired
<1>1. ASSUME IInv, IInv', NEW c \in Calls, Write(c),
             call[c].job \in {"finalize", "history"}, HasTimes(c), call[c].rows = SyncRows(c)
      PROVE  RowsMatch'
  <2>1. PICK h : Writes(c, h)
    BY <1>1, WritesStep DEF IInv
  <2>2. \A u \in Users : Matches(sessions', attendance'[u], u)
    BY <1>1, <2>1, WriteMatches DEF IInv, HasTimes
  <2>3. (Types => (RowsMatch <=> \A u \in Users : Matches(sessions, attendance[u], u)))'
    BY RowsMatchIs, PTL
  <2> QED BY <1>1, <2>2, <2>3 DEF IInv, Base
<1>2. IInv /\ IInv' =>
        [\A c \in Calls :
           /\ Write(c)
           /\ call[c].job \in {"finalize", "history"} /\ HasTimes(c)
           /\ call[c].rows = SyncRows(c)
           => RowsMatch']_vars
  BY <1>1
<1> QED BY <1>2, Invariant, PTL DEF Repaired

-----------------------------------------------------------------------------
(* The documents: types. *)

EditJobs == {"none", "item", "fill", "section", "note", "minutes"}
Drafts == {"none", "draft", "approved"}
EditRows ==
  [job : EditJobs, about : Orders \cup Items \cup {0}, step : {"read", "save"},
   row : Section, says : (Says \cup Drafts) \X Says, todo : SUBSET Orders]

\* What a request of each kind holds.
Held(k) ==
  /\ k \in EditRows
  /\ k.job = "none" => k = NoEdit
  /\ k.job \in {"item", "note"} => k.about \in Items /\ k.says[1] \in Says
  /\ k.job = "section" => /\ k.about \in Orders /\ k.row.is = "live" /\ k.says[1] \in Says
                          /\ k.step = "save" => k.says[1] = "yes"
  /\ k.job = "minutes" => k.about = 0 /\ k.says[1] \in Drafts
  /\ k.job = "fill" => k.about = 0

Typed ==
  /\ DocumentsTypeOK
  /\ edit = [c \in Editors |-> edit[c]] /\ \A c \in Editors : Held(edit[c])
  /\ \A k \in Orders : sections[k] = NoSection \/ sections[k].is = "live"
  /\ \A i \in Items : \/ Live(i) \/ items[i].is = "gone"
                      \/ items[i] = [is |-> "new", done |-> FALSE, stamped |-> FALSE]

-----------------------------------------------------------------------------
\* The image of a section is the row, or the row is gone with its agenda section.
SectionFresh(k) ==
  \/ k.row.from # 0 /\ agenda[k.row.from] = "gone"
  \/ k.step = "read" /\ sections[k.about] = k.row
  \/ k.step = "save" /\ sections[k.about] = [k.row EXCEPT !.working = FALSE]

ItemFresh(k) ==
  /\ Live(k.about)
  /\ k.row.done = items[k.about].done /\ k.row.stamped = items[k.about].stamped
  /\ k.step = "save" =>
       /\ k.says[2] = Stamp(k.row.done, k.says[1])
       /\ k.says[1] = "nothing" /\ k.row.done => "silent" \in slips

NoteFresh(k) == Live(k.about) /\ (k.says[1] = "yes" <=> notes[k.about] = 1)

Current(k) ==
  /\ k.job = "section" => SectionFresh(k)
  /\ k.job = "item" => ItemFresh(k)
  /\ k.job = "note" => NoteFresh(k)
  /\ k.job = "minutes" => k.says[1] = minutes

Apart(k, l) == k.job = l.job /\ k.job # "none" => k.job # "section" /\ k.about # l.about

\* As long as no two edits overlapped: no two requests are about one row, and what
\* a request has read is still so.
CurrentInv ==
  "overlap" \notin slips =>
    /\ \A c, d \in Editors : c # d => Apart(edit[c], edit[d])
    /\ \A c \in Editors : Current(edit[c])

\* One minute section is active at most, and none while a request is about to make
\* one active.
WorkingInv ==
  Barring({"overlap", "posted"}) =>
    /\ \A j, k \in Orders : sections[j].working /\ sections[k].working => j = k
    /\ \A c \in Editors : edit[c].job = "section" /\ edit[c].step = "save" =>
         \A k \in Orders : ~sections[k].working

\* Completed sections are stamped, in the table and in the images of it.
MarkInv ==
  "posted" \notin slips =>
    /\ \A k \in Orders : sections[k].done => sections[k].stamped
    /\ \A c \in Editors : edit[c].job = "section" => (edit[c].row.done => edit[c].row.stamped)

\* The inductive invariant of the documents.
DocumentsInv == Typed /\ CurrentInv /\ WorkingInv /\ MarkInv /\ ItemsSound

-----------------------------------------------------------------------------
\* A request that begins, goes on or ends replaces its own entry.
Becomes(c, k) == edit' = [edit EXCEPT ![c] = k]

LEMMA BecomesIs ==
  ASSUME Typed, NEW c \in Editors, NEW k, Becomes(c, k)
  PROVE  /\ edit' = [d \in Editors |-> edit'[d]]
         /\ edit'[c] = k /\ \A d \in Editors : d # c => edit'[d] = edit[d]
  BY DEF Typed, Becomes

\* The types of the rows, and those of the requests.
DocumentTypes ==
  /\ agenda \in [Orders -> {"new", "active", "inactive", "gone"}]
  /\ sections \in [Orders -> Section]
  /\ items \in [Items -> Item]
  /\ notes \in [Items -> Nat] /\ minutes \in {"none", "draft", "approved"}
  /\ \A k \in Orders : sections[k].from # 0 => Kept(sections[k].from)
  /\ \A i \in Items : (Live(i) => Housed(i)) /\ (notes[i] > 0 => Live(i))
  /\ \A k \in Orders : sections[k] = NoSection \/ sections[k].is = "live"
  /\ \A i \in Items : \/ Live(i) \/ items[i].is = "gone"
                      \/ items[i] = [is |-> "new", done |-> FALSE, stamped |-> FALSE]
EditTypes ==
  /\ edit = [c \in Editors |-> edit[c]] /\ \A c \in Editors : Held(edit[c])
Counters == edits \in 0..MaxEdits /\ slips \subseteq Slips

LEMMA TypedParts == Typed <=> DocumentTypes /\ EditTypes /\ Counters
  BY DEF Typed, DocumentsTypeOK, DocumentTypes, EditTypes, Counters, Held, EditRows, EditJobs

LEMMA IdleHeld == NoEdit \in EditRows /\ Held(NoEdit) /\ NoEdit.job = "none"
  BY DEF NoEdit, Held, EditRows, EditJobs, Section, NoSection, Is, Says, Drafts

LEMMA HoldingOn ==
  ASSUME EditTypes, NEW c \in Editors, NEW k, Becomes(c, k), Held(k)
  PROVE  EditTypes'
<1>1. /\ edit' = [d \in Editors |-> edit'[d]] /\ edit'[c] = k
      /\ \A d \in Editors : d # c => edit'[d] = edit[d]
  BY DEF EditTypes, Becomes
<1> QED BY <1>1 DEF EditTypes

LEMMA InitTyped == DocumentsInit => Typed
<1> SUFFICES ASSUME DocumentsInit PROVE Typed
  OBVIOUS
<1>1. DocumentTypes
  BY DocumentsAssumptions DEF DocumentsInit, DocumentTypes, Section, NoSection, Is, Item, Live,
     Housed, Kept
<1>2. EditTypes
  BY IdleHeld DEF DocumentsInit, EditTypes
<1>3. Counters
  BY DocumentsAssumptions DEF DocumentsInit, Counters
<1> QED BY <1>1, <1>2, <1>3, TypedParts

\* What the actions do to the rows keeps their types.
LEMMA AgendaTyped ==
  ASSUME DocumentTypes, NEW k \in Orders, AddAgendaSection(k) \/ ActivateAgendaSection(k)
  PROVE  DocumentTypes' /\ UNCHANGED edit
<1>1. \A j \in Orders : Kept(j) => Kept(j)'
  BY DEF DocumentTypes, Kept, AddAgendaSection, ActivateAgendaSection
<1>2. \A i \in Items : SectionOf[i] \in Orders \cup {0}
  BY DocumentsAssumptions
<1>3. agenda' \in [Orders -> {"new", "active", "inactive", "gone"}]
  BY DEF DocumentTypes, Kept, AddAgendaSection, ActivateAgendaSection
<1>4. UNCHANGED <<sections, items, notes, minutes, edit>>
  BY DEF AddAgendaSection, ActivateAgendaSection, AtOnce
<1>5. \A j \in Orders : sections[j].from \in Orders \cup {0}
  BY DEF DocumentTypes, Section
<1> QED BY <1>1, <1>2, <1>3, <1>4, <1>5 DEF DocumentTypes, Live, Housed

LEMMA DroppedTyped ==
  ASSUME DocumentTypes, NEW S \in SUBSET Items, Dropped(S)
  PROVE  /\ items' \in [Items -> Item] /\ notes' \in [Items -> Nat]
         /\ \A i \in S : items'[i].is = "gone" /\ notes'[i] = 0
         /\ \A i \in Items \ S : items'[i] = items[i] /\ notes'[i] = notes[i]
<1>1. \A i \in Items : [items[i] EXCEPT !.is = "gone"] \in Item /\ [items[i] EXCEPT !.is = "gone"].is = "gone"
  BY DEF DocumentTypes, Item, Is
<1> QED BY <1>1 DEF DocumentTypes, Dropped

LEMMA DeleteAgendaTyped ==
  ASSUME DocumentTypes, NEW k \in Orders, DeleteAgendaSection(k)
  PROVE  DocumentTypes' /\ UNCHANGED edit
<1>1. /\ agenda' = [agenda EXCEPT ![k] = "gone"]
      /\ sections' = [j \in Orders |-> IF sections[j].from = k THEN NoSection ELSE sections[j]]
      /\ Dropped(Under(k)) /\ UNCHANGED <<minutes, edit>>
  BY DEF DeleteAgendaSection, SectionsWithout, AtOnce
<1>2. NoSection \in Section /\ NoSection.from = 0
  BY DEF NoSection, Section, Is
<1>3. Under(k) \in SUBSET Items
  BY DEF Under
<1>4. \A j \in Orders : sections[j].from \in Orders \cup {0}
  BY DEF DocumentTypes, Section
<1>5. agenda' \in [Orders -> {"new", "active", "inactive", "gone"}]
  BY <1>1 DEF DocumentTypes
<1>6. \A j \in Orders \ {k} : Kept(j) => Kept(j)'
  BY <1>1 DEF Kept, DocumentTypes
<1>7. sections' \in [Orders -> Section]
  BY <1>1, <1>2 DEF DocumentTypes
<1>8. \A j \in Orders : sections'[j] = NoSection \/ (sections'[j] = sections[j] /\ sections[j].from # k)
  BY <1>1
<1>9. \A j \in Orders : (sections[j].from # 0 => Kept(sections[j].from))'
  BY <1>2, <1>4, <1>6, <1>8 DEF DocumentTypes
<1>10. \A i \in Items : (Live(i) => Housed(i))' /\ (notes[i] > 0 => Live(i))'
  <2> SUFFICES ASSUME NEW i \in Items PROVE (Live(i) => Housed(i))' /\ (notes[i] > 0 => Live(i))'
    OBVIOUS
  <2>1. CASE i \in Under(k)
    BY <1>1, <1>3, <2>1, DroppedTyped DEF Live
  <2>2. CASE i \notin Under(k)
    <3>1. items'[i] = items[i] /\ notes'[i] = notes[i]
      BY <1>1, <1>3, <2>2, DroppedTyped
    <3>2. Live(i) => SectionOf[i] = 0 \/ (SectionOf[i] \in Orders \ {k} /\ Kept(SectionOf[i]))
      BY <2>2, DocumentsAssumptions DEF DocumentTypes, Under, Housed
    <3> QED BY <1>6, <3>1, <3>2 DEF DocumentTypes, Live, Housed
  <2> QED BY <2>1, <2>2
<1>11. \A i \in Items : (\/ Live(i) \/ items[i].is = "gone"
                         \/ items[i] = [is |-> "new", done |-> FALSE, stamped |-> FALSE])'
  BY <1>1, <1>3, DroppedTyped DEF DocumentTypes, Live
<1>12. items' \in [Items -> Item] /\ notes' \in [Items -> Nat]
  BY <1>1, <1>3, DroppedTyped
<1> QED BY <1>1, <1>5, <1>7, <1>8, <1>9, <1>10, <1>11, <1>12 DEF DocumentTypes

LEMMA ItemsTyped ==
  ASSUME DocumentTypes, NEW i \in Items,
         UNCHANGED <<agenda, sections, minutes>>, items' \in [Items -> Item], notes' \in [Items -> Nat],
         \A j \in Items \ {i} : items'[j] = items[j] /\ notes'[j] = notes[j],
         \/ items'[i].is = "live" /\ Housed(i)
         \/ items'[i].is = "gone" /\ notes'[i] = 0
  PROVE  DocumentTypes'
<1>1. \A j \in Items : Housed(j)' <=> Housed(j)
  BY DEF Housed, Kept
<1>2. \A j \in Items : (Live(j) => Housed(j))' /\ (notes[j] > 0 => Live(j))'
  BY <1>1 DEF DocumentTypes, Live
<1>3. \A j \in Items : (\/ Live(j) \/ items[j].is = "gone"
                        \/ items[j] = [is |-> "new", done |-> FALSE, stamped |-> FALSE])'
  BY DEF DocumentTypes, Live
<1> QED BY <1>2, <1>3 DEF DocumentTypes, Kept

LEMMA SectionsTyped ==
  ASSUME DocumentTypes, NEW k \in Orders, NEW s \in Section, s.is = "live",
         s.from # 0 => Kept(s.from),
         sections' = [sections EXCEPT ![k] = s], UNCHANGED <<agenda, items, notes, minutes>>
  PROVE  DocumentTypes'
<1>1. /\ sections' \in [Orders -> Section] /\ sections'[k] = s
      /\ \A j \in Orders \ {k} : sections'[j] = sections[j]
  BY DEF DocumentTypes
<1>2. \A j \in Orders : (sections[j].from # 0 => Kept(sections[j].from))'
  BY <1>1 DEF DocumentTypes, Kept
<1>3. \A j \in Orders : (sections[j] = NoSection \/ sections[j].is = "live")'
  BY <1>1 DEF DocumentTypes
<1> QED BY <1>1, <1>2, <1>3 DEF DocumentTypes, Live, Housed, Kept

LEMMA EntriesHeld ==
  ASSUME EditTypes, NEW c \in Editors
  PROVE  Held(edit[c]) /\ edit[c] \in EditRows
  BY DEF EditTypes, Held

LEMMA BeginTyped ==
  ASSUME EditTypes, Counters, NEW c \in Editors, NEW k, Begin(c, k), Held(k)
  PROVE  EditTypes' /\ Counters' /\ UNCHANGED tables
<1>1. Becomes(c, k)
  BY DEF Begin, Becomes
<1>2. Counters'
  BY DocumentsAssumptions DEF Begin, Note, Counters, Slips
<1> QED BY <1>1, <1>2, HoldingOn DEF Begin

\* The requests that begin.
ItemEdit(i, say) ==
  [NoEdit EXCEPT !.job = "item", !.about = i, !.row.done = items[i].done,
               !.row.stamped = items[i].stamped, !.says = <<say, "nothing">>]
SectionEdit(k, working, done) ==
  [NoEdit EXCEPT !.job = "section", !.about = k, !.row = sections[k], !.says = <<working, done>>]
NoteEdit(i) ==
  [NoEdit EXCEPT !.job = "note", !.about = i,
               !.says = <<IF notes[i] = 1 THEN "yes" ELSE "nothing", "nothing">>]
MinutesEdit(approve) == [NoEdit EXCEPT !.job = "minutes", !.says = <<minutes, approve>>]
FillEdit == [NoEdit EXCEPT !.job = "fill", !.todo = {k \in Orders : agenda[k] = "active"}]

LEMMA ItemEditIs ==
  ASSUME DocumentTypes, NEW i \in Items, NEW say \in Says
  PROVE  LET k == ItemEdit(i, say)
         IN /\ Held(k) /\ k.job = "item" /\ k.about = i /\ k.step = "read" /\ k.says = <<say, "nothing">>
            /\ k.row.done = items[i].done /\ k.row.stamped = items[i].stamped
<1> DEFINE k == ItemEdit(i, say)
<1>1. items[i].done \in BOOLEAN /\ items[i].stamped \in BOOLEAN
  BY DEF DocumentTypes, Item
<1>2. <<say, "nothing">> \in (Says \cup Drafts) \X Says
  BY DEF Says
<1>3. NoEdit \in EditRows /\ NoEdit.step = "read"
  BY IdleHeld DEF NoEdit
<1>4. k \in EditRows /\ k.job = "item" /\ k.about = i /\ k.says = <<say, "nothing">> /\ k.step = "read"
      /\ k.row.done = items[i].done /\ k.row.stamped = items[i].stamped
  BY <1>1, <1>2, <1>3 DEF EditRows, EditJobs, Section, ItemEdit
<1> HIDE DEF k
<1> QED BY <1>4 DEF Held, k

LEMMA SectionEditIs ==
  ASSUME DocumentTypes, NEW k \in Orders, k \in Sections, NEW working \in Says, NEW done \in Says
  PROVE  LET e == SectionEdit(k, working, done)
         IN /\ Held(e) /\ e.job = "section" /\ e.about = k /\ e.step = "read"
            /\ e.says = <<working, done>> /\ e.row = sections[k]
<1> DEFINE e == SectionEdit(k, working, done)
<1>1. sections[k] \in Section /\ sections[k].is = "live"
  BY DEF DocumentTypes, Sections
<1>2. <<working, done>> \in (Says \cup Drafts) \X Says
  OBVIOUS
<1>3. NoEdit \in EditRows /\ NoEdit.step = "read"
  BY IdleHeld DEF NoEdit
<1>4. e \in EditRows /\ e.job = "section" /\ e.about = k /\ e.step = "read"
      /\ e.says = <<working, done>> /\ e.row = sections[k]
  BY <1>1, <1>2, <1>3 DEF EditRows, EditJobs, SectionEdit
<1> HIDE DEF e
<1> QED BY <1>1, <1>4 DEF Held, e

LEMMA NoteEditIs ==
  ASSUME NEW i \in Items
  PROVE  LET k == NoteEdit(i)
         IN /\ Held(k) /\ k.job = "note" /\ k.about = i /\ k.step = "read"
            /\ (k.says[1] = "yes" <=> notes[i] = 1)
<1> DEFINE k == NoteEdit(i)
           s == <<IF notes[i] = 1 THEN "yes" ELSE "nothing", "nothing">>
<1>1. s \in (Says \cup Drafts) \X Says /\ s[1] \in Says /\ (s[1] = "yes" <=> notes[i] = 1)
  BY DEF Says
<1>2. NoEdit \in EditRows /\ NoEdit.step = "read"
  BY IdleHeld DEF NoEdit
<1>3. k = [NoEdit EXCEPT !.job = "note", !.about = i, !.says = s]
  BY DEF NoteEdit
<1> HIDE DEF k, s
<1>4. k \in EditRows /\ k.job = "note" /\ k.about = i /\ k.says = s /\ k.step = "read"
  BY <1>1, <1>2, <1>3 DEF EditRows, EditJobs
<1> QED BY <1>1, <1>4 DEF Held, k

LEMMA MinutesEditIs ==
  ASSUME DocumentTypes, NEW approve \in Says
  PROVE  LET k == MinutesEdit(approve)
         IN /\ Held(k) /\ k.job = "minutes" /\ k.about = 0 /\ k.step = "read"
            /\ k.says = <<minutes, approve>> /\ minutes \in Drafts
<1> DEFINE k == MinutesEdit(approve)
<1>1. <<minutes, approve>> \in (Says \cup Drafts) \X Says /\ minutes \in Drafts
  BY DEF DocumentTypes, Drafts
<1>2. NoEdit \in EditRows /\ NoEdit.about = 0 /\ NoEdit.step = "read"
  BY IdleHeld DEF NoEdit
<1>3. k \in EditRows /\ k.job = "minutes" /\ k.about = 0 /\ k.says = <<minutes, approve>> /\ k.step = "read"
  BY <1>1, <1>2 DEF EditRows, EditJobs, MinutesEdit
<1> HIDE DEF k
<1> QED BY <1>1, <1>3 DEF Held, k

LEMMA FillEditIs ==
  Held(FillEdit) /\ FillEdit.job = "fill" /\ FillEdit.about = 0 /\ FillEdit.step = "read"
<1>1. NoEdit \in EditRows /\ NoEdit.about = 0 /\ NoEdit.step = "read"
  BY IdleHeld DEF NoEdit
<1>2. FillEdit \in EditRows /\ FillEdit.job = "fill" /\ FillEdit.about = 0 /\ FillEdit.step = "read"
  BY <1>1 DEF FillEdit, EditRows, EditJobs
<1> QED BY <1>2 DEF Held

\* Reading requests begin; AtOnce is a request of one statement.
LEMMA ReadingTyped ==
  ASSUME DocumentTypes, EditTypes, Counters, NEW c \in Editors,
         \/ \E i \in Items : ReadItem(c, i) \/ LookNote(c, i)
         \/ ListAgenda(c) \/ ReadMinutes(c)
         \/ \E k \in Orders : ReadSection(c, k)
  PROVE  DocumentTypes' /\ EditTypes' /\ Counters'
<1>1. SUFFICES \E k : Begin(c, k) /\ Held(k)
  <2>1. ASSUME NEW k, Begin(c, k), Held(k) PROVE DocumentTypes' /\ EditTypes' /\ Counters'
    BY <2>1, BeginTyped DEF tables, DocumentTypes, Live, Housed, Kept
  <2> QED BY <2>1
<1>2. ASSUME NEW i \in Items, ReadItem(c, i) PROVE \E k : Begin(c, k) /\ Held(k)
  <2>1. PICK say \in Says : Begin(c, ItemEdit(i, say))
    BY <1>2 DEF ReadItem, ItemEdit
  <2> QED BY <2>1, ItemEditIs
<1>3. ASSUME NEW i \in Items, LookNote(c, i) PROVE \E k : Begin(c, k) /\ Held(k)
  <2>1. Begin(c, NoteEdit(i))
    BY <1>3 DEF LookNote, NoteEdit
  <2> QED BY <2>1, NoteEditIs
<1>4. ASSUME ListAgenda(c) PROVE \E k : Begin(c, k) /\ Held(k)
  <2>1. Begin(c, FillEdit)
    BY <1>4 DEF ListAgenda, FillEdit
  <2> QED BY <2>1, FillEditIs
<1>5. ASSUME ReadMinutes(c) PROVE \E k : Begin(c, k) /\ Held(k)
  <2>1. PICK approve \in Says : Begin(c, MinutesEdit(approve))
    BY <1>5 DEF ReadMinutes, MinutesEdit
  <2> QED BY <2>1, MinutesEditIs
<1>6. ASSUME NEW k \in Orders, ReadSection(c, k) PROVE \E e : Begin(c, e) /\ Held(e)
  <2>1. PICK working \in Says, done \in Says : Begin(c, SectionEdit(k, working, done))
    BY <1>6 DEF ReadSection, SectionEdit
  <2>2. k \in Sections
    BY <1>6 DEF ReadSection
  <2> QED BY <2>1, <2>2, SectionEditIs
<1> QED BY <1>2, <1>3, <1>4, <1>5, <1>6

\* A request that goes on.
LEMMA OngoingTyped ==
  ASSUME DocumentTypes, EditTypes, Counters, NEW c \in Editors,
         TrackCompletion(c) \/ Deactivate(c) \/ FillSection(c)
  PROVE  \E k \in EditRows : /\ Becomes(c, k) /\ Held(k) /\ k.job = edit[c].job /\ k.about = edit[c].about
                          /\ k.row = edit[c].row /\ k.says[1] = edit[c].says[1]
<1> DEFINE e == edit[c]
<1>0. e \in EditRows /\ Held(e)
  BY EntriesHeld
<1>1. CASE TrackCompletion(c)
  <2> DEFINE s == <<e.says[1], Stamp(items[e.about].done, e.says[1])>>
             k == [e EXCEPT !.step = "save", !.says = s]
  <2>1. Becomes(c, k) /\ e.job = "item"
    BY <1>1 DEF TrackCompletion, Becomes
  <2>2. Stamp(items[e.about].done, e.says[1]) \in Says
    BY DEF Stamp, Says
  <2>3. s \in (Says \cup Drafts) \X Says /\ s[1] = e.says[1]
    BY <1>0, <2>2 DEF EditRows
  <2> HIDE DEF e, s
  <2>4. k \in EditRows /\ k.job = e.job /\ k.about = e.about /\ k.row = e.row /\ k.says = s
    BY <1>0, <2>3 DEF EditRows
  <2> HIDE DEF k
  <2> QED BY <1>0, <2>1, <2>3, <2>4 DEF Held, e
<1>2. CASE Deactivate(c)
  <2> DEFINE k == [e EXCEPT !.step = "save"]
  <2>1. Becomes(c, k) /\ e.job = "section" /\ e.says[1] = "yes"
    BY <1>2 DEF Deactivate, Goto, Becomes
  <2> HIDE DEF e
  <2>2. k \in EditRows /\ k.job = e.job /\ k.about = e.about /\ k.row = e.row /\ k.says = e.says
    BY <1>0 DEF EditRows
  <2> HIDE DEF k
  <2> QED BY <1>0, <2>1, <2>2 DEF Held, e
<1>3. CASE FillSection(c)
  <2> DEFINE j == CHOOSE j \in e.todo : \A l \in e.todo : j <= l
             k == [e EXCEPT !.todo = e.todo \ {j}]
  <2>1. Becomes(c, k) /\ e.job = "fill"
    BY <1>3 DEF FillSection, Becomes
  <2> HIDE DEF e, j
  <2>2. k \in EditRows /\ k.job = e.job /\ k.about = e.about /\ k.row = e.row /\ k.says = e.says
    BY <1>0 DEF EditRows
  <2> HIDE DEF k
  <2> QED BY <1>0, <2>1, <2>2 DEF Held, e
<1> QED BY <1>1, <1>2, <1>3

\* The sections that are saved.
LEMMA SavedIs ==
  ASSUME NEW row \in Section, NEW working \in Says, NEW done \in Says
  PROVE  SavedSection(row, working, done) \in Section
  BY DEF SavedSection, Section, Is, Said

LEMMA SayingBoolean ==
  ASSUME NEW b \in BOOLEAN, NEW say
  PROVE  Said(b, say) \in BOOLEAN
  BY DEF Said

\* Requests of one statement, and those that end.
LEMMA AtOnceTyped ==
  ASSUME EditTypes, Counters, AtOnce,
         slips' = slips \/ \E kind \in Slips : slips' = slips \cup {kind}
  PROVE  EditTypes' /\ Counters'
<1>1. edit' = edit /\ edits' \in 0..MaxEdits
  BY DocumentsAssumptions DEF AtOnce, Counters
<1> QED BY <1>1 DEF EditTypes, Counters

LEMMA EndTyped ==
  ASSUME EditTypes, Counters, NEW c \in Editors, End(c), UNCHANGED slips
  PROVE  EditTypes' /\ Counters' /\ Becomes(c, NoEdit)
<1>1. Becomes(c, NoEdit)
  BY DEF End, Becomes
<1> QED BY <1>1, IdleHeld, HoldingOn DEF End, Counters

\* One row about to be saved is found by its place.
LEMMA NextPlace ==
  ASSUME NEW c \in Editors, EditTypes, FillSection(c)
  PROVE  \E k \in Orders \ Sections :
           /\ Kept(k) /\ sections' = [sections EXCEPT ![k] = [NoSection EXCEPT !.is = "live", !.from = k]]
<1> DEFINE todo == edit[c].todo
           k == CHOOSE k \in todo : \A j \in todo : k <= j
<1>1. todo \subseteq Orders /\ todo # {} /\ todo \subseteq Nat
  BY EntriesHeld, DocumentsAssumptions DEF EditRows, FillSection
<1>2. k \in todo
  BY <1>1, LeastNumber
<1> QED BY <1>1, <1>2 DEF FillSection

LEMMA NewSections ==
  /\ \A k \in Orders : LET s == [NoSection EXCEPT !.is = "live", !.from = k]
       IN s \in Section /\ s.is = "live" /\ s.from = k /\ ~s.working /\ ~s.done /\ ~s.stamped
  /\ \A working, done \in BOOLEAN :
       LET s == [NoSection EXCEPT !.is = "live", !.working = working, !.done = done]
       IN s \in Section /\ s.is = "live" /\ s.from = 0 /\ s.working = working /\ s.done = done
  /\ NoSection \in Section /\ NoSection.from = 0
  /\ ~NoSection.working /\ ~NoSection.done /\ ~NoSection.stamped /\ NoSection.is = "new"
<1> DEFINE Plain(s) == s \in Section /\ s.from = 0 /\ ~s.working /\ ~s.done /\ ~s.stamped
<1>1. Plain(NoSection) /\ NoSection.is = "new"
  BY DEF NoSection, Section, Is
<1>2. ASSUME NEW s, Plain(s), NEW k \in Orders
      PROVE  LET t == [s EXCEPT !.is = "live", !.from = k]
             IN t \in Section /\ t.is = "live" /\ t.from = k /\ ~t.working /\ ~t.done /\ ~t.stamped
  BY <1>2 DEF Section, Is
<1>3. ASSUME NEW s, Plain(s), NEW working \in BOOLEAN, NEW done \in BOOLEAN
      PROVE  LET t == [s EXCEPT !.is = "live", !.working = working, !.done = done]
             IN t \in Section /\ t.is = "live" /\ t.from = 0 /\ t.working = working /\ t.done = done
  BY <1>3 DEF Section, Is
<1> QED BY <1>1, <1>2, <1>3

LEMMA NextTyped == Typed /\ [DocumentsNext]_documents => Typed'
<1> SUFFICES ASSUME DocumentTypes, EditTypes, Counters, [DocumentsNext]_documents
             PROVE  DocumentTypes' /\ EditTypes' /\ Counters'
  BY TypedParts, PTL
<1>1. ASSUME NEW k \in Orders, AddAgendaSection(k) \/ ActivateAgendaSection(k)
      PROVE  DocumentTypes' /\ EditTypes' /\ Counters'
  BY <1>1, AgendaTyped, AtOnceTyped DEF AddAgendaSection, ActivateAgendaSection
<1>2. ASSUME NEW k \in Orders, DeleteAgendaSection(k)
      PROVE  DocumentTypes' /\ EditTypes' /\ Counters'
  BY <1>2, DeleteAgendaTyped, AtOnceTyped DEF DeleteAgendaSection, Dropped, Note, Slips
<1>3. ASSUME NEW k \in Orders, AddSection(k)
      PROVE  DocumentTypes' /\ EditTypes' /\ Counters'
  <2>1. PICK working \in BOOLEAN, done \in BOOLEAN :
          /\ sections' = [sections EXCEPT ![k] =
               [NoSection EXCEPT !.is = "live", !.working = working, !.done = done]]
          /\ Note("posted", working \/ done)
    BY <1>3 DEF AddSection
  <2>2. DocumentTypes'
    BY <1>3, <2>1, NewSections, SectionsTyped DEF AddSection
  <2> QED BY <1>3, <2>1, <2>2, AtOnceTyped DEF AddSection, Note, Slips
<1>4. ASSUME NEW i \in Items, AddItem(i)
      PROVE  DocumentTypes' /\ EditTypes' /\ Counters'
  <2>1. PICK done \in BOOLEAN :
          /\ items' = [items EXCEPT ![i] = [is |-> "live", done |-> done, stamped |-> FALSE]]
          /\ Note("born", done)
    BY <1>4 DEF AddItem
  <2>2. /\ items' \in [Items -> Item] /\ notes' \in [Items -> Nat]
        /\ items'[i].is = "live" /\ \A j \in Items \ {i} : items'[j] = items[j] /\ notes'[j] = notes[j]
    BY <1>4, <2>1 DEF AddItem, DocumentTypes, Item, Is
  <2>3. DocumentTypes'
    BY <1>4, <2>2, ItemsTyped DEF AddItem
  <2> QED BY <1>4, <2>1, <2>3, AtOnceTyped DEF AddItem, Note, Slips
<1>5. ASSUME NEW i \in Items, DeleteItem(i)
      PROVE  DocumentTypes' /\ EditTypes' /\ Counters'
  <2>1. Dropped({i})
    BY <1>5 DEF DeleteItem
  <2>2. DocumentTypes'
    BY <1>5, <2>1, DroppedTyped, ItemsTyped DEF DeleteItem
  <2> QED BY <1>5, <2>1, <2>2, AtOnceTyped DEF DeleteItem, Dropped, Note, Slips
<1>6. ASSUME NEW c \in Editors,
             \/ \E i \in Items : ReadItem(c, i) \/ LookNote(c, i)
             \/ ListAgenda(c) \/ ReadMinutes(c)
             \/ \E k \in Orders : ReadSection(c, k)
      PROVE  DocumentTypes' /\ EditTypes' /\ Counters'
  BY <1>6, ReadingTyped
<1>7. ASSUME NEW c \in Editors, TrackCompletion(c)
      PROVE  DocumentTypes' /\ EditTypes' /\ Counters'
  <2>1. EditTypes'
    BY <1>7, OngoingTyped, HoldingOn
  <2>2. Counters' /\ UNCHANGED tables
    BY <1>7 DEF TrackCompletion, Note, Slips, Counters
  <2> QED BY <2>1, <2>2 DEF tables, DocumentTypes, Live, Housed, Kept
<1>8. ASSUME NEW c \in Editors, SaveItem(c)
      PROVE  DocumentTypes' /\ EditTypes' /\ Counters'
  <2> DEFINE i == edit[c].about
             r == [is |-> "live", done |-> Said(edit[c].row.done, edit[c].says[1]),
                   stamped |-> Said(edit[c].row.stamped, edit[c].says[2])]
  <2>1. /\ i \in Items /\ Housed(i) /\ items' = [items EXCEPT ![i] = r]
        /\ UNCHANGED <<agenda, sections, notes, minutes>>
    BY <1>8, EntriesHeld DEF SaveItem, Held
  <2>2. edit[c].row \in Section
    BY EntriesHeld DEF EditRows
  <2>3. edit[c].row.done \in BOOLEAN /\ edit[c].row.stamped \in BOOLEAN
    BY <2>2 DEF Section
  <2>4. r \in Item /\ r.is = "live"
    BY <2>3, SayingBoolean DEF Item, Is
  <2> HIDE DEF i, r
  <2>5. DocumentTypes'
    BY <2>1, <2>4, ItemsTyped DEF DocumentTypes
  <2> QED BY <1>8, <2>5, EndTyped DEF SaveItem
<1>9. ASSUME NEW c \in Editors, FillSection(c)
      PROVE  DocumentTypes' /\ EditTypes' /\ Counters'
  <2>1. EditTypes'
    BY <1>9, OngoingTyped, HoldingOn
  <2>2. PICK k \in Orders \ Sections :
          /\ Kept(k) /\ sections' = [sections EXCEPT ![k] = [NoSection EXCEPT !.is = "live", !.from = k]]
    BY <1>9, NextPlace
  <2>3. Counters' /\ UNCHANGED <<agenda, items, notes, minutes>>
    BY <1>9 DEF FillSection, Counters
  <2>4. DocumentTypes'
    BY <2>2, <2>3, NewSections, SectionsTyped
  <2> QED BY <2>1, <2>3, <2>4
<1>10. ASSUME NEW c \in Editors, Deactivate(c)
       PROVE  DocumentTypes' /\ EditTypes' /\ Counters'
  <2>1. EditTypes'
    BY <1>10, OngoingTyped, HoldingOn
  <2>2. Counters' /\ sections' = Deactivated /\ UNCHANGED <<agenda, items, notes, minutes>>
    BY <1>10 DEF Deactivate, Goto, Counters
  <2>3. \A k \in Orders : /\ sections'[k] \in Section /\ sections'[k].is = sections[k].is
                          /\ sections'[k].from = sections[k].from
                          /\ sections[k] = NoSection => sections'[k] = NoSection
    <3>1. \A s \in Section : [s EXCEPT !.working = FALSE] \in Section
      BY DEF Section
    <3>2. \A s \in Section : LET t == [s EXCEPT !.working = FALSE] IN t.is = s.is /\ t.from = s.from
      BY DEF Section
    <3>3. \A s \in Section : ~s.working => [s EXCEPT !.working = FALSE] = s
      BY DEF Section
    <3>4. \A k \in Orders : sections[k] \in Section /\ sections'[k] = [sections[k] EXCEPT !.working = FALSE]
      BY <2>2 DEF DocumentTypes, Deactivated
    <3>5. NoSection \in Section /\ ~NoSection.working
      BY NewSections
    <3>6. \A k \in Orders : sections[k] = NoSection => sections'[k] = NoSection
      BY <3>3, <3>4, <3>5
    <3> QED BY <3>1, <3>2, <3>4, <3>6
  <2>4. sections' \in [Orders -> Section]
    BY <2>2, <2>3 DEF Deactivated
  <2>5. \A k \in Orders : (sections[k].from # 0 => Kept(sections[k].from))'
    BY <2>2, <2>3 DEF DocumentTypes, Kept
  <2>6. DocumentTypes'
    BY <2>2, <2>3, <2>4, <2>5 DEF DocumentTypes, Live, Housed, Kept
  <2> QED BY <2>1, <2>2, <2>6
<1>11. ASSUME NEW c \in Editors, SaveSection(c)
       PROVE  DocumentTypes' /\ EditTypes' /\ Counters'
  <2> DEFINE e == edit[c]
             s == SavedSection(e.row, e.says[1], e.says[2])
  <2>1. /\ e.about \in Orders /\ sections' = [sections EXCEPT ![e.about] = s]
        /\ e.row.from # 0 => Kept(e.row.from)
        /\ UNCHANGED <<agenda, items, notes, minutes>>
    BY <1>11, EntriesHeld DEF SaveSection, Held
  <2>2. e.row \in Section /\ e.says[1] \in Says /\ e.says[2] \in Says
    BY <1>11, EntriesHeld DEF SaveSection, Held, EditRows
  <2>3. s \in Section /\ s.is = "live" /\ s.from = e.row.from
    BY <2>2, SavedIs DEF SavedSection
  <2> HIDE DEF e, s
  <2>4. DocumentTypes'
    BY <2>1, <2>3, SectionsTyped
  <2> QED BY <1>11, <2>4, EndTyped DEF SaveSection
<1>12. ASSUME NEW c \in Editors, SaveNote(c)
       PROVE  DocumentTypes' /\ EditTypes' /\ Counters'
  <2> DEFINE i == edit[c].about
  <2>1. i \in Items /\ Live(i) /\ UNCHANGED <<agenda, sections, items, minutes>>
        /\ notes' = [notes EXCEPT ![i] = NotesAfter(@, edit[c].says[1])]
    BY <1>12, EntriesHeld DEF SaveNote, Held
  <2>2. notes' \in [Items -> Nat]
    BY <2>1 DEF DocumentTypes, NotesAfter
  <2>3. Housed(i)
    BY <2>1 DEF DocumentTypes
  <2>4. DocumentTypes'
    BY <2>1, <2>2, <2>3, ItemsTyped DEF DocumentTypes, Live
  <2> QED BY <1>12, <2>4, EndTyped DEF SaveNote
<1>13. ASSUME NEW c \in Editors, SaveMinutes(c)
       PROVE  DocumentTypes' /\ EditTypes' /\ Counters'
  <2>1. minutes' \in {"none", "draft", "approved"} /\ UNCHANGED <<agenda, sections, items, notes>>
    BY <1>13 DEF SaveMinutes, MinutesAfter
  <2>2. DocumentTypes'
    BY <2>1 DEF DocumentTypes, Live, Housed, Kept
  <2> QED BY <1>13, <2>2, EndTyped DEF SaveMinutes
<1>14. ASSUME NEW c \in Editors, Abandon(c)
       PROVE  DocumentTypes' /\ EditTypes' /\ Counters'
  BY <1>14, EndTyped DEF Abandon, tables, DocumentTypes, Live, Housed, Kept
<1>15. CASE UNCHANGED documents
  BY <1>15 DEF documents, DocumentTypes, EditTypes, Counters, Live, Housed, Kept
<1> QED BY <1>1, <1>2, <1>3, <1>4, <1>5, <1>6, <1>7, <1>8, <1>9, <1>10, <1>11, <1>12, <1>13,
           <1>14, <1>15
    DEF DocumentsNext

-----------------------------------------------------------------------------
(* Requests and the rows they have read. *)

LEMMA FreshStep ==
  ASSUME Typed, CurrentInv, "overlap" \notin slips, NEW c \in Editors, NEW k, Becomes(c, k),
         \A d \in Editors \ {c} : Apart(edit[d], k) /\ Apart(k, edit[d]),
         Current(k)', \A d \in Editors \ {c} : \A l : l = edit[d] => Current(l)'
  PROVE  CurrentInv'
<1>1. edit'[c] = k /\ \A d \in Editors : d # c => edit'[d] = edit[d]
  BY BecomesIs
<1>2. \A d, e \in Editors : d # e => Apart(edit'[d], edit'[e])
  BY <1>1 DEF CurrentInv
<1>3. ASSUME NEW d \in Editors PROVE Current(edit[d])'
  <2>1. PICK l : l = edit'[d]
    OBVIOUS
  <2>2. Current(l)'
    BY <1>1, <2>1
  <2> QED BY <2>1, <2>2 DEF Current, SectionFresh, ItemFresh, NoteFresh, Live
<1> QED BY <1>2, <1>3 DEF CurrentInv, Apart

LEMMA FreshKept ==
  ASSUME CurrentInv, "overlap" \notin slips, UNCHANGED edit, \A d \in Editors : \A l : l = edit[d] => Current(l)'
  PROVE  CurrentInv'
<1>1. ASSUME NEW d \in Editors PROVE Current(edit[d])'
  <2>1. PICK l : l = edit'[d]
    OBVIOUS
  <2>2. Current(l)'
    BY <2>1
  <2> QED BY <2>1, <2>2 DEF Current, SectionFresh, ItemFresh, NoteFresh, Live
<1> QED BY <1>1 DEF CurrentInv, Apart

\* A request in hand, if nothing has overlapped.
LEMMA InHand ==
  ASSUME Typed, CurrentInv, "overlap" \notin slips, NEW c \in Editors
  PROVE  Held(edit[c]) /\ edit[c] \in EditRows /\ Current(edit[c])
  BY DEF CurrentInv, Typed, Held

\* Rows that do not change leave what was read of them as it is.
LEMMA SameRows ==
  ASSUME UNCHANGED tables, slips \subseteq slips', NEW l, Current(l)
  PROVE  Current(l)'
  BY DEF tables, Current, SectionFresh, ItemFresh, NoteFresh, Live

LEMMA BeginFresh ==
  ASSUME Typed, CurrentInv, "overlap" \notin slips', NEW c \in Editors, NEW k, Begin(c, k), Held(k),
         k.job # "none", Current(k)
  PROVE  CurrentInv'
<1>1. /\ "overlap" \notin slips /\ slips \subseteq slips' /\ UNCHANGED tables /\ edit[c] = NoEdit
      /\ \A d \in Editors : edit[d].job = k.job => k.job # "section" /\ edit[d].about # k.about
  BY DEF Begin, Note
<1>2. Becomes(c, k)
  BY DEF Begin, Becomes
<1>3. \A d \in Editors \ {c} : Apart(edit[d], k) /\ Apart(k, edit[d])
  BY <1>1 DEF Apart
<1>4. Current(k)'
  BY <1>1, SameRows
<1>5. ASSUME NEW d \in Editors \ {c}, NEW l, l = edit[d] PROVE Current(l)'
  BY <1>1, <1>5, InHand, SameRows
<1> QED BY <1>1, <1>2, <1>3, <1>4, <1>5, FreshStep

LEMMA ReadingFresh ==
  ASSUME Typed, CurrentInv, ItemsSound, "overlap" \notin slips', NEW c \in Editors,
         \/ \E i \in Items : ReadItem(c, i) \/ LookNote(c, i)
         \/ ListAgenda(c) \/ ReadMinutes(c)
         \/ \E k \in Orders : ReadSection(c, k)
  PROVE  CurrentInv'
<1>0. DocumentTypes /\ EditTypes
  BY TypedParts
<1>1. SUFFICES \E k : Begin(c, k) /\ Held(k) /\ k.job # "none" /\ Current(k)
  BY BeginFresh
<1>2. ASSUME NEW i \in Items, ReadItem(c, i)
      PROVE  \E k : Begin(c, k) /\ Held(k) /\ k.job # "none" /\ Current(k)
  <2>1. PICK say \in Says : Begin(c, ItemEdit(i, say))
    BY <1>2 DEF ReadItem, ItemEdit
  <2>2. PICK k : k = ItemEdit(i, say)
    OBVIOUS
  <2>3. /\ Held(k) /\ k.job = "item" /\ k.about = i /\ k.step = "read"
        /\ k.row.done = items[i].done /\ k.row.stamped = items[i].stamped
    BY <1>0, <2>2, ItemEditIs
  <2>4. Current(k)
    BY <1>2, <2>3 DEF ReadItem, Current, ItemFresh
  <2> QED BY <2>1, <2>2, <2>3, <2>4
<1>3. ASSUME NEW i \in Items, LookNote(c, i)
      PROVE  \E k : Begin(c, k) /\ Held(k) /\ k.job # "none" /\ Current(k)
  <2>1. PICK k : k = NoteEdit(i)
    OBVIOUS
  <2>2. Begin(c, k)
    BY <1>3, <2>1 DEF LookNote, NoteEdit
  <2>3. Held(k) /\ k.job = "note" /\ k.about = i /\ (k.says[1] = "yes" <=> notes[i] = 1)
    BY <2>1, NoteEditIs
  <2>4. Current(k)
    BY <1>3, <2>3 DEF LookNote, Current, NoteFresh
  <2> QED BY <2>2, <2>3, <2>4
<1>4. ASSUME ListAgenda(c) PROVE \E k : Begin(c, k) /\ Held(k) /\ k.job # "none" /\ Current(k)
  <2>1. PICK k : k = FillEdit
    OBVIOUS
  <2>2. Begin(c, k) /\ Held(k) /\ k.job = "fill"
    BY <1>4, <2>1, FillEditIs DEF ListAgenda, FillEdit
  <2> QED BY <2>2 DEF Current
<1>5. ASSUME ReadMinutes(c) PROVE \E k : Begin(c, k) /\ Held(k) /\ k.job # "none" /\ Current(k)
  <2>1. PICK approve \in Says : Begin(c, MinutesEdit(approve))
    BY <1>5 DEF ReadMinutes, MinutesEdit
  <2>2. PICK k : k = MinutesEdit(approve)
    OBVIOUS
  <2>3. Held(k) /\ k.job = "minutes" /\ k.says = <<minutes, approve>>
    BY <1>0, <2>2, MinutesEditIs
  <2> QED BY <2>1, <2>2, <2>3 DEF Current
<1>6. ASSUME NEW j \in Orders, ReadSection(c, j)
      PROVE  \E k : Begin(c, k) /\ Held(k) /\ k.job # "none" /\ Current(k)
  <2>1. PICK working \in Says, done \in Says : Begin(c, SectionEdit(j, working, done))
    BY <1>6 DEF ReadSection, SectionEdit
  <2>2. PICK k : k = SectionEdit(j, working, done)
    OBVIOUS
  <2>3. Held(k) /\ k.job = "section" /\ k.about = j /\ k.step = "read" /\ k.row = sections[j]
    <3>1. j \in Sections
      BY <1>6 DEF ReadSection
    <3>2. LET e == SectionEdit(j, working, done)
          IN Held(e) /\ e.job = "section" /\ e.about = j /\ e.step = "read" /\ e.row = sections[j]
      BY <1>0, <2>1, <3>1, SectionEditIs
    <3> QED BY <2>2, <3>2, Zenon
  <2> QED BY <2>1, <2>2, <2>3 DEF Current, SectionFresh
<1> QED BY <1>2, <1>3, <1>4, <1>5, <1>6

\* A section that a request is about is not made by another.
LEMMA FreshSections ==
  ASSUME Typed, NEW k \in Orders \ Sections, NEW s, sections' = [sections EXCEPT ![k] = s],
         UNCHANGED <<agenda, items, notes, minutes>>, slips \subseteq slips',
         NEW l \in EditRows, Held(l), Current(l)
  PROVE  Current(l)'
<1>1. sections[k] = NoSection /\ NoSection.is = "new"
  BY NewSections DEF Sections
<1>2. \A j \in Orders : j # k => sections'[j] = sections[j]
  BY DEF Typed, DocumentsTypeOK
<1>3. ASSUME l.job = "section" PROVE SectionFresh(l)'
  <2>1. l.about \in Orders /\ l.row.is = "live" /\ [l.row EXCEPT !.working = FALSE].is = "live"
    BY <1>3 DEF Held, EditRows, Section
  <2>2. SectionFresh(l)
    BY <1>3 DEF Current
  <2> QED BY <1>1, <1>2, <2>1, <2>2 DEF SectionFresh
<1> QED BY <1>3 DEF Current, ItemFresh, NoteFresh, Live

\* Rows of items nobody has read may change.
LEMMA FreshItems ==
  ASSUME UNCHANGED <<agenda, sections, minutes>>, slips \subseteq slips',
         NEW l, Current(l), l.job = "item" => items'[l.about] = items[l.about],
         l.job = "note" => items'[l.about].is = items[l.about].is /\ notes'[l.about] = notes[l.about]
  PROVE  Current(l)'
  BY DEF Current, SectionFresh, ItemFresh, NoteFresh, Live

LEMMA NextFresh ==
  ASSUME Typed, CurrentInv, ItemsSound, DocumentsNext
  PROVE  CurrentInv'
<1> SUFFICES ASSUME "overlap" \notin slips' PROVE CurrentInv'
  BY DEF CurrentInv
<1>0. DocumentTypes /\ EditTypes
  BY TypedParts
<1>1. ASSUME NEW k \in Orders, AddAgendaSection(k) \/ ActivateAgendaSection(k)
      PROVE  CurrentInv'
  <2>1. /\ UNCHANGED <<sections, items, notes, minutes, edit, slips>>
        /\ \A j \in Orders : agenda[j] = "gone" => agenda'[j] = "gone"
    BY <1>0, <1>1 DEF AddAgendaSection, ActivateAgendaSection, AtOnce, Kept, DocumentTypes
  <2>2. ASSUME NEW d \in Editors, NEW l, l = edit[d] PROVE Current(l)'
    <3>1. l \in EditRows /\ Current(l) /\ l.row.from \in Orders \cup {0}
      BY <2>1, <2>2, InHand DEF EditRows, Section
    <3> QED BY <2>1, <3>1 DEF Current, SectionFresh, ItemFresh, NoteFresh, Live
  <2> QED BY <2>1, <2>2, FreshKept
<1>2. ASSUME NEW k \in Orders, DeleteAgendaSection(k)
      PROVE  CurrentInv'
  <2>1. /\ "overlap" \notin slips /\ slips \subseteq slips' /\ UNCHANGED <<minutes, edit>>
        /\ agenda' = [agenda EXCEPT ![k] = "gone"]
        /\ sections' = [j \in Orders |-> IF sections[j].from = k THEN NoSection ELSE sections[j]]
        /\ Dropped(Under(k)) /\ Under(k) \subseteq Items
        /\ \A d \in Editors : edit[d].job \in {"item", "note"} => edit[d].about \notin Under(k)
    BY <1>2 DEF DeleteAgendaSection, SectionsWithout, AtOnce, Dropped, Note, Under
  <2>2. k # 0 /\ agenda'[k] = "gone" /\ \A j \in Orders : agenda[j] = "gone" => agenda'[j] = "gone"
    BY <1>0, <2>1, DocumentsAssumptions DEF DocumentTypes
  <2>3. ASSUME NEW d \in Editors, NEW l, l = edit[d] PROVE Current(l)'
    <3>1. l \in EditRows /\ Held(l) /\ Current(l)
      BY <2>1, <2>3, InHand
    <3>2. ASSUME l.job = "section" PROVE SectionFresh(l)'
      <4>1. /\ l.about \in Orders /\ SectionFresh(l) /\ l.row.from \in Orders \cup {0}
            /\ [l.row EXCEPT !.working = FALSE].from = l.row.from
        BY <3>1, <3>2 DEF Held, Current, EditRows, Section
      <4>2. CASE l.row.from = k
        BY <2>2, <4>2 DEF SectionFresh
      <4>3. CASE l.row.from # k
        <5>1. sections[l.about].from = l.row.from => sections'[l.about] = sections[l.about]
          BY <2>1, <4>1, <4>3
        <5> QED BY <2>2, <4>1, <5>1 DEF SectionFresh
      <4> QED BY <4>2, <4>3
    <3>3. ASSUME l.job \in {"item", "note"}
          PROVE  items'[l.about] = items[l.about] /\ notes'[l.about] = notes[l.about]
      <4>1. l.about \in Items \ Under(k)
        BY <2>1, <2>3, <3>1, <3>3 DEF Held
      <4> QED BY <1>0, <2>1, <4>1, DroppedTyped
    <3> QED BY <2>1, <3>1, <3>2, <3>3 DEF Current, ItemFresh, NoteFresh, Live
  <2> QED BY <2>1, <2>3, FreshKept
<1>3. ASSUME NEW k \in Orders, AddSection(k)
      PROVE  CurrentInv'
  <2>1. PICK s : sections' = [sections EXCEPT ![k] = s]
    BY <1>3 DEF AddSection
  <2>2. /\ k \notin Sections /\ UNCHANGED <<agenda, items, notes, minutes, edit>>
        /\ "overlap" \notin slips /\ slips \subseteq slips'
    BY <1>3 DEF AddSection, AtOnce, Note
  <2>3. ASSUME NEW d \in Editors, NEW l, l = edit[d] PROVE Current(l)'
    BY <2>1, <2>2, <2>3, InHand, FreshSections
  <2> QED BY <2>2, <2>3, FreshKept
<1>4. ASSUME NEW i \in Items, AddItem(i)
      PROVE  CurrentInv'
  <2>1. /\ UNCHANGED <<agenda, sections, notes, minutes, edit>> /\ ~Live(i)
        /\ \A j \in Items : j # i => items'[j] = items[j]
        /\ "overlap" \notin slips /\ slips \subseteq slips'
    BY <1>0, <1>4 DEF AddItem, AtOnce, Note, Live, DocumentTypes
  <2>2. ASSUME NEW d \in Editors, NEW l, l = edit[d] PROVE Current(l)'
    <3>1. Held(l) /\ Current(l)
      BY <2>1, <2>2, InHand
    <3>2. l.job \in {"item", "note"} => l.about \in Items /\ l.about # i
      BY <2>1, <3>1 DEF Held, Current, ItemFresh, NoteFresh
    <3> QED BY <2>1, <3>1, <3>2, FreshItems
  <2> QED BY <2>1, <2>2, FreshKept
<1>5. ASSUME NEW i \in Items, DeleteItem(i)
      PROVE  CurrentInv'
  <2>1. /\ "overlap" \notin slips /\ slips \subseteq slips'
        /\ UNCHANGED <<agenda, sections, minutes, edit>> /\ Dropped({i})
        /\ \A d \in Editors : edit[d].job \in {"item", "note"} => edit[d].about # i
    BY <1>5 DEF DeleteItem, AtOnce, Dropped, Note
  <2>2. \A j \in Items : j # i => items'[j] = items[j] /\ notes'[j] = notes[j]
    BY <1>0, <2>1, DroppedTyped
  <2>3. ASSUME NEW d \in Editors, NEW l, l = edit[d] PROVE Current(l)'
    <3>1. Held(l) /\ Current(l)
      BY <2>1, <2>3, InHand
    <3>2. l.job \in {"item", "note"} => l.about \in Items /\ l.about # i
      BY <2>1, <2>3, <3>1 DEF Held
    <3> QED BY <2>1, <2>2, <3>1, <3>2, FreshItems
  <2> QED BY <2>1, <2>3, FreshKept
<1>6. ASSUME NEW c \in Editors,
             \/ \E i \in Items : ReadItem(c, i) \/ LookNote(c, i)
             \/ ListAgenda(c) \/ ReadMinutes(c)
             \/ \E k \in Orders : ReadSection(c, k)
      PROVE  CurrentInv'
  BY <1>6, ReadingFresh
<1>7. ASSUME NEW c \in Editors, TrackCompletion(c)
      PROVE  CurrentInv'
  <2> DEFINE e == edit[c]
             s == <<e.says[1], Stamp(items[e.about].done, e.says[1])>>
  <2>1. /\ UNCHANGED tables /\ slips \subseteq slips' /\ "overlap" \notin slips
        /\ e.says[1] = "nothing" /\ items[e.about].done => "silent" \in slips'
        /\ e.job = "item" /\ Becomes(c, [e EXCEPT !.step = "save", !.says = s])
    BY <1>7 DEF TrackCompletion, Note, Becomes
  <2>2. PICK k : k = [e EXCEPT !.step = "save", !.says = s]
    OBVIOUS
  <2>3. e \in EditRows /\ Held(e) /\ Current(e)
    BY <2>1, InHand
  <2>4. k.job = "item" /\ k.about = e.about /\ k.row = e.row /\ k.says = s
    BY <2>1, <2>2, <2>3 DEF EditRows
  <2>5. \A d \in Editors \ {c} : Apart(edit[d], k) /\ Apart(k, edit[d])
    BY <2>1, <2>4 DEF CurrentInv, Apart
  <2>6. Current(k)'
    BY <2>1, <2>3, <2>4 DEF Current, ItemFresh, tables, Live
  <2>7. ASSUME NEW d \in Editors \ {c}, NEW l, l = edit[d] PROVE Current(l)'
    BY <2>1, <2>7, InHand, SameRows
  <2> HIDE DEF e, s
  <2> QED BY <2>1, <2>2, <2>5, <2>6, <2>7, FreshStep
<1>8. ASSUME NEW c \in Editors, "overlap" \notin slips, End(c), UNCHANGED slips,
             \A d \in Editors \ {c} : \A l : l = edit[d] => Current(l)'
      PROVE  CurrentInv'
  <2>1. PICK k : k = NoEdit
    OBVIOUS
  <2>2. Becomes(c, k) /\ k.job = "none"
    BY <1>8, <2>1, IdleHeld DEF End, Becomes
  <2> QED BY <1>8, <2>2, FreshStep DEF Apart, Current
<1>9. ASSUME NEW c \in Editors, SaveItem(c)
      PROVE  CurrentInv'
  <2>1. /\ edit[c].job = "item" /\ End(c) /\ UNCHANGED <<agenda, sections, notes, minutes, slips>>
        /\ Held(edit[c]) /\ edit[c].about \in Items /\ Current(edit[c])
    BY <1>9, InHand DEF SaveItem, Held
  <2>2. /\ items'[edit[c].about].is = "live"
        /\ \A j \in Items : j # edit[c].about => items'[j] = items[j]
    BY <1>0, <1>9, <2>1 DEF SaveItem, DocumentTypes
  <2>3. ASSUME NEW d \in Editors \ {c}, NEW l, l = edit[d] PROVE Current(l)'
    <3>1. Held(l) /\ Current(l) /\ (l.job = "item" => l.about # edit[c].about)
      BY <2>1, <2>3, InHand DEF CurrentInv, Apart
    <3>2. l.job \in {"item", "note"} => l.about \in Items
      BY <3>1 DEF Held
    <3>3. l.job = "note" => items[l.about].is = "live"
      BY <3>1 DEF Current, NoteFresh, Live
    <3> QED BY <2>1, <2>2, <3>1, <3>2, <3>3, FreshItems
  <2> QED BY <1>8, <2>1, <2>3
<1>10. ASSUME NEW c \in Editors, FillSection(c)
       PROVE  CurrentInv'
  <2>1. PICK j \in Orders \ Sections :
          sections' = [sections EXCEPT ![j] = [NoSection EXCEPT !.is = "live", !.from = j]]
    BY <1>0, <1>10, NextPlace
  <2>2. PICK k \in EditRows : Becomes(c, k) /\ k.job = edit[c].job /\ k.about = edit[c].about
    BY <1>0, <1>10, OngoingTyped, TypedParts
  <2>3. /\ edit[c].job = "fill" /\ UNCHANGED <<agenda, items, notes, minutes, slips>>
        /\ "overlap" \notin slips
    BY <1>10 DEF FillSection
  <2>4. \A d \in Editors \ {c} : Apart(edit[d], k) /\ Apart(k, edit[d])
    BY <2>2, <2>3 DEF CurrentInv, Apart
  <2>5. Current(k)'
    BY <2>2, <2>3 DEF Current
  <2>6. ASSUME NEW d \in Editors \ {c}, NEW l, l = edit[d] PROVE Current(l)'
    BY <2>1, <2>3, <2>6, InHand, FreshSections
  <2> QED BY <2>2, <2>3, <2>4, <2>5, <2>6, FreshStep
<1>11. ASSUME NEW c \in Editors, Deactivate(c)
       PROVE  CurrentInv'
  <2>1. PICK k \in EditRows : /\ Becomes(c, k) /\ k.job = edit[c].job /\ k.about = edit[c].about
                           /\ k.row = edit[c].row
    BY <1>0, <1>11, OngoingTyped, TypedParts
  <2>2. /\ edit[c].job = "section" /\ edit[c].step = "read" /\ sections' = Deactivated
        /\ UNCHANGED <<agenda, items, notes, minutes, slips>> /\ "overlap" \notin slips
    BY <1>11 DEF Deactivate, Goto
  <2>3. k.step = "save"
    <3>1. edit'[c] = [edit[c] EXCEPT !.step = "save"]
      BY <1>0, <1>11 DEF Deactivate, Goto, EditTypes
    <3>2. edit[c] \in EditRows /\ edit'[c] = k
      BY <2>1, <2>2, InHand, BecomesIs
    <3> QED BY <3>1, <3>2 DEF EditRows
  <2>4. \A d \in Editors \ {c} : Apart(edit[d], k) /\ Apart(k, edit[d]) /\ edit[d].job # "section"
    BY <2>1, <2>2 DEF CurrentInv, Apart
  <2>5. Current(k)'
    <3>1. Current(edit[c]) /\ edit[c].about \in Orders
      BY <2>2, InHand DEF Held
    <3>2. sections'[edit[c].about] = [sections[edit[c].about] EXCEPT !.working = FALSE]
      BY <2>2, <3>1 DEF Deactivated
    <3> QED BY <2>1, <2>2, <2>3, <3>1, <3>2 DEF Current, SectionFresh
  <2>6. ASSUME NEW d \in Editors \ {c}, NEW l, l = edit[d] PROVE Current(l)'
    BY <2>2, <2>4, <2>6, InHand DEF Current, ItemFresh, NoteFresh, Live
  <2> QED BY <2>1, <2>2, <2>4, <2>5, <2>6, FreshStep
<1>12. ASSUME NEW c \in Editors, SaveSection(c)
       PROVE  CurrentInv'
  <2>1. edit[c].job = "section" /\ End(c) /\ UNCHANGED <<agenda, items, notes, minutes, slips>>
    BY <1>12 DEF SaveSection
  <2>2. ASSUME NEW d \in Editors \ {c}, NEW l, l = edit[d] PROVE Current(l)'
    <3>1. Current(l) /\ l.job # "section"
      BY <2>1, <2>2, InHand DEF CurrentInv, Apart
    <3> QED BY <2>1, <3>1 DEF Current, ItemFresh, NoteFresh, Live
  <2> QED BY <1>8, <2>1, <2>2
<1>13. ASSUME NEW c \in Editors, SaveNote(c)
       PROVE  CurrentInv'
  <2>1. /\ edit[c].job = "note" /\ End(c) /\ UNCHANGED <<agenda, sections, items, minutes, slips>>
        /\ \A j \in Items : j # edit[c].about => notes'[j] = notes[j]
    BY <1>0, <1>13 DEF SaveNote, DocumentTypes
  <2>2. ASSUME NEW d \in Editors \ {c}, NEW l, l = edit[d] PROVE Current(l)'
    <3>1. Held(l) /\ Current(l) /\ (l.job = "note" => l.about # edit[c].about)
      BY <2>1, <2>2, InHand DEF CurrentInv, Apart
    <3> QED BY <2>1, <3>1, FreshItems DEF Held
  <2> QED BY <1>8, <2>1, <2>2
<1>14. ASSUME NEW c \in Editors, SaveMinutes(c)
       PROVE  CurrentInv'
  <2>1. /\ edit[c].job = "minutes" /\ End(c) /\ UNCHANGED <<agenda, sections, items, notes, slips>>
        /\ Held(edit[c])
    BY <1>14, InHand DEF SaveMinutes
  <2>2. ASSUME NEW d \in Editors \ {c}, NEW l, l = edit[d] PROVE Current(l)'
    <3>1. Held(l) /\ Current(l)
      BY <2>1, <2>2, InHand
    <3>2. l.job # "minutes"
      BY <2>1, <2>2, <3>1 DEF CurrentInv, Apart, Held
    <3> QED BY <2>1, <3>1, <3>2 DEF Current, SectionFresh, ItemFresh, NoteFresh, Live
  <2> QED BY <1>8, <2>1, <2>2
<1>15. ASSUME NEW c \in Editors, Abandon(c)
       PROVE  CurrentInv'
  <2>1. End(c) /\ UNCHANGED <<tables, slips>>
    BY <1>15 DEF Abandon
  <2>2. ASSUME NEW d \in Editors \ {c}, NEW l, l = edit[d] PROVE Current(l)'
    BY <2>1, <2>2, InHand, SameRows
  <2> QED BY <1>8, <2>1, <2>2
<1> QED BY <1>1, <1>2, <1>3, <1>4, <1>5, <1>6, <1>7, <1>9, <1>10, <1>11, <1>12, <1>13, <1>14, <1>15
    DEF DocumentsNext

-----------------------------------------------------------------------------
(* Minute sections. *)

\* What most steps do: a section may go, or be made, and a request about one keeps
\* what it has read or reads it now.
Plain ==
  /\ \A k \in Orders :
       \/ sections'[k] = sections[k]
       \/ sections'[k] = NoSection
       \/ /\ sections[k] = NoSection
          /\ "posted" \in slips' \/ (~sections'[k].working /\ ~sections'[k].done)
  /\ \A c \in Editors : edit'[c].job = "section" =>
       \/ edit'[c] = edit[c]
       \/ /\ edit'[c].step = "read" /\ edit'[c].about \in Orders
          /\ edit'[c].row = sections[edit'[c].about]

LEMMA SectionSteps ==
  ASSUME Typed, DocumentsNext
  PROVE  /\ slips \subseteq slips'
         /\ Plain \/ \E c \in Editors : Deactivate(c) \/ SaveSection(c)
<1>0. DocumentTypes /\ EditTypes
  BY TypedParts
<1>1. ASSUME NEW k \in Orders, AddAgendaSection(k) \/ ActivateAgendaSection(k)
      PROVE  Plain /\ slips \subseteq slips'
  BY <1>1 DEF AddAgendaSection, ActivateAgendaSection, AtOnce, Plain
<1>2. ASSUME NEW k \in Orders, DeleteAgendaSection(k)
      PROVE  Plain /\ slips \subseteq slips'
  BY <1>2 DEF DeleteAgendaSection, SectionsWithout, AtOnce, Dropped, Note, Plain
<1>3. ASSUME NEW k \in Orders, AddSection(k)
      PROVE  Plain /\ slips \subseteq slips'
  <2>1. PICK working \in BOOLEAN, done \in BOOLEAN :
          /\ sections' = [sections EXCEPT ![k] =
               [NoSection EXCEPT !.is = "live", !.working = working, !.done = done]]
          /\ Note("posted", working \/ done)
    BY <1>3 DEF AddSection
  <2>2. /\ sections[k] = NoSection /\ sections'[k].working = working /\ sections'[k].done = done
        /\ \A j \in Orders \ {k} : sections'[j] = sections[j]
    BY <1>0, <1>3, <2>1, NewSections DEF AddSection, Sections, DocumentTypes
  <2>3. slips \subseteq slips' /\ (working \/ done => "posted" \in slips') /\ UNCHANGED edit
    BY <1>3, <2>1 DEF AddSection, AtOnce, Note
  <2> QED BY <2>2, <2>3 DEF Plain
<1>4. ASSUME NEW i \in Items, AddItem(i) \/ DeleteItem(i)
      PROVE  Plain /\ slips \subseteq slips'
  BY <1>4 DEF AddItem, DeleteItem, AtOnce, Dropped, Note, Plain
<1>5. ASSUME NEW c \in Editors, NEW k, Begin(c, k), Held(k), k.job # "section"
      PROVE  Plain /\ slips \subseteq slips'
  <2>1. Becomes(c, k) /\ UNCHANGED sections /\ slips \subseteq slips'
    BY <1>5 DEF Begin, Becomes, tables, Note
  <2> QED BY <1>5, <2>1, BecomesIs DEF Plain
<1>6. ASSUME NEW c \in Editors, NEW i \in Items, ReadItem(c, i)
      PROVE  Plain /\ slips \subseteq slips'
  <2>1. PICK say \in Says : Begin(c, ItemEdit(i, say))
    BY <1>6 DEF ReadItem, ItemEdit
  <2> QED BY <1>0, <1>5, <2>1, ItemEditIs
<1>7. ASSUME NEW c \in Editors, NEW i \in Items, LookNote(c, i)
      PROVE  Plain /\ slips \subseteq slips'
  BY <1>5, <1>7, NoteEditIs DEF LookNote, NoteEdit
<1>8. ASSUME NEW c \in Editors, ListAgenda(c)
      PROVE  Plain /\ slips \subseteq slips'
  BY <1>5, <1>8, FillEditIs DEF ListAgenda, FillEdit
<1>9. ASSUME NEW c \in Editors, ReadMinutes(c)
      PROVE  Plain /\ slips \subseteq slips'
  <2>1. PICK approve \in Says : Begin(c, MinutesEdit(approve))
    BY <1>9 DEF ReadMinutes, MinutesEdit
  <2> QED BY <1>0, <1>5, <2>1, MinutesEditIs
<1>10. ASSUME NEW c \in Editors, NEW k \in Orders, ReadSection(c, k)
       PROVE  Plain /\ slips \subseteq slips'
  <2>1. PICK working \in Says, done \in Says : Begin(c, SectionEdit(k, working, done))
    BY <1>10 DEF ReadSection, SectionEdit
  <2>2. k \in Sections
    BY <1>10 DEF ReadSection
  <2>3. LET e == SectionEdit(k, working, done)
        IN e.about = k /\ e.step = "read" /\ e.row = sections[k]
    BY <1>0, <2>1, <2>2, SectionEditIs
  <2>4. Becomes(c, SectionEdit(k, working, done)) /\ UNCHANGED sections /\ slips \subseteq slips'
    BY <2>1 DEF Begin, Becomes, tables, Note
  <2>5. edit'[c] = SectionEdit(k, working, done) /\ \A d \in Editors : d # c => edit'[d] = edit[d]
    BY <1>0, <2>4 DEF Becomes, EditTypes
  <2> QED BY <2>3, <2>4, <2>5 DEF Plain
<1>11. ASSUME NEW c \in Editors, TrackCompletion(c)
       PROVE  Plain /\ slips \subseteq slips'
  <2>1. PICK k \in EditRows : Becomes(c, k) /\ k.job = edit[c].job
    BY <1>0, <1>11, OngoingTyped, TypedParts
  <2> QED BY <1>11, <2>1, BecomesIs DEF TrackCompletion, tables, Note, Plain
<1>12. ASSUME NEW c \in Editors, FillSection(c)
       PROVE  Plain /\ slips \subseteq slips'
  <2>1. PICK k \in EditRows : Becomes(c, k) /\ k.job = edit[c].job
    BY <1>0, <1>12, OngoingTyped, TypedParts
  <2>2. PICK j \in Orders \ Sections :
          sections' = [sections EXCEPT ![j] = [NoSection EXCEPT !.is = "live", !.from = j]]
    BY <1>0, <1>12, NextPlace
  <2>3. /\ sections[j] = NoSection /\ ~sections'[j].working /\ ~sections'[j].done
        /\ \A l \in Orders \ {j} : sections'[l] = sections[l]
    BY <1>0, <2>2, NewSections DEF Sections, DocumentTypes
  <2>4. \A d \in Editors : edit'[d].job = "section" => edit'[d] = edit[d]
    BY <1>12, <2>1, BecomesIs DEF FillSection
  <2> QED BY <1>12, <2>3, <2>4 DEF FillSection, Plain
<1>13. ASSUME NEW c \in Editors, SaveItem(c) \/ SaveNote(c) \/ SaveMinutes(c) \/ Abandon(c)
       PROVE  Plain /\ slips \subseteq slips'
  <2>1. UNCHANGED <<sections, slips>> /\ End(c)
    BY <1>13 DEF SaveItem, SaveNote, SaveMinutes, Abandon, tables
  <2>2. \A d \in Editors : edit'[d] = NoEdit \/ edit'[d] = edit[d]
    BY <1>0, <2>1 DEF End, EditTypes
  <2> QED BY <2>1, <2>2, IdleHeld DEF Plain
<1>14. ASSUME NEW c \in Editors, Deactivate(c) \/ SaveSection(c)
       PROVE  slips \subseteq slips'
  BY <1>14 DEF Deactivate, Goto, SaveSection
<1> QED BY <1>1, <1>2, <1>3, <1>4, <1>6, <1>7, <1>8, <1>9, <1>10, <1>11, <1>12, <1>13, <1>14
           DEF DocumentsNext

\* The section saved is the one read, with what the request says of it.
LEMMA SaveSectionIs ==
  ASSUME Typed, NEW c \in Editors, SaveSection(c)
  PROVE  LET e == edit[c]
             s == SavedSection(e.row, e.says[1], e.says[2])
         IN /\ e.job = "section" /\ e.about \in Orders /\ e.row \in Section
            /\ e.says[1] \in Says /\ e.says[2] \in Says
            /\ sections'[e.about] = s /\ \A k \in Orders \ {e.about} : sections'[k] = sections[k]
            /\ s.working = Said(e.row.working /\ e.says[2] # "yes", e.says[1])
            /\ s.done = Said(e.row.done, e.says[2])
            /\ s.stamped = (e.row.stamped \/ (e.says[2] = "yes" /\ ~e.row.done))
            /\ e.row.from # 0 => Kept(e.row.from)
            /\ e.step = IF e.says[1] = "yes" THEN "save" ELSE "read"
            /\ UNCHANGED slips /\ \A d \in Editors : edit'[d] = IF d = c THEN NoEdit ELSE edit[d]
<1>0. DocumentTypes /\ EditTypes
  BY TypedParts
<1>1. Held(edit[c]) /\ edit[c] \in EditRows /\ edit[c].job = "section"
  BY <1>0, EntriesHeld DEF SaveSection
<1>2. /\ edit[c].about \in Orders /\ edit[c].row \in Section
      /\ edit[c].says[1] \in Says /\ edit[c].says[2] \in Says
  BY <1>1 DEF Held, EditRows
<1>3. /\ sections' = [sections EXCEPT
           ![edit[c].about] = SavedSection(edit[c].row, edit[c].says[1], edit[c].says[2])]
      /\ edit[c].row.from # 0 => Kept(edit[c].row.from)
      /\ edit[c].step = IF edit[c].says[1] = "yes" THEN "save" ELSE "read"
      /\ UNCHANGED slips /\ \A d \in Editors : edit'[d] = IF d = c THEN NoEdit ELSE edit[d]
  BY <1>0 DEF SaveSection, End, EditTypes
<1>4. sections'[edit[c].about] = SavedSection(edit[c].row, edit[c].says[1], edit[c].says[2])
      /\ \A k \in Orders \ {edit[c].about} : sections'[k] = sections[k]
  BY <1>0, <1>2, <1>3 DEF DocumentTypes
<1> QED BY <1>1, <1>2, <1>3, <1>4 DEF SavedSection

LEMMA DeactivateIs ==
  ASSUME Typed, NEW c \in Editors, Deactivate(c)
  PROVE  /\ \A k \in Orders : /\ ~sections'[k].working /\ sections'[k].done = sections[k].done
                              /\ sections'[k].stamped = sections[k].stamped
         /\ \A d \in Editors : edit'[d].job = edit[d].job /\ edit'[d].row = edit[d].row
         /\ UNCHANGED slips
<1>0. DocumentTypes /\ EditTypes
  BY TypedParts
<1>1. PICK e \in EditRows : Becomes(c, e) /\ e.job = edit[c].job /\ e.row = edit[c].row
  BY <1>0, OngoingTyped, TypedParts
<1>2. \A d \in Editors : edit'[d].job = edit[d].job /\ edit'[d].row = edit[d].row
  BY <1>1, BecomesIs
<1>3. \A s \in Section : LET t == [s EXCEPT !.working = FALSE]
        IN ~t.working /\ t.done = s.done /\ t.stamped = s.stamped
  BY DEF Section
<1>4. \A k \in Orders : sections'[k] = [sections[k] EXCEPT !.working = FALSE] /\ sections[k] \in Section
  BY <1>0 DEF Deactivate, Deactivated, DocumentTypes
<1> QED BY <1>2, <1>3, <1>4 DEF Deactivate, Goto

LEMMA NextWorking ==
  ASSUME Typed, CurrentInv, WorkingInv, DocumentsNext
  PROVE  WorkingInv'
<1> SUFFICES ASSUME slips' \cap {"overlap", "posted"} = {}
             PROVE  /\ \A j, k \in Orders : sections'[j].working /\ sections'[k].working => j = k
                    /\ \A c \in Editors : edit'[c].job = "section" /\ edit'[c].step = "save" =>
                         \A k \in Orders : ~sections'[k].working
  BY DEF WorkingInv, Barring
<1>1. slips \cap {"overlap", "posted"} = {} /\ "posted" \notin slips'
  BY SectionSteps
<1>2. /\ \A j, k \in Orders : sections[j].working /\ sections[k].working => j = k
      /\ \A c \in Editors : edit[c].job = "section" /\ edit[c].step = "save" =>
           \A k \in Orders : ~sections[k].working
  BY <1>1 DEF WorkingInv, Barring
<1>3. CASE Plain
  <2>1. \A k \in Orders : sections'[k].working => sections[k].working
    BY <1>1, <1>3, NewSections DEF Plain
  <2>2. \A c \in Editors : edit'[c].job = "section" /\ edit'[c].step = "save" =>
          edit[c].job = "section" /\ edit[c].step = "save"
    BY <1>3 DEF Plain
  <2> QED BY <1>2, <2>1, <2>2
<1>4. ASSUME NEW c \in Editors, Deactivate(c)
      PROVE  \A k \in Orders : ~sections'[k].working
  BY <1>4, DeactivateIs
<1>5. ASSUME NEW c \in Editors, SaveSection(c)
      PROVE  /\ \A j, k \in Orders : sections'[j].working /\ sections'[k].working => j = k
             /\ \A d \in Editors : edit'[d].job # "section"
  <2> DEFINE e == edit[c]
  <2>1. /\ e.job = "section" /\ e.about \in Orders /\ e.row \in Section
        /\ sections'[e.about].working = Said(e.row.working /\ e.says[2] # "yes", e.says[1])
        /\ \A k \in Orders \ {e.about} : sections'[k] = sections[k]
        /\ e.row.from # 0 => Kept(e.row.from)
        /\ e.step = IF e.says[1] = "yes" THEN "save" ELSE "read"
        /\ \A d \in Editors : edit'[d] = IF d = c THEN NoEdit ELSE edit[d]
    BY <1>5, SaveSectionIs
  <2>2. SectionFresh(e)
    BY <1>1, <2>1 DEF CurrentInv, Current
  <2>3. \A d \in Editors : edit'[d].job # "section"
    BY <1>1, <2>1, IdleHeld DEF CurrentInv, Apart
  <2>4. CASE e.says[1] = "yes"
    BY <1>2, <2>1, <2>3, <2>4
  <2>5. CASE e.says[1] # "yes"
    <3>1. sections[e.about] = e.row
      BY <2>1, <2>2, <2>5 DEF SectionFresh, Kept
    <3>2. sections'[e.about].working => sections[e.about].working
      BY <2>1, <2>5, <3>1 DEF Said
    <3> QED BY <1>2, <2>1, <2>3, <3>2
  <2> QED BY <2>4, <2>5
<1> QED BY <1>3, <1>4, <1>5, SectionSteps

LEMMA NextMarks ==
  ASSUME Typed, MarkInv, DocumentsNext
  PROVE  MarkInv'
<1> SUFFICES ASSUME "posted" \notin slips'
             PROVE  /\ \A k \in Orders : sections'[k].done => sections'[k].stamped
                    /\ \A c \in Editors : edit'[c].job = "section" => (edit'[c].row.done => edit'[c].row.stamped)
  BY DEF MarkInv
<1>1. "posted" \notin slips
  BY SectionSteps
<1>2. /\ \A k \in Orders : sections[k].done => sections[k].stamped
      /\ \A c \in Editors : edit[c].job = "section" => (edit[c].row.done => edit[c].row.stamped)
  BY <1>1 DEF MarkInv
<1>3. CASE Plain
  <2>1. ASSUME NEW k \in Orders, sections'[k].done PROVE sections'[k].stamped
    <3>1. ~NoSection.done
      BY NewSections
    <3>2. sections'[k] = sections[k]
      BY <1>3, <2>1, <3>1 DEF Plain
    <3> QED BY <1>2, <2>1, <3>2
  <2>2. ASSUME NEW c \in Editors, edit'[c].job = "section", edit'[c].row.done
        PROVE  edit'[c].row.stamped
    BY <1>2, <1>3, <2>2 DEF Plain
  <2> QED BY <2>1, <2>2
<1>4. ASSUME NEW c \in Editors, Deactivate(c)
      PROVE  /\ \A k \in Orders : sections'[k].done => sections'[k].stamped
             /\ \A d \in Editors : edit'[d].job = "section" => (edit'[d].row.done => edit'[d].row.stamped)
  BY <1>2, <1>4, DeactivateIs
<1>5. ASSUME NEW c \in Editors, SaveSection(c)
      PROVE  /\ \A k \in Orders : sections'[k].done => sections'[k].stamped
             /\ \A d \in Editors : edit'[d].job = "section" => (edit'[d].row.done => edit'[d].row.stamped)
  <2> DEFINE e == edit[c]
  <2>1. /\ e.job = "section" /\ e.row \in Section
        /\ sections'[e.about].done = Said(e.row.done, e.says[2])
        /\ sections'[e.about].stamped = (e.row.stamped \/ (e.says[2] = "yes" /\ ~e.row.done))
        /\ \A k \in Orders \ {e.about} : sections'[k] = sections[k]
        /\ \A d \in Editors : edit'[d] = IF d = c THEN NoEdit ELSE edit[d]
    BY <1>5, SaveSectionIs
  <2>2. sections'[e.about].done => sections'[e.about].stamped
    BY <1>2, <2>1 DEF Said, Section
  <2> QED BY <1>2, <2>1, <2>2, IdleHeld
<1> QED BY <1>3, <1>4, <1>5, SectionSteps

-----------------------------------------------------------------------------
(* Agenda items, their notes and the minutes. *)

\* What most steps do to items and notes: they go, or are made.
ItemsPlain ==
  \A i \in Items :
    /\ \/ items'[i].done = items[i].done /\ items'[i].stamped = items[i].stamped
       \/ ~items'[i].stamped /\ (items'[i].done => "born" \in slips')
    /\ notes'[i] \in {0, notes[i]}
    /\ items[i].is = "gone" => items'[i].is = "gone"

LEMMA ItemSteps ==
  ASSUME Typed, DocumentsNext
  PROVE  ItemsPlain \/ \E c \in Editors : SaveItem(c) \/ SaveNote(c)
<1>0. DocumentTypes /\ EditTypes
  BY TypedParts
<1>1. ASSUME NEW S \in SUBSET Items, Dropped(S) PROVE ItemsPlain
  <2>1. \A i \in S : items'[i] = [items[i] EXCEPT !.is = "gone"] /\ items[i] \in Item
    BY <1>0, <1>1 DEF Dropped, DocumentTypes
  <2>2. \A r \in Item : LET t == [r EXCEPT !.is = "gone"]
          IN t.done = r.done /\ t.stamped = r.stamped /\ t.is = "gone"
    BY DEF Item
  <2>3. /\ \A i \in S : notes'[i] = 0
        /\ \A i \in Items \ S : items'[i] = items[i] /\ notes'[i] = notes[i]
    BY <1>0, <1>1, DroppedTyped
  <2>4. \A i \in S : items'[i].done = items[i].done /\ items'[i].stamped = items[i].stamped /\ items'[i].is = "gone"
    BY <2>1, <2>2
  <2> QED BY <2>3, <2>4 DEF ItemsPlain
<1>2. ASSUME NEW i \in Items, AddItem(i) PROVE ItemsPlain
  <2>1. PICK done \in BOOLEAN :
          /\ items' = [items EXCEPT ![i] = [is |-> "live", done |-> done, stamped |-> FALSE]]
          /\ Note("born", done)
    BY <1>2 DEF AddItem
  <2>2. /\ items[i].is = "new" /\ items'[i].done = done /\ items'[i].stamped = FALSE
        /\ \A j \in Items \ {i} : items'[j] = items[j]
        /\ UNCHANGED notes
    BY <1>0, <1>2, <2>1 DEF AddItem, DocumentTypes
  <2>3. done => "born" \in slips'
    BY <2>1 DEF Note
  <2> QED BY <2>2, <2>3 DEF ItemsPlain
<1>3. ASSUME NEW i \in Items, DeleteItem(i) PROVE ItemsPlain
  BY <1>1, <1>3 DEF DeleteItem
<1>4. ASSUME NEW k \in Orders, DeleteAgendaSection(k) PROVE ItemsPlain
  BY <1>1, <1>4 DEF DeleteAgendaSection, Under
<1>5. ASSUME UNCHANGED <<items, notes>> PROVE ItemsPlain
  BY <1>5 DEF ItemsPlain
<1>6. ASSUME NEW c \in Editors, ReadMinutes(c) PROVE ItemsPlain
  BY <1>5, <1>6 DEF ReadMinutes, Begin, tables
<1>7. ASSUME NEW c \in Editors, NEW k \in Orders, ReadSection(c, k) PROVE ItemsPlain
  BY <1>5, <1>7 DEF ReadSection, Begin, tables
<1>8. ASSUME NEW c \in Editors, NEW i \in Items, ReadItem(c, i) \/ LookNote(c, i) PROVE ItemsPlain
  BY <1>5, <1>8 DEF ReadItem, LookNote, Begin, tables
<1>9. ASSUME NEW c \in Editors,
             \/ TrackCompletion(c) \/ ListAgenda(c) \/ FillSection(c) \/ Deactivate(c)
             \/ SaveSection(c) \/ SaveMinutes(c) \/ Abandon(c)
      PROVE  ItemsPlain
  BY <1>5, <1>9 DEF TrackCompletion, ListAgenda, Begin, FillSection, Deactivate, SaveSection,
     SaveMinutes, Abandon, tables
<1>10. ASSUME NEW k \in Orders, AddAgendaSection(k) \/ ActivateAgendaSection(k) \/ AddSection(k)
       PROVE  ItemsPlain
  BY <1>5, <1>10 DEF AddAgendaSection, ActivateAgendaSection, AddSection
<1> QED BY <1>2, <1>3, <1>4, <1>6, <1>7, <1>8, <1>9, <1>10 DEF DocumentsNext

\* Without overlaps, what is saved of an item is what the request says of it as it is.
LEMMA SaveItemIs ==
  ASSUME Typed, CurrentInv, "overlap" \notin slips, NEW c \in Editors, SaveItem(c)
  PROVE  LET i == edit[c].about
             say == edit[c].says[1]
         IN /\ i \in Items /\ Live(i) /\ items[i].done \in BOOLEAN /\ items[i].stamped \in BOOLEAN
            /\ items'[i].done = Said(items[i].done, say)
            /\ items'[i].stamped = Said(items[i].stamped, Stamp(items[i].done, say))
            /\ say = "nothing" /\ items[i].done => "silent" \in slips
            /\ \A j \in Items \ {i} : items'[j] = items[j]
            /\ UNCHANGED <<notes, slips>>
<1>0. DocumentTypes /\ EditTypes
  BY TypedParts
<1>1. edit[c].job = "item" /\ edit[c].step = "save"
  BY DEF SaveItem
<1>2. edit[c].about \in Items /\ ItemFresh(edit[c])
  BY <1>1, InHand DEF Held, Current
<1>3. /\ items' = [items EXCEPT ![edit[c].about] =
           [is |-> "live", done |-> Said(edit[c].row.done, edit[c].says[1]),
            stamped |-> Said(edit[c].row.stamped, edit[c].says[2])]]
      /\ UNCHANGED <<notes, slips>>
  BY DEF SaveItem
<1>4. /\ items'[edit[c].about].done = Said(edit[c].row.done, edit[c].says[1])
      /\ items'[edit[c].about].stamped = Said(edit[c].row.stamped, edit[c].says[2])
      /\ \A j \in Items \ {edit[c].about} : items'[j] = items[j]
  BY <1>0, <1>2, <1>3 DEF DocumentTypes
<1>5. items[edit[c].about].done \in BOOLEAN /\ items[edit[c].about].stamped \in BOOLEAN
  BY <1>0, <1>2 DEF DocumentTypes, Item
<1> QED BY <1>1, <1>2, <1>3, <1>4, <1>5 DEF ItemFresh

LEMMA NextItems ==
  ASSUME Typed, CurrentInv, ItemsSound, DocumentsNext
  PROVE  ItemsSound'
<1> DEFINE Good(i) == /\ items[i].stamped => items[i].done
                      /\ items[i].done /\ slips \cap {"silent", "born"} = {} => items[i].stamped
                      /\ notes[i] <= 1
<1>0. DocumentTypes /\ EditTypes
  BY TypedParts
<1> SUFFICES ASSUME "overlap" \notin slips', NEW i \in Items PROVE Good(i)'
  BY DEF ItemsSound, Barring
<1>1. slips \subseteq slips' /\ "overlap" \notin slips
  BY SectionSteps
<1>2. \A j \in Items : Good(j)
  BY <1>1 DEF ItemsSound, Barring
<1>3. CASE ItemsPlain
  BY <1>1, <1>2, <1>3 DEF ItemsPlain
<1>4. ASSUME NEW c \in Editors, SaveItem(c) PROVE Good(i)'
  <2> DEFINE j == edit[c].about
             say == edit[c].says[1]
  <2>1. /\ j \in Items /\ items[j].done \in BOOLEAN /\ items[j].stamped \in BOOLEAN
        /\ items'[j].done = Said(items[j].done, say)
        /\ items'[j].stamped = Said(items[j].stamped, Stamp(items[j].done, say))
        /\ say = "nothing" /\ items[j].done => "silent" \in slips
        /\ \A k \in Items \ {j} : items'[k] = items[k]
        /\ UNCHANGED <<notes, slips>>
    BY <1>1, <1>4, SaveItemIs
  <2> HIDE DEF j, say
  <2>2. CASE i # j
    BY <1>2, <2>1, <2>2
  <2>3. CASE i = j
    BY <1>2, <2>1, <2>3 DEF Said, Stamp
  <2> QED BY <2>2, <2>3
<1>5. ASSUME NEW c \in Editors, SaveNote(c) PROVE Good(i)'
  <2> DEFINE j == edit[c].about
  <2>1. /\ edit[c].job = "note" /\ UNCHANGED <<items, slips>>
        /\ notes' = [notes EXCEPT ![j] = NotesAfter(@, edit[c].says[1])]
    BY <1>5 DEF SaveNote
  <2>2. j \in Items /\ (edit[c].says[1] = "yes" <=> notes[j] = 1)
    BY <1>1, <2>1, InHand DEF Held, Current, NoteFresh
  <2>3. notes[i] \in Nat /\ notes[j] \in Nat /\ notes[i] <= 1 /\ notes[j] <= 1
        /\ notes'[i] = IF i = j THEN NotesAfter(notes[j], edit[c].says[1]) ELSE notes[i]
    BY <1>0, <1>2, <2>1, <2>2 DEF DocumentTypes
  <2>4. notes'[i] <= 1
    BY <2>2, <2>3 DEF NotesAfter
  <2> QED BY <1>2, <2>1, <2>4
<1> QED BY <1>3, <1>4, <1>5, ItemSteps

-----------------------------------------------------------------------------
(* The inductive invariant of the documents, and what follows from it. *)

LEMMA InitDocuments ==
  ASSUME DocumentsInit
  PROVE  DocumentsInv
<1>1. Typed
  BY InitTyped
<1>2. \A c \in Editors : edit[c].job = "none"
  BY IdleHeld DEF DocumentsInit
<1>3. CurrentInv
  BY <1>2 DEF CurrentInv, Apart, Current
<1>4. WorkingInv /\ MarkInv
  BY <1>2, NewSections DEF DocumentsInit, WorkingInv, MarkInv
<1>5. ItemsSound
  BY DEF DocumentsInit, ItemsSound
<1> QED BY <1>1, <1>3, <1>4, <1>5 DEF DocumentsInv

LEMMA NextDocuments == DocumentsInv /\ [DocumentsNext]_documents => DocumentsInv'
<1> SUFFICES ASSUME DocumentsInv, [DocumentsNext]_documents PROVE DocumentsInv'
  OBVIOUS
<1>1. Typed'
  BY NextTyped DEF DocumentsInv
<1>2. CASE DocumentsNext
  BY <1>1, <1>2, NextFresh, NextWorking, NextMarks, NextItems DEF DocumentsInv
<1>3. CASE UNCHANGED documents
  <2>1. CurrentInv'
    BY <1>3 DEF documents, DocumentsInv, CurrentInv, Apart, Current, SectionFresh, ItemFresh,
       NoteFresh, Live
  <2>2. WorkingInv' /\ MarkInv' /\ ItemsSound'
    BY <1>3 DEF documents, DocumentsInv, WorkingInv, MarkInv, ItemsSound, Barring
  <2> QED BY <1>1, <2>1, <2>2 DEF DocumentsInv
<1> QED BY <1>2, <1>3

\* Rows saved whole as they were read keep their types, and no minute section, item
\* or note comes to refer to what has been deleted meanwhile: a deletion cascades, and
\* an insert under a deleted agenda section is refused.
THEOREM DocumentsTypeCorrect == DocumentsSpec => []DocumentsTypeOK
<1>1. DocumentsInv => DocumentsTypeOK
  BY DEF DocumentsInv, Typed
<1> QED BY <1>1, InitDocuments, NextDocuments, PTL DEF DocumentsSpec

\* The PATCH of a minute section deactivates all sections before it saves its own:
\* unless two requests overlap or a section is created as active, one minute section
\* at most is active; and however requests overlap, unless one is created as
\* completed, every completed section has a completion time.
THEOREM SectionsStaySound == DocumentsSpec => []SectionsSound
<1>1. ASSUME DocumentsInv PROVE SectionsSound
  <2>1. ASSUME Barring({"overlap", "posted"})
        PROVE  Cardinality({k \in Orders : sections[k].working}) <= 1
    <3> DEFINE W == {k \in Orders : sections[k].working}
    <3>1. \A j, k \in W : j = k
      BY <1>1, <2>1 DEF DocumentsInv, WorkingInv
    <3> HIDE DEF W
    <3>2. W = {} \/ \E k \in W : W = {k}
      BY <3>1
    <3>3. Cardinality({}) = 0 /\ \A k : Cardinality({k}) = 1
      BY FS_EmptySet, FS_Singleton
    <3>4. Cardinality(W) \in {0, 1}
      BY <3>2, <3>3
    <3>5. \A n \in {0, 1} : n <= 1
      OBVIOUS
    <3>6. Cardinality(W) <= 1
      BY <3>4, <3>5
    <3> QED BY <3>6 DEF W
  <2>2. ASSUME Barring({"posted"}) PROVE \A k \in Orders : sections[k].done => sections[k].stamped
    BY <1>1, <2>2 DEF DocumentsInv, MarkInv, Barring
  <2> QED BY <2>1, <2>2 DEF SectionsSound
<1> QED BY <1>1, InitDocuments, NextDocuments, PTL DEF DocumentsSpec

\* Without overlapping edits perform_update stamps an item exactly when it is
\* completed, but for edits that leave completion out and items that perform_create
\* makes as completed, which it does not stamp; and agenda_minute_notes, which
\* looks for a note before it makes one, never makes two for an item.
THEOREM ItemsStaySound == DocumentsSpec => []ItemsSound
<1>1. DocumentsInv => ItemsSound
  BY DEF DocumentsInv
<1> QED BY <1>1, InitDocuments, NextDocuments, PTL DEF DocumentsSpec

\* What NothingUndone says of a step.
Settles ==
  Barring({"overlap"}) =>
    /\ \A i \in Items : items[i].is = "gone" => items'[i].is = "gone"
    /\ minutes = "approved" /\ minutes' # "approved" =>
         \E c \in Editors : edit[c].job = "minutes" /\ edit[c].says[2] = "no"
    /\ \A k \in Orders : sections[k].done /\ ~sections'[k].done =>
         \/ sections'[k] = NoSection
         \/ \E c \in Editors : edit[c].job = "section" /\ edit[c].about = k /\ edit[c].says[2] = "no"

\* Without overlapping edits nothing settled is undone by an edit that did not ask
\* for it: deleted items stay deleted, approved minutes and completed sections are
\* reopened only by a request that says so, or go with what they belong to.
THEOREM SettledStays == DocumentsSpec => NothingUndone
<1>1. ASSUME DocumentsInv, DocumentsNext PROVE Settles
  <2> SUFFICES ASSUME "overlap" \notin slips PROVE Settles
    BY DEF Settles, Barring
  <2>0. Typed /\ CurrentInv /\ DocumentTypes /\ EditTypes
    BY <1>1, TypedParts DEF DocumentsInv
  <2>1. ASSUME NEW i \in Items, items[i].is = "gone" PROVE items'[i].is = "gone"
    <3>1. CASE ItemsPlain
      BY <2>1, <3>1 DEF ItemsPlain
    <3>2. ASSUME NEW c \in Editors, SaveItem(c) PROVE items'[i].is = "gone"
      BY <2>0, <2>1, <3>2, SaveItemIs DEF Live
    <3>3. ASSUME NEW c \in Editors, SaveNote(c) PROVE items'[i].is = "gone"
      BY <2>1, <3>3 DEF SaveNote
    <3> QED BY <1>1, <2>0, <3>1, <3>2, <3>3, ItemSteps
  <2>2. ASSUME minutes = "approved", minutes' # "approved"
        PROVE  \E c \in Editors : edit[c].job = "minutes" /\ edit[c].says[2] = "no"
    <3>1. PICK c \in Editors : SaveMinutes(c)
      BY <1>1, <2>2 DEF DocumentsNext, AddAgendaSection, ActivateAgendaSection,
         DeleteAgendaSection, AddSection, AddItem, DeleteItem, ReadItem, LookNote, ListAgenda,
         ReadSection, ReadMinutes, Begin, tables, TrackCompletion, SaveItem, FillSection,
         Deactivate, SaveSection, SaveNote, Abandon
    <3>2. edit[c].job = "minutes" /\ edit[c].says[1] = "approved"
      BY <2>0, <2>2, <3>1, InHand DEF SaveMinutes, Current
    <3>3. edit[c].says[2] \in Says
      BY <2>0, InHand DEF EditRows
    <3> QED BY <2>2, <3>1, <3>2, <3>3 DEF SaveMinutes, MinutesAfter, Said, Says
  <2>3. ASSUME NEW k \in Orders, sections[k].done, ~sections'[k].done
        PROVE  \/ sections'[k] = NoSection
               \/ \E c \in Editors : edit[c].job = "section" /\ edit[c].about = k /\ edit[c].says[2] = "no"
    <3>1. CASE Plain
      BY <2>3, <3>1, NewSections DEF Plain
    <3>2. ASSUME NEW c \in Editors, Deactivate(c) PROVE FALSE
      BY <2>0, <2>3, <3>2, DeactivateIs
    <3>3. ASSUME NEW c \in Editors, SaveSection(c)
          PROVE  edit[c].job = "section" /\ edit[c].about = k /\ edit[c].says[2] = "no"
      <4> DEFINE e == edit[c]
      <4>1. /\ e.job = "section" /\ e.about \in Orders /\ e.row \in Section
            /\ e.says[2] \in Says
            /\ sections'[e.about].done = Said(e.row.done, e.says[2])
            /\ \A j \in Orders \ {e.about} : sections'[j] = sections[j]
            /\ e.row.from # 0 => Kept(e.row.from)
        BY <2>0, <3>3, SaveSectionIs
      <4>2. e.about = k
        BY <2>3, <4>1
      <4>3. SectionFresh(e) /\ [e.row EXCEPT !.working = FALSE].done = e.row.done
        BY <2>0, <4>1, InHand DEF Current, Section
      <4>4. e.row.done
        BY <2>3, <4>1, <4>2, <4>3 DEF SectionFresh, Kept
      <4> QED BY <2>3, <4>1, <4>2, <4>4 DEF Said, Says
    <3> QED BY <1>1, <2>0, <3>1, <3>2, <3>3, SectionSteps
  <2> QED BY <2>1, <2>2, <2>3 DEF Settles
<1>2. DocumentsInv /\ [DocumentsNext]_documents => [Settles]_documents
  BY <1>1
<1>3. NothingUndone <=> [][Settles]_documents
  BY DEF NothingUndone, Settles
<1> QED BY <1>2, <1>3, InitDocuments, NextDocuments, PTL DEF DocumentsSpec

=============================================================================
