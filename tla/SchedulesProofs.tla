-------------------------- MODULE SchedulesProofs --------------------------
(***************************************************************************)
(* Proofs about Schedules, for any number of requests, sweeps and          *)
(* playlists, any schedules asked for, and any overlap of processes; about *)
(* one process at a time; and about the overlap test of FLASH schedules,   *)
(* for days of any length.                                                 *)
(***************************************************************************)
EXTENDS MCSchedules, FiniteSetTheorems, TLAPS

(***************************************************************************)
(* What the overlap test decides.                                          *)
(***************************************************************************)

\* The times of day a window claims.
ClaimsTime(w, time) ==
  IF w.startTime <= w.endTime
  THEN time \in w.startTime..(w.endTime - 1)
  ELSE time \in w.startTime..(DayLength - 1) \cup 0..(w.endTime - 1)

\* A window claims exactly the minutes of its segments.
LEMMA SegmentsAreClaims ==
  ASSUME NEW w, IsWindow(w), NEW time \in Times
  PROVE  ClaimsTime(w, time) <=>
           \E s \in DailyTimeSegments(w.startTime, w.endTime) : s[1] <= time /\ time < s[2]
<1> USE DayAssumption DEF IsWindow, Times
<1>1. CASE w.startTime = w.endTime
  <2>1. DailyTimeSegments(w.startTime, w.endTime) = {}
    BY <1>1 DEF DailyTimeSegments
  <2>2. ~ClaimsTime(w, time)
    BY <1>1 DEF ClaimsTime
  <2> QED BY <2>1, <2>2
<1>2. CASE w.startTime < w.endTime
  <2>1. DailyTimeSegments(w.startTime, w.endTime) = {<<w.startTime, w.endTime>>}
    BY <1>2 DEF DailyTimeSegments
  <2>2. ClaimsTime(w, time) <=> w.startTime <= time /\ time < w.endTime
    BY <1>2 DEF ClaimsTime
  <2> QED BY <2>1, <2>2
<1>3. CASE w.endTime < w.startTime
  <2>1. DailyTimeSegments(w.startTime, w.endTime)
          = {<<w.startTime, DayLength>>, <<0, w.endTime>>}
    BY <1>3 DEF DailyTimeSegments
  <2>2. ClaimsTime(w, time) <=> w.startTime <= time \/ time < w.endTime
    BY <1>3 DEF ClaimsTime
  <2>3. (\E s \in {<<w.startTime, DayLength>>, <<0, w.endTime>>} : s[1] <= time /\ time < s[2])
          <=> (w.startTime <= time /\ time < DayLength) \/ (0 <= time /\ time < w.endTime)
    OBVIOUS
  <2> QED BY <2>1, <2>2, <2>3
<1> QED BY <1>1, <1>2, <1>3

\* A segment lies within the day.
LEMMA SegmentsWithinDay ==
  ASSUME NEW w, IsWindow(w), NEW s \in DailyTimeSegments(w.startTime, w.endTime)
  PROVE  s[1] \in Times /\ s[2] \in 0..DayLength
BY DayAssumption DEF IsWindow, Times, DailyTimeSegments

\* Two half-open segments meet exactly when they have a minute in common.
LEMMA SegmentsMeet ==
  ASSUME NEW s, NEW t,
         s[1] \in Times, s[2] \in 0..DayLength, t[1] \in Times, t[2] \in 0..DayLength
  PROVE  (s[1] < t[2] /\ t[1] < s[2] /\ s[1] < s[2] /\ t[1] < t[2]) <=>
           \E time \in Times : /\ s[1] <= time /\ time < s[2]
                               /\ t[1] <= time /\ time < t[2]
<1> USE DayAssumption DEF Times
<1>1. ASSUME s[1] < t[2], t[1] < s[2], s[1] < s[2], t[1] < t[2]
      PROVE  \E time \in Times : s[1] <= time /\ time < s[2] /\ t[1] <= time /\ time < t[2]
  <2>1. CASE s[1] <= t[1]
    BY <1>1, <2>1
  <2>2. CASE t[1] < s[1]
    BY <1>1, <2>2
  <2> QED BY <2>1, <2>2
<1>2. ASSUME NEW time \in Times, s[1] <= time, time < s[2], t[1] <= time, time < t[2]
      PROVE  s[1] < t[2] /\ t[1] < s[2] /\ s[1] < s[2] /\ t[1] < t[2]
  BY <1>2
<1> QED BY <1>1, <1>2

\* The time-of-day test is true exactly when both windows claim a minute.
LEMMA TimeRangesMeet ==
  ASSUME NEW v, NEW w, IsWindow(v), IsWindow(w)
  PROVE  HasTimeRangeOverlap(v, w) <=>
           \E time \in Times : ClaimsTime(v, time) /\ ClaimsTime(w, time)
<1> DEFINE V == DailyTimeSegments(v.startTime, v.endTime)
           W == DailyTimeSegments(w.startTime, w.endTime)
<1>1. ASSUME NEW s \in V, NEW t \in W, s[1] < t[2], t[1] < s[2]
      PROVE  s[1] < s[2] /\ t[1] < t[2]
  <2>1. (s[1] = 0 /\ s[2] \in Nat) \/ s[1] < s[2]
    BY DayAssumption DEF IsWindow, Times, DailyTimeSegments
  <2>2. (t[1] = 0 /\ t[2] \in Nat) \/ t[1] < t[2]
    BY DayAssumption DEF IsWindow, Times, DailyTimeSegments
  <2>3. s[1] \in Nat /\ s[2] \in Nat /\ t[1] \in Nat /\ t[2] \in Nat
    BY SegmentsWithinDay, DayAssumption DEF Times
  <2> QED BY <1>1, <2>1, <2>2, <2>3
<1>2. HasTimeRangeOverlap(v, w) <=>
        \E s \in V, t \in W : s[1] < t[2] /\ t[1] < s[2] /\ s[1] < s[2] /\ t[1] < t[2]
  BY <1>1 DEF HasTimeRangeOverlap
<1>3. @ <=> \E s \in V, t \in W, time \in Times :
             s[1] <= time /\ time < s[2] /\ t[1] <= time /\ time < t[2]
  <2>1. ASSUME NEW s \in V, NEW t \in W
        PROVE  (s[1] < t[2] /\ t[1] < s[2] /\ s[1] < s[2] /\ t[1] < t[2]) <=>
                 \E time \in Times : s[1] <= time /\ time < s[2] /\ t[1] <= time /\ time < t[2]
    <3>1. s[1] \in Times /\ s[2] \in 0..DayLength /\ t[1] \in Times /\ t[2] \in 0..DayLength
      BY SegmentsWithinDay
    <3> QED BY <3>1, SegmentsMeet
  <2> QED BY <2>1
<1>4. @ <=> \E time \in Times : ClaimsTime(v, time) /\ ClaimsTime(w, time)
  <2>1. \A time \in Times : ClaimsTime(v, time) <=> \E s \in V : s[1] <= time /\ time < s[2]
    BY SegmentsAreClaims
  <2>2. \A time \in Times : ClaimsTime(w, time) <=> \E t \in W : t[1] <= time /\ time < t[2]
    BY SegmentsAreClaims
  <2> QED BY <2>1, <2>2
<1> QED BY <1>2, <1>3, <1>4

\* Two ranges of dates overlap exactly when they have a date in common.
LEMMA DateRangesMeet ==
  ASSUME NEW v, NEW w, IsWindow(v), IsWindow(w),
         v.startDate <= v.endDate, w.startDate <= w.endDate
  PROVE  HasDateRangeOverlap(v, w) <=>
           \E date \in v.startDate..v.endDate : date \in w.startDate..w.endDate
<1> USE DEF IsWindow, HasDateRangeOverlap
<1>1. CASE v.startDate <= w.startDate
  BY <1>1
<1>2. CASE w.startDate < v.startDate
  BY <1>2
<1> QED BY <1>1, <1>2

\* The overlap test that refuses a FLASH schedule with a 409 (windowsConflict,
\* hasDateRangeOverlap, hasTimeRangeOverlap) is true exactly when some minute of
\* some date belongs to both windows: it misses no collision, invents none, and
\* treats windows over midnight like the others.
THEOREM OverlapMeansSharedInstant ==
  ASSUME NEW v, NEW w, IsWindow(v), IsWindow(w),
         v.startDate <= v.endDate, w.startDate <= w.endDate
  PROVE  Overlap(v, w) <=> ShareAnInstant(v, w)
<1>1. ShareAnInstant(v, w) <=>
        /\ \E date \in v.startDate..v.endDate : date \in w.startDate..w.endDate
        /\ \E time \in Times : ClaimsTime(v, time) /\ ClaimsTime(w, time)
  BY DEF ShareAnInstant, Claims, ClaimsTime
<1> QED BY <1>1, DateRangesMeet, TimeRangesMeet DEF Overlap

\* Which of the two schedules asks first does not matter.
THEOREM OverlapIsSymmetric ==
  ASSUME NEW v, NEW w
  PROVE  Overlap(v, w) <=> Overlap(w, v)
BY DEF Overlap, HasDateRangeOverlap, HasTimeRangeOverlap

(***************************************************************************)
(* The inductive invariant.                                                *)
(***************************************************************************)

\* The schedule s, as the draft, conflicts with no other row that was seen.
Admitted(s, draft, seen) ==
  /\ seen \in Rows
  /\ \A x \in Requests \ {s} : seen[x] # None => ~WindowsConflict(draft, seen[x])

\* What a process holds at each step.
TaskFits(s, t) ==
  /\ s \in Steps
  /\ t \in Task
  /\ s \in {"check", "write", "delete"} => t.id \in Requests
  /\ s \in {"check", "write"} => t.draft \in Drafts
  /\ s = "write" => Admitted(t.id, t.draft, t.seen)
  /\ s \in {"count", "setStatus", "edit", "clear", "deletePlaylist"} => t.id \in Playlists
  /\ s \in {"count", "setStatus"} => t.status \in {"DRAFT", "IN_USE"}
  /\ s \in {"reconcile", "count", "setStatus"} => t.todo \subseteq Playlists
  /\ s \in {"clear", "purge", "deleteFinished"} => t.todo \subseteq Requests

TasksInv ==
  /\ step = [p \in Processes |-> step[p]]
  /\ task = [p \in Processes |-> task[p]]
  /\ \A p \in Processes : TaskFits(step[p], task[p])

ScheduleInv ==
  /\ rows \in Rows
  /\ basis \in [Requests -> Rows \cup {None}]
  /\ \A s \in Requests : rows[s] # None => Admitted(s, rows[s], basis[s])

PlaylistInv ==
  /\ status \in [Playlists -> Statuses]
  /\ unused \in [Playlists -> Nat \cup {None}]

ClockInv == now \in 0..MaxTime

IInv == ClockInv /\ ScheduleInv /\ PlaylistInv /\ TasksInv

(***************************************************************************)
(* Steps of one process.                                                   *)
(***************************************************************************)

\* A process that goes on with a fitting task disturbs no other.
LEMMA GoKeepsTasks ==
  ASSUME TasksInv, NEW p \in Processes, NEW s, NEW t, Go(p, s, t), TaskFits(s, t)
  PROVE  TasksInv'
<1>1. ASSUME NEW q \in Processes
      PROVE  TaskFits(step'[q], task'[q])
  <2>1. CASE q = p
    BY <2>1 DEF TasksInv, Go
  <2>2. CASE q # p
    <3>1. step'[q] = step[q] /\ task'[q] = task[q]
      BY <2>2 DEF TasksInv, Go
    <3> QED BY <3>1 DEF TasksInv
  <2> QED BY <2>1, <2>2
<1>2. step' = [q \in Processes |-> step'[q]] /\ task' = [q \in Processes |-> task'[q]]
  BY DEF TasksInv, Go
<1> QED BY <1>1, <1>2 DEF TasksInv

\* The empty task fits the steps that hold nothing.
LEMMA BlankFits ==
  /\ Blank \in Task
  /\ TaskFits("idle", Blank)
  /\ TaskFits("done", Blank)
<1>1. Blank \in Task
  BY DEF Blank, Task
<1> QED BY <1>1 DEF TaskFits, Steps

\* A process that rests disturbs no other.
LEMMA RestKeepsTasks ==
  ASSUME TasksInv, NEW p \in Processes, Rest(p)
  PROVE  TasksInv'
<1>1. CASE p \in Requests
  BY <1>1, BlankFits, GoKeepsTasks DEF Rest, Go
<1>2. CASE p \notin Requests
  BY <1>2, BlankFits, GoKeepsTasks DEF Rest, Go
<1> QED BY <1>1, <1>2

\* A list of playlists to reconcile is a fitting task.
LEMMA ReconcileFits ==
  ASSUME NEW qs \in SUBSET Playlists, NEW t \in Nat
  PROVE  TaskFits("reconcile", [Blank EXCEPT !.todo = qs, !.at = t])
<1>1. [Blank EXCEPT !.todo = qs, !.at = t] \in Task
  BY DEF Blank, Task
<1> QED BY <1>1 DEF TaskFits, Steps, Blank

\* Going on to reconcile playlists, or resting, leaves every task fitting.
LEMMA ReconcileKeepsTasks ==
  ASSUME TasksInv, ClockInv, NEW p \in Processes, NEW qs \in SUBSET Playlists,
         ThenReconcile(p, qs)
  PROVE  TasksInv'
<1>1. now \in Nat
  BY SchedulesAssumption DEF ClockInv
<1> QED BY <1>1, ReconcileFits, GoKeepsTasks, RestKeepsTasks DEF ThenReconcile

\* Going on to the next playlist, or resting, leaves every task fitting.
LEMMA NextKeepsTasks ==
  ASSUME TasksInv, NEW p \in Processes, NEW q, NextPlaylist(p, q),
         step[p] \in {"reconcile", "count", "setStatus"}
  PROVE  TasksInv'
<1>1. task[p].todo \in SUBSET Playlists /\ task[p].at \in Nat
  BY DEF TasksInv, TaskFits, Task
<1>2. task[p].todo \ {q} \in SUBSET Playlists
  BY <1>1
<1> QED BY <1>1, <1>2, ReconcileFits, GoKeepsTasks, RestKeepsTasks DEF NextPlaylist

(***************************************************************************)
(* Changes of the rows and of the playlists.                               *)
(***************************************************************************)

\* Writing the row at hand, checked against what its writer saw, keeps the rows admitted.
LEMMA WriteKeepsSchedules ==
  ASSUME ScheduleInv, TasksInv, NEW r \in Requests, step[r] = "write", WriteRow(r)
  PROVE  ScheduleInv'
<1> DEFINE s == task[r].id
           d == task[r].draft
           held == task[r].seen
<1>1. s \in Requests /\ d \in Drafts /\ Admitted(s, d, held)
  BY DEF TasksInv, TaskFits, Processes
<1>2. rows' = [rows EXCEPT ![s] = d] /\ basis' = [basis EXCEPT ![s] = held]
  BY DEF WriteRow
<1>3. held \in Rows
  BY <1>1 DEF Admitted
<1> HIDE DEF s, d, held
<1>4. rows' \in Rows /\ basis' \in [Requests -> Rows \cup {None}]
  BY <1>1, <1>2, <1>3 DEF ScheduleInv, Rows
<1>5. ASSUME NEW x \in Requests, rows'[x] # None
      PROVE  Admitted(x, rows'[x], basis'[x])
  <2>1. CASE x = s
    <3>1. rows'[x] = d /\ basis'[x] = held
      BY <1>1, <1>2, <2>1 DEF ScheduleInv, Rows
    <3> QED BY <1>1, <2>1, <3>1
  <2>2. CASE x # s
    <3>1. rows'[x] = rows[x] /\ basis'[x] = basis[x]
      BY <1>2, <2>2 DEF ScheduleInv, Rows
    <3> QED BY <1>5, <3>1 DEF ScheduleInv
  <2> QED BY <2>1, <2>2
<1> QED BY <1>4, <1>5 DEF ScheduleInv

\* Removing rows keeps the others admitted.
LEMMA RemoveKeepsSchedules ==
  ASSUME ScheduleInv, NEW ss, RemoveRows(ss)
  PROVE  ScheduleInv'
<1>1. rows' \in Rows /\ basis' \in [Requests -> Rows \cup {None}]
  BY DEF ScheduleInv, RemoveRows, Rows
<1>2. ASSUME NEW x \in Requests, rows'[x] # None
      PROVE  Admitted(x, rows'[x], basis'[x])
  <2>1. rows'[x] = rows[x] /\ basis'[x] = basis[x]
    BY <1>2 DEF RemoveRows
  <2> QED BY <1>2, <2>1 DEF ScheduleInv
<1> QED BY <1>1, <1>2 DEF ScheduleInv

\* Setting a status keeps the types of the playlists.
LEMMA SetStatusKeepsPlaylists ==
  ASSUME PlaylistInv, ClockInv, NEW p, NEW s \in {"DRAFT", "IN_USE"}, SetStatus(p, s)
  PROVE  PlaylistInv'
<1>1. now \in Nat
  BY SchedulesAssumption DEF ClockInv
<1>2. status' \in [Playlists -> Statuses]
  BY DEF PlaylistInv, SetStatus, Statuses
<1>3. unused' \in [Playlists -> Nat \cup {None}]
  BY <1>1 DEF PlaylistInv, SetStatus
<1> QED BY <1>2, <1>3 DEF PlaylistInv

\* Deleting playlists keeps the types of the playlists.
LEMMA DropKeepsPlaylists ==
  ASSUME PlaylistInv, NEW qs, DropPlaylists(qs)
  PROVE  PlaylistInv'
BY DEF PlaylistInv, DropPlaylists, Statuses

\* Rows left alone stay admitted.
LEMMA UnchangedSchedules ==
  ASSUME ScheduleInv, UNCHANGED scheduleVars
  PROVE  ScheduleInv'
<1>1. rows' = rows /\ basis' = basis
  BY DEF scheduleVars
<1> QED BY <1>1 DEF ScheduleInv

\* Playlists left alone keep their types.
LEMMA UnchangedPlaylists ==
  ASSUME PlaylistInv, UNCHANGED playlistVars
  PROVE  PlaylistInv'
BY DEF PlaylistInv, playlistVars

\* Tasks left alone stay fitting.
LEMMA UnchangedTasks ==
  ASSUME TasksInv, UNCHANGED <<step, task>>
  PROVE  TasksInv'
<1>1. step' = step /\ task' = task
  OBVIOUS
<1> QED BY <1>1 DEF TasksInv

(***************************************************************************)
(* The actions, one by one.                                                *)
(***************************************************************************)

\* A request to create a schedule holds a draft and its own name.
LEMMA BeginCreateKeeps ==
  ASSUME IInv, NEW r \in Requests, NEW draft \in Drafts, BeginCreate(r, draft)
  PROVE  IInv'
<1> DEFINE t == [Blank EXCEPT !.id = r, !.draft = draft]
<1>1. TasksInv'
  <2>1. t \in Task
    BY SchedulesAssumption DEF Blank, Task
  <2>2. TaskFits("check", t)
    BY <2>1 DEF TaskFits, Steps, Blank
  <2> QED BY <2>2, GoKeepsTasks DEF BeginCreate, IInv, Processes
<1>2. ClockInv' /\ ScheduleInv' /\ PlaylistInv'
  BY UnchangedSchedules, UnchangedPlaylists DEF IInv, ClockInv, BeginCreate
<1> QED BY <1>1, <1>2 DEF IInv

\* A request to update a schedule holds the draft, the schedule and both playlists.
LEMMA BeginUpdateKeeps ==
  ASSUME IInv, NEW r \in Requests, NEW s \in Requests, NEW draft \in Drafts, BeginUpdate(r, s, draft)
  PROVE  IInv'
<1> DEFINE t == [Blank EXCEPT !.id = s, !.draft = draft,
                             !.affected = TargetsOf(rows[s]) \cup TargetsOf(draft)]
<1>1. TasksInv'
  <2>1. t \in Task
    BY SchedulesAssumption DEF Blank, Task, TargetsOf
  <2>2. TaskFits("check", t)
    BY <2>1 DEF TaskFits, Steps, Blank
  <2> QED BY <2>2, GoKeepsTasks DEF BeginUpdate, IInv, Processes
<1>2. ClockInv' /\ ScheduleInv' /\ PlaylistInv'
  BY UnchangedSchedules, UnchangedPlaylists DEF IInv, ClockInv, BeginUpdate
<1> QED BY <1>1, <1>2 DEF IInv

\* A request to delete a schedule holds the schedule and its playlist.
LEMMA BeginDeleteKeeps ==
  ASSUME IInv, NEW r \in Requests, NEW s \in Requests, BeginDelete(r, s)
  PROVE  IInv'
<1> DEFINE t == [Blank EXCEPT !.id = s, !.affected = TargetsOf(rows[s])]
<1>1. TasksInv'
  <2>1. t \in Task
    BY SchedulesAssumption DEF Blank, Task, TargetsOf
  <2>2. TaskFits("delete", t)
    BY <2>1 DEF TaskFits, Steps, Blank
  <2> QED BY <2>2, GoKeepsTasks DEF BeginDelete, IInv, Processes
<1>2. ClockInv' /\ ScheduleInv' /\ PlaylistInv'
  BY UnchangedSchedules, UnchangedPlaylists DEF IInv, ClockInv, BeginDelete
<1> QED BY <1>1, <1>2 DEF IInv

\* An edit holds a playlist and the status it read.
LEMMA BeginEditKeeps ==
  ASSUME IInv, NEW r \in Requests, NEW q \in Playlists, BeginEdit(r, q)
  PROVE  IInv'
<1> DEFINE t == [Blank EXCEPT !.id = q, !.status = status[q]]
<1>1. TasksInv'
  <2>1. t \in Task
    BY SchedulesAssumption DEF Blank, Task, BeginEdit, IInv, PlaylistInv, Statuses
  <2>2. TaskFits("edit", t)
    BY <2>1 DEF TaskFits, Steps, Blank
  <2> QED BY <2>2, GoKeepsTasks DEF BeginEdit, IInv, Processes
<1>2. ClockInv' /\ ScheduleInv' /\ PlaylistInv'
  BY UnchangedSchedules, UnchangedPlaylists DEF IInv, ClockInv, BeginEdit
<1> QED BY <1>1, <1>2 DEF IInv

\* A draft that passes the check is admitted by the rows it was checked against.
LEMMA CheckKeeps ==
  ASSUME IInv, NEW r \in Requests, Check(r)
  PROVE  IInv'
<1>1. TasksInv'
  <2>1. r \in Processes /\ TaskFits("check", task[r]) /\ rows \in Rows
    BY DEF Check, IInv, TasksInv, ScheduleInv, Processes
  <2>2. CASE \E s \in Existing \ {task[r].id} : WindowsConflict(task[r].draft, rows[s])
    BY <2>1, <2>2, RestKeepsTasks DEF Check, IInv
  <2>3. CASE ~ \E s \in Existing \ {task[r].id} : WindowsConflict(task[r].draft, rows[s])
    <3> DEFINE t == [task[r] EXCEPT !.seen = rows]
    <3>1. t \in Task /\ t.id = task[r].id /\ t.draft = task[r].draft /\ t.seen = rows
      BY <2>1 DEF TaskFits, Task
    <3>2. Admitted(t.id, t.draft, t.seen)
      BY <2>1, <2>3, <3>1 DEF Admitted, Existing
    <3> HIDE DEF t
    <3>3. TaskFits("write", t)
      BY <2>1, <3>1, <3>2 DEF TaskFits, Steps
    <3>4. Go(r, "write", t)
      BY <2>3 DEF Check, t
    <3> QED BY <2>1, <3>3, <3>4, GoKeepsTasks DEF IInv
  <2> QED BY <2>2, <2>3
<1>2. ClockInv' /\ ScheduleInv' /\ PlaylistInv'
  BY UnchangedSchedules, UnchangedPlaylists DEF IInv, ClockInv, Check
<1> QED BY <1>1, <1>2 DEF IInv

\* The insert writes an admitted row.
LEMMA InsertKeeps ==
  ASSUME IInv, NEW r \in Requests, Insert(r)
  PROVE  IInv'
<1>1. TasksInv'
  <2>1. TargetsOf(task[r].draft) \in SUBSET Playlists
    BY DEF TargetsOf
  <2> QED BY <2>1, RestKeepsTasks, ReconcileKeepsTasks DEF Insert, IInv, Processes
<1>2. ScheduleInv'
  BY WriteKeepsSchedules, UnchangedSchedules DEF Insert, IInv
<1>3. ClockInv' /\ PlaylistInv'
  BY UnchangedPlaylists DEF Insert, IInv, ClockInv
<1> QED BY <1>1, <1>2, <1>3 DEF IInv

\* The update writes an admitted row.
LEMMA UpdateKeeps ==
  ASSUME IInv, NEW r \in Requests, Update(r)
  PROVE  IInv'
<1>1. TasksInv'
  <2>1. task[r].affected \in SUBSET Playlists
    BY DEF IInv, TasksInv, TaskFits, Task, Processes
  <2> QED BY <2>1, RestKeepsTasks, ReconcileKeepsTasks DEF Update, IInv, Processes
<1>2. ScheduleInv'
  BY WriteKeepsSchedules, UnchangedSchedules DEF Update, IInv
<1>3. ClockInv' /\ PlaylistInv'
  BY UnchangedPlaylists DEF Update, IInv, ClockInv
<1> QED BY <1>1, <1>2, <1>3 DEF IInv

\* The deletion of a schedule removes one row.
LEMMA DeleteKeeps ==
  ASSUME IInv, NEW r \in Requests, Delete(r)
  PROVE  IInv'
<1>1. TasksInv'
  <2>1. task[r].affected \in SUBSET Playlists
    BY DEF IInv, TasksInv, TaskFits, Task, Processes
  <2> QED BY <2>1, RestKeepsTasks, ReconcileKeepsTasks DEF Delete, IInv, Processes
<1>2. ScheduleInv'
  BY RemoveKeepsSchedules, UnchangedSchedules DEF Delete, IInv
<1>3. ClockInv' /\ PlaylistInv'
  BY UnchangedPlaylists DEF Delete, IInv, ClockInv
<1> QED BY <1>1, <1>2, <1>3 DEF IInv

\* A sweep lists playlists.
LEMMA BeginSweepKeeps ==
  ASSUME IInv, NEW p \in Sweeps, BeginSweep(p)
  PROVE  IInv'
<1>1. TasksInv'
  <2>1. {q \in Playlists : status[q] # "GONE"} \in SUBSET Playlists
    OBVIOUS
  <2> QED BY <2>1, ReconcileKeepsTasks DEF BeginSweep, IInv, Processes
<1>2. ClockInv' /\ ScheduleInv' /\ PlaylistInv'
  BY UnchangedSchedules, UnchangedPlaylists DEF IInv, ClockInv, BeginSweep
<1> QED BY <1>1, <1>2 DEF IInv

\* A status read is never GONE: that playlist is passed over.
LEMMA ReadStatusKeeps ==
  ASSUME IInv, NEW p \in Processes, NEW q \in Playlists, ReadStatus(p, q)
  PROVE  IInv'
<1>1. TasksInv'
  <2>1. CASE status[q] = "GONE"
    BY <2>1, NextKeepsTasks DEF ReadStatus, IInv
  <2>2. CASE status[q] # "GONE"
    <3> DEFINE t == [task[p] EXCEPT !.id = q, !.status = status[q]]
    <3>1. TaskFits("reconcile", task[p])
      BY DEF ReadStatus, IInv, TasksInv
    <3>2. status[q] \in {"DRAFT", "IN_USE"}
      BY <2>2 DEF IInv, PlaylistInv, Statuses
    <3>3. t \in Task /\ t.id = q /\ t.status = status[q] /\ t.todo = task[p].todo
      BY <3>1, <3>2 DEF TaskFits, Task
    <3> HIDE DEF t
    <3>4. TaskFits("count", t)
      BY <3>1, <3>2, <3>3 DEF TaskFits, Steps
    <3>5. Go(p, "count", t)
      BY <2>2 DEF ReadStatus, t
    <3> QED BY <3>4, <3>5, GoKeepsTasks DEF IInv
  <2> QED BY <2>1, <2>2
<1>2. ClockInv' /\ ScheduleInv' /\ PlaylistInv'
  BY UnchangedSchedules, UnchangedPlaylists DEF IInv, ClockInv, ReadStatus
<1> QED BY <1>1, <1>2 DEF IInv

\* The status to write is DRAFT or IN_USE.
LEMMA CountSchedulesKeeps ==
  ASSUME IInv, NEW p \in Processes, CountSchedules(p)
  PROVE  IInv'
<1>1. TasksInv'
  <2> DEFINE due == StatusFor(task[p].id, task[p].at)
  <2>1. CASE due = task[p].status
    BY <2>1, NextKeepsTasks DEF CountSchedules, IInv
  <2>2. CASE due # task[p].status
    <3> DEFINE t == [task[p] EXCEPT !.status = due]
    <3>1. TaskFits("count", task[p])
      BY DEF CountSchedules, IInv, TasksInv
    <3>2. due \in {"DRAFT", "IN_USE"}
      BY DEF StatusFor
    <3>3. Go(p, "setStatus", t)
      BY <2>2 DEF CountSchedules
    <3> HIDE DEF due
    <3>4. t \in Task /\ t.id = task[p].id /\ t.status = due /\ t.todo = task[p].todo
      BY <3>1, <3>2 DEF TaskFits, Task
    <3> HIDE DEF t
    <3>5. TaskFits("setStatus", t)
      BY <3>1, <3>2, <3>4 DEF TaskFits, Steps
    <3> QED BY <3>3, <3>5, GoKeepsTasks DEF IInv
  <2> QED BY <2>1, <2>2
<1>2. ClockInv' /\ ScheduleInv' /\ PlaylistInv'
  BY UnchangedSchedules, UnchangedPlaylists DEF IInv, ClockInv, CountSchedules
<1> QED BY <1>1, <1>2 DEF IInv

\* The status written is DRAFT or IN_USE.
LEMMA WriteStatusKeeps ==
  ASSUME IInv, NEW p \in Processes, WriteStatus(p)
  PROVE  IInv'
<1>1. TasksInv'
  BY NextKeepsTasks DEF WriteStatus, IInv
<1>2. task[p].status \in {"DRAFT", "IN_USE"}
  BY DEF WriteStatus, IInv, TasksInv, TaskFits
<1>3. PlaylistInv'
  BY <1>2, SetStatusKeepsPlaylists DEF WriteStatus, IInv
<1>4. ClockInv' /\ ScheduleInv'
  BY UnchangedSchedules DEF WriteStatus, IInv, ClockInv
<1> QED BY <1>1, <1>3, <1>4 DEF IInv

\* An edit sets unusedSince to a time or to nothing.
LEMMA EditKeeps ==
  ASSUME IInv, NEW r \in Requests, Edit(r)
  PROVE  IInv'
<1>1. TasksInv'
  BY RestKeepsTasks DEF Edit, IInv, Processes
<1>2. now \in Nat
  BY SchedulesAssumption DEF IInv, ClockInv
<1>3. PlaylistInv'
  BY <1>2 DEF Edit, IInv, PlaylistInv
<1>4. ClockInv' /\ ScheduleInv'
  BY UnchangedSchedules DEF Edit, IInv, ClockInv
<1> QED BY <1>1, <1>3, <1>4 DEF IInv

\* The deletion of a playlist holds the playlist and schedules to clear.
LEMMA BeginDeletePlaylistKeeps ==
  ASSUME IInv, NEW r \in Requests, NEW q \in Playlists, BeginDeletePlaylist(r, q)
  PROVE  IInv'
<1> DEFINE t == [Blank EXCEPT !.id = q, !.todo = SchedulesOf(q)]
<1>1. TasksInv'
  <2>1. SchedulesOf(q) \subseteq Requests
    BY DEF SchedulesOf, Existing
  <2>2. t \in Task
    BY <2>1 DEF Blank, Task
  <2>3. TaskFits("deletePlaylist", t) /\ TaskFits("clear", t)
    BY <2>1, <2>2 DEF TaskFits, Steps, Blank
  <2> QED BY <2>3, GoKeepsTasks DEF BeginDeletePlaylist, IInv, Processes
<1>2. ClockInv' /\ ScheduleInv' /\ PlaylistInv'
  BY UnchangedSchedules, UnchangedPlaylists DEF IInv, ClockInv, BeginDeletePlaylist
<1> QED BY <1>1, <1>2 DEF IInv

\* Clearing a schedule leaves fewer to clear.
LEMMA ClearScheduleKeeps ==
  ASSUME IInv, NEW r \in Requests, NEW s \in Requests, ClearSchedule(r, s)
  PROVE  IInv'
<1> DEFINE t == [task[r] EXCEPT !.todo = @ \ {s}]
<1>1. TasksInv'
  <2>1. r \in Processes /\ TaskFits("clear", task[r])
    BY DEF ClearSchedule, IInv, TasksInv, Processes
  <2>2. t \in Task /\ t.id = task[r].id /\ t.todo = task[r].todo \ {s}
    BY <2>1 DEF TaskFits, Task
  <2>3. Go(r, IF task[r].todo = {s} THEN "deletePlaylist" ELSE "clear", t)
    BY DEF ClearSchedule
  <2> HIDE DEF t
  <2>4. TaskFits("deletePlaylist", t) /\ TaskFits("clear", t)
    BY <2>1, <2>2 DEF TaskFits, Steps
  <2> QED BY <2>1, <2>3, <2>4, GoKeepsTasks DEF IInv
<1>2. ScheduleInv'
  BY RemoveKeepsSchedules DEF ClearSchedule, IInv
<1>3. ClockInv' /\ PlaylistInv'
  BY UnchangedPlaylists DEF ClearSchedule, IInv, ClockInv
<1> QED BY <1>1, <1>2, <1>3 DEF IInv

\* The deletion of a playlist drops it or leaves all as it is.
LEMMA DeletePlaylistKeeps ==
  ASSUME IInv, NEW r \in Requests, DeletePlaylist(r)
  PROVE  IInv'
<1>1. TasksInv'
  BY RestKeepsTasks DEF DeletePlaylist, IInv, Processes
<1>2. PlaylistInv'
  BY DropKeepsPlaylists, UnchangedPlaylists DEF DeletePlaylist, IInv
<1>3. ClockInv' /\ ScheduleInv'
  BY UnchangedSchedules DEF DeletePlaylist, IInv, ClockInv
<1> QED BY <1>1, <1>2, <1>3 DEF IInv

\* Maintenance starts with stale playlists and the time.
LEMMA BeginMaintenanceKeeps ==
  ASSUME IInv, BeginMaintenance
  PROVE  IInv'
<1> DEFINE stale == {q \in Playlists : Stale(q, now)}
           t == [Blank EXCEPT !.affected = stale, !.at = now]
<1>1. TasksInv'
  <2>1. stale \subseteq Playlists /\ now \in Nat
    BY SchedulesAssumption DEF IInv, ClockInv
  <2>2. Go(Maintenance, IF stale = {} THEN "selectFinished" ELSE "purgeSelect", t)
    BY DEF BeginMaintenance
  <2> HIDE DEF stale
  <2>3. t \in Task
    BY <2>1 DEF Blank, Task
  <2>4. TaskFits("selectFinished", t) /\ TaskFits("purgeSelect", t)
    BY <2>3 DEF TaskFits, Steps
  <2> HIDE DEF t
  <2> QED BY <2>2, <2>4, GoKeepsTasks DEF IInv, Processes
<1>2. ClockInv' /\ ScheduleInv' /\ PlaylistInv'
  BY UnchangedSchedules, UnchangedPlaylists DEF IInv, ClockInv, BeginMaintenance
<1> QED BY <1>1, <1>2 DEF IInv

\* The purge holds schedules to delete.
LEMMA PurgeSelectKeeps ==
  ASSUME IInv, PurgeSelect
  PROVE  IInv'
<1> DEFINE m == task[Maintenance]
           chosen == {s \in Existing : rows[s].target \in m.affected /\ Finished(rows[s], m.at)}
           t == [m EXCEPT !.todo = chosen]
<1>1. TasksInv'
  <2>1. Maintenance \in Processes /\ TaskFits("purgeSelect", m)
    BY DEF PurgeSelect, IInv, TasksInv, Processes
  <2>2. chosen \subseteq Requests
    BY DEF Existing
  <2>3. Go(Maintenance, "purge", t)
    BY DEF PurgeSelect
  <2> HIDE DEF m, chosen
  <2>4. t \in Task /\ t.todo = chosen
    BY <2>1, <2>2 DEF TaskFits, Task
  <2> HIDE DEF t
  <2>5. TaskFits("purge", t)
    BY <2>2, <2>4 DEF TaskFits, Steps
  <2> QED BY <2>1, <2>3, <2>5, GoKeepsTasks DEF IInv
<1>2. ClockInv' /\ ScheduleInv' /\ PlaylistInv'
  BY UnchangedSchedules, UnchangedPlaylists DEF IInv, ClockInv, PurgeSelect
<1> QED BY <1>1, <1>2 DEF IInv

\* The purge deletes rows and playlists together, or nothing.
LEMMA PurgeKeeps ==
  ASSUME IInv, Purge
  PROVE  IInv'
<1> DEFINE m == task[Maintenance]
           t == [Blank EXCEPT !.at = m.at]
<1>1. TasksInv'
  <2>1. Maintenance \in Processes /\ TaskFits("purge", m)
    BY DEF Purge, IInv, TasksInv, Processes
  <2>2. t \in Task
    BY <2>1 DEF TaskFits, Blank, Task
  <2>3. TaskFits("selectFinished", t)
    BY <2>2 DEF TaskFits, Steps
  <2>4. Rest(Maintenance) \/ Go(Maintenance, "selectFinished", t)
    BY DEF Purge
  <2> HIDE DEF t
  <2> QED BY <2>1, <2>3, <2>4, GoKeepsTasks, RestKeepsTasks DEF IInv
<1>2. ScheduleInv'
  BY RemoveKeepsSchedules, UnchangedSchedules DEF Purge, IInv
<1>3. PlaylistInv'
  BY DropKeepsPlaylists, UnchangedPlaylists DEF Purge, IInv
<1>4. ClockInv'
  BY DEF Purge, IInv, ClockInv
<1> QED BY <1>1, <1>2, <1>3, <1>4 DEF IInv

\* Maintenance holds finished schedules and their playlists.
LEMMA SelectFinishedKeeps ==
  ASSUME IInv, SelectFinished
  PROVE  IInv'
<1> DEFINE m == task[Maintenance]
           finished == {s \in Existing : LongFinished(rows[s], m.at)}
           targets == UNION {TargetsOf(rows[s]) : s \in finished}
           t == [m EXCEPT !.todo = finished, !.affected = targets]
<1>1. TasksInv'
  <2>1. Maintenance \in Processes /\ TaskFits("selectFinished", m)
    BY DEF SelectFinished, IInv, TasksInv, Processes
  <2>2. finished \subseteq Requests
    BY DEF Existing
  <2>3. targets \subseteq Playlists
    BY DEF TargetsOf
  <2>4. Rest(Maintenance) \/ Go(Maintenance, "deleteFinished", t)
    BY DEF SelectFinished
  <2> HIDE DEF m, finished, targets
  <2>5. t \in Task /\ t.todo = finished
    BY <2>1, <2>2, <2>3 DEF TaskFits, Task
  <2> HIDE DEF t
  <2>6. TaskFits("deleteFinished", t)
    BY <2>2, <2>5 DEF TaskFits, Steps
  <2> QED BY <2>1, <2>4, <2>6, GoKeepsTasks, RestKeepsTasks DEF IInv
<1>2. ClockInv' /\ ScheduleInv' /\ PlaylistInv'
  BY UnchangedSchedules, UnchangedPlaylists DEF IInv, ClockInv, SelectFinished
<1> QED BY <1>1, <1>2 DEF IInv

\* Maintenance deletes schedules and goes on to their playlists.
LEMMA DeleteFinishedKeeps ==
  ASSUME IInv, DeleteFinished
  PROVE  IInv'
<1> DEFINE m == task[Maintenance]
           t == [Blank EXCEPT !.todo = m.affected, !.at = m.at]
<1>1. TasksInv'
  <2>1. Maintenance \in Processes /\ TaskFits("deleteFinished", m)
    BY DEF DeleteFinished, IInv, TasksInv, Processes
  <2>2. m.affected \in SUBSET Playlists /\ m.at \in Nat
    BY <2>1 DEF TaskFits, Task
  <2>3. TaskFits("reconcile", t)
    BY <2>2, ReconcileFits
  <2>4. Rest(Maintenance) \/ Go(Maintenance, "reconcile", t)
    BY DEF DeleteFinished
  <2> HIDE DEF t
  <2> QED BY <2>1, <2>3, <2>4, GoKeepsTasks, RestKeepsTasks DEF IInv
<1>2. ScheduleInv'
  BY RemoveKeepsSchedules DEF DeleteFinished, IInv
<1>3. ClockInv' /\ PlaylistInv'
  BY UnchangedPlaylists DEF DeleteFinished, IInv, ClockInv
<1> QED BY <1>1, <1>2, <1>3 DEF IInv

\* Time passes within its bound.
LEMMA TickKeeps ==
  ASSUME IInv, Tick
  PROVE  IInv'
<1>1. ClockInv'
  BY SchedulesAssumption DEF Tick, IInv, ClockInv
<1>2. ScheduleInv' /\ PlaylistInv' /\ TasksInv'
  BY UnchangedSchedules, UnchangedPlaylists, UnchangedTasks DEF Tick, IInv
<1> QED BY <1>1, <1>2 DEF IInv

(***************************************************************************)
(* The invariant, and what follows from it.                                *)
(***************************************************************************)

\* The invariant holds at the start.
LEMMA InitInv == Init => IInv
<1> SUFFICES ASSUME Init PROVE IInv
  OBVIOUS
<1>1. ClockInv
  BY SchedulesAssumption DEF Init, ClockInv
<1>2. ScheduleInv
  BY DEF Init, ScheduleInv, Rows
<1>3. PlaylistInv
  BY DEF Init, PlaylistInv, Statuses
<1>4. TasksInv
  BY BlankFits DEF Init, TasksInv
<1> QED BY <1>1, <1>2, <1>3, <1>4 DEF IInv

\* Every step keeps it.
LEMMA NextKeeps == IInv /\ [Next]_vars => IInv'
<1> SUFFICES ASSUME IInv, [Next]_vars PROVE IInv'
  OBVIOUS
<1>1. ASSUME NEW r \in Requests, RequestStep(r)
      PROVE  IInv'
  BY <1>1, BeginCreateKeeps, BeginUpdateKeeps, CheckKeeps, InsertKeeps, UpdateKeeps,
     BeginDeleteKeeps, DeleteKeeps, BeginEditKeeps, EditKeeps, BeginDeletePlaylistKeeps,
     ClearScheduleKeeps, DeletePlaylistKeeps DEF RequestStep
<1>2. ASSUME NEW p \in Processes, ReconcileStep(p)
      PROVE  IInv'
  BY <1>2, ReadStatusKeeps, CountSchedulesKeeps, WriteStatusKeeps DEF ReconcileStep
<1>3. ASSUME MaintenanceStep
      PROVE  IInv'
  BY <1>3, BeginMaintenanceKeeps, PurgeSelectKeeps, PurgeKeeps, SelectFinishedKeeps,
     DeleteFinishedKeeps DEF MaintenanceStep
<1>4. CASE UNCHANGED vars
  <2>1. ClockInv'
    BY <1>4 DEF vars, IInv, ClockInv
  <2>2. ScheduleInv' /\ PlaylistInv' /\ TasksInv'
    BY <1>4, UnchangedSchedules, UnchangedPlaylists, UnchangedTasks DEF vars, IInv
  <2> QED BY <2>1, <2>2 DEF IInv
<1> QED BY <1>1, <1>2, <1>3, <1>4, BeginSweepKeeps, TickKeeps DEF Next

\* The clock, the rows with what admitted them, the playlists and what each
\* process holds fit together in every reachable state.
THEOREM Invariance == Spec => []IInv
<1> QED BY InitInv, NextKeeps, PTL DEF Spec

\* Every variable keeps its type, for any number of processes, playlists and
\* displays.
THEOREM TypeCorrect == Spec => []TypeOK
<1>1. IInv => TypeOK
  BY DEF IInv, ClockInv, ScheduleInv, PlaylistInv, TasksInv, TaskFits, TypeOK
<1> QED BY <1>1, Invariance, PTL

\* Two flash schedules that overlap were never seen by each other's writer as
\* they are: an admitted row conflicts with nothing its writer read.
THEOREM AdmittedUnseen == Spec => []OverlapsWereUnseen
<1>1. IInv => OverlapsWereUnseen
  <2> SUFFICES ASSUME IInv, NEW s \in Existing, NEW t \in Existing, s # t,
                      WindowsConflict(rows[s], rows[t])
               PROVE  basis[s][t] # rows[t] /\ basis[t][s] # rows[s]
    BY DEF OverlapsWereUnseen
  <2>1. /\ s \in Requests /\ t \in Requests
        /\ rows[s] # None /\ rows[t] # None
        /\ Admitted(s, rows[s], basis[s]) /\ Admitted(t, rows[t], basis[t])
    BY DEF Existing, IInv, ScheduleInv, Rows
  <2>2. WindowsConflict(rows[t], rows[s])
    BY OverlapIsSymmetric DEF WindowsConflict
  <2>3. basis[s][t] # rows[t]
    BY <2>1 DEF Admitted
  <2>4. basis[t][s] # rows[s]
    BY <2>1, <2>2 DEF Admitted
  <2> QED BY <2>3, <2>4
<1> QED BY <1>1, Invariance, PTL

(***************************************************************************)
(* A row never names a playlist that is gone.                              *)
(***************************************************************************)

\* A row of a playlist names one of the playlists.
LEMMA RowTargets ==
  ASSUME ScheduleInv, NEW s \in Existing, rows[s].kind = "PLAYLIST"
  PROVE  rows[s].target \in Playlists
BY SchedulesAssumption DEF ScheduleInv, Rows, Existing

\* Removing rows, and no playlist, leaves no row without its playlist.
LEMMA FewerRowsHaveTargets ==
  ASSUME ScheduleInv, RowsHaveTargets,
         \A s \in Requests : rows'[s] \in {None, rows[s]},
         \A q \in Playlists : status'[q] = "GONE" => status[q] = "GONE"
  PROVE  RowsHaveTargets'
<1> SUFFICES ASSUME NEW s \in Requests, rows'[s] # None, rows'[s].kind = "PLAYLIST"
             PROVE  status'[rows'[s].target] # "GONE"
  BY DEF RowsHaveTargets, TargetExists, Existing
<1>1. rows'[s] = rows[s] /\ s \in Existing
  BY DEF Existing
<1>2. rows[s].target \in Playlists /\ status[rows[s].target] # "GONE"
  BY <1>1, RowTargets DEF RowsHaveTargets, TargetExists
<1> QED BY <1>1, <1>2

\* A row is written only while its playlist is there.
LEMMA WrittenRowHasTarget ==
  ASSUME IInv, RowsHaveTargets, NEW r \in Requests, step[r] = "write", WriteRow(r),
         TargetExists(task[r].draft), UNCHANGED playlistVars
  PROVE  RowsHaveTargets'
<1>1. task[r].id \in Requests /\ rows \in Rows
  BY DEF IInv, TasksInv, TaskFits, ScheduleInv, Processes
<1> SUFFICES ASSUME NEW s \in Requests, rows'[s] # None, rows'[s].kind = "PLAYLIST"
             PROVE  status[rows'[s].target] # "GONE"
  BY DEF RowsHaveTargets, TargetExists, Existing, playlistVars
<1>2. CASE s = task[r].id
  <2>1. rows'[s] = task[r].draft
    BY <1>1, <1>2 DEF WriteRow, Rows
  <2> QED BY <2>1 DEF TargetExists
<1>3. CASE s # task[r].id
  <2>1. rows'[s] = rows[s] /\ s \in Existing
    BY <1>1, <1>3 DEF WriteRow, Rows, Existing
  <2> QED BY <2>1 DEF RowsHaveTargets, TargetExists
<1> QED BY <1>2, <1>3

\* Playlists go only when every row that names one of them goes too.
LEMMA DroppedPlaylistsAreFree ==
  ASSUME IInv, RowsHaveTargets, NEW qs \in SUBSET Playlists, DropPlaylists(qs),
         \A s \in Requests : rows'[s] \in {None, rows[s]},
         \A s \in Existing : rows[s].target \in qs => rows'[s] = None
  PROVE  RowsHaveTargets'
<1> SUFFICES ASSUME NEW s \in Requests, rows'[s] # None, rows'[s].kind = "PLAYLIST"
             PROVE  status'[rows'[s].target] # "GONE"
  BY DEF RowsHaveTargets, TargetExists, Existing
<1>1. rows'[s] = rows[s] /\ s \in Existing
  BY DEF Existing
<1>2. rows[s].target \in Playlists \ qs /\ status[rows[s].target] # "GONE"
  BY <1>1, RowTargets DEF RowsHaveTargets, TargetExists, IInv
<1> QED BY <1>1, <1>2 DEF DropPlaylists

\* The maintenance run deletes playlists with the rows it found for them, and
\* nothing when another row names one of them.
LEMMA PurgeKeepsTargets ==
  ASSUME IInv, RowsHaveTargets, Purge
  PROVE  RowsHaveTargets'
<1> DEFINE m == task[Maintenance]
<1>1. CASE UNCHANGED <<scheduleVars, playlistVars>>
  BY <1>1 DEF scheduleVars, playlistVars, RowsHaveTargets, TargetExists, Existing
<1>2. CASE /\ ~ \E s \in Existing \ m.todo : rows[s].target \in m.affected
           /\ RemoveRows(m.todo)
           /\ DropPlaylists(m.affected)
  <2>1. m.affected \in SUBSET Playlists
    BY DEF Purge, IInv, TasksInv, TaskFits, Task, Processes
  <2>2. \A s \in Requests : rows'[s] \in {None, rows[s]}
    BY <1>2 DEF RemoveRows
  <2>3. \A s \in Existing : rows[s].target \in m.affected => rows'[s] = None
    BY <1>2 DEF RemoveRows, Existing
  <2> HIDE DEF m
  <2> QED BY <1>2, <2>1, <2>2, <2>3, DroppedPlaylistsAreFree
<1> QED BY <1>1, <1>2 DEF Purge

\* The deletion of a playlist is refused while a row names it.
LEMMA DeletePlaylistKeepsTargets ==
  ASSUME IInv, RowsHaveTargets, NEW r \in Requests, DeletePlaylist(r)
  PROVE  RowsHaveTargets'
<1>1. rows' = rows
  BY DEF DeletePlaylist, scheduleVars
<1>2. CASE UNCHANGED playlistVars
  BY <1>1, <1>2 DEF playlistVars, RowsHaveTargets, TargetExists, Existing
<1>3. CASE SchedulesOf(task[r].id) = {} /\ DropPlaylists({task[r].id})
  <2>1. {task[r].id} \in SUBSET Playlists
    BY DEF DeletePlaylist, IInv, TasksInv, TaskFits, Processes
  <2>2. \A s \in Existing : rows[s].target \notin {task[r].id}
    BY <1>3 DEF SchedulesOf
  <2> QED BY <1>1, <1>3, <2>1, <2>2, DroppedPlaylistsAreFree
<1> QED BY <1>2, <1>3 DEF DeletePlaylist

\* Every step of a request keeps the playlists of the rows.
LEMMA RequestKeepsTargets ==
  ASSUME IInv, RowsHaveTargets, NEW r \in Requests, RequestStep(r)
  PROVE  RowsHaveTargets'
<1>1. CASE UNCHANGED <<rows, status>>
  BY <1>1 DEF RowsHaveTargets, TargetExists, Existing
<1>2. CASE Insert(r) \/ Update(r)
  <2>1. step[r] = "write" /\ UNCHANGED playlistVars
    BY <1>2 DEF Insert, Update
  <2>2. \/ WriteRow(r) /\ TargetExists(task[r].draft)
        \/ UNCHANGED scheduleVars
    BY <1>2 DEF Insert, Update
  <2> QED BY <1>1, <2>1, <2>2, WrittenRowHasTarget DEF scheduleVars, playlistVars
<1>3. ASSUME NEW ss, RemoveRows(ss), UNCHANGED playlistVars
      PROVE  RowsHaveTargets'
  <2>1. \A s \in Requests : rows'[s] \in {None, rows[s]}
    BY <1>3 DEF RemoveRows
  <2> QED BY <1>3, <2>1, FewerRowsHaveTargets DEF IInv, playlistVars
<1>4. CASE Delete(r)
  <2>1. UNCHANGED playlistVars /\ (RemoveRows({task[r].id}) \/ UNCHANGED scheduleVars)
    BY <1>4 DEF Delete
  <2> QED BY <1>1, <1>3, <2>1 DEF scheduleVars, playlistVars
<1>5. ASSUME NEW s \in Requests, ClearSchedule(r, s)
      PROVE  RowsHaveTargets'
  BY <1>3, <1>5 DEF ClearSchedule
<1>6. CASE DeletePlaylist(r)
  BY <1>6, DeletePlaylistKeepsTargets
<1>7. CASE \/ \E d \in Drafts : BeginCreate(r, d)
           \/ \E s \in Requests, d \in Drafts : BeginUpdate(r, s, d)
           \/ Check(r)
           \/ \E s \in Requests : BeginDelete(r, s)
           \/ \E q \in Playlists : BeginEdit(r, q)
           \/ Edit(r)
           \/ \E q \in Playlists : BeginDeletePlaylist(r, q)
  BY <1>1, <1>7 DEF BeginCreate, BeginUpdate, Check, BeginDelete, BeginEdit, Edit,
                    BeginDeletePlaylist, scheduleVars, playlistVars
<1> QED BY <1>2, <1>4, <1>5, <1>6, <1>7 DEF RequestStep

\* Setting a status never makes a playlist gone.
LEMMA ReconcileKeepsTargets ==
  ASSUME IInv, RowsHaveTargets, NEW p \in Processes, ReconcileStep(p)
  PROVE  RowsHaveTargets'
<1>1. CASE WriteStatus(p)
  <2>1. task[p].status \in {"DRAFT", "IN_USE"}
    BY <1>1 DEF WriteStatus, IInv, TasksInv, TaskFits
  <2>2. \A q \in Playlists : status'[q] = "GONE" => status[q] = "GONE"
    BY <1>1, <2>1 DEF WriteStatus, SetStatus, IInv, PlaylistInv
  <2>3. rows' = rows
    BY <1>1 DEF WriteStatus, scheduleVars
  <2> QED BY <2>2, <2>3, FewerRowsHaveTargets DEF IInv
<1>2. CASE UNCHANGED <<rows, status>>
  BY <1>2 DEF RowsHaveTargets, TargetExists, Existing
<1> QED BY <1>1, <1>2 DEF ReconcileStep, ReadStatus, CountSchedules, scheduleVars, playlistVars

\* No behaviour leaves a schedule whose playlist is gone, whatever deletions,
\* maintenance runs and writes of schedules interleave.
THEOREM TargetsStay == Spec => []RowsHaveTargets
<1>1. Init => RowsHaveTargets
  BY DEF Init, RowsHaveTargets, Existing
<1>2. IInv /\ RowsHaveTargets /\ [Next]_vars => RowsHaveTargets'
  <2> SUFFICES ASSUME IInv, RowsHaveTargets, [Next]_vars PROVE RowsHaveTargets'
    OBVIOUS
  <2>1. CASE UNCHANGED <<rows, status>>
    BY <2>1 DEF RowsHaveTargets, TargetExists, Existing
  <2>2. CASE MaintenanceStep
    <3>1. CASE DeleteFinished
      <4>1. \A s \in Requests : rows'[s] \in {None, rows[s]}
        BY <3>1 DEF DeleteFinished, RemoveRows
      <4> QED BY <3>1, <4>1, FewerRowsHaveTargets DEF DeleteFinished, IInv, playlistVars
    <3> QED BY <2>1, <2>2, <3>1, PurgeKeepsTargets
            DEF MaintenanceStep, BeginMaintenance, PurgeSelect, SelectFinished,
                scheduleVars, playlistVars
  <2>3. CASE UNCHANGED vars
    BY <2>1, <2>3 DEF vars, scheduleVars, playlistVars
  <2>4. ASSUME NEW p \in Sweeps, BeginSweep(p)
        PROVE  RowsHaveTargets'
    BY <2>1, <2>4 DEF BeginSweep, scheduleVars, playlistVars
  <2>5. CASE Tick
    BY <2>1, <2>5 DEF Tick, scheduleVars, playlistVars
  <2> QED BY <2>2, <2>3, <2>4, <2>5, RequestKeepsTargets, ReconcileKeepsTargets DEF Next
<1> QED BY <1>1, <1>2, Invariance, PTL DEF Spec

(***************************************************************************)
(* What is playing is not finished.                                        *)
(***************************************************************************)

\* A window that ends later in the day than it starts.
Forward(w) == w.startTime < w.endTime

\* No row, and no draft on its way to one, goes past midnight: a window that did
\* would be finished, on its last date, in the minutes before midnight it plays.
WindowsInv ==
  /\ \A s \in Existing : Forward(rows[s])
  /\ \A p \in Processes : step[p] \in {"check", "write"} => Forward(task[p].draft)

\* A window that goes forward is not finished in any minute it plays, the last included.
LEMMA ForwardWindowPlaysUnfinished ==
  ASSUME NEW w, IsWindow(w), Forward(w), NEW date \in Nat, NEW time \in Nat,
         IsActive(w, date, time)
  PROVE  ~IsFinished(w, date, time)
BY DEF IsWindow, Times, Forward, IsActive, IsWithinDateWindow, IsWithinTimeWindow, IsFinished

\* A process that holds no draft afterwards, or the one it held before, and rows that
\* stay or go, leave no window past midnight.
LEMMA WindowsCalm ==
  ASSUME IInv, WindowsInv, NEW p \in Processes, NEW s, NEW t, Go(p, s, t),
         s \in {"check", "write"} => Forward(t.draft),
         \A x \in Requests : rows'[x] \in {None, rows[x]}
  PROVE  WindowsInv'
<1>1. \A x \in Existing' : Forward(rows'[x])
  BY DEF WindowsInv, Existing
<1>2. ASSUME NEW q \in Processes, step'[q] \in {"check", "write"}
      PROVE  Forward(task'[q].draft)
  <2>1. CASE q = p
    BY <1>2, <2>1 DEF Go, IInv, TasksInv
  <2>2. CASE q # p
    <3>1. step'[q] = step[q] /\ task'[q] = task[q]
      BY <2>2 DEF Go, IInv, TasksInv
    <3> QED BY <1>2, <3>1 DEF WindowsInv
  <2> QED BY <2>1, <2>2
<1> QED BY <1>1, <1>2 DEF WindowsInv

\* So does a process that rests.
LEMMA WindowsRest ==
  ASSUME IInv, WindowsInv, NEW p \in Processes, Rest(p),
         \A x \in Requests : rows'[x] \in {None, rows[x]}
  PROVE  WindowsInv'
<1>1. Go(p, "done", Blank) \/ Go(p, "idle", Blank)
  BY DEF Rest, Go
<1> QED BY <1>1, WindowsCalm

\* A row is written from the draft at hand, after which no draft is held.
LEMMA WindowsWrite ==
  ASSUME IInv, WindowsInv, NEW r \in Requests, step[r] = "write", WriteRow(r),
         NEW qs, ThenReconcile(r, qs)
  PROVE  WindowsInv'
<1>1. task[r].id \in Requests /\ rows \in Rows /\ Forward(task[r].draft)
  BY DEF IInv, TasksInv, TaskFits, ScheduleInv, Processes, WindowsInv
<1>2. ASSUME NEW x \in Requests, rows'[x] # None
      PROVE  Forward(rows'[x])
  <2>1. CASE x = task[r].id
    BY <1>1, <2>1 DEF WriteRow, Rows
  <2>2. CASE x # task[r].id
    BY <1>1, <1>2, <2>2 DEF WriteRow, Rows, WindowsInv, Existing
  <2> QED BY <2>1, <2>2
<1>3. ASSUME NEW q \in Processes, step'[q] \in {"check", "write"}
      PROVE  q # r /\ step'[q] = step[q] /\ task'[q] = task[q]
  <2>1. step'[r] \in {"done", "idle", "reconcile"}
    BY DEF ThenReconcile, Rest, Go, IInv, TasksInv, Processes
  <2>2. q # r
    BY <1>3, <2>1
  <2> QED BY <2>2 DEF ThenReconcile, Rest, Go, IInv, TasksInv
<1> QED BY <1>2, <1>3 DEF WindowsInv, Existing

\* Going on to reconcile playlists, with rows that stay or go, holds no draft.
LEMMA WindowsReconcile ==
  ASSUME IInv, WindowsInv, NEW p \in Processes, NEW qs, ThenReconcile(p, qs),
         \A x \in Requests : rows'[x] \in {None, rows[x]}
  PROVE  WindowsInv'
BY WindowsRest, WindowsCalm DEF ThenReconcile

\* The steps of a request: a draft is taken up only when it ends after it starts.
LEMMA WindowsRequest ==
  ASSUME IInv, WindowsInv, NEW r \in Requests, RequestStep(r)
  PROVE  WindowsInv'
<1>0. r \in Processes /\ rows \in Rows
  BY DEF Processes, IInv, ScheduleInv
<1>1. ASSUME NEW d \in Drafts, BeginCreate(r, d)
      PROVE  WindowsInv'
  <2> DEFINE t == [Blank EXCEPT !.id = r, !.draft = d]
  <2>1. Go(r, "check", t) /\ rows' = rows /\ d.endTime > d.startTime
    BY <1>1 DEF BeginCreate, scheduleVars, IsValid
  <2>2. d.endTime \in Times /\ d.startTime \in Times /\ t.draft = d
    BY SchedulesAssumption DEF Draft, Blank
  <2>3. Forward(t.draft)
    BY <2>1, <2>2, DayAssumption DEF Forward, Times
  <2> HIDE DEF t
  <2> QED BY <1>0, <2>1, <2>3, WindowsCalm
<1>2. ASSUME NEW s \in Requests, NEW d \in Drafts, BeginUpdate(r, s, d)
      PROVE  WindowsInv'
  <2> DEFINE t == [Blank EXCEPT !.id = s, !.draft = d,
                               !.affected = TargetsOf(rows[s]) \cup TargetsOf(d)]
  <2>1. Go(r, "check", t) /\ rows' = rows /\ d.endTime > d.startTime
    BY <1>2 DEF BeginUpdate, scheduleVars, IsValid
  <2>2. d.endTime \in Times /\ d.startTime \in Times /\ t.draft = d
    BY SchedulesAssumption DEF Draft, Blank
  <2>3. Forward(t.draft)
    BY <2>1, <2>2, DayAssumption DEF Forward, Times
  <2> HIDE DEF t
  <2> QED BY <1>0, <2>1, <2>3, WindowsCalm
<1>3. CASE Check(r)
  <2> DEFINE t == [task[r] EXCEPT !.seen = rows]
  <2>1. rows' = rows /\ (Rest(r) \/ Go(r, "write", t))
    BY <1>3 DEF Check, scheduleVars
  <2>2. t.draft = task[r].draft
    BY <1>0 DEF IInv, TasksInv, TaskFits, Task
  <2>3. Forward(t.draft)
    BY <1>0, <1>3, <2>2 DEF Check, WindowsInv
  <2> HIDE DEF t
  <2> QED BY <1>0, <2>1, <2>3, WindowsCalm, WindowsRest
<1>4. CASE Insert(r) \/ Update(r)
  <2>1. /\ step[r] = "write"
        /\ \/ WriteRow(r) /\ \E qs \in {TargetsOf(task[r].draft), task[r].affected} : ThenReconcile(r, qs)
           \/ Rest(r) /\ rows' = rows
    BY <1>4 DEF Insert, Update, scheduleVars
  <2> QED BY <1>0, <2>1, WindowsWrite, WindowsRest
<1>5. CASE Delete(r)
  <2>1. \/ RemoveRows({task[r].id}) /\ ThenReconcile(r, task[r].affected)
        \/ Rest(r) /\ rows' = rows
    BY <1>5 DEF Delete, scheduleVars
  <2>2. \A x \in Requests : rows'[x] \in {None, rows[x]}
    BY <2>1 DEF RemoveRows
  <2> QED BY <1>0, <2>1, <2>2, WindowsRest, WindowsReconcile
<1>6. ASSUME NEW s \in Requests, ClearSchedule(r, s)
      PROVE  WindowsInv'
  <2>1. \A x \in Requests : rows'[x] \in {None, rows[x]}
    BY <1>6 DEF ClearSchedule, RemoveRows
  <2>2. \E n \in {"deletePlaylist", "clear"}, t \in {[task[r] EXCEPT !.todo = @ \ {s}]} : Go(r, n, t)
    BY <1>6 DEF ClearSchedule
  <2> QED BY <1>0, <2>1, <2>2, WindowsCalm
<1>7. CASE \/ \E s \in Requests : BeginDelete(r, s)
           \/ \E q \in Playlists : BeginEdit(r, q)
           \/ Edit(r)
           \/ \E q \in Playlists : BeginDeletePlaylist(r, q)
           \/ DeletePlaylist(r)
  <2>1. /\ rows' = rows
        /\ \/ Rest(r)
           \/ \E n \in {"delete", "edit", "deletePlaylist", "clear"} : \E t : Go(r, n, t)
    BY <1>7 DEF BeginDelete, BeginEdit, Edit, BeginDeletePlaylist, DeletePlaylist, scheduleVars
  <2> QED BY <1>0, <2>1, WindowsCalm, WindowsRest
<1> QED BY <1>1, <1>2, <1>3, <1>4, <1>5, <1>6, <1>7 DEF RequestStep

\* The other processes hold no drafts and write no rows.
LEMMA WindowsOther ==
  ASSUME IInv, WindowsInv,
         \/ \E p \in Sweeps : BeginSweep(p)
         \/ \E p \in Processes : ReconcileStep(p)
         \/ MaintenanceStep
  PROVE  WindowsInv'
<1>1. ASSUME NEW p \in Sweeps, BeginSweep(p)
      PROVE  WindowsInv'
  BY <1>1, WindowsReconcile DEF BeginSweep, scheduleVars, Processes
<1>2. ASSUME NEW p \in Processes, ReconcileStep(p)
      PROVE  WindowsInv'
  <2>1. /\ rows' = rows
        /\ Rest(p) \/ \E n \in {"reconcile", "count", "setStatus"} : \E t : Go(p, n, t)
    BY <1>2 DEF ReconcileStep, ReadStatus, CountSchedules, WriteStatus, NextPlaylist, scheduleVars
  <2> QED BY <2>1, WindowsCalm, WindowsRest
<1>3. CASE MaintenanceStep
  <2>1. Maintenance \in Processes
    BY DEF Processes
  <2>2. \/ Rest(Maintenance)
        \/ \E n \in {"purgeSelect", "purge", "selectFinished", "deleteFinished", "reconcile"} :
             \E t : Go(Maintenance, n, t)
    BY <1>3 DEF MaintenanceStep, BeginMaintenance, PurgeSelect, Purge, SelectFinished, DeleteFinished
  <2>3. \A x \in Requests : rows'[x] \in {None, rows[x]}
    BY <1>3 DEF MaintenanceStep, BeginMaintenance, PurgeSelect, Purge, SelectFinished,
                DeleteFinished, RemoveRows, scheduleVars
  <2> QED BY <2>1, <2>2, <2>3, WindowsCalm, WindowsRest
<1> QED BY <1>1, <1>2, <1>3

\* No window ever goes past midnight.
LEMMA WindowsGoForward == Spec => []WindowsInv
<1>1. Init => WindowsInv
  BY DEF Init, WindowsInv, Existing
<1>2. IInv /\ WindowsInv /\ [Next]_vars => WindowsInv'
  <2> SUFFICES ASSUME IInv, WindowsInv, [Next]_vars PROVE WindowsInv'
    OBVIOUS
  <2>1. CASE UNCHANGED <<rows, step, task>>
    BY <2>1 DEF WindowsInv, Existing
  <2>2. CASE Tick \/ UNCHANGED vars
    BY <2>1, <2>2 DEF Tick, vars, scheduleVars
  <2> QED BY <2>2, WindowsRequest, WindowsOther DEF Next
<1> QED BY <1>1, <1>2, Invariance, PTL DEF Spec

\* A schedule that a display is playing is not finished, so neither maintenance nor a
\* playlist's deletion takes it and its playlist counts as in use, and its playlist is
\* there.  The start-before-end check of create and update (IsValid) is what carries it.
THEOREM PlayingIsPlayable == Spec => []ActiveIsPlayable
<1>1. IInv /\ WindowsInv => ActiveIsUnfinished
  <2> SUFFICES ASSUME IInv, WindowsInv, NEW s \in Existing,
                      IsActive(rows[s], DateOf(now), TimeOf(now))
               PROVE  ~Finished(rows[s], now)
    BY DEF ActiveIsUnfinished
  <2>1. rows[s] \in Drafts /\ Forward(rows[s])
    BY DEF IInv, ScheduleInv, Rows, Existing, WindowsInv
  <2>2. IsWindow(rows[s])
    BY <2>1, SchedulesAssumption DEF Draft, IsWindow
  <2>3. DateOf(now) \in Nat /\ TimeOf(now) \in Nat
    BY DayAssumption, SchedulesAssumption DEF IInv, ClockInv, DateOf, TimeOf
  <2> QED BY <2>1, <2>2, <2>3, ForwardWindowPlaysUnfinished DEF Finished
<1>2. IInv /\ WindowsInv /\ RowsHaveTargets => ActiveIsPlayable
  BY <1>1 DEF ActiveIsPlayable
<1> QED BY <1>2, Invariance, WindowsGoForward, TargetsStay, PTL

(***************************************************************************)
(* One process at a time.                                                  *)
(***************************************************************************)

\* The process p, at step s with task t, has yet to see to the playlist q.
Reconciles(s, t, q) == s \in {"reconcile", "count", "setStatus"} /\ q \in t.todo

\* What a process holds is still true: the draft it is about to write conflicts with no
\* row, its playlist is listed for afterwards, the status it read is the playlist's, the
\* playlist it found free is free, and the schedules it is to delete are finished.
Sound(p, s, t) ==
  /\ t.at <= now
  /\ s = "write" => \A x \in Existing \ {t.id} : ~WindowsConflict(t.draft, rows[x])
  /\ s \in {"check", "write"} /\ t.id # p => TargetsOf(t.draft) \subseteq t.affected
  /\ s \in {"count", "edit"} => t.status = status[t.id]
  /\ s = "setStatus" /\ t.status = "DRAFT" => Unfinished(t.id, now) = {}
  /\ s \in {"clear", "purge", "deleteFinished"} =>
       \A x \in t.todo \cap Existing : Finished(rows[x], now)

ApartInv == \A s, t \in Existing : s # t => ~WindowsConflict(rows[s], rows[t])

UnusedInv == \A q \in Playlists : status[q] # "DRAFT" => unused[q] = None

\* A playlist that is a draft and has a schedule to play is about to be seen to.
DraftInv ==
  \A q \in Playlists : status[q] = "DRAFT" =>
    Unfinished(q, now) = {} \/ \E p \in Processes : Reconciles(step[p], task[p], q)

SoundInv == \A p \in Processes : Sound(p, step[p], task[p])

Alone == \A p, q \in Busy : p = q

SerialInv == Alone /\ ApartInv /\ UnusedInv /\ DraftInv /\ SoundInv

\* A schedule that is finished stays finished.
LEMMA FinishedStays ==
  ASSUME NEW t \in Nat, NEW u \in Nat, t <= u, NEW w, IsWindow(w), Finished(w, t)
  PROVE  Finished(w, u)
<1> DEFINE d == DateOf(t)
           e == DateOf(u)
           m == TimeOf(t)
           n == TimeOf(u)
<1>1. /\ d \in Nat /\ e \in Nat
      /\ m \in 0..(DayLength - 1) /\ n \in 0..(DayLength - 1)
      /\ t = DayLength * d + m /\ u = DayLength * e + n
  BY DayAssumption DEF DateOf, TimeOf
<1>2. Finished(w, t) <=> (w.endDate < d \/ (w.endDate = d /\ w.endTime < m))
  BY DEF Finished, IsFinished
<1>3. Finished(w, u) <=> (w.endDate < e \/ (w.endDate = e /\ w.endTime < n))
  BY DEF Finished, IsFinished
<1> HIDE DEF d, e, m, n
<1>4. d <= e
  <2> SUFFICES ASSUME d >= e + 1 PROVE FALSE
    BY <1>1
  <2>1. DayLength * d >= DayLength * (e + 1)
    BY <1>1, DayAssumption
  <2>2. DayLength * (e + 1) = DayLength * e + DayLength
    BY <1>1, DayAssumption
  <2> QED BY <1>1, <2>1, <2>2, DayAssumption
<1>5. d = e => m <= n
  BY <1>1, DayAssumption
<1> QED BY <1>1, <1>2, <1>3, <1>4, <1>5, DayAssumption DEF IsWindow, Times

\* Every row is a window that begins on a date no later than its last.
LEMMA RowsAreWindows ==
  ASSUME ScheduleInv, NEW s \in Existing
  PROVE  IsWindow(rows[s]) /\ rows[s].startDate <= rows[s].endDate
BY SchedulesAssumption DEF ScheduleInv, Rows, Existing, Draft, IsWindow

\* With no other process at work, those at rest hold nothing that could be false.
LEMMA OthersAreSound ==
  ASSUME IInv, Alone, SoundInv, NEW p \in Processes, NEW s, NEW t, Go(p, s, t), now' = now,
         p \in Busy \/ UNCHANGED <<rows, status>>,
         NEW x \in Processes \ {p}
  PROVE  Sound(x, step[x], task[x])'
<1>1. step'[x] = step[x] /\ task'[x] = task[x]
  BY DEF Go, IInv, TasksInv
<1>2. CASE UNCHANGED <<rows, status>>
  BY <1>1, <1>2 DEF SoundInv, Sound, Existing, Unfinished, SchedulesOf
<1>3. CASE p \in Busy
  <2>1. step[x] \in {"idle", "done"}
    BY <1>3 DEF Busy, Alone
  <2> QED BY <1>1, <2>1 DEF SoundInv, Sound
<1> QED BY <1>2, <1>3

\* What one process does keeps the invariant when what it holds next is true.
LEMMA SerialGo ==
  ASSUME IInv, SerialInv, Alone', NEW p \in Processes, NEW s, NEW t, Go(p, s, t), now' = now,
         p \in Busy \/ UNCHANGED <<rows, status>>,
         Sound(p, s, t)', ApartInv', UnusedInv', DraftInv'
  PROVE  SerialInv'
<1>1. step'[p] = s /\ task'[p] = t
  BY DEF Go, IInv, TasksInv
<1>2. Sound(p, step[p], task[p])'
  BY <1>1 DEF Sound
<1> QED BY <1>2, OthersAreSound DEF SerialInv, SoundInv

\* Removing rows brings no two flash schedules together.
LEMMA ApartStays ==
  ASSUME ApartInv, \A x \in Requests : rows'[x] \in {None, rows[x]}
  PROVE  ApartInv'
BY DEF ApartInv, Existing

\* Rows that stay or go, and playlists that become drafts only when they are free, leave
\* every draft free or about to be seen to, if the process that was to see to one still
\* is.
LEMMA DraftStays ==
  ASSUME IInv, DraftInv, NEW p \in Processes, NEW s, NEW t, Go(p, s, t), now' = now,
         \A x \in Requests : rows'[x] \in {None, rows[x]},
         \A q \in Playlists : status'[q] = "DRAFT" => status[q] = "DRAFT" \/ Unfinished(q, now) = {},
         \A q \in Playlists : Reconciles(step[p], task[p], q) =>
            \/ Reconciles(s, t, q)
            \/ status'[q] # "DRAFT"
            \/ Unfinished(q, now) = {}
  PROVE  DraftInv'
<1>0. \A q \in Playlists : Unfinished(q, now) = {} => Unfinished(q, now)' = {}
  BY DEF Unfinished, SchedulesOf, Existing
<1> SUFFICES ASSUME NEW q \in Playlists, status'[q] = "DRAFT", Unfinished(q, now) # {}
             PROVE  \E x \in Processes : Reconciles(step'[x], task'[x], q)
  BY <1>0 DEF DraftInv, Reconciles
<1>1. PICK x \in Processes : Reconciles(step[x], task[x], q)
  BY DEF DraftInv
<1>2. CASE x = p
  <2>1. step'[p] = s /\ task'[p] = t
    BY DEF Go, IInv, TasksInv
  <2> QED BY <1>1, <1>2, <2>1 DEF Reconciles
<1>3. CASE x # p
  <2>1. step'[x] = step[x] /\ task'[x] = task[x]
    BY <1>3 DEF Go, IInv, TasksInv
  <2> QED BY <1>1, <2>1 DEF Reconciles
<1> QED BY <1>2, <1>3

\* A step that changes no row and no playlist, and holds what is true.
LEMMA SerialCalm ==
  ASSUME IInv, SerialInv, Alone', NEW p \in Processes, NEW s, NEW t, Go(p, s, t),
         UNCHANGED <<now, scheduleVars, playlistVars>>, Sound(p, s, t),
         \A q \in Playlists : Reconciles(step[p], task[p], q) =>
            \/ Reconciles(s, t, q)
            \/ status[q] # "DRAFT"
            \/ Unfinished(q, now) = {}
  PROVE  SerialInv'
<1>1. rows' = rows /\ status' = status /\ unused' = unused /\ now' = now
  BY DEF scheduleVars, playlistVars
<1>2. Sound(p, s, t)'
  BY <1>1 DEF Sound, Existing, Unfinished, SchedulesOf
<1>3. ApartInv' /\ UnusedInv'
  BY <1>1 DEF SerialInv, ApartInv, UnusedInv, Existing
<1>4. DraftInv'
  BY <1>1, DraftStays DEF SerialInv
<1> QED BY <1>1, <1>2, <1>3, <1>4, SerialGo

\* A process that only removes rows, and holds nothing of them that is false.
LEMMA SerialRemove ==
  ASSUME IInv, SerialInv, Alone', NEW p \in Processes, NEW s, NEW t, Go(p, s, t),
         UNCHANGED <<now, playlistVars>>, p \in Busy, NEW ss, RemoveRows(ss),
         \A q : ~Reconciles(step[p], task[p], q), Sound(p, s, t)'
  PROVE  SerialInv'
<1>1. status' = status /\ unused' = unused /\ now' = now
  BY DEF playlistVars
<1>2. \A x \in Requests : rows'[x] \in {None, rows[x]}
  BY DEF RemoveRows
<1>3. ApartInv' /\ UnusedInv'
  BY <1>1, <1>2, ApartStays DEF SerialInv, UnusedInv
<1>4. DraftInv'
  BY <1>1, <1>2, DraftStays DEF SerialInv
<1> QED BY <1>1, <1>3, <1>4, SerialGo

\* The empty task holds nothing.
LEMMA BlankIsSound ==
  ASSUME ClockInv, NEW p, NEW s \in {"idle", "done"}
  PROVE  Sound(p, s, Blank)
BY SchedulesAssumption DEF Sound, Blank, ClockInv

\* A process with nothing left to see to may rest.
LEMMA SerialRest ==
  ASSUME IInv, SerialInv, Alone', NEW p \in Processes, Rest(p),
         UNCHANGED <<now, scheduleVars, playlistVars>>,
         \A q \in Playlists : Reconciles(step[p], task[p], q) =>
            status[q] # "DRAFT" \/ Unfinished(q, now) = {}
  PROVE  SerialInv'
<1>1. \E s \in {"idle", "done"} : Go(p, s, Blank)
  BY DEF Rest, Go
<1> QED BY <1>1, BlankIsSound, SerialCalm DEF IInv

\* The playlists to see to next are held as they are.
LEMMA ReconcileIsSound ==
  ASSUME ClockInv, NEW p, NEW qs, NEW t \in Nat, t <= now
  PROVE  LET held == [Blank EXCEPT !.todo = qs, !.at = t]
         IN  Sound(p, "reconcile", held) /\ \A q \in qs : Reconciles("reconcile", held, q)
BY DEF Sound, Blank, Reconciles

\* Taking up a new schedule.
LEMMA SerialBeginCreate ==
  ASSUME IInv, SerialInv, Alone', NEW r \in Requests, NEW d \in Drafts, BeginCreate(r, d)
  PROVE  SerialInv'
<1> DEFINE t == [Blank EXCEPT !.id = r, !.draft = d]
<1>1. Sound(r, "check", t)
  BY SchedulesAssumption DEF Sound, Blank, IInv, ClockInv
<1>2. Go(r, "check", t) /\ step[r] = "idle" /\ r \in Processes
  BY DEF BeginCreate, Begin, Processes
<1> HIDE DEF t
<1> QED BY <1>1, <1>2, SerialCalm DEF BeginCreate, Reconciles

\* Taking up an update: the playlists of the old row and of the new are to be seen to.
LEMMA SerialBeginUpdate ==
  ASSUME IInv, SerialInv, Alone', NEW r \in Requests, NEW s \in Requests, NEW d \in Drafts,
         BeginUpdate(r, s, d)
  PROVE  SerialInv'
<1> DEFINE t == [Blank EXCEPT !.id = s, !.draft = d,
                             !.affected = TargetsOf(rows[s]) \cup TargetsOf(d)]
<1>1. Sound(r, "check", t)
  BY SchedulesAssumption DEF Sound, Blank, IInv, ClockInv
<1>2. Go(r, "check", t) /\ step[r] = "idle" /\ r \in Processes
  BY DEF BeginUpdate, Begin, Processes
<1> HIDE DEF t
<1> QED BY <1>1, <1>2, SerialCalm DEF BeginUpdate, Reconciles

\* Taking up a deletion.
LEMMA SerialBeginDelete ==
  ASSUME IInv, SerialInv, Alone', NEW r \in Requests, NEW s \in Requests, BeginDelete(r, s)
  PROVE  SerialInv'
<1> DEFINE t == [Blank EXCEPT !.id = s, !.affected = TargetsOf(rows[s])]
<1>1. Sound(r, "delete", t)
  BY SchedulesAssumption DEF Sound, Blank, IInv, ClockInv
<1>2. Go(r, "delete", t) /\ step[r] = "idle" /\ r \in Processes
  BY DEF BeginDelete, Begin, Processes
<1> HIDE DEF t
<1> QED BY <1>1, <1>2, SerialCalm DEF BeginDelete, Reconciles

\* Taking up an edit, with the playlist's status.
LEMMA SerialBeginEdit ==
  ASSUME IInv, SerialInv, Alone', NEW r \in Requests, NEW q \in Playlists, BeginEdit(r, q)
  PROVE  SerialInv'
<1> DEFINE t == [Blank EXCEPT !.id = q, !.status = status[q]]
<1>1. Sound(r, "edit", t)
  BY SchedulesAssumption DEF Sound, Blank, IInv, ClockInv
<1>2. Go(r, "edit", t) /\ step[r] = "idle" /\ r \in Processes
  BY DEF BeginEdit, Begin, Processes
<1> HIDE DEF t
<1> QED BY <1>1, <1>2, SerialCalm DEF BeginEdit, Reconciles

\* Taking up a playlist's deletion: all its schedules are finished.
LEMMA SerialBeginDeletePlaylist ==
  ASSUME IInv, SerialInv, Alone', NEW r \in Requests, NEW q \in Playlists,
         BeginDeletePlaylist(r, q)
  PROVE  SerialInv'
<1> DEFINE t == [Blank EXCEPT !.id = q, !.todo = SchedulesOf(q)]
<1>1. t.todo = SchedulesOf(q) /\ t.at = 0
  BY DEF Blank
<1>2. \A x \in SchedulesOf(q) : Finished(rows[x], now)
  BY DEF BeginDeletePlaylist, Unfinished
<1>3. \A s \in {"deletePlaylist", "clear"} : Sound(r, s, t)
  BY <1>1, <1>2, SchedulesAssumption DEF Sound, IInv, ClockInv
<1>4. (\E s \in {"deletePlaylist", "clear"} : Go(r, s, t)) /\ step[r] = "idle" /\ r \in Processes
  BY DEF BeginDeletePlaylist, Begin, Processes
<1> HIDE DEF t
<1> QED BY <1>3, <1>4, SerialCalm DEF BeginDeletePlaylist, Reconciles

\* The check admits a draft that conflicts with no row.
LEMMA SerialCheck ==
  ASSUME IInv, SerialInv, Alone', NEW r \in Requests, Check(r)
  PROVE  SerialInv'
<1> DEFINE t == [task[r] EXCEPT !.seen = rows]
<1>0. r \in Processes /\ task[r] \in Task /\ Sound(r, step[r], task[r]) /\ step[r] = "check"
  BY DEF Check, Processes, IInv, TasksInv, TaskFits, SerialInv, SoundInv
<1>1. CASE Rest(r)
  BY <1>0, <1>1, SerialRest DEF Check, Reconciles
<1>2. CASE /\ ~ \E s \in Existing \ {task[r].id} : WindowsConflict(task[r].draft, rows[s])
           /\ Go(r, "write", t)
  <2>1. /\ t.id = task[r].id /\ t.draft = task[r].draft /\ t.affected = task[r].affected
        /\ t.at = task[r].at
    BY <1>0 DEF Task
  <2> HIDE DEF t
  <2>2. Sound(r, "write", t)
    BY <1>0, <1>2, <2>1 DEF Sound
  <2> QED BY <1>0, <1>2, <2>2, SerialCalm DEF Check, Reconciles
<1> QED BY <1>1, <1>2 DEF Check

\* Going on to reconcile, or resting, is one of two steps, neither of which holds a draft
\* or a deletion.
LEMMA ThenReconcileGoes ==
  ASSUME ClockInv, NEW p, NEW qs, ThenReconcile(p, qs)
  PROVE  \E s \in {"idle", "done", "reconcile"} : \E t :
            /\ Go(p, s, t)
            /\ t.at \in Nat /\ t.at <= now
            /\ \A q \in qs : Reconciles(s, t, q)
<1>1. now \in Nat
  BY SchedulesAssumption DEF ClockInv
<1>2. CASE qs = {}
  <2>1. \E s \in {"idle", "done"} : Go(p, s, Blank)
    BY <1>2 DEF ThenReconcile, Rest, Go
  <2> QED BY <1>1, <1>2, <2>1 DEF Blank
<1>3. CASE qs # {}
  <2> DEFINE t == [Blank EXCEPT !.todo = qs, !.at = now]
  <2>1. Go(p, "reconcile", t)
    BY <1>3 DEF ThenReconcile
  <2>2. t.at = now /\ \A q \in qs : Reconciles("reconcile", t, q)
    BY DEF Blank, Reconciles
  <2> HIDE DEF t
  <2> QED BY <1>1, <2>1, <2>2
<1> QED BY <1>2, <1>3

\* A step that holds no draft, no status and no deletion is sound.
LEMMA PlainIsSound ==
  ASSUME NEW p, NEW s \in {"idle", "done", "delete", "reconcile", "purgeSelect", "selectFinished",
                           "deletePlaylist"},
         NEW t, t.at <= now
  PROVE  Sound(p, s, t)
BY DEF Sound

\* The row is written as the check left it, and its playlist is seen to next.
LEMMA SerialWrite ==
  ASSUME IInv, SerialInv, Alone', NEW r \in Requests, step[r] = "write", WriteRow(r),
         NEW qs, TargetsOf(task[r].draft) \subseteq qs, ThenReconcile(r, qs),
         UNCHANGED <<now, playlistVars>>
  PROVE  SerialInv'
<1> DEFINE id == task[r].id
           d == task[r].draft
<1>1. /\ r \in Processes /\ r \in Busy /\ id \in Requests /\ d \in Drafts /\ rows \in Rows
      /\ Sound(r, step[r], task[r])
  BY DEF Processes, Busy, IInv, TasksInv, TaskFits, ScheduleInv, SerialInv, SoundInv
<1>2. rows' = [rows EXCEPT ![id] = d]
  BY DEF WriteRow
<1>3. \A x \in Existing \ {id} : ~WindowsConflict(d, rows[x])
  BY <1>1 DEF Sound
<1> HIDE DEF id
<1>4. rows'[id] = d /\ \A x \in Requests \ {id} : rows'[x] = rows[x]
  BY <1>1, <1>2 DEF Rows
<1>5. ApartInv'
  <2> SUFFICES ASSUME NEW x \in Requests, NEW y \in Requests, rows'[x] # None, rows'[y] # None, x # y
               PROVE  ~WindowsConflict(rows'[x], rows'[y])
    BY DEF ApartInv, Existing
  <2>1. CASE x # id /\ y # id
    BY <1>4, <2>1 DEF SerialInv, ApartInv, Existing
  <2>2. CASE x = id
    BY <1>3, <1>4, <2>2 DEF Existing
  <2>3. CASE y = id
    <3>1. ~WindowsConflict(rows'[y], rows'[x])
      BY <1>3, <1>4, <2>3 DEF Existing
    <3> QED BY <3>1, OverlapIsSymmetric DEF WindowsConflict
  <2> QED BY <2>1, <2>2, <2>3
<1>6. PICK s, t :
            /\ s \in {"idle", "done", "reconcile"}
            /\ Go(r, s, t)
            /\ t.at \in Nat /\ t.at <= now
            /\ \A q \in qs : Reconciles(s, t, q)
  BY ThenReconcileGoes DEF IInv
<1>7. UnusedInv'
  BY DEF SerialInv, UnusedInv, playlistVars
<1>8. DraftInv'
  <2> SUFFICES ASSUME NEW q \in Playlists, status'[q] = "DRAFT", Unfinished(q, now)' # {}
               PROVE  \E x \in Processes : Reconciles(step'[x], task'[x], q)
    BY DEF DraftInv
  <2>1. CASE q = d.target
    <3>1. q \in qs
      BY <2>1 DEF TargetsOf
    <3>2. step'[r] = s /\ task'[r] = t
      BY <1>1, <1>6 DEF Go, IInv, TasksInv
    <3> QED BY <1>1, <1>6, <3>1, <3>2
  <2>2. CASE q # d.target
    <3>1. Unfinished(q, now)' \subseteq Unfinished(q, now)
      BY <1>4, <2>2 DEF Unfinished, SchedulesOf, Existing
    <3>2. PICK x \in Processes : Reconciles(step[x], task[x], q)
      BY <3>1 DEF SerialInv, DraftInv, playlistVars
    <3>3. x # r
      BY <3>2 DEF Reconciles
    <3>4. step'[x] = step[x] /\ task'[x] = task[x]
      BY <1>6, <3>3 DEF Go, IInv, TasksInv
    <3> QED BY <3>2, <3>4
  <2> QED BY <2>1, <2>2
<1>9. Sound(r, s, t)'
  BY <1>6 DEF Sound
<1> QED BY <1>1, <1>5, <1>6, <1>7, <1>8, <1>9, SerialGo

\* Inserting or updating a row.
LEMMA SerialInsertUpdate ==
  ASSUME IInv, SerialInv, Alone', NEW r \in Requests, Insert(r) \/ Update(r)
  PROVE  SerialInv'
<1>1. r \in Processes /\ step[r] = "write" /\ Sound(r, step[r], task[r]) /\ now' = now
  BY DEF Insert, Update, Processes, SerialInv, SoundInv
<1>2. \A q : ~Reconciles(step[r], task[r], q)
  BY <1>1 DEF Reconciles
<1>3. \/ Rest(r) /\ UNCHANGED scheduleVars
      \/ \E qs : /\ WriteRow(r) /\ ThenReconcile(r, qs)
                 /\ TargetsOf(task[r].draft) \subseteq qs
  BY <1>1 DEF Insert, Update, Sound
<1>4. UNCHANGED playlistVars
  BY DEF Insert, Update
<1> QED BY <1>1, <1>2, <1>3, <1>4, SerialWrite, SerialRest

\* Deleting a row leaves its playlist to be seen to.
LEMMA SerialDelete ==
  ASSUME IInv, SerialInv, Alone', NEW r \in Requests, Delete(r)
  PROVE  SerialInv'
<1>1. /\ r \in Processes /\ r \in Busy /\ step[r] = "delete"
      /\ UNCHANGED <<now, playlistVars>>
  BY DEF Delete, Processes, Busy
<1>2. \A q : ~Reconciles(step[r], task[r], q)
  BY <1>1 DEF Reconciles
<1>3. CASE Rest(r) /\ UNCHANGED scheduleVars
  BY <1>1, <1>2, <1>3, SerialRest
<1>4. CASE RemoveRows({task[r].id}) /\ ThenReconcile(r, task[r].affected)
  <2>1. \E s, t : s \in {"idle", "done", "reconcile"} /\ Go(r, s, t) /\ t.at <= now
    BY <1>4, ThenReconcileGoes DEF IInv
  <2>2. PICK s, t : s \in {"idle", "done", "reconcile"} /\ Go(r, s, t) /\ t.at <= now
    BY <2>1
  <2>3. Sound(r, s, t)'
    BY <1>1, <2>2 DEF Sound
  <2> QED BY <1>1, <1>2, <1>4, <2>2, <2>3, SerialRemove
<1> QED BY <1>3, <1>4 DEF Delete

\* A sweep lists the playlists that are there.
LEMMA SerialBeginSweep ==
  ASSUME IInv, SerialInv, Alone', NEW p \in Sweeps, BeginSweep(p)
  PROVE  SerialInv'
<1>1. p \in Processes /\ \A q : ~Reconciles(step[p], task[p], q)
  BY DEF BeginSweep, Begin, Processes, Reconciles
<1>2. PICK s, t : s \in {"idle", "done", "reconcile"} /\ Go(p, s, t) /\ t.at <= now
  BY ThenReconcileGoes DEF BeginSweep, IInv
<1> QED BY <1>1, <1>2, PlainIsSound, SerialCalm DEF BeginSweep

\* Going on to the next playlist, or resting, holds the others that were to be seen to.
LEMMA NextPlaylistGoes ==
  ASSUME NEW p, NEW q, NextPlaylist(p, q)
  PROVE  \E s \in {"idle", "done", "reconcile"} : \E t :
            /\ Go(p, s, t)
            /\ t.at \in {0, task[p].at}
            /\ \A x \in task[p].todo \ {q} : Reconciles(s, t, x)
<1> DEFINE t == [Blank EXCEPT !.todo = task[p].todo \ {q}, !.at = task[p].at]
<1>1. CASE task[p].todo \ {q} = {}
  <2>1. \E s \in {"idle", "done"} : Go(p, s, Blank)
    BY <1>1 DEF NextPlaylist, Rest, Go
  <2> QED BY <1>1, <2>1 DEF Blank
<1>2. CASE task[p].todo \ {q} # {}
  <2>1. Go(p, "reconcile", t)
    BY <1>2 DEF NextPlaylist
  <2>2. t.at = task[p].at /\ \A x \in task[p].todo \ {q} : Reconciles("reconcile", t, x)
    BY DEF Blank, Reconciles
  <2> HIDE DEF t
  <2> QED BY <2>1, <2>2
<1> QED BY <1>1, <1>2

\* A playlist without unfinished schedules stays so while its rows do.
LEMMA FreeStays ==
  ASSUME ScheduleInv, NEW q, NEW t \in Nat, NEW u \in Nat, t <= u, Unfinished(q, t) = {}
  PROVE  Unfinished(q, u) = {}
BY RowsAreWindows, FinishedStays DEF Unfinished, SchedulesOf

\* What a process that reconciles holds.
LEMMA Reconciling ==
  ASSUME IInv, SerialInv, NEW p \in Processes, step[p] \in {"reconcile", "count", "setStatus"}
  PROVE  /\ p \in Busy
         /\ task[p] \in Task /\ task[p].at \in Nat /\ task[p].at <= now /\ now \in Nat
         /\ \A q : Reconciles(step[p], task[p], q) <=> q \in task[p].todo
         /\ step[p] \in {"count", "setStatus"} => task[p].id \in Playlists
         /\ Sound(p, step[p], task[p])
<1>1. Sound(p, step[p], task[p])
  BY DEF SerialInv, SoundInv
<1>2. task[p] \in Task /\ (step[p] \in {"count", "setStatus"} => task[p].id \in Playlists)
  BY DEF IInv, TasksInv, TaskFits
<1>3. task[p].at \in Nat /\ now \in Nat /\ task[p].at <= now
  BY <1>1, <1>2, SchedulesAssumption DEF Task, IInv, ClockInv, Sound
<1>4. p \in Busy /\ \A q : Reconciles(step[p], task[p], q) <=> q \in task[p].todo
  BY DEF Busy, Reconciles
<1> QED BY <1>1, <1>2, <1>3, <1>4

\* Going on to the next playlist is sound when the one at hand needs nothing more.
LEMMA SerialNext ==
  ASSUME IInv, SerialInv, Alone', NEW p \in Processes, NEW q, NextPlaylist(p, q),
         step[p] \in {"reconcile", "count", "setStatus"},
         UNCHANGED <<now, scheduleVars, playlistVars>>,
         status[q] # "DRAFT" \/ Unfinished(q, now) = {}
  PROVE  SerialInv'
<1>1. PICK s, t :
            /\ s \in {"idle", "done", "reconcile"}
            /\ Go(p, s, t)
            /\ t.at \in {0, task[p].at}
            /\ \A x \in task[p].todo \ {q} : Reconciles(s, t, x)
  BY NextPlaylistGoes
<1>2. t.at <= now
  BY <1>1, Reconciling
<1>3. Sound(p, s, t)
  BY <1>1, <1>2, PlainIsSound
<1>4. \A x \in Playlists : Reconciles(step[p], task[p], x) =>
         \/ Reconciles(s, t, x)
         \/ status[x] # "DRAFT"
         \/ Unfinished(x, now) = {}
  BY <1>1, Reconciling
<1> QED BY <1>1, <1>3, <1>4, SerialCalm

\* The status is read.
LEMMA SerialReadStatus ==
  ASSUME IInv, SerialInv, Alone', NEW p \in Processes, NEW q \in Playlists, ReadStatus(p, q)
  PROVE  SerialInv'
<1> DEFINE t == [task[p] EXCEPT !.id = q, !.status = status[q]]
<1>1. CASE status[q] = "GONE" /\ NextPlaylist(p, q)
  BY <1>1, SerialNext DEF ReadStatus
<1>2. CASE Go(p, "count", t)
  <2>1. t.id = q /\ t.status = status[q] /\ t.todo = task[p].todo /\ t.at = task[p].at
    BY Reconciling DEF ReadStatus, Task
  <2> HIDE DEF t
  <2>2. Sound(p, "count", t)
    BY <2>1, Reconciling DEF ReadStatus, Sound
  <2>3. \A x : Reconciles(step[p], task[p], x) => Reconciles("count", t, x)
    BY <2>1 DEF Reconciles
  <2> QED BY <1>2, <2>2, <2>3, SerialCalm DEF ReadStatus
<1> QED BY <1>1, <1>2 DEF ReadStatus

\* The schedules are counted at the time the run began, which is past: a playlist that
\* was free then is free.
LEMMA SerialCountSchedules ==
  ASSUME IInv, SerialInv, Alone', NEW p \in Processes, CountSchedules(p)
  PROVE  SerialInv'
<1> DEFINE id == task[p].id
           due == StatusFor(id, task[p].at)
           t == [task[p] EXCEPT !.status = due]
<1>0. due = "DRAFT" => Unfinished(id, now) = {}
  BY FreeStays, Reconciling DEF StatusFor, IInv, CountSchedules
<1>1. CASE due = task[p].status /\ NextPlaylist(p, id)
  <2>1. task[p].status = status[id]
    BY Reconciling DEF CountSchedules, Sound
  <2>2. status[id] # "DRAFT" \/ Unfinished(id, now) = {}
    BY <1>0, <1>1, <2>1
  <2> HIDE DEF id
  <2> QED BY <1>1, <2>2, SerialNext DEF CountSchedules
<1>2. CASE Go(p, "setStatus", t)
  <2>1. t.id = id /\ t.status = due /\ t.todo = task[p].todo /\ t.at = task[p].at
    BY Reconciling DEF CountSchedules, Task
  <2> HIDE DEF t, due
  <2>2. Sound(p, "setStatus", t)
    BY <1>0, <2>1, Reconciling DEF CountSchedules, Sound
  <2>3. \A x : Reconciles(step[p], task[p], x) => Reconciles("setStatus", t, x)
    BY <2>1 DEF Reconciles
  <2> QED BY <1>2, <2>2, <2>3, SerialCalm DEF CountSchedules
<1> QED BY <1>1, <1>2 DEF CountSchedules

\* The status is written: a playlist becomes a draft only when it is free.
LEMMA SerialWriteStatus ==
  ASSUME IInv, SerialInv, Alone', NEW p \in Processes, WriteStatus(p)
  PROVE  SerialInv'
<1> DEFINE id == task[p].id
           due == task[p].status
<1>1. /\ step[p] = "setStatus" /\ NextPlaylist(p, id) /\ now' = now /\ rows' = rows
      /\ p \in Busy /\ id \in Playlists /\ due \in {"DRAFT", "IN_USE"}
      /\ due = "DRAFT" => Unfinished(id, now) = {}
  BY Reconciling DEF WriteStatus, Sound, scheduleVars, IInv, TasksInv, TaskFits
<1>2. PICK s, t :
            /\ s \in {"idle", "done", "reconcile"}
            /\ Go(p, s, t)
            /\ t.at \in {0, task[p].at}
            /\ \A x \in task[p].todo \ {id} : Reconciles(s, t, x)
  BY <1>1, NextPlaylistGoes
<1>3. SetStatus(id, due)
  BY DEF WriteStatus
<1> HIDE DEF id, due
<1>4. /\ \A q \in Playlists \ {id} : status'[q] = status[q] /\ unused'[q] = unused[q]
      /\ status[id] = "GONE" => status'[id] = "GONE" /\ unused'[id] = unused[id]
      /\ status[id] # "GONE" => status'[id] = due
      /\ status[id] # "GONE" /\ due = "IN_USE" => unused'[id] = None
  BY <1>1, <1>3 DEF SetStatus, IInv, PlaylistInv
<1>5. UnusedInv'
  BY <1>1, <1>4 DEF SerialInv, UnusedInv
<1>6. ApartInv'
  BY <1>1 DEF SerialInv, ApartInv, Existing
<1>7. DraftInv'
  <2>1. \A q \in Playlists : status'[q] = "DRAFT" => status[q] = "DRAFT" \/ Unfinished(q, now) = {}
    BY <1>1, <1>4
  <2>2. \A q \in Playlists : Reconciles(step[p], task[p], q) =>
           Reconciles(s, t, q) \/ status'[q] # "DRAFT" \/ Unfinished(q, now) = {}
    BY <1>1, <1>2, <1>4, Reconciling
  <2> QED BY <1>1, <1>2, <2>1, <2>2, DraftStays DEF SerialInv
<1>8. Sound(p, s, t)'
  <2>1. t.at <= now
    BY <1>1, <1>2, Reconciling
  <2> QED BY <1>1, <1>2, <2>1 DEF Sound
<1> QED BY <1>1, <1>2, <1>5, <1>6, <1>7, <1>8, SerialGo

\* An edit dates the playlist by the status it read, which is the playlist's.
LEMMA SerialEdit ==
  ASSUME IInv, SerialInv, Alone', NEW r \in Requests, Edit(r)
  PROVE  SerialInv'
<1> DEFINE id == task[r].id
<1>1. /\ r \in Processes /\ r \in Busy /\ step[r] = "edit" /\ id \in Playlists
      /\ task[r].status = status[id]
      /\ rows' = rows /\ status' = status /\ now' = now
  BY DEF Edit, Processes, Busy, IInv, TasksInv, TaskFits, SerialInv, SoundInv, Sound, scheduleVars
<1>2. PICK s \in {"idle", "done"} : Go(r, s, Blank)
  BY DEF Edit, Rest, Go
<1>3. UnusedInv'
  <2>1. unused' = [unused EXCEPT ![id] = IF status[id] = "GONE" THEN @
                                         ELSE IF status[id] = "DRAFT" THEN now ELSE None]
    BY <1>1 DEF Edit
  <2> HIDE DEF id
  <2> QED BY <1>1, <2>1 DEF SerialInv, UnusedInv, IInv, PlaylistInv
<1>4. ApartInv'
  BY <1>1 DEF SerialInv, ApartInv, Existing
<1>5. DraftInv'
  BY <1>1, <1>2, DraftStays DEF SerialInv, Reconciles
<1>6. Sound(r, s, Blank)'
  BY <1>1, SchedulesAssumption DEF Sound, Blank, IInv, ClockInv
<1> QED BY <1>1, <1>2, <1>3, <1>4, <1>5, <1>6, SerialGo

\* One finished schedule goes, the others are held.
LEMMA SerialClearSchedule ==
  ASSUME IInv, SerialInv, Alone', NEW r \in Requests, NEW x \in Requests, ClearSchedule(r, x)
  PROVE  SerialInv'
<1> DEFINE held == [task[r] EXCEPT !.todo = @ \ {x}]
<1>1. /\ r \in Processes /\ r \in Busy /\ step[r] = "clear" /\ task[r] \in Task
      /\ Sound(r, step[r], task[r]) /\ UNCHANGED <<now, playlistVars>> /\ RemoveRows({x})
  BY DEF ClearSchedule, Processes, Busy, IInv, TasksInv, TaskFits, SerialInv, SoundInv
<1>2. held.todo \subseteq task[r].todo /\ held.at = task[r].at
  BY <1>1 DEF Task
<1>3. PICK s, t :
         s \in {"clear", "deletePlaylist"} /\ Go(r, s, t) /\ t.todo \subseteq task[r].todo /\ t.at = task[r].at
  BY <1>2 DEF ClearSchedule
<1>4. \A y \in Existing' : y \in Existing /\ rows'[y] = rows[y]
  BY <1>1 DEF RemoveRows, Existing
<1>5. Sound(r, s, t)'
  BY <1>1, <1>3, <1>4 DEF Sound
<1>6. \A q : ~Reconciles(step[r], task[r], q)
  BY <1>1 DEF Reconciles
<1> QED BY <1>1, <1>3, <1>5, <1>6, SerialRemove

\* Playlists that go are no drafts, and unused since no date.
LEMMA DropKeepsUnused ==
  ASSUME UnusedInv, NEW qs, DropPlaylists(qs)
  PROVE  UnusedInv' /\ \A q \in Playlists : status'[q] = "DRAFT" => status[q] = "DRAFT"
BY DEF UnusedInv, DropPlaylists

\* The playlist goes, or a row that names it keeps it.
LEMMA SerialDeletePlaylist ==
  ASSUME IInv, SerialInv, Alone', NEW r \in Requests, DeletePlaylist(r)
  PROVE  SerialInv'
<1>1. /\ r \in Processes /\ r \in Busy /\ step[r] = "deletePlaylist" /\ Rest(r)
      /\ UNCHANGED <<now, scheduleVars>> /\ rows' = rows /\ now' = now
  BY DEF DeletePlaylist, Processes, Busy, scheduleVars
<1>2. \A q : ~Reconciles(step[r], task[r], q)
  BY <1>1 DEF Reconciles
<1>3. CASE UNCHANGED playlistVars
  BY <1>1, <1>2, <1>3, SerialRest
<1>4. CASE DropPlaylists({task[r].id})
  <2>1. PICK s \in {"idle", "done"} : Go(r, s, Blank)
    BY <1>1 DEF Rest, Go
  <2>2. UnusedInv' /\ \A q \in Playlists : status'[q] = "DRAFT" => status[q] = "DRAFT"
    BY <1>4, DropKeepsUnused DEF SerialInv
  <2>3. ApartInv'
    BY <1>1, ApartStays DEF SerialInv
  <2>4. DraftInv'
    BY <1>1, <1>2, <2>1, <2>2, DraftStays DEF SerialInv
  <2>5. Sound(r, s, Blank)'
    BY <1>1, SchedulesAssumption DEF Sound, Blank, IInv, ClockInv
  <2> QED BY <1>1, <2>1, <2>2, <2>3, <2>4, <2>5, SerialGo
<1> QED BY <1>3, <1>4 DEF DeletePlaylist

\* What the maintenance holds.
LEMMA Maintaining ==
  ASSUME IInv, SerialInv
  PROVE  /\ Maintenance \in Processes
         /\ task[Maintenance] \in Task /\ task[Maintenance].at \in Nat /\ now \in Nat
         /\ task[Maintenance].at <= now
         /\ Sound(Maintenance, step[Maintenance], task[Maintenance])
<1>1. Maintenance \in Processes
  BY DEF Processes
<1>2. Sound(Maintenance, step[Maintenance], task[Maintenance])
  BY <1>1 DEF SerialInv, SoundInv
<1>3. task[Maintenance] \in Task
  BY <1>1 DEF IInv, TasksInv, TaskFits
<1> QED BY <1>1, <1>2, <1>3, SchedulesAssumption DEF Task, IInv, ClockInv, Sound

\* The maintenance lists the playlists that were free long enough.
LEMMA SerialBeginMaintenance ==
  ASSUME IInv, SerialInv, Alone', BeginMaintenance
  PROVE  SerialInv'
<1> DEFINE stale == {q \in Playlists : Stale(q, now)}
           t == [Blank EXCEPT !.affected = stale, !.at = now]
<1>1. PICK s \in {"selectFinished", "purgeSelect"} : Go(Maintenance, s, t)
  BY DEF BeginMaintenance
<1>2. t.at <= now
  BY Maintaining DEF Blank
<1> HIDE DEF t
<1>3. \A q : ~Reconciles(step[Maintenance], task[Maintenance], q)
  BY DEF BeginMaintenance, Begin, Reconciles
<1> QED BY <1>1, <1>2, <1>3, PlainIsSound, Maintaining, SerialCalm DEF BeginMaintenance

\* The schedules it lists for deletion were finished when it began.
LEMMA SerialPurgeSelect ==
  ASSUME IInv, SerialInv, Alone', PurgeSelect
  PROVE  SerialInv'
<1> DEFINE m == task[Maintenance]
           ss == {s \in Existing : rows[s].target \in m.affected /\ Finished(rows[s], m.at)}
           t == [m EXCEPT !.todo = ss]
<1>1. Go(Maintenance, "purge", t)
  BY DEF PurgeSelect
<1>2. t.todo = ss /\ t.at = m.at
  BY Maintaining DEF Task
<1> HIDE DEF t
<1>3. \A x \in ss : Finished(rows[x], now)
  BY Maintaining, RowsAreWindows, FinishedStays DEF IInv
<1>4. Sound(Maintenance, "purge", t)
  BY <1>2, <1>3, Maintaining DEF Sound
<1>5. \A q : ~Reconciles(step[Maintenance], task[Maintenance], q)
  BY DEF PurgeSelect, Reconciles
<1> QED BY <1>1, <1>4, <1>5, Maintaining, SerialCalm DEF PurgeSelect

\* The purge takes the schedules and the playlists, or nothing.
LEMMA SerialPurge ==
  ASSUME IInv, SerialInv, Alone', Purge
  PROVE  SerialInv'
<1> DEFINE m == task[Maintenance]
           held == [Blank EXCEPT !.at = m.at]
<1>1. /\ Maintenance \in Busy /\ now' = now
      /\ \A q : ~Reconciles(step[Maintenance], task[Maintenance], q)
  BY Maintaining DEF Purge, Busy, Reconciles
<1>2. CASE Rest(Maintenance) /\ UNCHANGED <<scheduleVars, playlistVars>>
  BY <1>1, <1>2, Maintaining, SerialRest
<1>3. CASE RemoveRows(m.todo) /\ DropPlaylists(m.affected) /\ Go(Maintenance, "selectFinished", held)
  <2>0. held.at <= now
    BY Maintaining DEF Blank
  <2> HIDE DEF m, held
  <2>1. PICK t : Go(Maintenance, "selectFinished", t) /\ t.at <= now
    BY <1>3, <2>0
  <2>2. UnusedInv' /\ \A q \in Playlists : status'[q] = "DRAFT" => status[q] = "DRAFT"
    BY <1>3, DropKeepsUnused DEF SerialInv
  <2>3. \A x \in Requests : rows'[x] \in {None, rows[x]}
    BY <1>3 DEF RemoveRows
  <2>4. ApartInv'
    BY <2>3, ApartStays DEF SerialInv
  <2>5. DraftInv'
    BY <1>1, <2>1, <2>2, <2>3, Maintaining, DraftStays DEF SerialInv
  <2>6. Sound(Maintenance, "selectFinished", t)'
    BY <1>1, <2>1 DEF Sound
  <2> QED BY <1>1, <2>1, <2>2, <2>4, <2>5, <2>6, Maintaining, SerialGo
<1> QED BY <1>2, <1>3 DEF Purge

\* The schedules it lists were finished long before it began.
LEMMA SerialSelectFinished ==
  ASSUME IInv, SerialInv, Alone', SelectFinished
  PROVE  SerialInv'
<1> DEFINE m == task[Maintenance]
           finished == {s \in Existing : LongFinished(rows[s], m.at)}
           targets == UNION {TargetsOf(rows[s]) : s \in finished}
           t == [m EXCEPT !.todo = finished, !.affected = targets]
<1>1. \A q : ~Reconciles(step[Maintenance], task[Maintenance], q)
  BY DEF SelectFinished, Reconciles
<1>2. CASE Rest(Maintenance)
  BY <1>1, <1>2, Maintaining, SerialRest DEF SelectFinished
<1>3. CASE Go(Maintenance, "deleteFinished", t)
  <2>1. t.todo = finished /\ t.at = m.at
    BY Maintaining DEF Task
  <2> HIDE DEF t
  <2>2. ASSUME NEW x \in finished
        PROVE  Finished(rows[x], now)
    <3>1. m.at - ScheduleRetention \in Nat /\ m.at - ScheduleRetention <= now
      BY Maintaining, SchedulesAssumption DEF LongFinished
    <3>2. Finished(rows[x], m.at - ScheduleRetention) /\ IsWindow(rows[x])
      BY RowsAreWindows DEF LongFinished, IInv
    <3> QED BY <3>1, <3>2, Maintaining, FinishedStays
  <2>3. Sound(Maintenance, "deleteFinished", t)
    BY <2>1, <2>2, Maintaining DEF Sound
  <2> QED BY <1>1, <1>3, <2>3, Maintaining, SerialCalm DEF SelectFinished
<1> QED BY <1>2, <1>3 DEF SelectFinished

\* They go, and their playlists are to be seen to.
LEMMA SerialDeleteFinished ==
  ASSUME IInv, SerialInv, Alone', DeleteFinished
  PROVE  SerialInv'
<1> DEFINE m == task[Maintenance]
           t == [Blank EXCEPT !.todo = m.affected, !.at = m.at]
<1>1. /\ Maintenance \in Busy /\ UNCHANGED <<now, playlistVars>> /\ RemoveRows(m.todo)
      /\ \A q : ~Reconciles(step[Maintenance], task[Maintenance], q)
  BY Maintaining DEF DeleteFinished, Busy, Reconciles
<1>2. t.at <= now /\ Blank.at <= now
  BY Maintaining DEF Blank
<1>3. Go(Maintenance, "reconcile", t) \/ \E s \in {"idle", "done"} : Go(Maintenance, s, Blank)
  BY DEF DeleteFinished, Rest, Go
<1> HIDE DEF t
<1>4. PICK s, x : s \in {"idle", "done", "reconcile"} /\ Go(Maintenance, s, x) /\ x.at <= now
  BY <1>2, <1>3
<1>5. Sound(Maintenance, s, x)'
  BY <1>1, <1>4 DEF Sound
<1> QED BY <1>1, <1>4, <1>5, Maintaining, SerialRemove

\* What is finished, or free, stays so as time goes by.
LEMMA SerialTick ==
  ASSUME IInv, SerialInv, Tick
  PROVE  SerialInv'
<1>1. /\ now \in Nat /\ now' = now + 1 /\ now' \in Nat
      /\ UNCHANGED <<rows, status, unused, step, task>>
  BY SchedulesAssumption DEF Tick, IInv, ClockInv, scheduleVars, playlistVars
<1>2. Alone' /\ ApartInv' /\ UnusedInv'
  BY <1>1 DEF SerialInv, Alone, ApartInv, UnusedInv, Busy, Existing
<1>3. \A q : Unfinished(q, now) = {} => Unfinished(q, now)' = {}
  <2>1. \A q : Unfinished(q, now)' = Unfinished(q, now')
    BY <1>1 DEF Unfinished, SchedulesOf, Existing
  <2> QED BY <1>1, <2>1, FreeStays DEF IInv
<1>4. DraftInv'
  BY <1>1, <1>3 DEF SerialInv, DraftInv
<1>5. ASSUME NEW p \in Processes
      PROVE  Sound(p, step[p], task[p])'
  <2>1. Sound(p, step[p], task[p]) /\ task[p].at \in Nat
    BY DEF SerialInv, SoundInv, IInv, TasksInv, TaskFits, Task
  <2>2. \A x \in Existing : Finished(rows[x], now) => Finished(rows[x], now + 1)
    BY <1>1, RowsAreWindows, FinishedStays DEF IInv
  <2>3. task[p].at <= now + 1
    BY <1>1, <2>1 DEF Sound
  <2> QED BY <1>1, <1>3, <2>1, <2>2, <2>3 DEF Sound, Existing
<1> QED BY <1>2, <1>4, <1>5 DEF SerialInv, SoundInv

\* Every step of a lone process keeps the invariant.
LEMMA SerialStep ==
  ASSUME IInv, SerialInv, Alone', Next
  PROVE  SerialInv'
<1>1. ASSUME NEW r \in Requests, RequestStep(r)
      PROVE  SerialInv'
  BY <1>1, SerialBeginCreate, SerialBeginUpdate, SerialCheck, SerialInsertUpdate,
     SerialBeginDelete, SerialDelete, SerialBeginEdit, SerialEdit, SerialBeginDeletePlaylist,
     SerialClearSchedule, SerialDeletePlaylist DEF RequestStep
<1>2. ASSUME NEW p \in Processes, ReconcileStep(p)
      PROVE  SerialInv'
  BY <1>2, SerialReadStatus, SerialCountSchedules, SerialWriteStatus DEF ReconcileStep
<1>3. ASSUME MaintenanceStep
      PROVE  SerialInv'
  BY <1>3, SerialBeginMaintenance, SerialPurgeSelect, SerialPurge, SerialSelectFinished,
     SerialDeleteFinished DEF MaintenanceStep
<1> QED BY <1>1, <1>2, <1>3, SerialBeginSweep, SerialTick DEF Next

\* At the start there are no rows and nobody is at work.
LEMMA SerialInit == Init => SerialInv
<1> SUFFICES ASSUME Init PROVE SerialInv
  OBVIOUS
<1>1. Existing = {} /\ Busy = {}
  BY DEF Init, Existing, Busy
<1>2. ApartInv /\ Alone
  BY <1>1 DEF ApartInv, Alone
<1>3. UnusedInv
  BY DEF Init, UnusedInv
<1>4. DraftInv
  BY <1>1 DEF DraftInv, Unfinished, SchedulesOf
<1>5. SoundInv
  <2>1. Blank.at = 0
    BY DEF Blank
  <2> QED BY <2>1 DEF Init, SoundInv, Sound
<1> QED BY <1>2, <1>3, <1>4, <1>5 DEF SerialInv

\* A set of at most one element has no two.
LEMMA AtMostOne ==
  ASSUME NEW S, IsFiniteSet(S), Cardinality(S) <= 1, NEW x \in S, NEW y \in S
  PROVE  x = y
<1>1. IsFiniteSet(S \ {x}) /\ Cardinality(S \ {x}) = Cardinality(S) - 1
  BY FS_RemoveElement
<1>2. Cardinality(S) \in Nat /\ Cardinality(S \ {x}) \in Nat
  BY <1>1, FS_CardinalityType
<1>3. S \ {x} = {}
  BY <1>1, <1>2, FS_EmptySet
<1> QED BY <1>3

\* There are finitely many processes.
LEMMA ProcessesAreFinite == IsFiniteSet(Processes)
<1>1. IsFiniteSet({Maintenance})
  BY FS_Singleton
<1>2. IsFiniteSet(Requests \cup Sweeps)
  BY FS_Union, SchedulesAssumption
<1> QED BY <1>1, <1>2, FS_Union DEF Processes

\* Conflicts are minutes that two flash schedules of a display both claim, and with
\* nobody at work no draft waits to be seen to.
LEMMA SerialIsApartAndFree ==
  ASSUME IInv, SerialInv
  PROVE  FlashApart /\ DraftIsFree
<1>1. FlashApart
  <2> SUFFICES ASSUME NEW s \in Existing, NEW t \in Existing, s # t, rows[s].kind = "FLASH",
                      rows[t].kind = "FLASH", rows[s].display = rows[t].display
               PROVE  ~ShareAnInstant(rows[s], rows[t])
    BY DEF FlashApart
  <2>1. ~Overlap(rows[s], rows[t])
    BY DEF SerialInv, ApartInv, WindowsConflict
  <2> QED BY <2>1, RowsAreWindows, OverlapMeansSharedInstant DEF IInv
<1>2. DraftIsFree
  <2> SUFFICES ASSUME Busy = {}, NEW q \in Playlists, status[q] = "DRAFT" \/ unused[q] # None
               PROVE  Unfinished(q, now) = {}
    BY DEF DraftIsFree
  <2>1. \A p \in Processes : ~Reconciles(step[p], task[p], q)
    BY DEF Busy, Reconciles
  <2> QED BY <2>1 DEF SerialInv, DraftInv, UnusedInv
<1> QED BY <1>1, <1>2

\* What goes with a playlist or with the maintenance was found finished, and still is.
LEMMA SerialSweepsFinished ==
  ASSUME IInv, SerialInv, Next
  PROVE  SweepsFinished
<1> SUFFICES ASSUME NEW p \in Processes, step[p] \in {"clear", "purge", "deleteFinished"},
                    NEW s \in Existing, rows'[s] = None
             PROVE  Finished(rows[s], now)
  BY DEF SweepsFinished
<1>1. s \in Requests /\ rows[s] # None /\ p \in Busy /\ rows \in Rows
  BY DEF Existing, Busy, IInv, ScheduleInv
<1>2. ASSUME NEW r \in Processes, step[r] \in {"clear", "purge", "deleteFinished"},
             NEW ss, ss \subseteq task[r].todo, RemoveRows(ss)
      PROVE  Finished(rows[s], now)
  <2>1. s \in task[r].todo
    BY <1>1, <1>2 DEF RemoveRows
  <2> QED BY <1>2, <2>1 DEF SerialInv, SoundInv, Sound
<1>3. ASSUME NEW r \in Requests, RequestStep(r)
      PROVE  Finished(rows[s], now)
  <2>1. r \in Processes
    BY DEF Processes
  <2>2. rows' # rows
    BY <1>1
  <2>3. CASE Insert(r) \/ Update(r)
    <3>1. WriteRow(r) /\ task[r].draft \in Drafts
      BY <2>1, <2>2, <2>3 DEF Insert, Update, scheduleVars, IInv, TasksInv, TaskFits
    <3>2. rows'[s] # None
      BY <1>1, <3>1, SchedulesAssumption DEF WriteRow, Rows
    <3> QED BY <3>2
  <2>4. CASE Delete(r)
    <3>1. r \in Busy /\ step[r] # step[p]
      BY <2>1, <2>4 DEF Delete, Busy
    <3> QED BY <1>1, <3>1 DEF SerialInv, Alone
  <2>5. ASSUME NEW x \in Requests, ClearSchedule(r, x)
        PROVE  Finished(rows[s], now)
    BY <1>2, <2>1, <2>5 DEF ClearSchedule
  <2> QED BY <1>3, <2>2, <2>3, <2>4, <2>5
          DEF RequestStep, BeginCreate, BeginUpdate, Check, BeginDelete, BeginEdit, Edit,
              BeginDeletePlaylist, DeletePlaylist, scheduleVars
<1>4. CASE MaintenanceStep
  <2>1. Maintenance \in Processes /\ rows' # rows
    BY <1>1 DEF Processes
  <2>2. \/ /\ step[Maintenance] \in {"purge", "deleteFinished"}
           /\ RemoveRows(task[Maintenance].todo)
        \/ rows' = rows
    BY <1>4 DEF MaintenanceStep, BeginMaintenance, PurgeSelect, Purge, SelectFinished,
                DeleteFinished, scheduleVars
  <2> QED BY <1>2, <2>1, <2>2
<1>5. CASE rows' = rows
  BY <1>1, <1>5
<1> QED BY <1>3, <1>4, <1>5
        DEF Next, BeginSweep, ReconcileStep, ReadStatus, CountSchedules, WriteStatus, Tick,
            scheduleVars

\* With one process at a time the checks do what they are for: no two flash schedules of
\* a display claim a common minute, a playlist that counts as unused has no schedule left
\* to play, and only finished schedules are swept away.
THEOREM OneAtATimeIsExact == MCSpec => SerialIsExact
<1> DEFINE Serial == scenario = "serial" => SerialInv
           Exact == scenario = "serial" => FlashApart' /\ DraftIsFree' /\ SweepsFinished
<1>1. MCInit => IInv /\ Serial
  BY InitInv, SerialInit DEF MCInit
<1>2. IInv /\ Serial /\ [MCNext]_<<vars, scenario>>
        => IInv' /\ Serial' /\ [Exact]_<<vars, scenario>>
  <2> SUFFICES ASSUME IInv, Serial, [MCNext]_<<vars, scenario>>
               PROVE  IInv' /\ Serial' /\ [Exact]_<<vars, scenario>>
    OBVIOUS
  <2>1. IInv'
    BY NextKeeps DEF MCNext
  <2>2. ASSUME MCNext, scenario = "serial"
        PROVE  SerialInv' /\ Exact
    <3>1. Alone'
      <4>1. Cardinality(Busy)' <= 1
        BY <2>2 DEF MCNext, Within
      <4>2. Busy' \subseteq Processes
        BY DEF Busy
      <4>3. IsFiniteSet(Busy')
        BY <4>2, ProcessesAreFinite, FS_Subset
      <4> QED BY <4>1, <4>3, AtMostOne DEF Alone
    <3>2. SerialInv'
      BY <2>2, <3>1, SerialStep DEF MCNext
    <3>3. SweepsFinished
      BY <2>2, SerialSweepsFinished DEF MCNext
    <3>4. (FlashApart /\ DraftIsFree)'
      BY <2>1, <3>2, SerialIsApartAndFree, PTL
    <3> QED BY <3>2, <3>3, <3>4
  <2>3. CASE UNCHANGED <<vars, scenario>>
    <3>1. SerialInv' <=> SerialInv
      BY <2>3 DEF vars, scheduleVars, playlistVars, SerialInv, Alone, ApartInv, UnusedInv, DraftInv,
                  SoundInv, Sound, Busy, Existing, Unfinished, SchedulesOf
    <3> QED BY <2>1, <2>3, <3>1
  <2> QED BY <2>1, <2>2, <2>3 DEF MCNext
<1> QED BY <1>1, <1>2, PTL DEF MCSpec, SerialIsExact
=============================================================================
