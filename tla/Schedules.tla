----------------------------- MODULE Schedules -----------------------------
(***************************************************************************)
(* The schedules of the displays and the playlists they play: requests     *)
(* that create, update and delete schedules, edit and delete playlists,    *)
(* the hourly maintenance, and the sweeps that put playlist statuses       *)
(* right.  Every await of a handler ends a step; between two steps any     *)
(* other process may run, for nothing in the code locks.                   *)
(*                                                                         *)
(* A schedule has the name of the request that creates it.  Content and    *)
(* displays exist throughout (ContentFiles is about deleting content).     *)
(* Events to displays and admin pages are left out.                        *)
(***************************************************************************)
EXTENDS ScheduleWindows, FiniteSets

CONSTANTS Requests,     \* API requests; each is served once
          Sweeps,       \* runs of the status sweep, any number at a time
          Maintenance,  \* the maintenance worker
          Playlists,
          Displays,
          Drafts,       \* the schedules a client may ask for
          None,
          MaxTime,              \* bound: the last minute of the behaviour
          MaxOverlap,           \* bound: processes at work at once
          PlaylistRetention,    \* minutes an unused playlist is kept
          ScheduleRetention     \* minutes a finished schedule is kept

Draft == [kind : {"PLAYLIST", "FLASH"}, target : Playlists \cup {None}, display : Displays,
          startDate : Nat, endDate : Nat, startTime : Times, endTime : Times]

ASSUME SchedulesAssumption ==
  /\ Drafts \subseteq Draft
  /\ \A d \in Drafts : /\ d.startDate <= d.endDate
                       /\ d.kind = "PLAYLIST" <=> d.target \in Playlists
  /\ None \notin Playlists \cup Drafts \cup Requests
  /\ Maintenance \notin Requests \cup Sweeps
  /\ Requests \cap Sweeps = {}
  /\ IsFiniteSet(Requests) /\ IsFiniteSet(Sweeps)
  /\ MaxTime \in Nat
  /\ MaxOverlap \in Nat
  /\ PlaylistRetention \in Nat
  /\ ScheduleRetention \in Nat

VARIABLES now,       \* minutes since the first date began
          rows,      \* schedule -> its row, or None
          basis,     \* history: the rows that were read to admit each row
          status,    \* playlist -> DRAFT, IN_USE, or GONE
          unused,    \* playlist -> unusedSince, or None
          step,      \* what each process does next
          task       \* what each process holds in memory

playlistVars == <<status, unused>>
scheduleVars == <<rows, basis>>
vars == <<now, scheduleVars, playlistVars, step, task>>

Processes == Requests \cup Sweeps \cup {Maintenance}

\* id: the schedule or playlist at hand; draft: the row to write; seen: the rows
\* read before; status: the one read of a playlist, then the one to write; todo:
\* schedules or playlists still to do; affected: playlists to see to afterwards;
\* at: the time taken as current.
Blank == [id |-> None, draft |-> None, seen |-> None, status |-> None,
          todo |-> {}, affected |-> {}, at |-> 0]

\* The end of a process; the maintenance and the sweeps come round again.
Rest(p) ==
  /\ step' = [step EXCEPT ![p] = IF p \in Requests THEN "done" ELSE "idle"]
  /\ task' = [task EXCEPT ![p] = Blank]

Go(p, s, t) ==
  /\ step' = [step EXCEPT ![p] = s]
  /\ task' = [task EXCEPT ![p] = t]

Busy == {p \in Processes : step[p] \notin {"idle", "done"}}

Begin(p) == step[p] = "idle" /\ Cardinality(Busy) < MaxOverlap

DateOf(t) == t \div DayLength
TimeOf(t) == t % DayLength

Finished(row, t) == IsFinished(row, DateOf(t), TimeOf(t))
StartsInPast(row, t) == row.startDate * DayLength + row.startTime < t

\* Playlist schedules of one display merge; flash schedules must not overlap.
WindowsConflict(v, w) ==
  /\ v.display = w.display
  /\ v.kind = w.kind
  /\ v.kind = "FLASH"
  /\ Overlap(v, w)

Existing == {s \in Requests : rows[s] # None}
SchedulesOf(p) == {s \in Existing : rows[s].target = p}
Unfinished(p, t) == {s \in SchedulesOf(p) : ~Finished(rows[s], t)}

\* A target row must name a playlist that is there.
TargetExists(draft) == draft.kind = "PLAYLIST" => status[draft.target] # "GONE"

\* The checks that need no other row.
IsValid(draft, t) == ~StartsInPast(draft, t) /\ draft.endTime > draft.startTime

\* Set the status of a playlist; unusedSince follows it.
SetStatus(p, s) ==
  /\ status' = [status EXCEPT ![p] = IF @ = "GONE" THEN @ ELSE s]
  /\ unused' = [unused EXCEPT ![p] = IF status[p] = "GONE" THEN @
                                     ELSE IF s = "IN_USE" THEN None
                                     ELSE IF @ = None THEN now ELSE @]

\* Go on with the status of the playlists, if any, or finish.
ThenReconcile(p, playlists) ==
  IF playlists = {} THEN Rest(p)
  ELSE Go(p, "reconcile", [Blank EXCEPT !.todo = playlists, !.at = now])

TargetsOf(draft) == {draft.target} \cap Playlists

Init ==
  /\ now = 0
  /\ rows = [s \in Requests |-> None]
  /\ basis = [s \in Requests |-> None]
  /\ status \in [Playlists -> {"DRAFT", "GONE"}]
  /\ unused = [p \in Playlists |-> IF status[p] = "GONE" THEN None ELSE 0]
  /\ step = [p \in Processes |-> "idle"]
  /\ task = [p \in Processes |-> Blank]

(***************************************************************************)
(* Creating and updating a schedule.                                       *)
(***************************************************************************)

BeginCreate(r, draft) ==
  /\ Begin(r)
  /\ IsValid(draft, now) /\ TargetExists(draft)
  /\ Go(r, "check", [Blank EXCEPT !.id = r, !.draft = draft])
  /\ UNCHANGED <<now, scheduleVars, playlistVars>>

\* Mutant: only the old playlist is reconciled.
BeginUpdate_OldOnly(r, s, draft) ==
  /\ Begin(r)
  /\ s \in Existing
  /\ IsValid(draft, now) /\ TargetExists(draft)
  /\ Go(r, "check", [Blank EXCEPT !.id = s, !.draft = draft, !.affected = TargetsOf(rows[s])])
  /\ UNCHANGED <<now, scheduleVars, playlistVars>>

\* The patch is merged into the row just read; whatever it changes, the whole
\* row is written back, so any draft may come out.
BeginUpdate(r, s, draft) ==
  /\ Begin(r)
  /\ s \in Existing
  /\ IsValid(draft, now) /\ TargetExists(draft)
  /\ Go(r, "check", [Blank EXCEPT !.id = s, !.draft = draft,
                                  !.affected = TargetsOf(rows[s]) \cup TargetsOf(draft)])
  /\ UNCHANGED <<now, scheduleVars, playlistVars>>

\* Mutant: an update is not checked.
Check_CreateOnly(r) ==
  /\ step[r] = "check"
  /\ IF task[r].id = r /\ \E s \in Existing \ {task[r].id} : WindowsConflict(task[r].draft, rows[s])
     THEN Rest(r)
     ELSE Go(r, "write", [task[r] EXCEPT !.seen = rows])
  /\ UNCHANGED <<now, scheduleVars, playlistVars>>

\* List the schedules of the display; any other that conflicts refuses the draft.
Check(r) ==
  /\ step[r] = "check"
  /\ IF \E s \in Existing \ {task[r].id} : WindowsConflict(task[r].draft, rows[s])
     THEN Rest(r)
     ELSE Go(r, "write", [task[r] EXCEPT !.seen = rows])
  /\ UNCHANGED <<now, scheduleVars, playlistVars>>

WriteRow(r) ==
  /\ rows' = [rows EXCEPT ![task[r].id] = task[r].draft]
  /\ basis' = [basis EXCEPT ![task[r].id] = task[r].seen]

\* The row and its target in one transaction, or nothing; then the playlists.
Insert(r) ==
  /\ step[r] = "write" /\ task[r].id = r
  /\ IF TargetExists(task[r].draft)
     THEN WriteRow(r) /\ ThenReconcile(r, TargetsOf(task[r].draft))
     ELSE Rest(r) /\ UNCHANGED scheduleVars
  /\ UNCHANGED <<now, playlistVars>>

Update(r) ==
  /\ step[r] = "write" /\ task[r].id # r
  /\ IF rows[task[r].id] # None /\ TargetExists(task[r].draft)
     THEN WriteRow(r) /\ ThenReconcile(r, task[r].affected)
     ELSE Rest(r) /\ UNCHANGED scheduleVars
  /\ UNCHANGED <<now, playlistVars>>

(***************************************************************************)
(* Deleting a schedule.                                                    *)
(***************************************************************************)

RemoveRows(ss) ==
  /\ rows' = [s \in Requests |-> IF s \in ss THEN None ELSE rows[s]]
  /\ basis' = [s \in Requests |-> IF s \in ss THEN None ELSE basis[s]]

BeginDelete(r, s) ==
  /\ Begin(r)
  /\ s \in Existing
  /\ Go(r, "delete", [Blank EXCEPT !.id = s, !.affected = TargetsOf(rows[s])])
  /\ UNCHANGED <<now, scheduleVars, playlistVars>>

Delete(r) ==
  /\ step[r] = "delete"
  /\ IF rows[task[r].id] # None
     THEN RemoveRows({task[r].id}) /\ ThenReconcile(r, task[r].affected)
     ELSE Rest(r) /\ UNCHANGED scheduleVars
  /\ UNCHANGED <<now, playlistVars>>

(***************************************************************************)
(* Reconciling statuses: what a request does last, the maintenance too,    *)
(* and all that a sweep does.                                              *)
(***************************************************************************)

\* Mutant: only playlists in use are swept.
BeginSweep_InUseOnly(p) ==
  /\ p \in Sweeps
  /\ Begin(p)
  /\ ThenReconcile(p, {q \in Playlists : status[q] = "IN_USE"})
  /\ UNCHANGED <<now, scheduleVars, playlistVars>>

BeginSweep(p) ==
  /\ p \in Sweeps
  /\ Begin(p)
  /\ ThenReconcile(p, {q \in Playlists : status[q] # "GONE"})
  /\ UNCHANGED <<now, scheduleVars, playlistVars>>

NextPlaylist(p, q) ==
  LET rest == task[p].todo \ {q}
  IN  IF rest = {} THEN Rest(p)
      ELSE Go(p, "reconcile", [Blank EXCEPT !.todo = rest, !.at = task[p].at])

ReadStatus(p, q) ==
  /\ step[p] = "reconcile"
  /\ q \in task[p].todo
  /\ IF status[q] = "GONE"
     THEN NextPlaylist(p, q)
     ELSE Go(p, "count", [task[p] EXCEPT !.id = q, !.status = status[q]])
  /\ UNCHANGED <<now, scheduleVars, playlistVars>>

StatusFor(q, t) == IF Unfinished(q, t) # {} THEN "IN_USE" ELSE "DRAFT"

CountSchedules(p) ==
  /\ step[p] = "count"
  /\ LET due == StatusFor(task[p].id, task[p].at)
     IN  IF due = task[p].status THEN NextPlaylist(p, task[p].id)
         ELSE Go(p, "setStatus", [task[p] EXCEPT !.status = due])
  /\ UNCHANGED <<now, scheduleVars, playlistVars>>

WriteStatus(p) ==
  /\ step[p] = "setStatus"
  /\ SetStatus(task[p].id, task[p].status)
  /\ NextPlaylist(p, task[p].id)
  /\ UNCHANGED <<now, scheduleVars>>

(***************************************************************************)
(* Editing and deleting a playlist.                                        *)
(***************************************************************************)

BeginEdit(r, q) ==
  /\ Begin(r)
  /\ status[q] # "GONE"
  /\ Go(r, "edit", [Blank EXCEPT !.id = q, !.status = status[q]])
  /\ UNCHANGED <<now, scheduleVars, playlistVars>>

\* unusedSince follows the status as it was read.
Edit(r) ==
  /\ step[r] = "edit"
  /\ unused' = [unused EXCEPT ![task[r].id] =
                  IF status[task[r].id] = "GONE" THEN @
                  ELSE IF task[r].status = "DRAFT" THEN now ELSE None]
  /\ Rest(r)
  /\ UNCHANGED <<now, scheduleVars, status>>

\* Refused while a schedule of the playlist is unfinished.
BeginDeletePlaylist(r, q) ==
  /\ Begin(r)
  /\ status[q] # "GONE"
  /\ Unfinished(q, now) = {}
  /\ Go(r, IF SchedulesOf(q) = {} THEN "deletePlaylist" ELSE "clear",
        [Blank EXCEPT !.id = q, !.todo = SchedulesOf(q)])
  /\ UNCHANGED <<now, scheduleVars, playlistVars>>

\* The schedules that were finished go, one by one, whatever they are by now.
ClearSchedule(r, s) ==
  /\ step[r] = "clear"
  /\ s \in task[r].todo
  /\ RemoveRows({s})
  /\ Go(r, IF task[r].todo = {s} THEN "deletePlaylist" ELSE "clear",
        [task[r] EXCEPT !.todo = @ \ {s}])
  /\ UNCHANGED <<now, playlistVars>>

DropPlaylists(qs) ==
  /\ status' = [q \in Playlists |-> IF q \in qs THEN "GONE" ELSE status[q]]
  /\ unused' = [q \in Playlists |-> IF q \in qs THEN None ELSE unused[q]]

\* Mutant: the foreign key does not restrict.
DeletePlaylist_Unrestricted(r) ==
  /\ step[r] = "deletePlaylist"
  /\ DropPlaylists({task[r].id})
  /\ Rest(r)
  /\ UNCHANGED <<now, scheduleVars>>

\* A playlist that some schedule still names cannot go.
DeletePlaylist(r) ==
  /\ step[r] = "deletePlaylist"
  /\ IF SchedulesOf(task[r].id) = {} THEN DropPlaylists({task[r].id})
     ELSE UNCHANGED playlistVars
  /\ Rest(r)
  /\ UNCHANGED <<now, scheduleVars>>

(***************************************************************************)
(* The hourly maintenance.  It takes the time once, when it starts.        *)
(***************************************************************************)

Stale(q, t) ==
  /\ status[q] # "GONE"
  /\ unused[q] # None
  /\ unused[q] + PlaylistRetention <= t
  /\ Unfinished(q, t) = {}

BeginMaintenance ==
  /\ Begin(Maintenance)
  /\ LET stale == {q \in Playlists : Stale(q, now)}
     IN  Go(Maintenance, IF stale = {} THEN "selectFinished" ELSE "purgeSelect",
            [Blank EXCEPT !.affected = stale, !.at = now])
  /\ UNCHANGED <<now, scheduleVars, playlistVars>>

\* The transaction reads the finished schedules of those playlists ...
PurgeSelect ==
  /\ step[Maintenance] = "purgeSelect"
  /\ LET t == task[Maintenance]
     IN  Go(Maintenance, "purge",
            [t EXCEPT !.todo = {s \in Existing : /\ rows[s].target \in t.affected
                                                 /\ Finished(rows[s], t.at)}])
  /\ UNCHANGED <<now, scheduleVars, playlistVars>>

\* ... and deletes them by id, then the playlists by id.  A schedule that still
\* names one of the playlists rolls it all back and ends the whole run.
Purge ==
  /\ step[Maintenance] = "purge"
  /\ LET t == task[Maintenance]
     IN  IF \E s \in Existing \ t.todo : rows[s].target \in t.affected
         THEN Rest(Maintenance) /\ UNCHANGED <<scheduleVars, playlistVars>>
         ELSE /\ RemoveRows(t.todo)
              /\ DropPlaylists(t.affected)
              /\ Go(Maintenance, "selectFinished", [Blank EXCEPT !.at = t.at])
  /\ UNCHANGED now

\* Mutant: the retention is added to the time instead of taken from it.
LongFinished_Added(row, t) == Finished(row, t + ScheduleRetention)

LongFinished(row, t) == t >= ScheduleRetention /\ Finished(row, t - ScheduleRetention)

SelectFinished ==
  /\ step[Maintenance] = "selectFinished"
  /\ LET t == task[Maintenance]
         finished == {s \in Existing : LongFinished(rows[s], t.at)}
     IN  IF finished = {} THEN Rest(Maintenance)
         ELSE Go(Maintenance, "deleteFinished",
                 [t EXCEPT !.todo = finished,
                           !.affected = UNION {TargetsOf(rows[s]) : s \in finished}])
  /\ UNCHANGED <<now, scheduleVars, playlistVars>>

DeleteFinished ==
  /\ step[Maintenance] = "deleteFinished"
  /\ LET t == task[Maintenance]
     IN  /\ RemoveRows(t.todo)
         /\ IF t.affected = {} THEN Rest(Maintenance)
            ELSE Go(Maintenance, "reconcile", [Blank EXCEPT !.todo = t.affected, !.at = t.at])
  /\ UNCHANGED <<now, playlistVars>>

(***************************************************************************)

Tick ==
  /\ now < MaxTime
  /\ now' = now + 1
  /\ UNCHANGED <<scheduleVars, playlistVars, step, task>>

RequestStep(r) ==
  \/ \E d \in Drafts : BeginCreate(r, d)
  \/ \E s \in Requests, d \in Drafts : BeginUpdate(r, s, d)
  \/ Check(r)
  \/ Insert(r)
  \/ Update(r)
  \/ \E s \in Requests : BeginDelete(r, s)
  \/ Delete(r)
  \/ \E q \in Playlists : BeginEdit(r, q)
  \/ Edit(r)
  \/ \E q \in Playlists : BeginDeletePlaylist(r, q)
  \/ \E s \in Requests : ClearSchedule(r, s)
  \/ DeletePlaylist(r)

ReconcileStep(p) ==
  \/ \E q \in Playlists : ReadStatus(p, q)
  \/ CountSchedules(p)
  \/ WriteStatus(p)

MaintenanceStep ==
  \/ BeginMaintenance
  \/ PurgeSelect
  \/ Purge
  \/ SelectFinished
  \/ DeleteFinished

Next ==
  \/ \E r \in Requests : RequestStep(r)
  \/ \E p \in Sweeps : BeginSweep(p)
  \/ \E p \in Processes : ReconcileStep(p)
  \/ MaintenanceStep
  \/ Tick

Spec == Init /\ [][Next]_vars

\* A started request goes on; the timers fire again and again.
Fairness ==
  /\ \A r \in Requests : WF_vars(step[r] # "idle" /\ (RequestStep(r) \/ ReconcileStep(r)))
  /\ \A p \in Sweeps : WF_vars(BeginSweep(p) \/ ReconcileStep(p))
  /\ WF_vars(MaintenanceStep \/ ReconcileStep(Maintenance))

FairSpec == Spec /\ Fairness

---------------------------------------------------------------------------

Steps == {"idle", "check", "write", "delete", "reconcile", "count", "setStatus", "edit",
          "clear", "deletePlaylist", "purgeSelect", "purge", "selectFinished",
          "deleteFinished", "done"}

Rows == [Requests -> Drafts \cup {None}]
Statuses == {"DRAFT", "IN_USE", "GONE"}
Task == [id : Requests \cup Playlists \cup {None},
         draft : Drafts \cup {None},
         seen : Rows \cup {None},
         status : {"DRAFT", "IN_USE", None},
         todo : SUBSET (Requests \cup Playlists),
         affected : SUBSET Playlists,
         at : Nat]

\* Every variable has its type.
TypeOK ==
  /\ now \in 0..MaxTime
  /\ rows \in Rows
  /\ basis \in [Requests -> Rows \cup {None}]
  /\ status \in [Playlists -> Statuses]
  /\ unused \in [Playlists -> Nat \cup {None}]
  /\ step \in [Processes -> Steps]
  /\ task \in [Processes -> Task]

\* Two flash schedules that overlap on one display were each admitted without
\* sight of the other as it now is: only writers that ran at the same time can
\* bring an overlap about, through creation or through updates.
OverlapsWereUnseen ==
  \A s, t \in Existing :
    s # t /\ WindowsConflict(rows[s], rows[t]) =>
      basis[s][t] # rows[t] /\ basis[t][s] # rows[s]

\* No two flash schedules of one display claim a common minute
\* (windowsConflict: "FLASH schedules still cannot overlap").
FlashApart ==
  \A s, t \in Existing :
    s # t /\ rows[s].kind = "FLASH" /\ rows[t].kind = "FLASH"
          /\ rows[s].display = rows[t].display =>
      ~ShareAnInstant(rows[s], rows[t])

\* A schedule that is playing is not finished: maintenance and the statuses, which
\* go by the finished test, and the player, which counts the end minute in, agree.
ActiveIsUnfinished ==
  \A s \in Existing :
    IsActive(rows[s], DateOf(now), TimeOf(now)) => ~Finished(rows[s], now)

\* While nothing is under way, a playlist that is marked DRAFT, or that carries a
\* date it has been unused since, has no schedule left to play.  That date stays
\* from when it is set, so a playlist that maintenance deletes for it was free
\* all the retention period.
DraftIsFree ==
  Busy = {} =>
    \A q \in Playlists :
      (status[q] = "DRAFT" \/ unused[q] # None) => Unfinished(q, now) = {}

\* What maintenance and the deletion of a playlist remove is finished
\* ("finished_schedule_auto_deleted", "finished_schedule_deleted_with_playlist").
SweepsFinished ==
  \A p \in Processes :
    step[p] \in {"clear", "purge", "deleteFinished"} /\ step'[p] # step[p] =>
      \A s \in Existing : rows'[s] = None => Finished(rows[s], now)

\* A row never names a playlist that is gone.
RowsHaveTargets == \A s \in Existing : TargetExists(rows[s])

\* What is playing can be played: its playlist is there, and nothing that goes by the
\* finished test removes it or puts its playlist out of use.
ActiveIsPlayable == RowsHaveTargets /\ ActiveIsUnfinished

\* Once the requests are over and the schedules stay, the sweeps bring every
\* status in line with the schedules, whatever races left behind.
StatusesSettle ==
  <>[](\A q \in Playlists : status[q] # "GONE" => status[q] = StatusFor(q, now))
=============================================================================
