---------------------------- MODULE MCSchedules ----------------------------
(* An instance of Schedules for TLC: days of three minutes, two playlists and *)
(* two scenarios.                                                             *)
EXTENDS Schedules, TLC

CONSTANTS a, b, c, sweep, p1, p2, lobby

Flash(startDate, endDate, startTime, endTime) ==
  [kind |-> "FLASH", target |-> None, display |-> lobby, startDate |-> startDate,
   endDate |-> endDate, startTime |-> startTime, endTime |-> endTime]

Play(q, startDate, endDate, startTime, endTime) ==
  [kind |-> "PLAYLIST", target |-> q, display |-> lobby, startDate |-> startDate,
   endDate |-> endDate, startTime |-> startTime, endTime |-> endTime]

\* Adjacent, overlapping and disjoint flash windows.
FlashDrafts == {Flash(0, 0, 0, 1), Flash(0, 1, 1, 2), Flash(1, 1, 0, 2)}

\* A playlist early on the first day, another late on both.
PlayDrafts == {Play(p1, 0, 0, 0, 1), Play(p2, 0, 1, 1, 2)}

AllDrafts == FlashDrafts \cup PlayDrafts

\* A flash schedule and a playlist early on the first day.
TightDrafts == {Flash(0, 0, 0, 1), Play(p1, 0, 0, 0, 1)}

VARIABLE scenario

\* Every operation, one process at a time; or three requests, the maintenance and the
\* sweep two at a time within the first two minutes, with two of the schedules and one
\* of the playlists.  Requests are told apart by the order they come in.
Within ==
  /\ step[b] # "idle" => step[a] # "idle"
  /\ step[c] # "idle" => step[b] # "idle"
  /\ IF scenario = "serial" THEN Cardinality(Busy) <= 1
     ELSE now <= 2 /\ \A q \in Processes : task[q].draft \in TightDrafts \cup {None}

MCInit ==
  /\ Init
  /\ scenario \in {"serial", "race"}
  /\ \A q \in Playlists : status[q] = "GONE" <=> q = p2 /\ scenario = "race"
MCNext == Next /\ UNCHANGED scenario /\ Within'
MCSpec == MCInit /\ [][MCNext]_<<vars, scenario>> /\ Fairness

\* One process at a time: no two flash schedules of a display claim a common minute
\* (ensureNoScheduleConflicts); a playlist that is DRAFT or has been unused since some
\* date has no schedule left to play (ReconcilePlaylistStatusesUseCase, unusedSince);
\* and what maintenance and the deletion of a playlist remove is finished
\* (DeletePlaylistUseCase, RunMaintenanceCleanupUseCase).  Two at a time, a deletion
\* removes what an update has made playable again since it was listed.
SerialIsExact ==
  [][scenario = "serial" => FlashApart' /\ DraftIsFree' /\ SweepsFinished]_<<vars, scenario>>
=============================================================================
