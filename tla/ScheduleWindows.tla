-------------------------- MODULE ScheduleWindows --------------------------
(***************************************************************************)
(* When a schedule plays and when two schedules are refused together.      *)
(*                                                                         *)
(* A window is a range of dates and a range of times of day.  A date is a  *)
(* natural number and so is a time, the minute of the day: the code        *)
(* compares the strings YYYY-MM-DD and HH:MM, whose order is the order of  *)
(* the numbers.  DayLength is the number of minutes in a day; the seconds  *)
(* of the source are these minutes times 60.                               *)
(***************************************************************************)
EXTENDS Naturals

CONSTANT DayLength

ASSUME DayAssumption == DayLength \in Nat \ {0}

Times == 0..(DayLength - 1)

\* A window, whatever other fields the schedule has.
IsWindow(w) ==
  /\ w.startDate \in Nat
  /\ w.endDate \in Nat
  /\ w.startTime \in Times
  /\ w.endTime \in Times

\* The half-open pieces <<from, to>> of a day that a time range covers; one
\* that ends before it starts goes on past midnight.
DailyTimeSegments(startTime, endTime) ==
  IF startTime = endTime THEN {}
  ELSE IF startTime < endTime THEN {<<startTime, endTime>>}
  ELSE {<<startTime, DayLength>>, <<0, endTime>>}

\* Mutant: the last date is left out.
HasDateRangeOverlap_Open(v, w) ==
  /\ v.startDate < w.endDate
  /\ w.startDate < v.endDate

HasDateRangeOverlap(v, w) ==
  /\ v.startDate <= w.endDate
  /\ w.startDate <= v.endDate

HasTimeRangeOverlap(v, w) ==
  \E s \in DailyTimeSegments(v.startTime, v.endTime) :
    \E t \in DailyTimeSegments(w.startTime, w.endTime) :
      s[1] < t[2] /\ t[1] < s[2]

Overlap(v, w) == HasDateRangeOverlap(v, w) /\ HasTimeRangeOverlap(v, w)

\* What the display plays by: the end minute still counts.
IsWithinTimeWindow(time, startTime, endTime) ==
  /\ startTime # endTime
  /\ IF startTime < endTime
     THEN time >= startTime /\ time <= endTime
     ELSE time >= startTime \/ time <= endTime

IsWithinDateWindow(date, startDate, endDate) ==
  date >= startDate /\ date <= endDate

IsActive(w, date, time) ==
  /\ IsWithinDateWindow(date, w.startDate, w.endDate)
  /\ IsWithinTimeWindow(time, w.startTime, w.endTime)

\* Mutant: finished in the end minute.
IsFinished_Early(w, date, time) ==
  \/ w.endDate < date
  \/ w.endDate = date /\ w.endTime <= time

\* Past its last minute on its last date.
IsFinished(w, date, time) ==
  \/ w.endDate < date
  \/ w.endDate = date /\ w.endTime < time

---------------------------------------------------------------------------
(* The same notions, minute by minute. *)

\* The minutes a window claims: from its start up to, and without, its end.
Claims(w, date, time) ==
  /\ date \in w.startDate..w.endDate
  /\ IF w.startTime <= w.endTime
     THEN time \in w.startTime..(w.endTime - 1)
     ELSE time \in w.startTime..(DayLength - 1) \cup 0..(w.endTime - 1)

\* Some minute that both windows claim.
ShareAnInstant(v, w) ==
  \E date \in v.startDate..v.endDate, time \in Times :
    Claims(v, date, time) /\ Claims(w, date, time)
=============================================================================
