----------------------------- MODULE DisplayStatus -----------------------------
(***************************************************************************)
(* Whether a display is PROCESSING, READY, LIVE or DOWN.                    *)
(*                                                                         *)
(* A heartbeat leaves a key with a deadline in Redis and writes the status *)
(* it makes true.  The reconciler passes over the displays every half      *)
(* minute: it reads rows, schedules and keys once, and then writes status  *)
(* after status, while heartbeats come in.  It never looks at a display    *)
(* that is DOWN: only a heartbeat brings one back.                         *)
(***************************************************************************)
EXTENDS Naturals, FiniteSets, Fleet

CONSTANTS Ttl,         \* minutes a heartbeat's key is kept: 2
          Window       \* minutes after which a display that was seen is DOWN: 5

Statuses == {"PROCESSING", "READY", "LIVE", "DOWN"}

ASSUME DisplayStatusAssumption ==
  /\ None \notin Displays \cup Statuses
  /\ Ttl \in Nat \ {0} /\ Window \in Nat
  /\ MaxChanges \in Nat /\ MaxFaults \in Nat

VARIABLES status,    \* display -> the status of its row, or None without a row
          plan,      \* the displays that have a schedule
          hours,     \* it is the time of day of the schedules
          key,       \* display -> minutes its heartbeat's key has left
          beat,      \* display -> what its heartbeat request holds
          pass,      \* what the reconciler's pass holds
          edits, failures,
          heard      \* history: displays that a heartbeat wrote since the pass read keys

statusVars == <<status, plan, hours, key, beat, pass, edits, failures, heard>>
table == <<status, plan>>

NoBeat == [at |-> "idle", hours |-> FALSE, was |-> None, active |-> FALSE]
NoPass == [at |-> "idle", left |-> {}, hours |-> FALSE, rows |-> [d \in {} |-> None],
           plan |-> {}, seen |-> {}]

\* deriveDisplayStatus, from the minutes since the display was seen.
Derive(age, active) ==
  IF age > Window THEN "DOWN" ELSE IF active THEN "LIVE" ELSE "READY"

Age(d) == IF key[d] = 0 THEN Window + 1 ELSE Ttl - key[d]

\* An update of a row that is gone changes nothing.
SetStatus(d, s) == status' = [status EXCEPT ![d] = IF @ = None THEN None ELSE s]

-----------------------------------------------------------------------------
(* Heartbeats                                                              *)

\* The moment is taken first; the key is written at once or the request fails.
Beat(d) ==
  /\ beat[d].at = "idle" /\ status[d] # None
  /\ key' = [key EXCEPT ![d] = Ttl]
  /\ heard' = IF pass.at = "each" THEN heard \cup {d} ELSE heard
  /\ beat' = [beat EXCEPT ![d] = [NoBeat EXCEPT !.at = "read", !.hours = hours]]
  /\ UNCHANGED <<table, hours, pass, edits, failures>>

\* The row and the schedules, read at once.
ReadRow(d) ==
  /\ beat[d].at = "read"
  /\ beat' = [beat EXCEPT ![d] =
       IF status[d] = None THEN NoBeat
       ELSE [@ EXCEPT !.at = "write", !.was = status[d], !.active = d \in plan /\ beat[d].hours]]
  /\ UNCHANGED <<table, hours, key, pass, edits, failures, heard>>

\* Mutant: statuses are left to the reconciler.
Settle_Later(d) ==
  /\ beat[d].at = "write"
  /\ beat' = [beat EXCEPT ![d] = NoBeat]
  /\ UNCHANGED <<table, hours, key, pass, edits, failures, heard>>

\* The status is compared with the one read and written without a look at the row.
Settle(d) ==
  LET next == Derive(0, beat[d].active)
  IN  /\ beat[d].at = "write"
      /\ IF beat[d].was = next THEN UNCHANGED status ELSE SetStatus(d, next)
      /\ beat' = [beat EXCEPT ![d] = NoBeat]
      /\ UNCHANGED <<plan, hours, key, pass, edits, failures, heard>>

FailBeat(d) ==
  /\ failures < MaxFaults /\ failures' = failures + 1
  /\ beat[d].at # "idle"
  /\ beat' = [beat EXCEPT ![d] = NoBeat]
  /\ UNCHANGED <<table, hours, key, pass, edits, heard>>

-----------------------------------------------------------------------------
(* The reconciler                                                          *)

\* One pass at a time; a tick of the timer during one is skipped.
BeginPass ==
  /\ pass.at = "idle"
  /\ pass' = [NoPass EXCEPT !.at = "list", !.left = {"rows", "schedules"}, !.hours = hours]
  /\ UNCHANGED <<table, hours, key, beat, edits, failures, heard>>

Listed == {d \in Displays : status[d] \notin {None, "DOWN"}}

\* Two reads at once: the rows that are not DOWN, and all schedules.
List ==
  /\ pass.at = "list"
  /\ \E what \in pass.left :
       LET p == [pass EXCEPT !.left = @ \ {what},
                             !.at = IF pass.left = {what} THEN "keys" ELSE "list"]
       IN  pass' = IF what = "rows" THEN [p EXCEPT !.rows = [d \in Listed |-> status[d]]]
                   ELSE [p EXCEPT !.plan = plan]
  /\ UNCHANGED <<table, hours, key, beat, edits, failures, heard>>

\* Mutant: goes by the rows, where nobody notes when a display was seen.
ReadKeys_Rows ==
  /\ pass.at = "keys"
  /\ pass' = [pass EXCEPT !.at = "each"]
  /\ UNCHANGED <<table, hours, key, beat, edits, failures, heard>>

ReadKeys ==
  /\ pass.at = "keys"
  /\ pass' = [pass EXCEPT !.at = "each",
       !.seen = {d \in DOMAIN pass.rows : Age(d) <= Window}]
  /\ UNCHANGED <<table, hours, key, beat, edits, failures, heard>>

\* What the pass finds a display to be.
Found(d) ==
  Derive(IF d \in pass.seen THEN 0 ELSE Window + 1, d \in pass.plan /\ pass.hours)

\* One display after the other, whatever has come in since.
Reconcile(d) ==
  /\ pass.at = "each" /\ d \in DOMAIN pass.rows
  /\ IF Found(d) = pass.rows[d] THEN UNCHANGED status ELSE SetStatus(d, Found(d))
  /\ pass' = [pass EXCEPT !.rows = [e \in DOMAIN pass.rows \ {d} |-> pass.rows[e]]]
  /\ UNCHANGED <<plan, hours, key, beat, edits, failures, heard>>

EndPass ==
  /\ pass.at = "each" /\ DOMAIN pass.rows = {}
  /\ pass' = NoPass /\ heard' = {}
  /\ UNCHANGED <<table, hours, key, beat, edits, failures>>

\* The rest of a pass that fails is not done.
FailPass ==
  /\ failures < MaxFaults /\ failures' = failures + 1
  /\ pass.at # "idle" /\ pass' = NoPass /\ heard' = {}
  /\ UNCHANGED <<table, hours, key, beat, edits>>

-----------------------------------------------------------------------------
(* What happens meanwhile                                                  *)

Minute ==
  /\ \E d \in Displays : key[d] > 0
  /\ key' = [d \in Displays |-> IF key[d] = 0 THEN 0 ELSE key[d] - 1]
  /\ UNCHANGED <<table, hours, beat, pass, edits, failures, heard>>

Alter == edits < MaxChanges /\ edits' = edits + 1

ChangeHours ==
  /\ Alter
  /\ hours' = ~hours
  /\ UNCHANGED <<table, key, beat, pass, failures, heard>>

EditSchedules(d) ==
  /\ Alter /\ status[d] # None
  /\ plan' = IF d \in plan THEN plan \ {d} ELSE plan \cup {d}
  /\ UNCHANGED <<status, hours, key, beat, pass, failures, heard>>

\* A display never seen before: no request and no pass knows of it.
Register(d) ==
  /\ Alter /\ status[d] = None /\ key[d] = 0 /\ beat[d].at = "idle"
  /\ d \notin DOMAIN pass.rows
  /\ status' = [status EXCEPT ![d] = "PROCESSING"]
  /\ UNCHANGED <<plan, hours, key, beat, pass, failures, heard>>

\* The row goes with its schedules; the key stays until its deadline.
Unregister(d) ==
  /\ Alter /\ status[d] # None
  /\ status' = [status EXCEPT ![d] = None] /\ plan' = plan \ {d}
  /\ UNCHANGED <<hours, key, beat, pass, failures, heard>>

RestartReconciler ==
  /\ failures < MaxFaults /\ failures' = failures + 1
  /\ beat' = [d \in Displays |-> NoBeat] /\ pass' = NoPass
  /\ heard' = {}
  /\ UNCHANGED <<table, hours, key, edits>>

-----------------------------------------------------------------------------
StatusInit ==
  /\ status = [d \in Displays |-> "PROCESSING"] /\ plan \in SUBSET Displays
  /\ hours = TRUE
  /\ key = [d \in Displays |-> 0]
  /\ beat = [d \in Displays |-> NoBeat] /\ pass = NoPass
  /\ edits = 0 /\ failures = 0 /\ heard = {}

Pass == BeginPass \/ List \/ ReadKeys \/ (\E d \in Displays : Reconcile(d)) \/ EndPass

StatusNext ==
  \/ \E d \in Displays :
       \/ Beat(d) \/ ReadRow(d) \/ Settle(d) \/ FailBeat(d)
       \/ EditSchedules(d) \/ Register(d) \/ Unregister(d)
  \/ Pass \/ FailPass
  \/ Minute \/ ChangeHours \/ RestartReconciler

\* Requests end, passes go on, time passes.  A display need not send heartbeats.
StatusFairness ==
  /\ \A d \in Displays : WF_statusVars(ReadRow(d) \/ Settle(d))
  /\ WF_statusVars(Pass) /\ WF_statusVars(Minute)

StatusSpec == StatusInit /\ [][StatusNext]_statusVars /\ StatusFairness

-----------------------------------------------------------------------------
(* Properties                                                              *)

\* A display without a row has no status and no schedule, whoever still writes.
StatusTypeOK ==
  /\ status \in [Displays -> Statuses \cup {None}]
  /\ plan \subseteq {d \in Displays : status[d] # None}
  /\ hours \in BOOLEAN
  /\ key \in [Displays -> 0..Ttl]
  /\ \A d \in Displays : beat[d].at \in {"idle", "read", "write"}
  /\ pass.at \in {"idle", "list", "keys", "each"}
  /\ edits \in 0..MaxChanges /\ failures \in 0..MaxFaults

\* A display becomes DOWN only when it was silent until its key was gone, or when a
\* heartbeat overtook the pass between its reading of the keys and its writing
\* (startDisplayStatusReconciler).
DownOnlyInSilence ==
  [][\A d \in Displays : status[d] # "DOWN" /\ status'[d] = "DOWN" =>
       key[d] = 0 \/ d \in heard]_statusVars

\* A heartbeat that was overtaken shows until the next: a display that is heard of
\* again and again is READY or LIVE in the end as its schedules say, and one that is
\* not is DOWN, however passes and heartbeats met.
StatusFollows ==
  \A d \in Displays :
    /\ <>[](status[d] # None /\ key[d] > 0) =>
         <>[](status[d] = Derive(0, d \in plan /\ hours))
    /\ <>[](status[d] # None /\ key[d] = 0) => <>[](status[d] = "DOWN")
=============================================================================
