---------------------------- MODULE JobDelivery ----------------------------
(***************************************************************************)
(* What the content-ingestion queue promises, without streams, consumer    *)
(* groups, batches or acknowledgements: an entry is handed over at most    *)
(* once, is run at most MaxDeliveries times, and leaves the queue only     *)
(* after one of its runs succeeded or after it was put on the dead-letter  *)
(* stream, which takes all its runs.  An entry nobody was handed yet may   *)
(* be dropped when the queue overflows.  IngestionQueue implements this.   *)
(***************************************************************************)
EXTENDS Naturals

CONSTANTS Entry,          \* entries the producers may push
          MaxDeliveries   \* runs an entry is given

VARIABLES state,          \* where each entry is
          runs,           \* runs of each entry so far
          succeeded,      \* entries with a successful run
          dead            \* entries on the dead-letter stream

vars == <<state, runs, succeeded, dead>>

States == {"absent", "queued", "dropped", "handed", "closed"}

TypeOK == /\ state \in [Entry -> States]
          /\ runs \in [Entry -> 0..MaxDeliveries]
          /\ succeeded \subseteq Entry
          /\ dead \subseteq Entry

Init == /\ state = [e \in Entry |-> "absent"]
        /\ runs = [e \in Entry |-> 0]
        /\ succeeded = {}
        /\ dead = {}

\* A push may make older entries fall off the end of the queue.
Push(e, overflow) ==
  /\ state[e] = "absent"
  /\ \A o \in overflow : state[o] = "queued"
  /\ state' = [o \in Entry |-> IF o \in overflow THEN "dropped"
                               ELSE IF o = e THEN "queued" ELSE state[o]]
  /\ UNCHANGED <<runs, succeeded, dead>>

Hand(batch) ==
  /\ \A e \in batch : state[e] = "queued"
  /\ state' = [e \in Entry |-> IF e \in batch THEN "handed" ELSE state[e]]
  /\ UNCHANGED <<runs, succeeded, dead>>

\* An entry is never run again once it is closed.  A run may be good at once.
Run(e, good) ==
  /\ state[e] = "handed"
  /\ runs[e] < MaxDeliveries
  /\ runs' = [runs EXCEPT ![e] = @ + 1]
  /\ succeeded' = succeeded \cup good
  /\ UNCHANGED <<state, dead>>

Succeed(e) ==
  /\ state[e] = "handed"
  /\ runs[e] > 0
  /\ succeeded' = succeeded \cup {e}
  /\ UNCHANGED <<state, runs, dead>>

\* The entry may be let go at once.
DeadLetter(e) ==
  /\ state[e] = "handed"
  /\ runs[e] = MaxDeliveries
  /\ dead' = dead \cup {e}
  /\ state' \in {state, [state EXCEPT ![e] = "closed"]}
  /\ UNCHANGED <<runs, succeeded>>

Close(e) ==
  /\ state[e] = "handed"
  /\ e \in succeeded \/ e \in dead
  /\ state' = [state EXCEPT ![e] = "closed"]
  /\ UNCHANGED <<runs, succeeded, dead>>

Next == \/ \E e \in Entry, overflow \in SUBSET Entry : Push(e, overflow)
        \/ \E batch \in SUBSET Entry : Hand(batch)
        \/ \E e \in Entry, good \in SUBSET Entry : good \subseteq {e} /\ Run(e, good)
        \/ \E e \in Entry : Succeed(e) \/ DeadLetter(e) \/ Close(e)

Spec == Init /\ [][Next]_vars
=============================================================================
