------------------------------ MODULE AuditTrail ------------------------------
(***************************************************************************)
(* The audit trail: every captured request adds an event to a capped Redis *)
(* stream after its answer is made, a worker reads the stream through a    *)
(* consumer group and writes a row for each event, and the rows are        *)
(* exported page by page and flushed.                                      *)
(*                                                                         *)
(* A call that fails may have had its effect: the caller tries again.  A   *)
(* worker has a name of its own and reads new entries only, so what a dead *)
(* one was given stays pending.                                            *)
(***************************************************************************)
EXTENDS Naturals, Sequences, FiniteSets, SequencesExt

CONSTANTS Events,
          Poison,         \* events that RecordAuditLogUseCase refuses
          MaxPushes,      \* AUDIT_QUEUE_ENQUEUE_MAX_ATTEMPTS
          MaxDeliveries,  \* REDIS_STREAM_MAX_DELIVERIES
          Capacity,       \* AUDIT_QUEUE_CAPACITY
          Batch, Chunk,   \* entries of one read, and those worked on at once
          Page, MaxRows,  \* rows of a page of an export, and of all of it
          MaxFaults,      \* bound: calls that fail, and crashes
          MaxFlushes      \* bound: flushes

ASSUME AuditAssumption ==
  /\ Poison \subseteq Events
  /\ {MaxPushes, MaxDeliveries, Capacity, Batch, Chunk, Page, MaxRows} \subseteq Nat \ {0}
  /\ MaxFaults \in Nat /\ MaxFlushes \in Nat

VARIABLES push,       \* event -> where its request is with it, and attempts made
          stream,     \* entries, the oldest first: an event and its attempt
          given,      \* entries the group has handed out
          pending,    \* entries handed out and not acknowledged
          batch,      \* entries the worker has read and not begun
          hand,       \* entry being worked on -> what is next, and failures
          rows,       \* the rows: an event and its how-many-eth row, by occurredAt
          written,    \* event -> rows ever written for it
          dead,       \* events on the dead-letter stream
          export,     \* what an export has
          flushes, faults,
          trimmed,    \* history: events with an entry the cap took
          unsure,     \* history: events with a call that failed after its effect
          forsaken,   \* history: entries a crash or a failure left pending
          moved       \* history: rows were written or flushed since the export in progress counted

vars == <<push, stream, given, pending, batch, hand, rows, written, dead, export,
          flushes, faults, trimmed, unsure, forsaken, moved>>
queue == <<push, trimmed>>
group == <<given, pending, batch, forsaken>>
table == <<rows, written, moved>>
reader == <<export, flushes>>

-----------------------------------------------------------------------------
(* The API                                                                 *)

\* The middleware, after the handler; nobody waits for the rest.
Enqueue(e) ==
  /\ push[e].at = "none"
  /\ push' = [push EXCEPT ![e].at = "push"]
  /\ UNCHANGED <<stream, group, hand, table, dead, reader, faults, trimmed, unsure>>

\* XADD with MAXLEN ~: the cap may take the oldest entries, and may wait.
Add(e) ==
  LET grown == Append(stream, <<e, push[e].tries + 1>>)
      over == IF Len(grown) > Capacity THEN Len(grown) - Capacity ELSE 0
  IN  \E n \in {0, over} :
        /\ stream' = SubSeq(grown, n + 1, Len(grown))
        /\ trimmed' = trimmed \cup {grown[i][1] : i \in 1..n}

\* Mutant: an attempt that fails is taken for a success.
Push_Hopeful(e) ==
  /\ push[e].at = "push"
  /\ \/ Add(e) /\ UNCHANGED faults
     \/ faults < MaxFaults /\ faults' = faults + 1 /\ UNCHANGED <<stream, trimmed>>
  /\ push' = [push EXCEPT ![e] = [at |-> "accepted", tries |-> @.tries + 1]]
  /\ UNCHANGED <<group, hand, table, dead, reader, unsure>>

\* An attempt that fails may have added its entry: the next adds another.
Push(e) ==
  /\ push[e].at = "push"
  /\ \/ /\ Add(e)
        /\ push' = [push EXCEPT ![e] = [at |-> "accepted", tries |-> @.tries + 1]]
        /\ UNCHANGED <<faults, unsure>>
     \/ /\ faults < MaxFaults /\ faults' = faults + 1
        /\ push' = [push EXCEPT ![e] =
             [at |-> IF @.tries + 1 < MaxPushes THEN "push" ELSE "failed", tries |-> @.tries + 1]]
        /\ \/ Add(e) /\ unsure' = unsure \cup {e}
           \/ UNCHANGED <<stream, trimmed, unsure>>
  /\ UNCHANGED <<group, hand, table, dead, reader>>

CrashApi ==
  /\ faults < MaxFaults /\ faults' = faults + 1
  /\ push' = [e \in Events |->
       IF push[e].at = "push" THEN [push[e] EXCEPT !.at = "failed"] ELSE push[e]]
  /\ UNCHANGED <<stream, group, hand, table, dead, reader, trimmed, unsure>>

-----------------------------------------------------------------------------
(* The worker                                                              *)

\* Mutant: what was handed out and not acknowledged is read again.
Fresh_Pending == SelectSeq(stream, LAMBDA x : x \notin given \/ x \in pending)

\* What comes after the last entry the group has handed out.
Fresh ==
  LET last == CHOOSE n \in 0..Len(stream) : \A i \in DOMAIN stream : stream[i] \in given <=> i <= n
  IN  SubSeq(stream, last + 1, Len(stream))

First(s, n) == IF Len(s) < n THEN s ELSE SubSeq(s, 1, n)
Fault == faults < MaxFaults /\ faults' = faults + 1

\* New entries only, once the last batch is through; the reply may get lost.
ReadEntries ==
  LET read == First(Fresh, Batch)
  IN  /\ batch = <<>> /\ DOMAIN hand = {}
      /\ read # <<>>
      /\ given' = given \cup ToSet(read) /\ pending' = pending \cup ToSet(read)
      /\ \/ batch' = read /\ UNCHANGED <<faults, forsaken>>
         \/ Fault /\ forsaken' = forsaken \cup ToSet(read) /\ UNCHANGED batch
      /\ UNCHANGED <<queue, stream, hand, table, dead, reader, unsure>>

Work(at, failures) == [at |-> at, failures |-> failures]

\* Mutant: what does not fit into the chunk is forgotten.
BeginChunk_Once ==
  /\ batch # <<>> /\ DOMAIN hand = {}
  /\ hand' = [x \in ToSet(First(batch, Chunk)) |-> Work("record", 0)]
  /\ batch' = <<>>
  /\ UNCHANGED <<queue, stream, given, pending, table, dead, reader, faults, unsure, forsaken>>

BeginChunk ==
  /\ batch # <<>> /\ DOMAIN hand = {}
  /\ hand' = [x \in ToSet(First(batch, Chunk)) |-> Work("record", 0)]
  /\ batch' = SubSeq(batch, Chunk + 1, Len(batch))
  /\ UNCHANGED <<queue, stream, given, pending, table, dead, reader, faults, unsure, forsaken>>

At(x, s) == x \in DOMAIN hand /\ hand[x].at = s
Then(x, s) == hand' = [hand EXCEPT ![x].at = s]
Finish(x) == hand' = [y \in DOMAIN hand \ {x} |-> hand[y]]

\* Every failure of an attempt starts it over, until there were too many.
Again(x) ==
  LET n == hand[x].failures + 1
  IN  hand' = [hand EXCEPT ![x] = Work(IF n < MaxDeliveries THEN "record" ELSE "dead", n)]

Doubt(x) == unsure' = unsure \cup {x[1]}

\* The row is dated when it is written.
Insert(e) ==
  /\ rows' = Append(rows, <<e, written[e] + 1>>)
  /\ written' = [written EXCEPT ![e] = @ + 1]
  /\ moved' = (export.at # "none")

Record(x) ==
  /\ At(x, "record")
  /\ \/ x[1] \notin Poison /\ Insert(x[1]) /\ Then(x, "ack") /\ UNCHANGED <<faults, unsure>>
     \/ x[1] \in Poison /\ Again(x) /\ UNCHANGED <<table, faults, unsure>>
     \/ /\ x[1] \notin Poison /\ Fault /\ Again(x)
        /\ \/ Insert(x[1]) /\ Doubt(x)
           \/ UNCHANGED <<table, unsure>>
  /\ UNCHANGED <<queue, stream, group, dead, reader>>

\* Mutant: an entry whose acknowledgement fails is left alone.
Ack_Silent(x) ==
  /\ At(x, "ack") \/ At(x, "dead ack")
  /\ \/ pending' = pending \ {x} /\ Then(x, IF At(x, "ack") THEN "delete" ELSE "dead delete")
        /\ UNCHANGED faults
     \/ Fault /\ UNCHANGED pending /\ Finish(x)
  /\ UNCHANGED <<queue, stream, given, batch, forsaken, table, dead, reader, unsure>>

\* A failure after the row was written writes it again; one after the dead letter
\* ends the work on the entry.
Fail(x) ==
  /\ Fault /\ Doubt(x)
  /\ IF hand[x].at \in {"ack", "delete"} THEN Again(x) /\ UNCHANGED forsaken
     ELSE Finish(x) /\ forsaken' = forsaken \cup {x}

Ack(x) ==
  /\ At(x, "ack") \/ At(x, "dead ack")
  /\ \/ /\ pending' = pending \ {x}
        /\ Then(x, IF At(x, "ack") THEN "delete" ELSE "dead delete")
        /\ UNCHANGED <<faults, unsure, forsaken>>
     \/ Fail(x) /\ pending' \in {pending, pending \ {x}}
  /\ UNCHANGED <<queue, stream, given, batch, table, dead, reader>>

Delete(x) ==
  /\ At(x, "delete") \/ At(x, "dead delete")
  /\ LET gone == RemoveFirst(stream, x)
     IN  \/ stream' = gone /\ Finish(x) /\ UNCHANGED <<faults, unsure, forsaken>>
         \/ Fail(x) /\ stream' \in {stream, gone}
  /\ UNCHANGED <<queue, given, pending, batch, table, dead, reader>>

\* When the dead-letter stream cannot be written the entry stays pending.
DeadLetter(x) ==
  /\ At(x, "dead")
  /\ \/ /\ dead' = dead \cup {x[1]} /\ Then(x, "dead ack")
        /\ UNCHANGED <<faults, forsaken>>
     \/ /\ Fault /\ Finish(x) /\ forsaken' = forsaken \cup {x}
        /\ dead' \in {dead, dead \cup {x[1]}}
  /\ UNCHANGED <<queue, stream, given, pending, batch, table, reader, unsure>>

\* A stop or a crash; the next worker has another name.
CrashWorker ==
  /\ Fault
  /\ hand' = [x \in {} |-> 0] /\ batch' = <<>>
  /\ forsaken' = forsaken \cup (pending \cap (DOMAIN hand \cup ToSet(batch)))
  /\ UNCHANGED <<queue, stream, given, pending, table, dead, reader, unsure>>

-----------------------------------------------------------------------------
(* The rows                                                                *)

\* deleteBefore and deleteAll.
Flush ==
  /\ flushes < MaxFlushes /\ flushes' = flushes + 1
  /\ \E n \in 1..Len(rows) : rows' = SubSeq(rows, n + 1, Len(rows))
  /\ moved' = (export.at # "none")
  /\ UNCHANGED <<queue, stream, group, hand, written, dead, export, faults, unsure>>

NoExport == [at |-> "none", total |-> 0, out |-> <<>>]

\* An export of too many rows is refused.
BeginExport ==
  /\ export.at = "none" /\ Len(rows) <= MaxRows
  /\ export' = [NoExport EXCEPT !.at = "pages", !.total = Len(rows)]
  /\ UNCHANGED <<queue, stream, group, hand, table, dead, flushes, faults, unsure>>

\* Rows by occurredAt, the newest first, LIMIT Page OFFSET n.
ListWithActors(n) ==
  IF n >= Len(rows) THEN <<>> ELSE First(SubSeq(Reverse(rows), n + 1, Len(rows)), Page)

\* Mutant: the last page is taken for read when it begins.
ReadPage_Short ==
  /\ export.at = "pages"
  /\ LET n == Len(export.out)
         page == IF n + Page < export.total THEN ListWithActors(n) ELSE <<>>
     IN  IF page = <<>> THEN export' = NoExport /\ moved' = FALSE
         ELSE export' = [export EXCEPT !.out = @ \o page] /\ UNCHANGED moved
  /\ UNCHANGED <<queue, stream, group, hand, rows, written, dead, flushes, faults, unsure>>

\* From where the last page ended, until there are as many as were counted.
ReadPage ==
  /\ export.at = "pages"
  /\ LET n == Len(export.out)
         page == IF n < export.total THEN ListWithActors(n) ELSE <<>>
     IN  IF page = <<>> THEN export' = NoExport /\ moved' = FALSE
         ELSE export' = [export EXCEPT !.out = @ \o page] /\ UNCHANGED moved
  /\ UNCHANGED <<queue, stream, group, hand, rows, written, dead, flushes, faults, unsure>>

-----------------------------------------------------------------------------
Init ==
  /\ push = [e \in Events |-> [at |-> "none", tries |-> 0]]
  /\ stream = <<>> /\ given = {} /\ pending = {}
  /\ batch = <<>> /\ hand = [x \in {} |-> 0]
  /\ rows = <<>> /\ written = [e \in Events |-> 0] /\ dead = {}
  /\ export = NoExport
  /\ flushes = 0 /\ faults = 0
  /\ trimmed = {} /\ unsure = {} /\ forsaken = {} /\ moved = FALSE

Process(x) == Record(x) \/ Ack(x) \/ Delete(x) \/ DeadLetter(x)

Next ==
  \/ \E e \in Events : Enqueue(e) \/ Push(e)
  \/ CrashApi
  \/ ReadEntries \/ BeginChunk
  \/ \E x \in DOMAIN hand : Process(x)
  \/ CrashWorker
  \/ Flush \/ BeginExport \/ ReadPage

\* Requests go on to their end and the worker works; a service manager starts it again.
Fairness ==
  /\ \A e \in Events : WF_vars(Push(e))
  /\ WF_vars(ReadEntries) /\ WF_vars(BeginChunk)
  /\ WF_vars(\E x \in DOMAIN hand : Process(x))

Spec == Init /\ [][Next]_vars /\ Fairness

-----------------------------------------------------------------------------
(* Properties                                                              *)

Entries == Events \X (1..MaxPushes)

\* What the worker holds was handed out, and what is pending is held or forsaken.
TypeOK ==
  /\ \A e \in Events : push[e].at \in {"none", "push", "accepted", "failed"}
                       /\ push[e].tries \in 0..MaxPushes
  /\ ToSet(stream) \subseteq Entries /\ IsInjective(stream)
  /\ pending \subseteq given /\ given \subseteq Entries
  /\ DOMAIN hand \cup ToSet(batch) \subseteq given
  /\ pending \subseteq DOMAIN hand \cup ToSet(batch) \cup forsaken
  /\ Cardinality(DOMAIN hand) <= Chunk

Settled(e) == written[e] > 0 \/ e \in dead

\* An event that was accepted is on the stream until it has a row or a dead letter,
\* unless the cap took it (RedisAuditQueue, processEntry).
AcceptedIsKept ==
  \A e \in Events : push[e].at = "accepted" =>
    Settled(e) \/ e \in trimmed \/ \E x \in ToSet(stream) \cup DOMAIN hand : x[1] = e

\* Two rows of one event come of a call that failed after it had its effect.
TwiceOnlyInDoubt ==
  \A e \in Events : written[e] > 1 \/ (written[e] > 0 /\ e \in dead) => e \in unsure

\* Unless rows are written or flushed meanwhile, an export has every row once, the
\* newest first (ExportAuditLogsUseCase).
ExportIsExact ==
  [][export.at = "pages" /\ export'.at = "none" /\ ~moved => export.out = Reverse(rows)]_vars

\* Every accepted event has a row or a dead letter in the end, but for what the cap took
\* and what a dead worker or a failed dead letter left pending, which nothing reclaims.
InTheEndRecorded ==
  \A e \in Events : push[e].at = "accepted" ~>
    Settled(e) \/ e \in trimmed \/ \E x \in forsaken : x[1] = e

\* However pushes, chunks and crashes meet, an event that was accepted is not lost, and
\* is recorded twice only for a call that left it unknown whether it had been done.
Inv == TypeOK /\ AcceptedIsKept /\ TwiceOnlyInDoubt
=============================================================================
