--------------------------- MODULE IngestionQueue ---------------------------
(***************************************************************************)
(* The content-ingestion pipeline seen from its queue: the API handlers    *)
(* that create a content row, a job row and a Redis stream entry           *)
(* (upload-content, replace-content-file, delete-content), the stream with *)
(* its consumer group, and the worker that reads batches, runs jobs with   *)
(* in-process retries, acknowledges, and dead-letters.                     *)
(*                                                                         *)
(* Every await of a handler or of the worker ends a step, so other actors  *)
(* run in between.  What is done to files is in ContentFiles; here a run   *)
(* of a job either succeeds or throws.                                     *)
(***************************************************************************)
EXTENDS Naturals, Sequences, FiniteSets, SequencesExt

CONSTANTS Jobs,            \* one upload or replace request each
          Contents,
          ContentOf,       \* the content a request is about
          MaxEnqueueAttempts,
          MaxDeliveries,
          BatchSize,       \* COUNT of XREADGROUP
          StreamCapacity,  \* MAXLEN of XADD
          Faults,          \* kinds of failure the environment may show
          MaxFaults        \* bound: how many failures in a behaviour

FaultKinds == {"store",  \* a storage call or the insert of a job row
               "rows",   \* a row access whose failure nothing makes good
               "push", "read", "work", "ack", "mark", "dlq",
               "crash",  \* of the worker
               "api"}    \* of a request, with its process

ASSUME IngestionAssumption ==
  /\ ContentOf \in [Jobs -> Contents]
  /\ MaxEnqueueAttempts \in Nat \ {0}
  /\ MaxDeliveries \in Nat \ {0}
  /\ BatchSize \in Nat \ {0}
  /\ StreamCapacity \in Nat \ {0}
  /\ Faults \subseteq FaultKinds
  /\ MaxFaults \in Nat

\* A stream entry carries its job id; copies of it come from retried XADDs.
Entry == [job : Jobs, copy : 1..MaxEnqueueAttempts]

VARIABLES content,    \* status of the content row; "none" when there is no row
          job,        \* status of the job row; "none" when there is no row
          request,    \* what each API request does next
          operation,  \* UPLOAD or REPLACE
          pushes,     \* XADDs each request has issued
          log,        \* stream entries not yet delivered, oldest first
          retained,   \* delivered entries still stored in the stream
          pending,    \* delivered entries not acknowledged (the PEL)
          dropped,    \* entries MAXLEN trimmed before they were delivered
          dlq,        \* entries on the dead-letter stream
          worker,     \* what the worker does next with the first of batch
          batch,      \* entries the worker holds in memory
          runs,       \* runs of each entry begun so far (the loop variable attempt)
          succeeded,  \* entries one of whose runs succeeded
          faults      \* failures of each kind so far

apiVars    == <<request, operation, pushes>>
rows       == <<content, job>>
streamVars == <<log, retained, pending, dropped, dlq>>
workerVars == <<worker, batch, runs, succeeded>>
vars == <<rows, apiVars, streamVars, workerVars, faults>>

ContentStatus == {"none", "PROCESSING", "READY", "FAILED"}
JobStatus     == {"none", "QUEUED", "PROCESSING", "SUCCEEDED", "FAILED"}
RequestStep   == {"idle", "store", "replace", "row", "job", "push", "undoContent",
                  "undoJob", "accepted", "rejected", "dead"}
WorkerStep    == {"idle", "start", "work", "finish", "ack", "del", "mark", "dlq",
                  "ackDead", "delDead"}

TypeOK ==
  /\ content \in [Contents -> ContentStatus]
  /\ job \in [Jobs -> JobStatus]
  /\ request \in [Jobs -> RequestStep]
  /\ operation \in [Jobs -> {"none", "UPLOAD", "REPLACE"}]
  /\ pushes \in [Jobs -> 0..MaxEnqueueAttempts]
  /\ log \in Seq(Entry)
  /\ retained \subseteq Entry
  /\ pending \subseteq Entry
  /\ dropped \subseteq Entry
  /\ dlq \subseteq Entry
  /\ worker \in WorkerStep
  /\ batch \in Seq(Entry)
  /\ worker # "idle" => batch # << >>
  /\ runs \in [Entry -> 0..MaxDeliveries]
  /\ succeeded \subseteq Entry
  /\ faults \in [Faults -> Nat]

Init ==
  /\ content = [c \in Contents |-> "none"]
  /\ job = [j \in Jobs |-> "none"]
  /\ request = [j \in Jobs |-> "idle"]
  /\ operation = [j \in Jobs |-> "none"]
  /\ pushes = [j \in Jobs |-> 0]
  /\ log = << >>
  /\ retained = {}
  /\ pending = {}
  /\ dropped = {}
  /\ dlq = {}
  /\ worker = "idle"
  /\ batch = << >>
  /\ runs = [e \in Entry |-> 0]
  /\ succeeded = {}
  /\ faults = [kind \in Faults |-> 0]

\* The environment makes one call fail.
Fault(kind) ==
  /\ kind \in Faults
  /\ SumFunction(faults) < MaxFaults
  /\ faults' = [faults EXCEPT ![kind] = @ + 1]

Go(j, step) == request' = [request EXCEPT ![j] = step]

\* UPDATE of a row that may be gone by now changes nothing then.
SetContent(c, status) ==
  content' = IF content[c] = "none" THEN content ELSE [content EXCEPT ![c] = status]
SetJob(j, status) ==
  job' = IF job[j] = "none" THEN job ELSE [job EXCEPT ![j] = status]

(***************************************************************************)
(* API: upload, replace, delete.                                           *)
(***************************************************************************)

\* A new content id: no earlier request was about it.  When the row cannot be
\* read back after the insert, the request ends with the row in place.
BeginUpload(j) ==
  /\ request[j] = "idle"
  /\ \A k \in Jobs : ContentOf[k] = ContentOf[j] => request[k] = "idle"
  /\ content' = [content EXCEPT ![ContentOf[j]] = "PROCESSING"]
  /\ operation' = [operation EXCEPT ![j] = "UPLOAD"]
  /\ \/ Go(j, "store") /\ UNCHANGED faults
     \/ Go(j, "rejected") /\ Fault("rows")
  /\ UNCHANGED <<job, pushes, streamVars, workerVars>>

\* The file goes to storage; a failure leads to the catch block, where no
\* job exists yet.
StoreUpload(j) ==
  /\ request[j] = "store"
  /\ \/ Go(j, "job") /\ UNCHANGED faults
     \/ Go(j, "undoContent") /\ Fault("store")
  /\ UNCHANGED <<rows, operation, pushes, streamVars, workerVars>>

\* Replacing is refused while the content is being processed.
BeginReplace(j) ==
  /\ request[j] = "idle"
  /\ content[ContentOf[j]] \in {"READY", "FAILED"}
  /\ operation' = [operation EXCEPT ![j] = "REPLACE"]
  /\ Go(j, "replace")
  /\ UNCHANGED <<rows, pushes, streamVars, workerVars, faults>>

\* A storage failure here is thrown to the caller, nothing was changed yet.
StoreReplacement(j) ==
  /\ request[j] = "replace"
  /\ \/ Go(j, "row") /\ UNCHANGED faults
     \/ Go(j, "rejected") /\ Fault("store")
  /\ UNCHANGED <<rows, operation, pushes, streamVars, workerVars>>

\* The status read before is not looked at again.  A failure to read the row
\* back is outside every catch block.
ReplaceRow(j) ==
  /\ request[j] = "row"
  /\ SetContent(ContentOf[j], "PROCESSING")
  /\ \/ /\ Go(j, IF content[ContentOf[j]] = "none" THEN "rejected" ELSE "job")
        /\ UNCHANGED faults
     \/ Go(j, "rejected") /\ Fault("rows")
  /\ UNCHANGED <<job, operation, pushes, streamVars, workerVars>>

\* The job row has a foreign key to its content: the insert fails without it.
CreateJob(j) ==
  /\ request[j] = "job"
  /\ \/ /\ content[ContentOf[j]] # "none"
        /\ job' = [job EXCEPT ![j] = "QUEUED"]
        /\ Go(j, "push")
        /\ UNCHANGED faults
     \/ /\ IF content[ContentOf[j]] = "none" THEN UNCHANGED faults ELSE Fault("store")
        /\ Go(j, "undoContent")
        /\ UNCHANGED job
  /\ UNCHANGED <<content, operation, pushes, streamVars, workerVars>>

\* XADD with MAXLEN ~: Redis may drop the oldest entries beyond the capacity
\* (which of the delivered ones is not told apart).
XAdd(e) ==
  \E kept \in SUBSET retained, n \in 0..Len(log) :
    /\ n > 0 => kept = {}
    /\ (kept # retained \/ n > 0) =>
         Cardinality(kept) + (Len(log) + 1 - n) >= StreamCapacity
    /\ retained' = kept
    /\ log' = SubSeq(Append(log, e), n + 1, Len(log) + 1)
    /\ dropped' = dropped \cup ToSet(SubSeq(log, 1, n))

\* Mutant: the last failure of an enqueue is swallowed.
AfterFailedPush_Swallow(j) == Go(j, IF pushes'[j] < MaxEnqueueAttempts THEN "push" ELSE "accepted")
AfterFailedPush(j) == Go(j, IF pushes'[j] < MaxEnqueueAttempts THEN "push" ELSE "undoContent")

\* One attempt of enqueue.  An attempt that fails may still have reached the
\* stream (the command timed out on the client only).  A replacement goes on to
\* read the owner inside the try block.
Push(j) ==
  LET e == [job |-> j, copy |-> pushes[j] + 1] IN
  /\ request[j] = "push"
  /\ pushes' = [pushes EXCEPT ![j] = @ + 1]
  /\ \/ XAdd(e) /\ Go(j, "accepted") /\ UNCHANGED faults
     \/ XAdd(e) /\ AfterFailedPush(j) /\ Fault("push")
     \/ UNCHANGED <<log, retained, dropped>> /\ AfterFailedPush(j) /\ Fault("push")
     \/ XAdd(e) /\ operation[j] = "REPLACE" /\ Go(j, "undoContent") /\ Fault("rows")
  /\ UNCHANGED <<rows, operation, pending, dlq, workerVars>>

\* Mutant: the catch block forgets the content row.
UndoContent_JobOnly(j) ==
  /\ request[j] = "undoContent"
  /\ Go(j, IF pushes[j] > 0 THEN "undoJob" ELSE "rejected")
  /\ UNCHANGED <<content, job, operation, pushes, streamVars, workerVars, faults>>

\* The catch block: content FAILED, then the job if one was created.  Errors
\* of the two updates are swallowed.
UndoContent(j) ==
  /\ request[j] = "undoContent"
  /\ \/ SetContent(ContentOf[j], "FAILED") /\ UNCHANGED faults
     \/ UNCHANGED content /\ Fault("rows")
  /\ Go(j, IF pushes[j] > 0 THEN "undoJob" ELSE "rejected")
  /\ UNCHANGED <<job, operation, pushes, streamVars, workerVars>>

UndoJob(j) ==
  /\ request[j] = "undoJob"
  /\ \/ SetJob(j, "FAILED") /\ UNCHANGED faults
     \/ UNCHANGED job /\ Fault("rows")
  /\ Go(j, "rejected")
  /\ UNCHANGED <<content, operation, pushes, streamVars, workerVars>>

InFlight(j) == request[j] \notin {"idle", "accepted", "rejected", "dead"}

\* The API process dies between two steps of a request.
ApiCrash(j) ==
  /\ InFlight(j)
  /\ Fault("api")
  /\ Go(j, "dead")
  /\ UNCHANGED <<rows, operation, pushes, streamVars, workerVars>>

\* Deleting a content row cascades to its jobs.
DeleteContent(c) ==
  /\ content[c] # "none"
  /\ content' = [content EXCEPT ![c] = "none"]
  /\ job' = [j \in Jobs |-> IF ContentOf[j] = c THEN "none" ELSE job[j]]
  /\ UNCHANGED <<apiVars, streamVars, workerVars, faults>>

(***************************************************************************)
(* The worker.                                                             *)
(***************************************************************************)

Lesser(a, b) == IF a < b THEN a ELSE b

\* XREADGROUP ">" moves up to COUNT entries to the PEL.  A reply the client
\* does not see (timeout) is read as an empty batch.
ReadBatch ==
  LET n == Lesser(BatchSize, Len(log))
      read == SubSeq(log, 1, n) IN
  /\ worker = "idle"
  /\ batch = << >>
  /\ log # << >>
  /\ log' = SubSeq(log, n + 1, Len(log))
  /\ retained' = retained \cup ToSet(read)
  /\ pending' = pending \cup ToSet(read)
  /\ \/ batch' = read /\ UNCHANGED faults
     \/ batch' = << >> /\ Fault("read")
  /\ UNCHANGED <<rows, apiVars, dropped, dlq, worker, runs, succeeded>>

Current == Head(batch)

TakeEntry ==
  /\ worker = "idle"
  /\ batch # << >>
  /\ worker' = "start"
  /\ UNCHANGED <<rows, apiVars, streamVars, batch, runs, succeeded, faults>>

\* Mutant: thrown away instead of dead-lettered.
RunThrows_NoDlq(made)   == worker' = IF made < MaxDeliveries THEN "start" ELSE "ackDead"

\* A run that throws is followed by another until MaxDeliveries were made.
RunThrows(made) == worker' = IF made < MaxDeliveries THEN "start" ELSE "mark"

\* A job whose row is gone counts as processed.  A call that fails may have
\* been executed, here and in the following steps.
StartRun ==
  LET j == Current.job IN
  /\ worker = "start"
  /\ runs' = [runs EXCEPT ![Current] = @ + 1]
  /\ \/ /\ job[j] = "none"
        /\ succeeded' = succeeded \cup {Current}
        /\ worker' = "ack"
        /\ UNCHANGED <<job, faults>>
     \/ /\ job[j] # "none"
        /\ job' = [job EXCEPT ![j] = "PROCESSING"]
        /\ worker' = "work"
        /\ UNCHANGED <<succeeded, faults>>
     \/ /\ SetJob(j, "PROCESSING") \/ UNCHANGED job
        /\ Fault("work")
        /\ RunThrows(runs[Current] + 1)
        /\ UNCHANGED succeeded
  /\ UNCHANGED <<content, apiVars, streamVars, batch>>

\* Download, metadata, thumbnail, update of the row.  Without a row the run
\* throws, or, when the row went away just before the update, goes on.
Work ==
  LET c == ContentOf[Current.job] IN
  /\ worker = "work"
  /\ \/ SetContent(c, "READY") /\ worker' = "finish" /\ UNCHANGED faults
     \/ content[c] = "none" /\ RunThrows(runs[Current]) /\ UNCHANGED <<content, faults>>
     \/ /\ SetContent(c, "READY") \/ UNCHANGED content
        /\ Fault("work")
        /\ RunThrows(runs[Current])
  /\ UNCHANGED <<job, apiVars, streamVars, batch, runs, succeeded>>

\* Mutant: the job row is not updated.
FinishRun_Unmarked ==
  /\ worker = "finish"
  /\ succeeded' = succeeded \cup {Current}
  /\ worker' = "ack"
  /\ UNCHANGED <<rows, apiVars, streamVars, batch, runs, faults>>

FinishRun ==
  /\ worker = "finish"
  /\ \/ /\ SetJob(Current.job, "SUCCEEDED")
        /\ succeeded' = succeeded \cup {Current}
        /\ worker' = "ack"
        /\ UNCHANGED faults
     \/ /\ SetJob(Current.job, "SUCCEEDED") \/ UNCHANGED job
        /\ Fault("work")
        /\ RunThrows(runs[Current])
        /\ UNCHANGED succeeded
  /\ UNCHANGED <<content, apiVars, streamVars, batch, runs>>

\* Mutant: the rest of the batch is forgotten.
NextEntry_ForgetsRest == worker' = "idle" /\ batch' = << >>

XAck == pending' = pending \ {Current}
XDel == retained' = retained \ {Current}
NextEntry == worker' = "idle" /\ batch' = Tail(batch)

\* XACK then XDEL, inside the try block: when one fails, the run counts as
\* failed and the job is run again.
Ack ==
  /\ worker = "ack"
  /\ \/ XAck /\ worker' = "del" /\ UNCHANGED faults
     \/ (XAck \/ UNCHANGED pending) /\ RunThrows(runs[Current]) /\ Fault("ack")
  /\ UNCHANGED <<rows, apiVars, log, retained, dropped, dlq, batch, runs, succeeded>>

Delete ==
  /\ worker = "del"
  /\ \/ XDel /\ NextEntry /\ UNCHANGED faults
     \/ /\ XDel \/ UNCHANGED retained
        /\ RunThrows(runs[Current])
        /\ Fault("ack")
        /\ UNCHANGED batch
  /\ UNCHANGED <<rows, apiVars, log, pending, dropped, dlq, runs, succeeded>>

\* An error outside the try block reaches the worker loop, which forgets the
\* rest of the batch.
Abandon == worker' = "idle" /\ batch' = << >>

\* One transaction marks the content and the job.
FailRows(j) ==
  /\ IF job[j] = "none" THEN UNCHANGED content ELSE SetContent(ContentOf[j], "FAILED")
  /\ SetJob(j, "FAILED")

MarkFailed ==
  /\ worker = "mark"
  /\ \/ FailRows(Current.job) /\ worker' = "dlq" /\ UNCHANGED <<batch, faults>>
     \/ (FailRows(Current.job) \/ UNCHANGED rows) /\ Abandon /\ Fault("mark")
  /\ UNCHANGED <<apiVars, streamVars, runs, succeeded>>

AddToDlq ==
  /\ worker = "dlq"
  /\ \/ dlq' = dlq \cup {Current} /\ worker' = "ackDead" /\ UNCHANGED <<batch, faults>>
     \/ dlq' \in {dlq, dlq \cup {Current}} /\ Abandon /\ Fault("dlq")
  /\ UNCHANGED <<rows, apiVars, log, retained, pending, dropped, runs, succeeded>>

AckDead ==
  /\ worker = "ackDead"
  /\ \/ XAck /\ worker' = "delDead" /\ UNCHANGED <<batch, faults>>
     \/ (XAck \/ UNCHANGED pending) /\ Abandon /\ Fault("ack")
  /\ UNCHANGED <<rows, apiVars, log, retained, dropped, dlq, runs, succeeded>>

DeleteDead ==
  /\ worker = "delDead"
  /\ \/ XDel /\ NextEntry /\ UNCHANGED faults
     \/ (XDel \/ UNCHANGED retained) /\ Abandon /\ Fault("ack")
  /\ UNCHANGED <<rows, apiVars, log, pending, dropped, dlq, runs, succeeded>>

\* The worker dies, or is shut down, and restarts under a new consumer name:
\* it reads only new entries, so what it held stays pending.
WorkerCrash ==
  /\ batch # << >>
  /\ Fault("crash")
  /\ Abandon
  /\ UNCHANGED <<rows, apiVars, streamVars, runs, succeeded>>

Request(j) == \/ BeginUpload(j) \/ StoreUpload(j) \/ BeginReplace(j)
              \/ StoreReplacement(j) \/ ReplaceRow(j) \/ CreateJob(j) \/ Push(j)
              \/ UndoContent(j) \/ UndoJob(j) \/ ApiCrash(j)

Worker == \/ ReadBatch \/ TakeEntry \/ StartRun \/ Work \/ FinishRun \/ Ack
          \/ Delete \/ MarkFailed \/ AddToDlq \/ AckDead \/ DeleteDead \/ WorkerCrash

Next == \/ \E j \in Jobs : Request(j)
        \/ \E c \in Contents : DeleteContent(c)
        \/ Worker

\* Request handlers run to their end, and the worker loop never stops for good.
Fairness ==
  /\ \A j \in Jobs : WF_vars(InFlight(j) /\ Request(j))
  /\ WF_vars(Worker)

Spec == Init /\ [][Next]_vars
FairSpec == Spec /\ Fairness

(***************************************************************************)
(* Properties.                                                             *)
(***************************************************************************)

Stream == ToSet(log)
Running(e) == worker # "idle" /\ e = Current

\* Where JobDelivery sees an entry.
DeliveryState == [e \in Entry |->
  CASE e \in dropped                  -> "dropped"
    [] e \in Stream                   -> "queued"
    [] e \in pending \/ Running(e)    -> "handed"
    [] OTHER                          -> IF runs[e] > 0 THEN "closed" ELSE "absent"]

Delivery == INSTANCE JobDelivery WITH state <- DeliveryState, dead <- dlq

\* Retries, batches, acknowledgements that are lost or half done, crashes and
\* trimming together still give at-least-once hand-over with at most
\* MaxDeliveries runs, and an entry only leaves after a good run or after it
\* was dead-lettered.
ImplementsDelivery == Delivery!Spec

\* An accepted request whose job is still QUEUED or PROCESSING has an entry in
\* the stream or the PEL, unless MAXLEN trimmed it: no failing call and no crash
\* loses an unfinished job.  (A job whose entry had a good run may read
\* PROCESSING again: when the acknowledgement failed after Redis executed it.)
UnfinishedJobIsCarried ==
  \A j \in Jobs :
    (request[j] = "accepted" /\ job[j] \in {"QUEUED", "PROCESSING"}) =>
      \E e \in Stream \cup pending \cup dropped \cup succeeded : e.job = j

\* No request still at work on a content, and none of its entries anywhere.
Quiet(c) == /\ \A j \in Jobs : ContentOf[j] = c => ~InFlight(j)
            /\ \A e \in Stream \cup pending \cup dropped : ContentOf[e.job] # c
            /\ worker # "idle" => ContentOf[Current.job] # c

\* No failure of these kinds has happened.
Spared(kinds) == \A kind \in Faults \cap kinds : faults[kind] = 0

\* A content left PROCESSING for good could be neither used nor replaced: it
\* needs a dead API process, or a row access that fails.
NoContentStuckProcessing ==
  \A c \in Contents :
    (Quiet(c) /\ content[c] = "PROCESSING" /\ Spared({"rows"})) =>
      \E j \in Jobs : ContentOf[j] = c /\ request[j] = "dead"

\* Once nothing is under way, what the jobs of a content tell the user is what
\* its row says: it is READY only if one of its jobs SUCCEEDED, and FAILED only
\* if one of its jobs FAILED or a request was refused.  A request that is refused,
\* or dies, after it tried to enqueue may have queued its job all the same, and an
\* acknowledgement that fails repeats a good run; no such content is meant.
RowAgreesWithJobs ==
  \A c \in Contents :
    LET own == {j \in Jobs : ContentOf[j] = c} IN
    Quiet(c) /\ (\A j \in own : pushes[j] = 0 \/ request[j] = "accepted") /\ Spared({"rows", "ack"}) =>
      /\ content[c] = "READY" => \E j \in own : job[j] = "SUCCEEDED"
      /\ content[c] = "FAILED" => \E j \in own : job[j] = "FAILED" \/ request[j] = "rejected"

\* What is at rest is true: no content waits for a job that nobody runs, and rows
\* and jobs tell of the same outcome.
RestingRowsAreTrue == NoContentStuckProcessing /\ RowAgreesWithJobs

\* An entry is acknowledged only when its job is over: a crash right after the
\* XACK loses no work.
AckAfterOutcome ==
  [][\A e \in pending \ pending' :
       job[e.job] \in {"none", "SUCCEEDED", "FAILED"}]_vars

\* Every accepted job ends as SUCCEEDED or FAILED (or its content is deleted)
\* and stays so, whatever copies of its entry are still to be run and whatever
\* else fails, unless its entry was trimmed, or stranded: by a crash, by a batch
\* that was lost on its way, or by an error outside the retry loop.
JobsEnd ==
  \A j \in Jobs :
    request[j] = "accepted" ~>
      [](\/ job[j] \in {"none", "SUCCEEDED", "FAILED"}
         \/ \E e \in dropped : e.job = j
         \/ ~Spared({"read", "ack", "mark", "dlq", "crash"}))
=============================================================================
