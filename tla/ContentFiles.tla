---------------------------- MODULE ContentFiles ----------------------------
(***************************************************************************)
(* One content item: its row, the objects that storage holds for it, the   *)
(* requests that upload, replace, patch and delete it, and the ingestion   *)
(* worker.  IngestionQueue has the queue in detail; here a job only waits. *)
(*                                                                         *)
(* A file is named by the request that brought it.  Object keys are built  *)
(* from the content id and the MIME type, so a replacement of the same     *)
(* type overwrites the object in place, and there is one thumbnail key.    *)
(* Every await of a handler ends a step.                                   *)
(***************************************************************************)
EXTENDS Naturals, Sequences, FiniteSets, Functions

CONSTANTS Requests,
          OperationOf,  \* what each request asks for
          Mimes,        \* MIME types; each gives one object key
          None,         \* no file, no row
          MaxOverlap,   \* bound: requests in progress at once
          MaxAttempts,  \* runs the worker grants a job
          Failures,     \* kinds of failure the environment may show
          MaxFailures   \* bound: how many failures in a behaviour

FailureKinds == {"store", "rows",
                 "push",   \* the job row or the entry is refused
                 "late",   \* an enqueue that executes although it timed out
                 "work", "crash", "api"}

File == Requests \cup {None}

\* thumb: whether thumbnailKey is set; meta: the file that width, height and
\* duration were extracted from; sum and size: the one checksum and fileSize are of.
Row == [status : {"PROCESSING", "READY", "FAILED"}, key : Mimes, mime : Mimes,
        sum : Requests, size : Requests, meta : File, thumb : BOOLEAN]

ASSUME FilesAssumption ==
  /\ OperationOf \in [Requests -> {"upload", "replace", "patch", "delete"}]
  /\ None \notin Requests \cup Mimes \cup Row
  /\ MaxOverlap \in Nat
  /\ MaxAttempts \in Nat \ {0}
  /\ Failures \subseteq FailureKinds
  /\ MaxFailures \in Nat

VARIABLES row,       \* the content row and its asset columns, or None
          files,     \* the object at each file key
          thumb,     \* the object at the thumbnail key: the file it shows
          step,      \* what each request does next
          target,    \* the MIME type of the file a request brings
          seen,      \* the row as a request last read it
          uploaded,  \* requests whose catch block will delete their file
          queue,     \* jobs waiting for the worker
          stage,     \* what the worker does next
          run,       \* the job it runs and what it holds in memory
          failures,  \* failures of each kind so far
          alone,     \* history: no two requests were ever in progress at once
          apart      \* history: nor were two of which neither deletes the content

requestVars == <<step, target, seen, uploaded>>
runVars     == <<stage, run>>
filesVars   == <<row, files, thumb, requestVars, queue, runVars, failures, alone, apart>>

Step == {"idle", "store", "enqueue", "undoRead", "undoWrite", "erase",
         "newFile", "newRow", "dropFile", "dropThumb",
         "patchRead", "patchWrite", "deleteRow", "eraseFile", "eraseThumb",
         "done", "failed", "dead"}
Closed == {"idle", "done", "failed", "dead"}
Stage == {"idle", "start", "load", "download", "makeThumb", "dropThumb",
          "read", "write", "fail"}

NoRun == [job |-> None, attempt |-> 0, content |-> None, data |-> None,
          made |-> FALSE, base |-> None]
Run == [job : File, attempt : 0..MaxAttempts, content : Row \cup {None},
        data : File, made : BOOLEAN, base : Row \cup {None}]

FilesTypeOK ==
  /\ row \in Row \cup {None}
  /\ files \in [Mimes -> File]
  /\ thumb \in File
  /\ step \in [Requests -> Step]
  /\ target \in [Requests -> Mimes \cup {None}]
  /\ seen \in [Requests -> Row \cup {None}]
  /\ uploaded \subseteq Requests
  /\ queue \in Seq(Requests)
  /\ stage \in Stage
  /\ run \in Run
  /\ failures \in [Failures -> Nat]
  /\ alone \in BOOLEAN /\ apart \in BOOLEAN

FilesInit ==
  /\ row = None
  /\ files = [m \in Mimes |-> None]
  /\ thumb = None
  /\ step = [r \in Requests |-> "idle"]
  /\ target = [r \in Requests |-> None]
  /\ seen = [r \in Requests |-> None]
  /\ uploaded = {}
  /\ queue = << >>
  /\ stage = "idle"
  /\ run = NoRun
  /\ failures = [kind \in Failures |-> 0]
  /\ alone = TRUE /\ apart = TRUE

Fail(kind) ==
  /\ kind \in Failures
  /\ SumFunction(failures) < MaxFailures
  /\ failures' = [failures EXCEPT ![kind] = @ + 1]

Then(r, s) == step' = [step EXCEPT ![r] = s]
Put(m, f) == files' = [files EXCEPT ![m] = f]

Open == {r \in Requests : step[r] \notin Closed}

Begin(r, operation) ==
  /\ OperationOf[r] = operation
  /\ step[r] = "idle"
  /\ Cardinality(Open) < MaxOverlap

\* The history of requests that overlap.
Meet ==
  /\ alone' = (alone /\ \A q, r \in Open' : q = r)
  /\ apart' = (apart /\ \A q, r \in Open' : q = r \/ "delete" \in {OperationOf[q], OperationOf[r]})

\* The row of a file just stored and not yet examined.
Fresh(r, m) == [status |-> "PROCESSING", key |-> m, mime |-> m, sum |-> r, size |-> r,
                meta |-> None, thumb |-> FALSE]

(***************************************************************************)
(* Upload.                                                                 *)
(***************************************************************************)

\* The id is new, so nothing else was asked about it before.
CreateRow(r) ==
  /\ Begin(r, "upload")
  /\ \A q \in Requests : step[q] = "idle"
  /\ \E m \in Mimes : row' = Fresh(r, m) /\ target' = [target EXCEPT ![r] = m]
  /\ Then(r, "store")
  /\ UNCHANGED <<files, thumb, seen, uploaded, queue, runVars, failures>>

\* A storage call that fails may have stored the object all the same.
StoreFile(r) ==
  /\ step[r] = "store"
  /\ \/ /\ Put(target[r], r)
        /\ Then(r, "enqueue")
        /\ uploaded' = uploaded \cup {r}
        /\ UNCHANGED failures
     \/ /\ Fail("store")
        /\ Put(target[r], r) \/ UNCHANGED files
        /\ Then(r, "undoRead")
        /\ UNCHANGED uploaded
  /\ UNCHANGED <<row, thumb, target, seen, queue, runVars>>

\* The job row and its stream entry.  When an XADD times out the entry may be
\* there: the retry adds another one, or the request gives up and the job stays.
Enqueue(r) ==
  /\ step[r] = "enqueue"
  /\ \/ queue' = Append(queue, r) /\ Then(r, "done") /\ UNCHANGED failures
     \/ Fail("push") /\ Then(r, "undoRead") /\ UNCHANGED queue
     \/ /\ Fail("late")
        /\ \/ queue' = Append(queue, r) /\ Then(r, "undoRead")
           \/ queue' = queue \o <<r, r>> /\ Then(r, "done")
  /\ UNCHANGED <<row, files, thumb, target, seen, uploaded, runVars>>

\* The catch block: update(id, {status: FAILED}) reads the row and writes every
\* asset column back as read; its failure is ignored.
AfterUndo(r) == Then(r, IF r \in uploaded THEN "erase" ELSE "failed")

UndoRead(r) ==
  /\ step[r] = "undoRead"
  /\ \/ /\ row # None
        /\ seen' = [seen EXCEPT ![r] = row]
        /\ Then(r, "undoWrite")
        /\ UNCHANGED failures
     \/ row = None /\ AfterUndo(r) /\ UNCHANGED <<seen, failures>>
     \/ Fail("rows") /\ AfterUndo(r) /\ UNCHANGED seen
  /\ UNCHANGED <<row, files, thumb, target, uploaded, queue, runVars>>

UndoWrite(r) ==
  /\ step[r] = "undoWrite"
  /\ \/ row # None /\ row' = [seen[r] EXCEPT !.status = "FAILED"] /\ UNCHANGED failures
     \/ row = None /\ UNCHANGED <<row, failures>>
     \/ Fail("rows") /\ UNCHANGED row
  /\ AfterUndo(r)
  /\ UNCHANGED <<files, thumb, target, seen, uploaded, queue, runVars>>

EraseUpload(r) ==
  /\ step[r] = "erase"
  /\ \/ Put(target[r], None) /\ UNCHANGED failures
     \/ Fail("store") /\ UNCHANGED files
  /\ Then(r, "failed")
  /\ UNCHANGED <<row, thumb, target, seen, uploaded, queue, runVars>>

(***************************************************************************)
(* Replace.  That no playlist uses the content is checked too; playlists   *)
(* are not in this module.                                                 *)
(***************************************************************************)

ReadForReplace_AnyStatus(r) ==
  /\ Begin(r, "replace")
  /\ row # None
  /\ \E m \in Mimes : target' = [target EXCEPT ![r] = m]
  /\ seen' = [seen EXCEPT ![r] = row]
  /\ Then(r, "newFile")
  /\ UNCHANGED <<row, files, thumb, uploaded, queue, runVars, failures>>

ReadForReplace(r) ==
  /\ Begin(r, "replace")
  /\ row # None
  /\ row.status # "PROCESSING"
  /\ \E m \in Mimes : target' = [target EXCEPT ![r] = m]
  /\ seen' = [seen EXCEPT ![r] = row]
  /\ Then(r, "newFile")
  /\ UNCHANGED <<row, files, thumb, uploaded, queue, runVars, failures>>

StoreNewFile_InPlaceOfOld(r) ==
  /\ step[r] = "newFile"
  /\ files' = [files EXCEPT ![seen[r].key] = None, ![target[r]] = r]
  /\ Then(r, "newRow")
  /\ UNCHANGED <<row, thumb, target, seen, uploaded, queue, runVars, failures>>

StoreNewFile(r) ==
  /\ step[r] = "newFile"
  /\ \/ Put(target[r], r) /\ Then(r, "newRow") /\ UNCHANGED failures
     \/ /\ Fail("store")
        /\ Put(target[r], r) \/ UNCHANGED files
        /\ Then(r, "failed")
  /\ UNCHANGED <<row, thumb, target, seen, uploaded, queue, runVars>>

RewriteRow_StatusKept(r) ==
  /\ step[r] = "newRow"
  /\ \/ /\ row # None
        /\ row' = [Fresh(r, target[r]) EXCEPT !.status = row.status]
        /\ Then(r, "dropFile")
     \/ row = None /\ Then(r, "failed") /\ UNCHANGED row
  /\ UNCHANGED <<files, thumb, target, seen, uploaded, queue, runVars, failures>>

\* Every asset column is given, so what update() read before does not matter.
RewriteRow(r) ==
  /\ step[r] = "newRow"
  /\ \/ row # None /\ row' = Fresh(r, target[r]) /\ Then(r, "dropFile") /\ UNCHANGED failures
     \/ row = None /\ Then(r, "failed") /\ UNCHANGED <<row, failures>>
     \/ Fail("rows") /\ Then(r, "failed") /\ UNCHANGED row
  /\ UNCHANGED <<files, thumb, target, seen, uploaded, queue, runVars>>

DropOldFile_Kept(r) ==
  /\ step[r] = "dropFile"
  /\ Then(r, "dropThumb")
  /\ UNCHANGED <<row, files, thumb, target, seen, uploaded, queue, runVars, failures>>

\* Failures to clean up are logged and ignored.
DropOldFile(r) ==
  /\ step[r] = "dropFile"
  /\ \/ seen[r].key # target[r] /\ Put(seen[r].key, None) /\ UNCHANGED failures
     \/ seen[r].key = target[r] /\ UNCHANGED <<files, failures>>
     \/ seen[r].key # target[r] /\ Fail("store") /\ UNCHANGED files
  /\ Then(r, "dropThumb")
  /\ UNCHANGED <<row, thumb, target, seen, uploaded, queue, runVars>>

DropOldThumb(r) ==
  /\ step[r] = "dropThumb"
  /\ \/ seen[r].thumb /\ thumb' = None /\ UNCHANGED failures
     \/ ~seen[r].thumb /\ UNCHANGED <<thumb, failures>>
     \/ seen[r].thumb /\ Fail("store") /\ UNCHANGED thumb
  /\ Then(r, "enqueue")
  /\ UNCHANGED <<row, files, target, seen, uploaded, queue, runVars>>

(***************************************************************************)
(* Patch of the title: no status is given, so the status column is left    *)
(* alone; checksum and size come from the handler's read and the other     *)
(* asset columns from update()'s own read, and all are written back.       *)
(***************************************************************************)

BeginPatch(r) ==
  /\ Begin(r, "patch")
  /\ row # None
  /\ seen' = [seen EXCEPT ![r] = row]
  /\ Then(r, "patchRead")
  /\ UNCHANGED <<row, files, thumb, target, uploaded, queue, runVars, failures>>

PatchRead(r) ==
  /\ step[r] = "patchRead"
  /\ \/ /\ row # None
        /\ seen' = [seen EXCEPT ![r] = [row EXCEPT !.sum = seen[r].sum, !.size = seen[r].size]]
        /\ Then(r, "patchWrite")
     \/ row = None /\ Then(r, "failed") /\ UNCHANGED seen
  /\ UNCHANGED <<row, files, thumb, target, uploaded, queue, runVars, failures>>

PatchWrite(r) ==
  /\ step[r] = "patchWrite"
  /\ \/ row # None /\ row' = [seen[r] EXCEPT !.status = row.status] /\ Then(r, "done")
     \/ row = None /\ Then(r, "failed") /\ UNCHANGED row
  /\ UNCHANGED <<files, thumb, target, seen, uploaded, queue, runVars, failures>>

(***************************************************************************)
(* Delete: the row first, then the objects the row named when it was read. *)
(***************************************************************************)

BeginDelete(r) ==
  /\ Begin(r, "delete")
  /\ row # None
  /\ seen' = [seen EXCEPT ![r] = row]
  /\ Then(r, "deleteRow")
  /\ UNCHANGED <<row, files, thumb, target, uploaded, queue, runVars, failures>>

DeleteRow_FileFirst(r) ==
  /\ step[r] = "deleteRow"
  /\ IF files[seen[r].key] # None
     THEN Put(seen[r].key, None) /\ UNCHANGED <<row, step>>
     ELSE row' = None /\ Then(r, "eraseFile") /\ UNCHANGED files
  /\ UNCHANGED <<thumb, target, seen, uploaded, queue, runVars, failures>>

DeleteRow(r) ==
  /\ step[r] = "deleteRow"
  /\ \/ row # None /\ row' = None /\ Then(r, "eraseFile") /\ UNCHANGED failures
     \/ row = None /\ Then(r, "failed") /\ UNCHANGED <<row, failures>>
     \/ Fail("rows") /\ Then(r, "failed") /\ UNCHANGED row
  /\ UNCHANGED <<files, thumb, target, seen, uploaded, queue, runVars>>

EraseFile(r) ==
  /\ step[r] = "eraseFile"
  /\ \/ /\ Put(seen[r].key, None)
        /\ Then(r, IF seen[r].thumb THEN "eraseThumb" ELSE "done")
        /\ UNCHANGED failures
     \/ Fail("store") /\ Then(r, "failed") /\ UNCHANGED files
  /\ UNCHANGED <<row, thumb, target, seen, uploaded, queue, runVars>>

EraseThumb(r) ==
  /\ step[r] = "eraseThumb"
  /\ \/ thumb' = None /\ Then(r, "done") /\ UNCHANGED failures
     \/ Fail("store") /\ Then(r, "failed") /\ UNCHANGED thumb
  /\ UNCHANGED <<row, files, target, seen, uploaded, queue, runVars>>

\* The API process dies in the middle of a request.
ApiDies(r) ==
  /\ step[r] \notin Closed
  /\ Fail("api")
  /\ Then(r, "dead")
  /\ UNCHANGED <<row, files, thumb, target, seen, uploaded, queue, runVars>>

(***************************************************************************)
(* The worker: processContentIngestionJob, retried in place.               *)
(***************************************************************************)

TakeJob ==
  /\ stage = "idle"
  /\ queue # << >>
  /\ queue' = Tail(queue)
  /\ stage' = "start"
  /\ run' = [NoRun EXCEPT !.job = Head(queue), !.attempt = 1]
  /\ UNCHANGED <<row, files, thumb, requestVars, failures>>

Throw_NoLimit ==
  /\ stage' = "start"
  /\ run' = [NoRun EXCEPT !.job = run.job, !.attempt = run.attempt + 1]

\* The run throws: it is repeated, or the job is given up.
Throw ==
  /\ IF run.attempt < MaxAttempts
     THEN /\ stage' = "start"
          /\ run' = [NoRun EXCEPT !.job = run.job, !.attempt = run.attempt + 1]
     ELSE stage' = "fail" /\ UNCHANGED run

\* Jobs are deleted with their content: then the run returns at once.
FindJob ==
  /\ stage = "start"
  /\ IF row # None THEN stage' = "load" /\ UNCHANGED run
                   ELSE stage' = "idle" /\ run' = NoRun
  /\ UNCHANGED <<row, files, thumb, requestVars, queue, failures>>

LoadContent ==
  /\ stage = "load"
  /\ \/ /\ row # None
        /\ stage' = "download"
        /\ run' = [run EXCEPT !.content = row]
     \/ row = None /\ Throw
  /\ UNCHANGED <<row, files, thumb, requestVars, queue, failures>>

\* Download and metadata extraction.
Download ==
  /\ stage = "download"
  /\ LET data == files[run.content.key]
     IN  \/ /\ data # None
            /\ stage' = "makeThumb"
            /\ run' = [run EXCEPT !.data = data]
            /\ UNCHANGED failures
         \/ data = None /\ Throw /\ UNCHANGED failures
         \/ data # None /\ Fail("work") /\ Throw
  /\ UNCHANGED <<row, files, thumb, requestVars, queue>>

MakeThumb_Assumed ==
  /\ stage = "makeThumb"
  /\ stage' = "dropThumb"
  /\ run' = [run EXCEPT !.made = TRUE]
  /\ \/ thumb' = run.data /\ UNCHANGED failures
     \/ UNCHANGED thumb /\ Fail("work")
  /\ UNCHANGED <<row, files, requestVars, queue>>

\* No thumbnail may come out, and an upload that fails may be stored.
MakeThumb ==
  /\ stage = "makeThumb"
  /\ stage' = "dropThumb"
  /\ \/ thumb' = run.data /\ run' = [run EXCEPT !.made = TRUE] /\ UNCHANGED failures
     \/ thumb' \in {thumb, run.data} /\ UNCHANGED run /\ Fail("work")
  /\ UNCHANGED <<row, files, requestVars, queue>>

DropStaleThumb ==
  /\ stage = "dropThumb"
  /\ stage' = "read"
  /\ \/ run.content.thumb /\ ~run.made /\ thumb' = None /\ UNCHANGED failures
     \/ ~(run.content.thumb /\ ~run.made) /\ UNCHANGED <<thumb, failures>>
     \/ run.content.thumb /\ ~run.made /\ Fail("work") /\ UNCHANGED thumb
  /\ UNCHANGED <<row, files, requestVars, queue, run>>

\* update() of a row that is gone returns null and the run ends well.
ReadRow ==
  /\ stage = "read"
  /\ \/ row # None /\ stage' = "write" /\ run' = [run EXCEPT !.base = row]
     \/ row = None /\ stage' = "idle" /\ run' = NoRun
  /\ UNCHANGED <<row, files, thumb, requestVars, queue, failures>>

\* The insert of the asset row throws when the content has gone since.
WriteReady ==
  /\ stage = "write"
  /\ \/ /\ row # None
        /\ row' = [run.base EXCEPT !.status = "READY", !.mime = run.content.mime,
                     !.size = run.data, !.meta = run.data, !.thumb = run.made]
        /\ stage' = "idle"
        /\ run' = NoRun
     \/ row = None /\ Throw /\ UNCHANGED row
  /\ UNCHANGED <<files, thumb, requestVars, queue, failures>>

GiveUp ==
  /\ stage = "fail"
  /\ row' = IF row = None THEN None ELSE [row EXCEPT !.status = "FAILED"]
  /\ stage' = "idle"
  /\ run' = NoRun
  /\ UNCHANGED <<files, thumb, requestVars, queue, failures>>

\* The entry stays in the PEL of the dead consumer and is not run again.
WorkerDies ==
  /\ stage # "idle"
  /\ Fail("crash")
  /\ stage' = "idle"
  /\ run' = NoRun
  /\ UNCHANGED <<row, files, thumb, requestVars, queue>>

ServeRequest(r) ==
  \/ CreateRow(r) \/ StoreFile(r) \/ Enqueue(r)
  \/ UndoRead(r) \/ UndoWrite(r) \/ EraseUpload(r)
  \/ ReadForReplace(r) \/ StoreNewFile(r) \/ RewriteRow(r)
  \/ DropOldFile(r) \/ DropOldThumb(r)
  \/ BeginPatch(r) \/ PatchRead(r) \/ PatchWrite(r)
  \/ BeginDelete(r) \/ DeleteRow(r) \/ EraseFile(r) \/ EraseThumb(r)
  \/ ApiDies(r)

RunWorker ==
  \/ TakeJob \/ FindJob \/ LoadContent \/ Download \/ MakeThumb
  \/ DropStaleThumb \/ ReadRow \/ WriteReady \/ GiveUp \/ WorkerDies

FilesNext == ((\E r \in Requests : ServeRequest(r)) \/ RunWorker) /\ Meet

FilesSpec == FilesInit /\ [][FilesNext]_filesVars

(***************************************************************************)
(* Properties.                                                             *)
(***************************************************************************)

Ready == row # None /\ row.status = "READY"

\* A READY row points at a file that exists: "orphan files are recoverable,
\* ghost DB records pointing to missing files are not" (delete-content).
NoGhost == Ready => files[row.key] # None

\* No failure of these kinds has happened.
Without(kinds) == \A kind \in Failures \cap kinds : failures[kind] = 0

\* Whatever fails or dies, and whenever the content is deleted, a READY row points at
\* a missing file only after an enqueue that timed out was executed, or after two
\* requests that upload, replace or patch the content overlapped: the clean-up of one
\* then erases the key that the other writes, or a row read before is written back.
GhostsComeLate == apart /\ Without({"late"}) => NoGhost

\* What a READY row says of its file (checksum, size, dimensions) is true of the
\* object stored under its key, except while a replacement that has already
\* overwritten the object has still to write the row.  A replacement that fails or
\* dies at that point, or a patch beside the worker, may undo it for good.
ReadyDescribesFile ==
  apart /\ Ready /\ Without({"store", "rows", "api", "late"})
        /\ (\A r \in Requests : step[r] # "newRow")
        /\ (\A r \in Requests : OperationOf[r] = "patch" => step[r] = "idle")
    => {row.sum, row.size, row.meta} = {files[row.key]}

\* The thumbnail a READY row shows is in storage and was made from its file, unless
\* a job ran twice, or for a request that gave it up, or requests overlapped.
ThumbnailIsOfFile == apart /\ Ready /\ row.thumb /\ Without({"late"}) => thumb = row.sum

\* Once all requests and jobs are over, and no two of them overlapped, storage holds no
\* file but the one the row names: replaced, refused and deleted files have been
\* removed, unless a call to storage or the database failed or a process died before.
NoOrphanFiles ==
  alone /\ Open = {} /\ stage = "idle" /\ queue = << >>
        /\ Without({"store", "rows", "api", "late"})
    => \A m \in Mimes : files[m] # None => row # None /\ row.key = m

\* A READY row tells the truth about its file and about its thumbnail.
ReadyIsTrue == FilesTypeOK /\ ReadyDescribesFile /\ ThumbnailIsOfFile
=============================================================================
