# WILDFIRE in TLA+

A specification of the WILDFIRE server (`src/src`, TypeScript on Bun: HTTP API,
content-ingestion worker, audit worker; MySQL, Redis, object storage), written
beside the code and checked with TLC and TLAPS. WILDFIRE manages digital signage:
staff upload content, build playlists, schedule them on displays; displays register
with a code, fetch a manifest and play.

The specification is about what the tests of the repository hardly reach: requests
that interleave at every `await`, calls that fail half way or time out after they
were executed, processes that die, caches that are read after the fact, clocks that
move on between a check and its use.

1. [The system](#1-the-system)
2. [Modules](#2-modules)
3. [How the code is read](#3-how-the-code-is-read)
4. [What the runs check](#4-what-the-runs-check)
5. [Fairness](#5-fairness)
6. [What is proved](#6-what-is-proved)
7. [Where the code and its documents disagree](#7-where-the-code-and-its-documents-disagree)
8. [What is not modelled, and the plan](#8-what-is-not-modelled-and-the-plan)

## 1. The system

The API process handles each request as an asynchronous function; between two
awaited calls any other request of the same or of another process may run. MySQL
transactions are used inside single repository methods only, hardly ever around a
whole use case, and no row is locked between a check and the write that relies on
it. Redis gives atomicity to single commands, to `MULTI` and to Lua scripts.

| Component | State | Operations | Interacts with | What is hard | What makes it correct |
|---|---|---|---|---|---|
| Content ingestion queue and worker (`use-cases/content`, `infrastructure/content-jobs`, `bootstrap/workers/content-ingestion`) | content and job rows; a Redis stream with its consumer group; the dead-letter stream; the worker's batch | upload, replace, delete; `XADD` with retries; read, run, retry, acknowledge, dead-letter | content files, event bus, server cache | an `XADD` that times out and was executed; a run repeated after a failed acknowledgement; crashes; trimming | a job is not lost, is run a bounded number of times, is acknowledged after its outcome; rows agree and do not stay `PROCESSING` |
| Content library and files (`use-cases/content`, `infrastructure/storage`) | rows with their asset columns; objects under keys made of id and MIME type; one thumbnail key | upload, replace file, patch, delete, the worker's metadata and thumbnail | the queue, playlists (references), storage | row and object change in separate calls; compensating deletes; stale full-row writes | a `READY` row names a file that exists and tells the truth of it; no file is left behind |
| Authentication sessions (`use-cases/auth`, `auth-session.repo`, `cached-auth-session.repo`) | session rows with current and previous token id; a copy of the row in Redis for 60 s | login, refresh with rotation, refresh without, logout, password change | users, cookies, audit | several tabs refresh one cookie; a lost answer; a stale copy refilled after a revocation | a refresh token is exchanged once; revoked and replaced tokens are served for a bounded time; an honest client is not taken for a replay |
| Schedules (`use-cases/schedules`, `schedule.repo`) | rows: kind, display, dates, times | create, update, delete, clean-up of finished ones | playlists, displays, manifest | conflict check, then insert; windows past midnight | flash schedules of a display do not overlap; a schedule has its playlist |
| Playlists (`use-cases/playlists`, `playlist.repo`) | rows with status and unused-since date; items with sequence | create, edit, items, reorder, replace, delete; status sweep; draft clean-up | schedules, content, manifest | status derived from schedules by separate reads and writes | status follows the schedules; nothing in use is deleted; items keep their order and limits |
| Display registration (`use-cases/displays`, `infrastructure/displays`, `redis/scripts.ts`) | attempts, code index, pairing codes, sessions, links in Redis; display and key rows | issue, rotate, close; session, register; link, claim; unregister | event stream of the attempt | a code typed while it is rotated; digits drawn twice; expiry between two calls | one open attempt; a code is spent once or taken back; the right attempt is told |
| Display runtime (`display-runtime` routes, heartbeat store, reconciler) | challenges, heartbeats (120 s key), status rows, snapshots | challenge, verify, heartbeat, reconcile every 30 s | manifest, events | a key that expires before the window it decides | a display is `DOWN` when and only when it has been silent |
| Emergency slots, runtime control, manifest (`get-display-manifest`, `emergency-slots`) | slots, one control row | set and clear slots, activate, deactivate, compute manifest | content, schedules, playlists | slot checked, then used; a manifest of up to seven reads; notices that are not kept | an announced change is shown once acted on, every change in the end |
| Authorization and its caches (`use-cases/rbac`, `cached-authorization.repo`, identity cache) | roles, grants; permission copies (60 s), identity copies (300 s) | set roles, set permissions, delete role, ban, delete user | every request | fill after invalidation; changes that do not invalidate | a copy is behind the tables for a named reason and not for ever; nobody becomes administrator on the way |
| Users, invitations, administrator and HTSHADOW (`use-cases/users`, `use-cases/auth`, `interfaces/http/startup`) | user, credential, invitation rows; a file of people | invite, accept, edit, ban, delete; make the administrator, follow the file | sessions, owned resources | several calls without a transaction; full-row writes; a watcher beside requests | decisions last; an accepted invitation is a usable account; the file is followed |
| Audit trail (`bootstrap/workers/audit`) | stream, dead letters, event rows | record, acknowledge, dead-letter | every request | record and acknowledge share one retry; a cap that takes undelivered entries; an export over rows that move | an accepted event is recorded but for named losses |
| Server cache and event bus (`infrastructure/redis`) | version counters, cached responses; publish and subscribe | get or compute, invalidate | all reads | invalidation that fails is only logged; routes that announce nothing | a response holds what was announced before it was asked for |
| Rate limits (`interfaces/http/security`, scripts) | counters per window | consume, register failure | login, uploads | window boundary | limits hold per window |
| Maintenance and start-up | timers | hourly clean-up of playlists, content, schedules, audit; permission sync | all of the above | one failure ends the round | only what is unused or finished is deleted |
| AI assistance | pending actions, conversations | tool loop, confirm | playlists, schedules | an external model | a pending action is executed once |

Validation, formatting, routing, logging, configuration and generated migrations
keep no state of their own; `PROJECT.json` lists them with the rest.

## 2. Modules

| Module | Models | Composed with |
|---|---|---|
| `JobDelivery` | abstract: what a queue of jobs promises | implemented by `IngestionQueue` |
| `IngestionQueue` | handlers that enqueue, stream, consumer group, worker loop, retries, dead letters | `INSTANCE JobDelivery` with a refinement mapping |
| `ContentFiles` | one content: row, objects, thumbnail; upload, replace, patch, delete; the worker's writes | takes the queue as a sequence of jobs (`IngestionQueue` has it in detail) |
| `AuthSessions` | one session: row, cached copy, refreshes, logout, login, password change, time | |
| `ScheduleWindows` | pure: dates and times of day, overlap, what plays when, what is finished | extended by `Schedules` |
| `Schedules` | schedules and playlists with their statuses; requests, sweeps, maintenance, time | extends `ScheduleWindows` |
| `DisplayRegistration` | attempts, codes, sessions, links, displays, keys, expiry | |
| `Playlists` | items of playlists, emergency slots and contents as used by both; the content clean-up | statuses of playlists are in `Schedules` |
| `Fleet` | the displays and the bounds that the next two share | extended by both |
| `Playback` | what a display fetches: emergency, slots, schedule, playlist; notices and the event stream | takes the windows of `Schedules` as due or not |
| `DisplayStatus` | status rows, heartbeats and their keys, the reconciler's passes | |
| `Accounts` | users, passwords, invitations, the administrator, the HTSHADOW file and its watcher | |
| `Permissions` | roles, holders, the three Redis entries of a user; the permission sync at the start | |
| `AuditTrail` | queue, capped stream, worker, dead letters, rows, export | |
| `ResponseCache` | `jsonWithServerCache` and `invalidateServerCache` for any routes | instantiated with `CachedRoutes` |
| `CachedRoutes` | pure: for each cached route and each write what it shows, changes and announces | |
| `MC*` | instances for TLC | |
| `*Proofs` | theorems and proofs | extend their module and `TLAPS`; `CacheProofs` is about `Permissions` and `ResponseCache`, `DisplayRuntimeProofs` about `Playback` and `DisplayStatus`, `ContentProofs` about `IngestionQueue` and `ContentFiles`, `RetentionProofs` about `AuditTrail` and `Playlists` |

Names of variables and operators follow the code. An operator named `X_Something`
is a faulty variant of `X`, a plausible slip in that code, and is used by no
specification: it is there to show that the property next to it in `PROJECT.json`
("mutants") would notice.

**IngestionQueue.** A job is an upload or a replacement request. `content` and `job`
are the two rows, `request` the handler's position, `log`, `pending` and `dropped` the
stream, the pending-entries list and what `MAXLEN` trimmed, `batch` and `worker` what
the worker has in memory. `Push` is one attempt of `enqueue` with the outcomes of
`retryWithBackoff`: refused, executed, or executed and reported as failed. The worker
actions follow `processEntry`: load, run, acknowledge, delete, retry in process,
dead-letter. `Faults` are the failures the environment may show, counted per kind.

**ContentFiles.** A file bears the name of the request that brought it; an object key
is its MIME type, so a replacement of the same type overwrites. The row keeps, for
each column derived from a file, which file it was derived from, so that "the row
tells the truth" is equality of names. Two history variables say how the requests met:
`alone`, no two were ever in progress at once, and `apart`, none but deletions were.

**AuthSessions.** A refresh token bears the name of the request that minted it.
`cache` is the Redis copy with its deadline; each request goes through the calls of
`RefreshSessionUseCase.execute` and of the cached repository in order. Time is a
counter, and a request takes at most `Patience`.

**ScheduleWindows, Schedules.** A date and a minute are numbers (the code compares
`YYYY-MM-DD` and `HH:MM` strings, whose order this is). `basis[s]` remembers the
rows that the writer of `s` had seen in its conflict check. Playlist statuses are
reconciled in the separate reads and the write the code makes.

**DisplayRegistration.** A code, an attempt, a session, a link and a display each
bear the name of the request that made them; digits may repeat. A Lua script is one
action, every other Redis or MySQL call too. A request that fails or dies is one that
takes no further step: nothing compensates but the deletion of a display whose key
could not be inserted, which is an action.

**Playlists.** An item is a number in the order of creation, a place in a list its
`sequence`. A request keeps in `task` what it has listed; `Stale(r)` says that this is
no longer what the table holds. `reorderItems` and `replaceItemsAtomic` are one step
each where the code has a transaction, and their two-phase renumbering is checked by
what comes out (`ListIsAsAsked`). `alone` says that no two processes were ever at work
at once, `strayed` which contents lost their items with a playlist, `breaks` counts failed
statements and crashes.

**Playback.** `fetch[d]` is the manifest a request of display `d` has put together so
far, `held[d]` what the display kept and the tag it was kept under. A notice goes to
`stream`, the displays connected at that moment, and stays in `told` until the client
fetches; the client itself is external and modelled from the API it uses.

**DisplayStatus.** `key[d]` counts down the 120 s of the heartbeat's key; `pass` is what
the reconciler has read and not yet written. The row's `lastSeenAt` is written by no
code, so the window of five minutes never decides: a display is `DOWN` two minutes after
its last heartbeat.

**Accounts.** `UserDbRepository.update` reads a row and writes all of its columns back;
`task[p].row` is that reading, and `overwritten` remembers whom it hit. The watcher may
start a pass while one runs; the overlapping passes are one here, which may be told of the
change meanwhile. `boot` is where the start of the API is.

**Permissions.** What a user may do is a function of `holders` and `grants`; each Redis
entry is that answer at the moment of some read. `excused` records why an entry may be
behind. Names of roles do not matter but for that of Admin, whose role cannot be deleted
or renamed; the route of role assignment passes no `callerUserId`, so that nobody can
assign Admin through it. Its permissions can be replaced, and the next start puts them
back.

**AuditTrail.** An entry is an event and the number of the attempt that pushed it; rows
are ordered by `occurredAt`, ties left out. `forsaken` are entries handed to a worker that
died or gave up, `trimmed` events of which the cap took an entry.

**ResponseCache, CachedRoutes.** The version counters of a route's domains are read
together and only grow, so their sum stands for the vector. A response is the number of
changes committed when it was computed. `SilentPairs` lists each write that changes what
a route shows and announces none of its domains; `SeesSettledWrites` finds any such pair
that is not listed.

## 3. How the code is read

* Every `await` of a call that reads or writes shared state ends a step. Code between
  two awaits is one step, since nothing preempts it. Calls in one transaction, one
  `MULTI` or one script are one step.
* An action is the whole of such a step: its guard is made of the conditions and
  early returns of the source, and what it leaves alone is `UNCHANGED`.
* Data is reduced to what the properties tell apart: a file is the request that
  brought it, a token the request that minted it, six digits are one of two values.
* Events to displays are in `Playback`, server-cache invalidations in `ResponseCache`
  and `CachedRoutes`; elsewhere both are published after the fact, ignored when they
  fail, and left out. Events to dashboards are left out, except the registration
  event, which a property is about.
* History variables (`home`, `retired`, `notices`, `basis`, `parent`, ...) record
  what happened for the properties and guard nothing.

## 4. What the runs check

There is one run for each component; every run explores its instance completely.

| Run | Instance | What it shows |
|---|---|---|
| `ingestion` | 2 requests for 1 content, 2 enqueue attempts, 2 deliveries, batches of 2, a stream of 1, any 2 failures of ten kinds; fair | `ImplementsDelivery` (refinement of `JobDelivery`), `UnfinishedJobIsCarried`, `RestingRowsAreTrue` (no content waits for a job that nobody runs, rows and jobs tell the same outcome), `JobsEnd` |
| `files` | upload, 2 replacements, patch and deletion: one at a time beside the worker, any 2 failures but late enqueues; or the deletion in the middle of the others, and 1 failure of any kind, or 2 of late enqueues and of the worker; 2 MIME types | `GhostsComeLate`, `ReadyIsTrue` (`ReadyDescribesFile`, `ThumbnailIsOfFile`), `NoOrphanFiles` |
| `schedules` | days of 3 minutes, 3 requests, maintenance and sweep; serial: 5 drafts that touch, overlap or not, 2 playlists, 5 minutes; race: two at a time, 2 drafts, 1 playlist, 3 minutes; fair | `SerialIsExact` (`FlashApart`, `DraftIsFree`, `SweepsFinished`); `OverlapsWereUnseen`, `ActiveIsPlayable` (`RowsHaveTargets`, `ActiveIsUnfinished`), `StatusesSettle` |
| `sessions` | 3 requests; serial: every kind one after another, one may die; race: refreshes and a password change two at a time, a Redis failure; 3 instants, or 5 for a revoked session and for refreshes without a fault | `NoFork`, `StaleServedBriefly` (`Revoked...`, `Replaced...`), `SerialTokenIsNoReplay` |
| `registration` | 4 requests, two at a time; 2 values of digits, 1 slug, 2 draws, 2 expiries, 1 failed key | `OneOpenAttempt`, `ShownCodeWorks`, `CodeEndsOnce`, `BindingIsOfTheCode`, `DisplaysAreSound` (`OneDisplayPerLink`, `CompletedSessionIsSpent`, `NoDisplayWithoutKey`) |
| `playlists` | 3 requests, two at a time, on a playlist of two items and one that can be created, the content clean-up, 1 failed statement or crash | `LimitsBreakFromStaleList`, `ListIsAsAsked`, `BookkeepingIsTrue` (`UsedIsNotAged`, `UnusedAges`, `NoEmptyPlaylist`) |
| `playback` | 1 display, 1 slot, 2 contents and a flash, 2 requests at a time, 2 changes, 1 failed read, closed stream or restart; fair | `AnnouncedIsSeen`, `KeptIsExact`, `Inv` (`EmptyEmergencyWasUndercut`), `InTheEndShown` |
| `status` | 1 display, a key of 2 minutes, a window of 5, 3 changes, 2 failures; fair | `DownOnlyInSilence`, `StatusFollows` |
| `accounts` | 2 requests, 3 names (one in HTSHADOW), 1 address, an account from before, 1 edit of the file, 1 failed statement or crash | `DecisionSticks`, `Inv` (`OneOpenInvitation`), `AcceptedCanSignIn`, `CaughtUp` |
| `permissions` | 2 users, 3 roles, 2 requests at a time, 1 failed command, lost request or restart | `BehindOnlyWhenExcused`, `OneAdministrator`, `NobodyIsMadeAdministrator` |
| `audit` | 2 events (one refused), a stream of 2, reads of 3, 2 at a time, pages of 1, 2 failures or crashes, 1 flush; fair | `Inv` (`AcceptedIsKept`, `TwiceOnlyInDoubt`), `ExportIsExact`, `InTheEndRecorded` |
| `cache` | each cached route against each write: 1 request and 1 write, for `GetContents` and `GetPlaylist` a second request or a second write beside them; increments lost or late | `SeesSettledWrites`, `OwnScope` |

The type invariants are proved (section 6); in `ContentFiles`, `Playlists`, `Accounts`,
`Playback` and `AuditTrail` they are a part of an invariant that the run checks. The comment
before each property
says what it means and which behaviour of the code it is about. Some name the case in
which the code does not keep the plain statement (`Spared({"rows"})`, `apart`,
`excused`, `undercut`, `Stale`, `forsaken`): these cases are section 7 and the hazards in
`PROJECT.json`.

`schedules` and `sessions` have two **scenarios**, chosen in the initial state of the `MC`
module: `"serial"`, one request at a time with all of its operations and failures, and
`"race"`, requests side by side with fewer of them. Properties named `Serial...` speak of
the first only, since side by side the code does not keep them; the others hold in both.
In `files` and `playlists` such a property asks for `alone` or `apart` instead, a condition
on what happened that any behaviour may meet or not, so that it can be proved of the
specification itself.

**Bounds.** They are constants, tested in guards, or conditions of the `MC` modules.

* `MaxOverlap`: processes at work at once. Two suffice for every check-then-act race,
  which needs one writer between another's read and write; the file races are run
  with three.
* `MaxFaults`, `MaxFailures`, `MaxBreaks`: a violation that needs more failures in one
  behaviour than the table says is not excluded by the runs. The theorems hold for any
  number, and every safety property is stated by one: only liveness rests on these bounds.
* `Requests`, `Jobs`: each is served once. Two jobs fill a batch and, with a stream
  of one, overflow it; three requests on a session make the chain "rotate, replay,
  rotate again"; four registrations make an attempt that is replaced, a session and
  two registrations with it.
* `KindsOf` of `registration` fixes which request may do what, so that each property's
  cast (two issues and a rotation; link and two claims; issue, session, two
  registrations) is there without all four free. Owners and machines have one value:
  the scripts compare owners only with the attempt's. With one machine two displays
  are never there at once; what matters for the properties is whether the second
  request gets past the check, which is seen before it.
* `MaxTime`, `MaxLapses`: time. Days of three minutes leave windows that end before
  they start, wrap past midnight, touch or coincide; `SchedulesProofs` lifts the
  overlap test to days of any length.
* One display in `playback` and `status`: displays share nothing there but the slots and the
  reconciler's pass, and what a pass over several can do to one of them is to fail before
  it comes to it (`FailPass`).
* `MaxChanges`: a change begun during a fetch, and another after it that is announced or
  not, is what `AnnouncedIsSeen` and `InTheEndShown` need.
* Deadlock is not checked where requests are served once and the system then rests.

## 5. Fairness

* `IngestionQueue!FairSpec`: weak fairness of each request in progress and of the
  worker. A handler is an asynchronous function that the event loop resumes when the
  awaited call settles, and every call has a timeout; the worker loop of
  `content-ingestion/index.ts` catches what it throws and goes on. Crashes are counted
  failures, after which the process is restarted. `JobsEnd` exempts entries stranded
  in the pending list, which the worker never claims.
* `Schedules!Fairness`: weak fairness of requests once begun, of the sweep and of the
  maintenance, both driven by timers that are set again whatever the round did. Nothing
  is assumed of the arrival of requests.
* `Playback!Fairness` (`InTheEndShown`): requests in progress, the fetches of a display that was
  told, its reconnection and its heartbeats. The last three are the client's: the property
  is about displays that are switched on.
* `DisplayStatus!StatusFairness` (`StatusFollows`): heartbeat requests in progress, the passes of
  the reconciler, whose timer is set again after a pass that fails, and the clock.
  Displays need not send heartbeats: the property says what follows when they do and when
  they do not.
* `AuditTrail!Fairness` (`InTheEndRecorded`): pushes in progress and the worker, which its
  service manager starts again.
* `ResponseCache` and `Permissions` promise nothing in time: what is stale in a cache is so until
  its entry expires, which the run lets happen or not.

## 6. What is proved

All theorems are proved for every value of the constants that the module's `ASSUME`
allows; TLC evaluates these assumptions on every run.

* **ContentProofs.** Of `IngestionQueue`: `TypeCorrect`, `Carried` (`UnfinishedJobIsCarried`),
  `AcknowledgedLate` (`AckAfterOutcome`), `RestingTrue` (`RestingRowsAreTrue`) and
  `Refinement` (`ImplementsDelivery`).
  `UnfinishedJobIsCarried` is not inductive: whether an entry is still somewhere
  depends on where the worker stands with it. `IInv` adds: entries in stream, pending
  list and trimmed set are of attempts made and disjoint (`PushesInv`, `PushedInv`,
  `PlacesInv`); run counters are bounded and zero for what nobody was handed
  (`RunsInv`); what the worker holds is a batch without repetition, pending unless it
  was acknowledged (`HeldInv`); past the run the job is over (`OverInv`). Each action has a
  lemma `...Inv`; the worker's actions share `HandledInv`, since all of them either
  keep or drop the current entry. `RestInv` says on the way what `RestingRowsAreTrue` says
  at rest: which rows are there (`RowsInv`), for whom a content is `PROCESSING`
  (`ProcessingInv`) and what a row says of a job that is over (`OutcomeInv`). The
  refinement maps the place of each entry to an abstract state and each step to a step of
  `JobDelivery` or a stutter (`PushMaps`, `ReadMaps`, `EntryMaps`, `CrashMaps`).
  Of `ContentFiles`: `GhostsComeLateAlways` (`GhostsComeLate`), `ReadyIsTrueAlways`
  (`ReadyIsTrue`) and `NoOrphansAlways` (`NoOrphanFiles`). The invariant is a stack of four,
  each true under less than the one before (`FilesInv`). What requests and worker hold is
  of its type, always (`FilesBase`). While writers stayed apart and no enqueue was late,
  there is at most one job, beside no request that writes (`OneJob`); a request that writes
  owns the row until its job is queued (`WritersOwnRow`); and what the worker has read is
  of the row it works for (`WorkerKnowsRow`): together these make a `READY` row's file be
  there (`RowIsTrue`). When besides no call failed after which the code leaves things as
  they are, all columns are of one file (`RowDescribes`); and when the requests were alone,
  each key in storage is the row's or about to be written or erased (`NothingLeft`). The
  condition `apart` came out of the attempt to prove these: two replacements at once do
  break them (section 7).
* **AuthSessionsProofs.** `TypeCorrect`, `RotatedOnce` (`NoFork`), `RevokedBound`,
  `ReplacedBound`, together `StaleBound` (`StaleServedBriefly`): a refresh token is
  exchanged at most once and a revoked or replaced one is served for a bounded time, for
  any number of concurrent requests, any lifetimes and with Redis failing at will. `IInv`
  relates tokens to the row (who minted what, `TokenInv`), open requests to the clock
  (`TimeInv`, `SessionsInv`) and every copy of the row, cached or in a request's hands, to
  when it was read, revoked or superseded (`RevokedInv`, `ReplacedInv`, `CacheInv`).
  `SerialNoReplay` (`SerialTokenIsNoReplay`), one request at a time: what is read
  and what is cached name the row's token, once a client has it (`SerialInv`).
* **SchedulesProofs.** `OverlapMeansSharedInstant`: the overlap test of the code,
  piecewise and half-open, is true exactly when two windows claim a common minute of a
  common date; `OverlapIsSymmetric`. `TypeCorrect`; `AdmittedUnseen`
  (`OverlapsWereUnseen`): flash schedules that overlap were admitted by writers that had
  not seen each other, so the check itself is complete; `TargetsStay` (`RowsHaveTargets`);
  `PlayingIsPlayable` (`ActiveIsPlayable`), which `WindowsInv` carries: no window, and no
  draft past its validation, ends before it starts. `OneAtATimeIsExact` (`SerialIsExact`),
  for one process at a time: rows do not overlap (`ApartInv`), a draft that a schedule is
  yet to play is about to be seen to (`DraftInv`), only drafts have an unused-since date
  (`UnusedInv`), and what the one process has read is still so (`SoundInv`).
* **DisplayRegistrationProofs.** `RegistrationTypes`, `RegistrationOneOpenAttempt`,
  `RegistrationCodeEndsOnce` (`CodeEndsOnce`), `RegistrationBinding`
  (`BindingIsOfTheCode`), `RegistrationDisplays` (`DisplaysAreSound`) and
  `RegistrationShownCode` (`ShownCodeWorks`). `CodeEndsOnce` speaks of sessions and of
  codes handed out, but what keeps them apart is where a code is before that. `PlaceInv`
  says it: a code is shown by the attempt that took it, or was handed out by a script, or
  is in the hands of one device request, or is that of a session, and never in two of
  these (`ShownInv`, `ConsumedInv`, `RetiredInv`, `SessionInv`). `TaskInv` says what a
  request carries at each step, `IssuedInv` that a code others can find is never withdrawn.
  Most steps bring no code to a new place and share `QuietStep` and `QuietTime`; the
  three scripts share `ScriptStep`; the consumption of a code, the writing of a session
  and its binding have a lemma each. Two invariants rest on these. `SoundInv` follows
  links, sessions and keys: what a request presents was answered (`TokenInv`), one claim
  is past each link (`ClaimInv`), a display has its key or is in the hands of the request
  that will delete it (`DisplayInv`). `CodeInv` follows the keys of a code in Redis: who
  draws which digits (`DigitsInv`), who has what in hand (`HandsInv`), and that lookup key
  and index are the code's own from when they are set until it is spent, taken back or
  given up, unless an expired code reads the same (`ExpiredInv`, `LookupInv`, `IndexInv`).
* **AccountsProofs.** `RowsAgree` (`Inv`), `BansStick` (`DecisionSticks`),
  `AcceptedHavePasswords` (`AcceptedCanSignIn`) and `WatcherCatchesUp` (`CaughtUp`), for any
  number of requests, accounts and edits, where at least one account can be made.
  `TypeInv` is what the tables, the requests and the start of the API hold, step by step.
  On it rest four invariants, each about what is known between a read and the write after
  it: a row about to be written back is the row that is there, unless somebody was
  overwritten (`SaveInv`); no invitation is open for an address about to be invited, unless
  two were at it (`ClearedInv`); an account that is being enrolled has the name it was
  enrolled under, then its password (`EnrolledInv`); what the watcher has yet to add is
  all that is missing (`WatchInv`).
* **DisplayRuntimeProofs.** Of `Playback`: `EmergencyHasSomething` (`Inv`),
  `AnnouncedReachesDisplays` (`AnnouncedIsSeen`), `KeptIsTheAnswer` (`KeptIsExact`).
  `ReliedInv`: what a request has found playable in a slot is so until it activates it, or
  the slot was undercut. `SeenInv` is the half way to `AnnouncedIsSeen`: whatever a display
  without a notice to act on has read so far of its manifest is still so, because whoever
  changed it has a notice to send (`Owing`).
  Of `DisplayStatus`: `StatusTypeCorrect`; `DownInSilence` (`DownOnlyInSilence`), where a
  key lives no longer than the window (120 seconds and five minutes in the code), from
  `PassInv`: a display that a pass has yet to write and found no key of is still silent,
  or was heard since.
* **CacheProofs.** Of `Permissions`: `TypeCorrect`; `NobodyMade`
  (`NobodyIsMadeAdministrator`) from `HoldInv`: no role that an assignment in progress has
  vetted grants the administrator's permission when it writes; `OneAdmin`
  (`OneAdministrator`), if one user at most holds the Admin role at first, from `OneInv`
  and the stages of a start (`BootInv`); `BehindForAReason` (`BehindOnlyWhenExcused`), by
  accounting for each cache entry apart (`Accounted`).
  Of `ResponseCache`: `CacheTypeCorrect`; `ReadsYourWrites` (`SeesSettledWrites`), from
  `SilentIsComplete`: every write that changes what a route shows announces one of its
  domains or is listed as silent; `OwnScopeHolds` (`OwnScope`), from `ScopedVaries`: a
  handler that filters by its caller has the caller in its key. Both hypotheses are about
  the tables of routes only, and the `cache` run, which goes over all of `CachedRoutes`,
  would show a pair that breaks the first. The invariant says that what is stored under
  a version was computed no earlier than the last change announced by that version.
* **RetentionProofs.** Of `AuditTrail`: `TrailIsKept` (`Inv`) and `ExportsAreExact`
  (`ExportIsExact`). What carries the first is where an entry can be: the entries handed out are the beginning of
  the stream, so that what is read is new (`PlacesInv`); while an entry is pending it is
  worked on, waits in the batch or is forsaken (`HeldInv`); it is acknowledged and deleted
  only after its event has a row or a dead letter (`KeptInv`); and an event without a
  doubtful call has one entry, with which the worker is through by the time there is
  something to show for it (`DoubtInv`). The steps of the work on an entry share `Worked`.
  `ExportInv`: the pages read so far are the newest rows, while nothing moved. The module
  begins with what splitting, extending and deleting from a sequence do to its elements.
  Of `Playlists`: `BookkeepingIsAlwaysTrue` (`BookkeepingIsTrue`),
  `LimitsAlwaysBreakFromStaleList` (`LimitsBreakFromStaleList`) and `ListIsAlwaysAsAsked`
  (`ListIsAsAsked`), for any playlists, contents, slots, requests and lengths of lists.
  `PlaylistsInv` has three layers. `PlaylistsBase`, always: what a process holds at each of
  its steps fits the tables, whatever others did since it read (`TasksHold`), and what it
  decided by was as the handler's checks want it (`ListsHold`). `UsedIsMarked`, while
  nothing broke: a content in use that may age is about to be marked by somebody, which is
  why the mark comes after the insertion. `AloneInv`, while besides processes came one at a
  time: what a process has read is what there is (`Exact`), an unused content that does not
  age is about to be refreshed (`UnusedFades`), an empty playlist is being created
  (`EmptyIsNew`). Every action has a lemma for each layer: `...Step`, `...Used`, `...Alone`.
  The actions on items share `SetRows`: whatever is written, one playlist is given other
  rows, whose places differ.
  The two action properties need what folds and choices yield. A total is the fold of a
  set: `SumIs` shows that it is what any function with the fold's step yields, `SumWithout`
  that an element may be taken out anywhere, `SumImage` that a renaming of the elements
  leaves it. `ListIs`: rows whose places are 1 to n have one list in order. Both would be
  inductions; they are made by a set without a smaller one instead (`SmallestSet`), since the
  library's induction theorems cannot be applied here.

The proofs use SMT and Zenon, and LS4 for the temporal step
`Init => IInv`, `IInv /\ [Next]_vars => IInv'` |- `Spec => []IInv`.

**Only model-checked:** liveness (`JobsEnd`, `StatusesSettle`, `InTheEndShown`,
`StatusFollows`, `InTheEndRecorded`), which is out of the prover's reach. Every other property
of the runs is stated by a theorem. **Only proved:** `AckAfterOutcome` (an entry is
acknowledged only when its job is over) and the type invariants that no run checks.

## 7. Where the code and its documents disagree

Met while modelling; each is a case that a property above has to leave out.

* A late enqueue. The upload's catch block deletes the stored file whenever `enqueue`
  threw, although a timed-out `XADD` may have queued the job; the worker can then make
  the row `READY` while its file is gone. `delete-content` calls such ghosts the
  unrecoverable case.
* Writers of one content that overlap. Two replacements both find the content at rest; when
  the one has a file of the type the content had, the other's deletion of the old file takes
  it, and the row becomes `READY` without a file. A patch likewise writes back a row it read
  before. `GhostsComeLate` says that a late enqueue and this are the only ways.
* Two creations at once both pass the conflict check, and two flash schedules of one
  display overlap, which `windowsConflict` says cannot be; `OverlapsWereUnseen` says that
  this is the only way. Overlap is half-open but a schedule still plays in its end minute,
  so two flash schedules that touch are both active then.
* A session revoked by a password change is served from the cache for up to sixty
  seconds (and the requests in progress); the comment in `cached-auth-session.repo.ts`
  speaks of fifteen.
* The administrator's creation is wrapped in a transaction that its statements do not
  use: a crash between them leaves an administrator without a password, or an account that
  later starts do not complete. `PurgeAdmins` without a holder stops the start.
* The five-minute window of a display's status: see `DisplayStatus` in section 2.
* Two at a time, a deletion of schedules removes what an update has made playable again
  since they were listed, and a deletion of a content inside its upload leaves the file
  behind (`SerialIsExact`, `NoOrphanFiles`).
* `SilentPairs`: routes whose cached answers go on showing what a write has changed, until
  they expire: a slot's content, the use of a content, owners' names, what was deleted
  with a user, and everything the assistant does.

## 8. What is not modelled, and the plan

Every component that keeps state has a module, except those below. Inside them, what is left
out is in the notes of `PROJECT.json`; the larger parts are:

* rate and login limits: fixed windows, each counted by one script; there is no
  interleaving to explore;
* the device's authentication challenge, display groups and the details of displays: single
  statements without a race that a property is about;
* text and flash content, which have no file, and the PDF crop flow;
* a Redis restart that loses versions and caches together;
* the AI tool loop (its behaviour is that of an external model; its writes are the routes'
  writes, which `CachedRoutes` has as silent);
* validation, formatting and HTTP plumbing (no state); PDF rendering and media probing
  (external programs, which succeed or throw here); migrations (generated); the one-off
  scripts under `src/scripts`.

What could come next: a refinement of `JobDelivery` by `AuditTrail`, whose stream is a second
implementation of it; two displays and two slots in `playback`; one module of sums and lists
for `Playlists` and `Schedules`, if more is to be proved about either.
