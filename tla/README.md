# A TLA+ verification of veditor

veditor takes the recordings of conference talks, finds where each talk lies in
its recording, lets a reviewer set cut bounds and approve a preview, and
publishes the finished video. A FastAPI application answers requests, a Postgres
database holds the rows, a storage backend (a directory tree per talk) holds the
files, and RQ workers take background jobs from two Redis queues.

The modules here model the path of one talk through that machinery, a recording shared by
the talks of a room, the schedule, accounts and access, API clients and their webhooks, and
the retention of published videos. TLC checks them, and TLAPS proves most of it. This file lists the parts of the system,
says which module models which part and how, and what the runs and the
theorems show.

## 1. The system

| Component | Code | State | Operations |
|---|---|---|---|
| Talk state machine | `app/consts.py`, `app/states.py` | `Talk.status` | `advance()` along `TRANSITIONS` |
| Pipeline jobs | `app/tasks.py` | the talk's columns, its `Job` rows, its files | ten `job_*` functions, `dispatch_assembly`, `_handle_failure` |
| Work-flow requests | `app/routes/talks.py`, `app/routes/reviews.py`, `app/review_handlers.py` | the same, `Review`, `ApprovedCut` | upload, ingest, approve, hand-off, configure assembly, cut bounds, review, abort |
| Queues and workers | `app/queue.py`, `scripts/run_worker.py`, `docker-compose.yml` | Redis lists and registries | enqueue, dequeue, cancel, stop |
| Room recordings | `app/routes/talks.py` (`attach_room_recording`), `app/tasks.py` (`job_ingest_room_url`) | several talks at once | one recording of a room attached to all its talks |
| Storage | `app/storage.py`, `app/ingest.py` | files under `<talk>/raw`, `cut`, `preview`, `assemble`, `loudness`, `final`, `intro`, `outro` | put, list, delete, clean-ups, staging |
| Retention | `app/retention.py` | `final_cleaned_at` | a periodic sweep of old final videos |
| Webhooks | `app/webhook.py`, `job_deliver_webhook` | attempts per event | delivery with one retry |
| Accounts | `app/auth.py`, `app/security.py`, `app/routes/auth.py`, `app/routes/admin.py`, `app/cli.py` | users, roles, sessions, tokens, rate limits | sign-up, login, reset, verification, promotion |
| Events, rooms, API keys | `app/routes/events.py`, `app/routes/client.py` | rooms, endpoints, keys | create, rename, delete, revoke |
| Schedule import and administration | `app/routes/talks.py` | talks of an event | import, update, delete |
| Access control | `app/auth.py` | roles and memberships | checks before a handler |
| Media processing | `app/pipeline/` | one file | ffmpeg and PyAV calls |
| Pages, mail, configuration, schema | the rest of `app/` | none of its own | presentation and declarations |

How they meet. A request writes the talk's row and then enqueues a job. A job
writes the row, works on files for minutes, writes the row again and then enqueues
the next job. Nothing spans the row, the files and Redis: each of these steps is
separate, and any other actor may come in between. The handlers that review or cut
lock the row (`with_for_update`); `ingest_recording`, `attach_room_recording`
and `abort_talk` do not, so they write over what they read minutes earlier.

What makes it correct, and is hard to test: that what is published is what was
approved, although an abort may leave jobs running and files behind; that two uploads of one
talk do not both drive it; that a talk being processed always has exactly one
thing working on it; that a stage whose successor was never enqueued does not go unseen;
that the status follows its table although much code assigns it directly; that a link works
once, a token ends with its account, an administrator remains and an event has one key, although
handlers read rows, decide, and write them later; that a video is removed when its time is up and
not before. The
full list, line by line, is under `hazards` in `PROJECT.json`.

## 2. The modules

| Module | What it is |
|---|---|
| `TalkStates` | the statuses, `TRANSITIONS`, `advance()`'s test, what `_handle_failure` exempts |
| `TalkLifecycle` | abstract specification: a talk's status as `app/states.py` promises it |
| `Pipeline` | the detailed specification: one talk, its files, jobs, requests, queues and workers |
| `PipelineProperties` | the properties of `Pipeline`, and the refinement of `TalkLifecycle` |
| `MCPipeline` | constants for TLC |
| `PipelineProofs` | TLAPS: types, the life cycle and its refinement, the inertness of deleted jobs, the queues |
| `ReviewProofs` | TLAPS: extends `PipelineProofs`; who works on a talk, and that what is published is what was reviewed |
| `ScheduleProofs` | TLAPS: lemmas about each handler of `Schedule`, types and registered rooms |
| `RoomProofs` | TLAPS: extends `ScheduleProofs`; every property of `RoomRecording` but the liveness |
| `AccountProofs`, `AccessProofs` | TLAPS: every property of `Accounts`; in the second, those that compare decisions on access |
| `ApiClientProofs`, `RetentionProofs` | TLAPS: every property of `ApiClients`; of `Retention`, all but the liveness |
| `Schedule` | the rooms and talks of one event, and the handlers that edit, import and delete them |
| `RoomRecording` | extends `Schedule`: a recording of a room attached to its talks, with the jobs that follow and the aborts and deletions that interfere |
| `Access` | credentials, callers, and what they may open |
| `StudioAccess` | extends `Access`: what the pages of the studio open and list |
| `Accounts` | extends `Access`: users, links, tokens, mails and roles |
| `ApiClients` | API keys, webhooks of events and clients, delivery of notices |
| `Retention` | the sweep that removes videos of published talks |
| `RoomProperties`, `AccountProperties`, `ApiClientProperties`, `RetentionProperties` | their properties |
| `MCRooms`, `MCAccounts`, `MCApiClients`, `MCRetention` | constants for TLC |

`Pipeline` follows one talk to the end; `RoomRecording` follows several talks as far as the end of
their detection. Both model `attach_room_recording`, `job_detect` and `abort_talk`, each
with the detail its questions need: `Pipeline` the late stop of a running job and half-failed
cancellations, `RoomRecording` the matching of talks, backups and the whole room's job.

### State of `Pipeline`

| Variable | In the code |
|---|---|
| `talk` | the `Talk` row: `status`, `detected` (`raw_duration_seconds`, as the recording it was measured on), `bounds` (`cut_start`, `cut_end`), `intro`, `outro` (`include_*`, `*_source`) |
| `slateRows` | `Job` rows of kind intro or outro with status done, whose run is over; `dispatch_assembly` looks for them |
| `approved` | the bounds of the newest `ApprovedCut` row |
| `reviewed` | history variable: the contents of `preview.mp4` at the last approval; the program has no such variable |
| `raw` | what is stored under each key of `raw/` |
| `media` | what is stored as cut, preview, assembled, levelled and final video |
| `clip` | the slate stored under `intro/` and `outro/` |
| `run` | one record per slot: an RQ job or an HTTP request in progress |
| `queue` | the light and the heavy Redis list |

A video is modelled by what it shows: which recording, which bounds, which slates
(`Content`). That is what the properties can tell apart.

A slot's `phase` is the point at which it can be interrupted:

    job      queued -> started -> stored -> committed -> (successor queued | free)
                          any of these -> failing (-> rolledback) -> free
    request  reading -> staged -> sending -> free     (handlers without a lock)
                                  sending -> free     (handlers with one)

`JobStart` is a job's first session and the reading of its inputs, `JobStore` its
output put in storage, `JobCommit` its second session, `JobNext` the enqueueing of
its successor, `JobFailure` the `except` branch. Each is a disjunction with one
action per `job_*` function. `Asks` holds the requests up to their commit or first
slow step, `Sends` what follows the commit, `Unlocked` the later steps of the three
handlers that do not lock the row. `Killed` is a work-horse obeying a stop
command, `Crashes` the death of a process.

### Decisions worth knowing

* **A second session is one step.** It reads the row without a lock and commits
  a few statements later. Against another job this is harmless, since the status
  lets one job at a time in. Against an abort it is exact: both write the
  job's row, one waits for the other, and an `UPDATE` of a row that the abort has
  deleted raises, after which `_handle_failure` finds no row and does nothing, which
  is `Rejected`. (The two may also deadlock in Postgres, which then fails one
  of them; that failure is not modelled.)
* **`Flush`.** SQLAlchemy writes only the columns whose value differs from the one
  loaded. An unlocked handler that "resets" a column to the value it read
  writes nothing. `Flush(loaded, new)` says so column by column, and finding
  `AbortWaiting` rests on it.
* **A stop command.** `send_stop_job_command` returns before the job dies. With
  the fault `late` the job may take further steps first; without it the
  job takes none and only `Killed` remains for it.
* **Queues are first in, first out** and a worker takes the head of its queue. The
  jobs of other talks only delay, and are left out.
* **A failed dispatch** in `handle_approve` breaks the talk in the same step as
  the refusal by Redis; `SubmitCutSends` and `IngestRecordingSends` leave it as committed,
  as the code does.
* **`needs_work` is never entered.** `TRANSITIONS` has the status and
  `submit_cut_bounds` accepts it, but `handle_needs_work` advances to
  `pending_bounds`. It is kept in the table and in the guard.
* **Left out**: logs, waveform side-cars, webhooks, mails, `Review` rows and the
  backups of a room upload that fails; none of them is read back by a step modelled here.
* The definitions introduced by the comment "Faulty:" are the mutants listed in `PROJECT.json`;
  no action uses them.

### State of `RoomRecording` and `Schedule`

| Variable | In the code |
|---|---|
| `event`, `rooms`, `talk` | the row of the event, its `rooms` by name, its `Talk` rows: `title`, `external_id`, `start` (`slot`), `room` |
| `edit` | what each request of the schedule has read and is about to write |
| `work` | the columns of the same `Talk` rows that the pipeline writes: `status`, `raw_duration_seconds` (`detected`), `cut_start`, `cut_end`, each by itself |
| `raw`, `spare` | `<talk>/raw/raw.mp4` and the backup beside it |
| `jobs` | `job_ingest_room_url` and `job_detect` in RQ; `row` is the `Job` row of the running detection |
| `attach`, `abort` | the request to attach a recording, the request to abort a talk |

* A talk names its room by text. `create_or_update_talk` and `update_talk` read the talk first and
  lock the row of the event in `_ensure_event_room` later: two actions. `import_schedule` and the
  handlers of rooms take the lock first and are one action each. Deletions keep two: files and jobs go
  first, rows at the end; `delete_event` holds the lock meanwhile (`EventLocked`).
* `create_or_update_talk` that runs into a talk of the same key takes more steps: the INSERT fails and
  rolls back (`CreateTalkConflicts`), the talk is looked up again (`CreateTalkFinds`), and then it goes on as if it had found it at first,
  waiting for the lock once more. In between, the talk may go (`CreateTalkFails`).
* `abort_talk` takes three: `AbortReads` (no lock), `AbortCancels` and `AbortResets`. A detection that fails
  (`DetectFails`, which is `_handle_failure`) looks for its `Job` row first, and leaves the talk alone if an abort has deleted it.
* `ImportSchedule` follows the order of flushes, because the lookups of later entries see what earlier
  ones have flushed and a unique constraint may fail in between.
* Time is counted in units in which a talk lasts `Lasts`. Bounds are offsets into the recording.
* `orphaned` is a history variable: talks whose job was cancelled, killed or lost.
* So is `mixed`: talks whose row, after a commit, is not the row the handler meant to write. SQLAlchemy sends only the columns
  with a net change (`FlushRow`), so a handler that read the row before somebody else's commit can leave
  a row of which some columns are its own and some are not. A deleted talk leaves the set.

### State of `Accounts`, `Access` and `StudioAccess`

| Variable | In the code |
|---|---|
| `user` | the `User` rows: `role`, `is_active`, `is_verified`, `organizer_requested`, and which password (`hashed_password`) |
| `tokens` | session and access tokens issued: for whom, with the role and the password fingerprint of that moment, and for which proof |
| `mail`, `links` | mail jobs in RQ, links that were mailed |
| `keys` | the cool-down keys in Redis |
| `req` | what each request in flight has read |

* `VerifyEmailSubmit`, `ResetPasswordSubmit` and `RequestOrganizer` are an `UPDATE ... WHERE`, hence atomic and
  decided on the current row. `ChangeLocks` is `SELECT ... FOR UPDATE` over the active administrators;
  a row that is none is not locked. `SyncSpeakerRole`, `OpensTalk` and `ChangeWrites` write what they decided
  on the row as read.
* Session tokens made before fingerprints existed are left out; so are wrong passwords and their
  rate limit. A request is taken to last less than the cool-down of a minute.
* `Access` answers who is calling and what may be opened, for the API; `StudioAccess` does so for pages. Neither has
  variables: the tables are parameters.

### State of `ApiClients`

`client` are the `Client` rows (`event_ids`, `is_platform`, `webhook_url`, `webhook_secret`), `events` the events that
exist, `req` what each request has loaded, `jobs` the deliveries in RQ. `got`, `lost`, `failed` and `escaped` are history and
say what came of each attempt, as the `except` clause of the loop tells them apart:

| Attempt | In the code | Received? | Again? |
|---|---|---|---|
| `Delivers` | 2xx | yes | no |
| `NoConnection` | `URLError` before the request is sent, a timeout of the connection included | no (`failed`) | once |
| `NotAccepted` | another status (`HTTPError`), a connection closed without an answer | yes (`lost`) | once |
| `TimesOut` | `TimeoutError` of `getresponse`, which the loop does not catch | perhaps (`escaped`) | no |
| `Dies` | the death of the worker | perhaps (`escaped`) | no |

`MachineCreatesReads` and `MachineCreatesWrites` stand for `create_event`, called with any key (the platform's too), and for the same code in
`import_schedule`. `overtaken` is history: events whose keys changed behind the back
of a request, or that got a key from the command line. No handler locks a row; `event_ids` is one column, so a
commit replaces the list that was loaded. `delete_event` is in `Schedule`: it leaves the clients' lists alone.

### State of `Retention`

`talk` has `status`, the days since `updated_at`, and whether `final_cleaned_at` is set; `final` says which rendering is under
`final/`; `overrides` is the event's `final_retention_days`; `sweep` is what a sweep has read, has still to visit and has marked
without commit; `job` is the periodic RQ job. A marked row stays locked until the sweep commits
(`Locked`). The way to publication is cut down to `Renders`, `PublishReads` and `PublishCommits`.

### Constants of `Pipeline`

`Runs` are slots for jobs and requests; a job's successor takes over its slot.
`Fits[c]` are the bounds within the duration of recording `c`. `RawKeys` are the names
under `raw/` in the order `list_keys` sorts them, `UploadKey` being `raw/raw.mp4`.
`Entries` names the requests the environment makes, `Faults` what may go wrong (`work`: a
media tool fails; `enqueue`: Redis refuses a job; `crash`; `cancel`: some cancellations
fail; `late`). `Overlap` says whether a request may begin while another is in
progress. The theorems hold for all of them.

## 3. The runs

The first two groups of runs bound the slots, recordings and bounds; nothing else grows without
bound. The others bound the number of requests too (`MaxEdits`, `MaxAttach`, `MaxRequests`, `MaxOccasions`,
`MaxChanges`), and what counts up: `MaxPw`, `MaxNotices`, `MaxAge`, `MaxRenderings`, `MaxFaults`.
`CHECK_DEADLOCK FALSE` appears where the system may
rest: it waits for people, and a done or broken talk that nobody aborts stays as it is. `Retention`, whose periodic
job never rests, is checked for deadlock.

| Run | Question | Instance | Distinct states |
|---|---|---|---|
| `Review` | Is what is published what was approved, with its slates, and does work end? | 3 slots, 2 recordings (one too short for one of 2 cuts), all slates, uploads, rounds of review, failing work, 2 light and 1 heavy worker, fair | 37,403 |
| `Abort` | Does anything an abort leaves behind move, strand or publish the next attempt? | 3 slots, 2 recordings, 2 cuts, aborts at every point, 2+2 workers | 174,498 |
| `Faults` | Do the life cycle, the queue and the inertness of deleted jobs survive every fault? | 2 slots, all unlocked requests, all five faults, 1+1 workers | 191,174 |
| `Rooms` | Does every talk that waits for detection have somebody working on it, get bounds within its recording and keep its files? | 3 talks in 3 slots, 3 spellings of 2 room names, 2 recordings (one ends in the middle of a talk), by file and by URL, 3 jobs, 1 attach, 2 other requests, four faults, fair | 247,534 |
| `Accounts` | Do links work once, does an administrator remain, do tokens follow the account, do the three places that decide on access agree? | 3 users (administrator, plain user who is a speaker, nobody yet), 2 events, 3 talks, 2 requests in flight, 4 in all, 2 passwords | 273,225 |
| `ApiClients` | Does an event have one key, are events that share a client kept apart, do notices arrive? | 3 events, 4 client rows (one with two events, one of the platform), 2 requests in flight, 3 in all, 1 notice, refused enqueues, timeouts and dying workers | 437,684 |
| `Retention` | Is no video lost before its time, and none kept for ever? | 2 talks, 2 sweeps, windows of 0 and 1 days and none, 2 renderings, 1 abort, deletion or change of policy, 2 failures, 1 retry, fair | 568,194 |
| `AbortWaiting` | Does an abort reset the status? | violated, see section 6 | |
| `LateStop` | Does an abort leave no job in Redis and no file in storage? | violated | |
| `RejectedSlate` | Are the slates there when concat is enqueued? | violated | |
| `KeyRace` | Does no request leave an event with two keys? | violated | |
| `Sweeps` | Does a sweep take up all expired publications, and delete no other video? | violated | |

Four more configurations, of the same kind as the last five, are not among the runs: `TwoRecordings`, `OverlappingIngest`
(of `MCPipeline`), `WebhookTimeout` (of `MCApiClients`) and `LostPromotion` (of `MCAccounts`). TLC refutes the property of each of them
within seconds; section 6 says what each shows.

Why these bounds are enough. Two recordings and two cuts are what it takes to
tell "the approved one" from "another one". With three slots, two uploads can
compete while a request is in progress, or a leftover job can run beside the new
attempt's job and an abort. One light worker is what `docker-compose.yml`
starts; two make the claims in `job_ingest` compete. `Overlap` is `FALSE` in all
passing runs: requests overlap with jobs, not with one another. What requests do to one
another shows in `OverlappingIngest`; the theorems of section 4 admit it; and `Faults.cfg` with
`Overlap = TRUE` and without `ImplementsLifecycle`, which then fails as in that run, has 2.1
million states and no violation. The other properties do need the restriction: an abort that
hangs while people review, or a clean-up that is overtaken by the next cut, breaks
`NeverStranded` and `PreviewIsCurrent`. Slots are interchangeable (no property and no `CHOOSE`
names one), so the safety runs use symmetry; `Review`, which checks a liveness
property, does not.

For `Rooms`: a recording that ends within a talk is what makes clipping matter; two talks share the
room so that one attach serves both, and a third key lets a talk be created, imported or moved
meanwhile. One attach and two other requests is what fits a run; two attaches with one other request
were checked with the same properties, and the theorems of section 4 have no such bound.
For `Accounts`: four requests are enough for two
resets, two verifications or two demotions to overlap with what leads up to them; three users make "one
administrator remains" a question. For `ApiClients`: two overlapping requests and
one after them. For `Retention`: one talk that fails or is deleted while another one is marked, and a second rendering to tell
the video that was due from the one that came later.

What the properties say (the comments in the `...Properties` modules say more):

* `PublishedIsReviewed`: a talk that is done has a final video of the recording and
  bounds last approved. It relates files, history and row, and fails when
  the heavy queue is not searched by an abort.
* `PublishedHasSlates`: and it carries the slates the row asks for, although
  `job_transcode` skips a missing slate silently.
* `PreviewIsCurrent`, `ApprovedIsShown`, `CutWithinFile`: what a reviewer sees is the talk
  as configured, what is recorded as approved is what was seen, and a cut lies
  within its recording.
* `NeverStranded`, `OneCarrier`: a processing talk has at least, and at most, one
  slot whose next effect its status waits for. "detecting" is excluded from the
  first because of the finding in `AbortWaiting`.
* `ImplementsLifecycle`: the status against `app/states.py`.
* `DeletedIsInert`: a job whose row an abort deleted never writes the talk again.
* `QueueOK`: the Redis lists hold each queued job once.
* `WorkEnds`: a processing talk reaches a status where a person decides, or an end.

* `RoomsRegistered`: a talk's room is a registered one, although two of the handlers decide on rows
  read before the lock. It rests on `FlushRow`: writing back every column that was loaded would break it.
* `DetectingIsCarried`, `DetectingEnds`, `OthersKeepTheirDetection`: a talk that says "detecting" has a
  job or a request that will end it, leaves that status, and loses its own job only to a request
  about itself. Exempt are the talks whose work was cancelled, killed or lost: the code recovers none.
* `CutFitsFootage`, `FailedAttachKeepsFootage`: bounds against the recording measured, unless the row mixes two
  commits; what a failed attach leaves in storage.
* `VerifyOnce`, `ResetOnce`: over all links mailed and all requests that open them at once.
* `AdminStays`: the last active administrator is lost only to a request that read a row
  that was no active administrator's.
* `SessionsFollowPassword`, `AccessFollowsAccount`: a live token belongs to whoever knows today's
  password, and opens what the account may open today.
* `EventOpensTalks`, `StudioAgrees`: the three places that decide on access, compared for all callers.
  What does not depend on the state is evaluated in the initial state only.
* `CoolDown`: a key in Redis against the mails it stands for.
* `OneKey`, `EventsAreSeparate`: keys and webhooks of events that share clients, unless lists were out of date (`KeyRace` shows
  what happens then).
* `NoticesArrive`: two attempts at most, a second notice only to a receiver that did not accept the first, and a second attempt
  after one in vain, unless the job ended in the middle of it (`WebhookTimeout` refutes it without that exception).
* `VideoKept`, `CleanedMeansGone`, `ExpiredIsSwept`: storage, rows and time against each other. The last excepts
  by name (`MarkedBefore`) the talks that were swept, aborted and published again; `Sweeps` is about those.

The properties of `Review` and `Abort` are checked without `late`. With a stop command that
comes late a job in flight leaves its output behind (`LateStop`), and a leftover cut, preview or transcode may write the key
the next attempt shows or publishes: `PublishedIsReviewed`, `PreviewIsCurrent`, `ApprovedIsShown` and `OneCarrier` are false then.

### Fairness

`FairSpec` asks weak fairness of each slot's job (`Job`) and of each request in progress
(`Sends` or `Unlocked`): a worker loops over its queue (`worker.work`, in
`scripts/run_worker.py`), each RQ job has a timeout, and a handler runs to its return.
Nothing is assumed of `Asks` and `Decides` (nobody has to act), of `Killed` (a stop command may
come after the end), of `Crashes` or of failing work. `WorkEnds` is checked without crashes and
without refused enqueues because the code then strands the talk: nothing
scans for talks whose worker died. Weak fairness is enough for the head of a queue: once a worker
is free the job stays enabled until it is taken, and queued jobs behind it
become enabled in their turn.

`RoomRecording` asks weak fairness of the request that attaches and of each job, for the same reasons; nothing is asked
of the handlers of the schedule or of aborts. `Retention` asks it of the start of the periodic job (the worker runs RQ's scheduler,
`scripts/run_worker.py`) and of each sweep once begun, not of days, failures or the command line;
`ExpiredIsSwept` says "again and again removed and marked, or marked before, or the job has failed for good", so it does not rest on a worker being
restarted. `Accounts` and `ApiClients` have safety properties only.

## 4. The proofs

TLAPS proves the theorems below for all values of the constants: any number of talks, users, clients,
slots, workers, recordings and bounds, all faults, overlapping requests or not. They rest on the
assumptions stated beside the constants: types, finite tables, `None` being no row, the first
rows being rows of the schema (one key per event, names of rooms that differ in more than case). A run that extends the module
evaluates each of them. The bounds that TLC needs are constants here, so a theorem holds for each value of them.

Only the theorems of `ReviewProofs` and the two about the refinement of `TalkLifecycle` have hypotheses about the constants (below).

Each proof has the same layout: an invariant `IInv` (in `ScheduleProofs`, `ScheduleInv`; in `ReviewProofs`, `Guarded`), lemmas about the operators,
one lemma per action or per family of actions, the three facts of the invariant, and then the theorems, each of
which reads its property off the invariant.

| Module | Theorems | What the invariant adds to the properties |
|---|---|---|
| `PipelineProofs` | `TypeCorrect`, `Invariance`, `LeastRawKey`, `StatusMoves`, `UploadsImplementLifecycle`, `RecordingsImplementLifecycle`, `DeletedStaysInert`, `QueuesMatch` | what a slot holds in each phase; what the queues hold; that a row a handler holds is not out of date |
| `ReviewProofs` | `Guards`, `PublishedWasReviewed`, `PublishedWithSlates`, `CutsFitTheFile`, `PreviewsAreCurrent`, `ApprovedWasShown`, `NobodyIsStranded`, `CarriersAreAlone` | which slot works on the talk, and the files that work rests on |
| `ScheduleProofs` | `TypesHold`, `RoomsStayRegistered` | what a request has read before its lock |
| `RoomProofs` | `RoomTypesHold`, `RoomsStayRegisteredHere`, `DetectingStaysCarried`, `CutsFitFootage`, `FootageIsPutBack`, `OthersAreSpared` | who works on a talk, and that one does |
| `AccountProofs` | `TypesHold`, `LinksLogInOnce`, `LinksResetOnce`, `LiveTokensWereEarned`, `CoolDownHolds`, `LastAdminStays` | requests between their steps |
| `AccessProofs` | `AccessFollows`, `AccessAgrees`, `StudioOpensTheSame` | the types of rows and tokens |
| `ApiClientProofs` | `TypesHold`, `AtMostOneKey`, `NoticesDoArrive`, `EventsStaySeparate` | what requests have loaded, jobs and counts |
| `RetentionProofs` | `TypesHold`, `VideosStayTheirTime`, `MarksAreTrue` | what sweeps have read, marked and removed |

### The pipeline

* `TypeCorrect` (`Spec => []TypeOK`). Types alone are not inductive: `JobStore` writes the
  file in the job's slot, which the type allows to be `None`; a commit writes the row a handler
  read. `IInv` adds `WellFormed`: what each kind of slot holds in each phase. Every action has
  a lemma, grouped by session; the few shapes of step (`Begins`, `Becomes`, `Discards`,
  `Raises`, `MarksDone`, `CancelJobs`) have one each, cited by the rest. TLC checked `IInv`
  on the instance of `Faults` first. `LeastRawKey` shows that `raw_keys[0]` exists, by the
  well-foundedness of the natural numbers.
* `StatusMoves`: without any hypothesis, each step is `Ordinary` (the status stays, takes an edge of `TRANSITIONS`, or is reset)
  or `Restarts` (an unlocked handler writes `detecting` over what the status has become). `UploadsImplementLifecycle`
  (`Spec => ImplementsLifecycle` without the two handlers that do so) follows, since no step restarts then.
* `RecordingsImplementLifecycle`: the refinement with those handlers, where one request is
  served at a time and nothing is uploaded; `Faults` checks an instance of it. `RereadsOK` says that a handler
  that read a waiting or a broken talk finds it so when it commits: no other request is there, and of the jobs
  only `job_ingest` moves such a talk (`JobStaysPut`). Without either hypothesis the refinement is false, not just
  unproved: another request (`OverlappingIngest`), or an upload's job, can take the talk past its detection before the handler
  writes `detecting`.
* `DeletedStaysInert` (`Spec => DeletedIsInert`). The step of one slot is that slot's own
  (`SameSlot`); a second session demands a running row, `_handle_failure` an existing one,
  and no request owns a row.
* `QueuesMatch` (`Spec => []QueueOK`). `QueuesOK` says of each Redis list that it has no entry twice (`EachOnce`) and
  that its entries are the slots that wait for it (`Waiting`); `ListsCount` gets the length from that by a
  bijection. A cancellation takes a set of jobs out of a list (`WithoutIs`), proved entry by entry: `Without` is a
  recursive function, so that its definition can be unfolded, which that of `SelectSeq` cannot; the induction is by the
  least entry at which the claim would fail (`LeastIsThere`).

### What is published is what was reviewed

`ReviewProofs` proves the seven invariants of `Review` and `Abort` that relate rows, files and slots, for any
number of slots, workers, recordings and cuts. They are false of the code without restriction (section 6), so the theorems assume
`Undisturbed`, and each of its parts stands for behaviour of section 6 that refutes them:

* requests do not overlap, and recordings come in by upload: an unlocked handler that writes `detecting` over a talk that
  has moved on leaves two detections, or the bounds of one recording with another under `raw/` (`TwoRecordings`);
* if talks are aborted, then processes do not die, cancellations do not fail, and a stop command is not late: otherwise an abort leaves
  a talk "done" whose files it has removed, or a job that outlives it (`LateStop`). Work and enqueueing may fail at
  any time, with aborts too; without aborts, all five faults are admitted.

`NobodyIsStranded` also assumes that no message to Redis and no process is lost, since nothing in the code finds a talk
whose job is gone. `CarriersAreAlone` also assumes `OneReverts`: one worker serves the light queue, or `job_ingest` does not fail.
Otherwise the two transactions of its failure let another upload in between, which section 6 lists.
The constants of `Review` satisfy the hypotheses of all but the last two, and those of `Abort` all of them.

The difficulty is what is left of earlier attempts: queued uploads, jobs told to stop, files under the same keys. The
invariant `Guarded` names the one slot that counts and forgets the others:

* `Engaged(s)`: slot `s` takes part in the work on the talk. `OneEngaged`: at most one does. An upload in the queue
  does not yet; a job that was told to stop does no more; `Reverting` is an ingest between its two transactions of failure.
* `EngagedOK`: the status is the one the next effect of that slot expects (`Awaited`), or `broken`; and the files
  are what its job rests on: `CutOK` from detection to the preview, `AssemblyOK` up to the levelled video, `FinalOK` to the end. `Asked` is the
  cut that the row asks for now, and every file is compared with that.
* `TalkOK`, `ShownOK`: what holds of files while people decide and nobody is engaged: no derived file before the first
  cut, the recording under `raw/` is the one measured, the preview shows what was asked.
* `AbortsOK`: while an abort has removed the files and not yet written the row (`Wiped`), no job is left but those told to
  stop, so nobody writes what the abort has removed. And an abort that read `waiting_for_files`, whose write of the status
  SQLAlchemy omits, finds the talk no further than where jobs alone can take it (`Fresh`), where there is no derived file yet.
* `CarriedOn`, `RevertsOK`: the parts that need the extra hypotheses, as implications.

Most steps have one of three shapes, proved once: `WorkStep` (the engaged slot goes on, ends or hands over),
`QuietStep` (a slot that takes no part stays out, and at most breaks the talk) and `DecisionStep` (a person decides while nobody is
engaged). Only `AbortCancels` and `AbortCommits` touch every slot and have proofs of their own. `NoAssembly` is a by-product: under these
hypotheses `configure_assembly` is never enabled, because a talk in
`pending_intro_outro` has no cut yet; slates are chosen at the approval.

`NoneAssumption` (no content of a file is `None`) was added for these proofs; the model had it tacitly.

### The schedule and the recordings of rooms

* `RoomsStayRegistered`. `update_talk` reads the talk, then waits for the lock of the event, and
  a rename may come between. The room the request has in its session is stale then, and the proof shows that it
  is either overwritten or not part of the `UPDATE`. An import is a recursive function over its
  entries; `TxOK` holds of the transaction after every entry, by the least entry at which it would not.
* `DetectingStaysCarried`, `RoomTypesHold` and `RoomsStayRegisteredHere` come from one invariant, action by action. A step of the schedule
  changes no row of work but those of talks that come and go, which is all the lemmas of `ScheduleProofs` have to say.
* `CutsFitFootage`. The bounds of a talk are written against one recording and read against the file
  that lies there when its detection runs. So the invariant says who may touch a talk: `WorksOn` (a job will write
  its row, its file or its queue) and `Reserved` (the request goes on as if nobody did), of which a talk has one at a
  time (`Apart`); and the bounds lie within the file the worker has still to look at (`Bounds`). Most steps only take
  work away from a talk (`QuietTalk`); the rest give it to one job or one request (`OneHas`, `AttachHas`).
* `FootageIsPutBack` and `OthersAreSpared` are about single steps: staging, its failure and its restoring; and the jobs that
  `_cancel_talk_jobs` finds for a set of talks.

**What the proof found.** As first stated, for every talk, `CutFitsFootage` is false, and the run did not show it because it has one
attach. TLC, given the states the proof could not exclude, finds four ways, all of which mix
columns of two recordings in one row:

1. `attach` by URL reads a talk, an abort takes it back to waiting and does not see the room's job that is enqueued a moment
   later. A second attach finds the talk waiting and cancels nothing; both recordings arrive.
2. The same after a detection that fails between the reading and the marking (`broken`).
3. `attach` by file computes the bounds the row had when it was loaded. SQLAlchemy sends no `UPDATE` of them; a job of the
   room has changed them meanwhile.
4. An abort resets columns to what it loaded, likewise.

`CutFitsFootage` now excepts the talks of `mixed`, those with a row of which a commit left columns as somebody else wrote them, and is
a theorem with any number of attaches. Section 6 lists the behaviour.

### Accounts and access

* `LinksLogInOnce`, `LinksResetOnce`: the `WHERE` of the `UPDATE` is the argument. A verified row stays verified and a password
  version is left once (`RowsGrow`), so among the requests for one account one at most is on its way to a session
  (`LoginsOK`), and a version that was reset is behind the current one (`ResetsOK`).
* `LiveTokensWereEarned`: a token's proof is the fingerprint it carries, or it was made for a link or on becoming a speaker.
* `CoolDownHolds`: one request at most holds a key, and no mail has gone out under it (`KeysOK`).
* `LastAdminStays` (an action property): the rows `lock_active_admins` locks are the ones counted; the cases that remain read a
  row that was none.
* `AccessFollows`, `AccessAgrees`, `StudioOpensTheSame`: operators over tables. The credentials are tried in order; a few lemmas say which caller
  each of them gives, and the three decisions are compared caller by caller. Writing the
  proofs showed that two definitions (`Resolved`, `StudioLists`) used a `CASE` whose guards overlapped and so relied on TLC's order; they
  follow the code's order of tests now.

### API clients

* `AtMostOneKey`: whoever makes a key takes the event from all clients it loaded; a client it did not load came meanwhile, and the
  event is `overtaken`.
* `EventsStaySeparate` (an action property): every commit strips, hooks, joins or creates a row
  (`Strips`, `Hooks`, `Joins`, `Comes`), and none of these changes what another event has unless the list that was loaded is out of date.
* `NoticesDoArrive`: the counts of a notice determine the attempt its job makes (`NoticesOK`), and one that escaped has no job.

### Retention

* `VideosStayTheirTime`: what a sweep has read is past its window as long as the rendering is the same (`ReadsOK`).
* `MarksAreTrue`: a marked row is locked until the commit, so nobody publishes it again in between (`RemovesOK`, `MarksOK`).

### What is only model-checked

* Liveness (`WorkEnds`, `DetectingEnds`, `ExpiredIsSwept`): the prover has no rule for fairness.
* That the code does not keep to nine statements (section 6): TLC finds the counterexamples.

## 5. What is not modelled, and the plan

Every invariant, every action property and the refinement that a passing run checks are theorems, under the
hypotheses that section 4 names; the liveness properties are not. Left of the plan: the theorems of `ReviewProofs`
for installations that hand recordings in one at a time (`RereadsOK` is the beginning of their invariant), as far as
`TwoRecordings` lets them hold.

Not modelled:

* Media processing (`app/pipeline/`: ffmpeg and PyAV on one file). The models assume that the
  output shows the input or that the call raises.
* The writes of the storage backend: temporary file and rename, hard links, byte ranges. A put takes effect at once.
* Wrong passwords and the rate limit of logins, profile settings, tokens without a fingerprint, the minting of SSO tokens.
* Pages and listings, which read only (what they show to whom is `StudioAccess`), composing mail, configuration and
  migrations (declarations).
* Cancellations that fail for some of several jobs, and stop commands that come late, are in `Pipeline` only.

## 6. What the models show about the code

Nine statements of docstrings, comments and messages that the code does not keep, each with a configuration in which
TLC refutes it. The first five are runs, with an entry under `findings`:

* `AbortWaiting`: an abort that read `waiting_for_files` just before `job_ingest` claims the
  talk assigns the status it read; no `UPDATE` is sent for it, and the talk stays in `detecting`
  with its job stopped and deleted.
* `LateStop`: the queue is searched before the running jobs are stopped; a job that commits
  in between enqueues its successor behind the search. A job whose stop command comes late also stores its output after the abort has
  removed the talk's files; a `final.mp4` of the old recording then lies under the key the next attempt publishes. Both are violations of
  `AbortCleansUp`; TLC shows the shorter one, and the other one if that part is taken out.
* `RejectedSlate`: rejecting a preview deletes a custom slate that the row goes on asking for.
* `KeyRace`: "at most 1 active API key per event", but two requests that overlap each revoke the keys they found
  and insert one. (So does the command line, which makes no such promise.) A request for another event of a shared key that loaded its
  `event_ids` before the revocation writes the revoked event back, with the same result; a stale list can also take a new event away.
* `Sweeps`: "delete final/ storage for done talks past their retention window", but a sweep deletes the video of a talk
  it read as due even if the talk was aborted and rendered again before the sweep came to it. And `final_cleaned_at` is never
  reset: a talk published again after it was swept is never swept again. TLC shows the first, and the second if the first is taken out.

The others:

* `TwoRecordings`: the bounds are to be "both within the detected file duration" (`src/app/routes/talks.py:604`), the duration of the
  recording detected last; the cut is made from the first file under `raw/`.
* `OverlappingIngest`: "Returns 409 if talk status is not 'waiting_for_files'" (`src/app/routes/talks.py:434`), but two requests that ingest a
  recording pass the same check, and the slower one takes a talk that is already detected back to `detecting`.
* `WebhookTimeout`: "If delivery fails on the first attempt, retries once" (`src/app/tasks.py:1537`), but a receiver that is slow to answer raises a
  `TimeoutError` the loop does not catch. The job fails, and the second attempt is not made.
* `LostPromotion`: a demotion that "would leave zero active administrators" is refused (`src/app/routes/admin.py:339`), but a login that read the
  row of a speaker before the promotion to administrator writes `speaker` over it, after somebody else was demoted.

Other behaviour met while modelling, for which the repository makes no statement:

* With two light workers, a failing `job_ingest` gives its claim back in one transaction
  and breaks the talk in the next; in between another upload may have claimed it, and is broken.
* `attach_room_recording` checks the status, streams a file, and writes `detecting` over what
  the status has become; two detect jobs can be queued.
* A room recording attached to a talk whose detection just failed writes no status (it
  loaded `detecting`), so the talk stays broken with a detect job queued, which discards itself.
* The clean-up after a rejection follows the commit and can delete a newer cut; the talk then breaks.
* A request whose enqueue fails leaves the talk in `cutting` or `detecting` with no job; only an abort helps.
* An abort whose cancellations fail has deleted the talk's files and keeps its status.
* Rooms: an abort that read a talk as waiting, before a recording was attached to the room, deletes the
  `Job` row of the detection that runs by then and sends no `UPDATE` of the status: the talk stays in
  `detecting`. Aborting one talk stops the download for all, which `_matches_talk` means to do; the others then stay in `detecting` too.
* Rooms: a detection that fails after an abort deleted its `Job` row breaks nothing; a talk that is in `detecting` by then stays there.
* Rooms: two recordings attached to one talk may leave it with the bounds of one and the file of the other. The
  requests and jobs compute all columns from one row as loaded, and SQLAlchemy writes those that differ; nothing locks or
  compares versions (section 4 has the four ways).
* Accounts: opening a talk, `deactivate` and the command `promote` write a row read as a plain user's in the same way as the login in
  `LostPromotion`. An administrator who never verified the address counts.
* A login with the old password that overlaps with a reset issues a token with the new
  fingerprint if it also makes the user a speaker: the row is read again after that commit.
* The studio lists all talks of an event for an organizer who speaks there, though only the own ones
  open; the comment at `src/app/routes/studio.py:495` calls the list "the talks the caller may see". The platform flag of a client
  means nothing to the studio.
* API clients: a key created with an address and without a secret is never notified.
* Retention: a sweep marks a row it read as due whatever its status by then. A talk deleted during a sweep makes the sweep fail
  and lose all its marks. When its retries are used up, the periodic job ends until a worker starts.
