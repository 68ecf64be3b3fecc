---------------------------- MODULE RoomRecording -----------------------------
(***************************************************************************)
(* One recording of a whole room, attached to every talk that took place   *)
(* in it while the camera ran.                                             *)
(*                                                                         *)
(* attach_room_recording (app/routes/talks.py) either enqueues one job,    *)
(* job_ingest_room_url, that downloads the recording for all the talks, or *)
(* stages an uploaded file into the folder of each talk itself.  Either    *)
(* way every talk gets its own job_detect at the end (app/tasks.py).       *)
(*                                                                         *)
(* The talks are those of Schedule, whose handlers go on renaming rooms    *)
(* and moving, aborting and deleting talks meanwhile.  What becomes of a   *)
(* talk after detection is the subject of Pipeline.                        *)
(***************************************************************************)
EXTENDS Schedule

CONSTANTS
  Recordings,
  Lasts,      \* how long a talk lasts
  Length,     \* Length[r]: how long recording r is
  TakenAt,    \* TakenAt[r]: the creation time in the file, None without one
  Starts,     \* what a caller may give as recording_start, with None
  DayOf,      \* DayOf[s]: the day slot s falls on
  Scheduled,  \* the talks at the start
  Uploaded,   \* Uploaded[i]: the recording uploaded for talk i alone, or None
  JobSlots,   \* bound on the jobs in RQ at one time
  MaxEdits,   \* bound on the requests of Schedule in one behaviour
  MaxAttach,  \* bound on the requests to attach a recording
  Faults      \* what may go wrong

ASSUME LengthAssumption == Length \in [Recordings -> Nat \ {0}] /\ Lasts \in Nat \ {0}
ASSUME TakenAtAssumption == TakenAt \in [Recordings -> Nat \cup {None}]
ASSUME StartsAssumption == Starts \subseteq Nat \cup {None} /\ None \notin Nat
ASSUME RecordingsAssumption == None \notin Recordings
ASSUME ScheduledAssumption ==
  /\ Scheduled \in [Ids -> Row \cup {None}]
  /\ \A a, b \in {Scheduled[i].room : i \in {j \in Ids : Scheduled[j] # None}} \ {None} :
       SameName(a, b) => a = b
ASSUME UploadedAssumption ==
  /\ Uploaded \in [Ids -> Recordings \cup {None}]
  /\ \A i \in Ids : Uploaded[i] # None => Scheduled[i] # None /\ i \in JobSlots
ASSUME FaultsAssumption == Faults \subseteq {"work", "enqueue", "storage", "crash"}

VARIABLES
  work,     \* the columns of each talk that the pipeline writes
  raw,      \* the recording at <talk>/raw/raw.mp4
  spare,    \* the backup of raw that attach_room_recording keeps
  jobs,     \* the jobs in RQ
  attach,   \* the request to attach a recording
  abort,    \* the request to abort a talk
  orphaned, \* history: talks whose work was cancelled, killed or lost
  mixed,    \* history: talks in which the work of two requests has met
  edits,    \* number of requests of Schedule so far
  attached  \* number of requests to attach so far

roomVars == <<work, raw, spare, jobs, attach, abort, orphaned, mixed>>
vars == <<scheduleVars, roomVars, edits, attached>>

Status == {"waiting_for_files", "detecting", "pending_approval", "broken"}
Eligible == {"waiting_for_files", "detecting", "broken"}

\* Faulty: a new talk awaits its first review.
NewWorkToReview ==
  [status |-> "pending", detected |-> None, cut_start |-> None, cut_end |-> None]

NewWork ==
  [status |-> "waiting_for_files", detected |-> None, cut_start |-> None, cut_end |-> None]

NoJob ==
  [ fn |-> "none", phase |-> "free", ids |-> {}, room |-> None, rec |-> None,
    start |-> None, claimed |-> {}, todo |-> {}, row |-> FALSE ]

DetectJob(i, start) ==
  [NoJob EXCEPT !.fn = "detect", !.phase = "queued", !.ids = {i}, !.start = start]

NoAttach ==
  [ phase |-> "idle", src |-> "none", room |-> None, rec |-> None,
    start |-> None, seen |-> <<>>, staged |-> {}, backed |-> {}, todo |-> {} ]

NoAbort == [phase |-> "idle", id |-> None, seen |-> None]

RoomInit ==
  /\ event = TRUE
  /\ talk = Scheduled
  /\ rooms = {Scheduled[i].room : i \in Talks} \ {None}
  /\ edit = [e \in Requests |-> NoEdit]
  /\ work = [i \in Ids |-> IF Uploaded[i] = None THEN NewWork
                            ELSE [NewWork EXCEPT !.status = "detecting"]]
  /\ raw = Uploaded
  /\ spare = [i \in Ids |-> None]
  /\ jobs = [s \in JobSlots |-> IF s \in Ids /\ Uploaded[s] # None
                                 THEN DetectJob(s, None) ELSE NoJob]
  /\ attach = NoAttach
  /\ abort = NoAbort
  /\ orphaned = {} /\ mixed = {}
  /\ edits = 0
  /\ attached = 0

Detecting == {i \in Talks : work[i].status = "detecting"}

\* The talks of S get another status.
Marked(S, status) ==
  work' = [i \in Ids |-> IF i \in S THEN [work[i] EXCEPT !.status = status] ELSE work[i]]

\* History: the talks of S have lost the job or the request they waited for.
Orphan(S) == orphaned' = {i \in orphaned \cup S : work'[i].status = "detecting"}

\* History: the commit of these rows left columns as somebody else wrote them.
Mixed(rows) == mixed' = mixed \cup {i \in DOMAIN rows : work'[i] # rows[i]}

-------------------------------------------------------------------------------
(* Time.  A talk in slot s lasts from s to s + Lasts.                      *)

Overlaps(s, start, length) == s < start + length /\ s + Lasts > start

\* Faulty: the end of the talk, although the recording ends before it.
OffsetsPastEnd(s, start, length) ==
  <<IF s > start THEN s - start ELSE 0, s + Lasts - start>>

\* The seconds of the recording the talk takes up.
Offsets(s, start, length) ==
  << IF s > start THEN s - start ELSE 0,
     IF s + Lasts - start < length THEN s + Lasts - start ELSE length >>

\* The columns of a talk whose bounds are taken from its place in a recording.
CutAt(status, s, start, length) ==
  [ status |-> status, detected |-> length,
    cut_start |-> Offsets(s, start, length)[1],
    cut_end |-> Offsets(s, start, length)[2] ]

Earliest(S) == CHOOSE s \in S : \A t \in S : s <= t

\* rec_start: as the caller says, or as the file says if that can be true of
\* some talk, or else when the first of the talks starts.
StartOf(rec, given, starts) ==
  IF given # None THEN given
  ELSE IF TakenAt[rec] # None
          /\ \E s \in starts : Overlaps(s, TakenAt[rec], Length[rec])
       THEN TakenAt[rec]
       ELSE Earliest(starts)

-------------------------------------------------------------------------------
(* Jobs *)

FreeSlots == {s \in JobSlots : jobs[s].fn = "none"}

Enqueued(table, job) ==
  LET s == CHOOSE s \in JobSlots : table[s].fn = "none"
  IN  [table EXCEPT ![s] = job]

\* Faulty: every job of the event matches.
JobsOfEvent(S) == {s \in JobSlots : S # {} /\ jobs[s].ids # {}}

\* _matches_talk: the job of the whole room matches each of its talks.
JobsOf(S) == {s \in JobSlots : jobs[s].ids \cap S # {}}

\* _cancel_talk_jobs for each talk of S, with or without its storage.  RQ is
\* taken to stop a running job at once; Pipeline models the delay.
Cancel(S, wipe) ==
  /\ jobs' = [s \in JobSlots |-> IF s \in JobsOf(S) THEN NoJob ELSE jobs[s]]
  /\ raw' = [i \in Ids |-> IF wipe /\ i \in S THEN None ELSE raw[i]]
  /\ spare' = [i \in Ids |-> IF wipe /\ i \in S THEN None ELSE spare[i]]
  /\ Orphan(S \cup UNION {jobs[s].ids : s \in JobsOf(S)})

Free(s) == jobs' = [jobs EXCEPT ![s] = NoJob]

InRoom(i, room) == i \in Talks /\ talk[i].room = room

\* The first session of job_ingest_room_url.
RoomJobStarts(s) ==
  LET job == jobs[s]
      mine == {i \in job.ids : InRoom(i, job.room) /\ work[i].status \in Eligible}
  IN  /\ job.fn = "room" /\ job.phase = "queued"
      /\ jobs' = [jobs EXCEPT ![s].phase = "loading", ![s].claimed = mine]
      /\ Marked(mine, "detecting")
      /\ Orphan(job.ids \ mine)
      /\ UNCHANGED <<raw, spare, attach>>

\* The talks the second session of job_ingest_room_url looks at, and those
\* of them that overlap with the recording.
Present(job) == {i \in job.claimed : InRoom(i, job.room) /\ work[i].status = "detecting"}

JobStart(job) ==
  StartOf(job.rec, job.start, {talk[i].slot : i \in Present(job)})

Matched(job) ==
  {i \in Present(job) : Overlaps(talk[i].slot, JobStart(job), Length[job.rec])}

\* Faulty: talks the recording does not reach are left as they are.
UnmatchedIgnored(job) == {}

Unmatched(job) == Present(job) \ Matched(job)

RoomJobFindsNothing(s) ==
  LET job == jobs[s]
  IN  /\ job.fn = "room" /\ job.phase = "loading" /\ Present(job) = {}
      /\ Marked(job.claimed \cap Detecting, "waiting_for_files")
      /\ Free(s) /\ Orphan({})
      /\ UNCHANGED <<raw, spare, attach>>

RoomJobAttaches(s) ==
  LET job == jobs[s]
      length == Length[job.rec]
      new(i) == CutAt("detecting", talk[i].slot, JobStart(job), length)
  IN  /\ job.fn = "room" /\ job.phase = "loading" /\ Present(job) # {}
      /\ raw' = [i \in Ids |-> IF i \in Matched(job) THEN job.rec ELSE raw[i]]
      /\ work' = [i \in Ids |->
           IF i \in Matched(job) THEN new(i)
           ELSE IF i \in Unmatched(job)
                THEN [work[i] EXCEPT !.status = "waiting_for_files"] ELSE work[i]]
      /\ jobs' = [jobs EXCEPT ![s] = IF Matched(job) = {} THEN NoJob
                    ELSE [@ EXCEPT !.phase = "sending", !.todo = Matched(job)]]
      /\ Orphan(job.claimed \ Present(job))
      /\ UNCHANGED <<spare, attach>>

\* job_detect is enqueued for the talks in the order in which they start.
FirstOf(S) == CHOOSE i \in S : \A j \in S : i <= j

RoomJobEnqueues(s) ==
  LET job == jobs[s]
      i == FirstOf(job.todo)
      rest == IF job.todo = {i} THEN NoJob
              ELSE [job EXCEPT !.todo = @ \ {i}, !.claimed = @ \ {i}]
  IN  /\ job.fn = "room" /\ job.phase = "sending"
      /\ job.todo = {i} \/ FreeSlots # {}
      /\ jobs' = Enqueued([jobs EXCEPT ![s] = rest], DetectJob(i, None))
      /\ orphaned' = orphaned \ {i}
      /\ UNCHANGED <<work, raw, spare, attach>>

\* The download, the probe, the links or Redis fail; linked are the talks
\* whose file had been replaced by then.
RoomJobFails(s, linked) ==
  LET job == jobs[s]
      broken == job.claimed \cap Detecting
  IN  /\ job.fn = "room"
      /\ \/ job.phase = "loading" /\ "work" \in Faults
            /\ linked \subseteq (IF Present(job) = {} THEN {} ELSE Matched(job))
         \/ job.phase = "sending" /\ "enqueue" \in Faults /\ linked = {}
      /\ raw' = [i \in Ids |-> IF i \in linked THEN job.rec ELSE raw[i]]
      /\ Marked(broken, "broken")
      /\ Free(s) /\ Orphan({})
      /\ UNCHANGED <<spare, attach>>

DetectStarts(s) ==
  LET i == FirstOf(jobs[s].ids)
  IN  /\ jobs[s].fn = "detect" /\ jobs[s].phase = "queued"
      /\ IF i \in Detecting
         THEN jobs' = [jobs EXCEPT ![s].phase = "measuring", ![s].rec = raw[i],
                                   ![s].row = TRUE]
         ELSE Free(s)
      /\ UNCHANGED <<work, raw, spare, attach, orphaned>>

\* The second session of job_detect; the bounds are seeded if there are none.
DetectPasses(s) ==
  LET job == jobs[s]
      i == FirstOf(job.ids)
      length == Length[job.rec]
      seeds == /\ work[i].cut_start = None /\ work[i].cut_end = None
               /\ job.start # None /\ Overlaps(talk[i].slot, job.start, length)
      new == IF seeds THEN CutAt("pending_approval", talk[i].slot, job.start, length)
             ELSE [work[i] EXCEPT !.status = "pending_approval", !.detected = length]
  IN  /\ job.fn = "detect" /\ job.phase = "measuring" /\ job.rec # None
      /\ work' = IF i \in Detecting /\ job.row THEN [work EXCEPT ![i] = new] ELSE work
      /\ Free(s) /\ Orphan({})
      /\ UNCHANGED <<raw, spare, attach>>

\* Faulty: a failure is logged, the talk not marked as broken.
DetectFailsUnmarked(s) ==
  /\ jobs[s].fn = "detect" /\ jobs[s].phase = "measuring"
  /\ jobs[s].rec = None \/ "work" \in Faults
  /\ Free(s) /\ UNCHANGED work /\ Orphan({})
  /\ UNCHANGED <<raw, spare, attach>>

\* No file, or detection refuses it: _handle_failure, which does nothing to
\* the talk once the row of the job is gone.
DetectFails(s) ==
  LET unmarked == {i \in Talks : work[i].status \notin {"waiting_for_files", "broken"}}
  IN  /\ jobs[s].fn = "detect" /\ jobs[s].phase = "measuring"
      /\ jobs[s].rec = None \/ "work" \in Faults
      /\ Marked(IF jobs[s].row THEN jobs[s].ids \cap unmarked ELSE {}, "broken")
      /\ Free(s) /\ Orphan({})
      /\ UNCHANGED <<raw, spare, attach>>

\* The work-horse is killed: nothing handles the failure.
JobDies(s) ==
  /\ "crash" \in Faults /\ jobs[s].fn # "none" /\ jobs[s].phase # "queued"
  /\ Free(s) /\ UNCHANGED work /\ Orphan(jobs[s].ids)
  /\ UNCHANGED <<raw, spare, attach>>

-------------------------------------------------------------------------------
(* attach_room_recording *)

InRoomNow(room) == {i \in Talks : talk[i].room = room}

\* The talks the request is about: those of the given day, in a status that
\* still wants a recording.  Without a day the room must be in use on one only.
EligibleTalks(room, day) ==
  {i \in InRoomNow(room) : /\ work[i].status \in Eligible
                           /\ day = None \/ DayOf[talk[i].slot] = day}

\* The rows the request keeps in its session until it commits.  It will not
\* cancel the jobs of talks that do not say "detecting".
AttachReads(src, room, rec, start, day) ==
  LET mine == EligibleTalks(room, day)
  IN  /\ attach = NoAttach /\ attached < MaxAttach
      /\ event /\ mine # {}
      /\ day = None =>
           Cardinality({DayOf[talk[i].slot] : i \in InRoomNow(room)}) = 1
      /\ attach' = [ NoAttach EXCEPT !.phase = "read", !.src = src, !.room = room,
                       !.rec = rec, !.start = start,
                       !.seen = [i \in mine |-> [work |-> work[i], slot |-> talk[i].slot]] ]
      /\ attached' = attached + 1
      /\ mixed' = mixed \cup {i \in mine \ Detecting : JobsOf({i}) # {}}
      /\ UNCHANGED <<work, raw, spare, jobs, orphaned>>

Mine == DOMAIN attach.seen

SeenDetecting(S) == {i \in S : attach.seen[i].work.status = "detecting"}

AttachEnds == attach' = NoAttach

(* A URL: cancel, mark all talks as detecting, enqueue one job. *)

UrlCancels ==
  /\ attach.phase = "read" /\ attach.src = "url"
  /\ attach' = [attach EXCEPT !.phase = "marking"]
  /\ UNCHANGED work /\ Cancel(SeenDetecting(Mine), FALSE)

\* Rows that are already "detecting" get no UPDATE, hence are not missed.
UrlMarks ==
  /\ attach.phase = "marking"
  /\ IF Mine \ SeenDetecting(Mine) \subseteq Talks
     THEN /\ Marked(Mine \ SeenDetecting(Mine), "detecting")
          /\ attach' = [attach EXCEPT !.phase = "sending"]
     ELSE UNCHANGED work /\ AttachEnds
  /\ Orphan({})
  /\ UNCHANGED <<raw, spare, jobs>>

UrlEnqueues ==
  /\ attach.phase = "sending" /\ FreeSlots # {}
  /\ jobs' = Enqueued(jobs, [ NoJob EXCEPT !.fn = "room", !.phase = "queued",
                                !.ids = Mine, !.room = attach.room,
                                !.rec = attach.rec, !.start = attach.start ])
  /\ orphaned' = orphaned \ Mine
  /\ AttachEnds
  /\ UNCHANGED <<work, raw, spare>>

\* Redis refuses; the statuses read at the start are put back, if no talk of
\* them has been deleted.
UrlRefused ==
  /\ attach.phase = "sending" /\ "enqueue" \in Faults
  /\ work' = IF Mine \subseteq Talks
             THEN [i \in Ids |-> IF i \in Mine
                     THEN [work[i] EXCEPT !.status = attach.seen[i].work.status]
                     ELSE work[i]]
             ELSE work
  /\ AttachEnds /\ Orphan(Mine)
  /\ UNCHANGED <<raw, spare, jobs>>

(* A file: cancel, stage it for each talk that overlaps, commit, enqueue. *)

FileStart ==
  StartOf(attach.rec, attach.start, {attach.seen[i].slot : i \in Mine})

FileMatched ==
  {i \in Mine : Overlaps(attach.seen[i].slot, FileStart, Length[attach.rec])}

FileRejected ==
  /\ attach.phase = "read" /\ attach.src = "file"
  /\ FileMatched = {}
  /\ AttachEnds
  /\ UNCHANGED <<work, raw, spare, jobs, orphaned>>

FileCancels ==
  /\ attach.phase = "read" /\ attach.src = "file"
  /\ FileMatched # {}
  /\ attach' = [attach EXCEPT !.phase = "staging", !.todo = FileMatched]
  /\ UNCHANGED work /\ Cancel(SeenDetecting(FileMatched), FALSE)

FileStages ==
  LET i == FirstOf(attach.todo)
  IN  /\ attach.phase = "staging" /\ attach.todo # {}
      /\ spare' = [spare EXCEPT ![i] = raw[i]]
      /\ raw' = [raw EXCEPT ![i] = attach.rec]
      /\ attach' = [ attach EXCEPT !.todo = @ \ {i}, !.staged = @ \cup {i},
                       !.backed = IF raw[i] # None THEN @ \cup {i} ELSE @ ]
      /\ UNCHANGED <<work, jobs, orphaned>>

\* What the session holds for talk i when it commits.
FileRow(i) ==
  CutAt("detecting", attach.seen[i].slot, FileStart, Length[attach.rec])

\* An UPDATE of a row that is gone makes the commit fail.
FileLost == \E i \in attach.staged \ Talks : FileRow(i) # attach.seen[i].work

FileCommits ==
  /\ attach.phase = "staging" /\ attach.todo = {} /\ ~FileLost
  /\ work' = [i \in Ids |->
       IF i \in attach.staged \cap Talks
       THEN FlushRow(attach.seen[i].work, FileRow(i), work[i]) ELSE work[i]]
  /\ attach' = [attach EXCEPT !.phase = "enqueuing", !.todo = attach.staged]
  /\ spare' = [i \in Ids |-> IF i \in attach.backed THEN None ELSE spare[i]]
  /\ Orphan({}) /\ Mixed([i \in attach.staged \cap Talks |-> FileRow(i)])
  /\ UNCHANGED <<raw, jobs>>

\* Faulty: the staged files are removed and the old ones not put back.
FileFailsUnrestored ==
  /\ attach.phase = "staging"
  /\ "storage" \in Faults \/ (attach.todo = {} /\ FileLost)
  /\ raw' = [i \in Ids |-> IF i \in attach.staged THEN None ELSE raw[i]]
  /\ spare' = [i \in Ids |-> IF i \in attach.backed THEN None ELSE spare[i]]
  /\ AttachEnds
  /\ UNCHANGED <<work, jobs, orphaned>>

\* Storage or the commit fails: files that were replaced are put back, unless
\* the backup has been deleted with the folder of the talk.
FileFails ==
  /\ attach.phase = "staging"
  /\ "storage" \in Faults \/ (attach.todo = {} /\ FileLost)
  /\ raw' = [i \in Ids |->
       IF i \notin attach.staged THEN raw[i]
       ELSE IF i \notin attach.backed THEN None
       ELSE IF spare[i] # None THEN spare[i] ELSE raw[i]]
  /\ spare' = [i \in Ids |-> IF i \in attach.backed THEN None ELSE spare[i]]
  /\ AttachEnds
  /\ UNCHANGED <<work, jobs, orphaned>>

FileEnqueues ==
  LET i == FirstOf(attach.todo)
  IN  /\ attach.phase = "enqueuing" /\ FreeSlots # {}
      /\ jobs' = Enqueued(jobs, DetectJob(i, FileStart))
      /\ orphaned' = orphaned \ {i}
      /\ IF attach.todo = {i} THEN AttachEnds
         ELSE attach' = [attach EXCEPT !.todo = @ \ {i}]
      /\ UNCHANGED <<work, raw, spare>>

FileRefused ==
  /\ attach.phase = "enqueuing" /\ "enqueue" \in Faults
  /\ Marked(attach.todo \cap Detecting, "broken")
  /\ AttachEnds /\ Orphan({})
  /\ UNCHANGED <<raw, spare, jobs>>

\* The web server is restarted.
AttachDies ==
  /\ "crash" \in Faults /\ attach # NoAttach
  /\ AttachEnds /\ UNCHANGED work
  /\ Orphan(IF attach.phase \in {"sending", "enqueuing"} THEN Mine ELSE {})
  /\ UNCHANGED <<raw, spare, jobs>>

-------------------------------------------------------------------------------
(* The handlers of Schedule, with what they do to jobs and files *)

\* Keys that files, jobs or the request still refer to are not given again.
FreshKeys ==
  \A i \in Ids \ Talks : talk'[i] # None =>
    raw[i] = None /\ JobsOf({i}) = {} /\ i \notin Mine /\ i # abort.id

\* A talk that has left its room is no longer found by the room's job.
Moved ==
  {i \in Talks : \E s \in JobSlots : /\ jobs[s].fn = "room" /\ i \in jobs[s].ids
                                     /\ talk'[i] # None
                                     /\ talk'[i].room # jobs[s].room}

Edits ==
  /\ EditRooms \/ \E e \in Editors : EditTalk(e)
       \/ \E batch \in Batches : ImportSchedule(batch)
  /\ FreshKeys
  /\ UNCHANGED work /\ Orphan(Moved)
  /\ UNCHANGED <<raw, spare, jobs, attach, abort, mixed>>

Cancels(e) ==
  /\ (\E S \in SUBSET Ids : DeleteTalksReads(e, S)) \/ DeleteEventReads(e)
  /\ UNCHANGED <<work, attach, abort, mixed>> /\ Cancel(edit'[e].ids, TRUE)

\* The Job rows of talks S are deleted.
NoRows(S) ==
  jobs' = [s \in JobSlots |->
    IF jobs[s].fn = "detect" /\ jobs[s].ids \subseteq S
    THEN [jobs[s] EXCEPT !.row = FALSE] ELSE jobs[s]]

Deletes(e) ==
  /\ DeleteTalksWrites(e) \/ DeleteEventWrites(e)
  /\ work' = [i \in Ids |-> IF i \in edit[e].ids THEN NewWork ELSE work[i]]
  /\ NoRows(edit[e].ids) /\ Orphan({})
  /\ mixed' = mixed \ edit[e].ids
  /\ UNCHANGED <<raw, spare, attach, abort>>

\* _cancel_talk_jobs reports an error, and its caller gives up.
DeleteFails(e) ==
  /\ "storage" \in Faults /\ edit[e].op \in {"delete", "delete_event"}
  /\ Done(e) /\ UNCHANGED <<event, rooms, talk, roomVars>>

\* abort_talk reads the talk without a lock, cancels its jobs and deletes its
\* files, and resets the columns it has read.
AbortReads(i) ==
  /\ abort = NoAbort /\ i \in Talks
  /\ abort' = [phase |-> "read", id |-> i, seen |-> work[i]]
  /\ UNCHANGED <<work, raw, spare, jobs, attach, orphaned, mixed>>

AbortCancels ==
  /\ abort.phase = "read"
  /\ abort' = [abort EXCEPT !.phase = "cancelled"]
  /\ UNCHANGED <<work, attach, mixed>> /\ Cancel({abort.id}, TRUE)

AbortResets ==
  /\ abort.phase = "cancelled" /\ abort.id \in Talks
  /\ work' = [work EXCEPT ![abort.id] = FlushRow(abort.seen, NewWork, @)]
  /\ NoRows({abort.id}) /\ abort' = NoAbort
  /\ Orphan({abort.id}) /\ Mixed([i \in {abort.id} |-> NewWork])
  /\ UNCHANGED <<raw, spare, attach>>

\* The talk is gone, or _cancel_talk_jobs has reported an error.
AbortFails ==
  /\ abort.phase = "cancelled"
  /\ abort.id \notin Talks \/ "storage" \in Faults
  /\ abort' = NoAbort
  /\ UNCHANGED <<work, raw, spare, jobs, attach, orphaned, mixed>>

ScheduleSteps ==
  /\ \/ Edits
     \/ \E e \in Deleters : Cancels(e) \/ Deletes(e) \/ DeleteFails(e)
     \/ /\ (\E i \in Ids : AbortReads(i)) \/ AbortCancels \/ AbortResets \/ AbortFails
        /\ UNCHANGED scheduleVars
  /\ edits' = IF \/ \E e \in Requests : edit[e] # NoEdit /\ edit'[e] # edit[e]
                 \/ abort # NoAbort /\ abort' # abort
              THEN edits ELSE edits + 1
  /\ edits' <= MaxEdits
  /\ UNCHANGED attached

-------------------------------------------------------------------------------
AttachSteps ==
  \/ FileCommits
  \/ /\ \/ UrlCancels \/ UrlMarks \/ UrlEnqueues \/ UrlRefused
        \/ FileRejected \/ FileCancels \/ FileStages \/ FileFails
        \/ FileEnqueues \/ FileRefused
        \/ AttachDies
     /\ UNCHANGED mixed

JobSteps(s) ==
  /\ \/ RoomJobStarts(s) \/ RoomJobFindsNothing(s)
     \/ RoomJobAttaches(s) \/ RoomJobEnqueues(s)
     \/ \E linked \in SUBSET Ids : RoomJobFails(s, linked)
     \/ DetectStarts(s) \/ DetectPasses(s) \/ DetectFails(s)
     \/ JobDies(s)
  /\ UNCHANGED mixed

Next ==
  \/ ScheduleSteps
  \/ /\ \E src \in {"url", "file"}, room \in Names, rec \in Recordings,
           start \in Starts, day \in {DayOf[s] : s \in Slots} \cup {None} :
             AttachReads(src, room, rec, start, day)
     /\ UNCHANGED <<scheduleVars, abort, edits>>
  \/ /\ AttachSteps \/ \E s \in JobSlots : JobSteps(s)
     /\ UNCHANGED <<scheduleVars, abort, edits, attached>>

\* Requests run to their end and workers take up every job.
Fairness ==
  /\ WF_vars(AttachSteps /\ UNCHANGED <<scheduleVars, abort, edits, attached>>)
  /\ \A s \in JobSlots :
       WF_vars(JobSteps(s) /\ UNCHANGED <<scheduleVars, abort, edits, attached>>)

Spec == RoomInit /\ [][Next]_vars /\ Fairness
===============================================================================
