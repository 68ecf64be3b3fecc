------------------------------- MODULE Pipeline -------------------------------
(***************************************************************************)
(* One talk of veditor on its way from the uploaded recording to the       *)
(* published video: its row in the database, its files in storage, the     *)
(* chain of RQ jobs that move it (app/tasks.py), and the HTTP handlers     *)
(* that start, review, abort or replace the work (app/routes/talks.py,     *)
(* app/review_handlers.py).                                                *)
(*                                                                         *)
(* A job is not atomic.  It opens one session to record that it runs,      *)
(* closes it, works on files for minutes, and opens a second session to    *)
(* commit its result; only then does it enqueue its successor.  A handler  *)
(* that does not lock the talk's row reads it in one step and writes it in *)
(* another.  Every one of these steps is an action here.                   *)
(***************************************************************************)
EXTENDS TalkStates, Naturals, FiniteSets, Sequences

CONSTANTS
  Runs,         \* slots: the jobs and the requests that exist at one time
  Recordings,   \* the contents of the recordings that may be handed in
  Bounds,       \* pairs (cut_start, cut_end)
  Fits,         \* Fits[c]: the bounds within the duration of recording c
  RawKeys,      \* keys under raw/, numbered in the order list_keys sorts them
  UploadKey,    \* the one of them that is raw/raw.mp4
  Bumpers,      \* the choices of an intro and of an outro that are offered
  Entries,      \* the requests the environment makes
  Faults,       \* what may go wrong
  Overlap,      \* may a request begin while another one is under way?
  LightWorkers, \* number of processes on the light queue
  HeavyWorkers, \* number of processes on the heavy queue
  None

ClipKind == {"none", "generated", "custom"}

ASSUME RunsAssumption == Runs # {} /\ None \notin Recordings \cup Bounds
ASSUME KeysAssumption == RawKeys \subseteq Nat /\ UploadKey \in RawKeys
ASSUME FitsAssumption == Fits \in [Recordings -> SUBSET Bounds]
ASSUME BumpersAssumption == Bumpers \subseteq ClipKind
ASSUME OverlapAssumption == Overlap \in BOOLEAN
ASSUME WorkersAssumption == LightWorkers \in Nat /\ HeavyWorkers \in Nat
ASSUME EntriesAssumption ==
  Entries \subseteq {"upload", "recordings", "room", "abort", "assemble",
                     "needs_work", "reject"}
ASSUME FaultsAssumption == Faults \subseteq {"work", "enqueue", "crash", "cancel", "late"}

JobKinds ==
  { "ingest", "detect", "cut", "preview", "intro", "outro", "concat",
    "loudness", "transcode", "publish" }

Requests ==
  { "ingest_recording", "attach_room", "submit_cut", "assembly",
    "cleanup", "abort_talk" }

MediaKeys == {"cut", "preview", "assemble", "loud", "final"}
ClipKeys == {"intro", "outro"}

VARIABLES
  talk,      \* the row of the talk
  slateRows, \* kinds of the slate jobs that ended with a row marked done
  approved,  \* the bounds in the newest ApprovedCut row
  reviewed,  \* history: what the preview showed when it was last approved
  raw,       \* the recording stored under each key of raw/
  media,     \* the video stored under each media key
  clip,      \* the slate stored under intro/ and outro/
  run,       \* what each slot is doing
  queue      \* the jobs waiting in Redis, first in first out

dbVars == <<talk, slateRows, approved, reviewed>>
storageVars == <<raw, media, clip>>
vars == <<talk, slateRows, approved, reviewed, raw, media, clip, run, queue>>

TalkRow ==
  [ status : TalkStatus, detected : Recordings \cup {None},
    bounds : Bounds \cup {None}, intro : ClipKind, outro : ClipKind ]

\* What a video file shows: which recording, which part, which slates.
Content ==
  [ rec : Recordings, bounds : Bounds \cup {None},
    intro : ClipKind, outro : ClipKind ]

ASSUME NoneAssumption == None \notin Content

Footage(c, b) == [rec |-> c, bounds |-> b, intro |-> "none", outro |-> "none"]

(***************************************************************************)
(* A slot.  phase: queued in Redis; reading (a request has read the row    *)
(* and not written yet), staged (its files are in place), sending (its row *)
(* is committed, Redis not yet told); started (a job's first session is    *)
(* committed and its inputs are open), stored (its output is in storage),  *)
(* committed (its second session is), failing (an exception is on its way  *)
(* to _handle_failure), rolledback (job_ingest has reverted its claim).    *)
(* row: the Job row of this run.  stop: RQ has been told to stop it.       *)
(***************************************************************************)
Executing == {"started", "stored", "committed", "failing", "rolledback"}
Phases == Executing \cup {"free", "queued", "reading", "staged", "sending"}

Run ==
  [ fn : JobKinds \cup Requests \cup {"none"}, phase : Phases,
    row : {"none", "running", "done", "deleted"},
    key : RawKeys \cup {None}, input : Content \cup {None},
    bounds : Bounds \cup {None}, seen : TalkRow \cup {None}, stop : BOOLEAN ]

Idle ==
  [ fn |-> "none", phase |-> "free", row |-> "none", key |-> None,
    input |-> None, bounds |-> None, seen |-> None, stop |-> FALSE ]

NewTalk ==
  [ status |-> "waiting_for_files", detected |-> None, bounds |-> None,
    intro |-> "none", outro |-> "none" ]

NoClips == [k \in ClipKeys |-> "none"]

Init ==
  /\ talk = NewTalk
  /\ slateRows = {}
  /\ approved = None
  /\ reviewed = None
  /\ raw = [k \in RawKeys |-> None]
  /\ media = [k \in MediaKeys |-> None]
  /\ clip = NoClips
  /\ run = [r \in Runs |-> Idle]
  /\ queue = [q \in {"light", "heavy"} |-> <<>>]

-------------------------------------------------------------------------------
(* The row, the queue and the slots *)

Advance(to) == CanAdvance(talk.status, to) /\ talk' = [talk EXCEPT !.status = to]

\* SQLAlchemy's UPDATE names only the columns whose new value differs from
\* the value the session loaded; the others keep what other sessions wrote.
Flush(loaded, new) ==
  LET column(c) == IF new[c] = loaded[c] THEN talk[c] ELSE new[c]
  IN  [ status |-> column("status"), detected |-> column("detected"),
        bounds |-> column("bounds"), intro |-> column("intro"),
        outro |-> column("outro") ]

Queued(kind) == [Idle EXCEPT !.fn = kind, !.phase = "queued"]

Request(fn, phase) == [Idle EXCEPT !.fn = fn, !.phase = phase]

QueueOf(kind) == IF kind = "transcode" THEN "heavy" ELSE "light"

Busy(q) ==
  {r \in Runs : run[r].phase \in Executing /\ QueueOf(run[r].fn) = q}

Workers == [light |-> LightWorkers, heavy |-> HeavyWorkers]

\* A free worker takes the next job of its queue.
Dequeues(r, kind) ==
  LET q == QueueOf(kind)
  IN  /\ run[r].fn = kind /\ run[r].phase = "queued"
      /\ queue[q] # <<>> /\ Head(queue[q]) = r
      /\ Cardinality(Busy(q)) < Workers[q]
      /\ queue' = [queue EXCEPT ![q] = Tail(@)]

\* Only a stop command that comes late finds the job a step further.
Alive(r) == run[r].stop => "late" \in Faults

At(r, kind, phase) == run[r].fn = kind /\ run[r].phase = phase /\ Alive(r)

\* A slot falls free, or is taken over by the job its job has enqueued.  The
\* done rows of slate jobs outlive the run: dispatch_assembly looks for them.
Becomes(r, next) ==
  /\ run' = [run EXCEPT ![r] = next]
  /\ queue' = IF next.phase = "queued"
              THEN [queue EXCEPT ![QueueOf(next.fn)] = Append(@, r)]
              ELSE queue
  /\ slateRows' = slateRows \cup
       {k \in ClipKeys : run[r].fn = k /\ run[r].row = "done"}

\* An exception ends what the slot was doing; see HandleFailure.
Raises(r) == run' = [run EXCEPT ![r].phase = "failing"]

SlateDone(kind) ==
  \/ kind \in slateRows
  \/ \E r \in Runs : run[r].fn = kind /\ run[r].row = "done"

\* The job dispatch_assembly enqueues.  job_concat is given the slates that
\* the row asked for; the row is kept in the slot for that.
NextAssembly ==
  IF talk.intro = "generated" /\ ~SlateDone("intro") THEN Queued("intro")
  ELSE IF talk.outro = "generated" /\ ~SlateDone("outro") THEN Queued("outro")
  ELSE [Queued("concat") EXCEPT !.seen = talk]

DispatchAssembly(r) ==
  IF talk.status \in {"assembling", "generating_previews"}
  THEN Becomes(r, NextAssembly)
  ELSE Becomes(r, Idle)

CleanupIntermediates ==
  /\ media' = [k \in MediaKeys |-> IF k = "final" THEN media[k] ELSE None]
  /\ clip' = NoClips

-------------------------------------------------------------------------------
(* Jobs: the first session, and the files read right after it *)

\* The job's row is inserted as running, then its inputs are read.
Begins(r, input, bounds) ==
  run' = [run EXCEPT ![r] =
    [@ EXCEPT !.row = "running", !.input = input, !.bounds = bounds,
              !.seen = None, !.stop = FALSE,
              !.phase = IF input = None THEN "failing" ELSE "started"]]

Discards(r) == run' = [run EXCEPT ![r] = Idle]

\* Faulty: a talk that another upload has claimed is claimed again.
IngestStartTwice(r) ==
  /\ Dequeues(r, "ingest")
  /\ IF talk.status \in {"waiting_for_files", "detecting"}
     THEN /\ talk' = [talk EXCEPT !.status = "detecting"]
          /\ Begins(r, run[r].input, None)
     ELSE Discards(r) /\ UNCHANGED talk
  /\ UNCHANGED <<slateRows, approved, reviewed, storageVars>>

IngestStart(r) ==
  /\ Dequeues(r, "ingest")
  /\ IF talk.status = "waiting_for_files"
     THEN Advance("detecting") /\ Begins(r, run[r].input, None)
     ELSE Discards(r) /\ UNCHANGED talk
  /\ UNCHANGED <<slateRows, approved, reviewed, storageVars>>

\* Faulty: the file is taken to be there.
RawFootageUnchecked(k) == Footage(raw[k], None)

\* The recording under a key of raw/, uncut.
RawFootage(k) == IF raw[k] = None THEN None ELSE Footage(raw[k], None)

DetectStart(r) ==
  /\ Dequeues(r, "detect")
  /\ IF talk.status = "detecting"
     THEN Begins(r, RawFootage(run[r].key), run[r].bounds)
     ELSE Discards(r)
  /\ UNCHANGED <<dbVars, storageVars>>

CutStart(r) ==
  /\ Dequeues(r, "cut")
  /\ IF talk.bounds = None
     THEN Raises(r)
     ELSE LET k == run[r].key
          IN  Begins(r, IF raw[k] = None THEN None
                        ELSE Footage(raw[k], talk.bounds), None)
  /\ UNCHANGED <<dbVars, storageVars>>

PreviewStart(r) ==
  /\ Dequeues(r, "preview")
  /\ Begins(r, media["cut"], None)
  /\ UNCHANGED <<dbVars, storageVars>>

\* job_intro and job_outro need no input: they only probe the cut, if any.
SlateStart(r, kind) ==
  /\ Dequeues(r, kind)
  /\ run' = [run EXCEPT ![r] = [@ EXCEPT !.row = "running", !.phase = "started"]]
  /\ UNCHANGED <<dbVars, storageVars>>

IntroStart(r) == SlateStart(r, "intro")
OutroStart(r) == SlateStart(r, "outro")

ConcatStart(r) ==
  /\ Dequeues(r, "concat")
  /\ LET missing == \E k \in ClipKeys : run[r].seen[k] # "none" /\ clip[k] = "none"
     IN  Begins(r, IF missing THEN None ELSE media["cut"], None)
  /\ UNCHANGED <<dbVars, storageVars>>

LoudnessStart(r) ==
  /\ Dequeues(r, "loudness")
  /\ IF talk.status = "assembling" THEN Begins(r, media["assemble"], None)
                                   ELSE Discards(r)
  /\ UNCHANGED <<dbVars, storageVars>>

\* The slates are stitched here, each one if it is wanted and if it exists.
TranscodeStart(r) ==
  /\ Dequeues(r, "transcode")
  /\ LET slate(k) == IF talk[k] = "none" THEN "none" ELSE clip[k]
         loud == media["loud"]
     IN  Begins(r, IF loud = None THEN None
                   ELSE [loud EXCEPT !.intro = slate("intro"),
                                     !.outro = slate("outro")], None)
  /\ UNCHANGED <<dbVars, storageVars>>

PublishStart(r) ==
  /\ Dequeues(r, "publish")
  /\ Begins(r, media["final"], None)
  /\ UNCHANGED <<dbVars, storageVars>>

JobStart(r) ==
  \/ IngestStart(r) \/ DetectStart(r) \/ CutStart(r) \/ PreviewStart(r)
  \/ IntroStart(r) \/ OutroStart(r)
  \/ ConcatStart(r) \/ LoudnessStart(r) \/ TranscodeStart(r) \/ PublishStart(r)

-------------------------------------------------------------------------------
(* Jobs: the output is put in storage *)

Stores(r, kind) ==
  /\ At(r, kind, "started")
  /\ run' = [run EXCEPT ![r].phase = "stored"]
  /\ UNCHANGED <<dbVars, queue>>

IngestStore(r) ==
  /\ Stores(r, "ingest")
  /\ raw' = [raw EXCEPT ![run[r].key] = run[r].input.rec]
  /\ UNCHANGED <<media, clip>>

\* The media key each job writes; job_publish copies the final video onto itself.
Output ==
  [ cut |-> "cut", preview |-> "preview", concat |-> "assemble",
    loudness |-> "loud", transcode |-> "final", publish |-> "final" ]

\* Faulty: a file that exists is kept.
MediaStoreKeeps(r) ==
  \E kind \in DOMAIN Output :
    /\ Stores(r, kind)
    /\ media' = [media EXCEPT ![Output[kind]] =
                   IF @ = None THEN run[r].input ELSE @]
    /\ UNCHANGED <<raw, clip>>

MediaStore(r) ==
  \E kind \in DOMAIN Output :
    /\ Stores(r, kind)
    /\ media' = [media EXCEPT ![Output[kind]] = run[r].input]
    /\ UNCHANGED <<raw, clip>>

SlateStore(r) ==
  \E kind \in ClipKeys :
    /\ Stores(r, kind)
    /\ clip' = [clip EXCEPT ![kind] = "generated"]
    /\ UNCHANGED <<raw, media>>

JobStore(r) == IngestStore(r) \/ MediaStore(r) \/ SlateStore(r)

-------------------------------------------------------------------------------
(* Jobs: the second session.  The result counts only if the job's row is   *)
(* still there and the talk still has the status the job works for;        *)
(* otherwise the row, if any, is cancelled.                                *)

\* Faulty: nobody looks whether the job's row is still there.
AcceptedWithoutRow(r, expected) == talk.status \in expected

Accepted(r, expected) == run[r].row = "running" /\ talk.status \in expected

MarksDone(r) ==
  /\ run' = [run EXCEPT ![r] = [@ EXCEPT !.row = "done", !.phase = "committed",
                                         !.input = None]]
  /\ UNCHANGED slateRows

Settles(r, kind, phase) ==
  At(r, kind, phase) /\ UNCHANGED <<approved, reviewed, storageVars, queue>>

Rejected(r) == Discards(r) /\ UNCHANGED <<talk, slateRows>>

\* job_ingest has claimed the talk already: only its row changes.
IngestCommit(r) ==
  /\ Settles(r, "ingest", "stored")
  /\ IF Accepted(r, {"detecting"}) THEN MarksDone(r) /\ UNCHANGED talk
                                   ELSE Rejected(r)

DetectCommit(r) ==
  /\ Settles(r, "detect", "started")
  /\ IF Accepted(r, {"detecting"})
     THEN /\ talk' = [talk EXCEPT
               !.status = "pending_approval", !.detected = run[r].input.rec,
               !.bounds = IF @ = None THEN run[r].bounds ELSE @]
          /\ Becomes(r, Idle)
     ELSE Rejected(r)

CutCommit(r) ==
  /\ Settles(r, "cut", "stored")
  /\ IF Accepted(r, {"cutting"}) THEN Advance("generating_previews") /\ MarksDone(r)
                                 ELSE Rejected(r)

PreviewCommit(r) ==
  /\ Settles(r, "preview", "stored")
  /\ IF Accepted(r, {"generating_previews"})
     THEN Advance("preview") /\ Becomes(r, Idle)
     ELSE Rejected(r)

\* A slate finished while previews are generated dispatches nothing.
SlateCommit(r, kind) ==
  /\ Settles(r, kind, "stored")
  /\ IF Accepted(r, {"assembling", "generating_previews"})
     THEN /\ UNCHANGED talk
          /\ IF talk.status = "assembling"
             THEN MarksDone(r)
             ELSE Discards(r) /\ slateRows' = slateRows \cup {kind}
     ELSE Rejected(r)

IntroCommit(r) == SlateCommit(r, "intro")
OutroCommit(r) == SlateCommit(r, "outro")

ConcatCommit(r) ==
  /\ Settles(r, "concat", "stored")
  /\ IF Accepted(r, {"assembling"}) THEN MarksDone(r) /\ UNCHANGED talk
                                    ELSE Rejected(r)

LoudnessCommit(r) ==
  /\ Settles(r, "loudness", "stored")
  /\ IF Accepted(r, {"assembling"}) THEN Advance("transcoding") /\ MarksDone(r)
                                    ELSE Rejected(r)

TranscodeCommit(r) ==
  /\ Settles(r, "transcode", "stored")
  /\ IF Accepted(r, {"transcoding"}) THEN Advance("uploading") /\ MarksDone(r)
                                     ELSE Rejected(r)

PublishCommit(r) ==
  /\ Settles(r, "publish", "stored")
  /\ IF Accepted(r, {"uploading"}) THEN Advance("done") /\ MarksDone(r)
                                   ELSE Rejected(r)

JobCommit(r) ==
  \/ IngestCommit(r) \/ DetectCommit(r) \/ CutCommit(r) \/ PreviewCommit(r)
  \/ IntroCommit(r) \/ OutroCommit(r)
  \/ ConcatCommit(r) \/ LoudnessCommit(r) \/ TranscodeCommit(r) \/ PublishCommit(r)

-------------------------------------------------------------------------------
(* Jobs: what follows the second session, and failure *)

\* The successor is enqueued, or Redis refuses and the job raises.
Enqueues(r, next) ==
  \/ Becomes(r, next)
  \/ "enqueue" \in Faults /\ Raises(r) /\ UNCHANGED <<slateRows, queue>>

Continues(r, kind, next) ==
  /\ At(r, kind, "committed")
  /\ Enqueues(r, next)
  /\ UNCHANGED <<talk, approved, reviewed>>

IngestNext(r) ==
  /\ Continues(r, "ingest", [Queued("detect") EXCEPT !.key = run[r].key])
  /\ UNCHANGED storageVars

\* Faulty: job_cut forgets its successor.
CutNextForgets(r) ==
  /\ At(r, "cut", "committed")
  /\ Becomes(r, Idle)
  /\ UNCHANGED <<talk, approved, reviewed, storageVars>>

CutNext(r) == Continues(r, "cut", Queued("preview")) /\ UNCHANGED storageVars

SlateNext(r) ==
  /\ \E kind \in ClipKeys : At(r, kind, "committed")
  /\ \/ DispatchAssembly(r)
     \/ "enqueue" \in Faults /\ Raises(r) /\ UNCHANGED <<slateRows, queue>>
  /\ UNCHANGED <<talk, approved, reviewed, storageVars>>

ConcatNext(r) == Continues(r, "concat", Queued("loudness")) /\ UNCHANGED storageVars

\* Faulty: the slates are cleaned up one stage too early.
LoudnessNextCleans(r) ==
  /\ Continues(r, "loudness", Queued("transcode"))
  /\ clip' = NoClips /\ UNCHANGED <<raw, media>>

LoudnessNext(r) ==
  Continues(r, "loudness", Queued("transcode")) /\ UNCHANGED storageVars

\* cleanup_bumpers comes before the enqueue.
TranscodeNext(r) ==
  /\ Continues(r, "transcode", Queued("publish"))
  /\ clip' = NoClips /\ UNCHANGED <<raw, media>>

PublishNext(r) ==
  /\ At(r, "publish", "committed")
  /\ CleanupIntermediates
  /\ Discards(r)
  /\ UNCHANGED <<dbVars, raw, queue>>

JobNext(r) ==
  \/ IngestNext(r) \/ CutNext(r) \/ SlateNext(r) \/ ConcatNext(r)
  \/ LoudnessNext(r) \/ TranscodeNext(r) \/ PublishNext(r)

\* ffmpeg, the detection or the disk lets the job down.
WorkFails(r) ==
  /\ "work" \in Faults
  /\ run[r].phase = "started" /\ Alive(r)
  /\ Raises(r)
  /\ UNCHANGED <<dbVars, storageVars, queue>>

\* job_ingest first gives its claim back, whoever holds it by now.
IngestRollback(r) ==
  /\ At(r, "ingest", "failing")
  /\ talk' = [talk EXCEPT !.status =
       IF @ = "detecting" THEN "waiting_for_files" ELSE @]
  /\ run' = [run EXCEPT ![r].phase = "rolledback"]
  /\ UNCHANGED <<slateRows, approved, reviewed, storageVars, queue>>

\* _handle_failure: nothing if the job's row is gone, else the row is failed
\* and the talk broken.  A job that never had a row breaks the talk too.
HandleFailure(r) ==
  /\ \/ run[r].phase = "failing" /\ run[r].fn # "ingest"
     \/ run[r].phase = "rolledback"
  /\ Alive(r)
  /\ talk' = IF run[r].row = "deleted" THEN talk
             ELSE [talk EXCEPT !.status = AfterFailure(@)]
  /\ Discards(r)
  /\ UNCHANGED <<slateRows, approved, reviewed, storageVars, queue>>

JobFailure(r) == WorkFails(r) \/ IngestRollback(r) \/ HandleFailure(r)

\* The work-horse process obeys the stop command, at whatever point it is.
Killed(r) ==
  /\ run[r].stop /\ run[r].phase \in Executing
  /\ Becomes(r, Idle)
  /\ UNCHANGED <<talk, approved, reviewed, storageVars>>

\* A worker or the web process dies.  Nothing retries what it was doing.
Crashes(r) ==
  /\ "crash" \in Faults
  /\ run[r].phase \notin {"free", "queued"}
  /\ Becomes(r, Idle)
  /\ UNCHANGED <<talk, approved, reviewed, storageVars>>

-------------------------------------------------------------------------------
(* Requests that lock the talk's row: one step up to their commit *)

MayAsk == Overlap \/ \A r \in Runs : run[r].fn \notin Requests

Takes(r, request) == MayAsk /\ run[r] = Idle /\ Becomes(r, request)

UploadRecording(r) ==
  /\ "upload" \in Entries
  /\ talk.status = "waiting_for_files"
  /\ \E c \in Recordings :
       Takes(r, [Queued("ingest") EXCEPT !.key = UploadKey,
                                         !.input = Footage(c, None)])
  /\ UNCHANGED <<dbVars, storageVars>>

\* Faulty: the status is not checked.
ApproveTalkAnytime ==
  /\ MayAsk
  /\ talk' = [talk EXCEPT !.status = "pending_intro_outro"]
  /\ UNCHANGED <<slateRows, approved, reviewed, storageVars, run, queue>>

ApproveTalk ==
  /\ MayAsk
  /\ talk.status = "pending_approval"
  /\ Advance("pending_intro_outro")
  /\ UNCHANGED <<slateRows, approved, reviewed, storageVars, run, queue>>

\* decision = reject; the cleanup follows the commit.
RejectTalk(r) ==
  /\ "reject" \in Entries
  /\ talk.status = "pending_approval"
  /\ Advance("rejected")
  /\ Takes(r, Request("cleanup", "sending"))
  /\ UNCHANGED <<slateRows, approved, reviewed, storageVars>>

\* _apply_intro_outro_config: a custom clip is stored at once, a generated
\* one will be; what an earlier choice left in storage stays.
ConfiguresSlates(intro, outro, status) ==
  /\ CanAdvance(talk.status, status)
  /\ talk' = [talk EXCEPT !.intro = intro, !.outro = outro, !.status = status]
  /\ clip' = [intro |-> IF intro = "custom" THEN "custom" ELSE clip["intro"],
              outro |-> IF outro = "custom" THEN "custom" ELSE clip["outro"]]

HandoffTalk ==
  /\ MayAsk
  /\ talk.status = "pending_intro_outro"
  /\ \E i, o \in Bumpers : ConfiguresSlates(i, o, "pending_bounds")
  /\ UNCHANGED <<slateRows, approved, reviewed, raw, media, run, queue>>

ConfigureAssembly(r) ==
  /\ "assemble" \in Entries
  /\ talk.status = "pending_intro_outro"
  /\ media["cut"] # None
  /\ \E i, o \in Bumpers : ConfiguresSlates(i, o, "assembling")
  /\ Takes(r, Request("assembly", "sending"))
  /\ UNCHANGED <<slateRows, approved, reviewed, raw, media>>

\* raw_keys[0]
FirstRawKey == CHOOSE k \in RawKeys :
  /\ raw[k] # None
  /\ \A j \in RawKeys : raw[j] # None => k <= j

\* Faulty: the bounds are not compared with the duration.
SubmitCutBoundsUnchecked(r) ==
  /\ talk.status \in {"pending_bounds", "needs_work"}
  /\ talk.detected # None
  /\ \E k \in RawKeys : raw[k] # None
  /\ \E b \in Bounds : talk' = [talk EXCEPT !.status = "cutting", !.bounds = b]
  /\ Takes(r, [Request("submit_cut", "sending") EXCEPT !.key = FirstRawKey])
  /\ UNCHANGED <<slateRows, approved, reviewed, storageVars>>

SubmitCutBounds(r) ==
  /\ talk.status \in {"pending_bounds", "needs_work"}
  /\ talk.detected # None
  /\ \E k \in RawKeys : raw[k] # None
  /\ \E b \in Fits[talk.detected] :
       talk' = [talk EXCEPT !.status = "cutting", !.bounds = b]
  /\ Takes(r, [Request("submit_cut", "sending") EXCEPT !.key = FirstRawKey])
  /\ UNCHANGED <<slateRows, approved, reviewed, storageVars>>

HandleApprove(r) ==
  /\ talk.status = "preview"
  /\ talk.bounds # None
  /\ Advance("assembling")
  /\ approved' = talk.bounds
  /\ reviewed' = media["preview"]
  /\ Takes(r, Request("assembly", "sending"))
  /\ UNCHANGED <<slateRows, storageVars>>

\* Faulty: an approved talk can still be sent back.
HandleNeedsWorkLate ==
  /\ MayAsk /\ "needs_work" \in Entries
  /\ talk.status \in {"preview", "assembling"}
  /\ talk' = [talk EXCEPT !.status = "pending_bounds"]
  /\ UNCHANGED <<slateRows, approved, reviewed, storageVars, run, queue>>

HandleNeedsWork ==
  /\ MayAsk /\ "needs_work" \in Entries
  /\ talk.status = "preview"
  /\ Advance("pending_bounds")
  /\ UNCHANGED <<slateRows, approved, reviewed, storageVars, run, queue>>

HandleReject(r) ==
  /\ "reject" \in Entries
  /\ talk.status = "preview"
  /\ talk' = [talk EXCEPT !.status = "pending_bounds", !.bounds = None]
  /\ Takes(r, Request("cleanup", "sending"))
  /\ UNCHANGED <<slateRows, approved, reviewed, storageVars>>

-------------------------------------------------------------------------------
(* What those requests do after their commit *)

\* The first job is enqueued; if Redis refuses, the request fails and the
\* status stays as committed.
SubmitCutSends(r) ==
  /\ At(r, "submit_cut", "sending")
  /\ \/ Becomes(r, [Queued("cut") EXCEPT !.key = run[r].key])
     \/ "enqueue" \in Faults /\ Becomes(r, Idle)
  /\ UNCHANGED <<talk, approved, reviewed, storageVars>>

\* handle_approve and configure_assembly call dispatch_assembly and break
\* the talk when it raises.
AssemblySends(r) ==
  /\ At(r, "assembly", "sending")
  /\ \/ DispatchAssembly(r) /\ UNCHANGED talk
     \/ /\ "enqueue" \in Faults
        /\ talk.status \in {"assembling", "generating_previews"}
        /\ Becomes(r, Idle)
        /\ Advance("broken")
  /\ UNCHANGED <<approved, reviewed, storageVars>>

CleanupSends(r) ==
  /\ At(r, "cleanup", "sending")
  /\ CleanupIntermediates
  /\ Becomes(r, Idle)
  /\ UNCHANGED <<talk, approved, reviewed, raw>>

-------------------------------------------------------------------------------
(* POST /talks/{id}/recordings: the row is read without a lock *)

IngestRecordingReads(r) ==
  /\ "recordings" \in Entries
  /\ talk.status = "waiting_for_files"
  /\ \E c \in Recordings, k \in RawKeys, b \in Bounds \cup {None} :
       /\ b = None \/ b \in Fits[c]
       /\ Takes(r, [Request("ingest_recording", "reading") EXCEPT
            !.input = Footage(c, None), !.key = k, !.bounds = b, !.seen = talk])
  /\ UNCHANGED <<dbVars, storageVars>>

IngestRecordingStages(r) ==
  /\ At(r, "ingest_recording", "reading")
  /\ raw' = [raw EXCEPT ![run[r].key] = run[r].input.rec]
  /\ run' = [run EXCEPT ![r].phase = "staged"]
  /\ UNCHANGED <<dbVars, media, clip, queue>>

IngestRecordingCommits(r) ==
  /\ At(r, "ingest_recording", "staged")
  /\ talk' = Flush(run[r].seen, [run[r].seen EXCEPT !.status = "detecting"])
  /\ run' = [run EXCEPT ![r] = [@ EXCEPT !.phase = "sending", !.seen = None,
                                         !.input = None]]
  /\ UNCHANGED <<slateRows, approved, reviewed, storageVars, queue>>

\* A detect job, carrying the bounds that the start of the recording implies.
DetectFor(r) ==
  [Queued("detect") EXCEPT !.key = run[r].key, !.bounds = run[r].bounds]

IngestRecordingSends(r) ==
  /\ At(r, "ingest_recording", "sending")
  /\ \/ Becomes(r, DetectFor(r))
     \/ "enqueue" \in Faults /\ Becomes(r, Idle)
  /\ UNCHANGED <<talk, approved, reviewed, storageVars>>

-------------------------------------------------------------------------------
(* _cancel_talk_jobs: queued jobs disappear, running ones are told to stop *)

IsJob(r) == run[r].fn \in JobKinds

\* Faulty: only the light queue is searched.
CancelledLight(r) ==
  IF ~IsJob(r) \/ run[r].fn = "transcode" THEN run[r]
  ELSE IF run[r].phase = "queued" THEN Idle
  ELSE [run[r] EXCEPT !.stop = TRUE]

\* Faulty: running jobs are not stopped.
CancelledQueued(r) ==
  IF IsJob(r) /\ run[r].phase = "queued" THEN Idle ELSE run[r]

Cancelled(r) ==
  IF ~IsJob(r) THEN run[r]
  ELSE IF run[r].phase = "queued" THEN Idle
  ELSE [run[r] EXCEPT !.stop = TRUE]

\* What is left of a list when jobs are taken out of it: a recursive function
\* does what SelectSeq does, and can be reasoned about.
Without(list, jobs) ==
  LET kept[i \in 0..Len(list)] ==
        IF i = 0 THEN <<>>
        ELSE IF list[i] \in jobs THEN kept[i - 1] ELSE Append(kept[i - 1], list[i])
  IN  kept[Len(list)]

\* Faulty: the identifiers of cancelled jobs stay in the queue.
CancelJobsKeepsIds(self, jobs, next) ==
  /\ run' = [r \in Runs |-> IF r = self THEN next
                            ELSE IF r \in jobs THEN Cancelled(r) ELSE run[r]]
  /\ UNCHANGED queue

\* self is the request that cancels; jobs are the ones that Redis lets it reach.
CancelJobs(self, jobs, next) ==
  /\ run' = [r \in Runs |-> IF r = self THEN next
                            ELSE IF r \in jobs THEN Cancelled(r) ELSE run[r]]
  /\ queue' = [q \in DOMAIN queue |-> Without(queue[q], jobs)]

WipeStorage ==
  /\ raw' = [k \in RawKeys |-> None]
  /\ media' = [k \in MediaKeys |-> None]
  /\ clip' = NoClips

\* Some commands fail: the rest is still attempted, then the request gives up.
CancelFails(self) ==
  /\ "cancel" \in Faults
  /\ \E jobs \in SUBSET (Runs \ {self}) : CancelJobs(self, jobs, Idle)

-------------------------------------------------------------------------------
(* POST /talks/{id}/abort *)

AbortReads(r) ==
  /\ "abort" \in Entries
  /\ Takes(r, [Request("abort_talk", "reading") EXCEPT !.seen = talk])
  /\ UNCHANGED <<dbVars, storageVars>>

AbortCancels(r) ==
  /\ At(r, "abort_talk", "reading")
  /\ CancelJobs(r, Runs, [run[r] EXCEPT !.phase = "staged"])
  /\ WipeStorage
  /\ UNCHANGED dbVars

AbortFails(r) ==
  /\ At(r, "abort_talk", "reading")
  /\ CancelFails(r)
  /\ WipeStorage \/ UNCHANGED storageVars
  /\ UNCHANGED dbVars

\* Faulty: the status is not reset.
AbortCommitsStatus(r) ==
  /\ At(r, "abort_talk", "staged")
  /\ talk' = Flush(run[r].seen, [NewTalk EXCEPT !.status = run[r].seen.status])
  /\ slateRows' = {}
  /\ run' = [s \in Runs |->
       IF s = r THEN Idle
       ELSE [run[s] EXCEPT !.row = IF @ = "none" THEN @ ELSE "deleted"]]
  /\ UNCHANGED <<approved, reviewed, storageVars, queue>>

\* The job rows are deleted, running or not, and the row of the talk is reset;
\* its ApprovedCut rows stay.
AbortCommits(r) ==
  /\ At(r, "abort_talk", "staged")
  /\ talk' = Flush(run[r].seen, NewTalk)
  /\ slateRows' = {}
  /\ run' = [s \in Runs |->
       IF s = r THEN Idle
       ELSE [run[s] EXCEPT !.row = IF @ = "none" THEN @ ELSE "deleted"]]
  /\ UNCHANGED <<approved, reviewed, storageVars, queue>>

-------------------------------------------------------------------------------
(* POST /talks/attach-room-recording, for the one talk of this model *)

\* Faulty: talks that have their files take part too.
AttachReadsAnytime(r) ==
  /\ "room" \in Entries
  /\ \E c \in Recordings : \E b \in Fits[c] \cup {None} :
       Takes(r, [Request("attach_room", "reading") EXCEPT
         !.input = Footage(c, None), !.key = UploadKey, !.bounds = b, !.seen = talk])
  /\ UNCHANGED <<dbVars, storageVars>>

AttachReads(r) ==
  /\ "room" \in Entries
  /\ talk.status \in {"waiting_for_files", "detecting", "broken"}
  /\ \E c \in Recordings : \E b \in Fits[c] \cup {None} :
       Takes(r, [Request("attach_room", "reading") EXCEPT
         !.input = Footage(c, None), !.key = UploadKey, !.bounds = b, !.seen = talk])
  /\ UNCHANGED <<dbVars, storageVars>>

\* The jobs of a talk that was being detected are cancelled; their rows and
\* files are left.  Then the recording takes the place of raw/raw.mp4.
AttachStages(r) ==
  /\ At(r, "attach_room", "reading")
  /\ LET jobs == IF run[r].seen.status = "detecting" THEN Runs ELSE {}
     IN  CancelJobs(r, jobs, [run[r] EXCEPT !.phase = "staged"])
  /\ raw' = [raw EXCEPT ![UploadKey] = run[r].input.rec]
  /\ UNCHANGED <<dbVars, media, clip>>

AttachFails(r) ==
  /\ At(r, "attach_room", "reading")
  /\ run[r].seen.status = "detecting"
  /\ CancelFails(r)
  /\ UNCHANGED <<dbVars, storageVars>>

AttachCommits(r) ==
  /\ At(r, "attach_room", "staged")
  /\ LET seen == run[r].seen
         seed == run[r].bounds
     IN  talk' = Flush(seen, [seen EXCEPT
           !.status = "detecting", !.detected = run[r].input.rec,
           !.bounds = IF seed = None THEN @ ELSE seed])
  /\ run' = [run EXCEPT ![r] = [@ EXCEPT !.phase = "sending", !.seen = None,
                                         !.input = None]]
  /\ UNCHANGED <<slateRows, approved, reviewed, storageVars, queue>>

AttachSends(r) ==
  /\ At(r, "attach_room", "sending")
  /\ \/ Becomes(r, DetectFor(r)) /\ UNCHANGED talk
     \/ /\ "enqueue" \in Faults
        /\ Becomes(r, Idle)
        /\ talk' = [talk EXCEPT !.status = IF @ = "detecting" THEN "broken" ELSE @]
  /\ UNCHANGED <<approved, reviewed, storageVars>>

-------------------------------------------------------------------------------

\* The steps the system takes by itself once work is queued or begun.
Job(r) == JobStart(r) \/ JobStore(r) \/ JobCommit(r) \/ JobNext(r) \/ JobFailure(r)

Sends(r) ==
  \/ SubmitCutSends(r) \/ AssemblySends(r) \/ CleanupSends(r)
  \/ IngestRecordingSends(r) \/ AttachSends(r)

Unlocked(r) ==
  \/ IngestRecordingStages(r) \/ IngestRecordingCommits(r)
  \/ AbortCancels(r) \/ AbortFails(r) \/ AbortCommits(r)
  \/ AttachStages(r) \/ AttachFails(r) \/ AttachCommits(r)

\* What people and other systems ask for.
Asks(r) ==
  \/ UploadRecording(r) \/ IngestRecordingReads(r) \/ AttachReads(r)
  \/ RejectTalk(r) \/ ConfigureAssembly(r) \/ SubmitCutBounds(r)
  \/ HandleApprove(r) \/ HandleReject(r) \/ AbortReads(r)

Decides == ApproveTalk \/ HandoffTalk \/ HandleNeedsWork

Next ==
  \/ \E r \in Runs : \/ Job(r) \/ Sends(r) \/ Unlocked(r)
                     \/ Killed(r) \/ Crashes(r) \/ Asks(r)
  \/ Decides

Spec == Init /\ [][Next]_vars

\* Workers run and requests finish; nobody has to ask for anything.  A stop
\* command may come too late, so nothing is assumed of Killed.
Fairness == \A r \in Runs : WF_vars(Job(r)) /\ WF_vars(Sends(r) \/ Unlocked(r))

FairSpec == Spec /\ Fairness
===============================================================================
