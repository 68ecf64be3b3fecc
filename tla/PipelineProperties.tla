-------------------------- MODULE PipelineProperties --------------------------
(***************************************************************************)
(* What veditor promises about one talk, stated over Pipeline.             *)
(***************************************************************************)
EXTENDS Pipeline

\* Every variable has the type its column, key or slot has in the code.
TypeOK ==
  /\ talk \in TalkRow
  /\ slateRows \subseteq ClipKeys
  /\ approved \in Bounds \cup {None}
  /\ reviewed \in Content \cup {None}
  /\ raw \in [RawKeys -> Recordings \cup {None}]
  /\ media \in [MediaKeys -> Content \cup {None}]
  /\ clip \in [ClipKeys -> ClipKind]
  /\ run \in [Runs -> Run]

\* Redis holds each queued job once, in the queue of its kind, and nothing
\* else: every enqueue, every dequeue by a worker and every cancellation by
\* _cancel_talk_jobs keeps the job and its identifier together.
QueueOK ==
  \A q \in {"light", "heavy"} :
    LET waiting == {r \in Runs : run[r].phase = "queued" /\ QueueOf(run[r].fn) = q}
    IN  /\ Len(queue[q]) = Cardinality(waiting)
        /\ waiting = {queue[q][i] : i \in 1..Len(queue[q])}

-------------------------------------------------------------------------------
(* Which slot the current status waits for *)

\* The status in which a job's result is accepted.
WorksFor(fn) ==
  CASE fn \in {"ingest", "detect"} -> "detecting"
    [] fn = "cut" -> "cutting"
    [] fn = "preview" -> "generating_previews"
    [] fn \in {"intro", "outro", "concat", "loudness"} -> "assembling"
    [] fn = "transcode" -> "transcoding"
    [] fn = "publish" -> "uploading"

\* The status a job or a request has committed and not yet enqueued work for.
HandsOver(fn) ==
  CASE fn \in {"ingest", "ingest_recording", "attach_room"} -> "detecting"
    [] fn = "submit_cut" -> "cutting"
    [] fn = "cut" -> "generating_previews"
    [] fn \in {"assembly", "intro", "outro", "concat"} -> "assembling"
    [] fn = "loudness" -> "transcoding"
    [] fn = "transcode" -> "uploading"
    [] OTHER -> "none"

\* The slot's next effect on the talk is the one its status waits for.
Carries(r) ==
  /\ ~run[r].stop
  /\ \/ /\ run[r].phase = "queued" /\ run[r].fn # "ingest"
        /\ WorksFor(run[r].fn) = talk.status
     \/ /\ run[r].phase \in {"started", "stored"} /\ run[r].row = "running"
        /\ WorksFor(run[r].fn) = talk.status
     \/ /\ run[r].phase \in {"committed", "sending"}
        /\ HandsOver(run[r].fn) = talk.status
     \/ run[r].phase \in {"failing", "rolledback"} /\ run[r].row # "deleted"

Carriers == {r \in Runs : Carries(r)}

\* A request is taking the talk's jobs and files apart.
Interrupted ==
  \E r \in Runs : /\ run[r].fn \in {"abort_talk", "attach_room"}
                  /\ run[r].phase \in {"reading", "staged"}

\* A talk in a processing status has work under way that will move it on or
\* break it.  Commit and enqueue are two steps (tasks.py), and an abort comes
\* between any two.  "detecting" is left out: see AbortResets.
NeverStranded ==
  talk.status \in Processing \ {"detecting"} /\ ~Interrupted => Carriers # {}

\* No two jobs compete to move the talk: the claim in job_ingest, the status
\* checks of the second sessions and an abort's cancellations see to it, even
\* with two workers on the queue and several uploads waiting.
OneCarrier ==
  talk.status \in Processing /\ ~Interrupted => Cardinality(Carriers) <= 1

SameCut(v, w) == v.rec = w.rec /\ v.bounds = w.bounds

\* The published video is the cut whose preview was approved: nothing that
\* an abort or a return to pending_bounds left running or left in storage
\* comes between handle_approve and job_publish.
PublishedIsReviewed ==
  talk.status = "done" /\ ~Interrupted =>
    media["final"] # None /\ reviewed # None /\ SameCut(media["final"], reviewed)

\* The bounds that handle_approve keeps in an ApprovedCut row are those of the
\* preview the reviewer was shown, not the ones some other attempt left in the
\* row of the talk or in storage.
ApprovedIsShown ==
  approved # None => reviewed # None /\ reviewed.bounds = approved

\* The published video carries the slates that were asked for.  job_transcode
\* skips a slate that is not in storage without a word, so this rests on
\* dispatch_assembly and on the moment of the clean-ups.
PublishedHasSlates ==
  talk.status = "done" /\ ~Interrupted =>
    /\ media["final"] # None
    /\ \A k \in ClipKeys : media["final"][k] = talk[k]

\* A cut lies within the recording it is cut from: submit_cut_bounds compares
\* the bounds with the duration of the recording job_detect saw, job_cut opens
\* the first file under raw/ later.
CutWithinFile ==
  media["cut"] # None => media["cut"].bounds \in Fits[media["cut"].rec]

\* What the reviewer is shown is the talk as configured: in status preview,
\* preview.mp4 was made from the detected recording with the bounds in the row,
\* whatever earlier rounds of cutting put under the same keys.
PreviewIsCurrent ==
  talk.status = "preview" /\ ~Interrupted =>
    /\ media["preview"] # None
    /\ media["preview"] = Footage(talk.detected, talk.bounds)

Lifecycle == INSTANCE TalkLifecycle WITH status <- talk.status

\* The talk lives as TalkLifecycle says: each step of a job, request or failure
\* moves its status along TRANSITIONS, resets it, revives it, or leaves it,
\* though job_ingest, abort_talk and attach_room_recording assign the status
\* without advance() and sessions write back what they read long before.
ImplementsLifecycle == Lifecycle!Spec

\* A job whose row an abort has deleted leaves the talk alone, whatever is left
\* of it: the second sessions and _handle_failure look for the row first.  Not
\* so job_ingest, which gives its claim back without looking (tasks.py:244).
DeletedIsInert ==
  [][\A r \in Runs :
       /\ run[r].row = "deleted" /\ run[r].fn # "ingest"
       /\ run'[r] # run[r]
       /\ \A s \in Runs \ {r} : run'[s] = run[s]
       => talk' = talk]_vars

\* Work ends: a talk that is being processed gets to a status where a person
\* decides, or to an end.  Each stage must enqueue its successor, and each
\* failure must break the talk.
WorkEnds == talk.status \in Processing ~> talk.status \notin Processing

-------------------------------------------------------------------------------
(* What comments and docstrings say, and the code does not keep to *)

\* An abort "resets talk status back to 'waiting_for_files'" (abort_talk).
AbortResets ==
  [][\A r \in Runs : AbortCommits(r) => talk'.status = "waiting_for_files"]_vars

\* An abort "Cancels queued and active RQ jobs for the given talk across all
\* queues, and removes its artifacts from storage" (_cancel_talk_jobs): when it
\* commits, no job waits in Redis and nothing that was made of the recording is
\* left to the next attempt.
AbortCleansUp ==
  [][\A r \in Runs : AbortCommits(r) =>
       /\ \A s \in Runs : run[s].phase # "queued"
       /\ \A k \in DOMAIN media : media[k] = None]_vars

\* When dispatch_assembly enqueues job_concat, "All input slates are ready (or
\* skipped)": each slate the row asks for is in storage.
SlatesReady ==
  [][\A r \in Runs : \A k \in ClipKeys :
       At(r, "concat", "queued")' /\ ~At(r, "concat", "queued") /\ talk[k] # "none"
       => clip[k] # "none"]_vars

\* ingest_recording "Returns 409 if talk status is not 'waiting_for_files'": a
\* request that goes through to its commit found the talk waiting.
IngestsWaiting ==
  [][\A r \in Runs :
       IngestRecordingCommits(r) => talk.status = "waiting_for_files"]_vars
===============================================================================
