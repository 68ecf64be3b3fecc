---------------------------- MODULE PipelineProofs ----------------------------
(***************************************************************************)
(* Pipeline for every value of its constants.  First its types: they alone *)
(* are not inductive, for a job that is dequeued uses the key and the file *)
(* in its slot, a handler that commits uses the row it read, and the types *)
(* allow None in each; WellFormed says when each one is there.  Then the   *)
(* life cycle: each step moves the status along TRANSITIONS, resets it, or *)
(* is a handler that restarts the detection, and without those handlers    *)
(* Pipeline implements TalkLifecycle.  Then, what an abort has deleted     *)
(* stays inert.  Then the queues: Redis holds each waiting job once.  Last *)
(* the life cycle again, where those handlers are the only way in.         *)
(***************************************************************************)
EXTENDS PipelineProperties, FiniteSetTheorems, WellFoundedInduction, TLAPS

\* The jobs and requests that name a file under raw/: the raw_key argument of
\* _enqueue_for_talk.
Keyed == {"ingest", "detect", "cut", "submit_cut", "ingest_recording", "attach_room"}

\* The handlers that read the row of the talk without a lock and write it later.
Rereads == {"ingest_recording", "attach_room", "abort_talk"}

\* What a slot holds when an action uses it: a key, the file the job works on,
\* the row that the handler read.  The plain types allow None in each of them.
\* A request never owns a Job row, and exists only where it is among Entries.
WellFormed(s) ==
  /\ s.fn \in Keyed => s.key \in RawKeys
  /\ s.fn = "ingest" /\ s.phase = "queued" => s.input \in Content
  /\ s.fn \notin ClipKeys /\ s.phase = "started" => s.input \in Content
  /\ s.fn \in Rereads /\ s.phase \in {"reading", "staged"} => s.seen \in TalkRow
  /\ s.fn \in Rereads \ {"abort_talk"} /\ s.phase \in {"reading", "staged"} =>
       s.input \in Content
  /\ s.fn \in Requests => s.row = "none"
  /\ s.fn = "ingest_recording" => "recordings" \in Entries
  /\ s.fn = "attach_room" => "room" \in Entries

\* The slots that can occur.
Slot == {s \in Run : WellFormed(s)}

\* The columns of the talk, of its Job rows and of its ApprovedCut rows.
RowsOK ==
  /\ talk \in TalkRow
  /\ slateRows \subseteq ClipKeys
  /\ approved \in Bounds \cup {None}
  /\ reviewed \in Content \cup {None}

\* The talk's tree in storage.
FilesOK ==
  /\ raw \in [RawKeys -> Recordings \cup {None}]
  /\ media \in [MediaKeys -> Content \cup {None}]
  /\ clip \in [ClipKeys -> ClipKind]

\* Every slot is well formed.
RunsOK == run \in [Runs -> Slot]

\* The inductive invariant: TypeOK, with well-formed slots.
IInv == RowsOK /\ FilesOK /\ RunsOK

\* A set of natural numbers that is not empty has a least element.
LEMMA LeastIsThere ==
  ASSUME NEW T \in SUBSET Nat, T # {}
  PROVE  \E k \in T : \A j \in T : k <= j
<1>1. PICK k \in T : \A j \in T : ~ (<<j, k>> \in OpToRel(<, Nat))
  BY NatLessThanWellFounded, WFMin
<1>2. ASSUME NEW j \in T PROVE k <= j
  <2>1. j \in Nat /\ k \in Nat
    OBVIOUS
  <2>2. j < k => <<j, k>> \in {ss \in Nat \X Nat : ss[1] < ss[2]}
    BY <2>1
  <2>3. ~(j < k)
    BY <1>1, <2>2 DEF OpToRel
  <2> QED
    BY <2>1, <2>3
<1> QED
  BY <1>2

\* raw_keys[0] (submit_cut_bounds) is a key under raw/ when there is any file:
\* the keys are numbers, so the files that exist have a least one.
LEMMA LeastRawKey == (\E k \in RawKeys : raw[k] # None) => FirstRawKey \in RawKeys
<1> DEFINE T == {k \in RawKeys : raw[k] # None}
<1> SUFFICES ASSUME T # {} PROVE FirstRawKey \in RawKeys
  OBVIOUS
<1>1. T \in SUBSET Nat
  BY KeysAssumption
<1>2. PICK k \in T : \A j \in T : k <= j
  <2> HIDE DEF T
  <2> QED
    BY <1>1, LeastIsThere
<1> QED
  BY <1>2 DEF FirstRawKey

\* A free slot is well formed.
LEMMA IdleSlot == Idle \in Slot
  BY DEF Idle, Slot, Run, WellFormed, Phases, Executing, Keyed, Rereads, ClipKeys, Requests

\* A job enqueued without arguments (_enqueue_for_talk) is well formed.
LEMMA QueuedSlot ==
  ASSUME NEW kind \in JobKinds \ {"ingest", "detect", "cut"}
  PROVE  Queued(kind) \in Slot
  BY
     DEF Queued, Idle, Slot, Run, WellFormed, JobKinds, Phases, Executing, Keyed, Rereads,
         ClipKeys, Requests

\* A job enqueued with a raw_key is well formed.
LEMMA QueuedKeySlot ==
  ASSUME NEW kind \in {"detect", "cut"}, NEW k \in RawKeys
  PROVE  [Queued(kind) EXCEPT !.key = k] \in Slot
  BY
     DEF Queued, Idle, Slot, Run, WellFormed, JobKinds, Phases, Executing, Keyed, Rereads,
         ClipKeys, Requests

\* A step that writes one well-formed slot keeps all of them well formed.
LEMMA SlotStep ==
  ASSUME RunsOK, NEW r \in Runs, NEW s \in Slot, run' = [run EXCEPT ![r] = s]
  PROVE  RunsOK'
  BY DEF RunsOK

\* The first session of a job: the row is marked running and the input opened.
LEMMA BeginsOK ==
  ASSUME RunsOK, NEW r \in Runs, run[r].fn \in JobKinds,
         NEW input \in Content \cup {None}, NEW bounds \in Bounds \cup {None},
         Begins(r, input, bounds)
  PROVE  RunsOK'
<1> DEFINE s == [run[r] EXCEPT !.row = "running", !.input = input, !.bounds = bounds,
              !.seen = None, !.stop = FALSE,
              !.phase = IF input = None THEN "failing" ELSE "started"]
<1>1. run' = [run EXCEPT ![r] = s]
  BY DEF Begins
<1>2. run[r] \in Run /\ WellFormed(run[r])
  BY DEF RunsOK, Slot
<1>3. s \in Run
  <2>1. CASE input = None
    BY <1>2, <2>1 DEF Run, Phases, Executing
  <2>2. CASE input # None
    BY <1>2, <2>2 DEF Run, Phases, Executing
  <2> QED
    BY <2>1, <2>2
<1>4. WellFormed(s)
  BY <1>2 DEF WellFormed, Run, JobKinds, Keyed, Rereads, ClipKeys, Requests
<1> QED
  BY <1>1, <1>3, <1>4, SlotStep DEF Slot

\* A job that returns early leaves a free slot.
LEMMA DiscardsOK ==
  ASSUME RunsOK, NEW r \in Runs, Discards(r)
  PROVE  RunsOK'
  BY IdleSlot, SlotStep DEF Discards

\* An exception leaves the slot well formed.
LEMMA RaisesOK ==
  ASSUME RunsOK, NEW r \in Runs, Raises(r)
  PROVE  RunsOK'
<1> DEFINE s == [run[r] EXCEPT !.phase = "failing"]
<1>1. run' = [run EXCEPT ![r] = s]
  BY DEF Raises
<1>2. run[r] \in Run /\ WellFormed(run[r])
  BY DEF RunsOK, Slot
<1>3. s \in Run /\ WellFormed(s)
  BY <1>2 DEF Run, Phases, Executing, WellFormed, Keyed, Rereads, ClipKeys, Requests
<1> QED
  BY <1>1, <1>3, SlotStep DEF Slot

\* The end of a job and the enqueueing of its successor: the slot is well
\* formed, and only slate jobs leave a done row that is looked for later.
LEMMA BecomesOK ==
  ASSUME RunsOK, slateRows \subseteq ClipKeys, NEW r \in Runs, NEW s \in Slot, Becomes(r, s)
  PROVE  RunsOK' /\ slateRows' \subseteq ClipKeys
<1>1. RunsOK'
  BY SlotStep DEF Becomes
<1>2. slateRows' \subseteq ClipKeys
  BY DEF Becomes
<1> QED
  BY <1>1, <1>2

\* The second session of a job that succeeds.
LEMMA MarksDoneOK ==
  ASSUME RunsOK, NEW r \in Runs, run[r].row = "running", MarksDone(r)
  PROVE  RunsOK'
<1> DEFINE s == [run[r] EXCEPT !.row = "done", !.phase = "committed", !.input = None]
<1>1. run' = [run EXCEPT ![r] = s]
  BY DEF MarksDone
<1>2. run[r] \in Run /\ WellFormed(run[r])
  BY DEF RunsOK, Slot
<1>3. s \in Run /\ WellFormed(s)
  BY <1>2 DEF Run, Phases, Executing, WellFormed, Keyed, Rereads, ClipKeys, Requests
<1> QED
  BY <1>1, <1>3, SlotStep DEF Slot

\* A cancelled job is a free slot, a stopped one is as well formed as before.
LEMMA CancelledOK ==
  ASSUME RunsOK, NEW r \in Runs
  PROVE  Cancelled(r) \in Slot
<1>1. run[r] \in Run /\ WellFormed(run[r])
  BY DEF RunsOK, Slot
<1>2. [run[r] EXCEPT !.stop = TRUE] \in Run
  BY <1>1 DEF Run
<1>3. WellFormed([run[r] EXCEPT !.stop = TRUE])
  BY <1>1 DEF Run, WellFormed, Keyed, Rereads, ClipKeys, Requests
<1> QED
  BY <1>1, <1>2, <1>3, IdleSlot DEF Cancelled, Slot

\* _cancel_talk_jobs keeps the slots well formed, whichever jobs it reaches.
LEMMA CancelJobsOK ==
  ASSUME RunsOK, NEW self \in Runs, NEW jobs, NEW s \in Slot, CancelJobs(self, jobs, s)
  PROVE  RunsOK'
  BY CancelledOK DEF CancelJobs, RunsOK

\* A flush of two well-typed rows into a well-typed row: each column comes from
\* one of them.
LEMMA FlushOK ==
  ASSUME RowsOK, NEW loaded \in TalkRow, NEW new \in TalkRow
  PROVE  Flush(loaded, new) \in TalkRow
  BY DEF RowsOK, TalkRow, Flush

\* A cut of a recording is a video.
LEMMA FootageOK ==
  ASSUME NEW c \in Recordings, NEW b \in Bounds \cup {None}
  PROVE  Footage(c, b) \in Content
  BY DEF Footage, Content, ClipKind

\* advance() to a status of TalkStatus.
LEMMA AdvanceOK ==
  ASSUME RowsOK, NEW to \in TalkStatus, Advance(to)
  PROVE  talk' \in TalkRow
  BY DEF RowsOK, Advance, TalkRow

-------------------------------------------------------------------------------
\* job_ingest: the claim (tasks.py, first session).
LEMMA IngestStartOK == ASSUME IInv, NEW r \in Runs, IngestStart(r) PROVE IInv'
<1> USE DEF IInv
<1>1. run[r].fn = "ingest" /\ run[r].phase = "queued"
  BY DEF IngestStart, Dequeues
<1>2. run[r].input \in Content
  BY <1>1 DEF RunsOK, Slot, WellFormed
<1>3. RunsOK'
  <2>1. CASE talk.status = "waiting_for_files"
    BY <1>1, <1>2, <2>1, BeginsOK DEF IngestStart, JobKinds
  <2>2. CASE talk.status # "waiting_for_files"
    BY <2>2, DiscardsOK DEF IngestStart
  <2> QED
    BY <2>1, <2>2
<1>4. talk' \in TalkRow
  BY AdvanceOK DEF IngestStart, RowsOK, TalkStatus
<1> QED
  BY <1>3, <1>4 DEF IngestStart, RowsOK, FilesOK, storageVars

\* job_detect: the first session and the file under its raw_key.
LEMMA DetectStartOK == ASSUME IInv, NEW r \in Runs, DetectStart(r) PROVE IInv'
<1> USE DEF IInv
<1>1. run[r].fn = "detect" /\ run[r] \in Slot
  BY DEF DetectStart, Dequeues, RunsOK
<1>2. run[r].key \in RawKeys /\ run[r].bounds \in Bounds \cup {None}
  BY <1>1 DEF Slot, WellFormed, Keyed, Run
<1>3. RawFootage(run[r].key) \in Content \cup {None}
  BY <1>2, FootageOK DEF RawFootage, FilesOK
<1>4. RunsOK'
  <2>1. CASE talk.status = "detecting"
    BY <1>1, <1>2, <1>3, <2>1, BeginsOK DEF DetectStart, JobKinds
  <2>2. CASE talk.status # "detecting"
    BY <2>2, DiscardsOK DEF DetectStart
  <2> QED
    BY <2>1, <2>2
<1> QED
  BY <1>4 DEF DetectStart, RowsOK, FilesOK, dbVars, storageVars

\* job_cut: the first session, the bounds of the row and the raw file.
LEMMA CutStartOK == ASSUME IInv, NEW r \in Runs, CutStart(r) PROVE IInv'
<1> USE DEF IInv
<1>1. run[r].fn = "cut" /\ run[r] \in Slot
  BY DEF CutStart, Dequeues, RunsOK
<1>2. run[r].key \in RawKeys
  BY <1>1 DEF Slot, WellFormed, Keyed, Run
<1>3. talk.bounds \in Bounds \cup {None}
  BY DEF RowsOK, TalkRow
<1>4. RunsOK'
  <2>1. CASE talk.bounds = None
    BY <2>1, RaisesOK DEF CutStart
  <2>2. CASE talk.bounds # None
    <3> DEFINE input == IF raw[run[r].key] = None THEN None
                        ELSE Footage(raw[run[r].key], talk.bounds)
    <3>1. input \in Content \cup {None}
      BY <1>2, <1>3, FootageOK DEF FilesOK
    <3>2. Begins(r, input, None)
      BY <2>2 DEF CutStart
    <3> HIDE DEF input
    <3> QED
      BY <1>1, <3>1, <3>2, BeginsOK DEF JobKinds
  <2> QED
    BY <2>1, <2>2
<1> QED
  BY <1>4 DEF CutStart, RowsOK, FilesOK, dbVars, storageVars

\* job_preview: the first session and the cut.
LEMMA PreviewStartOK == ASSUME IInv, NEW r \in Runs, PreviewStart(r) PROVE IInv'
<1> USE DEF IInv
<1>1. media["cut"] \in Content \cup {None}
  BY DEF FilesOK, MediaKeys
<1>2. RunsOK'
  BY <1>1, BeginsOK DEF PreviewStart, Dequeues, JobKinds
<1> QED
  BY <1>2 DEF PreviewStart, RowsOK, FilesOK, dbVars, storageVars

\* job_intro and job_outro: the first session.
LEMMA SlateStartOK ==
  ASSUME IInv, NEW r \in Runs, NEW kind \in ClipKeys, SlateStart(r, kind) PROVE IInv'
<1> USE DEF IInv
<1> DEFINE s == [run[r] EXCEPT !.row = "running", !.phase = "started"]
<1>1. run' = [run EXCEPT ![r] = s] /\ run[r].fn \in ClipKeys /\ run[r] \in Slot
  BY DEF SlateStart, Dequeues, RunsOK
<1>2. s \in Run /\ WellFormed(s)
  BY <1>1 DEF Slot, Run, Phases, Executing, WellFormed, Keyed, Rereads, ClipKeys, Requests
<1>3. RunsOK'
  BY <1>1, <1>2, SlotStep DEF Slot
<1> QED
  BY <1>3 DEF SlateStart, RowsOK, FilesOK, dbVars, storageVars

\* job_concat: the first session, the cut and the slates it was given.
LEMMA ConcatStartOK == ASSUME IInv, NEW r \in Runs, ConcatStart(r) PROVE IInv'
<1> USE DEF IInv
<1>1. media["cut"] \in Content \cup {None}
  BY DEF FilesOK, MediaKeys
<1>2. PICK input \in {media["cut"], None} : Begins(r, input, None)
  BY DEF ConcatStart
<1>3. RunsOK'
  BY <1>1, <1>2, BeginsOK DEF ConcatStart, Dequeues, JobKinds
<1> QED
  BY <1>3 DEF ConcatStart, RowsOK, FilesOK, dbVars, storageVars

\* job_loudness: the first session and the assembled video.
LEMMA LoudnessStartOK == ASSUME IInv, NEW r \in Runs, LoudnessStart(r) PROVE IInv'
<1> USE DEF IInv
<1>1. media["assemble"] \in Content \cup {None}
  BY DEF FilesOK, MediaKeys
<1>2. RunsOK'
  BY <1>1, BeginsOK, DiscardsOK DEF LoudnessStart, Dequeues, JobKinds
<1> QED
  BY <1>2 DEF LoudnessStart, RowsOK, FilesOK, dbVars, storageVars

\* job_transcode: the levelled video with the slates in storage stitched to it
\* is a video.
LEMMA TranscodeStartOK == ASSUME IInv, NEW r \in Runs, TranscodeStart(r) PROVE IInv'
<1> USE DEF IInv
<1> DEFINE slate(k) == IF talk[k] = "none" THEN "none" ELSE clip[k]
           loud == media["loud"]
           input == IF loud = None THEN None
                    ELSE [loud EXCEPT !.intro = slate("intro"), !.outro = slate("outro")]
<1>1. loud \in Content \cup {None}
  BY DEF FilesOK, MediaKeys
<1>2. slate("intro") \in ClipKind /\ slate("outro") \in ClipKind
  BY DEF FilesOK, ClipKeys, ClipKind
<1>3. input \in Content \cup {None}
  <2> HIDE DEF slate, loud
  <2> QED
    BY <1>1, <1>2 DEF Content
<1>4. Begins(r, input, None) /\ run[r].fn = "transcode"
  BY DEF TranscodeStart, Dequeues
<1>5. RunsOK'
  <2> HIDE DEF input
  <2> QED
    BY <1>3, <1>4, BeginsOK DEF JobKinds
<1> QED
  BY <1>5 DEF TranscodeStart, RowsOK, FilesOK, dbVars, storageVars

\* job_publish: the first session and the final video.
LEMMA PublishStartOK == ASSUME IInv, NEW r \in Runs, PublishStart(r) PROVE IInv'
<1> USE DEF IInv
<1>1. media["final"] \in Content \cup {None}
  BY DEF FilesOK, MediaKeys
<1>2. RunsOK'
  BY <1>1, BeginsOK DEF PublishStart, Dequeues, JobKinds
<1> QED
  BY <1>2 DEF PublishStart, RowsOK, FilesOK, dbVars, storageVars

-------------------------------------------------------------------------------
\* A job that has stored its output stays well formed.
LEMMA StoresOK ==
  ASSUME RunsOK, NEW r \in Runs, NEW kind, Stores(r, kind) PROVE RunsOK'
<1> DEFINE s == [run[r] EXCEPT !.phase = "stored"]
<1>1. run' = [run EXCEPT ![r] = s]
  BY DEF Stores
<1>2. run[r] \in Run /\ WellFormed(run[r])
  BY DEF RunsOK, Slot
<1>3. s \in Run /\ WellFormed(s)
  BY <1>2 DEF Run, Phases, Executing, WellFormed, Keyed, Rereads, ClipKeys, Requests
<1> QED
  BY <1>1, <1>3, SlotStep DEF Slot

\* What a job puts in storage: a recording under its own raw key, a video under
\* its media key, or a slate.
LEMMA JobStoreOK == ASSUME IInv, NEW r \in Runs, JobStore(r) PROVE IInv'
<1> USE DEF IInv
<1>1. CASE IngestStore(r)
  <2>1. RunsOK'
    BY <1>1, StoresOK DEF IngestStore
  <2>2. run[r] \in Slot /\ run[r].fn = "ingest" /\ run[r].phase = "started"
    BY <1>1 DEF IngestStore, Stores, At, RunsOK
  <2>3. run[r].input.rec \in Recordings
    BY <2>2 DEF Slot, WellFormed, Content, ClipKeys
  <2> QED
    BY <1>1, <2>1, <2>3 DEF IngestStore, Stores, dbVars, RowsOK, FilesOK
<1>2. CASE MediaStore(r)
  <2>1. PICK kind \in DOMAIN Output :
          /\ Stores(r, kind)
          /\ media' = [media EXCEPT ![Output[kind]] = run[r].input]
          /\ UNCHANGED <<raw, clip>>
    BY <1>2 DEF MediaStore
  <2>2. RunsOK'
    BY <2>1, StoresOK
  <2>3. run[r].input \in Content \cup {None}
    BY DEF RunsOK, Slot, Run
  <2> QED
    BY <2>1, <2>2, <2>3 DEF Stores, dbVars, RowsOK, FilesOK
<1>3. CASE SlateStore(r)
  <2>1. PICK kind \in ClipKeys :
          /\ Stores(r, kind)
          /\ clip' = [clip EXCEPT ![kind] = "generated"]
          /\ UNCHANGED <<raw, media>>
    BY <1>3 DEF SlateStore
  <2>2. RunsOK'
    BY <2>1, StoresOK
  <2> QED
    BY <2>1, <2>2 DEF Stores, dbVars, RowsOK, FilesOK, ClipKind
<1> QED
  BY <1>1, <1>2, <1>3 DEF JobStore

-------------------------------------------------------------------------------
\* A second session that leaves rows and slots in order keeps the invariant.
LEMMA SettlesOK ==
  ASSUME IInv, NEW r \in Runs, NEW kind, NEW phase, Settles(r, kind, phase),
         talk' \in TalkRow, slateRows' \subseteq ClipKeys, RunsOK'
  PROVE  IInv'
  BY DEF IInv, Settles, storageVars, RowsOK, FilesOK

\* A second session whose result no longer counts.
LEMMA RejectedOK ==
  ASSUME IInv, NEW r \in Runs, NEW kind, NEW phase, Settles(r, kind, phase), Rejected(r)
  PROVE  IInv'
<1>1. RunsOK'
  BY DiscardsOK DEF IInv, Rejected
<1> QED
  BY <1>1, SettlesOK DEF IInv, Rejected, RowsOK

\* A second session that marks its row done and advances the talk.
LEMMA DoneOK ==
  ASSUME IInv, NEW r \in Runs, NEW kind, NEW phase, Settles(r, kind, phase),
         talk' \in TalkRow, run[r].row = "running", MarksDone(r)
  PROVE  IInv'
<1>1. RunsOK'
  BY MarksDoneOK DEF IInv
<1> QED
  BY <1>1, SettlesOK DEF IInv, MarksDone, RowsOK

\* job_detect: the duration and the implied bounds are written to the talk.
LEMMA DetectCommitOK == ASSUME IInv, NEW r \in Runs, DetectCommit(r) PROVE IInv'
<1>1. Settles(r, "detect", "started")
  BY DEF DetectCommit
<1>2. CASE Accepted(r, {"detecting"})
  <2>1. run[r] \in Slot /\ run[r].fn = "detect" /\ run[r].phase = "started"
    BY <1>1 DEF Settles, At, IInv, RunsOK
  <2>2. run[r].input.rec \in Recordings /\ run[r].bounds \in Bounds \cup {None}
    BY <2>1 DEF Slot, Run, WellFormed, Content, ClipKeys
  <2>3. talk' = [talk EXCEPT
               !.status = "pending_approval", !.detected = run[r].input.rec,
               !.bounds = IF @ = None THEN run[r].bounds ELSE @]
    BY <1>2 DEF DetectCommit
  <2>4. talk' \in TalkRow
    <3>1. CASE talk.bounds = None
      BY <2>2, <2>3, <3>1 DEF IInv, RowsOK, TalkRow, TalkStatus
    <3>2. CASE talk.bounds # None
      BY <2>2, <2>3, <3>2 DEF IInv, RowsOK, TalkRow, TalkStatus
    <3> QED
      BY <3>1, <3>2
  <2>5. RunsOK' /\ slateRows' \subseteq ClipKeys
    BY <1>2, BecomesOK, IdleSlot DEF DetectCommit, IInv, RowsOK
  <2> QED
    BY <1>1, <2>4, <2>5, SettlesOK
<1>3. CASE ~Accepted(r, {"detecting"})
  BY <1>1, <1>3, RejectedOK DEF DetectCommit
<1> QED
  BY <1>2, <1>3

\* job_intro and job_outro: a done row, whether or not assembly goes on.
LEMMA SlateCommitOK ==
  ASSUME IInv, NEW r \in Runs, NEW kind \in ClipKeys, SlateCommit(r, kind) PROVE IInv'
<1>1. Settles(r, kind, "stored")
  BY DEF SlateCommit
<1>2. CASE Accepted(r, {"assembling", "generating_previews"})
  <2>1. talk' \in TalkRow
    BY <1>2 DEF SlateCommit, IInv, RowsOK
  <2>2. CASE talk.status = "assembling"
    BY <1>1, <1>2, <2>1, <2>2, DoneOK DEF SlateCommit, Accepted
  <2>3. CASE talk.status # "assembling"
    <3>1. Discards(r) /\ slateRows' \subseteq ClipKeys
      BY <1>2, <2>3 DEF SlateCommit, IInv, RowsOK
    <3>2. RunsOK'
      BY <3>1, DiscardsOK DEF IInv
    <3> QED
      BY <1>1, <2>1, <3>1, <3>2, SettlesOK
  <2> QED
    BY <2>2, <2>3
<1>3. CASE ~Accepted(r, {"assembling", "generating_previews"})
  BY <1>1, <1>3, RejectedOK DEF SlateCommit
<1> QED
  BY <1>2, <1>3

\* The second session of every job.
LEMMA JobCommitOK == ASSUME IInv, NEW r \in Runs, JobCommit(r) PROVE IInv'
<1>1. RowsOK /\ talk \in TalkRow
  BY DEF IInv, RowsOK
<1>2. CASE IngestCommit(r)
  BY <1>1, <1>2, DoneOK, RejectedOK DEF IngestCommit, Accepted
<1>3. CASE DetectCommit(r)
  BY <1>3, DetectCommitOK
<1>4. CASE CutCommit(r)
  <2>1. Advance("generating_previews") => talk' \in TalkRow
    BY <1>1, AdvanceOK DEF TalkStatus
  <2> QED
    BY <1>4, <2>1, DoneOK, RejectedOK DEF CutCommit, Accepted
<1>5. CASE PreviewCommit(r)
  <2>1. Advance("preview") => talk' \in TalkRow
    BY <1>1, AdvanceOK DEF TalkStatus
  <2>2. Becomes(r, Idle) => RunsOK' /\ slateRows' \subseteq ClipKeys
    BY BecomesOK, IdleSlot DEF IInv, RowsOK
  <2> QED
    BY <1>5, <2>1, <2>2, SettlesOK, RejectedOK DEF PreviewCommit
<1>6. CASE IntroCommit(r) \/ OutroCommit(r)
  BY <1>6, SlateCommitOK DEF IntroCommit, OutroCommit, ClipKeys
<1>7. CASE ConcatCommit(r)
  BY <1>1, <1>7, DoneOK, RejectedOK DEF ConcatCommit, Accepted
<1>8. CASE LoudnessCommit(r)
  <2>1. Advance("transcoding") => talk' \in TalkRow
    BY <1>1, AdvanceOK DEF TalkStatus
  <2> QED
    BY <1>8, <2>1, DoneOK, RejectedOK DEF LoudnessCommit, Accepted
<1>9. CASE TranscodeCommit(r)
  <2>1. Advance("uploading") => talk' \in TalkRow
    BY <1>1, AdvanceOK DEF TalkStatus
  <2> QED
    BY <1>9, <2>1, DoneOK, RejectedOK DEF TranscodeCommit, Accepted
<1>10. CASE PublishCommit(r)
  <2>1. Advance("done") => talk' \in TalkRow
    BY <1>1, AdvanceOK DEF TalkStatus
  <2> QED
    BY <1>10, <2>1, DoneOK, RejectedOK DEF PublishCommit, Accepted
<1> QED
  BY <1>2, <1>3, <1>4, <1>5, <1>6, <1>7, <1>8, <1>9, <1>10 DEF JobCommit

-------------------------------------------------------------------------------
\* The successor is enqueued, or the job raises.
LEMMA EnqueuesOK ==
  ASSUME RunsOK, slateRows \subseteq ClipKeys, NEW r \in Runs, NEW s \in Slot, Enqueues(r, s)
  PROVE  RunsOK' /\ slateRows' \subseteq ClipKeys
  BY BecomesOK, RaisesOK DEF Enqueues

\* A job with a successor.
LEMMA ContinuesOK ==
  ASSUME IInv, NEW r \in Runs, NEW kind, NEW s \in Slot, Continues(r, kind, s)
  PROVE  RunsOK' /\ RowsOK'
<1>1. RunsOK' /\ slateRows' \subseteq ClipKeys
  BY EnqueuesOK DEF Continues, IInv, RowsOK
<1> QED
  BY <1>1 DEF Continues, IInv, RowsOK

\* The job that dispatch_assembly chooses is well formed.
LEMMA NextAssemblySlot == RowsOK => NextAssembly \in Slot
<1> SUFFICES ASSUME RowsOK PROVE NextAssembly \in Slot
  OBVIOUS
<1>1. Queued("intro") \in Slot /\ Queued("outro") \in Slot
  BY QueuedSlot DEF JobKinds
<1>2. [Queued("concat") EXCEPT !.seen = talk] \in Slot
  BY
     DEF RowsOK, Queued, Idle, Slot, Run, WellFormed, JobKinds, Phases, Executing, Keyed,
         Rereads, ClipKeys, Requests
<1> QED
  BY <1>1, <1>2 DEF NextAssembly

\* dispatch_assembly.
LEMMA DispatchOK ==
  ASSUME IInv, NEW r \in Runs, DispatchAssembly(r)
  PROVE  RunsOK' /\ slateRows' \subseteq ClipKeys
  BY BecomesOK, IdleSlot, NextAssemblySlot DEF DispatchAssembly, IInv, RowsOK

\* No slates in storage.
LEMMA NoClipsOK == NoClips \in [ClipKeys -> ClipKind]
  BY DEF NoClips, ClipKind

\* cleanup_intermediates keeps the files in order.
LEMMA CleanupOK ==
  ASSUME FilesOK, CleanupIntermediates, UNCHANGED raw
  PROVE  FilesOK'
  BY NoClipsOK DEF FilesOK, CleanupIntermediates

\* What every job does after its second session.
LEMMA JobNextOK == ASSUME IInv, NEW r \in Runs, JobNext(r) PROVE IInv'
<1> USE DEF IInv
<1>1. UNCHANGED storageVars => FilesOK'
  BY DEF storageVars, FilesOK
<1>2. \A kind \in {"preview", "loudness", "transcode", "publish"} : Queued(kind) \in Slot
  BY QueuedSlot DEF JobKinds
<1>3. CASE IngestNext(r)
  <2>1. run[r] \in Slot /\ run[r].fn = "ingest"
    BY <1>3 DEF IngestNext, Continues, At, RunsOK
  <2>2. run[r].key \in RawKeys
    BY <2>1 DEF Slot, WellFormed, Keyed
  <2> QED
    BY <1>1, <1>3, <2>2, QueuedKeySlot, ContinuesOK DEF IngestNext
<1>4. CASE CutNext(r)
  BY <1>1, <1>2, <1>4, ContinuesOK DEF CutNext
<1>5. CASE SlateNext(r)
  <2>1. RunsOK' /\ slateRows' \subseteq ClipKeys
    BY <1>5, DispatchOK, RaisesOK DEF SlateNext, RowsOK
  <2> QED
    BY <1>1, <1>5, <2>1 DEF SlateNext, RowsOK
<1>6. CASE ConcatNext(r)
  BY <1>1, <1>2, <1>6, ContinuesOK DEF ConcatNext
<1>7. CASE LoudnessNext(r)
  BY <1>1, <1>2, <1>7, ContinuesOK DEF LoudnessNext
<1>8. CASE TranscodeNext(r)
  BY <1>2, <1>8, ContinuesOK, NoClipsOK DEF TranscodeNext, FilesOK
<1>9. CASE PublishNext(r)
  BY <1>9, CleanupOK, DiscardsOK DEF PublishNext, RowsOK, dbVars
<1> QED
  BY <1>3, <1>4, <1>5, <1>6, <1>7, <1>8, <1>9 DEF JobNext

\* _handle_failure writes a status of TalkStatus.
LEMMA AfterFailureOK == \A s \in TalkStatus : AfterFailure(s) \in TalkStatus
  BY DEF AfterFailure, TalkStatus

\* Failing work, the roll-back of job_ingest and _handle_failure.
LEMMA JobFailureOK == ASSUME IInv, NEW r \in Runs, JobFailure(r) PROVE IInv'
<1> USE DEF IInv
<1>1. CASE WorkFails(r)
  BY <1>1, RaisesOK DEF WorkFails, RowsOK, FilesOK, dbVars, storageVars
<1>2. CASE IngestRollback(r)
  <2> DEFINE s == [run[r] EXCEPT !.phase = "rolledback"]
  <2>1. run' = [run EXCEPT ![r] = s]
    BY <1>2 DEF IngestRollback
  <2>2. run[r] \in Run /\ WellFormed(run[r])
    BY DEF RunsOK, Slot
  <2>3. s \in Run /\ WellFormed(s)
    BY <2>2 DEF Run, Phases, Executing, WellFormed, Keyed, Rereads, ClipKeys, Requests
  <2>4. RunsOK'
    BY <2>1, <2>3, SlotStep DEF Slot
  <2>5. talk' \in TalkRow
    BY <1>2 DEF IngestRollback, RowsOK, TalkRow, TalkStatus
  <2> QED
    BY <1>2, <2>4, <2>5 DEF IngestRollback, RowsOK, FilesOK, storageVars
<1>3. CASE HandleFailure(r)
  <2>1. RunsOK'
    BY <1>3, DiscardsOK DEF HandleFailure
  <2>2. AfterFailure(talk.status) \in TalkStatus
    BY AfterFailureOK DEF RowsOK, TalkRow
  <2>3. talk' \in TalkRow
    BY <1>3, <2>2 DEF HandleFailure, RowsOK, TalkRow
  <2> QED
    BY <1>3, <2>1, <2>3 DEF HandleFailure, RowsOK, FilesOK, storageVars
<1> QED
  BY <1>1, <1>2, <1>3 DEF JobFailure

\* A job that is killed on a stop command, or a process that dies.
LEMMA EndedOK ==
  ASSUME IInv, NEW r \in Runs, Killed(r) \/ Crashes(r) PROVE IInv'
<1>1. RunsOK' /\ slateRows' \subseteq ClipKeys
  BY BecomesOK, IdleSlot DEF Killed, Crashes, IInv, RowsOK
<1> QED
  BY <1>1 DEF Killed, Crashes, IInv, RowsOK, FilesOK, storageVars

-------------------------------------------------------------------------------
\* A request with only something left to send.
LEMMA RequestSlot ==
  ASSUME NEW fn \in {"cleanup", "assembly"}
  PROVE  Request(fn, "sending") \in Slot
  BY
     DEF Request, Idle, Slot, Run, WellFormed, Phases, Executing, Keyed, Rereads, ClipKeys,
         Requests

\* submit_cut_bounds before it enqueues job_cut.
LEMMA SubmitSlot ==
  ASSUME NEW k \in RawKeys
  PROVE  [Request("submit_cut", "sending") EXCEPT !.key = k] \in Slot
  BY
     DEF Request, Idle, Slot, Run, WellFormed, Phases, Executing, Keyed, Rereads, ClipKeys,
         Requests

\* The job that upload_recording enqueues.
LEMMA UploadSlot ==
  ASSUME NEW c \in Recordings
  PROVE  [Queued("ingest") EXCEPT !.key = UploadKey, !.input = Footage(c, None)] \in Slot
  BY FootageOK, KeysAssumption
     DEF Queued, Idle, Slot, Run, WellFormed, JobKinds, Phases, Executing, Keyed, Rereads,
         ClipKeys, Requests

\* ingest_recording and attach_room_recording after they read the talk.
LEMMA ReadingSlot ==
  ASSUME NEW fn \in {"ingest_recording", "attach_room"}, NEW c \in Recordings,
         fn = "ingest_recording" => "recordings" \in Entries,
         fn = "attach_room" => "room" \in Entries,
         NEW k \in RawKeys, NEW b \in Bounds \cup {None}, NEW seen \in TalkRow
  PROVE  [Request(fn, "reading") EXCEPT
            !.input = Footage(c, None), !.key = k, !.bounds = b, !.seen = seen] \in Slot
  BY FootageOK
     DEF Request, Idle, Slot, Run, WellFormed, Phases, Executing, Keyed, Rereads, ClipKeys,
         Requests

\* abort_talk after it read the talk.
LEMMA AbortingSlot ==
  ASSUME NEW seen \in TalkRow
  PROVE  [Request("abort_talk", "reading") EXCEPT !.seen = seen] \in Slot
  BY
     DEF Request, Idle, Slot, Run, WellFormed, Phases, Executing, Keyed, Rereads, ClipKeys,
         Requests

\* A request that begins in a free slot.
LEMMA TakesOK ==
  ASSUME IInv, NEW r \in Runs, NEW s \in Slot, Takes(r, s)
  PROVE  RunsOK' /\ slateRows' \subseteq ClipKeys
  BY BecomesOK DEF Takes, IInv, RowsOK

\* upload_recording.
LEMMA UploadRecordingOK == ASSUME IInv, NEW r \in Runs, UploadRecording(r) PROVE IInv'
<1>1. RunsOK'
  BY UploadSlot, TakesOK DEF UploadRecording
<1> QED
  BY <1>1 DEF UploadRecording, IInv, RowsOK, FilesOK, dbVars, storageVars

\* ingest_recording up to the staging of the file.
LEMMA IngestRecordingReadsOK ==
  ASSUME IInv, NEW r \in Runs, IngestRecordingReads(r) PROVE IInv'
<1>1. PICK c \in Recordings, k \in RawKeys, b \in Bounds \cup {None} :
        Takes(r, [Request("ingest_recording", "reading") EXCEPT
          !.input = Footage(c, None), !.key = k, !.bounds = b, !.seen = talk])
  BY DEF IngestRecordingReads
<1>2. RunsOK'
  BY <1>1, ReadingSlot, TakesOK DEF IngestRecordingReads, IInv, RowsOK
<1> QED
  BY <1>2 DEF IngestRecordingReads, IInv, RowsOK, FilesOK, dbVars, storageVars

\* attach_room_recording up to the cancellation of old jobs.
LEMMA AttachReadsOK == ASSUME IInv, NEW r \in Runs, AttachReads(r) PROVE IInv'
<1>1. PICK c \in Recordings, b \in Bounds \cup {None} :
        Takes(r, [Request("attach_room", "reading") EXCEPT
          !.input = Footage(c, None), !.key = UploadKey, !.bounds = b, !.seen = talk])
  BY FitsAssumption DEF AttachReads
<1>2. RunsOK'
  BY <1>1, ReadingSlot, TakesOK, KeysAssumption DEF AttachReads, IInv, RowsOK
<1> QED
  BY <1>2 DEF AttachReads, IInv, RowsOK, FilesOK, dbVars, storageVars

\* abort_talk up to the cancellation of the jobs.
LEMMA AbortReadsOK == ASSUME IInv, NEW r \in Runs, AbortReads(r) PROVE IInv'
<1>1. RunsOK'
  BY AbortingSlot, TakesOK DEF AbortReads, IInv, RowsOK
<1> QED
  BY <1>1 DEF AbortReads, IInv, RowsOK, FilesOK, dbVars, storageVars

\* approve_talk with decision reject.
LEMMA RejectTalkOK == ASSUME IInv, NEW r \in Runs, RejectTalk(r) PROVE IInv'
<1>1. RunsOK'
  BY RequestSlot, TakesOK DEF RejectTalk
<1>2. talk' \in TalkRow
  BY AdvanceOK DEF RejectTalk, IInv, TalkStatus
<1> QED
  BY <1>1, <1>2 DEF RejectTalk, IInv, RowsOK, FilesOK, storageVars

\* _apply_intro_outro_config.
LEMMA ConfiguresOK ==
  ASSUME IInv, NEW i \in Bumpers, NEW o \in Bumpers, NEW status \in TalkStatus,
         ConfiguresSlates(i, o, status)
  PROVE  talk' \in TalkRow /\ clip' \in [ClipKeys -> ClipKind]
<1>1. talk' \in TalkRow
  BY BumpersAssumption DEF ConfiguresSlates, IInv, RowsOK, TalkRow
<1>2. clip["intro"] \in ClipKind /\ clip["outro"] \in ClipKind
  BY DEF IInv, FilesOK, ClipKeys
<1>3. clip' \in [ClipKeys -> ClipKind]
  BY <1>2 DEF ConfiguresSlates, ClipKeys, ClipKind
<1> QED
  BY <1>1, <1>3

\* configure_assembly.
LEMMA ConfigureAssemblyOK ==
  ASSUME IInv, NEW r \in Runs, ConfigureAssembly(r) PROVE IInv'
<1>1. RunsOK'
  BY RequestSlot, TakesOK DEF ConfigureAssembly
<1>2. talk' \in TalkRow /\ clip' \in [ClipKeys -> ClipKind]
  BY ConfiguresOK DEF ConfigureAssembly, TalkStatus
<1> QED
  BY <1>1, <1>2 DEF ConfigureAssembly, IInv, RowsOK, FilesOK

\* submit_cut_bounds: the bounds come from those within the detected duration.
LEMMA SubmitCutBoundsOK ==
  ASSUME IInv, NEW r \in Runs, SubmitCutBounds(r) PROVE IInv'
<1>1. RunsOK'
  BY LeastRawKey, SubmitSlot, TakesOK DEF SubmitCutBounds
<1>2. talk.detected \in Recordings
  BY DEF SubmitCutBounds, IInv, RowsOK, TalkRow
<1>3. talk' \in TalkRow
  BY <1>2, FitsAssumption DEF SubmitCutBounds, IInv, RowsOK, TalkRow, TalkStatus
<1> QED
  BY <1>1, <1>3 DEF SubmitCutBounds, IInv, RowsOK, FilesOK, storageVars

\* handle_approve: the row of the ApprovedCut is a copy of the bounds.
LEMMA HandleApproveOK == ASSUME IInv, NEW r \in Runs, HandleApprove(r) PROVE IInv'
<1>1. RunsOK'
  BY RequestSlot, TakesOK DEF HandleApprove
<1>2. talk' \in TalkRow
  BY AdvanceOK DEF HandleApprove, IInv, TalkStatus
<1>3. approved' \in Bounds \cup {None} /\ reviewed' \in Content \cup {None}
  BY DEF HandleApprove, IInv, RowsOK, FilesOK, TalkRow, MediaKeys
<1> QED
  BY <1>1, <1>2, <1>3 DEF HandleApprove, IInv, RowsOK, FilesOK, storageVars

\* handle_reject.
LEMMA HandleRejectOK == ASSUME IInv, NEW r \in Runs, HandleReject(r) PROVE IInv'
<1>1. RunsOK'
  BY RequestSlot, TakesOK DEF HandleReject
<1>2. talk' \in TalkRow
  BY DEF HandleReject, IInv, RowsOK, TalkRow, TalkStatus
<1> QED
  BY <1>1, <1>2 DEF HandleReject, IInv, RowsOK, FilesOK, storageVars

\* approve_talk, handoff_talk and handle_needs_work.
LEMMA DecidesOK == ASSUME IInv, Decides PROVE IInv'
<1>1. CASE ApproveTalk
  <2>1. talk' \in TalkRow
    BY <1>1, AdvanceOK DEF ApproveTalk, IInv, TalkStatus
  <2> QED
    BY <1>1, <2>1 DEF ApproveTalk, IInv, RowsOK, FilesOK, RunsOK, storageVars
<1>2. CASE HandoffTalk
  <2>1. talk' \in TalkRow /\ clip' \in [ClipKeys -> ClipKind]
    BY <1>2, ConfiguresOK DEF HandoffTalk, TalkStatus
  <2> QED
    BY <1>2, <2>1 DEF HandoffTalk, IInv, RowsOK, FilesOK, RunsOK
<1>3. CASE HandleNeedsWork
  <2>1. talk' \in TalkRow
    BY <1>3, AdvanceOK DEF HandleNeedsWork, IInv, TalkStatus
  <2> QED
    BY <1>3, <2>1 DEF HandleNeedsWork, IInv, RowsOK, FilesOK, RunsOK, storageVars
<1> QED
  BY <1>1, <1>2, <1>3 DEF Decides

-------------------------------------------------------------------------------
\* The detect job that a recording or a room recording enqueues.
LEMMA DetectForSlot ==
  ASSUME RunsOK, NEW r \in Runs, run[r].fn \in {"ingest_recording", "attach_room"}
  PROVE  DetectFor(r) \in Slot
<1>1. run[r].key \in RawKeys /\ run[r].bounds \in Bounds \cup {None}
  BY DEF RunsOK, Slot, Run, WellFormed, Keyed
<1> QED
  BY <1>1
     DEF DetectFor, Queued, Idle, Slot, Run, WellFormed, JobKinds, Phases, Executing,
         Keyed, Rereads, ClipKeys, Requests

\* What the handlers do after their commit.
LEMMA SendsOK == ASSUME IInv, NEW r \in Runs, Sends(r) PROVE IInv'
<1> USE DEF IInv
<1>1. \A s \in Slot : Becomes(r, s) => RunsOK' /\ slateRows' \subseteq ClipKeys
  BY BecomesOK DEF RowsOK
<1>2. CASE SubmitCutSends(r)
  <2>1. run[r].key \in RawKeys
    BY <1>2 DEF SubmitCutSends, At, RunsOK, Slot, WellFormed, Keyed
  <2>2. RunsOK' /\ slateRows' \subseteq ClipKeys
    BY <1>1, <1>2, <2>1, QueuedKeySlot, IdleSlot DEF SubmitCutSends
  <2> QED
    BY <1>2, <2>2 DEF SubmitCutSends, RowsOK, FilesOK, storageVars
<1>3. CASE AssemblySends(r)
  <2>1. RunsOK' /\ slateRows' \subseteq ClipKeys
    BY <1>1, <1>3, DispatchOK, IdleSlot DEF AssemblySends
  <2>2. Advance("broken") => talk' \in TalkRow
    BY AdvanceOK DEF TalkStatus
  <2>3. talk' \in TalkRow
    BY <1>3, <2>2 DEF AssemblySends, RowsOK
  <2> QED
    BY <1>3, <2>1, <2>3 DEF AssemblySends, RowsOK, FilesOK, storageVars
<1>4. CASE CleanupSends(r)
  BY <1>1, <1>4, IdleSlot, CleanupOK DEF CleanupSends, RowsOK
<1>5. CASE IngestRecordingSends(r)
  <2>1. DetectFor(r) \in Slot
    BY <1>5, DetectForSlot DEF IngestRecordingSends, At
  <2>2. RunsOK' /\ slateRows' \subseteq ClipKeys
    BY <1>1, <1>5, <2>1, IdleSlot DEF IngestRecordingSends
  <2> QED
    BY <1>5, <2>2 DEF IngestRecordingSends, RowsOK, FilesOK, storageVars
<1>6. CASE AttachSends(r)
  <2>1. DetectFor(r) \in Slot
    BY <1>6, DetectForSlot DEF AttachSends, At
  <2>2. RunsOK' /\ slateRows' \subseteq ClipKeys
    BY <1>1, <1>6, <2>1, IdleSlot DEF AttachSends
  <2>3. talk' \in TalkRow
    BY <1>6 DEF AttachSends, RowsOK, TalkRow, TalkStatus
  <2> QED
    BY <1>6, <2>2, <2>3 DEF AttachSends, RowsOK, FilesOK, storageVars
<1> QED
  BY <1>2, <1>3, <1>4, <1>5, <1>6 DEF Sends

\* A request that goes from reading to staged.
LEMMA StagedSlot ==
  ASSUME RunsOK, NEW r \in Runs, run[r].phase = "reading"
  PROVE  [run[r] EXCEPT !.phase = "staged"] \in Slot
<1> DEFINE s == [run[r] EXCEPT !.phase = "staged"]
<1>1. run[r] \in Run /\ WellFormed(run[r])
  BY DEF RunsOK, Slot
<1>2. s \in Run
  BY <1>1 DEF Run, Phases, Executing
<1>3. /\ s.fn = run[r].fn /\ s.key = run[r].key /\ s.input = run[r].input
      /\ s.seen = run[r].seen /\ s.row = run[r].row /\ s.phase = "staged"
  BY <1>1 DEF Run
<1>4. WellFormed(s)
  <2> HIDE DEF s
  <2> QED
    BY <1>1, <1>3 DEF WellFormed
<1> QED
  BY <1>2, <1>4 DEF Slot

\* A request that goes from staged to sending.
LEMMA SendingSlot ==
  ASSUME RunsOK, NEW r \in Runs
  PROVE  [run[r] EXCEPT !.phase = "sending", !.seen = None, !.input = None] \in Slot
<1> DEFINE s == [run[r] EXCEPT !.phase = "sending", !.seen = None, !.input = None]
<1>1. run[r] \in Run /\ WellFormed(run[r])
  BY DEF RunsOK, Slot
<1>2. s \in Run
  BY <1>1 DEF Run, Phases, Executing
<1>3. s.fn = run[r].fn /\ s.key = run[r].key /\ s.row = run[r].row /\ s.phase = "sending"
  BY <1>1 DEF Run
<1>4. WellFormed(s)
  <2> HIDE DEF s
  <2> QED
    BY <1>1, <1>3 DEF WellFormed
<1> QED
  BY <1>2, <1>4 DEF Slot

\* What a request that rereads the talk still remembers.
LEMMA RemembersOK ==
  ASSUME RunsOK, NEW r \in Runs, run[r].fn \in Rereads, run[r].phase \in {"reading", "staged"}
  PROVE  /\ run[r].seen \in TalkRow
         /\ run[r].fn # "abort_talk" =>
              run[r].key \in RawKeys /\ run[r].input.rec \in Recordings
  BY DEF RunsOK, Slot, WellFormed, Keyed, Rereads, Content

\* ingest_recording and attach_room_recording write what they read long before.
LEMMA CommitsDetectingOK ==
  ASSUME IInv, NEW r \in Runs,
         IngestRecordingCommits(r) \/ AttachCommits(r)
  PROVE  IInv'
<1> USE DEF IInv
<1>1. /\ run[r].fn \in {"ingest_recording", "attach_room"}
      /\ run[r].phase = "staged"
      /\ run' = [run EXCEPT ![r] =
           [run[r] EXCEPT !.phase = "sending", !.seen = None, !.input = None]]
  BY DEF IngestRecordingCommits, AttachCommits, At
<1>2. RunsOK'
  BY <1>1, SendingSlot, SlotStep
<1>3. /\ run[r].seen \in TalkRow /\ run[r].input.rec \in Recordings
      /\ run[r].bounds \in Bounds \cup {None}
  BY <1>1, RemembersOK DEF Rereads, RunsOK, Slot, Run
<1>4. talk' \in TalkRow
  <2>1. CASE IngestRecordingCommits(r)
    <3>1. [run[r].seen EXCEPT !.status = "detecting"] \in TalkRow
      BY <1>3 DEF TalkRow, TalkStatus
    <3> QED
      BY <1>3, <2>1, <3>1, FlushOK DEF IngestRecordingCommits
  <2>2. CASE AttachCommits(r)
    <3> DEFINE seen == run[r].seen
               seed == run[r].bounds
               new == [seen EXCEPT !.status = "detecting", !.detected = run[r].input.rec,
                         !.bounds = IF seed = None THEN @ ELSE seed]
    <3>1. CASE seed = None
      <4>1. new \in TalkRow
        BY <1>3, <3>1 DEF TalkRow, TalkStatus
      <4> QED
        BY <1>3, <2>2, <4>1, FlushOK DEF AttachCommits
    <3>2. CASE seed # None
      <4>1. new \in TalkRow
        BY <1>3, <3>2 DEF TalkRow, TalkStatus
      <4> QED
        BY <1>3, <2>2, <4>1, FlushOK DEF AttachCommits
    <3> QED
      BY <3>1, <3>2
  <2> QED
    BY <2>1, <2>2
<1> QED
  BY <1>2, <1>4 DEF IngestRecordingCommits, AttachCommits, RowsOK, FilesOK, storageVars

\* The wipe of the talk's tree.
LEMMA WipeOK == ASSUME WipeStorage PROVE FilesOK'
  BY NoClipsOK DEF WipeStorage, FilesOK

\* The row of a talk that starts anew.
LEMMA NewTalkOK == NewTalk \in TalkRow
  BY DEF NewTalk, TalkRow, TalkStatus, ClipKind

\* abort_talk: the cancellation, its failure, and the reset of the row.
LEMMA AbortStepsOK ==
  ASSUME IInv, NEW r \in Runs, AbortCancels(r) \/ AbortFails(r) \/ AbortCommits(r)
  PROVE  IInv'
<1> USE DEF IInv
<1>1. CASE AbortCancels(r)
  <2>1. RunsOK'
    BY <1>1, StagedSlot, CancelJobsOK DEF AbortCancels, At
  <2> QED
    BY <1>1, <2>1, WipeOK DEF AbortCancels, RowsOK, dbVars
<1>2. CASE AbortFails(r)
  <2>1. RunsOK'
    BY <1>2, IdleSlot, CancelJobsOK DEF AbortFails, CancelFails
  <2>2. FilesOK'
    BY <1>2, WipeOK DEF AbortFails, FilesOK, storageVars
  <2> QED
    BY <1>2, <2>1, <2>2 DEF AbortFails, RowsOK, dbVars
<1>3. CASE AbortCommits(r)
  <2>1. run[r].seen \in TalkRow
    BY <1>3, RemembersOK DEF AbortCommits, At, Rereads
  <2>2. talk' \in TalkRow
    BY <1>3, <2>1, FlushOK, NewTalkOK DEF AbortCommits
  <2>3. ASSUME NEW s \in Runs
        PROVE  [run[s] EXCEPT !.row = IF @ = "none" THEN @ ELSE "deleted"] \in Slot
    <3> DEFINE t == [run[s] EXCEPT !.row = IF @ = "none" THEN @ ELSE "deleted"]
    <3>1. run[s] \in Run /\ WellFormed(run[s])
      BY DEF RunsOK, Slot
    <3>2. t \in Run
      BY <3>1 DEF Run
    <3>3. WellFormed(t)
      BY <3>1 DEF Run, WellFormed, Keyed, Rereads, ClipKeys, Requests
    <3> QED
      BY <3>2, <3>3 DEF Slot
  <2>4. RunsOK'
    BY <1>3, <2>3, IdleSlot DEF AbortCommits, RunsOK
  <2> QED
    BY <1>3, <2>2, <2>4 DEF AbortCommits, RowsOK, FilesOK, storageVars
<1> QED
  BY <1>1, <1>2, <1>3

\* The recordings the unlocked handlers put under raw/.
LEMMA StagesOK ==
  ASSUME IInv, NEW r \in Runs,
         IngestRecordingStages(r) \/ AttachStages(r) \/ AttachFails(r)
  PROVE  IInv'
<1> USE DEF IInv
<1>1. CASE IngestRecordingStages(r)
  <2>1. RunsOK'
    <3>1. run' = [run EXCEPT ![r] = [run[r] EXCEPT !.phase = "staged"]]
      BY <1>1 DEF IngestRecordingStages
    <3> QED
      BY <1>1, <3>1, StagedSlot, SlotStep DEF IngestRecordingStages, At
  <2>2. run[r].key \in RawKeys /\ run[r].input.rec \in Recordings
    BY <1>1, RemembersOK DEF IngestRecordingStages, At, Rereads
  <2> QED
    BY <1>1, <2>1, <2>2 DEF IngestRecordingStages, RowsOK, FilesOK, dbVars
<1>2. CASE AttachStages(r)
  <2>1. RunsOK'
    BY <1>2, StagedSlot, CancelJobsOK DEF AttachStages, At
  <2>2. run[r].input.rec \in Recordings
    BY <1>2, RemembersOK DEF AttachStages, At, Rereads
  <2> QED
    BY <1>2, <2>1, <2>2 DEF AttachStages, RowsOK, FilesOK, dbVars
<1>3. CASE AttachFails(r)
  <2>1. RunsOK'
    BY <1>3, IdleSlot, CancelJobsOK DEF AttachFails, CancelFails
  <2> QED
    BY <1>3, <2>1 DEF AttachFails, RowsOK, FilesOK, dbVars, storageVars
<1> QED
  BY <1>1, <1>2, <1>3

-------------------------------------------------------------------------------
\* A new talk.
LEMMA InitOK == Init => IInv
  BY NewTalkOK, NoClipsOK, IdleSlot DEF Init, IInv, RowsOK, FilesOK, RunsOK

\* The first session of every job.
LEMMA JobStartOK == ASSUME IInv, NEW r \in Runs, JobStart(r) PROVE IInv'
  BY IngestStartOK, DetectStartOK, CutStartOK, PreviewStartOK, SlateStartOK, ConcatStartOK,
     LoudnessStartOK, TranscodeStartOK, PublishStartOK
     DEF JobStart, IntroStart, OutroStart, ClipKeys

\* Every request that begins.
LEMMA AsksOK == ASSUME IInv, NEW r \in Runs, Asks(r) PROVE IInv'
  BY UploadRecordingOK, IngestRecordingReadsOK, AttachReadsOK, RejectTalkOK, ConfigureAssemblyOK,
     SubmitCutBoundsOK, HandleApproveOK, HandleRejectOK, AbortReadsOK DEF Asks

\* Every later step of the unlocked handlers.
LEMMA UnlockedOK == ASSUME IInv, NEW r \in Runs, Unlocked(r) PROVE IInv'
  BY StagesOK, CommitsDetectingOK, AbortStepsOK DEF Unlocked

\* Every step of the system keeps the invariant.
LEMMA StepOK == IInv /\ [Next]_vars => IInv'
<1> SUFFICES ASSUME IInv, [Next]_vars PROVE IInv'
  OBVIOUS
<1>1. ASSUME NEW r \in Runs, Job(r) PROVE IInv'
  BY <1>1, JobStartOK, JobStoreOK, JobCommitOK, JobNextOK, JobFailureOK DEF Job
<1>2. ASSUME NEW r \in Runs,
             Sends(r) \/ Unlocked(r) \/ Killed(r) \/ Crashes(r) \/ Asks(r)
      PROVE  IInv'
  BY <1>2, SendsOK, UnlockedOK, EndedOK, AsksOK
<1>3. CASE Decides
  BY <1>3, DecidesOK
<1>4. CASE UNCHANGED vars
  BY <1>4 DEF vars, IInv, RowsOK, FilesOK, RunsOK
<1> QED
  BY <1>1, <1>2, <1>3, <1>4 DEF Next

\* For any number of slots, workers, recordings, bounds and raw keys, and with
\* every fault: each job finds the key, the file and the row it will use.
THEOREM Invariance == Spec => []IInv
  BY InitOK, StepOK, PTL DEF Spec

\* The invariant implies the plain types.
LEMMA IInvTypes == IInv => TypeOK
  BY DEF IInv, RowsOK, FilesOK, RunsOK, Slot, TypeOK

\* Every column, file and slot has its type in every reachable state, for all
\* values of the constants (job and handler code of tasks.py and talks.py).
THEOREM TypeCorrect == Spec => []TypeOK
  BY Invariance, IInvTypes, PTL

-------------------------------------------------------------------------------
(* The life cycle *)

\* The status stays, moves along an edge, or goes back to the start.
Ordinary ==
  \/ talk'.status = talk.status
  \/ CanAdvance(talk.status, talk'.status)
  \/ talk'.status = "waiting_for_files"

\* ingest_recording or attach_room_recording writes detecting over the status,
\* whatever it has become since the row was read.
Restarts ==
  /\ \E r \in Runs : IngestRecordingCommits(r) \/ AttachCommits(r)
  /\ talk'.status = "detecting"

-------------------------------------------------------------------------------
\* advance() moves along an edge.
LEMMA AdvanceIsOrdinary ==
  ASSUME IInv, NEW to, Advance(to) PROVE Ordinary
  BY DEF IInv, RowsOK, TalkRow, Advance, Ordinary

\* The jobs: the claim of job_ingest and the second sessions use advance() or
\* write pending_approval over detecting; the roll-back of job_ingest resets;
\* _handle_failure breaks a talk in any status it does not exempt.
LEMMA JobIsOrdinary ==
  ASSUME IInv, NEW r \in Runs, Job(r) PROVE Ordinary
<1>1. talk \in TalkRow
  BY DEF IInv, RowsOK
<1>2. CASE JobStart(r)
  BY <1>2, AdvanceIsOrdinary
     DEF JobStart, IngestStart, DetectStart, CutStart, PreviewStart, IntroStart, OutroStart,
         SlateStart, ConcatStart, LoudnessStart, TranscodeStart, PublishStart, dbVars, Ordinary
<1>3. CASE JobStore(r)
  BY <1>3 DEF JobStore, IngestStore, MediaStore, SlateStore, Stores, dbVars, Ordinary
<1>4. CASE JobCommit(r)
  <2>1. CASE DetectCommit(r)
    <3>1. CASE Accepted(r, {"detecting"})
      BY <1>1, <2>1, <3>1
         DEF DetectCommit, Accepted, TalkRow, Ordinary, CanAdvance, Transitions
    <3>2. CASE ~Accepted(r, {"detecting"})
      BY <2>1, <3>2 DEF DetectCommit, Rejected, Ordinary
    <3> QED
      BY <3>1, <3>2
  <2>2. CASE ~DetectCommit(r)
    BY <1>4, <2>2, AdvanceIsOrdinary
       DEF JobCommit, IngestCommit, CutCommit, PreviewCommit, IntroCommit, OutroCommit,
           SlateCommit, ConcatCommit, LoudnessCommit, TranscodeCommit, PublishCommit,
           Rejected, Ordinary
  <2> QED
    BY <2>1, <2>2
<1>5. CASE JobNext(r)
  BY <1>5 DEF JobNext, IngestNext, CutNext, SlateNext, ConcatNext, LoudnessNext, TranscodeNext,
              PublishNext, Continues, dbVars, Ordinary
<1>6. CASE JobFailure(r)
  <2>1. \A s \in TalkStatus : AfterFailure(s) = s \/ CanAdvance(s, AfterFailure(s))
    BY DEF TalkStatus, AfterFailure, FailureExempt, CanAdvance, Transitions
  <2>2. CASE WorkFails(r)
    BY <2>2 DEF WorkFails, dbVars, Ordinary
  <2>3. CASE IngestRollback(r)
    BY <1>1, <2>3 DEF IngestRollback, TalkRow, Ordinary
  <2>4. CASE HandleFailure(r)
    BY <1>1, <2>1, <2>4 DEF HandleFailure, TalkRow, Ordinary
  <2> QED
    BY <1>6, <2>2, <2>3, <2>4 DEF JobFailure
<1> QED
  BY <1>2, <1>3, <1>4, <1>5, <1>6 DEF Job

\* What the handlers do after their commit: only a dispatch that fails breaks
\* the talk, and a room recording whose detect job is refused.
LEMMA SendsIsOrdinary ==
  ASSUME IInv, NEW r \in Runs, Sends(r) PROVE Ordinary
<1>1. talk \in TalkRow
  BY DEF IInv, RowsOK
<1>2. CASE AttachSends(r)
  BY <1>1, <1>2 DEF AttachSends, TalkRow, Ordinary, CanAdvance, Transitions
<1>3. CASE ~AttachSends(r)
  BY <1>3, AdvanceIsOrdinary
     DEF Sends, SubmitCutSends, AssemblySends, CleanupSends, IngestRecordingSends, Ordinary
<1> QED
  BY <1>2, <1>3

\* The unlocked handlers: an abort resets the status, or leaves the one that
\* another session wrote; the two others write detecting.
LEMMA UnlockedMoves ==
  ASSUME IInv, NEW r \in Runs, Unlocked(r) PROVE Ordinary \/ Restarts
<1>1. CASE IngestRecordingCommits(r) \/ AttachCommits(r)
  <2>1. run[r].fn \in {"ingest_recording", "attach_room"} /\ run[r].phase = "staged"
    BY <1>1 DEF IngestRecordingCommits, AttachCommits, At
  <2>2. run[r].seen \in TalkRow
    BY <2>1, RemembersOK DEF IInv, Rereads
  <2>3. talk'.status \in {talk.status, "detecting"}
    BY <1>1, <2>2 DEF IngestRecordingCommits, AttachCommits, Flush, TalkRow
  <2> QED
    BY <1>1, <2>3 DEF Ordinary, Restarts
<1>2. CASE AbortCommits(r)
  BY <1>2 DEF AbortCommits, Flush, NewTalk, Ordinary
<1>3. CASE UNCHANGED talk
  BY <1>3 DEF Ordinary
<1> QED
  BY <1>1, <1>2, <1>3
     DEF Unlocked, IngestRecordingStages, AbortCancels, AbortFails, AttachStages, AttachFails,
         dbVars

\* The choice of the slates leaves the status it was given.
LEMMA ConfiguresIsOrdinary ==
  ASSUME IInv, NEW i, NEW o, NEW status, ConfiguresSlates(i, o, status) PROVE Ordinary
  BY DEF IInv, RowsOK, TalkRow, ConfiguresSlates, Ordinary

\* Requests that begin: those that lock the row check its status first.
LEMMA AsksIsOrdinary ==
  ASSUME IInv, NEW r \in Runs, Asks(r) PROVE Ordinary
<1>1. talk \in TalkRow
  BY DEF IInv, RowsOK
<1>2. CASE SubmitCutBounds(r)
  <2>1. talk'.status = "cutting" /\ talk.status \in {"pending_bounds", "needs_work"}
    BY <1>1, <1>2 DEF SubmitCutBounds, TalkRow
  <2> QED
    BY <2>1 DEF Ordinary, CanAdvance, Transitions
<1>3. CASE HandleReject(r)
  BY <1>1, <1>3 DEF HandleReject, TalkRow, Ordinary, CanAdvance, Transitions
<1>4. CASE ConfigureAssembly(r)
  BY <1>4, ConfiguresIsOrdinary DEF ConfigureAssembly
<1>5. CASE RejectTalk(r) \/ HandleApprove(r)
  BY <1>5, AdvanceIsOrdinary DEF RejectTalk, HandleApprove
<1>6. CASE UNCHANGED talk
  BY <1>6 DEF Ordinary
<1> QED
  BY <1>2, <1>3, <1>4, <1>5, <1>6
     DEF Asks, UploadRecording, IngestRecordingReads, AttachReads, AbortReads, dbVars

\* Every step of the system.
LEMMA StatusStep == ASSUME IInv, [Next]_vars PROVE Ordinary \/ Restarts
<1>1. CASE Decides
  BY <1>1, AdvanceIsOrdinary, ConfiguresIsOrdinary
     DEF Decides, ApproveTalk, HandoffTalk, HandleNeedsWork
<1>2. ASSUME NEW r \in Runs, Killed(r) \/ Crashes(r) PROVE Ordinary
  BY <1>2 DEF Killed, Crashes, Ordinary
<1>3. CASE UNCHANGED vars
  BY <1>3 DEF vars, Ordinary
<1> QED
  BY <1>1, <1>2, <1>3, JobIsOrdinary, SendsIsOrdinary, UnlockedMoves, AsksIsOrdinary DEF Next

-------------------------------------------------------------------------------
\* With every entry and every overlap: the only steps that leave the life cycle
\* of app/states.py are the commits of ingest_recording and of
\* attach_room_recording, which write detecting over a status they read long
\* before; whatever else interleaves or fails, though much of the code assigns
\* the status without advance().
THEOREM StatusMoves == Spec => [][Ordinary \/ Restarts]_vars
<1>1. IInv /\ [Next]_vars => [Ordinary \/ Restarts]_vars
  BY StatusStep
<1> QED
  BY <1>1, Invariance, PTL DEF Spec

\* TalkLifecycle reads the same table of transitions.
LEMMA SameTable ==
  /\ Lifecycle!TalkStatus = TalkStatus
  /\ \A s, t : Lifecycle!CanAdvance(s, t) <=> CanAdvance(s, t)
  BY DEF Lifecycle!TalkStatus, TalkStatus, Lifecycle!CanAdvance, CanAdvance,
         Lifecycle!Transitions, Transitions

\* An installation whose recordings come in by upload only keeps to the life
\* cycle of app/states.py: then no handler writes detecting over a status it
\* read long before.
THEOREM UploadsImplementLifecycle ==
  ASSUME Entries \cap {"recordings", "room"} = {}
  PROVE  Spec => ImplementsLifecycle
<1>1. Init => Lifecycle!Init
  BY DEF Init, NewTalk, Lifecycle!Init
<1>2. IInv => ~ \E r \in Runs : IngestRecordingCommits(r) \/ AttachCommits(r)
  BY DEF IInv, RunsOK, Slot, WellFormed, IngestRecordingCommits, AttachCommits, At
<1>3. IInv /\ IInv' /\ [Next]_vars => [Lifecycle!Next]_(talk.status)
  <2> SUFFICES ASSUME IInv, IInv', [Next]_vars PROVE [Lifecycle!Next]_(talk.status)
    OBVIOUS
  <2>1. Ordinary
    BY <1>2, StatusStep DEF Restarts
  <2>2. talk'.status \in TalkStatus
    BY DEF IInv, RowsOK, TalkRow
  <2> QED
    BY <2>1, <2>2, SameTable DEF Ordinary, Lifecycle!Next, Lifecycle!Advance, Lifecycle!Reset
<1> QED
  BY <1>1, <1>3, Invariance, PTL DEF Spec, ImplementsLifecycle, Lifecycle!Spec

-------------------------------------------------------------------------------
\* The step of one slot alone, and that slot's Job row is deleted; job_ingest
\* is left out, which gives its claim back without looking at its row.
Orphan(r) ==
  /\ run[r].row = "deleted" /\ run[r].fn # "ingest"
  /\ run'[r] # run[r]
  /\ \A s \in Runs \ {r} : run'[s] = run[s]

\* The deleted row is that of a job, and none of a request or of a free slot.
LEMMA OrphanIsJob ==
  ASSUME IInv, NEW r \in Runs, run[r].row = "deleted"
  PROVE  run[r].fn \notin Requests /\ run[r] # Idle
  BY DEF IInv, RunsOK, Slot, WellFormed, Idle

\* If one slot's step is another's, they are the same slot.
LEMMA SameSlot ==
  ASSUME IInv, NEW r \in Runs, NEW q \in Runs, Orphan(r),
         NEW s, run' = [run EXCEPT ![q] = s]
  PROVE  q = r
  BY DEF IInv, RunsOK, Orphan

\* A job whose Job row an abort has deleted no longer touches the talk: its
\* second session and _handle_failure see that the row is gone.
LEMMA OrphanStep ==
  ASSUME IInv, [Next]_vars, NEW r \in Runs, Orphan(r) PROVE UNCHANGED talk
<1>1. ASSUME NEW q \in Runs, Job(q) PROVE UNCHANGED talk
  <2>1. CASE IngestStart(q) \/ IngestRollback(q)
    <3>1. \E s : run' = [run EXCEPT ![q] = s]
      BY <2>1 DEF IngestStart, IngestRollback, Begins, Discards
    <3> QED
      BY <2>1, <3>1, SameSlot DEF IngestStart, Dequeues, IngestRollback, At, Orphan
  <2>2. CASE HandleFailure(q)
    BY <2>2, SameSlot DEF HandleFailure, Discards, Orphan
  <2>3. CASE JobCommit(q)
    <3>1. \E s : run' = [run EXCEPT ![q] = s]
      BY <2>3 DEF JobCommit, IngestCommit, DetectCommit, CutCommit, PreviewCommit, IntroCommit,
           OutroCommit, SlateCommit, ConcatCommit, LoudnessCommit, TranscodeCommit,
           PublishCommit, Rejected, MarksDone, Discards, Becomes
    <3>2. run[q].row # "running"
      BY <3>1, SameSlot DEF Orphan
    <3> QED
      BY <2>3, <3>2
         DEF JobCommit, IngestCommit, DetectCommit, CutCommit, PreviewCommit, IntroCommit,
           OutroCommit, SlateCommit, ConcatCommit, LoudnessCommit, TranscodeCommit,
           PublishCommit, Rejected, Accepted
  <2>4. CASE JobStart(q) /\ ~IngestStart(q)
    BY <2>4
       DEF JobStart, DetectStart, CutStart, PreviewStart, IntroStart, OutroStart, SlateStart,
           ConcatStart, LoudnessStart, TranscodeStart, PublishStart, dbVars
  <2>5. CASE JobStore(q) \/ JobNext(q) \/ WorkFails(q)
    BY <2>5
       DEF JobStore, IngestStore, MediaStore, SlateStore, Stores, JobNext, IngestNext, CutNext,
           SlateNext, ConcatNext, LoudnessNext, TranscodeNext, PublishNext, Continues,
           WorkFails, dbVars
  <2> QED
    BY <1>1, <2>1, <2>2, <2>3, <2>4, <2>5 DEF Job, JobFailure
<1>2. ASSUME NEW q \in Runs, Sends(q) PROVE UNCHANGED talk
  <2>1. run[q].fn \in Requests /\ \E s : run' = [run EXCEPT ![q] = s]
    BY <1>2 DEF Sends, SubmitCutSends, AssemblySends, CleanupSends, IngestRecordingSends,
                AttachSends, DispatchAssembly, Becomes, At, Requests
  <2> QED
    BY <2>1, SameSlot, OrphanIsJob DEF Orphan
<1>3. ASSUME NEW q \in Runs, Unlocked(q) PROVE UNCHANGED talk
  <2>1. CASE IngestRecordingCommits(q) \/ AttachCommits(q)
    <3>1. run[q].fn \in Requests /\ \E s : run' = [run EXCEPT ![q] = s]
      BY <2>1 DEF IngestRecordingCommits, AttachCommits, At, Requests
    <3> QED
      BY <3>1, SameSlot, OrphanIsJob DEF Orphan
  <2>2. CASE AbortCommits(q)
    <3>1. run[q].fn \in Requests /\ run[q] # Idle /\ run'[q] = Idle
      BY <2>2 DEF AbortCommits, At, Requests, Idle
    <3>2. q = r
      BY <3>1 DEF Orphan
    <3> QED
      BY <3>1, <3>2, OrphanIsJob DEF Orphan
  <2>3. CASE ~(IngestRecordingCommits(q) \/ AttachCommits(q) \/ AbortCommits(q))
    BY <1>3, <2>3
       DEF Unlocked, IngestRecordingStages, AbortCancels, AbortFails, AttachStages, AttachFails,
           dbVars
  <2> QED
    BY <2>1, <2>2, <2>3
<1>4. ASSUME NEW q \in Runs, Asks(q) PROVE UNCHANGED talk
  <2>1. run[q] = Idle /\ \E s : run' = [run EXCEPT ![q] = s]
    BY <1>4 DEF Asks, UploadRecording, IngestRecordingReads, AttachReads, RejectTalk,
                ConfigureAssembly, SubmitCutBounds, HandleApprove, HandleReject, AbortReads,
                Takes, Becomes
  <2> QED
    BY <2>1, SameSlot, OrphanIsJob DEF Orphan
<1>5. CASE Decides
  BY <1>5 DEF Decides, ApproveTalk, HandoffTalk, HandleNeedsWork, Orphan
<1>6. ASSUME NEW q \in Runs, Killed(q) \/ Crashes(q) PROVE UNCHANGED talk
  BY <1>6 DEF Killed, Crashes
<1>7. CASE UNCHANGED vars
  BY <1>7 DEF vars
<1> QED
  BY <1>1, <1>2, <1>3, <1>4, <1>5, <1>6, <1>7 DEF Next

\* After an abort no job left over from the attempt it ended can move, break or
\* otherwise write the talk, for any number of jobs and requests at once, and
\* also when stop commands arrive late or not at all.
THEOREM DeletedStaysInert == Spec => DeletedIsInert
<1>1. IInv /\ [Next]_vars =>
        [\A r \in Runs :
           /\ run[r].row = "deleted" /\ run[r].fn # "ingest"
           /\ run'[r] # run[r]
           /\ \A s \in Runs \ {r} : run'[s] = run[s]
           => talk' = talk]_vars
  BY OrphanStep DEF Orphan
<1> QED
  BY <1>1, Invariance, PTL DEF Spec, DeletedIsInert

-------------------------------------------------------------------------------
(* The queues *)

\* The jobs of a list, and that each of them is there once.
Listed(list) == {list[i] : i \in 1..Len(list)}
\* No entry of a list is there twice.
EachOnce(list) == \A i, j \in 1..Len(list) : list[i] = list[j] => i = j

\* The two Redis lists.
Lists == {"light", "heavy"}

\* The slots whose job waits in a list.
Waiting(q) == {r \in Runs : run[r].phase = "queued" /\ QueueOf(run[r].fn) = q}

\* QueueOK, with the order in which the jobs wait.
QueuesOK ==
  /\ queue \in [Lists -> Seq(Runs)]
  /\ \A q \in Lists : EachOnce(queue[q]) /\ Listed(queue[q]) = Waiting(q)
  /\ \A r \in Runs : run[r].phase = "queued" => run[r].fn \in JobKinds

\* An enqueue puts the job at the end.
LEMMA AppendIs ==
  ASSUME NEW list \in Seq(Runs), EachOnce(list), NEW r \in Runs \ Listed(list),
         NEW new, new = Append(list, r)
  PROVE  new \in Seq(Runs) /\ EachOnce(new) /\ Listed(new) = Listed(list) \cup {r}
<1>1. /\ Len(list) \in Nat /\ new \in Seq(Runs) /\ Len(new) = Len(list) + 1
      /\ new[Len(list) + 1] = r
      /\ \A i \in 1..Len(list) : new[i] = list[i]
  OBVIOUS
<1>2. \A i \in 1..Len(new) : i \in 1..Len(list) \/ i = Len(list) + 1
  BY <1>1
<1>3. \A i \in 1..Len(list) : i \in 1..Len(new) /\ i # Len(list) + 1 /\ list[i] # r
  BY <1>1 DEF Listed
<1>4. Len(list) + 1 \in 1..Len(new)
  BY <1>1
<1>5. EachOnce(new)
  BY <1>1, <1>2, <1>3 DEF EachOnce
<1>6. Listed(new) = Listed(list) \cup {r}
  BY <1>1, <1>2, <1>3, <1>4 DEF Listed
<1> QED
  BY <1>1, <1>5, <1>6

\* A worker takes the head.
LEMMA TailIs ==
  ASSUME NEW list \in Seq(Runs), EachOnce(list), list # <<>>, NEW new, new = Tail(list)
  PROVE  new \in Seq(Runs) /\ EachOnce(new) /\ Listed(new) = Listed(list) \ {Head(list)}
<1>1. /\ Len(list) \in Nat /\ Len(list) >= 1 /\ new \in Seq(Runs) /\ Len(new) = Len(list) - 1
      /\ Head(list) = list[1]
      /\ \A i \in 1..(Len(list) - 1) : new[i] = list[i + 1]
  OBVIOUS
<1>2. \A i \in 1..Len(new) : i + 1 \in 1..Len(list) /\ new[i] = list[i + 1]
  BY <1>1
<1>3. EachOnce(new)
  <2> SUFFICES ASSUME NEW i \in 1..Len(new), NEW j \in 1..Len(new), new[i] = new[j]
               PROVE  i = j
    BY DEF EachOnce
  <2>1. i + 1 = j + 1
    BY <1>2 DEF EachOnce
  <2> QED
    BY <1>1, <2>1
<1>4. \A i \in 1..Len(list) : i # 1 => i - 1 \in 1..Len(new) /\ list[i] = new[i - 1]
  BY <1>1
<1>5. \A i \in 1..Len(new) : i + 1 # 1 /\ 1 \in 1..Len(list)
  BY <1>1
<1>6. Listed(new) \subseteq Listed(list) \ {list[1]}
  <2> SUFFICES ASSUME NEW i \in 1..Len(new) PROVE new[i] \in Listed(list) /\ new[i] # list[1]
    BY DEF Listed
  <2> QED
    BY <1>2, <1>5 DEF Listed, EachOnce
<1>7. Listed(list) \ {list[1]} \subseteq Listed(new)
  <2> SUFFICES ASSUME NEW i \in 1..Len(list), list[i] # list[1] PROVE list[i] \in Listed(new)
    BY DEF Listed
  <2> QED
    BY <1>4 DEF Listed
<1> QED
  BY <1>1, <1>3, <1>6, <1>7

\* What Without has kept of the first i jobs, given what it kept before.
Left(f, list, jobs, i) ==
  IF i = 0 THEN <<>>
  ELSE IF list[i] \in jobs THEN f[i - 1] ELSE Append(f[i - 1], list[i])

\* What is left of a list depends on its first entries only.
LEMMA LeftIsLocal ==
  ASSUME NEW f, NEW g, NEW list, NEW jobs, NEW i, i = 0 \/ f[i - 1] = g[i - 1]
  PROVE  Left(f, list, jobs, i) = Left(g, list, jobs, i)
  BY DEF Left

\* The recursion is well-founded: there is such a function.
LEMMA KeptExists ==
  ASSUME NEW list, NEW jobs, NEW n \in Nat
  PROVE  \E f : f = [i \in 0..n |-> Left(f, list, jobs, i)]
<1> DEFINE Good(m) == \E f : f = [i \in 0..m |-> Left(f, list, jobs, i)]
           T == {m \in 0..n : ~Good(m)}
<1>1. SUFFICES ASSUME T # {} PROVE FALSE
  OBVIOUS
<1>2. PICK m \in T : \A j \in T : m <= j
  <2>1. T \in SUBSET Nat
    OBVIOUS
  <2> HIDE DEF T
  <2> QED
    BY <1>1, <2>1, LeastIsThere
<1>3. m \in 0..n /\ ~Good(m)
  OBVIOUS
<1>4. CASE m = 0
  <2> DEFINE f == [i \in 0..0 |-> <<>>]
  <2>1. f = [i \in 0..0 |-> Left(f, list, jobs, i)]
    BY DEF Left
  <2> QED
    BY <1>3, <1>4, <2>1
<1>5. CASE m # 0
  <2>1. m - 1 \in 0..n /\ ~(m <= m - 1)
    BY <1>3, <1>5
  <2>2. Good(m - 1)
    BY <1>2, <2>1
  <2>3. PICK f : f = [i \in 0..(m - 1) |-> Left(f, list, jobs, i)]
    BY <2>2
  <2> DEFINE g == [i \in 0..m |-> IF i = m THEN Left(f, list, jobs, i) ELSE f[i]]
  <2>4. ASSUME NEW i \in 0..m PROVE g[i] = Left(g, list, jobs, i)
    <3>1. g[i] = Left(f, list, jobs, i)
      <4>1. CASE i = m
        BY <4>1
      <4>2. CASE i # m
        <5>1. i \in 0..(m - 1)
          BY <1>3, <4>2
        <5>2. f[i] = Left(f, list, jobs, i)
          BY <2>3, <5>1
        <5> QED
          BY <4>2, <5>2
      <4> QED
        BY <4>1, <4>2
    <3>2. i = 0 \/ f[i - 1] = g[i - 1]
      <4>1. i # 0 => i - 1 \in 0..m /\ i - 1 # m
        BY <1>3
      <4> QED
        BY <4>1
    <3> HIDE DEF g
    <3> QED
      BY <3>1, <3>2, LeftIsLocal
  <2>5. g = [i \in 0..m |-> Left(g, list, jobs, i)]
    <3>1. g = [i \in 0..m |-> g[i]]
      OBVIOUS
    <3> HIDE DEF g
    <3> QED
      BY <2>4, <3>1
  <2> QED
    BY <1>3, <2>5
<1> QED
  BY <1>4, <1>5

\* Without takes the last value of that function.
LEMMA WithoutIsKept ==
  ASSUME NEW list, NEW jobs, NEW n \in Nat, n = Len(list)
  PROVE  \E f : f = [i \in 0..n |-> Left(f, list, jobs, i)] /\ Without(list, jobs) = f[n]
<1> DEFINE kept == CHOOSE f : f = [i \in 0..n |-> Left(f, list, jobs, i)]
<1>1. Without(list, jobs) = kept[n]
  BY DEF Without, Left
<1>2. kept = [i \in 0..n |-> Left(kept, list, jobs, i)]
  BY KeptExists
<1> HIDE DEF kept
<1> QED
  BY <1>1, <1>2

\* What is left of a list is the list without those jobs, each once.
LEMMA WithoutIs ==
  ASSUME NEW list \in Seq(Runs), EachOnce(list), NEW jobs, NEW new, new = Without(list, jobs)
  PROVE  new \in Seq(Runs) /\ EachOnce(new) /\ Listed(new) = Listed(list) \ jobs
<1>1. Len(list) \in Nat /\ \A i \in 1..Len(list) : list[i] \in Runs
  OBVIOUS
<1>2. PICK kept : /\ kept = [i \in 0..Len(list) |-> Left(kept, list, jobs, i)]
                  /\ Without(list, jobs) = kept[Len(list)]
  BY <1>1, WithoutIsKept
<1> DEFINE n == Len(list)
           First(i) == {list[j] : j \in 1..i}
           Good(i) == /\ kept[i] \in Seq(Runs) /\ EachOnce(kept[i])
                      /\ Listed(kept[i]) = First(i) \ jobs
           T == {i \in 0..n : ~Good(i)}
<1>4. T = {}
  <2>1. SUFFICES ASSUME T # {} PROVE FALSE
    OBVIOUS
  <2>2. PICK m \in T : \A j \in T : m <= j
    <3>1. T \in SUBSET Nat
      BY <1>1
    <3> HIDE DEF T
    <3> QED
      BY <2>1, <3>1, LeastIsThere
  <2>3. m \in 0..n /\ ~Good(m) /\ kept[m] = Left(kept, list, jobs, m)
    BY <1>2
  <2>4. CASE m = 0
    <3>1. kept[m] = <<>> /\ First(m) = {}
      BY <2>3, <2>4 DEF Left
    <3>2. <<>> \in Seq(Runs) /\ EachOnce(<<>>) /\ Listed(<<>>) = {}
      BY DEF EachOnce, Listed
    <3> QED
      BY <2>3, <3>1, <3>2
  <2>5. CASE m # 0
    <3>1. m - 1 \in 0..n /\ m \in 1..n /\ ~(m <= m - 1)
      BY <1>1, <2>3, <2>5
    <3>2. Good(m - 1)
      BY <2>2, <3>1
    <3>3. First(m) = First(m - 1) \cup {list[m]}
      <4>1. \A i \in 1..m : i \in 1..(m - 1) \/ i = m
        BY <3>1
      <4>2. \A i \in 1..(m - 1) : i \in 1..m
        BY <3>1
      <4>3. m \in 1..m
        BY <3>1
      <4> QED
        BY <4>1, <4>2, <4>3
    <3>4. list[m] \notin First(m - 1)
      <4>1. \A i \in 1..(m - 1) : i \in 1..n /\ i # m
        BY <1>1, <3>1
      <4> QED
        BY <3>1, <4>1 DEF EachOnce
    <3> HIDE DEF First
    <3>5. CASE list[m] \in jobs
      <4>1. kept[m] = kept[m - 1]
        BY <2>3, <2>5, <3>5 DEF Left
      <4> QED
        BY <2>3, <3>2, <3>3, <3>5, <4>1
    <3>6. CASE list[m] \notin jobs
      <4>1. kept[m] = Append(kept[m - 1], list[m])
        BY <2>3, <2>5, <3>6 DEF Left
      <4>2. list[m] \in Runs \ Listed(kept[m - 1])
        BY <1>1, <3>1, <3>2, <3>4
      <4>3. /\ kept[m] \in Seq(Runs) /\ EachOnce(kept[m])
            /\ Listed(kept[m]) = Listed(kept[m - 1]) \cup {list[m]}
        BY <3>2, <4>1, <4>2, AppendIs
      <4> QED
        BY <2>3, <3>2, <3>3, <3>6, <4>3
    <3> QED
      BY <3>5, <3>6
  <2> QED
    BY <2>4, <2>5
<1>5. Good(n)
  <2>1. n \in 0..n
    BY <1>1
  <2> HIDE DEF Good, n
  <2> QED
    BY <1>4, <2>1
<1>6. First(n) = Listed(list)
  BY DEF Listed
<1> QED
  BY <1>2, <1>5, <1>6

\* A step that leaves the queues alone, and who waits in them.
LEMMA QueuesStay ==
  ASSUME QueuesOK, queue' = queue,
         \A r \in Runs : /\ run'[r].phase = "queued" <=> run[r].phase = "queued"
                         /\ run[r].phase = "queued" => run'[r].fn = run[r].fn
  PROVE  QueuesOK'
<1>1. \A q \in Lists : Waiting(q)' = Waiting(q)
  BY DEF Waiting
<1> QED
  BY <1>1 DEF QueuesOK

\* A step of one slot that does not wait, and will not.
LEMMA SlotRuns ==
  ASSUME QueuesOK, RunsOK, NEW r \in Runs, NEW s, run' = [run EXCEPT ![r] = s], queue' = queue,
         run[r].phase # "queued", s.phase # "queued"
  PROVE  QueuesOK'
<1>1. run'[r] = s /\ \A t \in Runs \ {r} : run'[t] = run[t]
  BY DEF RunsOK
<1> QED
  BY <1>1, QueuesStay

\* Only the phase of a slot changes.
LEMMA PhaseRuns ==
  ASSUME QueuesOK, RunsOK, NEW r \in Runs, NEW phase, run' = [run EXCEPT ![r].phase = phase],
         queue' = queue, run[r].phase # "queued", phase # "queued"
  PROVE  QueuesOK'
<1> DEFINE s == [run[r] EXCEPT !.phase = phase]
<1>1. run' = [run EXCEPT ![r] = s] /\ s.phase = phase
  BY DEF RunsOK, Slot, Run
<1> HIDE DEF s
<1> QED
  BY <1>1, SlotRuns

\* A slot that does not wait falls free or is taken over by a job.
LEMMA BecomesQueued ==
  ASSUME QueuesOK, RunsOK, NEW r \in Runs, run[r].phase # "queued",
         NEW next, Becomes(r, next), next.phase = "queued" => next.fn \in JobKinds
  PROVE  QueuesOK'
<1>1. run'[r] = next /\ \A t \in Runs \ {r} : run'[t] = run[t]
  BY DEF Becomes, RunsOK
<1>2. CASE next.phase # "queued"
  BY <1>2, SlotRuns DEF Becomes
<1>3. CASE next.phase = "queued"
  <2> DEFINE q == QueueOf(next.fn)
             list == Append(queue[q], r)
  <2>1. q \in Lists /\ queue' = [queue EXCEPT ![q] = list]
    BY <1>3 DEF Becomes, QueueOf, Lists
  <2>2. queue[q] \in Seq(Runs) /\ EachOnce(queue[q]) /\ Listed(queue[q]) = Waiting(q)
    BY <2>1 DEF QueuesOK
  <2>3. r \notin Listed(queue[q])
    BY <2>2 DEF Waiting
  <2>4. list \in Seq(Runs) /\ EachOnce(list) /\ Listed(list) = Waiting(q) \cup {r}
    BY <2>2, <2>3, AppendIs
  <2>5. \A p \in Lists : Waiting(p)' = IF p = q THEN Waiting(p) \cup {r} ELSE Waiting(p)
    BY <1>1, <1>3 DEF Waiting
  <2> HIDE DEF list, q
  <2>6. /\ queue' \in [Lists -> Seq(Runs)]
        /\ \A p \in Lists : queue'[p] = IF p = q THEN list ELSE queue[p]
    BY <2>1, <2>4 DEF QueuesOK
  <2>7. \A p \in Lists : EachOnce(queue'[p]) /\ Listed(queue'[p]) = Waiting(p)'
    BY <2>4, <2>5, <2>6 DEF QueuesOK
  <2>8. \A t \in Runs : run'[t].phase = "queued" => run'[t].fn \in JobKinds
    BY <1>1, <1>3 DEF QueuesOK
  <2> QED
    BY <2>6, <2>7, <2>8 DEF QueuesOK
<1> QED
  BY <1>2, <1>3

\* A worker takes the job at the head of its queue.
LEMMA DequeuesOne ==
  ASSUME QueuesOK, RunsOK, NEW r \in Runs, NEW kind, Dequeues(r, kind),
         NEW s, run' = [run EXCEPT ![r] = s], s.phase # "queued"
  PROVE  QueuesOK'
<1>1. run'[r] = s /\ \A t \in Runs \ {r} : run'[t] = run[t]
  BY DEF RunsOK
<1> DEFINE q == QueueOf(kind)
           list == Tail(queue[q])
<1>2. /\ q \in Lists /\ queue' = [queue EXCEPT ![q] = list]
      /\ queue[q] # <<>> /\ Head(queue[q]) = r
      /\ run[r].phase = "queued" /\ QueueOf(run[r].fn) = q
  BY DEF Dequeues, QueueOf, Lists
<1>3. queue[q] \in Seq(Runs) /\ EachOnce(queue[q]) /\ Listed(queue[q]) = Waiting(q)
  BY <1>2 DEF QueuesOK
<1>4. list \in Seq(Runs) /\ EachOnce(list) /\ Listed(list) = Waiting(q) \ {r}
  BY <1>2, <1>3, TailIs
<1>5. \A p \in Lists : Waiting(p)' = IF p = q THEN Waiting(p) \ {r} ELSE Waiting(p)
  BY <1>1, <1>2 DEF Waiting
<1> HIDE DEF list, q
<1>6. /\ queue' \in [Lists -> Seq(Runs)]
      /\ \A p \in Lists : queue'[p] = IF p = q THEN list ELSE queue[p]
  BY <1>2, <1>4 DEF QueuesOK
<1>7. \A p \in Lists : EachOnce(queue'[p]) /\ Listed(queue'[p]) = Waiting(p)'
  BY <1>4, <1>5, <1>6 DEF QueuesOK
<1>8. \A t \in Runs : run'[t].phase = "queued" => run'[t].fn \in JobKinds
  BY <1>1 DEF QueuesOK
<1> QED
  BY <1>6, <1>7, <1>8 DEF QueuesOK

\* _cancel_talk_jobs takes the jobs it reaches out of both queues.
LEMMA CancelsQueued ==
  ASSUME QueuesOK, RunsOK, NEW self \in Runs, run[self].phase # "queued",
         NEW jobs, NEW next, next.phase # "queued", CancelJobs(self, jobs, next)
  PROVE  QueuesOK'
<1>1. ASSUME NEW t \in Runs
      PROVE  /\ run'[t].phase = "queued" <=> run[t].phase = "queued" /\ t \notin jobs
             /\ run'[t].phase = "queued" => run'[t].fn = run[t].fn
  <2>1. CASE t = self
    BY <2>1 DEF CancelJobs
  <2>2. CASE t # self /\ t \notin jobs
    BY <2>2 DEF CancelJobs
  <2>3. CASE t # self /\ t \in jobs
    <3>1. run'[t] = Cancelled(t) /\ run[t] \in Run
      BY <2>3 DEF CancelJobs, RunsOK, Slot
    <3>2. CASE run[t].phase = "queued"
      BY <2>3, <3>1, <3>2 DEF QueuesOK, Cancelled, IsJob, Idle
    <3>3. CASE run[t].phase # "queued"
      BY <2>3, <3>1, <3>3 DEF Cancelled, Run
    <3> QED
      BY <3>2, <3>3
  <2> QED
    BY <2>1, <2>2, <2>3
<1>2. \A p \in Lists : Waiting(p)' = Waiting(p) \ jobs
  BY <1>1 DEF Waiting
<1>3. queue' = [p \in Lists |-> Without(queue[p], jobs)]
  BY DEF CancelJobs, QueuesOK
<1>4. ASSUME NEW p \in Lists
      PROVE  queue'[p] \in Seq(Runs) /\ EachOnce(queue'[p]) /\ Listed(queue'[p]) = Waiting(p)'
  <2>1. queue[p] \in Seq(Runs) /\ EachOnce(queue[p]) /\ Listed(queue[p]) = Waiting(p)
    BY DEF QueuesOK
  <2>2. queue'[p] = Without(queue[p], jobs)
    BY <1>3
  <2> QED
    BY <1>2, <2>1, <2>2, WithoutIs
<1>5. \A t \in Runs : run'[t].phase = "queued" => run'[t].fn \in JobKinds
  BY <1>1 DEF QueuesOK
<1>6. queue' \in [Lists -> Seq(Runs)]
  BY <1>3, <1>4
<1> QED
  BY <1>4, <1>5, <1>6 DEF QueuesOK

\* The first session of a job: it has left its queue, and is started, has
\* failed, or discards itself.
LEMMA BeginsShape ==
  ASSUME RunsOK, NEW r \in Runs,
         \/ Discards(r) \/ Raises(r) \/ \E input, bounds : Begins(r, input, bounds)
         \/ run' = [run EXCEPT ![r] = [@ EXCEPT !.row = "running", !.phase = "started"]]
  PROVE  \E s : /\ run' = [run EXCEPT ![r] = s]
                /\ s.fn \in {run[r].fn, "none"} /\ s.phase \in {"started", "failing", "free"}
<1>1. run[r] \in Run
  BY DEF RunsOK, Slot
<1>2. CASE Discards(r)
  <2>1. Idle.fn = "none" /\ Idle.phase = "free"
    BY DEF Idle
  <2>2. run' = [run EXCEPT ![r] = Idle]
    BY <1>2 DEF Discards
  <2> QED
    BY <2>1, <2>2
<1>3. CASE Raises(r)
  <2> DEFINE s == [run[r] EXCEPT !.phase = "failing"]
  <2>1. run' = [run EXCEPT ![r] = s]
    BY <1>3 DEF Raises
  <2>2. s.fn = run[r].fn /\ s.phase = "failing"
    BY <1>1 DEF Run
  <2> HIDE DEF s
  <2> QED
    BY <2>1, <2>2
<1>4. CASE \E input, bounds : Begins(r, input, bounds)
  <2>1. PICK input, bounds : Begins(r, input, bounds)
    BY <1>4
  <2> DEFINE s == [run[r] EXCEPT !.row = "running", !.input = input, !.bounds = bounds,
                     !.seen = None, !.stop = FALSE,
                     !.phase = IF input = None THEN "failing" ELSE "started"]
  <2>2. run' = [run EXCEPT ![r] = s]
    BY <2>1 DEF Begins
  <2>3. s.fn = run[r].fn /\ s.phase \in {"started", "failing"}
    BY <1>1 DEF Run
  <2> HIDE DEF s
  <2> QED
    BY <2>2, <2>3
<1>5. CASE run' = [run EXCEPT ![r] = [@ EXCEPT !.row = "running", !.phase = "started"]]
  <2> DEFINE s == [run[r] EXCEPT !.row = "running", !.phase = "started"]
  <2>1. run' = [run EXCEPT ![r] = s]
    BY <1>5
  <2>2. s.fn = run[r].fn /\ s.phase = "started"
    BY <1>1 DEF Run
  <2> HIDE DEF s
  <2> QED
    BY <2>1, <2>2
<1> QED
  BY <1>2, <1>3, <1>4, <1>5

\* The first session of a job of any kind: it is taken off the head of its queue.
LEMMA StartIs ==
  ASSUME RunsOK, NEW r \in Runs, JobStart(r)
  PROVE  /\ \E kind : Dequeues(r, kind)
         /\ \E s : /\ run' = [run EXCEPT ![r] = s]
                   /\ s.fn \in {run[r].fn, "none"} /\ s.phase \in {"started", "failing", "free"}
<1>1. CASE IngestStart(r) \/ DetectStart(r)
  BY <1>1, BeginsShape DEF IngestStart, DetectStart
<1>2. CASE CutStart(r) \/ PreviewStart(r)
  BY <1>2, BeginsShape DEF CutStart, PreviewStart
<1>3. CASE IntroStart(r) \/ OutroStart(r)
  BY <1>3, BeginsShape DEF IntroStart, OutroStart, SlateStart
<1>4. CASE ConcatStart(r) \/ LoudnessStart(r)
  BY <1>4, BeginsShape DEF ConcatStart, LoudnessStart
<1>5. CASE TranscodeStart(r) \/ PublishStart(r)
  BY <1>5, BeginsShape DEF TranscodeStart, PublishStart
<1> QED
  BY <1>1, <1>2, <1>3, <1>4, <1>5 DEF JobStart

\* It keeps the queues and who waits in them together.
LEMMA JobStartQueues ==
  ASSUME QueuesOK, RunsOK, NEW r \in Runs, JobStart(r) PROVE QueuesOK'
<1>1. PICK s : run' = [run EXCEPT ![r] = s] /\ s.phase \in {"started", "failing", "free"}
  BY StartIs
<1>2. PICK kind : Dequeues(r, kind)
  BY StartIs
<1> QED
  BY <1>1, <1>2, DequeuesOne

\* The row is marked done, or the job discards itself, or falls free.
LEMMA CommitLeaves ==
  ASSUME QueuesOK, RunsOK, NEW r \in Runs, run[r].phase # "queued", queue' = queue,
         MarksDone(r) \/ Discards(r) \/ Becomes(r, Idle)
  PROVE  QueuesOK'
<1>1. CASE MarksDone(r)
  <2> DEFINE s == [run[r] EXCEPT !.row = "done", !.phase = "committed", !.input = None]
  <2>1. run' = [run EXCEPT ![r] = s]
    BY <1>1 DEF MarksDone
  <2>2. s.phase # "queued"
    BY DEF RunsOK, Slot, Run
  <2> HIDE DEF s
  <2> QED
    BY <2>1, <2>2, SlotRuns
<1>2. CASE Discards(r) \/ Becomes(r, Idle)
  BY <1>2, SlotRuns DEF Discards, Becomes, Idle
<1> QED
  BY <1>1, <1>2

\* The second session of a job.
LEMMA CommitIs ==
  ASSUME NEW r \in Runs, JobCommit(r)
  PROVE  /\ run[r].phase # "queued" /\ queue' = queue
         /\ MarksDone(r) \/ Discards(r) \/ Becomes(r, Idle)
<1>1. CASE IngestCommit(r) \/ DetectCommit(r) \/ CutCommit(r) \/ PreviewCommit(r)
  BY <1>1 DEF IngestCommit, DetectCommit, CutCommit, PreviewCommit, Settles, At, Rejected
<1>2. CASE IntroCommit(r) \/ OutroCommit(r)
  BY <1>2 DEF IntroCommit, OutroCommit, SlateCommit, Settles, At, Rejected
<1>3. CASE ConcatCommit(r) \/ LoudnessCommit(r) \/ TranscodeCommit(r) \/ PublishCommit(r)
  BY <1>3 DEF ConcatCommit, LoudnessCommit, TranscodeCommit, PublishCommit, Settles, At,
              Rejected
<1> QED
  BY <1>1, <1>2, <1>3 DEF JobCommit

\* A successor is enqueued, or Redis refuses.
LEMMA NextQueues ==
  ASSUME QueuesOK, RunsOK, NEW r \in Runs, run[r].phase # "queued", NEW next,
         next.phase = "queued" => next.fn \in JobKinds, Enqueues(r, next)
  PROVE  QueuesOK'
<1>1. CASE Becomes(r, next)
  BY <1>1, BecomesQueued
<1>2. CASE Raises(r) /\ queue' = queue
  BY <1>2, PhaseRuns DEF Raises
<1> QED
  BY <1>1, <1>2 DEF Enqueues

\* dispatch_assembly enqueues a job of the assembly, or nothing.
LEMMA DispatchQueues ==
  ASSUME QueuesOK, RunsOK, NEW r \in Runs, run[r].phase # "queued", DispatchAssembly(r)
  PROVE  QueuesOK'
<1>1. NextAssembly.fn \in JobKinds /\ Idle.phase # "queued"
  BY DEF NextAssembly, Queued, Idle, JobKinds
<1> QED
  BY <1>1, BecomesQueued DEF DispatchAssembly

\* What follows the second session of a job.
LEMMA JobNextQueues ==
  ASSUME QueuesOK, RunsOK, NEW r \in Runs, JobNext(r) PROVE QueuesOK'
<1>1. /\ [Queued("detect") EXCEPT !.key = run[r].key].fn \in JobKinds
      /\ \A kind \in {"preview", "loudness", "transcode", "publish"} : Queued(kind).fn \in JobKinds
  BY DEF Queued, Idle, JobKinds
<1>2. CASE IngestNext(r)
  BY <1>1, <1>2, NextQueues DEF IngestNext, Continues, At
<1>3. CASE CutNext(r) \/ ConcatNext(r) \/ LoudnessNext(r) \/ TranscodeNext(r)
  BY <1>1, <1>3, NextQueues DEF CutNext, ConcatNext, LoudnessNext, TranscodeNext, Continues, At
<1>4. CASE SlateNext(r)
  <2>1. run[r].phase # "queued"
    BY <1>4 DEF SlateNext, At
  <2> QED
    BY <1>4, <2>1, DispatchQueues, PhaseRuns DEF SlateNext, Raises
<1>5. CASE PublishNext(r)
  BY <1>5, CommitLeaves DEF PublishNext, At
<1> QED
  BY <1>2, <1>3, <1>4, <1>5 DEF JobNext

\* Every step of a job.
LEMMA JobQueues == ASSUME QueuesOK, RunsOK, NEW r \in Runs, Job(r) PROVE QueuesOK'
<1>1. CASE JobStore(r)
  <2>1. /\ run[r].phase # "queued" /\ queue' = queue
        /\ run' = [run EXCEPT ![r].phase = "stored"]
    BY <1>1 DEF JobStore, IngestStore, MediaStore, SlateStore, Stores, At
  <2> QED
    BY <2>1, PhaseRuns
<1>2. CASE WorkFails(r) \/ IngestRollback(r)
  BY <1>2, PhaseRuns DEF WorkFails, IngestRollback, Raises, At
<1>3. CASE HandleFailure(r)
  BY <1>3, CommitLeaves DEF HandleFailure
<1> QED
  BY <1>1, <1>2, <1>3, JobStartQueues, CommitIs, CommitLeaves, JobNextQueues DEF Job, JobFailure

\* What the requests do after their commit.
LEMMA SendsQueues == ASSUME QueuesOK, RunsOK, NEW r \in Runs, Sends(r) PROVE QueuesOK'
<1>1. run[r].phase # "queued" /\ Idle.phase # "queued"
  BY DEF Sends, SubmitCutSends, AssemblySends, CleanupSends, IngestRecordingSends, AttachSends,
         At, Idle
<1>2. [Queued("cut") EXCEPT !.key = run[r].key].fn \in JobKinds /\ DetectFor(r).fn \in JobKinds
  BY DEF DetectFor, Queued, Idle, JobKinds
<1>3. CASE DispatchAssembly(r)
  BY <1>1, <1>3, DispatchQueues
<1>4. CASE \/ Becomes(r, Idle) \/ Becomes(r, DetectFor(r))
           \/ Becomes(r, [Queued("cut") EXCEPT !.key = run[r].key])
  BY <1>1, <1>2, <1>4, BecomesQueued
<1> QED
  BY <1>3, <1>4 DEF Sends, SubmitCutSends, AssemblySends, CleanupSends, IngestRecordingSends,
                    AttachSends

\* The handlers that read and write the row in two steps; two of them cancel.
LEMMA UnlockedQueues == ASSUME QueuesOK, RunsOK, NEW r \in Runs, Unlocked(r) PROVE QueuesOK'
<1>1. run[r].phase # "queued" /\ run[r] \in Run
  BY DEF Unlocked, IngestRecordingStages, IngestRecordingCommits, AbortCancels, AbortFails,
         AbortCommits, AttachStages, AttachFails, AttachCommits, At, RunsOK, Slot
<1>2. CASE IngestRecordingStages(r)
  BY <1>1, <1>2, PhaseRuns DEF IngestRecordingStages
<1>3. CASE IngestRecordingCommits(r) \/ AttachCommits(r)
  <2> DEFINE s == [run[r] EXCEPT !.phase = "sending", !.seen = None, !.input = None]
  <2>1. run' = [run EXCEPT ![r] = s] /\ queue' = queue
    BY <1>3 DEF IngestRecordingCommits, AttachCommits
  <2>2. s.phase # "queued"
    BY <1>1 DEF Run
  <2> HIDE DEF s
  <2> QED
    BY <1>1, <2>1, <2>2, SlotRuns
<1>4. CASE AbortCancels(r) \/ AttachStages(r)
  <2> DEFINE s == [run[r] EXCEPT !.phase = "staged"]
  <2>1. \E jobs : CancelJobs(r, jobs, s)
    BY <1>4 DEF AbortCancels, AttachStages
  <2>2. s.phase # "queued"
    BY <1>1 DEF Run
  <2> HIDE DEF s
  <2> QED
    BY <1>1, <2>1, <2>2, CancelsQueued
<1>5. CASE AbortFails(r) \/ AttachFails(r)
  <2>1. \E jobs : CancelJobs(r, jobs, Idle)
    BY <1>5 DEF AbortFails, AttachFails, CancelFails
  <2>2. Idle.phase # "queued"
    BY DEF Idle
  <2> QED
    BY <1>1, <2>1, <2>2, CancelsQueued
<1>6. CASE AbortCommits(r)
  <2>1. \A t \in Runs : /\ run'[t].phase = "queued" <=> run[t].phase = "queued"
                        /\ run[t].phase = "queued" => run'[t].fn = run[t].fn
    BY <1>1, <1>6 DEF AbortCommits, RunsOK, Slot, Run, Idle
  <2>2. queue' = queue
    BY <1>6 DEF AbortCommits
  <2> QED
    BY <2>1, <2>2, QueuesStay
<1> QED
  BY <1>2, <1>3, <1>4, <1>5, <1>6 DEF Unlocked

\* A request, or an upload's job, takes a free slot.
LEMMA TakesQueued ==
  ASSUME QueuesOK, RunsOK, NEW r \in Runs, NEW next, Takes(r, next),
         next.phase = "queued" => next.fn \in JobKinds
  PROVE  QueuesOK'
<1>1. run[r].phase # "queued"
  BY DEF Takes, Idle
<1> QED
  BY <1>1, BecomesQueued DEF Takes

\* The requests that begin.
LEMMA AsksQueues == ASSUME QueuesOK, RunsOK, NEW r \in Runs, Asks(r) PROVE QueuesOK'
<1>1. CASE UploadRecording(r)
  <2>1. PICK c \in Recordings : Takes(r, [Queued("ingest") EXCEPT !.key = UploadKey,
                                            !.input = Footage(c, None)])
    BY <1>1 DEF UploadRecording
  <2>2. [Queued("ingest") EXCEPT !.key = UploadKey, !.input = Footage(c, None)].fn \in JobKinds
    BY DEF Queued, Idle, JobKinds
  <2> QED
    BY <2>1, <2>2, TakesQueued
<1>2. CASE IngestRecordingReads(r) \/ AttachReads(r)
  <2>1. PICK fn, c, k, b : Takes(r, [Request(fn, "reading") EXCEPT !.input = Footage(c, None),
                                       !.key = k, !.bounds = b, !.seen = talk])
    BY <1>2 DEF IngestRecordingReads, AttachReads
  <2>2. [Request(fn, "reading") EXCEPT !.input = Footage(c, None), !.key = k, !.bounds = b,
                                       !.seen = talk].phase = "reading"
    BY DEF Request, Idle
  <2> QED
    BY <2>1, <2>2, TakesQueued
<1>3. CASE AbortReads(r) \/ SubmitCutBounds(r)
  <2>1. /\ [Request("abort_talk", "reading") EXCEPT !.seen = talk].phase = "reading"
        /\ [Request("submit_cut", "sending") EXCEPT !.key = FirstRawKey].phase = "sending"
    BY DEF Request, Idle
  <2> QED
    BY <1>3, <2>1, TakesQueued DEF AbortReads, SubmitCutBounds
<1>4. CASE RejectTalk(r) \/ ConfigureAssembly(r) \/ HandleApprove(r) \/ HandleReject(r)
  <2>1. \A fn : Request(fn, "sending").phase = "sending"
    BY DEF Request, Idle
  <2> QED
    BY <1>4, <2>1, TakesQueued DEF RejectTalk, ConfigureAssembly, HandleApprove, HandleReject
<1> QED
  BY <1>1, <1>2, <1>3, <1>4 DEF Asks

\* Every step of the system.
LEMMA StepQueues == ASSUME QueuesOK, RunsOK, [Next]_vars PROVE QueuesOK'
<1>1. ASSUME NEW r \in Runs, Killed(r) \/ Crashes(r) PROVE QueuesOK'
  <2>1. Idle.phase # "queued" /\ run[r].phase # "queued" /\ Becomes(r, Idle)
    BY <1>1 DEF Killed, Crashes, Executing, Idle
  <2> QED
    BY <2>1, BecomesQueued
<1>2. CASE Decides
  <2>1. run' = run /\ queue' = queue
    BY <1>2 DEF Decides, ApproveTalk, HandoffTalk, HandleNeedsWork
  <2> QED
    BY <2>1, QueuesStay
<1>3. CASE UNCHANGED vars
  BY <1>3, QueuesStay DEF vars
<1> QED
  BY <1>1, <1>2, <1>3, JobQueues, SendsQueues, UnlockedQueues, AsksQueues DEF Next

\* Each list has as many entries as there are jobs to wait in it.
LEMMA ListsCount == QueuesOK => QueueOK
<1> SUFFICES ASSUME QueuesOK, NEW q \in Lists
             PROVE  /\ Len(queue[q]) = Cardinality(Waiting(q))
                    /\ Waiting(q) = {queue[q][i] : i \in 1..Len(queue[q])}
  BY DEF QueueOK, Lists, Waiting
<1> DEFINE list == queue[q]
<1>1. list \in Seq(Runs) /\ EachOnce(list) /\ Listed(list) = Waiting(q)
  BY DEF QueuesOK
<1> HIDE DEF list
<1>2. Len(list) \in Nat /\ list = [i \in 1..Len(list) |-> list[i]]
  BY <1>1
<1>3. list \in [1..Len(list) -> Listed(list)]
  BY <1>2 DEF Listed
<1>4. list \in Bijection(1..Len(list), Listed(list))
  <2>1. \A i, j \in 1..Len(list) : list[i] = list[j] => i = j
    BY <1>1 DEF EachOnce
  <2>2. \A t \in Listed(list) : \E i \in 1..Len(list) : list[i] = t
    BY DEF Listed
  <2> QED
    BY <1>3, <2>1, <2>2 DEF Bijection, Injection, Surjection, IsInjective
<1>5. Cardinality(Listed(list)) = Len(list)
  BY <1>2, <1>4, FS_CountingElements DEF ExistsBijection
<1> QED
  BY <1>1, <1>5 DEF list, Listed

\* Every enqueue, every dequeue by a worker and every cancellation keeps the
\* jobs that wait and the identifiers in Redis together, each once, in the list
\* of its kind, whichever cancellations fail and whoever dies.
THEOREM QueuesMatch == Spec => []QueueOK
<1>1. Init => QueuesOK
  <2> SUFFICES ASSUME Init PROVE QueuesOK
    OBVIOUS
  <2>1. queue = [q \in Lists |-> <<>>] /\ \A r \in Runs : run[r].phase # "queued"
    BY DEF Init, Idle, Lists
  <2>2. <<>> \in Seq(Runs) /\ EachOnce(<<>>) /\ Listed(<<>>) = {}
    BY DEF EachOnce, Listed
  <2> QED
    BY <2>1, <2>2 DEF QueuesOK, Waiting
<1>2. IInv /\ QueuesOK /\ [Next]_vars => QueuesOK'
  BY StepQueues DEF IInv
<1> QED
  BY <1>1, <1>2, Invariance, ListsCount, PTL DEF Spec

-------------------------------------------------------------------------------
(* The life cycle, when recordings are handed in by the unlocked handlers.   *)
(* With no upload and one request at a time, nothing moves a talk that waits *)
(* or is broken between the read and the commit of such a handler.           *)

\* The phases in which an unlocked handler holds a row it has read.
Held == {"reading", "staged"}

\* No job_ingest, one request at a time, and a recording that is being handed
\* in found a talk that waits, is being detected or is broken; one that waits
\* or is broken still does or is.
RereadsOK ==
  /\ \A r \in Runs : run[r].fn # "ingest"
  /\ \A r, s \in Runs : run[r].fn \in Requests /\ run[s].fn \in Requests => r = s
  /\ \A r \in Runs :
       run[r].fn \in {"ingest_recording", "attach_room"} /\ run[r].phase \in Held =>
         /\ run[r].seen.status \in {"waiting_for_files", "detecting", "broken"}
         /\ run[r].seen.status # "detecting" => talk.status = run[r].seen.status

\* A talk that waits or is broken is left so.
StaysPut ==
  talk.status \in {"waiting_for_files", "broken"} => talk'.status = talk.status

\* No slot becomes a request or a job_ingest, and what a handler has read stays.
NoneAsks ==
  \A t \in Runs :
    /\ run'[t].fn # "ingest"
    /\ run'[t].fn \in Requests => run'[t].fn = run[t].fn
    /\ run'[t].fn \in Requests /\ run'[t].phase \in Held =>
         run[t].phase \in Held /\ run'[t].seen = run[t].seen

\* A step in which none asks, and that leaves the talk put or has no handler
\* holding a row after it.
LEMMA RereadsStay ==
  ASSUME RereadsOK, NoneAsks,
         StaysPut \/ \A t \in Runs : run'[t].fn \in Requests => run'[t].phase \notin Held
  PROVE  RereadsOK'
<1>1. \A r \in Runs : run'[r].fn # "ingest"
  BY DEF NoneAsks
<1>2. \A r, s \in Runs : run'[r].fn \in Requests /\ run'[s].fn \in Requests => r = s
  BY DEF NoneAsks, RereadsOK
<1>3. ASSUME NEW r \in Runs,
             run'[r].fn \in {"ingest_recording", "attach_room"}, run'[r].phase \in Held
      PROVE  /\ run'[r].seen.status \in {"waiting_for_files", "detecting", "broken"}
             /\ run'[r].seen.status # "detecting" => talk'.status = run'[r].seen.status
  <2>1. run'[r].fn \in Requests
    BY <1>3 DEF Requests
  <2>2. run[r].fn = run'[r].fn /\ run[r].phase \in Held /\ run'[r].seen = run[r].seen
    BY <1>3, <2>1 DEF NoneAsks
  <2>3. StaysPut
    BY <1>3, <2>1
  <2>4. /\ run[r].seen.status \in {"waiting_for_files", "detecting", "broken"}
        /\ run[r].seen.status # "detecting" => talk.status = run[r].seen.status
    BY <1>3, <2>2 DEF RereadsOK
  <2> QED
    BY <2>2, <2>3, <2>4 DEF StaysPut
<1> QED
  BY <1>1, <1>2, <1>3 DEF RereadsOK

\* A step of one slot that goes on with its work, falls free or is taken over
\* by a job.
LEMMA OneSlotAsksNot ==
  ASSUME RereadsOK, RunsOK, NEW r \in Runs, NEW s, run' = [run EXCEPT ![r] = s],
         s.fn \in {run[r].fn, "none"} \cup (JobKinds \ {"ingest"}),
         \/ s.phase \notin Held
         \/ run[r].phase \in Held /\ s.fn = run[r].fn /\ s.seen = run[r].seen
  PROVE  NoneAsks
<1>1. run'[r] = s /\ \A t \in Runs \ {r} : run'[t] = run[t]
  BY DEF RunsOK
<1>2. \A t \in Runs : run[t].fn # "ingest"
  BY DEF RereadsOK
<1>3. s.fn # "ingest" /\ (s.fn \in Requests => s.fn = run[r].fn)
  BY <1>2 DEF Requests, JobKinds
<1> QED
  BY <1>1, <1>2, <1>3 DEF NoneAsks

\* A slot falls free or is taken over by a job.
LEMMA BecomesAsksNot ==
  ASSUME RereadsOK, RunsOK, NEW r \in Runs, NEW next, Becomes(r, next),
         next.fn \in {"none"} \cup (JobKinds \ {"ingest"}), next.phase \notin Held
  PROVE  NoneAsks
  BY OneSlotAsksNot DEF Becomes

\* The slot a job falls to, or is taken over by.
LEMMA NextSlots ==
  /\ Idle.fn = "none" /\ Idle.phase \notin Held
  /\ \A kind \in JobKinds : Queued(kind).fn = kind /\ Queued(kind).phase \notin Held
  /\ \A kind \in JobKinds : \A k :
       [Queued(kind) EXCEPT !.key = k].fn = kind /\ [Queued(kind) EXCEPT !.key = k].phase \notin Held
  /\ \A r : DetectFor(r).fn = "detect" /\ DetectFor(r).phase \notin Held
  /\ NextAssembly.fn \in JobKinds \ {"ingest"} /\ NextAssembly.phase \notin Held
  BY DEF Idle, Queued, DetectFor, NextAssembly, JobKinds, Held

\* Only the phase of a slot changes, and its handler goes on or holds no row.
LEMMA PhaseAsksNot ==
  ASSUME RereadsOK, RunsOK, NEW r \in Runs, NEW phase, run' = [run EXCEPT ![r].phase = phase],
         phase \notin Held \/ run[r].phase \in Held
  PROVE  NoneAsks
<1> DEFINE s == [run[r] EXCEPT !.phase = phase]
<1>1. /\ run' = [run EXCEPT ![r] = s]
      /\ s.phase = phase /\ s.fn = run[r].fn /\ s.seen = run[r].seen
  BY DEF RunsOK, Slot, Run
<1> HIDE DEF s
<1> QED
  BY <1>1, OneSlotAsksNot

\* The steps of a job other than job_ingest make no request.
LEMMA JobAsksNot ==
  ASSUME RereadsOK, RunsOK, NEW r \in Runs, Job(r) PROVE NoneAsks
<1>1. CASE JobStart(r)
  <2>1. PICK s : /\ run' = [run EXCEPT ![r] = s]
                 /\ s.fn \in {run[r].fn, "none"} /\ s.phase \in {"started", "failing", "free"}
    BY <1>1, StartIs
  <2>2. s.phase \notin Held
    BY <2>1 DEF Held
  <2> QED
    BY <2>1, <2>2, OneSlotAsksNot
<1>2. CASE JobStore(r)
  <2>1. run' = [run EXCEPT ![r].phase = "stored"] /\ "stored" \notin Held
    BY <1>2 DEF JobStore, IngestStore, MediaStore, SlateStore, Stores, Held
  <2> QED
    BY <2>1, PhaseAsksNot
<1>3. CASE MarksDone(r)
  <2> DEFINE s == [run[r] EXCEPT !.row = "done", !.phase = "committed", !.input = None]
  <2>1. run' = [run EXCEPT ![r] = s]
    BY <1>3 DEF MarksDone
  <2>2. s.fn = run[r].fn /\ s.phase \notin Held
    BY DEF RunsOK, Slot, Run, Held
  <2> HIDE DEF s
  <2> QED
    BY <2>1, <2>2, OneSlotAsksNot
<1>4. CASE Discards(r) \/ Becomes(r, Idle)
  BY <1>4, NextSlots, OneSlotAsksNot DEF Discards, Becomes
<1>5. CASE Raises(r) \/ IngestRollback(r)
  <2>1. "failing" \notin Held /\ "rolledback" \notin Held
    BY DEF Held
  <2> QED
    BY <1>5, <2>1, PhaseAsksNot DEF Raises, IngestRollback
<1>6. CASE JobNext(r)
  <2>1. CASE \E next : /\ Becomes(r, next) /\ next.phase \notin Held
                       /\ next.fn \in {"none"} \cup (JobKinds \ {"ingest"})
    BY <2>1, BecomesAsksNot
  <2>2. CASE IngestNext(r) \/ CutNext(r)
    <3>1. {"detect", "preview"} \subseteq JobKinds \ {"ingest"}
      BY DEF JobKinds
    <3> DEFINE d == [Queued("detect") EXCEPT !.key = run[r].key]
               p == Queued("preview")
    <3>2. /\ d.fn \in JobKinds \ {"ingest"} /\ d.phase \notin Held
          /\ p.fn \in JobKinds \ {"ingest"} /\ p.phase \notin Held
      BY <3>1, NextSlots
    <3>3. Becomes(r, d) \/ Becomes(r, p) \/ Raises(r)
      BY <2>2 DEF IngestNext, CutNext, Continues, Enqueues
    <3> HIDE DEF d, p
    <3>4. CASE Raises(r)
      BY <1>5, <3>4
    <3> QED
      BY <3>2, <3>3, <3>4, BecomesAsksNot
  <2>3. CASE ConcatNext(r) \/ LoudnessNext(r) \/ TranscodeNext(r)
    <3>1. {"loudness", "transcode", "publish"} \subseteq JobKinds \ {"ingest"}
      BY DEF JobKinds
    <3> QED
      BY <1>5, <2>1, <2>3, <3>1, NextSlots
         DEF ConcatNext, LoudnessNext, TranscodeNext, Continues, Enqueues
  <2>4. CASE SlateNext(r)
    BY <1>5, <2>1, <2>4, NextSlots DEF SlateNext, DispatchAssembly
  <2>5. CASE PublishNext(r)
    BY <1>4, <2>5 DEF PublishNext
  <2> QED
    BY <1>6, <2>2, <2>3, <2>4, <2>5 DEF JobNext
<1>7. CASE JobFailure(r)
  BY <1>4, <1>5, <1>7 DEF JobFailure, WorkFails, HandleFailure
<1> QED
  BY <1>1, <1>2, <1>3, <1>4, <1>6, <1>7, CommitIs DEF Job

\* They leave a talk that waits or is broken so: the second sessions look for
\* the status their job works for, _handle_failure exempts these two.
LEMMA JobStaysPut ==
  ASSUME RowsOK, NEW r \in Runs, run[r].fn # "ingest", Job(r) PROVE StaysPut
<1> SUFFICES ASSUME talk.status \in {"waiting_for_files", "broken"}
             PROVE  talk'.status = talk.status
  BY DEF StaysPut
<1>1. CASE JobStart(r)
  BY <1>1 DEF JobStart, IngestStart, Dequeues, DetectStart, CutStart, PreviewStart, IntroStart,
              OutroStart, SlateStart, ConcatStart, LoudnessStart, TranscodeStart,
              PublishStart, dbVars
<1>2. CASE JobStore(r)
  BY <1>2 DEF JobStore, IngestStore, MediaStore, SlateStore, Stores, dbVars
<1>3. CASE JobCommit(r)
  BY <1>3 DEF JobCommit, IngestCommit, DetectCommit, CutCommit, PreviewCommit, IntroCommit,
              OutroCommit, SlateCommit, ConcatCommit, LoudnessCommit, TranscodeCommit,
              PublishCommit, Accepted, Rejected
<1>4. CASE JobNext(r)
  BY <1>4 DEF JobNext, IngestNext, CutNext, SlateNext, ConcatNext, LoudnessNext,
              TranscodeNext, PublishNext, Continues, dbVars
<1>5. CASE WorkFails(r)
  BY <1>5 DEF WorkFails, dbVars
<1>6. CASE HandleFailure(r)
  BY <1>6 DEF HandleFailure, AfterFailure, FailureExempt, RowsOK, TalkRow
<1> QED
  BY <1>1, <1>2, <1>3, <1>4, <1>5, <1>6 DEF Job, JobFailure, IngestRollback, At

\* What the requests do after their commit.
LEMMA SendsQuiet ==
  ASSUME RereadsOK, RunsOK, RowsOK, NEW r \in Runs, Sends(r) PROVE NoneAsks /\ StaysPut
<1>1. {"cut", "detect"} \subseteq JobKinds \ {"ingest"}
  BY DEF JobKinds
<1>2. ASSUME NEW next, Becomes(r, next), next.phase \notin Held,
             next.fn \in {"none"} \cup (JobKinds \ {"ingest"})
      PROVE  NoneAsks
  BY <1>2, BecomesAsksNot
<1>3. NoneAsks
  <2>1. CASE SubmitCutSends(r)
    <3> DEFINE next == [Queued("cut") EXCEPT !.key = run[r].key]
    <3>1. next.fn \in {"none"} \cup (JobKinds \ {"ingest"}) /\ next.phase \notin Held
      BY <1>1, NextSlots
    <3>2. Becomes(r, next) \/ Becomes(r, Idle)
      BY <2>1 DEF SubmitCutSends
    <3> HIDE DEF next
    <3> QED
      BY <1>2, <3>1, <3>2, NextSlots
  <2>2. CASE IngestRecordingSends(r) \/ AttachSends(r)
    <3>1. /\ DetectFor(r).fn \in {"none"} \cup (JobKinds \ {"ingest"})
          /\ DetectFor(r).phase \notin Held
      BY <1>1, NextSlots
    <3>2. Becomes(r, DetectFor(r)) \/ Becomes(r, Idle)
      BY <2>2 DEF IngestRecordingSends, AttachSends
    <3> QED
      BY <1>2, <3>1, <3>2, NextSlots
  <2>3. CASE AssemblySends(r) \/ CleanupSends(r)
    BY <1>2, <2>3, NextSlots DEF AssemblySends, DispatchAssembly, CleanupSends
  <2> QED
    BY <2>1, <2>2, <2>3 DEF Sends
<1>4. StaysPut
  <2>1. CASE AttachSends(r)
    BY <2>1 DEF AttachSends, StaysPut, RowsOK, TalkRow
  <2>2. CASE AssemblySends(r)
    BY <2>2 DEF AssemblySends, StaysPut
  <2>3. CASE UNCHANGED talk
    BY <2>3 DEF StaysPut
  <2> QED
    BY <2>1, <2>2, <2>3
       DEF Sends, SubmitCutSends, CleanupSends, IngestRecordingSends
<1> QED
  BY <1>3, <1>4

\* The handlers that go on with the row they have read.
LEMMA UnlockedQuiet ==
  ASSUME RereadsOK, RunsOK, NEW r \in Runs, Unlocked(r)
  PROVE  /\ NoneAsks
         /\ StaysPut \/ \A t \in Runs : run'[t].fn \in Requests => run'[t].phase \notin Held
<1>1. run[r].fn \in Requests /\ run[r] \in Run
  BY DEF Unlocked, IngestRecordingStages, IngestRecordingCommits, AbortCancels, AbortFails,
         AbortCommits, AttachStages, AttachFails, AttachCommits, At, Requests, RunsOK, Slot
<1>2. \A t \in Runs \ {r} : run[t].fn \notin Requests
  BY <1>1 DEF RereadsOK
<1>3. ASSUME NEW jobs, NEW next, CancelJobs(r, jobs, next), next.fn \in {run[r].fn, "none"},
             next.phase \notin Held \/ (run[r].phase \in Held /\ next.seen = run[r].seen)
      PROVE  NoneAsks
  <2>1. run'[r] = next /\ \A t \in Runs \ {r} : run'[t] \in {run[t], Cancelled(t)}
    BY <1>3 DEF CancelJobs
  <2>2. \A t \in Runs \ {r} : run'[t].fn \in {run[t].fn, "none"}
    BY <2>1 DEF Cancelled, Idle, RunsOK, Slot, Run
  <2>3. "none" \notin Requests /\ \A t \in Runs : run[t].fn # "ingest"
    BY DEF Requests, RereadsOK
  <2>4. \A t \in Runs \ {r} : run'[t].fn # "ingest" /\ run'[t].fn \notin Requests
    BY <1>2, <2>2, <2>3
  <2>5. /\ run'[r].fn # "ingest"
        /\ run'[r].fn \in Requests => run'[r].fn = run[r].fn
        /\ run'[r].phase \in Held => run[r].phase \in Held /\ run'[r].seen = run[r].seen
    BY <1>3, <2>1, <2>3
  <2> QED
    BY <2>4, <2>5 DEF NoneAsks
<1>4. CASE IngestRecordingStages(r)
  <2>1. run[r].phase \in Held /\ run' = [run EXCEPT ![r].phase = "staged"] /\ talk' = talk
    BY <1>4 DEF IngestRecordingStages, At, Held, dbVars
  <2> QED
    BY <2>1, PhaseAsksNot DEF StaysPut
<1>5. CASE IngestRecordingCommits(r) \/ AttachCommits(r)
  <2> DEFINE s == [run[r] EXCEPT !.phase = "sending", !.seen = None, !.input = None]
  <2>1. run' = [run EXCEPT ![r] = s]
    BY <1>5 DEF IngestRecordingCommits, AttachCommits
  <2>2. s.fn = run[r].fn /\ s.phase \notin Held
    BY <1>1 DEF Run, Held
  <2> HIDE DEF s
  <2>3. NoneAsks
    BY <2>1, <2>2, OneSlotAsksNot
  <2>4. \A t \in Runs : run'[t].fn \in Requests => run'[t].phase \notin Held
    BY <1>2, <2>1, <2>2 DEF RunsOK
  <2> QED
    BY <2>3, <2>4
<1>6. CASE AbortCancels(r) \/ AttachStages(r)
  <2> DEFINE s == [run[r] EXCEPT !.phase = "staged"]
  <2>1. run[r].phase \in Held /\ talk' = talk /\ \E jobs : CancelJobs(r, jobs, s)
    BY <1>6 DEF AbortCancels, AttachStages, At, Held, dbVars
  <2>2. s.fn = run[r].fn /\ s.seen = run[r].seen
    BY <1>1 DEF Run
  <2> HIDE DEF s
  <2> QED
    BY <1>3, <2>1, <2>2 DEF StaysPut
<1>7. CASE AbortFails(r) \/ AttachFails(r)
  <2>1. talk' = talk /\ \E jobs : CancelJobs(r, jobs, Idle)
    BY <1>7 DEF AbortFails, AttachFails, CancelFails, dbVars
  <2> QED
    BY <1>3, <2>1, NextSlots DEF StaysPut
<1>8. CASE AbortCommits(r)
  <2>1. run'[r] = Idle /\ \A t \in Runs \ {r} : run'[t].fn = run[t].fn
    <3>1. /\ run'[r] = Idle
          /\ \A t \in Runs \ {r} :
               run'[t] = [run[t] EXCEPT !.row = IF @ = "none" THEN @ ELSE "deleted"]
      BY <1>8 DEF AbortCommits
    <3>2. \A t \in Runs : run[t] \in Run
      BY DEF RunsOK, Slot
    <3> QED
      BY <3>1, <3>2 DEF Run
  <2>2. "none" \notin Requests /\ \A t \in Runs : run[t].fn # "ingest"
    BY DEF Requests, RereadsOK
  <2>3. \A t \in Runs : run'[t].fn # "ingest" /\ run'[t].fn \notin Requests
    BY <1>2, <2>1, <2>2, NextSlots
  <2> QED
    BY <2>3 DEF NoneAsks
<1> QED
  BY <1>4, <1>5, <1>6, <1>7, <1>8 DEF Unlocked

\* A request begins when no other one is under way.
LEMMA TakesAlone ==
  ASSUME RereadsOK, RunsOK, ~Overlap, NEW r \in Runs, NEW next, Takes(r, next),
         next.fn \in Requests,
         next.fn \in {"ingest_recording", "attach_room"} =>
           /\ talk' = talk /\ next.seen = talk
           /\ talk.status \in {"waiting_for_files", "detecting", "broken"}
  PROVE  RereadsOK'
<1>1. run'[r] = next /\ \A t \in Runs \ {r} : run'[t] = run[t]
  BY DEF Takes, Becomes, RunsOK
<1>2. \A t \in Runs : run[t].fn \notin Requests /\ run[t].fn # "ingest"
  BY DEF Takes, MayAsk, RereadsOK
<1>3. next.fn # "ingest"
  BY DEF Requests
<1>4. {"ingest_recording", "attach_room"} \subseteq Requests
  BY DEF Requests
<1> QED
  BY <1>1, <1>2, <1>3, <1>4 DEF RereadsOK

\* The requests; there is no upload among them.
LEMMA AsksRereads ==
  ASSUME RereadsOK, RunsOK, ~Overlap, "upload" \notin Entries, NEW r \in Runs, Asks(r)
  PROVE  RereadsOK'
<1>1. ASSUME NEW fn \in {"ingest_recording", "attach_room"}, NEW c, NEW k, NEW b, talk' = talk,
             talk.status \in {"waiting_for_files", "detecting", "broken"},
             Takes(r, [Request(fn, "reading") EXCEPT !.input = Footage(c, None),
                         !.key = k, !.bounds = b, !.seen = talk])
      PROVE  RereadsOK'
  <2> DEFINE next == [Request(fn, "reading") EXCEPT !.input = Footage(c, None), !.key = k,
                                                    !.bounds = b, !.seen = talk]
  <2>1. next.fn \in Requests /\ next.seen = talk
    BY DEF Request, Idle, Requests
  <2>2. Takes(r, next)
    BY <1>1
  <2> HIDE DEF next
  <2> QED
    BY <1>1, <2>1, <2>2, TakesAlone
<1>2. CASE IngestRecordingReads(r)
  <2>1. PICK c \in Recordings, k \in RawKeys, b \in Bounds \cup {None} :
          Takes(r, [Request("ingest_recording", "reading") EXCEPT
                      !.input = Footage(c, None), !.key = k, !.bounds = b, !.seen = talk])
    BY <1>2 DEF IngestRecordingReads
  <2>2. talk' = talk /\ talk.status = "waiting_for_files"
    BY <1>2 DEF IngestRecordingReads, dbVars
  <2> QED
    BY <1>1, <2>1, <2>2
<1>3. CASE AttachReads(r)
  <2>1. PICK c \in Recordings : \E b \in Fits[c] \cup {None} :
          Takes(r, [Request("attach_room", "reading") EXCEPT
                      !.input = Footage(c, None), !.key = UploadKey, !.bounds = b,
                      !.seen = talk])
    BY <1>3 DEF AttachReads
  <2>2. talk' = talk /\ talk.status \in {"waiting_for_files", "detecting", "broken"}
    BY <1>3 DEF AttachReads, dbVars
  <2> QED
    BY <1>1, <2>1, <2>2
<1>4. ASSUME NEW next, Takes(r, next),
             next.fn \in Requests \ {"ingest_recording", "attach_room"}
      PROVE  RereadsOK'
  BY <1>4, TakesAlone
<1>5. CASE AbortReads(r) \/ SubmitCutBounds(r)
  <2>1. /\ [Request("abort_talk", "reading") EXCEPT !.seen = talk].fn = "abort_talk"
        /\ [Request("submit_cut", "sending") EXCEPT !.key = FirstRawKey].fn = "submit_cut"
        /\ {"abort_talk", "submit_cut"} \subseteq Requests \ {"ingest_recording", "attach_room"}
    BY DEF Request, Idle, Requests
  <2> QED
    BY <1>4, <1>5, <2>1 DEF AbortReads, SubmitCutBounds
<1>6. CASE RejectTalk(r) \/ ConfigureAssembly(r) \/ HandleApprove(r) \/ HandleReject(r)
  <2>1. \A fn \in {"cleanup", "assembly"} :
          Request(fn, "sending").fn \in Requests \ {"ingest_recording", "attach_room"}
    BY DEF Request, Idle, Requests
  <2> QED
    BY <1>4, <1>6, <2>1 DEF RejectTalk, ConfigureAssembly, HandleApprove, HandleReject
<1> QED
  BY <1>2, <1>3, <1>5, <1>6 DEF Asks, UploadRecording

\* Every step of the system keeps RereadsOK.
LEMMA RereadsStep ==
  ASSUME IInv, RereadsOK, ~Overlap, "upload" \notin Entries, [Next]_vars
  PROVE  RereadsOK'
<1>1. RowsOK /\ RunsOK
  BY DEF IInv
<1>2. ASSUME NEW r \in Runs, Job(r) PROVE RereadsOK'
  BY <1>1, <1>2, JobAsksNot, JobStaysPut, RereadsStay DEF RereadsOK
<1>3. ASSUME NEW r \in Runs, Sends(r) \/ Unlocked(r) PROVE RereadsOK'
  BY <1>1, <1>3, SendsQuiet, UnlockedQuiet, RereadsStay
<1>4. ASSUME NEW r \in Runs, Killed(r) \/ Crashes(r) PROVE RereadsOK'
  <2>1. NoneAsks
    BY <1>1, <1>4, NextSlots, BecomesAsksNot DEF Killed, Crashes
  <2>2. StaysPut
    BY <1>4 DEF Killed, Crashes, StaysPut
  <2> QED
    BY <2>1, <2>2, RereadsStay
<1>5. CASE Decides
  <2>1. run' = run /\ \A t \in Runs : run[t].fn \notin Requests
    BY <1>5 DEF Decides, ApproveTalk, HandoffTalk, HandleNeedsWork, MayAsk
  <2>2. NoneAsks
    BY <2>1 DEF NoneAsks, RereadsOK
  <2> QED
    BY <2>1, <2>2, RereadsStay
<1>6. CASE UNCHANGED vars
  BY <1>6 DEF vars, RereadsOK
<1> QED
  BY <1>1, <1>2, <1>3, <1>4, <1>5, <1>6, AsksRereads DEF Next

\* A handler that writes detecting gives a talk that waits or is broken its new
\* start, or leaves the status that has come about since detecting was read.
LEMMA CommitRevives ==
  ASSUME IInv, RereadsOK, NEW r \in Runs, IngestRecordingCommits(r) \/ AttachCommits(r)
  PROVE  Ordinary \/ Lifecycle!Revive
<1>1. run[r].fn \in {"ingest_recording", "attach_room"} /\ run[r].phase = "staged"
  BY DEF IngestRecordingCommits, AttachCommits, At
<1>2. run[r].seen \in TalkRow
  BY <1>1, RemembersOK DEF IInv, Rereads
<1>3. /\ run[r].seen.status \in {"waiting_for_files", "detecting", "broken"}
      /\ run[r].seen.status # "detecting" => talk.status = run[r].seen.status
  BY <1>1 DEF RereadsOK, Held
<1>4. /\ talk'.status \in {talk.status, "detecting"}
      /\ run[r].seen.status = "detecting" => talk'.status = talk.status
  BY <1>2 DEF IngestRecordingCommits, AttachCommits, Flush, TalkRow
<1> QED
  BY <1>3, <1>4 DEF Ordinary, Lifecycle!Revive

\* An installation whose recordings are handed in by their own handlers, one
\* request at a time, and never uploaded, keeps to the life cycle as well:
\* those handlers read the row without a lock and write detecting over it, but
\* no job moves a talk that waits or is broken in between, whatever fails.
THEOREM RecordingsImplementLifecycle ==
  ASSUME ~Overlap, "upload" \notin Entries
  PROVE  Spec => ImplementsLifecycle
<1>1. Init => RereadsOK /\ Lifecycle!Init
  BY DEF Init, NewTalk, Idle, Requests, RereadsOK, Lifecycle!Init
<1>2. IInv /\ RereadsOK /\ [Next]_vars => RereadsOK'
  BY RereadsStep
<1>3. IInv /\ IInv' /\ RereadsOK /\ [Next]_vars => [Lifecycle!Next]_(talk.status)
  <2> SUFFICES ASSUME IInv, IInv', RereadsOK, [Next]_vars
               PROVE  [Lifecycle!Next]_(talk.status)
    OBVIOUS
  <2>1. Ordinary \/ Lifecycle!Revive
    BY StatusStep, CommitRevives DEF Restarts
  <2>2. talk'.status \in TalkStatus
    BY DEF IInv, RowsOK, TalkRow
  <2> QED
    BY <2>1, <2>2, SameTable DEF Ordinary, Lifecycle!Next, Lifecycle!Advance, Lifecycle!Reset
<1> QED
  BY <1>1, <1>2, <1>3, Invariance, PTL DEF Spec, ImplementsLifecycle, Lifecycle!Spec
===============================================================================
