------------------------------ MODULE RoomProofs -------------------------------
(***************************************************************************)
(* Proofs about RoomRecording: what RoomProperties promises, for every     *)
(* number of talks, jobs and requests.                                     *)
(*                                                                         *)
(* The invariant is about who works on a talk.  A talk that says that it   *)
(* is being measured is carried by a job or by the request to attach;      *)
(* unless two requests have met in it, only one of them has it at a time,  *)
(* and the bounds it has by then lie within the file that will be          *)
(* measured.                                                               *)
(***************************************************************************)
EXTENDS RoomProperties, ScheduleProofs

\* The columns of a talk that the work on its recording writes.
WorkRow ==
  [ status : Status, detected : Nat \cup {None},
    cut_start : Nat \cup {None}, cut_end : Nat \cup {None} ]

\* The bounds of a talk, and those of a talk that has none.
Cut(w) == <<w.cut_start, w.cut_end>>
NoCut == <<None, None>>

\* What a slot for a job may hold.
Job ==
  [ fn : {"none", "room", "detect"},
    phase : {"free", "queued", "loading", "sending", "measuring"},
    ids : SUBSET Ids, room : Names \cup {None}, rec : Recordings \cup {None},
    start : Nat \cup {None}, claimed : SUBSET Ids, todo : SUBSET Ids, row : BOOLEAN ]

\* A job is in a phase of its function, and has what that phase needs.
JobOK(job) ==
  /\ job \in Job
  /\ job.fn = "room" =>
       /\ job.phase \in {"queued", "loading", "sending"}
       /\ job.rec \in Recordings
       /\ job.claimed \subseteq job.ids
       /\ job.phase = "sending" => job.todo \subseteq job.claimed /\ job.todo # {}
  /\ job.fn = "detect" =>
       /\ job.phase \in {"queued", "measuring"}
       /\ \E i \in Ids : job.ids = {i}

\* What the request has loaded of a talk.
Seen == [work : WorkRow, slot : Slots]

\* What it has loaded of all talks it matched.
Loaded == UNION {[S -> Seen] : S \in SUBSET Ids}

\* What the request that attaches may hold.
Attach ==
  [ phase : {"idle", "read", "marking", "sending", "staging", "enqueuing"},
    src : {"none", "url", "file"}, room : Names \cup {None},
    rec : Recordings \cup {None}, start : Nat \cup {None}, seen : Loaded,
    staged : SUBSET Ids, backed : SUBSET Ids, todo : SUBSET Ids ]

\* The request between two steps.
AttachOK ==
  /\ attach \in Attach
  /\ attach.phase # "idle" => attach.rec \in Recordings /\ Mine # {}
  /\ \A i \in Mine : attach.seen[i].work.status \in Eligible
  /\ attach.phase = "read" => attach.staged = {} /\ attach.backed = {}
  /\ attach.phase = "staging" =>
       /\ attach.todo \cup attach.staged = FileMatched /\ FileMatched # {}
       /\ attach.backed \subseteq attach.staged
  /\ attach.phase = "enqueuing" =>
       /\ attach.todo \subseteq FileMatched /\ attach.todo # {}

\* The abort between two steps.
AbortOK ==
  \/ abort = NoAbort
  \/ \E phase \in {"read", "cancelled"}, i \in Ids, w \in WorkRow :
       abort = [phase |-> phase, id |-> i, seen |-> w]

\* The types, with what each job and the request hold in each phase.
TypesOK ==
  /\ ScheduleInv
  /\ work \in [Ids -> WorkRow]
  /\ raw \in [Ids -> Recordings \cup {None}]
  /\ spare \in [Ids -> Recordings \cup {None}]
  /\ jobs \in [JobSlots -> Job]
  /\ \A s \in JobSlots : JobOK(jobs[s])
  /\ AttachOK
  /\ AbortOK

\* Rows that are gone, or not there yet, are as a new talk has them.
WorkOK ==
  /\ \A i \in Ids \ Talks : work[i] = NewWork
  /\ orphaned \subseteq Detecting

\* Job works on talk i: it will write its row or its file, or enqueue its job.
WorksOn(job, i) ==
  \/ job.fn = "detect" /\ i \in job.ids
  \/ job.fn = "room" /\ job.phase = "queued" /\ i \in job.ids
  \/ job.fn = "room" /\ job.phase = "loading" /\ i \in job.claimed
  \/ job.fn = "room" /\ job.phase = "sending" /\ i \in job.todo

\* The request to attach goes on as if nobody else worked on talk i.
Reserved(i) ==
  /\ i \in Mine
  /\ \/ attach.phase = "read" /\ attach.seen[i].work.status # "detecting"
     \/ attach.phase \in {"marking", "sending"}
     \/ attach.phase = "staging" /\ i \in FileMatched
     \/ attach.phase = "enqueuing" /\ i \in attach.todo

\* One recording at a time: no two jobs, nor a job and the request, have talk i.
Apart(i) ==
  /\ \A s, t \in JobSlots : WorksOn(jobs[s], i) /\ WorksOn(jobs[t], i) => s = t
  /\ Reserved(i) => \A s \in JobSlots : ~WorksOn(jobs[s], i)

\* The bounds c lie within recording r.
Within(c, r) ==
  c = NoCut \/ r = None \/ (c \in Nat \X Nat /\ c[1] < c[2] /\ c[2] <= Length[r])

\* Job has still to look at the file of the talks it works on.
ToRead(job) ==
  \/ job.fn = "room" /\ job.phase = "sending"
  \/ job.fn = "detect" /\ job.phase = "queued"

\* The bounds of talk i lie within the file that its detection will measure.
Bounds(i) ==
  /\ \A s \in JobSlots : WorksOn(jobs[s], i) =>
       /\ ToRead(jobs[s]) => Within(Cut(work[i]), raw[i])
       /\ jobs[s].fn = "detect" /\ jobs[s].phase = "measuring" /\ jobs[s].row =>
            Within(Cut(work[i]), jobs[s].rec)
  /\ attach.phase = "staging" /\ i \in attach.staged => raw[i] \in {None, attach.rec}
  /\ attach.phase = "enqueuing" /\ i \in attach.todo => Within(Cut(work[i]), raw[i])

\* The bounds of talk i, once it is under review, lie within what was measured.
Fits(i) ==
  work[i].status = "pending_approval" /\ Cut(work[i]) # NoCut =>
    /\ work[i].detected # None /\ Cut(work[i]) \in Nat \X Nat
    /\ work[i].cut_start < work[i].cut_end /\ work[i].cut_end <= work[i].detected

\* What the bounds and the files of a talk rest on, unless its row is mixed.
TalksOK == \A i \in Talks \ mixed : Apart(i) /\ Bounds(i) /\ Fits(i)

\* The inductive invariant.
IInv == TypesOK /\ WorkOK /\ DetectingIsCarried /\ TalksOK

-------------------------------------------------------------------------------
(* The operators *)

\* The first of some talks is one of them.
LEMMA FirstIsIn ==
  ASSUME NEW S \in SUBSET Ids, S # {}
  PROVE  FirstOf(S) \in S
<1>1. S \in SUBSET Nat
  BY IdsAssumption
<1>2. \E k \in S : \A j \in S : k <= j
  BY <1>1, LeastIsThere
<1> QED
  BY <1>2 DEF FirstOf

\* The first of one talk is that talk.
LEMMA FirstOfOne ==
  ASSUME NEW i \in Ids
  PROVE  FirstOf({i}) = i
BY FirstIsIn

\* The start of a recording is a time.
LEMMA StartIsNat ==
  ASSUME NEW rec \in Recordings, NEW given \in Nat \cup {None},
         NEW starts \in SUBSET Nat, starts # {}
  PROVE  StartOf(rec, given, starts) \in Nat
<1>1. Earliest(starts) \in Nat
  <2>1. \E s \in starts : \A t \in starts : s <= t
    BY LeastIsThere
  <2> QED
    BY <2>1 DEF Earliest
<1>2. TakenAt[rec] \in Nat \cup {None}
  BY TakenAtAssumption
<1> QED
  BY <1>1, <1>2 DEF StartOf

\* The bounds of a talk that overlaps with the recording.
LEMMA OffsetsLie ==
  ASSUME NEW s \in Nat, NEW start \in Nat, NEW length \in Nat \ {0},
         Overlaps(s, start, length)
  PROVE  /\ Offsets(s, start, length) \in Nat \X Nat
         /\ Offsets(s, start, length)[1] < Offsets(s, start, length)[2]
         /\ Offsets(s, start, length)[2] <= length
<1> DEFINE a == IF s > start THEN s - start ELSE 0
           b == IF s + Lasts - start < length THEN s + Lasts - start ELSE length
<1>1. Lasts \in Nat /\ Lasts > 0 /\ length > 0
  BY LengthAssumption
<1>2. s < start + length /\ s + Lasts > start
  BY DEF Overlaps
<1>3. a \in Nat /\ b \in Nat /\ a < b /\ b <= length
  BY <1>1, <1>2
<1>4. Offsets(s, start, length) = <<a, b>>
  BY DEF Offsets
<1> HIDE DEF a, b
<1> QED
  BY <1>3, <1>4

\* The columns of a talk that takes its bounds from its place in a recording.
LEMMA CutAtIs ==
  ASSUME NEW status \in Status, NEW s \in Nat, NEW start \in Nat, NEW r \in Recordings,
         Overlaps(s, start, Length[r])
  PROVE  /\ CutAt(status, s, start, Length[r]) \in WorkRow
         /\ CutAt(status, s, start, Length[r]).status = status
         /\ CutAt(status, s, start, Length[r]).detected = Length[r]
         /\ Cut(CutAt(status, s, start, Length[r])) # NoCut
         /\ Within(Cut(CutAt(status, s, start, Length[r])), r)
<1> DEFINE length == Length[r]
           c == Offsets(s, start, length)
           w == CutAt(status, s, start, length)
<1>1. length \in Nat \ {0} /\ None \notin Nat
  BY LengthAssumption, StartsAssumption
<1> HIDE DEF length
<1>2. c \in Nat \X Nat /\ c[1] < c[2] /\ c[2] <= length
  BY <1>1, OffsetsLie DEF length
<1>3. w = [status |-> status, detected |-> length, cut_start |-> c[1], cut_end |-> c[2]]
  BY DEF CutAt
<1> HIDE DEF c
<1>4. c = <<c[1], c[2]>> /\ c[1] \in Nat /\ c[2] \in Nat
  BY <1>2
<1>5. w \in WorkRow /\ w.status = status /\ w.detected = length /\ Cut(w) = c
  BY <1>1, <1>3, <1>4 DEF WorkRow, Cut
<1>6. c # NoCut
  BY <1>1, <1>4 DEF NoCut
<1>7. Within(c, r)
  BY <1>2 DEF Within, length
<1> HIDE DEF w
<1> QED
  BY <1>5, <1>6, <1>7 DEF w, length

\* A job goes to a slot that is free.
LEMMA EnqueuedTakesFree ==
  ASSUME NEW table \in [JobSlots -> Job], NEW job \in Job,
         \E s \in JobSlots : table[s].fn = "none"
  PROVE  \E s \in JobSlots : /\ table[s].fn = "none"
                             /\ Enqueued(table, job) = [table EXCEPT ![s] = job]
BY DEF Enqueued

\* A slot without a job is well formed, and works on nothing.
LEMMA NoJobIsOK ==
  /\ NoJob \in Job /\ JobOK(NoJob) /\ NoJob.fn = "none" /\ NoJob.ids = {}
  /\ \A i : ~WorksOn(NoJob, i)
BY DEF NoJob, Job, JobOK, WorksOn

\* A job_detect that is enqueued is well formed.
LEMMA DetectJobIs ==
  ASSUME NEW i \in Ids, NEW start \in Nat \cup {None}
  PROVE  /\ DetectJob(i, start) \in Job /\ JobOK(DetectJob(i, start))
         /\ DetectJob(i, start).fn = "detect" /\ DetectJob(i, start).phase = "queued"
         /\ DetectJob(i, start).ids = {i} /\ DetectJob(i, start).start = start
         /\ DetectJob(i, start).row = FALSE
BY DEF DetectJob, NoJob, Job, JobOK

\* A request that is not under way has loaded nothing.
LEMMA NoAttachIs ==
  /\ NoAttach \in Attach /\ NoAttach.phase = "idle" /\ DOMAIN NoAttach.seen = {}
<1>1. <<>> \in [{} -> Seen] /\ DOMAIN <<>> = {}
  OBVIOUS
<1>2. <<>> \in Loaded
  BY <1>1 DEF Loaded
<1> QED
  BY <1>1, <1>2 DEF NoAttach, Attach

\* The columns of a new talk.
LEMMA NewWorkIs ==
  /\ NewWork \in WorkRow /\ NewWork.status = "waiting_for_files"
  /\ Cut(NewWork) = NoCut /\ NewWork.detected = None
BY DEF NewWork, WorkRow, Status, Cut, NoCut

\* The columns of any talk.
LEMMA WorkIs ==
  ASSUME NEW w \in WorkRow
  PROVE  /\ w.status \in Status /\ w.detected \in Nat \cup {None}
         /\ w.cut_start \in Nat \cup {None} /\ w.cut_end \in Nat \cup {None}
         /\ DOMAIN w = {"status", "detected", "cut_start", "cut_end"}
         /\ \A v \in Status : /\ [w EXCEPT !.status = v] \in WorkRow
                              /\ [w EXCEPT !.status = v].status = v
                              /\ Cut([w EXCEPT !.status = v]) = Cut(w)
                              /\ [w EXCEPT !.status = v].detected = w.detected
BY DEF WorkRow, Cut

\* Job will end the detection of talk i.
Carries(job, i) ==
  \/ job.fn = "detect" /\ job.ids = {i} /\ (job.phase = "queued" \/ job.row)
  \/ job.fn = "room" /\ job.phase = "queued" /\ i \in job.ids
  \/ job.fn = "room" /\ job.phase = "loading" /\ i \in job.claimed
  \/ job.fn = "room" /\ job.phase = "sending" /\ i \in job.todo

\* The request is about to enqueue the work on talk i.
AttachCarries(i) ==
  \/ attach.phase = "sending" /\ i \in Mine
  \/ attach.phase = "enqueuing" /\ i \in attach.todo

\* Who carries a talk: a job or the request.
LEMMA CarriedIs ==
  ASSUME NEW i
  PROVE  Carried(i) <=> (\E s \in JobSlots : Carries(jobs[s], i)) \/ AttachCarries(i)
BY DEF Carried, Carries, AttachCarries

\* The same, after a step.
LEMMA CarriedNextIs ==
  ASSUME NEW i
  PROVE  Carried(i)' <=> (\E s \in JobSlots : Carries(jobs'[s], i)) \/ AttachCarries(i)'
BY DEF Carried, Carries, AttachCarries

\* A job that carries a talk works on it.
LEMMA CarriersWork ==
  ASSUME NEW job, JobOK(job), NEW i, Carries(job, i)
  PROVE  WorksOn(job, i) /\ i \in job.ids
BY DEF JobOK, Carries, WorksOn

\* A job that works on a talk has it among its talks.
LEMMA WorkersHave ==
  ASSUME NEW job, JobOK(job), NEW i, WorksOn(job, i)
  PROVE  i \in job.ids
BY DEF JobOK, WorksOn

-------------------------------------------------------------------------------
(* Steps that leave a talk to whoever has it *)

\* No job takes up talk i, and those that work on it go on as before.
JobsQuiet(i) ==
  \A s \in JobSlots : WorksOn(jobs'[s], i) =>
    /\ WorksOn(jobs[s], i)
    /\ jobs'[s].fn = jobs[s].fn /\ jobs'[s].phase = jobs[s].phase
    /\ jobs'[s].rec = jobs[s].rec
    /\ jobs'[s].row => jobs[s].row

\* Talk i gets no new bounds, no review and no new file.
RowQuiet(i) ==
  /\ Cut(work'[i]) \in {Cut(work[i]), NoCut}
  /\ work'[i].status = "pending_approval" => work'[i] = work[i]
  /\ raw'[i] \in {raw[i], None}

\* What depends on the request alone stays while it makes no step.
LEMMA AttachSame ==
  ASSUME UNCHANGED attach
  PROVE  /\ Mine' = Mine /\ FileMatched' = FileMatched /\ FileStart' = FileStart
         /\ \A i : Reserved(i)' <=> Reserved(i)
         /\ \A i : AttachCarries(i)' <=> AttachCarries(i)
         /\ AttachOK => AttachOK'
<1>1. Mine' = Mine /\ FileStart' = FileStart
  BY DEF Mine, FileStart
<1>2. FileMatched' = FileMatched
  BY <1>1 DEF FileMatched
<1>3. \A i : Reserved(i)' <=> Reserved(i)
  BY <1>1, <1>2 DEF Reserved
<1>4. \A i : AttachCarries(i)' <=> AttachCarries(i)
  BY <1>1 DEF AttachCarries
<1>5. AttachOK => AttachOK'
  BY <1>1, <1>2 DEF AttachOK
<1> QED
  BY <1>1, <1>2, <1>3, <1>4, <1>5

\* What a job that goes on may rely on.
LEMMA QuietBounds ==
  ASSUME TalksOK, NEW i \in Talks \ mixed, JobsQuiet(i), RowQuiet(i),
         NEW s \in JobSlots, WorksOn(jobs'[s], i)
  PROVE  /\ ToRead(jobs'[s]) => Within(Cut(work'[i]), raw'[i])
         /\ jobs'[s].fn = "detect" /\ jobs'[s].phase = "measuring" /\ jobs'[s].row =>
              Within(Cut(work'[i]), jobs'[s].rec)
<1>1. Bounds(i)
  BY DEF TalksOK
<1>2. \A r : Within(Cut(work[i]), r) => Within(Cut(work'[i]), r)
  BY DEF RowQuiet, Within
<1>3. Within(Cut(work[i]), raw[i]) => Within(Cut(work'[i]), raw'[i])
  BY <1>2 DEF RowQuiet, Within
<1>4. /\ WorksOn(jobs[s], i)
      /\ jobs'[s].fn = jobs[s].fn /\ jobs'[s].phase = jobs[s].phase
      /\ jobs'[s].rec = jobs[s].rec
      /\ jobs'[s].row => jobs[s].row
  BY DEF JobsQuiet
<1>5. /\ ToRead(jobs[s]) => Within(Cut(work[i]), raw[i])
      /\ jobs[s].fn = "detect" /\ jobs[s].phase = "measuring" /\ jobs[s].row =>
           Within(Cut(work[i]), jobs[s].rec)
  BY <1>1, <1>4 DEF Bounds
<1>6. ToRead(jobs'[s]) => ToRead(jobs[s])
  BY <1>4 DEF ToRead
<1> QED
  BY <1>2, <1>3, <1>4, <1>5, <1>6

\* A talk that a step of the request leaves to whoever has it.
LEMMA QuietAttach ==
  ASSUME TalksOK, NEW i \in Talks \ mixed, JobsQuiet(i), RowQuiet(i),
         Reserved(i)' => Reserved(i),
         attach'.phase = "staging" /\ i \in attach'.staged => raw'[i] \in {None, attach'.rec},
         attach'.phase = "enqueuing" /\ i \in attach'.todo => Within(Cut(work'[i]), raw'[i])
  PROVE  Apart(i)' /\ Bounds(i)' /\ Fits(i)'
<1>1. Apart(i) /\ Bounds(i) /\ Fits(i)
  BY DEF TalksOK
<1>2. \A s \in JobSlots : WorksOn(jobs'[s], i) => WorksOn(jobs[s], i)
  BY DEF JobsQuiet
<1>3. Apart(i)'
  BY <1>1, <1>2 DEF Apart, WorksOn
<1>4. ASSUME NEW s \in JobSlots, WorksOn(jobs'[s], i)
      PROVE  /\ ToRead(jobs'[s]) => Within(Cut(work'[i]), raw'[i])
             /\ jobs'[s].fn = "detect" /\ jobs'[s].phase = "measuring" /\ jobs'[s].row =>
                  Within(Cut(work'[i]), jobs'[s].rec)
  BY <1>4, QuietBounds
<1>5. Bounds(i)'
  BY <1>4 DEF Bounds, ToRead, WorksOn, Within
<1>6. Fits(i)'
  BY <1>1 DEF Fits, RowQuiet
<1> QED
  BY <1>3, <1>5, <1>6

\* A talk that nobody takes up keeps what its bounds rest on.
LEMMA QuietTalk ==
  ASSUME TalksOK, UNCHANGED attach, NEW i \in Talks \ mixed, JobsQuiet(i), RowQuiet(i)
  PROVE  Apart(i)' /\ Bounds(i)' /\ Fits(i)'
<1>1. Bounds(i)
  BY DEF TalksOK
<1>2. Reserved(i)' => Reserved(i)
  BY AttachSame
<1>3. /\ attach'.phase = "staging" /\ i \in attach'.staged => raw'[i] \in {None, attach'.rec}
      /\ attach'.phase = "enqueuing" /\ i \in attach'.todo => Within(Cut(work'[i]), raw'[i])
  BY <1>1 DEF Bounds, RowQuiet, Within
<1> QED
  BY <1>2, <1>3, QuietAttach

\* History and rows.
LEMMA OrphansAreDetecting ==
  ASSUME TypesOK, WorkOK, NEW S \in SUBSET Ids, Orphan(S),
         \A i \in Ids \ Talks' : work'[i] = NewWork
  PROVE  WorkOK'
<1>1. \A i \in Ids : work'[i].status = "detecting" => i \in Talks'
  BY NewWorkIs
<1>2. orphaned' \subseteq {i \in Ids : work'[i].status = "detecting"}
  BY DEF Orphan, WorkOK, Detecting, Talks
<1>3. \A i \in orphaned' : i \in Detecting'
  BY <1>1, <1>2 DEF Detecting
<1> QED
  BY <1>3 DEF WorkOK

\* A step that leaves the schedule alone.
LEMMA SameSchedule ==
  ASSUME ScheduleInv, UNCHANGED scheduleVars
  PROVE  ScheduleInv' /\ Talks' = Talks /\ talk' = talk
BY DEF scheduleVars, ScheduleInv, ScheduleTypeOK, RoomsRegistered, EditsOK, Talks

-------------------------------------------------------------------------------
(* Steps of the job in slot s.  The others, and the request, stand still.   *)

\* A step of one job slot.
OnlyJob(s) ==
  /\ \A t \in JobSlots \ {s} : jobs'[t] = jobs[t]
  /\ UNCHANGED <<scheduleVars, attach, abort, mixed>>

\* A step of one job keeps the types.
LEMMA JobTypes ==
  ASSUME TypesOK, WorkOK, NEW s \in JobSlots, OnlyJob(s),
         jobs' \in [JobSlots -> Job], JobOK(jobs'[s]),
         work' \in [Ids -> WorkRow], raw' \in [Ids -> Recordings \cup {None}], UNCHANGED spare,
         \A i \in Ids \ Talks : work'[i] = work[i]
  PROVE  /\ TypesOK' /\ Talks' = Talks /\ Talks \subseteq Ids
         /\ \A i \in Ids \ Talks' : work'[i] = NewWork
         /\ jobs[s] \in Job /\ JobOK(jobs[s])
<1>1. ScheduleInv' /\ Talks' = Talks
  BY SameSchedule DEF TypesOK, OnlyJob
<1>2. AttachOK' /\ abort' = abort
  BY AttachSame DEF TypesOK, OnlyJob
<1>3. \A t \in JobSlots : JobOK(jobs'[t])
  BY DEF TypesOK, OnlyJob
<1> QED
  BY <1>1, <1>2, <1>3 DEF TypesOK, WorkOK, Talks, AbortOK

\* A talk the job does not work on after the step.
LEMMA OtherTalk ==
  ASSUME TalksOK, NEW s \in JobSlots, OnlyJob(s),
         NEW i \in Talks \ mixed, ~WorksOn(jobs'[s], i), RowQuiet(i)
  PROVE  Apart(i)' /\ Bounds(i)' /\ Fits(i)'
<1>1. JobsQuiet(i)
  BY DEF OnlyJob, JobsQuiet
<1> QED
  BY <1>1, QuietTalk DEF OnlyJob

\* A talk the job has worked on so far.
LEMMA OwnTalk ==
  ASSUME TypesOK, TalksOK, NEW s \in JobSlots, OnlyJob(s),
         NEW i \in Talks \ mixed, WorksOn(jobs[s], i),
         WorksOn(jobs'[s], i) =>
           /\ ToRead(jobs'[s]) => Within(Cut(work'[i]), raw'[i])
           /\ jobs'[s].fn = "detect" /\ jobs'[s].phase = "measuring" /\ jobs'[s].row =>
                Within(Cut(work'[i]), jobs'[s].rec)
  PROVE  Apart(i)' /\ Bounds(i)'
<1>1. ~Reserved(i) /\ \A t \in JobSlots \ {s} : ~WorksOn(jobs[t], i)
  BY DEF TalksOK, Apart
<1>2. ~Reserved(i)' /\ UNCHANGED attach
  BY <1>1, AttachSame DEF OnlyJob
<1>3. \A t \in JobSlots : WorksOn(jobs'[t], i) => t = s
  BY <1>1 DEF OnlyJob
<1>4. Apart(i)'
  BY <1>2, <1>3 DEF Apart, WorksOn
<1>5. ~(attach.phase = "staging" /\ i \in attach.staged)
      /\ ~(attach.phase = "enqueuing" /\ i \in attach.todo)
  BY <1>1 DEF TypesOK, AttachOK, Reserved, FileMatched
<1>6. Bounds(i)'
  <2>1. ASSUME NEW t \in JobSlots, WorksOn(jobs'[t], i)
        PROVE  /\ ToRead(jobs'[t]) => Within(Cut(work'[i]), raw'[i])
               /\ jobs'[t].fn = "detect" /\ jobs'[t].phase = "measuring" /\ jobs'[t].row =>
                    Within(Cut(work'[i]), jobs'[t].rec)
    BY <1>3, <2>1
  <2> QED
    BY <1>2, <1>5, <2>1 DEF Bounds, ToRead, WorksOn, Within
<1> QED
  BY <1>4, <1>6

\* A talk that goes on saying "detecting".
LEMMA StillCarried ==
  ASSUME DetectingIsCarried, NEW s \in JobSlots, OnlyJob(s),
         NEW S, Orphan(S), NEW i \in Detecting, i \in Detecting',
         i \in S \/ ~Carries(jobs[s], i) \/ Carries(jobs'[s], i)
  PROVE  i \in orphaned' \/ Carried(i)'
<1>1. CASE i \in orphaned \cup S
  BY <1>1 DEF Orphan, Detecting
<1>2. CASE i \notin orphaned \cup S
  <2>1. Carried(i)
    BY <1>2 DEF DetectingIsCarried
  <2>2. CASE AttachCarries(i)
    BY <2>2, AttachSame, CarriedNextIs DEF OnlyJob
  <2>3. ASSUME NEW t \in JobSlots, Carries(jobs[t], i) PROVE Carried(i)'
    BY <1>2, <2>3, CarriedNextIs DEF OnlyJob
  <2> QED
    BY <2>1, <2>2, <2>3, CarriedIs
<1> QED
  BY <1>1, <1>2

\* The job is over.
LEMMA JobIsOver ==
  ASSUME TypesOK, NEW s \in JobSlots, Free(s)
  PROVE  /\ jobs' \in [JobSlots -> Job] /\ jobs'[s] = NoJob
         /\ JobOK(jobs'[s]) /\ \A i : ~WorksOn(jobs'[s], i)
         /\ \A t \in JobSlots \ {s} : jobs'[t] = jobs[t]
BY NoJobIsOK DEF TypesOK, Free

\* Talks of M get another status.
LEMMA MarkIs ==
  ASSUME NEW w \in WorkRow, NEW v \in Status
  PROVE  /\ [w EXCEPT !.status = v] \in WorkRow
         /\ [w EXCEPT !.status = v].status = v
         /\ Cut([w EXCEPT !.status = v]) = Cut(w)
         /\ [w EXCEPT !.status = v].detected = w.detected
BY WorkIs

\* Setting the status of some talks leaves their bounds and lengths.
LEMMA MarksAre ==
  ASSUME work \in [Ids -> WorkRow], NEW M, NEW v \in Status, Marked(M, v)
  PROVE  /\ work' \in [Ids -> WorkRow]
         /\ \A i \in Ids : /\ work[i] \in WorkRow /\ work'[i] \in WorkRow
                           /\ Cut(work'[i]) = Cut(work[i])
                           /\ work'[i].detected = work[i].detected
                           /\ i \in M => work'[i].status = v
                           /\ i \notin M => work'[i] = work[i]
<1>1. ASSUME NEW i \in Ids
      PROVE  /\ work[i] \in WorkRow /\ work'[i] \in WorkRow
             /\ Cut(work'[i]) = Cut(work[i])
             /\ work'[i].detected = work[i].detected
             /\ i \in M => work'[i].status = v
             /\ i \notin M => work'[i] = work[i]
  <2>1. work[i] \in WorkRow
    OBVIOUS
  <2>2. work'[i] = IF i \in M THEN [work[i] EXCEPT !.status = v] ELSE work[i]
    BY DEF Marked
  <2> QED
    BY <2>1, <2>2, MarkIs
<1> QED
  BY <1>1 DEF Marked

\* The statuses that the proofs name.
LEMMA StatusesAre ==
  /\ "waiting_for_files" \in Status /\ "detecting" \in Status
  /\ "broken" \in Status /\ "pending_approval" \in Status
  /\ Eligible \subseteq Status /\ "pending_approval" \notin Eligible
BY DEF Status, Eligible

\* Nothing is asked of the bounds of a talk that is not up for review.
LEMMA UnreviewedFits ==
  ASSUME NEW i, work'[i].status # "pending_approval"
  PROVE  Fits(i)'
BY DEF Fits

-------------------------------------------------------------------------------
(* job_ingest_room_url *)

\* job_ingest_room_url begins, and claims talks.
LEMMA RoomJobStartsKeeps ==
  ASSUME IInv, NEW s \in JobSlots, RoomJobStarts(s),
         UNCHANGED <<scheduleVars, abort, mixed>>
  PROVE  IInv'
<1> DEFINE job == jobs[s]
           mine == {i \in job.ids : InRoom(i, job.room) /\ work[i].status \in Eligible}
<1>1. /\ job.fn = "room" /\ job.phase = "queued"
      /\ jobs' = [jobs EXCEPT ![s].phase = "loading", ![s].claimed = mine]
      /\ Marked(mine, "detecting")
      /\ Orphan(job.ids \ mine)
      /\ UNCHANGED <<raw, spare, attach>>
  BY DEF RoomJobStarts
<1>2. /\ jobs \in [JobSlots -> Job] /\ job \in Job /\ JobOK(job)
      /\ mine \subseteq job.ids /\ job.ids \subseteq Ids /\ mine \subseteq Talks
  BY DEF IInv, TypesOK, Job, InRoom
<1> HIDE DEF mine
<1>3. /\ jobs' \in [JobSlots -> Job]
      /\ \A t \in JobSlots \ {s} : jobs'[t] = jobs[t]
      /\ jobs'[s].fn = "room" /\ jobs'[s].phase = "loading" /\ jobs'[s].claimed = mine
      /\ jobs'[s].ids = job.ids /\ jobs'[s].rec = job.rec /\ jobs'[s] \in Job
  BY <1>1, <1>2 DEF Job
<1>4. OnlyJob(s) /\ JobOK(jobs'[s])
  BY <1>1, <1>2, <1>3 DEF OnlyJob, JobOK
<1>5. /\ work' \in [Ids -> WorkRow]
      /\ \A i \in Ids : /\ i \in mine => work'[i].status = "detecting"
                        /\ i \notin mine => work'[i] = work[i]
  BY <1>1, MarksAre, StatusesAre DEF IInv, TypesOK
<1>6. work' \in [Ids -> WorkRow] /\ \A i \in Ids \ Talks : work'[i] = work[i]
  BY <1>2, <1>5
<1>7. /\ TypesOK' /\ Talks' = Talks /\ Talks \subseteq Ids
      /\ \A i \in Ids \ Talks' : work'[i] = NewWork
  BY <1>1, <1>3, <1>4, <1>6, JobTypes DEF IInv, TypesOK
<1>8. WorkOK'
  BY <1>1, <1>2, <1>7, OrphansAreDetecting DEF IInv
<1>9. DetectingIsCarried'
  <2> SUFFICES ASSUME NEW i \in Detecting' PROVE i \in orphaned' \/ Carried(i)'
    BY DEF DetectingIsCarried
  <2>1. i \in Talks /\ i \in Ids
    BY <1>7 DEF Detecting
  <2>2. CASE i \in mine
    BY <1>3, <2>2, CarriedNextIs DEF Carries
  <2>3. CASE i \notin mine
    <3>1. i \in Detecting
      BY <1>5, <2>1, <2>3 DEF Detecting
    <3>2. Carries(job, i) => i \in job.ids \ mine
      BY <1>1, <2>3 DEF Carries
    <3> QED
      BY <1>1, <1>4, <3>1, <3>2, StillCarried DEF IInv
  <2> QED
    BY <2>2, <2>3
<1>10. TalksOK'
  <2> SUFFICES ASSUME NEW i \in Talks \ mixed PROVE Apart(i)' /\ Bounds(i)' /\ Fits(i)'
    BY <1>7 DEF TalksOK
  <2>1. i \in Ids
    BY <1>7
  <2>2. CASE i \in mine
    <3>1. WorksOn(job, i) /\ ~ToRead(jobs'[s]) /\ jobs'[s].fn # "detect"
      BY <1>1, <1>2, <1>3, <2>2 DEF WorksOn, ToRead
    <3>2. Fits(i)'
      BY <1>5, <2>1, <2>2, UnreviewedFits
    <3> QED
      BY <1>4, <3>1, <3>2, OwnTalk DEF IInv
  <2>3. CASE i \notin mine
    <3>1. ~WorksOn(jobs'[s], i)
      BY <1>3, <2>3 DEF WorksOn
    <3>2. RowQuiet(i)
      BY <1>1, <1>5, <2>1, <2>3 DEF RowQuiet
    <3> QED
      BY <1>4, <3>1, <3>2, OtherTalk DEF IInv
  <2> QED
    BY <2>2, <2>3
<1> QED
  BY <1>7, <1>8, <1>9, <1>10 DEF IInv

\* A job ends.  The talks it worked on fit, and say "detecting" no longer.
LEMMA JobEnds ==
  ASSUME IInv, NEW s \in JobSlots, Free(s),
         UNCHANGED <<scheduleVars, abort, mixed, attach, spare>>,
         NEW S \in SUBSET Ids, Orphan(S),
         work' \in [Ids -> WorkRow], raw' \in [Ids -> Recordings \cup {None}],
         \A i \in Ids \ Talks : work'[i] = work[i],
         \A i \in Talks : work'[i].status = "detecting" =>
           i \in Detecting /\ (i \in S \/ ~Carries(jobs[s], i)),
         \A i \in Talks \ mixed : RowQuiet(i) \/ (WorksOn(jobs[s], i) /\ Fits(i)')
  PROVE  IInv'
<1>1. /\ jobs' \in [JobSlots -> Job] /\ JobOK(jobs'[s]) /\ OnlyJob(s)
      /\ \A i : ~WorksOn(jobs'[s], i)
  BY JobIsOver DEF IInv, OnlyJob
<1>2. /\ TypesOK' /\ Talks' = Talks /\ Talks \subseteq Ids
      /\ \A i \in Ids \ Talks' : work'[i] = NewWork
  BY <1>1, JobTypes DEF IInv
<1>3. WorkOK'
  BY <1>2, OrphansAreDetecting DEF IInv
<1>4. DetectingIsCarried'
  <2> SUFFICES ASSUME NEW i \in Detecting' PROVE i \in orphaned' \/ Carried(i)'
    BY DEF DetectingIsCarried
  <2>1. i \in Talks /\ work'[i].status = "detecting"
    BY <1>2 DEF Detecting
  <2>2. i \in Detecting /\ (i \in S \/ ~Carries(jobs[s], i))
    BY <2>1
  <2> QED
    BY <1>1, <2>2, StillCarried DEF IInv
<1>5. TalksOK'
  <2> SUFFICES ASSUME NEW i \in Talks \ mixed PROVE Apart(i)' /\ Bounds(i)' /\ Fits(i)'
    BY <1>2 DEF TalksOK
  <2>1. CASE RowQuiet(i)
    BY <1>1, <2>1, OtherTalk DEF IInv
  <2>2. CASE WorksOn(jobs[s], i) /\ Fits(i)'
    BY <1>1, <2>2, OwnTalk DEF IInv
  <2> QED
    BY <2>1, <2>2
<1> QED
  BY <1>2, <1>3, <1>4, <1>5 DEF IInv

\* It finds no talk to work for.
LEMMA RoomJobFindsNothingKeeps ==
  ASSUME IInv, NEW s \in JobSlots, RoomJobFindsNothing(s),
         UNCHANGED <<scheduleVars, abort, mixed>>
  PROVE  IInv'
<1> DEFINE job == jobs[s]
           gone == job.claimed \cap Detecting
<1>1. /\ job.fn = "room" /\ job.phase = "loading"
      /\ Marked(gone, "waiting_for_files")
      /\ Free(s) /\ Orphan({}) /\ UNCHANGED <<raw, spare, attach>>
  BY DEF RoomJobFindsNothing
<1>2. /\ work' \in [Ids -> WorkRow]
      /\ \A i \in Ids : /\ Cut(work'[i]) = Cut(work[i])
                        /\ i \in gone => work'[i].status = "waiting_for_files"
                        /\ i \notin gone => work'[i] = work[i]
  BY <1>1, MarksAre, StatusesAre DEF IInv, TypesOK
<1>3. \A i \in Ids \ Talks : work'[i] = work[i]
  BY <1>2 DEF Detecting
<1>4. raw' \in [Ids -> Recordings \cup {None}]
  BY <1>1 DEF IInv, TypesOK
<1>5. ASSUME NEW i \in Talks, work'[i].status = "detecting"
      PROVE  i \in Detecting /\ ~Carries(jobs[s], i)
  BY <1>1, <1>2, <1>5 DEF Carries, Detecting, Talks
<1>6. ASSUME NEW i \in Talks \ mixed PROVE RowQuiet(i)
  BY <1>1, <1>2 DEF RowQuiet, Talks
<1> QED
  BY <1>1, <1>2, <1>3, <1>4, <1>5, <1>6, JobEnds

\* It fails, and gives its claims back.
LEMMA RoomJobFailsKeeps ==
  ASSUME IInv, NEW s \in JobSlots, NEW linked \in SUBSET Ids, RoomJobFails(s, linked),
         UNCHANGED <<scheduleVars, abort, mixed>>
  PROVE  IInv'
<1> DEFINE job == jobs[s]
           broken == job.claimed \cap Detecting
<1>1. /\ job.fn = "room" /\ job.phase \in {"loading", "sending"}
      /\ raw' = [i \in Ids |-> IF i \in linked THEN job.rec ELSE raw[i]]
      /\ Marked(broken, "broken")
      /\ Free(s) /\ Orphan({}) /\ UNCHANGED <<spare, attach>>
  BY DEF RoomJobFails
<1>2. (job.phase = "loading" /\ linked \subseteq broken) \/ linked = {}
  BY DEF RoomJobFails, Matched, Present, Detecting, InRoom
<1>3. JobOK(job)
  BY DEF IInv, TypesOK
<1>4. /\ work' \in [Ids -> WorkRow]
      /\ \A i \in Ids : /\ Cut(work'[i]) = Cut(work[i])
                        /\ i \in broken => work'[i].status = "broken"
                        /\ i \notin broken => work'[i] = work[i]
  BY <1>1, MarksAre, StatusesAre DEF IInv, TypesOK
<1>5. \A i \in Ids \ Talks : work'[i] = work[i]
  BY <1>4 DEF Detecting
<1>6. raw' \in [Ids -> Recordings \cup {None}]
  BY <1>1, <1>3 DEF IInv, TypesOK, JobOK
<1>7. ASSUME NEW i \in Talks, work'[i].status = "detecting"
      PROVE  i \in Detecting /\ ~Carries(jobs[s], i)
  BY <1>1, <1>3, <1>4, <1>7 DEF Carries, Detecting, Talks, JobOK
<1>8. ASSUME NEW i \in Talks \ mixed
      PROVE  RowQuiet(i) \/ (WorksOn(jobs[s], i) /\ Fits(i)')
  <2>1. CASE i \in linked
    <3>1. job.phase = "loading" /\ i \in broken
      BY <1>2, <2>1
    <3>2. WorksOn(jobs[s], i)
      BY <1>1, <3>1 DEF WorksOn
    <3>3. Fits(i)'
      BY <1>4, <3>1, UnreviewedFits DEF Talks
    <3> QED
      BY <3>2, <3>3
  <2>2. CASE i \notin linked
    BY <1>1, <1>4, <2>2 DEF RowQuiet, Talks
  <2> QED
    BY <2>1, <2>2
<1> QED
  BY <1>1, <1>4, <1>5, <1>6, <1>7, <1>8, JobEnds

\* The worker of a job dies.
LEMMA JobDiesKeeps ==
  ASSUME IInv, NEW s \in JobSlots, JobDies(s), UNCHANGED <<scheduleVars, abort, mixed>>
  PROVE  IInv'
<1>1. /\ Free(s) /\ UNCHANGED work /\ Orphan(jobs[s].ids)
      /\ UNCHANGED <<raw, spare, attach>>
  BY DEF JobDies
<1>2. JobOK(jobs[s]) /\ jobs[s].ids \in SUBSET Ids
  BY DEF IInv, TypesOK, Job
<1>3. work' \in [Ids -> WorkRow] /\ raw' \in [Ids -> Recordings \cup {None}]
  BY <1>1 DEF IInv, TypesOK
<1>4. ASSUME NEW i \in Talks, work'[i].status = "detecting"
      PROVE  i \in Detecting /\ (i \in jobs[s].ids \/ ~Carries(jobs[s], i))
  BY <1>1, <1>2, <1>4, CarriersWork DEF Detecting
<1>5. ASSUME NEW i \in Talks \ mixed PROVE RowQuiet(i)
  BY <1>1 DEF RowQuiet
<1> QED
  BY <1>1, <1>2, <1>3, <1>4, <1>5, JobEnds

-------------------------------------------------------------------------------
(* job_detect *)

\* job_detect fails.
LEMMA DetectFailsKeeps ==
  ASSUME IInv, NEW s \in JobSlots, DetectFails(s), UNCHANGED <<scheduleVars, abort, mixed>>
  PROVE  IInv'
<1> DEFINE unmarked == {i \in Talks : work[i].status \notin {"waiting_for_files", "broken"}}
           M == IF jobs[s].row THEN jobs[s].ids \cap unmarked ELSE {}
<1>1. /\ jobs[s].fn = "detect" /\ jobs[s].phase = "measuring" /\ Marked(M, "broken")
      /\ Free(s) /\ Orphan({}) /\ UNCHANGED <<raw, spare, attach>>
  BY DEF DetectFails
<1>2. /\ work' \in [Ids -> WorkRow]
      /\ \A i \in Ids : /\ Cut(work'[i]) = Cut(work[i])
                        /\ i \in M => work'[i].status = "broken"
                        /\ i \notin M => work'[i] = work[i]
  BY <1>1, MarksAre, StatusesAre DEF IInv, TypesOK
<1>3. \A i \in Ids \ Talks : work'[i] = work[i]
  BY <1>2
<1>4. raw' \in [Ids -> Recordings \cup {None}] /\ JobOK(jobs[s])
  BY <1>1 DEF IInv, TypesOK
<1>5. ASSUME NEW i \in Talks, work'[i].status = "detecting"
      PROVE  i \in Detecting /\ ~Carries(jobs[s], i)
  <2>1. i \notin M /\ i \in Detecting
    BY <1>2, <1>5 DEF Detecting, Talks
  <2>2. i \notin jobs[s].ids \/ ~jobs[s].row
    BY <2>1 DEF Detecting
  <2> QED
    BY <1>1, <1>4, <2>1, <2>2, CarriersWork DEF Carries
<1>6. ASSUME NEW i \in Talks \ mixed PROVE RowQuiet(i)
  BY <1>1, <1>2 DEF RowQuiet, Talks
<1> QED
  BY <1>1, <1>2, <1>3, <1>4, <1>5, <1>6, JobEnds

\* A job_detect works on the one talk it has.
LEMMA DetectJobHas ==
  ASSUME TypesOK, NEW s \in JobSlots, jobs[s].fn = "detect"
  PROVE  /\ FirstOf(jobs[s].ids) \in Ids /\ jobs[s].ids = {FirstOf(jobs[s].ids)}
         /\ WorksOn(jobs[s], FirstOf(jobs[s].ids))
         /\ jobs[s].rec \in Recordings \cup {None} /\ jobs[s].start \in Nat \cup {None}
<1>1. JobOK(jobs[s])
  BY DEF TypesOK
<1>2. PICK i \in Ids : jobs[s].ids = {i}
  BY <1>1 DEF JobOK
<1>3. FirstOf(jobs[s].ids) = i
  BY <1>2, FirstOfOne
<1>4. jobs[s].rec \in Recordings \cup {None} /\ jobs[s].start \in Nat \cup {None}
  BY <1>1 DEF JobOK, Job
<1> QED
  BY <1>2, <1>3, <1>4 DEF WorksOn

\* The slot of a talk, and the length of a recording.
LEMMA TalkHas ==
  ASSUME TypesOK, NEW i \in Talks
  PROVE  i \in Ids /\ talk[i] \in Row /\ talk[i].slot \in Nat
<1>1. i \in Ids /\ talk[i] \in Row
  BY DEF TypesOK, ScheduleInv, ScheduleTypeOK, Talks
<1> QED
  BY <1>1, RowsHave, IdsAssumption

\* A recording has a length.
LEMMA LengthIs ==
  ASSUME NEW r \in Recordings
  PROVE  Length[r] \in Nat \ {0} /\ Length[r] # None
<1>1. Length[r] \in Nat \ {0}
  BY LengthAssumption
<1> QED
  BY <1>1, StartsAssumption

\* job_detect measures the recording, and writes the bounds.
LEMMA DetectPassesKeeps ==
  ASSUME IInv, NEW s \in JobSlots, DetectPasses(s), UNCHANGED <<scheduleVars, abort, mixed>>
  PROVE  IInv'
<1> DEFINE job == jobs[s]
           i == FirstOf(job.ids)
           length == Length[job.rec]
           seeds == /\ work[i].cut_start = None /\ work[i].cut_end = None
                    /\ job.start # None /\ Overlaps(talk[i].slot, job.start, length)
           cut == CutAt("pending_approval", talk[i].slot, job.start, length)
           kept == [work[i] EXCEPT !.status = "pending_approval", !.detected = length]
           new == IF seeds THEN cut ELSE kept
           writes == i \in Detecting /\ job.row
<1>1. /\ job.fn = "detect" /\ job.phase = "measuring" /\ job.rec # None
      /\ work' = IF writes THEN [work EXCEPT ![i] = new] ELSE work
      /\ Free(s) /\ Orphan({}) /\ UNCHANGED <<raw, spare, attach>>
  BY DEF DetectPasses
<1>2. /\ i \in Ids /\ job.ids = {i} /\ WorksOn(job, i)
      /\ job.rec \in Recordings /\ job.start \in Nat \cup {None} /\ JobOK(job)
  BY <1>1, DetectJobHas DEF IInv, TypesOK
<1>3. length \in Nat \ {0} /\ length # None
  BY <1>2, LengthIs
<1>4. work \in [Ids -> WorkRow]
  BY DEF IInv, TypesOK
<1>5. ASSUME seeds, i \in Talks
      PROVE  /\ cut \in WorkRow /\ cut.status = "pending_approval" /\ cut.detected = length
             /\ Within(Cut(cut), job.rec)
  <2>1. talk[i].slot \in Nat /\ job.start \in Nat
    BY <1>2, <1>5, TalkHas DEF IInv
  <2> QED
    BY <1>2, <1>5, <2>1, CutAtIs, StatusesAre
<1> HIDE DEF length, cut
<1>6. /\ kept \in WorkRow /\ kept.status = "pending_approval" /\ kept.detected = length
      /\ Cut(kept) = Cut(work[i])
  <2>1. work[i] \in WorkRow
    BY <1>2, <1>4
  <2> QED
    BY <1>3, <2>1 DEF WorkRow, Cut, Status
<1> HIDE DEF kept
<1>7. ASSUME i \in Talks \ mixed, job.row
      PROVE  Within(Cut(new), job.rec)
  <2>1. CASE seeds
    BY <1>5, <1>7, <2>1
  <2>2. CASE ~seeds
    <3>1. Within(Cut(work[i]), job.rec)
      BY <1>1, <1>2, <1>7 DEF IInv, TalksOK, Bounds
    <3> QED
      BY <1>6, <2>2, <3>1
  <2> QED
    BY <2>1, <2>2
<1>8. writes => new \in WorkRow /\ i \in Talks
  BY <1>5, <1>6 DEF Detecting
<1>9. i \in Talks => new.status = "pending_approval" /\ new.detected = length
  BY <1>5, <1>6
<1> HIDE DEF new
<1>10. /\ writes => work'[i] = new
       /\ ~writes => work'[i] = work[i]
       /\ \A j \in Ids \ {i} : work'[j] = work[j]
       /\ work' \in [Ids -> WorkRow]
  BY <1>1, <1>2, <1>4, <1>8
<1>11. \A j \in Ids \ Talks : work'[j] = work[j]
  BY <1>8, <1>10
<1>12. raw' \in [Ids -> Recordings \cup {None}]
  BY <1>1 DEF IInv, TypesOK
<1>13. ASSUME NEW j \in Talks, work'[j].status = "detecting"
       PROVE  j \in Detecting /\ ~Carries(jobs[s], j)
  <2>1. CASE j = i
    <3>1. ~writes /\ i \in Detecting
      BY <1>8, <1>9, <1>10, <1>13, <2>1 DEF Detecting
    <3> QED
      BY <1>1, <2>1, <3>1 DEF Carries
  <2>2. CASE j # i
    <3>1. j \in Detecting /\ j \notin job.ids
      BY <1>2, <1>10, <1>13, <2>2 DEF Detecting, Talks
    <3> QED
      BY <1>2, <3>1, CarriersWork
  <2> QED
    BY <2>1, <2>2
<1>14. ASSUME NEW j \in Talks \ mixed
       PROVE  RowQuiet(j) \/ (WorksOn(jobs[s], j) /\ Fits(j)')
  <2>1. CASE j = i /\ writes
    <3>1. Within(Cut(new), job.rec) /\ work'[j] = new /\ new.detected = length
      BY <1>7, <1>9, <1>10, <1>14, <2>1
    <3>2. Fits(j)'
      BY <1>1, <1>3, <3>1 DEF Fits, Within, Cut, length
    <3> QED
      BY <1>2, <2>1, <3>2
  <2>2. CASE ~(j = i /\ writes)
    <3>1. work'[j] = work[j]
      BY <1>10, <2>2 DEF Talks
    <3> QED
      BY <1>1, <3>1 DEF RowQuiet
  <2> QED
    BY <2>1, <2>2
<1> HIDE DEF writes, i
<1> QED
  BY <1>1, <1>10, <1>11, <1>12, <1>13, <1>14, JobEnds

\* job_detect begins, and opens the file.
LEMMA DetectStartsKeeps ==
  ASSUME IInv, NEW s \in JobSlots, DetectStarts(s), UNCHANGED <<scheduleVars, abort, mixed>>
  PROVE  IInv'
<1> DEFINE job == jobs[s]
           i == FirstOf(job.ids)
<1>1. /\ job.fn = "detect" /\ job.phase = "queued"
      /\ UNCHANGED <<work, raw, spare, attach, orphaned>>
  BY DEF DetectStarts
<1>2. /\ i \in Ids /\ job.ids = {i} /\ WorksOn(job, i)
      /\ jobs \in [JobSlots -> Job] /\ job \in Job /\ JobOK(job)
  BY <1>1, DetectJobHas DEF IInv, TypesOK
<1>3. Orphan({})
  BY <1>1 DEF Orphan, IInv, WorkOK, Detecting
<1>4. work' \in [Ids -> WorkRow] /\ raw' \in [Ids -> Recordings \cup {None}]
      /\ \A j \in Ids \ Talks : work'[j] = work[j]
  BY <1>1 DEF IInv, TypesOK
<1>5. \A j \in Talks \ mixed : RowQuiet(j)
  BY <1>1 DEF RowQuiet
<1>6. CASE i \notin Detecting
  <2>1. Free(s)
    BY <1>6 DEF DetectStarts
  <2>2. ASSUME NEW j \in Talks, work'[j].status = "detecting"
        PROVE  j \in Detecting /\ ~Carries(jobs[s], j)
    BY <1>1, <1>2, <1>6, <2>2, CarriersWork DEF Detecting
  <2> HIDE DEF i
  <2> QED
    BY <1>1, <1>3, <1>4, <1>5, <2>1, <2>2, JobEnds
<1>7. CASE i \in Detecting
  <2>1. jobs' = [jobs EXCEPT ![s].phase = "measuring", ![s].rec = raw[i], ![s].row = TRUE]
    BY <1>7 DEF DetectStarts
  <2>2. raw[i] \in Recordings \cup {None}
    BY <1>2 DEF IInv, TypesOK
  <2> HIDE DEF i
  <2>3. /\ jobs' \in [JobSlots -> Job] /\ jobs'[s] \in Job
        /\ \A t \in JobSlots \ {s} : jobs'[t] = jobs[t]
        /\ jobs'[s].fn = "detect" /\ jobs'[s].phase = "measuring"
        /\ jobs'[s].rec = raw[i] /\ jobs'[s].ids = {i} /\ jobs'[s].row = TRUE
    BY <1>1, <1>2, <2>1, <2>2 DEF Job
  <2>4. JobOK(jobs'[s]) /\ OnlyJob(s)
    BY <1>1, <1>2, <2>3 DEF JobOK, OnlyJob
  <2>5. /\ TypesOK' /\ Talks' = Talks /\ Talks \subseteq Ids
        /\ \A j \in Ids \ Talks' : work'[j] = NewWork
    BY <1>1, <1>4, <2>3, <2>4, JobTypes DEF IInv
  <2>6. WorkOK'
    BY <1>3, <2>5, OrphansAreDetecting DEF IInv
  <2>7. DetectingIsCarried'
    <3> SUFFICES ASSUME NEW j \in Detecting' PROVE j \in orphaned' \/ Carried(j)'
      BY DEF DetectingIsCarried
    <3>1. j \in Detecting
      BY <1>1, <2>5 DEF Detecting
    <3>2. Carries(jobs[s], j) => Carries(jobs'[s], j)
      BY <1>1, <2>3, <1>2 DEF Carries
    <3> QED
      BY <1>3, <2>4, <3>1, <3>2, StillCarried DEF IInv
  <2>8. TalksOK'
    <3> SUFFICES ASSUME NEW j \in Talks \ mixed PROVE Apart(j)' /\ Bounds(j)' /\ Fits(j)'
      BY <1>1, <2>5 DEF TalksOK
    <3>1. CASE j = i
      <4>1. Within(Cut(work[i]), raw[i])
        BY <1>1, <1>2, <3>1 DEF IInv, TalksOK, Bounds, ToRead
      <4>2. ~ToRead(jobs'[s])
        BY <2>3 DEF ToRead
      <4>3. Fits(j)'
        BY <1>1, <3>1 DEF IInv, TalksOK, Fits
      <4> QED
        BY <1>1, <1>2, <2>3, <2>4, <3>1, <4>1, <4>2, <4>3, OwnTalk DEF IInv
    <3>2. CASE j # i
      <4>1. ~WorksOn(jobs'[s], j)
        BY <2>3, <3>2 DEF WorksOn
      <4> QED
        BY <1>5, <2>4, <4>1, OtherTalk DEF IInv
    <3> QED
      BY <3>1, <3>2
  <2> QED
    BY <2>5, <2>6, <2>7, <2>8 DEF IInv
<1> QED
  BY <1>6, <1>7

-------------------------------------------------------------------------------
(* job_ingest_room_url: the second session, and what it enqueues *)

\* job_ingest_room_url puts the recording in place for its talks.
LEMMA RoomJobAttachesKeeps ==
  ASSUME IInv, NEW s \in JobSlots, RoomJobAttaches(s),
         UNCHANGED <<scheduleVars, abort, mixed>>
  PROVE  IInv'
<1> DEFINE job == jobs[s]
           length == Length[job.rec]
           start == JobStart(job)
           here == Present(job)
           found == Matched(job)
           lost == Unmatched(job)
           new(i) == CutAt("detecting", talk[i].slot, start, length)
           table(i) == IF i \in found THEN new(i)
                       ELSE IF i \in lost
                       THEN [work[i] EXCEPT !.status = "waiting_for_files"] ELSE work[i]
           sends == [job EXCEPT !.phase = "sending", !.todo = found]
<1>1. /\ job.fn = "room" /\ job.phase = "loading" /\ here # {}
      /\ raw' = [i \in Ids |-> IF i \in found THEN job.rec ELSE raw[i]]
      /\ work' = [i \in Ids |-> table(i)]
      /\ jobs' = [jobs EXCEPT ![s] = IF found = {} THEN NoJob ELSE sends]
      /\ Orphan(job.claimed \ here)
      /\ UNCHANGED <<spare, attach>>
  BY DEF RoomJobAttaches
<1>2. /\ jobs \in [JobSlots -> Job] /\ job \in Job /\ JobOK(job)
      /\ job.rec \in Recordings /\ job.start \in Nat \cup {None}
      /\ job.claimed \subseteq job.ids /\ job.ids \subseteq Ids
      /\ work \in [Ids -> WorkRow] /\ raw \in [Ids -> Recordings \cup {None}]
  BY <1>1 DEF IInv, TypesOK, Job, JobOK
<1>3. /\ here \subseteq job.claimed /\ found \subseteq here /\ lost = here \ found
      /\ \A i \in here : i \in Talks /\ work[i].status = "detecting"
      /\ \A i \in found : Overlaps(talk[i].slot, start, length)
  BY DEF Present, Matched, Unmatched, InRoom
<1>4. length \in Nat \ {0}
  BY <1>2, LengthIs
<1>5. start \in Nat
  <2>1. \A i \in here : talk[i].slot \in Nat
    BY <1>3, TalkHas DEF IInv
  <2>2. {talk[i].slot : i \in here} \in SUBSET Nat /\ {talk[i].slot : i \in here} # {}
    BY <1>1, <2>1
  <2> QED
    BY <1>2, <2>2, StartIsNat DEF JobStart
<1> HIDE DEF start, length, here, found, lost
<1>6. ASSUME NEW i \in found
      PROVE  /\ new(i) \in WorkRow /\ new(i).status = "detecting"
             /\ Within(Cut(new(i)), job.rec)
  <2>1. talk[i].slot \in Nat
    BY <1>3, TalkHas DEF IInv
  <2> QED
    BY <1>2, <1>3, <1>5, <2>1, CutAtIs, StatusesAre DEF length
<1> HIDE DEF new
<1>7. ASSUME NEW i \in Ids
      PROVE  /\ work'[i] \in WorkRow
             /\ i \in found => work'[i] = new(i)
             /\ i \in lost => work'[i].status = "waiting_for_files" /\ Cut(work'[i]) = Cut(work[i])
             /\ i \notin here => work'[i] = work[i]
  <2>1. work'[i] = table(i) /\ work[i] \in WorkRow
    BY <1>1, <1>2
  <2> QED
    BY <1>3, <1>6, <2>1, MarkIs, StatusesAre
<1>8. work' \in [Ids -> WorkRow] /\ \A i \in Ids \ Talks : work'[i] = work[i]
  BY <1>1, <1>3, <1>7
<1>9. raw' \in [Ids -> Recordings \cup {None}]
      /\ \A i \in Ids : raw'[i] = IF i \in found THEN job.rec ELSE raw[i]
  BY <1>1, <1>2
<1> HIDE DEF table
<1>10. /\ jobs' \in [JobSlots -> Job] /\ JobOK(jobs'[s]) /\ OnlyJob(s)
       /\ \A i : WorksOn(jobs'[s], i) <=> i \in found
       /\ \A i \in found : Carries(jobs'[s], i)
       /\ jobs'[s].fn # "detect"
  <2>1. CASE found = {}
    <3>1. jobs'[s] = NoJob /\ jobs' \in [JobSlots -> Job]
          /\ \A t \in JobSlots \ {s} : jobs'[t] = jobs[t]
      BY <1>1, <1>2, <2>1, NoJobIsOK
    <3> QED
      BY <1>1, <2>1, <3>1, NoJobIsOK DEF OnlyJob
  <2>2. CASE found # {}
    <3>1. /\ sends \in Job /\ sends.fn = "room" /\ sends.phase = "sending"
          /\ sends.todo = found /\ sends.claimed = job.claimed /\ sends.ids = job.ids
          /\ sends.rec = job.rec
      BY <1>1, <1>2, <1>3 DEF Job
    <3> HIDE DEF sends
    <3>2. jobs'[s] = sends /\ jobs' \in [JobSlots -> Job]
          /\ \A t \in JobSlots \ {s} : jobs'[t] = jobs[t]
      BY <1>1, <1>2, <2>2, <3>1
    <3>3. JobOK(sends)
      BY <1>2, <1>3, <2>2, <3>1 DEF JobOK
    <3>4. /\ \A i : WorksOn(sends, i) <=> i \in found
          /\ \A i \in found : Carries(sends, i)
      BY <3>1 DEF WorksOn, Carries
    <3> QED
      BY <1>1, <3>1, <3>2, <3>3, <3>4 DEF OnlyJob
  <2> QED
    BY <2>1, <2>2
<1>11. /\ TypesOK' /\ Talks' = Talks /\ Talks \subseteq Ids
       /\ \A i \in Ids \ Talks' : work'[i] = NewWork
  BY <1>1, <1>8, <1>9, <1>10, JobTypes DEF IInv
<1>12. WorkOK'
  <2>1. job.claimed \ here \in SUBSET Ids
    BY <1>2
  <2> QED
    BY <1>1, <1>11, <2>1, OrphansAreDetecting DEF IInv
<1>13. DetectingIsCarried'
  <2> SUFFICES ASSUME NEW i \in Detecting' PROVE i \in orphaned' \/ Carried(i)'
    BY DEF DetectingIsCarried
  <2>1. i \in Talks /\ i \in Ids /\ work'[i].status = "detecting"
    BY <1>11 DEF Detecting
  <2>2. CASE i \in found
    BY <1>10, <2>2, CarriedNextIs
  <2>3. CASE i \notin found
    <3>1. i \notin here
      BY <1>3, <1>7, <2>1, <2>3
    <3>2. i \in Detecting
      BY <1>7, <2>1, <3>1 DEF Detecting
    <3>3. Carries(job, i) => i \in job.claimed \ here
      BY <1>1, <3>1 DEF Carries
    <3> QED
      BY <1>1, <1>10, <3>2, <3>3, StillCarried DEF IInv
  <2> QED
    BY <2>2, <2>3
<1>14. TalksOK'
  <2> SUFFICES ASSUME NEW i \in Talks \ mixed PROVE Apart(i)' /\ Bounds(i)' /\ Fits(i)'
    BY <1>1, <1>11 DEF TalksOK
  <2>1. i \in Ids
    BY <1>11
  <2>2. CASE i \in found
    <3>1. WorksOn(job, i)
      BY <1>1, <1>3, <2>2 DEF WorksOn
    <3>2. Within(Cut(work'[i]), raw'[i])
      BY <1>6, <1>7, <1>9, <2>1, <2>2
    <3>3. Fits(i)'
      BY <1>6, <1>7, <2>1, <2>2, UnreviewedFits
    <3> QED
      BY <1>10, <3>1, <3>2, <3>3, OwnTalk DEF IInv
  <2>3. CASE i \notin found
    <3>1. RowQuiet(i)
      BY <1>3, <1>7, <1>9, <2>1, <2>3 DEF RowQuiet
    <3> QED
      BY <1>10, <2>3, <3>1, OtherTalk DEF IInv
  <2> QED
    BY <2>2, <2>3
<1> QED
  BY <1>11, <1>12, <1>13, <1>14 DEF IInv

\* A talk that one slot, or none, works on after the step.
LEMMA OneHas ==
  ASSUME TypesOK', NEW i, ~Reserved(i)', NEW f \in JobSlots,
         \A t \in JobSlots : WorksOn(jobs'[t], i) => t = f,
         WorksOn(jobs'[f], i) =>
           /\ ToRead(jobs'[f]) => Within(Cut(work'[i]), raw'[i])
           /\ jobs'[f].fn = "detect" /\ jobs'[f].phase = "measuring" /\ jobs'[f].row =>
                Within(Cut(work'[i]), jobs'[f].rec)
  PROVE  Apart(i)' /\ Bounds(i)'
<1>1. Apart(i)'
  BY DEF Apart, WorksOn
<1>2. /\ ~(attach'.phase = "staging" /\ i \in attach'.staged)
      /\ ~(attach'.phase = "enqueuing" /\ i \in attach'.todo)
  BY DEF TypesOK, AttachOK, Reserved, FileMatched
<1>3. ASSUME NEW t \in JobSlots, WorksOn(jobs'[t], i)
      PROVE  /\ ToRead(jobs'[t]) => Within(Cut(work'[i]), raw'[i])
             /\ jobs'[t].fn = "detect" /\ jobs'[t].phase = "measuring" /\ jobs'[t].row =>
                  Within(Cut(work'[i]), jobs'[t].rec)
  BY <1>3
<1> QED
  BY <1>1, <1>2, <1>3 DEF Bounds, ToRead, WorksOn, Within

\* A talk that nobody but the request has after the step.
LEMMA AttachHas ==
  ASSUME NEW i, \A t \in JobSlots : ~WorksOn(jobs'[t], i),
         attach'.phase = "staging" /\ i \in attach'.staged => raw'[i] \in {None, attach'.rec},
         attach'.phase = "enqueuing" /\ i \in attach'.todo => Within(Cut(work'[i]), raw'[i])
  PROVE  Apart(i)' /\ Bounds(i)'
<1>1. Apart(i)'
  BY DEF Apart, WorksOn
<1>2. Bounds(i)'
  BY DEF Bounds, WorksOn, Within
<1> QED
  BY <1>1, <1>2

\* A step of jobs and request keeps the types.
LEMMA StepTypes ==
  ASSUME TypesOK, WorkOK, UNCHANGED <<scheduleVars, abort>>, AttachOK',
         jobs' \in [JobSlots -> Job], \A t \in JobSlots : JobOK(jobs'[t]),
         work' \in [Ids -> WorkRow], raw' \in [Ids -> Recordings \cup {None}],
         spare' \in [Ids -> Recordings \cup {None}],
         \A i \in Ids \ Talks : work'[i] = work[i]
  PROVE  /\ TypesOK' /\ Talks' = Talks /\ Talks \subseteq Ids
         /\ \A i \in Ids \ Talks' : work'[i] = NewWork
<1>1. ScheduleInv' /\ Talks' = Talks
  BY SameSchedule DEF TypesOK
<1>2. AbortOK'
  BY DEF TypesOK, AbortOK
<1> QED
  BY <1>1, <1>2 DEF TypesOK, WorkOK, Talks

\* A new job, in a slot that was free.
LEMMA EnqueuedIs ==
  ASSUME NEW table \in [JobSlots -> Job], \A t \in JobSlots : JobOK(table[t]),
         NEW job \in Job, JobOK(job), \E t \in JobSlots : table[t].fn = "none",
         jobs' = Enqueued(table, job)
  PROVE  \E f \in JobSlots :
           /\ table[f].fn = "none"
           /\ jobs'[f] = job /\ \A t \in JobSlots \ {f} : jobs'[t] = table[t]
           /\ jobs' \in [JobSlots -> Job] /\ \A t \in JobSlots : JobOK(jobs'[t])
<1>1. PICK f \in JobSlots : table[f].fn = "none" /\ jobs' = [table EXCEPT ![f] = job]
  BY EnqueuedTakesFree
<1> QED
  BY <1>1

\* A job_detect that is enqueued carries its talk, and no other.
LEMMA DetectJobDoes ==
  ASSUME NEW i \in Ids, NEW start \in Nat \cup {None}
  PROVE  LET new == DetectJob(i, start)
         IN  /\ new \in Job /\ JobOK(new) /\ new.fn = "detect" /\ new.phase = "queued"
             /\ WorksOn(new, i) /\ ToRead(new) /\ Carries(new, i)
             /\ \A j : WorksOn(new, j) => j = i
<1> DEFINE new == DetectJob(i, start)
<1>1. /\ new \in Job /\ JobOK(new) /\ new.fn = "detect" /\ new.phase = "queued"
      /\ new.ids = {i}
  BY DetectJobIs
<1> HIDE DEF new
<1>2. /\ WorksOn(new, i) /\ ToRead(new) /\ Carries(new, i)
      /\ \A j : WorksOn(new, j) => j = i
  BY <1>1 DEF WorksOn, ToRead, Carries
<1> QED
  BY <1>1, <1>2 DEF new

\* job_ingest_room_url enqueues the job_detect of a talk.
LEMMA RoomJobEnqueuesKeeps ==
  ASSUME IInv, NEW s \in JobSlots, RoomJobEnqueues(s),
         UNCHANGED <<scheduleVars, abort, mixed>>
  PROVE  IInv'
<1> DEFINE job == jobs[s]
           i == FirstOf(job.todo)
           kept == [job EXCEPT !.todo = @ \ {i}, !.claimed = @ \ {i}]
           rest == IF job.todo = {i} THEN NoJob ELSE kept
           table == [jobs EXCEPT ![s] = rest]
           new == DetectJob(i, None)
<1>1. /\ job.fn = "room" /\ job.phase = "sending"
      /\ job.todo = {i} \/ \E t \in JobSlots : jobs[t].fn = "none"
      /\ jobs' = Enqueued(table, new)
      /\ orphaned' = orphaned \ {i}
      /\ UNCHANGED <<work, raw, spare, attach>>
  BY DEF RoomJobEnqueues, FreeSlots
<1>2. /\ jobs \in [JobSlots -> Job] /\ job \in Job /\ JobOK(job)
      /\ \A t \in JobSlots : JobOK(jobs[t])
      /\ job.todo \subseteq job.claimed /\ job.todo # {} /\ job.claimed \subseteq job.ids
      /\ job.ids \subseteq Ids /\ job.rec \in Recordings
  BY <1>1 DEF IInv, TypesOK, JobOK, Job
<1>3. i \in job.todo /\ i \in Ids /\ WorksOn(job, i)
  <2>1. job.todo \in SUBSET Ids
    BY <1>2
  <2> QED
    BY <1>1, <1>2, <2>1, FirstIsIn DEF WorksOn
<1> HIDE DEF i
<1>4. /\ new \in Job /\ JobOK(new) /\ new.fn = "detect" /\ new.phase = "queued"
      /\ WorksOn(new, i) /\ ToRead(new) /\ Carries(new, i)
      /\ \A j : WorksOn(new, j) => j = i
  BY <1>3, DetectJobDoes
<1> HIDE DEF new
<1>5. /\ rest \in Job /\ JobOK(rest) /\ ~WorksOn(rest, i)
      /\ \A j : WorksOn(rest, j) => /\ WorksOn(job, j) /\ rest.fn = job.fn
                                    /\ rest.phase = job.phase
                                    /\ rest.rec = job.rec /\ rest.row = job.row
      /\ \A j : j # i /\ Carries(job, j) => Carries(rest, j)
      /\ rest.fn = "none" \/ \E t \in JobSlots : jobs[t].fn = "none"
  <2>1. CASE job.todo = {i}
    BY <1>1, <2>1, NoJobIsOK DEF Carries
  <2>2. CASE job.todo # {i}
    <3>1. /\ kept \in Job /\ kept.fn = "room" /\ kept.phase = "sending"
          /\ kept.todo = job.todo \ {i} /\ kept.claimed = job.claimed \ {i}
          /\ kept.ids = job.ids /\ kept.rec = job.rec /\ kept.row = job.row
      BY <1>1, <1>2 DEF Job
    <3>2. rest = kept
      BY <2>2
    <3> HIDE DEF kept, rest
    <3>3. kept.todo # {}
      BY <1>3, <2>2, <3>1
    <3> QED
      BY <1>1, <1>2, <2>2, <3>1, <3>2, <3>3 DEF JobOK, WorksOn, Carries
  <2> QED
    BY <2>1, <2>2
<1> HIDE DEF rest
<1>6. /\ table \in [JobSlots -> Job] /\ \A t \in JobSlots : JobOK(table[t])
      /\ table[s] = rest /\ \A t \in JobSlots \ {s} : table[t] = jobs[t]
      /\ \E t \in JobSlots : table[t].fn = "none"
  BY <1>1, <1>2, <1>5
<1> HIDE DEF table
<1>7. PICK f \in JobSlots :
        /\ table[f].fn = "none"
        /\ jobs'[f] = new /\ \A t \in JobSlots \ {f} : jobs'[t] = table[t]
        /\ jobs' \in [JobSlots -> Job] /\ \A t \in JobSlots : JobOK(jobs'[t])
  BY <1>1, <1>4, <1>6, EnqueuedIs
<1>8. /\ TypesOK' /\ Talks' = Talks /\ Talks \subseteq Ids
      /\ \A j \in Ids \ Talks' : work'[j] = NewWork
  <2>1. AttachOK'
    BY <1>1, AttachSame DEF IInv, TypesOK
  <2> QED
    BY <1>1, <1>7, <2>1, StepTypes DEF IInv, TypesOK
<1>9. WorkOK'
  BY <1>1, <1>8 DEF IInv, WorkOK, Detecting
<1>10. DetectingIsCarried'
  <2> SUFFICES ASSUME NEW j \in Detecting' PROVE j \in orphaned' \/ Carried(j)'
    BY DEF DetectingIsCarried
  <2>1. j \in Detecting
    BY <1>1, <1>8 DEF Detecting
  <2>2. CASE j = i
    BY <1>4, <1>7, <2>2, CarriedNextIs
  <2>3. CASE j # i
    <3>1. ASSUME NEW t \in JobSlots, Carries(jobs[t], j) PROVE Carried(j)'
      <4>1. Carries(table[t], j)
        BY <1>5, <1>6, <2>3, <3>1
      <4>2. t # f
        BY <1>7, <4>1 DEF Carries
      <4> QED
        BY <1>7, <4>1, <4>2, CarriedNextIs
    <3>2. AttachCarries(j) => Carried(j)'
      BY <1>1, AttachSame, CarriedNextIs
    <3>3. j \in orphaned => j \in orphaned'
      BY <1>1, <2>3
    <3> QED
      BY <2>1, <3>1, <3>2, <3>3, CarriedIs DEF IInv, DetectingIsCarried
  <2> QED
    BY <2>2, <2>3
<1>11. TalksOK'
  <2> SUFFICES ASSUME NEW j \in Talks \ mixed PROVE Apart(j)' /\ Bounds(j)' /\ Fits(j)'
    BY <1>8 DEF TalksOK
  <2>1. Apart(j) /\ Bounds(j) /\ Fits(j)
    BY DEF IInv, TalksOK
  <2>2. CASE j = i
    <3>1. Within(Cut(work[j]), raw[j]) /\ ~Reserved(j) /\ \A t \in JobSlots \ {s} : ~WorksOn(jobs[t], j)
      BY <1>1, <1>3, <2>1, <2>2 DEF Bounds, Apart, ToRead
    <3>2. ~Reserved(j)'
      BY <1>1, <3>1, AttachSame
    <3>3. \A t \in JobSlots : WorksOn(jobs'[t], j) => t = f
      BY <1>5, <1>6, <1>7, <2>2, <3>1
    <3>4. Fits(j)'
      BY <1>1, <2>1 DEF Fits
    <3> QED
      BY <1>1, <1>4, <1>7, <1>8, <3>1, <3>2, <3>3, <3>4, OneHas
  <2>3. CASE j # i
    <3>1. JobsQuiet(j)
      BY <1>4, <1>5, <1>6, <1>7, <2>3 DEF JobsQuiet
    <3>2. RowQuiet(j)
      BY <1>1 DEF RowQuiet
    <3> QED
      BY <1>1, <3>1, <3>2, QuietTalk DEF IInv
  <2> QED
    BY <2>2, <2>3
<1> QED
  BY <1>8, <1>9, <1>10, <1>11 DEF IInv

-------------------------------------------------------------------------------
(* Steps of attach_room_recording *)

\* A talk being detected stays carried, or is one of those the step orphans.
LEMMA CarriedOn ==
  ASSUME DetectingIsCarried, NEW S, Orphan(S), NEW i \in Detecting', i \in Ids,
         \/ i \in S
         \/ /\ i \in Detecting
            /\ \A t \in JobSlots : Carries(jobs[t], i) => Carried(i)'
            /\ AttachCarries(i) => Carried(i)'
  PROVE  i \in orphaned' \/ Carried(i)'
<1>1. CASE i \in orphaned \cup S
  BY <1>1 DEF Orphan, Detecting
<1>2. CASE i \notin orphaned \cup S
  BY <1>2, CarriedIs DEF DetectingIsCarried
<1> QED
  BY <1>1, <1>2

\* Where nothing is said of the history, nobody has lost anything.
LEMMA NobodyIsOrphaned ==
  ASSUME WorkOK, UNCHANGED <<work, orphaned>>
  PROVE  Orphan({})
BY DEF Orphan, WorkOK, Detecting

\* The rows the request has read.
LEMMA SeenAre ==
  ASSUME AttachOK
  PROVE  /\ Mine \in SUBSET Ids
         /\ \A i \in Mine : /\ attach.seen[i].work \in WorkRow
                            /\ attach.seen[i].work.status \in Eligible
                            /\ attach.seen[i].slot \in Nat
<1>1. attach.seen \in Loaded
  BY DEF AttachOK, Attach
<1>2. PICK S \in SUBSET Ids : attach.seen \in [S -> Seen]
  BY <1>1 DEF Loaded
<1>3. ASSUME NEW i \in Mine
      PROVE attach.seen[i].work \in WorkRow /\ attach.seen[i].slot \in Nat
  BY <1>2, IdsAssumption DEF Mine, Seen
<1> QED
  BY <1>2, <1>3 DEF Mine, AttachOK

\* A request that has ended reserves and carries nothing.
LEMMA AttachIsOver ==
  ASSUME AttachEnds
  PROVE  /\ AttachOK' /\ attach'.phase = "idle"
         /\ \A i : ~Reserved(i)' /\ ~AttachCarries(i)'
<1>1. attach' = NoAttach
  BY DEF AttachEnds
<1>2. attach'.phase = "idle" /\ Mine' = {} /\ attach' \in Attach
  BY <1>1, NoAttachIs DEF Mine
<1> QED
  BY <1>2 DEF AttachOK, Reserved, AttachCarries

\* The request ends.  The talks it would have enqueued say "detecting" no longer.
LEMMA AttachEndsKeeps ==
  ASSUME IInv, AttachEnds, UNCHANGED <<scheduleVars, abort, mixed, jobs>>,
         NEW S \in SUBSET Ids, Orphan(S), work' \in [Ids -> WorkRow],
         raw' \in [Ids -> Recordings \cup {None}],
         spare' \in [Ids -> Recordings \cup {None}],
         \A i \in Ids \ Talks : work'[i] = work[i],
         \A i \in Talks : work'[i].status = "detecting" =>
           i \in S \/ (i \in Detecting /\ ~AttachCarries(i)),
         \A i \in Talks \ mixed : RowQuiet(i) \/ (Reserved(i) /\ Fits(i)')
  PROVE  IInv'
<1>1. /\ AttachOK' /\ attach'.phase = "idle"
      /\ \A i : ~Reserved(i)' /\ ~AttachCarries(i)'
  BY AttachIsOver
<1>2. jobs' \in [JobSlots -> Job] /\ \A t \in JobSlots : JobOK(jobs'[t])
  BY DEF IInv, TypesOK
<1>3. /\ TypesOK' /\ Talks' = Talks /\ Talks \subseteq Ids
      /\ \A i \in Ids \ Talks' : work'[i] = NewWork
  BY <1>1, <1>2, StepTypes DEF IInv
<1>4. WorkOK'
  BY <1>3, OrphansAreDetecting DEF IInv
<1>5. DetectingIsCarried'
  <2> SUFFICES ASSUME NEW i \in Detecting' PROVE i \in orphaned' \/ Carried(i)'
    BY DEF DetectingIsCarried
  <2>1. i \in Talks /\ i \in Ids /\ work'[i].status = "detecting"
    BY <1>3 DEF Detecting
  <2>2. i \in S \/ (i \in Detecting /\ ~AttachCarries(i))
    BY <2>1
  <2>3. \A t \in JobSlots : Carries(jobs[t], i) => Carried(i)'
    BY CarriedNextIs
  <2> QED
    BY <2>1, <2>2, <2>3, CarriedOn DEF IInv
<1>6. TalksOK'
  <2> SUFFICES ASSUME NEW i \in Talks \ mixed PROVE Apart(i)' /\ Bounds(i)' /\ Fits(i)'
    BY <1>3 DEF TalksOK
  <2>1. CASE RowQuiet(i)
    <3>1. JobsQuiet(i)
      BY DEF JobsQuiet
    <3> QED
      BY <1>1, <2>1, <3>1, QuietAttach DEF IInv
  <2>2. CASE Reserved(i) /\ Fits(i)'
    <3>1. \A t \in JobSlots : ~WorksOn(jobs'[t], i)
      BY <2>2 DEF IInv, TalksOK, Apart
    <3> QED
      BY <1>1, <2>2, <3>1, AttachHas
  <2> QED
    BY <2>1, <2>2
<1> QED
  BY <1>3, <1>4, <1>5, <1>6 DEF IInv

\* The web process dies during the request.
LEMMA AttachDiesKeeps ==
  ASSUME IInv, AttachDies, UNCHANGED <<scheduleVars, abort, mixed>>
  PROVE  IInv'
<1> DEFINE S == IF attach.phase \in {"sending", "enqueuing"} THEN Mine ELSE {}
<1>1. AttachEnds /\ Orphan(S) /\ UNCHANGED <<work, raw, spare, jobs>>
  BY DEF AttachDies
<1>2. S \in SUBSET Ids
  BY SeenAre DEF IInv, TypesOK
<1>3. \A i : AttachCarries(i) => i \in S
  BY DEF AttachCarries, IInv, TypesOK, AttachOK, FileMatched
<1> HIDE DEF S
<1>4. /\ work' \in [Ids -> WorkRow] /\ raw' \in [Ids -> Recordings \cup {None}]
      /\ spare' \in [Ids -> Recordings \cup {None}]
  BY <1>1 DEF IInv, TypesOK
<1>5. \A i \in Talks : work'[i].status = "detecting" => i \in Detecting
  BY <1>1 DEF Detecting
<1>6. \A i \in Talks \ mixed : RowQuiet(i)
  BY <1>1 DEF RowQuiet
<1> QED
  BY <1>1, <1>2, <1>3, <1>4, <1>5, <1>6, AttachEndsKeeps

\* attach by file: the recording overlaps with no talk.
LEMMA FileRejectedKeeps ==
  ASSUME IInv, FileRejected, UNCHANGED <<scheduleVars, abort, mixed>>
  PROVE  IInv'
<1>1. attach.phase = "read" /\ AttachEnds /\ UNCHANGED <<work, raw, spare, jobs, orphaned>>
  BY DEF FileRejected
<1>2. Orphan({})
  BY <1>1, NobodyIsOrphaned DEF IInv
<1>3. /\ work' \in [Ids -> WorkRow] /\ raw' \in [Ids -> Recordings \cup {None}]
      /\ spare' \in [Ids -> Recordings \cup {None}]
  BY <1>1 DEF IInv, TypesOK
<1>4. \A i \in Talks : work'[i].status = "detecting" => i \in Detecting /\ ~AttachCarries(i)
  BY <1>1 DEF Detecting, AttachCarries
<1>5. \A i \in Talks \ mixed : RowQuiet(i)
  BY <1>1 DEF RowQuiet
<1> QED
  BY <1>1, <1>2, <1>3, <1>4, <1>5, AttachEndsKeeps

\* Redis refuses a job_detect, and the talks left are broken.
LEMMA FileRefusedKeeps ==
  ASSUME IInv, FileRefused, UNCHANGED <<scheduleVars, abort, mixed>>
  PROVE  IInv'
<1> DEFINE M == attach.todo \cap Detecting
<1>1. /\ attach.phase = "enqueuing" /\ Marked(M, "broken") /\ AttachEnds /\ Orphan({})
      /\ UNCHANGED <<raw, spare, jobs>>
  BY DEF FileRefused
<1>2. /\ work' \in [Ids -> WorkRow]
      /\ \A i \in Ids : /\ Cut(work'[i]) = Cut(work[i])
                        /\ i \in M => work'[i].status = "broken"
                        /\ i \notin M => work'[i] = work[i]
  BY <1>1, MarksAre, StatusesAre DEF IInv, TypesOK
<1>3. /\ raw' \in [Ids -> Recordings \cup {None}] /\ spare' \in [Ids -> Recordings \cup {None}]
      /\ \A i \in Ids \ Talks : work'[i] = work[i]
  BY <1>1, <1>2 DEF IInv, TypesOK, Detecting
<1>4. ASSUME NEW i \in Talks, work'[i].status = "detecting"
      PROVE  i \in Detecting /\ ~AttachCarries(i)
  BY <1>1, <1>2, <1>4 DEF Detecting, AttachCarries, Talks
<1>5. \A i \in Talks \ mixed : RowQuiet(i)
  BY <1>1, <1>2 DEF RowQuiet, Talks
<1> QED
  BY <1>1, <1>2, <1>3, <1>4, <1>5, AttachEndsKeeps

\* Staging fails, and the backups are put back.
LEMMA FileFailsKeeps ==
  ASSUME IInv, FileFails, UNCHANGED <<scheduleVars, abort, mixed>>
  PROVE  IInv'
<1>1. /\ attach.phase = "staging" /\ AttachEnds /\ UNCHANGED <<work, jobs, orphaned>>
      /\ raw' = [i \in Ids |->
           IF i \notin attach.staged THEN raw[i]
           ELSE IF i \notin attach.backed THEN None
           ELSE IF spare[i] # None THEN spare[i] ELSE raw[i]]
      /\ spare' = [i \in Ids |-> IF i \in attach.backed THEN None ELSE spare[i]]
  BY DEF FileFails
<1>2. Orphan({})
  BY <1>1, NobodyIsOrphaned DEF IInv
<1>3. /\ work' \in [Ids -> WorkRow] /\ raw \in [Ids -> Recordings \cup {None}]
      /\ spare \in [Ids -> Recordings \cup {None}]
  BY <1>1 DEF IInv, TypesOK
<1>4. raw' \in [Ids -> Recordings \cup {None}] /\ spare' \in [Ids -> Recordings \cup {None}]
  BY <1>1, <1>3
<1>5. \A i \in Talks : work'[i].status = "detecting" => i \in Detecting /\ ~AttachCarries(i)
  BY <1>1 DEF Detecting, AttachCarries
<1>6. ASSUME NEW i \in Talks \ mixed PROVE RowQuiet(i) \/ (Reserved(i) /\ Fits(i)')
  <2>1. CASE i \in attach.staged
    <3>1. Reserved(i)
      BY <1>1, <2>1 DEF Reserved, IInv, TypesOK, AttachOK, FileMatched
    <3>2. Fits(i)'
      BY <1>1 DEF IInv, TalksOK, Fits
    <3> QED
      BY <3>1, <3>2
  <2>2. CASE i \notin attach.staged
    BY <1>1, <2>2 DEF RowQuiet, Talks
  <2> QED
    BY <2>1, <2>2
<1> QED
  BY <1>1, <1>2, <1>3, <1>4, <1>5, <1>6, AttachEndsKeeps

\* attach by URL: Redis refuses the job, and the statuses are put back.
LEMMA UrlRefusedKeeps ==
  ASSUME IInv, UrlRefused, UNCHANGED <<scheduleVars, abort, mixed>>
  PROVE  IInv'
<1>1. /\ attach.phase = "sending" /\ AttachEnds /\ Orphan(Mine)
      /\ work' = IF Mine \subseteq Talks
                 THEN [i \in Ids |-> IF i \in Mine
                         THEN [work[i] EXCEPT !.status = attach.seen[i].work.status]
                         ELSE work[i]]
                 ELSE work
      /\ UNCHANGED <<raw, spare, jobs>>
  BY DEF UrlRefused
<1>2. /\ Mine \in SUBSET Ids /\ \A i \in Mine : attach.seen[i].work.status \in Eligible
      /\ work \in [Ids -> WorkRow]
  BY SeenAre DEF IInv, TypesOK
<1>3. ASSUME NEW i \in Ids
      PROVE  /\ work'[i] \in WorkRow /\ Cut(work'[i]) = Cut(work[i])
             /\ work'[i] # work[i] =>
                  i \in Mine \cap Talks /\ work'[i].status # "pending_approval"
  <2>1. CASE Mine \subseteq Talks /\ i \in Mine
    <3>1. work'[i] = [work[i] EXCEPT !.status = attach.seen[i].work.status]
      BY <1>1, <2>1
    <3>2. attach.seen[i].work.status \in Eligible
      BY <1>2, <2>1
    <3> QED
      BY <1>2, <2>1, <3>1, <3>2, MarkIs, StatusesAre
  <2>2. CASE ~(Mine \subseteq Talks /\ i \in Mine)
    BY <1>1, <1>2, <2>2
  <2> QED
    BY <2>1, <2>2
<1>4. /\ work' \in [Ids -> WorkRow] /\ \A i \in Ids \ Talks : work'[i] = work[i]
      /\ raw' \in [Ids -> Recordings \cup {None}] /\ spare' \in [Ids -> Recordings \cup {None}]
  <2>1. DOMAIN work' = Ids /\ work' = [i \in Ids |-> work'[i]]
    BY <1>1, <1>2
  <2> QED
    BY <1>1, <1>3, <2>1 DEF IInv, TypesOK
<1>5. ASSUME NEW i \in Talks, work'[i].status = "detecting"
      PROVE  i \in Mine \/ (i \in Detecting /\ ~AttachCarries(i))
  BY <1>1, <1>3, <1>5 DEF Detecting, AttachCarries, Talks
<1>6. \A i \in Talks \ mixed : RowQuiet(i)
  BY <1>1, <1>3 DEF RowQuiet, Talks
<1> QED
  BY <1>1, <1>2, <1>4, <1>5, <1>6, AttachEndsKeeps

\* A step that keeps the talks keeps the invariant if it keeps it talk by talk.
LEMMA TalksStepKeeps ==
  ASSUME IInv, ScheduleInv', Talks' = Talks, AttachOK', AbortOK',
         jobs' \in [JobSlots -> Job], \A t \in JobSlots : JobOK(jobs'[t]),
         work' \in [Ids -> WorkRow], raw' \in [Ids -> Recordings \cup {None}],
         spare' \in [Ids -> Recordings \cup {None}],
         NEW S \in SUBSET Ids, Orphan(S),
         \A i \in Ids \ Talks : work'[i] = work[i],
         \A i \in Talks : work'[i].status = "detecting" =>
           \/ i \in S \/ Carried(i)'
           \/ /\ i \in Detecting /\ (AttachCarries(i) => Carried(i)')
              /\ \A t \in JobSlots : Carries(jobs[t], i) => Carried(i)',
         \A i \in Talks \ mixed' : Apart(i)' /\ Bounds(i)' /\ Fits(i)'
  PROVE  IInv'
<1>1. Talks \subseteq Ids
  BY DEF Talks
<1>2. TypesOK'
  BY <1>1 DEF IInv, TypesOK, AbortOK
<1>3. WorkOK'
  BY <1>1, OrphansAreDetecting DEF IInv, WorkOK
<1>4. DetectingIsCarried'
  <2> SUFFICES ASSUME NEW i \in Detecting' PROVE i \in orphaned' \/ Carried(i)'
    BY DEF DetectingIsCarried
  <2>1. i \in Talks /\ i \in Ids /\ work'[i].status = "detecting"
    BY <1>1 DEF Detecting
  <2> QED
    BY <2>1, CarriedOn DEF IInv
<1>5. TalksOK'
  BY <1>1 DEF TalksOK
<1> QED
  BY <1>2, <1>3, <1>4, <1>5 DEF IInv

\* The shape of a step outside the schedule: it orphans the talks of S, and what is left to show.
LEMMA StepKeeps ==
  ASSUME IInv, UNCHANGED scheduleVars, AttachOK', AbortOK',
         jobs' \in [JobSlots -> Job], \A t \in JobSlots : JobOK(jobs'[t]),
         work' \in [Ids -> WorkRow], raw' \in [Ids -> Recordings \cup {None}],
         spare' \in [Ids -> Recordings \cup {None}],
         NEW S \in SUBSET Ids, Orphan(S),
         \A i \in Ids \ Talks : work'[i] = work[i],
         \A i \in Talks : work'[i].status = "detecting" =>
           \/ i \in S \/ Carried(i)'
           \/ /\ i \in Detecting /\ (AttachCarries(i) => Carried(i)')
              /\ \A t \in JobSlots : Carries(jobs[t], i) => Carried(i)',
         \A i \in Talks \ mixed' : Apart(i)' /\ Bounds(i)' /\ Fits(i)'
  PROVE  IInv'
<1>1. ScheduleInv' /\ Talks' = Talks
  BY SameSchedule DEF IInv, TypesOK
<1> QED
  BY <1>1, TalksStepKeeps

\* Jobs that make no step.
LEMMA SameJobs ==
  ASSUME TypesOK, UNCHANGED jobs
  PROVE  /\ jobs' \in [JobSlots -> Job] /\ \A t \in JobSlots : JobOK(jobs'[t])
         /\ \A i : JobsQuiet(i)
         /\ \A i : \A t \in JobSlots : Carries(jobs[t], i) => Carried(i)'
<1>1. \A i : \A t \in JobSlots : Carries(jobs[t], i) => Carried(i)'
  BY CarriedNextIs
<1> QED
  BY <1>1 DEF TypesOK, JobsQuiet

\* An abort that makes no step.
LEMMA SameAbort ==
  ASSUME TypesOK, UNCHANGED abort
  PROVE  AbortOK'
BY DEF TypesOK, AbortOK

\* attach by URL marks the talks as being detected.
LEMMA UrlMarksKeeps ==
  ASSUME IInv, UrlMarks, UNCHANGED <<scheduleVars, abort, mixed>>
  PROVE  IInv'
<1> DEFINE M == Mine \ SeenDetecting(Mine)
<1>1. attach.phase = "marking" /\ Orphan({}) /\ UNCHANGED <<raw, spare, jobs>>
  BY DEF UrlMarks
<1>2. /\ raw' \in [Ids -> Recordings \cup {None}] /\ spare' \in [Ids -> Recordings \cup {None}]
      /\ work \in [Ids -> WorkRow] /\ AttachOK
  BY <1>1 DEF IInv, TypesOK
<1>3. CASE M \subseteq Talks
  <2>1. Marked(M, "detecting") /\ attach' = [attach EXCEPT !.phase = "sending"]
    BY <1>3 DEF UrlMarks
  <2>2. /\ work' \in [Ids -> WorkRow]
        /\ \A i \in Ids : /\ Cut(work'[i]) = Cut(work[i])
                          /\ i \in M => work'[i].status = "detecting"
                          /\ i \notin M => work'[i] = work[i]
    BY <1>2, <2>1, MarksAre, StatusesAre
  <2>3. /\ attach' \in Attach /\ attach'.phase = "sending" /\ attach'.seen = attach.seen
        /\ attach'.rec = attach.rec
    BY <1>2, <2>1 DEF AttachOK, Attach
  <2>4. AttachOK' /\ Mine' = Mine
    BY <1>1, <1>2, <2>3 DEF AttachOK, Mine
  <2>5. ASSUME NEW i \in Talks, work'[i].status = "detecting"
        PROVE  \/ Carried(i)'
               \/ /\ i \in Detecting /\ (AttachCarries(i) => Carried(i)')
                  /\ \A t \in JobSlots : Carries(jobs[t], i) => Carried(i)'
    <3>1. CASE i \in M
      BY <2>3, <2>4, <3>1, CarriedNextIs DEF AttachCarries
    <3>2. CASE i \notin M
      <4>1. i \in Detecting
        BY <2>2, <2>5, <3>2 DEF Detecting, Talks
      <4>2. ~AttachCarries(i)
        BY <1>1 DEF AttachCarries
      <4>3. \A t \in JobSlots : Carries(jobs[t], i) => Carried(i)'
        BY <1>1, SameJobs DEF IInv
      <4> QED
        BY <4>1, <4>2, <4>3
    <3> QED
      BY <3>1, <3>2
  <2>6. ASSUME NEW i \in Talks \ mixed PROVE Apart(i)' /\ Bounds(i)' /\ Fits(i)'
    <3>1. JobsQuiet(i)
      BY <1>1, SameJobs DEF IInv
    <3>2. RowQuiet(i)
      BY <1>1, <2>2 DEF RowQuiet, Talks
    <3>3. Reserved(i)' => Reserved(i)
      BY <1>1, <2>3, <2>4 DEF Reserved
    <3> QED
      BY <2>3, <3>1, <3>2, <3>3, QuietAttach DEF IInv
  <2>7. AbortOK' /\ jobs' \in [JobSlots -> Job] /\ \A t \in JobSlots : JobOK(jobs'[t])
    BY <1>1, SameAbort, SameJobs DEF IInv
  <2>8. \A i \in Ids \ Talks : work'[i] = work[i]
    BY <1>3, <2>2
  <2> QED
    BY <1>1, <1>2, <2>2, <2>4, <2>5, <2>6, <2>7, <2>8, StepKeeps
<1>4. CASE ~(M \subseteq Talks)
  <2>1. UNCHANGED work /\ AttachEnds
    BY <1>4 DEF UrlMarks
  <2>2. work' \in [Ids -> WorkRow] /\ \A i \in Ids \ Talks : work'[i] = work[i]
    BY <1>2, <2>1
  <2>3. \A i \in Talks : work'[i].status = "detecting" => i \in Detecting /\ ~AttachCarries(i)
    BY <1>1, <2>1 DEF Detecting, AttachCarries
  <2>4. \A i \in Talks \ mixed : RowQuiet(i)
    BY <1>1, <2>1 DEF RowQuiet
  <2> QED
    BY <1>1, <1>2, <2>1, <2>2, <2>3, <2>4, AttachEndsKeeps
<1> QED
  BY <1>3, <1>4

\* What the request attaches, and to which talks, depends on what it has read.
LEMMA MatchedSame ==
  ASSUME attach'.seen = attach.seen, attach'.rec = attach.rec,
         attach'.start = attach.start
  PROVE  /\ Mine' = Mine /\ FileStart' = FileStart /\ FileMatched' = FileMatched
         /\ \A i : FileRow(i)' = FileRow(i)
<1>1. Mine' = Mine
  BY DEF Mine
<1>2. FileStart' = FileStart
  BY <1>1 DEF FileStart
<1>3. FileMatched' = FileMatched
  BY <1>1, <1>2 DEF FileMatched
<1>4. \A i : FileRow(i)' = FileRow(i)
  BY <1>2 DEF FileRow
<1> QED
  BY <1>1, <1>2, <1>3, <1>4

\* The talks that lose a job when the jobs of S are cancelled.
Losing(S) == S \cup UNION {jobs[s].ids : s \in JobsOf(S)}

\* _cancel_talk_jobs for the talks of S: jobs lose work, files only disappear.
LEMMA CancelIs ==
  ASSUME TypesOK, NEW S \in SUBSET Ids, NEW wipe \in BOOLEAN, Cancel(S, wipe)
  PROVE  /\ jobs' \in [JobSlots -> Job] /\ \A t \in JobSlots : JobOK(jobs'[t])
         /\ raw' \in [Ids -> Recordings \cup {None}] /\ spare' \in [Ids -> Recordings \cup {None}]
         /\ \A i \in Ids : raw'[i] \in {raw[i], None}
         /\ ~wipe => UNCHANGED <<raw, spare>>
         /\ \A i : JobsQuiet(i)
         /\ \A i \in S : \A t \in JobSlots : ~WorksOn(jobs'[t], i)
         /\ Losing(S) \in SUBSET Ids /\ S \subseteq Losing(S) /\ Orphan(Losing(S))
         /\ \A i : i \notin Losing(S) =>
              \A t \in JobSlots : Carries(jobs[t], i) => Carries(jobs'[t], i)
<1>1. /\ jobs' = [s \in JobSlots |-> IF s \in JobsOf(S) THEN NoJob ELSE jobs[s]]
      /\ raw' = [i \in Ids |-> IF wipe /\ i \in S THEN None ELSE raw[i]]
      /\ spare' = [i \in Ids |-> IF wipe /\ i \in S THEN None ELSE spare[i]]
      /\ Orphan(Losing(S))
  BY DEF Cancel, Losing
<1>2. /\ jobs \in [JobSlots -> Job] /\ \A t \in JobSlots : JobOK(jobs[t])
      /\ raw \in [Ids -> Recordings \cup {None}] /\ spare \in [Ids -> Recordings \cup {None}]
      /\ \A t \in JobSlots : jobs[t].ids \subseteq Ids
  BY DEF TypesOK, Job
<1>3. /\ jobs' \in [JobSlots -> Job] /\ \A t \in JobSlots : JobOK(jobs'[t])
      /\ \A t \in JobSlots : jobs'[t] = NoJob \/ (t \notin JobsOf(S) /\ jobs'[t] = jobs[t])
  BY <1>1, <1>2, NoJobIsOK
<1>4. /\ raw' \in [Ids -> Recordings \cup {None}] /\ spare' \in [Ids -> Recordings \cup {None}]
      /\ \A i \in Ids : raw'[i] \in {raw[i], None}
      /\ ~wipe => UNCHANGED <<raw, spare>>
  BY <1>1, <1>2
<1>5. \A i : JobsQuiet(i)
  BY <1>3, NoJobIsOK DEF JobsQuiet
<1>6. ASSUME NEW i \in S, NEW t \in JobSlots, WorksOn(jobs'[t], i) PROVE FALSE
  <2>1. t \notin JobsOf(S) /\ jobs'[t] = jobs[t]
    BY <1>3, <1>6, NoJobIsOK
  <2>2. i \in jobs[t].ids
    BY <1>2, <1>6, <2>1, WorkersHave
  <2> QED
    BY <2>1, <2>2 DEF JobsOf
<1>7. Losing(S) \in SUBSET Ids /\ S \subseteq Losing(S)
  BY <1>2 DEF Losing, JobsOf
<1>8. ASSUME NEW i, i \notin Losing(S), NEW t \in JobSlots, Carries(jobs[t], i)
      PROVE  Carries(jobs'[t], i)
  <2>1. i \in jobs[t].ids
    BY <1>2, <1>8, CarriersWork
  <2>2. t \notin JobsOf(S)
    BY <1>8, <2>1 DEF Losing
  <2> QED
    BY <1>1, <1>8, <2>2
<1> QED
  BY <1>1, <1>3, <1>4, <1>5, <1>6, <1>7, <1>8

\* A request cancels the jobs of the talks that it has seen being detected.
LEMMA AttachCancelsKeeps ==
  ASSUME IInv, UNCHANGED <<scheduleVars, abort, mixed, work>>,
         NEW S \in SUBSET Ids, Cancel(S, FALSE), AttachOK', attach.phase = "read",
         attach'.phase \in {"marking", "staging"}, attach'.staged = {},
         \A i : Reserved(i)' => i \in S \/ Reserved(i)
  PROVE  IInv'
<1>1. /\ jobs' \in [JobSlots -> Job] /\ \A t \in JobSlots : JobOK(jobs'[t])
      /\ raw' \in [Ids -> Recordings \cup {None}] /\ spare' \in [Ids -> Recordings \cup {None}]
      /\ UNCHANGED <<raw, spare>>
      /\ \A i : JobsQuiet(i)
      /\ \A i \in S : \A t \in JobSlots : ~WorksOn(jobs'[t], i)
      /\ Losing(S) \in SUBSET Ids /\ Orphan(Losing(S))
      /\ \A i : i \notin Losing(S) =>
           \A t \in JobSlots : Carries(jobs[t], i) => Carries(jobs'[t], i)
  BY CancelIs DEF IInv
<1>2. ASSUME NEW i \in Talks, work'[i].status = "detecting"
      PROVE  \/ i \in Losing(S) \/ Carried(i)'
             \/ /\ i \in Detecting /\ (AttachCarries(i) => Carried(i)')
                /\ \A t \in JobSlots : Carries(jobs[t], i) => Carried(i)'
  <2>1. i \in Detecting
    BY <1>2 DEF Detecting
  <2>2. ~AttachCarries(i)
    BY DEF AttachCarries
  <2> QED
    BY <1>1, <2>1, <2>2, CarriedNextIs
<1>3. ASSUME NEW i \in Talks \ mixed PROVE Apart(i)' /\ Bounds(i)' /\ Fits(i)'
  <2>1. CASE i \in S
    <3>1. Fits(i)'
      BY DEF IInv, TalksOK, Fits
    <3> QED
      BY <1>1, <2>1, <3>1, AttachHas
  <2>2. CASE i \notin S
    <3>1. RowQuiet(i)
      BY <1>1 DEF RowQuiet
    <3> QED
      BY <1>1, <2>2, <3>1, QuietAttach DEF IInv
  <2> QED
    BY <2>1, <2>2
<1>4. work' \in [Ids -> WorkRow] /\ AbortOK'
  BY SameAbort DEF IInv, TypesOK
<1>5. \A i \in Ids \ Talks : work'[i] = work[i]
  OBVIOUS
<1> QED
  BY <1>1, <1>2, <1>3, <1>4, <1>5, StepKeeps

\* attach by URL cancels the jobs of its talks.
LEMMA UrlCancelsKeeps ==
  ASSUME IInv, UrlCancels, UNCHANGED <<scheduleVars, abort, mixed>>
  PROVE  IInv'
<1> DEFINE S == SeenDetecting(Mine)
<1>1. /\ attach.phase = "read" /\ attach' = [attach EXCEPT !.phase = "marking"]
      /\ UNCHANGED work /\ Cancel(S, FALSE)
  BY DEF UrlCancels
<1>2. AttachOK
  BY DEF IInv, TypesOK
<1>3. /\ attach' \in Attach /\ attach'.phase = "marking" /\ attach'.seen = attach.seen
      /\ attach'.rec = attach.rec /\ attach'.staged = {}
  BY <1>1, <1>2 DEF AttachOK, Attach
<1>4. AttachOK' /\ Mine' = Mine
  BY <1>1, <1>2, <1>3 DEF AttachOK, Mine
<1>5. S \in SUBSET Ids
  BY <1>2, SeenAre DEF SeenDetecting
<1>6. ASSUME NEW i, Reserved(i)' PROVE i \in S \/ Reserved(i)
  BY <1>1, <1>3, <1>4, <1>6 DEF Reserved, SeenDetecting
<1> QED
  BY <1>1, <1>3, <1>4, <1>5, <1>6, AttachCancelsKeeps

\* attach by file does.
LEMMA FileCancelsKeeps ==
  ASSUME IInv, FileCancels, UNCHANGED <<scheduleVars, abort, mixed>>
  PROVE  IInv'
<1> DEFINE S == SeenDetecting(FileMatched)
<1>1. /\ attach.phase = "read" /\ FileMatched # {}
      /\ attach' = [attach EXCEPT !.phase = "staging", !.todo = FileMatched]
      /\ UNCHANGED work /\ Cancel(S, FALSE)
  BY DEF FileCancels
<1>2. AttachOK /\ FileMatched \subseteq Mine /\ Mine \in SUBSET Ids
  BY SeenAre DEF IInv, TypesOK, FileMatched
<1>3. /\ attach' \in Attach /\ attach'.phase = "staging" /\ attach'.seen = attach.seen
      /\ attach'.rec = attach.rec /\ attach'.start = attach.start
      /\ attach'.staged = {} /\ attach'.backed = {} /\ attach'.todo = FileMatched
  <2> HIDE DEF FileMatched
  <2> QED
    BY <1>1, <1>2 DEF AttachOK, Attach
<1>4. Mine' = Mine /\ FileMatched' = FileMatched
  BY <1>3, MatchedSame
<1>5. AttachOK'
  BY <1>1, <1>2, <1>3, <1>4 DEF AttachOK
<1>6. S \in SUBSET Ids
  BY <1>2 DEF SeenDetecting
<1>7. ASSUME NEW i, Reserved(i)' PROVE i \in S \/ Reserved(i)
  BY <1>1, <1>2, <1>3, <1>4, <1>7 DEF Reserved, SeenDetecting
<1> QED
  BY <1>1, <1>3, <1>5, <1>6, <1>7, AttachCancelsKeeps

\* The request matches and loads its talks.
LEMMA AttachReadsKeeps ==
  ASSUME IInv, NEW src \in {"url", "file"}, NEW room \in Names, NEW rec \in Recordings,
         NEW start \in Starts, NEW day, AttachReads(src, room, rec, start, day),
         UNCHANGED <<scheduleVars, abort>>
  PROVE  IInv'
<1> DEFINE mine == EligibleTalks(room, day)
           seen == [i \in mine |-> [work |-> work[i], slot |-> talk[i].slot]]
           new == [ NoAttach EXCEPT !.phase = "read", !.src = src, !.room = room,
                      !.rec = rec, !.start = start, !.seen = seen ]
<1>1. /\ attach = NoAttach /\ mine # {} /\ attach' = new
      /\ mixed' = mixed \cup {i \in mine \ Detecting : JobsOf({i}) # {}}
      /\ UNCHANGED <<work, raw, spare, jobs, orphaned>>
  BY DEF AttachReads
<1>2. /\ mine \subseteq Talks /\ \A i \in mine : work[i].status \in Eligible
      /\ work \in [Ids -> WorkRow] /\ Talks \subseteq Ids
  BY DEF EligibleTalks, InRoomNow, IInv, TypesOK, Talks
<1>3. start \in Nat \cup {None}
  BY StartsAssumption
<1> HIDE DEF mine
<1>4. seen \in Loaded
  <2>1. ASSUME NEW i \in mine PROVE [work |-> work[i], slot |-> talk[i].slot] \in Seen
    <3>1. talk[i].slot \in Slots
      BY <1>2, RowsHave, TalkHas DEF IInv
    <3> QED
      BY <1>2, <3>1 DEF Seen
  <2>2. seen \in [mine -> Seen]
    BY <2>1
  <2> QED
    BY <1>2, <2>2 DEF Loaded
<1>5. /\ DOMAIN seen = mine
      /\ \A i \in mine : seen[i].work = work[i]
  OBVIOUS
<1> HIDE DEF seen
<1>6. /\ attach' \in Attach /\ attach'.phase = "read" /\ attach'.seen = seen
      /\ attach'.rec = rec /\ attach'.staged = {} /\ attach'.backed = {}
  BY <1>1, <1>3, <1>4, NoAttachIs DEF NoAttach, Attach
<1> HIDE DEF new
<1>7. Mine' = mine
  BY <1>5, <1>6 DEF Mine
<1>8. AttachOK'
  BY <1>1, <1>2, <1>5, <1>6, <1>7 DEF AttachOK
<1>9. ASSUME NEW i \in Talks, work'[i].status = "detecting"
      PROVE  /\ i \in Detecting /\ (AttachCarries(i) => Carried(i)')
             /\ \A t \in JobSlots : Carries(jobs[t], i) => Carried(i)'
  <2>1. i \in Detecting
    BY <1>1, <1>9 DEF Detecting
  <2>2. ~AttachCarries(i)
    BY <1>1, NoAttachIs DEF AttachCarries
  <2> QED
    BY <1>1, <2>1, <2>2, SameJobs DEF IInv
<1>10. ASSUME NEW i \in Talks \ mixed' PROVE Apart(i)' /\ Bounds(i)' /\ Fits(i)'
  <2>1. i \in Talks \ mixed
    BY <1>1
  <2>2. CASE i \in mine \ Detecting
    <3>1. JobsOf({i}) = {}
      BY <1>1, <2>2
    <3>2. \A t \in JobSlots : ~WorksOn(jobs'[t], i)
      BY <1>1, <3>1, WorkersHave DEF IInv, TypesOK, JobsOf
    <3>3. Fits(i)'
      BY <1>1, <2>1 DEF IInv, TalksOK, Fits
    <3> QED
      BY <1>6, <3>2, <3>3, AttachHas
  <2>3. CASE i \notin mine \ Detecting
    <3>1. ~Reserved(i)'
      BY <1>1, <1>5, <1>6, <1>7, <2>1, <2>3 DEF Reserved, Detecting
    <3>2. RowQuiet(i) /\ JobsQuiet(i)
      BY <1>1, SameJobs DEF RowQuiet, IInv
    <3> QED
      BY <1>6, <2>1, <3>1, <3>2, QuietAttach DEF IInv
  <2> QED
    BY <2>2, <2>3
<1>11. AbortOK' /\ jobs' \in [JobSlots -> Job] /\ \A t \in JobSlots : JobOK(jobs'[t])
  BY <1>1, SameAbort, SameJobs DEF IInv
<1>12. /\ work' \in [Ids -> WorkRow] /\ raw' \in [Ids -> Recordings \cup {None}]
       /\ spare' \in [Ids -> Recordings \cup {None}]
       /\ \A i \in Ids \ Talks : work'[i] = work[i]
  BY <1>1 DEF IInv, TypesOK
<1>13. Orphan({})
  BY <1>1, NobodyIsOrphaned DEF IInv
<1> QED
  BY <1>8, <1>9, <1>10, <1>11, <1>12, <1>13, StepKeeps

\* attach by URL enqueues the room's job.
LEMMA UrlEnqueuesKeeps ==
  ASSUME IInv, UrlEnqueues, UNCHANGED <<scheduleVars, abort, mixed>>
  PROVE  IInv'
<1> DEFINE new == [ NoJob EXCEPT !.fn = "room", !.phase = "queued", !.ids = Mine,
                      !.room = attach.room, !.rec = attach.rec, !.start = attach.start ]
<1>1. /\ attach.phase = "sending" /\ \E t \in JobSlots : jobs[t].fn = "none"
      /\ jobs' = Enqueued(jobs, new) /\ orphaned' = orphaned \ Mine
      /\ AttachEnds /\ UNCHANGED <<work, raw, spare>>
  BY DEF UrlEnqueues, FreeSlots
<1>2. /\ AttachOK /\ Mine \in SUBSET Ids
      /\ jobs \in [JobSlots -> Job] /\ \A t \in JobSlots : JobOK(jobs[t])
  BY SeenAre DEF IInv, TypesOK
<1>3. attach.rec \in Recordings /\ attach.room \in Names \cup {None}
      /\ attach.start \in Nat \cup {None}
  BY <1>1, <1>2 DEF AttachOK, Attach
<1>4. /\ new \in Job /\ new.fn = "room" /\ new.phase = "queued" /\ new.ids = Mine
      /\ new.rec \in Recordings /\ new.claimed = {}
  BY <1>2, <1>3, NoJobIsOK DEF NoJob, Job
<1> HIDE DEF new
<1>5. /\ JobOK(new) /\ ~ToRead(new)
      /\ \A i : WorksOn(new, i) <=> i \in Mine
      /\ \A i \in Mine : Carries(new, i)
  BY <1>4 DEF JobOK, ToRead, WorksOn, Carries
<1>6. PICK f \in JobSlots :
        /\ jobs[f].fn = "none"
        /\ jobs'[f] = new /\ \A t \in JobSlots \ {f} : jobs'[t] = jobs[t]
        /\ jobs' \in [JobSlots -> Job] /\ \A t \in JobSlots : JobOK(jobs'[t])
  BY <1>1, <1>2, <1>4, <1>5, EnqueuedIs
<1>7. /\ AttachOK' /\ attach'.phase = "idle"
      /\ \A i : ~Reserved(i)' /\ ~AttachCarries(i)'
  BY <1>1, AttachIsOver
<1>8. /\ TypesOK' /\ Talks' = Talks /\ Talks \subseteq Ids
      /\ \A i \in Ids \ Talks' : work'[i] = NewWork
  BY <1>1, <1>6, <1>7, StepTypes DEF IInv, TypesOK
<1>9. WorkOK'
  BY <1>1, <1>8 DEF IInv, WorkOK, Detecting
<1>10. DetectingIsCarried'
  <2> SUFFICES ASSUME NEW i \in Detecting' PROVE i \in orphaned' \/ Carried(i)'
    BY DEF DetectingIsCarried
  <2>1. i \in Detecting
    BY <1>1, <1>8 DEF Detecting
  <2>2. CASE i \in Mine
    BY <1>5, <1>6, <2>2, CarriedNextIs
  <2>3. CASE i \notin Mine
    <3>1. ASSUME NEW t \in JobSlots, Carries(jobs[t], i) PROVE Carried(i)'
      <4>1. t # f
        BY <1>6, <3>1 DEF Carries
      <4> QED
        BY <1>6, <3>1, <4>1, CarriedNextIs
    <3>2. ~AttachCarries(i)
      BY <1>1, <2>3 DEF AttachCarries
    <3> QED
      BY <1>1, <2>1, <2>3, <3>1, <3>2, CarriedIs DEF IInv, DetectingIsCarried
  <2> QED
    BY <2>2, <2>3
<1>11. TalksOK'
  <2> SUFFICES ASSUME NEW i \in Talks \ mixed PROVE Apart(i)' /\ Bounds(i)' /\ Fits(i)'
    BY <1>8 DEF TalksOK
  <2>1. CASE i \in Mine
    <3>1. \A t \in JobSlots : ~WorksOn(jobs[t], i)
      BY <1>1, <2>1 DEF IInv, TalksOK, Apart, Reserved
    <3>2. \A t \in JobSlots : WorksOn(jobs'[t], i) => t = f
      BY <1>6, <3>1
    <3>3. Fits(i)'
      BY <1>1 DEF IInv, TalksOK, Fits
    <3> QED
      BY <1>4, <1>5, <1>6, <1>7, <1>8, <3>2, <3>3, OneHas
  <2>2. CASE i \notin Mine
    <3>1. JobsQuiet(i)
      BY <1>5, <1>6, <2>2 DEF JobsQuiet
    <3>2. RowQuiet(i)
      BY <1>1 DEF RowQuiet
    <3> QED
      BY <1>7, <3>1, <3>2, QuietAttach DEF IInv
  <2> QED
    BY <2>1, <2>2
<1> QED
  BY <1>8, <1>9, <1>10, <1>11 DEF IInv

\* attach by file knows the start of its recording.
LEMMA FileStartIsNat ==
  ASSUME AttachOK, attach.phase # "idle"
  PROVE  FileStart \in Nat
<1> DEFINE starts == {attach.seen[i].slot : i \in Mine}
<1>1. attach.rec \in Recordings /\ Mine # {} /\ attach.start \in Nat \cup {None}
  BY DEF AttachOK, Attach
<1>2. starts \in SUBSET Nat /\ starts # {}
  BY <1>1, SeenAre
<1> HIDE DEF starts
<1>3. StartOf(attach.rec, attach.start, starts) \in Nat
  BY <1>1, <1>2, StartIsNat
<1> QED
  BY <1>3 DEF FileStart, starts

\* The columns the request will write lie within the file it attaches.
LEMMA FileRowIs ==
  ASSUME AttachOK, attach.phase # "idle", NEW i \in FileMatched
  PROVE  /\ FileRow(i) \in WorkRow /\ FileRow(i).status = "detecting"
         /\ \A r \in {None, attach.rec} : Within(Cut(FileRow(i)), r)
<1> DEFINE length == Length[attach.rec]
<1>1. attach.rec \in Recordings /\ FileStart \in Nat
  BY FileStartIsNat DEF AttachOK
<1>2. i \in Mine /\ Overlaps(attach.seen[i].slot, FileStart, length)
  BY DEF FileMatched
<1>3. attach.seen[i].slot \in Nat
  BY <1>1, <1>2, SeenAre
<1>4. FileRow(i) = CutAt("detecting", attach.seen[i].slot, FileStart, length)
  BY DEF FileRow
<1>5. /\ FileRow(i) \in WorkRow /\ FileRow(i).status = "detecting"
      /\ Within(Cut(FileRow(i)), attach.rec)
  BY <1>1, <1>2, <1>3, <1>4, CutAtIs, StatusesAre
<1> QED
  BY <1>5 DEF Within

\* What a session writes is a row again.
LEMMA FlushedWorkIs ==
  ASSUME NEW loaded \in WorkRow, NEW new \in WorkRow, NEW current \in WorkRow
  PROVE  /\ FlushRow(loaded, new, current) \in WorkRow
         /\ FlushRow(loaded, new, current).status \in {new.status, current.status}
<1> DEFINE w == FlushRow(loaded, new, current)
<1>1. DOMAIN new = {"status", "detected", "cut_start", "cut_end"}
  BY WorkIs
<1>2. w = [f \in {"status", "detected", "cut_start", "cut_end"} |->
             IF new[f] = loaded[f] THEN current[f] ELSE new[f]]
  BY <1>1 DEF FlushRow
<1>3. /\ w.status \in Status /\ w.detected \in Nat \cup {None}
      /\ w.cut_start \in Nat \cup {None} /\ w.cut_end \in Nat \cup {None}
      /\ w.status \in {new.status, current.status}
  BY <1>2, WorkIs
<1>4. w = [ status |-> w.status, detected |-> w.detected,
            cut_start |-> w.cut_start, cut_end |-> w.cut_end ]
  BY <1>2
<1> HIDE DEF w
<1>5. w \in WorkRow
  BY <1>3, <1>4 DEF WorkRow
<1> QED
  BY <1>3, <1>5 DEF w

\* attach by file puts the recording in place, with a backup.
LEMMA FileStagesKeeps ==
  ASSUME IInv, FileStages, UNCHANGED <<scheduleVars, abort, mixed>>
  PROVE  IInv'
<1> DEFINE i == FirstOf(attach.todo)
           new == [ attach EXCEPT !.todo = @ \ {i}, !.staged = @ \cup {i},
                      !.backed = IF raw[i] # None THEN @ \cup {i} ELSE @ ]
<1>1. /\ attach.phase = "staging" /\ attach.todo # {}
      /\ spare' = [spare EXCEPT ![i] = raw[i]]
      /\ raw' = [raw EXCEPT ![i] = attach.rec]
      /\ attach' = new
      /\ UNCHANGED <<work, jobs, orphaned>>
  BY DEF FileStages
<1>2. /\ AttachOK /\ attach \in Attach /\ attach.todo \in SUBSET Ids
      /\ attach.rec \in Recordings /\ attach.todo \cup attach.staged = FileMatched
      /\ FileMatched # {} /\ attach.backed \subseteq attach.staged
      /\ raw \in [Ids -> Recordings \cup {None}]
      /\ spare \in [Ids -> Recordings \cup {None}] /\ work \in [Ids -> WorkRow]
  BY <1>1 DEF IInv, TypesOK, AttachOK, Attach
<1>3. i \in attach.todo /\ i \in Ids /\ i \in FileMatched
  BY <1>1, <1>2, FirstIsIn
<1> HIDE DEF i
<1>4. /\ attach' \in Attach /\ attach'.phase = "staging" /\ attach'.seen = attach.seen
      /\ attach'.rec = attach.rec /\ attach'.start = attach.start
      /\ attach'.todo = attach.todo \ {i} /\ attach'.staged = attach.staged \cup {i}
      /\ attach'.backed \subseteq attach.backed \cup {i}
  <2> HIDE DEF FileMatched
  <2> QED
    BY <1>1, <1>2, <1>3 DEF Attach
<1> HIDE DEF new
<1>5. Mine' = Mine /\ FileMatched' = FileMatched
  BY <1>4, MatchedSame
<1>6. AttachOK'
  BY <1>1, <1>2, <1>3, <1>4, <1>5 DEF AttachOK
<1>7. /\ raw' \in [Ids -> Recordings \cup {None}] /\ spare' \in [Ids -> Recordings \cup {None}]
      /\ raw'[i] = attach.rec /\ \A j \in Ids \ {i} : raw'[j] = raw[j]
      /\ work' \in [Ids -> WorkRow] /\ \A j \in Ids \ Talks : work'[j] = work[j]
  BY <1>1, <1>2, <1>3
<1>8. ASSUME NEW j \in Talks, work'[j].status = "detecting"
      PROVE  /\ j \in Detecting /\ (AttachCarries(j) => Carried(j)')
             /\ \A t \in JobSlots : Carries(jobs[t], j) => Carried(j)'
  <2>1. j \in Detecting
    BY <1>1, <1>8 DEF Detecting
  <2>2. ~AttachCarries(j)
    BY <1>1 DEF AttachCarries
  <2> QED
    BY <1>1, <2>1, <2>2, SameJobs DEF IInv
<1>9. ASSUME NEW j \in Talks \ mixed PROVE Apart(j)' /\ Bounds(j)' /\ Fits(j)'
  <2>1. CASE j = i
    <3>1. Reserved(j) /\ Fits(j)'
      BY <1>1, <1>2, <1>3, <2>1 DEF Reserved, FileMatched, IInv, TalksOK, Fits
    <3>2. \A t \in JobSlots : ~WorksOn(jobs'[t], j)
      BY <1>1, <3>1 DEF IInv, TalksOK, Apart
    <3> QED
      BY <1>4, <1>7, <2>1, <3>1, <3>2, AttachHas
  <2>2. CASE j # i
    <3>1. RowQuiet(j) /\ JobsQuiet(j)
      BY <1>1, <1>7, <2>2, SameJobs DEF RowQuiet, IInv, Talks
    <3>2. Reserved(j)' => Reserved(j)
      BY <1>1, <1>4, <1>5 DEF Reserved
    <3>3. attach'.phase = "staging" /\ j \in attach'.staged => raw'[j] \in {None, attach'.rec}
      BY <1>1, <1>4, <1>7, <2>2 DEF IInv, TalksOK, Bounds, Talks
    <3> QED
      BY <1>4, <3>1, <3>2, <3>3, QuietAttach DEF IInv
  <2> QED
    BY <2>1, <2>2
<1>10. AbortOK' /\ jobs' \in [JobSlots -> Job] /\ \A t \in JobSlots : JobOK(jobs'[t])
  BY <1>1, SameAbort, SameJobs DEF IInv
<1>11. Orphan({})
  BY <1>1, NobodyIsOrphaned DEF IInv
<1>12. UNCHANGED mixed
  OBVIOUS
<1> QED
  BY <1>6, <1>7, <1>8, <1>9, <1>10, <1>11, <1>12, StepKeeps

\* attach by file writes the rows it computed from what it loaded.
LEMMA FileCommitsKeeps ==
  ASSUME IInv, FileCommits, UNCHANGED <<scheduleVars, abort>>
  PROVE  IInv'
<1> DEFINE M == attach.staged \cap Talks
           rows == [i \in M |-> FileRow(i)]
<1>1. /\ attach.phase = "staging" /\ attach.todo = {}
      /\ work' = [i \in Ids |-> IF i \in M
                    THEN FlushRow(attach.seen[i].work, FileRow(i), work[i]) ELSE work[i]]
      /\ attach' = [attach EXCEPT !.phase = "enqueuing", !.todo = attach.staged]
      /\ spare' = [i \in Ids |-> IF i \in attach.backed THEN None ELSE spare[i]]
      /\ Orphan({}) /\ Mixed(rows) /\ UNCHANGED <<raw, jobs>>
  BY DEF FileCommits
<1>2. /\ AttachOK /\ attach \in Attach /\ attach.staged \in SUBSET Ids
      /\ attach.rec \in Recordings /\ attach.staged = FileMatched /\ FileMatched # {}
      /\ spare \in [Ids -> Recordings \cup {None}] /\ work \in [Ids -> WorkRow]
      /\ FileMatched \subseteq Mine
  BY <1>1 DEF IInv, TypesOK, AttachOK, Attach, FileMatched
<1>3. mixed' = mixed \cup {i \in M : work'[i] # FileRow(i)}
  BY <1>1 DEF Mixed
<1> HIDE DEF rows
<1>4. /\ attach' \in Attach /\ attach'.phase = "enqueuing" /\ attach'.seen = attach.seen
      /\ attach'.rec = attach.rec /\ attach'.start = attach.start
      /\ attach'.todo = attach.staged
  <2> HIDE DEF FileMatched
  <2> QED
    BY <1>1, <1>2 DEF Attach
<1>5. Mine' = Mine /\ FileMatched' = FileMatched
  BY <1>4, MatchedSame
<1>6. AttachOK'
  BY <1>1, <1>2, <1>4, <1>5 DEF AttachOK
<1>7. ASSUME NEW i \in Ids PROVE work'[i] \in WorkRow /\ (i \notin M => work'[i] = work[i])
  <2>1. CASE i \in M
    <3>1. FileRow(i) \in WorkRow /\ attach.seen[i].work \in WorkRow /\ work[i] \in WorkRow
      BY <1>1, <1>2, <2>1, FileRowIs, SeenAre
    <3> QED
      BY <1>1, <2>1, <3>1, FlushedWorkIs
  <2>2. CASE i \notin M
    BY <1>1, <1>2, <2>2
  <2> QED
    BY <2>1, <2>2
<1>8. work' \in [Ids -> WorkRow] /\ \A i \in Ids \ Talks : work'[i] = work[i]
  <2>1. work' = [i \in Ids |-> work'[i]]
    BY <1>1
  <2> QED
    BY <1>7, <2>1
<1>9. raw' \in [Ids -> Recordings \cup {None}] /\ spare' \in [Ids -> Recordings \cup {None}]
  BY <1>1, <1>2 DEF IInv, TypesOK
<1>10. ASSUME NEW i \in Talks, work'[i].status = "detecting"
       PROVE  \/ Carried(i)'
              \/ /\ i \in Detecting /\ (AttachCarries(i) => Carried(i)')
                 /\ \A t \in JobSlots : Carries(jobs[t], i) => Carried(i)'
  <2>1. CASE i \in M
    BY <1>4, <2>1, CarriedNextIs DEF AttachCarries
  <2>2. CASE i \notin M
    <3>1. i \in Detecting
      BY <1>7, <1>10, <2>2 DEF Detecting, Talks
    <3>2. ~AttachCarries(i)
      BY <1>1 DEF AttachCarries
    <3> QED
      BY <1>1, <3>1, <3>2, SameJobs DEF IInv
  <2> QED
    BY <2>1, <2>2
<1>11. ASSUME NEW i \in Talks \ mixed' PROVE Apart(i)' /\ Bounds(i)' /\ Fits(i)'
  <2>1. i \in Talks \ mixed
    BY <1>3
  <2>2. CASE i \in M
    <3>1. work'[i] = FileRow(i) /\ i \in FileMatched
      BY <1>2, <1>3, <2>2
    <3>2. raw'[i] \in {None, attach.rec}
      BY <1>1, <2>1, <2>2 DEF IInv, TalksOK, Bounds
    <3>3. Within(Cut(work'[i]), raw'[i]) /\ Fits(i)'
      BY <1>1, <1>2, <3>1, <3>2, FileRowIs, UnreviewedFits
    <3>4. \A t \in JobSlots : ~WorksOn(jobs'[t], i)
      BY <1>1, <1>2, <2>1, <3>1 DEF IInv, TalksOK, Apart, Reserved
    <3> QED
      BY <1>4, <3>3, <3>4, AttachHas
  <2>3. CASE i \notin M
    <3>1. RowQuiet(i) /\ JobsQuiet(i)
      BY <1>1, <1>7, <2>1, <2>3, SameJobs DEF RowQuiet, IInv, Talks
    <3>2. ~Reserved(i)' /\ i \notin attach'.todo
      BY <1>4, <2>1, <2>3 DEF Reserved
    <3> QED
      BY <1>4, <2>1, <3>1, <3>2, QuietAttach DEF IInv
  <2> QED
    BY <2>2, <2>3
<1>12. AbortOK' /\ jobs' \in [JobSlots -> Job] /\ \A t \in JobSlots : JobOK(jobs'[t])
  BY <1>1, SameAbort, SameJobs DEF IInv
<1> QED
  BY <1>1, <1>6, <1>8, <1>9, <1>10, <1>11, <1>12, StepKeeps

\* attach by file enqueues the job_detect of a talk.
LEMMA FileEnqueuesKeeps ==
  ASSUME IInv, FileEnqueues, UNCHANGED <<scheduleVars, abort, mixed>>
  PROVE  IInv'
<1> DEFINE i == FirstOf(attach.todo)
           new == DetectJob(i, FileStart)
<1>1. /\ attach.phase = "enqueuing" /\ \E t \in JobSlots : jobs[t].fn = "none"
      /\ jobs' = Enqueued(jobs, new)
      /\ orphaned' = orphaned \ {i}
      /\ UNCHANGED <<work, raw, spare>>
  BY DEF FileEnqueues, FreeSlots
<1>2. /\ AttachOK /\ attach \in Attach /\ attach.todo \in SUBSET Ids
      /\ attach.todo \subseteq FileMatched /\ attach.todo # {} /\ FileMatched \subseteq Mine
      /\ jobs \in [JobSlots -> Job] /\ \A t \in JobSlots : JobOK(jobs[t])
  BY <1>1 DEF IInv, TypesOK, AttachOK, Attach, FileMatched
<1>3. i \in attach.todo /\ i \in Ids /\ Reserved(i)
  BY <1>1, <1>2, FirstIsIn DEF Reserved
<1>4. IF attach.todo = {i} THEN AttachEnds ELSE attach' = [attach EXCEPT !.todo = @ \ {i}]
  BY DEF FileEnqueues
<1> HIDE DEF i
<1>5. /\ new \in Job /\ JobOK(new) /\ new.fn = "detect" /\ new.phase = "queued"
      /\ WorksOn(new, i) /\ ToRead(new) /\ Carries(new, i)
      /\ \A j : WorksOn(new, j) => j = i
  <2>1. FileStart \in Nat \cup {None}
    BY <1>1, <1>2, FileStartIsNat
  <2> QED
    BY <1>3, <2>1, DetectJobDoes
<1> HIDE DEF new
<1>6. PICK f \in JobSlots :
        /\ jobs[f].fn = "none"
        /\ jobs'[f] = new /\ \A t \in JobSlots \ {f} : jobs'[t] = jobs[t]
        /\ jobs' \in [JobSlots -> Job] /\ \A t \in JobSlots : JobOK(jobs'[t])
  BY <1>1, <1>2, <1>5, EnqueuedIs
<1>7. /\ AttachOK' /\ attach'.phase \in {"idle", "enqueuing"}
      /\ attach'.phase = "enqueuing" => attach'.todo = attach.todo \ {i}
      /\ \A j : Reserved(j)' => Reserved(j) /\ j # i
      /\ \A j : AttachCarries(j) => j = i \/ AttachCarries(j)'
  <2>1. CASE attach.todo = {i}
    BY <1>1, <1>4, <2>1, AttachIsOver DEF AttachCarries
  <2>2. CASE attach.todo # {i}
    <3>1. /\ attach' \in Attach /\ attach'.phase = "enqueuing" /\ attach'.seen = attach.seen
          /\ attach'.rec = attach.rec /\ attach'.start = attach.start
          /\ attach'.todo = attach.todo \ {i}
      BY <1>1, <1>2, <1>4, <2>2 DEF Attach
    <3>2. Mine' = Mine /\ FileMatched' = FileMatched
      BY <3>1, MatchedSame
    <3>3. AttachOK'
      BY <1>1, <1>2, <1>3, <2>2, <3>1, <3>2 DEF AttachOK
    <3>4. \A j : Reserved(j)' => Reserved(j) /\ j # i
      BY <1>1, <3>1, <3>2 DEF Reserved
    <3>5. \A j : AttachCarries(j) => j = i \/ AttachCarries(j)'
      BY <1>1, <3>1 DEF AttachCarries
    <3> QED
      BY <3>1, <3>3, <3>4, <3>5
  <2> QED
    BY <2>1, <2>2
<1>8. /\ TypesOK' /\ Talks' = Talks /\ Talks \subseteq Ids
      /\ \A j \in Ids \ Talks' : work'[j] = NewWork
  BY <1>1, <1>6, <1>7, StepTypes DEF IInv, TypesOK
<1>9. WorkOK'
  BY <1>1, <1>8 DEF IInv, WorkOK, Detecting
<1>10. DetectingIsCarried'
  <2> SUFFICES ASSUME NEW j \in Detecting' PROVE j \in orphaned' \/ Carried(j)'
    BY DEF DetectingIsCarried
  <2>1. j \in Detecting
    BY <1>1, <1>8 DEF Detecting
  <2>2. CASE j = i
    BY <1>5, <1>6, <2>2, CarriedNextIs
  <2>3. CASE j # i
    <3>1. ASSUME NEW t \in JobSlots, Carries(jobs[t], j) PROVE Carried(j)'
      <4>1. t # f
        BY <1>6, <3>1 DEF Carries
      <4> QED
        BY <1>6, <3>1, <4>1, CarriedNextIs
    <3>2. AttachCarries(j) => Carried(j)'
      BY <1>7, <2>3, CarriedNextIs
    <3> QED
      BY <1>1, <2>1, <2>3, <3>1, <3>2, CarriedIs DEF IInv, DetectingIsCarried
  <2> QED
    BY <2>2, <2>3
<1>11. TalksOK'
  <2> SUFFICES ASSUME NEW j \in Talks \ mixed PROVE Apart(j)' /\ Bounds(j)' /\ Fits(j)'
    BY <1>8 DEF TalksOK
  <2>1. Apart(j) /\ Bounds(j) /\ Fits(j)
    BY DEF IInv, TalksOK
  <2>2. CASE j = i
    <3>1. Within(Cut(work'[j]), raw'[j]) /\ Fits(j)'
      BY <1>1, <1>3, <2>1, <2>2 DEF Bounds, Fits
    <3>2. \A t \in JobSlots : WorksOn(jobs'[t], j) => t = f
      BY <1>3, <1>6, <2>1, <2>2 DEF Apart
    <3> QED
      BY <1>5, <1>6, <1>7, <1>8, <2>2, <3>1, <3>2, OneHas
  <2>3. CASE j # i
    <3>1. JobsQuiet(j) /\ RowQuiet(j)
      BY <1>1, <1>5, <1>6, <2>3 DEF JobsQuiet, RowQuiet
    <3>2. attach'.phase = "enqueuing" /\ j \in attach'.todo => Within(Cut(work'[j]), raw'[j])
      BY <1>1, <1>7, <2>1 DEF Bounds
    <3> QED
      BY <1>7, <3>1, <3>2, QuietAttach DEF IInv
  <2> QED
    BY <2>2, <2>3
<1> QED
  BY <1>8, <1>9, <1>10, <1>11 DEF IInv

-------------------------------------------------------------------------------
(* abort_talk *)

\* An abort that is not under way has a type.
LEMMA NoAbortIs ==
  ASSUME abort' = NoAbort
  PROVE  AbortOK'
BY DEF NoAbort, AbortOK

\* The jobs of the talks of S may lose their rows.
LEMMA NoRowsIs ==
  ASSUME TypesOK, NEW S, NoRows(S)
  PROVE  /\ jobs' \in [JobSlots -> Job] /\ \A t \in JobSlots : JobOK(jobs'[t])
         /\ \A i : JobsQuiet(i)
         /\ \A i : i \notin S => \A t \in JobSlots : Carries(jobs[t], i) => Carries(jobs'[t], i)
<1>1. /\ jobs \in [JobSlots -> Job] /\ \A t \in JobSlots : JobOK(jobs[t])
      /\ jobs' = [s \in JobSlots |->
           IF jobs[s].fn = "detect" /\ jobs[s].ids \subseteq S
           THEN [jobs[s] EXCEPT !.row = FALSE] ELSE jobs[s]]
  BY DEF TypesOK, NoRows
<1>2. ASSUME NEW t \in JobSlots
      PROVE  /\ jobs'[t] \in Job /\ JobOK(jobs'[t])
             /\ jobs'[t].fn = jobs[t].fn /\ jobs'[t].phase = jobs[t].phase
             /\ jobs'[t].ids = jobs[t].ids /\ jobs'[t].rec = jobs[t].rec
             /\ jobs'[t].claimed = jobs[t].claimed /\ jobs'[t].todo = jobs[t].todo
             /\ jobs'[t].row => jobs[t].row
             /\ jobs'[t] = jobs[t] \/ (jobs[t].fn = "detect" /\ jobs[t].ids \subseteq S)
  <2>1. CASE jobs[t].fn = "detect" /\ jobs[t].ids \subseteq S
    <3> DEFINE job == [jobs[t] EXCEPT !.row = FALSE]
    <3>1. jobs'[t] = job
      BY <1>1, <2>1
    <3>2. /\ job \in Job /\ job.fn = jobs[t].fn /\ job.phase = jobs[t].phase
          /\ job.ids = jobs[t].ids /\ job.rec = jobs[t].rec
          /\ job.claimed = jobs[t].claimed /\ job.todo = jobs[t].todo /\ ~job.row
      BY <1>1 DEF Job
    <3> HIDE DEF job
    <3>3. JobOK(job)
      BY <1>1, <2>1, <3>2 DEF JobOK
    <3> QED
      BY <2>1, <3>1, <3>2, <3>3
  <2>2. CASE ~(jobs[t].fn = "detect" /\ jobs[t].ids \subseteq S)
    BY <1>1, <2>2
  <2> QED
    BY <2>1, <2>2
<1>3. jobs' \in [JobSlots -> Job]
  <2>1. jobs' = [t \in JobSlots |-> jobs'[t]]
    BY <1>1
  <2> QED
    BY <1>2, <2>1
<1>4. \A i : JobsQuiet(i)
  BY <1>2 DEF JobsQuiet, WorksOn
<1>5. ASSUME NEW i, i \notin S, NEW t \in JobSlots, Carries(jobs[t], i)
      PROVE  Carries(jobs'[t], i)
  <2>1. i \in jobs[t].ids
    BY <1>1, <1>5, CarriersWork
  <2> QED
    BY <1>2, <1>5, <2>1
<1> QED
  BY <1>2, <1>3, <1>4, <1>5

\* abort_talk cancels and wipes.
LEMMA AbortCancelsKeeps ==
  ASSUME IInv, AbortCancels, UNCHANGED scheduleVars
  PROVE  IInv'
<1> DEFINE i == abort.id
<1>1. /\ i \in Ids /\ AbortOK' /\ UNCHANGED <<work, attach, mixed>> /\ Cancel({i}, TRUE)
  <2>1. PICK phase \in {"read", "cancelled"}, k \in Ids, w \in WorkRow :
               abort = [phase |-> phase, id |-> k, seen |-> w]
    BY DEF AbortCancels, IInv, TypesOK, AbortOK, NoAbort
  <2>2. abort' = [phase |-> "cancelled", id |-> k, seen |-> w] /\ i = k
    BY <2>1 DEF AbortCancels
  <2>3. AbortOK'
    BY <2>2 DEF AbortOK
  <2> QED
    BY <2>2, <2>3 DEF AbortCancels
<1> HIDE DEF i
<1>2. {i} \in SUBSET Ids
  BY <1>1
<1>3. /\ jobs' \in [JobSlots -> Job] /\ \A t \in JobSlots : JobOK(jobs'[t])
      /\ raw' \in [Ids -> Recordings \cup {None}] /\ spare' \in [Ids -> Recordings \cup {None}]
      /\ \A j \in Ids : raw'[j] \in {raw[j], None}
      /\ \A j : JobsQuiet(j)
      /\ Losing({i}) \in SUBSET Ids /\ Orphan(Losing({i}))
      /\ \A j : j \notin Losing({i}) =>
           \A t \in JobSlots : Carries(jobs[t], j) => Carries(jobs'[t], j)
  BY <1>1, <1>2, CancelIs DEF IInv
<1>4. AttachOK' /\ AbortOK'
  BY <1>1, AttachSame DEF IInv, TypesOK
<1>5. ASSUME NEW j \in Talks, work'[j].status = "detecting"
      PROVE  \/ j \in Losing({i}) \/ Carried(j)'
             \/ /\ j \in Detecting /\ (AttachCarries(j) => Carried(j)')
                /\ \A t \in JobSlots : Carries(jobs[t], j) => Carried(j)'
  <2>1. j \in Detecting
    BY <1>1, <1>5 DEF Detecting
  <2>2. AttachCarries(j) => Carried(j)'
    BY <1>1, AttachSame, CarriedNextIs
  <2> QED
    BY <1>3, <2>1, <2>2, CarriedNextIs
<1>6. ASSUME NEW j \in Talks \ mixed' PROVE Apart(j)' /\ Bounds(j)' /\ Fits(j)'
  <2>1. RowQuiet(j) /\ j \in Talks \ mixed
    BY <1>1, <1>3 DEF RowQuiet, Talks
  <2> QED
    BY <1>1, <1>3, <2>1, QuietTalk DEF IInv
<1>7. work' \in [Ids -> WorkRow] /\ \A j \in Ids \ Talks : work'[j] = work[j]
  BY <1>1 DEF IInv, TypesOK
<1> QED
  BY <1>3, <1>4, <1>5, <1>6, <1>7, StepKeeps

\* abort_talk resets the row.
LEMMA AbortResetsKeeps ==
  ASSUME IInv, AbortResets, UNCHANGED scheduleVars
  PROVE  IInv'
<1> DEFINE i == abort.id
           row == FlushRow(abort.seen, NewWork, work[i])
           rows == [j \in {i} |-> NewWork]
<1>1. /\ i \in Talks /\ i \in Ids /\ abort' = NoAbort
      /\ work' = [work EXCEPT ![i] = row]
      /\ NoRows({i}) /\ Orphan({i}) /\ Mixed(rows)
      /\ UNCHANGED <<raw, spare, attach>>
  BY DEF AbortResets, Talks
<1>2. abort.seen \in WorkRow /\ work \in [Ids -> WorkRow]
  BY DEF AbortResets, IInv, TypesOK, AbortOK, NoAbort
<1>3. mixed' = mixed \cup {j \in {i} : work'[j] # NewWork}
  BY <1>1 DEF Mixed
<1> HIDE DEF i, rows
<1>4. row \in WorkRow
  BY <1>1, <1>2, NewWorkIs, FlushedWorkIs
<1> HIDE DEF row
<1>5. /\ work' \in [Ids -> WorkRow] /\ work'[i] \in WorkRow
      /\ \A j \in Ids \ {i} : work'[j] = work[j]
      /\ \A j \in Ids \ Talks : work'[j] = work[j]
  BY <1>1, <1>2, <1>4
<1>6. /\ jobs' \in [JobSlots -> Job] /\ \A t \in JobSlots : JobOK(jobs'[t])
      /\ \A j : JobsQuiet(j)
      /\ \A j : j \notin {i} => \A t \in JobSlots : Carries(jobs[t], j) => Carries(jobs'[t], j)
  BY <1>1, NoRowsIs DEF IInv
<1>7. /\ AttachOK' /\ AbortOK' /\ {i} \in SUBSET Ids
      /\ raw' \in [Ids -> Recordings \cup {None}] /\ spare' \in [Ids -> Recordings \cup {None}]
  BY <1>1, AttachSame, NoAbortIs DEF IInv, TypesOK
<1>8. ASSUME NEW j \in Talks, work'[j].status = "detecting"
      PROVE  \/ j \in {i} \/ Carried(j)'
             \/ /\ j \in Detecting /\ (AttachCarries(j) => Carried(j)')
                /\ \A t \in JobSlots : Carries(jobs[t], j) => Carried(j)'
  <2>1. CASE j # i
    <3>1. j \in Detecting
      BY <1>5, <1>8, <2>1 DEF Detecting, Talks
    <3>2. AttachCarries(j) => Carried(j)'
      BY <1>1, AttachSame, CarriedNextIs
    <3> QED
      BY <1>6, <2>1, <3>1, <3>2, CarriedNextIs
  <2> QED
    BY <2>1
<1>9. ASSUME NEW j \in Talks \ mixed' PROVE Apart(j)' /\ Bounds(j)' /\ Fits(j)'
  <2>1. j \in Talks \ mixed /\ j \in Ids
    BY <1>3 DEF Talks
  <2>2. RowQuiet(j)
    <3>1. CASE j = i
      BY <1>1, <1>3, <3>1, NewWorkIs DEF RowQuiet
    <3>2. CASE j # i
      BY <1>1, <1>5, <2>1, <3>2 DEF RowQuiet
    <3> QED
      BY <3>1, <3>2
  <2> QED
    BY <1>1, <1>6, <2>1, <2>2, QuietTalk DEF IInv
<1> QED
  BY <1>1, <1>5, <1>6, <1>7, <1>8, <1>9, StepKeeps

\* abort_talk reads the talk, or gives up.
LEMMA AbortLooksKeeps ==
  ASSUME IInv, AbortFails \/ \E i \in Ids : AbortReads(i), UNCHANGED scheduleVars
  PROVE  IInv'
<1>1. AbortOK' /\ UNCHANGED <<work, raw, spare, jobs, attach, orphaned, mixed>>
  <2>1. CASE AbortFails
    BY <2>1, NoAbortIs DEF AbortFails
  <2>2. ASSUME NEW i \in Ids, AbortReads(i)
        PROVE  AbortOK' /\ UNCHANGED <<work, raw, spare, jobs, attach, orphaned, mixed>>
    <3>1. work[i] \in WorkRow
      BY DEF IInv, TypesOK
    <3> QED
      BY <2>2, <3>1 DEF AbortReads, AbortOK
  <2> QED
    BY <2>1, <2>2
<1>2. AttachOK' /\ Orphan({})
  BY <1>1, AttachSame, NobodyIsOrphaned DEF IInv, TypesOK
<1>3. /\ work' \in [Ids -> WorkRow] /\ \A j \in Ids \ Talks : work'[j] = work[j]
      /\ raw' \in [Ids -> Recordings \cup {None}] /\ spare' \in [Ids -> Recordings \cup {None}]
  BY <1>1 DEF IInv, TypesOK
<1>4. /\ jobs' \in [JobSlots -> Job] /\ \A t \in JobSlots : JobOK(jobs'[t])
      /\ \A i : JobsQuiet(i)
      /\ \A i : \A t \in JobSlots : Carries(jobs[t], i) => Carried(i)'
  BY <1>1, SameJobs DEF IInv
<1>5. ASSUME NEW j \in Talks, work'[j].status = "detecting"
      PROVE  j \in Detecting /\ (AttachCarries(j) => Carried(j)')
  BY <1>1, <1>5, AttachSame, CarriedNextIs DEF Detecting
<1>6. ASSUME NEW j \in Talks \ mixed' PROVE Apart(j)' /\ Bounds(j)' /\ Fits(j)'
  <2>1. RowQuiet(j) /\ j \in Talks \ mixed
    BY <1>1 DEF RowQuiet
  <2> QED
    BY <1>1, <1>4, <2>1, QuietTalk DEF IInv
<1> QED
  BY <1>1, <1>2, <1>3, <1>4, <1>5, <1>6, StepKeeps

-------------------------------------------------------------------------------
(* The handlers of Schedule *)

\* No edit of the schedule loses a talk.
LEMMA EditsKeepTalks ==
  ASSUME ScheduleInv, Edits
  PROVE  ScheduleInv' /\ Talks \subseteq Talks'
<1>1. CASE EditRooms
  BY <1>1, EditRoomsKeeps
<1>2. CASE \E e \in Editors : EditTalk(e)
  BY <1>2, EditTalkKeeps
<1>3. CASE \E batch \in Batches : ImportSchedule(batch)
  BY <1>3, ImportKeeps
<1> QED
  BY <1>1, <1>2, <1>3 DEF Edits

\* Edits of the schedule, which leave work and files alone.
LEMMA EditsKeeps ==
  ASSUME IInv, Edits
  PROVE  IInv'
<1>1. /\ ScheduleInv' /\ Talks \subseteq Talks' /\ Talks \subseteq Ids
  BY EditsKeepTalks DEF IInv, TypesOK, Talks
<1>2. /\ FreshKeys /\ Orphan(Moved)
      /\ UNCHANGED <<work, raw, spare, jobs, attach, abort, mixed>>
  BY DEF Edits
<1>3. TypesOK'
  <2>1. AttachOK'
    BY <1>2, AttachSame DEF IInv, TypesOK
  <2>2. AbortOK'
    BY <1>2 DEF IInv, TypesOK, AbortOK
  <2> QED
    BY <1>1, <1>2, <2>1, <2>2 DEF IInv, TypesOK
<1>4. WorkOK'
  <2>1. Moved \in SUBSET Ids
    BY <1>1 DEF Moved
  <2>2. \A i \in Ids \ Talks' : work'[i] = NewWork
    BY <1>1, <1>2 DEF IInv, WorkOK
  <2> QED
    BY <1>2, <2>1, <2>2, OrphansAreDetecting DEF IInv
<1>5. DetectingIsCarried'
  <2> SUFFICES ASSUME NEW i \in Detecting' PROVE i \in orphaned' \/ Carried(i)'
    BY DEF DetectingIsCarried
  <2>1. i \in Ids /\ work[i].status = "detecting"
    BY <1>2 DEF Detecting, Talks
  <2>2. i \in Detecting
    BY <2>1, NewWorkIs DEF IInv, WorkOK, Detecting
  <2>3. \A t \in JobSlots : Carries(jobs[t], i) => Carried(i)'
    BY <1>2, CarriedNextIs
  <2>4. AttachCarries(i) => Carried(i)'
    BY <1>2, AttachSame, CarriedNextIs
  <2> QED
    BY <1>2, <2>1, <2>2, <2>3, <2>4, CarriedOn DEF IInv
<1>6. TalksOK'
  <2> SUFFICES ASSUME NEW i \in Talks' \ mixed PROVE Apart(i)' /\ Bounds(i)' /\ Fits(i)'
    BY <1>2 DEF TalksOK
  <2>1. CASE i \in Talks
    <3>1. JobsQuiet(i) /\ RowQuiet(i)
      BY <1>2 DEF JobsQuiet, RowQuiet
    <3> QED
      BY <1>2, <2>1, <3>1, QuietTalk DEF IInv
  <2>2. CASE i \notin Talks
    <3>1. /\ i \in Ids \ Talks /\ JobsOf({i}) = {} /\ i \notin Mine
      BY <1>2, <2>2 DEF FreshKeys, Talks
    <3>2. \A t \in JobSlots : ~WorksOn(jobs'[t], i)
      BY <1>2, <3>1, WorkersHave DEF IInv, TypesOK, JobsOf
    <3>3. Fits(i)'
      BY <1>2, <3>1, NewWorkIs DEF IInv, WorkOK, Fits
    <3>4. /\ ~(attach'.phase = "staging" /\ i \in attach'.staged)
          /\ ~(attach'.phase = "enqueuing" /\ i \in attach'.todo)
      BY <1>2, <3>1 DEF IInv, TypesOK, AttachOK, FileMatched
    <3> QED
      BY <3>2, <3>3, <3>4, AttachHas
  <2> QED
    BY <2>1, <2>2
<1> QED
  BY <1>3, <1>4, <1>5, <1>6 DEF IInv

\* A deletion cancels the jobs of its talks.
LEMMA CancelsKeeps ==
  ASSUME IInv, NEW e \in Deleters, Cancels(e)
  PROVE  IInv'
<1> DEFINE S == edit'[e].ids
<1>1. /\ (\E T \in SUBSET Ids : DeleteTalksReads(e, T)) \/ DeleteEventReads(e)
      /\ UNCHANGED <<work, attach, abort, mixed>> /\ Cancel(S, TRUE)
  BY DEF Cancels
<1>2. e \in Requests
  BY DEF Requests
<1>3. ScheduleInv'
  BY <1>1, <1>2, DeleteTalksReadsKeeps, DeleteEventReadsKeeps DEF IInv, TypesOK
<1>4. Talks' = Talks
  BY <1>1 DEF DeleteTalksReads, DeleteEventReads, Talks
<1>5. S \in SUBSET Ids
  BY <1>2, <1>3 DEF ScheduleInv, ScheduleTypeOK, Edit
<1> HIDE DEF S
<1>6. /\ jobs' \in [JobSlots -> Job] /\ \A t \in JobSlots : JobOK(jobs'[t])
      /\ raw' \in [Ids -> Recordings \cup {None}] /\ spare' \in [Ids -> Recordings \cup {None}]
      /\ \A j \in Ids : raw'[j] \in {raw[j], None}
      /\ \A j : JobsQuiet(j)
      /\ Losing(S) \in SUBSET Ids /\ Orphan(Losing(S))
      /\ \A j : j \notin Losing(S) =>
           \A t \in JobSlots : Carries(jobs[t], j) => Carries(jobs'[t], j)
  BY <1>1, <1>5, CancelIs DEF IInv
<1>7. AttachOK' /\ AbortOK'
  BY <1>1, AttachSame, SameAbort DEF IInv, TypesOK
<1>8. ASSUME NEW j \in Talks, work'[j].status = "detecting"
      PROVE  \/ j \in Losing(S) \/ Carried(j)'
             \/ /\ j \in Detecting /\ (AttachCarries(j) => Carried(j)')
                /\ \A t \in JobSlots : Carries(jobs[t], j) => Carried(j)'
  <2>1. j \in Detecting
    BY <1>1, <1>8 DEF Detecting
  <2>2. AttachCarries(j) => Carried(j)'
    BY <1>1, AttachSame, CarriedNextIs
  <2> QED
    BY <1>6, <2>1, <2>2, CarriedNextIs
<1>9. ASSUME NEW j \in Talks \ mixed' PROVE Apart(j)' /\ Bounds(j)' /\ Fits(j)'
  <2>1. RowQuiet(j) /\ j \in Talks \ mixed
    BY <1>1, <1>6 DEF RowQuiet, Talks
  <2> QED
    BY <1>1, <1>6, <2>1, QuietTalk DEF IInv
<1>10. work' \in [Ids -> WorkRow] /\ \A j \in Ids \ Talks : work'[j] = work[j]
  BY <1>1 DEF IInv, TypesOK
<1> QED
  BY <1>3, <1>4, <1>6, <1>7, <1>8, <1>9, <1>10, TalksStepKeeps

\* A deletion removes the rows.
LEMMA DeletesKeeps ==
  ASSUME IInv, NEW e \in Deleters, Deletes(e)
  PROVE  IInv'
<1> DEFINE S == edit[e].ids
<1>1. /\ DeleteTalksWrites(e) \/ DeleteEventWrites(e)
      /\ work' = [i \in Ids |-> IF i \in S THEN NewWork ELSE work[i]]
      /\ NoRows(S) /\ Orphan({}) /\ mixed' = mixed \ S
      /\ UNCHANGED <<raw, spare, attach, abort>>
  BY DEF Deletes
<1>2. e \in Requests
  BY DEF Requests
<1>3. ScheduleInv'
  BY <1>1, <1>2, DeletesKeep DEF IInv, TypesOK
<1>4. Talks' = Talks \ S
  <2>1. CASE DeleteTalksWrites(e)
    BY <2>1 DEF DeleteTalksWrites, Talks
  <2>2. CASE DeleteEventWrites(e)
    <3>1. Talks \subseteq S
      BY <1>2, <2>2 DEF DeleteEventWrites, IInv, TypesOK, ScheduleInv, EditsOK
    <3>2. Talks' = {}
      BY <2>2 DEF DeleteEventWrites, Talks
    <3> QED
      BY <3>1, <3>2
  <2> QED
    BY <1>1, <2>1, <2>2
<1> HIDE DEF S
<1>5. work' \in [Ids -> WorkRow] /\ \A i \in Ids : work'[i] = IF i \in S THEN NewWork ELSE work[i]
  BY <1>1, NewWorkIs DEF IInv, TypesOK
<1>6. /\ jobs' \in [JobSlots -> Job] /\ \A t \in JobSlots : JobOK(jobs'[t])
      /\ \A j : JobsQuiet(j)
      /\ \A j : j \notin S => \A t \in JobSlots : Carries(jobs[t], j) => Carries(jobs'[t], j)
  BY <1>1, NoRowsIs DEF IInv
<1>7. TypesOK'
  <2>1. AttachOK'
    BY <1>1, AttachSame DEF IInv, TypesOK
  <2>2. AbortOK'
    BY <1>1 DEF IInv, TypesOK, AbortOK
  <2> QED
    BY <1>1, <1>3, <1>5, <1>6, <2>1, <2>2 DEF IInv, TypesOK
<1>8. WorkOK'
  <2>1. \A i \in Ids \ Talks' : work'[i] = NewWork
    BY <1>4, <1>5 DEF IInv, WorkOK
  <2> QED
    BY <1>1, <2>1, OrphansAreDetecting DEF IInv
<1>9. DetectingIsCarried'
  <2> SUFFICES ASSUME NEW i \in Detecting' PROVE i \in orphaned' \/ Carried(i)'
    BY DEF DetectingIsCarried
  <2>1. i \in Ids /\ i \in Talks /\ i \notin S /\ work'[i].status = "detecting"
    BY <1>4 DEF Detecting, Talks
  <2>2. i \in Detecting
    BY <1>5, <2>1 DEF Detecting
  <2>3. \A t \in JobSlots : Carries(jobs[t], i) => Carried(i)'
    BY <1>6, <2>1, CarriedNextIs
  <2>4. AttachCarries(i) => Carried(i)'
    BY <1>1, AttachSame, CarriedNextIs
  <2> QED
    BY <1>1, <2>1, <2>2, <2>3, <2>4, CarriedOn DEF IInv
<1>10. TalksOK'
  <2> SUFFICES ASSUME NEW i \in Talks' \ mixed' PROVE Apart(i)' /\ Bounds(i)' /\ Fits(i)'
    BY DEF TalksOK
  <2>1. i \in Talks \ mixed /\ i \notin S /\ i \in Ids
    BY <1>1, <1>4 DEF Talks
  <2>2. RowQuiet(i)
    BY <1>1, <1>5, <2>1 DEF RowQuiet
  <2> QED
    BY <1>1, <1>6, <2>1, <2>2, QuietTalk DEF IInv
<1> QED
  BY <1>7, <1>8, <1>9, <1>10 DEF IInv

\* Nothing changes but the requests of Schedule, or nothing at all.
LEMMA RoomsStandStill ==
  ASSUME IInv, ScheduleInv', UNCHANGED <<talk, roomVars>>
  PROVE  IInv'
<1>1. UNCHANGED <<work, raw, spare, jobs, attach, abort, orphaned, mixed>> /\ Talks' = Talks
  BY DEF roomVars, Talks
<1>2. AttachOK' /\ AbortOK' /\ Orphan({})
  BY <1>1, AttachSame, SameAbort, NobodyIsOrphaned DEF IInv, TypesOK
<1>3. /\ work' \in [Ids -> WorkRow] /\ \A j \in Ids \ Talks : work'[j] = work[j]
      /\ raw' \in [Ids -> Recordings \cup {None}] /\ spare' \in [Ids -> Recordings \cup {None}]
  BY <1>1 DEF IInv, TypesOK
<1>4. /\ jobs' \in [JobSlots -> Job] /\ \A t \in JobSlots : JobOK(jobs'[t])
      /\ \A i : JobsQuiet(i)
      /\ \A i : \A t \in JobSlots : Carries(jobs[t], i) => Carried(i)'
  BY <1>1, SameJobs DEF IInv
<1>5. ASSUME NEW j \in Talks, work'[j].status = "detecting"
      PROVE  j \in Detecting /\ (AttachCarries(j) => Carried(j)')
  BY <1>1, <1>5, AttachSame, CarriedNextIs DEF Detecting
<1>6. ASSUME NEW j \in Talks \ mixed' PROVE Apart(j)' /\ Bounds(j)' /\ Fits(j)'
  <2>1. RowQuiet(j) /\ j \in Talks \ mixed
    BY <1>1 DEF RowQuiet
  <2> QED
    BY <1>1, <1>4, <2>1, QuietTalk DEF IInv
<1> QED
  BY <1>1, <1>2, <1>3, <1>4, <1>5, <1>6, TalksStepKeeps

\* A deletion gives up.
LEMMA DeleteFailsKeeps ==
  ASSUME IInv, NEW e \in Deleters, DeleteFails(e)
  PROVE  IInv'
<1>1. e \in Requests /\ Done(e) /\ UNCHANGED <<event, rooms, talk, roomVars>>
  BY DEF DeleteFails, Requests
<1>2. ScheduleInv'
  BY <1>1, NothingIsWritten DEF IInv, TypesOK
<1> QED
  BY <1>1, <1>2, RoomsStandStill

-------------------------------------------------------------------------------
(* The module as a whole *)

\* The detection of a talk that had its own recording at the start.
LEMMA FirstJobsAre ==
  ASSUME RoomInit
  PROVE  /\ jobs \in [JobSlots -> Job] /\ \A s \in JobSlots : JobOK(jobs[s])
         /\ \A s \in JobSlots, i \in Ids : WorksOn(jobs[s], i) =>
              s = i /\ jobs[s].fn = "detect" /\ jobs[s].phase = "queued"
         /\ \A i \in Ids : Uploaded[i] # None => i \in JobSlots /\ Carries(jobs[i], i)
<1>1. jobs = [s \in JobSlots |-> IF s \in Ids /\ Uploaded[s] # None
                                 THEN DetectJob(s, None) ELSE NoJob]
  BY DEF RoomInit
<1>2. ASSUME NEW s \in JobSlots
      PROVE  /\ jobs[s] \in Job /\ JobOK(jobs[s])
             /\ \A i : WorksOn(jobs[s], i) =>
                  s = i /\ jobs[s].fn = "detect" /\ jobs[s].phase = "queued"
             /\ s \in Ids /\ Uploaded[s] # None => Carries(jobs[s], s)
  <2>1. CASE s \in Ids /\ Uploaded[s] # None
    <3> DEFINE new == DetectJob(s, None)
    <3>1. jobs[s] = new
      BY <1>1, <2>1
    <3>2. /\ new \in Job /\ JobOK(new) /\ new.fn = "detect" /\ new.phase = "queued"
          /\ Carries(new, s) /\ \A i : WorksOn(new, i) => i = s
      BY <2>1, DetectJobDoes
    <3> HIDE DEF new
    <3> QED
      BY <3>1, <3>2
  <2>2. CASE ~(s \in Ids /\ Uploaded[s] # None)
    <3>1. jobs[s] = NoJob
      BY <1>1, <2>2
    <3> QED
      BY <2>2, <3>1, NoJobIsOK
  <2> QED
    BY <2>1, <2>2
<1>3. jobs \in [JobSlots -> Job]
  <2>1. jobs = [s \in JobSlots |-> jobs[s]]
    BY <1>1
  <2> QED
    BY <1>2, <2>1
<1> QED
  BY <1>2, <1>3, UploadedAssumption

\* The invariant holds in the initial state.
LEMMA RoomInitIsInv ==
  ASSUME RoomInit
  PROVE  IInv
<1>1. /\ event = TRUE /\ talk = Scheduled
      /\ rooms = {Scheduled[i].room : i \in Talks} \ {None}
      /\ edit = [e \in Requests |-> NoEdit]
      /\ raw = Uploaded /\ spare = [i \in Ids |-> None]
      /\ attach = NoAttach /\ abort = NoAbort /\ orphaned = {}
      /\ work = [i \in Ids |-> IF Uploaded[i] = None THEN NewWork
                               ELSE [NewWork EXCEPT !.status = "detecting"]]
  BY DEF RoomInit
<1>2. /\ talk \in [Ids -> Row \cup {None}] /\ \A i \in Talks : i \in Ids /\ talk[i] \in Row
      /\ Talks = {j \in Ids : Scheduled[j] # None}
  BY <1>1, ScheduledAssumption DEF Talks
<1>3. ScheduleInv
  <2>1. \A i \in Talks : talk[i].room \in Names \cup {None}
    BY <1>2, RowsHave
  <2>2. rooms \subseteq Names /\ \A i \in Talks : talk[i].room \in rooms \cup {None}
    BY <1>1, <2>1
  <2>3. \A a, b \in rooms : SameName(a, b) => a = b
    BY <1>1, <1>2, ScheduledAssumption
  <2>4. edit \in [Requests -> Edit] /\ \A e \in Requests : edit[e].op = "none"
    BY <1>1, NoEditIsEdit
  <2> QED
    BY <1>1, <1>2, <2>2, <2>3, <2>4 DEF ScheduleInv, ScheduleTypeOK, RoomsRegistered, EditsOK
<1>4. ASSUME NEW i \in Ids
      PROVE  /\ work[i] \in WorkRow /\ Cut(work[i]) = NoCut
             /\ work[i].status = IF Uploaded[i] = None THEN "waiting_for_files" ELSE "detecting"
             /\ Uploaded[i] = None => work[i] = NewWork
  <2>1. work[i] = IF Uploaded[i] = None THEN NewWork
                  ELSE [NewWork EXCEPT !.status = "detecting"]
    BY <1>1
  <2> QED
    BY <2>1, NewWorkIs, MarkIs, StatusesAre
<1>5. work \in [Ids -> WorkRow]
  <2>1. work = [i \in Ids |-> work[i]]
    BY <1>1
  <2> QED
    BY <1>4, <2>1
<1>6. /\ jobs \in [JobSlots -> Job] /\ \A s \in JobSlots : JobOK(jobs[s])
      /\ \A s \in JobSlots, i \in Ids : WorksOn(jobs[s], i) =>
           s = i /\ jobs[s].fn = "detect" /\ jobs[s].phase = "queued"
      /\ \A i \in Ids : Uploaded[i] # None => i \in JobSlots /\ Carries(jobs[i], i)
  BY FirstJobsAre
<1>7. /\ attach \in Attach /\ attach.phase = "idle" /\ Mine = {}
  BY <1>1, NoAttachIs DEF Mine
<1>8. TypesOK
  <2>1. AttachOK
    BY <1>7 DEF AttachOK
  <2>2. AbortOK
    BY <1>1 DEF AbortOK
  <2>3. raw \in [Ids -> Recordings \cup {None}] /\ spare \in [Ids -> Recordings \cup {None}]
    BY <1>1, UploadedAssumption
  <2> QED
    BY <1>3, <1>5, <1>6, <2>1, <2>2, <2>3 DEF TypesOK
<1>9. WorkOK
  <2>1. \A i \in Ids \ Talks : work[i] = NewWork
    BY <1>2, <1>4, UploadedAssumption
  <2> QED
    BY <1>1, <2>1 DEF WorkOK
<1>10. DetectingIsCarried
  <2> SUFFICES ASSUME NEW i \in Detecting PROVE Carried(i)
    BY DEF DetectingIsCarried
  <2>1. i \in Ids /\ Uploaded[i] # None
    BY <1>2, <1>4 DEF Detecting
  <2> QED
    BY <1>6, <2>1, CarriedIs
<1>11. TalksOK
  <2> SUFFICES ASSUME NEW i \in Talks PROVE Apart(i) /\ Bounds(i) /\ Fits(i)
    BY DEF TalksOK
  <2>1. i \in Ids /\ ~Reserved(i)
    BY <1>2, <1>7 DEF Reserved
  <2>2. Apart(i)
    BY <1>6, <2>1 DEF Apart
  <2>3. Bounds(i)
    BY <1>4, <1>6, <1>7, <2>1 DEF Bounds, Within
  <2>4. Fits(i)
    BY <1>4, <2>1 DEF Fits
  <2> QED
    BY <2>2, <2>3, <2>4
<1> QED
  BY <1>8, <1>9, <1>10, <1>11 DEF IInv

\* Every step of the schedule, of a deletion and of an abort keeps it.
LEMMA ScheduleStepsKeep ==
  ASSUME IInv, ScheduleSteps
  PROVE  IInv'
<1>1. CASE Edits
  BY <1>1, EditsKeeps
<1>2. ASSUME NEW e \in Deleters, Cancels(e) \/ Deletes(e) \/ DeleteFails(e) PROVE IInv'
  BY <1>2, CancelsKeeps, DeletesKeeps, DeleteFailsKeeps
<1>3. CASE ((\E i \in Ids : AbortReads(i)) \/ AbortFails) /\ UNCHANGED scheduleVars
  BY <1>3, AbortLooksKeeps
<1>4. CASE (AbortCancels \/ AbortResets) /\ UNCHANGED scheduleVars
  BY <1>4, AbortCancelsKeeps, AbortResetsKeeps
<1> QED
  BY <1>1, <1>2, <1>3, <1>4 DEF ScheduleSteps

\* Every step of the request that attaches does.
LEMMA AttachStepsKeep ==
  ASSUME IInv, AttachSteps, UNCHANGED <<scheduleVars, abort>>
  PROVE  IInv'
<1>1. CASE FileCommits
  BY <1>1, FileCommitsKeeps
<1>2. CASE UNCHANGED mixed /\ (UrlCancels \/ UrlMarks \/ UrlEnqueues \/ UrlRefused)
  BY <1>2, UrlCancelsKeeps, UrlMarksKeeps, UrlEnqueuesKeeps, UrlRefusedKeeps
<1>3. CASE UNCHANGED mixed /\ (FileRejected \/ FileCancels \/ FileStages \/ FileFails)
  BY <1>3, FileRejectedKeeps, FileCancelsKeeps, FileStagesKeeps, FileFailsKeeps
<1>4. CASE UNCHANGED mixed /\ (FileEnqueues \/ FileRefused \/ AttachDies)
  BY <1>4, FileEnqueuesKeeps, FileRefusedKeeps, AttachDiesKeeps
<1> QED
  BY <1>1, <1>2, <1>3, <1>4 DEF AttachSteps

\* Every step of a job does.
LEMMA JobStepsKeep ==
  ASSUME IInv, NEW s \in JobSlots, JobSteps(s), UNCHANGED <<scheduleVars, abort>>
  PROVE  IInv'
<1>1. UNCHANGED <<scheduleVars, abort, mixed>>
  BY DEF JobSteps
<1>2. CASE RoomJobStarts(s) \/ RoomJobFindsNothing(s) \/ RoomJobAttaches(s) \/ RoomJobEnqueues(s)
  BY <1>1, <1>2, RoomJobStartsKeeps, RoomJobFindsNothingKeeps, RoomJobAttachesKeeps,
     RoomJobEnqueuesKeeps
<1>3. ASSUME NEW linked \in SUBSET Ids, RoomJobFails(s, linked) PROVE IInv'
  BY <1>1, <1>3, RoomJobFailsKeeps
<1>4. CASE DetectStarts(s) \/ DetectPasses(s) \/ DetectFails(s) \/ JobDies(s)
  BY <1>1, <1>4, DetectStartsKeeps, DetectPassesKeeps, DetectFailsKeeps, JobDiesKeeps
<1> QED
  BY <1>2, <1>3, <1>4 DEF JobSteps

\* Every step of the system does.
LEMMA RoomNextKeepsInv ==
  ASSUME IInv, [Next]_vars
  PROVE  IInv'
<1>1. CASE UNCHANGED vars
  <2>1. UNCHANGED <<scheduleVars, roomVars>>
    BY <1>1 DEF vars
  <2>2. ScheduleInv' /\ talk' = talk
    BY <2>1, SameSchedule DEF IInv, TypesOK
  <2> QED
    BY <2>1, <2>2, RoomsStandStill
<1>2. CASE ScheduleSteps
  BY <1>2, ScheduleStepsKeep
<1>3. ASSUME NEW src \in {"url", "file"}, NEW room \in Names, NEW rec \in Recordings,
             NEW start \in Starts, NEW day, AttachReads(src, room, rec, start, day),
             UNCHANGED <<scheduleVars, abort>>
      PROVE  IInv'
  BY <1>3, AttachReadsKeeps
<1>4. CASE AttachSteps /\ UNCHANGED <<scheduleVars, abort>>
  BY <1>4, AttachStepsKeep
<1>5. ASSUME NEW s \in JobSlots, JobSteps(s), UNCHANGED <<scheduleVars, abort>> PROVE IInv'
  BY <1>5, JobStepsKeep
<1> QED
  BY <1>1, <1>2, <1>3, <1>4, <1>5 DEF Next

\* It holds in every reachable state.
LEMMA IInvHolds == Spec => []IInv
<1>1. RoomInit => IInv
  BY RoomInitIsInv
<1>2. IInv /\ [Next]_vars => IInv'
  BY RoomNextKeepsInv
<1> QED
  BY <1>1, <1>2, PTL DEF Spec

\* Every variable keeps its type.
THEOREM RoomTypesHold == Spec => []RoomTypeOK
<1>1. IInv => RoomTypeOK
  BY DEF IInv, TypesOK, WorkOK, ScheduleInv, RoomTypeOK, WorkRow, Job
<1> QED
  BY <1>1, IInvHolds, PTL

\* What Schedule promises of its rooms holds beside everything else that goes
\* on: create_event_room and its like never leave a talk in a room that is not
\* registered, whatever attach_room_recording and the jobs do meanwhile.
THEOREM RoomsStayRegisteredHere == Spec => []RoomsRegistered
<1>1. IInv => RoomsRegistered
  BY DEF IInv, TypesOK, ScheduleInv
<1> QED
  BY <1>1, IInvHolds, PTL

\* job_ingest_room_url, job_detect and attach_room_recording leave no talk that
\* says "detecting" with nobody at work on it, unless its job is cancelled, killed
\* or lost: for any number of talks, jobs and requests.
THEOREM DetectingStaysCarried == Spec => []DetectingIsCarried
<1>1. IInv => DetectingIsCarried
  BY DEF IInv
<1> QED
  BY <1>1, IInvHolds, PTL

\* The bounds with which a talk enters its review lie within the recording that
\* was measured, however job_ingest_room_url, job_detect and attach_room_recording
\* interleave with edits, aborts and deletions.
THEOREM CutsFitFootage == Spec => []CutFitsFootage
<1>1. IInv => CutFitsFootage
  <2> SUFFICES ASSUME TalksOK, NEW i \in Talks \ mixed, work[i].status = "pending_approval",
                      ~(work[i].cut_start = None /\ work[i].cut_end = None)
               PROVE  /\ None \notin {work[i].detected, work[i].cut_start, work[i].cut_end}
                      /\ work[i].cut_start < work[i].cut_end
                      /\ work[i].cut_end <= work[i].detected
    BY DEF IInv, CutFitsFootage
  <2>1. Cut(work[i]) # NoCut
    BY DEF Cut, NoCut
  <2>2. /\ work[i].detected # None /\ Cut(work[i]) \in Nat \X Nat
        /\ work[i].cut_start < work[i].cut_end /\ work[i].cut_end <= work[i].detected
    BY <2>1 DEF TalksOK, Fits
  <2>3. work[i].cut_start \in Nat /\ work[i].cut_end \in Nat
    BY <2>2 DEF Cut
  <2> QED
    BY <2>2, <2>3, StartsAssumption
<1> QED
  BY <1>1, IInvHolds, PTL

-------------------------------------------------------------------------------
(* What no step does *)

\* Steps of the request that do not end the staging of a file leave it in another
\* phase than idle, or begin in another phase than staging.
LEMMA StagingEnds ==
  ASSUME AttachSteps, attach.phase = "staging", attach'.phase = "idle", attach \in Attach
  PROVE  FileFails \/ AttachDies
<1>1. ~FileCommits /\ ~FileStages
  BY DEF FileCommits, FileStages, Attach
<1>2. /\ ~UrlCancels /\ ~UrlMarks /\ ~UrlEnqueues /\ ~UrlRefused /\ ~FileRejected
      /\ ~FileCancels /\ ~FileEnqueues /\ ~FileRefused
  BY DEF UrlCancels, UrlMarks, UrlEnqueues, UrlRefused, FileRejected, FileCancels,
         FileEnqueues, FileRefused
<1> QED
  BY <1>1, <1>2 DEF AttachSteps

\* Only a step of the request changes the request.
LEMMA OnlyTheRequestEnds ==
  ASSUME [Next]_vars, attach.phase # "idle", attach' # attach
  PROVE  AttachSteps
<1>1. ~UNCHANGED vars
  BY DEF vars, roomVars
<1>2. ~ScheduleSteps
  BY DEF ScheduleSteps, Edits, Cancels, Deletes, DeleteFails, AbortReads, AbortCancels,
         AbortResets, AbortFails, roomVars
<1>3. ASSUME NEW src, NEW room, NEW rec, NEW start, NEW day,
             AttachReads(src, room, rec, start, day)
      PROVE  FALSE
  BY <1>3, NoAttachIs DEF AttachReads
<1>4. ASSUME NEW s, JobSteps(s) PROVE FALSE
  BY <1>4 DEF JobSteps, RoomJobStarts, RoomJobFindsNothing, RoomJobAttaches,
     RoomJobEnqueues, RoomJobFails, DetectStarts, DetectPasses, DetectFails, JobDies
<1> QED
  BY <1>1, <1>2, <1>3, <1>4 DEF Next

\* attach_room_recording, ending the staging of a file without a commit, has put
\* back the recording a talk had before, or left it in the backup next to it.
THEOREM FootageIsPutBack == Spec => FailedAttachKeepsFootage
<1> DEFINE Kept == attach.phase = "staging" /\ attach'.phase = "idle" =>
                     \A i \in attach.backed :
                       spare[i] # None => raw'[i] = spare[i] \/ spare'[i] = spare[i]
<1>1. ASSUME IInv, [Next]_vars PROVE Kept
  <2> SUFFICES ASSUME attach.phase = "staging", attach'.phase = "idle",
                      NEW i \in attach.backed, spare[i] # None
               PROVE  raw'[i] = spare[i] \/ spare'[i] = spare[i]
    OBVIOUS
  <2>1. AttachOK /\ attach \in Attach /\ i \in Ids /\ i \in attach.staged
    BY <1>1 DEF IInv, TypesOK, AttachOK, Attach
  <2>2. AttachSteps
    BY <1>1, OnlyTheRequestEnds
  <2>3. CASE FileFails
    BY <2>1, <2>3 DEF FileFails
  <2>4. CASE AttachDies
    BY <2>4 DEF AttachDies
  <2> QED
    BY <2>1, <2>2, <2>3, <2>4, StagingEnds
<1>2. IInv /\ [Next]_vars => Kept
  BY <1>1
<1> QED
  BY <1>2, IInvHolds, PTL DEF Spec, FailedAttachKeepsFootage

\* A detection that waits for one talk alone, and is not taken from it.
Waits(s) == jobs[s].fn = "detect" /\ jobs[s].phase = "queued"

\* No step of a job cancels a detection that waits.
LEMMA JobStepsSpareWaiting ==
  ASSUME IInv, NEW t \in JobSlots, JobSteps(t), NEW s \in JobSlots, Waits(s),
         FirstOf(jobs[s].ids) \in Detecting
  PROVE  jobs'[s].fn = "detect"
<1>1. jobs \in [JobSlots -> Job] /\ \A u \in JobSlots : JobOK(jobs[u])
  BY DEF IInv, TypesOK
<1>2. CASE RoomJobEnqueues(t)
  <2> DEFINE i == FirstOf(jobs[t].todo)
             rest == IF jobs[t].todo = {i} THEN NoJob
                     ELSE [jobs[t] EXCEPT !.todo = @ \ {i}, !.claimed = @ \ {i}]
             table == [jobs EXCEPT ![t] = rest]
             new == DetectJob(i, None)
  <2>1. /\ jobs[t].fn = "room" /\ jobs' = Enqueued(table, new)
        /\ jobs[t].todo = {i} \/ \E u \in JobSlots : jobs[u].fn = "none"
    BY <1>2 DEF RoomJobEnqueues, FreeSlots
  <2>2. s # t /\ table[s] = jobs[s] /\ DOMAIN table = JobSlots
    BY <1>1, <2>1 DEF Waits
  <2> HIDE DEF i
  <2>3. rest.fn = "none" \/ \E u \in JobSlots : jobs[u].fn = "none"
    BY <2>1, NoJobIsOK
  <2> HIDE DEF rest
  <2>4. \E u \in JobSlots : table[u].fn = "none"
    BY <1>1, <2>1, <2>3
  <2>5. PICK u \in JobSlots : table[u].fn = "none" /\ jobs' = [table EXCEPT ![u] = new]
    BY <2>1, <2>4 DEF Enqueued
  <2> HIDE DEF table
  <2>6. s # u
    BY <2>2, <2>5 DEF Waits
  <2> QED
    BY <2>2, <2>5, <2>6 DEF Waits
<1>3. CASE DetectStarts(t)
  <2>1. CASE s = t
    <3>1. jobs' = [jobs EXCEPT ![s].phase = "measuring", ![s].rec = raw[FirstOf(jobs[s].ids)],
                               ![s].row = TRUE]
      BY <1>3, <2>1 DEF DetectStarts
    <3>2. jobs[s] \in Job
      BY <1>1
    <3> HIDE DEF FirstOf
    <3> QED
      BY <1>1, <3>1, <3>2 DEF Job, Waits
  <2>2. CASE s # t
    BY <1>1, <1>3, <2>2 DEF DetectStarts, Free, Waits
  <2> QED
    BY <2>1, <2>2
<1>4. CASE RoomJobStarts(t)
  BY <1>1, <1>4 DEF RoomJobStarts, Waits
<1>5. CASE RoomJobAttaches(t)
  BY <1>1, <1>5 DEF RoomJobAttaches, Waits
<1>6. CASE \/ RoomJobFindsNothing(t) \/ \E linked \in SUBSET Ids : RoomJobFails(t, linked)
           \/ DetectPasses(t) \/ DetectFails(t) \/ JobDies(t)
  <2>1. Free(t) /\ ~Waits(t)
    BY <1>6 DEF RoomJobFindsNothing, RoomJobFails, DetectPasses, DetectFails, JobDies, Waits
  <2> QED
    BY <1>1, <2>1 DEF Free, Waits
<1> QED
  BY <1>2, <1>3, <1>4, <1>5, <1>6 DEF JobSteps

\* Cancelling the jobs of S ends the detection of no other talk.
LEMMA CancelSparesWaiting ==
  ASSUME TypesOK, NEW S, NEW wipe, Cancel(S, wipe), NEW s \in JobSlots, Waits(s),
         FirstOf(jobs[s].ids) \notin S
  PROVE  jobs'[s].fn = "detect"
<1>1. jobs[s].ids = {FirstOf(jobs[s].ids)}
  BY DetectJobHas DEF Waits
<1>2. s \notin JobsOf(S)
  BY <1>1 DEF JobsOf
<1> QED
  BY <1>2 DEF Cancel, Waits

\* The request cancels only those of talks it has loaded.
LEMMA AttachStepsSpareWaiting ==
  ASSUME IInv, AttachSteps, NEW s \in JobSlots, Waits(s), jobs'[s].fn # "detect"
  PROVE  FirstOf(jobs[s].ids) \in DOMAIN attach'.seen
<1>1. jobs \in [JobSlots -> Job] /\ attach \in Attach /\ TypesOK
  BY DEF IInv, TypesOK, AttachOK
<1>2. ASSUME NEW job, jobs' = Enqueued(jobs, job), FreeSlots # {} PROVE FALSE
  <2>1. PICK f \in JobSlots : jobs[f].fn = "none" /\ jobs' = [jobs EXCEPT ![f] = job]
    BY <1>2 DEF Enqueued, FreeSlots
  <2> QED
    BY <1>1, <2>1 DEF Waits
<1>3. ~UrlEnqueues /\ ~FileEnqueues
  BY <1>2 DEF UrlEnqueues, FileEnqueues
<1>4. UrlCancels \/ FileCancels
  BY <1>3 DEF AttachSteps, FileCommits, UrlMarks, UrlRefused, FileRejected, FileStages,
     FileFails, FileRefused, AttachDies, Waits
<1>5. /\ DOMAIN attach'.seen = Mine
      /\ \E S \in SUBSET Mine : Cancel(S, FALSE)
  <2>1. CASE UrlCancels
    <3>1. attach' = [attach EXCEPT !.phase = "marking"] /\ Cancel(SeenDetecting(Mine), FALSE)
      BY <2>1 DEF UrlCancels
    <3>2. attach'.seen = attach.seen
      BY <1>1, <3>1 DEF Attach
    <3>3. SeenDetecting(Mine) \in SUBSET Mine
      BY DEF SeenDetecting
    <3> QED
      BY <3>1, <3>2, <3>3 DEF Mine
  <2>2. CASE FileCancels
    <3>1. /\ attach' = [attach EXCEPT !.phase = "staging", !.todo = FileMatched]
          /\ Cancel(SeenDetecting(FileMatched), FALSE)
      BY <2>2 DEF FileCancels
    <3>2. attach'.seen = attach.seen
      BY <1>1, <3>1 DEF Attach
    <3>3. SeenDetecting(FileMatched) \in SUBSET Mine
      BY DEF SeenDetecting, FileMatched
    <3> QED
      BY <3>1, <3>2, <3>3 DEF Mine
  <2> QED
    BY <1>4, <2>1, <2>2
<1> QED
  BY <1>1, <1>5, CancelSparesWaiting

\* An abort or a deletion cancels only those of its own talks.
LEMMA ScheduleStepsSpareWaiting ==
  ASSUME IInv, ScheduleSteps, NEW s \in JobSlots, Waits(s), jobs'[s].fn # "detect"
  PROVE  \/ abort'.id = FirstOf(jobs[s].ids)
         \/ \E e \in Deleters : FirstOf(jobs[s].ids) \in edit'[e].ids
<1>1. jobs \in [JobSlots -> Job] /\ TypesOK
  BY DEF IInv, TypesOK
<1>2. ASSUME NEW S, NoRows(S) PROVE FALSE
  BY <1>1, <1>2 DEF NoRows, Waits, Job
<1>3. ~Edits /\ (\A i : ~AbortReads(i)) /\ ~AbortResets /\ ~AbortFails
  BY <1>2 DEF Edits, AbortReads, AbortResets, AbortFails, Waits
<1>4. ASSUME NEW e \in Deleters PROVE ~Deletes(e) /\ ~DeleteFails(e)
  BY <1>2 DEF Deletes, DeleteFails, roomVars, Waits
<1>5. ASSUME NEW e \in Deleters, Cancels(e) PROVE FirstOf(jobs[s].ids) \in edit'[e].ids
  <2>1. Cancel(edit'[e].ids, TRUE)
    BY <1>5 DEF Cancels
  <2> DEFINE S == edit'[e].ids
  <2> HIDE DEF S
  <2>2. Cancel(S, TRUE)
    BY <2>1 DEF S
  <2>3. FirstOf(jobs[s].ids) \in S
    BY <1>1, <2>2, CancelSparesWaiting
  <2> QED
    BY <2>3 DEF S
<1>6. ASSUME AbortCancels PROVE abort'.id = FirstOf(jobs[s].ids)
  <2> DEFINE S == {abort.id}
  <2>1. Cancel(S, TRUE) /\ abort'.id = abort.id
    BY <1>1, <1>6 DEF AbortCancels, TypesOK, AbortOK, NoAbort
  <2> HIDE DEF S
  <2>2. FirstOf(jobs[s].ids) \in S
    BY <1>1, <2>1, CancelSparesWaiting
  <2> QED
    BY <2>1, <2>2 DEF S
<1> QED
  BY <1>3, <1>4, <1>5, <1>6 DEF ScheduleSteps

\* _cancel_talk_jobs, called to abort or delete a talk or to give it another
\* recording, costs no other talk the detection that waits for it alone.
THEOREM OthersAreSpared == Spec => OthersKeepTheirDetection
<1> DEFINE Spared ==
             \A s \in JobSlots :
               LET i == FirstOf(jobs[s].ids)
               IN  /\ jobs[s].fn = "detect" /\ jobs[s].phase = "queued" /\ i \in Detecting
                   /\ jobs'[s].fn # "detect"
                   => \/ abort'.id = i
                      \/ \E e \in Deleters : i \in edit'[e].ids
                      \/ i \in DOMAIN attach'.seen
<1>1. ASSUME IInv, [Next]_vars PROVE Spared
  <2> SUFFICES ASSUME NEW s \in JobSlots, Waits(s), FirstOf(jobs[s].ids) \in Detecting,
                      jobs'[s].fn # "detect"
               PROVE  \/ abort'.id = FirstOf(jobs[s].ids)
                      \/ \E e \in Deleters : FirstOf(jobs[s].ids) \in edit'[e].ids
                      \/ FirstOf(jobs[s].ids) \in DOMAIN attach'.seen
    BY DEF Waits
  <2>1. CASE UNCHANGED vars
    BY <2>1 DEF vars, roomVars, Waits
  <2>2. CASE ScheduleSteps
    BY <1>1, <2>2, ScheduleStepsSpareWaiting
  <2>3. ASSUME NEW src, NEW room, NEW rec, NEW start, NEW day,
               AttachReads(src, room, rec, start, day)
        PROVE  FALSE
    BY <2>3 DEF AttachReads, Waits
  <2>4. CASE AttachSteps
    BY <1>1, <2>4, AttachStepsSpareWaiting
  <2>5. ASSUME NEW t \in JobSlots, JobSteps(t) PROVE FALSE
    BY <1>1, <2>5, JobStepsSpareWaiting
  <2> QED
    BY <1>1, <2>1, <2>2, <2>3, <2>4, <2>5 DEF Next
<1>2. IInv /\ [Next]_vars => Spared
  BY <1>1
<1> QED
  BY <1>2, IInvHolds, PTL DEF Spec, OthersKeepTheirDetection
===============================================================================
