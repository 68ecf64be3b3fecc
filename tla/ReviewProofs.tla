----------------------------- MODULE ReviewProofs ------------------------------
(***************************************************************************)
(* What is published is what was reviewed, for every value of the          *)
(* constants.  The invariant follows the talk's one piece of work from     *)
(* slot to slot: at most one slot is engaged in it, the status is the one  *)
(* that slot's commit will ask for, and the files are those its kind of    *)
(* job has to find.  Whatever else is left of earlier attempts is told to  *)
(* stop, or is an upload that will find the talk claimed.                  *)
(***************************************************************************)
EXTENDS PipelineProofs, FiniteSetTheorems

\* Where this holds: requests do not overlap, recordings come in by upload, and
\* an abort neither fails, nor dies, nor stops a job too late.
Undisturbed ==
  /\ ~Overlap
  /\ Entries \cap {"recordings", "room"} = {}
  /\ "abort" \in Entries => Faults \subseteq {"work", "enqueue"}

\* An abort has removed the files and told the jobs to stop, and will reset
\* the row.
Wiped == \E r \in Runs : run[r].fn = "abort_talk" /\ run[r].phase = "staged"

\* Slot s takes part in the work on the talk.  An upload in the queue does not
\* yet, nor one that has given its claim back.
Engaged(s) ==
  /\ s.phase # "free" /\ ~s.stop /\ s.fn # "abort_talk"
  /\ s.fn = "ingest" => s.phase \notin {"queued", "rolledback"}

\* job_ingest has given its claim back and will break the talk.
Reverting(s) == s.fn = "ingest" /\ s.phase = "rolledback" /\ ~s.stop

\* What does not depend on the talk or its files: the phases of each kind of
\* slot, who can be told to stop, the Job row.
SlotOK(s) ==
  /\ s.phase \in Executing \cup {"queued"} => s.fn \in JobKinds
  /\ s.phase = "rolledback" => s.fn = "ingest"
  /\ s.phase = "sending" => s.fn \in {"submit_cut", "assembly", "cleanup"}
  /\ s.phase \in {"reading", "staged"} => s.fn = "abort_talk"
  /\ s.phase = "free" => s = Idle
  /\ s.fn = "abort_talk" => "abort" \in Entries /\ s.phase \in {"reading", "staged"}
  /\ s.stop => s.phase \in Executing /\ "abort" \in Entries
  /\ s.fn \in {"ingest", "detect"} => s.key = UploadKey
  /\ s.fn = "detect" => s.bounds = None
  /\ s.fn = "ingest" /\ s.phase \in {"failing", "rolledback"} =>
       Faults \cap {"work", "enqueue"} # {}
  /\ Engaged(s) =>
       /\ s.row # "deleted"
       /\ s.phase \in {"started", "stored"} => s.row = "running"

\* The statuses the talk has while slot s is engaged, if nothing breaks it.
Awaited(s) ==
  IF s.phase \in {"committed", "sending"}
  THEN IF s.fn = "cleanup" THEN {"pending_bounds", "rejected"}
       ELSE IF s.fn = "publish" THEN {"done"} ELSE {HandsOver(s.fn)}
  ELSE IF s.phase = "failing" /\ s.fn # "ingest" THEN Processing
  ELSE {WorksFor(s.fn)}

-------------------------------------------------------------------------------
(* The files *)

\* The cut that the row of the talk asks for.
Asked == Footage(talk.detected, talk.bounds)

\* The bounds lie within the recording that was detected.
Settled == talk.detected \in Recordings /\ talk.bounds \in Fits[talk.detected]

\* The slates that are stored are the ones the row asks for.
SlatesStored == \A k \in ClipKeys : clip[k] = talk[k]

\* Video v is the cut the row asks for, with its slates.
Complete(v) ==
  /\ v # None /\ SameCut(v, Asked)
  /\ \A k \in ClipKeys : v[k] = talk[k]

\* The jobs that follow an approval.
Assembling ==
  {"assembly", "intro", "outro", "concat", "loudness", "transcode", "publish"}

\* What the cut and its preview rest on, from submit_cut_bounds to job_preview.
CutOK(s) ==
  /\ s.fn = "detect" /\ s.phase = "started" => s.input.rec = raw[UploadKey]
  /\ s.fn \in {"submit_cut", "cut"} /\ s.phase \in {"sending", "queued"} =>
       s.key = UploadKey /\ raw[UploadKey] \in {None, talk.detected}
  /\ s.fn \in {"submit_cut", "cut", "preview"} => Settled
  /\ s.fn \in {"cut", "preview"} /\ s.phase = "started" => s.input = Asked
  /\ s.fn = "cut" /\ s.phase \in {"stored", "committed"} => media["cut"] = Asked
  /\ s.fn = "preview" => media["cut"] = Asked
  /\ s.fn = "preview" /\ s.phase = "stored" => media["preview"] = Asked

\* What the assembly rests on, from the approval to job_loudness.
AssemblyOK(s) ==
  /\ s.fn \in Assembling => Settled /\ reviewed = Asked
  /\ s.fn \in {"assembly", "intro", "outro", "concat"} => media["cut"] = Asked
  /\ s.fn \in ClipKeys => talk[s.fn] = "generated"
  /\ s.fn = "concat" /\ s.phase = "queued" => \A k \in ClipKeys : s.seen[k] = talk[k]
  /\ s.fn \in {"concat", "loudness"} /\ s.phase = "started" => s.input = Asked
  /\ s.fn = "concat" /\ s.phase \in {"stored", "committed"} => media["assemble"] = Asked
  /\ s.fn = "concat" /\ s.phase # "queued" => SlatesStored
  /\ s.fn = "loudness" => SlatesStored
  /\ s.fn = "loudness" /\ s.phase = "queued" => media["assemble"] = Asked
  /\ s.fn = "loudness" /\ s.phase \in {"stored", "committed"} => media["loud"] = Asked

\* What the last two jobs rest on.
FinalOK(s) ==
  /\ s.fn = "transcode" /\ s.phase = "queued" => media["loud"] = Asked /\ SlatesStored
  /\ s.fn \in {"transcode", "publish"} /\ s.phase = "started" => Complete(s.input)
  /\ s.fn \in {"transcode", "publish"} /\ s.phase \in {"stored", "committed"} =>
       Complete(media["final"])
  /\ s.fn = "publish" /\ s.phase = "queued" => Complete(media["final"])

\* The slot that is engaged: its commit will find the status it asks for, or
\* the talk broken; and unless it has failed, it finds its files.
EngagedOK(s) ==
  Engaged(s) =>
    /\ talk.status \in Awaited(s) \cup {"broken"}
    /\ s.phase # "failing" => CutOK(s) /\ AssemblyOK(s) /\ FinalOK(s)

-------------------------------------------------------------------------------
(* The invariant *)

\* The statuses before the first choice of slates, and those of the rounds of
\* cutting, while the recording that was detected is the one stored.
Early == {"waiting_for_files", "detecting", "pending_approval", "pending_intro_outro"}
Measured ==
  {"pending_approval", "pending_intro_outro", "pending_bounds", "needs_work", "cutting",
   "generating_previews", "preview"}

\* Where jobs alone can take a talk that waits for files.
Fresh == {"waiting_for_files", "detecting", "pending_approval", "broken"}

\* The row of the talk and its files.
TalkOK ==
  /\ talk.status \in Early => media = [k \in MediaKeys |-> None] /\ clip = NoClips
  /\ talk.status \in Measured => raw[UploadKey] \in {None, talk.detected}
  /\ \A k \in RawKeys \ {UploadKey} : raw[k] = None
  /\ \A k \in ClipKeys : clip[k] \in {"none", talk[k]}
  /\ CutWithinFile
  /\ ApprovedIsShown

\* What is under review, and what is published, is what the row asks for.
ShownOK ==
  /\ talk.status = "preview" => Settled /\ media["cut"] = Asked /\ media["preview"] = Asked
  /\ talk.status = "done" => Settled /\ reviewed = Asked /\ Complete(media["final"])

\* One request at a time.
OneRequest ==
  \A r, s \in Runs : run[r].fn \in Requests /\ run[s].fn \in Requests => r = s

\* One slot at most takes part in the work on the talk.
OneEngaged == \A r, s \in Runs : Engaged(run[r]) /\ Engaged(run[s]) => r = s

\* An abort that read the talk as waiting finds it hardly further; and when it
\* has taken the talk apart, no job is left that has not been told to stop.
AbortsOK ==
  /\ \A r \in Runs :
       run[r].fn = "abort_talk" /\ run[r].seen.status = "waiting_for_files" =>
         talk.status \in Fresh
  /\ Wiped =>
       /\ media = [k \in MediaKeys |-> None] /\ clip = NoClips
       /\ raw = [k \in RawKeys |-> None]
       /\ \A r \in Runs : run[r].fn \in JobKinds => run[r].stop

\* Where no job and no message is lost, a status that only a job can end has a
\* slot engaged in ending it.
CarriedOn ==
  /\ Faults \cap {"enqueue", "crash"} = {}
  /\ talk.status \in Processing \ {"detecting"} /\ ~Wiped
  => \E r \in Runs : Engaged(run[r])

\* Where one worker serves the light queue, or nothing makes job_ingest fail,
\* nobody claims a talk between its two transactions.
OneReverts ==
  \/ Faults \cap {"work", "enqueue"} = {}
  \/ LightWorkers <= 1 /\ IsFiniteSet(Runs)

\* Between the two transactions of a failing job_ingest, nobody works on the talk.
RevertsOK ==
  OneReverts /\ (\E r \in Runs : Reverting(run[r])) =>
    /\ \A r \in Runs : ~Engaged(run[r])
    /\ talk.status \in {"waiting_for_files", "broken"}

\* The inductive invariant.
Guarded ==
  /\ Undisturbed /\ IInv
  /\ \A r \in Runs : SlotOK(run[r])
  /\ OneRequest /\ OneEngaged
  /\ TalkOK /\ (Wiped \/ ShownOK)
  /\ \A r \in Runs : EngagedOK(run[r])
  /\ AbortsOK /\ CarriedOn /\ RevertsOK

-------------------------------------------------------------------------------
(* What the invariant says of one slot *)

\* Every slot is a record of its type.
LEMMA SlotType == ASSUME IInv, NEW r \in Runs PROVE run[r] \in Run /\ WellFormed(run[r])
  BY DEF IInv, RunsOK, Slot

\* A slot that goes on has not been told to stop: "late" is no fault here.
LEMMA AliveGoesOn ==
  ASSUME Guarded, NEW r \in Runs, Alive(r) PROVE ~run[r].stop
  BY DEF Guarded, Undisturbed, SlotOK, Alive

\* A job in the queue has not been told to stop either.
LEMMA QueuedGoesOn ==
  ASSUME NEW r \in Runs, SlotOK(run[r]), run[r].phase = "queued" PROVE ~run[r].stop
  BY DEF SlotOK, Executing

\* The status that is awaited is one of processing, but of a clean-up and at
\* the very end.
LEMMA AwaitedIs ==
  ASSUME NEW s \in Run, SlotOK(s), Engaged(s)
  PROVE  \/ Awaited(s) \subseteq Processing \cup {"none"}
         \/ s.fn = "cleanup" /\ Awaited(s) = {"pending_bounds", "rejected"}
         \/ s.fn = "publish" /\ s.phase = "committed" /\ Awaited(s) = {"done"}
<1>1. CASE s.phase = "sending"
  BY <1>1 DEF SlotOK, Awaited, HandsOver, Processing
<1>2. CASE s.phase = "committed"
  <2>1. s.fn \in JobKinds
    BY <1>2 DEF SlotOK, Executing
  <2> QED
    BY <1>2, <2>1 DEF Awaited, HandsOver, Processing, JobKinds
<1>3. CASE s.phase \in (Executing \cup {"queued"}) \ {"committed"}
  <2>1. s.fn \in JobKinds
    BY <1>3 DEF SlotOK, Executing
  <2> QED
    BY <1>3, <2>1 DEF Awaited, WorksFor, Processing, JobKinds, Executing
<1>4. CASE s.phase \in {"free", "reading", "staged"}
  BY <1>4 DEF SlotOK, Engaged
<1> QED
  BY <1>1, <1>2, <1>3, <1>4 DEF Run, Phases

\* While people decide, nobody is engaged but a clean-up; and so while a talk
\* waits for files.
LEMMA NobodyEngaged ==
  ASSUME Guarded, NEW r \in Runs, Engaged(run[r])
  PROVE  \/ talk.status \in Processing \cup {"broken"}
         \/ run[r].fn = "cleanup" /\ talk.status \in {"pending_bounds", "rejected"}
         \/ run[r].fn = "publish" /\ talk.status = "done"
<1>1. run[r] \in Run /\ SlotOK(run[r])
  BY SlotType DEF Guarded
<1>2. talk.status \in Awaited(run[r]) \cup {"broken"}
  BY DEF Guarded, EngagedOK
<1>3. talk.status # "none"
  BY DEF Guarded, IInv, RowsOK, TalkRow, TalkStatus
<1> QED
  BY <1>1, <1>2, <1>3, AwaitedIs

\* Who is engaged is alone, and no abort has taken the talk apart.
LEMMA EngagedAlone ==
  ASSUME Guarded, NEW r \in Runs, Engaged(run[r])
  PROVE  /\ \A t \in Runs \ {r} : ~Engaged(run[t])
         /\ ~Wiped
<1>1. \A t \in Runs \ {r} : ~Engaged(run[t])
  BY DEF Guarded, OneEngaged
<1>2. ASSUME NEW a \in Runs, run[a].fn = "abort_talk", run[a].phase = "staged" PROVE FALSE
  <2>1. run[r] \in Run /\ SlotOK(run[r])
    BY SlotType DEF Guarded
  <2>2. run[r].fn \notin JobKinds
    BY <1>2 DEF Guarded, AbortsOK, Wiped, Engaged
  <2>3. run[r].phase = "sending"
    BY <2>1, <2>2 DEF SlotOK, Engaged, Run, Phases
  <2>4. r = a
    BY <1>2, <2>1, <2>3 DEF SlotOK, Requests, Guarded, OneRequest
  <2> QED
    BY <1>2 , <2>4 DEF Engaged
<1> QED
  BY <1>1, <1>2 DEF Wiped

-------------------------------------------------------------------------------
(* Steps that touch one slot                                               *)

\* The statuses do not change roles: a talk that waits, or is decided upon, is
\* in none of the statuses a job works for.
LEMMA Roles ==
  /\ Early \cap {"broken", "preview", "done"} = {}
  /\ Measured \cap {"detecting", "broken", "done"} = {}
  /\ Fresh \cap Processing = {"detecting"}
  /\ Early \cap Processing = {"detecting"}
  BY DEF Early, Measured, Fresh, Processing

\* A step of the slot that is engaged, or of a request that begins while none
\* is: every other slot keeps out of the work and is left alone.
LEMMA Alone ==
  ASSUME Guarded, IInv', NEW r \in Runs,
         \A t \in Runs \ {r} : run'[t] = run[t] /\ ~Engaged(run[t]),
         ~Wiped, run'[r].fn # "abort_talk",
         run'[r].fn \in Requests => \A t \in Runs \ {r} : run[t].fn \notin Requests,
         SlotOK(run'[r]), EngagedOK(run[r])', TalkOK', ShownOK',
         (\E t \in Runs : run[t].fn = "abort_talk") /\ talk.status \in Fresh =>
           talk'.status \in Fresh,
         /\ Faults \cap {"enqueue", "crash"} = {}
         /\ talk'.status \in Processing \ {"detecting"}
         => Engaged(run'[r]),
         OneReverts => \A t \in Runs \ {r} : ~Reverting(run[t]),
         OneReverts /\ Reverting(run'[r]) => talk'.status \in {"waiting_for_files", "broken"}
  PROVE  Guarded'
<1>1. Undisturbed'
  BY DEF Guarded, Undisturbed
<1>2. \A t \in Runs : SlotOK(run'[t])
  BY DEF Guarded
<1>3. OneRequest'
  BY DEF Guarded, OneRequest
<1>4. OneEngaged'
  BY DEF OneEngaged
<1>5. ~Wiped'
  BY DEF Wiped
<1>6. \A t \in Runs \ {r} : ~Engaged(run'[t])
  OBVIOUS
<1>7. \A t \in Runs : EngagedOK(run[t])'
  BY <1>6 DEF EngagedOK
<1>8. AbortsOK'
  BY <1>5 DEF Guarded, AbortsOK
<1>9. CarriedOn'
  BY DEF CarriedOn
<1>10. RevertsOK'
  <2> SUFFICES ASSUME OneReverts, NEW t \in Runs, Reverting(run'[t])
               PROVE  /\ \A u \in Runs : ~Engaged(run'[u])
                      /\ talk'.status \in {"waiting_for_files", "broken"}
    BY DEF RevertsOK, OneReverts
  <2>1. t = r
    OBVIOUS
  <2>2. ~Engaged(run'[r])
    BY <2>1 DEF Reverting, Engaged
  <2> QED
    BY <1>6, <2>1, <2>2
<1> QED
  BY <1>1, <1>2, <1>3, <1>4, <1>7, <1>8, <1>9, <1>10 DEF Guarded

\* A step of the slot that is engaged.
LEMMA WorkStep ==
  ASSUME Guarded, IInv', NEW r \in Runs, Engaged(run[r]),
         \A t \in Runs \ {r} : run'[t] = run[t],
         run'[r].fn \notin Requests,
         SlotOK(run'[r]), EngagedOK(run[r])', TalkOK', ShownOK',
         talk.status \in Fresh => talk'.status \in Fresh,
         /\ Faults \cap {"enqueue", "crash"} = {}
         /\ talk'.status \in Processing \ {"detecting"}
         => Engaged(run'[r]),
         Reverting(run'[r]) => talk'.status \in {"waiting_for_files", "broken"}
  PROVE  Guarded'
<1>1. ~Wiped /\ \A t \in Runs \ {r} : ~Engaged(run[t])
  BY EngagedAlone
<1>2. OneReverts => \A t \in Runs \ {r} : ~Reverting(run[t])
  BY DEF Guarded, RevertsOK
<1>3. run'[r].fn # "abort_talk"
  BY DEF Requests
<1> QED
  BY <1>1, <1>2, <1>3, Alone

\* A step of a slot that takes no part in the work, before or after: at most it
\* breaks the talk.
LEMMA QuietStep ==
  ASSUME Guarded, IInv', NEW r \in Runs,
         ~Engaged(run[r]), ~Engaged(run'[r]), ~Reverting(run'[r]), SlotOK(run'[r]),
         \A t \in Runs \ {r} : run'[t] = run[t],
         ~(run[r].fn = "abort_talk" /\ run[r].phase = "staged"),
         run'[r].fn \in Requests => \A t \in Runs \ {r} : run[t].fn \notin Requests,
         run'[r].fn = "abort_talk" => run'[r].phase = "reading" /\ run'[r].seen = talk,
         run'[r].fn \in JobKinds => ~Wiped,
         UNCHANGED <<raw, media, clip, approved, reviewed>>,
         \/ talk' = talk
         \/ talk' = [talk EXCEPT !.status = "broken"]
  PROVE  Guarded'
<1>1. Undisturbed'
  BY DEF Guarded, Undisturbed
<1>2. \A t \in Runs : SlotOK(run'[t])
  BY DEF Guarded
<1>3. OneRequest'
  BY DEF Guarded, OneRequest
<1>4. OneEngaged'
  BY DEF Guarded, OneEngaged
<1>5. talk \in TalkRow
  BY DEF Guarded, IInv, RowsOK
<1>6. TalkOK'
  <2>1. CASE talk' = talk
    BY <2>1 DEF Guarded, TalkOK, CutWithinFile, ApprovedIsShown
  <2>2. CASE talk' = [talk EXCEPT !.status = "broken"]
    <3>1. talk'.status = "broken" /\ talk'.detected = talk.detected /\ \A k \in ClipKeys : talk'[k] = talk[k]
      BY <1>5, <2>2 DEF TalkRow, ClipKeys
    <3> QED
      BY <3>1, Roles DEF Guarded, TalkOK, CutWithinFile, ApprovedIsShown
  <2> QED
    BY <2>1, <2>2
<1>7. Wiped' = Wiped
  BY DEF Wiped, Requests
<1>8. (Wiped \/ ShownOK)'
  <2>1. CASE talk' = talk
    BY <1>7, <2>1 DEF Guarded, ShownOK, Settled, Asked, Complete
  <2>2. CASE talk' = [talk EXCEPT !.status = "broken"]
    BY <1>5, <2>2 DEF ShownOK, TalkRow
  <2> QED
    BY <2>1, <2>2
<1>9. ASSUME NEW t \in Runs PROVE EngagedOK(run[t])'
  <2> SUFFICES ASSUME Engaged(run'[t]), t # r PROVE EngagedOK(run[t])'
    BY DEF EngagedOK
  <2>1. run'[t] = run[t] /\ EngagedOK(run[t])
    BY DEF Guarded
  <2>2. /\ talk'.status \in {talk.status, "broken"} /\ talk'.detected = talk.detected
        /\ talk'.bounds = talk.bounds /\ \A k \in ClipKeys : talk'[k] = talk[k]
    BY <1>5 DEF TalkRow, ClipKeys
  <2>3. Asked' = Asked /\ Settled' = Settled /\ SlatesStored' = SlatesStored
    BY <2>2 DEF Asked, Settled, SlatesStored
  <2>4. CutOK(run[t]) => CutOK(run[t])'
    BY <2>1, <2>2, <2>3 DEF CutOK
  <2>5. AssemblyOK(run[t]) => AssemblyOK(run[t])'
    BY <2>1, <2>2, <2>3 DEF AssemblyOK
  <2>6. FinalOK(run[t]) => FinalOK(run[t])'
    BY <2>1, <2>2, <2>3 DEF FinalOK, Complete
  <2> QED
    BY <2>1, <2>2, <2>4, <2>5, <2>6 DEF EngagedOK
<1>10. AbortsOK'
  <2>1. \A t \in Runs : run'[t].fn = "abort_talk" /\ run'[t].seen.status = "waiting_for_files" =>
          talk'.status \in Fresh
    BY <1>5 DEF Guarded, AbortsOK, Fresh, TalkRow
  <2>2. Wiped => \A t \in Runs : run'[t].fn \in JobKinds => run'[t].stop
    BY DEF Guarded, AbortsOK
  <2> QED
    BY <1>7, <2>1, <2>2 DEF Guarded, AbortsOK
<1>11. CarriedOn'
  BY <1>5, <1>7 DEF Guarded, CarriedOn, TalkRow, Processing
<1>12. RevertsOK'
  BY <1>5 DEF Guarded, RevertsOK, OneReverts, TalkRow
<1> QED
  BY <1>1, <1>2, <1>3, <1>4, <1>6, <1>8, <1>9, <1>10, <1>11, <1>12 DEF Guarded

\* A step that leaves the talk and its files alone.
LEMMA SameTalk ==
  ASSUME Guarded, UNCHANGED <<talk, raw, media, clip, approved, reviewed>>
  PROVE  TalkOK' /\ (ShownOK => ShownOK')
         /\ Asked' = Asked /\ Settled' = Settled /\ SlatesStored' = SlatesStored
  BY DEF Guarded, TalkOK, ShownOK, CutWithinFile, ApprovedIsShown, Settled, Asked, Complete,
         SlatesStored

\* A step that writes the status only.
LEMMA StatusOnly ==
  ASSUME Guarded, NEW status \in TalkStatus, talk' = [talk EXCEPT !.status = status],
         UNCHANGED <<raw, media, clip, approved, reviewed>>
  PROVE  /\ talk'.status = status
         /\ \A k \in ClipKeys : talk'[k] = talk[k]
         /\ Asked' = Asked /\ Settled' = Settled /\ SlatesStored' = SlatesStored
         /\ (status \in Early => talk.status \in Early)
            /\ (status \in Measured => talk.status \in Measured)
            => TalkOK'
         /\ status \notin {"preview", "done"} => ShownOK'
<1>1. talk \in TalkRow
  BY DEF Guarded, IInv, RowsOK
<1>2. /\ talk'.status = status /\ talk'.detected = talk.detected
      /\ talk'.bounds = talk.bounds /\ \A k \in ClipKeys : talk'[k] = talk[k]
  BY <1>1 DEF TalkRow, ClipKeys
<1>3. Asked' = Asked /\ Settled' = Settled /\ SlatesStored' = SlatesStored
  BY <1>2 DEF Asked, Settled, SlatesStored
<1>4. /\ status \in Early => talk.status \in Early
      /\ status \in Measured => talk.status \in Measured
      => TalkOK'
  BY <1>2 DEF Guarded, TalkOK, CutWithinFile, ApprovedIsShown
<1>5. status \notin {"preview", "done"} => ShownOK'
  BY <1>2 DEF ShownOK
<1> QED
  BY <1>2, <1>3, <1>4, <1>5

\* A free slot is in order, and takes no part.
LEMMA IdleIs == SlotOK(Idle) /\ ~Engaged(Idle) /\ ~Reverting(Idle) /\ Idle.fn \notin Requests
  BY DEF SlotOK, Idle, Engaged, Reverting, Executing, Requests, JobKinds

\* The slot that is engaged ends its part: it leaves a status that no job has
\* to end, or a broken talk, or it died.
LEMMA Ends ==
  ASSUME Guarded, IInv', NEW r \in Runs, Engaged(run[r]), run' = [run EXCEPT ![r] = Idle],
         TalkOK', ShownOK',
         talk.status \in Fresh => talk'.status \in Fresh,
         talk'.status \notin Processing \ {"detecting"} \/ "crash" \in Faults \/ "enqueue" \in Faults
  PROVE  Guarded'
<1>1. run'[r] = Idle /\ \A t \in Runs \ {r} : run'[t] = run[t]
  BY DEF Guarded, IInv, RunsOK
<1>2. SlotOK(run'[r]) /\ ~Engaged(run'[r]) /\ ~Reverting(run'[r]) /\ run'[r].fn \notin Requests
  BY <1>1, IdleIs
<1>3. EngagedOK(run[r])'
  BY <1>2 DEF EngagedOK
<1> QED
  BY <1>1, <1>2, <1>3, WorkStep

\* The slot that is engaged finds the talk broken, and gives up.
LEMMA GivesUp ==
  ASSUME Guarded, IInv', NEW r \in Runs, Engaged(run[r]), run' = [run EXCEPT ![r] = Idle],
         talk.status = "broken", UNCHANGED <<talk, raw, media, clip, approved, reviewed>>
  PROVE  Guarded'
<1>1. ~Wiped
  BY EngagedAlone
<1>2. TalkOK' /\ ShownOK'
  BY <1>1, SameTalk DEF Guarded
<1> QED
  BY <1>2, Ends DEF Processing

-------------------------------------------------------------------------------
(* What the steps write to their slot                                      *)

\* The first session of a job.
LEMMA BeginsIs ==
  ASSUME IInv, NEW r \in Runs, NEW input, NEW bounds, Begins(r, input, bounds)
  PROVE  /\ \A t \in Runs \ {r} : run'[t] = run[t]
         /\ run'[r].fn = run[r].fn /\ run'[r].key = run[r].key
         /\ run'[r].input = input /\ run'[r].bounds = bounds /\ run'[r].row = "running"
         /\ ~run'[r].stop
         /\ run'[r].phase = IF input = None THEN "failing" ELSE "started"
<1>1. run[r] \in Run /\ run \in [Runs -> Slot]
  BY SlotType DEF IInv, RunsOK
<1> QED
  BY <1>1 DEF Begins, Run

\* A slot moves to another phase.
LEMMA PhaseIs ==
  ASSUME IInv, NEW r \in Runs, NEW phase, run' = [run EXCEPT ![r].phase = phase]
  PROVE  /\ \A t \in Runs \ {r} : run'[t] = run[t]
         /\ run'[r].fn = run[r].fn /\ run'[r].key = run[r].key /\ run'[r].input = run[r].input
         /\ run'[r].bounds = run[r].bounds /\ run'[r].row = run[r].row
         /\ run'[r].seen = run[r].seen /\ run'[r].stop = run[r].stop
         /\ run'[r].phase = phase
<1>1. run[r] \in Run /\ run \in [Runs -> Slot]
  BY SlotType DEF IInv, RunsOK
<1> QED
  BY <1>1 DEF Run

\* The second session of a job that succeeds.
LEMMA MarksDoneIs ==
  ASSUME IInv, NEW r \in Runs, MarksDone(r)
  PROVE  /\ \A t \in Runs \ {r} : run'[t] = run[t]
         /\ run'[r].fn = run[r].fn /\ run'[r].key = run[r].key
         /\ run'[r].bounds = run[r].bounds /\ run'[r].row = "done"
         /\ run'[r].stop = run[r].stop /\ run'[r].phase = "committed"
<1>1. run[r] \in Run /\ run \in [Runs -> Slot]
  BY SlotType DEF IInv, RunsOK
<1> QED
  BY <1>1 DEF MarksDone, Run

\* A slot is taken over.
LEMMA BecomesIs ==
  ASSUME IInv, NEW r \in Runs, NEW s, Becomes(r, s)
  PROVE  run' = [run EXCEPT ![r] = s] /\ run'[r] = s /\ \A t \in Runs \ {r} : run'[t] = run[t]
  BY DEF Becomes, IInv, RunsOK

\* The status each kind of job works for, and the one it hands over.
LEMMA StatusIs ==
  /\ WorksFor("ingest") = "detecting" /\ WorksFor("detect") = "detecting"
  /\ WorksFor("cut") = "cutting" /\ WorksFor("preview") = "generating_previews"
  /\ WorksFor("intro") = "assembling" /\ WorksFor("outro") = "assembling"
  /\ WorksFor("concat") = "assembling" /\ WorksFor("loudness") = "assembling"
  /\ WorksFor("transcode") = "transcoding" /\ WorksFor("publish") = "uploading"
  /\ HandsOver("ingest") = "detecting" /\ HandsOver("submit_cut") = "cutting"
  /\ HandsOver("cut") = "generating_previews" /\ HandsOver("assembly") = "assembling"
  /\ HandsOver("intro") = "assembling" /\ HandsOver("outro") = "assembling"
  /\ HandsOver("concat") = "assembling" /\ HandsOver("loudness") = "transcoding"
  /\ HandsOver("transcode") = "uploading"
  BY DEF WorksFor, HandsOver

\* A job that is at work on the talk: its status, and what its files satisfy.
LEMMA AtWork ==
  ASSUME Guarded, NEW r \in Runs, run[r].fn \in JobKinds,
         \/ run[r].phase \in {"started", "stored"}
         \/ run[r].phase = "queued" /\ run[r].fn # "ingest",
         ~run[r].stop
  PROVE  /\ Engaged(run[r]) /\ talk.status \in {WorksFor(run[r].fn), "broken"}
         /\ CutOK(run[r]) /\ AssemblyOK(run[r]) /\ FinalOK(run[r])
         /\ run[r].phase # "queued" => run[r].row = "running"
<1>1. Engaged(run[r])
  BY DEF Engaged, JobKinds
<1> QED
  BY <1>1 DEF Guarded, EngagedOK, Awaited, SlotOK

-------------------------------------------------------------------------------
(* The first sessions                                                      *)

\* A job other than job_ingest begins: the talk and its files stay, and the
\* job has opened its input or fails.
LEMMA StartStep ==
  ASSUME Guarded, IInv', NEW r \in Runs, run[r].fn \in JobKinds \ {"ingest"},
         run[r].phase = "queued", UNCHANGED <<talk, raw, media, clip, approved, reviewed>>,
         \A t \in Runs \ {r} : run'[t] = run[t],
         run'[r].fn = run[r].fn, run'[r].key = run[r].key, run'[r].row = "running",
         ~run'[r].stop, run'[r].phase \in {"started", "failing"},
         run[r].fn = "detect" => run'[r].bounds = None,
         run'[r].phase = "started" => CutOK(run[r])' /\ AssemblyOK(run[r])' /\ FinalOK(run[r])'
  PROVE  Guarded'
<1>1. Engaged(run[r]) /\ talk.status \in {WorksFor(run[r].fn), "broken"}
  <2>1. ~run[r].stop
    BY QueuedGoesOn DEF Guarded
  <2> QED
    BY <2>1, AtWork
<1>2. Engaged(run'[r])
  BY DEF Engaged, JobKinds
<1>3. SlotOK(run'[r])
  BY DEF Guarded, SlotOK, Executing, Engaged, JobKinds
<1>4. EngagedOK(run[r])'
  <2>1. WorksFor(run[r].fn) \in Processing
    BY StatusIs DEF JobKinds, Processing
  <2>2. talk'.status \in Awaited(run'[r]) \cup {"broken"}
    BY <1>1, <2>1 DEF Awaited
  <2> QED
    BY <2>2 DEF EngagedOK
<1>5. TalkOK' /\ ShownOK'
  BY <1>1, SameTalk, EngagedAlone DEF Guarded
<1>6. run'[r].fn \notin Requests /\ ~Reverting(run'[r])
  BY DEF JobKinds, Requests, Reverting
<1> QED
  BY <1>1, <1>2, <1>3, <1>4, <1>5, <1>6, WorkStep

\* What a queued job finds when its turn comes.
LEMMA Dequeued ==
  ASSUME Guarded, NEW r \in Runs, NEW kind \in JobKinds \ {"ingest"}, Dequeues(r, kind)
  PROVE  /\ run[r].fn = kind /\ run[r].phase = "queued" /\ Engaged(run[r])
         /\ talk.status \in {WorksFor(kind), "broken"}
         /\ CutOK(run[r]) /\ AssemblyOK(run[r]) /\ FinalOK(run[r]) /\ SlotOK(run[r])
<1>1. SlotOK(run[r]) /\ run[r].fn = kind /\ run[r].phase = "queued"
  BY DEF Guarded, Dequeues
<1>2. ~run[r].stop
  BY <1>1, QueuedGoesOn
<1> QED
  BY <1>1, <1>2, AtWork

\* job_detect: the recording under raw/, or a broken talk.
LEMMA DetectStartKeeps ==
  ASSUME Guarded, IInv', NEW r \in Runs, DetectStart(r) PROVE Guarded'
<1>1. run[r].fn = "detect" /\ run[r].phase = "queued" /\ Engaged(run[r]) /\ SlotOK(run[r])
      /\ talk.status \in {"detecting", "broken"}
  BY Dequeued, StatusIs DEF DetectStart, JobKinds
<1>2. UNCHANGED <<talk, raw, media, clip, approved, reviewed>>
  BY DEF DetectStart, dbVars, storageVars
<1>3. run[r].key = UploadKey /\ run[r].bounds = None
  BY <1>1 DEF SlotOK
<1>4. CASE talk.status = "detecting"
  <2> DEFINE input == RawFootage(UploadKey)
  <2>1. Begins(r, input, None)
    BY <1>3, <1>4 DEF DetectStart
  <2>2. input # None => input.rec = raw[UploadKey]
    BY DEF RawFootage, Footage
  <2> HIDE DEF input
  <2>3. /\ \A t \in Runs \ {r} : run'[t] = run[t]
        /\ run'[r].fn = "detect" /\ run'[r].key = run[r].key
        /\ run'[r].input = input /\ run'[r].bounds = None /\ run'[r].row = "running"
        /\ ~run'[r].stop
        /\ run'[r].phase = IF input = None THEN "failing" ELSE "started"
    BY <1>1, <2>1, BeginsIs DEF Guarded
  <2>4. run'[r].phase = "started" => CutOK(run[r])' /\ AssemblyOK(run[r])' /\ FinalOK(run[r])'
    BY <1>2, <2>2, <2>3 DEF CutOK, AssemblyOK, FinalOK, Assembling, ClipKeys
  <2> QED
    BY <1>1, <1>2, <2>3, <2>4, StartStep DEF JobKinds
<1>5. CASE talk.status = "broken"
  BY <1>1, <1>2, <1>5, GivesUp DEF DetectStart, Discards
<1> QED
  BY <1>1, <1>4, <1>5

\* A job after the detection opens its input.
LEMMA BeginsStep ==
  ASSUME Guarded, IInv', NEW r \in Runs, NEW kind \in JobKinds \ {"ingest", "detect"},
         Dequeues(r, kind), NEW input, Begins(r, input, None),
         UNCHANGED <<talk, raw, media, clip, approved, reviewed>>,
         /\ run'[r].fn = kind /\ run'[r].phase = "started" /\ run'[r].input = input
         /\ input # None
         => CutOK(run[r])' /\ AssemblyOK(run[r])' /\ FinalOK(run[r])'
  PROVE  Guarded'
<1>1. run[r].fn = kind /\ run[r].phase = "queued"
  BY DEF Dequeues
<1>2. /\ \A t \in Runs \ {r} : run'[t] = run[t]
      /\ run'[r].fn = kind /\ run'[r].key = run[r].key
      /\ run'[r].input = input /\ run'[r].row = "running" /\ ~run'[r].stop
      /\ run'[r].phase = IF input = None THEN "failing" ELSE "started"
  BY <1>1, BeginsIs DEF Guarded
<1> QED
  BY <1>1, <1>2, StartStep

\* job_cut: the recording that was detected, with the bounds of the row.
LEMMA CutStartKeeps ==
  ASSUME Guarded, IInv', NEW r \in Runs, CutStart(r) PROVE Guarded'
<1>1. Dequeues(r, "cut") /\ CutOK(run[r]) /\ run[r].fn = "cut" /\ run[r].phase = "queued"
  BY Dequeued DEF CutStart, JobKinds
<1>2. UNCHANGED <<talk, raw, media, clip, approved, reviewed>>
  BY DEF CutStart, dbVars, storageVars
<1>3. Settled /\ run[r].key = UploadKey /\ raw[UploadKey] \in {None, talk.detected}
  BY <1>1 DEF CutOK
<1>4. talk.bounds # None
  BY <1>3, FitsAssumption, RunsAssumption DEF Settled
<1> DEFINE input == IF raw[UploadKey] = None THEN None ELSE Footage(raw[UploadKey], talk.bounds)
<1>5. Begins(r, input, None)
  BY <1>3, <1>4 DEF CutStart
<1>6. input # None => input = Asked
  BY <1>3 DEF Asked
<1> HIDE DEF input
<1>7. Asked' = Asked /\ Settled'
  BY <1>2, <1>3, SameTalk
<1>8. /\ run'[r].fn = "cut" /\ run'[r].phase = "started" /\ run'[r].input = input
      /\ input # None
      => CutOK(run[r])' /\ AssemblyOK(run[r])' /\ FinalOK(run[r])'
  BY <1>6, <1>7 DEF CutOK, AssemblyOK, FinalOK, Assembling, ClipKeys
<1> QED
  BY <1>1, <1>2, <1>5, <1>8, BeginsStep DEF JobKinds

\* job_preview: the cut.
LEMMA PreviewStartKeeps ==
  ASSUME Guarded, IInv', NEW r \in Runs, PreviewStart(r) PROVE Guarded'
<1>1. Dequeues(r, "preview") /\ CutOK(run[r]) /\ run[r].fn = "preview" /\ run[r].phase = "queued"
  BY Dequeued DEF PreviewStart, JobKinds
<1>2. UNCHANGED <<talk, raw, media, clip, approved, reviewed>>
  BY DEF PreviewStart, dbVars, storageVars
<1>3. Settled /\ media["cut"] = Asked
  BY <1>1 DEF CutOK
<1>4. Asked' = Asked /\ Settled'
  BY <1>2, <1>3, SameTalk
<1>5. /\ run'[r].fn = "preview" /\ run'[r].phase = "started" /\ run'[r].input = media["cut"]
      /\ media["cut"] # None
      => CutOK(run[r])' /\ AssemblyOK(run[r])' /\ FinalOK(run[r])'
  BY <1>2, <1>3, <1>4 DEF CutOK, AssemblyOK, FinalOK, Assembling, ClipKeys
<1> QED
  BY <1>1, <1>2, <1>5, BeginsStep DEF PreviewStart, JobKinds

\* job_intro and job_outro.
LEMMA SlateStartKeeps ==
  ASSUME Guarded, IInv', NEW r \in Runs, NEW kind \in ClipKeys, SlateStart(r, kind)
  PROVE  Guarded'
<1>1. kind \in JobKinds \ {"ingest", "detect"}
  BY DEF ClipKeys, JobKinds
<1>2. /\ AssemblyOK(run[r]) /\ run[r].fn = kind /\ run[r].phase = "queued" /\ ~run[r].stop
  BY <1>1, Dequeued DEF SlateStart, Engaged
<1>3. UNCHANGED <<talk, raw, media, clip, approved, reviewed>>
  BY DEF SlateStart, dbVars, storageVars
<1>4. run[r] \in Run /\ run \in [Runs -> Slot]
  BY SlotType DEF Guarded, IInv, RunsOK
<1>5. /\ \A t \in Runs \ {r} : run'[t] = run[t]
      /\ run'[r].fn = kind /\ run'[r].key = run[r].key /\ run'[r].row = "running"
      /\ ~run'[r].stop /\ run'[r].phase = "started"
  BY <1>2, <1>4 DEF SlateStart, Run
<1>6. Asked' = Asked /\ Settled' = Settled
  BY <1>3, SameTalk
<1>7. CutOK(run[r])' /\ AssemblyOK(run[r])' /\ FinalOK(run[r])'
  BY <1>2, <1>3, <1>5, <1>6 DEF CutOK, AssemblyOK, FinalOK, Assembling, ClipKeys
<1> QED
  BY <1>1, <1>2, <1>3, <1>5, <1>7, StartStep

\* job_concat: the cut, if the slates it was told of are stored.
LEMMA ConcatStartKeeps ==
  ASSUME Guarded, IInv', NEW r \in Runs, ConcatStart(r) PROVE Guarded'
<1>1. Dequeues(r, "concat") /\ AssemblyOK(run[r]) /\ run[r].fn = "concat" /\ run[r].phase = "queued"
  BY Dequeued DEF ConcatStart, JobKinds
<1>2. UNCHANGED <<talk, raw, media, clip, approved, reviewed>>
  BY DEF ConcatStart, dbVars, storageVars
<1>3. Settled /\ reviewed = Asked /\ media["cut"] = Asked
      /\ \A k \in ClipKeys : run[r].seen[k] = talk[k]
  BY <1>1 DEF AssemblyOK, Assembling
<1> DEFINE missing == \E k \in ClipKeys : run[r].seen[k] # "none" /\ clip[k] = "none"
           input == IF missing THEN None ELSE media["cut"]
<1>4. Begins(r, input, None)
  BY DEF ConcatStart
<1>5. input # None => input = Asked /\ SlatesStored
  <2>1. ~missing => SlatesStored
    BY <1>3 DEF Guarded, TalkOK, SlatesStored
  <2> QED
    BY <1>3, <2>1
<1> HIDE DEF input, missing
<1>6. Asked' = Asked /\ Settled' /\ (SlatesStored => SlatesStored')
  BY <1>2, <1>3, SameTalk
<1>7. /\ run'[r].fn = "concat" /\ run'[r].phase = "started" /\ run'[r].input = input
      /\ input # None
      => CutOK(run[r])' /\ AssemblyOK(run[r])' /\ FinalOK(run[r])'
  BY <1>2, <1>3, <1>5, <1>6 DEF CutOK, AssemblyOK, FinalOK, Assembling, ClipKeys
<1> QED
  BY <1>1, <1>2, <1>4, <1>7, BeginsStep DEF JobKinds

\* job_loudness: the assembled video, or a broken talk.
LEMMA LoudnessStartKeeps ==
  ASSUME Guarded, IInv', NEW r \in Runs, LoudnessStart(r) PROVE Guarded'
<1>1. /\ Dequeues(r, "loudness") /\ AssemblyOK(run[r]) /\ run[r].fn = "loudness"
      /\ run[r].phase = "queued" /\ Engaged(run[r]) /\ talk.status \in {"assembling", "broken"}
  BY Dequeued, StatusIs DEF LoudnessStart, JobKinds
<1>2. UNCHANGED <<talk, raw, media, clip, approved, reviewed>>
  BY DEF LoudnessStart, dbVars, storageVars
<1>3. Settled /\ reviewed = Asked /\ media["assemble"] = Asked /\ SlatesStored
  BY <1>1 DEF AssemblyOK, Assembling
<1>4. CASE talk.status = "assembling"
  <2>1. Asked' = Asked /\ Settled' /\ SlatesStored'
    BY <1>2, <1>3, SameTalk
  <2>2. /\ run'[r].fn = "loudness" /\ run'[r].phase = "started" /\ run'[r].input = media["assemble"]
        /\ media["assemble"] # None
        => CutOK(run[r])' /\ AssemblyOK(run[r])' /\ FinalOK(run[r])'
    BY <1>2, <1>3, <2>1 DEF CutOK, AssemblyOK, FinalOK, Assembling, ClipKeys
  <2> QED
    BY <1>1, <1>2, <1>4, <2>2, BeginsStep DEF LoudnessStart, JobKinds
<1>5. CASE talk.status = "broken"
  BY <1>1, <1>2, <1>5, GivesUp DEF LoudnessStart, Discards
<1> QED
  BY <1>1, <1>4, <1>5

\* job_transcode: the levelled video with the slates of the row stitched on.
LEMMA TranscodeStartKeeps ==
  ASSUME Guarded, IInv', NEW r \in Runs, TranscodeStart(r) PROVE Guarded'
<1>1. Dequeues(r, "transcode") /\ AssemblyOK(run[r]) /\ FinalOK(run[r])
      /\ run[r].fn = "transcode" /\ run[r].phase = "queued"
  BY Dequeued DEF TranscodeStart, JobKinds
<1>2. UNCHANGED <<talk, raw, media, clip, approved, reviewed>>
  BY DEF TranscodeStart, dbVars, storageVars
<1>3. Settled /\ reviewed = Asked /\ media["loud"] = Asked /\ SlatesStored
  BY <1>1 DEF AssemblyOK, FinalOK, Assembling
<1> DEFINE slate(k) == IF talk[k] = "none" THEN "none" ELSE clip[k]
           loud == media["loud"]
           input == IF loud = None THEN None
                    ELSE [loud EXCEPT !.intro = slate("intro"), !.outro = slate("outro")]
<1>4. Begins(r, input, None)
  BY DEF TranscodeStart
<1>5. slate("intro") = talk.intro /\ slate("outro") = talk.outro
  BY <1>3 DEF SlatesStored, ClipKeys
<1>6. input # None => SameCut(input, Asked) /\ \A k \in ClipKeys : input[k] = talk[k]
  <2>1. loud = Asked
    BY <1>3
  <2>2. input # None => input = [Asked EXCEPT !.intro = talk.intro, !.outro = talk.outro]
    <3> HIDE DEF slate, loud
    <3> QED
      BY <1>5, <2>1
  <2>3. LET v == [Asked EXCEPT !.intro = talk.intro, !.outro = talk.outro]
        IN  SameCut(v, Asked) /\ \A k \in ClipKeys : v[k] = talk[k]
    BY DEF SameCut, Asked, Footage, ClipKeys
  <2> HIDE DEF input
  <2> QED
    BY <2>2, <2>3
<1> HIDE DEF input
<1>7. Asked' = Asked /\ Settled' /\ \A k \in ClipKeys : talk'[k] = talk[k]
  BY <1>2, <1>3, SameTalk
<1>8. /\ run'[r].fn = "transcode" /\ run'[r].phase = "started" /\ run'[r].input = input
      /\ input # None
      => CutOK(run[r])' /\ AssemblyOK(run[r])' /\ FinalOK(run[r])'
  <2> SUFFICES ASSUME run'[r].fn = "transcode", run'[r].phase = "started",
                      run'[r].input = input, input # None
               PROVE  CutOK(run[r])' /\ AssemblyOK(run[r])' /\ FinalOK(run[r])'
    OBVIOUS
  <2>1. Complete(run[r].input)'
    BY <1>6, <1>7 DEF Complete, SameCut
  <2>2. CutOK(run[r])' /\ AssemblyOK(run[r])'
    BY <1>2, <1>3, <1>7 DEF CutOK, AssemblyOK, Assembling, ClipKeys
  <2>3. FinalOK(run[r])'
    BY <2>1 DEF FinalOK
  <2> QED
    BY <2>2, <2>3
<1> QED
  BY <1>1, <1>2, <1>4, <1>8, BeginsStep DEF JobKinds

\* job_publish: the final video.
LEMMA PublishStartKeeps ==
  ASSUME Guarded, IInv', NEW r \in Runs, PublishStart(r) PROVE Guarded'
<1>1. Dequeues(r, "publish") /\ AssemblyOK(run[r]) /\ FinalOK(run[r])
      /\ run[r].fn = "publish" /\ run[r].phase = "queued"
  BY Dequeued DEF PublishStart, JobKinds
<1>2. UNCHANGED <<talk, raw, media, clip, approved, reviewed>>
  BY DEF PublishStart, dbVars, storageVars
<1>3. Settled /\ reviewed = Asked /\ Complete(media["final"])
  BY <1>1 DEF AssemblyOK, FinalOK, Assembling
<1>4. Asked' = Asked /\ Settled' /\ \A k \in ClipKeys : talk'[k] = talk[k]
  BY <1>2, <1>3, SameTalk
<1>5. /\ run'[r].fn = "publish" /\ run'[r].phase = "started" /\ run'[r].input = media["final"]
      => CutOK(run[r])' /\ AssemblyOK(run[r])' /\ FinalOK(run[r])'
  <2> SUFFICES ASSUME run'[r].fn = "publish", run'[r].phase = "started",
                      run'[r].input = media["final"]
               PROVE  CutOK(run[r])' /\ AssemblyOK(run[r])' /\ FinalOK(run[r])'
    OBVIOUS
  <2>1. Complete(run[r].input)'
    BY <1>3, <1>4 DEF Complete, SameCut
  <2>2. CutOK(run[r])' /\ AssemblyOK(run[r])'
    BY <1>2, <1>3, <1>4 DEF CutOK, AssemblyOK, Assembling, ClipKeys
  <2>3. FinalOK(run[r])'
    BY <2>1 DEF FinalOK
  <2> QED
    BY <2>2, <2>3
<1> QED
  BY <1>1, <1>2, <1>5, BeginsStep DEF PublishStart, JobKinds

\* With one light worker, or if nothing fails, the worker that takes an upload
\* finds no job_ingest between its roll-back and its failure.
LEMMA NoneReverts ==
  ASSUME Guarded, OneReverts, NEW r \in Runs, Dequeues(r, "ingest")
  PROVE  \A t \in Runs : ~Reverting(run[t])
<1> SUFFICES ASSUME NEW t \in Runs, Reverting(run[t]) PROVE FALSE
  OBVIOUS
<1>1. Faults \cap {"work", "enqueue"} # {}
  BY DEF Guarded, SlotOK, Reverting
<1>2. LightWorkers <= 1 /\ IsFiniteSet(Runs)
  BY <1>1 DEF OneReverts
<1>3. Cardinality(Busy("light")) < LightWorkers
  BY DEF Dequeues, QueueOf, Workers
<1>4. t \in Busy("light")
  BY DEF Busy, Reverting, QueueOf, Executing
<1>5. IsFiniteSet(Busy("light"))
  BY <1>2, FS_Subset DEF Busy
<1>6. Cardinality(Busy("light")) \in Nat /\ Cardinality(Busy("light")) # 0
  BY <1>4, <1>5, FS_CardinalityType, FS_EmptySet
<1> QED
  BY <1>2, <1>3, <1>6, WorkersAssumption

\* job_ingest: the claim of a talk that waits, or nothing.
LEMMA IngestStartKeeps ==
  ASSUME Guarded, IInv', NEW r \in Runs, IngestStart(r) PROVE Guarded'
<1>1. run[r].fn = "ingest" /\ run[r].phase = "queued" /\ SlotOK(run[r]) /\ ~run[r].stop
      /\ ~Engaged(run[r])
  BY QueuedGoesOn DEF IngestStart, Dequeues, Guarded, Engaged
<1>2. ~Wiped
  BY <1>1 DEF Guarded, AbortsOK, JobKinds
<1>3. UNCHANGED <<raw, media, clip, approved, reviewed>>
  BY DEF IngestStart, storageVars
<1>4. CASE talk.status = "waiting_for_files"
  <2>1. \A t \in Runs : ~Engaged(run[t])
    BY <1>4, NobodyEngaged DEF Processing
  <2>2. talk' = [talk EXCEPT !.status = "detecting"] /\ Begins(r, run[r].input, None)
    BY <1>4 DEF IngestStart, Advance
  <2>3. run[r].input # None
    BY <1>1, SlotType, NoneAssumption DEF Guarded, WellFormed
  <2>4. /\ \A t \in Runs \ {r} : run'[t] = run[t]
        /\ run'[r].fn = "ingest" /\ run'[r].key = run[r].key /\ run'[r].row = "running"
        /\ ~run'[r].stop /\ run'[r].phase = "started"
    BY <1>1, <2>2, <2>3, BeginsIs DEF Guarded
  <2>5. TalkOK' /\ ShownOK' /\ talk'.status = "detecting"
    BY <1>3, <1>4, <2>2, StatusOnly DEF TalkStatus, Early, Measured
  <2>6. SlotOK(run'[r])
    BY <1>1, <2>4 DEF SlotOK, Executing, JobKinds
  <2>7. EngagedOK(run[r])'
    BY <2>4, <2>5, StatusIs
       DEF EngagedOK, Awaited, CutOK, AssemblyOK, FinalOK, Assembling, ClipKeys
  <2>8. OneReverts => \A t \in Runs \ {r} : ~Reverting(run[t])
    BY NoneReverts DEF IngestStart
  <2>9. run'[r].fn \notin Requests /\ ~Reverting(run'[r])
    BY <2>4 DEF Requests, Reverting
  <2>10. talk'.status \in Fresh /\ talk'.status \notin Processing \ {"detecting"}
    BY <2>5 DEF Fresh
  <2> QED
    BY <1>2, <2>1, <2>4, <2>5, <2>6, <2>7, <2>8, <2>9, <2>10, Alone DEF Requests
<1>5. CASE talk.status # "waiting_for_files"
  <2>1. talk' = talk /\ run'[r] = Idle /\ \A t \in Runs \ {r} : run'[t] = run[t]
    BY <1>5 DEF IngestStart, Discards, Guarded, IInv, RunsOK
  <2>2. Idle.fn \notin JobKinds /\ Idle.fn # "abort_talk"
    BY DEF Idle, JobKinds
  <2> QED
    BY <1>1, <1>3, <2>1, <2>2, IdleIs, QuietStep
<1> QED
  BY <1>4, <1>5

\* The first session of every job.
LEMMA JobStartKeeps == ASSUME Guarded, IInv', NEW r \in Runs, JobStart(r) PROVE Guarded'
  BY IngestStartKeeps, DetectStartKeeps, CutStartKeeps, PreviewStartKeeps, SlateStartKeeps,
     ConcatStartKeeps, LoudnessStartKeeps, TranscodeStartKeeps, PublishStartKeeps
     DEF JobStart, IntroStart, OutroStart, ClipKeys

-------------------------------------------------------------------------------
(* The outputs                                                             *)

\* A job that is started and goes on is at work.
LEMMA Storing ==
  ASSUME Guarded, IInv', NEW r \in Runs, NEW kind \in JobKinds, Stores(r, kind)
  PROVE  /\ run[r].fn = kind /\ run[r].phase = "started" /\ Engaged(run[r])
         /\ talk.status \in {WorksFor(kind), "broken"}
         /\ CutOK(run[r]) /\ AssemblyOK(run[r]) /\ FinalOK(run[r])
         /\ \A t \in Runs \ {r} : run'[t] = run[t]
         /\ run'[r].fn = kind /\ run'[r].key = run[r].key /\ run'[r].phase = "stored"
         /\ SlotOK(run'[r]) /\ Engaged(run'[r]) /\ ~Reverting(run'[r])
         /\ UNCHANGED <<talk, approved, reviewed>>
<1>1. run[r].fn = kind /\ run[r].phase = "started" /\ ~run[r].stop
  BY AliveGoesOn DEF Stores, At
<1>2. /\ Engaged(run[r]) /\ talk.status \in {WorksFor(kind), "broken"}
      /\ CutOK(run[r]) /\ AssemblyOK(run[r]) /\ FinalOK(run[r]) /\ run[r].row = "running"
  <2>1. run[r].fn \in JobKinds /\ run[r].phase \in {"started", "stored"} /\ run[r].phase # "queued"
    BY <1>1
  <2>2. /\ Engaged(run[r]) /\ talk.status \in {WorksFor(run[r].fn), "broken"}
        /\ CutOK(run[r]) /\ AssemblyOK(run[r]) /\ FinalOK(run[r]) /\ run[r].row = "running"
    BY <1>1, <2>1, AtWork
  <2> QED
    BY <1>1, <2>2
<1>3. /\ \A t \in Runs \ {r} : run'[t] = run[t]
      /\ run'[r].fn = run[r].fn /\ run'[r].key = run[r].key /\ run'[r].input = run[r].input
      /\ run'[r].bounds = run[r].bounds /\ run'[r].row = run[r].row
      /\ run'[r].seen = run[r].seen /\ run'[r].stop = run[r].stop
      /\ run'[r].phase = "stored"
  BY PhaseIs DEF Stores, Guarded
<1>4. SlotOK(run[r])
  BY DEF Guarded
<1>5. SlotOK(run'[r])
  BY <1>1, <1>2, <1>3, <1>4 DEF SlotOK, Executing
<1>6. Engaged(run'[r]) /\ ~Reverting(run'[r])
  BY <1>1, <1>3 DEF Engaged, Reverting, JobKinds
<1> QED
  BY <1>1, <1>2, <1>3, <1>5, <1>6 DEF Stores, dbVars

\* A job has stored its output under a key that the statuses before and after
\* the work do not look at.
LEMMA StoreStep ==
  ASSUME Guarded, IInv', NEW r \in Runs, NEW kind \in JobKinds, Stores(r, kind),
         TalkOK', CutOK(run[r])' /\ AssemblyOK(run[r])' /\ FinalOK(run[r])'
  PROVE  Guarded'
<1>1. /\ Engaged(run[r]) /\ talk.status \in {WorksFor(kind), "broken"} /\ talk' = talk
      /\ run'[r].fn = kind /\ run'[r].phase = "stored"
      /\ \A t \in Runs \ {r} : run'[t] = run[t]
      /\ SlotOK(run'[r]) /\ Engaged(run'[r]) /\ ~Reverting(run'[r])
  BY Storing
<1>2. WorksFor(kind) \in Processing
  BY StatusIs DEF JobKinds, Processing
<1>3. ShownOK'
  BY <1>1, <1>2 DEF ShownOK, Processing
<1>4. EngagedOK(run[r])'
  BY <1>1 DEF EngagedOK, Awaited
<1>5. run'[r].fn \notin Requests
  BY <1>1 DEF JobKinds, Requests
<1>6. talk.status \in Fresh => talk'.status \in Fresh
  BY <1>1
<1> QED
  BY <1>1, <1>3, <1>4, <1>5, <1>6, WorkStep

\* The recording that job_ingest stores.
LEMMA IngestStoreKeeps ==
  ASSUME Guarded, IInv', NEW r \in Runs, IngestStore(r) PROVE Guarded'
<1>1. Stores(r, "ingest") /\ UNCHANGED <<talk, approved, reviewed, media, clip>>
      /\ raw' = [raw EXCEPT ![run[r].key] = run[r].input.rec]
      /\ run'[r].fn = "ingest" /\ talk.status \in {"detecting", "broken"}
  BY Storing, StatusIs DEF IngestStore, JobKinds
<1>2. run[r].key = UploadKey
  BY <1>1 DEF Guarded, SlotOK, Stores, At
<1>3. TalkOK'
  BY <1>1, <1>2 DEF Guarded, TalkOK, CutWithinFile, ApprovedIsShown, Measured, IInv, FilesOK
<1>4. CutOK(run[r])' /\ AssemblyOK(run[r])' /\ FinalOK(run[r])'
  BY <1>1 DEF CutOK, AssemblyOK, FinalOK, Assembling, ClipKeys
<1> QED
  BY <1>1, <1>3, <1>4, StoreStep DEF JobKinds

\* The video that a job stores is the cut the row asks for, from job_transcode
\* on with its slates.
LEMMA VideoStoreKeeps ==
  ASSUME Guarded, IInv', NEW r \in Runs, MediaStore(r) PROVE Guarded'
<1>1. PICK kind \in DOMAIN Output :
        Stores(r, kind) /\ media' = [media EXCEPT ![Output[kind]] = run[r].input]
        /\ UNCHANGED <<raw, clip>>
  BY DEF MediaStore
<1>2. kind \in {"cut", "preview", "concat", "loudness", "transcode", "publish"}
      /\ kind \in JobKinds
  BY DEF Output, JobKinds
<1>3. /\ run[r].fn = kind /\ run[r].phase = "started"
      /\ talk.status \in {WorksFor(kind), "broken"}
      /\ CutOK(run[r]) /\ AssemblyOK(run[r]) /\ FinalOK(run[r])
      /\ run'[r].fn = kind /\ run'[r].phase = "stored"
      /\ UNCHANGED <<talk, approved, reviewed>>
  BY <1>1, <1>2, Storing
<1>4. talk.status \in Processing \cup {"broken"} /\ talk.status # "detecting"
  BY <1>2, <1>3, StatusIs DEF Processing
<1>5. /\ media'[Output[kind]] = run[r].input
      /\ \A k \in MediaKeys \ {Output[kind]} : media'[k] = media[k]
  BY <1>1, <1>2 DEF Guarded, IInv, FilesOK, Output, MediaKeys
<1>6. Settled /\ Settled' /\ Asked' = Asked /\ SlatesStored' = SlatesStored
  BY <1>1, <1>2, <1>3 DEF CutOK, AssemblyOK, Assembling, Settled, Asked, SlatesStored
<1>7. kind \in {"cut", "preview", "concat", "loudness"} => run[r].input = Asked
  BY <1>3 DEF CutOK, AssemblyOK
<1>8. kind \in {"transcode", "publish"} => Complete(run[r].input)
  BY <1>3 DEF FinalOK
<1>9. TalkOK'
  <2>1. talk'.status \notin Early
    BY <1>3, <1>4 DEF Processing, Early
  <2>2. CutWithinFile'
    <3>1. CASE kind = "cut"
      <4>1. media'["cut"] = Asked
        BY <1>5, <1>7, <3>1 DEF Output
      <4> QED
        BY <1>6, <4>1 DEF CutWithinFile, Asked, Footage, Settled
    <3>2. CASE kind # "cut"
      <4>1. media'["cut"] = media["cut"]
        BY <1>2, <1>5, <3>2 DEF Output, MediaKeys
      <4> QED
        BY <4>1 DEF CutWithinFile, Guarded, TalkOK
    <3> QED
      BY <3>1, <3>2
  <2> QED
    BY <1>1, <1>3, <2>1, <2>2 DEF Guarded, TalkOK, ApprovedIsShown
<1>10. CutOK(run[r])'
  BY <1>2, <1>3, <1>5, <1>6, <1>7 DEF CutOK, Output, MediaKeys
<1>11. AssemblyOK(run[r])'
  BY <1>2, <1>3, <1>5, <1>6, <1>7 DEF AssemblyOK, Output, MediaKeys, Assembling, ClipKeys
<1>12. FinalOK(run[r])'
  BY <1>2, <1>3, <1>5, <1>6, <1>8 DEF FinalOK, Complete, Output, MediaKeys
<1> QED
  BY <1>1, <1>2, <1>9, <1>10, <1>11, <1>12, StoreStep

\* The slate that job_intro or job_outro stores.
LEMMA SlateStoreKeeps ==
  ASSUME Guarded, IInv', NEW r \in Runs, SlateStore(r) PROVE Guarded'
<1>1. PICK kind \in ClipKeys :
        Stores(r, kind) /\ clip' = [clip EXCEPT ![kind] = "generated"] /\ UNCHANGED <<raw, media>>
  BY DEF SlateStore
<1>2. kind \in JobKinds
  BY DEF ClipKeys, JobKinds
<1>3. /\ run[r].fn = kind /\ talk.status \in {WorksFor(kind), "broken"} /\ AssemblyOK(run[r])
      /\ run'[r].fn = kind /\ run'[r].phase = "stored"
      /\ UNCHANGED <<talk, approved, reviewed>>
  BY <1>1, <1>2, Storing
<1>4. talk.status \in {"assembling", "broken"}
  BY <1>3, StatusIs DEF ClipKeys
<1>5. Settled /\ reviewed = Asked /\ media["cut"] = Asked /\ talk[kind] = "generated"
  BY <1>3 DEF AssemblyOK, Assembling, ClipKeys
<1>6. Settled' /\ Asked' = Asked
  BY <1>3, <1>5 DEF Settled, Asked
<1>7. TalkOK'
  BY <1>1, <1>3, <1>4, <1>5
     DEF Guarded, TalkOK, CutWithinFile, ApprovedIsShown, Early, Measured, IInv, FilesOK
<1>8. CutOK(run[r])' /\ AssemblyOK(run[r])' /\ FinalOK(run[r])'
  BY <1>1, <1>3, <1>5, <1>6 DEF CutOK, AssemblyOK, FinalOK, Assembling, ClipKeys
<1> QED
  BY <1>1, <1>2, <1>7, <1>8, StoreStep

\* What a job puts in storage.
LEMMA JobStoreKeeps == ASSUME Guarded, IInv', NEW r \in Runs, JobStore(r) PROVE Guarded'
  BY IngestStoreKeeps, VideoStoreKeeps, SlateStoreKeeps DEF JobStore

-------------------------------------------------------------------------------
(* The second sessions                                                     *)

\* What a job finds in its second session: it is at work, and its result is
\* rejected only if the talk has been broken.
LEMMA Settling ==
  ASSUME Guarded, NEW r \in Runs, NEW kind \in JobKinds, NEW phase \in {"started", "stored"},
         Settles(r, kind, phase)
  PROVE  /\ run[r].fn = kind /\ run[r].phase = phase /\ Engaged(run[r]) /\ ~run[r].stop
         /\ run[r].row = "running" /\ SlotOK(run[r])
         /\ talk.status \in {WorksFor(kind), "broken"}
         /\ CutOK(run[r]) /\ AssemblyOK(run[r]) /\ FinalOK(run[r])
         /\ UNCHANGED <<raw, media, clip, approved, reviewed>>
<1>1. run[r].fn = kind /\ run[r].phase = phase /\ ~run[r].stop
  BY AliveGoesOn DEF Settles, At
<1>2. run[r].fn \in JobKinds /\ run[r].phase \in {"started", "stored"} /\ run[r].phase # "queued"
  BY <1>1
<1>3. /\ Engaged(run[r]) /\ run[r].row = "running"
      /\ talk.status \in {WorksFor(run[r].fn), "broken"}
      /\ CutOK(run[r]) /\ AssemblyOK(run[r]) /\ FinalOK(run[r])
  BY <1>1, <1>2, AtWork
<1> QED
  BY <1>1, <1>3 DEF Settles, storageVars, Guarded

\* A job that succeeds and has a successor moves the talk on.
LEMMA DoneStep ==
  ASSUME Guarded, IInv', NEW r \in Runs, NEW kind \in JobKinds, Settles(r, kind, "stored"),
         MarksDone(r), TalkOK', ShownOK',
         talk'.status = IF kind = "publish" THEN "done" ELSE HandsOver(kind),
         talk.status \in Fresh => talk'.status \in Fresh,
         CutOK(run[r])' /\ AssemblyOK(run[r])' /\ FinalOK(run[r])'
  PROVE  Guarded'
<1>1. run[r].fn = kind /\ Engaged(run[r]) /\ ~run[r].stop /\ SlotOK(run[r])
  BY Settling
<1>2. /\ \A t \in Runs \ {r} : run'[t] = run[t]
      /\ run'[r].fn = kind /\ run'[r].key = run[r].key
      /\ run'[r].bounds = run[r].bounds /\ run'[r].row = "done"
      /\ ~run'[r].stop /\ run'[r].phase = "committed"
  BY <1>1, MarksDoneIs DEF Guarded
<1>3. SlotOK(run'[r])
  BY <1>1, <1>2 DEF SlotOK, Executing, JobKinds
<1>4. Engaged(run'[r]) /\ ~Reverting(run'[r]) /\ run'[r].fn \notin Requests
  BY <1>2 DEF Engaged, Reverting, JobKinds, Requests
<1>5. kind # "cleanup"
  BY DEF JobKinds
<1>6. talk'.status \in Awaited(run'[r])
  BY <1>2, <1>5 DEF Awaited
<1>7. EngagedOK(run[r])'
  BY <1>6 DEF EngagedOK
<1> QED
  BY <1>1, <1>2, <1>3, <1>4, <1>7, WorkStep

\* job_ingest keeps its claim.
LEMMA IngestCommitKeeps ==
  ASSUME Guarded, IInv', NEW r \in Runs, IngestCommit(r) PROVE Guarded'
<1>1. /\ Settles(r, "ingest", "stored") /\ Engaged(run[r]) /\ run[r].row = "running"
      /\ talk.status \in {"detecting", "broken"} /\ run[r].fn = "ingest"
      /\ UNCHANGED <<raw, media, clip, approved, reviewed>>
  BY Settling, StatusIs DEF IngestCommit, JobKinds
<1>2. CASE talk.status = "detecting"
  <2>1. MarksDone(r) /\ talk' = talk
    BY <1>1, <1>2 DEF IngestCommit, Accepted
  <2>2. TalkOK' /\ ShownOK'
    BY <1>1, <2>1, SameTalk, EngagedAlone DEF Guarded
  <2>3. run'[r].fn = "ingest"
    BY <1>1, <2>1, MarksDoneIs DEF Guarded
  <2>4. CutOK(run[r])' /\ AssemblyOK(run[r])' /\ FinalOK(run[r])'
    BY <2>3 DEF CutOK, AssemblyOK, FinalOK, Assembling, ClipKeys
  <2>5. talk'.status = HandsOver("ingest")
    BY <1>2, <2>1, StatusIs
  <2> QED
    BY <1>1, <2>1, <2>2, <2>4, <2>5, DoneStep DEF JobKinds
<1>3. CASE talk.status = "broken"
  BY <1>1, <1>3, GivesUp DEF IngestCommit, Accepted, Rejected, Discards
<1> QED
  BY <1>1, <1>2, <1>3

\* job_detect: the talk waits for its approval, with the recording that is
\* stored.
LEMMA DetectCommitKeeps ==
  ASSUME Guarded, IInv', NEW r \in Runs, DetectCommit(r) PROVE Guarded'
<1>1. /\ Settles(r, "detect", "started") /\ Engaged(run[r]) /\ run[r].row = "running"
      /\ talk.status \in {"detecting", "broken"} /\ run[r].fn = "detect"
      /\ run[r].phase = "started" /\ CutOK(run[r])
      /\ UNCHANGED <<raw, media, clip, approved, reviewed>>
  BY Settling, StatusIs DEF DetectCommit, JobKinds
<1>2. CASE talk.status = "detecting"
  <2>1. Becomes(r, Idle)
        /\ talk' = [talk EXCEPT
               !.status = "pending_approval", !.detected = run[r].input.rec,
               !.bounds = IF @ = None THEN run[r].bounds ELSE @]
    BY <1>1, <1>2 DEF DetectCommit, Accepted
  <2>2. talk'.status = "pending_approval" /\ talk'.detected = raw[UploadKey]
        /\ \A k \in ClipKeys : talk'[k] = talk[k]
    BY <1>1, <2>1 DEF CutOK, Guarded, IInv, RowsOK, TalkRow, ClipKeys
  <2>3. TalkOK'
    BY <1>1, <1>2, <2>2 DEF Guarded, TalkOK, CutWithinFile, ApprovedIsShown, Early
  <2>4. ShownOK'
    BY <2>2 DEF ShownOK
  <2>5. run' = [run EXCEPT ![r] = Idle]
    BY <2>1 DEF Becomes
  <2>6. talk'.status \in Fresh /\ talk'.status \notin Processing
    BY <2>2 DEF Fresh, Processing
  <2> QED
    BY <1>1, <2>3, <2>4, <2>5, <2>6, Ends
<1>3. CASE talk.status = "broken"
  BY <1>1, <1>3, GivesUp DEF DetectCommit, Accepted, Rejected, Discards
<1> QED
  BY <1>1, <1>2, <1>3

\* job_cut: previews are made of the cut that is stored.
LEMMA CutCommitKeeps ==
  ASSUME Guarded, IInv', NEW r \in Runs, CutCommit(r) PROVE Guarded'
<1>1. /\ Settles(r, "cut", "stored") /\ Engaged(run[r]) /\ run[r].row = "running"
      /\ talk.status \in {"cutting", "broken"} /\ run[r].fn = "cut"
      /\ run[r].phase = "stored" /\ CutOK(run[r])
      /\ UNCHANGED <<raw, media, clip, approved, reviewed>>
  BY Settling, StatusIs DEF CutCommit, JobKinds
<1>2. CASE talk.status = "cutting"
  <2>1. MarksDone(r) /\ talk' = [talk EXCEPT !.status = "generating_previews"]
    BY <1>1, <1>2 DEF CutCommit, Accepted, Advance
  <2>2. /\ talk'.status = "generating_previews" /\ TalkOK' /\ ShownOK'
        /\ Asked' = Asked /\ Settled' = Settled
    BY <1>1, <1>2, <2>1, StatusOnly DEF TalkStatus, Early, Measured
  <2>3. run'[r].fn = "cut" /\ run'[r].phase = "committed"
    BY <1>1, <2>1, MarksDoneIs DEF Guarded
  <2>4. Settled /\ media["cut"] = Asked
    BY <1>1 DEF CutOK
  <2>5. CutOK(run[r])' /\ AssemblyOK(run[r])' /\ FinalOK(run[r])'
    BY <1>1, <2>2, <2>3, <2>4 DEF CutOK, AssemblyOK, FinalOK, Assembling, ClipKeys
  <2> QED
    BY <1>1, <1>2, <2>1, <2>2, <2>5, StatusIs, DoneStep DEF JobKinds, Fresh
<1>3. CASE talk.status = "broken"
  BY <1>1, <1>3, GivesUp DEF CutCommit, Accepted, Rejected, Discards
<1> QED
  BY <1>1, <1>2, <1>3

\* job_preview: the reviewer is shown the cut that the row asks for.
LEMMA PreviewCommitKeeps ==
  ASSUME Guarded, IInv', NEW r \in Runs, PreviewCommit(r) PROVE Guarded'
<1>1. /\ Settles(r, "preview", "stored") /\ Engaged(run[r]) /\ run[r].row = "running"
      /\ talk.status \in {"generating_previews", "broken"} /\ run[r].fn = "preview"
      /\ run[r].phase = "stored" /\ CutOK(run[r])
      /\ UNCHANGED <<raw, media, clip, approved, reviewed>>
  BY Settling, StatusIs DEF PreviewCommit, JobKinds
<1>2. CASE talk.status = "generating_previews"
  <2>1. Becomes(r, Idle) /\ talk' = [talk EXCEPT !.status = "preview"]
    BY <1>1, <1>2 DEF PreviewCommit, Accepted, Advance
  <2>2. talk'.status = "preview" /\ TalkOK' /\ Asked' = Asked /\ Settled' = Settled
    BY <1>1, <1>2, <2>1, StatusOnly DEF TalkStatus, Early, Measured
  <2>3. ShownOK'
    BY <1>1, <2>2 DEF CutOK, ShownOK
  <2>4. run' = [run EXCEPT ![r] = Idle]
    BY <2>1 DEF Becomes
  <2> QED
    BY <1>1, <1>2, <2>2, <2>3, <2>4, Ends DEF Fresh, Processing
<1>3. CASE talk.status = "broken"
  BY <1>1, <1>3, GivesUp DEF PreviewCommit, Accepted, Rejected, Discards
<1> QED
  BY <1>1, <1>2, <1>3

\* job_intro, job_outro and job_concat leave the status to dispatch_assembly
\* and to job_loudness.
LEMMA AssemblyCommitKeeps ==
  ASSUME Guarded, IInv', NEW r \in Runs, NEW kind \in {"intro", "outro", "concat"},
         Settles(r, kind, "stored"), talk.status = "assembling", MarksDone(r), talk' = talk
  PROVE  Guarded'
<1>1. kind \in JobKinds /\ HandsOver(kind) = "assembling"
  BY StatusIs DEF JobKinds
<1>2. /\ Engaged(run[r]) /\ run[r].fn = kind /\ run[r].phase = "stored" /\ AssemblyOK(run[r])
      /\ UNCHANGED <<raw, media, clip, approved, reviewed>>
  BY <1>1, Settling
<1>3. /\ TalkOK' /\ ShownOK' /\ Asked' = Asked /\ Settled' = Settled
      /\ SlatesStored' = SlatesStored
  BY <1>2, SameTalk, EngagedAlone DEF Guarded
<1>4. run'[r].fn = kind /\ run'[r].phase = "committed"
  BY <1>2, MarksDoneIs DEF Guarded
<1>5. CutOK(run[r])' /\ AssemblyOK(run[r])' /\ FinalOK(run[r])'
  BY <1>2, <1>3, <1>4 DEF CutOK, AssemblyOK, FinalOK, Assembling, ClipKeys
<1>6. talk'.status = HandsOver(kind) /\ kind # "publish"
  BY <1>1
<1> QED
  BY <1>1, <1>3, <1>5, <1>6, DoneStep DEF Fresh

\* job_intro and job_outro.
LEMMA SlateCommitKeeps ==
  ASSUME Guarded, IInv', NEW r \in Runs, NEW kind \in ClipKeys, SlateCommit(r, kind)
  PROVE  Guarded'
<1>1. /\ Settles(r, kind, "stored") /\ Engaged(run[r]) /\ run[r].row = "running"
      /\ talk.status \in {"assembling", "broken"}
      /\ UNCHANGED <<raw, media, clip, approved, reviewed>>
  BY Settling, StatusIs DEF SlateCommit, JobKinds, ClipKeys
<1>2. CASE talk.status = "assembling"
  BY <1>1, <1>2, AssemblyCommitKeeps DEF SlateCommit, Accepted, ClipKeys
<1>3. CASE talk.status = "broken"
  BY <1>1, <1>3, GivesUp DEF SlateCommit, Accepted, Rejected, Discards
<1> QED
  BY <1>1, <1>2, <1>3

\* job_concat.
LEMMA ConcatCommitKeeps ==
  ASSUME Guarded, IInv', NEW r \in Runs, ConcatCommit(r) PROVE Guarded'
<1>1. /\ Settles(r, "concat", "stored") /\ Engaged(run[r]) /\ run[r].row = "running"
      /\ talk.status \in {"assembling", "broken"}
      /\ UNCHANGED <<raw, media, clip, approved, reviewed>>
  BY Settling, StatusIs DEF ConcatCommit, JobKinds
<1>2. CASE talk.status = "assembling"
  BY <1>1, <1>2, AssemblyCommitKeeps DEF ConcatCommit, Accepted
<1>3. CASE talk.status = "broken"
  BY <1>1, <1>3, GivesUp DEF ConcatCommit, Accepted, Rejected, Discards
<1> QED
  BY <1>1, <1>2, <1>3

\* job_loudness.
LEMMA LoudnessCommitKeeps ==
  ASSUME Guarded, IInv', NEW r \in Runs, LoudnessCommit(r) PROVE Guarded'
<1>1. /\ Settles(r, "loudness", "stored") /\ Engaged(run[r]) /\ run[r].row = "running"
      /\ talk.status \in {"assembling", "broken"} /\ run[r].fn = "loudness"
      /\ run[r].phase = "stored" /\ AssemblyOK(run[r])
      /\ UNCHANGED <<raw, media, clip, approved, reviewed>>
  BY Settling, StatusIs DEF LoudnessCommit, JobKinds
<1>2. CASE talk.status = "assembling"
  <2>1. MarksDone(r) /\ talk' = [talk EXCEPT !.status = "transcoding"]
    BY <1>1, <1>2 DEF LoudnessCommit, Accepted, Advance
  <2>2. /\ talk'.status = "transcoding" /\ TalkOK' /\ ShownOK'
        /\ Asked' = Asked /\ Settled' = Settled /\ SlatesStored' = SlatesStored
    BY <1>1, <2>1, StatusOnly DEF TalkStatus, Early, Measured
  <2>3. run'[r].fn = "loudness" /\ run'[r].phase = "committed"
    BY <1>1, <2>1, MarksDoneIs DEF Guarded
  <2>4. CutOK(run[r])' /\ AssemblyOK(run[r])' /\ FinalOK(run[r])'
    BY <1>1, <2>2, <2>3 DEF CutOK, AssemblyOK, FinalOK, Assembling, ClipKeys
  <2> QED
    BY <1>1, <1>2, <2>1, <2>2, <2>4, StatusIs, DoneStep DEF JobKinds, Fresh
<1>3. CASE talk.status = "broken"
  BY <1>1, <1>3, GivesUp DEF LoudnessCommit, Accepted, Rejected, Discards
<1> QED
  BY <1>1, <1>2, <1>3

\* job_transcode.
LEMMA TranscodeCommitKeeps ==
  ASSUME Guarded, IInv', NEW r \in Runs, TranscodeCommit(r) PROVE Guarded'
<1>1. /\ Settles(r, "transcode", "stored") /\ Engaged(run[r]) /\ run[r].row = "running"
      /\ talk.status \in {"transcoding", "broken"} /\ run[r].fn = "transcode"
      /\ run[r].phase = "stored" /\ AssemblyOK(run[r]) /\ FinalOK(run[r])
      /\ UNCHANGED <<raw, media, clip, approved, reviewed>>
  BY Settling, StatusIs DEF TranscodeCommit, JobKinds
<1>2. CASE talk.status = "transcoding"
  <2>1. MarksDone(r) /\ talk' = [talk EXCEPT !.status = "uploading"]
    BY <1>1, <1>2 DEF TranscodeCommit, Accepted, Advance
  <2>2. /\ talk'.status = "uploading" /\ TalkOK' /\ ShownOK'
        /\ Asked' = Asked /\ Settled' = Settled /\ \A k \in ClipKeys : talk'[k] = talk[k]
    BY <1>1, <2>1, StatusOnly DEF TalkStatus, Early, Measured
  <2>3. run'[r].fn = "transcode" /\ run'[r].phase = "committed"
    BY <1>1, <2>1, MarksDoneIs DEF Guarded
  <2>4. Settled /\ reviewed = Asked /\ Complete(media["final"])
    BY <1>1 DEF AssemblyOK, FinalOK, Assembling
  <2>5. CutOK(run[r])' /\ AssemblyOK(run[r])'
    BY <1>1, <2>2, <2>3, <2>4 DEF CutOK, AssemblyOK, Assembling, ClipKeys
  <2>6. FinalOK(run[r])'
    BY <1>1, <2>2, <2>3, <2>4 DEF FinalOK, Complete
  <2> QED
    BY <1>1, <1>2, <2>1, <2>2, <2>5, <2>6, StatusIs, DoneStep DEF JobKinds, Fresh
<1>3. CASE talk.status = "broken"
  BY <1>1, <1>3, GivesUp DEF TranscodeCommit, Accepted, Rejected, Discards
<1> QED
  BY <1>1, <1>2, <1>3

\* job_publish: the talk is done, and its final video is the one reviewed.
LEMMA PublishCommitKeeps ==
  ASSUME Guarded, IInv', NEW r \in Runs, PublishCommit(r) PROVE Guarded'
<1>1. /\ Settles(r, "publish", "stored") /\ Engaged(run[r]) /\ run[r].row = "running"
      /\ talk.status \in {"uploading", "broken"} /\ run[r].fn = "publish"
      /\ run[r].phase = "stored" /\ AssemblyOK(run[r]) /\ FinalOK(run[r])
      /\ UNCHANGED <<raw, media, clip, approved, reviewed>>
  BY Settling, StatusIs DEF PublishCommit, JobKinds
<1>2. CASE talk.status = "uploading"
  <2>1. MarksDone(r) /\ talk' = [talk EXCEPT !.status = "done"]
    BY <1>1, <1>2 DEF PublishCommit, Accepted, Advance
  <2>2. /\ talk'.status = "done" /\ TalkOK'
        /\ Asked' = Asked /\ Settled' = Settled /\ \A k \in ClipKeys : talk'[k] = talk[k]
    BY <1>1, <2>1, StatusOnly DEF TalkStatus, Early, Measured
  <2>3. run'[r].fn = "publish" /\ run'[r].phase = "committed"
    BY <1>1, <2>1, MarksDoneIs DEF Guarded
  <2>4. Settled /\ reviewed = Asked /\ Complete(media["final"])
    BY <1>1 DEF AssemblyOK, FinalOK, Assembling
  <2>5. Complete(media["final"])'
    BY <1>1, <2>2, <2>4 DEF Complete
  <2>6. ShownOK'
    BY <1>1, <2>2, <2>4, <2>5 DEF ShownOK
  <2>7. CutOK(run[r])' /\ AssemblyOK(run[r])'
    BY <1>1, <2>2, <2>3, <2>4 DEF CutOK, AssemblyOK, Assembling, ClipKeys
  <2>8. FinalOK(run[r])'
    BY <2>3, <2>5 DEF FinalOK
  <2> QED
    BY <1>1, <1>2, <2>1, <2>2, <2>6, <2>7, <2>8, DoneStep DEF JobKinds, Fresh
<1>3. CASE talk.status = "broken"
  BY <1>1, <1>3, GivesUp DEF PublishCommit, Accepted, Rejected, Discards
<1> QED
  BY <1>1, <1>2, <1>3

\* The second session of every job.
LEMMA JobCommitKeeps == ASSUME Guarded, IInv', NEW r \in Runs, JobCommit(r) PROVE Guarded'
  BY IngestCommitKeeps, DetectCommitKeeps, CutCommitKeeps, PreviewCommitKeeps, SlateCommitKeeps,
     ConcatCommitKeeps, LoudnessCommitKeeps, TranscodeCommitKeeps, PublishCommitKeeps
     DEF JobCommit, IntroCommit, OutroCommit, ClipKeys

-------------------------------------------------------------------------------
(* The successors                                                          *)

\* A slot that has committed and not told Redis yet.
LEMMA Committed ==
  ASSUME Guarded, NEW r \in Runs, NEW kind \in JobKinds, At(r, kind, "committed")
  PROVE  /\ run[r].fn = kind /\ run[r].phase = "committed" /\ Engaged(run[r]) /\ ~run[r].stop
         /\ SlotOK(run[r]) /\ ~Wiped /\ ShownOK
         /\ talk.status \in {IF kind = "publish" THEN "done" ELSE HandsOver(kind), "broken"}
         /\ CutOK(run[r]) /\ AssemblyOK(run[r]) /\ FinalOK(run[r])
<1>1. run[r].fn = kind /\ run[r].phase = "committed" /\ ~run[r].stop /\ SlotOK(run[r])
  BY AliveGoesOn DEF At, Guarded
<1>2. Engaged(run[r])
  BY <1>1 DEF Engaged, JobKinds
<1>3. ~Wiped /\ ShownOK
  BY <1>2, EngagedAlone DEF Guarded
<1>4. /\ talk.status \in Awaited(run[r]) \cup {"broken"}
      /\ CutOK(run[r]) /\ AssemblyOK(run[r]) /\ FinalOK(run[r])
  BY <1>1, <1>2 DEF Guarded, EngagedOK
<1>5. kind # "cleanup"
  BY DEF JobKinds
<1> QED
  BY <1>1, <1>2, <1>3, <1>4, <1>5 DEF Awaited

\* The slot that is engaged hands its part to the job it enqueues.
LEMMA HandsOn ==
  ASSUME Guarded, IInv', NEW r \in Runs, Engaged(run[r]), NEW next, Becomes(r, next),
         next.phase = "queued", next.fn \in JobKinds \ {"ingest"}, ~next.stop,
         next.row = "none", next.fn = "detect" => next.key = UploadKey /\ next.bounds = None,
         talk.status \in {WorksFor(next.fn), "broken"},
         talk' = talk, TalkOK', ShownOK',
         run'[r] = next => CutOK(run[r])' /\ AssemblyOK(run[r])' /\ FinalOK(run[r])'
  PROVE  Guarded'
<1>1. run'[r] = next /\ \A t \in Runs \ {r} : run'[t] = run[t]
  BY BecomesIs DEF Guarded
<1>2. SlotOK(run'[r])
  BY <1>1 DEF SlotOK, Executing, JobKinds
<1>3. Engaged(run'[r]) /\ ~Reverting(run'[r]) /\ run'[r].fn \notin Requests
  BY <1>1 DEF Engaged, Reverting, JobKinds, Requests
<1>4. talk'.status \in Awaited(run'[r]) \cup {"broken"}
  BY <1>1 DEF Awaited
<1>5. EngagedOK(run[r])'
  BY <1>1, <1>4 DEF EngagedOK
<1> QED
  BY <1>1, <1>2, <1>3, <1>5, WorkStep

\* A job whose successor Redis refuses fails.
LEMMA Refused ==
  ASSUME Guarded, IInv', NEW r \in Runs, NEW kind \in JobKinds, At(r, kind, "committed"),
         kind # "publish", "enqueue" \in Faults, Raises(r), talk' = talk, TalkOK', ShownOK'
  PROVE  Guarded'
<1>1. /\ run[r].fn = kind /\ Engaged(run[r]) /\ SlotOK(run[r]) /\ ~run[r].stop
      /\ talk.status \in {HandsOver(kind), "broken"}
  BY Committed
<1>2. /\ \A t \in Runs \ {r} : run'[t] = run[t]
      /\ run'[r].fn = kind /\ run'[r].key = run[r].key /\ run'[r].bounds = run[r].bounds
      /\ run'[r].row = run[r].row /\ ~run'[r].stop /\ run'[r].phase = "failing"
  BY <1>1, PhaseIs DEF Raises, Guarded
<1>3. SlotOK(run'[r])
  BY <1>1, <1>2 DEF SlotOK, Executing, JobKinds, Engaged
<1>4. ~Reverting(run'[r]) /\ run'[r].fn \notin Requests
  BY <1>2 DEF Reverting, JobKinds, Requests
<1>5. HandsOver(kind) \in Processing \cup {"none"} /\ (kind = "ingest" => HandsOver(kind) = "detecting")
  BY DEF HandsOver, Processing
<1>6. talk.status # "none"
  BY DEF Guarded, IInv, RowsOK, TalkRow, TalkStatus
<1>7. talk'.status \in Awaited(run'[r]) \cup {"broken"}
  BY <1>1, <1>2, <1>5, <1>6, StatusIs DEF Awaited
<1>8. EngagedOK(run[r])'
  BY <1>2, <1>7 DEF EngagedOK
<1> QED
  BY <1>1, <1>2, <1>3, <1>4, <1>8, WorkStep

\* A job that is enqueued without arguments.
LEMMA QueuedIs ==
  ASSUME NEW kind
  PROVE  LET s == Queued(kind)
         IN  /\ s.fn = kind /\ s.phase = "queued" /\ ~s.stop /\ s.row = "none"
             /\ s.bounds = None
  BY DEF Queued, Idle

\* The same with the key of the recording.
LEMMA QueuedKeyIs ==
  ASSUME NEW kind, NEW k
  PROVE  LET s == [Queued(kind) EXCEPT !.key = k]
         IN  /\ s.fn = kind /\ s.phase = "queued" /\ ~s.stop /\ s.row = "none"
             /\ s.bounds = None /\ s.key = k
  BY DEF Queued, Idle

\* The step of a job from its commit to its successor, if the files are those
\* the successor has to find.
LEMMA NextStep ==
  ASSUME Guarded, IInv', NEW r \in Runs, NEW kind \in JobKinds, kind # "publish",
         NEW next \in JobKinds \ {"ingest", "detect"},
         WorksFor(next) = HandsOver(kind), Continues(r, kind, Queued(next)),
         TalkOK', ShownOK',
         run'[r] = Queued(next) => CutOK(run[r])' /\ AssemblyOK(run[r])' /\ FinalOK(run[r])'
  PROVE  Guarded'
<1>1. At(r, kind, "committed") /\ talk' = talk
  BY DEF Continues
<1>2. Engaged(run[r]) /\ talk.status \in {WorksFor(next), "broken"}
  BY <1>1, Committed
<1>3. CASE Becomes(r, Queued(next))
  <2> DEFINE s == Queued(next)
  <2>1. s.fn = next /\ s.phase = "queued" /\ ~s.stop /\ s.row = "none"
    BY QueuedIs
  <2>2. Becomes(r, s) /\ (run'[r] = s => CutOK(run[r])' /\ AssemblyOK(run[r])' /\ FinalOK(run[r])')
    BY <1>3
  <2> HIDE DEF s
  <2> QED
    BY <1>1, <1>2, <2>1, <2>2, HandsOn
<1>4. CASE "enqueue" \in Faults /\ Raises(r)
  BY <1>1, <1>4, Refused
<1> QED
  BY <1>3, <1>4 DEF Continues, Enqueues

\* job_ingest enqueues the detection of the recording it has stored.
LEMMA IngestNextKeeps ==
  ASSUME Guarded, IInv', NEW r \in Runs, IngestNext(r) PROVE Guarded'
<1>1. At(r, "ingest", "committed") /\ UNCHANGED <<talk, raw, media, clip, approved, reviewed>>
  BY DEF IngestNext, Continues, storageVars
<1>2. /\ Engaged(run[r]) /\ talk.status \in {"detecting", "broken"} /\ ShownOK
      /\ run[r].key = UploadKey
  BY <1>1, Committed, StatusIs DEF SlotOK, JobKinds
<1>3. TalkOK' /\ ShownOK'
  BY <1>1, <1>2, SameTalk
<1>4. CASE Becomes(r, [Queued("detect") EXCEPT !.key = run[r].key])
  <2> DEFINE s == [Queued("detect") EXCEPT !.key = UploadKey]
  <2>1. /\ s.fn = "detect" /\ s.phase = "queued" /\ ~s.stop /\ s.row = "none"
        /\ s.bounds = None /\ s.key = UploadKey
    BY QueuedKeyIs
  <2>2. Becomes(r, s)
    BY <1>2, <1>4
  <2> HIDE DEF s
  <2>3. run'[r] = s => CutOK(run[r])' /\ AssemblyOK(run[r])' /\ FinalOK(run[r])'
    BY <2>1 DEF CutOK, AssemblyOK, FinalOK, Assembling, ClipKeys
  <2> QED
    BY <1>1, <1>2, <1>3, <2>1, <2>2, <2>3, HandsOn, StatusIs DEF JobKinds
<1>5. CASE "enqueue" \in Faults /\ Raises(r)
  BY <1>1, <1>3, <1>5, Refused DEF JobKinds
<1> QED
  BY <1>4, <1>5 DEF IngestNext, Continues, Enqueues

\* job_cut, job_concat and job_loudness.
LEMMA ContinuesKeeps ==
  ASSUME Guarded, IInv', NEW r \in Runs, CutNext(r) \/ ConcatNext(r) \/ LoudnessNext(r)
  PROVE  Guarded'
<1>1. UNCHANGED <<talk, raw, media, clip, approved, reviewed>>
  BY DEF CutNext, ConcatNext, LoudnessNext, Continues, storageVars
<1>2. PICK kind \in {"cut", "concat", "loudness"} :
        LET next == IF kind = "cut" THEN "preview"
                    ELSE IF kind = "concat" THEN "loudness" ELSE "transcode"
        IN  Continues(r, kind, Queued(next))
  BY DEF CutNext, ConcatNext, LoudnessNext
<1> DEFINE next == IF kind = "cut" THEN "preview"
                   ELSE IF kind = "concat" THEN "loudness" ELSE "transcode"
<1>3. At(r, kind, "committed") /\ Continues(r, kind, Queued(next))
  BY <1>2 DEF Continues
<1>4. /\ kind \in JobKinds /\ kind # "publish" /\ next \in JobKinds \ {"ingest", "detect"}
      /\ WorksFor(next) = HandsOver(kind)
  BY StatusIs DEF JobKinds
<1>5. /\ run[r].fn = kind /\ run[r].phase = "committed" /\ ShownOK
      /\ CutOK(run[r]) /\ AssemblyOK(run[r])
  BY <1>3, <1>4, Committed
<1>6. /\ TalkOK' /\ ShownOK' /\ Asked' = Asked /\ Settled' = Settled
      /\ SlatesStored' = SlatesStored
  BY <1>1, <1>5, SameTalk
<1>7. ASSUME run'[r] = Queued(next)
      PROVE  CutOK(run[r])' /\ AssemblyOK(run[r])' /\ FinalOK(run[r])'
  <2>1. run'[r].fn = next /\ run'[r].phase = "queued"
    BY <1>7, QueuedIs
  <2>2. CutOK(run[r])'
    BY <1>1, <1>5, <1>6, <2>1 DEF CutOK
  <2>3. AssemblyOK(run[r])'
    BY <1>1, <1>5, <1>6, <2>1 DEF AssemblyOK, Assembling, ClipKeys
  <2>4. FinalOK(run[r])'
    BY <1>1, <1>5, <1>6, <2>1 DEF FinalOK, AssemblyOK
  <2> QED
    BY <2>2, <2>3, <2>4
<1> HIDE DEF next
<1> QED
  BY <1>3, <1>4, <1>6, <1>7, NextStep

\* job_transcode cleans the slates up: the final video has them.
LEMMA TranscodeNextKeeps ==
  ASSUME Guarded, IInv', NEW r \in Runs, TranscodeNext(r) PROVE Guarded'
<1>1. /\ At(r, "transcode", "committed") /\ Continues(r, "transcode", Queued("publish"))
      /\ UNCHANGED <<talk, raw, media, approved, reviewed>> /\ clip' = NoClips
  BY DEF TranscodeNext, Continues
<1>2. /\ run[r].fn = "transcode" /\ run[r].phase = "committed" /\ ShownOK
      /\ AssemblyOK(run[r]) /\ FinalOK(run[r])
  BY <1>1, Committed DEF JobKinds
<1>3. /\ Settled /\ reviewed = Asked /\ Complete(media["final"])
  BY <1>2 DEF AssemblyOK, FinalOK, Assembling
<1>4. Settled' /\ reviewed' = Asked' /\ Complete(media["final"])'
  BY <1>1, <1>3 DEF Settled, Asked, Complete
<1>5. TalkOK'
  BY <1>1 DEF Guarded, TalkOK, CutWithinFile, ApprovedIsShown, NoClips
<1>6. ShownOK'
  BY <1>1, <1>2 DEF ShownOK, Settled, Asked, Complete
<1>7. ASSUME run'[r] = Queued("publish")
      PROVE  CutOK(run[r])' /\ AssemblyOK(run[r])' /\ FinalOK(run[r])'
  <2>1. run'[r].fn = "publish" /\ run'[r].phase = "queued"
    BY <1>7, QueuedIs
  <2> QED
    BY <1>4, <2>1 DEF CutOK, AssemblyOK, FinalOK, Assembling, ClipKeys
<1> QED
  BY <1>1, <1>5, <1>6, <1>7, NextStep, StatusIs DEF JobKinds

\* job_publish cleans up: the final video stays.
LEMMA PublishNextKeeps ==
  ASSUME Guarded, IInv', NEW r \in Runs, PublishNext(r) PROVE Guarded'
<1>1. /\ At(r, "publish", "committed") /\ UNCHANGED <<talk, raw, approved, reviewed>>
      /\ CleanupIntermediates /\ Discards(r)
  BY DEF PublishNext, dbVars
<1>2. /\ Engaged(run[r]) /\ talk.status \in {"done", "broken"} /\ ShownOK
  BY <1>1, Committed DEF JobKinds
<1>3. clip' = NoClips /\ media'["final"] = media["final"] /\ media'["cut"] = None
  BY <1>1 DEF CleanupIntermediates, MediaKeys
<1>4. TalkOK'
  BY <1>1, <1>2, <1>3
     DEF Guarded, TalkOK, CutWithinFile, ApprovedIsShown, NoClips, Early, Measured
<1>5. ShownOK'
  BY <1>1, <1>2, <1>3 DEF ShownOK, Settled, Asked, Complete
<1> QED
  BY <1>1, <1>2, <1>4, <1>5, Ends DEF Discards, Processing

\* dispatch_assembly, from whoever carries the work: the next slate that is
\* missing, or the video.
LEMMA DispatchKeeps ==
  ASSUME Guarded, IInv', NEW r \in Runs, Engaged(run[r]), DispatchAssembly(r),
         talk.status \in {"assembling", "broken"}, ShownOK,
         Settled, reviewed = Asked, media["cut"] = Asked,
         UNCHANGED <<talk, raw, media, clip, approved, reviewed>>
  PROVE  Guarded'
<1>1. TalkOK' /\ ShownOK' /\ Asked' = Asked /\ Settled' = Settled
  BY SameTalk
<1>2. CASE talk.status = "broken"
  <2>1. run' = [run EXCEPT ![r] = Idle]
    BY <1>2 DEF DispatchAssembly, Becomes
  <2> QED
    BY <1>2, <2>1, GivesUp
<1>3. CASE talk.status = "assembling"
  <2>1. PICK next \in {Queued("intro"), Queued("outro"), [Queued("concat") EXCEPT !.seen = talk]} :
          /\ Becomes(r, next)
          /\ next = Queued("intro") => talk["intro"] = "generated"
          /\ next = Queued("outro") => talk["outro"] = "generated"
    <3>1. Becomes(r, NextAssembly)
      BY <1>3 DEF DispatchAssembly
    <3>2. /\ Queued("intro") # Queued("outro")
          /\ Queued("intro") # [Queued("concat") EXCEPT !.seen = talk]
          /\ Queued("outro") # [Queued("concat") EXCEPT !.seen = talk]
      BY DEF Queued, Idle
    <3> QED
      BY <3>1, <3>2 DEF NextAssembly
  <2>2. /\ next.phase = "queued" /\ ~next.stop /\ next.row = "none"
        /\ next.fn \in {"intro", "outro", "concat"}
        /\ next.fn \in ClipKeys => talk[next.fn] = "generated"
        /\ next.fn = "concat" => next.seen = talk
    BY <2>1 DEF Queued, Idle, ClipKeys
  <2>3. next.fn \in JobKinds \ {"ingest"} /\ WorksFor(next.fn) = "assembling"
    BY <2>2, StatusIs DEF JobKinds
  <2>4. ASSUME run'[r] = next PROVE CutOK(run[r])' /\ AssemblyOK(run[r])' /\ FinalOK(run[r])'
    <3>1. CutOK(run[r])' /\ FinalOK(run[r])'
      BY <2>2, <2>4 DEF CutOK, FinalOK
    <3>2. AssemblyOK(run[r])'
      BY <1>1, <2>2, <2>4 DEF AssemblyOK, Assembling, ClipKeys
    <3> QED
      BY <3>1, <3>2
  <2> QED
    BY <1>1, <1>3, <2>1, <2>2, <2>3, <2>4, HandsOn
<1> QED
  BY <1>2, <1>3

\* What job_intro and job_outro enqueue.
LEMMA SlateNextKeeps ==
  ASSUME Guarded, IInv', NEW r \in Runs, SlateNext(r) PROVE Guarded'
<1>1. PICK kind \in ClipKeys : At(r, kind, "committed")
  BY DEF SlateNext
<1>2. kind \in JobKinds /\ kind # "publish" /\ HandsOver(kind) = "assembling"
      /\ kind \in Assembling /\ kind \in {"assembly", "intro", "outro", "concat"}
  BY StatusIs DEF ClipKeys, JobKinds, Assembling
<1>3. /\ run[r].fn = kind /\ Engaged(run[r]) /\ ShownOK
      /\ talk.status \in {"assembling", "broken"} /\ AssemblyOK(run[r])
  BY <1>1, <1>2, Committed
<1>4. UNCHANGED <<talk, raw, media, clip, approved, reviewed>>
  BY DEF SlateNext, storageVars
<1>5. Settled /\ reviewed = Asked /\ media["cut"] = Asked
  BY <1>2, <1>3 DEF AssemblyOK
<1>6. CASE DispatchAssembly(r)
  BY <1>3, <1>4, <1>5, <1>6, DispatchKeeps
<1>7. CASE "enqueue" \in Faults /\ Raises(r)
  <2>1. TalkOK' /\ ShownOK'
    BY <1>3, <1>4, SameTalk
  <2> QED
    BY <1>1, <1>2, <1>4, <1>7, <2>1, Refused
<1> QED
  BY <1>6, <1>7 DEF SlateNext

\* What every job does after its second session.
LEMMA JobNextKeeps == ASSUME Guarded, IInv', NEW r \in Runs, JobNext(r) PROVE Guarded'
  BY IngestNextKeeps, ContinuesKeeps, SlateNextKeeps, TranscodeNextKeeps, PublishNextKeeps
     DEF JobNext

-------------------------------------------------------------------------------
(* Failures                                                                *)

\* A job fails while it works: the talk is still in its hands.
LEMMA WorkFailsKeeps ==
  ASSUME Guarded, IInv', NEW r \in Runs, WorkFails(r) PROVE Guarded'
<1>1. /\ "work" \in Faults /\ run[r].phase = "started" /\ ~run[r].stop /\ SlotOK(run[r])
      /\ Raises(r) /\ UNCHANGED <<talk, raw, media, clip, approved, reviewed>>
  BY AliveGoesOn DEF WorkFails, Guarded, dbVars, storageVars
<1>2. run[r].fn \in JobKinds /\ run[r].phase \in {"started", "stored"}
  BY <1>1 DEF SlotOK, Executing
<1>3. Engaged(run[r]) /\ talk.status \in {WorksFor(run[r].fn), "broken"}
  BY <1>1, <1>2, AtWork
<1>4. TalkOK' /\ ShownOK'
  BY <1>1, <1>3, SameTalk, EngagedAlone DEF Guarded
<1>5. /\ \A t \in Runs \ {r} : run'[t] = run[t]
      /\ run'[r].fn = run[r].fn /\ run'[r].key = run[r].key
      /\ run'[r].bounds = run[r].bounds
      /\ run'[r].row = run[r].row /\ ~run'[r].stop /\ run'[r].phase = "failing"
  BY <1>1, PhaseIs DEF Raises, Guarded
<1>6. SlotOK(run'[r])
  BY <1>1, <1>2, <1>3, <1>5 DEF SlotOK, Executing, JobKinds
<1>7. Engaged(run'[r]) /\ ~Reverting(run'[r]) /\ run'[r].fn \notin Requests
  BY <1>2, <1>5 DEF Engaged, Reverting, JobKinds, Requests
<1>8. WorksFor(run[r].fn) \in Processing
  BY <1>2, StatusIs DEF JobKinds, Processing
<1>9. talk'.status \in Awaited(run'[r]) \cup {"broken"}
  BY <1>1, <1>3, <1>5, <1>8 DEF Awaited
<1>10. EngagedOK(run[r])'
  BY <1>5, <1>9 DEF EngagedOK
<1> QED
  BY <1>1, <1>3, <1>4, <1>5, <1>6, <1>7, <1>10, WorkStep

\* job_ingest gives back a claim that nobody else can hold.
LEMMA IngestRollbackKeeps ==
  ASSUME Guarded, IInv', NEW r \in Runs, IngestRollback(r) PROVE Guarded'
<1>1. /\ run[r].fn = "ingest" /\ run[r].phase = "failing" /\ ~run[r].stop /\ SlotOK(run[r])
      /\ UNCHANGED <<raw, media, clip, approved, reviewed>>
  BY AliveGoesOn DEF IngestRollback, At, Guarded, storageVars
<1>2. Engaged(run[r])
  BY <1>1 DEF Engaged
<1>3. talk.status \in {"detecting", "broken"}
  BY <1>1, <1>2, StatusIs DEF Guarded, EngagedOK, Awaited
<1> DEFINE status == IF talk.status = "detecting" THEN "waiting_for_files" ELSE talk.status
<1>4. talk' = [talk EXCEPT !.status = status]
  BY DEF IngestRollback
<1>5. /\ status \in TalkStatus /\ status \in {"waiting_for_files", "broken"}
      /\ status \in Early => talk.status \in Early
      /\ status \notin Measured /\ status \in Fresh
  BY <1>3 DEF TalkStatus, Early, Measured, Fresh
<1> HIDE DEF status
<1>6. talk'.status = status /\ TalkOK' /\ ShownOK'
  BY <1>1, <1>4, <1>5, StatusOnly
<1>7. /\ \A t \in Runs \ {r} : run'[t] = run[t]
      /\ run'[r].fn = "ingest" /\ run'[r].key = run[r].key
      /\ run'[r].bounds = run[r].bounds
      /\ run'[r].row = run[r].row /\ ~run'[r].stop /\ run'[r].phase = "rolledback"
  BY <1>1, PhaseIs DEF IngestRollback, Guarded
<1>8. SlotOK(run'[r])
  BY <1>1, <1>7 DEF SlotOK, Executing, Engaged
<1>9. ~Engaged(run'[r]) /\ run'[r].fn \notin Requests
  BY <1>7 DEF Engaged, Requests
<1>10. EngagedOK(run[r])'
  BY <1>9 DEF EngagedOK
<1>11. talk'.status \notin Processing
  BY <1>5, <1>6 DEF Processing
<1> QED
  BY <1>2, <1>5, <1>6, <1>7, <1>8, <1>9, <1>10, <1>11, WorkStep

\* _handle_failure breaks the talk the job had in its hands; after a roll-back
\* it breaks whatever the talk has become since.
LEMMA HandleFailureKeeps ==
  ASSUME Guarded, IInv', NEW r \in Runs, HandleFailure(r) PROVE Guarded'
<1>1. /\ ~run[r].stop /\ SlotOK(run[r]) /\ run' = [run EXCEPT ![r] = Idle]
      /\ UNCHANGED <<raw, media, clip, approved, reviewed>>
  BY AliveGoesOn DEF HandleFailure, Guarded, storageVars, Discards
<1>2. talk \in TalkRow /\ run'[r] = Idle /\ \A t \in Runs \ {r} : run'[t] = run[t]
  BY <1>1 DEF Guarded, IInv, RowsOK, RunsOK
<1>3. CASE run[r].phase = "failing" /\ run[r].fn # "ingest"
  <2>1. run[r].fn \in JobKinds
    BY <1>1, <1>3 DEF SlotOK, Executing
  <2>2. Engaged(run[r])
    BY <1>1, <1>3, <2>1 DEF Engaged, JobKinds
  <2>3. talk.status \in Processing \cup {"broken"}
    BY <1>3, <2>2 DEF Guarded, EngagedOK, Awaited
  <2>4. talk' = [talk EXCEPT !.status = AfterFailure(talk.status)]
    BY <1>1, <2>2 DEF HandleFailure, SlotOK
  <2>5. AfterFailure(talk.status) = "broken"
    BY <2>3 DEF AfterFailure, FailureExempt, Processing
  <2>6. talk'.status = "broken" /\ TalkOK' /\ ShownOK'
    BY <1>1, <2>4, <2>5, StatusOnly DEF TalkStatus, Early, Measured
  <2> QED
    BY <1>1, <2>2, <2>6, Ends DEF Fresh, Processing
<1>4. CASE run[r].phase = "rolledback"
  <2>1. run[r].fn = "ingest"
    BY <1>1, <1>4 DEF SlotOK
  <2>2. ~Engaged(run[r]) /\ run[r].fn # "abort_talk"
    BY <1>4, <2>1 DEF Engaged
  <2>3. talk' = talk \/ talk' = [talk EXCEPT !.status = "broken"]
    BY <1>2 DEF HandleFailure, AfterFailure, TalkRow
  <2>4. Idle.fn \notin JobKinds /\ Idle.fn # "abort_talk"
    BY DEF Idle, JobKinds
  <2> QED
    BY <1>1, <1>2, <2>2, <2>3, <2>4, IdleIs, QuietStep
<1> QED
  BY <1>3, <1>4 DEF HandleFailure

\* Everything the jobs do.
LEMMA JobKeeps == ASSUME Guarded, IInv', NEW r \in Runs, Job(r) PROVE Guarded'
  BY JobStartKeeps, JobStoreKeeps, JobCommitKeeps, JobNextKeeps, WorkFailsKeeps,
     IngestRollbackKeeps, HandleFailureKeeps DEF Job, JobFailure

\* A job that obeys the stop command takes no part any more.
LEMMA KilledKeeps == ASSUME Guarded, IInv', NEW r \in Runs, Killed(r) PROVE Guarded'
<1>1. /\ run[r].stop /\ run[r].phase \in Executing /\ SlotOK(run[r])
      /\ run' = [run EXCEPT ![r] = Idle]
      /\ UNCHANGED <<talk, raw, media, clip, approved, reviewed>>
  BY DEF Killed, Becomes, Guarded, storageVars
<1>2. run'[r] = Idle /\ \A t \in Runs \ {r} : run'[t] = run[t]
  BY <1>1 DEF Guarded, IInv, RunsOK
<1>3. ~Engaged(run[r]) /\ run[r].phase # "staged"
  BY <1>1 DEF Engaged, Executing
<1>4. Idle.fn \notin JobKinds /\ Idle.fn # "abort_talk"
  BY DEF Idle, JobKinds
<1> QED
  BY <1>1, <1>2, <1>3, <1>4, IdleIs, QuietStep

\* Where processes die, nobody aborts: what dies was at most the work.
LEMMA CrashesKeeps == ASSUME Guarded, IInv', NEW r \in Runs, Crashes(r) PROVE Guarded'
<1>1. /\ "crash" \in Faults /\ run' = [run EXCEPT ![r] = Idle] /\ SlotOK(run[r])
      /\ UNCHANGED <<talk, raw, media, clip, approved, reviewed>>
  BY DEF Crashes, Becomes, Guarded, storageVars
<1>2. run'[r] = Idle /\ \A t \in Runs \ {r} : run'[t] = run[t]
  BY <1>1 DEF Guarded, IInv, RunsOK
<1>3. CASE Engaged(run[r])
  <2>1. TalkOK' /\ ShownOK'
    BY <1>1, <1>3, SameTalk, EngagedAlone DEF Guarded
  <2> QED
    BY <1>1, <1>3, <2>1, Ends
<1>4. CASE ~Engaged(run[r])
  <2>1. run[r].fn # "abort_talk"
    BY <1>1 DEF SlotOK, Guarded, Undisturbed
  <2>2. Idle.fn \notin JobKinds /\ Idle.fn # "abort_talk"
    BY DEF Idle, JobKinds
  <2> QED
    BY <1>1, <1>2, <1>4, <2>1, <2>2, IdleIs, QuietStep
<1> QED
  BY <1>3, <1>4

-------------------------------------------------------------------------------
(* Requests that have committed                                            *)

\* A request that has committed and not told Redis yet.
LEMMA Sending ==
  ASSUME Guarded, NEW r \in Runs, NEW fn \in {"submit_cut", "assembly", "cleanup"},
         At(r, fn, "sending")
  PROVE  /\ run[r].fn = fn /\ run[r].phase = "sending" /\ Engaged(run[r]) /\ ShownOK
         /\ talk.status \in Awaited(run[r]) \cup {"broken"}
         /\ CutOK(run[r]) /\ AssemblyOK(run[r])
<1>1. run[r].fn = fn /\ run[r].phase = "sending" /\ ~run[r].stop
  BY AliveGoesOn DEF At
<1>2. Engaged(run[r])
  BY <1>1 DEF Engaged
<1>3. ShownOK
  BY <1>2, EngagedAlone DEF Guarded
<1> QED
  BY <1>1, <1>2, <1>3 DEF Guarded, EngagedOK

\* submit_cut_bounds enqueues job_cut, or leaves the talk in "cutting".
LEMMA SubmitCutSendsKeeps ==
  ASSUME Guarded, IInv', NEW r \in Runs, SubmitCutSends(r) PROVE Guarded'
<1>1. /\ At(r, "submit_cut", "sending")
      /\ UNCHANGED <<talk, raw, media, clip, approved, reviewed>>
  BY DEF SubmitCutSends, storageVars
<1>2. /\ run[r].fn = "submit_cut" /\ run[r].phase = "sending" /\ Engaged(run[r]) /\ ShownOK
      /\ talk.status \in {"cutting", "broken"} /\ CutOK(run[r])
  BY <1>1, Sending, StatusIs DEF Awaited
<1>3. Settled /\ run[r].key = UploadKey /\ raw[UploadKey] \in {None, talk.detected}
  BY <1>2 DEF CutOK
<1>4. TalkOK' /\ ShownOK' /\ Settled' = Settled
  BY <1>1, <1>2, SameTalk
<1>5. CASE Becomes(r, [Queued("cut") EXCEPT !.key = run[r].key])
  <2> DEFINE s == [Queued("cut") EXCEPT !.key = UploadKey]
  <2>1. /\ s.fn = "cut" /\ s.phase = "queued" /\ ~s.stop /\ s.row = "none"
        /\ s.bounds = None /\ s.key = UploadKey
    BY QueuedKeyIs
  <2>2. Becomes(r, s)
    BY <1>3, <1>5
  <2> HIDE DEF s
  <2>3. run'[r] = s => CutOK(run[r])' /\ AssemblyOK(run[r])' /\ FinalOK(run[r])'
    BY <1>1, <1>3, <1>4, <2>1 DEF CutOK, AssemblyOK, FinalOK, Assembling, ClipKeys
  <2> QED
    BY <1>1, <1>2, <1>4, <2>1, <2>2, <2>3, HandsOn, StatusIs DEF JobKinds
<1>6. CASE "enqueue" \in Faults /\ Becomes(r, Idle)
  <2>1. run' = [run EXCEPT ![r] = Idle]
    BY <1>6 DEF Becomes
  <2> QED
    BY <1>1, <1>2, <1>4, <1>6, <2>1, Ends
<1> QED
  BY <1>5, <1>6 DEF SubmitCutSends

\* handle_approve calls dispatch_assembly, or breaks the talk.
LEMMA AssemblySendsKeeps ==
  ASSUME Guarded, IInv', NEW r \in Runs, AssemblySends(r) PROVE Guarded'
<1>1. At(r, "assembly", "sending") /\ UNCHANGED <<raw, media, clip, approved, reviewed>>
  BY DEF AssemblySends, storageVars
<1>2. /\ run[r].fn = "assembly" /\ Engaged(run[r]) /\ ShownOK
      /\ talk.status \in {"assembling", "broken"} /\ AssemblyOK(run[r])
  BY <1>1, Sending, StatusIs DEF Awaited
<1>3. Settled /\ reviewed = Asked /\ media["cut"] = Asked
  BY <1>2 DEF AssemblyOK, Assembling
<1>4. CASE DispatchAssembly(r) /\ UNCHANGED talk
  BY <1>1, <1>2, <1>3, <1>4, DispatchKeeps
<1>5. CASE "enqueue" \in Faults /\ Becomes(r, Idle) /\ Advance("broken")
  <2>1. run' = [run EXCEPT ![r] = Idle] /\ talk' = [talk EXCEPT !.status = "broken"]
    BY <1>5 DEF Becomes, Advance
  <2>2. talk'.status = "broken" /\ TalkOK' /\ ShownOK'
    BY <1>1, <2>1, StatusOnly DEF TalkStatus, Early, Measured
  <2> QED
    BY <1>2, <2>1, <2>2, Ends DEF Fresh, Processing
<1> QED
  BY <1>4, <1>5 DEF AssemblySends

\* The clean-up after a rejection: nobody works on what it removes.
LEMMA CleanupSendsKeeps ==
  ASSUME Guarded, IInv', NEW r \in Runs, CleanupSends(r) PROVE Guarded'
<1>1. /\ At(r, "cleanup", "sending") /\ UNCHANGED <<talk, raw, approved, reviewed>>
      /\ CleanupIntermediates /\ run' = [run EXCEPT ![r] = Idle]
  BY DEF CleanupSends, Becomes
<1>2. Engaged(run[r]) /\ talk.status \in {"pending_bounds", "rejected", "broken"}
  BY <1>1, Sending DEF Awaited
<1>3. clip' = NoClips /\ media'["cut"] = None
  BY <1>1 DEF CleanupIntermediates, MediaKeys
<1>4. TalkOK'
  BY <1>1, <1>2, <1>3 DEF Guarded, TalkOK, CutWithinFile, ApprovedIsShown, NoClips, Early
<1>5. ShownOK'
  BY <1>1, <1>2 DEF ShownOK
<1> QED
  BY <1>1, <1>2, <1>4, <1>5, Ends DEF Processing

\* What the requests do after their commit.
LEMMA SendsKeeps == ASSUME Guarded, IInv', NEW r \in Runs, Sends(r) PROVE Guarded'
<1>1. run[r].fn \notin {"ingest_recording", "attach_room"}
  BY SlotType DEF Guarded, Undisturbed, WellFormed
<1> QED
  BY <1>1, SubmitCutSendsKeeps, AssemblySendsKeeps, CleanupSendsKeeps
     DEF Sends, IngestRecordingSends, AttachSends, At

-------------------------------------------------------------------------------
(* Requests that begin, and decisions                                      *)

\* A request begins while no other one is under way: nothing is taken apart.
LEMMA Asking ==
  ASSUME Guarded, MayAsk
  PROVE  (\A t \in Runs : run[t].fn \notin Requests) /\ ~Wiped /\ ShownOK
<1>1. \A t \in Runs : run[t].fn \notin Requests
  BY DEF MayAsk, Guarded, Undisturbed
<1>2. ~Wiped
  BY <1>1 DEF Wiped, Requests
<1> QED
  BY <1>1, <1>2 DEF Guarded

\* A person decides: no job and no request has the talk in its hands.
LEMMA DecisionStep ==
  ASSUME Guarded, IInv', NEW r \in Runs, MayAsk,
         talk.status \in {"pending_approval", "pending_intro_outro", "pending_bounds",
                          "needs_work", "preview"},
         \A t \in Runs \ {r} : run'[t] = run[t],
         SlotOK(run'[r]), EngagedOK(run[r])', TalkOK', ShownOK',
         run'[r] = run[r] \/ (~Reverting(run'[r]) /\ run'[r].fn # "abort_talk"),
         talk'.status \in Processing => Engaged(run'[r])
  PROVE  Guarded'
<1>1. (\A t \in Runs : run[t].fn \notin Requests) /\ ~Wiped
  BY Asking
<1>2. \A t \in Runs : ~Engaged(run[t])
  BY <1>1, NobodyEngaged DEF Processing, Requests
<1>3. OneReverts => \A t \in Runs : ~Reverting(run[t])
  BY DEF Guarded, RevertsOK
<1>4. run'[r].fn # "abort_talk"
  BY <1>1 DEF Requests
<1>5. ~\E t \in Runs : run[t].fn = "abort_talk"
  BY <1>1 DEF Requests
<1> QED
  BY <1>1, <1>2, <1>3, <1>4, <1>5, Alone

\* A request takes a free slot.
LEMMA TakesIs ==
  ASSUME Guarded, NEW r \in Runs, NEW s, Takes(r, s)
  PROVE  /\ MayAsk /\ run[r] = Idle /\ run'[r] = s
         /\ \A t \in Runs \ {r} : run'[t] = run[t]
  BY BecomesIs DEF Takes, Guarded

\* A request that has committed at once and has something left to send.
LEMMA RequestIs ==
  ASSUME NEW fn \in {"submit_cut", "assembly", "cleanup"}, NEW phase
  PROVE  LET s == Request(fn, phase)
         IN  s.fn = fn /\ s.phase = phase /\ ~s.stop /\ s.row = "none"
  BY DEF Request, Idle

\* Its slot is in order and takes part in the work.
LEMMA RequestOK ==
  ASSUME NEW s, s.fn \in {"submit_cut", "assembly", "cleanup"}, s.phase = "sending", ~s.stop,
         s.row = "none"
  PROVE  SlotOK(s) /\ Engaged(s) /\ ~Reverting(s) /\ s.fn # "abort_talk"
  BY DEF SlotOK, Engaged, Reverting, Executing

\* upload_recording: the job waits for its turn.
LEMMA UploadKeeps ==
  ASSUME Guarded, IInv', NEW r \in Runs, UploadRecording(r) PROVE Guarded'
<1>1. PICK c \in Recordings :
        Takes(r, [Queued("ingest") EXCEPT !.key = UploadKey, !.input = Footage(c, None)])
  BY DEF UploadRecording
<1> DEFINE s == [Queued("ingest") EXCEPT !.key = UploadKey, !.input = Footage(c, None)]
<1>2. s.fn = "ingest" /\ s.phase = "queued" /\ ~s.stop /\ s.row = "none" /\ s.key = UploadKey
  BY DEF Queued, Idle
<1>3. Takes(r, s)
  BY <1>1
<1> HIDE DEF s
<1>4. /\ MayAsk /\ run[r] = Idle /\ run'[r] = s
      /\ \A t \in Runs \ {r} : run'[t] = run[t]
  BY <1>3, TakesIs
<1>5. SlotOK(run'[r]) /\ ~Engaged(run'[r]) /\ ~Reverting(run'[r])
  BY <1>2, <1>4 DEF SlotOK, Engaged, Reverting, Executing, JobKinds
<1>6. run'[r].fn \notin Requests /\ run'[r].fn # "abort_talk"
  BY <1>2, <1>4 DEF Requests
<1>7. ~Wiped /\ ~Engaged(run[r]) /\ run[r].fn # "abort_talk"
  BY <1>4, Asking, IdleIs DEF Idle
<1>8. UNCHANGED <<talk, raw, media, clip, approved, reviewed>>
  BY DEF UploadRecording, dbVars, storageVars
<1> QED
  BY <1>4, <1>5, <1>6, <1>7, <1>8, QuietStep

\* abort_talk reads the talk.
LEMMA AbortReadsKeeps ==
  ASSUME Guarded, IInv', NEW r \in Runs, AbortReads(r) PROVE Guarded'
<1> DEFINE s == [Request("abort_talk", "reading") EXCEPT !.seen = talk]
<1>1. Takes(r, s) /\ "abort" \in Entries
  BY DEF AbortReads
<1>2. s.fn = "abort_talk" /\ s.phase = "reading" /\ ~s.stop /\ s.row = "none" /\ s.seen = talk
  BY DEF Request, Idle
<1> HIDE DEF s
<1>3. /\ MayAsk /\ run[r] = Idle /\ run'[r] = s
      /\ \A t \in Runs \ {r} : run'[t] = run[t]
  BY <1>1, TakesIs
<1>4. SlotOK(run'[r]) /\ ~Engaged(run'[r]) /\ ~Reverting(run'[r])
  BY <1>1, <1>2, <1>3 DEF SlotOK, Engaged, Reverting, Executing, JobKinds
<1>5. (\A t \in Runs : run[t].fn \notin Requests) /\ run'[r].fn \notin JobKinds
  BY <1>2, <1>3, Asking DEF JobKinds
<1>6. ~Engaged(run[r]) /\ run[r].fn # "abort_talk"
  BY <1>3, IdleIs DEF Idle
<1>7. UNCHANGED <<talk, raw, media, clip, approved, reviewed>>
  BY DEF AbortReads, dbVars, storageVars
<1> QED
  BY <1>2, <1>3, <1>4, <1>5, <1>6, <1>7, QuietStep

\* approve_talk with decision reject.
LEMMA RejectTalkKeeps ==
  ASSUME Guarded, IInv', NEW r \in Runs, RejectTalk(r) PROVE Guarded'
<1> DEFINE s == Request("cleanup", "sending")
<1>1. /\ Takes(r, s) /\ talk.status = "pending_approval"
      /\ talk' = [talk EXCEPT !.status = "rejected"]
      /\ UNCHANGED <<raw, media, clip, approved, reviewed>>
  BY DEF RejectTalk, Advance, storageVars
<1>2. s.fn = "cleanup" /\ s.phase = "sending" /\ ~s.stop /\ s.row = "none"
  BY RequestIs
<1> HIDE DEF s
<1>3. /\ MayAsk /\ run'[r] = s /\ \A t \in Runs \ {r} : run'[t] = run[t]
  BY <1>1, TakesIs
<1>4. SlotOK(s) /\ Engaged(s) /\ ~Reverting(s) /\ s.fn # "abort_talk"
  BY <1>2, RequestOK
<1>5. talk'.status = "rejected" /\ TalkOK' /\ ShownOK'
  BY <1>1, StatusOnly DEF TalkStatus, Early, Measured
<1>6. EngagedOK(run[r])'
  BY <1>2, <1>3, <1>5 DEF EngagedOK, Awaited, CutOK, AssemblyOK, FinalOK, Assembling, ClipKeys
<1> QED
  BY <1>1, <1>3, <1>4, <1>5, <1>6, DecisionStep

\* The first file under raw/ is the recording, as it is the only one.
LEMMA FirstIsUpload ==
  ASSUME Guarded, \E k \in RawKeys : raw[k] # None
  PROVE  FirstRawKey = UploadKey
<1>1. \A k \in RawKeys \ {UploadKey} : raw[k] = None
  BY DEF Guarded, TalkOK
<1>2. UploadKey \in RawKeys /\ raw[UploadKey] # None /\ UploadKey <= UploadKey
  BY <1>1, KeysAssumption
<1>3. \A k \in RawKeys : /\ raw[k] # None
                         /\ \A j \in RawKeys : raw[j] # None => k <= j
                         <=> k = UploadKey
  BY <1>1, <1>2
<1> QED
  BY <1>2, <1>3 DEF FirstRawKey

\* submit_cut_bounds: the bounds lie within the recording that is stored.
LEMMA SubmitCutBoundsKeeps ==
  ASSUME Guarded, IInv', NEW r \in Runs, SubmitCutBounds(r) PROVE Guarded'
<1> DEFINE s == [Request("submit_cut", "sending") EXCEPT !.key = UploadKey]
<1>1. /\ Takes(r, s) /\ talk.status \in {"pending_bounds", "needs_work"} /\ talk.detected # None
      /\ UNCHANGED <<raw, media, clip, approved, reviewed>>
  BY FirstIsUpload DEF SubmitCutBounds, storageVars
<1>2. PICK b \in Fits[talk.detected] : talk' = [talk EXCEPT !.status = "cutting", !.bounds = b]
  BY DEF SubmitCutBounds
<1>3. /\ s.fn = "submit_cut" /\ s.phase = "sending" /\ ~s.stop /\ s.row = "none"
      /\ s.key = UploadKey
  BY DEF Request, Idle
<1> HIDE DEF s
<1>4. /\ MayAsk /\ run'[r] = s /\ \A t \in Runs \ {r} : run'[t] = run[t]
  BY <1>1, TakesIs
<1>5. SlotOK(s) /\ Engaged(s) /\ ~Reverting(s) /\ s.fn # "abort_talk"
  BY <1>3, RequestOK
<1>6. talk \in TalkRow
  BY DEF Guarded, IInv, RowsOK
<1>7. /\ talk'.status = "cutting" /\ talk'.detected = talk.detected /\ talk'.bounds = b
      /\ \A k \in ClipKeys : talk'[k] = talk[k]
  BY <1>2, <1>6 DEF TalkRow, ClipKeys
<1>8. Settled'
  BY <1>1, <1>6, <1>7 DEF Settled, TalkRow
<1>9. raw[UploadKey] \in {None, talk.detected}
  BY <1>1 DEF Guarded, TalkOK, Measured
<1>10. TalkOK'
  BY <1>1, <1>7, <1>9 DEF Guarded, TalkOK, CutWithinFile, ApprovedIsShown, Early
<1>11. ShownOK'
  BY <1>7 DEF ShownOK
<1>12. EngagedOK(run[r])'
  BY <1>1, <1>3, <1>4, <1>7, <1>8, <1>9, StatusIs
     DEF EngagedOK, Awaited, CutOK, AssemblyOK, FinalOK, Assembling, ClipKeys
<1> QED
  BY <1>1, <1>4, <1>5, <1>10, <1>11, <1>12, DecisionStep

\* handle_approve: what is approved is what the reviewer is shown.
LEMMA HandleApproveKeeps ==
  ASSUME Guarded, IInv', NEW r \in Runs, HandleApprove(r) PROVE Guarded'
<1> DEFINE s == Request("assembly", "sending")
<1>1. /\ Takes(r, s) /\ talk.status = "preview"
      /\ talk' = [talk EXCEPT !.status = "assembling"]
      /\ UNCHANGED <<raw, media, clip>>
      /\ approved' = talk.bounds /\ reviewed' = media["preview"]
  BY DEF HandleApprove, Advance, storageVars
<1>2. s.fn = "assembly" /\ s.phase = "sending" /\ ~s.stop /\ s.row = "none"
  BY RequestIs
<1> HIDE DEF s
<1>3. /\ MayAsk /\ run'[r] = s /\ \A t \in Runs \ {r} : run'[t] = run[t]
  BY <1>1, TakesIs
<1>4. SlotOK(s) /\ Engaged(s) /\ ~Reverting(s) /\ s.fn # "abort_talk"
  BY <1>2, RequestOK
<1>5. talk \in TalkRow
  BY DEF Guarded, IInv, RowsOK
<1>6. /\ talk'.status = "assembling" /\ talk'.detected = talk.detected
      /\ talk'.bounds = talk.bounds /\ \A k \in ClipKeys : talk'[k] = talk[k]
  BY <1>1, <1>5 DEF TalkRow, ClipKeys
<1>7. Settled /\ media["cut"] = Asked /\ media["preview"] = Asked
  BY <1>1, <1>3, Asking DEF ShownOK
<1>8. Settled' /\ Asked' = Asked
  BY <1>6, <1>7 DEF Settled, Asked
<1>9. Asked # None /\ Asked.bounds = talk.bounds
  <2>1. Asked \in Content
    BY <1>5, <1>7, FootageOK DEF Settled, Asked, TalkRow
  <2> QED
    BY <2>1, NoneAssumption DEF Asked, Footage
<1>10. TalkOK'
  BY <1>1, <1>6, <1>7, <1>9
     DEF Guarded, TalkOK, CutWithinFile, ApprovedIsShown, Early, Measured
<1>11. ShownOK'
  BY <1>6 DEF ShownOK
<1>12. EngagedOK(run[r])'
  BY <1>1, <1>2, <1>3, <1>6, <1>7, <1>8, StatusIs
     DEF EngagedOK, Awaited, CutOK, AssemblyOK, FinalOK, Assembling, ClipKeys
<1> QED
  BY <1>1, <1>3, <1>4, <1>10, <1>11, <1>12, DecisionStep

\* handle_reject: the bounds are withdrawn.
LEMMA HandleRejectKeeps ==
  ASSUME Guarded, IInv', NEW r \in Runs, HandleReject(r) PROVE Guarded'
<1> DEFINE s == Request("cleanup", "sending")
<1>1. /\ Takes(r, s) /\ talk.status = "preview"
      /\ talk' = [talk EXCEPT !.status = "pending_bounds", !.bounds = None]
      /\ UNCHANGED <<raw, media, clip, approved, reviewed>>
  BY DEF HandleReject, storageVars
<1>2. s.fn = "cleanup" /\ s.phase = "sending" /\ ~s.stop /\ s.row = "none"
  BY RequestIs
<1> HIDE DEF s
<1>3. /\ MayAsk /\ run'[r] = s /\ \A t \in Runs \ {r} : run'[t] = run[t]
  BY <1>1, TakesIs
<1>4. SlotOK(s) /\ Engaged(s) /\ ~Reverting(s) /\ s.fn # "abort_talk"
  BY <1>2, RequestOK
<1>5. talk \in TalkRow
  BY DEF Guarded, IInv, RowsOK
<1>6. /\ talk'.status = "pending_bounds" /\ talk'.detected = talk.detected
      /\ \A k \in ClipKeys : talk'[k] = talk[k]
  BY <1>1, <1>5 DEF TalkRow, ClipKeys
<1>7. TalkOK'
  BY <1>1, <1>6 DEF Guarded, TalkOK, CutWithinFile, ApprovedIsShown, Early, Measured
<1>8. ShownOK'
  BY <1>6 DEF ShownOK
<1>9. EngagedOK(run[r])'
  BY <1>2, <1>3, <1>6 DEF EngagedOK, Awaited, CutOK, AssemblyOK, FinalOK, Assembling, ClipKeys
<1> QED
  BY <1>1, <1>3, <1>4, <1>7, <1>8, <1>9, DecisionStep

\* configure_assembly is offered a talk that has a cut already, in a status no
\* talk with a cut gets back to here.
LEMMA NoAssembly == ASSUME Guarded, NEW r \in Runs PROVE ~ConfigureAssembly(r)
  BY DEF Guarded, TalkOK, Early, ConfigureAssembly, MediaKeys

\* The requests that begin.
LEMMA AsksKeeps == ASSUME Guarded, IInv', NEW r \in Runs, Asks(r) PROVE Guarded'
<1>1. ~IngestRecordingReads(r) /\ ~AttachReads(r)
  BY DEF IngestRecordingReads, AttachReads, Guarded, Undisturbed
<1> QED
  BY <1>1, NoAssembly, UploadKeeps, RejectTalkKeeps, SubmitCutBoundsKeeps, HandleApproveKeeps,
     HandleRejectKeeps, AbortReadsKeeps DEF Asks

\* approve_talk, handoff_talk and handle_needs_work.
LEMMA DecidesKeeps == ASSUME Guarded, IInv', Decides PROVE Guarded'
<1>1. PICK r \in Runs : TRUE
  BY RunsAssumption
<1>2. /\ MayAsk /\ run' = run /\ UNCHANGED <<raw, media, approved, reviewed>>
      /\ talk.status \in {"pending_approval", "pending_intro_outro", "preview"}
  BY DEF Decides, ApproveTalk, HandoffTalk, HandleNeedsWork, storageVars
<1>3. (\A t \in Runs : run[t].fn \notin Requests) /\ ShownOK
  BY <1>2, Asking
<1>4. SlotOK(run'[r]) /\ ~Engaged(run'[r])
  <2>1. ~Engaged(run[r])
    BY <1>2, <1>3, NobodyEngaged DEF Processing, Requests
  <2> QED
    BY <1>2, <2>1 DEF Guarded
<1>5. EngagedOK(run[r])'
  BY <1>4 DEF EngagedOK
<1>6. talk \in TalkRow
  BY DEF Guarded, IInv, RowsOK
<1>7. TalkOK' /\ ShownOK' /\ talk'.status \notin Processing
  <2>1. CASE ApproveTalk
    <3>1. talk' = [talk EXCEPT !.status = "pending_intro_outro"] /\ UNCHANGED clip
          /\ talk.status = "pending_approval"
      BY <2>1 DEF ApproveTalk, Advance, storageVars
    <3> QED
      BY <1>2, <3>1, StatusOnly DEF TalkStatus, Early, Measured, Processing
  <2>2. CASE HandoffTalk
    <3>1. PICK i, o \in Bumpers : ConfiguresSlates(i, o, "pending_bounds")
      BY <2>2 DEF HandoffTalk
    <3>2. talk' = [talk EXCEPT !.intro = i, !.outro = o, !.status = "pending_bounds"]
          /\ talk.status = "pending_intro_outro"
      BY <2>2, <3>1 DEF HandoffTalk, ConfiguresSlates
    <3>3. /\ talk'.status = "pending_bounds" /\ talk'.detected = talk.detected
          /\ talk'["intro"] = i /\ talk'["outro"] = o
      BY <1>6, <3>2 DEF TalkRow
    <3>4. clip = NoClips
      BY <3>2 DEF Guarded, TalkOK, Early
    <3>5. clip'["intro"] \in {"none", i} /\ clip'["outro"] \in {"none", o}
      BY <3>1, <3>4 DEF ConfiguresSlates, NoClips, ClipKeys
    <3>6. TalkOK'
      BY <1>2, <3>2, <3>3, <3>5
         DEF Guarded, TalkOK, CutWithinFile, ApprovedIsShown, Early, Measured, ClipKeys
    <3> QED
      BY <3>3, <3>6 DEF ShownOK, Processing
  <2>3. CASE HandleNeedsWork
    <3>1. talk' = [talk EXCEPT !.status = "pending_bounds"] /\ UNCHANGED clip
          /\ talk.status = "preview"
      BY <2>3 DEF HandleNeedsWork, Advance, storageVars
    <3> QED
      BY <1>2, <3>1, StatusOnly DEF TalkStatus, Early, Measured, Processing
  <2> QED
    BY <2>1, <2>2, <2>3 DEF Decides
<1>8. run'[r] = run[r] /\ \A t \in Runs \ {r} : run'[t] = run[t]
  BY <1>2
<1> QED
  BY <1>2, <1>4, <1>5, <1>7, <1>8, DecisionStep

-------------------------------------------------------------------------------
(* Aborts                                                                  *)

\* A cancelled job is gone, or told to stop: it takes no part any more.
LEMMA CancelledIs ==
  ASSUME Guarded, NEW r \in Runs, run[r].fn \notin Requests, "abort" \in Entries,
         NEW s, s = Cancelled(r)
  PROVE  /\ SlotOK(s) /\ ~Engaged(s) /\ ~Reverting(s)
         /\ s.fn \notin Requests /\ (s.fn \in JobKinds => s.stop)
<1>1. run[r] \in Run /\ SlotOK(run[r])
  BY SlotType DEF Guarded
<1>2. CASE ~IsJob(r)
  <2>1. run[r].phase = "free"
    BY <1>1, <1>2 DEF IsJob, SlotOK, Run, Phases, Requests
  <2>2. s = Idle
    BY <1>1, <1>2, <2>1 DEF SlotOK, Cancelled
  <2> QED
    BY <2>2, IdleIs DEF Idle, JobKinds
<1>3. CASE IsJob(r) /\ run[r].phase = "queued"
  <2>1. s = Idle
    BY <1>3 DEF Cancelled
  <2> QED
    BY <2>1, IdleIs DEF Idle, JobKinds
<1>4. CASE IsJob(r) /\ run[r].phase # "queued"
  <2>1. /\ s.fn = run[r].fn /\ s.phase = run[r].phase /\ s.key = run[r].key
        /\ s.bounds = run[r].bounds /\ s.row = run[r].row /\ s.stop = TRUE
    BY <1>1, <1>4 DEF Cancelled, Run
  <2>2. run[r].fn \in JobKinds /\ run[r].phase \in Executing
    BY <1>1, <1>4 DEF IsJob, SlotOK, Run, Phases, Idle, JobKinds
  <2>3. ~Engaged(s) /\ ~Reverting(s)
    BY <2>1 DEF Engaged, Reverting
  <2>4. SlotOK(s)
    BY <1>1, <2>1, <2>2, <2>3 DEF SlotOK, Executing
  <2> QED
    BY <2>1, <2>2, <2>3, <2>4
<1> QED
  BY <1>2, <1>3, <1>4

\* _cancel_talk_jobs and the removal of the files: nobody is left at work.
LEMMA AbortCancelsKeeps ==
  ASSUME Guarded, IInv', NEW r \in Runs, AbortCancels(r) PROVE Guarded'
<1>1. /\ run[r].fn = "abort_talk" /\ run[r].phase = "reading" /\ ~run[r].stop
      /\ SlotOK(run[r]) /\ UNCHANGED <<talk, approved, reviewed>>
      /\ WipeStorage
  BY AliveGoesOn DEF AbortCancels, At, Guarded, dbVars
<1>2. /\ run[r] \in Run /\ "abort" \in Entries
  BY <1>1, SlotType DEF Guarded, SlotOK
<1>3. \A t \in Runs \ {r} : run[t].fn \notin Requests
  BY <1>1 DEF Guarded, OneRequest, Requests
<1>4. /\ run'[r].fn = "abort_talk" /\ run'[r].phase = "staged" /\ ~run'[r].stop
      /\ run'[r].row = run[r].row /\ run'[r].seen = run[r].seen
  BY <1>1, <1>2 DEF AbortCancels, CancelJobs, Run
<1>5. SlotOK(run'[r]) /\ ~Engaged(run'[r]) /\ ~Reverting(run'[r])
  BY <1>1, <1>4 DEF SlotOK, Engaged, Reverting, Executing, JobKinds
<1>6. ASSUME NEW t \in Runs \ {r}
      PROVE  /\ SlotOK(run'[t]) /\ ~Engaged(run'[t]) /\ ~Reverting(run'[t])
             /\ run'[t].fn \notin Requests /\ (run'[t].fn \in JobKinds => run'[t].stop)
  <2> DEFINE s == Cancelled(t)
  <2>1. run'[t] = s /\ s = Cancelled(t)
    BY DEF AbortCancels, CancelJobs
  <2> HIDE DEF s
  <2>2. /\ SlotOK(s) /\ ~Engaged(s) /\ ~Reverting(s)
        /\ s.fn \notin Requests /\ (s.fn \in JobKinds => s.stop)
    BY <1>2, <1>3, <2>1, CancelledIs
  <2> QED
    BY <2>1, <2>2
<1>7. /\ raw' = [k \in RawKeys |-> None] /\ media' = [k \in MediaKeys |-> None]
      /\ clip' = NoClips
  BY <1>1 DEF WipeStorage
<1>8. Undisturbed' /\ \A t \in Runs : SlotOK(run'[t])
  BY <1>5, <1>6 DEF Guarded, Undisturbed
<1>9. OneRequest' /\ OneEngaged'
  BY <1>5, <1>6 DEF OneRequest, OneEngaged
<1>10. Wiped'
  BY <1>4 DEF Wiped
<1>11. TalkOK'
  BY <1>1, <1>7, KeysAssumption
     DEF Guarded, TalkOK, CutWithinFile, ApprovedIsShown, MediaKeys, NoClips
<1>12. \A t \in Runs : EngagedOK(run[t])'
  BY <1>5, <1>6 DEF EngagedOK
<1>13. AbortsOK'
  <2>1. \A t \in Runs : run'[t].fn = "abort_talk" => t = r
    BY <1>6 DEF Requests
  <2>2. \A t \in Runs : run'[t].fn = "abort_talk" /\ run'[t].seen.status = "waiting_for_files" =>
          talk'.status \in Fresh
    BY <1>1, <1>4, <2>1 DEF Guarded, AbortsOK
  <2>3. \A t \in Runs : run'[t].fn \in JobKinds => run'[t].stop
    BY <1>4, <1>6 DEF JobKinds
  <2> QED
    BY <1>7, <2>2, <2>3 DEF AbortsOK
<1>14. CarriedOn' /\ RevertsOK'
  BY <1>5, <1>6, <1>10 DEF CarriedOn, RevertsOK
<1> QED
  BY <1>8, <1>9, <1>10, <1>11, <1>12, <1>13, <1>14 DEF Guarded

\* The commit of an abort: the talk waits again, or is as fresh as jobs alone
\* have made it since the abort read it.
LEMMA AbortCommitsKeeps ==
  ASSUME Guarded, IInv', NEW r \in Runs, AbortCommits(r) PROVE Guarded'
<1>1. /\ run[r].fn = "abort_talk" /\ run[r].phase = "staged"
      /\ talk' = Flush(run[r].seen, NewTalk)
      /\ UNCHANGED <<raw, media, clip, approved, reviewed>>
      /\ run' = [s \in Runs |->
           IF s = r THEN Idle
           ELSE [run[s] EXCEPT !.row = IF @ = "none" THEN @ ELSE "deleted"]]
  BY DEF AbortCommits, At, storageVars
<1>2. Wiped
  BY <1>1 DEF Wiped
<1>3. /\ raw = [k \in RawKeys |-> None] /\ media = [k \in MediaKeys |-> None]
      /\ clip = NoClips /\ \A t \in Runs : run[t].fn \in JobKinds => run[t].stop
  BY <1>2 DEF Guarded, AbortsOK
<1>4. talk'.status \in Fresh
  <2>1. talk'.status = IF run[r].seen.status = "waiting_for_files" THEN talk.status
                       ELSE "waiting_for_files"
    BY <1>1 DEF Flush, NewTalk
  <2>2. CASE run[r].seen.status = "waiting_for_files"
    BY <1>1, <2>1, <2>2 DEF Guarded, AbortsOK
  <2>3. CASE run[r].seen.status # "waiting_for_files"
    BY <2>1, <2>3 DEF Fresh
  <2> QED
    BY <2>2, <2>3
<1>5. \A t \in Runs \ {r} : run[t].fn \notin Requests
  BY <1>1 DEF Guarded, OneRequest, Requests
<1>6. ASSUME NEW t \in Runs
      PROVE  SlotOK(run'[t]) /\ ~Engaged(run'[t]) /\ ~Reverting(run'[t])
             /\ run'[t].fn \notin Requests
  <2>1. CASE t = r
    BY <1>1, <2>1, IdleIs
  <2>2. CASE t # r
    <3>1. run[t] \in Run /\ SlotOK(run[t])
      BY SlotType DEF Guarded
    <3>2. /\ run'[t].fn = run[t].fn /\ run'[t].phase = run[t].phase /\ run'[t].key = run[t].key
          /\ run'[t].bounds = run[t].bounds /\ run'[t].stop = run[t].stop
          /\ run[t] = Idle => run'[t] = Idle
      BY <1>1, <2>2, <3>1 DEF Run, Idle
    <3>3. ~Engaged(run[t]) /\ ~Reverting(run[t])
      <4>1. CASE run[t].fn \in JobKinds
        BY <1>3, <4>1 DEF Engaged, Reverting
      <4>2. CASE run[t].fn \notin JobKinds
        <5>1. run[t].phase = "free"
          BY <1>5, <2>2, <3>1, <4>2 DEF SlotOK, Run, Phases, Requests, Executing
        <5> QED
          BY <5>1 DEF Engaged, Reverting
      <4> QED
        BY <4>1, <4>2
    <3>4. ~Engaged(run'[t]) /\ ~Reverting(run'[t])
      BY <3>2, <3>3 DEF Engaged, Reverting
    <3>5. SlotOK(run'[t])
      BY <3>1, <3>2, <3>4 DEF SlotOK
    <3> QED
      BY <1>5, <2>2, <3>2, <3>4, <3>5
  <2> QED
    BY <2>1, <2>2
<1>7. Undisturbed'
  BY DEF Guarded, Undisturbed
<1>8. OneRequest' /\ OneEngaged'
  BY <1>6 DEF OneRequest, OneEngaged
<1>9. ~Wiped'
  BY <1>6 DEF Wiped, Requests
<1>10. TalkOK'
  BY <1>1, <1>3, KeysAssumption
     DEF Guarded, TalkOK, CutWithinFile, ApprovedIsShown, MediaKeys, NoClips
<1>11. ShownOK'
  BY <1>4 DEF ShownOK, Fresh
<1>12. \A t \in Runs : EngagedOK(run[t])'
  BY <1>6 DEF EngagedOK
<1>13. AbortsOK'
  BY <1>6, <1>9 DEF AbortsOK, Requests
<1>14. CarriedOn' /\ RevertsOK'
  BY <1>4, <1>6, Roles DEF CarriedOn, RevertsOK
<1> QED
  BY <1>6, <1>7, <1>8, <1>10, <1>11, <1>12, <1>13, <1>14 DEF Guarded

\* The later steps of an abort, the only unlocked handler here; it does not
\* fail half-way.
LEMMA UnlockedKeeps == ASSUME Guarded, IInv', NEW r \in Runs, Unlocked(r) PROVE Guarded'
<1>1. run[r].fn \notin {"ingest_recording", "attach_room"}
  BY SlotType DEF Guarded, Undisturbed, WellFormed
<1>2. ~AbortFails(r)
  BY DEF AbortFails, CancelFails, At, Guarded, SlotOK, Undisturbed
<1> QED
  BY <1>1, <1>2, AbortCancelsKeeps, AbortCommitsKeeps
     DEF Unlocked, IngestRecordingStages, IngestRecordingCommits, AttachStages, AttachFails,
         AttachCommits, At

-------------------------------------------------------------------------------
(* The invariant holds *)

\* It holds in the initial state.
LEMMA InitGuarded == ASSUME Undisturbed, Init PROVE Guarded
<1>1. IInv
  BY InitOK
<1>2. /\ talk.status = "waiting_for_files"
      /\ \A r \in Runs : run[r] = Idle
      /\ raw = [k \in RawKeys |-> None] /\ media = [k \in MediaKeys |-> None]
      /\ clip = NoClips /\ approved = None
  BY DEF Init, NewTalk
<1>3. \A r \in Runs : /\ SlotOK(run[r]) /\ ~Engaged(run[r]) /\ ~Reverting(run[r])
                      /\ run[r].fn \notin Requests
  BY <1>2, IdleIs
<1>4. ~Wiped
  BY <1>3 DEF Wiped, Requests
<1>5. OneRequest /\ OneEngaged
  BY <1>3 DEF OneRequest, OneEngaged
<1>6. TalkOK
  BY <1>2, KeysAssumption DEF TalkOK, CutWithinFile, ApprovedIsShown, MediaKeys, NoClips
<1>7. ShownOK
  BY <1>2 DEF ShownOK
<1>8. \A r \in Runs : EngagedOK(run[r])
  BY <1>3 DEF EngagedOK
<1>9. AbortsOK
  BY <1>3, <1>4 DEF AbortsOK, Requests
<1>10. CarriedOn /\ RevertsOK
  BY <1>2, <1>3 DEF CarriedOn, RevertsOK, Processing
<1> QED
  BY <1>1, <1>3, <1>5, <1>6, <1>7, <1>8, <1>9, <1>10 DEF Guarded

\* A stuttering step.
LEMMA StutterKeeps == ASSUME Guarded, IInv', UNCHANGED vars PROVE Guarded'
<1>1. UNCHANGED <<talk, slateRows, approved, reviewed, raw, media, clip, run, queue>>
  BY DEF vars
<1>2. TalkOK' /\ (ShownOK => ShownOK')
      /\ Asked' = Asked /\ Settled' = Settled /\ SlatesStored' = SlatesStored
  BY <1>1, SameTalk
<1>3. Undisturbed' /\ Wiped' = Wiped
  BY <1>1 DEF Guarded, Undisturbed, Wiped
<1>4. (\A r \in Runs : SlotOK(run'[r])) /\ OneRequest' /\ OneEngaged'
  BY <1>1 DEF Guarded, OneRequest, OneEngaged
<1>5. ASSUME NEW r \in Runs PROVE EngagedOK(run[r])'
  <2>1. EngagedOK(run[r]) /\ run'[r] = run[r]
    BY <1>1 DEF Guarded
  <2>2. CutOK(run[r]) => CutOK(run[r])'
    BY <1>1, <1>2 DEF CutOK
  <2>3. AssemblyOK(run[r]) => AssemblyOK(run[r])'
    BY <1>1, <1>2 DEF AssemblyOK
  <2>4. FinalOK(run[r]) => FinalOK(run[r])'
    BY <1>1, <1>2 DEF FinalOK, Complete
  <2> QED
    BY <1>1, <2>1, <2>2, <2>3, <2>4 DEF EngagedOK
<1>6. AbortsOK' /\ CarriedOn' /\ RevertsOK'
  BY <1>1, <1>3 DEF Guarded, AbortsOK, CarriedOn, RevertsOK, OneReverts
<1> QED
  BY <1>2, <1>3, <1>4, <1>5, <1>6 DEF Guarded

\* Every step of the system keeps it.
LEMMA StepGuarded == Guarded /\ [Next]_vars => Guarded'
<1> SUFFICES ASSUME Guarded, [Next]_vars PROVE Guarded'
  OBVIOUS
<1>1. IInv'
  BY StepOK DEF Guarded
<1>2. ASSUME NEW r \in Runs,
             Job(r) \/ Sends(r) \/ Unlocked(r) \/ Killed(r) \/ Crashes(r) \/ Asks(r)
      PROVE  Guarded'
  BY <1>1, <1>2, JobKeeps, SendsKeeps, UnlockedKeeps, KilledKeeps, CrashesKeeps, AsksKeeps
<1>3. CASE Decides
  BY <1>1, <1>3, DecidesKeeps
<1>4. CASE UNCHANGED vars
  BY <1>1, <1>4, StutterKeeps
<1> QED
  BY <1>2, <1>3, <1>4 DEF Next

\* The inductive invariant holds where nothing disturbs the talk.
THEOREM Guards == ASSUME Undisturbed PROVE Spec => []Guarded
<1>1. Init => Guarded
  BY InitGuarded
<1> QED
  BY <1>1, StepGuarded, PTL DEF Spec

-------------------------------------------------------------------------------
(* What it means for the talk *)

\* An interrupted talk aside, no abort has taken the talk apart.
LEMMA NotWiped == ~Interrupted => ~Wiped
  BY DEF Wiped, Interrupted

\* The cut that a settled talk asks for is a content that a file can have.
LEMMA AskedIsContent == ASSUME Guarded, Settled PROVE Asked # None
  BY NoneAssumption
     DEF Settled, Asked, Footage, Content, Guarded, IInv, RowsOK, TalkRow, ClipKind

\* job_publish, job_concat and handle_approve: the published video is the cut
\* whose preview was approved, whatever an abort or a return to pending_bounds
\* has left in the queues or in storage.
THEOREM PublishedWasReviewed == ASSUME Undisturbed PROVE Spec => []PublishedIsReviewed
<1>1. Guarded => PublishedIsReviewed
  <2> SUFFICES ASSUME Guarded, talk.status = "done", ~Interrupted PROVE PublishedIsReviewed
    BY DEF PublishedIsReviewed
  <2>1. ShownOK
    BY NotWiped DEF Guarded
  <2>2. Asked # None
    BY <2>1, AskedIsContent DEF ShownOK
  <2> QED
    BY <2>1, <2>2 DEF ShownOK, Complete, PublishedIsReviewed
<1> QED
  BY <1>1, Guards, PTL

\* job_transcode and dispatch_assembly: the published video has the slates that
\* configure_assembly asked for.
THEOREM PublishedWithSlates == ASSUME Undisturbed PROVE Spec => []PublishedHasSlates
<1>1. Guarded => PublishedHasSlates
  BY NotWiped DEF Guarded, ShownOK, Complete, PublishedHasSlates
<1> QED
  BY <1>1, Guards, PTL

\* submit_cut_bounds and job_cut: the bounds of a cut lie within the recording
\* it was cut from.
THEOREM CutsFitTheFile == ASSUME Undisturbed PROVE Spec => []CutWithinFile
<1>1. Guarded => CutWithinFile
  BY DEF Guarded, TalkOK
<1> QED
  BY <1>1, Guards, PTL

\* job_preview: what the reviewer is shown is the cut the row asks for.
THEOREM PreviewsAreCurrent == ASSUME Undisturbed PROVE Spec => []PreviewIsCurrent
<1>1. Guarded => PreviewIsCurrent
  <2> SUFFICES ASSUME Guarded, talk.status = "preview", ~Interrupted PROVE PreviewIsCurrent
    BY DEF PreviewIsCurrent
  <2>1. ShownOK
    BY NotWiped DEF Guarded
  <2>2. Asked # None
    BY <2>1, AskedIsContent DEF ShownOK
  <2> QED
    BY <2>1, <2>2 DEF ShownOK, Asked, PreviewIsCurrent
<1> QED
  BY <1>1, Guards, PTL

\* handle_approve: the bounds of the ApprovedCut row are those that were shown.
THEOREM ApprovedWasShown == ASSUME Undisturbed PROVE Spec => []ApprovedIsShown
<1>1. Guarded => ApprovedIsShown
  BY DEF Guarded, TalkOK
<1> QED
  BY <1>1, Guards, PTL

-------------------------------------------------------------------------------
(* Who carries the talk on *)

\* A slot that carries the talk takes part in the work on it, or has given its
\* claim back.
LEMMA CarrierIs ==
  ASSUME Guarded, NEW r \in Runs, Carries(r), talk.status \in Processing
  PROVE  Engaged(run[r]) \/ Reverting(run[r])
<1>1. run[r] \in Run /\ SlotOK(run[r])
  BY SlotType DEF Guarded
<1>2. /\ ~run[r].stop
      /\ run[r].phase \in {"queued", "started", "stored", "committed", "sending", "failing",
                           "rolledback"}
      /\ run[r].phase = "queued" => run[r].fn # "ingest"
  BY DEF Carries
<1>3. run[r].fn # "abort_talk"
  BY <1>1, <1>2 DEF SlotOK
<1> QED
  BY <1>1, <1>2, <1>3 DEF Engaged, Reverting

\* And the slot that is engaged carries a talk in the status it awaits.
LEMMA EngagedCarries ==
  ASSUME Guarded, NEW r \in Runs, Engaged(run[r]), talk.status \in Processing \ {"detecting"}
  PROVE  Carries(r)
<1>1. run[r] \in Run /\ SlotOK(run[r])
  BY SlotType DEF Guarded
<1>2. talk.status \in Awaited(run[r])
  BY DEF Guarded, EngagedOK, Processing
<1>3. CASE run[r].phase \in {"committed", "sending"}
  BY <1>2, <1>3 DEF Awaited, Engaged, Carries, Processing
<1>4. CASE run[r].phase = "failing"
  BY <1>1, <1>4 DEF Carries, Engaged, SlotOK
<1>5. CASE run[r].phase \in {"started", "stored"}
  BY <1>1, <1>2, <1>5 DEF Awaited, Carries, Engaged, SlotOK
<1>6. CASE run[r].phase = "queued"
  BY <1>1, <1>2, <1>6 DEF Awaited, Carries, Engaged
<1>7. CASE run[r].phase \in {"free", "reading", "staged", "rolledback"}
  BY <1>1, <1>7 DEF SlotOK, Engaged
<1>8. run[r].phase \in Phases
  BY <1>1 DEF Run
<1> QED
  BY <1>3, <1>4, <1>5, <1>6, <1>7, <1>8 DEF Phases, Executing

\* Where no job and no message is lost, tasks.py never leaves a talk in a
\* status that nothing will end: each session commits and enqueues in turn,
\* each failure breaks the talk, and an abort resets it.
THEOREM NobodyIsStranded ==
  ASSUME Undisturbed, Faults \cap {"enqueue", "crash"} = {} PROVE Spec => []NeverStranded
<1>1. Guarded => NeverStranded
  <2> SUFFICES ASSUME Guarded, talk.status \in Processing \ {"detecting"}, ~Interrupted
               PROVE  Carriers # {}
    BY DEF NeverStranded
  <2>1. PICK r \in Runs : Engaged(run[r])
    BY NotWiped DEF Guarded, CarriedOn
  <2> QED
    BY <2>1, EngagedCarries DEF Carriers
<1> QED
  BY <1>1, Guards, PTL

\* The claim in job_ingest and the status checks of the second sessions: no two
\* jobs compete to move the talk.
THEOREM CarriersAreAlone ==
  ASSUME Undisturbed, OneReverts PROVE Spec => []OneCarrier
<1>1. Guarded => OneCarrier
  <2> SUFFICES ASSUME Guarded, talk.status \in Processing PROVE Cardinality(Carriers) <= 1
    BY DEF OneCarrier
  <2>1. ASSUME NEW r \in Carriers PROVE r \in Runs /\ Engaged(run[r])
    <3>1. r \in Runs /\ ~Reverting(run[r])
      BY DEF Guarded, RevertsOK, Carriers, Processing
    <3> QED
      BY <3>1, CarrierIs DEF Carriers
  <2>2. \A r, s \in Carriers : r = s
    BY <2>1 DEF Guarded, OneEngaged
  <2>3. CASE Carriers = {}
    BY <2>3, FS_EmptySet
  <2>4. CASE Carriers # {}
    <3>1. PICK r \in Carriers : TRUE
      BY <2>4
    <3>2. Carriers = {r}
      BY <2>2
    <3>3. Cardinality({r}) = 1
      BY FS_Singleton
    <3> QED
      BY <3>2, <3>3
  <2> QED
    BY <2>3, <2>4
<1> QED
  BY <1>1, Guards, PTL
===============================================================================
