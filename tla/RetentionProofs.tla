---------------------------- MODULE RetentionProofs ----------------------------
(***************************************************************************)
(* The safety of the retention sweep for every number of talks, days and   *)
(* failures.  A sweep acts on rows it read long ago; what is true of those *)
(* rows since it read them (SweepsOK) is what makes its steps harmless.    *)
(***************************************************************************)
EXTENDS RetentionProperties, WellFoundedInduction, TLAPS

\* What a sweep has read: the renderings of some talks.
Seen == UNION {[S -> 0..MaxRenderings] : S \in SUBSET Talks}

\* What a sweep may hold.
SweepRow ==
  [ phase : {"idle", "sweeping", "flushing"}, todo : SUBSET Talks, seen : Seen,
    marked : SUBSET Talks ]

\* An abort or a deletion under way.
Change == [op : {"abort", "delete"}, id : Talks]

\* The types, with what a sweep and a change may hold.
TypesOK ==
  /\ talk \in [Talks -> TalkRow \cup {None}]
  /\ rendered \in [Talks -> 0..MaxRenderings]
  /\ final \in [Talks -> Nat]
  /\ publishing \subseteq Talks
  /\ overrides \in Overrides
  /\ change \in Change \cup {NoChange}
  /\ sweep \in [Sweepers -> SweepRow]
  /\ job \in [state : {"scheduled", "started", "failed"}, retries : 0..Retries]
  /\ excused \subseteq Talks /\ aborted \subseteq Talks

\* The object under final/ is the last rendering, and what job_publish has
\* fetched is there or was removed with an excuse.
FilesOK ==
  /\ \A k \in Talks : final[k] \in {0, rendered[k]}
  /\ \A k \in publishing :
       Is(k, "uploading") /\ change.id # k /\ (final[k] # 0 \/ k \in excused)
  /\ change # NoChange => talk[change.id] # None

\* A talk past its window is remembered, and its video was not lost before.
WindowOK ==
  /\ \A k \in Talks : Past(k) => k \in lapsed
  /\ VideoKept

\* The rows a sweep read: published then, and still so unless aborted since;
\* past their window, as long as the video is the one that was there.
ReadsOK(p) ==
  /\ sweep[p].todo \cup sweep[p].marked \subseteq DOMAIN sweep[p].seen
  /\ \A k \in DOMAIN sweep[p].seen :
       /\ Is(k, "done") \/ talk[k] = None \/ k \in aborted
       /\ sweep[p].seen[k] <= rendered[k]
       /\ sweep[p].seen[k] = rendered[k] /\ rendered[k] # 0 =>
            ~Is(k, "uploading") /\ k \in lapsed

\* What a sweep has removed stays removed, unless the talk is made anew.
RemovesOK(p) ==
  /\ \A k \in sweep[p].marked : talk[k] # None /\ (final[k] = 0 \/ k \in aborted)
  /\ sweep[p].phase = "flushing" =>
       /\ sweep[p].todo # {}
       /\ final[Turn(p)] = 0 \/ Turn(p) \in aborted

\* Every sweep has read and removed what its phase says.
SweepsOK == \A p \in Sweepers : ReadsOK(p) /\ RemovesOK(p)

\* A mark is on a published talk without a video, or on one aborted since.
MarksOK ==
  \A k \in Talks :
    talk[k] # None /\ talk[k].cleaned =>
      k \in aborted \/ (talk[k].status = "done" /\ final[k] = 0)

\* The inductive invariant.
IInv == TypesOK /\ FilesOK /\ WindowOK /\ SweepsOK /\ MarksOK

-------------------------------------------------------------------------------
(* The types *)

\* The talk a sweep comes to next is one of those left: keys are numbers.
LEMMA TurnIsLeft ==
  ASSUME NEW p, sweep[p].todo \subseteq Talks, sweep[p].todo # {}
  PROVE  Turn(p) \in sweep[p].todo
<1> DEFINE T == sweep[p].todo
<1>1. T \subseteq Nat
  BY TalksAssumption
<1>2. PICK k \in T : \A j \in T : ~ (<<j, k>> \in OpToRel(<, Nat))
  BY <1>1, NatLessThanWellFounded, WFMin
<1>3. ASSUME NEW j \in T PROVE k <= j
  <2>1. j \in Nat /\ k \in Nat
    BY <1>1
  <2>2. j < k => <<j, k>> \in {ss \in Nat \X Nat : ss[1] < ss[2]}
    BY <2>1
  <2>3. ~(j < k)
    BY <1>2, <2>2 DEF OpToRel
  <2> QED
    BY <2>1, <2>3
<1> QED
  BY <1>3 DEF Turn

\* A sweep that is not under way has a type.
LEMMA NoSweepRow == NoSweep \in SweepRow
<1>1. <<>> \in [{} -> 0..MaxRenderings]
  OBVIOUS
<1>2. <<>> \in Seen
  BY <1>1 DEF Seen
<1> QED
  BY <1>2 DEF NoSweep, SweepRow

\* A row that exists is one that can.
LEMMA RowOf ==
  ASSUME TypesOK, NEW k \in Talks, talk[k] # None
  PROVE  talk[k] \in TalkRow
  BY DEF TypesOK

\* The columns that are ever written.
LEMMA WrittenRow ==
  ASSUME NEW row \in TalkRow, NEW s \in Status
  PROVE  /\ [row EXCEPT !.status = s, !.age = 0] \in TalkRow
         /\ [row EXCEPT !.status = s] \in TalkRow
         /\ [row EXCEPT !.cleaned = TRUE] \in TalkRow
<1>1. 0 \in 0..MaxAge
  BY BoundsAssumption
<1>2. [row EXCEPT !.status = s] \in TalkRow
  BY DEF TalkRow
<1>3. [[row EXCEPT !.status = s] EXCEPT !.age = 0] \in TalkRow
  BY <1>1, <1>2 DEF TalkRow
<1>4. [row EXCEPT !.cleaned = TRUE] \in TalkRow
  BY DEF TalkRow
<1> QED
  BY <1>2, <1>3, <1>4

\* What a sweep has read and done after it has come past a talk.
LEMMA PassesTypes ==
  ASSUME TypesOK, NEW p \in Sweepers, NEW marks \in SUBSET Talks, Passes(p, marks)
  PROVE  LET q == [sweep[p] EXCEPT !.phase = "sweeping", !.todo = @ \ {Turn(p)},
                                   !.marked = @ \cup marks]
         IN  sweep' = [sweep EXCEPT ![p] = q] /\ q \in SweepRow
<1> DEFINE q == [sweep[p] EXCEPT !.phase = "sweeping", !.todo = @ \ {Turn(p)},
                                 !.marked = @ \cup marks]
<1>1. sweep[p] \in SweepRow
  BY DEF TypesOK
<1>2. q \in SweepRow
  BY <1>1 DEF SweepRow
<1>3. sweep' = [sweep EXCEPT ![p] = q]
  BY DEF TypesOK, Passes
<1> QED
  BY <1>2, <1>3

-------------------------------------------------------------------------------
(* What every step does to the rows and the videos *)

\* A published talk leaves that status by an abort only; a video is made only
\* of a talk that is no longer published, that no sweep has marked, and with a
\* new number; and no row that a sweep has marked is deleted.
RowsMove ==
  \A k \in Talks :
    /\ Is(k, "done") => talk'[k] = None \/ talk'[k].status = "done" \/ k \in aborted'
    /\ talk[k] = None => talk'[k] = None
    /\ talk'[k] = None => talk[k] = None \/ ~Locked(k)
    /\ Is(k, "uploading")' => Is(k, "uploading") \/ rendered[k] < rendered'[k]
    /\ rendered[k] <= rendered'[k]
    /\ final[k] = 0 /\ final'[k] # 0 => Is(k, "working") /\ ~Locked(k)
    /\ k \in aborted => k \in aborted'

\* Rows, videos and aborts stay as they are.
LEMMA NothingMoves ==
  ASSUME TypesOK, UNCHANGED <<talk, rendered, aborted>>,
         \A k \in Talks : final'[k] \in {0, final[k]}
  PROVE  RowsMove
<1>1. \A k \in Talks : rendered[k] \in Nat
  BY BoundsAssumption DEF TypesOK
<1> QED
  BY <1>1 DEF RowsMove, Is

\* A final video is rendered.
LEMMA RendersMoves ==
  ASSUME IInv, NEW k \in Talks, Renders(k)
  PROVE  TypesOK' /\ RowsMove
<1> DEFINE row == [talk[k] EXCEPT !.status = "uploading", !.age = 0]
<1>1. talk[k] \in TalkRow /\ talk[k] # None /\ TypesOK
  BY RowOf DEF IInv, Renders, Is
<1>2. row \in TalkRow /\ row.status = "uploading"
  BY <1>1, WrittenRow DEF Status, TalkRow
<1>3. talk' = [talk EXCEPT ![k] = row]
  BY <1>1 DEF Renders, TypesOK
<1> HIDE DEF row
<1>4. rendered[k] \in Nat /\ rendered[k] + 1 \in 0..MaxRenderings
  BY <1>1, BoundsAssumption DEF TypesOK, Renders
<1>5. TypesOK'
  <2>1. rendered' \in [Talks -> 0..MaxRenderings] /\ final' \in [Talks -> Nat]
    BY <1>1, <1>4 DEF TypesOK, Renders
  <2>2. talk' \in [Talks -> TalkRow \cup {None}]
    BY <1>1, <1>2, <1>3 DEF TypesOK
  <2> QED
    BY <1>1, <2>1, <2>2 DEF TypesOK, Renders
<1>6. \A j \in Talks : rendered[j] \in Nat
  BY <1>1, BoundsAssumption DEF TypesOK
<1>7. RowsMove
  BY <1>1, <1>2, <1>3, <1>4, <1>6, NoneAssumption DEF RowsMove, Renders, Is, TypesOK
<1> QED
  BY <1>5, <1>7

\* job_publish reads the talk.
LEMMA PublishReadsMoves ==
  ASSUME IInv, NEW k \in Talks, PublishReads(k)
  PROVE  TypesOK' /\ RowsMove
<1>1. talk[k] \in TalkRow /\ talk[k] # None /\ TypesOK
  BY RowOf DEF IInv, PublishReads, Is
<1>2. CASE final[k] # 0
  <2>1. UNCHANGED talk /\ publishing' = publishing \cup {k}
    BY <1>2 DEF PublishReads
  <2> QED
    BY <1>1, <2>1, NothingMoves DEF TypesOK, PublishReads
<1>3. CASE final[k] = 0
  <2> DEFINE row == [talk[k] EXCEPT !.status = "broken", !.age = 0]
  <2>1. row \in TalkRow /\ row.status = "broken"
    BY <1>1, WrittenRow DEF Status, TalkRow
  <2>2. talk' = [talk EXCEPT ![k] = row] /\ UNCHANGED publishing
    BY <1>1, <1>3 DEF PublishReads, TypesOK
  <2> HIDE DEF row
  <2>3. \A j \in Talks : rendered[j] \in Nat
    BY <1>1, BoundsAssumption DEF TypesOK
  <2>4. RowsMove
    BY <1>1, <2>1, <2>2, <2>3, NoneAssumption DEF RowsMove, PublishReads, Is, TypesOK
  <2> QED
    BY <1>1, <2>1, <2>2, <2>4 DEF TypesOK, PublishReads
<1> QED
  BY <1>2, <1>3

\* job_publish commits.
LEMMA PublishCommitsMoves ==
  ASSUME IInv, NEW k \in Talks, PublishCommits(k)
  PROVE  TypesOK' /\ RowsMove
<1> DEFINE row == [talk[k] EXCEPT !.status = "done", !.age = 0]
<1>1. talk[k] \in TalkRow /\ talk[k] # None /\ TypesOK
  BY RowOf DEF IInv, PublishCommits, Is
<1>2. row \in TalkRow /\ row.status = "done"
  BY <1>1, WrittenRow DEF Status, TalkRow
<1>3. talk' = [talk EXCEPT ![k] = row]
  BY <1>1 DEF PublishCommits, TypesOK
<1> HIDE DEF row
<1>4. \A j \in Talks : rendered[j] \in Nat
  BY <1>1, BoundsAssumption DEF TypesOK
<1>5. RowsMove
  BY <1>1, <1>2, <1>3, <1>4, NoneAssumption DEF RowsMove, PublishCommits, Is, TypesOK
<1> QED
  BY <1>1, <1>2, <1>3, <1>5 DEF TypesOK, PublishCommits

\* A day that passes and a sweep that commits write no status and delete no row.
LEMMA StatusesStay ==
  ASSUME IInv, DayPasses \/ (\E p \in Sweepers : SweepCommits(p)), NEW k \in Talks
  PROVE  /\ talk'[k] \in TalkRow \cup {None} /\ (talk'[k] = None <=> talk[k] = None)
         /\ talk[k] # None => talk'[k].status = talk[k].status
<1>1. TypesOK
  BY DEF IInv
<1>2. CASE talk[k] = None
  <2>1. \A p \in Sweepers : k \notin sweep[p].marked
    BY <1>2 DEF IInv, SweepsOK, RemovesOK
  <2> QED
    BY <1>2, <2>1 DEF DayPasses, SweepCommits, Is
<1>3. CASE talk[k] # None
  <2>1. talk[k] \in TalkRow
    BY <1>1, <1>3, RowOf
  <2>2. talk'[k] \in {talk[k], [talk[k] EXCEPT !.cleaned = TRUE]}
        \/ (talk'[k] = [talk[k] EXCEPT !.age = @ + 1] /\ talk[k].age < MaxAge)
    BY DEF DayPasses, SweepCommits
  <2>3. [talk[k] EXCEPT !.cleaned = TRUE] \in TalkRow
        /\ [talk[k] EXCEPT !.cleaned = TRUE].status = talk[k].status
    BY <2>1 DEF TalkRow
  <2>4. ASSUME talk[k].age < MaxAge
        PROVE  [talk[k] EXCEPT !.age = @ + 1] \in TalkRow
               /\ [talk[k] EXCEPT !.age = @ + 1].status = talk[k].status
    <3>1. talk[k].age + 1 \in 0..MaxAge
      BY <2>1, <2>4, BoundsAssumption DEF TalkRow
    <3> QED
      BY <2>1, <3>1 DEF TalkRow
  <2>5. talk'[k] \in TalkRow /\ talk'[k].status = talk[k].status
    BY <2>1, <2>2, <2>3, <2>4
  <2> QED
    BY <1>3, <2>5, NoneAssumption
<1> QED
  BY <1>2, <1>3

\* A day passes.
LEMMA DayPassesMoves ==
  ASSUME IInv, DayPasses
  PROVE  TypesOK' /\ RowsMove
<1>1. TypesOK
  BY DEF IInv
<1>2. \A k \in Talks :
        /\ talk'[k] \in TalkRow \cup {None} /\ (talk'[k] = None <=> talk[k] = None)
        /\ talk[k] # None => talk'[k].status = talk[k].status
  BY StatusesStay
<1>3. \A j \in Talks : rendered[j] \in Nat
  BY <1>1, BoundsAssumption DEF TypesOK
<1>4. talk' \in [Talks -> TalkRow \cup {None}]
  BY <1>2 DEF DayPasses
<1>5. UNCHANGED <<final, sweep, job, faults, excused, rendered, publishing, overrides, change,
                  changes, aborted>>
  BY DEF DayPasses, making
<1>6. RowsMove
  BY <1>2, <1>3, <1>5 DEF RowsMove, Is
<1>7. TypesOK'
  BY <1>1, <1>4, <1>5 DEF TypesOK
<1> QED
  BY <1>6, <1>7

\* The policy of the event is changed.
LEMMA UpdateEventMoves ==
  ASSUME IInv, NEW o \in Overrides, UpdateEvent(o)
  PROVE  TypesOK' /\ RowsMove
  BY NothingMoves DEF IInv, TypesOK, UpdateEvent

\* An abort or a deletion removes the files.
LEMMA ChangeWipesMoves ==
  ASSUME IInv, NEW op \in {"abort", "delete"}, NEW k \in Talks, ChangeWipes(op, k)
  PROVE  TypesOK' /\ RowsMove
<1>1. TypesOK' /\ UNCHANGED <<talk, rendered, aborted>>
  BY DEF IInv, TypesOK, ChangeWipes, Change
<1>2. \A j \in Talks : final'[j] \in {0, final[j]}
  BY DEF IInv, TypesOK, ChangeWipes
<1> QED
  BY <1>1, <1>2, NothingMoves DEF IInv

\* An abort or a deletion in flight is about a talk that is there.
LEMMA ChangeAbout ==
  ASSUME IInv, change.op \in {"abort", "delete"}
  PROVE  change.id \in Talks /\ talk[change.id] \in TalkRow /\ talk[change.id] # None
<1>1. change \in Change /\ change # NoChange
  BY DEF IInv, TypesOK, NoChange, Change
<1> QED
  BY <1>1, RowOf DEF IInv, FilesOK, Change

\* The abort commits.
LEMMA AbortCommitsMoves ==
  ASSUME IInv, AbortCommits
  PROVE  TypesOK' /\ RowsMove
<1> DEFINE k == change.id
           row == [talk[k] EXCEPT !.status = "working"]
<1>1. k \in Talks /\ talk[k] \in TalkRow /\ talk[k] # None /\ TypesOK
  BY ChangeAbout DEF IInv, AbortCommits
<1>2. row \in TalkRow /\ row.status = "working"
  BY <1>1, WrittenRow DEF Status, TalkRow
<1>3. talk' = [talk EXCEPT ![k] = row]
  BY <1>1 DEF AbortCommits, TypesOK
<1> HIDE DEF row
<1>4. \A j \in Talks : rendered[j] \in Nat
  BY <1>1, BoundsAssumption DEF TypesOK
<1>5. RowsMove
  BY <1>1, <1>2, <1>3, <1>4, NoneAssumption DEF RowsMove, AbortCommits, Is, TypesOK
<1> QED
  BY <1>1, <1>2, <1>3, <1>5 DEF TypesOK, AbortCommits

\* The deletion commits.
LEMMA DeleteCommitsMoves ==
  ASSUME IInv, DeleteCommits
  PROVE  TypesOK' /\ RowsMove
<1> DEFINE k == change.id
<1>1. k \in Talks /\ talk[k] # None /\ TypesOK
  BY ChangeAbout DEF IInv, DeleteCommits
<1>2. talk' = [talk EXCEPT ![k] = None]
  BY DEF DeleteCommits
<1>3. \A j \in Talks : rendered[j] \in Nat
  BY <1>1, BoundsAssumption DEF TypesOK
<1>4. RowsMove
  BY <1>1, <1>2, <1>3 DEF RowsMove, DeleteCommits, Is, TypesOK
<1> QED
  BY <1>1, <1>2, <1>4 DEF TypesOK, DeleteCommits

\* An abort or a deletion gives up.
LEMMA ChangeFailsMoves ==
  ASSUME IInv, ChangeFails
  PROVE  TypesOK' /\ RowsMove
  BY NothingMoves DEF IInv, TypesOK, ChangeFails

\* A sweep reads the talks that are due.
LEMMA SweepReadsMoves ==
  ASSUME IInv, NEW p \in Sweepers, SweepReads(p)
  PROVE  TypesOK' /\ RowsMove
<1> DEFINE seen == [k \in Due |-> final[k]]
           q == [NoSweep EXCEPT !.phase = "sweeping", !.todo = Due, !.seen = seen]
<1>1. TypesOK /\ FilesOK /\ Due \subseteq Talks
  BY DEF IInv, Due
<1>2. \A k \in Talks : final[k] \in 0..MaxRenderings
  BY <1>1, BoundsAssumption DEF TypesOK, FilesOK
<1>3. seen \in Seen
  <2>1. seen \in [Due -> 0..MaxRenderings]
    BY <1>1, <1>2
  <2> QED
    BY <1>1, <2>1 DEF Seen
<1> HIDE DEF seen
<1>4. q \in SweepRow
  BY <1>1, <1>3, NoSweepRow DEF SweepRow
<1>5. sweep' = [sweep EXCEPT ![p] = q]
  BY DEF SweepReads, seen
<1> HIDE DEF q
<1>6. job' \in [state : {"scheduled", "started", "failed"}, retries : 0..Retries]
  BY <1>1 DEF TypesOK, SweepReads, JobStarts
<1>7. TypesOK'
  BY <1>1, <1>4, <1>5, <1>6 DEF TypesOK, SweepReads, making
<1> QED
  BY <1>1, <1>7, NothingMoves DEF SweepReads, making

\* A sweep deletes the video of one of them.
LEMMA SweepDeletesMoves ==
  ASSUME IInv, NEW p \in Sweepers, SweepDeletes(p)
  PROVE  TypesOK' /\ RowsMove
<1>1. TypesOK /\ Turn(p) \in Talks
  BY TurnIsLeft DEF IInv, TypesOK, SweepRow, SweepDeletes, Visits
<1>2. final' \in [Talks -> Nat] /\ \A k \in Talks : final'[k] \in {0, final[k]}
  BY <1>1 DEF TypesOK, SweepDeletes
<1>3. sweep' \in [Sweepers -> SweepRow]
  <2>1. [sweep[p] EXCEPT !.phase = "flushing"] \in SweepRow
    BY <1>1 DEF TypesOK, SweepRow
  <2> QED
    BY <1>1, <2>1 DEF TypesOK, SweepDeletes
<1>4. TypesOK'
  BY <1>1, <1>2, <1>3 DEF TypesOK, SweepDeletes, making
<1> QED
  BY <1>1, <1>2, <1>4, NothingMoves DEF SweepDeletes, making

\* A sweep passes over a video that storage does not delete, or marks a row.
LEMMA SweepPassesMoves ==
  ASSUME IInv, NEW p \in Sweepers, SweepSkips(p) \/ SweepFlushes(p)
  PROVE  TypesOK' /\ RowsMove
<1>1. TypesOK /\ Turn(p) \in Talks
  BY TurnIsLeft DEF IInv, TypesOK, SweepRow, SweepSkips, SweepFlushes, Visits
<1>2. Passes(p, {}) \/ Passes(p, {Turn(p)})
  BY DEF SweepSkips, SweepFlushes
<1>3. sweep' \in [Sweepers -> SweepRow]
  BY <1>1, <1>2, PassesTypes DEF TypesOK
<1>4. UNCHANGED <<talk, final, job, excused, making>>
  BY DEF SweepSkips, SweepFlushes
<1>5. TypesOK'
  BY <1>1, <1>3, <1>4 DEF TypesOK, making
<1> QED
  BY <1>1, <1>4, <1>5, NothingMoves DEF making

\* A sweep commits its marks.
LEMMA SweepCommitsMoves ==
  ASSUME IInv, NEW p \in Sweepers, SweepCommits(p)
  PROVE  TypesOK' /\ RowsMove
<1>1. TypesOK
  BY DEF IInv
<1>2. \A k \in Talks :
        /\ talk'[k] \in TalkRow \cup {None} /\ (talk'[k] = None <=> talk[k] = None)
        /\ talk[k] # None => talk'[k].status = talk[k].status
  BY StatusesStay
<1>3. \A j \in Talks : rendered[j] \in Nat
  BY <1>1, BoundsAssumption DEF TypesOK
<1>4. talk' \in [Talks -> TalkRow \cup {None}]
  BY <1>2 DEF SweepCommits
<1>5. UNCHANGED <<final, faults, excused, rendered, publishing, overrides, change, changes,
                  aborted>>
  BY DEF SweepCommits, making
<1>6. RowsMove
  BY <1>2, <1>3, <1>5 DEF RowsMove, Is
<1>7. sweep' \in [Sweepers -> SweepRow]
  BY <1>1, NoSweepRow DEF TypesOK, SweepCommits
<1>8. job' \in [state : {"scheduled", "started", "failed"}, retries : 0..Retries]
  BY <1>1 DEF TypesOK, SweepCommits
<1>9. TypesOK'
  BY <1>1, <1>4, <1>5, <1>7, <1>8 DEF TypesOK
<1> QED
  BY <1>6, <1>9

\* A sweep fails, and its marks are lost.
LEMMA RollsBackMoves ==
  ASSUME IInv, NEW p \in Sweepers, RollsBack(p)
  PROVE  TypesOK' /\ RowsMove
<1>1. TypesOK
  BY DEF IInv
<1>2. sweep' \in [Sweepers -> SweepRow]
  BY <1>1, NoSweepRow DEF TypesOK, RollsBack
<1>3. job' \in [state : {"scheduled", "started", "failed"}, retries : 0..Retries]
  <2>1. job.retries > 0 => job.retries - 1 \in 0..Retries
    BY <1>1, RetriesAssumption DEF TypesOK
  <2>2. Retried \in [state : {"scheduled", "started", "failed"}, retries : 0..Retries]
    BY <1>1, <2>1 DEF TypesOK, Retried
  <2> QED
    BY <1>1, <2>2 DEF TypesOK, RollsBack
<1>4. TypesOK'
  BY <1>1, <1>2, <1>3 DEF TypesOK, RollsBack, making
<1> QED
  BY <1>1, <1>4, NothingMoves DEF RollsBack, making

\* The periodic job is registered.
LEMMA RegisterPeriodicMoves ==
  ASSUME IInv, RegisterPeriodic
  PROVE  TypesOK' /\ RowsMove
<1>1. TypesOK'
  BY RetriesAssumption DEF IInv, TypesOK, RegisterPeriodic, making
<1> QED
  BY <1>1, NothingMoves DEF IInv, RegisterPeriodic, making

\* Every step keeps the types and moves rows so.
LEMMA StepsMove ==
  ASSUME IInv, Steps
  PROVE  TypesOK' /\ RowsMove
<1>1. CASE \E k \in Talks : Renders(k) \/ PublishReads(k) \/ PublishCommits(k)
  BY <1>1, RendersMoves, PublishReadsMoves, PublishCommitsMoves
<1>2. CASE DayPasses \/ (\E o \in Overrides : UpdateEvent(o))
  BY <1>2, DayPassesMoves, UpdateEventMoves
<1>3. CASE \E op \in {"abort", "delete"}, k \in Talks : ChangeWipes(op, k)
  BY <1>3, ChangeWipesMoves
<1>4. CASE AbortCommits \/ DeleteCommits \/ ChangeFails \/ RegisterPeriodic
  BY <1>4, AbortCommitsMoves, DeleteCommitsMoves, ChangeFailsMoves, RegisterPeriodicMoves
<1>5. CASE \E p \in Sweepers : Sweeps(p)
  BY <1>5, SweepReadsMoves, SweepDeletesMoves, SweepPassesMoves, SweepCommitsMoves,
     RollsBackMoves DEF Sweeps, SweepFails, SweepDies
<1> QED
  BY <1>1, <1>2, <1>3, <1>4, <1>5 DEF Steps

-------------------------------------------------------------------------------
(* What a sweep has read *)

\* A talk that is remembered stays so until it is about to be published anew.
Keeps == \A k \in lapsed : ~Is(k, "uploading") => k \in lapsed'

\* What a sweep has read are numbers of renderings of talks.
LEMMA SeenAre ==
  ASSUME TypesOK, NEW p \in Sweepers
  PROVE  /\ DOMAIN sweep[p].seen \subseteq Talks
         /\ \A k \in DOMAIN sweep[p].seen : sweep[p].seen[k] \in Nat
         /\ sweep[p] \in SweepRow
<1>1. sweep[p] \in SweepRow /\ sweep[p].seen \in Seen
  BY DEF TypesOK, SweepRow
<1>2. PICK S \in SUBSET Talks : sweep[p].seen \in [S -> 0..MaxRenderings]
  BY <1>1 DEF Seen
<1> QED
  BY <1>1, <1>2, BoundsAssumption

\* A sweep that reads nothing new keeps what holds of what it has read.
LEMMA ReadsStay ==
  ASSUME IInv, RowsMove, Keeps, TypesOK', NEW p \in Sweepers,
         sweep'[p].seen = sweep[p].seen,
         sweep'[p].todo \cup sweep'[p].marked \subseteq sweep[p].todo \cup sweep[p].marked
  PROVE  ReadsOK(p)'
<1>1. ReadsOK(p) /\ TypesOK
  BY DEF IInv, SweepsOK
<1>2. ASSUME NEW k \in DOMAIN sweep[p].seen
      PROVE  /\ Is(k, "done")' \/ talk'[k] = None \/ k \in aborted'
             /\ sweep[p].seen[k] <= rendered'[k]
             /\ sweep[p].seen[k] = rendered'[k] /\ rendered'[k] # 0 =>
                  ~Is(k, "uploading")' /\ k \in lapsed'
  <2>1. k \in Talks /\ sweep[p].seen[k] \in Nat
    BY <1>1, SeenAre
  <2>2. rendered[k] \in Nat /\ rendered'[k] \in Nat
    BY <1>1, <2>1, BoundsAssumption DEF TypesOK
  <2>3. Is(k, "done")' \/ talk'[k] = None \/ k \in aborted'
    BY <1>1, <2>1 DEF ReadsOK, RowsMove, Is
  <2>4. rendered[k] <= rendered'[k] /\ sweep[p].seen[k] <= rendered[k]
    BY <1>1, <2>1 DEF ReadsOK, RowsMove
  <2>5. ASSUME sweep[p].seen[k] = rendered'[k], rendered'[k] # 0
        PROVE  ~Is(k, "uploading")' /\ k \in lapsed'
    <3>1. rendered'[k] = rendered[k]
      BY <2>1, <2>2, <2>4, <2>5
    <3>2. ~Is(k, "uploading") /\ k \in lapsed
      BY <1>1, <2>5, <3>1 DEF ReadsOK
    <3> QED
      BY <2>1, <2>2, <3>1, <3>2 DEF RowsMove, Keeps
  <2> QED
    BY <2>1, <2>2, <2>3, <2>4, <2>5
<1>3. sweep'[p].todo \cup sweep'[p].marked \subseteq DOMAIN sweep'[p].seen
  BY <1>1 DEF ReadsOK
<1> QED
  BY <1>2, <1>3 DEF ReadsOK, Is

\* A sweep that makes no step keeps what holds of what it has removed.
LEMMA RemovesStay ==
  ASSUME IInv, RowsMove, NEW p \in Sweepers, sweep'[p] = sweep[p]
  PROVE  RemovesOK(p)'
<1>1. ReadsOK(p) /\ RemovesOK(p) /\ TypesOK /\ sweep[p] \in SweepRow
  BY SeenAre DEF IInv, SweepsOK
<1>2. Turn(p)' = Turn(p)
  BY DEF Turn
<1>3. ASSUME NEW k \in sweep[p].marked
      PROVE  talk'[k] # None /\ (final'[k] = 0 \/ k \in aborted')
  <2>1. k \in Talks /\ Locked(k)
    BY <1>1 DEF SweepRow, Locked
  <2> QED
    BY <1>1, <2>1 DEF RemovesOK, RowsMove
<1>4. ASSUME sweep[p].phase = "flushing"
      PROVE  sweep[p].todo # {} /\ (final'[Turn(p)] = 0 \/ Turn(p) \in aborted')
  <2>1. sweep[p].todo # {} /\ (final[Turn(p)] = 0 \/ Turn(p) \in aborted)
    BY <1>1, <1>4 DEF RemovesOK
  <2>2. Turn(p) \in Talks /\ Turn(p) \in DOMAIN sweep[p].seen
    BY <1>1, <2>1, TurnIsLeft DEF SweepRow, ReadsOK
  <2>3. Is(Turn(p), "working") => Turn(p) \in aborted
    BY <1>1, <2>2 DEF ReadsOK, Is
  <2> QED
    BY <2>1, <2>2, <2>3 DEF RowsMove
<1> QED
  BY <1>2, <1>3, <1>4 DEF RemovesOK

\* The sweeps whose steps these are not.
LEMMA OthersOK ==
  ASSUME IInv, RowsMove, Keeps, TypesOK', NEW p \in Sweepers, sweep'[p] = sweep[p]
  PROVE  ReadsOK(p)' /\ RemovesOK(p)'
  BY ReadsStay, RemovesStay

\* Nothing is asked of a sweep that is not under way.
LEMMA NoSweepOK ==
  ASSUME NEW p \in Sweepers, sweep'[p] = NoSweep
  PROVE  ReadsOK(p)' /\ RemovesOK(p)'
<1>1. DOMAIN NoSweep.seen = {} /\ NoSweep.todo = {} /\ NoSweep.marked = {}
      /\ NoSweep.phase = "idle"
  <2>1. <<>> \in [{} -> Nat]
    OBVIOUS
  <2> QED
    BY <2>1 DEF NoSweep
<1> HIDE DEF NoSweep
<1> QED
  BY <1>1 DEF ReadsOK, RemovesOK

\* What a sweep reads as due is past its window.
LEMMA SweepReadsOK ==
  ASSUME IInv, Keeps, TypesOK', \A k \in Talks : Past(k)' => k \in lapsed',
         NEW p \in Sweepers, SweepReads(p)
  PROVE  ReadsOK(p)' /\ RemovesOK(p)'
<1>1. TypesOK /\ FilesOK
  BY DEF IInv
<1>2. /\ sweep'[p].phase = "sweeping" /\ sweep'[p].todo = Due /\ sweep'[p].marked = {}
      /\ sweep'[p].seen = [k \in Due |-> final[k]]
  BY <1>1 DEF SweepReads, TypesOK, NoSweep
<1>3. UNCHANGED <<talk, final, rendered, overrides>>
  BY DEF SweepReads, making
<1>4. ASSUME NEW k \in Due
      PROVE  /\ k \in Talks /\ Is(k, "done") /\ ~Is(k, "uploading") /\ k \in lapsed'
             /\ final[k] <= rendered[k]
  <2>1. k \in Talks /\ Is(k, "done") /\ Expired(k)
    BY DEF Due
  <2>2. Past(k)
    BY <2>1, DaysAssumption, OverridesAssumption DEF Expired, FinalDays, Past
  <2>3. Past(k)'
    BY <1>3, <2>2 DEF Past, Is
  <2>4. rendered[k] \in Nat /\ final[k] \in {0, rendered[k]}
    BY <1>1, <2>1, BoundsAssumption DEF TypesOK, FilesOK
  <2> QED
    BY <2>1, <2>3, <2>4 DEF Is
<1>5. ReadsOK(p)'
  BY <1>2, <1>3, <1>4 DEF ReadsOK, Is
<1>6. RemovesOK(p)'
  BY <1>2 DEF RemovesOK
<1> QED
  BY <1>5, <1>6

\* A video it deletes was.
LEMMA SweepDeletesOK ==
  ASSUME IInv, RowsMove, Keeps, TypesOK', NEW p \in Sweepers, SweepDeletes(p)
  PROVE  ReadsOK(p)' /\ RemovesOK(p)'
<1>1. TypesOK /\ RemovesOK(p) /\ sweep[p] \in SweepRow
  BY SeenAre DEF IInv, SweepsOK
<1>2. sweep'[p] = [sweep[p] EXCEPT !.phase = "flushing"]
  BY <1>1 DEF TypesOK, SweepDeletes
<1>3. /\ sweep'[p].phase = "flushing" /\ sweep'[p].todo = sweep[p].todo
      /\ sweep'[p].seen = sweep[p].seen /\ sweep'[p].marked = sweep[p].marked
  BY <1>1, <1>2 DEF SweepRow
<1>4. sweep[p].todo # {} /\ Turn(p)' = Turn(p)
  BY <1>3 DEF SweepDeletes, Visits, Turn
<1>5. Turn(p) \in Talks
  BY <1>1, <1>4, TurnIsLeft DEF SweepRow
<1>6. \A k \in Talks : final'[k] \in {0, final[k]}
  BY <1>1 DEF TypesOK, SweepDeletes
<1>7. final'[Turn(p)] = 0 /\ UNCHANGED <<talk, aborted>>
  BY <1>1, <1>5 DEF TypesOK, SweepDeletes, making
<1>8. \A k \in sweep[p].marked : talk'[k] # None /\ (final'[k] = 0 \/ k \in aborted')
  BY <1>1, <1>6, <1>7 DEF RemovesOK, SweepRow
<1> QED
  BY <1>3, <1>4, <1>7, <1>8, ReadsStay DEF RemovesOK

\* It marks only what it has removed.
LEMMA SweepPassesOK ==
  ASSUME IInv, RowsMove, Keeps, TypesOK', NEW p \in Sweepers, SweepSkips(p) \/ SweepFlushes(p)
  PROVE  ReadsOK(p)' /\ RemovesOK(p)'
<1>1. TypesOK /\ RemovesOK(p) /\ sweep[p] \in SweepRow
  BY SeenAre DEF IInv, SweepsOK
<1>2. Turn(p) \in sweep[p].todo /\ Turn(p) \in Talks
  BY <1>1, TurnIsLeft DEF SweepRow, SweepSkips, SweepFlushes, Visits
<1>3. PICK marks \in SUBSET {Turn(p)} :
        /\ Passes(p, marks)
        /\ marks # {} => talk[Turn(p)] # None /\ sweep[p].phase = "flushing"
  BY DEF SweepSkips, SweepFlushes, Visits
<1>4. /\ sweep'[p].phase = "sweeping" /\ sweep'[p].todo = sweep[p].todo \ {Turn(p)}
      /\ sweep'[p].seen = sweep[p].seen /\ sweep'[p].marked = sweep[p].marked \cup marks
  <2>1. marks \in SUBSET Talks
    BY <1>2
  <2> DEFINE q == [sweep[p] EXCEPT !.phase = "sweeping", !.todo = @ \ {Turn(p)},
                                   !.marked = @ \cup marks]
  <2>2. sweep' = [sweep EXCEPT ![p] = q]
    BY <1>1, <1>3, <2>1, PassesTypes
  <2>3. sweep'[p] = q
    BY <1>1, <2>2 DEF TypesOK
  <2> QED
    BY <1>1, <2>3 DEF SweepRow
<1>5. UNCHANGED <<talk, final, aborted>>
  BY DEF SweepSkips, SweepFlushes, making
<1>6. \A k \in sweep'[p].marked : talk[k] # None /\ (final[k] = 0 \/ k \in aborted)
  BY <1>1, <1>3, <1>4 DEF RemovesOK
<1>7. RemovesOK(p)'
  BY <1>4, <1>5, <1>6 DEF RemovesOK
<1>8. ReadsOK(p)'
  BY <1>2, <1>3, <1>4, ReadsStay
<1> QED
  BY <1>7, <1>8

\* Every step keeps what holds of every sweep.
LEMMA SweepsStay ==
  ASSUME IInv, RowsMove, Keeps, TypesOK', \A k \in Talks : Past(k)' => k \in lapsed', Steps
  PROVE  SweepsOK'
<1>1. CASE UNCHANGED sweep
  BY <1>1, OthersOK DEF SweepsOK
<1>2. ASSUME NEW p \in Sweepers, Sweeps(p)
      PROVE  SweepsOK'
  <2>1. ReadsOK(p)' /\ RemovesOK(p)'
    <3>1. CASE SweepCommits(p) \/ RollsBack(p)
      <4>1. sweep'[p] = NoSweep
        BY <3>1 DEF IInv, TypesOK, SweepCommits, RollsBack
      <4> QED
        BY <4>1, NoSweepOK
    <3> QED
      BY <1>2, <3>1, SweepReadsOK, SweepDeletesOK, SweepPassesOK
         DEF Sweeps, SweepFails, SweepDies
  <2>2. ASSUME NEW q \in Sweepers, q # p PROVE sweep'[q] = sweep[q]
    <3>1. sweep \in [Sweepers -> SweepRow]
      BY DEF IInv, TypesOK
    <3> QED
      BY <1>2, <2>2, <3>1
         DEF Sweeps, SweepReads, SweepDeletes, SweepSkips, SweepFlushes, Passes, SweepCommits,
             SweepFails, SweepDies, RollsBack
  <2> QED
    BY <2>1, <2>2, OthersOK DEF SweepsOK
<1> QED
  BY <1>1, <1>2
     DEF Steps, Renders, PublishReads, PublishCommits, DayPasses, UpdateEvent, ChangeWipes,
         AbortCommits, DeleteCommits, ChangeFails, RegisterPeriodic

-------------------------------------------------------------------------------
(* Files, windows and marks *)

\* Every step keeps what holds of the final videos.
LEMMA FilesStay ==
  ASSUME IInv, Steps
  PROVE  FilesOK'
<1>1. /\ TypesOK /\ FilesOK
      /\ \A k \in Talks : rendered[k] \in Nat
  BY BoundsAssumption DEF IInv, TypesOK
<1>2. CASE UNCHANGED <<talk, final, rendered, publishing, change, excused>>
  BY <1>1, <1>2 DEF FilesOK, Is
<1>3. ASSUME NEW k \in Talks, Renders(k) PROVE FilesOK'
  <2>1. talk[k] \in TalkRow /\ talk[k] # None /\ k \notin publishing
    BY <1>1, <1>3, RowOf DEF Renders, FilesOK, Is
  <2>2. \A j \in Talks : j # k => talk'[j] = talk[j] /\ final'[j] = final[j]
                                    /\ rendered'[j] = rendered[j]
    BY <1>1, <1>3 DEF Renders, TypesOK
  <2>3. final'[k] = rendered'[k] /\ change.id # k /\ UNCHANGED <<publishing, change>>
    BY <1>1, <1>3 DEF Renders, TypesOK
  <2>4. excused' = excused \ {k}
    BY <1>3 DEF Renders
  <2>5. change # NoChange => change.id \in Talks
    BY <1>1 DEF TypesOK, Change
  <2> QED
    BY <1>1, <2>1, <2>2, <2>3, <2>4, <2>5 DEF FilesOK, Is, TypesOK
<1>4. ASSUME NEW k \in Talks, PublishReads(k) PROVE FilesOK'
  <2>1. CASE final[k] # 0
    BY <1>1, <1>4, <2>1 DEF PublishReads, FilesOK, Is
  <2>2. CASE final[k] = 0
    <3>1. talk[k] \in TalkRow /\ talk[k] # None /\ k \notin publishing
      BY <1>1, <1>4, RowOf DEF PublishReads, Is
    <3>2. talk' = [talk EXCEPT ![k] = [talk[k] EXCEPT !.status = "broken", !.age = 0]]
          /\ UNCHANGED <<final, rendered, publishing, change, excused>>
      BY <1>1, <1>4, <2>2 DEF PublishReads, TypesOK
    <3>3. [talk[k] EXCEPT !.status = "broken", !.age = 0] # None
      BY <3>1, WrittenRow, NoneAssumption DEF Status
    <3>4. \A j \in Talks : j # k => talk'[j] = talk[j]
      BY <1>1, <3>2 DEF TypesOK
    <3>5. talk'[k] # None
      BY <1>1, <3>2, <3>3 DEF TypesOK
    <3>6. change # NoChange => change.id \in Talks
      BY <1>1 DEF TypesOK, Change
    <3> QED
      BY <1>1, <3>1, <3>2, <3>4, <3>5, <3>6 DEF FilesOK, Is, TypesOK
  <2> QED
    BY <2>1, <2>2
<1>5. ASSUME NEW k \in Talks, PublishCommits(k) PROVE FilesOK'
  <2>1. talk[k] \in TalkRow
    BY <1>5, <1>1, RowOf DEF PublishCommits, Is
  <2>2. talk' = [talk EXCEPT ![k] = [talk[k] EXCEPT !.status = "done", !.age = 0]]
        /\ UNCHANGED <<final, rendered, change, excused>> /\ publishing' = publishing \ {k}
    BY <1>1, <1>5 DEF PublishCommits, TypesOK
  <2>3. [talk[k] EXCEPT !.status = "done", !.age = 0] # None
    BY <2>1, WrittenRow, NoneAssumption DEF Status
  <2>4. (\A j \in Talks : j # k => talk'[j] = talk[j]) /\ talk'[k] # None
    BY <1>1, <2>2, <2>3 DEF TypesOK
  <2>5. change # NoChange => change.id \in Talks
    BY <1>1 DEF TypesOK, Change
  <2> QED
    BY <1>1, <2>2, <2>4, <2>5 DEF FilesOK, Is, TypesOK
<1>6. ASSUME DayPasses \/ (\E p \in Sweepers : SweepCommits(p)) PROVE FilesOK'
  <2>1. ASSUME NEW k \in Talks
        PROVE  (talk'[k] = None <=> talk[k] = None) /\ (Is(k, "uploading")' <=> Is(k, "uploading"))
    BY <1>6, StatusesStay DEF Is
  <2>2. UNCHANGED <<final, rendered, publishing, change, excused>>
    BY <1>6 DEF DayPasses, SweepCommits, making
  <2>3. change # NoChange => change.id \in Talks
    BY <1>1 DEF TypesOK, Change
  <2> QED
    BY <1>1, <2>1, <2>2, <2>3 DEF FilesOK, TypesOK
<1>7. ASSUME NEW op \in {"abort", "delete"}, NEW k \in Talks, ChangeWipes(op, k) PROVE FilesOK'
  <2>1. /\ final' = [final EXCEPT ![k] = 0] /\ publishing' = publishing \ {k}
        /\ excused' = excused \cup {k} /\ change' = [op |-> op, id |-> k]
        /\ UNCHANGED <<talk, rendered>> /\ talk[k] # None
    BY <1>7 DEF ChangeWipes
  <2>2. change'.id = k
    BY <2>1
  <2>3. \A j \in Talks : final'[j] = IF j = k THEN 0 ELSE final[j]
    BY <1>1, <2>1 DEF TypesOK
  <2> QED
    BY <1>1, <2>1, <2>2, <2>3 DEF FilesOK, Is, TypesOK
<1>8. ASSUME AbortCommits \/ DeleteCommits \/ ChangeFails PROVE FilesOK'
  <2>1. change' = NoChange /\ UNCHANGED <<final, rendered, publishing, excused>>
    BY <1>8 DEF AbortCommits, DeleteCommits, ChangeFails
  <2>2. \A j \in Talks : j # change.id => talk'[j] = talk[j]
    BY <1>1, <1>8 DEF AbortCommits, DeleteCommits, ChangeFails, TypesOK
  <2>3. \A k \in publishing : NoChange.id # k
    BY <1>1, OverridesAssumption, TalksAssumption DEF NoChange, TypesOK
  <2> QED
    BY <1>1, <2>1, <2>2, <2>3 DEF FilesOK, Is, TypesOK
<1>9. ASSUME NEW p \in Sweepers, SweepDeletes(p) PROVE FilesOK'
  <2> DEFINE k == Turn(p)
  <2>1. /\ sweep[p].todo # {} /\ final' = [final EXCEPT ![k] = 0]
        /\ UNCHANGED <<talk, rendered, publishing, change>>
        /\ excused' = IF final[k] \in {0, sweep[p].seen[k]} THEN excused ELSE excused \cup {k}
    BY <1>9 DEF SweepDeletes, Visits, making
  <2>2. k \in Talks /\ k \in DOMAIN sweep[p].seen
    BY <1>1, <2>1, SeenAre, TurnIsLeft DEF IInv, SweepsOK, ReadsOK, SweepRow
  <2>3. ASSUME Is(k, "uploading"), final[k] # 0 PROVE final[k] # sweep[p].seen[k]
    BY <1>1, <2>2, <2>3 DEF FilesOK, IInv, SweepsOK, ReadsOK
  <2>4. \A j \in Talks : final'[j] = IF j = k THEN 0 ELSE final[j]
    BY <1>1, <2>1 DEF TypesOK
  <2>5. k \in publishing => k \in excused'
    BY <1>1, <2>1, <2>3 DEF FilesOK
  <2> HIDE DEF k
  <2> QED
    BY <1>1, <2>1, <2>4, <2>5 DEF FilesOK, Is, TypesOK
<1> QED
  BY <1>2, <1>3, <1>4, <1>5, <1>6, <1>7, <1>8, <1>9
     DEF Steps, Sweeps, UpdateEvent, SweepReads, SweepSkips, SweepFlushes, SweepFails,
         SweepDies, RollsBack, RegisterPeriodic, making

\* The video of a published talk disappears only behind its window, by an
\* abort, or by a sweep that had read an earlier publication.
LEMMA WindowStays ==
  ASSUME IInv, Steps, Keeps, \A k \in Talks : Past(k)' => k \in lapsed'
  PROVE  WindowOK'
<1>1. TypesOK /\ FilesOK /\ VideoKept
  BY DEF IInv, WindowOK
<1>2. ASSUME NEW k \in Talks, Is(k, "done")', final'[k] = 0
      PROVE  k \in lapsed' \cup excused'
  <2>1. CASE PublishCommits(k)
    BY <1>1, <1>2, <2>1 DEF PublishCommits, FilesOK
  <2>2. CASE Is(k, "done") /\ final[k] = 0
    <3>1. k \in lapsed \cup excused /\ ~Is(k, "uploading")
      BY <1>1, <2>2 DEF VideoKept, Is
    <3>2. k \in excused => k \in excused'
      BY <2>2
         DEF Steps, Renders, PublishReads, PublishCommits, DayPasses, UpdateEvent, ChangeWipes,
             AbortCommits, DeleteCommits, ChangeFails, Sweeps, SweepReads, SweepDeletes,
             SweepSkips, SweepFlushes, SweepCommits, SweepFails, SweepDies, RollsBack,
             RegisterPeriodic, Is
    <3> QED
      BY <3>1, <3>2 DEF Keeps
  <2>3. ASSUME NEW op \in {"abort", "delete"}, NEW j \in Talks, ChangeWipes(op, j), final[k] # 0
        PROVE  k \in excused'
    BY <1>1, <1>2, <2>3 DEF ChangeWipes, TypesOK
  <2>4. ASSUME NEW p \in Sweepers, SweepDeletes(p), Is(k, "done"), final[k] # 0
        PROVE  k \in lapsed' \cup excused'
    <3>1. k = Turn(p) /\ sweep[p].todo # {}
      BY <1>1, <1>2, <2>4 DEF SweepDeletes, Visits, TypesOK
    <3>2. k \in DOMAIN sweep[p].seen
      BY <1>1, <3>1, SeenAre, TurnIsLeft DEF IInv, SweepsOK, ReadsOK, SweepRow
    <3>3. CASE final[k] = sweep[p].seen[k]
      <4>1. k \in lapsed
        BY <1>1, <2>4, <3>2, <3>3 DEF FilesOK, IInv, SweepsOK, ReadsOK
      <4> QED
        BY <2>4, <4>1 DEF Keeps, Is
    <3>4. CASE final[k] # sweep[p].seen[k]
      BY <2>4, <3>1, <3>4 DEF SweepDeletes
    <3> QED
      BY <3>3, <3>4
  <2>5. CASE ~PublishCommits(k)
    <3>1. Is(k, "done")
      <4>1. ASSUME DayPasses \/ (\E p \in Sweepers : SweepCommits(p)) PROVE Is(k, "done")
        BY <1>2, <4>1, StatusesStay DEF Is
      <4>2. ASSUME NEW j \in Talks, Renders(j) PROVE Is(k, "done")
        <5>1. talk[j] \in TalkRow
          BY <1>1, <4>2, RowOf DEF Renders, Is
        <5>2. talk'[j].status = "uploading" /\ (j # k => talk'[k] = talk[k])
          BY <1>1, <4>2, <5>1 DEF Renders, TypesOK, TalkRow
        <5> QED
          BY <1>2, <5>2 DEF Is
      <4>3. ASSUME NEW j \in Talks, PublishReads(j) PROVE Is(k, "done")
        <5>1. talk[j] \in TalkRow
          BY <1>1, <4>3, RowOf DEF PublishReads, Is
        <5>2. UNCHANGED talk \/ (talk'[j].status = "broken" /\ (j # k => talk'[k] = talk[k]))
          BY <1>1, <4>3, <5>1 DEF PublishReads, TypesOK, TalkRow
        <5> QED
          BY <1>2, <5>2 DEF Is
      <4>4. ASSUME NEW j \in Talks, PublishCommits(j), j # k PROVE Is(k, "done")
        BY <1>1, <1>2, <4>4 DEF PublishCommits, TypesOK, Is
      <4>5. ASSUME AbortCommits PROVE Is(k, "done")
        <5>1. change.id \in Talks /\ talk[change.id] \in TalkRow
          BY <4>5, ChangeAbout DEF AbortCommits
        <5>2. talk'[change.id].status = "working" /\ (change.id # k => talk'[k] = talk[k])
          BY <1>1, <4>5, <5>1 DEF AbortCommits, TypesOK, TalkRow
        <5> QED
          BY <1>2, <5>2 DEF Is
      <4>6. ASSUME DeleteCommits PROVE Is(k, "done")
        <5>1. change.id \in Talks
          BY <4>6, ChangeAbout DEF DeleteCommits
        <5> QED
          BY <1>1, <1>2, <4>6, <5>1 DEF DeleteCommits, TypesOK, Is
      <4>7. ASSUME UNCHANGED talk PROVE Is(k, "done")
        BY <1>2, <4>7 DEF Is
      <4> QED
        BY <2>5, <4>1, <4>2, <4>3, <4>4, <4>5, <4>6, <4>7
           DEF Steps, UpdateEvent, ChangeWipes, ChangeFails, Sweeps, SweepReads, SweepDeletes,
               SweepSkips, SweepFlushes, SweepFails, SweepDies, RollsBack, RegisterPeriodic,
               making
    <3>2. CASE UNCHANGED final
      BY <1>2, <2>2, <3>1, <3>2
    <3>3. ASSUME NEW j \in Talks, Renders(j), final[k] # 0 PROVE FALSE
      <4>1. j # k
        BY <3>1, <3>3 DEF Renders, Is
      <4> QED
        BY <1>1, <1>2, <3>3, <4>1 DEF Renders, TypesOK
    <3> QED
      BY <2>2, <2>3, <2>4, <3>1, <3>2, <3>3
         DEF Steps, PublishReads, PublishCommits, DayPasses, UpdateEvent,
             AbortCommits, DeleteCommits, ChangeFails, Sweeps, SweepReads, SweepSkips,
             SweepFlushes, SweepCommits, SweepFails, SweepDies, RollsBack, RegisterPeriodic,
             making
  <2> QED
    BY <2>1, <2>5
<1>3. VideoKept'
  BY <1>2 DEF VideoKept, Is
<1> QED
  BY <1>3 DEF WindowOK

\* Only a sweep that commits writes a mark.
LEMMA MarksWritten ==
  ASSUME IInv, Steps, NEW k \in Talks, talk[k] # None, talk'[k] # None,
         \A p \in Sweepers : ~SweepCommits(p)
  PROVE  talk'[k].cleaned = talk[k].cleaned
<1>1. TypesOK /\ talk[k] \in TalkRow
  BY RowOf DEF IInv
<1>2. ASSUME NEW j \in Talks, Renders(j) \/ PublishReads(j) \/ PublishCommits(j)
      PROVE  talk'[k].cleaned = talk[k].cleaned
  <2>1. talk'[k] = talk[k] \/ \E s \in Status : talk'[k] = [talk[k] EXCEPT !.status = s, !.age = 0]
    BY <1>1, <1>2 DEF Renders, PublishReads, PublishCommits, TypesOK, Status
  <2>2. ASSUME NEW s \in Status
        PROVE  [talk[k] EXCEPT !.status = s, !.age = 0].cleaned = talk[k].cleaned
    BY <1>1 DEF TalkRow
  <2> QED
    BY <2>1, <2>2
<1>3. ASSUME DayPasses PROVE talk'[k].cleaned = talk[k].cleaned
  <2>1. talk'[k] = talk[k] \/ talk'[k] = [talk[k] EXCEPT !.age = @ + 1]
    BY <1>3 DEF DayPasses
  <2>2. [talk[k] EXCEPT !.age = @ + 1].cleaned = talk[k].cleaned
    BY <1>1 DEF TalkRow
  <2> QED
    BY <2>1, <2>2
<1>4. ASSUME AbortCommits \/ DeleteCommits PROVE talk'[k].cleaned = talk[k].cleaned
  <2>1. change.id \in Talks
    BY <1>4, ChangeAbout DEF AbortCommits, DeleteCommits
  <2>2. talk'[k] = talk[k] \/ talk'[k] = [talk[k] EXCEPT !.status = "working"]
    BY <1>1, <1>4, <2>1 DEF AbortCommits, DeleteCommits, TypesOK
  <2>3. [talk[k] EXCEPT !.status = "working"].cleaned = talk[k].cleaned
    BY <1>1 DEF TalkRow
  <2> QED
    BY <2>2, <2>3
<1> QED
  BY <1>2, <1>3, <1>4
     DEF Steps, UpdateEvent, ChangeWipes, ChangeFails, Sweeps, SweepReads, SweepDeletes,
         SweepSkips, SweepFlushes, SweepFails, SweepDies, RollsBack, RegisterPeriodic, making

\* Every step keeps what holds of the marks.
LEMMA MarksStay ==
  ASSUME IInv, Steps, RowsMove
  PROVE  MarksOK'
<1>1. TypesOK /\ MarksOK
  BY DEF IInv
<1> SUFFICES ASSUME NEW k \in Talks, talk'[k] # None, talk'[k].cleaned
             PROVE  k \in aborted' \/ (talk'[k].status = "done" /\ final'[k] = 0)
  BY DEF MarksOK
<1>2. talk[k] # None
  BY DEF RowsMove
<1>3. CASE talk[k].cleaned
  <2>1. k \in aborted => k \in aborted'
    BY DEF RowsMove
  <2>2. ASSUME talk[k].status = "done", final[k] = 0
        PROVE  k \in aborted' \/ (talk'[k].status = "done" /\ final'[k] = 0)
    BY <1>2, <2>2 DEF RowsMove, Is
  <2> QED
    BY <1>1, <1>2, <1>3, <2>1, <2>2 DEF MarksOK
<1>4. ASSUME NEW p \in Sweepers, SweepCommits(p), ~talk[k].cleaned
      PROVE  k \in aborted' \/ (talk'[k].status = "done" /\ final'[k] = 0)
  <2>1. k \in sweep[p].marked
    BY <1>4 DEF SweepCommits
  <2>2. /\ final[k] = 0 \/ k \in aborted
        /\ talk[k].status = "done" \/ k \in aborted
    BY <1>2, <2>1 DEF IInv, SweepsOK, ReadsOK, RemovesOK, Is
  <2>3. talk'[k].status = talk[k].status
    BY <1>2, <1>4, StatusesStay
  <2>4. UNCHANGED <<final, aborted>>
    BY <1>4 DEF SweepCommits, making
  <2> QED
    BY <2>2, <2>3, <2>4
<1> QED
  BY <1>2, <1>3, <1>4, MarksWritten

-------------------------------------------------------------------------------
(* The theorems *)

\* The invariant holds in the initial state.
LEMMA InitOK == Init => IInv
<1> SUFFICES ASSUME Init PROVE IInv
  OBVIOUS
<1>1. /\ 0 \in 0..MaxAge /\ 0 \in 0..MaxRenderings
      /\ Retries \in 0..Retries
  BY BoundsAssumption, RetriesAssumption
<1>2. NewTalk \in TalkRow /\ NewTalk # None /\ NewTalk.status = "working" /\ NewTalk.cleaned = FALSE
  <2>1. NewTalk \in TalkRow
    BY <1>1 DEF NewTalk, TalkRow, Status
  <2> QED
    BY <2>1, NoneAssumption DEF NewTalk
<1>3. /\ talk = [k \in Talks |-> NewTalk] /\ final = [k \in Talks |-> 0] /\ rendered = final
      /\ publishing = {} /\ overrides = None /\ change = NoChange
      /\ sweep = [p \in Sweepers |-> NoSweep]
      /\ job = [state |-> "scheduled", retries |-> Retries]
      /\ lapsed = {} /\ excused = {} /\ aborted = {}
  BY DEF Init
<1> HIDE DEF NewTalk
<1>4. TypesOK
  <2>1. job \in [state : {"scheduled", "started", "failed"}, retries : 0..Retries]
    BY <1>1, <1>3
  <2>2. talk \in [Talks -> TalkRow \cup {None}] /\ sweep \in [Sweepers -> SweepRow]
    BY <1>2, <1>3, NoSweepRow
  <2>3. rendered \in [Talks -> 0..MaxRenderings] /\ final \in [Talks -> Nat]
    BY <1>1, <1>3
  <2> QED
    BY <1>3, <2>1, <2>2, <2>3 DEF TypesOK, Overrides
<1>5. FilesOK
  BY <1>3 DEF FilesOK
<1>6. WindowOK
  BY <1>2, <1>3 DEF WindowOK, VideoKept, Past, Is
<1>7. MarksOK
  BY <1>2, <1>3 DEF MarksOK
<1>8. ASSUME NEW p \in Sweepers PROVE ReadsOK(p) /\ RemovesOK(p)
  <2>1. sweep[p] = NoSweep
    BY <1>3
  <2>2. DOMAIN NoSweep.seen = {} /\ NoSweep.todo = {} /\ NoSweep.marked = {}
        /\ NoSweep.phase = "idle"
    <3>1. <<>> \in [{} -> Nat]
      OBVIOUS
    <3> QED
      BY <3>1 DEF NoSweep
  <2> QED
    BY <2>1, <2>2 DEF ReadsOK, RemovesOK
<1> QED
  BY <1>4, <1>5, <1>6, <1>7, <1>8 DEF IInv, SweepsOK

\* Every step of the system keeps it.
LEMMA NextOK == IInv /\ [Next]_vars => IInv'
<1>1. ASSUME IInv, Next PROVE IInv'
  <2>1. Steps /\ Keeps /\ \A k \in Talks : Past(k)' => k \in lapsed'
    BY <1>1 DEF Next, Remembers, Keeps
  <2>2. TypesOK' /\ RowsMove
    BY <1>1, <2>1, StepsMove
  <2>3. FilesOK' /\ WindowOK' /\ MarksOK'
    BY <1>1, <2>1, <2>2, FilesStay, WindowStays, MarksStay
  <2>4. SweepsOK'
    BY <1>1, <2>1, <2>2, SweepsStay
  <2> QED
    BY <2>2, <2>3, <2>4 DEF IInv
<1>2. ASSUME IInv, UNCHANGED vars PROVE IInv'
  <2>1. UNCHANGED <<talk, final, rendered, publishing, overrides, change, sweep, job, lapsed,
                    excused, aborted>>
    BY <1>2 DEF vars
  <2>2. \A k \in Talks : Is(k, "uploading")' = Is(k, "uploading")
                         /\ Is(k, "done")' = Is(k, "done") /\ Past(k)' = Past(k)
    BY <2>1 DEF Is, Past
  <2>3. TypesOK' /\ RowsMove /\ Keeps /\ MarksOK'
    <3>1. TypesOK' /\ MarksOK'
      BY <1>2, <2>1 DEF IInv, TypesOK, MarksOK
    <3> QED
      BY <1>2, <2>1, <2>2, <3>1, NothingMoves DEF IInv, TypesOK, Keeps
  <2>4. FilesOK'
    BY <1>2, <2>1 DEF IInv, FilesOK, Is
  <2>5. WindowOK'
    BY <1>2, <2>1, <2>2 DEF IInv, WindowOK, VideoKept
  <2>6. SweepsOK'
    BY <1>2, <2>1, <2>3, OthersOK DEF SweepsOK
  <2> QED
    BY <2>3, <2>4, <2>5, <2>6 DEF IInv
<1> QED
  BY <1>1, <1>2

\* It holds in every reachable state.
LEMMA Invariance == Spec => []IInv
  BY InitOK, NextOK, PTL DEF Spec

\* Talks, videos, sweeps and the periodic job always have their types; what is
\* stored under final/ is the last rendering or nothing, and a sweep marks only
\* rows it has read.
THEOREM TypesHold == Spec => []RetentionTypeOK
<1>1. IInv => RetentionTypeOK
  BY DEF IInv, TypesOK, FilesOK, SweepsOK, ReadsOK, RetentionTypeOK
<1> QED
  BY <1>1, Invariance, PTL

\* However many sweeps, aborts and changes of the policy there are, no
\* publication loses its video before its window has elapsed, but by an abort
\* or a sweep that had read an earlier publication.
THEOREM VideosStayTheirTime == Spec => []VideoKept
<1>1. IInv => VideoKept
  BY DEF IInv, WindowOK
<1> QED
  BY <1>1, Invariance, PTL

\* A row marked as cleaned never hides a video from later sweeps, unless the
\* talk has been aborted since.
THEOREM MarksAreTrue == Spec => []CleanedMeansGone
<1>1. IInv => CleanedMeansGone
  BY DEF IInv, MarksOK, CleanedMeansGone
<1> QED
  BY <1>1, Invariance, PTL
================================================================================
