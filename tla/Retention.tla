------------------------------- MODULE Retention -------------------------------
(***************************************************************************)
(* How long the video of a published talk is kept (app/retention.py).      *)
(*                                                                         *)
(* A sweep reads all talks that are due in one query, removes their videos *)
(* one after the other, marking each row as it goes, and commits once at   *)
(* the end: a row it has marked is locked until then, and a talk it has    *)
(* not come to yet may change in the meantime.  Sweeps run as a periodic   *)
(* job of RQ and from the command line.                                    *)
(*                                                                         *)
(* The way to publication and aborts are here only as far as they touch    *)
(* the video and the row; Pipeline models them.                            *)
(***************************************************************************)
EXTENDS Naturals, FiniteSets

CONSTANTS
  Talks,         \* primary keys of the talks, of one event
  Days,          \* the numbers of days an event may ask for
  Default,       \* DEFAULT_FINAL_RETENTION_DAYS
  Retries,       \* how often RQ retries the periodic job
  MaxAge,        \* bound on the days that are counted
  MaxRenderings, \* bound on the videos made of one talk
  MaxChanges,    \* bound on aborts, deletions and changes of the policy
  MaxFaults,     \* bound on the failures of storage and workers
  Faults,        \* what may fail: "storage", "crash"
  Indefinite,
  None

Overrides == Days \cup {Indefinite, None}

Status == {"working", "uploading", "done", "broken"}
TalkRow == [status : Status, age : 0..MaxAge, cleaned : BOOLEAN]

ASSUME TalksAssumption == Talks \subseteq Nat /\ IsFiniteSet(Talks)
ASSUME DaysAssumption == Days \subseteq Nat /\ Default \in Nat
ASSUME RetriesAssumption == Retries \in Nat
ASSUME FaultsAssumption == Faults \subseteq {"storage", "crash"}
ASSUME BoundsAssumption == MaxAge \in Nat /\ MaxRenderings \in Nat
ASSUME OverridesAssumption == Indefinite \notin Nat /\ None \notin Nat \cup {Indefinite}
ASSUME NoneAssumption == None \notin TalkRow

VARIABLES
  talk,       \* the rows, None where the talk has been deleted
  final,      \* which rendering is at <talk>/final/final.mp4, 0 for none
  rendered,   \* number of renderings of each talk so far
  publishing, \* talks whose job_publish has fetched the video
  overrides,  \* retention_overrides["final_retention_days"] of the event
  change,     \* the abort or deletion in flight
  sweep,      \* what each sweep has read and done
  job,        \* the periodic job in RQ
  changes,    \* number of changes so far
  faults,     \* number of failures so far
  lapsed,     \* history: talks whose publication was past its window once
  excused,    \* history: talks whose video was removed by an abort, or by a
              \* sweep that had read an earlier one
  aborted     \* history: talks that have been aborted

vars == <<talk, final, rendered, publishing, overrides, change, sweep, job, changes,
          faults, lapsed, excused, aborted>>

making == <<rendered, publishing, overrides, change, changes, aborted>>

Sweepers == {"periodic", "cli"}

NewTalk == [status |-> "working", age |-> 0, cleaned |-> FALSE]
NoSweep == [phase |-> "idle", todo |-> {}, seen |-> <<>>, marked |-> {}]
NoChange == [op |-> "none", id |-> None]

Init ==
  /\ talk = [k \in Talks |-> NewTalk]
  /\ final = [k \in Talks |-> 0]
  /\ rendered = final
  /\ publishing = {}
  /\ overrides = None
  /\ change = NoChange
  /\ sweep = [p \in Sweepers |-> NoSweep]
  /\ job = [state |-> "scheduled", retries |-> Retries]
  /\ changes = 0 /\ faults = 0
  /\ lapsed = {} /\ excused = {} /\ aborted = {}

Is(k, status) == talk[k] # None /\ talk[k].status = status

\* Faulty: an event without a limit gets the default one.
FinalDaysFinite == IF overrides \in {None, Indefinite} THEN Default ELSE overrides

\* get_retention: what the event asks for, or the default.
FinalDays == IF overrides = None THEN Default ELSE overrides

Expired(k) == FinalDays # Indefinite /\ talk[k].age >= FinalDays

\* The talks of the query whose window has elapsed.
Due == {k \in Talks : Is(k, "done") /\ ~talk[k].cleaned /\ Expired(k)}

\* A sweep that has marked a row keeps others from writing it.
Locked(k) == \E p \in Sweepers : k \in sweep[p].marked

-------------------------------------------------------------------------------
(* Publication, the passing of days, and the policy *)

\* job_transcode: the video, and advance() to uploading.
Renders(k) ==
  /\ Is(k, "working") /\ change.id # k /\ ~Locked(k)
  /\ rendered[k] < MaxRenderings
  /\ rendered' = [rendered EXCEPT ![k] = @ + 1]
  /\ final' = [final EXCEPT ![k] = rendered[k] + 1]
  /\ talk' = [talk EXCEPT ![k].status = "uploading", ![k].age = 0]
  /\ excused' = excused \ {k}
  /\ UNCHANGED <<publishing, overrides, change, sweep, job, changes, faults, aborted>>

\* job_publish fetches the video, or breaks the talk where there is none.
PublishReads(k) ==
  /\ Is(k, "uploading") /\ k \notin publishing /\ change.id # k
  /\ IF final[k] # 0
     THEN publishing' = publishing \cup {k} /\ UNCHANGED talk
     ELSE /\ ~Locked(k) /\ UNCHANGED publishing
          /\ talk' = [talk EXCEPT ![k].status = "broken", ![k].age = 0]
  /\ UNCHANGED <<final, rendered, overrides, change, sweep, job, changes, faults,
                 excused, aborted>>

PublishCommits(k) ==
  /\ k \in publishing /\ Is(k, "uploading") /\ ~Locked(k)
  /\ talk' = [talk EXCEPT ![k].status = "done", ![k].age = 0]
  /\ publishing' = publishing \ {k}
  /\ UNCHANGED <<final, rendered, overrides, change, sweep, job, changes, faults,
                 excused, aborted>>

DayPasses ==
  /\ \E k \in Talks : Is(k, "done") /\ talk[k].age < MaxAge
  /\ talk' = [k \in Talks |-> IF Is(k, "done") /\ talk[k].age < MaxAge
                              THEN [talk[k] EXCEPT !.age = @ + 1] ELSE talk[k]]
  /\ UNCHANGED <<final, sweep, job, faults, excused, making>>

UpdateEvent(o) ==
  /\ changes < MaxChanges /\ o # overrides
  /\ overrides' = o /\ changes' = changes + 1
  /\ UNCHANGED <<talk, final, rendered, publishing, change, sweep, job, faults,
                 excused, aborted>>

-------------------------------------------------------------------------------
(* abort_talk and delete_talk: the files first, the row at the end *)

ChangeWipes(op, k) ==
  /\ change = NoChange /\ talk[k] # None /\ changes < MaxChanges
  /\ change' = [op |-> op, id |-> k] /\ changes' = changes + 1
  /\ final' = [final EXCEPT ![k] = 0]
  /\ publishing' = publishing \ {k}
  /\ excused' = excused \cup {k}
  /\ UNCHANGED <<talk, rendered, overrides, sweep, job, faults, aborted>>

\* final_cleaned_at and updated_at stay as they are.
AbortCommits ==
  LET k == change.id
  IN  /\ change.op = "abort" /\ ~Locked(k)
      /\ talk' = [talk EXCEPT ![k].status = "working"]
      /\ aborted' = aborted \cup {k}
      /\ change' = NoChange
      /\ UNCHANGED <<final, rendered, publishing, overrides, sweep, job, changes,
                     faults, excused>>

DeleteCommits ==
  LET k == change.id
  IN  /\ change.op = "delete" /\ ~Locked(k)
      /\ talk' = [talk EXCEPT ![k] = None]
      /\ change' = NoChange
      /\ UNCHANGED <<final, rendered, publishing, overrides, sweep, job, changes,
                     faults, excused, aborted>>

\* Some job could not be cancelled: the files are gone, the row stays.
ChangeFails ==
  /\ change # NoChange
  /\ change' = NoChange
  /\ UNCHANGED <<talk, final, rendered, publishing, overrides, sweep, job, changes,
                 faults, excused, aborted>>

-------------------------------------------------------------------------------
(* run_retention_sweep *)

JobStarts(p) ==
  IF p = "periodic" THEN job.state = "scheduled" /\ job' = [job EXCEPT !.state = "started"]
  ELSE UNCHANGED job

\* The one query.  What it found decides, whatever happens to the rows later.
SweepReads(p) ==
  /\ sweep[p].phase = "idle" /\ JobStarts(p)
  /\ sweep' = [sweep EXCEPT ![p] =
       [NoSweep EXCEPT !.phase = "sweeping", !.todo = Due,
                       !.seen = [k \in Due |-> final[k]]]]
  /\ UNCHANGED <<talk, final, faults, excused, making>>

\* Talks are visited in the order of their keys.
Turn(p) == CHOOSE k \in sweep[p].todo : \A j \in sweep[p].todo : k <= j

Visits(p, phase) == sweep[p].phase = phase /\ sweep[p].todo # {}

Passes(p, marks) ==
  sweep' = [sweep EXCEPT ![p].phase = "sweeping", ![p].todo = @ \ {Turn(p)},
                         ![p].marked = @ \cup marks]

\* final/ of the next talk is deleted, or found to be empty.
SweepDeletes(p) ==
  LET k == Turn(p)
  IN  /\ Visits(p, "sweeping")
      /\ final' = [final EXCEPT ![k] = 0]
      /\ excused' = IF final[k] \in {0, sweep[p].seen[k]} THEN excused
                    ELSE excused \cup {k}
      /\ sweep' = [sweep EXCEPT ![p].phase = "flushing"]
      /\ UNCHANGED <<talk, job, faults, making>>

\* Faulty: the row is marked all the same.
SweepSkipsMarked(p) ==
  /\ Visits(p, "sweeping") /\ ~Locked(Turn(p))
  /\ "storage" \in Faults /\ faults < MaxFaults
  /\ faults' = faults + 1
  /\ Passes(p, {Turn(p)})
  /\ UNCHANGED <<talk, final, job, excused, making>>

\* Storage fails: the next sweep will see the talk again.
SweepSkips(p) ==
  /\ Visits(p, "sweeping")
  /\ "storage" \in Faults /\ faults < MaxFaults
  /\ faults' = faults + 1
  /\ Passes(p, {})
  /\ UNCHANGED <<talk, final, job, excused, making>>

\* The UPDATE of the row, whatever its status is by now; it may have to wait
\* for another sweep to commit.
SweepFlushes(p) ==
  /\ Visits(p, "flushing")
  /\ talk[Turn(p)] # None /\ ~Locked(Turn(p))
  /\ Passes(p, {Turn(p)})
  /\ UNCHANGED <<talk, final, job, faults, excused, making>>

\* Faulty: the job is not repeated.
SweepCommitsOnce(p) ==
  /\ sweep[p].phase = "sweeping" /\ sweep[p].todo = {}
  /\ talk' = [k \in Talks |-> IF k \in sweep[p].marked
                              THEN [talk[k] EXCEPT !.cleaned = TRUE] ELSE talk[k]]
  /\ sweep' = [sweep EXCEPT ![p] = NoSweep]
  /\ job' = IF p = "periodic" THEN [job EXCEPT !.state = "finished"] ELSE job
  /\ UNCHANGED <<final, faults, excused, making>>

\* The marks become visible; RQ schedules the periodic job again.
SweepCommits(p) ==
  /\ sweep[p].phase = "sweeping" /\ sweep[p].todo = {}
  /\ talk' = [k \in Talks |-> IF k \in sweep[p].marked
                              THEN [talk[k] EXCEPT !.cleaned = TRUE] ELSE talk[k]]
  /\ sweep' = [sweep EXCEPT ![p] = NoSweep]
  /\ job' = IF p = "periodic" THEN [job EXCEPT !.state = "scheduled"] ELSE job
  /\ UNCHANGED <<final, faults, excused, making>>

\* Faulty: a failed job is retried without end.
RetriedForever == [job EXCEPT !.state = "scheduled", !.retries = @ - 1]

\* The job after a failure.
Retried ==
  IF job.retries > 0
  THEN [job EXCEPT !.state = "scheduled", !.retries = @ - 1]
  ELSE [job EXCEPT !.state = "failed"]

\* The transaction is rolled back: no mark remains, the videos do not return.
RollsBack(p) ==
  /\ sweep' = [sweep EXCEPT ![p] = NoSweep]
  /\ job' = IF p = "periodic" THEN Retried ELSE job
  /\ UNCHANGED <<talk, final, excused, making>>

\* The UPDATE finds that the talk has been deleted.
SweepFails(p) ==
  /\ Visits(p, "flushing") /\ talk[Turn(p)] = None
  /\ RollsBack(p) /\ UNCHANGED faults

SweepDies(p) ==
  /\ sweep[p].phase # "idle" /\ "crash" \in Faults /\ faults < MaxFaults
  /\ faults' = faults + 1
  /\ RollsBack(p)

\* A worker starts: a job that waits or runs is kept, any other replaced.
RegisterPeriodic ==
  /\ job.state \notin {"scheduled", "started"}
  /\ job' = [state |-> "scheduled", retries |-> Retries]
  /\ UNCHANGED <<talk, final, sweep, faults, excused, making>>

-------------------------------------------------------------------------------
Sweeps(p) ==
  \/ SweepReads(p)
  \/ SweepDeletes(p)
  \/ SweepSkips(p)
  \/ SweepFlushes(p)
  \/ SweepCommits(p)
  \/ SweepFails(p)
  \/ SweepDies(p)

Steps ==
  \/ \E k \in Talks : Renders(k) \/ PublishReads(k) \/ PublishCommits(k)
  \/ DayPasses
  \/ \E o \in Overrides : UpdateEvent(o)
  \/ \E op \in {"abort", "delete"}, k \in Talks : ChangeWipes(op, k)
  \/ AbortCommits
  \/ DeleteCommits
  \/ ChangeFails
  \/ \E p \in Sweepers : Sweeps(p)
  \/ RegisterPeriodic

\* History: a new publication has never been past its window, but for one of
\* no days.
Past(k) == Is(k, "done") /\ overrides # Indefinite
             /\ talk[k].age >= (IF overrides = None THEN Default ELSE overrides)
Remembers ==
  lapsed' = {k \in lapsed : ~Is(k, "uploading")} \cup {k \in Talks : Past(k)'}

Next == Steps /\ Remembers

\* Sweeps run to their end, the periodic one again and again.
Proceeds(p) ==
  SweepDeletes(p) \/ SweepFlushes(p) \/ SweepCommits(p) \/ SweepFails(p)

Fairness ==
  /\ WF_vars(SweepReads("periodic") /\ Remembers)
  /\ \A p \in Sweepers : WF_vars(Proceeds(p) /\ Remembers)

Spec == Init /\ [][Next]_vars /\ Fairness
===============================================================================
