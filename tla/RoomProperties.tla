---------------------------- MODULE RoomProperties ----------------------------
(* What RoomRecording promises.  RoomsRegistered is in Schedule.            *)
EXTENDS RoomRecording

\* Every variable has its type.
RoomTypeOK ==
  /\ ScheduleTypeOK
  /\ work \in [Ids -> [ status : Status, detected : Nat \cup {None},
                        cut_start : Nat \cup {None}, cut_end : Nat \cup {None} ]]
  /\ raw \in [Ids -> Recordings \cup {None}]
  /\ spare \in [Ids -> Recordings \cup {None}]
  /\ \A s \in JobSlots : jobs[s].ids \subseteq Ids
  /\ orphaned \subseteq Detecting

\* Something is on its way that ends the detection of talk i: a job of RQ that
\* will work on it, or a request that is about to enqueue one.
Carried(i) ==
  \/ \E s \in JobSlots :
       \/ jobs[s].fn = "detect" /\ jobs[s].ids = {i}
            /\ (jobs[s].phase = "queued" \/ jobs[s].row)
       \/ jobs[s].fn = "room" /\ jobs[s].phase = "queued" /\ i \in jobs[s].ids
       \/ jobs[s].fn = "room" /\ jobs[s].phase = "loading" /\ i \in jobs[s].claimed
       \/ jobs[s].fn = "room" /\ jobs[s].phase = "sending" /\ i \in jobs[s].todo
  \/ attach.phase = "sending" /\ i \in Mine
  \/ attach.phase = "enqueuing" /\ i \in attach.todo

\* A talk says "detecting" only while somebody works on it, unless its job was
\* cancelled, killed or lost (orphaned): the handlers that give up midway,
\* because Redis refuses, storage fails or the recording does not reach the
\* talk, put every talk they had claimed into another status.
DetectingIsCarried == \A i \in Detecting : i \in orphaned \/ Carried(i)

\* The bounds with which a talk enters its review, if there are any, are two
\* and lie within the recording that was measured, however the recording came to be attached and whatever
\* happened to the talk and its times meanwhile.  The exception are talks in
\* which two requests have met (mixed): one commits over columns that another has
\* changed since it read them, or attaches a recording while a job for another
\* one is on its way that the status does not tell of.
CutFitsFootage ==
  \A i \in Talks \ mixed :
    /\ work[i].status = "pending_approval"
    /\ ~(work[i].cut_start = None /\ work[i].cut_end = None)
    => /\ None \notin {work[i].detected, work[i].cut_start, work[i].cut_end}
       /\ work[i].cut_start < work[i].cut_end
       /\ work[i].cut_end <= work[i].detected

\* When staging a file for several talks ends without a commit, the recording
\* a talk had before is where it was, or still in the backup next to it.
FailedAttachKeepsFootage ==
  [][attach.phase = "staging" /\ attach'.phase = "idle" =>
       \A i \in attach.backed :
         spare[i] # None => raw'[i] = spare[i] \/ spare'[i] = spare[i]]_vars

\* Aborting or deleting a talk, or giving it another recording, may take down
\* the download of a recording for the whole room.  It never costs another talk
\* the detection that waits for it alone.
OthersKeepTheirDetection ==
  [][\A s \in JobSlots :
       LET i == FirstOf(jobs[s].ids)
       IN  /\ jobs[s].fn = "detect" /\ jobs[s].phase = "queued" /\ i \in Detecting
           /\ jobs'[s].fn # "detect"
           => \/ abort'.id = i
              \/ \E e \in Deleters : i \in edit'[e].ids
              \/ i \in DOMAIN attach'.seen]_vars

\* Detection ends: every talk that says "detecting" leaves that status, unless
\* its job is cancelled, killed or lost.
DetectingEnds ==
  \A i \in Ids : (i \in Detecting) ~> (i \notin Detecting \/ i \in orphaned)
===============================================================================
