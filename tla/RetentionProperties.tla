-------------------------- MODULE RetentionProperties --------------------------
(* What Retention promises.                                                 *)
EXTENDS Retention

\* Every variable has its type.
RetentionTypeOK ==
  /\ talk \in [Talks -> TalkRow \cup {None}]
  /\ \A k \in Talks : final[k] \in {0, rendered[k]} /\ rendered[k] \in 0..MaxRenderings
  /\ publishing \subseteq Talks
  /\ overrides \in Overrides
  /\ \A p \in Sweepers : sweep[p].marked \subseteq DOMAIN sweep[p].seen
  /\ job.state \in {"scheduled", "started", "failed"} /\ job.retries \in 0..Retries

\* The video of a published talk is there as long as the talk has not been past
\* its window under the policy of some moment since its publication, whatever
\* the sweeps, the policy and other talks do.  The exceptions: an abort or a
\* deletion that gives up after it has removed the files, and a sweep that read
\* an earlier publication of the talk and comes to it after an abort.
VideoKept ==
  \A k \in Talks : Is(k, "done") /\ final[k] = 0 => k \in lapsed \cup excused

\* A row marked as cleaned has no video, so that no sweep passes one over,
\* unless the talk has been aborted since: nothing takes the mark off again.
CleanedMeansGone ==
  \A k \in Talks : talk[k] # None /\ talk[k].cleaned /\ final[k] # 0 => k \in aborted

\* The publication of talk k is past its window, and still to be removed or
\* marked as removed.
Unswept(k) ==
  Is(k, "done") /\ Expired(k) /\ (final[k] # 0 \/ ~talk[k].cleaned)

\* A talk that was aborted after a sweep and published again: it has been
\* marked before, and sweeps leave marked talks out.
MarkedBefore(k) == k \in aborted /\ Is(k, "done") /\ talk[k].cleaned

\* No publication but those of talks marked before stays past its window for
\* ever: a sweep removes it and marks it in the end, although sweeps skip
\* talks, fail, are rolled back and wait for each other; unless the periodic
\* job has used up its retries and no worker has been started since.  For the
\* talks marked before see SweepsTheExpired.
ExpiredIsSwept ==
  \A k \in Talks : []<>(~Unswept(k) \/ MarkedBefore(k) \/ job.state = "failed")

-------------------------------------------------------------------------------
(* What the docstring of run_retention_sweep says, and the code does not keep *)

\* It will "Sweep and delete final/ storage for done talks past their retention
\* window": a sweep takes up each of them, however often it was published, and
\* every video it deletes belongs to a publication that has been past its
\* window.
SweepsTheExpired ==
  [][\A k \in Talks :
       /\ \A p \in Sweepers :
            SweepReads(p) /\ Is(k, "done") /\ Expired(k) /\ final[k] # 0
            => k \in sweep'[p].todo
       /\ final[k] # 0 /\ final'[k] = 0 /\ change' = change => k \in lapsed]_vars
===============================================================================
