-------------------------- MODULE ApiClientProperties --------------------------
(* What ApiClients promises.                                                *)
EXTENDS ApiClients

\* Every variable has its type.
ClientTypeOK ==
  /\ client \in [ClientIds -> ClientRow \cup {None}]
  /\ Live \subseteq used /\ used \subseteq ClientIds
  /\ UNION {client[c].events : c \in Live} \subseteq events
  /\ \A r \in Slots : req[r].event \in events \cup {None} \/ req[r].op = "event"
  /\ \A job \in jobs : job.attempt \in 1..2 /\ job.no \in 1..told
  /\ got \in PerNotice /\ lost \in PerNotice /\ failed \in PerNotice
  /\ escaped \subseteq ClientIds \X (1..MaxNotices)

\* "At most 1 active API key per event" (create_event_api_key): it has one,
\* however keys are created, revoked, taken out of a client of several events
\* or split off for a webhook, unless a request changed the event's keys that
\* had loaded them before another one did, or the command line gave it one
\* more (overtaken).
OneKey == \A e \in Events \ overtaken : Cardinality(OwnClients(e)) <= 1

\* What client c has of event e: access and the address for its notices.
Reach(c, e) ==
  IF Exists(c) /\ (client[c].platform \/ e \in client[c].events)
  THEN <<client[c].url, client[c].secret>> ELSE <<>>

\* Keys and webhooks of one event are settled without the others: a request
\* about an event never touches what a client has of another event, although
\* clients may share both, unless the client's events changed since the
\* request loaded them.  Only the client itself sets its webhook for all.
EventsAreSeparate ==
  [][\A c \in ClientIds, e \in Events :
       Exists(c) /\ Reach(c, e) # Reach(c, e)' =>
         \E r \in Slots :
           /\ req[r] # Idle /\ req'[r] = Idle
           /\ req[r].event = e \/ req[r].op = "own" \/ c \in Outdated(r)]_vars

\* There has been one attempt to give client c notice n, and no 2xx came back.
TriedInVain(c, n) ==
  /\ got[c][n] + failed[c][n] = 1
  /\ failed[c][n] + lost[c][n] = 1 \/ <<c, n>> \in escaped

TriedAgain(c, n) ==
  \E job \in jobs : job.client = c /\ job.no = n /\ job.attempt = 2

\* A client gets a notice once, and a second time only if it did not accept it
\* the first time; two attempts are all.  After one in vain there is another,
\* unless the job ended in the middle of it (escaped): a dead worker, or an
\* answer that took too long, for which see FailureIsRetried.
NoticesArrive ==
  \A c \in ClientIds, n \in 1..told :
    /\ got[c][n] <= 1 + lost[c][n] /\ got[c][n] + failed[c][n] <= 2
    /\ TriedInVain(c, n) /\ <<c, n>> \notin escaped => TriedAgain(c, n)

-------------------------------------------------------------------------------
(* What comments and docstrings say, and the code does not keep to *)

\* job_deliver_webhook: "If delivery fails on the first attempt, retries once",
\* whatever kept the answer from coming, as long as the worker lives.
FailureIsRetried ==
  \A c \in ClientIds, n \in 1..told : TriedInVain(c, n) => TriedAgain(c, n)

\* create_event_api_key: "Enforce at most 1 active API key per event by revoking
\* previous key(s)": no request leaves an event with two keys, neither by giving
\* it a second one nor by giving it back to a key it was taken from.
KeysAreRevoked ==
  [][\A r \in Slots, e \in Events \ overtaken :
       req[r] # Idle /\ req'[r] = Idle => Cardinality(OwnClients(e)') <= 1]_vars
===============================================================================
