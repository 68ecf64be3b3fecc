------------------------------ MODULE ApiClients ------------------------------
(***************************************************************************)
(* The API clients of veditor: their keys, the events they may reach, and  *)
(* the webhooks that tell them of their talks (app/routes/events.py,       *)
(* app/routes/client.py, app/webhook.py, job_deliver_webhook).             *)
(*                                                                         *)
(* No handler locks a row.  Each loads the clients it is about, works out  *)
(* new values from what it loaded and commits; event_ids is one column, so *)
(* a commit replaces the whole list.                                       *)
(***************************************************************************)
EXTENDS Naturals, FiniteSets

CONSTANTS
  Events,
  ClientIds,   \* primary keys, given in order and never twice
  Urls,
  Secrets,     \* what callers give; a generated secret is Generated
  Initial,     \* the clients at the start
  Slots,       \* requests in flight at one time
  MaxOccasions, \* bound on the requests and notices of one behaviour
  MaxNotices,  \* bound on the notices among them
  Faults,      \* what may go wrong: "enqueue", "timeout", "crash"
  Generated,
  None

ClientRow ==
  [ events : SUBSET Events, platform : BOOLEAN, url : Urls \cup {None},
    secret : Secrets \cup {Generated, None} ]

ASSUME IdsAssumption == ClientIds \subseteq Nat \ {0}
ASSUME ClientsAssumption == Initial \in [ClientIds -> ClientRow \cup {None}]
ASSUME KeysAssumption ==
  \A c, d \in ClientIds :
    /\ Initial[c] # None /\ ~Initial[c].platform
    /\ Initial[d] # None /\ ~Initial[d].platform
    /\ Initial[c].events \cap Initial[d].events # {}
    => c = d
ASSUME FaultsAssumption == Faults \subseteq {"enqueue", "timeout", "crash"}
ASSUME BoundsAssumption == MaxNotices \in Nat
ASSUME NoneAssumption == None \notin ClientRow \cup Events

VARIABLES
  client,  \* the rows, None where there is none
  used,    \* the primary keys given so far
  events,  \* the events that exist
  req,     \* what each request in flight has loaded
  asked,   \* number of requests so far
  jobs,    \* the jobs job_deliver_webhook in RQ
  told,    \* number of occasions so far
  got,     \* history: got[c][n], how often client c received notice n
  lost,    \* history: lost[c][n], how often c had notice n and no 2xx came back
  failed,  \* history: failed[c][n], how many attempts did not reach c
  escaped, \* history: the <<c, n>> whose job ended in the middle of an attempt
  overtaken \* history: the events whose keys changed behind a request's back,
             \* or that got one more from the command line

notices == <<jobs, told, got, lost, failed, escaped>>
vars ==
  <<client, used, events, req, asked, overtaken, jobs, told, got, lost, failed, escaped>>

PerNotice == [ClientIds -> [1..MaxNotices -> Nat]]

Idle ==
  [ op |-> "idle", event |-> None, seen |-> <<>>, url |-> None, secret |-> None,
    donor |-> None ]

Exists(c) == client[c] # None
Live == {c \in ClientIds : Exists(c)}

Init ==
  /\ client = Initial
  /\ used = Live
  /\ events = UNION {client[c].events : c \in Live}
  /\ req = [r \in Slots |-> Idle]
  /\ asked = 0
  /\ jobs = {}
  /\ told = 0
  /\ got = [c \in ClientIds |-> [n \in 1..MaxNotices |-> 0]]
  /\ lost = got
  /\ failed = got
  /\ escaped = {}
  /\ overtaken = {}

NextId == CHOOSE c \in ClientIds \ used : \A d \in ClientIds \ used : c <= d

\* The keys of one event.  A key of the whole platform belongs to none.
OwnClients(e) == {c \in Live : ~client[c].platform /\ e \in client[c].events}

\* A request begins: it loads the rows of S.
Begins(r, fields, S) ==
  /\ req[r] = Idle /\ asked + told < MaxOccasions
  /\ req' = [req EXCEPT ![r] = [fields EXCEPT !.seen = [c \in S |-> client[c]]]]
  /\ asked' = asked + 1
  /\ UNCHANGED <<client, used, events, overtaken, notices>>

Seen(r) == DOMAIN req[r].seen

\* The rows of which request r holds another list of events than the table.
Outdated(r) == {c \in Seen(r) : Exists(c) /\ client[c].events # req[r].seen[c].events}

\* History: the events of which request r has not seen all keys, or of which
\* it holds keys that are none any more.
Overtakes(r) ==
  {e \in {req[r].event} \ {None} : ~(OwnClients(e) \subseteq Seen(r))}
  \cup UNION {req[r].seen[c].events \ client[c].events : c \in Outdated(r)}

Ends(r) ==
  /\ req' = [req EXCEPT ![r] = Idle]
  /\ overtaken' = overtaken \cup Overtakes(r)
  /\ UNCHANGED <<asked, notices>>

\* An UPDATE names only the columns whose value differs from the one loaded.
FlushRow(loaded, new, current) ==
  [f \in DOMAIN new |-> IF new[f] = loaded[f] THEN current[f] ELSE new[f]]

\* What the session of request r holds for client c, in new, as it is written.
Flushed(r, c, new) == FlushRow(req[r].seen[c], new, client[c])

-------------------------------------------------------------------------------
(* Keys *)

\* The webhook of an earlier key goes over to the new one where the caller
\* gives none; which of several is up to the database.
CreateKeyReads(r, e, url, secret) ==
  LET hooked == {c \in OwnClients(e) : client[c].url # None}
  IN  /\ e \in events
      /\ \E donor \in IF hooked = {} THEN {None} ELSE hooked :
           Begins(r, [ Idle EXCEPT !.op = "create", !.event = e, !.url = url,
                         !.secret = secret, !.donor = donor ], OwnClients(e))

Or(given, default) == IF given # None THEN given ELSE default

NewKey(r) ==
  LET hook == IF req[r].donor = None THEN [url |-> None, secret |-> None]
              ELSE [ url |-> req[r].seen[req[r].donor].url,
                     secret |-> req[r].seen[req[r].donor].secret ]
  IN  [ events |-> {req[r].event}, platform |-> FALSE,
        url |-> Or(req[r].url, hook.url), secret |-> Or(req[r].secret, hook.secret) ]

\* Faulty: a client that has other events is deleted with the rest.
StrippedWhole(r, c) == None

\* The client without the event: its list shortened, or the row deleted.
Stripped(r, c) ==
  LET rest == req[r].seen[c].events \ {req[r].event}
  IN  IF rest = {} \/ ~Exists(c) THEN None
      ELSE [client[c] EXCEPT !.events = rest]

\* An UPDATE that finds no row fails the request; a DELETE that finds none
\* does not.
Shared(r, c) == req[r].seen[c].events # {req[r].event}
Lost(r) == \E c \in Seen(r) : Shared(r, c) /\ ~Exists(c)

\* Faulty: a client that has other events keeps this one as well.
RevokedUnshared(r) == {c \in Seen(r) : ~Shared(r, c)}

\* Creating a key revokes all the others of the event.
Revoked(r) == Seen(r)

CreateKeyWrites(r) ==
  /\ req[r].op = "create" /\ ~Lost(r) /\ used # ClientIds
  /\ client' = [c \in ClientIds |->
       IF c = NextId THEN NewKey(r)
       ELSE IF c \in Revoked(r) THEN Stripped(r, c) ELSE client[c]]
  /\ used' = used \cup {NextId}
  /\ Ends(r) /\ UNCHANGED events

RevokeKeyReads(r, e, c) ==
  /\ c \in OwnClients(e)
  /\ Begins(r, [Idle EXCEPT !.op = "revoke", !.event = e], {c})

RevokeKeyWrites(r) ==
  /\ req[r].op = "revoke" /\ ~Lost(r)
  /\ client' = [c \in ClientIds |-> IF c \in Seen(r) THEN Stripped(r, c) ELSE client[c]]
  /\ Ends(r) /\ UNCHANGED <<used, events>>

\* create_event for a person: an event without a key.
CreateEvent(e) ==
  /\ e \in Events \ events
  /\ events' = events \cup {e}
  /\ UNCHANGED <<client, used, req, asked, overtaken, notices>>

\* create_client on the command line, for an event that exists or a new one.
\* It revokes no other key.
CreateClient(e, url, secret) ==
  /\ e \in Events /\ used # ClientIds /\ asked + told < MaxOccasions
  /\ url = None => secret = None
  /\ client' = [client EXCEPT ![NextId] =
       [ events |-> {e}, platform |-> FALSE, url |-> url,
         secret |-> IF url = None THEN None ELSE Or(secret, Generated) ]]
  /\ used' = used \cup {NextId}
  /\ events' = events \cup {e}
  /\ asked' = asked + 1
  /\ overtaken' = overtaken \cup (IF OwnClients(e) = {} THEN {} ELSE {e})
  /\ UNCHANGED <<req, notices>>

\* A machine creates an event: any of them with create_event, one that is not
\* the platform's with import_schedule too, where nobody has created it.
MachineCreatesReads(r, c, e) ==
  /\ c \in Live /\ e \in Events \ events
  /\ Begins(r, [Idle EXCEPT !.op = "event", !.event = e], {c})

MachineCreatesWrites(r) ==
  /\ req[r].op = "event" /\ Seen(r) \subseteq Live /\ req[r].event \notin events
  /\ events' = events \cup {req[r].event}
  /\ client' = [c \in ClientIds |->
       IF c \in Seen(r)
       THEN [client[c] EXCEPT !.events = req[r].seen[c].events \cup {req[r].event}]
       ELSE client[c]]
  /\ Ends(r) /\ UNCHANGED used

-------------------------------------------------------------------------------
(* Webhooks *)

\* _get_event_client: one that has a webhook, if there is one.
EventClients(e) ==
  LET hooked == {c \in OwnClients(e) : client[c].url # None}
  IN  IF hooked # {} THEN hooked ELSE OwnClients(e)

SetWebhookReads(r, e, url, secret) ==
  /\ e \in events
  /\ \E S \in IF EventClients(e) = {} THEN {{}} ELSE {{c} : c \in EventClients(e)} :
       Begins(r, [Idle EXCEPT !.op = "set", !.event = e, !.url = url, !.secret = secret], S)

OldSecret(r) ==
  LET known == {req[r].seen[c].secret : c \in Seen(r)} \ {None}
  IN  IF known = {} THEN Generated ELSE CHOOSE s \in known : TRUE

Hooked(row, url, secret) == [row EXCEPT !.url = url, !.secret = secret]

\* A client with several events keeps its webhook; this event leaves it for
\* one of its own.  So it does if there is no client at all.
SetWebhookDecouples(r) ==
  /\ req[r].op = "set" /\ ~Lost(r) /\ used # ClientIds
  /\ \A c \in Seen(r) : Shared(r, c)
  /\ client' = [c \in ClientIds |->
       IF c = NextId
       THEN [ events |-> {req[r].event}, platform |-> FALSE, url |-> req[r].url,
              secret |-> Or(req[r].secret, OldSecret(r)) ]
       ELSE IF c \in Seen(r) THEN Stripped(r, c) ELSE client[c]]
  /\ used' = used \cup {NextId}
  /\ Ends(r) /\ UNCHANGED events

SetWebhookWrites(r) ==
  /\ req[r].op = "set" /\ Seen(r) # {} /\ Seen(r) \subseteq Live
  /\ \A c \in Seen(r) : ~Shared(r, c)
  /\ client' = [c \in ClientIds |->
       IF c \in Seen(r)
       THEN Flushed(r, c, Hooked(req[r].seen[c], req[r].url, Or(req[r].secret, OldSecret(r))))
       ELSE client[c]]
  /\ Ends(r) /\ UNCHANGED <<used, events>>

ClearWebhookReads(r, e) ==
  \E c \in EventClients(e) : Begins(r, [Idle EXCEPT !.op = "clear", !.event = e], {c})

\* The event leaves a client that has others; else the webhook is cleared.
ClearWebhookWrites(r) ==
  /\ req[r].op = "clear" /\ Seen(r) \subseteq Live
  /\ client' = [c \in ClientIds |->
       IF c \notin Seen(r) THEN client[c]
       ELSE IF Shared(r, c) THEN Stripped(r, c)
       ELSE Flushed(r, c, Hooked(req[r].seen[c], None, None))]
  /\ Ends(r) /\ UNCHANGED <<used, events>>

\* register_webhook and delete_webhook, called with the key of the client.
ClientWebhookReads(r, c, url, secret) ==
  /\ c \in Live
  /\ Begins(r, [Idle EXCEPT !.op = "own", !.url = url, !.secret = secret], {c})

ClientWebhookWrites(r) ==
  /\ req[r].op = "own" /\ Seen(r) \subseteq Live
  /\ client' = [c \in ClientIds |->
       IF c \in Seen(r)
       THEN Flushed(r, c, Hooked(req[r].seen[c], req[r].url, req[r].secret))
       ELSE client[c]]
  /\ Ends(r) /\ UNCHANGED <<used, events>>

\* A row the request is to UPDATE has been deleted, or the event it is to
\* create has been created.
RequestFails(r) ==
  /\ \/ req[r].op \in {"create", "revoke", "set"} /\ Lost(r)
     \/ req[r].op \in {"set", "clear", "own", "event"} /\ ~(Seen(r) \subseteq Live)
     \/ req[r].op = "event" /\ req[r].event \in events
  /\ Ends(r) /\ UNCHANGED <<client, used, events>>

-------------------------------------------------------------------------------
(* Notices *)

Candidates(e) ==
  {c \in Live : /\ client[c].platform \/ e \in client[c].events
                /\ client[c].url # None /\ client[c].secret # None}

Notice(c, n) == [client |-> c, no |-> n, attempt |-> 1]

\* dispatch_talk_webhook: one job for each client, less those Redis refuses.
\* A job keeps the address and the secret of this moment: it stays a job for
\* the receiver that the client had then, whatever becomes of the client.
DispatchTalkWebhook(e, refused) ==
  /\ told < MaxNotices /\ asked + told < MaxOccasions /\ e \in events
  /\ refused \subseteq (IF "enqueue" \in Faults THEN Candidates(e) ELSE {})
  /\ told' = told + 1
  /\ jobs' = jobs \cup {Notice(c, told + 1) : c \in Candidates(e) \ refused}
  /\ UNCHANGED <<client, used, events, req, asked, overtaken, got, lost, failed, escaped>>

Counted(h, job) == [h EXCEPT ![job.client][job.no] = @ + 1]

Receives(job) == got' = Counted(got, job)

\* Faulty: the loop has no end.
TriesForever(job) == jobs' = (jobs \ {job}) \cup {[job EXCEPT !.attempt = @ + 1]}

\* One more attempt, then the job is abandoned.
TriesAgain(job) ==
  jobs' = (jobs \ {job}) \cup
          (IF job.attempt = 1 THEN {[job EXCEPT !.attempt = 2]} ELSE {})

\* Faulty: the loop goes on after an answer.
DeliversTwice(job) ==
  Receives(job) /\ TriesAgain(job) /\ UNCHANGED <<lost, failed, escaped>>

\* The receiver answers 2xx.
Delivers(job) ==
  Receives(job) /\ jobs' = jobs \ {job} /\ UNCHANGED <<lost, failed, escaped>>

\* There is no connection to the receiver.
NoConnection(job) ==
  /\ TriesAgain(job) /\ failed' = Counted(failed, job)
  /\ UNCHANGED <<got, lost, escaped>>

\* The receiver has the notice; it answers something else than 2xx or closes
\* the connection without an answer.
NotAccepted(job) ==
  /\ Receives(job) /\ TriesAgain(job) /\ lost' = Counted(lost, job)
  /\ UNCHANGED <<failed, escaped>>

\* The job ends without an answer.  The receiver may have the notice.
Escapes(job, received) ==
  /\ jobs' = jobs \ {job}
  /\ IF received THEN Receives(job) /\ UNCHANGED failed
     ELSE failed' = Counted(failed, job) /\ UNCHANGED got
  /\ escaped' = escaped \cup {<<job.client, job.no>>} /\ UNCHANGED lost

\* Waiting for the answer takes too long: the TimeoutError is none of the
\* exceptions the loop catches.
TimesOut(job, received) == "timeout" \in Faults /\ Escapes(job, received)

\* The worker dies.
Dies(job, received) == "crash" \in Faults /\ Escapes(job, received)

JobDeliverWebhook(job) ==
  /\ \/ Delivers(job)
     \/ NoConnection(job)
     \/ NotAccepted(job)
     \/ \E received \in BOOLEAN : TimesOut(job, received) \/ Dies(job, received)
  /\ UNCHANGED <<client, used, events, req, asked, overtaken, told>>

-------------------------------------------------------------------------------
GivenSecrets == Secrets \cup {None}

Starts(r) ==
  \/ \E e \in Events, url \in Urls \cup {None}, secret \in GivenSecrets :
       CreateKeyReads(r, e, url, secret)
  \/ \E e \in Events, c \in ClientIds : RevokeKeyReads(r, e, c)
  \/ \E e \in Events, c \in ClientIds : MachineCreatesReads(r, c, e)
  \/ \E e \in Events, url \in Urls, secret \in GivenSecrets :
       SetWebhookReads(r, e, url, secret)
  \/ \E e \in Events : ClearWebhookReads(r, e)
  \/ \E c \in ClientIds, url \in Urls, secret \in Secrets \cup {Generated} :
       ClientWebhookReads(r, c, url, secret)
  \/ \E c \in ClientIds : ClientWebhookReads(r, c, None, None)

Writes(r) ==
  \/ CreateKeyWrites(r)
  \/ RevokeKeyWrites(r)
  \/ MachineCreatesWrites(r)
  \/ SetWebhookDecouples(r)
  \/ SetWebhookWrites(r)
  \/ ClearWebhookWrites(r)
  \/ ClientWebhookWrites(r)
  \/ RequestFails(r)

Next ==
  \/ \E r \in Slots : Starts(r) \/ Writes(r)
  \/ \E e \in Events : CreateEvent(e)
  \/ \E e \in Events, url \in Urls \cup {None}, secret \in GivenSecrets :
       CreateClient(e, url, secret)
  \/ \E e \in Events, refused \in SUBSET ClientIds : DispatchTalkWebhook(e, refused)
  \/ \E job \in jobs : JobDeliverWebhook(job)

Spec == Init /\ [][Next]_vars
===============================================================================
