---------------------------- MODULE ApiClientProofs ----------------------------
(***************************************************************************)
(* Keys, webhooks and notices of API clients, for every number of clients, *)
(* events, requests and notices.  A request writes what it made of rows it *)
(* loaded earlier; RowsMove says all that its commit can do to a row, and  *)
(* RequestOK what is still true of the rows it loaded.                     *)
(***************************************************************************)
EXTENDS ApiClientProperties, FiniteSetTheorems, WellFoundedInduction, TLAPS

\* What a request may have loaded: the rows of some clients.
Loaded == UNION {[S -> ClientRow] : S \in SUBSET ClientIds}

\* The requests about the keys or the webhook of one event.
OfEvent == {"create", "revoke", "set", "clear"}

\* What a slot may hold.
Request ==
  [ op : OfEvent \cup {"idle", "event", "own"}, event : Events \cup {None},
    seen : Loaded, url : Urls \cup {None}, secret : Secrets \cup {Generated, None},
    donor : ClientIds \cup {None} ]

\* A job_deliver_webhook: which client, which notice, which attempt.
Job == [client : ClientIds, no : 1..told, attempt : 1..2]

\* The types, with identifiers that are used up and never given again.
TypesOK ==
  /\ client \in [ClientIds -> ClientRow \cup {None}]
  /\ Live \subseteq used /\ used \subseteq ClientIds
  /\ events \subseteq Events
  /\ req \in [Slots -> Request]
  /\ told \in 0..MaxNotices /\ jobs \subseteq Job
  /\ got \in PerNotice /\ lost \in PerNotice /\ failed \in PerNotice
  /\ escaped \subseteq ClientIds \X (1..MaxNotices)

\* Clients have events that exist.
EventsOK == \A c \in Live : client[c].events \subseteq events

\* What a request loaded: keys given before, of events that exist; and a client
\* that is the platform's stays so.
RequestOK(r) ==
  /\ Seen(r) \subseteq used
  /\ req[r].donor # None => req[r].donor \in Seen(r)
  /\ req[r].op \in OfEvent => req[r].event \in events
  /\ req[r].op = "event" => req[r].event \in Events /\ \E c \in ClientIds : Seen(r) = {c}
  /\ req[r].op \in {"idle", "own"} => req[r].event = None
  /\ \A c \in Seen(r) :
       /\ req[r].op \in OfEvent => ~req[r].seen[c].platform
       /\ req[r].seen[c].events \subseteq events
       /\ Exists(c) => client[c].platform = req[r].seen[c].platform

\* Every request has what its kind needs.
RequestsOK == \A r \in Slots : RequestOK(r)

\* OneKey without counting.
KeysOK ==
  \A e \in Events \ overtaken : \A c, d \in OwnClients(e) : c = d

\* One attempt has been in vain, and its job did not end with it.
Unanswered(c, n) ==
  /\ got[c][n] + failed[c][n] = 1 /\ failed[c][n] + lost[c][n] = 1
  /\ <<c, n>> \notin escaped

\* A client has at most one job for a notice.  The counts of a first attempt
\* are zero, those of a second one say how the first one ended, and those of a
\* notice without a job are final.
NoticesOK ==
  /\ \A j, k \in jobs : j.client = k.client /\ j.no = k.no => j = k
  /\ \A c \in ClientIds, n \in 1..MaxNotices :
       LET mine == {j \in jobs : j.client = c /\ j.no = n}
       IN  /\ n > told => got[c][n] = 0 /\ lost[c][n] = 0 /\ failed[c][n] = 0
           /\ got[c][n] <= 1 + lost[c][n] /\ got[c][n] + failed[c][n] <= 2
           /\ Unanswered(c, n) => mine # {}
           /\ \A j \in mine :
                IF j.attempt = 1
                THEN got[c][n] = 0 /\ lost[c][n] = 0 /\ failed[c][n] = 0
                ELSE got[c][n] + failed[c][n] = 1 /\ got[c][n] <= lost[c][n]

\* The inductive invariant.
IInv == TypesOK /\ EventsOK /\ RequestsOK /\ KeysOK /\ NoticesOK

-------------------------------------------------------------------------------
(* What requests have loaded *)

\* The identifier a new client gets has not been given before.
LEMMA NextIdIsNew ==
  ASSUME used # ClientIds, used \subseteq ClientIds
  PROVE  NextId \in ClientIds \ used
<1> DEFINE T == ClientIds \ used
<1>1. T # {} /\ T \subseteq Nat
  BY IdsAssumption
<1>2. PICK k \in T : \A j \in T : ~ (<<j, k>> \in OpToRel(<, Nat))
  BY <1>1, NatLessThanWellFounded, WFMin
<1>3. ASSUME NEW j \in T PROVE k <= j
  <2>1. j \in Nat /\ k \in Nat
    BY <1>1
  <2>2. j < k => <<j, k>> \in {ss \in Nat \X Nat : ss[1] < ss[2]}
    BY <2>1
  <2>3. ~(j < k)
    BY <1>2, <2>2 DEF OpToRel
  <2> QED
    BY <2>1, <2>3
<1> QED
  BY <1>3 DEF NextId

\* A client that exists has a row of the table.
LEMMA RowOf ==
  ASSUME TypesOK, NEW c \in ClientIds, Exists(c)
  PROVE  client[c] \in ClientRow
  BY DEF TypesOK, Exists

\* What a request has loaded are rows of clients.
LEMMA SeenAre ==
  ASSUME TypesOK, NEW r \in Slots
  PROVE  /\ req[r] \in Request /\ Seen(r) \subseteq ClientIds
         /\ \A c \in Seen(r) : req[r].seen[c] \in ClientRow
<1>1. req[r] \in Request /\ req[r].seen \in Loaded
  BY DEF TypesOK, Request
<1>2. PICK S \in SUBSET ClientIds : req[r].seen \in [S -> ClientRow]
  BY <1>1 DEF Loaded
<1> QED
  BY <1>1, <1>2 DEF Seen

\* A slot that is not in use has loaded nothing.
LEMMA IdleIsRequest == Idle \in Request /\ DOMAIN Idle.seen = {}
<1>1. <<>> \in [{} -> ClientRow] /\ DOMAIN <<>> = {}
  OBVIOUS
<1>2. <<>> \in Loaded
  BY <1>1 DEF Loaded
<1> QED
  BY <1>1, <1>2 DEF Idle, Request

-------------------------------------------------------------------------------
(* What a commit does to the rows *)

\* The event of the request leaves the client, which disappears with its last.
Strips(r, c) ==
  /\ req[r].op \in OfEvent /\ c \in Seen(r) /\ Exists(c)
  /\ IF client'[c] = None
     THEN req[r].seen[c].events \subseteq {req[r].event}
     ELSE /\ client'[c] \in ClientRow
          /\ client'[c].events = req[r].seen[c].events \ {req[r].event}
          /\ client'[c].platform = client[c].platform
          /\ client'[c].url = client[c].url /\ client'[c].secret = client[c].secret

\* The client gets another webhook.
Hooks(r, c) ==
  /\ req[r].op \in OfEvent \cup {"own"} /\ c \in Seen(r) /\ Exists(c)
  /\ req[r].op # "own" => req[r].seen[c].events = {req[r].event}
  /\ client'[c] \in ClientRow
  /\ client'[c].events = client[c].events /\ client'[c].platform = client[c].platform

\* The client gets the event it has created.
Joins(r, c) ==
  /\ req[r].op = "event" /\ c \in Seen(r) /\ Exists(c)
  /\ client'[c] \in ClientRow
  /\ client'[c].events = req[r].seen[c].events \cup {req[r].event}
  /\ client'[c].platform = client[c].platform
  /\ client'[c].url = client[c].url /\ client'[c].secret = client[c].secret

\* A new client, for the event of the request.
Comes(r, c) ==
  /\ req[r].op \in OfEvent /\ c \notin used /\ used' = used \cup {c}
  /\ client'[c] \in ClientRow
  /\ client'[c].events = {req[r].event} /\ ~client'[c].platform
  /\ \A d \in Seen(r) : client'[d] = None \/ req[r].event \notin client'[d].events

\* Each row stays, or is stripped, hooked, joined or created by the request in slot r.
RowsMove(r) ==
  /\ client' \in [ClientIds -> ClientRow \cup {None}]
  /\ used \subseteq used' /\ used' \subseteq ClientIds
  /\ \A c \in ClientIds :
       client'[c] = client[c] \/ Strips(r, c) \/ Hooks(r, c) \/ Joins(r, c) \/ Comes(r, c)
  /\ IF req[r].op = "event"
     THEN events' \in {events, events \cup {req[r].event}} /\ req[r].event \notin events
          /\ \A c \in ClientIds : Joins(r, c) => req[r].event \in events'
     ELSE UNCHANGED events

\* A client that loses the event is left a row, or is deleted.
LEMMA StrippedIs ==
  ASSUME IInv, NEW r \in Slots, req[r].op \in OfEvent, NEW c \in Seen(r),
         client'[c] = Stripped(r, c)
  PROVE  /\ Stripped(r, c) \in ClientRow \cup {None}
         /\ client'[c] = client[c] \/ Strips(r, c)
         /\ client'[c] = None \/ req[r].event \notin client'[c].events
<1> DEFINE rest == req[r].seen[c].events \ {req[r].event}
<1>1. TypesOK /\ c \in ClientIds /\ req[r].seen[c] \in ClientRow
  BY SeenAre DEF IInv
<1>2. CASE ~Exists(c)
  BY <1>2 DEF Stripped, Exists
<1>3. CASE Exists(c) /\ rest = {}
  BY <1>3 DEF Stripped, Strips
<1>4. CASE Exists(c) /\ rest # {}
  <2>1. client[c] \in ClientRow /\ rest \subseteq Events
    BY <1>1, <1>4, RowOf DEF ClientRow
  <2>2. Stripped(r, c) = [client[c] EXCEPT !.events = rest]
    BY <1>4 DEF Stripped
  <2>3. /\ Stripped(r, c) \in ClientRow /\ Stripped(r, c).events = rest
        /\ Stripped(r, c).platform = client[c].platform
        /\ Stripped(r, c).url = client[c].url /\ Stripped(r, c).secret = client[c].secret
    BY <2>1, <2>2 DEF ClientRow
  <2>4. Stripped(r, c) # None
    BY <2>3, NoneAssumption
  <2> QED
    BY <1>4, <2>3, <2>4 DEF Strips
<1> QED
  BY <1>2, <1>3, <1>4

\* A client whose webhook is set is left a row, with its events as they are.
LEMMA HookedIs ==
  ASSUME IInv, NEW r \in Slots, NEW c \in Seen(r), Exists(c),
         NEW url \in Urls \cup {None}, NEW secret \in Secrets \cup {Generated, None}
  PROVE  LET row == Flushed(r, c, Hooked(req[r].seen[c], url, secret))
         IN  /\ row \in ClientRow /\ row.events = client[c].events
             /\ row.platform = client[c].platform
<1> DEFINE seen == req[r].seen[c]
           new == Hooked(seen, url, secret)
           row == Flushed(r, c, new)
<1>1. /\ c \in ClientIds /\ seen \in ClientRow /\ client[c] \in ClientRow
      /\ client[c].platform = seen.platform
  BY SeenAre, RowOf DEF IInv, RequestsOK, RequestOK
<1>2. /\ new \in ClientRow /\ new.events = seen.events /\ new.platform = seen.platform
  BY <1>1 DEF Hooked, ClientRow
<1> HIDE DEF new
<1>3. row = [f \in {"events", "platform", "url", "secret"} |->
               IF new[f] = seen[f] THEN client[c][f] ELSE new[f]]
  BY <1>2 DEF Flushed, FlushRow, ClientRow
<1>4. /\ row.events = client[c].events /\ row.platform = client[c].platform
      /\ row.url \in Urls \cup {None} /\ row.secret \in Secrets \cup {Generated, None}
  BY <1>1, <1>2, <1>3 DEF ClientRow
<1>5. row = [events |-> row.events, platform |-> row.platform, url |-> row.url,
             secret |-> row.secret]
  BY <1>3
<1>6. row.events \in SUBSET Events /\ row.platform \in BOOLEAN
  BY <1>1, <1>4 DEF ClientRow
<1> HIDE DEF row
<1>7. row \in ClientRow
  BY <1>4, <1>5, <1>6 DEF ClientRow
<1> QED
  BY <1>4, <1>7 DEF row, new

\* A key is created (create_event_key).
LEMMA CreateKeyWritesRows ==
  ASSUME IInv, NEW r \in Slots, CreateKeyWrites(r)
  PROVE  RowsMove(r)
<1>1. TypesOK /\ req[r] \in Request /\ Seen(r) \subseteq ClientIds /\ RequestOK(r)
  BY SeenAre DEF IInv, RequestsOK
<1>2. NextId \in ClientIds /\ NextId \notin used /\ NextId \notin Seen(r)
  BY <1>1, NextIdIsNew DEF TypesOK, RequestOK, CreateKeyWrites
<1>3. req[r].op = "create" /\ req[r].event \in events /\ req[r].op \in OfEvent
  BY <1>1 DEF CreateKeyWrites, RequestOK, OfEvent
<1>4. NewKey(r) \in ClientRow /\ NewKey(r).events = {req[r].event} /\ ~NewKey(r).platform
  <2>1. \A c \in Seen(r) : /\ req[r].seen[c].url \in Urls \cup {None}
                           /\ req[r].seen[c].secret \in Secrets \cup {Generated, None}
    BY <1>1, SeenAre DEF ClientRow
  <2>2. req[r].event \in Events /\ req[r].url \in Urls \cup {None}
        /\ req[r].secret \in Secrets \cup {Generated, None}
    BY <1>1, <1>3 DEF TypesOK, Request
  <2>3. req[r].donor # None => req[r].donor \in Seen(r)
    BY <1>1 DEF RequestOK
  <2> QED
    BY <2>1, <2>2, <2>3 DEF NewKey, Or, ClientRow
<1>5. \A c \in Seen(r) : client'[c] = Stripped(r, c)
  BY <1>1, <1>2 DEF CreateKeyWrites, Revoked
<1>6. \A c \in Seen(r) :
        /\ Stripped(r, c) \in ClientRow \cup {None}
        /\ client'[c] = client[c] \/ Strips(r, c)
        /\ client'[c] = None \/ req[r].event \notin client'[c].events
  BY <1>3, <1>5, StrippedIs
<1>7. used' = used \cup {NextId} /\ UNCHANGED events
  BY DEF CreateKeyWrites
<1>8. client'[NextId] = NewKey(r)
  BY <1>2 DEF CreateKeyWrites
<1>9. Comes(r, NextId)
  BY <1>2, <1>3, <1>4, <1>6, <1>7, <1>8 DEF Comes
<1>10. \A c \in ClientIds : c # NextId /\ c \notin Seen(r) => client'[c] = client[c]
  BY DEF CreateKeyWrites, Revoked
<1>11. client' \in [ClientIds -> ClientRow \cup {None}]
  <2>1. \A c \in ClientIds : client'[c] \in ClientRow \cup {None}
    BY <1>1, <1>4, <1>5, <1>6, <1>8, <1>10 DEF TypesOK
  <2> QED
    BY <2>1 DEF CreateKeyWrites
<1> QED
  BY <1>1, <1>2, <1>3, <1>6, <1>7, <1>9, <1>10, <1>11 DEF RowsMove, TypesOK, OfEvent

\* Rows that are stripped, and no others.
LEMMA StripsRows ==
  ASSUME IInv, NEW r \in Slots, req[r].op \in OfEvent, UNCHANGED <<used, events>>,
         client' = [c \in ClientIds |-> IF c \in Seen(r) THEN Stripped(r, c) ELSE client[c]]
  PROVE  RowsMove(r)
<1>1. TypesOK /\ Seen(r) \subseteq ClientIds
  BY SeenAre DEF IInv
<1>2. \A c \in Seen(r) : client'[c] = Stripped(r, c)
  BY <1>1
<1>3. \A c \in Seen(r) :
        /\ Stripped(r, c) \in ClientRow \cup {None}
        /\ client'[c] = client[c] \/ Strips(r, c)
  BY <1>2, StrippedIs
<1>4. \A c \in ClientIds : c \notin Seen(r) => client'[c] = client[c]
  OBVIOUS
<1>5. client' \in [ClientIds -> ClientRow \cup {None}]
  <2>1. \A c \in ClientIds : client'[c] \in ClientRow \cup {None}
    BY <1>1, <1>2, <1>3, <1>4 DEF TypesOK
  <2> QED
    BY <2>1
<1> QED
  BY <1>1, <1>3, <1>4, <1>5 DEF RowsMove, TypesOK, OfEvent

\* A key is revoked.
LEMMA RevokeKeyWritesRows ==
  ASSUME IInv, NEW r \in Slots, RevokeKeyWrites(r)
  PROVE  RowsMove(r)
  BY StripsRows DEF RevokeKeyWrites, OfEvent

\* A client creates an event.
LEMMA MachineCreatesWritesRows ==
  ASSUME IInv, NEW r \in Slots, MachineCreatesWrites(r)
  PROVE  RowsMove(r)
<1>1. TypesOK /\ Seen(r) \subseteq ClientIds /\ RequestOK(r) /\ req[r].op = "event"
  BY SeenAre DEF IInv, RequestsOK, MachineCreatesWrites
<1>2. req[r].event \in Events /\ req[r].event \notin events
  BY <1>1 DEF RequestOK, MachineCreatesWrites
<1>3. ASSUME NEW c \in Seen(r)
      PROVE  client'[c] \in ClientRow /\ Joins(r, c)
  <2> DEFINE all == req[r].seen[c].events \cup {req[r].event}
  <2>1. c \in ClientIds /\ Exists(c) /\ client[c] \in ClientRow /\ all \subseteq Events
    BY <1>1, <1>2, SeenAre, RowOf DEF MachineCreatesWrites, Live, ClientRow
  <2>2. client'[c] = [client[c] EXCEPT !.events = all]
    BY <2>1 DEF MachineCreatesWrites
  <2>3. /\ client'[c] \in ClientRow /\ client'[c].events = all
        /\ client'[c].platform = client[c].platform
        /\ client'[c].url = client[c].url /\ client'[c].secret = client[c].secret
    BY <2>1, <2>2 DEF ClientRow
  <2> QED
    BY <1>1, <2>1, <2>3 DEF Joins
<1>4. \A c \in ClientIds : c \notin Seen(r) => client'[c] = client[c]
  BY DEF MachineCreatesWrites
<1>5. client' \in [ClientIds -> ClientRow \cup {None}]
  <2>1. \A c \in ClientIds : client'[c] \in ClientRow \cup {None}
    BY <1>1, <1>3, <1>4 DEF TypesOK
  <2> QED
    BY <2>1 DEF MachineCreatesWrites
<1>6. events' = events \cup {req[r].event} /\ UNCHANGED used
  BY DEF MachineCreatesWrites
<1> QED
  BY <1>1, <1>2, <1>3, <1>4, <1>5, <1>6 DEF RowsMove, TypesOK

\* A webhook is set, and a shared client is decoupled from its other events.
LEMMA SetWebhookDecouplesRows ==
  ASSUME IInv, NEW r \in Slots, SetWebhookDecouples(r)
  PROVE  RowsMove(r)
<1> DEFINE row == [ events |-> {req[r].event}, platform |-> FALSE, url |-> req[r].url,
                    secret |-> Or(req[r].secret, OldSecret(r)) ]
<1>1. TypesOK /\ req[r] \in Request /\ Seen(r) \subseteq ClientIds /\ RequestOK(r)
  BY SeenAre DEF IInv, RequestsOK
<1>2. NextId \in ClientIds /\ NextId \notin used /\ NextId \notin Seen(r)
  BY <1>1, NextIdIsNew DEF TypesOK, RequestOK, SetWebhookDecouples
<1>3. req[r].op = "set" /\ req[r].event \in events /\ req[r].op \in OfEvent
  BY <1>1 DEF SetWebhookDecouples, RequestOK, OfEvent
<1>4. OldSecret(r) \in Secrets \cup {Generated, None}
  <2>1. \A c \in Seen(r) : req[r].seen[c].secret \in Secrets \cup {Generated, None}
    BY <1>1, SeenAre DEF ClientRow
  <2> QED
    BY <2>1 DEF OldSecret
<1>5. row \in ClientRow /\ row.events = {req[r].event} /\ ~row.platform
  <2>1. req[r].event \in Events /\ req[r].url \in Urls \cup {None}
        /\ req[r].secret \in Secrets \cup {Generated, None}
    BY <1>1, <1>3 DEF TypesOK, Request
  <2> QED
    BY <1>4, <2>1 DEF Or, ClientRow
<1>6. /\ client'[NextId] = row
      /\ \A c \in Seen(r) : client'[c] = Stripped(r, c)
      /\ \A c \in ClientIds : c # NextId /\ c \notin Seen(r) => client'[c] = client[c]
  BY <1>1, <1>2 DEF SetWebhookDecouples
<1> HIDE DEF row
<1>7. \A c \in Seen(r) :
        /\ Stripped(r, c) \in ClientRow \cup {None}
        /\ client'[c] = client[c] \/ Strips(r, c)
        /\ client'[c] = None \/ req[r].event \notin client'[c].events
  BY <1>3, <1>6, StrippedIs
<1>8. used' = used \cup {NextId} /\ UNCHANGED events
  BY DEF SetWebhookDecouples
<1>9. Comes(r, NextId)
  BY <1>2, <1>3, <1>5, <1>6, <1>7, <1>8 DEF Comes
<1>10. client' \in [ClientIds -> ClientRow \cup {None}]
  <2>1. \A c \in ClientIds : client'[c] \in ClientRow \cup {None}
    BY <1>1, <1>5, <1>6, <1>7 DEF TypesOK
  <2> QED
    BY <2>1 DEF SetWebhookDecouples
<1> QED
  BY <1>1, <1>2, <1>3, <1>6, <1>7, <1>8, <1>9, <1>10 DEF RowsMove, TypesOK, OfEvent

\* The webhook of the rows that were loaded is set, and no other.
LEMMA HooksRows ==
  ASSUME IInv, NEW r \in Slots, UNCHANGED <<used, events>>, Seen(r) \subseteq Live,
         req[r].op \in OfEvent \cup {"own"},
         req[r].op # "own" => \A c \in Seen(r) : ~Shared(r, c),
         NEW url \in Urls \cup {None}, NEW secret \in Secrets \cup {Generated, None},
         client' = [c \in ClientIds |->
           IF c \in Seen(r) THEN Flushed(r, c, Hooked(req[r].seen[c], url, secret))
           ELSE client[c]]
  PROVE  RowsMove(r)
<1>1. TypesOK /\ Seen(r) \subseteq ClientIds
  BY SeenAre DEF IInv
<1>2. ASSUME NEW c \in Seen(r) PROVE client'[c] \in ClientRow /\ Hooks(r, c)
  <2>1. c \in ClientIds /\ Exists(c)
    BY <1>1 DEF Live
  <2>2. /\ client'[c] \in ClientRow /\ client'[c].events = client[c].events
        /\ client'[c].platform = client[c].platform
    BY <2>1, HookedIs
  <2> QED
    BY <2>1, <2>2 DEF Hooks, Shared
<1>3. \A c \in ClientIds : c \notin Seen(r) => client'[c] = client[c]
  OBVIOUS
<1>4. client' \in [ClientIds -> ClientRow \cup {None}]
  <2>1. \A c \in ClientIds : client'[c] \in ClientRow \cup {None}
    BY <1>1, <1>2, <1>3 DEF TypesOK
  <2> QED
    BY <2>1
<1>5. req[r].op # "event"
  BY DEF OfEvent
<1> QED
  BY <1>1, <1>2, <1>3, <1>4, <1>5 DEF RowsMove, TypesOK

\* A webhook is set on the clients of the event.
LEMMA SetWebhookWritesRows ==
  ASSUME IInv, NEW r \in Slots, SetWebhookWrites(r)
  PROVE  RowsMove(r)
<1>1. TypesOK /\ req[r] \in Request /\ Seen(r) \subseteq ClientIds /\ RequestOK(r)
  BY SeenAre DEF IInv, RequestsOK
<1>2. OldSecret(r) \in Secrets \cup {Generated, None}
  <2>1. \A c \in Seen(r) : req[r].seen[c].secret \in Secrets \cup {Generated, None}
    BY <1>1, SeenAre DEF ClientRow
  <2> QED
    BY <2>1 DEF OldSecret
<1>3. req[r].url \in Urls \cup {None}
      /\ Or(req[r].secret, OldSecret(r)) \in Secrets \cup {Generated, None}
  BY <1>1, <1>2 DEF Request, Or
<1> QED
  BY <1>3, HooksRows DEF SetWebhookWrites, OfEvent

\* A client sets its own webhook.
LEMMA ClientWebhookWritesRows ==
  ASSUME IInv, NEW r \in Slots, ClientWebhookWrites(r)
  PROVE  RowsMove(r)
<1>1. req[r].url \in Urls \cup {None} /\ req[r].secret \in Secrets \cup {Generated, None}
  BY SeenAre DEF IInv, Request
<1> QED
  BY <1>1, HooksRows DEF ClientWebhookWrites

\* A webhook is cleared.
LEMMA ClearWebhookWritesRows ==
  ASSUME IInv, NEW r \in Slots, ClearWebhookWrites(r)
  PROVE  RowsMove(r)
<1>1. /\ TypesOK /\ Seen(r) \subseteq ClientIds /\ Seen(r) \subseteq Live
      /\ req[r].op = "clear" /\ req[r].op \in OfEvent /\ UNCHANGED <<used, events>>
  BY SeenAre DEF IInv, ClearWebhookWrites, OfEvent
<1>2. ASSUME NEW c \in Seen(r)
      PROVE  client'[c] \in ClientRow \cup {None}
             /\ (client'[c] = client[c] \/ Strips(r, c) \/ Hooks(r, c))
  <2>1. c \in ClientIds /\ Exists(c)
    BY <1>1 DEF Live
  <2>2. CASE Shared(r, c)
    <3>1. client'[c] = Stripped(r, c)
      BY <2>1, <2>2 DEF ClearWebhookWrites
    <3> QED
      BY <1>1, <3>1, StrippedIs
  <2>3. CASE ~Shared(r, c)
    <3>1. client'[c] = Flushed(r, c, Hooked(req[r].seen[c], None, None))
      BY <2>1, <2>3 DEF ClearWebhookWrites
    <3>2. /\ client'[c] \in ClientRow /\ client'[c].events = client[c].events
          /\ client'[c].platform = client[c].platform
      BY <2>1, <3>1, HookedIs
    <3> QED
      BY <1>1, <2>1, <2>3, <3>2 DEF Hooks, Shared
  <2> QED
    BY <2>2, <2>3
<1>3. \A c \in ClientIds : c \notin Seen(r) => client'[c] = client[c]
  BY DEF ClearWebhookWrites
<1>4. client' \in [ClientIds -> ClientRow \cup {None}]
  <2>1. \A c \in ClientIds : client'[c] \in ClientRow \cup {None}
    BY <1>1, <1>2, <1>3 DEF TypesOK
  <2> QED
    BY <2>1 DEF ClearWebhookWrites
<1> QED
  BY <1>1, <1>2, <1>3, <1>4 DEF RowsMove, TypesOK

\* Every commit of a request moves rows so, or none, and ends the request.
LEMMA WritesRows ==
  ASSUME IInv, NEW r \in Slots, Writes(r)
  PROVE  Ends(r) /\ (RowsMove(r) \/ UNCHANGED <<client, used, events>>)
  BY CreateKeyWritesRows, RevokeKeyWritesRows, MachineCreatesWritesRows,
     SetWebhookDecouplesRows, SetWebhookWritesRows, ClearWebhookWritesRows,
     ClientWebhookWritesRows
     DEF Writes, CreateKeyWrites, RevokeKeyWrites, MachineCreatesWrites, SetWebhookDecouples,
         SetWebhookWrites, ClearWebhookWrites, ClientWebhookWrites, RequestFails

-------------------------------------------------------------------------------
(* What is true of loaded rows stays true *)

\* Events and used keys stay, and a client stays the platform's or not.
TablesMove ==
  /\ events \subseteq events' /\ used \subseteq used'
  /\ \A c \in ClientIds :
       /\ Exists(c) /\ Exists(c)' => client'[c].platform = client[c].platform
       /\ ~Exists(c) /\ Exists(c)' => c \notin used

\* Moving rows so keeps what requests rely on in the tables.
LEMMA RowsMoveTables ==
  ASSUME IInv, NEW r \in Slots, RowsMove(r)
  PROVE  TablesMove
<1>1. \A c \in ClientIds : Exists(c) => c \in used
  BY DEF IInv, TypesOK, Live
<1> QED
  BY <1>1 DEF RowsMove, TablesMove, Strips, Hooks, Joins, Comes, Exists

\* A request that makes no step keeps what it needs.
LEMMA RequestStays ==
  ASSUME IInv, TablesMove, NEW r \in Slots, req'[r] = req[r]
  PROVE  RequestOK(r)'
<1>1. RequestOK(r) /\ Seen(r) \subseteq ClientIds /\ Seen(r)' = Seen(r)
  BY SeenAre DEF IInv, RequestsOK, Seen
<1> QED
  BY <1>1 DEF RequestOK, TablesMove, Exists

\* A slot that is not in use needs nothing.
LEMMA IdleOK ==
  ASSUME NEW r \in Slots, req'[r] = Idle
  PROVE  RequestOK(r)'
<1>1. Seen(r)' = {}
  BY IdleIsRequest DEF Seen
<1>2. Idle.op = "idle" /\ Idle.event = None /\ Idle.donor = None
  BY DEF Idle
<1> QED
  BY <1>1, <1>2 DEF RequestOK, OfEvent

\* A request that ends leaves the others with what they need.
LEMMA EndsOK ==
  ASSUME IInv, NEW r \in Slots, Ends(r), TablesMove
  PROVE  req' \in [Slots -> Request] /\ RequestsOK'
<1>1. req \in [Slots -> Request]
  BY DEF IInv, TypesOK
<1>2. req' = [req EXCEPT ![r] = Idle]
  BY DEF Ends
<1>3. \A q \in Slots : q # r => req'[q] = req[q]
  BY <1>1, <1>2
<1> QED
  BY <1>1, <1>2, <1>3, IdleIsRequest, IdleOK, RequestStays DEF RequestsOK

\* A request begins with rows as they are.
LEMMA BeginsOK ==
  ASSUME IInv, NEW r \in Slots, NEW fields \in Request, NEW S \in SUBSET Live,
         Begins(r, fields, S),
         fields.donor # None => fields.donor \in S,
         fields.op \in OfEvent =>
           fields.event \in events /\ \A c \in S : ~client[c].platform,
         fields.op = "event" => fields.event \in Events /\ \E c \in ClientIds : S = {c},
         fields.op \in {"idle", "own"} => fields.event = None
  PROVE  req' \in [Slots -> Request] /\ RequestsOK'
<1> DEFINE seen == [c \in S |-> client[c]]
           q == [fields EXCEPT !.seen = seen]
<1>1. TypesOK /\ EventsOK /\ S \subseteq ClientIds
  BY DEF IInv, Live
<1>2. seen \in Loaded
  <2>1. \A c \in S : client[c] \in ClientRow
    BY <1>1, RowOf DEF Live
  <2>2. seen \in [S -> ClientRow]
    BY <2>1
  <2> QED
    BY <1>1, <2>2 DEF Loaded
<1>3. DOMAIN seen = S /\ \A c \in S : seen[c] = client[c]
  OBVIOUS
<1> HIDE DEF seen
<1>4. /\ q \in Request /\ q.seen = seen /\ q.op = fields.op /\ q.event = fields.event
      /\ q.donor = fields.donor
  BY <1>2 DEF Request
<1>5. req' = [req EXCEPT ![r] = q] /\ UNCHANGED <<client, used, events>>
  BY DEF Begins, seen
<1> HIDE DEF q
<1>6. req' \in [Slots -> Request] /\ req'[r] = q
  BY <1>1, <1>4, <1>5 DEF TypesOK
<1>7. Seen(r)' = S
  BY <1>3, <1>4, <1>6 DEF Seen
<1>8. RequestOK(r)'
  BY <1>1, <1>3, <1>4, <1>5, <1>6, <1>7 DEF RequestOK, TypesOK, EventsOK, Live, Exists
<1>9. \A p \in Slots : p # r => req'[p] = req[p]
  BY <1>1, <1>5 DEF TypesOK
<1>10. TablesMove
  BY <1>5 DEF TablesMove, Exists
<1> QED
  BY <1>6, <1>8, <1>9, <1>10, RequestStays DEF RequestsOK

\* The clients of an event alone exist, and are not platform clients.
LEMMA OwnClientsLive ==
  /\ \A e : OwnClients(e) \subseteq Live /\ EventClients(e) \subseteq OwnClients(e)
  /\ \A e : \A c \in OwnClients(e) : ~client[c].platform
  BY DEF OwnClients, EventClients

\* A request that begins has what it needs.
LEMMA StartsOK ==
  ASSUME IInv, NEW r \in Slots, Starts(r)
  PROVE  req' \in [Slots -> Request] /\ RequestsOK'
<1>1. TypesOK /\ Live \subseteq ClientIds /\ events \subseteq Events
  BY DEF IInv, TypesOK, Live
<1> USE IdleIsRequest
<1>2. ASSUME NEW e \in Events, NEW url \in Urls \cup {None}, NEW secret \in GivenSecrets,
             CreateKeyReads(r, e, url, secret)
      PROVE  req' \in [Slots -> Request] /\ RequestsOK'
  <2> DEFINE f(d) == [ Idle EXCEPT !.op = "create", !.event = e, !.url = url,
                         !.secret = secret, !.donor = d ]
  <2>1. PICK d \in OwnClients(e) \cup {None} : Begins(r, f(d), OwnClients(e))
    BY <1>2 DEF CreateKeyReads
  <2>2. d \in ClientIds \cup {None} /\ e \in events
    BY <1>1, <1>2, OwnClientsLive DEF CreateKeyReads
  <2>3. f(d) \in Request /\ f(d).op = "create" /\ f(d).event = e /\ f(d).donor = d
    BY <2>2 DEF Idle, Request, OfEvent, GivenSecrets
  <2> HIDE DEF f
  <2> QED
    BY <2>1, <2>2, <2>3, BeginsOK, OwnClientsLive DEF OfEvent
<1>3. ASSUME NEW e \in Events, NEW c \in ClientIds, RevokeKeyReads(r, e, c)
      PROVE  req' \in [Slots -> Request] /\ RequestsOK'
  <2> DEFINE f == [Idle EXCEPT !.op = "revoke", !.event = e]
  <2>1. c \in OwnClients(e) /\ Begins(r, f, {c}) /\ e \in events
    BY <1>3 DEF RevokeKeyReads, IInv, EventsOK, OwnClients
  <2>2. f \in Request /\ f.op = "revoke" /\ f.event = e /\ f.donor = None
    BY DEF Idle, Request, OfEvent
  <2> HIDE DEF f
  <2> QED
    BY <2>1, <2>2, BeginsOK, OwnClientsLive DEF OfEvent
<1>4. ASSUME NEW e \in Events, NEW c \in ClientIds, MachineCreatesReads(r, c, e)
      PROVE  req' \in [Slots -> Request] /\ RequestsOK'
  <2> DEFINE f == [Idle EXCEPT !.op = "event", !.event = e]
  <2>1. c \in Live /\ Begins(r, f, {c})
    BY <1>4 DEF MachineCreatesReads
  <2>2. f \in Request /\ f.op = "event" /\ f.event = e /\ f.donor = None
    BY DEF Idle, Request
  <2> HIDE DEF f
  <2> QED
    BY <2>1, <2>2, BeginsOK DEF OfEvent
<1>5. ASSUME NEW e \in Events, NEW url \in Urls, NEW secret \in GivenSecrets,
             SetWebhookReads(r, e, url, secret)
      PROVE  req' \in [Slots -> Request] /\ RequestsOK'
  <2> DEFINE f == [Idle EXCEPT !.op = "set", !.event = e, !.url = url, !.secret = secret]
  <2>1. e \in events /\ \E S \in SUBSET OwnClients(e) : Begins(r, f, S)
    BY <1>5, OwnClientsLive DEF SetWebhookReads
  <2>2. f \in Request /\ f.op = "set" /\ f.event = e /\ f.donor = None
    BY DEF Idle, Request, OfEvent, GivenSecrets
  <2> HIDE DEF f
  <2> QED
    BY <2>1, <2>2, BeginsOK, OwnClientsLive DEF OfEvent
<1>6. ASSUME NEW e \in Events, ClearWebhookReads(r, e)
      PROVE  req' \in [Slots -> Request] /\ RequestsOK'
  <2> DEFINE f == [Idle EXCEPT !.op = "clear", !.event = e]
  <2>1. PICK c \in OwnClients(e) : Begins(r, f, {c})
    BY <1>6, OwnClientsLive DEF ClearWebhookReads
  <2>2. e \in events
    BY DEF IInv, EventsOK, OwnClients
  <2>3. f \in Request /\ f.op = "clear" /\ f.event = e /\ f.donor = None
    BY DEF Idle, Request, OfEvent
  <2> HIDE DEF f
  <2> QED
    BY <2>1, <2>2, <2>3, BeginsOK, OwnClientsLive DEF OfEvent
<1>7. ASSUME NEW c \in ClientIds, NEW url \in Urls \cup {None},
             NEW secret \in Secrets \cup {Generated, None},
             ClientWebhookReads(r, c, url, secret)
      PROVE  req' \in [Slots -> Request] /\ RequestsOK'
  <2> DEFINE f == [Idle EXCEPT !.op = "own", !.url = url, !.secret = secret]
  <2>1. c \in Live /\ Begins(r, f, {c})
    BY <1>7 DEF ClientWebhookReads
  <2>2. f \in Request /\ f.op = "own" /\ f.event = None /\ f.donor = None
    BY DEF Idle, Request
  <2> HIDE DEF f
  <2> QED
    BY <2>1, <2>2, BeginsOK DEF OfEvent
<1> QED
  BY <1>2, <1>3, <1>4, <1>5, <1>6, <1>7 DEF Starts

\* Beginning writes nothing.
LEMMA StartsKeep ==
  ASSUME NEW r \in Slots, Starts(r)
  PROVE  UNCHANGED <<client, used, events, overtaken, notices>>
  BY DEF Starts, CreateKeyReads, RevokeKeyReads, MachineCreatesReads, SetWebhookReads,
         ClearWebhookReads, ClientWebhookReads, Begins

-------------------------------------------------------------------------------
(* Events and keys *)

\* Moving rows so gives clients only events that exist.
LEMMA RowsMoveEvents ==
  ASSUME IInv, NEW r \in Slots, RowsMove(r)
  PROVE  Live' \subseteq used' /\ EventsOK' /\ events' \subseteq Events
<1>1. TypesOK /\ EventsOK /\ RequestOK(r) /\ Seen(r) \subseteq ClientIds
  BY SeenAre DEF IInv, RequestsOK
<1>2. ASSUME NEW c \in ClientIds, client'[c] # None
      PROVE  c \in used' /\ client'[c].events \subseteq events'
  <2>1. events \subseteq events' /\ used \subseteq used'
    BY DEF RowsMove
  <2>2. CASE client'[c] = client[c]
    BY <1>1, <1>2, <2>1, <2>2 DEF TypesOK, EventsOK, Live, Exists
  <2>3. CASE Strips(r, c)
    BY <1>1, <1>2, <2>1, <2>3 DEF Strips, RequestOK
  <2>4. CASE Hooks(r, c)
    BY <1>1, <1>2, <2>1, <2>4 DEF Hooks, RequestOK, EventsOK, Live
  <2>5. CASE Joins(r, c)
    BY <1>1, <2>1, <2>5 DEF Joins, RequestOK, RowsMove
  <2>6. CASE Comes(r, c)
    BY <1>1, <2>1, <2>6 DEF Comes, RequestOK
  <2> QED
    BY <2>2, <2>3, <2>4, <2>5, <2>6 DEF RowsMove
<1>3. events' \subseteq Events
  BY <1>1 DEF RowsMove, TypesOK, RequestOK
<1> QED
  BY <1>2, <1>3 DEF EventsOK, Live, Exists

\* The keys of an event that is not overtaken were its keys before, but for
\* the one that comes instead of all others.
LEMMA RowsMoveKeys ==
  ASSUME IInv, NEW r \in Slots, RowsMove(r), overtaken' = overtaken \cup Overtakes(r)
  PROVE  KeysOK'
<1>1. TypesOK /\ EventsOK /\ KeysOK /\ RequestOK(r) /\ Seen(r) \subseteq ClientIds
  BY SeenAre DEF IInv, RequestsOK
<1> SUFFICES ASSUME NEW e \in Events, e \notin overtaken, e \notin Overtakes(r),
                    NEW c \in OwnClients(e)', NEW d \in OwnClients(e)'
             PROVE  c = d
  BY DEF KeysOK
<1> DEFINE ev == req[r].event
<1>2. \A k \in Seen(r) : Exists(k) /\ e \in req[r].seen[k].events => e \in client[k].events
  BY <1>1 DEF Overtakes, Outdated
<1>3. ASSUME NEW k \in OwnClients(e)'
      PROVE  \/ k \in OwnClients(e)
             \/ Joins(r, k) /\ e = ev
             \/ Comes(r, k) /\ e = ev
  <2>1. k \in ClientIds /\ client'[k] # None /\ ~client'[k].platform /\ e \in client'[k].events
    BY DEF OwnClients, Live, Exists
  <2>2. CASE client'[k] = client[k]
    BY <2>1, <2>2 DEF OwnClients, Live, Exists
  <2>3. CASE Strips(r, k)
    BY <1>2, <2>1, <2>3 DEF Strips, OwnClients, Live
  <2>4. CASE Hooks(r, k)
    BY <2>1, <2>4 DEF Hooks, OwnClients, Live
  <2>5. CASE Joins(r, k)
    BY <1>2, <2>1, <2>5 DEF Joins, OwnClients, Live
  <2>6. CASE Comes(r, k)
    BY <2>1, <2>6 DEF Comes
  <2> QED
    BY <2>1, <2>2, <2>3, <2>4, <2>5, <2>6 DEF RowsMove
<1>4. CASE \E k \in {c, d} : Joins(r, k) /\ e = ev
  <2>1. req[r].op = "event" /\ e \notin events
    BY <1>4 DEF Joins, RowsMove
  <2>2. OwnClients(e) = {} /\ ~Comes(r, c) /\ ~Comes(r, d)
    BY <1>1, <2>1 DEF OwnClients, EventsOK, Comes, OfEvent
  <2>3. PICK k : Seen(r) = {k}
    BY <1>1, <2>1 DEF RequestOK
  <2> QED
    BY <1>3, <2>2, <2>3 DEF Joins
<1>5. CASE \E k \in {c, d} : Comes(r, k) /\ e = ev
  <2>1. PICK k \in {c, d} : Comes(r, k) /\ e = ev
    BY <1>5
  <2>2. OwnClients(e) \subseteq Seen(r)
    BY <2>1, NoneAssumption DEF Overtakes
  <2>3. \A j \in OwnClients(e) : j \notin OwnClients(e)'
    BY <2>1, <2>2 DEF Comes, OwnClients, Live, Exists
  <2>4. ~Joins(r, c) /\ ~Joins(r, d)
    BY <2>1 DEF Joins, Comes, OfEvent
  <2>5. Comes(r, c) /\ Comes(r, d)
    BY <1>3, <2>3, <2>4
  <2> QED
    BY <2>5 DEF Comes
<1> QED
  BY <1>1, <1>3, <1>4, <1>5 DEF KeysOK

\* The command create_client.
LEMMA CreateClientOK ==
  ASSUME IInv, NEW e \in Events, NEW url \in Urls \cup {None}, NEW secret \in GivenSecrets,
         CreateClient(e, url, secret)
  PROVE  /\ TablesMove /\ EventsOK' /\ KeysOK'
         /\ client' \in [ClientIds -> ClientRow \cup {None}] /\ events' \subseteq Events
         /\ Live' \subseteq used' /\ used' \subseteq ClientIds
         /\ \A c \in ClientIds : Exists(c) => client'[c] = client[c]
<1> DEFINE row == [ events |-> {e}, platform |-> FALSE, url |-> url,
                    secret |-> IF url = None THEN None ELSE Or(secret, Generated) ]
<1>1. TypesOK /\ EventsOK /\ KeysOK
  BY DEF IInv
<1>2. NextId \in ClientIds /\ NextId \notin used /\ ~Exists(NextId)
  BY <1>1, NextIdIsNew DEF TypesOK, CreateClient, Live
<1>3. row \in ClientRow /\ row.events = {e} /\ ~row.platform
  BY DEF Or, ClientRow, GivenSecrets
<1>4. /\ client' = [client EXCEPT ![NextId] = row] /\ used' = used \cup {NextId}
      /\ events' = events \cup {e}
      /\ overtaken' = overtaken \cup (IF OwnClients(e) = {} THEN {} ELSE {e})
  BY DEF CreateClient
<1> HIDE DEF row
<1>5. client'[NextId] = row /\ \A c \in ClientIds \ {NextId} : client'[c] = client[c]
  BY <1>1, <1>2, <1>4 DEF TypesOK
<1>6. client' \in [ClientIds -> ClientRow \cup {None}]
  BY <1>1, <1>3, <1>4 DEF TypesOK
<1>7. TablesMove
  BY <1>2, <1>4, <1>5 DEF TablesMove, Exists
<1>8. Live' \subseteq used' /\ used' \subseteq ClientIds /\ events' \subseteq Events
  BY <1>1, <1>2, <1>4, <1>5 DEF TypesOK, Live, Exists
<1>9. EventsOK'
  BY <1>1, <1>3, <1>4, <1>5 DEF EventsOK, Live, Exists
<1>10. KeysOK'
  <2> SUFFICES ASSUME NEW x \in Events, x \notin overtaken, x = e => OwnClients(e) = {},
                      NEW c \in OwnClients(x)', NEW d \in OwnClients(x)'
               PROVE  c = d
    BY <1>4 DEF KeysOK
  <2>1. ASSUME NEW k \in OwnClients(x)' PROVE k \in OwnClients(x) \/ (k = NextId /\ x = e)
    BY <1>3, <1>5 DEF OwnClients, Live, Exists
  <2> QED
    BY <1>1, <2>1 DEF KeysOK
<1> QED
  BY <1>2, <1>5, <1>6, <1>7, <1>8, <1>9, <1>10

-------------------------------------------------------------------------------
(* Notices *)

\* Counting an attempt adds one to the count of its notice alone.
LEMMA CountedIs ==
  ASSUME NEW h \in PerNotice, NEW job \in Job, told \in 0..MaxNotices
  PROVE  /\ Counted(h, job) \in PerNotice
         /\ Counted(h, job)[job.client][job.no] = h[job.client][job.no] + 1
         /\ \A c \in ClientIds, n \in 1..MaxNotices :
              c # job.client \/ n # job.no => Counted(h, job)[c][n] = h[c][n]
<1>1. job.client \in ClientIds /\ job.no \in 1..MaxNotices
  BY BoundsAssumption DEF Job
<1>2. h[job.client] \in [1..MaxNotices -> Nat] /\ h[job.client][job.no] \in Nat
  BY <1>1 DEF PerNotice
<1> DEFINE row == [h[job.client] EXCEPT ![job.no] = @ + 1]
<1>3. row \in [1..MaxNotices -> Nat] /\ row[job.no] = h[job.client][job.no] + 1
      /\ \A n \in 1..MaxNotices : n # job.no => row[n] = h[job.client][n]
  <2> DEFINE f == h[job.client]
             k == job.no
             x == f[k] + 1
  <2>1. f \in [1..MaxNotices -> Nat] /\ k \in 1..MaxNotices /\ x \in Nat
    BY <1>1, <1>2
  <2>2. row = [f EXCEPT ![k] = x]
    OBVIOUS
  <2> HIDE DEF x, f, k
  <2>3. row \in [1..MaxNotices -> Nat] /\ row[k] = x
        /\ \A n \in 1..MaxNotices : n # k => row[n] = f[n]
    BY <2>1, <2>2
  <2> QED
    BY <2>3 DEF x, f, k
<1>4. Counted(h, job) = [h EXCEPT ![job.client] = row]
  BY DEF Counted
<1> HIDE DEF row
<1> QED
  BY <1>1, <1>3, <1>4 DEF PerNotice

\* dispatch_talk_webhook: one job for each client that is to be told, unless Redis refuses.
LEMMA DispatchOK ==
  ASSUME IInv, NEW e \in Events, NEW refused \in SUBSET ClientIds,
         DispatchTalkWebhook(e, refused)
  PROVE  told' \in 0..MaxNotices /\ jobs' \subseteq Job' /\ NoticesOK'
<1> DEFINE S == Candidates(e) \ refused
           new == {Notice(c, told + 1) : c \in S}
<1>1. TypesOK /\ NoticesOK /\ told < MaxNotices /\ S \subseteq ClientIds
  BY DEF IInv, DispatchTalkWebhook, Candidates, Live
<1>2. told \in Nat /\ told' = told + 1 /\ told' \in 1..MaxNotices
  BY <1>1, BoundsAssumption DEF TypesOK, DispatchTalkWebhook
<1>3. jobs' = jobs \cup new /\ UNCHANGED <<got, lost, failed, escaped>>
  BY DEF DispatchTalkWebhook
<1>4. \A j \in new : j.client \in ClientIds /\ j.no = told + 1 /\ j.attempt = 1 /\ j \in Job'
  BY <1>1, <1>2 DEF Notice, Job
<1>5. \A j, k \in new : j.client = k.client => j = k
  BY DEF Notice
<1>6. \A j \in jobs : j.client \in ClientIds /\ j.no \in 1..told /\ j.no # told + 1 /\ j \in Job'
  BY <1>1, <1>2 DEF TypesOK, Job
<1> HIDE DEF new, S
<1>7. \A j, k \in jobs' : j.client = k.client /\ j.no = k.no => j = k
  BY <1>1, <1>3, <1>4, <1>5, <1>6 DEF NoticesOK
<1>8. ASSUME NEW c \in ClientIds, NEW n \in 1..MaxNotices
      PROVE  LET mine == {j \in jobs' : j.client = c /\ j.no = n}
             IN  /\ n > told' => got[c][n] = 0 /\ lost[c][n] = 0 /\ failed[c][n] = 0
                 /\ got[c][n] <= 1 + lost[c][n] /\ got[c][n] + failed[c][n] <= 2
                 /\ Unanswered(c, n)' => mine # {}
                 /\ \A j \in mine :
                      IF j.attempt = 1
                      THEN got[c][n] = 0 /\ lost[c][n] = 0 /\ failed[c][n] = 0
                      ELSE got[c][n] + failed[c][n] = 1 /\ got[c][n] <= lost[c][n]
  <2>1. n \in Nat /\ (n > told' => n > told) /\ (n = told + 1 => n > told)
    BY <1>2
  <2>2. \A j \in jobs' : j \in jobs \/ (j.no = told + 1 /\ j.attempt = 1)
    BY <1>3, <1>4
  <2>3. Unanswered(c, n)' = Unanswered(c, n)
    BY <1>3 DEF Unanswered
  <2> QED
    BY <1>1, <1>3, <2>1, <2>2, <2>3 DEF NoticesOK
<1>9. told' \in 0..MaxNotices /\ jobs' \subseteq Job'
  BY <1>2, <1>3, <1>4, <1>6, BoundsAssumption
<1> QED
  BY <1>3, <1>7, <1>8, <1>9 DEF NoticesOK

\* What an attempt does to one of the counts.
LEMMA CountsAre ==
  ASSUME NEW h \in PerNotice, NEW g \in BOOLEAN, NEW job \in Job, told \in 0..MaxNotices,
         NEW new, new = IF g THEN Counted(h, job) ELSE h
  PROVE  /\ new \in PerNotice
         /\ new[job.client][job.no] =
              IF g THEN h[job.client][job.no] + 1 ELSE h[job.client][job.no]
         /\ \A c \in ClientIds, n \in 1..MaxNotices :
              /\ h[c][n] \in Nat
              /\ c # job.client \/ n # job.no => new[c][n] = h[c][n]
<1>1. \A c \in ClientIds, n \in 1..MaxNotices : h[c][n] \in Nat
  BY DEF PerNotice
<1>2. CASE g
  BY <1>1, <1>2, CountedIs
<1>3. CASE ~g
  BY <1>1, <1>3
<1> QED
  BY <1>2, <1>3

\* How an attempt ends: whether the client has the notice, whether it has it
\* and did not accept it, whether the attempt did not reach it, and whether the
\* job ended with the attempt; and whether another follows.
Ended(job, g, l, f, x) ==
  /\ got' = IF g THEN Counted(got, job) ELSE got
  /\ lost' = IF l THEN Counted(lost, job) ELSE lost
  /\ failed' = IF f THEN Counted(failed, job) ELSE failed
  /\ escaped' = IF x THEN escaped \cup {<<job.client, job.no>>} ELSE escaped
  /\ f <=> ~g
  /\ \/ jobs' = jobs \ {job} /\ ~l /\ (g \/ x)
     \/ TriesAgain(job) /\ (l <=> g) /\ ~x

\* An attempt ends in one of the ways Ended lists.
LEMMA Attempts ==
  ASSUME NEW job \in jobs, JobDeliverWebhook(job)
  PROVE  \E g, l, f, x \in BOOLEAN : Ended(job, g, l, f, x)
<1>1. CASE Delivers(job)
  <2>1. Ended(job, TRUE, FALSE, FALSE, FALSE)
    BY <1>1 DEF Delivers, Receives, Ended
  <2> QED
    BY <2>1
<1>2. CASE NoConnection(job)
  <2>1. Ended(job, FALSE, FALSE, TRUE, FALSE)
    BY <1>2 DEF NoConnection, Ended
  <2> QED
    BY <2>1
<1>3. CASE NotAccepted(job)
  <2>1. Ended(job, TRUE, TRUE, FALSE, FALSE)
    BY <1>3 DEF NotAccepted, Receives, Ended
  <2> QED
    BY <2>1
<1>4. CASE \E received \in BOOLEAN : TimesOut(job, received) \/ Dies(job, received)
  <2>1. PICK received \in BOOLEAN : Escapes(job, received)
    BY <1>4 DEF TimesOut, Dies
  <2>2. Ended(job, received, FALSE, ~received, TRUE)
    BY <2>1 DEF Escapes, Receives, Ended
  <2> QED
    BY <2>2
<1> QED
  BY <1>1, <1>2, <1>3, <1>4 DEF JobDeliverWebhook

\* Every attempt keeps jobs and counts together.
LEMMA DeliversOK ==
  ASSUME IInv, NEW job \in jobs, JobDeliverWebhook(job)
  PROVE  /\ jobs' \subseteq Job /\ NoticesOK'
         /\ got' \in PerNotice /\ lost' \in PerNotice /\ failed' \in PerNotice
         /\ escaped' \subseteq ClientIds \X (1..MaxNotices)
<1>1. PICK g, l, f, x \in BOOLEAN : Ended(job, g, l, f, x)
  BY Attempts
<1>2. TypesOK /\ NoticesOK /\ job \in Job /\ told \in 0..MaxNotices /\ UNCHANGED told
  BY DEF IInv, TypesOK, JobDeliverWebhook
<1> DEFINE c0 == job.client
           n0 == job.no
           again == [job EXCEPT !.attempt = 2]
<1>3. c0 \in ClientIds /\ n0 \in 1..told /\ n0 \in 1..MaxNotices /\ job.attempt \in 1..2
  BY <1>2, BoundsAssumption DEF Job
<1>4. again \in Job /\ again.client = c0 /\ again.no = n0 /\ again.attempt = 2
  BY <1>2 DEF Job
<1> HIDE DEF again
<1> DEFINE Abandoned == ~l /\ (g \/ x) /\ (f <=> ~g)
           Repeated == (l <=> g) /\ ~x /\ (f <=> ~g)
<1>5. \/ jobs' = jobs \ {job} /\ Abandoned
      \/ jobs' = jobs \ {job} /\ job.attempt = 2 /\ Repeated
      \/ jobs' = (jobs \ {job}) \cup {again} /\ job.attempt = 1 /\ Repeated
  BY <1>1, <1>3 DEF Ended, TriesAgain, again
<1> HIDE DEF Abandoned, Repeated
<1>6. jobs' \subseteq Job
  BY <1>2, <1>4, <1>5 DEF TypesOK
<1>7. /\ \A c \in ClientIds, n \in 1..MaxNotices :
           got[c][n] \in Nat /\ lost[c][n] \in Nat /\ failed[c][n] \in Nat
      /\ got' \in PerNotice /\ lost' \in PerNotice /\ failed' \in PerNotice
  BY <1>1, <1>2, CountsAre DEF TypesOK, Ended
<1>8. /\ got'[c0][n0] = IF g THEN got[c0][n0] + 1 ELSE got[c0][n0]
      /\ lost'[c0][n0] = IF l THEN lost[c0][n0] + 1 ELSE lost[c0][n0]
      /\ failed'[c0][n0] = IF f THEN failed[c0][n0] + 1 ELSE failed[c0][n0]
  BY <1>1, <1>2, CountsAre DEF TypesOK, Ended
<1>9. \A c \in ClientIds, n \in 1..MaxNotices :
        c # c0 \/ n # n0 =>
          got'[c][n] = got[c][n] /\ lost'[c][n] = lost[c][n] /\ failed'[c][n] = failed[c][n]
  BY <1>1, <1>2, CountsAre DEF TypesOK, Ended
<1>18. /\ escaped' \subseteq ClientIds \X (1..MaxNotices)
       /\ x => <<c0, n0>> \in escaped'
       /\ \A c \in ClientIds, n \in 1..MaxNotices :
            c # c0 \/ n # n0 => (<<c, n>> \in escaped' <=> <<c, n>> \in escaped)
  BY <1>1, <1>2, <1>3 DEF TypesOK, Ended
<1>10. \A j \in jobs \ {job} : j.client # c0 \/ j.no # n0
  BY <1>2 DEF NoticesOK
<1>11. \A j, k \in jobs' : j.client = k.client /\ j.no = k.no => j = k
  BY <1>2, <1>4, <1>5, <1>10 DEF NoticesOK
<1>12. ASSUME NEW c \in ClientIds, NEW n \in 1..MaxNotices, c # c0 \/ n # n0
       PROVE  {j \in jobs' : j.client = c /\ j.no = n} = {j \in jobs : j.client = c /\ j.no = n}
  BY <1>4, <1>5, <1>12
<1>13. \A c \in ClientIds, n \in 1..MaxNotices :
         LET mine == {j \in jobs' : j.client = c /\ j.no = n}
         IN  c # c0 \/ n # n0 =>
              /\ n > told => got'[c][n] = 0 /\ lost'[c][n] = 0 /\ failed'[c][n] = 0
              /\ got'[c][n] <= 1 + lost'[c][n] /\ got'[c][n] + failed'[c][n] <= 2
              /\ Unanswered(c, n)' => mine # {}
              /\ \A j \in mine :
                   IF j.attempt = 1
                   THEN got'[c][n] = 0 /\ lost'[c][n] = 0 /\ failed'[c][n] = 0
                   ELSE got'[c][n] + failed'[c][n] = 1 /\ got'[c][n] <= lost'[c][n]
  <2> SUFFICES ASSUME NEW c \in ClientIds, NEW n \in 1..MaxNotices, c # c0 \/ n # n0
               PROVE  LET mine == {j \in jobs' : j.client = c /\ j.no = n}
                      IN  /\ n > told => got'[c][n] = 0 /\ lost'[c][n] = 0 /\ failed'[c][n] = 0
                          /\ got'[c][n] <= 1 + lost'[c][n] /\ got'[c][n] + failed'[c][n] <= 2
                          /\ Unanswered(c, n)' => mine # {}
                          /\ \A j \in mine :
                               IF j.attempt = 1
                               THEN got'[c][n] = 0 /\ lost'[c][n] = 0 /\ failed'[c][n] = 0
                               ELSE got'[c][n] + failed'[c][n] = 1 /\ got'[c][n] <= lost'[c][n]
    OBVIOUS
  <2>1. /\ got'[c][n] = got[c][n] /\ lost'[c][n] = lost[c][n] /\ failed'[c][n] = failed[c][n]
        /\ {j \in jobs' : j.client = c /\ j.no = n} = {j \in jobs : j.client = c /\ j.no = n}
    BY <1>9, <1>12
  <2>2. Unanswered(c, n)' = Unanswered(c, n)
    BY <2>1, <1>18 DEF Unanswered
  <2> QED
    BY <1>2, <2>1, <2>2 DEF NoticesOK
<1>14. IF job.attempt = 1
       THEN got[c0][n0] = 0 /\ lost[c0][n0] = 0 /\ failed[c0][n0] = 0
       ELSE got[c0][n0] + failed[c0][n0] = 1 /\ got[c0][n0] <= lost[c0][n0]
  BY <1>2, <1>3 DEF NoticesOK
<1> DEFINE mine0 == {j \in jobs' : j.client = c0 /\ j.no = n0}
<1>15. \/ mine0 = {} /\ (Abandoned \/ (job.attempt = 2 /\ Repeated))
       \/ mine0 = {again} /\ job.attempt = 1 /\ Repeated
  <2>1. ASSUME jobs' = jobs \ {job} PROVE mine0 = {}
    BY <1>10, <2>1
  <2>2. ASSUME jobs' = (jobs \ {job}) \cup {again} PROVE mine0 = {again}
    BY <1>4, <1>10, <2>2
  <2> HIDE DEF mine0
  <2> QED
    BY <1>5, <2>1, <2>2
<1> HIDE DEF mine0
<1>16. /\ got'[c0][n0] <= 1 + lost'[c0][n0] /\ got'[c0][n0] + failed'[c0][n0] <= 2
       /\ Unanswered(c0, n0)' => mine0 # {}
       /\ \A j \in mine0 :
            IF j.attempt = 1
            THEN got'[c0][n0] = 0 /\ lost'[c0][n0] = 0 /\ failed'[c0][n0] = 0
            ELSE got'[c0][n0] + failed'[c0][n0] = 1 /\ got'[c0][n0] <= lost'[c0][n0]
  <2> DEFINE G == got[c0][n0]
             L == lost[c0][n0]
             F == failed[c0][n0]
  <2>1. G \in Nat /\ L \in Nat /\ F \in Nat
    BY <1>3, <1>7
  <2>2. IF job.attempt = 1 THEN G = 0 /\ L = 0 /\ F = 0 ELSE G + F = 1 /\ G <= L
    BY <1>14
  <2> DEFINE Gn == IF g THEN G + 1 ELSE G
             Ln == IF l THEN L + 1 ELSE L
             Fn == IF f THEN F + 1 ELSE F
  <2>3. got'[c0][n0] = Gn /\ lost'[c0][n0] = Ln /\ failed'[c0][n0] = Fn
    BY <1>8
  <2> HIDE DEF G, L, F
  <2>7. Unanswered(c0, n0)' <=> Gn + Fn = 1 /\ Fn + Ln = 1 /\ <<c0, n0>> \notin escaped'
    BY <2>3 DEF Unanswered
  <2>4. CASE mine0 = {} /\ Abandoned
    <3>1. Gn <= 1 + Ln /\ Gn + Fn <= 2 /\ (Gn + Fn = 1 /\ Fn + Ln = 1 => x)
      BY <1>3, <2>1, <2>2, <2>4 DEF Abandoned
    <3> QED
      BY <1>18, <2>3, <2>4, <2>7, <3>1
  <2>5. CASE mine0 = {} /\ job.attempt = 2 /\ Repeated
    <3>1. Gn <= 1 + Ln /\ Gn + Fn = 2
      BY <2>1, <2>2, <2>5 DEF Repeated
    <3> QED
      BY <2>1, <2>3, <2>5, <2>7, <3>1
  <2>6. CASE mine0 = {again} /\ job.attempt = 1 /\ Repeated
    <3>1. Gn <= 1 + Ln /\ Gn + Fn = 1 /\ Gn <= Ln
      BY <2>1, <2>2, <2>6 DEF Repeated
    <3> QED
      BY <1>4, <2>1, <2>3, <2>6, <3>1
  <2> QED
    BY <1>15, <2>4, <2>5, <2>6
<1>17. NoticesOK'
  <2>1. n0 <= told
    BY <1>3, BoundsAssumption
  <2>2. ~(n0 > told)
    BY <1>2, <1>3, <2>1
  <2> QED
    BY <1>2, <1>11, <1>13, <1>16, <2>2 DEF NoticesOK, mine0
<1> QED
  BY <1>6, <1>7, <1>17, <1>18

-------------------------------------------------------------------------------
(* The theorems *)

\* The invariant holds in the initial state.
LEMMA InitOK == Init => IInv
<1> SUFFICES ASSUME Init PROVE IInv
  OBVIOUS
<1>1. /\ client = Initial /\ used = Live /\ events = UNION {client[c].events : c \in Live}
      /\ req = [r \in Slots |-> Idle] /\ jobs = {} /\ told = 0
      /\ got = [c \in ClientIds |-> [n \in 1..MaxNotices |-> 0]]
      /\ lost = got /\ failed = got /\ overtaken = {} /\ escaped = {}
  BY DEF Init
<1>2. client \in [ClientIds -> ClientRow \cup {None}]
  BY <1>1, ClientsAssumption
<1>3. \A c \in Live : c \in ClientIds /\ client[c] \in ClientRow
  BY <1>2 DEF Live, Exists
<1>4. TypesOK
  <2>1. events \subseteq Events
    BY <1>1, <1>3 DEF ClientRow
  <2>2. got \in PerNotice
    BY <1>1 DEF PerNotice
  <2>3. req \in [Slots -> Request]
    BY <1>1, IdleIsRequest
  <2>4. told \in 0..MaxNotices
    BY <1>1, BoundsAssumption
  <2> QED
    BY <1>1, <1>2, <2>1, <2>2, <2>3, <2>4 DEF TypesOK, Live
<1>5. EventsOK
  BY <1>1 DEF EventsOK
<1>6. RequestsOK
  <2> SUFFICES ASSUME NEW r \in Slots PROVE RequestOK(r)
    BY DEF RequestsOK
  <2>1. req[r] = Idle /\ Seen(r) = {}
    BY <1>1, IdleIsRequest DEF Seen
  <2>2. Idle.op = "idle" /\ Idle.event = None /\ Idle.donor = None
    BY DEF Idle
  <2> QED
    BY <2>1, <2>2 DEF RequestOK, OfEvent
<1>7. KeysOK
  <2> SUFFICES ASSUME NEW e \in Events, NEW c \in OwnClients(e), NEW d \in OwnClients(e)
               PROVE  c = d
    BY DEF KeysOK
  <2>1. /\ c \in ClientIds /\ client[c] # None /\ ~client[c].platform /\ e \in client[c].events
        /\ d \in ClientIds /\ client[d] # None /\ ~client[d].platform /\ e \in client[d].events
    BY DEF OwnClients, Live, Exists
  <2> QED
    BY <1>1, <2>1, KeysAssumption
<1>8. NoticesOK
  <2>1. \A c \in ClientIds, n \in 1..MaxNotices :
          got[c][n] = 0 /\ lost[c][n] = 0 /\ failed[c][n] = 0
    BY <1>1
  <2> QED
    BY <1>1, <2>1 DEF NoticesOK, Unanswered
<1> QED
  BY <1>4, <1>5, <1>6, <1>7, <1>8 DEF IInv

\* The counts stay where no notice is sent and no job runs.
LEMMA NoticesStay ==
  ASSUME IInv, UNCHANGED notices
  PROVE  /\ told' \in 0..MaxNotices /\ jobs' \subseteq Job' /\ NoticesOK'
         /\ got' \in PerNotice /\ lost' \in PerNotice /\ failed' \in PerNotice
         /\ escaped' \subseteq ClientIds \X (1..MaxNotices)
<1>1. /\ told' = told /\ jobs' = jobs /\ got' = got /\ lost' = lost /\ failed' = failed
      /\ escaped' = escaped
  BY DEF notices
<1>2. Job' = Job
  BY <1>1 DEF Job
<1>3. NoticesOK'
  BY <1>1 DEF IInv, NoticesOK, Unanswered
<1> QED
  BY <1>1, <1>2, <1>3 DEF IInv, TypesOK

\* The tables stay where no request commits.
LEMMA TablesStay ==
  ASSUME IInv, UNCHANGED <<client, used, overtaken>>, events \subseteq events'
  PROVE  /\ TablesMove /\ EventsOK' /\ KeysOK'
         /\ client' \in [ClientIds -> ClientRow \cup {None}]
         /\ Live' \subseteq used' /\ used' \subseteq ClientIds
<1>1. Live' = Live
  BY DEF Live, Exists
<1>2. \A e \in Events : OwnClients(e)' = OwnClients(e)
  BY <1>1 DEF OwnClients
<1> QED
  BY <1>1, <1>2 DEF IInv, TypesOK, TablesMove, EventsOK, KeysOK, Exists

\* Every step of the system keeps it.
LEMMA NextOK == IInv /\ [Next]_vars => IInv'
<1> SUFFICES ASSUME IInv, [Next]_vars PROVE IInv'
  OBVIOUS
<1>1. TypesOK /\ req \in [Slots -> Request] /\ events \subseteq Events
  BY DEF IInv, TypesOK
<1>2. ASSUME NEW r \in Slots, Starts(r) PROVE IInv'
  <2>1. UNCHANGED <<client, used, events, overtaken, notices>>
    BY <1>2, StartsKeep
  <2>2. req' \in [Slots -> Request] /\ RequestsOK'
    BY <1>2, StartsOK
  <2> QED
    BY <1>1, <2>1, <2>2, NoticesStay, TablesStay DEF IInv, TypesOK
<1>3. ASSUME NEW r \in Slots, Writes(r) PROVE IInv'
  <2>1. Ends(r) /\ UNCHANGED notices /\ overtaken' = overtaken \cup Overtakes(r)
    BY <1>3, WritesRows DEF Ends
  <2>2. CASE RowsMove(r)
    <3>1. TablesMove /\ EventsOK' /\ KeysOK' /\ Live' \subseteq used' /\ events' \subseteq Events
      BY <2>1, <2>2, RowsMoveTables, RowsMoveEvents, RowsMoveKeys
    <3>2. req' \in [Slots -> Request] /\ RequestsOK'
      BY <2>1, <3>1, EndsOK
    <3>3. used' \subseteq ClientIds /\ client' \in [ClientIds -> ClientRow \cup {None}]
      BY <2>2 DEF RowsMove
    <3> QED
      BY <2>1, <3>1, <3>2, <3>3, NoticesStay DEF IInv, TypesOK
  <2>3. CASE UNCHANGED <<client, used, events>>
    <3>1. TablesMove /\ EventsOK' /\ Live' \subseteq used'
      BY <2>3 DEF IInv, TypesOK, TablesMove, EventsOK, Live, Exists
    <3>2. KeysOK'
      <4>1. \A e \in Events : OwnClients(e)' = OwnClients(e)
        BY <2>3 DEF OwnClients, Live, Exists
      <4> QED
        BY <2>1, <4>1 DEF IInv, KeysOK
    <3>3. req' \in [Slots -> Request] /\ RequestsOK'
      BY <2>1, <3>1, EndsOK
    <3> QED
      BY <1>1, <2>1, <2>3, <3>1, <3>2, <3>3, NoticesStay DEF IInv, TypesOK
  <2> QED
    BY <1>3, <2>2, <2>3, WritesRows
\* Steps that begin and end no request.
<1>4. ASSUME TablesMove, UNCHANGED req PROVE req' \in [Slots -> Request] /\ RequestsOK'
  BY <1>1, <1>4, RequestStays DEF RequestsOK
<1>5. ASSUME NEW e \in Events, CreateEvent(e) PROVE IInv'
  <2>1. UNCHANGED <<client, used, req, overtaken, notices>> /\ events' = events \cup {e}
    BY <1>5 DEF CreateEvent
  <2> QED
    BY <1>1, <1>4, <2>1, NoticesStay, TablesStay DEF IInv, TypesOK
<1>6. ASSUME NEW e \in Events, NEW url \in Urls \cup {None}, NEW secret \in GivenSecrets,
             CreateClient(e, url, secret)
      PROVE  IInv'
  <2>1. UNCHANGED <<req, notices>>
    BY <1>6 DEF CreateClient
  <2> QED
    BY <1>4, <1>6, <2>1, NoticesStay, CreateClientOK DEF IInv, TypesOK
<1>7. ASSUME NEW e \in Events, NEW refused \in SUBSET ClientIds, DispatchTalkWebhook(e, refused)
      PROVE  IInv'
  <2>1. UNCHANGED <<client, used, events, req, overtaken, got, lost, failed, escaped>>
    BY <1>7 DEF DispatchTalkWebhook
  <2> QED
    BY <1>1, <1>4, <1>7, <2>1, DispatchOK, TablesStay DEF IInv, TypesOK
<1>8. ASSUME NEW job \in jobs, JobDeliverWebhook(job) PROVE IInv'
  <2>1. UNCHANGED <<client, used, events, req, overtaken, told>>
    BY <1>8 DEF JobDeliverWebhook
  <2>2. Job' = Job
    BY <2>1 DEF Job
  <2> QED
    BY <1>1, <1>4, <1>8, <2>1, <2>2, DeliversOK, TablesStay DEF IInv, TypesOK
<1>9. ASSUME UNCHANGED vars PROVE IInv'
  <2>1. UNCHANGED <<client, used, events, req, overtaken, notices>>
    BY <1>9 DEF vars, notices
  <2> QED
    BY <1>1, <1>4, <2>1, NoticesStay, TablesStay DEF IInv, TypesOK
<1> QED
  BY <1>2, <1>3, <1>5, <1>6, <1>7, <1>8, <1>9 DEF Next

\* It holds in every reachable state.
LEMMA Invariance == Spec => []IInv
  BY InitOK, NextOK, PTL DEF Spec

\* Rows, requests and notices always have their types; a client has only events
\* that exist, and no key is given twice.
THEOREM TypesHold == Spec => []ClientTypeOK
<1>1. IInv => ClientTypeOK
  <2> SUFFICES ASSUME IInv PROVE ClientTypeOK
    OBVIOUS
  <2>1. UNION {client[c].events : c \in Live} \subseteq events
    BY DEF IInv, EventsOK
  <2>2. \A r \in Slots : req[r].event \in events \cup {None} \/ req[r].op = "event"
    BY SeenAre DEF IInv, RequestsOK, RequestOK, Request
  <2>3. \A job \in jobs : job.attempt \in 1..2 /\ job.no \in 1..told
    BY DEF IInv, TypesOK, Job
  <2> QED
    BY <2>1, <2>2, <2>3 DEF IInv, TypesOK, ClientTypeOK
<1> QED
  BY <1>1, Invariance, PTL

\* An event has at most one key, however requests that load and commit
\* interleave, as long as none changes keys another one has not seen.
THEOREM AtMostOneKey == Spec => []OneKey
<1>1. IInv => OneKey
  <2> SUFFICES ASSUME IInv, NEW e \in Events \ overtaken
               PROVE  Cardinality(OwnClients(e)) <= 1
    BY DEF OneKey
  <2>1. CASE OwnClients(e) = {}
    BY <2>1, FS_EmptySet
  <2>2. ASSUME NEW c \in OwnClients(e) PROVE Cardinality(OwnClients(e)) <= 1
    <3>1. OwnClients(e) = {c}
      BY <2>2 DEF IInv, KeysOK
    <3>2. Cardinality({c}) = 1
      BY FS_Singleton
    <3> QED
      BY <3>1, <3>2
  <2> QED
    BY <2>1, <2>2
<1> QED
  BY <1>1, Invariance, PTL

\* A client gets each notice once, or twice if it did not accept it the first
\* time, and a notice that was tried once in vain has another attempt coming,
\* unless its job ended with the first.
THEOREM NoticesDoArrive == Spec => []NoticesArrive
<1>1. IInv => NoticesArrive
  <2> SUFFICES ASSUME IInv, NEW c \in ClientIds, NEW n \in 1..told
               PROVE  /\ got[c][n] <= 1 + lost[c][n] /\ got[c][n] + failed[c][n] <= 2
                      /\ TriedInVain(c, n) /\ <<c, n>> \notin escaped => TriedAgain(c, n)
    BY DEF NoticesArrive
  <2>1. n \in 1..MaxNotices
    BY BoundsAssumption DEF IInv, TypesOK
  <2>2. /\ got[c][n] <= 1 + lost[c][n] /\ got[c][n] + failed[c][n] <= 2
    BY <2>1 DEF IInv, NoticesOK
  <2>3. ASSUME TriedInVain(c, n), <<c, n>> \notin escaped
        PROVE  TriedAgain(c, n)
    <3>1. Unanswered(c, n)
      BY <2>3 DEF TriedInVain, Unanswered
    <3>2. PICK job \in jobs : job.client = c /\ job.no = n
      BY <2>1, <3>1 DEF IInv, NoticesOK
    <3>3. job.attempt # 1
      BY <2>1, <3>1, <3>2 DEF IInv, NoticesOK, Unanswered
    <3> QED
      BY <3>2, <3>3 DEF IInv, TypesOK, Job, TriedAgain
  <2> QED
    BY <2>2, <2>3
<1> QED
  BY <1>1, Invariance, PTL

-------------------------------------------------------------------------------
(* The events of a client are settled one by one *)

\* EventsStaySeparate for one step.
Separate ==
  \A c \in ClientIds, e \in Events :
    Exists(c) /\ Reach(c, e) # Reach(c, e)' =>
      \E r \in Slots :
        /\ req[r] # Idle /\ req'[r] = Idle
        /\ req[r].event = e \/ req[r].op = "own" \/ c \in Outdated(r)

\* Moving rows so keeps events separate.
LEMMA RowsMoveSeparate ==
  ASSUME IInv, NEW r \in Slots, RowsMove(r), Ends(r)
  PROVE  Separate
<1>1. TypesOK /\ RequestOK(r) /\ Seen(r) \subseteq ClientIds /\ req'[r] = Idle
  BY SeenAre DEF IInv, RequestsOK, TypesOK, Ends
<1> SUFFICES ASSUME NEW c \in ClientIds, NEW e \in Events, Exists(c),
                    req[r].event # e, req[r].op # "own", c \notin Outdated(r),
                    Reach(c, e) # Reach(c, e)'
             PROVE  FALSE
  <2>1. ASSUME NEW c \in ClientIds, NEW e \in Events, Exists(c), Reach(c, e) # Reach(c, e)'
        PROVE  req[r] # Idle
    <3>1. client'[c] # client[c]
      BY <2>1 DEF Reach, Exists
    <3>2. req[r].op # "idle"
      BY <1>1, <2>1, <3>1
         DEF RowsMove, Strips, Hooks, Joins, Comes, OfEvent, TypesOK, Live
    <3> QED
      BY <3>2 DEF Idle
  <2> QED
    BY <1>1, <2>1 DEF Separate
<1>2. c \in Seen(r) => client[c].events = req[r].seen[c].events
  BY DEF Outdated
<1>3. CASE client'[c] = client[c]
  BY <1>3 DEF Reach, Exists
<1>4. CASE Strips(r, c)
  <2>1. ~client[c].platform
    BY <1>1, <1>4 DEF RequestOK, Strips
  <2>2. CASE client'[c] = None
    BY <1>2, <1>4, <2>1, <2>2 DEF Strips, Reach, Exists
  <2>3. CASE client'[c] # None
    BY <1>2, <1>4, <2>3 DEF Strips, Reach, Exists
  <2> QED
    BY <2>2, <2>3
<1>5. CASE Hooks(r, c)
  <2>1. ~client[c].platform /\ e \notin client[c].events
    BY <1>1, <1>2, <1>5 DEF RequestOK, Hooks
  <2> QED
    BY <1>5, <2>1 DEF Hooks, Reach, Exists
<1>6. CASE Joins(r, c)
  <2>1. client'[c] # None
    BY <1>6, NoneAssumption DEF Joins
  <2> QED
    BY <1>2, <1>6, <2>1 DEF Joins, Reach, Exists
<1>7. ~Comes(r, c)
  BY <1>1 DEF Comes, TypesOK, Live
<1> QED
  BY <1>3, <1>4, <1>5, <1>6, <1>7 DEF RowsMove

\* So does every step of the system.
LEMMA StepsSeparate == IInv /\ [Next]_vars => Separate
<1> SUFFICES ASSUME IInv, [Next]_vars PROVE Separate
  OBVIOUS
<1>1. ASSUME \A c \in ClientIds : Exists(c) => client'[c] = client[c] PROVE Separate
  BY <1>1 DEF Separate, Reach, Exists
<1>2. ASSUME NEW r \in Slots, Writes(r) PROVE Separate
  BY <1>1, <1>2, WritesRows, RowsMoveSeparate
<1> QED
  BY <1>1, <1>2, StartsKeep, CreateClientOK
     DEF Next, CreateEvent, DispatchTalkWebhook, JobDeliverWebhook, vars

\* No request about one event changes what a client has of another one, unless
\* the client's events changed behind the request's back.
THEOREM EventsStaySeparate == Spec => EventsAreSeparate
<1>1. IInv /\ [Next]_vars => [Separate]_vars
  BY StepsSeparate
<1>2. Spec => [][Separate]_vars
  BY <1>1, Invariance, PTL DEF Spec
<1> QED
  BY <1>2, PTL DEF EventsAreSeparate, Separate
=============================================================================
