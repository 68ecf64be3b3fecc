--------------------------- MODULE AccountProperties --------------------------
(* What Accounts promises.                                                  *)
EXTENDS Accounts, StudioAccess

\* Every variable has its type.
AccountTypeOK ==
  /\ user \in [Users -> UserRow \cup {None}]
  /\ \A t \in tokens : t.user \in Users /\ t.pwh \in 1..MaxPw /\ t.proof \in 0..MaxPw
  /\ mail \subseteq [kind : Kinds, user : Users]
  /\ links \subseteq [kind : Kinds, user : Users, pw : 0..MaxPw]
  /\ keys \subseteq Keys /\ unpaid \subseteq keys
  /\ \A r \in Slots : req[r].user \in Users \cup {None}

\* Request r changes a row that was no active administrator when it read it.
Unaware(r) == req[r].user # None /\ ~ActiveAdmin(req[r].seen) /\ req'[r] # req[r]

\* No request takes the last active administrator away if the row it changes
\* was one when it was read, however many demote and deactivate each other at
\* the same time.  A row made an administrator after it was read is not spared.
AdminStays ==
  [][ActiveAdmins # {} /\ ActiveAdmins' = {} => \E r \in Slots : Unaware(r)]_vars

\* promote_user refuses where the "operation would leave zero active
\* administrators": so there is always one.
AdminRemains == ActiveAdmins # {}

\* However many verification links were mailed and however often they are
\* opened at the same time, one of them logs in, once.
VerifyOnce == \A u \in Users : logins[u] <= 1

\* All links to reset one password together reset it once.
ResetOnce == \A u \in Users, v \in 1..MaxPw : resets[u][v] <= 1

\* Whoever holds a live session or access token showed the password the
\* account has now, or opened its verification link.  The exception are users
\* whose login made them a speaker: the token is made from the row read after
\* that commit.
SessionsFollowPassword ==
  \A t \in tokens :
    Live(user, t) => t.proof \in {0, user[t.user].pw} \/ Speaks(t.user)

\* Within a cool-down at most one mail is asked for; and a cool-down during
\* which none was is the trace of a request in flight, of an address no mail
\* was due to, or of a Redis that took neither the job nor the key back.
CoolDown ==
  \A k \in Keys :
    /\ mails[k] <= 1
    /\ k \in keys /\ mails[k] = 0 =>
         k \in unpaid \/ \E r \in Slots : req[r].key /\ KeyOf(r) = k

Opens(creds) ==
  LET caller == CurrentUser(user, Clients, creds)
  IN  {k \in TalkIds : caller # Denied /\ TalkAccess(caller, k)}

\* The talks the account u gives access to.
Entitled(u) ==
  {k \in TalkIds : \/ user[u].role = "admin"
                   \/ SpeakerOf[k] = u
                   \/ CreatorOf[EventOf[k]] = u}

\* What a token opens follows the account as it is at the moment, not the
\* token: nothing once the account is deactivated or its password reset, and
\* no more than the role of today.  A stale key beside it makes no difference,
\* an invalid key or SSO token in a header closes everything, and a session
\* token is no access token nor the other way round.
AccessFollowsAccount ==
  \A t \in tokens :
    LET home == IF t.kind = "session" THEN "cookie" ELSE "bearer"
        other == IF t.kind = "session" THEN "bearer" ELSE "cookie"
        with(p, cred) == [NoCredentials EXCEPT ![home] = t, ![p] = cred]
        mine == IF Live(user, t) THEN Entitled(t.user) ELSE {}
    IN  /\ Opens([NoCredentials EXCEPT ![home] = t]) = mine
        /\ Opens(with("cookie_key", Key("stale"))) = mine
        /\ Opens(with("header_key", Key("stale"))) = {}
        /\ Opens(with("header_sso", Bad)) = {}
        /\ Opens([NoCredentials EXCEPT ![other] = t]) = {}

\* What does not depend on the state need only be true at the start.
AtFirst == asked = 0

\* Callers that are no accounts.
Machines ==
  {FromKey(Clients[n]) : n \in DOMAIN Clients} \cup {FromSso(t) : t \in SsoTokens}

Persons == {CallerOf(c) : c \in Callers} \ {Denied}

Agrees(caller, k) ==
  LET guest == caller.source = "sso" /\ caller.role = "speaker"
      e == EventOf[k]
  IN  /\ EventAccess(caller, e) => (TalkAccess(caller, k) \/ guest)
      /\ TalkAccess(caller, k) /\ ~(guest /\ caller.type = "talk" /\ caller.id = k) =>
           SpeakerOf[k] = caller.email \/ (EventAccess(caller, e) /\ ~guest)

\* check_event_access and check_talk_access agree: who may open an event may
\* open each of its talks, but a speaker with a link to the event only those
\* that name the speaker; who may open a talk and not its event is the speaker
\* the talk names or holds a link to that very talk.
EventOpensTalks ==
  /\ AtFirst => \A caller \in Machines, k \in TalkIds : Agrees(caller, k)
  /\ \A caller \in Persons, k \in TalkIds : Agrees(caller, k)

\* The credentials of a page: its cookie, and the key of an API client in
\* another one.
Page(cred, key) == [NoCredentials EXCEPT !.cookie = cred, !.cookie_key = key]
CookieKeys == {Key(n) : n \in DOMAIN Clients} \cup {Key("stale"), None}

\* The talks of the events a key is for; the studio has no platform clients.
Keyed(key) ==
  {k \in TalkIds : key # None /\ KnownKey(Clients, key)
                     /\ EventOf[k] \in Clients[key.name].events}

Opened(creds) == {k \in TalkIds : StudioOpens(user, Clients, creds, None, k)}
Listed(creds) == StudioLists(user, Clients, creds)

\* Without an account: a page opens what its SSO token opens through the API,
\* else what the key opens, and lists nothing else.
MachinesSeeTheirs ==
  \A key \in CookieKeys :
    /\ Opened(Page(None, key)) = Keyed(key)
    /\ Listed(Page(None, key)) = Keyed(key)
    /\ \A t \in SsoTokens :
         /\ Opened(Page(t, key)) = {k \in TalkIds : TalkAccess(FromSso(t), k)}
         /\ Listed(Page(t, key)) \subseteq Opened(Page(t, key))

\* An event with a talk by the organizer u: its talks are all listed.
OrganizerSpeaksAt(u, e) == user[u].role = "organizer" /\ e \in SpeaksAt(u)

\* The studio decides for itself and comes to the same as the API: a page with
\* a session opens the talks the session opens, and those of the key beside
\* it.  It lists only talks it opens, except that an organizer who speaks at
\* an event sees all talks of it.
StudioAgrees ==
  /\ AtFirst => MachinesSeeTheirs
  /\ \A t \in {s \in tokens : s.kind = "session"} :
       LET mine == Opens(Page(t, None))
       IN  \A key \in CookieKeys :
             LET opened == mine \cup Keyed(key)
             IN  /\ Opened(Page(t, key)) = opened
                 /\ \A k \in Listed(Page(t, key)) \ opened :
                      OrganizerSpeaksAt(t.user, EventOf[k])
===============================================================================
