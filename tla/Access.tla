-------------------------------- MODULE Access --------------------------------
(***************************************************************************)
(* Who calls, and what that caller may open (app/auth.py, app/security.py). *)
(*                                                                         *)
(* A request carries up to five credentials.  get_current_user takes the   *)
(* first in a fixed order and answers with a caller or with 401;           *)
(* check_event_access and check_talk_access judge that caller.  The tables *)
(* of users and of API clients are parameters: they change between two     *)
(* requests, while a signed token keeps saying what it said when issued.   *)
(***************************************************************************)
EXTENDS Naturals, Sequences

CONSTANTS
  Users,      \* e-mail addresses
  Events,
  TalkIds,
  EventOf,    \* EventOf[k]: the event of talk k
  SpeakerOf,  \* SpeakerOf[k]: the address of the speaker of talk k, or None
  CreatorOf,  \* CreatorOf[e]: the user who created event e, or None
  None

ASSUME EventOfAssumption == EventOf \in [TalkIds -> Events]
ASSUME SpeakerOfAssumption == SpeakerOf \in [TalkIds -> Users \cup {None}]
ASSUME CreatorOfAssumption == CreatorOf \in [Events -> Users \cup {None}]

Roles == {"user", "speaker", "organizer", "admin"}

\* Password versions: each hash differs from every other one.
UserRow ==
  [ role : Roles, active : BOOLEAN, verified : BOOLEAN, requested : BOOLEAN,
    pw : Nat \ {0} ]



-------------------------------------------------------------------------------
(* Credentials: keys, SSO tokens, session and access tokens, and what is    *)
(* expired, forged or malformed.                                            *)

Bad == [kind |-> "bad"]

Key(name) == [kind |-> "key", name |-> name]

\* create_session_token and create_access_token; proof is what the holder
\* showed for it: the version of a password, or 0 for a verification link.
Token(kind, u, row, proof) ==
  [kind |-> kind, user |-> u, role |-> row.role, pwh |-> row.pw, proof |-> proof]

TokenRow ==
  [ kind : {"session", "access"}, user : Users, role : Roles, pwh : Nat \ {0},
    proof : Nat ]

\* create_sso_token.  There is no token for the speakers of a whole event
\* that does not say which speaker.
SsoToken(type, id, role, email) ==
  [kind |-> "sso", type |-> type, id |-> id, role |-> role, email |-> email]

SsoTokens ==
  {SsoToken("event", e, "organizer", m) : e \in Events, m \in Users \cup {None}}
    \cup {SsoToken("event", e, "speaker", m) : e \in Events, m \in Users}
    \cup {SsoToken("talk", k, "speaker", m) : k \in TalkIds, m \in Users \cup {None}}

\* The credentials of a request, in the order in which they are looked at.
Places == <<"header_key", "header_sso", "cookie", "cookie_key", "bearer">>

NoCredentials == [p \in {Places[n] : n \in 1..5} |-> None]

\* The kinds of credential each place may hold; any other is refused.
Accepts ==
  [ header_key |-> {"key"}, header_sso |-> {"sso"}, cookie |-> {"session", "sso"},
    cookie_key |-> {"key"}, bearer |-> {"access", "sso"} ]

ASSUME NoneAssumption == None \notin UserRow \cup TokenRow \cup SsoTokens \cup {Bad}

-------------------------------------------------------------------------------
(* Callers *)

Denied == [source |-> "none"]

ClientRow == [events : SUBSET Events, platform : BOOLEAN]

\* _authenticate_api_key: a machine with the rights of an administrator in
\* its events.
FromKey(row) ==
  [ source |-> "api_key", user |-> None, role |-> "admin", email |-> None,
    type |-> "none", id |-> None, events |-> row.events, platform |-> row.platform ]

FromSso(token) ==
  [ source |-> "sso", user |-> None, role |-> token.role, email |-> token.email,
    type |-> token.type, id |-> token.id, platform |-> FALSE,
    events |-> IF token.type = "event" THEN {token.id} ELSE {} ]

\* Faulty: the role is the one the token was issued with.
FromUserAsIssued(place, token, row) ==
  [ source |-> IF place = "cookie" THEN "cookie" ELSE "jwt", user |-> token.user,
    role |-> token.role, email |-> token.user, type |-> "none", id |-> None,
    events |-> {}, platform |-> FALSE ]

FromUser(place, token, row) ==
  [ source |-> IF place = "cookie" THEN "cookie" ELSE "jwt", user |-> token.user,
    role |-> row.role, email |-> token.user, type |-> "none", id |-> None,
    events |-> {}, platform |-> FALSE ]

\* Faulty: the password is not compared.
LiveAnyPassword(user, token) == user[token.user] # None /\ user[token.user].active

\* The account is active and its password is the one the token was issued
\* under: verify_session_token_not_revoked.
Live(user, token) ==
  user[token.user] # None /\ user[token.user].active
    /\ user[token.user].pw = token.pwh

KnownKey(client, cred) == cred.kind = "key" /\ cred.name \in DOMAIN client

\* The places whose credential decides.  An API key in a cookie that is no
\* longer known is passed over; nothing else that is presented is.
Deciding(client, creds) ==
  {n \in 1..5 : /\ creds[Places[n]] # None
                /\ Places[n] = "cookie_key" => KnownKey(client, creds[Places[n]])}

Resolved(user, client, place, cred) ==
  IF cred.kind \notin Accepts[place] THEN Denied
  ELSE CASE KnownKey(client, cred) -> FromKey(client[cred.name])
         [] cred.kind = "sso" -> FromSso(cred)
         [] cred.kind \in {"session", "access"} /\ Live(user, cred) ->
              FromUser(place, cred, user[cred.user])
         [] OTHER -> Denied

CurrentUser(user, client, creds) ==
  LET deciding == Deciding(client, creds)
      first == CHOOSE n \in deciding : \A k \in deciding : n <= k
  IN  IF deciding = {} THEN Denied
      ELSE Resolved(user, client, Places[first], creds[Places[first]])

-------------------------------------------------------------------------------
(* What a caller may do *)

\* require_admin: a human, never a key.
RequireAdmin(caller) ==
  caller.source \in {"cookie", "jwt"} /\ caller.role = "admin"

HasEventAccess(caller, e) == caller.platform \/ e \in caller.events

EventAccess(caller, e) ==
  \/ caller.source = "api_key" /\ HasEventAccess(caller, e)
  \/ caller.source = "sso" /\ caller.type = "event" /\ caller.id = e
  \/ /\ caller.source \in {"cookie", "jwt"}
     /\ caller.role = "admin" \/ CreatorOf[e] = caller.user

IsSpeaker(caller, k) == caller.email # None /\ SpeakerOf[k] = caller.email

\* Faulty: a token for the event opens every talk, also to its speakers.
TalkAccessUnnamed(caller, k) ==
  \/ caller.source = "api_key" /\ HasEventAccess(caller, EventOf[k])
  \/ caller.source = "sso" /\ caller.type = "talk" /\ caller.id = k
  \/ caller.source = "sso" /\ caller.type = "event" /\ caller.id = EventOf[k]
  \/ /\ caller.source \in {"cookie", "jwt"}
     /\ \/ caller.role = "admin"
        \/ IsSpeaker(caller, k)
        \/ CreatorOf[EventOf[k]] = caller.user

TalkAccess(caller, k) ==
  \/ caller.source = "api_key" /\ HasEventAccess(caller, EventOf[k])
  \/ caller.source = "sso" /\ caller.type = "talk" /\ caller.id = k
  \/ /\ caller.source = "sso" /\ caller.type = "event" /\ caller.id = EventOf[k]
     /\ caller.role = "speaker" => IsSpeaker(caller, k)
  \/ /\ caller.source \in {"cookie", "jwt"}
     /\ \/ caller.role = "admin"
        \/ IsSpeaker(caller, k)
        \/ CreatorOf[EventOf[k]] = caller.user

\* check_talk_access makes a speaker of a plain user who opens a talk of theirs.
BecomesSpeaker(caller, k) ==
  caller.source \in {"cookie", "jwt"} /\ IsSpeaker(caller, k) /\ caller.role = "user"
===============================================================================
