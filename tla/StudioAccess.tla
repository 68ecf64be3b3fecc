------------------------------ MODULE StudioAccess -----------------------------
(***************************************************************************)
(* What the pages of the studio show and open (app/routes/studio.py).      *)
(*                                                                         *)
(* They do not ask get_current_user: which credentials count, in which     *)
(* order, and what they open is decided here once more, for one talk by    *)
(* _authorize_studio_talk and for the list of talks by                     *)
(* _render_talks_page.  AccountProperties compares the three.              *)
(***************************************************************************)
EXTENDS Access

\* get_ui_client: the client of the key in the header, else of the one in the
\* cookie; None where that key is not known.
UiClient(client, creds) ==
  LET key == IF creds.header_key # None THEN creds.header_key ELSE creds.cookie_key
  IN  IF key # None /\ KnownKey(client, key) THEN client[key.name] ELSE None

\* _get_authenticated_user_from_cookie.
SessionUser(user, creds) ==
  LET cred == creds.cookie
  IN  IF cred # None /\ cred.kind = "session" /\ Live(user, cred)
      THEN cred.user ELSE None

IsSso(cred) == cred # None /\ cred.kind = "sso"

KeyOpens(key, k) == key # None /\ EventOf[k] \in key.events

\* Faulty: a speaker need not be the one the talk names.
SsoOpensUnnamed(token, k) ==
  \/ token.type = "talk" /\ token.id = k
  \/ token.type = "event" /\ token.id = EventOf[k]

SsoOpens(token, k) ==
  \/ token.type = "talk" /\ token.id = k
  \/ /\ token.type = "event" /\ token.id = EventOf[k]
     /\ token.role = "speaker" => token.email # None /\ SpeakerOf[k] = token.email

UserOpens(u, row, k) ==
  row.role = "admin" \/ SpeakerOf[k] = u \/ CreatorOf[EventOf[k]] = u

\* _authorize_studio_talk.  link is the token in the address of the page: one
\* that is no SSO token hides one in the cookie.  A key adds to a session.
StudioOpens(user, client, creds, link, k) ==
  LET raw == IF link # None THEN link ELSE creds.cookie
      u == SessionUser(user, creds)
  IN  IF IsSso(raw) THEN SsoOpens(raw, k)
      ELSE \/ u # None /\ UserOpens(u, user[u], k)
           \/ KeyOpens(UiClient(client, creds), k)

SpeaksAt(u) == {EventOf[k] : k \in {j \in TalkIds : SpeakerOf[j] = u}}

\* The events _render_talks_page shows as a whole.
ListedEvents(u, row) ==
  IF row.role \in {"organizer", "admin"}
  THEN {e \in Events : CreatorOf[e] = u} \cup SpeaksAt(u) ELSE {}

\* A plain user whose address a talk names is made a speaker on the way, and
\* speakers see nothing but their own talks.
ListsForUser(u, row) ==
  LET own == {k \in TalkIds : SpeakerOf[k] = u}
      whole == {k \in TalkIds : EventOf[k] \in ListedEvents(u, row)}
  IN  CASE row.role = "speaker" \/ (row.role = "user" /\ own # {}) -> own
        [] row.role = "admin" -> whole
        [] OTHER -> whole \cup own

\* A token for one talk leads to that talk.
ListsForSso(token) ==
  IF token.type = "talk" THEN {token.id} \cap TalkIds
  ELSE {k \in TalkIds : /\ EventOf[k] = token.id
                        /\ token.role = "speaker" =>
                             token.email # None /\ SpeakerOf[k] = token.email}

\* _render_talks_page, without its filters.  A key in the header that is not
\* known closes the page.
StudioLists(user, client, creds) ==
  LET u == SessionUser(user, creds)
      key == UiClient(client, creds)
  IN  IF creds.header_key # None /\ key = None THEN {}
      ELSE CASE u # None -> ListsForUser(u, user[u])
             [] IsSso(creds.cookie) -> ListsForSso(creds.cookie)
             [] OTHER -> {k \in TalkIds : KeyOpens(key, k)}
===============================================================================
