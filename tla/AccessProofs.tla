----------------------------- MODULE AccessProofs -----------------------------
(***************************************************************************)
(* Who may open what, for every set of accounts, events, talks and clients *)
(* and in every state: the three places of the code that decide about      *)
(* access agree, and a token opens what its account may open now.          *)
(***************************************************************************)
EXTENDS AccountProofs

\* What a caller is who holds a live token.
LEMMA UserCaller ==
  ASSUME NEW place, NEW t, NEW row
  PROVE  LET c == FromUser(place, t, row)
         IN  /\ c.source \in {"cookie", "jwt"} /\ c.user = t.user /\ c.email = t.user
             /\ c.role = row.role /\ c # Denied
  BY DEF FromUser, Denied

\* A token in the table is a session or access token of some account.
LEMMA TokenOfUser ==
  ASSUME TokensOK, NEW t \in tokens
  PROVE  t.kind \in {"session", "access"} /\ t.user \in Users /\ t.user # None /\ t # None
  BY NoneAssumption, UsersAssumption DEF TokensOK, TokenRow

\* A live token opens what its account is entitled to.
LEMMA LiveTokenOpens ==
  ASSUME TokensOK, NEW t \in tokens, NEW place,
         NEW creds, CurrentUser(user, Clients, creds) = FromUser(place, t, user[t.user])
  PROVE  Opens(creds) = Entitled(t.user)
<1> DEFINE caller == FromUser(place, t, user[t.user])
<1>1. /\ caller.source \in {"cookie", "jwt"} /\ caller.user = t.user /\ caller.email = t.user
      /\ caller.role = user[t.user].role /\ caller # Denied
  BY UserCaller
<1> HIDE DEF caller
<1>2. t.user # None
  BY TokenOfUser
<1>3. \A k \in TalkIds :
        TalkAccess(caller, k) <=> user[t.user].role = "admin" \/ SpeakerOf[k] = t.user
                                    \/ CreatorOf[EventOf[k]] = t.user
  BY <1>1, <1>2 DEF TalkAccess, IsSpeaker
<1> QED
  BY <1>1, <1>3 DEF Opens, Entitled, caller

\* A caller who is denied opens nothing.
LEMMA DeniedOpens ==
  ASSUME NEW creds, CurrentUser(user, Clients, creds) = Denied
  PROVE  Opens(creds) = {}
  BY DEF Opens

\* A key that was revoked or never issued is known to no client.
LEMMA StaleKey ==
  /\ Key("stale").kind = "key" /\ ~KnownKey(Clients, Key("stale")) /\ Key("stale") # None
<1>1. Key("stale").kind = "key" /\ Key("stale").name = "stale"
  BY DEF Key
<1> QED
  BY <1>1, ClientsAssumption DEF KnownKey

\* The places are looked at in their order.
LEMMA Places5 == \A k \in 1..5 : k = 1 \/ k = 2 \/ k = 3 \/ k = 4 \/ k = 5
  OBVIOUS

\* A key in a cookie that is not known is passed over.
LEMMA StaleCookieKey ==
  ASSUME NEW place \in {"cookie", "bearer"}, NEW t, t # None
  PROVE  CurrentUser(user, Clients,
           [[NoCredentials EXCEPT ![place] = t] EXCEPT !["cookie_key"] = Key("stale")]) =
             Resolved(user, Clients, place, t)
<1> DEFINE creds == [[NoCredentials EXCEPT ![place] = t] EXCEPT !["cookie_key"] = Key("stale")]
           n == IF place = "cookie" THEN 3 ELSE 5
<1>1. n \in 1..5 /\ Places[n] = place /\ creds[place] = t /\ n # 4
  BY PlacesAre
<1>2. creds["cookie_key"] = Key("stale")
  BY PlacesAre
<1>3. \A k \in 1..5 : k # n /\ k # 4 => creds[Places[k]] = None
  BY Places5, PlacesAre
<1>4. 4 \notin Deciding(Clients, creds)
  BY <1>2, PlacesAre, StaleKey DEF Deciding
<1>5. n \in Deciding(Clients, creds) /\ \A k \in Deciding(Clients, creds) : n <= k
  BY <1>1, <1>3, <1>4, PlacesAre DEF Deciding
<1> HIDE DEF creds, n
<1> QED
  BY <1>1, <1>5, FirstDecides DEF creds

\* A key in the header that is not known closes everything.
LEMMA StaleHeaderKey ==
  ASSUME NEW place \in {"cookie", "bearer"}, NEW t
  PROVE  CurrentUser(user, Clients,
           [[NoCredentials EXCEPT ![place] = t] EXCEPT !["header_key"] = Key("stale")]) = Denied
<1> DEFINE creds == [[NoCredentials EXCEPT ![place] = t] EXCEPT !["header_key"] = Key("stale")]
<1>1. creds["header_key"] = Key("stale") /\ 1 \in 1..5
  BY PlacesAre
<1> HIDE DEF creds
<1>2. 1 \in Deciding(Clients, creds) /\ \A k \in Deciding(Clients, creds) : 1 <= k
  BY <1>1, StaleKey, PlacesAre DEF Deciding
<1>3. Resolved(user, Clients, "header_key", Key("stale")) = Denied
  BY StaleKey DEF Resolved, Accepts
<1> QED
  BY <1>1, <1>2, <1>3, FirstDecides, PlacesAre DEF creds

\* So does an SSO token in the header that is not valid.
LEMMA BadHeaderToken ==
  ASSUME NEW place \in {"cookie", "bearer"}, NEW t
  PROVE  CurrentUser(user, Clients,
           [[NoCredentials EXCEPT ![place] = t] EXCEPT !["header_sso"] = Bad]) = Denied
<1> DEFINE creds == [[NoCredentials EXCEPT ![place] = t] EXCEPT !["header_sso"] = Bad]
<1>1. creds["header_sso"] = Bad /\ creds["header_key"] = None /\ 2 \in 1..5
  BY PlacesAre
<1> HIDE DEF creds
<1>2. 2 \in Deciding(Clients, creds) /\ \A k \in Deciding(Clients, creds) : 2 <= k
  BY <1>1, NoneAssumption, PlacesAre DEF Deciding
<1>3. Resolved(user, Clients, "header_sso", Bad) = Denied
  BY DEF Resolved, Accepts, Bad
<1>4. CurrentUser(user, Clients, creds) =
        Resolved(user, Clients, Places[2], creds[Places[2]])
  BY <1>1, <1>2, FirstDecides
<1> QED
  BY <1>1, <1>3, <1>4, PlacesAre DEF creds

\* What a token opens is what its account is entitled to now, and nothing if
\* the account is not active or has another password: the token says who it
\* is for, the row says the rest.
THEOREM AccessFollows == Spec => []AccessFollowsAccount
<1>1. ASSUME IInv, NEW t \in tokens
      PROVE  LET home == IF t.kind = "session" THEN "cookie" ELSE "bearer"
                 other == IF t.kind = "session" THEN "bearer" ELSE "cookie"
                 with(p, cred) == [NoCredentials EXCEPT ![home] = t, ![p] = cred]
                 mine == IF Live(user, t) THEN Entitled(t.user) ELSE {}
             IN  /\ Opens([NoCredentials EXCEPT ![home] = t]) = mine
                 /\ Opens(with("cookie_key", Key("stale"))) = mine
                 /\ Opens(with("header_key", Key("stale"))) = {}
                 /\ Opens(with("header_sso", Bad)) = {}
                 /\ Opens([NoCredentials EXCEPT ![other] = t]) = {}
  <2> DEFINE home == IF t.kind = "session" THEN "cookie" ELSE "bearer"
             other == IF t.kind = "session" THEN "bearer" ELSE "cookie"
             with(p, cred) == [NoCredentials EXCEPT ![home] = t, ![p] = cred]
             mine == IF Live(user, t) THEN Entitled(t.user) ELSE {}
  <2>1. TokensOK
    BY <1>1 DEF IInv
  <2>2. t.kind \in {"session", "access"} /\ t # None
    BY <2>1, TokenOfUser
  <2>3. /\ home \in {"cookie", "bearer"} /\ other \in {"cookie", "bearer"}
        /\ t.kind = "session" <=> home = "cookie"
        /\ ~(t.kind = "session" <=> other = "cookie")
    BY <2>2
  <2> HIDE DEF home, other
  <2>4. ASSUME NEW creds, CurrentUser(user, Clients, creds) = Resolved(user, Clients, home, t)
        PROVE  Opens(creds) = mine
    <3>1. CASE Live(user, t)
      BY <2>1, <2>2, <2>3, <2>4, <3>1, TokenResolves, LiveTokenOpens
    <3>2. CASE ~Live(user, t)
      BY <2>2, <2>3, <2>4, <3>2, TokenResolves, DeniedOpens
    <3> QED
      BY <3>1, <3>2
  <2> HIDE DEF mine
  <2>5. Opens([NoCredentials EXCEPT ![home] = t]) = mine
    BY <2>2, <2>3, <2>4, OneToken
  <2>6. Opens(with("cookie_key", Key("stale"))) = mine
    BY <2>2, <2>3, <2>4, StaleCookieKey
  <2>7. Opens(with("header_key", Key("stale"))) = {}
    BY <2>3, StaleHeaderKey, DeniedOpens
  <2>8. Opens(with("header_sso", Bad)) = {}
    BY <2>3, BadHeaderToken, DeniedOpens
  <2>9. Opens([NoCredentials EXCEPT ![other] = t]) = {}
    BY <2>2, <2>3, OneToken, TokenResolves, DeniedOpens
  <2> QED
    BY <2>5, <2>6, <2>7, <2>8, <2>9 DEF home, other, mine
<1>2. IInv => AccessFollowsAccount
  BY <1>1 DEF AccessFollowsAccount
<1> QED
  BY <1>2, Invariance, PTL

-------------------------------------------------------------------------------
(* Events and their talks *)

\* The three kinds of caller.
LEMMA KeyCaller ==
  ASSUME NEW n \in DOMAIN Clients
  PROVE  LET c == FromKey(Clients[n])
         IN  c.source = "api_key" /\ c.role = "admin"
  BY DEF FromKey

\* An SSO token gives its own caller, and is one that create_sso_token makes.
LEMMA SsoCaller ==
  ASSUME NEW t \in SsoTokens
  PROVE  LET c == FromSso(t)
         IN  /\ c.source = "sso" /\ c.role = t.role /\ c.email = t.email
             /\ c.type = t.type /\ c.id = t.id
             /\ t.type \in {"event", "talk"} /\ t.role \in {"speaker", "organizer"}
             /\ t.type = "talk" => t.role = "speaker"
             /\ t.kind = "sso"
  BY DEF FromSso, SsoTokens, SsoToken

\* check_event_access and check_talk_access decide alike about each of them.
LEMMA AllAgree ==
  ASSUME NEW c, NEW k \in TalkIds,
         \/ c.source = "api_key"
         \/ c.source \in {"cookie", "jwt"}
         \/ /\ c.source = "sso" /\ c.type \in {"event", "talk"}
            /\ c.role \in {"speaker", "organizer"} /\ (c.type = "talk" => c.role = "speaker"),
         c.source \in {"cookie", "jwt"} => c.email = c.user
  PROVE  Agrees(c, k)
<1>1. CASE c.source = "api_key"
  BY <1>1 DEF Agrees, EventAccess, TalkAccess
<1>2. CASE c.source \in {"cookie", "jwt"}
  BY <1>2 DEF Agrees, EventAccess, TalkAccess, IsSpeaker
<1>3. CASE c.source = "sso"
  BY <1>3 DEF Agrees, EventAccess, TalkAccess, IsSpeaker
<1> QED
  BY <1>1, <1>2, <1>3

\* Whoever may open an event may open its talks, and the other way round,
\* with the exceptions that EventOpensTalks names.
THEOREM AccessAgrees == Spec => []EventOpensTalks
<1>1. ASSUME NEW k \in TalkIds, NEW caller \in Machines PROVE Agrees(caller, k)
  BY <1>1, KeyCaller, SsoCaller, AllAgree DEF Machines
<1>2. ASSUME IInv, NEW k \in TalkIds, NEW caller \in Persons PROVE Agrees(caller, k)
  <2>1. PICK c \in Callers : caller = CallerOf(c) /\ caller # Denied
    BY DEF Persons
  <2>2. caller = FromUser(c.place, c.token, user[c.token.user])
    BY <1>2, <2>1, CallerIsUser DEF IInv
  <2>3. caller.source \in {"cookie", "jwt"} /\ caller.email = caller.user
    BY <2>2, UserCaller
  <2> QED
    BY <2>3, AllAgree
<1>3. IInv => EventOpensTalks
  BY <1>1, <1>2 DEF EventOpensTalks
<1> QED
  BY <1>3, Invariance, PTL

-------------------------------------------------------------------------------
(* The studio *)

\* The cookies of a page.
LEMMA PageHas ==
  ASSUME NEW cred, NEW key
  PROVE  /\ Page(cred, key).cookie = cred /\ Page(cred, key).cookie_key = key
         /\ Page(cred, key).header_key = None
  BY PlacesAre DEF Page

\* The key of a page counts where its client is known.
LEMMA PageKey ==
  ASSUME NEW cred, NEW key \in CookieKeys, NEW k \in TalkIds
  PROVE  KeyOpens(UiClient(Clients, Page(cred, key)), k) <=> k \in Keyed(key)
<1>1. UiClient(Clients, Page(cred, key)) =
        IF key # None /\ KnownKey(Clients, key) THEN Clients[key.name] ELSE None
  BY PageHas DEF UiClient
<1>2. KnownKey(Clients, key) => Clients[key.name] # None
  BY ClientsAssumption DEF KnownKey
<1> QED
  BY <1>1, <1>2 DEF KeyOpens, Keyed

\* Without an account and without an SSO token the key decides alone.
LEMMA KeyAlone ==
  ASSUME NEW key \in CookieKeys
  PROVE  Opened(Page(None, key)) = Keyed(key) /\ Listed(Page(None, key)) = Keyed(key)
<1>1. SessionUser(user, Page(None, key)) = None /\ ~IsSso(Page(None, key).cookie)
  BY PageHas DEF SessionUser, IsSso
<1>2. \A k \in TalkIds : StudioOpens(user, Clients, Page(None, key), None, k) <=> k \in Keyed(key)
  BY <1>1, PageKey DEF StudioOpens
<1>3. Listed(Page(None, key)) =
        {k \in TalkIds : KeyOpens(UiClient(Clients, Page(None, key)), k)}
  BY <1>1, PageHas DEF Listed, StudioLists
<1> QED
  BY <1>2, <1>3, PageKey DEF Opened, Keyed

\* With an SSO token the key does not count.
LEMMA SsoAlone ==
  ASSUME NEW key \in CookieKeys, NEW t \in SsoTokens
  PROVE  /\ Opened(Page(t, key)) = {k \in TalkIds : TalkAccess(FromSso(t), k)}
         /\ Listed(Page(t, key)) \subseteq Opened(Page(t, key))
<1>1. t # None /\ t.kind = "sso"
  BY NoneAssumption, SsoCaller
<1>2. /\ IsSso(t) /\ Page(t, key).cookie = t /\ Page(t, key).header_key = None
      /\ SessionUser(user, Page(t, key)) = None
  BY <1>1, PageHas DEF IsSso, SessionUser
<1>3. \A k \in TalkIds : StudioOpens(user, Clients, Page(t, key), None, k) <=> SsoOpens(t, k)
  BY <1>2 DEF StudioOpens
<1>4. \A k \in TalkIds : SsoOpens(t, k) <=> TalkAccess(FromSso(t), k)
  BY SsoCaller DEF SsoOpens, TalkAccess, IsSpeaker
<1>5. Listed(Page(t, key)) = ListsForSso(t)
  BY <1>2 DEF Listed, StudioLists
<1>6. \A k \in ListsForSso(t) : k \in TalkIds /\ SsoOpens(t, k)
  BY SsoCaller DEF ListsForSso, SsoOpens
<1> QED
  BY <1>3, <1>4, <1>5, <1>6 DEF Opened

\* What the page lists for a user and does not open.
LEMMA ListedNotOpened ==
  ASSUME NEW u, NEW row, NEW k \in ListsForUser(u, row), ~UserOpens(u, row, k)
  PROVE  row.role = "organizer" /\ EventOf[k] \in SpeaksAt(u)
<1> DEFINE own == {j \in TalkIds : SpeakerOf[j] = u}
           whole == {j \in TalkIds : EventOf[j] \in ListedEvents(u, row)}
<1>1. k \notin own
  BY DEF UserOpens
<1>2. row.role # "admin"
  BY DEF UserOpens
<1>3. row.role # "speaker" /\ k \in whole
  BY <1>1, <1>2 DEF ListsForUser
<1> QED
  BY <1>2, <1>3 DEF ListedEvents, UserOpens

\* A page with a session and a key.
LEMMA SessionAndKey ==
  ASSUME IInv, NEW t \in tokens, t.kind = "session", NEW key \in CookieKeys
  PROVE  LET opened == Opens(Page(t, None)) \cup Keyed(key)
         IN  /\ Opened(Page(t, key)) = opened
             /\ \A k \in Listed(Page(t, key)) \ opened : OrganizerSpeaksAt(t.user, EventOf[k])
<1> DEFINE mine == IF Live(user, t) THEN Entitled(t.user) ELSE {}
           u == SessionUser(user, Page(t, key))
<1>1. t.user # None /\ t # None /\ TokensOK
  BY TokenOfUser DEF IInv
<1>2. Opens(Page(t, None)) = mine
  <2>1. Page(t, None) = [NoCredentials EXCEPT !["cookie"] = t]
    BY PlacesAre DEF Page
  <2>2. CurrentUser(user, Clients, Page(t, None)) = Resolved(user, Clients, "cookie", t)
    BY <1>1, <2>1, OneToken
  <2>3. CASE Live(user, t)
    BY <1>1, <2>2, <2>3, TokenResolves, LiveTokenOpens
  <2>4. CASE ~Live(user, t)
    BY <2>2, <2>4, TokenResolves, DeniedOpens
  <2> QED
    BY <2>3, <2>4
<1>3. u = (IF Live(user, t) THEN t.user ELSE None) /\ ~IsSso(t)
  BY <1>1, PageHas DEF SessionUser, IsSso
<1> HIDE DEF u
<1>4. Opened(Page(t, key)) = mine \cup Keyed(key)
  <2>1. ASSUME NEW k \in TalkIds
        PROVE  StudioOpens(user, Clients, Page(t, key), None, k) <=>
                 (u # None /\ UserOpens(u, user[u], k)) \/ k \in Keyed(key)
    BY <1>3, PageHas, PageKey DEF StudioOpens, u
  <2>2. \A k \in TalkIds : k \in mine <=> u # None /\ UserOpens(u, user[u], k)
    BY <1>1, <1>3 DEF UserOpens, Entitled
  <2> QED
    BY <2>1, <2>2 DEF Opened, Entitled, Keyed
<1>5. ASSUME NEW k \in Listed(Page(t, key)), k \notin mine \cup Keyed(key)
      PROVE  OrganizerSpeaksAt(t.user, EventOf[k])
  <2>1. CASE Live(user, t)
    <3>1. Listed(Page(t, key)) = ListsForUser(t.user, user[t.user])
      BY <1>1, <1>3, <2>1, PageHas DEF Listed, StudioLists, u
    <3>2. k \in TalkIds
      BY <1>5, <3>1 DEF ListsForUser
    <3>3. ~UserOpens(t.user, user[t.user], k)
      BY <1>5, <2>1, <3>2 DEF UserOpens, Entitled
    <3> QED
      BY <1>5, <3>1, <3>3, ListedNotOpened DEF OrganizerSpeaksAt
  <2>2. CASE ~Live(user, t)
    <3>1. Listed(Page(t, key)) =
            {j \in TalkIds : KeyOpens(UiClient(Clients, Page(t, key)), j)}
      BY <1>3, <2>2, PageHas DEF Listed, StudioLists, u
    <3> QED
      BY <1>5, <3>1, PageKey
  <2> QED
    BY <2>1, <2>2
<1> QED
  BY <1>2, <1>4, <1>5

\* The pages of the studio decide for themselves and come to what the API
\* decides, with the one exception that StudioAgrees names.
THEOREM StudioOpensTheSame == Spec => []StudioAgrees
<1>1. MachinesSeeTheirs
  BY KeyAlone, SsoAlone DEF MachinesSeeTheirs
<1>2. IInv => StudioAgrees
  BY <1>1, SessionAndKey DEF StudioAgrees
<1> QED
  BY <1>2, Invariance, PTL
===============================================================================
