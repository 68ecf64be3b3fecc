----------------------------- MODULE AccountProofs -----------------------------
(***************************************************************************)
(* The safety of accounts for every number of users, of requests in flight *)
(* and of passwords.  What several requests may do at the same time is     *)
(* settled by what each of them holds (WellFormed) and by how the rows may *)
(* change (RowsGrow): no account disappears, a verified address stays      *)
(* verified, and no password returns.                                      *)
(***************************************************************************)
EXTENDS AccountProperties, FiniteSetTheorems, TLAPS

\* The rows of users that can occur.
Row == {row \in UserRow : row.pw <= MaxPw}

\* The phases in which a request is about an account that exists.
OfAccount ==
  {"issue", "reload", "verify", "reset", "organizer", "speaker", "activate",
   "deactivate", "promote"}

\* The phases that go on with the row as it was read.
Rereads == {"issue", "reset", "activate", "deactivate", "promote"}

\* Where a request may stand: not in flight, asking for mail, or working on an account.
Phases == {"idle", "mail", "lookup"} \cup OfAccount

\* What a slot may hold.
Request ==
  [ phase : Phases, user : Users \cup {None}, seen : Row \cup {None},
    kind : Kinds \cup {"none", "session", "access"}, proof : 0..MaxPw,
    key : BOOLEAN, role : Roles \cup {"none"} ]

\* What request q holds in each phase, given the table of users.
WellFormed(q, rows) ==
  /\ q \in Request
  /\ q.phase = "idle" <=> q = Idle
  /\ q.phase # "idle" => q.user \in Users
  /\ q.phase \in OfAccount => rows[q.user] # None
  /\ q.phase \in Rereads => q.seen \in Row
  /\ q.phase \in {"issue", "reload", "verify"} => q.kind \in {"session", "access"}
  /\ q.phase = "issue" => q.proof \in {0, q.seen.pw} \/ Speaks(q.user)
  /\ q.phase = "reload" => q.proof = 0 \/ Speaks(q.user)
  /\ q.phase = "verify" => q.proof = 0
  /\ q.phase = "reset" => q.seen.pw < MaxPw
  /\ q.phase \in {"mail", "lookup"} => q.kind \in Kinds
  /\ q.phase = "lookup" => q.kind = "verify" /\ q.key
  /\ q.key => q.phase \in {"mail", "lookup"}
  /\ q.phase = "promote" => q.role \in Roles
  /\ q.phase = "deactivate" => q.role = "none"
  /\ q.phase = "speaker" => q.seen = None

\* Every row is a row of the users table, or there is none.
RowsOK == user \in [Users -> Row \cup {None}]

\* Every slot holds a request, with what its phase needs.
SlotsOK == req \in [Slots -> Request] /\ \A r \in Slots : WellFormed(req[r], user)

\* A token was issued for the password it is bound to, unless it was made for
\* a verification link or for a user who had just become a speaker.
TokensOK ==
  /\ tokens \subseteq TokenRow
  /\ \A t \in tokens :
       /\ t.pwh \in 1..MaxPw /\ t.proof \in 0..MaxPw
       /\ t.proof \in {0, t.pwh} \/ Speaks(t.user)

\* Mail jobs and links are about accounts, and carry a password version.
LinksOK ==
  /\ mail \subseteq [kind : Kinds, user : Users]
  /\ links \subseteq [kind : Kinds, user : Users, pw : 0..MaxPw]

\* Request q is about to open a session for a verification link.
LogsIn(q) == q.phase \in {"issue", "reload"} /\ q.proof = 0

\* The account's address has been verified.
Verified(u) == user[u] # None /\ user[u].verified

\* One request at most is about to, of all for one account; and none once a
\* session was opened.
LoginsOK ==
  /\ logins \in [Users -> 0..1]
  /\ \A u \in Users : logins[u] = 1 => Verified(u)
  /\ \A r \in Slots : LogsIn(req[r]) => Verified(req[r].user) /\ logins[req[r].user] = 0
  /\ \A r, s \in Slots :
       LogsIn(req[r]) /\ LogsIn(req[s]) /\ req[r].user = req[s].user => r = s

\* A password that a link has replaced is not the password any more.
ResetsOK ==
  /\ resets \in [Users -> [1..MaxPw -> 0..1]]
  /\ \A u \in Users, v \in 1..MaxPw :
       resets[u][v] = 1 => user[u] # None /\ v < user[u].pw

\* A request that holds a cool-down key is the only one to hold it, and no
\* mail has been asked for under it yet.
KeysOK ==
  /\ keys \subseteq Keys /\ unpaid \subseteq keys
  /\ mails \in [Keys -> 0..1]
  /\ \A k \in Keys : k \notin keys => mails[k] = 0
  /\ \A r \in Slots : req[r].key => KeyOf(r) \in keys \ unpaid /\ mails[KeyOf(r)] = 0
  /\ \A r, s \in Slots : req[r].key /\ req[s].key /\ KeyOf(r) = KeyOf(s) => r = s
  /\ \A k \in keys :
       mails[k] = 0 => k \in unpaid \/ \E r \in Slots : req[r].key /\ KeyOf(r) = k

\* The inductive invariant.
IInv ==
  RowsOK /\ SlotsOK /\ TokensOK /\ LinksOK /\ LoginsOK /\ ResetsOK /\ KeysOK

-------------------------------------------------------------------------------
\* Accounts stay, verified addresses stay verified, passwords only go forward.
RowsGrow ==
  \A u \in Users :
    user[u] # None =>
      /\ user'[u] # None
      /\ user[u].verified => user'[u].verified
      /\ user[u].pw <= user'[u].pw

\* A row of the table is one that can occur, and no row is None.
LEMMA RowIsThere ==
  ASSUME RowsOK, NEW u \in Users, user[u] # None
  PROVE  user[u] \in Row /\ user[u] \in UserRow /\ user[u].pw \in 1..MaxPw
  BY PasswordsAssumption DEF RowsOK, Row, UserRow

\* Writing one row.
LEMMA SetsGrows ==
  ASSUME RowsOK, NEW u \in Users, NEW row \in Row, Sets(u, row),
         user[u] # None => (user[u].verified => row.verified) /\ user[u].pw <= row.pw
  PROVE  RowsOK' /\ RowsGrow
<1>1. row # None
  BY NoneAssumption DEF Row
<1>2. RowsOK'
  BY DEF RowsOK, Sets
<1>3. ASSUME NEW v \in Users, user[v] # None
      PROVE  user'[v] # None /\ (user[v].verified => user'[v].verified) /\ user[v].pw <= user'[v].pw
  <2>1. user[v].pw \in Nat
    BY <1>3, RowIsThere
  <2> QED
    BY <1>1, <1>3, <2>1 DEF RowsOK, Sets
<1> QED
  BY <1>2, <1>3 DEF RowsGrow

\* Leaving the table alone.
LEMMA SameRowsGrow ==
  ASSUME RowsOK, UNCHANGED user
  PROVE  RowsOK' /\ RowsGrow
<1>1. ASSUME NEW u \in Users, user[u] # None PROVE user[u].pw <= user'[u].pw
  BY <1>1, RowIsThere
<1> QED
  BY <1>1 DEF RowsOK, RowsGrow

\* What a request holds stays right while others change the table.
LEMMA RequestStays ==
  ASSUME NEW q, WellFormed(q, user), RowsGrow
  PROVE  WellFormed(q, user')
<1>1. q.phase \in OfAccount => q.user \in Users
  BY DEF WellFormed, OfAccount, Request, Phases
<1> QED
  BY <1>1 DEF WellFormed, RowsGrow

\* A step of one slot keeps the slots, if rows only grow.
LEMMA SlotsStay ==
  ASSUME SlotsOK, RowsGrow, NEW r \in Slots, NEW q, WellFormed(q, user'),
         req' = [req EXCEPT ![r] = q]
  PROVE  SlotsOK'
<1>1. q \in Request
  BY DEF WellFormed
<1>2. ASSUME NEW s \in Slots PROVE WellFormed(req'[s], user')
  BY RequestStays DEF SlotsOK
<1> QED
  BY <1>1, <1>2 DEF SlotsOK

\* A step of no slot does as well.
LEMMA SameSlotsStay ==
  ASSUME SlotsOK, RowsGrow, UNCHANGED req
  PROVE  SlotsOK'
  BY RequestStays DEF SlotsOK

\* A step that opens no session and lets no further request be about to.
LEMMA LoginsStay ==
  ASSUME LoginsOK, SlotsOK, RowsGrow, NEW r \in Slots, NEW q, req' = [req EXCEPT ![r] = q],
         LogsIn(q) => LogsIn(req[r]) /\ q.user = req[r].user, UNCHANGED logins
  PROVE  LoginsOK'
<1>1. ASSUME NEW s \in Slots
      PROVE  LogsIn(req'[s]) => LogsIn(req[s]) /\ req'[s].user = req[s].user
  BY DEF SlotsOK
<1>2. ASSUME NEW s \in Slots, LogsIn(req[s]) PROVE req[s].user \in Users
  BY <1>2 DEF SlotsOK, WellFormed, LogsIn, OfAccount
<1>3. ASSUME NEW u \in Users, Verified(u) PROVE Verified(u)'
  BY <1>3 DEF Verified, RowsGrow
<1>4. \A u \in Users : logins'[u] = 1 => Verified(u)'
  BY <1>3 DEF LoginsOK
<1>5. ASSUME NEW s \in Slots, LogsIn(req'[s])
      PROVE  Verified(req[s].user)' /\ logins'[req'[s].user] = 0
  BY <1>1, <1>2, <1>3, <1>5 DEF LoginsOK, Verified
<1>6. ASSUME NEW s \in Slots, NEW t \in Slots, LogsIn(req'[s]), LogsIn(req'[t]),
             req'[s].user = req'[t].user
      PROVE  s = t
  BY <1>1, <1>6 DEF LoginsOK
<1> QED
  BY <1>4, <1>5, <1>6 DEF LoginsOK, LogsIn

\* A step of no slot keeps what is known of logins by a link.
LEMMA SameLoginsStay ==
  ASSUME LoginsOK, SlotsOK, RowsGrow, UNCHANGED <<req, logins>>
  PROVE  LoginsOK'
<1>1. ASSUME NEW u \in Users, Verified(u) PROVE Verified(u)'
  BY <1>1 DEF Verified, RowsGrow
<1>2. ASSUME NEW s \in Slots, LogsIn(req[s]) PROVE req[s].user \in Users
  BY <1>2 DEF SlotsOK, WellFormed, LogsIn, OfAccount
<1> QED
  BY <1>1, <1>2 DEF LoginsOK, LogsIn, Verified

\* A step that resets no password.
LEMMA ResetsStay ==
  ASSUME ResetsOK, RowsOK, RowsOK', RowsGrow, UNCHANGED resets
  PROVE  ResetsOK'
<1>1. ASSUME NEW u \in Users, NEW v \in 1..MaxPw, resets[u][v] = 1
      PROVE  user'[u] # None /\ v < user'[u].pw
  <2>1. user[u] # None /\ v < user[u].pw
    BY <1>1 DEF ResetsOK
  <2>2. user'[u] # None /\ user[u].pw <= user'[u].pw
    BY <2>1 DEF RowsGrow
  <2>3. user[u].pw \in Nat /\ user'[u].pw \in Nat
    BY <2>1, <2>2 DEF RowsOK, Row, UserRow
  <2> QED
    BY <2>1, <2>2, <2>3
<1> QED
  BY <1>1 DEF ResetsOK

\* A step that neither takes nor uses a cool-down key.
LEMMA KeysStay ==
  ASSUME KeysOK, NEW r \in Slots, NEW q, req' = [req EXCEPT ![r] = q],
         SlotsOK, q.key <=> req[r].key,
         q.key => q.kind = req[r].kind /\ q.user = req[r].user,
         UNCHANGED <<keys, unpaid, mails>>
  PROVE  KeysOK'
<1>1. ASSUME NEW s \in Slots
      PROVE  (req'[s].key <=> req[s].key) /\ (req[s].key => KeyOf(s)' = KeyOf(s))
  BY DEF SlotsOK, KeyOf
<1> QED
  BY <1>1 DEF KeysOK

\* A step that neither mails nor touches a key keeps the cool-downs.
LEMMA SameKeysStay ==
  ASSUME KeysOK, UNCHANGED <<req, keys, unpaid, mails>>
  PROVE  KeysOK'
  BY DEF KeysOK, KeyOf

-------------------------------------------------------------------------------
\* A step of one request that touches neither tokens, nor mail, nor resets.
LEMMA QuietStep ==
  ASSUME IInv, RowsOK', RowsGrow, NEW r \in Slots, NEW q, WellFormed(q, user'),
         req' = [req EXCEPT ![r] = q], ~req[r].key, ~q.key,
         LogsIn(q) => LogsIn(req[r]) /\ q.user = req[r].user,
         UNCHANGED <<sessions, mailing, resets>>
  PROVE  IInv'
<1> USE DEF sessions, mailing
<1>1. SlotsOK'
  BY SlotsStay DEF IInv
<1>2. LoginsOK'
  BY LoginsStay DEF IInv
<1>3. ResetsOK'
  BY ResetsStay DEF IInv
<1>4. KeysOK'
  BY KeysStay DEF IInv
<1>5. TokensOK' /\ LinksOK'
  BY DEF IInv, TokensOK, LinksOK
<1> QED
  BY <1>1, <1>2, <1>3, <1>4, <1>5 DEF IInv

\* A step that changes rows only.
LEMMA RowStep ==
  ASSUME IInv, RowsOK', RowsGrow, UNCHANGED <<req, sessions, mailing, resets>>
  PROVE  IInv'
<1> USE DEF sessions, mailing
<1>1. SlotsOK' /\ LoginsOK' /\ ResetsOK' /\ KeysOK'
  BY SameSlotsStay, SameLoginsStay, ResetsStay, SameKeysStay DEF IInv
<1>2. TokensOK' /\ LinksOK'
  BY DEF IInv, TokensOK, LinksOK
<1> QED
  BY <1>1, <1>2 DEF IInv

\* A slot that is not in use is well formed, whatever the rows are.
LEMMA IdleIsWellFormed == Idle \in Request /\ \A rows : WellFormed(Idle, rows)
  BY PasswordsAssumption
     DEF Idle, WellFormed, Request, Phases, OfAccount, Rereads, Kinds

\* A slot in which no request is in flight.
LEMMA FreeSlot ==
  ASSUME NEW r \in Slots, req[r] = Idle
  PROVE  ~req[r].key
  BY DEF Idle

\* A request about an account finds the account.
LEMMA AccountOfRequest ==
  ASSUME RowsOK, SlotsOK, NEW r \in Slots, req[r].phase \in OfAccount
  PROVE  /\ req[r] \in Request /\ req[r].user \in Users
         /\ user[req[r].user] \in Row /\ user[req[r].user] # None
         /\ user[req[r].user].pw \in 1..MaxPw
         /\ ~req[r].key
<1>1. WellFormed(req[r], user)
  BY DEF SlotsOK
<1>2. req[r] \in Request /\ req[r].user \in Users /\ user[req[r].user] # None
  BY <1>1 DEF WellFormed, OfAccount
<1>3. ~req[r].key
  BY <1>1 DEF WellFormed, OfAccount
<1> QED
  BY <1>2, <1>3, RowIsThere

-------------------------------------------------------------------------------
(* Sign-up and logging in *)

\* A sign-up makes a row of the table.
LEMMA NewUserIsRow == \A role \in Roles : NewUser(role) \in Row
  BY PasswordsAssumption DEF NewUser, Row, UserRow

\* A sign-up (signup_submit).
LEMMA SignupSubmitOK ==
  ASSUME IInv, NEW r \in Slots, NEW u \in Users, SignupSubmit(r, u)
  PROVE  IInv'
<1> DEFINE q == [Idle EXCEPT !.phase = "mail", !.user = u, !.kind = "verify"]
<1>1. RowsOK' /\ RowsGrow
  BY SetsGrows, NewUserIsRow DEF IInv, SignupSubmit, Exists, Roles
<1>2. q \in Request
  BY IdleIsWellFormed DEF Request, Phases, Kinds
<1>3. WellFormed(q, user')
  BY <1>2 DEF Idle, WellFormed, OfAccount, Rereads, Kinds
<1>4. ~LogsIn(q) /\ ~q.key
  BY DEF LogsIn, Idle
<1> QED
  BY <1>1, <1>3, <1>4, QuietStep, FreeSlot DEF SignupSubmit, Begins

\* The command create_admin.
LEMMA CreateAdminOK ==
  ASSUME IInv, NEW u \in Users, CreateAdmin(u)
  PROVE  IInv'
<1>1. RowsOK' /\ RowsGrow
  BY SetsGrows, NewUserIsRow DEF IInv, CreateAdmin, Exists, Roles
<1> QED
  BY <1>1, RowStep DEF CreateAdmin, AtOnce

\* A login with the password (login_submit).
LEMMA LoginSubmitOK ==
  ASSUME IInv, NEW r \in Slots, NEW u \in Users, NEW kind \in {"session", "access"},
         LoginSubmit(r, u, kind)
  PROVE  IInv'
<1> DEFINE q == [Idle EXCEPT !.phase = "issue", !.user = u, !.seen = user[u],
                             !.kind = kind, !.proof = user[u].pw]
<1>1. RowsOK' /\ RowsGrow
  BY SameRowsGrow DEF IInv, LoginSubmit
<1>2. user[u] \in Row /\ user[u] # None /\ user[u].pw \in 1..MaxPw
  BY RowIsThere DEF IInv, LoginSubmit, Exists
<1>3. q \in Request
  <2>1. user[u].pw \in 0..MaxPw /\ "issue" \in Phases
    BY <1>2, PasswordsAssumption DEF Phases, OfAccount
  <2> QED
    BY <1>2, <2>1, IdleIsWellFormed DEF Request
<1>4. WellFormed(q, user')
  BY <1>2, <1>3 DEF Idle, WellFormed, OfAccount, Rereads, LoginSubmit
<1>5. ~LogsIn(q) /\ ~q.key
  BY <1>2 DEF LogsIn, Idle
<1> QED
  BY <1>1, <1>4, <1>5, QuietStep, FreeSlot DEF LoginSubmit, Begins

\* A login makes the user a speaker (sync_speaker_role).
LEMMA SyncSpeakerRoleOK ==
  ASSUME IInv, NEW r \in Slots, SyncSpeakerRole(r)
  PROVE  IInv'
<1> DEFINE u == req[r].user
           q == [req[r] EXCEPT !.phase = "reload"]
<1>1. u \in Users /\ user[u] \in Row /\ ~req[r].key /\ req[r] \in Request
      /\ user[u].pw \in 1..MaxPw
  BY AccountOfRequest DEF IInv, SyncSpeakerRole, OfAccount
<1>2. [user[u] EXCEPT !.role = "speaker"] \in Row
  BY <1>1 DEF Row, UserRow, Roles
<1>3. RowsOK' /\ RowsGrow
  <2>1. /\ user[u].verified => [user[u] EXCEPT !.role = "speaker"].verified
        /\ user[u].pw <= [user[u] EXCEPT !.role = "speaker"].pw
    BY <1>1 DEF Row, UserRow
  <2> QED
    BY <1>1, <1>2, <2>1, SetsGrows DEF IInv, SyncSpeakerRole
<1>4. WellFormed(req[r], user')
  BY <1>3, RequestStays DEF IInv, SlotsOK
<1>5. q \in Request
  BY <1>1 DEF Request, Phases, OfAccount
<1>6. WellFormed(q, user')
  BY <1>1, <1>4, <1>5 DEF WellFormed, OfAccount, Rereads, SyncSpeakerRole, MustSync, Request, Idle
<1>7. LogsIn(q) => LogsIn(req[r]) /\ q.user = req[r].user
  BY <1>1 DEF LogsIn, SyncSpeakerRole, Request
<1>8. ~q.key
  BY <1>1 DEF Request
<1> QED
  BY <1>1, <1>3, <1>6, <1>7, <1>8, QuietStep DEF SyncSpeakerRole, Goes

\* The row is read again after that commit.
LEMMA ReloadsOK ==
  ASSUME IInv, NEW r \in Slots, Reloads(r)
  PROVE  IInv'
<1> DEFINE u == req[r].user
           q == [req[r] EXCEPT !.phase = "issue", !.seen = user[u]]
<1>1. u \in Users /\ user[u] \in Row /\ user[u] # None /\ ~req[r].key /\ req[r] \in Request
  BY AccountOfRequest DEF IInv, Reloads, OfAccount
<1>2. RowsOK' /\ RowsGrow
  BY SameRowsGrow DEF IInv, Reloads
<1>3. WellFormed(req[r], user')
  BY <1>2, RequestStays DEF IInv, SlotsOK
<1>4. q \in Request /\ ~q.key
  BY <1>1 DEF Request, Phases, OfAccount
<1>5. WellFormed(q, user')
  BY <1>1, <1>3, <1>4 DEF WellFormed, OfAccount, Rereads, Reloads, Request, Idle
<1>6. LogsIn(q) => LogsIn(req[r]) /\ q.user = req[r].user
  BY <1>1 DEF LogsIn, Reloads, Request
<1> QED
  BY <1>1, <1>2, <1>4, <1>5, <1>6, QuietStep DEF Reloads, Goes

\* The request that opens the session for the verification link was the only
\* one about to.
LEMMA IssuesTokenOK ==
  ASSUME IInv, NEW r \in Slots, IssuesToken(r)
  PROVE  IInv'
<1> DEFINE u == req[r].user
           t == Token(req[r].kind, u, req[r].seen, req[r].proof)
<1>1. u \in Users /\ user[u] # None /\ ~req[r].key /\ req[r] \in Request
  BY AccountOfRequest DEF IInv, IssuesToken, OfAccount
<1>2. RowsOK' /\ RowsGrow
  BY SameRowsGrow DEF IInv, IssuesToken
<1>3. WellFormed(req[r], user)
  BY DEF IInv, SlotsOK
<1>4. req' = [req EXCEPT ![r] = Idle] /\ ~Idle.key
  BY DEF IssuesToken, Ends, Goes, Idle
<1>5. SlotsOK'
  BY <1>2, <1>4, IdleIsWellFormed, SlotsStay DEF IInv
<1>6. TokensOK'
  <2>1. req[r].seen \in Row /\ req[r].kind \in {"session", "access"}
        /\ (req[r].proof \in {0, req[r].seen.pw} \/ Speaks(u))
    BY <1>3 DEF WellFormed, Rereads, IssuesToken
  <2>2. /\ t \in TokenRow /\ t.pwh \in 1..MaxPw /\ t.proof \in 0..MaxPw
        /\ t.proof \in {0, t.pwh} \/ Speaks(t.user)
    BY <1>1, <2>1, PasswordsAssumption DEF Token, TokenRow, Row, UserRow, Request
  <2> QED
    BY <2>2 DEF IInv, TokensOK, IssuesToken
<1>7. LinksOK'
  BY DEF IInv, LinksOK, IssuesToken, mailing
<1>8. ResetsOK'
  BY <1>2, ResetsStay DEF IInv, IssuesToken
<1>9. KeysOK'
  BY <1>1, <1>4, KeysStay DEF IInv, IssuesToken, mailing
<1>10. LoginsOK'
  <2>1. CASE req[r].proof # 0
    <3>1. UNCHANGED logins /\ ~LogsIn(Idle)
      BY <2>1 DEF IssuesToken, LogsIn, Idle
    <3> QED
      BY <1>2, <1>4, <3>1, LoginsStay DEF IInv
  <2>2. CASE req[r].proof = 0
    <3>1. LogsIn(req[r])
      BY <2>2 DEF LogsIn, IssuesToken
    <3>2. logins[u] = 0 /\ Verified(u)
      BY <3>1 DEF IInv, LoginsOK
    <3>3. logins' = [logins EXCEPT ![u] = 1]
      BY <2>2, <3>2 DEF IssuesToken, IInv, LoginsOK
    <3>4. \A v \in Users : Verified(v)' <=> Verified(v)
      BY DEF IssuesToken, Verified
    <3>5. ASSUME NEW s \in Slots, LogsIn(req'[s])
          PROVE  s # r /\ req'[s] = req[s] /\ req[s].user # u /\ req[s].user \in Users
      <4>1. s # r /\ req'[s] = req[s]
        BY <1>4, <3>5 DEF IInv, SlotsOK, LogsIn, Idle
      <4> QED
        BY <3>1, <3>5, <4>1 DEF IInv, LoginsOK, SlotsOK, WellFormed, OfAccount, LogsIn
    <3>6. logins' \in [Users -> 0..1]
      <4>1. logins \in [Users -> 0..1] /\ 1 \in 0..1
        BY DEF IInv, LoginsOK
      <4> QED
        BY <3>3, <4>1
    <3>7. \A v \in Users : logins'[v] = 1 => Verified(v)'
      BY <3>2, <3>3, <3>4 DEF IInv, LoginsOK
    <3>8. \A s \in Slots : LogsIn(req'[s]) => Verified(req[s].user)' /\ logins'[req[s].user] = 0
      BY <3>3, <3>4, <3>5 DEF IInv, LoginsOK
    <3>9. \A s, v \in Slots :
            LogsIn(req'[s]) /\ LogsIn(req'[v]) /\ req'[s].user = req'[v].user => s = v
      BY <3>5 DEF IInv, LoginsOK
    <3> QED
      BY <3>5, <3>6, <3>7, <3>8, <3>9 DEF LoginsOK, LogsIn, Verified
  <2> QED
    BY <2>1, <2>2
<1> QED
  BY <1>2, <1>5, <1>6, <1>7, <1>8, <1>9, <1>10 DEF IInv

-------------------------------------------------------------------------------
(* Links *)

\* A request that has only read the account it is about.
LEMMA ReadsOK ==
  ASSUME IInv, NEW r \in Slots, NEW q \in Request, Begins(r, q), ~q.key,
         q.phase \in {"organizer", "speaker", "activate", "deactivate", "promote", "reset",
                      "verify"},
         q.user \in Users, user[q.user] # None,
         q.phase \in Rereads => q.seen = user[q.user],
         q.phase = "verify" => q.kind = "session" /\ q.proof = 0,
         q.phase = "reset" => q.seen.pw < MaxPw,
         q.phase = "promote" => q.role \in Roles,
         q.phase = "deactivate" => q.role = "none",
         q.phase = "speaker" => q.seen = None,
         UNCHANGED <<user, sessions, mailing, resets>>
  PROVE  IInv'
<1>1. RowsOK' /\ RowsGrow
  BY SameRowsGrow DEF IInv
<1>2. user[q.user] \in Row
  BY RowIsThere DEF IInv
<1>3. WellFormed(q, user')
  BY <1>2 DEF WellFormed, OfAccount, Rereads, Idle
<1>4. ~LogsIn(q)
  BY DEF LogsIn
<1> QED
  BY <1>1, <1>3, <1>4, QuietStep, FreeSlot DEF Begins

\* A verification link is followed: the row is read.
LEMMA VerifyEmailReadsOK ==
  ASSUME IInv, NEW r \in Slots, NEW link \in links, VerifyEmailReads(r, link)
  PROVE  IInv'
<1> DEFINE q == [Idle EXCEPT !.phase = "verify", !.user = link.user, !.kind = "session"]
<1>1. link.user \in Users
  BY DEF IInv, LinksOK
<1>2. q \in Request
  BY <1>1, IdleIsWellFormed DEF Request, Phases, OfAccount
<1>3. q.phase = "verify" /\ q.user = link.user /\ q.kind = "session" /\ q.proof = 0 /\ ~q.key
  BY DEF Idle
<1> HIDE DEF q
<1> QED
  BY <1>1, <1>2, <1>3, ReadsOK DEF VerifyEmailReads, Exists, Rereads, q

\* A row that the UPDATE finds unverified: no session was opened by a link yet
\* and no other request is about to open one.
LEMMA VerifyEmailSubmitOK ==
  ASSUME IInv, NEW r \in Slots, VerifyEmailSubmit(r)
  PROVE  IInv'
<1> DEFINE u == req[r].user
           row == [user[u] EXCEPT !.verified = TRUE]
           q == [req[r] EXCEPT !.phase = "reload"]
<1>1. u \in Users /\ user[u] \in Row /\ user[u] # None /\ ~req[r].key /\ req[r] \in Request
      /\ user[u].pw \in 1..MaxPw
  BY AccountOfRequest DEF IInv, VerifyEmailSubmit, OfAccount
<1>2. CASE user[u].active /\ ~user[u].verified
  <2>1. row \in Row /\ user[u].pw <= row.pw /\ row.verified
    <3>1. row.pw = user[u].pw /\ row.verified
      BY <1>1 DEF Row, UserRow
    <3>2. row \in UserRow
      BY <1>1 DEF Row, UserRow
    <3> HIDE DEF row
    <3> QED
      BY <1>1, <3>1, <3>2 DEF Row
  <2>2. RowsOK' /\ RowsGrow
    BY <1>1, <1>2, <2>1, SetsGrows DEF IInv, VerifyEmailSubmit
  <2>3. WellFormed(req[r], user')
    BY <2>2, RequestStays DEF IInv, SlotsOK
  <2>4. q \in Request /\ ~q.key /\ q.user = u /\ q.phase = "reload"
    BY <1>1 DEF Request, Phases, OfAccount
  <2>5. WellFormed(q, user')
    BY <1>1, <2>3, <2>4 DEF WellFormed, OfAccount, Rereads, VerifyEmailSubmit, Request, Idle
  <2>6. req' = [req EXCEPT ![r] = q] /\ user' = [user EXCEPT ![u] = row]
    BY <1>2 DEF VerifyEmailSubmit, Goes, Sets
  <2>7. SlotsOK'
    BY <2>2, <2>5, <2>6, SlotsStay DEF IInv
  <2>8. KeysOK' /\ ResetsOK' /\ TokensOK' /\ LinksOK'
    BY <1>1, <2>2, <2>4, <2>6, KeysStay, ResetsStay
       DEF IInv, VerifyEmailSubmit, sessions, mailing, TokensOK, LinksOK
  <2>9. LoginsOK'
    <3>1. ~Verified(u) /\ logins[u] = 0
      BY <1>1, <1>2 DEF IInv, LoginsOK, Verified
    <3>2. Verified(u)' /\ \A v \in Users : Verified(v) => Verified(v)'
      BY <1>1, <2>1, <2>2, <2>6 DEF Verified, RowsGrow, IInv, RowsOK
    <3>3. ASSUME NEW s \in Slots, LogsIn(req'[s])
          PROVE  IF s = r THEN req'[s].user = u
                          ELSE req'[s] = req[s] /\ req[s].user # u /\ req[s].user \in Users
      BY <2>4, <2>6, <3>1, <3>3
         DEF IInv, LoginsOK, SlotsOK, WellFormed, OfAccount, LogsIn
    <3>4. UNCHANGED logins
      BY DEF VerifyEmailSubmit, sessions
    <3>5. \A s \in Slots : LogsIn(req'[s]) => Verified(req[s].user)' /\ logins[req[s].user] = 0
      BY <3>1, <3>2, <3>3 DEF IInv, LoginsOK
    <3>6. \A s \in Slots : LogsIn(req'[s]) => req'[s].user = req[s].user
      BY <3>3
    <3>7. \A s, v \in Slots :
            LogsIn(req'[s]) /\ LogsIn(req'[v]) /\ req'[s].user = req'[v].user => s = v
      BY <3>3 DEF IInv, LoginsOK
    <3>8. \A v \in Users : logins[v] = 1 => Verified(v)'
      BY <3>2 DEF IInv, LoginsOK
    <3> QED
      BY <3>4, <3>5, <3>6, <3>7, <3>8 DEF LoginsOK, LogsIn, Verified, IInv
  <2> QED
    BY <2>2, <2>7, <2>8, <2>9 DEF IInv
<1>3. CASE ~(user[u].active /\ ~user[u].verified)
  <2>1. RowsOK' /\ RowsGrow
    BY <1>3, SameRowsGrow DEF IInv, VerifyEmailSubmit
  <2>2. req' = [req EXCEPT ![r] = Idle] /\ ~Idle.key /\ ~LogsIn(Idle)
    BY <1>3 DEF VerifyEmailSubmit, Ends, Goes, Idle, LogsIn
  <2> QED
    BY <1>1, <2>1, <2>2, IdleIsWellFormed, QuietStep DEF VerifyEmailSubmit
<1> QED
  BY <1>2, <1>3

\* A link to reset the password is followed: the row is read.
LEMMA ResetPasswordReadsOK ==
  ASSUME IInv, NEW r \in Slots, NEW link \in links, ResetPasswordReads(r, link)
  PROVE  IInv'
<1> DEFINE u == link.user
           q == [Idle EXCEPT !.phase = "reset", !.user = u, !.seen = user[u]]
<1>1. u \in Users
  BY DEF IInv, LinksOK
<1>2. user[u] \in Row /\ user[u] # None /\ user[u].pw < MaxPw
  BY <1>1, RowIsThere DEF IInv, ResetPasswordReads, Exists
<1>3. q \in Request
  BY <1>1, <1>2, IdleIsWellFormed DEF Request, Phases, OfAccount
<1>4. q.phase = "reset" /\ q.user = u /\ q.seen = user[u] /\ ~q.key
  BY DEF Idle
<1>5. Begins(r, q) /\ UNCHANGED <<user, sessions, mailing, resets>>
  BY DEF ResetPasswordReads
<1> HIDE DEF q
<1> QED
  BY <1>1, <1>2, <1>3, <1>4, <1>5, ReadsOK

\* The password that is replaced is the one of the row, and no link for it has
\* been used.
LEMMA ResetPasswordSubmitOK ==
  ASSUME IInv, NEW r \in Slots, ResetPasswordSubmit(r)
  PROVE  IInv'
<1> DEFINE u == req[r].user
           old == req[r].seen.pw
           row == NewPassword(user[u])
<1>1. u \in Users /\ user[u] \in Row /\ user[u] # None /\ ~req[r].key
      /\ user[u].pw \in 1..MaxPw
  BY AccountOfRequest DEF IInv, ResetPasswordSubmit, OfAccount
<1>2. old \in 1..MaxPw /\ old < MaxPw
  <2>1. req[r].seen \in Row /\ old < MaxPw
    BY DEF IInv, SlotsOK, WellFormed, Rereads, ResetPasswordSubmit
  <2> QED
    BY <2>1, PasswordsAssumption DEF Row, UserRow
<1>3. req' = [req EXCEPT ![r] = Idle] /\ ~Idle.key /\ ~LogsIn(Idle)
  BY DEF ResetPasswordSubmit, Ends, Goes, Idle, LogsIn
<1>4. CASE user[u].active /\ user[u].pw = old
  <2>1. user' = [user EXCEPT ![u] = row] /\ resets' = [resets EXCEPT ![u][old] = @ + 1]
    BY <1>4 DEF ResetPasswordSubmit, Sets
  <2>2. row.pw = old + 1 /\ row.verified
    BY <1>1, <1>4 DEF NewPassword, Row, UserRow
  <2>3. row \in UserRow
    <3>1. user[u] \in UserRow /\ user[u].pw + 1 \in Nat \ {0}
      BY <1>1 DEF Row, UserRow
    <3> QED
      BY <3>1 DEF NewPassword, UserRow
  <2> HIDE DEF row
  <2>4. row \in Row /\ user[u].pw <= row.pw
    BY <1>1, <1>2, <1>4, <2>2, <2>3, PasswordsAssumption DEF Row
  <2>5. RowsOK' /\ RowsGrow
    BY <1>1, <2>1, <2>2, <2>4, SetsGrows DEF IInv, Sets
  <2>6. SlotsOK' /\ LoginsOK' /\ KeysOK'
    BY <1>1, <1>3, <2>5, IdleIsWellFormed, SlotsStay, LoginsStay, KeysStay
       DEF IInv, ResetPasswordSubmit, sessions, mailing
  <2>7. TokensOK' /\ LinksOK'
    BY DEF IInv, TokensOK, LinksOK, ResetPasswordSubmit, sessions, mailing
  <2>8. ResetsOK'
    <3>1. resets \in [Users -> [1..MaxPw -> 0..1]]
      BY DEF IInv, ResetsOK
    <3>2. resets[u][old] = 0
      <4>1. resets[u][old] \in 0..1
        BY <1>1, <1>2, <3>1
      <4>2. resets[u][old] = 1 => old < user[u].pw
        BY <1>1, <1>2 DEF IInv, ResetsOK
      <4> QED
        BY <1>2, <1>4, <4>1, <4>2
    <3>3. resets' = [resets EXCEPT ![u] = [resets[u] EXCEPT ![old] = 1]]
      BY <1>1, <1>2, <2>1, <3>1, <3>2
    <3>4. resets' \in [Users -> [1..MaxPw -> 0..1]]
      <4>1. [resets[u] EXCEPT ![old] = 1] \in [1..MaxPw -> 0..1]
        BY <1>1, <1>2, <3>1
      <4> QED
        BY <3>1, <3>3, <4>1
    <3>5. ASSUME NEW v \in Users, NEW w \in 1..MaxPw, resets'[v][w] = 1
          PROVE  user'[v] # None /\ w < user'[v].pw
      <4>1. CASE v = u /\ w = old
        <5>1. user'[v] = row
          BY <1>1, <2>1, <4>1 DEF IInv, RowsOK
        <5>2. row # None
          BY <2>3, NoneAssumption
        <5> QED
          BY <1>2, <2>2, <4>1, <5>1, <5>2
      <4>2. CASE ~(v = u /\ w = old)
        <5>1. resets[v][w] = 1
          BY <1>1, <1>2, <3>1, <3>3, <3>5, <4>2
        <5>2. user[v] # None /\ w < user[v].pw
          BY <5>1 DEF IInv, ResetsOK
        <5>3. user'[v] # None /\ user[v].pw <= user'[v].pw
          BY <2>5, <5>2 DEF RowsGrow
        <5>4. user[v].pw \in Nat /\ user'[v].pw \in Nat
          BY <2>5, <5>2, <5>3 DEF IInv, RowsOK, Row, UserRow
        <5> QED
          BY <5>2, <5>3, <5>4
      <4> QED
        BY <4>1, <4>2
    <3> QED
      BY <3>4, <3>5 DEF ResetsOK
  <2> QED
    BY <2>5, <2>6, <2>7, <2>8 DEF IInv
<1>5. CASE ~(user[u].active /\ user[u].pw = old)
  <2>1. UNCHANGED <<user, resets, sessions, mailing>>
    BY <1>5 DEF ResetPasswordSubmit
  <2>2. RowsOK' /\ RowsGrow
    BY <2>1, SameRowsGrow DEF IInv
  <2> QED
    BY <1>1, <1>3, <2>1, <2>2, IdleIsWellFormed, QuietStep
<1> QED
  BY <1>4, <1>5

-------------------------------------------------------------------------------
(* Mail *)

\* A step of a request about mail leaves rows, tokens and resets alone.
LEMMA MailStep ==
  ASSUME IInv, NEW r \in Slots, NEW q, WellFormed(q, user), req' = [req EXCEPT ![r] = q],
         ~LogsIn(q), UNCHANGED <<user, sessions, resets>>
  PROVE  RowsOK' /\ SlotsOK' /\ TokensOK' /\ LoginsOK' /\ ResetsOK'
<1>1. RowsOK' /\ RowsGrow
  BY SameRowsGrow DEF IInv
<1>2. SlotsOK' /\ LoginsOK' /\ ResetsOK'
  BY <1>1, SlotsStay, LoginsStay, ResetsStay DEF IInv, sessions
<1> QED
  BY <1>1, <1>2 DEF IInv, TokensOK, sessions

\* SET NX: of two requests that ask at the same time, one gets the key.
LEMMA AsksForMailOK ==
  ASSUME IInv, NEW r \in Slots, NEW kind \in Kinds, NEW u \in Users, AsksForMail(r, kind, u)
  PROVE  IInv'
<1> DEFINE k == <<kind, u>>
           q == [ Idle EXCEPT !.phase = IF kind = "verify" THEN "lookup" ELSE "mail",
                    !.user = u, !.kind = kind, !.key = TRUE ]
<1>1. q \in Request
  BY IdleIsWellFormed DEF Request, Phases, Kinds
<1>2. q.phase \in {"mail", "lookup"} /\ (q.phase = "lookup" => kind = "verify")
      /\ q.user = u /\ q.kind = kind /\ q.key
  BY DEF Idle
<1>3. req[r] = Idle /\ req' = [req EXCEPT ![r] = q] /\ keys' = keys \cup {k} /\ k \notin keys
  BY DEF AsksForMail, Begins
<1> HIDE DEF q
<1>4. WellFormed(q, user) /\ ~LogsIn(q)
  <2>1. q # Idle
    BY <1>2 DEF Idle
  <2> QED
    BY <1>1, <1>2, <2>1 DEF WellFormed, OfAccount, Rereads, LogsIn
<1>5. RowsOK' /\ SlotsOK' /\ TokensOK' /\ LoginsOK' /\ ResetsOK'
  BY <1>3, <1>4, MailStep DEF AsksForMail
<1>6. LinksOK'
  BY DEF IInv, LinksOK, AsksForMail
<1>7. KeysOK'
  <2>1. k \in Keys /\ UNCHANGED <<unpaid, mails>>
    BY DEF Keys, AsksForMail
  <2>2. KeyOf(r)' = k /\ req'[r].key
    BY <1>2, <1>3 DEF KeyOf, IInv, SlotsOK
  <2>3. ASSUME NEW s \in Slots, s # r
        PROVE  req'[s] = req[s] /\ KeyOf(s)' = KeyOf(s)
    BY <1>3, <2>3 DEF KeyOf, IInv, SlotsOK
  <2>4. ASSUME NEW s \in Slots, req[s].key PROVE s # r /\ KeyOf(s) # k
    BY <1>3, <2>4 DEF IInv, KeysOK, Idle
  <2>5. mails[k] = 0 /\ k \notin unpaid
    BY <1>3, <2>1 DEF IInv, KeysOK
  <2> QED
    BY <1>3, <2>1, <2>2, <2>3, <2>4, <2>5 DEF IInv, KeysOK
<1> QED
  BY <1>5, <1>6, <1>7 DEF IInv

\* A request that ends gives up its key, or leaves it paid or accounted for.
LEMMA KeyLeft ==
  ASSUME KeysOK, SlotsOK, NEW r \in Slots, req[r].key, req' = [req EXCEPT ![r] = Idle],
         \/ UNCHANGED <<keys, mails>> /\ unpaid' = unpaid \cup {KeyOf(r)}
         \/ UNCHANGED <<keys, unpaid>> /\ mails' = [mails EXCEPT ![KeyOf(r)] = @ + 1]
         \/ keys' = keys \ {KeyOf(r)} /\ UNCHANGED <<unpaid, mails>>
  PROVE  KeysOK'
<1> DEFINE k == KeyOf(r)
<1>1. k \in keys /\ k \notin unpaid /\ mails[k] = 0 /\ k \in Keys
  BY DEF KeysOK
<1>2. ASSUME NEW s \in Slots, req'[s].key
      PROVE  s # r /\ req'[s] = req[s] /\ KeyOf(s)' = KeyOf(s) /\ req[s].key /\ KeyOf(s) # k
  BY <1>2 DEF SlotsOK, Idle, KeyOf, KeysOK
<1>3. ASSUME NEW s \in Slots, s # r PROVE req'[s] = req[s] /\ KeyOf(s)' = KeyOf(s)
  BY <1>3 DEF KeyOf, SlotsOK
<1> HIDE DEF k
<1>4. KeyOf(r) = k
  BY DEF k
<1>5. CASE UNCHANGED <<keys, mails>> /\ unpaid' = unpaid \cup {k}
  BY <1>1, <1>2, <1>3, <1>4, <1>5 DEF KeysOK
<1>6. CASE UNCHANGED <<keys, unpaid>> /\ mails' = [mails EXCEPT ![k] = @ + 1]
  <2>1. mails' = [mails EXCEPT ![k] = 1] /\ mails' \in [Keys -> 0..1]
    BY <1>1, <1>6 DEF KeysOK
  <2> QED
    BY <1>1, <1>2, <1>3, <1>4, <1>6, <2>1 DEF KeysOK
<1>7. CASE keys' = keys \ {k} /\ UNCHANGED <<unpaid, mails>>
  BY <1>1, <1>2, <1>3, <1>4, <1>7 DEF KeysOK
<1> QED
  BY <1>4, <1>5, <1>6, <1>7

\* The account that asks for mail is looked up.
LEMMA LooksUpOK ==
  ASSUME IInv, NEW r \in Slots, LooksUp(r)
  PROVE  IInv'
<1> DEFINE u == req[r].user
           q == [req[r] EXCEPT !.phase = "mail"]
<1>1. WellFormed(req[r], user) /\ req[r].phase = "lookup"
  BY DEF IInv, SlotsOK, LooksUp
<1>2. req[r] \in Request /\ req[r].kind = "verify" /\ req[r].key /\ u \in Users
  BY <1>1 DEF WellFormed
<1>3. UNCHANGED <<user, sessions, mail, links, keys, mails, resets>>
  BY DEF LooksUp
<1>4. LinksOK'
  BY <1>3 DEF IInv, LinksOK
<1>5. CASE req' = [req EXCEPT ![r] = q] /\ UNCHANGED unpaid
  <2>1. q \in Request
    BY <1>2 DEF Request, Phases
  <2>2. q.phase = "mail" /\ q.kind = "verify" /\ q.user = u /\ q.key
    BY <1>2 DEF Request
  <2> HIDE DEF q
  <2>3. WellFormed(q, user) /\ ~LogsIn(q)
    <3>1. q # Idle
      BY <2>2 DEF Idle
    <3> QED
      BY <1>2, <2>1, <2>2, <3>1 DEF WellFormed, OfAccount, Rereads, LogsIn, Kinds
  <2>4. RowsOK' /\ SlotsOK' /\ TokensOK' /\ LoginsOK' /\ ResetsOK'
    BY <1>3, <1>5, <2>3, MailStep
  <2>5. KeysOK'
    BY <1>2, <1>3, <1>5, <2>2, KeysStay DEF IInv
  <2> QED
    BY <1>4, <2>4, <2>5 DEF IInv
<1>6. CASE req' = [req EXCEPT ![r] = Idle] /\ unpaid' = unpaid \cup {<<"verify", u>>}
  <2>1. ~LogsIn(Idle)
    BY DEF LogsIn, Idle
  <2>2. RowsOK' /\ SlotsOK' /\ TokensOK' /\ LoginsOK' /\ ResetsOK'
    BY <1>3, <1>6, <2>1, IdleIsWellFormed, MailStep
  <2>3. KeysOK'
    BY <1>2, <1>3, <1>6, KeyLeft DEF IInv, KeyOf
  <2> QED
    BY <1>4, <2>2, <2>3 DEF IInv
<1> QED
  BY <1>5, <1>6 DEF LooksUp, Goes, Ends

\* The end of a request about mail.
LEMMA MailEnds ==
  ASSUME IInv, NEW r \in Slots, Ends(r), UNCHANGED <<user, sessions, resets>>
  PROVE  RowsOK' /\ SlotsOK' /\ TokensOK' /\ LoginsOK' /\ ResetsOK'
<1>1. ~LogsIn(Idle)
  BY DEF LogsIn, Idle
<1> QED
  BY <1>1, IdleIsWellFormed, MailStep DEF Ends, Goes

\* The mail job is enqueued, and the cool-down paid for.
LEMMA EnqueuesMailOK ==
  ASSUME IInv, NEW r \in Slots, EnqueuesMail(r)
  PROVE  IInv'
<1>1. RowsOK' /\ SlotsOK' /\ TokensOK' /\ LoginsOK' /\ ResetsOK'
  BY MailEnds DEF EnqueuesMail
<1>2. LinksOK'
  <2>1. req[r].kind \in Kinds /\ req[r].user \in Users
    BY DEF IInv, SlotsOK, WellFormed, EnqueuesMail
  <2> QED
    BY <2>1 DEF IInv, LinksOK, EnqueuesMail
<1>3. KeysOK'
  <2>1. CASE req[r].key
    BY <2>1, KeyLeft DEF IInv, EnqueuesMail, Ends, Goes
  <2>2. CASE ~req[r].key
    BY <2>2, KeysStay DEF IInv, EnqueuesMail, Ends, Goes, Idle
  <2> QED
    BY <2>1, <2>2
<1> QED
  BY <1>1, <1>2, <1>3 DEF IInv

\* Redis refuses the mail job, and the key is given back or not.
LEMMA MailRefusedOK ==
  ASSUME IInv, NEW r \in Slots, NEW back \in BOOLEAN, MailRefused(r, back)
  PROVE  IInv'
<1>1. RowsOK' /\ SlotsOK' /\ TokensOK' /\ LoginsOK' /\ ResetsOK'
  BY MailEnds DEF MailRefused
<1>2. LinksOK'
  BY DEF IInv, LinksOK, MailRefused
<1>3. KeysOK'
  <2>1. CASE req[r].key
    BY <2>1, KeyLeft DEF IInv, MailRefused, Ends, Goes
  <2>2. CASE ~req[r].key
    BY <2>2, KeysStay DEF IInv, MailRefused, Ends, Goes, Idle
  <2> QED
    BY <2>1, <2>2
<1> QED
  BY <1>1, <1>2, <1>3 DEF IInv

\* The requests in flight keep their keys.
LEMMA KeyExpiresOK ==
  ASSUME IInv, NEW k \in Keys, KeyExpires(k)
  PROVE  IInv'
<1>1. RowsOK' /\ RowsGrow
  BY SameRowsGrow DEF IInv, KeyExpires
<1>2. SlotsOK' /\ LoginsOK' /\ ResetsOK'
  BY <1>1, SameSlotsStay, SameLoginsStay, ResetsStay DEF IInv, KeyExpires, sessions
<1>3. TokensOK' /\ LinksOK'
  BY DEF IInv, TokensOK, LinksOK, KeyExpires, sessions
<1>4. KeysOK'
  <2>1. mails' \in [Keys -> 0..1] /\ mails' = [mails EXCEPT ![k] = 0]
    BY DEF IInv, KeysOK, KeyExpires
  <2>2. \A s \in Slots : req[s].key => KeyOf(s) # k
    BY DEF KeyExpires
  <2>3. UNCHANGED req /\ \A s \in Slots : KeyOf(s)' = KeyOf(s)
    BY DEF KeyExpires, KeyOf
  <2>4. keys' = keys \ {k} /\ unpaid' = unpaid \ {k}
    BY DEF KeyExpires
  <2> QED
    BY <2>1, <2>2, <2>3, <2>4 DEF IInv, KeysOK
<1> QED
  BY <1>1, <1>2, <1>3, <1>4 DEF IInv

\* A mail job sends its link.
LEMMA SendsMailOK ==
  ASSUME IInv, NEW job \in mail, SendsMail(job)
  PROVE  IInv'
<1>1. RowsOK' /\ RowsGrow
  BY SameRowsGrow DEF IInv, SendsMail
<1>2. SlotsOK' /\ LoginsOK' /\ ResetsOK' /\ KeysOK'
  BY <1>1, SameSlotsStay, SameLoginsStay, ResetsStay, SameKeysStay
     DEF IInv, SendsMail, sessions
<1>3. TokensOK'
  BY DEF IInv, TokensOK, SendsMail, sessions
<1>4. LinksOK'
  <2>1. job.kind \in Kinds /\ job.user \in Users
    BY DEF IInv, LinksOK
  <2>2. ASSUME Exists(job.user)
        PROVE  Link(job.kind, job.user) \in [kind : Kinds, user : Users, pw : 0..MaxPw]
    <3>1. user[job.user].pw \in 0..MaxPw /\ 0 \in 0..MaxPw
      BY <2>1, <2>2, RowIsThere, PasswordsAssumption DEF IInv, Exists
    <3> QED
      BY <2>1, <3>1 DEF Link
  <2> QED
    BY <2>1, <2>2 DEF IInv, LinksOK, SendsMail
<1> QED
  BY <1>1, <1>2, <1>3, <1>4 DEF IInv

-------------------------------------------------------------------------------
(* Callers *)

\* Five places, each with a name of its own.
LEMMA PlacesAre ==
  /\ NoCredentials \in [{"header_key", "header_sso", "cookie", "cookie_key", "bearer"} -> {None}]
  /\ Places[1] = "header_key" /\ Places[2] = "header_sso" /\ Places[3] = "cookie"
  /\ Places[4] = "cookie_key" /\ Places[5] = "bearer"
<1>1. /\ Places[1] = "header_key" /\ Places[2] = "header_sso" /\ Places[3] = "cookie"
      /\ Places[4] = "cookie_key" /\ Places[5] = "bearer"
  BY DEF Places
<1>2. \A n \in 1..5 : n = 1 \/ n = 2 \/ n = 3 \/ n = 4 \/ n = 5
  OBVIOUS
<1>3. {Places[n] : n \in 1..5} = {"header_key", "header_sso", "cookie", "cookie_key", "bearer"}
  <2>1. \A n \in 1..5 :
          Places[n] \in {"header_key", "header_sso", "cookie", "cookie_key", "bearer"}
    BY <1>1, <1>2
  <2>2. 1 \in 1..5 /\ 2 \in 1..5 /\ 3 \in 1..5 /\ 4 \in 1..5 /\ 5 \in 1..5
    OBVIOUS
  <2>3. \A p \in {"header_key", "header_sso", "cookie", "cookie_key", "bearer"} :
          \E n \in 1..5 : p = Places[n]
    BY <1>1, <2>2
  <2> QED
    BY <2>1, <2>3
<1> QED
  BY <1>1, <1>3 DEF NoCredentials

\* The first of the places that decide is the one whose credential counts.
LEMMA FirstDecides ==
  ASSUME NEW creds, NEW n \in 1..5, n \in Deciding(Clients, creds),
         \A k \in Deciding(Clients, creds) : n <= k
  PROVE  CurrentUser(user, Clients, creds) =
           Resolved(user, Clients, Places[n], creds[Places[n]])
<1> DEFINE D == Deciding(Clients, creds)
           first == CHOOSE m \in D : \A k \in D : m <= k
<1>1. D \subseteq 1..5
  BY DEF Deciding
<1>2. first \in D /\ \A k \in D : first <= k
  OBVIOUS
<1>3. first = n
  BY <1>1, <1>2
<1> QED
  BY <1>3 DEF CurrentUser

\* No place decides: nobody is let in.
LEMMA NothingDecides ==
  ASSUME NEW creds, Deciding(Clients, creds) = {}
  PROVE  CurrentUser(user, Clients, creds) = Denied
  BY DEF CurrentUser

\* A request with one session or access token and nothing else.
LEMMA OneToken ==
  ASSUME NEW place \in {"cookie", "bearer"}, NEW t, t # None
  PROVE  CurrentUser(user, Clients, [NoCredentials EXCEPT ![place] = t]) =
           Resolved(user, Clients, place, t)
<1> DEFINE creds == [NoCredentials EXCEPT ![place] = t]
           n == IF place = "cookie" THEN 3 ELSE 5
<1>1. n \in 1..5 /\ Places[n] = place /\ creds[place] = t
  BY PlacesAre
<1>2. \A k \in 1..5 : k = 1 \/ k = 2 \/ k = 3 \/ k = 4 \/ k = 5
  OBVIOUS
<1>3. \A k \in 1..5 : k # n => creds[Places[k]] = None
  BY <1>2, PlacesAre
<1>4. n \in Deciding(Clients, creds) /\ \A k \in Deciding(Clients, creds) : n <= k
  BY <1>1, <1>3 DEF Deciding
<1> HIDE DEF creds, n
<1> QED
  BY <1>1, <1>4, FirstDecides DEF creds

\* Such a request comes from the user of the token, in the role of today, if
\* the token is live and of the kind that belongs there, else from nobody.
LEMMA TokenResolves ==
  ASSUME NEW place \in {"cookie", "bearer"}, NEW t, t.kind \in {"session", "access"}
  PROVE  Resolved(user, Clients, place, t) =
           IF Live(user, t) /\ (t.kind = "session" <=> place = "cookie")
           THEN FromUser(place, t, user[t.user]) ELSE Denied
<1>1. Accepts["cookie"] = {"session", "sso"} /\ Accepts["bearer"] = {"access", "sso"}
  BY DEF Accepts
<1>2. ~KnownKey(Clients, t) /\ t.kind # "sso"
  BY DEF KnownKey
<1>3. CASE t.kind \notin Accepts[place]
  <2>1. Resolved(user, Clients, place, t) = Denied
    BY <1>3 DEF Resolved
  <2> QED
    BY <1>1, <1>3, <2>1
<1>4. CASE t.kind \in Accepts[place]
  <2>1. t.kind = "session" <=> place = "cookie"
    BY <1>1, <1>4
  <2> QED
    BY <1>2, <1>4, <2>1 DEF Resolved
<1> QED
  BY <1>3, <1>4

\* A caller who is a person holds a live token.
LEMMA CallerIsUser ==
  ASSUME TokensOK, NEW c \in Callers, CallerOf(c) # Denied
  PROVE  /\ c.token \in tokens /\ Live(user, c.token) /\ c.token.user \in Users
         /\ CallerOf(c) = FromUser(c.place, c.token, user[c.token.user])
<1>1. c.token \in tokens /\ c.place \in {"cookie", "bearer"}
  BY DEF Callers
<1>2. c.token \in TokenRow /\ c.token # None
  BY <1>1, NoneAssumption DEF TokensOK
<1>3. c.token.kind \in {"session", "access"} /\ c.token.user \in Users
  BY <1>2 DEF TokenRow
<1>4. CallerOf(c) = Resolved(user, Clients, c.place, c.token)
  BY <1>1, <1>2, OneToken DEF CallerOf
<1> QED
  BY <1>1, <1>3, <1>4, TokenResolves

-------------------------------------------------------------------------------
(* Roles *)

\* A column of a row is written that is no password and no verification.
LEMMA ColumnWrite ==
  ASSUME IInv, NEW u \in Users, user[u] # None, NEW row \in UserRow, Sets(u, row),
         row.pw = user[u].pw, row.verified = user[u].verified
  PROVE  RowsOK' /\ RowsGrow
<1>1. user[u].pw \in 1..MaxPw
  BY RowIsThere DEF IInv
<1>2. row \in Row /\ user[u].pw <= row.pw
  BY <1>1 DEF Row
<1> QED
  BY <1>2, SetsGrows DEF IInv

\* The last step of a request about an account.
LEMMA AccountRequestEnds ==
  ASSUME IInv, NEW r \in Slots, req[r].phase \in OfAccount, Ends(r), RowsOK', RowsGrow,
         UNCHANGED <<sessions, mailing, resets>>
  PROVE  IInv'
<1>1. ~req[r].key
  BY AccountOfRequest DEF IInv
<1>2. ~Idle.key /\ ~LogsIn(Idle)
  BY DEF Idle, LogsIn
<1> QED
  BY <1>1, <1>2, IdleIsWellFormed, QuietStep DEF Ends, Goes

\* A user asks to become an organizer: the session's row is read.
LEMMA RequestOrganizerReadsOK ==
  ASSUME IInv, NEW r \in Slots, NEW token \in tokens, RequestOrganizerReads(r, token)
  PROVE  IInv'
<1> DEFINE q == [Idle EXCEPT !.phase = "organizer", !.user = token.user]
<1>1. token.user \in Users /\ user[token.user] # None
  BY DEF IInv, TokensOK, TokenRow, RequestOrganizerReads, Live
<1>2. q \in Request
  BY <1>1, IdleIsWellFormed DEF Request, Phases, OfAccount
<1>3. q.phase = "organizer" /\ q.user = token.user /\ ~q.key
  BY DEF Idle
<1>4. Begins(r, q) /\ UNCHANGED <<user, sessions, mailing, resets>>
  BY DEF RequestOrganizerReads
<1> HIDE DEF q
<1> QED
  BY <1>1, <1>2, <1>3, <1>4, ReadsOK DEF Rereads

\* The request is written.
LEMMA RequestOrganizerOK ==
  ASSUME IInv, NEW r \in Slots, RequestOrganizer(r)
  PROVE  IInv'
<1> DEFINE u == req[r].user
           row == [user[u] EXCEPT !.requested = TRUE]
<1>1. u \in Users /\ user[u] \in Row /\ user[u] # None
  BY AccountOfRequest DEF IInv, RequestOrganizer, OfAccount
<1>2. row \in UserRow /\ row.pw = user[u].pw /\ row.verified = user[u].verified
  BY <1>1 DEF Row, UserRow
<1>3. Sets(u, row) \/ UNCHANGED user
  BY DEF RequestOrganizer
<1> HIDE DEF row
<1>4. RowsOK' /\ RowsGrow
  BY <1>1, <1>2, <1>3, ColumnWrite, SameRowsGrow DEF IInv
<1> QED
  BY <1>4, AccountRequestEnds DEF RequestOrganizer, OfAccount

\* A caller opens a talk of the studio: the row is read.
LEMMA OpensTalkReadsOK ==
  ASSUME IInv, NEW r \in Slots, NEW c \in Callers, NEW k \in TalkIds, OpensTalkReads(r, c, k)
  PROVE  IInv'
<1> DEFINE u == CallerOf(c).user
           q == [Idle EXCEPT !.phase = "speaker", !.user = u]
<1>1. u \in Users /\ user[u] # None
  BY CallerIsUser DEF IInv, OpensTalkReads, FromUser, Live
<1> HIDE DEF u
<1>2. q \in Request
  BY <1>1, IdleIsWellFormed DEF Request, Phases, OfAccount
<1>3. q.phase = "speaker" /\ q.user = u /\ q.seen = None /\ ~q.key
  BY DEF Idle
<1>4. Begins(r, q) /\ UNCHANGED <<user, sessions, mailing, resets>>
  BY DEF OpensTalkReads, u
<1> HIDE DEF q
<1> QED
  BY <1>1, <1>2, <1>3, <1>4, ReadsOK DEF Rereads

\* Opening the talk makes the user a speaker.
LEMMA OpensTalkOK ==
  ASSUME IInv, NEW r \in Slots, OpensTalk(r)
  PROVE  IInv'
<1> DEFINE u == req[r].user
           row == [user[u] EXCEPT !.role = "speaker"]
<1>1. u \in Users /\ user[u] \in Row /\ user[u] # None
  BY AccountOfRequest DEF IInv, OpensTalk, OfAccount
<1>2. row \in UserRow /\ row.pw = user[u].pw /\ row.verified = user[u].verified
  BY <1>1 DEF Row, UserRow, Roles
<1>3. Sets(u, row)
  BY DEF OpensTalk
<1> HIDE DEF row
<1>4. RowsOK' /\ RowsGrow
  BY <1>1, <1>2, <1>3, ColumnWrite
<1> QED
  BY <1>4, AccountRequestEnds DEF OpensTalk, OfAccount

\* The command promote.
LEMMA PromoteUserOK ==
  ASSUME IInv, NEW u \in Users, NEW role \in Roles, PromoteUser(u, role)
  PROVE  IInv'
<1> DEFINE row == [user[u] EXCEPT !.role = role,
                     !.requested = IF role = "organizer" THEN FALSE ELSE @]
<1>1. user[u] \in Row /\ user[u] # None
  BY RowIsThere DEF IInv, PromoteUser, Exists
<1>2. row \in UserRow /\ row.pw = user[u].pw /\ row.verified = user[u].verified
  <2>1. CASE role = "organizer"
    BY <1>1, <2>1 DEF Row, UserRow
  <2>2. CASE role # "organizer"
    BY <1>1, <2>2 DEF Row, UserRow
  <2> QED
    BY <2>1, <2>2
<1>3. Sets(u, row)
  BY DEF PromoteUser
<1> HIDE DEF row
<1>4. RowsOK' /\ RowsGrow
  BY <1>1, <1>2, <1>3, ColumnWrite
<1> QED
  BY <1>4, RowStep DEF PromoteUser, AtOnce

\* An administrator changes an account: the row is read.
LEMMA ChangeReadsOK ==
  ASSUME IInv, NEW r \in Slots, NEW u \in Users,
         NEW op \in {"activate", "deactivate", "promote"}, NEW role \in Roles \cup {"none"},
         op = "promote" => role \in Roles, op = "deactivate" => role = "none",
         ChangeReads(r, op, u, role)
  PROVE  IInv'
<1> DEFINE q == [Idle EXCEPT !.phase = op, !.user = u, !.seen = user[u], !.role = role]
<1>1. user[u] \in Row /\ user[u] # None
  BY RowIsThere DEF IInv, ChangeReads, Exists
<1>2. q \in Request
  BY <1>1, IdleIsWellFormed DEF Request, Phases, OfAccount
<1>3. q.phase = op /\ q.user = u /\ q.seen = user[u] /\ q.role = role /\ ~q.key
  BY DEF Idle
<1>4. Begins(r, q) /\ UNCHANGED <<user, sessions, mailing, resets>>
  BY DEF ChangeReads
<1> HIDE DEF q
<1> QED
  BY <1>1, <1>2, <1>3, <1>4, ReadsOK

\* What is written is a row, with the password and the verification of now.
LEMMA ChangedIsRow ==
  ASSUME IInv, NEW r \in Slots, req[r].phase \in {"activate", "deactivate", "promote"}
  PROVE  /\ req[r].user \in Users /\ user[req[r].user] # None /\ req[r].seen \in Row
         /\ Changed(r) \in UserRow
         /\ Changed(r).pw = user[req[r].user].pw
         /\ Changed(r).verified = user[req[r].user].verified
<1> DEFINE now == user[req[r].user]
           was == req[r].seen
<1>1. req[r].user \in Users /\ now \in Row /\ now # None
  BY AccountOfRequest DEF IInv, OfAccount
<1>2. was \in Row /\ (req[r].phase = "promote" => req[r].role \in Roles)
  BY DEF IInv, SlotsOK, WellFormed, Rereads
<1>3. Changed(r) \in {now, [now EXCEPT !.active = TRUE], [now EXCEPT !.active = FALSE]}
      \/ (req[r].phase = "promote" /\ Changed(r) = [now EXCEPT !.role = req[r].role])
  BY DEF Changed
<1>4. ASSUME NEW b \in BOOLEAN
      PROVE  /\ [now EXCEPT !.active = b] \in UserRow
             /\ [now EXCEPT !.active = b].pw = now.pw
             /\ [now EXCEPT !.active = b].verified = now.verified
  BY <1>1 DEF Row, UserRow
<1>5. ASSUME NEW role \in Roles
      PROVE  /\ [now EXCEPT !.role = role] \in UserRow
             /\ [now EXCEPT !.role = role].pw = now.pw
             /\ [now EXCEPT !.role = role].verified = now.verified
  BY <1>1 DEF Row, UserRow
<1> HIDE DEF now
<1>6. now \in UserRow
  BY <1>1 DEF Row
<1> QED
  BY <1>1, <1>2, <1>3, <1>4, <1>5, <1>6 DEF now

\* The change is written.
LEMMA ChangeWritesOK ==
  ASSUME IInv, NEW r \in Slots, ChangeWrites(r)
  PROVE  IInv'
<1>1. RowsOK' /\ RowsGrow
  BY ChangedIsRow, ColumnWrite DEF ChangeWrites
<1> QED
  BY <1>1, AccountRequestEnds DEF ChangeWrites, OfAccount

\* lock_active_admins locks the rows, and the row is read again.
LEMMA ChangeLocksOK ==
  ASSUME IInv, NEW r \in Slots, ChangeLocks(r)
  PROVE  IInv'
<1> DEFINE u == req[r].user
           q == [req[r] EXCEPT !.seen = user[u]]
<1>1. req[r].phase \in {"deactivate", "promote"} /\ req[r].phase \in OfAccount
  BY DEF ChangeLocks, Removes, OfAccount
<1>2. CASE ~ActiveAdmin(user[u])
  <2>1. req' = [req EXCEPT ![r] = q] /\ UNCHANGED user
    BY <1>2 DEF ChangeLocks, Goes
  <2>2. /\ u \in Users /\ user[u] \in Row /\ user[u] # None /\ ~req[r].key
        /\ req[r] \in Request /\ WellFormed(req[r], user)
    BY <1>1, AccountOfRequest DEF IInv, SlotsOK
  <2>3. q \in Request /\ q.phase = req[r].phase /\ q.user = u /\ ~q.key
        /\ q.seen = user[u] /\ q.role = req[r].role
    BY <2>2 DEF Request
  <2> HIDE DEF q
  <2>4. WellFormed(q, user')
    BY <1>1, <2>1, <2>2, <2>3 DEF WellFormed, OfAccount, Rereads, Idle
  <2>5. ~LogsIn(q)
    BY <1>1, <2>3 DEF LogsIn
  <2>6. RowsOK' /\ RowsGrow
    BY <2>1, SameRowsGrow DEF IInv
  <2> QED
    BY <2>1, <2>2, <2>3, <2>4, <2>5, <2>6, QuietStep DEF ChangeLocks
<1>3. CASE ActiveAdmin(user[u])
  <2>1. Ends(r) /\ (Sets(u, Changed(r)) \/ UNCHANGED user)
    BY <1>3 DEF ChangeLocks
  <2>2. RowsOK' /\ RowsGrow
    BY <1>1, <2>1, ChangedIsRow, ColumnWrite, SameRowsGrow DEF IInv
  <2> QED
    BY <1>1, <2>1, <2>2, AccountRequestEnds DEF ChangeLocks
<1> QED
  BY <1>2, <1>3

-------------------------------------------------------------------------------
(* The invariant *)

\* The invariant holds in the initial state.
LEMMA InitOK == Init => IInv
<1> SUFFICES ASSUME Init PROVE IInv
  OBVIOUS
<1>1. RowsOK
  <2>1. ASSUME NEW u \in Users PROVE Initial[u] \in Row \cup {None}
    BY InitialAssumption, PasswordsAssumption DEF Row
  <2> QED
    BY <2>1, InitialAssumption DEF Init, RowsOK
<1>2. SlotsOK
  BY IdleIsWellFormed DEF Init, SlotsOK
<1>3. TokensOK /\ LinksOK
  BY DEF Init, TokensOK, LinksOK
<1>4. \A r \in Slots : ~req[r].key /\ ~LogsIn(req[r])
  BY DEF Init, Idle, LogsIn
<1>5. LoginsOK /\ ResetsOK /\ KeysOK
  BY <1>4 DEF Init, LoginsOK, ResetsOK, KeysOK
<1> QED
  BY <1>1, <1>2, <1>3, <1>5 DEF IInv

\* Every request that begins keeps it.
LEMMA StartsOK ==
  ASSUME IInv, NEW r \in Slots, Starts(r)
  PROVE  IInv'
<1>1. CASE \E u \in Users : SignupSubmit(r, u)
  BY <1>1, SignupSubmitOK
<1>2. CASE \E u \in Users, kind \in {"session", "access"} : LoginSubmit(r, u, kind)
  BY <1>2, LoginSubmitOK
<1>3. CASE \E link \in links : VerifyEmailReads(r, link) \/ ResetPasswordReads(r, link)
  BY <1>3, VerifyEmailReadsOK, ResetPasswordReadsOK
<1>4. CASE \E kind \in Kinds, u \in Users : AsksForMail(r, kind, u)
  BY <1>4, AsksForMailOK
<1>5. CASE \E token \in tokens : RequestOrganizerReads(r, token)
  BY <1>5, RequestOrganizerReadsOK
<1>6. CASE \E c \in Callers, k \in TalkIds : OpensTalkReads(r, c, k)
  BY <1>6, OpensTalkReadsOK
<1>7. CASE \E u \in Users : ActivateReads(r, u) \/ DeactivateReads(r, u)
  BY <1>7, ChangeReadsOK DEF ActivateReads, DeactivateReads
<1>8. CASE \E u \in Users, role \in Roles : CliPromoteReads(r, u, role)
  BY <1>8, ChangeReadsOK DEF CliPromoteReads
<1> QED
  BY <1>1, <1>2, <1>3, <1>4, <1>5, <1>6, <1>7, <1>8 DEF Starts

\* Every request that goes on keeps it.
LEMMA ContinuesOK ==
  ASSUME IInv, NEW r \in Slots, Continues(r)
  PROVE  IInv'
  BY SyncSpeakerRoleOK, ReloadsOK, IssuesTokenOK, VerifyEmailSubmitOK, ResetPasswordSubmitOK,
     LooksUpOK, EnqueuesMailOK, MailRefusedOK, RequestOrganizerOK, OpensTalkOK,
     ChangeWritesOK, ChangeLocksOK
     DEF Continues

\* Every step of the system keeps it.
LEMMA NextOK == IInv /\ [Next]_vars => IInv'
<1> SUFFICES ASSUME IInv, [Next]_vars PROVE IInv'
  OBVIOUS
<1>1. CASE \E u \in Users : CreateAdmin(u)
  BY <1>1, CreateAdminOK
<1>2. CASE \E u \in Users, role \in Roles : PromoteUser(u, role)
  BY <1>2, PromoteUserOK
<1>3. CASE \E r \in Slots : Starts(r) \/ Continues(r)
  BY <1>3, StartsOK, ContinuesOK
<1>4. CASE \E k \in Keys : KeyExpires(k)
  BY <1>4, KeyExpiresOK
<1>5. CASE \E job \in mail : SendsMail(job)
  BY <1>5, SendsMailOK
<1>6. CASE UNCHANGED vars
  <2>1. RowsOK' /\ RowsGrow
    BY <1>6, SameRowsGrow DEF IInv, vars
  <2> QED
    BY <1>6, <2>1, RowStep DEF vars, sessions, mailing
<1> QED
  BY <1>1, <1>2, <1>3, <1>4, <1>5, <1>6 DEF Next

\* It holds in every reachable state.
LEMMA Invariance == Spec => []IInv
  BY InitOK, NextOK, PTL DEF Spec

-------------------------------------------------------------------------------
(* What follows from it *)

\* Every variable has its type.
THEOREM TypesHold == Spec => []AccountTypeOK
<1>1. IInv => AccountTypeOK
  <2> SUFFICES ASSUME IInv PROVE AccountTypeOK
    OBVIOUS
  <2>1. user \in [Users -> UserRow \cup {None}]
    BY DEF IInv, RowsOK, Row
  <2>2. \A t \in tokens : t.user \in Users /\ t.pwh \in 1..MaxPw /\ t.proof \in 0..MaxPw
    BY DEF IInv, TokensOK, TokenRow
  <2>3. \A r \in Slots : req[r].user \in Users \cup {None}
    BY DEF IInv, SlotsOK, Request
  <2> QED
    BY <2>1, <2>2, <2>3 DEF IInv, LinksOK, KeysOK, AccountTypeOK
<1> QED
  BY <1>1, Invariance, PTL

\* The verification links of an account log in once at most, however many were
\* mailed and however many requests open them at the same time: only the
\* UPDATE that finds the row unverified goes on to a session.
THEOREM LinksLogInOnce == Spec => []VerifyOnce
<1>1. IInv => VerifyOnce
  <2> SUFFICES ASSUME IInv, NEW u \in Users PROVE logins[u] <= 1
    BY DEF VerifyOnce
  <2>1. logins[u] \in 0..1
    BY DEF IInv, LoginsOK
  <2> QED
    BY <2>1
<1> QED
  BY <1>1, Invariance, PTL

\* The links made for one password reset it once at most: the UPDATE asks for
\* the password that was read, and no password returns.
THEOREM LinksResetOnce == Spec => []ResetOnce
<1>1. IInv => ResetOnce
  <2> SUFFICES ASSUME IInv, NEW u \in Users, NEW v \in 1..MaxPw PROVE resets[u][v] <= 1
    BY DEF ResetOnce
  <2>1. resets[u][v] \in 0..1
    BY DEF IInv, ResetsOK
  <2> QED
    BY <2>1
<1> QED
  BY <1>1, Invariance, PTL

\* A live token was issued for the password the account has now, or for a
\* verification link, or to a user who became a speaker by logging in.
THEOREM LiveTokensWereEarned == Spec => []SessionsFollowPassword
<1>1. IInv => SessionsFollowPassword
  BY DEF IInv, TokensOK, SessionsFollowPassword, Live
<1> QED
  BY <1>1, Invariance, PTL

\* A cool-down key lets one mail through, and is not lost to a request that
\* failed unless Redis refused to take it back.
THEOREM CoolDownHolds == Spec => []CoolDown
<1>1. IInv => CoolDown
  <2> SUFFICES ASSUME IInv, NEW k \in Keys
               PROVE  /\ mails[k] <= 1
                      /\ k \in keys /\ mails[k] = 0 =>
                           k \in unpaid \/ \E r \in Slots : req[r].key /\ KeyOf(r) = k
    BY DEF CoolDown
  <2>1. mails[k] \in 0..1
    BY DEF IInv, KeysOK
  <2> QED
    BY <2>1 DEF IInv, KeysOK
<1> QED
  BY <1>1, Invariance, PTL

-------------------------------------------------------------------------------
(* The last administrator *)

\* One of several administrators is another than u.
LEMMA AnotherAdmin ==
  ASSUME NEW u, Cardinality(ActiveAdmins) > 1
  PROVE  \E a \in ActiveAdmins : a # u
<1> SUFFICES ASSUME ActiveAdmins \subseteq {u} PROVE FALSE
  OBVIOUS
<1>1. IsFiniteSet({u}) /\ Cardinality({u}) = 1
  BY FS_Singleton
<1>2. IsFiniteSet(ActiveAdmins) /\ Cardinality(ActiveAdmins) <= 1
  BY <1>1, FS_Subset
<1>3. Cardinality(ActiveAdmins) \in Nat
  BY <1>2, FS_CardinalityType
<1> QED
  BY <1>2, <1>3

\* An administrator whose row is not written stays one.
LEMMA OthersStay ==
  ASSUME RowsOK, NEW u \in Users, NEW row, Sets(u, row), NEW a \in ActiveAdmins, a # u
  PROVE  ActiveAdmins' # {}
  BY DEF RowsOK, Sets, ActiveAdmins

\* So does one whose row is written with the role and the flag it had.
LEMMA SameRoleStays ==
  ASSUME RowsOK, NEW u \in Users, NEW row, Sets(u, row),
         ActiveAdmin(user[u]) => ActiveAdmin(row), ActiveAdmins # {}
  PROVE  ActiveAdmins' # {}
<1>1. PICK a \in ActiveAdmins : TRUE
  OBVIOUS
<1>2. CASE a = u
  <2>1. user'[u] = row /\ u \in Users
    BY DEF RowsOK, Sets
  <2>2. ActiveAdmin(row)
    BY <1>2 DEF ActiveAdmins
  <2> QED
    BY <2>1, <2>2 DEF ActiveAdmins
<1>3. CASE a # u
  BY <1>3, OthersStay
<1> QED
  BY <1>2, <1>3

\* A write that spares the last administrator leaves one.
LEMMA SparedAdmins ==
  ASSUME RowsOK, NEW u \in Users, NEW row, Sets(u, row), SparesAdmin(u), ActiveAdmins # {}
  PROVE  ActiveAdmins' # {}
<1>1. CASE ActiveAdmin(user[u])
  BY <1>1, AnotherAdmin, OthersStay DEF SparesAdmin
<1>2. CASE ~ActiveAdmin(user[u])
  BY <1>2, SameRoleStays
<1> QED
  BY <1>1, <1>2

\* So does a step that writes no row.
LEMMA SameAdmins ==
  ASSUME UNCHANGED user, ActiveAdmins # {}
  PROVE  ActiveAdmins' # {}
  BY DEF ActiveAdmins

\* A request whose slot changes, about a row that was no active administrator.
LEMMA UnawareRequest ==
  ASSUME IInv, NEW r \in Slots, NEW q, Goes(r, q), req[r].phase \in OfAccount,
         q.phase # req[r].phase, ~ActiveAdmin(req[r].seen)
  PROVE  Unaware(r)
<1>1. req[r].user \in Users
  BY AccountOfRequest DEF IInv
<1>2. req'[r] = q
  BY DEF Goes, IInv, SlotsOK
<1> QED
  BY <1>1, <1>2, UsersAssumption DEF Unaware

\* The conclusion for the requests that go on.
LEMMA ContinuesSpares ==
  ASSUME IInv, NEW r \in Slots, Continues(r), ActiveAdmins # {}
  PROVE  ActiveAdmins' # {} \/ Unaware(r)
<1> DEFINE u == req[r].user
<1>1. ASSUME req[r].phase \in OfAccount
      PROVE  u \in Users /\ user[u] \in Row /\ user[u] # None /\ RowsOK
  BY <1>1, AccountOfRequest DEF IInv
<1>2. Idle.phase = "idle" /\ "idle" \notin OfAccount
  BY DEF Idle, OfAccount
<1>3. CASE SyncSpeakerRole(r)
  <2>1. req[r].phase \in OfAccount /\ ~ActiveAdmin(req[r].seen) /\ req[r].phase = "issue"
    BY <1>3 DEF SyncSpeakerRole, MustSync, ActiveAdmin, OfAccount
  <2>2. [req[r] EXCEPT !.phase = "reload"].phase = "reload"
    BY <2>1, AccountOfRequest DEF IInv, Request
  <2> QED
    BY <1>3, <2>1, <2>2, UnawareRequest DEF SyncSpeakerRole
<1>4. CASE VerifyEmailSubmit(r)
  <2>1. req[r].phase \in OfAccount
    BY <1>4 DEF VerifyEmailSubmit, OfAccount
  <2>2. [user[u] EXCEPT !.verified = TRUE].role = user[u].role
        /\ [user[u] EXCEPT !.verified = TRUE].active = user[u].active
        /\ [user[u] EXCEPT !.verified = TRUE] \in UserRow
    BY <1>1, <2>1 DEF Row, UserRow
  <2>3. ActiveAdmin(user[u]) => ActiveAdmin([user[u] EXCEPT !.verified = TRUE])
    BY <2>2, NoneAssumption DEF ActiveAdmin
  <2> QED
    BY <1>1, <1>4, <2>1, <2>3, SameRoleStays, SameAdmins DEF VerifyEmailSubmit
<1>5. CASE ResetPasswordSubmit(r)
  <2>1. req[r].phase \in OfAccount
    BY <1>5 DEF ResetPasswordSubmit, OfAccount
  <2>2. NewPassword(user[u]).role = user[u].role /\ NewPassword(user[u]).active = user[u].active
    BY <1>1, <2>1 DEF NewPassword, Row, UserRow
  <2>3. NewPassword(user[u]) # None
    <3>1. user[u] \in UserRow /\ user[u].pw + 1 \in Nat \ {0}
      BY <1>1, <2>1 DEF Row, UserRow
    <3>2. NewPassword(user[u]) \in UserRow
      BY <3>1 DEF NewPassword, UserRow
    <3> QED
      BY <3>2, NoneAssumption
  <2>4. ActiveAdmin(user[u]) => ActiveAdmin(NewPassword(user[u]))
    BY <2>2, <2>3 DEF ActiveAdmin
  <2> QED
    BY <1>1, <1>5, <2>1, <2>4, SameRoleStays, SameAdmins DEF ResetPasswordSubmit
<1>6. CASE RequestOrganizer(r)
  <2>1. req[r].phase \in OfAccount
    BY <1>6 DEF RequestOrganizer, OfAccount
  <2>2. [user[u] EXCEPT !.requested = TRUE].role = user[u].role
        /\ [user[u] EXCEPT !.requested = TRUE].active = user[u].active
        /\ [user[u] EXCEPT !.requested = TRUE] \in UserRow
    BY <1>1, <2>1 DEF Row, UserRow
  <2>3. ActiveAdmin(user[u]) => ActiveAdmin([user[u] EXCEPT !.requested = TRUE])
    BY <2>2, NoneAssumption DEF ActiveAdmin
  <2> QED
    BY <1>1, <1>6, <2>1, <2>3, SameRoleStays, SameAdmins DEF RequestOrganizer
<1>7. CASE OpensTalk(r)
  <2>1. req[r].phase \in OfAccount /\ req[r].seen = None
    BY <1>7 DEF OpensTalk, OfAccount, IInv, SlotsOK, WellFormed
  <2> QED
    BY <1>2, <1>7, <2>1, UnawareRequest DEF OpensTalk, Ends, ActiveAdmin
<1>8. CASE ChangeWrites(r)
  <2>1. req[r].phase \in {"activate", "deactivate", "promote"} /\ req[r].phase \in OfAccount
    BY <1>8 DEF ChangeWrites, OfAccount
  <2>2. CASE ~ActiveAdmin(req[r].seen)
    BY <1>2, <1>8, <2>1, <2>2, UnawareRequest DEF ChangeWrites, Ends
  <2>3. CASE ActiveAdmin(req[r].seen)
    <3>1. \/ req[r].phase = "activate"
          \/ req[r].phase = "promote" /\ req[r].role = "admin"
      BY <1>8, <2>1, <2>3 DEF ChangeWrites, Removes, IInv, SlotsOK, WellFormed
    <3>2. Changed(r) = user[u]
      BY <2>3, <3>1 DEF Changed, ActiveAdmin
    <3> QED
      BY <1>1, <1>8, <2>1, <3>2, SameRoleStays DEF ChangeWrites
  <2> QED
    BY <2>2, <2>3
<1>9. CASE ChangeLocks(r)
  <2>1. req[r].phase \in OfAccount
    BY <1>9 DEF ChangeLocks, Removes, OfAccount
  <2> QED
    BY <1>1, <1>9, <2>1, SparedAdmins, SameAdmins DEF ChangeLocks
<1>10. CASE UNCHANGED user
  BY <1>10, SameAdmins
<1> QED
  BY <1>3, <1>4, <1>5, <1>6, <1>7, <1>8, <1>9, <1>10
     DEF Continues, Reloads, IssuesToken, LooksUp, EnqueuesMail, MailRefused

\* Whatever step takes the last active administrator away, it is one of a
\* request that read the row when it was none: the lock of lock_active_admins,
\* taken before the administrators are counted, keeps the others apart.
THEOREM LastAdminStays == Spec => AdminStays
<1>1. ASSUME IInv, Next, ActiveAdmins # {}, ActiveAdmins' = {}
      PROVE  \E r \in Slots : Unaware(r)
  <2>1. RowsOK
    BY <1>1 DEF IInv
  <2>2. ASSUME NEW u \in Users, ~Exists(u), NEW row, Sets(u, row) PROVE FALSE
    BY <1>1, <2>1, <2>2, SameRoleStays DEF Exists, ActiveAdmin
  <2>3. ASSUME NEW u \in Users, CreateAdmin(u) PROVE FALSE
    BY <2>2, <2>3 DEF CreateAdmin
  <2>4. ASSUME NEW u \in Users, NEW role \in Roles, PromoteUser(u, role) PROVE FALSE
    BY <1>1, <2>1, <2>4, SparedAdmins DEF PromoteUser
  <2>5. ASSUME NEW r \in Slots, Starts(r) PROVE FALSE
    <3>1. ASSUME NEW u \in Users, SignupSubmit(r, u) PROVE FALSE
      BY <2>2, <3>1 DEF SignupSubmit
    <3> QED
      BY <1>1, <2>5, <3>1, SameAdmins
         DEF Starts, LoginSubmit, VerifyEmailReads, ResetPasswordReads, AsksForMail,
             RequestOrganizerReads, OpensTalkReads, ActivateReads, DeactivateReads,
             CliPromoteReads, ChangeReads
  <2>6. ASSUME NEW r \in Slots, Continues(r) PROVE Unaware(r)
    BY <1>1, <2>6, ContinuesSpares
  <2>7. (\E k \in Keys : KeyExpires(k)) \/ (\E job \in mail : SendsMail(job)) => FALSE
    BY <1>1, SameAdmins DEF KeyExpires, SendsMail
  <2> QED
    BY <1>1, <2>3, <2>4, <2>5, <2>6, <2>7 DEF Next
<1>2. IInv /\ [Next]_vars =>
        [ActiveAdmins # {} /\ ActiveAdmins' = {} => \E r \in Slots : Unaware(r)]_vars
  BY <1>1
<1> QED
  BY <1>2, Invariance, PTL DEF Spec, AdminStays
===============================================================================
