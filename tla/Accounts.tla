------------------------------- MODULE Accounts -------------------------------
(***************************************************************************)
(* User accounts: sign-up, verification, sessions, password reset, roles   *)
(* (app/routes/auth.py, app/routes/admin.py, app/cli.py), with the mail    *)
(* jobs of app/tasks.py.                                                   *)
(*                                                                         *)
(* A request that reads a row and later writes it is two actions; between  *)
(* them others may change the row.  Three things guard the code against    *)
(* that, each somewhere else: UPDATE ... WHERE the row is still as read,   *)
(* SELECT ... FOR UPDATE, and a key in Redis set only if absent.           *)
(***************************************************************************)
EXTENDS Access, FiniteSets

CONSTANTS
  Initial,     \* the rows at the start
  Clients,     \* the API clients, by the name of their key; "stale" is none's
  Slots,       \* requests in flight at one time
  MaxRequests, \* bound on the requests of one behaviour
  MaxPw,       \* bound on the passwords a user has had
  Faults       \* what may go wrong: "enqueue", "give_back"

ASSUME InitialAssumption == Initial \in [Users -> UserRow \cup {None}]
ASSUME ClientsAssumption ==
  /\ \A n \in DOMAIN Clients : Clients[n] \in ClientRow
  /\ None \notin ClientRow /\ "stale" \notin DOMAIN Clients
  /\ \A n \in DOMAIN Clients \cup {"stale"} : Key(n) # None
ASSUME UsersAssumption == IsFiniteSet(Users) /\ None \notin Users
ASSUME PasswordsAssumption ==
  MaxPw \in Nat \ {0} /\ \A u \in Users : Initial[u] # None => Initial[u].pw <= MaxPw
ASSUME FaultsAssumption == Faults \subseteq {"enqueue", "give_back"}

VARIABLES
  user,    \* the table of users, None where there is no account
  tokens,  \* the session and access tokens issued
  mail,    \* the mail jobs in RQ
  links,   \* the links mailed
  keys,    \* the cool-down keys in Redis
  req,     \* what each request in flight is doing
  asked,   \* number of requests so far
  logins,  \* history: logins[u], sessions opened by verification links
  resets,  \* history: resets[u][v], resets by a link made for password v
  mails,   \* history: mails[k], mail jobs enqueued since key k was set
  unpaid   \* history: keys kept although no mail was due, or Redis was down

vars == <<user, tokens, mail, links, keys, req, asked, logins, resets, mails, unpaid>>

Kinds == {"verify", "reset"}
Keys == Kinds \X Users

Idle ==
  [ phase |-> "idle", user |-> None, seen |-> None, kind |-> "none",
    proof |-> 0, key |-> FALSE, role |-> "none" ]

Init ==
  /\ user = Initial
  /\ tokens = {} /\ mail = {} /\ links = {} /\ keys = {}
  /\ req = [r \in Slots |-> Idle]
  /\ asked = 0
  /\ logins = [u \in Users |-> 0]
  /\ resets = [u \in Users |-> [v \in 1..MaxPw |-> 0]]
  /\ mails = [k \in Keys |-> 0]
  /\ unpaid = {}

Exists(u) == user[u] # None
Is(u, role) == Exists(u) /\ user[u].role = role
ActiveAdmin(row) == row # None /\ row.role = "admin" /\ row.active
ActiveAdmins == {u \in Users : ActiveAdmin(user[u])}

Speaks(u) == \E k \in TalkIds : SpeakerOf[k] = u

\* A request begins in slot r.
Begins(r, fields) ==
  /\ req[r] = Idle /\ asked < MaxRequests
  /\ req' = [req EXCEPT ![r] = fields]
  /\ asked' = asked + 1

\* A request that is one transaction.
AtOnce == asked < MaxRequests /\ asked' = asked + 1 /\ UNCHANGED req

Goes(r, fields) == req' = [req EXCEPT ![r] = fields] /\ UNCHANGED asked
Ends(r) == Goes(r, Idle)

Sets(u, row) == user' = [user EXCEPT ![u] = row]

sessions == <<tokens, logins>>
mailing == <<mail, links, keys, mails, unpaid>>

-------------------------------------------------------------------------------
(* Sign-up *)

NewUser(role) ==
  [role |-> role, active |-> TRUE, verified |-> FALSE, requested |-> FALSE, pw |-> 1]

\* The address is unique: of two sign-ups that find none, one is refused.
SignupSubmit(r, u) ==
  /\ ~Exists(u)
  /\ Sets(u, NewUser(IF Speaks(u) THEN "speaker" ELSE "user"))
  /\ Begins(r, [Idle EXCEPT !.phase = "mail", !.user = u, !.kind = "verify"])
  /\ UNCHANGED <<sessions, mailing, resets>>

\* The command create_admin.
CreateAdmin(u) ==
  /\ ~Exists(u) /\ Sets(u, NewUser("admin"))
  /\ AtOnce /\ UNCHANGED <<sessions, mailing, resets>>

-------------------------------------------------------------------------------
(* Logging in *)

\* login_submit and api_auth_token, with the right password.
LoginSubmit(r, u, kind) ==
  /\ Exists(u) /\ user[u].active /\ user[u].verified
  /\ Begins(r, [Idle EXCEPT !.phase = "issue", !.user = u, !.seen = user[u],
                            !.kind = kind, !.proof = user[u].pw])
  /\ UNCHANGED <<user, sessions, mailing, resets>>

\* A plain user whose address a talk names becomes a speaker.
MustSync(r) == req[r].seen.role = "user" /\ Speaks(req[r].user)

\* _sync_speaker_role: the role that was read decides, the row is written.
\* After its commit the session reads the row again.
SyncSpeakerRole(r) ==
  LET u == req[r].user
  IN  /\ req[r].phase = "issue" /\ MustSync(r)
      /\ Sets(u, [user[u] EXCEPT !.role = "speaker"])
      /\ Goes(r, [req[r] EXCEPT !.phase = "reload"])
      /\ UNCHANGED <<sessions, mailing, resets>>

Reloads(r) ==
  /\ req[r].phase = "reload"
  /\ Goes(r, [req[r] EXCEPT !.phase = "issue", !.seen = user[req[r].user]])
  /\ UNCHANGED <<user, sessions, mailing, resets>>

IssuesToken(r) ==
  /\ req[r].phase = "issue" /\ ~MustSync(r)
  /\ tokens' = tokens \cup
       {Token(req[r].kind, req[r].user, req[r].seen, req[r].proof)}
  /\ logins' = IF req[r].proof = 0 THEN [logins EXCEPT ![req[r].user] = @ + 1] ELSE logins
  /\ Ends(r)
  /\ UNCHANGED <<user, mailing, resets>>

-------------------------------------------------------------------------------
(* Links *)

\* The row verify_email_submit looks up need not stay as it is.
VerifyEmailReads(r, link) ==
  /\ link \in links /\ link.kind = "verify"
  /\ Exists(link.user) /\ user[link.user].active
  /\ Begins(r, [Idle EXCEPT !.phase = "verify", !.user = link.user, !.kind = "session"])
  /\ UNCHANGED <<user, sessions, mailing, resets>>

\* Faulty: an UPDATE of a row that is verified already counts as well.
VerifyEmailAgain(r) ==
  LET u == req[r].user
  IN  /\ req[r].phase = "verify"
      /\ Sets(u, [user[u] EXCEPT !.verified = TRUE])
      /\ Goes(r, [req[r] EXCEPT !.phase = "reload"])
      /\ UNCHANGED <<sessions, mailing, resets>>

\* UPDATE ... WHERE NOT is_verified AND is_active: one request of all wins.
VerifyEmailSubmit(r) ==
  LET u == req[r].user
  IN  /\ req[r].phase = "verify"
      /\ IF user[u].active /\ ~user[u].verified
         THEN /\ Sets(u, [user[u] EXCEPT !.verified = TRUE])
              /\ Goes(r, [req[r] EXCEPT !.phase = "reload"])
         ELSE UNCHANGED user /\ Ends(r)
      /\ UNCHANGED <<sessions, mailing, resets>>

\* verify_password_reset_token: the password is the one the link was made for.
Fits(link) == user[link.user].pw = link.pw

ResetPasswordReads(r, link) ==
  LET u == link.user
  IN  /\ link \in links /\ link.kind = "reset"
      /\ Exists(u) /\ user[u].active /\ Fits(link) /\ user[u].pw < MaxPw
      /\ Begins(r, [Idle EXCEPT !.phase = "reset", !.user = u, !.seen = user[u]])
      /\ UNCHANGED <<user, sessions, mailing, resets>>

\* Faulty: the old hash is cleared, no new one set.
NoPassword(row) == [row EXCEPT !.pw = 0, !.verified = TRUE]

NewPassword(row) == [row EXCEPT !.pw = @ + 1, !.verified = TRUE]

\* Faulty: the UPDATE does not ask for the password that was read.
ResetPasswordAgain(r) ==
  LET u == req[r].user
  IN  /\ req[r].phase = "reset"
      /\ IF user[u].active
         THEN /\ Sets(u, NewPassword(user[u]))
              /\ resets' = [resets EXCEPT ![u][req[r].seen.pw] = @ + 1]
         ELSE UNCHANGED <<user, resets>>
      /\ Ends(r)
      /\ UNCHANGED <<sessions, mailing>>

\* UPDATE ... WHERE hashed_password is the one read AND is_active.
ResetPasswordSubmit(r) ==
  LET u == req[r].user
      old == req[r].seen.pw
  IN  /\ req[r].phase = "reset"
      /\ IF user[u].active /\ user[u].pw = old
         THEN /\ Sets(u, NewPassword(user[u]))
              /\ resets' = [resets EXCEPT ![u][old] = @ + 1]
         ELSE UNCHANGED <<user, resets>>
      /\ Ends(r)
      /\ UNCHANGED <<sessions, mailing>>

-------------------------------------------------------------------------------
(* Asking for mail: verify_email_resend_submit, forgot_password_submit *)

\* SET key NX EX 60, before anything is known of the account.
AsksForMail(r, kind, u) ==
  /\ <<kind, u>> \notin keys
  /\ keys' = keys \cup {<<kind, u>>}
  /\ Begins(r, [ Idle EXCEPT !.phase = IF kind = "verify" THEN "lookup" ELSE "mail",
                   !.user = u, !.kind = kind, !.key = TRUE ])
  /\ UNCHANGED <<user, sessions, mail, links, mails, unpaid, resets>>

\* Only an active account that is not verified gets another mail.
LooksUp(r) ==
  LET u == req[r].user
      due == Exists(u) /\ user[u].active /\ ~user[u].verified
  IN  /\ req[r].phase = "lookup"
      /\ IF due THEN Goes(r, [req[r] EXCEPT !.phase = "mail"]) /\ UNCHANGED unpaid
         ELSE Ends(r) /\ unpaid' = unpaid \cup {<<"verify", u>>}
      /\ UNCHANGED <<user, sessions, mail, links, keys, mails, resets>>

KeyOf(r) == <<req[r].kind, req[r].user>>

EnqueuesMail(r) ==
  /\ req[r].phase = "mail"
  /\ mail' = mail \cup {[kind |-> req[r].kind, user |-> req[r].user]}
  /\ mails' = IF req[r].key THEN [mails EXCEPT ![KeyOf(r)] = @ + 1] ELSE mails
  /\ Ends(r)
  /\ UNCHANGED <<user, sessions, links, keys, unpaid, resets>>

\* Faulty: the key is kept when Redis refuses the job.
MailRefusedKeepsKey(r, back) ==
  /\ req[r].phase = "mail" /\ "enqueue" \in Faults
  /\ Ends(r)
  /\ UNCHANGED <<user, sessions, mailing, resets>>

\* Redis refuses the job; the key is given back, unless Redis refuses that.
MailRefused(r, back) ==
  /\ req[r].phase = "mail" /\ "enqueue" \in Faults
  /\ back \/ (req[r].key /\ "give_back" \in Faults)
  /\ keys' = IF req[r].key /\ back THEN keys \ {KeyOf(r)} ELSE keys
  /\ unpaid' = IF back THEN unpaid ELSE unpaid \cup {KeyOf(r)}
  /\ Ends(r)
  /\ UNCHANGED <<user, sessions, mail, links, mails, resets>>

\* A minute has passed; a request is taken to last less than that.
KeyExpires(k) ==
  /\ k \in keys /\ ~\E r \in Slots : req[r].key /\ KeyOf(r) = k
  /\ keys' = keys \ {k}
  /\ mails' = [mails EXCEPT ![k] = 0]
  /\ unpaid' = unpaid \ {k}
  /\ UNCHANGED <<user, sessions, mail, links, req, asked, resets>>

\* create_email_verification_token and create_password_reset_token.
Link(kind, u) ==
  [kind |-> kind, user |-> u, pw |-> IF kind = "reset" THEN user[u].pw ELSE 0]

\* job_send_verification_email and job_send_password_reset_email: the account
\* as it is now decides, and the link to reset is made for its password now.
SendsMail(job) ==
  LET u == job.user
      due == Exists(u) /\ IF job.kind = "verify" THEN ~user[u].verified
                           ELSE user[u].active
  IN  /\ job \in mail
      /\ mail' = mail \ {job}
      /\ links' = IF due THEN links \cup {Link(job.kind, u)} ELSE links
      /\ UNCHANGED <<user, sessions, keys, mails, unpaid, req, asked, resets>>

-------------------------------------------------------------------------------
(* Roles *)

Callers == {[place |-> p, token |-> t] : p \in {"cookie", "bearer"}, t \in tokens}

CallerOf(c) == CurrentUser(user, Clients, [NoCredentials EXCEPT ![c.place] = c.token])

AdminCalls(u) ==
  \E c \in Callers : RequireAdmin(CallerOf(c)) /\ CallerOf(c).user = u

\* request_organizer_role, with a session cookie.
RequestOrganizerReads(r, token) ==
  /\ token \in tokens /\ token.kind = "session" /\ Live(user, token)
  /\ user[token.user].role = "user" /\ ~user[token.user].requested
  /\ Begins(r, [Idle EXCEPT !.phase = "organizer", !.user = token.user])
  /\ UNCHANGED <<user, sessions, mailing, resets>>

\* UPDATE ... WHERE role is user AND NOT organizer_requested.
RequestOrganizer(r) ==
  LET u == req[r].user
  IN  /\ req[r].phase = "organizer"
      /\ IF user[u].role = "user" /\ ~user[u].requested
         THEN Sets(u, [user[u] EXCEPT !.requested = TRUE]) ELSE UNCHANGED user
      /\ Ends(r)
      /\ UNCHANGED <<sessions, mailing, resets>>

\* check_talk_access on behalf of a person; the studio does the same.
OpensTalkReads(r, c, k) ==
  LET caller == CallerOf(c)
  IN  /\ c \in Callers /\ caller # Denied
      /\ TalkAccess(caller, k) /\ BecomesSpeaker(caller, k)
      /\ Begins(r, [Idle EXCEPT !.phase = "speaker", !.user = caller.user])
      /\ UNCHANGED <<user, sessions, mailing, resets>>

OpensTalk(r) ==
  LET u == req[r].user
  IN  /\ req[r].phase = "speaker"
      /\ Sets(u, [user[u] EXCEPT !.role = "speaker"])
      /\ Ends(r)
      /\ UNCHANGED <<sessions, mailing, resets>>

\* Faulty: the administrators are counted with u left among them.
SparesAdminLate(u) == ActiveAdmin(user[u]) => Cardinality(ActiveAdmins) >= 1

\* lock_active_admins: the rows counted stay as they are until the commit.
SparesAdmin(u) == ActiveAdmin(user[u]) => Cardinality(ActiveAdmins) > 1

\* promote_user of the administration pages locks the row before it reads it.
PromoteUser(u, role) ==
  /\ \E a \in Users : AdminCalls(a)
  /\ Exists(u) /\ role \in {"user", "organizer"}
  /\ SparesAdmin(u)
  /\ Sets(u, [user[u] EXCEPT !.role = role,
                             !.requested = IF role = "organizer" THEN FALSE ELSE @])
  /\ AtOnce
  /\ UNCHANGED <<sessions, mailing, resets>>

\* activate_user, deactivate_user and the command promote_user read first.
ChangeReads(r, op, u, role) ==
  /\ Exists(u)
  /\ Begins(r, [Idle EXCEPT !.phase = op, !.user = u, !.seen = user[u], !.role = role])
  /\ UNCHANGED <<user, sessions, mailing, resets>>

ActivateReads(r, u) ==
  /\ \E a \in Users : AdminCalls(a)
  /\ ChangeReads(r, "activate", u, "none")

DeactivateReads(r, u) ==
  /\ \E a \in Users \ {u} : AdminCalls(a)
  /\ ChangeReads(r, "deactivate", u, "none")

CliPromoteReads(r, u, role) ==
  /\ role \in {"user", "organizer", "admin"}
  /\ ChangeReads(r, "promote", u, role)

\* What the commit writes: a column only if it differs from the one read.
Changed(r) ==
  LET now == user[req[r].user]
      was == req[r].seen
  IN  CASE req[r].phase = "activate" /\ ~was.active -> [now EXCEPT !.active = TRUE]
        [] req[r].phase = "deactivate" /\ was.active -> [now EXCEPT !.active = FALSE]
        [] req[r].phase = "promote" /\ was.role # req[r].role ->
             [now EXCEPT !.role = req[r].role]
        [] OTHER -> now

\* Takes an active administrator away.
Removes(r) ==
  /\ req[r].phase \in {"deactivate", "promote"} /\ req[r].role # "admin"
  /\ ActiveAdmin(req[r].seen)

ChangeWrites(r) ==
  /\ req[r].phase \in {"activate", "deactivate", "promote"} /\ ~Removes(r)
  /\ Sets(req[r].user, Changed(r))
  /\ Ends(r)
  /\ UNCHANGED <<sessions, mailing, resets>>

\* Under the lock the row is read again.  If it is no longer an active
\* administrator it is not among the rows locked, and the write comes later.
ChangeLocks(r) ==
  LET u == req[r].user
  IN  /\ Removes(r)
      /\ IF ~ActiveAdmin(user[u])
         THEN Goes(r, [req[r] EXCEPT !.seen = user[u]]) /\ UNCHANGED user
         ELSE /\ IF SparesAdmin(u) THEN Sets(u, Changed(r)) ELSE UNCHANGED user
              /\ Ends(r)
      /\ UNCHANGED <<sessions, mailing, resets>>

-------------------------------------------------------------------------------
Starts(r) ==
  \/ \E u \in Users : SignupSubmit(r, u)
  \/ \E u \in Users, kind \in {"session", "access"} : LoginSubmit(r, u, kind)
  \/ \E link \in links : VerifyEmailReads(r, link) \/ ResetPasswordReads(r, link)
  \/ \E kind \in Kinds, u \in Users : AsksForMail(r, kind, u)
  \/ \E token \in tokens : RequestOrganizerReads(r, token)
  \/ \E c \in Callers, k \in TalkIds : OpensTalkReads(r, c, k)
  \/ \E u \in Users : ActivateReads(r, u) \/ DeactivateReads(r, u)
  \/ \E u \in Users, role \in Roles : CliPromoteReads(r, u, role)

Continues(r) ==
  \/ SyncSpeakerRole(r)
  \/ Reloads(r)
  \/ IssuesToken(r)
  \/ VerifyEmailSubmit(r)
  \/ ResetPasswordSubmit(r)
  \/ LooksUp(r)
  \/ EnqueuesMail(r)
  \/ \E back \in BOOLEAN : MailRefused(r, back)
  \/ RequestOrganizer(r)
  \/ OpensTalk(r)
  \/ ChangeWrites(r)
  \/ ChangeLocks(r)

Next ==
  \/ \E u \in Users : CreateAdmin(u)
  \/ \E u \in Users, role \in Roles : PromoteUser(u, role)
  \/ \E r \in Slots : Starts(r) \/ Continues(r)
  \/ \E k \in Keys : KeyExpires(k)
  \/ \E job \in mail : SendsMail(job)

Spec == Init /\ [][Next]_vars
===============================================================================
