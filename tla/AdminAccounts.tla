----------------------------- MODULE AdminAccounts -----------------------------
(***************************************************************************)
(* Operators sign in to the control panel and administer one another:       *)
(* security/admin_auth.py, api/admin_deps.py, api/routes/admin/auth.py and  *)
(* cli/admin.py.  A request is one transaction under READ COMMITTED with no *)
(* row lock before its UPDATE: it resolves its session, reads the row it    *)
(* will change, and commits; other requests commit in between.              *)
(***************************************************************************)
EXTENDS AdminRoles, Naturals, Sequences, FiniteSets

CONSTANTS
  Admins,         \* e-mail addresses
  Rosters,        \* the sets of super admins the panel may start with
  Sessions,       \* admin_sessions rows
  Requests,       \* requests served at once
  None,           \* no operator, session, target or value
  Ips,            \* client addresses
  NoIp,           \* the address of a client that has none
  GrantedRoles,   \* roles operators hand out
  MaxFailed,      \* MAX_FAILED_ATTEMPTS
  MaxIpAttempts,  \* MAX_IP_ATTEMPTS
  Days            \* bounds: how many sign-ins, account changes, edits, requests
                  \* that die and passages of time one behaviour may have

ASSUME AdminAccountsAssumption ==
  /\ Rosters \subseteq SUBSET Admins
  /\ None \notin Admins \cup Sessions
  /\ GrantedRoles \subseteq Role
  /\ {MaxFailed, MaxIpAttempts} \subseteq Nat
  /\ Days \subseteq [logins : Nat, writes : Nat, edits : Nat, ticks : Nat, crashes : Nat]
  /\ MaxFailed > 0

VARIABLES
  users,   \* admin_users
  sess,    \* admin_sessions
  tries,   \* per address, the failed admin_login_attempts of the window
  req,     \* the requests
  audit,   \* audit_events, in order of commit
  past,    \* per account: passwords set, revocations, wrong guesses since the
           \* counter was cleared, whether requests crossed on the counter, and
           \* whether a rehash ever put an older password back
  left     \* what remains of the bounds

accountVars == <<users, sess, tries, req, audit, past, left>>

NoAdmin == [exists |-> FALSE, role |-> "SUPPORT", active |-> FALSE, pw |-> 0,
            weak |-> FALSE, must |-> FALSE, failed |-> 0, lock |-> "none"]

Unissued == [state |-> "unused", user |-> None, age |-> "fresh",
             pw |-> 0, since |-> 0, made |-> 0]

IdleReq == [pc |-> "idle", op |-> "none", by |-> None, s |-> None, needs |-> "none",
            tgt |-> None, arg |-> None, seen |-> None, right |-> FALSE, since |-> 0, crossed |-> {}]

\* `weak`: a password hashed with parameters the library has since raised.
AccountsInit ==
  /\ \E staff \in Rosters :
       users = [u \in Admins |->
                  IF u \in staff
                  THEN [NoAdmin EXCEPT !.exists = TRUE, !.role = "SUPER_ADMIN",
                                       !.active = TRUE, !.weak = TRUE]
                  ELSE NoAdmin]
  /\ sess = [s \in Sessions |-> Unissued]
  /\ tries = [ip \in Ips |-> 0]
  /\ req = [r \in Requests |-> IdleReq]
  /\ audit = <<>>
  /\ past = [u \in Admins |-> [minted |-> 0, revoked |-> 0, guesses |-> 0,
                               crossed |-> FALSE, undone |-> FALSE]]
  /\ left \in Days

-----------------------------------------------------------------------------
(* What requests do to one another.                                         *)

Busy(r) == req[r].pc # "idle"

\* A request that commits `mark` ends; the others were overtaken by it.
Finish(r, mark) ==
  req' = [q \in Requests |->
            IF q = r THEN IdleReq
            ELSE IF Busy(q) THEN [req[q] EXCEPT !.crossed = @ \cup {mark}]
            ELSE req[q]]

Drop(r) == req' = [req EXCEPT ![r] = IdleReq]

\* SQLAlchemy writes an attribute only if it differs from the value it loaded.
Assign(loaded, new, row) == IF loaded # new THEN new ELSE row

Allowed(u, permission) ==
  users[u].active /\ (permission = "none" \/ RoleAllows(users[u].role, permission))

\* record_audit and record_high_risk: who changed which field of what, from
\* what to what; `may` is whether they still could when it was committed.
Entry(r, field, before, after) ==
  [by |-> req[r].by, field |-> field, tgt |-> req[r].tgt, before |-> before,
   after |-> after, crossed |-> req[r].crossed, may |-> Allowed(req[r].by, req[r].needs)]

Record(r, field, before, after) == audit' = Append(audit, Entry(r, field, before, after))

\* A login or a change of the same account was committed in between.
Overtaken(r, u) == req[r].crossed \cap {<<"login", u>>, <<"account", u>>} # {}

\* Mutant: an operation that keeps the old sessions.
RevokeNone(u, rows) == rows

\* revoke_all_for_user, on top of the last_seen_at the request itself wrote.
RevokeAll(u, rows) ==
  [s \in Sessions |->
     IF rows[s].state = "live" /\ rows[s].user = u
     THEN [rows[s] EXCEPT !.state = "revoked"]
     ELSE rows[s]]

Seen(r) == [sess EXCEPT ![req[r].s].age = IF @ = "idle" THEN "fresh" ELSE @]

Revoked(u) == [past EXCEPT ![u].revoked = @ + 1]
-----------------------------------------------------------------------------
(* login.                                                                   *)

IpIsThrottled(ip) == ip # NoIp /\ tries[ip] >= MaxIpAttempts

FailedAttempt(ip) == tries' = [tries EXCEPT ![ip] = IF ip = NoIp THEN @ ELSE @ + 1]

LoginThrottle(r, u, ip) ==
  /\ ~Busy(r)
  /\ left.logins > 0
  /\ left' = [left EXCEPT !.logins = @ - 1]
  /\ IF IpIsThrottled(ip)
     THEN FailedAttempt(ip) /\ UNCHANGED req
     ELSE /\ req' = [req EXCEPT ![r] = [IdleReq EXCEPT !.pc = "counted",
                       !.op = "login", !.by = u, !.tgt = u, !.arg = ip]]
          /\ UNCHANGED tries
  /\ UNCHANGED <<users, sess, audit, past>>

\* `right`: whether the password offered is the one this read found.
LoginRead(r, right) ==
  LET u == req[r].tgt IN
  /\ req[r].pc = "counted"
  /\ IF users[u].exists /\ users[u].active /\ users[u].lock # "held"
     THEN /\ req' = [req EXCEPT ![r] = [@ EXCEPT !.pc = "loaded", !.seen = users[u],
                       !.right = right, !.since = past[u].revoked]]
          /\ UNCHANGED tries
     ELSE ~right /\ FailedAttempt(req[r].arg) /\ Drop(r)
  /\ UNCHANGED <<users, sess, audit, past, left>>

\* Mutant: one guess too many.
LocksLate(n) == n > MaxFailed

LocksAt(n) == n >= MaxFailed

WrongPassword(r) ==
  LET u == req[r].tgt
      n == req[r].seen.failed + 1
  IN
  /\ req[r].pc = "loaded" /\ req[r].op = "login" /\ ~req[r].right
  /\ users' = [users EXCEPT ![u].failed = n,
                            ![u].lock = IF LocksAt(n) THEN "held" ELSE @]
  /\ past' = [past EXCEPT ![u].guesses = @ + 1, ![u].crossed = @ \/ Overtaken(r, u)]
  /\ FailedAttempt(req[r].arg)
  /\ Finish(r, <<"login", u>>)
  /\ UNCHANGED <<sess, audit, left>>

\* A weak hash is replaced by a fresh hash of the password offered.
Rehashed(r, row) ==
  IF req[r].seen.weak THEN [row EXCEPT !.pw = req[r].seen.pw, !.weak = FALSE] ELSE row

SignIn(r, s) ==
  LET u == req[r].tgt
      seen == req[r].seen
      row == Rehashed(r, users[u])
  IN
  /\ req[r].pc = "loaded" /\ req[r].op = "login" /\ req[r].right
  /\ sess[s].state = "unused"
  /\ users' = [users EXCEPT ![u] = [row EXCEPT
                 !.failed = Assign(seen.failed, 0, @),
                 !.lock = Assign(seen.lock, "none", @)]]
  /\ sess' = [sess EXCEPT ![s] = [state |-> "live", user |-> u, age |-> "fresh",
                pw |-> seen.pw, since |-> req[r].since, made |-> past[u].revoked]]
  /\ past' = [past EXCEPT ![u].guesses = IF seen.failed = 0 THEN @ ELSE 0,
                          ![u].crossed = @ \/ Overtaken(r, u),
                          ![u].undone = @ \/ row.pw # users[u].pw]
  /\ Finish(r, <<"login", u>>)
  /\ UNCHANGED <<tries, audit, left>>

Logout(s) ==
  /\ sess[s].state = "live"
  /\ sess' = [sess EXCEPT ![s].state = "revoked"]
  /\ UNCHANGED <<users, tries, req, audit, past, left>>
-----------------------------------------------------------------------------
(* A request with a session: resolve_session, require, the handler's reads. *)

\* Mutant: the session is enough, the account behind it is not looked at.
AdmitOnSession(r, s, op, permission, tgt, arg) ==
  /\ ~Busy(r)
  /\ sess[s].state = "live"
  /\ sess[s].age = "fresh"
  /\ req' = [req EXCEPT ![r] = [IdleReq EXCEPT !.pc = "admitted", !.op = op,
               !.by = sess[s].user, !.s = s, !.needs = permission, !.tgt = tgt,
               !.arg = arg, !.seen = users[sess[s].user]]]

\* resolve_session, then the permission; a refused request changes nothing.
Admit(r, s, op, permission, tgt, arg) ==
  /\ ~Busy(r)
  /\ sess[s].state = "live"
  /\ sess[s].age = "fresh"
  /\ Allowed(sess[s].user, permission)
  /\ req' = [req EXCEPT ![r] = [IdleReq EXCEPT !.pc = "admitted", !.op = op,
               !.by = sess[s].user, !.s = s, !.needs = permission, !.tgt = tgt,
               !.arg = arg, !.seen = users[sess[s].user]]]

OneWrite == left.writes > 0 /\ left' = [left EXCEPT !.writes = @ - 1]

\* An idle session is revoked by the request that finds it so.
IdleTimeout(s) ==
  /\ sess[s].state = "live" /\ sess[s].age = "idle"
  /\ sess' = [sess EXCEPT ![s].state = "revoked"]
  /\ UNCHANGED <<users, tries, req, audit, past, left>>

AskPassword(r, s) ==
  /\ OneWrite
  /\ Admit(r, s, "password", "none", sess[s].user, None)
  /\ UNCHANGED <<users, sess, tries, audit, past>>

AskAccount(r, s, u) ==
  /\ OneWrite
  /\ \/ \E role \in GrantedRoles, op \in {"create", "role"} :
          Admit(r, s, op, "admin_user:write", u, role)
     \/ \E status \in BOOLEAN : Admit(r, s, "status", "admin_user:write", u, status)
     \/ Admit(r, s, "reset", "admin_user:write", u, None)
  /\ UNCHANGED <<users, sess, tries, audit, past>>

\* Mutant: nothing keeps an operator from lowering their own role.
SelfDemotionAllowed(r, canonical) ==
  req[r].tgt = req[r].by /\ req[r].op = "status" /\ canonical

\* change_role refuses to lower the role of the caller, whose id it takes from
\* the row; set_status refuses the caller's account, but compares the id as the
\* path spells it: `canonical` is whether that is how the session spells it.
OnOneself(r, canonical) ==
  /\ req[r].tgt = req[r].by
  /\ \/ req[r].op = "status" /\ canonical
     \/ req[r].op = "role" /\ req[r].arg # "SUPER_ADMIN"

\* The caller's own row was loaded with the session and is not read again.
\* `right`: change_password is given the current password.
LoadAccount(r, right, canonical) ==
  LET u == req[r].tgt IN
  /\ req[r].pc = "admitted"
  /\ req[r].op \in {"create", "role", "status", "reset", "password"}
  /\ IF \/ OnOneself(r, canonical)
        \/ users[u].exists = (req[r].op = "create")
        \/ req[r].op = "password" /\ ~right
     THEN Drop(r)
     ELSE req' = [req EXCEPT ![r] = [req[r] EXCEPT !.pc = "loaded",
                 !.seen = IF u = req[r].by THEN req[r].seen ELSE users[u]]]
  /\ UNCHANGED <<users, sess, tries, audit, past, left>>

Loaded(r, op) == req[r].pc = "loaded" /\ req[r].op = op

Minted(u) == past[u].minted + 1
-----------------------------------------------------------------------------
(* The handlers' commits.                                                   *)

NewAdmin(u, role, must) ==
  [NoAdmin EXCEPT !.exists = TRUE, !.role = role, !.active = TRUE, !.must = must,
                  !.pw = Minted(u)]

\* uq_admin_email: the second of two inserts of one address fails.
CreateAdmin(r) ==
  LET u == req[r].tgt IN
  /\ Loaded(r, "create")
  /\ IF users[u].exists
     THEN Drop(r) /\ UNCHANGED <<users, sess, audit, past>>
     ELSE /\ users' = [users EXCEPT ![u] = NewAdmin(u, req[r].arg, TRUE)]
          /\ past' = [past EXCEPT ![u].minted = @ + 1]
          /\ sess' = Seen(r)
          /\ Record(r, "role", None, req[r].arg)
          /\ Finish(r, <<"account", u>>)
  /\ UNCHANGED <<tries, left>>

ChangeRole(r) ==
  LET u == req[r].tgt IN
  /\ Loaded(r, "role")
  /\ users' = [users EXCEPT ![u].role = Assign(req[r].seen.role, req[r].arg, @)]
  /\ sess' = RevokeAll(u, Seen(r))
  /\ past' = Revoked(u)
  /\ Record(r, "role", req[r].seen.role, req[r].arg)
  /\ Finish(r, <<"account", u>>)
  /\ UNCHANGED <<tries, left>>

SetStatus(r) ==
  LET u == req[r].tgt IN
  /\ Loaded(r, "status")
  /\ users' = [users EXCEPT ![u].active = Assign(req[r].seen.active, req[r].arg, @)]
  /\ IF req[r].arg
     THEN sess' = Seen(r) /\ UNCHANGED past
     ELSE sess' = RevokeAll(u, Seen(r)) /\ past' = Revoked(u)
  /\ Record(r, "active", req[r].seen.active, req[r].arg)
  /\ Finish(r, <<"account", u>>)
  /\ UNCHANGED <<tries, left>>

\* The row after a reset: a new password, no failures, no lock.
ResetRow(r) ==
  LET u == req[r].tgt IN
  [users[u] EXCEPT !.pw = Minted(u), !.weak = FALSE,
     !.must = Assign(req[r].seen.must, TRUE, @),
     !.failed = Assign(req[r].seen.failed, 0, @),
     !.lock = Assign(req[r].seen.lock, "none", @)]

ForgetGuesses(r, u) ==
  [Revoked(u) EXCEPT ![u].minted = @ + 1,
                     ![u].guesses = IF req[r].seen.failed = 0 THEN @ ELSE 0,
                     ![u].crossed = @ \/ Overtaken(r, u)]

ResetPassword(r) ==
  LET u == req[r].tgt IN
  /\ Loaded(r, "reset")
  /\ users' = [users EXCEPT ![u] = ResetRow(r)]
  /\ sess' = RevokeAll(u, Seen(r))
  /\ past' = ForgetGuesses(r, u)
  /\ Record(r, "pw", None, None)
  /\ Finish(r, <<"account", u>>)
  /\ UNCHANGED <<tries, left>>

\* The change is committed first and its audit event in a second transaction.
ChangePassword(r) ==
  LET u == req[r].tgt IN
  /\ Loaded(r, "password")
  /\ users' = [users EXCEPT ![u].pw = Minted(u), ![u].weak = FALSE,
                            ![u].must = Assign(req[r].seen.must, FALSE, @)]
  /\ sess' = RevokeAll(u, Seen(r))
  /\ past' = [Revoked(u) EXCEPT ![u].minted = @ + 1]
  /\ req' = [q \in Requests |->
               IF q = r THEN [req[r] EXCEPT !.pc = "changed"]
               ELSE IF Busy(q) THEN [req[q] EXCEPT !.crossed = @ \cup {<<"account", u>>}]
               ELSE req[q]]
  /\ UNCHANGED <<tries, audit, left>>

AuditPassword(r) ==
  /\ req[r].pc = "changed"
  /\ Record(r, "pw", None, None)
  /\ Drop(r)
  /\ UNCHANGED <<users, sess, tries, past, left>>
-----------------------------------------------------------------------------
(* The command line.                                                        *)

CliRead(r, op, u) ==
  /\ ~Busy(r)
  /\ OneWrite
  /\ IF op = "bootstrap" THEN \A v \in Admins : ~users[v].exists ELSE users[u].exists
  /\ req' = [req EXCEPT ![r] = [IdleReq EXCEPT !.pc = "loaded", !.op = op, !.by = u,
               !.tgt = u, !.seen = users[u]]]
  /\ UNCHANGED <<users, sess, tries, audit, past>>

\* --role offers every role, with SUPER_ADMIN as its default.
Bootstrap(r, role, must) ==
  LET u == req[r].tgt IN
  /\ Loaded(r, "bootstrap")
  /\ IF users[u].exists
     THEN Drop(r) /\ UNCHANGED <<users, past>>
     ELSE /\ users' = [users EXCEPT ![u] = NewAdmin(u, role, must)]
          /\ past' = [past EXCEPT ![u].minted = @ + 1]
          /\ Finish(r, <<"account", u>>)
  /\ UNCHANGED <<sess, tries, audit, left>>

CliReset(r) ==
  LET u == req[r].tgt IN
  /\ Loaded(r, "cli_reset")
  /\ users' = [users EXCEPT ![u] = ResetRow(r)]
  /\ sess' = RevokeAll(u, sess)
  /\ past' = ForgetGuesses(r, u)
  /\ Finish(r, <<"account", u>>)
  /\ UNCHANGED <<tries, audit, left>>

CliUnlock(r) ==
  LET u == req[r].tgt IN
  /\ Loaded(r, "unlock")
  /\ users' = [users EXCEPT ![u].failed = Assign(req[r].seen.failed, 0, @),
                            ![u].lock = Assign(req[r].seen.lock, "none", @)]
  /\ past' = [past EXCEPT ![u].guesses = IF req[r].seen.failed = 0 THEN @ ELSE 0,
                          ![u].crossed = @ \/ Overtaken(r, u)]
  /\ Finish(r, <<"account", u>>)
  /\ UNCHANGED <<sess, tries, audit, left>>
-----------------------------------------------------------------------------
(* Time, and requests that die.                                             *)

Tick == left.ticks > 0 /\ left' = [left EXCEPT !.ticks = @ - 1]

SessionAges(s) ==
  /\ Tick
  /\ sess[s].state = "live"
  /\ \E age \in {"idle", "expired"} \ {sess[s].age} :
       sess[s].age # "expired" /\ sess' = [sess EXCEPT ![s].age = age]
  /\ UNCHANGED <<users, tries, req, audit, past>>

LockLapses(u) ==
  /\ Tick
  /\ users[u].lock = "held"
  /\ users' = [users EXCEPT ![u].lock = "lapsed"]
  /\ UNCHANGED <<sess, tries, req, audit, past>>

WindowPasses(ip) ==
  /\ Tick
  /\ tries[ip] > 0
  /\ tries' = [tries EXCEPT ![ip] = 0]
  /\ UNCHANGED <<users, sess, req, audit, past>>

RequestDies(r) ==
  /\ Busy(r) /\ left.crashes > 0
  /\ left' = [left EXCEPT !.crashes = @ - 1]
  /\ Drop(r)
  /\ UNCHANGED <<users, sess, tries, audit, past>>

SignInSteps(r) ==
  \/ \E u \in Admins, ip \in Ips : LoginThrottle(r, u, ip)
  \/ \E right \in BOOLEAN : LoginRead(r, right)
  \/ WrongPassword(r)
  \/ \E s \in Sessions : SignIn(r, s)

AccountSteps(r) ==
  \/ \E s \in Sessions : AskPassword(r, s) \/ \E u \in Admins : AskAccount(r, s, u)
  \/ \E right, canonical \in BOOLEAN : LoadAccount(r, right, canonical)
  \/ CreateAdmin(r) \/ ChangeRole(r) \/ SetStatus(r) \/ ResetPassword(r)
  \/ ChangePassword(r) \/ AuditPassword(r)
  \/ \E op \in {"bootstrap", "cli_reset", "unlock"}, u \in Admins : CliRead(r, op, u)
  \/ \E role \in GrantedRoles, must \in BOOLEAN : Bootstrap(r, role, must)
  \/ CliReset(r) \/ CliUnlock(r)

TimeSteps ==
  \/ \E s \in Sessions : IdleTimeout(s) \/ Logout(s) \/ SessionAges(s)
  \/ \E u \in Admins : LockLapses(u)
  \/ \E ip \in Ips : WindowPasses(ip)

AccountsNext ==
  \/ \E r \in Requests : SignInSteps(r) \/ AccountSteps(r) \/ RequestDies(r)
  \/ TimeSteps
=============================================================================
